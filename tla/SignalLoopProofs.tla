-------------------------- MODULE SignalLoopProofs --------------------------
(* Proofs about SignalLoop, for any rows, signals, generations and runs.    *)
EXTENDS SignalLoop, TLAPS

USE SignalAssumption DEF Signal, Gen

----------------------------------------------------------------------------
(* A loop has a signal in hand from the moment it got one until it leaves.  *)

Holding == {"got", "judge", "watch", "select", "mark", "final", "fire"}

HoldsSignal == \A g \in Gen : pc[g] \in Holding => sig[g] \in Signal

\* Every variable keeps its type, and a loop past its poll has a signal.
TypeInv == TypeOK /\ HoldsSignal

LEMMA InitType == Init => TypeInv
<1> SUFFICES ASSUME Init PROVE TypeInv
  OBVIOUS
<1>1. on \in BOOLEAN
  BY Zenon DEF Init
<1>2. TypeOK
  BY <1>1 DEF Init, TypeOK, NobodyTook, Seen, NeverEntered, NoRows
<1>3. HoldsSignal
  BY DEF Init, HoldsSignal, Holding
<1> QED BY <1>2, <1>3 DEF TypeInv

LEMMA MarkedType ==
  ASSUME TypeOK, NEW s \in Signal, NEW ts, NEW day \in Nat
  PROVE  Marked(s, ts, day) \in [Target \X Key -> Nat]
  BY DEF TypeOK, Marked

LEMMA LeaveType ==
  ASSUME TypeInv, NEW g \in Gen, NEW to \in {"top", "exit"}, Leave(g, to)
  PROVE  /\ pc' \in [Gen -> {"none", "top", "poll", "got", "judge", "watch",
                             "select", "mark", "final", "fire", "exit"}]
         /\ sig' \in [Gen -> 0 .. NSig]
         /\ prev' \in [Gen -> Seen]
         /\ todo' \in [Gen -> SUBSET Target]
         /\ pick' \in [Gen -> SUBSET Target]
         /\ fire' \in [Gen -> SUBSET Target]
         /\ marks' \in [Gen -> SUBSET Target]
         /\ HoldsSignal'
<1>1. NobodyTook \in Seen
  BY DEF NobodyTook, Seen
<1>2. HoldsSignal'
  BY DEF TypeInv, TypeOK, Leave, HoldsSignal, Holding
<1> QED BY <1>1, <1>2 DEF TypeInv, TypeOK, Leave

LEMMA GotoType ==
  ASSUME TypeInv, NEW g \in Gen, NEW to, Goto(g, to),
         to \in {"top", "poll", "exit", "select", "watch", "final", "fire"},
         pc[g] \in Holding \/ to \notin Holding
  PROVE  /\ pc' \in [Gen -> {"none", "top", "poll", "got", "judge", "watch",
                             "select", "mark", "final", "fire", "exit"}]
         /\ HoldsSignal'
  BY DEF TypeInv, TypeOK, Goto, HoldsSignal, Holding

LEMMA GiveBackType ==
  ASSUME TypeInv, NEW g \in Gen, sig[g] \in Signal, GiveBack(g)
  PROVE  /\ entered' \in [Target \X Key -> Nat]
         /\ seen' \in Seen
  <1>1. entered' \in [Target \X Key -> Nat]
    BY MarkedType DEF GiveBack, TypeInv
  <1>2. seen' \in Seen
    BY DEF GiveBack, TypeInv, TypeOK
  <1> QED BY <1>1, <1>2

LEMMA StartLoopType ==
  ASSUME TypeInv, StartLoop
  PROVE  /\ gen' \in 0 .. MaxGen /\ on' \in BOOLEAN
         /\ pc' \in [Gen -> {"none", "top", "poll", "got", "judge", "watch",
                             "select", "mark", "final", "fire", "exit"}]
         /\ sig' = sig => HoldsSignal'
  BY DEF TypeInv, TypeOK, StartLoop, HoldsSignal, Holding

----------------------------------------------------------------------------
LEMMA TypeStep == TypeInv /\ [Next]_vars => TypeInv'
<1> SUFFICES ASSUME TypeInv, [Next]_vars PROVE TypeInv'
  OBVIOUS
<1> USE DEF server, armVars, book, loop, threads, disk, history
<1>1. CASE Publish
  <2>1. pub' \in 0 .. NSig
    BY <1>1 DEF Publish, TypeInv, TypeOK
  <2> QED BY <1>1, <2>1 DEF Publish, TypeInv, TypeOK, HoldsSignal
<1>2. CASE Age
  <2>1. aged' \subseteq Signal
    BY <1>2 DEF Age, TypeInv, TypeOK
  <2> QED BY <1>2, <2>1 DEF Age, TypeInv, TypeOK, HoldsSignal
<1>3. CASE Launch
  <2>1. boot' \in 0 .. MaxBoot /\ boots' \in 0 .. MaxBoot
    BY <1>3 DEF Launch, TypeInv, TypeOK
  <2> QED BY <1>3, <2>1 DEF Launch, TypeInv, TypeOK, HoldsSignal
<1>4. CASE Crash
  <2>1. on' \in BOOLEAN
    BY <1>4, Zenon DEF Crash
  <2>2. /\ NobodyTook \in Seen /\ NeverEntered \in [Asset -> Nat]
        /\ NoRows \in [Gen -> SUBSET Target]
    BY DEF NobodyTook, Seen, NeverEntered, NoRows
  <2>3. HoldsSignal'
    BY <1>4 DEF Crash, HoldsSignal, Holding
  <2>4. /\ entered' \in [Target \X Key -> Nat]
        /\ fired' \in [Signal \X Target -> Nat]
        /\ snap' \in [Signal \X Target -> [Asset -> Nat]]
        /\ thread' \in [Signal \X Target -> {"none", "run", "save"}]
    BY <1>4, <2>2 DEF Crash
  <2>5. /\ pc' \in [Gen -> {"none", "top", "poll", "got", "judge", "watch",
                             "select", "mark", "final", "fire", "exit"}]
        /\ sig' \in [Gen -> 0 .. NSig]
        /\ prev' \in [Gen -> Seen]
    BY <1>4, <2>2 DEF Crash
  <2>6. /\ boot' \in 0 .. MaxBoot /\ gen' \in 0 .. MaxGen
        /\ armed' = {} /\ rowOff' = {} /\ told' = {}
        /\ seen' = NobodyTook /\ enteredAt' = NeverEntered
        /\ todo' = NoRows /\ pick' = NoRows /\ fire' = NoRows /\ marks' = NoRows
        /\ UNCHANGED <<pub, aged, file, boots, confirmed>>
    BY <1>4 DEF Crash
  <2> QED BY <2>1, <2>2, <2>3, <2>4, <2>5, <2>6 DEF TypeInv, TypeOK
<1>5. CASE Stop
  BY <1>5 DEF Stop, TypeInv, TypeOK, HoldsSignal
<1>6. ASSUME NEW t \in Target, Arm(t) PROVE TypeInv'
  <2>1. CASE on
    BY <1>6, <2>1 DEF Arm, TypeInv, TypeOK, HoldsSignal
  <2>2. CASE ~on
    BY <1>6, <2>2, StartLoopType DEF Arm, TypeInv, TypeOK
  <2> QED BY <2>1, <2>2
<1>7. ASSUME NEW t \in Target, Disarm(t) PROVE TypeInv'
  BY <1>7 DEF Disarm, TypeInv, TypeOK, HoldsSignal
<1>8. ASSUME NEW t \in Target, RowOff(t) PROVE TypeInv'
  BY <1>8 DEF RowOff, TypeInv, TypeOK, HoldsSignal
<1>9. ASSUME NEW g \in Gen, LoopStep(g) PROVE TypeInv'
  <2>1. CASE While(g)
    BY <2>1, GotoType DEF While, Goto, TypeInv, TypeOK, Holding
  <2>2. CASE Poll(g)
    <3>1. HoldsSignal'
      BY <2>2 DEF Poll, TypeInv, TypeOK, HoldsSignal, Holding
    <3> QED BY <2>2, <3>1 DEF Poll, TypeInv, TypeOK
  <2>3. CASE PollFails(g)
    BY <2>3, GotoType DEF PollFails, Goto, TypeInv, TypeOK, Holding
  <2>4. CASE TakeRefused(g)
    BY <2>4, LeaveType DEF TakeRefused, TypeInv, TypeOK
  <2>5. CASE Take(g)
    <3>1. seen' \in Seen /\ Targets(sig[g]) \subseteq Target
      BY <2>5 DEF Take, TypeInv, TypeOK, HoldsSignal, Holding, Seen, Targets
    <3>2. CASE Targets(sig[g]) = {}
      BY <2>5, <3>1, <3>2, LeaveType DEF Take, TypeInv, TypeOK
    <3>3. CASE Targets(sig[g]) # {}
      <4>1. HoldsSignal'
        BY <2>5, <3>3 DEF Take, TypeInv, TypeOK, HoldsSignal, Holding
      <4>2. /\ prev' = [prev EXCEPT ![g] = seen]
            /\ todo' = [todo EXCEPT ![g] = Targets(sig[g])]
            /\ pc' = [pc EXCEPT ![g] = "judge"]
        BY <2>5, <3>3 DEF Take
      <4>3. /\ todo' \in [Gen -> SUBSET Target]
            /\ prev' \in [Gen -> Seen]
            /\ pc' \in [Gen -> {"none", "top", "poll", "got", "judge", "watch",
                                "select", "mark", "final", "fire", "exit"}]
        BY <3>1, <4>2 DEF TypeInv, TypeOK
      <4>4. UNCHANGED <<server, boot, armVars, entered, enteredAt, sig, pick,
                        fire, marks, threads, disk, history>>
        BY <2>5, <3>3 DEF Take
      <4> QED BY <3>1, <4>1, <4>2, <4>3, <4>4 DEF TypeInv, TypeOK
    <3> QED BY <3>2, <3>3
  <2>6. CASE Judge(g)
    <3>1. sig[g] \in Signal /\ pc[g] \in Holding
      BY <2>6 DEF Judge, TypeInv, HoldsSignal, Holding
    <3>2. CASE Leave(g, "top") /\ UNCHANGED book
      BY <2>6, <3>2, LeaveType DEF Judge, TypeInv, TypeOK
    <3>3. CASE GiveBack(g)
      BY <2>6, <3>1, <3>3, GiveBackType, LeaveType
         DEF Judge, GiveBack, TypeInv, TypeOK
    <3>4. CASE (\E to \in {"select", "watch"} : Goto(g, to)) /\ UNCHANGED book
      BY <2>6, <3>1, <3>4, GotoType DEF Judge, Goto, TypeInv, TypeOK
    <3> QED BY <2>6, <3>2, <3>3, <3>4 DEF Judge
  <2>7. CASE Watch(g)
    <3>1. sig[g] \in Signal /\ todo[g] \subseteq Target
      BY <2>7 DEF Watch, TypeInv, TypeOK, HoldsSignal, Holding
    <3>2. entered' \in [Target \X Key -> Nat]
      BY <2>7, <3>1, MarkedType DEF Watch, TypeInv
    <3>3. told' \subseteq Signal \X Target
      BY <2>7, <3>1 DEF Watch, TypeInv, TypeOK
    <3> QED BY <2>7, <3>2, <3>3, LeaveType DEF Watch, TypeInv, TypeOK
  <2>8. CASE Mark(g)
    <3>1. sig[g] \in Signal /\ pick[g] \subseteq Target
      BY <2>8 DEF Mark, TypeInv, TypeOK, HoldsSignal, Holding
    <3>2. entered' \in [Target \X Key -> Nat]
      BY <2>8, <3>1, MarkedType DEF Mark, TypeInv
    <3> QED BY <2>8, <3>1, <3>2 DEF Mark, TypeInv, TypeOK, HoldsSignal, Holding
  <2>9. CASE Selected(g)
    <3>1. sig[g] \in Signal /\ pc[g] \in Holding
      BY <2>9 DEF Selected, TypeInv, HoldsSignal, Holding
    <3>2. told' \subseteq Signal \X Target
      BY <2>9, <3>1 DEF Selected, TypeInv, TypeOK
    <3>3. CASE Leave(g, "top")
      BY <2>9, <3>2, <3>3, LeaveType DEF Selected, TypeInv, TypeOK
    <3>4. CASE Goto(g, "final")
      BY <2>9, <3>1, <3>2, <3>4, GotoType DEF Selected, Goto, TypeInv, TypeOK
    <3> QED BY <2>9, <3>3, <3>4 DEF Selected
  <2>10. CASE Hold(g)
    <3>1. sig[g] \in Signal
      BY <2>10 DEF Hold, TypeInv, HoldsSignal, Holding
    <3>2. told' \subseteq Signal \X Target
      BY <2>10, <3>1 DEF Hold, TypeInv, TypeOK
    <3> QED BY <2>10, <3>2, LeaveType DEF Hold, TypeInv, TypeOK
  <2>11. CASE Final(g)
    <3>1. sig[g] \in Signal /\ pc[g] \in Holding
      BY <2>11 DEF Final, TypeInv, HoldsSignal, Holding
    <3>2. CASE Goto(g, "fire") /\ UNCHANGED book
      BY <2>11, <3>1, <3>2, GotoType DEF Final, Goto, TypeInv, TypeOK
    <3>3. CASE GiveBack(g)
      BY <2>11, <3>1, <3>3, GiveBackType, LeaveType
         DEF Final, GiveBack, TypeInv, TypeOK
    <3> QED BY <2>11, <3>2, <3>3 DEF Final
  <2>12. ASSUME NEW t \in Target, Select(g, t) PROVE TypeInv'
    <3>1. sig[g] \in Signal
      BY <2>12 DEF Select, TypeInv, HoldsSignal, Holding
    <3>2. entered' \in [Target \X Key -> Nat]
      <4>1. SigDay[sig[g]] \in Nat
        BY <3>1
      <4>2. Marked(sig[g], {t}, SigDay[sig[g]]) \in [Target \X Key -> Nat]
        BY <3>1, <4>1, MarkedType DEF TypeInv
      <4> QED BY <2>12, <4>2 DEF Select, TypeInv, TypeOK
    <3>3. told' \subseteq Signal \X Target
      BY <2>12, <3>1 DEF Select, TypeInv, TypeOK
    <3>4. /\ pc' \in [Gen -> {"none", "top", "poll", "got", "judge", "watch",
                               "select", "mark", "final", "fire", "exit"}]
          /\ pick' \in [Gen -> SUBSET Target]
          /\ todo' \in [Gen -> SUBSET Target]
      <4>1. todo' \in [Gen -> SUBSET Target]
        BY <2>12 DEF Select, TypeInv, TypeOK
      <4>2. CASE UNCHANGED <<pick, pc>>
        BY <4>1, <4>2 DEF TypeInv, TypeOK
      <4>3. CASE /\ pick' = [pick EXCEPT ![g] = {t}]
                 /\ pc' = [pc EXCEPT ![g] = "mark"]
        BY <4>1, <4>3 DEF TypeInv, TypeOK
      <4> QED BY <2>12, <4>2, <4>3 DEF Select
    <3>5. HoldsSignal'
      BY <2>12, <3>1 DEF Select, TypeInv, TypeOK, HoldsSignal, Holding
    <3>6. UNCHANGED <<server, boot, armVars, seen, enteredAt, sig, prev, fire,
                      marks, threads, disk, fired, confirmed>>
      BY <2>12 DEF Select
    <3> QED BY <3>2, <3>3, <3>4, <3>5, <3>6 DEF TypeInv, TypeOK
  <2>13. ASSUME NEW t \in Target, Dispatch(g, t) PROVE TypeInv'
    <3>1. sig[g] \in Signal
      BY <2>13 DEF Dispatch, TypeInv, HoldsSignal, Holding
    <3>2. /\ thread' \in [Signal \X Target -> {"none", "run", "save"}]
          /\ fired' \in [Signal \X Target -> Nat]
      <4>1. fired[<<sig[g], t>>] + 1 \in Nat
        <5>1. <<sig[g], t>> \in Signal \X Target
          BY <3>1
        <5>2. fired \in [Signal \X Target -> Nat]
          BY DEF TypeInv, TypeOK
        <5> QED BY <5>1, <5>2
      <4> QED BY <2>13, <3>1, <4>1 DEF Dispatch, TypeInv, TypeOK
    <3>3. CASE fire[g] = {t}
      BY <2>13, <3>2, <3>3, LeaveType DEF Dispatch, TypeInv, TypeOK
    <3>4. CASE fire[g] # {t}
      <4>1. fire' \in [Gen -> SUBSET Target] /\ HoldsSignal'
        BY <2>13, <3>4 DEF Dispatch, TypeInv, TypeOK, HoldsSignal
      <4> QED BY <2>13, <3>2, <3>4, <4>1 DEF Dispatch, TypeInv, TypeOK
    <3> QED BY <3>3, <3>4
  <2> QED
    BY <1>9, <2>1, <2>2, <2>3, <2>4, <2>5, <2>6, <2>7, <2>8, <2>9, <2>10,
       <2>11, <2>12, <2>13 DEF LoopStep
<1>10. ASSUME NEW s \in Signal, NEW t \in Target, ThreadStep(s, t)
       PROVE  TypeInv'
  <2>1. CASE EntryFails(s, t)
    BY <2>1 DEF EntryFails, TypeInv, TypeOK, HoldsSignal
  <2>2. CASE EntryConfirmed(s, t)
    <3>1. [file EXCEPT ![SigAsset[s]] = pub] \in [Asset -> Nat]
      BY DEF TypeInv, TypeOK
    <3> QED BY <2>2, <3>1 DEF EntryConfirmed, TypeInv, TypeOK, HoldsSignal
  <2>3. CASE EntryRecorded(s, t)
    <3>1. NeverEntered \in [Asset -> Nat] /\ snap[<<s, t>>] \in [Asset -> Nat]
      BY DEF TypeInv, TypeOK, NeverEntered
    <3> QED BY <2>3, <3>1 DEF EntryRecorded, TypeInv, TypeOK, HoldsSignal
  <2> QED BY <1>10, <2>1, <2>2, <2>3 DEF ThreadStep
<1>11. CASE UNCHANGED vars
  BY <1>11 DEF vars, TypeInv, TypeOK, HoldsSignal
<1> QED
  BY <1>1, <1>2, <1>3, <1>4, <1>5, <1>6, <1>7, <1>8, <1>9, <1>10, <1>11
     DEF Next, Member

\* The variables of the signal loop keep their types.
THEOREM TypeCorrect == Spec => []TypeOK
<1>1. TypeInv => TypeOK
  BY DEF TypeInv
<1> QED BY InitType, TypeStep, <1>1, PTL DEF Spec

----------------------------------------------------------------------------
(* No orphan marks.  The invariant follows what becomes of the rows a loop  *)
(* has marked: while it sorts them they are to be fired or manual, then     *)
(* each one is to be fired, or is fired, or has been told.                  *)

Sorting == {"select", "mark"}
Firing == {"final", "fire"}

Kept(g) ==
  /\ pc[g] \notin Sorting \union Firing => marks[g] = {}
  /\ pc[g] \in Sorting => marks[g] \subseteq fire[g] \union Manual
  /\ pc[g] \in Firing =>
       \A t \in marks[g] :
         \/ t \in fire[g]
         \/ <<sig[g], t>> \in told
         \/ fired[<<sig[g], t>>] > 0

MarksKept == \A g \in Gen : Kept(g)

\* Generations not started yet have no loop.
FreshGens == \A g \in Gen : g > gen => pc[g] = "none"

MarkInv == MarksKept /\ NoOrphanMark /\ FreshGens

\* What was answered stays answered within a run.
Grows ==
  /\ told \subseteq told'
  /\ \A st \in Signal \X Target : fired[st] > 0 => fired'[st] > 0

\* Marks stay backed through a step of loop g if the marks g lets go of are
\* answered, withdrawn or kept, and new marks have a cause.
LEMMA BackedStep ==
  ASSUME TypeInv, NoOrphanMark, Grows, NEW g \in Gen,
         \A h \in Gen \ {g} : marks'[h] = marks[h] /\ sig'[h] = sig[h],
         \A t \in marks[g] :
           \/ t \in marks'[g] /\ sig'[g] = sig[g]
           \/ sig[g] \in Signal /\ <<sig[g], t>> \in told'
           \/ sig[g] \in Signal /\ fired'[<<sig[g], t>>] > 0
           \/ entered'[<<t, SigKey[sig[g]]>>] = 0,
         \A t \in Target, k \in Key :
           entered'[<<t, k>>] # 0 =>
             \/ entered'[<<t, k>>] = entered[<<t, k>>]
             \/ Backed(t, k, entered[<<t, k>>])'
  PROVE  NoOrphanMark'
<1> SUFFICES ASSUME NEW t \in Target, NEW k \in Key, entered'[<<t, k>>] # 0,
                    entered'[<<t, k>>] = entered[<<t, k>>]
             PROVE  Backed(t, k, entered[<<t, k>>])'
  BY DEF NoOrphanMark
<1>1. Backed(t, k, entered[<<t, k>>])
  BY DEF NoOrphanMark
<1>2. ASSUME NEW s \in Signal, SigKey[s] = k, SigDay[s] = entered[<<t, k>>],
             fired[<<s, t>>] > 0 \/ <<s, t>> \in told
      PROVE  Backed(t, k, entered[<<t, k>>])'
  <2>1. fired'[<<s, t>>] > 0 \/ <<s, t>> \in told'
    BY <1>2 DEF Grows
  <2> QED BY <1>2, <2>1 DEF Backed
<1>3. ASSUME NEW h \in Gen, t \in marks[h],
             SigKey[sig[h]] = k, SigDay[sig[h]] = entered[<<t, k>>]
      PROVE  Backed(t, k, entered[<<t, k>>])'
  <2>1. CASE h # g
    BY <1>3, <2>1 DEF Backed
  <2>2. CASE h = g /\ t \in marks'[g] /\ sig'[g] = sig[g]
    BY <1>3, <2>2 DEF Backed
  <2>3. CASE h = g /\ sig[g] \in Signal /\
             (<<sig[g], t>> \in told' \/ fired'[<<sig[g], t>>] > 0)
    BY <1>3, <2>3 DEF Backed
  <2> QED BY <1>3, <2>1, <2>2, <2>3
<1> QED BY <1>1, <1>2, <1>3 DEF Backed

LEMMA MarkInit == Init => MarkInv
  BY DEF Init, MarkInv, MarksKept, Kept, NoOrphanMark, FreshGens, NoRows, Sorting,
         Firing

\* A step that touches neither marks, signals in hand nor answers.
LEMMA MarkSame ==
  ASSUME MarksKept, NoOrphanMark,
         entered' = entered, sig' = sig, fire' = fire, marks' = marks,
         fired' = fired, told' = told,
         \A g \in Gen : pc'[g] # pc[g] => marks[g] = {} /\ pc'[g] \notin Firing
  PROVE  MarksKept' /\ NoOrphanMark'
<1>1. MarksKept'
  BY DEF MarksKept, Kept, Sorting, Firing
<1>2. ASSUME NEW t \in Target, NEW k \in Key, entered[<<t, k>>] # 0
      PROVE  Backed(t, k, entered[<<t, k>>])'
  <2>1. Backed(t, k, entered[<<t, k>>])
    BY <1>2 DEF NoOrphanMark
  <2> QED BY <2>1 DEF Backed
<1> QED BY <1>1, <1>2 DEF NoOrphanMark

\* The loops other than g keep their locals.
Others(g) ==
  \A h \in Gen \ {g} :
    /\ pc'[h] = pc[h] /\ sig'[h] = sig[h]
    /\ fire'[h] = fire[h] /\ marks'[h] = marks[h]

LEMMA LeaveOthers ==
  ASSUME TypeInv, NEW g \in Gen, NEW to, Leave(g, to)
  PROVE  /\ Others(g)
         /\ pc'[g] = to /\ marks'[g] = {} /\ fire'[g] = {}
  BY DEF TypeInv, TypeOK, Leave, Others

LEMMA GotoOthers ==
  ASSUME TypeInv, NEW g \in Gen, NEW to, Goto(g, to)
  PROVE  /\ Others(g)
         /\ pc'[g] = to
         /\ marks' = marks /\ fire' = fire /\ sig' = sig
  BY DEF TypeInv, TypeOK, Goto, Others

LEMMA KeptStep ==
  ASSUME TypeInv, MarksKept, Grows, NEW g \in Gen, Others(g), Kept(g)'
  PROVE  MarksKept'
<1> SUFFICES ASSUME NEW h \in Gen \ {g} PROVE Kept(h)'
  BY DEF MarksKept
<1>1. Kept(h)
  BY DEF MarksKept
<1>2. ASSUME NEW t \in marks[h], pc[h] \in Firing
      PROVE  <<sig[h], t>> \in Signal \X Target
  BY <1>2 DEF TypeInv, TypeOK, HoldsSignal, Holding, Firing
<1> QED BY <1>1, <1>2 DEF Kept, Others, Grows

\* A step of a loop that holds no marks before and after.
LEMMA MarkEmpty ==
  ASSUME TypeInv, MarksKept, NoOrphanMark, Grows, NEW g \in Gen, Others(g),
         pc[g] \notin Sorting \union Firing, marks'[g] = {},
         \A t \in Target, k \in Key :
           entered'[<<t, k>>] # 0 =>
             \/ entered'[<<t, k>>] = entered[<<t, k>>]
             \/ Backed(t, k, entered[<<t, k>>])'
  PROVE  MarksKept' /\ NoOrphanMark'
<1>1. marks[g] = {}
  BY DEF MarksKept, Kept
<1>2. MarksKept'
  BY KeptStep DEF Kept
<1>3. NoOrphanMark'
  BY <1>1, BackedStep DEF Others
<1> QED BY <1>2, <1>3

LEMMA MarkStep == TypeInv /\ MarkInv /\ [Next]_vars => MarkInv'
<1> SUFFICES ASSUME TypeInv, MarkInv, [Next]_vars PROVE MarkInv'
  OBVIOUS
<1> USE DEF server, armVars, book, loop, threads, disk, history
<1>0. MarksKept /\ NoOrphanMark /\ FreshGens
  BY DEF MarkInv
<1>1. CASE Publish \/ Age \/ Launch \/ Stop \/ UNCHANGED vars
  <2>1. /\ entered' = entered /\ sig' = sig /\ fire' = fire /\ marks' = marks
        /\ fired' = fired /\ told' = told /\ pc' = pc /\ gen' = gen
    BY <1>1 DEF Publish, Age, Launch, Stop, vars
  <2>2. FreshGens'
    BY <1>0, <2>1 DEF FreshGens
  <2>3. \A g \in Gen : pc'[g] # pc[g] => marks[g] = {} /\ pc'[g] \notin Firing
    BY <2>1
  <2>4. MarksKept' /\ NoOrphanMark'
    BY <1>0, <2>1, <2>3, MarkSame
  <2> QED BY <2>2, <2>4 DEF MarkInv
<1>2. CASE Crash
  BY <1>2 DEF Crash, MarkInv, MarksKept, Kept, NoOrphanMark, FreshGens, NoRows,
              Sorting, Firing
<1>3. ASSUME NEW t \in Target, Arm(t) \/ Disarm(t) \/ RowOff(t) PROVE MarkInv'
  <2>1. /\ entered' = entered /\ sig' = sig /\ fire' = fire /\ marks' = marks
        /\ fired' = fired /\ told' = told
    BY <1>3 DEF Arm, Disarm, RowOff
  <2>2. CASE pc' = pc /\ gen' = gen
    <3>1. FreshGens'
      BY <1>0, <2>2 DEF FreshGens
    <3>2. \A g \in Gen : pc'[g] # pc[g] => marks[g] = {} /\ pc'[g] \notin Firing
      BY <2>2
    <3>3. MarksKept' /\ NoOrphanMark'
      BY <1>0, <2>1, <3>2, MarkSame
    <3> QED BY <3>1, <3>3 DEF MarkInv
  <2>3. CASE StartLoop
    <3>1. gen' = gen + 1 /\ gen' \in Gen /\ pc' = [pc EXCEPT ![gen'] = "top"]
      BY <2>3 DEF StartLoop, TypeInv, TypeOK
    <3>2. pc[gen'] = "none" /\ marks[gen'] = {}
      <4>1. gen' > gen
        BY <3>1 DEF TypeInv, TypeOK
      <4>2. pc[gen'] = "none"
        BY <1>0, <3>1, <4>1 DEF FreshGens
      <4> QED BY <1>0, <3>1, <4>2 DEF MarksKept, Kept, Sorting, Firing
    <3>3. \A g \in Gen : pc'[g] # pc[g] => marks[g] = {} /\ pc'[g] \notin Firing
      <4>1. DOMAIN pc = Gen
        BY DEF TypeInv, TypeOK
      <4>2. \A g \in Gen \ {gen'} : pc'[g] = pc[g]
        BY <3>1, <4>1
      <4> QED BY <3>1, <3>2, <4>1, <4>2 DEF Firing
    <3>4. FreshGens'
      BY <1>0, <3>1 DEF FreshGens, TypeInv, TypeOK
    <3> QED BY <1>0, <2>1, <3>3, <3>4, MarkSame DEF MarkInv
  <2> QED BY <1>3, <2>2, <2>3 DEF Arm, Disarm, RowOff
<1>4. ASSUME NEW s \in Signal, NEW t \in Target, ThreadStep(s, t) PROVE MarkInv'
  <2>1. /\ entered' = entered /\ sig' = sig /\ fire' = fire /\ marks' = marks
        /\ fired' = fired /\ told' = told /\ pc' = pc /\ gen' = gen
    BY <1>4 DEF ThreadStep, EntryFails, EntryConfirmed, EntryRecorded
  <2>2. FreshGens'
    BY <1>0, <2>1 DEF FreshGens
  <2>3. \A g \in Gen : pc'[g] # pc[g] => marks[g] = {} /\ pc'[g] \notin Firing
    BY <2>1
  <2>4. MarksKept' /\ NoOrphanMark'
    BY <1>0, <2>1, <2>3, MarkSame
  <2> QED BY <2>2, <2>4 DEF MarkInv
<1>5. ASSUME NEW g \in Gen, LoopStep(g) PROVE MarkInv'
  <2>0. FreshGens'
    <3>1. pc[g] # "none" /\ gen' = gen
      BY <1>5 DEF LoopStep, While, Poll, PollFails, Take, TakeRefused, Judge,
                  Watch, Mark, Selected, Hold, Final, Select, Dispatch
    <3>2. \A h \in Gen \ {g} : pc'[h] = pc[h]
      <4>1. DOMAIN pc = Gen
        BY DEF TypeInv, TypeOK
      <4>2. pc' = pc \/ \E to : pc' = [pc EXCEPT ![g] = to]
        BY <1>5 DEF LoopStep, While, Poll, PollFails, Take, TakeRefused, Judge,
                    GiveBack, Watch, Mark, Selected, Hold, Final, Select,
                    Dispatch, Leave, Goto
      <4> QED BY <4>1, <4>2
    <3> QED BY <1>0, <3>1, <3>2 DEF FreshGens
  <2>1. CASE While(g) \/ PollFails(g)
    <3>1. PICK to : Goto(g, to)
      BY <2>1 DEF While, PollFails
    <3>2. /\ pc[g] \notin Sorting \union Firing
          /\ entered' = entered /\ told' = told /\ fired' = fired
      BY <2>1 DEF While, PollFails, Sorting, Firing
    <3>3. marks[g] = {}
      BY <1>0, <3>2 DEF MarksKept, Kept
    <3> QED BY <1>0, <2>0, <3>1, <3>2, <3>3, GotoOthers, MarkEmpty
            DEF MarkInv, Grows
  <2>2. CASE Poll(g)
    <3>1. /\ pc[g] \notin Sorting \union Firing /\ Others(g) /\ marks' = marks
          /\ entered' = entered /\ told' = told /\ fired' = fired
      BY <2>2 DEF Poll, Sorting, Firing, Others, TypeInv, TypeOK
    <3>2. marks[g] = {}
      BY <1>0, <3>1 DEF MarksKept, Kept
    <3> QED BY <1>0, <2>0, <3>1, <3>2, MarkEmpty DEF MarkInv, Grows
  <2>3. CASE TakeRefused(g)
    <3>1. /\ pc[g] \notin Sorting \union Firing /\ Leave(g, "top")
          /\ entered' = entered /\ told' = told /\ fired' = fired
      BY <2>3 DEF TakeRefused, Sorting, Firing
    <3> QED BY <1>0, <2>0, <3>1, LeaveOthers, MarkEmpty DEF MarkInv, Grows
  <2>4. CASE Take(g)
    <3>1. /\ pc[g] \notin Sorting \union Firing
          /\ entered' = entered /\ told' = told /\ fired' = fired
      BY <2>4 DEF Take, Sorting, Firing
    <3>2. Others(g) /\ marks'[g] = {}
      <4>1. CASE Leave(g, "top")
        BY <4>1, LeaveOthers
      <4>2. CASE pc' = [pc EXCEPT ![g] = "judge"] /\ UNCHANGED <<sig, fire, marks>>
        BY <1>0, <3>1, <4>2 DEF Others, MarksKept, Kept, TypeInv, TypeOK
      <4> QED BY <2>4, <4>1, <4>2 DEF Take
    <3> QED BY <1>0, <2>0, <3>1, <3>2, MarkEmpty DEF MarkInv, Grows
  <2>5. CASE Judge(g)
    <3>1. /\ pc[g] \notin Sorting \union Firing
          /\ told' = told /\ fired' = fired
      BY <2>5 DEF Judge, Sorting, Firing
    <3>2. marks[g] = {}
      BY <1>0, <3>1 DEF MarksKept, Kept
    <3>3. Others(g) /\ marks'[g] = {}
      <4>1. CASE \E to : Leave(g, to)
        BY <4>1, LeaveOthers
      <4>2. CASE \E to : Goto(g, to)
        BY <3>2, <4>2, GotoOthers
      <4> QED BY <2>5, <4>1, <4>2 DEF Judge, GiveBack
    <3>4. \A t \in Target, k \in Key : entered'[<<t, k>>] = entered[<<t, k>>]
      BY <2>5, <3>2 DEF Judge, GiveBack, Marked
    <3> QED BY <1>0, <2>0, <3>1, <3>3, <3>4, MarkEmpty DEF MarkInv, Grows
  <2>6. CASE Watch(g)
    <3>1. /\ pc[g] \notin Sorting \union Firing /\ sig[g] \in Signal
          /\ fired' = fired /\ told \subseteq told'
      BY <2>6 DEF Watch, Sorting, Firing, TypeInv, HoldsSignal, Holding
    <3>2. Others(g) /\ marks'[g] = {}
      BY <2>6, LeaveOthers DEF Watch
    <3>3. ASSUME NEW t \in Target, NEW k \in Key, entered'[<<t, k>>] # 0,
                 entered'[<<t, k>>] # entered[<<t, k>>]
          PROVE  Backed(t, k, entered[<<t, k>>])'
      <4>1. /\ t \in todo[g] /\ k = SigKey[sig[g]]
            /\ entered'[<<t, k>>] = SigDay[sig[g]]
        BY <2>6, <3>3 DEF Watch, Marked
      <4>2. <<sig[g], t>> \in told'
        BY <2>6, <3>3, <4>1 DEF Watch, EnteredToday
      <4> QED BY <3>1, <4>1, <4>2 DEF Backed
    <3> QED BY <1>0, <2>0, <3>1, <3>2, <3>3, MarkEmpty DEF MarkInv, Grows
  <2>7. ASSUME NEW t \in Target, Select(g, t) PROVE MarkInv'
    <3>1. /\ sig' = sig /\ marks' = marks /\ fire' = fire /\ fired' = fired
          /\ Others(g) /\ told \subseteq told'
          /\ pc[g] = "select" /\ pc'[g] \in Sorting /\ sig[g] \in Signal
      BY <2>7 DEF Select, Others, Sorting, TypeInv, TypeOK, HoldsSignal, Holding
    <3>2. MarksKept'
      <4>1. Kept(g)'
        BY <1>0, <3>1 DEF MarksKept, Kept, Sorting, Firing
      <4> QED BY <1>0, <3>1, <4>1, KeptStep DEF Grows
    <3>3. ASSUME NEW u \in Target, NEW k \in Key, entered'[<<u, k>>] # 0,
                 entered'[<<u, k>>] # entered[<<u, k>>]
          PROVE  Backed(u, k, entered[<<u, k>>])'
      <4>1. /\ u = t /\ k = SigKey[sig[g]] /\ entered'[<<u, k>>] = SigDay[sig[g]]
            /\ <<sig[g], t>> \in told'
        BY <2>7, <3>3 DEF Select, Marked
      <4> QED BY <3>1, <4>1 DEF Backed
    <3>4. NoOrphanMark'
      BY <1>0, <3>1, <3>3, BackedStep DEF Grows, Others
    <3> QED BY <2>0, <3>2, <3>4 DEF MarkInv
  <2>8. CASE Mark(g)
    <3>1. /\ sig' = sig /\ told' = told /\ fired' = fired /\ Others(g)
          /\ pc[g] = "mark" /\ pc'[g] = "select" /\ sig[g] \in Signal
          /\ marks'[g] = marks[g] \union pick[g]
          /\ fire'[g] = fire[g] \union (pick[g] \ Manual)
      BY <2>8 DEF Mark, Others, TypeInv, TypeOK, HoldsSignal, Holding
    <3>2. MarksKept'
      <4>1. Kept(g)'
        BY <1>0, <3>1 DEF MarksKept, Kept, Sorting, Firing
      <4> QED BY <1>0, <3>1, <4>1, KeptStep DEF Grows
    <3>3. ASSUME NEW u \in Target, NEW k \in Key, entered'[<<u, k>>] # 0,
                 entered'[<<u, k>>] # entered[<<u, k>>]
          PROVE  Backed(u, k, entered[<<u, k>>])'
      <4>1. u \in pick[g] /\ k = SigKey[sig[g]] /\ entered'[<<u, k>>] = SigDay[sig[g]]
        BY <2>8, <3>3 DEF Mark, Marked
      <4> QED BY <3>1, <4>1 DEF Backed
    <3>4. NoOrphanMark'
      BY <1>0, <3>1, <3>3, BackedStep DEF Grows, Others
    <3> QED BY <2>0, <3>2, <3>4 DEF MarkInv
  <2>9. CASE Selected(g)
    <3>1. /\ entered' = entered /\ fired' = fired /\ pc[g] = "select"
          /\ told' = told \union ({sig[g]} \X (marks[g] \intersect Manual))
          /\ sig[g] \in Signal
      BY <2>9 DEF Selected, TypeInv, HoldsSignal, Holding
    <3>2. marks[g] \subseteq fire[g] \union Manual
      BY <1>0, <3>1 DEF MarksKept, Kept, Sorting
    <3>3. \A t \in marks[g] : t \in fire[g] \/ <<sig[g], t>> \in told'
      BY <3>1, <3>2
    <3>4. CASE fire[g] = {} /\ Leave(g, "top")
      <4>1. Others(g) /\ pc'[g] = "top" /\ marks'[g] = {}
        BY <3>4, LeaveOthers
      <4>2. Kept(g)'
        BY <4>1 DEF Kept, Sorting, Firing
      <4>3. MarksKept'
        BY <1>0, <3>1, <4>1, <4>2, KeptStep DEF Grows
      <4>4. NoOrphanMark'
        BY <1>0, <3>1, <3>3, <3>4, <4>1, BackedStep DEF Grows, Others
      <4> QED BY <2>0, <4>3, <4>4 DEF MarkInv
    <3>5. CASE Goto(g, "final")
      <4>1. /\ Others(g) /\ pc'[g] = "final" /\ marks' = marks /\ fire' = fire
            /\ sig' = sig
        BY <3>5, GotoOthers
      <4>2. Kept(g)'
        BY <3>3, <4>1 DEF Kept, Sorting, Firing
      <4>3. MarksKept'
        BY <1>0, <3>1, <4>1, <4>2, KeptStep DEF Grows
      <4>4. NoOrphanMark'
        BY <1>0, <3>1, <4>1, BackedStep DEF Grows, Others
      <4> QED BY <2>0, <4>3, <4>4 DEF MarkInv
    <3> QED BY <2>9, <3>4, <3>5 DEF Selected
  <2>10. CASE Hold(g)
    <3>1. /\ entered' = entered /\ fired' = fired /\ pc[g] = "final"
          /\ told' = told \union ({sig[g]} \X fire[g])
          /\ sig[g] \in Signal /\ Leave(g, "top")
      BY <2>10 DEF Hold, TypeInv, HoldsSignal, Holding
    <3>2. Others(g) /\ pc'[g] = "top" /\ marks'[g] = {}
      BY <3>1, LeaveOthers
    <3>3. \A t \in marks[g] : <<sig[g], t>> \in told' \/ fired'[<<sig[g], t>>] > 0
      BY <1>0, <3>1 DEF MarksKept, Kept, Firing
    <3>4. Kept(g)'
      BY <3>2 DEF Kept, Sorting, Firing
    <3>5. MarksKept'
      BY <1>0, <3>1, <3>2, <3>4, KeptStep DEF Grows
    <3>6. NoOrphanMark'
      BY <1>0, <3>1, <3>2, <3>3, BackedStep DEF Grows, Others
    <3> QED BY <2>0, <3>5, <3>6 DEF MarkInv
  <2>11. CASE Final(g)
    <3>1. /\ told' = told /\ fired' = fired /\ pc[g] = "final" /\ sig[g] \in Signal
      BY <2>11 DEF Final, TypeInv, HoldsSignal, Holding
    <3>2. CASE Goto(g, "fire") /\ UNCHANGED book
      <4>1. /\ Others(g) /\ pc'[g] = "fire" /\ marks' = marks /\ fire' = fire
            /\ sig' = sig
        BY <3>2, GotoOthers
      <4>2. Kept(g)'
        BY <1>0, <3>1, <4>1 DEF MarksKept, Kept, Sorting, Firing
      <4>3. MarksKept'
        BY <1>0, <3>1, <4>1, <4>2, KeptStep DEF Grows
      <4>4. NoOrphanMark'
        BY <1>0, <3>1, <3>2, <4>1, BackedStep DEF Grows, Others
      <4> QED BY <2>0, <4>3, <4>4 DEF MarkInv
    <3>3. CASE GiveBack(g)
      <4>1. Others(g) /\ pc'[g] = "exit" /\ marks'[g] = {}
        BY <3>3, LeaveOthers DEF GiveBack
      <4>2. Kept(g)'
        BY <4>1 DEF Kept, Sorting, Firing
      <4>3. MarksKept'
        BY <1>0, <3>1, <4>1, <4>2, KeptStep DEF Grows
      <4>4. \A t \in marks[g] : entered'[<<t, SigKey[sig[g]]>>] = 0
        BY <3>1, <3>3 DEF GiveBack, Marked, TypeInv, TypeOK
      <4>5. \A t \in Target, k \in Key :
              entered'[<<t, k>>] # 0 => entered'[<<t, k>>] = entered[<<t, k>>]
        BY <3>3 DEF GiveBack, Marked
      <4>6. NoOrphanMark'
        BY <1>0, <3>1, <4>1, <4>4, <4>5, BackedStep DEF Grows, Others
      <4> QED BY <2>0, <4>3, <4>6 DEF MarkInv
    <3> QED BY <2>11, <3>2, <3>3 DEF Final
  <2>12. ASSUME NEW t \in Target, Dispatch(g, t) PROVE MarkInv'
    <3>1. /\ entered' = entered /\ told' = told
          /\ pc[g] = "fire" /\ sig[g] \in Signal
          /\ fired' = [fired EXCEPT ![<<sig[g], t>>] = @ + 1]
      BY <2>12 DEF Dispatch, TypeInv, HoldsSignal, Holding
    <3>2. /\ \A st \in Signal \X Target : fired[st] > 0 => fired'[st] > 0
          /\ fired'[<<sig[g], t>>] > 0
      <4>1. fired \in [Signal \X Target -> Nat] /\ <<sig[g], t>> \in Signal \X Target
        BY <3>1 DEF TypeInv, TypeOK
      <4> QED BY <3>1, <4>1
    <3>3. Grows
      BY <3>1, <3>2 DEF Grows
    <3>4. \A u \in marks[g] : \/ u \in fire[g] \ {t}
                              \/ <<sig[g], u>> \in told'
                              \/ fired'[<<sig[g], u>>] > 0
      BY <1>0, <3>1, <3>2 DEF MarksKept, Kept, Firing, TypeInv, TypeOK
    <3>5. CASE fire[g] = {t} /\ Leave(g, "top")
      <4>1. Others(g) /\ pc'[g] = "top" /\ marks'[g] = {}
        BY <3>5, LeaveOthers
      <4>2. Kept(g)'
        BY <4>1 DEF Kept, Sorting, Firing
      <4>3. MarksKept'
        BY <1>0, <3>3, <4>1, <4>2, KeptStep
      <4>4. NoOrphanMark'
        BY <1>0, <3>1, <3>3, <3>4, <3>5, <4>1, BackedStep DEF Others
      <4> QED BY <2>0, <4>3, <4>4 DEF MarkInv
    <3>6. CASE fire' = [fire EXCEPT ![g] = @ \ {t}] /\ UNCHANGED <<pc, sig, marks>>
      <4>1. Others(g) /\ fire'[g] = fire[g] \ {t}
        BY <3>6 DEF Others, TypeInv, TypeOK
      <4>2. Kept(g)'
        BY <3>1, <3>4, <3>6, <4>1 DEF Kept, Sorting, Firing
      <4>3. MarksKept'
        BY <1>0, <3>3, <4>1, <4>2, KeptStep
      <4>4. NoOrphanMark'
        BY <1>0, <3>1, <3>3, <3>6, <4>1, BackedStep DEF Others
      <4> QED BY <2>0, <4>3, <4>4 DEF MarkInv
    <3> QED BY <2>12, <3>5, <3>6 DEF Dispatch
  <2> QED BY <1>5, <2>1, <2>2, <2>3, <2>4, <2>5, <2>6, <2>7, <2>8, <2>9, <2>10,
             <2>11, <2>12 DEF LoopStep
<1> QED BY <1>1, <1>2, <1>3, <1>4, <1>5 DEF Next, Member

\* A mark that keeps a row from entering for the day always has a cause: an
\* entry, an answer, or a loop still at work on the signal.
THEOREM MarksHaveCause == Spec => []NoOrphanMark
<1>1. Init => TypeInv /\ MarkInv
  BY InitType, MarkInit
<1>2. TypeInv /\ MarkInv /\ [Next]_vars => (TypeInv /\ MarkInv)'
  BY TypeStep, MarkStep
<1>3. MarkInv => NoOrphanMark
  BY DEF MarkInv
<1> QED BY <1>1, <1>2, <1>3, PTL DEF Spec

----------------------------------------------------------------------------
(* The record of entries outlives the process.  _mark_entered reads the     *)
(* whole file and writes it back without a lock, so two entries recorded at *)
(* once can lose one of the two times.  The property is proved for          *)
(* behaviours in which only accounts that enter the same signal record at   *)
(* once, and that this is so where all rows trade signals of one key.       *)

RecordTogether ==
  \A s, r \in Signal, t, u \in Target :
    thread[<<s, t>>] = "save" /\ thread[<<r, u>>] = "save" => s = r

\* A loop belongs to a running app, its signal is on the feed, and it has
\* rows in hand only while it sorts or fires them.
LoopsRun ==
  \A g \in Gen :
    /\ pc[g] # "none" => boot # 0
    /\ sig[g] <= pub
    /\ pc[g] \notin Sorting \union Firing => pick[g] = {} /\ fire[g] = {}

ThreadsFired ==
  \A s \in Signal, t \in Target :
    thread[<<s, t>>] # "none" => s <= pub /\ fired[<<s, t>>] > 0

\* What was confirmed is on file, and in memory as long as the app runs.
OnFile ==
  /\ boot # 0 => enteredAt = file
  /\ \A c \in confirmed : c <= pub /\ c <= file[SigAsset[c]]

\* What a thread is about to write leaves nothing out.
InSnap ==
  \A s \in Signal, t \in Target :
    thread[<<s, t>>] = "save" =>
      \A c \in confirmed \union {s} : c <= snap[<<s, t>>][SigAsset[c]]

InHand(g) == pick[g] \union fire[g]

\* A loop about to enter a confirmed signal works on this run's own entry.
OwnConfirmed ==
  \A g \in Gen :
    sig[g] \in confirmed /\ InHand(g) # {} =>
      \E u \in Target : fired[<<sig[g], u>>] > 0

RecordInv == LoopsRun /\ ThreadsFired /\ OnFile /\ InSnap /\ OwnConfirmed

LEMMA RecordInit == Init => RecordInv
<1> SUFFICES ASSUME Init PROVE RecordInv
  OBVIOUS
<1>1. LoopsRun
  BY DEF Init, LoopsRun, NoRows
<1>2. ThreadsFired /\ OnFile /\ InSnap /\ OwnConfirmed
  BY DEF Init, ThreadsFired, OnFile, InSnap, OwnConfirmed
<1> QED BY <1>1, <1>2 DEF RecordInv

\* What a step of loop g leaves alone.
LEMMA LoopFrame ==
  ASSUME TypeInv, NEW g \in Gen, LoopStep(g)
  PROVE  /\ UNCHANGED <<boot, pub, file, enteredAt, confirmed, snap>>
         /\ pc[g] # "none"
         /\ \A h \in Gen \ {g} : /\ pc'[h] = pc[h] /\ sig'[h] = sig[h]
                                 /\ pick'[h] = pick[h] /\ fire'[h] = fire[h]
<1> USE DEF TypeInv, TypeOK, server, armVars, book, threads, disk, history,
            Leave, Goto
<1>1. CASE While(g) \/ Poll(g) \/ PollFails(g)
  BY <1>1 DEF While, Poll, PollFails
<1>2. CASE Take(g) \/ TakeRefused(g)
  BY <1>2 DEF Take, TakeRefused
<1>3. CASE Judge(g) \/ Final(g)
  BY <1>3 DEF Judge, Final, GiveBack
<1>4. CASE Watch(g) \/ Hold(g) \/ Selected(g)
  BY <1>4 DEF Watch, Hold, Selected
<1>5. CASE Mark(g)
  BY <1>5 DEF Mark
<1>6. ASSUME NEW t \in Target, Select(g, t) PROVE pc[g] = "select"
  BY <1>6 DEF Select
<1>7. CASE \E t \in Target : Select(g, t)
  BY <1>7 DEF Select
<1>8. ASSUME NEW t \in Target, Dispatch(g, t)
      PROVE  /\ UNCHANGED <<boot, pub, file, enteredAt, confirmed, snap>>
             /\ pc[g] # "none"
             /\ \A h \in Gen \ {g} : /\ pc'[h] = pc[h] /\ sig'[h] = sig[h]
                                     /\ pick'[h] = pick[h] /\ fire'[h] = fire[h]
  <2>1. CASE Leave(g, "top")
    BY <1>8, <2>1 DEF Dispatch
  <2>2. CASE fire' = [fire EXCEPT ![g] = @ \ {t}] /\ UNCHANGED <<pc, sig, pick>>
    BY <1>8, <2>2 DEF Dispatch
  <2> QED BY <1>8, <2>1, <2>2 DEF Dispatch
<1> QED BY <1>1, <1>2, <1>3, <1>4, <1>5, <1>7, <1>8 DEF LoopStep

\* What a step of loop g does to its signal and to the rows in its hand.
LEMMA LoopHand ==
  ASSUME TypeInv, LoopsRun, NEW g \in Gen, LoopStep(g)
  PROVE  /\ sig'[g] \in {0, sig[g], pub}
         /\ pc'[g] \notin Sorting \union Firing => pick'[g] = {} /\ fire'[g] = {}
         /\ InHand(g)' # {} => sig'[g] = sig[g]
         /\ \/ InHand(g)' \subseteq InHand(g)
            \/ sig[g] \in Signal /\ ~EnteredSince(sig[g])
<1>0. pc[g] \notin Sorting \union Firing => pick[g] = {} /\ fire[g] = {}
  BY DEF LoopsRun
<1> USE DEF TypeInv, TypeOK, InHand, Sorting, Firing, Leave, Goto
<1>1. CASE While(g) \/ Poll(g) \/ PollFails(g)
  BY <1>0, <1>1 DEF While, Poll, PollFails
<1>2. CASE Take(g) \/ TakeRefused(g)
  BY <1>0, <1>2 DEF Take, TakeRefused
<1>3. CASE Judge(g) \/ Final(g)
  BY <1>0, <1>3 DEF Judge, Final, GiveBack
<1>4. CASE Watch(g) \/ Hold(g) \/ Selected(g)
  BY <1>0, <1>4 DEF Watch, Hold, Selected
<1>5. CASE Mark(g)
  BY <1>5 DEF Mark
<1>6. ASSUME NEW t \in Target, Select(g, t)
      PROVE  /\ sig' = sig /\ fire' = fire /\ pc'[g] \in Sorting
             /\ pick'[g] = pick[g] \/ ~EnteredSince(sig[g])
  BY <1>6 DEF Select
<1>7. CASE \E t \in Target : Select(g, t)
  <2>1. pc[g] = "select" /\ sig[g] \in Signal
    BY <1>7 DEF Select, HoldsSignal, Holding
  <2> QED BY <1>6, <1>7, <2>1
<1>8. ASSUME NEW t \in Target, Dispatch(g, t)
      PROVE  /\ sig'[g] \in {0, sig[g], pub}
             /\ pc'[g] \notin Sorting \union Firing => pick'[g] = {} /\ fire'[g] = {}
             /\ InHand(g)' # {} => sig'[g] = sig[g]
             /\ InHand(g)' \subseteq InHand(g)
  <2>1. CASE Leave(g, "top")
    BY <2>1
  <2>2. CASE fire' = [fire EXCEPT ![g] = @ \ {t}] /\ UNCHANGED <<pc, sig, pick>>
    BY <1>0, <2>2
  <2> QED BY <1>8, <2>1, <2>2 DEF Dispatch
<1> QED BY <1>1, <1>2, <1>3, <1>4, <1>5, <1>7, <1>8 DEF LoopStep

\* Entries are started by Dispatch and nothing else, and are forgotten only
\* when the app ends.
LEMMA LoopFired ==
  ASSUME TypeInv, NEW g \in Gen, LoopStep(g)
  PROVE  \/ UNCHANGED <<thread, fired>>
         \/ \E t \in Target :
              /\ sig[g] \in Signal /\ pc[g] = "fire" /\ t \in fire[g]
              /\ thread' = [thread EXCEPT ![<<sig[g], t>>] = "run"]
              /\ fired' = [fired EXCEPT ![<<sig[g], t>>] = @ + 1]
<1>1. CASE \E t \in Target : Dispatch(g, t)
  BY <1>1 DEF Dispatch, TypeInv, HoldsSignal, Holding
<1>2. CASE ~\E t \in Target : Dispatch(g, t)
  BY <1>2 DEF LoopStep, While, Poll, PollFails, Take, TakeRefused, Judge, Watch,
              Mark, Selected, Hold, Final, Select, GiveBack, threads, history
<1> QED BY <1>1, <1>2

\* A step that touches no thread, no record and no loop but to start one.
LEMMA RecordSame ==
  ASSUME TypeInv, RecordInv, pub <= pub',
         UNCHANGED <<boot, file, enteredAt, confirmed, snap, thread, fired,
                     sig, pick, fire>>,
         pub' \in Nat,
         \A g \in Gen : pc'[g] # pc[g] => boot # 0 /\ pick[g] = {} /\ fire[g] = {}
  PROVE  RecordInv'
<1>1. LoopsRun'
  BY DEF RecordInv, LoopsRun, TypeInv, TypeOK
<1>2. ThreadsFired'
  BY DEF RecordInv, ThreadsFired, TypeInv, TypeOK
<1>3. OnFile'
  BY DEF RecordInv, OnFile, TypeInv, TypeOK
<1>4. InSnap' /\ OwnConfirmed'
  BY DEF RecordInv, InSnap, OwnConfirmed, InHand
<1> QED BY <1>1, <1>2, <1>3, <1>4 DEF RecordInv

LEMMA RecordLoop ==
  ASSUME TypeInv, RecordInv, NEW g \in Gen, LoopStep(g)
  PROVE  RecordInv'
<1>0. LoopsRun /\ ThreadsFired /\ OnFile /\ InSnap /\ OwnConfirmed
  BY DEF RecordInv
<1>1. /\ UNCHANGED <<boot, pub, file, enteredAt, confirmed, snap>>
      /\ pc[g] # "none"
      /\ \A h \in Gen \ {g} : /\ pc'[h] = pc[h] /\ sig'[h] = sig[h]
                              /\ pick'[h] = pick[h] /\ fire'[h] = fire[h]
  BY LoopFrame
<1>2. /\ sig'[g] \in {0, sig[g], pub}
      /\ pc'[g] \notin Sorting \union Firing => pick'[g] = {} /\ fire'[g] = {}
      /\ InHand(g)' # {} => sig'[g] = sig[g]
      /\ InHand(g)' \subseteq InHand(g) \/ sig[g] \notin confirmed
  <2>1. sig[g] \in Signal /\ ~EnteredSince(sig[g]) => sig[g] \notin confirmed
    BY <1>0, <1>1 DEF LoopsRun, OnFile, EnteredSince
  <2> QED BY <1>0, <2>1, LoopHand
<1>3. LoopsRun'
  BY <1>0, <1>1, <1>2 DEF LoopsRun, TypeInv, TypeOK
<1>4. /\ \A st \in Signal \X Target : fired[st] > 0 => fired'[st] > 0
      /\ \A st \in Signal \X Target :
           thread'[st] # thread[st] =>
             thread'[st] = "run" /\ st[1] <= pub /\ fired'[st] > 0
  <2>1. CASE UNCHANGED <<thread, fired>>
    BY <2>1
  <2>2. CASE \E t \in Target :
               /\ sig[g] \in Signal /\ t \in fire[g]
               /\ thread' = [thread EXCEPT ![<<sig[g], t>>] = "run"]
               /\ fired' = [fired EXCEPT ![<<sig[g], t>>] = @ + 1]
    <3>1. sig[g] <= pub
      BY <1>0 DEF LoopsRun
    <3>2. PICK t \in Target :
            /\ sig[g] \in Signal
            /\ thread' = [thread EXCEPT ![<<sig[g], t>>] = "run"]
            /\ fired' = [fired EXCEPT ![<<sig[g], t>>] = @ + 1]
      BY <2>2
    <3>3. \A st \in Signal \X Target : fired[st] > 0 => fired'[st] > 0
      BY <3>2 DEF TypeInv, TypeOK
    <3>4. fired'[<<sig[g], t>>] > 0
      <4>1. fired \in [Signal \X Target -> Nat] /\ <<sig[g], t>> \in Signal \X Target
        BY <3>2 DEF TypeInv, TypeOK
      <4> QED BY <3>2, <4>1
    <3>5. \A st \in Signal \X Target :
            thread'[st] # thread[st] => st = <<sig[g], t>> /\ thread'[st] = "run"
      BY <3>2 DEF TypeInv, TypeOK
    <3>6. <<sig[g], t>>[1] <= pub
      BY <3>1
    <3>7. ASSUME NEW st \in Signal \X Target, thread'[st] # thread[st]
          PROVE  thread'[st] = "run" /\ st[1] <= pub /\ fired'[st] > 0
      <4>1. st = <<sig[g], t>> /\ thread'[st] = "run"
        BY <3>5, <3>7
      <4> QED BY <3>4, <3>6, <4>1
    <3> QED BY <3>3, <3>7
  <2> QED BY <1>0, <2>1, <2>2, LoopFired
<1>5. ThreadsFired'
  BY <1>0, <1>1, <1>4 DEF ThreadsFired
<1>6. OnFile' /\ InSnap'
  BY <1>0, <1>1, <1>4 DEF OnFile, InSnap
<1>7. OwnConfirmed'
  <2> SUFFICES ASSUME NEW h \in Gen, sig'[h] \in confirmed, InHand(h)' # {}
               PROVE  \E u \in Target : fired'[<<sig'[h], u>>] > 0
    BY <1>1 DEF OwnConfirmed
  <2>1. sig'[h] = sig[h] /\ InHand(h) # {}
    BY <1>1, <1>2 DEF InHand
  <2>2. sig[h] \in Signal /\ \E u \in Target : fired[<<sig[h], u>>] > 0
    BY <1>0, <2>1 DEF OwnConfirmed, TypeInv, TypeOK
  <2> QED BY <1>4, <2>1, <2>2
<1> QED BY <1>3, <1>5, <1>6, <1>7 DEF RecordInv

\* A thread's write keeps what was confirmed: whoever was confirmed since it
\* read the file entered the same signal.
LEMMA RecordThread ==
  ASSUME TypeInv, RecordInv, RecordTogether,
         NEW s \in Signal, NEW t \in Target, ThreadStep(s, t)
  PROVE  RecordInv'
<1>0. LoopsRun /\ ThreadsFired /\ OnFile /\ InSnap /\ OwnConfirmed
  BY DEF RecordInv
<1> USE DEF server, armVars, book, loop, disk, history
<1>1. UNCHANGED <<boot, pub, fired, pc, sig, pick, fire>> /\ thread[<<s, t>>] # "none"
  BY DEF ThreadStep, EntryFails, EntryConfirmed, EntryRecorded
<1>2. LoopsRun'
  BY <1>0, <1>1 DEF LoopsRun
<1>3. ThreadsFired'
  BY <1>0, <1>1 DEF ThreadsFired, ThreadStep, EntryFails, EntryConfirmed,
                    EntryRecorded, TypeInv, TypeOK
<1>4. s <= pub /\ fired[<<s, t>>] > 0
  BY <1>0, <1>1 DEF ThreadsFired
<1>5. CASE EntryFails(s, t)
  <2>1. UNCHANGED <<enteredAt, file, confirmed, snap>>
    BY <1>5 DEF EntryFails, threads
  <2>2. OnFile' /\ OwnConfirmed'
    BY <1>0, <1>1, <2>1 DEF OnFile, OwnConfirmed, InHand
  <2>3. InSnap'
    BY <1>0, <1>5, <2>1 DEF InSnap, EntryFails, TypeInv, TypeOK
  <2> QED BY <1>2, <1>3, <2>2, <2>3 DEF RecordInv
<1>6. CASE EntryConfirmed(s, t)
  <2>1. UNCHANGED <<enteredAt, file, confirmed>>
    BY <1>6 DEF EntryConfirmed
  <2>2. OnFile' /\ OwnConfirmed'
    BY <1>0, <1>1, <2>1 DEF OnFile, OwnConfirmed, InHand
  <2>3. \A c \in confirmed \union {s} : c <= snap'[<<s, t>>][SigAsset[c]]
    BY <1>0, <1>4, <1>6 DEF OnFile, EntryConfirmed, TypeInv, TypeOK
  <2>4. InSnap'
    BY <1>0, <1>6, <2>1, <2>3 DEF InSnap, EntryConfirmed, TypeInv, TypeOK
  <2> QED BY <1>2, <1>3, <2>2, <2>4 DEF RecordInv
<1>7. CASE EntryRecorded(s, t)
  <2>1. /\ thread[<<s, t>>] = "save"
        /\ file' = snap[<<s, t>>] /\ enteredAt' = snap[<<s, t>>]
        /\ confirmed' = confirmed \union {s}
        /\ \A st \in Signal \X Target :
             thread'[st] = "save" => thread[st] = "save" /\ snap'[st] = snap[st]
    BY <1>7 DEF EntryRecorded, TypeInv, TypeOK
  <2>2. OnFile'
    BY <1>0, <1>1, <1>4, <2>1 DEF OnFile, InSnap
  <2>3. ASSUME NEW r \in Signal, NEW u \in Target, thread'[<<r, u>>] = "save"
        PROVE  \A c \in confirmed' \union {r} : c <= snap'[<<r, u>>][SigAsset[c]]
    <3>1. thread[<<r, u>>] = "save" /\ snap'[<<r, u>>] = snap[<<r, u>>]
      BY <2>1, <2>3
    <3>2. r = s
      BY <2>1, <3>1 DEF RecordTogether
    <3> QED BY <1>0, <2>1, <3>1, <3>2 DEF InSnap
  <2>4. InSnap'
    BY <2>3 DEF InSnap
  <2>5. OwnConfirmed'
    BY <1>0, <1>1, <1>4, <2>1 DEF OwnConfirmed, InHand
  <2> QED BY <1>2, <1>3, <2>2, <2>4, <2>5 DEF RecordInv
<1> QED BY <1>5, <1>6, <1>7 DEF ThreadStep

LEMMA RecordStep ==
  TypeInv /\ RecordInv /\ RecordTogether /\ FreshGens /\ [Next]_vars => RecordInv'
<1> SUFFICES ASSUME TypeInv, RecordInv, RecordTogether, FreshGens, [Next]_vars
             PROVE  RecordInv'
  OBVIOUS
<1> USE DEF server, armVars, book, loop, threads, disk, history
<1>0. pub \in Nat /\ pub <= pub
  BY DEF TypeInv, TypeOK
<1>1. CASE Age \/ Stop \/ UNCHANGED vars
  BY <1>0, <1>1, RecordSame DEF Age, Stop, vars
<1>2. CASE Publish
  <2>1. pub' \in Nat /\ pub <= pub'
    BY <1>0, <1>2 DEF Publish
  <2> QED BY <1>2, <2>1, RecordSame DEF Publish
<1>3. CASE Launch
  <2>1. boot = 0 /\ boot' # 0 /\ enteredAt' = file
    BY <1>3 DEF Launch, TypeInv, TypeOK
  <2>2. LoopsRun'
    BY <1>3, <2>1 DEF Launch, RecordInv, LoopsRun
  <2>3. ThreadsFired' /\ OnFile' /\ InSnap' /\ OwnConfirmed'
    BY <1>3, <2>1 DEF Launch, RecordInv, ThreadsFired, OnFile, InSnap, OwnConfirmed,
                      InHand
  <2> QED BY <2>2, <2>3 DEF RecordInv
<1>4. CASE Crash
  <2>1. /\ boot' = 0 /\ pub' = pub /\ file' = file /\ confirmed' = confirmed
        /\ pc' = [g \in Gen |-> "none"] /\ sig' = [g \in Gen |-> 0]
        /\ pick' = NoRows /\ fire' = NoRows
        /\ thread' = [st \in Signal \X Target |-> "none"]
    BY <1>4 DEF Crash
  <2>2. LoopsRun'
    BY <1>0, <2>1 DEF LoopsRun, NoRows
  <2>3. OnFile'
    BY <2>1 DEF RecordInv, OnFile
  <2>4. ThreadsFired' /\ InSnap' /\ OwnConfirmed'
    BY <2>1 DEF ThreadsFired, InSnap, OwnConfirmed, InHand, NoRows
  <2> QED BY <2>2, <2>3, <2>4 DEF RecordInv
<1>5. ASSUME NEW t \in Target, Arm(t) \/ Disarm(t) \/ RowOff(t) PROVE RecordInv'
  <2>1. UNCHANGED <<boot, pub, file, enteredAt, confirmed, snap, thread, fired,
                    sig, pick, fire>> /\ boot # 0
    BY <1>5 DEF Arm, Disarm, RowOff
  <2>2. \A g \in Gen : pc'[g] # pc[g] => pick[g] = {} /\ fire[g] = {}
    <3>1. CASE pc' = pc
      BY <3>1
    <3>2. CASE StartLoop
      <4>1. gen' = gen + 1 /\ gen' \in Gen /\ pc' = [pc EXCEPT ![gen'] = "top"]
        BY <3>2 DEF StartLoop, TypeInv, TypeOK
      <4>2. pc[gen'] = "none"
        BY <4>1 DEF FreshGens, TypeInv, TypeOK
      <4>3. pick[gen'] = {} /\ fire[gen'] = {}
        BY <4>1, <4>2 DEF RecordInv, LoopsRun, Sorting, Firing
      <4> QED BY <4>1, <4>3 DEF TypeInv, TypeOK
    <3> QED BY <1>5, <3>1, <3>2 DEF Arm, Disarm, RowOff
  <2> QED BY <1>0, <2>1, <2>2, RecordSame
<1>6. ASSUME NEW g \in Gen, LoopStep(g) PROVE RecordInv'
  BY <1>6, RecordLoop
<1>7. ASSUME NEW s \in Signal, NEW t \in Target, ThreadStep(s, t) PROVE RecordInv'
  BY <1>7, RecordThread
<1> QED BY <1>1, <1>2, <1>3, <1>4, <1>5, <1>6, <1>7 DEF Next, Member

EnteredAnew ==
  \A s \in Signal, t \in Target :
    fired'[<<s, t>>] > fired[<<s, t>>] /\ s \in confirmed
    => \E u \in Target : fired[<<s, u>>] > 0

LEMMA AnewStep == TypeInv /\ RecordInv /\ [Next]_vars => [EnteredAnew]_vars
<1> SUFFICES ASSUME TypeInv, RecordInv, [Next]_vars,
                    NEW s \in Signal, NEW t \in Target,
                    fired'[<<s, t>>] > fired[<<s, t>>], s \in confirmed
             PROVE  \E u \in Target : fired[<<s, u>>] > 0
  BY DEF EnteredAnew
<1> USE DEF server, armVars, book, loop, threads, disk, history
<1>0. /\ fired \in [Signal \X Target -> Nat] /\ <<s, t>> \in Signal \X Target
      /\ fired[<<s, t>>] \in Nat /\ fired' # fired
  <2>1. fired \in [Signal \X Target -> Nat] /\ <<s, t>> \in Signal \X Target
    BY DEF TypeInv, TypeOK
  <2> QED BY <2>1
<1>1. CASE Crash
  BY <1>0, <1>1 DEF Crash
<1>2. ASSUME NEW g \in Gen, LoopStep(g)
      PROVE  \E u \in Target : fired[<<s, u>>] > 0
  <2>1. PICK u \in Target :
          /\ sig[g] \in Signal /\ u \in fire[g]
          /\ fired' = [fired EXCEPT ![<<sig[g], u>>] = @ + 1]
    BY <1>0, <1>2, LoopFired DEF RecordInv
  <2>2. sig[g] = s
    <3>1. <<sig[g], u>> = <<s, t>>
      BY <1>0, <2>1
    <3> QED BY <3>1
  <2> QED BY <2>1, <2>2 DEF RecordInv, OwnConfirmed, InHand
<1>3. CASE Publish \/ Age \/ Launch \/ Member \/ UNCHANGED vars
  BY <1>0, <1>3 DEF Publish, Age, Launch, Member, Stop, Arm, Disarm, RowOff, vars
<1>4. ASSUME NEW r \in Signal, NEW u \in Target, ThreadStep(r, u) PROVE FALSE
  BY <1>0, <1>4 DEF ThreadStep, EntryFails, EntryConfirmed, EntryRecorded
<1> QED BY <1>1, <1>2, <1>3, <1>4 DEF Next

\* A signal whose confirmed fill is on record is not entered again by a later
\* run of the app, as long as two entries that record at once enter the same
\* signal.
THEOREM RecordIsKept == Spec /\ []RecordTogether => RecordOutlivesRestart
<1>1. Init => TypeInv /\ MarkInv /\ RecordInv
  BY InitType, MarkInit, RecordInit
<1>2. TypeInv /\ MarkInv /\ RecordInv /\ RecordTogether /\ [Next]_vars
        => (TypeInv /\ MarkInv /\ RecordInv)'
  BY TypeStep, MarkStep, RecordStep DEF MarkInv
<1>3. Spec /\ []RecordTogether => [][EnteredAnew]_vars
  BY <1>1, <1>2, AnewStep, PTL DEF Spec
<1> QED BY <1>3, PTL DEF RecordOutlivesRestart, EnteredAnew

----------------------------------------------------------------------------
(* Signals of one key do not overlap, so where all rows trade signals of    *)
(* one key, only accounts of the same signal record at once.                *)

Traded(s) == \E t \in Target : TargetAsset[t] = SigAsset[s]

OneKeyTraded == \A r, s \in Signal : Traded(r) /\ Traded(s) => SigKey[r] = SigKey[s]

Newest(s) == s <= pub /\ \A r \in Signal : r <= pub /\ SigKey[r] = SigKey[s] => r <= s

Working == {"judge", "watch"} \union Sorting \union Firing

NewestInv ==
  /\ \A g \in Gen : /\ sig[g] # 0 => Newest(sig[g])
                    /\ pc[g] \in Working => Traded(sig[g])
  /\ \A s \in Signal, t \in Target :
       thread[<<s, t>>] # "none" => Newest(s) /\ Traded(s)

LEMMA NewestInit == Init => NewestInv
  BY DEF Init, NewestInv, Working, Sorting, Firing

LEMMA LoopSignal ==
  ASSUME TypeInv, NEW g \in Gen, LoopStep(g)
  PROVE  /\ sig'[g] \in {0, sig[g], pub}
         /\ pc'[g] \in Working =>
              /\ sig'[g] = sig[g] /\ sig[g] \in Signal
              /\ pc[g] \in Working \/ Targets(sig[g]) # {}
<1> USE DEF TypeInv, TypeOK, HoldsSignal, Holding, Working, Sorting, Firing, Leave,
            Goto
<1>1. CASE While(g) \/ Poll(g) \/ PollFails(g)
  BY <1>1 DEF While, Poll, PollFails
<1>2. CASE Take(g) \/ TakeRefused(g)
  BY <1>2 DEF Take, TakeRefused
<1>3. CASE Judge(g) \/ Final(g)
  BY <1>3 DEF Judge, Final, GiveBack
<1>4. CASE Watch(g) \/ Hold(g)
  BY <1>4 DEF Watch, Hold
<1>8. CASE Selected(g)
  <2>1. pc[g] \in Working /\ sig[g] \in Signal
    BY <1>8 DEF Selected
  <2>2. CASE Leave(g, "top")
    BY <2>2
  <2>3. CASE Goto(g, "final")
    BY <2>1, <2>3
  <2> QED BY <1>8, <2>2, <2>3 DEF Selected
<1>5. CASE Mark(g)
  BY <1>5 DEF Mark
<1>6. ASSUME NEW t \in Target, Select(g, t)
      PROVE  sig' = sig /\ sig[g] \in Signal /\ pc[g] \in Working
  BY <1>6 DEF Select
<1>7. ASSUME NEW t \in Target, Dispatch(g, t)
      PROVE  /\ sig'[g] \in {0, sig[g]}
             /\ pc'[g] \in Working =>
                  sig'[g] = sig[g] /\ sig[g] \in Signal /\ pc[g] \in Working
  <2>1. CASE Leave(g, "top")
    BY <2>1
  <2>2. CASE UNCHANGED <<pc, sig>>
    BY <1>7, <2>2 DEF Dispatch
  <2> QED BY <1>7, <2>1, <2>2 DEF Dispatch
<1> QED BY <1>1, <1>2, <1>3, <1>4, <1>5, <1>6, <1>7, <1>8 DEF LoopStep

\* A step that publishes nothing, starts no thread and gets no signal.
LEMMA NewestSame ==
  ASSUME TypeInv, NewestInv, UNCHANGED <<pub, sig>>,
         \A g \in Gen : pc'[g] # pc[g] => pc'[g] \notin Working,
         \A st \in Signal \X Target : thread'[st] # "none" => thread[st] # "none"
  PROVE  NewestInv'
  BY DEF NewestInv, Newest

LEMMA NewestStep == TypeInv /\ NewestInv /\ [Next]_vars => NewestInv'
<1> SUFFICES ASSUME TypeInv, NewestInv, [Next]_vars PROVE NewestInv'
  OBVIOUS
<1> USE DEF server, armVars, book, loop, threads, disk, history
<1>1. CASE Age \/ Launch \/ Stop \/ UNCHANGED vars
  BY <1>1, NewestSame DEF Age, Launch, Stop, vars
<1>2. CASE Publish
  <2>1. /\ pub' = pub + 1 /\ pub + 1 \in Signal /\ pub \in Nat
        /\ Settled(SigKey[pub + 1]) /\ UNCHANGED <<sig, pc, thread>>
    BY <1>2 DEF Publish, TypeInv, TypeOK
  <2>2. ASSUME NEW s \in Signal, SigKey[s] # SigKey[pub + 1], Newest(s)
        PROVE  Newest(s)'
    <3>1. ASSUME NEW r \in Signal, r <= pub', SigKey[r] = SigKey[s] PROVE r <= s
      <4>1. r <= pub
        BY <2>1, <2>2, <3>1
      <4> QED BY <2>2, <3>1, <4>1 DEF Newest
    <3>2. s <= pub'
      BY <2>1, <2>2 DEF Newest
    <3> QED BY <3>1, <3>2 DEF Newest
  <2>3. ASSUME NEW g \in Gen, sig[g] # 0 PROVE Newest(sig[g])'
    <3>0. sig[g] \in Signal
      BY <2>3 DEF TypeInv, TypeOK
    <3>1. sig[g] \in Signal /\ SigKey[sig[g]] # SigKey[pub + 1]
      BY <2>1, <2>3, <3>0, Zenon DEF Settled
    <3>2. Newest(sig[g])
      BY <2>3 DEF NewestInv
    <3> DEFINE s == sig[g]
    <3>3. s' = s
      BY <2>1
    <3> HIDE DEF s
    <3>4. s \in Signal /\ SigKey[s] # SigKey[pub + 1] /\ Newest(s)
      BY <3>1, <3>2 DEF s
    <3>5. Newest(s)'
      BY <2>1, <3>3, <3>4 DEF Newest
    <3> QED BY <3>5 DEF s
  <2>4. ASSUME NEW s \in Signal, NEW t \in Target, thread[<<s, t>>] # "none"
        PROVE  Newest(s)' /\ Traded(s)
    <3>1. SigKey[s] # SigKey[pub + 1]
      BY <2>1, <2>4 DEF Settled
    <3> QED BY <2>2, <2>4, <3>1 DEF NewestInv
  <2>5. \A g \in Gen : pc[g] \in Working => Traded(sig[g])
    BY DEF NewestInv
  <2> QED BY <2>1, <2>3, <2>4, <2>5 DEF NewestInv, Traded
<1>3. CASE Crash
  BY <1>3 DEF Crash, NewestInv, Working, Sorting, Firing
<1>4. ASSUME NEW t \in Target, Arm(t) \/ Disarm(t) \/ RowOff(t) PROVE NewestInv'
  <2>1. UNCHANGED <<pub, sig, thread>>
    BY <1>4 DEF Arm, Disarm, RowOff
  <2>2. \A g \in Gen : pc'[g] # pc[g] => pc'[g] \notin Working
    BY <1>4 DEF Arm, Disarm, RowOff, StartLoop, TypeInv, TypeOK, Working, Sorting,
                Firing
  <2> QED BY <2>1, <2>2, NewestSame
<1>5. ASSUME NEW g \in Gen, LoopStep(g) PROVE NewestInv'
  <2>1. /\ pub' = pub
        /\ \A h \in Gen \ {g} : pc'[h] = pc[h] /\ sig'[h] = sig[h]
    BY <1>5, LoopFrame
  <2>2. /\ sig'[g] \in {0, sig[g], pub}
        /\ pc'[g] \in Working =>
             /\ sig'[g] = sig[g] /\ sig[g] \in Signal
             /\ pc[g] \in Working \/ Targets(sig[g]) # {}
    BY <1>5, LoopSignal
  <2>3. Newest(pub)
    BY DEF Newest, TypeInv, TypeOK
  <2>4. ASSUME NEW h \in Gen, sig'[h] # 0 PROVE Newest(sig'[h])
    BY <2>1, <2>2, <2>3, <2>4 DEF NewestInv
  <2>5. ASSUME NEW h \in Gen, pc'[h] \in Working PROVE Traded(sig'[h])
    <3>1. CASE h = g /\ Targets(sig[g]) # {}
      BY <2>2, <2>5, <3>1 DEF Targets, Traded, TypeInv, TypeOK
    <3> QED BY <2>1, <2>2, <2>5, <3>1 DEF NewestInv
  <2>6. ASSUME NEW s \in Signal, NEW t \in Target, thread'[<<s, t>>] # "none"
        PROVE  Newest(s) /\ Traded(s)
    <3>1. CASE thread[<<s, t>>] # "none"
      BY <3>1 DEF NewestInv
    <3>2. CASE thread[<<s, t>>] = "none"
      <4>1. PICK u \in Target :
              /\ sig[g] \in Signal /\ pc[g] = "fire"
              /\ thread' = [thread EXCEPT ![<<sig[g], u>>] = "run"]
        BY <1>5, <2>6, <3>2, LoopFired
      <4>2. <<s, t>> = <<sig[g], u>>
        BY <2>6, <3>2, <4>1 DEF TypeInv, TypeOK
      <4>3. s = sig[g] /\ s # 0
        BY <4>2
      <4> QED BY <4>1, <4>3 DEF NewestInv, Working, Firing
    <3> QED BY <3>1, <3>2
  <2> QED BY <2>1, <2>4, <2>5, <2>6 DEF NewestInv, Newest
<1>6. ASSUME NEW s \in Signal, NEW t \in Target, ThreadStep(s, t) PROVE NewestInv'
  <2>1. UNCHANGED <<pub, sig, pc>>
    BY <1>6 DEF ThreadStep, EntryFails, EntryConfirmed, EntryRecorded
  <2>2. \A st \in Signal \X Target : thread'[st] # "none" => thread[st] # "none"
    BY <1>6 DEF ThreadStep, EntryFails, EntryConfirmed, EntryRecorded, TypeInv,
                TypeOK
  <2> QED BY <2>1, <2>2, NewestSame
<1> QED BY <1>1, <1>2, <1>3, <1>4, <1>5, <1>6 DEF Next, Member

LEMMA TogetherHolds == OneKeyTraded /\ NewestInv => RecordTogether
<1> SUFFICES ASSUME OneKeyTraded, NewestInv,
                    NEW s \in Signal, NEW r \in Signal,
                    NEW t \in Target, NEW u \in Target,
                    thread[<<s, t>>] = "save", thread[<<r, u>>] = "save"
             PROVE  s = r
  BY DEF RecordTogether
<1>1. Newest(s) /\ Traded(s) /\ Newest(r) /\ Traded(r)
  BY DEF NewestInv
<1>2. SigKey[s] = SigKey[r]
  BY <1>1 DEF OneKeyTraded
<1>3. s <= r /\ r <= s
  BY <1>1, <1>2 DEF Newest
<1> QED BY <1>3

\* A member whose rows trade signals of one key is never entered again after
\* a restart into a signal whose confirmed fill is on record, on however many
\* accounts.
THEOREM OneKeyIsKept == ASSUME OneKeyTraded PROVE Spec => RecordOutlivesRestart
<1>1. Init => TypeInv /\ NewestInv
  BY InitType, NewestInit
<1>2. TypeInv /\ NewestInv /\ [Next]_vars => (TypeInv /\ NewestInv)'
  BY TypeStep, NewestStep
<1>3. NewestInv => RecordTogether
  BY TogetherHolds
<1>4. Spec => []RecordTogether
  BY <1>1, <1>2, <1>3, PTL DEF Spec
<1> QED BY <1>4, RecordIsKept, PTL

----------------------------------------------------------------------------
(* One entry per row, signal and day.  A delayed answer can make a loop     *)
(* take a signal older than the one last taken, and then the current one    *)
(* can be taken a second time; with a third generation this enters a row    *)
(* twice.  Without such answers it happens for no number of generations,    *)
(* and with them not for two.  The two cases differ in why loops that mark  *)
(* rows have signals of their own (HeldClaims, TwoClaims).                  *)

\* Publication follows the calendar.
DaysInOrder == \A r, s \in Signal : r <= s => SigDay[r] <= SigDay[s]

\* Past the look at the signal and the generation: a loop that may mark rows.
Marking == {"watch"} \union Sorting \union Firing

\* No two loops that mark rows have the same signal.
Apart ==
  \A g \in Gen : \A h \in Gen \ {g} :
    pc[g] \in Marking /\ pc[h] \in Marking => sig[g] # sig[h]

FiredSlot(s, t) == \E r \in Signal : SameSlot(r, s) /\ fired[<<r, t>>] > 0

NewDay(s) == \E r \in Signal : r <= pub /\ SigKey[r] = SigKey[s] /\ SigDay[r] > SigDay[s]

\* The mark of an entry stays until a signal of a later day is out.
FiredMarked ==
  \A s \in Signal, t \in Target :
    fired[<<s, t>>] > 0 => s <= pub /\ (EnteredToday(s, t) \/ NewDay(s))

\* Rows in a loop's hand have not entered; those to be fired are marked.
RowsFree ==
  \A g \in Gen :
    /\ \A t \in InHand(g) : ~FiredSlot(sig[g], t)
    /\ \A t \in fire[g] : EnteredToday(sig[g], t)
    /\ pc[g] # "fire" => \A t \in marks[g] : ~FiredSlot(sig[g], t)
    /\ pc[g] # "mark" => pick[g] = {}

OnceInv == FiredMarked /\ RowsFree /\ OncePerDay /\ OncePerSignal

LEMMA OnceInit == Init => OnceInv
<1> SUFFICES ASSUME Init PROVE OnceInv
  OBVIOUS
<1>2. FiredMarked /\ OncePerDay /\ OncePerSignal
  BY DEF Init, FiredMarked, OncePerDay, OncePerSignal
<1>3. RowsFree
  BY DEF Init, RowsFree, InHand, NoRows
<1> QED BY <1>2, <1>3 DEF OnceInv

\* What a step of loop g does to the claim.
LEMMA LoopClaim ==
  ASSUME TypeInv, NEW g \in Gen, LoopStep(g)
  PROVE  \/ /\ Take(g) /\ sig[g] \in Signal
            /\ seen' = [sid |-> sig[g], gen |-> g]
            /\ pc'[g] \in Working => sig'[g] = sig[g] /\ prev'[g] = seen
         \/ /\ seen' = seen
            /\ pc'[g] \in Working =>
                 pc[g] \in Working /\ sig'[g] = sig[g] /\ prev'[g] = prev[g]
         \/ /\ pc[g] \in Working /\ pc'[g] \notin Working
            /\ seen' = IF seen = [sid |-> sig[g], gen |-> g] THEN prev[g] ELSE seen
<1> USE DEF TypeInv, TypeOK, HoldsSignal, Holding, Working, Sorting, Firing, Leave,
            Goto, book
<1>1. CASE While(g) \/ Poll(g) \/ PollFails(g) \/ TakeRefused(g)
  BY <1>1 DEF While, Poll, PollFails, TakeRefused
<1>2. CASE Take(g)
  BY <1>2 DEF Take
<1>3. CASE Judge(g)
  BY <1>3 DEF Judge, GiveBack
<1>4. CASE Final(g)
  BY <1>4 DEF Final, GiveBack
<1>5. CASE Watch(g) \/ Hold(g)
  BY <1>5 DEF Watch, Hold
<1>6. CASE Selected(g)
  BY <1>6 DEF Selected
<1>7. CASE Mark(g)
  BY <1>7 DEF Mark
<1>8. CASE \E t \in Target : Select(g, t)
  BY <1>8 DEF Select
<1>9. ASSUME NEW t \in Target, Dispatch(g, t)
      PROVE  /\ seen' = seen
             /\ pc'[g] \in Working =>
                  pc[g] \in Working /\ sig'[g] = sig[g] /\ prev'[g] = prev[g]
  <2>1. CASE Leave(g, "top")
    BY <1>9, <2>1 DEF Dispatch
  <2>2. CASE UNCHANGED <<pc, sig, prev>>
    BY <1>9, <2>2 DEF Dispatch
  <2> QED BY <1>9, <2>1, <2>2 DEF Dispatch
<1> QED BY <1>1, <1>2, <1>3, <1>4, <1>5, <1>6, <1>7, <1>8, <1>9 DEF LoopStep

\* What a step of loop g leaves alone in the hands of the others.
LEMMA LoopOthers ==
  ASSUME TypeInv, NEW g \in Gen, LoopStep(g)
  PROVE  \A h \in Gen \ {g} :
           /\ pc'[h] = pc[h] /\ sig'[h] = sig[h] /\ prev'[h] = prev[h]
           /\ pick'[h] = pick[h] /\ fire'[h] = fire[h] /\ marks'[h] = marks[h]
<1> USE DEF TypeInv, TypeOK, Leave, Goto
<1>1. CASE While(g) \/ Poll(g) \/ PollFails(g)
  BY <1>1 DEF While, Poll, PollFails
<1>2. CASE Take(g) \/ TakeRefused(g)
  BY <1>2 DEF Take, TakeRefused
<1>3. CASE Judge(g) \/ Final(g)
  BY <1>3 DEF Judge, Final, GiveBack
<1>4. CASE Watch(g) \/ Hold(g) \/ Selected(g)
  BY <1>4 DEF Watch, Hold, Selected
<1>5. CASE Mark(g)
  BY <1>5 DEF Mark
<1>6. CASE \E t \in Target : Select(g, t)
  BY <1>6 DEF Select
<1>7. ASSUME NEW t \in Target, Dispatch(g, t)
      PROVE  \A h \in Gen \ {g} :
               /\ pc'[h] = pc[h] /\ sig'[h] = sig[h] /\ prev'[h] = prev[h]
               /\ pick'[h] = pick[h] /\ fire'[h] = fire[h] /\ marks'[h] = marks[h]
  <2>1. CASE Leave(g, "top")
    BY <2>1
  <2>2. CASE /\ fire' = [fire EXCEPT ![g] = @ \ {t}]
             /\ UNCHANGED <<pc, sig, prev, pick, marks>>
    BY <2>2
  <2> QED BY <1>7, <2>1, <2>2 DEF Dispatch
<1> QED BY <1>1, <1>2, <1>3, <1>4, <1>5, <1>6, <1>7 DEF LoopStep

\* Two loops that mark rows have signals of different keys.
LEMMA KeysApart ==
  ASSUME TypeInv, NewestInv, Apart, NEW g \in Gen, NEW h \in Gen, g # h,
         pc[g] \in Marking, pc[h] \in Marking
  PROVE  SigKey[sig[g]] # SigKey[sig[h]]
<1>1. sig[g] \in Signal /\ sig[h] \in Signal
  BY DEF TypeInv, HoldsSignal, Holding, Marking, Sorting, Firing
<1>2. Newest(sig[g]) /\ Newest(sig[h])
  BY <1>1 DEF NewestInv
<1>3. ASSUME SigKey[sig[g]] = SigKey[sig[h]] PROVE sig[g] = sig[h]
  <2>1. sig[g] <= sig[h] /\ sig[h] <= sig[g]
    BY <1>1, <1>2, <1>3 DEF Newest
  <2> QED BY <1>1, <2>1
<1> QED BY <1>3 DEF Apart

\* A row whose mark is not today's has not entered today.
LEMMA FreeRow ==
  ASSUME DaysInOrder, FiredMarked, NEW s \in Signal, NEW t \in Target, Newest(s),
         ~EnteredToday(s, t)
  PROVE  ~FiredSlot(s, t)
<1> SUFFICES ASSUME NEW r \in Signal, SameSlot(r, s), fired[<<r, t>>] > 0 PROVE FALSE
  BY DEF FiredSlot
<1>1. ~EnteredToday(r, t)
  BY DEF SameSlot, EnteredToday
<1>2. PICK q \in Signal : q <= pub /\ SigKey[q] = SigKey[r] /\ SigDay[q] > SigDay[r]
  BY <1>1 DEF FiredMarked, NewDay
<1>3. q <= s
  BY <1>2 DEF Newest, SameSlot
<1> QED BY <1>2, <1>3 DEF DaysInOrder, SameSlot

\* Which marks a step of loop g changes: those of its own signal's key, to
\* the signal's day, or it withdraws its own before it has fired.
LEMMA LoopMarks ==
  ASSUME TypeInv, MarksKept, NEW g \in Gen, LoopStep(g),
         NEW t \in Target, NEW k \in Key, entered'[<<t, k>>] # entered[<<t, k>>]
  PROVE  /\ pc[g] \in Marking /\ sig[g] \in Signal /\ k = SigKey[sig[g]]
         /\ \/ entered'[<<t, k>>] = SigDay[sig[g]]
            \/ pc[g] # "fire" /\ t \in marks[g] /\ fire'[g] = {}
<1>0. pc[g] \in Marking => sig[g] \in Signal
  BY DEF TypeInv, HoldsSignal, Holding, Marking, Sorting, Firing
<1>1. GiveBack(g) =>
        /\ k = SigKey[sig[g]] /\ t \in marks[g] /\ fire'[g] = {}
  BY DEF GiveBack, Marked, Leave, TypeInv, TypeOK
<1>2. CASE Judge(g) \/ Final(g)
  <2>1. pc[g] = "judge" => marks[g] = {}
    BY DEF MarksKept, Kept, Sorting, Firing
  <2> QED BY <1>0, <1>1, <1>2, <2>1 DEF Judge, Final, book, Marking, Firing
<1>3. CASE Watch(g)
  BY <1>0, <1>3 DEF Watch, Marked, Marking
<1>4. ASSUME NEW u \in Target, Select(g, u)
      PROVE  /\ pc[g] \in Marking /\ k = SigKey[sig[g]]
             /\ entered'[<<t, k>>] = SigDay[sig[g]]
  BY <1>4 DEF Select, Marked, Marking, Sorting
<1>5. CASE Mark(g)
  BY <1>0, <1>5 DEF Mark, Marked, Marking, Sorting
<1>6. CASE \/ While(g) \/ Poll(g) \/ PollFails(g) \/ Take(g) \/ TakeRefused(g)
           \/ Selected(g) \/ Hold(g) \/ \E u \in Target : Dispatch(g, u)
  BY <1>6 DEF While, Poll, PollFails, Take, TakeRefused, Selected, Hold, Dispatch, book
<1> QED BY <1>0, <1>2, <1>3, <1>4, <1>5, <1>6 DEF LoopStep

\* What becomes of the rows in loop g's hand.
LEMMA LoopRows ==
  ASSUME TypeInv, LoopsRun, MarksKept, RowsFree, NEW g \in Gen, LoopStep(g)
  PROVE  /\ InHand(g)' \union marks'[g] # {} => sig'[g] = sig[g] /\ sig[g] \in Signal
         /\ \A t \in pick'[g] : t \in pick[g] \/ ~EnteredToday(sig[g], t)
         /\ \A t \in fire'[g] :
              t \in fire[g] \/ (t \in pick[g] /\ EnteredToday(sig[g], t)')
         /\ pc'[g] # "fire" => marks'[g] \subseteq marks[g] \union pick[g]
         /\ pc'[g] # "fire" /\ marks'[g] # {} => pc[g] # "fire"
         /\ pc'[g] # "mark" => pick'[g] = {}
<1>0. /\ pc[g] \notin Sorting \union Firing =>
           pick[g] = {} /\ fire[g] = {} /\ marks[g] = {}
      /\ pc[g] # "mark" => pick[g] = {}
      /\ pc[g] \in Sorting \union Firing => sig[g] \in Signal
  BY DEF LoopsRun, MarksKept, Kept, RowsFree, TypeInv, HoldsSignal, Holding, Sorting,
         Firing
<1> USE DEF TypeInv, TypeOK, HoldsSignal, Holding, InHand, Sorting, Firing, Leave, Goto
<1>1. CASE While(g) \/ Poll(g) \/ PollFails(g)
  BY <1>0, <1>1 DEF While, Poll, PollFails
<1>2. CASE Take(g) \/ TakeRefused(g)
  BY <1>0, <1>2 DEF Take, TakeRefused
<1>3. CASE Judge(g)
  BY <1>0, <1>3 DEF Judge, GiveBack
<1>4. CASE Final(g)
  BY <1>0, <1>4 DEF Final, GiveBack
<1>5. CASE Watch(g) \/ Hold(g)
  BY <1>5 DEF Watch, Hold
<1>6. CASE Selected(g)
  <2>1. CASE Leave(g, "top")
    BY <2>1
  <2>2. CASE Goto(g, "final")
    BY <1>0, <1>6, <2>2 DEF Selected
  <2> QED BY <1>6, <2>1, <2>2 DEF Selected
<1>7. CASE Mark(g)
  <2>1. /\ sig' = sig /\ pick'[g] = {} /\ pc[g] = "mark" /\ pc'[g] = "select"
        /\ marks'[g] = marks[g] \union pick[g]
        /\ fire'[g] = fire[g] \union (pick[g] \ Manual)
        /\ sig[g] \in Signal
    BY <1>7 DEF Mark
  <2>2. \A t \in pick[g] : EnteredToday(sig[g], t)'
    BY <1>7, <2>1 DEF Mark, Marked, EnteredToday
  <2> QED BY <2>1, <2>2
<1>8. ASSUME NEW u \in Target, Select(g, u)
      PROVE  /\ sig' = sig /\ fire' = fire /\ marks' = marks /\ pc[g] = "select"
             /\ pc'[g] \in Sorting
             /\ \/ pick' = pick /\ pc'[g] = "select"
                \/ pick'[g] = {u} /\ ~EnteredToday(sig[g], u) /\ pc'[g] = "mark"
  BY <1>8 DEF Select
<1>9. CASE \E u \in Target : Select(g, u)
  BY <1>0, <1>8, <1>9
<1>10. ASSUME NEW u \in Target, Dispatch(g, u)
       PROVE  \/ pick'[g] = {} /\ fire'[g] = {} /\ marks'[g] = {}
              \/ /\ UNCHANGED <<pc, sig, pick, marks>> /\ pc[g] = "fire"
                 /\ fire'[g] \subseteq fire[g]
  <2>1. CASE Leave(g, "top")
    BY <2>1
  <2>2. CASE fire' = [fire EXCEPT ![g] = @ \ {u}] /\ UNCHANGED <<pc, sig, pick, marks>>
    BY <1>10, <2>2 DEF Dispatch
  <2> QED BY <1>10, <2>1, <2>2 DEF Dispatch
<1>11. CASE \E u \in Target : Dispatch(g, u)
  BY <1>0, <1>10, <1>11
<1> QED BY <1>1, <1>2, <1>3, <1>4, <1>5, <1>6, <1>7, <1>9, <1>11 DEF LoopStep

\* A step of loop g fires nothing, or one row out of its hand.
LEMMA LoopShot ==
  ASSUME TypeInv, RowsFree, NEW g \in Gen, LoopStep(g)
  PROVE  \/ fired' = fired
         \/ \E t \in Target :
              /\ sig[g] \in Signal /\ pc[g] = "fire" /\ t \in fire[g]
              /\ fired' = [fired EXCEPT ![<<sig[g], t>>] = @ + 1]
              /\ entered' = entered
              /\ t \notin InHand(g)'
              /\ pc'[g] = "fire" \/ marks'[g] = {}
<1>1. ASSUME NEW t \in Target, Dispatch(g, t)
      PROVE  /\ sig[g] \in Signal /\ pc[g] = "fire" /\ t \in fire[g]
             /\ fired' = [fired EXCEPT ![<<sig[g], t>>] = @ + 1]
             /\ entered' = entered
             /\ t \notin InHand(g)'
             /\ pc'[g] = "fire" \/ marks'[g] = {}
  <2>1. /\ sig[g] \in Signal /\ pc[g] = "fire" /\ t \in fire[g] /\ entered' = entered
        /\ fired' = [fired EXCEPT ![<<sig[g], t>>] = @ + 1]
    BY <1>1 DEF Dispatch, TypeInv, HoldsSignal, Holding, book
  <2>2. pick[g] = {}
    BY <2>1 DEF RowsFree
  <2>3. CASE Leave(g, "top")
    BY <2>1, <2>3 DEF Leave, InHand, TypeInv, TypeOK
  <2>4. CASE fire' = [fire EXCEPT ![g] = @ \ {t}] /\ UNCHANGED <<pc, pick>>
    BY <2>1, <2>2, <2>4 DEF InHand, TypeInv, TypeOK
  <2> QED BY <1>1, <2>1, <2>3, <2>4 DEF Dispatch
<1>2. CASE ~\E t \in Target : Dispatch(g, t)
  BY <1>2 DEF LoopStep, While, Poll, PollFails, Take, TakeRefused, Judge, Watch,
              Mark, Selected, Hold, Final, Select, GiveBack, history
<1> QED BY <1>1, <1>2

LEMMA OnceLoop ==
  ASSUME TypeInv, MarkInv, LoopsRun, NewestInv, Apart, OnceInv, DaysInOrder,
         NEW g \in Gen, LoopStep(g)
  PROVE  OnceInv'
<1>0. /\ FiredMarked /\ RowsFree /\ OncePerDay /\ OncePerSignal
      /\ MarksKept
  BY DEF OnceInv, MarkInv
<1>2. pub' = pub
  BY LoopFrame
<1>3. \A h \in Gen \ {g} :
        /\ pc'[h] = pc[h] /\ sig'[h] = sig[h]
        /\ pick'[h] = pick[h] /\ fire'[h] = fire[h] /\ marks'[h] = marks[h]
  BY LoopOthers
<1>4. ASSUME NEW s \in Signal, NEW t \in Target, fired'[<<s, t>>] # fired[<<s, t>>]
      PROVE  /\ sig[g] = s /\ pc[g] = "fire" /\ t \in fire[g]
             /\ fired'[<<s, t>>] = fired[<<s, t>>] + 1
             /\ entered' = entered
             /\ t \notin InHand(g)'
             /\ pc'[g] = "fire" \/ marks'[g] = {}
  <2>1. PICK u \in Target :
          /\ sig[g] \in Signal /\ pc[g] = "fire" /\ u \in fire[g]
          /\ fired' = [fired EXCEPT ![<<sig[g], u>>] = @ + 1]
          /\ entered' = entered
          /\ u \notin InHand(g)'
          /\ pc'[g] = "fire" \/ marks'[g] = {}
    BY <1>0, <1>4, LoopShot
  <2>2. fired \in [Signal \X Target -> Nat] /\ <<s, t>> \in Signal \X Target
    BY DEF TypeInv, TypeOK
  <2>3. <<s, t>> = <<sig[g], u>>
    BY <1>4, <2>1, <2>2
  <2>4. s = sig[g] /\ t = u
    BY <2>3
  <2> QED BY <2>1, <2>2, <2>4
<1>5. /\ fired \in [Signal \X Target -> Nat]
      /\ \A s \in Signal, t \in Target : fired[<<s, t>>] \in Nat
  <2>1. fired \in [Signal \X Target -> Nat]
    BY DEF TypeInv, TypeOK
  <2> QED BY <2>1
<1>6. FiredMarked'
  <2> SUFFICES ASSUME NEW s \in Signal, NEW t \in Target, fired'[<<s, t>>] > 0
               PROVE  s <= pub /\ (EnteredToday(s, t)' \/ NewDay(s))
    BY <1>2 DEF FiredMarked, NewDay
  <2>1. CASE fired'[<<s, t>>] # fired[<<s, t>>]
    <3>1. sig[g] = s /\ t \in fire[g] /\ entered' = entered
      BY <1>4, <2>1
    <3> QED BY <1>0, <3>1 DEF RowsFree, EnteredToday, LoopsRun
  <2>2. CASE fired'[<<s, t>>] = fired[<<s, t>>]
    <3>1. s <= pub /\ (EnteredToday(s, t) \/ NewDay(s))
      BY <1>0, <2>2 DEF FiredMarked
    <3>2. CASE entered'[<<t, SigKey[s]>>] = entered[<<t, SigKey[s]>>]
      BY <3>1, <3>2 DEF EnteredToday
    <3>3. CASE entered'[<<t, SigKey[s]>>] # entered[<<t, SigKey[s]>>]
      <4>1. SigKey[s] \in Key
        OBVIOUS
      <4>2. /\ pc[g] \in Marking /\ sig[g] \in Signal /\ SigKey[s] = SigKey[sig[g]]
            /\ \/ entered'[<<t, SigKey[s]>>] = SigDay[sig[g]]
               \/ pc[g] # "fire" /\ t \in marks[g]
        BY <1>0, <3>3, <4>1, LoopMarks
      <4>3. sig[g] <= pub /\ s <= sig[g]
        BY <3>1, <4>2 DEF NewestInv, Newest
      <4>4. SigDay[s] <= SigDay[sig[g]] /\ SigDay[s] \in Nat /\ SigDay[sig[g]] \in Nat
        BY <4>2, <4>3 DEF DaysInOrder
      <4>5. CASE SigDay[s] < SigDay[sig[g]]
        BY <3>1, <4>2, <4>3, <4>5 DEF NewDay
      <4>6. CASE SigDay[s] = SigDay[sig[g]]
        <5>1. FiredSlot(sig[g], t)
          BY <2>2, <4>2, <4>6 DEF FiredSlot, SameSlot
        <5>2. entered'[<<t, SigKey[s]>>] = SigDay[s]
          BY <1>0, <4>2, <4>6, <5>1 DEF RowsFree
        <5> QED BY <3>1, <5>2 DEF EnteredToday
      <4> QED BY <4>4, <4>5, <4>6
    <3> QED BY <3>2, <3>3
  <2> QED BY <2>1, <2>2
<1>7. RowsFree'
  <2>1. ASSUME NEW h \in Gen \ {g}
        PROVE  /\ \A t \in InHand(h)' : ~FiredSlot(sig[h], t)'
               /\ \A t \in fire'[h] : EnteredToday(sig[h], t)'
               /\ pc'[h] # "fire" => \A t \in marks'[h] : ~FiredSlot(sig[h], t)'
               /\ pc'[h] # "mark" => pick'[h] = {}
    <3>1. InHand(h) \union marks[h] # {} => pc[h] \in Marking
      BY <1>0 DEF LoopsRun, MarksKept, Kept, InHand, Marking
    <3>2. ASSUME NEW t \in Target, pc[h] \in Marking, FiredSlot(sig[h], t)'
          PROVE  FiredSlot(sig[h], t)
      <4>1. PICK r \in Signal : SameSlot(r, sig[h]) /\ fired'[<<r, t>>] > 0
        BY <1>3, <3>2 DEF FiredSlot, SameSlot
      <4>2. CASE fired'[<<r, t>>] = fired[<<r, t>>]
        BY <4>1, <4>2 DEF FiredSlot
      <4>3. CASE fired'[<<r, t>>] # fired[<<r, t>>]
        <5>1. sig[g] = r /\ pc[g] \in Marking
          BY <1>4, <4>3 DEF Marking, Firing
        <5>2. SigKey[sig[g]] # SigKey[sig[h]]
          BY <1>0, <3>2, <5>1, KeysApart
        <5> QED BY <4>1, <5>1, <5>2 DEF SameSlot
      <4> QED BY <4>2, <4>3
    <3>3. ASSUME NEW t \in fire[h] PROVE EnteredToday(sig[h], t)'
      <4>1. pc[h] \in Marking /\ sig[h] \in Signal /\ EnteredToday(sig[h], t)
            /\ t \in Target
        BY <1>0, <3>1 DEF InHand, RowsFree, TypeInv, TypeOK, HoldsSignal, Holding,
                          Marking, Sorting, Firing
      <4>2. SigKey[sig[h]] \in Key
        BY <4>1
      <4>3. entered'[<<t, SigKey[sig[h]]>>] = entered[<<t, SigKey[sig[h]]>>]
        BY <1>0, <4>1, <4>2, LoopMarks, KeysApart
      <4>4. sig'[h] = sig[h]
        BY <1>3
      <4> QED BY <4>1, <4>3, <4>4 DEF EnteredToday
    <3>4. \A t \in InHand(h) \union marks[h] : t \in Target
      BY DEF InHand, TypeInv, TypeOK
    <3>5. sig'[h] = sig[h] /\ InHand(h)' = InHand(h)
      BY <1>3 DEF InHand
    <3>6. /\ \A t \in InHand(h) : ~FiredSlot(sig[h], t)
          /\ pc[h] # "fire" => \A t \in marks[h] : ~FiredSlot(sig[h], t)
          /\ pc[h] # "mark" => pick[h] = {}
      BY <1>0 DEF RowsFree
    <3>7. \A t \in InHand(h)' : ~FiredSlot(sig[h], t)'
      BY <3>1, <3>2, <3>4, <3>5, <3>6
    <3>8. pc'[h] # "fire" => \A t \in marks'[h] : ~FiredSlot(sig[h], t)'
      BY <1>3, <3>1, <3>2, <3>4, <3>6
    <3>9. \A t \in fire'[h] : EnteredToday(sig[h], t)'
      BY <1>3, <3>3
    <3> QED BY <1>3, <3>6, <3>7, <3>8, <3>9
  <2>2. /\ InHand(g)' \union marks'[g] # {} => sig'[g] = sig[g] /\ sig[g] \in Signal
        /\ \A t \in pick'[g] : t \in pick[g] \/ ~EnteredToday(sig[g], t)
        /\ \A t \in fire'[g] :
             t \in fire[g] \/ (t \in pick[g] /\ EnteredToday(sig[g], t)')
        /\ pc'[g] # "fire" => marks'[g] \subseteq marks[g] \union pick[g]
        /\ pc'[g] # "fire" /\ marks'[g] # {} => pc[g] # "fire"
        /\ pc'[g] # "mark" => pick'[g] = {}
    BY <1>0, LoopRows
  <2>3. ASSUME NEW t \in Target, FiredSlot(sig[g], t)', ~FiredSlot(sig[g], t),
               sig'[g] = sig[g]
        PROVE  t \notin InHand(g)' /\ (pc'[g] = "fire" \/ marks'[g] = {})
    <3>1. PICK r \in Signal : SameSlot(r, sig[g]) /\ fired'[<<r, t>>] > 0
      BY <2>3 DEF FiredSlot, SameSlot
    <3>2. fired'[<<r, t>>] # fired[<<r, t>>]
      BY <2>3, <3>1 DEF FiredSlot
    <3> QED BY <1>4, <3>2
  <2>4. \A t \in InHand(g)' \union marks'[g] : t \in Target
    <3>1. TypeInv'
      BY TypeStep DEF Next
    <3> QED BY <3>1 DEF InHand, TypeInv, TypeOK
  <2>5. \A t \in InHand(g) : ~FiredSlot(sig[g], t)
    BY <1>0 DEF RowsFree
  <2>6. ASSUME NEW t \in InHand(g)' PROVE ~FiredSlot(sig[g], t)'
    <3>1. sig'[g] = sig[g] /\ sig[g] \in Signal /\ t \in Target
      BY <2>2, <2>4, <2>6
    <3>2. Newest(sig[g])
      <4>1. sig[g] # 0
        BY <3>1
      <4> QED BY <4>1 DEF NewestInv
    <3>3. t \in InHand(g) \/ ~EnteredToday(sig[g], t)
      BY <2>2, <2>6 DEF InHand
    <3>4. ~FiredSlot(sig[g], t)
      BY <1>0, <2>5, <3>1, <3>2, <3>3, FreeRow
    <3> QED BY <2>3, <2>6, <3>1, <3>4
  <2>7. ASSUME NEW t \in fire'[g] PROVE EnteredToday(sig[g], t)'
    <3>1. sig'[g] = sig[g] /\ sig[g] \in Signal /\ t \in Target
      BY <2>2, <2>4, <2>7 DEF InHand
    <3>2. CASE t \in fire[g]
      <4>1. entered[<<t, SigKey[sig[g]]>>] = SigDay[sig[g]]
        BY <1>0, <3>2 DEF RowsFree, EnteredToday
      <4>2. SigKey[sig[g]] \in Key
        BY <3>1
      <4>3. entered'[<<t, SigKey[sig[g]]>>] = SigDay[sig[g]]
        BY <1>0, <2>7, <3>1, <4>1, <4>2, LoopMarks
      <4> QED BY <3>1, <4>3 DEF EnteredToday
    <3> QED BY <2>2, <2>7, <3>2
  <2>8. ASSUME pc'[g] # "fire", NEW t \in marks'[g] PROVE ~FiredSlot(sig[g], t)'
    <3>1. sig'[g] = sig[g] /\ t \in Target
      BY <2>2, <2>4, <2>8
    <3>2. t \in marks[g] \union pick[g] /\ pc[g] # "fire"
      BY <2>2, <2>8
    <3>3. ~FiredSlot(sig[g], t)
      BY <1>0, <2>5, <3>2 DEF RowsFree, InHand
    <3> QED BY <2>3, <2>8, <3>1, <3>3
  <2>9. /\ \A t \in InHand(g)' : ~FiredSlot(sig[g], t)'
        /\ \A t \in fire'[g] : EnteredToday(sig[g], t)'
        /\ pc'[g] # "fire" => \A t \in marks'[g] : ~FiredSlot(sig[g], t)'
        /\ pc'[g] # "mark" => pick'[g] = {}
    BY <2>2, <2>6, <2>7, <2>8
  <2> QED BY <2>1, <2>9 DEF RowsFree
<1>8. OncePerSignal' /\ OncePerDay'
  <2>1. ASSUME NEW s \in Signal, NEW t \in Target, fired'[<<s, t>>] # fired[<<s, t>>],
               NEW r \in Signal, SameSlot(r, s)
        PROVE  fired[<<r, t>>] = 0
    <3>1. sig[g] = s /\ t \in InHand(g)
      BY <1>4, <2>1 DEF InHand
    <3>2. ~FiredSlot(s, t)
      BY <1>0, <3>1 DEF RowsFree
    <3>3. ~(fired[<<r, t>>] > 0)
      BY <2>1, <3>2 DEF FiredSlot
    <3>4. fired[<<r, t>>] \in Nat
      BY <1>5
    <3> QED BY <3>3, <3>4
  <2>2. ASSUME NEW s \in Signal, NEW t \in Target PROVE fired'[<<s, t>>] <= 1
    <3>1. CASE fired'[<<s, t>>] # fired[<<s, t>>]
      <4>1. fired[<<s, t>>] = 0 /\ fired'[<<s, t>>] = fired[<<s, t>>] + 1
        <5>1. SameSlot(s, s)
          BY DEF SameSlot
        <5>2. fired[<<s, t>>] = 0
          BY <2>1, <3>1, <5>1
        <5> QED BY <1>4, <3>1, <5>2
      <4> QED BY <4>1
    <3>2. CASE fired'[<<s, t>>] = fired[<<s, t>>]
      BY <1>0, <3>2 DEF OncePerSignal
    <3> QED BY <3>1, <3>2
  <2>3. ASSUME NEW t \in Target, NEW s \in Signal, NEW r \in Signal, s # r,
               SameSlot(s, r), fired'[<<s, t>>] > 0, fired'[<<r, t>>] > 0
        PROVE  FALSE
    <3>1. CASE fired'[<<s, t>>] # fired[<<s, t>>]
      <4>1. fired'[<<r, t>>] = fired[<<r, t>>]
        BY <1>4, <2>3, <3>1
      <4> QED BY <2>1, <2>3, <3>1, <4>1 DEF SameSlot
    <3>2. CASE fired'[<<r, t>>] # fired[<<r, t>>]
      <4>1. fired'[<<s, t>>] = fired[<<s, t>>]
        BY <1>4, <2>3, <3>2
      <4> QED BY <2>1, <2>3, <3>2, <4>1 DEF SameSlot
    <3>3. CASE fired'[<<s, t>>] = fired[<<s, t>>] /\ fired'[<<r, t>>] = fired[<<r, t>>]
      BY <1>0, <2>3, <3>3 DEF OncePerDay
    <3> QED BY <3>1, <3>2, <3>3
  <2>4. OncePerDay'
    BY <2>3 DEF OncePerDay, SameSlot
  <2>5. OncePerSignal'
    BY <2>2 DEF OncePerSignal
  <2> QED BY <2>4, <2>5
<1> QED BY <1>6, <1>7, <1>8 DEF OnceInv

\* A step that takes nothing, marks nothing and fires nothing.
LEMMA OnceSame ==
  ASSUME TypeInv, OnceInv, pub <= pub', pub' \in Nat,
         UNCHANGED <<entered, sig, pick, fire, marks, fired>>,
         \A g \in Gen : pc'[g] # pc[g] => pc[g] = "none" /\ pc'[g] = "top"
  PROVE  OnceInv'
<1>2. ASSUME NEW s \in Signal, NewDay(s) PROVE NewDay(s)'
  <2>1. PICK r \in Signal : r <= pub /\ SigKey[r] = SigKey[s] /\ SigDay[r] > SigDay[s]
    BY <1>2 DEF NewDay
  <2>2. pub \in Nat
    BY DEF TypeInv, TypeOK
  <2>3. r <= pub'
    BY <2>1, <2>2
  <2> QED BY <2>1, <2>3 DEF NewDay
<1>3. FiredMarked'
  <2> SUFFICES ASSUME NEW s \in Signal, NEW t \in Target, fired[<<s, t>>] > 0
               PROVE  s <= pub' /\ (EnteredToday(s, t)' \/ NewDay(s)')
    BY DEF FiredMarked
  <2>1. s <= pub /\ (EnteredToday(s, t) \/ NewDay(s))
    BY DEF OnceInv, FiredMarked
  <2>2. pub \in Nat
    BY DEF TypeInv, TypeOK
  <2>3. s <= pub'
    BY <2>1, <2>2
  <2>4. EnteredToday(s, t) => EnteredToday(s, t)'
    BY DEF EnteredToday
  <2> QED BY <1>2, <2>1, <2>3, <2>4
<1>4. RowsFree'
  <2>1. \A g \in Gen, t \in Target : FiredSlot(sig[g], t)' <=> FiredSlot(sig[g], t)
    BY DEF FiredSlot, SameSlot
  <2> QED BY DEF OnceInv, RowsFree, InHand, FiredSlot, SameSlot, EnteredToday
<1>5. OncePerDay' /\ OncePerSignal'
  BY DEF OnceInv, OncePerDay, OncePerSignal, SameSlot
<1> QED BY <1>3, <1>4, <1>5 DEF OnceInv

\* A step of the member, the server or an entry thread.
LEMMA OtherSteps ==
  ASSUME TypeInv, FreshGens, [Next]_vars, ~Crash, ~\E g \in Gen : LoopStep(g)
  PROVE  /\ UNCHANGED <<seen, entered, sig, prev, pick, fire, marks, fired>>
         /\ pub <= pub' /\ pub' \in Nat
         /\ \A g \in Gen : pc'[g] # pc[g] => pc[g] = "none" /\ pc'[g] = "top"
         /\ gen' = gen \/ (gen' \in Gen /\ pc[gen'] = "none")
<1> USE DEF server, armVars, book, loop, threads, disk, history
<1>0. pub \in Nat /\ pub <= pub
  BY DEF TypeInv, TypeOK
<1>1. CASE Age \/ Launch \/ Stop \/ Publish \/ UNCHANGED vars
  BY <1>0, <1>1 DEF Age, Launch, Stop, Publish, vars
<1>2. ASSUME NEW t \in Target, Arm(t) \/ Disarm(t) \/ RowOff(t)
      PROVE  /\ UNCHANGED <<seen, entered, sig, prev, pick, fire, marks, fired, pub>>
             /\ \A g \in Gen : pc'[g] # pc[g] => pc[g] = "none" /\ pc'[g] = "top"
             /\ gen' = gen \/ (gen' \in Gen /\ pc[gen'] = "none")
  <2>1. UNCHANGED <<pub, seen, entered, sig, prev, pick, fire, marks, fired>>
    BY <1>2 DEF Arm, Disarm, RowOff
  <2>2. CASE UNCHANGED <<pc, gen>>
    BY <2>1, <2>2
  <2>3. CASE StartLoop
    <3>1. gen' = gen + 1 /\ gen' \in Gen /\ pc' = [pc EXCEPT ![gen'] = "top"]
      BY <2>3 DEF StartLoop, TypeInv, TypeOK
    <3>2. pc[gen'] = "none"
      BY <3>1 DEF FreshGens, TypeInv, TypeOK
    <3> QED BY <2>1, <3>1, <3>2 DEF TypeInv, TypeOK
  <2> QED BY <1>2, <2>2, <2>3 DEF Arm, Disarm, RowOff
<1>3. ASSUME NEW s \in Signal, NEW t \in Target, ThreadStep(s, t)
      PROVE  UNCHANGED <<seen, entered, pc, sig, prev, pick, fire, marks, fired, pub, gen>>
  BY <1>3 DEF ThreadStep, EntryFails, EntryConfirmed, EntryRecorded
<1> QED BY <1>0, <1>1, <1>2, <1>3, Zenon DEF Next, Member

LEMMA OnceStep ==
  ASSUME DaysInOrder
  PROVE  TypeInv /\ MarkInv /\ LoopsRun /\ NewestInv /\ Apart /\ OnceInv /\ [Next]_vars
           => OnceInv'
<1> SUFFICES ASSUME TypeInv, MarkInv, LoopsRun, NewestInv, Apart, OnceInv, [Next]_vars
             PROVE  OnceInv'
  OBVIOUS
<1>1. CASE Crash
  <2>1. FiredMarked' /\ OncePerDay' /\ OncePerSignal'
    BY <1>1 DEF Crash, FiredMarked, OncePerDay, OncePerSignal
  <2>2. RowsFree'
    BY <1>1 DEF Crash, RowsFree, InHand, NoRows
  <2> QED BY <2>1, <2>2 DEF OnceInv
<1>2. ASSUME NEW g \in Gen, LoopStep(g) PROVE OnceInv'
  BY <1>2, OnceLoop
<1>3. CASE ~Crash /\ ~\E g \in Gen : LoopStep(g)
  BY <1>3, OtherSteps, OnceSame DEF MarkInv
<1> QED BY <1>1, <1>2, <1>3

LEMMA LoopsRunStep == TypeInv /\ FreshGens /\ LoopsRun /\ [Next]_vars => LoopsRun'
<1> SUFFICES ASSUME TypeInv, FreshGens, LoopsRun, [Next]_vars PROVE LoopsRun'
  OBVIOUS
<1> USE DEF server, armVars, book, loop, threads, disk, history
<1>1. CASE Age \/ Stop \/ Launch \/ Publish \/ UNCHANGED vars
  <2>1. /\ UNCHANGED <<pc, sig, pick, fire>>
        /\ boot # 0 => boot' # 0
        /\ pub' \in Nat /\ pub <= pub'
    BY <1>1 DEF Age, Stop, Launch, Publish, vars, TypeInv, TypeOK
  <2> QED BY <2>1 DEF LoopsRun, TypeInv, TypeOK
<1>2. CASE Crash
  <2>1. pub \in Nat
    BY DEF TypeInv, TypeOK
  <2> QED BY <1>2, <2>1 DEF Crash, LoopsRun, NoRows
<1>3. ASSUME NEW t \in Target, Arm(t) \/ Disarm(t) \/ RowOff(t) PROVE LoopsRun'
  <2>1. UNCHANGED <<boot, pub, sig, pick, fire>> /\ boot # 0
    BY <1>3 DEF Arm, Disarm, RowOff
  <2>2. \A g \in Gen : pc'[g] # pc[g] => pc[g] = "none" /\ pc'[g] = "top"
    <3>1. CASE pc' = pc
      BY <3>1
    <3>2. CASE StartLoop
      <4>1. gen' = gen + 1 /\ gen' \in Gen /\ pc' = [pc EXCEPT ![gen'] = "top"]
        BY <3>2 DEF StartLoop, TypeInv, TypeOK
      <4>2. pc[gen'] = "none"
        BY <4>1 DEF FreshGens, TypeInv, TypeOK
      <4> QED BY <4>1, <4>2 DEF TypeInv, TypeOK
    <3> QED BY <1>3, <3>1, <3>2 DEF Arm, Disarm, RowOff
  <2> QED BY <2>1, <2>2 DEF LoopsRun, Sorting, Firing
<1>4. ASSUME NEW g \in Gen, LoopStep(g) PROVE LoopsRun'
  <2>1. /\ UNCHANGED <<boot, pub>> /\ pc[g] # "none"
        /\ \A h \in Gen \ {g} : /\ pc'[h] = pc[h] /\ sig'[h] = sig[h]
                                /\ pick'[h] = pick[h] /\ fire'[h] = fire[h]
    BY <1>4, LoopFrame
  <2>2. /\ sig'[g] \in {0, sig[g], pub}
        /\ pc'[g] \notin Sorting \union Firing => pick'[g] = {} /\ fire'[g] = {}
    BY <1>4, LoopHand
  <2>3. pub \in Nat /\ sig'[g] <= pub
    BY <2>2 DEF LoopsRun, TypeInv, TypeOK
  <2>4. boot # 0
    BY <2>1 DEF LoopsRun
  <2> QED BY <2>1, <2>2, <2>3, <2>4 DEF LoopsRun
<1>5. ASSUME NEW s \in Signal, NEW t \in Target, ThreadStep(s, t) PROVE LoopsRun'
  <2>1. UNCHANGED <<boot, pub, pc, sig, pick, fire>>
    BY <1>5 DEF ThreadStep, EntryFails, EntryConfirmed, EntryRecorded
  <2> QED BY <2>1 DEF LoopsRun
<1> QED BY <1>1, <1>2, <1>3, <1>4, <1>5 DEF Next, Member

LEMMA LoopsHold == Spec => [](TypeInv /\ MarkInv /\ LoopsRun /\ NewestInv)
<1>1. Init => TypeInv /\ MarkInv /\ LoopsRun /\ NewestInv
  BY InitType, MarkInit, RecordInit, NewestInit DEF RecordInv
<1>2. TypeInv /\ MarkInv /\ LoopsRun /\ NewestInv /\ [Next]_vars
        => (TypeInv /\ MarkInv /\ LoopsRun /\ NewestInv)'
  BY TypeStep, MarkStep, NewestStep, LoopsRunStep DEF MarkInv
<1> QED BY <1>1, <1>2, PTL DEF Spec

-----------------------------------------------------------------------------
(* Without stale takes, for any number of generations. *)

StaleTake == \E g \in Gen : Take(g) /\ sig[g] < seen.sid

\* Every loop at work has its own signal, claimed or claimed over; who gives
\* a claim back leaves the others' below what it puts back.
HeldClaims ==
  \A g \in Gen :
    pc[g] \in Working =>
      /\ sig[g] <= seen.sid
      /\ \A h \in Gen \ {g} :
           pc[h] \in Working =>
             /\ sig[h] # sig[g]
             /\ sig[h] < sig[g] => sig[h] <= prev[g].sid

LEMMA ClaimsStep ==
  ASSUME TypeInv, HeldClaims, NEW g \in Gen, LoopStep(g), ~StaleTake
  PROVE  HeldClaims'
<1>1. \A h \in Gen \ {g} : pc'[h] = pc[h] /\ sig'[h] = sig[h] /\ prev'[h] = prev[h]
  BY LoopOthers
<1>2. /\ sig \in [Gen -> 0 .. NSig] /\ seen.sid \in Nat
      /\ \A h \in Gen : sig[h] \in Nat /\ prev[h].sid \in Nat
  <2>1. \A x \in Seen : x.sid \in Nat
    BY DEF Seen
  <2> QED BY <2>1 DEF TypeInv, TypeOK
<1>3. CASE /\ Take(g) /\ sig[g] \in Signal
           /\ seen' = [sid |-> sig[g], gen |-> g]
           /\ pc'[g] \in Working => sig'[g] = sig[g] /\ prev'[g] = seen
  <2>0. sig[g] # seen.sid /\ ~(sig[g] < seen.sid)
    BY <1>3, Zenon DEF StaleTake, Take, Takable
  <2>1. sig[g] # seen.sid /\ sig[g] >= seen.sid /\ seen'.sid = sig[g]
    BY <1>2, <1>3, <2>0
  <2>2. \A h \in Gen \ {g} : pc[h] \in Working => sig[h] < sig[g] /\ sig[h] <= seen.sid
    BY <1>2, <2>1 DEF HeldClaims
  <2>3. ASSUME NEW h \in Gen, pc'[h] \in Working
        PROVE  sig'[h] <= seen'.sid
    <3>1. CASE h = g
      <4>1. sig'[h] = sig[g] /\ sig[g] \in Nat
        BY <1>2, <1>3, <2>3, <3>1
      <4> QED BY <2>1, <4>1
    <3>2. CASE h # g
      <4>1. sig'[h] = sig[h] /\ sig[h] < sig[g] /\ sig[h] \in Nat /\ sig[g] \in Nat
        BY <1>1, <1>2, <2>2, <2>3, <3>2
      <4> QED BY <2>1, <4>1
    <3> QED BY <3>1, <3>2
  <2>4. ASSUME NEW h \in Gen, NEW i \in Gen \ {h}, pc'[h] \in Working, pc'[i] \in Working
        PROVE  sig'[i] # sig'[h] /\ (sig'[i] < sig'[h] => sig'[i] <= prev'[h].sid)
    <3>1. CASE h = g
      <4>1. sig'[h] = sig[g] /\ prev'[h] = seen /\ sig'[i] = sig[i]
        BY <1>1, <1>3, <2>4, <3>1
      <4>2. sig[i] < sig[g] /\ sig[i] <= seen.sid /\ sig[i] \in Nat /\ sig[g] \in Nat
        BY <1>1, <1>2, <2>2, <2>4, <3>1
      <4> QED BY <4>1, <4>2
    <3>2. CASE i = g
      <4>1. sig'[i] = sig[g] /\ sig'[h] = sig[h] /\ sig[h] < sig[g]
        BY <1>1, <1>3, <2>2, <2>4, <3>2
      <4> QED BY <1>2, <4>1
    <3>3. CASE h # g /\ i # g
      BY <1>1, <2>4, <3>3 DEF HeldClaims
    <3> QED BY <3>1, <3>2, <3>3
  <2> QED BY <2>3, <2>4 DEF HeldClaims
<1>4. CASE /\ seen' = seen
           /\ pc'[g] \in Working =>
                pc[g] \in Working /\ sig'[g] = sig[g] /\ prev'[g] = prev[g]
  BY <1>1, <1>4 DEF HeldClaims
<1>5. CASE /\ pc[g] \in Working /\ pc'[g] \notin Working
           /\ seen' = IF seen = [sid |-> sig[g], gen |-> g] THEN prev[g] ELSE seen
  <2>1. \A h \in Gen \ {g} : pc[h] \in Working => sig[h] <= seen'.sid
    <3>1. CASE seen = [sid |-> sig[g], gen |-> g]
      <4>1. seen.sid = sig[g] /\ seen' = prev[g]
        BY <1>5, <3>1
      <4>2. \A h \in Gen \ {g} : pc[h] \in Working => sig[h] < sig[g]
        BY <1>2, <1>5, <4>1 DEF HeldClaims
      <4> QED BY <1>5, <4>1, <4>2 DEF HeldClaims
    <3>2. CASE seen # [sid |-> sig[g], gen |-> g]
      BY <1>5, <3>2 DEF HeldClaims
    <3> QED BY <3>1, <3>2
  <2> QED BY <1>1, <1>5, <2>1 DEF HeldClaims
<1> QED BY <1>3, <1>4, <1>5, LoopClaim

\* A step of the member, the server or a thread.
LEMMA ClaimsNext ==
  ASSUME TypeInv, FreshGens, HeldClaims, [Next]_vars, ~StaleTake
  PROVE  HeldClaims'
<1>1. ASSUME UNCHANGED <<seen, sig, prev>>,
             \A g \in Gen : pc'[g] # pc[g] => pc'[g] = "top"
      PROVE  HeldClaims'
  BY <1>1 DEF HeldClaims, Working, Sorting, Firing
<1>2. CASE Crash
  BY <1>2 DEF Crash, HeldClaims, Working, Sorting, Firing
<1>3. CASE \E g \in Gen : LoopStep(g)
  BY <1>3, ClaimsStep
<1>4. CASE ~Crash /\ ~\E g \in Gen : LoopStep(g)
  BY <1>1, <1>4, OtherSteps
<1> QED BY <1>2, <1>3, <1>4

LEMMA ClaimsApart ==
  ASSUME TypeInv, HeldClaims
  PROVE  Apart
  BY DEF HeldClaims, Apart, Marking, Working

LEMMA OnceHolds ==
  ASSUME DaysInOrder
  PROVE  Spec /\ [][~StaleTake]_vars => []OnceInv
<1>1. Init => HeldClaims /\ OnceInv
  BY OnceInit DEF Init, HeldClaims, Working, Sorting, Firing
<1>2. TypeInv /\ MarkInv /\ HeldClaims /\ [Next]_vars /\ [~StaleTake]_vars => HeldClaims'
  <2> SUFFICES ASSUME TypeInv, MarkInv, HeldClaims, [Next]_vars, [~StaleTake]_vars
               PROVE  HeldClaims'
    OBVIOUS
  <2>1. CASE ~StaleTake
    BY <2>1, ClaimsNext DEF MarkInv
  <2>2. CASE UNCHANGED vars
    BY <2>2 DEF vars, book, loop, HeldClaims
  <2> QED BY <2>1, <2>2
<1>3. TypeInv /\ MarkInv /\ LoopsRun /\ NewestInv /\ HeldClaims /\ OnceInv /\ [Next]_vars
      => OnceInv'
  BY OnceStep, ClaimsApart
<1> QED BY <1>1, <1>2, <1>3, LoopsHold, PTL DEF Spec

\* However often the member stops and starts and however many loops are on
\* their way, a row enters at most one signal of a key and day, as long as no
\* loop takes a signal older than the one last taken.
THEOREM OneEntryADay ==
  ASSUME DaysInOrder
  PROVE  Spec /\ [][~StaleTake]_vars => []OncePerDay
<1>1. OnceInv => OncePerDay
  BY DEF OnceInv
<1> QED BY <1>1, OnceHolds, PTL

\* Under the same condition no signal starts two entries on a row.
THEOREM OneEntryASignal ==
  ASSUME DaysInOrder
  PROVE  Spec /\ [][~StaleTake]_vars => []OncePerSignal
<1>1. OnceInv => OncePerSignal
  BY DEF OnceInv
<1> QED BY <1>1, OnceHolds, PTL

-----------------------------------------------------------------------------
(* With stale takes, for two generations. *)

\* The claims are of published signals.
ClaimsOut == seen.sid <= pub /\ \A g \in Gen : pc[g] \in Working => prev[g].sid <= pub

\* A loop that works alone has the claim.
AloneClaims == \A g \in Gen : g = gen /\ gen = 1 /\ pc[g] \in Working => sig[g] = seen.sid

\* While an older loop marks rows, for a signal it took before the newer loop
\* was there, only the newer one claims, and always a later signal.
NewerClaims ==
  \A g, h \in Gen :
    g < h /\ pc[g] \in Marking =>
      /\ sig[g] <= seen.sid
      /\ pc[h] = "got" => seen.sid <= sig[h]
      /\ pc[h] \in Working => sig[g] < sig[h] /\ sig[g] <= prev[h].sid

TwoClaims == ClaimsOut /\ AloneClaims /\ NewerClaims

LEMMA TwoApart ==
  ASSUME TypeInv, TwoClaims
  PROVE  Apart
<1>1. \A g, h \in Gen : g < h \/ h < g \/ g = h
  BY SignalAssumption DEF Gen
<1>2. \A g \in Gen : sig[g] \in Nat
  BY DEF TypeInv, TypeOK
<1> QED BY <1>1, <1>2 DEF TwoClaims, NewerClaims, Apart, Marking, Working

\* How a loop comes to have an answer of the feed, and to mark rows.
LEMMA LoopEnters ==
  ASSUME TypeInv, NEW g \in Gen, LoopStep(g)
  PROVE  /\ UNCHANGED <<gen, pub>>
         /\ pc'[g] = "got" => pc[g] = "poll" /\ sig'[g] = pub /\ seen' = seen
         /\ pc'[g] \in Marking /\ pc[g] \notin Marking =>
              pc[g] = "judge" /\ g = gen /\ sig'[g] = sig[g] /\ seen' = seen
<1> USE DEF TypeInv, TypeOK, Marking, Sorting, Firing, Leave, Goto, server, armVars, book
<1>1. CASE While(g) \/ Poll(g) \/ PollFails(g)
  BY <1>1 DEF While, Poll, PollFails
<1>2. CASE Take(g) \/ TakeRefused(g)
  BY <1>2 DEF Take, TakeRefused
<1>3. CASE Judge(g) \/ Final(g)
  BY <1>3 DEF Judge, Final, GiveBack, Wanted, Mine
<1>4. CASE Watch(g) \/ Hold(g)
  BY <1>4 DEF Watch, Hold
<1>5. CASE Selected(g) \/ Mark(g)
  BY <1>5 DEF Selected, Mark
<1>6. CASE \E t \in Target : Select(g, t)
  BY <1>6 DEF Select
<1>7. ASSUME NEW t \in Target, Dispatch(g, t)
      PROVE  /\ UNCHANGED <<gen, pub>> /\ pc[g] \in Marking
             /\ pc'[g] \in {"fire", "top"}
  <2>1. CASE Leave(g, "top")
    BY <1>7, <2>1 DEF Dispatch
  <2>2. CASE UNCHANGED pc
    BY <1>7, <2>2 DEF Dispatch
  <2> QED BY <1>7, <2>1, <2>2 DEF Dispatch
<1> QED BY <1>1, <1>2, <1>3, <1>4, <1>5, <1>6, <1>7 DEF LoopStep

LEMMA TwoLoop ==
  ASSUME TypeInv, FreshGens, LoopsRun, TwoClaims, MaxGen <= 2, NEW g \in Gen, LoopStep(g)
  PROVE  TwoClaims'
<1>1. \A h \in Gen \ {g} : pc'[h] = pc[h] /\ sig'[h] = sig[h] /\ prev'[h] = prev[h]
  BY LoopOthers
<1>2. /\ seen.sid \in Nat /\ pub \in Nat /\ gen \in Nat
      /\ \A h \in Gen : h \in 1 .. 2 /\ sig[h] \in Nat /\ prev[h].sid \in Nat /\ sig[h] <= pub
  <2>1. \A x \in Seen : x.sid \in Nat
    BY DEF Seen
  <2>2. \A h \in Gen : h \in 1 .. 2
    BY SignalAssumption DEF Gen
  <2> QED BY <2>1, <2>2 DEF TypeInv, TypeOK, LoopsRun
<1>3. /\ UNCHANGED <<gen, pub>>
      /\ pc'[g] = "got" => pc[g] = "poll" /\ sig'[g] = pub /\ seen' = seen
      /\ pc'[g] \in Marking /\ pc[g] \notin Marking =>
           pc[g] = "judge" /\ g = gen /\ sig'[g] = sig[g] /\ seen' = seen
  BY LoopEnters
<1>4. pc[g] # "none" /\ (Take(g) => pc[g] = "got" /\ sig[g] # seen.sid)
  BY LoopFrame DEF Take, Takable
<1>5. \/ /\ Take(g) /\ seen'.sid = sig[g]
         /\ pc'[g] \in Working => sig'[g] = sig[g] /\ prev'[g] = seen
      \/ /\ seen' = seen
         /\ pc'[g] \in Working =>
              pc[g] \in Working /\ sig'[g] = sig[g] /\ prev'[g] = prev[g]
      \/ /\ pc[g] \in Working /\ pc'[g] \notin Working
         /\ seen' = seen \/ seen' = prev[g]
  <2>1. seen' = [sid |-> sig[g], gen |-> g] => seen'.sid = sig[g]
    OBVIOUS
  <2> QED BY <2>1, LoopClaim
<1>6. "got" \notin Working /\ "poll" \notin Working /\ Marking \subseteq Working
  BY DEF Working, Marking, Sorting, Firing
<1>7. ClaimsOut'
  BY <1>1, <1>2, <1>3, <1>5 DEF TwoClaims, ClaimsOut
<1>8. AloneClaims'
  <2> SUFFICES ASSUME NEW h \in Gen, h = gen, gen = 1, pc'[h] \in Working
               PROVE  sig'[h] = seen'.sid
    BY <1>3 DEF AloneClaims
  <2>1. h = g
    BY <1>2, <1>4 DEF FreshGens
  <2> QED BY <1>5, <2>1 DEF TwoClaims, AloneClaims
<1>9. ASSUME NEW a \in Gen, NEW b \in Gen, a < b, pc'[a] \in Marking
      PROVE  /\ sig'[a] <= seen'.sid
             /\ pc'[b] = "got" => seen'.sid <= sig'[b]
             /\ pc'[b] \in Working => sig'[a] < sig'[b] /\ sig'[a] <= prev'[b].sid
  <2>1. pc[a] \in Marking =>
          /\ sig[a] <= seen.sid
          /\ pc[b] = "got" => seen.sid <= sig[b]
          /\ pc[b] \in Working => sig[a] < sig[b] /\ sig[a] <= prev[b].sid
    BY <1>9 DEF TwoClaims, NewerClaims
  <2>2. a = 1 /\ b = 2
    BY <1>2, <1>9
  <2>3. CASE g = a /\ pc[a] \in Marking
    <3>1. seen' = seen /\ sig'[a] = sig[a]
      BY <1>4, <1>5, <1>6, <1>9, <2>3
    <3>2. pc'[b] = pc[b] /\ sig'[b] = sig[b] /\ prev'[b] = prev[b]
      BY <1>1, <2>2, <2>3
    <3> QED BY <2>1, <2>3, <3>1, <3>2
  <2>4. CASE g = a /\ pc[a] \notin Marking
    <3>1. pc[a] = "judge" /\ gen = 1 /\ sig'[a] = sig[a] /\ seen' = seen
      BY <1>3, <1>9, <2>2, <2>4
    <3>2. sig[a] = seen.sid
      BY <2>2, <3>1 DEF TwoClaims, AloneClaims, Working
    <3>3. pc'[b] = "none"
      BY <1>1, <2>2, <2>4, <3>1 DEF FreshGens
    <3> QED BY <1>2, <3>1, <3>2, <3>3 DEF Working, Sorting, Firing
  <2>5. CASE g = b
    <3>1. pc[a] \in Marking /\ sig'[a] = sig[a]
      BY <1>1, <1>9, <2>2, <2>5
    <3>2. CASE Take(g) /\ seen'.sid = sig[g]
               /\ (pc'[g] \in Working => sig'[g] = sig[g] /\ prev'[g] = seen)
      <4>1. sig[a] <= seen.sid /\ seen.sid < sig[b] /\ pc'[b] # "got"
        BY <1>2, <1>3, <1>4, <2>1, <2>5, <3>1, <3>2
      <4> QED BY <1>2, <2>5, <3>1, <3>2, <4>1
    <3>3. CASE seen' = seen
               /\ (pc'[g] \in Working =>
                     pc[g] \in Working /\ sig'[g] = sig[g] /\ prev'[g] = prev[g])
      BY <1>3, <2>1, <2>5, <3>1, <3>3 DEF TwoClaims, ClaimsOut
    <3>4. CASE pc[g] \in Working /\ pc'[g] \notin Working /\ (seen' = seen \/ seen' = prev[g])
      BY <1>3, <1>6, <2>1, <2>5, <3>1, <3>4
    <3> QED BY <1>5, <3>2, <3>3, <3>4
  <2> QED BY <1>2, <2>2, <2>3, <2>4, <2>5
<1> QED BY <1>7, <1>8, <1>9 DEF TwoClaims, NewerClaims

LEMMA TwoStep ==
  ASSUME TypeInv, FreshGens, LoopsRun, TwoClaims, MaxGen <= 2, [Next]_vars
  PROVE  TwoClaims'
<1>1. CASE Crash
  BY <1>1 DEF Crash, TwoClaims, ClaimsOut, AloneClaims, NewerClaims, NobodyTook, Marking, Working,
              Sorting, Firing, server, TypeInv, TypeOK
<1>2. CASE \E g \in Gen : LoopStep(g)
  BY <1>2, TwoLoop
<1>3. CASE ~Crash /\ ~\E g \in Gen : LoopStep(g)
  <2>1. /\ UNCHANGED <<seen, sig, prev>> /\ pub <= pub' /\ pub' \in Nat
        /\ \A g \in Gen : pc'[g] # pc[g] => pc[g] = "none" /\ pc'[g] = "top"
        /\ gen' = gen \/ (gen' \in Gen /\ pc[gen'] = "none")
    BY <1>3, OtherSteps
  <2>2. \A g \in Gen : /\ pc'[g] \in Working => pc[g] = pc'[g]
                       /\ pc'[g] \in Marking => pc[g] = pc'[g]
                       /\ pc'[g] = "got" => pc[g] = pc'[g]
    BY <2>1 DEF Marking, Working, Sorting, Firing
  <2>3. ClaimsOut'
    <3>1. \A x \in Seen : x.sid \in Nat
      BY DEF Seen
    <3>2. seen.sid \in Nat /\ pub \in Nat /\ \A g \in Gen : prev[g].sid \in Nat
      BY <3>1 DEF TypeInv, TypeOK
    <3>3. \A n \in Nat : n <= pub => n <= pub'
      BY <2>1, <3>2
    <3>4. seen'.sid <= pub'
      BY <2>1, <3>2, <3>3 DEF TwoClaims, ClaimsOut
    <3>5. ASSUME NEW g \in Gen, pc'[g] \in Working PROVE prev'[g].sid <= pub'
      <4>1. prev'[g].sid = prev[g].sid /\ prev[g].sid <= pub
        BY <2>1, <2>2, <3>5 DEF TwoClaims, ClaimsOut
      <4> QED BY <3>2, <3>3, <4>1
    <3> QED BY <3>4, <3>5 DEF ClaimsOut
  <2>4. AloneClaims'
    <3> SUFFICES ASSUME NEW g \in Gen, g = gen', gen' = 1, pc'[g] \in Working
                 PROVE  sig[g] = seen.sid
      BY <2>1 DEF AloneClaims
    <3>1. gen' = gen
      BY <2>1, <2>2 DEF Working, Sorting, Firing
    <3> QED BY <2>2, <3>1 DEF TwoClaims, AloneClaims
  <2>5. NewerClaims'
    BY <2>1, <2>2 DEF TwoClaims, NewerClaims
  <2> QED BY <2>3, <2>4, <2>5 DEF TwoClaims
<1> QED BY <1>1, <1>2, <1>3

LEMMA TwoHolds ==
  ASSUME DaysInOrder, MaxGen <= 2
  PROVE  Spec => []OnceInv
<1>1. Init => TwoClaims /\ OnceInv
  BY OnceInit DEF Init, TwoClaims, ClaimsOut, AloneClaims, NewerClaims, NobodyTook, Marking, Working,
                  Sorting, Firing
<1>2. TypeInv /\ MarkInv /\ LoopsRun /\ TwoClaims /\ [Next]_vars => TwoClaims'
  BY TwoStep DEF MarkInv
<1>3. TypeInv /\ MarkInv /\ LoopsRun /\ NewestInv /\ TwoClaims /\ OnceInv /\ [Next]_vars
      => OnceInv'
  BY OnceStep, TwoApart
<1> QED BY <1>1, <1>2, <1>3, LoopsHold, PTL DEF Spec

\* While the loop is started at most twice in a run of the app, a row enters at
\* most one signal of a key and day, also when an answer of the feed comes so
\* late that a loop takes a signal older than the one last taken.
THEOREM TwoEnterOnceADay ==
  ASSUME DaysInOrder, MaxGen <= 2
  PROVE  Spec => []OncePerDay
<1>1. OnceInv => OncePerDay
  BY DEF OnceInv
<1> QED BY <1>1, TwoHolds, PTL

\* Under the same condition no signal starts two entries on a row.
THEOREM TwoEnterOnceASignal ==
  ASSUME DaysInOrder, MaxGen <= 2
  PROVE  Spec => []OncePerSignal
<1>1. OnceInv => OncePerSignal
  BY DEF OnceInv
<1> QED BY <1>1, TwoHolds, PTL
=============================================================================
