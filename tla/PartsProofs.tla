---------------------------- MODULE PartsProofs ------------------------------
(***************************************************************************)
(* The invariants of the machines that stand for themselves, each for any  *)
(* values of its constants: first CutoffScheduler, which MCParts extends,  *)
(* then the instances of the others, one scene each.  Where a machine has  *)
(* a module of proofs its lemmas are cited through the instance.           *)
(***************************************************************************)
EXTENDS MCParts, Integers, Sequences, SequenceTheorems,
        WellFoundedInduction, TLAPS

-----------------------------------------------------------------------------
(* CutoffScheduler. *)

\* A cutoff that was called carries today's mark, and the cutoffs still to
\* be called in this round were read today and not called yet.
MarkedWhenCalled ==
  \A c \in Cutoff : pc # "down" /\ calls[c] # 0 => <<Today, c>> \in fired

DueNotCalled ==
  pc = "due" => day = Today /\ \A c \in due : calls[c] = 0

Inv == TypeOK /\ OncePerCutoff /\ MarkedWhenCalled /\ DueNotCalled

\* The day changes only after the hour 23.
LEMMA SameDay ==
  ASSUME NEW n \in Nat, n % 24 # 23
  PROVE  (n + 1) \div 24 = n \div 24
  BY SMT

LEMMA DayBound ==
  ASSUME NEW n \in Time
  PROVE  n \div 24 + 1 \in 1 .. Days
  BY CutoffAssumption, SMT DEF Time

\* The types hold of every reachable state.
LEMMA TypeInit == Init => TypeOK
  <1> SUFFICES ASSUME Init PROVE TypeOK
    OBVIOUS
  <1>1. polled \in BOOLEAN
    BY Zenon DEF Init
  <1>2. calls \in [Cutoff -> Nat]
    BY DEF Init, NoCalls
  <1> QED
    BY <1>1, <1>2, CutoffAssumption DEF Init, TypeOK, Time

LEMMA TypeNext == TypeOK /\ DueNotCalled /\ [Next]_vars => TypeOK'
  <1> SUFFICES ASSUME TypeOK, DueNotCalled, [Next]_vars PROVE TypeOK'
    OBVIOUS
  <1> USE DEF TypeOK
  <1>1. CASE Start
    <2>1. polled' \in BOOLEAN
      BY <1>1, Zenon DEF Start
    <2> QED
      BY <1>1, <2>1, CutoffAssumption DEF Start, NoCalls
  <1>2. CASE Die
    <2>1. polled' \in BOOLEAN
      BY <1>2, Zenon DEF Die
    <2> QED
      BY <1>2, <2>1, CutoffAssumption DEF Die
  <1>3. CASE Poll
    <2>1. Today \in 1 .. Days
      BY DayBound DEF Today
    <2>2. Due \subseteq Cutoff
      BY DEF Due
    <2>3. polled' \in BOOLEAN
      BY <1>3, Zenon DEF Poll
    <2> QED
      BY <1>3, <2>1, <2>2, <2>3 DEF Poll
  <1>4. ASSUME NEW c \in Cutoff, Fire(c) PROVE TypeOK'
    <2>1. polled' \in BOOLEAN
      BY <1>4, Zenon DEF Fire
    <2>2. day \in 1 .. Days
      BY <1>4, DayBound DEF Fire, DueNotCalled, Today
    <2>3. fired' \subseteq (1 .. Days) \X Cutoff
      BY <1>4, <2>2 DEF Fire, Mark
    <2>4. calls' \in [Cutoff -> Nat]
      BY <1>4 DEF Fire
    <2> QED
      BY <1>4, <2>1, <2>3, <2>4 DEF Fire
  <1>5. CASE Forget
    <2>1. polled' \in BOOLEAN
      BY <1>5, Zenon DEF Forget
    <2>2. fired' \subseteq (1 .. Days) \X Cutoff /\ day' \in 0 .. Days
      BY <1>5, CutoffAssumption DEF Forget
    <2> QED
      BY <1>5, <2>1, <2>2 DEF Forget
  <1>6. CASE Tick
    <2>1. polled' \in BOOLEAN
      BY <1>6, Zenon DEF Tick
    <2>2. calls' \in [Cutoff -> Nat]
      BY <1>6 DEF Tick, NoCalls
    <2> QED
      BY <1>6, <2>1, <2>2 DEF Tick
  <1>7. CASE UNCHANGED vars
    <2>1. polled' \in BOOLEAN
      BY <1>7, Zenon DEF vars
    <2> QED
      BY <1>7, <2>1 DEF vars
  <1> QED
    BY <1>1, <1>2, <1>3, <1>4, <1>5, <1>6, <1>7 DEF Next

\* What was called today is marked, so no step calls it again.
LEMMA OnceNext ==
  ASSUME Inv, [Next]_vars
  PROVE  (OncePerCutoff /\ MarkedWhenCalled /\ DueNotCalled)'
  <1> USE DEF Inv, TypeOK, OncePerCutoff, MarkedWhenCalled, DueNotCalled
  <1>1. CASE Start
    BY <1>1 DEF Start, NoCalls
  <1>2. CASE Die
    BY <1>2 DEF Die
  <1>3. CASE Poll
    BY <1>3 DEF Poll, Due, Today
  <1>4. ASSUME NEW c \in Cutoff, Fire(c)
        PROVE  (OncePerCutoff /\ MarkedWhenCalled /\ DueNotCalled)'
    <2>1. day = Today /\ Today' = Today /\ calls[c] = 0
      BY <1>4 DEF Fire, Today
    <2>2. fired' = fired \union {<<Today, c>>}
      BY <1>4, <2>1 DEF Fire, Mark
    <2>3. \A d \in Cutoff : calls'[d] = IF d = c THEN 1 ELSE calls[d]
      BY <1>4, <2>1 DEF Fire
    <2> QED
      BY <1>4, <2>1, <2>2, <2>3 DEF Fire
  <1>5. CASE Forget
    BY <1>5 DEF Forget, Today
  <1>6. CASE Tick
    <2>1. CASE Hour = 23
      BY <1>6, <2>1 DEF Tick, NoCalls
    <2>2. CASE Hour # 23
      <3>1. Today' = Today
        BY <1>6, <2>2, SameDay, CutoffAssumption DEF Tick, Today, Hour, Time
      <3> QED
        BY <1>6, <2>2, <3>1 DEF Tick
    <2> QED
      BY <2>1, <2>2
  <1>7. CASE UNCHANGED vars
    BY <1>7 DEF vars, Today
  <1> QED
    BY <1>1, <1>2, <1>3, <1>4, <1>5, <1>6, <1>7 DEF Next

\* The invariant holds of every reachable state.
LEMMA InvAlways == Spec => []Inv
  <1>1. Init => Inv
    BY TypeInit DEF Init, Inv, OncePerCutoff, MarkedWhenCalled,
                    DueNotCalled, NoCalls
  <1>2. Inv /\ [Next]_vars => Inv'
    BY TypeNext, OnceNext DEF Inv
  <1> QED
    BY <1>1, <1>2, PTL DEF Spec

\* Marks, counts and the round under way keep their types.
THEOREM TypeCorrect == Spec => []TypeOK
  <1>1. Inv => TypeOK
    BY DEF Inv
  <1> QED
    BY <1>1, InvAlways, PTL

\* One process calls a cutoff at most once a day (scheduler.py 40-43),
\* whether its callback fails or not and however late the process started.
THEOREM CalledOnce == Spec => []OncePerCutoff
  <1>1. Inv => OncePerCutoff
    BY DEF Inv
  <1> QED
    BY <1>1, InvAlways, PTL

\* Marks are of this day or of days before it, and a cutoff with this day's
\* mark was called in this process.
MarksCalled == \A f \in fired : f[1] <= Today /\ (f[1] = Today => calls[f[2]] # 0)

\* A cutoff that has passed was called, or will be in this round.
RoundCalls ==
  /\ pc = "due" => \A c \in Cutoff : Passed(c) => c \in due \/ calls[c] # 0
  /\ pc = "sleep" /\ polled => \A c \in Cutoff : Passed(c) => calls[c] # 0

CalledInv == MarksCalled /\ RoundCalls

LEMMA NextDay ==
  ASSUME NEW n \in Nat
  PROVE  (n + 1) \div 24 = (IF n % 24 = 23 THEN n \div 24 + 1 ELSE n \div 24)
  BY SMT

LEMMA CalledStep ==
  ASSUME Inv, CalledInv, [Next]_vars
  PROVE  CalledInv'
<1> USE DEF CalledInv, MarksCalled, RoundCalls
<1>0. now \in Nat /\ calls \in [Cutoff -> Nat] /\ fired \subseteq (1 .. Days) \X Cutoff
  BY CutoffAssumption DEF Inv, TypeOK, Time
<1>1. CASE Start
  BY <1>1 DEF Start
<1>2. CASE Die
  BY <1>2 DEF Die
<1>3. CASE Poll
  <2>1. pc' = "due" /\ due' = Due /\ UNCHANGED <<now, fired, calls>>
    BY <1>3 DEF Poll
  <2>2. MarksCalled'
    BY <2>1 DEF Today
  <2>3. ASSUME NEW c \in Cutoff, Passed(c)', c \notin due' PROVE calls'[c] # 0
    <3> DEFINE f == <<Today, c>>
    <3>1. Passed(c)
      BY <2>1, <2>3 DEF Passed, Hour
    <3>2. f \in fired /\ f[1] = Today /\ f[2] = c
      BY <2>1, <2>3, <3>1 DEF Due
    <3> QED BY <2>1, <3>2
  <2> QED BY <2>1, <2>2, <2>3
<1>4. ASSUME NEW c \in Cutoff, Fire(c) PROVE CalledInv'
  <2>1. /\ pc = "due" /\ pc' = pc /\ day = Today /\ now' = now
        /\ fired' = fired \union {<<Today, c>>} /\ due' = due \ {c}
        /\ calls' = [calls EXCEPT ![c] = @ + 1]
    BY <1>4 DEF Fire, Mark, Inv, DueNotCalled
  <2>2. \A d \in Cutoff : calls'[d] = (IF d = c THEN calls[c] + 1 ELSE calls[d])
    BY <1>0, <2>1
  <2>3. Today' = Today /\ \A d \in Cutoff : Passed(d)' = Passed(d)
    BY <2>1 DEF Today, Passed, Hour
  <2>4. Today \in Nat
    BY <1>0 DEF Today
  <2>5. MarksCalled'
    <3> SUFFICES ASSUME NEW f \in fired'
                 PROVE  f[1] <= Today /\ (f[1] = Today => calls'[f[2]] # 0)
      BY <2>3
    <3>1. CASE f \in fired
      BY <1>0, <2>2, <3>1
    <3>2. CASE f = <<Today, c>>
      BY <1>0, <2>2, <2>4, <3>2
    <3> QED BY <2>1, <3>1, <3>2
  <2>6. RoundCalls'
    BY <1>0, <2>1, <2>2, <2>3
  <2> QED BY <2>5, <2>6
<1>5. CASE Forget
  <2>1. /\ pc = "due" /\ pc' = "sleep" /\ due = {} /\ UNCHANGED <<now, calls>>
        /\ fired' \subseteq fired
    BY <1>5 DEF Forget
  <2> QED BY <2>1 DEF Today, Passed, Hour
<1>6. CASE Tick
  <2>1. pc' = pc /\ pc # "due" /\ polled' = FALSE /\ now' = now + 1 /\ fired' = fired
    BY <1>6 DEF Tick
  <2>2. CASE Hour = 23
    <3>1. Today' = Today + 1 /\ Today \in Nat
      BY <1>0, <2>1, <2>2, NextDay DEF Today, Hour
    <3> QED BY <1>0, <2>1, <3>1
  <2>3. CASE Hour # 23
    <3>1. Today' = Today /\ calls' = calls
      BY <1>0, <1>6, <2>1, <2>3, NextDay DEF Today, Hour, Tick
    <3> QED BY <2>1, <3>1
  <2> QED BY <2>2, <2>3
<1>7. CASE UNCHANGED vars
  BY <1>7 DEF vars, Today, Passed, Hour
<1> QED BY <1>1, <1>2, <1>3, <1>4, <1>5, <1>6, <1>7 DEF Next

\* A cutoff is called in its own hour by a process that was up when the hour
\* began, and at once by one that started later on the day, as long as the
\* cutoffs are written with two digits.
THEOREM CalledInTime ==
  ASSUME Padded = Cutoff
  PROVE  Spec => []CutoffCalled
<1>1. Init => CalledInv
  BY DEF Init, CalledInv, MarksCalled, RoundCalls
<1>2. Inv /\ CalledInv /\ [Next]_vars => CalledInv'
  BY CalledStep
<1>3. Inv /\ CalledInv => CutoffCalled
  BY DEF Inv, TypeOK, CalledInv, RoundCalls, Passed, CutoffCalled
<1> QED BY <1>1, <1>2, <1>3, InvAlways, PTL DEF Spec

-----------------------------------------------------------------------------
(* Arming. *)

ArmsInv == scene \in Arming => Arms!FullInv /\ Arms!PlaceInv /\ Arms!ParkedInv

LEMMA ArmsInit == MCInit => ArmsInv
  BY PartsAssumption, Arms!FullInit, Arms!PlaceInit, Arms!ParkedInit DEF MCInit, ArmsInv

LEMMA ArmsSteps ==
  ASSUME scene \in Arming, [MCNext]_allvars
  PROVE  [Arms!Next]_(Arms!vars)
<1>1. CASE MCNext
  BY <1>1 DEF MCNext, Arming
<1>2. CASE UNCHANGED allvars
  BY <1>2 DEF allvars, armsOwn, shared, Arms!vars, Arms!live, Arms!server, Arms!day
<1> QED BY <1>1, <1>2

LEMMA SameScene == [MCNext]_allvars => scene' = scene
  BY DEF MCNext, allvars

LEMMA ArmsStep == ArmsInv /\ [MCNext]_allvars => ArmsInv'
<1> SUFFICES ASSUME ArmsInv, [MCNext]_allvars, scene' \in Arming
             PROVE  (Arms!FullInv /\ Arms!PlaceInv /\ Arms!ParkedInv)'
  BY DEF ArmsInv
<1>1. Arms!FullInv /\ Arms!PlaceInv /\ Arms!ParkedInv /\ [Arms!Next]_(Arms!vars)
  BY SameScene, ArmsSteps DEF ArmsInv
<1>2. Arms!ArmInv /\ MaxRow \in Nat
  BY <1>1, PartsAssumption DEF Arms!FullInv
<1>3. Arms!FullInv'
  BY <1>1, Arms!ArmStep, Arms!StopStep DEF Arms!FullInv
<1>4. Arms!PlaceInv'
  BY <1>1, <1>2, Arms!PlaceStep
<1>5. Arms!ParkedInv'
  BY <1>1, <1>2, Arms!ParkedStep
<1> QED BY <1>3, <1>4, <1>5

\* What the member stopped or unchecked is not armed again, by a test that was
\* under way nor by the server coming back (_live_disarm_asset, _apply_gating).
THEOREM StoppedStays == MCSpec => []StopHolds
<1>1. ArmsInv => StopHolds
  BY DEF ArmsInv, StopHolds, Arms!FullInv, Arms!StopInv, Arms!StopHolds, Arms!On,
         Arms!ArmInv, Arms!Covered
<1> QED BY <1>1, ArmsInit, ArmsStep, PTL DEF MCSpec

\* A row that takes signals has its session close on the same account.
THEOREM EveryRowCloses == MCSpec => []SigHasClose
<1>1. ArmsInv => SigHasClose
  BY DEF ArmsInv, SigHasClose, Arms!FullInv, Arms!ArmInv, Arms!Covered, Arms!SigHasClose
<1> QED BY <1>1, ArmsInit, ArmsStep, PTL DEF MCSpec

\* Only accounts whose connection was tested are armed (_arm_tested_rows).
THEOREM OnlyTested == MCSpec => []ArmedIsTested
<1>1. ArmsInv => ArmedIsTested
  BY DEF ArmsInv, ArmedIsTested, Arms!FullInv, Arms!ArmInv
<1> QED BY <1>1, ArmsInit, ArmsStep, PTL DEF MCSpec

\* An armed row is at the place of its account, whatever rows before it are
\* deleted while it is armed or parked (_rekey_after_delete).
THEOREM RowsKeepPlace == MCSpec => []KeysFollow
<1>1. ArmsInv => KeysFollow
  BY Arms!PlacedFollow DEF ArmsInv, KeysFollow
<1> QED BY <1>1, ArmsInit, ArmsStep, PTL DEF MCSpec

\* An outage that is over leaves no row parked (_apply_gating).
THEOREM OutageEnds == MCSpec => []NoneLeftParked
<1>1. ArmsInv => NoneLeftParked
  BY DEF ArmsInv, NoneLeftParked, Arms!ParkedInv
<1> QED BY <1>1, ArmsInit, ArmsStep, PTL DEF MCSpec

-----------------------------------------------------------------------------
(* UnsentFills.  Whoever has the file in hand alone has every report that    *)
(* nothing excuses, and whoever shares it excuses all that wait.           *)

\* Reports of the file that nothing excuses.
ReportClean == waiting \ (posted \union over \union raced)

ReportTyped ==
  /\ made \in Nat
  /\ step \in [Report!Report -> {"none", "send", "load", "store", "write", "done"}]
  /\ \A r \in Report!Report : r > made => step[r] = "none"
  /\ copy \in [Report!Report -> Seq(Report!Report)]
  /\ \A r \in Report!Report : Len(copy[r]) <= MaxQueue
  /\ queue \in Seq(Report!Report) /\ Len(queue) <= MaxQueue
  /\ tick \in [Ticks -> {"idle", "post", "write"}]
  /\ todo \in [Ticks -> Seq(Report!Report)] /\ keep \in [Ticks -> Seq(Report!Report)]
  /\ \A k \in Ticks : Len(todo[k]) + Len(keep[k]) <= MaxQueue
  /\ \A k \in Ticks : tick[k] = "idle" => todo[k] = <<>> /\ keep[k] = <<>>

\* Two threads that have the file in hand excuse what waits.
ReportPair ==
  /\ \A r, s \in Report!Report :
       r # s /\ Report!Holds(r) /\ Report!Holds(s) => waiting \subseteq raced
  /\ \A j, k \in Ticks : j # k /\ tick[j] # "idle" /\ tick[k] # "idle" => waiting \subseteq raced
  /\ \A r \in Report!Report, k \in Ticks :
       Report!Holds(r) /\ tick[k] # "idle" => waiting \subseteq raced

\* A thread holds what is clean; before it writes, so does the file.
ReportInHand ==
  /\ \A r \in Report!Report :
       Report!Holds(r) => ReportClean \subseteq Report!ToSet(copy[r]) \union {r}
  /\ \A r \in Report!Report :
       step[r] = "store" => ReportClean \subseteq Report!ToSet(queue) \union {r}
  /\ \A k \in Ticks :
       tick[k] # "idle" => ReportClean \subseteq Report!ToSet(todo[k]) \union Report!ToSet(keep[k])
  /\ \A k \in Ticks : tick[k] = "post" => ReportClean \subseteq Report!ToSet(queue)
  /\ \A k \in Ticks : tick[k] = "write" => todo[k] = <<>>
  /\ ~Report!Held => ReportClean \subseteq Report!ToSet(queue)

ReportHeld == ReportTyped /\ ReportPair /\ ReportInHand

-----------------------------------------------------------------------------

LEMMA SeqElements ==
  ASSUME NEW S, NEW s \in Seq(S)
  PROVE  Report!ToSet(s) \subseteq S
  BY DEF Report!ToSet

LEMMA EmptySet == Report!ToSet(<<>>) = {}
  BY DEF Report!ToSet

LEMMA AppendSet ==
  ASSUME NEW S, NEW s \in Seq(S), NEW r \in S
  PROVE  /\ Append(s, r) \in Seq(S) /\ Len(Append(s, r)) = Len(s) + 1
         /\ Report!ToSet(s) \union {r} \subseteq Report!ToSet(Append(s, r))
<1>1. Append(s, r) \in Seq(S) /\ Len(Append(s, r)) = Len(s) + 1
  OBVIOUS
<1>2. /\ \A i \in 1 .. Len(s) : Append(s, r)[i] = s[i]
      /\ Append(s, r)[Len(s) + 1] = r
  OBVIOUS
<1>3. DOMAIN s = 1 .. Len(s) /\ DOMAIN Append(s, r) = 1 .. (Len(s) + 1)
  BY <1>1
<1> QED BY <1>1, <1>2, <1>3 DEF Report!ToSet

LEMMA TailSet ==
  ASSUME NEW S, NEW s \in Seq(S), s # <<>>
  PROVE  /\ Tail(s) \in Seq(S) /\ Len(Tail(s)) = Len(s) - 1 /\ Head(s) \in S
         /\ Report!ToSet(s) \subseteq {Head(s)} \union Report!ToSet(Tail(s))
<1>1. Tail(s) \in Seq(S) /\ Len(Tail(s)) = Len(s) - 1 /\ Head(s) \in S
  OBVIOUS
<1>2. \A i \in 1 .. Len(s) : i # 1 => i - 1 \in 1 .. Len(Tail(s)) /\ Tail(s)[i - 1] = s[i]
  OBVIOUS
<1>3. Head(s) = s[1]
  OBVIOUS
<1>4. DOMAIN s = 1 .. Len(s) /\ DOMAIN Tail(s) = 1 .. Len(Tail(s))
  BY <1>1
<1> QED BY <1>1, <1>2, <1>3, <1>4 DEF Report!ToSet

\* The queue loses at most its first report.
LEMMA QueuedSet ==
  ASSUME NEW S, NEW q \in Seq(S), NEW r \in S,
         MaxQueue \in Nat \ {0}, Len(q) <= MaxQueue
  PROVE  /\ Report!Queued(q, r) \in Seq(S) /\ Len(Report!Queued(q, r)) <= MaxQueue
         /\ Report!ToSet(q) \union {r} \subseteq
              Report!ToSet(Report!Queued(q, r)) \union (IF Len(q) < MaxQueue THEN {} ELSE {q[1]})
<1>1. CASE Len(q) < MaxQueue
  BY <1>1, AppendSet DEF Report!Queued
<1>2. CASE Len(q) = MaxQueue
  <2> DEFINE l == Append(q, r)  m == SubSeq(l, 2, MaxQueue + 1)
  <2>1. l \in Seq(S) /\ Len(l) = MaxQueue + 1
    BY <1>2
  <2>2. Report!Queued(q, r) = m
    BY <1>2, <2>1 DEF Report!Queued, Report!Longer
  <2>3. /\ \A i \in 1 .. MaxQueue : l[i] = q[i]
        /\ l[MaxQueue + 1] = r
    BY <1>2
  <2> HIDE DEF l
  <2>4. m \in Seq(S) /\ Len(m) = MaxQueue
    BY <2>1
  <2>5. \A i \in 1 .. MaxQueue : m[i] = l[i + 1]
    BY <2>1
  <2>6. DOMAIN q = 1 .. MaxQueue /\ DOMAIN m = 1 .. MaxQueue
    BY <1>2, <2>4
  <2> HIDE DEF m
  <2>7. r \in Report!ToSet(m)
    <3>1. m[MaxQueue] = r
      BY <2>3, <2>5
    <3> QED BY <2>6, <3>1 DEF Report!ToSet
  <2>8. ASSUME NEW x \in Report!ToSet(q), x # q[1] PROVE x \in Report!ToSet(m)
    <3>1. PICK i \in 1 .. MaxQueue : q[i] = x
      BY <2>6 DEF Report!ToSet
    <3>2. i # 1 /\ i - 1 \in 1 .. MaxQueue
      BY <2>8, <3>1
    <3>3. m[i - 1] = l[(i - 1) + 1]
      BY <2>5, <3>2
    <3>4. m[i - 1] = x
      BY <2>3, <3>1, <3>3
    <3> QED BY <2>6, <3>2, <3>4 DEF Report!ToSet
  <2> QED BY <1>2, <2>2, <2>4, <2>7, <2>8
<1> QED BY <1>1, <1>2

-----------------------------------------------------------------------------
LEMMA ReportHeldInit ==
  ASSUME MaxQueue \in Nat \ {0}, Report!Init PROVE ReportHeld
<1>1. Len(<<>>) = 0 /\ <<>> \in Seq(Report!Report)
  OBVIOUS
<1>2. ReportTyped
  BY <1>1 DEF Report!Init, ReportTyped
<1>3. ReportPair
  BY DEF Report!Init, ReportPair, Report!Holds
<1>4. ReportClean = {}
  BY DEF Report!Init, ReportClean
<1>5. ReportInHand
  BY <1>4 DEF Report!Init, ReportInHand, Report!Holds
<1> QED BY <1>2, <1>3, <1>5 DEF ReportHeld

\* If what waits is excused, nothing is clean.
LEMMA ReportExcused ==
  /\ waiting \subseteq raced => ReportClean = {}
  /\ waiting' \subseteq raced' => ReportClean' = {}
  BY DEF ReportClean

LEMMA ReportTypedStep ==
  ASSUME MaxQueue \in Nat \ {0}, ReportTyped, ReportInHand, Report!Next PROVE ReportTyped'
<1> USE DEF ReportTyped, Report!file
<1>1. Len(<<>>) = 0 /\ <<>> \in Seq(Report!Report) /\ Len(<<>>) <= MaxQueue
  OBVIOUS
<1>2. CASE Report!Fills
  <2>1. made' = made + 1 /\ step' = [step EXCEPT ![made + 1] = "send"]
    BY <1>2 DEF Report!Fills
  <2>2. \A r \in Report!Report : r \in Nat
    BY DEF Report!Report
  <2>3. made' \in Nat /\ \A r \in Report!Report : r > made' => step'[r] = "none"
    BY <2>1, <2>2
  <2> QED BY <1>2, <2>1, <2>3 DEF Report!Fills
<1>3. CASE Report!Crash
  <2>1. /\ made' = made /\ queue' = queue
        /\ step' = [r \in Report!Report |-> IF r <= made THEN "done" ELSE "none"]
        /\ copy' = [r \in Report!Report |-> <<>>] /\ tick' = [k \in Ticks |-> "idle"]
        /\ todo' = [k \in Ticks |-> <<>>] /\ keep' = [k \in Ticks |-> <<>>]
    BY <1>3 DEF Report!Crash
  <2> QED BY <1>1, <2>1 DEF Report!Report
<1>4. ASSUME NEW r \in Report!Report, Report!Post(r) PROVE ReportTyped'
  BY <1>4 DEF Report!Post, Report!Report
<1>5. ASSUME NEW r \in Report!Report, Report!Load(r) PROVE ReportTyped'
  BY <1>5 DEF Report!Load, Report!Report
<1>6. ASSUME NEW r \in Report!Report, Report!Store(r) PROVE ReportTyped'
  <2>1. /\ step[r] = "store" /\ UNCHANGED <<made, tick, todo, keep>>
        /\ step' \in {[step EXCEPT ![r] = "write"], [step EXCEPT ![r] = "done"]}
        /\ copy' \in {copy, [copy EXCEPT ![r] = <<>>]} /\ queue' \in {queue, <<>>}
    BY <1>6 DEF Report!Store
  <2>2. /\ copy' \in [Report!Report -> Seq(Report!Report)]
        /\ \A x \in Report!Report : Len(copy'[x]) <= MaxQueue
    <3>1. CASE copy' = copy
      BY <3>1
    <3>2. CASE copy' = [copy EXCEPT ![r] = <<>>]
      BY <1>1, <3>2
    <3> QED BY <2>1, <3>1, <3>2
  <2>4. queue' \in Seq(Report!Report) /\ Len(queue') <= MaxQueue
    <3>1. queue' = queue \/ queue' = <<>>
      BY <2>1
    <3> QED BY <1>1, <3>1
  <2>5. UNCHANGED <<made, tick, todo, keep>>
    BY <2>1
  <2>3. /\ step' \in [Report!Report -> {"none", "send", "load", "store", "write", "done"}]
        /\ \A x \in Report!Report : x > made' => step'[x] = "none"
    BY <2>1
  <2> QED BY <2>2, <2>3, <2>4, <2>5
<1>7. ASSUME NEW r \in Report!Report, Report!Write(r) PROVE ReportTyped'
  <2> DEFINE q == Report!Queued(copy[r], r)
  <2>1. q \in Seq(Report!Report) /\ Len(q) <= MaxQueue
    BY QueuedSet
  <2> HIDE DEF q
  <2>2. /\ queue' \in {q, <<>>} /\ copy' = [copy EXCEPT ![r] = <<>>]
        /\ step[r] = "write" /\ step' = [step EXCEPT ![r] = "done"]
        /\ UNCHANGED <<made, tick, todo, keep>>
    BY <1>7 DEF Report!Write, q
  <2>3. /\ copy' \in [Report!Report -> Seq(Report!Report)]
        /\ \A x \in Report!Report : Len(copy'[x]) <= MaxQueue
    <3>1. copy' = [copy EXCEPT ![r] = <<>>]
      BY <2>2
    <3> QED BY <1>1, <3>1
  <2>4. /\ step' \in [Report!Report -> {"none", "send", "load", "store", "write", "done"}]
        /\ \A x \in Report!Report : x > made' => step'[x] = "none"
    BY <2>2
  <2>5. queue' \in Seq(Report!Report) /\ Len(queue') <= MaxQueue
    <3>1. queue' = q \/ queue' = <<>>
      BY <2>2
    <3> QED BY <1>1, <2>1, <3>1
  <2>6. UNCHANGED <<made, tick, todo, keep>>
    BY <2>2
  <2> QED BY <2>3, <2>4, <2>5, <2>6
<1>8. ASSUME NEW k \in Ticks, Report!TickBegins(k) PROVE ReportTyped'
  <2>1. todo' = [todo EXCEPT ![k] = queue] /\ keep' = keep /\ keep[k] = <<>>
    BY <1>8 DEF Report!TickBegins
  <2>2. \A j \in Ticks : Len(todo'[j]) + Len(keep'[j]) <= MaxQueue
    BY <1>1, <2>1
  <2> QED BY <1>8, <2>1, <2>2 DEF Report!TickBegins
<1>9. ASSUME NEW k \in Ticks, Report!TickPosts(k) PROVE ReportTyped'
  <2>1. todo[k] # <<>> /\ todo' = [todo EXCEPT ![k] = Tail(@)] /\ tick[k] = "post"
    BY <1>9 DEF Report!TickPosts
  <2>2. /\ Tail(todo[k]) \in Seq(Report!Report) /\ Len(Tail(todo[k])) = Len(todo[k]) - 1
        /\ Head(todo[k]) \in Report!Report
    BY <2>1, TailSet
  <2>3. \/ keep' = keep
        \/ keep' = [keep EXCEPT ![k] = Append(@, Head(todo[k]))]
    BY <1>9 DEF Report!TickPosts, Report!Refused
  <2>4. /\ Append(keep[k], Head(todo[k])) \in Seq(Report!Report)
        /\ Len(Append(keep[k], Head(todo[k]))) = Len(keep[k]) + 1
    BY <2>2, AppendSet
  <2>5. /\ todo' \in [Ticks -> Seq(Report!Report)] /\ keep' \in [Ticks -> Seq(Report!Report)]
        /\ \A j \in Ticks : Len(todo'[j]) + Len(keep'[j]) <= MaxQueue
    <3>1. todo' \in [Ticks -> Seq(Report!Report)]
      BY <2>1, <2>2
    <3>2. keep' \in [Ticks -> Seq(Report!Report)]
      BY <2>3, <2>4
    <3>3. ASSUME NEW j \in Ticks PROVE Len(todo'[j]) + Len(keep'[j]) <= MaxQueue
      <4>1. CASE j = k
        <5>1. Len(todo'[k]) = Len(todo[k]) - 1
          BY <2>1, <2>2
        <5>2. Len(keep'[k]) = Len(keep[k]) \/ Len(keep'[k]) = Len(keep[k]) + 1
          BY <2>3, <2>4
        <5>3. /\ Len(todo[k]) \in Nat /\ Len(keep[k]) \in Nat
              /\ Len(todo[k]) + Len(keep[k]) <= MaxQueue
          OBVIOUS
        <5> QED BY <4>1, <5>1, <5>2, <5>3
      <4>2. CASE j # k
        BY <2>1, <2>3, <4>2
      <4> QED BY <4>1, <4>2
    <3> QED BY <3>1, <3>2, <3>3
  <2>6. UNCHANGED <<made, step, copy, queue, tick>>
    BY <1>9 DEF Report!TickPosts
  <2>7. \A j \in Ticks : tick'[j] = "idle" => todo'[j] = <<>> /\ keep'[j] = <<>>
    BY <2>1, <2>3, <2>6
  <2> QED BY <2>5, <2>6, <2>7
<1>10. ASSUME NEW k \in Ticks, Report!TickStores(k) PROVE ReportTyped'
  <2>1. /\ todo[k] = <<>> /\ UNCHANGED <<made, step, copy, todo>>
        /\ \/ queue' = <<>> /\ keep' = keep /\ tick' = [tick EXCEPT ![k] = "write"]
           \/ /\ queue' = queue /\ keep' = [keep EXCEPT ![k] = <<>>]
              /\ tick' = [tick EXCEPT ![k] = "idle"]
    BY <1>10 DEF Report!TickStores
  <2>2. CASE queue' = <<>> /\ keep' = keep /\ tick' = [tick EXCEPT ![k] = "write"]
    BY <1>1, <2>1, <2>2
  <2>3. CASE /\ queue' = queue /\ keep' = [keep EXCEPT ![k] = <<>>]
             /\ tick' = [tick EXCEPT ![k] = "idle"]
    <3>1. \A j \in Ticks : Len(todo'[j]) + Len(keep'[j]) <= MaxQueue
      <4>1. ASSUME NEW j \in Ticks PROVE Len(todo[j]) + Len(keep'[j]) <= MaxQueue
        <5>1. CASE j = k
          BY <1>1, <2>1, <2>3, <5>1
        <5>2. CASE j # k
          BY <2>3, <5>2
        <5> QED BY <5>1, <5>2
      <4> QED BY <2>1, <4>1
    <3>2. keep' \in [Ticks -> Seq(Report!Report)] /\ tick' \in [Ticks -> {"idle", "post", "write"}]
      BY <1>1, <2>3
    <3>3. \A j \in Ticks : tick'[j] = "idle" => todo'[j] = <<>> /\ keep'[j] = <<>>
      BY <2>1, <2>3
    <3> QED BY <2>1, <2>3, <3>1, <3>2, <3>3
  <2> QED BY <2>1, <2>2, <2>3
<1>11. ASSUME NEW k \in Ticks, Report!TickWrites(k) PROVE ReportTyped'
  <2>1. todo[k] = <<>> /\ todo' = todo
    BY <1>11 DEF ReportInHand, Report!TickWrites
  <2>2. queue' \in {keep[k], <<>>} /\ Len(keep[k]) <= MaxQueue
    BY <1>1, <1>11, <2>1 DEF Report!TickWrites
  <2> QED BY <1>1, <1>11, <2>1, <2>2 DEF Report!TickWrites
<1> QED
  BY <1>2, <1>3, <1>4, <1>5, <1>6, <1>7, <1>8, <1>9, <1>10, <1>11 DEF Report!Next

\* Whoever comes second excuses what waits.
LEMMA ReportPairStep ==
  ASSUME ReportTyped, ReportPair, Report!Next PROVE ReportPair'
<1> USE DEF Report!file
<1>1. ASSUME waiting' = waiting, raced \subseteq raced',
             \A r \in Report!Report : Report!Holds(r)' => Report!Holds(r),
             \A k \in Ticks : tick'[k] # "idle" => tick[k] # "idle"
      PROVE  ReportPair'
  BY <1>1 DEF ReportPair
<1>2. CASE Report!Fills
  BY <1>1, <1>2 DEF Report!Fills, Report!Holds, ReportTyped
<1>3. CASE Report!Crash
  BY <1>1, <1>3 DEF Report!Crash, Report!Holds, ReportTyped
<1>4. ASSUME NEW r \in Report!Report, Report!Post(r) \/ Report!Store(r) \/ Report!Write(r)
      PROVE  ReportPair'
  BY <1>1, <1>4 DEF Report!Post, Report!Store, Report!Write, Report!Holds, ReportTyped
<1>5. ASSUME NEW r \in Report!Report, Report!Load(r) PROVE ReportPair'
  <2>1. CASE Report!Held
    BY <1>5, <2>1 DEF Report!Load, ReportPair
  <2>2. CASE ~Report!Held
    BY <1>5, <2>2 DEF Report!Load, ReportPair, Report!Held, Report!Holds, ReportTyped
  <2> QED BY <2>1, <2>2
<1>6. ASSUME NEW k \in Ticks, Report!TickBegins(k) PROVE ReportPair'
  <2>1. CASE Report!Held
    BY <1>6, <2>1 DEF Report!TickBegins, ReportPair
  <2>2. CASE ~Report!Held
    BY <1>6, <2>2 DEF Report!TickBegins, ReportPair, Report!Held, Report!Holds, ReportTyped
  <2> QED BY <2>1, <2>2
<1>7. ASSUME NEW k \in Ticks,
             Report!TickPosts(k) \/ Report!TickStores(k) \/ Report!TickWrites(k)
      PROVE  ReportPair'
  BY <1>1, <1>7 DEF Report!TickPosts, Report!TickStores, Report!TickWrites, Report!Holds,
                    ReportTyped
<1> QED BY <1>2, <1>3, <1>4, <1>5, <1>6, <1>7 DEF Report!Next

LEMMA ReportInHandStep ==
  ASSUME MaxQueue \in Nat \ {0}, ReportHeld, Report!Next PROVE ReportInHand'
<1> USE DEF Report!file
<1>0. ReportTyped /\ ReportPair /\ ReportInHand
  BY DEF ReportHeld
\* When nothing is clean, nothing is left to show but that a writing tick is through.
<1>1. ASSUME ReportClean' = {}, \A k \in Ticks : tick'[k] = "write" => todo'[k] = <<>>
      PROVE  ReportInHand'
  BY <1>1 DEF ReportInHand
\* What leaves the file and its threads alone.
<1>2. ASSUME ReportClean' \subseteq ReportClean, UNCHANGED Report!file,
             \A r \in Report!Report :
               /\ Report!Holds(r)' = Report!Holds(r)
               /\ (step'[r] = "store" => step[r] = "store")
      PROVE  ReportInHand'
  BY <1>0, <1>2 DEF ReportInHand, Report!Held
<1>3. CASE Report!Fills
  <2>1. \A r \in Report!Report : r \in Nat
    BY DEF Report!Report
  <2>2. ReportClean' = ReportClean /\ UNCHANGED Report!file
    BY <1>3 DEF Report!Fills, ReportClean
  <2>3. \A r \in Report!Report :
          /\ Report!Holds(r)' = Report!Holds(r)
          /\ (step'[r] = "store" => step[r] = "store")
    <3> SUFFICES ASSUME NEW r \in Report!Report
                 PROVE  /\ Report!Holds(r)' = Report!Holds(r)
                        /\ (step'[r] = "store" => step[r] = "store")
      OBVIOUS
    <3>1. made \in Nat /\ (r > made => step[r] = "none") /\ r \in Nat
      BY <1>0, <2>1 DEF ReportTyped
    <3>2. r = made + 1 => step[r] = "none" /\ step'[r] = "send"
      BY <1>0, <1>3, <3>1 DEF Report!Fills, ReportTyped
    <3>3. r # made + 1 => step'[r] = step[r]
      BY <1>0, <1>3 DEF Report!Fills, ReportTyped
    <3> QED BY <3>2, <3>3 DEF Report!Holds
  <2> QED BY <1>2, <2>2, <2>3
<1>4. CASE Report!Crash
  <2>1. /\ ~Report!Held' /\ queue' = queue /\ \A k \in Ticks : tick'[k] = "idle"
        /\ \A r \in Report!Report : ~Report!Holds(r)' /\ step'[r] # "store"
    BY <1>0, <1>4 DEF Report!Crash, Report!Held, Report!Holds, ReportTyped
  <2>2. ReportClean' \subseteq Report!ToSet(queue)
    <3>1. CASE (\E r \in Report!Report : step[r] = "write") \/ \E k \in Ticks : tick[k] = "write"
      BY <1>4, <3>1 DEF Report!Crash, ReportClean
    <3>2. CASE /\ \A r \in Report!Report : step[r] # "write"
               /\ \A k \in Ticks : tick[k] # "write"
      <4>1. ReportClean' \subseteq ReportClean \ {r \in waiting : step[r] = "store"}
        BY <1>4, <3>2 DEF Report!Crash, ReportClean
      <4>2. CASE \E r \in Report!Report : step[r] = "store"
        <5>1. PICK r \in Report!Report : step[r] = "store"
          BY <4>2
        <5>2. ReportClean \subseteq Report!ToSet(queue) \union {r}
          BY <1>0, <5>1 DEF ReportInHand
        <5>3. r \notin ReportClean'
          BY <4>1, <5>1 DEF ReportClean
        <5> QED BY <4>1, <5>2, <5>3
      <4>3. CASE \E k \in Ticks : tick[k] # "idle"
        <5>1. PICK k \in Ticks : tick[k] # "idle"
          BY <4>3
        <5>2. tick[k] = "post"
          BY <1>0, <3>2, <5>1 DEF ReportTyped
        <5> QED BY <1>0, <4>1, <5>2 DEF ReportInHand
      <4>4. CASE ~Report!Held
        BY <1>0, <4>1, <4>4 DEF ReportInHand
      <4> QED BY <1>0, <3>2, <4>2, <4>3, <4>4 DEF Report!Held, Report!Holds, ReportTyped
    <3> QED BY <3>1, <3>2
  <2> QED BY <2>1, <2>2 DEF ReportInHand
<1>5. ASSUME NEW r \in Report!Report, Report!Post(r) PROVE ReportInHand'
  <2>1. ReportClean' \subseteq ReportClean /\ UNCHANGED Report!file
    BY <1>5 DEF Report!Post, ReportClean, Report!Taken
  <2>2. \A s \in Report!Report :
          /\ Report!Holds(s)' = Report!Holds(s)
          /\ (step'[s] = "store" => step[s] = "store")
    BY <1>0, <1>5 DEF Report!Post, Report!Holds, ReportTyped
  <2> QED BY <1>2, <2>1, <2>2
<1>6. ASSUME NEW r \in Report!Report, Report!Load(r) PROVE ReportInHand'
  <2>1. /\ step' = [step EXCEPT ![r] = "store"] /\ copy' = [copy EXCEPT ![r] = queue]
        /\ UNCHANGED <<queue, tick, todo, keep, posted, over>>
        /\ waiting' = waiting \union {r}
    BY <1>6 DEF Report!Load
  <2>2. CASE Report!Held
    <3>1. ReportClean' = {}
      BY <1>6, <2>2, ReportExcused DEF Report!Load
    <3> QED BY <1>0, <1>1, <2>1, <3>1 DEF ReportInHand
  <2>3. CASE ~Report!Held
    <3>1. ReportClean' \subseteq ReportClean \union {r}
      BY <1>6, <2>1, <2>3 DEF Report!Load, ReportClean
    <3>2. ReportClean \subseteq Report!ToSet(queue)
      BY <1>0, <2>3 DEF ReportInHand
    <3>3. /\ \A k \in Ticks : tick'[k] = "idle"
          /\ \A s \in Report!Report : Report!Holds(s)' => s = r
          /\ Report!Held'
      BY <1>0, <2>1, <2>3 DEF Report!Held, Report!Holds, ReportTyped
    <3>4. copy'[r] = queue /\ queue' = queue
      BY <1>0, <2>1 DEF ReportTyped
    <3> QED BY <3>1, <3>2, <3>3, <3>4 DEF ReportInHand, Report!Holds
  <2> QED BY <2>2, <2>3
<1>7. ASSUME NEW r \in Report!Report, step[r] = "store" \/ step[r] = "write",
             \/ \E s \in Report!Report : s # r /\ Report!Holds(s)
             \/ \E k \in Ticks : tick[k] # "idle"
      PROVE  ReportClean = {}
  BY <1>0, <1>7, ReportExcused DEF ReportPair, Report!Holds
<1>8. ASSUME NEW r \in Report!Report, Report!Store(r) PROVE ReportInHand'
  <2>1. /\ step[r] = "store" /\ ReportClean' \subseteq ReportClean
        /\ UNCHANGED <<tick, todo, keep>>
        /\ \/ step' = [step EXCEPT ![r] = "write"] /\ copy' = copy
           \/ /\ step' = [step EXCEPT ![r] = "done"] /\ queue' = queue
              /\ r \notin ReportClean'
    BY <1>8 DEF Report!Store, ReportClean
  <2>2. CASE \/ \E s \in Report!Report : s # r /\ Report!Holds(s)
             \/ \E k \in Ticks : tick[k] # "idle"
    BY <1>0, <1>1, <1>7, <2>1, <2>2 DEF ReportInHand
  <2>4. CASE /\ \A s \in Report!Report : s # r => ~Report!Holds(s)
             /\ \A k \in Ticks : tick[k] = "idle"
             /\ step' = [step EXCEPT ![r] = "done"] /\ queue' = queue /\ r \notin ReportClean'
    <3>1. \A s \in Report!Report : ~Report!Holds(s)' /\ step'[s] # "store"
      BY <1>0, <2>1, <2>4 DEF Report!Holds, ReportTyped
    <3>2. ReportClean \subseteq Report!ToSet(queue) \union {r}
      BY <1>0, <2>1 DEF ReportInHand
    <3> QED BY <2>1, <2>4, <3>1, <3>2 DEF ReportInHand
  <2>3. CASE /\ \A s \in Report!Report : s # r => ~Report!Holds(s)
             /\ \A k \in Ticks : tick[k] = "idle"
             /\ step' = [step EXCEPT ![r] = "write"] /\ copy' = copy
    <3>1. /\ \A s \in Report!Report : Report!Holds(s)' => s = r
          /\ \A s \in Report!Report : step'[s] # "store" /\ Report!Held'
      BY <1>0, <2>1, <2>3 DEF Report!Held, Report!Holds, ReportTyped
    <3>2. ReportClean \subseteq Report!ToSet(copy[r]) \union {r}
      BY <1>0, <2>1 DEF ReportInHand, Report!Holds
    <3> QED BY <2>1, <2>3, <3>1, <3>2 DEF ReportInHand
  <2> QED BY <2>1, <2>2, <2>3, <2>4
<1>9. ASSUME NEW r \in Report!Report, Report!Write(r) PROVE ReportInHand'
  <2>1. /\ step[r] = "write" /\ step' = [step EXCEPT ![r] = "done"]
        /\ UNCHANGED <<tick, todo, keep, posted, waiting, raced>> /\ over \subseteq over'
        /\ \/ /\ queue' = Report!Queued(copy[r], r)
              /\ over' = IF Len(copy[r]) < MaxQueue THEN over ELSE over \union {copy[r][1]}
           \/ Report!ToSet(copy[r]) \union {r} \subseteq over'
    BY <1>9 DEF Report!Write
  <2>2. ReportClean' \subseteq ReportClean
    BY <2>1 DEF ReportClean
  <2>5. CASE Report!ToSet(copy[r]) \union {r} \subseteq over'
    <3>1. ReportClean' = {}
      BY <1>0, <2>1, <2>2, <2>5 DEF ReportInHand, Report!Holds, ReportClean
    <3> QED BY <1>0, <1>1, <2>1, <3>1 DEF ReportInHand
  <2>3. CASE \/ \E s \in Report!Report : s # r /\ Report!Holds(s)
             \/ \E k \in Ticks : tick[k] # "idle"
    <3>1. ReportClean' = {}
      BY <1>7, <2>1, <2>2, <2>3
    <3> QED BY <1>0, <1>1, <2>1, <3>1 DEF ReportInHand
  <2>4. CASE /\ \A s \in Report!Report : s # r => ~Report!Holds(s)
             /\ \A k \in Ticks : tick[k] = "idle"
             /\ queue' = Report!Queued(copy[r], r)
             /\ over' = IF Len(copy[r]) < MaxQueue THEN over ELSE over \union {copy[r][1]}
    <3>1. \A s \in Report!Report : ~Report!Holds(s)' /\ step'[s] # "store"
      BY <1>0, <2>1, <2>4 DEF Report!Holds, ReportTyped
    <3>2. ReportClean \subseteq Report!ToSet(copy[r]) \union {r}
      BY <1>0, <2>1 DEF ReportInHand, Report!Holds
    <3>3. copy[r] \in Seq(Report!Report) /\ Len(copy[r]) <= MaxQueue
      BY <1>0 DEF ReportTyped
    <3>4. Report!ToSet(copy[r]) \union {r} \subseteq
            Report!ToSet(queue') \union (IF Len(copy[r]) < MaxQueue THEN {} ELSE {copy[r][1]})
      BY <2>4, <3>3, QueuedSet
    <3>5. Len(copy[r]) < MaxQueue \/ copy[r][1] \notin ReportClean'
      BY <2>4 DEF ReportClean
    <3>6. ReportClean' \subseteq Report!ToSet(queue')
      BY <2>2, <3>2, <3>4, <3>5
    <3> QED BY <2>1, <2>4, <3>1, <3>6 DEF ReportInHand
  <2> QED BY <2>1, <2>3, <2>4, <2>5
<1>10. ASSUME NEW k \in Ticks, Report!TickBegins(k) PROVE ReportInHand'
  <2>1. /\ tick' = [tick EXCEPT ![k] = "post"] /\ todo' = [todo EXCEPT ![k] = queue]
        /\ UNCHANGED <<step, copy, queue, keep>> /\ ReportClean' \subseteq ReportClean
    BY <1>10 DEF Report!TickBegins, ReportClean
  <2>2. CASE Report!Held
    <3>1. ReportClean' = {}
      BY <1>10, <2>2, ReportExcused DEF Report!TickBegins
    <3> QED BY <1>0, <1>1, <2>1, <3>1 DEF ReportInHand, ReportTyped
  <2>3. CASE ~Report!Held
    <3>1. ReportClean' \subseteq Report!ToSet(queue)
      BY <1>0, <2>1, <2>3 DEF ReportInHand
    <3>2. /\ \A j \in Ticks : tick'[j] # "idle" => j = k
          /\ \A s \in Report!Report : ~Report!Holds(s)' /\ step'[s] # "store"
          /\ Report!Held' /\ tick'[k] = "post" /\ todo'[k] = queue /\ queue' = queue
      BY <1>0, <2>1, <2>3 DEF Report!Held, Report!Holds, ReportTyped
    <3> QED BY <3>1, <3>2 DEF ReportInHand
  <2> QED BY <2>2, <2>3
<1>11. ASSUME NEW k \in Ticks, tick[k] # "idle",
              \/ \E j \in Ticks : j # k /\ tick[j] # "idle"
              \/ \E s \in Report!Report : Report!Holds(s)
       PROVE  ReportClean = {}
  BY <1>0, <1>11, ReportExcused DEF ReportPair
<1>12. ASSUME NEW k \in Ticks, Report!TickPosts(k) PROVE ReportInHand'
  <2> DEFINE r == Head(todo[k])
  <2>1. /\ tick[k] = "post" /\ todo[k] # <<>> /\ todo' = [todo EXCEPT ![k] = Tail(@)]
        /\ UNCHANGED <<step, copy, queue, tick, waiting, raced>>
        /\ \/ posted' = posted \union {r} /\ UNCHANGED <<keep, over>>
           \/ keep' = [keep EXCEPT ![k] = Append(@, r)] /\ UNCHANGED <<posted, over>>
           \/ over' = over \union {r} /\ UNCHANGED <<posted, keep>>
    BY <1>12 DEF Report!TickPosts, Report!Taken, Report!Refused
  <2>2. /\ ReportClean' \subseteq ReportClean
        /\ r \notin ReportClean' \/ keep' = [keep EXCEPT ![k] = Append(@, r)]
    BY <2>1 DEF ReportClean
  <2>3. /\ r \in Report!Report
        /\ Report!ToSet(todo[k]) \subseteq {r} \union Report!ToSet(Tail(todo[k]))
        /\ todo[k] \in Seq(Report!Report) /\ keep[k] \in Seq(Report!Report)
    BY <1>0, <2>1, TailSet DEF ReportTyped
  <2> HIDE DEF r
  <2>4. CASE \/ \E j \in Ticks : j # k /\ tick[j] # "idle"
             \/ \E s \in Report!Report : Report!Holds(s)
    <3>1. ReportClean' = {}
      BY <1>11, <2>1, <2>2, <2>4
    <3>2. \A j \in Ticks : tick'[j] = "write" => todo'[j] = <<>>
      BY <1>0, <2>1 DEF ReportInHand, ReportTyped
    <3> QED BY <1>1, <3>1, <3>2
  <2>5. CASE /\ \A j \in Ticks : j # k => tick[j] = "idle"
             /\ \A s \in Report!Report : ~Report!Holds(s)
    <3>1. /\ ReportClean \subseteq Report!ToSet(todo[k]) \union Report!ToSet(keep[k])
          /\ ReportClean \subseteq Report!ToSet(queue)
      BY <1>0, <2>1 DEF ReportInHand
    <3>2. todo'[k] = Tail(todo[k]) /\ Report!ToSet(keep[k]) \subseteq Report!ToSet(keep'[k])
      <4>1. Report!ToSet(keep[k]) \union {r} \subseteq Report!ToSet(Append(keep[k], r))
        BY <2>3, AppendSet
      <4>2. keep'[k] = keep[k] \/ keep'[k] = Append(keep[k], r)
        BY <1>0, <2>1 DEF ReportTyped
      <4> QED BY <1>0, <2>1, <4>1, <4>2 DEF ReportTyped
    <3>3. r \notin ReportClean' \/ r \in Report!ToSet(keep'[k])
      <4>1. Report!ToSet(keep[k]) \union {r} \subseteq Report!ToSet(Append(keep[k], r))
        BY <2>3, AppendSet
      <4> QED BY <1>0, <2>2, <4>1 DEF ReportTyped
    <3>4. ReportClean' \subseteq Report!ToSet(todo'[k]) \union Report!ToSet(keep'[k])
      BY <2>2, <2>3, <3>1, <3>2, <3>3
    <3>5. /\ \A j \in Ticks : tick'[j] # "idle" => j = k
          /\ \A s \in Report!Report : ~Report!Holds(s)' /\ step'[s] # "store"
          /\ Report!Held' /\ tick'[k] = "post" /\ queue' = queue
      BY <2>1, <2>5 DEF Report!Held, Report!Holds
    <3> QED BY <2>2, <3>1, <3>4, <3>5 DEF ReportInHand
  <2> QED BY <2>4, <2>5
<1>13. ASSUME NEW k \in Ticks, Report!TickStores(k) PROVE ReportInHand'
  <2>1. /\ ReportClean' = ReportClean /\ UNCHANGED <<step, copy, todo>>
        /\ tick[k] = "post" /\ todo[k] = <<>>
        /\ \/ tick' = [tick EXCEPT ![k] = "write"] /\ keep' = keep
           \/ tick' = [tick EXCEPT ![k] = "idle"] /\ queue' = queue
    BY <1>13 DEF Report!TickStores, ReportClean
  <2>2. CASE \/ \E j \in Ticks : j # k /\ tick[j] # "idle"
             \/ \E s \in Report!Report : Report!Holds(s)
    <3>1. \A j \in Ticks : tick'[j] = "write" => todo'[j] = <<>>
      BY <1>0, <2>1 DEF ReportInHand, ReportTyped
    <3> QED BY <1>1, <1>11, <2>1, <2>2, <3>1
  <2>3. CASE /\ \A j \in Ticks : j # k => tick[j] = "idle"
             /\ \A s \in Report!Report : ~Report!Holds(s)
    <3>1. ReportClean \subseteq Report!ToSet(keep[k]) /\ ReportClean \subseteq Report!ToSet(queue)
      BY <1>0, <2>1, EmptySet DEF ReportInHand
    <3>2. \A s \in Report!Report : ~Report!Holds(s)' /\ step'[s] # "store"
      BY <2>1, <2>3 DEF Report!Holds
    <3>3. CASE tick' = [tick EXCEPT ![k] = "write"] /\ keep' = keep
      <4>1. /\ \A j \in Ticks : tick'[j] # "idle" => j = k
            /\ Report!Held' /\ tick'[k] = "write"
        BY <1>0, <2>3, <3>3 DEF Report!Held, ReportTyped
      <4> QED BY <2>1, <3>1, <3>2, <3>3, <4>1 DEF ReportInHand
    <3>4. CASE tick' = [tick EXCEPT ![k] = "idle"] /\ queue' = queue
      <4>1. \A j \in Ticks : tick'[j] = "idle"
        BY <1>0, <2>3, <3>4 DEF ReportTyped
      <4> QED BY <2>1, <3>1, <3>2, <3>4, <4>1 DEF ReportInHand
    <3> QED BY <2>1, <3>3, <3>4
  <2> QED BY <2>2, <2>3
<1>14. ASSUME NEW k \in Ticks, Report!TickWrites(k) PROVE ReportInHand'
  <2>1. /\ ReportClean' \subseteq ReportClean /\ UNCHANGED <<step, copy, todo>>
        /\ tick[k] = "write" /\ tick' = [tick EXCEPT ![k] = "idle"]
        /\ \/ queue' = keep[k]
           \/ \A x \in Report!ToSet(keep[k]) : x \notin ReportClean'
    BY <1>14 DEF Report!TickWrites, ReportClean
  <2>2. ReportClean \subseteq Report!ToSet(keep[k])
    BY <1>0, <2>1, EmptySet DEF ReportInHand
  <2>3. \A j \in Ticks : tick'[j] = "write" => todo'[j] = <<>>
    BY <1>0, <2>1 DEF ReportInHand, ReportTyped
  <2>4. CASE \/ \E j \in Ticks : j # k /\ tick[j] # "idle"
             \/ \E s \in Report!Report : Report!Holds(s)
    BY <1>1, <1>11, <2>1, <2>3, <2>4
  <2>5. CASE \A x \in Report!ToSet(keep[k]) : x \notin ReportClean'
    <3>1. ReportClean' = {}
      BY <2>1, <2>2, <2>5
    <3> QED BY <1>1, <2>3, <3>1
  <2>6. CASE /\ \A j \in Ticks : j # k => tick[j] = "idle"
             /\ \A s \in Report!Report : ~Report!Holds(s)
             /\ queue' = keep[k]
    <3>1. /\ \A j \in Ticks : tick'[j] = "idle"
          /\ \A s \in Report!Report : ~Report!Holds(s)' /\ step'[s] # "store"
      BY <1>0, <2>1, <2>6 DEF Report!Holds, ReportTyped
    <3> QED BY <2>1, <2>2, <2>6, <3>1 DEF ReportInHand
  <2> QED BY <2>1, <2>4, <2>5, <2>6
<1> QED
  BY <1>3, <1>4, <1>5, <1>6, <1>8, <1>9, <1>10, <1>12, <1>13, <1>14 DEF Report!Next

LEMMA ReportIdle ==
  ASSUME ReportHeld, UNCHANGED Report!vars PROVE ReportHeld'
  BY DEF ReportHeld, ReportTyped, ReportPair, ReportInHand, ReportClean, Report!Holds,
         Report!Held, Report!vars, Report!file

LEMMA ReportHeldKeeps == ReportHeld => Report!ReportKept
<1>1. ASSUME ReportHeld, Report!Quiet PROVE ReportClean \subseteq Report!ToSet(queue)
  BY <1>1 DEF ReportHeld, ReportInHand, Report!Quiet, Report!Held, Report!Holds
<1> QED BY <1>1 DEF Report!ReportKept, ReportClean

ReportInv == scene = "report" => ReportHeld

LEMMA ReportInit == MCInit => ReportInv
  BY PartsAssumption, ReportHeldInit DEF MCInit, ReportInv

LEMMA ReportStep == ReportInv /\ [MCNext]_allvars => ReportInv'
<1> SUFFICES ASSUME ReportInv, [MCNext]_allvars, scene' = "report" PROVE ReportHeld'
  BY DEF ReportInv
<1>1. scene = "report" /\ ReportHeld
  BY SameScene DEF ReportInv
<1>2. CASE MCNext
  <2>1. Report!Next
    BY <1>1, <1>2 DEF MCNext, Arming
  <2>2. ReportTyped' /\ ReportPair' /\ ReportInHand'
    BY <1>1, <2>1, PartsAssumption, ReportTypedStep, ReportPairStep, ReportInHandStep
    DEF ReportHeld
  <2> QED BY <2>2 DEF ReportHeld
<1>3. CASE UNCHANGED allvars
  <2>1. UNCHANGED Report!vars
    BY <1>3 DEF allvars, reportOwn, shared, Report!vars, Report!file
  <2> QED BY <1>1, <2>1, ReportIdle
<1> QED BY <1>2, <1>3

\* A report that was put in the file reaches the server or is still to be
\* sent, unless the disk refused it or cut the file, the queue dropped it, or
\* two threads had the file at once while it waited.
THEOREM NoReportLost == MCSpec => []ReportKept
<1>1. ReportInv => ReportKept
  BY ReportHeldKeeps DEF ReportInv, ReportKept
<1> QED BY <1>1, ReportInit, ReportStep, PTL DEF MCSpec

-----------------------------------------------------------------------------
(* Nt8Bridge. *)

BridgeInv == scene = "bridge" => Bridge!Inv

LEMMA BridgeInit == MCInit => BridgeInv
  BY Bridge!InvInit DEF MCInit, BridgeInv

LEMMA BridgeSteps ==
  ASSUME scene = "bridge", [MCNext]_allvars
  PROVE  [Bridge!Next]_(Bridge!vars)
<1>1. CASE MCNext
  BY <1>1 DEF MCNext, Arming
<1>2. CASE UNCHANGED allvars
  BY <1>2 DEF allvars, bridgeOwn, shared, Bridge!vars, Bridge!memory, Bridge!addon, Bridge!file
<1> QED BY <1>1, <1>2

LEMMA BridgeStep == BridgeInv /\ [MCNext]_allvars => BridgeInv'
<1> SUFFICES ASSUME BridgeInv, [MCNext]_allvars, scene' = "bridge" PROVE Bridge!Inv'
  BY DEF BridgeInv
<1> QED BY SameScene, BridgeSteps, Bridge!InvStep DEF BridgeInv

\* The bridge implements the promise of CommandOnce: every step is a step of
\* the promise or leaves it alone.
THEOREM KeepsPromise == MCSpec => BridgeDelivers
<1>1. MCInit => (scene = "bridge" => Bridge!Promise!Init)
  BY Bridge!PromiseInit DEF MCInit
<1>2. ASSUME BridgeInv, BridgeInv', [MCNext]_allvars
      PROVE  scene = "bridge" => Bridge!Promise!Next \/ UNCHANGED Bridge!Promise!vars
  <2> SUFFICES ASSUME scene = "bridge"
               PROVE  Bridge!Promise!Next \/ UNCHANGED Bridge!Promise!vars
    OBVIOUS
  <2>1. Bridge!Inv /\ Bridge!Inv' /\ [Bridge!Next]_(Bridge!vars)
    BY <1>2, SameScene, BridgeSteps DEF BridgeInv
  <2> QED BY <2>1, Bridge!PromiseStep
<1> QED BY <1>1, <1>2, BridgeInit, BridgeStep, PTL DEF MCSpec, BridgeDelivers

-----------------------------------------------------------------------------
(* TradeRecord. *)

\* A thread that read the times before a mark it does not have will overwrite
\* that mark, and then the two were at work at once.
MarksHeld ==
  /\ step \in [Record!Thread -> Record!Steps]
  /\ marks \in [Writer -> SUBSET Writer] /\ entered \subseteq Writer
  /\ Record!MarksStay
  /\ \A t \in Writer : step[t] = "mark" => marked \ marks[t] \subseteq raced

MarksInv == scene = "record" => MarksHeld

LEMMA RecordSteps ==
  ASSUME scene = "record", [MCNext]_allvars
  PROVE  [Record!Next]_(Record!vars)
<1>1. CASE MCNext
  BY <1>1 DEF MCNext, Arming
<1>2. CASE UNCHANGED allvars
  BY <1>2 DEF allvars, recordOwn, shared, Record!vars, Record!ledger, Record!entry
<1> QED BY <1>1, <1>2

\* A step that leaves the times alone, and brings no thread to its mark.
LEMMA MarksIdle ==
  ASSUME MarksHeld, UNCHANGED <<entered, marks, marked, raced>>,
         NEW t \in Record!Thread, NEW p \in Record!Steps \ {"mark"},
         step' = [step EXCEPT ![t] = p]
  PROVE  MarksHeld'
  BY DEF MarksHeld, Record!MarksStay, Record!Thread

LEMMA MarksStep ==
  ASSUME MarksHeld, [Record!Next]_(Record!vars)
  PROVE  MarksHeld'
<1> USE DEF Record!entry, Record!ledger
<1>1. ASSUME NEW t \in Record!Thread, Record!Read(t) \/ Record!PutAside(t) \/ Record!GoBack(t)
      PROVE  MarksHeld'
  <2>1. /\ UNCHANGED <<entered, marks, marked, raced>>
        /\ \E p \in Record!Steps \ {"mark"} : step' = [step EXCEPT ![t] = p]
    BY <1>1 DEF Record!Read, Record!PutAside, Record!GoBack, Record!At, Record!Got,
                Record!Skips, Record!Steps
  <2> QED BY <2>1, MarksIdle
<1>2. ASSUME NEW t \in Writer,
             Record!Append(t) \/ Record!Copy(t) \/ Record!Swap(t) \/ Record!Direct(t)
      PROVE  MarksHeld'
  <2>1. /\ UNCHANGED <<entered, marks, marked, raced>>
        /\ \E p \in Record!Steps \ {"mark"} : step' = [step EXCEPT ![t] = p]
    BY <1>2 DEF Record!Append, Record!Copy, Record!Swap, Record!Direct, Record!At,
                Record!Written, Record!Skips, Record!Steps, Record!Cut
  <2> QED BY <2>1, MarksIdle DEF Record!Thread
<1>3. ASSUME NEW t \in Writer, Record!Enters(t) PROVE MarksHeld'
  <2>1. /\ step' = [step EXCEPT ![t] = "mark"] /\ marks' = [marks EXCEPT ![t] = entered]
        /\ UNCHANGED <<entered, marked>> /\ raced \subseteq raced'
    BY <1>3 DEF Record!Enters, Record!At
  <2> QED BY <2>1 DEF MarksHeld, Record!MarksStay, Record!Thread, Record!Steps
<1>4. ASSUME NEW t \in Writer, Record!Mark(t) PROVE MarksHeld'
  <2>1. /\ step[t] = "mark" /\ step' = [step EXCEPT ![t] = "idle"]
        /\ marks' = [marks EXCEPT ![t] = {}]
    BY <1>4 DEF Record!Mark, Record!At
  <2>2. CASE marked' = marked /\ (UNCHANGED <<entered, raced>> \/ Record!Cut)
    BY <2>1, <2>2 DEF MarksHeld, Record!MarksStay, Record!Thread, Record!Steps, Record!Cut
  <2>3. CASE /\ entered' = marks[t] \union {t} /\ marked' = marked \union {t}
             /\ raced' = IF \E u \in Writer \ {t} : step[u] = "mark"
                         THEN raced \union {t} ELSE raced
    <3>1. raced \subseteq raced'
          /\ \A u \in Writer \ {t} : step[u] = "mark" => t \in raced'
      BY <2>3
    <3> QED BY <2>1, <2>3, <3>1 DEF MarksHeld, Record!MarksStay, Record!Thread, Record!Steps
  <2> QED BY <1>4, <2>2, <2>3 DEF Record!Mark, Record!Times
<1>5. CASE Record!Send
  <2>1. /\ UNCHANGED <<entered, marks, marked, raced>>
        /\ step' = [step EXCEPT ![Record!Sync] = "idle"]
    BY <1>5 DEF Record!Send, Record!At
  <2> QED BY <2>1, MarksIdle DEF Record!Thread, Record!Steps
<1>6. CASE Record!Crash
  <2>1. /\ marked' = marked /\ (UNCHANGED <<entered, raced>> \/ Record!Cut)
        /\ step' = [t \in Record!Thread |-> "idle"] /\ marks' = [t \in Writer |-> {}]
    BY <1>6 DEF Record!Crash
  <2> QED BY <2>1 DEF MarksHeld, Record!MarksStay, Record!Thread, Record!Steps, Record!Cut
<1>7. CASE UNCHANGED Record!vars
  BY <1>7 DEF MarksHeld, Record!MarksStay, Record!vars
<1> QED BY <1>1, <1>2, <1>3, <1>4, <1>5, <1>6, <1>7 DEF Record!Next

\* An entry time that was written stays on disk (_mark_entered), unless two
\* entries were marked at once or the file was cut after it.
THEOREM MarkedStays == MCSpec => []MarksStay
<1>1. MCInit => MarksInv
  BY DEF MCInit, MarksInv, MarksHeld, Record!Init, Record!MarksStay, Record!Steps
<1>2. MarksInv /\ [MCNext]_allvars => MarksInv'
  BY SameScene, RecordSteps, MarksStep DEF MarksInv
<1>3. MarksInv => MarksStay
  BY DEF MarksInv, MarksHeld, MarksStay
<1> QED BY <1>1, <1>2, <1>3, PTL DEF MCSpec

\* A set of numbers has a least one.
LEMMA LeastIs ==
  ASSUME NEW S \in SUBSET Nat, S # {}
  PROVE  \E x \in S : \A y \in S : x <= y
<1>1. \E x \in S : \A y \in S : ~(<<y, x>> \in OpToRel(<, Nat))
  BY NatLessThanWellFounded, WFMin, Zenon
<1>2. PICK x \in S : \A y \in S : ~(<<y, x>> \in OpToRel(<, Nat))
  BY <1>1
<1>3. \A y \in S : ~(y < x)
  BY <1>2 DEF OpToRel
<1> QED BY <1>3

\* The latest of some times is one of them.
LEMMA LatestIs ==
  ASSUME NEW n \in Nat, NEW S \in SUBSET (0 .. n), S # {}
  PROVE  Record!Latest(S) \in S /\ \A x \in S : x <= Record!Latest(S)
<1> DEFINE back == {n - x : x \in S}
<1>1. back \in SUBSET Nat /\ back # {}
  <2>1. ASSUME NEW x \in S PROVE n - x \in Nat
    BY SMT
  <2> QED BY <2>1
<1>2. PICK d \in back : \A e \in back : d <= e
  <2> HIDE DEF back
  <2> QED BY <1>1, LeastIs
<1>3. PICK x \in S : d = n - x
  OBVIOUS
<1>4. ASSUME NEW y \in S PROVE y <= x
  <2>1. n - y \in back
    OBVIOUS
  <2>2. d <= n - y
    <3> HIDE DEF back
    <3> QED BY <1>2, <2>1
  <2>3. x \in 0 .. n /\ y \in 0 .. n
    OBVIOUS
  <2> QED BY <1>3, <2>2, <2>3
<1>5. Record!Latest(S) = CHOOSE z \in S : \A y \in S : y <= z
  BY DEF Record!Latest
<1> QED BY <1>4, <1>5

LEMMA LatestOf ==
  ASSUME NEW n \in Nat, NEW S \in SUBSET (0 .. n)
  PROVE  Record!Latest(S) \in 0 .. n /\ \A x \in S : x <= Record!Latest(S)
<1>1. CASE S = {}
  BY <1>1 DEF Record!Latest
<1>2. CASE S # {}
  BY <1>2, LatestIs
<1> QED BY <1>1, <1>2

\* The steps of whoever holds the lock of the ledger (_LEDGER_LOCK).
Locking == {"broken", "back", "append", "copy", "swap", "direct"}

\* Who is where, and who holds the lock.
RecordFlow ==
  /\ step \in [Record!Thread -> Record!Steps]
  /\ lock \in Record!Thread \union {Record!None}
  /\ \A t \in Record!Thread : step[t] \in Locking <=> lock = t
  /\ step[Record!Sync] \in {"idle", "broken", "back", "send"}
  /\ \A t \in Writer : step[t] # "send"
  /\ count \in 0 .. MaxRec /\ faults \in 0 .. MaxFault
  /\ own \in [Writer -> 0 .. MaxRec]

LEMMA RecordFlowStep ==
  ASSUME RecordFlow, [Record!Next]_(Record!vars)
  PROVE  RecordFlow'
<1> USE DEF RecordFlow, Record!Thread, Record!None, Record!Sync, Record!Never, Record!Steps,
            Locking
<1>0. MaxRec \in Nat /\ MaxFault \in Nat /\ "sync" \notin Writer /\ "none" \notin Writer
  BY PartsAssumption
<1>1. ASSUME NEW t \in Record!Thread, Record!Read(t) PROVE RecordFlow'
  <2>1. count' \in 0 .. MaxRec /\ faults' \in 0 .. MaxFault
    BY <1>0, <1>1 DEF Record!Read, Record!Fails
  <2>2. own' \in [Writer -> 0 .. MaxRec]
    BY <1>0, <1>1, <2>1 DEF Record!Read
  <2>3. PICK p \in Record!Steps :
          /\ step[t] = "idle" /\ lock = "none" /\ step' = [step EXCEPT ![t] = p]
          /\ lock' = (IF p \in Locking THEN t ELSE "none")
          /\ t = "sync" => p \in {"idle", "broken", "send"}
          /\ t # "sync" => p # "send"
    BY <1>0, <1>1 DEF Record!Read, Record!Got, Record!Skips, Record!Free, Record!Locked
  <2> QED BY <1>0, <2>1, <2>2, <2>3
<1>2. ASSUME NEW t \in Record!Thread, Record!PutAside(t) \/ Record!GoBack(t) PROVE RecordFlow'
  <2>1. count' = count /\ faults' \in 0 .. MaxFault /\ own' = own
    BY <1>0, <1>2 DEF Record!PutAside, Record!GoBack, Record!Fails, Record!Lost
  <2>3. PICK p \in Record!Steps :
          /\ step[t] \in Locking /\ step' = [step EXCEPT ![t] = p]
          /\ lock' = (IF p \in Locking THEN lock ELSE "none")
          /\ t = "sync" => p \in {"back", "send"}
          /\ t # "sync" => p # "send"
    BY <1>0, <1>2 DEF Record!PutAside, Record!GoBack, Record!Got, Record!At
  <2> QED BY <1>0, <2>1, <2>3
<1>3. ASSUME NEW t \in Writer,
             Record!Append(t) \/ Record!Copy(t) \/ Record!Swap(t) \/ Record!Direct(t)
      PROVE  RecordFlow'
  <2>1. count' \in 0 .. MaxRec /\ faults' \in 0 .. MaxFault
    BY <1>0, <1>3 DEF Record!Append, Record!Copy, Record!Swap, Record!Direct, Record!Written,
                      Record!Fails
  <2>2. own' \in [Writer -> 0 .. MaxRec]
    BY <1>0, <1>3, <2>1 DEF Record!Append, Record!Copy, Record!Swap, Record!Direct
  <2>3. PICK p \in Record!Steps :
          /\ step[t] \in Locking /\ step' = [step EXCEPT ![t] = p] /\ p # "send"
          /\ lock' = (IF p \in Locking THEN lock ELSE "none")
    BY <1>0, <1>3 DEF Record!Append, Record!Copy, Record!Swap, Record!Direct, Record!Written,
                      Record!Skips, Record!At
  <2> QED BY <1>0, <2>1, <2>2, <2>3
<1>4. ASSUME NEW t \in Writer, Record!Enters(t) \/ Record!Mark(t) PROVE RecordFlow'
  <2>1. count' = count /\ faults' \in 0 .. MaxFault /\ own' \in [Writer -> 0 .. MaxRec]
    BY <1>0, <1>4 DEF Record!Enters, Record!Mark, Record!Fails
  <2>3. PICK p \in {"mark", "idle"} :
          step[t] \in {"enter", "mark"} /\ step' = [step EXCEPT ![t] = p] /\ lock' = lock
    BY <1>4 DEF Record!Enters, Record!Mark, Record!At
  <2> QED BY <1>0, <2>1, <2>3
<1>5. CASE Record!Send
  BY <1>0, <1>5 DEF Record!Send, Record!At
<1>6. CASE Record!Crash
  BY <1>0, <1>6 DEF Record!Crash, Record!Fails
<1>7. CASE UNCHANGED Record!vars
  BY <1>7 DEF Record!vars
<1> QED BY <1>1, <1>2, <1>3, <1>4, <1>5, <1>6, <1>7 DEF Record!Next

\* Times are counted in entries; a file is missing, readable or broken.
RecordTimes == 0 .. count
LedgerFiles == [s : {"none", "ok", "bad"}, rows : SUBSET (1 .. count)]

\* What is in the files and in the threads' hands is of entries made so far.
RecordFiles ==
  /\ main \in LedgerFiles /\ (main.s # "ok" => main.rows = {})
  /\ bak \in LedgerFiles /\ (bak.s # "ok" => bak.rows = {})
  /\ copies \subseteq RecordTimes /\ reset \in RecordTimes
  /\ mem \in [Record!Thread -> SUBSET (1 .. count)]

LEMMA RecordFilesStep ==
  ASSUME RecordFlow, RecordFiles, [Record!Next]_(Record!vars)
  PROVE  RecordFiles'
<1> USE DEF RecordFiles, LedgerFiles, RecordTimes
<1>0. /\ count \in Nat /\ count' \in Nat /\ count' \in {count, count + 1}
      /\ "sync" \notin Writer /\ "none" \notin Writer
  BY PartsAssumption
     DEF RecordFlow, Record!Next, Record!Read, Record!PutAside, Record!GoBack, Record!Append,
         Record!Copy, Record!Swap, Record!Direct, Record!Enters, Record!Mark, Record!Send,
         Record!Crash, Record!vars
<1> USE <1>0
<1>1. ASSUME NEW t \in Record!Thread, Record!Read(t) PROVE RecordFiles'
  <2>1. UNCHANGED <<main, bak, copies, reset>>
    BY <1>1 DEF Record!Read, Record!ledger
  <2>2. mem' \in [Record!Thread -> SUBSET (1 .. count)]
    BY <1>1 DEF Record!Read, Record!Got, Record!Skips
  <2> QED BY <2>1, <2>2
<1>2. ASSUME NEW t \in Record!Thread, Record!PutAside(t) PROVE RecordFiles'
  <2>1. UNCHANGED <<bak, reset, mem, count>> /\ main' \in {main, Record!Gone}
        /\ copies' \subseteq copies \union {count}
    BY <1>2 DEF Record!PutAside
  <2> QED BY <2>1 DEF Record!Gone
<1>3. ASSUME NEW t \in Record!Thread, Record!GoBack(t) PROVE RecordFiles'
  <2>1. count' = count /\ bak' = bak /\ copies' = copies /\ main' \in {main, bak, Record!Bad}
    BY <1>3 DEF Record!GoBack, Record!Lost
  <2>2. reset' \in RecordTimes
    <3>1. {reset, count} \in SUBSET (0 .. count)
      OBVIOUS
    <3> QED BY <1>3, <3>1, LatestOf DEF Record!GoBack, Record!Lost
  <2>3. mem' \in [Record!Thread -> SUBSET (1 .. count)]
    BY <1>3 DEF Record!GoBack, Record!Got
  <2> QED BY <2>1, <2>2, <2>3 DEF Record!Bad
<1>4. ASSUME NEW t \in Writer, Record!Append(t) PROVE RecordFiles'
  <2>1. UNCHANGED <<main, bak, copies, reset>> /\ count' = count + 1
    BY <1>4 DEF Record!Append, Record!ledger
  <2>2. mem' \in [Record!Thread -> SUBSET (1 .. count + 1)]
    BY <1>4 DEF Record!Append, Record!Skips, Record!Thread
  <2> QED BY <2>1, <2>2
<1>5. ASSUME NEW t \in Writer, Record!Copy(t) PROVE RecordFiles'
  BY <1>5 DEF Record!Copy, Record!Bad
<1>6. ASSUME NEW t \in Writer, Record!Swap(t) \/ Record!Direct(t) PROVE RecordFiles'
  <2>1. UNCHANGED <<count, bak, copies, reset>>
    BY <1>6 DEF Record!Swap, Record!Direct
  <2>2. main' \in {Record!Good(mem[t]), Record!Bad, main}
    BY <1>6 DEF Record!Swap, Record!Direct, Record!Written
  <2>3. mem' \in [Record!Thread -> SUBSET (1 .. count)]
    BY <1>6 DEF Record!Swap, Record!Direct, Record!Written
  <2> QED BY <2>1, <2>2, <2>3 DEF Record!Good, Record!Bad, Record!Thread
<1>7. ASSUME NEW t \in Writer, Record!Enters(t) \/ Record!Mark(t) PROVE RecordFiles'
  BY <1>7 DEF Record!Enters, Record!Mark, Record!ledger
<1>8. CASE Record!Send
  <2>1. UNCHANGED <<count, main, bak, copies>>
    BY <1>8 DEF Record!Send
  <2>2. reset' \in RecordTimes
    <3> DEFINE since == {c \in copies : \A r \in mem[Record!Sync] : r > c}
    <3>1. since \in SUBSET (0 .. count)
      OBVIOUS
    <3>2. Record!Latest(since) \in 0 .. count
      BY <3>1, LatestOf
    <3> QED BY <1>8, <3>2 DEF Record!Send, Record!Since
  <2>3. mem' \in [Record!Thread -> SUBSET (1 .. count)]
    BY <1>8 DEF Record!Send
  <2> QED BY <2>1, <2>2, <2>3
<1>9. CASE Record!Crash
  <2>1. UNCHANGED <<count, copies, reset>>
    BY <1>9 DEF Record!Crash
  <2>2. main' \in {main, Record!Bad} /\ bak' \in {bak, Record!Bad}
    BY <1>9 DEF Record!Crash
  <2>3. mem' \in [Record!Thread -> SUBSET (1 .. count)]
    BY <1>9 DEF Record!Crash
  <2> QED BY <2>1, <2>2, <2>3 DEF Record!Bad
<1>10. CASE UNCHANGED Record!vars
  BY <1>10 DEF Record!vars, Record!ledger
<1> QED BY <1>1, <1>2, <1>3, <1>4, <1>5, <1>6, <1>7, <1>8, <1>9, <1>10 DEF Record!Next

\* The trades that are made or about to be.
Owed == trades \union {own[t] : t \in {u \in Writer : step[u] = "enter"}}

\* Whoever writes a row writes the latest, and it is no trade yet.
RecordRows ==
  /\ Owed \subseteq 1 .. count /\ seen \subseteq trades /\ wrong \subseteq trades
  /\ excused \subseteq 1 .. count
  /\ lock \in Writer /\ step[lock] \in {"copy", "swap", "direct"} =>
       /\ own[lock] = count /\ count \in mem[lock] /\ count \notin Owed
       /\ count \notin mem[Record!Sync]

\* A thread that moves on, neither from its order nor to it, owes nothing new.
LEMMA OwedSame ==
  ASSUME RecordFlow, NEW t \in Record!Thread, NEW p \in Record!Steps \ {"enter"},
         step[t] # "enter", step' = [step EXCEPT ![t] = p], trades' = trades,
         \A u \in Writer \ {t} : own'[u] = own[u]
  PROVE  Owed' = Owed
<1>1. \A u \in Writer : u # t => step'[u] = step[u]
  BY DEF RecordFlow, Record!Thread
<1>2. \A u \in Writer : step'[u] = "enter" <=> step[u] = "enter"
  BY <1>1 DEF RecordFlow, Record!Thread
<1>3. \A u \in Writer : step[u] = "enter" => own'[u] = own[u]
  OBVIOUS
<1> QED BY <1>2, <1>3 DEF Owed

\* A thread that comes to its order owes its own trade a row.
LEMMA OwedMore ==
  ASSUME RecordFlow, NEW t \in Writer,
         step[t] # "enter", step' = [step EXCEPT ![t] = "enter"], trades' = trades,
         \A u \in Writer \ {t} : own'[u] = own[u]
  PROVE  Owed' = Owed \union {own'[t]}
<1>1. \A u \in Writer : step'[u] = "enter" <=> step[u] = "enter" \/ u = t
  BY DEF RecordFlow, Record!Thread
<1>2. \A u \in Writer : step[u] = "enter" => own'[u] = own[u]
  OBVIOUS
<1>3. \A u \in Writer : step'[u] = "enter" => own'[u] \in Owed \union {own'[t]}
  BY <1>1, <1>2 DEF Owed
<1>4. Owed \subseteq Owed'
  BY <1>1, <1>2 DEF Owed
<1> QED BY <1>1, <1>3, <1>4 DEF Owed

\* What a step does to the trades that are owed a row.
OwedBy(t) ==
  \/ Owed' = Owed /\ count' = count
  \/ /\ t \in Writer /\ count' = count + 1 /\ Owed' = Owed \union {count'}
     /\ excused' = excused \union {count'}

\* A thread that only reads makes the trade it could not write, if any.
LEMMA OwedReads ==
  ASSUME RecordFlow, NEW t \in Record!Thread,
         Record!Read(t) \/ Record!PutAside(t) \/ Record!GoBack(t)
  PROVE  OwedBy(t)
<1> USE DEF OwedBy
<1>0. "sync" \notin Writer
  BY PartsAssumption
<1>1. CASE Record!Read(t)
  <2>1. step[t] = "idle" /\ trades' = trades
    BY <1>1 DEF Record!Read
  <2>2. CASE UNCHANGED <<count, own>> /\ \E p \in Record!Steps \ {"enter"} :
               step' = [step EXCEPT ![t] = p]
    BY <2>1, <2>2, OwedSame
  <2>3. CASE t = "sync" /\ Record!Skips(t) /\ UNCHANGED <<count, own>>
    <3>1. step' = [step EXCEPT ![t] = "idle"]
      BY <2>3 DEF Record!Skips, Record!Sync
    <3> QED BY <2>1, <2>3, <3>1, OwedSame DEF Record!Steps
  <2>4. CASE t # "sync" /\ Record!Skips(t) /\ count' = count + 1 /\ own' = [own EXCEPT ![t] = count']
    <3>1. step' = [step EXCEPT ![t] = "enter"] /\ excused' = excused \union {count'}
      BY <2>4 DEF Record!Skips, Record!Sync
    <3>2. t \in Writer /\ own'[t] = count' /\ \A u \in Writer \ {t} : own'[u] = own[u]
      BY <2>4 DEF RecordFlow, Record!Thread, Record!Sync
    <3> QED BY <2>1, <2>4, <3>1, <3>2, OwedMore
  <2> QED BY <1>1, <2>2, <2>3, <2>4
          DEF Record!Read, Record!Got, Record!Steps, Record!Sync
<1>2. CASE Record!PutAside(t) \/ Record!GoBack(t)
  <2>1. /\ UNCHANGED <<count, own, trades>> /\ step[t] # "enter"
        /\ \E p \in Record!Steps \ {"enter"} : step' = [step EXCEPT ![t] = p]
    BY <1>2 DEF Record!PutAside, Record!GoBack, Record!At, Record!Got, Record!Steps
  <2> QED BY <2>1, OwedSame
<1> QED BY <1>1, <1>2

\* A thread that writes its row owes it from then on.
LEMMA OwedWrites ==
  ASSUME RecordFlow, NEW t \in Writer
  PROVE  /\ Record!Copy(t) => Owed' = Owed
         /\ Record!Append(t) => OwedBy(t) \/ (Owed' = Owed /\ step'[t] = "copy")
         /\ Record!Swap(t) \/ Record!Direct(t) =>
              Owed' = IF step'[t] = "enter" THEN Owed \union {own[t]} ELSE Owed
         /\ Record!Enters(t) \/ Record!Mark(t) => Owed' = Owed
<1>0. t \in Record!Thread
  BY DEF Record!Thread
<1>1. Record!Copy(t) => Owed' = Owed
  BY <1>0, OwedSame DEF Record!Copy, Record!At, Record!Steps
<1>2. ASSUME Record!Append(t) PROVE OwedBy(t) \/ (Owed' = Owed /\ step'[t] = "copy")
  <2>1. /\ step[t] = "append" /\ count' = count + 1 /\ own'[t] = count' /\ trades' = trades
        /\ \A u \in Writer \ {t} : own'[u] = own[u]
    BY <1>2 DEF Record!Append, RecordFlow
  <2>2. CASE step' = [step EXCEPT ![t] = "copy"]
    <3>1. Owed' = Owed
      BY <1>0, <2>1, <2>2, OwedSame DEF Record!Steps
    <3>2. step'[t] = "copy"
      BY <1>0, <2>2 DEF RecordFlow
    <3> QED BY <3>1, <3>2
  <2>3. CASE Record!Skips(t)
    <3>1. step' = [step EXCEPT ![t] = "enter"] /\ excused' = excused \union {count'}
      BY <2>3, PartsAssumption DEF Record!Skips, Record!Sync
    <3> QED BY <2>1, <3>1, OwedMore DEF OwedBy
  <2> QED BY <1>2, <2>2, <2>3 DEF Record!Append
<1>3. ASSUME Record!Swap(t) \/ Record!Direct(t)
      PROVE  Owed' = IF step'[t] = "enter" THEN Owed \union {own[t]} ELSE Owed
  <2>1. step[t] \in {"swap", "direct"} /\ UNCHANGED <<own, trades>>
        /\ \E p \in {"enter", "direct"} : step' = [step EXCEPT ![t] = p]
    BY <1>3 DEF Record!Swap, Record!Direct, Record!Written
  <2>2. CASE step' = [step EXCEPT ![t] = "enter"]
    <3>1. step'[t] = "enter"
      BY <1>0, <2>2 DEF RecordFlow
    <3> QED BY <2>1, <2>2, <3>1, OwedMore
  <2>3. CASE step' = [step EXCEPT ![t] = "direct"]
    <3>1. step'[t] # "enter"
      BY <1>0, <2>3 DEF RecordFlow
    <3> QED BY <1>0, <2>1, <2>3, <3>1, OwedSame DEF Record!Steps
  <2> QED BY <2>1, <2>2, <2>3
<1>4. ASSUME Record!Enters(t) PROVE Owed' = Owed
  <2>1. /\ step[t] = "enter" /\ step' = [step EXCEPT ![t] = "mark"] /\ own' = own
        /\ trades' = trades \union {own[t]}
    BY <1>4 DEF Record!Enters, Record!At
  <2>2. \A u \in Writer : step'[u] = "enter" <=> step[u] = "enter" /\ u # t
    BY <1>0, <2>1 DEF RecordFlow, Record!Thread
  <2> QED BY <2>1, <2>2 DEF Owed
<1>5. ASSUME Record!Mark(t) PROVE Owed' = Owed
  <2>1. /\ step[t] = "mark" /\ step' = [step EXCEPT ![t] = "idle"] /\ trades' = trades
        /\ \A u \in Writer \ {t} : own'[u] = own[u]
    BY <1>5 DEF Record!Mark, Record!At, RecordFlow
  <2> QED BY <1>0, <2>1, OwedSame DEF Record!Steps
<1> QED BY <1>1, <1>2, <1>3, <1>4, <1>5

\* What a cut file loses are rows of entries made so far.
LEMMA UncopiedRows ==
  ASSUME RecordFlow, RecordFiles
  PROVE  Record!Uncopied \subseteq 1 .. count
<1> DEFINE sets == {mem[t] \ {own[t]} : t \in {u \in Writer : step[u] = "direct"}}
<1>1. \A S \in sets : S \subseteq 1 .. count
  BY DEF RecordFiles, Record!Thread
<1>2. main.rows \subseteq 1 .. count
  BY DEF RecordFiles, LedgerFiles
<1>3. Record!Uncopied \subseteq (UNION sets) \union main.rows
  BY DEF Record!Uncopied
<1> HIDE DEF sets
<1> QED BY <1>1, <1>2, <1>3

LEMMA RecordRowsStep ==
  ASSUME RecordFlow, RecordFiles, RecordRows, [Record!Next]_(Record!vars)
  PROVE  RecordRows'
<1> USE DEF RecordRows
<1>0. /\ count \in Nat /\ "sync" \notin Writer /\ "none" \notin Writer
      /\ step \in [Record!Thread -> Record!Steps] /\ Writer \subseteq Record!Thread
      /\ own \in [Writer -> 0 .. MaxRec] /\ mem \in [Record!Thread -> SUBSET (1 .. count)]
      /\ \A t \in Record!Thread : step[t] \in Locking <=> lock = t
      /\ lock \in Record!Thread \union {"none"}
  BY PartsAssumption DEF RecordFlow, RecordFiles, Record!Thread, Record!None
<1>f. RecordFlow'
  BY RecordFlowStep
<1> USE <1>0
<1> DEFINE Late(l, st) == l \in Writer /\ st[l] \in {"copy", "swap", "direct"}
<1>1. ASSUME NEW t \in Record!Thread, OwedBy(t), seen' \subseteq trades, trades' = trades,
             wrong' = wrong, excused' \subseteq excused \union {count'}, ~Late(lock', step'),
             excused' # excused => count' = count + 1
      PROVE  RecordRows'
  <2>1. count' \in Nat /\ count <= count'
    BY <1>1 DEF OwedBy
  <2>2. Owed' \subseteq 1 .. count'
    <3>1. CASE Owed' = Owed
      BY <2>1, <3>1
    <3>2. CASE count' = count + 1 /\ Owed' = Owed \union {count'}
      BY <3>2
    <3> QED BY <1>1, <3>1, <3>2 DEF OwedBy
  <2>3. excused' \subseteq 1 .. count'
    BY <1>1, <2>1
  <2> QED BY <1>1, <2>2, <2>3
<1>2. ASSUME NEW t \in Record!Thread, Record!Read(t) PROVE RecordRows'
  <2>1. OwedBy(t)
    BY <1>2, OwedReads
  <2>2. seen' \subseteq trades /\ trades' = trades /\ wrong' = wrong
        /\ excused' \subseteq excused \union {count'}
        /\ (excused' # excused => count' = count + 1)
    BY <1>2 DEF Record!Read, Record!Skips
  <2>3. \E p \in {"idle", "broken", "append", "send", "enter"} :
          step' = [step EXCEPT ![t] = p] /\ lock' \in {t, "none"}
    BY <1>2 DEF Record!Read, Record!Got, Record!Skips, Record!None
  <2> QED BY <1>1, <2>1, <2>2, <2>3
<1>3. ASSUME NEW t \in Record!Thread, Record!PutAside(t) \/ Record!GoBack(t) PROVE RecordRows'
  <2>1. OwedBy(t)
    BY <1>3, OwedReads
  <2>2. UNCHANGED <<seen, trades, wrong, excused>>
    BY <1>3 DEF Record!PutAside, Record!GoBack
  <2>3. \E p \in {"back", "append", "send"} :
          step' = [step EXCEPT ![t] = p] /\ lock' \in {t, "none"}
    BY <1>3 DEF Record!PutAside, Record!GoBack, Record!At, Record!Got, Record!None, Locking
  <2> QED BY <1>1, <2>1, <2>2, <2>3
<1>4. ASSUME NEW t \in Writer, Record!Append(t) PROVE RecordRows'
  <2>0. /\ UNCHANGED <<seen, trades, wrong>> /\ count' = count + 1
        /\ own' = [own EXCEPT ![t] = count'] /\ lock = t
    BY <1>4 DEF Record!Append, Locking
  <2>1. CASE step' = [step EXCEPT ![t] = "copy"]
    <3>1. lock' = t /\ mem' = [mem EXCEPT ![t] = @ \union {count + 1}] /\ excused' = excused
      BY <1>4, <2>0, <2>1 DEF Record!Append, Record!Skips, Record!Sync
    <3>2. step'[t] = "copy"
      BY <2>1
    <3>3. Owed' = Owed
      BY <1>4, <3>2, OwedWrites, <2>0, <2>1, OwedSame DEF Record!Steps, Record!Append
    <3>4. count' \notin mem'[Record!Sync] /\ count' \in mem'[t]
      <4>1. Record!Sync \in Record!Thread /\ t # Record!Sync
        BY DEF Record!Thread, Record!Sync
      <4> QED BY <2>0, <3>1, <4>1
    <3> QED BY <2>0, <3>1, <3>2, <3>3, <3>4
  <2>2. CASE Record!Skips(t)
    <3>1. /\ step' = [step EXCEPT ![t] = "enter"] /\ excused' = excused \union {count'}
          /\ lock' = "none"
      BY <2>2 DEF Record!Skips, Record!Sync, Record!None
    <3>2. Owed' = Owed \union {count'}
      BY <1>4, <2>0, <3>1, OwedMore DEF Record!Append
    <3>3. OwedBy(t)
      BY <2>0, <3>1, <3>2 DEF OwedBy
    <3> QED BY <1>1, <2>0, <3>1, <3>3
  <2> QED BY <1>4, <2>1, <2>2 DEF Record!Append
<1>5. ASSUME NEW t \in Writer, Record!Copy(t) PROVE RecordRows'
  <2>1. /\ UNCHANGED <<seen, trades, wrong, excused, count, own, mem, lock>>
        /\ step[t] = "copy" /\ lock = t /\ Owed' = Owed
    BY <1>5, OwedWrites DEF Record!Copy, Record!At, Locking
  <2> QED BY <2>1
<1>6. ASSUME NEW t \in Writer, Record!Swap(t) \/ Record!Direct(t) PROVE RecordRows'
  <2>1. /\ UNCHANGED <<seen, trades, wrong, count, own>>
        /\ step[t] \in {"swap", "direct"} /\ lock = t
    BY <1>6 DEF Record!Swap, Record!Direct, Locking
  <2>2. own[t] = count /\ count \in mem[t]
    BY <2>1
  <2>3. excused' \subseteq 1 .. count
    <3>1. excused' \subseteq excused \union Record!Uncopied \union {count}
      BY <1>6, <2>2 DEF Record!Swap, Record!Direct
    <3>2. count \in 1 .. count
      BY <2>2
    <3> QED BY <3>1, <3>2, UncopiedRows
  <2>4. \/ step' = [step EXCEPT ![t] = "enter"] /\ lock' = "none"
        \/ step' = [step EXCEPT ![t] = "direct"] /\ UNCHANGED <<lock, mem>>
    BY <1>6 DEF Record!Swap, Record!Direct, Record!Written, Record!None
  <2>5. CASE step' = [step EXCEPT ![t] = "enter"] /\ lock' = "none"
    <3>1. Owed' = Owed \union {own[t]}
      BY <1>6, <2>5, OwedWrites
    <3> QED BY <2>1, <2>2, <2>3, <2>5, <3>1
  <2>6. CASE step' = [step EXCEPT ![t] = "direct"] /\ UNCHANGED <<lock, mem>>
    <3>1. Owed' = Owed
      BY <1>6, <2>6, OwedWrites
    <3> QED BY <2>1, <2>2, <2>3, <2>6, <3>1
  <2> QED BY <2>4, <2>5, <2>6
<1>7. ASSUME NEW t \in Writer, Record!Enters(t) \/ Record!Mark(t) PROVE RecordRows'
  <2>1. /\ UNCHANGED <<seen, wrong, excused, count, mem, lock>> /\ Owed' = Owed
        /\ trades \subseteq trades'
    BY <1>7, OwedWrites DEF Record!Enters, Record!Mark
  <2>2. step[t] \notin Locking /\ \A u \in Writer \ {t} : own'[u] = own[u] /\ step'[u] = step[u]
    BY <1>7 DEF Record!Enters, Record!Mark, Record!At, Locking
  <2> QED BY <2>1, <2>2
<1>8. CASE Record!Send
  <2>1. /\ UNCHANGED <<trades, excused, count, own, lock>> /\ seen' = {}
        /\ wrong' \subseteq wrong \union seen /\ step[Record!Sync] = "send"
        /\ step' = [step EXCEPT ![Record!Sync] = "idle"]
        /\ mem' = [mem EXCEPT ![Record!Sync] = {}]
    BY <1>8 DEF Record!Send, Record!At
  <2>2. Owed' = Owed
    BY <2>1, OwedSame DEF Record!Thread, Record!Steps
  <2> QED BY <2>1, <2>2 DEF Record!Sync
<1>9. CASE Record!Crash
  <2>1. /\ UNCHANGED <<trades, wrong, count>> /\ seen' = {} /\ lock' = "none"
        /\ \A u \in Writer : step'[u] = "idle"
    BY <1>9 DEF Record!Crash, Record!None, Record!Thread
  <2>2. Owed' = trades
    BY <2>1 DEF Owed
  <2>3. excused' \subseteq 1 .. count
    BY <1>9, UncopiedRows DEF Record!Crash
  <2> QED BY <2>1, <2>2, <2>3 DEF Owed
<1>10. CASE UNCHANGED Record!vars
  BY <1>10 DEF Record!vars, Owed
<1> QED BY <1>2, <1>3, <1>4, <1>5, <1>6, <1>7, <1>8, <1>9, <1>10 DEF Record!Next

\* Where the holder of the lock is.
HolderAt(S) == lock # Record!None /\ step[lock] \in S
AtDirect == lock \in Writer /\ step[lock] = "direct"

\* The rows the ledger stands for: those of the file, of its copy while it is
\* broken or put aside, and of the thread that writes it in place.
LedgerRows ==
  IF AtDirect THEN mem[lock] ELSE IF main.s = "ok" THEN main.rows ELSE bak.rows

\* A trade is excused, has its row, or is too old to be sent: by the recorded
\* time of a loss, or by a broken ledger older than every row.
RowSafe(r, rs, ex, cp, rt) ==
  \/ r \in ex \/ r \in rs \/ r <= rt
  \/ rt = 0 /\ \E c \in cp : r <= c /\ \A x \in rs : x > c

\* A ledger that is broken and has no copy, which no thread has declared lost.
Undeclared ==
  bak.s # "ok" /\ (HolderAt({"back"}) \/ (main.s = "bad" /\ ~HolderAt({"append", "copy", "swap", "direct"})))

\* Every trade is safe in the ledger, unless its loss is not declared yet.
LedgerKept == Undeclared \/ \A r \in Owed : RowSafe(r, LedgerRows, excused, copies, reset)

\* What the sync has in hand to send is of the ledger, and as safe.
LedgerSent ==
  step[Record!Sync] = "send" =>
    /\ mem[Record!Sync] \subseteq LedgerRows
    /\ \A r \in seen : RowSafe(r, mem[Record!Sync], excused, copies, reset)

\* The copy is never ahead of the ledger, and a thread writes what it read and
\* its own row, later than every broken ledger.  Unless the copying failed, it
\* writes in place with a copy of all the others.
LedgerInHand ==
  /\ bak.rows \subseteq LedgerRows
  /\ HolderAt({"append"}) => mem[lock] = LedgerRows
  /\ HolderAt({"copy", "swap"}) => mem[lock] = LedgerRows \union {count}
  /\ HolderAt({"copy", "swap", "direct"}) => count \notin copies
  /\ HolderAt({"swap"}) /\ faults = 0 => LedgerRows = bak.rows
  /\ AtDirect /\ faults <= 1 => mem[lock] \subseteq bak.rows \union {count}

\* The failures it took to come here.
LedgerFaults ==
  /\ main.s = "bad" \/ copies # {} \/ reset > 0 => faults >= 1
  /\ reset > 0 /\ main.s = "bad" => faults >= 2
  /\ HolderAt({"broken"}) => main.s = "bad"
  /\ HolderAt({"back"}) =>
       /\ faults >= 1 /\ (reset > 0 => faults >= 2)
       /\ \/ main.s = "bad" /\ faults >= 2
          \/ main.s = "none" /\ count \in copies
  /\ AtDirect => main.s = "bad" /\ (copies # {} => faults >= 2)
  /\ step[Record!Sync] = "send" =>
       /\ main.s = "bad" /\ ~AtDirect => faults >= 2
       /\ HolderAt({"back"}) => faults >= 2

\* A trade stays safe as rows are added and losses declared.
LEMMA SafeGrows ==
  ASSUME NEW r \in Nat, NEW rs \in SUBSET Nat, NEW rs2 \in SUBSET Nat, NEW ex, NEW ex2,
         NEW cp \in SUBSET Nat, NEW cp2 \in SUBSET Nat, NEW rt \in Nat, NEW rt2 \in Nat,
         rs \subseteq rs2, ex \subseteq ex2, cp \subseteq cp2, rt2 = rt \/ r <= rt2,
         \A x \in rs2 \ rs : \A c \in cp : x > c, RowSafe(r, rs, ex, cp, rt)
  PROVE  RowSafe(r, rs2, ex2, cp2, rt2)
<1>1. CASE r \in ex \/ r \in rs \/ r <= rt2
  BY <1>1 DEF RowSafe
<1>2. CASE rt2 = rt /\ rt = 0 /\ \E c \in cp : r <= c /\ \A x \in rs : x > c
  <2>1. PICK c \in cp : r <= c /\ \A x \in rs : x > c
    BY <1>2
  <2> QED BY <1>2, <2>1 DEF RowSafe
<1> QED BY <1>1, <1>2 DEF RowSafe

\* A trade stays safe when the rows that are lost are excused.
LEMMA SafeShrinks ==
  ASSUME NEW r \in Nat, NEW rs \in SUBSET Nat, NEW rs2 \in SUBSET Nat, NEW ex, NEW ex2,
         NEW cp \in SUBSET Nat, NEW rt \in Nat,
         rs2 \subseteq rs, ex \subseteq ex2, r \in rs => r \in rs2 \/ r \in ex2,
         RowSafe(r, rs, ex, cp, rt)
  PROVE  RowSafe(r, rs2, ex2, cp, rt)
BY DEF RowSafe

LedgerTyped == RecordFlow /\ RecordFiles /\ RecordRows

\* The typing facts that the steps below use.
LEMMA LedgerFacts ==
  ASSUME LedgerTyped
  PROVE  /\ count \in Nat /\ faults \in Nat /\ reset \in 0 .. count /\ copies \subseteq 0 .. count
         /\ Owed \subseteq 1 .. count /\ seen \subseteq Owed
         /\ main.rows \subseteq 1 .. count /\ bak.rows \subseteq 1 .. count
         /\ LedgerRows \subseteq 1 .. count /\ mem[Record!Sync] \subseteq 1 .. count
         /\ mem \in [Record!Thread -> SUBSET (1 .. count)]
         /\ step \in [Record!Thread -> Record!Steps]
         /\ lock \in Record!Thread \union {Record!None}
         /\ \A t \in Record!Thread : step[t] \in Locking <=> lock = t
         /\ Writer \subseteq Record!Thread /\ Record!Sync \in Record!Thread
         /\ Record!Sync \notin Writer /\ Record!None \notin Record!Thread
         /\ step[Record!Sync] \in {"idle", "broken", "back", "send"}
         /\ (main.s # "ok" => main.rows = {}) /\ (bak.s # "ok" => bak.rows = {})
<1> USE DEF LedgerTyped
<1>1. count \in Nat /\ faults \in Nat
  BY PartsAssumption DEF RecordFlow
<1>2. /\ main.rows \subseteq 1 .. count /\ bak.rows \subseteq 1 .. count
      /\ (main.s # "ok" => main.rows = {}) /\ (bak.s # "ok" => bak.rows = {})
      /\ reset \in 0 .. count /\ copies \subseteq 0 .. count
      /\ mem \in [Record!Thread -> SUBSET (1 .. count)]
  BY DEF RecordFiles, LedgerFiles, RecordTimes
<1>3. /\ step \in [Record!Thread -> Record!Steps]
      /\ lock \in Record!Thread \union {Record!None}
      /\ \A t \in Record!Thread : step[t] \in Locking <=> lock = t
      /\ step[Record!Sync] \in {"idle", "broken", "back", "send"}
  BY DEF RecordFlow
<1>4. /\ Writer \subseteq Record!Thread /\ Record!Sync \in Record!Thread
      /\ Record!Sync \notin Writer /\ Record!None \notin Record!Thread
  BY PartsAssumption DEF Record!Thread, Record!Sync, Record!None
<1>5. Owed \subseteq 1 .. count /\ seen \subseteq Owed
  BY DEF RecordRows, Owed
<1>6. LedgerRows \subseteq 1 .. count /\ mem[Record!Sync] \subseteq 1 .. count
  BY <1>2, <1>4 DEF LedgerRows, AtDirect
<1> QED BY <1>1, <1>2, <1>3, <1>4, <1>5, <1>6

LedgerHeld == LedgerKept /\ LedgerSent /\ LedgerInHand /\ LedgerFaults /\ Record!SentRight

\* A step that leaves the files, and the rows they stand for, alone.
LEMMA LedgerRead ==
  ASSUME LedgerTyped, LedgerTyped', LedgerHeld, NEW t \in Record!Thread, Record!Read(t)
  PROVE  LedgerHeld'
<1> USE LedgerFacts DEF LedgerHeld
<1>1. /\ step[t] = "idle" /\ lock = Record!None /\ UNCHANGED <<main, bak, copies, reset, trades, wrong>>
      /\ faults <= faults' /\ excused \subseteq excused' /\ seen' = (IF t = Record!Sync THEN trades ELSE seen)
  BY DEF Record!Read, Record!Free, Record!Locked, Record!ledger, Record!Never, Record!Fails,
         Record!Skips
<1>2. PICK p \in {"idle", "broken", "append", "send", "enter"} :
         /\ step' = [step EXCEPT ![t] = p]
         /\ lock' = (IF p \in {"broken", "append"} THEN t ELSE Record!None)
         /\ p \in {"append", "send"} => main.s # "bad" /\ mem' = [mem EXCEPT ![t] = LedgerRows]
         /\ p = "broken" => main.s = "bad"
         /\ p = "send" => t = Record!Sync
         /\ p = "append" => t # Record!Sync
  <2>1. ~AtDirect
    BY <1>1 DEF AtDirect, Record!None
  <2>2. CASE main.s # "bad" /\ Record!Got(t, IF main.s = "ok" \/ bak.s = "ok"
                               THEN (IF main.s = "ok" THEN main ELSE bak).rows ELSE {})
    <3>1. LedgerRows = IF main.s = "ok" \/ bak.s = "ok"
                 THEN (IF main.s = "ok" THEN main ELSE bak).rows ELSE {}
      BY <2>1 DEF LedgerRows
    <3> QED BY <2>2, <3>1 DEF Record!Got
  <2>3. CASE main.s = "bad" /\ lock' = t /\ step' = [step EXCEPT ![t] = "broken"]
    BY <2>3
  <2>4. CASE Record!Skips(t)
    BY <2>4 DEF Record!Skips
  <2> QED BY <2>2, <2>3, <2>4 DEF Record!Read
<1>3. LedgerRows' = LedgerRows /\ ~AtDirect /\ ~AtDirect'
  BY <1>1, <1>2 DEF LedgerRows, AtDirect
<1>4. LedgerKept'
  <2>1. Undeclared => Undeclared'
    BY <1>1, <1>2 DEF Undeclared, HolderAt
  <2>2. ASSUME NEW r \in Owed', \A x \in Owed : RowSafe(x, LedgerRows, excused, copies, reset)
        PROVE  RowSafe(r, LedgerRows', excused', copies', reset')
    <3>1. CASE r \in Owed
      BY <1>1, <1>3, <2>2, <3>1, SafeGrows
    <3>2. CASE r \notin Owed
      <4>1. r \in excused'
        BY <3>2, OwedReads DEF OwedBy, LedgerTyped
      <4> QED BY <4>1 DEF RowSafe
    <3> QED BY <3>1, <3>2
  <2> QED BY <2>1, <2>2 DEF LedgerKept
<1>5. LedgerSent'
  <2>1. CASE p = "send"
    <3>1. t = Record!Sync /\ mem'[Record!Sync] = LedgerRows /\ seen' = trades /\ ~Undeclared
      BY <1>1, <1>2, <2>1 DEF Undeclared, HolderAt
    <3>2. ASSUME NEW r \in trades PROVE RowSafe(r, LedgerRows, excused', copies', reset')
      <4>1. r \in Owed /\ RowSafe(r, LedgerRows, excused, copies, reset)
        BY <3>1 DEF LedgerKept, Owed
      <4> QED BY <1>1, <4>1, SafeGrows
    <3> QED BY <1>3, <3>1, <3>2 DEF LedgerSent
  <2>2. CASE p # "send" /\ t # Record!Sync
    <3>1. mem'[Record!Sync] = mem[Record!Sync] /\ step'[Record!Sync] = step[Record!Sync]
          /\ seen' = seen
      BY <1>1, <1>2, <2>2 DEF Record!Read, Record!Got, Record!Skips
    <3>2. ASSUME NEW r \in seen, RowSafe(r, mem[Record!Sync], excused, copies, reset)
          PROVE  RowSafe(r, mem[Record!Sync], excused', copies', reset')
      BY <1>1, <3>2, SafeGrows
    <3> QED BY <1>3, <3>1, <3>2 DEF LedgerSent
  <2>3. CASE p # "send" /\ t = Record!Sync
    BY <1>2, <2>3 DEF LedgerSent
  <2> QED BY <2>1, <2>2, <2>3
<1>6. LedgerInHand'
  BY <1>1, <1>2, <1>3 DEF LedgerInHand, HolderAt
<1>7. LedgerFaults'
  <2>1. faults \in Nat /\ faults' \in Nat /\ faults <= faults'
    BY <1>1, PartsAssumption DEF LedgerTyped, RecordFlow
  <2>3. ~HolderAt({"back"})'
    BY <1>1, <1>2 DEF HolderAt
  <2>4. step'[Record!Sync] = "send" /\ main.s = "bad" => step[Record!Sync] = "send"
    BY <1>1, <1>2
  <2>5. HolderAt({"broken"})' => main.s = "bad"
    BY <1>1, <1>2 DEF HolderAt
  <2> QED BY <1>1, <1>3, <2>1, <2>3, <2>4, <2>5 DEF LedgerFaults
<1>8. Record!SentRight'
  BY <1>1 DEF Record!SentRight
<1> QED BY <1>4, <1>5, <1>6, <1>7, <1>8

\* RowSafe trades stay safe as rows are written, broken ledgers put aside and
\* losses declared.
LEMMA LedgerGrows ==
  ASSUME LedgerTyped, LedgerTyped', LedgerSent,
         excused \subseteq excused', copies \subseteq copies', reset' = reset \/ count <= reset',
         LedgerRows \subseteq LedgerRows', \A x \in LedgerRows' \ LedgerRows : \A c \in copies : x > c,
         Owed' \subseteq Owed \union excused' \union LedgerRows'
  PROVE  /\ (\A r \in Owed : RowSafe(r, LedgerRows, excused, copies, reset))
              => \A r \in Owed' : RowSafe(r, LedgerRows', excused', copies', reset')
         /\ UNCHANGED <<step[Record!Sync], mem[Record!Sync], seen>> => LedgerSent'
<1>0. /\ LedgerRows' \in SUBSET Nat /\ copies' \in SUBSET Nat /\ reset' \in Nat
      /\ LedgerRows \in SUBSET Nat /\ copies \in SUBSET Nat /\ reset \in Nat /\ count \in Nat
      /\ mem[Record!Sync] \in SUBSET Nat
      /\ \A r \in Owed \union seen : r \in Nat /\ r <= count
  <2>1. /\ count' \in Nat /\ copies' \subseteq 0 .. count' /\ reset' \in 0 .. count'
        /\ mem' \in [Record!Thread -> SUBSET (1 .. count')]
        /\ main'.rows \subseteq 1 .. count' /\ bak'.rows \subseteq 1 .. count'
    BY PartsAssumption DEF LedgerTyped, RecordFlow, RecordFiles, LedgerFiles, RecordTimes
  <2>2. LedgerRows' \subseteq 1 .. count'
    BY <2>1 DEF LedgerRows, AtDirect, Record!Thread
  <2> QED BY <2>1, <2>2, LedgerFacts
<1>1. ASSUME NEW r \in Owed', \A x \in Owed : RowSafe(x, LedgerRows, excused, copies, reset)
      PROVE  RowSafe(r, LedgerRows', excused', copies', reset')
  <2>1. CASE r \in Owed
    BY <1>0, <1>1, <2>1, SafeGrows
  <2>2. CASE r \in excused' \union LedgerRows'
    BY <2>2 DEF RowSafe
  <2> QED BY <2>1, <2>2
<1>2. ASSUME UNCHANGED <<step[Record!Sync], mem[Record!Sync], seen>> PROVE LedgerSent'
  <2>1. ASSUME NEW r \in seen, RowSafe(r, mem[Record!Sync], excused, copies, reset)
        PROVE  RowSafe(r, mem[Record!Sync], excused', copies', reset')
    BY <1>0, <2>1, SafeGrows
  <2> QED BY <1>2, <2>1 DEF LedgerSent
<1> QED BY <1>1, <1>2

\* A broken ledger is put aside, or cannot be moved.
LEMMA LedgerPutAside ==
  ASSUME LedgerTyped, LedgerTyped', LedgerHeld, NEW t \in Record!Thread, Record!PutAside(t)
  PROVE  LedgerHeld'
<1> USE LedgerFacts DEF LedgerHeld
<1>1. /\ step[t] = "broken" /\ step' = [step EXCEPT ![t] = "back"] /\ lock = t /\ lock' = t
      /\ UNCHANGED <<bak, reset, mem, seen, count, trades, wrong, excused>>
      /\ Owed' = Owed
  <2>1. step[t] = "broken"
    BY DEF Record!PutAside, Record!At
  <2>2. Owed' = Owed
    BY <2>1, OwedReads DEF OwedBy, LedgerTyped, Record!PutAside
  <2> QED BY <2>1, <2>2 DEF Record!PutAside, Record!At, Locking
<1>2. main.s = "bad" /\ faults >= 1
  BY <1>1 DEF LedgerFaults, HolderAt
<1>3. \/ main' = Record!Gone /\ copies' = copies \union {count} /\ faults' = faults
      \/ main' = main /\ copies' = copies /\ faults' = faults + 1
  BY DEF Record!PutAside, Record!Never, Record!Fails
<1>4. LedgerRows' = LedgerRows /\ LedgerRows = bak.rows /\ ~AtDirect /\ ~AtDirect'
  BY <1>1, <1>2, <1>3 DEF LedgerRows, AtDirect, Record!Gone
<1>5. LedgerSent' /\ ((\A r \in Owed : RowSafe(r, LedgerRows, excused, copies, reset))
                       => \A r \in Owed' : RowSafe(r, LedgerRows', excused', copies', reset'))
  <2>1. UNCHANGED <<mem[Record!Sync], seen>> /\ copies \subseteq copies'
    BY <1>1, <1>3
  <2>2. CASE t # Record!Sync
    BY <1>1, <1>4, <2>1, <2>2, LedgerGrows
  <2>3. CASE t = Record!Sync
    <3>1. step'[Record!Sync] # "send" /\ step[Record!Sync] # "send"
      BY <1>1, <2>3
    <3>2. LedgerSent' /\ LedgerSent
      BY <3>1 DEF LedgerSent
    <3> QED BY <1>1, <1>4, <2>1, <3>2, LedgerGrows
  <2> QED BY <2>2, <2>3
<1>6. LedgerKept'
  <2>1. bak.s # "ok" => Undeclared'
    BY <1>1 DEF Undeclared, HolderAt
  <2>2. bak.s = "ok" => ~Undeclared
    BY DEF Undeclared
  <2> QED BY <1>5, <2>1, <2>2 DEF LedgerKept
<1>7. LedgerInHand'
  BY <1>1, <1>4 DEF LedgerInHand, HolderAt
<1>8. LedgerFaults'
  <2>1. HolderAt({"back"})' /\ ~HolderAt({"broken"})'
    BY <1>1 DEF HolderAt
  <2>2. step'[Record!Sync] = "send" => step[Record!Sync] = "send" /\ faults >= 2
    BY <1>1, <1>2, <1>4 DEF LedgerFaults
  <2> QED BY <1>1, <1>2, <1>3, <1>4, <2>1, <2>2 DEF LedgerFaults, Record!Gone
<1>9. Record!SentRight'
  BY <1>1 DEF Record!SentRight
<1> QED BY <1>5, <1>6, <1>7, <1>8, <1>9

\* The ledger is taken from its copy, or its loss is declared.
LEMMA LedgerGoBack ==
  ASSUME faults' <= 2, LedgerTyped, LedgerTyped', LedgerHeld,
         NEW t \in Record!Thread, Record!GoBack(t)
  PROVE  LedgerHeld'
<1> USE LedgerFacts DEF LedgerHeld
<1>1. /\ step[t] = "back" /\ lock = t /\ mem' = [mem EXCEPT ![t] = bak.rows]
      /\ step' = [step EXCEPT ![t] = IF t = Record!Sync THEN "send" ELSE "append"]
      /\ lock' = IF t = Record!Sync THEN Record!None ELSE t
      /\ UNCHANGED <<bak, copies, seen, count, trades, wrong, excused>> /\ Owed' = Owed
  <2>1. step[t] = "back" /\ lock = t
    BY DEF Record!GoBack, Locking
  <2>2. Owed' = Owed
    BY <2>1, OwedReads DEF OwedBy, LedgerTyped, Record!GoBack
  <2>3. Record!Got(t, bak.rows)
    BY DEF Record!GoBack
  <2> QED BY <2>1, <2>2, <2>3 DEF Record!GoBack, Record!Got, Record!Lost
<1>2. /\ faults >= 1 /\ (reset > 0 => faults >= 2)
      /\ \/ main.s = "bad" /\ faults >= 2
         \/ main.s = "none" /\ count \in copies
  BY <1>1 DEF LedgerFaults, HolderAt
<1>3. /\ main' \in {main, bak, Record!Bad} /\ faults' \in {faults, faults + 1}
      /\ main' # main => bak.s = "ok" /\ (main' = Record!Bad => faults' = faults + 1)
      /\ bak.s = "ok" => reset' = reset
      /\ bak.s # "ok" => \/ reset' \in {reset, 0} /\ faults' = faults + 1
                         \/ faults' = faults /\ count <= reset'
  <2>1. Record!Latest({reset, count}) \in 0 .. count /\ count <= Record!Latest({reset, count})
    BY LatestOf
  <2> QED BY <2>1 DEF Record!GoBack, Record!Lost, Record!Never, Record!Fails, Record!Bad
<1>4. LedgerRows' = LedgerRows /\ LedgerRows = bak.rows /\ ~AtDirect /\ ~AtDirect'
  BY <1>1, <1>2, <1>3 DEF LedgerRows, AtDirect, Record!Bad
<1>5. faults' <= 2
  OBVIOUS
<1>6. \A r \in Owed : RowSafe(r, bak.rows, excused, copies, reset')
  <2>1. CASE bak.s = "ok"
    <3>1. \A r \in Owed : RowSafe(r, LedgerRows, excused, copies, reset)
      BY <2>1 DEF LedgerKept, Undeclared
    <3>2. LedgerRows = bak.rows /\ reset' = reset
      BY <1>3, <1>4, <2>1
    <3> QED BY <3>1, <3>2 DEF RowSafe
  <2>2. CASE bak.s # "ok" /\ faults' = faults /\ count <= reset'
    <3>1. reset' \in Nat
      BY PartsAssumption DEF LedgerTyped, RecordFiles, RecordFlow, RecordTimes
    <3>2. \A r \in Owed : r <= reset'
      BY <2>2, <3>1
    <3> QED BY <3>2 DEF RowSafe
  <2>3. CASE bak.s # "ok" /\ reset' \in {reset, 0} /\ faults' = faults + 1
    <3>1. reset' = 0 /\ count \in copies /\ bak.rows = {}
      BY <1>2, <1>5, <2>3
    <3>2. ASSUME NEW r \in Owed PROVE r <= count /\ \A x \in bak.rows : x > count
      BY <3>1
    <3> QED BY <3>1, <3>2 DEF RowSafe
  <2> QED BY <1>3, <2>1, <2>2, <2>3
<1>7. LedgerKept'
  BY <1>1, <1>4, <1>6 DEF LedgerKept
<1>8. LedgerSent'
  <2>1. CASE t # Record!Sync
    <3>1. UNCHANGED <<step[Record!Sync], mem[Record!Sync], seen>>
      BY <1>1, <2>1
    <3>2. reset' = reset \/ count <= reset'
      BY <1>2, <1>3
    <3> QED BY <1>1, <1>3, <1>4, <3>1, <3>2, LedgerGrows
  <2>2. CASE t = Record!Sync
    BY <1>1, <1>4, <1>6, <2>2 DEF LedgerSent
  <2> QED BY <2>1, <2>2
<1>9. LedgerInHand'
  BY <1>1, <1>4 DEF LedgerInHand, HolderAt
<1>10. LedgerFaults'
  <2>1. ~HolderAt({"back"})' /\ ~HolderAt({"broken"})'
    BY <1>1 DEF HolderAt
  <2>2. main'.s = "bad" => faults' >= 2
    <3>1. main' = bak /\ bak.s = "bad" => main' = main
      BY <1>3
    <3> QED BY <1>2, <1>3, <3>1 DEF Record!Bad
  <2>3. reset' > 0 => faults' >= 1
    BY <1>2, <1>3
  <2> QED BY <1>1, <1>2, <1>3, <1>4, <2>1, <2>2, <2>3 DEF LedgerFaults
<1>11. Record!SentRight'
  BY <1>1 DEF Record!SentRight
<1> QED BY <1>7, <1>8, <1>9, <1>10, <1>11

\* An entry has its row in hand, or goes on without one.
LEMMA LedgerAppend ==
  ASSUME LedgerTyped, LedgerTyped', LedgerHeld, NEW t \in Writer, Record!Append(t)
  PROVE  LedgerHeld'
<1> USE LedgerFacts DEF LedgerHeld
<1>1. /\ step[t] = "append" /\ lock = t /\ count' = count + 1
      /\ UNCHANGED <<main, bak, copies, reset, seen, trades, wrong>>
      /\ excused \subseteq excused' /\ faults' \in {faults, faults + 1}
  BY DEF Record!Append, Record!ledger, Locking, Record!Skips, Record!Never, Record!Fails
<1>2. \/ /\ step' = [step EXCEPT ![t] = "copy"] /\ lock' = t
         /\ mem' = [mem EXCEPT ![t] = @ \union {count + 1}]
      \/ /\ step' = [step EXCEPT ![t] = "enter"] /\ lock' = Record!None
         /\ mem' = [mem EXCEPT ![t] = {}]
  BY <1>1 DEF Record!Append, Record!Skips
<1>3. LedgerRows' = LedgerRows /\ ~AtDirect /\ ~AtDirect'
  BY <1>1, <1>2 DEF LedgerRows, AtDirect, Record!None
<1>4. Owed' \subseteq Owed \union excused'
  BY OwedWrites DEF OwedBy, LedgerTyped
<1>5. LedgerSent' /\ ((\A r \in Owed : RowSafe(r, LedgerRows, excused, copies, reset))
                       => \A r \in Owed' : RowSafe(r, LedgerRows', excused', copies', reset'))
  <2>1. UNCHANGED <<step[Record!Sync], mem[Record!Sync], seen>>
    BY <1>1, <1>2
  <2> QED BY <1>1, <1>3, <1>4, <2>1, LedgerGrows
<1>6. ~Undeclared
  BY <1>1 DEF Undeclared, HolderAt
<1>7. LedgerKept'
  BY <1>5, <1>6 DEF LedgerKept
<1>8. LedgerInHand'
  <2>1. mem[t] = LedgerRows /\ count' \notin copies'
    BY <1>1 DEF LedgerInHand, HolderAt
  <2>2. CASE step' = [step EXCEPT ![t] = "copy"]
    <3>1. step'[t] = "copy" /\ lock' = t /\ mem'[t] = LedgerRows \union {count + 1}
      BY <1>2, <2>1, <2>2
    <3> QED BY <1>1, <1>3, <2>1, <3>1 DEF LedgerInHand, HolderAt
  <2>3. CASE lock' = Record!None
    BY <1>1, <1>3, <2>3 DEF LedgerInHand, HolderAt
  <2> QED BY <1>2, <2>2, <2>3
<1>9. LedgerFaults'
  <2>1. ~HolderAt({"back"})' /\ ~HolderAt({"broken"})'
    BY <1>1, <1>2 DEF HolderAt
  <2>2. step'[Record!Sync] = step[Record!Sync]
    BY <1>2
  <2> QED BY <1>1, <1>3, <2>1, <2>2 DEF LedgerFaults
<1>10. Record!SentRight'
  BY <1>1 DEF Record!SentRight
<1> QED BY <1>5, <1>7, <1>8, <1>9, <1>10

\* The ledger is copied before it is written.
LEMMA LedgerCopy ==
  ASSUME LedgerTyped, LedgerTyped', LedgerHeld, NEW t \in Writer, Record!Copy(t)
  PROVE  LedgerHeld'
<1> USE LedgerFacts DEF LedgerHeld
<1>1. /\ step[t] = "copy" /\ step' = [step EXCEPT ![t] = "swap"] /\ lock = t /\ lock' = t
      /\ UNCHANGED <<main, copies, reset, mem, seen, count, trades, wrong, excused>>
      /\ faults' \in {faults, faults + 1} /\ Owed' = Owed
  BY OwedWrites DEF Record!Copy, Record!At, Locking, Record!Never, Record!Fails, LedgerTyped
<1>2. bak' \in {bak, main, Record!Bad} /\ (bak' # bak => main.s = "ok")
  BY DEF Record!Copy
<1>3. LedgerRows' = LedgerRows /\ ~AtDirect /\ ~AtDirect'
  BY <1>1, <1>2 DEF LedgerRows, AtDirect
<1>4. LedgerSent' /\ ((\A r \in Owed : RowSafe(r, LedgerRows, excused, copies, reset))
                       => \A r \in Owed' : RowSafe(r, LedgerRows', excused', copies', reset'))
  <2>1. UNCHANGED <<step[Record!Sync], mem[Record!Sync], seen>>
    BY <1>1
  <2> QED BY <1>1, <1>3, <2>1, LedgerGrows
<1>5. LedgerKept'
  <2>1. ~Undeclared
    BY <1>1 DEF Undeclared, HolderAt
  <2> QED BY <1>4, <2>1 DEF LedgerKept
<1>6. LedgerInHand'
  <2>1. mem[t] = LedgerRows \union {count} /\ count \notin copies
    BY <1>1 DEF LedgerInHand, HolderAt
  <2>2. bak'.rows \subseteq LedgerRows
    BY <1>2, <1>3 DEF LedgerInHand, LedgerRows, Record!Bad
  <2>3. faults' = 0 => LedgerRows' = bak'.rows
    <3>1. faults' = 0 => bak' = (IF main.s = "ok" THEN main ELSE bak)
      BY DEF Record!Copy, Record!Fails
    <3> QED BY <1>1, <1>3, <3>1 DEF LedgerRows
  <2> QED BY <1>1, <1>3, <2>1, <2>2, <2>3 DEF LedgerInHand, HolderAt
<1>7. LedgerFaults'
  <2>1. ~HolderAt({"back"})' /\ ~HolderAt({"broken"})'
    BY <1>1 DEF HolderAt
  <2>2. step'[Record!Sync] = step[Record!Sync]
    BY <1>1
  <2> QED BY <1>1, <1>3, <2>1, <2>2 DEF LedgerFaults
<1>8. Record!SentRight'
  BY <1>1 DEF Record!SentRight
<1> QED BY <1>4, <1>5, <1>6, <1>7, <1>8

\* The ledger is written, by swapping or in place.
LEMMA LedgerWrite ==
  ASSUME LedgerTyped, LedgerTyped', LedgerHeld, NEW t \in Writer,
         Record!Swap(t) \/ (Record!Direct(t) /\ faults' = faults)
  PROVE  LedgerHeld'
<1> USE LedgerFacts DEF LedgerHeld
<1>1. /\ step[t] \in {"swap", "direct"} /\ lock = t
      /\ UNCHANGED <<bak, copies, reset, seen, count, trades, wrong, excused, own>>
  BY DEF Record!Swap, Record!Direct, Record!Fails, Locking
<1>2. /\ count \notin copies /\ count \in mem[t]
      /\ mem[t] = LedgerRows \union {count}
  BY <1>1 DEF LedgerInHand, HolderAt, LedgerTyped, RecordRows, LedgerRows, AtDirect
<1>3. own[t] = count
  BY <1>1 DEF LedgerTyped, RecordRows
<1>4. \/ /\ main' = Record!Good(mem[t]) /\ lock' = Record!None /\ faults' = faults
         /\ mem' = [mem EXCEPT ![t] = {}] /\ step' = [step EXCEPT ![t] = "enter"]
         /\ Owed' = Owed \union {own[t]}
      \/ /\ main' = Record!Bad /\ step' = [step EXCEPT ![t] = "direct"]
         /\ UNCHANGED <<lock, mem>> /\ faults' = faults + 1 /\ Owed' = Owed
  <2>1. Owed' = IF step'[t] = "enter" THEN Owed \union {own[t]} ELSE Owed
    BY OwedWrites DEF LedgerTyped
  <2> QED BY <2>1 DEF Record!Swap, Record!Direct, Record!Written, Record!Never, Record!Fails
<1>5. LedgerRows' = mem[t]
  BY <1>1, <1>4 DEF LedgerRows, AtDirect, Record!Good, Record!Bad, Record!None
<1>6. LedgerSent' /\ ((\A r \in Owed : RowSafe(r, LedgerRows, excused, copies, reset))
                       => \A r \in Owed' : RowSafe(r, LedgerRows', excused', copies', reset'))
  <2>1. UNCHANGED <<step[Record!Sync], mem[Record!Sync], seen>>
    BY <1>1, <1>4
  <2>2. ASSUME NEW c \in copies PROVE count > c
    BY <1>2
  <2> QED BY <1>1, <1>2, <1>3, <1>4, <1>5, <2>1, <2>2, LedgerGrows
<1>7. LedgerKept'
  <2>1. ~Undeclared
    BY <1>1 DEF Undeclared, HolderAt
  <2> QED BY <1>6, <2>1 DEF LedgerKept
<1>8. LedgerInHand'
  <2>1. bak'.rows \subseteq LedgerRows'
    BY <1>1, <1>2, <1>5 DEF LedgerInHand
  <2>2. AtDirect' /\ faults' <= 1 => mem'[lock'] \subseteq bak'.rows \union {count}
    <3> SUFFICES ASSUME AtDirect', faults' <= 1
                 PROVE  mem'[lock'] \subseteq bak'.rows \union {count}
      OBVIOUS
    <3>1. faults' = faults + 1 /\ UNCHANGED <<lock, mem>>
      BY <1>4 DEF AtDirect, Record!None
    <3>2. step[t] = "swap"
      BY <3>1 DEF Record!Swap
    <3>3. LedgerRows = bak.rows
      BY <1>1, <3>1, <3>2 DEF LedgerInHand, HolderAt
    <3> QED BY <1>1, <1>2, <3>1, <3>3
  <2> QED BY <1>1, <1>2, <1>4, <2>1, <2>2 DEF LedgerInHand, HolderAt, AtDirect
<1>9. LedgerFaults'
  <2>1. ~HolderAt({"back"})' /\ ~HolderAt({"broken"})'
    BY <1>1, <1>4 DEF HolderAt
  <2>2. step'[Record!Sync] = step[Record!Sync]
    BY <1>4
  <2>3. CASE main' = Record!Good(mem[t]) /\ faults' = faults /\ lock' = Record!None
    BY <1>1, <2>1, <2>3 DEF LedgerFaults, AtDirect, Record!Good, Record!None
  <2>4. CASE main' = Record!Bad /\ step' = [step EXCEPT ![t] = "direct"] /\ lock' = lock
             /\ faults' = faults + 1
    <3>1. AtDirect'
      BY <1>1, <2>4 DEF AtDirect
    <3> QED BY <1>1, <2>1, <2>4, <3>1 DEF LedgerFaults, Record!Bad
  <2> QED BY <1>4, <2>3, <2>4
<1>10. Record!SentRight'
  BY <1>1 DEF Record!SentRight
<1> QED BY <1>6, <1>7, <1>8, <1>9, <1>10

\* The disk is full while the ledger is written in place: the copy has all the
\* rows but the one that is lost.
LEMMA LedgerCut ==
  ASSUME LedgerTyped, LedgerTyped', LedgerHeld, NEW t \in Writer,
         Record!Direct(t), faults' # faults, faults' <= 2
  PROVE  LedgerHeld'
<1> USE LedgerFacts DEF LedgerHeld
<1>1. /\ step[t] = "direct" /\ lock = t /\ lock' = Record!None /\ faults' = faults + 1
      /\ UNCHANGED <<main, bak, copies, reset, seen, count, trades, wrong, own>>
      /\ mem' = [mem EXCEPT ![t] = {}] /\ step' = [step EXCEPT ![t] = "enter"]
      /\ excused \subseteq excused' /\ own[t] \in excused'
  BY DEF Record!Direct, Record!Written, Record!Never, Record!Fails, Locking
<1>2. Owed' = Owed \union {own[t]}
  BY <1>1, OwedWrites DEF LedgerTyped
<1>3. AtDirect /\ main.s = "bad" /\ faults = 1
  <2>1. AtDirect
    BY <1>1 DEF AtDirect
  <2> QED BY <1>1, <2>1 DEF LedgerFaults
<1>4. /\ LedgerRows = mem[t] /\ own[t] = count /\ count \notin Owed
      /\ count \notin mem[Record!Sync]
      /\ mem[t] \subseteq bak.rows \union {count} /\ bak.rows \subseteq LedgerRows
  BY <1>1, <1>3 DEF LedgerTyped, RecordRows, LedgerRows, LedgerInHand
<1>5. LedgerRows' = bak.rows /\ ~AtDirect' /\ \A S : ~HolderAt(S)'
  BY <1>1, <1>3 DEF LedgerRows, AtDirect, HolderAt, Record!None
<1>6. LedgerSent'
  <2> SUFFICES ASSUME step[Record!Sync] = "send"
               PROVE  /\ mem[Record!Sync] \subseteq bak.rows
                      /\ \A r \in seen :
                           RowSafe(r, mem[Record!Sync], excused', copies, reset)
    BY <1>1, <1>5 DEF LedgerSent
  <2> QED BY <1>1, <1>4 DEF LedgerSent, RowSafe
<1>7. LedgerKept'
  <2>1. ~Undeclared
    BY <1>1 DEF Undeclared, HolderAt
  <2>2. ASSUME NEW r \in Owed PROVE RowSafe(r, bak.rows, excused', copies, reset)
    <3>1. RowSafe(r, LedgerRows, excused, copies, reset)
      BY <2>1 DEF LedgerKept
    <3>2. r \in LedgerRows => r \in bak.rows
      BY <1>4
    <3> QED BY <1>1, <1>4, <3>1, <3>2, SafeShrinks
  <2>3. RowSafe(own[t], bak.rows, excused', copies, reset)
    BY <1>1 DEF RowSafe
  <2> QED BY <1>1, <1>2, <1>5, <2>2, <2>3 DEF LedgerKept
<1>8. LedgerInHand'
  BY <1>1, <1>5 DEF LedgerInHand
<1>9. LedgerFaults'
  BY <1>1, <1>3, <1>5 DEF LedgerFaults
<1>10. Record!SentRight'
  BY <1>1 DEF Record!SentRight
<1> QED BY <1>6, <1>7, <1>8, <1>9, <1>10

\* The order is sent and its time marked: the ledger is left alone.
LEMMA LedgerEntry ==
  ASSUME LedgerTyped, LedgerTyped', LedgerHeld, NEW t \in Writer,
         Record!Enters(t) \/ Record!Mark(t)
  PROVE  LedgerHeld'
<1> USE LedgerFacts DEF LedgerHeld
<1>1. /\ UNCHANGED <<main, bak, copies, reset, lock, mem, seen, count, wrong, excused>>
      /\ step[t] \notin Locking /\ faults' \in {faults, faults + 1} /\ Owed' = Owed
      /\ \E p \in {"mark", "idle"} : step' = [step EXCEPT ![t] = p]
  BY OwedWrites DEF Record!Enters, Record!Mark, Record!At, Record!ledger, Locking,
     Record!Never, Record!Fails, LedgerTyped
<1>2. (lock # Record!None => step'[lock] = step[lock]) /\ step'[Record!Sync] = step[Record!Sync]
  BY <1>1
<1>3. /\ LedgerRows' = LedgerRows /\ AtDirect' = AtDirect
      /\ Undeclared' = Undeclared
  BY <1>1, <1>2 DEF LedgerRows, AtDirect, Undeclared, HolderAt
<1>4. LedgerSent' /\ ((\A r \in Owed : RowSafe(r, LedgerRows, excused, copies, reset))
                       => \A r \in Owed' : RowSafe(r, LedgerRows', excused', copies', reset'))
  BY <1>1, <1>2, <1>3, LedgerGrows
<1>5. LedgerKept'
  BY <1>3, <1>4 DEF LedgerKept
<1>6. LedgerInHand'
  BY <1>1, <1>2, <1>3 DEF LedgerInHand, HolderAt
<1>7. LedgerFaults'
  BY <1>1, <1>2, <1>3 DEF LedgerFaults, HolderAt
<1>8. Record!SentRight'
  BY <1>1 DEF Record!SentRight
<1> QED BY <1>4, <1>5, <1>6, <1>7, <1>8

\* The sync sends what it read, and settles the time of a loss.
LEMMA LedgerSend ==
  ASSUME LedgerTyped, LedgerTyped', LedgerHeld, Record!Send
  PROVE  LedgerHeld'
<1> USE LedgerFacts DEF LedgerHeld
<1> DEFINE sync == Record!Sync
           since == {c \in copies : \A r \in mem[sync] : r > c}
<1>1. /\ UNCHANGED <<main, bak, copies, lock, own, count, trades, excused, faults>>
      /\ step[sync] = "send" /\ step' = [step EXCEPT ![sync] = "idle"]
      /\ mem' = [mem EXCEPT ![sync] = {}] /\ lock # sync
  BY DEF Record!Send, Record!At, Locking
<1>2. Owed' = Owed
  BY <1>1, OwedSame DEF Record!Thread, Record!Steps, LedgerTyped
<1>3. reset' = IF reset > 0 THEN reset ELSE Record!Latest(since)
  BY DEF Record!Send, Record!Since
<1>4. /\ Record!Latest(since) \in 0 .. count /\ \A c \in since : c <= Record!Latest(since)
      /\ (Record!Latest(since) > 0 => copies # {})
  <2>1. since \in SUBSET (0 .. count)
    OBVIOUS
  <2>2. since = {} => Record!Latest(since) = 0
    BY DEF Record!Latest
  <2> HIDE DEF since
  <2>3. Record!Latest(since) \in 0 .. count /\ \A c \in since : c <= Record!Latest(since)
    BY <2>1, LatestOf
  <2> USE DEF since
  <2> QED BY <2>2, <2>3
<1>5. /\ LedgerRows' = LedgerRows /\ AtDirect' = AtDirect /\ Undeclared' = Undeclared
      /\ \A S : HolderAt(S)' = HolderAt(S)
  BY <1>1 DEF LedgerRows, AtDirect, Undeclared, HolderAt
<1>6. LedgerSent'
  BY <1>1 DEF LedgerSent
<1>7. ASSUME NEW r \in Nat, NEW rs \in SUBSET Nat, RowSafe(r, rs, excused, copies, reset),
             mem[sync] \subseteq rs
      PROVE  RowSafe(r, rs, excused', copies', reset') /\ (r \in excused \/ r \in rs \/ r <= reset')
  <2>1. CASE r \in excused \/ r \in rs \/ r <= reset
    BY <1>1, <1>3, <1>4, <2>1 DEF RowSafe
  <2>2. CASE reset = 0 /\ \E c \in copies : r <= c /\ \A x \in rs : x > c
    <3>1. PICK c \in copies : r <= c /\ \A x \in rs : x > c
      BY <2>2
    <3>2. c \in since
      BY <1>7, <3>1
    <3>3. r <= reset'
      <4>1. c <= Record!Latest(since) /\ Record!Latest(since) \in Nat /\ c \in Nat
        BY <1>4, <3>2
      <4>2. reset' = Record!Latest(since)
        BY <1>3, <2>2
      <4> HIDE DEF since
      <4> QED BY <3>1, <4>1, <4>2
    <3> QED BY <3>3 DEF RowSafe
  <2> QED BY <1>7, <2>1, <2>2 DEF RowSafe
<1>8. LedgerKept'
  <2>1. mem[sync] \subseteq LedgerRows
    BY <1>1 DEF LedgerSent
  <2> QED BY <1>1, <1>2, <1>5, <1>7, <2>1 DEF LedgerKept
<1>9. LedgerInHand'
  BY <1>1, <1>5 DEF LedgerInHand
<1>10. LedgerFaults'
  <2>1. reset' > 0 => reset > 0 \/ copies # {}
    BY <1>3, <1>4
  <2> QED BY <1>1, <1>5, <2>1 DEF LedgerFaults
<1>11. Record!SentRight'
  <2>1. ASSUME NEW r \in seen, r > reset', r \notin mem[sync] PROVE r \in excused
    BY <1>1, <1>3, <1>4, <1>7, <2>1 DEF LedgerSent
  <2> QED BY <1>1, <2>1 DEF Record!Send, Record!SentRight
<1> QED BY <1>6, <1>8, <1>9, <1>10, <1>11

\* A crash breaks at most the file that is being written, and costs a failure.
LEMMA LedgerCrash ==
  ASSUME LedgerTyped, LedgerTyped', LedgerHeld, faults' <= 2, Record!Crash
  PROVE  LedgerHeld'
<1> USE LedgerFacts DEF LedgerHeld
<1>1. /\ UNCHANGED <<copies, reset, count, trades, wrong>> /\ excused \subseteq excused'
      /\ lock' = Record!None /\ step' = [t \in Record!Thread |-> "idle"] /\ faults' = faults + 1
      /\ faults < 2
  BY DEF Record!Crash, Record!Fails
<1>2. \/ UNCHANGED <<main, bak>>
      \/ main.s = "ok" /\ main' = Record!Bad /\ bak' \in {bak, Record!Bad}
  BY DEF Record!Crash
<1>3. Owed' = trades
  BY <1>1 DEF Owed, Record!Thread
<1>4. ~AtDirect' /\ \A S : ~HolderAt(S)'
  BY <1>1 DEF AtDirect, HolderAt, Record!None
<1>5. LedgerRows' \subseteq LedgerRows
  <2>1. AtDirect => main.s = "bad"
    BY DEF LedgerFaults
  <2>2. LedgerRows' = IF main'.s = "ok" THEN main'.rows ELSE bak'.rows
    BY <1>4 DEF LedgerRows
  <2>3. CASE UNCHANGED <<main, bak>>
    BY <2>1, <2>2, <2>3 DEF LedgerInHand, LedgerRows
  <2>4. CASE main.s = "ok" /\ main' = Record!Bad /\ bak' \in {bak, Record!Bad}
    BY <2>2, <2>4 DEF LedgerInHand, Record!Bad
  <2> QED BY <1>2, <2>3, <2>4
<1>6. LedgerSent'
  BY <1>1 DEF LedgerSent
<1>7. LedgerKept'
  <2> SUFFICES ASSUME ~Undeclared', NEW r \in trades
               PROVE  RowSafe(r, LedgerRows', excused', copies', reset')
    BY <1>3 DEF LedgerKept
  <2>1. bak'.s # "ok" => UNCHANGED <<main, bak>> /\ main.s # "bad"
    BY <1>2, <1>4 DEF Undeclared, Record!Bad
  <2>2. CASE HolderAt({"back"}) /\ bak.s # "ok"
    <3>1. main.s # "bad" /\ UNCHANGED <<main, bak>>
      BY <1>2, <2>1, <2>2 DEF Record!Bad
    <3>2. count \in copies /\ reset = 0
      BY <1>1, <2>2, <3>1 DEF LedgerFaults
    <3>3. LedgerRows' = {}
      BY <1>4, <2>2, <3>1, <3>2 DEF LedgerRows, LedgerFaults
    <3>4. r <= count
      BY DEF Owed
    <3> QED BY <1>1, <3>2, <3>3, <3>4 DEF RowSafe
  <2>3. CASE ~Undeclared
    <3>1. RowSafe(r, LedgerRows, excused, copies, reset)
      BY <2>3 DEF LedgerKept, Owed
    <3>2. r \in LedgerRows => r \in LedgerRows' \/ r \in excused'
      <4> DEFINE sets == {mem[u] \ {own[u]} : u \in {v \in Writer : step[v] = "direct"}}
      <4>0. /\ AtDirect => main.s = "bad" /\ UNCHANGED <<main, bak>>
            /\ UNCHANGED <<main, bak>> /\ ~AtDirect => LedgerRows' = LedgerRows
        BY <1>2, <1>4 DEF LedgerFaults, LedgerRows
      <4>1. main'.s = "bad" /\ bak'.s = "ok"
              => excused' = excused \union (((UNION sets) \union main.rows) \ bak'.rows)
        BY DEF Record!Crash, Record!Uncopied
      <4>2. CASE AtDirect
        <5>1. main'.s = "bad" /\ bak'.s = "ok" /\ LedgerRows' = bak'.rows
          BY <1>4, <2>1, <4>0, <4>2 DEF LedgerRows
        <5>2. r \in LedgerRows => r \in mem[lock] \ {own[lock]}
          BY <4>2 DEF LedgerTyped, RecordRows, Owed, LedgerRows, AtDirect
        <5>3. mem[lock] \ {own[lock]} \in sets
          BY <4>2 DEF AtDirect
        <5> HIDE DEF sets
        <5> QED BY <4>1, <5>1, <5>2, <5>3
      <4>3. CASE ~AtDirect /\ ~UNCHANGED <<main, bak>>
        <5>1. main'.s = "bad" /\ bak'.s = "ok" /\ LedgerRows' = bak'.rows /\ LedgerRows = main.rows
          BY <1>2, <1>4, <2>1, <4>3 DEF LedgerRows, Record!Bad
        <5> HIDE DEF sets
        <5> QED BY <4>1, <5>1
      <4> QED BY <4>0, <4>2, <4>3
    <3>3. /\ r \in Nat /\ LedgerRows \in SUBSET Nat /\ LedgerRows' \in SUBSET Nat /\ copies \in SUBSET Nat
          /\ reset \in Nat /\ copies' = copies /\ reset' = reset
      BY <1>1, <1>5 DEF Owed
    <3> QED BY <1>1, <1>5, <3>1, <3>2, <3>3, SafeShrinks
  <2>4. Undeclared => HolderAt({"back"}) /\ bak.s # "ok"
    BY <1>2, <2>1 DEF Undeclared, Record!Bad
  <2> QED BY <2>2, <2>3, <2>4
<1>8. LedgerInHand'
  <2>1. bak'.rows \subseteq LedgerRows'
    <3>1. CASE main'.s # "ok"
      BY <1>4, <3>1 DEF LedgerRows
    <3>2. CASE main'.s = "ok"
      <4>1. UNCHANGED <<main, bak>> /\ ~AtDirect
        BY <1>2, <3>2 DEF Record!Bad, LedgerFaults
      <4> QED BY <1>4, <3>2, <4>1 DEF LedgerRows, LedgerInHand
    <3> QED BY <3>1, <3>2
  <2> QED BY <1>4, <2>1 DEF LedgerInHand
<1>9. LedgerFaults'
  BY <1>1, <1>2, <1>4 DEF LedgerFaults, Record!Bad
<1>10. Record!SentRight'
  BY <1>1 DEF Record!SentRight
<1> QED BY <1>6, <1>7, <1>8, <1>9, <1>10

LEMMA LedgerTypedStep ==
  ASSUME LedgerTyped, [Record!Next]_(Record!vars)
  PROVE  LedgerTyped'
BY RecordFlowStep, RecordFilesStep, RecordRowsStep DEF LedgerTyped

\* What holds in the ledger as long as no more than two things failed.
LedgerInv == scene = "record" => LedgerTyped /\ (faults <= 2 => LedgerHeld)

LEMMA LedgerInit == MCInit => LedgerInv
<1> SUFFICES ASSUME Record!Init PROVE LedgerTyped /\ LedgerHeld
  BY DEF MCInit, LedgerInv
<1> USE PartsAssumption DEF Record!Init
<1>1. RecordFlow
  BY DEF RecordFlow, Record!Thread, Record!Steps, Locking, Record!None, Record!Sync
<1>2. RecordFiles
  BY DEF RecordFiles, LedgerFiles, RecordTimes, Record!Gone
<1>3. RecordRows
  BY DEF RecordRows, Owed, Record!None, Record!Thread
<1>4. LedgerRows = {} /\ ~AtDirect /\ \A S : ~HolderAt(S)
  BY DEF LedgerRows, AtDirect, HolderAt, Record!None, Record!Gone
<1>5. LedgerKept /\ LedgerInHand /\ Record!SentRight
  BY <1>4 DEF LedgerKept, LedgerInHand, Record!SentRight, Owed, Record!Thread, Record!Gone
<1>6. LedgerSent /\ LedgerFaults
  BY <1>4 DEF LedgerSent, LedgerFaults, Record!Gone, Record!Thread, Record!Sync
<1> QED BY <1>1, <1>2, <1>3, <1>5, <1>6 DEF LedgerTyped, LedgerHeld

LEMMA LedgerStep ==
  ASSUME LedgerTyped, faults <= 2 => LedgerHeld, [Record!Next]_(Record!vars), faults' <= 2
  PROVE  LedgerHeld'
<1>1. LedgerTyped'
  BY LedgerTypedStep
<1>2. faults \in Nat /\ faults' \in Nat
  BY <1>1, PartsAssumption DEF LedgerTyped, RecordFlow
<1>3. faults <= faults'
  BY <1>2 DEF Record!Next, Record!Read, Record!PutAside, Record!GoBack, Record!Lost,
     Record!Append, Record!Copy, Record!Swap, Record!Direct, Record!Written, Record!Enters,
     Record!Mark, Record!Send, Record!Crash, Record!Fails, Record!Never, Record!vars
<1>4. LedgerHeld
  BY <1>2, <1>3
<1>5. CASE UNCHANGED Record!vars
  BY <1>4, <1>5 DEF Record!vars, Record!ledger, Record!entry, LedgerHeld, LedgerKept, LedgerSent,
     LedgerInHand, LedgerFaults, Record!SentRight, Undeclared, LedgerRows, AtDirect, HolderAt, Owed
<1>6. ASSUME NEW t \in Record!Thread, Record!Read(t) \/ Record!PutAside(t) \/ Record!GoBack(t)
      PROVE  LedgerHeld'
  BY <1>1, <1>4, <1>6, LedgerRead, LedgerPutAside, LedgerGoBack
<1>7. ASSUME NEW t \in Writer, Record!Append(t) \/ Record!Copy(t)
      PROVE  LedgerHeld'
  BY <1>1, <1>4, <1>7, LedgerAppend, LedgerCopy
<1>8. ASSUME NEW t \in Writer, Record!Swap(t) \/ Record!Direct(t)
      PROVE  LedgerHeld'
  BY <1>1, <1>4, <1>8, LedgerWrite, LedgerCut DEF Record!Direct
<1>9. ASSUME NEW t \in Writer, Record!Enters(t) \/ Record!Mark(t)
      PROVE  LedgerHeld'
  BY <1>1, <1>4, <1>9, LedgerEntry
<1>10. CASE Record!Send \/ Record!Crash
  BY <1>1, <1>4, <1>10, LedgerSend, LedgerCrash
<1> QED BY <1>5, <1>6, <1>7, <1>8, <1>9, <1>10 DEF Record!Next

LEMMA LedgerInvStep == LedgerInv /\ [MCNext]_allvars => LedgerInv'
<1> SUFFICES ASSUME LedgerInv, [MCNext]_allvars, scene' = "record"
             PROVE  LedgerTyped' /\ (faults <= 2 => LedgerHeld)'
  BY DEF LedgerInv
<1>1. scene = "record"
  BY DEF MCNext, allvars
<1>2. LedgerTyped /\ (faults <= 2 => LedgerHeld) /\ [Record!Next]_(Record!vars)
  BY <1>1, RecordSteps DEF LedgerInv
<1>3. faults' <= 2 => LedgerHeld'
  BY <1>2, LedgerStep
<1> QED BY <1>2, <1>3, LedgerTypedStep

\* Nothing is sent with another entry's 1R as long as no more than two things
\* failed.
THEOREM SentWithOwn == MCSpec => [](faults <= 2 => SentRight)
<1>1. LedgerInv => (faults <= 2 => SentRight)
  BY DEF LedgerInv, LedgerHeld, SentRight
<1> QED BY <1>1, LedgerInit, LedgerInvStep, PTL DEF MCSpec

-----------------------------------------------------------------------------
(* BrokerFlatten. *)

Slots == [Contract -> -1 .. 1]

\* Which broker comes to which step, and what the steps find in hand.
FlatFlow ==
  /\ pos \in Slots /\ mkt \in Slots /\ plan \in Slots /\ stop \subseteq Contract /\ nth \in Nat
  /\ left \subseteq Contract
  /\ step = "cancel" => kind = "ibkr" /\ (odd = {} => left = Flatten!Open /\ plan = pos)
  /\ step = "sweep" => kind = "px"
  /\ one # Flatten!All =>
       one \in Contract /\ kind = "ibkr" /\ step \in {"plan", "confirm", "done"}
  /\ nth = 0 => step = "idle" /\ \A c \in Contract : mkt[c] = 0

\* Where stops end with their position, none is left without one; where they
\* do not, an open contract keeps its own, and what ProjectX spares covers it.
FlatStops ==
  /\ kind \notin {"px", "ibkr"} => stop \subseteq Flatten!Open
  /\ odd = {} /\ (kind # "ibkr" \/ nth = 0) =>
       \A c \in Contract : pos[c] >= 0 /\ (pos[c] = 1 => c \in stop)
  /\ odd = {} /\ kind = "px" =>
       /\ step \in {"close", "recheck"} => Flatten!Open \subseteq Flatten!Planned
       /\ step = "sweep" => Flatten!Open \subseteq keep

\* IBKR's orders, once its stops are gone: each closes what it was sent for.
OrdersClose ==
  /\ stop = {}
  /\ \A c \in Contract :
       /\ mkt[c] # 0 => mkt[c] = -pos[c]
       /\ c \in left => mkt[c] = 0 /\ pos[c] = plan[c]
       /\ plan[c] = 0 => pos[c] = 0 /\ mkt[c] = 0

\* A flatten that has met no error.
FlatClean ==
  odd = {} /\ ~errors /\ one = Flatten!All =>
    /\ kind = "px" /\ step = "sweep" => Flatten!Open = {} /\ keep = {}
    /\ kind = "ibkr" /\ step \in {"close", "recheck", "done"} => OrdersClose
    /\ kind # "nt8" /\ step = "done" => Flatten!Open = {}
    /\ kind = "px" /\ step = "done" => stop = {}

FlatHeld == FlatFlow /\ FlatStops /\ FlatClean

FlattenInv == scene = "flatten" => FlatHeld

LEMMA FlatInit ==
  ASSUME Flatten!Init
  PROVE  FlatHeld
<1> USE DEF Flatten!Init
<1>1. pos \in [Contract -> 0 .. 1] /\ mkt = Flatten!None /\ plan = Flatten!None
  OBVIOUS
<1>2. \A c \in Contract : mkt[c] = 0 /\ plan[c] = 0
  BY <1>1 DEF Flatten!None
<1>3. FlatFlow
  BY <1>1, <1>2 DEF FlatFlow, Slots, Flatten!None
<1>4. FlatStops
  BY <1>1 DEF FlatStops, Flatten!Open
<1>5. FlatClean
  BY DEF FlatClean
<1> QED BY <1>3, <1>4, <1>5 DEF FlatHeld

\* The market: a position goes to zero, or one step down at its stop.
LEMMA FillStep ==
  ASSUME FlatHeld, Flatten!Fill
  PROVE  FlatHeld'
<1> USE DEF Flatten!work, Flatten!Open, Flatten!Planned
<1>1. PICK c \in Contract :
        /\ mkt[c] # 0 /\ mkt' = [mkt EXCEPT ![c] = 0]
        /\ LET new == IF kind = "ibkr" THEN pos[c] + mkt[c] ELSE 0 IN
           /\ new \in -1 .. 1 /\ pos' = [pos EXCEPT ![c] = new]
           /\ stop' = IF new = 0 /\ kind \notin {"px", "ibkr"} THEN stop \ {c} ELSE stop
        /\ odd' = IF kind = "ibkr" /\ c \notin Flatten!Planned \ left
                  THEN odd \union {"raced"} ELSE odd
  BY DEF Flatten!Fill
<1>2. UNCHANGED <<kind, listed, step, one, plan, left, failed, keep, twice, errors, nth>>
  BY DEF Flatten!Fill
<1> DEFINE new == IF kind = "ibkr" THEN pos[c] + mkt[c] ELSE 0
<1>3. /\ new \in -1 .. 1 /\ pos' = [pos EXCEPT ![c] = new]
      /\ stop' = (IF new = 0 /\ kind \notin {"px", "ibkr"} THEN stop \ {c} ELSE stop)
      /\ odd' = {} => odd = {} /\ (kind = "ibkr" => c \in Flatten!Planned \ left)
      /\ kind # "ibkr" => new = 0
      /\ kind = "ibkr" => new = pos[c] + mkt[c]
  BY <1>1
<1> HIDE DEF new
<1>4. /\ pos \in Slots /\ mkt \in Slots
      /\ \A d \in Contract : pos'[d] = IF d = c THEN new ELSE pos[d]
      /\ \A d \in Contract : mkt'[d] = IF d = c THEN 0 ELSE mkt[d]
  BY <1>1, <1>3 DEF FlatHeld, FlatFlow, Slots
<1>5. FlatFlow'
  <2>1. pos' \in Slots /\ mkt' \in Slots
    BY <1>1, <1>3, <1>4 DEF Slots
  <2>2. step = "cancel" => odd' # {}
    BY <1>3, <1>4 DEF FlatHeld, FlatFlow
  <2>3. nth # 0
    BY <1>1 DEF FlatHeld, FlatFlow
  <2> QED BY <1>2, <1>3, <2>1, <2>2, <2>3 DEF FlatHeld, FlatFlow
<1>6. FlatStops'
  <2>1. nth # 0
    BY <1>1 DEF FlatHeld, FlatFlow
  <2> QED BY <1>2, <1>3, <1>4, <2>1 DEF FlatHeld, FlatStops
<1>7. FlatClean'
  <2> SUFFICES ASSUME odd' = {}, ~errors', one' = Flatten!All
               PROVE  /\ kind' = "px" /\ step' = "sweep" => Flatten!Open' = {} /\ keep' = {}
                      /\ kind' = "ibkr" /\ step' \in {"close", "recheck", "done"} => OrdersClose'
                      /\ kind' # "nt8" /\ step' = "done" => Flatten!Open' = {}
                      /\ kind' = "px" /\ step' = "done" => stop' = {}
    BY DEF FlatClean
  <2>1. odd = {} /\ ~errors /\ one = Flatten!All /\ FlatClean
    BY <1>2, <1>3 DEF FlatHeld
  <2>2. kind # "ibkr" => Flatten!Open' \subseteq Flatten!Open
    BY <1>3, <1>4
  <2>3. ASSUME kind = "ibkr", step \in {"close", "recheck", "done"}
        PROVE  OrdersClose' /\ Flatten!Open' \subseteq Flatten!Open
    <3>1. OrdersClose
      BY <1>2, <2>1, <2>3 DEF FlatClean
    <3>2. new = 0
      BY <1>1, <1>3, <1>4, <2>3, <3>1 DEF OrdersClose, Slots
    <3> QED BY <1>2, <1>3, <1>4, <2>3, <3>1, <3>2 DEF OrdersClose
  <2> QED BY <1>2, <1>3, <2>1, <2>2, <2>3 DEF FlatClean
<1> QED BY <1>5, <1>6, <1>7 DEF FlatHeld

LEMMA StopFiresStep ==
  ASSUME FlatHeld, Flatten!StopFires
  PROVE  FlatHeld'
<1> USE DEF Flatten!work, Flatten!Open, Flatten!Planned
<1>1. PICK c \in stop :
        /\ pos[c] >= 0 /\ pos' = [pos EXCEPT ![c] = @ - 1] /\ stop' = stop \ {c}
        /\ odd' = odd \union (IF pos[c] = 0 THEN {"orphan"} ELSE {})
                      \union (IF kind = "ibkr" /\ Flatten!Busy THEN {"raced"} ELSE {})
  BY DEF Flatten!StopFires
<1>2. UNCHANGED <<kind, listed, mkt, step, one, plan, left, failed, keep, twice, errors, nth>>
  BY DEF Flatten!StopFires
<1>3. odd' = {} => odd = {} /\ pos[c] # 0 /\ (kind = "ibkr" => step \in {"idle", "done"})
  BY <1>1 DEF Flatten!Busy
<1>4. /\ c \in Contract /\ pos \in Slots /\ pos[c] \in 0 .. 1
      /\ \A d \in Contract : pos'[d] = IF d = c THEN pos[c] - 1 ELSE pos[d]
  BY <1>1 DEF FlatHeld, FlatFlow, Slots
<1>5. FlatFlow'
  <2>1. pos' \in Slots
    BY <1>1, <1>4 DEF Slots
  <2> QED BY <1>1, <1>2, <1>3, <1>4, <2>1 DEF FlatHeld, FlatFlow
<1>6. FlatStops'
  BY <1>1, <1>2, <1>3, <1>4 DEF FlatHeld, FlatStops
<1>7. FlatClean'
  <2>1. kind = "ibkr" /\ OrdersClose => FALSE
    BY <1>1 DEF OrdersClose
  <2>2. odd' = {} => Flatten!Open' \subseteq Flatten!Open
    BY <1>3, <1>4
  <2> QED BY <1>1, <1>2, <1>3, <2>1, <2>2 DEF FlatHeld, FlatClean
<1> QED BY <1>5, <1>6, <1>7 DEF FlatHeld

LEMMA EntryFillsStep ==
  ASSUME FlatHeld, Flatten!EntryFills
  PROVE  FlatHeld'
<1> USE DEF Flatten!work, Flatten!Open
<1>1. PICK c \in Contract \ (Flatten!Open \union stop) :
        pos' = [pos EXCEPT ![c] = 1] /\ stop' = stop \union {c}
  BY DEF Flatten!EntryFills
<1>2. /\ UNCHANGED <<kind, listed, mkt, step, one, plan, left, failed, keep, twice, errors, nth>>
      /\ odd' # {} /\ step # "idle"
  BY DEF Flatten!EntryFills, Flatten!Busy
<1>3. pos' \in Slots /\ stop' \subseteq Contract
      /\ \A d \in Contract : pos'[d] = IF d = c THEN 1 ELSE pos[d]
  BY <1>1 DEF FlatHeld, FlatFlow, Slots
<1>4. FlatFlow'
  BY <1>2, <1>3 DEF FlatHeld, FlatFlow
<1>5. FlatStops'
  BY <1>1, <1>2, <1>3 DEF FlatHeld, FlatStops
<1>6. FlatClean'
  BY <1>2 DEF FlatClean
<1> QED BY <1>4, <1>5, <1>6 DEF FlatHeld

LEMMA BeginStep ==
  ASSUME FlatHeld, Flatten!Begin
  PROVE  FlatHeld'
<1> USE DEF Flatten!market, Flatten!Open, Flatten!Planned
<1>1. /\ nth' = nth + 1 /\ plan' = Flatten!None /\ left' = {} /\ keep' = {}
      /\ UNCHANGED <<kind, pos, stop, mkt, odd>>
      /\ step' = "plan" \/ (step' = "done" /\ errors')
      /\ one' # Flatten!All => kind = "ibkr" /\ one' \in Contract
  <2>1. \/ step' = "plan"
        \/ step' = "done" /\ errors' = TRUE
    BY DEF Flatten!Begin
  <2> QED BY <2>1 DEF Flatten!Begin
<1>2. FlatFlow'
  BY <1>1 DEF FlatHeld, FlatFlow, Flatten!None, Slots
<1>3. FlatStops'
  BY <1>1 DEF FlatHeld, FlatFlow, FlatStops
<1>4. FlatClean'
  BY <1>1 DEF FlatClean
<1> QED BY <1>2, <1>3, <1>4 DEF FlatHeld

LEMMA PlanStep ==
  ASSUME FlatHeld, Flatten!Plan
  PROVE  FlatHeld'
<1>1. UNCHANGED <<kind, pos, stop, mkt, one, keep, nth, odd>> /\ one = Flatten!All /\ step = "plan"
  BY DEF Flatten!Plan, Flatten!market
<1>2. CASE /\ plan' = pos /\ left' = Flatten!Open
           /\ step' = CASE kind = "ibkr" -> "cancel"
                        [] Flatten!Open = {} /\ kind \notin {"px", "nt8", "ibkr"} -> "done"
                        [] OTHER -> "close"
  <2>1. /\ kind = "ibkr" => step' = "cancel"
        /\ kind # "ibkr" => step' = "close" \/ (step' = "done" /\ Flatten!Open = {} /\ kind # "px")
    <3>1. ASSUME kind = "ibkr" PROVE step' = "cancel"
      BY <1>2, <3>1
    <3>2. ASSUME kind # "ibkr", Flatten!Open = {} /\ kind \notin {"px", "nt8", "ibkr"} PROVE step' = "done"
      BY <1>2, <3>2
    <3>3. ASSUME kind # "ibkr", ~(Flatten!Open = {} /\ kind \notin {"px", "nt8", "ibkr"})
          PROVE  step' = "close"
      BY <1>2, <3>3
    <3> QED BY <3>1, <3>2, <3>3
  <2> USE DEF Flatten!Open, Flatten!Planned
  <2>2. FlatFlow'
    BY <1>1, <1>2, <2>1 DEF FlatHeld, FlatFlow
  <2>3. FlatStops'
    BY <1>1, <1>2, <2>1 DEF FlatHeld, FlatStops
  <2>4. FlatClean'
    BY <1>1, <1>2, <2>1 DEF FlatClean
  <2> QED BY <2>2, <2>3, <2>4 DEF FlatHeld
<1>3. CASE errors' = TRUE /\ step' = "done" /\ UNCHANGED <<plan, left>>
  BY <1>1, <1>3 DEF FlatHeld, FlatFlow, FlatStops, FlatClean, Flatten!Open
<1> QED BY <1>2, <1>3 DEF Flatten!Plan

LEMMA CancelStep ==
  ASSUME FlatHeld, Flatten!IbCancel
  PROVE  FlatHeld'
<1> USE DEF Flatten!Open, Flatten!Planned
<1>1. /\ UNCHANGED <<kind, pos, one, plan, left, keep, nth, odd>> /\ step = "cancel"
      /\ kind = "ibkr" /\ step' = IF Flatten!Planned = {} THEN "done" ELSE "close"
      /\ odd = {} => left = Flatten!Open /\ plan = pos
  BY DEF Flatten!IbCancel, FlatHeld, FlatFlow
<1>2. nth # 0
  BY <1>1 DEF FlatHeld, FlatFlow
<1>3. CASE stop' = {} /\ mkt' = Flatten!None /\ UNCHANGED errors
  <2>1. \A c \in Contract : mkt'[c] = 0
    BY <1>3 DEF Flatten!None
  <2>2. FlatFlow'
    BY <1>1, <1>3, <2>1 DEF FlatHeld, FlatFlow, Flatten!None, Slots
  <2>3. FlatStops'
    BY <1>1, <1>2, <1>3 DEF FlatHeld, FlatStops
  <2>4. FlatClean'
    BY <1>1, <1>3, <2>1 DEF FlatHeld, FlatClean, OrdersClose
  <2> QED BY <2>2, <2>3, <2>4 DEF FlatHeld
<1>4. CASE errors' = TRUE /\ stop' \in SUBSET stop /\ UNCHANGED mkt
  BY <1>1, <1>2, <1>4 DEF FlatHeld, FlatFlow, FlatStops, FlatClean
<1> QED BY <1>3, <1>4 DEF Flatten!IbCancel

\* What is open is not touched by a request, only by its order.
LEMMA CloseStep ==
  ASSUME FlatHeld, Flatten!Close
  PROVE  FlatHeld'
<1> USE DEF Flatten!Open, Flatten!Planned
<1>1. /\ UNCHANGED <<kind, pos, stop, one, plan, nth, odd>> /\ step = "close" /\ one = Flatten!All
      /\ nth # 0 /\ pos \in Slots /\ mkt \in Slots /\ plan \in Slots
      /\ FlatFlow /\ FlatStops /\ FlatClean
  BY DEF Flatten!Close, FlatHeld, FlatFlow
<1>2. \A n \in -1 .. 1, c \in Contract : [mkt EXCEPT ![c] = n] \in Slots
  BY <1>1 DEF Slots
<1>3. \A c \in Contract : -pos[c] \in -1 .. 1 /\ -plan[c] \in -1 .. 1
  BY <1>1 DEF Slots
<1>4. ASSUME kind # "ibkr", mkt' \in Slots, left' \subseteq Contract,
             \/ step' = step
             \/ step' = "recheck"
             \/ step' = "done" /\ kind = "nt8"
      PROVE  FlatHeld'
  <2>1. FlatFlow'
    BY <1>1, <1>4 DEF FlatFlow
  <2>2. FlatStops'
    BY <1>1, <1>4 DEF FlatStops
  <2>3. FlatClean'
    BY <1>1, <1>4 DEF FlatClean
  <2> QED BY <2>1, <2>2, <2>3 DEF FlatHeld
<1>5. ASSUME NEW c \in left, Flatten!PxClose(c) PROVE FlatHeld'
  <2>1. /\ kind = "px" /\ step' = step /\ left' \subseteq left
        /\ mkt' \in {mkt, [mkt EXCEPT ![c] = -pos[c]]}
    BY <1>5 DEF Flatten!PxClose, Flatten!Taken, Flatten!Lost
  <2> QED BY <1>1, <1>2, <1>3, <1>4, <2>1 DEF FlatFlow
<1>6. ASSUME NEW c \in left, Flatten!OneClose(c) PROVE FlatHeld'
  <2>1. /\ kind \in {"tradovate", "bybit"} /\ step' = step /\ left' \subseteq left
        /\ mkt' \in {mkt, [mkt EXCEPT ![c] = -pos[c]]}
    BY <1>6 DEF Flatten!OneClose, Flatten!Taken, Flatten!Lost
  <2> QED BY <1>1, <1>2, <1>3, <1>4, <2>1 DEF FlatFlow
<1>7. ASSUME NEW c \in left, Flatten!IbOrder(c) PROVE FlatHeld'
  <2>1. /\ kind = "ibkr" /\ step' = step /\ left' = left \ {c} /\ c \in Contract
        /\ \/ mkt' = [mkt EXCEPT ![c] = -plan[c]] /\ UNCHANGED errors
           \/ mkt' \in {mkt, [mkt EXCEPT ![c] = -plan[c]]} /\ errors' = TRUE
    BY <1>1, <1>7 DEF Flatten!IbOrder, Flatten!Taken, Flatten!Lost, FlatFlow
  <2>2. mkt' \in Slots
    BY <1>1, <1>2, <1>3, <2>1
  <2>3. FlatFlow'
    BY <1>1, <2>1, <2>2 DEF FlatFlow
  <2>4. FlatStops'
    BY <1>1, <2>1 DEF FlatStops
  <2>5. FlatClean'
    <3> SUFFICES ASSUME odd' = {}, ~errors', OrdersClose PROVE OrdersClose'
      BY <1>1, <2>1 DEF FlatClean
    <3>1. mkt' = [mkt EXCEPT ![c] = -plan[c]]
      BY <2>1
    <3>2. \A d \in Contract : mkt'[d] = IF d = c THEN -plan[c] ELSE mkt[d]
      BY <1>1, <3>1 DEF Slots
    <3>3. \A d \in Contract : plan[d] \in -1 .. 1 /\ pos[d] \in -1 .. 1
      BY <1>1 DEF Slots
    <3> QED BY <1>1, <2>1, <3>2, <3>3 DEF OrdersClose
  <2> QED BY <2>3, <2>4, <2>5 DEF FlatHeld
<1>8. CASE Flatten!FlashClose \/ Flatten!AddOnClose
  <2> DEFINE all == [c \in Contract |-> -pos[c]]
  <2>1. all \in Slots
    BY <1>3 DEF Slots
  <2>2. /\ kind \in {"bitget", "nt8"} /\ left' = {} /\ mkt' \in {mkt, all}
        /\ step' = "recheck" \/ (step' = "done" /\ kind = "nt8")
    BY <1>8 DEF Flatten!FlashClose, Flatten!AddOnClose
  <2> HIDE DEF all
  <2> QED BY <1>1, <1>4, <2>1, <2>2
<1>9. CASE step' = "recheck" /\ UNCHANGED <<mkt, left, failed, keep, twice, errors>>
  <2>1. FlatFlow'
    BY <1>1, <1>9 DEF FlatFlow
  <2>2. FlatStops'
    BY <1>1, <1>9 DEF FlatStops
  <2>3. FlatClean'
    BY <1>1, <1>9 DEF FlatClean, OrdersClose
  <2> QED BY <2>1, <2>2, <2>3 DEF FlatHeld
<1> QED BY <1>5, <1>6, <1>7, <1>8, <1>9 DEF Flatten!Close

LEMMA RecheckStep ==
  ASSUME FlatHeld, Flatten!Recheck
  PROVE  FlatHeld'
<1> USE DEF Flatten!market, Flatten!Open, Flatten!Planned
<1>1. /\ UNCHANGED <<kind, pos, stop, mkt, one, plan, left, nth, odd>> /\ step = "recheck"
      /\ nth # 0 /\ FlatFlow /\ FlatStops /\ FlatClean
  BY DEF Flatten!Recheck, FlatHeld, FlatFlow
<1>2. CASE UNCHANGED <<step, keep, errors>>
  BY <1>1, <1>2 DEF FlatHeld, FlatFlow, FlatStops, FlatClean, OrdersClose
<1>3. ASSUME step' = (IF kind = "px" THEN "sweep" ELSE "done"),
             \/ keep' = Flatten!Open /\ (~errors' => ~errors /\ Flatten!Open = {})
             \/ keep' = Flatten!Planned /\ errors' = TRUE
      PROVE  FlatHeld'
  <2>1. FlatFlow'
    BY <1>1, <1>3 DEF FlatFlow
  <2>2. FlatStops'
    BY <1>1, <1>3 DEF FlatStops
  <2>3. FlatClean'
    BY <1>1, <1>3 DEF FlatClean, OrdersClose
  <2> QED BY <2>1, <2>2, <2>3 DEF FlatHeld
<1>4. (errors' = (errors \/ Flatten!Open # {})) => (~errors' => ~errors /\ Flatten!Open = {})
  BY Zenon
<1> QED BY <1>2, <1>3, <1>4 DEF Flatten!Recheck, Flatten!Keep

LEMMA SweepStep ==
  ASSUME FlatHeld, Flatten!Sweep
  PROVE  FlatHeld'
<1> USE DEF Flatten!Open, Flatten!Planned
<1>1. /\ UNCHANGED <<kind, pos, mkt, one, plan, left, keep, nth, odd>>
      /\ step = "sweep" /\ step' = "done" /\ kind = "px"
      /\ nth # 0 /\ FlatFlow /\ FlatStops /\ FlatClean
  BY DEF Flatten!Sweep, FlatHeld, FlatFlow
<1>2. /\ stop \intersect keep \subseteq stop' /\ stop' \subseteq stop
      /\ \/ stop' = stop \intersect keep /\ UNCHANGED errors
         \/ errors' = TRUE
  BY DEF Flatten!Sweep
<1>3. FlatFlow'
  BY <1>1, <1>2 DEF FlatFlow
<1>4. FlatStops'
  BY <1>1, <1>2 DEF FlatStops
<1>5. FlatClean'
  BY <1>1, <1>2 DEF FlatClean
<1> QED BY <1>3, <1>4, <1>5 DEF FlatHeld

LEMMA CloseOneStep ==
  ASSUME FlatHeld, Flatten!CloseOne
  PROVE  FlatHeld'
<1> USE DEF Flatten!Open, Flatten!Planned
<1>1. /\ UNCHANGED <<kind, pos, one, left, keep, nth, odd>>
      /\ one # Flatten!All /\ kind = "ibkr" /\ one \in Contract
      /\ nth # 0 /\ FlatFlow /\ FlatStops /\ FlatClean
      /\ step \in {"plan", "confirm"} /\ step' \in {"confirm", "done"} /\ stop' \subseteq stop
  BY DEF Flatten!CloseOne, FlatHeld, FlatFlow
<1>2. /\ mkt' \in {mkt, [mkt EXCEPT ![one] = -pos[one]]}
      /\ plan' \in {plan, [Flatten!None EXCEPT ![one] = pos[one]]}
  BY DEF Flatten!CloseOne
<1>3. mkt' \in Slots /\ plan' \in Slots
  BY <1>1, <1>2 DEF FlatFlow, Slots, Flatten!None
<1>4. FlatFlow'
  BY <1>1, <1>3 DEF FlatFlow
<1>5. FlatStops'
  BY <1>1 DEF FlatStops
<1>6. FlatClean'
  BY <1>1 DEF FlatClean
<1> QED BY <1>4, <1>5, <1>6 DEF FlatHeld

LEMMA FlatStep ==
  ASSUME FlatHeld, [Flatten!Next]_(Flatten!vars)
  PROVE  FlatHeld'
<1>1. CASE UNCHANGED Flatten!vars
  BY <1>1 DEF Flatten!vars, Flatten!market, Flatten!work, FlatHeld, FlatFlow, FlatStops,
              FlatClean, OrdersClose, Flatten!Open, Flatten!Planned
<1> QED
  BY <1>1, FillStep, StopFiresStep, EntryFillsStep, BeginStep, PlanStep, CancelStep, CloseStep,
     RecheckStep, SweepStep, CloseOneStep
  DEF Flatten!Next

LEMMA FlatSteps ==
  ASSUME scene = "flatten", [MCNext]_allvars
  PROVE  [Flatten!Next]_(Flatten!vars)
<1>1. CASE MCNext
  BY <1>1 DEF MCNext, Arming
<1>2. CASE UNCHANGED allvars
  BY <1>2 DEF allvars, flattenOwn, shared, Flatten!vars, Flatten!market, Flatten!work
<1> QED BY <1>1, <1>2

LEMMA FlattenAlways == MCSpec => []FlattenInv
<1>1. MCInit => FlattenInv
  BY FlatInit DEF MCInit, FlattenInv
<1>2. FlattenInv /\ [MCNext]_allvars => FlattenInv'
  BY SameScene, FlatSteps, FlatStep DEF FlattenInv
<1> QED BY <1>1, <1>2, PTL DEF MCSpec

\* A flatten_all that returns without an error leaves no position and no stop
\* at the broker, whatever fills, fails or is retried while it goes on.
THEOREM FlattenedIsFlat == MCSpec => []FlatIsFlat
<1>1. FlattenInv => FlatIsFlat
  <2> SUFFICES ASSUME FlatHeld, step = "done", one = Flatten!All, ~errors, odd = {}, kind # "nt8"
               PROVE  Flatten!Open = {} /\ stop = {}
    BY DEF FlattenInv, FlatIsFlat, Flatten!FlatIsFlat
  <2> QED BY DEF FlatHeld, FlatStops, FlatClean, OrdersClose
<1> QED BY <1>1, FlattenAlways, PTL

\* A position keeps its stop until it is seen flat; IBKR's flatten_all takes
\* the stops first and reports a position that stays.
THEOREM StopsOutlast == MCSpec => []OpenKeepsStop
<1>1. FlattenInv => OpenKeepsStop
  <2> SUFFICES ASSUME FlatHeld, odd = {}, NEW c \in Contract, pos[c] = 1, c \notin stop
               PROVE  kind = "ibkr" /\ nth > 0 /\ (step = "done" => errors \/ one # Flatten!All)
    BY DEF FlattenInv, OpenKeepsStop, Flatten!OpenKeepsStop
  <2>1. kind = "ibkr" /\ nth # 0
    BY DEF FlatHeld, FlatStops
  <2>2. nth > 0
    BY <2>1 DEF FlatHeld, FlatFlow
  <2>3. step = "done" /\ one = Flatten!All => errors
    BY <2>1 DEF FlatHeld, FlatClean, Flatten!Open
  <2> QED BY <2>1, <2>2, <2>3
<1> QED BY <1>1, FlattenAlways, PTL

-----------------------------------------------------------------------------
(* PassTp. *)

\* A closing order is for an open contract, and at NT8 a stop is too.  Until
\* something odd happens every open contract has its stop, and one that was
\* read and has not been seen closed is in the last reading.
PassOrders ==
  /\ sent \subseteq pos
  /\ kind = "nt8" => stop \subseteq pos
  /\ odd = {} => pos \subseteq stop
  /\ odd = {} /\ step \in {"send", "confirm"} => pos \intersect poss \subseteq left

\* A close that was announced is over, and nothing that is not odd comes after.
PassOver ==
  done => /\ step = "idle"
          /\ odd \intersect {"entry", "parked"} = {} => pos = {}
          /\ odd = {} => stop = {}
          /\ "parked" \notin odd => armed # "on"

PassHeld == kind \in {"px", "nt8"} /\ PassOrders /\ PassOver

PassInv == scene = "pass" => PassHeld

LEMMA PassInit ==
  ASSUME Pass!Init
  PROVE  PassHeld
  BY DEF Pass!Init, PassHeld, PassOrders, PassOver

\* Orders, stops and entries at the broker.
LEMMA PassMarket ==
  ASSUME PassHeld, Pass!Fill \/ Pass!StopFires \/ Pass!EntryFills
  PROVE  PassHeld'
<1> USE DEF Pass!scan
<1>1. ASSUME UNCHANGED <<kind, armed, entering, step, poss, todo, left, tries, begun, done, odd>>,
             NEW l, pos' = pos \ {l}, sent' = sent \ {l},
             stop' = stop \ {l} \/ (kind = "px" /\ stop' = stop)
      PROVE  PassHeld'
  <2>1. PassOrders'
    BY <1>1 DEF PassHeld, PassOrders
  <2>2. PassOver'
    BY <1>1 DEF PassHeld, PassOver
  <2> QED BY <1>1, <2>1, <2>2 DEF PassHeld
<1>2. CASE Pass!Fill
  BY <1>1, <1>2 DEF Pass!Fill, PassHeld
<1>3. CASE Pass!StopFires
  BY <1>1, <1>3 DEF Pass!StopFires
<1>4. CASE Pass!EntryFills
  <2>1. PICK l \in Contract \ (pos \union stop \union sent) :
          pos' = pos \union {l} /\ stop' = stop \union {l}
    BY <1>4 DEF Pass!EntryFills
  <2>2. /\ UNCHANGED <<kind, sent, armed, step, poss, left, done>>
        /\ odd \subseteq odd' /\ (step \notin {"idle", "judge"} \/ done => "entry" \in odd')
        /\ odd' # odd => "entry" \in odd'
    BY <1>4 DEF Pass!EntryFills
  <2>3. PassOrders'
    BY <2>1, <2>2 DEF PassHeld, PassOrders
  <2>4. PassOver'
    BY <2>1, <2>2 DEF PassHeld, PassOver
  <2> QED BY <2>2, <2>3, <2>4 DEF PassHeld
<1> QED BY <1>2, <1>3, <1>4

LEMMA PassScan ==
  ASSUME PassHeld,
         Pass!ScanBegins \/ Pass!Judge \/ Pass!List \/ Pass!SendClose \/ Pass!Confirm \/ Pass!NotFlat
  PROVE  PassHeld'
<1> USE DEF Pass!account
<1>1. /\ UNCHANGED <<kind, armed, done, odd, pos>> /\ ~done
      /\ sent' \subseteq sent \union pos
  BY DEF Pass!ScanBegins, Pass!Judge, Pass!List, Pass!SendClose, Pass!Confirm, Pass!NotFlat,
         PassHeld, PassOver
<1>2. PassOver'
  BY <1>1 DEF PassOver
<1>3. CASE Pass!ScanBegins \/ Pass!Judge
  <2>1. step' \notin {"send", "confirm"} /\ UNCHANGED <<sent, stop>>
    BY <1>3 DEF Pass!ScanBegins, Pass!Judge, PassHeld
  <2> QED BY <1>1, <1>2, <2>1 DEF PassHeld, PassOrders
<1>4. CASE Pass!List
  <2>1. left' = poss' /\ UNCHANGED <<sent, stop>>
    BY <1>4 DEF Pass!List
  <2> QED BY <1>1, <1>2, <2>1 DEF PassHeld, PassOrders
<1>5. CASE Pass!SendClose
  <2>1. step = "send" /\ UNCHANGED <<stop, poss, left>>
    BY <1>5 DEF Pass!SendClose
  <2> QED BY <1>1, <1>2, <2>1 DEF PassHeld, PassOrders
<1>6. CASE Pass!Confirm
  <2>1. step = "confirm" /\ UNCHANGED <<step, sent, stop, poss>> /\ left' \in {left, pos}
    BY <1>6 DEF Pass!Confirm
  <2> QED BY <1>1, <1>2, <2>1 DEF PassHeld, PassOrders
<1>7. CASE Pass!NotFlat
  <2>1. /\ step = "confirm" /\ step' = "idle" /\ UNCHANGED <<sent, poss, left>>
        /\ stop \ (poss \ left) \subseteq stop' /\ stop' \subseteq stop
    BY <1>7 DEF Pass!NotFlat, Pass!Orphans
  <2> QED BY <1>1, <1>2, <2>1 DEF PassHeld, PassOrders
<1> QED BY <1>3, <1>4, <1>5, <1>6, <1>7

LEMMA PassFlat ==
  ASSUME PassHeld, Pass!Flat
  PROVE  PassHeld'
<1>1. /\ pos = {} /\ step' = "idle" /\ UNCHANGED <<kind, pos, sent>> /\ armed' # "on"
      /\ odd \subseteq odd' /\ stop' \subseteq stop
      /\ odd' = {} => (kind = "px" /\ stop' = {}) \/ (kind = "nt8" /\ stop' = stop)
  BY DEF Pass!Flat, Pass!Off, PassHeld
<1>2. PassOrders'
  BY <1>1 DEF PassHeld, PassOrders
<1>3. PassOver'
  BY <1>1 DEF PassHeld, PassOrders, PassOver
<1> QED BY <1>1, <1>2, <1>3 DEF PassHeld

LEMMA PassStep ==
  ASSUME PassHeld, [Pass!Next]_(Pass!vars)
  PROVE  PassHeld'
<1>1. CASE UNCHANGED Pass!vars
  BY <1>1 DEF PassHeld, PassOrders, PassOver, Pass!vars, Pass!account, Pass!scan
<1>2. CASE Pass!SignalComes \/ Pass!Outage \/ Pass!Resume
  <2>1. /\ UNCHANGED <<kind, pos, stop, sent, step, poss, left, done>>
        /\ \/ UNCHANGED <<armed, odd>>
           \/ armed' = "parked" /\ UNCHANGED odd
           \/ odd' = IF done THEN odd \union {"parked"} ELSE odd
    BY <1>2 DEF Pass!SignalComes, Pass!Outage, Pass!Resume, Pass!account, Pass!scan
  <2>2. PassOrders' /\ PassOver'
    BY <2>1 DEF PassHeld, PassOrders, PassOver
  <2> QED BY <2>1, <2>2 DEF PassHeld
<1> QED BY <1>1, <1>2, PassMarket, PassScan, PassFlat DEF Pass!Next

LEMMA PassSteps ==
  ASSUME scene = "pass", [MCNext]_allvars
  PROVE  [Pass!Next]_(Pass!vars)
<1>1. CASE MCNext
  BY <1>1 DEF MCNext, Arming
<1>2. CASE UNCHANGED allvars
  BY <1>2 DEF allvars, passOwn, shared, Pass!vars, Pass!account, Pass!scan
<1> QED BY <1>1, <1>2

LEMMA PassAlways == MCSpec => []PassInv
<1>1. MCInit => PassInv
  BY PassInit DEF MCInit, PassInv
<1>2. PassInv /\ [MCNext]_allvars => PassInv'
  BY SameScene, PassSteps, PassStep DEF PassInv
<1> QED BY <1>1, <1>2, PTL DEF MCSpec

\* What the take-profit announced as closed is closed: no position, no closing
\* order and no stop is left, and the row does not enter again.
THEOREM AnnouncedIsClosed == MCSpec => []PassIsClosed
<1>1. PassInv => PassIsClosed
  BY DEF PassInv, PassHeld, PassOrders, PassOver, PassIsClosed, Pass!DoneIsDone
<1> QED BY <1>1, PassAlways, PTL

\* Until an account is seen flat, an open contract keeps its stop.
THEOREM PassStopsOutlast == MCSpec => []PassKeepsStop
<1>1. PassInv => PassKeepsStop
  BY DEF PassInv, PassHeld, PassOrders, PassKeepsStop, Pass!OpenKeepsStop
<1> QED BY <1>1, PassAlways, PTL

-----------------------------------------------------------------------------
(* Secrets. *)

Values == [Secret!Secret -> Nat]

SecretTyped ==
  /\ kc \in Values /\ mem \in Values /\ blob \in Values /\ exported \in Values
  /\ want \in Values /\ count \in Values /\ next.blob \in Values
  /\ step \in {"run", "down"} => busy = {}
  /\ locked => dropped = {}

\* A key the member removed is nowhere, once the file is written.
GoneKey(s) ==
  /\ kc[s] = 0 /\ mem[s] = 0
  /\ blob[s] = 0 \/ (step \in {"save", "write"} /\ s \in busy /\ s \in dropped /\ ~locked)
  /\ step = "write" => next.blob[s] = 0

\* A key the member has is on disk, or in the change that is going on; what
\* is about to be written has it; and the app has it, or did not get the PIN
\* and said so.
HeldKey(s) ==
  /\ s \notin busy => kc[s] # 0 \/ blob[s] # 0 \/ s \in failed
  /\ step = "write" => kc[s] # 0 \/ next.blob[s] # 0 \/ (s \in next.failed /\ mem[s] # 0)
  /\ step # "down" =>
       \/ mem[s] # 0
       \/ s = "f2" /\ kc[s] # 0
       \/ locked /\ s \in told /\ blob[s] # 0 /\ kc[s] = 0

SecretHeld ==
  /\ SecretTyped
  /\ \A s \in Secret!Secret \ odd : IF want[s] = 0 THEN GoneKey(s) ELSE HeldKey(s)

SecretInv == scene = "secret" => SecretHeld

LEMMA EmptyKeys ==
  /\ Secret!Empty \in Values /\ Secret!NoNext.blob = Secret!Empty
  /\ \A s \in Secret!Secret : Secret!Empty[s] = 0
  BY DEF Values, Secret!Empty, Secret!NoNext

LEMMA SecretInit ==
  ASSUME Secret!Init
  PROVE  SecretHeld
  BY EmptyKeys DEF Secret!Init, SecretHeld, SecretTyped, GoneKey

\* The start reads the store and opens the blob, or says what it has not.
LEMMA SecretStart ==
  ASSUME SecretHeld, Secret!Start
  PROVE  SecretHeld'
<1> USE DEF Secret!stored
<1>1. /\ step = "down" /\ step' = "run" /\ dropped' = {} /\ busy = {}
      /\ UNCHANGED <<store, kc, blob, failed, exported, next, busy, want, count>>
      /\ SecretTyped
  BY DEF Secret!Start, SecretHeld, SecretTyped
<1>2. odd' = odd \union failed
              \union (IF Secret!Reads THEN {}
                      ELSE (Secret!Some(kc) \ Secret!Some(mem')) \ {"f2"})
  BY DEF Secret!Start
<1>3. \A s \in Secret!Secret : Secret!Read(s) = IF Secret!Reads THEN kc[s] ELSE 0
  BY DEF Secret!Read
<1>4. \/ /\ \A s \in Secret!Secret :
              mem'[s] = IF blob[s] # 0 /\ (s = "f2" \/ Secret!Read(s) = 0) THEN blob[s]
                        ELSE IF s = "f2" THEN 0 ELSE Secret!Read(s)
         /\ mem' \in Values
      \/ /\ \A s \in Secret!Secret : mem'[s] = IF s = "field" THEN Secret!Read(s) ELSE 0
         /\ locked' = (Secret!Some(blob) # {}) /\ told' = failed \union Secret!Some(blob)
         /\ mem' \in Values
  <2>1. \A s \in Secret!Secret : Secret!Read(s) \in Nat /\ blob[s] \in Nat
    BY <1>1, <1>3 DEF SecretTyped, Values
  <2>2. CASE mem' = Secret!Restored
    BY <2>1, <2>2 DEF Secret!Restored, Values
  <2>3. CASE mem' = [Secret!Empty EXCEPT !["field"] = Secret!Read("field")]
    <3>1. /\ \A s \in Secret!Secret : mem'[s] = IF s = "field" THEN Secret!Read(s) ELSE 0
          /\ mem' \in Values
      BY <2>1, <2>3 DEF Secret!Empty, Values, Secret!Secret
    <3>2. CASE mem' = Secret!Restored
      BY <2>2, <3>2
    <3> QED BY <3>1, <3>2 DEF Secret!Start
  <2> QED BY <2>2, <2>3 DEF Secret!Start
<1>5. SecretTyped'
  BY <1>1, <1>4 DEF SecretTyped
<1>6. ASSUME NEW s \in Secret!Secret \ odd' PROVE IF want[s] = 0 THEN GoneKey(s)' ELSE HeldKey(s)'
  <2>1. /\ s \notin odd /\ s \notin failed
        /\ ~Secret!Reads /\ kc[s] # 0 => s = "f2" \/ mem'[s] # 0
    BY <1>2 DEF Secret!Some
  <2>2. CASE want[s] = 0
    <3>1. kc[s] = 0 /\ blob[s] = 0
      BY <1>1, <2>1, <2>2 DEF SecretHeld, GoneKey
    <3> QED BY <1>1, <1>3, <1>4, <2>2, <3>1 DEF GoneKey, Secret!Secret
  <2>3. CASE want[s] # 0
    <3>1. kc[s] # 0 \/ blob[s] # 0
      BY <1>1, <2>1, <2>3 DEF SecretHeld, HeldKey
    <3>2. \/ mem'[s] # 0
          \/ s = "f2" /\ kc[s] # 0
          \/ locked' /\ s \in told' /\ blob[s] # 0 /\ kc[s] = 0
      <4>1. blob[s] # 0 => s \in Secret!Some(blob)
        BY DEF Secret!Some
      <4> QED BY <1>3, <1>4, <2>1, <3>1, <4>1 DEF Secret!Secret
    <3> QED BY <1>1, <2>3, <3>1, <3>2 DEF HeldKey
  <2> QED BY <2>2, <2>3
<1> QED BY <1>1, <1>5, <1>6 DEF SecretHeld

\* A new value is in memory, or in the store that takes and gives it.
LEMMA SecretEnter ==
  ASSUME SecretHeld, NEW k \in Secret!Secret, Secret!Enter(k)
  PROVE  SecretHeld'
<1> DEFINE v == count[k] + 1
<1>1. /\ step = "run" /\ step' = "save" /\ busy' = {k} /\ busy = {} /\ odd' = odd \ {k}
      /\ UNCHANGED <<store, blob, failed, locked, dropped, told, exported, next>>
      /\ SecretTyped
  BY DEF Secret!Enter, SecretHeld, SecretTyped
<1>2. count' = [count EXCEPT ![k] = @ + 1] /\ v \in Nat \ {0} /\ count' \in Values /\ count'[k] = v
  BY <1>1 DEF Secret!Enter, SecretTyped, Values
<1>3. /\ want' = [want EXCEPT ![k] = v]
      /\ mem' = [mem EXCEPT ![k] = IF k = "f2" /\ store = "open" THEN 0 ELSE v]
      /\ kc' = IF k = "f2" /\ Secret!Writes THEN [kc EXCEPT ![k] = v] ELSE kc
  BY <1>2 DEF Secret!Enter, Secret!KeepNow
<1> HIDE DEF v
<1>4. /\ want' \in Values /\ want'[k] # 0
      /\ \A s \in Secret!Secret \ {k} : want'[s] = want[s]
  BY <1>1, <1>2, <1>3 DEF SecretTyped, Values
<1>5. /\ mem' \in Values /\ (k # "f2" \/ store # "open" => mem'[k] = v)
      /\ \A s \in Secret!Secret \ {k} : mem'[s] = mem[s]
  BY <1>1, <1>2, <1>3 DEF SecretTyped, Values
<1>6. /\ kc' \in Values /\ (k = "f2" /\ store = "open" => kc'[k] = v)
      /\ \A s \in Secret!Secret \ {k} : kc'[s] = kc[s]
  <2>1. CASE k = "f2" /\ Secret!Writes
    BY <1>1, <1>2, <1>3, <2>1 DEF SecretTyped, Values
  <2>2. CASE ~(k = "f2" /\ Secret!Writes)
    BY <1>1, <1>3, <2>2 DEF SecretTyped, Secret!Writes
  <2> QED BY <2>1, <2>2
<1>7. SecretTyped'
  BY <1>1, <1>2, <1>4, <1>5, <1>6 DEF SecretTyped
<1>8. HeldKey(k)'
  BY <1>1, <1>2, <1>5, <1>6 DEF HeldKey
<1>9. ASSUME NEW s \in Secret!Secret \ odd', s # k
      PROVE  IF want[s] = 0 THEN GoneKey(s)' ELSE HeldKey(s)'
  BY <1>1, <1>5, <1>6, <1>9 DEF SecretHeld, GoneKey, HeldKey
<1> QED BY <1>4, <1>7, <1>8, <1>9 DEF SecretHeld

LEMMA SecretClear ==
  ASSUME SecretHeld, NEW k \in Secret!Secret, Secret!Clear(k)
  PROVE  SecretHeld'
<1>1. /\ step = "run" /\ step' = "save" /\ busy' = {k} /\ busy = {} /\ ~locked
      /\ odd' = (IF kc'[k] = 0 THEN odd ELSE odd \union {k}) /\ dropped' = dropped \union {k}
      /\ UNCHANGED <<store, blob, failed, locked, told, exported, next, count>>
      /\ SecretTyped
  BY DEF Secret!Clear, SecretHeld, SecretTyped
<1>2. /\ want' = [want EXCEPT ![k] = 0] /\ mem' = [mem EXCEPT ![k] = 0]
      /\ kc' = [s \in Secret!Secret |-> IF s \in {k} /\ Secret!Writes THEN 0 ELSE kc[s]]
  BY DEF Secret!Clear, Secret!Deleted
<1>3. /\ want' \in Values /\ mem' \in Values /\ kc' \in Values
      /\ want'[k] = 0 /\ mem'[k] = 0
      /\ \A s \in Secret!Secret \ {k} : want'[s] = want[s] /\ mem'[s] = mem[s] /\ kc'[s] = kc[s]
  BY <1>1, <1>2 DEF SecretTyped, Values
<1>4. SecretTyped'
  BY <1>1, <1>3 DEF SecretTyped
<1>5. k \notin odd' => GoneKey(k)'
  BY <1>1, <1>3 DEF GoneKey
<1>6. ASSUME NEW s \in Secret!Secret \ odd', s # k
      PROVE  IF want[s] = 0 THEN GoneKey(s)' ELSE HeldKey(s)'
  BY <1>1, <1>3, <1>6 DEF SecretHeld, GoneKey, HeldKey
<1> QED BY <1>3, <1>4, <1>5, <1>6 DEF SecretHeld

LEMMA SecretWipe ==
  ASSUME SecretHeld, Secret!Wipe
  PROVE  SecretHeld'
<1>1. /\ step = "run" /\ step' = step /\ mem' = Secret!Empty /\ want' = Secret!Empty
      /\ odd' = odd \union Secret!Some(kc') \union Secret!Some(blob)
      /\ kc' = [s \in Secret!Secret |-> IF s \in Secret!Secret /\ Secret!Writes THEN 0 ELSE kc[s]]
      /\ UNCHANGED <<store, blob, failed, locked, dropped, told, exported, next, busy, count>>
      /\ SecretTyped
  BY DEF Secret!Wipe, Secret!Deleted, SecretHeld
<1>2. kc' \in Values
  BY <1>1 DEF SecretTyped, Values
<1>3. SecretTyped'
  BY <1>1, <1>2, EmptyKeys DEF SecretTyped
<1>4. ASSUME NEW s \in Secret!Secret \ odd' PROVE want'[s] = 0 /\ GoneKey(s)'
  BY <1>1, <1>4, EmptyKeys DEF GoneKey, Secret!Some
<1> QED BY <1>3, <1>4 DEF SecretHeld

LEMMA SecretImport ==
  ASSUME SecretHeld, Secret!Import
  PROVE  SecretHeld'
<1>1. /\ step = "run" /\ step' = "save" /\ busy' = Secret!Secret /\ want' = exported
      /\ odd' = odd \union (Secret!Secret \ Secret!Some(exported))
      /\ UNCHANGED <<store, blob, failed, locked, dropped, told, exported, next, count>>
      /\ SecretTyped
  BY DEF Secret!Import, SecretHeld
<1>2. /\ mem' = [s \in Secret!Secret |->
           IF s = "field" THEN exported[s]
           ELSE IF exported[s] = 0 THEN mem[s] ELSE IF store = "open" THEN 0 ELSE exported[s]]
      /\ kc' = IF Secret!Writes /\ exported["f2"] # 0
               THEN [kc EXCEPT !["f2"] = exported["f2"]] ELSE kc
  BY DEF Secret!Import
<1>3. mem' \in Values /\ \A s \in Secret!Secret :
        mem'[s] = IF s = "field" THEN exported[s]
                  ELSE IF exported[s] = 0 THEN mem[s] ELSE IF store = "open" THEN 0 ELSE exported[s]
  BY <1>1, <1>2 DEF SecretTyped, Values
<1>4. kc' \in Values /\ (store = "open" /\ exported["f2"] # 0 => kc'["f2"] = exported["f2"])
  BY <1>1, <1>2 DEF SecretTyped, Values, Secret!Writes, Secret!Secret
<1>5. SecretTyped'
  BY <1>1, <1>3, <1>4 DEF SecretTyped
<1>6. ASSUME NEW s \in Secret!Secret \ odd' PROVE want'[s] # 0 /\ HeldKey(s)'
  <2>1. exported[s] # 0
    BY <1>1 DEF Secret!Some
  <2> QED BY <1>1, <1>3, <1>4, <2>1 DEF HeldKey, Secret!Secret
<1> QED BY <1>5, <1>6 DEF SecretHeld

\* Every key that is on disk or in memory is in what is about to be written.
LEMMA SecretSave ==
  ASSUME SecretHeld, Secret!SaveKeys
  PROVE  SecretHeld'
<1> DEFINE old == IF locked THEN failed ELSE {}
           kept == IF locked THEN blob ELSE Secret!Empty
<1>1. /\ step = "save" /\ step' = "write"
      /\ UNCHANGED <<store, blob, failed, locked, dropped, exported, busy, want, count, odd>>
      /\ SecretTyped
  BY DEF Secret!SaveKeys, Secret!history, SecretHeld
<1>2. /\ kc' = [s \in Secret!Secret |-> IF Secret!Writes /\ mem[s] # 0 THEN mem[s] ELSE kc[s]]
      /\ mem' = IF store = "open" THEN [mem EXCEPT !["f2"] = 0] ELSE mem
      /\ told \subseteq told'
  BY DEF Secret!SaveKeys
<1>3. kc' \in Values /\ \A s \in Secret!Secret :
        /\ kc'[s] = IF Secret!Writes /\ mem[s] # 0 THEN mem[s] ELSE kc[s]
        /\ kc[s] # 0 => kc'[s] # 0
  BY <1>1, <1>2 DEF SecretTyped, Values
<1>4. mem' \in Values /\ \A s \in Secret!Secret :
        mem'[s] = IF store = "open" /\ s = "f2" THEN 0 ELSE mem[s]
  BY <1>1, <1>2 DEF SecretTyped, Values
<1>5. kept \in Values /\ \A s \in Secret!Secret : kept[s] = IF locked THEN blob[s] ELSE 0
  BY <1>1, EmptyKeys DEF SecretTyped
<1> DEFINE merged == [s \in Secret!Secret |->
                        IF s \in Secret!Refused THEN mem[s] ELSE Secret!Carried[s]]
<1>6. \A s \in Secret!Secret :
        /\ Secret!Carried[s] = IF Secret!InMemory(s) \/ s \in dropped THEN 0 ELSE blob[s]
        /\ Secret!InMemory(s) => mem[s] # 0 \/ (s = "f2" /\ kc[s] # 0)
  <2>1. \A s \in Secret!Secret : Secret!Read(s) # 0 => kc[s] # 0
    BY DEF Secret!Read
  <2> QED BY <2>1 DEF Secret!Carried, Secret!InMemory, Secret!Used
<1>7. merged \in Values /\ \A s \in Secret!Secret :
        /\ s \in Secret!Refused => merged[s] = mem[s]
        /\ s \notin Secret!Refused =>
             merged[s] = IF Secret!InMemory(s) \/ s \in dropped THEN 0 ELSE blob[s]
  BY <1>1, <1>6 DEF SecretTyped, Values
<1>8. \/ /\ Secret!Refused = {} /\ next' = [blob |-> kept, failed |-> old]
      \/ /\ Secret!Refused # {} /\ next' = [blob |-> merged, failed |-> {}]
      \/ /\ next' = [blob |-> kept, failed |-> old \union Secret!Refused]
         /\ Secret!Refused # {}
  BY DEF Secret!SaveKeys
<1> HIDE DEF kept, merged
<1>9. \/ next'.blob = kept /\ (Secret!Refused = {} \/ Secret!Refused \subseteq next'.failed)
      \/ next'.blob = merged
  BY <1>8
<1>10. SecretTyped'
  BY <1>1, <1>3, <1>4, <1>5, <1>7, <1>9 DEF SecretTyped
<1>11. \A s \in Secret!Secret : s \in Secret!Refused <=> store # "open" /\ mem[s] # 0
  BY DEF Secret!Refused, Secret!Some
<1>12. ASSUME NEW s \in Secret!Secret \ odd PROVE IF want[s] = 0 THEN GoneKey(s)' ELSE HeldKey(s)'
  <2>1. CASE want[s] = 0
    <3>1. /\ kc[s] = 0 /\ mem[s] = 0
          /\ blob[s] = 0 \/ (s \in busy /\ s \in dropped /\ ~locked)
      BY <2>1 DEF SecretHeld, GoneKey
    <3>2. kept[s] = 0 /\ merged[s] = 0
      BY <1>5, <1>7, <1>11, <3>1
    <3> QED BY <1>1, <1>3, <1>4, <1>9, <2>1, <3>1, <3>2 DEF GoneKey
  <2>2. CASE want[s] # 0
    <3>1. /\ s \notin busy => kc[s] # 0 \/ blob[s] # 0 \/ s \in failed
          /\ \/ mem[s] # 0
             \/ s = "f2" /\ kc[s] # 0
             \/ locked /\ s \in told /\ blob[s] # 0 /\ kc[s] = 0
      BY <1>1, <2>2 DEF SecretHeld, HeldKey
    <3>2. \/ mem'[s] # 0
          \/ s = "f2" /\ kc'[s] # 0
          \/ locked /\ s \in told' /\ blob[s] # 0 /\ kc'[s] = 0 /\ mem[s] = 0
      BY <1>2, <1>3, <1>4, <3>1 DEF Secret!Writes
    <3>3. CASE kc'[s] # 0
      BY <1>1, <1>3, <2>2, <3>1, <3>2, <3>3 DEF HeldKey
    <3>4. CASE kc'[s] = 0
      <4>1. kc[s] = 0 /\ (mem[s] # 0 => s \in Secret!Refused /\ mem'[s] # 0)
        BY <1>3, <1>4, <1>11, <3>4 DEF Secret!Writes
      <4>2. mem[s] = 0 => locked /\ blob[s] # 0 /\ s \notin dropped
        BY <1>1, <3>1, <4>1 DEF SecretTyped
      <4>3. next'.blob[s] # 0 \/ (s \in next'.failed /\ mem'[s] # 0)
        BY <1>5, <1>6, <1>7, <1>9, <1>11, <4>1, <4>2
      <4> QED BY <1>1, <1>3, <2>2, <3>1, <3>2, <3>4, <4>3 DEF HeldKey
    <3> QED BY <3>3, <3>4
  <2> QED BY <2>1, <2>2
<1> QED BY <1>1, <1>10, <1>12 DEF SecretHeld

LEMMA SecretWrite ==
  ASSUME SecretHeld, Secret!Write
  PROVE  SecretHeld'
<1>1. /\ step = "write" /\ step' = "run" /\ next' = Secret!NoNext /\ busy' = {}
      /\ UNCHANGED <<store, kc, mem, locked, dropped, told, exported, want, count>>
      /\ SecretTyped
  BY DEF Secret!Write, Secret!session, SecretHeld
<1>2. CASE blob' = next.blob /\ failed' = next.failed /\ UNCHANGED odd
  <2>1. SecretTyped'
    BY <1>1, <1>2, EmptyKeys DEF SecretTyped
  <2>2. ASSUME NEW s \in Secret!Secret \ odd PROVE IF want[s] = 0 THEN GoneKey(s)' ELSE HeldKey(s)'
    BY <1>1, <1>2, <2>2 DEF SecretHeld, GoneKey, HeldKey
  <2> QED BY <1>1, <1>2, <2>1, <2>2 DEF SecretHeld
<1>3. CASE odd' = odd \union busy \union Secret!Refused /\ UNCHANGED <<blob, failed>>
  <2>1. SecretTyped'
    BY <1>1, <1>3, EmptyKeys DEF SecretTyped
  <2>2. ASSUME NEW s \in Secret!Secret \ odd'
        PROVE  IF want[s] = 0 THEN GoneKey(s)' ELSE HeldKey(s)'
    BY <1>1, <1>3, <2>2 DEF SecretHeld, GoneKey, HeldKey
  <2> QED BY <1>1, <2>1, <2>2 DEF SecretHeld
<1> QED BY <1>2, <1>3 DEF Secret!Write

\* What was in memory only is excused when the app stops in a change.
LEMMA SecretStop ==
  ASSUME SecretHeld, Secret!Stop
  PROVE  SecretHeld'
<1>1. /\ step # "down" /\ step' = "down" /\ mem' = Secret!Empty /\ locked' = FALSE
      /\ dropped' = {} /\ next' = Secret!NoNext /\ busy' = {}
      /\ UNCHANGED <<store, kc, blob, failed, exported, want, count>>
      /\ odd \subseteq odd' /\ (step # "run" => busy \subseteq odd')
      /\ SecretTyped
  BY DEF Secret!Stop, Secret!stored, SecretHeld
<1>2. SecretTyped'
  BY <1>1, EmptyKeys DEF SecretTyped
<1>3. ASSUME NEW s \in Secret!Secret \ odd' PROVE IF want[s] = 0 THEN GoneKey(s)' ELSE HeldKey(s)'
  <2>1. s \notin odd /\ s \notin busy
    BY <1>1 DEF SecretTyped
  <2> QED BY <1>1, <2>1, EmptyKeys DEF SecretHeld, SecretTyped, GoneKey, HeldKey
<1> QED BY <1>1, <1>2, <1>3 DEF SecretHeld

LEMMA SecretStep ==
  ASSUME SecretHeld, [Secret!Next]_(Secret!vars)
  PROVE  SecretHeld'
<1> USE DEF Secret!stored, Secret!session, Secret!history
<1>1. ASSUME UNCHANGED <<kc, mem, blob, failed, locked, dropped, told, next, want, count, busy, odd>>,
             step' = step \/ (step = "run" /\ step' = "save"), exported' \in Values
      PROVE  SecretHeld'
  BY <1>1 DEF SecretHeld, SecretTyped, GoneKey, HeldKey
<1>2. exported \in Values
  BY DEF SecretHeld, SecretTyped
<1>3. CASE Secret!Export
  <2>1. \A s \in Secret!Secret : Secret!Used(s) \in Nat
    BY DEF SecretHeld, SecretTyped, Values, Secret!Used, Secret!Read
  <2>2. exported' = [s \in Secret!Secret |-> Secret!Used(s)]
    BY <1>3 DEF Secret!Export
  <2>3. exported' \in Values
    BY <2>1, <2>2 DEF Values
  <2> QED BY <1>1, <1>3, <2>3 DEF Secret!Export
<1>4. CASE Secret!Save \/ Secret!StoreChanges \/ UNCHANGED Secret!vars
  BY <1>1, <1>2, <1>4 DEF Secret!Save, Secret!StoreChanges, Secret!vars
<1> QED
  BY <1>3, <1>4, SecretStart, SecretEnter, SecretClear, SecretWipe, SecretImport, SecretSave,
     SecretWrite, SecretStop
  DEF Secret!Next

LEMMA SecretSteps ==
  ASSUME scene = "secret", [MCNext]_allvars
  PROVE  [Secret!Next]_(Secret!vars)
<1>1. CASE MCNext
  BY <1>1 DEF MCNext, Arming
<1>2. CASE UNCHANGED allvars
  BY <1>2 DEF allvars, secretOwn, shared, Secret!vars, Secret!stored, Secret!session,
              Secret!history
<1> QED BY <1>1, <1>2

\* A key the member saved is there or the member was told to enter it again,
\* and a key that was removed is gone (_save_full, _enc_unlock_startup),
\* through starts, stops and a secret store that takes or gives nothing.
THEOREM KeysKept == MCSpec => []SecretKept
<1>1. MCInit => SecretInv
  BY SecretInit DEF MCInit, SecretInv
<1>2. SecretInv /\ [MCNext]_allvars => SecretInv'
  BY SameScene, SecretSteps, SecretStep DEF SecretInv
<1>3. SecretInv => SecretKept
  <2> SUFFICES ASSUME SecretHeld, step = "run", Secret!Reads, NEW s \in Secret!Secret \ odd
               PROVE  IF want[s] # 0 THEN Secret!Used(s) # 0 \/ s \in told ELSE Secret!Used(s) = 0
    BY DEF SecretInv, SecretKept, Secret!SecretKept
  <2> QED BY DEF SecretHeld, GoneKey, HeldKey, Secret!Used, Secret!Read
<1> QED BY <1>1, <1>2, <1>3, PTL DEF MCSpec

-----------------------------------------------------------------------------
(* Types. *)

LEMMA CutoffStep == Inv /\ [MCNext]_allvars => Inv'
<1>1. [MCNext]_allvars => [Next]_vars
  BY DEF MCNext, Arming, allvars
<1> QED BY <1>1, TypeNext, OnceNext DEF Inv

\* The marks that MarksHeld leaves open.
MarkTypes == marked \subseteq Writer /\ raced \subseteq Writer

LEMMA MarkTypesStep ==
  ASSUME MarkTypes, [Record!Next]_(Record!vars)
  PROVE  MarkTypes'
<1>1. marked' \subseteq marked \union Writer /\ raced' \subseteq raced \union Writer
  BY DEF MarkTypes, Record!Cut, Record!Next, Record!Read, Record!PutAside, Record!GoBack, Record!Append, Record!Copy,
         Record!Swap, Record!Direct, Record!Enters, Record!Mark, Record!Send, Record!Crash,
         Record!vars, Record!entry
<1> QED BY <1>1 DEF MarkTypes

LEMMA RecordTypes ==
  ASSUME LedgerTyped, MarksHeld, MarkTypes
  PROVE  Record!TypeOK
<1> USE DEF LedgerTyped, Record!Row
<1>1. MaxRec \in Nat /\ count \in 0 .. MaxRec /\ 1 .. count \subseteq 1 .. MaxRec
      /\ 0 .. count \subseteq 0 .. MaxRec
  BY PartsAssumption DEF RecordFlow
<1>2. main \in Record!File /\ bak \in Record!File
  BY <1>1 DEF RecordFiles, LedgerFiles, Record!File
<1>3. /\ copies \subseteq 0 .. MaxRec /\ reset \in 0 .. MaxRec
      /\ mem \in [Record!Thread -> SUBSET (1 .. MaxRec)]
  BY <1>1 DEF RecordFiles, RecordTimes
<1>4. /\ lock \in Record!Thread \union {Record!None} /\ step \in [Record!Thread -> Record!Steps]
      /\ own \in [Writer -> 0 .. MaxRec] /\ faults \in 0 .. MaxFault
      /\ \A t \in Record!Thread :
           step[t] \in {"broken", "back", "append", "copy", "swap", "direct"} <=> lock = t
  BY DEF RecordFlow, Locking
<1>5. /\ trades \subseteq 1 .. count /\ seen \subseteq 1 .. MaxRec /\ wrong \subseteq trades
      /\ excused \subseteq 1 .. MaxRec
  BY <1>1 DEF RecordRows, Owed
<1>6. /\ entered \subseteq Writer /\ marks \in [Writer -> SUBSET Writer]
      /\ marked \subseteq Writer /\ raced \subseteq Writer
  BY DEF MarksHeld, MarkTypes
<1> QED BY <1>1, <1>2, <1>3, <1>4, <1>5, <1>6 DEF Record!TypeOK

\* A report is in the file, or in the hands of whoever works on it, only
\* after it was put in the file.
ReportKnown ==
  /\ made \in 0 .. MaxReport /\ faults \in 0 .. ReportFaults
  /\ posted \subseteq 1 .. made /\ waiting \subseteq 1 .. made
  /\ over \subseteq waiting /\ raced \subseteq waiting
  /\ \A r \in Report!Report : Report!Holds(r) => r \in waiting
  /\ queue \in Seq(waiting) /\ copy \in [Report!Report -> Seq(waiting)]
  /\ todo \in [Ticks -> Seq(waiting)] /\ keep \in [Ticks -> Seq(waiting)]

LEMMA ReportKnownStep ==
  ASSUME ReportTyped, ReportKnown, Report!Next
  PROVE  ReportKnown'
<1> USE DEF ReportKnown, Report!file
<1>0. /\ MaxReport \in Nat /\ ReportFaults \in Nat /\ MaxQueue \in Nat \ {0}
      /\ <<>> \in Seq(waiting) /\ Report!Report = 1 .. MaxReport
  BY PartsAssumption DEF Report!Report
<1> DEFINE once == faults < ReportFaults /\ faults' = faults + 1
<1>1. faults' \in 0 .. ReportFaults
  <2>1. faults' = faults \/ once
    BY DEF Report!Next, Report!Fills, Report!Crash, Report!Post, Report!Load, Report!Store,
       Report!Write, Report!TickBegins, Report!TickPosts, Report!TickStores, Report!TickWrites,
       Report!Fails, Report!Never
  <2> QED BY <1>0, <2>1
<1> HIDE DEF once
<1>2. CASE Report!Fills
  <2>1. made' \in 0 .. MaxReport /\ 1 .. made \subseteq 1 .. made'
    BY <1>0, <1>2 DEF Report!Fills
  <2>2. \A r \in Report!Report : Report!Holds(r)' => Report!Holds(r)
    BY <1>0, <1>2 DEF Report!Fills, Report!Holds, ReportTyped
  <2> QED BY <1>1, <1>2, <2>1, <2>2 DEF Report!Fills
<1>3. CASE Report!Crash
  <2>1. over' \subseteq waiting /\ \A r \in Report!Report : ~Report!Holds(r)'
    BY <1>0, <1>3 DEF Report!Crash, Report!Holds
  <2> QED BY <1>0, <1>1, <1>3, <2>1 DEF Report!Crash
<1>4. ASSUME NEW r \in Report!Report, Report!Post(r) PROVE ReportKnown'
  <2>1. r \in 1 .. made
    BY <1>0, <1>4 DEF Report!Post, ReportTyped
  <2>2. posted' \subseteq posted \union {r} /\ \A x \in Report!Report : Report!Holds(x)' => Report!Holds(x)
    BY <1>4 DEF Report!Post, Report!Taken, Report!Holds, ReportTyped
  <2> QED BY <1>1, <1>4, <2>1, <2>2 DEF Report!Post
<1>5. ASSUME NEW r \in Report!Report, Report!Load(r) PROVE ReportKnown'
  <2>1. r \in 1 .. made /\ waiting' = waiting \union {r}
    BY <1>0, <1>5 DEF Report!Load, ReportTyped
  <2>2. \A s \in Seq(waiting) : s \in Seq(waiting')
    <3>1. waiting \subseteq waiting'
      BY <2>1
    <3> QED BY <3>1, SeqMonotonic
  <2>3. \A x \in Report!Report : Report!Holds(x)' => x \in waiting'
    BY <1>5, <2>1 DEF Report!Load, Report!Holds, ReportTyped
  <2>4. copy' = [copy EXCEPT ![r] = queue] /\ UNCHANGED <<queue, todo, keep, made, posted, over>>
    BY <1>5 DEF Report!Load
  <2>5. /\ queue' \in Seq(waiting') /\ copy' \in [Report!Report -> Seq(waiting')]
        /\ todo' \in [Ticks -> Seq(waiting')] /\ keep' \in [Ticks -> Seq(waiting')]
    BY <2>2, <2>4
  <2>6. raced' \subseteq waiting'
    BY <1>5, <2>1 DEF Report!Load
  <2> QED BY <1>1, <2>1, <2>3, <2>4, <2>5, <2>6
<1>6. ASSUME NEW r \in Report!Report, Report!Store(r) PROVE ReportKnown'
  <2>1. \A x \in Report!Report : Report!Holds(x)' => Report!Holds(x)
    BY <1>6 DEF Report!Store, Report!Holds, ReportTyped
  <2>2. r \in waiting
    BY <1>6 DEF Report!Store, Report!Holds
  <2>3. /\ queue' = <<>> \/ queue' = queue
        /\ copy' = copy \/ copy' = [copy EXCEPT ![r] = <<>>]
        /\ over' = over \/ over' = over \union {r}
        /\ UNCHANGED <<made, todo, keep, posted, waiting, raced>>
    BY <1>6 DEF Report!Store
  <2>4. queue' \in Seq(waiting) /\ copy' \in [Report!Report -> Seq(waiting)]
    BY <1>0, <2>3
  <2> QED BY <1>1, <2>1, <2>2, <2>3, <2>4
<1>7. ASSUME NEW r \in Report!Report, Report!Write(r) PROVE ReportKnown'
  <2> DEFINE q == Report!Queued(copy[r], r)
  <2>1. r \in waiting /\ \A x \in Report!Report : Report!Holds(x)' => Report!Holds(x)
    BY <1>7 DEF Report!Write, Report!Holds, ReportTyped
  <2>2. q \in Seq(waiting)
    <3>1. copy[r] \in Seq(waiting) /\ Len(copy[r]) <= MaxQueue
      BY DEF ReportTyped
    <3> QED BY <1>0, <2>1, <3>1, QueuedSet
  <2>3. Len(copy[r]) < MaxQueue \/ copy[r][1] \in waiting
    <3>1. copy[r] \in Seq(waiting)
      OBVIOUS
    <3> QED BY <1>0, <3>1
  <2>4. Report!ToSet(copy[r]) \subseteq waiting
    <3>1. copy[r] \in Seq(waiting)
      OBVIOUS
    <3> QED BY <3>1, SeqElements
  <2> HIDE DEF q
  <2>5. /\ queue' = q \/ queue' = <<>>
        /\ copy' = [copy EXCEPT ![r] = <<>>] /\ over' \subseteq waiting
    BY <1>7, <2>1, <2>3, <2>4 DEF Report!Write, q
  <2> QED BY <1>0, <1>1, <1>7, <2>1, <2>2, <2>5 DEF Report!Write
<1>8. ASSUME NEW k \in Ticks, Report!TickBegins(k) PROVE ReportKnown'
  BY <1>1, <1>8 DEF Report!TickBegins, Report!Holds
<1>9. ASSUME NEW k \in Ticks, Report!TickPosts(k) PROVE ReportKnown'
  <2>1. todo[k] # <<>> /\ todo' = [todo EXCEPT ![k] = Tail(@)]
    BY <1>9 DEF Report!TickPosts
  <2>2. Tail(todo[k]) \in Seq(waiting) /\ Head(todo[k]) \in waiting
    <3>1. todo[k] \in Seq(waiting)
      OBVIOUS
    <3> QED BY <2>1, <3>1, TailSet
  <2>3. keep' = keep \/ keep' = [keep EXCEPT ![k] = Append(@, Head(todo[k]))]
    BY <1>9 DEF Report!TickPosts, Report!Refused
  <2>4. Append(keep[k], Head(todo[k])) \in Seq(waiting)
    <3>1. keep[k] \in Seq(waiting)
      OBVIOUS
    <3> QED BY <2>2, <3>1, AppendSet
  <2>5. todo' \in [Ticks -> Seq(waiting)] /\ keep' \in [Ticks -> Seq(waiting)]
    BY <2>1, <2>2, <2>3, <2>4
  <2>6. posted' \subseteq posted \union {Head(todo[k])} /\ over' \subseteq over \union {Head(todo[k])}
        /\ UNCHANGED <<made, step, copy, queue, waiting, raced>>
    BY <1>9 DEF Report!TickPosts, Report!Taken
  <2> QED BY <1>1, <2>2, <2>5, <2>6 DEF Report!Holds
<1>10. ASSUME NEW k \in Ticks, Report!TickStores(k) PROVE ReportKnown'
  <2>1. /\ \/ queue' = <<>> /\ keep' = keep
           \/ queue' = queue /\ keep' = [keep EXCEPT ![k] = <<>>]
        /\ UNCHANGED <<made, step, copy, todo, posted, waiting, over, raced>>
    BY <1>10 DEF Report!TickStores
  <2>2. queue' \in Seq(waiting) /\ keep' \in [Ticks -> Seq(waiting)]
    BY <1>0, <2>1
  <2> QED BY <1>1, <2>1, <2>2 DEF Report!Holds
<1>11. ASSUME NEW k \in Ticks, Report!TickWrites(k) PROVE ReportKnown'
  <2>1. keep[k] \in Seq(waiting)
    OBVIOUS
  <2>2. Report!ToSet(keep[k]) \subseteq waiting
    BY <2>1, SeqElements
  <2>3. /\ queue' = keep[k] \/ queue' = <<>>
        /\ keep' = [keep EXCEPT ![k] = <<>>] /\ over' \subseteq over \union Report!ToSet(keep[k])
        /\ UNCHANGED <<made, step, copy, todo, posted, waiting, raced>>
    BY <1>11 DEF Report!TickWrites
  <2>4. queue' \in Seq(waiting) /\ keep' \in [Ticks -> Seq(waiting)]
    BY <1>0, <2>1, <2>3
  <2> QED BY <1>1, <2>2, <2>3, <2>4 DEF Report!Holds
<1> QED BY <1>2, <1>3, <1>4, <1>5, <1>6, <1>7, <1>8, <1>9, <1>10, <1>11 DEF Report!Next

LEMMA ReportTypes ==
  ASSUME ReportTyped, ReportKnown
  PROVE  Report!TypeOK
<1>1. \A q \in Seq(Report!Report) : Len(q) <= MaxQueue => q \in Report!Queues
  <2> SUFFICES ASSUME NEW q \in Seq(Report!Report), Len(q) <= MaxQueue PROVE q \in Report!Queues
    OBVIOUS
  <2>1. Len(q) \in 0 .. MaxQueue /\ q \in [1 .. Len(q) -> Report!Report]
    BY PartsAssumption
  <2> QED BY <2>1 DEF Report!Queues
<1>2. \A k \in Ticks : Len(todo[k]) <= MaxQueue /\ Len(keep[k]) <= MaxQueue
  <2> SUFFICES ASSUME NEW k \in Ticks PROVE Len(todo[k]) <= MaxQueue /\ Len(keep[k]) <= MaxQueue
    OBVIOUS
  <2>1. todo[k] \in Seq(Report!Report) /\ keep[k] \in Seq(Report!Report)
        /\ Len(todo[k]) + Len(keep[k]) <= MaxQueue
    BY DEF ReportTyped
  <2>2. Len(todo[k]) \in Nat /\ Len(keep[k]) \in Nat /\ MaxQueue \in Nat
    BY <2>1, PartsAssumption
  <2>3. \A a, b, c \in Nat : a + b <= c => a <= c /\ b <= c
    OBVIOUS
  <2> QED BY <2>1, <2>2, <2>3, Zenon
<1>3. /\ copy \in [Report!Report -> Report!Queues] /\ queue \in Report!Queues
      /\ todo \in [Ticks -> Report!Queues] /\ keep \in [Ticks -> Report!Queues]
  BY <1>1, <1>2 DEF ReportTyped
<1> QED BY <1>3 DEF ReportTyped, ReportKnown, Report!TypeOK

LEMMA SecretKinds ==
  /\ \A f : Secret!Some(f) \subseteq Secret!Secret
  /\ 0 \in Secret!Value /\ Secret!Empty \in [Secret!Secret -> Secret!Value]
  /\ Secret!NoNext \in [blob : [Secret!Secret -> Secret!Value], failed : SUBSET Secret!Secret]
  /\ "field" \in Secret!Secret /\ "f2" \in Secret!Secret
<1>1. 0 \in Secret!Value
  BY PartsAssumption DEF Secret!Value
<1> QED BY <1>1 DEF Secret!Some, Secret!Empty, Secret!NoNext, Secret!Secret

\* The flags of a step are truth values.
LEMMA SecretFlags ==
  ASSUME Secret!TypeOK, Secret!Next
  PROVE  pin' \in BOOLEAN /\ locked' \in BOOLEAN
<1> USE DEF Secret!stored, Secret!session, Secret!history
<1>0. pin \in BOOLEAN /\ locked \in BOOLEAN
  BY Zenon DEF Secret!TypeOK
<1>1. pin' = pin \/ pin' = TRUE \/ pin' = FALSE
  BY DEF Secret!Next, Secret!Start, Secret!Wipe, Secret!Export, Secret!Import, Secret!Save,
         Secret!SaveKeys, Secret!Write, Secret!StoreChanges, Secret!Stop, Secret!Enter,
         Secret!Clear
<1>2. locked' = locked \/ locked' = (Secret!Some(blob) # {}) \/ locked' = FALSE
  BY DEF Secret!Next, Secret!Start, Secret!Wipe, Secret!Export, Secret!Import, Secret!Save,
         Secret!SaveKeys, Secret!Write, Secret!StoreChanges, Secret!Stop, Secret!Enter,
         Secret!Clear
<1>3. (Secret!Some(blob) # {}) \in BOOLEAN
  BY Zenon
<1> QED BY <1>0, <1>1, <1>2, <1>3, Zenon

LEMMA SecretTypesStep ==
  ASSUME Secret!TypeOK, [Secret!Next]_(Secret!vars)
  PROVE  Secret!TypeOK'
<1> DEFINE Kept == [Secret!Secret -> Secret!Value]
<1> USE SecretKinds DEF Secret!stored, Secret!session, Secret!history
<1>0. /\ store \in Stores /\ kc \in Kept /\ mem \in Kept /\ blob \in Kept
      /\ exported \in Kept /\ want \in Kept /\ count \in Kept
      /\ failed \subseteq Secret!Secret /\ dropped \subseteq Secret!Secret
      /\ told \subseteq Secret!Secret /\ busy \subseteq Secret!Secret /\ odd \subseteq Secret!Secret
      /\ step \in {"down", "run", "save", "write"}
      /\ next.blob \in Kept /\ next.failed \subseteq Secret!Secret
      /\ faults \in 0 .. SecretFaults
  BY DEF Secret!TypeOK
<1>1. ASSUME store' \in Stores, kc' \in Kept, mem' \in Kept, blob' \in Kept, exported' \in Kept,
             want' \in Kept, count' \in Kept, failed' \subseteq Secret!Secret,
             dropped' \subseteq Secret!Secret, told' \subseteq Secret!Secret,
             busy' \subseteq Secret!Secret, odd' \subseteq Secret!Secret,
             step' \in {"down", "run", "save", "write"},
             next' \in [blob : Kept, failed : SUBSET Secret!Secret], faults' \in 0 .. SecretFaults,
             Secret!Next
      PROVE  Secret!TypeOK'
  <2>1. pin' \in BOOLEAN /\ locked' \in BOOLEAN
    BY <1>1, SecretFlags
  <2> QED BY <1>1, <2>1, Zenon DEF Secret!TypeOK
<1>n. next \in [blob : Kept, failed : SUBSET Secret!Secret]
  BY DEF Secret!TypeOK
<1>f. faults' = faults \/ Secret!Fails => faults' \in 0 .. SecretFaults
  BY <1>0, PartsAssumption DEF Secret!Fails
<1>r. \A s \in Secret!Secret : Secret!Read(s) \in Secret!Value /\ Secret!Used(s) \in Secret!Value
  BY <1>0 DEF Secret!Read, Secret!Used
<1>o. Secret!Refused \subseteq Secret!Secret
  BY DEF Secret!Refused
<1>2. CASE Secret!Start
  <2>1. mem' \in Kept
    <3>1. Secret!Restored \in Kept
      BY <1>0, <1>r DEF Secret!Restored
    <3>2. [Secret!Empty EXCEPT !["field"] = Secret!Read("field")] \in Kept
      BY <1>r
    <3> QED BY <1>2, <3>1, <3>2 DEF Secret!Start
  <2>2. /\ UNCHANGED <<store, kc, blob, failed, exported, next, busy, want, count, faults>>
        /\ step' = "run" /\ dropped' = {} /\ told' \subseteq Secret!Secret
        /\ odd' \subseteq Secret!Secret
    BY <1>0, <1>2 DEF Secret!Start
  <2> QED BY <1>0, <1>n, <1>1, <1>2, <2>1, <2>2 DEF Secret!Next
<1>3. ASSUME NEW s \in Secret!Secret, Secret!Enter(s) PROVE Secret!TypeOK'
  <2>1. count' = [count EXCEPT ![s] = @ + 1] /\ count[s] + 1 \in Secret!Value
    BY <1>0, <1>3, PartsAssumption DEF Secret!Enter, Secret!Value
  <2>2. count' \in Kept /\ count'[s] \in Secret!Value
    BY <1>0, <2>1
  <2>3. want' \in Kept
    BY <1>0, <1>3, <2>2 DEF Secret!Enter
  <2>4. mem' \in Kept /\ kc' \in Kept
    BY <1>0, <1>3, <2>2 DEF Secret!Enter, Secret!KeepNow
  <2>5. /\ UNCHANGED <<store, blob, failed, dropped, told, exported, next, faults>>
        /\ step' = "save" /\ busy' = {s} /\ odd' \subseteq Secret!Secret
    BY <1>0, <1>3 DEF Secret!Enter
  <2> QED BY <1>0, <1>n, <1>1, <1>3, <2>2, <2>3, <2>4, <2>5 DEF Secret!Next
<1>4. ASSUME NEW s \in Secret!Secret, Secret!Clear(s) PROVE Secret!TypeOK'
  <2>1. mem' \in Kept /\ kc' \in Kept /\ want' \in Kept
    BY <1>0, <1>4 DEF Secret!Clear, Secret!Deleted
  <2>2. /\ UNCHANGED <<store, blob, failed, told, exported, next, count, faults>>
        /\ step' = "save" /\ busy' = {s} /\ odd' \subseteq Secret!Secret
        /\ dropped' \subseteq Secret!Secret
    BY <1>0, <1>4 DEF Secret!Clear
  <2> QED BY <1>0, <1>n, <1>1, <1>4, <2>1, <2>2 DEF Secret!Next
<1>5. CASE Secret!Wipe
  <2>1. kc' \in Kept
    BY <1>0, <1>5 DEF Secret!Wipe, Secret!Deleted
  <2>2. /\ UNCHANGED <<store, blob, failed, dropped, told, exported, step, next, busy, count, faults>>
        /\ mem' \in Kept /\ want' \in Kept /\ odd' \subseteq Secret!Secret
    BY <1>0, <1>5 DEF Secret!Wipe
  <2> QED BY <1>0, <1>n, <1>1, <1>5, <2>1, <2>2 DEF Secret!Next
<1>6. CASE Secret!Export
  <2>1. exported' \in Kept
    BY <1>r, <1>6 DEF Secret!Export
  <2>2. UNCHANGED <<store, kc, blob, failed, mem, dropped, told, step, next, busy, want, count, odd,
                    faults>>
    BY <1>6 DEF Secret!Export
  <2> QED BY <1>0, <1>n, <1>1, <1>6, <2>1, <2>2 DEF Secret!Next
<1>7. CASE Secret!Import
  <2>1. mem' \in Kept /\ kc' \in Kept
    BY <1>0, <1>7 DEF Secret!Import
  <2>2. /\ UNCHANGED <<store, blob, failed, dropped, told, exported, next, count, faults>>
        /\ want' = exported /\ odd' \subseteq Secret!Secret /\ step' = "save"
        /\ busy' = Secret!Secret
    BY <1>0, <1>7 DEF Secret!Import
  <2> QED BY <1>0, <1>n, <1>1, <1>7, <2>1, <2>2 DEF Secret!Next
<1>8. CASE Secret!Save
  BY <1>0, <1>n, <1>1, <1>8 DEF Secret!Save, Secret!Next
<1>9. CASE Secret!SaveKeys
  <2>1. kc' \in Kept /\ mem' \in Kept
    BY <1>0, <1>9 DEF Secret!SaveKeys
  <2>2. next' \in [blob : Kept, failed : SUBSET Secret!Secret] /\ told' \subseteq Secret!Secret
    <3> DEFINE old == IF locked THEN failed ELSE {}
               kept == IF locked THEN blob ELSE Secret!Empty
               merged == [s \in Secret!Secret |->
                            IF s \in Secret!Refused THEN mem[s] ELSE Secret!Carried[s]]
    <3>1. old \subseteq Secret!Secret /\ kept \in Kept
      BY <1>0
    <3>2. merged \in Kept
      BY <1>0 DEF Secret!Carried
    <3>3. \/ next' = [blob |-> kept, failed |-> old] /\ told' = told
          \/ next' = [blob |-> merged, failed |-> {}] /\ told' = told
          \/ /\ next' = [blob |-> kept, failed |-> old \union Secret!Refused]
             /\ told' = told \union Secret!Refused
      BY <1>9 DEF Secret!SaveKeys
    <3> HIDE DEF old, kept, merged
    <3> QED BY <1>0, <1>o, <3>1, <3>2, <3>3
  <2>3. /\ UNCHANGED <<store, blob, failed, dropped, exported, busy, want, count, odd, faults>>
        /\ step' = "write"
    BY <1>9 DEF Secret!SaveKeys
  <2> QED BY <1>0, <1>1, <1>9, <2>1, <2>2, <2>3 DEF Secret!Next
<1>10. CASE Secret!Write
  <2>1. /\ UNCHANGED <<store, kc, mem, dropped, told, exported, want, count>>
        /\ step' = "run" /\ next' = Secret!NoNext /\ busy' = {}
        /\ (faults' = faults \/ Secret!Fails)
        /\ blob' \in {blob, next.blob} /\ failed' \in {failed, next.failed}
        /\ odd' \subseteq odd \union busy \union Secret!Refused
    BY <1>10 DEF Secret!Write, Secret!Never
  <2> QED BY <1>0, <1>1, <1>f, <1>o, <1>10, <2>1 DEF Secret!Next
<1>11. CASE Secret!StoreChanges
  BY <1>0, <1>n, <1>1, <1>11 DEF Secret!StoreChanges, Secret!Next
<1>12. CASE Secret!Stop
  <2>1. /\ UNCHANGED <<store, kc, blob, failed, exported, want, count>>
        /\ step' = "down" /\ next' = Secret!NoNext /\ busy' = {} /\ mem' = Secret!Empty
        /\ dropped' = {} /\ told' = {} /\ (faults' = faults \/ Secret!Fails)
        /\ odd' \subseteq Secret!Secret
    BY <1>0, <1>12 DEF Secret!Stop, Secret!Never
  <2> QED BY <1>0, <1>1, <1>f, <1>12, <2>1 DEF Secret!Next
<1>13. CASE UNCHANGED Secret!vars
  BY <1>13, Zenon DEF Secret!vars, Secret!TypeOK
<1> QED BY <1>2, <1>3, <1>4, <1>5, <1>6, <1>7, <1>8, <1>9, <1>10, <1>11, <1>12, <1>13
        DEF Secret!Next

\* What FlatFlow leaves open: the closes that are left, and those that failed,
\* are of the positions read first.
FlatKnown ==
  /\ kind \in Kinds /\ listed \in BOOLEAN /\ twice \in BOOLEAN /\ errors \in BOOLEAN
  /\ step \in {"idle", "plan", "cancel", "close", "confirm", "recheck", "sweep", "done"}
  /\ one \in Contract \union {Flatten!All}
  /\ left \subseteq Flatten!Planned /\ failed \subseteq Flatten!Planned
  /\ step = "plan" => left = {} /\ failed = {}
  /\ keep \subseteq Contract
  /\ nth \in 0 .. MaxCall /\ odd \subseteq {"raced", "orphan", "entry"}
  /\ faults \in 0 .. MaxFault

\* The flags of a step are truth values.
LEMMA FlatFlags ==
  ASSUME FlatKnown, Flatten!Next
  PROVE  listed' \in BOOLEAN /\ twice' \in BOOLEAN /\ errors' \in BOOLEAN
<1> USE DEF Flatten!work, Flatten!market
<1>0. listed \in BOOLEAN /\ twice \in BOOLEAN /\ errors \in BOOLEAN
  BY Zenon DEF FlatKnown
<1>1. listed' = listed
  BY DEF Flatten!Next, Flatten!Fill, Flatten!StopFires, Flatten!EntryFills, Flatten!Begin,
         Flatten!Plan, Flatten!IbCancel, Flatten!Close, Flatten!Recheck, Flatten!Sweep,
         Flatten!CloseOne
<1>2. twice' = twice \/ twice' = TRUE \/ twice' = FALSE
  BY DEF Flatten!Next, Flatten!Fill, Flatten!StopFires, Flatten!EntryFills, Flatten!Begin,
         Flatten!Plan, Flatten!IbCancel, Flatten!Close, Flatten!Recheck, Flatten!Sweep,
         Flatten!CloseOne, Flatten!PxClose, Flatten!OneClose, Flatten!IbOrder,
         Flatten!FlashClose, Flatten!AddOnClose
<1>3. errors' = errors \/ errors' = TRUE \/ errors' = FALSE
      \/ errors' = (errors \/ Flatten!Open # {})
  BY DEF Flatten!Next, Flatten!Fill, Flatten!StopFires, Flatten!EntryFills, Flatten!Begin,
         Flatten!Plan, Flatten!IbCancel, Flatten!Close, Flatten!Recheck, Flatten!Sweep,
         Flatten!CloseOne, Flatten!PxClose, Flatten!OneClose, Flatten!IbOrder,
         Flatten!FlashClose, Flatten!AddOnClose
<1> QED BY <1>0, <1>1, <1>2, <1>3, Zenon

LEMMA FlatKnownStep ==
  ASSUME FlatFlow, FlatKnown, Flatten!Next
  PROVE  FlatKnown'
<1> USE DEF Flatten!work, Flatten!market
<1> DEFINE Stages == {"idle", "plan", "cancel", "close", "confirm", "recheck", "sweep", "done"}
<1>0. /\ kind \in Kinds /\ step \in Stages /\ one \in Contract \union {Flatten!All}
      /\ left \subseteq Flatten!Planned /\ failed \subseteq Flatten!Planned
      /\ (step = "plan" => left = {} /\ failed = {})
      /\ keep \subseteq Contract /\ odd \subseteq {"raced", "orphan", "entry"}
  BY DEF FlatKnown
<1>1. /\ kind' = kind /\ (faults' = faults \/ (\E f \in Fault : Flatten!Fails(f)))
  BY DEF Flatten!Next, Flatten!Fill, Flatten!StopFires, Flatten!EntryFills, Flatten!Begin,
         Flatten!Plan, Flatten!IbCancel, Flatten!Close, Flatten!Recheck, Flatten!Sweep,
         Flatten!CloseOne, Flatten!PxClose, Flatten!OneClose, Flatten!IbOrder,
         Flatten!FlashClose, Flatten!AddOnClose, Flatten!Taken, Flatten!Lost, Flatten!Never,
         Flatten!Fails
<1>2. faults' \in 0 .. MaxFault
  BY <1>1, PartsAssumption DEF FlatKnown, Flatten!Fails
<1>3. nth' \in 0 .. MaxCall
  <2>1. nth' = nth \/ (nth < MaxCall /\ nth' = nth + 1)
    BY DEF Flatten!Next, Flatten!Fill, Flatten!StopFires, Flatten!EntryFills, Flatten!Begin,
           Flatten!Plan, Flatten!IbCancel, Flatten!Close, Flatten!Recheck, Flatten!Sweep,
           Flatten!CloseOne
  <2> QED BY <2>1, PartsAssumption DEF FlatKnown
<1>4. ASSUME step' \in Stages, one' \in Contract \union {Flatten!All},
             left' \subseteq Flatten!Planned', failed' \subseteq Flatten!Planned',
             step' = "plan" => left' = {} /\ failed' = {}, keep' \subseteq Contract,
             odd' \subseteq {"raced", "orphan", "entry"}
      PROVE  FlatKnown'
  <2>1. listed' \in BOOLEAN /\ twice' \in BOOLEAN /\ errors' \in BOOLEAN
    BY FlatFlags
  <2> QED BY <1>0, <1>1, <1>2, <1>3, <1>4, <2>1, Zenon DEF FlatKnown
<1>5. UNCHANGED plan => Flatten!Planned' = Flatten!Planned
  BY DEF Flatten!Planned
<1>6. CASE Flatten!Fill \/ Flatten!StopFires \/ Flatten!EntryFills
  <2>1. UNCHANGED <<step, one, plan, left, failed, keep>>
        /\ odd' \subseteq odd \union {"raced", "orphan", "entry"}
    BY <1>6 DEF Flatten!Fill, Flatten!StopFires, Flatten!EntryFills
  <2> QED BY <1>0, <1>4, <1>5, <2>1
<1>7. CASE Flatten!Begin
  <2>1. /\ left' = {} /\ failed' = {} /\ keep' = {} /\ odd' = odd /\ step' \in {"done", "plan"}
        /\ one' \in Contract \union {Flatten!All}
    BY <1>7 DEF Flatten!Begin
  <2> QED BY <1>0, <1>4, <2>1
<1>8. CASE Flatten!Plan
  <2>1. /\ UNCHANGED <<one, failed, keep, odd>> /\ failed = {}
        /\ step' \in {"cancel", "done", "close"}
    BY <1>0, <1>8 DEF Flatten!Plan
  <2>2. left' \subseteq Flatten!Planned'
    BY <1>0, <1>5, <1>8 DEF Flatten!Plan, Flatten!Open, Flatten!Planned
  <2> QED BY <1>0, <1>4, <2>1, <2>2
<1>9. CASE Flatten!IbCancel
  <2>1. UNCHANGED <<one, plan, left, failed, keep, odd>> /\ step' \in {"close", "done"}
    BY <1>9 DEF Flatten!IbCancel
  <2> QED BY <1>0, <1>4, <1>5, <2>1
<1>10. CASE Flatten!Close
  <2>1. /\ UNCHANGED <<one, plan, keep, odd>> /\ left' \subseteq left
        /\ step' \in {"close", "recheck", "done"}
        /\ failed' \subseteq failed \union left
    BY <1>10 DEF Flatten!Close, Flatten!PxClose, Flatten!OneClose, Flatten!IbOrder,
       Flatten!FlashClose, Flatten!AddOnClose, Flatten!Taken, Flatten!Lost
  <2> QED BY <1>0, <1>4, <1>5, <2>1
<1>11. CASE Flatten!Recheck \/ Flatten!Sweep
  <2>1. /\ UNCHANGED <<one, plan, left, failed, odd>> /\ step' \in {"recheck", "sweep", "done"}
        /\ keep' \subseteq Contract
    BY <1>0, <1>11 DEF Flatten!Recheck, Flatten!Sweep, Flatten!Keep, Flatten!Open,
                       Flatten!Planned
  <2> QED BY <1>0, <1>4, <1>5, <2>1
<1>12. CASE Flatten!CloseOne
  <2>1. UNCHANGED <<one, left, failed, keep, odd>> /\ step' \in {"confirm", "done"}
    BY <1>12 DEF Flatten!CloseOne
  <2>2. left' \subseteq Flatten!Planned' /\ failed' \subseteq Flatten!Planned'
    BY <1>0, <1>5, <1>12, <2>1 DEF Flatten!CloseOne
  <2> QED BY <1>0, <1>4, <2>1, <2>2
<1> QED BY <1>6, <1>7, <1>8, <1>9, <1>10, <1>11, <1>12 DEF Flatten!Next

LEMMA FlatTypes ==
  ASSUME FlatFlow, FlatKnown
  PROVE  Flatten!TypeOK
<1>1. kind \in Kinds /\ listed \in BOOLEAN /\ twice \in BOOLEAN /\ errors \in BOOLEAN
  BY Zenon DEF FlatKnown
<1>2. pos \in Slots /\ mkt \in Slots /\ plan \in Slots /\ stop \subseteq Contract
  BY DEF FlatFlow
<1> QED BY <1>1, <1>2, Zenon DEF FlatKnown, Slots, Flatten!TypeOK

\* A scan that has not judged closes nothing.
PassKnown ==
  /\ Pass!TypeOK
  /\ ~begun => step \in {"idle", "judge"} /\ todo = {}
  /\ step = "confirm" => todo = {}

\* The flags of a step are truth values.
LEMMA PassFlags ==
  ASSUME PassHeld, PassKnown, Pass!Next
  PROVE  entering' \in BOOLEAN /\ begun' \in BOOLEAN /\ done' \in BOOLEAN /\ (done' => ~begun')
<1> USE DEF Pass!scan, Pass!account
<1>0. entering \in BOOLEAN /\ begun \in BOOLEAN /\ done \in BOOLEAN /\ (done => ~begun)
  BY Zenon DEF PassKnown, Pass!TypeOK
<1>1. entering' = entering \/ entering' = TRUE \/ entering' = FALSE
  BY DEF Pass!Next, Pass!Fill, Pass!StopFires, Pass!SignalComes, Pass!EntryFills, Pass!Outage,
         Pass!Resume, Pass!ScanBegins, Pass!Judge, Pass!List, Pass!SendClose, Pass!Confirm,
         Pass!NotFlat, Pass!Flat
<1>2. \/ begun' = begun /\ done' = done
      \/ begun' = TRUE /\ done' = done /\ ~done
      \/ begun' = FALSE /\ done' = TRUE
  BY DEF Pass!Next, Pass!Fill, Pass!StopFires, Pass!SignalComes, Pass!EntryFills, Pass!Outage,
         Pass!Resume, Pass!ScanBegins, Pass!Judge, Pass!List, Pass!SendClose, Pass!Confirm,
         Pass!NotFlat, Pass!Flat, PassHeld, PassOver
<1>3. entering' \in BOOLEAN
  BY <1>0, <1>1, Zenon
<1>4. begun' \in BOOLEAN /\ done' \in BOOLEAN
  BY <1>0, <1>2, Zenon
<1>5. done' => ~begun'
  BY <1>0, <1>2
<1> QED BY <1>3, <1>4, <1>5, Zenon

LEMMA PassKnownStep ==
  ASSUME PassHeld, PassKnown, Pass!Next
  PROVE  PassKnown'
<1> USE DEF Pass!scan, Pass!account
<1> DEFINE Stages == {"idle", "judge", "list", "send", "confirm"}
<1>0. /\ pos \subseteq Contract /\ stop \subseteq Contract /\ sent \subseteq Contract
      /\ armed \in {"on", "parked", "off"} /\ step \in Stages
      /\ poss \subseteq Contract /\ todo \subseteq poss /\ left \subseteq Contract
      /\ tries \in 0 .. MaxTry /\ MaxTry \in Nat
      /\ (~begun => step \in {"idle", "judge"} /\ todo = {})
      /\ (step = "confirm" => todo = {})
  BY PartsAssumption, Zenon DEF PassKnown, Pass!TypeOK
<1>1. kind' \in {"px", "nt8"} /\ (faults' = faults \/ (\E f \in Fault : Pass!Fails(f)))
  BY DEF Pass!Next, Pass!Fill, Pass!StopFires, Pass!SignalComes, Pass!EntryFills, Pass!Outage,
         Pass!Resume, Pass!ScanBegins, Pass!Judge, Pass!List, Pass!SendClose, Pass!Confirm,
         Pass!NotFlat, Pass!Flat, Pass!Never, Pass!Fails, PassHeld
<1>2. faults' \in 0 .. MaxFault
  BY <1>1, PartsAssumption DEF PassKnown, Pass!TypeOK, Pass!Fails
<1>3. entries' \in 0 .. MaxEntry
  <2>1. entries' = entries \/ (entries < MaxEntry /\ entries' = entries + 1)
    BY DEF Pass!Next, Pass!Fill, Pass!StopFires, Pass!SignalComes, Pass!EntryFills, Pass!Outage,
           Pass!Resume, Pass!ScanBegins, Pass!Judge, Pass!List, Pass!SendClose, Pass!Confirm,
           Pass!NotFlat, Pass!Flat
  <2> QED BY <2>1, PartsAssumption DEF PassKnown, Pass!TypeOK
<1>4. ASSUME pos' \subseteq Contract, stop' \subseteq Contract, sent' \subseteq Contract,
             armed' \in {"on", "parked", "off"}, step' \in Stages,
             poss' \subseteq Contract, todo' \subseteq poss', left' \subseteq Contract,
             tries' \in 0 .. MaxTry,
             ~begun' => step' \in {"idle", "judge"} /\ todo' = {},
             step' = "confirm" => todo' = {}
      PROVE  PassKnown'
  <2>1. entering' \in BOOLEAN /\ begun' \in BOOLEAN /\ done' \in BOOLEAN /\ (done' => ~begun')
    BY PassFlags
  <2> QED BY <1>1, <1>2, <1>3, <1>4, <2>1, Zenon DEF PassKnown, Pass!TypeOK
<1>5. CASE Pass!Fill \/ Pass!StopFires \/ Pass!SignalComes \/ Pass!EntryFills
           \/ Pass!Outage \/ Pass!Resume
  <2>1. /\ UNCHANGED <<step, poss, todo, left, tries, begun>>
        /\ armed' \in {"on", "parked", "off"}
        /\ pos' \subseteq Contract /\ stop' \subseteq Contract /\ sent' \subseteq Contract
    BY <1>0, <1>5 DEF Pass!Fill, Pass!StopFires, Pass!SignalComes, Pass!EntryFills, Pass!Outage,
                      Pass!Resume
  <2> QED BY <1>0, <1>4, <2>1
<1>6. CASE Pass!ScanBegins
  BY <1>0, <1>4, <1>6 DEF Pass!ScanBegins
<1>7. CASE Pass!Judge
  BY <1>0, <1>4, <1>7 DEF Pass!Judge
<1>8. CASE Pass!List
  <2>1. /\ UNCHANGED <<pos, stop, sent, armed, begun>> /\ tries' = 0 /\ step' \in {"send", "idle"}
        /\ todo' = poss' /\ left' = poss' /\ poss' \subseteq Contract
    BY <1>0, <1>8 DEF Pass!List
  <2>2. begun
    BY <1>0, <1>8, <2>1 DEF Pass!List
  <2> QED BY <1>0, <1>4, <2>1, <2>2
<1>9. CASE Pass!SendClose
  <2>1. /\ UNCHANGED <<pos, stop, armed, begun, poss, left, tries>>
        /\ sent' \subseteq sent \union pos /\ todo' \subseteq todo
        /\ step' \in {"send", "confirm"} /\ (step' = "confirm" => todo' = {})
        /\ begun
    BY <1>0, <1>9 DEF Pass!SendClose
  <2> QED BY <1>0, <1>4, <2>1
<1>10. CASE Pass!Confirm
  BY <1>0, <1>4, <1>10 DEF Pass!Confirm
<1>11. CASE Pass!NotFlat
  BY <1>0, <1>4, <1>11 DEF Pass!NotFlat, Pass!Orphans
<1>12. CASE Pass!Flat
  BY <1>0, <1>4, <1>12 DEF Pass!Flat, Pass!Off
<1> QED BY <1>5, <1>6, <1>7, <1>8, <1>9, <1>10, <1>11, <1>12 DEF Pass!Next

-----------------------------------------------------------------------------
(* The types of every machine, along the steps of the whole. *)

LEMMA CutoffTypes == MCSpec => []TypeOK
<1>1. MCInit => Inv
  BY TypeInit DEF MCInit, Init, Inv, OncePerCutoff, MarkedWhenCalled, DueNotCalled, NoCalls
<1>2. Inv => TypeOK
  BY DEF Inv
<1> QED BY <1>1, <1>2, CutoffStep, PTL DEF MCSpec

RecordTypesInv == scene = "record" => LedgerTyped /\ MarksHeld /\ MarkTypes

LEMMA RecordTypesAlways == MCSpec => [](scene = "record" => Record!TypeOK)
<1>1. MCInit => RecordTypesInv
  <2> SUFFICES ASSUME MCInit, scene = "record" PROVE LedgerTyped /\ MarksHeld /\ MarkTypes
    BY DEF RecordTypesInv
  <2>1. Record!Init
    BY DEF MCInit
  <2>2. MarksHeld /\ MarkTypes
    BY <2>1 DEF Record!Init, MarksHeld, MarkTypes, Record!MarksStay, Record!Thread, Record!Steps
  <2> QED BY <2>2, LedgerInit DEF LedgerInv
<1>2. RecordTypesInv /\ [MCNext]_allvars => RecordTypesInv'
  BY SameScene, RecordSteps, LedgerTypedStep, MarksStep, MarkTypesStep DEF RecordTypesInv
<1>3. RecordTypesInv => (scene = "record" => Record!TypeOK)
  BY RecordTypes DEF RecordTypesInv
<1> QED BY <1>1, <1>2, <1>3, PTL DEF MCSpec

ReportTypesInv == scene = "report" => ReportHeld /\ ReportKnown

LEMMA ReportTypesAlways == MCSpec => [](scene = "report" => Report!TypeOK)
<1>1. MCInit => ReportTypesInv
  <2> SUFFICES ASSUME MCInit, scene = "report" PROVE ReportHeld /\ ReportKnown
    BY DEF ReportTypesInv
  <2>1. Report!Init
    BY DEF MCInit
  <2>2. ReportKnown
    BY <2>1, PartsAssumption DEF Report!Init, ReportKnown, Report!Holds, Report!Report
  <2> QED BY <2>1, <2>2, ReportInit DEF ReportInv
<1>2. ReportTypesInv /\ [MCNext]_allvars => ReportTypesInv'
  <2> SUFFICES ASSUME ReportTypesInv, [MCNext]_allvars, scene' = "report" PROVE ReportKnown'
    BY ReportStep DEF ReportTypesInv, ReportInv
  <2>1. scene = "report" /\ ReportHeld /\ ReportKnown
    BY SameScene DEF ReportTypesInv
  <2>2. CASE MCNext
    BY <2>1, <2>2, ReportKnownStep DEF MCNext, Arming, ReportHeld
  <2>3. CASE UNCHANGED allvars
    BY <2>1, <2>3 DEF allvars, reportOwn, shared, ReportKnown, Report!Holds
  <2> QED BY <2>2, <2>3
<1>3. ReportTypesInv => (scene = "report" => Report!TypeOK)
  BY ReportTypes DEF ReportTypesInv, ReportHeld
<1> QED BY <1>1, <1>2, <1>3, PTL DEF MCSpec

SecretTypesInv == scene = "secret" => Secret!TypeOK

LEMMA SecretTypesAlways == MCSpec => []SecretTypesInv
<1>1. MCInit => SecretTypesInv
  <2> SUFFICES ASSUME MCInit, scene = "secret" PROVE Secret!TypeOK
    BY DEF SecretTypesInv
  <2>1. Secret!Init
    BY DEF MCInit
  <2>2. pin \in BOOLEAN /\ locked \in BOOLEAN
    BY <2>1, Zenon DEF Secret!Init
  <2>3. faults \in 0 .. SecretFaults
    BY <2>1, PartsAssumption DEF Secret!Init
  <2> QED BY <2>1, <2>2, <2>3, SecretKinds DEF Secret!Init, Secret!TypeOK
<1>2. SecretTypesInv /\ [MCNext]_allvars => SecretTypesInv'
  BY SameScene, SecretSteps, SecretTypesStep DEF SecretTypesInv
<1> QED BY <1>1, <1>2, PTL DEF MCSpec

FlatTypesInv == scene = "flatten" => FlatHeld /\ FlatKnown

LEMMA FlatTypesAlways == MCSpec => [](scene = "flatten" => Flatten!TypeOK)
<1>1. MCInit => FlatTypesInv
  <2> SUFFICES ASSUME MCInit, scene = "flatten" PROVE FlatHeld /\ FlatKnown
    BY DEF FlatTypesInv
  <2>1. Flatten!Init
    BY DEF MCInit
  <2>2. listed \in BOOLEAN /\ twice \in BOOLEAN /\ errors \in BOOLEAN
    BY <2>1, Zenon DEF Flatten!Init
  <2>3. /\ kind \in Kinds /\ step = "idle" /\ one = Flatten!All /\ left = {} /\ failed = {}
        /\ keep = {} /\ nth = 0 /\ odd = {} /\ faults = 0
    BY <2>1 DEF Flatten!Init
  <2>4. nth \in 0 .. MaxCall /\ faults \in 0 .. MaxFault
    BY <2>3, PartsAssumption
  <2>5. FlatKnown
    BY <2>2, <2>3, <2>4 DEF FlatKnown
  <2> QED BY <2>1, <2>5, FlatInit
<1>2. FlatTypesInv /\ [MCNext]_allvars => FlatTypesInv'
  <2> SUFFICES ASSUME FlatTypesInv, [MCNext]_allvars, scene' = "flatten"
               PROVE  FlatHeld' /\ FlatKnown'
    BY DEF FlatTypesInv
  <2>1. scene = "flatten" /\ FlatHeld /\ FlatKnown /\ [Flatten!Next]_(Flatten!vars)
    BY SameScene, FlatSteps DEF FlatTypesInv
  <2>2. FlatHeld'
    BY <2>1, FlatStep
  <2>3. CASE Flatten!Next
    BY <2>1, <2>2, <2>3, FlatKnownStep DEF FlatHeld
  <2>4. CASE UNCHANGED Flatten!vars
    BY <2>1, <2>2, <2>4, Zenon DEF Flatten!vars, Flatten!market, Flatten!work, FlatKnown,
       Flatten!Planned
  <2> QED BY <2>1, <2>3, <2>4, <2>2
<1>3. FlatTypesInv => (scene = "flatten" => Flatten!TypeOK)
  BY FlatTypes DEF FlatTypesInv, FlatHeld
<1> QED BY <1>1, <1>2, <1>3, PTL DEF MCSpec

PassTypesInv == scene = "pass" => PassHeld /\ PassKnown

LEMMA PassTypesAlways == MCSpec => [](scene = "pass" => Pass!TypeOK)
<1>1. MCInit => PassTypesInv
  <2> SUFFICES ASSUME MCInit, scene = "pass" PROVE PassHeld /\ PassKnown
    BY DEF PassTypesInv
  <2>1. Pass!Init
    BY DEF MCInit
  <2>2. entering \in BOOLEAN /\ begun \in BOOLEAN /\ done \in BOOLEAN /\ (done => ~begun)
    BY <2>1, Zenon DEF Pass!Init
  <2>3. tries \in 0 .. MaxTry /\ entries \in 0 .. MaxEntry /\ faults \in 0 .. MaxFault
    BY <2>1, PartsAssumption DEF Pass!Init
  <2>4. PassKnown
    BY <2>1, <2>2, <2>3 DEF Pass!Init, PassKnown, Pass!TypeOK
  <2> QED BY <2>1, <2>4, PassInit
<1>2. PassTypesInv /\ [MCNext]_allvars => PassTypesInv'
  <2> SUFFICES ASSUME PassTypesInv, [MCNext]_allvars, scene' = "pass"
               PROVE  PassHeld' /\ PassKnown'
    BY DEF PassTypesInv
  <2>1. scene = "pass" /\ PassHeld /\ PassKnown /\ [Pass!Next]_(Pass!vars)
    BY SameScene, PassSteps DEF PassTypesInv
  <2>2. PassHeld'
    BY <2>1, PassStep
  <2>3. CASE Pass!Next
    BY <2>1, <2>2, <2>3, PassKnownStep
  <2>4. CASE UNCHANGED Pass!vars
    BY <2>1, <2>2, <2>4, Zenon DEF Pass!vars, Pass!account, Pass!scan, PassKnown, Pass!TypeOK
  <2> QED BY <2>1, <2>3, <2>4, <2>2
<1>3. PassTypesInv => (scene = "pass" => Pass!TypeOK)
  BY DEF PassTypesInv, PassKnown
<1> QED BY <1>1, <1>2, <1>3, PTL DEF MCSpec

BridgeTypesInv == scene = "bridge" => Bridge!Inv /\ Bridge!Counts

LEMMA BridgeTypesAlways == MCSpec => [](scene = "bridge" => Bridge!TypeOK)
<1>0. MaxCommand \in Nat /\ MaxFault \in Nat
  BY PartsAssumption
<1>1. MCInit => BridgeTypesInv
  BY <1>0, Bridge!InvInit, Bridge!CountsInit DEF MCInit, BridgeTypesInv
<1>2. BridgeTypesInv /\ [MCNext]_allvars => BridgeTypesInv'
  BY <1>0, SameScene, BridgeSteps, Bridge!InvStep, Bridge!CountsStep DEF BridgeTypesInv
<1>3. BridgeTypesInv => (scene = "bridge" => Bridge!TypeOK)
  BY Bridge!BridgeTyped DEF BridgeTypesInv
<1> QED BY <1>1, <1>2, <1>3, PTL DEF MCSpec

ArmsTypesInv == scene \in Arming => Arms!ArmInv /\ Arms!TypeInv

LEMMA ArmsTypesAlways == MCSpec => [](scene \in Arming => Arms!TypeOK)
<1>0. Arms!Bounds
  BY PartsAssumption DEF Arms!Bounds
<1>1. MCInit => ArmsTypesInv
  BY <1>0, Arms!ArmInit, Arms!TypeInit DEF MCInit, ArmsTypesInv
<1>2. ArmsTypesInv /\ [MCNext]_allvars => ArmsTypesInv'
  BY <1>0, SameScene, ArmsSteps, Arms!ArmStep, Arms!TypeStep DEF ArmsTypesInv
<1>3. ArmsTypesInv => (scene \in Arming => Arms!TypeOK)
  BY Arms!TypeOKIs DEF ArmsTypesInv
<1> QED BY <1>1, <1>2, <1>3, PTL DEF MCSpec

\* The state of each machine stays well typed: the files hold what was put in
\* them, a queue has no more entries than it may, and what a thread has in hand
\* comes from where its step takes it.
THEOREM WellTyped == MCSpec => []Types
<1>1. /\ TypeOK
      /\ scene = "record" => Record!TypeOK
      /\ scene = "report" => Report!TypeOK
      /\ SecretTypesInv
      /\ scene = "flatten" => Flatten!TypeOK
      /\ scene = "pass" => Pass!TypeOK
      /\ scene = "bridge" => Bridge!TypeOK
      /\ scene \in Arming => Arms!TypeOK
      => Types
  BY DEF Types, SecretTypesInv
<1> QED
  BY <1>1, CutoffTypes, RecordTypesAlways, ReportTypesAlways, SecretTypesAlways, FlatTypesAlways,
     PassTypesAlways, BridgeTypesAlways, ArmsTypesAlways, PTL
=============================================================================
