-------------------------- MODULE Nt8BridgeProofs --------------------------
(***************************************************************************)
(* OnceAndTold for any callers, commands, failures and restarts: a command *)
(* the journal holds is in one place only, in the queue, with the add-on,  *)
(* or over; and what is over never comes back.  From the same invariant,   *)
(* that the bridge implements CommandOnce.                                 *)
(***************************************************************************)
EXTENDS Nt8Bridge, FiniteSetTheorems, TLAPS

Sets ==
  /\ seen \subseteq Tid /\ pending \subseteq seen /\ stale \subseteq pending
  /\ taken \subseteq Tid
  /\ ran \in [Tid -> Nat]
  /\ acks \subseteq Tid \X {"ok", "failed"}
  /\ waiting \in [Caller -> SUBSET Tid]
  /\ answer \in [Caller -> SUBSET (Tid \X Verdicts)]

\* A caller waits for one command at a time.
OneEach == \A c \in Caller : \A t, u \in waiting[c] : t = u

\* The journal has every identity that is known or under way, unless the disk
\* refused it.
Logged == journal \subseteq seen /\ seen \union taken \subseteq journal \union unwritten

Says(c, t, v) == <<t, v>> \in answer[c]
Acks(t, v) == <<t, v>> \in acks

\* The command was executed or refused, and someone may have heard of it.
Over(t) ==
  \/ ran[t] # 0
  \/ Acks(t, "ok") \/ Acks(t, "failed")
  \/ \E c \in Caller : Says(c, t, "ok") \/ Says(c, t, "failed")

OnePlace(t) ==
  /\ Over(t) => t \in journal /\ t \notin pending /\ t \notin taken
  /\ t \in pending => t \notin taken

Truthful(t) ==
  /\ ran[t] \in {0, 1}
  /\ Acks(t, "ok") => ran[t] = 1
  /\ Acks(t, "failed") => ran[t] = 0
  /\ \A c \in Caller : /\ Says(c, t, "ok") => ran[t] = 1
                       /\ Says(c, t, "failed") => ran[t] = 0

Inv ==
  /\ Sets /\ OneEach /\ Logged
  /\ \A t \in Tid \ unwritten : OnePlace(t) /\ Truthful(t)

LEMMA InvInit == Init => Inv
<1> SUFFICES ASSUME Init PROVE Inv
  OBVIOUS
<1>1. Sets /\ OneEach /\ Logged
  BY DEF Init, Sets, OneEach, Logged
<1>2. ASSUME NEW t \in Tid PROVE OnePlace(t) /\ Truthful(t)
  BY DEF Init, OnePlace, Truthful, Over, Says, Acks
<1> QED BY <1>1, <1>2 DEF Inv

LEMMA InvStep == Inv /\ [Next]_vars => Inv'
<1> SUFFICES ASSUME Inv, [Next]_vars PROVE Inv'
  OBVIOUS
<1> USE DEF memory, addon, file
<1>0. Sets /\ OneEach /\ Logged
  BY DEF Inv
<1> DEFINE Goal == /\ Sets' /\ OneEach' /\ Logged'
                   /\ \A t \in Tid : t \notin unwritten' =>
                        OnePlace(t)' /\ Truthful(t)'
<1>1. SUFFICES Goal
  BY DEF Inv
<1>2. ASSUME NEW t \in Tid, t \notin unwritten PROVE OnePlace(t) /\ Truthful(t)
  BY <1>2 DEF Inv
\* A caller is told something that is no verdict on a command.
<1>3. ASSUME NEW c \in Caller, NEW u \in Tid,
             NEW v \in {"unhealthy", "duplicate", "timeout"}, Told(c, u, v),
             UNCHANGED <<seen, pending, stale, acks, journal, taken, ran, unwritten>>,
             waiting' = waiting \/ waiting' = [waiting EXCEPT ![c] = {}]
      PROVE  Goal
  <2>1. answer' = [answer EXCEPT ![c] = {<<u, v>>}]
    BY <1>3 DEF Told
  <2>2. Sets' /\ OneEach' /\ Logged'
    BY <1>0, <1>3, <2>1 DEF Sets, OneEach, Logged, Verdicts
  <2>3. ASSUME NEW d \in Caller, NEW t \in Tid, NEW w \in {"ok", "failed"},
               Says(d, t, w)'
        PROVE  Says(d, t, w)
    BY <1>0, <2>1, <2>3 DEF Says, Sets
  <2> QED
    BY <1>0, <1>2, <1>3, <2>2, <2>3 DEF OnePlace, Truthful, Over, Acks
<1>4. ASSUME NEW c \in Caller, Unhealthy(c) \/ Duplicate(c) PROVE Goal
  BY <1>0, <1>3, <1>4 DEF Unhealthy, Duplicate, Sets
<1>5. ASSUME NEW c \in Caller, TimesOut(c) PROVE Goal
  BY <1>0, <1>3, <1>5 DEF TimesOut, Sets
<1>6. ASSUME NEW c \in Caller, Enqueue(c) PROVE Goal
  <2>1. PICK u \in Tid \ seen :
          /\ Journal(u)
          /\ seen' = seen \union {u} /\ pending' = pending \union {u}
          /\ waiting' = [waiting EXCEPT ![c] = {u}]
    BY <1>6 DEF Enqueue
  <2>2. /\ answer' = [answer EXCEPT ![c] = {}]
        /\ UNCHANGED <<stale, acks, taken, ran>>
    BY <1>6 DEF Enqueue
  <2>3. \/ journal' = journal \union {u} /\ unwritten' = unwritten
        \/ journal' = journal /\ unwritten' = unwritten \union {u}
    BY <2>1 DEF Journal, LineFails
  <2>4. Sets' /\ OneEach' /\ Logged'
    BY <1>0, <2>1, <2>2, <2>3 DEF Sets, OneEach, Logged
  <2>5. ASSUME NEW t \in Tid, t \notin unwritten'
        PROVE  OnePlace(t)' /\ Truthful(t)'
    <3>1. OnePlace(t) /\ Truthful(t)
      BY <1>2, <2>3, <2>5
    <3>2. \A d \in Caller, w \in {"ok", "failed"} : Says(d, t, w)' => Says(d, t, w)
      BY <1>0, <2>2 DEF Says, Sets
    <3>3. Truthful(t)'
      BY <2>2, <3>1, <3>2 DEF Truthful, Acks
    <3>4. Over(t)' => Over(t)
      BY <2>2, <3>2 DEF Over, Acks
    <3>5. u \notin journal
      BY <1>0, <2>1 DEF Logged
    <3>6. t = u => t \notin taken /\ ~Over(t)
      BY <1>0, <2>3, <2>5, <3>1, <3>5 DEF OnePlace, Logged
    <3>7. OnePlace(t)'
      BY <2>1, <2>2, <2>3, <3>1, <3>4, <3>6 DEF OnePlace
    <3> QED BY <3>3, <3>7
  <2> QED BY <1>0, <2>2, <2>4, <2>5
<1>7. ASSUME NEW c \in Caller, Acked(c) PROVE Goal
  <2>1. PICK x \in Own(c), u \in waiting[c] : Told(c, u, x[2]) /\ acks' = acks \ {x}
    BY <1>7 DEF Acked
  <2>2. PICK v \in {"ok", "failed"} : x = <<u, v>>
    <3>1. PICK r \in Tid, v \in {"ok", "failed"} : x = <<r, v>>
      BY <1>0, <2>1 DEF Own, Sets
    <3>2. r = u
      BY <1>0, <2>1, <3>1 DEF Own, OneEach
    <3> QED BY <3>1, <3>2
  <2>3. /\ answer' = [answer EXCEPT ![c] = {<<u, v>>}] /\ Acks(u, v) /\ u \in Tid
        /\ acks' \subseteq acks
    BY <1>0, <2>1, <2>2 DEF Told, Own, Acks, Sets
  <2>4. /\ waiting' = [waiting EXCEPT ![c] = {}]
        /\ UNCHANGED <<seen, pending, stale, journal, taken, ran, unwritten>>
    BY <1>7 DEF Acked
  <2>5. Sets' /\ OneEach' /\ Logged'
    BY <1>0, <2>3, <2>4 DEF Sets, OneEach, Logged, Verdicts
  <2>6. \A d \in Caller, t \in Tid, w \in {"ok", "failed"} :
          Says(d, t, w)' => Says(d, t, w) \/ Acks(t, w)
    BY <1>0, <2>3 DEF Says, Sets
  <2>7. \A t \in Tid, w \in {"ok", "failed"} : Acks(t, w)' => Acks(t, w)
    BY <2>3 DEF Acks
  <2>8. ASSUME NEW t \in Tid, t \notin unwritten'
        PROVE  OnePlace(t)' /\ Truthful(t)'
    <3>1. OnePlace(t) /\ Truthful(t)
      BY <1>2, <2>4, <2>8
    <3>2. Over(t)' => Over(t)
      BY <2>4, <2>6, <2>7 DEF Over
    <3>3. OnePlace(t)'
      BY <2>4, <3>1, <3>2 DEF OnePlace
    <3>4. Truthful(t)'
      BY <2>4, <2>6, <2>7, <3>1 DEF Truthful
    <3> QED BY <3>3, <3>4
  <2> QED BY <1>0, <2>4, <2>5, <2>8
<1>8. CASE Ages \/ State \/ UNCHANGED vars
  <2>1. /\ UNCHANGED <<seen, pending, acks, journal, taken, ran, unwritten,
                       waiting, answer>>
        /\ stale' \subseteq pending
    BY <1>0, <1>8 DEF Ages, State, vars, Sets
  <2> QED
    BY <1>0, <1>2, <2>1 DEF Sets, OneEach, Logged, OnePlace, Truthful, Over, Acks,
                            Says
<1>9. CASE Pending
  <2>1. /\ pending' = {} /\ stale' = {} /\ taken' \subseteq taken \union pending
        /\ taken \subseteq taken'
        /\ journal \subseteq journal' /\ journal' \subseteq journal \union pending
        /\ UNCHANGED <<seen, acks, ran, unwritten, waiting, answer>>
    BY <1>0, <1>9 DEF Pending, Fresh, Dropped, LineFails, Sets
  <2>2. Sets' /\ OneEach' /\ Logged'
    BY <1>0, <2>1 DEF Sets, OneEach, Logged
  <2>3. ASSUME NEW t \in Tid, t \notin unwritten'
        PROVE  OnePlace(t)' /\ Truthful(t)'
    <3>1. OnePlace(t) /\ Truthful(t)
      BY <1>2, <2>1, <2>3
    <3>2. Over(t)' <=> Over(t)
      BY <2>1 DEF Over, Acks, Says
    <3> QED BY <2>1, <3>1, <3>2 DEF OnePlace, Truthful, Acks, Says
  <2> QED BY <2>1, <2>2, <2>3
<1>10. CASE Runs
  <2>1. PICK u \in taken :
          /\ taken' = taken \ {u}
          /\ \/ ran' = [ran EXCEPT ![u] = IF @ < 2 THEN @ + 1 ELSE @] /\ Ack(u, "ok")
             \/ Ack(u, "failed") /\ ran' = ran
    BY <1>10 DEF Runs
  <2>2. /\ UNCHANGED <<seen, pending, stale, journal, unwritten, waiting, answer>>
        /\ u \in Tid
    BY <1>0, <1>10 DEF Runs, Sets
  <2>3. PICK v \in {"ok", "failed"} :
          /\ acks' = acks \/ acks' = acks \union {<<u, v>>}
          /\ ran' = IF v = "ok" THEN [ran EXCEPT ![u] = IF @ < 2 THEN @ + 1 ELSE @]
                    ELSE ran
    BY <2>1 DEF Ack
  <2>4. ran' \in [Tid -> Nat]
    BY <1>0, <2>2, <2>3 DEF Sets
  <2>5. Sets' /\ OneEach' /\ Logged'
    BY <1>0, <2>1, <2>2, <2>3, <2>4 DEF Sets, OneEach, Logged
  <2>6. ASSUME NEW t \in Tid, t \notin unwritten', t # u
        PROVE  OnePlace(t)' /\ Truthful(t)'
    <3>1. OnePlace(t) /\ Truthful(t)
      BY <1>2, <2>2, <2>6
    <3>2. ran'[t] = ran[t] /\ (t \in taken' <=> t \in taken)
      BY <1>0, <2>1, <2>3, <2>6 DEF Sets
    <3>3. \A w : Acks(t, w)' <=> Acks(t, w)
      BY <2>3, <2>6 DEF Acks
    <3> QED BY <2>2, <3>1, <3>2, <3>3 DEF OnePlace, Truthful, Over, Says
  <2>7. ASSUME u \notin unwritten'
        PROVE  OnePlace(u)' /\ Truthful(u)'
    <3>1. OnePlace(u) /\ Truthful(u) /\ u \in journal
      BY <1>0, <1>2, <2>2, <2>7 DEF Logged
    <3>2. ~Over(u) /\ u \notin pending
      BY <3>1 DEF OnePlace
    <3>3. ran[u] = 0 /\ ran'[u] = IF v = "ok" THEN 1 ELSE 0
      BY <1>0, <2>2, <2>3, <3>2 DEF Over, Sets
    <3>4. \A w \in {"ok", "failed"} : Acks(u, w)' => w = v
      BY <2>3, <3>2 DEF Acks, Over
    <3>5. \A d \in Caller : ~Says(d, u, "ok")' /\ ~Says(d, u, "failed")'
      BY <2>2, <3>2 DEF Over, Says
    <3>6. Truthful(u)'
      BY <3>3, <3>4, <3>5 DEF Truthful
    <3>7. OnePlace(u)'
      BY <2>1, <2>2, <3>1, <3>2 DEF OnePlace
    <3> QED BY <3>6, <3>7
  <2> QED BY <1>0, <2>2, <2>5, <2>6, <2>7
<1>11. CASE AddonStops
  <2>1. /\ taken' = {}
        /\ UNCHANGED <<seen, pending, stale, acks, waiting, journal, answer, ran,
                       unwritten>>
    BY <1>11 DEF AddonStops
  <2> QED
    BY <1>0, <1>2, <2>1 DEF Sets, OneEach, Logged, OnePlace, Truthful, Over, Acks,
                            Says
<1>12. CASE Restart
  <2>1. /\ seen' = journal /\ pending' = {} /\ stale' = {} /\ acks' = {}
        /\ waiting' = [c \in Caller |-> {}] /\ answer' = [c \in Caller |-> {}]
        /\ UNCHANGED <<journal, taken, ran, unwritten>>
    BY <1>12 DEF Restart
  <2>2. Sets' /\ OneEach' /\ Logged'
    BY <1>0, <2>1 DEF Sets, OneEach, Logged
  <2>3. ASSUME NEW t \in Tid, t \notin unwritten'
        PROVE  OnePlace(t)' /\ Truthful(t)'
    <3>1. OnePlace(t) /\ Truthful(t)
      BY <1>2, <2>1, <2>3
    <3> QED BY <2>1, <3>1 DEF OnePlace, Truthful, Over, Acks, Says
  <2> QED BY <1>0, <2>1, <2>2, <2>3
<1> QED
  BY <1>4, <1>5, <1>6, <1>7, <1>8, <1>9, <1>10, <1>11, <1>12 DEF Next

\* A command whose line the disk took is executed at most once, and a caller
\* that was given a verdict was told the truth, whatever is lost, repeated or
\* restarted.
THEOREM OnceForAll == Spec => []OnceAndTold
<1>1. Inv => OnceAndTold
  <2> SUFFICES ASSUME Inv PROVE OnceAndTold
    OBVIOUS
  <2>1. \A t \in Tid \ unwritten : Truthful(t)
    BY DEF Inv
  <2>2. \A t \in Tid \ unwritten : ran[t] <= 1
    BY <2>1 DEF Truthful
  <2>3. \A c \in Caller, t \in Tid \ unwritten :
          /\ <<t, "ok">> \in answer[c] => ran[t] = 1
          /\ <<t, "failed">> \in answer[c] => ran[t] = 0
    BY <2>1 DEF Truthful, Says
  <2> QED BY <2>2, <2>3 DEF OnceAndTold
<1> QED BY <1>1, InvInit, InvStep, PTL DEF Spec

-----------------------------------------------------------------------------
(* Types. *)

\* What Inv leaves open of the types.
Counts ==
  /\ unwritten \subseteq Tid /\ ran \in [Tid -> 0 .. 2] /\ beat \in BOOLEAN /\ cut \in BOOLEAN
  /\ calls \in 0 .. MaxCall /\ faults \in 0 .. MaxFault

LEMMA CountsInit ==
  ASSUME MaxCall \in Nat, MaxFault \in Nat, Init
  PROVE  Counts
<1>1. beat \in BOOLEAN /\ cut \in BOOLEAN
  BY Zenon DEF Init
<1>2. ran \in [Tid -> 0 .. 2]
  BY DEF Init
<1> QED BY <1>1, <1>2 DEF Init, Counts

\* The heartbeat, and what is counted.
LEMMA CountsBounded ==
  ASSUME MaxCall \in Nat, MaxFault \in Nat, Counts, [Next]_vars
  PROVE  /\ beat' \in BOOLEAN /\ cut' \in BOOLEAN
         /\ calls' \in 0 .. MaxCall /\ faults' \in 0 .. MaxFault
<1> USE DEF vars, file
<1>1. beat \in BOOLEAN /\ cut \in BOOLEAN
  BY Zenon DEF Counts
<1>2. beat' = beat \/ beat' = FALSE \/ beat' = ~beat
  BY DEF Next, Unhealthy, Duplicate, Enqueue, Acked, TimesOut, Ages, Pending, Runs, State,
         AddonStops, Restart
<1>3. beat' \in BOOLEAN
  BY <1>1, <1>2, Zenon
<1>6. cut' = cut \/ cut' = TRUE \/ cut' = FALSE
  BY DEF Next, Unhealthy, Duplicate, Enqueue, Acked, TimesOut, Ages, Pending, Runs, State,
         AddonStops, Restart, Journal, LineFails, Dropped
<1>7. cut' \in BOOLEAN
  BY <1>1, <1>6, Zenon
<1>4. calls' = calls \/ (calls < MaxCall /\ calls' = calls + 1)
  BY DEF Next, Unhealthy, Duplicate, Enqueue, Acked, TimesOut, Ages, Pending, Runs, State,
         AddonStops, Restart
<1>5. faults' = faults \/ (faults < MaxFault /\ faults' = faults + 1)
  BY DEF Next, Unhealthy, Duplicate, Enqueue, Acked, TimesOut, Ages, Pending, Runs, State,
         AddonStops, Restart, Journal, LineFails, Ack, Fails, Never
<1> QED BY <1>3, <1>4, <1>5, <1>7 DEF Counts

LEMMA CountsStep ==
  ASSUME MaxCall \in Nat, MaxFault \in Nat, Inv, Counts, [Next]_vars
  PROVE  Counts'
<1>1. ran \in [Tid -> 0 .. 2] /\ unwritten \subseteq Tid /\ taken \subseteq Tid
  BY DEF Counts, Inv, Sets
<1>2. unwritten' \subseteq unwritten \union Tid
  <2>1. unwritten' = unwritten \/ \E t \in Tid : unwritten' = unwritten \union {t}
    <3>1. ASSUME NEW c \in Caller, Enqueue(c)
          PROVE  unwritten' = unwritten \/ \E t \in Tid : unwritten' = unwritten \union {t}
      <4>1. PICK t \in Tid \ seen : Journal(t)
        BY <3>1 DEF Enqueue
      <4> QED BY <4>1 DEF Journal, LineFails
    <3> QED
      BY <3>1 DEF Next, vars, Unhealthy, Duplicate, Acked, TimesOut, Ages, Pending, Runs, State,
                  AddonStops, Restart
  <2> QED BY <2>1
<1>3. ran' = ran \/ \E t \in taken : ran' = [ran EXCEPT ![t] = IF @ < 2 THEN @ + 1 ELSE @]
  BY DEF Next, vars, addon, Unhealthy, Duplicate, Enqueue, Acked, TimesOut, Ages, Pending, Runs,
         State, AddonStops, Restart
<1>4. ran' \in [Tid -> 0 .. 2]
  BY <1>1, <1>3
<1>5. beat' \in BOOLEAN /\ cut' \in BOOLEAN /\ calls' \in 0 .. MaxCall /\ faults' \in 0 .. MaxFault
  BY CountsBounded
<1> QED BY <1>1, <1>2, <1>4, <1>5, Zenon DEF Counts

LEMMA BridgeTyped ==
  ASSUME Inv, Counts
  PROVE  TypeOK
<1>1. ASSUME NEW c \in Caller PROVE Cardinality(waiting[c]) <= 1
  <2>1. CASE waiting[c] = {}
    BY <2>1, FS_EmptySet
  <2>2. ASSUME NEW t \in waiting[c] PROVE Cardinality(waiting[c]) <= 1
    <3>1. waiting[c] = {t}
      BY <2>2 DEF Inv, OneEach
    <3>2. Cardinality({t}) = 1
      BY FS_Singleton, Zenon
    <3> QED BY <3>1, <3>2
  <2> QED BY <2>1, <2>2
<1>2. journal \subseteq seen
  BY DEF Inv, Logged
<1>3. ran \in [Tid -> 0 .. 2] /\ unwritten \subseteq Tid /\ beat \in BOOLEAN
      /\ cut \in BOOLEAN /\ calls \in 0 .. MaxCall /\ faults \in 0 .. MaxFault
  BY Zenon DEF Counts
<1> QED BY <1>1, <1>2, <1>3, Zenon DEF Inv, Sets, TypeOK

-----------------------------------------------------------------------------
(* The promise of CommandOnce. *)

Stages == [t \in Tid |-> Stage(t)]
Asked(t) == t \in Fresh \union taken

\* Where a command stands, by where it is found.
LEMMA StageIs ==
  ASSUME Inv, NEW t \in Tid
  PROVE  /\ t \in unwritten => Stage(t) = "free"
         /\ t \notin unwritten =>
              /\ ran[t] = 1 => Stage(t) = "ran"
              /\ ran[t] = 0 /\ Asked(t) => Stage(t) = "asked"
              /\ ran[t] = 0 /\ ~Asked(t) => Stage(t) = IF t \in seen THEN "dead" ELSE "new"
              /\ ran[t] \in {0, 1}
<1>1. t \notin unwritten => ran[t] \in {0, 1}
  BY DEF Inv, Truthful
<1> QED BY <1>1 DEF Stage, Asked, Fresh

LEMMA PromiseInit == Init => Promise!Init
<1> SUFFICES ASSUME Init PROVE Promise!Init
  OBVIOUS
<1>1. \A t \in Tid : Stage(t) \in {"new", "dead"}
  BY DEF Init, Stage, Fresh
<1> QED BY <1>1 DEF Init, Promise!Init, Promise!Silent

\* A step that leaves a command where it stands.
LEMMA SameStage ==
  ASSUME Inv, NEW t \in Tid, UNCHANGED <<seen, taken, ran, unwritten>>,
         t \in Fresh <=> t \in Fresh'
  PROVE  Stage(t)' = Stage(t)
BY DEF Stage, Fresh

\* The steps that say something to a caller only.
LEMMA TellsStep ==
  ASSUME Inv, NEW c \in Caller, NEW t \in Tid, NEW v \in Verdicts, Told(c, t, v),
         UNCHANGED <<seen, taken, ran, unwritten, pending, stale>>,
         v = "ok" => Stage(t) \in {"ran", "free"},
         v = "failed" => Stage(t) \in {"dead", "free"}
  PROVE  Promise!Next
<1>1. \A u \in Tid : Stage(u)' = Stage(u)
  BY SameStage DEF Fresh
<1>2. Promise!Answer(c, t, v)
  BY <1>1 DEF Promise!Answer, Told
<1>3. v \in Promise!Verdict
  BY DEF Promise!Verdict, Verdicts
<1> QED BY <1>2, <1>3 DEF Promise!Next

\* The steps that take commands out of the way.
LEMMA LoseStep ==
  ASSUME Inv, Inv', UNCHANGED <<ran, unwritten>>,
         answer' = answer \/ answer' = [c \in Caller |-> {}],
         \A t \in Tid \ unwritten : Asked(t)' => Asked(t),
         \A t \in Tid \ unwritten : t \in seen' <=> t \in seen
  PROVE  Promise!Next
<1> DEFINE S == {t \in Tid : Stage(t) = "asked" /\ Stage(t)' # "asked"}
<1>1. ASSUME NEW t \in Tid
      PROVE  Stage(t)' = IF t \in S THEN "dead" ELSE Stage(t)
  <2>1. CASE t \in unwritten
    BY <2>1, StageIs DEF Stage, Fresh
  <2>2. CASE t \notin unwritten
    <3>1. ran[t] = 1 \/ ran[t] = 0
      BY <2>2, StageIs
    <3>2. CASE ran[t] = 1
      BY <2>2, <3>2 DEF Stage, Fresh
    <3>3. CASE ran[t] = 0 /\ Asked(t)'
      BY <2>2, <3>3 DEF Stage, Asked, Fresh
    <3>4. CASE ran[t] = 0 /\ ~Asked(t)' /\ Asked(t)
      <4>1. t \in seen
        BY <2>2, <3>4 DEF Inv, Sets, Logged, Asked, Fresh
      <4> QED BY <2>2, <3>4, <4>1 DEF Stage, Asked, Fresh
    <3>5. CASE ran[t] = 0 /\ ~Asked(t)' /\ ~Asked(t)
      BY <2>2, <3>5 DEF Stage, Asked, Fresh
    <3> QED BY <3>1, <3>2, <3>3, <3>4, <3>5
  <2> QED BY <2>1, <2>2
<1>2. S \in SUBSET Tid /\ \A t \in S : Stage(t) = "asked"
  OBVIOUS
<1>3. Promise!Lose(S)
  <2> HIDE DEF S
  <2> QED BY <1>1, <1>2 DEF Promise!Lose, Promise!Silent
<1> QED BY <1>2, <1>3 DEF Promise!Next

LEMMA PromiseStep ==
  Inv /\ Inv' /\ [Next]_vars => [Promise!Next]_(Promise!vars)
<1> SUFFICES ASSUME Inv, Inv', [Next]_vars
             PROVE  Promise!Next \/ UNCHANGED Promise!vars
  OBVIOUS
<1> USE DEF memory, addon, file
<1>0. Sets /\ OneEach /\ Logged
  BY DEF Inv
<1>1. ASSUME NEW c \in Caller, Unhealthy(c) \/ Duplicate(c) \/ TimesOut(c)
      PROVE  Promise!Next
  <2>1. PICK t \in Tid, v \in {"unhealthy", "duplicate", "timeout"} : Told(c, t, v)
    BY <1>0, <1>1 DEF Unhealthy, Duplicate, TimesOut, Sets
  <2>2. UNCHANGED <<seen, taken, ran, unwritten, pending, stale>>
    BY <1>1 DEF Unhealthy, Duplicate, TimesOut
  <2> QED BY <2>1, <2>2, TellsStep DEF Verdicts
<1>2. ASSUME NEW c \in Caller, Acked(c) PROVE Promise!Next
  <2>1. PICK x \in Own(c), u \in waiting[c] : Told(c, u, x[2])
    BY <1>2 DEF Acked
  <2>2. PICK v \in {"ok", "failed"} : x = <<u, v>>
    <3>1. PICK r \in Tid, v \in {"ok", "failed"} : x = <<r, v>>
      BY <1>0, <2>1 DEF Own, Sets
    <3>2. r = u
      BY <1>0, <2>1, <3>1 DEF Own, OneEach
    <3> QED BY <3>1, <3>2
  <2>3. u \in Tid /\ Acks(u, v) /\ Told(c, u, v)
    BY <1>0, <2>1, <2>2 DEF Own, Acks, Sets
  <2>4. u \notin unwritten => Truthful(u) /\ OnePlace(u)
    BY <2>3 DEF Inv
  <2>5. v = "ok" => Stage(u) \in {"ran", "free"}
    BY <2>3, <2>4, StageIs DEF Truthful
  <2>6. v = "failed" => Stage(u) \in {"dead", "free"}
    <3>1. ASSUME v = "failed", u \notin unwritten PROVE Stage(u) = "dead"
      <4>1. ran[u] = 0 /\ u \in seen /\ ~Asked(u)
        BY <1>0, <2>3, <2>4, <3>1 DEF Truthful, OnePlace, Over, Logged, Asked, Fresh
      <4> QED BY <2>3, <3>1, <4>1, StageIs
    <3> QED BY <2>3, <3>1, StageIs
  <2>7. UNCHANGED <<seen, taken, ran, unwritten, pending, stale>>
    BY <1>2 DEF Acked
  <2> QED BY <2>3, <2>5, <2>6, <2>7, TellsStep DEF Verdicts
<1>3. ASSUME NEW c \in Caller, Enqueue(c) PROVE Promise!Next
  <2>1. PICK u \in Tid \ seen :
          Journal(u) /\ seen' = seen \union {u} /\ pending' = pending \union {u}
    BY <1>3 DEF Enqueue
  <2>2. /\ answer' = [answer EXCEPT ![c] = {}]
        /\ UNCHANGED <<stale, taken, ran>>
    BY <1>3 DEF Enqueue
  <2>3. unwritten' = unwritten \/ unwritten' = unwritten \union {u}
    BY <2>1 DEF Journal, LineFails
  <2>4. ASSUME NEW t \in Tid, t # u PROVE Stage(t)' = Stage(t)
    BY <2>1, <2>2, <2>3, <2>4 DEF Stage, Fresh
  <2>5. CASE u \in unwritten
    <3>1. Stage(u) = "free" /\ Stage(u)' = "free"
      BY <2>3, <2>5 DEF Stage, Fresh
    <3>2. Promise!Ask(c, u)
      BY <2>1, <2>2, <2>4, <3>1 DEF Promise!Ask
    <3> QED BY <2>1, <3>2 DEF Promise!Next
  <2>6. CASE u \notin unwritten
    <3>1. ran[u] = 0 /\ ~Asked(u)
      <4>1. OnePlace(u) /\ u \notin journal
        BY <1>0, <2>1, <2>6 DEF Inv, Logged
      <4> QED BY <1>0, <2>1, <2>6, <4>1 DEF OnePlace, Over, Logged, Sets, Asked, Fresh
    <3>2. Stage(u) = "new"
      BY <2>1, <2>6, <3>1, StageIs
    <3>3. u \notin stale
      BY <1>0, <2>1 DEF Sets
    <3>4. Stage(u)' \in {"asked", "free"}
      BY <2>1, <2>2, <3>1, <3>3 DEF Stage, Fresh
    <3>5. [t \in Tid |-> Stage(t)'] = [Stages EXCEPT ![u] = Stage(u)']
      BY <2>1, <2>4 DEF Stages
    <3>6. Promise!Ask(c, u)
      BY <2>1, <2>2, <3>2, <3>4, <3>5 DEF Promise!Ask, Stages
    <3> QED BY <2>1, <3>6 DEF Promise!Next
  <2> QED BY <2>5, <2>6
<1>4. CASE Ages
  <2>1. UNCHANGED <<seen, pending, taken, ran, unwritten, answer>> /\ stale \subseteq stale'
    BY <1>4 DEF Ages
  <2> QED BY <2>1, LoseStep DEF Asked, Fresh
<1>5. CASE Pending
  <2>1. UNCHANGED <<seen, ran, unwritten, answer>> /\ pending' = {}
    BY <1>5 DEF Pending
  <2>2. taken' \subseteq taken \union Fresh
    BY <1>5 DEF Pending
  <2> QED BY <2>1, <2>2, LoseStep DEF Asked, Fresh
<1>6. CASE AddonStops
  <2>1. UNCHANGED <<seen, pending, stale, ran, unwritten, answer>> /\ taken' = {}
    BY <1>6 DEF AddonStops
  <2> QED BY <2>1, LoseStep DEF Asked, Fresh
<1>7. CASE Restart
  <2>1. /\ seen' = journal /\ pending' = {} /\ UNCHANGED <<taken, ran, unwritten>>
        /\ answer' = [c \in Caller |-> {}]
    BY <1>7 DEF Restart
  <2>2. \A t \in Tid \ unwritten : t \in seen' <=> t \in seen
    BY <1>0, <2>1 DEF Logged
  <2> QED BY <2>1, <2>2, LoseStep DEF Asked, Fresh
<1>8. CASE Runs
  <2>1. PICK u \in taken :
          /\ taken' = taken \ {u}
          /\ ran' = [ran EXCEPT ![u] = IF @ < 2 THEN @ + 1 ELSE @] \/ ran' = ran
    BY <1>8 DEF Runs
  <2>2. UNCHANGED <<seen, pending, stale, unwritten, answer>> /\ u \in Tid
    BY <1>0, <1>8 DEF Runs, Sets
  <2>3. CASE ran' = ran
    <3> QED BY <2>1, <2>2, <2>3, LoseStep DEF Asked, Fresh
  <2>4. CASE ran' = [ran EXCEPT ![u] = IF @ < 2 THEN @ + 1 ELSE @]
    <3>1. ASSUME NEW t \in Tid, t # u PROVE Stage(t)' = Stage(t)
      <4>1. ran'[t] = ran[t] /\ (t \in taken' <=> t \in taken)
        BY <1>0, <2>1, <2>4, <3>1 DEF Sets
      <4> QED BY <2>2, <4>1 DEF Stage, Fresh
    <3>2. CASE u \in unwritten
      <4>1. Stage(u) = "free" /\ Stage(u)' = "free"
        BY <2>2, <3>2 DEF Stage, Fresh
      <4>2. Promise!Execute(u)
        BY <2>2, <3>1, <4>1 DEF Promise!Execute
      <4> QED BY <2>2, <4>2 DEF Promise!Next
    <3>3. CASE u \notin unwritten
      <4>1. OnePlace(u)
        BY <2>2, <3>3 DEF Inv
      <4>2. ran[u] = 0
        BY <2>1, <4>1 DEF OnePlace, Over
      <4>3. Stage(u) = "asked"
        BY <2>1, <2>2, <3>3, <4>2, StageIs DEF Asked
      <4>4. ran'[u] = 1
        BY <1>0, <2>2, <2>4, <4>2 DEF Sets
      <4>5. Stage(u)' = "ran"
        BY <2>2, <3>3, <4>4 DEF Stage, Fresh
      <4>6. Promise!Execute(u)
        BY <2>2, <3>1, <4>3, <4>5 DEF Promise!Execute
      <4> QED BY <2>2, <4>6 DEF Promise!Next
    <3> QED BY <3>2, <3>3
  <2> QED BY <2>1, <2>3, <2>4
<1>9. CASE State \/ UNCHANGED vars
  <2>1. UNCHANGED <<seen, pending, stale, taken, ran, unwritten, answer>>
    BY <1>9 DEF State, vars
  <2>2. \A t \in Tid : Stage(t)' = Stage(t)
    BY <2>1, SameStage DEF Fresh
  <2> QED BY <2>1, <2>2 DEF Promise!vars
<1> QED
  BY <1>1, <1>2, <1>3, <1>4, <1>5, <1>6, <1>7, <1>8, <1>9 DEF Next

\* The bridge implements CommandOnce: whatever is lost, repeated or restarted,
\* each of its steps is one of the promise or none.
THEOREM KeepsPromise == Spec => Promise!Spec
<1> QED
  BY InvInit, InvStep, PromiseInit, PromiseStep, PTL DEF Spec, Promise!Spec
=============================================================================
