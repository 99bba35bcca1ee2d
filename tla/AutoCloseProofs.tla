-------------------------- MODULE AutoCloseProofs --------------------------
(***************************************************************************)
(* Types of the session-close loop, and its notices, for any jobs, hours,  *)
(* days, generations and disturbances.                                     *)
(***************************************************************************)
EXTENDS AutoClose, TLAPS

\* The clock stays in its bounds, and so does the day it shows.
LEMMA DayBound ==
  ASSUME NEW n \in Time
  PROVE  n \div DayLen + 1 \in 1 .. Days
<1>1. n \in Nat /\ n < Days * DayLen /\ DayLen \in Nat \ {0} /\ Days \in Nat \ {0}
  BY CloseAssumption DEF Time
<1> DEFINE q == n \div DayLen
<1>2. q \in Nat /\ q * DayLen <= n
  BY <1>1, SMT
<1>3. q < Days
  BY <1>1, <1>2, SMT
<1> QED BY <1>1, <1>2, <1>3

LEMMA TodayBound ==
  ASSUME now \in Time PROVE Today \in 1 .. Days /\ Today # 0
  BY DayBound DEF Today

LEMMA InitType == Init => TypeOK
<1> SUFFICES ASSUME Init PROVE TypeOK
  OBVIOUS
<1>1. 0 \in Time /\ Never \in Nat /\ 0 \in 0 .. Never
  BY CloseAssumption, SMT DEF Time, Never
<1>2. NoRetry \in Retry
  BY <1>1, CloseAssumption DEF NoRetry, Retry
<1>3. on \in BOOLEAN /\ passed \in BOOLEAN /\ calm \in BOOLEAN
  BY Zenon DEF Init
<1> QED BY <1>1, <1>2, <1>3, CloseAssumption DEF Init, TypeOK, Idle

Steps == {"none", "top", "look", "stale", "check", "query", "flat", "off"}
Records == [job : Job \union {NoJob}, rt : Retry, live : BOOLEAN, fb : BOOLEAN]

LEMMA IdleType == NoRetry \in Retry /\ Idle \in Records
<1>1. 0 \in 0 .. Never
  BY CloseAssumption, SMT DEF Never
<1>2. NoRetry \in Retry
  BY <1>1, CloseAssumption DEF NoRetry, Retry
<1> QED BY <1>2 DEF Idle, Records

\* What the loop of generation g may write of its own.
LoopTypes ==
  pc' \in [Gen -> Steps] /\ left' \in [Gen -> SUBSET Job] /\ at' \in [Gen -> Records]

RecordTypes == fired' \in [Job -> 0 .. Days] /\ retry' \in [Job -> Retry]

ToldTypes ==
  /\ first' \in [Job -> SUBSET (1 .. Days)] /\ gave' \in [Job -> SUBSET (1 .. Days)]
  /\ notices' \in [Job -> Nat]

LEMMA NextJobType ==
  ASSUME TypeOK, NEW g \in Gen, NextJob(g) PROVE LoopTypes
  BY IdleType DEF TypeOK, NextJob, LoopTypes, Steps, Records

LEMMA EndPassType ==
  ASSUME TypeOK, NEW g \in Gen, EndPass(g) PROVE LoopTypes
  BY IdleType DEF TypeOK, EndPass, LoopTypes, Steps, Records

LEMMA DoneType ==
  ASSUME TypeOK, NEW g \in Gen, Done(g) PROVE LoopTypes /\ RecordTypes /\ ToldTypes
<1>1. Today \in 0 .. Days
  BY TodayBound DEF TypeOK
<1>2. LoopTypes
  BY NextJobType DEF Done
<1>3. RecordTypes
  BY <1>1, IdleType DEF TypeOK, Done, RecordTypes
<1>4. ToldTypes
  BY DEF TypeOK, Done, ToldTypes
<1> QED BY <1>2, <1>3, <1>4

LEMMA FailType ==
  ASSUME TypeOK, NEW g \in Gen, Fail(g) PROVE LoopTypes /\ RecordTypes /\ ToldTypes
<1> DEFINE j == at[g].job
           r == [day |-> Today, n |-> at[g].rt.n + 1, next |-> now + 1,
                 live |-> at[g].live, gen |-> g]
<1>1. Today \in 1 .. Days /\ Today \in 0 .. Days
  BY TodayBound DEF TypeOK
<1>2. now + 1 \in 0 .. Never
  BY CloseAssumption, SMT DEF TypeOK, Time, Never
<1>3. at[g].rt.n + 1 \in Nat /\ at[g].live \in BOOLEAN /\ g \in 0 .. MaxGen
  BY CloseAssumption DEF TypeOK, Retry, Gen
<1>4. r \in Retry
  BY <1>1, <1>2, <1>3 DEF Retry
<1>5. LoopTypes
  BY NextJobType DEF Fail
<1>6. retry' = [retry EXCEPT ![j] = r] /\ fired' = fired
  BY DEF Fail
<1>7. RecordTypes
  BY <1>4, <1>6 DEF TypeOK, RecordTypes
<1>8. ToldTypes
  BY <1>1 DEF TypeOK, Fail, ToldTypes
<1> QED BY <1>5, <1>7, <1>8

\* The rest of the state, as a loop leaves it.
LEMMA LoopKeeps ==
  ASSUME TypeOK, LoopTypes, RecordTypes, ToldTypes, Outside,
         passed' \in BOOLEAN, pos' \in [Row -> Time \union {Never}]
  PROVE  TypeOK'
  BY DEF TypeOK, LoopTypes, RecordTypes, ToldTypes, Outside, app, Steps, Records

LEMMA Unread ==
  ASSUME TypeOK
  PROVE  /\ UNCHANGED <<pc, left, at>> => LoopTypes
         /\ UNCHANGED records => RecordTypes
         /\ UNCHANGED <<first, gave, notices>> => ToldTypes
         /\ UNCHANGED passed => passed' \in BOOLEAN
         /\ UNCHANGED pos => pos' \in [Row -> Time \union {Never}]
  BY DEF TypeOK, LoopTypes, RecordTypes, ToldTypes, records, Steps, Records

LEMMA LoopType ==
  ASSUME TypeOK, NEW g \in Gen, LoopStep(g) PROVE TypeOK'
<1>1. CASE Top(g)
  <2>1. LoopTypes
    <3> DEFINE J == {j \in Job : RowOf(j) \in armed}
    <3>1. J \in SUBSET Job
      OBVIOUS
    <3>2. /\ pc' = [pc EXCEPT ![g] = "look"] \/ pc' = [pc EXCEPT ![g] = "off"]
          /\ left' = [left EXCEPT ![g] = J] \/ left' = left
          /\ at' = at
      BY <1>1 DEF Top
    <3>3. pc' \in [Gen -> Steps]
      BY <3>2 DEF TypeOK, Steps
    <3> HIDE DEF J
    <3>4. left' \in [Gen -> SUBSET Job]
      BY <3>1, <3>2 DEF TypeOK
    <3> QED BY <3>2, <3>3, <3>4 DEF TypeOK, LoopTypes, Records
  <2> QED BY <1>1, <2>1, Unread, LoopKeeps DEF Top
<1>2. CASE Look(g)
  <2>1. passed' \in BOOLEAN
    <3>1. passed' = passed \/ passed' = (passed \/ Mine(g))
      BY <1>2 DEF Look
    <3> QED BY <3>1, Zenon DEF TypeOK
  <2>2. LoopTypes
    <3>1. CASE EndPass(g)
      BY <3>1, EndPassType
    <3>2. ASSUME NEW j \in left[g],
                 at' = [at EXCEPT ![g] = [Idle EXCEPT !.job = j, !.rt = retry[j]]],
                 pc' = [pc EXCEPT ![g] =
                          IF Stale(j, retry[j]) THEN "stale" ELSE "check"],
                 left' = left
          PROVE  LoopTypes
      <4>1. j \in Job /\ retry[j] \in Retry
        BY DEF TypeOK
      <4>2. [Idle EXCEPT !.job = j, !.rt = retry[j]] \in Records
        BY <4>1, IdleType DEF Records
      <4> QED BY <3>2, <4>2 DEF TypeOK, LoopTypes, Steps, Records
    <3> QED BY <1>2, <3>1, <3>2 DEF Look
  <2> QED BY <1>2, <2>1, <2>2, Unread, LoopKeeps DEF Look
<1>3. CASE GiveUp(g)
  <2>1. at[g] \in Records /\ NoRetry \in Retry
    BY IdleType DEF TypeOK, Records
  <2>2. [at[g] EXCEPT !.rt = NoRetry] \in Records
    BY <2>1 DEF Records
  <2>3. /\ pc' = [pc EXCEPT ![g] = "check"] /\ left' = left
        /\ at' = [at EXCEPT ![g] = [at[g] EXCEPT !.rt = NoRetry]]
        /\ retry' = [retry EXCEPT ![at[g].job] = NoRetry] /\ fired' = fired
    BY <1>3 DEF GiveUp
  <2>4. LoopTypes
    BY <2>2, <2>3 DEF TypeOK, LoopTypes, Steps, Records
  <2>5. RecordTypes
    BY <2>1, <2>3 DEF TypeOK, RecordTypes
  <2>6. ToldTypes
    <3>1. Today \in 1 .. Days
      BY TodayBound DEF TypeOK
    <3>2. first' = first
      BY <1>3 DEF GiveUp
    <3>3. \/ UNCHANGED <<gave, notices>>
          \/ /\ gave' = [gave EXCEPT ![at[g].job] = @ \union {Today}]
             /\ notices' = [notices EXCEPT ![at[g].job] = @ + 1]
      BY <1>3 DEF GiveUp
    <3>4. gave' \in [Job -> SUBSET (1 .. Days)]
      BY <3>1, <3>3 DEF TypeOK
    <3>5. notices' \in [Job -> Nat]
      BY <3>3 DEF TypeOK
    <3> QED BY <3>2, <3>4, <3>5 DEF TypeOK, ToldTypes
  <2> QED BY <1>3, <2>4, <2>5, <2>6, Unread, LoopKeeps DEF GiveUp
<1>4. CASE Check(g)
  <2>1. LoopTypes /\ RecordTypes /\ ToldTypes
    <3>1. CASE NextJob(g) /\ UNCHANGED <<records, first, gave, notices>>
      BY <3>1, NextJobType, Unread
    <3>2. CASE Done(g)
      BY <3>2, DoneType
    <3>3. CASE /\ pc' = [pc EXCEPT ![g] = "query"]
               /\ at' = [at EXCEPT ![g].live = (gate # "dry"),
                                   ![g].fb = (gate = "fallback")]
               /\ UNCHANGED <<records, left, first, gave, notices>>
      <4>1. (gate # "dry") \in BOOLEAN /\ (gate = "fallback") \in BOOLEAN
        OBVIOUS
      <4>2. at \in [Gen -> Records]
        BY DEF TypeOK, Records
      <4> DEFINE r == [at[g] EXCEPT !.live = (gate # "dry"),
                                    !.fb = (gate = "fallback")]
      <4>5. r \in Records
        BY <4>1, <4>2 DEF Records
      <4>6. at' = [at EXCEPT ![g] = r]
        BY <3>3, <4>2
      <4> HIDE DEF r
      <4>3. at' \in [Gen -> Records]
        BY <4>2, <4>5, <4>6
      <4>4. LoopTypes
        BY <3>3, <4>3 DEF TypeOK, LoopTypes, Steps
      <4> QED BY <3>3, <4>4, Unread
    <3> QED BY <1>4, <3>1, <3>2, <3>3 DEF Check
  <2> QED BY <1>4, <2>1, Unread, LoopKeeps DEF Check
<1>5. CASE NothingOpen(g) \/ LeftToMember(g) \/ HeldOn(g)
  BY <1>5, DoneType, Unread, LoopKeeps DEF NothingOpen, LeftToMember, HeldOn
<1>6. CASE Overtaken(g)
  BY <1>6, EndPassType, Unread, LoopKeeps DEF Overtaken
<1>7. CASE StartFlatten(g)
  <2>1. LoopTypes
    BY <1>7 DEF StartFlatten, TypeOK, LoopTypes, Steps, Records
  <2> QED BY <1>7, <2>1, Unread, LoopKeeps DEF StartFlatten
<1>8. Flat(g) \in [Row -> Time \union {Never}]
  BY DEF Flat, TypeOK
<1>9. CASE Flattened(g)
  <2>1. Today \in 0 .. Days
    BY TodayBound DEF TypeOK
  <2>2. RecordTypes
    BY <1>9, <2>1, IdleType DEF Flattened, TypeOK, RecordTypes
  <2>3. ToldTypes
    <3>1. /\ UNCHANGED <<first, gave>>
          /\ \/ notices' = [notices EXCEPT ![at[g].job] = @ + 1]
             \/ notices' = notices
      BY <1>9 DEF Flattened
    <3>2. notices' \in [Job -> Nat]
      BY <3>1 DEF TypeOK
    <3> QED BY <3>1, <3>2 DEF TypeOK, ToldTypes
  <2> QED BY <1>8, <1>9, <2>2, <2>3, NextJobType, Unread, LoopKeeps DEF Flattened
<1>10. CASE Failed(g)
  <2>1. pos' \in [Row -> Time \union {Never}]
    BY <1>8, <1>10 DEF Failed, TypeOK
  <2> QED BY <1>10, <2>1, FailType, Unread, LoopKeeps DEF Failed
<1> QED
  BY <1>1, <1>2, <1>3, <1>4, <1>5, <1>6, <1>7, <1>9, <1>10 DEF LoopStep

LEMMA RowTypes == \A r \in Row : r[1] \in Asset /\ r[2] \in Acct
  BY CloseAssumption DEF Row

LEMMA TypeStep == TypeOK /\ [Next]_vars => TypeOK'
<1> SUFFICES ASSUME TypeOK, [Next]_vars PROVE TypeOK'
  OBVIOUS
<1> USE DEF app, records, loop, history
<1>1. ASSUME NEW r \in Row, Arm(r) PROVE TypeOK'
  <2>1. on' \in BOOLEAN /\ gen' \in 0 .. MaxGen /\ pc' \in [Gen -> Steps]
    <3>1. CASE on /\ UNCHANGED <<on, gen, pc>>
      BY <3>1 DEF TypeOK, Steps
    <3>2. CASE gen < MaxGen /\ on' = TRUE /\ gen' = gen + 1
               /\ pc' = [pc EXCEPT ![gen + 1] = "top"]
      <4>1. gen' \in 0 .. MaxGen
        BY <3>2, CloseAssumption DEF TypeOK
      <4>2. pc' \in [Gen -> Steps]
        BY <3>2 DEF TypeOK, Steps
      <4> QED BY <3>2, <4>1, <4>2
    <3> QED BY <1>1, <3>1, <3>2 DEF Arm
  <2>2. passed' = FALSE /\ calm' = FALSE
    BY <1>1 DEF Arm
  <2> QED BY <1>1, <2>1, <2>2 DEF Arm, TypeOK, Steps
<1>2. CASE Stop
  BY <1>2 DEF Stop, TypeOK
<1>3. ASSUME NEW r \in Row, RowStop(r) PROVE TypeOK'
  <2>1. on' \in BOOLEAN
    BY <1>3, Zenon DEF RowStop
  <2> QED BY <1>3, <2>1 DEF RowStop, TypeOK
<1>4. ASSUME NEW r \in Row, Filled(r) \/ ClosedElsewhere(r) PROVE TypeOK'
  BY <1>4 DEF Filled, ClosedElsewhere, TypeOK
<1>5. ASSUME NEW a \in Asset, Disarm(a) PROVE TypeOK'
  BY <1>5 DEF Disarm, TypeOK
<1>6. ASSUME NEW a \in Asset, ExitMoved(a) PROVE TypeOK'
  <2>1. PICK t \in Early[a] : override' = [override EXCEPT ![a] = t]
    BY <1>6 DEF ExitMoved
  <2>2. t \in Time
    BY CloseAssumption
  <2>3. override' \in [Asset -> Time \union {Never}]
    BY <2>1, <2>2 DEF TypeOK
  <2> QED BY <1>6, <2>3 DEF ExitMoved, TypeOK
<1>7. ASSUME NEW a \in Asset, Entering(a) PROVE TypeOK'
  BY <1>7 DEF Entering, TypeOK
<1>8. CASE GateChanges
  BY <1>8 DEF GateChanges, TypeOK
<1>9. CASE Tick
  <2>1. calm' \in BOOLEAN
    BY <1>9, Zenon DEF Tick
  <2> QED BY <1>9, <2>1 DEF Tick, TypeOK
<1>10. CASE Sleep
  BY <1>10 DEF Sleep, TypeOK
<1>11. CASE UNCHANGED vars
  BY <1>11 DEF vars, TypeOK
<1> QED
  BY <1>1, <1>2, <1>3, <1>4, <1>5, <1>6, <1>7, <1>8, <1>9, <1>10, <1>11,
     LoopType DEF Next, Member

\* The variables of the session-close loop keep their types.
THEOREM TypeCorrect == Spec => []TypeOK
  BY InitType, TypeStep, PTL DEF Spec

----------------------------------------------------------------------------
\* A step that sends no follow-up, or takes out the record it is about.
LEMMA NoticeStep ==
  ASSUME TypeOK, [Next]_vars PROVE NoticeWithRecord
<1> SUFFICES ASSUME NEW j \in Job, notices'[j] # notices[j]
             PROVE  retry[j] # NoRetry /\ retry'[j] = NoRetry
  BY DEF NoticeWithRecord
<1>1. PICK g \in Gen : GiveUp(g) \/ Flattened(g)
  <2>1. ~ UNCHANGED notices
    OBVIOUS
  <2> QED
    BY <2>1 DEF Next, Member, Stop, Arm, RowStop, Filled, ClosedElsewhere, Disarm,
                ExitMoved, Entering, GateChanges, Tick, Sleep, vars, history,
                LoopStep, Top, Look, Check, Done, NothingOpen, LeftToMember,
                HeldOn, Overtaken, StartFlatten, Failed, Fail
<1>2. /\ notices' = [notices EXCEPT ![at[g].job] = @ + 1]
      /\ retry' = [retry EXCEPT ![at[g].job] = NoRetry]
      /\ retry[at[g].job] # NoRetry
  BY <1>1 DEF GiveUp, Flattened, Announces
<1>3. j = at[g].job
  BY <1>2 DEF TypeOK
<1> QED BY <1>2, <1>3 DEF TypeOK

\* Every follow-up message closes one failure record, whichever generation
\* sends it: none is sent twice for the same record.
THEOREM OneNoticePerRecord == Spec => NoticeTakesRecord
<1>1. TypeOK /\ [Next]_vars => [NoticeWithRecord]_vars
  BY NoticeStep
<1> QED BY <1>1, InitType, TypeStep, PTL DEF Spec, NoticeTakesRecord

----------------------------------------------------------------------------
(* Days and hours. *)

\* Any moment is a day and a time of that day.
LEMMA DayOf ==
  ASSUME NEW n \in Time
  PROVE  /\ n \div DayLen \in Nat /\ n % DayLen \in Nat
         /\ n = (n \div DayLen) * DayLen + (n % DayLen)
         /\ n % DayLen < DayLen
<1>1. n \in Nat /\ DayLen \in Nat \ {0}
  BY CloseAssumption DEF Time
<1> QED BY <1>1, SMT

LEMMA Multiples ==
  ASSUME NEW p \in Nat, NEW q \in Nat, p < q
  PROVE  p * DayLen + DayLen <= q * DayLen
<1>1. DayLen \in Nat \ {0}
  BY CloseAssumption
<1>2. PICK d \in Nat : q = p + 1 + d
  <2>1. q - p - 1 \in Nat /\ q = p + 1 + (q - p - 1)
    BY SMT
  <2> QED BY <2>1
<1>3. q * DayLen = p * DayLen + DayLen + d * DayLen
  BY <1>1, <1>2, SMT
<1>4. d * DayLen \in Nat /\ p * DayLen \in Nat
  BY <1>1, <1>2, SMT
<1> QED BY <1>1, <1>3, <1>4, SMT

\* Later is on a later day, or the same day at a later hour.
LEMMA LaterDay ==
  ASSUME NEW n \in Time, NEW m \in Time, n < m
  PROVE  \/ n \div DayLen < m \div DayLen
         \/ n \div DayLen = m \div DayLen /\ m % DayLen = (n % DayLen) + (m - n)
<1> DEFINE p == n \div DayLen
           q == m \div DayLen
<1>1. /\ p \in Nat /\ q \in Nat /\ n % DayLen \in Nat /\ m % DayLen \in Nat
      /\ n = p * DayLen + (n % DayLen) /\ m = q * DayLen + (m % DayLen)
      /\ n % DayLen < DayLen /\ m % DayLen < DayLen
      /\ n \in Nat /\ m \in Nat /\ DayLen \in Nat
      /\ p * DayLen \in Nat /\ q * DayLen \in Nat
  <2>1. n \in Nat /\ m \in Nat /\ DayLen \in Nat
    BY CloseAssumption DEF Time
  <2>2. p \in Nat /\ q \in Nat
    BY DayOf
  <2>3. p * DayLen \in Nat /\ q * DayLen \in Nat
    BY <2>1, <2>2, SMT
  <2> QED BY <2>1, <2>2, <2>3, DayOf
<1>2. ~ (q < p)
  <2> SUFFICES ASSUME q < p PROVE FALSE
    OBVIOUS
  <2>1. q * DayLen + DayLen <= p * DayLen
    BY <1>1, Multiples
  <2> HIDE DEF p, q
  <2> QED BY <1>1, <2>1, SMT
<1>3. CASE p = q
  <2>1. m % DayLen = (n % DayLen) + (m - n)
    BY <1>1, <1>3
  <2> QED BY <1>3, <2>1
<1> HIDE DEF p, q
<1>4. p < q \/ p = q
  BY <1>1, <1>2
<1> QED BY <1>3, <1>4 DEF p, q

\* What the day, its hour and its beginning are.
LEMMA Clock ==
  ASSUME now \in Time
  PROVE  /\ Today \in 1 .. Days /\ Today - 1 \in 0 .. Days - 1 /\ Cur \in Nat
         /\ DayStart \in Nat /\ DayStart = (Today - 1) * DayLen
         /\ now = DayStart + Cur /\ Cur < DayLen /\ now \in Nat /\ now < Never
<1>1. Today \in 1 .. Days /\ Today - 1 = now \div DayLen
  <2>1. now \div DayLen \in Nat
    BY DayOf
  <2> QED BY <2>1, TodayBound DEF Today
<1>2. DayLen \in Nat \ {0} /\ Days \in Nat \ {0}
  BY CloseAssumption
<1>3. DayStart = (now \div DayLen) * DayLen
  BY <1>1 DEF DayStart
<1>4. /\ now \div DayLen \in Nat /\ Cur \in Nat /\ Cur < DayLen
      /\ now = DayStart + Cur
  BY <1>3, DayOf DEF Cur
<1>5. DayStart \in Nat
  BY <1>2, <1>3, <1>4, SMT
<1>6. now \in Nat /\ now < Never
  BY <1>2, SMT DEF Time, Never
<1> QED BY <1>1, <1>2, <1>4, <1>5, <1>6 DEF DayStart

\* How they change with the clock.
LEMMA ClockMoves ==
  ASSUME now \in Time, now' \in Time, now < now'
  PROVE  \/ Today < Today'
         \/ Today = Today' /\ DayStart = DayStart' /\ Cur' = Cur + (now' - now)
<1>1. \/ now \div DayLen < now' \div DayLen
      \/ now \div DayLen = now' \div DayLen
         /\ now' % DayLen = (now % DayLen) + (now' - now)
  BY LaterDay
<1>2. now \div DayLen \in Nat /\ now' \div DayLen \in Nat
  BY DayOf
<1>3. Today < Today' \/ (Today = Today' /\ Cur' = Cur + (now' - now))
  BY <1>1, <1>2 DEF Today, Cur
<1> QED BY <1>3 DEF DayStart

\* The next interval is on the same day, or the first of the next.
LEMMA ClockTicks ==
  ASSUME now \in Time, now' = now + 1, now' \in Time
  PROVE  \/ Today = Today' /\ DayStart = DayStart' /\ Cur' = Cur + 1
         \/ Today < Today' /\ Cur = DayLen - 1 /\ Cur' = 0
<1> DEFINE p == now \div DayLen
           q == now' \div DayLen
<1>1. /\ p \in Nat /\ q \in Nat /\ Cur \in Nat /\ Cur' \in Nat /\ now \in Nat
      /\ now = p * DayLen + Cur /\ now + 1 = q * DayLen + Cur'
      /\ Cur < DayLen /\ Cur' < DayLen /\ DayLen \in Nat \ {0}
      /\ p * DayLen \in Nat /\ q * DayLen \in Nat
  <2>1. now \in Nat /\ DayLen \in Nat \ {0}
    BY CloseAssumption DEF Time
  <2>2. p \in Nat /\ q \in Nat
    BY DayOf
  <2>3. p * DayLen \in Nat /\ q * DayLen \in Nat
    BY <2>1, <2>2, SMT
  <2> QED BY <2>1, <2>2, <2>3, DayOf DEF Cur
<1>2. \/ Today < Today'
      \/ Today = Today' /\ DayStart = DayStart' /\ Cur' = Cur + (now' - now)
  <2>1. now < now'
    BY <1>1
  <2> QED BY <2>1, ClockMoves
<1>3. CASE Today < Today'
  <2>1. p < q
    BY <1>1, <1>3 DEF Today
  <2>2. p * DayLen + DayLen <= q * DayLen
    BY <1>1, <2>1, Multiples
  <2>3. ASSUME NEW a \in Nat, NEW b \in Nat, NEW c \in Nat, NEW d \in Nat, NEW l \in Nat,
               a + c + 1 = b + d, a + l <= b, c < l
        PROVE  c = l - 1 /\ d = 0
    BY <2>3, SMT
  <2>4. Cur = DayLen - 1 /\ Cur' = 0
    <3> HIDE DEF p, q
    <3>1. p * DayLen + Cur + 1 = q * DayLen + Cur'
      BY <1>1
    <3> QED BY <1>1, <2>2, <2>3, <3>1
  <2> QED BY <1>3, <2>4
<1>4. CASE Today = Today' /\ DayStart = DayStart' /\ Cur' = Cur + (now' - now)
  <2>1. Cur' = Cur + 1
    BY <1>1, <1>4
  <2> QED BY <1>4, <2>1
<1> QED BY <1>2, <1>3, <1>4

----------------------------------------------------------------------------
(* What is true of every behaviour, whatever the hours are. *)

\* A loop that is going over its jobs.
Inside == {"look", "stale", "check", "query", "flat"}

\* When job j may be due on day d: at its hour, or at the earlier exit that the
\* server sent.
Exits(j, d) ==
  {d * DayLen + DueAt[j]} \union
  {o \in Early[JobAsset[j]] : o \div DayLen = d /\ o % DayLen < DueAt[j]}

DueBy(j) == \E e \in Exits(j, Today - 1) : e <= now

\* A loop is on with its generation, and works on a job it still has to do.
AtJob ==
  /\ on => gen \in Gen
  /\ \A g \in Gen : pc[g] \in Inside \ {"look"} => at[g].job \in left[g]

\* Positions are opened by entries, entries fall in their hours, and the
\* server moves exits to where it may.
Opened ==
  /\ \A a \in Asset : entering[a] # Never => entering[a] \in EntryAt[a] /\ entering[a] <= now
  /\ \A r \in Row : pos[r] # Never =>
       /\ pos[r] \in EntryAt[r[1]]
       /\ entering[r[1]] # Never /\ pos[r] <= entering[r[1]]
  /\ \A a \in Asset : override[a] # Never => override[a] \in Early[a]

\* What is under way is due, and what was done today was.
InDue ==
  \A g \in Gen : pc[g] \in {"query", "flat"} =>
    DueBy(at[g].job) /\ Cur < EndAt(at[g].job)

FiredDue ==
  \A j \in Job : fired[j] <= Today /\ (fired[j] = Today => DueBy(j))

Base == TypeOK /\ AtJob /\ Opened /\ InDue /\ FiredDue

LEMMA BaseInit == Init => Base
<1> SUFFICES ASSUME Init PROVE Base
  OBVIOUS
<1>1. TypeOK
  BY InitType
<1>2. AtJob /\ Opened /\ InDue
  BY DEF Init, AtJob, Opened, InDue, Inside
<1>3. FiredDue
  BY <1>1, TodayBound DEF Init, FiredDue, TypeOK
<1> QED BY <1>1, <1>2, <1>3 DEF Base

\* Time passes between two jobs, and nothing else happens then.
LEMMA TimePasses ==
  ASSUME TypeOK, Tick \/ Sleep
  PROVE  /\ now \in Time /\ now' \in Time /\ now < now' /\ BetweenJobs /\ passed' = FALSE
         /\ UNCHANGED <<on, gen, armed, override, gate, fired, retry, entering, pos,
                        pc, left, at, first, gave, notices>>
<1>1. CASE Tick
  BY <1>1, SMT DEF Tick, TypeOK, app, records, loop, Time
<1>2. CASE Sleep
  BY <1>2, SMT DEF Sleep, TypeOK, app, records, loop, Time
<1> QED BY <1>1, <1>2

LEMMA TimeStays ==
  ASSUME [Next]_vars, ~ Tick, ~ Sleep
  PROVE  now' = now /\ Today' = Today /\ Cur' = Cur /\ DayStart' = DayStart
<1>1. now' = now
  BY DEF Next, Member, Stop, Arm, RowStop, Filled, ClosedElsewhere, Disarm, ExitMoved,
         Entering, GateChanges, vars, LoopStep, Top, Look, GiveUp, Check, NothingOpen,
         LeftToMember, HeldOn, Overtaken, StartFlatten, Flattened, Failed, Outside
<1> QED BY <1>1 DEF Today, Cur, DayStart

\* All that a loop's step may change.
LEMMA LoopChanges ==
  ASSUME NEW g \in Gen, LoopStep(g)
  PROVE  UNCHANGED <<now, on, gen, armed, override, gate, entering, calm>>
  BY DEF LoopStep, Top, Look, GiveUp, Check, NothingOpen, LeftToMember, HeldOn, Overtaken,
         StartFlatten, Flattened, Failed, Outside, app

\* All that a step outside the loops may change.
OutsideLoops ==
  UNCHANGED <<now, fired, retry, left, at, first, gave, notices>>

LEMMA MemberChanges ==
  ASSUME Member \/ GateChanges \/ UNCHANGED vars
  PROVE  OutsideLoops
  BY DEF OutsideLoops, Member, Stop, Arm, RowStop, Filled, ClosedElsewhere, Disarm,
         ExitMoved, Entering, GateChanges, vars, app, records, loop, history

\* Only Arm starts a loop.
LEMMA MemberLoops ==
  ASSUME TypeOK, AtJob, Member \/ GateChanges \/ UNCHANGED vars
  PROVE  /\ \/ UNCHANGED <<pc, gen>>
            \/ gen + 1 \in Gen /\ gen' = gen + 1 /\ pc' = [pc EXCEPT ![gen + 1] = "top"]
         /\ on' => gen' \in Gen
         /\ \A g \in Gen : pc'[g] \in Inside => pc'[g] = pc[g]
<1>1. ASSUME NEW r \in Row, Arm(r)
      PROVE  /\ \/ UNCHANGED <<pc, gen>>
                \/ gen + 1 \in Gen /\ gen' = gen + 1 /\ pc' = [pc EXCEPT ![gen + 1] = "top"]
             /\ on' => gen' \in Gen
  <2>1. CASE on /\ UNCHANGED <<on, gen, pc>>
    BY <2>1 DEF AtJob
  <2>2. CASE gen < MaxGen /\ gen' = gen + 1 /\ pc' = [pc EXCEPT ![gen + 1] = "top"]
    BY <2>2, CloseAssumption DEF TypeOK, Gen
  <2> QED BY <1>1, <2>1, <2>2 DEF Arm
<1>2. ASSUME ~ \E r \in Row : Arm(r)
      PROVE  UNCHANGED <<pc, gen>> /\ (on' => on)
  <2>1. ASSUME NEW r \in Row, RowStop(r) PROVE UNCHANGED <<pc, gen>> /\ (on' => on)
    <3>1. on' = (on /\ armed' # {})
      BY <2>1 DEF RowStop
    <3>2. on' => on
      BY <3>1, Zenon
    <3> QED BY <2>1, <3>2 DEF RowStop, loop
  <2>2. ASSUME ~ \E r \in Row : RowStop(r) PROVE UNCHANGED <<pc, gen>> /\ (on' => on)
    BY <1>2, <2>2 DEF Member, Stop, Filled, ClosedElsewhere, Disarm, ExitMoved, Entering,
                      GateChanges, vars, app, loop
  <2> QED BY <2>1, <2>2
<1>3. \A g \in Gen : pc'[g] \in Inside => pc'[g] = pc[g]
  BY <1>1, <1>2 DEF TypeOK, Inside
<1>4. on' => gen' \in Gen
  BY <1>1, <1>2 DEF AtJob
<1> QED BY <1>1, <1>2, <1>3, <1>4

LEMMA NextKinds ==
  ASSUME [Next]_vars
  PROVE  \/ Member \/ GateChanges \/ UNCHANGED vars
         \/ Tick \/ Sleep
         \/ \E g \in Gen : LoopStep(g)
  BY DEF Next

LEMMA AtJobStep ==
  ASSUME Base, [Next]_vars PROVE AtJob'
<1> USE DEF Base
<1>1. CASE Member \/ GateChanges \/ UNCHANGED vars
  <2>1. on' => gen' \in Gen
    BY <1>1, MemberLoops
  <2>2. \A g \in Gen : pc'[g] \in Inside => pc'[g] = pc[g]
    BY <1>1, MemberLoops
  <2>3. UNCHANGED <<left, at>>
    BY <1>1, MemberChanges DEF OutsideLoops
  <2>4. ASSUME NEW g \in Gen, pc'[g] \in Inside \ {"look"} PROVE at'[g].job \in left'[g]
    <3>1. pc[g] \in Inside \ {"look"}
      BY <2>2, <2>4
    <3> QED BY <2>3, <3>1 DEF AtJob
  <2> QED BY <2>1, <2>4, Zenon DEF AtJob
<1>2. CASE Tick \/ Sleep
  <2>1. on' = on /\ gen' = gen /\ pc' = pc /\ left' = left /\ at' = at
    BY <1>2, TimePasses
  <2> QED BY <2>1, Zenon DEF AtJob
<1>3. ASSUME NEW g \in Gen, LoopStep(g) PROVE AtJob'
  <2>1. on' => gen' \in Gen
    BY <1>3, LoopChanges DEF AtJob
  <2>2. ASSUME NEW h \in Gen, pc'[h] \in Inside \ {"look"} PROVE at'[h].job \in left'[h]
    <3> USE DEF TypeOK, AtJob, Inside
    <3>1. CASE Top(g)
      BY <2>2, <3>1 DEF Top
    <3>2. CASE Look(g)
      <4>1. CASE EndPass(g)
        BY <2>2, <4>1 DEF EndPass
      <4>2. ASSUME NEW j \in left[g], left' = left,
                   at' = [at EXCEPT ![g] = [Idle EXCEPT !.job = j, !.rt = retry[j]]],
                   \E s \in {"stale", "check"} : pc' = [pc EXCEPT ![g] = s]
            PROVE  at'[h].job \in left'[h]
        BY <2>2, <4>2 DEF Idle
      <4> QED BY <3>2, <4>1, <4>2 DEF Look
    <3>3. CASE GiveUp(g)
      <4>1. /\ pc' = [pc EXCEPT ![g] = "check"] /\ left' = left
            /\ at' = [at EXCEPT ![g] = [at[g] EXCEPT !.rt = NoRetry]]
            /\ pc[g] = "stale"
        BY <3>3 DEF GiveUp
      <4> QED BY <2>2, <4>1
    <3>4. CASE NextJob(g)
      BY <2>2, <3>4 DEF NextJob
    <3>5. CASE Check(g) /\ ~ NextJob(g)
      <4>1. PICK b \in BOOLEAN, c \in BOOLEAN :
              /\ pc' = [pc EXCEPT ![g] = "query"] /\ left' = left /\ pc[g] = "check"
              /\ at' = [at EXCEPT ![g].live = b, ![g].fb = c]
        BY <3>5 DEF Check, Done
      <4>2. at' = [at EXCEPT ![g] = [at[g] EXCEPT !.live = b, !.fb = c]]
        BY <4>1
      <4> HIDE DEF TypeOK
      <4>3. at'[h].job = at[h].job
        BY <4>2 DEF TypeOK
      <4> QED BY <2>2, <4>1, <4>3 DEF TypeOK
    <3>6. CASE Overtaken(g)
      BY <2>2, <3>6 DEF Overtaken, EndPass
    <3>7. CASE StartFlatten(g)
      BY <2>2, <3>7 DEF StartFlatten
    <3> QED
      BY <1>3, <3>1, <3>2, <3>3, <3>4, <3>5, <3>6, <3>7
      DEF LoopStep, NothingOpen, LeftToMember, HeldOn, Done, Flattened, Failed, Fail
  <2> QED BY <2>1, <2>2 DEF AtJob
<1> QED BY <1>1, <1>2, <1>3, NextKinds

LEMMA OpenedStep ==
  ASSUME Base, [Next]_vars PROVE Opened'
<1> USE DEF Base
<1>0. now \in Nat /\ now < Never /\ now # Never
  <2>1. now < Never => now # Never
    BY SMT DEF TypeOK, Time, Never
  <2> QED BY <2>1, Clock DEF TypeOK
<1>1. CASE Tick \/ Sleep
  <2>1. \A a \in Asset : entering[a] # Never => entering[a] <= now'
    <3> SUFFICES ASSUME NEW a \in Asset, entering[a] # Never PROVE entering[a] <= now'
      OBVIOUS
    <3>1. entering[a] \in Time /\ now' \in Time /\ entering[a] <= now /\ now < now'
      BY <1>1, TimePasses DEF TypeOK, Opened
    <3>2. \A n \in Time : n \in Nat
      BY DEF Time
    <3> QED BY <1>0, <3>1, <3>2
  <2> QED BY <1>1, <2>1, TimePasses DEF Opened
<1>2. CASE UNCHANGED <<now, entering, pos, override>>
  BY <1>2 DEF Opened
<1>3. ASSUME NEW a \in Asset, ExitMoved(a) PROVE Opened'
  BY <1>3 DEF ExitMoved, Opened, TypeOK
<1>4. ASSUME NEW a \in Asset, Entering(a) PROVE Opened'
  <2>1. /\ now \in EntryAt[a] /\ entering' = [entering EXCEPT ![a] = now]
        /\ UNCHANGED <<now, pos, override>>
    BY <1>4 DEF Entering, app
  <2>2. \A r \in Row : pos[r] # Never => pos[r] <= now
    <3> SUFFICES ASSUME NEW r \in Row, pos[r] # Never PROVE pos[r] <= now
      OBVIOUS
    <3>1. r[1] \in Asset /\ entering[r[1]] # Never /\ pos[r] <= entering[r[1]]
      BY RowTypes DEF Opened
    <3>2. entering[r[1]] <= now /\ entering[r[1]] \in Time /\ pos[r] \in Time
      BY <3>1 DEF Opened, TypeOK
    <3> QED BY <1>0, <3>1, <3>2 DEF Time
  <2>3. now <= now
    BY <1>0
  <2> QED BY <1>0, <2>1, <2>2, <2>3, RowTypes DEF Opened, TypeOK
<1>5. ASSUME NEW r \in Row, Filled(r) PROVE Opened'
  <2>1. /\ entering[r[1]] = now /\ pos' = [pos EXCEPT ![r] = now]
        /\ UNCHANGED <<now, entering, override>>
    BY <1>5 DEF Filled, app
  <2>2. now \in EntryAt[r[1]] /\ now <= now /\ r[1] \in Asset
    BY <1>0, <2>1, RowTypes DEF Opened
  <2> QED BY <1>0, <2>1, <2>2 DEF Opened, TypeOK
<1>6. ASSUME NEW r \in Row, ClosedElsewhere(r) PROVE Opened'
  BY <1>6 DEF ClosedElsewhere, Opened, TypeOK, app
<1>7. CASE Stop \/ GateChanges \/ UNCHANGED vars
  BY <1>2, <1>7 DEF Stop, GateChanges, vars, app
<1>8. ASSUME NEW r \in Row, Arm(r) \/ RowStop(r) PROVE Opened'
  BY <1>2, <1>8 DEF Arm, RowStop, app
<1>9. ASSUME NEW a \in Asset, Disarm(a) PROVE Opened'
  BY <1>2, <1>9 DEF Disarm, app
<1>10. ASSUME NEW g \in Gen, LoopStep(g) PROVE Opened'
  <2>1. \A r \in Row : pos'[r] = Never \/ pos'[r] = pos[r]
    <3>1. \A r \in Row : Flat(g)[r] = Never \/ Flat(g)[r] = pos[r]
      BY DEF Flat
    <3>2. pos' = pos \/ pos' = Flat(g)
      BY <1>10 DEF LoopStep, Top, Look, GiveUp, Check, NothingOpen, LeftToMember, HeldOn,
                   Overtaken, StartFlatten, Flattened, Failed
    <3> QED BY <3>1, <3>2
  <2>2. UNCHANGED <<now, entering, override>>
    BY <1>10, LoopChanges
  <2> QED BY <2>1, <2>2 DEF Opened
<1> QED
  BY <1>1, <1>3, <1>4, <1>5, <1>6, <1>7, <1>8, <1>9, <1>10 DEF Next, Member

\* A job that is to be closed is due, and its window is not over.
LEMMA DueNow ==
  ASSUME TypeOK, Opened, NEW j \in Job, NEW rt, ToFire(j, rt)
  PROVE  /\ DueBy(j) /\ Cur < EndAt(j) /\ fired[j] # Today
         /\ \E e \in Exits(j, Today - 1) :
              e <= now /\ (j \in Block => e = DayStart + DueAt[j])
<1> DEFINE o == override[JobAsset[j]]
<1>1. /\ Cur \in Nat /\ DayStart \in Nat /\ DayStart = (Today - 1) * DayLen
      /\ now = DayStart + Cur /\ Today - 1 \in Nat /\ Today \in Nat
  BY Clock DEF TypeOK
<1>2. DueAt[j] \in Nat /\ JobAsset[j] \in Asset
  BY CloseAssumption
<1>3. CASE ExitDue(j) = DueAt[j]
  <2>1. DayStart + DueAt[j] <= now
    BY <1>1, <1>2, <1>3 DEF ToFire
  <2>2. DayStart + DueAt[j] \in Exits(j, Today - 1)
    BY <1>1 DEF Exits
  <2> QED BY <2>1, <2>2 DEF DueBy, ToFire
<1>4. CASE ExitDue(j) # DueAt[j]
  <2>1. /\ j \notin Block /\ o # Never /\ o \div DayLen + 1 = Today
        /\ o % DayLen < DueAt[j] /\ ExitDue(j) = o % DayLen
    BY <1>4 DEF ExitDue
  <2>2. o \in Early[JobAsset[j]] /\ o \in Time
    BY <1>2, <2>1 DEF Opened, TypeOK
  <2>3. o \div DayLen \in Nat /\ o % DayLen \in Nat
        /\ o = (o \div DayLen) * DayLen + (o % DayLen)
    BY <2>2, DayOf
  <2>4. o \div DayLen = Today - 1
    <3> DEFINE d == o \div DayLen
    <3>1. d \in Nat /\ d + 1 = Today
      BY <2>1, <2>3
    <3> HIDE DEF d
    <3>2. d = Today - 1
      BY <1>1, <3>1
    <3> QED BY <3>2 DEF d
  <2>5. o \in Exits(j, Today - 1)
    BY <2>1, <2>2, <2>4 DEF Exits
  <2>6. o = DayStart + (o % DayLen)
    BY <1>1, <2>3, <2>4
  <2>7. o % DayLen <= Cur
    BY <2>1 DEF ToFire
  <2>8. o <= now
    <3> HIDE DEF o
    <3> QED BY <1>1, <2>3, <2>6, <2>7
  <2> QED BY <2>1, <2>5, <2>8 DEF DueBy, ToFire
<1> QED BY <1>3, <1>4

\* What was due in this interval stays due on the same day.
LEMMA DueStays ==
  ASSUME TypeOK, NEW j \in Job, DueBy(j), Today' = Today, now' \in Nat, now <= now'
  PROVE  DueBy(j)'
<1>1. PICK e \in Exits(j, Today - 1) : e <= now
  BY DEF DueBy
<1>2. e \in Nat /\ now \in Nat
  <2>1. DayLen \in Nat /\ DueAt[j] \in Nat /\ JobAsset[j] \in Asset /\ Today - 1 \in Nat
    BY CloseAssumption, Clock DEF TypeOK
  <2>2. (Today - 1) * DayLen + DueAt[j] \in Nat
    BY <2>1, SMT
  <2>3. Early[JobAsset[j]] \subseteq Time
    BY <2>1, CloseAssumption
  <2> QED BY <2>2, <2>3, Clock DEF Exits, Time, TypeOK
<1>3. e <= now'
  BY <1>1, <1>2
<1> QED BY <1>1, <1>3 DEF DueBy, Exits

LEMMA InDueStep ==
  ASSUME Base, [Next]_vars PROVE InDue'
<1> USE DEF Base
<1>1. CASE Tick \/ Sleep
  <2>1. \A g \in Gen : pc'[g] \notin {"query", "flat"}
    BY <1>1, TimePasses DEF BetweenJobs
  <2> QED BY <2>1 DEF InDue
<1>2. ASSUME ~ Tick, ~ Sleep PROVE InDue'
  <2>1. now' = now /\ Today' = Today /\ Cur' = Cur /\ now \in Nat
    BY <1>2, TimeStays, Clock DEF TypeOK
  <2>2. \A j \in Job : DueBy(j) => DueBy(j)'
    BY <2>1, DueStays
  <2> SUFFICES ASSUME NEW h \in Gen, pc'[h] \in {"query", "flat"}
               PROVE  (DueBy(at[h].job) /\ Cur < EndAt(at[h].job))'
    BY DEF InDue
  <2>3. CASE pc[h] \in {"query", "flat"} /\ at'[h].job = at[h].job
    <3>1. at[h].job \in Job
      BY <2>3 DEF AtJob, TypeOK, Inside
    <3> QED BY <2>1, <2>2, <2>3, <3>1 DEF InDue
  <2>4. CASE Member \/ GateChanges \/ UNCHANGED vars
    <3>1. pc'[h] = pc[h] /\ at' = at
      BY <2>4, MemberChanges, MemberLoops DEF OutsideLoops, Inside
    <3> QED BY <2>3, <3>1
  <2>5. ASSUME NEW g \in Gen, LoopStep(g)
        PROVE  (DueBy(at[h].job) /\ Cur < EndAt(at[h].job))'
    <3>1. CASE Check(g) /\ ~ NextJob(g)
      <4>1. /\ pc[g] = "check" /\ ToFire(at[g].job, at[g].rt)
            /\ pc' = [pc EXCEPT ![g] = "query"]
            /\ \E b \in BOOLEAN, c \in BOOLEAN : at' = [at EXCEPT ![g].live = b, ![g].fb = c]
        BY <3>1 DEF Check, Done
      <4>2. \A k \in Gen : at'[k].job = at[k].job
        BY <4>1 DEF TypeOK
      <4>3. CASE h = g
        <5>1. at[g].job \in Job
          BY <4>1 DEF AtJob, TypeOK, Inside
        <5>2. DueBy(at[g].job) /\ Cur < EndAt(at[g].job)
          BY <4>1, <5>1, DueNow
        <5> QED BY <2>1, <2>2, <4>2, <4>3, <5>1, <5>2
      <4> QED BY <2>3, <4>1, <4>2, <4>3 DEF TypeOK
    <3>2. CASE NextJob(g) \/ EndPass(g) \/ Top(g) \/ Look(g) \/ GiveUp(g)
      <4>1. h # g /\ pc'[h] = pc[h] /\ at'[h] = at[h]
        <5>1. CASE NextJob(g) \/ EndPass(g) \/ Top(g)
          BY <5>1 DEF TypeOK, NextJob, EndPass, Top
        <5>2. CASE Look(g)
          BY <5>1, <5>2 DEF TypeOK, Look
        <5>3. CASE GiveUp(g)
          BY <5>3 DEF TypeOK, GiveUp
        <5> QED BY <3>2, <5>1, <5>2, <5>3
      <4> QED BY <2>3, <4>1
    <3>3. CASE StartFlatten(g)
      BY <2>3, <3>3 DEF StartFlatten, TypeOK
    <3> QED
      BY <2>5, <3>1, <3>2, <3>3
      DEF LoopStep, NothingOpen, LeftToMember, HeldOn, Done, Overtaken, Flattened, Failed, Fail
  <2> QED BY <1>2, <2>4, <2>5, NextKinds
<1> QED BY <1>1, <1>2

\* What is done for the day is what a loop works on, and is due.
LEMMA FiredStep ==
  ASSUME Base, NEW g \in Gen, LoopStep(g)
  PROVE  \/ fired' = fired
         \/ /\ at[g].job \in Job /\ DueBy(at[g].job) /\ pc[g] \in {"check", "query", "flat"}
            /\ fired' = [fired EXCEPT ![at[g].job] = Today]
            /\ retry' = [retry EXCEPT ![at[g].job] = NoRetry]
            /\ NextJob(g)
            /\ Check(g) => ToFire(at[g].job, at[g].rt) /\ Spared(at[g].job)
<1> USE DEF Base
<1>1. pc[g] \in Inside \ {"look"} => at[g].job \in Job
  BY DEF AtJob, TypeOK
<1>2. CASE Check(g) /\ Done(g)
  <2>1. pc[g] = "check"
    BY <1>2 DEF Check
  <2>2. at[g].job \in Job /\ pc'[g] # "query"
    BY <1>1, <1>2, <2>1 DEF Inside, Done, NextJob, TypeOK
  <2>3. CASE UNCHANGED records
    BY <2>3 DEF records
  <2>4. CASE ToFire(at[g].job, at[g].rt) /\ Spared(at[g].job)
    BY <1>2, <2>1, <2>2, <2>4, DueNow DEF Done
  <2> QED BY <1>2, <2>2, <2>3, <2>4 DEF Check, TypeOK
<1>3. CASE NothingOpen(g) \/ LeftToMember(g) \/ HeldOn(g)
  <2>1. pc[g] = "query" /\ Done(g)
    BY <1>3 DEF NothingOpen, LeftToMember, HeldOn
  <2> QED BY <1>1, <2>1 DEF Inside, Done, InDue, Check
<1>4. CASE Flattened(g)
  BY <1>1, <1>4 DEF Flattened, Inside, InDue, Check
<1>5. CASE Check(g) /\ ~ Done(g)
  BY <1>5 DEF Check, records
<1> QED
  BY <1>2, <1>3, <1>4, <1>5
  DEF LoopStep, Top, Look, GiveUp, Overtaken, StartFlatten, Failed, Fail, records

LEMMA FiredDueStep ==
  ASSUME Base, [Next]_vars PROVE FiredDue'
<1> USE DEF Base
<1>0. Today \in Nat /\ now \in Nat /\ \A j \in Job : fired[j] \in Nat
  BY Clock DEF TypeOK
<1>1. CASE Tick \/ Sleep
  <2> SUFFICES ASSUME NEW j \in Job
               PROVE  fired'[j] <= Today' /\ (fired'[j] = Today' => DueBy(j)')
    BY DEF FiredDue
  <2>1. /\ now \in Time /\ now' \in Time /\ now < now' /\ fired' = fired
    BY <1>1, TimePasses
  <2>2. Today' \in Nat /\ now' \in Nat
    <3>1. now' \div DayLen \in Nat
      BY <2>1, DayOf
    <3> QED BY <2>1, <3>1 DEF Today, Time
  <2>3. CASE Today < Today'
    BY <1>0, <2>1, <2>2, <2>3 DEF FiredDue
  <2>4. CASE Today = Today'
    <3>1. DueBy(j) => DueBy(j)'
      BY <1>0, <2>1, <2>2, <2>4, DueStays
    <3> QED BY <2>1, <2>4, <3>1 DEF FiredDue
  <2> QED BY <2>1, <2>3, <2>4, ClockMoves
<1>2. ASSUME ~ Tick, ~ Sleep PROVE FiredDue'
  <2>1. now' = now /\ Today' = Today
    BY <1>2, TimeStays
  <2>2. \A j \in Job : DueBy(j) => DueBy(j)'
    BY <1>0, <2>1, DueStays
  <2>3. CASE fired' = fired
    BY <2>1, <2>2, <2>3 DEF FiredDue
  <2>4. CASE Member \/ GateChanges \/ UNCHANGED vars
    BY <2>3, <2>4, MemberChanges DEF OutsideLoops
  <2>5. ASSUME NEW g \in Gen, LoopStep(g), fired' # fired PROVE FiredDue'
    <3>1. at[g].job \in Job /\ DueBy(at[g].job) /\ fired' = [fired EXCEPT ![at[g].job] = Today]
      BY <2>5, FiredStep
    <3>2. Today <= Today
      BY <1>0
    <3> QED BY <2>1, <2>2, <3>1, <3>2 DEF FiredDue, TypeOK
  <2> QED BY <1>2, <2>3, <2>4, <2>5, NextKinds
<1> QED BY <1>1, <1>2

LEMMA BaseStep == Base /\ [Next]_vars => Base'
  BY TypeStep, AtJobStep, OpenedStep, InDueStep, FiredDueStep DEF Base

----------------------------------------------------------------------------
(* What is due to be closed is closed, or the member was told.  The entries *)
(* of an asset have to be apart from its exits: from a window before the    *)
(* exit until the end of its own window there is none.                      *)

EntriesApart ==
  \A j \in Job \ (Block \ Expiry), d \in 0 .. Days - 1 :
    ~ (j \in Expiry /\ d + 1 \in Sunday) =>
      \A e \in EntryAt[JobAsset[j]], x \in Exits(j, d) :
        e + Window <= x \/ e >= d * DayLen + EndAt(j)

\* The closes that are the app's today.
Regular(j) == j \in Job \ (Block \ Expiry) /\ ~ (j \in Expiry /\ Today \in Sunday)

\* Nothing is left of what the close was for, or the member knows.
Answered(j) ==
  \/ pos[RowOf(j)] = Never
  \/ pos[RowOf(j)] >= DayStart + DueAt[j]
  \/ Today \in first[j]

Manned(j) == calm /\ on /\ RowOf(j) \in armed /\ gate = "live"

\* What is marked as done is done.
FiredHeld ==
  \A j \in Job :
    Regular(j) /\ calm /\ gate # "dry" /\ fired[j] = Today => Answered(j)

\* A pass answers the jobs it comes by in their windows,
PassHeld ==
  \A j \in Job :
    /\ Regular(j) /\ Manned(j)
    /\ DueAt[j] <= Cur /\ Cur < EndAt(j)
    /\ passed \/ (pc[gen] \in Inside /\ j \notin left[gen])
    => Answered(j)

\* and a pass comes by in each interval.
DayHeld ==
  \A j \in Job : Regular(j) /\ Manned(j) /\ Cur > DueAt[j] => Answered(j)

\* A record of a failure means that the member was told on its day.
RetryTold == \A j \in Job : retry[j] # NoRetry => retry[j].day \in first[j]

AtTold ==
  \A g \in Gen : pc[g] \in {"check", "query", "flat"} =>
    \/ at[g].rt = NoRetry
    \/ at[g].rt.day = Today /\ Today \in first[at[g].job]

\* A loop works under the permission of the moment.
LiveNow ==
  \A g \in Gen : calm /\ pc[g] \in {"query", "flat"} => at[g].live = (gate # "dry")

HoldInv ==
  Base /\ FiredHeld /\ PassHeld /\ DayHeld /\ RetryTold /\ AtTold /\ LiveNow

LEMMA HoldInit ==
  ASSUME Init PROVE HoldInv
<1>1. Base
  BY BaseInit
<1>2. \A j \in Job : Answered(j)
  BY DEF Init, Answered, RowOf, Row
<1>3. RetryTold /\ AtTold /\ LiveNow
  BY DEF Init, RetryTold, AtTold, LiveNow
<1> QED BY <1>1, <1>2, <1>3 DEF HoldInv, FiredHeld, PassHeld, DayHeld

LEMMA JobTypes ==
  ASSUME NEW j \in Job
  PROVE  /\ RowOf(j) \in Row /\ RowOf(j)[1] = JobAsset[j] /\ RowOf(j)[2] = JobAcct[j]
         /\ JobAsset[j] \in Asset /\ DueAt[j] \in Nat /\ Window \in Nat \ {0}
         /\ EndAt(j) = DueAt[j] + Window
  BY CloseAssumption DEF RowOf, Row, EndAt

\* Between two clock times nothing but a disturbance changes who works on what.
LEMMA CalmStays ==
  ASSUME [Next]_vars, ~ Tick, ~ Sleep, calm'
  PROVE  calm /\ UNCHANGED <<on, gen, armed, gate>>
<1>1. CASE Member \/ GateChanges \/ UNCHANGED vars
  BY <1>1 DEF Member, Stop, Arm, RowStop, Filled, ClosedElsewhere, Disarm, ExitMoved,
              Entering, GateChanges, vars, app, history
<1>2. ASSUME NEW g \in Gen, LoopStep(g) PROVE calm /\ UNCHANGED <<on, gen, armed, gate>>
  <2>1. UNCHANGED <<on, gen, armed, gate, calm>>
    BY <1>2, LoopChanges
  <2> QED BY <2>1
<1> QED BY <1>1, <1>2, NextKinds

LEMMA FirstGrows ==
  ASSUME TypeOK, [Next]_vars, NEW j \in Job PROVE first[j] \subseteq first'[j]
<1>1. CASE Member \/ GateChanges \/ UNCHANGED vars
  BY <1>1, MemberChanges DEF OutsideLoops
<1>2. CASE Tick \/ Sleep
  BY <1>2, TimePasses
<1>3. ASSUME NEW g \in Gen, LoopStep(g) PROVE first[j] \subseteq first'[j]
  <2>1. CASE Failed(g)
    <3>1. first' = first \/ first' = [first EXCEPT ![at[g].job] = @ \union {Today}]
      BY <2>1 DEF Failed, Fail
    <3> QED BY <3>1 DEF TypeOK
  <2>2. CASE ~ Failed(g)
    BY <1>3, <2>2
    DEF LoopStep, Top, Look, GiveUp, Check, Done, NothingOpen, LeftToMember, HeldOn,
        Overtaken, StartFlatten, Flattened
  <2> QED BY <2>1, <2>2
<1> QED BY <1>1, <1>2, <1>3, NextKinds

\* What a step does to a position.
LEMMA PositionStep ==
  ASSUME TypeOK, [Next]_vars, NEW r \in Row
  PROVE  \/ pos'[r] = pos[r] \/ pos'[r] = Never
         \/ pos'[r] = now /\ entering[r[1]] = now /\ Filled(r)
<1>1. ASSUME NEW q \in Row, Filled(q)
      PROVE  pos'[r] = pos[r] \/ (pos'[r] = now /\ entering[r[1]] = now /\ Filled(r))
  BY <1>1 DEF Filled, TypeOK
<1>2. ASSUME NEW q \in Row, ClosedElsewhere(q) PROVE pos'[r] = pos[r] \/ pos'[r] = Never
  BY <1>2 DEF ClosedElsewhere, TypeOK
<1>3. ASSUME NEW g \in Gen, LoopStep(g) PROVE pos'[r] = pos[r] \/ pos'[r] = Never
  <2>1. pos' = pos \/ pos' = Flat(g)
    BY <1>3 DEF LoopStep, Top, Look, GiveUp, Check, NothingOpen, LeftToMember, HeldOn,
                Overtaken, StartFlatten, Flattened, Failed
  <2> QED BY <2>1 DEF Flat
<1>4. CASE Tick \/ Sleep
  BY <1>4, TimePasses
<1>5. CASE Stop \/ GateChanges \/ UNCHANGED vars
  BY <1>5 DEF Stop, GateChanges, vars
<1>6. ASSUME NEW q \in Row, Arm(q) \/ RowStop(q) PROVE pos'[r] = pos[r]
  BY <1>6 DEF Arm, RowStop
<1>7. ASSUME NEW a \in Asset, Disarm(a) \/ ExitMoved(a) \/ Entering(a) PROVE pos'[r] = pos[r]
  BY <1>7 DEF Disarm, ExitMoved, Entering
<1> QED BY <1>1, <1>2, <1>3, <1>4, <1>5, <1>6, <1>7 DEF Next, Member

\* No entry falls between the exit and the end of its window.
LEMMA NoEntryDue ==
  ASSUME EntriesApart, TypeOK, NEW j \in Job, Regular(j), DueBy(j), Cur < EndAt(j),
         NEW e \in EntryAt[JobAsset[j]], e <= now
  PROVE  \E x \in Exits(j, Today - 1) : e + Window <= x /\ x <= now /\ x \in Nat /\ e \in Nat
<1>1. /\ Today - 1 \in 0 .. Days - 1 /\ (Today - 1) + 1 = Today /\ Today - 1 \in Nat
      /\ DayStart \in Nat /\ DayStart = (Today - 1) * DayLen
      /\ now = DayStart + Cur /\ now \in Nat /\ Cur \in Nat
  BY Clock DEF TypeOK
<1>2. PICK x \in Exits(j, Today - 1) : x <= now
  BY DEF DueBy
<1>3. e \in Nat /\ x \in Nat
  <2>1. JobAsset[j] \in Asset /\ DueAt[j] \in Nat
    BY JobTypes
  <2>2. EntryAt[JobAsset[j]] \subseteq Time /\ Early[JobAsset[j]] \subseteq Time
    BY <2>1, CloseAssumption
  <2> QED BY <1>1, <2>1, <2>2 DEF Exits, Time
<1>4. e + Window <= x \/ e >= DayStart + EndAt(j)
  BY <1>1, <1>2 DEF EntriesApart, Regular
<1>5. EndAt(j) \in Nat
  BY JobTypes
<1>6. ~ (e >= DayStart + EndAt(j))
  BY <1>1, <1>3, <1>5
<1> QED BY <1>2, <1>3, <1>4, <1>6

LEMMA NotSpared ==
  ASSUME EntriesApart, Base, NEW j \in Job, NEW rt, Regular(j), ToFire(j, rt)
  PROVE  ~ Spared(j)
<1> DEFINE e == entering[JobAsset[j]]
<1>1. DueBy(j) /\ Cur < EndAt(j)
  BY DueNow DEF Base
<1>2. CASE e # Never
  <2>1. e \in EntryAt[JobAsset[j]] /\ e <= now
    BY <1>2, JobTypes DEF Base, Opened
  <2>2. PICK x \in Exits(j, Today - 1) : e + Window <= x /\ x <= now /\ x \in Nat /\ e \in Nat
    BY <1>1, <2>1, NoEntryDue DEF Base
  <2>3. now \in Nat /\ Window \in Nat
    BY Clock, CloseAssumption DEF Base, TypeOK
  <2>4. ~ (now - e < Window)
    <3> HIDE DEF e
    <3> QED BY <2>2, <2>3
  <2> QED BY <2>4 DEF Spared, Regular
<1>3. CASE e = Never
  BY <1>3 DEF Spared, Regular
<1> QED BY <1>2, <1>3

\* What is answered stays so for the day.
LEMMA AnsweredStays ==
  ASSUME EntriesApart, Base, [Next]_vars, ~ Tick, ~ Sleep,
         NEW j \in Job, Regular(j), DueBy(j), Answered(j)
  PROVE  Answered(j)'
<1> USE DEF Base
<1>1. now' = now /\ Today' = Today /\ DayStart' = DayStart
  BY TimeStays
<1>2. first[j] \subseteq first'[j]
  BY FirstGrows
<1>3. RowOf(j) \in Row /\ RowOf(j)[1] = JobAsset[j] /\ JobAsset[j] \in Asset
  BY JobTypes
<1>4. CASE pos'[RowOf(j)] = pos[RowOf(j)] \/ pos'[RowOf(j)] = Never
  BY <1>1, <1>2, <1>4 DEF Answered, RowOf
<1>5. CASE pos'[RowOf(j)] = now /\ entering[JobAsset[j]] = now
  <2>0. /\ now \in Nat /\ now # Never /\ DayStart \in Nat /\ Cur \in Nat
        /\ now = DayStart + Cur
    <3>1. now < Never => now # Never
      BY SMT DEF Never, TypeOK, Time
    <3> QED BY <3>1, Clock DEF TypeOK
  <2>1. now \in EntryAt[JobAsset[j]] /\ now <= now
    BY <1>3, <1>5, <2>0 DEF Opened
  <2>2. Cur >= EndAt(j)
    <3> SUFFICES ASSUME Cur < EndAt(j) PROVE FALSE
      BY <2>0, JobTypes
    <3>1. PICK x \in Exits(j, Today - 1) : now + Window <= x /\ x <= now /\ x \in Nat
      BY <2>1, NoEntryDue
    <3> QED BY <2>0, <3>1, JobTypes
  <2>3. now >= DayStart + DueAt[j]
    BY <2>0, <2>2, JobTypes
  <2> QED BY <1>1, <1>5, <2>3 DEF Answered, RowOf
<1> QED BY <1>3, <1>4, <1>5, PositionStep

\* From its hour on a job is due.
LEMMA DueHour ==
  ASSUME TypeOK, NEW j \in Job, DueAt[j] <= Cur PROVE DueBy(j)
<1>1. (Today - 1) * DayLen + DueAt[j] <= now
  BY Clock, JobTypes DEF TypeOK
<1> QED BY <1>1 DEF DueBy, Exits

\* A job that the loop leaves as done has been answered.
LEMMA DoneAnswers ==
  ASSUME EntriesApart, HoldInv, NEW g \in Gen, LoopStep(g), fired' # fired,
         Regular(at[g].job), calm, gate # "dry"
  PROVE  pos'[RowOf(at[g].job)] = Never
<1> DEFINE j == at[g].job
<1> USE DEF HoldInv
<1>1. /\ j \in Job /\ pc[g] \in {"check", "query", "flat"}
      /\ Check(g) => ToFire(j, at[g].rt) /\ Spared(j)
  <2>1. Base
    OBVIOUS
  <2> QED BY <2>1, FiredStep
<1>2. ~ Check(g)
  <2>1. Base
    OBVIOUS
  <2> QED BY <1>1, <2>1, NotSpared
<1>3. CASE NothingOpen(g)
  BY <1>3 DEF NothingOpen, RowOf
<1>4. ~ LeftToMember(g) /\ ~ HeldOn(g)
  BY DEF LeftToMember, HeldOn, Candle, Regular
<1>5. CASE Flattened(g)
  <2>1. at[g].live
    BY <1>5 DEF Flattened, LiveNow
  <2>2. RowOf(j) \in Row /\ RowOf(j)[2] = JobAcct[j]
    BY <1>1, JobTypes
  <2>3. Flat(g)[RowOf(j)] = Never
    BY <2>1, <2>2, Zenon DEF Flat
  <2> QED BY <1>5, <2>3 DEF Flattened
<1> QED
  BY <1>2, <1>3, <1>4, <1>5
  DEF LoopStep, Top, Look, GiveUp, Overtaken, StartFlatten, Failed, Fail, records

LEMMA FiredHeldStep ==
  ASSUME EntriesApart, HoldInv, [Next]_vars PROVE FiredHeld'
<1> USE DEF HoldInv
<1>0. Base /\ TypeOK /\ Today \in Nat
  BY Clock DEF Base, TypeOK
<1> SUFFICES ASSUME NEW j \in Job, Regular(j)', calm', (gate # "dry")', (fired[j] = Today)'
             PROVE  Answered(j)'
  BY DEF FiredHeld
<1>1. CASE Tick \/ Sleep
  <2>1. /\ now \in Time /\ now' \in Time /\ now < now' /\ UNCHANGED <<fired, gate, pos, first>>
    BY <1>0, <1>1, TimePasses
  <2>2. Today = Today' /\ DayStart = DayStart'
    <3>1. fired[j] \in Nat /\ Today' \in Nat /\ fired[j] <= Today
      <4>1. now' \div DayLen \in Nat
        BY <2>1, DayOf
      <4> QED BY <1>0, <4>1 DEF Base, TypeOK, FiredDue, Today
    <3>2. ~ (Today < Today')
      BY <1>0, <2>1, <3>1
    <3> QED BY <2>1, <3>2, ClockMoves
  <2>3. calm
    BY <1>1, <2>1 DEF Tick, Sleep
  <2>4. Answered(j)
    BY <2>1, <2>2, <2>3 DEF FiredHeld, Regular
  <2> QED BY <2>1, <2>2, <2>4 DEF Answered, RowOf
<1>2. ASSUME ~ Tick, ~ Sleep PROVE Answered(j)'
  <2>1. Today' = Today /\ calm /\ gate' = gate
    BY <1>2, TimeStays, CalmStays
  <2>2. Regular(j)
    BY <2>1 DEF Regular
  <2>3. CASE fired[j] = Today
    <3>1. Answered(j) /\ DueBy(j)
      BY <1>0, <2>1, <2>2, <2>3 DEF FiredHeld, Base, FiredDue
    <3> QED BY <1>0, <1>2, <2>2, <3>1, AnsweredStays
  <2>4. ASSUME NEW g \in Gen, LoopStep(g), fired[j] # Today PROVE Answered(j)'
    <3>1. fired' # fired /\ j = at[g].job
      <4>1. fired' # fired
        BY <2>1, <2>4
      <4>2. fired' = [fired EXCEPT ![at[g].job] = Today]
        BY <1>0, <2>4, <4>1, FiredStep
      <4> QED BY <1>0, <2>1, <2>4, <4>1, <4>2 DEF TypeOK
    <3>2. pos'[RowOf(j)] = Never
      BY <2>1, <2>2, <2>4, <3>1, DoneAnswers
    <3> QED BY <3>2 DEF Answered, RowOf
  <2>5. CASE Member \/ GateChanges \/ UNCHANGED vars
    BY <2>1, <2>3, <2>5, MemberChanges DEF OutsideLoops
  <2> QED BY <1>2, <2>3, <2>4, <2>5, NextKinds
<1> QED BY <1>1, <1>2

\* A failure is told when it is the first, and was when it is not.
LEMMA FailTells ==
  ASSUME TypeOK, AtTold, NEW g \in Gen, pc[g] \in {"query", "flat"}, at[g].job \in Job, Fail(g)
  PROVE  Today \in first'[at[g].job]
<1>1. CASE at[g].rt.n + 1 = 1
  BY <1>1 DEF Fail, TypeOK
<1>2. CASE at[g].rt.n + 1 # 1
  <2>1. at[g].rt # NoRetry
    BY <1>2 DEF NoRetry
  <2> QED BY <1>2, <2>1 DEF AtTold, Fail
<1> QED BY <1>1, <1>2

LEMMA RetryToldStep ==
  ASSUME HoldInv, [Next]_vars PROVE RetryTold'
<1> USE DEF HoldInv
<1>0. Base /\ TypeOK
  BY DEF Base
<1> SUFFICES ASSUME NEW j \in Job, retry'[j] # NoRetry PROVE retry'[j].day \in first'[j]
  BY DEF RetryTold
<1>1. CASE retry'[j] = retry[j]
  BY <1>0, <1>1, FirstGrows DEF RetryTold
<1>2. CASE Member \/ GateChanges \/ UNCHANGED vars
  BY <1>1, <1>2, MemberChanges DEF OutsideLoops
<1>3. CASE Tick \/ Sleep
  BY <1>0, <1>1, <1>3, TimePasses
<1>4. ASSUME NEW g \in Gen, LoopStep(g), retry'[j] # retry[j] PROVE retry'[j].day \in first'[j]
  <2>1. CASE Failed(g)
    <3>1. pc[g] \in {"query", "flat"} /\ Fail(g)
      BY <2>1 DEF Failed
    <3>2. at[g].job \in Job
      BY <1>0, <3>1 DEF Base, AtJob, TypeOK, Inside
    <3>3. j = at[g].job /\ retry'[j].day = Today
      BY <1>0, <1>4, <3>1 DEF Fail, TypeOK
    <3> QED BY <1>0, <3>1, <3>2, <3>3, FailTells
  <2>2. CASE GiveUp(g)
    BY <1>0, <1>4, <2>2 DEF GiveUp, TypeOK
  <2>3. CASE fired' # fired
    BY <1>0, <1>4, <2>3, FiredStep DEF TypeOK
  <2>4. CASE Check(g) /\ ~ Done(g)
    BY <1>4, <2>4 DEF Check, records
  <2>5. CASE Done(g) \/ Flattened(g)
    BY <1>0, <1>4, <2>5 DEF Done, Flattened, TypeOK
  <2> QED
    BY <1>4, <2>1, <2>2, <2>3, <2>4, <2>5
    DEF LoopStep, Top, Look, NothingOpen, LeftToMember, HeldOn, Overtaken, StartFlatten, records
<1> QED BY <1>1, <1>2, <1>3, <1>4, NextKinds

LEMMA AtToldStep ==
  ASSUME HoldInv, [Next]_vars PROVE AtTold'
<1> USE DEF HoldInv
<1>0. Base /\ TypeOK
  BY DEF Base
<1>1. CASE Tick \/ Sleep
  <2>1. \A g \in Gen : pc'[g] \notin {"check", "query", "flat"}
    BY <1>0, <1>1, TimePasses DEF BetweenJobs
  <2> QED BY <2>1 DEF AtTold
<1>2. ASSUME ~ Tick, ~ Sleep PROVE AtTold'
  <2>1. Today' = Today
    BY <1>2, TimeStays
  <2> SUFFICES ASSUME NEW h \in Gen, pc'[h] \in {"check", "query", "flat"}
               PROVE  \/ at'[h].rt = NoRetry
                      \/ at'[h].rt.day = Today /\ Today \in first'[at'[h].job]
    BY <2>1 DEF AtTold
  <2> DEFINE G == \/ at'[h].rt = NoRetry
                  \/ at'[h].rt.day = Today /\ Today \in first'[at'[h].job]
  <2>2. CASE /\ pc[h] \in {"check", "query", "flat"}
             /\ at'[h].job = at[h].job /\ at'[h].rt = at[h].rt
    <3>1. at[h].job \in Job
      BY <1>0, <2>2 DEF Base, AtJob, TypeOK, Inside
    <3> QED BY <1>0, <2>2, <3>1, FirstGrows DEF AtTold
  <2>3. CASE Member \/ GateChanges \/ UNCHANGED vars
    <3>1. pc'[h] = pc[h] /\ at' = at
      BY <1>0, <2>3, MemberChanges, MemberLoops DEF OutsideLoops, Inside, Base
    <3> QED BY <2>2, <3>1
  <2>4. ASSUME NEW g \in Gen, LoopStep(g), h # g PROVE G
    <3>1. pc'[h] = pc[h] /\ at'[h] = at[h]
      BY <1>0, <2>4 DEF LoopStep, Top, Look, GiveUp, Check, NothingOpen, LeftToMember, HeldOn,
                  Overtaken, StartFlatten, Flattened, Failed, Fail, Done, NextJob, EndPass, TypeOK
    <3> QED BY <2>2, <3>1
  <2>5. CASE LoopStep(h)
    <3>1. CASE Look(h)
      <4>1. pc'[h] # "top"
        OBVIOUS
      <4>2. PICK j \in left[h] :
              /\ at' = [at EXCEPT ![h] = [Idle EXCEPT !.job = j, !.rt = retry[j]]]
              /\ pc' = [pc EXCEPT ![h] = IF Stale(j, retry[j]) THEN "stale" ELSE "check"]
        BY <1>0, <3>1, <4>1 DEF Look, EndPass, TypeOK
      <4>3. j \in Job /\ at'[h].rt = retry[j] /\ at'[h].job = j
        BY <1>0, <4>2 DEF TypeOK, Idle
      <4>4. ~ Stale(j, retry[j])
        BY <1>0, <4>2 DEF TypeOK
      <4>5. retry[j] = NoRetry \/ retry[j].day = Today
        BY <4>4 DEF Stale
      <4>6. retry[j] # NoRetry => retry[j].day \in first[j]
        BY <4>3 DEF RetryTold
      <4> QED BY <1>0, <4>3, <4>5, <4>6, FirstGrows
    <3>2. CASE GiveUp(h)
      BY <1>0, <3>2 DEF GiveUp, TypeOK
    <3>3. CASE Check(h) /\ ~ NextJob(h)
      <4>1. /\ pc[h] = "check" /\ pc' = [pc EXCEPT ![h] = "query"]
            /\ \E b \in BOOLEAN, c \in BOOLEAN : at' = [at EXCEPT ![h].live = b, ![h].fb = c]
        BY <3>3 DEF Check, Done
      <4>2. at'[h].job = at[h].job /\ at'[h].rt = at[h].rt
        BY <1>0, <4>1 DEF TypeOK
      <4> QED BY <2>2, <4>1, <4>2
    <3>4. CASE StartFlatten(h)
      BY <2>2, <3>4 DEF StartFlatten
    <3>5. ~ NextJob(h) /\ ~ EndPass(h) /\ ~ Top(h)
      BY <1>0 DEF NextJob, EndPass, Top, TypeOK
    <3> QED
      BY <2>5, <3>1, <3>2, <3>3, <3>4, <3>5
      DEF LoopStep, NothingOpen, LeftToMember, HeldOn, Done, Overtaken, Flattened, Failed, Fail
  <2> QED BY <1>2, <2>3, <2>4, <2>5, NextKinds
<1> QED BY <1>1, <1>2

LEMMA LiveNowStep ==
  ASSUME HoldInv, [Next]_vars PROVE LiveNow'
<1> USE DEF HoldInv
<1>0. Base /\ TypeOK
  BY DEF Base
<1>1. CASE Tick \/ Sleep
  <2>1. \A g \in Gen : pc'[g] \notin {"check", "query", "flat"}
    BY <1>0, <1>1, TimePasses DEF BetweenJobs
  <2> QED BY <2>1 DEF LiveNow
<1>2. ASSUME ~ Tick, ~ Sleep PROVE LiveNow'
  <2> SUFFICES ASSUME NEW h \in Gen, calm', pc'[h] \in {"query", "flat"}
               PROVE  at'[h].live = (gate # "dry")'
    BY DEF LiveNow
  <2>1. calm /\ gate' = gate
    BY <1>2, CalmStays
  <2>2. CASE pc[h] \in {"query", "flat"} /\ at'[h].live = at[h].live
    BY <2>1, <2>2 DEF LiveNow
  <2>3. CASE Member \/ GateChanges \/ UNCHANGED vars
    <3>1. pc'[h] = pc[h] /\ at' = at
      BY <1>0, <2>3, MemberChanges, MemberLoops DEF OutsideLoops, Inside, Base
    <3> QED BY <2>2, <3>1
  <2>4. ASSUME NEW g \in Gen, LoopStep(g), h # g PROVE at'[h].live = (gate # "dry")'
    <3>1. pc'[h] = pc[h] /\ at'[h] = at[h]
      BY <1>0, <2>4 DEF LoopStep, Top, Look, GiveUp, Check, NothingOpen, LeftToMember, HeldOn,
                  Overtaken, StartFlatten, Flattened, Failed, Fail, Done, NextJob, EndPass, TypeOK
    <3> QED BY <2>2, <3>1
  <2>5. CASE LoopStep(h)
    <3>1. CASE Check(h) /\ ~ NextJob(h)
      <4>1. at' = [at EXCEPT ![h].live = (gate # "dry"), ![h].fb = (gate = "fallback")]
        BY <3>1 DEF Check, Done
      <4>2. at'[h].live = (gate # "dry")
        BY <1>0, <4>1 DEF TypeOK
      <4> QED BY <2>1, <4>2
    <3>2. CASE StartFlatten(h)
      BY <2>2, <3>2 DEF StartFlatten
    <3>3. ~ NextJob(h) /\ ~ EndPass(h) /\ ~ Top(h) /\ ~ Look(h) /\ ~ GiveUp(h)
      BY <1>0 DEF NextJob, EndPass, Top, Look, GiveUp, TypeOK
    <3> QED
      BY <2>5, <3>1, <3>2, <3>3
      DEF LoopStep, NothingOpen, LeftToMember, HeldOn, Done, Overtaken, Flattened, Failed, Fail
  <2> QED BY <1>2, <2>3, <2>4, <2>5, NextKinds
<1> QED BY <1>1, <1>2

\* The loop leaves a job in its window only when it is answered.
LEMMA LeavesAnswered ==
  ASSUME EntriesApart, HoldInv, [Next]_vars, NEW g \in Gen, LoopStep(g), NextJob(g),
         calm, gate = "live", pc[g] \in Inside \ {"look"},
         NEW j \in Job, j = at[g].job, Regular(j), DueAt[j] <= Cur, Cur < EndAt(j)
  PROVE  Answered(j)'
<1> USE DEF HoldInv
<1>0. Base /\ TypeOK
  BY DEF Base
<1>2. ~ Tick /\ ~ Sleep
  <2>1. ASSUME Tick \/ Sleep PROVE FALSE
    BY <1>0, <2>1, TimePasses DEF BetweenJobs, Inside
  <2> QED BY <2>1
<1>3. Today' = Today /\ gate' = gate /\ calm' = calm
  BY <1>2, TimeStays, LoopChanges
<1>4. DueBy(j)
  BY <1>0, DueHour
<1>5. ASSUME Answered(j) PROVE Answered(j)'
  BY <1>0, <1>2, <1>4, <1>5, AnsweredStays
<1>6. ASSUME Today \in first'[j] PROVE Answered(j)'
  BY <1>3, <1>6 DEF Answered
<1>7. CASE fired' # fired
  <2>1. pos'[RowOf(j)] = Never
    BY <1>7, DoneAnswers
  <2> QED BY <2>1 DEF Answered, RowOf
<1>8. CASE Failed(g)
  <2>1. pc[g] \in {"query", "flat"} /\ Fail(g)
    BY <1>8 DEF Failed
  <2> QED BY <1>0, <1>6, <2>1, FailTells
<1>9. CASE Check(g) /\ ~ ToFire(j, at[g].rt)
  <2>1. /\ now \in Nat /\ Cur \in Nat /\ DueAt[j] \in Nat /\ Today \in Nat
        /\ at[g].rt \in Retry
    BY <1>0, JobTypes, Clock DEF TypeOK
  <2>2. ExitDue(j) <= Cur
    <3>1. ExitDue(j) = DueAt[j] \/ ExitDue(j) < DueAt[j]
      BY DEF ExitDue
    <3>2. ExitDue(j) \in Nat
      <4>1. override[JobAsset[j]] # Never => override[JobAsset[j]] \in Time
        BY <1>0, JobTypes DEF TypeOK
      <4> QED BY <2>1, <4>1, DayOf DEF ExitDue
    <3> QED BY <2>1, <3>1, <3>2
  <2>3. CASE fired[j] = Today
    <3>1. Answered(j)
      BY <2>3 DEF FiredHeld
    <3> QED BY <1>5, <3>1
  <2>4. CASE ~ (now >= at[g].rt.next)
    <3>1. at[g].rt # NoRetry
      BY <2>1, <2>4 DEF NoRetry
    <3>2. Today \in first[j]
      BY <1>9, <3>1 DEF Check, AtTold
    <3> QED BY <1>5, <3>2 DEF Answered
  <2> QED BY <1>9, <2>2, <2>3, <2>4 DEF ToFire
<1>10. CASE Done(g) \/ Flattened(g)
  <2>1. CASE fired' = fired
    <3>1. fired[j] = Today
      BY <1>0, <1>10, <2>1 DEF Done, Flattened, TypeOK
    <3>2. Answered(j)
      BY <3>1 DEF FiredHeld
    <3> QED BY <1>5, <3>2
  <2> QED BY <1>7, <2>1
<1>11. ~ Top(g) /\ ~ Look(g) /\ ~ GiveUp(g) /\ ~ Overtaken(g) /\ ~ StartFlatten(g)
  <2>1. pc'[g] = "look" /\ pc[g] # "look"
    BY <1>0 DEF NextJob, TypeOK
  <2> QED
    BY <1>0, <2>1 DEF Top, Look, GiveUp, Overtaken, StartFlatten, EndPass, TypeOK, Inside
<1>12. CASE Check(g) /\ ToFire(j, at[g].rt) /\ ~ Done(g)
  BY <1>0, <1>12 DEF Check, NextJob, TypeOK
<1> QED
  BY <1>8, <1>9, <1>10, <1>11, <1>12
  DEF LoopStep, NothingOpen, LeftToMember, HeldOn

LEMMA PassHeldStep ==
  ASSUME EntriesApart, HoldInv, [Next]_vars PROVE PassHeld'
<1> USE DEF HoldInv
<1>0. Base /\ TypeOK
  BY DEF Base
<1> SUFFICES ASSUME NEW j \in Job, Regular(j)', Manned(j)', (DueAt[j] <= Cur)',
                    (Cur < EndAt(j))', (passed \/ (pc[gen] \in Inside /\ j \notin left[gen]))'
             PROVE  Answered(j)'
  BY DEF PassHeld
<1>1. ASSUME Tick \/ Sleep PROVE FALSE
  <2>1. /\ passed' = FALSE /\ on' = on /\ gen' = gen /\ pc' = pc /\ BetweenJobs
    BY <1>0, <1>1, TimePasses
  <2>2. gen \in Gen
    <3>1. on
      BY <2>1, Zenon DEF Manned
    <3> QED BY <1>0, <3>1 DEF Base, AtJob
  <2>3. pc[gen] \in Inside
    BY <2>1
  <2> QED BY <2>1, <2>2, <2>3 DEF BetweenJobs, Inside
<1>2. now' = now /\ Today' = Today /\ Cur' = Cur /\ DayStart' = DayStart
  BY <1>1, TimeStays
<1>3. calm /\ UNCHANGED <<on, gen, armed, gate>>
  BY <1>1, CalmStays DEF Manned
<1>4. Regular(j) /\ Manned(j) /\ DueAt[j] <= Cur /\ Cur < EndAt(j)
  <2>1. Regular(j) /\ DueAt[j] <= Cur /\ Cur < EndAt(j)
    BY <1>2 DEF Regular, EndAt
  <2>2. on /\ RowOf(j) \in armed /\ gate = "live"
    BY <1>3 DEF Manned, RowOf
  <2> QED BY <1>3, <2>1, <2>2 DEF Manned
<1>5. gen \in Gen
  BY <1>0, <1>4 DEF Base, AtJob, Manned
<1>6. CASE passed \/ (pc[gen] \in Inside /\ j \notin left[gen])
  <2>1. Answered(j)
    BY <1>4, <1>6 DEF PassHeld
  <2>2. DueBy(j)
    BY <1>0, <1>4, DueHour
  <2> QED BY <1>0, <1>1, <1>4, <2>1, <2>2, AnsweredStays
<1>7. ASSUME ~ (passed \/ (pc[gen] \in Inside /\ j \notin left[gen])) PROVE Answered(j)'
  <2>1. CASE Member \/ GateChanges \/ UNCHANGED vars
    <3>1. ~ passed'
      BY <1>7, <2>1
      DEF Member, Stop, Arm, RowStop, Filled, ClosedElsewhere, Disarm, ExitMoved, Entering,
          GateChanges, vars, history
    <3>2. pc[gen] = pc'[gen] /\ left' = left
      BY <1>0, <1>3, <1>5, <2>1, <3>1, MemberChanges, MemberLoops DEF OutsideLoops, Base
    <3> QED BY <1>3, <1>7, <3>1, <3>2
  <2>2. ASSUME NEW g \in Gen, LoopStep(g), g # gen PROVE Answered(j)'
    <3>1. pc'[gen] = pc[gen] /\ left'[gen] = left[gen]
      BY <1>0, <1>5, <2>2
      DEF LoopStep, Top, Look, GiveUp, Check, NothingOpen, LeftToMember, HeldOn,
                  Overtaken, StartFlatten, Flattened, Failed, Fail, Done, NextJob, EndPass, TypeOK
    <3>2. ~ passed'
      BY <1>7, <2>2 DEF LoopStep, Top, Look, GiveUp, Check, NothingOpen, LeftToMember, HeldOn,
                  Overtaken, StartFlatten, Flattened, Failed, Mine
    <3> QED BY <1>3, <1>7, <3>1, <3>2
  <2>3. CASE LoopStep(gen)
    <3>1. CASE NextJob(gen)
      <4>1. pc[gen] \in Inside \ {"look"} /\ UNCHANGED passed
        <5>1. pc'[gen] = "look" /\ left' = [left EXCEPT ![gen] = @ \ {at[gen].job}]
          BY <1>0, <1>5, <3>1 DEF NextJob, TypeOK
        <5>2. pc[gen] # "look"
          BY <1>0, <1>5, <2>3, <5>1
          DEF LoopStep, Top, Look, GiveUp, Check, NothingOpen, LeftToMember, HeldOn,
              Overtaken, StartFlatten, Flattened, Failed, EndPass, TypeOK
        <5>3. ~ Top(gen) /\ ~ Look(gen)
          <6>1. ASSUME Top(gen) PROVE FALSE
            BY <1>0, <1>3, <1>4, <1>5, <5>1, <6>1, <1>7
            DEF Top, TypeOK, NextJob, Mine, Manned, Inside
          <6> QED BY <5>2, <6>1 DEF Look
        <5> QED
          BY <1>0, <1>5, <2>3, <5>2, <5>3
          DEF LoopStep, GiveUp, Check, NothingOpen, LeftToMember, HeldOn, Overtaken, StartFlatten,
              Flattened, Failed, TypeOK, Inside
      <4>2. j = at[gen].job
        <5>1. j \notin left'[gen]
          BY <1>3, <1>7, <4>1
        <5>2. j \in left[gen]
          BY <1>7, <4>1
        <5> QED BY <1>0, <1>5, <3>1, <5>1, <5>2 DEF NextJob, TypeOK
      <4> QED BY <1>3, <1>4, <1>5, <2>3, <3>1, <4>1, <4>2, LeavesAnswered DEF Manned
    <3>2. CASE Top(gen)
      <4>1. /\ on /\ Mine(gen)
        BY <1>4 DEF Manned, Mine
      <4>2. left' = [left EXCEPT ![gen] = {k \in Job : RowOf(k) \in armed}] /\ passed' = passed
        BY <3>2, <4>1 DEF Top
      <4>3. j \in left'[gen]
        BY <1>0, <1>4, <1>5, <4>2 DEF TypeOK, Manned
      <4> QED BY <1>3, <1>7, <4>2, <4>3
    <3>3. CASE EndPass(gen) /\ pc[gen] \in Inside
      <4>1. pc'[gen] = "top"
        BY <1>0, <1>5, <3>3 DEF EndPass, TypeOK
      <4>2. passed'
        BY <1>3, <4>1 DEF Inside
      <4>3. left[gen] = {}
        BY <1>7, <2>3, <4>2
        DEF LoopStep, Top, Look, GiveUp, Check, NothingOpen, LeftToMember, HeldOn,
            Overtaken, StartFlatten, Flattened, Failed, Mine
      <4> QED BY <1>7, <3>3, <4>3
    <3>4. ASSUME UNCHANGED <<left, passed>>, pc[gen] \in Inside PROVE Answered(j)'
      BY <1>3, <1>7, <3>4
    <3>5. CASE Look(gen) /\ ~ EndPass(gen)
      BY <3>4, <3>5 DEF Look, Inside
    <3>6. CASE Check(gen) /\ ~ NextJob(gen)
      BY <3>4, <3>6 DEF Check, Done, Inside
    <3> QED
      BY <2>3, <3>1, <3>2, <3>3, <3>4, <3>5, <3>6
      DEF LoopStep, Look, GiveUp, NothingOpen, LeftToMember, HeldOn, Done, Overtaken,
          StartFlatten, Flattened, Failed, Fail, Inside
  <2> QED BY <1>1, <2>1, <2>2, <2>3, NextKinds
<1> QED BY <1>6, <1>7

LEMMA DayHeldStep ==
  ASSUME EntriesApart, HoldInv, [Next]_vars PROVE DayHeld'
<1> USE DEF HoldInv
<1>0. Base /\ TypeOK
  BY DEF Base
<1> SUFFICES ASSUME NEW j \in Job, Regular(j)', Manned(j)', (Cur > DueAt[j])'
             PROVE  Answered(j)'
  BY DEF DayHeld
<1>1. ~ Sleep
  BY DEF Sleep, Manned
<1>2. CASE Tick
  <2>1. /\ now \in Time /\ now' \in Time /\ now' = now + 1
        /\ UNCHANGED <<on, gate, armed, pos, first>>
    BY <1>0, <1>2, TimePasses DEF Tick
  <2>2. Cur \in Nat /\ DueAt[j] \in Nat /\ Window \in Nat \ {0} /\ EndAt(j) = DueAt[j] + Window
    BY <1>0, JobTypes, Clock DEF TypeOK
  <2>3. Today = Today' /\ DayStart = DayStart' /\ Cur' = Cur + 1
    <3>1. Cur' # 0
      BY <2>2
    <3> QED BY <2>1, <3>1, ClockTicks
  <2>4. calm
    <3>1. ~ (Cur' <= DueAt[j])
      BY <2>2, <2>3
    <3>2. calm' = (calm \/ \A k \in Job : Cur' <= DueAt[k] /\ fired[k] # Today')
      BY <1>2 DEF Tick
    <3> QED BY <3>1, <3>2, Zenon DEF Manned
  <2>5. Regular(j) /\ on /\ RowOf(j) \in armed /\ gate = "live"
    BY <2>1, <2>3 DEF Regular, Manned, RowOf
  <2>6. Answered(j)
    <3>1. CASE Cur > DueAt[j]
      BY <2>4, <2>5, <3>1 DEF DayHeld, Manned
    <3>2. CASE Cur = DueAt[j]
      <4>1. passed
        BY <1>2, <2>5 DEF Tick
      <4>2. DueAt[j] <= Cur /\ Cur < EndAt(j)
        BY <2>2, <3>2
      <4> QED BY <2>4, <2>5, <4>1, <4>2 DEF PassHeld, Manned
    <3> QED BY <2>2, <2>3, <3>1, <3>2
  <2> QED BY <2>1, <2>3, <2>6 DEF Answered, RowOf
<1>3. CASE ~ Tick
  <2>1. Today' = Today /\ Cur' = Cur
    BY <1>1, <1>3, TimeStays
  <2>2. calm /\ UNCHANGED <<on, gen, armed, gate>>
    BY <1>1, <1>3, CalmStays DEF Manned
  <2>3. on /\ RowOf(j) \in armed /\ gate = "live"
    BY <2>2 DEF Manned, RowOf
  <2>4. Regular(j) /\ Cur > DueAt[j]
    BY <2>1 DEF Regular
  <2>5. Answered(j)
    BY <2>2, <2>3, <2>4 DEF DayHeld, Manned
  <2>6. DueBy(j)
    <3>1. DueAt[j] <= Cur
      BY <1>0, <2>4, JobTypes, Clock DEF TypeOK
    <3> QED BY <1>0, <3>1, DueHour
  <2> QED BY <1>0, <1>1, <1>3, <2>4, <2>5, <2>6, AnsweredStays
<1> QED BY <1>2, <1>3

LEMMA HoldStep ==
  ASSUME EntriesApart PROVE HoldInv /\ [Next]_vars => HoldInv'
<1> SUFFICES ASSUME HoldInv, [Next]_vars PROVE HoldInv'
  OBVIOUS
<1>1. Base'
  BY BaseStep DEF HoldInv
<1> QED
  BY <1>1, FiredHeldStep, PassHeldStep, DayHeldStep, RetryToldStep, AtToldStep, LiveNowStep
  DEF HoldInv

LEMMA HoldSilent ==
  ASSUME HoldInv PROVE NoSilentHold
<1> SUFFICES ASSUME NEW j \in Job \ (Block \ Expiry),
                    ~ (j \in Expiry /\ Today \in Sunday),
                    on, RowOf(j) \in armed, gate = "live", Cur >= EndAt(j), calm,
                    pos[RowOf(j)] # Never, pos[RowOf(j)] < DayStart + DueAt[j]
             PROVE  Today \in first[j]
  BY DEF NoSilentHold
<1>0. TypeOK
  BY DEF HoldInv, Base
<1>1. Cur > DueAt[j]
  BY <1>0, JobTypes, Clock DEF TypeOK
<1>2. Answered(j)
  BY <1>1 DEF HoldInv, DayHeld, Regular, Manned
<1>3. ~ (pos[RowOf(j)] >= DayStart + DueAt[j])
  <2>1. pos[RowOf(j)] \in Nat /\ DayStart \in Nat /\ DueAt[j] \in Nat
    <3>1. RowOf(j) \in Row
      BY JobTypes
    <3> QED BY <1>0, <3>1, JobTypes, Clock DEF TypeOK, Time
  <2> QED BY <2>1
<1> QED BY <1>2, <1>3 DEF Answered

\* What had to be closed by the end of its window is closed, or the member was
\* told: for any jobs, hours, generations and disturbances (_auto_loop).
THEOREM HeldIsTold ==
  ASSUME EntriesApart PROVE Spec => []NoSilentHold
  BY HoldInit, HoldStep, HoldSilent, PTL DEF Spec

----------------------------------------------------------------------------
(* A close closes nothing new.  No entry of the asset falls between an exit *)
(* and the end of its window; an entry of another asset of the account is   *)
(* not there either, and one of the same day is through by then.            *)

SessionsApart ==
  \A j \in Job, d \in 0 .. Days - 1 :
    ~ (j \in Expiry /\ d + 1 \in Sunday) =>
      \A x \in Exits(j, d) :
        /\ \A e \in EntryAt[JobAsset[j]] : e < x \/ e >= d * DayLen + EndAt(j)
        /\ \A r \in Row : r[1] # JobAsset[j] /\ r[2] = JobAcct[j] =>
             \A e \in EntryAt[r[1]] :
               \/ e >= d * DayLen + EndAt(j)
               \/ /\ e + Window <= x
                  /\ e >= d * DayLen =>
                       \E k \in Job : RowOf(k) = r /\ d * DayLen + DueAt[k] <= x

\* What a loop is about to close is old enough.
OldEnough == \A g \in Gen : pc[g] \in {"query", "flat"} => ~ Spared(at[g].job)

KillInv == Base /\ OldEnough

\* The hour of a job that is due: an exit of the day, before now.
LEMMA ExitNow ==
  ASSUME TypeOK, NEW j \in Job, DueBy(j), Cur < EndAt(j)
  PROVE  \E x \in Exits(j, Today - 1) :
           /\ x <= now /\ x \in Nat /\ EndAt(j) \in Nat
           /\ Today - 1 \in 0 .. Days - 1 /\ (Today - 1) + 1 = Today
           /\ DayStart = (Today - 1) * DayLen /\ DayStart \in Nat
           /\ now = DayStart + Cur /\ now \in Nat /\ Cur \in Nat
           /\ now < DayStart + EndAt(j)
<1>1. /\ Today - 1 \in 0 .. Days - 1 /\ (Today - 1) + 1 = Today
      /\ DayStart = (Today - 1) * DayLen /\ DayStart \in Nat
      /\ now = DayStart + Cur /\ now \in Nat /\ Cur \in Nat
  BY Clock DEF TypeOK
<1>2. PICK x \in Exits(j, Today - 1) : x <= now
  BY DEF DueBy
<1>3. x \in Nat /\ EndAt(j) \in Nat
  <2>1. JobAsset[j] \in Asset /\ DueAt[j] \in Nat /\ EndAt(j) \in Nat
    BY JobTypes
  <2>2. Early[JobAsset[j]] \subseteq Time
    BY <2>1, CloseAssumption
  <2> QED BY <1>1, <2>1, <2>2 DEF Exits, Time
<1>4. now < DayStart + EndAt(j)
  BY <1>1, <1>3
<1> QED BY <1>1, <1>2, <1>3, <1>4

\* A loop comes to a close by finding it due and nothing to spare.
LEMMA ComesToClose ==
  ASSUME Base, [Next]_vars, ~ Tick, ~ Sleep, NEW h \in Gen, pc'[h] \in {"query", "flat"}
  PROVE  /\ at'[h].job = at[h].job
         /\ \/ pc[h] \in {"query", "flat"}
            \/ pc[h] = "check" /\ ~ Spared(at[h].job) /\ entering' = entering
<1> USE DEF Base
<1>1. CASE Member \/ GateChanges \/ UNCHANGED vars
  BY <1>1, MemberChanges, MemberLoops DEF OutsideLoops, Inside
<1>2. ASSUME NEW g \in Gen, LoopStep(g), h # g
      PROVE  pc'[h] = pc[h] /\ at'[h] = at[h]
  BY <1>2 DEF LoopStep, Top, Look, GiveUp, Check, NothingOpen, LeftToMember, HeldOn,
              Overtaken, StartFlatten, Flattened, Failed, Fail, Done, NextJob, EndPass, TypeOK
<1>3. ASSUME LoopStep(h)
      PROVE  /\ at'[h].job = at[h].job
             /\ \/ pc[h] \in {"query", "flat"}
                \/ pc[h] = "check" /\ ~ Spared(at[h].job) /\ entering' = entering
  <2>1. ~ NextJob(h) /\ ~ EndPass(h) /\ ~ Top(h) /\ ~ Look(h) /\ ~ GiveUp(h)
    BY DEF NextJob, EndPass, Top, Look, GiveUp, TypeOK
  <2>2. CASE Check(h)
    <3>1. /\ pc[h] = "check" /\ ~ Spared(at[h].job)
          /\ at' = [at EXCEPT ![h].live = (gate # "dry"), ![h].fb = (gate = "fallback")]
      BY <2>1, <2>2 DEF Check, Done
    <3>2. at'[h].job = at[h].job
      BY <3>1 DEF TypeOK
    <3> QED BY <1>3, <3>1, <3>2, LoopChanges
  <2>3. CASE StartFlatten(h)
    BY <2>3 DEF StartFlatten
  <2> QED
    BY <1>3, <2>1, <2>2, <2>3
    DEF LoopStep, NothingOpen, LeftToMember, HeldOn, Done, Overtaken, Flattened, Failed, Fail
<1> QED BY <1>1, <1>2, <1>3, NextKinds

LEMMA OldEnoughStep ==
  ASSUME SessionsApart, KillInv, [Next]_vars PROVE OldEnough'
<1> USE DEF KillInv, Base
<1>1. CASE Tick \/ Sleep
  <2>1. \A g \in Gen : pc'[g] \notin {"query", "flat"}
    BY <1>1, TimePasses DEF BetweenJobs
  <2> QED BY <2>1 DEF OldEnough
<1>2. ASSUME ~ Tick, ~ Sleep PROVE OldEnough'
  <2> SUFFICES ASSUME NEW h \in Gen, pc'[h] \in {"query", "flat"}
               PROVE  ~ Spared(at[h].job)'
    BY DEF OldEnough
  <2>1. now' = now /\ Today' = Today
    BY <1>2, TimeStays
  <2>2. PICK j \in Job : j = at[h].job
    BY <1>2, ComesToClose DEF AtJob, TypeOK, Inside
  <2>3. /\ ~ Spared(j)
        /\ entering' = entering \/ pc[h] \in {"query", "flat"}
    BY <1>2, <2>2, ComesToClose DEF OldEnough
  <2>4. entering'[JobAsset[j]] = entering[JobAsset[j]]
    <3>1. CASE pc[h] \in {"query", "flat"}
      <4>1. DueBy(j) /\ Cur < EndAt(j)
        BY <2>2, <3>1 DEF InDue
      <4>2. PICK x \in Exits(j, Today - 1) :
              /\ x <= now /\ x \in Nat /\ Today - 1 \in 0 .. Days - 1 /\ (Today - 1) + 1 = Today
              /\ DayStart = (Today - 1) * DayLen
              /\ now \in Nat /\ now < DayStart + EndAt(j) /\ DayStart \in Nat /\ EndAt(j) \in Nat
        BY <2>3, <4>1, ExitNow
      <4>3. ~ (now < x) /\ ~ (now >= DayStart + EndAt(j))
        BY <4>2
      <4>4. ~ (j \in Expiry /\ (Today - 1) + 1 \in Sunday)
        BY <2>3, <4>2 DEF Spared
      <4>5. now \notin EntryAt[JobAsset[j]]
        BY <2>3, <4>2, <4>3, <4>4 DEF SessionsApart
      <4>6. ASSUME NEW a \in Asset, Entering(a)
            PROVE  entering'[JobAsset[j]] = entering[JobAsset[j]]
        BY <4>5, <4>6 DEF Entering, TypeOK
      <4>7. ASSUME ~ \E a \in Asset : Entering(a) PROVE entering' = entering
        <5>1. CASE Member
          BY <4>7, <5>1 DEF Member, Stop, Arm, RowStop, Filled, ClosedElsewhere, Disarm, ExitMoved
        <5>2. CASE GateChanges \/ UNCHANGED vars
          BY <5>2 DEF GateChanges, vars
        <5>3. ASSUME NEW g \in Gen, LoopStep(g) PROVE entering' = entering
          BY <5>3, LoopChanges
        <5> QED BY <1>2, <5>1, <5>2, <5>3, NextKinds
      <4> QED BY <4>6, <4>7
    <3> QED BY <2>3, <3>1
  <2>5. at'[h].job = j
    BY <1>2, <2>2, ComesToClose
  <2> QED BY <2>1, <2>3, <2>4, <2>5 DEF Spared
<1> QED BY <1>1, <1>2

LEMMA KillInit ==
  ASSUME Init PROVE KillInv
  BY BaseInit DEF KillInv, OldEnough, Init

LEMMA KillStep ==
  ASSUME SessionsApart PROVE KillInv /\ [Next]_vars => KillInv'
  BY BaseStep, OldEnoughStep DEF KillInv

\* What a flatten of the job j closes.
LEMMA KillsNoneEarly ==
  ASSUME SessionsApart, KillInv, [Next]_vars PROVE LateKill
<1> USE DEF KillInv, Base
<1> SUFFICES ASSUME NEW g \in Gen, pc[g] = "flat", pc'[g] # "flat",
                    NEW r \in Row, pos[r] # Never, pos'[r] = Never
             PROVE  /\ now - pos[r] >= Window
                    /\ pos[r] >= DayStart /\ r # RowOf(at[g].job) =>
                         \E k \in Job : RowOf(k) = r /\ ExitDue(k) <= Cur
  BY DEF LateKill
<1> DEFINE j == at[g].job
           e == pos[r]
<1>1. LoopStep(g)
  <2>1. CASE Member \/ GateChanges \/ UNCHANGED vars
    <3>1. ASSUME NEW q \in Row, Arm(q) PROVE pos' = pos
      BY <3>1 DEF Arm
    <3>2. ASSUME ~ \E q \in Row : Arm(q) PROVE pc' = pc
      BY <2>1, <3>2 DEF Member, Stop, RowStop, Filled, ClosedElsewhere, Disarm, ExitMoved,
                        Entering, GateChanges, vars, loop
    <3> QED BY <3>1, <3>2
  <2>2. CASE Tick \/ Sleep
    BY <2>2, TimePasses
  <2>3. ASSUME NEW h \in Gen, h # g, LoopStep(h) PROVE pc'[g] = pc[g]
    BY <2>3 DEF LoopStep, Top, Look, GiveUp, Check, NothingOpen, LeftToMember, HeldOn,
              Overtaken, StartFlatten, Flattened, Failed, Fail, Done, NextJob, EndPass, TypeOK
  <2> QED BY <2>1, <2>2, <2>3, NextKinds
<1>2. j \in Job /\ DueBy(j) /\ Cur < EndAt(j) /\ ~ Spared(j)
  BY DEF OldEnough, InDue, AtJob, TypeOK, Inside
<1>3. r[2] = JobAcct[j]
  <2>1. pos' = pos \/ pos' = Flat(g)
    BY <1>1 DEF LoopStep, Top, Look, GiveUp, Check, NothingOpen, LeftToMember, HeldOn,
                Overtaken, StartFlatten, Flattened, Failed
  <2> QED BY <2>1 DEF Flat
<1>4. PICK x \in Exits(j, Today - 1) :
        /\ x <= now /\ x \in Nat /\ EndAt(j) \in Nat
        /\ Today - 1 \in 0 .. Days - 1 /\ (Today - 1) + 1 = Today
        /\ DayStart = (Today - 1) * DayLen /\ DayStart \in Nat
        /\ now = DayStart + Cur /\ now \in Nat /\ Cur \in Nat
        /\ now < DayStart + EndAt(j)
  BY <1>2, ExitNow
<1>5. /\ e \in EntryAt[r[1]] /\ e <= now /\ e \in Nat
      /\ entering[r[1]] # Never /\ e <= entering[r[1]] /\ entering[r[1]] \in Nat
      /\ r[1] \in Asset /\ Window \in Nat
  <2>1. r[1] \in Asset
    BY RowTypes
  <2>2. /\ e \in EntryAt[r[1]] /\ e \in Time
        /\ entering[r[1]] # Never /\ e <= entering[r[1]] /\ entering[r[1]] \in Time
        /\ entering[r[1]] <= now
    BY <2>1 DEF Opened, TypeOK
  <2>3. e \in Nat /\ entering[r[1]] \in Nat
    BY <2>2 DEF Time
  <2>4. e <= now
    <3> HIDE DEF e
    <3> QED BY <1>4, <2>2, <2>3
  <2> QED BY <2>1, <2>2, <2>3, <2>4, CloseAssumption
<1>6. CASE r[1] = JobAsset[j]
  <2>1. r = RowOf(j)
    <3>1. PICK k \in Job : r = <<JobAsset[k], JobAcct[k]>>
      BY DEF Row
    <3> QED BY <1>3, <1>6, <3>1 DEF RowOf
  <2>2. now - entering[r[1]] >= Window
    BY <1>2, <1>4, <1>5, <1>6 DEF Spared
  <2>3. now - e >= Window
    <3> HIDE DEF e
    <3> QED BY <1>4, <1>5, <2>2
  <2> QED BY <2>1, <2>3
<1>7. CASE r[1] # JobAsset[j]
  <2>1. ~ (j \in Expiry /\ (Today - 1) + 1 \in Sunday)
    BY <1>2, <1>4 DEF Spared
  <2>2. \/ e >= DayStart + EndAt(j)
        \/ /\ e + Window <= x
           /\ e >= DayStart => \E k \in Job : RowOf(k) = r /\ DayStart + DueAt[k] <= x
    BY <1>2, <1>3, <1>4, <1>5, <1>7, <2>1 DEF SessionsApart
  <2>3. ~ (e >= DayStart + EndAt(j))
    <3> HIDE DEF e
    <3> QED BY <1>4, <1>5
  <2>4. now - e >= Window
    <3> HIDE DEF e
    <3> QED BY <1>4, <1>5, <2>2, <2>3
  <2>5. ASSUME e >= DayStart PROVE \E k \in Job : RowOf(k) = r /\ ExitDue(k) <= Cur
    <3>1. PICK k \in Job : RowOf(k) = r /\ DayStart + DueAt[k] <= x
      BY <2>2, <2>3, <2>5
    <3>2. DueAt[k] \in Nat /\ DueAt[k] <= Cur
      BY <1>4, <3>1, JobTypes
    <3>3. ExitDue(k) <= DueAt[k] /\ ExitDue(k) \in Nat
      <4>1. override[JobAsset[k]] # Never => override[JobAsset[k]] \in Time
        BY JobTypes DEF TypeOK
      <4>2. override[JobAsset[k]] # Never => override[JobAsset[k]] % DayLen \in Nat
        BY <4>1, DayOf
      <4> QED BY <3>2, <4>2 DEF ExitDue
    <3>4. ExitDue(k) <= Cur
      BY <1>4, <3>2, <3>3
    <3> QED BY <3>1, <3>4
  <2> QED BY <2>4, <2>5
<1> QED BY <1>6, <1>7

\* A close never closes what was entered less than a window ago, nor what
\* another asset's session of the day still holds: for any hours in which the
\* sessions of an account are apart (_auto_loop and flatten_all).
THEOREM ClosesNothingNew ==
  ASSUME SessionsApart PROVE Spec => [][LateKill]_vars
<1>1. KillInv /\ [Next]_vars => [LateKill]_vars
  BY KillsNoneEarly
<1> QED BY <1>1, KillInit, KillStep, PTL DEF Spec

----------------------------------------------------------------------------
(* A first failure is told once a day, when no loop is started over another *)
(* that is inside a job ("overlap").                                        *)

Alone == \A g \in Gen : g # gen => pc[g] \notin Inside

\* The record a loop has read is the one that is there.
Fresh ==
  \A g \in Gen : pc[g] \in Inside \ {"look"} =>
    /\ at[g].rt = retry[at[g].job]
    /\ pc[g] = "stale" => Stale(at[g].job, at[g].rt)

\* What is under way was not done today.
Undone == \A g \in Gen : pc[g] \in {"query", "flat"} => fired[at[g].job] # Today

Numbered ==
  \A j \in Job : retry[j] # NoRetry =>
    retry[j].n >= 1 /\ retry[j].gen \in 1 .. gen /\ retry[j].day \in 1 .. Today

\* What was told today is done, over, or recorded.
ToldStays ==
  \A j \in Job : Today \in first[j] =>
    fired[j] = Today \/ Cur >= EndAt(j) \/ retry[j].day = Today

Past == \A j \in Job : first[j] \subseteq 1 .. Today /\ gave[j] \subseteq 1 .. Today

ToldInv == Base /\ Alone /\ Fresh /\ Undone /\ Numbered /\ ToldStays /\ Past

LEMMA ToldInit ==
  ASSUME Init PROVE ToldInv
<1>1. Base
  BY BaseInit
<1>2. Alone /\ Fresh /\ Undone /\ Numbered /\ ToldStays /\ Past
  BY DEF Init, Alone, Fresh, Undone, Numbered, ToldStays, Past, Inside
<1> QED BY <1>1, <1>2 DEF ToldInv

\* The kinds of a loop's step.
Skips(g) ==
  pc[g] = "check" /\ NextJob(g) /\ UNCHANGED <<fired, retry, first, gave, passed>>

Ends(g) ==
  /\ pc[g] \in {"check", "query", "flat"}
  /\ fired' = [fired EXCEPT ![at[g].job] = Today]
  /\ retry' = [retry EXCEPT ![at[g].job] = NoRetry]
  /\ NextJob(g) /\ UNCHANGED <<first, gave, passed>>

Takes(g) ==
  /\ pc[g] = "check" /\ ToFire(at[g].job, at[g].rt)
  /\ pc' = [pc EXCEPT ![g] = "query"]
  /\ at'[g].job = at[g].job /\ at'[g].rt = at[g].rt
  /\ UNCHANGED <<left, fired, retry, first, gave, passed>>

LEMMA LoopKinds ==
  ASSUME TypeOK, NEW g \in Gen, Mine(g), LoopStep(g)
  PROVE  \/ Top(g) \/ Look(g) \/ GiveUp(g) \/ Skips(g) \/ Ends(g) \/ Takes(g)
         \/ StartFlatten(g) \/ Failed(g)
<1>1. CASE Check(g)
  <2>1. CASE Done(g)
    BY <1>1, <2>1 DEF Check, Done, Ends
  <2>2. CASE NextJob(g) /\ UNCHANGED <<records, first, gave, notices>>
    BY <1>1, <2>2 DEF Check, Skips, records
  <2>3. CASE /\ ToFire(at[g].job, at[g].rt)
             /\ pc' = [pc EXCEPT ![g] = "query"]
             /\ at' = [at EXCEPT ![g].live = (gate # "dry"), ![g].fb = (gate = "fallback")]
             /\ UNCHANGED <<records, left, first, gave, notices>>
    <3>1. at'[g].job = at[g].job /\ at'[g].rt = at[g].rt
      BY <2>3 DEF TypeOK
    <3> QED BY <1>1, <2>3, <3>1 DEF Check, Takes, records
  <2> QED BY <1>1, <2>1, <2>2, <2>3 DEF Check
<1>2. CASE NothingOpen(g) \/ LeftToMember(g) \/ HeldOn(g)
  BY <1>2 DEF NothingOpen, LeftToMember, HeldOn, Done, Ends
<1>3. CASE Flattened(g)
  BY <1>3 DEF Flattened, Ends
<1>4. ~ Overtaken(g)
  BY DEF Overtaken
<1> QED BY <1>1, <1>2, <1>3, <1>4 DEF LoopStep

\* Of the other loops only the thread's end is left to see.
LEMMA OneLoop ==
  ASSUME TypeOK, Alone, NEW g \in Gen, g # gen, LoopStep(g)
  PROVE  /\ pc' = [pc EXCEPT ![g] = "off"]
         /\ UNCHANGED <<left, at, passed, fired, retry, first, gave, notices>>
<1>1. pc[g] \notin Inside
  BY DEF Alone
<1>2. Top(g)
  BY <1>1 DEF LoopStep, Look, GiveUp, Check, NothingOpen, LeftToMember, HeldOn, Overtaken,
              StartFlatten, Flattened, Failed, Inside
<1> QED BY <1>2 DEF Top, Mine, records

LEMMA OthersStay ==
  ASSUME TypeOK, NEW g \in Gen, LoopStep(g), NEW h \in Gen, h # g
  PROVE  pc'[h] = pc[h] /\ at'[h] = at[h] /\ left'[h] = left[h]
  BY DEF LoopStep, Top, Look, GiveUp, Check, NothingOpen, LeftToMember, HeldOn, Overtaken,
         StartFlatten, Flattened, Failed, Fail, Done, NextJob, EndPass, TypeOK

LEMMA ArmApart ==
  ASSUME "overlap" \notin Quirk, TypeOK, AtJob, Member \/ GateChanges \/ UNCHANGED vars
  PROVE  \/ UNCHANGED <<pc, gen>>
         \/ BetweenJobs /\ gen + 1 \in Gen /\ gen' = gen + 1 /\ passed' = FALSE
            /\ pc' = [pc EXCEPT ![gen + 1] = "top"]
<1>1. ASSUME NEW r \in Row, Arm(r)
      PROVE  \/ UNCHANGED <<pc, gen>>
             \/ BetweenJobs /\ gen + 1 \in Gen /\ gen' = gen + 1 /\ passed' = FALSE
                /\ pc' = [pc EXCEPT ![gen + 1] = "top"]
  <2>1. gen < MaxGen => gen + 1 \in Gen
    BY CloseAssumption DEF TypeOK, Gen
  <2> QED BY <1>1, <2>1 DEF Arm
<1>2. ASSUME ~ \E r \in Row : Arm(r) PROVE UNCHANGED <<pc, gen>>
  BY <1>2 DEF Member, Stop, RowStop, Filled, ClosedElsewhere, Disarm, ExitMoved, Entering,
              GateChanges, vars, app, loop
<1> QED BY <1>1, <1>2

LEMMA AloneStep ==
  ASSUME "overlap" \notin Quirk, ToldInv, [Next]_vars PROVE Alone'
<1> USE DEF ToldInv, Base
<1>1. CASE Member \/ GateChanges \/ UNCHANGED vars
  <2>1. CASE UNCHANGED <<pc, gen>>
    BY <2>1 DEF Alone
  <2>2. CASE BetweenJobs /\ gen + 1 \in Gen /\ gen' = gen + 1
             /\ pc' = [pc EXCEPT ![gen + 1] = "top"]
    BY <2>2 DEF Alone, BetweenJobs, Inside, TypeOK
  <2> QED BY <1>1, <2>1, <2>2, ArmApart
<1>2. CASE Tick \/ Sleep
  BY <1>2, TimePasses DEF Alone
<1>3. ASSUME NEW g \in Gen, LoopStep(g) PROVE Alone'
  <2>1. gen' = gen
    BY <1>3, LoopChanges
  <2> SUFFICES ASSUME NEW h \in Gen, h # gen PROVE pc'[h] \notin Inside
    BY <2>1 DEF Alone
  <2>2. CASE h # g
    BY <1>3, <2>2, OthersStay DEF Alone
  <2>3. CASE h = g
    <3>1. pc'[g] = "off"
      BY <1>3, <2>3, OneLoop DEF TypeOK
    <3> QED BY <2>3, <3>1 DEF Inside
  <2> QED BY <2>2, <2>3
<1> QED BY <1>1, <1>2, <1>3, NextKinds

\* What a step leaves to show of what a loop holds.
LEMMA HeldStep ==
  ASSUME ToldInv, [Next]_vars, NEW h \in Gen, pc'[h] \in Inside \ {"look"}
  PROVE  /\ h = gen /\ ~ Tick /\ ~ Sleep
         /\ \/ pc'[h] = pc[h] /\ UNCHANGED <<at, retry, fired>>
            \/ LoopStep(h)
<1> USE DEF ToldInv, Base
<1>1. CASE Member \/ GateChanges \/ UNCHANGED vars
  <2>1. pc'[h] = pc[h] /\ UNCHANGED <<now, at, retry, fired>>
    BY <1>1, MemberChanges, MemberLoops DEF OutsideLoops, Inside
  <2>2. h = gen
    BY <2>1 DEF Alone
  <2>3. ~ Tick /\ ~ Sleep
    BY <2>1, TimePasses DEF BetweenJobs, Inside
  <2> QED BY <2>1, <2>2, <2>3
<1>2. CASE Tick \/ Sleep
  BY <1>2, TimePasses DEF BetweenJobs, Inside
<1>3. ASSUME NEW g \in Gen, LoopStep(g)
      PROVE  /\ h = gen /\ ~ Tick /\ ~ Sleep
             /\ (pc'[h] = pc[h] /\ UNCHANGED <<at, retry, fired>>) \/ LoopStep(h)
  <2>1. now' = now
    BY <1>3, LoopChanges
  <2>2. ~ Tick /\ ~ Sleep
    <3>1. ~ (now < now)
      BY Clock DEF TypeOK
    <3> QED BY <2>1, <3>1, TimePasses
  <2>3. CASE g # gen
    <3>1. pc' = [pc EXCEPT ![g] = "off"] /\ UNCHANGED <<at, retry, fired>>
      BY <1>3, <2>3, OneLoop
    <3>2. h # g /\ pc'[h] = pc[h]
      BY <3>1 DEF TypeOK, Inside
    <3> QED BY <2>2, <3>1, <3>2 DEF Alone
  <2>4. CASE g = gen
    <3>1. h = gen
      BY <1>3, <2>4, OthersStay DEF Alone
    <3> QED BY <1>3, <2>2, <2>4, <3>1
  <2> QED BY <2>3, <2>4
<1> QED BY <1>1, <1>2, <1>3, NextKinds

LEMMA FreshStep ==
  ASSUME ToldInv, [Next]_vars PROVE Fresh'
<1> USE DEF ToldInv, Base
<1> SUFFICES ASSUME NEW h \in Gen, pc'[h] \in Inside \ {"look"}
             PROVE  /\ at'[h].rt = retry'[at'[h].job]
                    /\ pc'[h] = "stale" => Stale(at[h].job, at[h].rt)'
  BY DEF Fresh
<1>1. h = gen /\ ~ Tick /\ ~ Sleep
  BY HeldStep
<1>2. Today' = Today /\ Cur' = Cur
  BY <1>1, TimeStays
<1>3. CASE pc'[h] = pc[h] /\ UNCHANGED <<at, retry>>
  BY <1>2, <1>3 DEF Fresh, Stale, EndAt
<1>4. CASE LoopStep(h)
  <2>1. ~ NextJob(h) /\ ~ EndPass(h) /\ ~ Top(h)
    BY DEF NextJob, EndPass, Top, TypeOK, Inside
  <2>2. CASE Look(h)
    <3>1. PICK j \in left[h] :
            /\ at' = [at EXCEPT ![h] = [Idle EXCEPT !.job = j, !.rt = retry[j]]]
            /\ pc' = [pc EXCEPT ![h] = IF Stale(j, retry[j]) THEN "stale" ELSE "check"]
            /\ retry' = retry
      BY <2>1, <2>2 DEF Look, records
    <3>2. at'[h].job = j /\ at'[h].rt = retry[j]
      BY <3>1 DEF TypeOK, Idle
    <3>3. pc'[h] = "stale" => Stale(j, retry[j])
      BY <3>1 DEF TypeOK
    <3> QED BY <1>2, <3>1, <3>2, <3>3 DEF Stale, EndAt
  <2>3. CASE GiveUp(h)
    <3>1. /\ at' = [at EXCEPT ![h] = [at[h] EXCEPT !.rt = NoRetry]]
          /\ retry' = [retry EXCEPT ![at[h].job] = NoRetry]
          /\ pc' = [pc EXCEPT ![h] = "check"] /\ pc[h] = "stale"
      BY <2>3 DEF GiveUp
    <3>2. at[h].job \in Job
      BY <3>1 DEF AtJob, TypeOK, Inside
    <3>3. at'[h].job = at[h].job /\ at'[h].rt = NoRetry
      BY <3>1 DEF TypeOK
    <3>4. pc'[h] = "check" /\ retry'[at[h].job] = NoRetry
      BY <3>1, <3>2 DEF TypeOK
    <3> QED BY <3>3, <3>4
  <2>4. CASE Takes(h)
    BY <2>4 DEF Takes, Fresh, TypeOK, Inside
  <2>5. CASE StartFlatten(h)
    <3>1. pc[h] = "query" /\ pc' = [pc EXCEPT ![h] = "flat"] /\ at' = at /\ retry' = retry
      BY <2>5 DEF StartFlatten, records
    <3> QED BY <3>1 DEF Fresh, TypeOK, Inside
  <2> QED
    BY <1>1, <1>4, <2>1, <2>2, <2>3, <2>4, <2>5, LoopKinds
    DEF Mine, Skips, Ends, Failed, Fail
<1> QED BY <1>3, <1>4, HeldStep

LEMMA UndoneStep ==
  ASSUME ToldInv, [Next]_vars PROVE Undone'
<1> USE DEF ToldInv, Base
<1> SUFFICES ASSUME NEW h \in Gen, pc'[h] \in {"query", "flat"}
             PROVE  fired'[at'[h].job] # Today'
  BY DEF Undone
<1>0. pc'[h] \in Inside \ {"look"}
  BY DEF Inside
<1>1. h = gen /\ ~ Tick /\ ~ Sleep
  BY <1>0, HeldStep
<1>2. Today' = Today
  BY <1>1, TimeStays
<1>3. CASE pc'[h] = pc[h] /\ UNCHANGED <<at, retry, fired>>
  BY <1>2, <1>3 DEF Undone
<1>4. CASE LoopStep(h)
  <2>1. ~ NextJob(h) /\ ~ EndPass(h) /\ ~ Top(h) /\ ~ Look(h) /\ ~ GiveUp(h)
    BY DEF NextJob, EndPass, Top, Look, GiveUp, TypeOK
  <2>2. CASE Takes(h)
    <3>1. ToFire(at[h].job, at[h].rt) /\ at'[h].job = at[h].job /\ fired' = fired
      BY <2>2 DEF Takes
    <3> QED BY <1>2, <3>1 DEF ToFire
  <2>3. CASE StartFlatten(h)
    BY <1>2, <2>3 DEF StartFlatten, Undone, records
  <2> QED
    BY <1>1, <1>4, <2>1, <2>2, <2>3, LoopKinds DEF Mine, Skips, Ends, Failed, Fail
<1> QED BY <1>0, <1>3, <1>4, HeldStep

\* What a loop's step does to the records.
LEMMA RecordStep ==
  ASSUME ToldInv, NEW g \in Gen, LoopStep(g)
  PROVE  \/ UNCHANGED <<retry, fired, first, gave>>
         \/ g = gen /\ Ends(g) /\ at[g].job \in Job
         \/ g = gen /\ GiveUp(g) /\ at[g].job \in Job
         \/ g = gen /\ Failed(g) /\ at[g].job \in Job
<1> USE DEF ToldInv, Base
<1>1. CASE g # gen
  BY <1>1, OneLoop
<1>2. CASE g = gen
  <2>1. pc[g] \in Inside \ {"look"} => at[g].job \in Job
    BY DEF AtJob, TypeOK
  <2>2. CASE Top(g) \/ Look(g) \/ Skips(g) \/ Takes(g) \/ StartFlatten(g)
    BY <2>2 DEF Top, Look, Skips, Takes, StartFlatten, records
  <2>3. CASE Ends(g) \/ GiveUp(g) \/ Failed(g)
    BY <1>2, <2>1, <2>3 DEF Ends, GiveUp, Failed, Inside
  <2> QED BY <1>2, <2>2, <2>3, LoopKinds DEF Mine
<1> QED BY <1>1, <1>2

LEMMA FailRecord ==
  ASSUME ToldInv, NEW g \in Gen, Failed(g), at[g].job \in Job
  PROVE  /\ retry' = [retry EXCEPT ![at[g].job] =
                        [day |-> Today, n |-> at[g].rt.n + 1, next |-> now + 1,
                         live |-> at[g].live, gen |-> g]]
         /\ first' = IF at[g].rt.n + 1 = 1
                     THEN [first EXCEPT ![at[g].job] = @ \union {Today}] ELSE first
         /\ UNCHANGED <<fired, gave>> /\ at[g].rt = retry[at[g].job]
         /\ fired[at[g].job] # Today /\ Cur < EndAt(at[g].job) /\ at[g].rt.n \in Nat
<1> USE DEF ToldInv, Base
<1>1. pc[g] \in {"query", "flat"}
  BY DEF Failed
<1>2. at[g].rt = retry[at[g].job]
  BY <1>1 DEF Fresh, Inside
<1>3. at[g].rt.n \in Nat
  BY DEF TypeOK, Retry
<1> QED BY <1>1, <1>2, <1>3 DEF Failed, Fail, Undone, InDue

LEMMA NumberedStep ==
  ASSUME ToldInv, [Next]_vars PROVE Numbered'
<1> USE DEF ToldInv, Base
<1> SUFFICES ASSUME NEW j \in Job, retry'[j] # NoRetry
             PROVE  /\ retry'[j].n >= 1 /\ retry'[j].gen \in 1 .. gen'
                    /\ retry'[j].day \in 1 .. Today'
  BY DEF Numbered
<1>1. Today \in Nat /\ gen \in Nat
  BY Clock, CloseAssumption DEF TypeOK
<1>2. CASE Tick \/ Sleep
  <2>1. Today <= Today' /\ Today' \in Nat /\ gen' = gen /\ retry' = retry
    <3>1. now \in Time /\ now' \in Time /\ now < now' /\ gen' = gen /\ retry' = retry
      BY <1>2, TimePasses
    <3>2. now' \div DayLen \in Nat
      BY <3>1, DayOf
    <3>3. Today' \in Nat
      BY <3>2 DEF Today
    <3> QED BY <1>1, <3>1, <3>3, ClockMoves
  <2>2. /\ retry[j].n >= 1 /\ retry[j].gen \in 1 .. gen /\ retry[j].day \in 1 .. Today
    BY <2>1 DEF Numbered
  <2>3. retry[j].day \in 1 .. Today'
    BY <1>1, <2>1, <2>2
  <2> QED BY <2>1, <2>2, <2>3
<1>3. CASE Member \/ GateChanges \/ UNCHANGED vars
  <2>1. retry' = retry /\ now' = now
    BY <1>3, MemberChanges DEF OutsideLoops
  <2>2. gen' = gen \/ gen' = gen + 1
    BY <1>3, MemberLoops
  <2>3. /\ retry[j].n >= 1 /\ retry[j].gen \in 1 .. gen /\ retry[j].day \in 1 .. Today
    BY <2>1 DEF Numbered
  <2>4. retry[j].gen \in 1 .. gen'
    BY <1>1, <2>2, <2>3
  <2> QED BY <2>1, <2>3, <2>4 DEF Today
<1>4. ASSUME NEW g \in Gen, LoopStep(g)
      PROVE  /\ retry'[j].n >= 1 /\ retry'[j].gen \in 1 .. gen'
             /\ retry'[j].day \in 1 .. Today'
  <2>1. Today' = Today /\ gen' = gen
    BY <1>4, LoopChanges DEF Today
  <2>2. CASE retry'[j] = retry[j]
    BY <2>1, <2>2 DEF Numbered
  <2>3. CASE Ends(g)
    BY <2>2, <2>3 DEF Ends, TypeOK
  <2>4. CASE GiveUp(g)
    BY <2>2, <2>4 DEF GiveUp, TypeOK
  <2>5. CASE g = gen /\ Failed(g) /\ at[g].job \in Job
    <3> DEFINE r == [day |-> Today, n |-> at[g].rt.n + 1, next |-> now + 1,
                     live |-> at[g].live, gen |-> g]
    <3>1. retry' = [retry EXCEPT ![at[g].job] = r] /\ at[g].rt.n \in Nat
      BY <2>5, FailRecord
    <3>2. r.n >= 1 /\ r.gen = gen /\ r.day = Today
      BY <2>5, <3>1
    <3>3. Today \in 1 .. Today /\ gen \in 1 .. gen
      BY <1>1, <2>5, TodayBound DEF TypeOK, Gen
    <3> HIDE DEF r
    <3>4. retry'[j] = retry[j] \/ retry'[j] = r
      BY <3>1 DEF TypeOK
    <3> QED BY <2>1, <2>2, <3>2, <3>3, <3>4
  <2> QED BY <1>4, <2>2, <2>3, <2>4, <2>5, RecordStep
<1> QED BY <1>2, <1>3, <1>4, NextKinds

\* The clock goes on within a day, or to a later one.
LEMMA TimeGoes ==
  ASSUME TypeOK, [Next]_vars
  PROVE  /\ Today \in Nat \ {0} /\ Today' \in Nat \ {0} /\ Cur \in Nat /\ Cur' \in Nat
         /\ \/ Today' = Today /\ Cur <= Cur'
            \/ Today < Today' /\ (Tick \/ Sleep)
<1>1. Today \in Nat \ {0} /\ Cur \in Nat /\ now \in Nat
  BY Clock DEF TypeOK
<1>2. CASE Tick \/ Sleep
  <2>0. now \in Time /\ now' \in Time /\ now < now'
    BY <1>2, TimePasses
  <2>1. now' \in Nat
    BY <2>0 DEF Time
  <2>2. now' \div DayLen \in Nat /\ Cur' \in Nat
    BY <2>0, DayOf DEF Cur
  <2>3. Today' \in Nat \ {0}
    BY <2>2 DEF Today
  <2>4. Today < Today' \/ (Today' = Today /\ Cur' = Cur + (now' - now))
    BY <2>0, ClockMoves
  <2>5. Cur' = Cur + (now' - now) => Cur <= Cur'
    <3>1. ASSUME NEW a \in Nat, NEW b \in Nat, NEW c \in Nat, a < b PROVE c <= c + (b - a)
      BY <3>1
    <3>2. Cur <= Cur + (now' - now)
      BY <1>1, <2>0, <2>1, <3>1
    <3> QED BY <3>2
  <2> QED BY <1>1, <1>2, <2>2, <2>3, <2>4, <2>5
<1>3. CASE ~ Tick /\ ~ Sleep
  <2>1. Today' = Today /\ Cur' = Cur
    BY <1>3, TimeStays
  <2> QED BY <1>1, <2>1
<1> QED BY <1>2, <1>3

LEMMA PastStep ==
  ASSUME ToldInv, [Next]_vars PROVE Past'
<1> USE DEF ToldInv, Base
<1> SUFFICES ASSUME NEW j \in Job
             PROVE  first'[j] \subseteq 1 .. Today' /\ gave'[j] \subseteq 1 .. Today'
  BY DEF Past
<1>1. Today \in Nat \ {0} /\ Today' \in Nat /\ Today <= Today'
  BY TimeGoes
<1>2. 1 .. Today \subseteq 1 .. Today' /\ Today \in 1 .. Today
  BY <1>1
<1>3. first[j] \subseteq 1 .. Today /\ gave[j] \subseteq 1 .. Today
  BY DEF Past
<1>4. CASE first' = first /\ gave' = gave
  BY <1>2, <1>3, <1>4
<1>5. CASE Member \/ GateChanges \/ UNCHANGED vars \/ Tick \/ Sleep
  BY <1>4, <1>5, MemberChanges, TimePasses DEF OutsideLoops
<1>6. ASSUME NEW g \in Gen, LoopStep(g)
      PROVE  first'[j] \subseteq 1 .. Today' /\ gave'[j] \subseteq 1 .. Today'
  <2>1. CASE Ends(g)
    BY <1>4, <2>1 DEF Ends
  <2>2. CASE GiveUp(g)
    <3>1. /\ first' = first
          /\ (gave' = gave \/ gave' = [gave EXCEPT ![at[g].job] = @ \union {Today}])
      BY <2>2 DEF GiveUp
    <3>2. gave'[j] \subseteq gave[j] \union {Today}
      BY <3>1 DEF TypeOK
    <3> QED BY <1>2, <1>3, <3>1, <3>2
  <2>3. CASE Failed(g) /\ at[g].job \in Job
    <3>1. /\ gave' = gave
          /\ (first' = first \/ first' = [first EXCEPT ![at[g].job] = @ \union {Today}])
      BY <2>3, FailRecord
    <3>2. first'[j] \subseteq first[j] \union {Today}
      BY <3>1 DEF TypeOK
    <3> QED BY <1>2, <1>3, <3>1, <3>2
  <2> QED BY <1>4, <1>6, <2>1, <2>2, <2>3, RecordStep
<1> QED BY <1>5, <1>6, NextKinds

LEMMA ToldStaysStep ==
  ASSUME ToldInv, [Next]_vars PROVE ToldStays'
<1> USE DEF ToldInv, Base
<1> SUFFICES ASSUME NEW j \in Job, Today' \in first'[j]
             PROVE  fired'[j] = Today' \/ Cur' >= EndAt(j) \/ retry'[j].day = Today'
  BY DEF ToldStays, EndAt
<1>1. /\ Today \in Nat \ {0} /\ Today' \in Nat \ {0} /\ Cur \in Nat /\ Cur' \in Nat
      /\ \/ Today' = Today /\ Cur <= Cur'
         \/ Today < Today' /\ (Tick \/ Sleep)
  BY TimeGoes
<1>2. CASE Today < Today' /\ (Tick \/ Sleep)
  <2>1. Today' \in first[j]
    BY <1>2, TimePasses
  <2>2. Today' \in 1 .. Today
    BY <2>1 DEF Past
  <2> QED BY <1>1, <1>2, <2>2
<1>3. EndAt(j) \in Nat
  BY JobTypes
<1>4. CASE Today' = Today /\ Cur <= Cur' /\ UNCHANGED <<first, fired, retry>>
  BY <1>1, <1>3, <1>4 DEF ToldStays
<1>5. CASE Member \/ GateChanges \/ UNCHANGED vars \/ Tick \/ Sleep
  BY <1>1, <1>2, <1>4, <1>5, MemberChanges, TimePasses DEF OutsideLoops
<1>6. ASSUME NEW g \in Gen, LoopStep(g)
      PROVE  fired'[j] = Today' \/ Cur' >= EndAt(j) \/ retry'[j].day = Today'
  <2>1. Today' = Today /\ Cur' = Cur
    BY <1>6, LoopChanges DEF Today, Cur
  <2>2. CASE fired'[j] = fired[j] /\ retry'[j] = retry[j] /\ first'[j] = first[j]
    BY <2>1, <2>2 DEF ToldStays
  <2>3. CASE Ends(g)
    BY <2>1, <2>2, <2>3 DEF Ends, TypeOK
  <2>4. CASE GiveUp(g) /\ at[g].job \in Job
    <3>1. UNCHANGED <<first, fired>> /\ retry' = [retry EXCEPT ![at[g].job] = NoRetry]
          /\ pc[g] = "stale"
      BY <2>4 DEF GiveUp
    <3>2. CASE j = at[g].job
      <4>1. Stale(j, retry[j])
        BY <3>1, <3>2 DEF Fresh, Inside
      <4> QED BY <2>1, <3>1, <4>1 DEF ToldStays, Stale
    <3>3. CASE j # at[g].job
      BY <2>2, <3>1, <3>3 DEF TypeOK
    <3> QED BY <3>2, <3>3
  <2>5. CASE Failed(g) /\ at[g].job \in Job
    <3> DEFINE r == [day |-> Today, n |-> at[g].rt.n + 1, next |-> now + 1,
                     live |-> at[g].live, gen |-> g]
    <3>1. /\ retry' = [retry EXCEPT ![at[g].job] = r] /\ fired' = fired
          /\ first' = first \/ first' = [first EXCEPT ![at[g].job] = @ \union {Today}]
      BY <2>5, FailRecord
    <3>2. r.day = Today
      OBVIOUS
    <3> HIDE DEF r
    <3>3. CASE j = at[g].job
      BY <2>1, <3>1, <3>2, <3>3 DEF TypeOK
    <3>4. CASE j # at[g].job
      BY <2>2, <3>1, <3>4 DEF TypeOK
    <3> QED BY <3>3, <3>4
  <2> QED BY <1>6, <2>2, <2>3, <2>4, <2>5, RecordStep
<1> QED BY <1>5, <1>6, NextKinds

LEMMA ToldStep ==
  ASSUME "overlap" \notin Quirk PROVE ToldInv /\ [Next]_vars => ToldInv'
<1> SUFFICES ASSUME ToldInv, [Next]_vars PROVE ToldInv'
  OBVIOUS
<1>1. Base'
  BY BaseStep DEF ToldInv
<1> QED
  BY <1>1, AloneStep, FreshStep, UndoneStep, NumberedStep, ToldStaysStep, PastStep
  DEF ToldInv

LEMMA TellsOnce ==
  ASSUME ToldInv, [Next]_vars PROVE FirstTold
<1> USE DEF ToldInv, Base
<1> SUFFICES ASSUME NEW j \in Job, retry'[j] # retry[j], retry'[j].n = 1, Today \in first[j]
             PROVE  FALSE
  BY DEF FirstTold
<1>1. PICK g \in Gen : LoopStep(g)
  BY MemberChanges, TimePasses, NextKinds DEF OutsideLoops
<1>2. CASE Ends(g)
  BY <1>2 DEF Ends, TypeOK, NoRetry
<1>3. CASE GiveUp(g)
  BY <1>3 DEF GiveUp, TypeOK, NoRetry
<1>4. CASE Failed(g) /\ at[g].job \in Job
  <2> DEFINE r == [day |-> Today, n |-> at[g].rt.n + 1, next |-> now + 1,
                   live |-> at[g].live, gen |-> g]
  <2>1. /\ retry' = [retry EXCEPT ![at[g].job] = r]
        /\ at[g].rt = retry[at[g].job] /\ fired[at[g].job] # Today
        /\ Cur < EndAt(at[g].job) /\ at[g].rt.n \in Nat
    BY <1>4, FailRecord
  <2>2. r.n = at[g].rt.n + 1
    OBVIOUS
  <2> HIDE DEF r
  <2>3. j = at[g].job /\ retry'[j] = r
    BY <2>1 DEF TypeOK
  <2>4. retry[j].n = 0
    BY <2>1, <2>2, <2>3
  <2>5. retry[j] = NoRetry
    BY <2>4 DEF Numbered
  <2>6. Today \in Nat \ {0} /\ Cur \in Nat /\ EndAt(j) \in Nat
    BY Clock, JobTypes DEF TypeOK
  <2>7. retry[j].day # Today
    BY <2>5, <2>6 DEF NoRetry
  <2> QED BY <2>1, <2>3, <2>6, <2>7 DEF ToldStays
<1> QED BY <1>1, <1>2, <1>3, <1>4, RecordStep

\* The first failure of a close is told once a day, over stops, starts, sleep
\* and changes of the gate, when no loop is started over another (_auto_loop, its
\* _auto_retry).
THEOREM FirstToldOnce ==
  ASSUME "overlap" \notin Quirk PROVE Spec => [][FirstTold]_vars
<1>1. ToldInv /\ [Next]_vars => [FirstTold]_vars
  BY TellsOnce
<1> QED BY <1>1, ToldInit, ToldStep, PTL DEF Spec

----------------------------------------------------------------------------
(* Giving up is final, when moreover the computer does not sleep, no row of *)
(* a running loop is disarmed, and every window ends before midnight.       *)

WindowsEnd == \A j \in Job : EndAt(j) < DayLen

AtWork == on \/ (gen \in Gen /\ pc[gen] \in Inside)

\* The jobs before a running loop are armed.
LeftArmed ==
  on /\ pc[gen] \in Inside => \A j \in left[gen] : RowOf(j) \in armed

\* The records of the loop at work are of today, and of armed rows:
GenToday ==
  \A j \in Job : AtWork /\ retry[j] # NoRetry /\ retry[j].gen = gen =>
    retry[j].day = Today /\ (on => RowOf(j) \in armed)

\* when the window is over, the next pass takes them out.
GenOver ==
  \A j \in Job :
    /\ on /\ Cur >= EndAt(j) /\ RowOf(j) \in armed
    /\ \/ passed
       \/ pc[gen] \in Inside /\ j \notin left[gen]
       \/ pc[gen] \in {"check", "query", "flat"} /\ at[gen].job = j
    => retry[j] = NoRetry \/ retry[j].gen # gen

GaveOver == \A j \in Job : Today \in gave[j] => Cur >= EndAt(j)

Unfinished == \A j \in Job : retry[j].day = Today => fired[j] # Today

GaveInv ==
  ToldInv /\ LeftArmed /\ GenToday /\ GenOver /\ GaveOver /\ Unfinished

LEMMA GaveInit ==
  ASSUME Init PROVE GaveInv
<1>1. ToldInv
  BY ToldInit
<1>2. LeftArmed /\ GenToday /\ GenOver /\ GaveOver
  BY DEF Init, LeftArmed, GenToday, GenOver, GaveOver
<1>3. Unfinished
  <2>1. Today # 0
    BY <1>1, TodayBound DEF ToldInv, Base, TypeOK
  <2> QED BY <2>1 DEF Init, Unfinished, NoRetry
<1> QED BY <1>1, <1>2, <1>3 DEF GaveInv

\* What a step outside the loops does, when no row is disarmed.
LEMMA ArmsOnly ==
  ASSUME "disarm" \notin Quirk, "overlap" \notin Quirk, TypeOK, AtJob,
         Member \/ GateChanges \/ UNCHANGED vars
  PROVE  /\ OutsideLoops
         /\ \/ BetweenJobs /\ gen + 1 \in Gen /\ gen' = gen + 1 /\ passed' = FALSE
               /\ pc' = [pc EXCEPT ![gen + 1] = "top"]
            \/ /\ UNCHANGED <<pc, gen>>
               /\ on' => on /\ armed \subseteq armed'
               /\ on' /\ passed' => passed /\ armed' = armed
<1>1. OutsideLoops
  BY MemberChanges
<1>2. ASSUME NEW r \in Row, Arm(r)
      PROVE  \/ BetweenJobs /\ gen + 1 \in Gen /\ gen' = gen + 1 /\ passed' = FALSE
                /\ pc' = [pc EXCEPT ![gen + 1] = "top"]
             \/ /\ UNCHANGED <<pc, gen>>
                /\ on' => on /\ armed \subseteq armed'
                /\ on' /\ passed' => passed /\ armed' = armed
  <2>1. gen < MaxGen => gen + 1 \in Gen
    BY CloseAssumption DEF TypeOK, Gen
  <2>2. passed' = FALSE /\ armed \subseteq armed'
    BY <1>2 DEF Arm
  <2>3. CASE UNCHANGED <<on, gen, pc>>
    <3>1. on' => on
      BY <2>3, Zenon
    <3> QED BY <2>2, <2>3, <3>1
  <2>4. CASE /\ gen < MaxGen /\ gen' = gen + 1
             /\ "overlap" \in Quirk \/ BetweenJobs
             /\ pc' = [pc EXCEPT ![gen + 1] = "top"]
    BY <2>1, <2>2, <2>4
  <2> QED BY <1>2, <2>3, <2>4 DEF Arm
<1>3. ASSUME ~ \E r \in Row : Arm(r)
      PROVE  /\ UNCHANGED <<pc, gen>> /\ passed' = passed
             /\ (on' = on /\ armed' = armed) \/ on' = FALSE
  BY <1>3 DEF Member, Stop, Disarm, RowStop, Filled, ClosedElsewhere, ExitMoved, Entering,
              GateChanges, vars, app, loop, history
<1>4. ASSUME passed' = passed, (on' = on /\ armed' = armed) \/ on' = FALSE
      PROVE  /\ on' => on /\ armed \subseteq armed'
             /\ on' /\ passed' => passed /\ armed' = armed
  <2>1. armed \subseteq armed
    OBVIOUS
  <2>2. CASE on' = FALSE
    BY <2>2, Zenon
  <2>3. CASE on' = on /\ armed' = armed
    BY <1>4, <2>1, <2>3, Zenon
  <2> QED BY <1>4, <2>2, <2>3, Zenon
<1> QED BY <1>1, <1>2, <1>3, <1>4

LEMMA LeftArmedStep ==
  ASSUME "disarm" \notin Quirk, "overlap" \notin Quirk, GaveInv, [Next]_vars
  PROVE  LeftArmed'
<1> USE DEF GaveInv, ToldInv, Base
<1> SUFFICES ASSUME on', pc'[gen'] \in Inside, NEW j \in left'[gen']
             PROVE  RowOf(j)' \in armed'
  BY DEF LeftArmed
<1>0. RowOf(j)' = RowOf(j)
  BY DEF RowOf
<1>1. CASE Member \/ GateChanges \/ UNCHANGED vars
  <2>1. CASE gen + 1 \in Gen /\ gen' = gen + 1 /\ pc' = [pc EXCEPT ![gen + 1] = "top"]
    BY <2>1 DEF TypeOK, Inside
  <2>2. CASE UNCHANGED <<pc, gen, left>> /\ on /\ armed \subseteq armed'
    BY <1>0, <2>2 DEF LeftArmed
  <2> QED BY <1>1, <2>1, <2>2, ArmsOnly DEF OutsideLoops
<1>2. CASE Tick \/ Sleep
  <2>1. on /\ UNCHANGED <<pc, gen, left, armed>>
    BY <1>2, TimePasses
  <2> QED BY <1>0, <2>1 DEF LeftArmed
<1>3. ASSUME NEW g \in Gen, LoopStep(g) PROVE RowOf(j) \in armed'
  <2>1. on /\ gen' = gen /\ armed' = armed /\ gen \in Gen
    BY <1>3, LoopChanges DEF AtJob
  <2>2. CASE g # gen
    <3>1. pc'[gen] = pc[gen] /\ left'[gen] = left[gen]
      BY <1>3, <2>1, <2>2, OthersStay
    <3> QED BY <2>1, <3>1 DEF LeftArmed
  <2>3. CASE g = gen
    <3>1. CASE Top(g)
      BY <2>1, <2>3, <3>1 DEF Top, TypeOK, Mine, Inside
    <3>2. CASE left'[g] \subseteq left[g] /\ pc[g] \in Inside
      BY <2>1, <2>3, <3>2 DEF LeftArmed
    <3>3. CASE Skips(g) \/ Ends(g) \/ Failed(g)
      <4>1. pc[g] \in Inside /\ NextJob(g)
        BY <3>3 DEF Skips, Ends, Failed, Fail, Inside
      <4> QED BY <3>2, <4>1 DEF NextJob, TypeOK
    <3>4. CASE Look(g)
      <4>1. CASE EndPass(g)
        BY <2>1, <2>3, <4>1 DEF EndPass, TypeOK, Inside
      <4> QED BY <3>2, <3>4, <4>1 DEF Look, Inside
    <3>5. CASE GiveUp(g) \/ Takes(g) \/ StartFlatten(g)
      BY <3>2, <3>5 DEF GiveUp, Takes, StartFlatten, Inside
    <3> QED BY <1>3, <2>3, <3>1, <3>3, <3>4, <3>5, LoopKinds DEF Mine
  <2> QED BY <2>2, <2>3
<1> QED BY <1>0, <1>1, <1>2, <1>3, NextKinds

LEMMA UnfinishedStep ==
  ASSUME GaveInv, [Next]_vars PROVE Unfinished'
<1> USE DEF GaveInv, ToldInv, Base
<1> SUFFICES ASSUME NEW j \in Job, retry'[j].day = Today' PROVE fired'[j] # Today'
  BY DEF Unfinished
<1>1. /\ Today \in Nat \ {0} /\ Today' \in Nat \ {0}
      /\ Today' = Today \/ (Today < Today' /\ (Tick \/ Sleep))
  BY TimeGoes
<1>2. CASE Today < Today' /\ (Tick \/ Sleep)
  <2>1. fired' = fired /\ fired[j] <= Today /\ fired[j] \in 0 .. Days
    BY <1>2, TimePasses DEF FiredDue, TypeOK
  <2>2. fired[j] \in Nat
    BY <2>1, CloseAssumption
  <2> QED BY <1>1, <1>2, <2>1, <2>2
<1>3. CASE Today' = Today /\ fired'[j] = fired[j] /\ retry'[j] = retry[j]
  BY <1>3 DEF Unfinished
<1>4. CASE Member \/ GateChanges \/ UNCHANGED vars \/ Tick \/ Sleep
  BY <1>1, <1>2, <1>3, <1>4, MemberChanges, TimePasses DEF OutsideLoops
<1>5. ASSUME NEW g \in Gen, LoopStep(g) PROVE fired'[j] # Today'
  <2>1. Today' = Today
    BY <1>5, LoopChanges DEF Today
  <2>2. CASE Ends(g)
    BY <1>1, <1>3, <2>1, <2>2 DEF Ends, TypeOK, NoRetry
  <2>3. CASE GiveUp(g)
    BY <1>1, <1>3, <2>1, <2>3 DEF GiveUp, TypeOK, NoRetry
  <2>4. CASE Failed(g) /\ at[g].job \in Job
    <3>1. fired' = fired /\ fired[at[g].job] # Today
          /\ \A k \in Job : k # at[g].job => retry'[k] = retry[k]
      BY <2>4, FailRecord DEF TypeOK
    <3> QED BY <1>3, <2>1, <3>1
  <2> QED BY <1>3, <1>5, <2>1, <2>2, <2>3, <2>4, RecordStep
<1> QED BY <1>4, <1>5, NextKinds

\* Whoever announces the end does it on the day of the failure.
LEMMA AnnouncedToday ==
  ASSUME GaveInv, NEW g \in Gen, g = gen, GiveUp(g), Announces(g, at[g].job)
  PROVE  /\ at[g].job \in Job /\ retry[at[g].job].day = Today
         /\ Cur >= EndAt(at[g].job)
<1> USE DEF GaveInv, ToldInv, Base
<1>1. pc[g] = "stale"
  BY DEF GiveUp
<1>2. /\ at[g].job \in Job /\ at[g].rt = retry[at[g].job]
      /\ Stale(at[g].job, at[g].rt)
  BY <1>1 DEF AtJob, TypeOK, Fresh, Inside
<1>3. retry[at[g].job].day = Today
  BY <1>1, <1>2 DEF Announces, GenToday, AtWork, Inside
<1> QED BY <1>2, <1>3 DEF Stale

LEMMA GaveOverStep ==
  ASSUME GaveInv, [Next]_vars PROVE GaveOver'
<1> USE DEF GaveInv, ToldInv, Base
<1> SUFFICES ASSUME NEW j \in Job, Today' \in gave'[j] PROVE Cur' >= EndAt(j)
  BY DEF GaveOver, EndAt
<1>1. /\ Today \in Nat \ {0} /\ Today' \in Nat \ {0} /\ Cur \in Nat /\ Cur' \in Nat
      /\ \/ Today' = Today /\ Cur <= Cur'
         \/ Today < Today' /\ (Tick \/ Sleep)
  BY TimeGoes
<1>2. CASE Today < Today' /\ (Tick \/ Sleep)
  <2>1. Today' \in gave[j]
    BY <1>2, TimePasses
  <2>2. Today' \in 1 .. Today
    BY <2>1 DEF Past
  <2> QED BY <1>1, <1>2, <2>2
<1>3. EndAt(j) \in Nat
  BY JobTypes
<1>4. CASE Today' = Today /\ Cur <= Cur' /\ gave'[j] = gave[j]
  BY <1>1, <1>3, <1>4 DEF GaveOver
<1>5. CASE Member \/ GateChanges \/ UNCHANGED vars \/ Tick \/ Sleep
  BY <1>1, <1>2, <1>4, <1>5, MemberChanges, TimePasses DEF OutsideLoops
<1>6. ASSUME NEW g \in Gen, LoopStep(g) PROVE Cur' >= EndAt(j)
  <2>1. Today' = Today /\ Cur' = Cur /\ Cur <= Cur'
    BY <1>1, <1>6, LoopChanges DEF Today, Cur
  <2>2. CASE gave'[j] = gave[j]
    BY <1>4, <2>1, <2>2
  <2>3. CASE g = gen /\ GiveUp(g) /\ at[g].job \in Job
    <3>1. CASE Announces(g, at[g].job)
      <4>1. gave' = [gave EXCEPT ![at[g].job] = @ \union {Today}]
        BY <2>3, <3>1 DEF GiveUp
      <4>2. Cur >= EndAt(at[g].job)
        BY <2>3, <3>1, AnnouncedToday
      <4>3. j = at[g].job \/ gave'[j] = gave[j]
        BY <4>1 DEF TypeOK
      <4> QED BY <2>1, <2>2, <4>2, <4>3
    <3>2. CASE ~ Announces(g, at[g].job)
      BY <2>2, <2>3, <3>2 DEF GiveUp
    <3> QED BY <3>1, <3>2
  <2>4. CASE Ends(g)
    BY <2>2, <2>4 DEF Ends
  <2>5. CASE Failed(g) /\ at[g].job \in Job
    BY <2>2, <2>5, FailRecord
  <2> QED BY <1>6, <2>2, <2>3, <2>4, <2>5, RecordStep
<1> QED BY <1>5, <1>6, NextKinds

LEMMA GenTodayStep ==
  ASSUME "disarm" \notin Quirk, "overlap" \notin Quirk, "sleep" \notin Quirk, WindowsEnd,
         GaveInv, [Next]_vars
  PROVE  GenToday'
<1> USE DEF GaveInv, ToldInv, Base
<1> SUFFICES ASSUME NEW j \in Job, AtWork', retry'[j] # NoRetry, retry'[j].gen = gen'
             PROVE  retry'[j].day = Today' /\ (on' => RowOf(j) \in armed')
  BY DEF GenToday, RowOf
<1>1. gen \in Nat
  BY CloseAssumption DEF TypeOK
<1>2. CASE AtWork /\ retry'[j] = retry[j] /\ gen' = gen /\ Today' = Today
           /\ (on' => on /\ armed \subseteq armed')
  BY <1>2 DEF GenToday
<1>3. CASE Member \/ GateChanges \/ UNCHANGED vars
  <2>1. retry' = retry /\ Today' = Today
    BY <1>3, MemberChanges DEF OutsideLoops, Today
  <2>2. CASE gen' = gen + 1
    BY <1>1, <2>1, <2>2 DEF Numbered
  <2>3. CASE UNCHANGED <<pc, gen>> /\ (on' => on /\ armed \subseteq armed')
    BY <1>2, <2>1, <2>3 DEF AtWork
  <2> QED BY <1>3, <2>2, <2>3, ArmsOnly
<1>4. CASE Tick
  <2>1. /\ UNCHANGED <<on, gen, pc, armed, retry>> /\ BetweenJobs
        /\ now \in Time /\ now' = now + 1 /\ now' \in Time /\ (on => passed)
    BY <1>4, TimePasses DEF Tick
  <2>2. on
    BY <2>1 DEF AtWork, BetweenJobs, Inside
  <2>3. retry[j].day = Today /\ RowOf(j) \in armed
    BY <2>1, <2>2 DEF GenToday, AtWork
  <2>4. CASE Today' = Today
    BY <2>1, <2>3, <2>4
  <2>5. CASE Cur = DayLen - 1
    <3>1. EndAt(j) \in Nat /\ DayLen \in Nat /\ EndAt(j) < DayLen
      BY JobTypes, CloseAssumption DEF WindowsEnd
    <3>2. Cur >= EndAt(j)
      BY <2>5, <3>1
    <3> QED BY <2>1, <2>2, <2>3, <3>2 DEF GenOver
  <2> QED BY <2>1, <2>4, <2>5, ClockTicks
<1>5. ~ Sleep
  BY DEF Sleep
<1>6. ASSUME NEW g \in Gen, LoopStep(g)
      PROVE  retry'[j].day = Today' /\ (on' => RowOf(j) \in armed')
  <2>1. UNCHANGED <<on, gen, armed>> /\ Today' = Today
    BY <1>6, LoopChanges DEF Today
  <2>2. (on' => on /\ armed \subseteq armed') /\ gen' = gen
    <3>1. armed' = armed /\ (on' => on)
      BY <2>1, Zenon
    <3> QED BY <2>1, <3>1
  <2>3. AtWork
    <3>1. CASE on'
      BY <2>2, <3>1 DEF AtWork
    <3>2. CASE gen \in Gen /\ pc'[gen] \in Inside
      <4>1. CASE g # gen
        BY <1>6, <3>2, <4>1, OthersStay DEF AtWork
      <4>2. CASE g = gen /\ Top(g)
        BY <3>2, <4>2 DEF Top, AtWork, Inside, TypeOK
      <4>3. CASE g = gen /\ ~ Top(g)
        <5>1. pc[g] \in Inside
          BY <1>6, <4>3 DEF LoopStep, Look, GiveUp, Check, NothingOpen, LeftToMember, HeldOn,
                            Overtaken, StartFlatten, Flattened, Failed, Inside
        <5> QED BY <4>3, <5>1 DEF AtWork
      <4> QED BY <4>1, <4>2, <4>3
    <3> QED BY <2>1, <3>1, <3>2 DEF AtWork
  <2>4. CASE retry'[j] = retry[j]
    BY <1>2, <2>1, <2>2, <2>3, <2>4
  <2>5. CASE Ends(g)
    BY <2>4, <2>5 DEF Ends, TypeOK
  <2>6. CASE GiveUp(g)
    BY <2>4, <2>6 DEF GiveUp, TypeOK
  <2>7. CASE g = gen /\ Failed(g) /\ at[g].job \in Job
    <3> DEFINE r == [day |-> Today, n |-> at[g].rt.n + 1, next |-> now + 1,
                     live |-> at[g].live, gen |-> g]
    <3>1. retry' = [retry EXCEPT ![at[g].job] = r] /\ r.day = Today
      BY <2>7, FailRecord
    <3> HIDE DEF r
    <3>2. CASE j = at[g].job
      <4>1. pc[g] \in Inside /\ j \in left[g]
        BY <2>7, <3>2 DEF Failed, AtJob, Inside
      <4>2. on => RowOf(j) \in armed
        BY <2>7, <4>1 DEF LeftArmed
      <4> QED BY <2>1, <2>2, <3>1, <3>2, <4>2 DEF TypeOK
    <3>3. CASE j # at[g].job
      BY <2>4, <3>1, <3>3 DEF TypeOK
    <3> QED BY <3>2, <3>3
  <2> QED BY <1>6, <2>4, <2>5, <2>6, <2>7, RecordStep
<1> QED BY <1>3, <1>4, <1>5, <1>6, NextKinds

LEMMA GenOverStep ==
  ASSUME "disarm" \notin Quirk, "overlap" \notin Quirk, GaveInv, [Next]_vars
  PROVE  GenOver'
<1> USE DEF GaveInv, ToldInv, Base
<1> DEFINE By(j) ==
      \/ passed
      \/ pc[gen] \in Inside /\ j \notin left[gen]
      \/ pc[gen] \in {"check", "query", "flat"} /\ at[gen].job = j
<1> SUFFICES ASSUME NEW j \in Job, on', Cur' >= EndAt(j), RowOf(j) \in armed', By(j)'
             PROVE  retry'[j] = NoRetry \/ retry'[j].gen # gen'
  BY DEF GenOver, EndAt, RowOf
<1>1. CASE on /\ Cur >= EndAt(j) /\ By(j) /\ RowOf(j) \in armed
           /\ gen' = gen /\ retry'[j] = retry[j]
  BY <1>1 DEF GenOver
<1>2. CASE Member \/ GateChanges \/ UNCHANGED vars
  <2>1. UNCHANGED <<retry, left, at>> /\ Cur' = Cur
    BY <1>2, MemberChanges DEF OutsideLoops, Cur
  <2>2. CASE gen + 1 \in Gen /\ gen' = gen + 1 /\ passed' = FALSE
             /\ pc' = [pc EXCEPT ![gen + 1] = "top"]
    <3>1. pc'[gen'] = "top" /\ ~ passed'
      BY <2>2 DEF TypeOK
    <3> QED BY <3>1 DEF Inside
  <2>3. CASE /\ UNCHANGED <<pc, gen>>
             /\ on' => on /\ armed \subseteq armed'
             /\ on' /\ passed' => passed /\ armed' = armed
    <3>1. on
      BY <2>3
    <3>2. By(j)
      BY <2>1, <2>3
    <3>3. CASE RowOf(j) \in armed
      BY <1>1, <2>1, <2>3, <3>1, <3>2, <3>3
    <3>4. CASE RowOf(j) \notin armed
      BY <2>1, <2>3, <3>1, <3>4 DEF GenToday, AtWork
    <3> QED BY <3>3, <3>4
  <2> QED BY <1>2, <2>2, <2>3, ArmsOnly
<1>3. CASE Tick \/ Sleep
  <2>1. BetweenJobs /\ ~ passed' /\ UNCHANGED <<on, gen, pc>>
    BY <1>3, TimePasses
  <2>2. gen \in Gen
    BY <2>1 DEF AtJob
  <2> QED BY <2>1, <2>2 DEF BetweenJobs, Inside
<1>4. ASSUME NEW g \in Gen, LoopStep(g)
      PROVE  retry'[j] = NoRetry \/ retry'[j].gen # gen'
  <2>1. on /\ gen' = gen /\ armed' = armed /\ gen \in Gen /\ RowOf(j) \in armed
        /\ Cur >= EndAt(j)
    BY <1>4, LoopChanges DEF AtJob, Cur
  <2>2. CASE By(j) /\ retry'[j] = retry[j]
    BY <1>1, <2>1, <2>2
  <2>3. CASE g # gen
    <3>1. UNCHANGED <<retry, passed>>
      BY <1>4, <2>3, OneLoop
    <3>2. pc'[gen] = pc[gen] /\ left'[gen] = left[gen] /\ at'[gen] = at[gen]
      BY <1>4, <2>1, <2>3, OthersStay
    <3> QED BY <2>1, <2>2, <3>1, <3>2
  <2>4. CASE g = gen
    <3>0. pc[g] \in Inside \ {"look"} => at[g].job \in Job
      BY DEF AtJob, TypeOK
    <3>1. CASE Top(g)
      <4>1. /\ pc' = [pc EXCEPT ![g] = "look"] /\ retry' = retry /\ passed' = passed
            /\ left' = [left EXCEPT ![g] = {k \in Job : RowOf(k) \in armed}]
        BY <2>1, <2>4, <3>1 DEF Top, Mine, records
      <4>2. pc'[g] = "look" /\ j \in left'[g]
        BY <2>1, <4>1 DEF TypeOK
      <4> QED BY <2>1, <2>2, <2>4, <4>1, <4>2
    <3>2. CASE Look(g)
      <4>1. pc[g] = "look" /\ retry' = retry
        BY <3>2 DEF Look, records
      <4>2. CASE left[g] = {}
        BY <2>2, <2>4, <4>1, <4>2 DEF Inside
      <4>3. CASE left[g] # {}
        <5>1. PICK k \in left[g] :
                /\ at' = [at EXCEPT ![g] = [Idle EXCEPT !.job = k, !.rt = retry[k]]]
                /\ pc' = [pc EXCEPT ![g] = IF Stale(k, retry[k]) THEN "stale" ELSE "check"]
                /\ left' = left /\ passed' = passed
          BY <2>4, <3>2, <4>3 DEF Look, Mine
        <5>2. at'[g].job = k /\ (pc'[g] = "stale" \/ (pc'[g] = "check" /\ ~ Stale(k, retry[k])))
          BY <5>1 DEF TypeOK, Idle
        <5>3. CASE j = k /\ ~ Stale(k, retry[k])
          BY <2>1, <4>1, <5>3 DEF Stale
        <5>4. CASE j # k \/ pc'[g] = "stale"
          <6>1. By(j)
            BY <2>1, <2>4, <4>1, <5>1, <5>2, <5>4 DEF Inside
          <6> QED BY <2>2, <4>1, <6>1
        <5> QED BY <5>2, <5>3, <5>4
      <4> QED BY <4>2, <4>3
    <3>3. CASE GiveUp(g)
      <4>1. /\ pc[g] = "stale" /\ left' = left /\ passed' = passed
            /\ retry' = [retry EXCEPT ![at[g].job] = NoRetry]
            /\ at' = [at EXCEPT ![g] = [at[g] EXCEPT !.rt = NoRetry]]
        BY <3>3 DEF GiveUp
      <4>2. at'[g].job = at[g].job
        BY <4>1 DEF TypeOK
      <4>3. CASE j = at[g].job
        BY <4>1, <4>3 DEF TypeOK
      <4>4. CASE j # at[g].job
        BY <2>1, <2>2, <2>4, <4>1, <4>2, <4>4 DEF TypeOK, Inside
      <4> QED BY <4>3, <4>4
    <3>4. CASE NextJob(g) /\ passed' = passed /\ pc[g] \in {"check", "query", "flat"}
               /\ retry'[j] = retry[j]
      <4>1. pc'[g] = "look" /\ left'[g] = left[g] \ {at[g].job}
        BY <3>4 DEF NextJob, TypeOK
      <4>2. By(j)
        BY <2>1, <2>4, <3>4, <4>1 DEF Inside
      <4> QED BY <2>2, <3>4, <4>2
    <3>5. CASE Skips(g)
      BY <3>4, <3>5 DEF Skips
    <3>6. CASE Ends(g)
      BY <3>4, <3>6 DEF Ends, TypeOK
    <3>7. CASE Failed(g)
      <4>1. at[g].job \in Job
        BY <3>0, <3>7 DEF Failed, Inside
      <4>2. Cur < EndAt(at[g].job)
        BY <3>7 DEF Failed, InDue
      <4>3. j # at[g].job
        BY <2>1, <4>1, <4>2, JobTypes, Clock DEF TypeOK
      <4>4. retry'[j] = retry[j]
        BY <3>7, <4>1, <4>3, FailRecord DEF TypeOK
      <4>5. NextJob(g) /\ passed' = passed /\ pc[g] \in {"query", "flat"}
        BY <3>7 DEF Failed, Fail
      <4> QED BY <3>4, <4>4, <4>5
    <3>8. CASE Takes(g) \/ StartFlatten(g)
      <4>1. /\ left' = left /\ at'[g].job = at[g].job /\ passed' = passed /\ retry' = retry
            /\ pc[g] \in {"check", "query"}
        BY <3>8 DEF Takes, StartFlatten, records
      <4>2. By(j)
        BY <2>1, <2>4, <4>1 DEF Inside
      <4> QED BY <2>2, <4>1, <4>2
    <3> QED BY <1>4, <2>4, <3>1, <3>2, <3>3, <3>5, <3>6, <3>7, <3>8, LoopKinds DEF Mine
  <2> QED BY <2>3, <2>4
<1> QED BY <1>2, <1>3, <1>4, NextKinds

LEMMA GaveStep ==
  ASSUME "disarm" \notin Quirk, "overlap" \notin Quirk, "sleep" \notin Quirk, WindowsEnd
  PROVE  GaveInv /\ [Next]_vars => GaveInv'
<1> SUFFICES ASSUME GaveInv, [Next]_vars PROVE GaveInv'
  OBVIOUS
<1>1. ToldInv'
  BY ToldStep DEF GaveInv
<1> QED
  BY <1>1, LeftArmedStep, GenTodayStep, GenOverStep, GaveOverStep, UnfinishedStep
  DEF GaveInv

LEMMA GivesUpOnce ==
  ASSUME GaveInv, [Next]_vars PROVE GiveUpIsFinal
<1> USE DEF GaveInv, ToldInv, Base
<1>1. ASSUME NEW j \in Job, gave'[j] # gave[j] PROVE fired[j] # Today
  <2>1. PICK g \in Gen : LoopStep(g)
    BY <1>1, MemberChanges, TimePasses, NextKinds DEF OutsideLoops
  <2>2. CASE Ends(g) \/ (Failed(g) /\ at[g].job \in Job)
    BY <1>1, <2>2, FailRecord DEF Ends
  <2>3. CASE g = gen /\ GiveUp(g) /\ at[g].job \in Job
    <3>1. Announces(g, at[g].job) /\ j = at[g].job
      BY <1>1, <2>3 DEF GiveUp, TypeOK
    <3> QED BY <2>3, <3>1, AnnouncedToday DEF Unfinished
  <2> QED BY <1>1, <2>1, <2>2, <2>3, RecordStep
<1>2. ASSUME NEW g \in Gen, pc[g] # "flat", pc'[g] = "flat"
      PROVE  Today \notin gave[at[g].job]
  <2>0. pc'[g] \in Inside \ {"look"}
    BY <1>2 DEF Inside
  <2>1. g = gen /\ LoopStep(g)
    BY <1>2, <2>0, HeldStep
  <2>2. StartFlatten(g)
    BY <1>2, <2>1, LoopKinds
    DEF Top, Look, GiveUp, Skips, Ends, Takes, Failed, Fail, NextJob, EndPass, Mine, TypeOK
  <2>3. pc[g] = "query"
    BY <2>2 DEF StartFlatten
  <2>4. at[g].job \in Job /\ Cur < EndAt(at[g].job)
    BY <2>3 DEF InDue, AtJob, TypeOK, Inside
  <2> QED BY <2>4, JobTypes, Clock DEF GaveOver, TypeOK
<1> QED BY <1>1, <1>2 DEF GiveUpIsFinal

\* After "the app will not attempt this exit again today" there is no attempt,
\* and the close had not been finished: for any windows that end before
\* midnight, over stops, starts and changes of the gate (_auto_loop).
THEOREM GivenUpIsOver ==
  ASSUME "disarm" \notin Quirk, "overlap" \notin Quirk, "sleep" \notin Quirk, WindowsEnd
  PROVE  Spec => [][GiveUpIsFinal]_vars
<1>1. GaveInv /\ [Next]_vars => [GiveUpIsFinal]_vars
  BY GivesUpOnce
<1> QED BY <1>1, GaveInit, GaveStep, PTL DEF Spec
=============================================================================
