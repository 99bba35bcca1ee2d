----------------------------- MODULE AutoClose ------------------------------
(***************************************************************************)
(* The session-close loop of EQ Autopilot (eqgui.py, App._auto_loop).  At  *)
(* the end of an asset's session it flattens each armed account once; a    *)
(* failed close is retried until the window ends.  As with the signal      *)
(* loop, Stop does not wait for the thread and Start raises a generation   *)
(* number, so an old loop may still be inside a broker call.  What was     *)
(* closed today (_auto_fired) and what has to be retried (_auto_retry) are *)
(* shared by all generations.                                              *)
(*                                                                         *)
(* Time is counted in retry intervals: one tick stands for AUTO_RETRY_SEC  *)
(* and the 30-minute window is scaled down to Window ticks.  The work on   *)
(* one job takes less than a tick.                                         *)
(***************************************************************************)
EXTENDS Naturals, FiniteSets

CONSTANTS
  Job,       \* armed closes, the keys (asset, hour, account)
  NoJob,     \* a loop between two jobs
  Asset, JobAsset, \* NQ, GC, BTC, and [Job -> Asset]
  Acct, JobAcct,   \* accounts, and [Job -> Acct]
  DueAt,     \* [Job -> tick of the day], the fixed hour of _ASSET_EXITS
  Window,    \* AUTO_FIRE_WINDOW_MIN in ticks
  DayLen,    \* ticks of a day
  Days,      \* bound: days
  Sunday,    \* days on which BTC is entered
  Block,     \* BTC's 4-hour candle jobs
  Expiry,    \* the last of them, the 24-hour limit
  Tiers,     \* "autopilot": the app judges BTC's candles; "operator": the
             \* member does (_full_exit, as the last heartbeat said)
  EntryAt,   \* [Asset -> SUBSET Time], when the signal loop may enter
  Early,     \* [Asset -> SUBSET Time], exit times the server may send
  MaxGen,    \* bound: generations of the loop
  Quirk      \* what else may happen: "stop", "gate", "disarm", "sleep",
             \* "other" (positions closed elsewhere), and "overlap", a Start
             \* while an old loop is inside a job

Gen == 1 .. MaxGen
Time == 0 .. Days * DayLen - 1
Never == Days * DayLen
Row == {<<JobAsset[j], JobAcct[j]>> : j \in Job}
RowOf(j) == <<JobAsset[j], JobAcct[j]>>

ASSUME CloseAssumption ==
  /\ NoJob \notin Job
  /\ Window \in Nat \ {0} /\ DayLen \in Nat \ {0}
  /\ Days \in Nat \ {0} /\ MaxGen \in Nat
  /\ JobAsset \in [Job -> Asset] /\ JobAcct \in [Job -> Acct]
  /\ DueAt \in [Job -> Nat]
  /\ Expiry \subseteq Block /\ Block \subseteq Job
  /\ Tiers \subseteq {"autopilot", "operator"} /\ Tiers # {}
  /\ EntryAt \in [Asset -> SUBSET Time] /\ Early \in [Asset -> SUBSET Time]

VARIABLES
  now,       \* the clock
  on, gen,   \* _auto_on, _auto_gen
  armed,     \* rows in _auto_accts
  override,  \* _exit_override
  gate,      \* "live", "dry" (kill switch), "fallback" (server unreachable)
  fired,     \* _auto_fired: day a job was last done, 0 if never
  retry,     \* _auto_retry
  entering,  \* _entering_at and _entered_at
  \* the broker
  pos,       \* when the row's position was opened, Never when flat
  \* each generation's loop
  pc, left, at,
  \* history
  passed,    \* the current loop has gone over its jobs in this tick
  calm,      \* nothing disturbed the loop since before the day's first close
  first,     \* days on which the member was told of a first failure
  gave,      \* days on which the member was told the app gave up
  notices    \* how many follow-ups (finished, gave up) were sent

app == <<on, gen, armed, override, gate>>
records == <<fired, retry>>
loop == <<pc, left, at>>
history == <<passed, calm, first, gave, notices>>
vars == <<now, app, records, entering, pos, loop, history>>

Today == now \div DayLen + 1
Cur == now % DayLen
\* Mutant of EndAt: the window is one interval too long.
EndAtLate(j) == DueAt[j] + Window + 1

EndAt(j) == DueAt[j] + Window

NoRetry == [day |-> 0, n |-> 0, next |-> 0, live |-> FALSE, gen |-> 0]
Retry == [day : 0 .. Days, n : Nat, next : 0 .. Never,
          live : BOOLEAN, gen : 0 .. MaxGen]
Idle == [job |-> NoJob, rt |-> NoRetry, live |-> FALSE, fb |-> FALSE]

TypeOK ==
  /\ now \in Time
  /\ on \in BOOLEAN /\ gen \in 0 .. MaxGen
  /\ armed \subseteq Row
  /\ override \in [Asset -> Time \union {Never}]
  /\ gate \in {"live", "dry", "fallback"}
  /\ fired \in [Job -> 0 .. Days] /\ retry \in [Job -> Retry]
  /\ entering \in [Asset -> Time \union {Never}]
  /\ pos \in [Row -> Time \union {Never}]
  /\ pc \in [Gen -> {"none", "top", "look", "stale", "check", "query",
                     "flat", "off"}]
  /\ left \in [Gen -> SUBSET Job]
  /\ at \in [Gen -> [job : Job \union {NoJob}, rt : Retry,
                     live : BOOLEAN, fb : BOOLEAN]]
  /\ passed \in BOOLEAN /\ calm \in BOOLEAN
  /\ first \in [Job -> SUBSET (1 .. Days)]
  /\ gave \in [Job -> SUBSET (1 .. Days)]
  /\ notices \in [Job -> Nat]

Init ==
  /\ now = 0
  /\ on = FALSE /\ gen = 0 /\ armed = {}
  /\ override = [a \in Asset |-> Never]
  /\ gate = "live"
  /\ fired = [j \in Job |-> 0]
  /\ retry = [j \in Job |-> NoRetry]
  /\ entering = [a \in Asset |-> Never]
  /\ pos = [r \in Row |-> Never]
  /\ pc = [g \in Gen |-> "none"]
  /\ left = [g \in Gen |-> {}]
  /\ at = [g \in Gen |-> Idle]
  /\ passed = FALSE /\ calm = TRUE
  /\ first = [j \in Job |-> {}] /\ gave = [j \in Job |-> {}]
  /\ notices = [j \in Job |-> 0]


----------------------------------------------------------------------------
(* The member, the server, the signal loop and the clock. *)

BetweenJobs == \A g \in Gen : pc[g] \in {"none", "top", "off"}

\* _master_arm: the row's jobs join the running loop, or start a new one.
Arm(r) ==
  /\ r \notin armed /\ gate = "live"
  /\ armed' = armed \union {r}
  /\ \/ on /\ UNCHANGED <<on, gen, pc>>
     \/ /\ ~on /\ gen < MaxGen
        /\ "overlap" \in Quirk \/ BetweenJobs
        /\ on' = TRUE /\ gen' = gen + 1
        /\ pc' = [pc EXCEPT ![gen + 1] = "top"]
  /\ calm' = FALSE /\ passed' = FALSE
  /\ UNCHANGED <<now, override, gate, records, entering, pos, left, at,
                 first, gave, notices>>

\* _master_stop, and _apply_gating when the permission is gone.
Stop ==
  /\ "stop" \in Quirk /\ on
  /\ on' = FALSE /\ armed' = {} /\ calm' = FALSE
  /\ UNCHANGED <<now, gen, override, gate, records, entering, pos, loop,
                 passed, first, gave, notices>>

\* _live_disarm_asset: the asset's box is unticked, the loop runs on.
Disarm(a) ==
  /\ "disarm" \in Quirk
  /\ \E r \in armed : r[1] = a
  /\ armed' = {r \in armed : r[1] # a} /\ calm' = FALSE
  /\ UNCHANGED <<now, on, gen, override, gate, records, entering, pos, loop,
                 passed, first, gave, notices>>

\* _panel_stop and the deletion of a row end the loop with the last row.
RowStop(r) ==
  /\ "disarm" \in Quirk /\ r \in armed
  /\ armed' = armed \ {r} /\ calm' = FALSE
  /\ on' = (on /\ armed' # {})
  /\ UNCHANGED <<now, gen, override, gate, records, entering, pos, loop,
                 passed, first, gave, notices>>

\* A kill switch that was on when the server went away stays on.
GateChanges ==
  /\ "gate" \in Quirk
  /\ \E x \in {"live", "dry", "fallback"} \ {gate} :
       /\ ~ (gate = "dry" /\ x = "fallback")
       /\ gate' = x
  /\ calm' = FALSE
  /\ UNCHANGED <<now, on, gen, armed, override, records, entering, pos, loop,
                 passed, first, gave, notices>>

\* _note_exit_ts: the server moves today's exit.
ExitMoved(a) ==
  /\ \E t \in Early[a] : t >= now /\ override' = [override EXCEPT ![a] = t]
  /\ UNCHANGED <<now, on, gen, armed, gate, records, entering, pos, loop,
                 history>>

\* _enter_account notes the time before it orders ...
Entering(a) ==
  /\ now \in EntryAt[a]
  /\ entering' = [entering EXCEPT ![a] = now]
  /\ UNCHANGED <<now, app, records, pos, loop, history>>

\* ... and the order fills within the tick.
Filled(r) ==
  /\ entering[r[1]] = now /\ pos[r] # now
  /\ pos' = [pos EXCEPT ![r] = now]
  /\ UNCHANGED <<now, app, records, entering, loop, history>>

\* The protective stop fills, or the member closes the position.
ClosedElsewhere(r) ==
  /\ "other" \in Quirk /\ pos[r] # Never
  /\ pos' = [pos EXCEPT ![r] = Never]
  /\ UNCHANGED <<now, app, records, entering, loop, history>>

\* The running loop comes by every 15 seconds, so at least once a tick.
Tick ==
  /\ BetweenJobs /\ (on => passed)
  /\ now + 1 \in Time
  /\ now' = now + 1 /\ passed' = FALSE
  /\ calm' = (calm \/ \A j \in Job : Cur' <= DueAt[j] /\ fired[j] # Today')
  /\ UNCHANGED <<app, records, entering, pos, loop, first, gave, notices>>

\* The computer sleeps through at least one pass.
Sleep ==
  /\ "sleep" \in Quirk /\ BetweenJobs
  /\ \E t \in Time : /\ t > now + 1 /\ t <= now + DayLen
                     /\ now' = t
  /\ passed' = FALSE /\ calm' = FALSE
  /\ UNCHANGED <<app, records, entering, pos, loop, first, gave, notices>>

----------------------------------------------------------------------------
(* The loop of generation g. *)

Mine(g) == g = gen

\* _exit_due: an earlier exit counts on its own day, and not for BTC.
ExitDue(j) ==
  LET o == override[JobAsset[j]] IN
  IF /\ j \notin Block /\ o # Never
     /\ o \div DayLen + 1 = Today /\ o % DayLen < DueAt[j]
  THEN o % DayLen ELSE DueAt[j]

Stale(j, rt) == rt # NoRetry /\ (rt.day # Today \/ Cur >= EndAt(j))

\* Mutant of ToFire: the account is missing from the key.
ToFireOnce(j, rt) ==
  /\ ExitDue(j) <= Cur /\ Cur < EndAt(j)
  /\ \A k \in Job : JobAsset[k] = JobAsset[j] /\ DueAt[k] = DueAt[j]
       => fired[k] # Today
  /\ now >= rt.next

ToFire(j, rt) ==
  /\ ExitDue(j) <= Cur /\ Cur < EndAt(j)
  /\ fired[j] # Today
  /\ now >= rt.next

\* The position is new, or BTC's 24 hours have only begun.
Spared(j) ==
  LET e == entering[JobAsset[j]] IN
  \/ e # Never /\ now - e < Window
  \/ j \in Expiry /\ Today \in Sunday

NextJob(g) ==
  /\ pc' = [pc EXCEPT ![g] = "look"]
  /\ left' = [left EXCEPT ![g] = @ \ {at[g].job}]
  /\ at' = [at EXCEPT ![g] = Idle]

EndPass(g) ==
  /\ pc' = [pc EXCEPT ![g] = "top"]
  /\ left' = [left EXCEPT ![g] = {}]
  /\ at' = [at EXCEPT ![g] = Idle]

\* _done: nothing more to do for this job today.
Done(g) ==
  /\ fired' = [fired EXCEPT ![at[g].job] = Today]
  /\ retry' = [retry EXCEPT ![at[g].job] = NoRetry]
  /\ NextJob(g)
  /\ UNCHANGED <<first, gave, notices>>

\* Mutant of Fail: every failure counts as the first.
FailAnew(g) ==
  LET j == at[g].job
  IN /\ retry' = [retry EXCEPT ![j] = [day |-> Today, n |-> 1,
                    next |-> now + 1, live |-> at[g].live, gen |-> g]]
     /\ first' = [first EXCEPT ![j] = @ \union {Today}]
     /\ NextJob(g)
     /\ UNCHANGED <<fired, gave, notices>>

\* Mutant of Fail: the interval is taken in another unit.
FailMillis(g) ==
  LET j == at[g].job
      n == at[g].rt.n + 1
  IN /\ retry' = [retry EXCEPT ![j] = [day |-> Today, n |-> n,
                    next |-> now + 1000, live |-> at[g].live, gen |-> g]]
     /\ first' = IF n = 1 THEN [first EXCEPT ![j] = @ \union {Today}]
                 ELSE first
     /\ NextJob(g)
     /\ UNCHANGED <<fired, gave, notices>>

\* The failure is recorded; the member is told of the first one.
Fail(g) ==
  LET j == at[g].job
      n == at[g].rt.n + 1
  IN /\ retry' = [retry EXCEPT ![j] = [day |-> Today, n |-> n,
                    next |-> now + 1, live |-> at[g].live, gen |-> g]]
     /\ first' = IF n = 1 THEN [first EXCEPT ![j] = @ \union {Today}]
                 ELSE first
     /\ NextJob(g)
     /\ UNCHANGED <<fired, gave, notices>>

Outside == UNCHANGED <<now, app, entering, calm>>

Top(g) ==
  /\ pc[g] = "top"
  /\ IF on /\ Mine(g)
     THEN /\ pc' = [pc EXCEPT ![g] = "look"]
          /\ left' = [left EXCEPT ![g] = {j \in Job : RowOf(j) \in armed}]
     ELSE /\ pc' = [pc EXCEPT ![g] = "off"]
          /\ UNCHANGED left
  /\ Outside /\ UNCHANGED <<records, pos, at, passed, first, gave, notices>>

Look(g) ==
  /\ pc[g] = "look"
  /\ \/ /\ left[g] = {}
        /\ passed' = (passed \/ Mine(g))
        /\ EndPass(g)
     \/ /\ left[g] # {} /\ ~ Mine(g)
        /\ EndPass(g)
        /\ UNCHANGED passed
     \/ /\ Mine(g)
        /\ \E j \in left[g] :
             /\ at' = [at EXCEPT ![g] =
                         [Idle EXCEPT !.job = j, !.rt = retry[j]]]
             /\ pc' = [pc EXCEPT ![g] =
                         IF Stale(j, retry[j]) THEN "stale" ELSE "check"]
        /\ UNCHANGED <<left, passed>>
  /\ Outside /\ UNCHANGED <<records, pos, first, gave, notices>>

\* Mutants of Announces: the result of the pop is not looked at, and the
\* record of another generation is announced on another day.
AnnouncesAnyway(g, j) ==
  /\ at[g].rt.live
  /\ at[g].rt.day = Today \/ at[g].rt.gen = g

AnnouncesLate(g, j) ==
  /\ retry[j] # NoRetry
  /\ at[g].rt.live

\* The window closed on an unfinished close: whoever takes the record out
\* tells the member.  A record of another day and another generation only
\* makes a log line, and so does one of a dry run.
Announces(g, j) ==
  /\ retry[j] # NoRetry
  /\ at[g].rt.live
  /\ at[g].rt.day = Today \/ at[g].rt.gen = g

\* Mutant of GiveUp: the record stays.
GiveUpKeeps(g) ==
  LET j == at[g].job IN
  /\ pc[g] = "stale"
  /\ IF Announces(g, j)
     THEN /\ gave' = [gave EXCEPT ![j] = @ \union {Today}]
          /\ notices' = [notices EXCEPT ![j] = @ + 1]
     ELSE UNCHANGED <<gave, notices>>
  /\ pc' = [pc EXCEPT ![g] = "check"]
  /\ at' = [at EXCEPT ![g].rt = NoRetry]
  /\ Outside /\ UNCHANGED <<retry, fired, pos, left, passed, first>>

GiveUp(g) ==
  LET j == at[g].job IN
  /\ pc[g] = "stale"
  /\ retry' = [retry EXCEPT ![j] = NoRetry]
  /\ IF Announces(g, j)
     THEN /\ gave' = [gave EXCEPT ![j] = @ \union {Today}]
          /\ notices' = [notices EXCEPT ![j] = @ + 1]
     ELSE UNCHANGED <<gave, notices>>
  /\ pc' = [pc EXCEPT ![g] = "check"]
  /\ at' = [at EXCEPT ![g].rt = NoRetry]
  /\ Outside /\ UNCHANGED <<fired, pos, left, passed, first>>

Check(g) ==
  LET j == at[g].job IN
  /\ pc[g] = "check"
  /\ \/ /\ ~ ToFire(j, at[g].rt)
        /\ NextJob(g)
        /\ UNCHANGED <<records, first, gave, notices>>
     \/ /\ ToFire(j, at[g].rt) /\ Spared(j)
        /\ Done(g)
     \/ /\ ToFire(j, at[g].rt) /\ ~ Spared(j)
        /\ pc' = [pc EXCEPT ![g] = "query"]
        /\ at' = [at EXCEPT ![g].live = (gate # "dry"),
                            ![g].fb = (gate = "fallback")]
        /\ UNCHANGED <<records, left, first, gave, notices>>
  /\ Outside /\ UNCHANGED <<pos, passed>>

Candle(g) == at[g].job \in Block \ Expiry /\ ~ at[g].fb

AppJudges(g) == Candle(g) => "autopilot" \in Tiers

\* BTC, position read as flat: nothing to judge.
NothingOpen(g) ==
  /\ pc[g] = "query" /\ at[g].job \in Block
  /\ pos[RowOf(at[g].job)] = Never
  /\ Done(g) /\ Outside /\ UNCHANGED <<pos, passed>>

\* Operator tier: of BTC's closes only the 24-hour limit is the app's.
LeftToMember(g) ==
  /\ pc[g] = "query" /\ Candle(g) /\ "operator" \in Tiers
  /\ Done(g) /\ Outside /\ UNCHANGED <<pos, passed>>

\* _btc_x2be_step: the candle went the position's way, or could not be read.
HeldOn(g) ==
  /\ pc[g] = "query" /\ Mine(g)
  /\ Candle(g) /\ "autopilot" \in Tiers
  /\ Done(g) /\ Outside /\ UNCHANGED <<pos, passed>>

\* A newer loop has started since the pass began.
Overtaken(g) ==
  /\ pc[g] = "query" /\ ~ Mine(g) /\ AppJudges(g)
  /\ EndPass(g)
  /\ Outside /\ UNCHANGED <<records, pos, passed, first, gave, notices>>

StartFlatten(g) ==
  /\ pc[g] = "query" /\ Mine(g) /\ AppJudges(g)
  /\ pc' = [pc EXCEPT ![g] = "flat"]
  /\ Outside /\ UNCHANGED <<records, pos, left, at, passed, first, gave,
                            notices>>

\* flatten_all closes every position of the account.
Flat(g) ==
  [r \in Row |-> IF at[g].live /\ r[2] = JobAcct[at[g].job]
                 THEN Never ELSE pos[r]]

Flattened(g) ==
  LET j == at[g].job IN
  /\ pc[g] = "flat"
  /\ pos' = Flat(g)
  /\ fired' = [fired EXCEPT ![j] = Today]
  /\ retry' = [retry EXCEPT ![j] = NoRetry]
  /\ notices' = IF retry[j] # NoRetry /\ at[g].live
                THEN [notices EXCEPT ![j] = @ + 1] ELSE notices
  /\ NextJob(g)
  /\ Outside /\ UNCHANGED <<passed, first, gave>>

\* An exception on the way, or errors reported although orders went out.
Failed(g) ==
  /\ pc[g] \in {"query", "flat"}
  /\ pos' \in {pos, IF pc[g] = "flat" THEN Flat(g) ELSE pos}
  /\ Fail(g)
  /\ Outside /\ UNCHANGED passed

----------------------------------------------------------------------------
LoopStep(g) ==
  \/ Top(g) \/ Look(g) \/ GiveUp(g) \/ Check(g)
  \/ NothingOpen(g) \/ LeftToMember(g) \/ HeldOn(g) \/ Overtaken(g)
  \/ StartFlatten(g) \/ Flattened(g) \/ Failed(g)

Member ==
  \/ Stop
  \/ \E r \in Row : Arm(r) \/ RowStop(r) \/ Filled(r) \/ ClosedElsewhere(r)
  \/ \E a \in Asset : Disarm(a) \/ ExitMoved(a) \/ Entering(a)

Next ==
  \/ Member \/ GateChanges \/ Tick \/ Sleep
  \/ \E g \in Gen : LoopStep(g)

Spec == Init /\ [][Next]_vars

\* The thread runs on, and time passes.
Fairness ==
  /\ \A g \in Gen : WF_vars(LoopStep(g))
  /\ SF_vars(Tick)

FairSpec == Spec /\ Fairness

----------------------------------------------------------------------------
(* Properties. *)

DayStart == (Today - 1) * DayLen

\* A flatten never closes a position entered less than a window ago, the
\* accident of 2026-10-04 (eqgui.py 6424-6438), nor one of today whose own
\* session is not over: the assets of an account do not close each other.
LateKill ==
  \A g \in Gen : pc[g] = "flat" /\ pc'[g] # "flat" =>
    \A r \in Row : pos[r] # Never /\ pos'[r] = Never =>
      /\ now - pos[r] >= Window
      /\ pos[r] >= DayStart /\ r # RowOf(at[g].job) =>
           \E j \in Job : RowOf(j) = r /\ ExitDue(j) <= Cur

\* A position the loop was there to close is closed by the end of the
\* window, or the member was told that it failed.  On the day of BTC's entry
\* its 24 hours have only begun.
NoSilentHold ==
  \A j \in Job \ (Block \ Expiry) :
    LET p == pos[RowOf(j)] IN
    /\ ~ (j \in Expiry /\ Today \in Sunday)
    /\ on /\ RowOf(j) \in armed /\ gate = "live"
    /\ Cur >= EndAt(j) /\ calm
    /\ p # Never /\ p < DayStart + DueAt[j]
    => Today \in first[j]

\* A follow-up ("finished", "gave up") answers one failure record and takes
\* it out, whichever generation sends it.
NoticeWithRecord ==
  \A j \in Job : notices'[j] # notices[j] =>
    retry[j] # NoRetry /\ retry'[j] = NoRetry

NoticeTakesRecord == [][NoticeWithRecord]_vars

\* The popup and message of a first failure come once a day and job.
FirstTold ==
  \A j \in Job : retry'[j] # retry[j] /\ retry'[j].n = 1 =>
    Today \notin first[j]

\* "The app will not attempt this exit again today" is true: the close has
\* not been finished, and no attempt follows on that day.
GiveUpIsFinal ==
  \A j \in Job :
    /\ gave'[j] # gave[j] => fired[j] # Today
    /\ \A g \in Gen : pc[g] # "flat" /\ pc'[g] = "flat" /\ at[g].job = j
         => Today \notin gave[j]

\* A failure record is not left open while the job is armed: the close is
\* finished, given up, or found unnecessary.
FailureIsFollowedUp ==
  \A j \in Job : retry[j] # NoRetry ~>
    retry[j] = NoRetry \/ ~ on \/ RowOf(j) \notin armed
=============================================================================
