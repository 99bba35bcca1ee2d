---------------------------- MODULE FuturesEntry ----------------------------
(***************************************************************************)
(* One futures signal entered in one account (eqgui.py                     *)
(* _run_futures_entry): the claim that keeps a second computer out, what   *)
(* an earlier session left, the order of each leg, its confirmation and    *)
(* its protective stop.  Requests are lost, orders fill late, the app dies *)
(* in the middle and starts again; the watch of UnconfWatch runs beside.   *)
(*                                                                         *)
(* Three kinds of brokers: "px" (ProjectX) takes the stop as an order of   *)
(* its own after the entry, "oco" (IBKR, Tradovate) takes both as one,     *)
(* "nt8" takes both as a command to an add-on that answers late or never.  *)
(***************************************************************************)
EXTENDS UnconfWatch

CONSTANTS
  Kinds,     \* brokers
  Policies,  \* "market", or "limit": a limit order first
  Standbys,  \* computers set to stand by (nt8_standby)
  MaxTry,    \* bound: limit orders, or commands, before the app gives up
  MaxLife    \* bound: starts of the app on one computer

ASSUME EntryAssumption ==
  /\ 1 \in Leg /\ Leg \subseteq Nat \ {0}
  /\ "market" \in Policies
  /\ MaxTry \in Nat \ {0} /\ MaxLife \in Nat \ {0} /\ MaxFault \in Nat

VARIABLES
  kind, policy,
  size,      \* the legs of the signal: contracts it has a quantity for
  pc,        \* the next step of each run's entry
  cur,       \* the leg it is at
  try,       \* orders sent for this leg
  ans,       \* what the answer of the order says of the stop
  qty,       \* the limit order's last reading of the position
  life,      \* starts of each run: with the computer, the id of a claim
  claim,     \* who the server gave the account to
  odd        \* history: what happened that a property makes an exception for

thread == <<pc, cur, try, ans, qty>>
setup == <<kind, policy, size>>
vars == <<uvars, setup, thread, life, claim, odd>>
market == <<pos, stop, old, orders>>

Run(d) == <<d, life[d]>>
NoClaim == <<>>

TypeOK ==
  /\ UTypeOK
  /\ kind \in Kinds /\ policy \in Policies /\ size \in Leg
  /\ pc \in [Dev -> {"idle", "claim", "look", "clean", "send", "stop",
       "limit", "read", "cancel", "final", "confirm", "retry", "recheck",
       "take", "place", "placed", "mend", "flatten", "done"}]
  /\ cur \in [Dev -> Leg] /\ try \in [Dev -> 0 .. MaxTry]
  /\ ans \in [Dev -> {"none", "set", "failed", "refused", "unsure"}]
  /\ qty \in [Dev -> {"none", "some", "zero", "unknown"}]
  /\ life \in [Dev -> 1 .. MaxLife]
  /\ claim \in {NoClaim} \union (Dev \X (1 .. MaxLife))
  /\ odd \subseteq {"claim", "loose", "raced", "skip", "crash"}

Init ==
  /\ UInit
  /\ kind \in Kinds
  /\ policy \in IF kind = "px" THEN Policies ELSE {"market"}
  /\ size \in Leg
  /\ pc = [d \in Dev |-> "idle"] /\ cur = [d \in Dev |-> 1]
  /\ try = [d \in Dev |-> 0] /\ ans = [d \in Dev |-> "none"]
  /\ qty = [d \in Dev |-> "none"]
  /\ life = [d \in Dev |-> 1] /\ claim = NoClaim /\ odd = {}

Goto(d, step) == pc' = [pc EXCEPT ![d] = step]
At(d, step) == pc[d] = step /\ ~over
Tells(l, what) == told' = told \union {<<l, what>>}

\* The next leg, or the end of the entry.
NextLeg(d) ==
  IF cur[d] < size /\ cur[d] + 1 \in Leg
  THEN /\ Goto(d, IF policy = "limit" THEN "limit" ELSE "send")
       /\ cur' = [cur EXCEPT ![d] = @ + 1] /\ try' = [try EXCEPT ![d] = 0]
       /\ ans' = [ans EXCEPT ![d] = "none"] /\ qty' = [qty EXCEPT ![d] = "none"]
  ELSE Goto(d, "done") /\ UNCHANGED <<cur, try, ans, qty>>

Answer(d, a, step) ==
  ans' = [ans EXCEPT ![d] = a] /\ Goto(d, step) /\ UNCHANGED <<cur, try, qty>>
Step(d, step) == Goto(d, step) /\ UNCHANGED <<cur, try, ans, qty>>

-----------------------------------------------------------------------------
(* Before the orders. *)

Begin(d) ==
  /\ At(d, "idle") /\ Step(d, "claim")
  /\ UNCHANGED <<uvars, setup, life, claim, odd>>

\* The account or its contracts are not found: reported, and no entry.
NoAccount(d) ==
  /\ At(d, "idle") /\ Fails("account") /\ Step(d, "done")
  /\ UNCHANGED <<market, watcher, told, over, setup, life, claim, odd>>

\* Mutant of Claim: a claim names the computer only.
ClaimAnyRun(d) ==
  /\ At(d, "claim") /\ Never
  /\ IF claim = NoClaim \/ claim[1] = d
     THEN claim' = Run(d) /\ Step(d, "look")
     ELSE UNCHANGED claim /\ Step(d, "done")
  /\ UNCHANGED <<market, watcher, told, over, setup, life, odd>>

\* Mutant of Claim: an account that is taken is entered all the same.
ClaimAnswered(d) ==
  /\ At(d, "claim") /\ Never
  /\ claim' = (IF claim = NoClaim THEN Run(d) ELSE claim) /\ Step(d, "look")
  /\ UNCHANGED <<market, watcher, told, over, setup, life, odd>>

\* The first run to ask gets the account; the others yield.
Claim(d) ==
  /\ At(d, "claim") /\ Never
  /\ IF claim \in {NoClaim, Run(d)}
     THEN claim' = Run(d) /\ Step(d, "look")
     ELSE UNCHANGED claim /\ Step(d, "done")
  /\ UNCHANGED <<market, watcher, told, over, setup, life, odd>>

\* Without an answer the run goes on; the server may have counted it.
ClaimUnanswered(d) ==
  /\ At(d, "claim") /\ Fails("claim")
  /\ claim' \in {claim, IF claim = NoClaim THEN Run(d) ELSE claim}
  /\ odd' = odd \union {"claim"} /\ Step(d, "look")
  /\ UNCHANGED <<market, watcher, told, over, setup, life>>

Held == {l \in Leg : pos[l] # 0}
\* The positions are read.  A computer on standby sleeps 200 seconds before,
\* whatever the other one does; it yields to a position of this direction.
Look(d) ==
  /\ At(d, "look")
  /\ \/ Fails("list") /\ Step(d, "done")        \* an error nobody catches here
     \/ /\ Never
        /\ Step(d, IF d \in Standbys /\ kind = "nt8" /\ \E l \in Leg : pos[l] > 0
                   THEN "done"
                   ELSE IF Held # {} THEN "clean"
                   ELSE IF policy = "limit" THEN "limit" ELSE "send")
  /\ UNCHANGED <<market, watcher, told, over, setup, life, claim, odd>>

\* What is there is closed.  A closed position's stop may stay at ProjectX.
Clean(d) ==
  /\ At(d, "clean")
  /\ pos' = [l \in Leg |-> 0] /\ stop' = [l \in Leg |-> 0]
  /\ old' \in (IF kind = "px" THEN {old, {}} ELSE {{}})
  /\ Never /\ Step(d, IF policy = "limit" THEN "limit" ELSE "send")
  /\ UNCHANGED <<orders, watcher, told, over, setup, life, claim, odd>>

\* A close that fails, or is not seen to end, ends the entry with a report.
CleanFails(d) ==
  /\ At(d, "clean") /\ Fails("close") /\ Step(d, "done")
  /\ UNCHANGED <<market, watcher, told, over, setup, life, claim, odd>>

-----------------------------------------------------------------------------
(* The order of a leg. *)

Order(d, s) == [dev |-> d, leg |-> cur[d], n |-> try[d], stop |-> s]
Bracket == IF kind = "px" THEN 0 ELSE 1
Mine(d) == {o \in orders : o.dev = d /\ o.leg = cur[d]}

\* The broker takes the order.  Of its bracket the answer may say nothing
\* (Tradovate), or that the stop was refused (IBKR).
Send(d) ==
  /\ At(d, "send")
  /\ \/ /\ orders' = orders \union {Order(d, Bracket)}
        /\ Never
        /\ CASE kind = "px" -> Answer(d, "none", "stop")
             [] kind = "oco" -> Answer(d, "set", "confirm")
                                  \/ Answer(d, "unsure", "confirm")
             [] OTHER -> Answer(d, "set", "confirm")
     \/ /\ kind = "oco" /\ Fails("stop")
        /\ orders' = orders \union {Order(d, 0)}
        /\ Answer(d, "refused", "confirm")
  /\ UNCHANGED <<pos, stop, old, watcher, told, over, setup, life, claim, odd>>

\* The answer is lost: the order may be in.  The add-on may run a command
\* later that nobody waits for any more.
SendLost(d) ==
  /\ At(d, "send") /\ Fails("send")
  /\ orders' \in {orders, orders \union {Order(d, Bracket)}}
  /\ Answer(d, "none", IF kind = "nt8" THEN "retry" ELSE "recheck")
  /\ UNCHANGED <<pos, stop, old, watcher, told, over, setup, life, claim, odd>>

\* A refusal is certain only where its wording is known.
SendRefused(d) ==
  /\ At(d, "send") /\ Fails("refuse")
  /\ CASE kind = "px" -> Tells(cur[d], "rejected") /\ NextLeg(d)
       [] kind = "oco" -> UNCHANGED told /\ Answer(d, "none", "recheck")
       [] OTHER -> UNCHANGED told /\ Answer(d, "none", "retry")
  /\ UNCHANGED <<market, watcher, over, setup, life, claim, odd>>

\* The stop order: set, refused, or its answer lost.
PutStop(d, step) ==
  LET more == [stop EXCEPT ![cur[d]] = Capped(@ + 1)] IN
  \/ stop' = more /\ Never /\ Answer(d, "set", step)
  \/ UNCHANGED stop /\ Fails("refuse") /\ Answer(d, "refused", step)
  \/ stop' \in {stop, more} /\ Fails("stop") /\ Answer(d, "failed", step)

StopOrder(d) ==
  /\ At(d, "stop") /\ PutStop(d, "confirm")
  /\ UNCHANGED <<pos, old, orders, watcher, told, over, setup, life, claim, odd>>

-----------------------------------------------------------------------------
(* The limit order that comes first under the limit policy. *)

LimitOrder(d) ==
  /\ At(d, "limit") /\ try[d] < MaxTry
  /\ try' = [try EXCEPT ![d] = @ + 1] /\ UNCHANGED <<cur, ans>>
  /\ qty' = [qty EXCEPT ![d] = "none"]
  /\ \/ /\ orders' = orders \union {Order(d, 0)} /\ Never
        /\ Goto(d, "read") /\ UNCHANGED odd
     \/ /\ Fails("refuse") /\ UNCHANGED <<orders, odd>> /\ Goto(d, "final")
     \/ /\ Fails("send") /\ orders' = orders \union {Order(d, 0)}
        /\ odd' = odd \union {"loose"} /\ Goto(d, "final")
  /\ UNCHANGED <<pos, stop, old, watcher, told, over, setup, life, claim>>

\* The position, read after the interval.
LimitRead(d) ==
  LET l == cur[d]  read(q) == qty' = [qty EXCEPT ![d] = q] IN
  /\ At(d, "read") /\ UNCHANGED <<cur, try, ans>>
  /\ Goto(d, "cancel")
  /\ \/ pos[l] > 0 /\ read("some") /\ Never
     \/ pos[l] <= 0 /\ read("zero") /\ Never
     \/ read("unknown") /\ Fails("list")
  /\ UNCHANGED <<market, watcher, told, over, setup, life, claim, odd>>

\* The cancellation comes after the reading and its failure is swallowed.
LimitCancel(d) ==
  LET then == CASE qty[d] = "some" -> "stop"
                [] qty[d] = "zero" /\ try[d] < MaxTry -> "limit"
                [] OTHER -> "final" IN
  /\ At(d, "cancel") /\ Step(d, then)
  /\ \/ /\ orders' = orders \ Mine(d) /\ Never
        /\ odd' = IF qty[d] = "zero" /\ pos[cur[d]] > 0
                  THEN odd \union {"raced"} ELSE odd
     \/ /\ Fails("cancel") /\ Mine(d) # {}
        /\ odd' = odd \union {"loose"} /\ UNCHANGED orders
  /\ UNCHANGED <<pos, stop, old, watcher, told, over, setup, life, claim>>

\* A last reading before the market order.  If it fails, or the price went
\* away, the leg is skipped.
LimitFinal(d) ==
  /\ At(d, "final")
  /\ \/ pos[cur[d]] > 0 /\ Step(d, "stop") /\ Never /\ UNCHANGED odd
     \/ pos[cur[d]] <= 0 /\ Step(d, "send") /\ Never /\ UNCHANGED odd
     \/ pos[cur[d]] <= 0 /\ NextLeg(d) /\ Fails("adverse") /\ UNCHANGED odd
     \/ Fails("list") /\ NextLeg(d) /\ odd' = odd \union {"skip"}
  /\ UNCHANGED <<market, watcher, told, over, setup, life, claim>>

-----------------------------------------------------------------------------
(* Is the position there? *)

Confirm(d) ==
  /\ At(d, "confirm")
  /\ \/ pos[cur[d]] # 0 /\ Step(d, "placed")
     \/ Step(d, IF kind = "nt8" THEN "retry" ELSE "recheck")
  /\ UNCHANGED <<uvars, setup, life, claim, odd>>

\* Mutant of Retry: the commands are not counted.
RetryForever(d) ==
  /\ At(d, "retry") /\ pos[cur[d]] = 0
  /\ try' = [try EXCEPT ![d] = @ + 1] /\ Goto(d, "send")
  /\ orders' = {o \in orders : o.leg # cur[d]} /\ Never
  /\ UNCHANGED <<cur, ans, qty, told, odd, pos, stop, old, watcher, over,
                 setup, life, claim>>

\* NT8: when the time or the tries are used up, or the position cannot be
\* read, the leg ends with a message, whatever is open.  Before that a late
\* fill ends the matter and a stop price already passed ends it with the
\* message; otherwise what is left is closed and the command is sent again.
Retry(d) ==
  LET l == cur[d]  again == try[d] + 1 < MaxTry
      misses == /\ Tells(l, "miss") /\ NextLeg(d) /\ UNCHANGED orders
                /\ odd' = IF Mine(d) # {} THEN odd \union {"loose"} ELSE odd IN
  /\ At(d, "retry")
  /\ \/ misses /\ (Never \/ Fails("list"))
     \/ /\ pos[l] # 0 /\ again /\ Step(d, "placed") /\ Never
        /\ UNCHANGED <<orders, told, odd>>
     \/ pos[l] = 0 /\ again /\ misses /\ Fails("passed")
     \/ /\ pos[l] = 0 /\ again
        /\ try' = [try EXCEPT ![d] = @ + 1]
        /\ ans' = [ans EXCEPT ![d] = "none"] /\ Goto(d, "send")
        /\ UNCHANGED <<cur, qty, told>>
        /\ \/ orders' = {o \in orders : o.leg # l} /\ Never /\ UNCHANGED odd
           \/ /\ Fails("close") /\ UNCHANGED orders
              /\ odd' = odd \union {"loose"}
  /\ UNCHANGED <<pos, stop, old, watcher, over, setup, life, claim>>

\* Mutant of Recheck: the watched leg is not told to the member.
RecheckWatchOnly(d) ==
  LET l == cur[d] IN
  /\ At(d, "recheck")
  /\ \/ pos[l] # 0 /\ Step(d, "take")
        /\ UNCHANGED <<watch, disk, hand, flat, nostop, faults>>
     \/ /\ NextLeg(d)
        /\ IF kind = "px" THEN WatchAdd(d, l)
           ELSE UNCHANGED <<watch, disk, hand, flat, nostop, faults>>
  /\ UNCHANGED <<market, hb, told, over, setup, life, claim, odd>>

\* The others look 12 seconds longer before they call it unconfirmed.  Only
\* where the app can list orders is the leg watched.
Recheck(d) ==
  LET l == cur[d] IN
  /\ At(d, "recheck")
  /\ \/ pos[l] # 0 /\ Step(d, "take")
        /\ UNCHANGED <<watch, disk, hand, flat, nostop, told, faults>>
     \/ /\ Tells(l, "unconfirmed") /\ NextLeg(d)
        /\ IF kind = "px" THEN WatchAdd(d, l)
           ELSE UNCHANGED <<watch, disk, hand, flat, nostop, faults>>
  /\ UNCHANGED <<market, hb, over, setup, life, claim, odd>>

\* The position came without an answer: a stop is placed only where the list
\* of orders shows that there is none.
Take(d) ==
  LET l == cur[d] IN
  /\ At(d, "take")
  /\ \/ ans[d] # "none" /\ Step(d, "placed") /\ Never /\ UNCHANGED told
     \/ /\ ans[d] = "none" /\ kind = "px" /\ Never /\ UNCHANGED told
        /\ IF stop[l] > 0 \/ l \in old
           THEN Answer(d, "set", "placed") ELSE Step(d, "place")
     \/ /\ ans[d] = "none" /\ Tells(l, "bare") /\ Answer(d, "unsure", "placed")
        /\ IF kind = "px" THEN Fails("query") ELSE Never
  /\ UNCHANGED <<market, watcher, over, setup, life, claim, odd>>

Place(d) ==
  /\ At(d, "place") /\ PutStop(d, "placed")
  /\ UNCHANGED <<pos, old, orders, watcher, told, over, setup, life, claim, odd>>

\* The entry counts; an older watch of the leg is let go.
Placed(d) ==
  /\ At(d, "placed")
  /\ WatchDrop(d, cur[d])
  /\ CASE ans[d] = "failed" ->
            Goto(d, "mend") /\ try' = [try EXCEPT ![d] = 0] /\ UNCHANGED <<cur, ans, qty>>
       [] ans[d] = "refused" -> Step(d, "flatten")
       [] OTHER -> NextLeg(d)
  /\ UNCHANGED <<market, hb, told, over, setup, life, claim, odd>>

Retries == 2    \* STOP_RETRIES
\* A stop whose answer was lost is sent again, twice; then the member is told.
Mend(d) ==
  LET l == cur[d]  more == [stop EXCEPT ![l] = Capped(@ + 1)] IN
  /\ At(d, "mend")
  /\ \/ stop' = more /\ NextLeg(d) /\ Never /\ UNCHANGED told
     \/ UNCHANGED <<stop, told>> /\ Step(d, "flatten") /\ Fails("refuse")
     \/ /\ stop' \in {stop, more} /\ Fails("stop")
        /\ IF try[d] + 1 < Retries
           THEN /\ try' = [try EXCEPT ![d] = @ + 1]
                /\ UNCHANGED <<pc, cur, ans, qty, told>>
           ELSE Tells(l, "bare") /\ NextLeg(d)
  /\ UNCHANGED <<pos, old, orders, watcher, over, setup, life, claim, odd>>

\* A position whose stop was refused is closed at once.
Flatten(d) ==
  LET l == cur[d] IN
  /\ At(d, "flatten") /\ NextLeg(d)
  /\ \/ pos' = [pos EXCEPT ![l] = 0] /\ Never /\ UNCHANGED told
     \/ UNCHANGED pos /\ Fails("close") /\ Tells(l, "bare")
  /\ UNCHANGED <<stop, old, orders, watcher, over, setup, life, claim, odd>>

\* The app dies and starts again: the signal may be taken once more.
Crash(d) ==
  /\ life[d] < MaxLife /\ pc[d] # "idle"
  /\ life' = [life EXCEPT ![d] = @ + 1]
  /\ odd' = IF pc[d] = "done" THEN odd ELSE odd \union {"crash"}
  /\ IF pc[d] = "done" THEN UNCHANGED thread
     ELSE /\ Goto(d, "idle") /\ cur' = [cur EXCEPT ![d] = 1]
          /\ try' = [try EXCEPT ![d] = 0] /\ ans' = [ans EXCEPT ![d] = "none"]
          /\ qty' = [qty EXCEPT ![d] = "none"]
  /\ WatchRestart(d)
  /\ UNCHANGED <<market, told, over, faults, setup, claim>>

Environment ==
  /\ Fill \/ Dies \/ Ends \/ SessionEnd
  /\ UNCHANGED <<setup, thread, life, claim, odd>>

Beat(d) == Heartbeat(d) /\ UNCHANGED <<setup, thread, life, claim, odd>>

Entry(d) ==
  \/ Begin(d) \/ NoAccount(d) \/ Claim(d) \/ ClaimUnanswered(d)
  \/ Look(d) \/ Clean(d) \/ CleanFails(d)
  \/ Send(d) \/ SendLost(d) \/ SendRefused(d) \/ StopOrder(d)
  \/ LimitOrder(d) \/ LimitRead(d) \/ LimitCancel(d) \/ LimitFinal(d)
  \/ Confirm(d) \/ Retry(d) \/ Recheck(d) \/ Take(d) \/ Place(d)
  \/ Placed(d) \/ Mend(d) \/ Flatten(d)

Next == Environment \/ \E d \in Dev : Entry(d) \/ Beat(d) \/ Crash(d)

Spec == Init /\ [][Next]_vars

-----------------------------------------------------------------------------
\* An account never holds the signal twice: neither two computers, nor a
\* computer that started again, nor a repeated order enter it a second time.
\* The exceptions are named: the server did not answer a claim, an order
\* could not be cancelled, a limit order filled between its reading and its
\* cancellation.
NoDouble ==
  (\E l \in Leg : pos[l] > 1) => odd \intersect {"claim", "loose", "raced"} # {}

\* While the server answers, only the run it gave the account to touches the
\* account: no two computers, and no computer with its earlier run, place
\* orders side by side.
Entering(d) == pc[d] \notin {"idle", "claim", "done"}
OneRunEnters ==
  "claim" \notin odd =>
    \A d, e \in DOMAIN pc : Entering(d) /\ Entering(e) => d = e

\* When the entries are over, a position without a stop is one the member
\* was told of or the app watches.  A crash in the middle and the skipped
\* limit order are the exceptions.
Ended == \A d \in Dev : pc[d] \in {"idle", "done"}
Known(l) ==
  \/ \E w \in {"unconfirmed", "bare", "miss"} : <<l, w>> \in told
  \/ \E d \in Dev : watch[d][l] # "no"
BareIsKnown ==
  Ended /\ odd \intersect {"claim", "skip", "crash", "loose"} = {}
    => \A l \in Leg : pos[l] > 0 /\ stop[l] = 0 /\ l \notin old => Known(l)

\* A watched leg that is open without a stop does not stay so: it gets a stop
\* or the member is told that it has none, provided the heartbeat goes on.
Unanswered(d, l) ==
  /\ watch[d][l] # "no" /\ pos[l] > 0 /\ stop[l] = 0 /\ l \notin old
  /\ <<l, "bare">> \notin told
=============================================================================
