---------------------------- MODULE MCAutoClose -----------------------------
(***************************************************************************)
(* Five scenes of the session-close loop: each behaviour plays an instance *)
(* of AutoClose with its own jobs, hours and disturbances.  The first one  *)
(* has the constants of the configuration: NQ in one account, entered on   *)
(* the first tick of each day; the server moves the exit, the member stops *)
(* and starts while a close is under way and the computer sleeps.          *)
(***************************************************************************)
EXTENDS AutoClose
CONSTANTS nq, gc, btc, x, y, j1, j2,
  Scenes     \* bound: the scenes a run plays

ASSUME ScenesAssumption == j1 # j2 /\ x # y /\ gc # nq /\ NoJob \notin {j1, j2}

VARIABLE scene

Nq == [j \in Job |-> nq]
OnX == [j \in Job |-> x]
Second == [j \in Job |-> 2]
Daily == [a \in Asset |-> {d * DayLen : d \in 0 .. Days - 1}]
EarlyAt1 == [a \in Asset |-> {1}]

\* The constants of the configuration.
Overlap == INSTANCE AutoClose

\* NQ in one account; the server moves the exit, the member stops and starts.
Retries == INSTANCE AutoCloseProofs WITH
  Job <- {j1}, Asset <- {nq}, JobAsset <- [j \in {j1} |-> nq],
  Acct <- {x}, JobAcct <- [j \in {j1} |-> x],
  DueAt <- [j \in {j1} |-> 3], Window <- 2, DayLen <- 6, Days <- 2,
  Sunday <- {}, Block <- {}, Expiry <- {}, Tiers <- {"autopilot"},
  EntryAt <- [a \in {nq} |-> {0, 6}], Early <- [a \in {nq} |-> {2}],
  MaxGen <- 2, Quirk <- {"stop"}

\* NQ in two accounts, the first of them moved to the regular hour's window.
Accounts == INSTANCE AutoCloseProofs WITH
  Job <- {j1, j2}, Asset <- {nq}, JobAsset <- [j \in {j1, j2} |-> nq],
  Acct <- {x, y}, JobAcct <- [j \in {j1, j2} |-> IF j = j1 THEN x ELSE y],
  DueAt <- [j \in {j1, j2} |-> 3], Window <- 2, DayLen <- 6, Days <- 2,
  Sunday <- {}, Block <- {}, Expiry <- {}, Tiers <- {"autopilot"},
  EntryAt <- [a \in {nq} |-> {0, 6}], Early <- [a \in {nq} |-> {2}],
  MaxGen <- 1, Quirk <- {}

\* GC and NQ in one account: GC closes before NQ is entered.
Assets == INSTANCE AutoCloseProofs WITH
  Job <- {j1, j2}, Asset <- {gc, nq},
  JobAsset <- [j \in {j1, j2} |-> IF j = j1 THEN gc ELSE nq],
  Acct <- {x}, JobAcct <- [j \in {j1, j2} |-> x],
  DueAt <- [j \in {j1, j2} |-> IF j = j1 THEN 2 ELSE 6],
  Window <- 2, DayLen <- 9, Days <- 1,
  Sunday <- {}, Block <- {}, Expiry <- {}, Tiers <- {"autopilot"},
  EntryAt <- [a \in {gc, nq} |-> IF a = gc THEN {0} ELSE {4}],
  Early <- [a \in {gc, nq} |-> {}],
  MaxGen <- 1, Quirk <- {"stop"}

\* BTC, entered late on a Sunday; j1 judges a candle, j2 is the 24-hour limit.
Bitcoin == INSTANCE AutoCloseProofs WITH
  Job <- {j1, j2}, Asset <- {btc}, JobAsset <- [j \in {j1, j2} |-> btc],
  Acct <- {x}, JobAcct <- [j \in {j1, j2} |-> x],
  DueAt <- [j \in {j1, j2} |-> IF j = j1 THEN 1 ELSE 3],
  Window <- 2, DayLen <- 6, Days <- 2,
  Sunday <- {1}, Block <- {j1, j2}, Expiry <- {j2},
  Tiers <- {"autopilot", "operator"},
  EntryAt <- [a \in {btc} |-> {3}], Early <- [a \in {btc} |-> {}],
  MaxGen <- 1, Quirk <- {"gate", "disarm", "other"}

allvars == <<scene, vars>>

MCInit ==
  /\ scene \in Scenes
  /\ CASE scene = "overlap" -> Overlap!Init
       [] scene = "retries" -> Retries!Init
       [] scene = "accounts" -> Accounts!Init
       [] scene = "assets" -> Assets!Init
       [] scene = "bitcoin" -> Bitcoin!Init

MCNext ==
  /\ UNCHANGED scene
  /\ \/ scene = "overlap" /\ Overlap!Next
     \/ scene = "retries" /\ Retries!Next
     \/ scene = "accounts" /\ Accounts!Next
     \/ scene = "assets" /\ Assets!Next
     \/ scene = "bitcoin" /\ Bitcoin!Next

MCSpec == MCInit /\ [][MCNext]_allvars
MCFairSpec == MCSpec /\ Fairness

\* The popup and message of a first failure come once a day and job
\* (AutoClose, FirstTold).
ToldOnce ==
  [][/\ scene = "retries" => Retries!FirstTold
     /\ scene = "accounts" => Accounts!FirstTold]_allvars

\* A flatten never closes a position entered less than a window ago, nor one
\* of today whose own session is not over (AutoClose, LateKill).
NoneKilledEarly ==
  [][/\ scene = "retries" => Retries!LateKill
     /\ scene = "accounts" => Accounts!LateKill
     /\ scene = "assets" => Assets!LateKill
     /\ scene = "bitcoin" => Bitcoin!LateKill]_allvars

\* "The app will not attempt this exit again today" is true (AutoClose,
\* GiveUpIsFinal).
GivenUpTruly ==
  [][scene = "retries" => Retries!GiveUpIsFinal]_allvars

\* A position the loop was there to close is closed by the end of the window,
\* or the member was told that it failed (AutoClose, NoSilentHold).
NoneHeldSilently ==
  /\ scene = "retries" => Retries!NoSilentHold
  /\ scene = "accounts" => Accounts!NoSilentHold
  /\ scene = "assets" => Assets!NoSilentHold
  /\ scene = "bitcoin" => Bitcoin!NoSilentHold
=============================================================================
