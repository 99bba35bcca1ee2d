------------------------------ MODULE MCParts -------------------------------
(***************************************************************************)
(* Small instances of the machines that stand for themselves, one per      *)
(* scene.  CutoffScheduler is the module extended.  The others share the   *)
(* variables that have the same name, and one of theirs that has the name  *)
(* of a variable of the scheduler has another here; a variable is 0 in the *)
(* scenes that do not use it.                                              *)
(***************************************************************************)
EXTENDS CutoffScheduler, TLC

CONSTANTS
  Scenes,
  Fault, MaxFault, ReportFaults, SecretFaults,     \* failures, and how many
  Writer, MaxRec,                                  \* TradeRecord
  MaxReport, MaxQueue, Ticks,                      \* UnsentFills
  Stores, MaxValue,                                \* Secrets
  Contract, Kinds, MaxCall,                        \* BrokerFlatten
  MaxTry, MaxEntry,                                \* PassTp, on the same contracts
  Caller, Tid, MaxCommand,                         \* Nt8Bridge
  Asset, Account, Gates, MaxRow, MaxTest, MaxSignal, MaxChange    \* Arming

ASSUME PartsAssumption ==
  /\ {MaxFault, ReportFaults, SecretFaults, MaxRec, MaxReport, MaxValue, MaxCall, MaxTry,
      MaxEntry, MaxCommand, MaxRow, MaxTest, MaxSignal, MaxChange} \subseteq Nat
  /\ MaxQueue \in Nat \ {0}
  /\ Writer \cap {"sync", "none"} = {}

VARIABLES
  scene,
  \* of one component
  main, bak, copies, reset, lock, own, entered, trades, wrong, excused, marked,
  made, copy, queue, tick, posted, over,
  store, kc, blob, pin, locked, dropped, exported, told, next, busy,
  listed, mkt, one, plan, twice, errors,
  sent, armed, entering, poss, tries, begun, done, entries,
  journal, cut, pending, stale, acks, beat, answer, taken, ran, unwritten,
  rows, include, arms, session, startable, tests, gate, killed, owed, signals, tested,
  traded, doubled, changes,
  \* of several
  step, count, mem, seen, marks, raced, todo, keep, waiting, failed, want,
  kind, pos, stop, left, nth, odd, faults

recordOwn == <<main, bak, copies, reset, lock, own, entered, trades, wrong, excused, marked>>
reportOwn == <<made, copy, queue, tick, posted, over>>
secretOwn == <<store, kc, blob, pin, locked, dropped, exported, told, next, busy>>
flattenOwn == <<listed, mkt, one, plan, twice, errors>>
passOwn == <<sent, armed, entering, poss, tries, begun, done, entries>>
bridgeOwn == <<journal, cut, pending, stale, acks, beat, answer, taken, ran, unwritten>>
armsOwn == <<rows, include, arms, session, startable, tests, gate, killed, owed, signals,
             tested, traded, doubled, changes>>
shared == <<step, count, mem, seen, marks, raced, todo, keep, waiting, failed, want,
            kind, pos, stop, left, nth, odd, faults>>
allvars == <<scene, vars, recordOwn, reportOwn, secretOwn, flattenOwn, passOwn, bridgeOwn,
             armsOwn, shared>>

Hours == ("9:00" :> 9) @@ ("15:00" :> 15)

Record == INSTANCE TradeRecord WITH pc <- step, now <- count
Report == INSTANCE UnsentFills WITH
  pc <- step, Tick <- Ticks, MaxFault <- ReportFaults
Secret == INSTANCE Secrets WITH pc <- step, now <- count, MaxFault <- SecretFaults
Flatten == INSTANCE BrokerFlatten WITH pc <- step, calls <- nth
Pass == INSTANCE PassTp WITH pc <- step, fired <- begun, Leg <- Contract
Bridge == INSTANCE Nt8BridgeProofs WITH calls <- nth, MaxCall <- MaxCommand
Arms == INSTANCE ArmingProofs WITH due <- owed

-----------------------------------------------------------------------------
Arming == {"rows", "starts", "day"}

\* Of the rows: two of an asset, of which some are moved or deleted; one row
\* and two tests; and a day of signals.
Narrow ==
  /\ scene = "rows" => /\ gate \in {"auto", "none", "offline"}
                       /\ Arms!Cardinality(tests) <= 1
  /\ scene = "starts" => /\ changes <= 2 /\ "edited" \notin odd
                         /\ \A x \in Asset : Arms!Len(rows[x]) <= 1 /\ signals[x] = 0

MCInit ==
  /\ scene \in Scenes
  /\ Init
  /\ scene = "record" => Record!Init
  /\ scene = "report" => Report!Init
  /\ scene = "secret" => Secret!Init
  /\ scene = "flatten" => Flatten!Init
  /\ scene = "pass" => Pass!Init
  /\ scene = "bridge" => Bridge!Init
  /\ scene \in Arming => Arms!Init
  /\ scene # "record" =>
       /\ main = 0 /\ bak = 0 /\ copies = 0 /\ reset = 0 /\ lock = 0 /\ own = 0
       /\ entered = 0 /\ trades = 0 /\ wrong = 0 /\ excused = 0 /\ marked = 0
  /\ scene # "report" =>
       made = 0 /\ copy = 0 /\ queue = 0 /\ tick = 0 /\ posted = 0 /\ over = 0
  /\ scene # "secret" =>
       /\ store = 0 /\ kc = 0 /\ blob = 0 /\ pin = 0 /\ locked = 0
       /\ dropped = 0 /\ exported = 0 /\ told = 0 /\ next = 0 /\ busy = 0
  /\ scene # "flatten" =>
       listed = 0 /\ mkt = 0 /\ one = 0 /\ plan = 0 /\ twice = 0 /\ errors = 0
  /\ scene # "pass" =>
       /\ sent = 0 /\ armed = 0 /\ entering = 0 /\ poss = 0 /\ tries = 0
       /\ begun = 0 /\ done = 0 /\ entries = 0
  /\ scene # "bridge" =>
       /\ journal = 0 /\ cut = 0 /\ pending = 0 /\ stale = 0 /\ acks = 0 /\ beat = 0
       /\ answer = 0 /\ taken = 0 /\ ran = 0 /\ unwritten = 0
  /\ scene \notin Arming =>
       /\ rows = 0 /\ include = 0 /\ arms = 0 /\ session = 0 /\ startable = 0
       /\ tests = 0 /\ gate = 0 /\ killed = 0 /\ owed = 0 /\ signals = 0
       /\ tested = 0 /\ traded = 0 /\ doubled = 0 /\ changes = 0
  /\ scene \in {"cutoff", "bridge"} \union Arming => step = 0
  /\ scene \notin {"record", "secret"} => count = 0 /\ mem = 0
  /\ scene \notin {"record", "bridge"} => seen = 0
  /\ scene \notin {"record"} \union Arming => marks = 0
  /\ scene \notin {"record", "report"} => raced = 0
  /\ scene \notin {"report", "pass"} => todo = 0
  /\ scene \notin {"report", "flatten"} => keep = 0
  /\ scene \notin {"report", "bridge"} => waiting = 0
  /\ scene \notin {"secret", "flatten"} => failed = 0
  /\ scene \notin {"secret"} \union Arming => want = 0
  /\ scene \notin {"flatten", "pass"} => kind = 0 /\ pos = 0 /\ stop = 0 /\ left = 0
  /\ scene \notin {"flatten", "bridge"} => nth = 0
  /\ scene \in {"cutoff", "record", "report", "bridge"} => odd = 0
  /\ scene \in {"cutoff"} \union Arming => faults = 0
  /\ scene \in Arming => Narrow

MCNext ==
  /\ UNCHANGED scene
  /\ \/ scene = "cutoff" /\ Next
     \/ scene = "record" /\ Record!Next
     \/ scene = "report" /\ Report!Next
     \/ scene = "secret" /\ Secret!Next
     \/ scene = "flatten" /\ Flatten!Next
     \/ scene = "pass" /\ Pass!Next
     \/ scene = "bridge" /\ Bridge!Next
     \/ scene \in Arming /\ Arms!Next /\ Narrow'
  /\ scene # "cutoff" => UNCHANGED vars
  /\ scene # "record" => UNCHANGED recordOwn
  /\ scene # "report" => UNCHANGED reportOwn
  /\ scene # "secret" => UNCHANGED secretOwn
  /\ scene # "flatten" => UNCHANGED flattenOwn
  /\ scene # "pass" => UNCHANGED passOwn
  /\ scene # "bridge" => UNCHANGED bridgeOwn
  /\ scene \notin Arming => UNCHANGED armsOwn
  /\ scene \in {"cutoff", "bridge"} \union Arming => UNCHANGED step
  /\ scene \notin {"record", "secret"} => UNCHANGED <<count, mem>>
  /\ scene \notin {"record", "bridge"} => UNCHANGED seen
  /\ scene \notin {"record"} \union Arming => UNCHANGED marks
  /\ scene \notin {"record", "report"} => UNCHANGED raced
  /\ scene \notin {"report", "pass"} => UNCHANGED todo
  /\ scene \notin {"report", "flatten"} => UNCHANGED keep
  /\ scene \notin {"report", "bridge"} => UNCHANGED waiting
  /\ scene \notin {"secret", "flatten"} => UNCHANGED failed
  /\ scene \notin {"secret"} \union Arming => UNCHANGED want
  /\ scene \notin {"flatten", "pass"} => UNCHANGED <<kind, pos, stop, left>>
  /\ scene \notin {"flatten", "bridge"} => UNCHANGED nth
  /\ scene \in {"cutoff", "record", "report", "bridge"} => UNCHANGED odd
  /\ scene \in {"cutoff"} \union Arming => UNCHANGED faults

\* Contracts, commands and accounts have the same two names, and each machine
\* treats the two alike.
Alike == Permutations(Account)

MCSpec == MCInit /\ [][MCNext]_allvars

-----------------------------------------------------------------------------
\* Each machine's state is well typed (TypeOK of its module).
Types ==
  /\ TypeOK
  /\ scene = "record" => Record!TypeOK
  /\ scene = "report" => Report!TypeOK
  /\ scene = "secret" => Secret!TypeOK
  /\ scene = "flatten" => Flatten!TypeOK
  /\ scene = "pass" => Pass!TypeOK
  /\ scene = "bridge" => Bridge!TypeOK
  /\ scene \in Arming => Arms!TypeOK

\* A trade is shown with its own 1R (TradeRecord, SentRight).
SentRight == scene = "record" => Record!SentRight

\* An entry time that was written stays (TradeRecord, MarksStay).
MarksStay == scene = "record" => Record!MarksStay

\* A report that waits for the server is not lost (UnsentFills, ReportKept).
ReportKept == scene = "report" => Report!ReportKept

\* A key the member entered is there after a restart, or the member is told
\* (Secrets, SecretKept).
SecretKept == scene = "secret" => Secret!SecretKept

\* A flatten without errors leaves nothing open (BrokerFlatten, FlatIsFlat).
FlatIsFlat == scene = "flatten" => Flatten!FlatIsFlat

\* A position keeps its stop until it is seen flat (BrokerFlatten,
\* OpenKeepsStop).
OpenKeepsStop == scene = "flatten" => Flatten!OpenKeepsStop

\* What was announced as closed is closed, and until then an open contract
\* keeps its stop (PassTp, DoneIsDone and OpenKeepsStop).
PassIsClosed == scene = "pass" => Pass!DoneIsDone
PassKeepsStop == scene = "pass" => Pass!OpenKeepsStop

\* The bridge implements the promise of CommandOnce: a command runs once or
\* never, and a verdict is true (Nt8Bridge, Promise).
BridgeDelivers ==
  /\ scene = "bridge" => Bridge!Promise!Init
  /\ [][scene = "bridge" => Bridge!Promise!Next \/ UNCHANGED Bridge!Promise!vars]_allvars

\* What the member stopped is not armed again (Arming, StopHolds).
StopHolds == scene \in Arming => Arms!StopHolds

\* An armed row has its close, and stays with its account (Arming,
\* SigHasClose and KeysFollow).
SigHasClose == scene \in Arming => Arms!SigHasClose
KeysFollow == scene \in Arming => Arms!KeysFollow

\* Only tested accounts are armed (Arming, ArmedIsTested).
ArmedIsTested == scene \in Arming => Arms!ArmedIsTested

\* No row stays parked after an outage (Arming, NoneLeftParked).
NoneLeftParked == scene \in Arming => Arms!NoneLeftParked

\* An account enters once a day (Arming, OncePerDay).
OncePerDay == scene = "day" => Arms!OncePerDay
=============================================================================
