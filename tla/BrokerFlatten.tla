--------------------------- MODULE BrokerFlatten ----------------------------
(***************************************************************************)
(* Closing an account (eqexec/broker/*.py flatten_all, and IBKR's          *)
(* close_contract): the positions are read, each is closed at market, the  *)
(* positions are read again, and what stays open is reported.  Orders fill *)
(* and stops fire while this goes on, requests fail or their answer is     *)
(* lost, and the caller may flatten once more.                             *)
(*                                                                         *)
(* Where they differ: ProjectX ("px") closes by contract and then sweeps   *)
(* the stops left behind; IBKR ("ibkr") cancels first and sends opposite   *)
(* orders; Tradovate liquidates by contract; Bybit sends reduce-only       *)
(* orders, Bitget one request for everything; NT8 hands the add-on a       *)
(* command and believes its receipt.                                       *)
(***************************************************************************)
EXTENDS Integers

CONSTANTS
  Contract,  \* contracts of the account
  Kinds,     \* brokers
  Fault,     \* failures that happen
  MaxFault,  \* bound: failures in a behaviour
  MaxCall    \* bound: closes one after the other

VARIABLES
  kind,
  listed,    \* the adapter was given the ids of its accounts
  pos,       \* the position: 1 as entered, -1 the other way round
  stop,      \* contracts with a protective stop working
  mkt,       \* market orders working: what they add to the position
  pc,        \* the next step of the adapter
  one,       \* close_contract on this contract, or All for flatten_all
  plan, left,            \* the positions read first; those still to be closed
  failed,    \* positions whose close failed
  keep,      \* contracts whose orders are left alone
  twice,     \* the list was read a second time, or a close was repeated
  errors,    \* the result holds an error
  calls, odd, faults     \* history; odd is what a property makes an exception for

All == "all"
market == <<pos, stop, mkt>>
work == <<plan, left, failed, keep, twice, errors>>
vars == <<kind, listed, market, pc, one, work, calls, odd, faults>>

Futures == {"px", "ibkr", "tradovate", "nt8"}

None == [c \in Contract |-> 0]
Planned == {c \in Contract : plan[c] # 0}

TypeOK ==
  /\ kind \in Kinds /\ listed \in BOOLEAN
  /\ pos \in [Contract -> -1 .. 1] /\ mkt \in [Contract -> -1 .. 1]
  /\ stop \subseteq Contract
  /\ pc \in {"idle", "plan", "cancel", "close", "confirm", "recheck", "sweep", "done"}
  /\ one \in Contract \union {All}
  /\ plan \in [Contract -> -1 .. 1]
  /\ left \subseteq Planned /\ failed \subseteq Planned
  /\ keep \subseteq Contract
  /\ twice \in BOOLEAN /\ errors \in BOOLEAN
  /\ calls \in 0 .. MaxCall /\ odd \subseteq {"raced", "orphan", "entry"}
  /\ faults \in 0 .. MaxFault

Init ==
  /\ kind \in Kinds /\ listed \in BOOLEAN
  /\ pos \in [Contract -> 0 .. 1] /\ mkt = None
  /\ stop \in SUBSET Contract /\ {c \in Contract : pos[c] = 1} \subseteq stop
  /\ kind \notin {"px", "ibkr"} => stop = {c \in Contract : pos[c] = 1}
  /\ pc = "idle" /\ one = All /\ plan = None /\ left = {} /\ failed = {} /\ keep = {}
  /\ twice = FALSE /\ errors = FALSE /\ calls = 0 /\ odd = {} /\ faults = 0

Fails(f) == f \in Fault /\ faults < MaxFault /\ faults' = faults + 1
Never == UNCHANGED faults
Open == {c \in Contract : pos[c] # 0}
Busy == pc \notin {"idle", "done"}

-----------------------------------------------------------------------------
(* The broker. *)

\* A close takes the position to zero; IBKR's is an order like any other.
Fill ==
  /\ \E c \in Contract :
       /\ mkt[c] # 0 /\ mkt' = [mkt EXCEPT ![c] = 0]
       /\ LET new == IF kind = "ibkr" THEN pos[c] + mkt[c] ELSE 0 IN
          /\ new \in -1 .. 1 /\ pos' = [pos EXCEPT ![c] = new]
          /\ stop' = IF new = 0 /\ kind \notin {"px", "ibkr"} THEN stop \ {c} ELSE stop
       /\ odd' = IF kind = "ibkr" /\ c \notin Planned \ left THEN odd \union {"raced"} ELSE odd
  /\ UNCHANGED <<kind, listed, pc, one, work, calls, faults>>

\* A stop fires; one without its position opens the opposite.
StopFires ==
  /\ \E c \in stop :
       /\ pos[c] >= 0 /\ pos' = [pos EXCEPT ![c] = @ - 1] /\ stop' = stop \ {c}
       /\ odd' = odd \union (IF pos[c] = 0 THEN {"orphan"} ELSE {})
                     \union (IF kind = "ibkr" /\ Busy THEN {"raced"} ELSE {})
  /\ UNCHANGED <<kind, listed, mkt, pc, one, work, calls, faults>>

\* An entry fills late, with its stop.
EntryFills ==
  /\ Busy /\ Fails("entry") /\ odd' = odd \union {"entry"}
  /\ \E c \in Contract \ (Open \union stop) :
       pos' = [pos EXCEPT ![c] = 1] /\ stop' = stop \union {c}
  /\ UNCHANGED <<kind, listed, mkt, pc, one, work, calls>>

-----------------------------------------------------------------------------
(* The adapter. *)

\* Futures logins hold several accounts: without their ids nothing is closed.
Begin ==
  /\ pc \in {"idle", "done"} /\ calls < MaxCall /\ calls' = calls + 1
  /\ one' \in {All} \union (IF kind = "ibkr" THEN Contract ELSE {})
  /\ plan' = None /\ left' = {} /\ failed' = {} /\ keep' = {} /\ twice' = FALSE
  /\ IF kind \in Futures /\ ~listed /\ one' = All
     THEN pc' = "done" /\ errors' = TRUE
     ELSE pc' = "plan" /\ errors' = FALSE
  /\ UNCHANGED <<kind, listed, market, odd, faults>>

\* The positions are read; without one, only stops may be left to clear.
Plan ==
  /\ pc = "plan" /\ one = All
  /\ \/ /\ Never /\ plan' = pos /\ left' = Open /\ UNCHANGED errors
        /\ pc' = CASE kind = "ibkr" -> "cancel"
                   [] Open = {} /\ kind \notin {"px", "nt8", "ibkr"} -> "done"
                   [] OTHER -> "close"
     \/ /\ Fails("list") /\ errors' = TRUE /\ pc' = "done"
        /\ UNCHANGED <<plan, left>>
  /\ UNCHANGED <<kind, listed, market, one, failed, keep, twice, calls, odd>>

\* The close of c is taken by the broker, or its answer is lost, or refused.
Taken(c, n) == mkt' = [mkt EXCEPT ![c] = n] /\ left' = left \ {c} /\ Never
Lost(c, n) == mkt' \in {mkt, [mkt EXCEPT ![c] = n]} /\ Fails("close")

\* ProjectX tries twice; a contract that is flat by now is refused.
PxClose(c) ==
  /\ kind = "px" /\ UNCHANGED <<keep, pc>>
  /\ \/ /\ pos[c] # 0 /\ Taken(c, -pos[c])
        /\ twice' = FALSE /\ UNCHANGED <<failed, errors>>
     \/ /\ \/ pos[c] = 0 /\ UNCHANGED mkt /\ Never
           \/ pos[c] # 0 /\ Lost(c, -pos[c])
        /\ IF twice
           THEN /\ failed' = failed \union {c} /\ errors' = TRUE
                /\ left' = left \ {c} /\ twice' = FALSE
           ELSE twice' = TRUE /\ UNCHANGED <<left, failed, errors>>

\* Tradovate and Bybit try once.
OneClose(c) ==
  /\ kind \in {"tradovate", "bybit"} /\ UNCHANGED <<keep, failed, twice, pc>>
  /\ \/ pos[c] # 0 /\ Taken(c, -pos[c]) /\ UNCHANGED errors
     \/ /\ left' = left \ {c} /\ errors' = TRUE
        /\ \/ pos[c] = 0 /\ UNCHANGED mkt /\ Never
           \/ pos[c] # 0 /\ Lost(c, -pos[c])

\* IBKR: an opposite order for the size read before.
IbOrder(c) ==
  /\ kind = "ibkr" /\ UNCHANGED <<keep, failed, twice, pc>>
  /\ \/ Taken(c, -plan[c]) /\ UNCHANGED errors
     \/ Lost(c, -plan[c]) /\ left' = left \ {c} /\ errors' = TRUE

\* Bitget: one request closes everything.
FlashClose ==
  /\ kind = "bitget" /\ left' = {} /\ pc' = "recheck"
  /\ LET all == [c \in Contract |-> -pos[c]] IN
     \/ mkt' = all /\ Never /\ UNCHANGED errors
     \/ mkt' \in {mkt, all} /\ Fails("close") /\ errors' = TRUE
  /\ UNCHANGED <<keep, failed, twice>>

\* NT8: the receipt of the command counts as the close of all.
AddOnClose ==
  /\ kind = "nt8" /\ left' = {} /\ pc' = "done"
  /\ LET all == [c \in Contract |-> -pos[c]] IN
     \/ mkt' = all /\ Never /\ UNCHANGED errors
     \/ mkt' \in {mkt, all} /\ Fails("close") /\ errors' = TRUE
  /\ UNCHANGED <<keep, failed, twice>>

Close ==
  /\ pc = "close" /\ one = All
  /\ \/ \E c \in left : PxClose(c) \/ OneClose(c) \/ IbOrder(c)
     \/ FlashClose \/ AddOnClose
     \/ /\ left = {} /\ kind \notin {"bitget", "nt8"} /\ pc' = "recheck"
        /\ Never /\ UNCHANGED <<mkt, left, failed, keep, twice, errors>>
  /\ UNCHANGED <<kind, listed, pos, stop, one, plan, calls, odd>>

\* IBKR cancels the app's own orders first, the stops and an earlier close.
IbCancel ==
  /\ pc = "cancel" /\ pc' = IF Planned = {} THEN "done" ELSE "close"
  /\ \/ stop' = {} /\ mkt' = None /\ Never /\ UNCHANGED errors
     \/ /\ Fails("cancel") /\ errors' = TRUE
        /\ stop' \in SUBSET stop /\ UNCHANGED mkt
  /\ UNCHANGED <<kind, listed, pos, one, plan, left, failed, keep, twice, calls, odd>>

\* Mutant of Keep: the orders of a planned contract are always swept.
KeepNone(still) == {}

Keep(still) == still

\* The positions are read again.  ProjectX looks once more when a close that
\* was taken does not show yet.
Recheck ==
  /\ pc = "recheck"
  /\ LET next == IF kind = "px" THEN "sweep" ELSE "done" IN
     \/ /\ Never /\ kind = "px" /\ ~twice /\ (Open \intersect Planned) \ failed # {}
        /\ twice' = TRUE /\ UNCHANGED <<pc, keep, errors>>
     \/ /\ Never /\ keep' = Keep(Open) /\ pc' = next
        /\ kind = "px" /\ ~twice => (Open \intersect Planned) \ failed = {}
        /\ errors' = (errors \/ Open # {}) /\ UNCHANGED twice
     \/ /\ Fails("list") /\ keep' = Planned /\ pc' = next
        /\ errors' = TRUE /\ UNCHANGED twice
  /\ UNCHANGED <<kind, listed, market, one, plan, left, failed, calls, odd>>

\* Mutant of Sweep: only contracts that had a position are looked at.
SweepPlanned ==
  /\ pc = "sweep" /\ pc' = "done"
  /\ stop' = stop \ (Planned \ keep) /\ Never
  /\ UNCHANGED <<kind, listed, pos, mkt, one, work, calls, odd>>

\* ProjectX: the stops of contracts seen flat are cancelled.
Sweep ==
  /\ pc = "sweep" /\ pc' = "done"
  /\ \/ stop' = stop \intersect keep /\ Never /\ UNCHANGED errors
     \/ /\ Fails("cancel") /\ errors' = TRUE
        /\ \E s \in SUBSET (stop \ keep) : stop' = stop \ s
  /\ UNCHANGED <<kind, listed, pos, mkt, one, plan, left, failed, keep, twice, calls, odd>>

\* IBKR's close_contract: an opposite order, ten seconds to see the position
\* gone, and only then the stop is cancelled.
CloseOne ==
  /\ one # All /\ kind = "ibkr"
  /\ \/ /\ pc = "plan"
        /\ \/ Fails("list") /\ pc' = "done" /\ errors' = TRUE /\ UNCHANGED <<mkt, stop, plan>>
           \/ /\ pos[one] = 0 /\ stop' = stop \ {one} /\ pc' = "done"
              /\ Never /\ UNCHANGED <<mkt, errors, plan>>
           \/ /\ pos[one] # 0 /\ mkt' = [mkt EXCEPT ![one] = -pos[one]]
              /\ plan' = [None EXCEPT ![one] = pos[one]] /\ pc' = "confirm" /\ Never /\ UNCHANGED <<stop, errors>>
           \/ /\ pos[one] # 0 /\ Fails("close") /\ pc' = "done" /\ errors' = TRUE
              /\ UNCHANGED <<mkt, stop, plan>>
     \/ /\ pc = "confirm" /\ UNCHANGED <<mkt, plan>> /\ pc' = "done" /\ Never
        /\ IF pos[one] = 0
           THEN stop' = stop \ {one} /\ UNCHANGED errors
           ELSE errors' = TRUE /\ UNCHANGED stop
  /\ UNCHANGED <<kind, listed, pos, one, left, failed, keep, twice, calls, odd>>

Next ==
  \/ Fill \/ StopFires \/ EntryFills
  \/ Begin \/ Plan \/ IbCancel \/ Close \/ Recheck \/ Sweep \/ CloseOne

Spec == Init /\ [][Next]_vars

-----------------------------------------------------------------------------
\* A flatten that returns without an error leaves no position and no stop.
\* NT8 does not look again; a stop or an order that fires in between may turn
\* IBKR's position, a stop nobody swept yet may open one, and an entry may
\* fill after the second reading.
FlatIsFlat ==
  pc = "done" /\ one = All /\ ~errors /\ odd = {} /\ kind # "nt8"
    => Open = {} /\ stop = {}

\* A position keeps its stop until it is seen flat: only IBKR's flatten_all
\* takes the stops first, and then a position that stays is reported.
OpenKeepsStop ==
  odd = {} =>
    \A c \in Contract : pos[c] = 1 /\ c \notin stop
      => kind = "ibkr" /\ (calls > 0) /\ (pc = "done" => errors \/ one # All)
=============================================================================
