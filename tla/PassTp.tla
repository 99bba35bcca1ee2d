------------------------------- MODULE PassTp -------------------------------
(***************************************************************************)
(* The take-profit of an evaluation account (src/eqgui.py, _passtp_scan    *)
(* and _passtp_close_account): once a minute the open profit is looked at; *)
(* when the target is reached the account is closed, its orders are        *)
(* cancelled, and its rows are disarmed so that it does not enter again.   *)
(*                                                                         *)
(* One account, at ProjectX or NT8, with two contracts.  Meanwhile closing *)
(* orders fill late, stops fire, entries fill, requests fail, and an       *)
(* outage parks the row and brings it back.                                *)
(***************************************************************************)
EXTENDS FiniteSets, Naturals

CONSTANTS
  Leg,       \* contracts
  Fault,     \* failures that happen
  MaxFault,  \* bound: failures
  MaxTry,    \* readings of the positions after the close; 8 in the code
  MaxEntry   \* bound: entries

VARIABLES
  kind,            \* "px" or "nt8"
  pos, stop,       \* contracts that are open; that have a stop
  sent,            \* closing orders at work
  armed,           \* the row in _sig_accts: "on", "parked", "off"
  entering,        \* an entry is under way: its thread has passed its checks
  pc,              \* of the scan
  poss, todo,      \* positions read; those still to be closed
  left, tries,     \* the last reading after the close, and their number
  fired, done,     \* _passtp_fired, _passtp_done
  \* history
  entries,
  odd,             \* what a property makes an exception for
  faults

account == <<pos, stop, sent>>
scan == <<pc, poss, todo, left, tries>>
vars == <<kind, account, armed, entering, scan, fired, done, entries, odd, faults>>

TypeOK ==
  /\ kind \in {"px", "nt8"}
  /\ pos \subseteq Leg /\ stop \subseteq Leg /\ sent \subseteq Leg
  /\ armed \in {"on", "parked", "off"} /\ entering \in BOOLEAN
  /\ pc \in {"idle", "judge", "list", "send", "confirm"}
  /\ poss \subseteq Leg /\ todo \subseteq poss /\ left \subseteq Leg /\ tries \in 0 .. MaxTry
  /\ fired \in BOOLEAN /\ done \in BOOLEAN /\ (done => ~fired)
  /\ entries \in 0 .. MaxEntry /\ faults \in 0 .. MaxFault

Init ==
  /\ kind \in {"px", "nt8"} /\ armed = "on"
  /\ pos \in SUBSET Leg /\ stop = pos /\ sent = {} /\ entering = FALSE
  /\ pc = "idle" /\ poss = {} /\ todo = {} /\ left = {} /\ tries = 0
  /\ fired = FALSE /\ done = FALSE /\ entries = 0 /\ odd = {} /\ faults = 0

Fails(f) == f \in Fault /\ faults < MaxFault /\ faults' = faults + 1
Never == UNCHANGED faults

-----------------------------------------------------------------------------
(* The account, the signals and the server. *)

\* A close at NT8 cancels the orders of its contract.
Fill ==
  /\ \E l \in sent :
       /\ pos' = pos \ {l} /\ sent' = sent \ {l}
       /\ stop' = IF kind = "nt8" THEN stop \ {l} ELSE stop
  /\ UNCHANGED <<kind, armed, entering, scan, fired, done, entries, odd, faults>>

\* A closing order of a contract that its stop has closed does nothing.
StopFires ==
  /\ \E l \in stop \intersect pos :
       pos' = pos \ {l} /\ stop' = stop \ {l} /\ sent' = sent \ {l}
  /\ UNCHANGED <<kind, armed, entering, scan, fired, done, entries, odd, faults>>

SignalComes ==
  /\ armed = "on" /\ ~entering /\ entries < MaxEntry
  /\ entering' = TRUE /\ entries' = entries + 1
  /\ UNCHANGED <<kind, account, armed, scan, fired, done, odd, faults>>

EntryFills ==
  /\ entering /\ entering' = FALSE
  /\ \E l \in Leg \ (pos \union stop \union sent) : pos' = pos \union {l} /\ stop' = stop \union {l}
  /\ odd' = IF pc \in {"idle", "judge"} /\ ~done THEN odd ELSE odd \union {"entry"}
  /\ UNCHANGED <<kind, sent, armed, scan, fired, done, entries, faults>>

Outage ==
  /\ armed = "on" /\ Fails("outage") /\ armed' = "parked"
  /\ UNCHANGED <<kind, account, entering, scan, fired, done, entries, odd>>

Resume ==
  /\ armed = "parked" /\ armed' = "on"
  /\ odd' = IF done THEN odd \union {"parked"} ELSE odd
  /\ UNCHANGED <<kind, account, entering, scan, fired, done, entries, faults>>

-----------------------------------------------------------------------------
(* _passtp_scan *)

\* A close that was not confirmed is taken up again without a judgement.
ScanBegins ==
  /\ pc = "idle" /\ armed = "on" /\ ~done
  /\ IF fired THEN pc' = "list" /\ Never /\ UNCHANGED poss
     ELSE /\ pos # {} /\ pc' = "judge" /\ poss' = pos /\ Never
  /\ UNCHANGED <<kind, account, armed, entering, todo, left, tries, fired, done, entries, odd>>

\* The target is reached, or not; armed still, and at ProjectX the positions
\* are those that were judged.
Judge ==
  /\ pc = "judge"
  /\ \/ pc' = "idle" /\ UNCHANGED fired
     \/ /\ armed = "on" /\ (kind = "px" => pos = poss)
        /\ pc' = "list" /\ fired' = TRUE
  /\ UNCHANGED <<kind, account, armed, entering, poss, todo, left, tries, done, entries, odd, faults>>

-----------------------------------------------------------------------------
(* _passtp_close_account *)

\* The positions are read again; NT8 without its connection shows none.
List ==
  /\ pc = "list" /\ tries' = 0
  /\ \/ poss' = pos /\ pc' = "send" /\ Never
     \/ kind = "nt8" /\ Fails("blip") /\ poss' = {} /\ pc' = "send"
     \/ Fails("list") /\ pc' = "idle" /\ UNCHANGED poss
  /\ todo' = poss' /\ left' = poss'
  /\ UNCHANGED <<kind, account, armed, entering, fired, done, entries, odd>>

SendClose ==
  /\ pc = "send"
  /\ IF todo = {} THEN pc' = "confirm" /\ Never /\ UNCHANGED <<todo, sent>>
     ELSE \E l \in todo :
       /\ todo' = todo \ {l} /\ UNCHANGED pc
       /\ \/ sent' = sent \union ({l} \intersect pos) /\ Never
          \/ Fails("close") /\ sent' \in {sent, sent \union ({l} \intersect pos)}
  /\ UNCHANGED <<kind, pos, stop, armed, entering, poss, left, tries, fired, done, entries, odd>>

\* Up to eight readings, a second apart; NT8's only while it is connected.
Confirm ==
  /\ pc = "confirm" /\ tries < MaxTry
  /\ tries' = tries + 1
  /\ \/ pos # {} /\ left' = pos /\ Never
     \/ Fails("list") /\ UNCHANGED left
  /\ UNCHANGED <<kind, account, armed, entering, pc, poss, todo, fired, done, entries, odd>>

\* Mutant of Orphans: all orders of the account.
OrphansAll == stop

\* Without a confirmation only the orders of the legs seen closed go.
Orphans == stop \intersect (poss \ left)

\* Each order is cancelled by a request of its own, and a failure is swallowed.
NotFlat ==
  /\ pc = "confirm" /\ tries = MaxTry /\ pc' = "idle"
  /\ \/ stop' = (IF kind = "px" THEN stop \ Orphans ELSE stop) /\ Never
     \/ kind = "px" /\ Fails("cancel") /\ \E S \in SUBSET Orphans : stop' = stop \ S
  /\ UNCHANGED <<kind, pos, sent, armed, entering, poss, todo, left, tries, fired, done, entries, odd>>

Off == IF armed = "on" THEN "off" ELSE armed

\* Mutant of Flat: the reading that shows the account flat is not waited for.
FlatUnseen ==
  /\ pc = "confirm" /\ pc' = "idle"
  /\ left' = {} /\ UNCHANGED tries /\ Never
  /\ stop' = IF kind = "px" THEN {} ELSE stop
  /\ fired' = FALSE /\ done' = TRUE /\ armed' = Off
  /\ UNCHANGED <<kind, pos, sent, entering, poss, todo, entries, odd>>

\* Seen flat: the orders of the account are cancelled, but only where the
\* first reading of this scan found a position that tells the account's id.
Flat ==
  /\ pc = "confirm" /\ tries < MaxTry /\ pos = {} /\ pc' = "idle"
  /\ left' = {} /\ UNCHANGED tries
  /\ \/ kind = "px" /\ poss # {} /\ stop' = {} /\ Never /\ UNCHANGED odd
     \/ /\ kind = "px" /\ poss # {} /\ Fails("cancel")
        /\ stop' \in (SUBSET stop) \ {{}} /\ odd' = odd \union {"cancel"}
     \/ /\ kind = "nt8" \/ poss = {}
        /\ Never /\ UNCHANGED stop
        /\ odd' = IF poss = {} THEN odd \union {"late"} ELSE odd
  /\ fired' = FALSE /\ done' = TRUE /\ armed' = Off
  /\ UNCHANGED <<kind, pos, sent, entering, poss, todo, entries>>

Next ==
  \/ Fill \/ StopFires \/ SignalComes \/ EntryFills \/ Outage \/ Resume
  \/ ScanBegins \/ Judge \/ List \/ SendClose \/ Confirm \/ NotFlat \/ Flat

Spec == Init /\ [][Next]_vars

-----------------------------------------------------------------------------
\* What is announced as closed is closed: no position, no order left, none to
\* come, and the row stays off.  An entry that was under way may still fill; a
\* row parked during the close comes back; a refused cancel is not seen; and a
\* second scan that finds no position any more cancels nothing.
DoneIsDone ==
  done => /\ odd \intersect {"entry", "parked"} = {} => pos = {} /\ sent = {}
          /\ odd = {} => stop = {}
          /\ "parked" \notin odd => armed # "on"

\* Until then an open contract keeps its stop.
OpenKeepsStop == odd = {} => pos \subseteq stop
=============================================================================
