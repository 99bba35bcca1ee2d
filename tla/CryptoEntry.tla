---------------------------- MODULE CryptoEntry -----------------------------
(***************************************************************************)
(* One bitcoin signal entered in one account (eqgui.py _enter_account, the *)
(* Bybit and Bitget part): what an earlier session left is closed, then    *)
(* comes the claim, then the market order, which carries its stop.  Under  *)
(* the older limit policy limit orders are tried first, and no claim is    *)
(* asked.  Several computers may run the app for the account.              *)
(***************************************************************************)
EXTENDS Integers

CONSTANTS
  Dev,       \* computers that run the app for this account
  Policies,  \* "market", "limit"
  Labels,    \* names the member gives the account's row, on each computer
  Fault,     \* failures that happen
  MaxFault,  \* bound: failures in a behaviour
  MaxTry,    \* bound: limit orders before the market order
  MaxLife    \* bound: starts of the app on one computer

VARIABLES
  policy,
  label,     \* each computer's name for the account: what it claims by
  held,      \* entries open at the exchange: who sent them, or "before"
  orders,    \* entry orders that may still fill
  pc,        \* the next step of each run
  try, qty,  \* limit orders sent, the last reading of the position
  life,      \* starts of each computer's app
  claim,     \* computers the server gave the account to, under their label
  recorded,  \* runs that noted their entry (_mark_entered, _remember_open)
  told,      \* runs whose member was told of a failed or unknown entry
  \* history
  odd,       \* what happened that a property makes an exception for
  faults     \* failures so far

thread == <<pc, try, qty>>
market == <<held, orders>>
setup == <<policy, label>>
vars == <<setup, market, thread, life, claim, recorded, told, odd, faults>>

Sent == [dev : Dev, life : 1 .. MaxLife, n : 0 .. MaxTry]
Before == [dev |-> "before", life |-> 0, n |-> 0]

TypeOK ==
  /\ policy \in Policies /\ label \in [Dev -> Labels]
  /\ held \subseteq Sent \union {Before} /\ orders \subseteq Sent
  /\ pc \in [Dev -> {"idle", "look", "close", "price", "claim", "send",
                     "limit", "read", "cancel", "final", "done"}]
  /\ try \in [Dev -> 0 .. MaxTry]
  /\ qty \in [Dev -> {"none", "some", "zero", "unknown"}]
  /\ life \in [Dev -> 1 .. MaxLife]
  /\ claim \subseteq Dev /\ recorded \subseteq Dev /\ told \subseteq Dev
  /\ odd \subseteq {"claim", "unclaimed", "loose", "raced", "crash"}
  /\ faults \in 0 .. MaxFault

Init ==
  /\ policy \in Policies /\ label \in [Dev -> Labels]
  /\ held \in {{}, {Before}} /\ orders = {}
  /\ pc = [d \in Dev |-> "idle"] /\ try = [d \in Dev |-> 0]
  /\ qty = [d \in Dev |-> "none"] /\ life = [d \in Dev |-> 1]
  /\ claim = {} /\ recorded = {} /\ told = {} /\ odd = {}
  /\ faults = 0

Fails(f) == f \in Fault /\ faults < MaxFault /\ faults' = faults + 1
Never == UNCHANGED faults
Step(d, from, to) ==
  pc[d] = from /\ pc' = [pc EXCEPT ![d] = to] /\ UNCHANGED <<try, qty>>
Order(d) == [dev |-> d, life |-> life[d], n |-> try[d]]
\* The entry fails, or stays unknown, with a message.
Gives(d, from) == Step(d, from, "done") /\ told' = told \union {d}
Records(d) == recorded' = recorded \union {d}

-----------------------------------------------------------------------------
Fill ==
  /\ \E o \in orders : orders' = orders \ {o} /\ held' = held \union {o}
  /\ UNCHANGED <<setup, thread, life, claim, recorded, told, odd, faults>>

\* A post-only limit order the exchange drops.
Dies ==
  /\ \E o \in orders : orders' = orders \ {o}
  /\ UNCHANGED <<setup, held, thread, life, claim, recorded, told, odd, faults>>

\* Sizing refuses the signal: no entry.
Begin(d) ==
  /\ Step(d, "idle", "look") \/ Step(d, "idle", "done")
  /\ UNCHANGED <<setup, market, life, claim, recorded, told, odd, faults>>

After == IF policy = "limit" THEN "limit" ELSE "price"
Look(d) ==
  /\ \/ Step(d, "look", IF held = {} THEN After ELSE "close") /\ Never /\ UNCHANGED told
     \/ Gives(d, "look") /\ Fails("list")
  /\ UNCHANGED <<setup, market, life, claim, recorded, odd>>

\* Whatever is open counts as left by an earlier session and is closed; a
\* close that is not seen to end stops the entry, with a line in the log.
Close(d) ==
  /\ \/ Step(d, "close", After) /\ Never /\ held' = {}
     \/ Step(d, "close", "done") /\ Fails("close") /\ held' \in {held, {}}
  /\ UNCHANGED <<setup, orders, life, claim, recorded, told, odd>>

\* The market moved too far from the signal's price: told, no entry.  The
\* size shrinks with a longer distance to the stop (Sizing is not in here).
Price(d) ==
  /\ \/ Step(d, "price", "claim") /\ Never /\ UNCHANGED told
     \/ Gives(d, "price") /\ Fails("adverse")
  /\ UNCHANGED <<setup, market, life, claim, recorded, odd>>

\* The claim names the computer and the row's label: a restarted run gets
\* the account again, and so does a computer that labels it differently.
Free(d) == \A e \in claim : label[e] = label[d] => e = d
Claim(d) ==
  /\ Never /\ UNCHANGED odd
  /\ IF Free(d) THEN claim' = claim \union {d} /\ Step(d, "claim", "send")
     ELSE UNCHANGED claim /\ Step(d, "claim", "done")
  /\ UNCHANGED <<setup, market, life, recorded, told>>

ClaimUnanswered(d) ==
  /\ Fails("claim") /\ odd' = odd \union {"claim"}
  /\ Step(d, "claim", "send")
  /\ claim' \in {claim, IF Free(d) THEN claim \union {d} ELSE claim}
  /\ UNCHANGED <<setup, market, life, recorded, told>>

\* An accepted market order fills at once.
Send(d) ==
  /\ Step(d, "send", "done") /\ Never
  /\ held' = held \union {Order(d)} /\ Records(d)
  /\ UNCHANGED <<setup, orders, life, claim, told, odd>>

\* Refused, or unknown: the order may be in, with its stop.
SendFails(d) ==
  /\ Gives(d, "send") /\ Fails("send")
  /\ held' \in {held, held \union {Order(d)}}
  /\ UNCHANGED <<setup, orders, life, claim, recorded, odd>>

-----------------------------------------------------------------------------
(* Limit orders first. *)

LimitOrder(d) ==
  /\ pc[d] = "limit" /\ try[d] < MaxTry
  /\ try' = [try EXCEPT ![d] = @ + 1] /\ UNCHANGED qty
  /\ \/ /\ Never /\ pc' = [pc EXCEPT ![d] = "read"]
        /\ orders' = orders \union {Order(d)}
        /\ odd' = odd \union {"unclaimed"}
     \/ /\ Fails("send") /\ pc' = [pc EXCEPT ![d] = "final"]
        /\ orders' \in {orders, orders \union {Order(d)}}
        /\ odd' = odd \union {"unclaimed"}
                     \union (IF orders' = orders THEN {} ELSE {"loose"})
  /\ UNCHANGED <<setup, held, life, claim, recorded, told>>

LimitRead(d) ==
  /\ pc[d] = "read" /\ pc' = [pc EXCEPT ![d] = "cancel"] /\ UNCHANGED try
  /\ \/ held # {} /\ qty' = [qty EXCEPT ![d] = "some"] /\ Never
     \/ held = {} /\ qty' = [qty EXCEPT ![d] = "zero"] /\ Never
     \/ qty' = [qty EXCEPT ![d] = "unknown"] /\ Fails("list")
  /\ UNCHANGED <<setup, market, life, claim, recorded, told, odd>>

\* The cancellation comes after the reading; that it failed is not looked at.
LimitCancel(d) ==
  LET mine == {o \in orders : o.dev = d} IN
  /\ CASE qty[d] = "some" -> Step(d, "cancel", "done") /\ Records(d)
       [] qty[d] = "zero" /\ try[d] < MaxTry ->
            Step(d, "cancel", "limit") /\ UNCHANGED recorded
       [] OTHER -> Step(d, "cancel", "final") /\ UNCHANGED recorded
  /\ \/ /\ Never /\ orders' = orders \ mine
        /\ odd' = IF qty[d] = "zero" /\ held # {} THEN odd \union {"raced"} ELSE odd
     \/ /\ mine # {} /\ Fails("cancel") /\ UNCHANGED orders
        /\ odd' = odd \union {"loose"}
  /\ UNCHANGED <<setup, held, life, claim, told>>

\* A last reading before the market order; unknown, or too far away, skips
\* the entry and tells the member.
LimitFinal(d) ==
  /\ \/ held # {} /\ Step(d, "final", "done") /\ Records(d) /\ UNCHANGED told /\ Never
     \/ held = {} /\ Step(d, "final", "send") /\ UNCHANGED <<recorded, told>> /\ Never
     \/ held = {} /\ Gives(d, "final") /\ UNCHANGED recorded /\ Fails("adverse")
     \/ Gives(d, "final") /\ UNCHANGED recorded /\ Fails("list")
  /\ UNCHANGED <<setup, market, life, claim, odd>>

\* The app dies; started again it takes the signal once more unless the
\* entry was noted.
Crash(d) ==
  /\ pc[d] \notin {"idle", "done"} /\ life[d] < MaxLife
  /\ life' = [life EXCEPT ![d] = @ + 1] /\ odd' = odd \union {"crash"}
  /\ pc' = [pc EXCEPT ![d] = "idle"] /\ try' = [try EXCEPT ![d] = 0]
  /\ qty' = [qty EXCEPT ![d] = "none"]
  /\ UNCHANGED <<setup, market, claim, recorded, told, faults>>

Next ==
  \/ Fill \/ Dies
  \/ \E d \in Dev :
       \/ Begin(d) \/ Look(d) \/ Close(d) \/ Price(d)
       \/ Claim(d) \/ ClaimUnanswered(d) \/ Send(d) \/ SendFails(d)
       \/ LimitOrder(d) \/ LimitRead(d) \/ LimitCancel(d) \/ LimitFinal(d)
       \/ Crash(d)

-----------------------------------------------------------------------------
\* Under the limit policy no claim is asked: another computer, or the run
\* started again, may have sent orders as well.
Unclaimed ==
  /\ "unclaimed" \in odd
  /\ "crash" \in odd \/ \E d, e \in Dev : d # e /\ pc[d] # "idle" /\ pc[e] # "idle"

\* Two computers that label the account differently claim it side by side.
Apart(o, p) == \E d, e \in Dev : o.dev = d /\ p.dev = e /\ label[d] # label[e]

\* The account holds the signal once.  Exceptions: two labels for it, a claim
\* without an answer, the limit policy on two computers or over a restart, a
\* limit order that could not be cancelled or filled between its reading and
\* its cancellation.
NoDouble ==
  (\E o, p \in held : o # p /\ ~Apart(o, p))
    => Unclaimed \/ odd \intersect {"claim", "loose", "raced"} # {}

\* When the entries are over, one that is open was noted by the run that sent
\* it, or its member was told, unless the app died on the way.
OpenIsKnown ==
  /\ \A d \in Dev : pc[d] \in {"idle", "done"}
  /\ "crash" \notin odd
  => \A o \in held \ {Before} : o.dev \in recorded \union told
=============================================================================
