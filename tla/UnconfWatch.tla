---------------------------- MODULE UnconfWatch -----------------------------
(***************************************************************************)
(* The watch of unconfirmed entries (eqgui.py): an entry order whose       *)
(* outcome stayed unknown may fill later, so every app run keeps a list of *)
(* such legs, on disk too, and at each heartbeat looks whether the         *)
(* position appeared.  If it did and has no protective stop, the app       *)
(* places one; if it is absent twice in a row the leg is let go.           *)
(*                                                                         *)
(* One account and one asset; a leg is a contract of it, and positions     *)
(* count whole entries of the leg.                                         *)
(***************************************************************************)
EXTENDS Integers, FiniteSets

CONSTANTS
  Dev,       \* computers that run the app for this account
  Leg,       \* contracts of the signal, in the order they are entered
  Fault,     \* failures that happen
  MaxFault   \* bound: failures in a behaviour

VARIABLES
  pos,       \* entries open on a leg; -1 is a position the other way round
  stop,      \* protective stops working on a leg
  old,       \* legs with a stop of an earlier session still working
  orders,    \* entry orders the broker may still fill
  watch,     \* _unconf_watch of each run
  disk,      \* .unconf_watch.json of each computer
  hand,      \* records whose broker object exists
  flat, nostop,          \* _unconf_flat, _nostop_seen
  hb,        \* the record the heartbeat is busy with, and its next step
  told,      \* what the member was told of a leg
  over,      \* the session has closed
  faults     \* failures so far

watcher == <<watch, disk, hand, flat, nostop, hb>>
uvars == <<pos, stop, old, orders, watcher, told, over, faults>>

Mark == {"no", "new", "seen"}
Idle == [leg |-> 0, do |-> "rest"]

UTypeOK ==
  /\ pos \in [Leg -> -1 .. 2] /\ stop \in [Leg -> 0 .. 2] /\ old \subseteq Leg
  /\ orders \subseteq [dev : Dev, leg : Leg, n : Nat, stop : 0 .. 1]
  /\ watch \in [Dev -> [Leg -> Mark]] /\ disk \in [Dev -> [Leg -> Mark]]
  /\ hand \subseteq Dev \X Leg
  /\ flat \in [Dev \X Leg -> 0 .. 1] /\ nostop \in [Dev \X Leg -> -1 .. 1]
  /\ hb \in [Dev -> [leg : Leg \union {0}, do : {"rest", "query", "place"}]]
  /\ told \subseteq Leg \X {"unconfirmed", "bare", "rejected", "miss"}
  /\ over \in BOOLEAN /\ faults \in 0 .. MaxFault

\* Positions of an earlier session may be open, each with its stop.
UInit ==
  /\ pos \in [Leg -> {0, 1}] /\ stop = [l \in Leg |-> 0]
  /\ old = {l \in Leg : pos[l] = 1}
  /\ orders = {} /\ told = {} /\ over = FALSE /\ faults = 0
  /\ watch = [d \in Dev |-> [l \in Leg |-> "no"]] /\ disk = watch /\ hand = {}
  /\ flat = [k \in Dev \X Leg |-> 0] /\ nostop = flat
  /\ hb = [d \in Dev |-> Idle]

Fails(f) == f \in Fault /\ faults < MaxFault /\ faults' = faults + 1
Never == UNCHANGED faults
Capped(n) == IF n > 2 THEN 2 ELSE n

-----------------------------------------------------------------------------
(* The broker and the member. *)

\* An order fills, with the stop of its bracket if it has one.
Fill ==
  /\ ~over
  /\ \E o \in orders :
       /\ orders' = orders \ {o}
       /\ pos' = [pos EXCEPT ![o.leg] = Capped(@ + 1)]
       /\ stop' = [stop EXCEPT ![o.leg] = Capped(@ + o.stop)]
  /\ UNCHANGED <<old, watcher, told, over, faults>>

\* An order dies unfilled.
Dies ==
  /\ \E o \in orders : orders' = orders \ {o}
  /\ UNCHANGED <<pos, stop, old, watcher, told, over, faults>>

\* The position ends by its stop or by the member's hand, who may also turn
\* it round (followed only for a leg that is watched).
Ends ==
  /\ \E l \in Leg :
       /\ pos[l] > 0
       /\ \/ pos' = [pos EXCEPT ![l] = 0] /\ Never
          \/ /\ \E d \in Dev : watch[d][l] # "no"
             /\ pos' = [pos EXCEPT ![l] = -1] /\ Fails("other")
       /\ stop' = [stop EXCEPT ![l] = 0] /\ old' = old \ {l}
  /\ UNCHANGED <<orders, watcher, told, over>>

\* The session close flattens the account.
SessionEnd ==
  /\ ~over /\ over' = TRUE
  /\ pos' = [l \in Leg |-> 0] /\ stop' = [l \in Leg |-> 0]
  /\ old' = {} /\ orders' = {}
  /\ UNCHANGED <<watcher, told, faults>>

-----------------------------------------------------------------------------
(* The list. *)

\* The whole list is written at every change; a failed write is swallowed.
Saves(d, w) ==
  /\ watch' = [watch EXCEPT ![d] = w]
  /\ \/ disk' = [disk EXCEPT ![d] = w] /\ Never
     \/ UNCHANGED disk /\ Fails("disk")

Clears(d, l) ==
  /\ flat' = [flat EXCEPT ![<<d, l>>] = 0]
  /\ nostop' = [nostop EXCEPT ![<<d, l>>] = 0]

WatchAdd(d, l) ==
  /\ Saves(d, [watch[d] EXCEPT ![l] = "new"])
  /\ hand' = hand \union {<<d, l>>}
  /\ Clears(d, l)

WatchDrop(d, l) ==
  IF watch[d][l] = "no"
  THEN UNCHANGED <<watch, disk, hand, flat, nostop, faults>>
  ELSE /\ Saves(d, [watch[d] EXCEPT ![l] = "no"])
       /\ hand' = hand \ {<<d, l>>}
       /\ Clears(d, l)

WatchKept == UNCHANGED <<watch, disk, hand>>

\* The list is read back from disk when the app starts again.
WatchRestart(d) ==
  /\ watch' = [watch EXCEPT ![d] = disk[d]]
  /\ hand' = {k \in hand : k[1] # d}
  /\ flat' = [k \in DOMAIN flat |-> IF k[1] = d THEN 0 ELSE flat[k]]
  /\ nostop' = [k \in DOMAIN flat |-> IF k[1] = d THEN 0 ELSE nostop[k]]
  /\ hb' = [hb EXCEPT ![d] = Idle]
  /\ UNCHANGED disk

-----------------------------------------------------------------------------
(* The heartbeat takes the records one at a time. *)

Watching(d, l) ==
  watch[d][l] # "no" /\ hb[d] = Idle /\ <<d, l>> \in hand

\* A broker object is built from the settings for a record read from disk.
WatchRestores(d, l) ==
  /\ watch[d][l] # "no" /\ hb[d] = Idle /\ <<d, l>> \notin hand
  /\ \/ hand' = hand \union {<<d, l>>} /\ Never
     \/ UNCHANGED hand /\ Fails("list")
  /\ UNCHANGED <<pos, stop, old, orders, watch, disk, flat, nostop, hb, told, over>>

\* A failed request says nothing, and the count of absences starts again.
WatchFails(d, l) ==
  /\ Watching(d, l) /\ Fails("list")
  /\ flat' = [flat EXCEPT ![<<d, l>>] = 0]
  /\ UNCHANGED <<pos, stop, old, orders, watch, disk, hand, nostop, hb, told, over>>

\* Absent twice in a row: let go without a word.
WatchFlat(d, l) ==
  /\ Watching(d, l) /\ pos[l] = 0
  /\ IF flat[<<d, l>>] = 0
     THEN /\ flat' = [flat EXCEPT ![<<d, l>>] = 1]
          /\ UNCHANGED <<watch, disk, hand, nostop, faults>>
     ELSE WatchDrop(d, l)
  /\ UNCHANGED <<pos, stop, old, orders, hb, told, over>>

\* A position of the other direction is not this order's.
WatchOther(d, l) ==
  /\ Watching(d, l) /\ pos[l] < 0
  /\ WatchDrop(d, l)
  /\ UNCHANGED <<pos, stop, old, orders, hb, told, over>>

\* The position is there: its stop is looked for.
WatchOpen(d, l) ==
  /\ Watching(d, l) /\ pos[l] > 0
  /\ flat' = [flat EXCEPT ![<<d, l>>] = 0]
  /\ hb' = [hb EXCEPT ![d] = [leg |-> l, do |-> "query"]]
  /\ IF watch[d][l] = "new"
     THEN Saves(d, [watch[d] EXCEPT ![l] = "seen"])
     ELSE UNCHANGED <<watch, disk, faults>>
  /\ UNCHANGED <<pos, stop, old, orders, hand, nostop, told, over>>

\* Mutant of WatchQuery: the first look without a stop is never counted.
WatchQueryForgets(d) ==
  LET l == hb[d].leg IN
  /\ hb[d].do = "query" /\ Never
  /\ hb' = [hb EXCEPT ![d] = Idle]
  /\ UNCHANGED <<pos, stop, old, orders, watch, disk, hand, flat, nostop, told, over>>

\* The list of orders: the first time without a stop is not believed.
WatchQuery(d) ==
  LET l == hb[d].leg  k == <<d, l>> IN
  /\ hb[d].do = "query"
  /\ \/ /\ Fails("query")
        /\ nostop' = [nostop EXCEPT ![k] = 0] /\ hb' = [hb EXCEPT ![d] = Idle]
     \/ /\ stop[l] > 0 \/ l \in old
        /\ nostop' = [nostop EXCEPT ![k] = 0] /\ hb' = [hb EXCEPT ![d] = Idle]
        /\ Never
     \/ /\ stop[l] = 0 /\ l \notin old /\ Never
        /\ nostop' = [nostop EXCEPT ![k] = IF @ = 0 THEN 1 ELSE -1]
        /\ hb' = [hb EXCEPT ![d] = IF nostop[k] = 1 THEN [@ EXCEPT !.do = "place"]
                                   ELSE Idle]
  /\ UNCHANGED <<pos, stop, old, orders, watch, disk, hand, flat, told, over>>

\* The remembered stop is placed; a failure is told once.
WatchPlace(d) ==
  LET l == hb[d].leg  k == <<d, l>> IN
  /\ hb[d].do = "place"
  /\ hb' = [hb EXCEPT ![d] = Idle]
  /\ \/ /\ stop' = [stop EXCEPT ![l] = Capped(@ + 1)] /\ Never
        /\ nostop' = [nostop EXCEPT ![k] = 0]
        /\ UNCHANGED told
     \/ /\ Fails("stop")
        /\ told' = told \union {<<l, "bare">>}
        /\ stop' \in {stop, [stop EXCEPT ![l] = Capped(@ + 1)]}
        /\ UNCHANGED nostop
  /\ UNCHANGED <<pos, old, orders, watch, disk, hand, flat, over>>

\* Twelve hours: the session of the entry has closed.
WatchExpires(d, l) ==
  /\ over /\ watch[d][l] # "no" /\ hb[d] = Idle
  /\ WatchDrop(d, l)
  /\ UNCHANGED <<pos, stop, old, orders, hb, told, over>>

Heartbeat(d) ==
  \/ WatchQuery(d)
  \/ WatchPlace(d)
  \/ \E l \in Leg : \/ WatchRestores(d, l) \/ WatchFails(d, l) \/ WatchFlat(d, l)
                    \/ WatchOther(d, l) \/ WatchOpen(d, l) \/ WatchExpires(d, l)
=============================================================================
