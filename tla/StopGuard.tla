----------------------------- MODULE StopGuard ------------------------------
(***************************************************************************)
(* The guard of an open position's protective stop (eqgui.py): every 60    *)
(* seconds the heartbeat looks whether the position is still there, puts   *)
(* back a stop that vanished, corrects a stop order of the wrong size and  *)
(* learns where the member moved it.  Beside it run the trail of a held    *)
(* bitcoin position, the entry, the session close and the member.          *)
(*                                                                         *)
(* One asset, held long in one account: a greater price is the tighter     *)
(* stop.  A short position is the mirror image.                            *)
(***************************************************************************)
EXTENDS Integers, FiniteSets, FiniteSetsExt

CONSTANTS
  Kinds,     \* brokers: "position" (Bybit), "plans" (Bitget), "orders" (ProjectX)
  MaxPrice,  \* bound: prices of a stop
  Qty,       \* contracts of an entry
  Quirk,     \* disturbances that happen
  MaxQuirk,  \* bound: disturbances in a behaviour
  MaxLife,   \* bound: entries in a behaviour
  MaxOrder   \* bound: stop orders told apart at a time

ASSUME StopAssumption ==
  /\ Kinds \subseteq {"position", "plans", "orders"}
  /\ MaxPrice \in Nat \ {0} /\ Qty \in Nat \ {0}
  /\ MaxQuirk \in Nat /\ MaxLife \in Nat /\ MaxOrder \in Nat \ {0}

Price == 1 .. MaxPrice
OrderId == 1 .. MaxOrder
Order == [id : OrderId, px : Price, n : 0 .. Qty]

\* What is remembered of a position: 0 is a level nobody gave.  life says
\* which entry wrote it and is not in the code.
Ctx == [life : 0 .. MaxLife, stop : 0 .. MaxPrice, app : 0 .. MaxPrice,
        manual : BOOLEAN]
NoCtx == [life |-> 0, stop |-> 0, app |-> 0, manual |-> FALSE]

VARIABLES
  kind,      \* where this broker keeps a stop
  pos,       \* the position at the broker
  stops,     \* live stops; size 0 where the stop belongs to the position
  open,      \* the asset is in _open_assets, kept in the settings file
  ctx,       \* _open_ctx[asset]
  disk,      \* .open_ctx.json
  flat, nostop, sized,   \* _flat_seen, _nostop_seen, _size_seen
  gpc, g,    \* the guard's next step, the position and stops it has read
  tpc, t,    \* the trail's next step, the stop it has read and its target
  epc, px,   \* the entry's next step and its stop
  life,      \* entries so far
  \* environment and history
  quirks,    \* disturbances so far
  badList, badStops,     \* the last list, the last query wrongly came empty
  stuck,     \* a cancellation of this correction failed
  told       \* the member was told since the guard last saw a stop

vars == <<kind, pos, stops, open, ctx, disk, flat, nostop, sized, gpc, g, tpc,
          t, epc, px, life, quirks, badList, badStops, stuck, told>>
broker == <<pos, stops>>
record == <<open, ctx, disk>>
seen == <<flat, nostop, sized>>
guard == <<gpc, g, stuck, told, badList, badStops>>
trail == <<tpc, t>>
entry == <<epc, px, life>>

NoRead == [qty |-> 0, stops |-> {}]
NoTarget == [cur |-> 0, to |-> 0]

TypeOK ==
  /\ kind \in Kinds /\ pos \in 0 .. Qty /\ stops \subseteq Order
  /\ open \in BOOLEAN /\ ctx \in Ctx /\ disk \in Ctx
  /\ flat \in 0 .. 1 /\ nostop \in -1 .. 1 /\ sized \in -1 .. 1
  /\ gpc \in {"idle", "stops", "cancel", "resize", "learn", "place", "drop", "report"}
  /\ g \in [qty : 0 .. Qty, stops : SUBSET Order]
  /\ tpc \in {"idle", "move", "remember"}
  /\ t \in [cur : 0 .. MaxPrice, to : 0 .. MaxPrice]
  /\ epc \in {"none", "filled", "noted"} /\ px \in 0 .. MaxPrice
  /\ life \in 0 .. MaxLife /\ quirks \in 0 .. MaxQuirk
  /\ badList \in BOOLEAN /\ badStops \in BOOLEAN
  /\ stuck \in BOOLEAN /\ told \in BOOLEAN

Init ==
  /\ kind \in Kinds
  /\ pos = 0 /\ stops = {} /\ open = FALSE /\ ctx = NoCtx /\ disk = NoCtx
  /\ flat = 0 /\ nostop = 0 /\ sized = 0
  /\ gpc = "idle" /\ g = NoRead /\ tpc = "idle" /\ t = NoTarget
  /\ epc = "none" /\ px = 0 /\ life = 0
  /\ quirks = 0 /\ badList = FALSE /\ badStops = FALSE
  /\ stuck = FALSE /\ told = FALSE

Happens(q) == q \in Quirk /\ quirks < MaxQuirk /\ quirks' = quirks + 1

\* The stop a position, or an order, gets at level p for n contracts.
Unused == {i \in OrderId : \A o \in stops \union g.stops : o.id # i}
WithStop(p, n) ==
  IF kind = "orders"
  THEN stops \union {[id |-> CHOOSE i \in Unused : TRUE, px |-> p, n |-> n]}
  ELSE {[id |-> 1, px |-> p, n |-> 0]}

-----------------------------------------------------------------------------
(* The broker, the member and the machine. *)

\* An entry fills, in full or in part; its stop is for the whole order, and
\* may fail.
Fill ==
  /\ ~open /\ pos = 0 /\ epc = "none" /\ gpc = "idle" /\ tpc = "idle"
  /\ life < MaxLife /\ Unused # {}
  /\ life' = life + 1 /\ epc' = "filled" /\ told' = FALSE
  /\ pos' \in (IF kind = "orders" THEN 1 .. Qty ELSE {Qty})
  /\ px' \in 0 .. MaxPrice
  /\ \/ UNCHANGED stops
     \/ px' > 0 /\ stops' = WithStop(px', Qty)
  /\ UNCHANGED <<kind, record, seen, gpc, g, stuck, badList, badStops, trail, quirks>>

\* The stop fills or the member closes: stop orders may stay behind.  What a
\* stop larger than the position opens is not followed.
Ends ==
  /\ pos > 0
  /\ pos' = 0
  /\ stops' \in IF kind = "orders" THEN {stops, {}} ELSE {{}}
  /\ UNCHANGED <<kind, record, seen, guard, trail, entry, quirks>>

\* The session close flattens and reports.
SessionClose ==
  /\ open /\ epc = "none"
  /\ pos' = 0 /\ stops' = {} /\ open' = FALSE
  /\ UNCHANGED <<kind, ctx, disk, seen, guard, trail, entry, quirks>>

Vanish ==
  /\ Happens("vanish")
  /\ \E o \in stops : stops' = stops \ {o}
  /\ UNCHANGED <<kind, pos, record, seen, guard, trail, entry>>

MemberMoves ==
  /\ Happens("move")
  /\ \E o \in stops, p \in Price :
       p # o.px /\ stops' = (stops \ {o}) \union {[o EXCEPT !.px = p]}
  /\ UNCHANGED <<kind, pos, record, seen, guard, trail, entry>>

\* A stop that belongs to the position follows its size.
MemberReduces ==
  /\ Happens("reduce") /\ kind = "orders" /\ pos > 1
  /\ pos' = pos - 1
  /\ UNCHANGED <<kind, stops, record, seen, guard, trail, entry>>

\* The settings and .open_ctx.json stay.
Restart ==
  /\ Happens("restart")
  /\ ctx' = NoCtx /\ flat' = 0 /\ nostop' = 0 /\ sized' = 0
  /\ gpc' = "idle" /\ g' = NoRead /\ stuck' = FALSE
  /\ tpc' = "idle" /\ t' = NoTarget /\ epc' = "none" /\ px' = 0
  /\ UNCHANGED <<kind, broker, open, disk, life, badList, badStops, told>>

-----------------------------------------------------------------------------
(* The entry's tail and the record. *)

\* Mutant of Record: the mark of the member's hand is not written.
RecordBare(c) == [c EXCEPT !.manual = FALSE]

Record(c) == c

NoteFill ==
  /\ epc = "filled"
  /\ open' = TRUE /\ epc' = "noted"
  /\ UNCHANGED <<kind, broker, ctx, disk, seen, guard, trail, px, life, quirks>>

RememberOpen ==
  /\ epc = "noted"
  /\ ctx' = [life |-> life, stop |-> px, app |-> px, manual |-> FALSE]
  /\ disk' = Record(ctx')
  /\ flat' = 0 /\ nostop' = 0
  /\ epc' = "none" /\ px' = 0
  /\ UNCHANGED <<kind, broker, open, sized, guard, trail, life, quirks>>

Restore ==
  /\ open /\ gpc = "idle" /\ ctx = NoCtx /\ disk # NoCtx
  /\ ctx' = disk
  /\ UNCHANGED <<kind, broker, open, disk, seen, guard, trail, entry, quirks>>

-----------------------------------------------------------------------------
(* The guard: is the position there? *)

Looks == open /\ gpc = "idle" /\ ctx # NoCtx

\* Mutant of ListFails: a failed list does not break the row of flat ones.
ListFailsKept ==
  /\ Looks /\ Happens("fail")
  /\ badList' = FALSE
  /\ UNCHANGED <<kind, broker, record, seen, gpc, g, stuck, told, badStops, trail, entry>>

ListFails ==
  /\ Looks /\ Happens("fail")
  /\ flat' = 0 /\ badList' = FALSE
  /\ UNCHANGED <<kind, broker, record, nostop, sized, gpc, g, stuck, told,
                 badStops, trail, entry>>

\* The list has no such position, rightly or, never twice in a row, wrongly;
\* nor in the moment between NoteFill and RememberOpen, where the flat row
\* of the position before would still be counted.
ListFlat ==
  /\ Looks
  /\ \/ pos = 0 /\ badList' = FALSE /\ UNCHANGED quirks
     \/ pos > 0 /\ epc = "none" /\ ~badList /\ Happens("glitch") /\ badList' = TRUE
  /\ IF flat = 0 THEN flat' = 1 /\ gpc' = gpc ELSE flat' = 0 /\ gpc' = "drop"
  /\ UNCHANGED <<kind, broker, record, nostop, sized, g, stuck, told, badStops,
                 trail, entry>>

ListOpen ==
  /\ Looks /\ pos > 0
  /\ flat' = 0 /\ badList' = FALSE
  /\ g' = [qty |-> pos, stops |-> IF kind = "position" THEN stops ELSE {}]
  /\ gpc' = "stops"
  /\ UNCHANGED <<kind, broker, record, nostop, sized, stuck, told, badStops,
                 trail, entry, quirks>>

\* Gone twice: the record is dropped, then the close is reported.
Drop ==
  /\ gpc = "drop"
  /\ ctx' = NoCtx /\ disk' = NoCtx /\ gpc' = "report"
  /\ UNCHANGED <<kind, broker, open, seen, g, stuck, told, badList, badStops,
                 trail, entry, quirks>>

Report ==
  /\ gpc = "report"
  /\ open' = FALSE /\ gpc' = "idle"
  /\ UNCHANGED <<kind, broker, ctx, disk, seen, g, stuck, told, badList,
                 badStops, trail, entry, quirks>>

-----------------------------------------------------------------------------
(* The guard: is the stop there, and is it of the right size? *)

\* Stop orders are asked for every 180 seconds only.
TooSoon ==
  /\ gpc = "stops" /\ kind = "orders"
  /\ gpc' = "idle" /\ g' = NoRead
  /\ UNCHANGED <<kind, broker, record, seen, stuck, told, badList, badStops,
                 trail, entry, quirks>>

QueryFails ==
  /\ gpc = "stops" /\ kind # "position" /\ Happens("fail")
  /\ nostop' = 0 /\ badStops' = FALSE
  /\ gpc' = "idle" /\ g' = NoRead
  /\ UNCHANGED <<kind, broker, record, flat, sized, stuck, told, badList,
                 trail, entry>>

\* With a position its stop came with the list; else the broker is asked
\* now and may, with the same limits, wrongly answer nothing.
Read == IF kind = "position" THEN g.stops ELSE stops

NothingRead ==
  \/ Read = {} /\ badStops' = FALSE /\ UNCHANGED quirks
  \/ /\ Read # {} /\ kind # "position" /\ epc = "none" /\ ~badStops
     /\ Happens("glitch") /\ badStops' = TRUE

\* Mutant of Count: the row goes on.
CountOn(n) == IF n < 0 THEN n ELSE n + 1

\* One miss is not believed; the second is acted on, once.
Second(n) == n = 1
Count(n) == IF n = 0 THEN 1 ELSE -1

Missing ==
  /\ gpc = "stops" /\ NothingRead
  /\ nostop' = Count(nostop)
  /\ gpc' = IF Second(nostop) THEN "place" ELSE "idle"
  /\ UNCHANGED <<kind, broker, record, flat, sized, g, stuck, told, badList,
                 trail, entry>>

Size(q) == FoldSet(LAMBDA o, s : o.n + s, 0, q)

Alive ==
  /\ gpc = "stops" /\ Read # {}
  /\ g' = [g EXCEPT !.stops = Read] /\ badStops' = FALSE
  /\ IF kind # "orders" THEN gpc' = "learn" /\ UNCHANGED sized
     ELSE IF Size(Read) = g.qty THEN gpc' = "learn" /\ sized' = 0
     ELSE /\ sized' = Count(sized)
          /\ gpc' = IF Second(sized) THEN "cancel" ELSE "learn"
  /\ UNCHANGED <<kind, broker, record, flat, nostop, stuck, told, badList,
                 trail, entry, quirks>>

\* Mutant of Cancel: the new stop is placed beside the old one.
CancelNone ==
  /\ gpc = "cancel"
  /\ gpc' = "resize"
  /\ UNCHANGED <<kind, broker, record, seen, g, stuck, told, badList, badStops,
                 trail, entry, quirks>>

\* Every stop it read is cancelled; one that cannot be is only logged.
Cancel ==
  /\ gpc = "cancel"
  /\ \/ /\ stuck' = FALSE /\ UNCHANGED quirks
        /\ stops' = {o \in stops : \A r \in g.stops : r.id # o.id}
     \/ /\ stuck' = TRUE /\ Happens("stuck")
        /\ \E k \in g.stops :
             stops' = {o \in stops : \A r \in g.stops \ {k} : r.id # o.id}
  /\ gpc' = "resize"
  /\ UNCHANGED <<kind, pos, record, seen, g, told, badList, badStops, trail, entry>>

\* Placing at level p: it works, it fails, or it fails though it worked.
\* ok is what the app is told.
Placed(p, n, ok) ==
  \/ /\ p > 0 /\ (kind = "orders" \/ pos > 0) /\ Unused # {}
     /\ stops' = WithStop(p, n)
     /\ \/ ok = TRUE /\ UNCHANGED quirks
        \/ ok = FALSE /\ Happens("lost")
  \/ /\ ok = FALSE /\ UNCHANGED stops
     /\ \/ (p = 0 \/ (kind # "orders" /\ pos = 0)) /\ UNCHANGED quirks
        \/ Happens("fail")

Resize ==
  /\ gpc = "resize"
  /\ \E r \in g.stops, ok \in BOOLEAN :
       /\ Placed(IF ctx.stop > 0 THEN ctx.stop ELSE r.px, g.qty, ok)
       /\ told' = (told \/ ~ok)
  /\ gpc' = "learn"
  /\ UNCHANGED <<kind, pos, record, seen, g, stuck, badList, badStops, trail, entry>>

\* Mutant of Place: a failure is not told.
PlaceSilent ==
  /\ gpc = "place"
  /\ \E ok \in BOOLEAN :
       /\ Placed(ctx.stop, g.qty, ok)
       /\ nostop' = IF ok THEN 0 ELSE nostop
  /\ gpc' = "idle" /\ g' = NoRead
  /\ UNCHANGED <<kind, pos, record, flat, sized, stuck, told, badList,
                 badStops, trail, entry>>

\* Putting back a stop that was missed twice, at the remembered level.
Place ==
  /\ gpc = "place"
  /\ \E ok \in BOOLEAN :
       /\ Placed(ctx.stop, g.qty, ok)
       /\ nostop' = IF ok THEN 0 ELSE nostop
       /\ told' = (told \/ ~ok)
  /\ gpc' = "idle" /\ g' = NoRead
  /\ UNCHANGED <<kind, pos, record, flat, sized, stuck, badList, badStops,
                 trail, entry>>

\* _learn_seen_stop.  A stop that is not where the app put it was moved by
\* the member: from then on it is the member's.  Else only a tighter one is
\* learned.  The record is written when the level changed.
Learned(c, p) ==
  LET m == c.manual \/ (c.app > 0 /\ p # c.app)
  IN  [c EXCEPT !.manual = m,
                !.stop = IF m \/ p > c.stop THEN p ELSE @]

Learn ==
  /\ gpc = "learn"
  /\ \E r \in g.stops :
       /\ ctx' = Learned(ctx, r.px)
       /\ disk' = IF ctx'.stop # ctx.stop THEN Record(ctx') ELSE disk
  /\ nostop' = 0 /\ told' = FALSE /\ stuck' = FALSE
  /\ gpc' = "idle" /\ g' = NoRead
  /\ UNCHANGED <<kind, broker, open, flat, sized, badList, badStops, trail,
                 entry, quirks>>

-----------------------------------------------------------------------------
(* The trail of a held bitcoin position, in the session-close thread. *)

\* The listed position carries its stop at Bybit, maybe not at Bitget.
TrailLook ==
  /\ tpc = "idle" /\ kind # "orders" /\ pos > 0 /\ epc = "none"
  /\ Happens("trail")
  /\ \E to \in Price, cur \in 0 .. MaxPrice :
       /\ \/ \E o \in stops : cur = o.px
          \/ cur = 0 /\ (stops = {} \/ kind = "plans")
       /\ t' = [cur |-> cur, to |-> to]
  /\ tpc' = "move"
  /\ UNCHANGED <<kind, broker, record, seen, guard, entry>>

\* Never to a looser place, never where the member's hand is remembered.
TrailSkips ==
  /\ tpc = "move"
  /\ (t.cur > 0 /\ t.to < t.cur) \/ ctx.manual
  /\ tpc' = "idle" /\ t' = NoTarget
  /\ UNCHANGED <<kind, broker, record, seen, guard, entry, quirks>>

TrailMoves ==
  /\ tpc = "move"
  /\ t.to >= t.cur /\ ~ctx.manual
  /\ \E ok \in BOOLEAN :
       /\ Placed(t.to, 0, ok)
       /\ tpc' = (IF ok THEN "remember" ELSE "idle")
       /\ t' = IF ok THEN t ELSE NoTarget
  /\ UNCHANGED <<kind, pos, record, seen, guard, entry>>

\* _remember_stop: nothing where nothing is in memory.
TrailRemembers ==
  /\ tpc = "remember"
  /\ tpc' = "idle" /\ t' = NoTarget
  /\ \/ ctx = NoCtx /\ UNCHANGED <<ctx, disk>>
     \/ /\ ctx # NoCtx
        /\ ctx' = [ctx EXCEPT !.stop = t.to, !.app = t.to]
        /\ disk' = Record(ctx')
  /\ UNCHANGED <<kind, broker, open, seen, guard, entry, quirks>>

-----------------------------------------------------------------------------
Query == QueryFails \/ Missing \/ Alive
Guard ==
  \/ Restore \/ ListFails \/ ListFlat \/ ListOpen \/ Drop \/ Report
  \/ TooSoon \/ Query \/ Cancel \/ Resize \/ Place \/ Learn
Enters == NoteFill \/ RememberOpen
Trail == TrailLook \/ TrailSkips \/ TrailMoves \/ TrailRemembers
World ==
  \/ Fill \/ Ends \/ SessionClose \/ Vanish \/ MemberMoves \/ MemberReduces
  \/ Restart

Next == Guard \/ Enters \/ Trail \/ World

Spec == Init /\ [][Next]_vars

\* The heartbeat goes on, 180 seconds pass between two heartbeats that find
\* the position, and the entry's thread finishes.
FairSpec ==
  /\ Spec
  /\ WF_vars(Guard) /\ SF_vars(Query) /\ WF_vars(Enters)

-----------------------------------------------------------------------------
(* Properties. *)

\* What the app knows of the position, in memory or after a restart.
Known == IF ctx # NoCtx THEN ctx ELSE disk

\* "A failed query is not taken for a close, and only two flat answers in a
\* row are reported" (10797-10799): while the broker's list is not wrong
\* twice in a row, no position is dropped or reported closed that is open.
NoFalseClose == gpc \in {"drop", "report"} => pos = 0

\* Once the app has found that the member moved the stop, it knows it as
\* long as the position is open, over restarts too (10711-10713).
HandRemembered ==
  [][Known.life = life /\ Known.manual /\ pos > 0 => Known'.manual]_vars

\* The guard leaves one stop order where it places one, unless the broker
\* refused to cancel the old one: two live stops are the danger named at
\* 10948-10949.
NoStackedStops ==
  [][stops' # stops /\ gpc' # gpc /\ gpc \in {"place", "resize"} =>
       stuck \/ Cardinality(stops') = 1]_vars

\* A watched position without a stop gets one, or the member is told, or it
\* is over (11036-11061).
MissingIsAnswered ==
  open /\ pos > 0 /\ stops = {} /\ Known # NoCtx ~>
    stops # {} \/ told \/ pos = 0

\* "If this is not kept, 'the member's hand comes first' is lost the moment
\* the app restarts and the trail moves the member's stop back"
\* (10711-10713): what is kept must hold the trail off.
HandIsRespected ==
  [][tpc = "move" /\ tpc' = "remember" => ~(Known.life = life /\ Known.manual)]_vars

\* "Does the stop order's size match the position now - if not, it is made
\* to" (10934): a stop order of the wrong size is corrected, or the member
\* is told.
SizeIsAnswered ==
  kind = "orders" /\ open /\ pos > 0 /\ stops # {} /\ Size(stops) # pos
    /\ Known # NoCtx ~>
    Size(stops) = pos \/ stops = {} \/ told \/ pos = 0
=============================================================================
