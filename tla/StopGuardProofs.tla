-------------------------- MODULE StopGuardProofs ---------------------------
(***************************************************************************)
(* Theorems about StopGuard for every bound, every kind of broker and      *)
(* every set of disturbances.                                              *)
(***************************************************************************)
EXTENDS StopGuard, FiniteSetTheorems, TLAPS

USE StopAssumption

\* Every step, by name.
LEMMA Steps ==
  ASSUME Next
  PROVE  \/ Restore \/ ListFails \/ ListFlat \/ ListOpen \/ Drop \/ Report
         \/ TooSoon \/ QueryFails \/ Missing \/ Alive \/ Cancel \/ Resize
         \/ Place \/ Learn \/ NoteFill \/ RememberOpen \/ TrailLook
         \/ TrailSkips \/ TrailMoves \/ TrailRemembers \/ Fill \/ Ends
         \/ SessionClose \/ Vanish \/ MemberMoves \/ MemberReduces \/ Restart
BY DEF Next, Guard, Query, Enters, Trail, World

-----------------------------------------------------------------------------
\* What a placed stop is made of.
LEMMA WithStopType ==
  ASSUME TypeOK, NEW p \in Price, NEW n \in 0 .. Qty, Unused # {}
  PROVE  WithStop(p, n) \subseteq Order
<1>1. \A i \in OrderId, k \in 0 .. Qty : [id |-> i, px |-> p, n |-> k] \in Order
  BY DEF Order
<1>2. (CHOOSE i \in Unused : TRUE) \in OrderId  BY DEF Unused
<1>3. 1 \in OrderId /\ 0 \in 0 .. Qty  BY DEF OrderId
<1>4. CASE kind = "orders"
  BY <1>1, <1>2, <1>4 DEF TypeOK, WithStop
<1>5. CASE kind # "orders"
  BY <1>1, <1>3, <1>5 DEF WithStop
<1>. QED  BY <1>4, <1>5

LEMMA PlacedType ==
  ASSUME TypeOK, NEW p \in 0 .. MaxPrice, NEW n \in 0 .. Qty, NEW ok \in BOOLEAN,
         Placed(p, n, ok)
  PROVE  stops' \subseteq Order /\ quirks' \in 0 .. MaxQuirk
<1>1. p > 0 => p \in Price  BY DEF Price
<1>2. CASE stops' = WithStop(p, n) /\ p > 0 /\ Unused # {}
               /\ (UNCHANGED quirks \/ Happens("lost"))
  BY <1>1, <1>2, WithStopType DEF Happens, TypeOK
<1>3. CASE UNCHANGED stops /\ (UNCHANGED quirks \/ Happens("fail"))
  BY <1>3 DEF Happens, TypeOK
<1>. QED  BY <1>2, <1>3 DEF Placed

\* A reading of the stops is again made of orders.
LEMMA LearnedType ==
  ASSUME NEW c \in Ctx, NEW p \in Price
  PROVE  Learned(c, p) \in Ctx
<1>1. p \in 0 .. MaxPrice  BY DEF Price
<1>. QED  BY <1>1 DEF Learned, Ctx

LEMMA NoCtxType == NoCtx \in Ctx
BY DEF NoCtx, Ctx

\* TypeOK in two parts: truth values and the rest.
Flags ==
  /\ open \in BOOLEAN /\ badList \in BOOLEAN /\ badStops \in BOOLEAN
  /\ stuck \in BOOLEAN /\ told \in BOOLEAN

Values ==
  /\ kind \in Kinds /\ pos \in 0 .. Qty /\ stops \subseteq Order
  /\ ctx \in Ctx /\ disk \in Ctx
  /\ flat \in 0 .. 1 /\ nostop \in -1 .. 1 /\ sized \in -1 .. 1
  /\ gpc \in {"idle", "stops", "cancel", "resize", "learn", "place", "drop", "report"}
  /\ g \in [qty : 0 .. Qty, stops : SUBSET Order]
  /\ tpc \in {"idle", "move", "remember"}
  /\ t \in [cur : 0 .. MaxPrice, to : 0 .. MaxPrice]
  /\ epc \in {"none", "filled", "noted"} /\ px \in 0 .. MaxPrice
  /\ life \in 0 .. MaxLife /\ quirks \in 0 .. MaxQuirk

LEMMA Parts == TypeOK <=> Flags /\ Values
BY DEF TypeOK, Flags, Values

LEMMA InitType == Init => TypeOK
<1>. SUFFICES ASSUME Init PROVE TypeOK  OBVIOUS
<1>1. Flags  BY DEF Init, Flags
<1>2. Values  BY NoCtxType DEF Init, Values, NoRead, NoTarget
<1>. QED  BY <1>1, <1>2, Parts

\* Every step keeps the truth values.
LEMMA NextFlags == TypeOK /\ [Next]_vars => Flags'
<1>. SUFFICES ASSUME Flags, [Next]_vars PROVE Flags'  BY Parts
<1>. USE DEF Flags, broker, record, seen, guard, trail, entry
<1>0. CASE UNCHANGED vars  BY <1>0 DEF vars
<1>1. CASE Restore  BY <1>1 DEF Restore
<1>2. CASE ListFails  BY <1>2 DEF ListFails
<1>3. CASE ListFlat  BY <1>3 DEF ListFlat
<1>4. CASE ListOpen  BY <1>4 DEF ListOpen
<1>5. CASE Drop  BY <1>5 DEF Drop
<1>6. CASE Report  BY <1>6 DEF Report
<1>7. CASE TooSoon  BY <1>7 DEF TooSoon
<1>8. CASE QueryFails  BY <1>8 DEF QueryFails
<1>9. CASE Missing  BY <1>9 DEF Missing, NothingRead
<1>10. CASE Alive  BY <1>10 DEF Alive
<1>11. CASE Cancel  BY <1>11 DEF Cancel
<1>12. CASE Resize  BY <1>12 DEF Resize
<1>13. CASE Place  BY <1>13 DEF Place
<1>14. CASE Learn  BY <1>14 DEF Learn
<1>15. CASE NoteFill  BY <1>15 DEF NoteFill
<1>16. CASE RememberOpen  BY <1>16 DEF RememberOpen
<1>17. CASE TrailLook  BY <1>17 DEF TrailLook
<1>18. CASE TrailSkips  BY <1>18 DEF TrailSkips
<1>19. CASE TrailMoves  BY <1>19 DEF TrailMoves
<1>20. CASE TrailRemembers  BY <1>20 DEF TrailRemembers
<1>21. CASE Fill  BY <1>21 DEF Fill
<1>22. CASE Ends  BY <1>22 DEF Ends
<1>23. CASE SessionClose  BY <1>23 DEF SessionClose
<1>24. CASE Vanish  BY <1>24 DEF Vanish
<1>25. CASE MemberMoves  BY <1>25 DEF MemberMoves
<1>26. CASE MemberReduces  BY <1>26 DEF MemberReduces
<1>27. CASE Restart  BY <1>27 DEF Restart
<1>. QED
  BY <1>0, <1>1, <1>2, <1>3, <1>4, <1>5, <1>6, <1>7, <1>8, <1>9, <1>10, <1>11,
     <1>12, <1>13, <1>14, <1>15, <1>16, <1>17, <1>18, <1>19, <1>20, <1>21,
     <1>22, <1>23, <1>24, <1>25, <1>26, <1>27, Steps

\* Every step keeps the values in their types.
LEMMA NextValues == TypeOK /\ [Next]_vars => Values'
<1>. SUFFICES ASSUME TypeOK, [Next]_vars PROVE Values'  OBVIOUS
<1>. USE DEF TypeOK, Values, broker, record, seen, guard, trail, entry, NoRead, NoTarget
<1>0. CASE UNCHANGED vars  BY <1>0 DEF vars
<1>1. CASE Restore  BY <1>1 DEF Restore
<1>2. CASE ListFails  BY <1>2 DEF ListFails, Happens
<1>3. CASE ListFlat  BY <1>3 DEF ListFlat, Happens
<1>4. CASE ListOpen  BY <1>4 DEF ListOpen
<1>5. CASE Drop  BY <1>5, NoCtxType DEF Drop
<1>6. CASE Report  BY <1>6 DEF Report
<1>7. CASE TooSoon  BY <1>7 DEF TooSoon
<1>8. CASE QueryFails  BY <1>8 DEF QueryFails, Happens
<1>9. CASE Missing  BY <1>9 DEF Missing, NothingRead, Happens, Count
<1>10. CASE Alive  BY <1>10 DEF Alive, Read, Count
<1>11. CASE Cancel  BY <1>11 DEF Cancel, Happens
<1>12. CASE Resize
  <2>1. PICK r \in g.stops, ok \in BOOLEAN :
          /\ Placed(IF ctx.stop > 0 THEN ctx.stop ELSE r.px, g.qty, ok)
          /\ told' = (told \/ ~ok)
    BY <1>12 DEF Resize
  <2>2. (IF ctx.stop > 0 THEN ctx.stop ELSE r.px) \in 0 .. MaxPrice
    BY DEF Ctx, Order, Price
  <2>3. stops' \subseteq Order /\ quirks' \in 0 .. MaxQuirk
    BY <2>1, <2>2, PlacedType
  <2>. QED  BY <1>12, <2>1, <2>3 DEF Resize
<1>13. CASE Place
  <2>1. PICK ok \in BOOLEAN :
          /\ Placed(ctx.stop, g.qty, ok)
          /\ nostop' = IF ok THEN 0 ELSE nostop
          /\ told' = (told \/ ~ok)
    BY <1>13 DEF Place
  <2>2. stops' \subseteq Order /\ quirks' \in 0 .. MaxQuirk
    BY <2>1, PlacedType DEF Ctx
  <2>. QED  BY <1>13, <2>1, <2>2 DEF Place
<1>14. CASE Learn
  <2>1. PICK r \in g.stops :
          /\ ctx' = Learned(ctx, r.px)
          /\ disk' = IF ctx'.stop # ctx.stop THEN Record(ctx') ELSE disk
    BY <1>14 DEF Learn
  <2>2. ctx' \in Ctx  BY <2>1, LearnedType DEF Order
  <2>. QED  BY <1>14, <2>1, <2>2 DEF Learn, Record
<1>15. CASE NoteFill  BY <1>15 DEF NoteFill
<1>16. CASE RememberOpen  BY <1>16 DEF RememberOpen, Record, Ctx
<1>17. CASE TrailLook
  BY <1>17 DEF TrailLook, Happens, Price
<1>18. CASE TrailSkips  BY <1>18 DEF TrailSkips
<1>19. CASE TrailMoves
  <2>1. PICK ok \in BOOLEAN :
          /\ Placed(t.to, 0, ok)
          /\ tpc' = (IF ok THEN "remember" ELSE "idle")
          /\ t' = IF ok THEN t ELSE NoTarget
    BY <1>19 DEF TrailMoves
  <2>2. stops' \subseteq Order /\ quirks' \in 0 .. MaxQuirk
    BY <2>1, PlacedType
  <2>. QED  BY <1>19, <2>1, <2>2 DEF TrailMoves
<1>20. CASE TrailRemembers
  <2>1. [ctx EXCEPT !.stop = t.to, !.app = t.to] \in Ctx  BY DEF Ctx
  <2>2. ctx' \in Ctx /\ disk' \in Ctx  BY <1>20, <2>1 DEF TrailRemembers, Record
  <2>. QED  BY <1>20, <2>2 DEF TrailRemembers
<1>21. CASE Fill
  <2>1. px' \in 0 .. MaxPrice /\ pos' \in 0 .. Qty  BY <1>21 DEF Fill
  <2>2. stops' \subseteq Order
    <3>1. px' > 0 => px' \in Price  BY <2>1 DEF Price
    <3>. QED  BY <1>21, <3>1, WithStopType DEF Fill
  <2>. QED  BY <1>21, <2>1, <2>2 DEF Fill
<1>22. CASE Ends  BY <1>22 DEF Ends
<1>23. CASE SessionClose  BY <1>23 DEF SessionClose
<1>24. CASE Vanish  BY <1>24 DEF Vanish, Happens
<1>25. CASE MemberMoves
  <2>1. stops' \subseteq Order  BY <1>25 DEF MemberMoves, Order
  <2>. QED  BY <1>25, <2>1 DEF MemberMoves, Happens
<1>26. CASE MemberReduces  BY <1>26 DEF MemberReduces, Happens
<1>27. CASE Restart  BY <1>27, NoCtxType DEF Restart, Happens
<1>. QED
  BY <1>0, <1>1, <1>2, <1>3, <1>4, <1>5, <1>6, <1>7, <1>8, <1>9, <1>10, <1>11,
     <1>12, <1>13, <1>14, <1>15, <1>16, <1>17, <1>18, <1>19, <1>20, <1>21,
     <1>22, <1>23, <1>24, <1>25, <1>26, <1>27, Steps

\* The type invariant survives every step.
LEMMA NextType == TypeOK /\ [Next]_vars => TypeOK'
<1>. SUFFICES ASSUME TypeOK, [Next]_vars PROVE TypeOK'  OBVIOUS
<1>1. Flags' /\ Values'  BY NextFlags, NextValues
<1>. QED  BY <1>1 DEF TypeOK, Flags, Values

\* Every variable keeps its type (StopGuard, TypeOK).
THEOREM TypeCorrect == Spec => []TypeOK
BY InitType, NextType, PTL DEF Spec

-----------------------------------------------------------------------------
(* No open position is dropped. *)

\* One flat list of an open position was the wrong one, so that the next is
\* right; and what is about to be dropped is gone.
FlatRow ==
  /\ pos > 0 /\ flat = 1 /\ epc = "none" => badList
  /\ NoFalseClose

LEMMA InitFlat == Init => FlatRow
BY DEF Init, FlatRow, NoFalseClose

LEMMA NextFlat == TypeOK /\ FlatRow /\ [Next]_vars => FlatRow'
<1>. SUFFICES ASSUME TypeOK, FlatRow, [Next]_vars PROVE FlatRow'  OBVIOUS
<1>t. pos \in Nat /\ flat \in 0 .. 1 /\ badList \in BOOLEAN  BY DEF TypeOK
<1>. USE DEF FlatRow, NoFalseClose, broker, record, seen, guard, trail, entry
<1>0. CASE UNCHANGED vars  BY <1>0 DEF vars
<1>1. CASE Restore  BY <1>1 DEF Restore
<1>2. CASE ListFails  BY <1>2 DEF ListFails, Looks
<1>3. CASE ListFlat  BY <1>3, <1>t DEF ListFlat, Looks
<1>4. CASE ListOpen  BY <1>4 DEF ListOpen
<1>5. CASE Drop  BY <1>5 DEF Drop
<1>6. CASE Report  BY <1>6 DEF Report
<1>7. CASE TooSoon  BY <1>7 DEF TooSoon
<1>8. CASE QueryFails  BY <1>8 DEF QueryFails
<1>9. CASE Missing  BY <1>9 DEF Missing
<1>10. CASE Alive  BY <1>10 DEF Alive
<1>11. CASE Cancel  BY <1>11 DEF Cancel
<1>12. CASE Resize  BY <1>12 DEF Resize
<1>13. CASE Place  BY <1>13 DEF Place
<1>14. CASE Learn  BY <1>14 DEF Learn
<1>15. CASE NoteFill  BY <1>15 DEF NoteFill
<1>16. CASE RememberOpen  BY <1>16 DEF RememberOpen
<1>17. CASE TrailLook  BY <1>17 DEF TrailLook
<1>18. CASE TrailSkips  BY <1>18 DEF TrailSkips
<1>19. CASE TrailMoves  BY <1>19 DEF TrailMoves
<1>20. CASE TrailRemembers  BY <1>20 DEF TrailRemembers
<1>21. CASE Fill  BY <1>21 DEF Fill
<1>22. CASE Ends  BY <1>22 DEF Ends
<1>23. CASE SessionClose  BY <1>23 DEF SessionClose
<1>24. CASE Vanish  BY <1>24 DEF Vanish
<1>25. CASE MemberMoves  BY <1>25 DEF MemberMoves
<1>26. CASE MemberReduces
  <2>1. pos > 1 /\ pos' = pos - 1  BY <1>26 DEF MemberReduces
  <2>. QED  BY <1>26, <1>t, <2>1 DEF MemberReduces
<1>27. CASE Restart  BY <1>27 DEF Restart
<1>. QED
  BY <1>0, <1>1, <1>2, <1>3, <1>4, <1>5, <1>6, <1>7, <1>8, <1>9, <1>10, <1>11,
     <1>12, <1>13, <1>14, <1>15, <1>16, <1>17, <1>18, <1>19, <1>20, <1>21,
     <1>22, <1>23, <1>24, <1>25, <1>26, <1>27, Steps

\* What the guard drops and reports closed is closed (StopGuard,
\* NoFalseClose; eqgui.py 10797-10799).
THEOREM ClosedIsClosed == Spec => []NoFalseClose
<1>1. FlatRow => NoFalseClose  BY DEF FlatRow
<1>. QED  BY <1>1, InitFlat, NextFlat, TypeCorrect, PTL DEF Spec

-----------------------------------------------------------------------------
(* The member's hand is not forgotten. *)

\* The file says what memory says; the level is the app's own until the hand
\* is found; the guard works with a record; every record is of an entry, and
\* of one before while the tail of an entry is under way.
OwnLevel(c) == c.app > 0 /\ ~c.manual => c.stop = c.app

RecordKept ==
  /\ ctx # NoCtx => disk = ctx
  /\ OwnLevel(ctx) /\ OwnLevel(disk)
  /\ gpc \notin {"idle", "report"} => ctx # NoCtx
  /\ (ctx # NoCtx => ctx.life > 0) /\ (disk # NoCtx => disk.life > 0)
  /\ ctx.life <= life /\ disk.life <= life
  /\ epc # "none" => ctx.life < life /\ disk.life < life

LEMMA InitKept == Init => RecordKept
BY DEF Init, RecordKept, OwnLevel, NoCtx

\* A level is learned only together with the hand.
LEMMA LearnedKept ==
  ASSUME NEW c \in Ctx, NEW p \in Price, OwnLevel(c)
  PROVE  /\ OwnLevel(Learned(c, p)) /\ Learned(c, p).life = c.life
         /\ c.manual => Learned(c, p).manual
         /\ Learned(c, p).stop = c.stop => Learned(c, p) = c
<1>. DEFINE m == c.manual \/ (c.app > 0 /\ p # c.app)
            s == IF m \/ p > c.stop THEN p ELSE c.stop
            d == Learned(c, p)
<1>1. d = [[c EXCEPT !.manual = m] EXCEPT !.stop = s]
  BY DEF Learned, Ctx
<1>2. d.life = c.life /\ d.app = c.app /\ d.manual = m /\ d.stop = s
  BY <1>1 DEF Ctx
<1>3. c.stop \in Nat /\ c.app \in Nat /\ p \in Nat
  BY DEF Ctx, Price
<1>4. ~m /\ c.app > 0 => s = c.app  BY <1>3 DEF OwnLevel
<1>5. s = c.stop => (m => c.manual)  BY <1>3 DEF OwnLevel
<1>6. OwnLevel(d)
  <2>. HIDE DEF m, s, d
  <2>. QED  BY <1>2, <1>4 DEF OwnLevel
<1>7. ASSUME d.stop = c.stop PROVE d = c
  <2>1. s = c.stop /\ (m <=> c.manual)  BY <1>2, <1>5, <1>7
  <2>2. m = c.manual  BY <2>1 DEF Ctx
  <2>. HIDE DEF m, s, d
  <2>3. d = [[c EXCEPT !.manual = c.manual] EXCEPT !.stop = c.stop]
    BY <1>1, <2>1, <2>2, Zenon
  <2>. QED  BY <2>3 DEF Ctx
<1>8. c.manual => d.manual  BY <1>2
<1>. QED  BY <1>2, <1>6, <1>7, <1>8

LEMMA NextKept == TypeOK /\ RecordKept /\ [Next]_vars => RecordKept'
<1>. SUFFICES ASSUME TypeOK, RecordKept, [Next]_vars PROVE RecordKept'  OBVIOUS
<1>t. /\ ctx \in Ctx /\ disk \in Ctx /\ life \in Nat
      /\ ctx.life \in Nat /\ disk.life \in Nat
  BY DEF TypeOK, Ctx
<1>n. OwnLevel(NoCtx) /\ NoCtx.life = 0  BY DEF OwnLevel, NoCtx
<1>. USE DEF RecordKept, broker, record, seen, guard, trail, entry
<1>0. CASE UNCHANGED vars  BY <1>0 DEF vars, OwnLevel
<1>1. CASE Restore  BY <1>1 DEF Restore, OwnLevel
<1>2. CASE ListFails  BY <1>2 DEF ListFails, OwnLevel
<1>3. CASE ListFlat  BY <1>3 DEF ListFlat, Looks, OwnLevel
<1>4. CASE ListOpen  BY <1>4 DEF ListOpen, Looks, OwnLevel
<1>5. CASE Drop
  <2>1. epc # "none" => 0 < life  BY <1>t
  <2>. QED  BY <1>5, <1>t, <1>n, <2>1 DEF Drop
<1>6. CASE Report  BY <1>6 DEF Report, OwnLevel
<1>7. CASE TooSoon  BY <1>7 DEF TooSoon, OwnLevel
<1>8. CASE QueryFails  BY <1>8 DEF QueryFails, OwnLevel
<1>9. CASE Missing  BY <1>9 DEF Missing, OwnLevel
<1>10. CASE Alive  BY <1>10 DEF Alive, OwnLevel
<1>11. CASE Cancel  BY <1>11 DEF Cancel, OwnLevel
<1>12. CASE Resize  BY <1>12 DEF Resize, OwnLevel
<1>13. CASE Place  BY <1>13 DEF Place, OwnLevel
<1>14. CASE Learn
  <2>1. PICK r \in g.stops :
          /\ ctx' = Learned(ctx, r.px)
          /\ disk' = IF ctx'.stop # ctx.stop THEN Record(ctx') ELSE disk
    BY <1>14 DEF Learn
  <2>2. r.px \in Price /\ ctx # NoCtx  BY <1>14 DEF Learn, TypeOK, Order
  <2>3. /\ OwnLevel(ctx') /\ ctx'.life = ctx.life
        /\ ctx'.stop = ctx.stop => ctx' = ctx
    BY <1>t, <2>1, <2>2, LearnedKept
  <2>4. disk' = ctx'  BY <2>1, <2>2, <2>3 DEF Record
  <2>5. ctx' # NoCtx  BY <1>n, <2>2, <2>3
  <2>. QED  BY <1>14, <2>2, <2>3, <2>4, <2>5 DEF Learn
<1>15. CASE NoteFill  BY <1>15 DEF NoteFill, OwnLevel
<1>16. CASE RememberOpen
  <2>1. ctx' = [life |-> life, stop |-> px, app |-> px, manual |-> FALSE]
        /\ disk' = ctx' /\ life' = life /\ epc' = "none" /\ gpc' = gpc
    BY <1>16 DEF RememberOpen, Record
  <2>2. 0 < life /\ epc = "noted"  BY <1>16, <1>t DEF RememberOpen
  <2>3. OwnLevel(ctx') /\ ctx'.life = life /\ ctx' # NoCtx
    BY <1>t, <2>1, <2>2 DEF OwnLevel, NoCtx
  <2>4. OwnLevel(disk') /\ disk'.life = life  BY <2>1, <2>3
  <2>. QED  BY <1>t, <2>1, <2>2, <2>3, <2>4
<1>17. CASE TrailLook  BY <1>17 DEF TrailLook, OwnLevel
<1>18. CASE TrailSkips  BY <1>18 DEF TrailSkips, OwnLevel
<1>19. CASE TrailMoves  BY <1>19 DEF TrailMoves, OwnLevel
<1>20. CASE TrailRemembers
  <2>1. CASE ctx = NoCtx /\ UNCHANGED <<ctx, disk>>
    BY <1>20, <2>1 DEF TrailRemembers, OwnLevel
  <2>2. CASE ctx # NoCtx /\ ctx' = [ctx EXCEPT !.stop = t.to, !.app = t.to]
             /\ disk' = ctx'
    <3>1. OwnLevel(ctx') /\ ctx'.life = ctx.life
      BY <1>t, <2>2 DEF OwnLevel, Ctx
    <3>2. disk.life = ctx.life  BY <2>2
    <3>3. gpc' = gpc /\ epc' = epc /\ life' = life  BY <1>20 DEF TrailRemembers
    <3>4. ctx' # NoCtx
      <4>1. ctx.life > 0 /\ ctx'.life = ctx.life  BY <2>2, <3>1
      <4>. HIDE DEF RecordKept
      <4>2. ctx'.life # NoCtx.life  BY <1>n, <4>1
      <4>. QED  BY <4>2
    <3>5. OwnLevel(disk') /\ disk'.life = ctx.life  BY <2>2, <3>1
    <3>. QED  BY <1>t, <2>2, <3>1, <3>2, <3>3, <3>4, <3>5
  <2>. QED  BY <1>20, <2>1, <2>2 DEF TrailRemembers, Record
<1>21. CASE Fill  BY <1>21, <1>t DEF Fill, OwnLevel
<1>22. CASE Ends  BY <1>22 DEF Ends, OwnLevel
<1>23. CASE SessionClose  BY <1>23 DEF SessionClose, OwnLevel
<1>24. CASE Vanish  BY <1>24 DEF Vanish, OwnLevel
<1>25. CASE MemberMoves  BY <1>25 DEF MemberMoves, OwnLevel
<1>26. CASE MemberReduces  BY <1>26 DEF MemberReduces, OwnLevel
<1>27. CASE Restart  BY <1>27, <1>t, <1>n DEF Restart
<1>. QED
  BY <1>0, <1>1, <1>2, <1>3, <1>4, <1>5, <1>6, <1>7, <1>8, <1>9, <1>10, <1>11,
     <1>12, <1>13, <1>14, <1>15, <1>16, <1>17, <1>18, <1>19, <1>20, <1>21,
     <1>22, <1>23, <1>24, <1>25, <1>26, <1>27, Steps

\* What is known of the member's hand outlives every step, restarts too,
\* while the position is open (StopGuard, HandRemembered; eqgui.py
\* 10711-10713).
THEOREM HandKept == Spec => HandRemembered
<1>1. TypeOK /\ TypeOK' /\ FlatRow /\ RecordKept /\ RecordKept' /\ [Next]_vars =>
        [Known.life = life /\ Known.manual /\ pos > 0 => Known'.manual]_vars
  <2>. SUFFICES ASSUME TypeOK, FlatRow, RecordKept, RecordKept', Next,
                       Known.life = life, Known.manual, pos > 0
                PROVE  Known'.manual
    BY DEF vars
  <2>n. NoCtx.manual = FALSE /\ NoCtx.life = 0  BY DEF NoCtx
  <2>k. Known = disk  BY DEF Known, RecordKept
  <2>t. ctx \in Ctx /\ pos \in Nat /\ disk # NoCtx  BY <2>k, <2>n DEF TypeOK
  <2>1. CASE UNCHANGED <<ctx, disk>>  BY <2>1, <2>k DEF Known, RecordKept
  <2>2. CASE Restore  BY <2>2, <2>k DEF Restore, Known
  <2>3. CASE Drop  BY <2>3, <2>t DEF Drop, FlatRow, NoFalseClose
  <2>4. CASE Learn
    <3>1. ctx # NoCtx  BY <2>4 DEF Learn, RecordKept
    <3>2. PICK r \in g.stops : ctx' = Learned(ctx, r.px)  BY <2>4 DEF Learn
    <3>3. r.px \in Price  BY DEF TypeOK, Order
    <3>4. ctx.manual  BY <3>1 DEF Known
    <3>5. ctx'.manual  BY <2>t, <3>2, <3>3, <3>4, LearnedKept DEF RecordKept
    <3>6. ctx' # NoCtx  BY <3>5, <2>n
    <3>. QED  BY <3>5, <3>6 DEF Known
  <2>5. CASE RememberOpen  BY <2>5, <2>k, <2>t DEF RememberOpen, RecordKept, TypeOK
  <2>6. CASE TrailRemembers
    <3>1. CASE ctx = NoCtx  BY <2>1, <2>6, <3>1 DEF TrailRemembers
    <3>2. CASE ctx # NoCtx
      <4>1. ctx' = [ctx EXCEPT !.stop = t.to, !.app = t.to]
        BY <2>6, <3>2 DEF TrailRemembers
      <4>2. ctx.manual  BY <3>2 DEF Known
      <4>3. ctx'.manual  BY <2>t, <4>1, <4>2 DEF Ctx
      <4>. QED  BY <2>n, <4>3 DEF Known
    <3>. QED  BY <3>1, <3>2
  <2>7. CASE Restart  BY <2>7, <2>k DEF Restart, Known
  <2>. QED
    BY <2>1, <2>2, <2>3, <2>4, <2>5, <2>6, <2>7, Steps
    DEF ListFails, ListFlat, ListOpen, Report, TooSoon, QueryFails, Missing,
        Alive, Cancel, Resize, Place, NoteFill, TrailLook, TrailSkips,
        TrailMoves, Fill, Ends, SessionClose, Vanish, MemberMoves,
        MemberReduces, record
<1>. QED
  BY <1>1, TypeCorrect, InitFlat, NextFlat, InitKept, NextKept, PTL
  DEF Spec, HandRemembered

-----------------------------------------------------------------------------
(* The guard leaves one stop order where it places one. *)

\* A stop order that was missed once is gone or was hidden by the query, so
\* that what is missed twice is gone; and what a correction is about to cancel
\* is all there is.  Only the other brokers, where a new stop takes the place of
\* the old one, have a trail.
StopsRow ==
  kind = "orders" =>
    /\ tpc = "idle"
    /\ nostop = 1 /\ epc = "none" /\ gpc \notin {"learn", "cancel", "resize"} =>
         stops = {} \/ badStops
    /\ gpc = "place" => nostop # 1 /\ stops = {}
    /\ gpc = "cancel" => \A o \in stops : \E r \in g.stops : r.id = o.id
    /\ gpc = "resize" => stuck \/ stops = {}

OrdersOnly == gpc \in {"cancel", "resize"} => kind = "orders"

LEMMA InitStops == Init => StopsRow /\ OrdersOnly
BY DEF Init, StopsRow, OrdersOnly

LEMMA NextStops ==
  TypeOK /\ StopsRow /\ OrdersOnly /\ [Next]_vars => StopsRow' /\ OrdersOnly'
<1>. SUFFICES ASSUME TypeOK, StopsRow, OrdersOnly, [Next]_vars
              PROVE  StopsRow' /\ OrdersOnly'
  OBVIOUS
<1>t. /\ stops \subseteq Order /\ nostop \in -1 .. 1
      /\ g \in [qty : 0 .. Qty, stops : SUBSET Order]
  BY DEF TypeOK
<1>. USE DEF StopsRow, OrdersOnly, broker, record, seen, guard, trail, entry
<1>0. CASE UNCHANGED vars  BY <1>0 DEF vars
<1>1. CASE Restore  BY <1>1 DEF Restore
<1>2. CASE ListFails  BY <1>2 DEF ListFails, Looks
<1>3. CASE ListFlat  BY <1>3 DEF ListFlat, Looks
<1>4. CASE ListOpen  BY <1>4 DEF ListOpen, Looks
<1>5. CASE Drop  BY <1>5 DEF Drop
<1>6. CASE Report  BY <1>6 DEF Report
<1>7. CASE TooSoon  BY <1>7 DEF TooSoon
<1>8. CASE QueryFails  BY <1>8 DEF QueryFails
<1>9. CASE Missing
  <2>1. kind = "orders" => Read = stops  BY DEF Read
  <2>2. CASE Second(nostop)
    <3>1. nostop = 1 /\ nostop' = -1 /\ gpc' = "place" /\ gpc = "stops"
      BY <1>9, <2>2 DEF Missing, Second, Count
    <3>2. kind = "orders" => stops = {}
      BY <1>9, <2>1, <3>1 DEF Missing, NothingRead
    <3>. QED  BY <1>9, <3>1, <3>2 DEF Missing
  <2>3. CASE ~Second(nostop)
    <3>1. gpc' = "idle" /\ (kind = "orders" => stops = {} \/ badStops')
      BY <1>9, <2>1, <2>3 DEF Missing, NothingRead
    <3>. QED  BY <1>9, <3>1 DEF Missing
  <2>. QED  BY <2>2, <2>3
<1>10. CASE Alive
  <2>1. kind = "orders" => g'.stops = stops
    BY <1>10, <1>t DEF Alive, Read
  <2>2. gpc' \in {"learn", "cancel"} /\ (gpc' = "cancel" => kind = "orders")
    BY <1>10 DEF Alive
  <2>. QED  BY <1>10, <2>1, <2>2 DEF Alive
<1>11. CASE Cancel
  <2>1. stuck' \/ stops' = {}
    BY <1>11 DEF Cancel
  <2>. QED  BY <1>11, <2>1 DEF Cancel
<1>12. CASE Resize  BY <1>12 DEF Resize
<1>13. CASE Place
  <2>1. gpc = "place" /\ gpc' = "idle" /\ (nostop' = 0 \/ nostop' = nostop)
    BY <1>13 DEF Place
  <2>. QED  BY <1>13, <2>1 DEF Place
<1>14. CASE Learn  BY <1>14 DEF Learn
<1>15. CASE NoteFill  BY <1>15 DEF NoteFill
<1>16. CASE RememberOpen  BY <1>16 DEF RememberOpen
<1>17. CASE TrailLook  BY <1>17 DEF TrailLook
<1>18. CASE TrailSkips  BY <1>18 DEF TrailSkips
<1>19. CASE TrailMoves  BY <1>19 DEF TrailMoves
<1>20. CASE TrailRemembers  BY <1>20 DEF TrailRemembers
<1>21. CASE Fill  BY <1>21 DEF Fill
<1>22. CASE Ends  BY <1>22 DEF Ends
<1>23. CASE SessionClose  BY <1>23 DEF SessionClose
<1>24. CASE Vanish  BY <1>24 DEF Vanish
<1>25. CASE MemberMoves
  <2>1. PICK o \in stops, p \in Price :
          stops' = (stops \ {o}) \union {[o EXCEPT !.px = p]}
    BY <1>25 DEF MemberMoves
  <2>2. [o EXCEPT !.px = p].id = o.id  BY <1>t DEF Order
  <2>3. stops # {}  BY <2>1
  <2>. QED  BY <1>25, <2>1, <2>2, <2>3 DEF MemberMoves
<1>26. CASE MemberReduces  BY <1>26 DEF MemberReduces
<1>27. CASE Restart  BY <1>27 DEF Restart
<1>. QED
  BY <1>0, <1>1, <1>2, <1>3, <1>4, <1>5, <1>6, <1>7, <1>8, <1>9, <1>10, <1>11,
     <1>12, <1>13, <1>14, <1>15, <1>16, <1>17, <1>18, <1>19, <1>20, <1>21,
     <1>22, <1>23, <1>24, <1>25, <1>26, <1>27, Steps

\* Where nothing is left, or a new stop takes the place of the old one, a stop
\* that is placed is the only one.
LEMMA PlacedOne ==
  ASSUME NEW p, NEW n, NEW ok, Placed(p, n, ok), stops' # stops,
         kind = "orders" => stops = {}
  PROVE  Cardinality(stops') = 1
<1>1. stops' = WithStop(p, n)
  BY DEF Placed
<1>2. PICK o : stops' = {o}
  BY <1>1, Zenon DEF WithStop
<1>. QED  BY <1>2, FS_Singleton

\* Where the guard places a stop it is the only one, unless the broker refused
\* to cancel the old one (StopGuard, NoStackedStops; eqgui.py 10948-10949).
THEOREM OneStop == Spec => NoStackedStops
<1>1. TypeOK /\ StopsRow /\ OrdersOnly /\ [Next]_vars =>
        [stops' # stops /\ gpc' # gpc /\ gpc \in {"place", "resize"} =>
           stuck \/ Cardinality(stops') = 1]_vars
  <2>. SUFFICES ASSUME StopsRow, OrdersOnly, Next,
                       stops' # stops, gpc' # gpc, gpc \in {"place", "resize"}, ~stuck
                PROVE  Cardinality(stops') = 1
    BY DEF vars
  <2>e. kind = "orders" => stops = {}  BY DEF StopsRow
  <2>1. CASE Resize
    <3>1. PICK r \in g.stops, ok \in BOOLEAN :
            Placed(IF ctx.stop > 0 THEN ctx.stop ELSE r.px, g.qty, ok)
      BY <2>1 DEF Resize
    <3>. QED  BY <2>e, <3>1, PlacedOne
  <2>2. CASE Place
    <3>1. PICK ok \in BOOLEAN : Placed(ctx.stop, g.qty, ok)
      BY <2>2 DEF Place
    <3>. QED  BY <2>e, <3>1, PlacedOne
  <2>. QED
    BY <2>1, <2>2, Steps
    DEF Restore, ListFails, ListFlat, ListOpen, Looks, Drop, Report, TooSoon, QueryFails,
        Missing, Alive, Cancel, Learn, NoteFill, RememberOpen, TrailLook, TrailSkips,
        TrailMoves, TrailRemembers, Fill, Ends, SessionClose, Vanish, MemberMoves,
        MemberReduces, Restart, broker, guard, trail
<1>. QED
  BY <1>1, TypeCorrect, InitStops, NextStops, PTL DEF Spec, NoStackedStops
=============================================================================
