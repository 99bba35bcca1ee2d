---------------------------- MODULE ArmingProofs -----------------------------
(***************************************************************************)
(* What holds of the armed rows for any assets, accounts, bounds and gates:*)
(* every row that takes signals has its close, on an account whose         *)
(* connection was tested, and what the member stopped stays stopped.       *)
(***************************************************************************)
EXTENDS Arming, SequenceTheorems, FiniteSetTheorems, TLAPS

\* arms is a record of the five fields.
Shape(st) ==
  st = [sig |-> st.sig, auto |-> st.auto, parked |-> st.parked, watch |-> st.watch,
        ctx |-> st.ctx]

Agrees(f, g) == \A k \in DOMAIN f : k \in DOMAIN g => f[k] = g[k]

\* A row for signals is a row for the close; a parked row that still has its
\* close has it on the same account.
Covered(st) ==
  /\ \A k \in DOMAIN st.sig : k \in DOMAIN st.auto /\ st.auto[k] = st.sig[k]
  /\ Agrees(st.parked, st.auto)

LEMMA NoneIsEmpty == DOMAIN None = {}
  BY DEF None

LEMMA OverIs ==
  ASSUME NEW f, NEW g
  PROVE  /\ DOMAIN Over(f, g) = DOMAIN f \union DOMAIN g
         /\ \A k \in DOMAIN f : Over(f, g)[k] = f[k]
         /\ \A k \in DOMAIN g \ DOMAIN f : Over(f, g)[k] = g[k]
  BY DEF Over

LEMMA RestrictIs ==
  ASSUME NEW f, NEW S
  PROVE  /\ DOMAIN Restrict(f, S) = S
         /\ \A k \in S : Restrict(f, S)[k] = f[k]
  BY DEF Restrict

LEMMA RekeyIs ==
  ASSUME NEW f, NEW a, NEW i
  PROVE  /\ \A k \in DOMAIN Rekey(f, a, i) : k \in Key
         /\ \A k \in Key :
              LET o == IF k[1] = a /\ k[2] >= i THEN <<a, k[2] + 1>> ELSE k IN
              /\ o[1] = k[1]
              /\ k \in DOMAIN Rekey(f, a, i) <=> o \in DOMAIN f
              /\ k \in DOMAIN Rekey(f, a, i) => Rekey(f, a, i)[k] = f[o]
  BY DEF Rekey

-----------------------------------------------------------------------------
(* The permission. *)

\* What _apply_gating makes of the rows.
LEMMA DroppedIs ==
  ASSUME NEW st, Shape(st)
  PROVE  LET d == Dropped(st) IN
         /\ Shape(d)
         /\ d.sig = (IF MayUse THEN st.sig ELSE None)
         /\ d.auto = (IF MayUse \/ Fallback THEN st.auto ELSE None)
         /\ d.parked = st.parked \/ d.parked = Over(st.sig, st.parked)
<1> DEFINE w == IF st.sig # None /\ MayUse THEN ~MayEnter ELSE st.watch
           c == IF st.sig # None /\ MayEnter /\ st.watch /\ st.ctx # "" THEN "auto" ELSE st.ctx
           p == IF st.sig # None /\ ~MayUse THEN Park(st) ELSE st.parked
           s == IF MayUse THEN st.sig ELSE None
           a == IF MayUse \/ Fallback THEN st.auto ELSE None
<1>1. Dropped(st) = [st EXCEPT !.parked = p, !.sig = s, !.watch = w, !.ctx = c, !.auto = a]
  BY Zenon DEF Dropped
<1>2. p = st.parked \/ p = Over(st.sig, st.parked)
  BY DEF Park
<1> HIDE DEF w, c, p, s, a
<1>3. Dropped(st) = [sig |-> s, auto |-> a, parked |-> p, watch |-> w, ctx |-> c]
  BY <1>1 DEF Shape
<1>4. /\ Dropped(st).sig = s /\ Dropped(st).auto = a /\ Dropped(st).parked = p
      /\ Dropped(st).watch = w /\ Dropped(st).ctx = c
  BY <1>3
<1>5. Shape(Dropped(st))
  BY <1>3, <1>4 DEF Shape
<1> QED BY <1>2, <1>4, <1>5 DEF s, a

LEMMA DroppedCovers ==
  ASSUME NEW st, Shape(st), Covered(st)
  PROVE  Shape(Dropped(st)) /\ Covered(Dropped(st))
<1> DEFINE d == Dropped(st)
<1>1. /\ Shape(d)
      /\ d.sig = (IF MayUse THEN st.sig ELSE None)
      /\ d.auto = (IF MayUse \/ Fallback THEN st.auto ELSE None)
      /\ d.parked = st.parked \/ d.parked = Over(st.sig, st.parked)
  BY DroppedIs
<1> HIDE DEF d
<1>2. Agrees(Over(st.sig, st.parked), st.auto)
  <2> SUFFICES ASSUME NEW k \in DOMAIN Over(st.sig, st.parked), k \in DOMAIN st.auto
               PROVE  Over(st.sig, st.parked)[k] = st.auto[k]
    BY DEF Agrees
  <2> DEFINE f == st.sig  g == st.parked
  <2>0. /\ DOMAIN Over(f, g) = DOMAIN f \union DOMAIN g
        /\ \A x \in DOMAIN f : Over(f, g)[x] = f[x]
        /\ \A x \in DOMAIN g \ DOMAIN f : Over(f, g)[x] = g[x]
    <3> HIDE DEF f, g
    <3> QED BY OverIs
  <2>1. CASE k \in DOMAIN st.sig
    BY <2>1, <2>0 DEF Covered
  <2>2. CASE k \in DOMAIN st.parked \ DOMAIN st.sig
    BY <2>2, <2>0 DEF Covered, Agrees
  <2> QED BY <2>1, <2>2, <2>0
<1>3. Agrees(d.parked, st.auto)
  BY <1>1, <1>2 DEF Covered
<1>4. Agrees(d.parked, d.auto)
  BY <1>1, <1>3, NoneIsEmpty DEF Agrees
<1>5. \A k \in DOMAIN d.sig : k \in DOMAIN d.auto /\ d.auto[k] = d.sig[k]
  BY <1>1, NoneIsEmpty DEF Covered
<1> QED BY <1>1, <1>4, <1>5 DEF Covered, d

LEMMA KeptIs ==
  ASSUME NEW st
  PROVE  \A k \in DOMAIN Kept(st) :
           k \in DOMAIN st.parked /\ k \in DOMAIN st.auto /\ Kept(st)[k] = st.parked[k]
<1> DEFINE S == {k \in DOMAIN st.parked : k \in DOMAIN st.auto /\ k[1] \in include}
<1>1. Kept(st) = Restrict(st.parked, S)
  BY DEF Kept
<1>2. DOMAIN Kept(st) = S /\ \A k \in S : Kept(st)[k] = st.parked[k]
  BY <1>1, RestrictIs
<1> QED BY <1>2

\* A gating changes the close only by dropping it whole.
LEMMA GatedIs ==
  ASSUME NEW st, Shape(st), Covered(st)
  PROVE  /\ Shape(Gated(st)) /\ Covered(Gated(st))
         /\ Gated(st).auto = st.auto \/ Gated(st).auto = None
<1> DEFINE d == Dropped(st)
<1>1. Shape(d) /\ Covered(d)
  BY DroppedCovers
<1>2. d.auto = st.auto \/ d.auto = None
  BY DroppedIs
<1>3. \/ Gated(st) = d
      \/ Gated(st) = [d EXCEPT !.parked = None]
      \/ Gated(st) = Resumed(d)
  BY DEF Gated
<1> HIDE DEF d
<1>4. ASSUME Gated(st) = [d EXCEPT !.parked = None]
      PROVE  /\ Shape(Gated(st)) /\ Covered(Gated(st)) /\ Gated(st).auto = d.auto
  BY <1>1, <1>4, NoneIsEmpty DEF Shape, Covered, Agrees
<1>5. ASSUME Gated(st) = Resumed(d)
      PROVE  Shape(Gated(st)) /\ Covered(Gated(st)) /\ Gated(st).auto = d.auto
  <2> DEFINE n == Resumed(d)
  <2>1. /\ Shape(n) /\ n.auto = d.auto /\ n.parked = None
        /\ n.sig = d.sig \/ n.sig = Kept(d)
    BY <1>1 DEF Resumed, Shape
  <2> HIDE DEF n
  <2>2. \A k \in DOMAIN Kept(d) : k \in DOMAIN d.auto /\ d.auto[k] = Kept(d)[k]
    BY <1>1, KeptIs DEF Covered, Agrees
  <2>3. Covered(n)
    BY <1>1, <2>1, <2>2, NoneIsEmpty DEF Covered, Agrees
  <2> QED BY <1>5, <2>1, <2>3 DEF n
<1> QED BY <1>1, <1>2, <1>3, <1>4, <1>5

-----------------------------------------------------------------------------
(* The other changes of the rows. *)

\* The rows a test arms.
New(t) == [k \in {<<r[1], r[2]>> : r \in Tested(t)} |-> rows[k[1]][k[2]]]

LEMMA NewIs ==
  ASSUME NEW t, NEW k \in DOMAIN New(t)
  PROVE  k[1] \in t.assets /\ \E r \in t.rows : r[1] = k[1] /\ r[3] = New(t)[k]
<1>1. PICK r \in Tested(t) : k = <<r[1], r[2]>>
  BY DEF New
<1>2. PICK a \in t.assets : r \in Rows(a) /\ r \in t.rows
  BY DEF Tested
<1>3. PICK i \in DOMAIN rows[a] : r = <<a, i, rows[a][i]>>
  BY <1>2 DEF Rows
<1>4. r[1] = a /\ r[2] = i /\ r[3] = rows[a][i]
  BY <1>3
<1>5. k[1] = a /\ k[2] = i
  BY <1>1, <1>4
<1>6. New(t)[k] = rows[k[1]][k[2]]
  BY DEF New
<1> QED BY <1>2, <1>4, <1>5, <1>6

LEMMA ArmedIs ==
  ASSUME NEW st, NEW t, Shape(st)
  PROVE  /\ Shape(Armed(st, t))
         /\ Armed(st, t).sig = Over(New(t), st.sig)
         /\ Armed(st, t).auto = Over(New(t), st.auto)
         /\ Armed(st, t).parked = Restrict(st.parked, DOMAIN st.parked \ DOMAIN New(t))
<1> DEFINE n == New(t)  p == Restrict(st.parked, DOMAIN st.parked \ DOMAIN n)
           s == Over(n, st.sig)  a == Over(n, st.auto)
<1>1. Armed(st, t) = [st EXCEPT !.sig = s, !.auto = a, !.parked = p]
  BY Zenon DEF Armed, New
<1> HIDE DEF n, p, s, a
<1>2. Armed(st, t) = [sig |-> s, auto |-> a, parked |-> p, watch |-> st.watch, ctx |-> st.ctx]
  BY <1>1 DEF Shape
<1>3. /\ Armed(st, t).sig = s /\ Armed(st, t).auto = a /\ Armed(st, t).parked = p
      /\ Armed(st, t).watch = st.watch /\ Armed(st, t).ctx = st.ctx
  BY <1>2
<1>4. Shape(Armed(st, t))
  BY <1>2, <1>3 DEF Shape
<1> QED BY <1>3, <1>4 DEF s, a, p, n

\* Arming keeps the rows covered: what is armed is no longer parked.
LEMMA ArmedCovers ==
  ASSUME NEW st, NEW t, Shape(st), Covered(st)
  PROVE  Covered(Armed(st, t))
<1> DEFINE n == New(t)  f == st.sig  g == st.auto  p == st.parked
           S == DOMAIN p \ DOMAIN n
<1>1. /\ Armed(st, t).sig = Over(n, f) /\ Armed(st, t).auto = Over(n, g)
      /\ Armed(st, t).parked = Restrict(p, S)
  BY ArmedIs
<1>2. /\ \A k \in DOMAIN f : k \in DOMAIN g /\ g[k] = f[k]
      /\ \A k \in DOMAIN p : k \in DOMAIN g => p[k] = g[k]
  BY DEF Covered, Agrees
<1> HIDE DEF n, f, g, p
<1>3. /\ DOMAIN Over(n, f) = DOMAIN n \union DOMAIN f
      /\ \A k \in DOMAIN n : Over(n, f)[k] = n[k]
      /\ \A k \in DOMAIN f \ DOMAIN n : Over(n, f)[k] = f[k]
  BY OverIs
<1>4. /\ DOMAIN Over(n, g) = DOMAIN n \union DOMAIN g
      /\ \A k \in DOMAIN n : Over(n, g)[k] = n[k]
      /\ \A k \in DOMAIN g \ DOMAIN n : Over(n, g)[k] = g[k]
  BY OverIs
<1>5. DOMAIN Restrict(p, S) = S /\ \A k \in S : Restrict(p, S)[k] = p[k]
  BY RestrictIs
<1>6. \A k \in DOMAIN Over(n, f) : k \in DOMAIN Over(n, g) /\ Over(n, g)[k] = Over(n, f)[k]
  BY <1>2, <1>3, <1>4
<1>7. Agrees(Restrict(p, S), Over(n, g))
  BY <1>2, <1>4, <1>5 DEF Agrees
<1> QED BY <1>1, <1>6, <1>7 DEF Covered

LEMMA WithoutIs ==
  ASSUME NEW f, NEW a
  PROVE  /\ \A k \in DOMAIN Without(f, a) : k \in DOMAIN f /\ k[1] # a /\ Without(f, a)[k] = f[k]
         /\ \A k \in DOMAIN f : k[1] # a => k \in DOMAIN Without(f, a)
<1> DEFINE S == {k \in DOMAIN f : k[1] # a}
<1>1. Without(f, a) = Restrict(f, S)
  BY DEF Without
<1>2. DOMAIN Without(f, a) = S /\ \A k \in S : Without(f, a)[k] = f[k]
  BY <1>1, RestrictIs
<1> QED BY <1>2

LEMMA DisarmedIs ==
  ASSUME NEW a, Shape(arms)
  PROVE  /\ Shape(Disarmed(a))
         /\ Disarmed(a).sig = Without(arms.sig, a) /\ Disarmed(a).auto = Without(arms.auto, a)
         /\ Disarmed(a).parked = arms.parked
<1> DEFINE s == Without(arms.sig, a)  u == Without(arms.auto, a)
<1>1. Disarmed(a) = [arms EXCEPT !.sig = s, !.auto = u]
  BY Zenon DEF Disarmed
<1> HIDE DEF s, u
<1>2. Disarmed(a) = [sig |-> s, auto |-> u, parked |-> arms.parked,
                     watch |-> arms.watch, ctx |-> arms.ctx]
  BY <1>1 DEF Shape
<1>3. /\ Disarmed(a).sig = s /\ Disarmed(a).auto = u /\ Disarmed(a).parked = arms.parked
      /\ Disarmed(a).watch = arms.watch /\ Disarmed(a).ctx = arms.ctx
  BY <1>2
<1>4. Shape(Disarmed(a))
  BY <1>2, <1>3 DEF Shape
<1> QED BY <1>3, <1>4 DEF s, u

LEMMA DisarmedCovers ==
  ASSUME NEW a, Shape(arms), Covered(arms)
  PROVE  Covered(Disarmed(a))
<1> DEFINE f == arms.sig  g == arms.auto  p == arms.parked
<1>1. /\ Disarmed(a).sig = Without(f, a) /\ Disarmed(a).auto = Without(g, a)
      /\ Disarmed(a).parked = p
  BY DisarmedIs
<1>2. /\ \A k \in DOMAIN f : k \in DOMAIN g /\ g[k] = f[k]
      /\ \A k \in DOMAIN p : k \in DOMAIN g => p[k] = g[k]
  BY DEF Covered, Agrees
<1> HIDE DEF f, g, p
<1>3. \A k \in DOMAIN Without(f, a) : k \in DOMAIN f /\ k[1] # a /\ Without(f, a)[k] = f[k]
  BY WithoutIs
<1>4. /\ \A k \in DOMAIN Without(g, a) : k \in DOMAIN g /\ k[1] # a /\ Without(g, a)[k] = g[k]
      /\ \A k \in DOMAIN g : k[1] # a => k \in DOMAIN Without(g, a)
  BY WithoutIs
<1>5. Agrees(p, Without(g, a))
  BY <1>2, <1>4 DEF Agrees
<1>6. \A k \in DOMAIN Without(f, a) :
        k \in DOMAIN Without(g, a) /\ Without(g, a)[k] = Without(f, a)[k]
  BY <1>2, <1>3, <1>4
<1> QED BY <1>1, <1>5, <1>6 DEF Covered

\* The rows after a deletion.
Moved(a, i) ==
  [arms EXCEPT !.sig = Rekey(@, a, i), !.auto = Rekey(@, a, i), !.parked = Rekey(@, a, i)]

LEMMA MovedIs ==
  ASSUME NEW a, NEW i, Shape(arms)
  PROVE  /\ Shape(Moved(a, i))
         /\ Moved(a, i).sig = Rekey(arms.sig, a, i) /\ Moved(a, i).auto = Rekey(arms.auto, a, i)
         /\ Moved(a, i).parked = Rekey(arms.parked, a, i)
<1> DEFINE s == Rekey(arms.sig, a, i)  u == Rekey(arms.auto, a, i)
           p == Rekey(arms.parked, a, i)
<1>1. Moved(a, i) = [arms EXCEPT !.sig = s, !.auto = u, !.parked = p]
  BY Zenon DEF Moved
<1> HIDE DEF s, u, p
<1>2. Moved(a, i) = [sig |-> s, auto |-> u, parked |-> p, watch |-> arms.watch,
                     ctx |-> arms.ctx]
  BY <1>1 DEF Shape
<1>3. /\ Moved(a, i).sig = s /\ Moved(a, i).auto = u /\ Moved(a, i).parked = p
      /\ Moved(a, i).watch = arms.watch /\ Moved(a, i).ctx = arms.ctx
  BY <1>2
<1>4. Shape(Moved(a, i))
  BY <1>2, <1>3 DEF Shape
<1> QED BY <1>3, <1>4 DEF s, u, p

\* Deletion moves the three sets of rows alike.
LEMMA MovedCovers ==
  ASSUME NEW a, NEW i, Shape(arms), Covered(arms)
  PROVE  Covered(Moved(a, i))
<1> DEFINE f == arms.sig  g == arms.auto  p == arms.parked
           o(k) == IF k[1] = a /\ k[2] >= i THEN <<a, k[2] + 1>> ELSE k
           F == Rekey(f, a, i)  G == Rekey(g, a, i)  P == Rekey(p, a, i)
<1>1. Moved(a, i).sig = F /\ Moved(a, i).auto = G /\ Moved(a, i).parked = P
  BY MovedIs
<1>2. /\ \A k \in DOMAIN f : k \in DOMAIN g /\ g[k] = f[k]
      /\ \A k \in DOMAIN p : k \in DOMAIN g => p[k] = g[k]
  BY DEF Covered, Agrees
<1>3. \A k \in DOMAIN F : k \in Key /\ o(k) \in DOMAIN f /\ F[k] = f[o(k)]
  BY DEF Rekey
<1>4. /\ \A k \in DOMAIN G : k \in Key /\ o(k) \in DOMAIN g /\ G[k] = g[o(k)]
      /\ \A k \in Key : o(k) \in DOMAIN g => k \in DOMAIN G
  BY DEF Rekey
<1>5. \A k \in DOMAIN P : k \in Key /\ o(k) \in DOMAIN p /\ P[k] = p[o(k)]
  BY DEF Rekey
<1> HIDE DEF f, g, p, o, F, G, P
<1>6. \A k \in DOMAIN F : k \in DOMAIN G /\ G[k] = F[k]
  BY <1>2, <1>3, <1>4
<1>7. Agrees(P, G)
  BY <1>2, <1>4, <1>5 DEF Agrees
<1> QED BY <1>1, <1>6, <1>7 DEF Covered

-----------------------------------------------------------------------------
(* Rows with their close, on tested accounts. *)

ArmInv == Shape(arms) /\ Covered(arms) /\ ArmedIsTested

TestedRows(f, T) == \A k \in DOMAIN f : <<k[1], f[k]>> \in T

LEMMA ArmedIsTestedIs == ArmedIsTested <=> TestedRows(arms.auto, tested)
  BY DEF ArmedIsTested, TestedRows

LEMMA ArmInit == Init => ArmInv
<1> SUFFICES ASSUME Init PROVE ArmInv
  OBVIOUS
<1>1. arms = [sig |-> None, auto |-> None, parked |-> None, watch |-> FALSE, ctx |-> ""]
  BY DEF Init
<1>2. Shape(arms) /\ arms.sig = None /\ arms.auto = None /\ arms.parked = None
  BY <1>1 DEF Shape
<1> QED BY <1>2, NoneIsEmpty DEF ArmInv, Covered, Agrees, ArmedIsTested

\* A change of the two latches leaves the rows as they are.
LEMMA LatchKeeps ==
  ASSUME ArmInv, NEW w, NEW c,
         \/ arms' = [arms EXCEPT !.ctx = c] \/ arms' = [arms EXCEPT !.watch = w]
         \/ arms' = arms \/ arms' = [arms EXCEPT !.watch = w, !.parked = None]
         \/ arms' = [arms EXCEPT !.sig = None, !.auto = None, !.parked = None, !.ctx = c],
         tested' = tested
  PROVE  ArmInv'
<1>1. Shape(arms) /\ Covered(arms) /\ TestedRows(arms.auto, tested)
  BY ArmedIsTestedIs DEF ArmInv
<1>2. Shape(arms')
  BY <1>1 DEF Shape
<1>3. /\ \/ arms.sig' = arms.sig /\ arms.auto' = arms.auto
         \/ arms.sig' = None
      /\ arms.auto' = arms.auto \/ arms.auto' = None
      /\ arms.parked' = arms.parked \/ arms.parked' = None
  BY <1>1 DEF Shape
<1>4. Covered(arms')
  BY <1>1, <1>3, NoneIsEmpty DEF Covered, Agrees
<1>5. TestedRows(arms.auto', tested')
  BY <1>1, <1>3, NoneIsEmpty DEF TestedRows
<1> QED BY <1>2, <1>4, <1>5 DEF ArmInv, ArmedIsTested, TestedRows

\* The end of a test arms rows it has tested.
LEMMA PassedKeeps ==
  ASSUME ArmInv, NEW t, NEW w,
         tested' = tested \union {<<r[1], r[3]>> : r \in t.rows},
         \/ arms' = Gated(Armed(arms, t))
         \/ arms' = Gated(Armed([arms EXCEPT !.watch = w, !.parked = None], t))
  PROVE  ArmInv'
<1> DEFINE b == IF arms' = Gated(Armed(arms, t)) THEN arms
                ELSE [arms EXCEPT !.watch = w, !.parked = None]
           m == Armed(b, t)
<1>1. Shape(arms) /\ Covered(arms) /\ TestedRows(arms.auto, tested)
  BY ArmedIsTestedIs DEF ArmInv
<1>2. Shape(b) /\ Covered(b) /\ b.auto = arms.auto
  <2>1. ASSUME NEW x, x = [arms EXCEPT !.watch = w, !.parked = None]
        PROVE  Shape(x) /\ x.auto = arms.auto /\ x.sig = arms.sig /\ x.parked = None
    BY <1>1, <2>1 DEF Shape
  <2> QED BY <1>1, <2>1, NoneIsEmpty DEF Covered, Agrees
<1>3. arms' = Gated(m)
  OBVIOUS
<1> HIDE DEF b
<1>4. Shape(m) /\ m.auto = Over(New(t), b.auto) /\ Covered(m)
  BY <1>2, ArmedIs, ArmedCovers
<1> HIDE DEF m
<1>5. Shape(arms') /\ Covered(arms') /\ (arms.auto' = m.auto \/ arms.auto' = None)
  BY <1>3, <1>4, GatedIs
<1>6. TestedRows(m.auto, tested')
  <2> SUFFICES ASSUME NEW k \in DOMAIN m.auto PROVE <<k[1], m.auto[k]>> \in tested'
    BY DEF TestedRows
  <2> DEFINE n == New(t)  g == b.auto
  <2>1. n = New(t) /\ m.auto = Over(n, g)
    BY <1>4
  <2>2. TestedRows(g, tested)
    BY <1>1, <1>2
  <2> HIDE DEF n, g
  <2>3. /\ DOMAIN Over(n, g) = DOMAIN n \union DOMAIN g
        /\ \A x \in DOMAIN n : Over(n, g)[x] = n[x]
        /\ \A x \in DOMAIN g \ DOMAIN n : Over(n, g)[x] = g[x]
    BY OverIs
  <2>4. CASE k \in DOMAIN n
    <3>1. PICK r \in t.rows : r[1] = k[1] /\ r[3] = n[k]
      BY <2>1, <2>4, NewIs
    <3> QED BY <2>1, <2>3, <2>4, <3>1
  <2>5. CASE k \in DOMAIN g \ DOMAIN n
    BY <2>1, <2>2, <2>3, <2>5 DEF TestedRows
  <2> QED BY <2>1, <2>3, <2>4, <2>5
<1>7. TestedRows(arms.auto', tested')
  BY <1>5, <1>6, NoneIsEmpty DEF TestedRows
<1> QED BY <1>5, <1>7 DEF ArmInv, ArmedIsTested, TestedRows

LEMMA ArmStep == ArmInv /\ [Next]_vars => ArmInv'
<1> SUFFICES ASSUME ArmInv, [Next]_vars PROVE ArmInv'
  OBVIOUS
<1> USE DEF live, server, day
<1>1. CASE MasterStart
  BY <1>1, LatchKeeps DEF MasterStart
<1>2. CASE MasterStop
  BY <1>2, LatchKeeps DEF MasterStop
<1>3. CASE Heartbeat
  BY <1>3, LatchKeeps DEF Heartbeat
<1>4. CASE Gating
  <2>1. Shape(arms) /\ Covered(arms) /\ TestedRows(arms.auto, tested)
    BY ArmedIsTestedIs DEF ArmInv
  <2>2. arms' = Gated(arms) /\ tested' = tested
    BY <1>4 DEF Gating
  <2>3. Shape(arms') /\ Covered(arms') /\ (arms.auto' = arms.auto \/ arms.auto' = None)
    BY <2>1, <2>2, GatedIs
  <2>4. TestedRows(arms.auto', tested')
    BY <2>1, <2>2, <2>3, NoneIsEmpty DEF TestedRows
  <2> QED BY <2>3, <2>4 DEF ArmInv, ArmedIsTested, TestedRows
<1>5. ASSUME NEW a \in Asset, CheckAsset(a) \/ CheckRefused(a) PROVE ArmInv'
  BY <1>5, LatchKeeps DEF CheckAsset, CheckRefused
<1>6. ASSUME NEW a \in Asset, SetInclude(a) \/ AddRow(a) \/ EditRow(a) \/ Signal(a) PROVE ArmInv'
  BY <1>6, LatchKeeps DEF SetInclude, AddRow, EditRow, Signal
<1>7. ASSUME NEW a \in Asset, arms' = Disarmed(a), tested' = tested PROVE ArmInv'
  <2>1. Shape(arms) /\ Covered(arms) /\ TestedRows(arms.auto, tested)
    BY ArmedIsTestedIs DEF ArmInv
  <2>2. /\ Shape(arms') /\ Covered(arms') /\ arms.auto' = Without(arms.auto, a)
    BY <1>7, <2>1, DisarmedIs, DisarmedCovers
  <2>3. \A k \in DOMAIN Without(arms.auto, a) :
          k \in DOMAIN arms.auto /\ Without(arms.auto, a)[k] = arms.auto[k]
    BY WithoutIs
  <2>4. TestedRows(arms.auto', tested')
    BY <1>7, <2>1, <2>2, <2>3 DEF TestedRows
  <2> QED BY <2>2, <2>4 DEF ArmInv, ArmedIsTested, TestedRows
<1>8. ASSUME NEW a \in Asset, Uncheck(a) \/ PanelStop(a) PROVE ArmInv'
  BY <1>7, <1>8, LatchKeeps DEF Uncheck, PanelStop
<1>9. ASSUME NEW a \in Asset, DeleteRow(a) PROVE ArmInv'
  <2>1. PICK i : arms' = Moved(a, i) /\ tested' = tested
    BY <1>9 DEF DeleteRow, Moved
  <2>2. Shape(arms) /\ Covered(arms) /\ TestedRows(arms.auto, tested)
    BY ArmedIsTestedIs DEF ArmInv
  <2>3. Shape(arms') /\ Covered(arms') /\ arms.auto' = Rekey(arms.auto, a, i)
    BY <2>1, <2>2, MovedIs, MovedCovers
  <2>4. ASSUME NEW k \in DOMAIN Rekey(arms.auto, a, i)
        PROVE  \E o \in DOMAIN arms.auto :
                 o[1] = k[1] /\ Rekey(arms.auto, a, i)[k] = arms.auto[o]
    <3> DEFINE o == IF k[1] = a /\ k[2] >= i THEN <<a, k[2] + 1>> ELSE k
    <3>1. o \in DOMAIN arms.auto /\ Rekey(arms.auto, a, i)[k] = arms.auto[o]
      BY DEF Rekey
    <3>2. o[1] = k[1]
      OBVIOUS
    <3> QED BY <3>1, <3>2
  <2>5. TestedRows(arms.auto', tested')
    BY <2>1, <2>2, <2>3, <2>4 DEF TestedRows
  <2> QED BY <2>3, <2>5 DEF ArmInv, ArmedIsTested, TestedRows
<1>10. ASSUME NEW t \in tests, Done(t) PROVE ArmInv'
  BY <1>10, LatchKeeps, PassedKeeps DEF Done
<1>11. ASSUME NEW t \in tests, Expire(t) PROVE ArmInv'
  BY <1>11, LatchKeeps DEF Expire
<1>12. CASE UNCHANGED vars
  BY <1>12, LatchKeeps DEF vars
<1> QED
  BY <1>1, <1>2, <1>3, <1>4, <1>5, <1>6, <1>8, <1>9, <1>10, <1>11, <1>12 DEF Next

\* A row that takes signals has its session close on the same account
\* (_master_arm, _apply_gating, _rekey_after_delete), whatever the server,
\* the member and the tests under way do.
THEOREM EveryRowCloses == Spec => []SigHasClose
<1>1. ArmInv => SigHasClose
  BY DEF ArmInv, Covered, SigHasClose
<1> QED BY <1>1, ArmInit, ArmStep, PTL DEF Spec

\* Only accounts whose connection was tested are armed (_arm_tested_rows).
THEOREM OnlyTested == Spec => []ArmedIsTested
<1>1. ArmInv => ArmedIsTested
  BY DEF ArmInv
<1> QED BY <1>1, ArmInit, ArmStep, PTL DEF Spec

-----------------------------------------------------------------------------
(* What the member stopped. *)

TestShape(t) ==
  t = [kind |-> t.kind, assets |-> t.assets, auto |-> t.auto, fresh |-> t.fresh,
       held |-> t.held, rows |-> t.rows]

\* Nothing is armed without a session, and a test that no stop has reached
\* belongs to the running session and to assets the member wants.
StopInv ==
  /\ \A t \in tests : TestShape(t)
  /\ ~session => arms.sig = None /\ arms.auto = None
  /\ odd \intersect {"panel", "closed"} = {} =>
       /\ \A k \in DOMAIN arms.auto : k[1] \in want
       /\ \A t \in tests : t.fresh => session /\ t.assets \subseteq want

FullInv == ArmInv /\ StopInv

LEMMA FullInit == Init => FullInv
<1> SUFFICES ASSUME Init PROVE FullInv
  OBVIOUS
<1>1. arms = [sig |-> None, auto |-> None, parked |-> None, watch |-> FALSE, ctx |-> ""]
  BY DEF Init
<1>2. arms.sig = None /\ arms.auto = None
  BY <1>1
<1>3. tests = {}
  BY DEF Init
<1> QED BY <1>2, <1>3, ArmInit, NoneIsEmpty DEF FullInv, StopInv

LEMMA TestIs ==
  ASSUME NEW t, NEW b, TestShape(t)
  PROVE  /\ [t EXCEPT !.fresh = b] = [kind |-> t.kind, assets |-> t.assets, auto |-> t.auto,
                                     fresh |-> b, held |-> t.held, rows |-> t.rows]
         /\ [t EXCEPT !.held = b] = [kind |-> t.kind, assets |-> t.assets, auto |-> t.auto,
                                    fresh |-> t.fresh, held |-> b, rows |-> t.rows]
  BY DEF TestShape

LEMMA StaleIs ==
  ASSUME \A t \in tests : TestShape(t)
  PROVE  \A t \in Stale : TestShape(t) /\ ~t.fresh
<1> SUFFICES ASSUME NEW t \in tests
             PROVE  LET u == [t EXCEPT !.fresh = FALSE] IN TestShape(u) /\ ~u.fresh
  BY DEF Stale
<1>1. TestShape(t)
  OBVIOUS
<1> DEFINE u == [t EXCEPT !.fresh = FALSE]
<1>2. u = [kind |-> t.kind, assets |-> t.assets, auto |-> t.auto, fresh |-> FALSE,
           held |-> t.held, rows |-> t.rows]
  BY <1>1, TestIs
<1> HIDE DEF u
<1>3. /\ u.kind = t.kind /\ u.assets = t.assets /\ u.auto = t.auto /\ u.fresh = FALSE
      /\ u.held = t.held /\ u.rows = t.rows
  BY <1>2
<1>4. TestShape(u) /\ ~u.fresh
  BY <1>2, <1>3 DEF TestShape
<1> QED BY <1>4 DEF u

\* Without a session there is nothing to disarm, to move or to gate.
LEMMA EmptyIs ==
  ASSUME NEW a, NEW i
  PROVE  Without(None, a) = None /\ Rekey(None, a, i) = None
<1>2. Without(None, a) = [x \in {} |-> None[x]]
  BY NoneIsEmpty DEF Without, Restrict
<1>3. Rekey(None, a, i) = [x \in {} |-> None[x]]
  BY NoneIsEmpty DEF Rekey
<1>4. [x \in {} |-> None[x]] = None
  <2>1. None \in Seq({}) /\ Len(None) = 0
    BY DEF None
  <2>2. None = [x \in 1 .. 0 |-> None[x]]
    BY <2>1
  <2>3. 1 .. 0 = {}
    OBVIOUS
  <2> QED BY <2>2, <2>3
<1> QED BY <1>2, <1>3, <1>4

\* A step that leaves the tests, the session and the wishes alone, and keeps
\* the assets armed.
LEMMA SameTests ==
  ASSUME StopInv, UNCHANGED <<tests, session, want>>, odd \subseteq odd',
         \A k \in DOMAIN arms.auto' : \E o \in DOMAIN arms.auto : o[1] = k[1],
         ~session => arms.sig' = None /\ arms.auto' = None
  PROVE  StopInv'
<1>1. \A t \in tests' : TestShape(t)
  BY DEF StopInv
<1>2. ASSUME odd' \intersect {"panel", "closed"} = {}
      PROVE  /\ \A k \in DOMAIN arms.auto' : k[1] \in want'
             /\ \A t \in tests' : t.fresh => session' /\ t.assets \subseteq want'
  BY <1>2 DEF StopInv
<1> QED BY <1>1, <1>2 DEF StopInv, TestShape

LEMMA StopStep == FullInv /\ [Next]_vars => StopInv'
<1> SUFFICES ASSUME FullInv, [Next]_vars PROVE StopInv'
  OBVIOUS
<1> USE DEF live, server, day
<1>0. StopInv /\ ArmInv /\ Shape(arms) /\ Covered(arms)
  BY DEF FullInv, ArmInv
<1>1. CASE MasterStart
  <2>1. /\ arms.sig' = arms.sig /\ arms.auto' = arms.auto /\ session' = TRUE
        /\ want' = want \union include /\ odd' = odd
    BY <1>0, <1>1 DEF MasterStart, Shape
  <2>2. tests' = tests \union {[kind |-> "start", assets |-> include, auto |-> MayEnter,
           fresh |-> TRUE, held |-> TRUE, rows |-> UNION {Rows(a) : a \in include}]}
    BY <1>1 DEF MasterStart, Test
  <2> DEFINE n == [kind |-> "start", assets |-> include, auto |-> MayEnter,
           fresh |-> TRUE, held |-> TRUE, rows |-> UNION {Rows(a) : a \in include}]
  <2>3. TestShape(n) /\ n.assets = include
    BY DEF TestShape
  <2>4. tests' = tests \union {n}
    BY <2>2
  <2> HIDE DEF n
  <2> QED BY <1>0, <2>1, <2>3, <2>4 DEF StopInv, TestShape
<1>2. CASE MasterStop
  <2>1. arms.sig' = None /\ arms.auto' = None
    BY <1>0, <1>2 DEF MasterStop, Shape
  <2>2. tests' = Stale /\ session' = FALSE
    BY <1>2 DEF MasterStop
  <2>3. \A t \in Stale : TestShape(t) /\ ~t.fresh
    BY <1>0, StaleIs DEF StopInv
  <2> QED BY <2>1, <2>2, <2>3, NoneIsEmpty DEF StopInv, TestShape
<1>3. CASE Heartbeat
  BY <1>0, <1>3, SameTests DEF Heartbeat, StopInv
<1>4. CASE Gating
  <2>1. arms' = Gated(arms) /\ UNCHANGED <<tests, session, want, odd>>
    BY <1>4 DEF Gating
  <2>2. arms.auto' = arms.auto \/ arms.auto' = None
    BY <1>0, <2>1, GatedIs
  <2>3. ~session => arms.sig' = None /\ arms.auto' = None
    <3>1. SUFFICES ASSUME ~session PROVE arms.sig' = None /\ arms.auto' = None
      OBVIOUS
    <3>2. arms.sig = None /\ arms.auto = None
      BY <1>0, <3>1 DEF StopInv
    <3> DEFINE d == Dropped(arms)
    <3>3. Shape(d) /\ d.sig = None /\ d.auto = None
      BY <1>0, <3>2, DroppedIs
    <3>4. Gated(arms) = d \/ Gated(arms) = [d EXCEPT !.parked = None]
      BY <3>1 DEF Gated
    <3> HIDE DEF d
    <3> QED BY <2>1, <3>3, <3>4 DEF Shape
  <2> QED BY <1>0, <2>1, <2>2, <2>3, NoneIsEmpty, SameTests
<1>5. ASSUME NEW a \in Asset, CheckAsset(a) PROVE StopInv'
  <2>1. /\ arms.sig' = arms.sig /\ arms.auto' = arms.auto /\ session' = session
        /\ want' = want \union {a} /\ odd' = odd
    BY <1>0, <1>5 DEF CheckAsset, Shape
  <2> DEFINE n == [kind |-> "check", assets |-> {a}, auto |-> arms.ctx = "auto",
           fresh |-> TRUE, held |-> TRUE, rows |-> UNION {Rows(b) : b \in {a}}]
  <2>2. tests' = tests \union {n}
    BY <1>5 DEF CheckAsset, Test
  <2>3. TestShape(n) /\ n.assets = {a}
    BY DEF TestShape
  <2>4. session
    BY <1>0, <1>5 DEF CheckAsset, Running, StopInv
  <2> HIDE DEF n
  <2> QED BY <1>0, <2>1, <2>2, <2>3, <2>4 DEF StopInv, TestShape
<1>r. ASSUME NEW a \in Asset, CheckRefused(a) PROVE StopInv'
  <2>1. /\ arms.sig' = arms.sig /\ arms.auto' = arms.auto
        /\ UNCHANGED <<tests, session, want, odd>>
    BY <1>0, <1>r DEF CheckRefused, Shape
  <2> QED BY <1>0, <2>1, SameTests DEF StopInv
<1>6. ASSUME NEW a \in Asset, SetInclude(a) \/ AddRow(a) \/ EditRow(a) \/ Signal(a)
      PROVE  StopInv'
  <2>1. UNCHANGED <<arms, tests, session, want>> /\ odd \subseteq odd'
    BY <1>6 DEF SetInclude, AddRow, EditRow, Signal
  <2> QED BY <1>0, <2>1, SameTests DEF StopInv
<1>7. ASSUME NEW a \in Asset, arms' = Disarmed(a)
      PROVE  /\ \A k \in DOMAIN arms.auto' : k \in DOMAIN arms.auto /\ k[1] # a
             /\ ~session => arms.sig' = None /\ arms.auto' = None
  <2>1. arms.sig' = Without(arms.sig, a) /\ arms.auto' = Without(arms.auto, a)
    BY <1>0, <1>7, DisarmedIs
  <2>2. \A k \in DOMAIN Without(arms.auto, a) : k \in DOMAIN arms.auto /\ k[1] # a
    BY WithoutIs
  <2>3. Without(None, a) = None
    BY EmptyIs
  <2> QED BY <1>0, <2>1, <2>2, <2>3 DEF StopInv
<1>8. ASSUME NEW a \in Asset, Uncheck(a) PROVE StopInv'
  <2>1. want' = want \ {a} /\ UNCHANGED <<session, odd>>
    BY <1>8 DEF Uncheck
  <2>2. CASE Running
    <3>1. arms' = Disarmed(a) /\ tests' = Stale
      BY <1>8, <2>2 DEF Uncheck
    <3>2. \A t \in Stale : TestShape(t) /\ ~t.fresh
      BY <1>0, StaleIs DEF StopInv
    <3>3. /\ \A k \in DOMAIN arms.auto' : k \in DOMAIN arms.auto /\ k[1] # a
          /\ ~session => arms.sig' = None /\ arms.auto' = None
      BY <1>7, <3>1
    <3> QED BY <1>0, <2>1, <3>1, <3>2, <3>3 DEF StopInv, TestShape
  <2>3. CASE ~Running
    <3>1. UNCHANGED <<arms, tests>> /\ ~session /\ arms.auto = None
      BY <1>8, <2>3 DEF Uncheck, Running
    <3> QED BY <1>0, <2>1, <3>1, NoneIsEmpty DEF StopInv, TestShape
  <2> QED BY <2>2, <2>3
<1>9. ASSUME NEW a \in Asset, PanelStop(a) PROVE StopInv'
  <2>1. /\ want' = want \ {a} /\ UNCHANGED <<session, tests>> /\ odd \subseteq odd'
        /\ "panel" \notin odd' => \A t \in tests : t.fresh => a \notin t.assets
    BY <1>9 DEF PanelStop
  <2>2. /\ \A k \in DOMAIN arms.auto' : k \in DOMAIN arms.auto /\ k[1] # a
        /\ ~session => arms.sig' = None /\ arms.auto' = None
    BY <1>7, <1>9 DEF PanelStop
  <2> QED BY <1>0, <2>1, <2>2 DEF StopInv, TestShape
<1>10. ASSUME NEW a \in Asset, DeleteRow(a) PROVE StopInv'
  <2>1. PICK i : arms' = Moved(a, i) /\ UNCHANGED <<tests, session, want, odd>>
    BY <1>10 DEF DeleteRow, Moved
  <2>2. arms.sig' = Rekey(arms.sig, a, i) /\ arms.auto' = Rekey(arms.auto, a, i)
    BY <1>0, <2>1, MovedIs
  <2>3. ASSUME NEW k \in DOMAIN Rekey(arms.auto, a, i)
        PROVE  \E o \in DOMAIN arms.auto : o[1] = k[1]
    <3> DEFINE o == IF k[1] = a /\ k[2] >= i THEN <<a, k[2] + 1>> ELSE k
    <3>1. o \in DOMAIN arms.auto
      BY DEF Rekey
    <3> QED BY <3>1
  <2>4. ~session => arms.sig' = None /\ arms.auto' = None
    BY <1>0, <2>2, EmptyIs DEF StopInv
  <2> QED BY <1>0, <2>1, <2>2, <2>3, <2>4, SameTests
<1>11. ASSUME NEW t \in tests, Done(t) PROVE StopInv'
  <2>1. tests' = tests \ {t} /\ want' = want /\ odd \subseteq odd'
    BY <1>11 DEF Done
  <2>2. CASE UNCHANGED <<session, arms>>
    BY <1>0, <2>1, <2>2 DEF StopInv, TestShape
  <2>3. CASE /\ session' = FALSE /\ arms' = [arms EXCEPT !.ctx = ""]
             /\ arms.sig = None /\ arms.auto = None
             /\ odd' = IF session THEN odd \union {"closed"} ELSE odd
    <3>1. arms.sig' = None /\ arms.auto' = None
      BY <1>0, <2>3 DEF Shape
    <3>2. CASE session
      BY <1>0, <2>1, <2>3, <3>1, <3>2 DEF StopInv, TestShape
    <3>3. CASE ~session
      BY <1>0, <2>1, <2>3, <3>1, <3>3, NoneIsEmpty DEF StopInv, TestShape
    <3> QED BY <3>2, <3>3
  <2>4. ASSUME NEW b, Sound(t), session' = session, arms' = Gated(Armed(b, t)),
               Shape(b), Covered(b), b.auto = arms.auto
        PROVE  StopInv'
    <3>1. t.fresh /\ session
      BY <2>4 DEF Sound
    <3> DEFINE m == Armed(b, t)
    <3>2. Shape(m) /\ m.auto = Over(New(t), arms.auto) /\ Covered(m)
      BY <2>4, ArmedIs, ArmedCovers
    <3> HIDE DEF m
    <3>3. arms.auto' = m.auto \/ arms.auto' = None
      BY <2>4, <3>2, GatedIs DEF m
    <3>4. DOMAIN Over(New(t), arms.auto) = DOMAIN New(t) \union DOMAIN arms.auto
      BY OverIs
    <3>5. \A k \in DOMAIN New(t) : k[1] \in t.assets
      BY NewIs
    <3>6. \A k \in DOMAIN arms.auto' : k[1] \in t.assets \/ k \in DOMAIN arms.auto
      BY <3>2, <3>3, <3>4, <3>5, NoneIsEmpty
    <3> QED BY <1>0, <2>1, <2>4, <3>1, <3>6 DEF StopInv, TestShape
  <2>5. ASSUME NEW x, x = [arms EXCEPT !.watch = ~t.auto, !.parked = None]
        PROVE  Shape(x) /\ Covered(x) /\ x.auto = arms.auto
    <3>1. Shape(x) /\ x.auto = arms.auto /\ x.sig = arms.sig /\ x.parked = None
      BY <1>0, <2>5 DEF Shape
    <3> QED BY <1>0, <3>1, NoneIsEmpty DEF Covered, Agrees
  <2>6. CASE /\ Sound(t) /\ session' = session
             /\ arms' = Gated(Armed(IF t.kind = "check" THEN arms
                               ELSE [arms EXCEPT !.watch = ~t.auto, !.parked = None], t))
    <3>1. CASE t.kind = "check"
      BY <1>0, <2>4, <2>6, <3>1
    <3>2. CASE t.kind # "check"
      BY <2>4, <2>5, <2>6, <3>2
    <3> QED BY <3>1, <3>2
  <2> QED BY <1>11, <2>2, <2>3, <2>6 DEF Done
<1>12. ASSUME NEW t \in tests, Expire(t) PROVE StopInv'
  <2> DEFINE u == [t EXCEPT !.held = FALSE]
  <2>1. TestShape(t)
    BY <1>0 DEF StopInv
  <2>3. tests' = (tests \ {t}) \union {u} /\ UNCHANGED <<arms, session, want, odd>>
    BY <1>12 DEF Expire
  <2>4. u = [kind |-> t.kind, assets |-> t.assets, auto |-> t.auto, fresh |-> t.fresh,
             held |-> FALSE, rows |-> t.rows]
    BY <2>1, TestIs
  <2> HIDE DEF u
  <2>5. /\ u.kind = t.kind /\ u.assets = t.assets /\ u.auto = t.auto /\ u.fresh = t.fresh
        /\ u.held = FALSE /\ u.rows = t.rows
    BY <2>4
  <2>2. TestShape(u) /\ u.fresh = t.fresh /\ u.assets = t.assets
    BY <2>4, <2>5 DEF TestShape
  <2> QED BY <1>0, <2>2, <2>3 DEF StopInv, TestShape
<1>13. CASE UNCHANGED vars
  BY <1>0, <1>13, SameTests DEF vars, StopInv
<1> QED
  BY <1>1, <1>2, <1>3, <1>4, <1>5, <1>r, <1>6, <1>8, <1>9, <1>10, <1>11, <1>12, <1>13 DEF Next

\* What the member stopped or unchecked stays so: no test that was under way
\* and no server that answers again arms it, except by the two ways the
\* property names.
THEOREM StoppedStays == Spec => []StopHolds
<1>1. FullInv => StopHolds
  BY DEF FullInv, ArmInv, Covered, StopInv, StopHolds, On
<1>2. FullInv /\ [Next]_vars => FullInv'
  BY ArmStep, StopStep DEF FullInv
<1> QED BY <1>1, <1>2, FullInit, PTL DEF Spec

-----------------------------------------------------------------------------
(* Rows in their place. *)

Pairs(f) == {<<k, f[k]>> : k \in DOMAIN f}

\* What is armed or parked: keys with their accounts.
Entries(st) == Pairs(st.sig) \union Pairs(st.auto) \union Pairs(st.parked)

LEMMA PairsNone == Pairs(None) = {}
  BY NoneIsEmpty DEF Pairs

LEMMA PairsOver ==
  ASSUME NEW f, NEW g
  PROVE  Pairs(Over(f, g)) \subseteq Pairs(f) \union Pairs(g)
<1> SUFFICES ASSUME NEW k \in DOMAIN Over(f, g)
             PROVE  <<k, Over(f, g)[k]>> \in Pairs(f) \union Pairs(g)
  BY DEF Pairs
<1>0. /\ DOMAIN Over(f, g) = DOMAIN f \union DOMAIN g
      /\ \A x \in DOMAIN f : Over(f, g)[x] = f[x]
      /\ \A x \in DOMAIN g \ DOMAIN f : Over(f, g)[x] = g[x]
  BY OverIs
<1>1. CASE k \in DOMAIN f
  BY <1>0, <1>1 DEF Pairs
<1>2. CASE k \in DOMAIN g \ DOMAIN f
  BY <1>0, <1>2 DEF Pairs
<1> QED BY <1>0, <1>1, <1>2

LEMMA PairsPart ==
  ASSUME NEW f, NEW g, \A k \in DOMAIN g : k \in DOMAIN f /\ g[k] = f[k]
  PROVE  Pairs(g) \subseteq Pairs(f)
  BY DEF Pairs

LEMMA DroppedEntries ==
  ASSUME NEW st, Shape(st)
  PROVE  Entries(Dropped(st)) \subseteq Entries(st)
<1> DEFINE d == Dropped(st)
<1>1. /\ d.sig = st.sig \/ d.sig = None
      /\ d.auto = st.auto \/ d.auto = None
      /\ d.parked = st.parked \/ d.parked = Over(st.sig, st.parked)
  BY DroppedIs
<1> HIDE DEF d
<1>2. Pairs(Over(st.sig, st.parked)) \subseteq Pairs(st.sig) \union Pairs(st.parked)
  BY PairsOver
<1>3. Pairs(d.sig) \subseteq Entries(st) /\ Pairs(d.auto) \subseteq Entries(st)
  BY <1>1, PairsNone DEF Entries
<1>4. Pairs(d.parked) \subseteq Entries(st)
  BY <1>1, <1>2 DEF Entries
<1>5. Entries(d) \subseteq Entries(st)
  BY <1>3, <1>4 DEF Entries
<1> QED BY <1>5 DEF d

\* A gating brings no row that was neither armed nor parked.
LEMMA GatedEntries ==
  ASSUME NEW st, Shape(st)
  PROVE  Entries(Gated(st)) \subseteq Entries(st)
<1> DEFINE d == Dropped(st)
<1>1. Shape(d) /\ Entries(d) \subseteq Entries(st)
  BY DroppedIs, DroppedEntries
<1>2. \/ Gated(st) = d
      \/ Gated(st) = [d EXCEPT !.parked = None]
      \/ Gated(st) = Resumed(d)
  BY DEF Gated
<1> HIDE DEF d
<1>3. ASSUME NEW n, n = [d EXCEPT !.parked = None] PROVE Entries(n) \subseteq Entries(d)
  <2>1. n.sig = d.sig /\ n.auto = d.auto /\ n.parked = None
    BY <1>1, <1>3 DEF Shape
  <2> QED BY <2>1, PairsNone DEF Entries
<1>4. ASSUME NEW n, n = Resumed(d) PROVE Entries(n) \subseteq Entries(d)
  <2>1. /\ n.auto = d.auto /\ n.parked = None
        /\ n.sig = d.sig \/ n.sig = Kept(d)
    BY <1>1, <1>4 DEF Resumed, Shape
  <2>2. Pairs(Kept(d)) \subseteq Pairs(d.parked)
    BY KeptIs, PairsPart
  <2> QED BY <2>1, <2>2, PairsNone DEF Entries
<1> QED BY <1>1, <1>2, <1>3, <1>4

LEMMA ArmedEntries ==
  ASSUME NEW st, NEW t, Shape(st)
  PROVE  Entries(Armed(st, t)) \subseteq Entries(st) \union Pairs(New(t))
<1> DEFINE n == New(t)  m == Armed(st, t)  S == DOMAIN st.parked \ DOMAIN n
<1>1. /\ m.sig = Over(n, st.sig) /\ m.auto = Over(n, st.auto)
      /\ m.parked = Restrict(st.parked, S)
  BY ArmedIs
<1>2. DOMAIN Restrict(st.parked, S) = S /\ \A k \in S : Restrict(st.parked, S)[k] = st.parked[k]
  BY RestrictIs
<1>3. Pairs(m.parked) \subseteq Pairs(st.parked)
  BY <1>1, <1>2, PairsPart
<1> HIDE DEF n, m, S
<1>4. /\ Pairs(m.sig) \subseteq Pairs(n) \union Pairs(st.sig)
      /\ Pairs(m.auto) \subseteq Pairs(n) \union Pairs(st.auto)
  BY <1>1, PairsOver
<1>5. Entries(m) \subseteq Entries(st) \union Pairs(n)
  BY <1>3, <1>4 DEF Entries
<1> QED BY <1>5 DEF m, n

LEMMA DisarmedEntries ==
  ASSUME NEW a, Shape(arms)
  PROVE  Entries(Disarmed(a)) \subseteq Entries(arms)
<1> DEFINE d == Disarmed(a)
<1>1. /\ d.sig = Without(arms.sig, a) /\ d.auto = Without(arms.auto, a)
      /\ d.parked = arms.parked
  BY DisarmedIs
<1>2. /\ Pairs(Without(arms.sig, a)) \subseteq Pairs(arms.sig)
      /\ Pairs(Without(arms.auto, a)) \subseteq Pairs(arms.auto)
  BY WithoutIs, PairsPart
<1> HIDE DEF d
<1>3. Entries(d) \subseteq Entries(arms)
  BY <1>1, <1>2 DEF Entries
<1> QED BY <1>3 DEF d

\* Where a row stands after the row i of a was deleted, and where it stood.
Before(k, a, i) == IF k[1] = a /\ k[2] >= i THEN <<a, k[2] + 1>> ELSE k

LEMMA MovedEntries ==
  ASSUME NEW a, NEW i, Shape(arms), NEW e \in Entries(Moved(a, i))
  PROVE  e[1] \in Key /\ <<Before(e[1], a, i), e[2]>> \in Entries(arms)
<1> DEFINE m == Moved(a, i)
<1>1. /\ m.sig = Rekey(arms.sig, a, i) /\ m.auto = Rekey(arms.auto, a, i)
      /\ m.parked = Rekey(arms.parked, a, i)
  BY MovedIs
<1>2. ASSUME NEW f, e \in Pairs(Rekey(f, a, i))
      PROVE  e[1] \in Key /\ <<Before(e[1], a, i), e[2]>> \in Pairs(f)
  <2>1. PICK k \in DOMAIN Rekey(f, a, i) : e = <<k, Rekey(f, a, i)[k]>>
    BY <1>2 DEF Pairs
  <2>2. k \in Key /\ Before(k, a, i) \in DOMAIN f /\ Rekey(f, a, i)[k] = f[Before(k, a, i)]
    BY DEF Rekey, Before
  <2>3. e[1] = k /\ e[2] = f[Before(k, a, i)]
    BY <2>1, <2>2
  <2> QED BY <2>2, <2>3 DEF Pairs
<1> QED BY <1>1, <1>2 DEF Entries

\* What a step may do to the entries.
LEMMA EntriesStep ==
  ASSUME ArmInv, [Next]_vars
  PROVE  \/ Entries(arms') \subseteq Entries(arms)
         \/ rows' = rows /\ \E t \in tests :
              Entries(arms') \subseteq Entries(arms) \union Pairs(New(t))
         \/ \E a \in Asset : \E i \in DOMAIN rows[a] :
              /\ arms' = Moved(a, i)
              /\ rows' = [rows EXCEPT ![a] = SubSeq(@, 1, i - 1) \o SubSeq(@, i + 1, Len(@))]
<1> DEFINE G == \/ Entries(arms') \subseteq Entries(arms)
                \/ rows' = rows /\ \E t \in tests :
                     Entries(arms') \subseteq Entries(arms) \union Pairs(New(t))
                \/ \E a \in Asset : \E i \in DOMAIN rows[a] :
                     /\ arms' = Moved(a, i)
                     /\ rows' = [rows EXCEPT ![a] = SubSeq(@, 1, i - 1) \o SubSeq(@, i + 1, Len(@))]
<1>0. Shape(arms)
  BY DEF ArmInv
<1>1. ASSUME NEW w, NEW c,
             \/ arms' = [arms EXCEPT !.ctx = c] \/ arms' = [arms EXCEPT !.watch = w]
             \/ arms' = arms
             \/ arms' = [arms EXCEPT !.sig = None, !.auto = None, !.parked = None, !.ctx = c]
      PROVE  Entries(arms') \subseteq Entries(arms)
  <2>1. /\ arms'.sig = arms.sig \/ arms'.sig = None
        /\ arms'.auto = arms.auto \/ arms'.auto = None
        /\ arms'.parked = arms.parked \/ arms'.parked = None
    BY <1>0, <1>1 DEF Shape
  <2> QED BY <2>1, PairsNone DEF Entries
<1>2. CASE MasterStart
  BY <1>1, <1>2 DEF MasterStart
<1>3. CASE MasterStop
  BY <1>1, <1>3 DEF MasterStop
<1>4. CASE Gating
  BY <1>0, <1>4, GatedEntries DEF Gating
<1>5. ASSUME NEW a \in Asset, CheckAsset(a) \/ CheckRefused(a) PROVE G
  BY <1>1, <1>5 DEF CheckAsset, CheckRefused
<1>6. ASSUME NEW a \in Asset, Uncheck(a) \/ PanelStop(a) PROVE G
  BY <1>0, <1>6, DisarmedEntries DEF Uncheck, PanelStop
<1>7. ASSUME NEW a \in Asset, DeleteRow(a) PROVE G
  BY <1>7 DEF DeleteRow, Moved
<1>8. ASSUME NEW a \in Asset, SetInclude(a) \/ AddRow(a) \/ EditRow(a) \/ Signal(a) PROVE G
  BY <1>8 DEF SetInclude, AddRow, EditRow, Signal, live
<1>9. CASE Heartbeat \/ UNCHANGED vars
  BY <1>9 DEF Heartbeat, vars, live
<1>10. ASSUME NEW t \in tests, Expire(t) PROVE G
  BY <1>10 DEF Expire
<1>11. ASSUME NEW t \in tests, Done(t) PROVE G
  <2>1. rows' = rows
    BY <1>11 DEF Done
  <2>2. CASE arms' = arms \/ arms' = [arms EXCEPT !.ctx = ""]
    BY <1>1, <2>2
  <2>3. ASSUME NEW b, Shape(b), Entries(b) \subseteq Entries(arms), arms' = Gated(Armed(b, t))
        PROVE  G
    <3> DEFINE m == Armed(b, t)
    <3>1. Shape(m) /\ Entries(m) \subseteq Entries(b) \union Pairs(New(t))
      BY <2>3, ArmedIs, ArmedEntries
    <3> HIDE DEF m
    <3>2. Entries(Gated(m)) \subseteq Entries(m)
      BY <3>1, GatedEntries
    <3>3. Entries(arms') \subseteq Entries(arms) \union Pairs(New(t))
      BY <2>3, <3>1, <3>2 DEF m
    <3> QED BY <2>1, <3>3
  <2>4. ASSUME NEW x, x = [arms EXCEPT !.watch = ~t.auto, !.parked = None]
        PROVE  Shape(x) /\ Entries(x) \subseteq Entries(arms)
    <3>1. Shape(x) /\ x.auto = arms.auto /\ x.sig = arms.sig /\ x.parked = None
      BY <1>0, <2>4 DEF Shape
    <3> QED BY <3>1, PairsNone DEF Entries
  <2>5. CASE arms' = Gated(Armed(arms, t))
    BY <1>0, <2>3, <2>5
  <2>6. CASE arms' = Gated(Armed([arms EXCEPT !.watch = ~t.auto, !.parked = None], t))
    BY <2>3, <2>4, <2>6
  <2> QED BY <1>11, <2>2, <2>5, <2>6 DEF Done
<1> QED
  BY <1>2, <1>3, <1>4, <1>5, <1>6, <1>7, <1>8, <1>9, <1>10, <1>11 DEF Next

-----------------------------------------------------------------------------
(* Types of the rows, the tests and the entries, and the place of a row. *)

TestTyped(t) ==
  TestShape(t) /\ t.assets \subseteq Asset /\ t.rows \subseteq Asset \X (1 .. MaxRow) \X Account

\* The row an entry is for holds its account.
Placed(e, R) ==
  /\ e[1][1] \in Asset /\ e[1][2] \in DOMAIN R[e[1][1]]
  /\ R[e[1][1]][e[1][2]] = e[2]

RowsTyped == rows \in [Asset -> Seq(Account)] /\ \A a \in Asset : Len(rows[a]) <= MaxRow
AssetsTyped == include \subseteq Asset /\ want \subseteq Asset
TestsTyped == \A t \in tests : TestTyped(t)
EntriesTyped == \A e \in Entries(arms) : e[1] \in Key /\ e[2] \in Account
EntriesPlaced == "edited" \notin odd => \A e \in Entries(arms) : Placed(e, rows)

PlaceInv == RowsTyped /\ AssetsTyped /\ TestsTyped /\ EntriesTyped /\ EntriesPlaced

LEMMA PlaceInit ==
  ASSUME MaxRow \in Nat, Init
  PROVE  PlaceInv
<1>1. arms = [sig |-> None, auto |-> None, parked |-> None, watch |-> FALSE, ctx |-> ""]
  BY DEF Init
<1>2. Entries(arms) = {}
  BY <1>1, PairsNone DEF Entries
<1>3. rows \in [Asset -> UNION {[1 .. n -> Account] : n \in 1 .. MaxRow}]
  BY DEF Init
<1>4. ASSUME NEW a \in Asset PROVE rows[a] \in Seq(Account) /\ Len(rows[a]) <= MaxRow
  <2>1. PICK n \in 1 .. MaxRow : rows[a] \in [1 .. n -> Account]
    BY <1>3
  <2>2. rows[a] \in Seq(Account) /\ Len(rows[a]) = n
    BY <2>1
  <2> QED BY <2>1, <2>2
<1>5. RowsTyped
  BY <1>3, <1>4 DEF RowsTyped
<1>6. AssetsTyped /\ TestsTyped
  BY DEF Init, AssetsTyped, TestsTyped
<1> QED BY <1>2, <1>5, <1>6 DEF PlaceInv, EntriesTyped, EntriesPlaced

\* A deleted row's followers move up by one.
LEMMA DeletedIs ==
  ASSUME NEW s \in Seq(Account), NEW i \in DOMAIN s
  PROVE  LET d == SubSeq(s, 1, i - 1) \o SubSeq(s, i + 1, Len(s)) IN
         /\ d \in Seq(Account) /\ Len(d) = Len(s) - 1
         /\ \A j \in 1 .. i - 1 : d[j] = s[j]
         /\ \A j \in i .. Len(s) - 1 : d[j] = s[j + 1]
<1> DEFINE l == SubSeq(s, 1, i - 1)  r == SubSeq(s, i + 1, Len(s))
<1>1. i \in 1 .. Len(s) /\ Len(s) \in Nat
  OBVIOUS
<1>2. l \in Seq(Account) /\ Len(l) = i - 1 /\ \A j \in 1 .. i - 1 : l[j] = s[j]
  BY <1>1
<1>3. /\ r \in Seq(Account) /\ Len(r) = Len(s) - i
      /\ \A j \in 1 .. Len(s) - i : r[j] = s[i + j]
  BY <1>1
<1> HIDE DEF l, r
<1>4. l \o r \in Seq(Account) /\ Len(l \o r) = Len(s) - 1
  BY <1>1, <1>2, <1>3
<1>5. \A j \in 1 .. i - 1 : (l \o r)[j] = s[j]
  BY <1>1, <1>2, <1>3
<1>6. ASSUME NEW j \in i .. Len(s) - 1 PROVE (l \o r)[j] = s[j + 1]
  <2>1. j \in Int /\ j - (i - 1) \in 1 .. Len(s) - i
    BY <1>1
  <2>2. (l \o r)[j] = r[j - (i - 1)]
    <3>1. j > Len(l) /\ j <= Len(l) + Len(r) /\ j \in 1 .. Len(l) + Len(r)
      <4>1. Len(l) = i - 1 /\ Len(r) = Len(s) - i
        BY <1>2, <1>3
      <4>2. i - 1 < j /\ j <= Len(s) - 1 /\ 1 <= j
        BY <1>1, <2>1
      <4>3. (i - 1) + (Len(s) - i) = Len(s) - 1
        BY <1>1
      <4> QED BY <1>1, <2>1, <4>1, <4>2, <4>3
    <3>2. (l \o r)[j] = r[j - Len(l)]
      <4>1. l \in Seq(Account) /\ r \in Seq(Account) /\ ~(j <= Len(l))
        BY <1>2, <1>3, <3>1
      <4> QED BY <3>1, <4>1, ConcatProperties
    <3> QED BY <1>2, <3>2
  <2>3. r[j - (i - 1)] = s[i + (j - (i - 1))]
    BY <1>3, <2>1
  <2>4. i + (j - (i - 1)) = j + 1
    BY <1>1, <2>1
  <2> QED BY <2>2, <2>3, <2>4
<1> QED BY <1>4, <1>5, <1>6 DEF l, r

\* The rows change by one account, added, put in or taken out.
LEMMA RowsStep ==
  ASSUME [Next]_vars
  PROVE  \/ rows' = rows
         \/ \E a \in Asset, c \in Account :
              /\ Len(rows[a]) < MaxRow /\ rows' = [rows EXCEPT ![a] = Append(@, c)]
              /\ arms' = arms
         \/ \E a \in Asset : \E i \in DOMAIN rows[a], c \in Account :
              /\ rows' = [rows EXCEPT ![a][i] = c]
              /\ arms' = arms /\ "edited" \in odd'
         \/ \E a \in Asset : \E i \in DOMAIN rows[a] :
              /\ rows' = [rows EXCEPT ![a] = SubSeq(@, 1, i - 1) \o SubSeq(@, i + 1, Len(@))]
              /\ arms' = Moved(a, i)
<1> USE DEF live, server, day
<1>1. \A a \in Asset : CheckAsset(a) \/ CheckRefused(a) \/ SetInclude(a) \/ Uncheck(a)
                       \/ PanelStop(a) => rows' = rows
  BY DEF CheckAsset, CheckRefused, SetInclude, Uncheck, PanelStop
<1>2. \A a \in Asset : Signal(a) => rows' = rows
  BY DEF Signal
<1>3. \A t \in tests : Done(t) \/ Expire(t) => rows' = rows
  BY DEF Done, Expire
<1>4. MasterStart \/ MasterStop \/ Heartbeat \/ Gating \/ UNCHANGED vars => rows' = rows
  BY DEF MasterStart, MasterStop, Heartbeat, Gating, vars
<1>5. ASSUME NEW a \in Asset, AddRow(a)
      PROVE  \E c \in Account : /\ Len(rows[a]) < MaxRow /\ arms' = arms
                                /\ rows' = [rows EXCEPT ![a] = Append(@, c)]
  BY <1>5 DEF AddRow
<1>6. ASSUME NEW a \in Asset, EditRow(a)
      PROVE  \E i \in DOMAIN rows[a], c \in Account :
               /\ rows' = [rows EXCEPT ![a][i] = c]
               /\ arms' = arms /\ "edited" \in odd'
  BY <1>6 DEF EditRow
<1>7. ASSUME NEW a \in Asset, DeleteRow(a)
      PROVE  \E i \in DOMAIN rows[a] :
              /\ rows' = [rows EXCEPT ![a] = SubSeq(@, 1, i - 1) \o SubSeq(@, i + 1, Len(@))]
              /\ arms' = Moved(a, i)
  BY <1>7 DEF DeleteRow, Moved
<1> QED BY <1>1, <1>2, <1>3, <1>4, <1>5, <1>6, <1>7 DEF Next

LEMMA RowsTypedStep ==
  ASSUME MaxRow \in Nat, RowsTyped, [Next]_vars
  PROVE  RowsTyped'
<1>0. /\ rows \in [Asset -> Seq(Account)]
      /\ \A a \in Asset : rows[a] \in Seq(Account) /\ Len(rows[a]) \in Nat /\ Len(rows[a]) <= MaxRow
  BY DEF RowsTyped
<1>1. ASSUME NEW a \in Asset, NEW s \in Seq(Account), rows' = [rows EXCEPT ![a] = s],
             Len(s) <= MaxRow
      PROVE  RowsTyped'
  BY <1>0, <1>1 DEF RowsTyped
<1>2. ASSUME NEW a \in Asset, NEW c \in Account, Len(rows[a]) < MaxRow,
             rows' = [rows EXCEPT ![a] = Append(@, c)]
      PROVE  RowsTyped'
  <2>1. Append(rows[a], c) \in Seq(Account) /\ Len(Append(rows[a], c)) <= MaxRow
    BY <1>0, <1>2
  <2> QED BY <1>1, <1>2, <2>1
<1>3. ASSUME NEW a \in Asset, NEW i \in DOMAIN rows[a], NEW c \in Account,
             rows' = [rows EXCEPT ![a][i] = c]
      PROVE  RowsTyped'
  <2>1. [rows[a] EXCEPT ![i] = c] \in Seq(Account) /\ Len([rows[a] EXCEPT ![i] = c]) <= MaxRow
    BY <1>0
  <2> QED BY <1>1, <1>3, <2>1
<1>4. ASSUME NEW a \in Asset, NEW i \in DOMAIN rows[a],
             rows' = [rows EXCEPT ![a] = SubSeq(@, 1, i - 1) \o SubSeq(@, i + 1, Len(@))]
      PROVE  RowsTyped'
  <2> DEFINE d == SubSeq(rows[a], 1, i - 1) \o SubSeq(rows[a], i + 1, Len(rows[a]))
  <2>1. d \in Seq(Account) /\ Len(d) = Len(rows[a]) - 1
    BY <1>0, DeletedIs
  <2>2. rows' = [rows EXCEPT ![a] = d]
    BY <1>4
  <2> HIDE DEF d
  <2>3. Len(d) <= MaxRow
    BY <1>0, <2>1
  <2> QED BY <1>1, <2>1, <2>2, <2>3
<1>5. rows' = rows => RowsTyped'
  BY DEF RowsTyped
<1> QED BY RowsStep, <1>2, <1>3, <1>4, <1>5

\* The rows of an asset, with their places.
LEMMA RowsOf ==
  ASSUME MaxRow \in Nat, RowsTyped, NEW S \in SUBSET Asset
  PROVE  UNION {Rows(a) : a \in S} \subseteq Asset \X (1 .. MaxRow) \X Account
<1> SUFFICES ASSUME NEW a \in S, NEW i \in DOMAIN rows[a]
             PROVE  <<a, i, rows[a][i]>> \in Asset \X (1 .. MaxRow) \X Account
  BY DEF Rows
<1>1. rows[a] \in Seq(Account) /\ Len(rows[a]) <= MaxRow /\ a \in Asset
  BY DEF RowsTyped
<1>2. i \in 1 .. Len(rows[a]) /\ rows[a][i] \in Account /\ Len(rows[a]) \in Nat
  BY <1>1
<1> QED BY <1>1, <1>2

LEMMA TestsTypedStep ==
  ASSUME MaxRow \in Nat, RowsTyped, AssetsTyped, TestsTyped, [Next]_vars
  PROVE  AssetsTyped' /\ TestsTyped'
<1> USE DEF live, server, day
<1>1. ASSUME NEW kind, NEW as \in SUBSET Asset, NEW auto, Test(kind, as, auto)
      PROVE  TestsTyped'
  <2> DEFINE n == [kind |-> kind, assets |-> as, auto |-> auto, fresh |-> TRUE,
                   held |-> TRUE, rows |-> UNION {Rows(a) : a \in as}]
  <2>1. TestTyped(n)
    <3>1. n.rows = UNION {Rows(a) : a \in as} /\ n.assets = as /\ TestShape(n)
      BY DEF TestShape
    <3> QED BY <3>1, RowsOf DEF TestTyped
  <2>2. tests' = tests \union {n}
    BY <1>1 DEF Test
  <2> HIDE DEF n
  <2>3. \A t \in tests' : TestTyped(t)
    BY <2>1, <2>2 DEF TestsTyped
  <2> QED BY <2>3 DEF TestsTyped, TestTyped, TestShape
<1>2. ASSUME tests' = Stale PROVE TestsTyped'
  <2>1. ASSUME NEW t \in tests PROVE TestTyped([t EXCEPT !.fresh = FALSE])
    <3> DEFINE u == [t EXCEPT !.fresh = FALSE]
    <3>1. TestTyped(t)
      BY DEF TestsTyped
    <3>2. u = [kind |-> t.kind, assets |-> t.assets, auto |-> t.auto, fresh |-> FALSE,
               held |-> t.held, rows |-> t.rows]
      BY <3>1, TestIs DEF TestTyped
    <3> HIDE DEF u
    <3>3. /\ u.kind = t.kind /\ u.assets = t.assets /\ u.auto = t.auto /\ u.fresh = FALSE
          /\ u.held = t.held /\ u.rows = t.rows
      BY <3>2
    <3>4. TestTyped(u)
      BY <3>1, <3>2, <3>3 DEF TestTyped, TestShape
    <3> QED BY <3>4 DEF u
  <2>2. \A t \in tests' : TestTyped(t)
    BY <1>2, <2>1 DEF Stale
  <2> QED BY <2>2 DEF TestsTyped, TestTyped, TestShape
<1>3. ASSUME tests' \subseteq tests PROVE TestsTyped'
  BY <1>3 DEF TestsTyped, TestTyped, TestShape
<1>4. CASE MasterStart
  BY <1>1, <1>4 DEF MasterStart, AssetsTyped
<1>5. ASSUME NEW a \in Asset, CheckAsset(a) PROVE AssetsTyped' /\ TestsTyped'
  BY <1>1, <1>5 DEF CheckAsset, AssetsTyped
<1>6. CASE MasterStop
  BY <1>2, <1>6 DEF MasterStop, AssetsTyped
<1>7. ASSUME NEW a \in Asset, Uncheck(a) PROVE AssetsTyped' /\ TestsTyped'
  BY <1>2, <1>3, <1>7 DEF Uncheck, AssetsTyped
<1>8. ASSUME NEW a \in Asset,
             \/ CheckRefused(a) \/ SetInclude(a) \/ PanelStop(a) \/ AddRow(a)
             \/ EditRow(a) \/ DeleteRow(a) \/ Signal(a)
      PROVE  AssetsTyped' /\ TestsTyped'
  BY <1>3, <1>8 DEF CheckRefused, SetInclude, PanelStop, AddRow, EditRow, DeleteRow, Signal, AssetsTyped
<1>9. CASE Heartbeat \/ Gating \/ UNCHANGED vars
  BY <1>3, <1>9 DEF Heartbeat, Gating, vars, AssetsTyped
<1>10. ASSUME NEW t \in tests, Done(t) PROVE AssetsTyped' /\ TestsTyped'
  <2>1. tests' \subseteq tests /\ want' = want /\ include' \subseteq include
    BY <1>10 DEF Done
  <2> QED BY <1>3, <2>1 DEF AssetsTyped
<1>11. ASSUME NEW t \in tests, Expire(t) PROVE AssetsTyped' /\ TestsTyped'
  <2> DEFINE u == [t EXCEPT !.held = FALSE]
  <2>1. TestTyped(t)
    BY DEF TestsTyped
  <2>2. u = [kind |-> t.kind, assets |-> t.assets, auto |-> t.auto, fresh |-> t.fresh,
             held |-> FALSE, rows |-> t.rows]
    BY <2>1, TestIs DEF TestTyped
  <2>3. tests' = (tests \ {t}) \union {u} /\ include' = include /\ want' = want
    BY <1>11 DEF Expire
  <2> HIDE DEF u
  <2>4. /\ u.kind = t.kind /\ u.assets = t.assets /\ u.auto = t.auto /\ u.fresh = t.fresh
        /\ u.held = FALSE /\ u.rows = t.rows
    BY <2>2
  <2>5. TestTyped(u)
    BY <2>1, <2>2, <2>4 DEF TestTyped, TestShape
  <2>6. \A x \in tests' : TestTyped(x)
    BY <2>3, <2>5 DEF TestsTyped
  <2> QED BY <2>3, <2>6 DEF TestsTyped, TestTyped, TestShape, AssetsTyped
<1> QED BY <1>4, <1>5, <1>6, <1>7, <1>8, <1>9, <1>10, <1>11 DEF Next

\* What a passed test arms is a row of its asset, on the account it holds.
LEMMA NewPlaced ==
  ASSUME MaxRow \in Nat, RowsTyped, NEW t, TestTyped(t), NEW e \in Pairs(New(t))
  PROVE  Placed(e, rows) /\ e[1] \in Key /\ e[2] \in Account
<1>1. PICK k \in DOMAIN New(t) : e = <<k, New(t)[k]>>
  BY DEF Pairs
<1>2. PICK r \in Tested(t) : k = <<r[1], r[2]>>
  BY DEF New
<1>3. PICK a \in t.assets : r \in Rows(a) /\ r \in t.rows
  BY DEF Tested
<1>4. PICK i \in DOMAIN rows[a] : r = <<a, i, rows[a][i]>>
  BY <1>3 DEF Rows
<1>5. a \in Asset /\ rows[a] \in Seq(Account) /\ Len(rows[a]) <= MaxRow
  BY DEF TestTyped, RowsTyped
<1>6. k = <<a, i>> /\ New(t)[k] = rows[a][i]
  BY <1>2, <1>4 DEF New
<1>7. e[1] = <<a, i>> /\ e[1][1] = a /\ e[1][2] = i /\ e[2] = rows[a][i]
  BY <1>1, <1>6
<1>8. i \in 1 .. MaxRow /\ rows[a][i] \in Account
  BY <1>5
<1> QED BY <1>4, <1>5, <1>7, <1>8 DEF Placed, Key

LEMMA EntriesTypedStep ==
  ASSUME MaxRow \in Nat, ArmInv, RowsTyped, TestsTyped, EntriesTyped, [Next]_vars
  PROVE  EntriesTyped'
<1>0. Shape(arms)
  BY DEF ArmInv
<1>1. CASE Entries(arms') \subseteq Entries(arms)
  BY <1>1 DEF EntriesTyped, Entries, Pairs
<1>2. ASSUME NEW t \in tests, Entries(arms') \subseteq Entries(arms) \union Pairs(New(t))
      PROVE  \A e \in Entries(arms') : e[1] \in Key /\ e[2] \in Account
  BY <1>2, NewPlaced DEF EntriesTyped, TestsTyped
<1>3. ASSUME NEW a \in Asset, NEW i \in DOMAIN rows[a], arms' = Moved(a, i)
      PROVE  \A e \in Entries(arms') : e[1] \in Key /\ e[2] \in Account
  <2> SUFFICES ASSUME NEW e \in Entries(Moved(a, i)) PROVE e[1] \in Key /\ e[2] \in Account
    BY <1>3
  <2>1. e[1] \in Key /\ <<Before(e[1], a, i), e[2]>> \in Entries(arms)
    BY <1>0, MovedEntries
  <2> DEFINE o == <<Before(e[1], a, i), e[2]>>
  <2>2. o[2] \in Account
    BY <2>1 DEF EntriesTyped
  <2> QED BY <2>1, <2>2
<1>4. \A e \in Entries(arms') : e[1] \in Key /\ e[2] \in Account
  BY EntriesStep, <1>1, <1>2, <1>3 DEF EntriesTyped
<1> QED BY <1>4 DEF EntriesTyped, Entries, Pairs

\* Rows that are taken out, put in or deleted leave the others' entries right.
LEMMA EntriesPlacedStep ==
  ASSUME MaxRow \in Nat, ArmInv, RowsTyped, TestsTyped, EntriesTyped, EntriesPlaced,
         odd \subseteq odd', [Next]_vars
  PROVE  EntriesPlaced'
<1>0. Shape(arms)
  BY DEF ArmInv
<1> SUFFICES ASSUME "edited" \notin odd', NEW e \in Entries(arms')
             PROVE  Placed(e, rows')
  BY DEF EntriesPlaced, Entries, Pairs, Placed
<1>1. \A x \in Entries(arms) : Placed(x, rows) /\ x[1] \in Key
  BY DEF EntriesPlaced, EntriesTyped
<1>2. CASE rows' = rows
  <2>1. CASE e \in Entries(arms)
    BY <1>1, <1>2, <2>1
  <2>2. ASSUME NEW t \in tests, e \in Pairs(New(t)) PROVE Placed(e, rows')
    BY <1>2, <2>2, NewPlaced DEF TestsTyped
  <2>3. ASSUME NEW a \in Asset, NEW i \in DOMAIN rows[a],
               rows' = [rows EXCEPT ![a] = SubSeq(@, 1, i - 1) \o SubSeq(@, i + 1, Len(@))]
        PROVE  FALSE
    <3> DEFINE d == SubSeq(rows[a], 1, i - 1) \o SubSeq(rows[a], i + 1, Len(rows[a]))
    <3>1. rows[a] \in Seq(Account) /\ rows \in [Asset -> Seq(Account)]
      BY DEF RowsTyped
    <3>2. Len(d) = Len(rows[a]) - 1
      BY <3>1, DeletedIs
    <3>3. rows'[a] = d
      BY <2>3, <3>1
    <3> HIDE DEF d
    <3> QED BY <1>2, <3>1, <3>2, <3>3
  <2> QED BY EntriesStep, <2>1, <2>2, <2>3
<1>3. ASSUME NEW a \in Asset, NEW c \in Account,
             rows' = [rows EXCEPT ![a] = Append(@, c)], arms' = arms
      PROVE  Placed(e, rows')
  <2>1. Placed(e, rows)
    BY <1>1, <1>3
  <2>2. rows \in [Asset -> Seq(Account)]
    BY DEF RowsTyped
  <2>3. e[1][1] \in Asset /\ e[1][2] \in DOMAIN rows[e[1][1]] /\ rows[e[1][1]][e[1][2]] = e[2]
    BY <2>1 DEF Placed
  <2>4. \A j \in DOMAIN rows[a] : j \in DOMAIN Append(rows[a], c) /\ Append(rows[a], c)[j] = rows[a][j]
    BY <2>2
  <2>5. e[1][2] \in DOMAIN rows'[e[1][1]] /\ rows'[e[1][1]][e[1][2]] = e[2]
    BY <1>3, <2>2, <2>3, <2>4
  <2> QED BY <2>3, <2>5 DEF Placed
<1>4. ASSUME NEW a \in Asset, NEW i \in DOMAIN rows[a], arms' = Moved(a, i),
             rows' = [rows EXCEPT ![a] = SubSeq(@, 1, i - 1) \o SubSeq(@, i + 1, Len(@))]
      PROVE  Placed(e, rows')
  <2> DEFINE d == SubSeq(rows[a], 1, i - 1) \o SubSeq(rows[a], i + 1, Len(rows[a]))
             k == e[1]
  <2>1. rows[a] \in Seq(Account) /\ rows \in [Asset -> Seq(Account)] /\ i \in 1 .. Len(rows[a])
    BY DEF RowsTyped
  <2>2. /\ Len(d) = Len(rows[a]) - 1 /\ d \in Seq(Account)
        /\ \A j \in 1 .. i - 1 : d[j] = rows[a][j]
        /\ \A j \in i .. Len(rows[a]) - 1 : d[j] = rows[a][j + 1]
    BY <2>1, DeletedIs
  <2>3. rows' = [rows EXCEPT ![a] = d]
    BY <1>4
  <2> HIDE DEF d
  <2>4. k \in Key /\ <<Before(k, a, i), e[2]>> \in Entries(arms)
    BY <1>0, <1>4, MovedEntries
  <2>5. /\ Before(k, a, i)[1] \in Asset
        /\ Before(k, a, i)[2] \in DOMAIN rows[Before(k, a, i)[1]]
        /\ rows[Before(k, a, i)[1]][Before(k, a, i)[2]] = e[2]
    <3> DEFINE o == <<Before(k, a, i), e[2]>>
    <3>1. Placed(o, rows) /\ o[1] = Before(k, a, i) /\ o[2] = e[2]
      BY <1>1, <2>4
    <3> QED BY <3>1 DEF Placed
  <2>6. k[1] \in Asset /\ k[2] \in Nat /\ k[2] >= 1
    BY <2>4 DEF Key
  <2> HIDE DEF k
  <2>7. CASE k[1] = a /\ k[2] >= i
    <3>1. Before(k, a, i)[1] = a /\ Before(k, a, i)[2] = k[2] + 1
      BY <2>7 DEF Before
    <3>2. k[2] + 1 \in 1 .. Len(rows[a]) /\ rows[a][k[2] + 1] = e[2]
      BY <2>1, <2>5, <3>1
    <3>3. k[2] \in i .. Len(rows[a]) - 1 /\ k[2] \in 1 .. Len(d)
      BY <2>1, <2>2, <2>6, <2>7, <3>2
    <3>4. d[k[2]] = e[2]
      BY <2>2, <3>2, <3>3
    <3>5. rows'[a] = d /\ DOMAIN d = 1 .. Len(d)
      BY <2>1, <2>2, <2>3
    <3>6. Placed(e, rows')
      BY <2>6, <2>7, <3>3, <3>4, <3>5 DEF Placed, k
    <3> QED BY <3>6
  <2>8. CASE k[1] = a /\ ~(k[2] >= i)
    <3>1. Before(k, a, i) = k
      BY <2>8 DEF Before
    <3>2. rows[a][k[2]] = e[2]
      BY <2>5, <2>8, <3>1
    <3>3. k[2] \in 1 .. i - 1 /\ k[2] \in 1 .. Len(d)
      BY <2>1, <2>2, <2>6, <2>8
    <3>4. d[k[2]] = e[2]
      BY <2>2, <3>2, <3>3
    <3>5. rows'[a] = d /\ DOMAIN d = 1 .. Len(d)
      BY <2>1, <2>2, <2>3
    <3>6. Placed(e, rows')
      BY <2>6, <2>8, <3>3, <3>4, <3>5 DEF Placed, k
    <3> QED BY <3>6
  <2>9. CASE k[1] # a
    <3>1. Before(k, a, i) = k
      BY <2>9 DEF Before
    <3>2. rows'[k[1]] = rows[k[1]]
      BY <2>1, <2>3, <2>6, <2>9
    <3> QED BY <2>5, <2>6, <3>1, <3>2 DEF Placed, k
  <2> QED BY <2>7, <2>8, <2>9
<1> QED BY RowsStep, <1>2, <1>3, <1>4

LEMMA OddGrows == [Next]_vars => odd \subseteq odd'
<1> USE DEF live, server, day
<1>1. \A a \in Asset : CheckAsset(a) \/ CheckRefused(a) \/ SetInclude(a) \/ Uncheck(a) \/ PanelStop(a)
                       => odd \subseteq odd'
  BY DEF CheckAsset, CheckRefused, SetInclude, Uncheck, PanelStop
<1>2. \A a \in Asset : AddRow(a) \/ EditRow(a) \/ DeleteRow(a) \/ Signal(a) => odd \subseteq odd'
  BY DEF AddRow, EditRow, DeleteRow, Signal
<1>3. \A t \in tests : Done(t) \/ Expire(t) => odd \subseteq odd'
  BY DEF Done, Expire
<1>4. MasterStart \/ MasterStop \/ Heartbeat \/ Gating \/ UNCHANGED vars => odd \subseteq odd'
  BY DEF MasterStart, MasterStop, Heartbeat, Gating, vars
<1> QED BY <1>1, <1>2, <1>3, <1>4 DEF Next

LEMMA PlaceStep ==
  ASSUME MaxRow \in Nat, ArmInv, PlaceInv, [Next]_vars
  PROVE  PlaceInv'
  BY RowsTypedStep, TestsTypedStep, EntriesTypedStep, EntriesPlacedStep, OddGrows DEF PlaceInv

LEMMA PlacedFollow == PlaceInv => KeysFollow
<1> SUFFICES ASSUME PlaceInv, "edited" \notin odd,
                    NEW f \in {arms.sig, arms.auto}, NEW k \in DOMAIN f
             PROVE  k[2] \in DOMAIN rows[k[1]] /\ rows[k[1]][k[2]] = f[k]
  BY DEF KeysFollow
<1> DEFINE e == <<k, f[k]>>
<1>1. e \in Entries(arms) /\ e[1] = k /\ e[2] = f[k]
  BY DEF Entries, Pairs
<1>2. Placed(e, rows)
  BY <1>1 DEF PlaceInv, EntriesPlaced
<1> QED BY <1>1, <1>2 DEF Placed

\* An armed row is at the place of its account, whatever rows before it are
\* deleted while it is armed or parked (_rekey_after_delete).
THEOREM RowsKeepPlace ==
  ASSUME MaxRow \in Nat
  PROVE  Spec => []KeysFollow
<1>1. ArmInv /\ PlaceInv /\ [Next]_vars => (ArmInv /\ PlaceInv)'
  BY ArmStep, PlaceStep
<1>2. Init => ArmInv /\ PlaceInv
  BY ArmInit, PlaceInit
<1> QED BY <1>1, <1>2, PlacedFollow, PTL DEF Spec

-----------------------------------------------------------------------------
(* What an outage parked. *)

LEMMA NothingOf ==
  ASSUME NEW S
  PROVE  Restrict(None, DOMAIN None \ S) = None
<1>1. DOMAIN None \ S = {}
  BY NoneIsEmpty
<1>2. Restrict(None, {}) = [x \in {} |-> None[x]]
  BY DEF Restrict
<1>3. [x \in {} |-> None[x]] = None
  <2>1. None \in Seq({}) /\ Len(None) = 0
    BY DEF None
  <2>2. None = [x \in 1 .. 0 |-> None[x]]
    BY <2>1
  <2>3. 1 .. 0 = {}
    OBVIOUS
  <2> QED BY <2>2, <2>3
<1> QED BY <1>1, <1>2, <1>3

\* A gating with the permission back leaves nothing parked, and none leaves
\* rows armed beside parked ones, where there were not both before.
LEMMA GatedParks ==
  ASSUME NEW st, Shape(st), st.sig = None \/ st.parked = None
  PROVE  /\ Gated(st).sig = None \/ Gated(st).parked = None
         /\ gate \in {"use", "auto"} => Gated(st).parked = None
<1> DEFINE d == Dropped(st)
<1>1. /\ Shape(d)
      /\ d.sig = (IF MayUse THEN st.sig ELSE None)
  BY DroppedIs
<1>2. MayUse => d.parked = st.parked
  BY DEF Dropped, Shape
<1>3. d.sig = None \/ d.parked = None
  BY <1>1, <1>2
<1>4. \/ Gated(st) = d /\ (d.parked = None \/ d.sig # None \/ ~(MayUse /\ LiveOk))
      \/ Gated(st) = [d EXCEPT !.parked = None]
      \/ Gated(st) = Resumed(d)
  BY DEF Gated
<1> HIDE DEF d
<1>5. ASSUME NEW n, n = [d EXCEPT !.parked = None] PROVE n.parked = None
  BY <1>1, <1>5 DEF Shape
<1>6. ASSUME NEW n, n = Resumed(d) PROVE n.parked = None
  BY <1>1, <1>6 DEF Resumed, Shape
<1>7. gate \in {"use", "auto"} => MayUse /\ LiveOk
  BY DEF MayUse, LiveOk
<1> QED BY <1>3, <1>4, <1>5, <1>6, <1>7

ParkedInv ==
  /\ "early" \notin odd => arms.sig = None \/ arms.parked = None
  /\ NoneLeftParked

LEMMA ParkedInit == Init => ParkedInv
<1> SUFFICES ASSUME Init PROVE ParkedInv
  OBVIOUS
<1>1. arms = [sig |-> None, auto |-> None, parked |-> None, watch |-> FALSE, ctx |-> ""]
  BY DEF Init
<1>2. arms.sig = None /\ arms.parked = None
  BY <1>1
<1> QED BY <1>2 DEF ParkedInv, NoneLeftParked

LEMMA ParkedStep ==
  ASSUME ArmInv, ParkedInv, [Next]_vars
  PROVE  ParkedInv'
<1>0. Shape(arms) /\ odd \subseteq odd'
  BY OddGrows DEF ArmInv
<1>1. ASSUME \/ arms'.parked = None
             \/ arms'.parked = arms.parked /\ UNCHANGED <<gate, due>>
             \/ arms'.parked = arms.parked /\ due' = TRUE,
             arms'.sig = arms.sig \/ arms'.sig = None
      PROVE  ParkedInv'
  BY <1>0, <1>1 DEF ParkedInv, NoneLeftParked
<1> USE DEF live, server, day
<1>2. CASE MasterStart
  <2>1. arms'.parked = arms.parked /\ arms'.sig = arms.sig
    BY <1>0, <1>2 DEF MasterStart, Shape
  <2> QED BY <1>1, <1>2, <2>1 DEF MasterStart
<1>3. CASE MasterStop
  <2>1. arms'.parked = None /\ arms'.sig = None
    BY <1>0, <1>3 DEF MasterStop, Shape
  <2> QED BY <1>1, <2>1
<1>4. CASE Heartbeat
  BY <1>1, <1>4 DEF Heartbeat
<1>5. CASE Gating
  <2>1. arms' = Gated(arms) /\ UNCHANGED <<gate, odd>>
    BY <1>5 DEF Gating
  <2>2. "early" \notin odd =>
          /\ Gated(arms).sig = None \/ Gated(arms).parked = None
          /\ gate \in {"use", "auto"} => Gated(arms).parked = None
    BY <1>0, GatedParks DEF ParkedInv
  <2> QED BY <2>1, <2>2 DEF ParkedInv, NoneLeftParked
<1>6. ASSUME NEW a \in Asset, CheckAsset(a) \/ CheckRefused(a) PROVE ParkedInv'
  <2>1. arms'.parked = arms.parked /\ arms'.sig = arms.sig
    BY <1>0, <1>6 DEF CheckAsset, CheckRefused, Shape
  <2> QED BY <1>1, <1>6, <2>1 DEF CheckAsset, CheckRefused
<1>7. ASSUME NEW a \in Asset, SetInclude(a) \/ AddRow(a) \/ EditRow(a) \/ Signal(a)
      PROVE  ParkedInv'
  BY <1>1, <1>7 DEF SetInclude, AddRow, EditRow, Signal
<1>8. ASSUME NEW a \in Asset, Uncheck(a) \/ PanelStop(a) PROVE ParkedInv'
  <2>1. UNCHANGED <<gate, due>> /\ (arms' = arms \/ arms' = Disarmed(a))
    BY <1>8 DEF Uncheck, PanelStop
  <2>2. Disarmed(a).parked = arms.parked /\ Disarmed(a).sig = Without(arms.sig, a)
    BY <1>0, DisarmedIs
  <2>3. arms.sig = None => Disarmed(a).sig = None
    BY <2>2, EmptyIs
  <2> QED BY <1>0, <2>1, <2>2, <2>3 DEF ParkedInv, NoneLeftParked
<1>9. ASSUME NEW a \in Asset, DeleteRow(a) PROVE ParkedInv'
  <2>1. PICK i : arms' = Moved(a, i) /\ UNCHANGED <<gate, due>>
    BY <1>9 DEF DeleteRow, Moved
  <2>2. /\ Moved(a, i).parked = Rekey(arms.parked, a, i)
        /\ Moved(a, i).sig = Rekey(arms.sig, a, i)
    BY <1>0, MovedIs
  <2>3. /\ arms.sig = None => Moved(a, i).sig = None
        /\ arms.parked = None => Moved(a, i).parked = None
    BY <2>2, EmptyIs
  <2> QED BY <1>0, <2>1, <2>3 DEF ParkedInv, NoneLeftParked
<1>10. ASSUME NEW t \in tests, Expire(t) PROVE ParkedInv'
  BY <1>1, <1>10 DEF Expire
<1>11. ASSUME NEW t \in tests, Done(t) PROVE ParkedInv'
  <2>1. UNCHANGED <<gate, due>>
    BY <1>11 DEF Done
  <2>2. CASE arms' = arms \/ arms' = [arms EXCEPT !.ctx = ""]
    <3>1. arms'.parked = arms.parked /\ arms'.sig = arms.sig
      BY <1>0, <2>2 DEF Shape
    <3> QED BY <1>1, <2>1, <3>1
  <2>3. ASSUME NEW b, Shape(b), b.parked = arms.parked \/ b.parked = None,
               arms' = Gated(Armed(b, t)),
               odd' = IF arms'.sig # None /\ arms'.parked # None THEN odd \union {"early"} ELSE odd
        PROVE  ParkedInv'
    <3> DEFINE m == Armed(b, t)
    <3>1. Shape(m) /\ m.parked = Restrict(b.parked, DOMAIN b.parked \ DOMAIN New(t))
      BY <2>3, ArmedIs
    <3>2. b.parked = None => m.parked = None
      BY <3>1, NothingOf
    <3> HIDE DEF m
    <3>3. m.parked = None /\ gate \in {"use", "auto"} => arms'.parked = None
      BY <2>3, <3>1, GatedParks DEF m
    <3>4. "early" \notin odd' => arms'.sig = None \/ arms'.parked = None
      BY <2>3
    <3> QED BY <1>0, <2>1, <2>3, <3>2, <3>3, <3>4 DEF ParkedInv, NoneLeftParked
  <2>4. CASE /\ arms' = Gated(Armed(arms, t))
             /\ odd' = IF arms'.sig # None /\ arms'.parked # None
                       THEN odd \union {"early"} ELSE odd
    BY <1>0, <2>3, <2>4
  <2>5. CASE /\ arms' = Gated(Armed([arms EXCEPT !.watch = ~t.auto, !.parked = None], t))
             /\ odd' = IF arms'.sig # None /\ arms'.parked # None
                       THEN odd \union {"early"} ELSE odd
    <3>1. ASSUME NEW b, b = [arms EXCEPT !.watch = ~t.auto, !.parked = None]
          PROVE  Shape(b) /\ b.parked = None
      BY <1>0, <3>1 DEF Shape
    <3> QED BY <2>3, <2>5, <3>1
  <2> QED BY <1>11, <2>2, <2>4, <2>5 DEF Done
<1>12. CASE UNCHANGED vars
  BY <1>1, <1>12 DEF vars
<1> QED
  BY <1>2, <1>3, <1>4, <1>5, <1>6, <1>7, <1>8, <1>9, <1>10, <1>11, <1>12 DEF Next

\* With the permission back and gated, nothing is left parked
\* (_resume_parked_sig), unless a test armed rows beside the parked ones.
THEOREM OutageEnds == Spec => []NoneLeftParked
<1>1. ParkedInv => NoneLeftParked
  BY DEF ParkedInv
<1>2. ArmInv /\ ParkedInv /\ [Next]_vars => (ArmInv /\ ParkedInv)'
  BY ArmStep, ParkedStep
<1>3. Init => ArmInv /\ ParkedInv
  BY ArmInit, ParkedInit
<1> QED BY <1>1, <1>2, <1>3, PTL DEF Spec

-----------------------------------------------------------------------------
(* Types. *)

IsFn(f) == f = [k \in DOMAIN f |-> f[k]]

ArmsTyped(st) ==
  /\ IsFn(st.sig) /\ IsFn(st.auto) /\ IsFn(st.parked)
  /\ st.watch \in BOOLEAN /\ st.ctx \in {"", "use", "auto"}

TestsBounded == IsFiniteSet(tests) /\ Cardinality(tests) <= MaxTest

ServerTyped == gate \in Gates /\ killed \in BOOLEAN /\ due \in BOOLEAN

DayTyped ==
  /\ marks \subseteq Key /\ signals \in [Asset -> 0 .. MaxSignal]
  /\ traded \subseteq Asset \X Account /\ doubled \subseteq traded

RestTyped ==
  /\ session \in BOOLEAN /\ startable \in BOOLEAN
  /\ tested \subseteq Asset \X Account /\ changes \in 0 .. MaxChange

TypeInv ==
  /\ PlaceInv /\ ArmsTyped(arms)
  /\ TestsBounded /\ ServerTyped /\ DayTyped /\ RestTyped

Bounds == MaxRow \in Nat /\ MaxTest \in Nat /\ MaxSignal \in Nat /\ MaxChange \in Nat

LEMMA FnsAre ==
  /\ IsFn(None)
  /\ \A f, g : IsFn(Over(f, g))
  /\ \A f, S : IsFn(Restrict(f, S))
  /\ \A f, a, i : IsFn(Rekey(f, a, i))
<1>1. IsFn(None)
  <2>1. Restrict(None, DOMAIN None \ {}) = None
    BY NothingOf
  <2>2. \A f, S : IsFn(Restrict(f, S))
    BY DEF IsFn, Restrict
  <2> QED BY <2>1, <2>2
<1>2. \A f, g : IsFn(Over(f, g))
  BY DEF IsFn, Over
<1>3. \A f, S : IsFn(Restrict(f, S))
  BY DEF IsFn, Restrict
<1>4. \A f, a, i : IsFn(Rekey(f, a, i))
  <2> SUFFICES ASSUME NEW f, NEW a, NEW i PROVE IsFn(Rekey(f, a, i))
    OBVIOUS
  <2> DEFINE o(k) == IF k[1] = a /\ k[2] >= i THEN <<a, k[2] + 1>> ELSE k
             D == {k \in Key : o(k) \in DOMAIN f}
  <2>1. Rekey(f, a, i) = [k \in D |-> f[o(k)]]
    BY Zenon DEF Rekey
  <2> HIDE DEF o, D
  <2> QED BY <2>1 DEF IsFn
<1> QED BY <1>1, <1>2, <1>3, <1>4

LEMMA DroppedTyped ==
  ASSUME NEW st, Shape(st), ArmsTyped(st)
  PROVE  ArmsTyped(Dropped(st))
<1> DEFINE w == IF st.sig # None /\ MayUse THEN ~MayEnter ELSE st.watch
           c == IF st.sig # None /\ MayEnter /\ st.watch /\ st.ctx # "" THEN "auto" ELSE st.ctx
           p == IF st.sig # None /\ ~MayUse THEN Park(st) ELSE st.parked
           s == IF MayUse THEN st.sig ELSE None
           a == IF MayUse \/ Fallback THEN st.auto ELSE None
<1>1. Dropped(st) = [st EXCEPT !.parked = p, !.sig = s, !.watch = w, !.ctx = c, !.auto = a]
  BY Zenon DEF Dropped
<1>2. IsFn(p) /\ IsFn(s) /\ IsFn(a)
  BY FnsAre DEF Park, ArmsTyped
<1>3. w \in BOOLEAN
  BY Zenon DEF ArmsTyped
<1>4. c \in {"", "use", "auto"}
  BY DEF ArmsTyped
<1> HIDE DEF w, c, p, s, a
<1>5. Dropped(st) = [sig |-> s, auto |-> a, parked |-> p, watch |-> w, ctx |-> c]
  BY <1>1 DEF Shape
<1>6. /\ Dropped(st).sig = s /\ Dropped(st).auto = a /\ Dropped(st).parked = p
      /\ Dropped(st).watch = w /\ Dropped(st).ctx = c
  BY <1>5
<1> QED BY <1>2, <1>3, <1>4, <1>6 DEF ArmsTyped

LEMMA GatedTyped ==
  ASSUME NEW st, Shape(st), ArmsTyped(st)
  PROVE  ArmsTyped(Gated(st))
<1> DEFINE d == Dropped(st)
<1>1. Shape(d) /\ ArmsTyped(d)
  BY DroppedIs, DroppedTyped
<1>2. \/ Gated(st) = d
      \/ Gated(st) = [d EXCEPT !.parked = None]
      \/ Gated(st) = Resumed(d)
  BY DEF Gated
<1> HIDE DEF d
<1>3. ASSUME NEW n, n = [d EXCEPT !.parked = None] PROVE ArmsTyped(n)
  <2>1. /\ n.sig = d.sig /\ n.auto = d.auto /\ n.parked = None
        /\ n.watch = d.watch /\ n.ctx = d.ctx
    BY <1>1, <1>3 DEF Shape
  <2> QED BY <1>1, <2>1, FnsAre DEF ArmsTyped
<1>4. ASSUME NEW n, n = Resumed(d), Kept(d) # None PROVE ArmsTyped(n)
  <2> DEFINE w == ~MayEnter
             c == IF d.ctx = "" THEN "" ELSE IF MayEnter THEN "auto" ELSE "use"
             s == Kept(d)
  <2>1. n = [d EXCEPT !.parked = None, !.sig = s, !.watch = w, !.ctx = c]
    BY <1>4, Zenon DEF Resumed
  <2>2. w \in BOOLEAN
    BY Zenon
  <2>3. c \in {"", "use", "auto"} /\ IsFn(s)
    BY FnsAre DEF Kept
  <2> HIDE DEF w, c, s
  <2>4. n = [sig |-> s, auto |-> d.auto, parked |-> None, watch |-> w, ctx |-> c]
    BY <1>1, <2>1 DEF Shape
  <2>5. n.sig = s /\ n.auto = d.auto /\ n.parked = None /\ n.watch = w /\ n.ctx = c
    BY <2>4
  <2> QED BY <1>1, <2>2, <2>3, <2>5, FnsAre DEF ArmsTyped
<1>5. ASSUME Kept(d) = None PROVE Resumed(d) = [d EXCEPT !.parked = None]
  BY <1>5 DEF Resumed
<1> QED BY <1>1, <1>2, <1>3, <1>4, <1>5

LEMMA ArmedTyped ==
  ASSUME NEW st, NEW t, Shape(st), ArmsTyped(st)
  PROVE  ArmsTyped(Armed(st, t))
<1> DEFINE n == New(t)  p == Restrict(st.parked, DOMAIN st.parked \ DOMAIN n)
           s == Over(n, st.sig)  a == Over(n, st.auto)
<1>1. Armed(st, t) = [st EXCEPT !.sig = s, !.auto = a, !.parked = p]
  BY Zenon DEF Armed, New
<1>2. IsFn(p) /\ IsFn(s) /\ IsFn(a)
  BY FnsAre
<1> HIDE DEF n, p, s, a
<1>3. Armed(st, t) = [sig |-> s, auto |-> a, parked |-> p, watch |-> st.watch, ctx |-> st.ctx]
  BY <1>1 DEF Shape
<1>4. /\ Armed(st, t).sig = s /\ Armed(st, t).auto = a /\ Armed(st, t).parked = p
      /\ Armed(st, t).watch = st.watch /\ Armed(st, t).ctx = st.ctx
  BY <1>3
<1> QED BY <1>2, <1>4 DEF ArmsTyped

LEMMA DisarmedTyped ==
  ASSUME NEW a, Shape(arms), ArmsTyped(arms)
  PROVE  ArmsTyped(Disarmed(a))
<1> DEFINE s == Without(arms.sig, a)  u == Without(arms.auto, a)
<1>1. Disarmed(a) = [arms EXCEPT !.sig = s, !.auto = u]
  BY Zenon DEF Disarmed
<1>2. IsFn(s) /\ IsFn(u)
  BY FnsAre DEF Without
<1> HIDE DEF s, u
<1>3. Disarmed(a) = [sig |-> s, auto |-> u, parked |-> arms.parked,
                     watch |-> arms.watch, ctx |-> arms.ctx]
  BY <1>1 DEF Shape
<1>4. /\ Disarmed(a).sig = s /\ Disarmed(a).auto = u /\ Disarmed(a).parked = arms.parked
      /\ Disarmed(a).watch = arms.watch /\ Disarmed(a).ctx = arms.ctx
  BY <1>3
<1> QED BY <1>2, <1>4 DEF ArmsTyped

LEMMA MovedTyped ==
  ASSUME NEW a, NEW i, Shape(arms), ArmsTyped(arms)
  PROVE  ArmsTyped(Moved(a, i))
<1> DEFINE s == Rekey(arms.sig, a, i)  u == Rekey(arms.auto, a, i)
           p == Rekey(arms.parked, a, i)
<1>1. Moved(a, i) = [arms EXCEPT !.sig = s, !.auto = u, !.parked = p]
  BY Zenon DEF Moved
<1>2. IsFn(s) /\ IsFn(u) /\ IsFn(p)
  BY FnsAre
<1> HIDE DEF s, u, p
<1>3. Moved(a, i) = [sig |-> s, auto |-> u, parked |-> p, watch |-> arms.watch,
                     ctx |-> arms.ctx]
  BY <1>1 DEF Shape
<1>4. /\ Moved(a, i).sig = s /\ Moved(a, i).auto = u /\ Moved(a, i).parked = p
      /\ Moved(a, i).watch = arms.watch /\ Moved(a, i).ctx = arms.ctx
  BY <1>3
<1> QED BY <1>2, <1>4 DEF ArmsTyped

LEMMA ArmsTypedStep ==
  ASSUME Shape(arms), ArmsTyped(arms), [Next]_vars
  PROVE  ArmsTyped(arms')
<1> USE DEF live, server, day
<1>1. ASSUME NEW w \in BOOLEAN, NEW c \in {"", "use", "auto"},
             \/ arms' = [arms EXCEPT !.ctx = c] \/ arms' = [arms EXCEPT !.watch = w]
             \/ arms' = arms
             \/ arms' = [arms EXCEPT !.sig = None, !.auto = None, !.parked = None, !.ctx = c]
      PROVE  ArmsTyped(arms')
  <2>1. /\ arms'.sig = arms.sig \/ arms'.sig = None
        /\ arms'.auto = arms.auto \/ arms'.auto = None
        /\ arms'.parked = arms.parked \/ arms'.parked = None
        /\ arms'.watch = arms.watch \/ arms'.watch = w
        /\ arms'.ctx = arms.ctx \/ arms'.ctx = c
    BY <1>1 DEF Shape
  <2> QED BY <2>1, FnsAre DEF ArmsTyped
<1>2. CASE MasterStart
  <2>1. \E c \in {"", "use", "auto"} : arms' = [arms EXCEPT !.ctx = c]
    BY <1>2 DEF MasterStart
  <2> QED BY <1>1, <2>1
<1>3. CASE MasterStop
  BY <1>1, <1>3 DEF MasterStop
<1>4. CASE Gating
  BY <1>4, GatedTyped DEF Gating
<1>5. ASSUME NEW a \in Asset, CheckAsset(a) \/ CheckRefused(a) PROVE ArmsTyped(arms')
  <2> DEFINE w == arms.ctx = "use"
  <2>1. arms' = [arms EXCEPT !.watch = w] /\ w \in BOOLEAN
    BY <1>5, Zenon DEF CheckAsset, CheckRefused
  <2> HIDE DEF w
  <2> QED BY <1>1, <2>1
<1>6. ASSUME NEW a \in Asset, SetInclude(a) \/ AddRow(a) \/ EditRow(a) \/ Signal(a)
      PROVE  ArmsTyped(arms')
  BY <1>1, <1>6 DEF SetInclude, AddRow, EditRow, Signal
<1>7. ASSUME NEW a \in Asset, Uncheck(a) \/ PanelStop(a) PROVE ArmsTyped(arms')
  <2>1. arms' = Disarmed(a) \/ arms' = arms
    BY <1>7 DEF Uncheck, PanelStop
  <2> QED BY <2>1, DisarmedTyped
<1>8. ASSUME NEW a \in Asset, DeleteRow(a) PROVE ArmsTyped(arms')
  <2>1. \E i \in DOMAIN rows[a] : arms' = Moved(a, i)
    BY <1>8 DEF DeleteRow, Moved
  <2> QED BY <2>1, MovedTyped
<1>9. ASSUME NEW t \in tests, Expire(t) PROVE ArmsTyped(arms')
  BY <1>9 DEF Expire
<1>10. ASSUME NEW t \in tests, Done(t) PROVE ArmsTyped(arms')
  <2>1. CASE arms' = arms \/ arms' = [arms EXCEPT !.ctx = ""]
    BY <1>1, <2>1
  <2>2. ASSUME NEW b, Shape(b), ArmsTyped(b), arms' = Gated(Armed(b, t))
        PROVE  ArmsTyped(arms')
    BY <2>2, ArmedIs, ArmedTyped, GatedTyped
  <2>3. ASSUME NEW w \in BOOLEAN, NEW x, x = [arms EXCEPT !.watch = w, !.parked = None]
        PROVE  Shape(x) /\ ArmsTyped(x)
    <3>1. /\ Shape(x) /\ x.sig = arms.sig /\ x.auto = arms.auto /\ x.parked = None
          /\ x.watch = w /\ x.ctx = arms.ctx
      BY <2>3 DEF Shape
    <3> QED BY <3>1, FnsAre DEF ArmsTyped
  <2>4. CASE arms' = Gated(Armed(arms, t))
    BY <2>2, <2>4
  <2>5. CASE arms' = Gated(Armed([arms EXCEPT !.watch = ~t.auto, !.parked = None], t))
    <3> DEFINE w == ~t.auto
    <3>1. w \in BOOLEAN /\ arms' = Gated(Armed([arms EXCEPT !.watch = w, !.parked = None], t))
      BY <2>5, Zenon
    <3> HIDE DEF w
    <3> QED BY <2>2, <2>3, <3>1
  <2> QED BY <1>10, <2>1, <2>4, <2>5 DEF Done
<1>11. CASE Heartbeat \/ UNCHANGED vars
  BY <1>11 DEF Heartbeat, vars
<1> QED
  BY <1>2, <1>3, <1>4, <1>5, <1>6, <1>7, <1>8, <1>9, <1>10, <1>11 DEF Next

LEMMA TestsBoundedStep ==
  ASSUME MaxTest \in Nat, TestsBounded, [Next]_vars
  PROVE  TestsBounded'
<1> USE DEF live, server, day
<1>0. IsFiniteSet(tests) /\ Cardinality(tests) \in Nat /\ Cardinality(tests) <= MaxTest
  BY FS_CardinalityType DEF TestsBounded
<1>1. ASSUME NEW kind, NEW as, NEW auto, Test(kind, as, auto) PROVE TestsBounded'
  <2>1. PICK n : tests' = tests \union {n} /\ Cardinality(tests) < MaxTest
    BY <1>1 DEF Test
  <2>2. IsFiniteSet(tests \union {n}) /\ Cardinality(tests \union {n}) <= Cardinality(tests) + 1
    BY <1>0, FS_AddElement
  <2>3. IsFiniteSet(tests') /\ Cardinality(tests') <= Cardinality(tests) + 1
    BY <2>1, <2>2
  <2>4. Cardinality(tests') \in Nat
    BY <2>3, FS_CardinalityType
  <2> QED BY <1>0, <2>1, <2>3, <2>4 DEF TestsBounded
<1>2. ASSUME tests' = Stale PROVE TestsBounded'
  <2> DEFINE f == [t \in tests |-> [t EXCEPT !.fresh = FALSE]]
  <2>1. f \in Surjection(tests, Stale)
    BY DEF Surjection, Stale
  <2>2. IsFiniteSet(Stale) /\ Cardinality(Stale) <= Cardinality(tests)
    BY <1>0, <2>1, FS_Surjection
  <2>3. IsFiniteSet(tests') /\ Cardinality(tests') <= Cardinality(tests)
    BY <1>2, <2>2
  <2>4. Cardinality(tests') \in Nat
    BY <2>3, FS_CardinalityType
  <2> QED BY <1>0, <2>3, <2>4 DEF TestsBounded
<1>3. ASSUME NEW t \in tests, Done(t) PROVE TestsBounded'
  <2>1. tests' = tests \ {t}
    BY <1>3 DEF Done
  <2>2. IsFiniteSet(tests \ {t}) /\ Cardinality(tests \ {t}) = Cardinality(tests) - 1
    BY <1>0, FS_RemoveElement
  <2>3. IsFiniteSet(tests') /\ Cardinality(tests') = Cardinality(tests) - 1
    BY <2>1, <2>2
  <2> QED BY <1>0, <2>3 DEF TestsBounded
<1>4. ASSUME NEW t \in tests, Expire(t) PROVE TestsBounded'
  <2> DEFINE r == tests \ {t}  u == [t EXCEPT !.held = FALSE]
  <2>1. IsFiniteSet(r) /\ Cardinality(r) = Cardinality(tests) - 1
    BY <1>0, FS_RemoveElement
  <2>2. tests' = r \union {u}
    BY <1>4 DEF Expire
  <2> HIDE DEF r, u
  <2>3. IsFiniteSet(r \union {u}) /\ Cardinality(r \union {u}) <= Cardinality(r) + 1
    <3>1. Cardinality(r) \in Nat /\ IsFiniteSet(r)
      BY <2>1, FS_CardinalityType
    <3>2. IsFiniteSet(r \union {u})
          /\ (Cardinality(r \union {u}) = Cardinality(r)
              \/ Cardinality(r \union {u}) = Cardinality(r) + 1)
      BY <3>1, FS_AddElement
    <3> QED BY <3>1, <3>2
  <2>4. IsFiniteSet(tests') /\ Cardinality(tests') <= Cardinality(tests)
    BY <1>0, <2>1, <2>2, <2>3
  <2>5. Cardinality(tests') \in Nat
    BY <2>4, FS_CardinalityType
  <2> QED BY <1>0, <2>4, <2>5 DEF TestsBounded
<1>5. tests' = tests => TestsBounded'
  BY DEF TestsBounded
<1>6. CASE MasterStart
  BY <1>1, <1>6 DEF MasterStart
<1>7. ASSUME NEW a \in Asset, CheckAsset(a) PROVE TestsBounded'
  BY <1>1, <1>7 DEF CheckAsset
<1>8. CASE MasterStop
  BY <1>2, <1>8 DEF MasterStop
<1>9. ASSUME NEW a \in Asset, Uncheck(a) PROVE TestsBounded'
  BY <1>2, <1>5, <1>9 DEF Uncheck
<1>10. ASSUME NEW a \in Asset,
              \/ CheckRefused(a) \/ SetInclude(a) \/ PanelStop(a) \/ AddRow(a)
             \/ EditRow(a) \/ DeleteRow(a) \/ Signal(a)
       PROVE  TestsBounded'
  BY <1>5, <1>10 DEF CheckRefused, SetInclude, PanelStop, AddRow, EditRow, DeleteRow, Signal
<1>11. CASE Heartbeat \/ Gating \/ UNCHANGED vars
  BY <1>5, <1>11 DEF Heartbeat, Gating, vars
<1> QED BY <1>3, <1>4, <1>6, <1>7, <1>8, <1>9, <1>10, <1>11 DEF Next

LEMMA ServerTypedStep ==
  ASSUME ServerTyped, [Next]_vars
  PROVE  ServerTyped'
<1> USE DEF live, server, day
<1>1. CASE Heartbeat
  <2>1. gate' \in Gates /\ due' = TRUE
    BY <1>1 DEF Heartbeat
  <2>2. killed' = killed \/ killed' = (gate' = "kill")
    BY <1>1 DEF Heartbeat
  <2>3. killed' \in BOOLEAN
    BY <2>2, Zenon DEF ServerTyped
  <2> QED BY <2>1, <2>3 DEF ServerTyped
<1>2. CASE Gating
  <2>1. gate' = gate /\ killed' = killed /\ due' = FALSE
    BY <1>2 DEF Gating
  <2> QED BY <2>1 DEF ServerTyped
<1>3. ~Heartbeat /\ ~Gating => UNCHANGED server
  <2>1. \A a \in Asset : CheckAsset(a) \/ CheckRefused(a) \/ SetInclude(a) \/ Uncheck(a) \/ PanelStop(a)
                         => UNCHANGED server
    BY DEF CheckAsset, CheckRefused, SetInclude, Uncheck, PanelStop
  <2>2. \A a \in Asset : AddRow(a) \/ EditRow(a) \/ DeleteRow(a) \/ Signal(a) => UNCHANGED server
    BY DEF AddRow, EditRow, DeleteRow, Signal
  <2>3. \A t \in tests : Done(t) \/ Expire(t) => UNCHANGED server
    BY DEF Done, Expire
  <2>4. MasterStart \/ MasterStop \/ UNCHANGED vars => UNCHANGED server
    BY DEF MasterStart, MasterStop, vars
  <2> QED BY <2>1, <2>2, <2>3, <2>4 DEF Next
<1> QED BY <1>1, <1>2, <1>3 DEF ServerTyped

\* Signals enter rows that are armed.
LEMMA DayTypedStep ==
  ASSUME MaxSignal \in Nat, EntriesTyped, DayTyped, [Next]_vars
  PROVE  DayTyped'
<1> USE DEF live, server, day
<1>1. ASSUME NEW a \in Asset, Signal(a) PROVE DayTyped'
  <2> DEFINE taken == {k \in DOMAIN arms.sig \ marks : k[1] = a /\ (arms.watch \/ Same(k))}
             enters == IF arms.watch \/ ~LiveOk THEN {} ELSE {<<a, arms.sig[k]>> : k \in taken}
  <2>1. /\ signals[a] < MaxSignal /\ signals' = [signals EXCEPT ![a] = @ + 1]
        /\ marks' = marks \union taken
        /\ traded' = traded \union enters /\ doubled' = doubled \union (enters \intersect traded)
    BY <1>1 DEF Signal
  <2>2. ASSUME NEW k \in DOMAIN arms.sig PROVE k \in Key /\ arms.sig[k] \in Account
    <3> DEFINE e == <<k, arms.sig[k]>>
    <3>1. e \in Entries(arms) /\ e[1] = k /\ e[2] = arms.sig[k]
      BY DEF Entries, Pairs
    <3> QED BY <3>1 DEF EntriesTyped
  <2>3. taken \subseteq Key /\ enters \subseteq Asset \X Account
    BY <2>2
  <2>4. signals' \in [Asset -> 0 .. MaxSignal]
    <3>1. signals \in [Asset -> 0 .. MaxSignal] /\ signals[a] + 1 \in 0 .. MaxSignal
      BY <2>1 DEF DayTyped
    <3> QED BY <2>1, <3>1
  <2> HIDE DEF taken, enters
  <2> QED BY <2>1, <2>3, <2>4 DEF DayTyped
<1>2. (\A a \in Asset : ~Signal(a)) => UNCHANGED day
  <2>1. \A a \in Asset : CheckAsset(a) \/ CheckRefused(a) \/ SetInclude(a) \/ Uncheck(a) \/ PanelStop(a)
                         => UNCHANGED day
    BY DEF CheckAsset, CheckRefused, SetInclude, Uncheck, PanelStop
  <2>2. \A a \in Asset : AddRow(a) \/ EditRow(a) \/ DeleteRow(a) => UNCHANGED day
    BY DEF AddRow, EditRow, DeleteRow
  <2>3. \A t \in tests : Done(t) \/ Expire(t) => UNCHANGED day
    BY DEF Done, Expire
  <2>4. MasterStart \/ MasterStop \/ Heartbeat \/ Gating \/ UNCHANGED vars => UNCHANGED day
    BY DEF MasterStart, MasterStop, Heartbeat, Gating, vars
  <2> QED BY <2>1, <2>2, <2>3, <2>4 DEF Next
<1> QED BY <1>1, <1>2 DEF DayTyped

LEMMA RestTypedStep ==
  ASSUME MaxChange \in Nat, TestsTyped, RestTyped, [Next]_vars
  PROVE  RestTyped'
<1> USE DEF live, server, day
<1>1. /\ changes' \in 0 .. MaxChange
      /\ session' = session \/ session' \in BOOLEAN
      /\ tested' \subseteq Asset \X Account
  <2>1. \A a \in Asset : CheckAsset(a) \/ CheckRefused(a) \/ SetInclude(a) \/ Uncheck(a)
                           \/ PanelStop(a) \/ Signal(a)
                         => UNCHANGED <<changes, session, tested>>
    BY DEF CheckAsset, CheckRefused, SetInclude, Uncheck, PanelStop, Signal
  <2>2. \A a \in Asset : AddRow(a) \/ EditRow(a) \/ DeleteRow(a)
                         => Change /\ UNCHANGED <<session, tested>>
    BY DEF AddRow, EditRow, DeleteRow
  <2>3. Heartbeat => Change /\ UNCHANGED <<session, tested>>
    BY DEF Heartbeat
  <2>4. Change => changes' \in 0 .. MaxChange
    BY DEF Change, RestTyped
  <2>5. MasterStart \/ MasterStop \/ Gating \/ UNCHANGED vars =>
          /\ UNCHANGED <<changes, tested>> /\ session' \in {session, TRUE, FALSE}
    BY DEF MasterStart, MasterStop, Gating, vars
  <2>6. \A t \in tests : Expire(t) => UNCHANGED <<changes, session, tested>>
    BY DEF Expire
  <2>7. ASSUME NEW t \in tests, Done(t)
        PROVE  /\ changes' = changes /\ session' \in {session, FALSE}
               /\ tested' \subseteq Asset \X Account
    <3>1. changes' = changes /\ session' \in {session, FALSE}
      BY <2>7 DEF Done
    <3>2. tested' = tested \/ tested' = tested \union {<<r[1], r[3]>> : r \in t.rows}
      BY <2>7 DEF Done
    <3>3. {<<r[1], r[3]>> : r \in t.rows} \subseteq Asset \X Account
      BY DEF TestsTyped, TestTyped
    <3> QED BY <3>1, <3>2, <3>3 DEF RestTyped
  <2> QED
    BY <2>1, <2>2, <2>3, <2>4, <2>5, <2>6, <2>7 DEF Next, RestTyped
<1>2. session' \in BOOLEAN
  BY <1>1 DEF RestTyped
<1>3. startable' \in BOOLEAN
  <2>1. \A a \in Asset : CheckAsset(a) \/ CheckRefused(a) \/ SetInclude(a) \/ Uncheck(a)
                           \/ PanelStop(a) \/ Signal(a)
                         => UNCHANGED startable
    BY DEF CheckAsset, CheckRefused, SetInclude, Uncheck, PanelStop, Signal
  <2>2. \A a \in Asset : AddRow(a) \/ EditRow(a) \/ DeleteRow(a) => UNCHANGED startable
    BY DEF AddRow, EditRow, DeleteRow
  <2>3. Heartbeat \/ UNCHANGED vars => UNCHANGED startable
    BY DEF Heartbeat, vars
  <2>4. MasterStop \/ Gating => startable' \in BOOLEAN
    <3>1. MasterStop \/ Gating => startable' = (MayUse /\ LiveOk)
      BY DEF MasterStop, Gating
    <3> QED BY <3>1, Zenon
  <2>5. MasterStart => startable' = FALSE
    BY DEF MasterStart
  <2>6. \A t \in tests : Expire(t) => UNCHANGED startable
    BY DEF Expire
  <2>7. ASSUME NEW t \in tests, Done(t) PROVE startable' \in BOOLEAN
    <3>1. startable' \in {t.kind = "start" \/ startable, MayUse /\ LiveOk}
      BY <2>7, Zenon DEF Done
    <3> QED BY <3>1, Zenon
  <2>8. startable \in BOOLEAN
    BY DEF RestTyped
  <2> QED BY <2>1, <2>2, <2>3, <2>4, <2>5, <2>6, <2>7, <2>8 DEF Next
<1> QED BY <1>1, <1>2, <1>3 DEF RestTyped

LEMMA TypeInit ==
  ASSUME Bounds, Init
  PROVE  TypeInv
<1>1. arms = [sig |-> None, auto |-> None, parked |-> None, watch |-> FALSE, ctx |-> ""]
  BY DEF Init
<1>2. ArmsTyped(arms)
  <2>1. /\ arms.sig = None /\ arms.auto = None /\ arms.parked = None /\ arms.watch = FALSE
        /\ arms.ctx = ""
    BY <1>1
  <2> QED BY <2>1, FnsAre DEF ArmsTyped
<1>3. TestsBounded
  <2>1. tests = {}
    BY DEF Init
  <2> QED BY <2>1, FS_EmptySet DEF TestsBounded, Bounds
<1>4. ServerTyped
  <2>1. gate \in Gates /\ killed = FALSE /\ due = FALSE
    BY DEF Init
  <2> QED BY <2>1 DEF ServerTyped
<1>5. DayTyped
  <2>1. marks = {} /\ traded = {} /\ doubled = {} /\ signals = [a \in Asset |-> 0]
    BY DEF Init
  <2> QED BY <2>1 DEF DayTyped, Bounds
<1>6. RestTyped
  <2>1. session = FALSE /\ startable = TRUE /\ tested = {} /\ changes = 0
    BY DEF Init
  <2>2. session \in BOOLEAN /\ startable \in BOOLEAN
    BY <2>1
  <2>3. tested \subseteq Asset \X Account /\ changes \in 0 .. MaxChange
    BY <2>1 DEF Bounds
  <2> QED BY <2>2, <2>3 DEF RestTyped
<1> QED BY <1>2, <1>3, <1>4, <1>5, <1>6, PlaceInit DEF TypeInv, Bounds

LEMMA TypeStep ==
  ASSUME Bounds, ArmInv, TypeInv, [Next]_vars
  PROVE  TypeInv'
<1>1. PlaceInv'
  BY PlaceStep DEF TypeInv, Bounds
<1>2. ArmsTyped(arms)'
  BY ArmsTypedStep DEF TypeInv, ArmInv, ArmsTyped, IsFn
<1>3. TestsBounded' /\ ServerTyped' /\ DayTyped' /\ RestTyped'
  BY TestsBoundedStep, ServerTypedStep, DayTypedStep, RestTypedStep DEF TypeInv, PlaceInv, Bounds
<1> QED BY <1>1, <1>2, <1>3 DEF TypeInv

LEMMA TypeOKIs == TypeInv => TypeOK
<1> SUFFICES ASSUME TypeInv PROVE TypeOK
  OBVIOUS
<1>1. ASSUME NEW f, IsFn(f), Pairs(f) \subseteq Entries(arms) PROVE f \in RowFn
  <2>1. ASSUME NEW k \in DOMAIN f PROVE k \in Key /\ f[k] \in Account
    <3> DEFINE e == <<k, f[k]>>
    <3>1. e \in Entries(arms) /\ e[1] = k /\ e[2] = f[k]
      BY <1>1 DEF Pairs
    <3> QED BY <3>1 DEF TypeInv, PlaceInv, EntriesTyped
  <2>2. f \in [DOMAIN f -> Account] /\ DOMAIN f \in SUBSET Key
    BY <1>1, <2>1 DEF IsFn
  <2> QED BY <2>2 DEF RowFn
<1>2. arms.sig \in RowFn /\ arms.auto \in RowFn /\ arms.parked \in RowFn
  BY <1>1 DEF TypeInv, ArmsTyped, Entries
<1>3. arms.watch \in BOOLEAN /\ arms.ctx \in {"", "use", "auto"}
  BY DEF TypeInv, ArmsTyped
<1>4. \A a \in Asset : rows[a] \in Seq(Account) /\ Len(rows[a]) <= MaxRow
  BY DEF TypeInv, PlaceInv, RowsTyped
<1> QED
  BY <1>2, <1>3, <1>4
  DEF TypeInv, TypeOK, PlaceInv, AssetsTyped, TestsBounded, ServerTyped, DayTyped, RestTyped

\* What is armed, parked, marked and entered are rows of the assets on their
\* accounts, and there are no more tests than may be under way.
THEOREM TypeCorrect ==
  ASSUME Bounds
  PROVE  Spec => []TypeOK
<1>1. ArmInv /\ TypeInv /\ [Next]_vars => (ArmInv /\ TypeInv)'
  BY ArmStep, TypeStep
<1>2. Init => ArmInv /\ TypeInv
  BY ArmInit, TypeInit
<1>3. ArmInv /\ TypeInv => TypeOK
  BY TypeOKIs
<1> QED BY <1>1, <1>2, <1>3, PTL DEF Spec
=============================================================================
