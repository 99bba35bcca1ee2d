---------------------------- MODULE EntryProofs -----------------------------
(***************************************************************************)
(* Proofs about the entry of a signal: MCEntry puts FuturesEntry and       *)
(* CryptoEntry side by side, the constants stay as they are declared.      *)
(* First the types, then who enters (ClaimInv), what is out for a leg      *)
(* (OrderInv), whose stop is missing (SafeInv), then the same for bitcoin. *)
(***************************************************************************)
EXTENDS MCEntry, TLAPS

\* What the watch remembers.
WatcherOK ==
  /\ watch \in [Dev -> [Leg -> Mark]] /\ disk \in [Dev -> [Leg -> Mark]]
  /\ hand \subseteq Dev \X Leg
  /\ flat \in [Dev \X Leg -> 0 .. 1] /\ nostop \in [Dev \X Leg -> -1 .. 1]

LEMMA FaultsTyped ==
  ASSUME faults \in 0 .. MaxFault, NEW f, Fails(f) \/ Never
  PROVE  faults' \in 0 .. MaxFault
BY EntryAssumption DEF Fails, Never

LEMMA SavesTyped ==
  ASSUME WatcherOK, NEW d \in Dev, NEW w \in [Leg -> Mark], Saves(d, w)
  PROVE  /\ watch' \in [Dev -> [Leg -> Mark]] /\ disk' \in [Dev -> [Leg -> Mark]]
         /\ Never \/ Fails("disk")
BY DEF WatcherOK, Saves

LEMMA ClearsTyped ==
  ASSUME WatcherOK, NEW d \in Dev, NEW l \in Leg, Clears(d, l)
  PROVE  flat' \in [Dev \X Leg -> 0 .. 1] /\ nostop' \in [Dev \X Leg -> -1 .. 1]
BY DEF WatcherOK, Clears

\* One count of a record changes.
LEMMA FlatTyped ==
  ASSUME WatcherOK, NEW d \in Dev, NEW l \in Leg,
         flat' = [flat EXCEPT ![<<d, l>>] = 0] \/ flat' = [flat EXCEPT ![<<d, l>>] = 1]
  PROVE  flat' \in [Dev \X Leg -> 0 .. 1]
<1>1. CASE flat' = [flat EXCEPT ![<<d, l>>] = 0]
  BY <1>1 DEF WatcherOK
<1>2. CASE flat' = [flat EXCEPT ![<<d, l>>] = 1]
  BY <1>2 DEF WatcherOK
<1> QED BY <1>1, <1>2

LEMMA NostopTyped ==
  ASSUME WatcherOK, NEW d \in Dev, NEW l \in Leg, NEW n \in -1 .. 1,
         nostop' = [nostop EXCEPT ![<<d, l>>] = n]
  PROVE  nostop' \in [Dev \X Leg -> -1 .. 1]
BY DEF WatcherOK

LEMMA WatchAddTyped ==
  ASSUME WatcherOK, NEW d \in Dev, NEW l \in Leg, faults \in 0 .. MaxFault,
         WatchAdd(d, l)
  PROVE  WatcherOK' /\ faults' \in 0 .. MaxFault
<1>1. [watch[d] EXCEPT ![l] = "new"] \in [Leg -> Mark]
  BY DEF WatcherOK, Mark
<1> QED BY <1>1, SavesTyped, ClearsTyped, FaultsTyped DEF WatchAdd, WatcherOK

LEMMA WatchDropTyped ==
  ASSUME WatcherOK, NEW d \in Dev, NEW l \in Leg, faults \in 0 .. MaxFault,
         WatchDrop(d, l)
  PROVE  WatcherOK' /\ faults' \in 0 .. MaxFault
<1>1. CASE watch[d][l] = "no"
  BY <1>1 DEF WatcherOK, WatchDrop
<1>2. CASE watch[d][l] # "no"
  <2>1. [watch[d] EXCEPT ![l] = "no"] \in [Leg -> Mark]
    BY DEF WatcherOK, Mark
  <2> QED BY <1>2, <2>1, SavesTyped, ClearsTyped, FaultsTyped DEF WatchDrop, WatcherOK
<1> QED BY <1>1, <1>2

\* The thread of each run.
ThreadOK ==
  /\ pc \in [Dev -> {"idle", "claim", "look", "clean", "send", "stop",
       "limit", "read", "cancel", "final", "confirm", "retry", "recheck",
       "take", "place", "placed", "mend", "flatten", "done"}]
  /\ cur \in [Dev -> Leg] /\ try \in [Dev -> 0 .. MaxTry]
  /\ ans \in [Dev -> {"none", "set", "failed", "refused", "unsure"}]
  /\ qty \in [Dev -> {"none", "some", "zero", "unknown"}]

MarketOK ==
  /\ pos \in [Leg -> -1 .. 2] /\ stop \in [Leg -> 0 .. 2] /\ old \subseteq Leg
  /\ orders \subseteq [dev : Dev, leg : Leg, n : Nat, stop : 0 .. 1]

ToldOK == told \subseteq Leg \X {"unconfirmed", "bare", "rejected", "miss"}

HbOK == hb \in [Dev -> [leg : Leg \union {0}, do : {"rest", "query", "place"}]]

SetupOK ==
  /\ kind \in Kinds /\ policy \in Policies /\ size \in Leg
  /\ life \in [Dev -> 1 .. MaxLife]
  /\ claim \in {NoClaim} \union (Dev \X (1 .. MaxLife))
  /\ odd \subseteq {"claim", "loose", "raced", "skip", "crash"}

\* A heartbeat under way has picked a leg.
HbLeg == \A d \in Dev : hb[d].do # "rest" => hb[d].leg \in Leg

IType ==
  /\ ThreadOK /\ MarketOK /\ WatcherOK /\ ToldOK /\ HbOK /\ HbLeg /\ SetupOK
  /\ over \in BOOLEAN /\ faults \in 0 .. MaxFault

LEMMA TypeParts == IType <=> TypeOK /\ HbLeg
BY Zenon DEF IType, TypeOK, UTypeOK, ThreadOK, MarketOK, WatcherOK, ToldOK, HbOK, SetupOK

LEMMA TypeInit == Init => IType
<1> SUFFICES ASSUME Init PROVE IType
  OBVIOUS
<1>1. over \in BOOLEAN
  BY Zenon DEF Init, UInit
<1>2. UTypeOK
  BY <1>1, EntryAssumption DEF Init, UInit, UTypeOK, Mark, Idle
<1>3. HbLeg
  BY DEF Init, UInit, HbLeg, Idle
<1>4. TypeOK
  BY <1>2, EntryAssumption DEF Init, TypeOK
<1> QED BY <1>3, <1>4, TypeParts

LEMMA NextLegTyped ==
  ASSUME ThreadOK, NEW d \in Dev, NextLeg(d)
  PROVE  ThreadOK'
BY EntryAssumption DEF ThreadOK, NextLeg, Goto

LEMMA CappedTyped == \A n \in -1 .. 2 : Capped(n + 1) \in 0 .. 2
BY DEF Capped

LEMMA PutStopTyped ==
  ASSUME ThreadOK, MarketOK, NEW d \in Dev, faults \in 0 .. MaxFault,
         NEW step \in {"confirm", "placed"}, PutStop(d, step)
  PROVE  ThreadOK' /\ stop' \in [Leg -> 0 .. 2] /\ faults' \in 0 .. MaxFault
<1>1. ThreadOK'
  BY DEF PutStop, Answer, Goto, ThreadOK
<1>2. stop' \in [Leg -> 0 .. 2]
  BY CappedTyped DEF PutStop, MarketOK, ThreadOK
<1> QED BY <1>1, <1>2, FaultsTyped DEF PutStop

LEMMA OrderTyped ==
  ASSUME ThreadOK, NEW d \in Dev, NEW s \in 0 .. 1
  PROVE  Order(d, s) \in [dev : Dev, leg : Leg, n : Nat, stop : 0 .. 1]
BY EntryAssumption DEF ThreadOK, Order

LEMMA EntryThreadTyped ==
  ASSUME IType, NEW d \in Dev, Entry(d)
  PROVE  ThreadOK'
<1>0. ThreadOK /\ MarketOK /\ faults \in 0 .. MaxFault
  BY DEF IType
<1> USE EntryAssumption DEF Step, Goto, Answer
<1>1. CASE NextLeg(d)
  BY <1>0, <1>1, NextLegTyped
<1>2. CASE Begin(d) \/ NoAccount(d) \/ Claim(d) \/ ClaimUnanswered(d)
  BY <1>0, <1>2 DEF ThreadOK, Begin, NoAccount, Claim, ClaimUnanswered
<1>3. CASE Look(d) \/ Clean(d) \/ CleanFails(d)
  BY <1>0, <1>3 DEF ThreadOK, Look, Clean, CleanFails
<1>4. CASE Send(d) \/ SendLost(d)
  BY <1>0, <1>4 DEF ThreadOK, Send, SendLost
<1>5. CASE SendRefused(d)
  BY <1>0, <1>1, <1>5 DEF ThreadOK, SendRefused
<1>6. CASE StopOrder(d) \/ Place(d)
  BY <1>0, <1>6, PutStopTyped DEF StopOrder, Place
<1>7. CASE LimitOrder(d)
  BY <1>0, <1>7 DEF ThreadOK, LimitOrder
<1>8. CASE LimitRead(d)
  BY <1>0, <1>8 DEF ThreadOK, LimitRead
<1>9. CASE LimitCancel(d)
  BY <1>0, <1>9 DEF ThreadOK, LimitCancel
<1>10. CASE LimitFinal(d)
  BY <1>0, <1>1, <1>10 DEF ThreadOK, LimitFinal
<1>11. CASE Confirm(d)
  BY <1>0, <1>11 DEF ThreadOK, Confirm
<1>12. CASE Retry(d)
  BY <1>0, <1>1, <1>12 DEF ThreadOK, Retry
<1>13. CASE Recheck(d)
  BY <1>0, <1>1, <1>13 DEF ThreadOK, Recheck
<1>14. CASE Take(d)
  BY <1>0, <1>14 DEF ThreadOK, Take
<1>15. CASE Placed(d)
  BY <1>0, <1>1, <1>15 DEF ThreadOK, Placed
<1>16. CASE Mend(d)
  BY <1>0, <1>1, <1>16 DEF ThreadOK, Mend, Retries
<1>17. CASE Flatten(d)
  BY <1>0, <1>1, <1>17 DEF Flatten
<1> QED
  BY <1>2, <1>3, <1>4, <1>5, <1>6, <1>7, <1>8, <1>9, <1>10, <1>11, <1>12,
     <1>13, <1>14, <1>15, <1>16, <1>17 DEF Entry

LEMMA EntryMarketTyped ==
  ASSUME IType, NEW d \in Dev, Entry(d)
  PROVE  MarketOK' /\ over' = over /\ faults' \in 0 .. MaxFault
<1>0. ThreadOK /\ MarketOK /\ WatcherOK /\ faults \in 0 .. MaxFault
  BY DEF IType
<1>9. ASSUME UNCHANGED market PROVE MarketOK'
  BY <1>0, <1>9 DEF MarketOK, market
<1>1. CASE Begin(d) \/ NoAccount(d) \/ Claim(d) \/ ClaimUnanswered(d) \/ Look(d)
           \/ CleanFails(d) \/ SendRefused(d) \/ LimitRead(d) \/ LimitFinal(d) \/ Take(d)
  <2>1. UNCHANGED market /\ over' = over /\ (Never \/ \E f : Fails(f))
    BY <1>1 DEF Begin, NoAccount, Claim, ClaimUnanswered, Look, CleanFails, SendRefused,
                LimitRead, LimitFinal, Take, uvars, market, Never
  <2> QED BY <1>0, <1>9, <2>1, FaultsTyped
<1>2. CASE Clean(d)
  BY <1>0, <1>2 DEF Clean, MarketOK, Never
<1>3. CASE Send(d) \/ SendLost(d)
  <2>1. /\ \E s \in 0 .. 1 : orders' \in {orders, orders \union {Order(d, s)}}
        /\ UNCHANGED <<pos, stop, old, over>> /\ (Never \/ \E f : Fails(f))
    BY <1>3 DEF Send, SendLost, Bracket
  <2> QED BY <1>0, <2>1, OrderTyped, FaultsTyped DEF MarketOK
<1>4. CASE StopOrder(d) \/ Place(d)
  BY <1>0, <1>4, PutStopTyped DEF StopOrder, Place, MarketOK
<1>5. CASE LimitOrder(d)
  <2>1. /\ try' = [try EXCEPT ![d] = @ + 1] /\ try[d] < MaxTry
        /\ orders' \in {orders, orders \union {Order(d, 0)}}
        /\ UNCHANGED <<pos, stop, old, over>> /\ (Never \/ \E f : Fails(f))
    BY <1>5 DEF LimitOrder
  <2> QED BY <1>0, <2>1, OrderTyped, FaultsTyped DEF MarketOK
<1>6. CASE LimitCancel(d)
  <2>1. orders' \subseteq orders /\ UNCHANGED <<pos, stop, old, over>>
        /\ (Never \/ \E f : Fails(f))
    BY <1>6 DEF LimitCancel
  <2> QED BY <1>0, <2>1, FaultsTyped DEF MarketOK
<1>7. CASE Confirm(d) \/ Placed(d) \/ Recheck(d)
  <2>1. UNCHANGED market /\ over' = over
    BY <1>7 DEF Confirm, Placed, Recheck, uvars, market
  <2>2. faults' \in 0 .. MaxFault
    BY <1>0, <1>7, WatchAddTyped, WatchDropTyped
       DEF Confirm, Placed, Recheck, uvars, ThreadOK
  <2> QED BY <1>9, <2>1, <2>2
<1>8. CASE Retry(d)
  <2>1. orders' \subseteq orders /\ UNCHANGED <<pos, stop, old, over>>
        /\ (Never \/ \E f : Fails(f))
    BY <1>8 DEF Retry
  <2> QED BY <1>0, <2>1, FaultsTyped DEF MarketOK
<1>10. CASE Mend(d)
  <2>1. /\ stop' \in {stop, [stop EXCEPT ![cur[d]] = Capped(@ + 1)]}
        /\ UNCHANGED <<pos, old, orders, over>> /\ (Never \/ \E f : Fails(f))
    BY <1>10 DEF Mend
  <2> QED BY <1>0, <2>1, CappedTyped, FaultsTyped DEF MarketOK, ThreadOK
<1>11. CASE Flatten(d)
  <2>1. /\ pos' \in {pos, [pos EXCEPT ![cur[d]] = 0]}
        /\ UNCHANGED <<stop, old, orders, over>> /\ (Never \/ \E f : Fails(f))
    BY <1>11 DEF Flatten
  <2> QED BY <1>0, <2>1, FaultsTyped DEF MarketOK, ThreadOK
<1> QED
  BY <1>1, <1>2, <1>3, <1>4, <1>5, <1>6, <1>7, <1>8, <1>10, <1>11 DEF Entry

LEMMA EntryRestTyped ==
  ASSUME IType, NEW d \in Dev, Entry(d)
  PROVE  /\ WatcherOK' /\ ToldOK' /\ hb' = hb /\ life' = life /\ UNCHANGED setup
         /\ claim' \in {NoClaim} \union (Dev \X (1 .. MaxLife))
         /\ odd' \subseteq {"claim", "loose", "raced", "skip", "crash"}
<1>0. ThreadOK /\ WatcherOK /\ ToldOK /\ faults \in 0 .. MaxFault
      /\ claim \in {NoClaim} \union (Dev \X (1 .. MaxLife))
      /\ odd \subseteq {"claim", "loose", "raced", "skip", "crash"}
      /\ life \in [Dev -> 1 .. MaxLife]
  BY DEF IType, SetupOK
<1>1. ASSUME UNCHANGED watcher PROVE WatcherOK' /\ hb' = hb
  BY <1>0, <1>1 DEF WatcherOK, watcher
<1>2. ASSUME told' = told PROVE ToldOK'
  BY <1>0, <1>2 DEF ToldOK
<1>3. ASSUME NEW w \in {"unconfirmed", "bare", "rejected", "miss"}, Tells(cur[d], w)
      PROVE  ToldOK'
  BY <1>0, <1>3 DEF ToldOK, Tells, ThreadOK
<1> USE <1>0, <1>1, <1>2, <1>3
<1>4. CASE Begin(d) \/ NoAccount(d) \/ Look(d) \/ Clean(d) \/ CleanFails(d) \/ Send(d)
           \/ SendLost(d) \/ StopOrder(d) \/ LimitRead(d) \/ Place(d)
  BY <1>4 DEF Begin, NoAccount, Look, Clean, CleanFails, Send, SendLost, StopOrder,
              LimitRead, Place, uvars
<1>5. CASE Claim(d) \/ ClaimUnanswered(d)
  <2>1. Run(d) \in Dev \X (1 .. MaxLife)
    BY DEF Run
  <2>2. claim' \in {claim, Run(d)} /\ odd' \in {odd, odd \union {"claim"}}
        /\ UNCHANGED <<watcher, told, setup, life>>
    BY <1>5 DEF Claim, ClaimUnanswered
  <2> QED BY <2>1, <2>2
<1>6. CASE SendRefused(d) \/ Take(d) \/ Mend(d) \/ Flatten(d)
  BY <1>6 DEF SendRefused, Take, Mend, Flatten
<1>7. CASE LimitOrder(d) \/ LimitCancel(d)
  BY <1>7 DEF LimitOrder, LimitCancel
<1>11. CASE LimitFinal(d) \/ Retry(d)
  BY <1>11 DEF LimitFinal, Retry
<1>8. CASE Confirm(d)
  BY <1>8 DEF Confirm, uvars
<1>9. CASE Recheck(d)
  <2>1. WatcherOK'
    BY <1>9, WatchAddTyped DEF Recheck, ThreadOK, WatcherOK
  <2> QED BY <1>9, <2>1 DEF Recheck
<1>10. CASE Placed(d)
  <2>1. WatcherOK'
    BY <1>10, WatchDropTyped DEF Placed, ThreadOK
  <2> QED BY <1>10, <2>1 DEF Placed
<1> QED
  BY <1>4, <1>5, <1>6, <1>7, <1>8, <1>9, <1>10, <1>11 DEF Entry

LEMMA HeartbeatTyped ==
  ASSUME IType, NEW d \in Dev, Heartbeat(d)
  PROVE  /\ UNCHANGED <<pos, old, orders, over>> /\ stop' \in [Leg -> 0 .. 2]
         /\ WatcherOK' /\ ToldOK' /\ HbOK' /\ HbLeg' /\ faults' \in 0 .. MaxFault
<1>0. MarketOK /\ WatcherOK /\ ToldOK /\ HbOK /\ HbLeg /\ faults \in 0 .. MaxFault
  BY DEF IType
<1>1. ASSUME hb' \in {hb, [hb EXCEPT ![d] = Idle]} PROVE HbOK' /\ HbLeg'
  BY <1>0, <1>1 DEF HbOK, HbLeg, Idle
<1>2. CASE WatchQuery(d)
  <2>1. UNCHANGED <<pos, stop, old, orders, watch, disk, hand, flat, told, over>>
        /\ (Never \/ Fails("query"))
    BY <1>2 DEF WatchQuery
  <2>2. hb[d].leg \in Leg /\ hb[d].do = "query"
    BY <1>0, <1>2 DEF WatchQuery, HbLeg
  <2>3. nostop' \in [Dev \X Leg -> -1 .. 1]
    <3>1. \E n \in -1 .. 1 : nostop' = [nostop EXCEPT ![<<d, hb[d].leg>>] = n]
      BY <1>2 DEF WatchQuery
    <3> QED BY <1>0, <2>2, <3>1, NostopTyped
  <2>4. HbOK' /\ HbLeg'
    BY <1>0, <1>2, <2>2 DEF WatchQuery, HbOK, HbLeg, Idle
  <2> QED BY <1>0, <2>1, <2>3, <2>4, FaultsTyped DEF WatcherOK, MarketOK, ToldOK
<1>3. CASE WatchPlace(d)
  <2>1. UNCHANGED <<pos, old, orders, watch, disk, hand, flat, over>>
        /\ (Never \/ Fails("stop")) /\ hb' = [hb EXCEPT ![d] = Idle]
        /\ stop' \in {stop, [stop EXCEPT ![hb[d].leg] = Capped(@ + 1)]}
        /\ nostop' \in {nostop, [nostop EXCEPT ![<<d, hb[d].leg>>] = 0]}
        /\ told' \in {told, told \union {<<hb[d].leg, "bare">>}}
    BY <1>3 DEF WatchPlace
  <2>2. hb[d].leg \in Leg
    BY <1>0, <1>3 DEF WatchPlace, HbLeg
  <2>3. stop' \in [Leg -> 0 .. 2]
    BY <1>0, <2>1, <2>2, CappedTyped DEF MarketOK
  <2>4. nostop' \in [Dev \X Leg -> -1 .. 1] /\ ToldOK'
    <3>1. nostop' \in [Dev \X Leg -> -1 .. 1]
      <4>1. CASE nostop' = [nostop EXCEPT ![<<d, hb[d].leg>>] = 0]
        BY <1>0, <2>2, <4>1 DEF WatcherOK
      <4>2. CASE nostop' = nostop
        BY <1>0, <4>2 DEF WatcherOK
      <4> QED BY <2>1, <4>1, <4>2
    <3> QED BY <1>0, <2>1, <2>2, <3>1 DEF ToldOK
  <2> QED BY <1>0, <1>1, <2>1, <2>3, <2>4, FaultsTyped DEF WatcherOK
<1>4. ASSUME NEW l \in Leg,
             WatchRestores(d, l) \/ WatchFails(d, l) \/ WatchFlat(d, l)
               \/ WatchOther(d, l) \/ WatchOpen(d, l) \/ WatchExpires(d, l)
      PROVE  /\ UNCHANGED <<pos, stop, old, orders, over, told>>
             /\ WatcherOK' /\ HbOK' /\ HbLeg' /\ faults' \in 0 .. MaxFault
  <2>1. CASE WatchRestores(d, l)
    <3>1. WatcherOK'
      BY <1>0, <2>1 DEF WatchRestores, WatcherOK
    <3> QED BY <1>0, <1>1, <2>1, <3>1, FaultsTyped DEF WatchRestores
  <2>2. CASE WatchFails(d, l) \/ (WatchFlat(d, l) /\ flat[<<d, l>>] = 0)
    <3>1. flat' \in [Dev \X Leg -> 0 .. 1]
      BY <1>0, <2>2, FlatTyped DEF WatchFails, WatchFlat
    <3>2. UNCHANGED <<watch, disk, hand, nostop, hb>> /\ (UNCHANGED faults \/ Fails("list"))
      BY <2>2 DEF WatchFails, WatchFlat
    <3>3. WatcherOK'
      BY <1>0, <3>1, <3>2 DEF WatcherOK
    <3> QED BY <1>0, <1>1, <2>2, <3>2, <3>3, FaultsTyped DEF WatchFails, WatchFlat, Never
  <2>4. CASE WatchFlat(d, l) /\ flat[<<d, l>>] # 0
    BY <1>0, <1>1, <2>4, WatchDropTyped DEF WatchFlat
  <2>5. CASE WatchOther(d, l) \/ WatchExpires(d, l)
    BY <1>0, <1>1, <2>5, WatchDropTyped DEF WatchOther, WatchExpires
  <2>6. CASE WatchOpen(d, l)
    <3>1. [watch[d] EXCEPT ![l] = "seen"] \in [Leg -> Mark]
      BY <1>0 DEF WatcherOK, Mark
    <3>2. watch' \in [Dev -> [Leg -> Mark]] /\ disk' \in [Dev -> [Leg -> Mark]]
          /\ faults' \in 0 .. MaxFault
      BY <1>0, <2>6, <3>1, SavesTyped, FaultsTyped DEF WatchOpen, WatcherOK
    <3>3. WatcherOK'
      <4>1. flat' \in [Dev \X Leg -> 0 .. 1]
        BY <1>0, <2>6, FlatTyped DEF WatchOpen
      <4> QED BY <1>0, <2>6, <3>2, <4>1 DEF WatchOpen, WatcherOK
    <3>4. HbOK' /\ HbLeg'
      BY <1>0, <2>6 DEF WatchOpen, HbOK, HbLeg
    <3> QED BY <2>6, <3>2, <3>3, <3>4 DEF WatchOpen
  <2> QED BY <1>4, <2>1, <2>2, <2>4, <2>5, <2>6
<1>5. ASSUME UNCHANGED <<stop, told>> PROVE stop' \in [Leg -> 0 .. 2] /\ ToldOK'
  BY <1>0, <1>5 DEF MarketOK, ToldOK
<1> QED BY <1>2, <1>3, <1>4, <1>5 DEF Heartbeat

LEMMA EnvironmentTyped ==
  ASSUME IType, Environment
  PROVE  MarketOK' /\ UNCHANGED <<watcher, told>> /\ over' \in BOOLEAN /\ faults' \in 0 .. MaxFault
<1>0. MarketOK /\ over \in BOOLEAN /\ faults \in 0 .. MaxFault
  BY DEF IType
<1>1. CASE Fill
  <2>1. PICK o \in orders :
          /\ orders' = orders \ {o}
          /\ pos' = [pos EXCEPT ![o.leg] = Capped(@ + 1)]
          /\ stop' = [stop EXCEPT ![o.leg] = Capped(@ + o.stop)]
    BY <1>1 DEF Fill
  <2>2. UNCHANGED <<old, watcher, told, over, faults>>
    BY <1>1 DEF Fill
  <2>3. o.leg \in Leg /\ o.stop \in 0 .. 1
    BY <1>0 DEF MarketOK
  <2>4. \A n \in 0 .. 2, m \in 0 .. 1 : Capped(n + m) \in 0 .. 2
    BY DEF Capped
  <2> QED BY <1>0, <2>1, <2>2, <2>3, <2>4, CappedTyped DEF MarketOK
<1>2. CASE Dies
  BY <1>0, <1>2 DEF Dies, MarketOK
<1>3. CASE Ends
  <2>1. PICK l \in Leg :
          /\ pos' \in {[pos EXCEPT ![l] = 0], [pos EXCEPT ![l] = -1]}
          /\ stop' = [stop EXCEPT ![l] = 0] /\ old' = old \ {l}
          /\ (Never \/ Fails("other"))
    BY <1>3 DEF Ends
  <2>2. UNCHANGED <<orders, watcher, told, over>>
    BY <1>3 DEF Ends
  <2> QED BY <1>0, <2>1, <2>2, FaultsTyped DEF MarketOK
<1>4. CASE SessionEnd
  <2>1. over' \in BOOLEAN
    BY <1>4, Zenon DEF SessionEnd
  <2> QED BY <1>0, <1>4, <2>1 DEF SessionEnd, MarketOK
<1> QED BY <1>1, <1>2, <1>3, <1>4 DEF Environment

LEMMA CrashTyped ==
  ASSUME IType, NEW d \in Dev, Crash(d)
  PROVE  /\ ThreadOK' /\ MarketOK' /\ WatcherOK' /\ ToldOK' /\ life' \in [Dev -> 1 .. MaxLife]
         /\ hb' = [hb EXCEPT ![d] = Idle] /\ UNCHANGED <<over, faults, setup, claim>>
         /\ odd' \subseteq {"claim", "loose", "raced", "skip", "crash"}
<1>0. /\ ThreadOK /\ MarketOK /\ WatcherOK /\ ToldOK /\ life \in [Dev -> 1 .. MaxLife]
      /\ odd \subseteq {"claim", "loose", "raced", "skip", "crash"}
  BY DEF IType, SetupOK
<1>1. ThreadOK'
  BY <1>0, EntryAssumption DEF Crash, ThreadOK, thread, Goto
<1>2. MarketOK' /\ ToldOK' /\ UNCHANGED <<over, faults, setup, claim>>
  BY <1>0 DEF Crash, MarketOK, market, ToldOK
<1>3. life' \in [Dev -> 1 .. MaxLife]
  BY <1>0, EntryAssumption DEF Crash
<1>4. WatchRestart(d)
  BY DEF Crash
<1>5. flat' \in [Dev \X Leg -> 0 .. 1]
  BY <1>0, <1>4 DEF WatchRestart, WatcherOK
<1>6. nostop' \in [Dev \X Leg -> -1 .. 1]
  BY <1>0, <1>4 DEF WatchRestart, WatcherOK
<1>7. watch' \in [Dev -> [Leg -> Mark]] /\ disk' = disk /\ hand' \subseteq hand
      /\ hb' = [hb EXCEPT ![d] = Idle]
  BY <1>0, <1>4 DEF WatchRestart, WatcherOK
<1>8. WatcherOK'
  BY <1>0, <1>5, <1>6, <1>7 DEF WatcherOK
<1>9. odd' \subseteq {"claim", "loose", "raced", "skip", "crash"}
  BY <1>0 DEF Crash
<1> QED BY <1>1, <1>2, <1>3, <1>7, <1>8, <1>9

LEMMA TypeStep == IType /\ [Next]_vars => IType'
<1> SUFFICES ASSUME IType, [Next]_vars PROVE IType'
  OBVIOUS
<1>0. ThreadOK /\ MarketOK /\ WatcherOK /\ ToldOK /\ HbOK /\ HbLeg /\ SetupOK
      /\ over \in BOOLEAN /\ faults \in 0 .. MaxFault
  BY DEF IType
<1>s. ASSUME UNCHANGED <<setup, life, claim, odd>> PROVE SetupOK'
  BY <1>0, <1>s DEF setup, SetupOK
<1>h. ASSUME hb' = hb PROVE HbOK' /\ HbLeg'
  BY <1>0, <1>h DEF HbOK, HbLeg
<1>o. ASSUME over' = over PROVE over' \in BOOLEAN
  BY <1>0, <1>o
<1>t. ASSUME UNCHANGED thread PROVE ThreadOK'
  BY <1>0, <1>t DEF ThreadOK, thread
<1>w. ASSUME UNCHANGED <<watcher, told>> PROVE WatcherOK' /\ ToldOK' /\ hb' = hb
  BY <1>0, <1>w DEF WatcherOK, ToldOK, watcher
<1>1. CASE Environment
  <2>1. UNCHANGED <<setup, thread, life, claim, odd>>
    BY <1>1 DEF Environment
  <2> QED BY <1>0, <1>1, <2>1, <1>s, <1>h, <1>t, <1>w, EnvironmentTyped DEF IType
<1>2. ASSUME NEW d \in Dev, Entry(d) PROVE IType'
  <2>1. /\ ThreadOK' /\ MarketOK' /\ over' = over /\ faults' \in 0 .. MaxFault
        /\ WatcherOK' /\ ToldOK' /\ hb' = hb /\ life' = life /\ UNCHANGED setup
        /\ claim' \in {NoClaim} \union (Dev \X (1 .. MaxLife))
        /\ odd' \subseteq {"claim", "loose", "raced", "skip", "crash"}
    BY <1>0, <1>2, EntryThreadTyped, EntryMarketTyped, EntryRestTyped
  <2>2. SetupOK'
    BY <1>0, <2>1 DEF SetupOK, setup
  <2> QED BY <2>1, <2>2, <1>s, <1>h, <1>o DEF IType
<1>3. ASSUME NEW d \in Dev, Beat(d) PROVE IType'
  <2>1. Heartbeat(d) /\ UNCHANGED <<setup, thread, life, claim, odd>>
    BY <1>3 DEF Beat
  <2>2. /\ UNCHANGED <<pos, old, orders, over>> /\ stop' \in [Leg -> 0 .. 2]
        /\ WatcherOK' /\ ToldOK' /\ HbOK' /\ HbLeg' /\ faults' \in 0 .. MaxFault
    BY <2>1, HeartbeatTyped
  <2>3. MarketOK'
    BY <1>0, <2>2 DEF MarketOK
  <2> QED BY <2>1, <2>2, <2>3, <1>s, <1>t, <1>o DEF IType
<1>4. ASSUME NEW d \in Dev, Crash(d) PROVE IType'
  <2>1. /\ ThreadOK' /\ MarketOK' /\ WatcherOK' /\ ToldOK' /\ life' \in [Dev -> 1 .. MaxLife]
        /\ hb' = [hb EXCEPT ![d] = Idle] /\ UNCHANGED <<over, faults, setup, claim>>
        /\ odd' \subseteq {"claim", "loose", "raced", "skip", "crash"}
    BY <1>0, <1>4, CrashTyped
  <2>2. HbOK' /\ HbLeg'
    BY <1>0, <2>1 DEF HbOK, HbLeg, Idle
  <2>3. SetupOK'
    BY <1>0, <2>1 DEF SetupOK, setup
  <2> QED BY <2>1, <2>2, <2>3, <1>s, <1>o DEF IType
<1>5. CASE UNCHANGED vars
  <2>1. UNCHANGED <<market, watcher, told, over, faults, setup, thread, life, claim, odd>>
    BY <1>5 DEF vars, uvars, market
  <2>2. MarketOK' /\ faults' \in 0 .. MaxFault
    BY <1>0, <2>1 DEF MarketOK, market
  <2> QED BY <2>1, <2>2, <1>s, <1>h, <1>o, <1>t, <1>w DEF IType
<1> QED BY <1>1, <1>2, <1>3, <1>4, <1>5 DEF Next

-----------------------------------------------------------------------------
(* Who enters. *)

\* A step of one run's entry leaves the others where they are.
Others(d) ==
  \A e \in Dev \ {d} : pc'[e] = pc[e] /\ cur'[e] = cur[e] /\ ans'[e] = ans[e]

LEMMA NextLegGoesOn ==
  ASSUME ThreadOK, NEW d \in Dev, NextLeg(d)
  PROVE  /\ Others(d)
         /\ \/ pc'[d] = "done" /\ cur'[d] = cur[d]
            \/ /\ pc'[d] = IF policy = "limit" THEN "limit" ELSE "send"
               /\ cur[d] < size /\ cur'[d] = cur[d] + 1 /\ ans'[d] = "none"
BY DEF ThreadOK, NextLeg, Goto, Others

\* Where the entry of a run goes, claims apart.
LEMMA EntryGoesOn ==
  ASSUME IType, NEW d \in Dev, Entry(d)
  PROVE  /\ Others(d) /\ pc[d] # "done" /\ pc'[d] # "idle"
         /\ Entering(d) => pc'[d] # "claim" /\ claim' = claim
         /\ pc[d] = "claim" => Claim(d) \/ ClaimUnanswered(d)
         /\ pc[d] = "idle" => pc'[d] \in {"claim", "done"} /\ claim' = claim
<1>0. ThreadOK
  BY DEF IType
<1> USE <1>0 DEF ThreadOK, Others, Entering, Step, Goto, Answer, At
<1>1. CASE NextLeg(d) /\ Entering(d) /\ claim' = claim
  BY <1>1, NextLegGoesOn
<1>2. CASE Begin(d) \/ NoAccount(d) \/ Claim(d) \/ ClaimUnanswered(d)
  BY <1>2 DEF Begin, NoAccount, Claim, ClaimUnanswered
<1>3. CASE Look(d) \/ Clean(d) \/ CleanFails(d)
  BY <1>3 DEF Look, Clean, CleanFails
<1>4. CASE Send(d) \/ SendLost(d)
  BY <1>4 DEF Send, SendLost
<1>5. CASE SendRefused(d)
  BY <1>1, <1>5 DEF SendRefused
<1>6. CASE StopOrder(d) \/ Place(d)
  BY <1>6 DEF StopOrder, Place, PutStop
<1>7. CASE LimitOrder(d) \/ LimitRead(d)
  BY <1>7 DEF LimitOrder, LimitRead
<1>8. CASE LimitCancel(d)
  BY <1>8 DEF LimitCancel
<1>9. CASE LimitFinal(d)
  BY <1>1, <1>9 DEF LimitFinal
<1>10. CASE Confirm(d) \/ Take(d)
  BY <1>10 DEF Confirm, Take
<1>11. CASE Retry(d)
  BY <1>1, <1>11 DEF Retry
<1>12. CASE Recheck(d)
  BY <1>1, <1>12 DEF Recheck
<1>13. CASE Placed(d)
  BY <1>1, <1>13 DEF Placed
<1>14. CASE Mend(d)
  BY <1>1, <1>14 DEF Mend
<1>15. CASE Flatten(d)
  BY <1>1, <1>15 DEF Flatten
<1> QED
  BY <1>2, <1>3, <1>4, <1>5, <1>6, <1>7, <1>8, <1>9, <1>10, <1>11, <1>12,
     <1>13, <1>14, <1>15 DEF Entry

\* A run places orders for the leg it is at, and only while it enters it.
LEMMA EntryOrders ==
  ASSUME IType, NEW d \in Dev, Entry(d)
  PROVE  /\ life' = life /\ odd \subseteq odd'
         /\ \A o \in orders' : o \notin orders =>
              pc[d] \in {"send", "limit"} /\ o.dev = d /\ o.leg = cur[d]
<1>1. CASE Begin(d) \/ NoAccount(d) \/ Claim(d) \/ ClaimUnanswered(d) \/ Look(d)
           \/ Clean(d) \/ CleanFails(d) \/ SendRefused(d) \/ StopOrder(d) \/ LimitRead(d)
  BY <1>1 DEF Begin, NoAccount, Claim, ClaimUnanswered, Look, Clean, CleanFails, SendRefused,
              StopOrder, LimitRead, uvars, market
<1>2. CASE LimitFinal(d) \/ Confirm(d) \/ Recheck(d) \/ Take(d) \/ Place(d) \/ Placed(d)
           \/ Mend(d) \/ Flatten(d)
  BY <1>2 DEF LimitFinal, Confirm, Recheck, Take, Place, Placed, Mend, Flatten, uvars, market
<1>3. CASE Send(d) \/ SendLost(d)
  <2>1. /\ pc[d] = "send" /\ UNCHANGED <<life, odd>>
        /\ \E s \in 0 .. 1 : orders' \in {orders, orders \union {Order(d, s)}}
    BY <1>3 DEF Send, SendLost, Bracket, At
  <2> QED BY <2>1 DEF Order
<1>4. CASE LimitOrder(d)
  <2>1. /\ pc[d] = "limit" /\ life' = life /\ odd \subseteq odd'
        /\ orders' \in {orders, orders \union {Order(d, 0)}}
    BY <1>4 DEF LimitOrder, At
  <2> QED BY <2>1 DEF Order
<1>5. CASE LimitCancel(d) \/ Retry(d)
  BY <1>5 DEF LimitCancel, Retry
<1> QED BY <1>1, <1>2, <1>3, <1>4, <1>5 DEF Entry

\* While the server answers, the run that enters is the one it gave the
\* account to, and the orders are that run's or its computer's earlier one's.
ClaimInv ==
  "claim" \notin odd =>
    /\ \A d \in Dev : Entering(d) => claim = Run(d)
    /\ \A d \in Dev : claim = Run(d) => pc[d] \notin {"idle", "claim"}
    /\ claim # NoClaim => claim[2] <= life[claim[1]]
    /\ \A o \in orders : claim # NoClaim /\ o.dev = claim[1]

LEMMA ClaimStep == IType /\ ClaimInv /\ [Next]_vars => ClaimInv'
<1> SUFFICES ASSUME IType, ClaimInv, [Next]_vars, "claim" \notin odd' PROVE ClaimInv'
  BY DEF ClaimInv
<1>0. /\ pc \in [Dev -> {"idle", "claim", "look", "clean", "send", "stop",
           "limit", "read", "cancel", "final", "confirm", "retry", "recheck",
           "take", "place", "placed", "mend", "flatten", "done"}]
      /\ life \in [Dev -> 1 .. MaxLife] /\ claim \in {NoClaim} \union (Dev \X (1 .. MaxLife))
  BY DEF IType, ThreadOK, SetupOK
<1>1. ASSUME orders' \subseteq orders, UNCHANGED <<pc, life, claim, odd>> PROVE ClaimInv'
  BY <1>1 DEF ClaimInv, Entering, Run
<1>2. CASE Environment
  BY <1>1, <1>2 DEF Environment, Fill, Dies, Ends, SessionEnd, thread
<1>3. ASSUME NEW d \in Dev, Entry(d) PROVE ClaimInv'
  <2>1. "claim" \notin odd /\ life' = life
    BY <1>3, EntryOrders
  <2>2. CASE pc[d] = "claim"
    <3>1. Claim(d)
      BY <1>3, <2>2, EntryGoesOn DEF ClaimUnanswered
    <3>2. orders' = orders /\ pc'[d] \in {"look", "done"} /\ Others(d)
      BY <1>0, <1>3, <3>1, EntryGoesOn DEF Claim, Step, Goto, market
    <3>3. CASE claim = NoClaim
      <4>1. claim' = Run(d) /\ orders = {} /\ Run(d) # NoClaim
        BY <2>1, <3>1, <3>3 DEF Claim, ClaimInv, Run, NoClaim
      <4>2. \A e \in Dev : ~Entering(e)
        BY <2>1, <3>3 DEF ClaimInv, Run, NoClaim
      <4> QED BY <1>0, <2>1, <3>2, <4>1, <4>2 DEF ClaimInv, Entering, Run, Others
    <3>4. CASE claim # NoClaim
      <4>1. claim # Run(d)
        BY <2>1, <2>2 DEF ClaimInv
      <4>2. claim' = claim /\ pc'[d] = "done"
        BY <1>0, <3>1, <3>4, <4>1 DEF Claim, Step, Goto
      <4> QED BY <1>0, <2>1, <3>2, <4>1, <4>2 DEF ClaimInv, Entering, Run, Others
    <3> QED BY <3>3, <3>4
  <2>3. CASE pc[d] # "claim"
    <3>1. claim' = claim /\ Others(d) /\ pc'[d] # "idle" /\ (Entering(d) => pc'[d] # "claim")
          /\ (pc[d] = "idle" => pc'[d] \in {"claim", "done"}) /\ pc[d] # "done"
      BY <1>3, <2>3, EntryGoesOn DEF Entering
    <3>2. \A o \in orders' : o \in orders \/ (Entering(d) /\ o.dev = d)
      BY <1>3, EntryOrders DEF Entering
    <3>3. \A e \in Dev : Entering(e)' => Entering(e)
      BY <1>0, <2>3, <3>1 DEF Entering, Others
    <3>4. \A e \in Dev : pc[e] \notin {"idle", "claim"} => pc'[e] \notin {"idle", "claim"}
      BY <1>0, <3>1 DEF Entering, Others
    <3>5. \A o \in orders' : claim # NoClaim /\ o.dev = claim[1]
      BY <2>1, <3>2 DEF ClaimInv, Run, NoClaim
    <3> QED BY <2>1, <3>1, <3>3, <3>4, <3>5 DEF ClaimInv, Run
  <2> QED BY <2>2, <2>3
<1>4. ASSUME NEW d \in Dev, Beat(d) PROVE ClaimInv'
  <2>1. orders' = orders
    BY <1>4, HeartbeatTyped DEF Beat
  <2> QED BY <1>1, <1>4, <2>1 DEF Beat, thread
<1>5. ASSUME NEW d \in Dev, Crash(d) PROVE ClaimInv'
  <2>1. /\ life' = [life EXCEPT ![d] = @ + 1] /\ odd \subseteq odd'
        /\ claim' = claim /\ orders' = orders
        /\ \A e \in Dev \ {d} : pc'[e] = pc[e]
        /\ pc'[d] \in {"idle", "done"}
    BY <1>0, <1>5 DEF Crash, market, thread, Goto
  <2>2. claim # NoClaim => claim[2] <= life[claim[1]] /\ claim[1] \in Dev /\ claim[2] \in Nat
    BY <1>0, <2>1 DEF ClaimInv
  <2>3. claim # <<d, life[d] + 1>>
    <3>1. life[d] \in Nat
      BY <1>0, EntryAssumption
    <3> QED BY <2>2, <3>1 DEF NoClaim
  <2> QED BY <1>0, <2>1, <2>2, <2>3 DEF ClaimInv, Entering, Run, NoClaim
<1>6. CASE UNCHANGED vars
  BY <1>1, <1>6 DEF vars, uvars, thread
<1> QED BY <1>2, <1>3, <1>4, <1>5, <1>6 DEF Next

-----------------------------------------------------------------------------
(* An order for each leg. *)

Quiet(what) == odd \intersect what = {}
NoOrder(l) == \A o \in orders : o.leg # l
Fresh(l) == pos[l] <= 0 /\ NoOrder(l)

\* Before it looks no order is out; while it enters the legs to come are free,
\* and so is its own when it is about to send.
OrderAt(d) ==
  /\ pc[d] \in {"look", "clean"} => orders = {}
  /\ Entering(d) /\ pc[d] \notin {"look", "clean"} => \A l \in Leg : l > cur[d] => Fresh(l)
  /\ pc[d] \in {"send", "limit", "final"} => NoOrder(cur[d])
  /\ pc[d] = "send" => pos[cur[d]] <= 0
  /\ pc[d] = "limit" /\ "raced" \notin odd => pos[cur[d]] <= 0

OrdersApart == \A o, p \in orders : o.leg = p.leg => o = p

\* An order is out for a leg that is not open, unless a limit order filled
\* between its reading and its cancellation.
OrdersFlat ==
  \A o \in orders :
    \/ pos[o.leg] <= 0
    \/ /\ "raced" \in odd
       /\ "crash" \in odd \/ \E d \in Dev : pc[d] \in {"read", "cancel"} /\ cur[d] = o.leg

OrderAll ==
  /\ OrdersApart /\ OrdersFlat /\ \A d \in Dev : OrderAt(d)
  /\ "raced" \notin odd => \A l \in Leg : pos[l] <= 1

OrderInv == Quiet({"claim", "loose"}) => OrderAll

\* No order is added and no position is opened.
Lowers ==
  /\ odd \subseteq odd' /\ orders' \subseteq orders
  /\ \A l \in Leg : pos'[l] <= 0 \/ pos'[l] = pos[l]

LEMMA OrderAtStays ==
  ASSUME IType, IType', Lowers, NEW d \in Dev, OrderAt(d), pc'[d] = pc[d], cur'[d] = cur[d]
  PROVE  OrderAt(d)'
BY DEF IType, ThreadOK, MarketOK, OrderAt, Entering, Fresh, NoOrder, Lowers

LEMMA OrderAtPlain ==
  ASSUME IType, IType', Lowers, NEW d \in Dev, OrderAt(d), cur'[d] = cur[d],
         \/ pc'[d] \in {"idle", "claim", "done"}
         \/ /\ Entering(d) /\ pc[d] \notin {"look", "clean"}
            /\ pc'[d] \notin {"look", "clean", "send", "limit", "final"}
  PROVE  OrderAt(d)'
BY DEF IType, ThreadOK, MarketOK, OrderAt, Entering, Fresh, NoOrder, Lowers

LEMMA OrderAtNext ==
  ASSUME IType, IType', Lowers, NEW d \in Dev, OrderAt(d), NextLeg(d), Entering(d),
         pc[d] \notin {"look", "clean"}
  PROVE  OrderAt(d)'
<1>1. ThreadOK /\ MarketOK /\ MarketOK' /\ cur'[d] \in Leg /\ cur[d] \in Leg
  BY DEF IType, ThreadOK
<1>2. CASE pc'[d] = "done"
  BY <1>2, <1>1, NextLegGoesOn, OrderAtPlain
<1>3. CASE pc'[d] # "done"
  <2>1. pc'[d] \in {"limit", "send"} /\ cur'[d] = cur[d] + 1
    BY <1>1, <1>3, NextLegGoesOn
  <2>2. cur[d] \in Nat
    BY <1>1, EntryAssumption
  <2>3. \A l \in Leg : l >= cur'[d] => Fresh(l)'
    <3>1. ASSUME NEW l \in Leg, l >= cur'[d] PROVE l > cur[d]
      <4>1. l \in Nat
        BY EntryAssumption
      <4> QED BY <2>1, <2>2, <3>1, <4>1
    <3> QED BY <1>1, <3>1 DEF OrderAt, Fresh, NoOrder, Lowers, MarketOK
  <2>4. cur'[d] >= cur'[d] /\ \A l \in Leg : l > cur'[d] => l >= cur'[d]
    <3>1. cur'[d] \in Nat /\ \A l \in Leg : l \in Nat
      BY <1>1, EntryAssumption
    <3> QED BY <3>1
  <2> QED BY <1>1, <2>1, <2>3, <2>4 DEF OrderAt, Fresh
<1> QED BY <1>2, <1>3

\* A step that opens nothing keeps the orders apart from the positions.
LEMMA OrderLowers ==
  ASSUME IType, IType', OrderAll, Lowers, \A d \in Dev : OrderAt(d)',
         \A d \in Dev : pc[d] \in {"read", "cancel"} =>
            \/ pc'[d] \in {"read", "cancel"} /\ cur'[d] = cur[d]
            \/ \A o \in orders' : o.leg # cur[d]
            \/ "crash" \in odd'
  PROVE  OrderAll'
<1>1. OrdersApart'
  BY DEF OrderAll, OrdersApart, Lowers
<1>2. OrdersFlat'
  <2> SUFFICES ASSUME NEW o \in orders', ~(pos'[o.leg] <= 0)
      PROVE  /\ "raced" \in odd'
             /\ \/ "crash" \in odd'
                \/ \E d \in Dev : pc'[d] \in {"read", "cancel"} /\ cur'[d] = o.leg
    BY DEF OrdersFlat
  <2>1. o \in orders /\ o.leg \in Leg /\ pos'[o.leg] = pos[o.leg]
    BY DEF Lowers, IType, MarketOK
  <2>2. /\ "raced" \in odd
        /\ "crash" \in odd \/ \E d \in Dev : pc[d] \in {"read", "cancel"} /\ cur[d] = o.leg
    BY <2>1 DEF OrderAll, OrdersFlat
  <2>3. ASSUME NEW d \in Dev, pc[d] \in {"read", "cancel"}, cur[d] = o.leg
        PROVE  "crash" \in odd' \/ (pc'[d] \in {"read", "cancel"} /\ cur'[d] = o.leg)
    BY <2>3
  <2> QED BY <2>2, <2>3 DEF Lowers
<1>3. ASSUME "raced" \notin odd', NEW l \in Leg PROVE pos'[l] <= 1
  BY <1>3 DEF OrderAll, Lowers, IType, MarketOK
<1> QED BY <1>1, <1>2, <1>3 DEF OrderAll

\* The order a run sends for a leg that is free, or read as free.
LEMMA OrderAdds ==
  ASSUME IType, IType', OrderAll, NEW d \in Dev, NEW o,
         orders' = orders \union {o}, o.leg = cur[d], pos' = pos, odd' = odd,
         pc[d] \in {"send", "limit"}, pc[d] = "limit" => pc'[d] = "read",
         pc'[d] \notin {"look", "clean", "send", "limit", "final", "idle", "claim", "done"},
         cur'[d] = cur[d], Others(d), \A e \in Dev \ {d} : ~Entering(e)
  PROVE  OrderAll'
<1>0. ThreadOK /\ MarketOK /\ MarketOK' /\ Entering(d) /\ cur[d] \in Leg /\ cur[d] \in Nat
      /\ OrderAt(d)
  BY EntryAssumption DEF IType, ThreadOK, Entering, OrderAll
<1>1. NoOrder(cur[d])
  BY <1>0 DEF OrderAt
<1>2. OrdersApart'
  BY <1>1 DEF OrderAll, OrdersApart, NoOrder
<1>3. OrdersFlat'
  <2> SUFFICES ASSUME NEW p \in orders', ~(pos'[p.leg] <= 0)
      PROVE  /\ "raced" \in odd'
             /\ \/ "crash" \in odd'
                \/ \E e \in Dev : pc'[e] \in {"read", "cancel"} /\ cur'[e] = p.leg
    BY DEF OrdersFlat
  <2>1. CASE p = o
    BY <1>0, <2>1 DEF OrderAt
  <2>2. CASE p \in orders
    <3>1. \A e \in Dev : pc[e] \notin {"read", "cancel"}
      BY DEF Entering
    <3> QED BY <2>2, <3>1 DEF OrderAll, OrdersFlat
  <2> QED BY <2>1, <2>2
<1>4. ASSUME NEW e \in Dev PROVE OrderAt(e)'
  <2>1. CASE e = d
    BY <1>0, <2>1, EntryAssumption DEF OrderAt, Fresh, NoOrder, Entering
  <2>2. CASE e # d
    BY <2>2 DEF OrderAt, Others, Entering
  <2> QED BY <2>1, <2>2
<1> QED BY <1>2, <1>3, <1>4 DEF OrderAll

\* An order fills.
LEMMA OrderFills == IType /\ IType' /\ OrderAll /\ Environment /\ Fill => OrderAll'
<1> SUFFICES ASSUME IType, IType', OrderAll, Environment, Fill PROVE OrderAll'
  OBVIOUS
<1>1. PICK o \in orders : orders' = orders \ {o} /\ pos' = [pos EXCEPT ![o.leg] = Capped(@ + 1)]
  BY DEF Fill
<1>2. UNCHANGED <<pc, cur, odd>>
  BY DEF Environment, thread
<1>3. o.leg \in Leg /\ MarketOK /\ ThreadOK
  BY DEF IType, MarketOK
<1>4. \A l \in Leg \ {o.leg} : pos'[l] = pos[l]
  BY <1>1, <1>3 DEF MarketOK
<1>5. OrdersApart' /\ NoOrder(o.leg)' /\ orders' \subseteq orders
  BY <1>1 DEF OrderAll, OrdersApart, NoOrder
<1>6. OrdersFlat'
  BY <1>1, <1>2, <1>3, <1>4, <1>5 DEF OrderAll, OrdersFlat, NoOrder, MarketOK
<1>7. ASSUME NEW d \in Dev PROVE OrderAt(d)'
  <2>1. ASSUME NEW l \in Leg, Fresh(l) PROVE Fresh(l)'
    BY <1>1, <1>3, <1>4, <2>1 DEF Fresh, NoOrder
  <2>2. ASSUME NEW l \in Leg, NoOrder(l) PROVE NoOrder(l)' /\ pos'[l] = pos[l]
    BY <1>1, <1>3, <1>4, <2>2 DEF NoOrder
  <2> QED BY <1>2, <1>3, <1>5, <2>1, <2>2 DEF OrderAll, OrderAt, Entering, ThreadOK
<1>8. ASSUME "raced" \notin odd', NEW l \in Leg PROVE pos'[l] <= 1
  <2>1. pos[o.leg] <= 0 /\ pos[l] <= 1
    BY <1>2, <1>8 DEF OrderAll, OrdersFlat
  <2>2. CASE l = o.leg
    <3>1. pos[l] \in -1 .. 2 /\ pos'[l] = Capped(pos[l] + 1)
      BY <1>1, <1>3, <2>2 DEF MarketOK
    <3> QED BY <2>1, <2>2, <3>1 DEF Capped
  <2> QED BY <1>4, <2>1, <2>2
<1> QED BY <1>5, <1>6, <1>7, <1>8 DEF OrderAll

\* The steps of an entry that send nothing and look at nothing.
LEMMA OrderEntryPlain ==
  ASSUME IType, IType', OrderAll, NEW d \in Dev, Others(d), Lowers, OrderAt(d)',
         pc[d] \in {"read", "cancel"} =>
            \/ pc'[d] \in {"read", "cancel"} /\ cur'[d] = cur[d]
            \/ \A o \in orders' : o.leg # cur[d]
  PROVE  OrderAll'
<1>1. \A e \in Dev : OrderAt(e)'
  BY OrderAtStays DEF Others, OrderAll
<1> QED BY <1>1, OrderLowers DEF Others

LEMMA OrderEntry ==
  ASSUME IType, IType', ClaimInv, OrderAll, NEW d \in Dev, Entry(d),
         Quiet({"claim", "loose"})'
  PROVE  OrderAll'
<1>0. /\ ThreadOK /\ MarketOK /\ MarketOK' /\ OrderAt(d) /\ Others(d) /\ odd \subseteq odd'
      /\ "claim" \notin odd' /\ "loose" \notin odd' /\ cur[d] \in Leg
  BY EntryGoesOn, EntryOrders DEF IType, OrderAll, Quiet, ThreadOK
<1>1. Entering(d) => /\ claim = Run(d) /\ \A e \in Dev \ {d} : ~Entering(e)
                     /\ \A o \in orders : o.dev = d
  BY <1>0 DEF ClaimInv, Run
<1>2. ASSUME Lowers, cur'[d] = cur[d], pc[d] \notin {"read", "cancel"},
             \/ pc'[d] \in {"idle", "claim", "done"}
             \/ /\ Entering(d) /\ pc[d] \notin {"look", "clean"}
                /\ pc'[d] \notin {"look", "clean", "send", "limit", "final"}
      PROVE  OrderAll'
  BY <1>0, <1>2, OrderAtPlain, OrderEntryPlain
<1>3. ASSUME Lowers, NextLeg(d), Entering(d), pc[d] \notin {"look", "clean", "read", "cancel"}
      PROVE  OrderAll'
  BY <1>0, <1>3, OrderAtNext, OrderEntryPlain
<1>m. ASSUME UNCHANGED <<pos, orders>> PROVE Lowers
  BY <1>0, <1>m DEF Lowers
<1> USE <1>0 DEF Entering, Step, Goto, Answer, At, ThreadOK, market
<1>4. CASE Begin(d) \/ NoAccount(d)
  BY <1>2, <1>4, <1>m DEF Begin, NoAccount, uvars
<1>5. CASE Claim(d) \/ ClaimUnanswered(d)
  <2>1. Claim(d)
    BY <1>5 DEF ClaimUnanswered
  <2>2. Lowers /\ cur'[d] = cur[d] /\ orders' = orders /\ pc[d] = "claim"
    BY <2>1, <1>m DEF Claim
  <2>3. CASE claim \in {NoClaim, Run(d)}
    <3>1. claim = NoClaim /\ pc'[d] = "look"
      BY <2>1, <2>2, <2>3 DEF ClaimInv, Claim
    <3>2. orders' = {}
      BY <2>2, <3>1 DEF ClaimInv
    <3>3. OrderAt(d)'
      BY <3>1, <3>2 DEF OrderAt
    <3> QED BY <2>2, <3>3, OrderEntryPlain
  <2>4. CASE claim \notin {NoClaim, Run(d)}
    BY <1>2, <2>1, <2>2, <2>4 DEF Claim
  <2> QED BY <2>3, <2>4
<1>6. CASE Look(d)
  <2>1. Lowers /\ cur'[d] = cur[d] /\ UNCHANGED <<pos, orders>> /\ pc[d] = "look" /\ orders = {}
    BY <1>6, <1>m DEF Look, OrderAt
  <2>2. CASE pc'[d] = "done"
    BY <1>2, <2>1, <2>2
  <2>3. CASE pc'[d] # "done"
    <3>1. pc'[d] = "clean" \/ (Held = {} /\ pc'[d] \in {"limit", "send"})
      BY <1>6, <2>3 DEF Look
    <3>2. OrderAt(d)'
      BY <2>1, <3>1 DEF OrderAt, Held, Fresh, NoOrder, MarketOK
    <3> QED BY <2>1, <3>2, OrderEntryPlain
  <2> QED BY <2>2, <2>3
<1>7. CASE Clean(d)
  <2>1. /\ pos' = [l \in Leg |-> 0] /\ orders' = {} /\ cur'[d] = cur[d]
        /\ pc[d] = "clean" /\ pc'[d] \in {"limit", "send"} /\ odd' = odd
    BY <1>7 DEF Clean, OrderAt
  <2>2. Lowers
    BY <2>1 DEF Lowers
  <2>3. OrderAt(d)'
    BY <2>1 DEF OrderAt, Fresh, NoOrder
  <2> QED BY <2>1, <2>2, <2>3, OrderEntryPlain
<1>8. CASE CleanFails(d)
  BY <1>2, <1>8, <1>m DEF CleanFails
<1>9. CASE Send(d) \/ SendLost(d)
  <2>1. /\ pc[d] = "send" /\ UNCHANGED <<odd, pos>> /\ cur'[d] = cur[d]
        /\ pc'[d] \in {"stop", "confirm", "retry", "recheck"}
        /\ \E s \in 0 .. 1 : orders' \in {orders, orders \union {Order(d, s)}}
    BY <1>9 DEF Send, SendLost, Bracket
  <2>2. CASE orders' = orders
    BY <1>2, <1>m, <2>1, <2>2
  <2>3. CASE orders' # orders
    <3>1. PICK s \in 0 .. 1 : orders' = orders \union {Order(d, s)}
      BY <2>1, <2>3
    <3>2. Order(d, s).leg = cur[d]
      BY DEF Order
    <3> QED BY <1>1, <2>1, <3>1, <3>2, OrderAdds
  <2> QED BY <2>2, <2>3
<1>10. CASE SendRefused(d)
  BY <1>2, <1>3, <1>10, <1>m DEF SendRefused
<1>11. CASE StopOrder(d) \/ Place(d)
  BY <1>2, <1>11, <1>m DEF StopOrder, Place, PutStop
<1>12. CASE LimitOrder(d)
  <2>1. /\ pc[d] = "limit" /\ UNCHANGED <<odd, pos>> /\ cur'[d] = cur[d]
        /\ \/ /\ pc'[d] = "read" /\ orders' = orders \union {Order(d, 0)}
           \/ /\ pc'[d] = "final" /\ orders' = orders
    BY <1>12 DEF LimitOrder
  <2>2. CASE pc'[d] = "read"
    <3>1. orders' = orders \union {Order(d, 0)} /\ Order(d, 0).leg = cur[d]
      BY <2>1, <2>2 DEF Order
    <3> QED BY <1>1, <2>1, <2>2, <3>1, OrderAdds
  <2>3. CASE pc'[d] = "final"
    <3>1. OrderAt(d)' /\ Lowers
      BY <2>1, <2>3, <1>m DEF OrderAt, NoOrder, Fresh
    <3> QED BY <2>1, <3>1, OrderEntryPlain
  <2> QED BY <2>1, <2>2, <2>3
<1>13. CASE LimitRead(d)
  <2>1. /\ Lowers /\ cur'[d] = cur[d] /\ pc[d] = "read" /\ pc'[d] = "cancel"
    BY <1>13, <1>m DEF LimitRead
  <2>2. OrderAt(d)'
    BY <2>1, OrderAtPlain
  <2> QED BY <2>1, <2>2, OrderEntryPlain
<1>14. CASE LimitCancel(d)
  <2>1. /\ orders' = orders \ Mine(d) /\ pos' = pos /\ cur'[d] = cur[d] /\ pc[d] = "cancel"
        /\ pc'[d] \in {"stop", "limit", "final"}
        /\ pc'[d] = "limit" /\ "raced" \notin odd' => pos[cur[d]] <= 0
    BY <1>14 DEF LimitCancel, MarketOK
  <2>2. Lowers /\ \A o \in orders' : o.leg # cur[d]
    BY <1>1, <2>1 DEF Mine, Lowers
  <2>3. OrderAt(d)'
    BY <2>1, <2>2 DEF OrderAt, NoOrder, Fresh, Lowers
  <2> QED BY <2>2, <2>3, OrderEntryPlain
<1>15. CASE LimitFinal(d)
  <2>1. Lowers /\ pc[d] = "final" /\ UNCHANGED <<pos, orders>>
    BY <1>15, <1>m DEF LimitFinal
  <2>2. CASE NextLeg(d)
    BY <1>3, <2>1, <2>2
  <2>3. CASE ~NextLeg(d)
    <3>1. cur'[d] = cur[d] /\ (pc'[d] = "stop" \/ (pc'[d] = "send" /\ pos[cur[d]] <= 0))
      BY <1>15, <2>3 DEF LimitFinal
    <3>2. OrderAt(d)'
      BY <2>1, <3>1 DEF OrderAt, NoOrder, Fresh
    <3> QED BY <2>1, <3>2, OrderEntryPlain
  <2> QED BY <2>2, <2>3
<1>16. CASE Confirm(d)
  BY <1>2, <1>16, <1>m DEF Confirm, uvars
<1>17. CASE Retry(d)
  <2>1. pc[d] = "retry" /\ pos' = pos /\ odd \subseteq odd' /\ orders' \subseteq orders
    BY <1>17 DEF Retry
  <2>2. Lowers
    BY <2>1 DEF Lowers
  <2>3. CASE NextLeg(d)
    BY <1>3, <2>1, <2>2, <2>3
  <2>4. CASE ~NextLeg(d)
    <3>1. /\ cur'[d] = cur[d]
          /\ \/ pc'[d] = "placed"
             \/ /\ pc'[d] = "send" /\ pos[cur[d]] = 0
                /\ orders' = {o \in orders : o.leg # cur[d]}
      BY <1>17, <2>4 DEF Retry
    <3>2. OrderAt(d)'
      BY <2>1, <3>1 DEF OrderAt, NoOrder, Fresh
    <3> QED BY <2>1, <2>2, <3>2, OrderEntryPlain
  <2> QED BY <2>3, <2>4
<1>18. CASE Recheck(d)
  BY <1>2, <1>3, <1>18, <1>m DEF Recheck
<1>19. CASE Take(d)
  BY <1>2, <1>19, <1>m DEF Take
<1>20. CASE Placed(d)
  BY <1>2, <1>3, <1>20, <1>m DEF Placed
<1>21. CASE Mend(d)
  BY <1>2, <1>3, <1>21, <1>m DEF Mend
<1>22. CASE Flatten(d)
  <2>1. NextLeg(d) /\ pc[d] = "flatten" /\ orders' = orders
        /\ pos' \in {pos, [pos EXCEPT ![cur[d]] = 0]}
    BY <1>22 DEF Flatten
  <2>2. Lowers
    BY <2>1 DEF Lowers, MarketOK
  <2> QED BY <1>3, <2>1, <2>2
<1> QED
  BY <1>4, <1>5, <1>6, <1>7, <1>8, <1>9, <1>10, <1>11, <1>12, <1>13, <1>14, <1>15,
     <1>16, <1>17, <1>18, <1>19, <1>20, <1>21, <1>22 DEF Entry

LEMMA OrderStep == IType /\ IType' /\ ClaimInv /\ OrderInv /\ [Next]_vars => OrderInv'
<1> SUFFICES ASSUME IType, IType', ClaimInv, OrderInv, [Next]_vars, Quiet({"claim", "loose"})'
    PROVE  OrderAll'
  BY DEF OrderInv
<1>0. ASSUME odd \subseteq odd' PROVE OrderAll
  BY <1>0 DEF OrderInv, Quiet
<1>1. ASSUME Lowers, UNCHANGED <<pc, cur>> PROVE OrderAll'
  <2>1. OrderAll
    BY <1>0, <1>1 DEF Lowers
  <2> QED BY <1>1, <2>1, OrderAtStays, OrderLowers DEF OrderAll
<1>2. CASE Environment
  <2>1. UNCHANGED <<pc, cur, odd>>
    BY <1>2 DEF Environment, thread
  <2>2. CASE Fill
    BY <1>0, <1>2, <2>1, <2>2, OrderFills
  <2>3. CASE Dies
    BY <1>1, <2>1, <2>3 DEF Dies, Lowers
  <2>4. CASE Ends
    BY <1>1, <2>1, <2>4 DEF Ends, Lowers, IType, MarketOK
  <2>5. CASE SessionEnd
    BY <1>1, <2>1, <2>5 DEF SessionEnd, Lowers
  <2> QED BY <1>2, <2>2, <2>3, <2>4, <2>5 DEF Environment
<1>3. ASSUME NEW d \in Dev, Entry(d) PROVE OrderAll'
  BY <1>0, <1>3, EntryOrders, OrderEntry
<1>4. ASSUME NEW d \in Dev, Beat(d) PROVE OrderAll'
  BY <1>1, <1>4, HeartbeatTyped DEF Beat, thread, Lowers
<1>5. ASSUME NEW d \in Dev, Crash(d) PROVE OrderAll'
  <2>1. Lowers /\ UNCHANGED market
    BY <1>5 DEF Crash, market, Lowers
  <2>2. CASE pc[d] = "done"
    BY <1>1, <1>5, <2>1, <2>2 DEF Crash, thread
  <2>3. CASE pc[d] # "done"
    <3>1. pc' = [pc EXCEPT ![d] = "idle"] /\ cur' = [cur EXCEPT ![d] = 1] /\ "crash" \in odd'
      BY <1>5, <2>3 DEF Crash, Goto
    <3>2. OrderAll
      BY <1>0, <2>1 DEF Lowers
    <3>3. ASSUME NEW e \in Dev PROVE OrderAt(e)'
      <4>1. CASE e = d
        BY <3>1, <4>1 DEF OrderAt, IType, ThreadOK, Entering
      <4>2. CASE e # d
        BY <2>1, <3>1, <3>2, <4>2, OrderAtStays DEF OrderAll, IType, ThreadOK
      <4> QED BY <4>1, <4>2
    <3> QED BY <2>1, <3>1, <3>2, <3>3, OrderLowers
  <2> QED BY <2>2, <2>3
<1>6. CASE UNCHANGED vars
  BY <1>1, <1>6 DEF vars, uvars, thread, Lowers
<1> QED BY <1>2, <1>3, <1>4, <1>5, <1>6 DEF Next

-----------------------------------------------------------------------------
(* A position without a stop is known. *)

Told(l) == \E w \in {"unconfirmed", "bare", "miss"} : <<l, w>> \in told
Cov(l) == stop[l] > 0 \/ l \in old

\* The member knows of the leg, or it has its stop and its orders bring one.
Safe(l) ==
  \/ Told(l)
  \/ /\ pos[l] > 0 => Cov(l)
     /\ \A o \in orders : o.leg = l => o.stop > 0 \/ Cov(l)

\* The steps at which a run still has to see to its leg.
Exempt(d) ==
  \/ pc[d] \in {"limit", "read", "cancel", "final", "stop", "place", "mend", "flatten"}
  \/ pc[d] \in {"confirm", "retry", "recheck", "take", "placed"} /\ ans[d] \in {"refused", "failed"}
  \/ pc[d] \in {"recheck", "take"} /\ ans[d] = "none"

WatchTold == \A d \in Dev, l \in Leg : watch[d][l] # "no" \/ disk[d][l] # "no" => Told(l)

\* A run that has seen its position has no order of it out any more.
Settled(d) ==
  pc[d] \in {"take", "placed", "place", "mend", "flatten"} => Told(cur[d]) \/ NoOrder(cur[d])

SafeAll ==
  /\ WatchTold
  /\ \A l \in Leg : pos[l] < 0 => Told(l)
  /\ \A d \in Dev : Settled(d)
  /\ \A l \in Leg : Safe(l) \/ \E d \in Dev : Exempt(d) /\ cur[d] = l

SafeInv == Quiet({"claim", "loose", "skip", "crash"}) => SafeAll

\* No position changes, no order is added, no stop is lost.
Keeps ==
  /\ told \subseteq told' /\ pos' = pos /\ old' = old /\ orders' \subseteq orders
  /\ \A l \in Leg : stop'[l] >= stop[l]

LEMMA SafeKeeps ==
  ASSUME IType, IType', Keeps, NEW l \in Leg, Safe(l)
  PROVE  Safe(l)'
<1>1. stop[l] \in 0 .. 2 /\ stop'[l] \in 0 .. 2 /\ stop'[l] >= stop[l]
  BY DEF Keeps, IType, MarketOK
<1>2. Cov(l) => Cov(l)'
  BY <1>1 DEF Cov, Keeps
<1> QED BY <1>2 DEF Safe, Told, Keeps

\* A step of one run keeps its leg safe or still has to see to it.
LEMMA SafeMoves ==
  ASSUME SafeAll, NEW d \in Dev, Others(d), WatchTold', \A e \in Dev : Settled(e)',
         \A l \in Leg : pos'[l] < 0 => Told(l)',
         \A l \in Leg : Safe(l) \/ (Exempt(d) /\ cur[d] = l)
            => Safe(l)' \/ (Exempt(d)' /\ cur'[d] = l)
  PROVE  SafeAll'
<1>1. ASSUME NEW l \in Leg PROVE Safe(l)' \/ \E e \in Dev : Exempt(e)' /\ cur'[e] = l
  <2>1. CASE Safe(l) \/ (Exempt(d) /\ cur[d] = l)
    BY <2>1
  <2>2. CASE ~(Safe(l) \/ (Exempt(d) /\ cur[d] = l))
    <3>1. PICK e \in Dev \ {d} : Exempt(e) /\ cur[e] = l
      BY <2>2 DEF SafeAll
    <3>2. Exempt(e)' /\ cur'[e] = l
      BY <3>1 DEF Exempt, Others
    <3> QED BY <3>2
  <2> QED BY <2>1, <2>2
<1> QED BY <1>1 DEF SafeAll

LEMMA SafeQuiet ==
  ASSUME IType, IType', SafeAll, NEW d \in Dev, Others(d), Keeps, WatchTold', Settled(d)',
         Exempt(d) => Safe(cur[d]) \/ (Exempt(d)' /\ cur'[d] = cur[d])
                        \/ \E w \in {"unconfirmed", "bare", "miss"} : <<cur[d], w>> \in told'
                        \/ stop'[cur[d]] > 0
  PROVE  SafeAll'
<1>1. ASSUME NEW l \in Leg, Safe(l) \/ (Exempt(d) /\ cur[d] = l)
      PROVE  Safe(l)' \/ (Exempt(d)' /\ cur'[d] = l)
  BY <1>1, SafeKeeps DEF Safe, Told, Cov
<1>2. \A l \in Leg : pos'[l] < 0 => Told(l)'
  BY DEF Keeps, SafeAll, Told
<1>3. ASSUME NEW e \in Dev PROVE Settled(e)'
  <2>1. CASE e = d
    BY <2>1
  <2>2. CASE e # d
    BY <2>2 DEF SafeAll, Settled, Told, NoOrder, Keeps, Others
  <2> QED BY <2>1, <2>2
<1> QED BY <1>1, <1>2, <1>3, SafeMoves

\* A position that has come leaves no order of the leg.
LEMMA SafeCome ==
  ASSUME IType, OrderAll, SafeAll, NEW d \in Dev, Entering(d), "crash" \notin odd,
         \A e \in Dev \ {d} : ~Entering(e), pc[d] \notin {"read", "cancel"}, pos[cur[d]] # 0
  PROVE  Told(cur[d]) \/ NoOrder(cur[d])
<1>1. cur[d] \in Leg /\ pos[cur[d]] \in -1 .. 2
  BY DEF IType, ThreadOK, MarketOK
<1>2. CASE pos[cur[d]] < 0
  BY <1>1, <1>2 DEF SafeAll
<1>3. CASE pos[cur[d]] > 0
  <2>1. \A e \in Dev : pc[e] \notin {"read", "cancel"}
    BY DEF Entering
  <2> QED BY <1>1, <1>3, <2>1 DEF OrderAll, OrdersFlat, NoOrder
<1> QED BY <1>1, <1>2, <1>3

LEMMA CappedMore == \A n \in 0 .. 2 : Capped(n + 1) >= n /\ Capped(n + 1) > 0
BY DEF Capped

\* The watch holds legs the member knows of.
LEMMA WatchAddTold ==
  ASSUME IType, NEW d \in Dev, NEW l \in Leg, WatchTold, told \subseteq told',
         <<l, "unconfirmed">> \in told', WatchAdd(d, l) \/ UNCHANGED <<watch, disk>>
  PROVE  WatchTold'
<1>1. \A e \in Dev, m \in Leg : watch'[e][m] = watch[e][m] \/ m = l
  BY DEF WatchAdd, Saves, IType, WatcherOK
<1>2. \A e \in Dev, m \in Leg : disk'[e][m] \in {disk[e][m], watch[e][m]} \/ m = l
  <2>1. disk' = disk \/ disk' = [disk EXCEPT ![d] = [watch[d] EXCEPT ![l] = "new"]]
    BY DEF WatchAdd, Saves
  <2> QED BY <2>1 DEF IType, WatcherOK
<1> QED BY <1>1, <1>2 DEF WatchTold, Told

LEMMA WatchDropTold ==
  ASSUME IType, NEW d \in Dev, NEW l \in Leg, WatchTold, told \subseteq told', WatchDrop(d, l)
  PROVE  WatchTold'
<1>1. \A e \in Dev, m \in Leg : watch'[e][m] \in {watch[e][m], "no"}
  BY DEF WatchDrop, Saves, IType, WatcherOK
<1>2. \A e \in Dev, m \in Leg : disk'[e][m] \in {disk[e][m], watch[e][m], "no"}
  <2>1. disk' = disk \/ disk' = [disk EXCEPT ![d] = [watch[d] EXCEPT ![l] = "no"]]
    BY DEF WatchDrop, Saves
  <2> QED BY <2>1 DEF IType, WatcherOK
<1> QED BY <1>1, <1>2 DEF WatchTold, Told

LEMMA SafeEntry ==
  ASSUME IType, IType', ClaimInv, OrderAll, SafeAll, NEW d \in Dev, Entry(d),
         Quiet({"claim", "loose", "skip", "crash"})'
  PROVE  SafeAll'
<1>0. /\ ThreadOK /\ MarketOK /\ MarketOK' /\ OrderAt(d) /\ Settled(d) /\ Others(d)
      /\ odd \subseteq odd' /\ odd' \intersect {"claim", "loose", "skip", "crash"} = {}
      /\ cur[d] \in Leg /\ "crash" \notin odd
  BY EntryGoesOn, EntryOrders DEF IType, OrderAll, SafeAll, Quiet, ThreadOK
<1>1. Entering(d) => /\ \A e \in Dev \ {d} : ~Entering(e)
                     /\ \A o \in orders : o.dev = d
  BY <1>0 DEF ClaimInv, Run
<1>2. Entering(d) => \A e \in Dev : e # d => Settled(e)'
  BY <1>0, <1>1 DEF Settled, Others, Entering
\* A leg no run has to see to is safe.
<1>3. Entering(d) /\ ~Exempt(d) => Safe(cur[d])
  BY <1>0, <1>1 DEF SafeAll, Exempt, Entering
<1>4. Entering(d) /\ pc[d] \notin {"read", "cancel"} /\ pos[cur[d]] # 0
        => Told(cur[d]) \/ NoOrder(cur[d])
  BY <1>0, <1>1, SafeCome
<1>w. ASSUME UNCHANGED watcher, told \subseteq told' PROVE WatchTold'
  BY <1>w DEF SafeAll, WatchTold, Told, watcher
<1>m. ASSUME UNCHANGED market, told \subseteq told' PROVE Keeps
  BY <1>0, <1>m DEF Keeps, market, MarketOK
<1>t. ASSUME NEW w, Tells(cur[d], w) PROVE told \subseteq told' /\ <<cur[d], w>> \in told'
  BY <1>t DEF Tells
\* The end of the leg.
<1>5. ASSUME Keeps, WatchTold', NextLeg(d),
             \/ Safe(cur[d]) \/ stop'[cur[d]] > 0
             \/ \E w \in {"unconfirmed", "bare", "miss"} : <<cur[d], w>> \in told'
      PROVE  SafeAll'
  <2>1. Settled(d)'
    BY <1>0, <1>5, NextLegGoesOn DEF Settled
  <2> QED BY <1>0, <1>5, <2>1, SafeQuiet
<1>6. ASSUME Keeps, WatchTold', cur'[d] = cur[d],
             pc'[d] \notin {"take", "placed", "place", "mend", "flatten"},
             ~Exempt(d) \/ Exempt(d)' \/ Safe(cur[d])
      PROVE  SafeAll'
  <2>1. Settled(d)'
    BY <1>6 DEF Settled
  <2> QED BY <1>0, <1>6, <2>1, SafeQuiet
<1>7. ASSUME Keeps, WatchTold', cur'[d] = cur[d],
             Told(cur[d]) \/ NoOrder(cur[d]),
             \/ ~Exempt(d) \/ Exempt(d)' \/ Safe(cur[d]) \/ stop'[cur[d]] > 0
             \/ \E w \in {"unconfirmed", "bare", "miss"} : <<cur[d], w>> \in told'
      PROVE  SafeAll'
  <2>1. Settled(d)'
    BY <1>7 DEF Settled, Told, NoOrder, Keeps
  <2> QED BY <1>0, <1>7, <2>1, SafeQuiet
<1> USE <1>0 DEF Entering, Step, Goto, Answer, At, ThreadOK
<1>10. CASE Begin(d) \/ NoAccount(d) \/ Claim(d) \/ ClaimUnanswered(d) \/ Look(d) \/ CleanFails(d)
  <2>1. UNCHANGED market /\ UNCHANGED watcher /\ told' = told /\ cur'[d] = cur[d]
        /\ pc[d] \in {"idle", "claim", "look", "clean"}
        /\ pc'[d] \in {"claim", "done", "look", "clean", "limit", "send"}
    BY <1>10 DEF Begin, NoAccount, Claim, ClaimUnanswered, Look, CleanFails, uvars, market
  <2> QED BY <1>6, <1>w, <1>m, <2>1 DEF Exempt
<1>11. CASE Clean(d)
  <2>1. /\ pos' = [l \in Leg |-> 0] /\ orders' = {} /\ cur'[d] = cur[d] /\ UNCHANGED watcher
        /\ told' = told /\ pc[d] = "clean" /\ pc'[d] \in {"limit", "send"}
    BY <1>11 DEF Clean, OrderAt
  <2>2. WatchTold' /\ \A e \in Dev : Settled(e)'
    BY <1>w, <2>1 DEF Settled, NoOrder
  <2>3. \A l \in Leg : Safe(l)' /\ ~(pos'[l] < 0)
    BY <2>1 DEF Safe
  <2> QED BY <2>2, <2>3, SafeMoves
<1>12. CASE Send(d) \/ SendLost(d)
  <2>1. /\ pos' = pos /\ UNCHANGED <<stop, old, watcher, told>> /\ cur'[d] = cur[d]
        /\ pc[d] = "send" /\ pc'[d] \in {"stop", "confirm", "retry", "recheck"}
        /\ \/ orders' \in {orders, orders \union {Order(d, 1)}}
           \/ Exempt(d)' /\ orders' = orders \union {Order(d, 0)}
           \/ Exempt(d)' /\ orders' = orders
    BY <1>12 DEF Send, SendLost, Bracket, Exempt
  <2>2. WatchTold' /\ \A e \in Dev : Settled(e)'
    BY <1>2, <1>w, <2>1 DEF Settled
  <2>3. \A s : Order(d, s).leg = cur[d] /\ Order(d, s).stop = s
    BY DEF Order
  <2>4. pos[cur[d]] <= 0 /\ NoOrder(cur[d])
    BY <2>1 DEF OrderAt
  <2>5. ASSUME NEW l \in Leg, Safe(l) PROVE Safe(l)' \/ (Exempt(d)' /\ cur'[d] = l)
    <3>1. CASE l = cur[d]
      <4>1. ~(pos'[l] > 0)
        BY <2>1, <2>4, <3>1 DEF MarketOK
      <4>2. Exempt(d)' \/ \A o \in orders' : o.leg = l => o.stop > 0
        BY <2>1, <2>3, <2>4, <3>1 DEF NoOrder
      <4> QED BY <2>1, <3>1, <4>1, <4>2 DEF Safe
    <3>2. CASE l # cur[d]
      BY <2>1, <2>3, <2>5, <3>2 DEF Safe, Told, Cov
    <3> QED BY <3>1, <3>2
  <2>6. \A l \in Leg : pos'[l] < 0 => Told(l)'
    BY <2>1 DEF SafeAll, Told
  <2> QED BY <2>1, <2>2, <2>5, <2>6, SafeMoves DEF Exempt
<1>13. CASE SendRefused(d)
  <2>1. UNCHANGED market /\ UNCHANGED watcher /\ told \subseteq told' /\ pc[d] = "send"
        /\ (NextLeg(d) \/ (cur'[d] = cur[d] /\ pc'[d] \in {"recheck", "retry"}))
    BY <1>13, <1>t DEF SendRefused
  <2>2. Safe(cur[d])
    BY <1>3, <2>1 DEF Exempt
  <2> QED BY <1>5, <1>6, <1>w, <1>m, <2>1, <2>2
<1>14. CASE StopOrder(d) \/ Place(d)
  <2>1. /\ UNCHANGED <<pos, old, orders, watcher, told>> /\ cur'[d] = cur[d]
        /\ pc[d] \in {"stop", "place"} /\ pc'[d] = (IF pc[d] = "stop" THEN "confirm" ELSE "placed")
        /\ \/ ans'[d] = "set" /\ stop' = [stop EXCEPT ![cur[d]] = Capped(@ + 1)]
           \/ /\ ans'[d] \in {"failed", "refused"}
              /\ stop' \in {stop, [stop EXCEPT ![cur[d]] = Capped(@ + 1)]}
    BY <1>14 DEF StopOrder, Place, PutStop
  <2>2. Keeps /\ WatchTold'
    BY <1>w, <2>1, CappedMore DEF Keeps, MarketOK
  <2>3. ans'[d] = "set" => stop'[cur[d]] > 0
    BY <2>1, CappedMore DEF MarketOK
  <2>4. Settled(d)'
    BY <2>1 DEF Settled, Told, NoOrder
  <2>5. ans'[d] # "set" => Exempt(d)'
    BY <2>1 DEF Exempt
  <2> QED BY <2>1, <2>2, <2>3, <2>4, <2>5, SafeQuiet
<1>15. CASE LimitOrder(d)
  <2>1. /\ UNCHANGED <<pos, stop, old, watcher, told>> /\ cur'[d] = cur[d] /\ pc[d] = "limit"
        /\ pc'[d] \in {"read", "final"} /\ orders' \in {orders, orders \union {Order(d, 0)}}
    BY <1>15 DEF LimitOrder
  <2>2. WatchTold' /\ (\A e \in Dev : Settled(e)') /\ Exempt(d)'
    BY <1>2, <1>w, <2>1 DEF Settled, Exempt
  <2>3. Order(d, 0).leg = cur[d]
    BY DEF Order
  <2>4. ASSUME NEW l \in Leg, Safe(l) PROVE Safe(l)' \/ cur[d] = l
    BY <2>1, <2>3, <2>4 DEF Safe, Told, Cov
  <2>5. \A l \in Leg : pos'[l] < 0 => Told(l)'
    BY <2>1 DEF SafeAll, Told
  <2> QED BY <2>1, <2>2, <2>4, <2>5, SafeMoves
<1>16. CASE LimitRead(d) \/ LimitCancel(d)
  <2>1. /\ UNCHANGED <<pos, stop, old, watcher, told>> /\ cur'[d] = cur[d]
        /\ orders' \subseteq orders /\ pc'[d] \in {"cancel", "stop", "limit", "final"}
    BY <1>16 DEF LimitRead, LimitCancel, market
  <2>2. Keeps /\ WatchTold'
    BY <1>w, <2>1 DEF Keeps, MarketOK
  <2> QED BY <1>6, <2>1, <2>2 DEF Exempt
<1>17. CASE LimitFinal(d)
  <2>1. Keeps /\ WatchTold' /\ pc[d] = "final"
    BY <1>m, <1>w, <1>17 DEF LimitFinal
  <2>2. CASE pc'[d] = "stop" /\ cur'[d] = cur[d]
    BY <1>6, <2>1, <2>2 DEF Exempt
  <2>3. CASE ~(pc'[d] = "stop" /\ cur'[d] = cur[d])
    <3>1. pos[cur[d]] <= 0 /\ (NextLeg(d) \/ (pc'[d] = "send" /\ cur'[d] = cur[d]))
      BY <1>17, <2>3 DEF LimitFinal
    <3>2. Safe(cur[d])
      BY <2>1, <3>1 DEF OrderAt, NoOrder, Safe, MarketOK
    <3> QED BY <1>5, <1>6, <2>1, <3>1, <3>2
  <2> QED BY <2>2, <2>3
<1>18. CASE Confirm(d)
  <2>1. Keeps /\ WatchTold' /\ pc[d] = "confirm" /\ cur'[d] = cur[d] /\ ans'[d] = ans[d]
        /\ ((pc'[d] = "placed" /\ pos[cur[d]] # 0) \/ pc'[d] \in {"retry", "recheck"})
    BY <1>m, <1>w, <1>18 DEF Confirm, uvars, market, watcher
  <2>2. Exempt(d) => Exempt(d)'
    BY <2>1 DEF Exempt
  <2> QED BY <1>4, <1>6, <1>7, <2>1, <2>2
<1>19. CASE Retry(d)
  <2>1. /\ UNCHANGED <<pos, stop, old, watcher>> /\ told \subseteq told' /\ pc[d] = "retry"
        /\ orders' \subseteq orders
    BY <1>t, <1>19 DEF Retry
  <2>2. Keeps /\ WatchTold'
    BY <1>w, <2>1 DEF Keeps, MarketOK
  <2>3. CASE NextLeg(d)
    <3>1. <<cur[d], "miss">> \in told'
      BY <1>t, <1>19, <2>3 DEF Retry, NextLeg
    <3> QED BY <1>5, <2>2, <2>3, <3>1
  <2>4. CASE ~NextLeg(d)
    <3>1. CASE pc'[d] = "placed"
      <4>1. pos[cur[d]] # 0 /\ cur'[d] = cur[d] /\ ans'[d] = ans[d]
        BY <1>19, <2>4, <3>1 DEF Retry
      <4> QED BY <1>4, <1>7, <2>1, <2>2, <3>1, <4>1 DEF Exempt
    <3>2. CASE pc'[d] # "placed"
      <4>1. /\ pos[cur[d]] = 0 /\ cur'[d] = cur[d] /\ pc'[d] = "send"
            /\ orders' = {o \in orders : o.leg # cur[d]}
        BY <1>19, <2>4, <3>2 DEF Retry
      <4>2. ASSUME NEW l \in Leg, Safe(l) \/ (Exempt(d) /\ cur[d] = l) PROVE Safe(l)'
        <5>1. CASE l = cur[d]
          BY <2>1, <4>1, <5>1 DEF Safe
        <5>2. CASE l # cur[d]
          BY <2>2, <4>2, <5>2, SafeKeeps
        <5> QED BY <5>1, <5>2
      <4>3. \A e \in Dev : Settled(e)'
        BY <1>2, <2>1, <4>1 DEF Settled
      <4>4. \A l \in Leg : pos'[l] < 0 => Told(l)'
        BY <2>1 DEF SafeAll, Told
      <4> QED BY <2>2, <4>2, <4>3, <4>4, SafeMoves
    <3> QED BY <3>1, <3>2
  <2> QED BY <2>3, <2>4
<1>20. CASE Recheck(d)
  <2>1. UNCHANGED market /\ told \subseteq told' /\ Keeps /\ pc[d] = "recheck"
    BY <1>t, <1>m, <1>20 DEF Recheck
  <2>2. CASE pc'[d] = "take"
    <3>1. pos[cur[d]] # 0 /\ cur'[d] = cur[d] /\ ans'[d] = ans[d] /\ UNCHANGED watcher
      BY <1>20, <2>2, NextLegGoesOn DEF Recheck, watcher
    <3> QED BY <1>4, <1>7, <1>w, <2>1, <2>2, <3>1 DEF Exempt
  <2>3. CASE pc'[d] # "take"
    <3>1. NextLeg(d) /\ <<cur[d], "unconfirmed">> \in told'
          /\ (WatchAdd(d, cur[d]) \/ UNCHANGED <<watch, disk>>)
      BY <1>t, <1>20, <2>3 DEF Recheck
    <3>2. WatchTold'
      BY <2>1, <3>1, WatchAddTold DEF SafeAll
    <3> QED BY <1>5, <2>1, <3>1, <3>2
  <2> QED BY <2>2, <2>3
<1>21. CASE Take(d)
  <2>1. /\ Keeps /\ WatchTold' /\ pc[d] = "take" /\ cur'[d] = cur[d]
        /\ \/ ans[d] # "none" /\ ans'[d] = ans[d] /\ pc'[d] = "placed"
           \/ stop[cur[d]] > 0 \/ cur[d] \in old
           \/ pc'[d] = "place"
           \/ <<cur[d], "bare">> \in told'
    BY <1>t, <1>m, <1>w, <1>21 DEF Take
  <2>2. Told(cur[d]) \/ NoOrder(cur[d])
    BY <2>1 DEF Settled
  <2>3. stop[cur[d]] > 0 \/ cur[d] \in old => Safe(cur[d])
    BY DEF Safe, Cov
  <2>4. (ans[d] # "none" /\ ans'[d] = ans[d] /\ pc'[d] = "placed") \/ pc'[d] = "place"
          => ~Exempt(d) \/ Exempt(d)'
    BY <2>1 DEF Exempt
  <2> QED BY <1>7, <2>1, <2>2, <2>3, <2>4
<1>22. CASE Placed(d)
  <2>1. UNCHANGED market /\ told' = told /\ pc[d] = "placed" /\ Keeps /\ WatchDrop(d, cur[d])
    BY <1>m, <1>22 DEF Placed
  <2>2. WatchTold'
    BY <2>1, WatchDropTold DEF SafeAll
  <2>3. CASE ans[d] \in {"failed", "refused"}
    <3>1. pc'[d] \in {"mend", "flatten"} /\ cur'[d] = cur[d]
      BY <1>22, <2>3 DEF Placed
    <3>2. Told(cur[d]) \/ NoOrder(cur[d])
      BY <2>1 DEF Settled
    <3> QED BY <1>7, <2>1, <2>2, <3>1, <3>2 DEF Exempt
  <2>4. CASE ans[d] \notin {"failed", "refused"}
    <3>1. NextLeg(d) /\ Safe(cur[d])
      BY <1>3, <1>22, <2>1, <2>4 DEF Placed, Exempt
    <3> QED BY <1>5, <2>1, <2>2, <3>1
  <2> QED BY <2>3, <2>4
<1>23. CASE Mend(d)
  <2>1. /\ UNCHANGED <<pos, old, orders, watcher>> /\ told \subseteq told' /\ pc[d] = "mend"
        /\ stop' \in {stop, [stop EXCEPT ![cur[d]] = Capped(@ + 1)]}
    BY <1>t, <1>23 DEF Mend
  <2>2. Keeps /\ WatchTold'
    BY <1>w, <2>1, CappedMore DEF Keeps, MarketOK
  <2>3. CASE NextLeg(d)
    <3>1. <<cur[d], "bare">> \in told' \/ stop' = [stop EXCEPT ![cur[d]] = Capped(@ + 1)]
      BY <1>t, <1>23, <2>3, NextLegGoesOn DEF Mend
    <3>2. <<cur[d], "bare">> \in told' \/ stop'[cur[d]] > 0
      BY <3>1, CappedMore DEF MarketOK
    <3> QED BY <1>5, <2>2, <2>3, <3>2
  <2>4. CASE ~NextLeg(d)
    <3>1. pc'[d] \in {"mend", "flatten"} /\ cur'[d] = cur[d]
      BY <1>23, <2>1, <2>4 DEF Mend
    <3>2. Told(cur[d]) \/ NoOrder(cur[d])
      BY <2>1 DEF Settled
    <3> QED BY <1>7, <2>2, <3>1, <3>2 DEF Exempt
  <2> QED BY <2>3, <2>4
<1>24. CASE Flatten(d)
  <2>1. /\ UNCHANGED <<stop, old, orders, watcher>> /\ told \subseteq told' /\ pc[d] = "flatten"
        /\ NextLeg(d) /\ WatchTold'
    BY <1>t, <1>w, <1>24 DEF Flatten
  <2>2. CASE pos' = pos
    <3>1. <<cur[d], "bare">> \in told' \/ pos[cur[d]] = 0
      BY <1>t, <1>24, <2>2 DEF Flatten, MarketOK
    <3>2. Keeps
      BY <2>1, <2>2 DEF Keeps, MarketOK
    <3>3. pos[cur[d]] = 0 => Safe(cur[d])
      BY <2>1 DEF Settled, Safe, NoOrder
    <3> QED BY <1>5, <2>1, <3>1, <3>2, <3>3
  <2>3. CASE pos' # pos
    <3>1. pos' = [pos EXCEPT ![cur[d]] = 0]
      BY <1>24, <2>3 DEF Flatten
    <3>2. \A l \in Leg : pos'[l] < 0 => Told(l)'
      BY <2>1, <3>1 DEF SafeAll, Told, MarketOK
    <3>3. ASSUME NEW l \in Leg, Safe(l) \/ (Exempt(d) /\ cur[d] = l) PROVE Safe(l)'
      <4>1. CASE l = cur[d]
        <5>1. Told(l)' \/ \A o \in orders' : o.leg # l
          BY <2>1, <4>1 DEF Settled, Told, NoOrder
        <5> QED BY <3>1, <4>1, <5>1 DEF Safe, MarketOK
      <4>2. CASE l # cur[d]
        BY <2>1, <3>1, <3>3, <4>2 DEF Safe, Told, Cov, MarketOK
      <4> QED BY <4>1, <4>2
    <3>4. \A e \in Dev : Settled(e)'
      BY <1>0, <1>2, <2>1, NextLegGoesOn DEF Settled
    <3> QED BY <2>1, <3>2, <3>3, <3>4, SafeMoves
  <2> QED BY <2>2, <2>3
<1> QED
  BY <1>10, <1>11, <1>12, <1>13, <1>14, <1>15, <1>16, <1>17, <1>18, <1>19, <1>20,
     <1>21, <1>22, <1>23, <1>24 DEF Entry

\* The broker's and the heartbeat's steps: no run moves.
LEMMA SafeStays ==
  ASSUME SafeAll, UNCHANGED <<pc, cur, ans>>, told \subseteq told', orders' \subseteq orders,
         WatchTold', \A l \in Leg : pos'[l] < 0 => Told(l)',
         \A l \in Leg : Safe(l) => Safe(l)' \/ \E d \in Dev : Exempt(d) /\ cur[d] = l
  PROVE  SafeAll'
<1>1. \A d \in Dev : Settled(d)'
  BY DEF SafeAll, Settled, Told, NoOrder
<1>2. \A l \in Leg : Safe(l)' \/ \E d \in Dev : Exempt(d)' /\ cur'[d] = l
  BY DEF SafeAll, Exempt
<1> QED BY <1>1, <1>2 DEF SafeAll

LEMMA SafeEnvironment ==
  ASSUME IType, IType', OrderAll, SafeAll, Environment, "crash" \notin odd
  PROVE  SafeAll'
<1>1. UNCHANGED <<pc, cur, ans>> /\ told' = told /\ UNCHANGED watcher /\ MarketOK /\ MarketOK'
  BY DEF Environment, thread, Fill, Dies, Ends, SessionEnd, IType
<1>2. WatchTold'
  BY <1>1 DEF SafeAll, WatchTold, Told, watcher
<1>3. CASE Fill
  <2>1. PICK o \in orders :
          /\ orders' = orders \ {o} /\ old' = old
          /\ pos' = [pos EXCEPT ![o.leg] = Capped(@ + 1)]
          /\ stop' = [stop EXCEPT ![o.leg] = Capped(@ + o.stop)]
    BY <1>3 DEF Fill
  <2>2. o.leg \in Leg /\ o.stop \in 0 .. 1 /\ stop[o.leg] \in 0 .. 2 /\ pos[o.leg] \in -1 .. 2
    BY <1>1 DEF MarketOK
  <2>3. /\ \A l \in Leg \ {o.leg} : pos'[l] = pos[l] /\ stop'[l] = stop[l]
        /\ pos'[o.leg] = Capped(pos[o.leg] + 1) /\ stop'[o.leg] = Capped(stop[o.leg] + o.stop)
    BY <1>1, <2>1, <2>2 DEF MarketOK
  <2>4. /\ ~(pos'[o.leg] < 0) /\ (stop[o.leg] > 0 => stop'[o.leg] > 0)
        /\ (o.stop > 0 => stop'[o.leg] > 0)
    BY <2>2, <2>3 DEF Capped
  <2>5. \A l \in Leg : pos'[l] < 0 => Told(l)'
    BY <1>1, <2>3, <2>4 DEF SafeAll, Told
  <2>6. ASSUME NEW l \in Leg, Safe(l) PROVE Safe(l)'
    <3>1. CASE l = o.leg
      BY <1>1, <2>1, <2>4, <2>6, <3>1 DEF Safe, Told, Cov
    <3>2. CASE l # o.leg
      BY <1>1, <2>1, <2>3, <2>6, <3>2 DEF Safe, Told, Cov
    <3> QED BY <3>1, <3>2
  <2> QED BY <1>1, <1>2, <2>1, <2>5, <2>6, SafeStays
<1>4. CASE Dies
  <2>1. orders' \subseteq orders /\ UNCHANGED <<pos, stop, old>>
    BY <1>4 DEF Dies
  <2>2. Keeps
    BY <1>1, <2>1 DEF Keeps, MarketOK
  <2>3. \A l \in Leg : pos'[l] < 0 => Told(l)'
    BY <1>1, <2>1 DEF SafeAll, Told
  <2> QED BY <1>1, <1>2, <2>1, <2>2, <2>3, SafeKeeps, SafeStays
<1>5. CASE Ends
  <2>1. PICK l \in Leg :
          /\ pos[l] > 0 /\ stop' = [stop EXCEPT ![l] = 0] /\ old' = old \ {l}
          /\ \/ pos' = [pos EXCEPT ![l] = 0]
             \/ pos' = [pos EXCEPT ![l] = -1] /\ \E d \in Dev : watch[d][l] # "no"
    BY <1>5 DEF Ends
  <2>2. orders' = orders
    BY <1>5 DEF Ends
  <2>3. ~(pos'[l] > 0) /\ (pos'[l] < 0 => Told(l))
        /\ \A m \in Leg \ {l} : pos'[m] = pos[m] /\ stop'[m] = stop[m]
    BY <1>1, <2>1 DEF MarketOK, SafeAll, WatchTold
  <2>4. \A m \in Leg : pos'[m] < 0 => Told(m)'
    BY <1>1, <2>3 DEF SafeAll, Told
  <2>5. NoOrder(l) \/ \E d \in Dev : pc[d] \in {"read", "cancel"} /\ cur[d] = l
    BY <1>1, <2>1 DEF OrderAll, OrdersFlat, NoOrder, MarketOK
  <2>6. ASSUME NEW m \in Leg, Safe(m)
        PROVE  Safe(m)' \/ \E d \in Dev : Exempt(d) /\ cur[d] = m
    <3>1. CASE m = l
      BY <2>2, <2>3, <2>5, <3>1 DEF Safe, NoOrder, Exempt
    <3>2. CASE m # l
      BY <1>1, <2>1, <2>2, <2>3, <2>6, <3>2 DEF Safe, Told, Cov
    <3> QED BY <3>1, <3>2
  <2> QED BY <1>1, <1>2, <2>2, <2>4, <2>6, SafeStays
<1>6. CASE SessionEnd
  <2>1. pos' = [l \in Leg |-> 0] /\ orders' = {}
    BY <1>6 DEF SessionEnd
  <2>2. \A l \in Leg : Safe(l)' /\ ~(pos'[l] < 0)
    BY <2>1 DEF Safe
  <2> QED BY <1>1, <1>2, <2>1, <2>2, SafeStays
<1> QED BY <1>3, <1>4, <1>5, <1>6 DEF Environment

LEMMA SafeBeat ==
  ASSUME IType, IType', SafeAll, NEW d \in Dev, Beat(d)
  PROVE  SafeAll'
<1>1. /\ UNCHANGED <<pc, cur, ans, pos, old, orders>> /\ MarketOK /\ MarketOK' /\ HbLeg
      /\ Heartbeat(d) /\ WatchTold
  BY HeartbeatTyped DEF Beat, thread, IType, SafeAll
<1>2. CASE WatchQuery(d)
  <2>1. UNCHANGED <<stop, told, watch, disk>>
    BY <1>2 DEF WatchQuery
  <2>2. Keeps /\ WatchTold' /\ \A l \in Leg : pos'[l] < 0 => Told(l)'
    BY <1>1, <2>1 DEF Keeps, MarketOK, WatchTold, Told, SafeAll
  <2> QED BY <1>1, <2>1, <2>2, SafeKeeps, SafeStays
<1>3. CASE WatchPlace(d)
  <2>1. UNCHANGED <<watch, disk>> /\ told \subseteq told' /\ hb[d].leg \in Leg
        /\ stop' \in {stop, [stop EXCEPT ![hb[d].leg] = Capped(@ + 1)]}
    BY <1>1, <1>3 DEF WatchPlace, HbLeg
  <2>2. Keeps
    BY <1>1, <2>1, CappedMore DEF Keeps, MarketOK
  <2>3. WatchTold' /\ \A l \in Leg : pos'[l] < 0 => Told(l)'
    BY <1>1, <2>1 DEF WatchTold, Told, SafeAll
  <2> QED BY <1>1, <2>1, <2>2, <2>3, SafeKeeps, SafeStays
<1>4. ASSUME NEW l \in Leg,
             WatchRestores(d, l) \/ WatchFails(d, l) \/ WatchFlat(d, l)
               \/ WatchOther(d, l) \/ WatchOpen(d, l) \/ WatchExpires(d, l)
      PROVE  SafeAll'
  <2>1. UNCHANGED <<stop, told>>
    BY <1>4 DEF WatchRestores, WatchFails, WatchFlat, WatchOther, WatchOpen, WatchExpires
  <2>2. UNCHANGED <<watch, disk>> \/ WatchDrop(d, l)
          \/ (watch[d][l] # "no" /\ Saves(d, [watch[d] EXCEPT ![l] = "seen"]))
    BY <1>4 DEF WatchRestores, WatchFails, WatchFlat, WatchOther, WatchOpen, WatchExpires, Watching
  <2>3. WatchTold'
    <3>1. CASE UNCHANGED <<watch, disk>>
      BY <1>1, <2>1, <3>1 DEF WatchTold, Told
    <3>2. CASE WatchDrop(d, l)
      BY <1>1, <2>1, <3>2, WatchDropTold
    <3>3. CASE watch[d][l] # "no" /\ Saves(d, [watch[d] EXCEPT ![l] = "seen"])
      <4>0. Saves(d, [watch[d] EXCEPT ![l] = "seen"])
        BY <3>3
      <4>1. \A e \in Dev, m \in Leg : watch'[e][m] = watch[e][m] \/ (m = l /\ e = d)
        BY <4>0 DEF Saves, IType, WatcherOK
      <4>2. \A e \in Dev, m \in Leg :
               disk'[e][m] \in {disk[e][m], watch[e][m]} \/ (m = l /\ e = d)
        <5>1. disk' = disk \/ disk' = [disk EXCEPT ![d] = [watch[d] EXCEPT ![l] = "seen"]]
          BY <4>0 DEF Saves
        <5> QED BY <5>1 DEF IType, WatcherOK
      <4> QED BY <1>1, <2>1, <3>3, <4>1, <4>2 DEF WatchTold, Told
    <3> QED BY <2>2, <3>1, <3>2, <3>3
  <2>4. Keeps /\ \A m \in Leg : pos'[m] < 0 => Told(m)'
    BY <1>1, <2>1 DEF Keeps, MarketOK, Told, SafeAll
  <2> QED BY <1>1, <2>1, <2>3, <2>4, SafeKeeps, SafeStays
<1> QED BY <1>1, <1>2, <1>3, <1>4 DEF Heartbeat

LEMMA SafeStep == IType /\ IType' /\ ClaimInv /\ OrderInv /\ SafeInv /\ [Next]_vars => SafeInv'
<1> SUFFICES ASSUME IType, IType', ClaimInv, OrderInv, SafeInv, [Next]_vars,
                    Quiet({"claim", "loose", "skip", "crash"})'
    PROVE  SafeAll'
  BY DEF SafeInv
<1>0. ASSUME odd \subseteq odd' PROVE OrderAll /\ SafeAll /\ "crash" \notin odd
  BY <1>0 DEF OrderInv, SafeInv, Quiet
<1>2. CASE Environment
  BY <1>0, <1>2, SafeEnvironment DEF Environment
<1>3. ASSUME NEW d \in Dev, Entry(d) PROVE SafeAll'
  BY <1>0, <1>3, EntryOrders, SafeEntry
<1>4. ASSUME NEW d \in Dev, Beat(d) PROVE SafeAll'
  BY <1>0, <1>4, SafeBeat DEF Beat
<1>5. ASSUME NEW d \in Dev, Crash(d) PROVE SafeAll'
  <2>1. pc[d] = "done" /\ odd' = odd
    BY <1>5 DEF Crash, Quiet
  <2>2. UNCHANGED <<pc, cur, ans, told, disk>> /\ UNCHANGED market
        /\ watch' = [watch EXCEPT ![d] = disk[d]]
    BY <1>5, <2>1 DEF Crash, thread, WatchRestart
  <2>3. WatchTold'
    BY <1>0, <2>1, <2>2 DEF SafeAll, WatchTold, Told, IType, WatcherOK
  <2>4. Keeps /\ \A l \in Leg : pos'[l] < 0 => Told(l)'
    BY <1>0, <2>1, <2>2 DEF Keeps, market, IType, MarketOK, Told, SafeAll
  <2> QED BY <1>0, <2>1, <2>2, <2>3, <2>4, SafeKeeps, SafeStays DEF market
<1>6. CASE UNCHANGED vars
  <2>1. UNCHANGED <<pc, cur, ans, told, disk, watch, odd>> /\ UNCHANGED market
    BY <1>6 DEF vars, uvars, thread, watcher, market
  <2>2. WatchTold'
    BY <1>0, <2>1 DEF SafeAll, WatchTold, Told
  <2>3. Keeps /\ \A l \in Leg : pos'[l] < 0 => Told(l)'
    BY <1>0, <2>1 DEF Keeps, market, IType, MarketOK, Told, SafeAll
  <2> QED BY <1>0, <2>1, <2>2, <2>3, SafeKeeps, SafeStays DEF market
<1> QED BY <1>2, <1>3, <1>4, <1>5, <1>6 DEF Next

-----------------------------------------------------------------------------
(* The machine alone. *)

EntryInv == IType /\ ClaimInv /\ OrderInv /\ SafeInv

LEMMA EntryInit == Init => EntryInv
<1> SUFFICES ASSUME Init PROVE EntryInv
  OBVIOUS
<1>1. /\ pos \in [Leg -> {0, 1}] /\ stop = [l \in Leg |-> 0] /\ old = {l \in Leg : pos[l] = 1}
      /\ orders = {} /\ watch = [d \in Dev |-> [l \in Leg |-> "no"]] /\ disk = watch
      /\ pc = [d \in Dev |-> "idle"] /\ claim = NoClaim /\ odd = {}
  BY DEF Init, UInit
<1>2. ClaimInv
  BY <1>1 DEF ClaimInv, Entering, NoClaim, Run
<1>3. OrderInv
  BY <1>1 DEF OrderInv, OrderAll, OrdersApart, OrdersFlat, OrderAt, Entering
<1>4. SafeInv
  BY <1>1 DEF SafeInv, SafeAll, WatchTold, Settled, Safe, Cov
<1> QED BY <1>2, <1>3, <1>4, TypeInit DEF EntryInv

LEMMA EntryStep == EntryInv /\ [Next]_vars => EntryInv'
BY TypeStep, ClaimStep, OrderStep, SafeStep DEF EntryInv

LEMMA EntryProperties ==
  EntryInv => TypeOK /\ OneRunEnters /\ NoDouble /\ BareIsKnown
<1> SUFFICES ASSUME EntryInv PROVE TypeOK /\ OneRunEnters /\ NoDouble /\ BareIsKnown
  OBVIOUS
<1>0. IType
  BY DEF EntryInv
<1>1. TypeOK
  BY <1>0, TypeParts
<1>2. OneRunEnters
  BY <1>0 DEF EntryInv, ClaimInv, OneRunEnters, Run, IType, ThreadOK
<1>3. NoDouble
  BY <1>0 DEF EntryInv, OrderInv, OrderAll, NoDouble, Quiet, IType, MarketOK
<1>4. BareIsKnown
  <2> SUFFICES ASSUME Ended, odd \intersect {"claim", "skip", "crash", "loose"} = {},
                      NEW l \in Leg, pos[l] > 0 /\ stop[l] = 0 /\ l \notin old
      PROVE  Known(l)
    BY DEF BareIsKnown
  <2>1. SafeAll
    BY DEF EntryInv, SafeInv, Quiet
  <2>2. ASSUME NEW d \in Dev PROVE ~Exempt(d)
    BY DEF Ended, Exempt
  <2> QED BY <2>1, <2>2 DEF SafeAll, Safe, Told, Cov, Known
<1> QED BY <1>1, <1>2, <1>3, <1>4

-----------------------------------------------------------------------------
(* Bitcoin: the machine of CryptoEntry. *)

CStep == {"idle", "look", "close", "price", "claim", "send", "limit", "read",
          "cancel", "final", "done"}

CThreadOK ==
  /\ cpc \in [Dev -> CStep] /\ ctry \in [Dev -> 0 .. MaxTry]
  /\ cqty \in [Dev -> {"none", "some", "zero", "unknown"}]
  /\ clife \in [Dev -> 1 .. MaxLife]

CRestOK ==
  /\ cpolicy \in Policies /\ clabel \in [Dev -> Labels]
  /\ held \subseteq Crypto!Sent \union {Crypto!Before} /\ corders \subseteq Crypto!Sent
  /\ cclaim \subseteq Dev /\ recorded \subseteq Dev /\ ctold \subseteq Dev
  /\ codd \subseteq {"claim", "unclaimed", "loose", "raced", "crash"}
  /\ cfaults \in 0 .. MaxFault

LEMMA CTypeParts == Crypto!TypeOK <=> CThreadOK /\ CRestOK
BY DEF Crypto!TypeOK, CThreadOK, CRestOK, CStep

LEMMA CTypeInit == Crypto!Init => Crypto!TypeOK
BY EntryAssumption DEF Crypto!Init, Crypto!TypeOK

\* The steps of one computer's entry, the crash apart.
CEntry(d) ==
  \/ Crypto!Begin(d) \/ Crypto!Look(d) \/ Crypto!Close(d) \/ Crypto!Price(d)
  \/ Crypto!Claim(d) \/ Crypto!ClaimUnanswered(d) \/ Crypto!Send(d) \/ Crypto!SendFails(d)
  \/ Crypto!LimitOrder(d) \/ Crypto!LimitRead(d) \/ Crypto!LimitCancel(d) \/ Crypto!LimitFinal(d)

LEMMA CNextSplits ==
  ASSUME Crypto!Next
  PROVE  \/ Crypto!Fill \/ Crypto!Dies
         \/ \E d \in Dev : CEntry(d) \/ Crypto!Crash(d)
BY DEF Crypto!Next, CEntry

LEMMA COrderTyped ==
  ASSUME Crypto!TypeOK, NEW d \in Dev
  PROVE  /\ Crypto!Order(d) \in Crypto!Sent /\ Crypto!Order(d).dev = d
         /\ Crypto!Before \notin Crypto!Sent
BY EntryAssumption DEF Crypto!TypeOK, Crypto!Order, Crypto!Sent, Crypto!Before

LEMMA CFaultsTyped ==
  ASSUME cfaults \in 0 .. MaxFault, NEW f, Crypto!Fails(f) \/ Crypto!Never
  PROVE  cfaults' \in 0 .. MaxFault
BY EntryAssumption DEF Crypto!Fails, Crypto!Never

LEMMA CThreadTyped ==
  ASSUME Crypto!TypeOK, NEW d \in Dev, CEntry(d)
  PROVE  CThreadOK' /\ \A e \in Dev \ {d} : cpc'[e] = cpc[e]
<1>0. CThreadOK
  BY CTypeParts
<1> USE <1>0, EntryAssumption DEF CThreadOK, CStep, Crypto!Step, Crypto!Gives
<1>1. CASE Crypto!Begin(d) \/ Crypto!Look(d) \/ Crypto!Close(d) \/ Crypto!Price(d)
  BY <1>1 DEF Crypto!Begin, Crypto!Look, Crypto!Close, Crypto!Price, Crypto!After
<1>2. CASE Crypto!Claim(d) \/ Crypto!ClaimUnanswered(d) \/ Crypto!Send(d) \/ Crypto!SendFails(d)
  BY <1>2 DEF Crypto!Claim, Crypto!ClaimUnanswered, Crypto!Send, Crypto!SendFails
<1>3. CASE Crypto!LimitOrder(d)
  BY <1>3 DEF Crypto!LimitOrder
<1>4. CASE Crypto!LimitRead(d)
  BY <1>4 DEF Crypto!LimitRead
<1>5. CASE Crypto!LimitCancel(d) \/ Crypto!LimitFinal(d)
  BY <1>5 DEF Crypto!LimitCancel, Crypto!LimitFinal
<1> QED BY <1>1, <1>2, <1>3, <1>4, <1>5 DEF CEntry

LEMMA CRestTyped ==
  ASSUME Crypto!TypeOK, NEW d \in Dev, CEntry(d)
  PROVE  CRestOK'
<1>0. CRestOK /\ Crypto!Order(d) \in Crypto!Sent
  BY CTypeParts, COrderTyped
<1>f. ASSUME NEW f, Crypto!Fails(f) \/ Crypto!Never PROVE cfaults' \in 0 .. MaxFault
  BY <1>0, <1>f, CFaultsTyped DEF CRestOK
<1> USE <1>0, <1>f DEF CRestOK, Crypto!Step, Crypto!Gives, Crypto!Records, Crypto!market,
              Crypto!setup
<1>1. CASE Crypto!Begin(d) \/ Crypto!Look(d) \/ Crypto!Price(d)
  BY <1>1 DEF Crypto!Begin, Crypto!Look, Crypto!Price
<1>2. CASE Crypto!Close(d)
  BY <1>2 DEF Crypto!Close
<1>3. CASE Crypto!Claim(d) \/ Crypto!ClaimUnanswered(d)
  BY <1>3 DEF Crypto!Claim, Crypto!ClaimUnanswered
<1>4. CASE Crypto!Send(d) \/ Crypto!SendFails(d)
  BY <1>4 DEF Crypto!Send, Crypto!SendFails
<1>5. CASE Crypto!LimitOrder(d)
  BY <1>5 DEF Crypto!LimitOrder
<1>6. CASE Crypto!LimitRead(d)
  BY <1>6 DEF Crypto!LimitRead
<1>7. CASE Crypto!LimitCancel(d)
  BY <1>7 DEF Crypto!LimitCancel
<1>8. CASE Crypto!LimitFinal(d)
  BY <1>8 DEF Crypto!LimitFinal
<1> QED BY <1>1, <1>2, <1>3, <1>4, <1>5, <1>6, <1>7, <1>8 DEF CEntry

LEMMA CTypeStep == Crypto!TypeOK /\ [Crypto!Next]_cvars => Crypto!TypeOK'
<1> SUFFICES ASSUME Crypto!TypeOK, [Crypto!Next]_cvars PROVE Crypto!TypeOK'
  OBVIOUS
<1>0. CThreadOK /\ CRestOK
  BY CTypeParts
<1>1. CASE Crypto!Fill \/ Crypto!Dies
  <2>1. /\ UNCHANGED <<cpc, ctry, cqty, clife, cpolicy, clabel, cclaim, recorded, ctold, codd, cfaults>>
        /\ corders' \subseteq corders /\ held' \subseteq held \union corders
    BY <1>1 DEF Crypto!Fill, Crypto!Dies, Crypto!thread, Crypto!setup
  <2>2. CThreadOK' /\ CRestOK'
    BY <1>0, <2>1 DEF CThreadOK, CRestOK
  <2> QED BY <2>2 DEF Crypto!TypeOK, CThreadOK, CRestOK, CStep
<1>2. ASSUME NEW d \in Dev, CEntry(d) PROVE Crypto!TypeOK'
  <2>1. CThreadOK' /\ CRestOK'
    BY <1>2, CThreadTyped, CRestTyped
  <2> QED BY <2>1 DEF Crypto!TypeOK, CThreadOK, CRestOK, CStep
<1>3. ASSUME NEW d \in Dev, Crypto!Crash(d) PROVE Crypto!TypeOK'
  <2>1. CThreadOK'
    BY <1>0, <1>3, EntryAssumption DEF Crypto!Crash, CThreadOK, CStep
  <2>2. CRestOK'
    BY <1>0, <1>3 DEF Crypto!Crash, Crypto!market, Crypto!setup, CRestOK
  <2> QED BY <2>1, <2>2 DEF Crypto!TypeOK, CThreadOK, CRestOK, CStep
<1>4. CASE UNCHANGED cvars
  BY <1>4 DEF cvars, Crypto!TypeOK
<1> QED BY <1>1, <1>2, <1>3, <1>4, CNextSplits

\* A sent entry is noted, or its run still has to look at it.
CNoted ==
  "crash" \notin codd =>
    \A o \in (held \ {Crypto!Before}) \union corders :
      \/ o.dev \in recorded \union ctold
      \/ cpc[o.dev] \in {"limit", "read", "cancel", "final", "send"}

CQuiet == codd \intersect {"claim", "loose", "raced"} = {}

\* Under the market policy each label has one computer, and only that one
\* sends; once it has sent it is done.
CMarket ==
  /\ corders = {}
  /\ \A o, p \in held : o = p \/ Crypto!Apart(o, p)
  /\ \A o \in held : o = Crypto!Before \/ (o.dev \in cclaim /\ cpc[o.dev] = "done")
  /\ \A d, e \in cclaim : clabel[d] = clabel[e] => d = e
  /\ \A d \in Dev :
       /\ cpc[d] \in {"idle", "look", "close", "price", "claim", "send", "done"}
       /\ cpc[d] = "send" => d \in cclaim
       /\ cpc[d] \in {"price", "claim", "send"} => Crypto!Before \notin held

\* Under the limit policy a computer that is alone has one order out, or one
\* position, and neither when it is about to send.
CLimit ==
  /\ \A o, p \in held : o = p
  /\ \A o, p \in corders : o = p
  /\ held = {} \/ corders = {}
  /\ "unclaimed" \notin codd =>
       /\ corders = {} /\ held \subseteq {Crypto!Before}
       /\ \A d \in Dev : /\ cpc[d] \in {"idle", "look", "close", "limit", "done"}
                         /\ cpc[d] = "limit" => held = {}
  /\ "unclaimed" \in codd =>
       /\ Crypto!Before \notin held
       /\ \E d \in Dev : cpc[d] # "idle"
       /\ \A d \in Dev :
            /\ cpc[d] \in {"idle", "limit", "read", "cancel", "final", "send", "done"}
            /\ cpc[d] # "idle" => \A o \in corders : o.dev = d
            /\ cpc[d] \in {"limit", "final", "send"} => corders = {}
            /\ cpc[d] \in {"limit", "send"} => held = {}

COnce ==
  CQuiet => /\ cpolicy # "limit" => CMarket
            /\ cpolicy = "limit" /\ ~Crypto!Unclaimed => CLimit

CInv == Crypto!TypeOK /\ CNoted /\ COnce

\* The history only grows.
LEMMA CGrows ==
  ASSUME Crypto!TypeOK, [Crypto!Next]_cvars
  PROVE  cpolicy' = cpolicy /\ clabel' = clabel /\ codd \subseteq codd'
BY DEF cvars, Crypto!setup, Crypto!Next, Crypto!Fill, Crypto!Dies, Crypto!Begin, Crypto!Look, Crypto!Close,
       Crypto!Price, Crypto!Claim, Crypto!ClaimUnanswered, Crypto!Send, Crypto!SendFails,
       Crypto!LimitOrder, Crypto!LimitRead, Crypto!LimitCancel, Crypto!LimitFinal, Crypto!Crash

LEMMA CNotedStep == Crypto!TypeOK /\ CNoted /\ [Crypto!Next]_cvars => CNoted'
<1> SUFFICES ASSUME Crypto!TypeOK, CNoted, [Crypto!Next]_cvars, "crash" \notin codd' PROVE CNoted'
  BY DEF CNoted
<1>0. CThreadOK /\ CRestOK /\ "crash" \notin codd
  BY CTypeParts, CGrows
<1> DEFINE Out == (held \ {Crypto!Before}) \union corders
<1>1. \A o \in Out : \/ o.dev \in recorded \union ctold
                     \/ cpc[o.dev] \in {"limit", "read", "cancel", "final", "send"}
  BY <1>0 DEF CNoted
<1>2. CASE Crypto!Fill \/ Crypto!Dies \/ UNCHANGED cvars
  <2>1. UNCHANGED <<cpc, recorded, ctold>> /\ Out' \subseteq Out
    BY <1>2 DEF Crypto!Fill, Crypto!Dies, Crypto!thread, cvars
  <2> QED BY <1>1, <2>1 DEF CNoted
<1>3. ASSUME NEW d \in Dev, CEntry(d) PROVE CNoted'
  <2>1. /\ CThreadOK' /\ \A e \in Dev \ {d} : cpc'[e] = cpc[e]
        /\ \A o \in Crypto!Sent : o.dev \in Dev
    BY <1>3, CThreadTyped DEF Crypto!Sent
  <2>2. Out \subseteq Crypto!Sent /\ Crypto!Order(d).dev = d
    BY <1>0, COrderTyped DEF CRestOK
  \* What is new in the market is this run's, and it notes it or goes on.
  <2>3. /\ recorded \subseteq recorded' /\ ctold \subseteq ctold'
        /\ Out' \subseteq Out \union {Crypto!Order(d)}
        /\ \/ d \in recorded' \union ctold'
           \/ cpc'[d] \in {"limit", "read", "cancel", "final", "send"}
           \/ Out' \subseteq Out /\ cpc[d] \notin {"limit", "read", "cancel", "final", "send"}
    <3> USE <1>0 DEF CThreadOK, CStep, Crypto!Step, Crypto!Gives, Crypto!Records, Crypto!market,
              Crypto!setup
    <3>1. CASE Crypto!Begin(d) \/ Crypto!Look(d) \/ Crypto!Close(d) \/ Crypto!Price(d)
               \/ Crypto!Claim(d) \/ Crypto!ClaimUnanswered(d)
      BY <3>1 DEF Crypto!Begin, Crypto!Look, Crypto!Close, Crypto!Price, Crypto!Claim,
                  Crypto!ClaimUnanswered
    <3>2. CASE Crypto!Send(d) \/ Crypto!SendFails(d)
      BY <3>2 DEF Crypto!Send, Crypto!SendFails
    <3>3. CASE Crypto!LimitOrder(d) \/ Crypto!LimitRead(d)
      BY <3>3 DEF Crypto!LimitOrder, Crypto!LimitRead
    <3>4. CASE Crypto!LimitCancel(d) \/ Crypto!LimitFinal(d)
      BY <3>4 DEF Crypto!LimitCancel, Crypto!LimitFinal
    <3> QED BY <1>3, <3>1, <3>2, <3>3, <3>4 DEF CEntry
  <2>4. ASSUME NEW o \in Out'
        PROVE  \/ o.dev \in recorded' \union ctold'
               \/ cpc'[o.dev] \in {"limit", "read", "cancel", "final", "send"}
    <3>1. CASE o.dev = d
      BY <1>1, <2>3, <2>4, <3>1
    <3>2. CASE o.dev # d
      BY <1>1, <2>1, <2>2, <2>3, <2>4, <3>2
    <3> QED BY <3>1, <3>2
  <2> QED BY <2>4 DEF CNoted
<1>4. ASSUME NEW d \in Dev, Crypto!Crash(d) PROVE FALSE
  BY <1>4 DEF Crypto!Crash
<1> QED BY <1>2, <1>3, <1>4, CNextSplits

LEMMA CMarketStep ==
  ASSUME Crypto!TypeOK, Crypto!TypeOK', cpolicy # "limit", CMarket, [Crypto!Next]_cvars,
         CQuiet'
  PROVE  CMarket'
<1>0. CThreadOK /\ CRestOK
  BY CTypeParts
<1>l. \A o, p : Crypto!Apart(o, p)' <=> Crypto!Apart(o, p)
  BY CGrows DEF Crypto!Apart
<1>1. CASE Crypto!Fill \/ Crypto!Dies
  BY <1>1 DEF Crypto!Fill, Crypto!Dies, CMarket
<1>2. ASSUME NEW d \in Dev, CEntry(d) PROVE CMarket'
  <2>1. /\ CThreadOK' /\ clabel' = clabel /\ \A e \in Dev \ {d} : cpc'[e] = cpc[e]
    BY <1>2, CThreadTyped, CGrows
  <2>2. cpc[d] \in {"idle", "look", "close", "price", "claim", "send", "done"}
    BY DEF CMarket
  \* Who has sent stays done while d, which is not done, moves.
  <2>c. cpc[d] # "done" =>
          \A o \in held : o = Crypto!Before \/ (o.dev \in cclaim /\ cpc'[o.dev] = "done")
    BY <1>0, <2>1 DEF CMarket, CRestOK
  <2> USE <1>0, <1>l DEF CThreadOK, CStep, Crypto!Step, Crypto!Gives, Crypto!market
  <2>3. CASE Crypto!Begin(d) \/ Crypto!Look(d) \/ Crypto!Price(d)
    <3>1. /\ UNCHANGED <<held, corders, cclaim>> /\ cpc[d] \in {"idle", "look", "price"}
          /\ cpc'[d] \in {"look", "close", "price", "claim", "done"}
          /\ cpc'[d] = "price" => held = {}
          /\ cpc'[d] = "claim" => cpc[d] = "price"
      BY <2>3 DEF Crypto!Begin, Crypto!Look, Crypto!Price, Crypto!After
    <3> QED BY <2>1, <2>c, <3>1 DEF CMarket
  <2>4. CASE Crypto!Close(d)
    <3>1. /\ UNCHANGED <<corders, cclaim>> /\ cpc[d] = "close" /\ held' \in {held, {}}
          /\ cpc'[d] \in {"price", "done"} /\ (cpc'[d] = "price" => held' = {})
      BY <2>4 DEF Crypto!Close, Crypto!After
    <3> QED BY <2>1, <2>c, <3>1 DEF CMarket
  <2>5. CASE Crypto!Claim(d)
    <3>1. UNCHANGED <<held, corders>> /\ cpc[d] = "claim"
      BY <2>5 DEF Crypto!Claim
    <3>2. CASE Crypto!Free(d)
      <4>1. cclaim' = cclaim \union {d} /\ cpc'[d] = "send"
        BY <2>5, <3>2 DEF Crypto!Claim
      <4>2. \A e, f \in cclaim' : clabel[e] = clabel[f] => e = f
        BY <3>2, <4>1 DEF CMarket, Crypto!Free
      <4> QED BY <2>1, <2>c, <3>1, <4>1, <4>2 DEF CMarket
    <3>3. CASE ~Crypto!Free(d)
      <4>1. cclaim' = cclaim /\ cpc'[d] = "done"
        BY <2>5, <3>3 DEF Crypto!Claim
      <4> QED BY <2>1, <2>c, <3>1, <4>1 DEF CMarket
    <3> QED BY <3>2, <3>3
  <2>6. CASE Crypto!ClaimUnanswered(d)
    BY <2>6 DEF Crypto!ClaimUnanswered, CQuiet
  <2>7. CASE Crypto!Send(d) \/ Crypto!SendFails(d)
    <3>1. /\ cpc[d] = "send" /\ cpc'[d] = "done" /\ UNCHANGED <<corders, cclaim>>
          /\ held' \in {held, held \union {Crypto!Order(d)}}
      BY <2>7 DEF Crypto!Send, Crypto!SendFails
    <3>2. /\ d \in cclaim /\ Crypto!Before \notin held
          /\ Crypto!Order(d) # Crypto!Before /\ Crypto!Order(d).dev = d
      BY <3>1, COrderTyped DEF CMarket
    \* What the others sent is held under another label.
    <3>3. \A o \in held : o.dev \in Dev /\ clabel[o.dev] # clabel[d]
      BY <3>1, <3>2 DEF CMarket, CRestOK
    <3>4. \A o \in held : Crypto!Apart(o, Crypto!Order(d)) /\ Crypto!Apart(Crypto!Order(d), o)
      BY <3>2, <3>3 DEF Crypto!Apart
    <3>5. \A o, p \in held' : o = p \/ Crypto!Apart(o, p)
      BY <3>1, <3>4 DEF CMarket
    <3>6. \A o \in held' : o = Crypto!Before \/ (o.dev \in cclaim' /\ cpc'[o.dev] = "done")
      BY <2>c, <3>1, <3>2
    <3> QED BY <2>1, <3>1, <3>2, <3>5, <3>6 DEF CMarket
  <2>8. CASE Crypto!LimitOrder(d) \/ Crypto!LimitRead(d) \/ Crypto!LimitCancel(d)
             \/ Crypto!LimitFinal(d)
    BY <2>2, <2>8 DEF Crypto!LimitOrder, Crypto!LimitRead, Crypto!LimitCancel, Crypto!LimitFinal
  <2> QED BY <1>2, <2>3, <2>4, <2>5, <2>6, <2>7, <2>8 DEF CEntry
<1>3. ASSUME NEW d \in Dev, Crypto!Crash(d) PROVE CMarket'
  <2>1. /\ UNCHANGED <<held, corders, cclaim, clabel>> /\ cpc[d] # "done"
        /\ cpc' = [cpc EXCEPT ![d] = "idle"]
    BY <1>3 DEF Crypto!Crash, Crypto!market, Crypto!setup
  <2> QED BY <1>0, <1>l, <2>1 DEF CMarket, CThreadOK, CRestOK
<1>4. CASE UNCHANGED cvars
  BY <1>l, <1>4 DEF cvars, CMarket
<1> QED BY <1>1, <1>2, <1>3, <1>4, CNextSplits

\* Once another computer has sent orders, or may have, it stays so.
LEMMA CUnclaimedStays ==
  ASSUME Crypto!TypeOK, [Crypto!Next]_cvars, Crypto!Unclaimed
  PROVE  Crypto!Unclaimed'
<1>0. CThreadOK
  BY CTypeParts
<1>1. \/ "crash" \in codd' \/ \A d \in Dev : cpc[d] # "idle" => cpc'[d] # "idle"
  <2>1. CASE Crypto!Fill \/ Crypto!Dies \/ UNCHANGED cvars
    BY <2>1 DEF Crypto!Fill, Crypto!Dies, Crypto!thread, cvars
  <2>2. ASSUME NEW d \in Dev, CEntry(d) PROVE cpc'[d] # "idle"
    <3> USE <1>0 DEF CThreadOK, CStep, Crypto!Step, Crypto!Gives
    <3>1. CASE Crypto!Begin(d) \/ Crypto!Look(d) \/ Crypto!Close(d) \/ Crypto!Price(d)
               \/ Crypto!Claim(d) \/ Crypto!ClaimUnanswered(d)
      BY <3>1 DEF Crypto!Begin, Crypto!Look, Crypto!Close, Crypto!Price, Crypto!Claim,
                  Crypto!ClaimUnanswered, Crypto!After
    <3>2. CASE Crypto!Send(d) \/ Crypto!SendFails(d) \/ Crypto!LimitOrder(d)
               \/ Crypto!LimitRead(d)
      BY <3>2 DEF Crypto!Send, Crypto!SendFails, Crypto!LimitOrder, Crypto!LimitRead
    <3>3. CASE Crypto!LimitCancel(d) \/ Crypto!LimitFinal(d)
      BY <3>3 DEF Crypto!LimitCancel, Crypto!LimitFinal
    <3> QED BY <2>2, <3>1, <3>2, <3>3 DEF CEntry
  <2>3. ASSUME NEW d \in Dev, Crypto!Crash(d) PROVE "crash" \in codd'
    BY <2>3 DEF Crypto!Crash
  <2> QED BY <2>1, <2>2, <2>3, CThreadTyped, CNextSplits
<1> QED BY <1>1, CGrows DEF Crypto!Unclaimed

LEMMA CLimitStep ==
  ASSUME Crypto!TypeOK, Crypto!TypeOK', cpolicy = "limit", CLimit, [Crypto!Next]_cvars,
         CQuiet', ~Crypto!Unclaimed'
  PROVE  CLimit'
<1>0. CThreadOK /\ CRestOK /\ codd \subseteq codd' /\ CRestOK'
  BY CTypeParts, CGrows DEF Crypto!TypeOK, CRestOK
<1>1. CASE Crypto!Fill \/ Crypto!Dies
  <2>1. PICK o \in corders : corders' = corders \ {o} /\ held' \in {held, held \union {o}}
    BY <1>1 DEF Crypto!Fill, Crypto!Dies
  <2>2. UNCHANGED <<cpc, codd>> /\ o # Crypto!Before
    BY <1>0, <1>1, COrderTyped DEF Crypto!Fill, Crypto!Dies, Crypto!thread, CRestOK, Crypto!Sent, Crypto!Before
  <2>3. held = {} /\ corders' = {} /\ "unclaimed" \in codd
    BY <2>1 DEF CLimit
  <2>4. \A d \in Dev : cpc[d] \notin {"limit", "final", "send"}
    BY <2>1, <2>3 DEF CLimit
  <2> QED BY <2>1, <2>2, <2>3, <2>4 DEF CLimit
<1>2. ASSUME NEW d \in Dev, CEntry(d) PROVE CLimit'
  <2>1. /\ CThreadOK' /\ \A e \in Dev \ {d} : cpc'[e] = cpc[e]
    BY <1>2, CThreadTyped
  \* A computer that moves after an order was sent is the only one.
  <2>2. "unclaimed" \in codd' /\ cpc'[d] # "idle" => \A e \in Dev \ {d} : cpc[e] = "idle"
    BY <2>1 DEF Crypto!Unclaimed
  <2>3. cpc[d] \in {"idle", "look", "close", "limit", "read", "cancel", "final", "send", "done"}
    BY DEF CLimit
  <2> USE <1>0 DEF CThreadOK, CStep, Crypto!Step, Crypto!Gives, Crypto!market
  <2>4. CASE Crypto!Begin(d) \/ Crypto!Look(d)
    <3>1. /\ UNCHANGED <<held, corders, codd>> /\ cpc[d] \in {"idle", "look"}
          /\ cpc'[d] \in {"look", "close", "limit", "done"} /\ (cpc'[d] = "limit" => held = {})
          /\ cpc[d] = "idle" => cpc'[d] \in {"look", "done"}
      BY <2>4 DEF Crypto!Begin, Crypto!Look, Crypto!After
    <3>2. "unclaimed" \notin codd
      BY <2>2, <3>1 DEF CLimit
    <3> QED BY <2>1, <3>1, <3>2 DEF CLimit
  <2>5. CASE Crypto!Close(d)
    <3>1. /\ UNCHANGED <<corders, codd>> /\ cpc[d] = "close" /\ held' \in {held, {}}
          /\ cpc'[d] \in {"limit", "done"} /\ (cpc'[d] = "limit" => held' = {})
      BY <2>5 DEF Crypto!Close, Crypto!After
    <3> QED BY <2>1, <3>1 DEF CLimit
  <2>6. CASE Crypto!Price(d) \/ Crypto!Claim(d) \/ Crypto!ClaimUnanswered(d)
    BY <2>3, <2>6 DEF Crypto!Price, Crypto!Claim, Crypto!ClaimUnanswered
  <2>7. CASE Crypto!Send(d) \/ Crypto!SendFails(d)
    <3>1. /\ cpc[d] = "send" /\ cpc'[d] = "done" /\ UNCHANGED <<corders, codd>>
          /\ held' \in {held, held \union {Crypto!Order(d)}}
      BY <2>7 DEF Crypto!Send, Crypto!SendFails
    <3>2. held = {} /\ corders = {} /\ "unclaimed" \in codd /\ Crypto!Order(d) # Crypto!Before
      BY <3>1, COrderTyped DEF CLimit
    <3> QED BY <2>1, <2>2, <3>1, <3>2 DEF CLimit
  <2>8. CASE Crypto!LimitOrder(d)
    <3>1. /\ cpc[d] = "limit" /\ held' = held /\ "unclaimed" \in codd'
          /\ \/ cpc'[d] = "read" /\ corders' = corders \union {Crypto!Order(d)}
             \/ /\ cpc'[d] = "final"
                /\ corders' = corders \/ "loose" \in codd'
      BY <2>8 DEF Crypto!LimitOrder
    <3>2. held = {} /\ corders = {}
      BY <3>1 DEF CLimit
    <3>3. Crypto!Order(d).dev = d /\ (corders' = corders \/ cpc'[d] = "read")
      BY <3>1, COrderTyped DEF CQuiet
    <3> QED BY <2>1, <2>2, <3>1, <3>2, <3>3 DEF CLimit
  <2>9. CASE Crypto!LimitRead(d)
    <3>1. UNCHANGED <<held, corders, codd>> /\ cpc[d] = "read" /\ cpc'[d] = "cancel"
      BY <2>9 DEF Crypto!LimitRead
    <3> QED BY <2>1, <3>1 DEF CLimit
  <2>10. CASE Crypto!LimitCancel(d)
    <3>1. /\ held' = held /\ cpc[d] = "cancel" /\ cpc'[d] \in {"done", "limit", "final"}
          /\ corders' = {o \in corders : o.dev # d}
          /\ cpc'[d] = "limit" => held = {}
      BY <2>10 DEF Crypto!LimitCancel, CQuiet
    <3>2. corders' = {} /\ "unclaimed" \in codd
      BY <3>1 DEF CLimit
    <3> QED BY <2>1, <2>2, <3>1, <3>2 DEF CLimit
  <2>11. CASE Crypto!LimitFinal(d)
    <3>1. /\ UNCHANGED <<held, corders, codd>> /\ cpc[d] = "final"
          /\ cpc'[d] = "done" \/ (cpc'[d] = "send" /\ held = {})
      BY <2>11 DEF Crypto!LimitFinal
    <3> QED BY <2>1, <3>1 DEF CLimit
  <2> QED BY <1>2, <2>4, <2>5, <2>6, <2>7, <2>8, <2>9, <2>10, <2>11 DEF CEntry
<1>3. ASSUME NEW d \in Dev, Crypto!Crash(d) PROVE CLimit'
  <2>1. /\ UNCHANGED <<held, corders>> /\ codd' = codd \union {"crash"}
        /\ cpc' = [cpc EXCEPT ![d] = "idle"]
    BY <1>3 DEF Crypto!Crash, Crypto!market
  <2>2. "unclaimed" \notin codd
    BY <2>1 DEF Crypto!Unclaimed
  <2> QED BY <1>0, <2>1, <2>2 DEF CLimit, CThreadOK
<1>4. CASE UNCHANGED cvars
  BY <1>4 DEF cvars, CLimit
<1> QED BY <1>1, <1>2, <1>3, <1>4, CNextSplits

LEMMA CInit == Crypto!Init => CInv
<1> SUFFICES ASSUME Crypto!Init PROVE CInv
  OBVIOUS
<1>1. /\ held \subseteq {Crypto!Before} /\ corders = {} /\ codd = {} /\ cclaim = {}
      /\ cpc = [d \in Dev |-> "idle"]
  BY DEF Crypto!Init
<1>2. CNoted
  BY <1>1 DEF CNoted
<1>3. COnce
  BY <1>1 DEF COnce, CMarket, CLimit
<1> QED BY <1>2, <1>3, CTypeInit DEF CInv

LEMMA CInvStep == CInv /\ [Crypto!Next]_cvars => CInv'
<1> SUFFICES ASSUME CInv, [Crypto!Next]_cvars PROVE CInv'
  OBVIOUS
<1>1. Crypto!TypeOK /\ Crypto!TypeOK' /\ CNoted'
  BY CTypeStep, CNotedStep DEF CInv
<1>2. COnce'
  <2> SUFFICES ASSUME CQuiet'
      PROVE  /\ cpolicy' # "limit" => CMarket'
             /\ cpolicy' = "limit" /\ ~Crypto!Unclaimed' => CLimit'
    BY DEF COnce
  <2>1. CQuiet /\ cpolicy' = cpolicy
    BY <1>1, CGrows DEF CQuiet
  <2> QED BY <1>1, <2>1, CMarketStep, CLimitStep, CUnclaimedStays DEF CInv, COnce
<1> QED BY <1>1, <1>2 DEF CInv

LEMMA CProperties == CInv => Crypto!TypeOK /\ Crypto!NoDouble /\ Crypto!OpenIsKnown
<1> SUFFICES ASSUME CInv PROVE Crypto!TypeOK /\ Crypto!NoDouble /\ Crypto!OpenIsKnown
  OBVIOUS
<1>1. Crypto!OpenIsKnown
  <2> SUFFICES ASSUME \A d \in Dev : cpc[d] \in {"idle", "done"}, "crash" \notin codd,
                      NEW o \in held \ {Crypto!Before}
      PROVE  o.dev \in recorded \union ctold
    BY DEF Crypto!OpenIsKnown
  <2>1. o.dev \in Dev
    BY DEF CInv, Crypto!TypeOK, Crypto!Sent
  <2> QED BY <2>1 DEF CInv, CNoted
<1>2. Crypto!NoDouble
  BY Zenon DEF CInv, COnce, CMarket, CLimit, CQuiet, Crypto!NoDouble
<1> QED BY <1>1, <1>2 DEF CInv

-----------------------------------------------------------------------------
(* The theorems. *)

\* One computer after another, a run started again, a repeated order: none of
\* them enters a signal a second time (_run_futures_entry), for any number of
\* computers, legs, starts and failures.
THEOREM NeverTwice == Spec => []NoDouble
<1>1. Spec => []EntryInv
  BY EntryInit, EntryStep, PTL DEF Spec
<1>2. EntryInv => NoDouble
  BY EntryProperties
<1> QED BY <1>1, <1>2, PTL

\* While the server answers, no two computers place orders for the account
\* side by side, whatever else fails and however often they start again.
THEOREM OneRunAlone == Spec => []OneRunEnters
<1>1. Spec => []EntryInv
  BY EntryInit, EntryStep, PTL DEF Spec
<1>2. EntryInv => OneRunEnters
  BY EntryProperties
<1> QED BY <1>1, <1>2, PTL

\* When the entries are over, a position without a stop is one the member was
\* told of or the app watches.
THEOREM NoneBareUnknown == Spec => []BareIsKnown
<1>1. Spec => []EntryInv
  BY EntryInit, EntryStep, PTL DEF Spec
<1>2. EntryInv => BareIsKnown
  BY EntryProperties
<1> QED BY <1>1, <1>2, PTL

\* Both machines side by side: a step of the one leaves the other alone.
MCInv == EntryInv /\ CInv

LEMMA MCInvInit == MCInit => MCInv
BY EntryInit, CInit DEF MCInit, MCInv

LEMMA MCInvStep == MCInv /\ [MCNext]_allvars => MCInv'
<1> SUFFICES ASSUME MCInv, [MCNext]_allvars PROVE MCInv'
  OBVIOUS
<1>1. [Next]_vars /\ [Crypto!Next]_cvars
  BY DEF MCNext, allvars
<1> QED BY <1>1, EntryStep, CInvStep DEF MCInv

LEMMA MCInvAlways == MCSpec => []MCInv
BY MCInvInit, MCInvStep, PTL DEF MCSpec

\* The state of either entry is well typed, in every scene.
THEOREM TypesHold == MCSpec => []Types
<1>1. MCInv => Types
  BY EntryProperties, CProperties DEF MCInv, Types
<1> QED BY <1>1, MCInvAlways, PTL

\* The account holds one signal once, futures and bitcoin alike: the claim of
\* the server, the order of a leg and the cancelled limit orders see to it.
THEOREM OneEntryHolds == MCSpec => []OneEntry
<1>1. MCInv => OneEntry
  BY EntryProperties, CProperties DEF MCInv, OneEntry
<1> QED BY <1>1, MCInvAlways, PTL

\* No position without a stop, and no bitcoin entry nobody noted, is left
\* without a word to the member.
THEOREM NoneIsUnknown == MCSpec => []NoneUnknown
<1>1. MCInv => NoneUnknown
  BY EntryProperties, CProperties DEF MCInv, NoneUnknown
<1> QED BY <1>1, MCInvAlways, PTL
=============================================================================
