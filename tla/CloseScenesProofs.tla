------------------------- MODULE CloseScenesProofs --------------------------
(***************************************************************************)
(* The scenes of the session-close loop satisfy what AutoCloseProofs asks  *)
(* of hours, windows and disturbances, and so its theorems hold of them.   *)
(***************************************************************************)
EXTENDS MCAutoClose, TLAPS

----------------------------------------------------------------------------
(* The hours of the scenes. *)

LEMMA RetriesHours ==
  /\ Retries!CloseAssumption
  /\ Retries!EntriesApart /\ Retries!SessionsApart /\ Retries!WindowsEnd
  BY ScenesAssumption
  DEF Retries!CloseAssumption, Retries!Time, Retries!EntriesApart,
      Retries!SessionsApart, Retries!Exits, Retries!EndAt, Retries!RowOf,
      Retries!Row, Retries!WindowsEnd

LEMMA AccountsHours ==
  /\ Accounts!CloseAssumption
  /\ Accounts!EntriesApart /\ Accounts!SessionsApart
  BY ScenesAssumption
  DEF Accounts!CloseAssumption, Accounts!Time, Accounts!EntriesApart,
      Accounts!SessionsApart, Accounts!Exits, Accounts!EndAt, Accounts!RowOf,
      Accounts!Row

LEMMA AssetsHours ==
  /\ Assets!CloseAssumption
  /\ Assets!EntriesApart /\ Assets!SessionsApart
  BY ScenesAssumption
  DEF Assets!CloseAssumption, Assets!Time, Assets!EntriesApart,
      Assets!SessionsApart, Assets!Exits, Assets!EndAt, Assets!RowOf, Assets!Row

LEMMA BitcoinHours ==
  /\ Bitcoin!CloseAssumption
  /\ Bitcoin!EntriesApart /\ Bitcoin!SessionsApart
  BY ScenesAssumption
  DEF Bitcoin!CloseAssumption, Bitcoin!Time, Bitcoin!EntriesApart,
      Bitcoin!SessionsApart, Bitcoin!Exits, Bitcoin!EndAt, Bitcoin!RowOf,
      Bitcoin!Row

----------------------------------------------------------------------------
(* A behaviour plays one scene. *)

LEMMA ScenesInit ==
  ASSUME MCInit
  PROVE  /\ scene = "retries" => Retries!Init
         /\ scene = "accounts" => Accounts!Init
         /\ scene = "assets" => Assets!Init
         /\ scene = "bitcoin" => Bitcoin!Init
  BY DEF MCInit

LEMMA ScenesStep ==
  ASSUME [MCNext]_allvars
  PROVE  /\ scene' = scene
         /\ scene = "retries" => [Retries!Next]_Retries!vars
         /\ scene = "accounts" => [Accounts!Next]_Accounts!vars
         /\ scene = "assets" => [Assets!Next]_Assets!vars
         /\ scene = "bitcoin" => [Bitcoin!Next]_Bitcoin!vars
<1>1. CASE MCNext
  BY <1>1 DEF MCNext
<1>2. CASE UNCHANGED allvars
  BY <1>2
  DEF allvars, vars, app, records, loop, history,
      Retries!vars, Retries!app, Retries!records, Retries!loop, Retries!history,
      Accounts!vars, Accounts!app, Accounts!records, Accounts!loop, Accounts!history,
      Assets!vars, Assets!app, Assets!records, Assets!loop, Assets!history,
      Bitcoin!vars, Bitcoin!app, Bitcoin!records, Bitcoin!loop, Bitcoin!history
<1> QED BY <1>1, <1>2

----------------------------------------------------------------------------
(* What is held open is closed or told. *)

HeldInv ==
  /\ scene = "retries" => Retries!HoldInv
  /\ scene = "accounts" => Accounts!HoldInv
  /\ scene = "assets" => Assets!HoldInv
  /\ scene = "bitcoin" => Bitcoin!HoldInv

LEMMA HeldInit == MCInit => HeldInv
  BY RetriesHours, AccountsHours, AssetsHours, BitcoinHours, ScenesInit,
     Retries!HoldInit, Accounts!HoldInit, Assets!HoldInit, Bitcoin!HoldInit
  DEF HeldInv

LEMMA HeldNext == HeldInv /\ [MCNext]_allvars => HeldInv'
<1> SUFFICES ASSUME HeldInv, [MCNext]_allvars PROVE HeldInv'
  OBVIOUS
<1>1. CASE scene = "retries"
  BY <1>1, ScenesStep, RetriesHours, Retries!HoldStep DEF HeldInv
<1>2. CASE scene = "accounts"
  BY <1>2, ScenesStep, AccountsHours, Accounts!HoldStep DEF HeldInv
<1>3. CASE scene = "assets"
  BY <1>3, ScenesStep, AssetsHours, Assets!HoldStep DEF HeldInv
<1>4. CASE scene = "bitcoin"
  BY <1>4, ScenesStep, BitcoinHours, Bitcoin!HoldStep DEF HeldInv
<1> QED BY <1>1, <1>2, <1>3, <1>4, ScenesStep DEF HeldInv

\* A position a loop was there to close is closed by the end of the window, or
\* the member was told that it failed (_auto_loop).
THEOREM HeldIsToldInScenes == MCSpec => []NoneHeldSilently
<1>1. HeldInv => NoneHeldSilently
  BY RetriesHours, AccountsHours, AssetsHours, BitcoinHours,
     Retries!HoldSilent, Accounts!HoldSilent, Assets!HoldSilent, Bitcoin!HoldSilent
  DEF HeldInv, NoneHeldSilently
<1> QED BY <1>1, HeldInit, HeldNext, PTL DEF MCSpec

----------------------------------------------------------------------------
(* What a close closes. *)

SparedInv ==
  /\ scene = "retries" => Retries!KillInv
  /\ scene = "accounts" => Accounts!KillInv
  /\ scene = "assets" => Assets!KillInv
  /\ scene = "bitcoin" => Bitcoin!KillInv

LEMMA SparedInit == MCInit => SparedInv
  BY RetriesHours, AccountsHours, AssetsHours, BitcoinHours, ScenesInit,
     Retries!KillInit, Accounts!KillInit, Assets!KillInit, Bitcoin!KillInit
  DEF SparedInv

LEMMA SparedNext == SparedInv /\ [MCNext]_allvars => SparedInv'
<1> SUFFICES ASSUME SparedInv, [MCNext]_allvars PROVE SparedInv'
  OBVIOUS
<1>1. CASE scene = "retries"
  BY <1>1, ScenesStep, RetriesHours, Retries!KillStep DEF SparedInv
<1>2. CASE scene = "accounts"
  BY <1>2, ScenesStep, AccountsHours, Accounts!KillStep DEF SparedInv
<1>3. CASE scene = "assets"
  BY <1>3, ScenesStep, AssetsHours, Assets!KillStep DEF SparedInv
<1>4. CASE scene = "bitcoin"
  BY <1>4, ScenesStep, BitcoinHours, Bitcoin!KillStep DEF SparedInv
<1> QED BY <1>1, <1>2, <1>3, <1>4, ScenesStep DEF SparedInv

\* A flatten closes nothing that was entered less than a window ago, nor what
\* another asset's session of the day still holds (_auto_loop, flatten_all).
THEOREM NothingNewInScenes == MCSpec => NoneKilledEarly
<1>1. ASSUME SparedInv, [MCNext]_allvars
      PROVE  /\ scene = "retries" => Retries!LateKill
             /\ scene = "accounts" => Accounts!LateKill
             /\ scene = "assets" => Assets!LateKill
             /\ scene = "bitcoin" => Bitcoin!LateKill
  <2>1. CASE scene = "retries"
    BY <1>1, <2>1, ScenesStep, RetriesHours, Retries!KillsNoneEarly DEF SparedInv
  <2>2. CASE scene = "accounts"
    BY <1>1, <2>2, ScenesStep, AccountsHours, Accounts!KillsNoneEarly DEF SparedInv
  <2>3. CASE scene = "assets"
    BY <1>1, <2>3, ScenesStep, AssetsHours, Assets!KillsNoneEarly DEF SparedInv
  <2>4. CASE scene = "bitcoin"
    BY <1>1, <2>4, ScenesStep, BitcoinHours, Bitcoin!KillsNoneEarly DEF SparedInv
  <2> QED BY <2>1, <2>2, <2>3, <2>4
<1>2. SparedInv /\ [MCNext]_allvars =>
        [/\ scene = "retries" => Retries!LateKill
         /\ scene = "accounts" => Accounts!LateKill
         /\ scene = "assets" => Assets!LateKill
         /\ scene = "bitcoin" => Bitcoin!LateKill]_allvars
  BY <1>1
<1> QED BY <1>2, SparedInit, SparedNext, PTL DEF MCSpec, NoneKilledEarly

----------------------------------------------------------------------------
(* What the member is told. *)

KnownInv ==
  /\ scene = "retries" => Retries!GaveInv
  /\ scene = "accounts" => Accounts!ToldInv

LEMMA KnownInit == MCInit => KnownInv
  BY RetriesHours, AccountsHours, ScenesInit, Retries!GaveInit, Accounts!ToldInit
  DEF KnownInv

LEMMA KnownNext == KnownInv /\ [MCNext]_allvars => KnownInv'
<1> SUFFICES ASSUME KnownInv, [MCNext]_allvars PROVE KnownInv'
  OBVIOUS
<1>1. CASE scene = "retries"
  <2>1. /\ "disarm" \notin {"stop"} /\ "overlap" \notin {"stop"}
        /\ "sleep" \notin {"stop"}
    OBVIOUS
  <2> QED BY <1>1, <2>1, ScenesStep, RetriesHours, Retries!GaveStep DEF KnownInv
<1>2. CASE scene = "accounts"
  BY <1>2, ScenesStep, AccountsHours, Accounts!ToldStep DEF KnownInv
<1> QED BY <1>1, <1>2, ScenesStep DEF KnownInv

\* The first failure of a close is told once a day (_auto_loop, _auto_retry).
THEOREM ToldOnceInScenes == MCSpec => ToldOnce
<1>1. ASSUME KnownInv, [MCNext]_allvars
      PROVE  /\ scene = "retries" => Retries!FirstTold
             /\ scene = "accounts" => Accounts!FirstTold
  <2>1. CASE scene = "retries"
    BY <1>1, <2>1, ScenesStep, RetriesHours, Retries!TellsOnce DEF KnownInv, Retries!GaveInv
  <2>2. CASE scene = "accounts"
    BY <1>1, <2>2, ScenesStep, AccountsHours, Accounts!TellsOnce DEF KnownInv
  <2> QED BY <2>1, <2>2
<1>2. KnownInv /\ [MCNext]_allvars =>
        [/\ scene = "retries" => Retries!FirstTold
         /\ scene = "accounts" => Accounts!FirstTold]_allvars
  BY <1>1
<1> QED BY <1>2, KnownInit, KnownNext, PTL DEF MCSpec, ToldOnce

\* After "the app will not attempt this exit again today" no attempt follows
\* on that day, and the close had not been finished (_auto_loop).
THEOREM GivenUpInScenes == MCSpec => GivenUpTruly
<1>1. KnownInv /\ [MCNext]_allvars =>
        [scene = "retries" => Retries!GiveUpIsFinal]_allvars
  BY ScenesStep, RetriesHours, Retries!GivesUpOnce DEF KnownInv
<1> QED BY <1>1, KnownInit, KnownNext, PTL DEF MCSpec, GivenUpTruly
=============================================================================
