------------------------------ MODULE MCEntry -------------------------------
(***************************************************************************)
(* A small instance of FuturesEntry and of CryptoEntry.  A scene narrows   *)
(* it to a part of the behaviours: one machine, and some computers, legs   *)
(* or failures.                                                            *)
(***************************************************************************)
EXTENDS FuturesEntry, TLC

CONSTANTS a, b, Scenes, Labels
VARIABLES scene,
  cpolicy, clabel, held, corders, cpc, ctry, cqty, clife, cclaim, recorded, ctold,
  codd, cfaults

\* Bitcoin entered in an account at Bybit or Bitget.
Crypto == INSTANCE CryptoEntry WITH
  policy <- cpolicy, label <- clabel, orders <- corders, pc <- cpc, try <- ctry, qty <- cqty,
  life <- clife, claim <- cclaim, told <- ctold, odd <- codd, faults <- cfaults

cvars == <<cpolicy, clabel, held, corders, cpc, ctry, cqty, clife, cclaim, recorded,
           ctold, codd, cfaults>>
allvars == <<scene, vars, cvars>>

Rests(d) == pc[d] = "idle" /\ life[d] = 1
CRests(d) == cpc[d] = "idle" /\ clife[d] = 1
OneLeg == size = 1 /\ \A l \in Leg : l > 1 => pos[l] = 0
Futures == scene \in {"alone", "pair", "legs"}

\* One computer, every kind of broker and both policies; two computers, one
\* of them on standby at NT8; a mini and a micro leg at ProjectX; bitcoin on
\* two computers, and on one with the limit orders repeated.
Narrow ==
  /\ scene = "alone" => Rests(b) /\ OneLeg
  /\ scene = "pair" => OneLeg /\ policy = "market" /\ faults <= 1
  /\ scene = "legs" => Rests(b) /\ kind = "px" /\ policy = "market" /\ size > 1 /\ life[a] = 1
  /\ scene = "crypto" => cfaults <= 1
  /\ clabel[a] = 1 /\ (scene # "crypto" => clabel[b] = 1)
  /\ scene = "repeat" => CRests(b) /\ cpolicy = "limit"
  /\ Futures => cpolicy = "market" /\ held = {}
  /\ ~Futures => OneLeg /\ kind = "px" /\ policy = "market" /\ pos[1] = 0

MCInit == scene \in Scenes /\ Init /\ Crypto!Init /\ Narrow

MCNext ==
  /\ UNCHANGED scene
  /\ \/ Futures /\ Next /\ UNCHANGED cvars
     \/ ~Futures /\ Crypto!Next /\ UNCHANGED vars
  /\ Narrow'

Alive == scene = "alone" /\ Beat(a) /\ UNCHANGED <<scene, cvars>>
MCSpec == MCInit /\ [][MCNext]_allvars /\ WF_allvars(Alive)

\* An account never holds the signal twice (FuturesEntry and CryptoEntry,
\* NoDouble).
OneEntry == NoDouble /\ Crypto!NoDouble

\* When the entries are over, a position without a stop, or one nobody
\* recorded, is known to the member (FuturesEntry, BareIsKnown; CryptoEntry,
\* OpenIsKnown).
NoneUnknown == BareIsKnown /\ Crypto!OpenIsKnown

\* The state of the entry under way is well typed (FuturesEntry and
\* CryptoEntry, TypeOK).
Types == TypeOK /\ Crypto!TypeOK

\* A watched leg that is open without a stop does not stay so: it gets a stop,
\* or the member is told that it has none (FuturesEntry, Unanswered).
WatchAnswers ==
  scene = "alone" /\ Unanswered(a, 1) ~> ~Unanswered(a, 1)
=============================================================================
