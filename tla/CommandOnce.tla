---------------------------- MODULE CommandOnce -----------------------------
(***************************************************************************)
(* What the bridge to NinjaTrader promises its callers: a command is asked *)
(* for, and is then executed once or never; a caller that is given a       *)
(* verdict is given the right one.  No promise is made of a command whose  *)
(* identity could not be noted.                                            *)
(***************************************************************************)
CONSTANTS Caller, Tid

VARIABLES
  stage,     \* "new", "asked", "ran", "dead", or "free" of any promise
  answer     \* what each caller was told last: tid and verdict

vars == <<stage, answer>>
Silent == [c \in Caller |-> {}]

\* What earlier runs of the app asked for is not asked for again.
Init == stage \in [Tid -> {"new", "dead"}] /\ answer = Silent

Ask(c, t) ==
  /\ answer' = [answer EXCEPT ![c] = {}]
  /\ \/ stage[t] = "new" /\ \E s \in {"asked", "free"} : stage' = [stage EXCEPT ![t] = s]
     \/ stage[t] = "free" /\ UNCHANGED stage

Execute(t) ==
  /\ stage[t] \in {"asked", "free"}
  /\ stage' = [stage EXCEPT ![t] = IF @ = "free" THEN "free" ELSE "ran"]
  /\ UNCHANGED answer

\* Commands are refused, grow old or are lost; so may be who asked for them.
Lose(S) ==
  /\ \A t \in S : stage[t] = "asked"
  /\ stage' = [t \in Tid |-> IF t \in S THEN "dead" ELSE stage[t]]
  /\ answer' = answer \/ answer' = Silent

Answer(c, t, v) ==
  /\ v = "ok" => stage[t] \in {"ran", "free"}
  /\ v = "failed" => stage[t] \in {"dead", "free"}
  /\ answer' = [answer EXCEPT ![c] = {<<t, v>>}]
  /\ UNCHANGED stage

Verdict == {"ok", "failed", "duplicate", "timeout", "unhealthy"}

Next ==
  \/ \E c \in Caller, t \in Tid : Ask(c, t) \/ \E v \in Verdict : Answer(c, t, v)
  \/ \E t \in Tid : Execute(t)
  \/ \E S \in SUBSET Tid : Lose(S)

Spec == Init /\ [][Next]_vars
=============================================================================
