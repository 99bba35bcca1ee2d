-------------------------- MODULE CutoffScheduler ---------------------------
(***************************************************************************)
(* The headless runner (eqexec/runner.py) and its scheduler                *)
(* (eqexec/scheduler.py): once per day and cutoff it flattens the          *)
(* configured accounts.  What was fired is kept in memory only.            *)
(*                                                                         *)
(* The clock counts whole hours and cutoffs are on the hour.  A cutoff is  *)
(* a string the member wrote; "15:00" and "9:00" both pass the             *)
(* configuration's check, and strings are what the scheduler compares.     *)
(***************************************************************************)
EXTENDS Naturals

CONSTANTS
  Cutoff,    \* configured cutoffs
  HourOf,    \* [Cutoff -> 0 .. 23]
  Padded,    \* cutoffs written with two digits
  Days,      \* bound: days
  MaxRun     \* bound: starts of the process

Time == 0 .. 24 * Days - 1

ASSUME CutoffAssumption ==
  /\ HourOf \in [Cutoff -> 0 .. 23]
  /\ Padded \subseteq Cutoff
  /\ \A c \in Cutoff : HourOf[c] >= 10 => c \in Padded
  /\ Days \in Nat \ {0} /\ MaxRun \in Nat

VARIABLES
  now,
  runs,      \* starts so far
  pc,        \* "down", "sleep", "due"
  day, due,  \* run()'s now and _due(now)
  fired,     \* _fired, pairs of day and cutoff
  \* history
  polled,    \* the loop came round in this hour
  calls      \* [Cutoff -> times the callback ran today in this process]

vars == <<now, runs, pc, day, due, fired, polled, calls>>

Today == now \div 24 + 1
Hour == now % 24
NoCalls == [c \in Cutoff |-> 0]

TypeOK ==
  /\ now \in Time /\ runs \in 0 .. MaxRun
  /\ pc \in {"down", "sleep", "due"}
  /\ day \in 0 .. Days /\ due \subseteq Cutoff
  /\ fired \subseteq (1 .. Days) \X Cutoff
  /\ polled \in BOOLEAN
  /\ calls \in [Cutoff -> Nat]

Init ==
  /\ now = 0 /\ runs = 0 /\ pc = "down"
  /\ day = 0 /\ due = {} /\ fired = {}
  /\ polled = FALSE /\ calls = NoCalls

\* Mutant of Passed: the cutoff fires only in its own hour.
PassedSharp(c) == Hour = HourOf[c]

\* hhmm_now >= c on strings: where the hour lost its zero, the first digit
\* of the clock is compared with the hour and ":" is above every digit.
Passed(c) ==
  IF c \in Padded THEN Hour >= HourOf[c] ELSE Hour \div 10 > HourOf[c]

Due == {c \in Cutoff : <<Today, c>> \notin fired /\ Passed(c)}

Start ==
  /\ pc = "down" /\ runs < MaxRun
  /\ pc' = "sleep" /\ runs' = runs + 1
  /\ fired' = {} /\ calls' = NoCalls
  /\ polled' = FALSE
  /\ UNCHANGED <<now, day, due>>

\* Ctrl-C, a crash or a reboot.
Die ==
  /\ pc # "down"
  /\ pc' = "down" /\ due' = {} /\ day' = 0 /\ fired' = {}
  /\ polled' = FALSE
  /\ UNCHANGED <<now, runs, calls>>

\* Mutant of Poll: the day is not the one the clock was read on.
PollUndated ==
  /\ pc = "sleep"
  /\ pc' = "due" /\ due' = Due
  /\ UNCHANGED <<now, runs, day, fired, polled, calls>>

Poll ==
  /\ pc = "sleep"
  /\ pc' = "due" /\ due' = Due /\ day' = Today
  /\ UNCHANGED <<now, runs, fired, polled, calls>>

\* Mutant of Mark: the mark is set only when the callback did not raise.
MarkIfDone(c, ok) == IF ok THEN fired \union {<<day, c>>} ELSE fired

\* The mark comes before the callback, whose exception is swallowed.
Mark(c, ok) == fired \union {<<day, c>>}

\* _flatten: authentication or the close may raise.
Fire(c) ==
  /\ pc = "due" /\ c \in due
  /\ \E ok \in BOOLEAN : fired' = Mark(c, ok)
  /\ due' = due \ {c}
  /\ calls' = [calls EXCEPT ![c] = @ + 1]
  /\ UNCHANGED <<now, runs, pc, day, polled>>

\* Yesterday's marks are forgotten.
Forget ==
  /\ pc = "due" /\ due = {}
  /\ fired' = {f \in fired : f[1] = day}
  /\ pc' = "sleep" /\ day' = 0 /\ polled' = TRUE
  /\ UNCHANGED <<now, runs, due, calls>>

\* The loop polls every 20 seconds and a flatten takes minutes at most.
Tick ==
  /\ pc # "due" /\ (pc = "sleep" => polled)
  /\ now + 1 \in Time
  /\ now' = now + 1 /\ polled' = FALSE
  /\ calls' = IF Hour = 23 THEN NoCalls ELSE calls
  /\ UNCHANGED <<runs, pc, day, due, fired>>

Next ==
  \/ Start \/ Die \/ Poll \/ Forget \/ Tick
  \/ \E c \in Cutoff : Fire(c)

Spec == Init /\ [][Next]_vars

----------------------------------------------------------------------------
(* Properties. *)

\* "Fires a callback once per (date, cutoff)" (scheduler.py 3), also when
\* the callback raises.
OncePerCutoff == \A c \in Cutoff : calls[c] <= 1

\* A cutoff is called in its own hour by a process that was up when the hour
\* began, and at once by one that started later on the day.
CutoffCalled ==
  pc = "sleep" /\ polled =>
    \A c \in Cutoff : Hour >= HourOf[c] => calls[c] >= 1
=============================================================================
