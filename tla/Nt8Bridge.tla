------------------------------ MODULE Nt8Bridge ------------------------------
(***************************************************************************)
(* The bridge to NinjaTrader (src/eqexec/broker/nt8.py): the app queues     *)
(* commands, the add-on fetches them over HTTP, executes them and posts    *)
(* an acknowledgement each.  A journal on disk keeps the identity (tid) of *)
(* every command, so that none is sent twice, even after a restart.        *)
(*                                                                         *)
(* Callers are threads of the app; a command's tid comes from the signal,  *)
(* so that a run which starts again asks for the same one.                 *)
(***************************************************************************)
EXTENDS FiniteSets, Naturals

CONSTANTS
  Caller,   \* threads that send commands
  Tid,      \* identities of commands
  Fault,    \* failures that happen
  MaxFault, \* bound: failures
  MaxCall   \* bound: commands that are asked for

VARIABLES
  seen, journal,   \* seen_tids in memory, and in the file
  cut,             \* does the file end in a line that was not written whole
  pending, stale,  \* commands not fetched yet; those older than 120 s
  acks,            \* acknowledgements not yet read: tid and verdict
  beat,            \* is the last push of the add-on at most 5 s old
  waiting,         \* what each caller waits for: a set of at most one tid
  answer,          \* what each caller was told last: tid and verdict
  \* the add-on
  taken,           \* commands fetched, and not executed yet
  ran,             \* how often a command was executed
  \* history
  unwritten,       \* tids the file did not take, or took behind a cut line
  calls, faults

memory == <<seen, pending, stale, acks, waiting>>
addon == <<taken, ran>>
file == <<journal, cut>>
vars == <<memory, file, beat, answer, addon, unwritten, calls, faults>>

Verdicts == {"ok", "failed", "duplicate", "timeout", "unhealthy"}

TypeOK ==
  /\ seen \subseteq Tid /\ journal \subseteq seen /\ unwritten \subseteq Tid /\ cut \in BOOLEAN
  /\ pending \subseteq seen /\ stale \subseteq pending
  /\ acks \subseteq Tid \X {"ok", "failed"} /\ beat \in BOOLEAN
  /\ waiting \in [Caller -> SUBSET Tid]
  /\ \A c \in Caller : Cardinality(waiting[c]) <= 1
  /\ answer \in [Caller -> SUBSET (Tid \X Verdicts)]
  /\ taken \subseteq Tid /\ ran \in [Tid -> 0 .. 2]
  /\ calls \in 0 .. MaxCall /\ faults \in 0 .. MaxFault

\* A file that is read when the bridge starts: tids of earlier runs of the app.
Init ==
  /\ journal \in SUBSET Tid /\ cut \in BOOLEAN /\ seen = journal /\ unwritten = {}
  /\ pending = {} /\ stale = {} /\ acks = {} /\ beat \in BOOLEAN
  /\ waiting = [c \in Caller |-> {}] /\ answer = [c \in Caller |-> {}]
  /\ taken = {} /\ ran = [t \in Tid |-> 0]
  /\ calls = 0 /\ faults = 0

Fails(f) == f \in Fault /\ faults < MaxFault /\ faults' = faults + 1
Never == UNCHANGED faults

Told(c, t, v) == answer' = [answer EXCEPT ![c] = {<<t, v>>}]

-----------------------------------------------------------------------------
(* place_entry, close_contract: _enqueue_and_wait *)

\* An entry looks at the heartbeat first; a close does not.
Unhealthy(c) ==
  /\ waiting[c] = {} /\ calls < MaxCall /\ ~beat
  /\ \E t \in Tid : Told(c, t, "unhealthy")
  /\ calls' = calls + 1
  /\ UNCHANGED <<memory, file, beat, addon, unwritten, faults>>

Duplicate(c) ==
  /\ waiting[c] = {} /\ calls < MaxCall
  /\ \E t \in seen : Told(c, t, "duplicate")
  /\ calls' = calls + 1
  /\ UNCHANGED <<memory, file, beat, addon, unwritten, faults>>

\* Mutant of Journal: the line is written when the answer is there.
JournalLater(t) == UNCHANGED <<file, unwritten>> /\ Never

\* A disk that refuses a line is only logged; it may have taken a part of it.
LineFails == Fails("disk") /\ UNCHANGED journal /\ cut' \in {cut, TRUE}

\* The journal comes before the queue.  A line that is added to a cut one makes
\* one line with it, which _load_journal skips.
Journal(t) ==
  \/ /\ IF cut THEN unwritten' = unwritten \union {t} /\ UNCHANGED journal
        ELSE journal' = journal \union {t} /\ UNCHANGED unwritten
     /\ cut' = FALSE /\ Never
  \/ LineFails /\ unwritten' = unwritten \union {t}

Enqueue(c) ==
  /\ waiting[c] = {} /\ calls < MaxCall
  /\ \E t \in Tid \ seen :
       /\ Journal(t)
       /\ seen' = seen \union {t} /\ pending' = pending \union {t}
       /\ waiting' = [waiting EXCEPT ![c] = {t}]
  /\ answer' = [answer EXCEPT ![c] = {}]
  /\ calls' = calls + 1
  /\ UNCHANGED <<stale, acks, beat, addon>>

\* The acknowledgements a caller may take.
Own(c) == {x \in acks : x[1] \in waiting[c]}

Acked(c) ==
  /\ \E x \in Own(c), t \in waiting[c] : Told(c, t, x[2]) /\ acks' = acks \ {x}
  /\ waiting' = [waiting EXCEPT ![c] = {}]
  /\ UNCHANGED <<seen, pending, stale, file, beat, addon, unwritten, calls, faults>>

\* After 20 s; the command stays queued, and so does an acknowledgement that came
\* during the last wait of 0.1 s.
TimesOut(c) ==
  /\ \E t \in waiting[c] : Told(c, t, "timeout")
  /\ waiting' = [waiting EXCEPT ![c] = {}]
  /\ UNCHANGED <<seen, pending, stale, acks, file, beat, addon, unwritten, calls, faults>>

\* 120 s are more than the 20 s anyone waits.
Ages ==
  /\ \E t \in pending \ stale :
       (\A c \in Caller : t \notin waiting[c]) /\ stale' = stale \union {t}
  /\ UNCHANGED <<seen, pending, acks, waiting, file, beat, answer, addon, unwritten,
                 calls, faults>>

-----------------------------------------------------------------------------
(* The HTTP handlers, and the add-on. *)

Fresh == pending \ stale

\* A line in the journal for each command that is dropped; the first one follows
\* a cut line.
Dropped ==
  IF stale = {} THEN UNCHANGED file
  ELSE /\ cut' = FALSE
       /\ \E t \in stale : journal' = journal \union IF cut THEN stale \ {t} ELSE stale

\* GET /v1/pending: the queue is emptied; what is too old is dropped.  An answer
\* that does not arrive loses what it carried.
Pending ==
  /\ pending # {} /\ pending' = {} /\ stale' = {}
  /\ \/ Dropped /\ taken' = taken \union Fresh /\ Never
     \/ stale # {} /\ LineFails /\ taken' = taken \union Fresh
     \/ Dropped /\ Fails("answer") /\ UNCHANGED taken
  /\ UNCHANGED <<seen, acks, waiting, beat, answer, ran, unwritten, calls>>

\* POST /v1/ack, once executed or refused; the post may be lost.
Ack(t, v) ==
  \/ acks' = acks \union {<<t, v>>} /\ Never
  \/ Fails("ack") /\ UNCHANGED acks

Runs ==
  /\ \E t \in taken :
       /\ taken' = taken \ {t}
       /\ \/ ran' = [ran EXCEPT ![t] = IF @ < 2 THEN @ + 1 ELSE @] /\ Ack(t, "ok")
          \/ Ack(t, "failed") /\ UNCHANGED ran
  /\ UNCHANGED <<seen, pending, stale, waiting, file, beat, answer, unwritten, calls>>

\* POST /v1/state, or five seconds without it.
State ==
  /\ beat' = ~beat
  /\ UNCHANGED <<memory, file, answer, addon, unwritten, calls, faults>>

AddonStops ==
  /\ Fails("addon") /\ taken # {} /\ taken' = {} /\ beat' = FALSE
  /\ UNCHANGED <<memory, file, answer, ran, unwritten, calls>>

\* The app stops, perhaps within a line of the journal (which counts as one that
\* cannot be read), and starts: the journal is read, the queue is gone.
Restart ==
  /\ Fails("crash") /\ seen' = journal /\ pending' = {} /\ stale' = {} /\ acks' = {}
  /\ waiting' = [c \in Caller |-> {}] /\ answer' = [c \in Caller |-> {}] /\ beat' = FALSE
  /\ cut' \in {cut, TRUE} /\ UNCHANGED <<journal, addon, unwritten, calls>>

Next ==
  \/ \E c \in Caller : \/ Unhealthy(c) \/ Duplicate(c) \/ Enqueue(c)
                       \/ Acked(c) \/ TimesOut(c)
  \/ Ages \/ Pending \/ Runs \/ State \/ AddonStops \/ Restart

Spec == Init /\ [][Next]_vars

-----------------------------------------------------------------------------
\* Where a command stands: what is too old, or in nobody's hands, is over.
Stage(t) ==
  IF t \in unwritten THEN "free"
  ELSE IF ran[t] = 1 THEN "ran"
  ELSE IF ran[t] > 1 THEN "again"
  ELSE IF t \in (pending \ stale) \union taken THEN "asked"
  ELSE IF t \in seen THEN "dead" ELSE "new"

\* The bridge keeps the promise of CommandOnce.
Promise == INSTANCE CommandOnce WITH stage <- [t \in Tid |-> Stage(t)]

\* A command is executed at most once, whatever is repeated, lost or restarted
\* (unless the disk did not take its line, or took it behind a cut one); a caller
\* that was answered was told what happened to its own command.
OnceAndTold ==
  /\ \A t \in Tid \ unwritten : ran[t] <= 1
  /\ \A c \in Caller, t \in Tid \ unwritten :
       /\ <<t, "ok">> \in answer[c] => ran[t] = 1
       /\ <<t, "failed">> \in answer[c] => ran[t] = 0
=============================================================================
