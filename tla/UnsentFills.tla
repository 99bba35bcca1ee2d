---------------------------- MODULE UnsentFills -----------------------------
(***************************************************************************)
(* Reports of fills to the dashboard.  The entry and the close of a        *)
(* position are posted by a thread each for 15 minutes, then put in a file *)
(* that a tick works through every two minutes for a day.  The file is     *)
(* read, changed and written by several threads without a lock, and is     *)
(* written in place.                                                       *)
(***************************************************************************)
EXTENDS Integers, SequencesExt

CONSTANTS
  MaxReport,   \* bound: reports
  MaxQueue,    \* the reports kept in the file, 50 in the code
  Tick,        \* ticks that overlap: a tick of 50 posts takes longer than two minutes
  Fault, MaxFault

VARIABLES
  made,        \* reports so far
  pc,          \* of the report's own thread
  copy,        \* the file as a thread read it
  queue,       \* the file, a sequence of reports
  tick, todo, keep,   \* a tick's step, what it has still to post, what stays
  \* history
  posted,      \* reports the server took
  waiting,     \* reports that were to be put in the file
  over,        \* reports dropped by age, by the number kept, or by a file that was
               \* cut or not written
  raced,       \* reports in the file when two threads had it in hand
  faults

file == <<copy, queue, tick, todo, keep>>
vars == <<made, pc, file, posted, waiting, over, raced, faults>>

Report == 1 .. MaxReport
Queues == UNION {[1 .. n -> Report] : n \in 0 .. MaxQueue}

TypeOK ==
  /\ made \in 0 .. MaxReport
  /\ pc \in [Report -> {"none", "send", "load", "store", "write", "done"}]
  /\ copy \in [Report -> Queues] /\ queue \in Queues
  /\ tick \in [Tick -> {"idle", "post", "write"}]
  /\ todo \in [Tick -> Queues] /\ keep \in [Tick -> Queues]
  /\ posted \subseteq 1 .. made
  /\ waiting \subseteq 1 .. made /\ over \subseteq waiting /\ raced \subseteq waiting
  /\ faults \in 0 .. MaxFault

Init ==
  /\ made = 0 /\ pc = [r \in Report |-> "none"] /\ copy = [r \in Report |-> <<>>]
  /\ queue = <<>> /\ tick = [k \in Tick |-> "idle"]
  /\ todo = [k \in Tick |-> <<>>] /\ keep = [k \in Tick |-> <<>>]
  /\ posted = {} /\ waiting = {} /\ over = {} /\ raced = {} /\ faults = 0

Fails(f) == f \in Fault /\ faults < MaxFault /\ faults' = faults + 1
Never == UNCHANGED faults
Holds(r) == pc[r] \in {"store", "write"}
Held == (\E k \in Tick : tick[k] # "idle") \/ \E r \in Report : Holds(r)

\* The server takes a report.
Taken(r) == posted' = posted \union {r}

-----------------------------------------------------------------------------
(* _send_fill *)

Fills ==
  /\ made < MaxReport /\ made' = made + 1
  /\ pc' = [pc EXCEPT ![made + 1] = "send"]
  /\ UNCHANGED <<file, posted, waiting, over, raced, faults>>

Post(r) ==
  /\ pc[r] = "send"
  /\ \/ Taken(r) /\ pc' = [pc EXCEPT ![r] = "done"] /\ Never
     \/ Fails("answer") /\ Taken(r) /\ UNCHANGED pc
     \/ Fails("server") /\ pc' = [pc EXCEPT ![r] = "load"] /\ UNCHANGED posted
  /\ UNCHANGED <<made, file, waiting, over, raced>>

\* _queue_unsent_fill reads the file.
Load(r) ==
  /\ pc[r] = "load" /\ pc' = [pc EXCEPT ![r] = "store"]
  /\ copy' = [copy EXCEPT ![r] = queue] /\ waiting' = waiting \union {r}
  /\ raced' = IF Held THEN raced \union waiting' ELSE raced
  /\ UNCHANGED <<made, queue, tick, todo, keep, posted, over, faults>>

Longer(q, r) == LET l == Append(q, r) IN SubSeq(l, Len(l) - MaxQueue + 1, Len(l))

Queued(q, r) == IF Len(q) < MaxQueue THEN Append(q, r) ELSE Longer(q, r)

\* Written in place: the file is empty until the write is done.  A file that
\* does not open stays as it is; the exception is swallowed.
Store(r) ==
  /\ pc[r] = "store"
  /\ \/ /\ pc' = [pc EXCEPT ![r] = "write"] /\ queue' = <<>> /\ Never
        /\ UNCHANGED <<copy, over>>
     \/ /\ Fails("disk") /\ pc' = [pc EXCEPT ![r] = "done"] /\ UNCHANGED queue
        /\ copy' = [copy EXCEPT ![r] = <<>>] /\ over' = over \union {r}
  /\ UNCHANGED <<made, tick, todo, keep, posted, waiting, raced>>

\* A write that fails leaves the file cut.
Write(r) ==
  /\ pc[r] = "write" /\ pc' = [pc EXCEPT ![r] = "done"]
  /\ \/ /\ queue' = Queued(copy[r], r) /\ Never
        /\ over' = IF Len(copy[r]) < MaxQueue THEN over ELSE over \union {copy[r][1]}
     \/ /\ Fails("disk") /\ queue' = <<>>
        /\ over' = over \union ToSet(copy[r]) \union {r}
  /\ copy' = [copy EXCEPT ![r] = <<>>]
  /\ UNCHANGED <<made, tick, todo, keep, posted, waiting, raced>>

-----------------------------------------------------------------------------
(* _unsent_fill_tick *)

TickBegins(k) ==
  /\ tick[k] = "idle" /\ queue # <<>>
  /\ tick' = [tick EXCEPT ![k] = "post"]
  /\ todo' = [todo EXCEPT ![k] = queue]
  /\ raced' = IF Held THEN raced \union waiting ELSE raced
  /\ UNCHANGED <<made, pc, copy, queue, keep, posted, waiting, over, faults>>

\* Mutant of Refused: a report the server did not take is dropped.
RefusedDrops(k, r) == UNCHANGED keep

Refused(k, r) == keep' = [keep EXCEPT ![k] = Append(@, r)]

TickPosts(k) ==
  /\ tick[k] = "post" /\ todo[k] # <<>>
  /\ todo' = [todo EXCEPT ![k] = Tail(@)]
  /\ LET r == Head(todo[k]) IN
     \/ Taken(r) /\ Never /\ UNCHANGED <<keep, over>>
     \/ /\ Fails("server") /\ Refused(k, r) /\ UNCHANGED <<posted, over>>
     \/ Fails("day") /\ over' = over \union {r} /\ UNCHANGED <<posted, keep>>
  /\ UNCHANGED <<made, pc, copy, queue, tick, waiting, raced>>

\* As Store and Write: a file that does not open keeps what was posted, too.
TickStores(k) ==
  /\ tick[k] = "post" /\ todo[k] = <<>>
  /\ \/ /\ tick' = [tick EXCEPT ![k] = "write"]
        /\ queue' = <<>> /\ Never /\ UNCHANGED keep
     \/ /\ Fails("disk") /\ tick' = [tick EXCEPT ![k] = "idle"]
        /\ keep' = [keep EXCEPT ![k] = <<>>] /\ UNCHANGED queue
  /\ UNCHANGED <<made, pc, copy, todo, posted, waiting, over, raced>>

TickWrites(k) ==
  /\ tick[k] = "write" /\ tick' = [tick EXCEPT ![k] = "idle"]
  /\ \/ queue' = keep[k] /\ Never /\ UNCHANGED over
     \/ Fails("disk") /\ queue' = <<>> /\ over' = over \union ToSet(keep[k])
  /\ keep' = [keep EXCEPT ![k] = <<>>]
  /\ UNCHANGED <<made, pc, copy, todo, posted, waiting, raced>>

\* The app stops: threads and what they hold are gone, the file stays, cut if
\* it was being written.
Crash ==
  /\ Fails("crash")
  /\ pc' = [r \in Report |-> IF r <= made THEN "done" ELSE "none"]
  /\ copy' = [r \in Report |-> <<>>] /\ tick' = [k \in Tick |-> "idle"]
  /\ todo' = [k \in Tick |-> <<>>] /\ keep' = [k \in Tick |-> <<>>]
  /\ over' = over \union
       (IF (\E r \in Report : pc[r] = "write") \/ \E k \in Tick : tick[k] = "write"
        THEN waiting ELSE {r \in waiting : pc[r] = "store"})
  /\ UNCHANGED <<made, queue, posted, waiting, raced>>

Next ==
  \/ Fills \/ Crash
  \/ \E r \in Report : Post(r) \/ Load(r) \/ Store(r) \/ Write(r)
  \/ \E k \in Tick : TickBegins(k) \/ TickPosts(k) \/ TickStores(k) \/ TickWrites(k)

Spec == Init /\ [][Next]_vars

-----------------------------------------------------------------------------
Quiet ==
  /\ \A r \in Report : pc[r] \in {"none", "done"}
  /\ \A k \in Tick : tick[k] = "idle"

\* "It survives closing and opening the app" (11277): a report that was put in
\* the file reaches the server or stays in the file, unless it was dropped as
\* too old or one too many, the file was cut or not written, or two threads had
\* the file at once while it waited: each of them overwrites what the other
\* wrote, and the property says nothing of what is lost so.
ReportKept ==
  Quiet => waiting \ (posted \union ToSet(queue)) \subseteq over \union raced
=============================================================================
