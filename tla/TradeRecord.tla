---------------------------- MODULE TradeRecord -----------------------------
(***************************************************************************)
(* The ledger of 1R (.r_ledger.json) and the track record made from it:    *)
(* entries write the 1R they risk, each in a thread of its own; the sync   *)
(* divides a trade's profit by the 1R of its entry and sends it.  Files    *)
(* are replaced whole with a copy kept, or written in place when that is   *)
(* refused; a machine that stops, or a disk that is full, may leave a      *)
(* broken one, which the next reader restores from the copy, or declares   *)
(* lost with the time from which trades may be sent again.                 *)
(*                                                                         *)
(* The file of entry times (.entered) is written by the same threads, with *)
(* neither lock nor copy.                                                  *)
(*                                                                         *)
(* An entry is known by its number, which is also its time; the minute the *)
(* code allows between a row and its fill and the 500 rows it keeps are    *)
(* left out.                                                               *)
(***************************************************************************)
EXTENDS Integers

CONSTANTS
  Writer,    \* threads that enter, one asset each
  Fault,     \* failures that happen
  MaxFault,  \* bound: failures in a behaviour
  MaxRec     \* bound: entries

VARIABLES
  main, bak,     \* the ledger and its copy: [s |-> its state, rows]
  copies,        \* times of the broken ledgers put aside
  reset,         \* the recorded time of a ledger that was lost, 0 for none
  lock,          \* the thread in _JSON_LOCK, or None
  pc, mem,       \* each thread's next step and the rows it read
  own,           \* the entry it is making
  seen,          \* trades the sync asked the broker for
  entered,       \* assets with an entry time on disk
  marks,         \* what a thread read of it
  now,           \* entries so far
  trades,        \* entries made
  \* history
  wrong,         \* trades sent with another entry's 1R
  excused,       \* trades whose row never got into a good file, or was only
                 \* in one that broke or in the hand of who wrote it in place
  marked,        \* assets whose entry was marked
  raced,         \* assets marked while another mark was under way, or before the
                 \* file of the times was cut
  faults

ledger == <<main, bak, copies, reset>>
entry == <<entered, marks, marked, raced>>
vars == <<ledger, lock, pc, mem, own, seen, entry, now, trades, wrong, excused, faults>>

None == "none"
Sync == "sync"
Thread == Writer \union {Sync}
Row == 1 .. MaxRec
File == [s : {"none", "ok", "bad"}, rows : SUBSET Row]
Good(rows) == [s |-> "ok", rows |-> rows]
Bad == [s |-> "bad", rows |-> {}]
Gone == [s |-> "none", rows |-> {}]
Steps == {"idle", "broken", "back", "append", "copy", "swap", "direct", "send",
          "enter", "mark"}
Latest(S) == IF S = {} THEN 0 ELSE CHOOSE x \in S : \A y \in S : y <= x

TypeOK ==
  /\ main \in File /\ bak \in File
  /\ copies \subseteq 0 .. MaxRec /\ reset \in 0 .. MaxRec
  /\ lock \in Thread \union {None}
  /\ pc \in [Thread -> Steps]
  /\ \A t \in Thread : pc[t] \in {"broken", "back", "append", "copy", "swap", "direct"}
       <=> lock = t
  /\ mem \in [Thread -> SUBSET Row] /\ seen \subseteq Row
  /\ entered \subseteq Writer /\ marks \in [Writer -> SUBSET Writer]
  /\ own \in [Writer -> 0 .. MaxRec] /\ now \in 0 .. MaxRec /\ trades \subseteq 1 .. now
  /\ wrong \subseteq trades /\ excused \subseteq Row
  /\ marked \subseteq Writer /\ raced \subseteq Writer
  /\ faults \in 0 .. MaxFault

Init ==
  /\ main = Gone /\ bak = Gone /\ copies = {} /\ reset = 0
  /\ lock = None /\ pc = [t \in Thread |-> "idle"] /\ mem = [t \in Thread |-> {}]
  /\ seen = {} /\ entered = {} /\ marks = [t \in Writer |-> {}]
  /\ own = [t \in Writer |-> 0] /\ now = 0 /\ trades = {} /\ wrong = {} /\ excused = {}
  /\ marked = {} /\ raced = {} /\ faults = 0

Fails(f) == f \in Fault /\ faults < MaxFault /\ faults' = faults + 1
Never == UNCHANGED faults
At(t, here, to) == pc[t] = here /\ pc' = [pc EXCEPT ![t] = to]
Locked == lock # None

-----------------------------------------------------------------------------
(* _read_json_guarded: a broken file is put aside and the copy taken. *)

\* The rows are there: an entry appends to them, the sync leaves the lock.
Got(t, rows) ==
  /\ mem' = [mem EXCEPT ![t] = rows]
  /\ pc' = [pc EXCEPT ![t] = IF t = Sync THEN "send" ELSE "append"]
  /\ lock' = IF t = Sync THEN None ELSE t

\* An entry that wrote no row is made all the same.
Skips(t) ==
  /\ lock' = None /\ mem' = [mem EXCEPT ![t] = {}]
  /\ pc' = [pc EXCEPT ![t] = IF t = Sync THEN "idle" ELSE "enter"]
  /\ excused' = IF t = Sync THEN excused ELSE excused \union {now'}

Free(t) == ~Locked

Read(t) ==
  /\ pc[t] = "idle" /\ Free(t)
  /\ t # Sync => now < MaxRec
  /\ seen' = IF t = Sync THEN trades ELSE seen
  /\ \/ /\ main.s # "bad" /\ Got(t, IF main.s = "ok" \/ bak.s = "ok"
                                    THEN (IF main.s = "ok" THEN main ELSE bak).rows ELSE {})
        /\ Never /\ UNCHANGED <<excused, now, own>>
     \/ /\ main.s = "bad" /\ lock' = t /\ pc' = [pc EXCEPT ![t] = "broken"]
        /\ Never /\ UNCHANGED <<mem, excused, now, own>>
     \/ /\ Fails("busy") /\ main.s # "none"
        /\ now' = (IF t = Sync THEN now ELSE now + 1) /\ Skips(t)
        /\ own' = IF t = Sync THEN own ELSE [own EXCEPT ![t] = now']
  /\ UNCHANGED <<ledger, entry, trades, wrong>>

PutAside(t) ==
  /\ At(t, "broken", "back")
  /\ \/ main' = Gone /\ copies' = copies \union {now} /\ Never
     \/ Fails("move") /\ UNCHANGED <<main, copies>>
  /\ UNCHANGED <<bak, reset, lock, mem, own, seen, entry, now, trades, wrong, excused>>

\* Mutant of Lost: the time of the loss is not recorded, and the search for
\* broken copies finds none.
LostQuietly == copies' = {} /\ UNCHANGED reset /\ Never

\* A recorded time that was cut reads as none.
Lost ==
  /\ UNCHANGED copies
  /\ \/ reset' = Latest({reset, now}) /\ Never
     \/ Fails("mark") /\ reset' \in {reset, 0}

\* The ledger is written back as an entry writes it, in place if need be; that
\* it was not, or was cut, is ignored.
GoBack(t) ==
  /\ pc[t] = "back"
  /\ \/ /\ bak.s = "ok" /\ Got(t, bak.rows)
        /\ \/ main' = bak /\ Never
           \/ Fails("swap") /\ main' \in {main, Bad}
        /\ UNCHANGED <<copies, reset>>
     \/ bak.s # "ok" /\ Got(t, {}) /\ Lost /\ UNCHANGED main
  /\ UNCHANGED <<bak, own, seen, entry, now, trades, wrong, excused>>

-----------------------------------------------------------------------------
(* _record_real_r, and _write_json_atomic under it. *)

Append(t) ==
  /\ pc[t] = "append" /\ now < MaxRec /\ now' = now + 1
  /\ own' = [own EXCEPT ![t] = now']
  /\ \/ /\ pc' = [pc EXCEPT ![t] = "copy"] /\ lock' = lock /\ Never
        /\ mem' = [mem EXCEPT ![t] = @ \union {now + 1}] /\ UNCHANGED excused
     \/ Fails("disk") /\ Skips(t)
  /\ UNCHANGED <<ledger, seen, entry, trades, wrong>>

\* Only a good ledger becomes the copy; the copying may break off.
Copy(t) ==
  /\ At(t, "copy", "swap")
  /\ \/ bak' = (IF main.s = "ok" THEN main ELSE bak) /\ Never
     \/ main.s = "ok" /\ Fails("copy") /\ bak' \in {bak, Bad}
  /\ UNCHANGED <<main, copies, reset, lock, mem, own, seen, entry, now, trades, wrong, excused>>

Written(t) ==
  /\ main' = Good(mem[t]) /\ lock' = None
  /\ mem' = [mem EXCEPT ![t] = {}] /\ pc' = [pc EXCEPT ![t] = "enter"] /\ Never

\* After five refusals the file is written in place.
Swap(t) ==
  /\ pc[t] = "swap"
  /\ \/ Written(t)
     \/ /\ Fails("swap") /\ main' = Bad /\ pc' = [pc EXCEPT ![t] = "direct"]
        /\ UNCHANGED <<lock, mem>>
  /\ UNCHANGED <<bak, copies, reset, own, seen, entry, now, trades, wrong, excused>>

\* The rows that were in the ledger, or in the hand of who writes it in place,
\* and that its copy does not have.  Without a copy the loss is declared.
Uncopied ==
  LET had == (UNION {mem[t] \ {own[t]} : t \in {u \in Writer : pc[u] = "direct"}})
             \union main.rows IN
  IF main'.s = "bad" /\ bak'.s = "ok" THEN had \ bak'.rows ELSE {}

\* A disk that is full cuts the file; the exception is swallowed, and the entry
\* is made without its row.
Direct(t) ==
  /\ pc[t] = "direct" /\ UNCHANGED bak
  /\ \/ Written(t) /\ UNCHANGED excused
     \/ /\ Fails("disk") /\ UNCHANGED main /\ lock' = None
        /\ mem' = [mem EXCEPT ![t] = {}] /\ pc' = [pc EXCEPT ![t] = "enter"]
        /\ excused' = excused \union Uncopied \union {own[t]}
  /\ UNCHANGED <<copies, reset, own, seen, entry, now, trades, wrong>>

-----------------------------------------------------------------------------
(* The entry itself, and its time. *)

\* The order is sent and filled; _mark_entered reads the times.
Enters(t) ==
  /\ At(t, "enter", "mark")
  /\ trades' = trades \union {own[t]} /\ marks' = [marks EXCEPT ![t] = entered]
  /\ raced' = raced \union {u \in Writer : pc[u] = "mark"}
  /\ UNCHANGED <<ledger, lock, mem, own, seen, entered, marked, now, wrong, excused, faults>>

\* Mutant of Times: only this entry's time is written.
TimesOwn(t) == {t}

Times(t) == marks[t] \union {t}

\* A file written in place that was cut has no times.
Cut == entered' = {} /\ raced' = raced \union marked

\* Writing the file may fail before it is touched, or cut it.
Mark(t) ==
  /\ At(t, "mark", "idle")
  /\ \/ /\ entered' = Times(t) /\ marked' = marked \union {t} /\ Never
        /\ raced' = IF \E u \in Writer \ {t} : pc[u] = "mark" THEN raced \union {t} ELSE raced
     \/ Fails("disk") /\ UNCHANGED marked /\ (UNCHANGED <<entered, raced>> \/ Cut)
  /\ marks' = [marks EXCEPT ![t] = {}] /\ own' = [own EXCEPT ![t] = 0]
  /\ UNCHANGED <<ledger, lock, mem, seen, now, trades, wrong, excused>>

-----------------------------------------------------------------------------
(* push_profile. *)

\* _rledger_reset_ts: the recorded time, or the latest broken copy that no
\* row is older than.
Since(rows) ==
  IF reset > 0 THEN reset
  ELSE Latest({c \in copies : \A r \in rows : r > c})

Send ==
  /\ At(Sync, "send", "idle")
  /\ reset' = Since(mem[Sync])
  /\ wrong' = wrong \union {r \in seen : r > reset' /\ r \notin mem[Sync]}
  /\ mem' = [mem EXCEPT ![Sync] = {}] /\ seen' = {}
  /\ UNCHANGED <<main, bak, copies, lock, own, entry, now, trades, excused, faults>>

-----------------------------------------------------------------------------
\* The process or the machine stops: what was in memory is gone, a file
\* written in place stays cut, and one that was not flushed may be broken.
Crash ==
  /\ Fails("crash")
  /\ \/ UNCHANGED <<main, bak>>
     \/ main.s = "ok" /\ main' = Bad /\ bak' \in {bak, Bad}
  /\ excused' = excused \union Uncopied
  /\ \/ UNCHANGED <<entered, raced>>
     \/ (\E t \in Writer : pc[t] = "mark") /\ Cut
  /\ lock' = None /\ pc' = [t \in Thread |-> "idle"] /\ mem' = [t \in Thread |-> {}]
  /\ seen' = {} /\ marks' = [t \in Writer |-> {}] /\ own' = [t \in Writer |-> 0]
  /\ UNCHANGED <<copies, reset, marked, now, trades, wrong>>

Next ==
  \/ \E t \in Thread : Read(t) \/ PutAside(t) \/ GoBack(t)
  \/ \E t \in Writer : Append(t) \/ Copy(t) \/ Swap(t) \/ Direct(t) \/ Enters(t) \/ Mark(t)
  \/ Send \/ Crash

Spec == Init /\ [][Next]_vars

-----------------------------------------------------------------------------
\* The sync divides every trade it sends by the 1R of its own entry, unless
\* that row was never written or was only in a file that broke, by a stop or a
\* full disk, before the next row was written: what is lost is kept from being
\* sent.
SentRight == wrong \subseteq excused

\* A mark of an entry stays on disk, unless two entries were marked at once or
\* the file of the times was cut after it.
MarksStay == marked \ entered \subseteq raced
=============================================================================
