----------------------------- MODULE SignalLoop -----------------------------
(***************************************************************************)
(* The signal loop of EQ Autopilot (eqgui.py, App._sig_loop): a thread     *)
(* polls the signal feed and, for each new signal, starts one entry thread *)
(* per armed account row.  Stop and Start do not wait for the old thread:  *)
(* Start raises the generation number and starts a new one, so loops of    *)
(* several generations run side by side for a while.  They share the app's *)
(* record of what was taken (_sig_seen) and of what was entered today      *)
(* (_sig_entered_day).  An app restart loses both; only the file of entry  *)
(* times (.entered.json) survives it.                                      *)
(*                                                                         *)
(* Signals are numbered in the order the server publishes them and the     *)
(* feed shows the last one; "entered after signal s was published" is then *)
(* a comparison of publication counts.                                     *)
(***************************************************************************)
EXTENDS Naturals, FiniteSets

CONSTANTS
  Target,      \* account rows, the (asset, idx) keys of _sig_accts
  Asset,       \* NQ, GC, BTC
  TargetAsset, \* [Target -> Asset], key[0]
  Manual,      \* rows that only get a ticket
  Editable,    \* bound: rows the member edits while they are armed
  NSig,        \* how many signals the feed publishes
  SigAsset,    \* [Signal -> Asset]
  Key,         \* dedup keys, asset or asset:session
  SigKey,      \* [Signal -> Key]
  SigDay,      \* [Signal -> Nat \ {0}], local date of publication
  NoTrade,     \* signals without a trade
  Unusable,    \* signals with no readable time or size, or from the future
  MaxGen,      \* bound: generations of the loop per run of the app
  MaxBoot      \* bound: runs of the app

Signal == 1 .. NSig
Gen == 1 .. MaxGen

ASSUME SignalAssumption ==
  /\ NSig \in Nat /\ MaxGen \in Nat /\ MaxBoot \in Nat
  /\ TargetAsset \in [Target -> Asset]
  /\ Manual \subseteq Target /\ Editable \subseteq Target
  /\ SigAsset \in [Signal -> Asset]
  /\ SigKey \in [Signal -> Key]
  /\ SigDay \in [Signal -> Nat \ {0}]
  /\ NoTrade \subseteq Signal /\ Unusable \subseteq Signal

NobodyTook == [sid |-> 0, gen |-> 0]
Seen == [sid : 0 .. NSig, gen : 0 .. MaxGen]

VARIABLES
  \* the server
  pub,       \* signals published so far; the feed shows signal pub
  aged,      \* signals older than MAX_SIGNAL_AGE_SEC
  \* the app, in memory
  boot,      \* number of this run, 0 while the app is down
  on,        \* _sig_on
  gen,       \* _sig_gen
  armed,     \* _sig_accts
  rowOff,    \* rows whose run box is off or whose account changed
  seen,      \* _sig_seen
  entered,   \* _sig_entered_day, 0 where there is no mark
  enteredAt, \* _entered_at: publication count at the asset's last entry
  \* each generation's loop
  pc, sig, prev, todo, pick, fire, marks,
  \* entry threads, and the snapshot _mark_entered works on
  thread, snap,
  \* disk
  file,      \* .entered.json
  boots,     \* runs started so far
  \* history, read by no action of the code
  fired,     \* entries started for a signal and a row in this run
  told,      \* answered without an order: ticket, hold, earlier entry
  confirmed  \* signals whose confirmed fill was recorded, in any run

server == <<pub, aged>>
armVars == <<on, gen, armed, rowOff>>
book == <<seen, entered, enteredAt>>
loop == <<pc, sig, prev, todo, pick, fire, marks>>
threads == <<thread, snap>>
disk == <<file, boots>>
history == <<fired, told, confirmed>>
vars == <<server, boot, armVars, book, loop, threads, disk, history>>

NeverEntered == [a \in Asset |-> 0]
NoRows == [g \in Gen |-> {}]

TypeOK ==
  /\ pub \in 0 .. NSig /\ aged \subseteq Signal
  /\ boot \in 0 .. MaxBoot /\ boots \in 0 .. MaxBoot
  /\ on \in BOOLEAN /\ gen \in 0 .. MaxGen
  /\ armed \subseteq Target /\ rowOff \subseteq Target
  /\ seen \in Seen
  /\ entered \in [Target \X Key -> Nat]
  /\ enteredAt \in [Asset -> Nat] /\ file \in [Asset -> Nat]
  /\ pc \in [Gen -> {"none", "top", "poll", "got", "judge", "watch",
                     "select", "mark", "final", "fire", "exit"}]
  /\ sig \in [Gen -> 0 .. NSig]
  /\ prev \in [Gen -> Seen]
  /\ todo \in [Gen -> SUBSET Target]
  /\ pick \in [Gen -> SUBSET Target]
  /\ fire \in [Gen -> SUBSET Target]
  /\ marks \in [Gen -> SUBSET Target]
  /\ thread \in [Signal \X Target -> {"none", "run", "save"}]
  /\ snap \in [Signal \X Target -> [Asset -> Nat]]
  /\ fired \in [Signal \X Target -> Nat]
  /\ told \subseteq Signal \X Target
  /\ confirmed \subseteq Signal

----------------------------------------------------------------------------
Init ==
  /\ pub = 0 /\ aged = {}
  /\ boot = 0 /\ boots = 0
  /\ on = FALSE /\ gen = 0 /\ armed = {} /\ rowOff = {}
  /\ seen = NobodyTook
  /\ entered = [tk \in Target \X Key |-> 0]
  /\ enteredAt = NeverEntered /\ file = NeverEntered
  /\ pc = [g \in Gen |-> "none"]
  /\ sig = [g \in Gen |-> 0]
  /\ prev = [g \in Gen |-> NobodyTook]
  /\ todo = NoRows /\ pick = NoRows /\ fire = NoRows /\ marks = NoRows
  /\ thread = [st \in Signal \X Target |-> "none"]
  /\ snap = [st \in Signal \X Target |-> NeverEntered]
  /\ fired = [st \in Signal \X Target |-> 0]
  /\ told = {} /\ confirmed = {}

----------------------------------------------------------------------------
(* The server. *)

\* Signals of one key are hours apart, a loop's pass and an entry last a
\* minute: nothing of the key's previous signal is under way when the next
\* one comes.
Settled(k) ==
  /\ \A g \in Gen : sig[g] # 0 => SigKey[sig[g]] # k
  /\ \A s \in Signal, t \in Target : SigKey[s] = k => thread[<<s, t>>] = "none"

Publish ==
  /\ pub < NSig /\ Settled(SigKey[pub + 1])
  /\ pub' = pub + 1
  /\ UNCHANGED <<aged, boot, armVars, book, loop, threads, disk, history>>

Age ==
  /\ \E s \in 1 .. pub : s \notin aged /\ aged' = aged \union 1 .. s
  /\ UNCHANGED <<pub, boot, armVars, book, loop, threads, disk, history>>

----------------------------------------------------------------------------
(* The app and its member. *)

\* Mutant of Launch: the record of entries is not read back.
LaunchBlank ==
  /\ boot = 0 /\ boots < MaxBoot
  /\ boot' = boots + 1 /\ boots' = boots + 1
  /\ UNCHANGED <<server, armVars, book, loop, threads, file, history>>

\* Memory starts empty; _entered_at is read back from its file.
Launch ==
  /\ boot = 0 /\ boots < MaxBoot
  /\ boot' = boots + 1 /\ boots' = boots + 1
  /\ enteredAt' = file
  /\ UNCHANGED <<server, armVars, seen, entered, loop, threads, file, history>>

\* The process ends, with every thread and everything kept in memory.
Crash ==
  /\ boot # 0
  /\ boot' = 0
  /\ on' = FALSE /\ gen' = 0 /\ armed' = {} /\ rowOff' = {}
  /\ seen' = NobodyTook
  /\ entered' = [tk \in Target \X Key |-> 0]
  /\ enteredAt' = NeverEntered
  /\ pc' = [g \in Gen |-> "none"]
  /\ sig' = [g \in Gen |-> 0]
  /\ prev' = [g \in Gen |-> NobodyTook]
  /\ todo' = NoRows /\ pick' = NoRows /\ fire' = NoRows /\ marks' = NoRows
  /\ thread' = [st \in Signal \X Target |-> "none"]
  /\ snap' = [st \in Signal \X Target |-> NeverEntered]
  /\ fired' = [st \in Signal \X Target |-> 0]
  /\ told' = {}
  /\ UNCHANGED <<server, disk, confirmed>>

\* _start_sig_loop: the number goes up before the thread exists.
StartLoop ==
  /\ gen < MaxGen
  /\ gen' = gen + 1
  /\ on' = TRUE
  /\ pc' = [pc EXCEPT ![gen'] = "top"]

\* _master_arm for one row, also the rows _resume_parked_sig brings back: a
\* loop is started unless one is on, so the first row starts it and the
\* others join while it runs.
Arm(t) ==
  /\ boot # 0 /\ t \notin armed
  /\ armed' = armed \union {t}
  /\ rowOff' = rowOff \ {t}
  /\ IF on THEN UNCHANGED <<on, gen, pc>> ELSE StartLoop
  /\ UNCHANGED <<server, boot, book, sig, prev, todo, pick, fire, marks,
                 threads, disk, history>>

\* _master_stop, and _apply_gating when the permission is lost: the flag goes
\* down and the rows go, the old thread is not waited for.
Stop ==
  /\ boot # 0 /\ on
  /\ on' = FALSE /\ armed' = {}
  /\ UNCHANGED <<server, boot, gen, rowOff, book, loop, threads, disk, history>>

\* Rows are disarmed one by one.  Deleting a row and the panel's stop lower
\* the flag with the last row; unchecking an asset does not.
Disarm(t) ==
  /\ boot # 0 /\ t \in armed
  /\ armed' = armed \ {t}
  /\ on' \in {on, on /\ armed' # {}}
  /\ UNCHANGED <<server, boot, gen, rowOff, book, loop, threads, disk, history>>

\* The member turns a row's run box off, or changes its account or key.
RowOff(t) ==
  /\ boot # 0 /\ t \in (armed \intersect Editable) \ rowOff
  /\ rowOff' = rowOff \union {t}
  /\ UNCHANGED <<server, boot, on, gen, armed, book, loop, threads, disk,
                 history>>

----------------------------------------------------------------------------
(* One generation's loop. *)

Mine(g) == g = gen
Wanted(g) == on /\ Mine(g)

\* The loop's locals are read no more: they are written anew by the next
\* _take.
Leave(g, to) ==
  /\ pc' = [pc EXCEPT ![g] = to]
  /\ sig' = [sig EXCEPT ![g] = 0]
  /\ prev' = [prev EXCEPT ![g] = NobodyTook]
  /\ todo' = [todo EXCEPT ![g] = {}]
  /\ pick' = [pick EXCEPT ![g] = {}]
  /\ fire' = [fire EXCEPT ![g] = {}]
  /\ marks' = [marks EXCEPT ![g] = {}]

Goto(g, to) ==
  /\ pc' = [pc EXCEPT ![g] = to]
  /\ UNCHANGED <<sig, prev, todo, pick, fire, marks>>

\* while self._sig_on and _mine()
While(g) ==
  /\ pc[g] = "top"
  /\ Goto(g, IF Wanted(g) THEN "poll" ELSE "exit")
  /\ UNCHANGED <<server, boot, armVars, book, threads, disk, history>>

\* The feed's answer; what it shows may be old by the time it is used.
Poll(g) ==
  /\ pc[g] = "poll" /\ pub # 0
  /\ sig' = [sig EXCEPT ![g] = pub]
  /\ pc' = [pc EXCEPT ![g] = "got"]
  /\ UNCHANGED <<server, boot, armVars, book, prev, todo, pick, fire, marks,
                 threads, disk, history>>

\* The request failed, its answer could not be decrypted, or it is empty.
PollFails(g) ==
  /\ pc[g] = "poll"
  /\ Goto(g, "top")
  /\ UNCHANGED <<server, boot, armVars, book, threads, disk, history>>

Takable(s) == s # seen.sid

\* _take finds the signal already taken, by whatever generation.
TakeRefused(g) ==
  /\ pc[g] = "got" /\ ~Takable(sig[g])
  /\ Leave(g, "top")
  /\ UNCHANGED <<server, boot, armVars, book, threads, disk, history>>

Targets(s) ==
  IF s \in NoTrade THEN {} ELSE {t \in armed : TargetAsset[t] = SigAsset[s]}

\* _take, and the rows that run this asset at that moment.
Take(g) ==
  /\ pc[g] = "got" /\ Takable(sig[g])
  /\ seen' = [sid |-> sig[g], gen |-> g]
  /\ \/ /\ Targets(sig[g]) = {}
        /\ Leave(g, "top")
     \/ /\ Targets(sig[g]) # {}
        /\ prev' = [prev EXCEPT ![g] = seen]
        /\ todo' = [todo EXCEPT ![g] = Targets(sig[g])]
        /\ pc' = [pc EXCEPT ![g] = "judge"]
        /\ UNCHANGED <<sig, pick, fire, marks>>
  /\ UNCHANGED <<server, boot, armVars, entered, enteredAt, threads, disk,
                 history>>

\* The day's mark of every row in ts for signal s.
Marked(s, ts, day) ==
  [tk \in Target \X Key |-> IF tk[1] \in ts /\ tk[2] = SigKey[s]
                            THEN day ELSE entered[tk]]

\* Mutants of GiveBack: the marks stay; the claim stays; only the id comes back.
GiveBackClaim(g) ==
  /\ seen' = IF seen = [sid |-> sig[g], gen |-> g] THEN prev[g] ELSE seen
  /\ UNCHANGED <<entered, enteredAt>>
  /\ Leave(g, "exit")

GiveBackMarks(g) ==
  /\ entered' = Marked(sig[g], marks[g], 0)
  /\ UNCHANGED <<seen, enteredAt>>
  /\ Leave(g, "exit")

GiveBackId(g) ==
  /\ entered' = Marked(sig[g], marks[g], 0)
  /\ seen' = IF seen = [sid |-> sig[g], gen |-> g] THEN [sid |-> prev[g].sid] ELSE seen
  /\ UNCHANGED enteredAt
  /\ Leave(g, "exit")

\* _give_back: this attempt's marks are withdrawn, and the claim on the
\* signal too unless another loop holds it by now.
GiveBack(g) ==
  /\ entered' = Marked(sig[g], marks[g], 0)
  /\ seen' = IF seen = [sid |-> sig[g], gen |-> g] THEN prev[g] ELSE seen
  /\ UNCHANGED enteredAt
  /\ Leave(g, "exit")

\* Too old, unreadable or from the future, or a size that is not positive.
Skipped(s) == s \in aged \/ s \in Unusable

\* The tests of the signal itself, then of the generation; the tier of the
\* moment (_watch_only) decides between entering and showing a ticket.
Judge(g) ==
  /\ pc[g] = "judge"
  /\ \/ Skipped(sig[g]) /\ Leave(g, "top") /\ UNCHANGED book
     \/ ~Skipped(sig[g]) /\ ~Wanted(g) /\ GiveBack(g)
     \/ /\ ~Skipped(sig[g]) /\ Wanted(g)
        /\ \E to \in {"select", "watch"} : Goto(g, to)
        /\ UNCHANGED book
  /\ UNCHANGED <<server, boot, armVars, threads, disk, history>>

\* Mutant of EnteredToday: the day's mark is not looked at.
NeverToday(s, t) == FALSE

EnteredToday(s, t) == entered[<<t, SigKey[s]>>] = SigDay[s]

\* Watch-only (Operator): the rows are marked and one ticket is shown.
Watch(g) ==
  /\ pc[g] = "watch"
  /\ entered' = Marked(sig[g], todo[g], SigDay[sig[g]])
  /\ told' = told \union
       ({sig[g]} \X {t \in todo[g] : ~EnteredToday(sig[g], t)})
  /\ Leave(g, "top")
  /\ UNCHANGED <<server, boot, armVars, seen, enteredAt, threads, disk, fired,
                 confirmed>>

\* An entry of the asset is on record after the signal's publication.
EnteredSince(s) == enteredAt[SigAsset[s]] >= s

\* The tests of one row, before its mark is written.
Select(g, t) ==
  /\ pc[g] = "select" /\ t \in todo[g]
  /\ todo' = [todo EXCEPT ![g] = @ \ {t}]
  /\ \/ /\ EnteredToday(sig[g], t)
        /\ UNCHANGED <<entered, told, pick, pc>>
     \/ /\ ~EnteredToday(sig[g], t) /\ EnteredSince(sig[g])
        /\ entered' = Marked(sig[g], {t}, SigDay[sig[g]])
        /\ told' = told \union {<<sig[g], t>>}
        /\ UNCHANGED <<pick, pc>>
     \/ \* _live_acct_cfg finds the row off or changed
        /\ ~EnteredToday(sig[g], t) /\ ~EnteredSince(sig[g]) /\ t \in rowOff
        /\ UNCHANGED <<entered, told, pick, pc>>
     \/ /\ ~EnteredToday(sig[g], t) /\ ~EnteredSince(sig[g]) /\ t \notin rowOff
        /\ pick' = [pick EXCEPT ![g] = {t}]
        /\ pc' = [pc EXCEPT ![g] = "mark"]
        /\ UNCHANGED <<entered, told>>
  /\ UNCHANGED <<server, boot, armVars, seen, enteredAt, sig, prev, fire, marks,
                 threads, disk, fired, confirmed>>

\* The mark of the row: an order is to follow, or a ticket for a manual row.
Mark(g) ==
  /\ pc[g] = "mark"
  /\ entered' = Marked(sig[g], pick[g], SigDay[sig[g]])
  /\ marks' = [marks EXCEPT ![g] = @ \union pick[g]]
  /\ fire' = [fire EXCEPT ![g] = @ \union (pick[g] \ Manual)]
  /\ pick' = [pick EXCEPT ![g] = {}]
  /\ pc' = [pc EXCEPT ![g] = "select"]
  /\ UNCHANGED <<server, boot, armVars, seen, enteredAt, sig, prev, todo,
                 threads, disk, history>>

\* All rows are sorted: the manual ones get their ticket now.
Selected(g) ==
  /\ pc[g] = "select" /\ todo[g] = {}
  /\ told' = told \union ({sig[g]} \X (marks[g] \intersect Manual))
  /\ IF fire[g] = {} THEN Leave(g, "top") ELSE Goto(g, "final")
  /\ UNCHANGED <<server, boot, armVars, book, threads, disk, fired, confirmed>>

\* The PC clock is off by more than MAX_CLOCK_SKEW_SEC: nobody enters and
\* the marks stay.
Hold(g) ==
  /\ pc[g] = "final"
  /\ told' = told \union ({sig[g]} \X fire[g])
  /\ Leave(g, "top")
  /\ UNCHANGED <<server, boot, armVars, book, threads, disk, fired, confirmed>>

\* The last look at the generation before any order.
Final(g) ==
  /\ pc[g] = "final"
  /\ \/ Wanted(g) /\ Goto(g, "fire") /\ UNCHANGED book
     \/ ~Wanted(g) /\ GiveBack(g)
  /\ UNCHANGED <<server, boot, armVars, threads, disk, history>>

\* One entry thread is started.  The loop waits at most 45 s for them, so
\* it may go on while they run.
Dispatch(g, t) ==
  /\ pc[g] = "fire" /\ t \in fire[g]
  /\ thread' = [thread EXCEPT ![<<sig[g], t>>] = "run"]
  /\ fired' = [fired EXCEPT ![<<sig[g], t>>] = @ + 1]
  /\ IF fire[g] = {t}
     THEN Leave(g, "top")
     ELSE /\ fire' = [fire EXCEPT ![g] = @ \ {t}]
          /\ UNCHANGED <<pc, sig, prev, todo, pick, marks>>
  /\ UNCHANGED <<server, boot, armVars, book, snap, disk, told, confirmed>>

----------------------------------------------------------------------------
(* An entry thread (_enter_account), as far as this module needs it: it    *)
(* ends without a fill, or confirms one and records it (_mark_entered).    *)

EntryFails(s, t) ==
  /\ thread[<<s, t>>] = "run"
  /\ thread' = [thread EXCEPT ![<<s, t>>] = "none"]
  /\ UNCHANGED <<server, boot, armVars, book, loop, snap, disk, history>>

\* _mark_entered reads the whole file ...
EntryConfirmed(s, t) ==
  /\ thread[<<s, t>>] = "run"
  /\ thread' = [thread EXCEPT ![<<s, t>>] = "save"]
  /\ snap' = [snap EXCEPT ![<<s, t>>] = [file EXCEPT ![SigAsset[s]] = pub]]
  /\ UNCHANGED <<server, boot, armVars, book, loop, disk, history>>

\* ... and writes it back with its own asset's time.
EntryRecorded(s, t) ==
  /\ thread[<<s, t>>] = "save"
  /\ thread' = [thread EXCEPT ![<<s, t>>] = "none"]
  /\ file' = snap[<<s, t>>]
  /\ enteredAt' = snap[<<s, t>>]
  /\ confirmed' = confirmed \union {s}
  /\ snap' = [snap EXCEPT ![<<s, t>>] = NeverEntered]
  /\ UNCHANGED <<server, boot, armVars, seen, entered, loop, boots, fired, told>>

----------------------------------------------------------------------------
LoopStep(g) ==
  \/ While(g) \/ Poll(g) \/ PollFails(g) \/ Take(g) \/ TakeRefused(g)
  \/ Judge(g) \/ Watch(g) \/ Mark(g) \/ Selected(g) \/ Hold(g) \/ Final(g)
  \/ \E t \in Target : Select(g, t) \/ Dispatch(g, t)

ThreadStep(s, t) ==
  EntryFails(s, t) \/ EntryConfirmed(s, t) \/ EntryRecorded(s, t)

Member == Stop \/ \E t \in Target : Arm(t) \/ Disarm(t) \/ RowOff(t)

Next ==
  \/ Publish \/ Age \/ Launch \/ Crash \/ Member
  \/ \E g \in Gen : LoopStep(g)
  \/ \E s \in Signal, t \in Target : ThreadStep(s, t)

\* The Python threads run; a feed that keeps being asked answers in the end.
Fairness ==
  /\ \A g \in Gen : WF_vars(LoopStep(g)) /\ SF_vars(Poll(g))
  /\ \A s \in Signal, t \in Target : WF_vars(ThreadStep(s, t))

Spec == Init /\ [][Next]_vars
FairSpec == Spec /\ Fairness

----------------------------------------------------------------------------
(* Properties. *)

\* One run of the app starts at most one entry for a signal on a row,
\* however often the member stops and starts and however many loops of old
\* generations are still on their way (the shared record of the comment at
\* the top of _sig_loop).  Checked for two generations: with more of them
\* and late answers, an old loop's _give_back can withdraw a newer one's
\* mark.  Without late answers it is proved for any number of generations.
OncePerSignal == \A st \in Signal \X Target : fired[st] <= 1

SameSlot(s1, s2) == SigKey[s1] = SigKey[s2] /\ SigDay[s1] = SigDay[s2]

\* A row enters at most one signal of a dedup key per day ("once a day per
\* account and session"), also when two signals of the key come in a row.
OncePerDay ==
  \A t \in Target, s1, s2 \in Signal :
    s1 # s2 /\ SameSlot(s1, s2) => ~(fired[<<s1, t>>] > 0 /\ fired[<<s2, t>>] > 0)

\* What a mark of row t for key k and a day stands for: the row was entered
\* or told why not, or a loop is still working on it.
Backed(t, k, day) ==
  \/ \E s \in Signal :
       /\ SigKey[s] = k /\ SigDay[s] = day
       /\ fired[<<s, t>>] > 0 \/ <<s, t>> \in told
  \/ \E g \in Gen :
       t \in marks[g] /\ SigKey[sig[g]] = k /\ SigDay[sig[g]] = day

\* No mark blocks a row for the day without cause: a loop that backs off
\* must not leave its marks behind, or the row would miss the signal the next
\* generation takes (_give_back).
NoOrphanMark ==
  \A t \in Target, k \in Key :
    entered[<<t, k>>] # 0 => Backed(t, k, entered[<<t, k>>])

\* A signal whose fill was confirmed and recorded by an earlier run is not
\* entered again after a restart (the comment on _pre_at).  Checked for rows
\* of one asset: where entries of two signals are recorded at once, the file
\* can lose one of the two times (_mark_entered has no lock).
RecordOutlivesRestart ==
  [][\A s \in Signal, t \in Target :
       fired'[<<s, t>>] > fired[<<s, t>>] /\ s \in confirmed
       => \E u \in Target : fired[<<s, u>>] > 0]_vars

\* Once a day per row and key: an answer to an earlier signal of the slot counts.
Answered(s, t) ==
  \E r \in Signal :
    /\ SameSlot(r, s)
    /\ fired[<<r, t>>] > 0 \/ <<r, t>> \in told

\* The row is armed, its signal is on the feed and still young.
Due(s, t) ==
  /\ boot # 0 /\ on /\ t \in armed \ rowOff
  /\ pub = s /\ s \notin aged \union Unusable \union NoTrade
  /\ TargetAsset[t] = SigAsset[s]

\* A signal nobody holds is answered on every armed row, as long as the loop
\* stays on and the signal young; a loop of an old generation that takes it
\* first hands it back.
DueIsAnswered ==
  \A s \in Signal, t \in Target :
    (Due(s, t) /\ seen.sid # s) ~> (Answered(s, t) \/ ~Due(s, t))

\* The comments of _sig_loop promise more: a loop that backs off leaves the
\* signal to "the new loop, or the next arming".  Then every armed row would
\* get an answer, whoever took the signal before.  Fails: a loop of the old
\* generation that takes the signal between Stop and Start finds no row,
\* skips it and keeps it; so does a loop started by the first row of several.
EveryRowIsAnswered ==
  \A s \in Signal, t \in Target : Due(s, t) ~> (Answered(s, t) \/ ~Due(s, t))

======================================================================================================================================================
