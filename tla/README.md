# EQ Autopilot: TLA+ verification project

EQ Autopilot is a desktop program (Python, `eqgui.py`) that trades a member's own
broker accounts from a signal feed: it enters on a signal, keeps a protective stop
at the broker, and flattens at the end of the session. `eqexec/` holds the broker
adapters and a small headless runner. This directory models the parts whose
correctness depends on the order of events, checks them with TLC and proves the
central facts with TLAPS.

Line numbers refer to `src/eqgui.py` unless a file is named.

## 1. Inventory

### Threads and shared state

The program has one Tk thread, daemon threads started and never joined, and plain
attributes of `App` shared between them, mostly without locks.

| component | state | operations | interacts with |
|---|---|---|---|
| signal loop `_sig_loop` (13360-13630) | `_sig_on`, `_sig_gen`, `_sig_accts`, `_sig_seen`, `_sig_entered_day`, `_entered_at` | poll, take, give back, select rows, mark, dispatch | feed, entry threads, arming, gate |
| session-close loop `_auto_loop` (6294-6552) | `_auto_on`, `_auto_gen`, `_auto_accts`, `_auto_fired`, `_auto_retry`, `_exit_override`, `_entering_at` | due test, spare, flatten, retry, notices | broker adapters, signal loop, gate |
| arming (7295-8218, 7247, 7494, 6087) | `_sig_accts`, `_auto_accts`, `_arm_seq`, `_live_ctx`, `_sig_parked` | stage, arm, disarm, stop all, delete row | both loops |
| permission gate and heartbeat (3319-3552, 3732, 12145) | `_gate`, `_killed`, `_watch_only`, `_fallback_mode`, `_sig_parked` | heartbeat, lose and regain permission, park and resume | arming, both loops, stop guard |
| entry threads (11412-11898 futures, 13102-13358 crypto) | the broker account, `_entering_at`, `.entered.json` | claim, standby, flatten the rest, order, confirm, protect | server claim, broker, stop guard |
| unconfirmed-entry watch (10514-10697) | `_unconf`, its file | mark, adopt, drop | entry threads, stop guard |
| stop guard (10699-11187) | `_open_ctx`, its file, `_nostop_seen`, `_flat_seen` | restore, detect a fill, resize, replace, flatten unprotected | broker, heartbeat, trail |
| BTC trail (8360-8510) | the broker's stop, `_open_ctx["BTC"].manual` | judge a candle, move the stop | session-close loop, stop guard |
| order policies (8242-8700) | orders at the broker | limit try, market fallback | entry threads |
| JSON stores and ledgers (1804-2206) | files | atomic and guarded write, append, reset | all |
| unsent fills (11267-11325) | a file of at most 50 reports | append, resend, expire | entry threads, heartbeat |
| configuration and keychain (682-960, 1660, 2269-2440) | YAML, keychain, cache | load, save, encrypt, migrate | GUI, entry threads |
| prop-firm rules (8712-9086) | ledgers, limits | pass and daily-limit tests, disarm | arming |
| connection watch, precheck (9404-9648) | per-account health | probe before the session, warn the member | brokers |
| headless runner (`eqexec/runner.py`, `scheduler.py`, `config.py`) | `_fired` | due test, mark, call | broker adapters |
| broker adapters (`eqexec/broker/*.py`) | sessions, orders | authenticate, list, order, flatten | brokers |
| NT8 bridge (`broker/nt8.py`, `nt8_addon/*.cs`) | request and answer files | place, confirm, flatten | NinjaTrader |
| sizing, calendar (`sizing.py`, `futures_cal.py`) | none | contracts from risk, contract month | entry threads |

### What is hard in it

* *Generations.* Stop lowers a flag and does not wait. Start raises a number and
  starts another thread. Two loops can be alive, one in a request of 8 s or in a
  broker call of a minute, over the same records.
* *Records in memory.* What was taken, entered, closed or has to be retried is lost
  with the process. Only `.entered.json` and the watch files survive.
* *Marks before deeds.* A row is marked as entered before its order, so that no
  second order can follow; who backs off must withdraw the mark, and only his own.
* *One window, many attempts.* A close is tried once a minute for half an hour, by
  whatever generation is alive, and the member is told of the first failure and of
  the outcome, not of the attempts.
* *Positions just opened.* One asset's session may begin while another's ends, and an
  entry may be under way when a close is due: the close must not take the new position.
* *The server.* It may be unreachable, revoke the permission, or switch live orders off.

### What makes each component correct

Signal loop: at most one entry per row, signal and day; no mark without a cause; a
signal is answered; nothing is entered again after a restart. Close loop: what must be
closed is closed or the member knows; what is new is not closed; notices are true and
single. Headless runner: every cutoff once a day. Stop guard: a position without a
stop is noticed, given one or closed, a resize never leaves two stops or none, and
a stop the member moved is left alone. Entry: one position per account and signal,
protected or closed again. Unconfirmed watch: adopted or dropped, never reported as
lost when it never existed. Queue: every fill is reported at least once while young.
Stores: after a crash the old or the new content. Arming: what the member stopped does
not come back. Sizing: the risk never exceeds the member's 1R.

`PROJECT.json` lists the hazards one by one at their lines.

## 2. Modules

| module | models | state and actions |
|---|---|---|
| `SignalLoop` | `_sig_loop`, `_mark_entered`, the arming as it sees it | `pc[g]` is where generation g's loop is; `sig, prev, todo, pick, fire, marks` are its locals; `seen`, `entered`, `enteredAt` the shared records; `thread`, `snap` the entry threads. One action per stretch of the loop between two points where another thread can act on what it reads |
| `AutoClose` | `_auto_loop`, `_exit_due`, `_close_mode`, the outcome of `_btc_x2be_step` | `pc, left, at` per generation; `fired`, `retry` shared; `pos` is the broker's truth, by the time the position was opened |
| `CutoffScheduler` | `CutoffScheduler.run`, `_due`, the armed loop of `runner.main` | `due` and `day` are the locals of `run` |
| `StopGuard` | `_check_stop_closed`, `_check_stop_alive`, `_check_stop_size`, `_learn_seen_stop`, the record of `_remember_open` in memory and on disk, and `_btc_move_stop_be` beside them | `pos`, `stops` are the broker's truth; `ctx`, `disk`, `open` the record; `flat`, `nostop`, `sized` the rows of two observations; `gpc`, `g` the guard's pass, cut at each call of the broker; `tpc`, `t` the trail's |
| `UnconfWatch` | the list of unconfirmed entries, in memory and on disk, and the heartbeat's look at it | `watch`, `disk`, `hand` per computer, `hb` the record the heartbeat is busy with; `pos`, `stop`, `orders` the broker's truth. No specification of its own: `FuturesEntry` extends it |
| `FuturesEntry` | `_run_futures_entry` with `_exec_entry_limit` and the NT8 commands | one step per request: claim, standby's look, leftovers, order, limit order and its repetitions, confirmation, retry, late fill, stop, repair. `Beat` is the watch beside it, `Crash` a new start of the app, `ans` and `qty` what the thread believes |
| `CryptoEntry` | `_enter_account` for bitcoin with `_exec_entry_limit` | the same, with closing before the claim and the stop inside the order; `label` is the row's label, which the claim names, and two computers may label the account differently |
| `Arming` | Go Live and stop (`_master_start`, `_master_arm`, `_master_stop`), checking and unchecking, the panel's stop, rows added, edited and deleted, `_apply_gating`, `_resume_parked_sig`, `_heartbeat` | `arms` holds `_sig_accts`, `_auto_accts`, `_sig_parked`, `_watch_only` and `_live_ctx`; `tests` the connection tests under way with what they were started for; `Done(t)` is the end of one. `Signal` is the loop's choice of rows of the moment |
| `BrokerFlatten` | `flatten_all` of the six adapters, IBKR's `close_contract` | `kind` chooses the broker; `plan`, `left`, `failed`, `keep` are the adapter's locals, `Fill`, `StopFires`, `EntryFills` the exchange meanwhile |
| `TradeRecord` | `_read_json_guarded`, `_write_json_atomic`, `_record_real_r`, `_rledger_mark_reset`, `_rledger_reset_ts`, the sync's use of them; `_mark_entered` without lock | `main`, `bak`, `copies` are files, `lock` is `_JSON_LOCK`, a writer's steps are the file operations; `Crash` may break what was not flushed, and a disk that is full cuts a file written in place, which the code swallows |
| `UnsentFills` | `_send_fill`, `_queue_unsent_fill`, `_unsent_fill_tick` | `queue` is the file; `copy`, `todo`, `keep` are the threads' readings of it; it is written in place, so a failed write or a stop may cut it |
| `Secrets` | `_load`, `_save`, `_save_full`, the encrypted copy, PIN, clearing, wiping, export and import | `kc` is the system's store, `blob` and `failed` the settings file, `mem` memory; a save is cut between store and file |
| `PassTp` | `_passtp_scan`, `_passtp_close_account` | `poss`, `todo`, `left` are the scan's readings; stops, fills, signals and outages in between |
| `Nt8Bridge` | the queue, journal, acknowledgements and snapshots of `broker/nt8.py` | `pending`, `acks`, `seen` in memory, `journal` on disk, `cut` if its last line is not whole; `taken`, `ran` are the add-on, an external program modelled by the requests it makes |
| `CommandOnce` | abstract: what the bridge promises its callers | `stage` of a command: new, asked, ran, dead, or free of any promise; `Nt8Bridge` maps to it with `Stage` |
| `MCSignalLoop`, `MCStopGuard` | constants of the small instances | |
| `MCAutoClose` | five scenes of `AutoClose` | each behaviour plays one scene |
| `MCEntry` | `FuturesEntry` and `CryptoEntry` side by side, one instance that five scenes narrow | each behaviour plays one scene, the other machine rests |
| `MCParts` | ten scenes of the small machines, `CutoffScheduler` extended, the others as instances | machines share the variables that have the same name; one is 0 in the scenes that do not use it |
| `SignalLoopProofs`, `StopGuardProofs`, `AutoCloseProofs`, `ArmingProofs`, `Nt8BridgeProofs` | theorems about the module of that name | |
| `EntryProofs` | theorems about `FuturesEntry`, `CryptoEntry` and `MCEntry` | |
| `PartsProofs` | theorems about `CutoffScheduler` and, over `MCParts`, about `UnsentFills`, `TradeRecord`, `BrokerFlatten`, `PassTp` and `Secrets`; those of `ArmingProofs` and `Nt8BridgeProofs` carried over | |
| `CloseScenesProofs` | the theorems of `AutoCloseProofs` carried over to the scenes of `MCAutoClose` | |

History variables (`fired` and `told` of `SignalLoop`; `passed`, `calm`, `first`, `gave`,
`notices` of `AutoClose`; `polled`, `calls` of `CutoffScheduler`; `told`, `stuck`, `life` and
the field `life` of a record in `StopGuard`; what the later modules list under "history") are
commented as such. No action of the code reads them; `Tick` reads `passed` and `polled` to
keep the clock from outrunning a loop that comes by every 15 or 20 seconds.

How the modules meet: `SignalLoop` sees arming as steps that change its set of rows, and
`Arming` sees a signal as the choice of the rows of the moment; the entry thread that
`SignalLoop` starts is the `Dev` of `FuturesEntry` and `CryptoEntry`; `FuturesEntry` and
`UnconfWatch` are one machine; the stop that an entry leaves is what `StopGuard` starts
from; `AutoClose` takes of `flatten_all` what `BrokerFlatten` shows: it closes everything
or says that it did not.

### Exceptions with a name

Several properties hold except after events that the code cannot, or does not, guard
against. Each such event puts a word into a history variable `odd` (or `excused`, `raced`,
`over`, `unwritten`), and the property names the word. What a run shows is then: nothing
*else* breaks it. The words of `FuturesEntry` are typical: `claim` (the server did not
answer, and the app enters), `loose` (an order could not be cancelled), `raced` (a limit
order filled between its reading and its cancellation), `skip` (a signal given up under the
limit policy without watching the order), `crash`. Those that are wider than a word:

* `Apart` of `CryptoEntry`: two computers that label the account differently claim it side
  by side, and no property says that only one enters.
* `over` of `UnsentFills`: dropped by age or by number, or in a file that was cut or not written;
  `raced`: whatever waits while two threads have the file in hand, so an append that
  is lost behind a tick is excused and not caught.
* `unwritten` of `Nt8Bridge`: the journal did not take the line, or took it behind a cut one.
* `excused` of `TradeRecord`: a row that was never written, or was only in a file that broke or in
  the hand of a writer whose in-place write failed.
* `odd` of `Secrets`: a change the store or the file did not take, what only a shut store had at
  the start, and what a wipe leaves behind.

The hazards of `PROJECT.json` that fall wholly under an exception name no property and say so.

### Choices worth knowing

* `SignalLoop` numbers signals in the order of publication, and an entry is stamped
  with the number published so far. "Entered after this signal was published"
  (13541-13553) is then a comparison of numbers. The code reads the time once before
  it goes over the rows, the model at each row: no entry of the asset is recorded while
  one of its signals is sorted, because nobody else holds that signal and the previous
  one is hours old.
* `Publish` waits until nothing of the same key's previous signal is under way. A pass
  takes at most a minute; sessions are hours apart. Stop, Start, Disarm, crash and all
  other signals are free to fall anywhere.
* Disarming one by one may or may not lower the flag with the last row, because the
  three places that do it differ (7494, 6087 lower it, 7247 does not).
* The tier of the moment (`_watch_only`) is a free choice at `Judge`.
* `AutoClose` counts time in retry intervals. `Window` ticks stand for the 30 minutes;
  work on one job takes less than a tick, so the clock waits for it (`BetweenJobs`).
  `calm` says that nothing disturbed the loop since before the day's first close: `Tick`
  sets it again on a new day, and what the member, the server or the computer does lowers it.
  `flatten_all` closes every position of the account, as the adapters do when they are
  given an account list, or some of it with errors, or nothing.
* The branch for a close without account id (6403-6418) is left out; `_master_arm`
  refuses to create such a job.
* In `CutoffScheduler` a cutoff is an hour and whether it was written with two digits.
  That is all the string comparison can tell apart on full hours.
* `StopGuard` has one asset in one account, held long; a greater price is the tighter
  stop. A broker is of one of three kinds, as the three branches of `_check_stop_alive`
  tell them apart: the stop comes with the position (Bybit, `"position"`), is a plan that
  is asked for (Bitget, `"plans"`), or is an order of its own size (ProjectX, `"orders"`).
* What goes wrong in `StopGuard` is a disturbance out of `Quirk`, at most `MaxQuirk` in a
  behaviour: a call fails, its answer is lost, a list or query wrongly comes back empty, a
  stop vanishes or cannot be cancelled, the member moves the stop or closes a part, the
  app restarts, a candle closes. A list is not wrong twice in a row (the code believes it
  then), nor between `_note_fill` and `_remember_open`, where the old row still counts.
* A look at one stop order learns its level and writes the record in one step, since the
  guard is the only writer then except for the trail, which another step of the model
  lets in before or after. Writing `.open_ctx.json` succeeds. Records do not expire
  (the code drops them after three days). An oversized stop that fires and opens the
  opposite position is not followed further. Its branch for unconfirmed entries is in
  `UnconfWatch`, the closing of a position whose first stop failed in `FuturesEntry` (`Mend`).
* Positions of `FuturesEntry` and `CryptoEntry` count whole entries of a leg; the size is
  taken as given and no order fills in part. Sizes and the limits of a prop firm
  are arithmetic before the order.
* A lost request and a lost answer are different failures everywhere: after `SendLost` the
  order may be at the broker or not, and the app cannot tell.
* In `Arming` a row is its place in the list of its asset, as in the code, and one account
  has one row in an asset. Rows that are switched off or manual are left out. A gate is
  the member's permission: `auto`, `use` (no automatic entry), `none`, `kill`, `offline`
  (no answer, or the grace period) and `revoked`.
* An entry of `TradeRecord` is its number, which is also its time: "a row of the same entry"
  is equality. With three failures in one behaviour (crash, unflushed copy, crash again) a
  ledger breaks together with its copy in ways the reset mark does not cover (section 5);
  the run has two.
* Standby looks once, after 200 s, whatever the other computer has still under way.
* `Nt8Bridge` lets a command grow old (120 s) once nobody waits for it; the add-on repeats nothing by
  itself, so `ran` counts only what the app makes it run. A journal line that a stop cuts counts
  as unreadable, and so does the one written behind it, with which it forms one line.

## 3. Runs

| run | question | bounds | result |
|---|---|---|---|
| `signal_rows` | Do two generations over two rows enter twice, or leave marks behind? | 2 rows of one asset, one manual, one that the member edits; 3 signals, two of one key on one day and one of an asset no row runs; 2 generations; 1 boot | holds, 562,686 states |
| `signal_live` | Is a signal answered, and does a restart not repeat an entry? | 1 row, 2 signals (the second without a trade), 2 generations, 2 boots | holds |
| `signal_gap` | Is every armed row answered, whoever took the signal before? | 1 row, 1 signal, 2 generations | violated |
| `close_generations` | Does every failure record end, and each notice close one, across generations? | scene `overlap`: 1 NQ close, 2 days of 5 ticks, window 2, an early exit, Stop and Start also during a broker call, sleep | holds, 192,691 states |
| `close_days` | Is a position closed that should live, kept in silence, or reported wrongly? | scenes `retries` (Stop and Start), `accounts` (two of one asset), `assets` (GC ends before NQ is entered in the same account), `bitcoin` (candle close, 24-hour limit, both tiers, gate changes, disarms, positions closed elsewhere) | holds, 1,373,708 states |
| `stop_watch` | Is a position reported closed that is open, the member's hand forgotten, a second stop placed, or a missing one passed over in silence? | 3 kinds of broker, 2 prices, 2 contracts, 2 entries, 3 disturbances of all nine kinds, 4 orders told apart | holds, 596,206 states |
| `stop_hand` | Does a hand kept on disk hold off the trail after a restart? | 1 entry, moves, restarts and candle closes | violated |
| `stop_size` | Is a stop order of the wrong size corrected or told? | 3 contracts, 2 reductions, nothing fails | violated |
| `entry_account` | Is a signal entered twice, is a position open that nobody knows of, does the watch answer? | 2 computers, one on standby, 2 legs, 2 starts of the app, 13 kinds of failure, 2 at a time; narrowed to `alone` (1 computer, 3 kinds of broker, both policies), `pair` (2 computers, market orders, 1 failure), `legs` (a mini and a micro leg at ProjectX, 1 start), `crypto` (bitcoin on 2 computers, 1 failure), `repeat` (bitcoin's limit order tried twice) | holds, 1,163,838 states |
| `parts` | The small machines, one question each; see the next table | | holds, 1,361,165 states (with symmetry) |
| `cutoff_unpadded` | Is a cutoff written `9:00` called? | 2 cutoffs, 2 days, 1 start | violated |
| `arming_day` | Does an account enter once a day while rows are deleted? | 3 accounts, 2 rows, 2 signals, 2 changes | violated |

Scenes of `parts`:

| scene | property | what it says | bounds |
|---|---|---|---|
| `cutoff` | `OncePerCutoff`, `CutoffCalled` | each cutoff is called, and once by a process | 2 cutoffs, 2 days, 2 starts |
| `record` | `SentRight`, `MarksStay` | a trade is never sent with the 1R of another entry; a mark of an entry stays on disk | 2 writers and the sync, 3 entries, 2 failures of 7 kinds |
| `report` | `ReportKept` | a report that waits reaches the server or stays in the file | 3 reports, a file of 2, 2 overlapping ticks, 4 failures |
| `secret` | `SecretKept` | a key is there after a restart, or the member was told | 2 keys, stores open, shut or mute, 1 failure |
| `flatten` | `FlatIsFlat`, `OpenKeepsStop` | no error means flat and swept; an open position keeps its stop | 6 brokers, 2 contracts, 2 failures, 2 calls |
| `pass` | `PassIsClosed`, `PassKeepsStop` | what was announced as closed is closed and stays off | 2 contracts, 2 brokers, 2 readings, 2 entries, 2 failures |
| `bridge` | `BridgeDelivers` | the bridge implements `CommandOnce`: a command runs at most once, not any more once it is too old or lost, and its caller is told the truth | 2 callers, 2 commands, 3 calls, 2 failures of 5 kinds |
| `rows` | `StopHolds`, `SigHasClose`, `KeysFollow`, `ArmedIsTested` | arming with edits and deletions during a test | 2 accounts, 2 rows, 1 test, 3 changes, gates auto, none, offline |
| `starts` | `StopHolds`, `NoneLeftParked` | two tests under way while the permission changes | 1 row, 2 tests, all six gates, 2 changes |

`Types` is the type invariant of each scene's machine. The two contracts, the two
commands and the two accounts have the same two names, and no machine tells them apart, so
the run uses their symmetry. `rows` and `starts` are narrowed by `Narrow`.

Why the bounds are enough: the shared records hold one value (`_sig_seen`) or one per
row and key; conflicts are between the loop that holds a signal and one other, so two
generations and two rows (one that fires, one that is answered otherwise) show them; a
third signal of the same key is like the second (what a third generation adds is
described below). A window of two ticks has an attempt, a retry and an end; two days
have a day change inside and outside a window. Every row of the guard has two
observations, so two disturbances can break it at either one and a third falls after it;
two entries show what one leaves to the next; two prices are tighter and looser. An entry
has one request of each kind, so two failures are a first one and one that strikes the
repair; two computers are the one that got the claim and another. A queue of two with
three reports overflows while a tick holds it, and the fourth failure interrupts the
repair of the third. Two rows let one move to the other's place; two tests are one that
ends after a stop and one started since. Where a property is also proved (section 5),
the bounds only matter for finding mistakes early.
Every bound is a CONSTANT named as such, or the length of a calendar.

Deadlock checking is off: the calendars, signals, generations, calls and failures are
finite and the system stops when they are used up.

### The five disagreements

`signal_gap`: comments at 13390 and 13532 promise that a loop that leaves without
ordering hands the signal on. It does so at the two generation checks; but a loop that
finds no row (13452-13455) keeps its claim. Stop clears the rows, the old loop takes
the signal, Start comes within the minute: the signal is lost for that run. So is
the second row's share when the loop was started by arming the first. `DueIsAnswered` states
what does hold.

`cutoff_unpadded`: `_validate` accepts `9:00`, the scheduler compares strings, and
`"10:00" >= "9:00"` is false all day.

`stop_hand`: the comment at 10711-10713 says that `manual` is written to disk so that the
trail does not move the member's stop after a restart. But the trail reads the record
in memory (8450), which only the guard's heartbeat restores (10804-10806), and not for 300
seconds after a failed attempt. A candle close before that moves the stop.
`HandRemembered` states what does hold: the hand itself is never lost.

`stop_size`: `_size_seen` is set to -1 before the correction (10979) and freed only by a look
that finds equal sizes. If the member reduces again before that look, the stop keeps
the wrong size for good, without a further word (docstring at 10934).

`arming_day`: `_sig_entered_day` says which rows have entered today, by row number. Deleting
a row moves the armed rows (`_rekey_after_delete`, 6112-6128) and not these marks. An account
that entered today and moved up finds itself unmarked and enters again with the next
signal of the day; one that has not may be found marked and miss it.

### Met while modelling, not run

These are consequences of the code that a run excludes by a constant, an exception
with a name or a bound. Most need several events close together.

Signal loop
* With three generations (three Starts around one 8 s request) `OncePerDay` fails:
  an old loop with a delayed answer takes an older signal, which makes the current one
  takable again for a newer loop; the old loop's `_give_back` then withdraws the newer
  loop's mark. With four, `OncePerSignal` fails too.
* Entries of two assets that are recorded at once can lose one of the two times: `_mark_entered`
  (1915) reads and writes the file without the lock that the other ledgers got for this
  reason (1934). After a restart the signal that lost its time is entered again: with rows of
  two assets `RecordOutlivesRestart` fails.

Session close
* A record kept over Disarm and Arm in the same generation makes the app announce
  "no more attempts today" on the next day, before it tries (6378; `GivenUpTruly` is
  checked without `"disarm"`).
* Start while an old loop is in the broker call lets both record a first failure (6533
  uses the record read before the call; `ToldOnce` is checked without `"overlap"`).
* An exit that the server moves to within 30 minutes of the entry marks the day as done
  and the fixed hour is skipped too (6429; `NoneHeldSilently` is not stated for
  `overlap`, where it happens).

Arming
* A start that was cancelled ends late, finds nothing armed and clears `_live_session`
  (8128-8135), which by then belongs to a later start: that start arms nothing, and
  an asset unchecked meanwhile may be armed by an earlier test (exception `closed`).
* The stop button of a single asset (7494-7509) does not reach a test under way
  (exception `panel`).
* After a demotion `_live_ctx.perm_auto` is stale until the next gating: checking another
  asset then clears `_watch_only` (7320), even if that check is refused at once (`CheckRefused`).
* A test that arms rows while others are parked, because it ends between the server's
  answer and its queued gating, leaves the parked ones parked: `_resume_parked_sig` does nothing
  when something is armed (3463, 7834), although the notice at 3604 says they come back by
  themselves (exception `early`).

Entries
* Bitcoin's claim names the row's label (13286, from 13111), which the member can edit on each computer:
  two that label one account differently both get it (`Apart`).
* Bitcoin asks for the claim (13288) after closing what is open (13227-13239): a second
  computer closes the first one's new position and then yields.
* A limit order that fills between the reading and the cancellation is followed by another
  (8299-8313, 8556-8566; exception `raced`); at ProjectX a lost answer to the limit order
  counts as a refusal and the market order follows (8544-8551).
* A skip with "fill_unconfirmed" under the limit policy is handled like a skip by choice:
  no watch and no warning (8578-8581, 11631-11635; exception `skip`).
* A stop whose answer was lost is placed again (`_handle_stop_failure`), and the watch's
  query may fall just before the entry places its own stop: two stops.
* An order that fills after the watch let it go, at two flat readings (11826-11836), is
  found by nobody.
* At NT8 a close that fails before a retry is only logged, though the comment at 11533
  promises no second entry; an order still working at the end of the budget is not
  cancelled; a duplicate's answer counts as a placed entry, and a command nobody waits for
  any more still runs up to 120 s later.
* Mapped nowhere because nothing calls them: `_exec_close_limit` and its futures variant
  (8592-8690).

Closing
* IBKR's `flatten_all` cancels its stops first and sends opposite orders, which turn a
  position that a stop has closed meanwhile; NT8's believes the receipt.
* `PassTp`: a second scan that finds no position any more cancels no order (8853-8857,
  8886-8895); a row parked by an outage during the close comes back after it (8903-8912);
  `_passtp_done` survives a new Go Live although the popup says otherwise.

Files
* The second loss of the 1R ledger with a stop before its mark is not noticed if an earlier
  reset is recorded (2053-2063).
* A write in place that fails is swallowed and leaves a cut file (1976 and 2101, 11283, 11312): the ledger
  is restored from its copy without the latest row, reports in the file are gone.
* A report appended while a tick has the file in hand is overwritten by the tick (11304; exception `raced`).
* A journal line of the NT8 bridge that a stop cuts (nt8.py:72-74) has no end of line: the next one is written
  behind it, both are skipped at the next start, and that command can run again after it.
* Reports carry no time: an entry's report delivered from the queue after the close's
  shows a closed position as open (11189-11313).
* `_load` never reads the copy of the settings, and two saves after a broken file overwrite
  it (1660-1690, 2395-2440); `_pin_wipe_reset` leaves the encrypted keys (5147-5180);
  a store that refuses to delete says nothing (759-775); an older key of a store that
  comes back is used before a newer one kept with the PIN (928-953): `SecretKept` speaks of
  a key being there, not of the latest.

## 4. Fairness

`FairSpec` of `SignalLoop`: weak fairness of each generation's loop and of each entry
thread, since Python schedules a runnable thread and every request has a timeout; and
strong fairness of `Poll`, that a feed asked again and again answers in the end,
for `DueIsAnswered` only promises something while the signal is young (at most 60 s) and the
loop stays on. Nothing is assumed of the member, the server's publications or crashes.

`FairSpec` of `AutoClose`: weak fairness of the loops and strong fairness of `Tick`,
because time passes; its guard is enabled again each time a loop is between two jobs.

`FairSpec` of `StopGuard`: weak fairness of `Guard`, because the heartbeat comes every 60
seconds and every call of it has a timeout; strong fairness of `Query`, because more than 180
seconds pass between two looks at stop orders again and again, so `TooSoon` cannot be the
answer for ever; weak fairness of `Enters`, the tail of the entry's thread. Failures are not
assumed away: their number is bounded by `MaxQuirk`, so `MissingIsAnswered` says that the
guard answers once the disturbances are over, or has told the member by then.

`MCSpec` of `MCEntry`: weak fairness of the heartbeat (`Alive`), a loop of 60 seconds whose
requests have timeouts. The entry thread, the exchange and the member owe nothing.
`WatchAnswers` therefore also covers an entry thread that died.

## 5. Proofs

For every value of the constants that satisfies the named assumptions, and without bounds.
A theorem that is to say something of a run is stated of the run's own specification: the
scenes of `MCEntry`, `MCParts` and `MCAutoClose` are instances of the machines, and
`EntryProofs`, `PartsProofs` and `CloseScenesProofs` carry the invariant of each machine over to
its scene. What narrows a scene plays no part in these proofs.

**Signal loop** (`SignalLoopProofs`)

* `TypeCorrect`. `TypeOK` is not inductive: the
  type of what `Take` and `GiveBack` write needs that a loop past its poll has a signal
  in hand. `TypeInv` adds `HoldsSignal`.
* `MarksHaveCause` (`NoOrphanMark`). A mark must be backed by an entry, an
  answer, or a loop at work. The hard steps are those where a loop leaves: `Selected`,
  `Hold` and `Dispatch` drop the loop's `marks`, so each of them must be manual (just
  answered), to be fired, or fired. `Kept` says so for each place of the loop, `FreshGens`
  that a generation that has not started holds nothing, and `MarkInv` is their conjunction
  with the property. The lemmas `BackedStep` (backing survives a step that only
  adds to history and leaves other loops alone) and `KeptStep` carry the thirty cases.
* `RecordIsKept` (`RecordOutlivesRestart`, an action property over restarts) for behaviours in which
  accounts that record their entry at the same time have entered the same signal
  (`RecordTogether`); without that it is false (section 3). `RecordInv`: what was
  confirmed is on file (`OnFile`) and in what any thread is about to write (`InSnap`), and a loop with
  rows in hand for a confirmed signal works on an entry of its own run (`OwnConfirmed`), for a
  row of an earlier run's signal does not pass `EnteredSince`.
* `OneKeyIsKept`: `RecordTogether` holds of itself if all rows trade signals of one dedup key
  (`OneKeyTraded`), as in the run, on however many accounts. `NewestInv`: whatever a loop or a thread has in
  hand is the newest published signal of its key, for the server publishes the next only when
  nothing of the key is under way.
* `TwoEnterOnceADay` and `TwoEnterOnceASignal` (`OncePerDay`, `OncePerSignal`) for two generations of the
  loop, as in the run, and any rows, signals and restarts; `OneEntryADay` and `OneEntryASignal` for any
  number of generations if no loop takes a signal older than the one last taken (`StaleTake`, which needs
  a delayed answer of the feed). Both if signals are published in the order of their days
  (`DaysInOrder`). The common invariant is `OnceInv`. `FiredMarked`: the mark of an entry stays until a
  signal of a later day is out. `RowsFree`: a row in a loop's hand has not entered today, so whoever
  withdraws its marks (`GiveBack`) never withdraws that of an entry. `OnceStep` needs besides that no two
  loops mark rows for one signal (`Apart`), and the two cases differ in why that is so:
  without stale takes, loops at work hold different signals, none newer than the claim on record, and
  what one of them would put back is not below what the others hold (`HeldClaims`), so no signal is
  taken twice. With them and two generations, a signal can be taken twice, but an older loop that marks
  rows passed `Judge` before the newer one existed, with the claim in its hand (`AloneClaims`);
  after that only the newer one claims, and always a later signal, since
  its answer is not older than the claim (`NewerClaims`).

**Session close** (`AutoCloseProofs`, `CloseScenesProofs`)

* `TypeCorrect`; `TypeOK` is inductive here, given that the clock never shows a
  day outside the calendar (`DayBound`, a fact about division). And `OneNoticePerRecord`
  (`NoticeTakesRecord`): an action property, so
  each action that sends a notice is shown to take the record out, given types.
* `HeldIsTold` (`NoSilentHold`) for any calendar in which no entry of an asset falls between a
  window before one of its exits and the end of its own window (`EntriesApart`); an exit that the
  server moves into such a stretch is what "Met while modelling" describes. `Answered` of a
  job says that nothing is left of what it had to close, or the member was told today. `HoldInv`
  says where that is so: of a job marked as done (`FiredHeld`), of one the present pass has
  behind it (`PassHeld`), at the end of a day's window (`DayHeld`), and of one with a
  record of today (`RetryTold`). The clock cannot leave the window before a pass is through.
* `ClosesNothingNew` (`LateKill`) for any calendar in which sessions of one account are apart
  (`SessionsApart`). Whether a position is spared is decided before the broker call; `OldEnough`
  says that the decision still holds when the call comes, for the entries that could make it
  stale are not in that stretch. No assumption about generations or disturbances.
* `FirstToldOnce` (`FirstTold`) if no loop is started over another that is inside a job
  (`"overlap" \notin Quirk`). Then one loop is in a job (`Alone`), the record it has read is the
  one that is there (`Fresh`), what is under way was not done (`Undone`), and a day that was told
  is done, over or recorded (`ToldStays`).
* `GivenUpIsOver` (`GiveUpIsFinal`) if moreover the computer does not sleep, no row of a running
  loop is taken off alone, and windows end before midnight (`WindowsEnd`); for the others section 3
  shows what happens. `GenOver`: when a window is over, the next pass takes the loop's records out.
* `HeldIsToldInScenes`, `NothingNewInScenes`, `ToldOnceInScenes`, `GivenUpInScenes`: the hours of the
  run's scenes satisfy these hypotheses (`RetriesHours`, `AccountsHours`, `AssetsHours`,
  `BitcoinHours`), so the run's properties hold of them.

**Entries** (`EntryProofs`)

* `TypesHold`. The types of the thread, of the watch and of the market, and that a heartbeat that
  is busy is busy with a leg (`HbLeg`).
* `OneRunAlone` (`OneRunEnters`). `ClaimInv`: unless a
  claim went unanswered, whoever is past the claim is the run the server named. Two
  runs of one computer differ by their start, so a restart cannot pass for the run before.
  Every other step of the entry goes on from a place past the claim, which
  makes the many actions one case each.
* `OneEntryHolds` (`OneEntry`). `OrderInv`: of a leg one order is out (`OrdersApart`), and only while the
  leg is not open (`OrdersFlat`); who is about to send has none out and later legs are fresh
  (`OrderAt`). It holds until a claim went unanswered or an order could not be cancelled; that a
  limit order fills between its reading and its cancellation is followed to the end of
  that order. For bitcoin the same with its two policies apart: `CMarket`, where the account is
  empty until the owner of the claim sends, and `CLimit`, where one computer has one order or
  one position.
* `NoneIsUnknown` (`NoneUnknown`). `SafeInv`: every leg is flat, has its stop, or was told or is watched
  (`Safe`), or some run is at one of the places where it still has to look at it (`Exempt`). The
  hard steps leave such a place. Who has seen the position has no order of it out any more
  (`Settled`), so no fill comes after the look. `CNoted` says for bitcoin that a sent entry
  is recorded, told, or still in the hand of its run.

**Stop guard** (`StopGuardProofs`)

* `ClosedIsClosed` (`NoFalseClose`). The invariant `FlatRow` is the
  reason behind "two in a row": while one flat answer is counted, either the position is
  gone or that answer was the wrong one, and the next list cannot be wrong again. It
  holds because every other answer, a failed one included, resets the row.
* `HandKept` (`HandRemembered`). The invariant `RecordKept` says that the file holds
  what memory holds, that the guard works with a record, that every record is of an entry
  up to the present one, and (`OwnLevel`) that the remembered level is the app's own
  until the hand is found. The hard step is `Learn`, which writes the file only when the
  level changed: by `OwnLevel` a stop that shows the member's hand for the first time is
  never where the record has it, so the mark is written with it.
* `OneStop` (`NoStackedStops`). The invariant `StopsRow` is about stop
  orders only, for elsewhere a new stop takes the place of the old one: a stop missed once is
  gone or the query was wrong, and it is not wrong twice, so nothing is left where
  one is put back; and what a correction read is all there is, so that after the
  cancellation nothing is left either, or one could not be cancelled.
* `TypeCorrect`, of which these use what they need.

**Arming** (`ArmingProofs`, `PartsProofs`)

* `EveryRowCloses` and `OnlyTested` rest on `ArmInv`: a row parked by an outage
  agrees with the close it left behind and was tested (`Covered`), because that is what
  resuming puts back. `StoppedStays` adds `StopInv`: nothing is armed without a session, and
  a test that is still fresh belongs to the running session and to assets the member
  wants, so its end cannot arm anything else; a stale one arms nothing. The two exceptions with a name
  stand here as in the property.
* `RowsKeepPlace` (`KeysFollow`). `PlaceInv`: everything that is armed, closed or parked (`Entries`) names a
  row of the list and its account, and so does every test under way. A deletion moves the list and
  the entries by the same step; that nothing moves below a test is what blocks the deletion.
* `OutageEnds` (`NoneLeftParked`). `ParkedInv`: rows are armed or parked, never both, unless a test armed
  some beside the parked ones (exception `early`, section 3); then an answer that lets the
  member enter takes out all that is parked.
* `TypeCorrect`.

**Small machines** (`PartsProofs`, `Nt8BridgeProofs`)

* `CalledOnce` (`OncePerCutoff`) and `TypeCorrect` of `CutoffScheduler`. The
  invariant adds that what was called today carries today's mark and that what is still
  due was not called.
* `CalledInTime` (`CutoffCalled`) for cutoffs that are all written with two digits (`Padded = Cutoff`; without
  it the property is false, as `cutoff_unpadded` shows). `CalledInv`: marks are of today or
  older, one of today was called by this process (`MarksCalled`), and what has passed was
  called or is in the round (`RoundCalls`).
* `NoReportLost` (`ReportKept`). Two holders of the file excuse all
  that waits (`ReportPair`); a thread that holds it alone has, in its copy or in what it has still
  to post and to keep, every report that is not excused (`ReportInHand`). The lemma `QueuedSet`
  says that the queue loses at most its first report. Assumes that the file
  keeps at least one report.
* `MarkedStays` (`MarksStay`). A writer that read the times before a mark it does not have will overwrite it,
  and then two writers were at work at once (`MarksHeld`).
* `SentWithOwn` (`SentRight` while at most two things have failed, which is all the run lets fail). Every
  trade that is owed its 1R is excused, has its row in what the files still hold (`LedgerRows`), or is too
  old to be sent: not younger than the recorded time of a loss, or than a broken ledger that was put
  aside before every row there is (`RowSafe`, `LedgerKept`). The exception is a thread that has put a broken ledger aside and not
  declared the loss yet (`Undeclared`); nothing is sent then. `LedgerFaults` counts:
  each broken file, each copy put aside and each mark not written cost a failure, so two do not suffice to
  lose a row in silence. `RecordFlow`, `RecordFiles` and `RecordRows` say which thread has the lock, that
  no file has a row from the future, and what a writer has in hand. Three failures do suffice: a
  crash, then a move and a mark that fail; three crashes, the last between putting a second
  broken ledger aside and declaring it; or two losses, the mark of the second failing.
* `FlattenedIsFlat` (`FlatIsFlat`) and `StopsOutlast` (`OpenKeepsStop`). `FlatFlow` says which broker comes
  to which step; `FlatStops`, until something odd happens, that an open contract keeps its stop and that
  what ProjectX spares covers what is open; `FlatClean`, of a flatten that has met no error, what is
  already closed. IBKR takes its stops first: `OrdersClose` says that from then on
  each order closes exactly what it was sent for.
* `AnnouncedIsClosed` (`PassIsClosed`) and `PassStopsOutlast` (`PassKeepsStop`). What was read as open and not
  yet seen closed is in the last reading (`PassOrders`), so the orders that are swept are of
  contracts that are closed; an announced close is over, and only what is odd opens again (`PassOver`).
* `KeysKept` (`SecretKept`). A key the member has is in the store, in the encrypted copy or in the change that
  is under way, what is about to be written has it, and the app has it or said that it did not get
  the PIN (`HeldKey`); one the member removed is nowhere (`GoneKey`). The cut between store and file is
  where the two differ: `busy` names the keys of the change.
* `OnceForAll` (of `Nt8Bridge`: a command runs once at most and its caller is told the truth). A noted
  command is at one place at a
  time: queued, fetched, or executed (`OnePlace`), what was seen or fetched is in the journal
  or is `unwritten` (`Logged`), and answers and acknowledgements say what was done
  (`Truthful`); a command whose line the disk refused, or took
  behind a cut one, is excepted.
* `KeepsPromise` (`BridgeDelivers`): the bridge implements `CommandOnce` under the mapping
  `Stage`, which tells from queue, add-on and memory where a command stands. The same
  invariant shows each step: an acknowledgement is taken only of a command that is over, and
  what a restart or a lost answer takes away was asked for and is dead from then on
  (`LoseStep`), because its identity is in the journal.

* `WellTyped` (`Types`). Most types are not inductive alone. The closes that are left to a flatten are of the
  positions it read first (`FlatKnown`); a scan that has not judged closes nothing (`PassKnown`); a
  report is in the file, or in a thread's copy, only after it was put there (`ReportKnown`), and that no
  queue is too long is part of `ReportTyped`; a caller of the bridge waits for one command (`OneEach`).
  The flags are kept apart (`SecretFlags`, `FlatFlags`, `PassFlags`), for the provers handle
  truth values and arithmetic separately.

Assumptions: `SignalAssumption`, `StopAssumption`, `CutoffAssumption`, `CloseAssumption`, `EntryAssumption`
and `PartsAssumption` give the types of the constants, the last also that the file of reports keeps
at least one and that no writer has the name of the sync or of no thread; `ScenesAssumption` says that the two jobs, accounts and assets of the close scenes
differ. TLC evaluates them in the runs. What else a theorem needs is written in its
ASSUME and named above.

What stays with TLC, and why:

* `OncePerDay` and `OncePerSignal` with delayed answers, for more generations than two: a third
  breaks the first and a fourth the second (section 3).
* `SentRight` of `TradeRecord` for more than two failures: three can break it, as said above.
* All liveness (`DueIsAnswered`, `FailureIsFollowedUp`, `MissingIsAnswered`, `WatchAnswers`), which needs
  fairness and ENABLED and is out of the prover's reach.
* Facts about recursively defined data, which would need induction theorems the installed provers
  cannot instantiate; no theorem rests on one.

## 6. Not modelled

* Connection watch and precheck: they warn the member and change no order, position or row.
* Sizing, the prop firm's limits on size and the futures calendar: arithmetic on decimal numbers and
  dates, without state and without steps. The models take contract and size as given.
* Feed decryption, request signing, parsing: pure conversion and library code; the models see their
  success or failure.
* Windows, wording, logs, notifications: no property is about them, except the notices whose number
  or truth matters.
* The instance lock and the start-up: operating-system calls; one process per machine is assumed.
* Of the settings, everything but the keys; `_unify_creds`, which shares one connection among
  assets, only copies values.
* Switching a single row on or off, and manual rows in `Arming` (`SignalLoop` has a manual row).
* The realised ledger of idle days and the file of open positions as files: they use the helpers
  `TradeRecord` models.
* The add-on in C#: external; the bridge's side of the exchange is modelled.
* The headless runner's `--once` and `--healthcheck`: one call and exit.
* Several assets in the stop guard: its record is one per asset, and a second account's entry
  overwrites the first one's (10507).

Next steps worth taking: an abstract specification of a protected position (open and
protected, being repaired, told, closed) that `StopGuard` and the tail of `FuturesEntry`
implement; the composition of `SignalLoop` with `Arming`.
