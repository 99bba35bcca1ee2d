------------------------------- MODULE Arming -------------------------------
(***************************************************************************)
(* Arming the account rows (src/eqgui.py, _master_start, _on_asset_toggle, *)
(* _panel_stop, _master_stop, _del_acct, _heartbeat, _apply_gating).       *)
(*                                                                         *)
(* Starting, and checking an asset while running, test the connections in  *)
(* a thread; when that is over the rows tested are armed for signals and   *)
(* for the session close.  Meanwhile the member clicks on: stops, unchecks,*)
(* edits rows.  The heartbeat changes the permission; an outage parks the  *)
(* armed rows and brings them back when the server answers again.          *)
(*                                                                         *)
(* A row is its place in the list of its asset, and armed rows are keyed   *)
(* by it.  One account has one row in an asset.  Left out: rows that are   *)
(* switched off, or manual, which have no close.                           *)
(***************************************************************************)
EXTENDS Sequences, FiniteSetsExt, Functions

CONSTANTS
  Asset, Account,
  Gates,      \* what the heartbeat comes back with
  MaxRow,     \* bound: rows of an asset
  MaxTest,    \* bound: connection tests under way
  MaxSignal,  \* bound: signals of an asset in a day
  MaxChange   \* bound: rows added, edited or deleted, and gates received

VARIABLES
  rows,       \* _acfg[asset]["accounts"]
  include,    \* _acfg[asset]["include"]: the assets checked
  arms,       \* _sig_accts, _auto_accts, _sig_parked, _watch_only, _live_ctx
  session,    \* _live_session
  startable,  \* the start button is enabled
  tests,      \* the connection tests under way
  gate,       \* _gate
  killed,     \* _killed: the server's last word was its kill switch
  due,        \* an _apply_gating is queued for a new gate
  marks,      \* _sig_entered_day: the rows marked today
  signals,    \* signals published today
  want, tested, traded, doubled, odd,
              \* history: assets the member wants on; rows whose connection was
              \* tested; accounts that entered today, and entered again; what a
              \* property makes an exception for
  changes

live == <<rows, include, arms, session, startable, tests>>
server == <<gate, killed, due>>
day == <<marks, signals, traded, doubled>>
vars == <<live, server, day, want, tested, odd, changes>>

Key == Asset \X (1 .. MaxRow)
RowFn == UNION {[S -> Account] : S \in SUBSET Key}
None == <<>>
Over(f, g) == [k \in DOMAIN f \union DOMAIN g |-> IF k \in DOMAIN f THEN f[k] ELSE g[k]]
Rows(a) == {<<a, i, rows[a][i]>> : i \in DOMAIN rows[a]}

TypeOK ==
  /\ \A a \in Asset : rows[a] \in Seq(Account) /\ Len(rows[a]) <= MaxRow
  /\ include \subseteq Asset /\ want \subseteq Asset
  /\ arms.sig \in RowFn /\ arms.auto \in RowFn /\ arms.parked \in RowFn
  /\ arms.watch \in BOOLEAN /\ arms.ctx \in {"", "use", "auto"}
  /\ session \in BOOLEAN /\ startable \in BOOLEAN
  /\ Cardinality(tests) <= MaxTest
  /\ gate \in Gates /\ killed \in BOOLEAN /\ due \in BOOLEAN
  /\ marks \subseteq Key /\ signals \in [Asset -> 0 .. MaxSignal]
  /\ tested \subseteq Asset \X Account /\ traded \subseteq Asset \X Account
  /\ doubled \subseteq traded /\ changes \in 0 .. MaxChange

Init ==
  /\ rows \in [Asset -> {s \in UNION {[1 .. n -> Account] : n \in 1 .. MaxRow} : IsInjective(s)}]
  /\ include = Asset /\ session = FALSE /\ startable = TRUE
  /\ arms = [sig |-> None, auto |-> None, parked |-> None, watch |-> FALSE, ctx |-> ""]
  /\ tests = {} /\ gate \in Gates \intersect {"auto", "use"} /\ killed = FALSE /\ due = FALSE
  /\ marks = {} /\ signals = [a \in Asset |-> 0] /\ traded = {} /\ doubled = {}
  /\ want = {} /\ tested = {} /\ odd = {} /\ changes = 0

-----------------------------------------------------------------------------
(* Permission. *)

Answered == gate \notin {"offline", "revoked"}
MayUse == gate \in {"use", "auto", "kill"}      \* caps use or autoentry
MayEnter == gate \in {"auto", "kill"}           \* caps autoentry
LiveOk == gate \in {"use", "auto", "none"}      \* not force_dry_run
Fallback == ~Answered /\ ~killed

\* An outage parks the signal rows, on top of what is parked.
Park(st) == IF gate = "offline" /\ Fallback THEN Over(st.sig, st.parked) ELSE st.parked

\* Losing the permission drops the signal rows, and without a fallback the
\* close too; otherwise the watch-only latch follows the permission.
Dropped(st) ==
  [st EXCEPT !.parked = IF st.sig # None /\ ~MayUse THEN Park(st) ELSE @,
             !.sig = IF MayUse THEN @ ELSE None,
             !.watch = IF st.sig # None /\ MayUse THEN ~MayEnter ELSE @,
             !.ctx = IF st.sig # None /\ MayEnter /\ st.watch /\ @ # "" THEN "auto" ELSE @,
             !.auto = IF MayUse \/ Fallback THEN @ ELSE None]

\* Rows stopped or unchecked during the outage do not come back.
Kept(st) == Restrict(st.parked, {k \in DOMAIN st.parked : k \in DOMAIN st.auto /\ k[1] \in include})

\* Mutant of Resumed: the copy is kept.
ResumedKeeps(st) == [st EXCEPT !.sig = Kept(st), !.watch = ~MayEnter]

Resumed(st) ==
  IF Kept(st) = None THEN [st EXCEPT !.parked = None]
  ELSE [st EXCEPT !.parked = None, !.sig = Kept(st), !.watch = ~MayEnter,
                  !.ctx = IF @ = "" THEN "" ELSE IF MayEnter THEN "auto" ELSE "use"]

\* _apply_gating.
Gated(s) ==
  LET st == Dropped(s) IN
  IF st.parked = None \/ st.sig # None THEN st
  ELSE IF gate = "revoked" \/ gate = "none" \/ ~session THEN [st EXCEPT !.parked = None]
  ELSE IF MayUse /\ LiveOk THEN Resumed(st) ELSE st

-----------------------------------------------------------------------------
(* Arming. *)

\* Mutant of Tested: the rows that are there after the test.
TestedLate(t) == UNION {Rows(a) : a \in t.assets}

Tested(t) == {r \in UNION {Rows(a) : a \in t.assets} : r \in t.rows}

\* _arm_tested_rows and _master_arm.
Armed(st, t) ==
  LET new == [k \in {<<r[1], r[2]>> : r \in Tested(t)} |-> rows[k[1]][k[2]]] IN
  [st EXCEPT !.sig = Over(new, @), !.auto = Over(new, @),
             !.parked = Restrict(@, DOMAIN @ \ DOMAIN new)]

Running == session \/ arms.sig # None \/ arms.auto # None
Busy == \E t \in tests : t.held

Test(kind, as, auto) ==
  /\ Cardinality(tests) < MaxTest
  /\ tests' = tests \union {[kind |-> kind, assets |-> as, auto |-> auto, fresh |-> TRUE,
                             held |-> TRUE, rows |-> UNION {Rows(a) : a \in as}]}

\* [Go Live] begins its connection test.
MasterStart ==
  /\ startable /\ LiveOk /\ MayUse /\ arms.sig = None
  /\ include # {} /\ \A a \in include : rows[a] # <<>>
  /\ Test("start", include, MayEnter)
  /\ session' = TRUE /\ startable' = FALSE /\ want' = want \union include
  /\ arms' = [arms EXCEPT !.ctx = IF MayEnter THEN "auto" ELSE "use"]
  /\ UNCHANGED <<rows, include, server, day, tested, odd, changes>>

\* An asset is checked while running; locked, or without a row, it is not.
CheckAsset(a) ==
  /\ Running /\ a \notin include /\ LiveOk /\ rows[a] # <<>>
  /\ Test("check", {a}, arms.ctx = "auto")
  /\ include' = include \union {a} /\ want' = want \union {a}
  /\ arms' = [arms EXCEPT !.watch = arms.ctx = "use"]
  /\ UNCHANGED <<rows, session, startable, server, day, tested, odd, changes>>

\* The check fails at once: no row that is on, no key, a broker that is not
\* allowed.  The asset is unchecked again; watching only is set all the same.
CheckRefused(a) ==
  /\ Running /\ a \notin include /\ LiveOk
  /\ arms' = [arms EXCEPT !.watch = arms.ctx = "use"]
  /\ UNCHANGED <<rows, include, session, startable, tests, server, day, want, tested, odd, changes>>

\* While nothing runs the check is only a setting.
SetInclude(a) ==
  /\ ~Running /\ a \notin include /\ include' = include \union {a}
  /\ UNCHANGED <<rows, arms, session, startable, tests, server, day, want, tested, odd, changes>>

Sound(t) ==
  /\ t.fresh /\ session
  /\ t.kind = "check" => t.assets \subseteq include

\* The test is over: cancelled by a stop or an uncheck, failed, or passed.
\* The start button comes back; when it passed, the gate sets it once more.
Done(t) ==
  /\ tests' = tests \ {t}
  /\ \/ /\ ~Sound(t) /\ UNCHANGED <<include, tested>>
        /\ startable' = (t.kind = "start" \/ startable)
        /\ IF t.kind = "start" /\ arms.sig = None /\ arms.auto = None
           THEN /\ session' = FALSE /\ arms' = [arms EXCEPT !.ctx = ""]
                /\ odd' = IF session THEN odd \union {"closed"} ELSE odd
           ELSE UNCHANGED <<session, arms, odd>>
     \/ /\ Sound(t) /\ UNCHANGED <<session, arms, tested, odd>>
        /\ startable' = (t.kind = "start" \/ startable)
        /\ include' = IF t.kind = "check" THEN include \ t.assets ELSE include
     \/ /\ Sound(t) /\ UNCHANGED <<session, include>>
        /\ startable' = (MayUse /\ LiveOk)
        /\ tested' = tested \union {<<r[1], r[3]>> : r \in t.rows}
        /\ arms' = Gated(Armed(IF t.kind = "check" THEN arms
                               ELSE [arms EXCEPT !.watch = ~t.auto, !.parked = None], t))
        /\ odd' = IF arms'.sig # None /\ arms'.parked # None THEN odd \union {"early"} ELSE odd
  /\ UNCHANGED <<rows, server, day, want, changes>>

\* After two minutes the rows may be edited although the test goes on.
Expire(t) ==
  /\ t.held /\ tests' = (tests \ {t}) \union {[t EXCEPT !.held = FALSE]}
  /\ UNCHANGED <<rows, include, arms, session, startable, server, day, want, tested, odd, changes>>

-----------------------------------------------------------------------------
(* Disarming. *)

Stale == {[t EXCEPT !.fresh = FALSE] : t \in tests}
Without(f, a) == Restrict(f, {k \in DOMAIN f : k[1] # a})
Disarmed(a) == [arms EXCEPT !.sig = Without(@, a), !.auto = Without(@, a)]

\* Mutant of Uncheck: a test under way stays valid.
UncheckFresh(a) ==
  /\ a \in include /\ include' = include \ {a} /\ want' = want \ {a}
  /\ Running /\ arms' = Disarmed(a)
  /\ UNCHANGED <<rows, session, startable, tests, server, day, tested, odd, changes>>

\* _live_disarm_asset: the member unchecks an asset.
Uncheck(a) ==
  /\ a \in include /\ include' = include \ {a} /\ want' = want \ {a}
  /\ IF Running THEN arms' = Disarmed(a) /\ tests' = Stale ELSE UNCHANGED <<arms, tests>>
  /\ UNCHANGED <<rows, session, startable, server, day, tested, odd, changes>>

\* The stop button of an asset's line leaves a test under way alone.
PanelStop(a) ==
  /\ a \in want /\ want' = want \ {a} /\ arms' = Disarmed(a)
  /\ odd' = IF \E t \in tests : t.fresh /\ a \in t.assets THEN odd \union {"panel"} ELSE odd
  /\ UNCHANGED <<rows, include, session, startable, tests, server, day, tested, changes>>

MasterStop ==
  /\ Running \/ tests # {}
  /\ arms' = [arms EXCEPT !.sig = None, !.auto = None, !.parked = None, !.ctx = ""]
  /\ session' = FALSE /\ tests' = Stale /\ want' = {}
  /\ startable' = (MayUse /\ LiveOk)
  /\ UNCHANGED <<rows, include, server, day, tested, odd, changes>>

-----------------------------------------------------------------------------
(* The rows of an asset. *)

Change == changes < MaxChange /\ changes' = changes + 1

AddRow(a) ==
  /\ ~Busy /\ Change /\ Len(rows[a]) < MaxRow
  /\ \E c \in Account \ Range(rows[a]) : rows' = [rows EXCEPT ![a] = Append(@, c)]
  /\ UNCHANGED <<include, arms, session, startable, tests, server, day, want, tested, odd>>

\* Another account is picked in a row.
EditRow(a) ==
  /\ ~Busy /\ Change
  /\ \E i \in DOMAIN rows[a], c \in Account \ Range(rows[a]) : rows' = [rows EXCEPT ![a][i] = c]
  /\ odd' = odd \union {"edited"}
  /\ UNCHANGED <<include, arms, session, startable, tests, server, day, want, tested>>

\* Mutant of Rekey: the rows behind the deleted one keep their number.
RekeyNone(f, a, i) == Restrict(f, DOMAIN f \ {<<a, i>>})

\* _rekey_after_delete: the rows behind the deleted one move up.
Rekey(f, a, i) ==
  LET old(k) == IF k[1] = a /\ k[2] >= i THEN <<a, k[2] + 1>> ELSE k IN
  [k \in {k \in Key : old(k) \in DOMAIN f} |-> f[old(k)]]

\* Mutant of DeleteRow: the parked rows keep their number.
DeleteRowParked(a) ==
  /\ ~Busy /\ Change
  /\ \E i \in DOMAIN rows[a] :
       /\ rows' = [rows EXCEPT ![a] = SubSeq(@, 1, i - 1) \o SubSeq(@, i + 1, Len(@))]
       /\ arms' = [arms EXCEPT !.sig = Rekey(@, a, i), !.auto = Rekey(@, a, i)]
  /\ UNCHANGED <<include, session, startable, tests, server, day, want, tested, odd>>

DeleteRow(a) ==
  /\ ~Busy /\ Change
  /\ \E i \in DOMAIN rows[a] :
       /\ rows' = [rows EXCEPT ![a] = SubSeq(@, 1, i - 1) \o SubSeq(@, i + 1, Len(@))]
       /\ arms' = [arms EXCEPT !.sig = Rekey(@, a, i), !.auto = Rekey(@, a, i),
                               !.parked = Rekey(@, a, i)]
  /\ UNCHANGED <<include, session, startable, tests, server, day, want, tested, odd>>

-----------------------------------------------------------------------------
(* The server, the signals and the day. *)

\* A heartbeat brings a new gate; within the grace period none does.
Heartbeat ==
  /\ Change /\ gate' \in Gates \ {gate} /\ due' = TRUE
  /\ killed' = IF gate' \in {"offline", "revoked"} THEN killed ELSE gate' = "kill"
  /\ UNCHANGED <<live, day, want, tested, odd>>

Gating ==
  /\ due /\ due' = FALSE /\ arms' = Gated(arms) /\ startable' = (MayUse /\ LiveOk)
  /\ UNCHANGED <<rows, include, session, tests, gate, killed, day, want, tested, odd, changes>>

\* The row holds the account it was armed with (_live_acct_cfg).
Same(k) == k[2] \in DOMAIN rows[k[1]] /\ rows[k[1]][k[2]] = arms.sig[k]

\* The loop takes a signal: rows marked today, or changed since they were
\* armed, are left out; the others are marked and enter.
Signal(a) ==
  LET taken == {k \in DOMAIN arms.sig \ marks : k[1] = a /\ (arms.watch \/ Same(k))}
      enters == IF arms.watch \/ ~LiveOk THEN {} ELSE {<<a, arms.sig[k]>> : k \in taken} IN
  /\ signals[a] < MaxSignal /\ signals' = [signals EXCEPT ![a] = @ + 1]
  /\ taken # {} /\ marks' = marks \union taken
  /\ traded' = traded \union enters /\ doubled' = doubled \union (enters \intersect traded)
  /\ UNCHANGED <<live, server, want, tested, odd, changes>>

Next ==
  \/ MasterStart \/ MasterStop \/ Heartbeat \/ Gating
  \/ \E a \in Asset : CheckAsset(a) \/ CheckRefused(a) \/ SetInclude(a)
  \/ \E a \in Asset : Uncheck(a) \/ PanelStop(a)
  \/ \E a \in Asset : AddRow(a) \/ EditRow(a) \/ DeleteRow(a) \/ Signal(a)
  \/ \E t \in tests : Done(t) \/ Expire(t)

Spec == Init /\ [][Next]_vars

-----------------------------------------------------------------------------
On == {k[1] : k \in DOMAIN arms.sig \union DOMAIN arms.auto}

\* What the member stopped or unchecked is not armed again, by a test that
\* was under way nor by the server coming back.  The stop button of a single
\* asset does not reach a test under way; and a start cancelled late closes
\* the session a later start opened, so that an uncheck cancels nothing.
StopHolds == odd \intersect {"panel", "closed"} = {} => On \subseteq want

\* A row that takes signals has its session close on the same account.
SigHasClose ==
  \A k \in DOMAIN arms.sig : k \in DOMAIN arms.auto /\ arms.auto[k] = arms.sig[k]

\* An armed row stays at the place of its account when rows before it are
\* deleted, also while it is parked.  Editing a row does not move it.
KeysFollow ==
  "edited" \notin odd =>
    \A k \in DOMAIN arms.sig \union DOMAIN arms.auto :
      /\ k[2] \in DOMAIN rows[k[1]]
      /\ \A f \in {arms.sig, arms.auto} : k \in DOMAIN f => rows[k[1]][k[2]] = f[k]

\* Only accounts whose connection was tested are armed.
ArmedIsTested ==
  \A k \in DOMAIN arms.auto : <<k[1], arms.auto[k]>> \in tested

\* An outage that is over leaves no row parked: it is back, or was dropped.
\* A test that arms rows before those that are parked come back leaves them
\* where they are.
NoneLeftParked == ~due /\ gate \in {"use", "auto"} /\ "early" \notin odd => arms.parked = None

\* An account enters once a day.
OncePerDay == doubled = {}
=============================================================================
