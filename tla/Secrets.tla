------------------------------- MODULE Secrets -------------------------------
(***************************************************************************)
(* Two broker keys.  A key goes to the operating system's secret store;    *)
(* what the store refuses goes to the settings file encrypted with a PIN,  *)
(* and comes back at the next start when the member enters the PIN.  No    *)
(* key is written in plain text.                                           *)
(*                                                                         *)
(* "field" is a key among the settings themselves (f1 or f3), which the    *)
(* app reads once, at its start.  "f2", of another connection, is read     *)
(* from the store each time it is used, and from memory if the store has   *)
(* none.  A value is the number of the entry that made it.  The sharing of *)
(* one connection among several assets is left out.                        *)
(***************************************************************************)
EXTENDS Integers

CONSTANTS
  Stores,     \* what the secret store may be: see Reads and Writes
  MaxValue,   \* bound: values entered for each key
  MaxFault    \* bound: files not written, and stops in the middle of a change

Secret == {"field", "f2"}
Value == 0 .. MaxValue
Empty == [s \in Secret |-> 0]

VARIABLES
  store,      \* "open", "shut", "mute": takes values and gives none back,
              \* "readonly": gives its values and takes none
  kc,         \* the secret store
  mem,        \* _acfg and _ENC_SECRETS
  blob,       \* kc_enc in the settings file
  failed,     \* kc_failed in the settings file
  pin,        \* _ENC_PIN is known in this session
  locked,     \* _enc_locked: the blob was not opened at the start
  dropped,    \* _ENC_DROPPED
  exported,   \* the values in an exported file
  told,       \* keys the member was told to enter again
  pc, next,   \* the app's step, and the blob and failed it is about to write
  \* history
  want,       \* the member's last value, 0 for none
  now,        \* values entered so far
  busy,       \* keys being changed
  odd,        \* keys with an exception: a change the store or the file did not take,
              \* a field not read at the start, a blob left behind (see each action)
  faults

stored == <<store, kc, blob, failed>>
session == <<mem, pin, locked, dropped, told>>
history == <<want, now, odd, faults>>
vars == <<stored, session, exported, pc, next, busy, history>>

TypeOK ==
  /\ store \in Stores
  /\ {kc, mem, blob, exported, want} \subseteq [Secret -> Value]
  /\ {failed, dropped, told, busy, odd} \subseteq SUBSET Secret
  /\ pin \in BOOLEAN /\ locked \in BOOLEAN
  /\ pc \in {"down", "run", "save", "write"}
  /\ next \in [blob : [Secret -> Value], failed : SUBSET Secret]
  /\ now \in [Secret -> Value] /\ faults \in 0 .. MaxFault

NoNext == [blob |-> Empty, failed |-> {}]
Some(f) == {s \in Secret : f[s] # 0}
Reads == store \in {"open", "readonly"}
Writes == store \in {"open", "mute"}
Read(s) == IF Reads THEN kc[s] ELSE 0

\* _f2_load, and the field in _acfg.
Used(s) == IF s = "f2" /\ Read(s) # 0 THEN Read(s) ELSE mem[s]

Init ==
  /\ store \in Stores /\ kc = Empty /\ mem = Empty /\ blob = Empty /\ failed = {}
  /\ pin = FALSE /\ locked = FALSE /\ dropped = {} /\ exported = Empty /\ told = {}
  /\ pc = "down" /\ next = NoNext
  /\ want = Empty /\ now = Empty /\ busy = {} /\ odd = {} /\ faults = 0

Fails == faults < MaxFault /\ faults' = faults + 1
Never == UNCHANGED faults

-----------------------------------------------------------------------------
(* The start: _load, then _enc_unlock_startup. *)

\* _enc_restore: the field only where the store had none.
Restored ==
  [s \in Secret |-> IF blob[s] # 0 /\ (s = "f2" \/ Read(s) = 0) THEN blob[s]
                    ELSE IF s = "f2" THEN 0 ELSE Read(s)]

\* A store that is shut at the start looks as one without the field; f2 is read
\* again at each use.  What the member was told to enter again stays away until
\* it is.
Start ==
  /\ pc = "down" /\ pc' = "run" /\ dropped' = {}
  /\ \/ /\ Some(blob) # {}
        /\ mem' = Restored /\ pin' = TRUE /\ locked' = FALSE /\ told' = failed
     \/ /\ mem' = [Empty EXCEPT !["field"] = Read("field")] /\ pin' = FALSE
        /\ locked' = (Some(blob) # {}) /\ told' = failed \union Some(blob)
  /\ odd' = odd \union failed \union (IF Reads THEN {} ELSE (Some(kc) \ Some(mem')) \ {"f2"})
  /\ UNCHANGED <<stored, exported, next, busy, want, now, faults>>

-----------------------------------------------------------------------------
(* What the member does. *)

\* _f2_save writes at once, the field is written with the file.
KeepNow(s, v) ==
  /\ mem' = [mem EXCEPT ![s] = IF s = "f2" /\ store = "open" THEN 0 ELSE v]
  /\ kc' = IF s = "f2" /\ Writes THEN [kc EXCEPT ![s] = v] ELSE kc

\* _save_creds_fields: an empty box keeps what was saved.
Enter(s) ==
  /\ pc = "run" /\ now[s] < MaxValue
  /\ now' = [now EXCEPT ![s] = @ + 1] /\ want' = [want EXCEPT ![s] = now'[s]]
  /\ KeepNow(s, now'[s]) /\ odd' = odd \ {s}
  /\ pc' = "save" /\ busy' = {s}
  /\ UNCHANGED <<store, blob, failed, pin, locked, dropped, told, exported, next, faults>>

\* _kc_del tells nobody when the store refuses.
Deleted(S) == kc' = [s \in Secret |-> IF s \in S /\ Writes THEN 0 ELSE kc[s]]

\* _clear_broker_conn
Clear(s) ==
  /\ pc = "run" /\ ~locked /\ want[s] # 0
  /\ Deleted({s}) /\ mem' = [mem EXCEPT ![s] = 0] /\ want' = [want EXCEPT ![s] = 0]
  /\ dropped' = dropped \union {s}
  /\ odd' = IF kc'[s] = 0 THEN odd ELSE odd \union {s}
  /\ pc' = "save" /\ busy' = {s}
  /\ UNCHANGED <<store, blob, failed, pin, locked, told, exported, next, now, faults>>

\* _pin_wipe_reset: the file is not written, so the blob stays and may come back
\* at the next start; so may what the store did not delete.
Wipe ==
  /\ pc = "run" /\ Some(want) # {}
  /\ Deleted(Secret) /\ mem' = Empty /\ want' = Empty
  /\ odd' = odd \union Some(kc') \union Some(blob)
  /\ UNCHANGED <<store, blob, failed, pin, locked, dropped, told, exported, pc, next, busy,
                 now, faults>>

Export ==
  /\ pc = "run" /\ exported' = [s \in Secret |-> Used(s)] /\ exported' # exported
  /\ UNCHANGED <<stored, session, pc, next, busy, history>>

\* A key the file does not have is gone from memory, not from the store.
Import ==
  /\ pc = "run" /\ Some(exported) # {}
  /\ mem' = [s \in Secret |->
       IF s = "field" THEN exported[s]
       ELSE IF exported[s] = 0 THEN mem[s] ELSE IF store = "open" THEN 0 ELSE exported[s]]
  /\ kc' = IF Writes /\ exported["f2"] # 0 THEN [kc EXCEPT !["f2"] = exported["f2"]] ELSE kc
  /\ want' = exported /\ odd' = odd \union (Secret \ Some(exported))
  /\ pc' = "save" /\ busy' = Secret
  /\ UNCHANGED <<store, blob, failed, pin, locked, dropped, told, exported, next, now, faults>>

\* A change of any other setting.
Save ==
  /\ pc = "run" /\ pc' = "save"
  /\ UNCHANGED <<stored, session, exported, next, busy, history>>

-----------------------------------------------------------------------------
(* _save_full *)

\* What was in memory and the store did not take.
Refused == IF store = "open" THEN {} ELSE Some(mem)

\* _enc_in_memory
InMemory(s) == Used(s) # 0

\* Mutant of Carried: the blob on disk is not merged.
CarriedNone == Empty

\* Of the blob on disk: what is neither in memory nor removed.
Carried == [s \in Secret |-> IF InMemory(s) \/ s \in dropped THEN 0 ELSE blob[s]]

SaveKeys ==
  /\ pc = "save" /\ pc' = "write"
  /\ kc' = [s \in Secret |-> IF Writes /\ mem[s] # 0 THEN mem[s] ELSE kc[s]]
  /\ mem' = IF store = "open" THEN [mem EXCEPT !["f2"] = 0] ELSE mem
  /\ LET old == IF locked THEN failed ELSE {}
         kept == IF locked THEN blob ELSE Empty IN
     \/ /\ Refused = {} /\ next' = [blob |-> kept, failed |-> old] /\ UNCHANGED <<pin, told>>
     \/ /\ Refused # {} /\ pin' = TRUE /\ UNCHANGED told
        /\ next' = [blob |-> [s \in Secret |-> IF s \in Refused THEN mem[s] ELSE Carried[s]],
                    failed |-> {}]
     \/ /\ Refused # {} /\ ~pin /\ UNCHANGED pin         \* the member gave no PIN
        /\ next' = [blob |-> kept, failed |-> old \union Refused]
        /\ told' = told \union Refused
  /\ UNCHANGED <<store, blob, failed, locked, dropped, exported, busy, history>>

\* _write_cfg_atomic; a file that could not be written is told.
Write ==
  /\ pc = "write" /\ pc' = "run" /\ next' = NoNext /\ busy' = {}
  /\ \/ blob' = next.blob /\ failed' = next.failed /\ Never /\ UNCHANGED odd
     \/ Fails /\ odd' = odd \union busy \union Refused /\ UNCHANGED <<blob, failed>>
  /\ UNCHANGED <<store, kc, session, exported, want, now>>

-----------------------------------------------------------------------------
StoreChanges ==
  /\ store' \in Stores \ {store}
  /\ UNCHANGED <<kc, blob, failed, session, exported, pc, next, busy, history>>

\* The app is closed, or stops in the middle of a change.
Stop ==
  /\ pc # "down" /\ pc' = "down"
  /\ IF pc = "run" THEN Never /\ UNCHANGED odd
     ELSE Fails /\ odd' = odd \union busy \union Some(mem)
  /\ mem' = Empty /\ pin' = FALSE /\ locked' = FALSE /\ dropped' = {} /\ told' = {}
  /\ next' = NoNext /\ busy' = {}
  /\ UNCHANGED <<stored, exported, want, now>>

Next ==
  \/ Start \/ Wipe \/ Export \/ Import \/ Save \/ SaveKeys \/ Write
  \/ StoreChanges \/ Stop
  \/ \E s \in Secret : Enter(s) \/ Clear(s)

Spec == Init /\ [][Next]_vars

-----------------------------------------------------------------------------
\* A key that was saved is there or the member was told to enter it again, and
\* a key that was removed is gone.  Exceptions are a change the file or the
\* store refused, a stop within a change, a field whose store was shut when the
\* app started, a key already told to be entered again, an import without the
\* key, and the blob that a wipe leaves behind.  That there is a key says
\* nothing of its being the latest.
SecretKept ==
  pc = "run" /\ Reads => \A s \in Secret \ odd :
    IF want[s] # 0 THEN Used(s) # 0 \/ s \in told ELSE Used(s) = 0
=============================================================================
