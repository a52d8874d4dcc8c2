--------------------------- MODULE SettingsCenter ---------------------------
(***************************************************************************)
(* The settings center (config/settings.go) behind PUT /api/settings       *)
(* (webapi/deps.go) with its subscribers (app/production.go).  Update      *)
(* copies the snapshot under the lock, and merges, validates and writes    *)
(* the row without it; then it replaces the snapshot and calls the         *)
(* subscribers, who read the snapshot again.  One scope, of some fields;   *)
(* the scopes share nothing.                                               *)
(***************************************************************************)
EXTENDS Integers, FiniteSets, Functions

CONSTANTS
  Requests,    \* PUT requests
  Fields,      \* of the scope
  Values, Default,
  Valid(_),    \* Validate: whether the fields fit together
  MaxUpdates, MaxRestarts \* bounds

ASSUME SettingsAssumption ==
  /\ Default \in Values
  /\ Valid([f \in Fields |-> Default])   \* settings_test.go

VARIABLES
  row,      \* the stored settings, partial if an older program wrote them
  loaded,   \* the snapshot
  applied,  \* what the subscriber took over: engine parameters, AI provider
  put,      \* put[q]: where the request is, its patch and its copy
  written,  \* history: the last acknowledged value of each field
  mixed,    \* history: two updates were under way at once, since the last restart
  unsure,   \* history: a write that was answered by an error may have taken effect
  updates, restarts

settingsVars == <<row, loaded, applied, put, written, mixed, unsure, updates, restarts>>

Merged(old, patch) == [f \in Fields |-> IF f \in DOMAIN patch THEN patch[f] ELSE old[f]]
Defaults == [f \in Fields |-> Default]
Patches == UNION {[s -> Values] : s \in SUBSET Fields}
NoPut == [at |-> "idle", patch |-> Restrict(Defaults, {}), next |-> Defaults]
Busy == {q \in Requests : put[q].at # "idle"}

(* Load, then the parameters the engine is built with.                     *)
SettingsInit ==
  /\ row \in {Restrict(Defaults, s) : s \in SUBSET Fields}
  /\ loaded = Merged(Defaults, row) /\ applied = loaded /\ written = loaded
  /\ put = [q \in Requests |-> NoPut]
  /\ mixed = FALSE /\ unsure = FALSE /\ updates = 0 /\ restarts = 0
-----------------------------------------------------------------------------
(* The copy, under the lock, with the patch applied to it.                 *)
\* Mutant: the fields the patch leaves out get their defaults.
PatchedDefaults(patch) == Merged(Defaults, patch)

Patched(patch) == Merged(loaded, patch)

BeginUpdate(q) ==
  /\ put[q].at = "idle" /\ updates < MaxUpdates
  /\ \E patch \in Patches :
       put' = [put EXCEPT ![q] = [at |-> "copied", patch |-> patch, next |-> Patched(patch)]]
  /\ updates' = updates + 1
  /\ mixed' = (mixed \/ Busy # {})
  /\ UNCHANGED <<row, loaded, applied, written, unsure, restarts>>

Accepted(q) == Valid(put[q].next)

Reject(q) ==
  /\ put[q].at = "copied" /\ ~Accepted(q)
  /\ put' = [put EXCEPT ![q] = NoPut]
  /\ UNCHANGED <<row, loaded, applied, written, mixed, unsure, updates, restarts>>

WriteRow(q) ==
  /\ put[q].at = "copied" /\ Accepted(q)
  /\ row' = put[q].next
  /\ put' = [put EXCEPT ![q].at = "stored"]
  /\ UNCHANGED <<loaded, applied, written, mixed, unsure, updates, restarts>>

(* The statement fails, or its answer is lost.                             *)
WriteFails(q) ==
  /\ put[q].at = "copied" /\ Accepted(q)
  /\ row' \in {row, put[q].next} /\ unsure' = (unsure \/ row' # row)
  /\ put' = [put EXCEPT ![q] = NoPut]
  /\ UNCHANGED <<loaded, applied, written, mixed, updates, restarts>>

Replace(q) ==
  /\ put[q].at = "stored"
  /\ loaded' = put[q].next
  /\ put' = [put EXCEPT ![q].at = "notifying"]
  /\ written' = Merged(written, put[q].patch)
  /\ UNCHANGED <<row, applied, mixed, unsure, updates, restarts>>

(* The callback reads the snapshot in one step and stores what it makes of *)
(* it in another.                                                          *)
Notify(q) ==
  /\ put[q].at = "notifying"
  /\ put' = [put EXCEPT ![q].at = "applying", ![q].next = loaded]
  /\ UNCHANGED <<row, loaded, applied, written, mixed, unsure, updates, restarts>>

Apply(q) ==
  /\ put[q].at = "applying"
  /\ applied' = put[q].next
  /\ put' = [put EXCEPT ![q] = NoPut]
  /\ UNCHANGED <<row, loaded, written, mixed, unsure, updates, restarts>>

(* The process ends; the next one loads the row.                           *)
RestartSettings ==
  /\ restarts < MaxRestarts /\ restarts' = restarts + 1
  /\ loaded' = Merged(Defaults, row) /\ applied' = loaded' /\ written' = loaded'
  /\ put' = [q \in Requests |-> NoPut] /\ mixed' = FALSE /\ unsure' = FALSE
  /\ UNCHANGED <<row, updates>>

SettingsNext ==
  \/ \E q \in Requests :
       BeginUpdate(q) \/ Reject(q) \/ WriteRow(q) \/ WriteFails(q) \/ Replace(q) \/ Notify(q) \/ Apply(q)
  \/ RestartSettings
-----------------------------------------------------------------------------
(* PROPERTIES *)

(* When no request is under way, row, snapshot and subscriber agree, and   *)
(* every acknowledged field has its last value (settings.go:219-273,       *)
(* field-level merge): unless two updates were under way at once, or a     *)
(* statement took effect behind an error.  Even then what is stored and    *)
(* what is in memory was validated as a whole: fields of two updates are   *)
(* never combined without it.                                              *)
SettingsAgree ==
  /\ Busy = {} /\ ~mixed =>
       /\ applied = loaded /\ loaded = written
       /\ ~unsure => Merged(Defaults, row) = loaded
  /\ Valid(loaded) /\ Valid(Merged(Defaults, row)) /\ Valid(applied)
=============================================================================
