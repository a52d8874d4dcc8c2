--------------------------- MODULE Operation_proofs ---------------------------
(***************************************************************************)
(* What is proved of the program's operation.  The console: what its run   *)
(* checks on a small instance, for any requests, fields, viewers, callers, *)
(* addresses and capacities (settings, sign-in locks and audit, the log's  *)
(* viewers, the login wizard).  The process: supervision, backoff, exit    *)
(* code and shutdown of Lifecycle, for any number of services.             *)
(***************************************************************************)
EXTENDS ConsoleMC, Lifecycle, FiniteSetTheorems, SequenceTheorems, WellFoundedInduction, TLAPS

(* Settings.                                                               *)
Rows == [Fields -> Values]

SettingsTyped ==
  /\ row \in Patches
  /\ loaded \in Rows /\ applied \in Rows /\ written \in Rows
  /\ put \in [Requests -> [at : {"idle", "copied", "stored", "notifying", "applying"},
                           patch : Patches, next : Rows]]
  /\ mixed \in BOOLEAN /\ unsure \in BOOLEAN

(* What is stored, in memory, or about to be, was validated as a whole.    *)
Validated ==
  /\ Valid(loaded) /\ Valid(applied) /\ Valid(Merged(Defaults, row))
  /\ \A q \in Requests : put[q].at \in {"stored", "applying"} => Valid(put[q].next)

(* An update that is alone carries everything before it, at every step.    *)
AloneAgrees ==
  ~ mixed =>
    /\ \A p, q \in Busy : p = q
    /\ Busy = {} => applied = loaded /\ loaded = written
    /\ ~ unsure /\ (\A q \in Busy : put[q].at # "stored") => Merged(Defaults, row) = loaded
    /\ \A q \in Busy :
         /\ put[q].at \in {"copied", "stored"} =>
              applied = loaded /\ loaded = written /\ put[q].next = Merged(loaded, put[q].patch)
         /\ put[q].at = "stored" => Merged(Defaults, row) = put[q].next
         /\ put[q].at \in {"notifying", "applying"} => loaded = written
         /\ put[q].at = "applying" => put[q].next = loaded

SettingsIInv == SettingsTyped /\ Validated /\ AloneAgrees

(* The web server.                                                         *)
Stages == {"unsent", "refused", "asked", "known", "serving", "audit", "answered", "cut"}

WebTyped ==
  /\ clock \in Nat
  /\ limiter \in [Sources -> [count : Nat, until : Nat]]
  /\ req \in [WebRequests -> [at : Stages, kind : {"", "login", "read", "write", "logout"},
                              from : Sources \cup {""}, at0 : Nat, token : Nat, effect : BOOLEAN]]
  /\ locks \subseteq [ip : Sources, set : Nat, until : Nat]

(* A request is of the kind its place is for, and takes effect late.       *)
RequestsSound ==
  \A r \in WebRequests :
    /\ req[r].at0 <= clock
    /\ req[r].at \in {"asked", "known"} => req[r].kind = "login" /\ req[r].from \in Sources
    /\ req[r].at = "serving" => req[r].kind \in {"read", "write", "logout"}
    /\ req[r].effect => req[r].at \in {"audit", "answered", "cut"}

(* A lock that nobody has taken away is in the limiter for as long.        *)
LocksStand ==
  \A k \in locks :
    /\ k.set <= clock /\ k.until = k.set + Lockout
    /\ clock < k.until => limiter[k.ip].until >= k.until

WebIInv == WebTyped /\ RequestsSound /\ LocksStand /\ LockHolds /\ WritesAudited

(* The log.                                                                *)
LogTyped ==
  /\ appended \in Nat /\ ring \in Seq(Nat) /\ subs \subseteq Viewers /\ ringClosed \in BOOLEAN
  /\ logger \in [Loggers -> [rec : Nat, to : SUBSET Viewers]]
  /\ viewer \in [Viewers -> [stage : {"away", "subscribed", "replay", "live", "gone"},
                             chan : Seq(Nat), replay : Seq(Nat), filter : Filters \cup {{}}]]
  /\ shown \in [Viewers -> Seq(Nat)] /\ missed \in [Viewers -> SUBSET Nat]

(* The ring holds the last records, all of them and in order.              *)
RingSound == \A k \in DOMAIN ring : ring[k] = appended - Len(ring) + k

(* Every record is in the hands of one logger at most.                     *)
Held(l) == logger[l].to # {}
LoggersSound ==
  /\ \A l \in Loggers : Held(l) => logger[l].rec <= appended
  /\ \A l, m \in Loggers : Held(l) /\ Held(m) /\ logger[l].rec = logger[m].rec => l = m

(* What a viewer has been shown, has missed, and has coming to it by its   *)
(* replay, in its channel, and riding with the loggers.                    *)
Riding(v) == {logger[l].rec : l \in {k \in Loggers : v \in logger[k].to}}
Has(sh, ms, rp, ch, rd) == ToSet(sh) \cup ms \cup ToSet(rp) \cup ToSet(ch) \cup rd
HasNow(v) == Has(shown[v], missed[v], viewer[v].replay, viewer[v].chan, Riding(v))
Upward(s, app) == \A i \in s : i .. app \subseteq s

(* A viewer before its replay has been shown nothing, and one who has not  *)
(* come has nothing.  A record comes once by the replay and once by the    *)
(* stream.                                                                 *)
One(p) == IF p THEN 1 ELSE 0
Once(i, s) == IF i \in s THEN 1 ELSE 0
Distinct(s) == \A j, k \in DOMAIN s : s[j] = s[k] => j = k
Places(s, i) == {k \in DOMAIN s : s[k] = i}
Fine(stage, app, sh, ms, rp, ch, rd) ==
  /\ \A i \in Has(sh, ms, rp, ch, rd) : i <= app
  /\ stage \in {"away", "subscribed"} => sh = <<>> /\ rp = <<>>
  /\ stage = "away" => ms = {} /\ ch = <<>> /\ rd = {}
  /\ Distinct(ch) /\ Distinct(rp) /\ ToSet(ch) \cap rd = {}
  /\ \A i \in Nat : Cardinality(Places(sh, i)) + Once(i, ToSet(rp)) + Once(i, ToSet(ch) \cup rd) <= 2

ViewerFine(v) ==
  Fine(viewer[v].stage, appended, shown[v], missed[v], viewer[v].replay, viewer[v].chan, Riding(v))

(* One who is there is subscribed and has no gap.                          *)
ViewerWhole(v) ==
  /\ viewer[v].stage = "away" => v \notin subs
  /\ ~ ringClosed /\ viewer[v].stage \in {"subscribed", "replay", "live"} =>
       v \in subs /\ Upward(HasNow(v), appended)

LogIInv ==
  /\ LogTyped /\ RingSound /\ LoggersSound
  /\ \A v \in Viewers : ViewerFine(v) /\ ViewerWhole(v)

(* The login wizard.                                                       *)
Names == Callers \cup {0}
Words == {"", "start failed", "ok", "password needed", "wrong", "not ready", "timeout"}
Runs == {"starting", "code", "signing", "password", "checking", "telling", "returned", "ended"}
Inputs == {<<>>} \cup {<<c>> : c \in Callers}
Answers == [what : Words, by : Names]
Taken == {<<>>} \cup {<<a>> : a \in Answers}
Logins == [run : Runs, state : {"", "await_code", "await_password", "authorized", "failed"},
           ctx : BOOLEAN, asked : BOOLEAN, old : BOOLEAN, code : Inputs, password : Inputs,
           by : Names, told : Words, res : Taken, late : Nat, crossed : BOOLEAN]
Calls == [at : {"idle", "sending", "waiting", "answered"}, id : Nat, kind : {"code", "password"},
          answer : Answers]

WizardTyped ==
  /\ logins \in Seq(Logins) /\ sessions \subseteq DOMAIN logins
  /\ call \in [Callers -> Calls]
  /\ \A c \in Callers : call[c].at # "idle" => call[c].id \in DOMAIN logins

(* A login still works on inputs until it returns, or has failed to start. *)
Works(r) == r.run \in {"starting", "code", "signing", "password", "checking"} \/ (r.run = "telling" /\ r.by # 0)
InputsOf(r) ==
  One(r.code # <<>>) + One(r.password # <<>>) + One(r.run \in {"signing", "checking", "telling"}) + One(r.res # <<>>)
Waiting(i) == {c \in Callers : call[c].at = "waiting" /\ call[c].id = i}

(* Every input of a login that works belongs to a call that waits, or to   *)
(* one that gave up.                                                       *)
Balanced(r, n) == Works(r) => InputsOf(r) = n + r.late

(* "ok" is told by an authorized login only, and it is the last word.      *)
Finished(r) == r.state = "authorized" /\ r.run \in {"returned", "ended"}
OkIsLast(r) ==
  /\ r.run = "telling" => /\ r.told = "ok" => r.state = "authorized"
                          /\ r.by = 0 => r.res = <<>> /\ r.told # "password needed"
  /\ r.run \in {"signing", "checking"} => r.by # 0
  /\ r.run = "starting" => r.by = 0 /\ r.res = <<>>
  /\ r.res # <<>> /\ r.res[1].what = "ok" => Finished(r)

(* Nobody gave up and nobody came between: what the login holds belongs to *)
(* the one call in it.                                                     *)
Quiet(r) == r.late = 0 /\ ~ r.crossed
OwnInputs(r, waiting, inStep) ==
  Quiet(r) =>
    /\ \A c, d \in inStep : c = d
    /\ Works(r) => /\ \A c \in Callers : r.code = <<c>> \/ r.password = <<c>> => c \in waiting
                   /\ r.run \in {"signing", "checking", "telling"} => r.by \in waiting
    /\ r.res # <<>> => r.res[1].by = 0 \/ r.res[1].by \in waiting

LoginSound(r, waiting, inStep) ==
  OkIsLast(r) /\ Balanced(r, Cardinality(waiting)) /\ OwnInputs(r, waiting, inStep)

AnsweredRight(c) ==
  call[c].at = "answered" =>
    /\ call[c].answer.by = c \/ call[c].answer.by = 0 \/ ~ Quiet(logins[call[c].id])
    /\ call[c].answer.what = "ok" => Finished(logins[call[c].id])

WizardIInv ==
  /\ WizardTyped
  /\ \A i \in DOMAIN logins : LoginSound(logins[i], Waiting(i), InStep(i))
  /\ \A c \in Callers : AnsweredRight(c)

ConsoleIInv == SettingsIInv /\ WebIInv /\ LogIInv /\ WizardIInv
-----------------------------------------------------------------------------
(* The settings.                                                           *)

LEMMA MergedType ==
  ASSUME NEW old \in Rows, NEW patch \in Patches
  PROVE  Merged(old, patch) \in Rows
<1>1. PICK s \in SUBSET Fields : patch \in [s -> Values]
  BY DEF Patches
<1>2. \A f \in Fields : (IF f \in DOMAIN patch THEN patch[f] ELSE old[f]) \in Values
  BY <1>1 DEF Rows
<1> QED
  BY <1>2 DEF Merged, Rows

LEMMA MergedWhole ==
  ASSUME NEW old, NEW patch \in Rows
  PROVE  Merged(old, patch) = patch /\ patch \in Patches
<1>1. DOMAIN patch = Fields /\ patch = [f \in Fields |-> patch[f]]
  BY DEF Rows
<1>2. Merged(old, patch) = [f \in Fields |-> patch[f]]
  BY <1>1 DEF Merged
<1>3. patch \in Patches
  BY DEF Patches, Rows
<1> QED
  BY <1>1, <1>2, <1>3

LEMMA DefaultsType ==
  /\ Defaults \in Rows /\ Valid(Defaults)
  /\ \A s \in SUBSET Fields : Restrict(Defaults, s) \in Patches /\ Merged(Defaults, Restrict(Defaults, s)) = Defaults
<1>1. Defaults \in Rows /\ Valid(Defaults)
  BY SettingsAssumption DEF Defaults, Rows
<1>2. ASSUME NEW s \in SUBSET Fields
      PROVE  Restrict(Defaults, s) \in Patches /\ Merged(Defaults, Restrict(Defaults, s)) = Defaults
  <2>1. Restrict(Defaults, s) = [f \in s |-> Default]
    BY DEF Restrict, Defaults
  <2>2. Restrict(Defaults, s) \in [s -> Values]
    BY <2>1, SettingsAssumption
  <2>3. Merged(Defaults, Restrict(Defaults, s)) = [f \in Fields |-> Default]
    BY <2>1 DEF Merged, Defaults
  <2> QED
    BY <2>2, <2>3 DEF Patches, Defaults
<1> QED
  BY <1>1, <1>2

LEMMA NoPutIs ==
  /\ NoPut \in [at : {"idle", "copied", "stored", "notifying", "applying"}, patch : Patches, next : Rows]
  /\ NoPut.at = "idle"
BY DefaultsType DEF NoPut

LEMMA InitSettings == SettingsInit => SettingsIInv
<1> SUFFICES ASSUME SettingsInit PROVE SettingsIInv
  OBVIOUS
<1>1. PICK s \in SUBSET Fields : row = Restrict(Defaults, s)
  BY DEF SettingsInit
<1>2. row \in Patches /\ Merged(Defaults, row) = Defaults
  BY <1>1, DefaultsType
<1>3. loaded = Defaults /\ applied = Defaults /\ written = Defaults /\ Merged(Defaults, row) = Defaults
  BY <1>2 DEF SettingsInit
<1>4. \A q \in Requests : put[q] = NoPut
  BY DEF SettingsInit
<1>5. SettingsTyped
  BY <1>2, <1>3, NoPutIs, DefaultsType DEF SettingsInit, SettingsTyped
<1>6. Validated
  BY <1>3, <1>4, NoPutIs, DefaultsType DEF Validated
<1>7. AloneAgrees
  BY <1>3, <1>4, NoPutIs DEF AloneAgrees, Busy
<1> QED
  BY <1>5, <1>6, <1>7 DEF SettingsIInv

\* Only the request's own place changes; Puts names the values it may take.
Puts == [at : {"idle", "copied", "stored", "notifying", "applying"}, patch : Patches, next : Rows]

LEMMA BeginUpdateKept == ASSUME SettingsIInv, NEW q \in Requests, BeginUpdate(q) PROVE SettingsIInv'
<1>1. PICK patch \in Patches, p \in Puts :
        p = [at |-> "copied", patch |-> patch, next |-> Merged(loaded, patch)] /\ put' = [put EXCEPT ![q] = p]
  BY MergedType DEF SettingsIInv, SettingsTyped, BeginUpdate, Patched, Puts
<1>2. p.at = "copied" /\ p.patch = patch /\ p.next = Merged(loaded, patch)
  BY <1>1
<1>3. put \in [Requests -> Puts]
  BY DEF SettingsIInv, SettingsTyped, Puts
<1>4. put' \in [Requests -> Puts] /\ put'[q] = p /\ \A t \in Requests \ {q} : put'[t] = put[t]
  BY <1>1, <1>3
<1>5. UNCHANGED <<row, loaded, applied, written, unsure>> /\ mixed' = (mixed \/ Busy # {}) /\ put[q].at = "idle"
  BY DEF BeginUpdate
<1>6. SettingsTyped'
  BY <1>4, <1>5 DEF SettingsIInv, SettingsTyped, Puts
<1>7. Validated'
  BY <1>2, <1>4, <1>5 DEF SettingsIInv, Validated, Merged, Defaults
<1>8. AloneAgrees'
  <2> SUFFICES ASSUME ~ mixed' PROVE AloneAgrees'
    BY DEF AloneAgrees
  <2>1. ~ mixed /\ Busy = {}
    BY <1>5
  <2>2. Busy' = {q}
    BY <1>2, <1>4, <2>1 DEF Busy
  <2>3. applied = loaded /\ loaded = written /\ (~ unsure => Merged(Defaults, row) = loaded)
    BY <2>1 DEF SettingsIInv, AloneAgrees
  <2>4. (Merged(Defaults, row))' = Merged(Defaults, row) /\ (Merged(loaded, put[q].patch))' = Merged(loaded, p.patch)
    BY <1>4, <1>5 DEF Merged, Defaults
  <2> QED
    BY <1>2, <1>4, <1>5, <2>2, <2>3, <2>4 DEF AloneAgrees
<1> QED
  BY <1>6, <1>7, <1>8 DEF SettingsIInv

\* A request leaves, or moves on, and nobody else does.
LEMMA PutMoves ==
  ASSUME SettingsTyped, NEW q \in Requests, NEW p \in Puts, put' = [put EXCEPT ![q] = p]
  PROVE  /\ put' \in [Requests -> Puts] /\ put'[q] = p
         /\ \A t \in Requests \ {q} : put'[t] = put[t]
         /\ \A t \in Requests : t \in Busy' <=> (IF t = q THEN p.at # "idle" ELSE t \in Busy)
<1>1. put \in [Requests -> Puts]
  BY DEF SettingsTyped, Puts
<1> QED
  BY <1>1 DEF Busy

LEMMA Rewritten ==
  ASSUME SettingsTyped, NEW q \in Requests
  PROVE  /\ put[q] \in Puts /\ NoPut \in Puts /\ NoPut.at = "idle"
         /\ \A x \in {"idle", "copied", "stored", "notifying", "applying"} :
              /\ [put[q] EXCEPT !.at = x] \in Puts /\ [put[q] EXCEPT !.at = x].at = x
              /\ [put[q] EXCEPT !.at = x].next = put[q].next
              /\ [put[q] EXCEPT !.at = x].patch = put[q].patch
         /\ [put[q] EXCEPT !.at = "applying", !.next = loaded] \in Puts
BY NoPutIs DEF SettingsTyped, Puts

LEMMA RejectKept == ASSUME SettingsIInv, NEW q \in Requests, Reject(q) PROVE SettingsIInv'
<1>1. put' = [put EXCEPT ![q] = NoPut] /\ UNCHANGED <<row, loaded, applied, written, mixed, unsure>>
      /\ put[q].at = "copied"
  BY DEF Reject
<1>2. /\ put' \in [Requests -> Puts] /\ put'[q] = NoPut /\ NoPut.at = "idle"
      /\ \A t \in Requests \ {q} : put'[t] = put[t]
      /\ \A t \in Requests : t \in Busy' <=> (IF t = q THEN FALSE ELSE t \in Busy)
  BY <1>1, Rewritten, PutMoves DEF SettingsIInv
<1>3. SettingsTyped'
  BY <1>1, <1>2 DEF SettingsIInv, SettingsTyped, Puts
<1>4. Validated'
  BY <1>1, <1>2 DEF SettingsIInv, Validated, Merged, Defaults
<1>5. AloneAgrees'
  <2> SUFFICES ASSUME ~ mixed' PROVE AloneAgrees'
    BY DEF AloneAgrees
  <2>1. q \in Busy /\ \A t \in Busy : t = q
    BY <1>1 DEF Busy, SettingsIInv, AloneAgrees
  <2>2. Busy' = {}
    BY <1>2, <2>1 DEF Busy
  <2>3. applied = loaded /\ loaded = written /\ (~ unsure => Merged(Defaults, row) = loaded)
    BY <1>1, <2>1 DEF SettingsIInv, AloneAgrees
  <2> QED
    BY <1>1, <2>2, <2>3 DEF AloneAgrees, Merged, Defaults
<1> QED
  BY <1>3, <1>4, <1>5 DEF SettingsIInv

LEMMA WriteRowKept == ASSUME SettingsIInv, NEW q \in Requests, WriteRow(q) PROVE SettingsIInv'
<1> DEFINE p == [put[q] EXCEPT !.at = "stored"]
<1>1. put' = [put EXCEPT ![q] = p] /\ UNCHANGED <<loaded, applied, written, mixed, unsure>>
      /\ put[q].at = "copied" /\ row' = put[q].next /\ Valid(put[q].next)
  BY DEF WriteRow, Accepted
<1>2. put[q] \in Puts /\ p \in Puts /\ p.at = "stored" /\ p.next = put[q].next /\ p.patch = put[q].patch
  BY Rewritten DEF SettingsIInv
<1> HIDE DEF p
<1>3. /\ put' \in [Requests -> Puts] /\ put'[q] = p
      /\ \A t \in Requests \ {q} : put'[t] = put[t]
      /\ \A t \in Requests : t \in Busy' <=> (IF t = q THEN TRUE ELSE t \in Busy)
  BY <1>1, <1>2, PutMoves DEF SettingsIInv
<1>4. put[q].next \in Rows /\ row' \in Patches /\ Merged(Defaults, row') = put[q].next
  BY <1>1, <1>2, MergedWhole DEF Puts
<1>5. SettingsTyped'
  BY <1>1, <1>3, <1>4 DEF SettingsIInv, SettingsTyped, Puts
<1>6. (Merged(Defaults, row))' = put[q].next
  BY <1>4 DEF Merged, Defaults
<1>7. Validated'
  BY <1>1, <1>2, <1>3, <1>6 DEF SettingsIInv, Validated
<1>8. AloneAgrees'
  <2> SUFFICES ASSUME ~ mixed' PROVE AloneAgrees'
    BY DEF AloneAgrees
  <2>1. q \in Busy /\ \A t \in Busy : t = q
    BY <1>1 DEF Busy, SettingsIInv, AloneAgrees
  <2>2. Busy' = {q}
    BY <1>3, <2>1 DEF Busy
  <2>3. applied = loaded /\ loaded = written /\ put[q].next = Merged(loaded, put[q].patch)
    BY <1>1, <2>1 DEF SettingsIInv, AloneAgrees
  <2>4. (Merged(loaded, put[q].patch))' = Merged(loaded, put[q].patch)
    BY <1>1, <1>2, <1>3 DEF Merged
  <2> QED
    BY <1>1, <1>2, <1>3, <1>6, <2>2, <2>3, <2>4 DEF AloneAgrees
<1> QED
  BY <1>5, <1>7, <1>8 DEF SettingsIInv

LEMMA WriteFailsKept == ASSUME SettingsIInv, NEW q \in Requests, WriteFails(q) PROVE SettingsIInv'
<1>1. /\ put' = [put EXCEPT ![q] = NoPut] /\ UNCHANGED <<loaded, applied, written, mixed>>
      /\ put[q].at = "copied" /\ row' \in {row, put[q].next} /\ Valid(put[q].next)
      /\ unsure' = (unsure \/ row' # row)
  BY DEF WriteFails, Accepted
<1>2. /\ put' \in [Requests -> Puts] /\ put'[q] = NoPut /\ NoPut.at = "idle"
      /\ \A t \in Requests \ {q} : put'[t] = put[t]
      /\ \A t \in Requests : t \in Busy' <=> (IF t = q THEN FALSE ELSE t \in Busy)
  BY <1>1, Rewritten, PutMoves DEF SettingsIInv
<1>3. put[q].next \in Rows /\ put[q].next \in Patches /\ Merged(Defaults, put[q].next) = put[q].next
  <2>1. put[q].next \in Rows
    BY DEF SettingsIInv, SettingsTyped
  <2> QED
    BY <2>1, MergedWhole
<1>4. unsure' \in BOOLEAN /\ row' \in Patches
  BY <1>1, <1>3 DEF SettingsIInv, SettingsTyped
<1>5. SettingsTyped'
  BY <1>1, <1>2, <1>4 DEF SettingsIInv, SettingsTyped, Puts
<1>6. (Merged(Defaults, row))' = Merged(Defaults, row') /\ Valid(Merged(Defaults, row'))
  BY <1>1, <1>3 DEF SettingsIInv, Validated, Merged, Defaults
<1>7. Validated'
  BY <1>1, <1>2, <1>6 DEF SettingsIInv, Validated
<1>8. AloneAgrees'
  <2> SUFFICES ASSUME ~ mixed' PROVE AloneAgrees'
    BY DEF AloneAgrees
  <2>1. q \in Busy /\ \A t \in Busy : t = q
    BY <1>1 DEF Busy, SettingsIInv, AloneAgrees
  <2>2. Busy' = {}
    BY <1>2, <2>1 DEF Busy
  <2>3. applied = loaded /\ loaded = written /\ (~ unsure => Merged(Defaults, row) = loaded)
    BY <1>1, <2>1 DEF SettingsIInv, AloneAgrees
  <2>4. ~ unsure' => Merged(Defaults, row') = loaded
    BY <1>1, <2>3
  <2> QED
    BY <1>1, <1>6, <2>2, <2>3, <2>4 DEF AloneAgrees
<1> QED
  BY <1>5, <1>7, <1>8 DEF SettingsIInv

LEMMA ReplaceKept == ASSUME SettingsIInv, NEW q \in Requests, Replace(q) PROVE SettingsIInv'
<1> DEFINE p == [put[q] EXCEPT !.at = "notifying"]
<1>1. /\ put' = [put EXCEPT ![q] = p] /\ UNCHANGED <<row, applied, mixed, unsure>>
      /\ put[q].at = "stored" /\ loaded' = put[q].next /\ written' = Merged(written, put[q].patch)
  BY DEF Replace
<1>2. put[q] \in Puts /\ p \in Puts /\ p.at = "notifying" /\ p.next = put[q].next /\ p.patch = put[q].patch
  BY Rewritten DEF SettingsIInv
<1> HIDE DEF p
<1>3. /\ put' \in [Requests -> Puts] /\ put'[q] = p
      /\ \A t \in Requests \ {q} : put'[t] = put[t]
      /\ \A t \in Requests : t \in Busy' <=> (IF t = q THEN TRUE ELSE t \in Busy)
  BY <1>1, <1>2, PutMoves DEF SettingsIInv
<1>4. loaded' \in Rows /\ written' \in Rows
  BY <1>1, <1>2, MergedType DEF Puts, SettingsIInv, SettingsTyped
<1>5. SettingsTyped'
  BY <1>1, <1>3, <1>4 DEF SettingsIInv, SettingsTyped, Puts
<1>6. (Merged(Defaults, row))' = Merged(Defaults, row)
  BY <1>1 DEF Merged, Defaults
<1>7. Validated'
  BY <1>1, <1>2, <1>3, <1>6 DEF SettingsIInv, Validated
<1>8. AloneAgrees'
  <2> SUFFICES ASSUME ~ mixed' PROVE AloneAgrees'
    BY DEF AloneAgrees
  <2>1. q \in Busy /\ \A t \in Busy : t = q
    BY <1>1 DEF Busy, SettingsIInv, AloneAgrees
  <2>2. Busy' = {q}
    BY <1>3, <2>1 DEF Busy
  <2>3. loaded = written /\ put[q].next = Merged(loaded, put[q].patch) /\ Merged(Defaults, row) = put[q].next
    BY <1>1, <2>1 DEF SettingsIInv, AloneAgrees
  <2>4. loaded' = written' /\ (Merged(Defaults, row))' = loaded'
    BY <1>1, <1>6, <2>3
  <2> QED
    BY <1>2, <1>3, <2>2, <2>4 DEF AloneAgrees
<1> QED
  BY <1>5, <1>7, <1>8 DEF SettingsIInv

LEMMA NotifyKept == ASSUME SettingsIInv, NEW q \in Requests, Notify(q) PROVE SettingsIInv'
<1>1. PICK p \in Puts : /\ put' = [put EXCEPT ![q] = p] /\ p.at = "applying" /\ p.next = loaded
  <2>1. put \in [Requests -> Puts] /\ put' = [put EXCEPT ![q].at = "applying", ![q].next = loaded]
    BY DEF Notify, SettingsIInv, SettingsTyped, Puts
  <2>2. [put[q] EXCEPT !.at = "applying", !.next = loaded] \in Puts
    BY Rewritten DEF SettingsIInv
  <2>3. put' = [put EXCEPT ![q] = [put[q] EXCEPT !.at = "applying", !.next = loaded]]
    BY <2>1
  <2> QED
    BY <2>2, <2>3, <2>1 DEF Puts
<1>2. UNCHANGED <<row, loaded, applied, written, mixed, unsure>> /\ put[q].at = "notifying"
  BY DEF Notify
<1>3. /\ put' \in [Requests -> Puts] /\ put'[q] = p
      /\ \A t \in Requests \ {q} : put'[t] = put[t]
      /\ \A t \in Requests : t \in Busy' <=> (IF t = q THEN TRUE ELSE t \in Busy)
  BY <1>1, PutMoves DEF SettingsIInv
<1>4. SettingsTyped'
  BY <1>2, <1>3 DEF SettingsIInv, SettingsTyped, Puts
<1>5. Validated'
  BY <1>1, <1>2, <1>3 DEF SettingsIInv, Validated, Merged, Defaults
<1>6. AloneAgrees'
  <2> SUFFICES ASSUME ~ mixed' PROVE AloneAgrees'
    BY DEF AloneAgrees
  <2>1. q \in Busy /\ \A t \in Busy : t = q
    BY <1>2 DEF Busy, SettingsIInv, AloneAgrees
  <2>2. Busy' = {q}
    BY <1>3, <2>1 DEF Busy
  <2>3. loaded = written /\ (~ unsure => Merged(Defaults, row) = loaded)
    BY <1>2, <2>1 DEF SettingsIInv, AloneAgrees
  <2> QED
    BY <1>1, <1>2, <1>3, <2>2, <2>3 DEF AloneAgrees, Merged, Defaults
<1> QED
  BY <1>4, <1>5, <1>6 DEF SettingsIInv

LEMMA ApplyKept == ASSUME SettingsIInv, NEW q \in Requests, Apply(q) PROVE SettingsIInv'
<1>1. put' = [put EXCEPT ![q] = NoPut] /\ UNCHANGED <<row, loaded, written, mixed, unsure>>
      /\ put[q].at = "applying" /\ applied' = put[q].next
  BY DEF Apply
<1>2. /\ put' \in [Requests -> Puts] /\ put'[q] = NoPut /\ NoPut.at = "idle"
      /\ \A t \in Requests \ {q} : put'[t] = put[t]
      /\ \A t \in Requests : t \in Busy' <=> (IF t = q THEN FALSE ELSE t \in Busy)
  BY <1>1, Rewritten, PutMoves DEF SettingsIInv
<1>3. put[q] \in Puts
  BY Rewritten DEF SettingsIInv
<1>4. SettingsTyped'
  BY <1>1, <1>2, <1>3 DEF SettingsIInv, SettingsTyped, Puts
<1>5. Validated'
  BY <1>1, <1>2 DEF SettingsIInv, Validated, Merged, Defaults
<1>6. AloneAgrees'
  <2> SUFFICES ASSUME ~ mixed' PROVE AloneAgrees'
    BY DEF AloneAgrees
  <2>1. q \in Busy /\ \A t \in Busy : t = q
    BY <1>1 DEF Busy, SettingsIInv, AloneAgrees
  <2>2. Busy' = {}
    BY <1>2, <2>1 DEF Busy
  <2>3. put[q].next = loaded /\ loaded = written /\ (~ unsure => Merged(Defaults, row) = loaded)
    BY <1>1, <2>1 DEF SettingsIInv, AloneAgrees
  <2> QED
    BY <1>1, <2>2, <2>3 DEF AloneAgrees, Merged, Defaults
<1> QED
  BY <1>4, <1>5, <1>6 DEF SettingsIInv

LEMMA RestartSettingsKept == ASSUME SettingsIInv, RestartSettings PROVE SettingsIInv'
<1>1. /\ loaded' = Merged(Defaults, row) /\ applied' = loaded' /\ written' = loaded' /\ row' = row
      /\ put' = [q \in Requests |-> NoPut] /\ mixed' = FALSE /\ unsure' = FALSE
  BY DEF RestartSettings
<1>2. loaded' \in Rows /\ Valid(loaded')
  BY <1>1, DefaultsType, MergedType DEF SettingsIInv, SettingsTyped, Validated
<1>3. (Merged(Defaults, row))' = loaded'
  BY <1>1 DEF Merged, Defaults
<1>4. SettingsTyped'
  BY <1>1, <1>2, NoPutIs DEF SettingsIInv, SettingsTyped
<1>5. Validated'
  BY <1>1, <1>2, <1>3, NoPutIs DEF Validated
<1>6. AloneAgrees'
  <2>1. Busy' = {}
    BY <1>1, NoPutIs DEF Busy
  <2> QED
    BY <1>1, <1>3, <2>1 DEF AloneAgrees
<1> QED
  BY <1>4, <1>5, <1>6 DEF SettingsIInv

LEMMA SettingsStep == SettingsIInv /\ [SettingsNext]_settingsVars => SettingsIInv'
<1> SUFFICES ASSUME SettingsIInv, [SettingsNext]_settingsVars PROVE SettingsIInv'
  OBVIOUS
<1>1. CASE UNCHANGED settingsVars
  BY <1>1 DEF settingsVars, SettingsIInv, SettingsTyped, Validated, AloneAgrees, Busy, Merged, Defaults
<1>2. CASE SettingsNext
  BY <1>2, BeginUpdateKept, RejectKept, WriteRowKept, WriteFailsKept, ReplaceKept, NotifyKept,
     ApplyKept, RestartSettingsKept DEF SettingsNext
<1> QED
  BY <1>1, <1>2

LEMMA SettingsInvariance == SettingsInit /\ [][SettingsNext]_settingsVars => []SettingsIInv
BY InitSettings, SettingsStep, PTL

LEMMA SettingsIInvAgrees == SettingsIInv => SettingsAgree
BY DEF SettingsIInv, Validated, AloneAgrees, SettingsAgree
-----------------------------------------------------------------------------
(* The web server.                                                         *)
Reqs == [at : Stages, kind : {"", "login", "read", "write", "logout"},
         from : Sources \cup {""}, at0 : Nat, token : Nat, effect : BOOLEAN]

LEMMA InitWeb == WebInit => WebIInv
<1> SUFFICES ASSUME WebInit PROVE WebIInv
  OBVIOUS
<1>1. /\ NoRequest \in Reqs /\ NoFails \in [count : Nat, until : Nat]
      /\ NoRequest.at = "unsent" /\ NoRequest.at0 = 0 /\ NoRequest.effect = FALSE
  BY DEF NoRequest, NoFails, Reqs, Stages
<1>2. /\ clock = 0 /\ locks = {}
      /\ req = [r \in WebRequests |-> NoRequest] /\ limiter = [ip \in Sources |-> NoFails]
  BY DEF WebInit
<1>3. WebTyped
  <2>1. req \in [WebRequests -> Reqs] /\ limiter \in [Sources -> [count : Nat, until : Nat]]
    BY <1>1, <1>2
  <2> QED
    BY <1>2, <2>1 DEF WebTyped, Reqs
<1>4. \A r \in WebRequests : req[r].at = "unsent" /\ req[r].at0 = 0 /\ ~ req[r].effect
  BY <1>1, <1>2
<1>5. RequestsSound
  BY <1>2, <1>4 DEF RequestsSound
<1>6. LocksStand /\ LockHolds /\ WritesAudited
  BY <1>2, <1>4 DEF LocksStand, LockHolds, WritesAudited
<1> QED
  BY <1>3, <1>4, <1>5, <1>6 DEF WebIInv

\* A request moves on and the limiter, the locks and the clock stay: it keeps when
\* it asked, and it is let on only from where it had been let on.
LEMMA RequestMoves ==
  ASSUME WebIInv, NEW r \in WebRequests, NEW q \in Reqs, req' = [req EXCEPT ![r] = q],
         UNCHANGED <<clock, limiter>>, locks' \subseteq locks, audits' \in {audits, audits \cup {r}},
         q.at0 = req[r].at0 \/ q.kind # "login",
         q.kind = "login" => req[r].kind = "login" /\ q.from = req[r].from /\ req[r].at # "refused",
         q.at0 <= clock,
         q.at \in {"asked", "known"} => q.kind = "login" /\ q.from \in Sources,
         q.at = "serving" => q.kind \in {"read", "write", "logout"},
         q.effect => q.at \in {"audit", "answered", "cut"},
         q.at = "answered" /\ q.kind \in {"write", "logout"} => r \in audits',
         q.effect /\ r \notin audits' => q.at \in {"audit", "cut"}
  PROVE  WebIInv'
<1>1. req \in [WebRequests -> Reqs]
  BY DEF WebIInv, WebTyped, Reqs
<1>2. req' \in [WebRequests -> Reqs] /\ req'[r] = q /\ \A t \in WebRequests \ {r} : req'[t] = req[t]
  BY <1>1
<1>3. WebTyped'
  BY <1>2 DEF WebIInv, WebTyped, Reqs
<1>4. RequestsSound'
  BY <1>2 DEF WebIInv, RequestsSound
<1>5. LocksStand'
  BY DEF WebIInv, LocksStand
<1>6. LockHolds'
  BY <1>2 DEF WebIInv, LockHolds
<1>7. WritesAudited'
  BY <1>2 DEF WebIInv, WritesAudited
<1> QED
  BY <1>3, <1>4, <1>5, <1>6, <1>7 DEF WebIInv

LEMMA PlaceEdit ==
  ASSUME NEW w \in Reqs, NEW x \in Stages
  PROVE  \E q \in Reqs :
           /\ q = [w EXCEPT !.at = x] /\ q.at = x /\ q.kind = w.kind /\ q.from = w.from
           /\ q.at0 = w.at0 /\ q.effect = w.effect
<1>1. PICK q \in Reqs : q = [w EXCEPT !.at = x]
  BY DEF Reqs
<1> QED
  BY <1>1 DEF Reqs

LEMMA RequestEdits ==
  ASSUME WebTyped, NEW r \in WebRequests, NEW x \in Stages
  PROVE  \E q \in Reqs :
           /\ req[r] \in Reqs /\ q = [req[r] EXCEPT !.at = x] /\ q.at = x
           /\ q.kind = req[r].kind /\ q.from = req[r].from /\ q.at0 = req[r].at0 /\ q.effect = req[r].effect
<1>1. req[r] \in Reqs
  BY DEF WebTyped, Reqs
<1>2. PICK w \in Reqs : w = req[r]
  BY <1>1
<1>3. PICK q \in Reqs : q = [w EXCEPT !.at = x] /\ q.at = x
        /\ q.kind = w.kind /\ q.from = w.from /\ q.at0 = w.at0 /\ q.effect = w.effect
  BY PlaceEdit
<1> QED
  BY <1>2, <1>3

LEMMA RequestTakesEffect ==
  ASSUME WebTyped, NEW r \in WebRequests, NEW x \in Stages, NEW e \in BOOLEAN
  PROVE  \E q \in Reqs :
           /\ req[r] \in Reqs /\ q = [req[r] EXCEPT !.at = x, !.effect = e] /\ q.at = x
           /\ q.kind = req[r].kind /\ q.from = req[r].from /\ q.at0 = req[r].at0 /\ q.effect = e
<1>1. req[r] \in Reqs
  BY DEF WebTyped, Reqs
<1>2. PICK w \in Reqs : w = req[r]
  BY <1>1
<1>3. PICK q \in Reqs : q = [w EXCEPT !.at = x, !.effect = e]
  BY DEF Reqs
<1>4. q.at = x /\ q.kind = w.kind /\ q.from = w.from /\ q.at0 = w.at0 /\ q.effect = e
  BY <1>3 DEF Reqs
<1> QED
  BY <1>2, <1>3, <1>4

\* The requests and the locks stay.
LEMMA ClockMoves ==
  ASSUME WebIInv, UNCHANGED <<limiter, req, audits, locks>>, clock' \in {clock, clock + 1}
  PROVE  WebIInv'
<1>1. /\ clock \in Nat /\ clock' \in Nat /\ clock <= clock'
      /\ \A r \in WebRequests : req[r].at0 \in Nat
      /\ \A k \in locks : k.set \in Nat /\ k.until \in Nat /\ limiter[k.ip].until \in Nat
  <2>1. clock \in Nat /\ clock' \in Nat /\ clock <= clock'
    <3>1. clock \in Nat
      BY DEF WebIInv, WebTyped
    <3> QED
      BY <3>1
  <2>2. \A r \in WebRequests : req[r].at0 \in Nat
    BY DEF WebIInv, WebTyped
  <2>3. ASSUME NEW k \in locks PROVE k.set \in Nat /\ k.until \in Nat /\ limiter[k.ip].until \in Nat
    <3>1. k \in [ip : Sources, set : Nat, until : Nat] /\ k.ip \in Sources
      BY DEF WebIInv, WebTyped
    <3>2. limiter[k.ip] \in [count : Nat, until : Nat]
      BY <3>1 DEF WebIInv, WebTyped
    <3> QED
      BY <3>1, <3>2
  <2> QED
    BY <2>1, <2>2, <2>3
<1>2. WebTyped'
  BY <1>1 DEF WebIInv, WebTyped
<1>3. RequestsSound'
  BY <1>1 DEF WebIInv, RequestsSound
<1>4. LocksStand'
  BY <1>1 DEF WebIInv, LocksStand
<1>5. LockHolds' /\ WritesAudited'
  BY DEF WebIInv, LockHolds, WritesAudited
<1> QED
  BY <1>2, <1>3, <1>4, <1>5 DEF WebIInv

LEMMA ServerExitsKept == ASSUME WebIInv, ServerExits PROVE WebIInv'
<1>1. UNCHANGED <<clock, limiter, audits, locks>>
  BY DEF ServerExits
<1>2. /\ req' \in [WebRequests -> Reqs]
      /\ \A r \in WebRequests : req'[r] = req[r] \/
           (/\ req[r].at \notin {"unsent", "refused", "answered"}
            /\ req'[r].at = "cut" /\ req'[r].kind = req[r].kind /\ req'[r].from = req[r].from
            /\ req'[r].at0 = req[r].at0 /\ req'[r].effect = req[r].effect)
  <2> DEFINE Ended(q) == IF q.at \in {"unsent", "refused", "answered"} THEN q ELSE [q EXCEPT !.at = "cut"]
  <2>0. ASSUME NEW w \in Reqs
        PROVE  /\ Ended(w) \in Reqs
               /\ \/ Ended(w) = w
                  \/ /\ w.at \notin {"unsent", "refused", "answered"}
                     /\ Ended(w).at = "cut" /\ Ended(w).kind = w.kind /\ Ended(w).from = w.from
                     /\ Ended(w).at0 = w.at0 /\ Ended(w).effect = w.effect
    <3>1. "cut" \in Stages
      BY DEF Stages
    <3> QED
      BY <3>1, PlaceEdit
  <2>2. req' = [r \in WebRequests |-> Ended(req[r])]
    BY DEF ServerExits
  <2>3. req \in [WebRequests -> Reqs]
    BY DEF WebIInv, WebTyped, Reqs
  <2> HIDE DEF Ended
  <2>4. \A r \in WebRequests : req[r] \in Reqs /\ Ended(req[r]) \in Reqs /\ req'[r] = Ended(req[r])
    <3>1. \A r \in WebRequests : req[r] \in Reqs
      BY <2>3
    <3>2. \A r \in WebRequests : req'[r] = Ended(req[r])
      BY <2>2
    <3>3. ASSUME NEW r \in WebRequests PROVE Ended(req[r]) \in Reqs
      <4>1. PICK q \in Reqs : q = req[r]
        BY <3>1
      <4>2. Ended(q) \in Reqs
        BY <2>0
      <4> QED
        BY <4>1, <4>2
    <3> QED
      BY <3>1, <3>2, <3>3
  <2>5. req' \in [WebRequests -> Reqs]
    BY <2>2, <2>4
  <2> QED
    BY <2>0, <2>4, <2>5
<1>3. WebTyped'
  BY <1>1, <1>2 DEF WebIInv, WebTyped, Reqs
<1>4. RequestsSound'
  BY <1>1, <1>2 DEF WebIInv, RequestsSound
<1>5. LocksStand'
  BY <1>1 DEF WebIInv, LocksStand
<1>6. LockHolds'
  BY <1>1, <1>2 DEF WebIInv, LockHolds
<1>7. WritesAudited'
  BY <1>1, <1>2 DEF WebIInv, WritesAudited
<1> QED
  BY <1>3, <1>4, <1>5, <1>6, <1>7 DEF WebIInv

LEMMA LoginMalformedKept == ASSUME WebIInv, NEW r \in WebRequests, LoginMalformed(r) PROVE WebIInv'
<1>1. PICK q \in Reqs : /\ req[r] \in Reqs /\ q = [req[r] EXCEPT !.at = "answered"] /\ q.at = "answered"
        /\ q.kind = req[r].kind /\ q.from = req[r].from /\ q.at0 = req[r].at0 /\ q.effect = req[r].effect
  <2>1. "answered" \in Stages
    BY DEF Stages
  <2> QED
    BY <2>1, RequestEdits DEF WebIInv
<1>2. req[r].at = "asked" /\ req' = [req EXCEPT ![r] = q] /\ UNCHANGED <<clock, limiter, audits, locks>>
  BY <1>1 DEF LoginMalformed, Moves, WebIInv, WebTyped
<1>3. req[r].kind = "login" /\ ~ req[r].effect /\ req[r].at0 <= clock
  BY <1>2 DEF WebIInv, RequestsSound
<1> QED
  BY <1>1, <1>2, <1>3, RequestMoves

\* Counting a failure never shortens a lock.
LEMMA CountedIs ==
  ASSUME NEW st \in [count : Nat, until : Nat], clock \in Nat
  PROVE  /\ Counted(st) \in [count : Nat, until : Nat]
         /\ Counted(st).count = 0 => Counted(st).until = clock + Lockout
         /\ Counted(st).until \in {st.until, clock + Lockout}
BY WebAssumption DEF Counted

LEMMA LoginFailsKept == ASSUME WebIInv, NEW r \in WebRequests, LoginFails(r) PROVE WebIInv'
<1>1. PICK q \in Reqs : /\ req[r] \in Reqs /\ q = [req[r] EXCEPT !.at = "answered"] /\ q.at = "answered"
        /\ q.kind = req[r].kind /\ q.from = req[r].from /\ q.at0 = req[r].at0 /\ q.effect = req[r].effect
  <2>1. "answered" \in Stages
    BY DEF Stages
  <2> QED
    BY <2>1, RequestEdits DEF WebIInv
<1>2. /\ req[r].at = "asked" /\ req' = [req EXCEPT ![r] = q] /\ UNCHANGED <<clock, audits>>
      /\ limiter' = [limiter EXCEPT ![req[r].from] = Counted(limiter[req[r].from])]
      /\ locks' = IF Counted(limiter[req[r].from]).count = 0
                  THEN locks \cup {[ip |-> req[r].from, set |-> clock, until |-> Counted(limiter[req[r].from]).until]}
                  ELSE locks
  BY <1>1 DEF LoginFails, Moves, WebIInv, WebTyped
<1>3. req[r].kind = "login" /\ ~ req[r].effect /\ req[r].at0 <= clock /\ req[r].from \in Sources
  BY <1>2 DEF WebIInv, RequestsSound
<1>4. PICK ip \in Sources : ip = req[r].from
  BY <1>3
<1>5. clock \in Nat /\ limiter \in [Sources -> [count : Nat, until : Nat]] /\ req \in [WebRequests -> Reqs]
      /\ locks \subseteq [ip : Sources, set : Nat, until : Nat]
  BY DEF WebIInv, WebTyped, Reqs
<1>6. PICK st \in [count : Nat, until : Nat] :
        /\ st = Counted(limiter[ip]) /\ (st.count = 0 => st.until = clock + Lockout)
        /\ st.until \in {limiter[ip].until, clock + Lockout}
  BY <1>5, CountedIs
<1>7. PICK k0 \in [ip : Sources, set : Nat, until : Nat] :
        /\ k0 = [ip |-> ip, set |-> clock, until |-> st.until] /\ k0.ip = ip /\ k0.set = clock /\ k0.until = st.until
  <2>1. PICK u \in Nat, c \in Nat : u = st.until /\ c = clock
    BY <1>5
  <2>2. PICK k0 \in [ip : Sources, set : Nat, until : Nat] : k0 = [ip |-> ip, set |-> c, until |-> u]
    OBVIOUS
  <2> QED
    BY <2>1, <2>2
<1>8. /\ limiter' \in [Sources -> [count : Nat, until : Nat]] /\ limiter'[ip] = st
      /\ \A s \in Sources \ {ip} : limiter'[s] = limiter[s]
      /\ locks' = IF st.count = 0 THEN locks \cup {k0} ELSE locks
  BY <1>2, <1>4, <1>5, <1>6, <1>7
<1>9. req' \in [WebRequests -> Reqs] /\ req'[r] = q /\ \A t \in WebRequests \ {r} : req'[t] = req[t]
  BY <1>2, <1>5
<1>10. WebTyped'
  BY <1>2, <1>5, <1>7, <1>8, <1>9 DEF WebTyped, Reqs
<1>11. RequestsSound'
  BY <1>1, <1>2, <1>3, <1>9 DEF WebIInv, RequestsSound
<1>12. LocksStand'
  <2>1. ASSUME NEW k \in locks', k \in locks
        PROVE  k.set <= clock /\ k.until = k.set + Lockout /\ (clock < k.until => limiter'[k.ip].until >= k.until)
    <3>1. k \in [ip : Sources, set : Nat, until : Nat] /\ k.set <= clock /\ k.until = k.set + Lockout
          /\ (clock < k.until => limiter[k.ip].until >= k.until)
      BY <1>5, <2>1 DEF WebIInv, LocksStand
    <3>2. CASE k.ip # ip
      BY <3>1, <3>2, <1>8
    <3>3. CASE k.ip = ip
      <4>1. clock + Lockout >= k.until
        BY <3>1, <1>5, WebAssumption
      <4>2. k.until \in Nat /\ limiter[ip].until \in Nat
        BY <3>1, <1>5
      <4> QED
        BY <3>1, <3>3, <4>1, <4>2, <1>6, <1>8
    <3> QED
      BY <3>2, <3>3
  <2>2. st.count = 0 => k0.set <= clock /\ k0.until = k0.set + Lockout /\ limiter'[k0.ip].until >= k0.until
    BY <1>5, <1>6, <1>7, <1>8
  <2> QED
    BY <2>1, <2>2, <1>2, <1>8 DEF LocksStand
<1>13. LockHolds'
  <2> SUFFICES ASSUME NEW k \in locks', NEW t \in WebRequests, req'[t].kind = "login", req'[t].from = k.ip,
                      k.set < req'[t].at0, req'[t].at0 < k.until
               PROVE  req'[t].at = "refused"
    BY DEF LockHolds
  <2>1. req[t].kind = "login" /\ req[t].from = k.ip /\ req[t].at0 = req'[t].at0 /\ (t # r => req'[t] = req[t])
    <3>1. CASE t = r
      BY <3>1, <1>1, <1>9
    <3>2. CASE t # r
      BY <3>2, <1>9
    <3> QED
      BY <3>1, <3>2
  <2>2. req[t].at0 <= clock /\ req[t].at0 \in Nat
    BY <1>5 DEF WebIInv, RequestsSound, Reqs
  <2>3. k \in locks
    BY <2>1, <2>2, <1>5, <1>7, <1>8
  <2>4. req[t].at = "refused"
    BY <2>1, <2>3 DEF WebIInv, LockHolds
  <2> QED
    BY <2>1, <2>4, <1>2
<1>14. WritesAudited'
  BY <1>1, <1>2, <1>3, <1>9 DEF WebIInv, WritesAudited
<1> QED
  BY <1>10, <1>11, <1>12, <1>13, <1>14 DEF WebIInv

LEMMA LoginResetsKept == ASSUME WebIInv, NEW r \in WebRequests, LoginResets(r) PROVE WebIInv'
<1>1. PICK q \in Reqs : /\ req[r] \in Reqs /\ q = [req[r] EXCEPT !.at = "known"] /\ q.at = "known"
        /\ q.kind = req[r].kind /\ q.from = req[r].from /\ q.at0 = req[r].at0 /\ q.effect = req[r].effect
  <2>1. "known" \in Stages
    BY DEF Stages
  <2> QED
    BY <2>1, RequestEdits DEF WebIInv
<1>2. /\ req[r].at = "asked" /\ req' = [req EXCEPT ![r] = q] /\ UNCHANGED <<clock, audits>>
      /\ limiter' = [limiter EXCEPT ![req[r].from] = NoFails]
      /\ locks' = {k \in locks : k.ip # req[r].from}
  BY <1>1 DEF LoginResets, Moves, WebIInv, WebTyped
<1>3. req[r].kind = "login" /\ ~ req[r].effect /\ req[r].at0 <= clock /\ req[r].from \in Sources
  BY <1>2 DEF WebIInv, RequestsSound
<1>4. clock \in Nat /\ limiter \in [Sources -> [count : Nat, until : Nat]] /\ req \in [WebRequests -> Reqs]
      /\ locks \subseteq [ip : Sources, set : Nat, until : Nat]
  BY DEF WebIInv, WebTyped, Reqs
<1>5. NoFails \in [count : Nat, until : Nat]
  BY DEF NoFails
<1>6. limiter' \in [Sources -> [count : Nat, until : Nat]]
      /\ \A s \in Sources \ {req[r].from} : limiter'[s] = limiter[s]
  BY <1>2, <1>4, <1>5
<1>7. req' \in [WebRequests -> Reqs] /\ req'[r] = q /\ \A t \in WebRequests \ {r} : req'[t] = req[t]
  BY <1>2, <1>4
<1>8. locks' \subseteq locks /\ \A k \in locks' : k.ip # req[r].from /\ k.ip \in Sources
  BY <1>2, <1>4
<1>9. WebTyped'
  BY <1>2, <1>4, <1>6, <1>7, <1>8 DEF WebTyped, Reqs
<1>10. RequestsSound'
  BY <1>1, <1>2, <1>3, <1>7 DEF WebIInv, RequestsSound
<1>11. LocksStand'
  BY <1>2, <1>6, <1>8 DEF WebIInv, LocksStand
<1>12. LockHolds'
  BY <1>1, <1>2, <1>7, <1>8 DEF WebIInv, LockHolds
<1>13. WritesAudited'
  BY <1>1, <1>2, <1>3, <1>7 DEF WebIInv, WritesAudited
<1> QED
  BY <1>9, <1>10, <1>11, <1>12, <1>13 DEF WebIInv

LEMMA LoginAsksKept ==
  ASSUME WebIInv, NEW r \in WebRequests, NEW ip \in Sources, LoginAsks(r, ip)
  PROVE  WebIInv'
<1>1. clock \in Nat /\ limiter \in [Sources -> [count : Nat, until : Nat]] /\ req \in [WebRequests -> Reqs]
      /\ locks \subseteq [ip : Sources, set : Nat, until : Nat]
  BY DEF WebIInv, WebTyped, Reqs
<1>2. PICK x \in Stages : x = IF Locked(ip) THEN "refused" ELSE "asked"
  BY DEF Stages
<1>3. PICK q \in Reqs : /\ q = [NoRequest EXCEPT !.at = x, !.kind = "login", !.from = ip, !.at0 = clock]
        /\ q.at = x /\ q.kind = "login" /\ q.from = ip /\ q.at0 = clock /\ q.effect = FALSE
  <2>1. PICK c \in Nat : c = clock
    BY <1>1
  <2>2. PICK q \in Reqs : q = [NoRequest EXCEPT !.at = x, !.kind = "login", !.from = ip, !.at0 = c]
    BY DEF NoRequest, Reqs
  <2> QED
    BY <2>1, <2>2 DEF NoRequest, Reqs
<1>4. /\ req' = [req EXCEPT ![r] = q] /\ UNCHANGED <<clock, audits, locks>>
      /\ limiter' = IF limiter[ip].until # 0 /\ ~ Locked(ip) THEN [limiter EXCEPT ![ip] = NoFails] ELSE limiter
  BY <1>2, <1>3 DEF LoginAsks
<1>5. req' \in [WebRequests -> Reqs] /\ req'[r] = q /\ \A t \in WebRequests \ {r} : req'[t] = req[t]
  BY <1>1, <1>4
<1>6. /\ limiter' \in [Sources -> [count : Nat, until : Nat]]
      /\ \A s \in Sources \ {ip} : limiter'[s] = limiter[s]
      /\ Locked(ip) => limiter'[ip] = limiter[ip]
      /\ limiter'[ip] = limiter[ip] \/ ~ Locked(ip)
  BY <1>1, <1>4 DEF NoFails
<1>7. WebTyped'
  BY <1>1, <1>4, <1>5, <1>6 DEF WebTyped, Reqs
<1>8. RequestsSound'
  BY <1>1, <1>2, <1>3, <1>4, <1>5 DEF WebIInv, RequestsSound
<1>9. LocksStand'
  <2> SUFFICES ASSUME NEW k \in locks
               PROVE  k.set <= clock /\ k.until = k.set + Lockout /\ (clock < k.until => limiter'[k.ip].until >= k.until)
    BY <1>4 DEF LocksStand
  <2>1. /\ k.set <= clock /\ k.until = k.set + Lockout
        /\ clock < k.until => limiter[k.ip].until >= k.until
        /\ k.ip \in Sources /\ k.until \in Nat
    BY <1>1 DEF WebIInv, LocksStand
  <2>2. CASE k.ip # ip
    BY <2>1, <2>2, <1>6
  <2>3. CASE k.ip = ip
    <3>1. limiter[ip].until \in Nat
      BY <1>1
    <3>2. clock < k.until => Locked(ip)
      BY <2>1, <2>3, <3>1, <1>1 DEF Locked
    <3> QED
      BY <2>1, <2>3, <3>2, <1>6
  <2> QED
    BY <2>2, <2>3
<1>10. LockHolds'
  <2> SUFFICES ASSUME NEW k \in locks, NEW t \in WebRequests, req'[t].kind = "login", req'[t].from = k.ip,
                      k.set < req'[t].at0, req'[t].at0 < k.until
               PROVE  req'[t].at = "refused"
    BY <1>4 DEF LockHolds
  <2>1. CASE t = r
    <3>1. clock < k.until /\ k.ip = ip /\ k.until \in Nat /\ limiter[ip].until \in Nat
      BY <2>1, <1>1, <1>3, <1>5
    <3>2. limiter[ip].until >= k.until
      BY <3>1 DEF WebIInv, LocksStand
    <3>3. Locked(ip)
      BY <3>1, <3>2, <1>1 DEF Locked
    <3> QED
      BY <2>1, <3>3, <1>2, <1>3, <1>5
  <2>2. CASE t # r
    <3>1. req'[t] = req[t]
      BY <2>2, <1>5
    <3> QED
      BY <3>1 DEF WebIInv, LockHolds
  <2> QED
    BY <2>1, <2>2
<1>11. WritesAudited'
  BY <1>2, <1>3, <1>4, <1>5 DEF WebIInv, WritesAudited
<1> QED
  BY <1>7, <1>8, <1>9, <1>10, <1>11 DEF WebIInv

LEMMA LoginCreatesKept == ASSUME WebIInv, NEW r \in WebRequests, LoginCreates(r) PROVE WebIInv'
<1>1. PICK q \in Reqs : /\ req[r] \in Reqs /\ q = [req[r] EXCEPT !.at = "audit", !.effect = TRUE] /\ q.at = "audit"
        /\ q.kind = req[r].kind /\ q.from = req[r].from /\ q.at0 = req[r].at0 /\ q.effect = TRUE
  <2>1. "audit" \in Stages
    BY DEF Stages
  <2> QED
    BY <2>1, RequestTakesEffect DEF WebIInv
<1>2. req[r].at = "known" /\ req' = [req EXCEPT ![r] = q] /\ UNCHANGED <<clock, limiter, audits, locks>>
  <2>1. req' = [req EXCEPT ![r] = [req[r] EXCEPT !.at = "audit", !.effect = TRUE]]
    BY DEF LoginCreates, WebIInv, WebTyped
  <2> QED
    BY <2>1, <1>1 DEF LoginCreates
<1>3. req[r].at0 <= clock
  BY DEF WebIInv, RequestsSound
<1> QED
  BY <1>1, <1>2, <1>3, RequestMoves

LEMMA EntersKept ==
  ASSUME WebIInv, NEW r \in WebRequests, NEW t \in WebRequests, NEW kind \in {"read", "write", "logout"},
         Enters(r, t, kind)
  PROVE  WebIInv'
<1>1. PICK x \in Stages : /\ x = IF \E s \in Known(t) : clock < s.expiry THEN "serving" ELSE "refused"
                          /\ x \in {"serving", "refused"}
  BY DEF Stages
<1>2. PICK q \in Reqs : /\ q = [NoRequest EXCEPT !.at = x, !.kind = kind, !.token = t]
        /\ q.at = x /\ q.kind = kind /\ q.at0 = 0 /\ q.effect = FALSE
  <2>1. PICK q \in Reqs : q = [NoRequest EXCEPT !.at = x, !.kind = kind, !.token = t]
    BY WebAssumption DEF NoRequest, Reqs
  <2> QED
    BY <2>1 DEF NoRequest, Reqs
<1>3. req' = [req EXCEPT ![r] = q] /\ UNCHANGED <<clock, limiter, audits, locks>>
  BY <1>1, <1>2 DEF Enters
<1>4. 0 <= clock
  <2>1. clock \in Nat
    BY DEF WebIInv, WebTyped
  <2> QED
    BY <2>1
<1> QED
  BY <1>1, <1>2, <1>3, <1>4, RequestMoves

LEMMA HandlerKept == ASSUME WebIInv, NEW r \in WebRequests, Handler(r) PROVE WebIInv'
<1>1. PICK e \in {TRUE, FALSE} :
        /\ req[r].kind = "read" => e = FALSE
        /\ req' = [req EXCEPT ![r].effect = e, ![r].at = AfterHandler(req[r].kind, e)]
  BY DEF Handler
<1>2. PICK x \in Stages : x = (IF req[r].kind = "read" THEN "answered" ELSE "audit") /\ x = AfterHandler(req[r].kind, e)
  BY DEF AfterHandler, Stages
<1>3. PICK q \in Reqs : /\ req[r] \in Reqs /\ q = [req[r] EXCEPT !.at = x, !.effect = e] /\ q.at = x
        /\ q.kind = req[r].kind /\ q.from = req[r].from /\ q.at0 = req[r].at0 /\ q.effect = e
  <2>1. CASE e = TRUE
    BY <2>1, RequestTakesEffect DEF WebIInv
  <2>2. CASE e = FALSE
    <3>1. PICK w \in Reqs : w = req[r]
      BY DEF WebIInv, WebTyped, Reqs
    <3>2. PICK q \in Reqs : q = [w EXCEPT !.at = x, !.effect = FALSE]
      BY DEF Reqs
    <3>3. q.at = x /\ q.kind = w.kind /\ q.from = w.from /\ q.at0 = w.at0 /\ q.effect = FALSE
      BY <3>2 DEF Reqs
    <3> QED
      BY <2>2, <3>1, <3>2, <3>3
  <2> QED
    BY <2>1, <2>2
<1>4. req[r].at = "serving" /\ req' = [req EXCEPT ![r] = q] /\ UNCHANGED <<clock, limiter, audits, locks>>
  <2>1. req' = [req EXCEPT ![r].effect = e, ![r].at = x]
    BY <1>1, <1>2
  <2>2. req' = [req EXCEPT ![r] = [req[r] EXCEPT !.at = x, !.effect = e]]
    BY <2>1, <1>3 DEF WebIInv, WebTyped, Reqs
  <2> QED
    BY <2>2, <1>3 DEF Handler
<1>5. req[r].kind \in {"read", "write", "logout"} /\ req[r].at0 <= clock
  BY <1>4 DEF WebIInv, RequestsSound
<1>6. /\ q.effect => e = TRUE
      /\ x = "answered" => req[r].kind = "read" /\ e = FALSE
      /\ x \in {"answered", "audit"}
  BY <1>1, <1>2, <1>3
<1> QED
  BY <1>3, <1>4, <1>5, <1>6, RequestMoves

LEMMA AuditKept == ASSUME WebIInv, NEW r \in WebRequests, Audit(r) PROVE WebIInv'
<1>1. PICK q \in Reqs : /\ req[r] \in Reqs /\ q = [req[r] EXCEPT !.at = "answered"] /\ q.at = "answered"
        /\ q.kind = req[r].kind /\ q.from = req[r].from /\ q.at0 = req[r].at0 /\ q.effect = req[r].effect
  <2>1. "answered" \in Stages
    BY DEF Stages
  <2> QED
    BY <2>1, RequestEdits DEF WebIInv
<1>2. /\ req[r].at = "audit" /\ req' = [req EXCEPT ![r] = q] /\ UNCHANGED <<clock, limiter, locks>>
      /\ audits' = audits \cup {r}
  BY <1>1 DEF Audit, Moves, WebIInv, WebTyped
<1>3. req[r].at0 <= clock
  BY DEF WebIInv, RequestsSound
<1> QED
  BY <1>1, <1>2, <1>3, RequestMoves

LEMMA WebStep == WebIInv /\ [WebNext]_webVars => WebIInv'
<1> SUFFICES ASSUME WebIInv, [WebNext]_webVars PROVE WebIInv'
  OBVIOUS
<1>1. CASE UNCHANGED webVars
  BY <1>1, ClockMoves DEF webVars
<1>2. CASE RunServer \/ ShutdownServer \/ Ticks
  BY <1>2, ClockMoves DEF RunServer, ShutdownServer, Ticks
<1>3. CASE ServerExits
  BY <1>3, ServerExitsKept
<1>4. ASSUME NEW r \in WebRequests, LoginMalformed(r) \/ LoginFails(r) \/ LoginResets(r) \/ LoginCreates(r)
                                      \/ Handler(r) \/ Audit(r)
      PROVE  WebIInv'
  BY <1>4, LoginMalformedKept, LoginFailsKept, LoginResetsKept, LoginCreatesKept, HandlerKept, AuditKept
<1>5. ASSUME NEW r \in WebRequests, NEW ip \in Sources, LoginAsks(r, ip) PROVE WebIInv'
  BY <1>5, LoginAsksKept
<1>6. ASSUME NEW r \in WebRequests, NEW t \in WebRequests, NEW kind \in {"read", "write", "logout"},
             Enters(r, t, kind)
      PROVE  WebIInv'
  BY <1>6, EntersKept
<1> QED
  BY <1>1, <1>2, <1>3, <1>4, <1>5, <1>6 DEF WebNext

LEMMA WebInvariance == WebInit /\ [][WebNext]_webVars => []WebIInv
BY InitWeb, WebStep, PTL
-----------------------------------------------------------------------------
(* The log.                                                                *)

\* What a sequence holds when a record is appended, or the first taken.
LEMMA HeldBy ==
  ASSUME NEW s \in Seq(Nat), NEW i \in Nat
  PROVE  /\ Append(s, i) \in Seq(Nat) /\ ToSet(Append(s, i)) = ToSet(s) \cup {i}
         /\ ToSet(s) \subseteq Nat /\ ToSet(<<>>) = {}
         /\ s # <<>> => /\ Head(s) \in Nat /\ Tail(s) \in Seq(Nat)
                        /\ ToSet(s) = {Head(s)} \cup ToSet(Tail(s))
<1>1. ToSet(Append(s, i)) = ToSet(s) \cup {i}
  <2>1. Append(s, i) \in Seq(Nat) /\ Len(Append(s, i)) = Len(s) + 1 /\ Append(s, i)[Len(s) + 1] = i
        /\ \A k \in 1 .. Len(s) : Append(s, i)[k] = s[k]
    OBVIOUS
  <2>2. DOMAIN Append(s, i) = 1 .. Len(s) + 1 /\ DOMAIN s = 1 .. Len(s)
    BY <2>1
  <2> QED
    BY <2>1, <2>2 DEF ToSet
<1>2. ToSet(s) \subseteq Nat /\ ToSet(<<>>) = {}
  BY DEF ToSet
<1>3. ASSUME s # <<>>
      PROVE  Head(s) \in Nat /\ Tail(s) \in Seq(Nat) /\ ToSet(s) = {Head(s)} \cup ToSet(Tail(s))
  <2>1. /\ Head(s) = s[1] /\ Tail(s) \in Seq(Nat) /\ Len(Tail(s)) = Len(s) - 1 /\ Len(s) \in Nat \ {0}
        /\ \A k \in 1 .. Len(s) - 1 : Tail(s)[k] = s[k + 1]
    BY <1>3
  <2>2. DOMAIN Tail(s) = 1 .. Len(s) - 1 /\ DOMAIN s = 1 .. Len(s)
    BY <2>1
  <2>3. ToSet(s) \subseteq {Head(s)} \cup ToSet(Tail(s))
    <3> SUFFICES ASSUME NEW k \in 1 .. Len(s), k # 1 PROVE s[k] \in ToSet(Tail(s))
      BY <2>1, <2>2 DEF ToSet
    <3>1. k - 1 \in 1 .. Len(s) - 1 /\ Tail(s)[k - 1] = s[k]
      BY <2>1
    <3> QED
      BY <2>2, <3>1 DEF ToSet
  <2>4. {Head(s)} \cup ToSet(Tail(s)) \subseteq ToSet(s)
    <3>1. \A k \in 1 .. Len(s) - 1 : k + 1 \in 1 .. Len(s) /\ Tail(s)[k] = s[k + 1]
      BY <2>1
    <3> QED
      BY <2>1, <2>2, <3>1 DEF ToSet
  <2> QED
    BY <2>1, <2>3, <2>4
<1> QED
  BY <1>1, <1>2, <1>3

LEMMA DistinctKept ==
  ASSUME NEW s \in Seq(Nat), Distinct(s)
  PROVE  /\ \A i \in Nat : i \notin ToSet(s) => Distinct(Append(s, i))
         /\ s # <<>> => Distinct(Tail(s)) /\ Head(s) \notin ToSet(Tail(s))
<1>1. ASSUME NEW i \in Nat, i \notin ToSet(s) PROVE Distinct(Append(s, i))
  <2>1. DOMAIN Append(s, i) = 1 .. Len(s) + 1 /\ DOMAIN s = 1 .. Len(s) /\ Append(s, i)[Len(s) + 1] = i
        /\ Len(s) \in Nat /\ \A k \in 1 .. Len(s) : Append(s, i)[k] = s[k]
    OBVIOUS
  <2>2. \A k \in 1 .. Len(s) : s[k] # i
    BY <1>1, <2>1 DEF ToSet
  <2> QED
    BY <2>1, <2>2 DEF Distinct
<1>2. ASSUME s # <<>> PROVE Distinct(Tail(s)) /\ Head(s) \notin ToSet(Tail(s))
  <2>1. /\ Head(s) = s[1] /\ Len(s) \in Nat \ {0} /\ \A k \in 1 .. Len(s) - 1 : Tail(s)[k] = s[k + 1]
        /\ DOMAIN Tail(s) = 1 .. Len(s) - 1 /\ DOMAIN s = 1 .. Len(s)
    BY <1>2
  <2>2. \A k \in 1 .. Len(s) - 1 : k + 1 \in DOMAIN s /\ 1 \in DOMAIN s /\ k + 1 # 1
    BY <2>1
  <2> QED
    BY <2>1, <2>2 DEF Distinct, ToSet
<1> QED
  BY <1>1, <1>2

\* How often a record was shown, when one more is.
LEMMA PlacesGrow ==
  ASSUME NEW s \in Seq(Nat), NEW i \in Nat, NEW j \in Nat
  PROVE  /\ IsFiniteSet(Places(s, j)) /\ Cardinality(Places(s, j)) \in Nat
         /\ Cardinality(Places(Append(s, i), j)) = Cardinality(Places(s, j)) + (IF i = j THEN 1 ELSE 0)
         /\ Cardinality(Places(<<>>, j)) = 0
<1>1. /\ DOMAIN Append(s, i) = 1 .. Len(s) + 1 /\ DOMAIN s = 1 .. Len(s) /\ Append(s, i)[Len(s) + 1] = i
      /\ Len(s) \in Nat /\ \A k \in 1 .. Len(s) : Append(s, i)[k] = s[k]
  OBVIOUS
<1>2. IsFiniteSet(Places(s, j))
  <2>1. IsFiniteSet(1 .. Len(s)) /\ Places(s, j) \subseteq 1 .. Len(s)
    BY <1>1, FS_Interval DEF Places
  <2> QED
    BY <2>1, FS_Subset
<1>3. Cardinality(Places(s, j)) \in Nat
  BY <1>2, FS_CardinalityType
<1>4. Len(s) + 1 \notin Places(s, j)
  BY <1>1 DEF Places
<1>5. ASSUME i = j PROVE Cardinality(Places(Append(s, i), j)) = Cardinality(Places(s, j)) + (IF i = j THEN 1 ELSE 0)
  <2>1. Places(Append(s, i), j) = Places(s, j) \cup {Len(s) + 1}
    BY <1>1, <1>5 DEF Places
  <2> QED
    BY <1>2, <1>3, <1>4, <1>5, <2>1, FS_AddElement
<1>6. ASSUME i # j PROVE Cardinality(Places(Append(s, i), j)) = Cardinality(Places(s, j)) + (IF i = j THEN 1 ELSE 0)
  <2>1. Places(Append(s, i), j) = Places(s, j)
    BY <1>1, <1>6 DEF Places
  <2> QED
    BY <1>2, <1>3, <1>6, <2>1
<1>7. Places(<<>>, j) = {} /\ Cardinality({}) = 0
  BY FS_EmptySet DEF Places
<1> QED
  BY <1>2, <1>3, <1>5, <1>6, <1>7

LEMMA HandleFine ==
  ASSUME NEW stage, NEW app \in Nat, NEW sh \in Seq(Nat), NEW ms \in SUBSET Nat, NEW rp \in Seq(Nat),
         NEW ch \in Seq(Nat), NEW rd \in SUBSET Nat, Fine(stage, app, sh, ms, rp, ch, rd),
         NEW n \in Nat, n = app + 1
  PROVE  /\ Fine(stage, n, sh, ms, rp, ch, rd)
         /\ \A i \in Has(sh, ms, rp, ch, rd) : i \in Nat /\ i <= app
<1>1. \A i \in Has(sh, ms, rp, ch, rd) : i \in Nat /\ i <= app
  BY HeldBy DEF Has, Fine
<1>2. \A i \in Has(sh, ms, rp, ch, rd) : i <= n
  BY <1>1
<1> QED
  BY <1>1, <1>2 DEF Fine

LEMMA HandleRides ==
  ASSUME NEW stage, NEW app \in Nat, NEW sh \in Seq(Nat), NEW ms \in SUBSET Nat, NEW rp \in Seq(Nat),
         NEW ch \in Seq(Nat), NEW rd \in SUBSET Nat, Fine(stage, app, sh, ms, rp, ch, rd),
         stage # "away", NEW n \in Nat, n > app, NEW rn \in SUBSET Nat,
         rd \subseteq rn, n \in rn, rn \subseteq rd \cup {n}
  PROVE  Fine(stage, n, sh, ms, rp, ch, rn) /\ Has(sh, ms, rp, ch, rn) = Has(sh, ms, rp, ch, rd) \cup {n}
<1>1. \A i \in Has(sh, ms, rp, ch, rd) : i \in Nat /\ i <= app
  BY HeldBy DEF Has, Fine
<1>2. Has(sh, ms, rp, ch, rn) = Has(sh, ms, rp, ch, rd) \cup {n}
  BY DEF Has
<1>3. \A i \in Has(sh, ms, rp, ch, rn) : i <= n
  BY <1>1, <1>2
<1>4. n \notin ToSet(sh) \cup ToSet(rp) \cup ToSet(ch)
  BY <1>1 DEF Has
<1>5. ToSet(ch) \cap rn = {}
  BY <1>4 DEF Fine
<1>6. ASSUME NEW i \in Nat
      PROVE  Cardinality(Places(sh, i)) + Once(i, ToSet(rp)) + Once(i, ToSet(ch) \cup rn) <= 2
  <2>1. CASE i # n
    <3>1. (i \in ToSet(ch) \cup rn) <=> (i \in ToSet(ch) \cup rd)
      BY <2>1
    <3>2. Once(i, ToSet(ch) \cup rn) = Once(i, ToSet(ch) \cup rd)
      BY <3>1 DEF Once
    <3> QED
      BY <3>2 DEF Fine
  <2>2. CASE i = n
    <3>1. Places(sh, i) = {}
      BY <1>4, <2>2 DEF Places, ToSet
    <3>2. Cardinality(Places(sh, i)) = 0
      BY <3>1, FS_EmptySet
    <3>3. Once(i, ToSet(rp)) = 0 /\ Once(i, ToSet(ch) \cup rn) = 1
      BY <1>4, <2>2 DEF Once
    <3> QED
      BY <3>2, <3>3
  <2> QED
    BY <2>1, <2>2
<1> QED
  BY <1>2, <1>3, <1>5, <1>6 DEF Fine

\* A push: dropped by a closed ring or a full channel, or made.
Pushing(ms, ch, rd, i, nm, nc, nd) ==
  /\ nd = rd \ {i}
  /\ \/ nc = ch /\ nm = ms
     \/ nc = Append(ch, i) /\ nm = ms
     \/ nc = ch /\ nm = ms \cup {i}

LEMMA PushFine ==
  ASSUME NEW stage, NEW app \in Nat, NEW sh \in Seq(Nat), NEW ms \in SUBSET Nat, NEW rp \in Seq(Nat),
         NEW ch \in Seq(Nat), NEW rd \in SUBSET Nat, Fine(stage, app, sh, ms, rp, ch, rd), NEW i \in rd,
         NEW nm, NEW nc, NEW nd, Pushing(ms, ch, rd, i, nm, nc, nd)
  PROVE  Fine(stage, app, sh, nm, rp, nc, nd)
<1>1. stage # "away" /\ i \in Nat /\ i \notin ToSet(ch)
  BY DEF Fine
<1>2. ToSet(Append(ch, i)) = ToSet(ch) \cup {i} /\ Distinct(Append(ch, i))
  BY <1>1, HeldBy, DistinctKept DEF Fine
<1>3. \A j \in Nat : /\ Once(j, ToSet(ch) \cup (rd \ {i})) <= Once(j, ToSet(ch) \cup rd)
                     /\ Once(j, ToSet(Append(ch, i)) \cup (rd \ {i})) = Once(j, ToSet(ch) \cup rd)
  BY <1>2 DEF Once
<1>4. \A j \in Nat : Cardinality(Places(sh, j)) \in Nat /\ Once(j, ToSet(rp)) \in Nat /\ Once(j, ToSet(ch) \cup rd) \in Nat
                     /\ Once(j, ToSet(ch) \cup (rd \ {i})) \in Nat
  BY PlacesGrow DEF Once
<1>5. \A j \in Nat : /\ Cardinality(Places(sh, j)) + Once(j, ToSet(rp)) + Once(j, ToSet(ch) \cup (rd \ {i})) <= 2
                     /\ Cardinality(Places(sh, j)) + Once(j, ToSet(rp)) + Once(j, ToSet(Append(ch, i)) \cup (rd \ {i})) <= 2
  <2> SUFFICES ASSUME NEW j \in Nat
      PROVE  /\ Cardinality(Places(sh, j)) + Once(j, ToSet(rp)) + Once(j, ToSet(ch) \cup (rd \ {i})) <= 2
             /\ Cardinality(Places(sh, j)) + Once(j, ToSet(rp)) + Once(j, ToSet(Append(ch, i)) \cup (rd \ {i})) <= 2
    OBVIOUS
  <2>1. Cardinality(Places(sh, j)) + Once(j, ToSet(rp)) + Once(j, ToSet(ch) \cup rd) <= 2
    BY DEF Fine
  <2>2. /\ Cardinality(Places(sh, j)) \in Nat /\ Once(j, ToSet(rp)) \in Nat /\ Once(j, ToSet(ch) \cup rd) \in Nat
        /\ Once(j, ToSet(ch) \cup (rd \ {i})) \in Nat
    BY <1>4
  <2>3. /\ Once(j, ToSet(ch) \cup (rd \ {i})) <= Once(j, ToSet(ch) \cup rd)
        /\ Once(j, ToSet(Append(ch, i)) \cup (rd \ {i})) = Once(j, ToSet(ch) \cup rd)
    BY <1>3
  <2> QED
    BY <2>1, <2>2, <2>3
<1>6. /\ Has(sh, ms, rp, Append(ch, i), rd \ {i}) = Has(sh, ms, rp, ch, rd)
      /\ Has(sh, ms \cup {i}, rp, ch, rd \ {i}) = Has(sh, ms, rp, ch, rd)
      /\ Has(sh, ms, rp, ch, rd \ {i}) \subseteq Has(sh, ms, rp, ch, rd)
  BY <1>2 DEF Has
<1>7. Fine(stage, app, sh, ms, rp, ch, rd \ {i}) /\ Fine(stage, app, sh, ms \cup {i}, rp, ch, rd \ {i})
  BY <1>1, <1>5, <1>6 DEF Fine
<1>8. Fine(stage, app, sh, ms, rp, Append(ch, i), rd \ {i})
  <2>1. ToSet(Append(ch, i)) \cap (rd \ {i}) = {}
    BY <1>2 DEF Fine
  <2> QED
    BY <1>1, <1>2, <1>5, <1>6, <2>1 DEF Fine
<1> QED
  BY <1>7, <1>8 DEF Pushing

\* A record taken from the head of the replay or of the channel, and written
\* or held back.
Taking(s, h, tl) == s # <<>> /\ h = Head(s) /\ tl = Tail(s)
Writing(sh, ms, h, ns, nm) ==
  \/ ns = Append(sh, h) /\ nm = ms
  \/ ns = sh /\ nm = ms \cup {h}

LEMMA ReplayFine ==
  ASSUME NEW app \in Nat, NEW sh \in Seq(Nat), NEW ms \in SUBSET Nat, NEW rp \in Seq(Nat),
         NEW ch \in Seq(Nat), NEW rd \in SUBSET Nat, Fine("replay", app, sh, ms, rp, ch, rd),
         NEW h \in Nat, NEW tl \in Seq(Nat), Taking(rp, h, tl), NEW ns, NEW nm, Writing(sh, ms, h, ns, nm)
  PROVE  Fine("replay", app, ns, nm, tl, ch, rd)
<1>1. ToSet(rp) = {h} \cup ToSet(tl) /\ Distinct(tl) /\ h \notin ToSet(tl)
  BY HeldBy, DistinctKept DEF Fine, Taking
<1>2. Append(sh, h) \in Seq(Nat) /\ ToSet(Append(sh, h)) = ToSet(sh) \cup {h}
  BY HeldBy
<1>3. \A j \in Nat :
        /\ Cardinality(Places(sh, j)) \in Nat /\ Once(j, ToSet(ch) \cup rd) \in Nat
        /\ Cardinality(Places(Append(sh, h), j)) + Once(j, ToSet(tl)) = Cardinality(Places(sh, j)) + Once(j, ToSet(rp))
        /\ Once(j, ToSet(tl)) <= Once(j, ToSet(rp)) /\ Once(j, ToSet(tl)) \in Nat /\ Once(j, ToSet(rp)) \in Nat
  <2> SUFFICES ASSUME NEW j \in Nat
        PROVE /\ Cardinality(Places(sh, j)) \in Nat /\ Once(j, ToSet(ch) \cup rd) \in Nat
        /\ Cardinality(Places(Append(sh, h), j)) + Once(j, ToSet(tl)) = Cardinality(Places(sh, j)) + Once(j, ToSet(rp))
        /\ Once(j, ToSet(tl)) <= Once(j, ToSet(rp)) /\ Once(j, ToSet(tl)) \in Nat /\ Once(j, ToSet(rp)) \in Nat
    OBVIOUS
  <2>1. Cardinality(Places(sh, j)) \in Nat /\ Cardinality(Places(Append(sh, h), j)) = Cardinality(Places(sh, j)) + (IF h = j THEN 1 ELSE 0)
    BY ZenonT(60), PlacesGrow
  <2> QED
    BY <1>1, <2>1 DEF Once
<1>4. \A j \in Nat :
        /\ Cardinality(Places(Append(sh, h), j)) + Once(j, ToSet(tl)) + Once(j, ToSet(ch) \cup rd) <= 2
        /\ Cardinality(Places(sh, j)) + Once(j, ToSet(tl)) + Once(j, ToSet(ch) \cup rd) <= 2
  <2> SUFFICES ASSUME NEW j \in Nat
      PROVE  /\ Cardinality(Places(Append(sh, h), j)) + Once(j, ToSet(tl)) + Once(j, ToSet(ch) \cup rd) <= 2
             /\ Cardinality(Places(sh, j)) + Once(j, ToSet(tl)) + Once(j, ToSet(ch) \cup rd) <= 2
    OBVIOUS
  <2>1. Cardinality(Places(sh, j)) + Once(j, ToSet(rp)) + Once(j, ToSet(ch) \cup rd) <= 2
    BY DEF Fine
  <2>2. /\ Cardinality(Places(sh, j)) \in Nat /\ Once(j, ToSet(ch) \cup rd) \in Nat
        /\ Once(j, ToSet(tl)) \in Nat /\ Once(j, ToSet(rp)) \in Nat
        /\ Once(j, ToSet(tl)) <= Once(j, ToSet(rp))
    BY <1>3
  <2>3. Cardinality(Places(Append(sh, h), j)) + Once(j, ToSet(tl)) = Cardinality(Places(sh, j)) + Once(j, ToSet(rp))
    BY <1>3
  <2> QED
    BY <2>1, <2>2, <2>3
<1>5. /\ Has(Append(sh, h), ms, tl, ch, rd) = Has(sh, ms, rp, ch, rd)
      /\ Has(sh, ms \cup {h}, tl, ch, rd) = Has(sh, ms, rp, ch, rd)
  BY <1>1, <1>2 DEF Has
<1>6. Fine("replay", app, Append(sh, h), ms, tl, ch, rd) /\ Fine("replay", app, sh, ms \cup {h}, tl, ch, rd)
  BY <1>1, <1>4, <1>5 DEF Fine
<1> QED
  BY <1>5, <1>6 DEF Writing

LEMMA StreamFine ==
  ASSUME NEW app \in Nat, NEW sh \in Seq(Nat), NEW ms \in SUBSET Nat, NEW rp \in Seq(Nat),
         NEW ch \in Seq(Nat), NEW rd \in SUBSET Nat, Fine("live", app, sh, ms, rp, ch, rd),
         NEW h \in Nat, NEW tl \in Seq(Nat), Taking(ch, h, tl), NEW ns, NEW nm, Writing(sh, ms, h, ns, nm)
  PROVE  Fine("live", app, ns, nm, rp, tl, rd)
<1>1. ToSet(ch) = {h} \cup ToSet(tl) /\ Distinct(tl) /\ h \notin ToSet(tl)
  BY HeldBy, DistinctKept DEF Fine, Taking
<1>2. Append(sh, h) \in Seq(Nat) /\ ToSet(Append(sh, h)) = ToSet(sh) \cup {h}
  BY HeldBy
<1>3. \A j \in Nat :
        /\ Cardinality(Places(sh, j)) \in Nat /\ Once(j, ToSet(rp)) \in Nat
        /\ Cardinality(Places(Append(sh, h), j)) + Once(j, ToSet(tl) \cup rd)
             = Cardinality(Places(sh, j)) + Once(j, ToSet(ch) \cup rd)
        /\ Once(j, ToSet(tl) \cup rd) <= Once(j, ToSet(ch) \cup rd)
        /\ Once(j, ToSet(tl) \cup rd) \in Nat /\ Once(j, ToSet(ch) \cup rd) \in Nat
        /\ Cardinality(Places(Append(sh, h), j)) \in Nat
  <2> SUFFICES ASSUME NEW j \in Nat
        PROVE /\ Cardinality(Places(sh, j)) \in Nat /\ Once(j, ToSet(rp)) \in Nat
              /\ Cardinality(Places(Append(sh, h), j)) + Once(j, ToSet(tl) \cup rd)
                   = Cardinality(Places(sh, j)) + Once(j, ToSet(ch) \cup rd)
              /\ Once(j, ToSet(tl) \cup rd) <= Once(j, ToSet(ch) \cup rd)
              /\ Once(j, ToSet(tl) \cup rd) \in Nat /\ Once(j, ToSet(ch) \cup rd) \in Nat
              /\ Cardinality(Places(Append(sh, h), j)) \in Nat
    OBVIOUS
  <2>1. Cardinality(Places(sh, j)) \in Nat /\ Cardinality(Places(Append(sh, h), j)) = Cardinality(Places(sh, j)) + (IF h = j THEN 1 ELSE 0)
    BY ZenonT(60), PlacesGrow
  <2>2. h \notin rd
    BY <1>1 DEF Fine
  <2> QED
    BY <1>1, <2>1, <2>2 DEF Once
<1>4. \A j \in Nat :
        /\ Cardinality(Places(Append(sh, h), j)) + Once(j, ToSet(rp)) + Once(j, ToSet(tl) \cup rd) <= 2
        /\ Cardinality(Places(sh, j)) + Once(j, ToSet(rp)) + Once(j, ToSet(tl) \cup rd) <= 2
  <2> SUFFICES ASSUME NEW j \in Nat
      PROVE  /\ Cardinality(Places(Append(sh, h), j)) + Once(j, ToSet(rp)) + Once(j, ToSet(tl) \cup rd) <= 2
             /\ Cardinality(Places(sh, j)) + Once(j, ToSet(rp)) + Once(j, ToSet(tl) \cup rd) <= 2
    OBVIOUS
  <2>1. Cardinality(Places(sh, j)) + Once(j, ToSet(rp)) + Once(j, ToSet(ch) \cup rd) <= 2
    BY DEF Fine
  <2>2. /\ Cardinality(Places(sh, j)) \in Nat /\ Once(j, ToSet(rp)) \in Nat
        /\ Once(j, ToSet(tl) \cup rd) \in Nat /\ Once(j, ToSet(ch) \cup rd) \in Nat
        /\ Once(j, ToSet(tl) \cup rd) <= Once(j, ToSet(ch) \cup rd)
        /\ Cardinality(Places(Append(sh, h), j)) \in Nat
    BY <1>3
  <2>3. Cardinality(Places(Append(sh, h), j)) + Once(j, ToSet(tl) \cup rd)
          = Cardinality(Places(sh, j)) + Once(j, ToSet(ch) \cup rd)
    BY <1>3
  <2>4. PICK p \in Nat, q \in Nat, x \in Nat, y \in Nat, z \in Nat :
          /\ p = Cardinality(Places(sh, j)) /\ q = Cardinality(Places(Append(sh, h), j))
          /\ x = Once(j, ToSet(rp)) /\ y = Once(j, ToSet(tl) \cup rd) /\ z = Once(j, ToSet(ch) \cup rd)
    BY <2>2
  <2>5. q + y = p + z /\ y <= z /\ p + x + z <= 2
    BY <2>1, <2>2, <2>3, <2>4
  <2>6. q + x + y <= 2 /\ p + x + y <= 2
    BY <2>5
  <2> QED
    BY <2>4, <2>6
<1>5. /\ Has(Append(sh, h), ms, rp, tl, rd) = Has(sh, ms, rp, ch, rd)
      /\ Has(sh, ms \cup {h}, rp, tl, rd) = Has(sh, ms, rp, ch, rd)
  BY <1>1, <1>2 DEF Has
<1>6. ToSet(tl) \cap rd = {}
  BY <1>1 DEF Fine
<1>7. Fine("live", app, Append(sh, h), ms, rp, tl, rd) /\ Fine("live", app, sh, ms \cup {h}, rp, tl, rd)
  BY <1>1, <1>4, <1>5, <1>6 DEF Fine
<1> QED
  BY <1>5, <1>7 DEF Writing

\* What is kept of a sequence are its last records.
LEMMA KeptIs ==
  ASSUME NEW s \in Seq(Nat)
  PROVE  \E d \in Nat : /\ d <= Len(s) /\ Kept(s) \in Seq(Nat) /\ Len(Kept(s)) = Len(s) - d
                        /\ \A k \in 1 .. Len(s) - d : Kept(s)[k] = s[k + d]
<1>1. Len(s) \in Nat /\ RingCapacity \in Nat /\ RingCapacity >= 1
  BY LogAssumption
<1>2. ASSUME NEW n \in Int PROVE Max({1, n}) = IF n > 1 THEN n ELSE 1
  <2>1. \E x \in {1, n} : \A y \in {1, n} : x >= y
    <3>1. CASE n > 1
      BY <3>1
    <3>2. CASE ~ (n > 1)
      BY <3>2
    <3> QED
      BY <3>1, <3>2
  <2>2. Max({1, n}) \in {1, n} /\ \A y \in {1, n} : Max({1, n}) >= y
    BY <2>1 DEF Max
  <2> QED
    BY <2>2
<1> DEFINE first == Max({1, Len(s) - RingCapacity + 1})
<1>3. first \in Nat /\ first >= 1 /\ first <= Len(s) + 1
  <2>0. Len(s) - RingCapacity + 1 \in Int
    BY <1>1
  <2>1. PICK n \in Int : n = Len(s) - RingCapacity + 1
    BY <2>0
  <2> QED
    BY <1>1, <1>2, <2>1
<1>4. Kept(s) = SubSeq(s, first, Len(s))
  BY DEF Kept
<1> HIDE DEF first
<1>5. /\ SubSeq(s, first, Len(s)) \in Seq(Nat) /\ Len(SubSeq(s, first, Len(s))) = Len(s) - (first - 1)
      /\ \A k \in 1 .. Len(s) - (first - 1) : SubSeq(s, first, Len(s))[k] = s[k + (first - 1)]
  <2>1. first \in Int /\ Len(s) \in Int /\ \A i \in first .. Len(s) : s[i] \in Nat
    BY <1>1, <1>3
  <2>2. /\ SubSeq(s, first, Len(s)) \in Seq(Nat)
        /\ Len(SubSeq(s, first, Len(s))) = IF first <= Len(s) THEN Len(s) - first + 1 ELSE 0
        /\ \A k \in 1 .. Len(s) - first + 1 : SubSeq(s, first, Len(s))[k] = s[first + k - 1]
    BY <2>1, SubSeqProperties
  <2>3. Len(s) - first + 1 = Len(s) - (first - 1) /\ \A k \in Int : first + k - 1 = k + (first - 1)
    BY <1>1, <1>3
  <2>4. \A k \in 1 .. Len(s) - (first - 1) : k \in Int /\ k \in 1 .. Len(s) - first + 1
    BY <1>1, <2>3
  <2>5. Len(SubSeq(s, first, Len(s))) = Len(s) - (first - 1)
    BY <1>1, <1>3, <2>2
  <2>6. \A k \in 1 .. Len(s) - (first - 1) : SubSeq(s, first, Len(s))[k] = s[k + (first - 1)]
    BY <2>2, <2>3, <2>4, Zenon
  <2> QED
    BY <2>2, <2>5, <2>6
<1>6. first - 1 \in Nat /\ first - 1 <= Len(s)
  BY <1>1, <1>3
<1> QED
  BY <1>4, <1>5, <1>6

\* Values of the next state, once they are known to be fine.
LEMMA ViewerNext ==
  ASSUME NEW v, NEW stage, NEW app, NEW sh, NEW ms, NEW rp, NEW ch, NEW rd,
         viewer'[v].stage = stage, appended' = app, shown'[v] = sh, missed'[v] = ms,
         viewer'[v].replay = rp, viewer'[v].chan = ch, Riding(v)' = rd,
         Fine(stage, app, sh, ms, rp, ch, rd)
  PROVE  ViewerFine(v)' /\ HasNow(v)' = Has(sh, ms, rp, ch, rd)
BY DEF ViewerFine, Fine, Has, HasNow, Once, Places, Distinct, ToSet

\* A viewer in a state that is typed.
Seats == {"away", "subscribed", "replay", "live", "gone"}

LEMMA ViewerIs ==
  ASSUME LogIInv, NEW v \in Viewers
  PROVE  \E stage \in Seats, app \in Nat, sh \in Seq(Nat), ms \in SUBSET Nat, rp \in Seq(Nat), ch \in Seq(Nat), rd \in SUBSET Nat :
           /\ stage = viewer[v].stage /\ app = appended /\ sh = shown[v] /\ ms = missed[v]
           /\ rp = viewer[v].replay /\ ch = viewer[v].chan /\ rd = Riding(v)
           /\ Fine(stage, app, sh, ms, rp, ch, rd)
           /\ HasNow(v) = Has(sh, ms, rp, ch, rd)
<1>1. /\ viewer[v].stage \in Seats /\ appended \in Nat /\ shown[v] \in Seq(Nat) /\ missed[v] \in SUBSET Nat
      /\ viewer[v].replay \in Seq(Nat) /\ viewer[v].chan \in Seq(Nat)
  BY DEF LogIInv, LogTyped, Seats
<1>2. Riding(v) \in SUBSET Nat
  BY DEF LogIInv, LogTyped, Riding
<1>3. Fine(viewer[v].stage, appended, shown[v], missed[v], viewer[v].replay, viewer[v].chan, Riding(v))
  BY DEF LogIInv, ViewerFine
<1> QED
  BY <1>1, <1>2, <1>3 DEF HasNow

\* A step that leaves a viewer alone, but for whether it is subscribed.
LEMMA OtherViewer ==
  ASSUME LogIInv, NEW v \in Viewers,
         viewer'[v] = viewer[v], shown'[v] = shown[v], missed'[v] = missed[v], appended' = appended,
         Riding(v)' = Riding(v), v \in subs' => v \in subs,
         ~ ringClosed' => ~ ringClosed /\ (v \in subs => v \in subs')
  PROVE  ViewerFine(v)' /\ ViewerWhole(v)'
<1>1. PICK stage \in Seats, app \in Nat, sh \in Seq(Nat), ms \in SUBSET Nat, rp \in Seq(Nat), ch \in Seq(Nat), rd \in SUBSET Nat :
        /\ stage = viewer[v].stage /\ app = appended /\ sh = shown[v] /\ ms = missed[v]
        /\ rp = viewer[v].replay /\ ch = viewer[v].chan /\ rd = Riding(v)
        /\ Fine(stage, app, sh, ms, rp, ch, rd)
        /\ HasNow(v) = Has(sh, ms, rp, ch, rd)
  BY ViewerIs
<1>2. ViewerFine(v)' /\ HasNow(v)' = HasNow(v)
  BY <1>1, ViewerNext
<1> QED
  BY <1>2 DEF LogIInv, ViewerWhole, Upward

LEMMA InitLog == LogInit => LogIInv
<1> SUFFICES ASSUME LogInit PROVE LogIInv
  OBVIOUS
<1>1. Idle \in [rec : Nat, to : SUBSET Viewers] /\ Idle.to = {}
  BY DEF Idle
<1>2. LogTyped
  <2>1. <<>> \in Seq(Nat)
    OBVIOUS
  <2> QED
    BY <1>1, <2>1 DEF LogInit, LogTyped
<1>3. RingSound /\ LoggersSound
  BY <1>1 DEF LogInit, RingSound, LoggersSound, Held
<1>4. ASSUME NEW v \in Viewers PROVE ViewerFine(v) /\ ViewerWhole(v)
  <2>1. /\ viewer[v].stage = "away" /\ viewer[v].replay = <<>> /\ viewer[v].chan = <<>>
        /\ shown[v] = <<>> /\ missed[v] = {} /\ appended = 0 /\ subs = {}
    BY DEF LogInit
  <2>2. Riding(v) = {}
    BY <1>1 DEF Riding, LogInit
  <2>3. Fine("away", 0, <<>>, {}, <<>>, <<>>, {})
    <3>1. ToSet(<<>>) = {} /\ Distinct(<<>>)
      BY DEF ToSet, Distinct
    <3>2. \A i \in Nat : Places(<<>>, i) = {} /\ Cardinality({}) = 0
      BY FS_EmptySet DEF Places
    <3>3. Has(<<>>, {}, <<>>, <<>>, {}) = {}
      BY <3>1 DEF Has
    <3>4. \A i \in Nat : Cardinality(Places(<<>>, i)) + Once(i, ToSet(<<>>)) + Once(i, ToSet(<<>>) \cup {}) <= 2
      <4>1. ToSet(<<>>) \cup {} = {}
        BY <3>1
      <4>2. \A i \in Nat : Once(i, {}) = 0
        BY DEF Once
      <4>3. \A i \in Nat : Cardinality(Places(<<>>, i)) = 0
        BY <3>2
      <4> QED
        BY <3>1, <4>1, <4>2, <4>3
    <3> QED
      BY <3>1, <3>3, <3>4 DEF Fine
  <2> QED
    BY <2>1, <2>2, <2>3 DEF ViewerFine, ViewerWhole
<1> QED
  BY <1>2, <1>3, <1>4 DEF LogIInv

LEMMA RingGrows ==
  ASSUME NEW r \in Seq(Nat), NEW a \in Nat, \A k \in DOMAIN r : r[k] = a - Len(r) + k
  PROVE  \E q : /\ q = Kept(Append(r, a + 1)) /\ q \in Seq(Nat)
                /\ \A k \in DOMAIN q : q[k] = (a + 1) - Len(q) + k
<1>1. /\ Append(r, a + 1) \in Seq(Nat) /\ Len(Append(r, a + 1)) = Len(r) + 1 /\ Append(r, a + 1)[Len(r) + 1] = a + 1
      /\ \A k \in 1 .. Len(r) : Append(r, a + 1)[k] = r[k]
  OBVIOUS
<1>2. PICK s \in Seq(Nat) : s = Append(r, a + 1)
  BY <1>1
<1>3. Len(r) \in Nat /\ DOMAIN r = 1 .. Len(r) /\ Len(s) = Len(r) + 1
  BY <1>1, <1>2
<1>4. ASSUME NEW k \in 1 .. Len(s) PROVE s[k] = (a + 1) - Len(s) + k
  <2>1. CASE k = Len(r) + 1
    BY <1>1, <1>2, <1>3, <2>1
  <2>2. CASE k \in 1 .. Len(r)
    <3>1. s[k] = a - Len(r) + k
      BY <1>1, <1>2, <1>3, <2>2
    <3> QED
      BY <1>3, <2>2, <3>1
  <2> QED
    BY <1>3, <2>1, <2>2
<1>5. PICK d \in Nat : /\ d <= Len(s) /\ Kept(s) \in Seq(Nat) /\ Len(Kept(s)) = Len(s) - d
                       /\ \A k \in 1 .. Len(s) - d : Kept(s)[k] = s[k + d]
  BY KeptIs
<1>6. PICK q \in Seq(Nat) : q = Kept(s) /\ Len(q) = Len(s) - d /\ \A k \in 1 .. Len(s) - d : q[k] = s[k + d]
  BY <1>5
<1>7. ASSUME NEW k \in DOMAIN q PROVE q[k] = (a + 1) - Len(q) + k
  <2>1. k \in 1 .. Len(s) - d /\ k \in Nat /\ Len(s) \in Nat
    BY <1>6
  <2>2. k + d \in 1 .. Len(s)
    <3>1. \A x \in Nat : k \in 1 .. x - d => k + d \in 1 .. x
      OBVIOUS
    <3> QED
      BY <2>1, <3>1
  <2>3. q[k] = (a + 1) - Len(s) + (k + d)
    BY <2>1, <2>2, <1>4, <1>6
  <2> QED
    BY <2>1, <2>3, <1>6
<1> QED
  BY <1>2, <1>6, <1>7

LEMMA HandleKept == ASSUME LogIInv, NEW l \in Loggers, Handle(l) PROVE LogIInv'
<1>1. /\ appended \in Nat /\ ring \in Seq(Nat) /\ subs \subseteq Viewers
      /\ logger \in [Loggers -> [rec : Nat, to : SUBSET Viewers]]
  BY DEF LogIInv, LogTyped
<1>2. PICK n \in Nat : n = appended + 1
  BY <1>1
<1>3. PICK h \in [rec : Nat, to : SUBSET Viewers] :
        /\ h = (IF subs = {} THEN Idle ELSE [rec |-> n, to |-> subs])
        /\ h.to = subs /\ (subs # {} => h.rec = n)
  <2>1. Idle \in [rec : Nat, to : SUBSET Viewers] /\ Idle.to = {}
    BY DEF Idle
  <2>2. PICK t \in SUBSET Viewers : t = subs
    BY <1>1
  <2>3. [rec |-> n, to |-> t] \in [rec : Nat, to : SUBSET Viewers]
    OBVIOUS
  <2> QED
    BY <2>1, <2>2, <2>3
<1>4. /\ appended' = n /\ ring' = Kept(Append(ring, n)) /\ logger' = [logger EXCEPT ![l] = h]
      /\ logger[l].to = {} /\ ~ ringClosed
      /\ UNCHANGED <<subs, ringClosed, viewer, shown, missed>>
  BY <1>2, <1>3 DEF Handle, Targets, Idle
<1>5. /\ logger' \in [Loggers -> [rec : Nat, to : SUBSET Viewers]] /\ logger'[l] = h
      /\ \A k \in Loggers \ {l} : logger'[k] = logger[k]
  BY <1>1, <1>4
<1>6. ring' \in Seq(Nat) /\ RingSound'
  <2>1. PICK r \in Seq(Nat), a \in Nat : r = ring /\ a = appended
    BY <1>1
  <2>2. \A k \in DOMAIN r : r[k] = a - Len(r) + k
    BY <2>1 DEF LogIInv, RingSound
  <2>3. PICK q : /\ q = Kept(Append(r, a + 1)) /\ q \in Seq(Nat)
                 /\ \A k \in DOMAIN q : q[k] = (a + 1) - Len(q) + k
    BY <2>2, RingGrows
  <2>4. ring' = q /\ appended' = a + 1
    BY <1>2, <1>4, <2>1, <2>3
  <2> QED
    BY <2>3, <2>4 DEF RingSound
<1>7. LogTyped'
  BY <1>4, <1>5, <1>6 DEF LogIInv, LogTyped
<1>8. LoggersSound'
  <2>1. \A k \in Loggers : Held(k) => logger[k].rec <= appended /\ logger[k].rec \in Nat
    BY <1>1 DEF LogIInv, LoggersSound
  <2>2. ASSUME NEW k \in Loggers, Held(k)'
        PROVE  IF k = l THEN logger'[k].rec = n ELSE Held(k) /\ logger'[k].rec = logger[k].rec /\ logger[k].rec < n
    <3>1. CASE k = l
      <4>1. subs # {}
        BY <1>3, <1>5, <2>2, <3>1 DEF Held
      <4> QED
        BY <1>3, <1>5, <3>1, <4>1
    <3>2. CASE k # l
      <4>1. logger'[k] = logger[k] /\ Held(k)
        BY <1>5, <2>2, <3>2 DEF Held
      <4> QED
        BY <1>1, <1>2, <2>1, <3>2, <4>1
    <3> QED
      BY <3>1, <3>2
  <2>3. ASSUME NEW k \in Loggers, Held(k)' PROVE logger'[k].rec <= n
    <3>1. CASE k = l
      BY <2>2, <2>3, <3>1
    <3>2. CASE k # l
      <4>1. logger'[k].rec = logger[k].rec /\ logger[k].rec < n /\ logger[k].rec \in Nat
        BY <2>1, <2>2, <2>3, <3>2
      <4> QED
        BY <4>1
    <3> QED
      BY <3>1, <3>2
  <2>4. ASSUME NEW k \in Loggers, NEW m \in Loggers, Held(k)', Held(m)', logger'[k].rec = logger'[m].rec
        PROVE  k = m
    BY <2>2, <2>4, <1>1, <1>2 DEF LogIInv, LoggersSound
  <2> QED
    BY <2>3, <2>4, <1>4 DEF LoggersSound
<1>9. ASSUME NEW v \in Viewers PROVE ViewerFine(v)' /\ ViewerWhole(v)'
  <2>1. PICK stage \in Seats, app \in Nat, sh \in Seq(Nat), ms \in SUBSET Nat, rp \in Seq(Nat), ch \in Seq(Nat), rd \in SUBSET Nat :
        /\ stage = viewer[v].stage /\ app = appended /\ sh = shown[v] /\ ms = missed[v]
        /\ rp = viewer[v].replay /\ ch = viewer[v].chan /\ rd = Riding(v)
        /\ Fine(stage, app, sh, ms, rp, ch, rd)
        /\ HasNow(v) = Has(sh, ms, rp, ch, rd)
    BY ViewerIs
  <2>2. CASE v \notin subs
    <3>1. Riding(v)' = rd
      BY <1>3, <1>4, <1>5, <2>1, <2>2 DEF Riding
    <3>2. Fine(stage, n, sh, ms, rp, ch, rd)
      BY <1>2, <2>1, HandleFine
    <3>3. ViewerFine(v)'
      BY <1>4, <2>1, <3>1, <3>2, ViewerNext
    <3> QED
      BY <2>2, <3>3, <1>4 DEF LogIInv, ViewerWhole
  <2>3. CASE v \in subs
    <3>1. Riding(v)' = rd \cup {n}
      <4>1. \A k \in Loggers : v \in logger'[k].to <=> (k = l \/ v \in logger[k].to)
        BY <1>3, <1>5, <2>3
      <4>2. logger'[l].rec = n /\ v \notin logger[l].to
        BY <1>3, <1>4, <1>5, <2>3
      <4>3. \A k \in Loggers : v \in logger[k].to => logger'[k].rec = logger[k].rec
        BY <1>5, <4>2
      <4> QED
        BY <2>1, <4>1, <4>2, <4>3 DEF Riding
    <3>2. stage # "away"
      BY <2>1, <2>3 DEF LogIInv, ViewerWhole
    <3>3. PICK rn : rn = rd \cup {n}
      OBVIOUS
    <3>4. ViewerFine(v)' /\ HasNow(v)' = HasNow(v) \cup {n}
      <4>0. n = app + 1 /\ n \in Nat
        BY <1>2, <2>1
      <4>1. Fine(stage, n, sh, ms, rp, ch, rn) /\ Has(sh, ms, rp, ch, rn) = Has(sh, ms, rp, ch, rd) \cup {n}
        <5>1. Fine(stage, app, sh, ms, rp, ch, rd)
          BY <2>1
        <5>2. /\ app \in Nat /\ sh \in Seq(Nat) /\ ms \in SUBSET Nat /\ rp \in Seq(Nat)
              /\ ch \in Seq(Nat) /\ rd \in SUBSET Nat
          OBVIOUS
        <5>3. Fine(stage, n, sh, ms, rp, ch, rn)
          <6>1. /\ rn \in SUBSET Nat /\ rd \subseteq rn /\ n \in rn /\ rn \subseteq rd \cup {n}
                /\ n > app
            BY <3>3, <4>0
          <6> QED
            BY <6>1, <5>1, <3>2, HandleRides
        <5>4. Has(sh, ms, rp, ch, rn) = Has(sh, ms, rp, ch, rd) \cup {n}
          BY <3>3 DEF Has
        <5> QED
          BY <5>3, <5>4
      <4>2. /\ viewer'[v].stage = stage /\ appended' = n /\ shown'[v] = sh /\ missed'[v] = ms
            /\ viewer'[v].replay = rp /\ viewer'[v].chan = ch /\ Riding(v)' = rn
        BY <1>4, <2>1, <3>1, <3>3
      <4>3. ViewerFine(v)' /\ HasNow(v)' = Has(sh, ms, rp, ch, rn)
        <5>1. Fine(stage, n, sh, ms, rp, ch, rn)
          BY <4>1
        <5>2. ViewerFine(v)'
          BY <5>1, <4>2 DEF ViewerFine
        <5>3. HasNow(v)' = Has(sh, ms, rp, ch, rn)
          BY <4>2 DEF HasNow
        <5> QED
          BY <5>2, <5>3
      <4> QED
        BY <2>1, <4>1, <4>3
    <3>5. viewer[v].stage \in {"subscribed", "replay", "live"} => Upward(HasNow(v)', n)
      <4> SUFFICES ASSUME viewer[v].stage \in {"subscribed", "replay", "live"}, NEW i \in HasNow(v) \cup {n}
                   PROVE  i .. n \subseteq HasNow(v) \cup {n}
        BY <3>4 DEF Upward
      <4>1. \A j \in HasNow(v) : j \in Nat /\ j .. appended \subseteq HasNow(v)
        BY <1>4, <2>1, HeldBy DEF LogIInv, ViewerWhole, Upward, Has
      <4>2. CASE i \in HasNow(v)
        <5>1. i \in Nat /\ i .. n \subseteq (i .. appended) \cup {n}
          BY <4>1, <4>2, <1>1, <1>2
        <5> QED
          BY <4>1, <4>2, <5>1
      <4>3. CASE i = n
        <5>1. i .. n = {n}
          BY <4>3
        <5> QED
          BY <5>1
      <4> QED
        BY <4>2, <4>3
    <3> QED
      BY <3>2, <3>4, <3>5, <2>1, <2>3, <1>4 DEF ViewerWhole, Upward
  <2> QED
    BY <2>2, <2>3
<1> QED
  BY <1>6, <1>7, <1>8, <1>9 DEF LogIInv

\* A step of one viewer after which it has what it had.
LEMMA ViewerMoves ==
  ASSUME LogIInv, NEW v \in Viewers,
         NEW stage, NEW app, NEW sh, NEW ms, NEW rp, NEW ch, NEW rd,
         viewer'[v].stage = stage, appended' = app, shown'[v] = sh, missed'[v] = ms,
         viewer'[v].replay = rp, viewer'[v].chan = ch, Riding(v)' = rd,
         Fine(stage, app, sh, ms, rp, ch, rd),
         app = appended, Has(sh, ms, rp, ch, rd) = HasNow(v),
         viewer[v].stage # "away", stage # "away",
         stage # "gone" => viewer[v].stage \in {"subscribed", "replay", "live"},
         subs' = subs, ringClosed' = ringClosed
  PROVE  ViewerFine(v)' /\ ViewerWhole(v)'
<1>1. ViewerFine(v)' /\ HasNow(v)' = HasNow(v)
  BY ViewerNext
<1> QED
  BY <1>1 DEF LogIInv, ViewerWhole, Upward

\* A viewer's record, with one field of it changed.
Viewed == [stage : Seats, chan : Seq(Nat), replay : Seq(Nat), filter : Filters \cup {{}}]

LEMMA Chained ==
  ASSUME NEW w \in Viewed, NEW c \in Seq(Nat)
  PROVE  /\ \E q \in Viewed : /\ q = [w EXCEPT !.chan = c]
                              /\ q.stage = w.stage /\ q.chan = c /\ q.replay = w.replay /\ q.filter = w.filter
         /\ \E q \in Viewed : /\ q = [w EXCEPT !.replay = c]
                              /\ q.stage = w.stage /\ q.chan = w.chan /\ q.replay = c /\ q.filter = w.filter
<1>1. /\ [w EXCEPT !.chan = c] \in Viewed /\ [w EXCEPT !.replay = c] \in Viewed
  BY DEF Viewed
<1> QED
  BY <1>1 DEF Viewed

LEMMA Staged ==
  ASSUME NEW w \in Viewed, NEW s \in Seats, NEW f \in Filters \cup {{}}
  PROVE  /\ \E q \in Viewed : /\ q = [w EXCEPT !.stage = s]
                              /\ q.stage = s /\ q.chan = w.chan /\ q.replay = w.replay /\ q.filter = w.filter
         /\ \E q \in Viewed : /\ q = [w EXCEPT !.filter = f]
                              /\ q.stage = w.stage /\ q.chan = w.chan /\ q.replay = w.replay /\ q.filter = f
<1>1. [w EXCEPT !.stage = s] \in Viewed /\ [w EXCEPT !.filter = f] \in Viewed
  BY DEF Viewed
<1> QED
  BY <1>1 DEF Viewed

LEMMA ViewedIs ==
  ASSUME LogIInv
  PROVE  /\ viewer \in [Viewers -> Viewed] /\ shown \in [Viewers -> Seq(Nat)]
         /\ missed \in [Viewers -> SUBSET Nat]
         /\ logger \in [Loggers -> [rec : Nat, to : SUBSET Viewers]]
BY DEF LogIInv, LogTyped, Viewed, Seats

\* A step that changes neither ring nor loggers nor who is subscribed keeps
\* the rest, when it keeps every viewer.
LEMMA RestKept ==
  ASSUME LogIInv, UNCHANGED <<ring, appended, subs, ringClosed, logger>>,
         viewer' \in [Viewers -> Viewed], shown' \in [Viewers -> Seq(Nat)],
         missed' \in [Viewers -> SUBSET Nat],
         NEW v \in Viewers, ViewerFine(v)', ViewerWhole(v)',
         \A w \in Viewers \ {v} : viewer'[w] = viewer[w] /\ shown'[w] = shown[w] /\ missed'[w] = missed[w]
  PROVE  LogIInv'
<1>1. LogTyped' /\ RingSound' /\ LoggersSound'
  BY DEF LogIInv, LogTyped, RingSound, LoggersSound, Held, Viewed, Seats
<1>2. ASSUME NEW w \in Viewers \ {v} PROVE ViewerFine(w)' /\ ViewerWhole(w)'
  <2>1. Riding(w)' = Riding(w)
    BY DEF Riding
  <2> QED
    BY <2>1, OtherViewer
<1> QED
  BY <1>1, <1>2 DEF LogIInv

LEMMA CloseKept == ASSUME LogIInv, Close PROVE LogIInv'
<1>1. LogTyped' /\ RingSound' /\ LoggersSound'
  BY DEF LogIInv, LogTyped, RingSound, LoggersSound, Held, Close
<1>2. ASSUME NEW v \in Viewers PROVE ViewerFine(v)' /\ ViewerWhole(v)'
  <2>1. Riding(v)' = Riding(v)
    BY DEF Riding, Close
  <2>2. /\ viewer'[v] = viewer[v] /\ shown'[v] = shown[v] /\ missed'[v] = missed[v] /\ appended' = appended
        /\ v \notin subs' /\ ringClosed'
    BY DEF Close
  <2> QED
    BY <2>1, <2>2, OtherViewer
<1> QED
  BY <1>1, <1>2 DEF LogIInv

LEMMA SubscribeKept == ASSUME LogIInv, NEW v \in Viewers, Subscribe(v) PROVE LogIInv'
<1>1. /\ ring \in Seq(Nat) /\ appended \in Nat /\ subs \subseteq Viewers /\ ringClosed \in BOOLEAN
  BY DEF LogIInv, LogTyped
<1>0. PICK w \in Viewed : w = viewer[v]
  BY ViewedIs
<1>2. PICK q \in Viewed :
        /\ q = [w EXCEPT !.stage = "subscribed"] /\ q.stage = "subscribed"
        /\ q.chan = w.chan /\ q.replay = w.replay /\ q.filter = w.filter
  <2>1. "subscribed" \in Seats /\ {} \in Filters \cup {{}}
    BY DEF Seats
  <2> QED
    BY <2>1, Staged
<1>3. viewer' = [viewer EXCEPT ![v] = q] /\ viewer[v].stage = "away" /\ subs' = subs \cup {v}
      /\ UNCHANGED <<ring, appended, ringClosed, logger, shown, missed>>
  BY <1>0, <1>2, ViewedIs DEF Subscribe
<1>4. viewer' \in [Viewers -> Viewed] /\ viewer'[v] = q /\ \A u \in Viewers \ {v} : viewer'[u] = viewer[u]
  BY <1>3, ViewedIs
<1>5. LogTyped' /\ RingSound' /\ LoggersSound'
  BY <1>3, <1>4 DEF LogIInv, LogTyped, RingSound, LoggersSound, Held, Viewed, Seats
<1>6. ASSUME NEW u \in Viewers PROVE ViewerFine(u)' /\ ViewerWhole(u)'
  <2>1. Riding(u)' = Riding(u)
    BY <1>3 DEF Riding
  <2>2. CASE u # v
    <3>1. /\ viewer'[u] = viewer[u] /\ shown'[u] = shown[u] /\ missed'[u] = missed[u] /\ appended' = appended
          /\ (u \in subs' <=> u \in subs) /\ ringClosed' = ringClosed
      BY <1>3, <1>4, <2>2
    <3> QED
      BY <2>1, <3>1, OtherViewer
  <2>3. CASE u = v
    <3>1. PICK stage \in Seats, app \in Nat, sh \in Seq(Nat), ms \in SUBSET Nat, rp \in Seq(Nat), ch \in Seq(Nat), rd \in SUBSET Nat :
            /\ stage = viewer[v].stage /\ app = appended /\ sh = shown[v] /\ ms = missed[v]
            /\ rp = viewer[v].replay /\ ch = viewer[v].chan /\ rd = Riding(v)
            /\ Fine(stage, app, sh, ms, rp, ch, rd)
            /\ HasNow(v) = Has(sh, ms, rp, ch, rd)
      BY ViewerIs
    <3>2. sh = <<>> /\ rp = <<>> /\ ms = {} /\ ch = <<>> /\ rd = {} /\ stage = "away"
      BY <1>3, <3>1 DEF Fine
    <3>3. Fine("subscribed", app, sh, ms, rp, ch, rd)
      BY <3>1, <3>2 DEF Fine
    <3>4. ViewerFine(v)' /\ HasNow(v)' = Has(sh, ms, rp, ch, rd)
      <4>1. viewer'[v].stage = "subscribed" /\ appended' = app /\ shown'[v] = sh /\ missed'[v] = ms
            /\ viewer'[v].replay = rp /\ viewer'[v].chan = ch /\ Riding(v)' = rd
        BY <1>0, <1>2, <1>3, <1>4, <2>1, <2>3, <3>1
      <4> QED
        BY <3>3, <4>1, ViewerNext
    <3>5. Has(sh, ms, rp, ch, rd) = {}
      BY <3>2 DEF Has, ToSet
    <3>6. v \in subs' /\ Upward(HasNow(v)', appended')
      BY <1>3, <3>4, <3>5 DEF Upward
    <3> QED
      BY <2>3, <3>4, <3>6, <1>2, <1>4 DEF ViewerWhole, Upward
  <2> QED
    BY <2>2, <2>3
<1> QED
  BY <1>5, <1>6 DEF LogIInv

\* The records of the ring are the last ones, each once.
LEMMA RingHolds ==
  ASSUME NEW r \in Seq(Nat), NEW a \in Nat, \A k \in DOMAIN r : r[k] = a - Len(r) + k
  PROVE  Distinct(r) /\ ToSet(r) \subseteq Nat /\ \A i \in ToSet(r) : i <= a /\ i .. a \subseteq ToSet(r)
<1>1. Len(r) \in Nat /\ DOMAIN r = 1 .. Len(r)
  OBVIOUS
<1>2. Distinct(r)
  BY <1>1 DEF Distinct
<1>3. ASSUME NEW i \in ToSet(r) PROVE i <= a /\ i .. a \subseteq ToSet(r)
  <2>1. PICK k \in 1 .. Len(r) : r[k] = i
    BY <1>1 DEF ToSet
  <2>2. i = a - Len(r) + k /\ i \in Nat
    BY <2>1, <1>1
  <2>3. ASSUME NEW j \in i .. a PROVE j \in ToSet(r)
    <3>0. j \in Int /\ i <= j /\ j <= a /\ k \in Int /\ 1 <= k
      BY <2>2
    <3>1. PICK m \in 1 .. Len(r) : m = j - a + Len(r)
      <4>1. j - a + Len(r) \in Int /\ 1 <= j - a + Len(r) /\ j - a + Len(r) <= Len(r)
        BY <1>1, <2>2, <3>0
      <4>2. PICK m \in Int : m = j - a + Len(r)
        BY <4>1
      <4>3. m \in 1 .. Len(r)
        BY <1>1, <4>1, <4>2
      <4> QED
        BY <4>2, <4>3
    <3>2. r[m] = j
      <4>1. r[m] = a - Len(r) + m
        BY <1>1
      <4> QED
        BY <1>1, <3>0, <3>1, <4>1
    <3> QED
      BY <1>1, <3>1, <3>2 DEF ToSet
  <2> QED
    BY <1>1, <2>1, <2>2, <2>3
<1>4. ToSet(r) \subseteq Nat
  BY <1>1 DEF ToSet
<1> QED
  BY <1>2, <1>3, <1>4

LEMMA SnapshotFine ==
  ASSUME NEW app \in Nat, NEW sh \in Seq(Nat), NEW ms \in SUBSET Nat, NEW rp \in Seq(Nat),
         NEW ch \in Seq(Nat), NEW rd \in SUBSET Nat, Fine("subscribed", app, sh, ms, rp, ch, rd),
         NEW r \in Seq(Nat), Distinct(r), \A i \in ToSet(r) : i <= app
  PROVE  Fine("replay", app, sh, ms, r, ch, rd)
<1>1. sh = <<>> /\ rp = <<>> /\ ToSet(rp) = {} /\ ToSet(sh) = {}
  BY DEF Fine, ToSet
<1>2. Has(sh, ms, r, ch, rd) = Has(sh, ms, rp, ch, rd) \cup ToSet(r)
  BY <1>1 DEF Has
<1>3. ASSUME NEW i \in Nat
      PROVE  Cardinality(Places(sh, i)) + Once(i, ToSet(r)) + Once(i, ToSet(ch) \cup rd) <= 2
  <2>1. Places(sh, i) = {}
    BY <1>1 DEF Places
  <2>2. Cardinality(Places(sh, i)) = 0
    BY <2>1, FS_EmptySet
  <2>3. Once(i, ToSet(r)) \in {0, 1} /\ Once(i, ToSet(ch) \cup rd) \in {0, 1}
    BY DEF Once
  <2> QED
    BY <2>2, <2>3
<1> QED
  BY <1>2, <1>3 DEF Fine

LEMMA SnapshotKept == ASSUME LogIInv, NEW v \in Viewers, Snapshot(v) PROVE LogIInv'
<1>1. PICK r \in Seq(Nat) : r = ring
  BY DEF LogIInv, LogTyped
<1>0. PICK w \in Viewed : w = viewer[v]
  BY ViewedIs
<1>2. PICK q \in Viewed :
        /\ q = [w EXCEPT !.stage = "replay", !.replay = r] /\ q.stage = "replay"
        /\ q.chan = w.chan /\ q.replay = r /\ q.filter = w.filter
  <2>1. [w EXCEPT !.stage = "replay", !.replay = r] \in Viewed
    BY DEF Viewed, Seats
  <2> QED
    BY <2>1 DEF Viewed
<1>3. viewer' = [viewer EXCEPT ![v] = q] /\ viewer[v].stage = "subscribed"
      /\ UNCHANGED <<ring, appended, subs, ringClosed, logger, shown, missed>>
  BY <1>0, <1>1, <1>2, ViewedIs DEF Snapshot
<1>4. viewer' \in [Viewers -> Viewed] /\ viewer'[v] = q /\ \A u \in Viewers \ {v} : viewer'[u] = viewer[u]
  BY <1>3, ViewedIs
<1>5. PICK stage \in Seats, app \in Nat, sh \in Seq(Nat), ms \in SUBSET Nat, rp \in Seq(Nat), ch \in Seq(Nat), rd \in SUBSET Nat :
        /\ stage = viewer[v].stage /\ app = appended /\ sh = shown[v] /\ ms = missed[v]
        /\ rp = viewer[v].replay /\ ch = viewer[v].chan /\ rd = Riding(v)
        /\ Fine(stage, app, sh, ms, rp, ch, rd)
        /\ HasNow(v) = Has(sh, ms, rp, ch, rd)
  BY ViewerIs
<1>6. /\ Distinct(r) /\ ToSet(r) \subseteq Nat
      /\ \A i \in ToSet(r) : i <= app /\ i .. app \subseteq ToSet(r)
  <2>1. \A k \in DOMAIN r : r[k] = app - Len(r) + k
    BY <1>1, <1>5 DEF LogIInv, RingSound
  <2> QED
    BY <2>1, RingHolds
<1>7. /\ Fine("replay", app, sh, ms, r, ch, rd)
      /\ Has(sh, ms, r, ch, rd) = Has(sh, ms, rp, ch, rd) \cup ToSet(r)
  <2>1. Fine("subscribed", app, sh, ms, rp, ch, rd)
    BY <1>3, <1>5
  <2>2. Distinct(r) /\ \A i \in ToSet(r) : i <= app
    BY <1>6
  <2>3. Fine("replay", app, sh, ms, r, ch, rd)
    BY <2>1, <2>2, SnapshotFine
  <2>4. ToSet(rp) = {}
    BY <2>1 DEF Fine, ToSet
  <2> QED
    BY <2>3, <2>4 DEF Has
<1>8. ViewerFine(v)' /\ HasNow(v)' = Has(sh, ms, r, ch, rd)
  <2>1. Riding(v)' = rd
    BY <1>3, <1>5 DEF Riding
  <2>2. viewer'[v].stage = "replay" /\ appended' = app /\ shown'[v] = sh /\ missed'[v] = ms
        /\ viewer'[v].replay = r /\ viewer'[v].chan = ch
    BY <1>0, <1>2, <1>3, <1>4, <1>5
  <2> QED
    BY ZenonT(60), <2>1, <2>2, <1>7, ViewerNext
<1>9. ViewerWhole(v)'
  <2>1. viewer'[v].stage = "replay" /\ appended' = app /\ subs' = subs /\ ringClosed' = ringClosed
    BY <1>2, <1>3, <1>4, <1>5
  <2>2. HasNow(v)' = HasNow(v) \cup ToSet(r)
    BY <1>5, <1>7, <1>8
  <2>3. ~ ringClosed => v \in subs /\ Upward(HasNow(v), app)
    BY <1>3, <1>5 DEF LogIInv, ViewerWhole
  <2>4. ~ ringClosed => Upward(HasNow(v)', app)
    BY <2>2, <2>3, <1>6 DEF Upward
  <2> QED
    BY <2>1, <2>3, <2>4 DEF ViewerWhole, Upward
<1> QED
  BY <1>3, <1>4, <1>8, <1>9, RestKept, ViewedIs

LEMMA LaterFine ==
  ASSUME NEW stage, NEW app, NEW sh, NEW ms, NEW rp, NEW ch, NEW rd, Fine(stage, app, sh, ms, rp, ch, rd),
         NEW later, later \notin {"away", "subscribed"}
  PROVE  Fine(later, app, sh, ms, rp, ch, rd)
BY DEF Fine

\* A viewer goes on to a later stage, or asks for another filter.
LEMMA StageKept ==
  ASSUME LogIInv, NEW v \in Viewers, NEW q \in Viewed, viewer' = [viewer EXCEPT ![v] = q],
         q.chan = viewer[v].chan, q.replay = viewer[v].replay, q.stage \in {"live", "gone"},
         viewer[v].stage \in {"replay", "live", "gone"}, q.stage = "live" => viewer[v].stage # "gone",
         UNCHANGED <<ring, appended, subs, ringClosed, logger, shown, missed>>
  PROVE  LogIInv'
<1>1. viewer' \in [Viewers -> Viewed] /\ viewer'[v] = q /\ \A u \in Viewers \ {v} : viewer'[u] = viewer[u]
  BY ViewedIs
<1>2. PICK stage \in Seats, app \in Nat, sh \in Seq(Nat), ms \in SUBSET Nat, rp \in Seq(Nat), ch \in Seq(Nat), rd \in SUBSET Nat :
        /\ stage = viewer[v].stage /\ app = appended /\ sh = shown[v] /\ ms = missed[v]
        /\ rp = viewer[v].replay /\ ch = viewer[v].chan /\ rd = Riding(v)
        /\ Fine(stage, app, sh, ms, rp, ch, rd)
        /\ HasNow(v) = Has(sh, ms, rp, ch, rd)
  BY ViewerIs
<1>3. PICK later \in Seats : later = q.stage
  BY DEF Viewed
<1>4. Fine(later, app, sh, ms, rp, ch, rd)
  <2>1. later \notin {"away", "subscribed"} /\ Fine(stage, app, sh, ms, rp, ch, rd)
    BY <1>2, <1>3
  <2> QED
    BY <2>1, LaterFine
<1>5. ViewerFine(v)' /\ ViewerWhole(v)'
  <2>1. Riding(v)' = rd
    BY <1>2 DEF Riding
  <2>2. /\ viewer'[v].stage = later /\ appended' = app /\ shown'[v] = sh /\ missed'[v] = ms
        /\ viewer'[v].replay = rp /\ viewer'[v].chan = ch
    BY <1>1, <1>2, <1>3
  <2>3. ViewerFine(v)' /\ HasNow(v)' = HasNow(v)
    BY <1>2, <1>4, <2>1, <2>2, ViewerNext
  <2>4. /\ later # "away" /\ viewer[v].stage # "away"
        /\ later # "gone" => viewer[v].stage \in {"subscribed", "replay", "live"}
    BY <1>3
  <2>5. viewer'[v].stage = later /\ ringClosed' = ringClosed /\ subs' = subs /\ appended' = appended
    BY <2>2
  <2> QED
    BY <2>3, <2>4, <2>5 DEF LogIInv, ViewerWhole, Upward
<1> QED
  BY <1>1, <1>5, RestKept, ViewedIs

LEMMA SetFilterKept == ASSUME LogIInv, NEW v \in Viewers, SetFilter(v) PROVE LogIInv'
<1>1. PICK f \in Filters : viewer' = [viewer EXCEPT ![v].filter = f]
  BY DEF SetFilter
<1>2. PICK w \in Viewed : w = viewer[v]
  BY ViewedIs
<1>3. PICK q \in Viewed : /\ q = [w EXCEPT !.filter = f]
                          /\ q.stage = w.stage /\ q.chan = w.chan /\ q.replay = w.replay /\ q.filter = f
  <2>1. [w EXCEPT !.filter = f] \in Viewed
    BY DEF Viewed
  <2> QED
    BY <2>1 DEF Viewed
<1>4. viewer' = [viewer EXCEPT ![v] = q]
  BY <1>1, <1>2, <1>3, ViewedIs
<1>5. viewer[v].stage = "live" /\ UNCHANGED <<ring, appended, subs, ringClosed, logger, shown, missed>>
  BY DEF SetFilter
<1>6. q.chan = viewer[v].chan /\ q.replay = viewer[v].replay /\ q.stage = "live"
  BY <1>2, <1>3, <1>5
<1> QED
  BY <1>4, <1>5, <1>6, StageKept

LEMMA LeaveKept == ASSUME LogIInv, NEW v \in Viewers, Leave(v) PROVE LogIInv'
<1>1. PICK w \in Viewed : w = viewer[v]
  BY ViewedIs
<1>2. PICK q \in Viewed : /\ q = [w EXCEPT !.stage = "gone"]
                          /\ q.stage = "gone" /\ q.chan = w.chan /\ q.replay = w.replay
  <2>1. [w EXCEPT !.stage = "gone"] \in Viewed
    BY DEF Viewed, Seats
  <2> QED
    BY <2>1 DEF Viewed
<1>3. viewer' = [viewer EXCEPT ![v] = q]
  BY <1>1, <1>2, ViewedIs DEF Leave
<1>4. /\ viewer[v].stage \in {"replay", "live"}
      /\ UNCHANGED <<ring, appended, subs, ringClosed, logger, shown, missed>>
  BY DEF Leave
<1>5. q.chan = viewer[v].chan /\ q.replay = viewer[v].replay /\ q.stage = "gone"
  BY <1>1, <1>2
<1> QED
  BY <1>3, <1>4, <1>5, StageKept

\* A viewer is written, or held back, a record.
LEMMA WrittenIs ==
  ASSUME LogIInv, NEW v \in Viewers, NEW i \in Nat, Written(v, i)
  PROVE  /\ shown' \in [Viewers -> Seq(Nat)] /\ missed' \in [Viewers -> SUBSET Nat]
         /\ \A u \in Viewers \ {v} : shown'[u] = shown[u] /\ missed'[u] = missed[u]
         /\ Writing(shown[v], missed[v], i, shown'[v], missed'[v])
<1>1. PICK s \in Seq(Nat), m \in SUBSET Nat : s = Append(shown[v], i) /\ m = missed[v] \cup {i}
  <2>1. PICK sh \in Seq(Nat), ms \in SUBSET Nat : sh = shown[v] /\ ms = missed[v]
    BY ViewedIs
  <2> QED
    BY <2>1, HeldBy
<1>2. \/ shown' = [shown EXCEPT ![v] = s] /\ missed' = missed
      \/ missed' = [missed EXCEPT ![v] = m] /\ shown' = shown
  BY <1>1 DEF Written
<1>3. CASE shown' = [shown EXCEPT ![v] = s] /\ missed' = missed
  BY <1>1, <1>3, ViewedIs DEF Writing
<1>4. CASE missed' = [missed EXCEPT ![v] = m] /\ shown' = shown
  BY <1>1, <1>4, ViewedIs DEF Writing
<1> QED
  BY <1>2, <1>3, <1>4

LEMMA WriteKept ==
  ASSUME LogIInv, NEW v \in Viewers, NEW q \in Viewed, viewer' = [viewer EXCEPT ![v] = q],
         q.stage = viewer[v].stage, viewer[v].stage \in {"replay", "live"},
         NEW i \in Nat, Written(v, i), UNCHANGED <<ring, appended, subs, ringClosed, logger>>,
         NEW stage, NEW app, NEW ns, NEW nm, NEW rd, NEW rp, NEW ch,
         stage = viewer[v].stage, app = appended, ns = shown'[v], nm = missed'[v],
         rp = q.replay, ch = q.chan, rd = Riding(v),
         Fine(stage, app, ns, nm, rp, ch, rd), Has(ns, nm, rp, ch, rd) = HasNow(v)
  PROVE  LogIInv'
<1>1. viewer' \in [Viewers -> Viewed] /\ viewer'[v] = q /\ \A u \in Viewers \ {v} : viewer'[u] = viewer[u]
  BY ViewedIs
<1>2. Riding(v)' = rd
  BY DEF Riding
<1>3. /\ shown' \in [Viewers -> Seq(Nat)] /\ missed' \in [Viewers -> SUBSET Nat]
      /\ \A u \in Viewers \ {v} : shown'[u] = shown[u] /\ missed'[u] = missed[u]
  BY WrittenIs
<1>4. /\ viewer'[v].stage = stage /\ appended' = app /\ viewer'[v].replay = rp /\ viewer'[v].chan = ch
      /\ subs' = subs /\ ringClosed' = ringClosed
  BY <1>1
<1>5. ViewerFine(v)' /\ HasNow(v)' = HasNow(v)
  BY <1>2, <1>4, ViewerNext
<1>6. ViewerWhole(v)'
  BY <1>4, <1>5 DEF LogIInv, ViewerWhole, Upward
<1> QED
  BY <1>1, <1>3, <1>5, <1>6, RestKept

LEMMA ReplayKept == ASSUME LogIInv, NEW v \in Viewers, Replay(v) PROVE LogIInv'
<1>1. PICK w \in Viewed : w = viewer[v]
  BY ViewedIs
<1>2. PICK stage \in Seats, app \in Nat, sh \in Seq(Nat), ms \in SUBSET Nat, rp \in Seq(Nat), ch \in Seq(Nat), rd \in SUBSET Nat :
        /\ stage = viewer[v].stage /\ app = appended /\ sh = shown[v] /\ ms = missed[v]
        /\ rp = viewer[v].replay /\ ch = viewer[v].chan /\ rd = Riding(v)
        /\ Fine(stage, app, sh, ms, rp, ch, rd)
        /\ HasNow(v) = Has(sh, ms, rp, ch, rd)
  BY ViewerIs
<1>3. CASE rp = <<>>
  <2>1. PICK q \in Viewed : /\ q = [w EXCEPT !.stage = "live"]
                            /\ q.stage = "live" /\ q.chan = w.chan /\ q.replay = w.replay
    <3>1. [w EXCEPT !.stage = "live"] \in Viewed
      BY DEF Viewed, Seats
    <3> QED
      BY <3>1 DEF Viewed
  <2>2. viewer' = [viewer EXCEPT ![v] = q] /\ UNCHANGED <<shown, missed>>
    BY <1>1, <1>2, <1>3, <2>1, ViewedIs DEF Replay
  <2>3. viewer[v].stage = "replay" /\ UNCHANGED <<ring, appended, subs, ringClosed, logger>>
    BY DEF Replay
  <2>4. q.chan = viewer[v].chan /\ q.replay = viewer[v].replay /\ q.stage = "live"
    BY <1>1, <2>1
  <2> QED
    BY <2>2, <2>3, <2>4, StageKept
<1>4. CASE rp # <<>>
  <2>1. PICK i \in Nat, tl \in Seq(Nat) : i = Head(rp) /\ tl = Tail(rp)
    BY <1>4, HeldBy
  <2>2. PICK q \in Viewed : /\ q = [w EXCEPT !.replay = tl]
                            /\ q.stage = w.stage /\ q.replay = tl /\ q.chan = w.chan
    <3>1. [w EXCEPT !.replay = tl] \in Viewed
      BY DEF Viewed
    <3> QED
      BY <3>1 DEF Viewed
  <2>3. viewer' = [viewer EXCEPT ![v] = q] /\ Written(v, i)
    BY <1>1, <1>2, <1>4, <2>1, <2>2, ViewedIs DEF Replay
  <2>4. UNCHANGED <<ring, appended, subs, ringClosed, logger>> /\ viewer[v].stage = "replay"
    BY DEF Replay
  <2>5. Fine("replay", app, sh, ms, rp, ch, rd) /\ Taking(rp, i, tl)
    BY <1>2, <1>4, <2>1, <2>4 DEF Taking
  <2>6. PICK ns, nm : ns = shown'[v] /\ nm = missed'[v]
    OBVIOUS
  <2>7. Writing(sh, ms, i, ns, nm)
    BY <1>2, <2>3, <2>6, WrittenIs
  <2>8. Fine("replay", app, ns, nm, tl, ch, rd) /\ Has(ns, nm, tl, ch, rd) = Has(sh, ms, rp, ch, rd)
    <3>1. Fine("replay", app, ns, nm, tl, ch, rd)
      BY <2>5, <2>7, ReplayFine
    <3>2. Has(ns, nm, tl, ch, rd) = Has(sh, ms, rp, ch, rd)
      <4>1. ToSet(rp) = {i} \cup ToSet(tl) /\ ToSet(Append(sh, i)) = ToSet(sh) \cup {i}
        BY <2>5, HeldBy DEF Taking
      <4> QED
        BY <2>7, <4>1 DEF Has, Writing
    <3> QED
      BY <3>1, <3>2
  <2>9. Fine(stage, app, ns, nm, tl, ch, rd) /\ Has(ns, nm, tl, ch, rd) = HasNow(v)
    BY <1>2, <2>4, <2>8
  <2>10. /\ tl = q.replay /\ ch = q.chan /\ q.stage = viewer[v].stage
    BY <1>1, <1>2, <2>2
  <2> QED
    BY <1>2, <2>3, <2>4, <2>6, <2>9, <2>10, WriteKept
<1> QED
  BY <1>3, <1>4

LEMMA StreamKept == ASSUME LogIInv, NEW v \in Viewers, Stream(v) PROVE LogIInv'
<1>1. PICK w \in Viewed : w = viewer[v]
  BY ViewedIs
<1>2. PICK stage \in Seats, app \in Nat, sh \in Seq(Nat), ms \in SUBSET Nat, rp \in Seq(Nat), ch \in Seq(Nat), rd \in SUBSET Nat :
        /\ stage = viewer[v].stage /\ app = appended /\ sh = shown[v] /\ ms = missed[v]
        /\ rp = viewer[v].replay /\ ch = viewer[v].chan /\ rd = Riding(v)
        /\ Fine(stage, app, sh, ms, rp, ch, rd)
        /\ HasNow(v) = Has(sh, ms, rp, ch, rd)
  BY ViewerIs
<1>4. ch # <<>>
  BY <1>2 DEF Stream
<1>5. LogIInv'
  <2>1. PICK i \in Nat, tl \in Seq(Nat) : i = Head(ch) /\ tl = Tail(ch)
    BY <1>4, HeldBy
  <2>2. PICK q \in Viewed : /\ q = [w EXCEPT !.chan = tl]
                            /\ q.stage = w.stage /\ q.chan = tl /\ q.replay = w.replay
    <3>1. [w EXCEPT !.chan = tl] \in Viewed
      BY DEF Viewed
    <3> QED
      BY <3>1 DEF Viewed
  <2>3. viewer' = [viewer EXCEPT ![v] = q] /\ Written(v, i)
    BY <1>1, <1>2, <1>4, <2>1, <2>2, ViewedIs DEF Stream
  <2>4. UNCHANGED <<ring, appended, subs, ringClosed, logger>> /\ viewer[v].stage = "live"
    BY DEF Stream
  <2>5. Fine("live", app, sh, ms, rp, ch, rd) /\ Taking(ch, i, tl)
    BY <1>2, <1>4, <2>1, <2>4 DEF Taking
  <2>6. PICK ns, nm : ns = shown'[v] /\ nm = missed'[v]
    OBVIOUS
  <2>7. Writing(sh, ms, i, ns, nm)
    BY <1>2, <2>3, <2>6, WrittenIs
  <2>8. Fine("live", app, ns, nm, rp, tl, rd) /\ Has(ns, nm, rp, tl, rd) = Has(sh, ms, rp, ch, rd)
    <3>1. Fine("live", app, ns, nm, rp, tl, rd)
      BY <2>5, <2>7, StreamFine
    <3>2. Has(ns, nm, rp, tl, rd) = Has(sh, ms, rp, ch, rd)
      <4>1. ToSet(ch) = {i} \cup ToSet(tl) /\ ToSet(Append(sh, i)) = ToSet(sh) \cup {i}
        BY <2>5, HeldBy DEF Taking
      <4> QED
        BY <2>7, <4>1 DEF Has, Writing
    <3> QED
      BY <3>1, <3>2
  <2>9. Fine(stage, app, ns, nm, rp, tl, rd) /\ Has(ns, nm, rp, tl, rd) = HasNow(v)
    BY <1>2, <2>4, <2>8
  <2>10. /\ rp = q.replay /\ tl = q.chan /\ q.stage = viewer[v].stage
    BY <1>1, <1>2, <2>2
  <2> QED
    BY <1>2, <2>3, <2>4, <2>6, <2>9, <2>10, WriteKept
<1> QED
  BY <1>5

\* A logger is done with one viewer.
LEMMA Pushed ==
  ASSUME LogIInv, NEW l \in Loggers, NEW v \in Viewers, v \in logger[l].to,
         NEW h \in [rec : Nat, to : SUBSET Viewers], logger' = [logger EXCEPT ![l] = h],
         h.to = logger[l].to \ {v}, h.to # {} => h.rec = logger[l].rec, appended' = appended
  PROVE  /\ logger' \in [Loggers -> [rec : Nat, to : SUBSET Viewers]] /\ LoggersSound'
         /\ Riding(v)' = Riding(v) \ {logger[l].rec} /\ logger[l].rec \in Riding(v)
         /\ \A u \in Viewers \ {v} : Riding(u)' = Riding(u)
<1>1. logger' \in [Loggers -> [rec : Nat, to : SUBSET Viewers]] /\ logger'[l] = h
      /\ \A k \in Loggers \ {l} : logger'[k] = logger[k]
  BY ViewedIs
<1>2. \A k \in Loggers : /\ logger'[k].to \subseteq logger[k].to
                         /\ logger'[k].to # {} => logger'[k].rec = logger[k].rec /\ logger[k].to # {}
  BY <1>1
<1>3. LoggersSound'
  <2>1. \A k \in Loggers : Held(k)' => Held(k) /\ logger'[k].rec = logger[k].rec
    BY <1>2 DEF Held
  <2> QED
    BY <2>1 DEF LogIInv, LoggersSound
<1>4. \A u \in Viewers \ {v}, k \in Loggers :
        /\ u \in logger'[k].to <=> u \in logger[k].to
        /\ u \in logger'[k].to => logger'[k].rec = logger[k].rec
  BY <1>1, <1>2
<1>5. ASSUME NEW u \in Viewers \ {v} PROVE Riding(u)' = Riding(u)
  BY <1>4 DEF Riding
<1>6. ASSUME NEW k \in Loggers, v \in logger[k].to, k # l PROVE logger[k].rec # logger[l].rec
  BY <1>6 DEF LogIInv, LoggersSound, Held
<1>7. \A k \in Loggers : /\ v \in logger'[k].to <=> v \in logger[k].to /\ k # l
                         /\ k # l => logger'[k].rec = logger[k].rec
  BY <1>1
<1>8. Riding(v)' = Riding(v) \ {logger[l].rec}
  BY <1>6, <1>7 DEF Riding
<1>9. logger[l].rec \in Riding(v)
  BY DEF Riding
<1> QED
  BY <1>1, <1>3, <1>5, <1>8, <1>9

LEMMA PushKept == ASSUME LogIInv, NEW l \in Loggers, NEW v \in Viewers, Push(l, v) PROVE LogIInv'
<1>1. v \in logger[l].to /\ UNCHANGED <<ring, appended, subs, ringClosed, shown>>
  BY DEF Push
<1>2. PICK h \in [rec : Nat, to : SUBSET Viewers] :
        /\ logger' = [logger EXCEPT ![l] = h]
        /\ h.to = logger[l].to \ {v} /\ (h.to # {} => h.rec = logger[l].rec)
  <2>1. PICK g \in [rec : Nat, to : SUBSET Viewers] : g = logger[l]
    BY ViewedIs
  <2>2. CASE g.to = {v}
    <3>1. Idle \in [rec : Nat, to : SUBSET Viewers] /\ Idle.to = {}
      BY DEF Idle
    <3>2. logger' = [logger EXCEPT ![l] = Idle]
      BY <2>1, <2>2 DEF Push
    <3> QED
      BY <2>1, <2>2, <3>1, <3>2
  <2>3. CASE g.to # {v}
    <3>1. PICK f \in [rec : Nat, to : SUBSET Viewers] :
            f = [rec |-> g.rec, to |-> g.to \ {v}] /\ f.to = g.to \ {v} /\ f.rec = g.rec
      <4>1. g.rec \in Nat /\ g.to \ {v} \in SUBSET Viewers
        OBVIOUS
      <4>2. [rec |-> g.rec, to |-> g.to \ {v}] \in [rec : Nat, to : SUBSET Viewers]
        BY <4>1
      <4> QED
        BY <4>2
    <3>2. logger' = [logger EXCEPT ![l] = f]
      BY <2>1, <2>3, <3>1 DEF Push
    <3> QED
      BY <2>1, <3>1, <3>2
  <2> QED
    BY <2>2, <2>3
<1>3. PICK stage \in Seats, app \in Nat, sh \in Seq(Nat), ms \in SUBSET Nat, rp \in Seq(Nat), ch \in Seq(Nat), rd \in SUBSET Nat :
        /\ stage = viewer[v].stage /\ app = appended /\ sh = shown[v] /\ ms = missed[v]
        /\ rp = viewer[v].replay /\ ch = viewer[v].chan /\ rd = Riding(v)
        /\ Fine(stage, app, sh, ms, rp, ch, rd)
        /\ HasNow(v) = Has(sh, ms, rp, ch, rd)
  BY ViewerIs
<1>4. PICK i \in Nat : i = logger[l].rec
  BY ViewedIs
<1>5. /\ logger' \in [Loggers -> [rec : Nat, to : SUBSET Viewers]] /\ LoggersSound'
      /\ Riding(v)' = rd \ {i} /\ i \in rd
      /\ \A u \in Viewers \ {v} : Riding(u)' = Riding(u)
  BY <1>1, <1>2, <1>3, <1>4, Pushed
<1>6. PICK nc \in Seq(Nat), nm \in SUBSET Nat, q \in Viewed :
        /\ viewer' = [viewer EXCEPT ![v] = q] /\ missed' = [missed EXCEPT ![v] = nm]
        /\ q.stage = stage /\ q.replay = rp /\ q.chan = nc
        /\ \/ ringClosed /\ nc = ch /\ nm = ms
           \/ nc = Append(ch, i) /\ nm = ms
           \/ nc = ch /\ nm = ms \cup {i}
  <2>1. PICK w \in Viewed : w = viewer[v]
    BY ViewedIs
  <2>2. PICK ac \in Seq(Nat), am \in SUBSET Nat : ac = Append(ch, i) /\ am = ms \cup {i}
    BY HeldBy
  <2>3. PICK q \in Viewed : /\ q = [w EXCEPT !.chan = ac]
                            /\ q.stage = w.stage /\ q.chan = ac /\ q.replay = w.replay
    <3>1. [w EXCEPT !.chan = ac] \in Viewed
      BY DEF Viewed
    <3> QED
      BY <3>1 DEF Viewed
  <2>4. \/ ringClosed /\ viewer' = viewer /\ missed' = missed
        \/ viewer' = [viewer EXCEPT ![v] = q] /\ missed' = missed
        \/ viewer' = viewer /\ missed' = [missed EXCEPT ![v] = am]
    BY <1>3, <1>4, <2>1, <2>2, <2>3, ViewedIs DEF Push
  <2>5. viewer = [viewer EXCEPT ![v] = w] /\ missed = [missed EXCEPT ![v] = ms]
    BY <1>3, <2>1, ViewedIs
  <2>6. w.stage = stage /\ w.replay = rp /\ w.chan = ch
    BY <1>3, <2>1
  <2>7. CASE ringClosed /\ viewer' = viewer /\ missed' = missed
    BY <2>5, <2>6, <2>7
  <2>8. CASE viewer' = [viewer EXCEPT ![v] = q] /\ missed' = missed
    BY <2>2, <2>3, <2>5, <2>6, <2>8
  <2>9. CASE viewer' = viewer /\ missed' = [missed EXCEPT ![v] = am]
    BY <2>2, <2>5, <2>6, <2>9
  <2> QED
    BY <2>4, <2>7, <2>8, <2>9
<1>7. /\ viewer' \in [Viewers -> Viewed] /\ viewer'[v] = q /\ \A u \in Viewers \ {v} : viewer'[u] = viewer[u]
      /\ missed' \in [Viewers -> SUBSET Nat] /\ missed'[v] = nm /\ \A u \in Viewers \ {v} : missed'[u] = missed[u]
  BY <1>6, ViewedIs
<1>8. PICK nd \in SUBSET Nat : nd = rd \ {i}
  OBVIOUS
<1>9. Fine(stage, app, sh, nm, rp, nc, nd) /\ (~ ringClosed => Has(sh, nm, rp, nc, nd) = HasNow(v))
  <2>1. Pushing(ms, ch, rd, i, nm, nc, nd)
    BY <1>6, <1>8 DEF Pushing
  <2>2. Fine(stage, app, sh, nm, rp, nc, nd)
    BY <1>3, <1>5, <2>1, PushFine
  <2>3. ToSet(Append(ch, i)) = ToSet(ch) \cup {i}
    BY HeldBy
  <2>4. ~ ringClosed => Has(sh, nm, rp, nc, nd) = Has(sh, ms, rp, ch, rd)
    BY <1>5, <1>6, <1>8, <2>3 DEF Has
  <2> QED
    BY <1>3, <2>2, <2>4
<1>10. ViewerFine(v)' /\ HasNow(v)' = Has(sh, nm, rp, nc, nd)
  <2>1. viewer'[v].stage = stage /\ appended' = app /\ shown'[v] = sh /\ missed'[v] = nm
        /\ viewer'[v].replay = rp /\ viewer'[v].chan = nc /\ Riding(v)' = nd
    BY <1>1, <1>3, <1>5, <1>6, <1>7, <1>8
  <2> QED
    BY <2>1, <1>9, ViewerNext
<1>11. ViewerWhole(v)'
  <2>1. viewer'[v].stage = viewer[v].stage /\ subs' = subs /\ ringClosed' = ringClosed /\ appended' = appended
    BY <1>1, <1>3, <1>6, <1>7
  <2>2. ~ ringClosed => HasNow(v)' = HasNow(v)
    BY <1>9, <1>10
  <2> QED
    BY <2>1, <2>2 DEF LogIInv, ViewerWhole, Upward
<1>12. ASSUME NEW u \in Viewers \ {v} PROVE ViewerFine(u)' /\ ViewerWhole(u)'
  <2>1. /\ viewer'[u] = viewer[u] /\ shown'[u] = shown[u] /\ missed'[u] = missed[u] /\ appended' = appended
        /\ Riding(u)' = Riding(u) /\ (u \in subs' <=> u \in subs) /\ ringClosed' = ringClosed
    BY <1>1, <1>5, <1>7
  <2> QED
    BY <2>1, OtherViewer
<1>13. LogTyped' /\ RingSound'
  BY <1>1, <1>5, <1>7 DEF LogIInv, LogTyped, RingSound, Viewed, Seats
<1> QED
  BY <1>5, <1>10, <1>11, <1>12, <1>13 DEF LogIInv

LEMMA LogStep == LogIInv /\ [LogNext]_logVars => LogIInv'
<1> SUFFICES ASSUME LogIInv, [LogNext]_logVars PROVE LogIInv'
  OBVIOUS
<1>1. CASE LogNext
  BY <1>1, CloseKept, HandleKept, PushKept, SubscribeKept, SnapshotKept, ReplayKept, StreamKept,
     SetFilterKept, LeaveKept DEF LogNext
<1>2. CASE UNCHANGED logVars
  <2>1. UNCHANGED <<ring, appended, subs, ringClosed, logger, viewer, shown, missed>>
    BY <1>2 DEF logVars
  <2>2. LogTyped' /\ RingSound' /\ LoggersSound'
    BY <2>1 DEF LogIInv, LogTyped, RingSound, LoggersSound, Held
  <2>3. ASSUME NEW v \in Viewers PROVE ViewerFine(v)' /\ ViewerWhole(v)'
    <3>1. Riding(v)' = Riding(v)
      BY <2>1 DEF Riding
    <3> QED
      BY <2>1, <3>1, OtherViewer
  <2> QED
    BY <2>2, <2>3 DEF LogIInv
<1> QED
  BY <1>1, <1>2

LEMMA LogInvariance == LogInit /\ [][LogNext]_logVars => []LogIInv
BY InitLog, LogStep, PTL

LEMMA LogIInvShows == LogIInv => ViewerHasAll
<1> SUFFICES ASSUME LogIInv PROVE ViewerHasAll
  OBVIOUS
<1>1. ASSUME NEW v \in Viewers
      PROVE  LET has == ToSet(shown[v]) \cup missed[v] \cup Pending(v)
             IN /\ viewer[v].stage \in {"replay", "live"} /\ ~ringClosed =>
                     \A i \in has : i .. appended \subseteq has
                /\ \A i \in ToSet(shown[v]) : Cardinality({k \in DOMAIN shown[v] : shown[v][k] = i}) <= 2
  <2> DEFINE has == ToSet(shown[v]) \cup missed[v] \cup Pending(v)
  <2>1. has = HasNow(v)
    BY DEF HasNow, Has, Pending, Riding
  <2>2. viewer[v].stage \in {"replay", "live"} /\ ~ringClosed => \A i \in has : i .. appended \subseteq has
    BY <2>1 DEF LogIInv, ViewerWhole, Upward
  <2>3. PICK stage \in Seats, app \in Nat, sh \in Seq(Nat), ms \in SUBSET Nat, rp \in Seq(Nat), ch \in Seq(Nat), rd \in SUBSET Nat :
          /\ stage = viewer[v].stage /\ app = appended /\ sh = shown[v] /\ ms = missed[v]
          /\ rp = viewer[v].replay /\ ch = viewer[v].chan /\ rd = Riding(v)
          /\ Fine(stage, app, sh, ms, rp, ch, rd)
          /\ HasNow(v) = Has(sh, ms, rp, ch, rd)
    BY ViewerIs
  <2>4. ASSUME NEW i \in ToSet(sh) PROVE Cardinality(Places(sh, i)) <= 2
    <3>1. i \in Nat
      BY HeldBy
    <3>2. PICK p \in Nat, x \in Nat, y \in Nat :
            p = Cardinality(Places(sh, i)) /\ x = Once(i, ToSet(rp)) /\ y = Once(i, ToSet(ch) \cup rd)
      BY <3>1, PlacesGrow DEF Once
    <3>3. p + x + y <= 2
      BY <2>3, <3>1, <3>2 DEF Fine
    <3> QED
      BY <3>2, <3>3
  <2>5. \A i \in ToSet(shown[v]) : Cardinality({k \in DOMAIN shown[v] : shown[v][k] = i}) <= 2
    BY <2>3, <2>4 DEF Places
  <2> QED
    BY <2>2, <2>5
<1> QED
  BY <1>1 DEF ViewerHasAll

(* The login wizard.                                                       *)

\* A runner's step, or a change of a login by hand, that leaves its callers
\* where they are.
Goes(r, q) ==
  /\ Finished(r) => Finished(q)
  /\ ~ Quiet(r) => ~ Quiet(q)
StaysSound(r, q, w, s) == q \in Logins /\ LoginSound(q, w, s) /\ Goes(r, q)

LEMMA FreeChanges ==
  ASSUME NEW r \in Logins, NEW w \in SUBSET Callers, NEW s \in SUBSET Callers, LoginSound(r, w, s),
         NEW b \in BOOLEAN, NEW q,
         \/ q = [r EXCEPT !.ctx = b]
         \/ q = [r EXCEPT !.asked = FALSE, !.ctx = b]
         \/ q = [r EXCEPT !.old = TRUE, !.ctx = FALSE]
  PROVE  StaysSound(r, q, w, s)
<1>1. q \in Logins
  BY DEF Logins
<1>2. /\ q.run = r.run /\ q.state = r.state /\ q.code = r.code /\ q.password = r.password /\ q.by = r.by
      /\ q.told = r.told /\ q.res = r.res /\ q.late = r.late /\ q.crossed = r.crossed
  BY DEF Logins
<1> QED
  BY <1>1, <1>2 DEF StaysSound, LoginSound, OkIsLast, Balanced, OwnInputs, Goes, Finished, Quiet, Works, InputsOf

LEMMA Starting ==
  ASSUME NEW r \in Logins, NEW w \in SUBSET Callers, NEW s \in SUBSET Callers, LoginSound(r, w, s), NEW q,
         r.run = "starting",
         \/ q = [r EXCEPT !.run = "code", !.state = "await_code"]
         \/ q = Telling(r, "start failed", r.state)
         \/ q = [r EXCEPT !.run = "returned"]
  PROVE  StaysSound(r, q, w, s)
<1>1. CASE q = [r EXCEPT !.run = "code", !.state = "await_code"]
  <2>1. q \in Logins
    BY <1>1 DEF Logins, Telling, Runs, Words, Names, Inputs, Taken
  <2>2. /\ q.run = "code" /\ q.state = "await_code" /\ q.code = r.code /\ q.password = r.password /\ q.by = r.by
        /\ q.told = r.told /\ q.res = r.res /\ q.late = r.late /\ q.crossed = r.crossed
    BY <1>1 DEF Logins, Telling
  <2> QED
    BY <2>1, <2>2 DEF StaysSound, LoginSound, OkIsLast, Balanced, OwnInputs, Goes, Finished, Quiet, Works, InputsOf, One
<1>2. CASE q = Telling(r, "start failed", r.state)
  <2>1. q \in Logins
    BY <1>2 DEF Logins, Telling, Runs, Words, Names, Inputs, Taken
  <2>2. /\ q.run = "telling" /\ q.state = r.state /\ q.code = r.code /\ q.password = r.password /\ q.by = r.by
        /\ q.told = "start failed" /\ q.res = r.res /\ q.late = r.late /\ q.crossed = r.crossed
    BY <1>2 DEF Logins, Telling
  <2> QED
    BY <2>1, <2>2 DEF StaysSound, LoginSound, OkIsLast, Balanced, OwnInputs, Goes, Finished, Quiet, Works, InputsOf, One
<1>3. CASE q = [r EXCEPT !.run = "returned"]
  <2>1. q \in Logins
    BY <1>3 DEF Logins, Telling, Runs, Words, Names, Inputs, Taken
  <2>2. /\ q.run = "returned" /\ q.state = r.state /\ q.code = r.code /\ q.password = r.password /\ q.by = r.by
        /\ q.told = r.told /\ q.res = r.res /\ q.late = r.late /\ q.crossed = r.crossed
    BY <1>3 DEF Logins, Telling
  <2> QED
    BY <2>1, <2>2 DEF StaysSound, LoginSound, OkIsLast, Balanced, OwnInputs, Goes, Finished, Quiet, Works, InputsOf, One
<1> QED
  BY <1>1, <1>2, <1>3

LEMMA Signing ==
  ASSUME NEW r \in Logins, NEW w \in SUBSET Callers, NEW s \in SUBSET Callers, LoginSound(r, w, s), NEW q,
         r.run = "signing",
         \/ q = Telling(r, "ok", "authorized")
         \/ q = Telling(r, "password needed", "await_password")
         \/ q = Telling(r, "wrong", r.state)
  PROVE  StaysSound(r, q, w, s)
<1>1. CASE q = Telling(r, "ok", "authorized")
  <2>1. q \in Logins
    BY <1>1 DEF Logins, Telling, Runs, Words, Names, Inputs, Taken
  <2>2. /\ q.run = "telling" /\ q.state = "authorized" /\ q.code = r.code /\ q.password = r.password /\ q.by = r.by
        /\ q.told = "ok" /\ q.res = r.res /\ q.late = r.late /\ q.crossed = r.crossed
    BY <1>1 DEF Logins, Telling
  <2> QED
    BY <2>1, <2>2 DEF StaysSound, LoginSound, OkIsLast, Balanced, OwnInputs, Goes, Finished, Quiet, Works, InputsOf, One
<1>2. CASE q = Telling(r, "password needed", "await_password")
  <2>1. q \in Logins
    BY <1>2 DEF Logins, Telling, Runs, Words, Names, Inputs, Taken
  <2>2. /\ q.run = "telling" /\ q.state = "await_password" /\ q.code = r.code /\ q.password = r.password /\ q.by = r.by
        /\ q.told = "password needed" /\ q.res = r.res /\ q.late = r.late /\ q.crossed = r.crossed
    BY <1>2 DEF Logins, Telling
  <2> QED
    BY <2>1, <2>2 DEF StaysSound, LoginSound, OkIsLast, Balanced, OwnInputs, Goes, Finished, Quiet, Works, InputsOf, One
<1>3. CASE q = Telling(r, "wrong", r.state)
  <2>1. q \in Logins
    BY <1>3 DEF Logins, Telling, Runs, Words, Names, Inputs, Taken
  <2>2. /\ q.run = "telling" /\ q.state = r.state /\ q.code = r.code /\ q.password = r.password /\ q.by = r.by
        /\ q.told = "wrong" /\ q.res = r.res /\ q.late = r.late /\ q.crossed = r.crossed
    BY <1>3 DEF Logins, Telling
  <2> QED
    BY <2>1, <2>2 DEF StaysSound, LoginSound, OkIsLast, Balanced, OwnInputs, Goes, Finished, Quiet, Works, InputsOf, One
<1> QED
  BY <1>1, <1>2, <1>3

LEMMA Checking ==
  ASSUME NEW r \in Logins, NEW w \in SUBSET Callers, NEW s \in SUBSET Callers, LoginSound(r, w, s), NEW q,
         r.run = "checking",
         \/ q = Telling(r, "ok", "authorized")
         \/ q = Telling(r, "wrong", r.state)
  PROVE  StaysSound(r, q, w, s)
<1>1. CASE q = Telling(r, "ok", "authorized")
  <2>1. q \in Logins
    BY <1>1 DEF Logins, Telling, Runs, Words, Names, Inputs, Taken
  <2>2. /\ q.run = "telling" /\ q.state = "authorized" /\ q.code = r.code /\ q.password = r.password /\ q.by = r.by
        /\ q.told = "ok" /\ q.res = r.res /\ q.late = r.late /\ q.crossed = r.crossed
    BY <1>1 DEF Logins, Telling
  <2> QED
    BY <2>1, <2>2 DEF StaysSound, LoginSound, OkIsLast, Balanced, OwnInputs, Goes, Finished, Quiet, Works, InputsOf, One
<1>2. CASE q = Telling(r, "wrong", r.state)
  <2>1. q \in Logins
    BY <1>2 DEF Logins, Telling, Runs, Words, Names, Inputs, Taken
  <2>2. /\ q.run = "telling" /\ q.state = r.state /\ q.code = r.code /\ q.password = r.password /\ q.by = r.by
        /\ q.told = "wrong" /\ q.res = r.res /\ q.late = r.late /\ q.crossed = r.crossed
    BY <1>2 DEF Logins, Telling
  <2> QED
    BY <2>1, <2>2 DEF StaysSound, LoginSound, OkIsLast, Balanced, OwnInputs, Goes, Finished, Quiet, Works, InputsOf, One
<1> QED
  BY <1>1, <1>2

LEMMA Cancelling ==
  ASSUME NEW r \in Logins, NEW w \in SUBSET Callers, NEW s \in SUBSET Callers, LoginSound(r, w, s), NEW q,
         r.run \in {"code", "password"},
         \/ q = [r EXCEPT !.run = "returned"]
  PROVE  StaysSound(r, q, w, s)
<1>1. CASE q = [r EXCEPT !.run = "returned"]
  <2>1. q \in Logins
    BY <1>1 DEF Logins, Telling, Runs, Words, Names, Inputs, Taken
  <2>2. /\ q.run = "returned" /\ q.state = r.state /\ q.code = r.code /\ q.password = r.password /\ q.by = r.by
        /\ q.told = r.told /\ q.res = r.res /\ q.late = r.late /\ q.crossed = r.crossed
    BY <1>1 DEF Logins, Telling
  <2> QED
    BY <2>1, <2>2 DEF StaysSound, LoginSound, OkIsLast, Balanced, OwnInputs, Goes, Finished, Quiet, Works, InputsOf, One
<1> QED
  BY <1>1

LEMMA Ending ==
  ASSUME NEW r \in Logins, NEW w \in SUBSET Callers, NEW s \in SUBSET Callers, LoginSound(r, w, s), NEW q,
         r.run = "returned",
         \/ q = [r EXCEPT !.run = "ended", !.ctx = FALSE]
         \/ q = [r EXCEPT !.run = "ended", !.ctx = FALSE, !.state = "failed"] /\ r.state # "authorized"
  PROVE  StaysSound(r, q, w, s)
<1>1. CASE q = [r EXCEPT !.run = "ended", !.ctx = FALSE]
  <2>1. q \in Logins
    BY <1>1 DEF Logins, Telling, Runs, Words, Names, Inputs, Taken
  <2>2. /\ q.run = "ended" /\ q.state = r.state /\ q.code = r.code /\ q.password = r.password /\ q.by = r.by
        /\ q.told = r.told /\ q.res = r.res /\ q.late = r.late /\ q.crossed = r.crossed
    BY <1>1 DEF Logins, Telling
  <2> QED
    BY <2>1, <2>2 DEF StaysSound, LoginSound, OkIsLast, Balanced, OwnInputs, Goes, Finished, Quiet, Works, InputsOf, One
<1>2. CASE q = [r EXCEPT !.run = "ended", !.ctx = FALSE, !.state = "failed"] /\ r.state # "authorized"
  <2>1. q \in Logins
    BY <1>2 DEF Logins, Telling, Runs, Words, Names, Inputs, Taken
  <2>2. /\ q.run = "ended" /\ q.state = "failed" /\ q.code = r.code /\ q.password = r.password /\ q.by = r.by
        /\ q.told = r.told /\ q.res = r.res /\ q.late = r.late /\ q.crossed = r.crossed
    BY <1>2 DEF Logins, Telling
  <2> QED
    BY <1>2, <2>1, <2>2 DEF StaysSound, LoginSound, OkIsLast, Balanced, OwnInputs, Goes, Finished, Quiet, Works, InputsOf, One
<1> QED
  BY <1>1, <1>2

LEMMA CodeTaking ==
  ASSUME NEW r \in Logins, NEW w \in SUBSET Callers, NEW s \in SUBSET Callers, LoginSound(r, w, s), NEW q,
         r.run = "code", r.code # <<>>, q = [r EXCEPT !.run = "signing", !.by = Head(r.code), !.code = <<>>]
  PROVE  StaysSound(r, q, w, s)
<1>1. PICK c \in Callers : r.code = <<c>>
  BY DEF Logins, Inputs
<1>2. c # 0 /\ c \in Names /\ Head(<<c>>) = c /\ <<c>> # <<>>
  BY WizardAssumption DEF Names
<1>3. q = [r EXCEPT !.run = "signing", !.by = c, !.code = <<>>]
  BY <1>1, <1>2
<1>4. q \in Logins
  BY <1>2, <1>3 DEF Logins, Runs, Inputs
<1>5. /\ q.run = "signing" /\ q.state = r.state /\ q.code = <<>> /\ q.password = r.password /\ q.by = c
      /\ q.told = r.told /\ q.res = r.res /\ q.late = r.late /\ q.crossed = r.crossed
  BY <1>3 DEF Logins
<1>6. OkIsLast(q) /\ Goes(r, q)
  BY <1>2, <1>5 DEF LoginSound, OkIsLast, Goes, Finished, Quiet
<1>7. Balanced(q, Cardinality(w))
  <2>1. InputsOf(q) = InputsOf(r)
    BY <1>1, <1>2, <1>5 DEF InputsOf, One
  <2> QED
    BY <2>1, <1>5 DEF LoginSound, Balanced, Works
<1>8. OwnInputs(q, w, s)
  <2>1. \A d \in Callers : <<>> # <<d>>
    OBVIOUS
  <2>2. Quiet(r) => c \in w
    BY <1>1 DEF LoginSound, OwnInputs, Works
  <2> QED
    BY <1>5, <2>1, <2>2 DEF LoginSound, OwnInputs, Quiet, Works
<1> QED
  BY <1>4, <1>6, <1>7, <1>8 DEF StaysSound, LoginSound

LEMMA PasswordTaking ==
  ASSUME NEW r \in Logins, NEW w \in SUBSET Callers, NEW s \in SUBSET Callers, LoginSound(r, w, s), NEW q,
         r.run = "password", r.password # <<>>, q = [r EXCEPT !.run = "checking", !.by = Head(r.password), !.password = <<>>]
  PROVE  StaysSound(r, q, w, s)
<1>1. PICK c \in Callers : r.password = <<c>>
  BY DEF Logins, Inputs
<1>2. c # 0 /\ c \in Names /\ Head(<<c>>) = c /\ <<c>> # <<>>
  BY WizardAssumption DEF Names
<1>3. q = [r EXCEPT !.run = "checking", !.by = c, !.password = <<>>]
  BY <1>1, <1>2
<1>4. q \in Logins
  BY <1>2, <1>3 DEF Logins, Runs, Inputs
<1>5. /\ q.run = "checking" /\ q.state = r.state /\ q.password = <<>> /\ q.code = r.code /\ q.by = c
      /\ q.told = r.told /\ q.res = r.res /\ q.late = r.late /\ q.crossed = r.crossed
  BY <1>3 DEF Logins
<1>6. OkIsLast(q) /\ Goes(r, q)
  BY <1>2, <1>5 DEF LoginSound, OkIsLast, Goes, Finished, Quiet
<1>7. Balanced(q, Cardinality(w))
  <2>1. InputsOf(q) = InputsOf(r)
    BY <1>1, <1>2, <1>5 DEF InputsOf, One
  <2> QED
    BY <2>1, <1>5 DEF LoginSound, Balanced, Works
<1>8. OwnInputs(q, w, s)
  <2>1. \A d \in Callers : <<>> # <<d>>
    OBVIOUS
  <2>2. Quiet(r) => c \in w
    BY <1>1 DEF LoginSound, OwnInputs, Works
  <2> QED
    BY <1>5, <2>1, <2>2 DEF LoginSound, OwnInputs, Quiet, Works
<1> QED
  BY <1>4, <1>6, <1>7, <1>8 DEF StaysSound, LoginSound

LEMMA Told ==
  ASSUME NEW r \in Logins, NEW w \in SUBSET Callers, NEW s \in SUBSET Callers, LoginSound(r, w, s), NEW q,
         r.run = "telling", r.res = <<>>,
         q = [r EXCEPT !.res = <<[what |-> r.told, by |-> r.by]>>,
                       !.run = IF r.told = "password needed" THEN "password" ELSE "returned"]
  PROVE  StaysSound(r, q, w, s)
<1>1. PICK a \in Answers : a = [what |-> r.told, by |-> r.by] /\ a.what = r.told /\ a.by = r.by
  <2>1. r.told \in Words /\ r.by \in Names
    BY DEF Logins
  <2>2. [what |-> r.told, by |-> r.by] \in Answers
    BY <2>1 DEF Answers
  <2> QED
    BY <2>2
<1>2. PICK run \in {"password", "returned"} :
        /\ run = (IF r.told = "password needed" THEN "password" ELSE "returned")
        /\ r.told = "password needed" <=> run = "password"
  OBVIOUS
<1>3. PICK res \in Taken : res = <<a>> /\ res # <<>> /\ res[1] = a
  <2>1. <<a>> \in {<<x>> : x \in Answers}
    OBVIOUS
  <2>2. <<a>> # <<>> /\ <<a>>[1] = a
    OBVIOUS
  <2> QED
    BY <2>1, <2>2 DEF Taken
<1>4. q = [r EXCEPT !.res = res, !.run = run]
  BY <1>1, <1>2, <1>3
<1>5. q \in Logins
  BY <1>4 DEF Logins, Runs
<1>6. /\ q.run = run /\ q.state = r.state /\ q.code = r.code /\ q.password = r.password /\ q.by = r.by
      /\ q.told = r.told /\ q.res = res /\ q.late = r.late /\ q.crossed = r.crossed
  BY <1>4 DEF Logins
<1>7. OkIsLast(q) /\ Goes(r, q)
  BY ZenonT(60), <1>1, <1>2, <1>3, <1>6 DEF LoginSound, OkIsLast, Goes, Finished, Quiet
<1>8. Balanced(q, Cardinality(w))
  <2>1. InputsOf(q) = InputsOf(r)
    <3>1. InputsOf(q) = One(q.code # <<>>) + One(q.password # <<>>) + 0 + 1
      BY <1>3, <1>6 DEF InputsOf, One
    <3>2. InputsOf(r) = One(r.code # <<>>) + One(r.password # <<>>) + 1 + 0
      BY DEF InputsOf, One
    <3>3. One(q.code # <<>>) = One(r.code # <<>>) /\ One(q.password # <<>>) = One(r.password # <<>>)
      BY <1>6 DEF One
    <3>4. One(r.code # <<>>) \in Nat /\ One(r.password # <<>>) \in Nat
      BY DEF One
    <3>5. PICK x \in Nat, y \in Nat : x = One(r.code # <<>>) /\ y = One(r.password # <<>>)
      BY <3>4
    <3>6. InputsOf(q) = x + y + 0 + 1 /\ InputsOf(r) = x + y + 1 + 0
      BY <3>1, <3>2, <3>3, <3>5
    <3> QED
      BY <3>6
  <2>2. run = "password" => r.by # 0
    BY <1>2 DEF LoginSound, OkIsLast
  <2> QED
    BY <2>1, <2>2, <1>6 DEF LoginSound, Balanced, Works
<1>9. OwnInputs(q, w, s)
  <2>1. Quiet(r) => r.by = 0 \/ r.by \in w
    BY DEF LoginSound, OwnInputs, Works
  <2>2. run = "password" => r.by # 0
    BY <1>2 DEF LoginSound, OkIsLast
  <2> QED
    BY <1>1, <1>3, <1>6, <2>1, <2>2 DEF LoginSound, OwnInputs, Quiet, Works
<1> QED
  BY <1>5, <1>7, <1>8, <1>9 DEF StaysSound, LoginSound

LEMMA LoginIs ==
  ASSUME WizardIInv, NEW i \in DOMAIN logins
  PROVE  \E r \in Logins, w \in SUBSET Callers, s \in SUBSET Callers :
           /\ r = logins[i] /\ w = Waiting(i) /\ s = InStep(i) /\ LoginSound(r, w, s)
           /\ w \subseteq s /\ IsFiniteSet(w)
<1>1. logins[i] \in Logins
  BY DEF WizardIInv, WizardTyped
<1>2. Waiting(i) \in SUBSET Callers /\ InStep(i) \in SUBSET Callers /\ Waiting(i) \subseteq InStep(i)
  BY DEF Waiting, InStep
<1>3. IsFiniteSet(Waiting(i))
  BY <1>2, FS_Subset, WizardAssumption
<1> QED
  BY <1>1, <1>2, <1>3 DEF WizardIInv

\* One login changed, the others not.
LEMMA ChangedIs ==
  ASSUME WizardIInv, NEW i \in DOMAIN logins, NEW q \in Logins, Changed(i, q)
  PROVE  /\ logins' \in Seq(Logins) /\ DOMAIN logins' = DOMAIN logins
         /\ logins'[i] = q /\ \A j \in DOMAIN logins \ {i} : logins'[j] = logins[j]
<1>1. logins \in Seq(Logins) /\ logins' = [logins EXCEPT ![i] = q]
  BY DEF WizardIInv, WizardTyped, Changed
<1>2. PICK l \in Seq(Logins) : l = logins
  BY <1>1
<1>3. [l EXCEPT ![i] = q] \in Seq(Logins) /\ DOMAIN [l EXCEPT ![i] = q] = DOMAIN l
  BY <1>2, ExceptSeq
<1> QED
  BY <1>1, <1>2, <1>3

LEMMA LoginChanges ==
  ASSUME WizardIInv, NEW i \in DOMAIN logins, NEW q, Changed(i, q), UNCHANGED <<sessions, call>>,
         NEW r, NEW w, NEW s, r = logins[i], w = Waiting(i), s = InStep(i), StaysSound(r, q, w, s)
  PROVE  WizardIInv'
<1>1. /\ q \in Logins
      /\ logins' \in Seq(Logins) /\ DOMAIN logins' = DOMAIN logins
      /\ logins'[i] = q /\ \A j \in DOMAIN logins \ {i} : logins'[j] = logins[j]
  BY ChangedIs DEF StaysSound
<1>2. WizardTyped'
  BY <1>1 DEF WizardIInv, WizardTyped
<1>3. ASSUME NEW j \in DOMAIN logins PROVE LoginSound(logins[j], Waiting(j), InStep(j))'
  <2>1. PICK t, v, u : t = logins'[j] /\ v = Waiting(j) /\ u = InStep(j)
    OBVIOUS
  <2>2. Waiting(j)' = v /\ InStep(j)' = u
    BY <2>1 DEF Waiting, InStep
  <2>3. LoginSound(t, v, u)
    BY <1>1, <2>1 DEF StaysSound, WizardIInv
  <2> QED
    BY <2>1, <2>2, <2>3 DEF LoginSound, OkIsLast, Balanced, OwnInputs
<1>4. ASSUME NEW c \in Callers PROVE AnsweredRight(c)'
  <2>1. AnsweredRight(c) /\ call'[c] = call[c] /\ (call[c].at = "answered" => call[c].id \in DOMAIN logins)
    BY DEF WizardIInv, WizardTyped
  <2>2. call[c].at = "answered" => Goes(logins[call[c].id], logins'[call[c].id])
    BY <1>1, <2>1 DEF StaysSound, Goes
  <2> QED
    BY <2>1, <2>2 DEF AnsweredRight, Goes
<1> QED
  BY <1>1, <1>2, <1>3, <1>4 DEF WizardIInv

LEMMA RunnerKept ==
  ASSUME WizardIInv, NEW i \in DOMAIN logins,
         \/ RequestEnds(i) \/ TenMinutes(i) \/ StartLogin(i) \/ TakeCode(i) \/ SubmitCode(i)
         \/ TakePassword(i) \/ SubmitPassword(i) \/ Tell(i) \/ RunnerCancelled(i) \/ RunnerEnds(i)
  PROVE  WizardIInv'
<1>1. PICK r \in Logins, w \in SUBSET Callers, s \in SUBSET Callers :
        /\ r = logins[i] /\ w = Waiting(i) /\ s = InStep(i) /\ LoginSound(r, w, s)
        /\ w \subseteq s /\ IsFiniteSet(w)
  BY LoginIs
<1>2. UNCHANGED <<sessions, call>>
  BY DEF RequestEnds, TenMinutes, StartLogin, TakeCode, SubmitCode, TakePassword, SubmitPassword, Tell,
         RunnerCancelled, RunnerEnds
<1>3. SUFFICES \E q : Changed(i, q) /\ StaysSound(r, q, w, s)
  BY <1>1, <1>2, LoginChanges
<1>4. CASE RequestEnds(i)
  <2>1. PICK o \in Outlives : Changed(i, [logins[i] EXCEPT !.asked = FALSE, !.ctx = @ /\ o])
    BY <1>4 DEF RequestEnds
  <2>2. PICK b \in BOOLEAN : b = (logins[i].ctx /\ o)
    OBVIOUS
  <2>3. PICK q : q = [r EXCEPT !.asked = FALSE, !.ctx = b]
    OBVIOUS
  <2>4. Changed(i, q)
    BY <1>1, <2>1, <2>2, <2>3
  <2> QED
    BY <1>1, <2>3, <2>4, FreeChanges
<1>5. CASE TenMinutes(i)
  <2>1. PICK q : q = [r EXCEPT !.old = TRUE, !.ctx = FALSE]
    OBVIOUS
  <2>2. Changed(i, q)
    BY <1>5, <1>1, <2>1 DEF TenMinutes
  <2> QED
    BY <1>1, <2>1, <2>2, FreeChanges
<1>6. CASE StartLogin(i)
  <2>1. r.run = "starting" /\ \E q : Changed(i, q) /\ (q = [r EXCEPT !.run = "code", !.state = "await_code"] \/ q = Telling(r, "start failed", r.state) \/ q = [r EXCEPT !.run = "returned"])
    BY <1>6, <1>1 DEF StartLogin
  <2>2. PICK q : Changed(i, q) /\ (q = [r EXCEPT !.run = "code", !.state = "await_code"] \/ q = Telling(r, "start failed", r.state) \/ q = [r EXCEPT !.run = "returned"])
    BY <2>1
  <2> QED
    BY <1>1, <2>1, <2>2, Starting
<1>7. CASE TakeCode(i)
  <2>1. PICK q : q = [r EXCEPT !.run = "signing", !.by = Head(r.code), !.code = <<>>]
    OBVIOUS
  <2>2. Changed(i, q) /\ r.run = "code" /\ r.code # <<>>
    BY <1>7, <1>1, <2>1 DEF TakeCode
  <2> QED
    BY <1>1, <2>1, <2>2, CodeTaking
<1>8. CASE SubmitCode(i)
  <2>1. r.run = "signing" /\ \E q : Changed(i, q) /\ (q = Telling(r, "ok", "authorized") \/ q = Telling(r, "password needed", "await_password") \/ q = Telling(r, "wrong", r.state))
    BY <1>8, <1>1 DEF SubmitCode
  <2>2. PICK q : Changed(i, q) /\ (q = Telling(r, "ok", "authorized") \/ q = Telling(r, "password needed", "await_password") \/ q = Telling(r, "wrong", r.state))
    BY <2>1
  <2> QED
    BY <1>1, <2>1, <2>2, Signing
<1>9. CASE TakePassword(i)
  <2>1. PICK q : q = [r EXCEPT !.run = "checking", !.by = Head(r.password), !.password = <<>>]
    OBVIOUS
  <2>2. Changed(i, q) /\ r.run = "password" /\ r.password # <<>>
    BY <1>9, <1>1, <2>1 DEF TakePassword
  <2> QED
    BY <1>1, <2>1, <2>2, PasswordTaking
<1>10. CASE SubmitPassword(i)
  <2>1. r.run = "checking" /\ \E q : Changed(i, q) /\ (q = Telling(r, "ok", "authorized") \/ q = Telling(r, "wrong", r.state))
    BY <1>10, <1>1 DEF SubmitPassword
  <2>2. PICK q : Changed(i, q) /\ (q = Telling(r, "ok", "authorized") \/ q = Telling(r, "wrong", r.state))
    BY <2>1
  <2> QED
    BY <1>1, <2>1, <2>2, Checking
<1>11. CASE Tell(i)
  <2>1. PICK q : q = [r EXCEPT !.res = <<[what |-> r.told, by |-> r.by]>>,
                               !.run = IF r.told = "password needed" THEN "password" ELSE "returned"]
    OBVIOUS
  <2>2. Changed(i, q) /\ r.run = "telling" /\ r.res = <<>>
    BY <1>11, <1>1, <2>1 DEF Tell
  <2> QED
    BY <1>1, <2>1, <2>2, Told
<1>12. CASE RunnerCancelled(i)
  <2>1. PICK q : q = [r EXCEPT !.run = "returned"]
    OBVIOUS
  <2>2. Changed(i, q) /\ r.run \in {"code", "password"}
    BY <1>12, <1>1, <2>1 DEF RunnerCancelled
  <2> QED
    BY <1>1, <2>1, <2>2, Cancelling
<1>13. CASE RunnerEnds(i)
  <2>1. r.run = "returned" /\ logins' = [logins EXCEPT ![i] =
          [r EXCEPT !.run = "ended", !.ctx = FALSE,
                    !.state = IF i \in sessions /\ r.state # "authorized" THEN "failed" ELSE r.state]]
    BY <1>13, <1>1 DEF RunnerEnds, Changed
  <2>2. CASE i \in sessions /\ r.state # "authorized"
    <3>1. PICK q : q = [r EXCEPT !.run = "ended", !.ctx = FALSE, !.state = "failed"]
      OBVIOUS
    <3>2. Changed(i, q)
      BY <2>1, <2>2, <3>1 DEF Changed
    <3> QED
      BY <1>1, <2>1, <2>2, <3>1, <3>2, Ending
  <2>3. CASE ~ (i \in sessions /\ r.state # "authorized")
    <3>1. PICK q : q = [r EXCEPT !.run = "ended", !.ctx = FALSE, !.state = r.state]
      OBVIOUS
    <3>2. Changed(i, q)
      BY <2>1, <2>3, <3>1 DEF Changed
    <3>3. [r EXCEPT !.run = "ended", !.ctx = FALSE, !.state = r.state] = [r EXCEPT !.run = "ended", !.ctx = FALSE]
      BY DEF Logins
    <3> QED
      BY <1>1, <2>1, <3>1, <3>2, <3>3, Ending
  <2> QED
    BY <2>2, <2>3
<1> QED
  BY <1>4, <1>5, <1>6, <1>7, <1>8, <1>9, <1>10, <1>11, <1>12, <1>13

\* What a call's step does to those who are in a login.
LEMMA CallMoves ==
  ASSUME call \in [Callers -> Calls], NEW c \in Callers, NEW e \in Calls, call' = [call EXCEPT ![c] = e],
         NEW i, e.id = i, call[c].at \in {"idle", "answered"} \/ call[c].id = i
  PROVE  /\ Waiting(i)' = IF e.at = "waiting" THEN Waiting(i) \cup {c} ELSE Waiting(i) \ {c}
         /\ InStep(i)' = IF e.at \in {"sending", "waiting"} THEN InStep(i) \cup {c} ELSE InStep(i) \ {c}
<1>1. call'[c] = e /\ \A d \in Callers \ {c} : call'[d] = call[d]
  OBVIOUS
<1>2. Waiting(i)' = IF e.at = "waiting" THEN Waiting(i) \cup {c} ELSE Waiting(i) \ {c}
  BY <1>1 DEF Waiting
<1>3. InStep(i)' = IF e.at \in {"sending", "waiting"} THEN InStep(i) \cup {c} ELSE InStep(i) \ {c}
  BY <1>1 DEF InStep
<1> QED
  BY <1>2, <1>3

LEMMA CallChanges ==
  ASSUME WizardIInv, NEW c \in Callers, NEW e \in Calls, call' = [call EXCEPT ![c] = e],
         NEW i \in DOMAIN logins, e.id = i, call[c].at \in {"idle", "answered"} \/ call[c].id = i,
         NEW q \in Logins, Changed(i, q), sessions' = sessions,
         NEW w, NEW s, w = Waiting(i)', s = InStep(i)', LoginSound(q, w, s),
         NEW r, r = logins[i], Goes(r, q),
         e.at = "answered" => /\ e.answer.by = c \/ e.answer.by = 0 \/ ~ Quiet(q)
                              /\ e.answer.what = "ok" => Finished(q)
  PROVE  WizardIInv'
<1>1. /\ logins' \in Seq(Logins) /\ DOMAIN logins' = DOMAIN logins
      /\ logins'[i] = q /\ \A j \in DOMAIN logins \ {i} : logins'[j] = logins[j]
  BY ChangedIs
<1>2. /\ call \in [Callers -> Calls] /\ call' \in [Callers -> Calls]
      /\ call'[c] = e /\ \A d \in Callers \ {c} : call'[d] = call[d]
  BY DEF WizardIInv, WizardTyped
<1>3. WizardTyped'
  BY <1>1, <1>2 DEF WizardIInv, WizardTyped
<1>4. ASSUME NEW j \in DOMAIN logins PROVE LoginSound(logins[j], Waiting(j), InStep(j))'
  <2>1. PICK t, v, u : t = logins'[j] /\ v = Waiting(j)' /\ u = InStep(j)'
    OBVIOUS
  <2>2. j # i => v = Waiting(j) /\ u = InStep(j)
    <3>1. j # i => Waiting(j)' = Waiting(j) /\ InStep(j)' = InStep(j)
      BY <1>2 DEF Waiting, InStep
    <3> QED
      BY <2>1, <3>1
  <2>3. LoginSound(t, v, u)
    <3>1. CASE j = i
      BY <1>1, <2>1, <3>1
    <3>2. CASE j # i
      BY <1>1, <2>1, <2>2, <3>2 DEF WizardIInv
    <3> QED
      BY <3>1, <3>2
  <2> QED
    BY <2>1, <2>3 DEF LoginSound, OkIsLast, Balanced, OwnInputs
<1>5. ASSUME NEW d \in Callers PROVE AnsweredRight(d)'
  <2>1. CASE d = c
    <3>1. call'[c] = e /\ logins'[call'[c].id] = q
      BY <1>1, <1>2
    <3>2. e.at = "answered" => /\ e.answer.by = c \/ e.answer.by = 0 \/ ~ Quiet(q)
                               /\ e.answer.what = "ok" => Finished(q)
      OBVIOUS
    <3> QED
      BY <2>1, <3>1, <3>2 DEF AnsweredRight, Quiet, Finished
  <2>2. CASE d # c
    <3>1. AnsweredRight(d) /\ call'[d] = call[d] /\ (call[d].at = "answered" => call[d].id \in DOMAIN logins)
      BY <1>2, <2>2 DEF WizardIInv, WizardTyped
    <3>2. call[d].at = "answered" => Goes(logins[call[d].id], logins'[call[d].id])
      BY <1>1, <3>1 DEF Goes
    <3> QED
      BY <3>1, <3>2 DEF AnsweredRight, Goes
  <2> QED
    BY <2>1, <2>2
<1> QED
  BY <1>1, <1>3, <1>4, <1>5 DEF WizardIInv

\* The same over values: a call comes, puts its input in, takes the answer, gives up.
LEMMA Coming ==
  ASSUME NEW r \in Logins, NEW w \in SUBSET Callers, NEW s \in SUBSET Callers, LoginSound(r, w, s),
         NEW c \in Callers, NEW b \in BOOLEAN, b <=> (r.crossed \/ s # {}), NEW q, q = [r EXCEPT !.crossed = b],
         NEW t, t \subseteq s \cup {c}
  PROVE  q \in Logins /\ LoginSound(q, w, t) /\ Goes(r, q)
<1>1. q \in Logins
  BY DEF Logins
<1>2. /\ q.run = r.run /\ q.state = r.state /\ q.code = r.code /\ q.password = r.password /\ q.by = r.by
      /\ q.told = r.told /\ q.res = r.res /\ q.late = r.late /\ q.crossed = b
  BY DEF Logins
<1>3. Quiet(q) => Quiet(r) /\ s = {}
  BY <1>2 DEF Quiet
<1> QED
  BY <1>1, <1>2, <1>3 DEF LoginSound, OkIsLast, Balanced, OwnInputs, Goes, Finished, Quiet, Works, InputsOf

LEMMA Putting ==
  ASSUME NEW r \in Logins, NEW w \in SUBSET Callers, NEW s \in SUBSET Callers, LoginSound(r, w, s), IsFiniteSet(w),
         NEW c \in s, c \notin w, NEW v, w \subseteq v, c \in v, v \subseteq w \cup {c}, NEW q,
         \/ r.code = <<>> /\ q = [r EXCEPT !.code = <<c>>]
         \/ r.password = <<>> /\ q = [r EXCEPT !.password = <<c>>]
  PROVE  q \in Logins /\ LoginSound(q, v, s) /\ Goes(r, q)
<1>1. PICK in \in Inputs : in = <<c>> /\ in # <<>> /\ \A d \in Callers : in = <<d>> => d = c
  <2>1. <<c>> \in {<<d>> : d \in Callers} /\ <<c>> # <<>>
    OBVIOUS
  <2>2. \A d \in Callers : <<c>> = <<d>> => d = c
    OBVIOUS
  <2> QED
    BY <2>1, <2>2 DEF Inputs
<1>2. /\ Cardinality(v) = Cardinality(w) + 1 /\ Cardinality(w) \in Nat
  <2>1. v = w \cup {c}
    OBVIOUS
  <2> QED
    BY <2>1, FS_AddElement, FS_CardinalityType
<1>3. q \in Logins
  BY <1>1 DEF Logins
<1>4. /\ q.run = r.run /\ q.state = r.state /\ q.by = r.by /\ q.told = r.told /\ q.res = r.res
      /\ q.late = r.late /\ q.crossed = r.crossed
      /\ \/ r.code = <<>> /\ q.code = in /\ q.password = r.password
         \/ r.password = <<>> /\ q.password = in /\ q.code = r.code
  BY <1>1 DEF Logins
<1>5. OkIsLast(q) /\ Goes(r, q)
  BY <1>4 DEF LoginSound, OkIsLast, Goes, Finished, Quiet
<1>6. Balanced(q, Cardinality(v))
  <2>1. InputsOf(q) = InputsOf(r) + 1
    <3>1. /\ One(q.run \in {"signing", "checking", "telling"}) = One(r.run \in {"signing", "checking", "telling"})
          /\ One(q.res # <<>>) = One(r.res # <<>>)
      BY <1>4 DEF One
    <3>2. One(q.code # <<>>) + One(q.password # <<>>) = One(r.code # <<>>) + One(r.password # <<>>) + 1
      <4>1. CASE r.code = <<>> /\ q.code = in /\ q.password = r.password
        BY <1>1, <4>1 DEF One
      <4>2. CASE r.password = <<>> /\ q.password = in /\ q.code = r.code
        BY <1>1, <4>2 DEF One
      <4> QED
        BY <1>4, <4>1, <4>2
    <3>3. \A p \in BOOLEAN : One(p) \in Nat
      BY DEF One
    <3>4. PICK x \in Nat, y \in Nat, z \in Nat :
            /\ x = One(q.run \in {"signing", "checking", "telling"}) /\ y = One(q.res # <<>>)
            /\ z = One(r.code # <<>>) + One(r.password # <<>>)
      BY DEF One
    <3>5. InputsOf(q) = (One(q.code # <<>>) + One(q.password # <<>>)) + x + y
      BY <3>4 DEF InputsOf
    <3>6. InputsOf(r) = z + x + y
      BY <3>1, <3>4 DEF InputsOf
    <3> QED
      BY <3>2, <3>4, <3>5, <3>6
  <2>2. r.late \in Nat
    BY DEF Logins
  <2>3. Works(r) => InputsOf(r) = Cardinality(w) + r.late
    BY DEF LoginSound, Balanced
  <2> QED
    BY <1>2, <1>4, <2>1, <2>2, <2>3 DEF Balanced, Works
<1>7. OwnInputs(q, v, s)
  <2>1. Quiet(r) => \A a, b \in s : a = b
    BY DEF LoginSound, OwnInputs
  <2> QED
    BY <1>1, <1>4, <2>1 DEF LoginSound, OwnInputs, Quiet, Works
<1> QED
  BY <1>3, <1>5, <1>6, <1>7 DEF LoginSound

LEMMA OneLess ==
  ASSUME NEW w, IsFiniteSet(w), NEW c \in w, NEW v, v = w \ {c}
  PROVE  \E n \in Nat : Cardinality(w) = n + 1 /\ Cardinality(v) = n
<1>1. IsFiniteSet(v) /\ Cardinality(v) = Cardinality(w) - 1
  BY FS_RemoveElement
<1>2. Cardinality(v) \in Nat /\ Cardinality(w) \in Nat
  BY <1>1, FS_CardinalityType
<1> QED
  BY <1>1, <1>2

LEMMA Took ==
  ASSUME NEW r \in Logins, NEW w \in SUBSET Callers, NEW s \in SUBSET Callers, LoginSound(r, w, s), IsFiniteSet(w),
         w \subseteq s, NEW c \in w, NEW v \in SUBSET w, c \notin v, w \subseteq v \cup {c}, NEW u \in SUBSET s,
         r.res # <<>>,
         NEW q, q = [r EXCEPT !.res = <<>>]
  PROVE  /\ q \in Logins /\ LoginSound(q, v, u) /\ Goes(r, q)
         /\ r.res[1].by = c \/ r.res[1].by = 0 \/ ~ Quiet(q)
         /\ r.res[1].what = "ok" => Finished(q)
<1>1. q \in Logins
  BY DEF Logins, Taken
<1>2. /\ q.run = r.run /\ q.state = r.state /\ q.code = r.code /\ q.password = r.password /\ q.by = r.by
      /\ q.told = r.told /\ q.res = <<>> /\ q.late = r.late /\ q.crossed = r.crossed
  BY DEF Logins
<1>3. PICK n \in Nat : Cardinality(w) = n + 1 /\ Cardinality(v) = n
  <2>1. v = w \ {c}
    OBVIOUS
  <2> QED
    BY <2>1, OneLess
<1>4. OkIsLast(q) /\ Goes(r, q)
  BY <1>2 DEF LoginSound, OkIsLast, Goes, Finished, Quiet
<1>5. PICK x \in {0, 1}, y \in {0, 1}, z \in {0, 1} :
        /\ x = One(r.code # <<>>) /\ y = One(r.password # <<>>)
        /\ z = One(r.run \in {"signing", "checking", "telling"})
  BY DEF One
<1>6. InputsOf(r) = x + y + z + 1 /\ InputsOf(q) = x + y + z
  <2>1. One(r.res # <<>>) = 1 /\ One(q.res # <<>>) = 0
    BY <1>2 DEF One
  <2>2. One(q.code # <<>>) = x /\ One(q.password # <<>>) = y
        /\ One(q.run \in {"signing", "checking", "telling"}) = z
    BY <1>2, <1>5 DEF One
  <2> QED
    BY <1>5, <2>1, <2>2 DEF InputsOf
<1>7. r.late \in Nat /\ (Works(r) => x + y + z + 1 = (n + 1) + r.late)
  BY <1>3, <1>6 DEF Logins, LoginSound, Balanced
<1>8. Balanced(q, Cardinality(v))
  BY <1>2, <1>3, <1>6, <1>7 DEF Balanced, Works
<1>9. Quiet(r) => s = {c} /\ w = {c}
  BY DEF LoginSound, OwnInputs
<1>10. ASSUME Quiet(r), Works(r) PROVE r.code = <<>> /\ r.password = <<>> /\ r.run \notin {"signing", "checking", "telling"}
  <2>1. v = {} /\ Cardinality(v) = 0
    BY <1>9, <1>10, FS_EmptySet
  <2>2. x = 0 /\ y = 0 /\ z = 0
    BY <1>3, <1>5, <1>7, <1>10, <2>1 DEF Quiet
  <2> QED
    BY <1>5, <2>2 DEF One
<1>11. OwnInputs(q, v, u)
  <2>1. Quiet(q) <=> Quiet(r)
    BY <1>2 DEF Quiet
  <2>2. Works(q) <=> Works(r)
    BY <1>2 DEF Works
  <2>3. \A d \in Callers : <<>> # <<d>>
    OBVIOUS
  <2>4. Quiet(q) => \A a, b \in u : a = b
    BY <1>9, <2>1
  <2>5. Quiet(q) /\ Works(q) => /\ \A d \in Callers : q.code # <<d>> /\ q.password # <<d>>
                                /\ q.run \notin {"signing", "checking", "telling"}
    BY <1>2, <1>10, <2>1, <2>2, <2>3
  <2> QED
    BY <1>2, <2>4, <2>5 DEF OwnInputs
<1>12. /\ r.res[1].by = c \/ r.res[1].by = 0 \/ ~ Quiet(q)
       /\ r.res[1].what = "ok" => Finished(q)
  BY <1>2, <1>9 DEF LoginSound, OkIsLast, OwnInputs, Quiet, Finished
<1> QED
  BY <1>1, <1>4, <1>8, <1>11, <1>12 DEF LoginSound

LEMMA GivingUp ==
  ASSUME NEW r \in Logins, NEW w \in SUBSET Callers, NEW s \in SUBSET Callers, LoginSound(r, w, s), IsFiniteSet(w),
         NEW c \in w, NEW v \in SUBSET w, v = w \ {c}, NEW u, NEW n \in Nat, n = r.late + 1,
         NEW q, q = [r EXCEPT !.late = n]
  PROVE  q \in Logins /\ LoginSound(q, v, u) /\ Goes(r, q) /\ ~ Quiet(q)
<1>1. q \in Logins
  BY DEF Logins
<1>2. /\ q.run = r.run /\ q.state = r.state /\ q.code = r.code /\ q.password = r.password /\ q.by = r.by
      /\ q.told = r.told /\ q.res = r.res /\ q.late = n /\ q.crossed = r.crossed
  BY DEF Logins
<1>3. PICK k \in Nat : Cardinality(w) = k + 1 /\ Cardinality(v) = k
  BY OneLess
<1>4. r.late \in Nat /\ n # 0
  <2>1. r.late \in Nat
    BY DEF Logins
  <2> QED
    BY <2>1
<1>5. ~ Quiet(q)
  BY <1>2, <1>4 DEF Quiet
<1>6. OkIsLast(q) /\ Goes(r, q)
  BY <1>2, <1>5 DEF LoginSound, OkIsLast, Goes, Finished
<1>7. Balanced(q, Cardinality(v))
  <2>1. InputsOf(q) = InputsOf(r)
    BY <1>2 DEF InputsOf
  <2> QED
    BY <1>2, <1>3, <1>4, <2>1 DEF LoginSound, Balanced, Works
<1> QED
  BY <1>1, <1>5, <1>6, <1>7 DEF LoginSound, OwnInputs

LEMMA Refusing ==
  ASSUME NEW r \in Logins, NEW w, NEW s, LoginSound(r, w, s), NEW u \in SUBSET s
  PROVE  LoginSound(r, w, u) /\ Goes(r, r)
BY DEF LoginSound, OwnInputs, Goes

LEMMA CallIs ==
  ASSUME WizardIInv, NEW c \in Callers
  PROVE  /\ call \in [Callers -> Calls]
         /\ \E k \in Calls : k = call[c]
         /\ call[c].at # "idle" => call[c].id \in DOMAIN logins
BY DEF WizardIInv, WizardTyped

LEMMA NoCallTyped == NoCall \in Calls /\ NoCall.at = "idle"
<1>1. "" \in Words /\ 0 \in Names
  BY DEF Words, Names
<1>2. [what |-> "", by |-> 0] \in Answers
  BY <1>1 DEF Answers
<1>3. NoCall \in Calls
  BY <1>2 DEF NoCall, Calls
<1> QED
  BY <1>3 DEF NoCall

LEMMA StepBeginsKept ==
  ASSUME WizardIInv, NEW c \in Callers, NEW i \in DOMAIN logins, NEW kind \in {"code", "password"}, StepBegins(c, i, kind)
  PROVE  WizardIInv'
<1>1. PICK r \in Logins, w \in SUBSET Callers, s \in SUBSET Callers :
        /\ r = logins[i] /\ w = Waiting(i) /\ s = InStep(i) /\ LoginSound(r, w, s)
        /\ w \subseteq s /\ IsFiniteSet(w)
  BY LoginIs
<1>2. PICK e \in Calls : e = [NoCall EXCEPT !.at = "sending", !.id = i, !.kind = kind] /\ e.at = "sending" /\ e.id = i
  <2>1. i \in Nat
    BY DEF WizardIInv, WizardTyped
  <2>2. PICK n \in Calls : n = NoCall
    BY NoCallTyped
  <2>3. [n EXCEPT !.at = "sending", !.id = i, !.kind = kind] \in Calls
    BY <2>1 DEF Calls
  <2>4. PICK e \in Calls : e = [n EXCEPT !.at = "sending", !.id = i, !.kind = kind] /\ e.at = "sending" /\ e.id = i
    BY <2>3 DEF Calls
  <2> QED
    BY <2>2, <2>4
<1>3. PICK b \in BOOLEAN : b = (r.crossed \/ s # {})
  OBVIOUS
<1>4. PICK q : q = [r EXCEPT !.crossed = b]
  OBVIOUS
<1>5. /\ call' = [call EXCEPT ![c] = e] /\ Changed(i, q) /\ sessions' = sessions
      /\ call[c].at \in {"idle", "answered"}
  BY <1>1, <1>2, <1>3, <1>4 DEF StepBegins
<1>6. Waiting(i)' = w /\ InStep(i)' = s \cup {c}
  <2>1. /\ Waiting(i)' = Waiting(i) \ {c} /\ InStep(i)' = InStep(i) \cup {c}
    BY <1>2, <1>5, CallIs, CallMoves
  <2>2. c \notin w
    BY <1>1, <1>5 DEF Waiting
  <2> QED
    BY <1>1, <2>1, <2>2
<1>7. PICK t : t = s \cup {c}
  OBVIOUS
<1>8. q \in Logins /\ LoginSound(q, w, t) /\ Goes(r, q)
  <2>1. t \subseteq s \cup {c} /\ (b <=> (r.crossed \/ s # {}))
    BY <1>3, <1>7
  <2> QED
    BY SMTT(30), <1>1, <1>4, <2>1, Coming
<1> QED
  BY <1>1, <1>2, <1>5, <1>6, <1>7, <1>8, CallChanges

LEMMA SendInputKept == ASSUME WizardIInv, NEW c \in Callers, SendInput(c) PROVE WizardIInv'
<1>0. PICK k \in Calls : k = call[c]
  BY CallIs
<1>1. PICK i \in DOMAIN logins : i = call[c].id /\ call[c].at = "sending"
  BY CallIs DEF SendInput
<1>2. PICK r \in Logins, w \in SUBSET Callers, s \in SUBSET Callers :
        /\ r = logins[i] /\ w = Waiting(i) /\ s = InStep(i) /\ LoginSound(r, w, s)
        /\ w \subseteq s /\ IsFiniteSet(w)
  BY LoginIs
<1>3. PICK e \in Calls : e = [k EXCEPT !.at = "waiting"] /\ e.at = "waiting" /\ e.id = k.id
  <2>1. [k EXCEPT !.at = "waiting"] \in Calls
    BY DEF Calls
  <2> QED
    BY <2>1 DEF Calls
<1>4. call' = [call EXCEPT ![c] = e] /\ sessions' = sessions
  BY <1>0, <1>3, CallIs DEF SendInput
<1>5. PICK q : /\ \/ r.code = <<>> /\ q = [r EXCEPT !.code = <<c>>]
                  \/ r.password = <<>> /\ q = [r EXCEPT !.password = <<c>>]
               /\ Changed(i, q)
  <2>1. k.kind \in {"code", "password"}
    BY DEF Calls
  <2>2. r[k.kind] = <<>> /\ Changed(i, [r EXCEPT ![k.kind] = <<c>>])
    BY <1>0, <1>1, <1>2 DEF SendInput
  <2>3. CASE k.kind = "code"
    <3>1. r.code = <<>> /\ Changed(i, [r EXCEPT !.code = <<c>>])
      BY <2>2, <2>3
    <3> QED
      BY <3>1
  <2>4. CASE k.kind = "password"
    <3>1. r.password = <<>> /\ Changed(i, [r EXCEPT !.password = <<c>>])
      BY <2>2, <2>4
    <3> QED
      BY <3>1
  <2> QED
    BY <2>1, <2>3, <2>4
<1>6. c \in s /\ c \notin w
  BY <1>1, <1>2 DEF InStep, Waiting
<1>7. PICK v : v = w \cup {c}
  OBVIOUS
<1>8. v = Waiting(i)' /\ s = InStep(i)'
  <2>1. Waiting(i)' = Waiting(i) \cup {c} /\ InStep(i)' = InStep(i) \cup {c}
    BY <1>0, <1>1, <1>3, <1>4, CallIs, CallMoves
  <2> QED
    BY <1>2, <1>6, <1>7, <2>1
<1>9. q \in Logins /\ LoginSound(q, v, s) /\ Goes(r, q)
  <2>1. w \subseteq v /\ c \in v /\ v \subseteq w \cup {c}
    BY <1>7
  <2> QED
    BY <1>2, <1>5, <1>6, <2>1, Putting
<1> QED
  BY <1>0, <1>1, <1>2, <1>3, <1>4, <1>5, <1>8, <1>9, CallChanges

\* A call ends with an answer.
LEMMA AnswerIs ==
  ASSUME WizardIInv, NEW c \in Callers, NEW what \in Words, NEW by \in Names, Answered(c, what, by)
  PROVE  \E e \in Calls : /\ call' = [call EXCEPT ![c] = e] /\ e.at = "answered" /\ e.id = call[c].id
                          /\ e.answer.what = what /\ e.answer.by = by
<1>1. PICK k \in Calls : k = call[c]
  BY CallIs
<1>2. PICK a \in Answers : a = [what |-> what, by |-> by] /\ a.what = what /\ a.by = by
  <2>1. [what |-> what, by |-> by] \in Answers
    BY DEF Answers
  <2> QED
    BY <2>1
<1>3. PICK e \in Calls : e = [k EXCEPT !.at = "answered", !.answer = a] /\ e.at = "answered" /\ e.id = k.id /\ e.answer = a
  <2>1. [k EXCEPT !.at = "answered", !.answer = a] \in Calls
    BY DEF Calls
  <2> QED
    BY <2>1 DEF Calls
<1>4. call' = [call EXCEPT ![c] = e]
  BY <1>1, <1>2, <1>3, CallIs DEF Answered
<1> QED
  BY <1>1, <1>2, <1>3, <1>4

LEMMA SendTimesOutKept == ASSUME WizardIInv, NEW c \in Callers, SendTimesOut(c) PROVE WizardIInv'
<1>1. PICK i \in DOMAIN logins : i = call[c].id /\ call[c].at = "sending"
  BY CallIs DEF SendTimesOut
<1>2. PICK r \in Logins, w \in SUBSET Callers, s \in SUBSET Callers :
        /\ r = logins[i] /\ w = Waiting(i) /\ s = InStep(i) /\ LoginSound(r, w, s)
        /\ w \subseteq s /\ IsFiniteSet(w)
  BY LoginIs
<1>3. PICK e \in Calls : /\ call' = [call EXCEPT ![c] = e] /\ e.at = "answered" /\ e.id = call[c].id
                        /\ e.answer.what = "not ready" /\ e.answer.by = c
  <2>1. PICK what \in Words, by \in Names : what = "not ready" /\ by = c
    BY DEF Words, Names
  <2>2. Answered(c, what, by)
    BY <2>1 DEF SendTimesOut
  <2>3. PICK e \in Calls : /\ call' = [call EXCEPT ![c] = e] /\ e.at = "answered" /\ e.id = call[c].id
                          /\ e.answer.what = what /\ e.answer.by = by
    BY <2>2, AnswerIs
  <2> QED
    BY <2>1, <2>3
<1>4. Changed(i, r) /\ sessions' = sessions
  <2>1. UNCHANGED <<sessions, logins>> /\ logins \in Seq(Logins)
    BY DEF SendTimesOut, WizardIInv, WizardTyped
  <2> QED
    BY <1>2, <2>1 DEF Changed
<1>5. PICK u \in SUBSET s : u = s \ {c}
  OBVIOUS
<1>6. w = Waiting(i)' /\ u = InStep(i)'
  <2>1. Waiting(i)' = Waiting(i) \ {c} /\ InStep(i)' = InStep(i) \ {c}
    BY ZenonT(60), <1>1, <1>3, CallIs, CallMoves
  <2>2. c \notin w
    BY <1>1, <1>2 DEF Waiting
  <2> QED
    BY <1>2, <1>5, <2>1, <2>2
<1>7. LoginSound(r, w, u) /\ Goes(r, r)
  BY <1>2, Refusing
<1>8. PICK q \in Logins : q = r
  OBVIOUS
<1>9. /\ Changed(i, q) /\ LoginSound(q, w, u) /\ Goes(r, q)
      /\ e.answer.by = c \/ e.answer.by = 0 \/ ~ Quiet(q)
      /\ e.answer.what = "ok" => Finished(q)
  BY <1>3, <1>4, <1>7, <1>8
<1> QED
  BY <1>1, <1>2, <1>3, <1>4, <1>6, <1>9, CallChanges

LEMMA TakeAnswerKept == ASSUME WizardIInv, NEW c \in Callers, TakeAnswer(c) PROVE WizardIInv'
<1>1. PICK i \in DOMAIN logins : i = call[c].id /\ call[c].at = "waiting"
  BY CallIs DEF TakeAnswer
<1>2. PICK r \in Logins, w \in SUBSET Callers, s \in SUBSET Callers :
        /\ r = logins[i] /\ w = Waiting(i) /\ s = InStep(i) /\ LoginSound(r, w, s)
        /\ w \subseteq s /\ IsFiniteSet(w)
  BY LoginIs
<1>3. r.res # <<>> /\ Answered(c, r.res[1].what, r.res[1].by) /\ sessions' = sessions
      /\ Changed(i, TakenAnswer(r))
  BY <1>1, <1>2 DEF TakeAnswer
<1>4. PICK e \in Calls : /\ call' = [call EXCEPT ![c] = e] /\ e.at = "answered" /\ e.id = call[c].id
                        /\ e.answer.what = r.res[1].what /\ e.answer.by = r.res[1].by
  <2>1. PICK a \in Answers : r.res = <<a>>
    BY <1>3 DEF Logins, Taken
  <2>2. a.what \in Words /\ a.by \in Names /\ r.res[1] = a
    BY <2>1 DEF Answers
  <2>3. PICK what \in Words, by \in Names : what = a.what /\ by = a.by
    BY <2>2
  <2>4. Answered(c, what, by)
    BY <1>3, <2>2, <2>3
  <2>5. PICK e \in Calls : /\ call' = [call EXCEPT ![c] = e] /\ e.at = "answered" /\ e.id = call[c].id
                          /\ e.answer.what = what /\ e.answer.by = by
    BY <2>4, AnswerIs
  <2> QED
    BY <2>2, <2>3, <2>5
<1>5. PICK q : q = [r EXCEPT !.res = <<>>]
  OBVIOUS
<1>6. Changed(i, q)
  BY <1>3, <1>5 DEF TakenAnswer
<1>7. PICK v \in SUBSET w, u \in SUBSET s : v = w \ {c} /\ u = s \ {c}
  OBVIOUS
<1>8. v = Waiting(i)' /\ u = InStep(i)'
  <2>1. Waiting(i)' = Waiting(i) \ {c} /\ InStep(i)' = InStep(i) \ {c}
    BY <1>1, <1>4, CallIs, CallMoves
  <2> QED
    BY <1>2, <1>7, <2>1
<1>9. /\ q \in Logins /\ LoginSound(q, v, u) /\ Goes(r, q)
      /\ r.res[1].by = c \/ r.res[1].by = 0 \/ ~ Quiet(q)
      /\ r.res[1].what = "ok" => Finished(q)
  <2>1. c \in w /\ c \notin v /\ w \subseteq v \cup {c}
    BY <1>1, <1>2, <1>7 DEF Waiting
  <2> QED
    BY <1>2, <1>3, <1>5, <2>1, Took
<1>10. /\ e.answer.by = c \/ e.answer.by = 0 \/ ~ Quiet(q)
       /\ e.answer.what = "ok" => Finished(q)
  BY <1>4, <1>9
<1> QED
  BY <1>1, <1>2, <1>3, <1>4, <1>6, <1>8, <1>9, <1>10, CallChanges

LEMMA StepTimesOutKept == ASSUME WizardIInv, NEW c \in Callers, StepTimesOut(c) PROVE WizardIInv'
<1>1. PICK i \in DOMAIN logins : i = call[c].id /\ call[c].at = "waiting"
  BY CallIs DEF StepTimesOut
<1>2. PICK r \in Logins, w \in SUBSET Callers, s \in SUBSET Callers :
        /\ r = logins[i] /\ w = Waiting(i) /\ s = InStep(i) /\ LoginSound(r, w, s)
        /\ w \subseteq s /\ IsFiniteSet(w)
  BY LoginIs
<1>3. PICK e \in Calls : /\ call' = [call EXCEPT ![c] = e] /\ e.at = "answered" /\ e.id = call[c].id
                        /\ e.answer.what = "timeout" /\ e.answer.by = c
  <2>1. Answered(c, "timeout", c) /\ "timeout" \in Words /\ c \in Names
    BY DEF StepTimesOut, Words, Names
  <2> QED
    BY <2>1, AnswerIs
<1>4. PICK n \in Nat : n = r.late + 1
  <2>1. r.late \in Nat
    BY DEF Logins
  <2> QED
    BY <2>1
<1>5. PICK q : q = [r EXCEPT !.late = n]
  OBVIOUS
<1>6. Changed(i, q) /\ sessions' = sessions
  BY <1>1, <1>2, <1>4, <1>5 DEF StepTimesOut
<1>7. PICK v \in SUBSET w, u \in SUBSET s : v = w \ {c} /\ u = s \ {c}
  OBVIOUS
<1>8. v = Waiting(i)' /\ u = InStep(i)'
  <2>1. Waiting(i)' = Waiting(i) \ {c} /\ InStep(i)' = InStep(i) \ {c}
    BY <1>1, <1>3, CallIs, CallMoves
  <2> QED
    BY <1>2, <1>7, <2>1
<1>9. q \in Logins /\ LoginSound(q, v, u) /\ Goes(r, q) /\ ~ Quiet(q)
  <2>1. c \in w
    BY <1>1, <1>2 DEF Waiting
  <2> QED
    BY <1>2, <1>4, <1>5, <1>7, <2>1, GivingUp
<1> QED
  BY <1>1, <1>2, <1>3, <1>6, <1>8, <1>9, CallChanges

LEMMA LoginStartKept == ASSUME WizardIInv, LoginStart PROVE WizardIInv'
<1> DEFINE fresh == {i \in sessions : ~logins[i].old}
           swept == [i \in DOMAIN logins |->
                       IF i \in sessions \ fresh THEN [logins[i] EXCEPT !.ctx = FALSE] ELSE logins[i]]
<1>1. /\ logins \in Seq(Logins) /\ sessions \subseteq DOMAIN logins /\ DOMAIN logins = 1 .. Len(logins)
      /\ Len(logins) \in Nat
  BY DEF WizardIInv, WizardTyped
<1>2. ASSUME NEW i \in DOMAIN logins
      PROVE  /\ swept[i] \in Logins
             /\ LoginSound(swept[i], Waiting(i), InStep(i)) /\ Goes(logins[i], swept[i])
  <2>1. PICK r \in Logins, w \in SUBSET Callers, s \in SUBSET Callers :
          /\ r = logins[i] /\ w = Waiting(i) /\ s = InStep(i) /\ LoginSound(r, w, s)
          /\ w \subseteq s /\ IsFiniteSet(w)
    BY LoginIs
  <2>2. CASE i \in sessions \ fresh
    <3>1. PICK q : q = [r EXCEPT !.ctx = FALSE]
      OBVIOUS
    <3>2. StaysSound(r, q, w, s)
      BY <2>1, <3>1, FreeChanges
    <3>3. swept[i] = q
      BY <2>1, <2>2, <3>1
    <3> QED
      BY <2>1, <3>2, <3>3 DEF StaysSound
  <2>3. CASE i \notin sessions \ fresh
    <3>1. swept[i] = r
      BY <2>1, <2>3
    <3> QED
      BY <2>1, <3>1 DEF Goes
  <2> QED
    BY <2>2, <2>3
<1>3. PICK t \in Seq(Logins) : t = swept /\ Len(t) = Len(logins) /\ DOMAIN t = DOMAIN logins
  <2>1. swept \in [1 .. Len(logins) -> Logins]
    BY <1>1, <1>2
  <2>2. swept \in Seq(Logins) /\ Len(swept) = Len(logins)
    BY <1>1, <2>1
  <2> QED
    BY <1>1, <2>2
<1>4. PICK f : f = fresh /\ f \subseteq sessions
  OBVIOUS
<1>5. UNCHANGED call /\ \/ sessions' = f /\ logins' = t
                        \/ sessions' = f \cup {Len(logins) + 1} /\ logins' = Append(t, NewLogin)
  BY <1>3, <1>4 DEF LoginStart
<1> HIDE DEF fresh, swept
<1>6. /\ NewLogin \in Logins
      /\ NewLogin.run = "starting" /\ NewLogin.by = 0 /\ NewLogin.res = <<>> /\ NewLogin.code = <<>>
      /\ NewLogin.password = <<>> /\ NewLogin.late = 0
  <2>1. <<>> \in Taken /\ <<>> \in Inputs /\ "" \in Words /\ 0 \in Names /\ "starting" \in Runs
    BY DEF Taken, Inputs, Words, Names, Runs
  <2> QED
    BY <2>1 DEF NewLogin, Logins
<1>7. /\ logins' \in Seq(Logins) /\ DOMAIN logins \subseteq DOMAIN logins' /\ sessions' \subseteq DOMAIN logins'
      /\ \A i \in DOMAIN logins : logins'[i] = t[i]
      /\ \A i \in DOMAIN logins' : i \in DOMAIN logins \/ logins'[i] = NewLogin
  <2>1. CASE sessions' = f /\ logins' = t
    BY <1>1, <1>3, <1>4, <2>1
  <2>2. CASE sessions' = f \cup {Len(logins) + 1} /\ logins' = Append(t, NewLogin)
    <3>1. /\ Append(t, NewLogin) \in Seq(Logins) /\ DOMAIN Append(t, NewLogin) = 1 .. Len(logins) + 1
          /\ \A i \in 1 .. Len(logins) : Append(t, NewLogin)[i] = t[i]
          /\ Append(t, NewLogin)[Len(logins) + 1] = NewLogin
      BY <1>3, <1>6
    <3> QED
      BY <1>1, <1>3, <1>4, <2>2, <3>1
  <2> QED
    BY <1>5, <2>1, <2>2
<1>8. WizardTyped'
  BY <1>5, <1>7 DEF WizardIInv, WizardTyped
<1>9. ASSUME NEW i \in DOMAIN logins' PROVE LoginSound(logins[i], Waiting(i), InStep(i))'
  <2>1. Waiting(i)' = Waiting(i) /\ InStep(i)' = InStep(i)
    BY <1>5 DEF Waiting, InStep
  <2>2. PICK q, w, s : q = logins'[i] /\ w = Waiting(i) /\ s = InStep(i)
    OBVIOUS
  <2>3. LoginSound(q, w, s)
    <3>1. CASE i \in DOMAIN logins
      BY <1>2, <1>3, <1>7, <2>2, <3>1
    <3>2. CASE i \notin DOMAIN logins
      <4>1. w = {} /\ s = {}
        BY <2>2, <3>2 DEF WizardIInv, WizardTyped, Waiting, InStep
      <4>2. q = NewLogin
        BY <1>7, <2>2, <3>2
      <4>3. Cardinality(w) = 0
        BY <4>1, FS_EmptySet
      <4>4. OkIsLast(q)
        BY <1>6, <4>2 DEF OkIsLast
      <4>5. Balanced(q, Cardinality(w))
        BY <1>6, <4>2, <4>3 DEF Balanced, InputsOf, One
      <4>6. OwnInputs(q, w, s)
        <5>1. \A c \in Callers : <<>> # <<c>>
          OBVIOUS
        <5> QED
          BY <1>6, <4>1, <4>2, <5>1 DEF OwnInputs
      <4> QED
        BY <4>4, <4>5, <4>6 DEF LoginSound
    <3> QED
      BY <3>1, <3>2
  <2> QED
    BY <2>1, <2>2, <2>3 DEF LoginSound, OkIsLast, Balanced, OwnInputs
<1>10. ASSUME NEW c \in Callers PROVE AnsweredRight(c)'
  <2>1. AnsweredRight(c) /\ call'[c] = call[c] /\ (call[c].at = "answered" => call[c].id \in DOMAIN logins)
    BY <1>5 DEF WizardIInv, WizardTyped
  <2>2. call[c].at = "answered" => Goes(logins[call[c].id], logins'[call[c].id])
    BY <1>2, <1>3, <1>7, <2>1
  <2> QED
    BY <2>1, <2>2 DEF AnsweredRight, Goes
<1> QED
  BY <1>8, <1>9, <1>10 DEF WizardIInv

LEMMA InitWizard == WizardInit => WizardIInv
<1> SUFFICES ASSUME WizardInit PROVE WizardIInv
  OBVIOUS
<1>1. /\ call \in [Callers -> Calls] /\ \A c \in Callers : call[c].at = "idle"
  BY NoCallTyped DEF WizardInit
<1>2. logins \in Seq(Logins) /\ DOMAIN logins = {} /\ sessions = {}
  BY DEF WizardInit
<1> QED
  BY <1>1, <1>2 DEF WizardIInv, WizardTyped, AnsweredRight

LEMMA WizardStep == WizardIInv /\ [WizardNext]_wizardVars => WizardIInv'
<1> SUFFICES ASSUME WizardIInv, [WizardNext]_wizardVars PROVE WizardIInv'
  OBVIOUS
<1>1. CASE WizardNext
  <2>1. CASE LoginStart
    BY <2>1, LoginStartKept
  <2>2. ASSUME NEW i \in DOMAIN logins,
               \/ RequestEnds(i) \/ TenMinutes(i) \/ StartLogin(i) \/ TakeCode(i) \/ SubmitCode(i)
               \/ TakePassword(i) \/ SubmitPassword(i) \/ Tell(i) \/ RunnerCancelled(i) \/ RunnerEnds(i)
        PROVE  WizardIInv'
    BY <2>2, RunnerKept
  <2>3. ASSUME NEW i \in DOMAIN logins, NEW c \in Callers, NEW kind \in {"code", "password"}, StepBegins(c, i, kind)
        PROVE  WizardIInv'
    BY <2>3, StepBeginsKept
  <2>4. ASSUME NEW c \in Callers, SendInput(c) \/ SendTimesOut(c) \/ TakeAnswer(c) \/ StepTimesOut(c)
        PROVE  WizardIInv'
    BY <2>4, SendInputKept, SendTimesOutKept, TakeAnswerKept, StepTimesOutKept
  <2> QED
    BY <1>1, <2>1, <2>2, <2>3, <2>4 DEF WizardNext
<1>2. CASE UNCHANGED wizardVars
  <2>1. UNCHANGED <<sessions, logins, call>>
    BY <1>2 DEF wizardVars
  <2>2. WizardTyped'
    BY <2>1 DEF WizardIInv, WizardTyped
  <2>3. ASSUME NEW i \in DOMAIN logins PROVE LoginSound(logins[i], Waiting(i), InStep(i))'
    <3>1. Waiting(i)' = Waiting(i) /\ InStep(i)' = InStep(i)
      BY <2>1 DEF Waiting, InStep
    <3>2. LoginSound(logins[i], Waiting(i), InStep(i))
      BY DEF WizardIInv
    <3> QED
      BY <2>1, <3>1, <3>2 DEF LoginSound, OkIsLast, Balanced, OwnInputs
  <2>4. ASSUME NEW c \in Callers PROVE AnsweredRight(c)'
    BY <2>1 DEF WizardIInv, AnsweredRight, Finished, Quiet
  <2> QED
    BY <2>1, <2>2, <2>3, <2>4 DEF WizardIInv
<1> QED
  BY <1>1, <1>2

LEMMA WizardInvariance == WizardInit /\ [][WizardNext]_wizardVars => []WizardIInv
BY InitWizard, WizardStep, PTL

LEMMA WizardIInvTells == WizardIInv => AnswersTrue
<1> SUFFICES ASSUME WizardIInv PROVE AnswersTrue
  OBVIOUS
<1>1. ASSUME NEW c \in Callers, call[c].at = "answered"
      PROVE  LET r == logins[call[c].id]
             IN /\ call[c].answer.by = c \/ r.late > 0 \/ r.crossed \/ call[c].answer.by = 0
                /\ call[c].answer.what = "ok" => r.state = "authorized"
  <2>1. PICK r \in Logins : r = logins[call[c].id]
    BY <1>1 DEF WizardIInv, WizardTyped
  <2>2. /\ call[c].answer.by = c \/ call[c].answer.by = 0 \/ ~ Quiet(r)
        /\ call[c].answer.what = "ok" => Finished(r)
    BY <1>1, <2>1 DEF WizardIInv, AnsweredRight
  <2>3. r.late \in Nat /\ r.crossed \in BOOLEAN
    BY DEF Logins
  <2>4. ~ Quiet(r) => r.late > 0 \/ r.crossed
    BY <2>3 DEF Quiet
  <2> QED
    BY <2>1, <2>2, <2>4 DEF Finished
<1>2. ASSUME NEW i \in DOMAIN logins, logins[i].run = "telling", logins[i].res # <<>>, InStep(i) = {}
      PROVE  logins[i].late >= 2
  <2>1. PICK r \in Logins, w \in SUBSET Callers, s \in SUBSET Callers :
          /\ r = logins[i] /\ w = Waiting(i) /\ s = InStep(i) /\ LoginSound(r, w, s)
          /\ w \subseteq s /\ IsFiniteSet(w)
    BY LoginIs
  <2>2. Cardinality(w) = 0
    BY <1>2, <2>1, FS_EmptySet
  <2>3. r.late \in Nat /\ Works(r)
    BY <1>2, <2>1 DEF Logins, LoginSound, OkIsLast, Works
  <2>4. InputsOf(r) = r.late
    BY <2>1, <2>2, <2>3 DEF LoginSound, Balanced
  <2>5. PICK x \in Nat, y \in Nat : x = One(r.code # <<>>) /\ y = One(r.password # <<>>)
    BY DEF One
  <2>6. InputsOf(r) = x + y + 1 + 1
    BY <1>2, <2>1, <2>5 DEF InputsOf, One
  <2>7. r.late >= 2
    BY <2>3, <2>4, <2>5, <2>6
  <2> QED
    BY <2>1, <2>7
<1> QED
  BY <1>1, <1>2 DEF AnswersTrue
-----------------------------------------------------------------------------
(* The four parts share no state: a step of the console is a step of one   *)
(* of them, and a stutter of the others.                                   *)

LEMMA ConsoleStep ==
  [ConsoleNext]_consoleVars => /\ [SettingsNext]_settingsVars /\ [WebNext]_webVars
                        /\ [LogNext]_logVars /\ [WizardNext]_wizardVars
<1> SUFFICES ASSUME [ConsoleNext]_consoleVars
             PROVE  /\ [SettingsNext]_settingsVars /\ [WebNext]_webVars
                    /\ [LogNext]_logVars /\ [WizardNext]_wizardVars
  OBVIOUS
<1>1. CASE ConsoleNext
  BY <1>1 DEF ConsoleNext
<1>2. CASE UNCHANGED consoleVars
  BY <1>2 DEF consoleVars
<1> QED
  BY <1>1, <1>2

LEMMA ConsoleStarts == ConsoleInit => SettingsInit /\ WebInit /\ LogInit /\ WizardInit
BY DEF ConsoleInit

THEOREM ConsoleInvariance == ConsoleSpec => []ConsoleIInv
<1>1. ConsoleSpec => [](SettingsIInv /\ WebIInv /\ LogIInv /\ WizardIInv)
  BY ConsoleStep, ConsoleStarts, SettingsInvariance, WebInvariance, LogInvariance, WizardInvariance, PTL DEF ConsoleSpec
<1>2. SettingsIInv /\ WebIInv /\ LogIInv /\ WizardIInv => ConsoleIInv
  BY DEF ConsoleIInv
<1> QED
  BY <1>1, <1>2, PTL

(* Once no update is under way, row, snapshot and subscriber agree on the  *)
(* last acknowledged values, unless two updates overlapped or a statement  *)
(* took effect behind an error; what is stored and in memory was always    *)
(* validated as a whole (settings.go: Update).                             *)
THEOREM SettingsStayAgreed == ConsoleSpec => []SettingsAgree
<1>1. ConsoleIInv => SettingsAgree
  BY SettingsIInvAgrees DEF ConsoleIInv
<1> QED
  BY <1>1, ConsoleInvariance, PTL

(* No login that asks during a lock of its source is let on, whatever late *)
(* failures and logins in flight do to the limiter (webapi/auth.go:        *)
(* loginLimiter).                                                          *)
THEOREM LocksAreHeld == ConsoleSpec => []LockHolds
<1>1. ConsoleIInv => LockHolds
  BY DEF ConsoleIInv, WebIInv
<1> QED
  BY <1>1, ConsoleInvariance, PTL

(* A write is answered only after its audit entry or warning, and an       *)
(* effect stays without one only if the process ended while it was being   *)
(* served (webapi/auth.go: the audit middleware).                          *)
THEOREM EveryWriteAudited == ConsoleSpec => []WritesAudited
<1>1. ConsoleIInv => WritesAudited
  BY DEF ConsoleIInv, WebIInv
<1> QED
  BY <1>1, ConsoleInvariance, PTL

(* A viewer who is there has every record from its first on, shown, missed *)
(* for a reason or on its way, and none is shown three times (ws.go:       *)
(* subscribe first, then replay, then stream; ring.go: handle and push).   *)
THEOREM NoRecordLost == ConsoleSpec => []ViewerHasAll
<1>1. ConsoleIInv => ViewerHasAll
  BY LogIInvShows DEF ConsoleIInv
<1> QED
  BY <1>1, ConsoleInvariance, PTL

(* A call of the wizard is given the answer to its own input unless an     *)
(* earlier call timed out or two were in the login at once; "ok" means the *)
(* login is authorized; and a runner is left with an answer nobody takes   *)
(* only after two calls gave up (wizard.go: wizardStep and the runner).    *)
THEOREM AnswersAreTrue == ConsoleSpec => []AnswersTrue
<1>1. ConsoleIInv => AnswersTrue
  BY WizardIInvTells DEF ConsoleIInv
<1> QED
  BY <1>1, ConsoleInvariance, PTL
-----------------------------------------------------------------------------
(***************************************************************************)
(* The process.                                                            *)
(***************************************************************************)
\* A core failure is recorded in the exit code, or about to be.
FatalKnown ==
    /\ exitCode = 1 => "fatal" \in before
    /\ \A s \in Services : pc[s] = "failed" => "fatal" \in before
    /\ "fatal" \in before => exitCode = 1 \/ \E s \in Services : pc[s] = "failed"

\* Supervisors stop only under a cancelled context, and Run's wait for them.
Stopping ==
    /\ \A s \in Services : pc[s] = "stopped" => cancelled
    /\ phase # "running" => \A s \in Services : pc[s] = "stopped"

\* A core service never waits for a restart.
CoreOnce == \A s \in Core :
    /\ pc[s] # "waiting" /\ fails[s] <= 1
    /\ pc[s] = "running" => fails[s] = 0

\* Services are shut down by Run, after its wait and in reverse order.
Closing ==
    /\ shut # {} => phase # "running"
    /\ \A s \in shut, t \in Services : t > s => t \in shut
    /\ phase = "ended" => shut = Services

\* What Run returned still describes the process: nothing changes it later.
Returned ==
    /\ "restart" \in before => restart # "no"
    /\ phase = "ended" =>
         result = IF exitCode # 0 THEN exitCode ELSE IF restart # "no" THEN 75 ELSE 0

IInv == TypeOK /\ FatalKnown /\ Stopping /\ CoreOnce /\ Closing /\ Returned

-----------------------------------------------------------------------------

LEMMA InitIInv == Init => IInv
<1> SUFFICES ASSUME Init PROVE IInv
    OBVIOUS
<1> USE DEF Init
<1>1. TypeOK
  <2>1. readyCh \in BOOLEAN
    OBVIOUS
  <2>2. backoff \in [Services -> Base .. MaxBackoff]
    BY BackoffAssumption
  <2> QED
    BY <2>1, <2>2, Zenon DEF TypeOK
<1>2. FatalKnown /\ Stopping /\ Closing /\ Returned
  BY DEF FatalKnown, Stopping, Closing, Returned
<1>3. CoreOnce
  BY ServicesAssumption DEF CoreOnce, Services
<1> QED
  BY <1>1, <1>2, <1>3 DEF IInv

\* Every step keeps the types.
LEMMA TypeStep == TypeOK /\ [Next]_vars => TypeOK'
<1> SUFFICES ASSUME TypeOK, [Next]_vars PROVE TypeOK'
    OBVIOUS
<1> USE ServicesAssumption DEF TypeOK
<1>1. ASSUME NEW s \in Services, RunReturns(s) PROVE TypeOK'
  BY <1>1 DEF RunReturns
<1>2. ASSUME NEW s \in Services, Judge(s) PROVE TypeOK'
  BY <1>2 DEF Judge
<1>3. ASSUME NEW s \in Services, CoreFatal(s) PROVE TypeOK'
  BY <1>3 DEF CoreFatal
<1>4. ASSUME NEW s \in Services, BackoffEnds(s) PROVE TypeOK'
  <2>1. backoff[s] \in Base .. MaxBackoff /\ Base \in Nat \ {0} /\ MaxBackoff \in Nat
    BY BackoffAssumption
  <2>2. Base \in Base .. MaxBackoff /\ Smaller(2 * backoff[s], MaxBackoff) \in Base .. MaxBackoff
    BY <2>1, BackoffAssumption DEF Smaller
  <2>3. backoff' \in [Services -> Base .. MaxBackoff]
    BY <1>4, <2>2 DEF BackoffEnds
  <2> QED
    BY <1>4, <2>3 DEF BackoffEnds
<1>5. ASSUME NEW s \in Services, BackoffCancelled(s) PROVE TypeOK'
  BY <1>5 DEF BackoffCancelled
<1>6. ASSUME NEW s \in Services, BecomesReady(s) PROVE TypeOK'
  BY <1>6 DEF BecomesReady
<1>7. ASSUME NEW s \in Services, Shutdown(s) PROVE TypeOK'
  BY <1>7 DEF Shutdown
<1>8. CASE MarkReady
  BY <1>8 DEF MarkReady
<1>9. CASE Signal
  BY <1>9 DEF Signal
<1>10. CASE RestartFlag \/ RestartCancel
  BY ZenonT(60), <1>10 DEF RestartFlag, RestartCancel
<1>11. CASE AllStopped
  BY <1>11 DEF AllStopped
<1>12. CASE Return
  BY <1>12 DEF Return
<1>13. CASE UNCHANGED vars
  BY <1>13 DEF vars
<1>14. ASSUME NEW s \in Services, RunHangs(s) PROVE TypeOK'
  BY <1>14 DEF RunHangs
<1> QED
  BY <1>1, <1>2, <1>3, <1>4, <1>5, <1>6, <1>7, <1>8, <1>9, <1>10, <1>11, <1>12, <1>13, <1>14 DEF Next

-----------------------------------------------------------------------------
(* The step of each action, for the parts that speak of more than types. *)

LEMMA RunReturnsKeeps ==
  ASSUME IInv, NEW s \in Services, RunReturns(s), TypeOK' PROVE IInv'
<1> USE DEF IInv, RunReturns, TypeOK
<1>1. FatalKnown'
  BY DEF FatalKnown
<1>2. Stopping'
  BY DEF Stopping
<1>3. CoreOnce'
  BY ServicesAssumption DEF CoreOnce
<1>4. Closing' /\ Returned'
  BY DEF Closing, Returned
<1> QED
  BY <1>1, <1>2, <1>3, <1>4

LEMMA RunHangsKeeps ==
  ASSUME IInv, NEW s \in Services, RunHangs(s), TypeOK' PROVE IInv'
<1> USE DEF IInv, RunHangs, TypeOK
<1>1. FatalKnown'
  BY DEF FatalKnown
<1>2. Stopping'
  BY DEF Stopping
<1>3. CoreOnce'
  BY ServicesAssumption DEF CoreOnce
<1>4. Closing' /\ Returned'
  BY DEF Closing, Returned
<1> QED
  BY <1>1, <1>2, <1>3, <1>4

LEMMA JudgeKeeps ==
  ASSUME IInv, NEW s \in Services, Judge(s), TypeOK' PROVE IInv'
<1> USE DEF IInv, Judge, TypeOK
<1>1. FatalKnown'
  <2>1. CASE ~cancelled /\ s \in Core
    BY <2>1 DEF FatalKnown
  <2>2. CASE cancelled \/ s \notin Core
    BY <2>2 DEF FatalKnown
  <2> QED
    BY <2>1, <2>2
<1>2. Stopping'
  BY DEF Stopping
<1>3. CoreOnce'
  BY ServicesAssumption DEF CoreOnce
<1>4. Closing' /\ Returned'
  BY DEF Closing, Returned
<1> QED
  BY <1>1, <1>2, <1>3, <1>4

LEMMA CoreFatalKeeps ==
  ASSUME IInv, NEW s \in Services, CoreFatal(s), TypeOK' PROVE IInv'
<1> USE DEF IInv, CoreFatal, TypeOK
<1>1. FatalKnown'
  BY DEF FatalKnown
<1>2. Stopping'
  BY DEF Stopping
<1>3. CoreOnce'
  BY ServicesAssumption DEF CoreOnce
<1>4. Closing'
  BY DEF Closing
<1>5. Returned'
  \* Run has not returned: a supervisor is left.
  BY DEF Returned, Stopping
<1> QED
  BY <1>1, <1>2, <1>3, <1>4, <1>5

LEMMA BackoffKeeps ==
  ASSUME IInv, NEW s \in Services, BackoffEnds(s) \/ BackoffCancelled(s), TypeOK' PROVE IInv'
<1> USE DEF IInv, BackoffEnds, BackoffCancelled, TypeOK
<1>1. FatalKnown'
  BY DEF FatalKnown
<1>2. Stopping'
  BY DEF Stopping
<1>3. CoreOnce'
  BY ServicesAssumption DEF CoreOnce
<1>4. Closing' /\ Returned'
  BY DEF Closing, Returned
<1> QED
  BY <1>1, <1>2, <1>3, <1>4

LEMMA ReadyKeeps ==
  ASSUME IInv, MarkReady \/ \E s \in Services : BecomesReady(s), TypeOK' PROVE IInv'
<1> PICK s \in Services \cup {0} : MarkReady \/ BecomesReady(s)
    OBVIOUS
<1>1. UNCHANGED <<pc, fails, cancelled, restart, exitCode, phase, shut, result, before>>
  BY DEF MarkReady, BecomesReady
<1> QED
  BY <1>1 DEF IInv, FatalKnown, Stopping, CoreOnce, Closing, Returned

LEMMA ToldToEndKeeps ==
  ASSUME IInv, Signal \/ RestartFlag \/ RestartCancel, TypeOK' PROVE IInv'
<1> USE DEF IInv, Signal, RestartFlag, RestartCancel, TypeOK
<1>1. FatalKnown'
  BY DEF FatalKnown
<1>2. Stopping' /\ CoreOnce' /\ Closing'
  BY DEF Stopping, CoreOnce, Closing
<1>3. Returned'
  BY DEF Returned
<1> QED
  BY <1>1, <1>2, <1>3

LEMMA ClosingKeeps ==
  ASSUME IInv, AllStopped \/ Return \/ \E s \in Services : Shutdown(s), TypeOK' PROVE IInv'
<1> PICK s \in Services \cup {0} : AllStopped \/ Return \/ Shutdown(s)
    OBVIOUS
<1>1. UNCHANGED <<pc, fails, cancelled, restart, exitCode, before>>
  BY DEF AllStopped, Return, Shutdown
<1>2. FatalKnown' /\ CoreOnce'
  BY <1>1 DEF IInv, FatalKnown, CoreOnce
<1>3. Stopping'
  BY <1>1 DEF IInv, Stopping, AllStopped, Return, Shutdown
<1>4. Closing'
  BY DEF IInv, Closing, AllStopped, Return, Shutdown
<1>5. Returned'
  BY DEF IInv, Returned, AllStopped, Return, Shutdown
<1> QED
  BY <1>2, <1>3, <1>4, <1>5 DEF IInv

LEMMA StepIInv == IInv /\ [Next]_vars => IInv'
<1> SUFFICES ASSUME IInv, [Next]_vars PROVE IInv'
    OBVIOUS
<1>1. TypeOK'
  BY TypeStep DEF IInv
<1>2. CASE UNCHANGED vars
  BY <1>1, <1>2 DEF vars, IInv, FatalKnown, Stopping, CoreOnce, Closing, Returned
<1>3. CASE Next
  BY <1>1, <1>3, RunReturnsKeeps, RunHangsKeeps, JudgeKeeps, CoreFatalKeeps, BackoffKeeps, ReadyKeeps,
     ToldToEndKeeps, ClosingKeeps DEF Next
<1> QED
  BY <1>2, <1>3

LEMMA Invariance == Spec => []IInv
  BY InitIInv, StepIInv, PTL DEF Spec

-----------------------------------------------------------------------------

\* Every variable keeps its type, the backoff its limits in particular: the
\* doubling of supervise never leaves Base .. MaxBackoff.
THEOREM TypeCorrect == Spec => []TypeOK
<1>1. IInv => TypeOK
  BY DEF IInv
<1> QED
  BY Invariance, <1>1, PTL

\* Run returns 1 exactly when a core service failed before anything cancelled
\* the context, 75 only for a restart request, and never 0 in its place,
\* however signals, restart requests and failures race.
THEOREM ExitCodeCorrect == Spec => []ExitCodeTrue
<1>1. IInv => ExitCodeTrue
  <2> SUFFICES ASSUME IInv, phase = "ended"
               PROVE  /\ result = 1 <=> "fatal" \in before
                      /\ result = 75 => restart # "no"
                      /\ result = 0 => before \subseteq {"signal"}
    BY DEF ExitCodeTrue
  <2>1. exitCode \in {0, 1} /\ (exitCode = 1 <=> "fatal" \in before)
    BY DEF IInv, TypeOK, FatalKnown, Stopping
  <2>2. result = IF exitCode # 0 THEN exitCode ELSE IF restart # "no" THEN 75 ELSE 0
    BY DEF IInv, Returned
  <2>3. before \subseteq {"signal", "restart", "fatal"} /\ ("restart" \in before => restart # "no")
    BY DEF IInv, TypeOK, Returned
  <2> QED
    BY <2>1, <2>2, <2>3
<1> QED
  BY Invariance, <1>1, PTL

\* No service is shut down while a supervisor is left to run it, each only
\* after all services registered after it, and all before Run returns.
THEOREM ShutdownCorrect == Spec => []ShutdownInOrder
<1>1. IInv => ShutdownInOrder
  BY DEF IInv, Closing, Stopping, ShutdownInOrder
<1> QED
  BY Invariance, <1>1, PTL

\* A core service runs once; no supervisor gives up before the context is
\* cancelled.
THEOREM SupervisionCorrect == Spec => []RestartsOnlyDegradable
<1>1. IInv => RestartsOnlyDegradable
  BY DEF IInv, CoreOnce, Stopping, RestartsOnlyDegradable
<1> QED
  BY Invariance, <1>1, PTL

-----------------------------------------------------------------------------
(* The backoff.  What supervise does to it from one quick failure to the   *)
(* next is a doubling; the proof needs that the doubled base is a function *)
(* on all numbers, which follows by least counterexamples.                 *)

LEMMA LeastOf ==
  ASSUME NEW S \in SUBSET Nat, S # {}
  PROVE  \E x \in S : \A y \in S : x <= y
<1>1. IsWellFoundedOn(OpToRel(<, Nat), Nat)
  BY NatLessThanWellFounded
<1>2. PICK x \in S : \A y \in S : ~ (<<y, x>> \in OpToRel(<, Nat))
  BY <1>1, WFMin
<1>3. ASSUME NEW y \in S PROVE x <= y
  <2>1. x \in Nat /\ y \in Nat
    OBVIOUS
  <2>2. y < x => <<y, x>> \in OpToRel(<, Nat)
    BY <2>1 DEF OpToRel
  <2>3. ~ (y < x)
    BY <1>2, <2>2
  <2> QED
    BY <2>1, <2>3
<1> QED
  BY <1>3

\* The first n doublings.
Doublings(n) ==
  {f \in [0 .. n -> Nat] : f[0] = Base /\ \A i \in 1 .. n : f[i] = 2 * f[i - 1]}

LEMMA DoublingsExist ==
  ASSUME NEW n \in Nat PROVE Doublings(n) # {}
<1> DEFINE Bad == {k \in Nat : Doublings(k) = {}}
<1> SUFFICES ASSUME Bad # {} PROVE FALSE
  OBVIOUS
<1>1. PICK k \in Bad : \A y \in Bad : k <= y
  <2>1. Bad \in SUBSET Nat
    OBVIOUS
  <2> QED
    BY <2>1, LeastOf
<1>2. Base \in Nat
  BY BackoffAssumption
<1>3. k # 0
  <2>1. [i \in 0 .. 0 |-> Base] \in Doublings(0)
    BY <1>2 DEF Doublings
  <2> QED
    BY <2>1
<1>4. PICK j \in Nat : k = j + 1 /\ k \in Nat
  <2>1. k \in Nat
    OBVIOUS
  <2>2. k - 1 \in Nat /\ k = (k - 1) + 1
    BY <1>3, <2>1
  <2> QED
    BY <2>1, <2>2
<1>5. PICK f : f \in Doublings(j)
  BY <1>1, <1>4
<1> DEFINE g == [i \in 0 .. k |-> IF i = k THEN 2 * f[j] ELSE f[i]]
<1>6. /\ f \in [0 .. j -> Nat] /\ f[0] = Base /\ \A i \in 1 .. j : f[i] = 2 * f[i - 1]
  BY <1>5 DEF Doublings
<1>7. \A i \in 0 .. k : i \in 0 .. j \/ i = k
  BY <1>4
<1>8. f[j] \in Nat
  BY <1>4, <1>6
<1>9. g \in [0 .. k -> Nat] /\ g[0] = Base
  BY <1>3, <1>4, <1>6, <1>7, <1>8
<1>10. ASSUME NEW i \in 1 .. k PROVE g[i] = 2 * g[i - 1]
  <2>1. CASE i = k
    BY <1>4, <2>1
  <2>2. CASE i # k
    <3>1. i \in 1 .. j /\ i - 1 \in 0 .. k /\ i - 1 # k /\ i \in 0 .. k
      BY <1>4, <2>2
    <3> QED
      BY <1>6, <2>2, <3>1
  <2> QED
    BY <2>1, <2>2
<1> HIDE DEF g
<1>11. g \in Doublings(k)
  BY <1>9, <1>10 DEF Doublings
<1> QED
  BY <1>11

LEMMA DoublingsAgree ==
  ASSUME NEW n \in Nat, NEW m \in Nat, NEW f \in Doublings(n), NEW g \in Doublings(m),
         NEW i \in Nat, i <= n, i <= m
  PROVE  f[i] = g[i]
<1> DEFINE Bad == {k \in Nat : k <= n /\ k <= m /\ f[k] # g[k]}
<1> SUFFICES ASSUME Bad # {} PROVE FALSE
  OBVIOUS
<1>1. PICK k \in Bad : \A y \in Bad : k <= y
  <2>1. Bad \in SUBSET Nat
    OBVIOUS
  <2> QED
    BY <2>1, LeastOf
<1>2. /\ f[0] = Base /\ \A x \in 1 .. n : f[x] = 2 * f[x - 1]
      /\ g[0] = Base /\ \A x \in 1 .. m : g[x] = 2 * g[x - 1]
  BY DEF Doublings
<1>3. k \in Nat /\ k <= n /\ k <= m /\ f[k] # g[k]
  OBVIOUS
<1>4. k # 0
  BY <1>2, <1>3
<1>5. PICK j \in Nat : j = k - 1 /\ j <= n /\ j <= m /\ ~ (k <= j)
  BY <1>3, <1>4
<1>6. f[j] = g[j]
  BY <1>1, <1>5
<1>7. k \in 1 .. n /\ k \in 1 .. m
  BY <1>3, <1>4
<1> QED
  BY <1>2, <1>3, <1>5, <1>6, <1>7

LEMMA DoubledStep ==
  /\ Doubled[0] = Base
  /\ \A n \in Nat : Doubled[n] \in Nat /\ Doubled[n + 1] = 2 * Doubled[n]
<1> DEFINE D(n) == CHOOSE f : f \in Doublings(n)
           h == [n \in Nat |-> D(n)[n]]
<1>1. ASSUME NEW n \in Nat PROVE D(n) \in Doublings(n)
  BY DoublingsExist
<1> HIDE DEF D
<1>2. ASSUME NEW n \in Nat PROVE h[n] \in Nat
  <2>1. D(n) \in [0 .. n -> Nat] /\ n \in 0 .. n
    BY <1>1 DEF Doublings
  <2> QED
    BY <2>1
<1>3. h[0] = Base
  BY <1>1 DEF Doublings
<1>4. ASSUME NEW n \in Nat PROVE h[n + 1] = 2 * h[n]
  <2>1. D(n + 1)[n + 1] = 2 * D(n + 1)[n]
    <3>1. PICK m \in Nat : m = n + 1 /\ m \in 1 .. m /\ m - 1 = n
      OBVIOUS
    <3>2. D(m) \in Doublings(m)
      BY <1>1
    <3>3. D(m)[m] = 2 * D(m)[m - 1]
      BY <3>1, <3>2 DEF Doublings
    <3> QED
      BY <3>1, <3>3
  <2>2. D(n + 1)[n] = D(n)[n]
    <3>1. PICK m \in Nat : m = n + 1 /\ n <= m /\ n <= n
      OBVIOUS
    <3>2. PICK f, g : f = D(m) /\ g = D(n) /\ f \in Doublings(m) /\ g \in Doublings(n)
      BY <1>1
    <3>3. f[n] = g[n]
      BY <3>1, <3>2, DoublingsAgree
    <3> QED
      BY <3>1, <3>2, <3>3
  <2> QED
    BY <2>1, <2>2
<1> HIDE DEF h
<1>5. h = [n \in Nat |-> IF n = 0 THEN Base ELSE 2 * h[n - 1]]
  <2>1. h = [n \in Nat |-> h[n]]
    BY DEF h
  <2>2. ASSUME NEW n \in Nat PROVE h[n] = IF n = 0 THEN Base ELSE 2 * h[n - 1]
    <3>1. CASE n = 0
      BY <1>3, <3>1
    <3>2. CASE n # 0
      <4>1. PICK k \in Nat : k = n - 1 /\ n = k + 1
        BY <3>2
      <4> QED
        BY <1>4, <3>2, <4>1
    <3> QED
      BY <3>1, <3>2
  <2> QED
    BY <2>1, <2>2
<1>6. Doubled = [n \in Nat |-> IF n = 0 THEN Base ELSE 2 * Doubled[n - 1]]
  BY <1>5 DEF Doubled
<1>7. ASSUME NEW n \in Nat PROVE Doubled[n] = h[n]
  <2> DEFINE Bad == {k \in Nat : Doubled[k] # h[k]}
  <2> SUFFICES ASSUME Bad # {} PROVE FALSE
    OBVIOUS
  <2>1. PICK k \in Bad : \A y \in Bad : k <= y
    <3>1. Bad \in SUBSET Nat
      OBVIOUS
    <3> QED
      BY <3>1, LeastOf
  <2>2. k \in Nat /\ Doubled[k] # h[k]
    OBVIOUS
  <2>3. k # 0
    BY <1>3, <1>6, <2>2
  <2>4. PICK j \in Nat : j = k - 1 /\ k = j + 1 /\ ~ (k <= j)
    BY <2>2, <2>3
  <2>5. Doubled[j] = h[j]
    BY <2>1, <2>4
  <2>6. Doubled[k] = 2 * Doubled[j]
    BY <1>6, <2>2, <2>3, <2>4
  <2> QED
    BY <1>4, <2>2, <2>4, <2>5, <2>6
<1>8. ASSUME NEW n \in Nat PROVE Doubled[n + 1] = 2 * Doubled[n]
  <2>1. PICK m \in Nat : m = n + 1
    OBVIOUS
  <2>2. Doubled[m] = h[m]
    BY <1>7
  <2> QED
    BY <1>4, <1>7, <2>1, <2>2
<1> QED
  BY <1>2, <1>3, <1>7, <1>8

\* What the backoff has reached: after k quick failures it is what the next run
\* starts with, and until then what the supervisor waits.  A service that hangs
\* is not restarted any more.
Slow(p, d, n, b) ==
  n > 0 /\ p # "hung" =>
           IF p = "running" THEN b >= Smaller(Doubled[n], MaxBackoff)
           ELSE d = 0 /\ b >= Smaller(Doubled[n - 1], MaxBackoff)

Slowing == \A s \in Services : Slow(pc[s], ran[s], quick[s], backoff[s])

LEMMA StepSlowing ==
  ASSUME TypeOK, TypeOK', Slowing, MaxBackoff < StableRun, [Next]_vars
  PROVE  Slowing'
<1>1. Base \in Nat /\ MaxBackoff \in Nat /\ StableRun \in Nat /\ Base <= MaxBackoff
  BY BackoffAssumption
<1>2. \/ \E t \in Services : RunReturns(t)
      \/ \E t \in Services : BackoffEnds(t)
      \/ /\ UNCHANGED <<ran, quick, backoff>>
         /\ \A s \in Services : \/ pc'[s] = "hung"
                                \/ /\ pc'[s] = "running" <=> pc[s] = "running"
                                   /\ pc[s] # "hung"
  <2>1. ASSUME NEW t \in Services,
               Judge(t) \/ CoreFatal(t) \/ BackoffCancelled(t) \/ RunHangs(t)
        PROVE  /\ UNCHANGED <<ran, quick, backoff>>
               /\ \A s \in Services : \/ pc'[s] = "hung"
                                      \/ /\ pc'[s] = "running" <=> pc[s] = "running"
                                         /\ pc[s] # "hung"
    BY <2>1 DEF Judge, CoreFatal, BackoffCancelled, RunHangs, TypeOK
  <2>2. ASSUME NEW t \in Services, BecomesReady(t) \/ Shutdown(t)
        PROVE  UNCHANGED <<pc, ran, quick, backoff>>
    BY <2>2 DEF BecomesReady, Shutdown
  <2>3. CASE \/ MarkReady \/ Signal \/ RestartFlag \/ RestartCancel \/ AllStopped \/ Return
             \/ UNCHANGED vars
    BY <2>3 DEF MarkReady, Signal, RestartFlag, RestartCancel, AllStopped, Return, vars
  <2> QED
    BY <2>1, <2>2, <2>3 DEF Next
<1>3. CASE /\ UNCHANGED <<ran, quick, backoff>>
           /\ \A s \in Services : \/ pc'[s] = "hung"
                                  \/ /\ pc'[s] = "running" <=> pc[s] = "running"
                                     /\ pc[s] # "hung"
  BY <1>3 DEF Slowing, Slow
<1>4. ASSUME NEW t \in Services, RunReturns(t) PROVE Slowing'
  <2>1. \A s \in Services \ {t} : UNCHANGED <<pc[s], ran[s], quick[s], backoff[s]>>
    BY <1>4 DEF RunReturns, TypeOK
  <2>2. PICK n \in Nat, b \in Nat, d \in Nat :
          /\ n = quick[t] /\ b = backoff[t] /\ b >= Base /\ pc[t] = "running"
          /\ pc'[t] = "returned" /\ ran'[t] = d /\ backoff'[t] = b
          /\ quick'[t] = IF d = 0 THEN n + 1 ELSE 0
    BY <1>1, <1>4, ServicesAssumption DEF RunReturns, TypeOK
  <2>3. Slow("running", ran[t], n, b)
    BY <2>2 DEF Slowing
  <2>4. b >= Smaller(Doubled[n], MaxBackoff)
    BY <1>1, <2>2, <2>3, DoubledStep DEF Slow, Smaller
  <2>5. Slow("returned", d, quick'[t], b)
    BY <2>2, <2>4 DEF Slow
  <2> QED
    BY <2>1, <2>2, <2>5 DEF Slowing
<1>5. ASSUME NEW t \in Services, BackoffEnds(t) PROVE Slowing'
  <2>1. \A s \in Services \ {t} : UNCHANGED <<pc[s], ran[s], quick[s], backoff[s]>>
    BY <1>5 DEF BackoffEnds, TypeOK
  <2>2. PICK n \in Nat, b \in Nat :
          /\ n = quick[t] /\ b = backoff[t] /\ b <= MaxBackoff /\ pc[t] = "waiting"
          /\ pc'[t] = "running" /\ ran'[t] = ran[t] /\ quick'[t] = n
          /\ backoff'[t] = IF ran[t] + b >= StableRun THEN Base ELSE Smaller(2 * b, MaxBackoff)
    BY <1>1, <1>5 DEF BackoffEnds, TypeOK
  <2>3. ASSUME n > 0
        PROVE  backoff'[t] >= Smaller(Doubled[n], MaxBackoff)
    <3>1. ran[t] = 0 /\ b >= Smaller(Doubled[n - 1], MaxBackoff)
      BY <2>2, <2>3 DEF Slowing, Slow
    <3>2. backoff'[t] = Smaller(2 * b, MaxBackoff)
      BY <1>1, <2>2, <3>1
    <3>3. PICK k \in Nat : k = n - 1 /\ n = k + 1
      BY <2>3
    <3>4. PICK x \in Nat : x = Doubled[n - 1] /\ Doubled[n] = 2 * x
      BY <3>3, DoubledStep
    <3> QED
      BY <1>1, <3>1, <3>2, <3>4 DEF Smaller
  <2>4. Slow("running", ran[t], n, backoff'[t])
    BY <2>3 DEF Slow
  <2> QED
    BY <2>1, <2>2, <2>4 DEF Slowing
<1> QED
  BY <1>2, <1>3, <1>4, <1>5

\* With waits shorter than a stable run, the wait of a service that keeps failing
\* at once doubles from failure to failure until it has reached its limit
\* (supervise, lifecycle.go:156).
THEOREM BackoffCorrect == Spec => []CrashLoopBacksOff
<1> DEFINE Inv == TypeOK /\ (MaxBackoff < StableRun => Slowing)
<1>1. Init => Inv
  <2>1. Init => TypeOK
    BY InitIInv DEF IInv
  <2> QED
    BY <2>1 DEF Init, Slowing, Slow
<1>2. Inv /\ [Next]_vars => Inv'
  BY TypeStep, StepSlowing
<1>3. Inv => CrashLoopBacksOff
  BY DEF Slowing, Slow, CrashLoopBacksOff
<1> QED
  BY <1>1, <1>2, <1>3, PTL DEF Spec
=============================================================================
