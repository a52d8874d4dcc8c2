---------------------------- MODULE LoginWizard ----------------------------
(***************************************************************************)
(* The userbot login of the web console: WizardService (wizard.go) with    *)
(* the runner of NewWizardService, UserAuth (auth.go), and the handlers of *)
(* webapi/userbot.go as its callers.  A call puts its input into the       *)
(* login's channel and takes the next answer from resCh; each holds one    *)
(* value, and both waits have a limit.                                     *)
(***************************************************************************)
EXTENDS Integers, Sequences, FiniteSets

CONSTANTS
  Callers,       \* requests in flight
  MaxLogins,     \* bound on the logins created
  MaxCalls,      \* bound on the calls
  MaxSessions,   \* 3 in the code
  Outlives       \* whether the context LoginStart is given outlives its request; the service
                 \* leaves it to the caller, and handleUserbotLoginStart's does not: {FALSE}

ASSUME WizardAssumption ==
  /\ 0 \notin Callers /\ IsFiniteSet(Callers)   \* 0 names nobody
  /\ Outlives \subseteq BOOLEAN

VARIABLES
  sessions, \* the ids in the map
  logins,   \* the logins created, as a sequence: runner and channels
  call,     \* call[c]: the step a request is in, and what it was answered
  calls     \* how many steps were made

wizardVars == <<sessions, logins, call, calls>>

(* run: the runner's place; code, password: the callers whose input waits; *)
(* by: whose input the runner works on (0 = none); res: the answer that    *)
(* nobody has taken; old: ten minutes have passed; late, crossed: a call   *)
(* timed out on this login, or two were in it at once.                     *)
NewLogin == [run |-> "starting", state |-> "", ctx |-> TRUE, asked |-> TRUE, old |-> FALSE,
             code |-> <<>>, password |-> <<>>, by |-> 0, told |-> "", res |-> <<>>,
             late |-> 0, crossed |-> FALSE]
NoCall == [at |-> "idle", id |-> 0, kind |-> "code", answer |-> [what |-> "", by |-> 0]]

WizardInit ==
  /\ sessions = {} /\ logins = <<>>
  /\ call = [c \in Callers |-> NoCall] /\ calls = 0

Changed(i, r) == logins' = [logins EXCEPT ![i] = r]
-----------------------------------------------------------------------------
(* LoginStart.  Sessions that are over keep their place until they are old.*)
LoginStart ==
  LET fresh == {i \in sessions : ~logins[i].old}
      swept == [i \in DOMAIN logins |->
                  IF i \in sessions \ fresh THEN [logins[i] EXCEPT !.ctx = FALSE] ELSE logins[i]]
  IN /\ Len(logins) < MaxLogins
     /\ IF Cardinality(fresh) >= MaxSessions
        THEN sessions' = fresh /\ logins' = swept
        ELSE sessions' = fresh \cup {Len(logins) + 1} /\ logins' = Append(swept, NewLogin)
     /\ UNCHANGED <<call, calls>>

(* The handler returns: net/http ends the request's context, then answers. *)
RequestEnds(i) ==
  /\ logins[i].asked
  /\ \E outlives \in Outlives :
       Changed(i, [logins[i] EXCEPT !.asked = FALSE, !.ctx = @ /\ outlives])
  /\ UNCHANGED <<sessions, call, calls>>

TenMinutes(i) ==
  /\ ~logins[i].old
  /\ Changed(i, [logins[i] EXCEPT !.old = TRUE, !.ctx = FALSE])
  /\ UNCHANGED <<sessions, call, calls>>
-----------------------------------------------------------------------------
(* The runner.  What it has to tell waits until resCh is empty, without    *)
(* looking at the context.                                                 *)
\* Mutant: the state is stored after the answer.
TellingEarly(r, what, state) == [r EXCEPT !.run = "telling", !.told = what]

Telling(r, what, state) == [r EXCEPT !.run = "telling", !.told = what, !.state = state]

StartLogin(i) ==
  LET r == logins[i]
  IN /\ r.run = "starting"
     /\ \/ r.ctx /\ Changed(i, [r EXCEPT !.run = "code", !.state = "await_code"])
        \/ Changed(i, Telling(r, "start failed", r.state))
        \/ Changed(i, [r EXCEPT !.run = "returned"]) \* no connection: nobody is told
     /\ UNCHANGED <<sessions, call, calls>>

TakeCode(i) ==
  LET r == logins[i]
  IN /\ r.run = "code" /\ r.code # <<>>
     /\ Changed(i, [r EXCEPT !.run = "signing", !.by = Head(r.code), !.code = <<>>])
     /\ UNCHANGED <<sessions, call, calls>>

SubmitCode(i) ==
  LET r == logins[i]
  IN /\ r.run = "signing"
     /\ \/ r.ctx /\ Changed(i, Telling(r, "ok", "authorized"))
        \/ r.ctx /\ Changed(i, Telling(r, "password needed", "await_password"))
        \/ Changed(i, Telling(r, "wrong", r.state))
     /\ UNCHANGED <<sessions, call, calls>>

TakePassword(i) ==
  LET r == logins[i]
  IN /\ r.run = "password" /\ r.password # <<>>
     /\ Changed(i, [r EXCEPT !.run = "checking", !.by = Head(r.password), !.password = <<>>])
     /\ UNCHANGED <<sessions, call, calls>>

SubmitPassword(i) ==
  LET r == logins[i]
  IN /\ r.run = "checking"
     /\ \/ r.ctx /\ Changed(i, Telling(r, "ok", "authorized"))
        \/ Changed(i, Telling(r, "wrong", r.state))
     /\ UNCHANGED <<sessions, call, calls>>

Tell(i) ==
  LET r == logins[i]
  IN /\ r.run = "telling" /\ r.res = <<>>
     /\ Changed(i, [r EXCEPT !.res = <<[what |-> r.told, by |-> r.by]>>,
                             !.run = IF r.told = "password needed" THEN "password" ELSE "returned"])
     /\ UNCHANGED <<sessions, call, calls>>

(* The context ends, or the client ends it with the connection.            *)
RunnerCancelled(i) ==
  LET r == logins[i]
  IN /\ r.run \in {"code", "password"}
     /\ Changed(i, [r EXCEPT !.run = "returned"])
     /\ UNCHANGED <<sessions, call, calls>>

RunnerEnds(i) ==
  LET r == logins[i]
  IN /\ r.run = "returned"
     /\ Changed(i, [r EXCEPT !.run = "ended", !.ctx = FALSE,
                             !.state = IF i \in sessions /\ @ # "authorized" THEN "failed" ELSE @])
     /\ UNCHANGED <<sessions, call, calls>>
-----------------------------------------------------------------------------
(* LoginCode and LoginPassword: lookup and wizardStep.  The state of the   *)
(* login is not asked.                                                     *)
InStep(i) == {c \in Callers : call[c].at \in {"sending", "waiting"} /\ call[c].id = i}

StepBegins(c, i, kind) ==
  /\ call[c].at \in {"idle", "answered"} /\ calls < MaxCalls
  /\ i \in sessions /\ ~logins[i].asked
  /\ calls' = calls + 1
  /\ call' = [call EXCEPT ![c] = [NoCall EXCEPT !.at = "sending", !.id = i, !.kind = kind]]
  /\ Changed(i, [logins[i] EXCEPT !.crossed = @ \/ InStep(i) # {}])
  /\ UNCHANGED sessions

SendInput(c) ==
  LET i == call[c].id
  IN /\ call[c].at = "sending" /\ logins[i][call[c].kind] = <<>>
     /\ call' = [call EXCEPT ![c].at = "waiting"]
     /\ Changed(i, [logins[i] EXCEPT ![call[c].kind] = <<c>>])
     /\ UNCHANGED <<sessions, calls>>

Answered(c, what, by) ==
  call' = [call EXCEPT ![c].at = "answered", ![c].answer = [what |-> what, by |-> by]]

(* Five seconds on a full channel.                                         *)
SendTimesOut(c) ==
  /\ call[c].at = "sending" /\ logins[call[c].id][call[c].kind] # <<>>
  /\ Answered(c, "not ready", c)
  /\ UNCHANGED <<sessions, logins, calls>>

TakenAnswer(r) == [r EXCEPT !.res = <<>>]

TakeAnswer(c) ==
  LET i == call[c].id
  IN /\ call[c].at = "waiting" /\ logins[i].res # <<>>
     /\ Answered(c, logins[i].res[1].what, logins[i].res[1].by)
     /\ Changed(i, TakenAnswer(logins[i]))
     /\ UNCHANGED <<sessions, calls>>

(* Ninety seconds without an answer: the input stays where it is.          *)
StepTimesOut(c) ==
  LET i == call[c].id
  IN /\ call[c].at = "waiting" /\ logins[i].res = <<>>
     /\ Answered(c, "timeout", c)
     /\ Changed(i, [logins[i] EXCEPT !.late = @ + 1])
     /\ UNCHANGED <<sessions, calls>>

WizardNext ==
  \/ LoginStart
  \/ \E i \in DOMAIN logins :
       \/ RequestEnds(i) \/ TenMinutes(i) \/ StartLogin(i) \/ TakeCode(i) \/ SubmitCode(i)
       \/ TakePassword(i) \/ SubmitPassword(i) \/ Tell(i) \/ RunnerCancelled(i) \/ RunnerEnds(i)
       \/ \E c \in Callers, kind \in {"code", "password"} : StepBegins(c, i, kind)
  \/ \E c \in Callers : SendInput(c) \/ SendTimesOut(c) \/ TakeAnswer(c) \/ StepTimesOut(c)
-----------------------------------------------------------------------------
(* PROPERTIES *)

(* resCh does not say whose input an answer is about (wizard.go:170-184):  *)
(* a call still gets its own, unless an earlier call timed out on this     *)
(* login, two calls were in it at once, or nobody's input is to blame (the *)
(* login did not start).  Whoever is told "ok" has a login that is         *)
(* authorized.  And the runner, whose sends have no way out, stays with an *)
(* answer nobody will take only if at least two calls gave up waiting.     *)
AnswersTrue ==
  /\ \A c \in Callers :
       call[c].at = "answered" =>
         LET r == logins[call[c].id]
         IN /\ call[c].answer.by = c \/ r.late > 0 \/ r.crossed \/ call[c].answer.by = 0
            /\ call[c].answer.what = "ok" => r.state = "authorized"
  /\ \A i \in DOMAIN logins :
       logins[i].run = "telling" /\ logins[i].res # <<>> /\ InStep(i) = {} => logins[i].late >= 2
=============================================================================
