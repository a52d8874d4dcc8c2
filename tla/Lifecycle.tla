----------------------------- MODULE Lifecycle -----------------------------
(***************************************************************************)
(* App of src/internal/app/lifecycle.go: one supervisor goroutine for each *)
(* registered service, the readiness barrier, the ways the process is told *)
(* to end (a signal, a restart request, a core service that fails), the    *)
(* shutdown in reverse order and the exit code.                            *)
(*                                                                         *)
(* Run of a service may return at any time, by an error or a panic.  The   *)
(* interface Service promises that it does once the context is cancelled:  *)
(* the services of MayHang may break that promise.  The forwarding engine  *)
(* is one: its album loop pushes groups to the queue under a context that  *)
(* nothing cancels, and waits for ever on a full queue whose consumer has  *)
(* left.  Shutdown returns.  Time counts in steps of the base of the       *)
(* restart backoff: only how long a run lasted matters.                    *)
(***************************************************************************)
EXTENDS Integers, FiniteSets

CONSTANTS
    NumServices,    \* how many services are registered
    Core,           \* those registered as Core, the others are Degradable
    Barrier,        \* the core services that implement Readiness
    MayHang,        \* those whose Run may outlive the cancellation for ever
    Lengths,        \* how long a run of a service can last
    Base,           \* RestartBackoff
    MaxBackoff,     \* RestartBackoffMax
    StableRun,      \* StableRun
    MaxFails        \* bound: failed runs of a service

\* The services, in the order of Register.
Services == 1 .. NumServices

ASSUME ServicesAssumption ==
    /\ NumServices \in Nat
    /\ Core \subseteq Services /\ Barrier \subseteq Core /\ MayHang \subseteq Services
    /\ Lengths \subseteq Nat /\ MaxFails \in Nat

ASSUME BackoffAssumption ==
    /\ Base \in Nat \ {0} /\ MaxBackoff \in Nat /\ StableRun \in Nat
    /\ Base <= MaxBackoff

VARIABLES
    pc,             \* where the supervisor of each service is
    ran,            \* how long the run that returned last had lasted
    backoff,        \* the supervisor's next wait
    quick,          \* history: runs in a row that failed at once
    fails,          \* history: failed runs of each service
    cancelled,      \* the root context
    restart,        \* RequestRestart: "no", "flagged" (restartReq set), "done"
    exitCode,       \* 0, or 1 after coreFatal
    ready,          \* services whose Ready channel is closed
    readyCh,        \* App.Ready is closed
    phase,          \* Run: "running", "closing", "ended"
    shut,           \* the services shut down so far, in their order
    result,         \* what Run returned, or -1
    before          \* history: what had happened before the context was cancelled

vars == <<pc, ran, backoff, quick, fails, cancelled, restart, exitCode, ready, readyCh,
          phase, shut, result, before>>

Smaller(a, b) == IF a <= b THEN a ELSE b

TypeOK ==
    /\ pc \in [Services -> {"running", "returned", "failed", "waiting", "stopped", "hung"}]
    /\ ran \in [Services -> Lengths \cup {0}]
    /\ backoff \in [Services -> Base .. MaxBackoff]
    /\ quick \in [Services -> Nat] /\ fails \in [Services -> Nat]
    /\ cancelled \in BOOLEAN
    /\ restart \in {"no", "flagged", "done"}
    /\ exitCode \in {0, 1}
    /\ ready \subseteq Barrier /\ readyCh \in BOOLEAN
    /\ phase \in {"running", "closing", "ended"}
    /\ shut \subseteq Services
    /\ result \in {-1, 0, 1, 75}
    /\ before \subseteq {"signal", "restart", "fatal"}

Init ==
    /\ pc = [s \in Services |-> "running"]
    /\ ran = [s \in Services |-> 0]
    /\ backoff = [s \in Services |-> Base]
    /\ quick = [s \in Services |-> 0]
    /\ fails = [s \in Services |-> 0]
    /\ cancelled = FALSE
    /\ restart = "no"
    /\ exitCode = 0
    /\ ready = {}
    /\ readyCh = (Barrier = {})
    /\ phase = "running"
    /\ shut = {}
    /\ result = -1
    /\ before = {}

-----------------------------------------------------------------------------
(* The supervisors. *)

\* runGuarded returns, by an error, nil or a recovered panic.
RunReturns(s) == \E d \in Lengths :
    /\ pc[s] = "running"
    /\ cancelled \/ fails[s] < MaxFails
    /\ pc' = [pc EXCEPT ![s] = "returned"]
    /\ ran' = [ran EXCEPT ![s] = d]
    /\ quick' = [quick EXCEPT ![s] = IF d = 0 THEN @ + 1 ELSE 0]
    /\ fails' = [fails EXCEPT ![s] = @ + 1]
    /\ UNCHANGED <<backoff, cancelled, restart, exitCode, ready, readyCh, phase, shut, result, before>>

\* Run waits for a goroutine that waits for ever: of the engine, the album
\* loop, in a push to the full queue that the consumer has left.
RunHangs(s) ==
    /\ pc[s] = "running" /\ cancelled /\ s \in MayHang
    /\ pc' = [pc EXCEPT ![s] = "hung"]
    /\ UNCHANGED <<ran, backoff, quick, fails, cancelled, restart, exitCode, ready, readyCh,
                   phase, shut, result, before>>

\* supervise looks at the context, and only then at what to do.
Judge(s) ==
    /\ pc[s] = "returned"
    /\ pc' = [pc EXCEPT ![s] = IF cancelled THEN "stopped"
                               ELSE IF s \in Core THEN "failed" ELSE "waiting"]
    /\ before' = IF ~cancelled /\ s \in Core THEN before \cup {"fatal"} ELSE before
    /\ UNCHANGED <<ran, backoff, quick, fails, cancelled, restart, exitCode, ready, readyCh,
                   phase, shut, result>>

\* Mutant: the failure of a core service sets the exit code and cancels nothing.
CoreFatalLeavesRunning(s) ==
    /\ pc[s] = "failed"
    /\ pc' = [pc EXCEPT ![s] = "stopped"]
    /\ exitCode' = 1
    /\ UNCHANGED <<ran, backoff, quick, fails, cancelled, restart, ready, readyCh, phase, shut, result, before>>

\* coreFatal, at most once: the exit code, then the cancellation.
CoreFatal(s) ==
    /\ pc[s] = "failed"
    /\ pc' = [pc EXCEPT ![s] = "stopped"]
    /\ exitCode' = 1
    /\ cancelled' = TRUE
    /\ UNCHANGED <<ran, backoff, quick, fails, restart, ready, readyCh, phase, shut, result, before>>

\* Mutant: the backoff starts from its base in every turn of the loop.
BackoffForgets(s) ==
    /\ pc[s] = "waiting"
    /\ pc' = [pc EXCEPT ![s] = "running"]
    /\ backoff' = [backoff EXCEPT ![s] = Base]
    /\ UNCHANGED <<ran, quick, fails, cancelled, restart, exitCode, ready, readyCh,
                   phase, shut, result, before>>

\* The backoff has passed (also when the context is cancelled at that moment:
\* select takes either), and is computed anew.  The time since the start of the
\* run includes the wait.
BackoffEnds(s) ==
    /\ pc[s] = "waiting"
    /\ pc' = [pc EXCEPT ![s] = "running"]
    /\ backoff' = [backoff EXCEPT ![s] =
                     IF ran[s] + @ >= StableRun THEN Base ELSE Smaller(2 * @, MaxBackoff)]
    /\ UNCHANGED <<ran, quick, fails, cancelled, restart, exitCode, ready, readyCh,
                   phase, shut, result, before>>

BackoffCancelled(s) ==
    /\ pc[s] = "waiting" /\ cancelled
    /\ pc' = [pc EXCEPT ![s] = "stopped"]
    /\ UNCHANGED <<ran, backoff, quick, fails, cancelled, restart, exitCode, ready, readyCh,
                   phase, shut, result, before>>

-----------------------------------------------------------------------------
(* The readiness barrier and the reasons to end. *)

\* A service is bound, or logged in, and closes its Ready channel.
BecomesReady(s) ==
    /\ s \in Barrier \ ready /\ pc[s] = "running"
    /\ ready' = ready \cup {s}
    /\ UNCHANGED <<pc, ran, backoff, quick, fails, cancelled, restart, exitCode, readyCh,
                   phase, shut, result, before>>

\* The barrier's goroutines end by the channels or by the context.
MarkReady ==
    /\ ~readyCh
    /\ cancelled \/ ready = Barrier
    /\ readyCh' = TRUE
    /\ UNCHANGED <<pc, ran, backoff, quick, fails, cancelled, restart, exitCode, ready,
                   phase, shut, result, before>>

\* SIGTERM or SIGINT cancels the parent of the root context.
Signal ==
    /\ ~cancelled
    /\ cancelled' = TRUE
    /\ before' = before \cup {"signal"}
    /\ UNCHANGED <<pc, ran, backoff, quick, fails, restart, exitCode, ready, readyCh,
                   phase, shut, result>>

\* RequestRestart, from a goroutine of the web server: the flag, then cancel.
RestartFlag ==
    /\ restart = "no" /\ phase # "ended"
    /\ restart' = "flagged"
    /\ before' = IF cancelled THEN before ELSE before \cup {"restart"}
    /\ UNCHANGED <<pc, ran, backoff, quick, fails, cancelled, exitCode, ready, readyCh,
                   phase, shut, result>>

RestartCancel ==
    /\ restart = "flagged"
    /\ restart' = "done"
    /\ cancelled' = TRUE
    /\ UNCHANGED <<pc, ran, backoff, quick, fails, exitCode, ready, readyCh, phase, shut, result, before>>

-----------------------------------------------------------------------------
(* App.Run after its supervisors. *)

\* wg.Wait returns.
AllStopped ==
    /\ phase = "running"
    /\ \A s \in Services : pc[s] = "stopped"
    /\ phase' = "closing"
    /\ UNCHANGED <<pc, ran, backoff, quick, fails, cancelled, restart, exitCode, ready, readyCh,
                   shut, result, before>>

\* Mutant: services are shut down in the order of Register.
ShutdownFirstFirst(s) ==
    /\ phase = "closing" /\ readyCh
    /\ s \notin shut /\ \A t \in Services : t < s => t \in shut
    /\ shut' = shut \cup {s}
    /\ UNCHANGED <<pc, ran, backoff, quick, fails, cancelled, restart, exitCode, ready, readyCh,
                   phase, result, before>>

\* closeAll: the barrier is over, services are shut down last first.
Shutdown(s) ==
    /\ phase = "closing" /\ readyCh
    /\ s \notin shut /\ \A t \in Services : t > s => t \in shut
    /\ shut' = shut \cup {s}
    /\ UNCHANGED <<pc, ran, backoff, quick, fails, cancelled, restart, exitCode, ready, readyCh,
                   phase, result, before>>

\* Mutant: a restart request outranks the failure of a core service.
ReturnRestartFirst ==
    /\ phase = "closing" /\ readyCh /\ shut = Services
    /\ phase' = "ended"
    /\ result' = IF restart # "no" THEN 75 ELSE exitCode
    /\ UNCHANGED <<pc, ran, backoff, quick, fails, cancelled, restart, exitCode, ready, readyCh,
                   shut, before>>

\* Run returns the exit code of the process.
Return ==
    /\ phase = "closing" /\ readyCh /\ shut = Services
    /\ phase' = "ended"
    /\ result' = IF exitCode # 0 THEN exitCode ELSE IF restart # "no" THEN 75 ELSE 0
    /\ UNCHANGED <<pc, ran, backoff, quick, fails, cancelled, restart, exitCode, ready, readyCh,
                   shut, before>>

Next ==
    \/ \E s \in Services :
         \/ RunReturns(s) \/ RunHangs(s) \/ Judge(s) \/ CoreFatal(s)
         \/ BackoffEnds(s) \/ BackoffCancelled(s)
         \/ BecomesReady(s) \/ Shutdown(s)
    \/ MarkReady \/ Signal \/ RestartFlag \/ RestartCancel \/ AllStopped \/ Return

\* What the code schedules: a supervisor goes on after each of its waits, a
\* service that does not hang returns once the context is cancelled (the
\* contract of Service), and Run goes through its closing.  Nothing makes a
\* signal or a restart come, and nothing makes a service hang.
Fairness ==
    /\ \A s \in Services :
         /\ WF_vars(cancelled /\ RunReturns(s))
         /\ WF_vars(Judge(s)) /\ WF_vars(CoreFatal(s))
         /\ WF_vars(BackoffEnds(s) \/ BackoffCancelled(s))
         /\ WF_vars(Shutdown(s))
    /\ WF_vars(MarkReady) /\ WF_vars(RestartCancel) /\ WF_vars(AllStopped) /\ WF_vars(Return)

Spec == Init /\ [][Next]_vars
FairSpec == Spec /\ Fairness

-----------------------------------------------------------------------------
(* Properties. *)

\* The exit code tells the system's supervisor what happened, whatever raced:
\* 1 exactly if a core service was seen to fail before the context was
\* cancelled, 75 only if a restart was asked for, and 0 never if one had been
\* asked for before (lifecycle.go:131-137, docs/design/01 section 1.4).
ExitCodeTrue ==
    phase = "ended" =>
        /\ result = 1 <=> "fatal" \in before
        /\ result = 75 => restart # "no"
        /\ result = 0 => before \subseteq {"signal"}

\* No service is shut down while a supervisor could still run one, each only
\* after all that were registered after it, and all before the process ends
\* (lifecycle.go:128-129, 237-247).
ShutdownInOrder ==
    /\ shut # {} => \A s \in Services : pc[s] = "stopped"
    /\ \A s \in shut, t \in Services : t > s => t \in shut
    /\ phase = "ended" => shut = Services

\* The base, doubled n times.
Doubled[n \in Nat] == IF n = 0 THEN Base ELSE 2 * Doubled[n - 1]

\* A service that keeps failing at once is restarted ever more slowly, up to
\* RestartBackoffMax, and the test for a stable run, which counts the wait as
\* part of the run, does not reset its backoff (lifecycle.go:156-166), as long as
\* no wait is as long as a stable run (30 s and 1 min by default).
CrashLoopBacksOff ==
    MaxBackoff < StableRun =>
        \A s \in Services :
            pc[s] = "waiting" /\ quick[s] > 0
                => backoff[s] >= Smaller(Doubled[quick[s] - 1], MaxBackoff)

\* Only degradable services are restarted, and none is given up while the
\* process is to live (lifecycle.go:141-168).
RestartsOnlyDegradable ==
    /\ \A s \in Core : fails[s] <= 1
    /\ ~cancelled => \A s \in Services : pc[s] # "stopped"

\* Told to end, by a signal, a restart request or a failed core service, the
\* process ends, whatever its services are doing, or one of those that may hang
\* does: nothing else holds it up, and wg.Wait has no deadline of its own
\* (lifecycle.go:111-138).
EndsOnceTold ==
    cancelled \/ restart = "flagged" \/ (\E s \in Core : pc[s] = "returned")
        ~> phase = "ended" \/ (\E s \in MayHang : pc[s] = "hung")

=============================================================================
