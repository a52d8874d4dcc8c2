------------------------------ MODULE WebAccess ------------------------------
(***************************************************************************)
(* The web server (webapi/server.go), its sessions, its login limiter and  *)
(* its audit (webapi/auth.go).  The limiter and the sessions have a lock   *)
(* each, taken anew for every call, so a login asks, fails and resets in   *)
(* steps that others come between.  The clock is counted in ticks.         *)
(***************************************************************************)
EXTENDS Integers, FiniteSets

CONSTANTS
  WebRequests,      \* numbers, in the order the requests come
  Sources,          \* the addresses they come from
  MaxLoginFailures, \* 5
  Lockout,          \* 10 minutes
  SessionTTL,       \* 12 hours
  MaxClock          \* bound on the clock

ASSUME WebAssumption ==
  /\ WebRequests \subseteq Nat
  /\ MaxLoginFailures \in Nat \ {0} /\ Lockout \in Nat /\ SessionTTL \in Nat

VARIABLES
  server,   \* "new", "listening", "closing" or "exited"
  clock,
  tokens,   \* the sessions in the store: [token, expiry]; a token is named by its login
  limiter,  \* limiter[ip]: failures counted, and until when it is locked (0 = not)
  req,      \* req[r]: the request
  audits,   \* the requests that have an entry in the audit, or a warning instead of it
  locks     \* history: the locks that were set and that no right login has taken away since

webVars == <<server, clock, tokens, limiter, req, audits, locks>>

NoFails == [count |-> 0, until |-> 0]
NoRequest == [at |-> "unsent", kind |-> "", from |-> "", at0 |-> 0, token |-> 0, effect |-> FALSE]
Locked(ip) == clock < limiter[ip].until

WebInit ==
  /\ server = "new" /\ clock = 0 /\ tokens = {}
  /\ limiter = [ip \in Sources |-> NoFails]
  /\ req = [r \in WebRequests |-> NoRequest] /\ audits = {} /\ locks = {}

Arrives(r) == req[r].at = "unsent" /\ \A q \in WebRequests : q < r => req[q].at # "unsent"
Moves(r, at) == req' = [req EXCEPT ![r].at = at]
-----------------------------------------------------------------------------
(* Run: the listener is bound, then ready is closed.                       *)
RunServer ==
  /\ server = "new" /\ server' = "listening"
  /\ UNCHANGED <<clock, tokens, limiter, req, audits, locks>>

(* Shutdown: nothing new is accepted; Serve and Run return at once.        *)
ShutdownServer ==
  /\ server \in {"new", "listening"} /\ server' = "closing"
  /\ UNCHANGED <<clock, tokens, limiter, req, audits, locks>>

(* The lifecycle's own Shutdown finds the server closed and returns: the   *)
(* process ends with whatever is being served.                             *)
ServerExits ==
  /\ server = "closing" /\ server' = "exited"
  /\ req' = [r \in WebRequests |->
               IF req[r].at \in {"unsent", "refused", "answered"} THEN req[r] ELSE [req[r] EXCEPT !.at = "cut"]]
  /\ UNCHANGED <<clock, tokens, limiter, audits, locks>>

Ticks ==
  /\ clock < MaxClock /\ clock' = clock + 1
  /\ UNCHANGED <<server, tokens, limiter, req, audits, locks>>
-----------------------------------------------------------------------------
(* handleLogin: asks the limiter, reads the body, compares, and counts.    *)
LoginAsks(r, ip) ==
  /\ server = "listening" /\ Arrives(r)
  /\ req' = [req EXCEPT ![r] = [NoRequest EXCEPT !.at = IF Locked(ip) THEN "refused" ELSE "asked",
                                                 !.kind = "login", !.from = ip, !.at0 = clock]]
  /\ limiter' = IF limiter[ip].until # 0 /\ ~Locked(ip)
                THEN [limiter EXCEPT ![ip] = NoFails] ELSE limiter
  /\ UNCHANGED <<server, clock, tokens, audits, locks>>

\* Mutant: a failure that comes after the lock starts a new count.
CountedAnew(st) ==
  IF st.count + 1 >= MaxLoginFailures THEN [count |-> 0, until |-> clock + Lockout]
  ELSE [count |-> st.count + 1, until |-> 0]

Counted(st) ==
  IF st.count + 1 >= MaxLoginFailures THEN [count |-> 0, until |-> clock + Lockout]
  ELSE [st EXCEPT !.count = @ + 1]

(* A body that cannot be decoded is not counted.                           *)
LoginMalformed(r) ==
  /\ req[r].at = "asked" /\ Moves(r, "answered")
  /\ UNCHANGED <<server, clock, tokens, limiter, audits, locks>>

LoginFails(r) ==
  LET ip == req[r].from
      st == Counted(limiter[ip])
  IN /\ req[r].at = "asked"
     /\ limiter' = [limiter EXCEPT ![ip] = st]
     /\ locks' = IF st.count = 0 THEN locks \cup {[ip |-> ip, set |-> clock, until |-> st.until]} ELSE locks
     /\ Moves(r, "answered")
     /\ UNCHANGED <<server, clock, tokens, audits>>

LoginResets(r) ==
  /\ req[r].at = "asked"
  /\ limiter' = [limiter EXCEPT ![req[r].from] = NoFails]
  /\ locks' = {k \in locks : k.ip # req[r].from}
  /\ Moves(r, "known")
  /\ UNCHANGED <<server, clock, tokens, audits>>

LoginCreates(r) ==
  /\ req[r].at = "known"
  /\ tokens' = tokens \cup {[token |-> r, expiry |-> clock + SessionTTL]}
  /\ req' = [req EXCEPT ![r].at = "audit", ![r].effect = TRUE]
  /\ UNCHANGED <<server, clock, limiter, audits, locks>>

(* requireSession; an expired session is dropped when it is used.          *)
Known(t) == {s \in tokens : s.token = t}
Enters(r, t, kind) ==
  /\ server = "listening" /\ Arrives(r)
  /\ req[t].kind = "login" /\ req[t].effect
  /\ req' = [req EXCEPT ![r] = [NoRequest EXCEPT
               !.at = IF \E s \in Known(t) : clock < s.expiry THEN "serving" ELSE "refused",
               !.kind = kind, !.token = t]]
  /\ tokens' = tokens \ {s \in Known(t) : clock >= s.expiry}
  /\ UNCHANGED <<server, clock, limiter, audits, locks>>

\* Mutant: a write whose handler fails is not audited.
AfterHandlerQuiet(kind, effect) == IF kind = "read" \/ ~effect THEN "answered" ELSE "audit"

(* auditWrap: every write, whatever came of it; logout does its own.       *)
AfterHandler(kind, effect) == IF kind = "read" THEN "answered" ELSE "audit"

Handler(r) ==
  /\ req[r].at = "serving"
  /\ \E effect \in BOOLEAN :
       /\ req[r].kind = "read" => ~effect
       /\ req[r].kind = "logout" => effect
       /\ req' = [req EXCEPT ![r].effect = effect, ![r].at = AfterHandler(req[r].kind, effect)]
  /\ tokens' = IF req[r].kind = "logout" THEN tokens \ Known(req[r].token) ELSE tokens
  /\ UNCHANGED <<server, clock, limiter, audits, locks>>

(* auditAction: an entry, or a warning when it cannot be written.          *)
Audit(r) ==
  /\ req[r].at = "audit" /\ audits' = audits \cup {r}
  /\ Moves(r, "answered")
  /\ UNCHANGED <<server, clock, tokens, limiter, locks>>

WebNext ==
  \/ RunServer \/ ShutdownServer \/ ServerExits \/ Ticks
  \/ \E r \in WebRequests :
       \/ LoginMalformed(r) \/ LoginFails(r) \/ LoginResets(r) \/ LoginCreates(r) \/ Handler(r) \/ Audit(r)
       \/ \E ip \in Sources : LoginAsks(r, ip)
       \/ \E t \in WebRequests, kind \in {"read", "write", "logout"} : Enters(r, t, kind)
-----------------------------------------------------------------------------
(* PROPERTIES *)

(* Enough failures lock their source for the whole lockout (auth.go:15-25):*)
(* no login that asks after the lock and before its end is let on, nor     *)
(* does a failure that comes late shorten it.  Only a right login, which   *)
(* then must have asked before the lock, takes it away.                    *)
LockHolds ==
  \A k \in locks, r \in WebRequests :
    /\ req[r].kind = "login" /\ req[r].from = k.ip
    /\ k.set < req[r].at0 /\ req[r].at0 < k.until
    => req[r].at = "refused"

(* Every write that was let in leaves an entry in the audit or a warning   *)
(* before it is answered, whatever its handler did (auth.go:211-219, "all  *)
(* write operations"), and what took effect stays without one only if the  *)
(* process ended while it was being served: Run returns before the drain.  *)
WritesAudited ==
  \A r \in WebRequests :
    /\ req[r].at = "answered" /\ req[r].kind \in {"write", "logout"} => r \in audits
    /\ req[r].effect /\ r \notin audits => req[r].at \in {"audit", "cut"}
=============================================================================
