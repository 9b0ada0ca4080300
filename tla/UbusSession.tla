------------------------------ MODULE UbusSession ------------------------------
(***************************************************************************)
(* The session of the ubus HTTP client (internal/wnet/ubus/client.go):     *)
(* goroutines that share one Client call the router with the session id    *)
(* the client holds, log in when it holds none, and re-login once when a   *)
(* call is refused.  Client.mu is held across the login's HTTP round trip, *)
(* but not across the calls themselves: a session may be refused, replaced *)
(* or forgotten while a call that uses it is under way.                    *)
(***************************************************************************)
EXTENDS Naturals

CONSTANTS
  Callers,    \* goroutines inside Client.Call
  MaxLogins   \* bound on the sessions the router hands out

ASSUME MaxLoginsAssumption == MaxLogins \in Nat

Nobody == "nobody"
ASSUME NobodyAssumption == Nobody \notin Callers

\* Sessions are numbered in the order the router issues them; 0 is "".
None == 0
Sessions == 0..MaxLogins

VARIABLES
  session,  \* Client.session
  mu,       \* who holds Client.mu across a login
  pc,       \* where a caller is in Call
  tok,      \* the s of Call: the session it works with
  first,    \* history: the session its first attempt was made with
  acl,      \* does rpcd's ACL forbid what this call asks for
  issued,   \* router: number of the last session issued
  valid,    \* router: sessions that have not expired
  refused,  \* history: sessions the router refused a call with
  lost      \* history: sessions issued in an answer the client never read

vars == <<session, mu, pc, tok, first, acl, issued, valid, refused, lost>>

Steps == {"idle", "sessionID", "sessionIDLogin", "call",
          "relogin", "reloginLogin", "retry"}

TypeOK ==
  /\ session \in Sessions
  /\ mu \in Callers \cup {Nobody}
  /\ pc \in [Callers -> Steps]
  /\ tok \in [Callers -> Sessions]
  /\ first \in [Callers -> Sessions]
  /\ acl \in [Callers -> BOOLEAN]
  /\ issued \in Sessions
  /\ valid \in SUBSET Sessions
  /\ refused \in SUBSET Sessions
  /\ lost \in SUBSET Sessions

Init ==
  /\ session = None
  /\ mu = Nobody
  /\ pc = [c \in Callers |-> "idle"]
  /\ tok = [c \in Callers |-> None]
  /\ first = [c \in Callers |-> None]
  /\ acl = [c \in Callers |-> FALSE]
  /\ issued = 0
  /\ valid = {}
  /\ refused = {}
  /\ lost = {}

-----------------------------------------------------------------------------
Goto(c, from, to) ==
  /\ pc[c] = from
  /\ pc' = [pc EXCEPT ![c] = to]

Take(c, s) == tok' = [tok EXCEPT ![c] = s]

Begin(c, forbidden) ==
  /\ Goto(c, "idle", "sessionID")
  /\ acl' = [acl EXCEPT ![c] = forbidden]
  /\ UNCHANGED <<session, mu, tok, first, issued, valid, refused, lost>>

\* sessionID under the lock, when a session is there.
SessionID(c) ==
  /\ mu = Nobody
  /\ session # None
  /\ Goto(c, "sessionID", "call")
  /\ Take(c, session)
  /\ first' = [first EXCEPT ![c] = session]
  /\ UNCHANGED <<session, mu, acl, issued, valid, refused, lost>>

\* sessionID under the lock, when it has to log in.
SessionIDLogin(c) ==
  /\ mu = Nobody
  /\ session = None
  /\ mu' = c
  /\ Goto(c, "sessionID", "sessionIDLogin")
  /\ UNCHANGED <<session, tok, first, acl, issued, valid, refused, lost>>

\* Faulty variant: the login is sent twice, and the second session is kept.
LoginTwice(c) ==
  /\ mu = c
  /\ issued < MaxLogins
  /\ issued' = issued + 2
  /\ valid' = valid \cup {issued + 1, issued + 2}
  /\ session' = issued + 2
  /\ Take(c, issued + 2)
  /\ mu' = Nobody
  /\ first' = [first EXCEPT ![c] = issued + 2]
  /\ Goto(c, "sessionIDLogin", "call")
  /\ UNCHANGED <<acl, refused, lost>>

\* The router accepts the credentials; login stores the session and the deferred
\* unlock runs.
LoginOk(c) ==
  /\ mu = c
  /\ issued < MaxLogins
  /\ issued' = issued + 1
  /\ valid' = valid \cup {issued + 1}
  /\ session' = issued + 1
  /\ Take(c, issued + 1)
  /\ mu' = Nobody
  /\ \/ /\ Goto(c, "sessionIDLogin", "call")
        /\ first' = [first EXCEPT ![c] = issued + 1]
     \/ /\ Goto(c, "reloginLogin", "retry")
        /\ UNCHANGED first
  /\ UNCHANGED <<acl, refused, lost>>

\* Faulty variant: the error path of login leaves Client.mu locked.
LoginFailsLocked(c) ==
  /\ mu = c
  /\ Goto(c, pc[c], "idle")
  /\ UNCHANGED <<session, mu, tok, first, acl, issued, valid, refused, lost>>

\* The login does not reach the router, or is refused there: Call returns the
\* error.  relogin has already forgotten the stale session.
LoginFails(c) ==
  /\ mu = c
  /\ mu' = Nobody
  /\ Goto(c, pc[c], "idle")
  /\ UNCHANGED <<session, tok, first, acl, issued, valid, refused, lost>>

\* The router accepts the credentials, but the answer is lost on its way (timeout,
\* cancelled context, broken body) or cannot be decoded: to the client this is a
\* login that failed, on the router it is one more session.
LoginLost(c) ==
  /\ mu = c
  /\ issued < MaxLogins
  /\ issued' = issued + 1
  /\ valid' = valid \cup {issued + 1}
  /\ lost' = lost \cup {issued + 1}
  /\ mu' = Nobody
  /\ Goto(c, pc[c], "idle")
  /\ UNCHANGED <<session, tok, first, acl, refused>>

\* What the router answers to a call: done (or an error that is not about
\* access), or refused.
Accepted(c) == tok[c] \in valid /\ ~acl[c]

\* The call, or the retry, succeeds, or ends in an error that is not a refusal.
CallEnds(c) ==
  /\ Goto(c, pc[c], "idle")
  /\ pc[c] \in {"call", "retry"}
  /\ UNCHANGED <<session, mu, tok, first, acl, issued, valid, refused, lost>>

\* The router refuses the session: it expired, or the ACL forbids the call.
CallRefused(c) ==
  /\ ~Accepted(c)
  /\ Goto(c, "call", "relogin")
  /\ refused' = refused \cup {tok[c]}
  /\ UNCHANGED <<session, mu, tok, first, acl, issued, valid, lost>>

\* ... and a second time: Call reports permission denied.
RetryRefused(c) ==
  /\ ~Accepted(c)
  /\ Goto(c, "retry", "idle")
  /\ refused' = refused \cup {tok[c]}
  /\ UNCHANGED <<session, mu, tok, first, acl, issued, valid, lost>>

\* relogin under the lock: another goroutine has replaced the session meanwhile.
Refreshed(c) ==
  /\ mu = Nobody
  /\ session # tok[c]
  /\ Goto(c, "relogin", "retry")
  /\ Take(c, session)
  /\ UNCHANGED <<session, mu, first, acl, issued, valid, refused, lost>>

\* Faulty variant: relogin does not compare the session with the stale one.
ReloginAlways(c) ==
  /\ mu = Nobody
  /\ mu' = c
  /\ session' = None
  /\ Goto(c, "relogin", "reloginLogin")
  /\ UNCHANGED <<tok, first, acl, issued, valid, refused, lost>>

\* Faulty variant: relogin hands the session back without logging in.
ReloginKeeps(c) ==
  /\ mu = Nobody
  /\ session = tok[c]
  /\ Goto(c, "relogin", "retry")
  /\ UNCHANGED <<session, mu, tok, first, acl, issued, valid, refused, lost>>

\* relogin under the lock: it is this caller that has to replace the session.
Relogin(c) ==
  /\ mu = Nobody
  /\ session = tok[c]
  /\ mu' = c
  /\ session' = None
  /\ Goto(c, "relogin", "reloginLogin")
  /\ UNCHANGED <<tok, first, acl, issued, valid, refused, lost>>

\* The router forgets a session: its timeout passed, or rpcd restarted.
Expire(s) ==
  /\ s \in valid
  /\ valid' = valid \ {s}
  /\ UNCHANGED <<session, mu, pc, tok, first, acl, issued, refused, lost>>

Lock(c) ==
  \/ SessionID(c)
  \/ SessionIDLogin(c)
  \/ Refreshed(c)
  \/ Relogin(c)

Respond(c) ==
  \/ LoginOk(c)
  \/ LoginFails(c)
  \/ LoginLost(c)
  \/ CallEnds(c)
  \/ CallRefused(c)
  \/ RetryRefused(c)

Next ==
  \/ \E c \in Callers, forbidden \in BOOLEAN : Begin(c, forbidden)
  \/ \E c \in Callers : Lock(c) \/ Respond(c)
  \/ \E s \in Sessions : Expire(s)

Spec == Init /\ [][Next]_vars

\* http.Client.Timeout bounds every round trip (weak fairness), and sync.Mutex
\* hands the lock to a goroutine that has waited long enough (strong fairness).
FairSpec ==
  /\ Spec
  /\ \A c \in Callers : WF_vars(Respond(c)) /\ SF_vars(Lock(c))

-----------------------------------------------------------------------------
(* Properties *)

\* No login storm: the client has asked for a further session only because the
\* router refused the one before, however many callers met the same expiry
\* ("unless another goroutine already refreshed it", client.go:191-192), or
\* because the client never read the answer that carried it.
OneLoginPerRefusal == \A s \in 1..issued : s = issued \/ s \in refused \cup lost

\* A session is forgotten only after the router refused it: a caller that was
\* overtaken never throws away the session another one has just obtained.
FreshSessionKept ==
  [][session' # session => session \in refused \cup {None}]_vars

\* The retry is made with another session than the one that was refused.
RetryUsesAnotherSession ==
  \A c \in Callers : pc[c] = "retry" => tok[c] # first[c]

\* Every call returns; nobody waits for Client.mu for ever.
CallReturns == \A c \in Callers : pc[c] # "idle" ~> pc[c] = "idle"

-----------------------------------------------------------------------------
\* client.go:179 "returns a valid session id" and 191-192 "re-authenticates when
\* the caller's session was rejected, unless another goroutine already refreshed
\* it": a call is never retried with the empty session.
NoEmptySession ==
  \A c \in Callers : pc[c] \in {"call", "retry"} => tok[c] # None

-----------------------------------------------------------------------------
\* The lock is held exactly across a login, and the client has no session then:
\* whatever way a login ends, its deferred unlock has run (client.go:181, 194).
LoginLocked ==
  /\ mu # Nobody => session = None
  /\ \A c \in Callers :
       pc[c] \in {"sessionIDLogin", "reloginLogin"} <=> mu = c

\* Call reports "permission denied" only after the router refused it twice, with
\* two sessions; a caller that the ACL allows has seen both of them end.
DeniedForCause ==
  [][\A c \in Callers :
       RetryRefused(c) =>
         /\ first[c] \in refused \ {None}
         /\ tok[c] # first[c]
         /\ acl[c] \/ {first[c], tok[c]} \cap valid = {}]_vars
=============================================================================
