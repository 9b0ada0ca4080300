--------------------------- MODULE UbusSessionProofs ---------------------------
(***************************************************************************)
(* Proofs about UbusSession, for any number of goroutines and sessions.    *)
(***************************************************************************)
EXTENDS UbusSession, TLAPS

\* The client holds the last session issued, or none once that one was refused
\* or lost.
HeldIsLast ==
  \/ session = issued
  \/ session = None /\ issued \in refused \cup lost

\* What a caller knows of the session it works with.
CallerInv(c) ==
  /\ tok[c] <= issued
  /\ first[c] <= issued
  /\ pc[c] \in {"call", "relogin"} => tok[c] = first[c] /\ tok[c] # None
  /\ pc[c] = "relogin" => tok[c] \in refused
  /\ pc[c] = "retry" => tok[c] # first[c]

\* The inductive invariant behind OneLoginPerRefusal and FreshSessionKept.
IInv ==
  /\ TypeOK
  /\ OneLoginPerRefusal
  /\ HeldIsLast
  /\ LoginLocked
  /\ \A c \in Callers : CallerInv(c)

-----------------------------------------------------------------------------
LEMMA InitIInv == Init => IInv
  BY MaxLoginsAssumption, NobodyAssumption
  DEF Init, IInv, TypeOK, OneLoginPerRefusal, HeldIsLast, LoginLocked, CallerInv,
      Steps, Sessions, None

LEMMA StepType == TypeOK /\ [Next]_vars => TypeOK'
  <1>. SUFFICES ASSUME TypeOK, [Next]_vars PROVE TypeOK'
    OBVIOUS
  <1>. USE DEF TypeOK, Goto, Take, Steps
  <1>0. None \in Sessions
    BY MaxLoginsAssumption DEF None, Sessions
  <1>1. ASSUME NEW c \in Callers, NEW forbidden \in BOOLEAN, Begin(c, forbidden)
        PROVE  TypeOK'
    BY <1>1 DEF Begin
  <1>2. ASSUME NEW c \in Callers, Lock(c) PROVE TypeOK'
    BY <1>0, <1>2 DEF Lock, SessionID, SessionIDLogin, Refreshed, Relogin
  <1>3. ASSUME NEW c \in Callers, LoginOk(c) PROVE TypeOK'
    <2>1. issued + 1 \in Sessions
      BY <1>3, MaxLoginsAssumption DEF LoginOk, Sessions
    <2>2. pc' \in [Callers -> Steps] /\ first' \in [Callers -> Sessions]
      BY <1>3, <2>1 DEF LoginOk
    <2>. QED  BY <1>3, <2>1, <2>2 DEF LoginOk
  <1>4. ASSUME NEW c \in Callers, Respond(c), ~LoginOk(c), ~LoginLost(c) PROVE TypeOK'
    BY <1>4 DEF Respond, LoginFails, CallEnds, CallRefused, RetryRefused
  <1>7. ASSUME NEW c \in Callers, LoginLost(c) PROVE TypeOK'
    <2>1. issued + 1 \in Sessions
      BY <1>7, MaxLoginsAssumption DEF LoginLost, Sessions
    <2>. QED  BY <1>7, <2>1 DEF LoginLost
  <1>5. ASSUME NEW s \in Sessions, Expire(s) PROVE TypeOK'
    BY <1>5 DEF Expire
  <1>6. CASE UNCHANGED vars
    BY <1>6 DEF vars
  <1>. QED  BY <1>1, <1>2, <1>3, <1>4, <1>5, <1>6, <1>7 DEF Next

\* TypeOK: every variable keeps its type.
THEOREM TypeCorrect == Spec => []TypeOK
  <1>1. Init => TypeOK
    BY InitIInv DEF IInv
  <1>. QED  BY <1>1, StepType, PTL DEF Spec

-----------------------------------------------------------------------------
LEMMA LoginOkIInv ==
  ASSUME IInv, TypeOK', NEW c \in Callers, LoginOk(c)
  PROVE  IInv'
  <1>1. /\ issued \in Nat /\ issued' = issued + 1 /\ session' = issued + 1
        /\ refused' = refused /\ lost' = lost /\ tok' = [tok EXCEPT ![c] = issued + 1]
        /\ session = None /\ mu = c /\ mu' = Nobody
    BY NobodyAssumption, MaxLoginsAssumption
    DEF LoginOk, Take, IInv, TypeOK, Sessions, LoginLocked
  <1>2. issued \in refused \cup lost \/ issued = 0
    BY <1>1 DEF IInv, HeldIsLast, None
  <1>3. OneLoginPerRefusal'
    <2>. SUFFICES ASSUME NEW s \in 1..(issued + 1), s # issued + 1
                  PROVE  s \in refused \cup lost
      BY <1>1 DEF OneLoginPerRefusal
    <2>. QED  BY <1>1, <1>2 DEF IInv, OneLoginPerRefusal
  <1>4. HeldIsLast'
    BY <1>1 DEF HeldIsLast
  <1>5. LoginLocked'
    BY <1>1, NobodyAssumption DEF LoginOk, Goto, IInv, TypeOK, LoginLocked
  <1>6. ASSUME NEW k \in Callers PROVE CallerInv(k)'
    <2>1. tok[k] \in Nat /\ first[k] \in Nat
      BY MaxLoginsAssumption DEF IInv, TypeOK, Sessions
    <2>2. CallerInv(k)
      BY DEF IInv
    <2>3. CASE k # c
      BY <1>1, <2>1, <2>2, <2>3 DEF LoginOk, Goto, IInv, TypeOK, CallerInv
    <2>4. CASE k = c
      BY <1>1, <2>1, <2>2, <2>4 DEF LoginOk, Goto, IInv, TypeOK, CallerInv, None
    <2>. QED  BY <2>3, <2>4
  <1>. QED  BY <1>3, <1>4, <1>5, <1>6 DEF IInv

LEMMA LoginLostIInv ==
  ASSUME IInv, TypeOK', NEW c \in Callers, LoginLost(c)
  PROVE  IInv'
  <1>1. /\ issued \in Nat /\ issued' = issued + 1 /\ lost' = lost \cup {issued + 1}
        /\ UNCHANGED <<session, refused, tok, first>>
        /\ session = None /\ mu = c /\ mu' = Nobody
    BY NobodyAssumption, MaxLoginsAssumption
    DEF LoginLost, IInv, TypeOK, Sessions, LoginLocked
  <1>2. issued \in refused \cup lost \/ issued = 0
    BY <1>1 DEF IInv, HeldIsLast, None
  <1>3. OneLoginPerRefusal'
    <2>. SUFFICES ASSUME NEW s \in 1..(issued + 1), s # issued + 1
                  PROVE  s \in refused \cup lost
      BY <1>1 DEF OneLoginPerRefusal
    <2>. QED  BY <1>1, <1>2 DEF IInv, OneLoginPerRefusal
  <1>4. HeldIsLast'
    BY <1>1 DEF HeldIsLast
  <1>5. LoginLocked'
    BY <1>1, NobodyAssumption DEF LoginLost, Goto, IInv, TypeOK, LoginLocked
  <1>6. ASSUME NEW k \in Callers PROVE CallerInv(k)'
    <2>1. tok[k] \in Nat /\ first[k] \in Nat
      BY MaxLoginsAssumption DEF IInv, TypeOK, Sessions
    <2>2. CallerInv(k)
      BY DEF IInv
    <2>. QED  BY <1>1, <2>1, <2>2 DEF LoginLost, Goto, IInv, TypeOK, CallerInv
  <1>. QED  BY <1>3, <1>4, <1>5, <1>6 DEF IInv

LEMMA StepIInv ==
  ASSUME IInv, [Next]_vars
  PROVE  IInv'
  <1>0. TypeOK'
    BY StepType DEF IInv
  <1>. USE MaxLoginsAssumption, NobodyAssumption DEF Goto, Take
  <1>1. ASSUME NEW c \in Callers, NEW forbidden \in BOOLEAN, Begin(c, forbidden)
        PROVE  IInv'
    BY <1>0, <1>1
    DEF Begin, IInv, TypeOK, OneLoginPerRefusal, HeldIsLast, LoginLocked, CallerInv
  <1>2. ASSUME NEW c \in Callers, Lock(c) PROVE IInv'
    <2>1. /\ issued' = issued /\ refused' = refused /\ lost' = lost /\ mu = Nobody
          /\ session \in Nat /\ issued \in Nat
          /\ \A k \in Callers : tok[k] \in Nat /\ first[k] \in Nat
      BY <1>2 DEF Lock, SessionID, SessionIDLogin, Refreshed, Relogin,
                  IInv, TypeOK, Sessions
    <2>2. OneLoginPerRefusal'
      BY <2>1 DEF IInv, OneLoginPerRefusal
    <2>3. HeldIsLast'
      BY <1>2, <2>1 DEF Lock, SessionID, SessionIDLogin, Refreshed, Relogin,
                        IInv, HeldIsLast, CallerInv
    <2>4. LoginLocked'
      BY <1>2, <2>1 DEF Lock, SessionID, SessionIDLogin, Refreshed, Relogin,
                        IInv, TypeOK, LoginLocked
    <2>5. session <= issued
      BY <2>1 DEF IInv, HeldIsLast, None
    <2>6. ASSUME NEW k \in Callers PROVE CallerInv(k)'
      BY <1>2, <2>1, <2>5 DEF Lock, SessionID, SessionIDLogin, Refreshed, Relogin,
                        IInv, TypeOK, CallerInv
    <2>. QED  BY <1>0, <2>2, <2>3, <2>4, <2>6 DEF IInv
  <1>3. ASSUME NEW c \in Callers, LoginOk(c) PROVE IInv'
    BY <1>0, <1>3, LoginOkIInv
  <1>7. ASSUME NEW c \in Callers, LoginLost(c) PROVE IInv'
    BY <1>0, <1>7, LoginLostIInv
  <1>4. ASSUME NEW c \in Callers, Respond(c), ~LoginOk(c), ~LoginLost(c) PROVE IInv'
    <2>1. /\ issued' = issued /\ session' = session /\ lost' = lost
          /\ refused \subseteq refused'
          /\ UNCHANGED <<tok, first>>
      BY <1>4 DEF Respond, LoginFails, CallEnds, CallRefused, RetryRefused
    <2>2. OneLoginPerRefusal' /\ HeldIsLast'
      BY <2>1 DEF IInv, OneLoginPerRefusal, HeldIsLast
    <2>3. LoginLocked'
      BY <1>4 DEF Respond, LoginFails, CallEnds, CallRefused, RetryRefused,
                  IInv, TypeOK, LoginLocked
    <2>4. ASSUME NEW k \in Callers PROVE CallerInv(k)'
      BY <1>4, <2>1 DEF Respond, LoginFails, CallEnds, CallRefused, RetryRefused,
                        IInv, TypeOK, CallerInv
    <2>. QED  BY <1>0, <2>2, <2>3, <2>4 DEF IInv
  <1>5. ASSUME NEW s \in Sessions, Expire(s) PROVE IInv'
    BY <1>0, <1>5
    DEF Expire, IInv, TypeOK, OneLoginPerRefusal, HeldIsLast, LoginLocked, CallerInv
  <1>6. CASE UNCHANGED vars
    BY <1>0, <1>6
    DEF vars, IInv, TypeOK, OneLoginPerRefusal, HeldIsLast, LoginLocked, CallerInv
  <1>. QED  BY <1>1, <1>2, <1>3, <1>4, <1>5, <1>6, <1>7 DEF Next

LEMMA Inductive == Spec => []IInv
  BY InitIInv, StepIInv, PTL DEF Spec

\* OneLoginPerRefusal: however many calls meet the same expiry, one session
\* replaces the one that was refused, unless its answer was lost.
THEOREM OneLoginPerRefusalCorrect == Spec => []OneLoginPerRefusal
  BY Inductive, PTL DEF IInv

\* RetryUsesAnotherSession: the one retry is never spent on the refused session.
THEOREM RetryUsesAnotherSessionCorrect == Spec => []RetryUsesAnotherSession
  <1>1. IInv => RetryUsesAnotherSession
    BY DEF IInv, CallerInv, RetryUsesAnotherSession
  <1>. QED  BY <1>1, Inductive, PTL

\* FreshSessionKept: only a refused session is ever thrown away.
THEOREM FreshSessionKeptCorrect == Spec => FreshSessionKept
  <1>1. IInv /\ [Next]_vars
          => [session' # session => session \in refused \cup {None}]_vars
    <2>. SUFFICES ASSUME IInv, Next, session' # session
                  PROVE  session \in refused \cup {None}
      BY DEF vars
    <2>1. ASSUME NEW c \in Callers, LoginOk(c) PROVE session = None
      BY <2>1, NobodyAssumption DEF LoginOk, IInv, LoginLocked
    <2>2. ASSUME NEW c \in Callers, Relogin(c) PROVE session \in refused
      BY <2>2 DEF Relogin, Goto, IInv, CallerInv
    <2>. QED
      BY <2>1, <2>2
      DEF Next, Begin, Lock, SessionID, SessionIDLogin, Refreshed, Respond, LoginFails,
          LoginLost, CallEnds, CallRefused, RetryRefused, Expire
  <1>. QED  BY <1>1, Inductive, PTL DEF Spec, FreshSessionKept

-----------------------------------------------------------------------------
\* LoginLocked: no way out of a login leaves Client.mu locked, so that the strong
\* fairness of a mutex is worth something.
THEOREM LoginLockedCorrect == Spec => []LoginLocked
  BY Inductive, PTL DEF IInv

\* What holds of the first attempt from its refusal to the end of the call.
Refusal(c) ==
  /\ first[c] \in refused \ {None}
  /\ acl[c] \/ first[c] \notin valid

RefusedInv ==
  \A c \in Callers : pc[c] \in {"relogin", "reloginLogin", "retry"} => Refusal(c)

LEMMA StepRefused ==
  ASSUME IInv, RefusedInv, [Next]_vars
  PROVE  RefusedInv'
  <1>. SUFFICES ASSUME NEW k \in Callers,
                       pc'[k] \in {"relogin", "reloginLogin", "retry"}
                PROVE  Refusal(k)'
    BY DEF RefusedInv
  <1>. USE DEF Goto, Take
  <1>0. /\ pc \in [Callers -> Steps] /\ acl \in [Callers -> BOOLEAN]
        /\ first \in [Callers -> Sessions]
        /\ CallerInv(k)
        /\ pc[k] \in {"relogin", "reloginLogin", "retry"} => Refusal(k)
    BY DEF IInv, TypeOK, RefusedInv
  <1>1. ASSUME NEW c \in Callers, NEW forbidden \in BOOLEAN, Begin(c, forbidden)
        PROVE  Refusal(k)'
    BY <1>0, <1>1 DEF Begin, Refusal
  <1>2. ASSUME NEW c \in Callers, Lock(c) PROVE Refusal(k)'
    BY <1>0, <1>2
    DEF Lock, SessionID, SessionIDLogin, Refreshed, Relogin, Refusal
  <1>3. ASSUME NEW c \in Callers, LoginOk(c) PROVE Refusal(k)'
    <2>1. /\ issued \in Nat /\ first[k] \in Nat /\ first[k] <= issued
          /\ valid' = valid \cup {issued + 1}
          /\ UNCHANGED <<acl, refused>>
      BY <1>0, <1>3, MaxLoginsAssumption
      DEF LoginOk, IInv, TypeOK, Sessions, CallerInv
    <2>2. first'[k] = first[k] /\ pc[k] \in {"relogin", "reloginLogin", "retry"}
      BY <1>0, <1>3 DEF LoginOk
    <2>3. first[k] # issued + 1
      BY <2>1
    <2>. QED  BY <1>0, <2>1, <2>2, <2>3 DEF Refusal
  <1>4. ASSUME NEW c \in Callers, CallRefused(c) PROVE Refusal(k)'
    <2>1. CASE k = c
      BY <1>0, <1>4, <2>1 DEF CallRefused, Accepted, CallerInv, Refusal
    <2>2. CASE k # c
      BY <1>0, <1>4, <2>2 DEF CallRefused, Refusal
    <2>. QED  BY <2>1, <2>2
  <1>8. ASSUME NEW c \in Callers, LoginLost(c) PROVE Refusal(k)'
    <2>1. /\ issued \in Nat /\ first[k] \in Nat /\ first[k] <= issued
          /\ valid' = valid \cup {issued + 1}
          /\ UNCHANGED <<acl, refused, first>>
      BY <1>0, <1>8, MaxLoginsAssumption
      DEF LoginLost, IInv, TypeOK, Sessions, CallerInv
    <2>2. pc[k] \in {"relogin", "reloginLogin", "retry"}
      BY <1>0, <1>8 DEF LoginLost
    <2>3. first[k] # issued + 1
      BY <2>1
    <2>. QED  BY <1>0, <2>1, <2>2, <2>3 DEF Refusal
  <1>5. ASSUME NEW c \in Callers, Respond(c), ~LoginOk(c), ~LoginLost(c), ~CallRefused(c)
        PROVE  Refusal(k)'
    BY <1>0, <1>5 DEF Respond, LoginFails, CallEnds, RetryRefused, Refusal
  <1>6. ASSUME NEW s \in Sessions, Expire(s) PROVE Refusal(k)'
    BY <1>0, <1>6 DEF Expire, Refusal
  <1>7. CASE UNCHANGED vars
    BY <1>0, <1>7 DEF vars, Refusal
  <1>. QED  BY <1>1, <1>2, <1>3, <1>4, <1>5, <1>6, <1>7, <1>8 DEF Next

LEMMA RefusedInvariant == Spec => []RefusedInv
  <1>1. Init => RefusedInv
    BY DEF Init, RefusedInv
  <1>. QED  BY <1>1, Inductive, StepRefused, PTL DEF Spec

\* DeniedForCause: the second refusal Call reports (client.go:242-255) says what it
\* seems to say, but for the empty session of the finding, which counts as a second one.
THEOREM DeniedForCauseCorrect == Spec => DeniedForCause
  <1>1. IInv /\ RefusedInv /\ [Next]_vars =>
          [\A c \in Callers :
             RetryRefused(c) =>
               /\ first[c] \in refused \ {None}
               /\ tok[c] # first[c]
               /\ acl[c] \/ {first[c], tok[c]} \cap valid = {}]_vars
    BY DEF IInv, CallerInv, RefusedInv, Refusal, RetryRefused, Accepted, Goto
  <1>. QED  BY <1>1, Inductive, RefusedInvariant, PTL DEF Spec, DeniedForCause
=============================================================================
