--------------------------- MODULE SessionsProofs ---------------------------
(***************************************************************************)
(* What TLAPS proves of Sessions for any users, handlers, token lifetime   *)
(* and number of restarts: a logout is final, and a live session keeps its *)
(* bind credential.                                                        *)
(***************************************************************************)
EXTENDS Sessions, TLAPS

USE SessionsAssumption
USE DEF Goto, Ends

\* The invariant holds at first.
LEMMA SessionsInvInit == Init => SessionsInv
  BY DEF Init, SessionsInv, TypeOK, Token, Labels, LiveSessionHasCredential

\* A token that is valid after a step that moves no time and unrevokes nothing
\* was valid before it.
LEMMA ValidBefore ==
  ASSUME revoked \subseteq revoked', now' = now, NEW t \in Token, Valid(t)'
  PROVE  Valid(t)
  BY DEF Valid, Expired

\* As time passes tokens only expire.
LEMMA ValidBeforeTick ==
  ASSUME TypeOK, Tick, NEW t \in Token, Valid(t)'
  PROVE  Valid(t)
  BY DEF Valid, Expired, Tick, TypeOK, Token

\* Type correctness is kept by every step.
LEMMA TypeNext == TypeOK /\ [Next]_vars => TypeOK'
  <1> SUFFICES ASSUME TypeOK, [Next]_vars PROVE TypeOK'
    OBVIOUS
  <1> USE DEF TypeOK, Labels
  <1>1. ASSUME Tick PROVE TypeOK'
    BY <1>1 DEF Tick
  <1>2. ASSUME NEW h \in Handlers, NEW u \in Users, LoginAuthenticated(h, u)
        PROVE  TypeOK'
    BY <1>2 DEF LoginAuthenticated
  <1>3. ASSUME NEW h \in Handlers, LoginSign(h) PROVE TypeOK'
    <2>1. [user |-> token[h], iat |-> now] \in Token
      BY <1>3 DEF LoginSign, Token
    <2> QED
      BY <1>3, <2>1 DEF LoginSign
  <1>4. ASSUME NEW h \in Handlers, LoginValidate(h) PROVE TypeOK'
    BY <1>4 DEF LoginValidate
  <1>5. ASSUME NEW h \in Handlers, LoginStore(h) PROVE TypeOK'
    BY <1>5 DEF LoginStore
  <1>6. ASSUME NEW h \in Handlers, LoginReply(h) PROVE TypeOK'
    BY <1>6 DEF LoginReply
  <1>7. ASSUME NEW h \in Handlers, LoginFailed(h) PROVE TypeOK'
    BY <1>7 DEF LoginFailed
  <1>8. ASSUME NEW h \in Handlers, NEW t \in held, RequestAccepted(h, t)
        PROVE  TypeOK'
    BY <1>8 DEF RequestAccepted
  <1>9. ASSUME NEW h \in Handlers, LookupCredential(h) PROVE TypeOK'
    <2>1. token[h] \in Token /\ token[h].user \in Users
      BY <1>9 DEF LookupCredential, Token
    <2>2. bind' \in [Handlers -> Users \cup {None, "service"}]
      BY <1>9, <2>1 DEF LookupCredential
    <2>3. creds' \subseteq Token
      BY <1>9 DEF LookupCredential
    <2>4. pc' = [pc EXCEPT ![h] = "work"] \/ pc' = [pc EXCEPT ![h] = "revoke"]
      BY <1>9 DEF LookupCredential
    <2> QED
      BY <1>9, <2>1, <2>2, <2>3, <2>4 DEF LookupCredential
  <1>10. ASSUME NEW h \in Handlers, WorkReply(h) PROVE TypeOK'
    BY <1>10 DEF WorkReply
  <1>11. ASSUME NEW h \in Handlers, RevokeToken(h) PROVE TypeOK'
    BY <1>11 DEF RevokeToken
  <1>12. ASSUME NEW h \in Handlers, DeleteCredential(h) PROVE TypeOK'
    BY <1>12 DEF DeleteCredential
  <1>13. ASSUME NEW h \in Handlers, LogoutReply(h) PROVE TypeOK'
    BY <1>13 DEF LogoutReply
  <1>14. ASSUME Restart PROVE TypeOK'
    BY <1>14 DEF Restart
  <1>15. CASE UNCHANGED vars
    BY <1>15 DEF vars
  <1> QED
    BY <1>1, <1>2, <1>3, <1>4, <1>5, <1>6, <1>7, <1>8, <1>9, <1>10, <1>11,
       <1>12, <1>13, <1>14, <1>15
    DEF Next, LoginStep, RequestStep, LogoutStep
\* Every step keeps the invariant.
LEMMA SessionsInvNext == SessionsInv /\ [Next]_vars => SessionsInv'
  <1> SUFFICES ASSUME SessionsInv, [Next]_vars PROVE SessionsInv'
    OBVIOUS
  <1>0. TypeOK /\ TypeOK'
    BY TypeNext DEF SessionsInv
  <1> USE DEF SessionsInv, LiveSessionHasCredential
  <1>1. ASSUME Tick PROVE SessionsInv'
    BY <1>0, <1>1, ValidBeforeTick DEF Tick, TypeOK
  <1>2. ASSUME NEW h \in Handlers, NEW u \in Users, LoginAuthenticated(h, u)
        PROVE  SessionsInv'
    BY <1>0, <1>2, ValidBefore DEF LoginAuthenticated, TypeOK
  <1>3. ASSUME NEW h \in Handlers, LoginSign(h) PROVE SessionsInv'
    BY <1>0, <1>3, ValidBefore DEF LoginSign, TypeOK
  <1>4. ASSUME NEW h \in Handlers, LoginValidate(h) PROVE SessionsInv'
    BY <1>0, <1>4, ValidBefore DEF LoginValidate, TypeOK
  <1>5. ASSUME NEW h \in Handlers, LoginStore(h) PROVE SessionsInv'
    BY <1>0, <1>5, ValidBefore DEF LoginStore, TypeOK
  <1>6. ASSUME NEW h \in Handlers, LoginReply(h) PROVE SessionsInv'
    BY <1>0, <1>6, ValidBefore DEF LoginReply, TypeOK
  <1>7. ASSUME NEW h \in Handlers, LoginFailed(h) PROVE SessionsInv'
    BY <1>0, <1>7, ValidBefore DEF LoginFailed, TypeOK
  <1>8. ASSUME NEW h \in Handlers, NEW t \in held, RequestAccepted(h, t)
        PROVE  SessionsInv'
    BY <1>0, <1>8, ValidBefore DEF RequestAccepted, TypeOK
  <1>9. ASSUME NEW h \in Handlers, LookupCredential(h) PROVE SessionsInv'
    <2>1. \A t \in Token : Valid(t)' => Valid(t)
      BY <1>9, ValidBefore DEF LookupCredential
    <2>2. \A t \in Token : Valid(t) /\ t \in creds => t \in creds'
      BY <1>9 DEF LookupCredential, Valid
    <2>3. pc' = [pc EXCEPT ![h] = "work"] \/ pc' = [pc EXCEPT ![h] = "revoke"]
      BY <1>9 DEF LookupCredential
    <2> QED
      BY <1>0, <1>9, <2>1, <2>2, <2>3 DEF LookupCredential, TypeOK
  <1>10. ASSUME NEW h \in Handlers, WorkReply(h) PROVE SessionsInv'
    BY <1>0, <1>10, ValidBefore DEF WorkReply, TypeOK
  <1>11. ASSUME NEW h \in Handlers, RevokeToken(h) PROVE SessionsInv'
    BY <1>0, <1>11, ValidBefore DEF RevokeToken, TypeOK
  <1>12. ASSUME NEW h \in Handlers, DeleteCredential(h) PROVE SessionsInv'
    <2>1. \A t \in Token : Valid(t)' => Valid(t)
      BY <1>12, ValidBefore DEF DeleteCredential
    <2>2. token[h] \in revoked
      BY <1>12 DEF DeleteCredential
    <2>3. \A t \in Token : Valid(t) /\ t \in creds => t \in creds'
      BY <1>12, <2>2 DEF DeleteCredential, Valid
    <2> QED
      BY <1>0, <1>12, <2>1, <2>2, <2>3 DEF DeleteCredential, TypeOK
  <1>13. ASSUME NEW h \in Handlers, LogoutReply(h) PROVE SessionsInv'
    BY <1>0, <1>13, ValidBefore DEF LogoutReply, TypeOK
  <1>14. ASSUME Restart PROVE SessionsInv'
    BY <1>0, <1>14, ValidBefore DEF Restart, TypeOK
  <1>15. CASE UNCHANGED vars
    BY <1>0, <1>15 DEF vars, Valid, Expired
  <1> QED
    BY <1>1, <1>2, <1>3, <1>4, <1>5, <1>6, <1>7, <1>8,
       <1>9, <1>10, <1>11, <1>12, <1>13, <1>14, <1>15
    DEF Next, LoginStep, RequestStep, LogoutStep

\* Type correctness and the order of the steps of Login and Logout.
THEOREM SessionsInvariant == Spec => []SessionsInv
  BY SessionsInvInit, SessionsInvNext, PTL DEF Spec

\* Only its own end, or a restart, costs a session its credential.
THEOREM LiveSessionsKeepCredentials == Spec => []LiveSessionHasCredential
  <1>1. SessionsInv => LiveSessionHasCredential
    BY DEF SessionsInv
  <1> QED
    BY SessionsInvariant, <1>1, PTL

\* No request is accepted with a token whose logout was answered.
THEOREM LogoutsAreFinal == Spec => LogoutIsFinal
  <1>1. SessionsInv => (\A h \in Handlers, t \in held :
                           RequestAccepted(h, t) => t \notin loggedOut)
    BY DEF SessionsInv, RequestAccepted, Valid
  <1> QED
    BY SessionsInvariant, <1>1, PTL DEF LogoutIsFinal

\* A request goes on as the service account only if its session has ended, or is
\* older than the process.
THEOREM ServiceBindsHaveCause == Spec => ServiceBindHasCause
  <1>1. SessionsInv => (\A h \in Handlers :
           GoesOnAsService(h) => ~Valid(token[h]) \/ token[h] \notin current)
    <2> SUFFICES ASSUME SessionsInv, NEW h \in Handlers, GoesOnAsService(h),
                        Valid(token[h]), token[h] \in current
                 PROVE  FALSE
      OBVIOUS
    <2>1. token[h] \in creds /\ ~Expired(token[h])
      BY DEF SessionsInv, LiveSessionHasCredential, Valid, GoesOnAsService
    <2>2. bind'[h] = token[h].user
      BY <2>1 DEF SessionsInv, TypeOK, LookupCredential, GoesOnAsService
    <2>3. token[h].user \in Users
      BY DEF SessionsInv, TypeOK, LookupCredential, GoesOnAsService,
             Token
    <2> QED
      BY <2>2, <2>3, SessionsAssumption DEF SessionsAssumption, GoesOnAsService
  <1> QED
    BY SessionsInvariant, <1>1, PTL DEF ServiceBindHasCause
=============================================================================
