------------------------------ MODULE Sessions ------------------------------
(***************************************************************************)
(* Login sessions: the tokens of internal/auth, its deny-list and its      *)
(* cache of bind credentials, the Login and Logout handlers and the        *)
(* RequireAuth middleware in front of every other request.                 *)
(*                                                                         *)
(* A token is a string that signs the user and the second of the login, so *)
(* two logins of a user within a second return the same token (what the    *)
(* directory says of the user's DN and groups is taken to stay the same    *)
(* within that second).  The maps of the package are keyed by that string. *)
(* Requests that are refused, a wrong password or a 401, change nothing    *)
(* here and are left out.                                                  *)
(***************************************************************************)
EXTENDS Integers, FiniteSets

CONSTANTS
    Users,
    Handlers,    \* the goroutines that serve requests
    None,
    UserBind,    \* cfg.AD.UseUserBind
    TTL,         \* tokenExpiry, in seconds
    MaxTime,     \* bound: the last second of the run
    MaxRestarts  \* bound: restarts of the process

ASSUME SessionsAssumption ==
    /\ UserBind \in BOOLEAN
    /\ TTL \in Nat \ {0} /\ MaxTime \in Nat /\ MaxRestarts \in Nat
    /\ {None, "service"} \cap Users = {} /\ None \notin [user: Users, iat: Nat]

VARIABLES
    now,         \* the clock, in seconds
    revoked,     \* revokedTokens
    creds,       \* the keys of globalCredCache.items
    pc,          \* where each handler is
    token,       \* the token a request made or came with
    bind,        \* who a request binds as
    held,        \* the tokens clients were given
    current,     \* history: those among them given since the last restart
    loggedOut,   \* history: the tokens whose logout was answered since then
    restarts     \* history: restarts so far

vars == <<now, revoked, creds, pc, token, bind, held, current, loggedOut,
          restarts>>

Token == [user: Users, iat: Nat]

Labels == {"idle", "sign", "validate", "store", "loginReply", "failed",
           "lookup", "work", "revoke", "delete", "logoutReply"}

TypeOK ==
    /\ now \in Nat
    /\ revoked \subseteq Token
    /\ creds \subseteq Token
    /\ pc \in [Handlers -> Labels]
    /\ token \in [Handlers -> Token \cup Users \cup {None}]
    /\ \A h \in Handlers : pc[h] = "sign" => token[h] \in Users
    /\ \A h \in Handlers : pc[h] \notin {"sign", "idle", "failed"} =>
           token[h] \in Token
    /\ bind \in [Handlers -> Users \cup {None, "service"}]
    /\ held \subseteq Token /\ current \subseteq Token
    /\ loggedOut \subseteq Token
    /\ restarts \in Nat

Init ==
    /\ now = 0
    /\ revoked = {} /\ creds = {}
    /\ pc = [h \in Handlers |-> "idle"]
    /\ token = [h \in Handlers |-> None]
    /\ bind = [h \in Handlers |-> None]
    /\ held = {} /\ current = {} /\ loggedOut = {}
    /\ restarts = 0

\* exp is a whole second, and any instant of it is past it.
Expired(t) == now >= t.iat + TTL

Valid(t) == t \notin revoked /\ ~Expired(t)

Goto(h, label) == pc' = [pc EXCEPT ![h] = label]

Ends(h) ==
    /\ Goto(h, "idle")
    /\ token' = [token EXCEPT ![h] = None]
    /\ bind' = [bind EXCEPT ![h] = None]

\* Time passes.  A login is over long before its token expires.
Tick ==
    /\ now < MaxTime
    /\ \A h \in Handlers : pc[h] \in {"validate", "store", "loginReply"} =>
           now + 1 < token[h].iat + TTL
    /\ now' = now + 1
    /\ UNCHANGED <<revoked, creds, pc, token, bind, held, current, loggedOut,
                   restarts>>

-----------------------------------------------------------------------------
(* Login *)

\* AuthenticateAD says yes.
LoginAuthenticated(h, u) ==
    /\ pc[h] = "idle"
    /\ token' = [token EXCEPT ![h] = u]
    /\ Goto(h, "sign")
    /\ UNCHANGED <<now, revoked, creds, bind, held, current, loggedOut,
                   restarts>>

\* GenerateJWT
LoginSign(h) ==
    /\ pc[h] = "sign"
    /\ token' = [token EXCEPT ![h] = [user |-> token[h], iat |-> now]]
    /\ Goto(h, "validate")
    /\ UNCHANGED <<now, revoked, creds, bind, held, current, loggedOut,
                   restarts>>

\* Mutant: the credential is not stored.
LoginValidateOnly(h) ==
    /\ pc[h] = "validate"
    /\ Goto(h, IF Valid(token[h]) THEN "loginReply" ELSE "failed")
    /\ UNCHANGED <<now, revoked, creds, token, bind, held, current, loggedOut,
                   restarts>>

\* The error of ValidateJWT is dropped, but without claims the handler
\* panics, and gin's recovery answers 500.
LoginValidate(h) ==
    /\ pc[h] = "validate"
    /\ Goto(h, IF Valid(token[h]) THEN "store" ELSE "failed")
    /\ UNCHANGED <<now, revoked, creds, token, bind, held, current, loggedOut,
                   restarts>>

\* Mutant: a login takes the token it hands out off the deny-list.
LoginStoreRevives(h) ==
    /\ pc[h] = "store"
    /\ creds' = IF UserBind THEN creds \cup {token[h]} ELSE creds
    /\ revoked' = revoked \ {token[h]}
    /\ Goto(h, "loginReply")
    /\ UNCHANGED <<now, token, bind, held, current, loggedOut, restarts>>

LoginStore(h) ==
    /\ pc[h] = "store"
    /\ creds' = IF UserBind THEN creds \cup {token[h]} ELSE creds
    /\ Goto(h, "loginReply")
    /\ UNCHANGED <<now, revoked, token, bind, held, current, loggedOut,
                   restarts>>

LoginReply(h) ==
    /\ pc[h] = "loginReply"
    /\ held' = held \cup {token[h]}
    /\ current' = current \cup {token[h]}
    /\ Ends(h)
    /\ UNCHANGED <<now, revoked, creds, loggedOut, restarts>>

LoginFailed(h) ==
    /\ pc[h] = "failed"
    /\ Ends(h)
    /\ UNCHANGED <<now, revoked, creds, held, current, loggedOut, restarts>>

-----------------------------------------------------------------------------
(* RequireAuth *)

RequestAccepted(h, t) ==
    /\ pc[h] = "idle"
    /\ t \in held
    /\ Valid(t)
    /\ token' = [token EXCEPT ![h] = t]
    /\ Goto(h, "lookup")
    /\ UNCHANGED <<now, revoked, creds, bind, held, current, loggedOut,
                   restarts>>

\* LookupCredential drops an expired entry it meets.  The request goes on as
\* the user when there is a credential, and as the service account otherwise:
\* to work in the directory, or to log out.
LookupCredential(h) ==
    LET t == token[h] IN
    /\ pc[h] = "lookup"
    /\ bind' = [bind EXCEPT ![h] = IF UserBind /\ t \in creds /\ ~Expired(t)
                                   THEN t.user ELSE "service"]
    /\ creds' = IF UserBind /\ Expired(t) THEN creds \ {t} ELSE creds
    /\ \E label \in {"work", "revoke"} : Goto(h, label)
    /\ UNCHANGED <<now, revoked, token, held, current, loggedOut, restarts>>

\* A request that works in the directory is answered.
WorkReply(h) ==
    /\ pc[h] = "work"
    /\ Ends(h)
    /\ UNCHANGED <<now, revoked, creds, held, current, loggedOut, restarts>>

-----------------------------------------------------------------------------
(* Logout *)

\* Mutant: the credential is deleted first and the token revoked after it.
RevokeTokenLast(h) ==
    /\ pc[h] = "revoke"
    /\ creds' = IF UserBind THEN creds \ {token[h]} ELSE creds
    /\ Goto(h, "delete")
    /\ UNCHANGED <<now, revoked, token, bind, held, current, loggedOut,
                   restarts>>

RevokeToken(h) ==
    /\ pc[h] = "revoke"
    /\ revoked' = revoked \cup {token[h]}
    /\ Goto(h, "delete")
    /\ UNCHANGED <<now, creds, token, bind, held, current, loggedOut, restarts>>

\* Mutant: a logout deletes every credential of its user.
DeleteCredentialsOfUser(h) ==
    /\ pc[h] = "delete"
    /\ creds' = IF UserBind THEN {t \in creds : t.user # token[h].user} ELSE creds
    /\ Goto(h, "logoutReply")
    /\ UNCHANGED <<now, revoked, token, bind, held, current, loggedOut,
                   restarts>>

DeleteCredential(h) ==
    /\ pc[h] = "delete"
    /\ creds' = IF UserBind THEN creds \ {token[h]} ELSE creds
    /\ Goto(h, "logoutReply")
    /\ UNCHANGED <<now, revoked, token, bind, held, current, loggedOut,
                   restarts>>

LogoutReply(h) ==
    /\ pc[h] = "logoutReply"
    /\ loggedOut' = loggedOut \cup {token[h]}
    /\ Ends(h)
    /\ UNCHANGED <<now, revoked, creds, held, current, restarts>>

-----------------------------------------------------------------------------
\* Both maps live in the process, the tokens do not.
Restart ==
    /\ restarts < MaxRestarts
    /\ restarts' = restarts + 1
    /\ revoked' = {} /\ creds' = {}
    /\ pc' = [h \in Handlers |-> "idle"]
    /\ token' = [h \in Handlers |-> None]
    /\ bind' = [h \in Handlers |-> None]
    /\ current' = {} /\ loggedOut' = {}
    /\ UNCHANGED <<now, held>>

LoginStep(h) ==
    \/ \E u \in Users : LoginAuthenticated(h, u)
    \/ LoginSign(h) \/ LoginValidate(h) \/ LoginStore(h) \/ LoginReply(h)
    \/ LoginFailed(h)

RequestStep(h) ==
    \/ \E t \in held : RequestAccepted(h, t)
    \/ LookupCredential(h) \/ WorkReply(h)

LogoutStep(h) == RevokeToken(h) \/ DeleteCredential(h) \/ LogoutReply(h)

Next ==
    \/ Tick
    \/ \E h \in Handlers : LoginStep(h) \/ RequestStep(h) \/ LogoutStep(h)
    \/ Restart

Spec == Init /\ [][Next]_vars

-----------------------------------------------------------------------------
(* Properties *)

\* "Subsequent calls to ValidateJWT with the same token return an error"
\* (jwt.go:35): once a logout is answered its token opens nothing, not even
\* when a login of the same second signs it again.  This is of one life of the
\* process: the deny-list is lost with it.
LogoutIsFinal ==
    [][\A h \in Handlers, t \in held :
          RequestAccepted(h, t) => t \notin loggedOut]_vars

\* A session that is neither logged out nor expired has its credential: only
\* its own end, or a restart, can cost a session its bind.  (Login stores it
\* before it replies, Logout deletes it after it revoked the token)
LiveSessionHasCredential ==
    UserBind => \A t \in current : Valid(t) => t \in creds

\* What the two properties rest on: Logout revokes the token before it deletes
\* the credential and before it replies, and Login stores the credential before
\* it replies.
SessionsInv ==
    /\ TypeOK
    /\ loggedOut \subseteq revoked
    /\ \A h \in Handlers : pc[h] \in {"delete", "logoutReply"} =>
           token[h] \in revoked
    /\ UserBind => \A h \in Handlers :
           pc[h] = "loginReply" /\ Valid(token[h]) => token[h] \in creds
    /\ LiveSessionHasCredential

\* "safe: we just generated it" (auth_handler.go:67): a login the directory
\* accepted gets claims.
NewTokenIsValid == \A h \in Handlers : pc[h] # "failed"

GoesOnAsService(h) == UserBind /\ LookupCredential(h) /\ bind'[h] = "service"

\* "every authenticated web request binds to AD using the logged-in user's own
\* credentials" (README.md:185): a request goes on as the service account only
\* if its session has ended since it was accepted, or dates from before a
\* restart (middleware/auth.go:48).
ServiceBindHasCause ==
    [][\A h \in Handlers :
          GoesOnAsService(h) => ~Valid(token[h]) \/ token[h] \notin current]_vars
=============================================================================
