--------------------------- MODULE BrowserSession ---------------------------
(***************************************************************************)
(* The session a browser keeps: AuthContext, the axios interceptors, the   *)
(* login page and ProtectedRoute, in one tab.  The other tabs share its    *)
(* localStorage, and the server may stop to accept a token at any time.    *)
(* And what the pages offer on the strength of /me/perms, against what the *)
(* router's middleware lets through.                                       *)
(*                                                                         *)
(* A token is the number of its login.  user and perms are always set and  *)
(* reset together, by the answers to two requests sent together: profile is *)
(* the user both were answered for.  A state change is shown at once; the  *)
(* effect of a new token runs later, and only if the token is still new.   *)
(***************************************************************************)
EXTENDS Integers, FiniteSets

CONSTANTS
    Users,
    None,
    Groups,      \* Groups[u]: the group DNs in u's claims
    Configs,     \* settings: AdminGroupDN, EditorGroupDN, IntegrityEnabled
    MaxLogins,   \* bound: tokens issued; no form is sent once they are used up
    MaxSubmits,  \* bound: logins of one user under way when the form is sent
    MaxRequests  \* bound: requests a page has under way when it makes another

Roles == {"admin", "editor"}
DN == [cn: STRING, ou: STRING]
Bare(name) == [bare |-> name]   \* a configured name that is not a DN
Empty == Bare("")                \* no group configured

ASSUME BrowserAssumption ==
    /\ {MaxLogins, MaxSubmits, MaxRequests} \subseteq Nat
    /\ None \notin Users \cup Nat \cup Roles /\ Users \cap Nat = {}
    /\ \A u \in Users : \A g \in Groups[u] : g \in DN
    /\ \A c \in Configs :
          DOMAIN c = Roles \cup {"checker"} /\ c.checker \in BOOLEAN

VARIABLES
    stored,      \* localStorage 'token'
    live,        \* the tokens the server accepts
    owner,       \* owner[k]: the user of token k
    token,       \* AuthContext
    profile,     \* AuthContext: user and perms
    loading,     \* AuthContext: isLoading
    mounted,     \* the first effect of the page has run
    rendered,    \* the token of the last effect
    path,        \* window.location
    leaving,     \* location.href has been assigned
    posts,       \* posts[u]: the POSTs of /auth/login for u under way
    form,        \* the login form that is shown waits for the POST of this
                 \* user, or for the profile of this token
    loads,       \* the profile requests under way
    calls,       \* the tokens of the pages' requests under way
    logouts,     \* the tokens of the logouts under way
    late,        \* history: the last profile came for another token
    elsewhere    \* history: tokens that other tabs stored since the page
                 \* was loaded

server == <<live, owner>>
context == <<token, profile, loading, late>>
location == <<path, leaving>>
effects == <<mounted, rendered>>
signIn == <<posts, form>>
requests == <<signIn, loads, calls, logouts>>
vars == <<stored, server, context, location, effects, requests, elsewhere>>

Token == 1..MaxLogins

\* The server issues tokens in order.
Issued == {k \in Token : owner[k] # None}
IsNext(k) == owner[k] = None /\ \A j \in 1..(k - 1) : owner[j] # None

\* A profile request: me and perms.  "of" is the token the page had when it was
\* sent, "tok" the one the interceptor put on it, "ok" whether the server
\* accepted it then.
Load == [kind: {"effect", "login"}, of: Token, tok: Token \cup {None},
         ok: BOOLEAN]

TypeOK ==
    /\ stored \in Token \cup {None}
    /\ live \in SUBSET Token /\ owner \in [Token -> Users \cup {None}]
    /\ token \in Token \cup {None} /\ profile \in Users \cup {None}
    /\ loading \in BOOLEAN /\ late \in BOOLEAN
    /\ mounted \in BOOLEAN /\ rendered \in Token \cup {None}
    /\ path \in {"login", "page"} /\ leaving \in BOOLEAN
    /\ posts \in [Users -> Nat]
    /\ form \in Users \cup Token \cup {None}
    /\ loads \in SUBSET Load
    /\ calls \in SUBSET (Token \cup {None})
    /\ logouts \in SUBSET (Token \cup {None})
    /\ elsewhere \in SUBSET Token

-----------------------------------------------------------------------------
(* Groups.  memberOf gives full DNs; the configured name may be a bare CN.   *)

\* "" when the text has no cn= part: a bare name has none.
ExtractCN(name) == IF name \in DN THEN name.cn ELSE ""

\* Mutant: no group configured means nobody.
GroupMatchesStrict(groups, name) ==
    \E g \in groups : g = name \/ (name # Empty /\ ExtractCN(g) = ExtractCN(name))

GroupMatches(groups, name) ==
    \/ name = Empty
    \/ \E g \in groups : \/ g = name
                         \/ ExtractCN(name) # "" /\ ExtractCN(g) = ExtractCN(name)

UserInGroup(groups, name) == \E g \in groups : g = name \/ Bare(g.cn) = name

RequireGroup(groups, name) == name = Empty \/ UserInGroup(groups, name)

\* What the pages can ask for (services/api.ts).
Operations == {"list", "validate", "update", "apply", "logs", "integrity"}

\* The group of routes an operation is registered in.
RouteRole(op) == CASE op \in {"update", "apply"} -> "editor"
                   [] op \in {"logs", "integrity"} -> "admin"
                   [] OTHER -> None

\* The routes of the integrity checker are there only with a checker.
Registered(op, config) == op = "integrity" => config.checker

\* What the pages show a user with these permissions: the Sidebar's items, the
\* cells of EmployeesPage that can be edited, the Apply button of MarkdownPage.
ShowsItem(perms, op) == op \in {"logs", "integrity"} => "admin" \in perms
CanEdit(perms, op) == op = "update" => "editor" \in perms
ShowsApply(perms, op) == op = "apply" => "editor" \in perms

Offers(perms, op) ==
    ShowsItem(perms, op) /\ CanEdit(perms, op) /\ ShowsApply(perms, op)

Perms(u, config) ==
    IF u = None THEN {}
    ELSE {r \in Roles : GroupMatches(Groups[u], config[r])}

Serves(u, config, op) ==
    /\ Registered(op, config)
    /\ \/ RouteRole(op) = None
       \/ RequireGroup(Groups[u], config[RouteRole(op)])

-----------------------------------------------------------------------------
Init ==
    /\ stored = None /\ live = {} /\ owner = [k \in Token |-> None]
    /\ token = None /\ profile = None /\ loading = TRUE /\ late = FALSE
    /\ mounted = FALSE /\ rendered = None
    /\ path = "page" /\ leaving = FALSE
    /\ posts = [u \in Users |-> 0] /\ form = None
    /\ loads = {} /\ calls = {} /\ logouts = {}
    /\ elsewhere = {}

\* Where ProtectedRoute shows neither a spinner nor a redirect.
Shown == path = "page" /\ ~loading /\ token # None

\* A page that is loaded begins with the token that is stored.
LoadPage(to) ==
    /\ token' = stored /\ profile' = None /\ loading' = TRUE /\ late' = FALSE
    /\ mounted' = FALSE /\ rendered' = None
    /\ path' = to /\ leaving' = FALSE
    /\ posts' = [u \in Users |-> 0] /\ form' = None
    /\ loads' = {} /\ calls' = {} /\ logouts' = {}
    /\ elsewhere' = {}

\* The user loads a page: an address, a reload.
Open(to) ==
    /\ LoadPage(to)
    /\ UNCHANGED <<stored, server>>

\* The navigation the interceptor has begun replaces the page.
Unload ==
    /\ leaving
    /\ LoadPage("login")
    /\ UNCHANGED <<stored, server>>

EffectLoads ==
    IF token = None THEN {}
    ELSE {[kind |-> "effect", of |-> token, tok |-> stored,
           ok |-> stored \in live]}

EffectDue == ~mounted \/ rendered # token

\* Mutant: without a token the effect just returns.
EffectReturns ==
    /\ EffectDue
    /\ mounted' = TRUE /\ rendered' = token
    /\ loads' = loads \cup EffectLoads
    /\ UNCHANGED <<stored, server, context, location, signIn, calls, logouts,
                   elsewhere>>

\* useEffect(..., [token])
Effect ==
    /\ EffectDue
    /\ mounted' = TRUE /\ rendered' = token
    /\ loading' = (loading /\ token # None)
    /\ loads' = loads \cup EffectLoads
    /\ UNCHANGED <<stored, server, token, profile, late, location, signIn,
                   calls, logouts, elsewhere>>

\* <Navigate to="/login">
Redirect ==
    /\ path = "page" /\ ~loading /\ token = None
    /\ path' = "login"
    /\ UNCHANGED <<stored, server, context, leaving, effects, requests, elsewhere>>

\* The browser's Back and Forward, within the document.  A login form that is
\* left forgets what it waits for; what it has sent goes on.
GoBack ==
    /\ path' = IF path = "page" THEN "login" ELSE "page"
    /\ form' = None
    /\ UNCHANGED <<stored, server, context, leaving, effects, posts, loads,
                   calls, logouts, elsewhere>>

-----------------------------------------------------------------------------
(* An answer is taken in one turn: the interceptor, and what awaits it.      *)

\* Any request may fail, but a 401 is for a token the server does not accept.
FailsAs(k, is401) == is401 => k \notin live

\* The interceptor leaves the page after a 401, but for the login page.
Leave(is401) == leaving' = (leaving \/ (is401 /\ path # "login"))

\* setUser and setPerms
Apply(r) ==
    /\ r \in loads /\ r.ok
    /\ loads' = loads \ {r}
    /\ profile' = owner[r.tok]
    /\ late' = (r.tok # token)
    /\ UNCHANGED <<stored, server, token, leaving, effects, posts, calls,
                   logouts, elsewhere>>

\* The first of the two requests to fail ends the load; the other may still be
\* on its way.
Fail(r, is401) ==
    /\ r \in loads /\ FailsAs(r.tok, is401)
    /\ loads' = loads \ {r}
    /\ calls' \in {calls, calls \cup {r.tok}}
    /\ Leave(is401)
    /\ stored' = None
    /\ UNCHANGED <<server, path, effects, posts, logouts, elsewhere>>

\* Mutant: only the catch block ends the spinner.
LoadSucceedsTurning(r) == r.kind = "effect" /\ Apply(r)
                          /\ UNCHANGED <<loading, path, form>>

LoadSucceeds(r) == r.kind = "effect" /\ Apply(r) /\ loading' = FALSE
                   /\ UNCHANGED <<path, form>>

\* Mutant: the catch block leaves the page its token.
LoadFailsKeeping(r, is401) ==
    /\ r.kind = "effect" /\ Fail(r, is401)
    /\ profile' = None /\ late' = FALSE /\ loading' = FALSE
    /\ UNCHANGED <<token, form>>

LoadFails(r, is401) ==
    /\ r.kind = "effect" /\ Fail(r, is401)
    /\ token' = None /\ profile' = None /\ late' = FALSE /\ loading' = FALSE
    /\ UNCHANGED form

-----------------------------------------------------------------------------
(* The login page *)

\* The button is disabled while the form waits for what it has sent.
Submit(u) ==
    /\ path = "login" /\ form = None
    /\ posts[u] < MaxSubmits /\ Issued # Token
    /\ posts' = [posts EXCEPT ![u] = @ + 1]
    /\ form' = u
    /\ UNCHANGED <<stored, server, context, location, effects, loads, calls,
                   logouts, elsewhere>>

\* A POST for u is answered.  If the form waits for it, it goes on to "next";
\* it may also have been sent by a form that is gone.
PostAnswered(u, next) ==
    /\ posts[u] > 0
    /\ posts' = [posts EXCEPT ![u] = @ - 1]
    /\ \/ form = u /\ form' = next
       \/ (form = u => posts[u] > 1) /\ form' = form

\* A wrong password is a 401 as well.
SubmitFails(u, is401) ==
    /\ PostAnswered(u, None)
    /\ stored' = IF is401 THEN None ELSE stored
    /\ Leave(is401)
    /\ UNCHANGED <<server, context, path, effects, loads, calls, logouts,
                   elsewhere>>

\* The server issues token k to u, and login(newToken) sends for the profile.
Issue(k, u) ==
    /\ PostAnswered(u, k)
    /\ IsNext(k)
    /\ owner' = [owner EXCEPT ![k] = u]
    /\ live' = live \cup {k}
    /\ loads' = loads \cup {[kind |-> "login", of |-> k, tok |-> k, ok |-> TRUE]}
    /\ UNCHANGED <<profile, loading, late, location, effects, calls, logouts,
                   elsewhere>>

\* Mutant: setToken only once the profile is there.
LoggedInUnset(k, u) == Issue(k, u) /\ stored' = k /\ UNCHANGED token

\* login(newToken), up to its await
LoggedIn(k, u) == Issue(k, u) /\ stored' = k /\ token' = k

\* navigate('/employees'), which works from a form that is gone as well.
LoginSucceeds(r) ==
    /\ r.kind = "login" /\ Apply(r)
    /\ path' = "page" /\ form' = None
    /\ UNCHANGED loading

\* user and perms stay as they are.
LoginFails(r, is401) ==
    /\ r.kind = "login" /\ Fail(r, is401)
    /\ token' = None
    /\ form' = IF form = r.tok THEN None ELSE form
    /\ UNCHANGED <<profile, loading, late>>

-----------------------------------------------------------------------------
(* Pages *)

UnderWay == Cardinality(loads) + Cardinality(calls) + Cardinality(logouts)

\* A request of a page, with the token that is stored by now.
Call ==
    /\ Shown /\ UnderWay < MaxRequests
    /\ calls' = calls \cup {stored}
    /\ UNCHANGED <<stored, server, context, location, effects, signIn, loads,
                   logouts, elsewhere>>

\* A result, a 403, any answer but a 401.
CallAnswered(k) ==
    /\ k \in calls /\ k # None
    /\ calls' = calls \ {k}
    /\ UNCHANGED <<stored, server, context, location, effects, signIn, loads,
                   logouts, elsewhere>>

CallUnauthorized(k) ==
    /\ k \in calls /\ k \notin live
    /\ calls' = calls \ {k}
    /\ Leave(TRUE)
    /\ stored' = None
    /\ UNCHANGED <<server, context, path, effects, signIn, loads, logouts,
                   elsewhere>>

Logout ==
    /\ Shown /\ UnderWay < MaxRequests
    /\ logouts' = logouts \cup {stored}
    /\ UNCHANGED <<stored, server, context, location, effects, signIn, loads,
                   calls, elsewhere>>

\* Whatever the answer says, and whether or not the server has revoked the
\* token, the session ends locally: the one there is by now.
LogoutEnds(k, is401) ==
    /\ k \in logouts /\ FailsAs(k, is401)
    /\ logouts' = logouts \ {k}
    /\ live' \in {live, live \ {k}}
    /\ Leave(is401)
    /\ stored' = None
    /\ token' = None /\ profile' = None /\ late' = FALSE
    /\ UNCHANGED <<owner, loading, path, effects, signIn, loads, calls, elsewhere>>

-----------------------------------------------------------------------------
(* What goes on elsewhere *)

page == <<context, location, effects, requests>>

\* The token expires, or the server revokes it or restarts.
TokenDies(k) ==
    /\ k \in live
    /\ live' = live \ {k}
    /\ UNCHANGED <<stored, owner, page, elsewhere>>

OtherTabLogsIn(k, u) ==
    /\ IsNext(k)
    /\ owner' = [owner EXCEPT ![k] = u]
    /\ live' = live \cup {k}
    /\ stored' = k
    /\ elsewhere' = elsewhere \cup {k}
    /\ UNCHANGED page

OtherTabLogsOut ==
    /\ stored # None
    /\ stored' = None
    /\ UNCHANGED <<server, page, elsewhere>>

-----------------------------------------------------------------------------
LoadAnswered ==
    \E r \in loads :
        \/ LoadSucceeds(r) \/ LoginSucceeds(r)
        \/ \E is401 \in BOOLEAN : LoadFails(r, is401) \/ LoginFails(r, is401)

LoginStep ==
    \E u \in Users :
        \/ Submit(u)
        \/ \E is401 \in BOOLEAN : SubmitFails(u, is401)
        \/ \E k \in Token : LoggedIn(k, u)

PageStep ==
    \/ Call \/ \E k \in calls : CallAnswered(k) \/ CallUnauthorized(k)
    \/ Logout
    \/ \E k \in logouts, is401 \in BOOLEAN : LogoutEnds(k, is401)

Elsewhere ==
    \/ \E k \in Token : TokenDies(k) \/ \E u \in Users : OtherTabLogsIn(k, u)
    \/ OtherTabLogsOut

Next ==
    \/ \E to \in {"login", "page"} : Open(to)
    \/ Unload \/ Effect \/ Redirect \/ GoBack
    \/ LoadAnswered \/ LoginStep \/ PageStep \/ Elsewhere

Spec == Init /\ [][Next]_vars

\* A browser runs an effect that is due, and answers every request, in the end
\* with a network error.
FairSpec == Spec /\ WF_vars(Effect) /\ WF_vars(LoadAnswered)

-----------------------------------------------------------------------------
(* Properties *)

\* What is kept and sent are tokens that were issued.
TokensAreIssued ==
    /\ live \subseteq Issued
    /\ {stored, token, rendered} \subseteq Issued \cup {None}
    /\ \A r \in loads : r.ok => r.tok \in Issued

\* Behind a spinner there is an effect due or a profile request that ends it.
SpinnerHasCause ==
    loading => ~mounted \/ \E r \in loads : r.kind = "effect"

\* The request that the token's effect has sent is under way, or the page shows
\* the token's user, or one that came later.
EffectWasAnswered ==
    token # None /\ ~EffectDue =>
        \/ \E r \in loads : r.kind = "effect" /\ r.of = token
        \/ late \/ profile = owner[token]

\* The stored token is the page's own, or another tab has put it there.
StoredIsOfPage == stored \in {None, token} \cup elsewhere

BrowserInv ==
    /\ TypeOK /\ TokensAreIssued /\ SpinnerHasCause /\ EffectWasAnswered
    /\ StoredIsOfPage

\* The page is not waiting for a profile.
Settled == loads = {} /\ ~EffectDue

\* Once a page has settled it shows the user of its token, unless the last
\* profile it was given answers a request with another token: of an earlier
\* session, or of another tab (AuthContext.tsx:24, :51).
ProfileIsOfToken ==
    Shown /\ Settled /\ ~late => profile = owner[token]

\* Whatever late answers, failed profiles and slow logouts take from the
\* storage, the requests of a settled page act for the user it shows, for nobody,
\* or for the login of another tab (api.ts:16).  The profile may be late, as above.
RequestsActForShownUser ==
    Shown /\ Settled /\ ~late /\ stored \notin elsewhere \cup {None} =>
        owner[stored] = profile

\* u is in another group with the name of the configured one.
SameNameElsewhere(u, name) ==
    name \in DN /\ \E g \in Groups[u] : g # name /\ g.cn = name.cn

IsBareName(name) == name \notin DN /\ name # Empty

\* A settled page offers what the server serves its user, but in three cases.
\* /me/perms (router.go:199) and RequireGroup (rbac.go:33) read the configured
\* group differently: /me/perms never matches a bare name, and RequireGroup does
\* not accept a group of the same name elsewhere.  And an admin is offered the
\* integrity report (Sidebar.tsx:15) though the server has no checker
\* (router.go:158).
OffersAreServed ==
    Shown /\ Settled /\ ~late =>
        \A config \in Configs, op \in Operations :
            LET offered == Offers(Perms(profile, config), op)
                u == owner[token]
                served == Serves(u, config, op)
            IN  /\ offered /\ ~served =>
                       \/ SameNameElsewhere(u, config[RouteRole(op)])
                       \/ op = "integrity" /\ ~config.checker
                /\ served /\ ~offered => IsBareName(config[RouteRole(op)])

\* The spinner ends, and a page or the login is shown, unless the user reloads
\* without end: no order of effects and answers leaves it turning.
\* (AuthContext.tsx:34, :39)
Reloads == \E to \in {"login", "page"} : Open(to)

SpinnerEnds == []<><<Reloads>>_vars \/ (loading ~> ~loading)
=============================================================================
