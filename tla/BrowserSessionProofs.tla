------------------------ MODULE BrowserSessionProofs ------------------------
(***************************************************************************)
(* Theorems about BrowserSession: the inductive invariant, that a settled  *)
(* page shows the user of its token and that its requests act for no other *)
(* user, and that what a page offers is served.                            *)
(***************************************************************************)
EXTENDS BrowserSession, TLAPS

LEMMA NoneIsNoToken == None \notin Token /\ None \notin Users
  BY BrowserAssumption DEF BrowserAssumption, Token

LEMMA BrowserInit == Init => BrowserInv
  <1> SUFFICES ASSUME Init PROVE BrowserInv
    OBVIOUS
  <1>1. TypeOK
    BY DEF Init, TypeOK
  <1>2. TokensAreIssued /\ SpinnerHasCause /\ EffectWasAnswered /\ StoredIsOfPage
    BY DEF Init, TokensAreIssued, SpinnerHasCause, EffectWasAnswered,
           StoredIsOfPage
  <1> QED
    BY <1>1, <1>2 DEF BrowserInv

\* A page that is loaded anew satisfies the invariant whatever was before.
LEMMA LoadedAnew ==
  ASSUME BrowserInv, NEW to \in {"login", "page"}, LoadPage(to),
         UNCHANGED <<stored, server>>
  PROVE  BrowserInv'
  <1> USE DEF LoadPage, server
  <1>1. TypeOK'
    BY DEF BrowserInv, TypeOK
  <1>2. TokensAreIssued'
    BY DEF BrowserInv, TokensAreIssued, Issued
  <1>3. SpinnerHasCause' /\ EffectWasAnswered' /\ StoredIsOfPage'
    BY DEF SpinnerHasCause, EffectWasAnswered, EffectDue, StoredIsOfPage
  <1> QED
    BY <1>1, <1>2, <1>3 DEF BrowserInv

LEMMA EffectKeeps == ASSUME BrowserInv, Effect PROVE BrowserInv'
  <1> USE DEF Effect, server, location, signIn
  <1>1. /\ EffectLoads \subseteq Load
        /\ \A r \in EffectLoads : r.ok => r.tok \in Issued
    <2> DEFINE load(b) == [kind |-> "effect", of |-> token, tok |-> stored, ok |-> b]
    <2>1. PICK b \in BOOLEAN : b <=> stored \in live
      OBVIOUS
    <2>2. b = (stored \in live)
      BY <2>1
    <2>3. EffectLoads = IF token = None THEN {} ELSE {load(b)}
      BY <2>2, Zenon DEF EffectLoads
    <2>4. token # None => load(b) \in Load /\ (load(b).ok => load(b).tok \in Issued)
      BY <2>1 DEF BrowserInv, TypeOK, TokensAreIssued, Load
    <2> HIDE DEF load
    <2> QED
      BY <2>3, <2>4
  <1>2. TypeOK'
    BY <1>1 DEF BrowserInv, TypeOK
  <1>3. TokensAreIssued'
    BY <1>1 DEF BrowserInv, TokensAreIssued, Issued
  <1>4. token # None =>
          \E r \in EffectLoads : r.kind = "effect" /\ r.of = token
    BY DEF EffectLoads
  <1>5. SpinnerHasCause' /\ EffectWasAnswered'
    BY <1>4 DEF SpinnerHasCause, EffectWasAnswered
  <1>6. StoredIsOfPage'
    BY DEF BrowserInv, StoredIsOfPage
  <1> QED
    BY <1>2, <1>3, <1>5, <1>6 DEF BrowserInv

\* An answered profile: of the effect, or of a login.
LEMMA ApplyKeeps ==
  ASSUME BrowserInv, NEW r, Apply(r), path' \in {"login", "page"},
         form' \in {form, None},
         \/ r.kind = "effect" /\ loading' = FALSE
         \/ r.kind = "login" /\ UNCHANGED loading
  PROVE  BrowserInv'
  <1> USE DEF Apply, server, effects
  <1>1. r \in Load /\ owner[r.tok] \in Users \cup {None}
    BY DEF BrowserInv, TypeOK, TokensAreIssued, Issued
  <1>2. TypeOK'
    BY <1>1 DEF BrowserInv, TypeOK
  <1>3. TokensAreIssued'
    BY DEF BrowserInv, TokensAreIssued, Issued
  <1>4. SpinnerHasCause'
    BY DEF BrowserInv, SpinnerHasCause
  <1>5. EffectWasAnswered'
    BY DEF BrowserInv, EffectWasAnswered, EffectDue
  <1>6. StoredIsOfPage'
    BY DEF BrowserInv, StoredIsOfPage
  <1> QED
    BY <1>2, <1>3, <1>4, <1>5, <1>6 DEF BrowserInv

\* A failed profile leaves the page without a token.
LEMMA FailKeeps ==
  ASSUME BrowserInv, NEW r, NEW is401 \in BOOLEAN, Fail(r, is401), token' = None,
         form' \in {form, None},
         \/ /\ r.kind = "effect"
            /\ profile' = None /\ late' = FALSE /\ loading' = FALSE
         \/ r.kind = "login" /\ UNCHANGED <<profile, loading, late>>
  PROVE  BrowserInv'
  <1> USE DEF Fail, server, effects
  <1>1. r \in Load
    BY DEF BrowserInv, TypeOK
  <1>2. TypeOK'
    <2>1. r.tok \in Token \cup {None}
      BY <1>1 DEF Load
    <2>2. leaving' \in BOOLEAN
      BY DEF Leave, BrowserInv, TypeOK
    <2> QED
      BY <2>1, <2>2 DEF BrowserInv, TypeOK
  <1>3. TokensAreIssued'
    BY DEF BrowserInv, TokensAreIssued, Issued
  <1>4. SpinnerHasCause' /\ EffectWasAnswered' /\ StoredIsOfPage'
    BY DEF BrowserInv, SpinnerHasCause, EffectWasAnswered, StoredIsOfPage
  <1> QED
    BY <1>2, <1>3, <1>4 DEF BrowserInv

\* The answer to a POST takes the form on, if it is the form's.
LEMMA PostAnsweredTyped ==
  ASSUME TypeOK, NEW u \in Users, NEW next \in Token \cup {None},
         PostAnswered(u, next)
  PROVE  posts' \in [Users -> Nat] /\ form' \in Users \cup Token \cup {None}
  BY DEF TypeOK, PostAnswered

LEMMA LoggedInKeeps ==
  ASSUME BrowserInv, NEW k \in Token, NEW u \in Users, LoggedIn(k, u)
  PROVE  BrowserInv'
  <1> USE DEF LoggedIn, Issue, location, effects
  <1> DEFINE new == [kind |-> "login", of |-> k, tok |-> k, ok |-> TRUE]
  <1>1. new \in Load
    BY DEF Load
  <1>2. TypeOK'
    <2>1. posts' \in [Users -> Nat] /\ form' \in Users \cup Token \cup {None}
      BY PostAnsweredTyped DEF BrowserInv
    <2> QED
      BY <1>1, <2>1 DEF BrowserInv, TypeOK
  <1>3. Issued' = Issued \cup {k} /\ k \notin Issued
    BY NoneIsNoToken DEF BrowserInv, TypeOK, Issued, IsNext
  <1>4. TokensAreIssued'
    BY <1>3 DEF BrowserInv, TokensAreIssued
  <1>5. SpinnerHasCause'
    BY DEF BrowserInv, SpinnerHasCause
  <1>6. EffectDue'
    BY <1>3, NoneIsNoToken DEF BrowserInv, TokensAreIssued, EffectDue
  <1>7. StoredIsOfPage'
    BY DEF StoredIsOfPage
  <1> QED
    BY <1>2, <1>4, <1>5, <1>6, <1>7 DEF BrowserInv, EffectWasAnswered

LEMMA OtherTabLogsInKeeps ==
  ASSUME BrowserInv, NEW k \in Token, NEW u \in Users, OtherTabLogsIn(k, u)
  PROVE  BrowserInv'
  <1> USE DEF OtherTabLogsIn, page, context, location, effects, signIn, requests
  <1>1. TypeOK'
    BY DEF BrowserInv, TypeOK
  <1>2. Issued' = Issued \cup {k} /\ k \notin Issued
    BY NoneIsNoToken DEF BrowserInv, TypeOK, Issued, IsNext
  <1>3. TokensAreIssued'
    BY <1>2 DEF BrowserInv, TokensAreIssued
  <1>4. token # None => owner'[token] = owner[token]
    BY <1>2 DEF BrowserInv, TypeOK, TokensAreIssued
  <1>5. SpinnerHasCause' /\ EffectWasAnswered'
    BY <1>4 DEF BrowserInv, SpinnerHasCause, EffectWasAnswered, EffectDue
  <1>6. StoredIsOfPage'
    BY DEF StoredIsOfPage
  <1> QED
    BY <1>1, <1>3, <1>5, <1>6 DEF BrowserInv

\* The other steps neither change what the page knows nor issue a token.
LEMMA OthersKeep ==
  ASSUME BrowserInv, TypeOK',
         stored' \in {stored, None}, live' \subseteq live,
         UNCHANGED <<owner, loading, effects, loads, elsewhere>>,
         \/ UNCHANGED <<token, profile, late>>
         \/ token' = None /\ stored' = None
  PROVE  BrowserInv'
  <1>1. TokensAreIssued'
    BY DEF BrowserInv, TokensAreIssued, Issued, effects
  <1>2. SpinnerHasCause'
    BY DEF BrowserInv, SpinnerHasCause, effects
  <1>3. EffectWasAnswered'
    BY DEF BrowserInv, EffectWasAnswered, EffectDue, effects
  <1>4. StoredIsOfPage'
    BY DEF BrowserInv, StoredIsOfPage
  <1> QED
    BY <1>1, <1>2, <1>3, <1>4 DEF BrowserInv

LEMMA BrowserNext == BrowserInv /\ [Next]_vars => BrowserInv'
  <1> SUFFICES ASSUME BrowserInv, [Next]_vars PROVE BrowserInv'
    OBVIOUS
  <1> USE DEF server, context, location, effects, signIn, requests
  <1>0. TypeOK
    BY DEF BrowserInv
  <1>1. ASSUME NEW to \in {"login", "page"}, Open(to) PROVE BrowserInv'
    BY <1>1, LoadedAnew DEF Open
  <1>2. CASE Unload
    BY <1>2, LoadedAnew DEF Unload
  <1>3. CASE Effect
    BY <1>3, EffectKeeps
  <1>4. CASE Redirect \/ GoBack
    <2>1. TypeOK'
      BY <1>0, <1>4 DEF Redirect, GoBack, TypeOK
    <2> QED
      BY <1>4, <2>1, OthersKeep DEF Redirect, GoBack
  <1>5. ASSUME NEW r \in loads, LoadSucceeds(r) \/ LoginSucceeds(r)
        PROVE  BrowserInv'
    <2>1. path' \in {"login", "page"} /\ form' \in {form, None} /\ Apply(r)
      BY <1>0, <1>5 DEF LoadSucceeds, LoginSucceeds, TypeOK
    <2> QED
      BY <1>5, <2>1, ApplyKeeps DEF LoadSucceeds, LoginSucceeds
  <1>6. ASSUME NEW r \in loads, NEW is401 \in BOOLEAN,
               LoadFails(r, is401) \/ LoginFails(r, is401)
        PROVE  BrowserInv'
    BY <1>6, FailKeeps DEF LoadFails, LoginFails
  <1>7. ASSUME NEW u \in Users, Submit(u) PROVE BrowserInv'
    <2>1. TypeOK'
      BY <1>0, <1>7 DEF Submit, TypeOK
    <2> QED
      BY <1>7, <2>1, OthersKeep DEF Submit
  <1>8. ASSUME NEW u \in Users, NEW is401 \in BOOLEAN, SubmitFails(u, is401)
        PROVE  BrowserInv'
    <2>1. TypeOK'
      BY <1>0, <1>8, PostAnsweredTyped DEF SubmitFails, Leave, TypeOK
    <2> QED
      BY <1>8, <2>1, OthersKeep DEF SubmitFails
  <1>9. ASSUME NEW k \in Token, NEW u \in Users, LoggedIn(k, u) PROVE BrowserInv'
    BY <1>9, LoggedInKeeps
  <1>10. CASE Call \/ Logout
    <2>1. TypeOK'
      BY <1>0, <1>10 DEF Call, Logout, TypeOK
    <2> QED
      BY <1>10, <2>1, OthersKeep DEF Call, Logout
  <1>11. ASSUME NEW k \in calls, CallAnswered(k) PROVE BrowserInv'
    <2>1. TypeOK'
      BY <1>0, <1>11 DEF CallAnswered, TypeOK
    <2> QED
      BY <1>11, <2>1, OthersKeep DEF CallAnswered
  <1>12. ASSUME NEW k \in calls, CallUnauthorized(k) PROVE BrowserInv'
    <2>1. TypeOK'
      BY <1>0, <1>12 DEF CallUnauthorized, Leave, TypeOK
    <2> QED
      BY <1>12, <2>1, OthersKeep DEF CallUnauthorized
  <1>13. ASSUME NEW k \in logouts, NEW is401 \in BOOLEAN, LogoutEnds(k, is401)
         PROVE  BrowserInv'
    <2>1. live' \subseteq live
      BY <1>13 DEF LogoutEnds
    <2>2. TypeOK'
      BY <1>0, <1>13, <2>1 DEF LogoutEnds, Leave, TypeOK
    <2> QED
      BY <1>13, <2>1, <2>2, OthersKeep DEF LogoutEnds
  <1>14. ASSUME NEW k \in Token, TokenDies(k) PROVE BrowserInv'
    <2>1. TypeOK'
      BY <1>0, <1>14 DEF TokenDies, TypeOK, page
    <2> QED
      BY <1>14, <2>1, OthersKeep DEF TokenDies, page
  <1>15. ASSUME NEW k \in Token, NEW u \in Users, OtherTabLogsIn(k, u)
         PROVE  BrowserInv'
    BY <1>15, OtherTabLogsInKeeps
  <1>16. CASE OtherTabLogsOut
    <2>1. TypeOK'
      BY <1>0, <1>16 DEF OtherTabLogsOut, TypeOK, page
    <2> QED
      BY <1>16, <2>1, OthersKeep DEF OtherTabLogsOut, page
  <1>17. CASE UNCHANGED vars
    <2>1. TypeOK'
      BY <1>0, <1>17 DEF vars, TypeOK
    <2> QED
      BY <1>17, <2>1, OthersKeep DEF vars
  <1> QED
    BY <1>1, <1>2, <1>3, <1>4, <1>5, <1>6, <1>7, <1>8, <1>9, <1>10, <1>11, <1>12,
       <1>13, <1>14, <1>15, <1>16, <1>17
    DEF Next, LoadAnswered, LoginStep, PageStep, Elsewhere

\* Types, issued tokens, a cause for every spinner, an answer for every effect, a
\* page and a storage that differ only by a token removed or of another tab.
THEOREM BrowserInvariant == Spec => []BrowserInv
  BY BrowserInit, BrowserNext, PTL DEF Spec

LEMMA ProfileFromInv == BrowserInv => ProfileIsOfToken
  BY DEF BrowserInv, EffectWasAnswered, ProfileIsOfToken, Shown, Settled

\* A settled page shows the user of its token, or one whose profile came late.
THEOREM ProfilesAreOfTokens == Spec => []ProfileIsOfToken
  BY BrowserInvariant, ProfileFromInv, PTL

LEMMA RequestsFromInv == BrowserInv => RequestsActForShownUser
  BY ProfileFromInv
  DEF BrowserInv, StoredIsOfPage, ProfileIsOfToken, RequestsActForShownUser

\* The requests of a settled page act for the user it shows, for nobody, or for
\* the login of another tab.
THEOREM RequestsActForTheUserShown == Spec => []RequestsActForShownUser
  BY BrowserInvariant, RequestsFromInv, PTL

-----------------------------------------------------------------------------
(* What /me/perms and RequireGroup make of one configured name.              *)

LEMMA BareIsNoDN == \A text : Bare(text) \notin DN
  <1> SUFFICES ASSUME NEW text, Bare(text) \in DN PROVE FALSE
    OBVIOUS
  <1>1. DOMAIN Bare(text) = {"bare"}
    BY DEF Bare
  <1>2. DOMAIN Bare(text) = {"cn", "ou"}
    BY DEF DN
  <1> QED
    BY <1>1, <1>2

\* Whoever /me/perms takes for a member, and RequireGroup does not, is in a
\* group of that name elsewhere; the other way round, the name is a bare one.
LEMMA GroupChecksAgree ==
  ASSUME NEW u \in Users, NEW name
  PROVE  /\ GroupMatches(Groups[u], name) /\ ~RequireGroup(Groups[u], name) =>
                SameNameElsewhere(u, name)
         /\ RequireGroup(Groups[u], name) /\ ~GroupMatches(Groups[u], name) =>
                IsBareName(name)
  <1>1. \A g \in Groups[u] : g \in DN
    BY BrowserAssumption DEF BrowserAssumption
  <1>2. ASSUME GroupMatches(Groups[u], name), ~RequireGroup(Groups[u], name)
        PROVE  SameNameElsewhere(u, name)
    <2>1. PICK g \in Groups[u] : ExtractCN(name) # "" /\ ExtractCN(g) = ExtractCN(name)
      BY <1>2 DEF GroupMatches, RequireGroup, UserInGroup
    <2>2. name \in DN /\ g.cn = name.cn
      BY <1>1, <2>1 DEF ExtractCN
    <2>3. g # name
      BY <1>2 DEF RequireGroup, UserInGroup
    <2> QED
      BY <2>2, <2>3 DEF SameNameElsewhere
  <1>3. ASSUME RequireGroup(Groups[u], name), ~GroupMatches(Groups[u], name)
        PROVE  IsBareName(name)
    <2>1. name # Empty /\ \E g \in Groups[u] : Bare(g.cn) = name
      BY <1>3 DEF RequireGroup, UserInGroup, GroupMatches
    <2> QED
      BY <2>1, BareIsNoDN DEF IsBareName
  <1> QED
    BY <1>2, <1>3

LEMMA OffersFromInv == BrowserInv => OffersAreServed
  <1> SUFFICES ASSUME BrowserInv, Shown, Settled, ~late,
                      NEW config \in Configs, NEW op \in Operations
               PROVE  LET offered == Offers(Perms(profile, config), op)
                          u == owner[token]
                          served == Serves(u, config, op)
                      IN  /\ offered /\ ~served =>
                                 \/ SameNameElsewhere(u, config[RouteRole(op)])
                                 \/ op = "integrity" /\ ~config.checker
                          /\ served /\ ~offered => IsBareName(config[RouteRole(op)])
    BY DEF OffersAreServed
  <1>1. profile = owner[token] /\ owner[token] \in Users
    <2>1. profile = owner[token]
      BY ProfileFromInv DEF ProfileIsOfToken
    <2>2. token \in Issued
      BY DEF BrowserInv, TokensAreIssued, Shown
    <2> QED
      BY <2>1, <2>2 DEF BrowserInv, TypeOK, Issued
  <1> DEFINE u == owner[token]
             role == RouteRole(op)
  <1>2. Offers(Perms(profile, config), op) <=>
            role = None \/ GroupMatches(Groups[u], config[role])
    <2>1. None \notin Roles
      BY BrowserAssumption DEF BrowserAssumption
    <2>2. profile = u /\ u # None
      BY <1>1, NoneIsNoToken
    <2> QED
      BY <2>1, <2>2 DEF Offers, ShowsItem, CanEdit, ShowsApply, Perms,
             RouteRole, Operations, Roles
  <1>3. Serves(u, config, op) <=>
            /\ ~(op = "integrity" /\ ~config.checker)
            /\ role = None \/ RequireGroup(Groups[u], config[role])
    BY DEF Serves, Registered
  <1> HIDE DEF role
  <1> QED
    BY <1>1, <1>2, <1>3, GroupChecksAgree DEF role

\* A settled page offers what the server serves, but for the two ways in which
\* the two checks read the configured group, and a server without the checker.
THEOREM PagesOfferWhatIsServed == Spec => []OffersAreServed
  BY BrowserInvariant, OffersFromInv, PTL
=============================================================================
