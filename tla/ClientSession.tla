------------------------------ MODULE ClientSession ----------------------------
(* One browser tab of the web client: who the client believes is signed in  *)
(* (AuthContext), the sign-in and sign-out requests, the page App shows and *)
(* the walkthrough, against the session cookie and the server's list of     *)
(* revoked tokens.                                                          *)
EXTENDS Naturals, Sequences

CONSTANTS
    Persons,        \* accounts, each named by its role
    MaxToken,       \* bound on the sessions issued
    MaxNow,         \* bound on the clock
    Timeout,        \* SESSION_TIMEOUT_MS
    CsrfModes,      \* the settings of CSRF_DISABLED explored
    Nobody          \* null

ASSUME ClientAssumption ==
    /\ MaxToken \in Nat /\ MaxNow \in Nat \ {0} /\ Timeout \in Nat \ {0} /\ CsrfModes \subseteq BOOLEAN

VARIABLES
    cookie,         \* the session cookie of the browser: a token or Nobody
    csrfDisabled,   \* CSRF_DISABLED of the server
    issued,         \* who each token was issued to
    revoked,        \* revoked_tokens
    onboarded,      \* onboarding_completed of the accounts
    user,           \* user of AuthContext: who, and the role the client knows
    expires,        \* sessionExpiresAtRef
    now,
    booting,        \* loading: GET /api/auth/me is out
    signin,         \* the sign-in in progress
    logouts,        \* POST /api/auth/logout requests that are out
    activePage, selectedLead, userResolved, showWalkthrough

clientVars == <<cookie, csrfDisabled, issued, revoked, onboarded, user, expires, now, booting, signin, logouts,
                activePage, selectedLead, userResolved, showWalkthrough>>

NoTime == 0
PageNames == {"pipeline", "leads", "settings", "cfo-portfolio", "cfo-dashboard", "cfo-reports", "collection-queue",
              "kyc-review", "account-manager-dashboard", "campaign-analysis"}
Roles == {"superuser", "sales_rep", "cfo", "bdm", "collections_agent", "finance_controller", "account_manager"}
NoRole == "none"

ASSUME PersonsAssumption ==
    /\ Persons \subseteq Roles /\ Nobody \notin Persons /\ Nobody \notin Nat
    /\ Nobody \notin [who : Persons, role : Roles \cup {NoRole}]
    /\ Nobody \notin [who : Persons, step : {"options", "complete"}]

ClientTypeOK ==
    /\ cookie \in {Nobody} \cup DOMAIN issued /\ revoked \subseteq DOMAIN issued
    /\ user = Nobody \/ (user.who \in Persons /\ user.role \in Roles \cup {NoRole})
    /\ expires \in 0 .. MaxNow + Timeout /\ activePage \in PageNames
    /\ \A l \in logouts : l.state \in {"sent", "accepted", "refused"}

ClientInit ==
    /\ cookie = Nobody /\ csrfDisabled \in CsrfModes /\ issued = <<>> /\ revoked = {} /\ onboarded \in [Persons -> BOOLEAN]
    /\ user = Nobody /\ expires = NoTime /\ now = 1 /\ booting = TRUE /\ signin = Nobody /\ logouts = {}
    /\ activePage = "settings" /\ selectedLead = FALSE /\ userResolved = FALSE /\ showWalkthrough = FALSE

ClientTick ==
    /\ now < MaxNow /\ now' = now + 1
    /\ UNCHANGED <<csrfDisabled, cookie, issued, revoked, onboarded, user, expires, booting, signin, logouts,
                   activePage, selectedLead, userResolved, showWalkthrough>>

(* deriveDefaultPage: the page of a role; a role the client was not told    *)
(* falls back to the settings.                                              *)
DeriveDefaultPage(role) ==
    CASE role = "cfo" -> "cfo-portfolio"
      [] role = "bdm" -> "campaign-analysis"
      [] role = "collections_agent" -> "collection-queue"
      [] role = "finance_controller" -> "cfo-dashboard"
      [] role = "account_manager" -> "account-manager-dashboard"
      [] role \in {"sales_rep", "superuser"} -> "pipeline"
      [] OTHER -> "settings"

HasTour(role) == role \in Roles \ {"superuser"}

(* The roles each page is for, and what renderMain shows for a page the     *)
(* user may not see.                                                        *)
PageRoles(page) ==
    CASE page \in {"pipeline", "leads"} -> {"sales_rep", "superuser"}
      [] page \in {"cfo-portfolio", "cfo-reports"} -> {"cfo", "superuser"}
      [] page = "cfo-dashboard" -> {"finance_controller", "superuser"}
      [] page = "collection-queue" -> {"collections_agent", "superuser"}
      [] page = "account-manager-dashboard" -> {"account_manager", "superuser"}
      [] page = "campaign-analysis" -> {"bdm", "superuser"}
      [] page = "kyc-review" -> (Roles \cup {NoRole}) \ {"sales_rep"}
      [] page = "settings" -> Roles \cup {NoRole}
RenderMain(page, role) == IF role \in PageRoles(page) THEN page ELSE "settings"

(* setUser: the page is set from the role the first time a user resolves,   *)
(* and a user whose tour is not completed is shown it.                      *)
SetUser(u, tour) ==
    /\ user' = u
    /\ userResolved' = (userResolved \/ u # Nobody)
    /\ activePage' = IF u # Nobody /\ ~userResolved THEN DeriveDefaultPage(u.role) ELSE activePage
    /\ showWalkthrough' = (showWalkthrough \/ (u # Nobody /\ tour /\ HasTour(u.role)))

(* GET /api/auth/me when the page is loaded: the answer names the user, his *)
(* role and whether the tour is done, or is 401.  Only this starts the      *)
(* client's session clock.                                                  *)
SignedInAs == IF cookie # Nobody /\ cookie \notin revoked THEN issued[cookie] ELSE Nobody
Me ==
    LET p == SignedInAs IN
    /\ booting /\ booting' = FALSE
    /\ SetUser(IF p = Nobody THEN Nobody ELSE [who |-> p, role |-> p], p # Nobody /\ ~onboarded[p])
    /\ expires' = IF p = Nobody THEN expires ELSE now + Timeout
    /\ UNCHANGED <<csrfDisabled, cookie, issued, revoked, onboarded, now, signin, logouts, selectedLead>>

MeFails ==
    /\ booting /\ booting' = FALSE
    /\ UNCHANGED <<csrfDisabled, cookie, issued, revoked, onboarded, user, expires, now, signin, logouts,
                   activePage, selectedLead, userResolved, showWalkthrough>>

(* The login form: the options, the authenticator, then the server's answer *)
(* with the cookie.                                                         *)
BeginSignIn(p) ==
    /\ ~booting /\ user = Nobody /\ signin = Nobody /\ Len(issued) < MaxToken
    /\ signin' = [who |-> p, step |-> "options"]
    /\ UNCHANGED <<csrfDisabled, cookie, issued, revoked, onboarded, user, expires, now, booting, logouts,
                   activePage, selectedLead, userResolved, showWalkthrough>>

AuthenticatorAnswers ==
    /\ signin # Nobody /\ signin.step = "options" /\ signin' = [signin EXCEPT !.step = "complete"]
    /\ UNCHANGED <<csrfDisabled, cookie, issued, revoked, onboarded, user, expires, now, booting, logouts,
                   activePage, selectedLead, userResolved, showWalkthrough>>

SignInFails ==
    /\ signin # Nobody /\ signin' = Nobody
    /\ UNCHANGED <<csrfDisabled, cookie, issued, revoked, onboarded, user, expires, now, booting, logouts,
                   activePage, selectedLead, userResolved, showWalkthrough>>

(* login/complete, register/complete and the demo session: their answers    *)
(* say whether the user is a superuser and name no other role.              *)
SignedInRole(p) == IF p = "superuser" THEN p ELSE NoRole
CompleteSignIn ==
    /\ signin # Nobody /\ signin.step = "complete" /\ signin' = Nobody
    /\ issued' = Append(issued, signin.who) /\ cookie' = Len(issued) + 1
    /\ SetUser([who |-> signin.who, role |-> SignedInRole(signin.who)], FALSE)
    /\ UNCHANGED <<csrfDisabled, revoked, onboarded, expires, now, booting, logouts, selectedLead>>

(* logout: the request carries the cookies and no X-CSRF-Token.             *)
Logout ==
    /\ user # Nobody /\ \A l \in logouts : l.token # cookie \/ l.state # "sent"
    /\ logouts' = logouts \cup {[token |-> cookie, state |-> "sent"]} /\ expires' = NoTime
    /\ UNCHANGED <<csrfDisabled, cookie, issued, revoked, onboarded, user, now, booting, signin,
                   activePage, selectedLead, userResolved, showWalkthrough>>

(* POST /api/auth/logout: refused without the token, else the session is    *)
(* revoked and the cookies are cleared by the answer.                       *)
ServeLogout(l) ==
    /\ l \in logouts /\ l.state = "sent"
    /\ logouts' = (logouts \ {l}) \cup {[l EXCEPT !.state = IF csrfDisabled THEN "accepted" ELSE "refused"]}
    /\ revoked' = IF csrfDisabled /\ l.token # Nobody THEN revoked \cup {l.token} ELSE revoked
    /\ UNCHANGED <<csrfDisabled, cookie, issued, onboarded, user, expires, now, booting, signin,
                   activePage, selectedLead, userResolved, showWalkthrough>>

(* The answer, or the network's error: either way the user is dropped.      *)
LogoutAnswered(l) ==
    /\ l \in logouts /\ logouts' = logouts \ {l}
    /\ cookie' = IF l.state = "accepted" THEN Nobody ELSE cookie
    /\ SetUser(Nobody, FALSE)
    /\ UNCHANGED <<csrfDisabled, issued, revoked, onboarded, expires, now, booting, signin, selectedLead>>

(* The buttons of the navigation bar, and a notification of the bell.       *)
Navigate(page) ==
    /\ user # Nobody /\ user.role \in PageRoles(page) /\ page # activePage /\ activePage' = page
    /\ selectedLead' = IF page = "leads" THEN FALSE ELSE selectedLead
    /\ UNCHANGED <<csrfDisabled, cookie, issued, revoked, onboarded, user, expires, now, booting, signin, logouts, userResolved, showWalkthrough>>

SelectLead ==
    /\ user # Nobody /\ ~selectedLead /\ activePage' = "leads" /\ selectedLead' = TRUE
    /\ UNCHANGED <<csrfDisabled, cookie, issued, revoked, onboarded, user, expires, now, booting, signin, logouts, userResolved, showWalkthrough>>

(* The walkthrough: finished or skipped, and shown again on request.        *)
CloseTour ==
    /\ user # Nobody /\ showWalkthrough /\ HasTour(user.role) /\ showWalkthrough' = FALSE
    /\ onboarded' = IF SignedInAs = Nobody THEN onboarded ELSE [onboarded EXCEPT ![SignedInAs] = TRUE]
    /\ UNCHANGED <<csrfDisabled, cookie, issued, revoked, user, expires, now, booting, signin, logouts, activePage, selectedLead, userResolved>>

HandleShowTour ==
    /\ user # Nobody /\ ~showWalkthrough /\ HasTour(user.role) /\ showWalkthrough' = TRUE
    /\ onboarded' = IF SignedInAs = Nobody THEN onboarded ELSE [onboarded EXCEPT ![SignedInAs] = FALSE]
    /\ UNCHANGED <<csrfDisabled, cookie, issued, revoked, user, expires, now, booting, signin, logouts, activePage, selectedLead, userResolved>>

(* The page is loaded again: all but the cookie is gone.  The server may    *)
(* still serve a sign-out the page no longer waits for.                     *)
ReloadPage ==
    /\ ~booting /\ booting' = TRUE /\ user' = Nobody /\ expires' = NoTime /\ signin' = Nobody /\ logouts' = {}
    /\ activePage' = "settings" /\ selectedLead' = FALSE /\ userResolved' = FALSE /\ showWalkthrough' = FALSE
    /\ \E served \in SUBSET {l.token : l \in {m \in logouts : m.state = "sent"}} :
          revoked' = IF csrfDisabled THEN revoked \cup (served \ {Nobody}) ELSE revoked
    /\ UNCHANGED <<csrfDisabled, cookie, issued, onboarded, now>>

ClientNext ==
    \/ ClientTick \/ Me \/ MeFails \/ AuthenticatorAnswers \/ SignInFails \/ CompleteSignIn
    \/ Logout \/ SelectLead \/ CloseTour \/ HandleShowTour \/ ReloadPage
    \/ \E p \in Persons : BeginSignIn(p)
    \/ \E l \in logouts : ServeLogout(l) \/ LogoutAnswered(l)
    \/ \E page \in PageNames : Navigate(page)

--------------------------------------------------------------------------------
(* The user the client shows is the one the browser's cookie belongs to,    *)
(* whatever of sign-in, sign-out and reload overlaps or is answered late.   *)
UserIsCookie == user # Nobody => cookie # Nobody /\ issued[cookie] = user.who

(* Whatever the last user left behind, a user whose session is found when   *)
(* the page loads lands on the page of his role, which is one he may see.   *)
LoadLandsAtHome ==
    [][booting /\ ~booting' /\ user' # Nobody
        => RenderMain(activePage', user'.role) = activePage' /\ activePage' # "settings"]_clientVars

(* The client's session clock runs only for the user the server confirmed   *)
(* with his role, never on for the one who signs in next.                   *)
ClockIsConfirmed == expires # NoTime => user # Nobody /\ user.role = user.who

(* "Records a token JTI as revoked. Called on logout.": once a sign-out has *)
(* been answered and nobody is signed in, the cookie opens no session.      *)
LogoutEndsSession ==
    [][\A l \in logouts : l.state \in {"accepted", "refused"} /\ l \notin logouts' /\ ~booting'
            => cookie' # l.token \/ l.token \in revoked']_clientVars

================================================================================
