--------------------------------- MODULE ClientProofs ---------------------------
(* Proofs about the web client: the session of a tab, the data views, the   *)
(* bell and the scenario, each with the invariant that carries it.          *)
EXTENDS MCClient, FiniteSetTheorems, TLAPS

(* The session of the tab.                                                  *)

UserRecord == [who : Persons, role : Roles \cup {NoRole}]
SignIn == [who : Persons, step : {"options", "complete"}]
SignOut == [token : Nat \cup {Nobody}, state : {"sent", "accepted", "refused"}]

(* While a page loads nobody is signed in or out of it; a sign-in is under  *)
(* way only when there is no user; and a sign-out has stopped the clock.    *)
ClientInv ==
    /\ issued \in Seq(Persons) /\ cookie \in {Nobody} \cup DOMAIN issued /\ revoked \subseteq DOMAIN issued
    /\ now \in 1 .. MaxNow /\ expires \in 0 .. MaxNow + Timeout /\ activePage \in PageNames
    /\ user \in UserRecord \cup {Nobody} /\ signin \in SignIn \cup {Nobody}
    /\ logouts \subseteq SignOut /\ \A l \in logouts : l.token \in {Nobody} \cup DOMAIN issued
    /\ booting => user = Nobody /\ expires = NoTime /\ signin = Nobody /\ logouts = {} /\ ~userResolved
    /\ signin # Nobody => user = Nobody
    /\ logouts # {} => expires = NoTime
    /\ UserIsCookie /\ ClockIsConfirmed

(* The page of a role is one it may see.                                    *)
LEMMA HomeIsOpen ==
    ASSUME NEW r \in Roles \cup {NoRole}
    PROVE  /\ DeriveDefaultPage(r) \in PageNames
           /\ r # NoRole => r \in PageRoles(DeriveDefaultPage(r)) /\ DeriveDefaultPage(r) # "settings"
  BY DEF DeriveDefaultPage, PageRoles, PageNames, Roles, NoRole

(* The tab is opened.                                                       *)
LEMMA ClientStart == ClientInit => ClientInv
<1> SUFFICES ASSUME ClientInit PROVE ClientInv
  OBVIOUS
<1>1. issued = <<>> /\ issued \in Seq(Persons)
  BY DEF ClientInit
<1>2. user = Nobody /\ expires = NoTime /\ signin = Nobody /\ logouts = {} /\ userResolved = FALSE
  BY DEF ClientInit
<1>3. cookie = Nobody /\ revoked = {} /\ now = 1 /\ activePage = "settings"
  BY DEF ClientInit
<1>4. UserIsCookie /\ ClockIsConfirmed
  BY <1>2 DEF UserIsCookie, ClockIsConfirmed
<1> QED
  BY <1>1, <1>2, <1>3, <1>4, ClientAssumption DEF ClientInv, NoTime, PageNames

(* The answer to GET /api/auth/me.                                          *)
LEMMA MeStep ==
    ASSUME ClientInv, Me
    PROVE  /\ ClientInv'
           /\ user' # Nobody => RenderMain(activePage', user'.role) = activePage' /\ activePage' # "settings"
<1>0. /\ booting' = FALSE /\ UNCHANGED <<cookie, issued, revoked, now, signin, logouts>>
      /\ user = Nobody /\ expires = NoTime /\ signin = Nobody /\ logouts = {} /\ ~userResolved
  BY DEF Me, ClientInv
<1>1. PICK p : p = SignedInAs
  OBVIOUS
<1>2. PICK u : u = IF p = Nobody THEN Nobody ELSE [who |-> p, role |-> p]
  OBVIOUS
<1>3. /\ user' = u /\ expires' = (IF p = Nobody THEN expires ELSE now + Timeout)
      /\ activePage' = (IF u # Nobody /\ ~userResolved THEN DeriveDefaultPage(u.role) ELSE activePage)
  BY <1>1, <1>2 DEF Me, SetUser
<1>4. CASE p = Nobody
  <2>1. UNCHANGED <<user, expires, activePage>>
    BY <1>0, <1>2, <1>3, <1>4
  <2>2. UserIsCookie' /\ ClockIsConfirmed'
    BY <1>0, <2>1 DEF UserIsCookie, ClockIsConfirmed
  <2> QED
    BY <1>0, <2>1, <2>2 DEF ClientInv
<1>5. CASE p # Nobody
  <2>1. cookie # Nobody /\ cookie \in DOMAIN issued /\ p = issued[cookie] /\ p \in Persons /\ p \in Roles
    BY <1>1, <1>5, PersonsAssumption DEF SignedInAs, ClientInv
  <2>2. u \in UserRecord /\ u # Nobody /\ u.who = p /\ u.role = p
    BY <1>2, <1>5, <2>1, PersonsAssumption DEF UserRecord
  <2>3. UserIsCookie' /\ ClockIsConfirmed'
    BY <1>0, <1>3, <2>1, <2>2 DEF UserIsCookie, ClockIsConfirmed
  <2>4. activePage' = DeriveDefaultPage(p) /\ p # NoRole
    BY <1>0, <1>3, <2>1, <2>2 DEF Roles, NoRole
  <2>5. activePage' \in PageNames /\ RenderMain(activePage', p) = activePage' /\ activePage' # "settings"
    BY <2>1, <2>4, HomeIsOpen DEF RenderMain
  <2>6. expires' \in 0 .. MaxNow + Timeout
    BY <1>3, <1>5, ClientAssumption DEF ClientInv
  <2> QED
    BY <1>0, <1>3, <2>2, <2>3, <2>5, <2>6 DEF ClientInv
<1> QED
  BY <1>4, <1>5

(* The answer to a sign-in.                                                 *)
LEMMA CompleteSignInStep == ASSUME ClientInv, CompleteSignIn PROVE ClientInv'
<1>0. /\ UNCHANGED <<revoked, expires, now, logouts>> /\ booting' = booting
      /\ signin # Nobody /\ signin' = Nobody /\ issued' = Append(issued, signin.who) /\ cookie' = Len(issued) + 1
  BY DEF CompleteSignIn
<1>1. signin \in SignIn /\ user = Nobody /\ ~booting /\ expires = NoTime /\ issued \in Seq(Persons)
  BY <1>0 DEF ClientInv, ClockIsConfirmed
<1>2. PICK u : u = [who |-> signin.who, role |-> SignedInRole(signin.who)]
  OBVIOUS
<1>3. /\ user' = u
      /\ activePage' = (IF u # Nobody /\ ~userResolved THEN DeriveDefaultPage(u.role) ELSE activePage)
  BY <1>2 DEF CompleteSignIn, SetUser
<1>4. u \in UserRecord /\ u.who = signin.who /\ signin.who \in Persons
  BY <1>1, <1>2 DEF SignIn, UserRecord, SignedInRole, Roles
<1>5. activePage' \in PageNames
  BY <1>3, <1>4, HomeIsOpen DEF UserRecord, ClientInv
<1>6. /\ issued' \in Seq(Persons) /\ cookie' \in DOMAIN issued' /\ issued'[cookie'] = signin.who
      /\ DOMAIN issued \subseteq DOMAIN issued' /\ cookie' \in Nat
  BY <1>0, <1>1, <1>4
<1>7. UserIsCookie' /\ ClockIsConfirmed'
  BY <1>0, <1>1, <1>3, <1>4, <1>6, PersonsAssumption DEF UserIsCookie, ClockIsConfirmed
<1> QED
  BY <1>0, <1>1, <1>3, <1>4, <1>5, <1>6, <1>7 DEF ClientInv

(* A sign-out is asked for, served or answered, and the page loaded again.  *)
LEMMA SignOutSteps ==
    ASSUME ClientInv, Logout \/ ReloadPage \/ \E l \in logouts : ServeLogout(l) \/ LogoutAnswered(l)
    PROVE  ClientInv'
<1>1. CASE Logout
  <2>1. PICK l : l = [token |-> cookie, state |-> "sent"]
    OBVIOUS
  <2>2. /\ user # Nobody /\ logouts' = logouts \cup {l} /\ expires' = NoTime
        /\ UNCHANGED <<cookie, issued, revoked, user, now, signin, activePage>>
        /\ booting' = booting /\ userResolved' = userResolved
    BY <1>1, <2>1 DEF Logout
  <2>3. l \in SignOut /\ l.token = cookie
    BY <2>1 DEF SignOut, ClientInv
  <2>4. UserIsCookie' /\ ClockIsConfirmed'
    BY <2>2 DEF UserIsCookie, ClockIsConfirmed, ClientInv
  <2> QED
    BY <2>2, <2>3, <2>4, ClientAssumption DEF ClientInv, NoTime
<1>2. CASE ReloadPage
  <2>1. /\ user' = Nobody /\ expires' = NoTime /\ signin' = Nobody /\ logouts' = {} /\ activePage' = "settings"
        /\ userResolved' = FALSE /\ UNCHANGED <<cookie, issued, now>>
    BY <1>2 DEF ReloadPage
  <2>2. PICK served \in SUBSET {l.token : l \in {m \in logouts : m.state = "sent"}} :
            revoked' = IF csrfDisabled THEN revoked \cup (served \ {Nobody}) ELSE revoked
    BY <1>2 DEF ReloadPage
  <2>3. served \ {Nobody} \subseteq DOMAIN issued
    BY <2>2 DEF ClientInv
  <2>4. revoked' \subseteq DOMAIN issued
    BY <2>2, <2>3 DEF ClientInv
  <2>5. UserIsCookie' /\ ClockIsConfirmed'
    BY <2>1 DEF UserIsCookie, ClockIsConfirmed
  <2> QED
    BY <2>1, <2>4, <2>5, ClientAssumption DEF ClientInv, NoTime, PageNames
<1>3. ASSUME NEW l \in logouts, ServeLogout(l) PROVE ClientInv'
  <2>1. PICK m : m = [l EXCEPT !.state = IF csrfDisabled THEN "accepted" ELSE "refused"]
    OBVIOUS
  <2>2. /\ logouts' = (logouts \ {l}) \cup {m}
        /\ revoked' = (IF csrfDisabled /\ l.token # Nobody THEN revoked \cup {l.token} ELSE revoked)
        /\ UNCHANGED <<cookie, issued, user, expires, now, signin, activePage>>
        /\ booting' = booting /\ userResolved' = userResolved
    BY <1>3, <2>1 DEF ServeLogout
  <2>3. m \in SignOut /\ m.token = l.token /\ l.token \in {Nobody} \cup DOMAIN issued
    BY <2>1 DEF SignOut, ClientInv
  <2>4. revoked' \subseteq DOMAIN issued
    BY <2>2, <2>3 DEF ClientInv
  <2>5. UserIsCookie' /\ ClockIsConfirmed'
    BY <2>2 DEF UserIsCookie, ClockIsConfirmed, ClientInv
  <2>6. logouts' \subseteq SignOut /\ \A k \in logouts' : k.token \in {Nobody} \cup DOMAIN issued
    BY <2>2, <2>3 DEF ClientInv
  <2>7. ~booting /\ expires = NoTime
    BY DEF ClientInv
  <2> QED
    BY <2>2, <2>4, <2>5, <2>6, <2>7 DEF ClientInv
<1>4. ASSUME NEW l \in logouts, LogoutAnswered(l) PROVE ClientInv'
  <2>1. /\ logouts' = logouts \ {l} /\ cookie' \in {Nobody, cookie} /\ user' = Nobody /\ activePage' = activePage
        /\ UNCHANGED <<issued, revoked, expires, now, signin>> /\ booting' = booting
    BY <1>4 DEF LogoutAnswered, SetUser
  <2>2. ~booting /\ expires = NoTime
    BY DEF ClientInv
  <2>3. UserIsCookie' /\ ClockIsConfirmed'
    BY <2>1, <2>2 DEF UserIsCookie, ClockIsConfirmed
  <2> QED
    BY <2>1, <2>2, <2>3 DEF ClientInv
<1> QED
  BY <1>1, <1>2, <1>3, <1>4

(* The other steps leave the user and the cookie be.                        *)
LEMMA ClientSteps == ClientInv /\ (ClientNext \/ UNCHANGED clientVars) => ClientInv'
<1> SUFFICES ASSUME ClientInv, ClientNext \/ UNCHANGED clientVars PROVE ClientInv'
  OBVIOUS
<1>1. ASSUME UNCHANGED <<cookie, issued, revoked, user, expires, logouts>>,
             booting' = booting \/ booting' = FALSE, userResolved' = userResolved,
             now' \in 1 .. MaxNow, activePage' \in PageNames, signin' \in SignIn \cup {Nobody},
             signin' # Nobody => user = Nobody /\ ~booting
      PROVE  ClientInv'
  <2>1. UserIsCookie' /\ ClockIsConfirmed'
    BY <1>1 DEF UserIsCookie, ClockIsConfirmed, ClientInv
  <2> QED
    BY <1>1, <2>1 DEF ClientInv
<1>2. CASE ClientTick \/ MeFails \/ UNCHANGED clientVars
  <2>1. /\ UNCHANGED <<cookie, issued, revoked, user, expires, logouts, signin, activePage>>
        /\ booting' = booting \/ booting' = FALSE
        /\ userResolved' = userResolved /\ now' \in 1 .. MaxNow
    BY <1>2, ClientAssumption DEF ClientTick, MeFails, clientVars, ClientInv
  <2> QED
    BY <1>1, <2>1 DEF ClientInv
<1>3. CASE AuthenticatorAnswers \/ SignInFails \/ \E p \in Persons : BeginSignIn(p)
  <2>1. /\ UNCHANGED <<cookie, issued, revoked, user, expires, logouts, now, activePage>>
        /\ booting' = booting /\ userResolved' = userResolved
    BY <1>3 DEF AuthenticatorAnswers, SignInFails, BeginSignIn
  <2>2. signin' \in SignIn \cup {Nobody} /\ (signin' # Nobody => user = Nobody /\ ~booting)
    BY <1>3 DEF AuthenticatorAnswers, SignInFails, BeginSignIn, ClientInv, SignIn
  <2> QED
    BY <1>1, <2>1, <2>2 DEF ClientInv
<1>4. CASE SelectLead \/ CloseTour \/ HandleShowTour \/ \E page \in PageNames : Navigate(page)
  <2>1. /\ UNCHANGED <<cookie, issued, revoked, user, expires, logouts, now, signin>>
        /\ booting' = booting /\ userResolved' = userResolved
    BY <1>4 DEF SelectLead, CloseTour, HandleShowTour, Navigate
  <2>2. activePage' \in PageNames
    BY <1>4 DEF SelectLead, CloseTour, HandleShowTour, Navigate, PageNames, ClientInv
  <2> QED
    BY <1>1, <2>1, <2>2 DEF ClientInv
<1>5. CASE Me
  BY <1>5, MeStep
<1>6. CASE CompleteSignIn
  BY <1>6, CompleteSignInStep
<1>7. CASE Logout \/ ReloadPage \/ \E l \in logouts : ServeLogout(l) \/ LogoutAnswered(l)
  BY <1>7, SignOutSteps
<1> QED
  BY <1>2, <1>3, <1>4, <1>5, <1>6, <1>7 DEF ClientNext

(* What the invariant of the session promises.                              *)
LEMMA ClientPromise == ClientInv => ClientTypeOK /\ UserIsCookie /\ ClockIsConfirmed
  BY DEF ClientInv, ClientTypeOK, UserRecord, SignOut

(* Only the answer to GET /api/auth/me ends a load with a user.             *)
LEMMA LoadStep ==
    ASSUME ClientInv, ClientNext \/ UNCHANGED clientVars, booting, ~booting', user' # Nobody
    PROVE  RenderMain(activePage', user'.role) = activePage' /\ activePage' # "settings"
<1>1. user = Nobody /\ signin = Nobody /\ logouts = {}
  BY DEF ClientInv
<1>2. CASE Me
  BY <1>2, MeStep
<1>3. ~MeFails
  BY <1>1 DEF MeFails
<1>4. /\ ~ClientTick /\ ~AuthenticatorAnswers /\ ~SignInFails /\ ~CompleteSignIn /\ ~UNCHANGED clientVars
      /\ ~ReloadPage
  BY <1>1 DEF ClientTick, AuthenticatorAnswers, SignInFails, CompleteSignIn, clientVars, ReloadPage
<1>5. /\ ~Logout /\ ~SelectLead /\ ~CloseTour /\ ~HandleShowTour
      /\ ~(\E p \in Persons : BeginSignIn(p)) /\ ~(\E page \in PageNames : Navigate(page))
  BY <1>1 DEF Logout, SelectLead, CloseTour, HandleShowTour, BeginSignIn, Navigate
<1> QED
  BY <1>1, <1>2, <1>3, <1>4, <1>5 DEF ClientNext

--------------------------------------------------------------------------------
(* The data views.                                                          *)

Load == [no : Nat, key : Keys, got : [RowIds -> 0 .. 1] \cup {NoData}]
Kinds == RowIds \cup {"stage", "activity", "kyc", "contact", "plan", "settlement", "payment", "remove", "register"}
Post == [kind : Kinds, row : RowIds, key : Keys, state : {"sent", "stored", "refused"}]
Shown == [key : Keys, times : [RowIds -> 0 .. 2]]
Applying == {"caseDetail", "invoiceDetail", "passkeys"}

(* Loads L of the n asked so far have numbers of their own.                 *)
LoadsInv(L, n) ==
    /\ n \in 0 .. MaxLoads /\ L \subseteq Load /\ IsFiniteSet(L) /\ Cardinality(L) <= n
    /\ \A l \in L : l.no \in 1 .. n
    /\ \A l, m \in L : l.no = m.no => l = m

(* A stored post P is among the rows S, another one is nowhere yet.         *)
PostsInv(P, S) ==
    /\ S \in [Keys -> SUBSET RowIds] /\ P \subseteq Post
    /\ \A p, q \in P : p.row = q.row => p = q
    /\ \A p \in P : p.state = "stored" => p.row \in S[p.key]
    /\ \A p \in P : p.state # "stored" => \A k \in Keys : p.row \notin S[k]

(* A row listed twice is stored and no post of it is left.                  *)
DataInv(d, S, P) ==
    \/ d = NoData
    \/ /\ d \in Shown
       /\ \A r \in RowIds : d.times[r] = 2 => (\E k \in Keys : r \in S[k]) /\ \A p \in P : p.row # r

(* The last load is among those that are out, or none is.                   *)
Newest(L, n) == L = {} \/ \E l \in L : l.no = n

(* The posts and the last load are about the selection s.                   *)
Aimed(L, n, P, s) == (\A p \in P : p.key = s) /\ (\A l \in L : l.no = n => l.key = s)

(* The page is still to be told that row r was stored.                      *)
Pending(P, r) == \E p \in P : p.row = r /\ p.state = "stored"

(* Figures f list the rows S once, but for those still to be told of.       *)
Fits(f, S, P) == \A r \in RowIds : (r \notin S => f[r] = 0) /\ (r \in S /\ ~Pending(P, r) => f[r] = 1)

(* The answer of the last load fits.                                        *)
Fresh(L, n, S, P) == \A l \in L : l.no = n /\ l.got # NoData => Fits(l.got, S, P)

(* No load was answered while a stored post is still to be told of.         *)
Unanswered(L, P) == (\E p \in P : p.state = "stored") => \A l \in L : l.got = NoData

(* Figures f do not list what is still to be told of.                       *)
Untold(f, P) == \A p \in P : p.state = "stored" => f[p.row] = 0

Quiet == ~shuffled /\ ~crossed /\ ~failed /\ ~closed /\ loads = {}
Calm == view \in Applying => ~raced

(* The pages while loads and posts are out.                                 *)
ViewInv ==
    /\ LoadsInv(loads, asked) /\ PostsInv(posts, saved) /\ DataInv(data, saved, posts)
    /\ view \in PageKinds /\ sel \in Keys
    /\ closed => view \in Drilldowns
    /\ view \notin Forms => posts = {}
    /\ view \in Cancelling => ~crossed
    /\ view \notin Applying => \A p \in posts : ~Applies(p)
    /\ ~shuffled => Newest(loads, asked)
    /\ ~crossed => Aimed(loads, asked, posts, sel)
    /\ Quiet => data # NoData /\ data.key = sel
    /\ PlanShownIsSelected
    /\ ~crossed /\ Calm => Fresh(loads, asked, saved[sel], posts)
    /\ Quiet /\ Calm => Fits(data.times, saved[sel], posts)
    /\ view \in Applying /\ ~raced => Unanswered(loads, posts)
    /\ Quiet /\ view \in Applying /\ ~raced => Untold(data.times, posts)

(* A further load is asked for.                                             *)
LEMMA AskingLoads ==
    ASSUME NEW L, NEW n, LoadsInv(L, n), n < MaxLoads, NEW k \in Keys, NEW P,
           NEW x, x = [no |-> n + 1, key |-> k, got |-> NoData]
    PROVE  /\ LoadsInv(L \cup {x}, n + 1) /\ Newest(L \cup {x}, n + 1)
           /\ \A l \in L \cup {x} : l.no = n + 1 => l = x
           /\ Unanswered(L, P) => Unanswered(L \cup {x}, P)
<1>1. x \in Load /\ x.no = n + 1 /\ x.got = NoData
  BY ViewsAssumption DEF LoadsInv, Load
<1>2. \A l \in L : l.no \in 1 .. n
  BY DEF LoadsInv
<1>3. x \notin L /\ \A l \in L : l.no # n + 1
  BY <1>1, <1>2, ViewsAssumption DEF LoadsInv
<1>4. IsFiniteSet(L \cup {x}) /\ Cardinality(L \cup {x}) <= n + 1
  <2>1. IsFiniteSet(L) /\ Cardinality(L) \in Nat /\ Cardinality(L) <= n
    BY FS_CardinalityType DEF LoadsInv
  <2>2. IsFiniteSet(L \cup {x}) /\ Cardinality(L \cup {x}) = Cardinality(L) + 1
    BY <1>3, <2>1, FS_AddElement
  <2>3. PICK c \in Nat : c = Cardinality(L)
    BY <2>1
  <2>4. c <= n /\ n \in Nat
    BY <2>1, <2>3, ViewsAssumption DEF LoadsInv
  <2>5. c + 1 <= n + 1
    BY <2>4
  <2> QED
    BY <2>2, <2>3, <2>5
<1>5. n + 1 \in 0 .. MaxLoads /\ \A l \in L \cup {x} : l.no \in 1 .. n + 1
  BY <1>1, <1>2, ViewsAssumption DEF LoadsInv
<1>6. \A l, m \in L \cup {x} : l.no = m.no => l = m
  BY <1>1, <1>3 DEF LoadsInv
<1>7. L \cup {x} \subseteq Load
  BY <1>1 DEF LoadsInv
<1>8. LoadsInv(L \cup {x}, n + 1)
  BY <1>4, <1>5, <1>6, <1>7 DEF LoadsInv
<1> QED
  BY <1>1, <1>3, <1>8 DEF Newest, Unanswered

(* A load comes back.                                                       *)
LEMMA LoadsComeBack ==
    ASSUME NEW L, NEW n, LoadsInv(L, n), NEW l \in L
    PROVE  /\ LoadsInv(L \ {l}, n)
           /\ Newest(L, n) /\ ~(\E m \in L : m.no < l.no) => Newest(L \ {l}, n)
           /\ Newest(L, n) /\ L \ {l} = {} => l.no = n
<1>1. IsFiniteSet(L \ {l}) /\ Cardinality(L \ {l}) <= n
  <2>1. IsFiniteSet(L) /\ Cardinality(L) \in Nat /\ Cardinality(L) <= n
    BY FS_CardinalityType DEF LoadsInv
  <2>2. IsFiniteSet(L \ {l}) /\ Cardinality(L \ {l}) = Cardinality(L) - 1
    BY <2>1, FS_RemoveElement
  <2>3. PICK c \in Nat : c = Cardinality(L)
    BY <2>1
  <2>4. c <= n /\ n \in Nat
    BY <2>1, <2>3, ViewsAssumption DEF LoadsInv
  <2>5. c - 1 <= n
    BY <2>4
  <2> QED
    BY <2>2, <2>3, <2>5
<1>2. LoadsInv(L \ {l}, n)
  BY <1>1 DEF LoadsInv
<1>3. ASSUME Newest(L, n), ~(\E m \in L : m.no < l.no) PROVE Newest(L \ {l}, n)
  <2>1. PICK m \in L : m.no = n
    BY <1>3 DEF Newest
  <2>2. CASE m # l
    BY <2>1, <2>2 DEF Newest
  <2>3. CASE m = l
    <3>1. ASSUME NEW o \in L \ {l} PROVE FALSE
      <4>1. o.no \in 1 .. n /\ l.no = n /\ n \in Nat /\ o.no # l.no
        BY <2>1, <2>3, ViewsAssumption DEF LoadsInv
      <4>2. o.no < l.no
        BY <4>1
      <4> QED
        BY <1>3, <4>2
    <3> QED
      BY <3>1 DEF Newest
  <2> QED
    BY <2>2, <2>3
<1>4. ASSUME Newest(L, n), L \ {l} = {} PROVE l.no = n
  BY <1>4 DEF Newest
<1> QED
  BY <1>2, <1>3, <1>4

(* The server answers a load.                                               *)
LEMMA LoadsAreAnswered ==
    ASSUME NEW L, NEW n, LoadsInv(L, n), NEW l \in L, NEW S \in SUBSET RowIds,
           NEW x, x = [l EXCEPT !.got = Once(S)]
    PROVE  /\ LoadsInv((L \ {l}) \cup {x}, n) /\ x.no = l.no /\ x.key = l.key /\ x.got = Once(S)
           /\ Newest(L, n) => Newest((L \ {l}) \cup {x}, n)
           /\ \A m \in (L \ {l}) \cup {x} : m.no = l.no => m = x
<1>0. Once(S) \in [RowIds -> 0 .. 1]
  BY DEF Once
<1>1. x \in Load /\ x.no = l.no /\ x.key = l.key /\ x.got = Once(S)
  BY <1>0 DEF LoadsInv, Load
<1>2. \A m \in L \ {l} : m.no # x.no
  BY <1>1 DEF LoadsInv
<1>3. IsFiniteSet((L \ {l}) \cup {x}) /\ Cardinality((L \ {l}) \cup {x}) <= n
  <2>1. IsFiniteSet(L) /\ Cardinality(L) \in Nat /\ Cardinality(L) <= n
    BY FS_CardinalityType DEF LoadsInv
  <2>2. IsFiniteSet(L \ {l}) /\ Cardinality(L \ {l}) = Cardinality(L) - 1
    BY <2>1, FS_RemoveElement
  <2>3. IsFiniteSet((L \ {l}) \cup {x}) /\ Cardinality((L \ {l}) \cup {x}) = Cardinality(L \ {l}) + 1
    BY <1>2, <2>2, FS_AddElement
  <2>4. PICK c \in Nat : c = Cardinality(L)
    BY <2>1
  <2>5. (c - 1) + 1 = c
    OBVIOUS
  <2> QED
    BY <2>1, <2>2, <2>3, <2>4, <2>5
<1>4. \A o, m \in (L \ {l}) \cup {x} : o.no = m.no => o = m
  BY <1>2 DEF LoadsInv
<1>5. LoadsInv((L \ {l}) \cup {x}, n)
  BY <1>1, <1>3, <1>4 DEF LoadsInv
<1> QED
  BY <1>1, <1>2, <1>5 DEF Newest

(* Post p of P becomes x, and its row is stored.                            *)
Storing(P, S, p, x, Q, T) ==
    /\ PostsInv(P, S) /\ p \in P /\ p.state = "sent"
    /\ x \in Post /\ x.row = p.row /\ x.kind = p.kind /\ x.key = p.key /\ x.state = "stored"
    /\ T \in [Keys -> SUBSET RowIds]
    /\ \A k \in Keys : \A r : r \in T[k] <=> r \in S[k] \/ (k = p.key /\ r = p.row)
    /\ Q = (P \ {p}) \cup {x}

(* A post is stored: its row is stored, and the page is to be told.         *)
LEMMA PostsAreStored ==
    ASSUME NEW P, NEW S, NEW p, NEW x, NEW Q, NEW T, Storing(P, S, p, x, Q, T)
    PROVE  /\ PostsInv(Q, T)
           /\ \A d : DataInv(d, S, P) => DataInv(d, T, Q)
           /\ \A f : \A s \in Keys : Fits(f, S[s], P) => Fits(f, T[s], Q)
<1> USE DEF Storing
<1>1. p \in Post /\ x \in Post /\ x.row = p.row /\ x.kind = p.kind /\ x.key = p.key /\ x.state = "stored"
  BY DEF PostsInv
<1>2. p.key \in Keys /\ p.row \in RowIds /\ \A k \in Keys : p.row \notin S[k]
  BY <1>1 DEF PostsInv, Post
<1>3. T \in [Keys -> SUBSET RowIds]
  OBVIOUS
<1>4. \A k \in Keys : \A r : r \in T[k] <=> r \in S[k] \/ (k = p.key /\ r = p.row)
  OBVIOUS
<1>5. \A q \in P \ {p} : q.row # p.row
  BY DEF PostsInv
<1>6. ASSUME NEW q \in Q, NEW o \in Q, q.row = o.row PROVE q = o
  <2>1. CASE q = x \/ o = x
    BY <1>1, <1>5, <1>6, <2>1
  <2>2. CASE q \in P \ {p} /\ o \in P \ {p}
    BY <1>6, <2>2 DEF PostsInv
  <2> QED
    BY <2>1, <2>2
<1>7. \A q \in Q : q.state = "stored" => q.row \in T[q.key]
  BY <1>1, <1>2, <1>4 DEF PostsInv, Post
<1>8. \A q \in Q : q.state # "stored" => \A k \in Keys : q.row \notin T[k]
  BY <1>1, <1>4, <1>5 DEF PostsInv
<1>9. PostsInv(Q, T)
  BY <1>1, <1>3, <1>6, <1>7, <1>8 DEF PostsInv
<1>10. ASSUME NEW d, DataInv(d, S, P) PROVE DataInv(d, T, Q)
  BY <1>1, <1>4, <1>10 DEF DataInv
<1>11. ASSUME NEW f, NEW s \in Keys, Fits(f, S[s], P) PROVE Fits(f, T[s], Q)
  <2>1. ASSUME NEW r \in RowIds, r \notin T[s] PROVE f[r] = 0
    BY <1>4, <1>11, <2>1 DEF Fits
  <2>2. ASSUME NEW r \in RowIds, r \in T[s], ~Pending(Q, r) PROVE f[r] = 1
    <3>1. r # p.row
      BY <1>1, <2>2 DEF Pending
    <3>2. r \in S[s]
      BY <1>4, <2>2, <3>1
    <3>3. ~Pending(P, r)
      BY <2>2, <3>1 DEF Pending
    <3> QED
      BY <1>11, <3>2, <3>3 DEF Fits
  <2> QED
    BY <2>1, <2>2 DEF Fits
<1> QED
  BY <1>9, <1>10, <1>11

(* A post is refused, or its outcome told: what is left of the posts.       *)
LEMMA PostsAreTold ==
    ASSUME NEW P, NEW S, PostsInv(P, S), NEW p \in P
    PROVE  /\ p \in Post /\ PostsInv(P \ {p}, S)
           /\ \A d : DataInv(d, S, P) => DataInv(d, S, P \ {p})
           /\ p.state # "stored" => \A f : \A s \in Keys : Fits(f, S[s], P) => Fits(f, S[s], P \ {p})
           /\ \A f : \A s \in Keys : Fits(f, S[s], P) =>
                \A r \in RowIds : (r \notin S[s] => f[r] = 0) /\ (r \in S[s] /\ r # p.row /\ ~Pending(P \ {p}, r) => f[r] = 1)
<1>1. p \in Post /\ PostsInv(P \ {p}, S)
  BY DEF PostsInv
<1>2. ASSUME NEW d, DataInv(d, S, P) PROVE DataInv(d, S, P \ {p})
  BY <1>2 DEF DataInv
<1>3. ASSUME p.state # "stored", NEW f, NEW s \in Keys, Fits(f, S[s], P) PROVE Fits(f, S[s], P \ {p})
  BY <1>3 DEF Fits, Pending
<1>4. ASSUME NEW f, NEW s \in Keys, Fits(f, S[s], P), NEW r \in RowIds
      PROVE  (r \notin S[s] => f[r] = 0) /\ (r \in S[s] /\ r # p.row /\ ~Pending(P \ {p}, r) => f[r] = 1)
  BY <1>4 DEF Fits, Pending
<1> QED
  BY <1>1, <1>2, <1>3, <1>4

(* A post is refused: the others and what is shown stand.                   *)
LEMMA PostsAreRefused ==
    ASSUME NEW P, NEW S, PostsInv(P, S), NEW p \in P, p.state = "sent",
           NEW x, x = [p EXCEPT !.state = "refused"],
           NEW Q, Q = (P \ {p}) \cup {x}
    PROVE  /\ PostsInv(Q, S) /\ x.row = p.row /\ x.kind = p.kind /\ x.key = p.key /\ x.state = "refused"
           /\ \A d : DataInv(d, S, P) => DataInv(d, S, Q)
           /\ \A f : \A s \in Keys : Fits(f, S[s], P) => Fits(f, S[s], Q)
<1>1. p \in Post /\ x \in Post /\ x.row = p.row /\ x.kind = p.kind /\ x.key = p.key /\ x.state = "refused"
  BY DEF PostsInv, Post
<1>2. PostsInv(Q, S)
  <2>1. ASSUME NEW q \in Q, NEW o \in Q, q.row = o.row PROVE q = o
    <3>1. \A i \in P \ {p} : i.row # p.row
      BY DEF PostsInv
    <3>2. CASE q = x \/ o = x
      BY <1>1, <2>1, <3>1, <3>2
    <3>3. CASE q \in P \ {p} /\ o \in P \ {p}
      BY <2>1, <3>3 DEF PostsInv
    <3> QED
      BY <3>2, <3>3
  <2>2. \A q \in Q : q.state = "stored" => q.row \in S[q.key]
    BY <1>1 DEF PostsInv
  <2>3. \A q \in Q : q.state # "stored" => \A k \in Keys : q.row \notin S[k]
    BY <1>1 DEF PostsInv
  <2> QED
    BY <1>1, <2>1, <2>2, <2>3 DEF PostsInv
<1>3. ASSUME NEW d, DataInv(d, S, P) PROVE DataInv(d, S, Q)
  <2>1. \A q \in Q : \E o \in P : q.row = o.row
    BY <1>1
  <2> QED
    BY <1>3, <2>1 DEF DataInv
<1>4. ASSUME NEW f, NEW s \in Keys, Fits(f, S[s], P) PROVE Fits(f, S[s], Q)
  BY <1>1, <1>4 DEF Fits, Pending
<1> QED
  BY <1>1, <1>2, <1>3, <1>4

(* A form is sent.                                                          *)
LEMMA PostsAreSent ==
    ASSUME NEW P, NEW S, PostsInv(P, S), NEW s \in Keys, NEW r \in RowIds, NEW kind \in Kinds,
           \A k \in Keys : r \notin S[k], \A p \in P : p.row # r,
           NEW x, x = [kind |-> kind, row |-> r, key |-> s, state |-> "sent"],
           NEW Q, Q = P \cup {x}
    PROVE  /\ PostsInv(Q, S) /\ x.kind = kind /\ x.key = s /\ x.state = "sent"
           /\ \A d : DataInv(d, S, P) => DataInv(d, S, Q)
           /\ \A f : \A k \in Keys : Fits(f, S[k], P) => Fits(f, S[k], Q)
<1>1. x \in Post /\ x.row = r /\ x.kind = kind /\ x.key = s /\ x.state = "sent"
  BY DEF Post
<1>2. PostsInv(Q, S)
  BY <1>1 DEF PostsInv
<1>3. ASSUME NEW d, DataInv(d, S, P) PROVE DataInv(d, S, Q)
  BY <1>1, <1>3 DEF DataInv
<1>4. ASSUME NEW f, NEW k \in Keys, Fits(f, S[k], P) PROVE Fits(f, S[k], Q)
  BY <1>1, <1>4 DEF Fits, Pending
<1> QED
  BY <1>1, <1>2, <1>3, <1>4

(* A page mounts.                                                           *)
LEMMA ViewStart ==
    ASSUME ViewInit
    PROVE  ViewInv
<1>1. FirstKey \in Keys /\ sel = FirstKey
  BY ViewsAssumption DEF ViewInit, FirstKey
<1>2. PostsInv(posts, saved) /\ posts = {} /\ DataInv(data, saved, posts) /\ data = NoData
  BY DEF ViewInit, PostsInv, DataInv
<1>3. CASE closed
  <2>1. loads = {} /\ asked = 0
    BY <1>3, FS_EmptySet DEF ViewInit
  <2>2. LoadsInv(loads, asked)
    BY <2>1, FS_EmptySet, ViewsAssumption DEF LoadsInv
  <2>3. view \in PageKinds /\ view \in Drilldowns /\ view \notin Cancelling /\ view \notin Applying
    BY <1>3 DEF ViewInit, Drilldowns, Cancelling, Applying
  <2> QED
    BY <1>1, <1>2, <1>3, <2>1, <2>2, <2>3
    DEF ViewInv, Newest, Aimed, Quiet, PlanShownIsSelected, Fresh, Calm
<1>4. CASE ~closed
  <2>1. PICK x : x = [no |-> 1, key |-> FirstKey, got |-> NoData]
    OBVIOUS
  <2>2. loads = {x} /\ asked = 1
    BY <1>4, <2>1, FS_Singleton DEF ViewInit
  <2>3. LoadsInv({}, 0)
    BY FS_EmptySet, ViewsAssumption DEF LoadsInv
  <2>4. LoadsInv(loads, asked) /\ Newest(loads, asked)
    <3>1. 0 < MaxLoads /\ x = [no |-> 0 + 1, key |-> FirstKey, got |-> NoData]
      BY <2>1, ViewsAssumption
    <3>2. LoadsInv({} \cup {x}, 0 + 1) /\ Newest({} \cup {x}, 0 + 1)
      BY <1>1, <2>3, <3>1, AskingLoads
    <3>3. {} \cup {x} = loads /\ 0 + 1 = asked
      BY <2>2
    <3> QED
      BY <3>2, <3>3
  <2>5. view \in PageKinds /\ loading /\ x.key = sel /\ x.got = NoData
    BY <1>1, <1>4, <2>1 DEF ViewInit
  <2>6. view \in Cancelling => ~crossed
    BY DEF ViewInit
  <2> QED
    BY <1>1, <1>2, <1>4, <2>2, <2>4, <2>5, <2>6
    DEF ViewInv, Aimed, Quiet, PlanShownIsSelected, Fresh, Unanswered, Untold
<1> QED
  BY <1>3, <1>4

(* Another selection in place.                                              *)
LEMMA ReselectStep ==
    ASSUME ViewInv, NEW k \in Keys, Reselect(k), data' \in {data, NoData}
    PROVE  ViewInv'
<1>1. PICK x : x = [no |-> asked + 1, key |-> k, got |-> NoData]
  OBVIOUS
<1>2. /\ asked < MaxLoads /\ asked' = asked + 1 /\ loads' = loads \cup {x} /\ sel' = k
      /\ view' = view /\ posts' = posts /\ saved' = saved
  BY <1>1 DEF Reselect, Ask
<1>3. loading' /\ ~closed'
  BY DEF Reselect, Ask
<1>4. ~crossed' => ~crossed /\ posts = {}
  BY DEF Reselect
<1>5. (~shuffled' => ~shuffled) /\ (~raced' => ~raced)
  BY DEF Reselect
<1>6. LoadsInv(loads, asked) /\ PostsInv(posts, saved) /\ DataInv(data, saved, posts)
  BY DEF ViewInv
<1>7. /\ LoadsInv(loads', asked') /\ Newest(loads', asked') /\ (\A l \in loads' : l.no = asked' => l = x)
      /\ (Unanswered(loads, posts) => Unanswered(loads', posts))
  BY <1>1, <1>2, <1>6, AskingLoads
<1>8. x.key = k /\ x.got = NoData /\ loads' # {}
  BY <1>1, <1>2
<1>9. DataInv(data', saved', posts')
  BY <1>2, <1>6 DEF DataInv
<1>10. ~crossed' => Aimed(loads', asked', posts', sel')
  BY <1>2, <1>4, <1>7, <1>8 DEF Aimed
<1>11. Fresh(loads', asked', saved'[sel'], posts')
  BY <1>7, <1>8 DEF Fresh
<1>12. /\ view' \in PageKinds /\ sel' \in Keys /\ (view' \notin Forms => posts' = {})
       /\ (view' \notin Applying => \A p \in posts' : ~Applies(p))
  BY <1>2 DEF ViewInv
<1>13. view' \in Cancelling => ~crossed'
  <2>1. view \in Cancelling => posts = {} /\ ~crossed
    BY DEF ViewInv, Cancelling, Forms
  <2> QED
    BY <1>2, <2>1 DEF Reselect
<1>14. view' \in Applying /\ ~raced' => Unanswered(loads', posts')
  BY <1>2, <1>5, <1>7 DEF ViewInv
<1> QED
  BY <1>2, <1>3, <1>6, <1>7, <1>8, <1>9, <1>10, <1>11, <1>12, <1>13, <1>14
  DEF ViewInv, Quiet, PlanShownIsSelected

(* A panel is closed, and with the aging drilldown its component.           *)
LEMMA CloseStep ==
    ASSUME ViewInv, CloseDetail
    PROVE  ViewInv'
<1>1. /\ view \in Drilldowns /\ data' = NoData /\ (loads' = {} \/ loads' = loads) /\ asked' = asked
      /\ view' = view /\ posts' = posts /\ saved' = saved /\ sel' = sel
  BY DEF CloseDetail
<1>2. closed'
  BY DEF CloseDetail
<1>3. (~shuffled' => ~shuffled) /\ (~crossed' => ~crossed)
  BY DEF CloseDetail
<1>4. posts = {} /\ view \notin Cancelling /\ view \notin Applying
  BY <1>1 DEF ViewInv, Drilldowns, Forms, Cancelling, Applying
<1>5. LoadsInv(loads', asked')
  <2>1. LoadsInv(loads, asked)
    BY DEF ViewInv
  <2>2. LoadsInv({}, asked)
    BY <2>1, FS_EmptySet, ViewsAssumption DEF LoadsInv
  <2> QED
    BY <1>1, <2>1, <2>2
<1>6. PostsInv(posts', saved') /\ DataInv(data', saved', posts')
  BY <1>1 DEF ViewInv, DataInv
<1>7. ~shuffled' => Newest(loads', asked')
  BY <1>1, <1>3 DEF ViewInv, Newest
<1>8. ~crossed' => Aimed(loads', asked', posts', sel')
  BY <1>1, <1>3 DEF ViewInv, Aimed
<1>9. ~crossed /\ Calm => Fresh(loads, asked, saved[sel], posts)
  BY DEF ViewInv
<1>10. Fresh(loads, asked, saved[sel], posts) => Fresh(loads', asked', saved'[sel'], posts')
  BY <1>1 DEF Fresh
<1>11. view \in PageKinds /\ sel \in Keys
  BY DEF ViewInv
<1> QED
  BY <1>1, <1>2, <1>3, <1>4, <1>5, <1>6, <1>7, <1>8, <1>9, <1>10, <1>11
  DEF ViewInv, Quiet, Calm, PlanShownIsSelected

(* Another page is opened in the place of this one.                         *)
LEMMA OpenStep ==
    ASSUME ViewInv, NEW k \in Keys, OpenAnother(k)
    PROVE  ViewInv'
<1>1. PICK x : x = [no |-> asked + 1, key |-> k, got |-> NoData]
  OBVIOUS
<1>2. /\ asked < MaxLoads /\ asked' = asked + 1 /\ loads' = {x} /\ sel' = k /\ data' = NoData
      /\ view' = view /\ posts' = {}
      /\ saved' = [j \in Keys |-> saved[j] \cup {p.row : p \in {q \in posts : q.key = j /\ q.state = "sent"}}]
  BY <1>1 DEF OpenAnother
<1>3. loading' /\ (closed' => closed)
  BY DEF OpenAnother
<1>4. ~crossed'
  BY DEF OpenAnother
<1>5. LoadsInv({}, asked) /\ asked \in Nat
  BY FS_EmptySet, ViewsAssumption DEF ViewInv, LoadsInv
<1>6. LoadsInv({} \cup {x}, asked + 1) /\ Newest({} \cup {x}, asked + 1)
  <2>1. LoadsInv({}, asked) /\ asked < MaxLoads
    BY <1>2, <1>5
  <2> QED
    BY <1>1, <2>1, AskingLoads
<1>7. {} \cup {x} = loads'
  BY <1>2
<1>8. LoadsInv(loads', asked') /\ Newest(loads', asked') /\ loads' # {}
  BY <1>2, <1>6, <1>7
<1>9. saved' \in [Keys -> SUBSET RowIds]
  BY <1>2 DEF ViewInv, PostsInv, Post
<1>10. PostsInv(posts', saved') /\ DataInv(data', saved', posts')
  BY <1>2, <1>9 DEF PostsInv, DataInv
<1>11. x.key = k /\ x.got = NoData
  BY <1>1
<1>12. Aimed(loads', asked', posts', sel') /\ Fresh(loads', asked', saved'[sel'], posts') /\ Unanswered(loads', posts')
  BY <1>2, <1>11 DEF Aimed, Fresh, Unanswered
<1>13. view \in PageKinds /\ (closed => view \in Drilldowns)
  BY DEF ViewInv
<1> QED
  BY <1>2, <1>3, <1>4, <1>8, <1>10, <1>12, <1>13 DEF ViewInv, Quiet, PlanShownIsSelected

(* The review queue is loaded again.                                        *)
LEMMA RefreshStep ==
    ASSUME ViewInv, RefreshReviews
    PROVE  ViewInv'
<1>1. PICK x : x = [no |-> asked + 1, key |-> sel, got |-> NoData]
  OBVIOUS
<1>2. /\ asked < MaxLoads /\ asked' = asked + 1 /\ loads' = loads \cup {x} /\ sel' = sel
      /\ view' = view /\ posts' = posts /\ saved' = saved /\ data' = data
  BY <1>1 DEF RefreshReviews, Ask
<1>3. loading' /\ (closed' => closed)
  BY DEF RefreshReviews, Ask
<1>4. (~crossed' => ~crossed) /\ (crossed' => crossed)
  BY DEF RefreshReviews
<1>5. ~raced' => ~raced
  BY DEF RefreshReviews
<1>6. LoadsInv(loads, asked) /\ PostsInv(posts, saved) /\ DataInv(data, saved, posts) /\ sel \in Keys
  BY DEF ViewInv
<1>7. /\ LoadsInv(loads', asked') /\ Newest(loads', asked') /\ (\A l \in loads' : l.no = asked' => l = x)
      /\ (Unanswered(loads, posts) => Unanswered(loads', posts))
  BY <1>1, <1>2, <1>6, AskingLoads
<1>8. x.key = sel /\ x.got = NoData /\ loads' # {}
  BY <1>1, <1>2
<1>9. ~crossed' => Aimed(loads', asked', posts', sel')
  BY <1>2, <1>4, <1>7, <1>8 DEF ViewInv, Aimed
<1>10. Fresh(loads', asked', saved'[sel'], posts')
  BY <1>7, <1>8 DEF Fresh
<1>11. /\ view' \in PageKinds /\ sel' \in Keys /\ (view' \notin Forms => posts' = {})
       /\ (view' \notin Applying => \A p \in posts' : ~Applies(p))
  BY <1>2 DEF ViewInv
<1>12. (view' \in Cancelling => ~crossed') /\ (closed' => view' \in Drilldowns)
  BY <1>2, <1>3, <1>4 DEF ViewInv
<1>13. view' \in Applying /\ ~raced' => Unanswered(loads', posts')
  BY <1>2, <1>5, <1>7 DEF ViewInv
<1> QED
  BY <1>2, <1>3, <1>6, <1>7, <1>8, <1>9, <1>10, <1>11, <1>12, <1>13
  DEF ViewInv, Quiet, PlanShownIsSelected

(* The server answers a load.                                               *)
LEMMA ReadStep ==
    ASSUME ViewInv, NEW l \in loads, ServerReads(l)
    PROVE  ViewInv'
<1>0. LoadsInv(loads, asked) /\ PostsInv(posts, saved) /\ DataInv(data, saved, posts) /\ sel \in Keys
  BY DEF ViewInv
<1>1. PICK x : x = [l EXCEPT !.got = Once(saved[l.key])]
  OBVIOUS
<1>2. /\ loads' = (loads \ {l}) \cup {x} /\ asked' = asked /\ sel' = sel
      /\ view' = view /\ posts' = posts /\ saved' = saved /\ data' = data
  BY <1>1 DEF ServerReads
<1>3. (loading => loading') /\ (failed => failed') /\ (closed => closed') /\ (closed' => closed) /\ (shuffled => shuffled')
  BY DEF ServerReads
<1>4. (~crossed' => ~crossed) /\ (crossed' => crossed)
  BY DEF ServerReads
<1>5. ~raced' => ~raced /\ posts = {}
  BY DEF ServerReads
<1>6. saved[l.key] \in SUBSET RowIds
  BY <1>0 DEF LoadsInv, PostsInv, Load
<1>7. /\ LoadsInv(loads', asked') /\ x.no = l.no /\ x.key = l.key /\ x.got = Once(saved[l.key])
      /\ (Newest(loads, asked) => Newest(loads', asked'))
      /\ \A m \in loads' : m.no = l.no => m = x
  BY <1>0, <1>1, <1>2, <1>6, LoadsAreAnswered
<1>8. PostsInv(posts', saved') /\ DataInv(data', saved', posts')
  BY <1>0, <1>2
<1>9. Aimed(loads, asked, posts, sel) => Aimed(loads', asked', posts', sel')
  BY <1>2, <1>7 DEF Aimed
<1>10. ASSUME Aimed(loads, asked, posts, sel), Fresh(loads, asked, saved[sel], posts)
       PROVE  Fresh(loads', asked', saved'[sel'], posts')
  <2>1. ASSUME NEW m \in loads', m.no = asked', m.got # NoData PROVE Fits(m.got, saved'[sel'], posts')
    <3>1. CASE m = x
      <4>1. l.key = sel
        BY <1>2, <1>7, <1>10, <2>1, <3>1 DEF Aimed
      <4>2. m.got = Once(saved[sel])
        BY <1>7, <3>1, <4>1
      <4> QED
        BY <1>2, <4>2 DEF Fits, Once
    <3>2. CASE m # x
      BY <1>2, <1>10, <2>1, <3>2 DEF Fresh
    <3> QED
      BY <3>1, <3>2
  <2> QED
    BY <2>1 DEF Fresh
<1>11. loads' # {}
  BY <1>2
<1>12. /\ view' \in PageKinds /\ sel' \in Keys /\ (view' \notin Forms => posts' = {})
       /\ (view' \notin Applying => \A p \in posts' : ~Applies(p))
  BY <1>2 DEF ViewInv
<1>13. (view' \in Cancelling => ~crossed') /\ (closed' => view' \in Drilldowns)
  BY <1>2, <1>3, <1>4 DEF ViewInv
<1>14. ~raced' => Unanswered(loads', posts')
  BY <1>2, <1>5 DEF Unanswered
<1>15. PlanShownIsSelected'
  BY <1>2, <1>3 DEF ViewInv, PlanShownIsSelected
<1>16. (~shuffled => Newest(loads, asked)) /\ (~crossed => Aimed(loads, asked, posts, sel))
       /\ (~crossed /\ Calm => Fresh(loads, asked, saved[sel], posts))
  BY DEF ViewInv
<1>17. Calm' => Calm
  BY <1>2, <1>5 DEF Calm
<1> QED
  BY <1>3, <1>4, <1>7, <1>8, <1>9, <1>10, <1>11, <1>12, <1>13, <1>14, <1>15, <1>16, <1>17
  DEF ViewInv, Quiet

(* An answer arrives, or the load fails.                                    *)
LEMMA ArriveStep ==
    ASSUME ViewInv, NEW l \in loads, LoadArrives(l) \/ LoadFails(l)
    PROVE  ViewInv'
<1>0. LoadsInv(loads, asked) /\ PostsInv(posts, saved) /\ DataInv(data, saved, posts) /\ sel \in Keys /\ l \in Load
  BY DEF ViewInv, LoadsInv
<1>1. /\ loads' = loads \ {l} /\ asked' = asked /\ sel' = sel
      /\ view' = view /\ posts' = posts /\ saved' = saved
  BY DEF LoadArrives, LoadFails
<1>2. (closed => closed') /\ (closed' => closed) /\ (~raced' => ~raced)
  BY DEF LoadArrives, LoadFails
<1>3. (~crossed' => ~crossed) /\ (crossed' => crossed)
  BY DEF LoadArrives, LoadFails
<1>4. ~shuffled' => ~shuffled /\ ~(\E m \in loads : m.no < l.no)
  BY DEF LoadArrives, LoadFails
<1>5. \/ Ignores(l) /\ data' = data /\ (loading => loading') /\ (failed => failed')
      \/ ~Ignores(l) /\ data' = [key |-> l.key, times |-> l.got] /\ l.got # NoData /\ (failed => failed')
      \/ ~Ignores(l) /\ data' = data /\ failed'
  BY DEF LoadArrives, LoadFails
<1>6. /\ LoadsInv(loads', asked')
      /\ (Newest(loads, asked) /\ ~(\E m \in loads : m.no < l.no) => Newest(loads', asked'))
      /\ (Newest(loads, asked) /\ loads' = {} => l.no = asked)
  BY <1>0, <1>1, LoadsComeBack
<1>7. PostsInv(posts', saved') /\ DataInv(data', saved', posts')
  <2>1. CASE data' = data
    BY <1>0, <1>1, <2>1
  <2>2. CASE data' = [key |-> l.key, times |-> l.got] /\ l.got # NoData
    <3>1. l.got \in [RowIds -> 0 .. 1] /\ l.key \in Keys
      BY <1>0, <2>2 DEF Load
    <3>2. data' \in Shown /\ \A r \in RowIds : data'.times[r] # 2
      BY <2>2, <3>1 DEF Shown
    <3> QED
      BY <1>0, <1>1, <3>2 DEF DataInv
  <2> QED
    BY <1>5, <2>1, <2>2
<1>8. Aimed(loads, asked, posts, sel) => Aimed(loads', asked', posts', sel')
  BY <1>1 DEF Aimed
<1>9. Fresh(loads, asked, saved[sel], posts) => Fresh(loads', asked', saved'[sel'], posts')
  BY <1>1 DEF Fresh
<1>10. Unanswered(loads, posts) => Unanswered(loads', posts')
  BY <1>1 DEF Unanswered
<1>11. (~shuffled => Newest(loads, asked)) /\ (~crossed => Aimed(loads, asked, posts, sel))
       /\ (~crossed /\ Calm => Fresh(loads, asked, saved[sel], posts))
       /\ (view \in Applying /\ ~raced => Unanswered(loads, posts))
  BY DEF ViewInv
<1>12. Calm' => Calm
  BY <1>1, <1>2 DEF Calm
<1>13. /\ view' \in PageKinds /\ sel' \in Keys /\ (view' \notin Forms => posts' = {})
       /\ (view' \notin Applying => \A p \in posts' : ~Applies(p))
  BY <1>1 DEF ViewInv
<1>14. (view' \in Cancelling => ~crossed') /\ (closed' => view' \in Drilldowns)
  BY <1>1, <1>2, <1>3 DEF ViewInv
<1>15. ASSUME Quiet'
       PROVE  /\ l.no = asked /\ l.key = sel /\ data' = [key |-> l.key, times |-> l.got] /\ l.got # NoData
              /\ data' # NoData /\ data'.key = sel' /\ data'.times = l.got
  <2>1. loads' = {} /\ ~failed' /\ ~shuffled' /\ ~crossed'
    BY <1>15 DEF Quiet
  <2>2. l.no = asked
    BY <1>4, <1>6, <1>11, <2>1
  <2>3. l.key = sel
    BY <1>3, <1>11, <2>1, <2>2 DEF Aimed
  <2>4. ~Ignores(l)
    BY <2>2 DEF Ignores
  <2>5. data' = [key |-> l.key, times |-> l.got] /\ l.got # NoData
    BY <1>5, <2>1, <2>4
  <2>6. data'.key = sel' /\ data'.times = l.got
    BY <1>1, <2>3, <2>5
  <2>7. data' # NoData
    <3>1. l.got \in [RowIds -> 0 .. 1] /\ l.key \in Keys
      BY <1>0, <2>5 DEF Load
    <3>2. data' \in Shown
      BY <2>5, <3>1 DEF Shown
    <3> QED
      BY <3>2, ViewsAssumption DEF Shown
  <2> QED
    BY <2>2, <2>3, <2>5, <2>6, <2>7
<1>16. ASSUME Quiet', Calm' PROVE Fits(data'.times, saved'[sel'], posts')
  <2>1. Fresh(loads, asked, saved[sel], posts)
    BY <1>3, <1>11, <1>12, <1>16 DEF Quiet
  <2>2. Fits(l.got, saved[sel], posts)
    BY <1>15, <1>16, <2>1 DEF Fresh
  <2> QED
    BY <1>1, <1>15, <1>16, <2>2
<1>17. ASSUME Quiet', view' \in Applying, ~raced' PROVE Untold(data'.times, posts')
  <2>1. Unanswered(loads, posts) /\ l.got # NoData
    BY <1>1, <1>2, <1>11, <1>15, <1>17
  <2> QED
    BY <1>1, <2>1 DEF Unanswered, Untold
<1>18. PlanShownIsSelected'
  <2>1. SUFFICES ASSUME view \in Cancelling, ~loading', ~failed' PROVE data' # NoData /\ data'.key = sel
    BY <1>1 DEF PlanShownIsSelected
  <2>2. CASE Ignores(l)
    BY <1>5, <2>1, <2>2 DEF ViewInv, PlanShownIsSelected
  <2>3. CASE ~Ignores(l)
    <3>1. l.no = asked /\ data' = [key |-> l.key, times |-> l.got] /\ l.got # NoData
      BY <1>5, <2>1, <2>3 DEF Ignores
    <3>2. l.key = sel
      BY <1>11, <2>1, <3>1 DEF ViewInv, Aimed
    <3>3. data' \in Shown
      BY <1>0, <3>1 DEF Shown, Load
    <3> QED
      BY <3>1, <3>2, <3>3, ViewsAssumption DEF Shown
  <2> QED
    BY <2>2, <2>3
<1> QED
  BY <1>2, <1>3, <1>4, <1>6, <1>7, <1>8, <1>9, <1>10, <1>11, <1>12, <1>13, <1>14, <1>15, <1>16, <1>17, <1>18, <1>1
  DEF ViewInv

(* A form is sent.                                                          *)
LEMMA SendStep ==
    ASSUME ViewInv, NEW kind \in Kinds, NEW r \in RowIds, Send(kind, r), view \in Forms,
           view \in Applying \/ kind \notin {"contact", "payment", "remove"}
    PROVE  ViewInv'
<1>0. LoadsInv(loads, asked) /\ PostsInv(posts, saved) /\ DataInv(data, saved, posts) /\ sel \in Keys
  BY DEF ViewInv
<1>1. PICK x : x = [kind |-> kind, row |-> r, key |-> sel, state |-> "sent"]
  OBVIOUS
<1>2. /\ posts' = posts \cup {x} /\ asked' = asked /\ sel' = sel /\ loads' = loads
      /\ view' = view /\ saved' = saved /\ data' = data
      /\ (\A k \in Keys : r \notin saved[k]) /\ (\A p \in posts : p.row # r)
  BY <1>1 DEF Send
<1>3. (~loading' => ~loading) /\ (~failed' => ~failed) /\ (~closed' => ~closed) /\ (closed' => closed)
      /\ (~shuffled' => ~shuffled) /\ (~raced' => ~raced)
  BY DEF Send
<1>4. (~crossed' => ~crossed) /\ (crossed' => crossed)
  BY DEF Send
<1>5. /\ PostsInv(posts', saved) /\ x.kind = kind /\ x.key = sel /\ x.state = "sent"
      /\ (\A d : DataInv(d, saved, posts) => DataInv(d, saved, posts'))
      /\ (\A f : \A k \in Keys : Fits(f, saved[k], posts) => Fits(f, saved[k], posts'))
  BY <1>0, <1>1, <1>2, PostsAreSent
<1>6. LoadsInv(loads', asked') /\ PostsInv(posts', saved') /\ DataInv(data', saved', posts')
  BY <1>0, <1>2, <1>5
<1>7. Aimed(loads, asked, posts, sel) => Aimed(loads', asked', posts', sel')
  BY <1>2, <1>5 DEF Aimed
<1>8. Fresh(loads, asked, saved[sel], posts) => Fresh(loads', asked', saved'[sel'], posts')
  BY <1>0, <1>2, <1>5 DEF Fresh
<1>9. Fits(data.times, saved[sel], posts) => Fits(data'.times, saved'[sel'], posts')
  BY <1>0, <1>2, <1>5
<1>10. Unanswered(loads, posts) => Unanswered(loads', posts')
  BY <1>2, <1>5 DEF Unanswered
<1>11. Untold(data.times, posts) => Untold(data'.times, posts')
  BY <1>2, <1>5 DEF Untold
<1>12. /\ view' \in PageKinds /\ sel' \in Keys /\ view' \in Forms
       /\ (view' \notin Applying => \A p \in posts' : ~Applies(p))
  BY <1>2, <1>5 DEF ViewInv, Applies
<1>13. (view' \in Cancelling => ~crossed') /\ (closed' => view' \in Drilldowns)
  BY <1>2, <1>3, <1>4 DEF ViewInv
<1>14. PlanShownIsSelected'
  BY <1>2, <1>3 DEF ViewInv, PlanShownIsSelected
<1>15. (Quiet' => Quiet) /\ (Calm' => Calm)
  BY <1>2, <1>3, <1>4 DEF Quiet, Calm
<1> QED
  BY <1>2, <1>3, <1>4, <1>6, <1>7, <1>8, <1>9, <1>10, <1>11, <1>12, <1>13, <1>14, <1>15 DEF ViewInv

(* A post is refused, and the page shows it.                                *)
LEMMA RefuseStep ==
    ASSUME ViewInv, NEW p \in posts, ServerRefuses(p) \/ PostRefused(p)
    PROVE  ViewInv'
<1>0. LoadsInv(loads, asked) /\ PostsInv(posts, saved) /\ DataInv(data, saved, posts) /\ sel \in Keys
  BY DEF ViewInv
<1>1. PICK x : x = [p EXCEPT !.state = "refused"]
  OBVIOUS
<1>2. /\ asked' = asked /\ sel' = sel /\ loads' = loads /\ view' = view /\ saved' = saved /\ data' = data
      /\ \/ p.state = "sent" /\ posts' = (posts \ {p}) \cup {x}
         \/ p.state = "refused" /\ posts' = posts \ {p}
  BY <1>1 DEF ServerRefuses, PostRefused
<1>3. (~loading' => ~loading) /\ (~failed' => ~failed) /\ (~closed' => ~closed) /\ (closed' => closed)
      /\ (~shuffled' => ~shuffled) /\ (~raced' => ~raced)
  BY DEF ServerRefuses, PostRefused
<1>4. (~crossed' => ~crossed) /\ (crossed' => crossed)
  BY DEF ServerRefuses, PostRefused
<1>5. /\ PostsInv(posts', saved)
      /\ (\A d : DataInv(d, saved, posts) => DataInv(d, saved, posts'))
      /\ (\A f : \A k \in Keys : Fits(f, saved[k], posts) => Fits(f, saved[k], posts'))
      /\ (\A q \in posts' : \E o \in posts : q.kind = o.kind /\ q.key = o.key)
      /\ (\A q \in posts' : q.state = "stored" => q \in posts)
  <2>1. CASE p.state = "sent" /\ posts' = (posts \ {p}) \cup {x}
    <3>1. /\ PostsInv(posts', saved) /\ x.kind = p.kind /\ x.key = p.key /\ x.state = "refused"
          /\ (\A d : DataInv(d, saved, posts) => DataInv(d, saved, posts'))
          /\ (\A f : \A k \in Keys : Fits(f, saved[k], posts) => Fits(f, saved[k], posts'))
      BY <1>0, <1>1, <2>1, PostsAreRefused
    <3> QED
      BY <2>1, <3>1
  <2>2. CASE p.state = "refused" /\ posts' = posts \ {p}
    <3>1. /\ PostsInv(posts', saved)
          /\ (\A d : DataInv(d, saved, posts) => DataInv(d, saved, posts'))
          /\ (\A f : \A k \in Keys : Fits(f, saved[k], posts) => Fits(f, saved[k], posts'))
      BY <1>0, <2>2, PostsAreTold
    <3> QED
      BY <2>2, <3>1
  <2> QED
    BY <1>2, <2>1, <2>2
<1>6. LoadsInv(loads', asked') /\ PostsInv(posts', saved') /\ DataInv(data', saved', posts')
  BY <1>0, <1>2, <1>5
<1>7. Aimed(loads, asked, posts, sel) => Aimed(loads', asked', posts', sel')
  BY <1>2, <1>5 DEF Aimed
<1>8. Fresh(loads, asked, saved[sel], posts) => Fresh(loads', asked', saved'[sel'], posts')
  BY <1>0, <1>2, <1>5 DEF Fresh
<1>9. Fits(data.times, saved[sel], posts) => Fits(data'.times, saved'[sel'], posts')
  BY <1>0, <1>2, <1>5
<1>10. Unanswered(loads, posts) => Unanswered(loads', posts')
  BY <1>2, <1>5 DEF Unanswered
<1>11. Untold(data.times, posts) => Untold(data'.times, posts')
  BY <1>2, <1>5 DEF Untold
<1>12. /\ view' \in PageKinds /\ sel' \in Keys /\ (view' \notin Forms => posts' = {})
       /\ (view' \notin Applying => \A q \in posts' : ~Applies(q))
  BY <1>2, <1>5 DEF ViewInv, Applies
<1>13. (view' \in Cancelling => ~crossed') /\ (closed' => view' \in Drilldowns)
  BY <1>2, <1>3, <1>4 DEF ViewInv
<1>14. PlanShownIsSelected'
  BY <1>2, <1>3 DEF ViewInv, PlanShownIsSelected
<1>15. (Quiet' => Quiet) /\ (Calm' => Calm)
  BY <1>2, <1>3, <1>4 DEF Quiet, Calm
<1> QED
  BY <1>2, <1>3, <1>4, <1>6, <1>7, <1>8, <1>9, <1>10, <1>11, <1>12, <1>13, <1>14, <1>15 DEF ViewInv

(* The server stores a post.                                                *)
LEMMA StoreStep ==
    ASSUME ViewInv, NEW p \in posts, ServerStores(p)
    PROVE  ViewInv'
<1>0. LoadsInv(loads, asked) /\ PostsInv(posts, saved) /\ DataInv(data, saved, posts) /\ sel \in Keys
  BY DEF ViewInv
<1>1. PICK x : x = [p EXCEPT !.state = "stored"]
  OBVIOUS
<1>2. /\ asked' = asked /\ sel' = sel /\ loads' = loads /\ view' = view /\ data' = data
      /\ p.state = "sent" /\ posts' = (posts \ {p}) \cup {x}
      /\ saved' = [saved EXCEPT ![p.key] = @ \cup {p.row}]
  BY <1>1 DEF ServerStores
<1>3. (~loading' => ~loading) /\ (~failed' => ~failed) /\ (~closed' => ~closed) /\ (closed' => closed)
      /\ (~shuffled' => ~shuffled)
  BY DEF ServerStores
<1>4. (~crossed' => ~crossed) /\ (crossed' => crossed)
  BY DEF ServerStores
<1>5. ~raced' => ~raced /\ loads = {}
  BY DEF ServerStores
<1>6. /\ PostsInv(posts', saved') /\ x.row = p.row /\ x.kind = p.kind /\ x.key = p.key /\ x.state = "stored" /\ p \in Post
      /\ (\A k \in Keys : p.row \notin saved[k])
      /\ (\A d : DataInv(d, saved, posts) => DataInv(d, saved', posts'))
      /\ (\A f : \A s \in Keys : Fits(f, saved[s], posts) => Fits(f, saved'[s], posts'))
  <2>1. PostsInv(posts, saved) /\ p.state = "sent" /\ posts' = (posts \ {p}) \cup {x}
    BY <1>0, <1>2
  <2>2. p \in Post /\ x \in Post /\ x.row = p.row /\ x.kind = p.kind /\ x.key = p.key /\ x.state = "stored"
    BY <1>1, <2>1 DEF PostsInv, Post
  <2>3. p.key \in Keys /\ p.row \in RowIds /\ saved \in [Keys -> SUBSET RowIds] /\ \A k \in Keys : p.row \notin saved[k]
    BY <2>1, <2>2 DEF PostsInv, Post
  <2>4. saved' \in [Keys -> SUBSET RowIds]
    BY <1>2, <2>3
  <2>5. \A k \in Keys : \A r : r \in saved'[k] <=> r \in saved[k] \/ (k = p.key /\ r = p.row)
    BY <1>2, <2>3
  <2>6. /\ PostsInv(posts', saved')
        /\ (\A d : DataInv(d, saved, posts) => DataInv(d, saved', posts'))
        /\ (\A f : \A s \in Keys : Fits(f, saved[s], posts) => Fits(f, saved'[s], posts'))
    <3>1. Storing(posts, saved, p, x, posts', saved')
      BY <2>1, <2>2, <2>4, <2>5 DEF Storing
    <3> QED
      BY <3>1, PostsAreStored, Zenon
  <2> QED
    BY <2>2, <2>3, <2>6
<1>7. LoadsInv(loads', asked') /\ PostsInv(posts', saved') /\ DataInv(data', saved', posts')
  BY <1>0, <1>2, <1>6
<1>8. Aimed(loads, asked, posts, sel) => Aimed(loads', asked', posts', sel')
  BY <1>2, <1>6 DEF Aimed
<1>9. Fresh(loads, asked, saved[sel], posts) => Fresh(loads', asked', saved'[sel'], posts')
  BY <1>0, <1>2, <1>6 DEF Fresh
<1>10. Fits(data.times, saved[sel], posts) => Fits(data'.times, saved'[sel'], posts')
  BY <1>0, <1>2, <1>6
<1>11. ~raced' => Unanswered(loads', posts')
  BY <1>2, <1>5 DEF Unanswered
<1>12. Untold(data.times, posts) /\ Fits(data.times, saved[sel], posts) => Untold(data'.times, posts')
  <2>1. p.row \in RowIds
    BY <1>6 DEF Post
  <2>2. Fits(data.times, saved[sel], posts) => data.times[p.row] = 0
    BY <1>0, <1>6, <2>1 DEF Fits
  <2> QED
    BY <1>2, <1>6, <2>2 DEF Untold
<1>13. /\ view' \in PageKinds /\ sel' \in Keys /\ (view' \notin Forms => posts' = {})
       /\ (view' \notin Applying => \A q \in posts' : ~Applies(q))
  BY <1>2, <1>6 DEF ViewInv, Applies
<1>14. (view' \in Cancelling => ~crossed') /\ (closed' => view' \in Drilldowns)
  BY <1>2, <1>3, <1>4 DEF ViewInv
<1>15. PlanShownIsSelected'
  BY <1>2, <1>3 DEF ViewInv, PlanShownIsSelected
<1>16. (Quiet' => Quiet) /\ (Calm' => Calm) /\ (view' \in Applying /\ ~raced' => Calm)
  BY <1>2, <1>3, <1>4, <1>5 DEF Quiet, Calm
<1> QED
  BY <1>2, <1>3, <1>4, <1>5, <1>7, <1>8, <1>9, <1>10, <1>11, <1>12, <1>13, <1>14, <1>15, <1>16 DEF ViewInv

(* The page is told that a post was stored, and loads again.                *)
LEMMA ReloadStep ==
    ASSUME ViewInv, NEW p \in posts, ReloadAfter(p)
    PROVE  ViewInv'
<1>0. LoadsInv(loads, asked) /\ PostsInv(posts, saved) /\ DataInv(data, saved, posts) /\ sel \in Keys
  BY DEF ViewInv
<1>1. PICK x : x = [no |-> asked + 1, key |-> p.key, got |-> NoData]
  OBVIOUS
<1>2. /\ asked < MaxLoads /\ asked' = asked + 1 /\ loads' = loads \cup {x} /\ sel' = sel
      /\ view' = view /\ posts' = posts \ {p} /\ saved' = saved /\ data' = data
  BY <1>1 DEF ReloadAfter, Ask
<1>3. loading' /\ (closed' => closed)
  BY DEF ReloadAfter, Ask
<1>4. (~crossed' => ~crossed) /\ (crossed' => crossed)
  BY DEF ReloadAfter
<1>5. ~raced' => ~raced
  BY DEF ReloadAfter
<1>6. /\ p \in Post /\ PostsInv(posts', saved) /\ (\A d : DataInv(d, saved, posts) => DataInv(d, saved, posts'))
  BY <1>0, <1>2, PostsAreTold
<1>7. p.key \in Keys
  BY <1>6 DEF Post
<1>8. /\ LoadsInv(loads', asked') /\ Newest(loads', asked') /\ (\A l \in loads' : l.no = asked' => l = x)
      /\ (Unanswered(loads, posts) => Unanswered(loads', posts))
  BY <1>0, <1>1, <1>2, <1>7, AskingLoads
<1>9. x.key = p.key /\ x.got = NoData /\ loads' # {}
  BY <1>1, <1>2
<1>10. ~crossed' => Aimed(loads', asked', posts', sel')
  BY <1>2, <1>4, <1>8, <1>9 DEF ViewInv, Aimed
<1>11. Fresh(loads', asked', saved'[sel'], posts')
  BY <1>8, <1>9 DEF Fresh
<1>12. /\ view' \in PageKinds /\ sel' \in Keys /\ (view' \notin Forms => posts' = {})
       /\ (view' \notin Applying => \A q \in posts' : ~Applies(q))
  BY <1>2 DEF ViewInv
<1>13. (view' \in Cancelling => ~crossed') /\ (closed' => view' \in Drilldowns)
  BY <1>2, <1>3, <1>4 DEF ViewInv
<1>14. view' \in Applying /\ ~raced' => Unanswered(loads', posts')
  BY <1>2, <1>5, <1>8 DEF ViewInv, Unanswered
<1>15. PostsInv(posts', saved') /\ DataInv(data', saved', posts')
  BY <1>0, <1>2, <1>6
<1> QED
  BY <1>2, <1>3, <1>8, <1>9, <1>10, <1>11, <1>12, <1>13, <1>14, <1>15
  DEF ViewInv, Quiet, PlanShownIsSelected

(* The page is told that a post was stored, and applies it to its data.     *)
LEMMA ApplyStep ==
    ASSUME ViewInv, NEW p \in posts, ApplyResult(p)
    PROVE  ViewInv'
<1>0. LoadsInv(loads, asked) /\ PostsInv(posts, saved) /\ DataInv(data, saved, posts) /\ sel \in Keys
  BY DEF ViewInv
<1>1. /\ asked' = asked /\ sel' = sel /\ loads' = loads /\ view' = view /\ saved' = saved /\ posts' = posts \ {p}
      /\ p.state = "stored" /\ Applies(p)
  BY DEF ApplyResult
<1>2. (~loading' => ~loading) /\ (~failed' => ~failed) /\ (~closed' => ~closed) /\ (closed' => closed)
      /\ (~shuffled' => ~shuffled) /\ (~raced' => ~raced)
  BY DEF ApplyResult
<1>3. (~crossed' => ~crossed) /\ (crossed' => crossed)
  BY DEF ApplyResult
<1>4. view \in Applying /\ view \notin Cancelling
  BY <1>1 DEF ViewInv, Applying, Cancelling
<1>5. /\ p \in Post /\ PostsInv(posts', saved)
      /\ (\A d : DataInv(d, saved, posts) => DataInv(d, saved, posts'))
      /\ (\A f : \A s \in Keys : Fits(f, saved[s], posts) =>
            \A r \in RowIds : (r \notin saved[s] => f[r] = 0) /\ (r \in saved[s] /\ r # p.row /\ ~Pending(posts', r) => f[r] = 1))
  <2>1. PostsInv(posts, saved) /\ posts' = posts \ {p}
    BY <1>0, <1>1
  <2>2. /\ p \in Post /\ PostsInv(posts \ {p}, saved)
        /\ (\A d : DataInv(d, saved, posts) => DataInv(d, saved, posts \ {p}))
    BY <2>1, PostsAreTold
  <2>3. ASSUME NEW f, NEW s \in Keys, Fits(f, saved[s], posts), NEW r \in RowIds
        PROVE  (r \notin saved[s] => f[r] = 0) /\ (r \in saved[s] /\ r # p.row /\ ~Pending(posts \ {p}, r) => f[r] = 1)
    BY <2>3 DEF Fits, Pending
  <2> QED
    BY <2>1, <2>2, <2>3
<1>6. p.row \in RowIds /\ p.key \in Keys /\ p.row \in saved[p.key] /\ \A q \in posts' : q.row # p.row
  BY <1>0, <1>1, <1>5 DEF Post, PostsInv
<1>7. ASSUME data # NoData
      PROVE  /\ data \in Shown /\ data' \in Shown /\ data'.key = data.key
             /\ \A r \in RowIds \ {p.row} : data'.times[r] = data.times[r]
             /\ data.times[p.row] = 0 => data'.times[p.row] = 1
  <2>1. data \in Shown /\ \A r \in RowIds : data.times[r] = 2 => \A q \in posts : q.row # r
    BY <1>0, <1>7 DEF DataInv
  <2>2. data.times[p.row] \in 0 .. 1 /\ data.times \in [RowIds -> 0 .. 2] /\ data.key \in Keys
    BY <1>6, <2>1 DEF Shown
  <2>3. data' = [data EXCEPT !.times[p.row] = 1] \/ data' = [data EXCEPT !.times[p.row] = @ + 1]
    BY <1>7 DEF ApplyResult
  <2>4. PICK c : c \in {1, data.times[p.row] + 1} /\ data' = [data EXCEPT !.times[p.row] = c]
    BY <2>3
  <2>5. c \in 0 .. 2 /\ (data.times[p.row] = 0 => c = 1)
    BY <2>2, <2>4
  <2>6. PICK g : g = [data.times EXCEPT ![p.row] = c]
    OBVIOUS
  <2>7. g \in [RowIds -> 0 .. 2] /\ g[p.row] = c /\ \A r \in RowIds \ {p.row} : g[r] = data.times[r]
    BY <1>6, <2>2, <2>5, <2>6
  <2>8. data' = [data EXCEPT !.times = g]
    BY <2>4, <2>6
  <2>9. data' \in Shown /\ data'.key = data.key /\ data'.times = g
    BY <2>1, <2>7, <2>8 DEF Shown
  <2> QED
    BY <2>1, <2>5, <2>7, <2>9
<1>8. DataInv(data', saved, posts')
  <2>1. CASE data # NoData
    <3>1. \A r \in RowIds : data.times[r] = 2 => (\E k \in Keys : r \in saved[k]) /\ \A q \in posts : q.row # r
      BY <1>0, <2>1 DEF DataInv
    <3>2. ASSUME NEW r \in RowIds, data'.times[r] = 2
          PROVE  (\E k \in Keys : r \in saved[k]) /\ \A q \in posts' : q.row # r
      <4>1. CASE r = p.row
        BY <1>6, <4>1
      <4>2. CASE r # p.row
        BY <1>1, <1>7, <2>1, <3>1, <3>2, <4>2
      <4> QED
        BY <4>1, <4>2
    <3> QED
      BY <1>7, <2>1, <3>2 DEF DataInv
  <2>2. CASE data = NoData
    <3>1. data' = NoData \/ data' = [key |-> sel, times |-> Once({p.row})]
      BY <2>2 DEF ApplyResult
    <3>2. CASE data' = NoData
      BY <3>2 DEF DataInv
    <3>3. CASE data' = [key |-> sel, times |-> Once({p.row})]
      <4>1. Once({p.row}) \in [RowIds -> 0 .. 1]
        BY DEF Once
      <4>2. data' \in Shown /\ \A r \in RowIds : data'.times[r] # 2
        BY <1>0, <3>3, <4>1 DEF Shown
      <4> QED
        BY <4>2 DEF DataInv
    <3> QED
      BY <3>1, <3>2, <3>3
  <2> QED
    BY <2>1, <2>2
<1>9. LoadsInv(loads', asked') /\ PostsInv(posts', saved') /\ DataInv(data', saved', posts')
  BY <1>0, <1>1, <1>5, <1>8
<1>10. Aimed(loads, asked, posts, sel) => Aimed(loads', asked', posts', sel')
  BY <1>1 DEF Aimed
<1>11. (Quiet' => Quiet) /\ (Calm' => Calm) /\ (Calm <=> ~raced) /\ (Calm' <=> ~raced')
  BY <1>1, <1>2, <1>3, <1>4 DEF Quiet, Calm
<1>12. /\ (~shuffled => Newest(loads, asked)) /\ (~crossed => Aimed(loads, asked, posts, sel))
       /\ (~raced => Unanswered(loads, posts))
  BY <1>4 DEF ViewInv
<1>13. ~raced' => Fresh(loads', asked', saved'[sel'], posts')
  BY <1>1, <1>2, <1>12 DEF Unanswered, Fresh
<1>14. Unanswered(loads, posts) => Unanswered(loads', posts')
  BY <1>1 DEF Unanswered
<1>15. Quiet' => data' # NoData /\ data'.key = sel'
  <2>1. Quiet => data # NoData /\ data.key = sel
    BY DEF ViewInv
  <2> QED
    BY <1>1, <1>7, <1>11, <2>1, ViewsAssumption DEF Shown
<1>16. ASSUME Quiet', ~raced' PROVE Fits(data'.times, saved'[sel'], posts') /\ Untold(data'.times, posts')
  <2>1. Quiet /\ Calm /\ ~raced
    BY <1>11, <1>16
  <2>2. data # NoData /\ Fits(data.times, saved[sel], posts) /\ Untold(data.times, posts)
    BY <1>4, <2>1 DEF ViewInv
  <2>3. data.times[p.row] = 0
    BY <1>1, <2>2 DEF Untold
  <2>4. p.row \in saved[sel]
    <3>1. Aimed(loads, asked, posts, sel)
      BY <1>12, <2>1 DEF Quiet
    <3> QED
      BY <1>6, <3>1 DEF Aimed
  <2>5. /\ data'.times[p.row] = 1 /\ \A r \in RowIds \ {p.row} : data'.times[r] = data.times[r]
    BY <1>7, <2>2, <2>3
  <2>6. Fits(data'.times, saved[sel], posts')
    BY <1>0, <1>5, <2>2, <2>4, <2>5 DEF Fits
  <2>7. Untold(data'.times, posts')
    <3>1. \A q \in posts' : q.row \in RowIds
      BY <1>5 DEF PostsInv, Post
    <3> QED
      BY <1>1, <1>6, <2>2, <2>5, <3>1 DEF Untold
  <2> QED
    BY <1>1, <2>6, <2>7
<1>17. /\ view' \in PageKinds /\ sel' \in Keys /\ (view' \notin Forms => posts' = {})
       /\ (view' \notin Applying => \A q \in posts' : ~Applies(q))
  BY <1>1 DEF ViewInv
<1>18. (view' \in Cancelling => ~crossed') /\ (closed' => view' \in Drilldowns)
  BY <1>1, <1>2, <1>3 DEF ViewInv
<1>19. PlanShownIsSelected'
  BY <1>1, <1>4 DEF PlanShownIsSelected
<1>20. (~shuffled' => Newest(loads', asked')) /\ (~crossed' => Aimed(loads', asked', posts', sel'))
       /\ (~raced' => Unanswered(loads', posts'))
  BY <1>1, <1>2, <1>3, <1>10, <1>12, <1>14
<1> QED
  BY <1>9, <1>11, <1>13, <1>15, <1>16, <1>17, <1>18, <1>19, <1>20 DEF ViewInv

(* Every step of a page keeps its invariant.                                *)
LEMMA ViewSteps ==
    ASSUME ViewInv, ViewNext \/ UNCHANGED viewVars
    PROVE  ViewInv'
<1>1. CASE UNCHANGED viewVars
  <2>1. /\ asked' = asked /\ sel' = sel /\ loads' = loads /\ view' = view /\ saved' = saved /\ posts' = posts /\ data' = data
    BY <1>1 DEF viewVars
  <2>2. (~loading' => ~loading) /\ (~failed' => ~failed) /\ (~closed' => ~closed) /\ (closed' => closed)
        /\ (~shuffled' => ~shuffled) /\ (~raced' => ~raced)
    BY <1>1 DEF viewVars
  <2>3. (~crossed' => ~crossed) /\ (crossed' => crossed)
    BY <1>1 DEF viewVars
  <2>4. (Quiet' => Quiet) /\ (Calm' => Calm)
    BY <2>1, <2>2, <2>3 DEF Quiet, Calm
  <2>5. PlanShownIsSelected'
    BY <2>1, <2>2 DEF ViewInv, PlanShownIsSelected
  <2> QED
    BY <2>1, <2>2, <2>3, <2>4, <2>5 DEF ViewInv
<1>2. ASSUME NEW k \in Keys,
             \/ LeadQueueFilter(k) \/ CaseQueueFilter(k) \/ InvoiceStatusFilter(k) \/ TierTrendPeriod(k) \/ ApprovalsTab(k)
             \/ PlanOfCase(k) \/ AgingDrilldown(k) \/ SelectCustomer(k) \/ CampaignEntity(k) \/ LeadFromBell(k)
      PROVE  ViewInv'
  <2>1. Reselect(k) /\ data' \in {data, NoData}
    BY <1>2 DEF LeadQueueFilter, CaseQueueFilter, InvoiceStatusFilter, TierTrendPeriod, ApprovalsTab,
                PlanOfCase, AgingDrilldown, SelectCustomer, CampaignEntity, LeadFromBell
  <2> QED
    BY <2>1, ReselectStep
<1>3. ASSUME NEW r \in RowIds,
             \/ SendStageChange(r) \/ SendQuickAction(r) \/ SendRetriggerKyc(r) \/ SendContactLog(r) \/ SendPaymentPlan(r)
             \/ SendSettlement(r) \/ SendPayment(r) \/ SendReview(r) \/ SendDecision(r) \/ SendRemovePasskey(r) \/ SendNewPasskey(r)
      PROVE  ViewInv'
  <2>1. r \notin {"contact", "payment", "remove"}
    BY ViewsAssumption
  <2>2. PICK kind \in Kinds : /\ Send(kind, r) /\ view \in Forms
                              /\ (view \in Applying \/ kind \notin {"contact", "payment", "remove"})
    BY <1>3, <2>1 DEF SendStageChange, SendQuickAction, SendRetriggerKyc, SendContactLog, SendPaymentPlan, SendSettlement,
                      SendPayment, SendReview, SendDecision, SendRemovePasskey, SendNewPasskey, Kinds, Forms, Applying
  <2> QED
    BY <2>2, SendStep
<1> QED
  BY <1>1, <1>2, <1>3, CloseStep, OpenStep, RefreshStep, ReadStep, ArriveStep, StoreStep, RefuseStep, ApplyStep, ReloadStep
  DEF ViewNext

(* loading and failed are Booleans.                                         *)
Spinners == loading \in BOOLEAN /\ failed \in BOOLEAN

(* Every step of a page keeps them so.                                      *)
LEMMA SpinnerSteps ==
    /\ ViewInit => Spinners
    /\ Spinners /\ (ViewNext \/ UNCHANGED viewVars) => Spinners'
<1>1. ViewInit => Spinners
  BY Zenon DEF ViewInit, Spinners
<1>2. ASSUME Spinners, ViewNext \/ UNCHANGED viewVars PROVE Spinners'
  BY <1>2, ZenonT(60) DEF Spinners, viewVars, ViewNext, CloseDetail, RefreshReviews, Ask, Reselect, OpenAnother,
       LeadQueueFilter, CaseQueueFilter, InvoiceStatusFilter, TierTrendPeriod, ApprovalsTab,
       PlanOfCase, AgingDrilldown, SelectCustomer, CampaignEntity, LeadFromBell,
       SendStageChange, SendQuickAction, SendRetriggerKyc, SendContactLog, SendPaymentPlan, SendSettlement,
       SendPayment, SendReview, SendDecision, SendRemovePasskey, SendNewPasskey, Send,
       ServerReads, LoadArrives, LoadFails, ServerStores, ServerRefuses, PostRefused, ApplyResult, ReloadAfter
<1> QED
  BY <1>1, <1>2

(* What the invariant of the pages promises.                                *)
LEMMA ViewPromise ==
    ASSUME ViewInv, Spinners
    PROVE  ViewTypeOK /\ PlanShownIsSelected /\ SettledShowsSelection /\ SavedIsShownOnce
<1>1. view \in PageKinds /\ sel \in Keys /\ LoadsInv(loads, asked) /\ PostsInv(posts, saved) /\ DataInv(data, saved, posts)
      /\ PlanShownIsSelected
  BY DEF ViewInv
<1>2. data = NoData \/ (data.key \in Keys /\ \A r \in RowIds : data.times[r] \in 0 .. 2)
  BY <1>1 DEF DataInv, Shown
<1>3. Cardinality(loads) <= MaxLoads /\ \A l \in loads : l.no \in 1 .. asked
  <2>1. PICK c \in Nat : c = Cardinality(loads)
    BY <1>1, FS_CardinalityType DEF LoadsInv
  <2> QED
    BY <1>1, <2>1, ViewsAssumption DEF LoadsInv
<1>4. \A p \in posts : p.row \in RowIds /\ p.state \in {"sent", "stored", "refused"}
  BY <1>1 DEF PostsInv, Post
<1>5. ViewTypeOK
  BY <1>1, <1>2, <1>3, <1>4, Zenon DEF ViewTypeOK, Spinners
<1>6. SettledShowsSelection
  BY DEF ViewInv, Quiet, SettledShowsSelection
<1>7. SavedIsShownOnce
  <2>1. SUFFICES ASSUME view \in Forms, loads = {}, posts = {}, ~failed, ~shuffled, ~crossed, Calm, NEW r \in RowIds
                 PROVE  data.times[r] = IF r \in saved[sel] THEN 1 ELSE 0
    BY DEF SavedIsShownOnce, Calm, Applying
  <2>2. view \notin Drilldowns
    BY <2>1 DEF Forms, Drilldowns
  <2>3. ~closed
    BY <2>2 DEF ViewInv
  <2>4. Quiet
    BY <2>1, <2>3 DEF Quiet
  <2>5. Fits(data.times, saved[sel], posts)
    BY <2>1, <2>4 DEF ViewInv
  <2>6. ~Pending(posts, r)
    BY <2>1 DEF Pending
  <2> QED
    BY <2>5, <2>6 DEF Fits
<1> QED
  BY <1>1, <1>5, <1>6, <1>7

--------------------------------------------------------------------------------
(* The bell.                                                                *)

(* The badge counts no more than the list holds.                            *)
BellInv ==
    /\ unread \subseteq created /\ created \subseteq Notices /\ shown \subseteq created
    /\ count \in Nat /\ count <= Cardinality(shown)
    /\ polls \in [Polls -> [state : {Idle, "asked", "answered"}, rows : SUBSET created]]
    /\ click \in [state : {Idle, "sent", "answered"}, of : {{}} \cup {{n} : n \in created}]

(* A set of notices is finite, and taking off one takes one off its number. *)
LEMMA NoticesAreFew ==
    ASSUME NEW S \in SUBSET Notices
    PROVE  /\ IsFiniteSet(S) /\ Cardinality(S) \in Nat /\ Cardinality(S) <= Cardinality(Notices)
           /\ \A n : Cardinality(S \ {n}) >= Cardinality(S) - 1
<1>1. IsFiniteSet(S) /\ Cardinality(S) <= Cardinality(Notices)
  BY BellAssumption, FS_Subset
<1>2. Cardinality(S) \in Nat
  BY <1>1, FS_CardinalityType
<1>3. ASSUME NEW n PROVE Cardinality(S \ {n}) >= Cardinality(S) - 1
  <2>1. CASE n \in S
    <3>1. Cardinality(S \ {n}) = Cardinality(S) - 1
      BY <1>1, <2>1, FS_RemoveElement
    <3>2. PICK c \in Nat : c = Cardinality(S)
      BY <1>2
    <3>3. c - 1 >= c - 1
      OBVIOUS
    <3> QED
      BY <3>1, <3>2, <3>3
  <2>2. CASE n \notin S
    <3>1. Cardinality(S \ {n}) = Cardinality(S)
      <4>1. S \ {n} = S
        BY <2>2
      <4> QED
        BY <4>1
    <3>2. PICK c \in Nat : c = Cardinality(S)
      BY <1>2
    <3>3. c >= c - 1
      OBVIOUS
    <3> QED
      BY <3>1, <3>2, <3>3
  <2> QED
    BY <2>1, <2>2
<1> QED
  BY <1>1, <1>2, <1>3

(* Polls and reads, however they cross.                                     *)
LEMMA BellSteps ==
    /\ BellInit => BellInv
    /\ BellInv /\ (BellNext \/ UNCHANGED bellVars) => BellInv' /\ unread \ unread' \subseteq click.of
<1>1. ASSUME BellInit PROVE BellInv
  BY <1>1, FS_EmptySet DEF BellInit, BellInv
<1>2. ASSUME BellInv, BellNext \/ UNCHANGED bellVars PROVE BellInv' /\ unread \ unread' \subseteq click.of
  <2>0. PICK Reply : Reply = [state : {Idle, "asked", "answered"}, rows : SUBSET created]
    OBVIOUS
  <2>1. CASE UNCHANGED bellVars
    BY <1>2, <2>1 DEF BellInv, bellVars
  <2>2. ASSUME NEW n \in Notices, CreateNotification(n) PROVE BellInv' /\ unread \ unread' \subseteq click.of
    <3>1. /\ created' = created \cup {n} /\ unread' = unread \cup {n} /\ UNCHANGED <<shown, count, polls, click>>
      BY <2>2 DEF CreateNotification
    <3>2. polls' \in [Polls -> [state : {Idle, "asked", "answered"}, rows : SUBSET created']]
      BY <1>2, <3>1 DEF BellInv
    <3>3. click' \in [state : {Idle, "sent", "answered"}, of : {{}} \cup {{m} : m \in created'}]
      BY <1>2, <3>1 DEF BellInv
    <3> QED
      BY <1>2, <3>1, <3>2, <3>3 DEF BellInv
  <2>3. ASSUME NEW n \in Notices, HandleNotificationClick(n) PROVE BellInv' /\ unread \ unread' \subseteq click.of
    BY <1>2, <2>3 DEF BellInv, HandleNotificationClick
  <2>4. ASSUME NEW i \in Polls, NEW q \in [state : {Idle, "asked", "answered"}, rows : SUBSET created],
               polls' = [polls EXCEPT ![i] = q], UNCHANGED <<unread, created, click>>,
               (UNCHANGED <<shown, count>>) \/ (shown' \subseteq created /\ count' = Cardinality(shown'))
        PROVE  BellInv' /\ unread \ unread' \subseteq click.of
    <3>1. polls' \in [Polls -> [state : {Idle, "asked", "answered"}, rows : SUBSET created]]
      BY <1>2, <2>4 DEF BellInv
    <3>2. shown' \subseteq created /\ count' \in Nat /\ count' <= Cardinality(shown')
      <4>1. CASE UNCHANGED <<shown, count>>
        BY <1>2, <4>1 DEF BellInv
      <4>2. CASE shown' \subseteq created /\ count' = Cardinality(shown')
        BY <1>2, <4>2, NoticesAreFew DEF BellInv
      <4> QED
        BY <2>4, <4>1, <4>2
    <3> QED
      BY <1>2, <2>4, <3>1, <3>2 DEF BellInv
  <2>5. ASSUME NEW i \in Polls, FetchNotifications(i) \/ GetUnreadNotifications(i) \/ PollArrives(i) \/ PollFails(i)
        PROVE  BellInv' /\ unread \ unread' \subseteq click.of
    <3>0. polls[i] \in [state : {Idle, "asked", "answered"}, rows : SUBSET created] /\ unread \subseteq created
          /\ UNCHANGED <<unread, created, click>>
      BY <1>2, <2>5 DEF BellInv, FetchNotifications, GetUnreadNotifications, PollArrives, PollFails
    <3>1. CASE FetchNotifications(i)
      <4>1. PICK q : q = [polls[i] EXCEPT !.state = "asked"]
        OBVIOUS
      <4>2. polls' = [polls EXCEPT ![i] = q] /\ UNCHANGED <<shown, count>>
        BY <3>1, <4>1 DEF FetchNotifications
      <4>3. q \in [state : {Idle, "asked", "answered"}, rows : SUBSET created]
        BY <3>0, <4>1
      <4> QED
        BY <2>4, <3>0, <4>2, <4>3
    <3>2. CASE GetUnreadNotifications(i)
      <4>1. PICK q : q = [state |-> "answered", rows |-> unread]
        OBVIOUS
      <4>2. polls' = [polls EXCEPT ![i] = q] /\ UNCHANGED <<shown, count>>
        BY <3>2, <4>1 DEF GetUnreadNotifications
      <4>3. q \in [state : {Idle, "asked", "answered"}, rows : SUBSET created]
        BY <3>0, <4>1
      <4> QED
        BY <2>4, <3>0, <4>2, <4>3
    <3>3. CASE PollArrives(i) \/ PollFails(i)
      <4>1. PICK q : q = [state |-> Idle, rows |-> {}]
        OBVIOUS
      <4>2. /\ polls' = [polls EXCEPT ![i] = q]
            /\ (UNCHANGED <<shown, count>>) \/ (shown' \subseteq created /\ count' = Cardinality(shown'))
        BY <3>0, <3>3, <4>1 DEF PollArrives, PollFails
      <4>3. q \in [state : {Idle, "asked", "answered"}, rows : SUBSET created]
        BY <4>1
      <4> QED
        BY <2>4, <3>0, <4>2, <4>3
    <3> QED
      BY <2>5, <3>1, <3>2, <3>3
  <2>6. CASE MarkNotificationRead \/ ReadRefused \/ ReadLost
    <3>1. /\ click' \in [state : {Idle, "sent", "answered"}, of : {{}} \cup {{m} : m \in created}]
          /\ UNCHANGED <<created, shown, count, polls>> /\ unread' \in {unread, unread \ click.of}
      BY <1>2, <2>6 DEF BellInv, MarkNotificationRead, ReadRefused, ReadLost
    <3> QED
      BY <1>2, <3>1 DEF BellInv
  <2>7. CASE MarkRead
    <3>1. /\ click' = [state |-> Idle, of |-> {}] /\ shown' = shown \ click.of
          /\ count' = (IF count = 0 THEN 0 ELSE count - 1) /\ UNCHANGED <<unread, created, polls>>
      BY <2>7 DEF MarkRead
    <3>2. shown \subseteq Notices /\ shown' \subseteq Notices
      BY <1>2, <3>1 DEF BellInv
    <3>3. Cardinality(shown) \in Nat /\ Cardinality(shown') \in Nat /\ Cardinality(shown') >= Cardinality(shown) - 1
      <4>1. CASE click.of = {}
        <5>1. shown' = shown
          BY <3>1, <4>1
        <5> QED
          BY <3>2, <5>1, NoticesAreFew
      <4>2. CASE \E n \in created : click.of = {n}
        BY <3>1, <3>2, <4>2, NoticesAreFew
      <4> QED
        BY <1>2, <4>1, <4>2 DEF BellInv
    <3>4. count' \in Nat /\ count' <= Cardinality(shown')
      BY <1>2, <3>1, <3>3 DEF BellInv
    <3>5. click' \in [state : {Idle, "sent", "answered"}, of : {{}} \cup {{m} : m \in created}]
      BY <3>1
    <3> QED
      BY <1>2, <3>1, <3>4, <3>5 DEF BellInv
  <2> QED
    BY <1>2, <2>1, <2>2, <2>3, <2>5, <2>6, <2>7 DEF BellNext
<1> QED
  BY <1>1, <1>2

(* What the invariant of the bell promises.                                 *)
LEMMA BellPromise ==
    ASSUME BellInv
    PROVE  BellTypeOK /\ BadgeNeverOvercounts
<1>1. shown \subseteq Notices
  BY DEF BellInv
<1>2. count \in 0 .. Cardinality(Notices)
  BY <1>1, NoticesAreFew, BellAssumption, FS_CardinalityType DEF BellInv
<1>3. Cardinality(click.of) <= 1
  <2>1. CASE click.of = {}
    <3>1. Cardinality(click.of) = 0
      BY <2>1, FS_EmptySet
    <3> QED
      BY <3>1
  <2>2. ASSUME NEW n \in created, click.of = {n} PROVE Cardinality(click.of) <= 1
    <3>1. Cardinality(click.of) = 1
      BY <2>2, FS_Singleton
    <3> QED
      BY <3>1
  <2> QED
    BY <2>1, <2>2 DEF BellInv
<1>4. \A i \in Polls : polls[i].state \in {Idle, "asked", "answered"} /\ polls[i].rows \subseteq created
  BY DEF BellInv
<1>5. click.state \in {Idle, "sent", "answered"} /\ click.of \subseteq created
  BY DEF BellInv
<1> QED
  BY <1>2, <1>3, <1>4, <1>5 DEF BellInv, BellTypeOK, BadgeNeverOvercounts

--------------------------------------------------------------------------------
(* The scenario of the portfolio page.                                      *)

ScenarioInv ==
    /\ segments \in {NoSegments, "portfolio"} /\ controls \in Controls
    /\ displayed \in [of : {NoSegments, "portfolio"}, with : Controls] /\ fetching \in {"both", "one", "done"}
    /\ ShownIsTheScenario

(* The two Boolean states of the page.                                      *)
Marks == scenarioActive \in BOOLEAN /\ effectDue \in BOOLEAN

(* Controls, answers and effects in any order.                              *)
LEMMA ScenarioSteps ==
    /\ ScenarioInit => ScenarioInv
    /\ ScenarioInv /\ (ScenarioNext \/ UNCHANGED scenarioVars) => ScenarioInv'
<1>0. Default \in Controls
  BY DEF Default, Controls
<1>1. ASSUME ScenarioInit PROVE ScenarioInv
  BY <1>0, <1>1 DEF ScenarioInit, ScenarioInv, ShownIsTheScenario
<1>2. ASSUME ScenarioInv, ScenarioNext \/ UNCHANGED scenarioVars PROVE ScenarioInv'
  <2>1. CASE OneAnswers \/ PortfolioFails \/ UNCHANGED scenarioVars
    <3>1. /\ UNCHANGED <<segments, controls, displayed>> /\ effectDue' = effectDue /\ scenarioActive' = scenarioActive
          /\ fetching' \in {"both", "one", "done"}
      BY <1>2, <2>1 DEF OneAnswers, PortfolioFails, scenarioVars, ScenarioInv
    <3> QED
      BY <1>2, <3>1 DEF ScenarioInv, ShownIsTheScenario
  <2>2. CASE BothAnswered
    BY <1>0, <1>2, <2>2 DEF BothAnswered, ScenarioInv, ShownIsTheScenario
  <2>3. CASE ApplyScenario
    BY <1>2, <2>3 DEF ApplyScenario, ScenarioInv, ShownIsTheScenario
  <2>4. CASE HandleReset
    BY <1>0, <1>2, <2>4 DEF HandleReset, ScenarioInv, ShownIsTheScenario
  <2>5. ASSUME NEW c \in Controls, SetControl(c) PROVE ScenarioInv'
    BY <1>2, <2>5 DEF SetControl, ScenarioInv, ShownIsTheScenario
  <2> QED
    BY <1>2, <2>1, <2>2, <2>3, <2>4, <2>5 DEF ScenarioNext
<1> QED
  BY <1>1, <1>2

(* They are TRUE or FALSE.                                                  *)
LEMMA MarkSteps ==
    /\ ScenarioInit => Marks
    /\ Marks /\ (ScenarioNext \/ UNCHANGED scenarioVars) => Marks'
<1>1. ScenarioInit => Marks
  BY DEF ScenarioInit, Marks
<1>2. ASSUME Marks, ScenarioNext \/ UNCHANGED scenarioVars PROVE Marks'
  <2>1. CASE UNCHANGED scenarioVars
    BY <1>2, <2>1, Zenon DEF Marks, scenarioVars
  <2>2. CASE OneAnswers \/ PortfolioFails
    BY <1>2, <2>2, Zenon DEF Marks, OneAnswers, PortfolioFails
  <2>3. CASE BothAnswered
    BY <1>2, <2>3, Zenon DEF Marks, BothAnswered
  <2>4. CASE ApplyScenario
    BY <1>2, <2>4, Zenon DEF Marks, ApplyScenario
  <2>5. CASE HandleReset
    BY <1>2, <2>5, Zenon DEF Marks, HandleReset
  <2>6. ASSUME NEW c \in Controls, SetControl(c) PROVE Marks'
    BY <1>2, <2>6, Zenon DEF Marks, SetControl
  <2> QED
    BY <1>2, <2>1, <2>2, <2>3, <2>4, <2>5, <2>6, Zenon DEF ScenarioNext
<1> QED
  BY <1>1, <1>2, Zenon

(* What the two promise.                                                    *)
LEMMA ScenarioPromise == ScenarioInv /\ Marks => ScenarioTypeOK /\ ShownIsTheScenario
<1> SUFFICES ASSUME ScenarioInv, Marks PROVE ScenarioTypeOK
  BY DEF ScenarioInv
<1>1. {scenarioActive, effectDue} \subseteq BOOLEAN
  BY Zenon DEF Marks
<1>2. /\ segments \in {NoSegments, "portfolio"} /\ controls \in Controls
      /\ displayed.of \in {NoSegments, "portfolio"} /\ displayed.with \in Controls /\ fetching \in {"both", "one", "done"}
  BY DEF ScenarioInv
<1> QED
  BY <1>1, <1>2, Zenon DEF ScenarioTypeOK

--------------------------------------------------------------------------------
(* The invariants of the client's parts, side by side.                      *)
ClientsInv == ClientInv /\ ViewInv /\ Spinners /\ BellInv /\ ScenarioInv /\ Marks

(* A step of the composition is a step of each part or leaves it alone.     *)
LEMMA ClientParts ==
    ASSUME [Next]_mcVars
    PROVE  /\ ClientNext \/ UNCHANGED clientVars
           /\ ViewNext \/ UNCHANGED viewVars
           /\ BellNext \/ UNCHANGED bellVars
           /\ ScenarioNext \/ UNCHANGED scenarioVars
BY Zenon DEF Next, mcVars

(* Each part of the client keeps its invariant, for any number of persons,  *)
(* pages, selections, rows, loads, notices and polls (AuthContext.tsx, the  *)
(* pages, NotificationBell.tsx, cfo-portfolio.tsx).                         *)
THEOREM ClientInvariant == Spec => []ClientsInv
<1>1. Init => ClientsInv
  BY ClientStart, ViewStart, SpinnerSteps, BellSteps, ScenarioSteps, MarkSteps DEF Init, ClientsInv
<1>2. ClientsInv /\ [Next]_mcVars => ClientsInv'
  <2> SUFFICES ASSUME ClientsInv, [Next]_mcVars PROVE ClientsInv'
    OBVIOUS
  <2>1. ClientInv' /\ ViewInv' /\ Spinners'
    BY ClientParts, ClientSteps, ViewSteps, SpinnerSteps DEF ClientsInv
  <2>2. BellInv' /\ ScenarioInv' /\ Marks'
    BY ClientParts, BellSteps, ScenarioSteps, MarkSteps DEF ClientsInv
  <2> QED
    BY <2>1, <2>2 DEF ClientsInv
<1> QED
  BY <1>1, <1>2, PTL DEF Spec

(* Whatever answers come late, twice or out of order, the client shows the  *)
(* user of its cookie, the selection made, what was saved once, a badge     *)
(* that promises no more than there is and the scenario of the controls.    *)
THEOREM ShownCorrect == Spec => []ShownIsTrue
<1>1. ASSUME ClientsInv PROVE ShownIsTrue
  <2>1. ClientTypeOK /\ UserIsCookie /\ ClockIsConfirmed
    BY <1>1, ClientPromise DEF ClientsInv
  <2>2. ViewTypeOK /\ SettledShowsSelection /\ PlanShownIsSelected /\ SavedIsShownOnce
    BY <1>1, ViewPromise DEF ClientsInv
  <2>3. BellTypeOK /\ BadgeNeverOvercounts /\ ScenarioTypeOK /\ ShownIsTheScenario
    BY <1>1, BellPromise, ScenarioPromise DEF ClientsInv
  <2> QED
    BY <2>1, <2>2, <2>3 DEF ShownIsTrue, ClientsTypeOK
<1> QED
  BY <1>1, ClientInvariant, PTL

(* A notification leaves the unread ones only by this user's click          *)
(* (handleNotificationClick), and a load that finds a session ends on a     *)
(* page its user may see (AuthContext.tsx, App.tsx): the two step           *)
(* properties of ClientCatchesUp.                                           *)
THEOREM ClientStepsCorrect == Spec => OnlyClickedIsRead /\ LoadLandsAtHome
<1>1. ClientsInv /\ [Next]_mcVars => [unread \ unread' \subseteq click.of]_bellVars
  <2> SUFFICES ASSUME ClientsInv, [Next]_mcVars PROVE unread \ unread' \subseteq click.of
    OBVIOUS
  <2> QED
    BY ClientParts, BellSteps DEF ClientsInv
<1>2. ClientsInv /\ [Next]_mcVars =>
          [booting /\ ~booting' /\ user' # Nobody
            => RenderMain(activePage', user'.role) = activePage' /\ activePage' # "settings"]_clientVars
  <2> SUFFICES ASSUME ClientsInv, [Next]_mcVars, booting, ~booting', user' # Nobody
               PROVE  RenderMain(activePage', user'.role) = activePage' /\ activePage' # "settings"
    OBVIOUS
  <2> QED
    BY ClientParts, LoadStep DEF ClientsInv
<1> QED
  BY <1>1, <1>2, ClientInvariant, PTL DEF Spec, OnlyClickedIsRead, LoadLandsAtHome

================================================================================
