--------------------------------- MODULE Views ---------------------------------
(* What the pages of the web client show while answers are on their way: the *)
(* data views, the notification bell and the scenario of the portfolio page. *)
EXTENDS Naturals, FiniteSets

--------------------------------------------------------------------------------
(* The data views of the web client: a page asks the server for what is     *)
(* selected, shows the answer when it comes, posts forms and then reloads   *)
(* or applies the result to what it shows.  Requests of one page overlap    *)
(* and are answered in any order.  A row stands for the effect of one       *)
(* successful post on what the page shows (a log entry, a payment, a row    *)
(* that leaves a queue).                                                    *)

CONSTANTS
    PageKinds,      \* the views explored
    Keys,           \* what can be selected: leads, cases, filters, tabs
    RowIds,         \* the effects of the posts of this user, one each
    MaxLoads,       \* bound on the loads of one view
    NoData          \* null

ASSUME ViewsAssumption ==
    /\ MaxLoads \in Nat \ {0} /\ Keys # {} /\ {"contact", "payment", "remove"} \cap RowIds = {}
    /\ NoData \notin [RowIds -> 0 .. 1] /\ NoData \notin [key : Keys, times : [RowIds -> 0 .. 2]]

VARIABLES
    view,           \* which component this behaviour is about
    sel,            \* its selection
    data,           \* what it holds: the key and, per row, how often it is listed
    loading, failed,
    loads,          \* GETs that are out
    asked,          \* how many were asked
    posts,          \* forms whose POST or PATCH is out
    saved,          \* the rows stored by the server, per key
    closed,         \* the panel of the selection is closed
    shuffled,       \* history: a load was answered after one asked later
    crossed,        \* history: the selection changed while a post was out
    raced           \* history: the server answered a load while a post was out

viewVars == <<view, sel, data, loading, failed, loads, asked, posts, saved, closed, shuffled, crossed, raced>>

Drilldowns == {"agingBucket", "customerHealth", "campaign"}
Forms == {"leadDetail", "caseDetail", "invoiceDetail", "kycReview", "approvals", "passkeys"}
Cancelling == {"paymentPlan"}
FirstKey == CHOOSE k \in Keys : TRUE

ViewTypeOK ==
    /\ view \in PageKinds /\ sel \in Keys /\ loading \in BOOLEAN /\ failed \in BOOLEAN
    /\ data = NoData \/ (data.key \in Keys /\ \A r \in RowIds : data.times[r] \in 0 .. 2)
    /\ Cardinality(loads) <= MaxLoads /\ \A l \in loads : l.no \in 1 .. asked
    /\ \A p \in posts : p.row \in RowIds /\ p.state \in {"sent", "stored", "refused"}

ViewInit ==
    /\ view \in PageKinds /\ sel = FirstKey /\ data = NoData /\ failed = FALSE /\ posts = {}
    /\ closed = (view \in Drilldowns) /\ loading = ~closed
    /\ loads = IF closed THEN {} ELSE {[no |-> 1, key |-> FirstKey, got |-> NoData]}
    /\ asked = Cardinality(loads) /\ saved = [k \in Keys |-> {}]
    /\ shuffled = FALSE /\ crossed = FALSE /\ raced = FALSE

(* Once a page mounts or its selection changes it asks for it.              *)
Ask(k) ==
    /\ asked < MaxLoads /\ asked' = asked + 1
    /\ loads' = loads \cup {[no |-> asked + 1, key |-> k, got |-> NoData]}
    /\ loading' = TRUE /\ failed' = FALSE

(* Another selection in place: the loads that are out are not withdrawn.    *)
Reselect(k) ==
    /\ k # sel \/ closed
    /\ sel' = k /\ Ask(k) /\ closed' = FALSE
    /\ crossed' = (crossed \/ posts # {})
    /\ UNCHANGED <<view, posts, saved, shuffled, raced>>

LeadQueueFilter(k) == view = "leadQueue" /\ Reselect(k) /\ data' = data
CaseQueueFilter(k) == view = "caseQueue" /\ Reselect(k) /\ data' = data
InvoiceStatusFilter(k) == view = "invoices" /\ Reselect(k) /\ data' = data
TierTrendPeriod(k) == view = "tierTrend" /\ Reselect(k) /\ data' = data
ApprovalsTab(k) == view = "approvals" /\ Reselect(k) /\ data' = data
PlanOfCase(k) == view = "paymentPlan" /\ Reselect(k) /\ data' = data
AgingDrilldown(k) == view = "agingBucket" /\ Reselect(k) /\ data' = data
SelectCustomer(k) == view = "customerHealth" /\ Reselect(k) /\ data' = NoData
CampaignEntity(k) == view = "campaign" /\ Reselect(k) /\ data' = NoData
LeadFromBell(k) == view = "leadDetail" /\ Reselect(k) /\ data' = data

(* The detail panel is closed: the selection and what it showed are gone.   *)
(* The aging drilldown is a component of its own, which the answer then     *)
(* does not reach; the other two are part of the page, which it does.       *)
CloseDetail ==
    /\ view \in Drilldowns /\ ~closed /\ closed' = TRUE /\ data' = NoData
    /\ loads' = IF view = "agingBucket" THEN {} ELSE loads
    /\ UNCHANGED <<view, sel, loading, failed, asked, posts, saved, shuffled, crossed, raced>>

(* The page is left and another one opened in its place: a new component,   *)
(* which the answers to the old one's requests do not reach.                *)
OpenAnother(k) ==
    /\ view \in {"leadDetail", "caseDetail", "invoiceDetail"} /\ asked < MaxLoads
    /\ sel' = k /\ data' = NoData /\ asked' = asked + 1 /\ loading' = TRUE /\ failed' = FALSE
    /\ loads' = {[no |-> asked + 1, key |-> k, got |-> NoData]} /\ posts' = {}
    /\ shuffled' = FALSE /\ crossed' = FALSE /\ raced' = FALSE
    /\ saved' = [j \in Keys |-> saved[j] \cup {p.row : p \in {q \in posts : q.key = j /\ q.state = "sent"}}]
    /\ UNCHANGED <<view, closed>>

(* The reload button of the review queue, disabled while a load is out.     *)
RefreshReviews ==
    /\ view = "kycReview" /\ ~loading /\ Ask(sel)
    /\ UNCHANGED <<view, sel, data, posts, saved, closed, shuffled, crossed, raced>>

(* The server answers a load with the rows it holds at that moment.         *)
Once(S) == [r \in RowIds |-> IF r \in S THEN 1 ELSE 0]
ServerReads(l) ==
    /\ l \in loads /\ l.got = NoData
    /\ loads' = (loads \ {l}) \cup {[l EXCEPT !.got = Once(saved[l.key])]}
    /\ raced' = (raced \/ posts # {})
    /\ UNCHANGED <<view, sel, data, loading, failed, asked, posts, saved, closed, shuffled, crossed>>

(* The answer reaches the page.  The payment plan's effect was cleaned up   *)
(* if another one has run since; the other pages take any answer.           *)
Ignores_Nothing(l) == FALSE
Ignores(l) == view \in Cancelling /\ l.no # asked
LoadArrives(l) ==
    /\ l \in loads /\ l.got # NoData /\ loads' = loads \ {l}
    /\ shuffled' = (shuffled \/ \E m \in loads : m.no < l.no)
    /\ IF Ignores(l) THEN UNCHANGED <<data, loading, failed>>
       ELSE data' = [key |-> l.key, times |-> l.got] /\ loading' = FALSE /\ failed' = failed
    /\ UNCHANGED <<view, sel, asked, posts, saved, closed, crossed, raced>>

(* The load fails, in the network or with an error status: the page shows   *)
(* the error, or for the payments of an invoice nothing.                    *)
LoadFails(l) ==
    /\ l \in loads /\ loads' = loads \ {l} /\ shuffled' = (shuffled \/ \E m \in loads : m.no < l.no)
    /\ IF Ignores(l) THEN UNCHANGED <<loading, failed>> ELSE loading' = FALSE /\ failed' = TRUE
    /\ UNCHANGED <<view, sel, data, asked, posts, saved, closed, crossed, raced>>

(* A form is sent.  The forms of a page are there when its data is, the     *)
(* payment form of an invoice from the start; a form is disabled while its  *)
(* own request is out.                                                      *)
FormOpen == IF view = "invoiceDetail" THEN TRUE ELSE ~loading /\ ~failed /\ data # NoData
Send(kind, r) ==
    /\ FormOpen /\ \A k \in Keys : r \notin saved[k]
    /\ \A p \in posts : p.kind # kind /\ p.row # r
    /\ posts' = posts \cup {[kind |-> kind, row |-> r, key |-> sel, state |-> "sent"]}
    /\ UNCHANGED <<view, sel, data, loading, failed, loads, asked, saved, closed, shuffled, crossed, raced>>

SendStageChange(r) == view = "leadDetail" /\ Send("stage", r)
SendQuickAction(r) == view = "leadDetail" /\ Send("activity", r)
SendRetriggerKyc(r) == view = "leadDetail" /\ Send("kyc", r)
SendContactLog(r) == view = "caseDetail" /\ Send("contact", r)
SendPaymentPlan(r) == view = "caseDetail" /\ Send("plan", r)
SendSettlement(r) == view = "caseDetail" /\ Send("settlement", r)
SendPayment(r) == view = "invoiceDetail" /\ Send("payment", r)
SendReview(r) == view = "kycReview" /\ Send(r, r)
SendDecision(r) == view = "approvals" /\ Send(r, r)
SendRemovePasskey(r) == view = "passkeys" /\ Send("remove", r)
SendNewPasskey(r) == view = "passkeys" /\ Send("register", r)

(* The server stores what was posted, or refuses it.                        *)
ServerStores(p) ==
    /\ p \in posts /\ p.state = "sent"
    /\ posts' = (posts \ {p}) \cup {[p EXCEPT !.state = "stored"]}
    /\ saved' = [saved EXCEPT ![p.key] = @ \cup {p.row}]
    /\ raced' = (raced \/ loads # {})
    /\ UNCHANGED <<view, sel, data, loading, failed, loads, asked, closed, shuffled, crossed>>

ServerRefuses(p) ==
    /\ p \in posts /\ p.state = "sent"
    /\ posts' = (posts \ {p}) \cup {[p EXCEPT !.state = "refused"]}
    /\ UNCHANGED <<view, sel, data, loading, failed, loads, asked, saved, closed, shuffled, crossed, raced>>

(* A refused post shows its error in the form.                              *)
PostRefused(p) ==
    /\ p \in posts /\ p.state = "refused" /\ posts' = posts \ {p}
    /\ UNCHANGED <<view, sel, data, loading, failed, loads, asked, saved, closed, shuffled, crossed, raced>>

(* A stored one is applied to what is shown (a contact is appended, a       *)
(* payment put first, a passkey taken away) ...                             *)
Applies(p) == p.kind \in {"contact", "payment", "remove"}
ApplyResult(p) ==
    /\ p \in posts /\ p.state = "stored" /\ Applies(p) /\ posts' = posts \ {p}
    /\ data' = IF data = NoData /\ view = "invoiceDetail" THEN [key |-> sel, times |-> Once({p.row})]
               ELSE IF data = NoData THEN NoData
               ELSE IF p.kind = "remove" THEN [data EXCEPT !.times[p.row] = 1]
               ELSE [data EXCEPT !.times[p.row] = @ + 1]
    /\ UNCHANGED <<view, sel, loading, failed, loads, asked, saved, closed, shuffled, crossed, raced>>

(* ... or the page loads again what was selected when the form was sent.    *)
ReloadAfter(p) ==
    /\ p \in posts /\ p.state = "stored" /\ ~Applies(p) /\ posts' = posts \ {p} /\ Ask(p.key)
    /\ UNCHANGED <<view, sel, data, saved, closed, shuffled, crossed, raced>>

ViewNext ==
    \/ CloseDetail \/ RefreshReviews
    \/ \E k \in Keys :
        \/ LeadQueueFilter(k) \/ CaseQueueFilter(k) \/ InvoiceStatusFilter(k) \/ TierTrendPeriod(k) \/ ApprovalsTab(k)
        \/ PlanOfCase(k) \/ AgingDrilldown(k) \/ SelectCustomer(k) \/ CampaignEntity(k) \/ LeadFromBell(k) \/ OpenAnother(k)
    \/ \E l \in loads : ServerReads(l) \/ LoadArrives(l) \/ LoadFails(l)
    \/ \E r \in RowIds :
        \/ SendStageChange(r) \/ SendQuickAction(r) \/ SendRetriggerKyc(r) \/ SendContactLog(r) \/ SendPaymentPlan(r)
        \/ SendSettlement(r) \/ SendPayment(r) \/ SendReview(r) \/ SendDecision(r) \/ SendRemovePasskey(r) \/ SendNewPasskey(r)
    \/ \E p \in posts : ServerStores(p) \/ ServerRefuses(p) \/ PostRefused(p) \/ ApplyResult(p) \/ ReloadAfter(p)

--------------------------------------------------------------------------------
(* The plan panel shows the plan that is selected whenever it is not        *)
(* loading, in whatever order the server's answers come.                    *)
PlanShownIsSelected == view \in Cancelling /\ ~loading /\ ~failed => data # NoData /\ data.key = sel

(* Once nothing is out, every page shows what is selected, if the answers   *)
(* came in the order they were asked for and no post was out when the       *)
(* selection changed.                                                       *)
SettledShowsSelection ==
    loads = {} /\ posts = {} /\ ~failed /\ ~closed /\ ~shuffled /\ ~crossed => data # NoData /\ data.key = sel

(* What this user stored is on the page he stored it from, once: the pages  *)
(* that load again however their posts overlap, the pages that apply the    *)
(* result themselves if no load overlapped.                                 *)
SavedIsShownOnce ==
    /\ view \in Forms /\ loads = {} /\ posts = {} /\ ~failed /\ ~shuffled /\ ~crossed
    /\ view \in {"caseDetail", "invoiceDetail", "passkeys"} => ~raced
    => \A r \in RowIds : data.times[r] = IF r \in saved[sel] THEN 1 ELSE 0

--------------------------------------------------------------------------------
(* The notifications of one sales representative and the bell of his        *)
(* client: it polls for the unread ones, and a click marks one read and     *)
(* takes it off the list.  Polls and reads overlap and may fail.            *)

CONSTANTS
    Notices,        \* the notifications that may be created
    Polls           \* polls that may be out at once

ASSUME BellAssumption == IsFiniteSet(Notices)

VARIABLES
    unread,         \* rl_notifications with read_at null
    created,        \* all of them
    shown, count,   \* notifications and unreadCount of the bell
    polls,          \* per poll: its state and the rows of its answer
    click           \* the notification being marked read, and how far it is

bellVars == <<unread, created, shown, count, polls, click>>

Idle == "idle"

BellTypeOK ==
    /\ unread \subseteq created /\ created \subseteq Notices /\ shown \subseteq created
    /\ count \in 0 .. Cardinality(Notices)
    /\ \A i \in Polls : polls[i].state \in {Idle, "asked", "answered"} /\ polls[i].rows \subseteq created
    /\ click.state \in {Idle, "sent", "answered"} /\ click.of \subseteq created /\ Cardinality(click.of) <= 1

BellInit ==
    /\ unread = {} /\ created = {} /\ shown = {} /\ count = 0
    /\ polls = [i \in Polls |-> [state |-> Idle, rows |-> {}]]
    /\ click = [state |-> Idle, of |-> {}]

(* createNotification, by the routing of a lead or a score that dropped.    *)
CreateNotification(n) ==
    /\ n \notin created /\ created' = created \cup {n} /\ unread' = unread \cup {n}
    /\ UNCHANGED <<shown, count, polls, click>>

(* fetchNotifications, at mount and every 30 seconds.                       *)
FetchNotifications(i) ==
    /\ polls[i].state = Idle /\ polls' = [polls EXCEPT ![i].state = "asked"]
    /\ UNCHANGED <<unread, created, shown, count, click>>

(* GET /api/notifications: the unread rows and their number.                *)
GetUnreadNotifications(i) ==
    /\ polls[i].state = "asked" /\ polls' = [polls EXCEPT ![i] = [state |-> "answered", rows |-> unread]]
    /\ UNCHANGED <<unread, created, shown, count, click>>

PollArrives_Adds(i) ==
    /\ polls[i].state = "answered" /\ polls' = [polls EXCEPT ![i] = [state |-> Idle, rows |-> {}]]
    /\ shown' = shown \cup polls[i].rows /\ count' = Cardinality(shown')
    /\ UNCHANGED <<unread, created, click>>

PollArrives(i) ==
    /\ polls[i].state = "answered" /\ polls' = [polls EXCEPT ![i] = [state |-> Idle, rows |-> {}]]
    /\ shown' = polls[i].rows /\ count' = Cardinality(polls[i].rows)
    /\ UNCHANGED <<unread, created, click>>

(* An error, of the network or of the server, leaves the bell as it is.     *)
PollFails(i) ==
    /\ polls[i].state # Idle /\ polls' = [polls EXCEPT ![i] = [state |-> Idle, rows |-> {}]]
    /\ UNCHANGED <<unread, created, shown, count, click>>

(* handleNotificationClick: the list is disabled while one is marked read.  *)
HandleNotificationClick(n) ==
    /\ n \in shown /\ click.state = Idle /\ click' = [state |-> "sent", of |-> {n}]
    /\ UNCHANGED <<unread, created, shown, count, polls>>

(* POST /api/notifications/:id/read marks an unread row, answers 404 for    *)
(* one that is read, or fails; the client treats every answer alike.        *)
MarkNotificationRead ==
    /\ click.state = "sent" /\ click' = [click EXCEPT !.state = "answered"]
    /\ unread' = unread \ click.of
    /\ UNCHANGED <<created, shown, count, polls>>

ReadRefused ==
    /\ click.state = "sent" /\ click' = [click EXCEPT !.state = "answered"]
    /\ UNCHANGED <<unread, created, shown, count, polls>>

(* The answer: off the list, and one less to count, in two updates.         *)
MarkRead ==
    /\ click.state = "answered" /\ click' = [state |-> Idle, of |-> {}]
    /\ shown' = shown \ click.of /\ count' = IF count = 0 THEN 0 ELSE count - 1
    /\ UNCHANGED <<unread, created, polls>>

(* The request or its answer is lost: nothing changes until the next poll.  *)
ReadLost ==
    /\ click.state # Idle /\ click' = [state |-> Idle, of |-> {}]
    /\ UNCHANGED <<unread, created, shown, count, polls>>

BellNext ==
    \/ MarkNotificationRead \/ ReadRefused \/ MarkRead \/ ReadLost
    \/ \E n \in Notices : CreateNotification(n) \/ HandleNotificationClick(n)
    \/ \E i \in Polls : FetchNotifications(i) \/ GetUnreadNotifications(i) \/ PollArrives(i) \/ PollFails(i)

--------------------------------------------------------------------------------
(* The badge never promises more than the list holds, whatever of polls and *)
(* reads crosses: markRead takes one off the count even when a poll already *)
(* has, so the badge may count too few, and never too many.                 *)
BadgeNeverOvercounts == count <= Cardinality(shown)

(* A notification leaves the unread ones only when this representative      *)
(* clicked it.                                                              *)
OnlyClickedIsRead == [][unread \ unread' \subseteq click.of]_bellVars

(* However polls overlap, fail and bring back what was read meanwhile, the  *)
(* bell shows again and again exactly the unread notifications, counted.    *)
BellKeepsUp == []<>(shown = unread /\ count = Cardinality(unread))

--------------------------------------------------------------------------------
(* The scenario controls of the CFO's portfolio page: the segments of the   *)
(* server, the three controls and the segments shown, which an effect       *)
(* recomputes after every render that changed one of them.                  *)

CONSTANTS
    Industries,     \* industries of the portfolio
    NoSegments      \* the empty list before the answer

VARIABLES
    segments,       \* segments: NoSegments or "portfolio"
    controls,       \* interest rate moved, GDP scenario, stressed industries
    displayed,      \* the segments shown and the controls they were computed with
    scenarioActive, \* isScenarioActive
    effectDue,      \* a rendered change of segments or controls awaits applyScenario
    fetching        \* the two requests of the page

scenarioVars == <<segments, controls, displayed, scenarioActive, effectDue, fetching>>

Default == [rate |-> FALSE, gdp |-> "moderate", stressed |-> {}]
Controls == [rate : BOOLEAN, gdp : {"recession", "moderate"}, stressed : SUBSET Industries]

ScenarioTypeOK ==
    /\ segments \in {NoSegments, "portfolio"} /\ controls \in Controls
    /\ displayed.of \in {NoSegments, "portfolio"} /\ displayed.with \in Controls
    /\ {scenarioActive, effectDue} \subseteq BOOLEAN /\ fetching \in {"both", "one", "done"}

ScenarioInit ==
    /\ segments = NoSegments /\ controls = Default /\ displayed = [of |-> NoSegments, with |-> Default]
    /\ scenarioActive = FALSE /\ effectDue = TRUE /\ fetching = "both"

(* The portfolio and its trend are asked for together; the answer counts    *)
(* when both are there, and an error of either leaves the page without.     *)
OneAnswers ==
    /\ fetching = "both" /\ fetching' = "one"
    /\ UNCHANGED <<segments, controls, displayed, scenarioActive, effectDue>>

BothAnswered ==
    /\ fetching = "one" /\ fetching' = "done"
    /\ segments' = "portfolio" /\ displayed' = [of |-> "portfolio", with |-> Default]
    /\ effectDue' = TRUE
    /\ UNCHANGED <<controls, scenarioActive>>

PortfolioFails ==
    /\ fetching # "done" /\ fetching' = "done"
    /\ UNCHANGED <<segments, controls, displayed, scenarioActive, effectDue>>

(* applyScenario, the effect.                                               *)
ApplyScenario ==
    /\ effectDue /\ effectDue' = FALSE
    /\ scenarioActive' = (controls # Default)
    /\ displayed' = [of |-> segments, with |-> controls]
    /\ UNCHANGED <<segments, controls, fetching>>

(* A slider, a selector or an industry is changed; the effect follows.      *)
SetControl(c) ==
    /\ ~effectDue /\ c # controls
    /\ Cardinality({f \in {"rate", "gdp", "stressed"} : c[f] # controls[f]}) = 1
    /\ controls' = c /\ effectDue' = TRUE
    /\ UNCHANGED <<segments, displayed, scenarioActive, fetching>>

(* handleReset sets all five states itself; the effect runs when one of the *)
(* controls was moved.                                                      *)
HandleReset ==
    /\ ~effectDue
    /\ controls' = Default /\ scenarioActive' = FALSE /\ displayed' = [of |-> segments, with |-> Default]
    /\ effectDue' = (controls # Default)
    /\ UNCHANGED <<segments, fetching>>

ScenarioNext ==
    \/ OneAnswers \/ BothAnswered \/ PortfolioFails \/ ApplyScenario \/ HandleReset
    \/ \E c \in Controls : SetControl(c)

--------------------------------------------------------------------------------
(* Whenever the page is at rest the figures shown are the server's segments *)
(* under the controls as they stand, although the answer may come after the *)
(* controls were moved and shows itself without them first; and the banner  *)
(* of a scenario is up exactly when one applies.                            *)
ShownIsTheScenario ==
    ~effectDue => displayed = [of |-> segments, with |-> controls] /\ (scenarioActive <=> controls # Default)

================================================================================
