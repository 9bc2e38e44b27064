------------------------------- MODULE MCReports -------------------------------
(* Instances for TLC of the algorithms behind the dashboards and the corpus. *)
(* A behaviour is about one subject; the others are at rest.                 *)
EXTENDS InstallmentSchedule, Corpus, FinanceReports, TLC

CONSTANTS Subjects, v1, v2, d1, d2, c1, c2, l1, l2, u1, u2, x1, x2, low, high

VARIABLE subject

planVars == vars
allVars == <<planVars, corpusVars, queryVars, citationVars, ageingVars, performanceVars, portfolioVars, subject>>

(* Texts of up to three sentences of one to five words; the blank text.      *)
ShortTexts == UNION {[1 .. n -> 1 .. 5] : n \in 0 .. 3}

(* Drafts of up to three claims, each naming no chunk, one or both.          *)
ShortDrafts == UNION {[1 .. n -> SUBSET Chunks] : n \in 0 .. 3}

(* Days on both sides of each boundary between buckets.                      *)
Boundaries == {-1, 0, 1, 30, 31, 60, 61, 90, 91}

SliderPositions == {-2, 0, 3}

(* A small and a large company: log-normalised revenue in parts of Whole,    *)
(* and the revenue, in units the products of which TLC can hold.             *)
TwoLogs == (low :> 1080) @@ (high :> 2160)
TwoRevenues == (low :> 7) @@ (high :> 400)

(* Macro values within and beyond the clamps, and missing ones; two kinds of *)
(* company in two kinds of industry.                                         *)
SomeSnapshots ==
    [macro : [interest : {0, 18, NoValue}, gdp : {-6, 10, NoValue}, inflation : {0, NoValue}],
     industry : {[growth |-> NoValue, default |-> NoValue], [growth |-> 20, default |-> 0]},
     company : {[revenue |-> NoValue, debt |-> NoValue], [revenue |-> low, debt |-> 8], [revenue |-> high, debt |-> 0]}]

PlanAtRest ==
    /\ total = 1 /\ count = 1 /\ paid = 0 /\ i = 0 /\ remaining = 0
    /\ billed = 0 /\ paidCount = 0 /\ firstUnpaid = 0

CorpusAtRest == text = <<>> /\ ceiling = 1 /\ upload = [u \in Uploads |-> NewUpload] /\ corpus = {}

CitationsAtRest ==
    /\ claims = <<>> /\ cites = {} /\ unlinked = FALSE /\ patched = {} /\ lagged = FALSE
    /\ mark = [priority |-> "null", blocked |-> FALSE, checked |-> FALSE]
    /\ check = [k \in Checks |-> [pc |-> "idle", priority |-> "null", ids |-> {}]]

AgeingAtRest ==
    /\ invoice = [v \in Invoices |-> [status |-> "draft", age |-> NoDate, cents |-> 0]]
    /\ writes = 0 /\ summary = NoReport /\ ageing = NoReport
    /\ drilldown = [at |-> -1, bucket |-> "current", rows |-> {}]

(* The week and the month are looked at with no deals and no cases, the      *)
(* deals and the cases with one week each.                                   *)
OpenDeals == [d \in Deals |-> [tier |-> "C", stage |-> "open"]]
OpenCases == [c \in Cases |-> [agent |-> NoAgent, age |-> "quarter", end |-> "open"]]

RowsOf(W, M, D, K) ==
    \E m \in M, ds \in D, ks \in K :
        \E w \in W : rows = [week |-> w, month |-> m, deals |-> ds, cases |-> ks]

Weeks == {w \in (0 .. MaxVolume) \X (0 .. MaxVolume) \X (0 .. MaxVolume) : w[1] + w[2] <= w[3]}

PerformanceStart ==
    /\ figures = NoFigures
    /\ \/ RowsOf(Weeks, {12}, {OpenDeals}, {OpenCases})
       \/ RowsOf({<<1, 1, 3>>}, 12 .. 23, [Deals -> DealRows], {OpenCases})
       \/ RowsOf({<<1, 1, 3>>}, {12}, {OpenDeals}, [Cases -> CaseRows])

PerformanceAtRest ==
    /\ figures = NoFigures
    /\ rows = [week |-> <<0, 0, 0>>, month |-> 12, deals |-> OpenDeals, cases |-> OpenCases]

(* One lead of any kind; the other of the large company, disqualified or     *)
(* without a score.                                                          *)
OtherLeads ==
    [stage : {"qualified"},
     inputs : {s \in SomeSnapshots : s.company.revenue = high /\ s.macro.gdp # NoValue} \cup {Unscored}]
      \cup [stage : {"disqualified"}, inputs : {s \in SomeSnapshots : s.company.revenue = low /\ s.macro.gdp = 10}]

PortfolioStart ==
    /\ \E one \in [stage : {"qualified"}, inputs : SomeSnapshots \cup {Unscored}], other \in OtherLeads :
          lead = (l1 :> one) @@ (l2 :> other)
    /\ segment = Nothing /\ shown = Nothing
    /\ control \in [delta : Deltas, gdp : DOMAIN Scenarios, stressed : BOOLEAN]

PortfolioAtRest ==
    /\ lead = [l \in Leads |-> [stage |-> "disqualified", inputs |-> Unscored]]
    /\ segment = Nothing /\ shown = Nothing
    /\ control = [delta |-> 0, gdp |-> "flat", stressed |-> FALSE]

MCInit ==
    /\ subject \in Subjects
    /\ IF subject = "plan" THEN Init ELSE PlanAtRest
    /\ IF subject = "upload" THEN CorpusInit ELSE CorpusAtRest
    /\ QueryInit
    /\ IF subject = "draft" THEN CitationInit ELSE CitationsAtRest
    /\ IF subject = "ageing" THEN AgeingInit ELSE AgeingAtRest
    /\ IF subject = "performance" THEN PerformanceStart ELSE PerformanceAtRest
    /\ IF subject = "portfolio" THEN PortfolioStart ELSE PortfolioAtRest

Others(s) ==
    /\ subject = s /\ UNCHANGED subject
    /\ s # "plan" => UNCHANGED planVars
    /\ s # "upload" => UNCHANGED corpusVars
    /\ s # "query" => UNCHANGED queryVars
    /\ s # "draft" => UNCHANGED citationVars
    /\ s # "ageing" => UNCHANGED ageingVars
    /\ s # "performance" => UNCHANGED performanceVars
    /\ s # "portfolio" => UNCHANGED portfolioVars

MCNext ==
    \/ Others("plan") /\ BuildInstallment
    \/ Others("upload") /\ CorpusNext
    \/ Others("query") /\ QueryNext
    \/ Others("draft") /\ CitationNext
    \/ Others("ageing") /\ AgeingNext
    \/ Others("performance") /\ PerformanceNext
    \/ Others("portfolio") /\ PortfolioNext

MCSpec == MCInit /\ [][MCNext]_allVars

(* Text enters the corpus whole and in sentences, leaves it audited and     *)
(* charged once, and a draft that is published cites it, however uploads,   *)
(* queries and checks overlap and fail (corpus-chunks.ts, corpus-chunk-     *)
(* store.ts, citation coverage).                                            *)
CorpusIsSound ==
    /\ QueryTypeOK /\ ChunksAreTheText /\ SentencesKeptWhole /\ AnsweredIsStored
    /\ DataIsAudited /\ OvershootIsBounded /\ ChargedOnceAudited /\ UnblockedIsCited
    /\ BlockedIsP1

(* The figures add up: installments to their plan, buckets and shares to    *)
(* their totals, quarters to a year, rates to the deals and cases they      *)
(* count, segments to their leads and a scenario to the scorer's own        *)
(* formula.                                                                 *)
FiguresAddUp ==
    /\ TypeOK /\ InstallmentsAddUp /\ FullyPaidIsPaid /\ FirstUnpaidIsFirstUncovered
    /\ ReportsAgree /\ DrilldownAddsUp /\ SharesAddUp /\ QuartersAdjoin
    /\ RateCountsEveryDeal /\ RecoveriesAgree /\ AgentsStayAnonymous
    /\ ScenarioIsFaithful /\ NeutralChangesNothing /\ SegmentAddsUp

=============================================================================
