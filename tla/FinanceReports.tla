---------------------------- MODULE FinanceReports -----------------------------
(* What the finance pages count: the age of receivables, and the performance *)
(* of tiers, deals, collections and agents.                                  *)
EXTENDS Integers, FiniteSets
LOCAL INSTANCE FiniteSetsExt

--------------------------------------------------------------------------------
(* The three readers of receivables by age: getCfoSummary, getArAging and    *)
(* getArAgingInvoices.  Each has its own copy of the classification and its  *)
(* own rounding; each is a statement of its own, so that an invoice may be   *)
(* paid between two of them.                                                 *)

CONSTANTS
    Invoices,
    Ages,           \* days past the due date, negative when not yet due
    Cents,          \* amounts, in cents
    NoDate          \* due_date IS NULL

ASSUME AgeingAssumption == Ages \subseteq Int /\ Cents \subseteq Nat /\ NoDate \notin Int

VARIABLES
    invoice,        \* Invoices -> [status, age, cents]
    writes,         \* history: the number of invoices changed so far
    summary, ageing, \* the last answers: [at, totals]
    drilldown       \* the last drill-down: [at, bucket, rows]

ageingVars == <<invoice, writes, summary, ageing, drilldown>>

Buckets == {"current", "30", "60", "90", "120+"}
(* "sent" stands for sent, partial_paid and overdue alike.                   *)
Statuses == {"draft", "sent", "in_collection", "paid"}

(* Math.round of an amount in cents.                                         *)
Units(cents) == (cents + 50) \div 100

NoReport == [at |-> -1, totals |-> [b \in Buckets |-> 0]]

AgeingInit ==
    /\ invoice \in [Invoices -> [status : Statuses \ {"paid"}, age : Ages \cup {NoDate}, cents : Cents]]
    /\ writes = 0
    /\ summary = NoReport /\ ageing = NoReport
    /\ drilldown = [at |-> -1, bucket |-> "current", rows |-> {}]

(* RECEIVABLE_STATUSES_LITERAL AND due_date IS NOT NULL.                     *)
Receivable(v) == invoice[v].status \in {"sent", "in_collection"} /\ invoice[v].age # NoDate

(* getCfoSummary: its own list of statuses and its own CASE.                 *)
SummaryRows(b) ==
    {v \in Invoices :
        /\ invoice[v].status \in {"sent", "in_collection"} /\ invoice[v].age # NoDate
        /\ b = CASE invoice[v].age <= 0 -> "current" [] invoice[v].age \in 1 .. 30 -> "30"
                  [] invoice[v].age \in 31 .. 60 -> "60" [] invoice[v].age \in 61 .. 90 -> "90"
                  [] OTHER -> "120+"}

(* getArAging: the same CASE.                                                *)
AgeingBucket(age) ==
    CASE age <= 0 -> "current" [] age \in 1 .. 30 -> "30" [] age \in 31 .. 60 -> "60"
      [] age \in 61 .. 90 -> "90" [] OTHER -> "120+"

(* getArAgingInvoices: the rows of one bucket.                               *)
DrillRows(b) == {v \in Invoices : Receivable(v) /\ AgeingBucket(invoice[v].age) = b}

Total(rows) == Units(MapThenSumSet(LAMBDA v : invoice[v].cents, rows))

ReadSummary ==
    /\ summary' = [at |-> writes,
                   totals |-> [b \in Buckets |-> Total(SummaryRows(b))]]
    /\ UNCHANGED <<invoice, writes, ageing, drilldown>>

ReadAgeing ==
    /\ ageing' = [at |-> writes,
                  totals |-> [b \in Buckets |->
                      Total({v \in Invoices : Receivable(v) /\ AgeingBucket(invoice[v].age) = b})]]
    /\ UNCHANGED <<invoice, writes, summary, drilldown>>

(* days_overdue and the rounded amount of each row.                          *)
ReadDrilldown(b) ==
    /\ drilldown' = [at |-> writes, bucket |-> b,
                     rows |-> {[id |-> v, units |-> Units(invoice[v].cents),
                                overdue |-> IF invoice[v].age > 0 THEN invoice[v].age ELSE 0] : v \in DrillRows(b)}]
    /\ UNCHANGED <<invoice, writes, summary, ageing>>

(* Elsewhere: an invoice is paid.                                            *)
PayInvoice(v) ==
    /\ invoice[v].status \in {"sent", "in_collection"}
    /\ invoice' = [invoice EXCEPT ![v].status = "paid"]
    /\ writes' = writes + 1
    /\ UNCHANGED <<summary, ageing, drilldown>>

AgeingNext ==
    \/ ReadSummary \/ ReadAgeing
    \/ \E b \in Buckets : ReadDrilldown(b)
    \/ \E v \in Invoices : PayInvoice(v)

AgeingSpec == AgeingInit /\ [][AgeingNext]_ageingVars

-----------------------------------------------------------------------------
Same(a, b) == a.at = b.at /\ a.at >= 0

(* The summary and the ageing report, read with no payment in between, give  *)
(* the same totals: the two copies of the classification agree at every      *)
(* boundary.                                                                 *)
ReportsAgree == Same(summary, ageing) => summary.totals = ageing.totals

Abs(x) == IF x >= 0 THEN x ELSE 0 - x

(* The rows of a drill-down account for its bucket's total, up to half a     *)
(* unit for each row and for the total, and the days overdue each shows lie  *)
(* within the bucket's name.                                                 *)
DrilldownAddsUp ==
    /\ Same(drilldown, ageing) =>
          2 * Abs(MapThenSumSet(LAMBDA r : r.units, drilldown.rows) - ageing.totals[drilldown.bucket])
              <= Cardinality(drilldown.rows) + 1
    /\ \A r \in drilldown.rows :
          r.overdue \in CASE drilldown.bucket = "current" -> {0} [] drilldown.bucket = "30" -> 1 .. 30
                          [] drilldown.bucket = "60" -> 31 .. 60 [] drilldown.bucket = "90" -> 61 .. 90
                          [] OTHER -> Nat \ (0 .. 90)

--------------------------------------------------------------------------------
(* The figures of the finance dashboards that are computed in the program   *)
(* from grouped rows: the tier split and the quarters of getTierTrend, the  *)
(* weighted close rate and the recovery rate of getCfoSummary, the rates of *)
(* getCollectionsPerformance.  One step computes them all from the rows of  *)
(* Init; rates are kept as pairs <<numerator, denominator>>.                *)

CONSTANTS
    Deals, Cases, Agents,
    NoAgent,        \* agent_id IS NULL or ''
    MaxVolume,      \* bound: qualified prospects of one week
    Roles           \* roles of the caller

ASSUME PerformanceAssumption ==
    MaxVolume \in Nat /\ NoAgent \notin Agents /\ "finance_controller" \in Roles

VARIABLES
    rows,           \* the database: [week, month, deals, cases]
    figures         \* the answers, or the empty record

performanceVars == <<rows, figures>>

Tiers == {"A", "B", "C"}
NoScore == "none"
NoFigures == <<>>

(* Deals are won, lost or open; a prospect may have no score.               *)
DealRows == [tier : Tiers \cup {NoScore}, stage : {"closed_won", "closed_lost", "open"}]

(* Closed cases carry a resolution.  A case was opened in the trailing 90   *)
(* days (quarter); or before, and closed, or written off and last changed,  *)
(* within twelve months (year), or longer ago (older).                      *)
CaseRows ==
    [agent : Agents \cup {NoAgent}, age : {"quarter", "year", "older"},
     end : {"open", "paid", "settlement", "payment_plan", "written_off"}]

-----------------------------------------------------------------------------
(* Math.round(x * 100 * 100) / 100 of a / n, in hundredths of a percent.    *)
Hundredths(a, n) == (2 * 10000 * a + n) \div (2 * n)

(* getTierTrend: A and B are rounded, C takes the remainder.                *)
TierSplit(a, b, n) ==
    IF n = 0 THEN <<0, 0, 0>>
    ELSE <<Hundredths(a, n), Hundredths(b, n), 10000 - Hundredths(a, n) - Hundredths(b, n)>>

(* currentQuarterStart, months counted from January of year zero.           *)
CurrentQuarter(month) == (month \div 3) * 3

(* A slip: January's prior quarter stays in the year.                       *)
PriorQuarter_SameYear(month) ==
    IF CurrentQuarter(month) % 12 = 0 THEN CurrentQuarter(month) + 9 ELSE CurrentQuarter(month) - 3

(* priorQuarterStart.                                                       *)
PriorQuarter(month) ==
    LET start == CurrentQuarter(month)
    IN  IF start % 12 = 0 THEN ((start \div 12) - 1) * 12 + 9 ELSE start - 3

(* The window [first month, last month + 1) of each period.                 *)
QuarterWindow(period, month) ==
    IF period = "current_quarter" THEN <<CurrentQuarter(month), CurrentQuarter(month) + 3>>
    ELSE <<PriorQuarter(month), CurrentQuarter(month)>>

TierWeight(t) == CASE t = "A" -> 3 [] t = "B" -> 2 [] OTHER -> 1

(* GROUP BY ls.tier, d.stage: a row for each tier with a score, one for     *)
(* none, of each stage that is closed.                                      *)
DealGroups ==
    {g \in [tier : Tiers \cup {NoScore}, stage : {"closed_won", "closed_lost"},
            count : 1 .. Cardinality(Deals)] :
        g.count = Cardinality({d \in Deals : rows.deals[d].tier = g.tier /\ rows.deals[d].stage = g.stage})}

(* getCfoSummary: weightedWon and weightedTotal, COALESCE(tier, 'C').       *)
CloseRate ==
    LET weigh(stages) == MapThenSumSet(LAMBDA g : TierWeight(g.tier) * g.count,
                                       {g \in DealGroups : g.stage \in stages})
    IN  <<weigh({"closed_won"}), weigh({"closed_won", "closed_lost"})>>

(* status = 'resolved' AND resolution_type IN ('paid', 'settlement').       *)
Recovered(c) == rows.cases[c].end \in {"paid", "settlement"}

Rate(S) == <<Cardinality({c \in S : Recovered(c)}), Cardinality(S)>>

(* getCfoSummary: cases opened in the trailing 90 days.                     *)
RecoveryRate == Rate({c \in Cases : rows.cases[c].age = "quarter"})

(* GROUP BY agent_id ORDER BY agent_id: agents with a case, by name.        *)
AgentRows == {g \in Agents : \E c \in Cases : rows.cases[c].agent = g}
Place(g) == Cardinality({h \in AgentRows : h <= g})

(* The real id for the finance controller, a number for any other caller.   *)
Label(role, g) == IF role = "finance_controller" THEN <<"id", g>> ELSE <<"Agent", Place(g)>>

AgentRates(role) ==
    {[label |-> Label(role, g), rate |-> Rate({c \in Cases : rows.cases[c].agent = g})] : g \in AgentRows}

(* Cases resolved or written off in the trailing twelve months; the         *)
(* written-off ones among them.                                             *)
WriteOffRate ==
    LET closed == {c \in Cases : rows.cases[c].end # "open" /\ rows.cases[c].age # "older"}
    IN  <<Cardinality({c \in closed : rows.cases[c].end = "written_off"}), Cardinality(closed)>>

-----------------------------------------------------------------------------
PerformanceInit ==
    /\ \E n \in 0 .. MaxVolume, m \in 12 .. 23, D \in [Deals -> DealRows], K \in [Cases -> CaseRows] :
          \E a \in 0 .. n : \E b \in 0 .. n - a :
              rows = [week |-> <<a, b, n>>, month |-> m, deals |-> D, cases |-> K]
    /\ figures = NoFigures

(* A request of a caller with this role for every dashboard.                *)
Compute(role) ==
    /\ figures = NoFigures
    /\ figures' = [role |-> role,
                   split |-> TierSplit(rows.week[1], rows.week[2], rows.week[3]),
                   current |-> QuarterWindow("current_quarter", rows.month),
                   prior |-> QuarterWindow("prior_quarter", rows.month),
                   close |-> CloseRate, recovery |-> RecoveryRate,
                   agents |-> AgentRates(role), writeOff |-> WriteOffRate]
    /\ UNCHANGED rows

PerformanceNext == \E role \in Roles : Compute(role)

PerformanceSpec == PerformanceInit /\ [][PerformanceNext]_performanceVars

Computed == figures # NoFigures

-----------------------------------------------------------------------------
(* The shares of a week add up to one hundred percent to the hundredth, and *)
(* no share is below minus a hundredth: when A and B round up together, C   *)
(* goes negative by that and no more.                                       *)
SharesAddUp ==
    Computed /\ rows.week[3] > 0 =>
        /\ figures.split[1] + figures.split[2] + figures.split[3] = 10000
        /\ \A k \in 1 .. 3 : figures.split[k] \in -1 .. 10000

(* The two quarters are three months each and adjoin, also across the turn  *)
(* of a year, and the current month lies in the current one: a prospect is  *)
(* in one of the two charts at most.                                        *)
QuartersAdjoin ==
    Computed =>
        /\ figures.current[2] = figures.current[1] + 3 /\ figures.prior[2] = figures.prior[1] + 3
        /\ figures.prior[2] = figures.current[1]
        /\ rows.month \in figures.current[1] .. figures.current[2] - 1

(* The weighted rate counts every closed deal once by its own weight, the   *)
(* unscored as C, although their rows are grouped apart from C's.           *)
RateCountsEveryDeal ==
    Computed =>
        LET closed(stages) == {d \in Deals : rows.deals[d].stage \in stages}
            weight(S) == MapThenSumSet(LAMBDA d : TierWeight(rows.deals[d].tier), S)
        IN  figures.close = <<weight(closed({"closed_won"})), weight(closed({"closed_won", "closed_lost"}))>>

(* The tables of the two pages tell one story although their periods        *)
(* differ: each assigned case is in one agent's row; a recovered case of    *)
(* the summary's 90 days is in some agent's row or is assigned to nobody,   *)
(* and is one of the year's closed cases that were not written off.         *)
RecoveriesAgree ==
    Computed =>
        LET sum(k) == MapThenSumSet(LAMBDA row : row.rate[k], figures.agents)
            nobody == {c \in Cases : rows.cases[c].agent = NoAgent}
        IN  /\ sum(2) + Cardinality(nobody) = Cardinality(Cases)
            /\ figures.recovery[1] <= sum(1) + Rate(nobody)[1]
            /\ figures.writeOff[1] + figures.recovery[1] <= figures.writeOff[2]

(* Only a finance controller sees who an agent is, and everyone sees as     *)
(* many agents as there are: two agents never share a number.               *)
AgentsStayAnonymous ==
    Computed =>
        /\ (\E row \in figures.agents : row.label[1] = "id") => figures.role = "finance_controller"
        /\ Cardinality({row.label : row \in figures.agents}) = Cardinality(AgentRows)

--------------------------------------------------------------------------------
(* A score from snapshot to scenario: computeMacroSubScore and its like and  *)
(* the composite of score() (packages/db/cltv-scorer.ts), GET                *)
(* /api/cfo/portfolio, which averages the scores of a segment, and the       *)
(* page's own copy of the formula, which recomputes the average under other  *)
(* macro values (recomputeCompositeScore, applyScenarioToSegments).          *)
(* Sub-scores are in parts of Whole, which all the averages divide; a        *)
(* composite is in ten-thousandths of a point, an average in hundredths.     *)

CONSTANTS
    Leads,          \* prospects of one industry and company segment
    Snapshots,      \* inputs of a score: [macro, industry, company]
    NoValue,        \* NULL
    Unscored,       \* a prospect without a score
    LogRevenue,     \* revenue class -> log-normalised revenue, in parts
    Revenue,        \* revenue class -> annual_revenue_est
    Deltas          \* positions of the interest-rate slider

Whole == 2160

(* The macro indicators: percent, half percents of GDP, percent.             *)
Scenarios == [recession |-> -6, flat |-> 0, moderate |-> 5, strong |-> 10]

VARIABLES
    lead,           \* Leads -> [stage, inputs]
    segment,        \* the server's answer, or the empty record
    control,        \* [delta, gdp, stressed]
    shown           \* the page's recomputed [average, total], or the empty record

portfolioVars == <<lead, segment, control, shown>>

Nothing == <<>>

Clamp(x) == IF x < 0 THEN 0 ELSE IF x > Whole THEN Whole ELSE x

(* A set of present components (by name), averaged; neutral when empty.      *)
Mean(parts) ==
    LET present == {k \in DOMAIN parts : parts[k] # NoValue}
    IN  IF present = {} THEN Whole \div 2
        ELSE MapThenSumSet(LAMBDA k : parts[k], present) \div Cardinality(present)

Part(value, x) == IF value = NoValue THEN NoValue ELSE x

(* computeMacroSubScore; the page's normaliseMacroIndicator is the same.     *)
Interest(r) == Part(r, Clamp(108 * (20 - r)))
Gdp(g) == Part(g, Clamp(72 * (g + 10)))
Inflation(p) == Part(p, Clamp(108 * (20 - p)))

Macro(m) == Mean([interest |-> Interest(m.interest), gdp |-> Gdp(m.gdp), inflation |-> Inflation(m.inflation)])

(* computeIndustrySubScore, of rates in percent.                             *)
Industry(d) ==
    Mean([growth |-> Part(d.growth, Clamp(72 * (d.growth + 10))),
          default |-> Part(d.default, Clamp(108 * (20 - d.default)))])

(* computeCompanySubScore: debt in quarters of the revenue.                  *)
Company(c) ==
    LET known == c.revenue # NoValue
    IN  Mean([revenue |-> IF known THEN LogRevenue[c.revenue] ELSE NoValue,
              debt |-> IF c.debt = NoValue THEN NoValue
                       ELSE IF known THEN Clamp(Whole - 270 * c.debt) ELSE Whole \div 2])

(* Weights 30, 30 and 40 of a hundred, rounded to ten-thousandths.           *)
Composite(s) ==
    (2500 * (3 * Macro(s.macro) + 3 * Industry(s.industry) + 4 * Company(s.company)) + 27) \div 54

(* classifyTier with the default thresholds.                                 *)
Tier(score) ==
    CASE score >= 800000 -> "A" [] score >= 600000 -> "B" [] score >= 400000 -> "C" [] OTHER -> "D"

-----------------------------------------------------------------------------
PortfolioInit ==
    /\ lead \in [Leads -> [stage : {"qualified", "disqualified"}, inputs : Snapshots \cup {Unscored}]]
    /\ segment = Nothing /\ shown = Nothing
    /\ control \in [delta : Deltas, gdp : DOMAIN Scenarios, stressed : BOOLEAN]

InSegment == {l \in Leads : lead[l].stage # "disqualified"}
Scored == {l \in InSegment : lead[l].inputs # Unscored}

(* (composite_score / 100) x annual_revenue_est, where both are known.       *)
Value(l) ==
    LET s == lead[l].inputs
    IN  IF s.company.revenue = NoValue THEN 0 ELSE Composite(s) * Revenue[s.company.revenue]

(* score_sum / score_count, to the hundredth.                                *)
Average ==
    IF Scored = {} THEN 0
    ELSE LET n == Cardinality(Scored) * 100
         IN  (2 * MapThenSumSet(LAMBDA l : Composite(lead[l].inputs), Scored) + n) \div (2 * n)

(* GET /api/cfo/portfolio, for the one segment.                              *)
FetchPortfolio ==
    /\ segment = Nothing /\ InSegment # {}
    /\ segment' = [total |-> (2 * MapThenSumSet(Value, Scored) + 1000000) \div 2000000,
                   leads |-> Cardinality(InSegment), average |-> Average,
                   tiers |-> [t \in {"A", "B", "C", "D"} |->
                                 Cardinality({l \in Scored : Tier(Composite(lead[l].inputs)) = t})]]
    /\ UNCHANGED <<lead, control, shown>>

(* recomputeCompositeScore's macro values: the slider moves the rate, the    *)
(* scenario replaces growth, inflation defaults to two percent.              *)
ScenarioMacro(m) ==
    [interest |-> IF m.interest = NoValue THEN control.delta ELSE m.interest + control.delta,
     gdp |-> Scenarios[control.gdp],
     inflation |-> IF m.inflation = NoValue THEN 2 ELSE m.inflation]

(* recomputeCompositeScore: the macro part of the segment's average is       *)
(* replaced, a fifth off in a stressed industry; clamped, in hundredths.     *)
Recompute(m) ==
    LET new == IF control.stressed THEN 20 * Macro(ScenarioMacro(m)) ELSE 25 * Macro(ScenarioMacro(m))
        score == (2 * (18 * segment.average + new - 25 * Macro(m)) + 18) \div 36
    IN  IF score < 0 THEN 0 ELSE IF score > 10000 THEN 10000 ELSE score

(* applyScenarioToSegments: an entity without a snapshot keeps the average.  *)
ApplyToSegment ==
    /\ segment # Nothing /\ shown = Nothing
    /\ LET n == segment.leads
           sum == MapThenSumSet(LAMBDA l : IF l \in Scored THEN Recompute(lead[l].inputs.macro)
                                           ELSE segment.average, InSegment)
       IN  shown' = IF segment.average = 0 THEN [average |-> segment.average, total |-> segment.total]
                    ELSE [average |-> (2 * sum + n) \div (2 * n),
                          total |-> (2 * segment.total * sum + n * segment.average)
                                        \div (2 * n * segment.average)]
    /\ UNCHANGED <<lead, segment, control>>

PortfolioNext == FetchPortfolio \/ ApplyToSegment

PortfolioSpec == PortfolioInit /\ [][PortfolioNext]_portfolioVars

-----------------------------------------------------------------------------
Complete(m) == m.interest # NoValue /\ m.inflation # NoValue

(* What the scenario says of a complete snapshot.                            *)
Moved(m) == [m EXCEPT !.interest = @ + control.delta, !.gdp = Scenarios[control.gdp]]

(* The page's formula and the scorer's are one: when every lead of the       *)
(* segment is scored from a snapshot with a rate and an inflation, no        *)
(* industry is stressed and no lead is pushed to the end of the scale, the   *)
(* average shown is, up to roundings, the average that score() would compute *)
(* under the scenario's macro values.                                        *)
ScenarioIsFaithful ==
    shown # Nothing /\ ~ control.stressed /\ InSegment = Scored
      /\ (\A l \in Scored : /\ Complete(lead[l].inputs.macro)
                             /\ Recompute(lead[l].inputs.macro) \in 1 .. 9999) =>
        LET rescored(l) == Composite([lead[l].inputs EXCEPT !.macro = Moved(@)])
            n == Cardinality(Scored)
        IN  100 * n * shown.average - MapThenSumSet(rescored, Scored) \in -160 * n .. 160 * n

(* A scenario that changes no lead's macro values changes neither the        *)
(* average nor the value that are shown.                                     *)
NeutralChangesNothing ==
    shown # Nothing /\ ~ control.stressed
      /\ (\A l \in Scored : Complete(lead[l].inputs.macro) /\ Moved(lead[l].inputs.macro) = lead[l].inputs.macro) =>
        shown.average = segment.average /\ shown.total = segment.total

(* The segment accounts for its leads: every scored one is in one tier, and  *)
(* the average lies between the lowest and the highest score.                *)
SegmentAddsUp ==
    segment # Nothing =>
        /\ MapThenSumSet(LAMBDA t : segment.tiers[t], {"A", "B", "C", "D"}) = Cardinality(Scored)
        /\ Scored # {} =>
              /\ \E l \in Scored : 100 * segment.average <= Composite(lead[l].inputs) + 50
              /\ \E l \in Scored : 100 * segment.average >= Composite(lead[l].inputs) - 50

================================================================================
