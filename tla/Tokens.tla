-------------------------------- MODULE Tokens ---------------------------------
(* What a route grants once, and what it grants so many times: single-use    *)
(* tokens and rate limiters.                                                 *)
EXTENDS Naturals, FiniteSets, Sequences

--------------------------------------------------------------------------------
(* Single-use tokens: the worker tokens of a pod, which are rows consumed by *)
(* a conditional UPDATE, and the ingestion and wiki tokens, which exist only *)
(* as JWTs and are spent by a SELECT and an INSERT into revoked_tokens.      *)

CONSTANTS
    RowTokens,      \* jtis of worker tokens
    JwtTokens,      \* jtis of ingestion and wiki tokens
    Pods,           \* worker pods
    PodOf,          \* RowTokens -> Pods
    Callers,        \* requests that present a token
    NoCaller        \* no caller, no token

AllTokens == RowTokens \cup JwtTokens

ASSUME TokenAssumption ==
    /\ RowTokens \cap JwtTokens = {}
    /\ PodOf \in [RowTokens -> Pods]
    /\ NoCaller \notin Callers \cup AllTokens

VARIABLES
    minted,         \* tokens that were signed and handed out
    lapsed,         \* tokens past their exp
    consumed,       \* worker_tokens.consumed_at: RowTokens -> who set it
    invalidated,    \* worker_tokens.invalidated_at is set
    revoked,        \* jtis in revoked_tokens
    ending,         \* Pods -> jtis whose invalidation is still to be recorded
    call,           \* Callers -> where the request stands
    presented,      \* Callers -> the token it presents
    fits,           \* Callers -> do the claims match what the route expects
    spent,          \* history: tokens whose use is on record
    late            \* history: callers that came when it already was

tokenVars == <<minted, lapsed, consumed, invalidated, revoked, ending,
               call, presented, fits, spent, late>>

rowVars == <<minted, lapsed, invalidated>>
useHist == <<spent, late>>

TokenTypeOK ==
    /\ minted \subseteq AllTokens /\ lapsed \subseteq minted
    /\ consumed \in [RowTokens -> Callers \cup {NoCaller}]
    /\ invalidated \subseteq RowTokens
    /\ revoked \subseteq AllTokens
    /\ ending \in [Pods -> SUBSET RowTokens]
    /\ call \in [Callers -> {"new", "verified", "checked", "consumed", "granted", "refused"}]
    /\ presented \in [Callers -> AllTokens \cup {NoCaller}]
    /\ fits \in [Callers -> BOOLEAN]
    /\ spent \subseteq AllTokens /\ late \subseteq Callers

TokenInit ==
    /\ minted = {} /\ lapsed = {}
    /\ consumed = [t \in RowTokens |-> NoCaller]
    /\ invalidated = {} /\ revoked = {}
    /\ ending = [p \in Pods |-> {}]
    /\ call = [c \in Callers |-> "new"]
    /\ presented = [c \in Callers |-> NoCaller]
    /\ fits = [c \in Callers |-> FALSE]
    /\ spent = {} /\ late = {}

(* POST /internal/worker/tokens: signs the JWT, inserts the row, hands the  *)
(* token out.                                                               *)
IssueWorkerToken(t) ==
    /\ t \in RowTokens \ minted
    /\ minted' = minted \cup {t}
    /\ UNCHANGED <<lapsed, consumed, invalidated, revoked, ending, call, presented, fits, useHist>>

(* An ingestion token is signed and nothing is stored.                      *)
MintIngestionToken(t) ==
    /\ t \in JwtTokens \ minted
    /\ minted' = minted \cup {t}
    /\ UNCHANGED <<lapsed, consumed, invalidated, revoked, ending, call, presented, fits, useHist>>

(* verifyJwt: signature, exp, revoked_tokens.                               *)
VerifyToken(c, t) ==
    /\ call[c] = "new" /\ t \in minted
    /\ presented' = [presented EXCEPT ![c] = t]
    /\ fits' \in {[fits EXCEPT ![c] = b] : b \in BOOLEAN}
    /\ late' = IF t \in spent THEN late \cup {c} ELSE late
    /\ call' = [call EXCEPT ![c] = IF t \in lapsed \cup revoked THEN "refused" ELSE "verified"]
    /\ UNCHANGED <<rowVars, consumed, revoked, ending, spent>>

(* consumeWorkerToken, first statement: the UPDATE and its four conditions. *)
ConsumeRow_Unconditional(c) ==
    LET t == presented[c] IN
    /\ call[c] = "verified" /\ t \in RowTokens
    /\ consumed' = [consumed EXCEPT ![t] = c]
    /\ call' = [call EXCEPT ![c] = "consumed"]
    /\ UNCHANGED <<rowVars, revoked, ending, presented, fits, useHist>>

ConsumeRow(c) ==
    LET t == presented[c]
        hit == consumed[t] = NoCaller /\ t \notin invalidated \cup lapsed
    IN
    /\ call[c] = "verified" /\ t \in RowTokens
    /\ consumed' = IF hit THEN [consumed EXCEPT ![t] = c] ELSE consumed
    /\ call' = [call EXCEPT ![c] = IF hit THEN "consumed" ELSE "refused"]
    /\ UNCHANGED <<rowVars, revoked, ending, presented, fits, useHist>>

(* verifyAndConsumeWorkerToken, the rest: the jti is revoked as well, and   *)
(* only then are agent type and task scope compared.                        *)
FinishWorkerToken(c) ==
    LET t == presented[c] IN
    /\ call[c] = "consumed" /\ t \in RowTokens
    /\ revoked' = revoked \cup {t}
    /\ spent' = spent \cup {t}
    /\ call' = [call EXCEPT ![c] = IF fits[c] THEN "granted" ELSE "refused"]
    /\ UNCHANGED <<rowVars, consumed, ending, presented, fits, late>>

(* verifyIngestionToken: the second look at revoked_tokens, then tenant and *)
(* scope; verifyWorkerToken does the same for a wiki token.                 *)
CheckIngestionToken(c) ==
    LET t == presented[c] IN
    /\ call[c] = "verified" /\ t \in JwtTokens
    /\ call' = [call EXCEPT ![c] = IF t \in revoked \/ ~fits[c] THEN "refused" ELSE "checked"]
    /\ UNCHANGED <<rowVars, consumed, revoked, ending, presented, fits, useHist>>

(* INSERT ... ON CONFLICT DO NOTHING, whose outcome nobody looks at.        *)
SpendIngestionToken(c) ==
    LET t == presented[c] IN
    /\ call[c] = "checked"
    /\ revoked' = revoked \cup {t}
    /\ spent' = spent \cup {t}
    /\ call' = [call EXCEPT ![c] = "granted"]
    /\ UNCHANGED <<rowVars, consumed, ending, presented, fits, late>>

(* DELETE /internal/worker/tokens/:pod: one UPDATE marks the unused rows,   *)
(* then their jtis are revoked one by one.                                  *)
InvalidatePod(p) ==
    LET T == {t \in RowTokens \cap minted : /\ PodOf[t] = p /\ consumed[t] = NoCaller
                                            /\ t \notin invalidated}
    IN
    /\ ending[p] = {} /\ T # {}
    /\ invalidated' = invalidated \cup T
    /\ ending' = [ending EXCEPT ![p] = T]
    /\ UNCHANGED <<minted, lapsed, consumed, revoked, call, presented, fits, useHist>>

RecordInvalidation(p) ==
    \E t \in ending[p] :
        /\ ending' = [ending EXCEPT ![p] = @ \ {t}]
        /\ revoked' = revoked \cup {t}
        /\ UNCHANGED <<rowVars, consumed, call, presented, fits, useHist>>

(* A request or an invalidation whose process stops.                        *)
TokenCrash ==
    /\ \/ \E c \in Callers :
            /\ call[c] \in {"verified", "checked", "consumed"}
            /\ call' = [call EXCEPT ![c] = "refused"]
            /\ UNCHANGED ending
       \/ \E p \in Pods :
            /\ ending[p] # {}
            /\ ending' = [ending EXCEPT ![p] = {}]
            /\ UNCHANGED call
    /\ UNCHANGED <<rowVars, consumed, revoked, presented, fits, useHist>>

(* exp passes, for the JWT and for the row alike.                           *)
TokenLapses(t) ==
    /\ t \in minted \ lapsed
    /\ lapsed' = lapsed \cup {t}
    /\ UNCHANGED <<minted, consumed, invalidated, revoked, ending, call, presented, fits, useHist>>

(* cleanupExpiredRevocations: rows of expired tokens go.                    *)
CleanupRevocations ==
    /\ revoked \cap lapsed # {}
    /\ revoked' = revoked \ lapsed
    /\ UNCHANGED <<rowVars, consumed, ending, call, presented, fits, useHist>>

TokenNext ==
    \/ \E t \in AllTokens : IssueWorkerToken(t) \/ MintIngestionToken(t) \/ TokenLapses(t)
    \/ \E c \in Callers : \/ \E t \in AllTokens : VerifyToken(c, t)
                          \/ ConsumeRow(c) \/ FinishWorkerToken(c)
                          \/ CheckIngestionToken(c) \/ SpendIngestionToken(c)
    \/ \E p \in Pods : InvalidatePod(p) \/ RecordInvalidation(p)
    \/ TokenCrash \/ CleanupRevocations

-----------------------------------------------------------------------------
(* A worker token is a single-use token: the row is what decides, whatever  *)
(* two requests and a terminating pod have read before.                     *)
Promise == INSTANCE SingleUse WITH
    UseTokens <- RowTokens, UseCallers <- Callers, NoUser <- NoCaller,
    winner <- consumed, withdrawn <- invalidated \cup (lapsed \cap RowTokens)

(* consumeWorkerToken and invalidateWorkerTokensForPod implement the        *)
(* promise of SingleUse.                                                    *)
WorkerTokensAreSingleUse == Promise!UseSpec

(* verifyIngestionToken and verifyWorkerToken: once a use is on record, a   *)
(* request that starts afterwards is never let through (requests that       *)
(* overlap may both be).                                                    *)
ReplaysAreRefused ==
    \A c \in late : call[c] # "granted"

(* Who is let through on a worker token is the one whose UPDATE set         *)
(* consumed_at, so no two requests are, crashes included.                   *)
GrantedMeansConsumed ==
    \A c \in Callers :
        call[c] = "granted" /\ presented[c] \in RowTokens => consumed[presented[c]] = c

--------------------------------------------------------------------------------
(* The sliding windows of the server: RateLimiter with a fixed window, and  *)
(* TenantRateLimiter, whose window and maximum come from a policy that may  *)
(* be replaced at run time.  check and consume run without an await between *)
(* them, so a request is one step.                                          *)

CONSTANTS
    Tenants,            \* keys of the tenant limiter, one actor each
    IPs,                \* keys of a plain limiter
    PlainWindow, PlainMax,
    DefaultWindow, DefaultMax,  \* DEFAULT_TENANT_POLICY of the limiter's dimension
    LongestDefault,     \* the longer of the two dimensions' default windows
    RatePolicies,       \* policies an operator sets: [window, max]
    MaxClock            \* bound on time

ASSUME RateAssumption ==
    /\ PlainWindow \in Nat \ {0} /\ PlainMax \in Nat \ {0}
    /\ DefaultWindow \in Nat \ {0} /\ DefaultMax \in Nat \ {0}
    /\ LongestDefault \in Nat /\ LongestDefault >= DefaultWindow
    /\ RatePolicies \subseteq [window : Nat \ {0}, max : Nat \ {0}]
    /\ Tenants \cap IPs = {}
    /\ MaxClock \in Nat

VARIABLES
    time,               \* Date.now()
    passed,             \* history: key -> when each request that was let through came
    stamps,             \* store: key -> the requests whose timestamp is kept
    ratePolicy,         \* tenantPolicyStore: the policy in force
    narrow,             \* history: tenant -> the shortest window in force so far
    most                \* history: tenant -> the largest maximum in force so far

rateVars == <<time, stamps, ratePolicy, passed, narrow, most>>

RateKeys == Tenants \cup IPs

DefaultPolicy == [window |-> DefaultWindow, max |-> DefaultMax]

RateTypeOK ==
    /\ time \in 0 .. MaxClock
    /\ passed \in [RateKeys -> Seq(0 .. MaxClock)]
    /\ stamps \in [RateKeys -> SUBSET Nat] /\ \A k \in RateKeys : stamps[k] \subseteq DOMAIN passed[k]
    /\ ratePolicy \in [Tenants -> RatePolicies \cup {DefaultPolicy}]
    /\ narrow \in [Tenants -> 1 .. DefaultWindow] /\ most \in [Tenants -> Nat]

RateInit ==
    /\ time = 0
    /\ passed = [k \in RateKeys |-> <<>>]
    /\ stamps = [k \in RateKeys |-> {}]
    /\ ratePolicy = [t \in Tenants |-> DefaultPolicy]
    /\ narrow = [t \in Tenants |-> DefaultWindow]
    /\ most = [t \in Tenants |-> DefaultMax]

(* getPolicy of a tenant; the constructor's arguments for the others.       *)
Window(k) == IF k \in Tenants THEN ratePolicy[k].window ELSE PlainWindow
Limit(k) == IF k \in Tenants THEN ratePolicy[k].max ELSE PlainMax

(* The requests of S still in a window of w: ts > now - w.                  *)
InWindow(k, S, w) == {r \in S : passed[k][r] + w > time}

(* check: fewer than the maximum in the window.                             *)
CheckRate(k) == Cardinality(InWindow(k, stamps[k], Window(k))) < Limit(k)

(* consume: what is still in the window, and this request.                  *)
Consume(k) ==
    /\ passed' = [passed EXCEPT ![k] = Append(@, time)]
    /\ stamps' = [stamps EXCEPT ![k] = InWindow(k, @, Window(k)) \cup {Len(passed[k]) + 1}]

(* A request of RateLimiter: check, then consume.                           *)
LimitedRequest(k) ==
    /\ k \in IPs /\ CheckRate(k) /\ Consume(k)
    /\ UNCHANGED <<time, ratePolicy, narrow, most>>

(* A request of TenantRateLimiter (a login step, an embedding read).        *)
TenantRequest(k) ==
    /\ k \in Tenants /\ CheckRate(k) /\ Consume(k)
    /\ UNCHANGED <<time, ratePolicy, narrow, most>>

(* setTenantRatePolicy, with a policy or null: the requests in the store    *)
(* stay, but those beyond a shorter window go with the next consume.        *)
SetTenantRatePolicy(t, p) ==
    /\ ratePolicy[t] # p
    /\ ratePolicy' = [ratePolicy EXCEPT ![t] = p]
    /\ narrow' = [narrow EXCEPT ![t] = IF p.window < @ THEN p.window ELSE @]
    /\ most' = [most EXCEPT ![t] = IF p.max > @ THEN p.max ELSE @]
    /\ UNCHANGED <<time, stamps, passed>>

(* The shared five-minute timer: every limiter's cleanup.  The tenant       *)
(* limiter uses the longest default window, whatever the policy says.       *)
CleanupWindow(k) == IF k \in Tenants THEN LongestDefault ELSE PlainWindow

CleanupLimiters ==
    /\ stamps' = [k \in RateKeys |-> InWindow(k, stamps[k], CleanupWindow(k))]
    /\ stamps' # stamps
    /\ UNCHANGED <<time, ratePolicy, narrow, most, passed>>

RateTick ==
    /\ time < MaxClock
    /\ time' = time + 1
    /\ UNCHANGED <<stamps, ratePolicy, narrow, most, passed>>

RateNext ==
    \/ \E k \in RateKeys : LimitedRequest(k) \/ TenantRequest(k)
    \/ \E t \in Tenants, p \in RatePolicies \cup {DefaultPolicy} : SetTenantRatePolicy(t, p)
    \/ CleanupLimiters \/ RateTick

-----------------------------------------------------------------------------
(* A policy that widens the window counts from what the store still has: a  *)
(* shorter window, or the cleanup, has dropped the rest.  What no policy    *)
(* and no cleanup loses is the shortest window in force so far.             *)
Narrow(k) == IF k \in Tenants THEN narrow[k] ELSE PlainWindow
Most(k) == IF k \in Tenants THEN most[k] ELSE PlainMax

Batch(k, n) == {r \in DOMAIN passed[k] : n <= passed[k][r] /\ passed[k][r] < n + Narrow(k)}

(* TenantRateLimiter and RateLimiter: no stretch of the shortest window     *)
(* ever in force holds more requests than the largest maximum ever in       *)
(* force, whatever cleanups and policy changes come between.                *)
WindowsHold ==
    \A k \in RateKeys, n \in 0 .. MaxClock : Cardinality(Batch(k, n)) <= Most(k)

(* The store never forgets a request of that window: what a check within it *)
(* counts is what was let through.                                          *)
StoreIsComplete ==
    \A k \in RateKeys :
        InWindow(k, stamps[k], Narrow(k)) = InWindow(k, DOMAIN passed[k], Narrow(k))

================================================================================
