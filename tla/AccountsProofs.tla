---------------------------- MODULE AccountsProofs ----------------------------
(* What the accounts promise, for every set of users, keys, tokens, pods    *)
(* and callers.  The components share no rows: each has an invariant of its *)
(* own, kept by its steps and by steps of the others, which leave it alone. *)
EXTENDS MCAccounts, FiniteSetTheorems, SequenceTheorems, TLAPS

-----------------------------------------------------------------------------
(* Sessions.  A revocation row that the cleanup removed belongs to a token  *)
(* that has expired; a token that has not expired is signed by one of the   *)
(* two keys verifyJwt tries; only tokens that were signed are ended.        *)
SessionInv ==
    /\ SessionTypeOK
    /\ \A j \in retired : tok[j] # Unset
    /\ \A j \in retired \ revRows : 2 * tok[j].exp < halves
    /\ \A j \in Jtis : tok[j] # Unset => tok[j].by \in {key, oldKey} \/ tok[j].exp < Second
    /\ \A r \in Refreshers : rfr[r] # Unset => tok[rfr[r]] # Unset

(* No session has been opened, so nothing is ended. *)
LEMMA SessionStart == SessionInit => SessionInv
  BY SessionAssumption DEF SessionInit, SessionInv, SessionTypeOK, SigningKeys

(* NOW rounded down to seconds.                                            *)
LEMMA SecondIsNat ==
  ASSUME halves \in Nat
  PROVE  /\ Second \in Nat /\ 2 * Second <= halves /\ halves < 2 * Second + 2
  BY DEF Second

(* Signing a fresh token leaves every other token as it is.                *)
LEMMA SignedToken ==
  ASSUME SessionInv, NEW j \in Jtis, tok[j] = Unset, tok' = [tok EXCEPT ![j] = Signed]
  PROVE  /\ tok' \in [Jtis -> [exp : Nat, by : SigningKeys] \cup {Unset}]
         /\ tok'[j] # Unset /\ tok'[j].by = key
         /\ \A i \in Jtis : i # j => tok'[i] = tok[i]
         /\ \A i \in Jtis : tok[i] # Unset => i # j
<1>1. Signed \in [exp : Nat, by : SigningKeys] /\ Signed.by = key
  BY SecondIsNat, SessionAssumption DEF SessionInv, SessionTypeOK, Signed
<1>2. Signed # Unset
  BY <1>1, SessionAssumption DEF SigningKeys
<1> QED BY <1>1, <1>2 DEF SessionInv, SessionTypeOK

(* Verifying, refreshing, ending, rotating and cleaning up keep it. *)
LEMMA SessionStep == SessionInv /\ [SessionNext]_sessionVars => SessionInv'
<1> SUFFICES ASSUME SessionInv, [SessionNext]_sessionVars PROVE SessionInv'
  OBVIOUS
<1>0. /\ halves \in Nat /\ halves \in 0 .. MaxHalves /\ Second \in Nat /\ key \in SigningKeys
      /\ revRows \in SUBSET retired /\ retired \in SUBSET Jtis
      /\ tok \in [Jtis -> [exp : Nat, by : SigningKeys] \cup {Unset}]
      /\ rfr \in [Refreshers -> Jtis \cup {Unset}] /\ oldKey \in SigningKeys \cup {Unset}
  BY SecondIsNat, SessionAssumption DEF SessionInv, SessionTypeOK
<1>1. ASSUME NEW j \in Jtis, StartSession(j)
      PROVE  SessionInv'
  BY <1>0, <1>1, SignedToken DEF StartSession, SessionInv, SessionTypeOK, Second
<1>2. ASSUME NEW j \in Jtis, Logout(j)
      PROVE  SessionInv'
  BY <1>0, <1>2 DEF Logout, SessionInv, SessionTypeOK, Second
<1>3. ASSUME NEW r \in Refreshers, NEW j \in Jtis, RefreshBegin(r, j)
      PROVE  SessionInv'
  BY <1>0, <1>3 DEF RefreshBegin, VerifyJwt, SessionInv, SessionTypeOK, Second
<1>4. ASSUME NEW r \in Refreshers, NEW n \in Jtis, RefreshEnd(r, n)
      PROVE  SessionInv'
  <2>1. /\ tok' \in [Jtis -> [exp : Nat, by : SigningKeys] \cup {Unset}]
        /\ tok'[n] # Unset /\ tok'[n].by = key
        /\ \A i \in Jtis : i # n => tok'[i] = tok[i]
        /\ \A i \in Jtis : tok[i] # Unset => i # n
    BY <1>4, SignedToken DEF RefreshEnd
  <2>2. /\ rfr[r] \in Jtis /\ tok[rfr[r]] # Unset
        /\ rfr' \in [Refreshers -> Jtis \cup {Unset}]
        /\ \A q \in Refreshers : rfr'[q] # Unset => rfr'[q] = rfr[q]
    BY <1>0, <1>4 DEF RefreshEnd, SessionInv
  <2>3. /\ revRows' = revRows \cup {rfr[r]} /\ retired' = retired \cup {rfr[r]}
        /\ halves' = halves /\ key' = key /\ oldKey' = oldKey /\ Second' = Second
    BY <1>4 DEF RefreshEnd, Second
  <2>4. SessionTypeOK'
    BY <1>0, <2>1, <2>2, <2>3 DEF SessionTypeOK, SigningKeys
  <2> QED BY <1>0, <2>1, <2>2, <2>3, <2>4 DEF SessionInv
<1>5. ASSUME NEW r \in Refreshers, RefreshFails(r)
      PROVE  SessionInv'
  BY <1>0, <1>5 DEF RefreshFails, SessionInv, SessionTypeOK, Second
<1>6. CASE CleanupExpired
  BY <1>0, <1>6 DEF CleanupExpired, SessionInv, SessionTypeOK, Second
<1>7. CASE RotateKey
  BY <1>0, <1>7, SessionAssumption DEF RotateKey, SessionInv, SessionTypeOK, Second, SigningKeys
<1>8. CASE HalfSecond
  BY <1>0, <1>8, SessionAssumption DEF HalfSecond, SessionInv, SessionTypeOK, Second
<1>9. CASE UNCHANGED sessionVars
  BY <1>9 DEF sessionVars, SessionInv, SessionTypeOK, Second
<1> QED BY <1>1, <1>2, <1>3, <1>4, <1>5, <1>6, <1>7, <1>8, <1>9 DEF SessionNext

(* What it says of verifyJwt. *)
LEMMA SessionsHold == SessionInv => RetiredIsRefused /\ SessionsSurviveRotation
<1> SUFFICES ASSUME SessionInv PROVE RetiredIsRefused /\ SessionsSurviveRotation
  OBVIOUS
<1>0. halves \in Nat
  BY SessionAssumption DEF SessionInv, SessionTypeOK
<1>1. /\ Second \in Nat /\ halves < 2 * Second + 2 /\ revRows \in SUBSET retired
      /\ \A j \in Jtis : tok[j] # Unset => tok[j].exp \in Nat
  BY <1>0, SecondIsNat DEF SessionInv, SessionTypeOK
<1>2. retired \in SUBSET Jtis
  BY DEF SessionInv, SessionTypeOK
<1>3. RetiredIsRefused
  <2>1. SUFFICES ASSUME NEW j \in retired, VerifyJwt(j) PROVE Second = tok[j].exp
    BY DEF RetiredIsRefused
  <2>2. tok[j].exp \in Nat /\ ~(tok[j].exp < Second) /\ j \notin revRows
    BY <1>1, <1>2, <2>1 DEF VerifyJwt
  <2>3. 2 * tok[j].exp < halves
    BY <2>2 DEF SessionInv
  <2>4. \A h, e, s \in Nat : 2 * e < h /\ h < 2 * s + 2 /\ ~(e < s) => s = e
    OBVIOUS
  <2> QED BY <1>0, <1>1, <2>2, <2>3, <2>4
<1>4. SessionsSurviveRotation
  BY <1>1 DEF SessionInv, SessionsSurviveRotation, VerifyJwt
<1> QED BY <1>3, <1>4

-----------------------------------------------------------------------------
(* Tokens.  A use on record is refused by the row or by the expiry, so who  *)
(* came too late has been refused; who got past the UPDATE is in the row.   *)
TokenInv ==
    /\ TokenTypeOK
    /\ spent \subseteq revoked \cup lapsed
    /\ \A c \in late : call[c] = "refused"
    /\ \A c \in Callers : call[c] = "checked" => presented[c] \in JwtTokens
    /\ \A c \in Callers : call[c] \in {"consumed", "granted"} /\ presented[c] \in RowTokens
                             => consumed[presented[c]] = c

(* No token has been signed. *)
LEMMA TokenStart == TokenInit => TokenInv
  BY TokenAssumption DEF TokenInit, TokenInv, TokenTypeOK, AllTokens

(* Minting, presenting, consuming, invalidating and cleaning up keep it. *)
LEMMA TokenStep == TokenInv /\ [TokenNext]_tokenVars => TokenInv'
<1> SUFFICES ASSUME TokenInv, [TokenNext]_tokenVars PROVE TokenInv'
  OBVIOUS
<1> USE TokenAssumption DEF TokenInv, TokenTypeOK, AllTokens, rowVars, useHist
<1>1. ASSUME NEW t \in AllTokens, IssueWorkerToken(t) \/ MintIngestionToken(t) \/ TokenLapses(t)
      PROVE  TokenInv'
  BY <1>1 DEF IssueWorkerToken, MintIngestionToken, TokenLapses
<1>2. ASSUME NEW c \in Callers, NEW t \in AllTokens, VerifyToken(c, t)
      PROVE  TokenInv'
  <2>1. fits' \in [Callers -> BOOLEAN]
    BY <1>2 DEF VerifyToken
  <2>2. call[c] = "new" /\ c \notin late
    BY <1>2 DEF VerifyToken
  <2>3. call'[c] \in {"refused", "verified"} /\ (t \in spent => call'[c] = "refused")
    BY <1>2 DEF VerifyToken
  <2> QED BY <1>2, <2>1, <2>2, <2>3 DEF VerifyToken
<1>3. ASSUME NEW c \in Callers, ConsumeRow(c)
      PROVE  TokenInv'
  BY <1>3 DEF ConsumeRow
<1>4. ASSUME NEW c \in Callers, FinishWorkerToken(c)
      PROVE  TokenInv'
  BY <1>4 DEF FinishWorkerToken
<1>5. ASSUME NEW c \in Callers, CheckIngestionToken(c)
      PROVE  TokenInv'
  BY <1>5 DEF CheckIngestionToken
<1>6. ASSUME NEW c \in Callers, SpendIngestionToken(c)
      PROVE  TokenInv'
  BY <1>6 DEF SpendIngestionToken
<1>7. ASSUME NEW p \in Pods, InvalidatePod(p)
      PROVE  TokenInv'
  BY <1>7 DEF InvalidatePod
<1>8. ASSUME NEW p \in Pods, RecordInvalidation(p)
      PROVE  TokenInv'
  BY <1>8 DEF RecordInvalidation
<1>9. CASE TokenCrash
  BY <1>9 DEF TokenCrash
<1>10. CASE CleanupRevocations
  BY <1>10 DEF CleanupRevocations
<1>11. CASE UNCHANGED tokenVars
  BY <1>11 DEF tokenVars
<1> QED BY <1>1, <1>2, <1>3, <1>4, <1>5, <1>6, <1>7, <1>8, <1>9, <1>10, <1>11 DEF TokenNext

(* What it says of replays and of who is let through. *)
LEMMA TokensHold == TokenInv => ReplaysAreRefused /\ GrantedMeansConsumed
  BY DEF TokenInv, ReplaysAreRefused, GrantedMeansConsumed

(* No row is consumed or withdrawn at first. *)
LEMMA PromiseStart == TokenInit => Promise!UseInit
  BY DEF TokenInit, Promise!UseInit

(* The conditional UPDATE spends a token, an invalidation or an expiry      *)
(* withdraws tokens, and no other step touches winner or withdrawn.         *)
LEMMA PromiseStep == TokenInv /\ [TokenNext]_tokenVars => [Promise!UseNext]_(Promise!useVars)
<1> SUFFICES ASSUME TokenInv, [TokenNext]_tokenVars
             PROVE  Promise!UseNext \/ UNCHANGED <<consumed, invalidated \cup (lapsed \cap RowTokens)>>
  BY DEF Promise!useVars
<1> USE DEF TokenInv, TokenTypeOK, AllTokens, rowVars, useHist
<1>1. ASSUME NEW c \in Callers, ConsumeRow(c)
      PROVE  Promise!UseNext \/ UNCHANGED <<consumed, invalidated \cup (lapsed \cap RowTokens)>>
  <2>1. CASE consumed[presented[c]] = NoCaller /\ presented[c] \notin invalidated \cup lapsed
    <3>1. presented[c] \in RowTokens /\ Promise!Spend(presented[c], c)
      BY <1>1, <2>1 DEF ConsumeRow, Promise!Spend
    <3> QED BY <3>1 DEF Promise!UseNext
  <2>2. CASE ~(consumed[presented[c]] = NoCaller /\ presented[c] \notin invalidated \cup lapsed)
    BY <1>1, <2>2 DEF ConsumeRow
  <2> QED BY <2>1, <2>2
<1>2. ASSUME NEW p \in Pods, InvalidatePod(p)
      PROVE  Promise!UseNext
  <2>1. PICK T \in SUBSET RowTokens : invalidated' = invalidated \cup T
    BY <1>2 DEF InvalidatePod
  <2>2. Promise!Withdraw(T)
    BY <1>2, <2>1 DEF InvalidatePod, Promise!Withdraw
  <2> QED BY <2>2 DEF Promise!UseNext
<1>3. ASSUME NEW t \in AllTokens, TokenLapses(t)
      PROVE  Promise!UseNext
  <2>1. Promise!Withdraw({t} \cap RowTokens)
    BY <1>3 DEF TokenLapses, Promise!Withdraw
  <2> QED BY <2>1 DEF Promise!UseNext
<1>4. ASSUME NEW t \in AllTokens, IssueWorkerToken(t) \/ MintIngestionToken(t)
      PROVE  UNCHANGED <<consumed, invalidated, lapsed>>
  BY <1>4 DEF IssueWorkerToken, MintIngestionToken
<1>5. ASSUME NEW c \in Callers,
             \/ \E t \in AllTokens : VerifyToken(c, t)
             \/ FinishWorkerToken(c) \/ CheckIngestionToken(c) \/ SpendIngestionToken(c)
      PROVE  UNCHANGED <<consumed, invalidated, lapsed>>
  BY <1>5 DEF VerifyToken, FinishWorkerToken, CheckIngestionToken, SpendIngestionToken
<1>6. ASSUME (\E p \in Pods : RecordInvalidation(p)) \/ TokenCrash \/ CleanupRevocations
             \/ UNCHANGED tokenVars
      PROVE  UNCHANGED <<consumed, invalidated, lapsed>>
  BY <1>6 DEF RecordInvalidation, TokenCrash, CleanupRevocations, tokenVars
<1> QED BY <1>1, <1>2, <1>3, <1>4, <1>5, <1>6 DEF TokenNext

-----------------------------------------------------------------------------
(* Limiters.  The policy in force is within the bounds that were in force.  *)
InForce == \A t \in Tenants : narrow[t] <= ratePolicy[t].window /\ ratePolicy[t].max <= most[t]

(* A request of the shortest window so far is in the store.                 *)
RateInv ==
    /\ RateTypeOK /\ InForce
    /\ \A k \in RateKeys : \A r \in DOMAIN passed[k] : passed[k][r] <= time
    /\ \A k \in RateKeys : \A r \in DOMAIN passed[k] :
          passed[k][r] + Narrow(k) > time => r \in stamps[k]
    /\ WindowsHold

(* Nothing has been let through: every window is empty.                     *)
LEMMA RateStart == RateInit => RateInv
<1> SUFFICES ASSUME RateInit PROVE RateInv
  OBVIOUS
<1>0. DefaultPolicy.window = DefaultWindow /\ DefaultPolicy.max = DefaultMax
  BY DEF DefaultPolicy
<1>1. RateTypeOK /\ InForce
  BY <1>0, RateAssumption DEF RateInit, RateTypeOK, InForce
<1>2. \A k \in RateKeys : DOMAIN passed[k] = {}
  BY DEF RateInit
<1>3. ASSUME NEW k \in RateKeys, NEW n \in 0 .. MaxClock
      PROVE  Cardinality(Batch(k, n)) <= Most(k)
  <2>1. Batch(k, n) = {}
    BY <1>2 DEF Batch
  <2>2. Cardinality(Batch(k, n)) = 0
    BY <2>1, FS_EmptySet
  <2>3. Most(k) \in Nat
    BY <1>1, RateAssumption DEF Most, RateTypeOK
  <2> QED BY <2>2, <2>3
<1> QED BY <1>1, <1>2, <1>3 DEF RateInv, WindowsHold

(* Neither the policy in force nor the cleanup looks at less.               *)
LEMMA WindowsAreWider ==
  ASSUME RateTypeOK, InForce, NEW k \in RateKeys
  PROVE  /\ Narrow(k) \in Nat \ {0} /\ Most(k) \in Nat
         /\ Window(k) \in Nat /\ Narrow(k) <= Window(k)
         /\ CleanupWindow(k) \in Nat /\ Narrow(k) <= CleanupWindow(k)
         /\ Limit(k) \in Nat /\ Limit(k) <= Most(k)
<1>1. CASE k \in Tenants
  <2>1. ratePolicy[k].window \in Nat /\ ratePolicy[k].max \in Nat
    <3>1. DefaultPolicy.window \in Nat /\ DefaultPolicy.max \in Nat
      BY RateAssumption DEF DefaultPolicy
    <3>2. \A p \in RatePolicies : p.window \in Nat /\ p.max \in Nat
      BY RateAssumption
    <3> QED BY <1>1, <3>1, <3>2 DEF RateTypeOK
  <2>2. narrow[k] \in 1 .. DefaultWindow /\ most[k] \in Nat
    BY <1>1 DEF RateTypeOK
  <2>3. narrow[k] <= ratePolicy[k].window /\ ratePolicy[k].max <= most[k]
    BY <1>1 DEF InForce
  <2> QED
    BY <1>1, <2>1, <2>2, <2>3, RateAssumption DEF Narrow, Most, Window, CleanupWindow, Limit
<1>2. CASE k \notin Tenants
  BY <1>2, RateAssumption DEF Narrow, Most, Window, CleanupWindow, Limit
<1> QED BY <1>1, <1>2

(* check and consume: the requests of a window that holds this one are all  *)
(* among those check has counted.                                           *)
LEMMA ConsumeKeeps ==
  ASSUME RateInv, NEW k \in RateKeys, CheckRate(k), Consume(k),
         UNCHANGED <<time, ratePolicy, narrow, most>>
  PROVE  RateInv'
<1> DEFINE w == Narrow(k)
           old == passed[k]
           seen == InWindow(k, stamps[k], Window(k))
<1>1. /\ w \in Nat \ {0} /\ Window(k) \in Nat /\ w <= Window(k)
      /\ Limit(k) \in Nat /\ Most(k) \in Nat /\ Limit(k) <= Most(k)
  BY WindowsAreWider DEF RateInv
<1>2. /\ time \in 0 .. MaxClock /\ time \in Nat /\ passed \in [RateKeys -> Seq(0 .. MaxClock)]
      /\ old \in Seq(0 .. MaxClock) /\ Len(old) \in Nat /\ DOMAIN old = 1 .. Len(old)
      /\ stamps \in [RateKeys -> SUBSET Nat] /\ stamps[k] \in SUBSET (DOMAIN old)
  BY RateAssumption DEF RateInv, RateTypeOK
<1>3. /\ passed'[k] = Append(old, time) /\ passed' \in [RateKeys -> Seq(0 .. MaxClock)]
      /\ \A i \in RateKeys : i # k => passed'[i] = passed[i]
  BY <1>2 DEF Consume
<1>4. /\ DOMAIN passed'[k] = 1 .. Len(old) + 1 /\ passed'[k][Len(old) + 1] = time
      /\ \A r \in DOMAIN old : passed'[k][r] = old[r]
  BY <1>2, <1>3, AppendProperties
<1>5. /\ stamps'[k] = seen \cup {Len(old) + 1} /\ stamps' \in [RateKeys -> SUBSET Nat]
      /\ \A i \in RateKeys : i # k => stamps'[i] = stamps[i]
  BY <1>2 DEF Consume, InWindow
<1>6. seen = {r \in stamps[k] : old[r] + Window(k) > time}
  BY DEF InWindow
<1>a. time' = time /\ ratePolicy' = ratePolicy /\ narrow' = narrow /\ most' = most
  OBVIOUS
<1>b. \A r \in DOMAIN old : old[r] <= time /\ (old[r] + w > time => r \in stamps[k])
  BY DEF RateInv
<1>c. \A r \in DOMAIN old : old[r] \in Nat
  BY <1>2, RateAssumption
<1>d. \A r \in DOMAIN old : old[r] + w > time => old[r] + Window(k) > time
  BY <1>1, <1>2, <1>c
<1>7. \A r \in DOMAIN old : old[r] \in Nat /\ old[r] <= time /\ (old[r] + w > time => r \in seen)
  BY <1>6, <1>b, <1>c, <1>d
<1>8. IsFiniteSet(seen) /\ Cardinality(seen) < Limit(k) /\ Cardinality(seen) \in Nat
  <2>1. IsFiniteSet(DOMAIN old)
    BY <1>2, FS_Interval
  <2> QED BY <1>2, <1>6, <2>1, FS_Subset, FS_CardinalityType DEF CheckRate
<1>9. RateTypeOK' /\ InForce'
  <2>1. stamps'[k] \subseteq DOMAIN passed'[k]
    BY <1>2, <1>4, <1>5, <1>6
  <2>2. \A i \in RateKeys : stamps'[i] \subseteq DOMAIN passed'[i]
    BY <1>3, <1>5, <2>1 DEF RateInv, RateTypeOK
  <2>3. InForce'
    BY <1>a DEF RateInv, InForce
  <2> QED BY <1>3, <1>5, <1>a, <2>2, <2>3 DEF RateInv, RateTypeOK
<1>10. \A i \in RateKeys : Narrow(i)' = Narrow(i) /\ Most(i)' = Most(i)
  BY DEF Narrow, Most
<1>11. ASSUME NEW i \in RateKeys, NEW n \in 0 .. MaxClock
       PROVE  Cardinality(Batch(i, n)') <= Most(i)
  <2>1. Cardinality(Batch(i, n)) <= Most(i)
    BY DEF RateInv, WindowsHold
  <2>2. CASE i # k
    BY <1>3, <1>10, <2>1, <2>2 DEF Batch
  <2>3. CASE i = k /\ ~(n <= time /\ time < n + w)
    <3>1. Batch(k, n)' = Batch(k, n)
      BY <1>2, <1>4, <1>10, <2>3 DEF Batch
    <3> QED BY <2>1, <2>3, <3>1
  <2>4. CASE i = k /\ n <= time /\ time < n + w
    <3>1. Batch(k, n)' = Batch(k, n) \cup {Len(old) + 1} /\ Len(old) + 1 \notin Batch(k, n)
      BY <1>2, <1>4, <1>10, <2>4 DEF Batch
    <3>2. Batch(k, n) \in SUBSET seen
      BY <1>1, <1>2, <1>7, <2>4 DEF Batch
    <3>3. /\ IsFiniteSet(Batch(k, n)) /\ Cardinality(Batch(k, n)) \in Nat
          /\ Cardinality(Batch(k, n)) <= Cardinality(seen)
      BY <1>8, <3>2, FS_Subset, FS_CardinalityType
    <3>4. Cardinality(Batch(k, n)') = Cardinality(Batch(k, n)) + 1
      BY <3>1, <3>3, FS_AddElement
    <3>5. Cardinality(Batch(k, n)') <= Most(k)
      BY <1>1, <1>8, <3>3, <3>4
    <3> QED BY <2>4, <3>5
  <2> QED BY <2>2, <2>3, <2>4
<1>12. WindowsHold'
  BY <1>10, <1>11 DEF WindowsHold
<1>13. \A i \in RateKeys : \A r \in DOMAIN passed'[i] : passed'[i][r] <= time'
  <2>1. \A r \in DOMAIN passed'[k] : passed'[k][r] <= time
    BY <1>2, <1>4, <1>7
  <2> QED BY <1>3, <1>a, <2>1 DEF RateInv
<1>14. \A i \in RateKeys : \A r \in DOMAIN passed'[i] :
          passed'[i][r] + Narrow(i) > time' => r \in stamps'[i]
  <2>1. \A r \in DOMAIN passed'[k] : passed'[k][r] + w > time => r \in stamps'[k]
    BY <1>2, <1>4, <1>5, <1>7
  <2> QED BY <1>3, <1>5, <1>a, <2>1 DEF RateInv
<1> QED BY <1>9, <1>10, <1>12, <1>13, <1>14 DEF RateInv

(* A policy only narrows the window of which the store is said to be        *)
(* complete, and only raises the maximum.                                   *)
LEMMA PolicyKeeps ==
  ASSUME RateInv, NEW t \in Tenants, NEW p \in RatePolicies \cup {DefaultPolicy},
         SetTenantRatePolicy(t, p)
  PROVE  RateInv'
<1> DEFINE least == IF p.window < narrow[t] THEN p.window ELSE narrow[t]
           greatest == IF p.max > most[t] THEN p.max ELSE most[t]
<1>1. /\ passed' = passed /\ time' = time /\ stamps' = stamps
      /\ ratePolicy' = [ratePolicy EXCEPT ![t] = p]
      /\ narrow' = [narrow EXCEPT ![t] = least] /\ most' = [most EXCEPT ![t] = greatest]
  BY DEF SetTenantRatePolicy
<1>2. /\ ratePolicy \in [Tenants -> RatePolicies \cup {DefaultPolicy}]
      /\ narrow \in [Tenants -> 1 .. DefaultWindow] /\ most \in [Tenants -> Nat]
      /\ time \in Nat /\ passed \in [RateKeys -> Seq(0 .. MaxClock)]
  BY RateAssumption DEF RateInv, RateTypeOK
<1>3. p.window \in Nat \ {0} /\ p.max \in Nat
  BY RateAssumption DEF DefaultPolicy
<1>4. /\ narrow[t] \in 1 .. DefaultWindow /\ most[t] \in Nat
  BY <1>2
<1>5. /\ least \in 1 .. DefaultWindow /\ least <= narrow[t] /\ least <= p.window
      /\ greatest \in Nat /\ most[t] <= greatest /\ p.max <= greatest
  BY <1>3, <1>4, RateAssumption
<1> HIDE DEF least, greatest
<1>6. RateTypeOK' /\ InForce'
  <2>1. /\ ratePolicy' \in [Tenants -> RatePolicies \cup {DefaultPolicy}]
        /\ narrow' \in [Tenants -> 1 .. DefaultWindow] /\ most' \in [Tenants -> Nat]
    BY <1>1, <1>2, <1>5
  <2>2. InForce'
    BY <1>1, <1>2, <1>5 DEF RateInv, InForce
  <2> QED BY <1>1, <2>1, <2>2 DEF RateInv, RateTypeOK
<1>7. ASSUME NEW k \in RateKeys
      PROVE  /\ Narrow(k) \in Nat /\ Narrow(k)' \in Nat /\ Narrow(k)' <= Narrow(k)
             /\ Most(k) \in Nat /\ Most(k)' \in Nat /\ Most(k) <= Most(k)'
  <2>1. CASE k = t
    <3>1. narrow'[t] = least /\ most'[t] = greatest
      BY <1>1, <1>2
    <3>2. /\ Narrow(k) = narrow[t] /\ Most(k) = most[t]
          /\ Narrow(k)' = narrow'[t] /\ Most(k)' = most'[t]
      BY <2>1 DEF Narrow, Most
    <3>3. \A x \in 1 .. DefaultWindow : x \in Nat
      BY RateAssumption
    <3> QED BY <1>4, <1>5, <3>1, <3>2, <3>3
  <2>2. CASE k # t
    <3>1. Narrow(k)' = Narrow(k) /\ Most(k)' = Most(k)
      BY <1>1, <1>2, <2>2 DEF Narrow, Most
    <3> QED BY <3>1, WindowsAreWider DEF RateInv
  <2> QED BY <2>1, <2>2
<1>8. \A k \in RateKeys : \A r \in DOMAIN passed[k] : passed[k][r] \in Nat
  BY <1>2, RateAssumption
<1>9. ASSUME NEW k \in RateKeys, NEW n \in 0 .. MaxClock
      PROVE  Cardinality(Batch(k, n)') <= Most(k)'
  <2>1. Batch(k, n)' \in SUBSET Batch(k, n)
    BY <1>1, <1>7, <1>8 DEF Batch
  <2>2. IsFiniteSet(Batch(k, n))
    <3>1. DOMAIN passed[k] = 1 .. Len(passed[k]) /\ Len(passed[k]) \in Nat
      <4>1. passed[k] \in Seq(0 .. MaxClock)
        BY <1>2
      <4> QED BY <4>1, LenProperties
    <3>2. IsFiniteSet(DOMAIN passed[k])
      BY <3>1, FS_Interval
    <3>3. Batch(k, n) \in SUBSET (DOMAIN passed[k])
      BY DEF Batch
    <3> QED BY <3>2, <3>3, FS_Subset
  <2>3. /\ Cardinality(Batch(k, n)') <= Cardinality(Batch(k, n))
        /\ Cardinality(Batch(k, n)') \in Nat /\ Cardinality(Batch(k, n)) \in Nat
    BY <2>1, <2>2, FS_Subset, FS_CardinalityType
  <2>4. Cardinality(Batch(k, n)) <= Most(k)
    BY DEF RateInv, WindowsHold
  <2> QED BY <1>7, <2>3, <2>4
<1>10. \A k \in RateKeys : \A r \in DOMAIN passed[k] :
          passed[k][r] + Narrow(k)' > time => r \in stamps[k]
  BY <1>2, <1>7, <1>8 DEF RateInv
<1>11. WindowsHold'
  BY <1>9 DEF WindowsHold
<1> QED BY <1>1, <1>6, <1>10, <1>11 DEF RateInv

(* Requests, policies, cleanups and time keep it. *)
LEMMA RateStep == RateInv /\ [RateNext]_rateVars => RateInv'
<1> SUFFICES ASSUME RateInv, [RateNext]_rateVars PROVE RateInv'
  OBVIOUS
<1>0. /\ time \in 0 .. MaxClock /\ time \in Nat /\ passed \in [RateKeys -> Seq(0 .. MaxClock)]
      /\ stamps \in [RateKeys -> SUBSET Nat] /\ \A k \in RateKeys : stamps[k] \subseteq DOMAIN passed[k]
      /\ \A k \in RateKeys : \A r \in DOMAIN passed[k] : passed[k][r] \in Nat
  BY RateAssumption DEF RateInv, RateTypeOK
<1>w. \A k \in RateKeys : /\ Narrow(k) \in Nat /\ CleanupWindow(k) \in Nat
                          /\ Narrow(k) <= CleanupWindow(k)
  BY WindowsAreWider DEF RateInv
<1>1. ASSUME NEW k \in RateKeys, LimitedRequest(k) \/ TenantRequest(k)
      PROVE  RateInv'
  BY <1>1, ConsumeKeeps DEF LimitedRequest, TenantRequest
<1>2. ASSUME NEW t \in Tenants, NEW p \in RatePolicies \cup {DefaultPolicy}, SetTenantRatePolicy(t, p)
      PROVE  RateInv'
  BY <1>2, PolicyKeeps
<1>3. CASE CleanupLimiters
  <2>1. /\ passed' = passed /\ time' = time /\ ratePolicy' = ratePolicy
        /\ narrow' = narrow /\ most' = most
    BY <1>3 DEF CleanupLimiters
  <2>2. \A k \in RateKeys : stamps'[k] = {r \in stamps[k] : passed[k][r] + CleanupWindow(k) > time}
    BY <1>3 DEF CleanupLimiters, InWindow
  <2>3. stamps' \in [RateKeys -> SUBSET Nat]
    BY <1>0, <1>3 DEF CleanupLimiters, InWindow
  <2>4. WindowsHold' /\ InForce'
    BY <2>1 DEF RateInv, WindowsHold, Batch, Narrow, Most, InForce
  <2>5. RateTypeOK'
    BY <1>0, <2>1, <2>2, <2>3 DEF RateInv, RateTypeOK
  <2>6. \A k \in RateKeys : \A r \in DOMAIN passed[k] :
           passed[k][r] + Narrow(k) > time => passed[k][r] + CleanupWindow(k) > time
    BY <1>0, <1>w
  <2>7. \A k \in RateKeys : \A r \in DOMAIN passed[k] :
           passed[k][r] + Narrow(k) > time => r \in stamps'[k]
    BY <2>2, <2>6 DEF RateInv
  <2> QED BY <2>1, <2>4, <2>5, <2>7 DEF RateInv, Narrow
<1>4. CASE RateTick
  <2>1. /\ passed' = passed /\ time' = time + 1 /\ stamps' = stamps /\ ratePolicy' = ratePolicy
        /\ narrow' = narrow /\ most' = most
    BY <1>4 DEF RateTick
  <2>2. time' \in 0 .. MaxClock
    BY <1>0, <1>4, RateAssumption DEF RateTick
  <2>3. WindowsHold' /\ InForce'
    BY <2>1 DEF RateInv, WindowsHold, Batch, Narrow, Most, InForce
  <2>4. RateTypeOK'
    BY <2>1, <2>2 DEF RateInv, RateTypeOK
  <2>5. \A k \in RateKeys : \A r \in DOMAIN passed[k] :
           /\ passed[k][r] <= time + 1
           /\ passed[k][r] + Narrow(k) > time + 1 => r \in stamps[k]
    BY <1>0, <1>w DEF RateInv
  <2> QED BY <2>1, <2>3, <2>4, <2>5 DEF RateInv, Narrow
<1>5. CASE UNCHANGED rateVars
  BY <1>5 DEF rateVars, RateInv, RateTypeOK, InForce, Narrow, Most, Batch, WindowsHold
<1> QED BY <1>1, <1>2, <1>3, <1>4, <1>5 DEF RateNext

(* Then the store holds what was let through. *)
LEMMA RatesHold == RateInv => WindowsHold /\ StoreIsComplete
<1> SUFFICES ASSUME RateInv PROVE StoreIsComplete
  BY DEF RateInv
<1>1. \A k \in RateKeys : stamps[k] \in SUBSET (DOMAIN passed[k])
  BY DEF RateInv, RateTypeOK
<1> QED BY <1>1 DEF RateInv, StoreIsComplete, InWindow

-----------------------------------------------------------------------------
(* Passkeys.  A handler that has not begun, and one that has.              *)
LEMMA IdleIsRequest == Idle \in Request /\ Idle.pc = "idle" /\ Idle.user = Nobody
  BY PasskeyAssumption DEF Idle, Asks, Request, LoginSteps, OtherSteps

(* Every user, one passkey, no request.                                    *)
LEMMA PasskeyTypeStart == PasskeyInit => PasskeyTypeOK
<1> SUFFICES ASSUME PasskeyInit PROVE PasskeyTypeOK
  OBVIOUS
<1>1. (CHOOSE u \in Users : TRUE) \in Users
  BY PasskeyAssumption
<1>2. cred \in [Creds -> [user : Users, counter : 0 .. MaxCounter] \cup {Nobody}]
  BY <1>1, PasskeyAssumption DEF PasskeyInit
<1>3. rq \in [Reqs -> Request] /\ \A r \in Reqs : rq[r].pc = "idle"
  BY IdleIsRequest DEF PasskeyInit
<1>4. fresh \subseteq Creds /\ users = Users /\ chals = {} /\ nextId = 1 /\ cuts = 0 /\ lastCut = {}
      /\ fails = [u \in Users |-> 0] /\ block = [u \in Users |-> "absent"]
      /\ phrases = [u \in Users |-> 0] /\ everSet = {} /\ races = {} /\ starts = 0
  BY DEF PasskeyInit
<1>5. delRaces \in BOOLEAN
  BY Zenon DEF PasskeyInit
<1> QED BY <1>2, <1>3, <1>4, <1>5, PasskeyAssumption DEF PasskeyTypeOK

(* Types are kept.                                                         *)
LEMMA PasskeyTypeStep == PasskeyTypeOK /\ [PasskeyNext]_passkeyVars => PasskeyTypeOK'
<1> SUFFICES ASSUME PasskeyTypeOK, [PasskeyNext]_passkeyVars PROVE PasskeyTypeOK'
  OBVIOUS
<1> USE PasskeyAssumption DEF keyVars, lockVars, chalVars, phraseVars, cutVars, raceVars
<1>1. ASSUME NEW u \in Users \cup {Nobody}, RegisterBegin(u) \/ RecoveryBegin(u) \/ LoginBegin(u)
      PROVE  PasskeyTypeOK'
  BY <1>1 DEF RegisterBegin, RecoveryBegin, LoginBegin, AddChallenge, PasskeyTypeOK, ChallengeTypes
<1>2. ASSUME NEW u \in Users, BlockElapses(u)
      PROVE  PasskeyTypeOK'
  BY <1>2 DEF BlockElapses, PasskeyTypeOK
<1>3. ASSUME NEW r \in Reqs, RegisterComplete(r)
      PROVE  PasskeyTypeOK'
  BY <1>3, IdleIsRequest DEF RegisterComplete, PasskeyTypeOK, Starts, DropChallenge, Goto, Ends,
                            NewCredential, Request, Asks, OtherSteps, LoginSteps
<1>4. ASSUME NEW r \in Reqs, LoginLookup(r)
      PROVE  PasskeyTypeOK'
  BY <1>4 DEF LoginLookup, PasskeyTypeOK, Starts, LogsIn, Request, OtherSteps, LoginSteps
<1>5. ASSUME NEW r \in Reqs, LoginChallenge(r)
      PROVE  PasskeyTypeOK'
  BY <1>5, IdleIsRequest DEF LoginChallenge, PasskeyTypeOK, TakeChallenge, DropChallenge, Goto, Ends,
                            Request, LoginSteps
<1>6. ASSUME NEW r \in Reqs, LoginVerdict(r)
      PROVE  PasskeyTypeOK'
  <2>1. cred' \in [Creds -> [user : Users, counter : 0 .. MaxCounter] \cup {Nobody}]
    <3>1. ASSUME NEW n \in 0 .. MaxCounter, cred[rq[r].cred] # Nobody,
                 cred' = [cred EXCEPT ![rq[r].cred].counter = n]
          PROVE  cred' \in [Creds -> [user : Users, counter : 0 .. MaxCounter] \cup {Nobody}]
      BY <3>1 DEF PasskeyTypeOK
    <3> QED BY <1>6, <3>1 DEF LoginVerdict, PasskeyTypeOK
  <2>2. rq' \in [Reqs -> Request] /\ \A q \in Reqs : rq'[q].pc # "idle" => rq'[q].user \in Users
    <3>1. rq[r].pc = "verdict" /\ (Ends(r) \/ Goto(r, "count") \/ Goto(r, "reset"))
      BY <1>6 DEF LoginVerdict
    <3> QED BY <3>1, IdleIsRequest DEF PasskeyTypeOK, Goto, Ends, Request, LoginSteps
  <2> QED BY <1>6, <2>1, <2>2 DEF LoginVerdict, PasskeyTypeOK
<1>7. ASSUME NEW r \in Reqs, CountFailure(r)
      PROVE  PasskeyTypeOK'
  BY <1>7, IdleIsRequest DEF CountFailure, PasskeyTypeOK, Ends, Request, LoginSteps
<1>8. ASSUME NEW r \in Reqs, Penalise(r) \/ ResetLockout(r)
      PROVE  PasskeyTypeOK'
  BY <1>8, IdleIsRequest DEF Penalise, ResetLockout, PasskeyTypeOK, Ends
<1>9. ASSUME NEW r \in Reqs, RecoverySetup(r)
      PROVE  PasskeyTypeOK'
  BY <1>9, IdleIsRequest DEF RecoverySetup, ClearedPhrases, PasskeyTypeOK, Starts, Ends, Request, Asks,
                            OtherSteps
<1>10. ASSUME NEW r \in Reqs, RecoveryComplete(r)
       PROVE  PasskeyTypeOK'
  BY <1>10, IdleIsRequest DEF RecoveryComplete, PasskeyTypeOK, Starts, TakeChallenge, DropChallenge, Goto,
                             Ends, NewCredential, Request, Asks, OtherSteps, LoginSteps
<1>11. ASSUME NEW r \in Reqs, DeleteUser(r)
       PROVE  PasskeyTypeOK'
  <2>1. CASE rq[r].pc = "idle"
    <3>1. delRaces' \in BOOLEAN
      BY <1>11, <2>1, Zenon DEF DeleteUser
    <3> QED BY <1>11, <2>1, <3>1 DEF DeleteUser, PasskeyTypeOK, Starts, Request, Asks, OtherSteps
  <2>2. CASE rq[r].pc # "idle"
    <3>1. cred' \in [Creds -> [user : Users, counter : 0 .. MaxCounter] \cup {Nobody}]
      BY <1>11, <2>2 DEF DeleteUser, PasskeyTypeOK
    <3>2. rq' \in [Reqs -> Request] /\ \A q \in Reqs : rq'[q].pc # "idle" => rq'[q].user \in Users
      BY <1>11, <2>2, IdleIsRequest DEF DeleteUser, PasskeyTypeOK, Ends
    <3>3. rq[r].user \in Users
      BY <2>2 DEF PasskeyTypeOK
    <3> QED BY <1>11, <2>2, <3>1, <3>2, <3>3 DEF DeleteUser, PasskeyTypeOK
  <2> QED BY <2>1, <2>2
<1>12. ASSUME NEW r \in Reqs, CutShort(r)
       PROVE  PasskeyTypeOK'
  BY <1>12, IdleIsRequest DEF CutShort, PasskeyTypeOK, Ends
<1>13. ASSUME NEW c \in Creds, DeleteCredential(c)
       PROVE  PasskeyTypeOK'
  BY <1>13 DEF DeleteCredential, PasskeyTypeOK
<1>14. CASE ChallengeExpires
  BY <1>14 DEF ChallengeExpires, PasskeyTypeOK
<1>15. CASE UNCHANGED passkeyVars
  BY <1>15 DEF passkeyVars, PasskeyTypeOK
<1> QED BY <1>1, <1>2, <1>3, <1>4, <1>5, <1>6, <1>7, <1>8, <1>9, <1>10, <1>11, <1>12, <1>13, <1>14, <1>15
        DEF PasskeyNext

(* Who no two ceremonies have run for at once has at most one in flight.    *)
Busy(r, u) == rq[r].pc # "idle" /\ rq[r].user = u
OneAtATime ==
    \A u \in Users \ races : \A q, r \in Reqs : Busy(q, u) /\ Busy(r, u) => q = r

(* What a request still to write its penalty has counted is the count.      *)
PenaltyIsCurrent ==
    \A r \in Reqs : rq[r].pc = "penalise" /\ rq[r].user \in users \ races => rq[r].n = fails[rq[r].user]

(* The guard of a deletion still holds when its DELETE runs.                *)
DeletionsAreGuarded ==
    ~ delRaces =>
        /\ users \cap Superusers # {}
        /\ \A r \in Reqs : rq[r].pc = "del" =>
              /\ \E s \in users \cap Superusers : s # rq[r].user
              /\ \A q \in Reqs : rq[q].pc = "del" => q = r

(* What a login has read of its passkey is still so, and the passkey that a *)
(* recovery has registered is there when the others go.                     *)
Looking == {"lockout", "challenge", "delete", "verdict"}
KeysAreCurrent ==
    /\ \A c \in fresh : cred[c] = Nobody
    /\ \A r \in Reqs : rq[r].pc \in Looking =>
          /\ rq[r].cred \in Creds \ fresh
          /\ cred[rq[r].cred] # Nobody =>
                /\ cred[rq[r].cred].user = rq[r].user
                /\ rq[r].user \notin races => cred[rq[r].cred].counter = rq[r].counter
    /\ \A r \in Reqs : rq[r].pc = "rec_revoke" =>
          /\ rq[r].cred \in Creds \ fresh
          /\ rq[r].user \notin races => cred[rq[r].cred] # Nobody /\ cred[rq[r].cred].user = rq[r].user

PasskeyInv ==
    /\ PasskeyTypeOK /\ OneAtATime
    /\ FailuresArePenalised /\ ThresholdLocks /\ PenaltyIsCurrent
    /\ PassphraseKept /\ DeletionsAreGuarded /\ KeysAreCurrent

(* Nothing has happened yet. *)
LEMMA PasskeyStart == PasskeyInit => PasskeyInv
<1> SUFFICES ASSUME PasskeyInit PROVE PasskeyInv
  OBVIOUS
<1>1. PasskeyTypeOK
  BY PasskeyTypeStart
<1>2. \A r \in Reqs : rq[r].pc = "idle"
  BY IdleIsRequest DEF PasskeyInit
<1>3. OneAtATime /\ PenaltyIsCurrent
  BY <1>2 DEF OneAtATime, Busy, PenaltyIsCurrent
<1>4. FailuresArePenalised /\ ThresholdLocks /\ PassphraseKept
  BY PasskeyAssumption DEF PasskeyInit, FailuresArePenalised, ThresholdLocks, PassphraseKept
<1>5. DeletionsAreGuarded
  BY <1>2, PasskeyAssumption DEF PasskeyInit, DeletionsAreGuarded
<1>6. KeysAreCurrent
  BY <1>2 DEF PasskeyInit, KeysAreCurrent, Looking
<1> QED BY <1>1, <1>3, <1>4, <1>5, <1>6 DEF PasskeyInv

(* A step of a request begins it, moves it on or ends it, and leaves the    *)
(* others where they are.                                                   *)
RequestMoves(r) ==
    /\ \A q \in Reqs : q # r => rq'[q] = rq[q]
    /\ \/ rq[r].pc = "idle" /\ Starts(r, rq'[r].user)
       \/ rq[r].pc # "idle" /\ races' = races /\ (rq'[r].pc = "idle" \/ rq'[r].user = rq[r].user)

RequestStep(r) ==
    \/ RegisterComplete(r) \/ LoginLookup(r) \/ LoginChallenge(r) \/ LoginVerdict(r)
    \/ CountFailure(r) \/ Penalise(r) \/ ResetLockout(r)
    \/ RecoverySetup(r) \/ RecoveryComplete(r) \/ DeleteUser(r) \/ CutShort(r)

(* Every handler's steps are of that kind.                                  *)
LEMMA RequestStepMoves ==
  ASSUME PasskeyTypeOK, NEW r \in Reqs, RequestStep(r)
  PROVE  RequestMoves(r)
<1>0. rq \in [Reqs -> Request] /\ \A q \in Reqs : DOMAIN rq[q] = {"pc", "user", "cred", "chal", "counter", "n"}
  BY DEF PasskeyTypeOK, Request
<1> USE <1>0 DEF keyVars, lockVars, chalVars, phraseVars, cutVars, raceVars
<1>1. CASE RegisterComplete(r)
  BY <1>1, IdleIsRequest DEF RegisterComplete, RequestMoves, DropChallenge, Goto, Ends, Asks
<1>2. CASE LoginLookup(r)
  BY <1>2 DEF LoginLookup, RequestMoves, LogsIn
<1>3. CASE LoginChallenge(r)
  BY <1>3, IdleIsRequest DEF LoginChallenge, RequestMoves, TakeChallenge, DropChallenge, Goto, Ends
<1>4. CASE LoginVerdict(r)
  BY <1>4, IdleIsRequest DEF LoginVerdict, RequestMoves, Goto, Ends
<1>5. CASE CountFailure(r) \/ Penalise(r) \/ ResetLockout(r)
  BY <1>5, IdleIsRequest DEF CountFailure, Penalise, ResetLockout, RequestMoves, Ends
<1>6. CASE RecoverySetup(r)
  BY <1>6, IdleIsRequest DEF RecoverySetup, RequestMoves, Ends, Asks
<1>7. CASE RecoveryComplete(r)
  BY <1>7, IdleIsRequest DEF RecoveryComplete, RequestMoves, TakeChallenge, DropChallenge, Goto, Ends, Asks
<1>8. CASE DeleteUser(r) \/ CutShort(r)
  BY <1>8, IdleIsRequest DEF DeleteUser, CutShort, RequestMoves, Ends, Asks
<1> QED BY <1>1, <1>2, <1>3, <1>4, <1>5, <1>6, <1>7, <1>8 DEF RequestStep

(* So the overlaps of a user are all noticed.                               *)
LEMMA OneAtATimeStep ==
  ASSUME OneAtATime, NEW r \in Reqs, RequestMoves(r)
  PROVE  OneAtATime' /\ races \subseteq races'
<1>1. races \subseteq races'
  BY DEF RequestMoves, Starts
<1>2. CASE rq[r].pc = "idle" /\ Starts(r, rq'[r].user)
  BY <1>1, <1>2 DEF OneAtATime, RequestMoves, Busy, Starts, InFlight
<1>3. CASE rq[r].pc # "idle" /\ races' = races
  BY <1>3 DEF OneAtATime, RequestMoves, Busy
<1> QED BY <1>1, <1>2, <1>3 DEF RequestMoves

(* The requests that do not touch the lockout.                             *)
LockQuiet ==
    /\ users' = users /\ fails' = fails /\ block' = block
    /\ lastCut \subseteq lastCut' /\ races \subseteq races'
    /\ \A q \in Reqs : rq'[q].pc = "penalise" => rq'[q] = rq[q]
    /\ \A q \in Reqs : rq[q].pc = "penalise" => rq'[q] = rq[q] \/ rq[q].user \in lastCut'

LockInv == FailuresArePenalised /\ ThresholdLocks /\ PenaltyIsCurrent

(* They leave it in order.                                                 *)
LEMMA LockQuietKeeps == LockInv /\ LockQuiet => LockInv'
  BY DEF LockInv, LockQuiet, FailuresArePenalised, ThresholdLocks, PenaltyIsCurrent

(* Every other request is one of them.                                     *)
LEMMA LockQuietSteps ==
  ASSUME PasskeyTypeOK, NEW r \in Reqs, RequestMoves(r), races \subseteq races',
         \/ RegisterComplete(r) \/ LoginLookup(r) \/ LoginChallenge(r) \/ LoginVerdict(r)
         \/ RecoverySetup(r) \/ RecoveryComplete(r) \/ CutShort(r)
  PROVE  LockQuiet
<1>0. rq \in [Reqs -> Request] /\ \A q \in Reqs : DOMAIN rq[q] = {"pc", "user", "cred", "chal", "counter", "n"}
  BY DEF PasskeyTypeOK, Request
<1>1. users' = users /\ fails' = fails /\ block' = block /\ lastCut \subseteq lastCut'
  BY DEF RegisterComplete, LoginLookup, LoginChallenge, LoginVerdict, RecoverySetup, RecoveryComplete,
         CutShort, lockVars, cutVars
<1>2. \/ rq[r].pc # "penalise" /\ rq'[r].pc # "penalise"
      \/ rq'[r].pc # "penalise" /\ rq[r].user \in lastCut'
  <2>1. CASE RegisterComplete(r)
    BY <1>0, <2>1, IdleIsRequest DEF RegisterComplete, DropChallenge, Goto, Ends, Asks
  <2>2. CASE LoginLookup(r)
    BY <1>0, <2>2 DEF LoginLookup, LogsIn
  <2>3. CASE LoginChallenge(r)
    BY <1>0, <2>3, IdleIsRequest DEF LoginChallenge, TakeChallenge, DropChallenge, Goto, Ends
  <2>4. CASE LoginVerdict(r)
    BY <1>0, <2>4, IdleIsRequest DEF LoginVerdict, Goto, Ends
  <2>5. CASE RecoverySetup(r)
    BY <1>0, <2>5, IdleIsRequest DEF RecoverySetup, Ends, Asks
  <2>6. CASE RecoveryComplete(r)
    BY <1>0, <2>6, IdleIsRequest DEF RecoveryComplete, TakeChallenge, DropChallenge, Goto, Ends, Asks
  <2>7. CASE CutShort(r)
    BY <1>0, <2>7, IdleIsRequest DEF CutShort, Ends
  <2> QED BY <2>1, <2>2, <2>3, <2>4, <2>5, <2>6, <2>7
<1> QED BY <1>1, <1>2 DEF LockQuiet, RequestMoves

(* A failure is counted and penalised, a success or a deletion resets.     *)
LEMMA LockSteps ==
  ASSUME PasskeyTypeOK, OneAtATime, LockInv, NEW r \in Reqs, RequestMoves(r),
         CountFailure(r) \/ Penalise(r) \/ ResetLockout(r) \/ DeleteUser(r)
  PROVE  LockInv'
<1>0. /\ rq \in [Reqs -> Request] /\ \A q \in Reqs : DOMAIN rq[q] = {"pc", "user", "cred", "chal", "counter", "n"}
      /\ fails \in [Users -> 0 .. MaxFails] /\ users \in SUBSET Users
      /\ block \in [Users -> {"absent", "none", "delay", "lock", "over"}]
      /\ \A q \in Reqs : rq[q].pc # "idle" => rq[q].user \in Users
      /\ \A u \in Users : fails[u] \in Nat
  BY PasskeyAssumption DEF PasskeyTypeOK, Request
<1>1. \A q \in Reqs : q # r => rq'[q] = rq[q]
  BY DEF RequestMoves
<1>2. \A q \in Reqs : /\ rq[q].pc = "penalise" /\ q # r /\ rq[r].pc # "idle" /\ rq[q].user = rq[r].user
                      => rq[r].user \in races
  BY <1>0 DEF OneAtATime, Busy
<1>3. CASE CountFailure(r)
  <2>1. races' = races /\ lastCut' = lastCut /\ users' = users /\ rq[r].pc = "count"
    BY <1>3 DEF CountFailure, raceVars, cutVars
  <2>2. CASE rq[r].user \in users
    <3>1. /\ fails' = [fails EXCEPT ![rq[r].user] = fails[rq[r].user] + 1]
          /\ rq'[r].pc = "penalise" /\ rq'[r].n = fails[rq[r].user] + 1 /\ rq'[r].user = rq[r].user
          /\ \A u \in Users : u # rq[r].user => block'[u] = block[u]
      BY <1>0, <1>3, <2>2 DEF CountFailure
    <3>2. PenaltyIsCurrent'
      BY <1>0, <1>1, <1>2, <2>1, <3>1 DEF LockInv, PenaltyIsCurrent
    <3>3. FailuresArePenalised' /\ ThresholdLocks'
      BY <1>0, <1>1, <2>1, <3>1 DEF LockInv, FailuresArePenalised, ThresholdLocks
    <3> QED BY <3>2, <3>3 DEF LockInv
  <2>3. CASE rq[r].user \notin users
    <3>1. LockQuiet
      BY <1>0, <1>1, <1>3, <2>1, <2>3, IdleIsRequest DEF CountFailure, LockQuiet, Ends, lockVars
    <3> QED BY <3>1, LockQuietKeeps
  <2> QED BY <2>2, <2>3
<1>4. CASE Penalise(r)
  <2>1. races' = races /\ lastCut' = lastCut /\ users' = users /\ fails' = fails
        /\ rq[r].pc = "penalise" /\ rq'[r].pc = "idle"
    BY <1>0, <1>4, IdleIsRequest DEF Penalise, Ends, raceVars, cutVars
  <2>2. PenaltyIsCurrent'
    BY <1>1, <2>1 DEF LockInv, PenaltyIsCurrent
  <2>3. /\ \A u \in users : u # rq[r].user => block'[u] = block[u]
        /\ rq[r].user \in users => block'[rq[r].user] = IF rq[r].n >= Threshold THEN "lock" ELSE "delay"
    BY <1>0, <1>4 DEF Penalise
  <2>4. rq[r].user \in users \ races => rq[r].n = fails[rq[r].user]
    BY <2>1 DEF LockInv, PenaltyIsCurrent
  <2>5. FailuresArePenalised'
    BY <1>1, <2>1, <2>3 DEF LockInv, FailuresArePenalised
  <2>6. ThresholdLocks'
    BY <1>1, <2>1, <2>3, <2>4 DEF LockInv, ThresholdLocks
  <2> QED BY <2>2, <2>5, <2>6 DEF LockInv
<1>5. CASE ResetLockout(r)
  <2>1. races' = races /\ lastCut' = lastCut /\ users' = users
        /\ rq[r].pc = "reset" /\ rq'[r].pc = "idle"
    BY <1>0, <1>5, IdleIsRequest DEF ResetLockout, Ends, raceVars, cutVars
  <2>2. /\ \A u \in users : u # rq[r].user => block'[u] = block[u] /\ fails'[u] = fails[u]
        /\ rq[r].user \in users => fails'[rq[r].user] = 0
    BY <1>0, <1>5 DEF ResetLockout
  <2>3. PenaltyIsCurrent'
    BY <1>1, <1>2, <2>1, <2>2 DEF LockInv, PenaltyIsCurrent
  <2>4. FailuresArePenalised' /\ ThresholdLocks'
    BY <1>1, <2>1, <2>2, PasskeyAssumption DEF LockInv, FailuresArePenalised, ThresholdLocks
  <2> QED BY <2>3, <2>4 DEF LockInv
<1>6. CASE DeleteUser(r) /\ rq[r].pc = "idle"
  <2>1. LockQuiet
    BY <1>0, <1>1, <1>6 DEF DeleteUser, LockQuiet, Starts, Asks, lockVars, cutVars
  <2> QED BY <2>1, LockQuietKeeps
<1>7. CASE DeleteUser(r) /\ rq[r].pc # "idle"
  <2>1. races' = races /\ lastCut' = lastCut /\ users' = users \ {rq[r].user}
        /\ rq[r].pc = "del" /\ rq'[r].pc = "idle"
    BY <1>0, <1>7, IdleIsRequest DEF DeleteUser, Ends, raceVars, cutVars
  <2>2. \A u \in users' : block'[u] = block[u] /\ fails'[u] = fails[u]
    BY <1>0, <1>7, <2>1 DEF DeleteUser
  <2>3. PenaltyIsCurrent'
    BY <1>1, <2>1, <2>2 DEF LockInv, PenaltyIsCurrent
  <2>4. FailuresArePenalised' /\ ThresholdLocks'
    BY <1>1, <2>1, <2>2 DEF LockInv, FailuresArePenalised, ThresholdLocks
  <2> QED BY <2>3, <2>4 DEF LockInv
<1> QED BY <1>3, <1>4, <1>5, <1>6, <1>7

(* A passphrase goes only with its replacement, a cut or the user.         *)
LEMMA PhraseSteps ==
  ASSUME PasskeyTypeOK, PassphraseKept, NEW r \in Reqs, RequestMoves(r), RequestStep(r)
  PROVE  PassphraseKept'
<1>0. /\ rq \in [Reqs -> Request] /\ \A q \in Reqs : DOMAIN rq[q] = {"pc", "user", "cred", "chal", "counter", "n"}
      /\ phrases \in [Users -> Nat] /\ users \in SUBSET Users
  BY DEF PasskeyTypeOK, Request
<1>1. \A q \in Reqs : q # r => rq'[q] = rq[q]
  BY DEF RequestMoves
<1>2. CASE RecoverySetup(r)
  <2>1. users' = users /\ lastCut' = lastCut
    BY <1>2 DEF RecoverySetup, cutVars
  <2>2. CASE rq[r].pc = "idle"
    <3>1. PICK u \in users : phrases' = [phrases EXCEPT ![u] = 0] /\ rq' = [rq EXCEPT ![r] = Asks("phrase", u, 0)]
                             /\ everSet' = everSet
      BY <1>2, <2>2 DEF RecoverySetup, ClearedPhrases
    <3>2. rq'[r].pc = "phrase" /\ rq'[r].user = u
      BY <1>0, <3>1 DEF Asks
    <3> QED BY <1>0, <1>1, <2>1, <2>2, <3>1, <3>2 DEF PassphraseKept
  <2>3. CASE rq[r].pc = "phrase"
    <3>1. /\ rq'[r].pc = "idle" /\ everSet' = everSet \cup {rq[r].user}
          /\ rq[r].user \in users => phrases'[rq[r].user] > 0
          /\ \A u \in users : u # rq[r].user => phrases'[u] = phrases[u]
      BY <1>0, <1>2, <2>3, IdleIsRequest DEF RecoverySetup, Ends
    <3> QED BY <1>1, <2>1, <2>3, <3>1 DEF PassphraseKept
  <2> QED BY <1>2, <2>2, <2>3 DEF RecoverySetup
<1>3. CASE DeleteUser(r)
  <2>1. users' \subseteq users /\ lastCut' = lastCut /\ everSet' = everSet /\ rq[r].pc # "phrase"
        /\ \A u \in users' : phrases'[u] = phrases[u]
    BY <1>0, <1>3 DEF DeleteUser, cutVars, phraseVars
  <2> QED BY <1>1, <2>1 DEF PassphraseKept
<1>4. CASE CutShort(r)
  <2>1. users' = users /\ phrases' = phrases /\ everSet' = everSet /\ lastCut' = lastCut \cup {rq[r].user}
    BY <1>4 DEF CutShort, phraseVars
  <2> QED BY <1>1, <2>1 DEF PassphraseKept
<1>5. CASE \/ RegisterComplete(r) \/ LoginLookup(r) \/ LoginChallenge(r) \/ LoginVerdict(r)
           \/ CountFailure(r) \/ Penalise(r) \/ ResetLockout(r) \/ RecoveryComplete(r)
  <2>1. users' = users /\ phrases' = phrases /\ everSet' = everSet /\ lastCut' = lastCut
        /\ rq[r].pc # "phrase"
    BY <1>5 DEF RegisterComplete, LoginLookup, LoginChallenge, LoginVerdict, CountFailure, Penalise,
                ResetLockout, RecoveryComplete, phraseVars, cutVars
  <2> QED BY <1>1, <2>1 DEF PassphraseKept
<1> QED BY <1>2, <1>3, <1>4, <1>5 DEF RequestStep

(* Who passed the count of superusers may go: another one stays.           *)
LEMMA GuardLeavesOne ==
  ASSUME PasskeyTypeOK, NEW u \in users, users \cap Superusers # {}, ~(u \in Superusers /\ LastSuperuser)
  PROVE  \E s \in users \cap Superusers : s # u
<1>1. SUFFICES ASSUME users \cap Superusers \subseteq {u} PROVE FALSE
  OBVIOUS
<1>2. users \cap Superusers = {u} /\ u \in Superusers
  BY <1>1
<1>3. Cardinality({u}) = 1
  BY FS_Singleton
<1> QED BY <1>2, <1>3 DEF LastSuperuser

(* Deletions one at a time.                                                *)
LEMMA DeletionSteps ==
  ASSUME PasskeyTypeOK, DeletionsAreGuarded, NEW r \in Reqs, RequestMoves(r), RequestStep(r)
  PROVE  DeletionsAreGuarded'
<1>0. /\ rq \in [Reqs -> Request] /\ \A q \in Reqs : DOMAIN rq[q] = {"pc", "user", "cred", "chal", "counter", "n"}
  BY DEF PasskeyTypeOK, Request
<1>1. \A q \in Reqs : q # r => rq'[q] = rq[q]
  BY DEF RequestMoves
<1>2. CASE DeleteUser(r) /\ rq[r].pc = "idle"
  <2>1. PICK u \in users : ~(u \in Superusers /\ LastSuperuser) /\ rq' = [rq EXCEPT ![r] = Asks("del", u, 0)]
                           /\ (delRaces' <=> (delRaces \/ \E q \in Reqs : rq[q].pc = "del"))
    BY <1>2 DEF DeleteUser
  <2>2. users' = users /\ rq'[r].pc = "del" /\ rq'[r].user = u
    BY <1>0, <1>2, <2>1 DEF DeleteUser, Asks
  <2>3. CASE delRaces'
    BY <2>3 DEF DeletionsAreGuarded
  <2>4. CASE ~ delRaces'
    <3>1. ~ delRaces /\ \A q \in Reqs : rq[q].pc # "del"
      BY <2>1, <2>4
    <3>2. users \cap Superusers # {} /\ \E s \in users \cap Superusers : s # u
      BY <2>1, <3>1, GuardLeavesOne DEF DeletionsAreGuarded
    <3> QED BY <1>1, <2>2, <3>1, <3>2 DEF DeletionsAreGuarded
  <2> QED BY <2>3, <2>4
<1>3. CASE DeleteUser(r) /\ rq[r].pc # "idle"
  <2>1. users' = users \ {rq[r].user} /\ rq[r].pc = "del" /\ rq'[r].pc = "idle" /\ delRaces' = delRaces
    BY <1>0, <1>3, IdleIsRequest DEF DeleteUser, Ends, raceVars
  <2> QED BY <1>1, <2>1 DEF DeletionsAreGuarded
<1>4. CASE \/ RegisterComplete(r) \/ LoginLookup(r) \/ LoginChallenge(r) \/ LoginVerdict(r)
           \/ CountFailure(r) \/ Penalise(r) \/ ResetLockout(r) \/ RecoverySetup(r) \/ RecoveryComplete(r)
           \/ CutShort(r)
  <2>1. users' = users /\ delRaces' = delRaces
    BY <1>4 DEF RegisterComplete, LoginLookup, LoginChallenge, LoginVerdict, CountFailure, Penalise,
                ResetLockout, RecoverySetup, RecoveryComplete, CutShort, raceVars
  <2>2. rq'[r].pc # "del"
    <3>1. CASE RegisterComplete(r)
      BY <1>0, <3>1, IdleIsRequest DEF RegisterComplete, DropChallenge, Goto, Ends, Asks
    <3>2. CASE LoginLookup(r)
      BY <1>0, <3>2 DEF LoginLookup, LogsIn
    <3>3. CASE LoginChallenge(r)
      BY <1>0, <3>3, IdleIsRequest DEF LoginChallenge, TakeChallenge, DropChallenge, Goto, Ends
    <3>4. CASE LoginVerdict(r)
      BY <1>0, <3>4, IdleIsRequest DEF LoginVerdict, Goto, Ends
    <3>5. CASE CountFailure(r) \/ Penalise(r) \/ ResetLockout(r)
      BY <1>0, <3>5, IdleIsRequest DEF CountFailure, Penalise, ResetLockout, Ends
    <3>6. CASE RecoverySetup(r)
      BY <1>0, <3>6, IdleIsRequest DEF RecoverySetup, Ends, Asks
    <3>7. CASE RecoveryComplete(r)
      BY <1>0, <3>7, IdleIsRequest DEF RecoveryComplete, TakeChallenge, DropChallenge, Goto, Ends, Asks
    <3>8. CASE CutShort(r)
      BY <1>0, <3>8, IdleIsRequest DEF CutShort, Ends
    <3> QED BY <1>4, <3>1, <3>2, <3>3, <3>4, <3>5, <3>6, <3>7, <3>8
  <2> QED BY <1>1, <2>1, <2>2 DEF DeletionsAreGuarded
<1> QED BY <1>2, <1>3, <1>4 DEF RequestStep

(* The requests that read no passkey and write none.                       *)
KeyQuiet(r) ==
    /\ cred' = cred /\ fresh' = fresh
    /\ rq'[r].pc \in Looking => /\ rq[r].pc \in Looking /\ rq'[r].user = rq[r].user
                                /\ rq'[r].cred = rq[r].cred /\ rq'[r].counter = rq[r].counter
    /\ rq'[r].pc # "rec_revoke"

(* They leave what others have read as it is.                              *)
LEMMA KeyQuietKeeps ==
  ASSUME KeysAreCurrent, NEW r \in Reqs, RequestMoves(r), races \subseteq races', KeyQuiet(r)
  PROVE  KeysAreCurrent'
<1>1. \A q \in Reqs : q # r => rq'[q] = rq[q]
  BY DEF RequestMoves
<1> QED BY <1>1 DEF KeysAreCurrent, KeyQuiet

(* Most requests are of that kind most of the time.                        *)
LEMMA KeyQuietSteps ==
  ASSUME PasskeyTypeOK, NEW r \in Reqs,
         \/ RegisterComplete(r) /\ rq[r].pc # "reg_insert"
         \/ LoginChallenge(r) \/ CountFailure(r) \/ Penalise(r) \/ ResetLockout(r)
         \/ RecoverySetup(r) \/ CutShort(r)
         \/ DeleteUser(r) /\ rq[r].pc = "idle"
         \/ RecoveryComplete(r) /\ rq'[r].pc # "rec_revoke" /\ rq[r].pc # "rec_revoke"
  PROVE  KeyQuiet(r)
<1>0. /\ rq \in [Reqs -> Request] /\ \A q \in Reqs : DOMAIN rq[q] = {"pc", "user", "cred", "chal", "counter", "n"}
  BY DEF PasskeyTypeOK, Request
<1> USE <1>0, IdleIsRequest DEF keyVars, KeyQuiet, Looking, Goto, Ends, Asks, TakeChallenge, DropChallenge
<1>1. CASE RegisterComplete(r) /\ rq[r].pc # "reg_insert"
  BY <1>1 DEF RegisterComplete
<1>2. CASE LoginChallenge(r)
  BY <1>2 DEF LoginChallenge
<1>3. CASE CountFailure(r) \/ Penalise(r) \/ ResetLockout(r)
  BY <1>3 DEF CountFailure, Penalise, ResetLockout
<1>4. CASE RecoverySetup(r) \/ CutShort(r)
  BY <1>4 DEF RecoverySetup, CutShort
<1>5. CASE DeleteUser(r) /\ rq[r].pc = "idle"
  BY <1>5 DEF DeleteUser
<1>6. CASE RecoveryComplete(r) /\ rq'[r].pc # "rec_revoke" /\ rq[r].pc # "rec_revoke"
  BY <1>6 DEF RecoveryComplete
<1> QED BY <1>1, <1>2, <1>3, <1>4, <1>5, <1>6

(* The passkeys read at the start of a login, written by its verdict, made *)
(* by a registration or recovery, taken away by a recovery or a deletion.  *)
LEMMA KeySteps ==
  ASSUME PasskeyTypeOK, OneAtATime, KeysAreCurrent, NEW r \in Reqs, RequestMoves(r), RequestStep(r),
         races \subseteq races'
  PROVE  KeysAreCurrent'
<1>0. /\ rq \in [Reqs -> Request] /\ \A q \in Reqs : DOMAIN rq[q] = {"pc", "user", "cred", "chal", "counter", "n"}
      /\ cred \in [Creds -> [user : Users, counter : 0 .. MaxCounter] \cup {Nobody}]
      /\ fresh \in SUBSET Creds /\ \A q \in Reqs : rq[q].pc # "idle" => rq[q].user \in Users
      /\ Nobody \notin [user : Users, counter : Nat] /\ Nobody \notin [user : Users, counter : 0 .. MaxCounter]
  BY PasskeyAssumption DEF PasskeyTypeOK, Request
<1>1. \A q \in Reqs : q # r => rq'[q] = rq[q]
  BY DEF RequestMoves
<1>2. \A q \in Reqs : /\ rq[q].pc # "idle" /\ q # r /\ rq[r].pc # "idle" /\ rq[q].user = rq[r].user
                      => rq[r].user \in races
  BY <1>0 DEF OneAtATime, Busy
<1>3. ASSUME NEW c \in fresh, NEW u \in Users, NewCredential(c, u),
             \/ rq'[r].pc = "idle"
             \/ rq'[r].pc = "rec_revoke" /\ rq'[r].cred = c /\ rq'[r].user = u
      PROVE  KeysAreCurrent'
  <2>1. /\ cred'[c] = [user |-> u, counter |-> 0] /\ \A d \in Creds : d # c => cred'[d] = cred[d]
        /\ fresh' = fresh \ {c} /\ c \in Creds
    BY <1>0, <1>3 DEF NewCredential
  <2>2. cred'[c] # Nobody /\ cred'[c].user = u
    <3>1. [user |-> u, counter |-> 0] \in [user : Users, counter : Nat]
      OBVIOUS
    <3> QED BY <1>0, <2>1, <3>1
  <2> QED BY <1>0, <1>1, <1>3, <2>1, <2>2 DEF KeysAreCurrent, Looking
<1>4. CASE RegisterComplete(r) /\ rq[r].pc = "reg_insert"
  <2>1. rq'[r].pc = "idle"
    BY <1>0, <1>4, IdleIsRequest DEF RegisterComplete, Ends
  <2>2. CASE UNCHANGED keyVars
    <3>1. KeyQuiet(r)
      BY <2>1, <2>2 DEF KeyQuiet, keyVars, Looking
    <3> QED BY <3>1, KeyQuietKeeps
  <2>3. CASE \E c \in fresh : NewCredential(c, rq[r].user)
    BY <1>0, <1>3, <1>4, <2>1, <2>3
  <2> QED BY <1>4, <2>2, <2>3 DEF RegisterComplete
<1>5. CASE LoginLookup(r)
  <2>1. PICK c \in Creds : cred[c] # Nobody /\ rq' = [rq EXCEPT ![r] = LogsIn(c)]
    BY <1>5 DEF LoginLookup
  <2>2. /\ rq'[r].pc = "lockout" /\ rq'[r].cred = c /\ rq'[r].user = cred[c].user
        /\ rq'[r].counter = cred[c].counter /\ cred' = cred /\ fresh' = fresh
    BY <1>0, <1>5, <2>1 DEF LoginLookup, LogsIn, keyVars
  <2> QED BY <1>1, <2>1, <2>2 DEF KeysAreCurrent
<1>6. CASE LoginVerdict(r)
  <2>1. rq[r].pc = "verdict" /\ rq[r].cred \in Creds \ fresh /\ fresh' = fresh
    BY <1>6 DEF LoginVerdict, KeysAreCurrent, Looking
  <2>2. rq'[r].pc \in {"idle", "count", "reset"}
    <3>1. Ends(r) \/ Goto(r, "count") \/ Goto(r, "reset")
      BY <1>6 DEF LoginVerdict
    <3> QED BY <1>0, <3>1, IdleIsRequest DEF Goto, Ends
  <2>3. CASE cred' = cred
    <3>1. KeyQuiet(r)
      BY <2>1, <2>2, <2>3 DEF KeyQuiet, Looking
    <3> QED BY <3>1, KeyQuietKeeps
  <2>4. CASE cred' # cred
    <3>1. PICK n \in 0 .. MaxCounter : cred[rq[r].cred] # Nobody /\ cred' = [cred EXCEPT ![rq[r].cred].counter = n]
      BY <1>6, <2>4 DEF LoginVerdict
    <3>2. /\ \A d \in Creds : d # rq[r].cred => cred'[d] = cred[d]
          /\ cred[rq[r].cred].user = rq[r].user /\ cred'[rq[r].cred].user = rq[r].user
          /\ cred'[rq[r].cred] \in [user : Users, counter : 0 .. MaxCounter]
      BY <1>0, <2>1, <3>1 DEF KeysAreCurrent, Looking
    <3>3. cred'[rq[r].cred] # Nobody
      BY <1>0, <3>2
    <3> QED BY <1>0, <1>1, <1>2, <2>1, <2>2, <3>1, <3>2, <3>3 DEF KeysAreCurrent, Looking
  <2> QED BY <2>3, <2>4
<1>7. CASE RecoveryComplete(r) /\ rq'[r].pc = "rec_revoke" /\ rq[r].pc # "rec_revoke"
  <2>1. PICK c \in fresh : /\ rq[r].pc = "rec_insert" /\ NewCredential(c, rq[r].user)
                           /\ rq' = [rq EXCEPT ![r].pc = "rec_revoke", ![r].cred = c]
    BY <1>0, <1>7, IdleIsRequest DEF RecoveryComplete, Goto, Ends, Asks, TakeChallenge, DropChallenge
  <2>2. rq'[r].cred = c /\ rq'[r].user = rq[r].user /\ rq[r].pc # "idle"
    BY <1>0, <2>1
  <2> QED BY <1>0, <1>3, <1>7, <2>1, <2>2
<1>8. CASE RecoveryComplete(r) /\ rq[r].pc = "rec_revoke"
  <2>1. rq'[r].pc = "reset" /\ fresh' = fresh
    BY <1>0, <1>8 DEF RecoveryComplete, Goto
  <2>2. \A c \in Creds : /\ cred'[c] = Nobody \/ cred'[c] = cred[c]
                         /\ cred[c] # Nobody /\ cred[c].user # rq[r].user => cred'[c] = cred[c]
    BY <1>0, <1>8 DEF RecoveryComplete, RevokeOld
  <2> QED BY <1>0, <1>1, <1>2, <1>8, <2>1, <2>2 DEF KeysAreCurrent, Looking
<1>9. CASE DeleteUser(r) /\ rq[r].pc # "idle"
  <2>1. rq'[r].pc = "idle" /\ fresh' = fresh
    BY <1>0, <1>9, IdleIsRequest DEF DeleteUser, Ends
  <2>2. \A c \in Creds : /\ cred'[c] = Nobody \/ cred'[c] = cred[c]
                         /\ cred[c] # Nobody /\ cred[c].user # rq[r].user => cred'[c] = cred[c]
    BY <1>0, <1>9 DEF DeleteUser
  <2> QED BY <1>0, <1>1, <1>2, <1>9, <2>1, <2>2 DEF KeysAreCurrent, Looking
<1> QED BY <1>4, <1>5, <1>6, <1>7, <1>8, <1>9, KeyQuietSteps, KeyQuietKeeps DEF RequestStep

(* Every step keeps the passkeys' invariant.                               *)
LEMMA PasskeyStep == PasskeyInv /\ [PasskeyNext]_passkeyVars => PasskeyInv'
<1> SUFFICES ASSUME PasskeyInv, [PasskeyNext]_passkeyVars PROVE PasskeyInv'
  OBVIOUS
<1>0. PasskeyTypeOK /\ PasskeyTypeOK'
  BY PasskeyTypeStep DEF PasskeyInv
<1>1. ASSUME NEW r \in Reqs, RequestStep(r)
      PROVE  PasskeyInv'
  <2>1. RequestMoves(r)
    BY <1>0, <1>1, RequestStepMoves
  <2>2. OneAtATime' /\ races \subseteq races'
    BY <2>1, OneAtATimeStep DEF PasskeyInv
  <2>3. LockInv
    BY DEF PasskeyInv, LockInv
  <2>4. LockInv'
    BY <1>0, <1>1, <2>1, <2>2, <2>3, LockQuietSteps, LockQuietKeeps, LockSteps DEF RequestStep, PasskeyInv
  <2>5. PassphraseKept' /\ DeletionsAreGuarded'
    BY <1>0, <1>1, <2>1, PhraseSteps, DeletionSteps DEF PasskeyInv
  <2>6. KeysAreCurrent'
    BY <1>0, <1>1, <2>1, <2>2, KeySteps DEF PasskeyInv
  <2> QED BY <1>0, <2>2, <2>4, <2>5, <2>6 DEF PasskeyInv, LockInv
<1>2. ASSUME NEW u \in Users, BlockElapses(u)
      PROVE  PasskeyInv'
  <2>1. /\ cred' = cred /\ fresh' = fresh /\ users' = users /\ fails' = fails /\ phrases' = phrases
        /\ everSet' = everSet /\ rq' = rq /\ lastCut' = lastCut /\ races' = races /\ delRaces' = delRaces
    BY <1>2 DEF BlockElapses, keyVars, phraseVars, cutVars, raceVars
  <2>2. block'[u] = "over" /\ \A v \in Users : v # u => block'[v] = block[v]
    BY <1>0, <1>2 DEF BlockElapses, PasskeyTypeOK
  <2>3. FailuresArePenalised' /\ ThresholdLocks'
    BY <1>0, <2>1, <2>2 DEF PasskeyInv, FailuresArePenalised, ThresholdLocks, PasskeyTypeOK
  <2>4. OneAtATime' /\ PenaltyIsCurrent' /\ PassphraseKept' /\ DeletionsAreGuarded' /\ KeysAreCurrent'
    BY <2>1 DEF PasskeyInv, OneAtATime, Busy, PenaltyIsCurrent, PassphraseKept, DeletionsAreGuarded,
                KeysAreCurrent
  <2> QED BY <1>0, <2>3, <2>4 DEF PasskeyInv
<1>3. ASSUME NEW c \in Creds, DeleteCredential(c)
      PROVE  PasskeyInv'
  <2>1. /\ fresh' = fresh /\ users' = users /\ fails' = fails /\ block' = block /\ phrases' = phrases
        /\ everSet' = everSet /\ rq' = rq /\ lastCut' = lastCut /\ delRaces' = delRaces
        /\ races \subseteq races'
    BY <1>3 DEF DeleteCredential, lockVars, phraseVars, cutVars
  <2>2. /\ cred[c] # Nobody /\ cred'[c] = Nobody /\ \A d \in Creds : d # c => cred'[d] = cred[d]
        /\ \A r \in Reqs : rq[r].pc # "idle" /\ rq[r].user = cred[c].user => rq[r].user \in races'
    BY <1>0, <1>3, PasskeyAssumption DEF DeleteCredential, PasskeyTypeOK, InFlight
  <2>3. OneAtATime' /\ FailuresArePenalised' /\ ThresholdLocks' /\ PenaltyIsCurrent'
    BY <2>1 DEF PasskeyInv, OneAtATime, Busy, PenaltyIsCurrent, FailuresArePenalised, ThresholdLocks
  <2>4. PassphraseKept' /\ DeletionsAreGuarded'
    BY <2>1 DEF PasskeyInv, PassphraseKept, DeletionsAreGuarded
  <2>5. fresh \subseteq Creds
    BY <1>0 DEF PasskeyTypeOK
  <2>6. KeysAreCurrent'
    BY <2>1, <2>2, <2>5 DEF PasskeyInv, KeysAreCurrent, Looking
  <2> QED BY <1>0, <2>3, <2>4, <2>6 DEF PasskeyInv
<1>4. ASSUME \/ \E u \in Users : RegisterBegin(u) \/ RecoveryBegin(u)
             \/ \E u \in Users \cup {Nobody} : LoginBegin(u)
             \/ ChallengeExpires \/ UNCHANGED passkeyVars
      PROVE  PasskeyInv'
  <2>1. /\ cred' = cred /\ fresh' = fresh /\ users' = users /\ fails' = fails /\ block' = block
        /\ phrases' = phrases /\ everSet' = everSet /\ rq' = rq /\ lastCut' = lastCut /\ races' = races
        /\ delRaces' = delRaces
    BY <1>4 DEF RegisterBegin, RecoveryBegin, LoginBegin, ChallengeExpires, passkeyVars,
                keyVars, lockVars, phraseVars, cutVars, raceVars
  <2>2. OneAtATime' /\ FailuresArePenalised' /\ ThresholdLocks' /\ PenaltyIsCurrent'
    BY <2>1 DEF PasskeyInv, OneAtATime, Busy, PenaltyIsCurrent, FailuresArePenalised, ThresholdLocks
  <2>3. PassphraseKept' /\ DeletionsAreGuarded' /\ KeysAreCurrent'
    BY <2>1 DEF PasskeyInv, PassphraseKept, DeletionsAreGuarded, KeysAreCurrent
  <2> QED BY <1>0, <2>2, <2>3 DEF PasskeyInv
<1> QED BY <1>1, <1>2, <1>3, <1>4 DEF PasskeyNext, RequestStep

(* The steps that write a passkey.                                         *)
LEMMA KeyWrites ==
  ASSUME PasskeyInv, [PasskeyNext]_passkeyVars
  PROVE  \/ cred' = cred
         \/ \E c \in Creds : DeleteCredential(c)
         \/ \E c \in fresh, u \in users : NewCredential(c, u)
         \/ \E r \in Reqs : LoginVerdict(r)
         \/ \E r \in Reqs : RecoveryComplete(r) /\ rq[r].pc = "rec_revoke"
         \/ \E r \in Reqs : DeleteUser(r) /\ rq[r].pc # "idle"
<1>1. ASSUME NEW r \in Reqs, RequestStep(r), cred' # cred
      PROVE  \/ \E c \in fresh, u \in users : NewCredential(c, u)
             \/ LoginVerdict(r)
             \/ RecoveryComplete(r) /\ rq[r].pc = "rec_revoke"
             \/ DeleteUser(r) /\ rq[r].pc # "idle"
  <2> USE <1>1 DEF keyVars
  <2>1. CASE RegisterComplete(r)
    BY <2>1 DEF RegisterComplete
  <2>2. CASE RecoveryComplete(r)
    BY <2>2 DEF RecoveryComplete
  <2>3. CASE DeleteUser(r)
    BY <2>3 DEF DeleteUser
  <2>4. CASE \/ LoginLookup(r) \/ LoginChallenge(r) \/ CountFailure(r) \/ Penalise(r) \/ ResetLockout(r)
             \/ RecoverySetup(r) \/ CutShort(r)
    BY <2>4 DEF LoginLookup, LoginChallenge, CountFailure, Penalise, ResetLockout, RecoverySetup, CutShort
  <2>5. CASE LoginVerdict(r)
    BY <2>5
  <2> QED BY <2>1, <2>2, <2>3, <2>4, <2>5 DEF RequestStep
<1>2. ASSUME \/ \E u \in Users : RegisterBegin(u) \/ RecoveryBegin(u) \/ BlockElapses(u)
             \/ \E u \in Users \cup {Nobody} : LoginBegin(u)
             \/ ChallengeExpires \/ UNCHANGED passkeyVars
      PROVE  cred' = cred
  BY <1>2 DEF RegisterBegin, RecoveryBegin, BlockElapses, LoginBegin, ChallengeExpires, passkeyVars, keyVars
<1> QED BY <1>1, <1>2 DEF PasskeyNext, RequestStep

(* What a step may do to the keys of a user who is not in a race.          *)
KeyPromise(u) ==
    u \in users \cap users' /\ u \notin races' /\ KeysOf(u) # {} /\ KeysOf(u)' = {}
        => \E c \in KeysOf(u) : DeleteCredential(c)
CountPromise(c) ==
    cred[c] # Nobody /\ cred'[c] # Nobody /\ cred[c].user \notin races'
        => cred'[c].counter >= cred[c].counter \/ cred'[c].counter = 0

(* Only the owner takes a last passkey, and no counter falls but to zero.  *)
LEMMA KeyPromises ==
  ASSUME PasskeyInv, [PasskeyNext]_passkeyVars
  PROVE  (\A u \in Users : KeyPromise(u)) /\ (\A c \in Creds : CountPromise(c))
<1>0. /\ cred \in [Creds -> [user : Users, counter : 0 .. MaxCounter] \cup {Nobody}]
      /\ fresh \in SUBSET Creds /\ Nobody \notin [user : Users, counter : Nat]
      /\ Nobody \notin [user : Users, counter : 0 .. MaxCounter]
      /\ \A c \in Creds : cred[c] # Nobody => cred[c].counter \in Nat
      /\ \A r \in Reqs : rq[r].counter \in Nat
  BY PasskeyAssumption DEF PasskeyInv, PasskeyTypeOK, Request
<1>1. \A u \in Users : races' = races /\ u \notin races' => u \notin races
  OBVIOUS
<1>2. CASE cred' = cred
  BY <1>0, <1>2 DEF KeyPromise, CountPromise, KeysOf
<1>3. ASSUME NEW c \in Creds, DeleteCredential(c)
      PROVE  (\A u \in Users : KeyPromise(u)) /\ (\A d \in Creds : CountPromise(d))
  <2>1. cred[c] # Nobody /\ cred'[c] = Nobody /\ \A d \in Creds : d # c => cred'[d] = cred[d]
    BY <1>0, <1>3 DEF DeleteCredential
  <2>2. \A d \in Creds : CountPromise(d)
    BY <1>0, <2>1 DEF CountPromise
  <2>3. \A u \in Users : KeyPromise(u)
    BY <1>3, <2>1 DEF KeyPromise, KeysOf
  <2> QED BY <2>2, <2>3
<1>4. ASSUME NEW c \in fresh, NEW v \in users, NewCredential(c, v)
      PROVE  (\A u \in Users : KeyPromise(u)) /\ (\A d \in Creds : CountPromise(d))
  <2>1. c \in Creds /\ cred[c] = Nobody /\ \A d \in Creds : d # c => cred'[d] = cred[d]
    BY <1>0, <1>4 DEF NewCredential, PasskeyInv, KeysAreCurrent
  <2>2. \A d \in Creds : CountPromise(d)
    BY <1>0, <2>1 DEF CountPromise
  <2>3. \A u \in Users : KeyPromise(u)
    BY <2>1 DEF KeyPromise, KeysOf
  <2> QED BY <2>2, <2>3
<1>5. ASSUME NEW r \in Reqs, LoginVerdict(r), cred' # cred
      PROVE  (\A u \in Users : KeyPromise(u)) /\ (\A d \in Creds : CountPromise(d))
  <2> DEFINE c == rq[r].cred
  <2>1. PICK n \in 0 .. MaxCounter : ~ Cloned(r, n) /\ cred[c] # Nobody /\ cred' = [cred EXCEPT ![c].counter = n]
    BY <1>5 DEF LoginVerdict
  <2>2. rq[r].pc = "verdict" /\ races' = races
    BY <1>5 DEF LoginVerdict, raceVars
  <2>3. c \in Creds /\ cred[c].user = rq[r].user /\ (rq[r].user \notin races => cred[c].counter = rq[r].counter)
    BY <2>1, <2>2 DEF PasskeyInv, KeysAreCurrent, Looking
  <2>4. /\ \A d \in Creds : d # c => cred'[d] = cred[d]
        /\ cred'[c].user = cred[c].user /\ cred'[c].counter = n
        /\ cred'[c] \in [user : Users, counter : 0 .. MaxCounter]
    BY <1>0, <2>1, <2>3
  <2>5. cred'[c] # Nobody
    BY <1>0, <2>4
  <2>6. n \in Nat /\ (n > rq[r].counter \/ n = 0)
    BY <1>0, <2>1, PasskeyAssumption DEF Cloned
  <2> HIDE DEF c
  <2>7. CountPromise(c)
    BY <1>0, <2>2, <2>3, <2>4, <2>6 DEF CountPromise
  <2>8. \A d \in Creds : CountPromise(d)
    BY <1>0, <2>4, <2>7 DEF CountPromise
  <2>9. \A u \in Users : KeyPromise(u)
    BY <2>1, <2>4, <2>5 DEF KeyPromise, KeysOf
  <2> QED BY <2>8, <2>9
<1>6. ASSUME NEW r \in Reqs, \/ RecoveryComplete(r) /\ rq[r].pc = "rec_revoke"
                             \/ DeleteUser(r) /\ rq[r].pc # "idle"
      PROVE  \A c \in Creds : CountPromise(c)
  <2>1. \A c \in Creds : cred'[c] = Nobody \/ cred'[c] = cred[c]
    BY <1>0, <1>6 DEF RecoveryComplete, DeleteUser
  <2> QED BY <1>0, <2>1 DEF CountPromise
<1>7. ASSUME NEW r \in Reqs, RecoveryComplete(r), rq[r].pc = "rec_revoke"
      PROVE  \A u \in Users : KeyPromise(u)
  <2>1. /\ races' = races
        /\ \A c \in Creds : c = rq[r].cred \/ (cred[c] # Nobody /\ cred[c].user # rq[r].user) => cred'[c] = cred[c]
    BY <1>0, <1>7 DEF RecoveryComplete, RevokeOld
  <2>2. PICK v, k : v = rq[r].user /\ k = rq[r].cred
    OBVIOUS
  <2>3. v \notin races => k \in Creds /\ cred[k] # Nobody /\ cred[k].user = v
    BY <1>7, <2>2 DEF PasskeyInv, KeysAreCurrent
  <2>4. \A u \in Users : u # v => KeysOf(u) \subseteq KeysOf(u)'
    BY <2>1, <2>2 DEF KeysOf
  <2>5. v \notin races => k \in KeysOf(v)'
    BY <2>1, <2>2, <2>3 DEF KeysOf
  <2> QED BY <2>1, <2>4, <2>5 DEF KeyPromise
<1>8. ASSUME NEW r \in Reqs, DeleteUser(r), rq[r].pc # "idle"
      PROVE  \A u \in Users : KeyPromise(u)
  <2>1. /\ users' = users \ {rq[r].user}
        /\ \A c \in Creds : cred[c] # Nobody /\ cred[c].user # rq[r].user => cred'[c] = cred[c]
    BY <1>0, <1>8 DEF DeleteUser
  <2> QED BY <2>1 DEF KeyPromise, KeysOf
<1> QED BY <1>2, <1>3, <1>4, <1>5, <1>6, <1>7, <1>8, KeyWrites

-----------------------------------------------------------------------------
(* A step of the accounts is a step of one component and none of the rest. *)
LEMMA AccountsMove ==
  ASSUME [Next]_accountVars
  PROVE  /\ [PasskeyNext]_passkeyVars /\ [SessionNext]_sessionVars
         /\ [TokenNext]_tokenVars /\ [RateNext]_rateVars
  BY DEF Next, accountVars

AccountsInv == PasskeyInv /\ SessionInv /\ TokenInv /\ RateInv

(* The four invariants together.                                           *)
LEMMA AccountsKeep == Spec => []AccountsInv
<1>1. Init => AccountsInv
  BY PasskeyStart, SessionStart, TokenStart, RateStart DEF Init, AccountsInv
<1>2. AccountsInv /\ [Next]_accountVars => AccountsInv'
  BY AccountsMove, PasskeyStep, SessionStep, TokenStep, RateStep DEF AccountsInv
<1> QED BY <1>1, <1>2, PTL DEF Spec

(* What a person signs in with survives every interleaving and every cut.  *)
THEOREM CredentialsCorrect == Spec => []CredentialsHold
<1>1. AccountsInv => CredentialsHold
  BY DEF AccountsInv, PasskeyInv, SessionInv, TokenInv, RateInv, CredentialsHold, AccountsTypeOK,
         DeletionsAreGuarded, SomeSuperuserRemains
<1> QED BY <1>1, AccountsKeep, PTL

(* Ended sessions and replays are refused and requests are counted,        *)
(* whatever windows and maxima the policies of tenants set.                *)
THEOREM RefusalCorrect == Spec => []EndedIsRefused
<1>1. AccountsInv => EndedIsRefused
  BY SessionsHold, TokensHold, RatesHold DEF AccountsInv, EndedIsRefused
<1> QED BY <1>1, AccountsKeep, PTL

(* Worker tokens implement single use, counters never fall, and nobody but *)
(* the owner takes a last passkey.                                         *)
THEOREM SpentCorrect == Spec => SpentStaysSpent
<1>1. Init => Promise!UseInit /\ PasskeyInv /\ TokenInv
  BY PromiseStart, PasskeyStart, TokenStart DEF Init
<1>2. PasskeyInv /\ TokenInv /\ [Next]_accountVars => (PasskeyInv /\ TokenInv)'
  BY AccountsMove, PasskeyStep, TokenStep
<1>3. TokenInv /\ [Next]_accountVars => [Promise!UseNext]_(Promise!useVars)
  BY AccountsMove, PromiseStep
<1>4. ASSUME PasskeyInv, [Next]_accountVars
      PROVE  [\A u \in (users \cap users') \ races' :
                 KeysOf(u) # {} /\ KeysOf(u)' = {} => \E c \in KeysOf(u) : DeleteCredential(c)]_passkeyVars
  <2>1. users \subseteq Users
    BY <1>4 DEF PasskeyInv, PasskeyTypeOK
  <2> QED BY <1>4, <2>1, AccountsMove, KeyPromises DEF KeyPromise
<1>5. ASSUME PasskeyInv, [Next]_accountVars
      PROVE  [\A c \in Creds :
                 cred[c] # Nobody /\ cred'[c] # Nobody /\ cred[c].user \notin races'
                    => cred'[c].counter >= cred[c].counter \/ cred'[c].counter = 0]_passkeyVars
  BY <1>5, AccountsMove, KeyPromises DEF CountPromise
<1> QED BY <1>1, <1>2, <1>3, <1>4, <1>5, PTL
        DEF Spec, SpentStaysSpent, WorkerTokensAreSingleUse, LastKeyStays, CounterNeverFalls, Promise!UseSpec

=============================================================================
