------------------------------ MODULE MCAccounts ------------------------------
(* Passkeys, sessions, single-use tokens and rate limiters.  They share no  *)
(* rows, so each behaviour moves one of them, or one of the two kinds of    *)
(* limiter, and the instance is the sum of the five, not their product.     *)
EXTENDS Passkeys, Tokens, TLC

CONSTANTS w1, p1

VARIABLE part       \* the component that moves

MCPodOf == w1 :> p1

(* A shorter window with a lower maximum, and a window longer than the      *)
(* cleanup's with a higher one.                                             *)
MCPolicies == {[window |-> DefaultWindow - 1, max |-> DefaultMax - 1],
               [window |-> LongestDefault + 1, max |-> DefaultMax + 1]}

accountVars == <<passkeyVars, sessionVars, tokenVars, rateVars, part>>

Init ==
    /\ part \in {"passkeys", "sessions", "tokens", "limiter", "tenant limiter"}
    /\ PasskeyInit /\ SessionInit /\ TokenInit /\ RateInit

Next ==
    /\ \/ part = "passkeys" /\ PasskeyNext /\ UNCHANGED <<sessionVars, tokenVars, rateVars>>
       \/ part = "sessions" /\ SessionNext /\ UNCHANGED <<passkeyVars, tokenVars, rateVars>>
       \/ part = "tokens" /\ TokenNext /\ UNCHANGED <<passkeyVars, sessionVars, rateVars>>
       \/ /\ part = "limiter" /\ RateNext /\ UNCHANGED <<passkeyVars, sessionVars, tokenVars>>
          /\ UNCHANGED ratePolicy /\ \A t \in Tenants : passed'[t] = passed[t]
       \/ /\ part = "tenant limiter" /\ RateNext /\ UNCHANGED <<passkeyVars, sessionVars, tokenVars>>
          /\ \A i \in IPs : passed'[i] = passed[i]
    /\ UNCHANGED part

Spec == Init /\ [][Next]_accountVars

(* The columns and local states of the four components keep their types.    *)
AccountsTypeOK == PasskeyTypeOK /\ SessionTypeOK /\ TokenTypeOK /\ RateTypeOK

(* Requests are interchangeable.                                            *)
Symmetry == Permutations(Reqs)

(* What a person signs in with survives overlapping and interrupted         *)
(* requests: a counted failure has its penalty and the threshold locks      *)
(* (auth-lockout.ts), a passphrase that was set stays set (recovery.ts), a  *)
(* superuser remains (users.ts).                                            *)
CredentialsHold ==
    /\ AccountsTypeOK /\ FailuresArePenalised /\ ThresholdLocks
    /\ SomeSuperuserRemains /\ PassphraseKept

(* Ended sessions and replayed tokens are refused, live sessions are not,   *)
(* and requests are counted across key rotations, cleanups, changes of      *)
(* windows and maxima, and crashes (revocation.ts, ingestion-token.ts,      *)
(* worker-tokens.ts, rate-limiter.ts).                                      *)
EndedIsRefused ==
    /\ RetiredIsRefused /\ SessionsSurviveRotation /\ ReplaysAreRefused
    /\ GrantedMeansConsumed /\ WindowsHold /\ StoreIsComplete

(* What was used up stays used up: worker tokens implement single use, a    *)
(* passkey's counter never falls, and no ceremony takes a user's last       *)
(* passkey (passkey.ts).                                                    *)
SpentStaysSpent ==
    /\ WorkerTokensAreSingleUse /\ CounterNeverFalls /\ LastKeyStays

=============================================================================
