------------------------------- MODULE Passkeys -------------------------------
(* Who a person is to the server: passkeys and the sessions they open.      *)
EXTENDS Naturals, FiniteSets

--------------------------------------------------------------------------------
(* Users, passkeys and the ceremonies around them: registration, login with *)
(* its progressive lockout, recovery, deletion of credentials and users.    *)
(* Each statement of a handler is a step; the WebAuthn library's verdict is *)
(* an arbitrary choice.                                                     *)

CONSTANTS
    Users,          \* user ids
    Superusers,     \* those with role superuser
    Creds,          \* credential ids of authenticators
    Reqs,           \* requests in flight
    MaxChallenges,  \* bound on challenges issued
    MaxCounter,     \* bound on signature counters
    Threshold,      \* LOCKOUT_THRESHOLD
    MaxFails,       \* bound on failures counted
    MaxCuts,        \* bound on requests cut short
    MaxStarts,      \* bound on requests started
    Nobody          \* NULL

ASSUME PasskeyAssumption ==
    /\ IsFiniteSet(Users) /\ Superusers \subseteq Users /\ Superusers # {}
    /\ Nobody \notin Users \cup Creds \cup Reqs \cup [user : Users, counter : Nat]
    /\ MaxChallenges \in Nat /\ MaxFails \in Nat /\ MaxCuts \in Nat /\ MaxStarts \in Nat
    /\ MaxCounter \in Nat \ {0} /\ Threshold \in Nat \ {0}

VARIABLES
    users,          \* entities of type user
    cred,           \* passkey_credentials: Creds -> [user, counter]
    fresh,          \* credential ids no authenticator has made yet
    chals,          \* unexpired passkey_challenges: [id, user, type]
    nextId,         \* created_at order of challenges
    fails,          \* auth_lockout.failed_count
    block,          \* auth_lockout: "absent", "none", "delay", "lock", "over"
    phrases,        \* recovery_passphrases: how many rows a user has
    everSet,        \* history: users who have set a passphrase
    rq,             \* Reqs -> the handler's local state
    cuts,           \* requests cut short so far
    lastCut,        \* users a cut-off request was about
    starts,         \* requests started so far
    races,          \* users two ceremonies have run for at once
    delRaces        \* two deletions of users have overlapped

passkeyVars == <<users, cred, fresh, chals, nextId, fails, block, phrases, everSet, rq, cuts, lastCut,
                 starts, races, delRaces>>

lockVars == <<fails, block>>
keyVars == <<cred, fresh>>
chalVars == <<chals, nextId>>
phraseVars == <<phrases, everSet>>
cutVars == <<cuts, lastCut>>
raceVars == <<starts, races, delRaces>>

(* The local state of a handler that has just begun.                        *)
Asks(pc, u, chal) == [pc |-> pc, user |-> u, cred |-> Nobody, chal |-> chal, counter |-> 0, n |-> 0]
LogsIn(c) == [pc |-> "lockout", user |-> cred[c].user, cred |-> c, chal |-> 0,
              counter |-> cred[c].counter, n |-> 0]
Idle == Asks("idle", Nobody, 0)

ChallengeTypes == {"registration", "authentication", "recovery"}

LoginSteps == {"lockout", "challenge", "delete", "verdict", "count", "penalise", "reset"}
OtherSteps == {"reg_delete", "reg_insert", "phrase", "del", "rec_delete", "rec_reg", "rec_regdelete",
               "rec_insert", "rec_revoke"}
Request ==
    [pc : {"idle"} \cup LoginSteps \cup OtherSteps, user : Users \cup {Nobody},
     cred : Creds \cup {Nobody}, chal : 0 .. MaxChallenges, counter : 0 .. MaxCounter,
     n : 0 .. MaxFails]

PasskeyTypeOK ==
    /\ users \subseteq Users
    /\ cred \in [Creds -> [user : Users, counter : 0 .. MaxCounter] \cup {Nobody}]
    /\ fresh \subseteq Creds
    /\ chals \subseteq [id : 1 .. MaxChallenges, user : Users \cup {Nobody}, type : ChallengeTypes]
    /\ nextId \in 1 .. MaxChallenges + 1
    /\ fails \in [Users -> 0 .. MaxFails]
    /\ block \in [Users -> {"absent", "none", "delay", "lock", "over"}]
    /\ phrases \in [Users -> Nat]
    /\ rq \in [Reqs -> Request] /\ \A r \in Reqs : rq[r].pc # "idle" => rq[r].user \in Users
    /\ cuts \in 0 .. MaxCuts /\ lastCut \subseteq Users /\ races \subseteq Users
    /\ everSet \subseteq Users
    /\ delRaces \in BOOLEAN /\ starts \in 0 .. MaxStarts

PasskeyInit ==
    /\ users = Users
    /\ cred = [c \in Creds |-> IF c = CHOOSE d \in Creds : TRUE
                                THEN [user |-> CHOOSE u \in Users : TRUE, counter |-> 1] ELSE Nobody]
    /\ fresh = {c \in Creds : cred[c] = Nobody}
    /\ chals = {} /\ nextId = 1
    /\ fails = [u \in Users |-> 0] /\ block = [u \in Users |-> "absent"]
    /\ phrases = [u \in Users |-> 0] /\ everSet = {}
    /\ rq = [r \in Reqs |-> Idle]
    /\ cuts = 0 /\ lastCut = {} /\ races = {} /\ delRaces = FALSE /\ starts = 0

(* The newest unexpired challenge of a type for a user.                     *)
Usable(type, u) ==
    {c \in chals : /\ c.type = type
                   /\ c.user = u \/ (type = "authentication" /\ c.user = Nobody)}
Newest(c, type, u) == c \in Usable(type, u) /\ \A d \in Usable(type, u) : d.id <= c.id

InFlight(u, r) == \E q \in Reqs \ {r} : rq[q].pc # "idle" /\ rq[q].user = u

(* Bookkeeping of a request that starts on behalf of u.                     *)
Starts(r, u) ==
    /\ starts < MaxStarts /\ starts' = starts + 1
    /\ races' = IF InFlight(u, r) THEN races \cup {u} ELSE races

Goto(r, pc) == rq' = [rq EXCEPT ![r].pc = pc]
Ends(r) == rq' = [rq EXCEPT ![r] = Idle]

AddChallenge(u, type) ==
    /\ nextId <= MaxChallenges
    /\ chals' = chals \cup {[id |-> nextId, user |-> u, type |-> type]}
    /\ nextId' = nextId + 1

TakeChallenge(r, type, next) ==
    \E c \in chals :
        /\ Newest(c, type, rq[r].user)
        /\ rq' = [rq EXCEPT ![r].pc = next, ![r].chal = c.id]

NewCredential(c, u) ==
    /\ cred' = [cred EXCEPT ![c] = [user |-> u, counter |-> 0]]
    /\ fresh' = fresh \ {c}

DropChallenge(r, next) ==
    /\ chals' = {c \in chals : c.id # rq[r].chal}
    /\ Goto(r, next)

(* POST register/begin for a user that exists.                              *)
RegisterBegin(u) ==
    /\ u \in users
    /\ AddChallenge(u, "registration")
    /\ UNCHANGED <<keyVars, users, lockVars, phraseVars, rq, cutVars, raceVars>>

(* POST login/begin: for a user, or for a discoverable credential.          *)
LoginBegin(u) ==
    /\ u \in users \cup {Nobody}
    /\ AddChallenge(u, "authentication")
    /\ UNCHANGED <<keyVars, users, lockVars, phraseVars, rq, cutVars, raceVars>>

(* POST recovery/begin: the passphrase is right.                            *)
RecoveryBegin(u) ==
    /\ u \in users /\ phrases[u] > 0
    /\ AddChallenge(u, "recovery")
    /\ UNCHANGED <<keyVars, users, lockVars, phraseVars, rq, cutVars, raceVars>>

(* A challenge is five minutes old.                                         *)
ChallengeExpires ==
    /\ \E c \in chals : chals' = chals \ {c}
    /\ UNCHANGED <<keyVars, users, nextId, lockVars, phraseVars, rq, cutVars, raceVars>>

(* POST register/complete: SELECT, DELETE of the challenge, INSERT of the   *)
(* credential (refused when the user is gone or the id is taken).           *)
RegisterComplete(r) ==
    \/ /\ rq[r].pc = "idle"
       /\ \E u \in users, c \in chals :
            /\ Newest(c, "registration", u)
            /\ rq' = [rq EXCEPT ![r] = Asks("reg_delete", u, c.id)]
            /\ Starts(r, u)
       /\ UNCHANGED <<keyVars, users, chalVars, lockVars, phraseVars, cutVars, delRaces>>
    \/ /\ rq[r].pc = "reg_delete"
       /\ DropChallenge(r, "reg_insert")
       /\ UNCHANGED <<keyVars, users, nextId, lockVars, phraseVars, cutVars, raceVars>>
    \/ /\ rq[r].pc = "reg_insert"
       /\ \/ UNCHANGED keyVars
          \/ rq[r].user \in users /\ \E c \in fresh : NewCredential(c, rq[r].user)
       /\ Ends(r)
       /\ UNCHANGED <<users, chalVars, lockVars, phraseVars, cutVars, raceVars>>

(* checkLockout.                                                            *)
Blocked(u) == block[u] \in {"delay", "lock"}

(* recordFailedAttempt: the upsert returns the count, a second statement    *)
(* sets the penalty that count earns and clears the other one.              *)
CountFailure(r) ==
    /\ rq[r].pc = "count"
    /\ IF rq[r].user \in users
         THEN /\ fails[rq[r].user] < MaxFails
              /\ fails' = [fails EXCEPT ![rq[r].user] = @ + 1]
              /\ block' = [block EXCEPT ![rq[r].user] =
                             IF @ = "absent" THEN "delay" ELSE @]
              /\ rq' = [rq EXCEPT ![r].pc = "penalise", ![r].n = fails[rq[r].user] + 1]
         ELSE Ends(r) /\ UNCHANGED lockVars
    /\ UNCHANGED <<keyVars, users, chalVars, phraseVars, cutVars, raceVars>>

Penalise(r) ==
    /\ rq[r].pc = "penalise"
    /\ block' = IF rq[r].user \in users
                  THEN [block EXCEPT ![rq[r].user] = IF rq[r].n >= Threshold THEN "lock" ELSE "delay"]
                  ELSE block
    /\ Ends(r)
    /\ UNCHANGED <<keyVars, users, chalVars, fails, phraseVars, cutVars, raceVars>>

(* A delay or a lockout has run out.                                        *)
BlockElapses(u) ==
    /\ Blocked(u)
    /\ block' = [block EXCEPT ![u] = "over"]
    /\ UNCHANGED <<keyVars, users, chalVars, fails, phraseVars, rq, cutVars, raceVars>>

(* The statements of login/complete before the verdict: look up the         *)
(* credential, check the lockout, find the challenge, delete it.            *)
LoginLookup(r) ==
    /\ rq[r].pc = "idle"
    /\ \E c \in Creds :
         /\ cred[c] # Nobody
         /\ rq' = [rq EXCEPT ![r] = LogsIn(c)]
         /\ Starts(r, cred[c].user)
    /\ UNCHANGED <<keyVars, users, chalVars, lockVars, phraseVars, cutVars, delRaces>>

LoginChallenge(r) ==
    /\ \/ /\ rq[r].pc = "lockout"
          /\ IF Blocked(rq[r].user) THEN Ends(r) ELSE Goto(r, "challenge")
          /\ UNCHANGED chals
       \/ /\ rq[r].pc = "challenge"
          /\ TakeChallenge(r, "authentication", "delete")
          /\ UNCHANGED chals
       \/ /\ rq[r].pc = "challenge"
          /\ Usable("authentication", rq[r].user) = {}
          /\ Goto(r, "count")
          /\ UNCHANGED chals
       \/ /\ rq[r].pc = "delete"
          /\ DropChallenge(r, "verdict")
    /\ UNCHANGED <<keyVars, users, nextId, lockVars, phraseVars, cutVars, raceVars>>

(* The clone check: a counter that did not grow is refused, zero excepted.  *)
Cloned(r, n) == n <= rq[r].counter /\ n # 0

(* login/complete after the verdict: refused, or the counter is stored; the *)
(* library may also throw.                                                  *)
LoginVerdict(r) ==
    /\ rq[r].pc = "verdict"
    /\ \/ Ends(r) /\ UNCHANGED cred
       \/ Goto(r, "count") /\ UNCHANGED cred
       \/ \E n \in 0 .. MaxCounter :
            /\ IF Cloned(r, n)
                 THEN Goto(r, "count") /\ UNCHANGED cred
                 ELSE /\ cred' = IF cred[rq[r].cred] = Nobody THEN cred
                                 ELSE [cred EXCEPT ![rq[r].cred].counter = n]
                      /\ Goto(r, "reset")
    /\ UNCHANGED <<fresh, users, chalVars, lockVars, phraseVars, cutVars, raceVars>>

(* resetLockout, after a login or a recovery; refused for a deleted user.   *)
ResetLockout(r) ==
    /\ rq[r].pc = "reset"
    /\ fails' = IF rq[r].user \in users THEN [fails EXCEPT ![rq[r].user] = 0] ELSE fails
    /\ block' = IF rq[r].user \in users THEN [block EXCEPT ![rq[r].user] = "none"] ELSE block
    /\ Ends(r)
    /\ UNCHANGED <<keyVars, users, chalVars, phraseVars, cutVars, raceVars>>

(* The DELETE of a user's passphrases.                                      *)
ClearedPhrases(u) == [phrases EXCEPT ![u] = 0]

(* POST recovery/setup -> setRecoveryPassphrase: DELETE, then INSERT.       *)
RecoverySetup_Swapped(r) ==
    /\ \/ /\ rq[r].pc = "idle"
          /\ \E u \in users :
               /\ phrases' = [phrases EXCEPT ![u] = 1]
               /\ rq' = [rq EXCEPT ![r] = Asks("phrase", u, 0)]
               /\ Starts(r, u)
          /\ UNCHANGED everSet
       \/ /\ rq[r].pc = "phrase"
          /\ phrases' = [phrases EXCEPT ![rq[r].user] = 0]
          /\ everSet' = everSet \cup {rq[r].user}
          /\ Ends(r)
          /\ UNCHANGED <<starts, races>>
    /\ UNCHANGED <<keyVars, users, chalVars, lockVars, cutVars, delRaces>>

RecoverySetup(r) ==
    /\ \/ /\ rq[r].pc = "idle"
          /\ \E u \in users :
               /\ phrases' = ClearedPhrases(u)
               /\ rq' = [rq EXCEPT ![r] = Asks("phrase", u, 0)]
               /\ Starts(r, u)
          /\ UNCHANGED everSet
       \/ /\ rq[r].pc = "phrase"
          /\ phrases' = IF rq[r].user \in users THEN [phrases EXCEPT ![rq[r].user] = @ + 1] ELSE phrases
          /\ everSet' = everSet \cup {rq[r].user}
          /\ Ends(r)
          /\ UNCHANGED <<starts, races>>
    /\ UNCHANGED <<keyVars, users, chalVars, lockVars, cutVars, delRaces>>

(* revokeOldPasskeys: every credential of the user but the new one.         *)
RevokeOld(r) ==
    {c \in Creds : cred[c] # Nobody /\ cred[c].user = rq[r].user /\ c # rq[r].cred}

(* POST recovery/complete: assertion against the recovery challenge, then a *)
(* new credential against a registration challenge, then the others go.     *)
RecoveryComplete(r) ==
    /\ \/ /\ rq[r].pc = "idle"
          /\ \E c \in Creds, h \in chals :
               /\ cred[c] # Nobody /\ Newest(h, "recovery", cred[c].user)
               /\ rq' = [rq EXCEPT ![r] = Asks("rec_delete", cred[c].user, h.id)]
               /\ Starts(r, cred[c].user)
          /\ UNCHANGED <<keyVars, chals>>
       \/ /\ rq[r].pc = "rec_delete"
          /\ DropChallenge(r, "rec_reg")
          /\ UNCHANGED <<keyVars, starts, races>>
       \/ /\ rq[r].pc = "rec_reg"
          /\ TakeChallenge(r, "registration", "rec_regdelete")
          /\ UNCHANGED <<keyVars, chals, starts, races>>
       \/ /\ rq[r].pc = "rec_regdelete"
          /\ DropChallenge(r, "rec_insert")
          /\ UNCHANGED <<keyVars, starts, races>>
       \/ /\ rq[r].pc = "rec_insert" /\ rq[r].user \in users
          /\ \E c \in fresh :
               /\ NewCredential(c, rq[r].user)
               /\ rq' = [rq EXCEPT ![r].pc = "rec_revoke", ![r].cred = c]
          /\ UNCHANGED <<chals, starts, races>>
       \/ /\ rq[r].pc = "rec_revoke"
          /\ cred' = [c \in Creds |-> IF c \in RevokeOld(r) THEN Nobody ELSE cred[c]]
          /\ Goto(r, "reset")
          /\ UNCHANGED <<fresh, chals, starts, races>>
       \/ /\ rq[r].pc \in {"rec_reg", "rec_insert"}      \* a check or the verdict fails
          /\ Ends(r)
          /\ UNCHANGED <<keyVars, chals, starts, races>>
    /\ UNCHANGED <<users, nextId, lockVars, phraseVars, cutVars, delRaces>>

(* DELETE /api/users/:id: the count guards the last superuser, then the row *)
(* goes with everything that references it.                                 *)
LastSuperuser == Cardinality(users \cap Superusers) <= 1

DeleteUser(r) ==
    \/ /\ rq[r].pc = "idle"
       /\ \E u \in users :
            /\ ~(u \in Superusers /\ LastSuperuser)
            /\ rq' = [rq EXCEPT ![r] = Asks("del", u, 0)]
            /\ Starts(r, u)
            /\ delRaces' = (delRaces \/ \E q \in Reqs : rq[q].pc = "del")
       /\ UNCHANGED <<keyVars, users, chalVars, lockVars, phraseVars, cutVars>>
    \/ /\ rq[r].pc = "del"
       /\ LET u == rq[r].user IN
            /\ users' = users \ {u}
            /\ cred' = [c \in Creds |-> IF cred[c] # Nobody /\ cred[c].user = u THEN Nobody ELSE cred[c]]
            /\ chals' = {c \in chals : c.user # u}
            /\ fails' = [fails EXCEPT ![u] = 0] /\ block' = [block EXCEPT ![u] = "absent"]
            /\ phrases' = [phrases EXCEPT ![u] = 0]
            /\ UNCHANGED everSet
       /\ Ends(r)
       /\ UNCHANGED <<fresh, nextId, cutVars, raceVars>>

(* DELETE /credentials/:id by its owner.                                    *)
DeleteCredential(c) ==
    /\ cred[c] # Nobody
    /\ cred' = [cred EXCEPT ![c] = Nobody]
    /\ races' = IF InFlight(cred[c].user, Nobody) THEN races \cup {cred[c].user} ELSE races
    /\ UNCHANGED <<fresh, users, chalVars, lockVars, phraseVars, rq, cutVars, starts, delRaces>>

(* The process stops between two statements.                                *)
CutShort(r) ==
    /\ rq[r].pc # "idle" /\ cuts < MaxCuts
    /\ cuts' = cuts + 1
    /\ lastCut' = lastCut \cup {rq[r].user}
    /\ Ends(r)
    /\ UNCHANGED <<keyVars, users, chalVars, lockVars, phraseVars, raceVars>>

PasskeyNext ==
    \/ \E u \in Users : RegisterBegin(u) \/ RecoveryBegin(u) \/ BlockElapses(u)
    \/ \E u \in Users \cup {Nobody} : LoginBegin(u)
    \/ \E r \in Reqs :
         \/ RegisterComplete(r) \/ LoginLookup(r) \/ LoginChallenge(r) \/ LoginVerdict(r)
         \/ CountFailure(r) \/ Penalise(r) \/ ResetLockout(r)
         \/ RecoverySetup(r) \/ RecoveryComplete(r) \/ DeleteUser(r) \/ CutShort(r)
    \/ \E c \in Creds : DeleteCredential(c)
    \/ ChallengeExpires

-----------------------------------------------------------------------------
(* recordFailedAttempt and resetLockout: a counted failure carries its      *)
(* penalty (running or served), however failures, successes and expiries    *)
(* interleave, unless the request was cut between its two statements.       *)
FailuresArePenalised ==
    \A u \in users \ lastCut :
        fails[u] > 0 /\ (\A r \in Reqs : ~(rq[r].pc = "penalise" /\ rq[r].user = u))
            => block[u] \in {"delay", "lock", "over"}

(* recordFailedAttempt: failures that do not overlap lock the account when  *)
(* the threshold is reached, not one later.                                 *)
ThresholdLocks ==
    \A u \in users \ (lastCut \cup races) :
        fails[u] >= Threshold /\ (\A r \in Reqs : ~(rq[r].pc = "penalise" /\ rq[r].user = u))
            => block[u] \in {"lock", "over"}

(* DELETE /api/users/:id: deletions that do not overlap leave a superuser.  *)
SomeSuperuserRemains ==
    ~delRaces => users \cap Superusers # {}

(* setRecoveryPassphrase: who has set a passphrase has one, except between  *)
(* the DELETE and the INSERT of another setup.                              *)
PassphraseKept ==
    \A u \in (users \cap everSet) \ lastCut :
        (\A r \in Reqs : ~(rq[r].pc = "phrase" /\ rq[r].user = u)) => phrases[u] > 0

KeysOf(u) == {c \in Creds : cred[c] # Nobody /\ cred[c].user = u}

(* recovery/complete and the other ceremonies never take a user's last      *)
(* passkey; only the owner's own DELETE does.                               *)
LastKeyStays ==
    [][\A u \in (users \cap users') \ races' :
          KeysOf(u) # {} /\ KeysOf(u)' = {} => \E c \in KeysOf(u) : DeleteCredential(c)]_passkeyVars

(* login/complete: the stored signature counter of a passkey never falls,   *)
(* except to the zero of authenticators without one, when ceremonies of a   *)
(* user do not overlap.                                                     *)
CounterNeverFalls ==
    [][\A c \in Creds :
          cred[c] # Nobody /\ cred'[c] # Nobody /\ cred[c].user \notin races'
             => cred'[c].counter >= cred[c].counter \/ cred'[c].counter = 0]_passkeyVars

--------------------------------------------------------------------------------
(* Session JWTs: the key store, signing, verification, refresh, logout, and *)
(* the table of revoked jtis with its cleanup.  Time is in half seconds:    *)
(* exp is in whole seconds and verifyJwt rounds NOW down, SQL does not.     *)

CONSTANTS
    Jtis,           \* fresh jtis
    Refreshers,     \* refresh requests that can be in flight
    Lifetime,       \* of a token, in seconds
    MaxHalves,      \* the clock's bound, in half seconds
    MaxRotations,   \* how often the signing key is replaced
    Unset           \* no token, no key

ASSUME SessionAssumption ==
    /\ Lifetime \in Nat \ {0} /\ MaxHalves \in Nat /\ MaxRotations \in Nat
    /\ Unset \notin Jtis \cup Nat \cup [exp : Nat, by : Nat]

VARIABLES
    halves,         \* the clock
    tok,            \* Jtis -> the token's exp and the key that signed it
    revRows,        \* jtis in revoked_tokens
    retired,        \* history: jtis whose revocation was written
    key,            \* JWT_EC_PRIVATE_KEY: the current signing key
    oldKey,         \* JWT_EC_PRIVATE_KEY_OLD
    rfr             \* Refreshers -> the token it has verified

sessionVars == <<halves, tok, revRows, retired, key, oldKey, rfr>>

SigningKeys == 0 .. MaxRotations

SessionTypeOK ==
    /\ halves \in 0 .. MaxHalves
    /\ tok \in [Jtis -> [exp : Nat, by : SigningKeys] \cup {Unset}]
    /\ revRows \subseteq retired /\ retired \subseteq Jtis
    /\ key \in SigningKeys /\ oldKey \in SigningKeys \cup {Unset}
    /\ rfr \in [Refreshers -> Jtis \cup {Unset}]

SessionInit ==
    /\ halves = 0
    /\ tok = [j \in Jtis |-> Unset]
    /\ revRows = {} /\ retired = {}
    /\ key = 0 /\ oldKey = Unset
    /\ rfr = [r \in Refreshers |-> Unset]

Second == halves \div 2

(* signJwt, with a fresh jti and the current key.                           *)
Signed == [exp |-> Second + Lifetime, by |-> key]

(* verifyJwt: any of the two keys, exp, revoked_tokens.                     *)
VerifyJwt(j) ==
    /\ tok[j] # Unset
    /\ tok[j].by \in {key, oldKey}
    /\ ~(tok[j].exp < Second)
    /\ j \notin revRows

(* A login, registration, recovery or demo session sets a new cookie.       *)
StartSession(j) ==
    /\ tok[j] = Unset
    /\ tok' = [tok EXCEPT ![j] = Signed]
    /\ UNCHANGED <<halves, revRows, retired, key, oldKey, rfr>>

(* POST /api/auth/token/refresh: verify ...                                 *)
RefreshBegin(r, j) ==
    /\ rfr[r] = Unset /\ VerifyJwt(j)
    /\ rfr' = [rfr EXCEPT ![r] = j]
    /\ UNCHANGED <<halves, tok, revRows, retired, key, oldKey>>

(* ... sign the new token, revoke the old one, answer; without the INSERT   *)
(* the new token is never seen.                                             *)
RefreshEnd(r, n) ==
    /\ rfr[r] # Unset /\ tok[n] = Unset
    /\ tok' = [tok EXCEPT ![n] = Signed]
    /\ revRows' = revRows \cup {rfr[r]}
    /\ retired' = retired \cup {rfr[r]}
    /\ rfr' = [rfr EXCEPT ![r] = Unset]
    /\ UNCHANGED <<halves, key, oldKey>>

RefreshFails(r) ==
    /\ rfr[r] # Unset
    /\ rfr' = [rfr EXCEPT ![r] = Unset]
    /\ UNCHANGED <<halves, tok, revRows, retired, key, oldKey>>

(* POST /api/auth/logout decodes the token without verifying it and revokes *)
(* it, best effort.                                                         *)
Logout(j) ==
    /\ tok[j] # Unset
    /\ revRows' = revRows \cup {j}
    /\ retired' = retired \cup {j}
    /\ UNCHANGED <<halves, tok, key, oldKey, rfr>>

(* cleanupExpiredRevocations: expires_at < NOW().                           *)
CleanupExpired_Early ==
    LET gone == {j \in revRows : 2 * tok[j].exp <= halves + 1} IN
    /\ gone # {}
    /\ revRows' = revRows \ gone
    /\ UNCHANGED <<halves, tok, retired, key, oldKey, rfr>>

CleanupExpired ==
    LET gone == {j \in revRows : 2 * tok[j].exp < halves} IN
    /\ gone # {}
    /\ revRows' = revRows \ gone
    /\ UNCHANGED <<halves, tok, retired, key, oldKey, rfr>>

(* A restart with a new key; the one before stays for verification.  An     *)
(* operator waits until no token of the old one is live.                    *)
RotateKey ==
    /\ key < MaxRotations
    /\ \A j \in Jtis : tok[j] # Unset /\ tok[j].by = oldKey => tok[j].exp < Second
    /\ key' = key + 1 /\ oldKey' = key
    /\ rfr' = [r \in Refreshers |-> Unset]
    /\ UNCHANGED <<halves, tok, revRows, retired>>

HalfSecond ==
    /\ halves < MaxHalves
    /\ halves' = halves + 1
    /\ UNCHANGED <<tok, revRows, retired, key, oldKey, rfr>>

SessionNext ==
    \/ \E j \in Jtis : StartSession(j) \/ Logout(j)
    \/ \E r \in Refreshers : \/ \E j \in Jtis : RefreshBegin(r, j) \/ RefreshEnd(r, j)
                             \/ RefreshFails(r)
    \/ CleanupExpired \/ RotateKey \/ HalfSecond

-----------------------------------------------------------------------------
(* Logout and refresh: from the INSERT on, the old token is refused, except *)
(* in the very second it expires, when cleanupExpiredRevocations has        *)
(* removed the row (expires_at < NOW()) and verifyJwt still accepts it      *)
(* (exp < floor(NOW()) is false).                                           *)
RetiredIsRefused ==
    \A j \in retired : VerifyJwt(j) => Second = tok[j].exp

(* A session that nobody ended is accepted until it expires, across a       *)
(* rotation of the signing key.                                             *)
SessionsSurviveRotation ==
    \A j \in Jtis : tok[j] # Unset /\ j \notin retired /\ Second <= tok[j].exp => VerifyJwt(j)

================================================================================
