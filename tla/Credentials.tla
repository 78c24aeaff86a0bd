---------------------------- MODULE Credentials ----------------------------
(***************************************************************************)
(* What one user of an L2 proves an identity with: API keys (auth.py,      *)
(* agent_key_routes.py) and passkeys (passkey.py, passkey_routes.py).      *)
(*                                                                         *)
(* The challenges of the WebAuthn ceremonies are in a dictionary of the    *)
(* process, one entry per user for enrollments and logins alike; the       *)
(* credentials and their sign counts are in the database. A browser may    *)
(* send its answer to a challenge more than once, and two tabs may run a   *)
(* ceremony each. Times, signatures and origins are abstracted: an answer  *)
(* carries the challenge it signs and the authenticator's counter.         *)
(***************************************************************************)
EXTENDS Naturals, FiniteSets

CONSTANTS
    Authenticators,
    CredJobs,       \* requests in progress at once
    MaxChallenges,  \* bound: ceremonies begun
    MaxKeys         \* MAX_ACTIVE_API_KEYS_PER_USER

ASSUME CredentialsAssumption == MaxChallenges \in Nat /\ MaxKeys \in Nat /\ IsFiniteSet(CredJobs)

Challenges == 1 .. MaxChallenges

VARIABLES
    keyCount,   \* active API keys of the user
    begun,      \* challenges handed out so far
    cache,      \* _challenge_cache of the user: a challenge, 0 for none
    device,     \* the counter inside each authenticator
    stored,     \* webauthn_credentials.sign_count, one more than it; 0: no row
    answers,    \* the answers browsers computed, each may be sent repeatedly
    wjob,       \* requests in progress
    opened      \* how many requests succeeded on each challenge

credentialVars == <<keyCount, begun, cache, device, stored, answers, wjob, opened>>
passkeyVars == <<begun, cache, device, stored, answers, opened>>

NoAnswer == [kind |-> "none", challenge |-> 0, authenticator |-> CHOOSE a \in Authenticators : TRUE, count |-> 0]
NoRequest == [pc |-> "idle", answer |-> NoAnswer, known |-> 0]

Enrolled(a) == stored[a] > 0
Count(a) == stored[a] - 1

CredentialsInit ==
    /\ keyCount \in {0, MaxKeys}
    /\ begun = 0
    /\ cache = 0
    /\ device = [a \in Authenticators |-> 0]
    /\ stored = [a \in Authenticators |-> 0]
    /\ answers = {}
    /\ wjob = [j \in CredJobs |-> NoRequest]
    /\ opened = [c \in Challenges |-> 0]

-----------------------------------------------------------------------------
(* enroll/begin and login/begin overwrite whatever challenge the user had.  *)
(* The browser answers on its own authenticator, whose counter goes up with *)
(* every assertion; login needs a credential, enrollment a new one.         *)
Ceremony(kind, a) ==
    /\ kind = "get" <=> Enrolled(a)
    /\ begun < MaxChallenges
    /\ begun' = begun + 1
    /\ cache' = begun + 1
    /\ device' = [device EXCEPT ![a] = IF kind = "get" THEN @ + 1 ELSE @]
    /\ answers' = answers \cup {[kind |-> kind, challenge |-> begun + 1,
                                 authenticator |-> a, count |-> device'[a]]}
    /\ UNCHANGED <<keyCount, stored, wjob, opened>>

ChallengeExpires ==
    /\ cache # 0
    /\ cache' = 0
    /\ UNCHANGED <<keyCount, begun, device, stored, answers, wjob, opened>>

(* login/finish and enroll/finish: the row of the credential is read, ...   *)
FinishLoad(j, x) ==
    /\ wjob[j].pc = "idle"
    /\ x.kind = "get" => Enrolled(x.authenticator)
    /\ wjob' = [wjob EXCEPT ![j] = [pc |-> "verify", answer |-> x, known |-> stored[x.authenticator]]]
    /\ UNCHANGED <<keyCount, passkeyVars>>

\* Mutant: the challenge is looked up and left in the cache.
ReadChallenge == UNCHANGED cache

(* ... then, with no await between, the challenge is popped, whichever it   *)
(* is, and the answer verified against it and the sign count read before.   *)
(* A counter that stays at zero on both sides is not checked.               *)
ConsumeChallenge == cache' = 0
Verifies(x, known) ==
    /\ x.challenge = cache
    /\ x.kind = "get" => x.count > known - 1 \/ (x.count = 0 /\ known = 1)
FinishVerify(j) ==
    LET x == wjob[j].answer
        ok == Verifies(x, wjob[j].known)
    IN
    /\ wjob[j].pc = "verify"
    /\ ConsumeChallenge
    /\ wjob' = [wjob EXCEPT ![j] = IF ok THEN [@ EXCEPT !.pc = "store"] ELSE NoRequest]
    /\ opened' = IF ok THEN [opened EXCEPT ![x.challenge] = @ + 1] ELSE opened
    /\ UNCHANGED <<keyCount, begun, device, stored, answers>>

(* The new sign count, or the new credential unless its id is taken, is     *)
(* written; a login then sets the session cookie.                           *)
FinishStore(j) ==
    LET x == wjob[j].answer IN
    /\ wjob[j].pc = "store"
    /\ stored' = IF x.kind = "create" /\ Enrolled(x.authenticator) THEN stored
                 ELSE [stored EXCEPT ![x.authenticator] = x.count + 1]
    /\ wjob' = [wjob EXCEPT ![j] = NoRequest]
    /\ UNCHANGED <<keyCount, begun, cache, device, answers, opened>>

(* POST /auth/api-keys counts in one transaction and inserts in the next.   *)
BelowCap(n) == n < MaxKeys
KeyCount(j) ==
    /\ wjob[j].pc = "idle"
    /\ BelowCap(keyCount)
    /\ wjob' = [wjob EXCEPT ![j].pc = "key"]
    /\ UNCHANGED <<keyCount, passkeyVars>>

KeyInsert(j) ==
    /\ wjob[j].pc = "key"
    /\ keyCount' = keyCount + 1
    /\ wjob' = [wjob EXCEPT ![j] = NoRequest]
    /\ UNCHANGED passkeyVars

(* A key that is revoked, or expires, no longer counts.                     *)
KeyEnds ==
    /\ keyCount > 0
    /\ keyCount' = keyCount - 1
    /\ UNCHANGED <<wjob, passkeyVars>>

(* A restart loses the requests in progress and the cached challenges.      *)
CredentialsRestart ==
    /\ cache # 0 \/ \E j \in CredJobs : wjob[j] # NoRequest
    /\ cache' = 0
    /\ wjob' = [j \in CredJobs |-> NoRequest]
    /\ UNCHANGED <<keyCount, begun, device, stored, answers, opened>>

CredentialsNext ==
    \/ \E kind \in {"create", "get"}, a \in Authenticators : Ceremony(kind, a)
    \/ ChallengeExpires
    \/ \E j \in CredJobs :
          \/ \E x \in answers : FinishLoad(j, x)
          \/ FinishVerify(j) \/ FinishStore(j)
          \/ KeyCount(j) \/ KeyInsert(j)
    \/ KeyEnds
    \/ CredentialsRestart

CredentialsSpec == CredentialsInit /\ [][CredentialsNext]_credentialVars

-----------------------------------------------------------------------------
(* A challenge serves one request at most, however often its answer is sent *)
(* and however two ceremonies of the user overlap.                          *)
ChallengeSingleUse == \A c \in Challenges : opened[c] <= 1
=============================================================================
