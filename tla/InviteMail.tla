----------------------------- MODULE InviteMail -----------------------------
(***************************************************************************)
(* The mail of an invite: email_sender.py of an L2 posts it to the central *)
(* service (transactional/), which replays the answer it has for the same  *)
(* key, checks tenancy and suppression, sends, and remembers its answer.   *)
(* The handler has no await between the lookup of the key and its storing, *)
(* so a request is one step, unless SES raises or the server dies.         *)
(***************************************************************************)
EXTENDS Naturals

CONSTANTS
    InviteIds,      \* invites of one L2, each to an address of its own
    Window,         \* DEFAULT_TTL_SECONDS of the idempotency cache
    MaxSeconds      \* bound: the clock

VARIABLES
    seconds,
    invitation, \* per invite: "none", "posting", then what the admin was told
    replies,    \* the idempotency cache of the service: outcome and when, by key
    keyed,      \* this L2 has its TX_SEND_KEY; without one it falls back on SES
    suppressed, \* transactional_suppression: addresses, one per invite here
    mailed      \* the invites SES has sent

mailVars == <<seconds, invitation, replies, keyed, suppressed, mailed>>

NoEntry == [outcome |-> "none", at |-> 0]

(* audit_ref is "invite:" and the first 32 characters of the token: those   *)
(* are of its header, {"alg":"HS256","typ":"JWT"}, which fills 36. The key  *)
(* of every invite of an L2 is the same.                                    *)
KeyOf(i) == "invite:eyJhbGciOiJIUzI1NiIsInR5cCI6IkpX"
Keys == {KeyOf(i) : i \in InviteIds}

MailInit ==
    /\ seconds = 0
    /\ invitation = [i \in InviteIds |-> "none"]
    /\ replies = [k \in Keys |-> NoEntry]
    /\ keyed \in BOOLEAN
    /\ suppressed \in SUBSET InviteIds
    /\ mailed = {}

(* create_invite mints and calls send_invite; once, for each token is new.  *)
PostInvite(i) ==
    /\ invitation[i] = "none"
    /\ invitation' = [invitation EXCEPT ![i] = IF keyed THEN "posting" ELSE "legacy"]
    /\ UNCHANGED <<seconds, replies, suppressed, mailed, keyed>>

(* _legacy_ses_send: no key, no suppression, and "sent" unless SES raises.  *)
LegacyMail(i, heard) ==
    /\ invitation[i] = "legacy"
    /\ mailed' = mailed \cup {i}
    /\ invitation' = [invitation EXCEPT ![i] = IF heard THEN "sent" ELSE "error"]
    /\ UNCHANGED <<seconds, replies, suppressed, keyed>>

FreshAnswer(k) == replies[k].outcome # "none" /\ seconds - replies[k].at <= Window

Answered(i, outcome, heard) ==
    invitation' = [invitation EXCEPT ![i] = IF heard THEN outcome ELSE "error"]
Remember(i, outcome) == replies' = [replies EXCEPT ![KeyOf(i)] = [outcome |-> outcome, at |-> seconds]]

(* The key was seen: the same answer, whatever the message.                 *)
ReplayAnswer(i, heard) ==
    /\ invitation[i] = "posting" /\ FreshAnswer(KeyOf(i))
    /\ Answered(i, replies[KeyOf(i)].outcome, heard)
    /\ UNCHANGED <<seconds, replies, suppressed, mailed, keyed>>

(* 401, 403, 422: nothing is remembered.                                    *)
RefuseMail(i) ==
    /\ invitation[i] = "posting" /\ ~FreshAnswer(KeyOf(i))
    /\ Answered(i, "error", TRUE)
    /\ UNCHANGED <<seconds, replies, suppressed, mailed, keyed>>

Blocked(i) == i \in suppressed
BlockMail(i, heard) ==
    /\ invitation[i] = "posting" /\ ~FreshAnswer(KeyOf(i)) /\ Blocked(i)
    /\ Answered(i, "suppressed", heard)
    /\ Remember(i, "suppressed")
    /\ UNCHANGED <<seconds, suppressed, mailed, keyed>>

SendMail(i, heard) ==
    /\ invitation[i] = "posting" /\ ~FreshAnswer(KeyOf(i)) /\ ~Blocked(i)
    /\ mailed' = mailed \cup {i}
    /\ Answered(i, "sent", heard)
    /\ Remember(i, "sent")
    /\ UNCHANGED <<seconds, suppressed, keyed>>

(* SES raises, having sent or not; or the request never arrives.            *)
MailFails(i) ==
    /\ invitation[i] = "posting" /\ ~Blocked(i)
    /\ mailed' \in {mailed, mailed \cup (IF FreshAnswer(KeyOf(i)) THEN {} ELSE {i})}
    /\ Answered(i, "error", TRUE)
    /\ UNCHANGED <<seconds, replies, suppressed, keyed>>

(* A hard bounce or a complaint of a mail that was sent; SNS may repeat it. *)
Suppress(i) == suppressed' = suppressed \cup {i}
HardBounce(i) ==
    /\ i \in mailed
    /\ Suppress(i)
    /\ UNCHANGED <<seconds, invitation, replies, mailed, keyed>>

(* The cache is in memory.                                                  *)
ServiceRestarts ==
    /\ replies' = [k \in Keys |-> NoEntry]
    /\ UNCHANGED <<seconds, invitation, suppressed, mailed, keyed>>

SecondPasses ==
    /\ seconds < MaxSeconds
    /\ seconds' = seconds + 1
    /\ UNCHANGED <<invitation, replies, suppressed, mailed, keyed>>

MailNext ==
    \/ \E i \in InviteIds :
          \/ PostInvite(i) \/ RefuseMail(i) \/ MailFails(i) \/ HardBounce(i)
          \/ \E heard \in BOOLEAN : ReplayAnswer(i, heard) \/ BlockMail(i, heard) \/ SendMail(i, heard)
                                       \/ LegacyMail(i, heard)
    \/ ServiceRestarts \/ SecondPasses

MailSpec == MailInit /\ [][MailNext]_mailVars

(* "Tie idempotency to the invite jti" (email_sender.py:473): an invite     *)
(* whose mail is reported sent was sent, and not another one in its place.  *)
SentMeansSent == \A i \in InviteIds : invitation[i] = "sent" => i \in mailed
=============================================================================
