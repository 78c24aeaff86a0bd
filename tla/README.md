# A TLA+ model of the 8th-Layer agent commons

8th-Layer is a commons of *knowledge units* for coding agents. Every team runs an
**L2 server** (`server/backend/src/cq_server`, FastAPI over one SQLite file). L2s of one
Enterprise form a mesh (AIGRP); Enterprises peer through a directory. Agents and people reach
an L2 through client libraries, a CLI, hooks and the `crosstalk-mcp` plugin.

This directory holds TLA+ modules of the parts of that system whose correctness depends on
order, interleaving, failure or arithmetic, the TLC configurations that check them on small
instances, and theorems about them whose proofs TLAPS checks. Paths below are relative to
`src/server/backend/src/cq_server` unless they start at `src/`.

1. [Inventory](#1-inventory) 2. [Modules](#2-modules-and-how-they-correspond-to-the-code)
3. [Runs](#3-what-is-model-checked) 4. [Proofs](#4-what-is-proved)
5. [Disagreements](#5-where-code-and-text-disagree) 6. [Not modelled](#6-what-is-not-modelled)
7. [Plan](#7-plan)

## 1. Inventory

How the server runs is common to all parts. Handlers are coroutines on **one event loop**.
A store call is awaited on a thread pool (`SqliteStore._run_sync`) and is one SQLite
transaction, so a handler is a sequence of atomic store steps with those of all other handlers
in between. A few things run *on* the loop: the reputation chain's writes (one cached
connection, `store._conn`), the daily and publish loops (fresh connections, no `await` inside an
iteration), and the synchronous HTTP forwards of consults, which block the loop. The
process may die anywhere; SQLite's committed state survives.

| Component | State it keeps | Operations | Hard behaviour | What makes it correct |
|---|---|---|---|---|
| **Knowledge review** (`review.py`, `app.py`, `scoring.py`, `store/_queries.py`, `store/_sqlite.py`) | `knowledge_units`: status, reviewer, tenancy, TTL, evidence in a JSON column | propose (embed, auto-approve), submit to the pending-review tier, approve, reject, delete, TTL sweep, confirm, flag | read-then-write across two store calls; a sweep that selects then updates; the decision and its `ku.event` on two connections; a failed hook is swallowed | one decision per unit, honest 409s, events that agree with the table, evidence that somebody gave |
| **Reputation chain** (`reputation.py`, `reputation_routes.py`, `daily_root.py`, `directory_client.py`) | `reputation_events`, `reputation_chain_meta`, `reputation_roots` | record an event, list, compute a day's root by hand, daily roll-up, publish and mark | one shared connection, snapshots, the single write lock and its timeout, savepoints, lost answers, restarts around midnight | the chain never forks, committed history stays, a root covers its day, the directory has at most one root per day, roots get there |
| **Merkle tree** (`merkle.py`) | none | fold a list of hashes | odd levels, empty and one-leaf days | the tree is the intended one; a root binds its events |
| **Reputation verifier** (`reputation_verifier.py`) | none | check links, hashes and signatures of a listed chain | the order events are listed in | a chain the server wrote verifies |
| **Consults** (`consults.py`, `forward_sign.py`, `store/_sqlite.py`) | `consults`, `consult_messages` at each L2 | request, reply, close; forward to a sibling or a peered Enterprise; three receiving handlers | forwards lost, late or repeated; two forwards handled at once; servers that block on each other; no distributed transaction | no phantom records, an `ok` can be relied on, the peering's logging policy is honoured, every request is answered |
| **AIGRP mesh** (`app.py`, `aigrp/_legacy.py`, `aigrp_peer_routes.py`) | `aigrp_peers` at each L2 | bootstrap at the seed, hello, announce, flood, poll, fetch a signature, paste a peer by hand | announcements arrive late, in any order or not at all; rows are overwritten without comparing versions; L2s move | a peer table converges to what the peers now say of themselves |
| **AIGRP secrets** (`aigrp/enterprise_root.py`, `aigrp/pair_secret.py`, `aigrp/runtime.py`) | the Enterprise root in a parameter store, two caches per L2 | mint, rotate, derive, call | two caches with one age limit each, nobody is told of a rotation | a replaced root drops out of use in bounded time |
| **AIGRP queries** (`app.py`, `aigrp/federation.py`) | `cross_enterprise_consents`, `cross_l2_audit` | look up with a fan-out to siblings; answer a forward-query; sign and revoke a consent | siblings answer late or not; consent, search and audit are three store calls | the asker keeps its own units; what leaves is accounted for, and leaves its Enterprise only under a consent |
| **Fleet views** (`network.py`) | signature cache, topology cache, peer keys | refill loop, `/dsn/resolve`, `/topology` | refills overlap, the last to end wins; a key store that fails for a while | what is shown has a bounded age; a failed key is tried again |
| **Presence** (`app.py`, `store/_sqlite.py`) | `peers`, one row per persona name | heartbeat, list active peers for a user or for a peer L2 | heartbeats that overlap are stored in any order; another user may take the name over | a persona is listed on its last word only |
| **Directory client** (`directory_client.py`, `aigrp_directory_peer_routes.py`) | `aigrp_directory_peerings` | announce with retries, pull, paste by hand | a cycle works on an old list while records and keys change; a loop that never starts | a withdrawn peering stops being in force |
| **L2 provisioning** (`l2_provision_routes.py`) | none; jobs are the directory's | relay a create call, stream its progress | polls that fail for the moment or for good | the stream closes, once, and truthfully |
| **Cross-group consent** (`xgroup_consent.py`, `admin_routes.py`) | `xgroup_consent_pending`, `xgroup_consent` | propose, cosign, ratify, revoke, recovery revoke | check and promotion in two transactions | a grant pins signatures that were made over what it says; revoked is for good |
| **Invites, first boot** (`invites.py`, `invite_routes.py`, `bootstrap_admin.py`) | `invites`, `users`, marker rows | mint, validate, claim, revoke, ensure user; three bootstraps | validate, create the user, claim: three transactions; a boot may stop between any two store calls | one session per invite, an account behind each spent one; one first administrator |
| **Authentication** (`auth.py`, `api_keys.py`, `agent_key_routes.py`, `passkey*.py`, `web_session.py`, `persona_routes.py`) | users, `persona_assignments`, keys, passkeys, challenges in memory | log in, enroll, assign, disable, issue and revoke keys | a row read before an await and used after it; one challenge slot per user | a disabled user stays out; a challenge serves once |
| **Reflection queue** (`reflect.py`) | `reflect_submissions` | deduplicate, rate-limit, enqueue | three store calls | only requests that overlap miss the limit |
| **Transactional mail** (`transactional/`, `email_sender.py`) | an in-memory idempotency cache, suppressed addresses | send, replay, suppress on a bounce | a key derived by the caller; the cache is filled after the send | what is reported sent was sent |
| **Crosstalk, server** (`crosstalk_routes.py`) | `crosstalk_threads`, `crosstalk_messages` | send, reply, close, inbox, list | status read in a call of its own; retries with the client's ids | what is stored stays, its author took part, what is marked read was returned |
| **crosstalk-mcp** (`src/plugins/cq/crosstalk-mcp/src`) | local threads, `pending_l2_sync` | local-first write, push, queue, drain, bump | drains overlap; operations are retried out of order; a cap on attempts | what is crossed off is at the L2; nothing starves in the queue |
| **Activity log** (`activity*.py`) | `activity_log` | append in a background task, page with a cursor | rows are inserted out of the order of their stamps while a reader pages | a walk misses none of the rows it began with |
| **Storage, migrations** (`migrations.py`, `tables.py`, `alembic/`) | the schema | upgrade once | – | – |
| **Search, quality, tenancy** (`embed.py`, `quality.py`, `tenancy.py`) | none | pure functions | – | – |
| **SDKs and CLI** (`src/sdk`, `src/cli`) | a local store | propose with local fallback, drain | propose then delete; several processes on one store; posts handled after a timeout | what the caller was told is kept is somewhere |
| **Hooks, installer** (`src/plugins/cq/hooks`, `src/scripts/install`) | configuration files | glue | – | – |
| **Frontend, deployment, CI** | – | – | – | – |

How they interact:

- An approval or a rejection, the close of a consult and a poll that stored a peer's signature call
  `record_event` after their own commit (`review.py:187`, `consults.py:760`, `app.py:313`). It
  writes through the chain's cached connection; a failure is logged and forgotten.
- The daily loop reads the chain and writes roots; the publish loop reads roots, posts them to
  the directory and marks them.
- Consults resolve a sibling L2 in the AIGRP peer table and an L2 of another Enterprise in the
  roster of an active directory peering, and call its receiving handlers over HTTP.
- The AIGRP peer table is what lookups fan out over and what consults resolve siblings in; the
  pair secrets authenticate those calls. Cross-Enterprise consents gate forward-queries,
  directory peerings gate consults; neither reads the other's table.
- An invite's claim makes the account that personas, keys and sessions hang on; its mail goes
  through the transactional service of a central L2.
- Most handlers leave a background task that appends to the activity log; nothing reads the log
  but its own route.
- `crosstalk-mcp`, the SDKs and the hooks call an L2's REST routes; nothing is pushed to them.

## 2. Modules and how they correspond to the code

| Module | Role |
|---|---|
| `UnitLifecycle` | abstract specification: unborn, open, decided, gone; the first judge is the judge for ever |
| `KnowledgeReview` | the handlers of the review component; implements `UnitLifecycle` |
| `KnowledgeReviewProofs` | theorems about it |
| `ReputationLedger` | abstract specification: a linked log per Enterprise that only grows, a root per day that closes it, a directory that holds nothing else |
| `ReputationChain` | chain, roots and publication over SQLite's connections; implements `ReputationLedger` |
| `MerkleTree` | the fold of `merkle_root` against a tree defined by heights |
| `MerkleProofs` | theorem about it |
| `ConsultRecord` | abstract specification: one record of threads and messages, of which each L2 has exact copies |
| `Consults` | several L2s and the forwards between them; implements `ConsultRecord` |
| `ConsultsProofs` | theorems about it |
| `Crosstalk` | an L2's threads, the clients' outbox and the calls between them |
| `PeerGossip` | the peer tables of a mesh |
| `PairSecrets` | Enterprise root, pair secrets and their caches |
| `Lookup`, `Federation` | the two sides of a query between L2s, and the consents behind it |
| `FleetView` | the caches of the fleet's views and of the peer keys |
| `Presence` | heartbeats and the listing of active peers |
| `Peerings` | the mirror of the directory's peerings |
| `ProvisionStream` | the progress stream of a new L2 |
| `GroupConsent` | grants between groups |
| `Accounts`, `Credentials`, `Bootstrap` | users, personas and invites; keys and passkeys; first boot |
| `Reflections`, `InviteMail`, `ActivityLog`, `ClientDrain` | the queues and logs |
| `Answers` | what an L2 tells those who ask: the joint properties of `FleetView`, `Presence`, `Federation`, `Lookup` |
| `ReputationChainProofs`, `CrosstalkProofs` | theorems about the module of that name |
| `AccountsProofs` | theorems about `Accounts`, `Credentials`, `Bootstrap` and `InviteMail` |
| `NodeProofs` | theorems about `PairSecrets`, `Reflections`, `ClientDrain`, `ActivityLog` and `GroupConsent` |
| `MeshProofs` | theorems about the modules `Answers` joins, `PeerGossip`, `Peerings` and `ProvisionStream` |
| `MCKnowledgeReview`, `MCReputationChain`, `MCConsults`, `MCCrosstalk` | the constants of the instances |
| `MCMesh`, `MCNode` | sums of modules that share no state, one of which moves in a behaviour |

### KnowledgeReview

`row` is the table. A request in flight is a slot `r`: `pc[r]` names the store call its handler
makes next or how it was answered, `job[r]` holds the handler's locals (what it read, what it
will write). Each store call is one action (`ReadStatus`, `WriteStatus`, `Reread`, `GetApproved`,
`PutUnit`, `SelectExpired`, `DropSelected`, ...); SQLite opens its transaction at the first
write, so a `SELECT` that precedes a write in one `engine.begin()` block is an action of its
own. `Hook` is `record_event`, which may fail. `Crash` is the death of the process with requests
in flight. Tenancy is two functions of the user (`Enterprise`, `Group`) and
`PER_L2_ISOLATION`; confidence is kept in steps of 0.05, so that the boost of 0.1, the penalty of
0.15 and the ceiling of 1.0 are exact. `won` and `events` are what the properties talk
about: who was told it decided, whose event is in the chain.

The refinement maps a row to a phase (`phaseBar`) and the winning requests to judges
(`judgesBar`). Requests with a lost race, failed hooks and re-reads are stutters.

### ReputationChain

`db` is what is committed. The chain's connection `store._conn` is modelled as SQLite behaves:
outside a transaction each statement commits; inside one (`txn`) the first read takes a
snapshot (`view`), a write needs the lock and a snapshot no other connection has
written past. `lock` is the file's one write lock, which the pool's threads and other
processes take too (`OtherWriterBegins`, `OtherWriterEnds`). Where `faults` is true they may hold it
beyond `busy_timeout`. `RecordEvent` is the savepoint with its two writes, either of which may be
undone; `ComputeRoot` and `ComputeRootFails` the admin route; `WakeDailyLoop`, `RollUp` and
`RollUpFails` the loop at midnight; `FetchPage`, `Post`, `DirectoryStores`, `PostSucceeds`,
`PostFails`, `MarkPublished` and `MarkFails` the publish loop, one await at a time. The two loops
block the event loop while they iterate (`Idle`). A hash is what it is the hash of:
an event's is its id, a root's the set of its events.

The refinement maps `db.log`, `db.roots`, `delivered` and the clock's day to the ledger; connections, snapshots,
locks, batches and the loops' own memory are not seen. A commit may enter several events and seal a day at once, as
the connection commits what it has collected.

### MerkleTree

One action per iteration of `merkle_root`'s loop. The reference does not loop over a list:
`Tree(s)[h]` is the nodes at height `h`, over endlessly many places of which the first hold the leaves; a node
over an empty right half hashes its left half with itself, and `MerkleRoot` is the one node over all the leaves.
A pair stands for a hash, which takes SHA-256 to be injective.

### Consults

A job is one HTTP request of a user to her own L2 (`request`, `message`, `close`) and the thread or
message row it may create. Each L2 has its tables `consults`, `messages` and its chain's
count of `consult.closed`. A handler runs from store call to store call (`Begin`, `AppendMessage`,
`UpdateClosed`, `RecordClosed`); the forward is synchronous, so `LoopFree` holds back every other
handler of a server that waits for an answer. `forwards[j][c]` is copy `c` of job `j`'s forward at
its receiver: on the wire, thread found or missing, answered. It can be answered after the
sender has given up (`ForwardFails`), be delivered again (`Redeliver`), or never arrive. Peer
tables, rosters and the peering's policy are constants or initial choices: the module takes
whatever gossip and directory have brought about.

The refinement maps the three tables as they are, and `confirmed` to what requests and replies have been answered `ok`
for (`Confirmed`): which message, on which thread, at which other L2, and whether the peering keeps messages. Jobs,
forwards and crashes are not seen.

Left out: Ed25519 signatures and nonces of forwards, the activity log, the inbox queries.

### Crosstalk

An operation `o` (send, reply or close) carries the ids its client chose, so `o` is also the id
of its message. `ops[o]` is what the client knows: its first post under way, queued in
`pending_l2_sync`, done, failed, or lost with its process. A call `c` is one HTTP post; `calls[c].at`
is the store call the handler makes next or its answer, `caller` the first post, a drain, or gone
when it has given up and the handler runs on. `Perform`, `StartDrain`, `PostAgain`, `Succeeds` and
`Fails` are `l2-sync.js`; `SendArrives`, `ReplyArrives`, `CloseArrives`, `ListMessages`, `LookForThread`,
`CreateThread`, `AppendMessage` and `UpdateClosed` the handlers, each with one store call;
`InboxSelect` and `InboxMark` the two statements of the inbox; `CrashServer` and `CrashClient` the
deaths of either process. Threads of earlier days may be there initially.

Left out: tenancy (all users are of one tenant), the activity log, the read-only lists, the local
half of `crosstalk-mcp` (it has always succeeded when an operation starts), and threads of
more than 200 messages, beyond which the idempotency check no longer sees all of them. In the modelled commit
`server.js` does not call `l2-sync.js` yet; the module starts at its exported functions.

### PeerGossip

What an L2 says of itself (endpoint and signing key) is one number, its `era`; `row[m][n]` is m's row
for n: the era it was last told of and whether a signature is cached. `TryBootstrap` with
`ApplyAnswer` is the hello to the seed and the upserts of its answer, one await at a time;
`Rehello` and `FetchSignature` one peer's turn in the poll loop; `Announce` the receiving handler,
fed by `flight`, what a hello's background task floods; `Lose` a flooded call that fails;
`Redeploy` a new process, perhaps elsewhere; `PastePeer` the administrator's route. A call to an
endpoint of an earlier era reaches nobody (`Reachable`). The poll loop's order of peers and its sleep
are left to fairness.

### PairSecrets

Roots are numbered as they are put into the parameter store. `Call(m, n)` is a call with all
it does to the two caches of both sides (`RootEntry`, `PairEntry`), one synchronous piece of code
on either. The fallback bearer decides calls only while there is no root, and those are left out.

### Lookup and Federation

`Lookup` is one request of `/aigrp/lookup` at the asking L2: embed, search its own units, select
siblings (`Selected`: safe endpoint, Bloom filter), fan out, de-duplicate and rank. A similarity and a
confidence are small numbers around `Floor`, which stands for `min_similarity` and `min_confidence`.
`exclude_self` sees local copies only (`Passes`): a hit on the wire has no `created_by` (`app.py:1088-1095`), so a
sibling's copy of a unit the persona wrote is ranked like any other.

`Federation` is `/aigrp/forward-query` and `/consents` at the answering L2: consent, search and
audit row are three store calls, and so are the check, the insert and the audit row of a
signature. A unit names the Enterprise of its row, which need not be the L2's (rows written before it was
configured say `default-enterprise`). The gate compares the caller with the L2 (`Arrive`); `PolicyFor`, like
`_decide_policy_for_ku`, compares it with the row. So a caller of this Enterprise is denied such a row, a
denied row is skipped but counts among the rows `Search` may look at (`FewUnits`), and a caller with a consent sees a row
of its own Enterprise whole. Consents are those for a caller of another Enterprise at this one; the
route also signs others, which no query here reads. `over` is history: the consents that had ended when
the request came.

### FleetView

`cached` and `topology` are the two caches with the start of the fan-out they hold; `fetch` the
fan-outs under way, for the loop, for a request that missed, or for the topology. The clock waits for
fan-outs no longer than `FanOut`. `peerKey` and `backoff` are the key cache and its record of a
failure, with the parameter store down at times.

### Presence

`seat` is the row of one persona name and names the heartbeat that it bears; rows of different names do not
touch each other. A heartbeat (`beat`) takes the time and scope, then does its `UPSERT`; a reader (`asking`)
takes the time its window starts at, then does its `SELECT`. `after` is history: the heartbeats answered before a
heartbeat or a reader came.

### Peerings

The directory's records and keys move by themselves (`Accepted`, `Withdrawn`, `KeyRotates`); the loop
announces (`AnnounceSelf`), fetches a list (`PullList`), and takes its records one await at a time
(`TakeRecord`), with a key cache per cycle (`KeyFor`). A record verifies if the key is of the era that
signed it. `InForce` is what `find_active_directory_peering` answers for one pair of Enterprises.

### ProvisionStream

`Report` is one poll's row turned into events; `Wake` the sleep, the ceiling and its closing frame.

### GroupConsent

Each handler loads and checks in one transaction and writes in another: `CosignLoad` and
`CosignUpdate`, `RatifyLoad` and `RatifyPromote`, `RevokeLoad` and `RevokeUpdate`. A job's record
holds what was loaded. `signed` is history: which signatures exist, over which body.

### Accounts, Credentials, Bootstrap

A job of `Accounts` is one request; `pc` is the store call it makes next. Login, passkey login and
claim share the disabled check and the minting of the session (`CheckAssignment`, `MintSession`);
the persona and the agent-key handlers share the stub user and the upsert. Functions of `invites.py`
use the engine on the event loop and are one step each. `Credentials` follows one user's challenge slot,
authenticators and key count; an answer may be sent repeatedly. `Bootstrap` is a boot as the sequence
of store calls of its three bootstraps, with a `Reboot` anywhere and any environment.

### Reflections, ActivityLog, InviteMail, ClientDrain

`Reflections`: three store calls of one session's submissions, with the moment of the request
taken before the first. `ActivityLog`: a background task stamps its row on the loop (`StampRow`)
and inserts it later (`AppendRow`); a reader opens the log and turns pages (`OpenLog`, `NextPage`). A page is
the newest `PageLimit` rows under the cursor (`Rest`, `Page`), of which the last is the next cursor; `got` holds
the rows the reader has, `again` those it was given twice, `start` those there when it began.
`InviteMail`: the service's handler is one step, as it awaits nothing between looking its key up and
remembering its answer; `KeyOf` is the key as `email_sender.py` forms it. `ClientDrain`: processes that
share one local store, with posts that are handled after the client gave up (`delayed`, `LatePost`).

## 3. What is model-checked

| Run | Instance | Shows |
|---|---|---|
| `review` | 1 unit, 3 requests of any served kind, 2 admins, auto-approval, failing hooks, crash | type correctness; a unit has one decision (`OneDecision`), a 409 is never spurious (`NoFalseConflict`), no event is contradicted by the row (`EventMatchesRow`), no outcome is counted that nobody reported (`NoPhantomEvidence`); `ImplementsLifecycle` |
| `answers` | 2 units, 2 requests, all kinds, two isolated L2 groups | every request is answered unless the process dies |
| `chain` | 2 events, 2 days of 2 seconds, slow writers, admin computes, crash | `ChainNeverForks`, `LateRootIsComplete`, `DirectoryAgrees`, `ImplementsLedger`, `EveryRootPublished` |
| `consult_mesh` | 2 sibling L2s, 3 jobs, 1 crash | `NoPhantomMessage`, `OkMeansMirrored`, `OneClosedEvent`, `ImplementsRecord` |
| `consult_peered` | 2 siblings and an L2 of a peered Enterprise, 2 jobs, each forward delivered up to twice, any policy | `PolicyRespected`; every request is answered though servers block on each other |
| `crosstalk` | 1 thread, 2 operations, 2 users (one with an outbox, one an admin), 2 calls at once, pages of one row, 2 drains or 1 crash | `NothingForgotten`, `AuthorTakesPart`, `OnlyShownIsRead`; `QueueDrains`: every queued row succeeds or uses up its attempts |
| `mesh` | a seed and 2 more L2s with one redeployment, pasted row or loss; 2 peering records with one outage, one rotation, one restart; a job of 3 phases and 4 polls; 2 outages of the key store | liveness: `GossipConverges`, `WithdrawalLands`, `StreamAlwaysCloses`, `KeyAlwaysComesBack` |
| `node` | the other parts of an L2, each with two or three requests at once | safety: `InvitesSettle`, `DisabledStaysOut` (`Accounts`); `ChallengeSingleUse` (`Credentials`); `OneBootstrapAdmin`; `RatifiedIsCurrent`, `RevokedForGood` (`GroupConsent`); `RotationLands` (`PairSecrets`); `ViewsAreTrue` (`ShownIsFresh` of `FleetView`, `LastWordShown` of `Presence`); `QueriesHoldUp` (`Lookup`, `Federation`), both defined in `Answers`; `PagesAreWhole` (`ActivityLog`); `LimitMissedOnlyAtOnce` (`Reflections`); `KeptIsSomewhere` (`ClientDrain`); `RootBinds` (`MerkleTree`) |
| `decision_is_final`, `lost_confirmation`, `writers_blocked`, `invite_not_sent` | the smallest instance of each | TLC finds the counterexamples of section 5 |

**Sums.** The modules of `MCMesh` and `MCNode` share no variable and do not call each other: every step of
one commutes with every step of another, so a property of one holds of their composition if and
only if it holds of it alone. A behaviour therefore moves one part, `part`, chosen at the start; the
others stay as they began, in one initial state. In `MCMesh` the fairness of a part is stated for behaviours
that move it. In `MCNode` the names `x` and `y` are requests, processes or members of every part,
interchangeable in each: that is the symmetry of the run.

**Why the bounds are enough.** A race in the review needs one unit and two requests; the third
lets a delete or a sweep interfere with a race of two. The rows a run starts from include both
ends of the confidence scale, where the clamps act. The chain needs two events (one link) in two
seconds on two days (a boundary), one connection and one other writer; a page of one root is
the smallest that a second root must wait behind. Six leaves give trees with an odd level at the
bottom (3, 5), one above (6) and none (2, 4). Three consult jobs are an opening message and
two more that race or a reply and a close; two copies of a forward are enough for two handlers of
one thread, which is the race in the receiver. Two crosstalk operations are two senders who open one
thread, a reply and the close that overtakes it, or a row that can never succeed next to one that can;
two calls at once are a handler whose caller has gone and the retry of the same operation; a behaviour
has a crash or a second drain, not both (`CrashOrOverlap`), to keep the liveness check small.
Three L2s are the least in which a third hears of a move from somebody else; they start fresh or with
any two just moved, which together with one more fault gives stale rows on both sides. Two peering
records are a renewal; one rotation separates records that verify from those that do not. Two jobs
per handler and two rows are a race and its victim; the third member of `PairSecrets` and the third
submission see what two others left; the clocks run for two of their windows, past every age limit
named. Two heartbeats, from any of three scopes, are one and the other that supersedes it, races with it or takes
the name over. Three log rows on pages of one give a page boundary between equal stamps with a late row on
either side. In `Lookup` two units, one's own and another's, at similarities below, at and above the
floor, and a full answer of one, are all that its property tells apart. In `Federation` four rows are one of the L2's
group, one of another group, an open one of that, and one of another Enterprise; two callers' Enterprises, the
L2's own and that row's, meet each of them, with two places in an answer.

The bounds are: `EventIds`, `LastDay`, `LastSecond`, `Jobs`, `Copies`, `Ops`, `Calls`, `Drains`, `MaxAttempts`
(2 for 10), `PageSize`, `MaxCrashes`, `MaxLeaves`, the request slots, `MaxRestarts`, `MaxLost`, `MaxFailures`,
`MaxStarts`, `MaxPolls` (4 for 600), `Phases`, `MaxOutages`, the clocks (`MaxClock`, `MaxTime`, `MaxHour`,
`MaxStamp`, `MaxSeconds`, `MaxMinute`), `MaxRoots`, `MaxChallenges`, `MaxBoots`, `MaxPosts`.

**Fairness.** *Review*: the event loop serves ready coroutines in turn and the pool's threads run,
so the store calls of each request have weak fairness (a request in flight always has one it can make).
Arrival of requests, failures and crashes have none. *Chain*: another
writer ends its transaction; the daily loop wakes; a roll-up or a mark either gets the lock or
times out (strong, since the lock comes and goes); the publish loop never stops posting, and a
post repeated for ever is stored and answered in the end, which is what its retry every
interval is for. Nothing is assumed of a directory that refuses (`Refused`). *Consults*: a
handler proceeds and a forward times out (`urllib` has a timeout); that a forward ever
arrives is not assumed. *Crosstalk*: a handler proceeds, a call is answered or times out, and the timer
starts drains, which go on to their next row. *PeerGossip*: each L2's poll loop runs for ever and comes to
each peer, its calls have timeouts, and an announcement is delivered or lost in the end; the number of
redeployments and losses is bounded, as the property is about what follows the last. *Peerings*: the loop
sleeps a bounded time and the directory comes back. *ProvisionStream*: the generator runs on. *FleetView*:
a refill asks for a missing key again and the back-off is 30 seconds.

`CHECK_DEADLOCK FALSE` stands where the instance runs out of requests, events or days.

## 4. What is proved

TLAPS proves the following for **every** value of the constants under the assumptions each module names. Every
safety invariant, action property and refinement of the passing runs is a theorem. Nearly all proofs
have one shape: an inductive invariant holds initially, each action keeps it (one lemma per action or kind
of action), and it implies the property.

**KnowledgeReviewProofs.** `TypeCorrect` (`TypeOK`; in particular confidence stays in [0, 1])
needs no other hypothesis. The theorems about decisions assume `Served`: `submit_pending_review` is not among the
operations, as in the server, where no handler calls it. (With it a decided unit can be reopened,
see section 5.) The inductive invariant `ReviewInv` adds to the types what each program counter
knows: a request that has won is at a store call after its `UPDATE`, a unit somebody has won is
decided or gone, at most one request has won a unit, an id in the table was born, a loser's
unit is no longer open. `OneDecision` alone is not inductive: the second reviewer's guarded
`UPDATE` fails only because a winner's unit is not open, and stays so whatever deletes and sweeps
do. Theorems: `AtMostOneDecision`, `EventsMatchRows`, `ConflictsAreReal` and
`ReviewImplementsLifecycle` (the refinement: initial states map to initial states, each step to
a step of `UnitLifecycle` or a stutter).

`EvidenceIsBacked` (`NoPhantomEvidence`) needs no `Served`, but that the table starts with units nobody has
confirmed or flagged (`Unconfirmed`), as the property counts what was accepted since. What a row counts is not
enough for the induction, since confirm and flag write back a copy: `EvidenceInv` says that the row *and* every
copy a handler has read are backed by requests that were accepted. A lost update lowers a count; nothing raises it
but an acceptance of its own.

**ConsultsProofs.** Whatever is stored, forwarded or answered can be traced to the request it came
from. The inductive invariant `ConsultInv` says so table by table: a thread's row at any L2 has the
ends its request gave it and lives at one of their L2s (`ThreadsTraced`); a message was recorded by
its author's L2 (`MessagesTraced`); a request acts on a thread in which its user takes part
(`JobsOnThread`); nothing is forwarded before it is recorded (`ForwardsTraced`); what a
receiver has found or answered is in its tables (`ForwardsKept`); one request at most is left to
record a close (`OneRecorder`). The proof first shows what no step takes away (requests keep what
they ask, rows stay, forwards stay), then each conjunct from the few actions that write its
variables. Theorems: `TypeCorrect`, `NoPhantom`, `OkIsMirrored`, `OneEventPerClose`, `Durable`
(the action property `RecordIsDurable`: no step deletes or rewrites a row or reopens a thread), for any number of L2s, Enterprises, users, requests, deliveries and
crashes, any peer tables, rosters and policies.

`PolicyKeptByBoth` (`PolicyRespected`) adds to `ConsultInv` that a request whose peering forbids logging never gets
as far as a row (`LoggedOnly`), and that a stored body is the one the policy between the *request's* two ends asks
for (`BodiesFit`); that the thread of the row has those ends is what `ThreadsTraced` and `JobsOnThread` say.

`ConsultsImplementRecord` is the refinement of `ConsultRecord`. Per table (`ThreadsRefined`, `MessagesRefined`,
`EventsRefined`) a step that changes it is a step of the record. The copies need the most: that a forward which is
handled late, or for the second time, finds the *asker's* row and copies it exactly, body and redaction included,
is `ThreadsTraced` and `BodiesFit`; that a thread is opened nowhere before its request, so that the opener's row
is the first, is `ThreadsTraced` again. `ConfirmRefined` says that an `ok` is told of what is there
(`OkMeansMirrored`) and never withdrawn, which needs that a request told `ok` is over, crash or not (`OkIsDone`).

**ReputationChainProofs.** The server can write from two databases, the committed one and what `store._conn` sees
inside a transaction. `ChainInv` says that both are whole (linked, one root per day, none from the
future, late roots complete), that the second extends the first whenever the connection has written, and equals it
after a mere read (`StoreInv`). This is why no savepoint, stale snapshot or crash forks a chain: a write is refused
when its snapshot is stale or the lock is another's. `PublishInv` says that whatever the publish loop
holds and whatever the directory has is the content of a committed root. Theorems: `ChainsLinked`
(`ChainNeverForks`), `LateRootsComplete`, `DirectoryConsistent`
(`DirectoryAgrees`), for any Enterprises, events, days, page sizes, refusals and crashes; `CommittedStays` (the action property `AppendOnly`: no step takes
a committed event or root away or changes one).

`ChainImplementsLedger` is the refinement of `ReputationLedger`. What makes it more than `AppendOnly` is that no event
is entered on a day a root has closed, though `store._conn` may carry an event of yesterday, uncommitted, past midnight
when the daily loop closes yesterday. `Pending` says that what a writing connection holds may still be entered
(`Enterable`): while it holds anything it has the write lock, so that no other connection can insert the root,
and today is never closed. With it each commit, on any connection, is one `Commit` of the ledger.

**CrosstalkProofs.** `CrosstalkInv` says what the handler of each call knows by the store call it is at
(`CallsKnow`: who may write to the thread, and of an answered call that its work is done), that a row crossed off
is done (`DoneIsDone`), who wrote each message (`AllWritten`), who closed a thread (`ClosedByOne`), whose
messages an inbox call has selected (`PickedOwn`). It survives other handlers because what they find out is
never taken back (`StoreKept`, `OpsKept`): threads keep their participants, messages their place,
operations their request. Theorems: `OutboxLosesNothing` (`NothingForgotten`), `AuthorsTakePart`,
`ShownIsRead` (`OnlyShownIsRead`). The closer of a thread is the operation, so "done" of a close means closed by this
very request, not by somebody.

**AccountsProofs.** `AccountsInv` says for each step of a request what of the things it read still holds (`JobOK`:
a claim that has made its user has one, an upsert has an assignment to write), that assignments and spent invites
have users (`RowsBacked`), and that one claim of an invite is past `claim_invite` (`OneWins`). Theorems:
`InvitesSettled` (`InvitesSettle`), `DisabledStayOut` (`DisabledStaysOut`, a step property). `CredentialsInv`: a challenge that
succeeded has left the cache, and new ones have new numbers; `ChallengesSingleUse`. `BootstrapInv`: the marker row
precedes the founder's invite, and the boot that writes it alone mints; `OneAdministrator`. *InviteMail*:
`SentMeansSent` is false (section 5); what holds is that an invite is reported sent only if a mail was sent for
its key (`SentIsOfItsKey`). The proof uses nothing of what `KeyOf` is, so the shared key is the one cause.
`AccountsAssumption`: the founder is a user and the requests are finitely many.

**NodeProofs.** *PairSecrets*: a root was current when it was fetched, a secret is derived from an entry less
than `Ttl` old and used for less than `Ttl`; so `SecretsInv` bounds the moments of fetching, deriving and
calling by the replacement of the root plus 0, `Ttl` - 1 and 2 `Ttl` - 1, and `RotationsLand` follows
(`SecretsAssumption`: `Ttl` at least 1). *Reflections*: a submission that has passed the rate check is more than a
window younger than all rows queued when it came, for none is removed (`Passed`); `RateLimitHolds`
(`LimitMissedOnlyAtOnce`). *ClientDrain*: copies received, posts under way and posts that may still arrive are together
no more than the posts made (`CopiesCounted`), and a process about to delete a unit knows the server has it;
`ProposalsKept` (`KeptIsSomewhere`). *ActivityLog*: the cursor parts what a reader has got from what it has still to
get, wherever rows are inserted meanwhile (`Reads`), and ids are unique, without which rows of one
stamp would have no order; `PagesWhole` (`PagesAreWhole`). `PagesExist` shows that for any rows and any
cursor there is a next page, so that the reader's step, stated by what a page is, is never blocked.
*GroupConsent*: handlers write from a row loaded in an earlier transaction. `ConsentInv` says that a row
bears the signatures its status claims (`RowsSigned`), that it goes only when a grant of its id comes
(`DeletedIsGranted`), and that a ratifier holds the row as it is, or as it was when it went (`RatifyJobs`). A second
ratification of a row that went therefore fails on the grant's primary key. Theorems: `RatificationsCurrent`
(`RatifiedIsCurrent`), `RevocationsFinal` (`RevokedForGood`). `ConsentAssumption`: the target group's keys are
neither the source's nor the recovery key; with one shared, "signed by both" would say nothing.

**MerkleProofs.** `RootsBind` (`RootBinds`): for a day of any number of events `merkle_root` returns the root of
the tree, and no other day without repetition, longer or shorter, has that root. The induction over heights is over *sets* of
numbers (`Inductive`, from the library's `NatLessThanWellFounded` and `WFMin`): the set of heights at which a
fact holds is all of `Nat`. By it the recursive function `Tree` exists (`TreeDefined`), each height halves the
number of nodes, so that a root is found at one height alone and no higher than the number of leaves, and two
trees with one root are the same down to the leaves of the lower one (`TreesBind`); those are no hashes of two
nodes, so neither tree is higher. The loop's invariant (`LoopInv`) says that after `k` iterations `level` is
the nodes at height `k`. The hypothesis `LeavesAreAtoms` (no payload hash is the hash of two nodes, or the
root of an empty day) belongs to the injective hash: without it a leaf could stand for a subtree.

**MeshProofs.** *FleetView*: what a fan-out brings is at most `FanOut` old at its end, and a request that reads the
cache again waited for one that ended since (`FleetInv`). `FleetAssumption` takes `FanOut <= Stale`: a fan-out's calls
end within seconds, the cache is kept for three minutes (`DSN_CACHE_STALE_SECS`); without it a request could reread an
entry older than the bound. *Presence*: the row is a stored heartbeat's, and no stored one was sent after its answer
(`SeatIsLast`). *Federation*: a consent that ended stays ended and one reserved keeps its groups, so that a
consent found active covers the answer later (`QueryOK`, `AnswerOK`); only the request that reserved a consent inserts
it (`Reserves`). What a hit may hold is decided by the row's Enterprise (`Summarised`): it is another's only for a query
that has found a consent, and then a summary. *Lookup*: a search has one copy of each unit, and each copy knows where it was
found (`LookupInv`); the ranking is then a fact about one step, over any finite set of units. Theorems: `ViewsHold` (`ViewsAreTrue`),
`QueriesAccounted` (`QueriesHoldUp`).

The rest of the module is the safety under what the `mesh` run checks as liveness; no run states these.
*PeerGossip*: each stored row, roster entry and announcement names an era the L2 itself has had, and none is
about its receiver (`NothingInvented`; theorem `NobodyInvents`). `ConvergedStays`, a step property, is what
makes `PeersConverge` stable: as no version is compared, a stale announcement would set a row back, so
`Settled` asks that nothing stale be under way besides all tables being current. *Peerings*: a record a pull
still holds is between the row it will be written to and the directory's own (`HeldInOrder`), hence the mirror
is never ahead (`MirrorFollows`) and no later write brings back what was withdrawn (`WithdrawalsStay`), though
the upsert compares nothing. *ProvisionStream*: `last` is the newest row sent and not ahead of the job
(`LastIsNewest`), so phases are reported in order and once, and a closing frame is one and last
(`StreamTruthful`).

The other assumptions give constants their types. TLC evaluates all of them in the runs.

**Only model-checked:**
- liveness under fairness, outside the prover: `EveryRequestAnswered` (of the review and of consults),
  `EveryRootPublished`, `QueueDrains`, `GossipConverges`, `WithdrawalLands`, `StreamAlwaysCloses`,
  `KeyAlwaysComesBack`;
- the properties of the violation runs, which are false.

## 5. Where code and text disagree

Each of these has a run that finds it:

- `decision_is_final`: the TTL sweep selects expired ids, then updates them by id alone
  (`store/_sqlite.py:2502`). An approval in between is overwritten by `dropped`.
- `lost_confirmation`: confirm and flag write back the JSON they read in another transaction
  (`app.py:2026`). Of two confirmations that overlap one is lost.
- `invite_not_sent`: the service deduplicates an invite's mail by the first 32 characters of its token
  (`email_sender.py:475`), which are the same for every token: the second invite within a minute is answered
  with the first one's answer and not sent.
- `writers_blocked`: the admin's compute route does not roll back when its `INSERT` times out
  (`reputation_routes.py:228`). The shared connection stays in a transaction and the next
  event takes and keeps the write lock.

These were met while modelling; the modules behave like the code, and no run is spent on them:

- timestamps have one-second resolution and event ids are random, so the order of `ts` is not the
  order of the chain (`reputation_routes.py:120`), and `verify_chain` (`reputation_verifier.py:43`) reports
  an intact chain as broken when two events share a second;
- a reply that finds no thread at the receiver re-creates the thread, not the message of the forward
  that was dropped (`consults.py:899`), though `consults.py:884-887` says a dropped forward does not
  permanently break the audit trail;
- a delete between a reviewer's `UPDATE` and the re-read makes the assertion fail: 500 for a decision
  that stands (`review.py:240`); the event of such a decision is never written (`review.py:241`);
- `submit_pending_review` says "two writes in one transaction" and makes two transactions
  (`store/_sqlite.py:2373-2380`); the second can reopen a unit decided in between;
- a root computed before its day is over is never extended (`daily_root.py:121` against `:4`), and a
  midnight the server does not see leaves a day without root (`daily_root.py:234`) unless
  an admin computes it;
- `daily_root.py:21-25` speaks of serializing by `last_root_published_day`, which nothing reads;
- a root the directory refuses stays in the oldest page for ever (`directory_client.py:529`): hence
  `EveryRootPublished` is about Enterprises the directory does not refuse, with none refused in the run;
- `merkle.py:9-14` says "RFC 6962 style"; the tree duplicates an odd last node, which RFC 6962
  does not. For lists without repetition, as days are, a root binds its list all the same
  (`RootBinds`);
- a message can be stored on a thread that was closed between the check and the `INSERT`
  (`consults.py:645`), or is closed at the mirror (`consults.py:899`); a close is never forwarded
  (`consults.py:744`);
- two forwards of one new thread handled at once: the second fails on the primary key, is answered
  500, and its message is lost (`consults.py:830`, `:841`);
- a reply to another Enterprise is always answered 502, as replies look in the AIGRP peer
  table only (`consults.py:636-643`); `request_consult`'s docstring still says 501 (`:474-478`);
- `reply_on_thread` checks the status before it looks for the message (`crosstalk_routes.py:389`): a
  reply that was stored and is retried after a close gets 409 until it is given up, where `:402` says
  "retry-safe"; so does a close whose first answer was lost (`:524`);
- a close that reaches the L2 before a queued message of the same client makes that message
  undeliverable; a thread closed between the check and the `INSERT` takes it (`crosstalk_routes.py:344`);
- on an existing thread `send_message` stores any `to` of the tenant, participant or not (`:349`);
- a malformed row is "marked stuck by bumping attempts to MAX" (`l2-sync.js:197`) and is bumped by one;
  overlapping drains may bump a row past `MAX_ATTEMPTS`.

Of the mesh and the directory:

- the comment at `aigrp/runtime.py:160-161` says a root rotation lands within one window; a pair secret may be derived
  from a cached root nearly a window old, so it takes up to two (`RotationLands` is about two);
- a refill of the signature cache that nobody answers empties it (`network.py:754`); a peer key once
  read is kept for ever; the age of a cached answer counts from the end of its fan-out;
- two L2s that call each other at once fail by timeout, as `urllib` blocks the event loop;
- a row an administrator pastes (`aigrp_peer_routes.py`) overwrites whatever is there and is
  overwritten by the next announcement;
- a final announce failure, or six of the moment, and the pull loop is not started until the L2
  restarts (`WithdrawalLands` excepts it); a withdrawn peering whose record is gone or no longer verifies stays
  in force till it expires; one malformed record ends the cycle; the status is not under the signatures;
- `aigrp_directory_peer_routes.py:28-31` says a pasted peering "is overwritten on the next directory pull"; it has an
  id of its own, so both rows stand, and a later paste wins by `active_from`;
- two overlapping signatures both insert a consent, and revoking one leaves the other active; a
  crash between a consent and its audit row leaves it unaudited;
- a lookup drops the farther copy of a unit before it filters: a mirrored copy without a confidence
  hides a local hit that a local-only lookup would return (`app.py:727`);
- its filters run over local and siblings' hits with "identical filter semantics" (`app.py:730-732`), but a sibling's
  hit names no author (`federation.py:276`): with `exclude_self` a mirrored copy of the persona's own unit is
  returned (`app.py:742`);
- of two heartbeats that overlap, the one that took the time first may be stored last: `last_seen_at` goes back, and
  an opt-out is undone, though `app.py:1420` says it "advances to 'now' on every call".

Of accounts, mail and logs:

- a `PATCH` of a persona that overlaps a disable re-enables the user (`persona_routes.py:271`); two overlapping
  disables, or a `PATCH`, defeat the last-admin guard (`:322`); keys and sessions of a disabled user stay valid;
- a claim whose invite is revoked in between leaves the account; revoking also revokes an invite that was claimed;
- a crash between the marker row and the founder's invite leaves an L2 that neither bootstrap serves again
  (`bootstrap_admin.py`); one within the Liaison seeding leaves a user without key, one after the user of an agent
  key leaves the name taken;
- overlapping passkey logins may set the sign count back (`passkey_routes.py:265`); overlapping
  requests may exceed the key cap; cosign answers `cosigned` when its `UPDATE` found no row;
- overlapping reflections pass deduplication and rate limit, which look at nothing but the session id;
- the mail service's replay of a 409 has another body than the first answer, where `idempotency.py:15-18` says "byte-for-byte";
  its cache is lost with the process; the path without a send key ignores suppressions;
- `0011_activity_log.py` describes a daily purge; nothing calls `purge_activity_older_than`. A reader's Enterprise
  is that of the raw user row while writers resolve it, so on a configured L2 a user with the default
  row sees none of the log. A stamp at microsecond 0 has no fraction, so `since` and `until` miss or
  include rows of that second, where `activity_routes.py:104-107` says the order is monotone;
- in the Python client, of two drains at once both post a unit and the second `delete` raises, which ends it.

## 6. What is not modelled

- *Cryptography*: hashes are injective, signatures valid, keys derived as functions. Signature checks of
  forwards, peerings and grants are what they decide.
- *Migrations, presentation, deployment, installation, hooks*: one-shot or stateless glue.
- *Search and quality scoring*: a search returns any small set of hits.
- *Read-only routes*, unless they read on the shared connection, where a read takes a snapshot
  (`ListEvents`), page through rows that change (`ActivityLog`), or must not be stale (`FleetView`, `Presence`).
  The DSN resolver's scoring belongs here.
- *Tokens after they are minted*: expiry of sessions, hashing of passwords and keys.
- *The local half of `crosstalk-mcp`*, the Go client and the CLI.
- *Code nothing reaches*: `aigrp/envelope.py`, `purge_activity_older_than`; `submit_pending_review` is modelled, but
  not among the served operations.
- *Several processes on one database file*, except as the *other writer* of `ReputationChain`.
- *Composition beyond what interacts*: `Consults` takes peer tables, rosters and policies as constants
  or initial choices, though `PeerGossip` and `Peerings` change them: their product is out of TLC's reach,
  and the properties of `Consults` are proved for every value of them, but not while they change.

## 7. Plan

1. *(done)* `KnowledgeReview` with `UnitLifecycle`, its proofs.
2. *(done)* `ReputationChain`, `MerkleTree`.
3. *(done)* `Consults`, its proofs.
4. *(done)* `Crosstalk`.
5. *(done)* The mesh: `PeerGossip`, `PairSecrets`, `Lookup`, `Federation`, `FleetView`, `Presence`, `Peerings`,
   `ProvisionStream`.
6. *(done)* Accounts and queues: `Accounts`, `Credentials`, `Bootstrap`, `GroupConsent`, `Reflections`,
   `InviteMail`, `ActivityLog`, `ClientDrain`.
7. *(done)* Proofs of every safety invariant and action property of the passing runs.
8. *(done)* The safety of `PeerGossip`, `Peerings`, `ProvisionStream` and `InviteMail`.
9. *(done)* `ReputationLedger` and `ConsultRecord`, abstract specifications of the reputation chain and of the consults,
   with the refinements checked and proved.
10. Left: `Consults` over peer tables and rosters that change (section 6), for which its proofs would need to say
    what a forward may find after the gossip has moved on.

The project is kept at about a dozen runs, so that all of it can be rechecked after each change to
the code: a new module joins a sum, or takes the place of a counterexample that section 5 describes.
