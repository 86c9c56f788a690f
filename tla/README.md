# Bittery: verification project

TLA+ specifications of the parts of Bittery whose correctness depends on
ordering, concurrency, failure and retries, with TLC configurations that check
them on small instances and TLAPS proofs for every instance. Bittery is a
zero-knowledge password manager: a Rust/Axum server on PostgreSQL, TypeScript
packages for sync, storage and vault logic, and browser-extension, desktop, web
and mobile clients.

Paths below are relative to the repository. `PROJECT.json` lists the
components, the runs, the source lines each definition models, the hazards and
the findings.

## 1. Inventory

| Component | State | Operations | What is hard |
|---|---|---|---|
| Idempotency records (`apps/server/src/shared/idempotency.rs`, `http/idempotency.rs`) | a row per principal, method, route and key: pending, completed, indeterminate; fingerprint; response; deadlines | claim, complete, maintenance, operator recovery | five autocommitted statements, the domain transaction and the completion interleave; a crash between any two |
| Vault items, attachments (`domains/vaults/items.rs`, `attachments.rs`) | ciphertext, version, vault, trash flag; wrapped attachment keys | create, update, favorite, trash, restore, move, delete | optimistic versions; writers that hold an old vault key |
| Vault members (`members.rs`, `access.rs`) | role and wrapped vault key per vault and user | add, change role, rewrap | check and write are separate statements |
| Rotation plans (`domains/vaults/rotation/plans.rs`, `membership.rs`) | plan, manifest, staged outputs, vault key version | create, page, stage, finalize, abandon, expire, clean up | optimistic plan finalized against a vault that moved on |
| Member departure (`rotation/departure.rs`) | the plans of one departure, team of the user | create plans, finalize | several vaults and the team change, all or nothing |
| Outbound queue (`packages/sync/src/outbound-queue.ts`) | commands in memory and in a durable document shared by tabs | enqueue, drain, merge, acknowledge, rebase, restore | awaits between memory and storage; object identity; several engines |
| Sync feed (`domains/sync/`, `db/events.rs`, `jobs/sql.rs`) | `sync_event` log with a serial sequence | record, page since a cursor, bootstrap, ping, prune | sequence numbers are drawn before commit; a cursor may expire |
| Sync client (`sync-orchestrator.ts`, `catch-up.ts`, `delta-sync.ts`, `sync-manager.ts`) | cursor, connection, flags of the running catch-up | catch up, apply event, full refresh, reconnect | failure in the middle, coalesced pings |
| Replica (`account-vault-replica.ts`, `staged-full-refresh.ts`, `packages/storage/src/item-cache.ts`) | items as cached, generations, optimistic state | apply, acknowledge, stage, promote | refresh promoted while events and commands apply |
| Extension vault session (`apps/extension/src/background/vault-session/`, `background/handlers/`) | owner of the lock state, desktop status as last seen, timer, alarm; keys in the account store | unlock, sign in, lock, log out, poll, push, read, recycle | a poll, a push, a handler and the browser act on one cell; answers are stale when they arrive |
| Share links and verification codes (`domains/shares/`, `auth/verification_code.rs`, `shared/rate_limit.rs`) | link with access counter, codes with attempts and used_at, lockout | request code, verify, count access, consume, reset password | separate statements per request |
| Teams and invitations (`domains/teams/`) | invitations, pending keys, member limit | invite, accept, decline, cancel, register | unconditional status updates, counts before inserts |
| Sessions, devices, credentials, recovery (`domains/sessions/`, `auth/`) | session tokens, key material | refresh, revoke, change password, recover | rotation of tokens; vault keys rewrapped by the client |
| Billing (`domains/billing/`) | subscription state | webhook, checkout, seats | duplicated and reordered webhooks |
| Jobs (`jobs/`) | leases, batches | purge tombstones, uploads, plans, events | selects, then deletes |
| Travel mode (`domains/sync/`, clients) | policy per device | enable, disable | policy against what is already on the device |

The components interact as follows. A client turns a user's action into a
command of the outbound queue; the queue sends it with an idempotency key and
the version it was based on; the HTTP layer claims the key and runs the domain
service; the service writes the item and a sync event in one transaction; other
clients are pinged, page the feed from their cursor and fetch what changed into
their replica. A rotation replaces the key all of this is sealed under, while it
goes on. The crypto core, generated API types and user interfaces carry no
concurrent state of their own and are left out.

What makes each part correct, in a sentence: a keyed mutation commits at most
once, and nobody is told of a success that did not happen; a vault is always under
one key, which no former member holds, and rotation loses no content; a command that was accepted reaches
the server or stays visible in the queue, never twice and never back again; a
client that has caught up has what the server has, and its copy never moves
back; the extension is never open next to a locked desktop app, and closes when
idle; a code is good for one use, and a share link is opened at most as often as
it allows.

## 2. Modules

### Idempotency

One row per key; a request is a program counter that runs through the five
statements of `claim`, the domain service and `complete`, each one action.
`Abandon` cuts a request off anywhere: a failed statement, the request timeout,
a hung-up client or a dead server. The domain service (`Operate`) answers `ok` after
its commit, `fail` before it, or `unacked`: `commit()` itself returned an error
(`items.rs:376`), and the transaction took effect or not. The handler stores all
three and replays them. Time is a flag per row, "its deadline has
passed" (`Expire`). `commits` is a history variable: how often the mutation of
the current record has committed. Two constants describe the deployment:
`TimeoutBelowClaim` (the request timeout, 30 seconds by default, is below the
five minutes of a claim, so no handler outlives its claim) and
`OperatorRecovers` (the procedure of `docs/idempotency-recovery.md` is in use).

### VaultRotation

The tables `vault_key`, `item`, `item_attachment` and
`vault_key_rotation_plan` with manifest and staged outputs, and what the server
cannot see: which key a wrapped key or a ciphertext holds. A key is named after
the vault or the plan that introduced it. `held` records the vault keys the
server has handed to each user. A departing Member's own client generates the
new key and destroys its reference to it (`retireOwnedRefs` in
`vault-key-rotation.ts`); `held` does not count that, which trusts the client to
do so.

Each handler is one action, except `add_vault_member`, whose checks and insert are
statements of their own: `RequestJoin` reads the actor's role, the target's team and
that the target is no member yet, `AddMember` inserts what `RequestJoin` put into
`joining`, and checks nothing again; `DropJoin` is a handler that fails in between.
`Stage` is the client's ceremony for all pages of
one kind: it needs every record of the manifest to open under the key the
initiator has. `Finalize` is the whole transaction when nothing commits inside
its snapshot. With `SnapshotGap` it is two actions: the snapshot
(`BeginFinalize`) and the rest (`CommitFinalize`), which fails if a row of the
snapshot has changed and does not see rows inserted since; PostgreSQL detects
such conflicts only between SERIALIZABLE transactions, and the writers are READ
COMMITTED. `LateWriters` lets a client seal with any key of the vault it ever
opened; without it, every writer uses the stored key. Updates always use the key
that opened the row, because they name its version.

### OutboundQueue

The stored document, and per engine the in-memory queue, what it last adopted
(`known`, the persisted signatures), and the chain of writes. A write is two
actions: the atomic update of the document (`JobUpdate`) and the adoption of
the result into memory (`JobFinish`); everything else of the engine may happen
between them. Commands are numbers in the order of their timestamps with a
status and a retry count. JavaScript object identity is modelled where it
matters: a suspended `enqueue` or `drain` holds an object that is `attached`
while it is the one in the queue. `SerialCallers` assumes that calls of one
engine wait for one another, which no code enforces.

### SyncClient and VersionedCopy

One user's client against the server's feed. The server side is the rows with
their versions, the vaults the user has access to, and the event log; an event
is its position, and an item write draws its position (`OtherWrites`) before it
commits (`OtherCommits`), as `bigserial` does. `/sync/changes` is read statement by
statement, as the server does without a transaction: the user's vaults and whether
the cursor is visible (`CatchUpAsks`), then the events in those vaults
(`CatchUpFetches`) or, for an expired cursor, the newest event and the demand for a
full refresh (`CatchUpRefused`). So is `/sync/bootstrap`: `RefreshAsks`,
`RefreshCaptures`, `RefreshPage`, and for later pages `RefreshChecks`. A page is a set
of positions, since its order is that of the log. `Prune` is the thirty-day retention
job. An event of an item or vault the user has lost meanwhile is answered with 403,
which ends the catch-up (`EventRefused`); one of an item that is gone, with 404
(`EventReconciled`). A newly shared vault is listed without its trash (`Listed`), while
the bootstrap and a single item are served from the trash too.
The client side is what is on disk (cursor, item cache, cached vaults, cache
metadata, one command per item) and what is in memory: the catch-up as a program
counter, the refresh under way with the baseline it captured and what it staged,
and the refreshes queued behind it. Every await of the client that something
else can slip through is a step: an event is reconciled, written and
acknowledged in three; a refresh captures its baseline, fetches each page and
promotes. `Restart` leaves the disk only. `kept` holds items whose removal was
skipped because an unsent edit is on them, `stranded` records that a catch-up
failed under an open stream.

`missed` is a history variable: the items of which a change was skipped in one of the
ways the source has, each recorded at the step where it happens:

- an item write commits after the client has passed its number (`OtherCommits`);
- a share commits, or events expire, between the statements of one answer
  (`CatchUpFetches`, `Prune`);
- a vault is shared again while a refresh or the catch-up still holds its loss or
  itself (`Share`), an item comes and goes within one refresh (`OtherPurges`,
  `Revoke`), or an acknowledgement writes under one (`Acknowledge`);
- an item was in the trash of a vault when it was shared (`EventReconciled`).

None of them is excluded from the behaviours. One constant, `NullCursor`, says whether
the feed may be empty when the client first reads it, which is a way of its own
(`sync_expired`).

`VersionedCopy` is the abstract specification of the cache: a copy that holds of
each item nothing or a published version, and only moves forward.
`SyncClient` implements it under `truth <- ver, copy <- cache` (`CopySpec`).

### VaultSession

The record `m` is the state cell of the reducer with the timer and alarm its
effects arm; each reducer event is an operator on `m` (`DesktopObserved`,
`UnlockLocally`, `TimeoutElapsed`, ...) that includes the effects the event
emits. Actions are the dispatchers: the startup routine, the poll, pushed desktop
events, the popup's handlers, the revocation frame, timer, alarm, and the
browser recycling the worker. A desktop status is one of five: no native host, a
host that cannot reach the app, locked, unlocked with no account, unlocked.
Status requests are asked, answered by the desktop as it then is, and observed
later. Time is idle ticks, saturating at `MaxIdle`. `clear_keys` is detached:
`m.clearing` counts `lockAll` calls in flight, up to `MaxClears`, and `ClearEnds`
ends one, or fails it. `stray` records keys that an unlock left behind which the
reducer then refused. One account is modelled; the refusal code, lock reason,
revision, icon and keepalive are left out.

### VerificationCodes

One address, one purpose (`mode`: signup, recovery, an e-mail restricted link,
or a link anyone may open). A request is a program counter; each autocommitted
statement of `issue`, `verify_with_lockout`, `consume`, the undo of an
undelivered code and the access counter is one action, and `CutOff` ends a
request anywhere. `RecordFailedAttempt` writes `attempts` and `used_at` from the
row as it was read, as the code does; `revived` counts how often that gave a used
code back. `tokens` are the recovery tokens handed out, and `ResetPassword` is the
transaction that spends one. Left out: the entitlement check, the wait of a
minute between codes, limits per IP address and window, access logs, the verified
flag, invitation tokens, links without a limit, and the Redis limiter.

### Proofs

`IdempotencyProofs`, `VaultRotationProofs`, `OutboundQueueProofs`,
`SyncClientProofs`, `VaultSessionProofs` and `VerificationCodesProofs` hold the
theorems about the module in their name.

## 3. Runs

| Run | Instance | Result |
|---|---|---|
| idem | 1 key, 2 fingerprints, 2 requests, default deployment with operator, fairness | all properties hold, ClaimResolves included; 191k states |
| rotation_policies | 2 vaults, 3 users, 1 item, 2 plans, removal and both departures, 1 add in flight | all hold, DepartureTakesAll included; 537k |
| rotation_late | 1 vault, item and attachment, 1 plan, 2 adds in flight, late writers, snapshot gap | NewKeyIsSecret, RotationKeepsData, RotationLeavesNothing hold; 510k |
| rotation_late_create | late writers | RevokedCannotRead violated |
| queue_tabs | 2 engines, 2 commands on one item, serial calls, 1 restart | all hold, 1.4M |
| queue_lost_enqueue | 1 engine, calls overlap | EnqueueIsDurable violated |
| sync_converge | 2 vaults with an item each, pages of 1, 3 events, 1 fault, fairness | SkipsAccounted, CopySpec and Converges hold, 1.1M |
| sync_expired | the same with an empty feed at first, 2 events | SkipsAccounted violated |
| session | timeout of 1 tick, 1 push under way, 1 fault, fairness | all hold, FollowsDesktop and AutoLocks included; 662k |
| session_quit | no faults | QuitFreesUnlock violated in 9 steps |
| session_pushed_lock | no faults | ReadsFailClosed violated in 10 steps |
| codes | 2 requests, all 4 modes, a one-time link, 2 attempts | all hold, no deadlock, 3.2M |

Bounds.

- *idem*: rows meet only in the maintenance batches, so one key suffices for the
  contention; the theorems of section 4 cover more keys and requests, and the
  deployment where handlers outlive their claim.
- *rotation*: three users give an initiator, a victim and a bystander who writes
  or joins; two plans let two rotations of one vault race, and a departure cover
  two vaults; `MaxVersion` 2 or 3 lets a row change before, during and after a
  plan is prepared, and 3 also lets an item be trashed and restored. `MaxJoins` is
  how many adds may be between check and insert: one, or two beside one plan.
  `rotation_policies` has no attachment, `rotation_late` has one.
- *queue*: two commands on one item, one of them sealed, exercise the order within
  an item, rebasing and both conflict treatments; a third engine adds no new kind
  of age difference between memory and document.
- *sync*: one vault that is never lost and one that the user may lose and regain,
  or gain and lose; the latter has an item from the start, the item of the former
  is created later and edited locally. Pages of one item and one event make every page boundary happen;
  the first event is the vault's own, so three events leave two for what happens
  meanwhile. One disturbance is one of: a failed request, an ended stream, a
  restart, a refresh by hand, each at any
  point.
- *session*: `MaxIdle` 1 tells idle from expired; one push under way keeps a stale
  event apart from the answer of a poll; one fault is a lost push, a failed step
  or a recycled worker. `Sessions` is empty, so revocation frames name no session;
  the duplicate suppression by session id is covered by the theorems only.
- *codes*: two requests suffice for a lost update between a SELECT and an UPDATE;
  `MaxCodes` 1 lets two requests that counted before each other's insert exceed
  it; two attempts and a lockout after two failures make the limit, and the step
  before it, happen.

Symmetry permutes plans, vaults and the two users who start alike, engines, and the
requests of *codes*; the runs with liveness properties use none. Deadlock is not
checked where the system may legitimately stop: when the bounded identifiers of
plans, items and commands, or the bounded log, are used up.

Fairness.

- *idem*: handlers that are not cut off proceed (tokio runs them), deadlines pass,
  requests keep arriving (the outbound queue retries), and they are not for ever
  all cut off within the two maintenance statements. The last is strong fairness
  on those statements, since `Abandon` disables them. Nothing is assumed of the
  domain service, the operator or complete.
- *sync_converge*: one weak fairness condition over the client's own steps (it
  reconnects and reads its stream, and a request of catch-up or refresh answers or
  fails). Nothing is assumed of the server, the user or the outbound queue.
- *session*: the startup and polling loop goes on (an interval of the worker whose
  requests have a timeout), a detached `lockAll` ends, time passes and the timer
  fires. Nothing is assumed of the alarm, of pushes or of the popup.

Every property of a passing run is broken by a mutant of the code's logic, kept
beside the definition it mutates (`Reclaim_AnyOverdue`, `Fresh_NoMemberSet`,
`MergedQueue_Resurrects`, `PageDone_ForgetsRequest`, ...).

### What the failing runs show

- **rotation_late_create**: no write carries the key version it was sealed
  under. A member is removed; a client that opened the vault before stores an
  item under the old key. `CONTEXT.md` promises that someone who lost access
  cannot read anything written afterwards. `rotation_policies` shows the
  promise holds when writers use the stored key.
- **queue_lost_enqueue**: adopting a finished write drops a command enqueued
  while it ran, and `enqueue` returns without error, against the test that says
  it resolves only after the command is durable. `queue_tabs` shows the merge
  itself is right when calls do not overlap, and the theorem LossesAlwaysAccounted
  that this and a drain's remembered position are the only ways to lose a command
  when they do.
  The model also shows how: adoption replaces objects that a suspended call
  still holds, so what the call marks afterwards is lost with them, although the
  comment on `adoptReconciledQueue` says references stay aligned.
- **sync_expired**: a client whose first bootstrap met an empty feed stores a
  null cursor. The server answers a request without a cursor with what is left of
  the feed and never demands a refresh, so events that expire while the client is
  away for thirty days are missed, against `CONTEXT.md:265`.
- **session_quit**: after the desktop app has quit, its native host still
  answers, and the adapter turns that into "connected and locked". The check
  before an unlock lets it pass, the keys are stored, the handler answers success,
  and the reducer refuses, against ADR 0004: quitting a wedged desktop app lets
  the extension unlock standalone.
- **session_pushed_lock**: a lock pushed by the desktop app ends the session but
  leaves the cached status, which still says unlocked until the next poll. A handler
  that needs the vault finds it locked, reads that cached status in
  `ensureUnlockedOrRecoverFromDesktop` and takes the session back. The comment of
  `session-manager.ts:16` and ADR 0006 say that reading fails closed; a read does, and
  the recovery that follows it does not.

### Seen while modelling

These were found with other values of the constants, or by stronger forms of the
properties, and are reasons for how the properties above are worded.

- An error of `commit()` is stored and replayed as the outcome although the
  transaction may have taken effect (`items.rs:376`, `http/idempotency.rs:57`), while
  ADR 0013 says that replay "returns the original committed outcome". So
  RecordTruthful and AnswersTruthful speak of the other answers, and a client that is
  told of such an error knows nothing.
- With `SnapshotGap` a row inserted after the snapshot of the finalizing
  transaction does not make the plan stale (ADR 0013), and OneKey fails. A
  departure removes an owner like anyone else (`members.rs:282` expects one).
- A departure may commit between the team check of `add_vault_member` and its insert
  (`members.rs:161`, `181`), which leaves a key row to a user of another team, although
  a departure "includes the required loss-of-access consequences" (`CONTEXT.md:219`).
  DepartureTakesAll therefore speaks of what the departing transaction sees. The table
  has no unique key on vault and user (`migrations/0000_fresh_pandemic.sql:270`), so
  two adds of one user may both insert; that is not modelled.
- EnqueueIsDurable, NotStuckApplying, OnlyServedLeave and SettledStays all fail when
  the calls of one engine overlap (`SerialCallers = FALSE`).
- SkipsAccounted without any one of the ways listed for `missed` in section 2 is
  refuted by TLC, some with up to six events. For instance a share in the middle of an
  answer: the user's vaults
  are read (`sync/mod.rs:115`), a vault is shared and an item of another vault written,
  and the events are read (`144`) with the later of the two and without the earlier.
- A client that restarts with a null stored cursor continues from the cursor of
  the cache's metadata. The removal of an item is skipped while an unsent edit is
  on it and not made up for (`kept`).
- Converges fails without `stranded`: a catch-up that fails under an open stream
  is only logged, and nothing asks for another until the next ping.
- A code can be used again after a failed attempt that had read it before
  (`revived` > 0 is reachable), two codes can be active at once, and more codes
  than the limit can be issued.
- Keys of a refused unlock stay in memory until the next lock (`stray`); a
  recycled worker starts the idle clock anew.

## 4. Proofs

**IdempotencyProofs** proves, for any sets of keys, fingerprints and requests and
any batch size, under `SafeDeployment` (the request timeout is below the claim,
or nobody deletes indeterminate records): type correctness, AtMostOnce,
RecordTruthful, ClaimOwned, and the action properties AnswersTruthful and
IndeterminateIsFinal. The assumption is needed: an operator who finds a claim
timed out and uncommitted while its slow handler is still to commit releases the
key, and a retry commits a second time.

AtMostOnce is not inductive: a second commit is prevented by who owns the row.
The invariant `IInv` adds ClaimOwned (a handler about to execute or complete is
alone for its key and the row is still its own), ClaimInTime (under a short
timeout that row is pending and in time) and CommitsFollow (no row: no commit; a
handler before its service: none; after it: one if it answered `ok`, none if it
answered `fail`, at most one if its commit was not acknowledged). The
maintenance statements preserve it because a batch contains only rows that are
due, which no live handler's row is (completed) or which stay its own
(indeterminate). Each action is one step of the proof of `StepInv`.

**VaultSessionProofs** proves TypeOK, DesktopOwns, KeysFollow and DeadlineArmed for
any settings, timeouts, session ids and bounds, from
`SessionAssumption`. The invariant says that the machine is `Good` (typed, desktop
ownership, key with the local session, timers armed), that keys without a session
are `Accounted` for, and that a worker knows of no desktop and runs no handler
before its startup routine (`ColdStart`). There is one lemma per reducer event, that it takes a
good machine to a good one and emits `clear_keys` when it drops keys; each action
is then a step that cites the lemmas of the events it dispatches.

**VerificationCodesProofs** proves TypeOK, AccessAccounted, ConsumedOnce,
ResetOnce and the action property RevokedStops for any finite set of requests and
any limits, from `BoundsAssumption`. TypeOK is not trivial there: that no more
than `MaxCodes + |Requests| - 1` codes are issued follows from `CodesLimited`, the
codes issued plus the requests about to insert one. AccessAccounted counts
requests in a set; lemmas say how its cardinality moves when one request does.
ConsumedOnce and ResetOnce need more than themselves: `Consumptions` and `Resets`
tie each counter to the current state of the row (an unused code was revived as
often as it was consumed; a reset leaves a code used and without attempts), and `Unspent` says
that a code with no attempts left is used, which is what makes the write of a
stale failed attempt the only way back.

**VaultRotationProofs** proves TypeOK, NewKeyIsSecret, RotationKeepsData,
DepartureTakesAll and RotationLeavesNothing for any vaults, users, rows, plans and
adds in flight, whatever `LateWriters` and `SnapshotGap` are. OneKey and
RevokedCannotRead, which late writers and the gap break, are only model-checked
(`rotation_policies`). NewKeyIsSecret rests on `UnbornKeysUnknown` (the key of a
plan that has not been finalized is in no table and with no user: the key a
finalization installs is new to everyone but the members it wraps it for) and on
`SnapshotPlans` (the plans of one finalization are for different vaults, so no
key is installed twice). RotationKeepsData rests on `ManifestsTrue`: a row that still has the version a
manifest recorded still has that content, so replacing it by the staged
ciphertext of that version undoes nothing. DepartureTakesAll and
RotationLeavesNothing follow from what one finalization does to the roles and rows it
sees, and, for a departure with the gap, from `SnapshotCovers`: a snapshot that names a
departure names every vault the Member had in it, as long as its plans are active. What
a transaction may do to a row
(`RowStep`) and to a vault is stated once; each action is shown to be of that form.

**OutboundQueueProofs** proves, for any commands, engines, items, retry limit and
number of restarts, and without assuming `SerialCallers`: TypeOK, NeverResurrected,
LossesAccounted and LeavesAccounted. NeverResurrected rests on
`AddedUnheard`: a command that is in a memory and was not adopted from the document
is one nobody else has heard of, so a write adds only such commands, and whoever
still has an acknowledged one knows of it and finds that the document has lost it.

The other two say what remains of EnqueueIsDurable and OnlyServedLeave when calls
overlap. The history variable `lost` records a command that a memory drops although the
server has not executed it: in `JobFinish`, one added while an earlier write was in
flight, and in `DrainSplice`, one that stands at the position remembered for another.
Then a returned `enqueue()` misses its command in the document, and a command leaves the
document, only if it is in `served` or in `lost`: the merge of one engine never drops
the command of another. The invariant `AInv` follows a command through the places it may
be in: what an engine knows of, or is about to adopt, is in the document or accounted
for; what it knows of and no longer has in memory is accounted for, hence a write drops
nothing else (`SlotKept`); and a call that awaits its first write has its command in
memory, or it is accounted for already (`CallKept`). Each action is shown to keep both.

**SyncClientProofs** proves TypeOK and the refinement `Spec => CopySpec`, for any
items, vaults, page limits, faults and whether the feed starts empty. The invariant
`Published` says that everything the client holds, has fetched, has staged or has set
aside as a baseline is a version the server has had, and `OpenAlone` that a
transaction under way is alone on its item; each step is then one of the steps of
`VersionedCopy` or leaves server and cache alone (`CopyStep`).

Only model-checked: the liveness properties ClaimResolves, Converges,
FollowsDesktop and AutoLocks, because liveness under fairness is out of reach of the
provers used; OneKey and RevokedCannotRead, and EnqueueIsDurable, NotStuckApplying,
OnlyServedLeave and SettledStays, because they hold only where writers use the stored
key, or calls wait for one another, which the code does not enforce; and
SkipsAccounted. Every other property of a passing run is also a theorem.

## 5. Not modelled

In VaultRotation: sync events, audit rows, billing entitlements, sessions and
the personal team of a departure; conversion and deletion of vaults, account
deletion; keys provisioned through invitations (they act like AddMember with a
late key); two adds of one user into one vault at a time; the check of
`update_vault_member_role` apart from its write; the tombstone purge; object storage and upload reservations. Bulk
import is CreateItem repeated. In OutboundQueue: staged commands, compaction,
clear, conflict copies, retry timers and failing storage writes. In SyncClient:
travel mode, locked accounts, decrypted projections, byte limits of pages and
backoff times. In VaultSession and VerificationCodes: what section 2 names.

Hazards of the code that fall outside the models for these reasons: every answer
of a service is stored under its key, a transient error too
(`http/idempotency.rs:70`); one row under an old key blocks every later rotation
of its vault on the client (`vault-key-rotation.ts:215`); a move leaves
attachments in the source vault (`items.rs:770`) and is announced to the target
vault only (`items.rs:786`); an attachment's object is deleted before its row
(`attachments.rs:530`); the storage write of an enqueue may fail
(`outbound-queue.ts:267`); publishing a ping to Redis may fail after the commit
(`pubsub.rs:93`); travel mode purges before it persists its policy
(`travel-mode-enforcer.ts:137`); a refused unlock leaves its code in a cell only
the next LOCK reads (`machine.ts:187`); a worker may end between `clear_keys` and
`invalidate_session` (`lifecycle-adapter.ts:74`).

Not modelled at all: invitations, sessions and refresh tokens, SRP, billing,
travel mode, object storage, two-account moves (planned, section 6); the HTTP
surface, the waitlist, and the user interfaces (no ordering to check);
cryptographic algorithms and generated code (out of reach, or checked at their
generator).

The repository is large and most of its lines are user interface, importers,
generated types and cryptography. The modules cover the parts in which order,
failure and concurrency decide, not a share of the lines.

## 6. Plan

Done: Idempotency, VaultRotation, OutboundQueue, SyncClient with VersionedCopy,
VaultSession, VerificationCodes. Next:

1. **CommandDelivery**: OutboundQueue, Idempotency and item versions composed,
   shown to implement "each command takes effect at most once, in order per
   item"; what a 409 for an indeterminate record makes the queue do.
2. **Invitations** with the member limit; sessions and refresh tokens;
   attachments with object storage and the jobs that purge; billing webhooks;
   travel mode.
3. In VaultRotation: role changes split into check and write, vault conversion and
   deletion, tombstone purge, liveness of removal.
4. SkipsAccounted as a theorem.
