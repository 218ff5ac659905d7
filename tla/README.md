# AMCore in TLA+

Specifications of the parts of AMCore whose correctness depends on what happens
between two steps: two transactions, two Redis calls, two messages. Every
module is translated from the code under `src/`; TLC checks small instances,
and TLAPS proves the properties that matter most for every value of the
constants. `PROJECT.json` lists the runs, the hazards the properties are for,
the lines of the source behind each definition, and the places where code and
documentation were found to disagree.

1. [The system](#the-system)
2. [How the modules are put together](#how-the-modules-are-put-together)
3. [Modules](#modules)
4. [Runs and bounds](#runs)
5. [Fairness](#fairness)
6. [Proofs](#proofs)
7. [What only TLC checks](#what-only-tlc-checks)
8. [Disagreements with the documentation](#disagreements-with-the-documentation)
9. [Not modelled](#not-modelled)
10. [Plan](#plan)

## The system

AMCore is a NestJS API and worker over Postgres and Redis (`src/apps/api`) with
a Next.js front end and its BFF (`src/apps/web`). Paths below are relative to
`src/apps/api/src/` unless they begin with `src/`. Postgres is the shared
truth: processes meet in its rows, through compare-and-swap updates, row and
advisory locks, leases and unique constraints, all at READ COMMITTED (no code
sets another isolation level). Redis carries caches, locks, counters, queues
and hints, each of which may be lost, late or expired.

| Component | State | Operations | Interacts through | What makes it hard | What makes it correct |
|---|---|---|---|---|---|
| AI runs (`infrastructure/ai/runs`, `core/ai/runs`) | `ai_runs`, steps, usage, tool invocations, a drain loop's memory | submit, claim, attempt, finalize, retry, reap, expire, cancel | rows; lease token CAS | stale workers, crashes, retries | one turn per run, final outcomes, budgets, every run ends |
| AI approvals (`core/ai/approvals`) | approval and invocation rows | park, decide, expire, void | locks on approval and run | decision, expiry, cancel and takeover on one gate | gate and run agree; only approved calls run |
| AI conversation (`core/ai/conversations`, `core/ai/artifacts`) | conversation, messages, artifacts | submit, answer, post, take, release, upload, page | conversation row lock | five transactions append to one transcript | message numbers, keys and bindings are exact; only who has control speaks |
| AI assistants and admission (`core/ai/admin`, `infrastructure/ai`) | assistant versions, audit, model catalogue and its Redis copy | publish, switch, admit, guard, dispatch | rows, cache, releases | everything may change while a run waits | a switched-off assistant starts nothing; tools stay gated |
| Sessions (`core/auth/session.service.ts`) | `sessions` rows of token families | login, validate, rotate, step up, revoke, delete | row locks | two refreshes at once, bulk deletes that miss new rows | one live token per family; a dead family stays dead |
| Accounts (`core/auth`) | user, mailed tokens, cached user | register, log in, reset, verify | rows, Redis | a slow hash between reading and writing | a mailed token sets one password |
| OAuth (`core/auth/oauth`) | state, binding cookie, accounts, tickets | start, link, callback, exchange | Redis, cookies | two browsers, replays, rows created at once | one login per flow, for the linked user |
| Routes and guards (`core/auth/guards`, controllers) | roles, sessions, tokens, keys | every route | the principal | rows change between two guards | a handler runs only for who may ask |
| ACL caches and abilities (`core/auth/*cache*`, `org-acl-version.service.ts`, `core/auth/casl`) | versions and permissions in Redis | read through, invalidate, build rules | Redis | read, invalidate, then store the old value | permissions are never older than their version |
| Organisations (`core/organizations`) | members, roles, permissions, invitations, `aclVersion` | found, add, remove, assign, invite, accept | advisory locks | two removals, two acceptances | an administrator remains; a change moves the version |
| System administration (`core/admin`) | `systemRole`, audit rows | demote, promote, clean up | advisory lock | two administrators demote each other | somebody is administrator; the audit replays |
| Unique names (`core/*`, exception filters) | rows with unique names, foreign keys | look, then write | constraints | a race between look and write | one winner, and losers are told why |
| Notification dispatch (`core/notifications/dispatch`) | deliveries, attempts | claim, call, finalize, reap | lease token CAS | leases outlived by batches, calls that outlive their timer | attempts and delivery agree; bounded sends; every delivery ends |
| Notification producer and feed (`core/notifications`) | notifications, preferences | notify, page, read, archive, retain | idempotency keys, cursors | rows come and go between pages | pages are exact; a replay reports the past |
| Channels (`core/notifications/channels`) | Telegram connections and tokens, webhook receipts, rendered content | link, unlink, render, send, fence | external providers | late refusals, redelivered updates, other releases | only open content leaves; a fresh link is not blocked by an old send |
| Email queue (`infrastructure/email`) | BullMQ jobs | queue, process, retry, dead-letter | BullMQ, provider keys | stalled jobs, timeouts that succeeded, failures told after they are written | one mail per job; one dead letter per failure that ends it |
| Realtime hints (`infrastructure/realtime`, `src/apps/web`) | connections, hints, a tab's data | publish, route, connect, fetch | Redis pub/sub, SSE | lost hints, reconnections, refetches that join the first fetch | a quiet tab is current |
| HTTP idempotency (`infrastructure/idempotency`) | a Redis record per key | reserve, complete, replay | Lua scripts | lock shorter than the handler, timeouts that succeeded | one handler per key; a replay is the first answer |
| Webhooks (`infrastructure/webhooks`) | replay marks | verify, mark, hand on | Redis | redelivery, signed anew or not, Redis outages, clocks ahead | a duplicate is refused while its mark lasts |
| Limiters and throttler (`core/auth/*limiter*`, `infrastructure/throttling`) | counters and blocks in Redis | check, count, reset; one script | Redis | get and set in two calls | nobody is locked out early; the limit is exact |
| Redis locks, singleton crons (`infrastructure/redis`, `infrastructure/schedule`, `core/retention`) | lock keys, due rows | acquire, run, release | Redis TTL, READ COMMITTED batches | lost leases, rows that others delete from a batch | one run while the lock lives; reports are honest |
| Avatar (`core/auth/avatar.service.ts`, `core/media`) | `avatarUrl`, generation, objects | set, remove, sweep | mutex and generation CAS | stale holder, crash between sweep and CAS | the published URL is not swept |
| Object storage (`infrastructure/storage`) | objects | upload, move, delete many, list | drivers | pages of a changing listing, interrupted moves | a listing and a deletion mean what they say |
| Web BFF session vault (`src/apps/web/src/shared/api/bff`) | vault entry, refresh lock | mint, refresh, log out | Redis lock, the API's rotation | a lock lost during a refresh | a logout is final; overlap is not reuse |
| API keys, audit log, queue, health, shared schemas | | | | mostly one-row or I/O | modelled where another component meets them |
| Web UI | | | | rendering | not modelled |

## How the modules are put together

`AiRun`, `SessionRotation` and `NotificationDelivery` are large and have runs,
MC modules and proofs of their own; `RealtimeStream` has a run of its own
because it has a liveness property. The other components are small and share
three runs: `AccessMC` (who may do what), `RequestsMC` (what surrounds a
handler) and `BackgroundMC` (what works behind the requests) each EXTEND their
components, whose names therefore do not clash. The components of one union
share no state. A behaviour chooses a `focus` and moves only that component, so
the states of the run are the sum of the components' states and not their
product; the view `MovingState` leaves out the ones that stand still. The three
modules hold the conjunctions a run names (`RacesAreSettled`, `InboundIsOnce`,
`LimitsAreFair`, `StorageIsSound`, `NotificationsAreSound`, `AssistantIsSound`)
and the instances: four components are checked twice, as `OrganizationNext` and
`MembershipNext` (without custom roles, with longer histories), `CleanupNext`
and `BatchesNext` (the clean-up over two tables, and the retention with several
batches of one table at a time), `ChannelsNext` and `RetriesNext` (one
definition and one link, with longer waits), and `AssistantNext` and
`EditingNext` (shorter runs, with longer histories). Each of these is the
module's own next-state relation under a guard.

A step is what one process does between two awaits: a statement or a
transaction, a Redis call, a call of a provider. Where the result of a call
may be lost, the call and its answer are two steps. History variables (named
as such in their modules) guard no action.

## Modules

### AiRun, AiRunContract, AiRunMC, AiRunProofs, AiRunToolProofs

`AiRun` is one conversation, the runs queued on it, any number of drain loops,
the owner, operators, the two sweeps and time.

* `run` is an `ai_runs` row with the counts that its committed steps, ledger
  rows and transcript turns amount to; `inv` is the run's tool invocations in
  creation order, each with its approval; `conv` the holder and the ownership
  generation; `worker` what a drain loop holds in memory (where it stands, the
  claim in hand, the rest of the batch, its local call counter); `cancel` how
  far the owner's cancel request has got.
* One action is one transaction or one in-memory step between two awaits.
  `Create` is the producer; `ClaimDueBatch`, `ReapExpiredLease` and
  `ExpireDeadlinedRun` the repository; `PreflightRun`, `PreflightFence` and
  `PreflightInputs` the three stages of the preflight; `Resume` to `FailRun`
  the bounded tool loop, its finalizers and the tool dispatcher; `Decide` and
  `ExpireApproval` the approvals; `Cancel` to `CancelRunning` the separate
  statements of a cancellation; `TakeControl` and `ReleaseControl` the
  conversation. `Abandon` is a transaction fault that the code catches,
  `Crash` one that it does not, or the death of the process.
* `Cas` is `updateMany` on (id, RUNNING, lease token): it changes nothing when
  the lease is lost. `Stale` is `isBotOwnershipStale`.

Decisions worth knowing:

* The lease token is the drain loop's name. A fresh token per claim would add
  nothing: a loop claims only when its batch is finished or dropped, so it
  never holds two claims on one run. A crash drops the batch, and the crashed
  loop's name then stands for its successor.
* Backoff and `availableAt` are abstracted to "claimable at some later time";
  `SKIP LOCKED` to "any non-empty subset of the due rows up to the limit".
* A takeover is one action because its conversation lock blocks the producer,
  the park and every fenced write until it commits. A rollback on a stale
  fence and the `finalizeSuperseded` that follows are one action.
* `deadlineAt` is never written by code under `src/` outside tests, so the set
  of runs that carry one is the constant `Deadlined`.
* A human holder stands for PAUSED_FOR_HUMAN; no code sets CLOSED. Artifacts,
  the kill switch and message contents are in the two modules below.
* The loop counts its model calls when it starts and then in memory. Two
  overlapping loops therefore exceed `MaxSteps` together; `StepBudget` says by
  how much: one call for every other drain loop.
* A verdict "flag and block" of the input guard records no GUARDRAIL_CHECK
  step, and a refused or blocked answer writes neither a PROVIDER_CALL step nor
  a ledger row; `steps` and the ledger count what the code writes.

`AiRunContract` is what the subsystem promises the conversation with leases,
retries, tools and approvals hidden: a run ends once, speaks at most once, and
speaks only while the bot has held the conversation ever since the run was
submitted. `Contract` in `AiRun` is the refinement mapping; an ended run with a
turn under the wrong status maps to an outcome the contract does not have.

### AiConversation, AiAdmission (BackgroundMC)

`AiConversation` is the transcript. Its five transactions (submission, answer,
operator message, takeover, release) each lock the conversation row (`Lock`),
decide (`DecideCall`) and write (`WriteCall`), and others run in between; the
lock is the only thing that keeps message numbers, idempotency keys, artifact
bindings and the holder in step (`NobodyCollides`, `SpeakersHadControl`,
`ArtifactsStayBound`, `TranscriptIsReadOnce`). An artifact whose upload dies
after the object is stored leaves an object without a row.

`AiAdmission` is what a run may use: an assistant's versions and the audit
trail of their changes, the catalogue behind its Redis copy, and the gates of
one attempt (kill switch, input guard, model selection, vision, output guard,
tool class by the release at work, approval). Workers of two releases take
turns. A run uses the catalogue's row of the moment and not a snapshot of it;
`AiModelRegistry.invalidate` has no caller, so an edited model is used until
its copy expires (`CopyGoes`).

### SessionRotation, SessionRotationMC, SessionRotationProofs

The session rows of one user. A family is named by its first row; `lastAuthAt`
is the number of the login or step-up that set it. A rotation is four steps
(guard, read, compare-and-swap, insert and commit); from the CAS to the commit
it holds the row's lock (`Locked`), and anything that wants the row waits and
re-tests it. A bulk statement is a snapshot and an apply: it locks and re-tests
what it saw and does not see rows inserted since. The apply is one action
because the locks it takes are held until it commits. A rotation that throws
leaves nothing behind, the revocations it wrote on its own transaction
included. A client may present any token it was ever given.

### Accounts, OAuthLogin, SystemRoles, NameRaces, Organization, Authorization, Ability (AccessMC)

* `Accounts`: one e-mail address. A request reads, hashes for a while, and
  writes; passwords are named by the order in which they were set, so a
  session shows which password it was opened with. The cached copy of the user
  in Redis is filled in two steps (`FetchUser`, `CacheUser`).
* `OAuthLogin`: a flow is named by its state. The provider may answer with any
  identity and address; a callback finds or creates rows in the statements the
  code uses, and the ticket is consumed once. The client secret of the Apple
  provider is cached for the process's life and is left out.
* `SystemRoles`: the guard compares the role a token claims with the row, the
  change runs under the advisory lock, re-reads the actor, updates, writes the
  audit row and revokes the target's sessions.
* `NameRaces`: look-then-write requests and the exception filters' answers. A
  loser on a foreign key is answered 400 where one that came later is answered
  403 or 404 (`member.service.ts:78`, `role.service.ts:205`). `updateProfile`
  (`auth.service.ts:392`) also reads before it writes, so that two identical
  requests both notify; it has no constraint to lose to and is left out.
* `Organization`: members, roles, permissions, the invitations of one address
  and the ACL version. What one transaction writes is one step, predicated on
  the rows it names.
* `Authorization`: a request's way through API-key guard, version cache,
  permission cache with its lock, and both fallbacks, beside mutations that
  commit first and invalidate later. The permissions of the database are named
  by the version, because `AclCoversChange` of `Organization` says that every
  change moves it.
* `Ability`: permissions cut to the scopes of a key, as rules of which the last
  match decides.

### Routes, Idempotency, InboundWebhooks, TelegramLink, AttemptLimiter, Throttling, SessionVault (RequestsMC)

* `Routes`: every route with what its decorators ask, the global guard and the
  guards of the route in their order, beside roles, sessions, step-ups, tokens
  and keys that change between two of them. `known` is what was true of the
  account at some moment of the request.
* `Idempotency`: one scope and key. `ReserveScript` and `CompleteScript` are
  the Lua scripts; a client-side timeout (`ReserveFails`, `ScriptLost`) may
  come before, after or instead of them.
* `InboundWebhooks`: deliveries of events to one provider's guard. A delivery
  may carry any stamp the verifier accepts, on either side of the clock
  (`TimestampAllowed`); the sender may repeat a request or sign its event anew.
  `Verify`, the `SET NX EX` of the mark (`MarkFirst`) and the arrival of its
  reply (`Reply`) are three steps, between which time passes, but no more than
  `Lag`, the guard's own timeout. A guard that gives up, because Redis failed
  or was slow, lets its event through (`LetThrough`), and its `SET` may be
  executed before that, later (`LateMark`) or never; such a delivery leaves the
  model, because nothing was promised about it. The mark is set before the
  handler runs (`webhook.guard.ts:45`). Nothing is assumed of its lifetime:
  `DuplicateIsCaught` says how far apart two checked deliveries of one event
  are, and `LongMarksSuffice` from which lifetime on no request passes twice;
  the default is shorter, and `DuplicateIsRefused` is violated for it.
  Redis keeps a mark until it expires: a restart or an eviction that drops it
  is left out. `TelegramLink` is a guard of its own and relies on its receipts.
* `TelegramLink`: link tokens and the webhook transaction with its receipt.
* `AttemptLimiter`: the four limiters that get a counter and set it in two
  calls; a behaviour follows one of them. The comment that the invite limiter's
  budget is "consumed atomically" (`invite-rate-limiter.ts:37`) is not true.
* `Throttling`: the Lua script, against the clock of Redis.
* `SessionVault`: a login mints the entry, any request may refresh it under the
  lease, a logout reads, calls the backend and deletes. The tokens' numbers are
  the order in which the backend gave them out. A lost reply makes the next
  refresh a reuse at the backend; a logout that races a refresh may leave the
  backend's session without a browser; a slow holder's delete may remove the
  entry of another. `troubles` bounds these.

### NotificationDelivery, DeliveryContract, NotificationDeliveryMC, NotificationDeliveryProofs

The deliveries of one user's notifications to Telegram. `delivery` and
`attempt` are the two tables; a claim carries its attempt number as
`ClaimedDelivery` does. `Deliver` calls the Bot API without looking at lease
or connection; `Timeout` is the ten-second race of `deliverWithTimeout`, whose
call goes on as an `orphan` and may still run `fenceConnection` (`LateFence`).
`FinalizeInTx` closes delivery and attempt together or not at all. `Link` is a
webhook bind, which cancels and deletes the old connection and inserts a new
id; `Unlink` the same without the insert. The producer reads the connection in
one statement (`NotifyRead`) and inserts in a later one (`NotifyWrite`).
One chat is enough: a relink of the same chat is the case the fence is for.
The lease token is the drain loop's name, for the reason given above. Every
connection is the same user's; the Bot API is external and answers anything.

`DeliveryContract` is what the dispatch promises of a delivery without its
leases, batches and connections: at most `MaxAttempts` tries while it is open,
at most one message for each try, which may go out after the delivery has
ended, one ending, and `DELIVERED` only after a message. The refinement shows
`PENDING`, `PROCESSING` and `RETRY_SCHEDULED` as `OPEN`. One step may move
several deliveries (a batch, an unlink), so the contract speaks of each.

### NotificationFeed, ChannelDelivery, EmailDelivery, Avatar, SingletonCron, ObjectStorage (BackgroundMC)

* `NotificationFeed`: `notify` reads the preferences (`BuildPlan`) and writes
  rows (`Write`); a client follows the cursor of the feed while rows are read,
  archived and retained.
* `ChannelDelivery`: one delivery. `Compose` renders with the definition the
  worker's release has; `MailAnswered` and `BotAnswered` are the taxonomy of
  answers; `FenceStep` the fence. External deliverers ignore the stored
  `schemaVersion`. A provider key that is used again with other content is
  refused by the mail provider, and the delivery fails though its mail went
  out. A relay that answers 403 fences a healthy link, as a refusal would.
* `EmailDelivery`: BullMQ redelivers a job whose worker stalls, while the
  first worker's request may still be under way; the provider drops a second
  mail with the same key while it remembers it. A failure is two steps.
  `FailJob` moves the job in Redis, if the worker still has its lock; the
  worker hears of that (`mailer.step` is `retrying` or `ended`) or loses the
  answer. Then `OnFailed` runs in the worker, decides by the copy of the job it
  took at its start, and raises the dead letter (`Terminal`). A worker that
  dies in between, or never has the answer, loses the event: `unheard` is a
  history variable that counts those. A job that stalls once too often is not
  failed where it stalls: it is `doomed`, goes back to the queue, and the next
  worker fails it without processing it, along the same path. A job that is
  delayed before its retry is a waiting one, taken at some later time.
* `Avatar`: `AcquireMutex` gives a lease that may expire at any time; the
  fence is the generation of the users row, read after the mutex and compared
  by `Publish` and `ClearAvatar`.
* `SingletonCron`: the clean-up and the retention job under a lock that is
  never renewed, and the administrator's clean-up without it. A batch of the
  retention is a subselect that picks rows (`SelectBatch`) and a delete that
  finds those of them nobody else has deleted since (`DeleteBatch`), which is
  what `DELETE ... WHERE id IN (SELECT ... LIMIT n)` does at READ COMMITTED.
  Rows go by another run, by the cascade from notifications to deliveries to
  attempts, or by a user (`RowsLeave`), so a batch may be short while due rows
  are left, and the loop takes it for the last one. `beaten` is the history of
  the tables where that happened and `owed` that of the rows a run was to
  delete; `ReportIsHonest` excuses what is left only in those tables, and
  beyond the cycles. Each table of the retention stands for one of its
  deletions; two of them have the cascade between them.
* `ObjectStorage`: the operations of the drivers step by step. Listing the
  local driver fails when a file vanishes under it
  (`local-storage.provider.ts:224`), and a move loses an upload made between
  its copy and its delete: `doomed` counts that upload.

### RealtimeStream, RealtimeStreamProofs

A change publishes a hint, Redis carries it, a subscriber routes it to the
user's connections, a tab answers every hint and every connection with an
invalidation of its queries. A version number stands for the data. The hub
refuses a connection over its capacity with 429 or 503, after which, as after a
401, `EventSource` gives up. The AI stream attaches its close listener after an
await (`ai-run-stream.controller.ts:77`). `notifyTx` publishes no hint. Tabs
meet only through the hub's capacity, so the run has one.

The tab's query is TanStack's. It fetches on mount, beside the stream that is
being opened, unless it has fresh data (`Mount`; a run's query may have been
seeded by its creation, `Blank`). `Invalidate` starts a fetch under way over if
the query has data, and otherwise joins the first fetch (`Joined`), which may
have read before the change: `swallowed` is the history of that case. It is
what `QuietTabIsCurrent` has to except, what violates `SubscribedIsCurrent`,
the documentation's promise, and what `TabCatchesUp` says is made up for by the
next connection. Refetches on focus and retries of a failed fetch are left out: they
only make a tab fresher.

## Runs

Deadlock is not checked in any run: the bounds on rows, generations, links and
clocks end every behaviour, and the users may simply stop.

| Run | Shows | Instance |
|---|---|---|
| `AiRunOverlap` | types, attempt and step budgets, gates, one turn, approved calls, final outcomes, the contract | 1 run, 2 drain loops, owner and operator, 2 attempts, 2 calls, 2 invocations, 2 takeovers or releases; 829 thousand states |
| `AiRunBatch` | `AppliedOnce`: a call leaves one result step, and a completed run leaves no approved call undone | 2 runs in one batch of 1 loop, one with a deadline, 1 invocation; 2.0 million states |
| `AiRunLive` | every submitted run ends | 1 run with a deadline, 2 loops; 389 thousand states |
| `AiRunApproved` | violation: an approved call is passed over | 1 run, 2 loops, 3 calls, 2 invocations |
| `SessionRotation` | one live row, window never renewed, dead families | 2 requests, 3 rows, 2 logins or step-ups; 675 thousand states |
| `SessionReuse` | violation: a detected reuse does not sign out | the same, smaller |
| `NotificationDelivery` | attempt history, send budget, fence, the contract | 2 deliveries in a batch of 2, 2 loops, 2 attempts, 2 links; 4.7 million states |
| `NotificationLive` | every delivery ends | 1 delivery, 2 loops, 3 attempts, 3 links; 165 thousand states |
| `Access` | organisation, caches, abilities, accounts, OAuth, system roles, unique names | 2 requests, 2 users each; 2.2 million states |
| `Requests` | guards, idempotency, webhooks, linking, limiters, throttler, vault | 2 or 3 requests each; webhooks with 3 deliveries, stamps on both sides of the clock, a mark as long as the tolerance; 2.2 million states |
| `Background` | avatar, crons, storage, feed, e-mail, channels, transcript, admission | 2 or 3 workers each; 2 rows due at once, batches of 1, 2 cycles; 2.6 million states |
| `RealtimeStream` | a quiet tab is current, and catches up | 1 tab, 3 changes, 1 lost hint or fetch; 60 thousand states |

Why the bounds are enough. Two drain loops are what a stale worker and its
successor need; a third would repeat the successor. Two attempts give a first
claim, one reclaim and the exhausted case; an approved decision gives one back,
so a run may be claimed more often than that. Two calls and two invocations
give a gated call after a safe one and the exhausted loop. Two generations are
a takeover and a release, after which the generation differs although the
holder is the bot again. Two requests and three rows hold a family of two
beside another, or a chain of two rotations. `AppliedOnce` is checked with one
drain loop only: two overlapping loops may both commit the same tool call,
which the code accepts (it is keyed by the invocation id alone), so the
property is about crashes and reclaims. In the shared runs two requests give
every race of the code, which are all between a read and a write of one other;
the vault and the idempotency key have a third request, which comes after a
race is over, and the webhooks a third delivery beside two that were handed
over; the avatar has a third operation, because a stale sweeper needs two
successors. With batches of one row a batch that another run or the cascade has
emptied is short while the second due row is left, and two cycles are one too
few for a row that becomes due meanwhile. Symmetry under permutations of interchangeable loops or
requests is used in safety runs only.

The counters `execs` and `steps` of `AiRun` tell none, one and several apart.
`MaxInv`, `MaxGen`, `MaxRows`, `MaxActs`, `MaxLinks` and the constants marked
"bound" in the modules bound the instance; `Room` keeps a slot for every
request that will need one, so that a bound never stops a request half-way.
Each of these bounds is a guard on what the environment starts.

## Fairness

Only the liveness runs assume any. `AiRunLive` and `NotificationLive`: a drain
loop is weakly fair as a whole (`ClaimDueBatch` or a step of its attempt;
`Process`): the wake jobs and the 30-second crons run on every worker replica,
a replica that dies is started again, and provider calls are bounded by a
timer. The passing of a lease, of a deadline's consequences and of an
approval's TTL is weakly fair: time passes. The reaper and the two sweeps are
weakly fair: crons. Nothing is assumed of users, of the provider's answers or
of faults: a loop may crash any number of times, and the attempt budget is
what ends the run.

`RealtimeStream`: Redis, the subscriber, the server's answers, the expiry of a
token and the browser's reading and reconnecting are weakly fair, because each
is an event loop's next turn or a timer. A tab's fetches are strongly fair: an
invalidation may start one over, but a fetch takes a moment and the stream
that brings the hints lives for minutes.
The property is about a tab that keeps its stream and a user whose changes
end; a hint that is lost is made up for by the reconnection the token's expiry
forces at the latest.

## Proofs

The constants are only assumed to be what the modules' named assumptions say,
so the theorems hold for any number of runs, loops, requests, rows and
attempts, and for any value of the bounds.

`AiRunProofs`. The inductive invariant is

    IInv == TypeOK /\ AttemptBudget /\ ParkedGate /\ ExactlyOneTurn /\ Unborn /\ InHand

`Unborn` (a run that was never submitted has no attempts, turns or
invocations) and `InHand` (a loop works only on submitted runs, and on an
invocation of that run) are what the four properties need beside themselves.
No fact ties a loop's memory to the lease, because the code keeps
none: the CAS is re-evaluated in each step. Every step of the system does to
each run one of nine things: it stays, is submitted, claimed, re-queued, closed,
speaks, parks, is decided or is voided. One lemma per action says which, and
the four invariants, the action property and the step simulation of the contract are
then each proved once per move instead of once per action. Proved:
`TypeCorrect`, `AttemptBudgetHolds`, `ParkedGateHolds`, `ExactlyOneTurnHolds`,
`TerminalIsForeverHolds`, and `RunsImplementContract`, the refinement.

`AiRunToolProofs` adds three invariants over the same steps. `ToolInv` says that
an invocation a loop is about to execute is either safe or has an approval
that was granted, whatever became of the run since (`ApprovedOnlyHolds`); the
hard case is a decision made between two statements of a stale loop.
`CallInv` says that the calls of a run are paid for: every call beyond those
the owner of the lease counted belongs to another loop that has one in hand
(`StepBudgetHolds`; the set of loops has to be finite). `OnceInv` is about one
drain loop (`OneDrainLoop`): a run has at most one open invocation, which is
its newest; what the loop holds is open and not yet applied; and a loop that
asks the provider has left none open. From it follows `AppliedOnceHolds`, for
any number of runs in a batch, of crashes and of reclaims.

`SessionRotationProofs`. The invariant adds to the types and the two
properties: rows are sound (a family is a row, created no later than its
members), times are no later than the clock, a request that will insert holds
the lock of a live row of its family, and no two requests hold one lock. The
last two are the point: `OneLivePerFamily` is not inductive, because the insert
relies on a test made earlier, and only the lock held in between keeps that
test true. Proved: `SessionTypeCorrect`, `OneLivePerFamilyHolds`,
`NeverRenewedHolds`, `DeadFamilyStaysDeadHolds`.

`NotificationDeliveryProofs`. `HandSound` says what a loop knows of the
deliveries in its batch: while the lease is its own, the attempt number in hand
is the current one and its attempt row is open; `HeldOnce`, that a delivery is
at most once in a batch; `Paid`, that a delivery has been sent no more often
than attempts were counted, less one for a claim that was not yet sent. Proved:
`TypeCorrect`, `HistoryIsTrue` (`AttemptHistory`), `OnlyRefusedIsBlocked`,
`SendsAreBudgeted`, `TerminalStays`, and `DeliveriesKeepContract`, the
refinement: every step of the module does to each delivery what `Move` lists
(nothing, a claim, a call, a release, a cancel, an insert), and each of those
is a move of `DeliveryContract` or cannot be seen there.

`RealtimeStreamProofs`. `StreamInv` says of every tab with an open stream that
the server has its subscription registered, and that the tab is served: it
shows the present version, or fetches it, or a hint for it is still somewhere
between Postgres and its next fetch; or something of its own was lost, or its
last invalidation was swallowed by the first fetch. `QuietTabHolds` is the case
in which nothing is under way. The hard steps are the opening of a stream (the
subscription comes before the snapshot), an invalidation that meets a fetch
(`InvalidateServes`: whichever of the two cases it is), and a full buffer,
which drops the connection instead of the hint.

`RequestsProofs`, one inductive invariant for each component of the run:

* `RoutesInv`: what a request has learnt when it is between two guards
  (`RequestFits`); with it, a lemma over the table of all routes
  (`RoutesAreMarked`), because a guard only looks at what a route is marked
  with (`RoutesHold`).
* `IdemInv`: `StartsArePaid` counts the handlers that have been started and the
  tickets of those that may yet start against the records that have lapsed;
  what is left is who owns the reservation (`KeyRunsOnceHolds`).
* `HookInv`: a delivery that set the mark of its event is covered by a mark that
  lasts `MarkTtl` from there, and set it within the tolerance of its stamp and
  the wait for Redis; hence two that set it are further apart than the mark
  lasts (`DuplicateHolds`), which one signed request cannot be if the mark lasts
  twice the tolerance and the wait (`LongMarksSuffice`).
* `LinkInv`: two open transactions hold different tokens and different chats,
  which is what their row locks are for (`LinksHold`).
* `LimiterInv`: a counter, with what is still to be added to it, is at most the
  attempts made; a set that overwrites a reset or another set can only lower
  it (`LockoutHolds`). `ThrottleInv` relates the ends of window and block
  (`ThrottleHolds`).
* `VaultInv`: for any number of troubles, an entry that a logout or a 401 has
  deleted is never written back; and for none, at most one request is engaged
  with the backend, and the token in the vault, or in the hand of that request,
  is the newest (`VaultHolds`).

`AccessProofs`:

* `AuthInv`: no cache is ahead of the database, what is cached for a version is
  at least as new, and so is what a request carries from one step to the next
  (`AuthorizationHolds`).
* `SrInv`: between its check and its commit a change holds the lock, and what
  it has read still holds (`AdminsAndAuditHolds`).
* `AcctInv`: the passwords that were set are paid for by the tokens that are
  used (`ResetTokenOnceHolds`).
* `OrgInv`: a removal that has counted the administrators leaves one, an upsert
  is right about the invitation it found, and each holds its lock
  (`OrganizationHolds`, with the two action properties of that definition).
* `NrInv`: the constraints of the tables, and for each request in flight what
  it may still be told (`RacesHold`).
* `OaInv`: flows, tickets and sessions fit each other, and two requests never
  hold one flow or one ticket (`OAuthHolds`).
* `AbilityInv` is small; the theorem rests on a lemma about the rules: the last
  rule that matches, in the order of scope first and permission second, decides
  as the last permission does, for lists of any length (`KeyHolds`).

`BackgroundProofs`:

* `CronInv`: who runs under a lock that has not been overrun holds it; a batch
  that is short has picked every owed row of its table that is left, so what a
  table that is done still owes was left by the cycles or by a batch others
  took rows from (`CronHolds`).
* `AvatarInv`: every generation belongs to one operation; what a sweeper is
  about to delete is older than its own generation; an image that is gone was
  swept for a later one (`AvatarHolds`). The mutex is not used at all: the
  proof shows that the generation is enough.
* `StorageInv`: what a listing has named up to its token, what a deletion still
  owes, and which objects a move has in its hand (`StorageHolds`).
* `FeedInv`: a client has had each row behind its cursor once and none before
  it (`FeedHolds`); a page of a feed of any size needs an induction over finite
  orders (`LastOfOrder`).
* `EmailInv`: all requests for one mail carry one key; while a worker holds the
  lock of its job, the attempt in its copy is the one Redis will count, so that
  `Terminal`, evaluated after the lock is gone, still decides as Redis did; and
  the failures that ended a job are the events raised, the workers about to
  raise one, and those lost (`EmailHolds`).
* `DeliveryInv`: what a worker holds of a delivery, under one key
  (`DeliveryHolds`).
* `TalkInv`: what a transaction decided under the conversation's lock still
  stands when it writes (`TalkHolds`).
* `AdmissionInv`: what a run was bound to and has been told, and for each
  version the entry that published it and the entry that is its last
  (`AdmissionHolds`).

The components of one run share no variable, so a step of the run is a step of
each component or leaves it alone (`RequestsCompose`, `AccessCompose`,
`BackgroundCompose`). With them the conjunctions that the runs name follow for
the composed specifications: `RequestsTypesHold`, `InboundHolds`, `LimitsHold`;
`AccessTypesHold`, `OrganizationStaysSound`, `RacesSettle`;
`BackgroundTypesHold`, `SingletonHolds`, `StorageSound`, `NotificationsSound`,
`AssistantSound`. The theorems named after a component are about that
component's own specification, and the same lemmas carry them over.

What the proofs assume of the constants, beyond their types: sets of requests,
workers and rows are finite where a property counts them; limits, page sizes
and budgets are positive; a model value that stands for "none" is none of the
others. Two theorems have a hypothesis on the instance: `AppliedOnceHolds` has
`OneDrainLoop` (with two loops its property is not claimed, see [Runs](#runs)),
and `LongMarksSuffice` a lifetime of the mark that the default does not have.

## What only TLC checks

* Liveness: `EveryRunEnds`, `EveryDeliveryEnds` and `TabCatchesUp` need
  fairness and `ENABLED`, which the provers do not have. `QuietTabHolds` and
  the budgets are the safety part of them.
* The violations of `SessionReuse` and `AiRunApproved`, and those of the
  promises the documentation makes: a counterexample is found, not proved.
* That a property depends on the code as it is: `PROJECT.json` lists for each
  one a plausible slip (the definitions marked "Slip" in the modules) under
  which its run fails.

Every other property of a passing run is proved for every value of the
constants that the named assumptions allow.

## Disagreements with the documentation

`PROJECT.json` lists each with its line and the sentence it departs from. Two
have a run: `ReuseSignsOut` (`SessionReuse`) and `ApprovedIsApplied`
(`AiRunApproved`). The others are kept as definitions of their modules, without
a run of their own; checked as an invariant or a property of the run of their
module, each is violated: `NoQueuedRunUnderHuman`, `CancelLands` (`AiRun`),
`ResetSignsOut`, `StepUpSurvives` (`SessionRotation`), `NoClaimAfterUnlink`
(`NotificationDelivery`), `ConflictMeansInFlight` (`Idempotency`),
`TakenEmailIsNamed` (`NameRaces`), `NextRequestIsFresh` (`Authorization`),
`OldLinkIsDead`, `NoOrphanPermission` (`Organization`), `VerifiedCopyIsFresh`,
`OldSessionsAreGone` (`Accounts`), `FeedIsInAppOnly` (`NotificationFeed`),
`SwitchIsNamed` (`AiAdmission`), `SubscribedIsCurrent` (`RealtimeStream`),
`DuplicateIsRefused` (`InboundWebhooks`). Two are read off the code and need no model:
the renderer for older schema versions that the exact match cannot have
(`docs/notifications/README.md:105`), and the step budget of overlapping loops.
`TokenNeedsSession` (`Routes`) is violated as well
(`organizations.controller.ts:199` against `docs/auth/concepts.md:97`).

## Not modelled

The web UI's rendering; templates, wording and localisation; metric names and
logs; pixel processing; paging of lists other than the transcript, the feed and
the storage listing (the admin lists order by `createdAt` alone); the SMTP and
provider protocols, which answer anything; creation and listing of API keys,
device lists and preferences read by nobody else: single-row writes and reads.

## Plan

Done: every component of the table above, but for the last two rows, as a
module with a run, and every safety property of the runs as a theorem.

What is left, in the order of its worth:

1. `SessionRotation` and `SessionVault` share the backend's rotation:
   `SessionVault` uses an abstraction of it (tokens in the order they were
   given out). A refinement mapping from `SessionRotation` would justify it.
2. The creation of API keys and the lists of devices and sessions, which are
   single-row today.
