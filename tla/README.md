# Verification of Wise Hub

Wise Hub votes on the Steem blockchain on behalf of *delegators*. A delegator publishes rulesets for a
*voter*; the voter publishes *voteorders*; the hub's daemon reads both from the chain, checks each
voteorder against the rules in force, and has the vote and its confirmation published through
Steemconnect with the delegator's token. This directory holds TLA+ models of that machinery, the
TLC configurations that check them on small instances, and TLAPS proofs of the results that should
hold for every value of the parameters.

Line references are to files below `src/backend/src/` unless they say otherwise.

## 1. Inventory

| Component | State | Operations | Talks to |
|---|---|---|---|
| Publisher queue (`publisher/queue/PublisherQueueImpl.ts`, `RedisDualQueueImpl.ts`) | two Redis lists, *waiting* and *processing* | schedule, take, finish, reset | Redis, over the connection shared with the heartbeat |
| Consumer (`publisher/queue/BlockingQueueConsumerImpl.ts`) | the flag `running`, the position of its loop, one spawned run per item | start, stop, loop, run | callbacks wired in `publisher/index.ts` |
| Broadcaster (`publisher/broadcaster/BroadcasterImpl.ts`) | the number of tries of each run | broadcast with retries | `UsersManager.broadcast`, `Steemconnect` |
| Daemon (`daemon/Daemon.ts`, `DaemonManager.ts`, `rules/*`) | Redis: rules per delegator and voter, `last_processed_block`, `rules_loaded_up_to_block`; memory: voteorders being validated, retry timers | start, preload, process block, save rules, handle voteorder, push job, stop | Steem, wiseSQL, Redis, the publisher queue |
| Delegator list (`lib/DelegatorManager.ts`) | a set in Redis, a cached copy, timers | add, remove, reload, subscribe | Redis set and channel |
| Users and tokens (`lib/UsersManager.ts`, `api/auth/AuthManager.ts`, `api/routes/UserRoutes.ts`) | Vault: profile, access token, refresh token per user | login, refresh, broadcast, forget, save settings | Vault, Steemconnect, delegator list |
| Vault client (`lib/vault/Vault.ts`, `lib/AppRole.ts`) | the session token and the timer of its renewal | login with retries, renew, log in again, call | Vault |
| Logs (`publisher/log/*`, `daemon/DaemonLog.ts`, `WiseOperationsLog.ts`) | capped Redis lists, a channel | emit, preload | Redis, realtime server |
| Heartbeats and watchdogs (`lib/heartbeat/*`, `*/Watchdogs.ts`) | a Redis key with a TTL per service | beat, isAlive | Docker health check, status route |
| Realtime server (`realtime/index.ts`) | socket.io rooms | forward, join, beat | Redis channel, browsers |
| API (`api/app.ts`, `api/routes/*`) | the start of the process, sessions | start, status and its verdict, log routes, publication of rulesets; other routes only read | all of the above |
| Rulesets store (`src/wise-hub-frontend/src/store/modules/rulesets/*`) | rulesets and their backup copy, what is edited, loaded, saved | load, edit, add, delete, revert, save | API, wiseSQL |
| Status, auth and realtime stores (`.../store/modules/{status,auth,realtime}/*`) | account, settings, statistics, history and its socket | get user, save settings, log out, load statistics, append messages | API, wiseSQL, realtime server |
| Components (`.../components/**`) | the open page, the settings panel, the editors of rules, the form for a ruleset, the daemon log | click, type, open a page | the stores |
| Monitoring, deployment (`src/monitoring`, `src/stack`) | - | probes, configuration | - |

What is hard in this code, and where, is the list `hazards` of `PROJECT.json`. In short:

- **The publisher** may die at any point; what it had taken must be found again, in order, without
  stranding entries. Its LREM commands queue behind a blocking BRPOPLPUSH on the same connection.
  A broadcast whose answer is lost is repeated. LREM removes all equal entries at once.
- **The daemon** awaits none of its callbacks: saved rules, rule lookups and the records of progress
  are ordered by nothing but the FIFO of one Redis connection. Progress is recorded while
  voteorders are still being validated in memory. The preload depends on a wiseSQL that lags.
- **Users and tokens** live in three places (two Vault secrets and a Redis set) that are read and written
  without any mutual exclusion by two services.
- **The session with Vault** is kept by a chain of timers and calls in which each step just sets up the next; calls
  have no timeout, and a token that expires between two renewals is not replaced.
- **The logs** are written by commands of several emissions that interleave, read by one request and continued by
  a socket, without anything that fits the two together.
- **The frontend stores** receive answers for questions that may no longer be the current ones, mark as saved what is on
  the page when an answer comes, and validate a mutation after it was made.

## 2. Modules

| Module | Models |
|---|---|
| `RedisDualQueue` | the list commands LPUSH, (B)RPOPLPUSH and LREM as functions on sequences |
| `JobDelivery` | abstract: what the publisher promises the daemon |
| `Publisher` | dual queue + consumer + broadcaster as wired in `publisher/index.ts`; implements `JobDelivery` |
| `BlockingQueueConsumer` | the generic consumer with `start` and `stop` called in any order |
| `Daemon` | daemon, manager, rules manager |
| `Delegators` | `DelegatorManager` with its reloads, subscription and timers |
| `Users` | `UsersManager`, `AuthManager`, settings route: concurrent requests over Vault and Redis |
| `VaultSession`, `Health` | the session with Vault in time; `Health` extends it with heartbeats and the status route |
| `DaemonLog`, `LiveLog` | the logs in Redis and the realtime server; `LiveLog` extends it with the two views of a browser tab |
| `RuleEditors`, `Session`, `RulesetsStore`, `Frontend` | the editors of the eleven types of rules; account, statistics and settings panel; the rulesets store and its components; all of them side by side in one tab |
| `PublisherProofs`, `BlockingQueueConsumerProofs`, `DelegatorsProofs`, `FrontendProofs`, `HealthProofs`, `UsersProofs`, `DaemonProofs`, `LiveLogProofs` | proofs |

`MCPublisher`, `MCDaemon`, `MCUsers`, `MCHealth`, `MCLiveLog` and `MCFrontend` give the parameters and symmetries that cannot
be written in a `.cfg` file.

What would come next: `Hub`, the composition of `Daemon` and `Publisher` with a vote service as abstract specification (a voteorder
in a processed block is published, ignored or given up for a named reason).

## 3. How the modules correspond to the code

### Publisher

`waiting` and `processing` are the two Redis lists, head first. `loop` says where
`BlockingQueueConsumerImpl.start` stands: `resetting` (in `init`), `taking` (in `take`), `throttle` and
`errorSleep` (the two sleeps), `over` (the `finally` block was reached), `down` (no process). `runs` holds
the spawned `processItemInSpawnedAsync` by an arbitrary identity: `sending` (awaiting Steemconnect), `retryDelay`,
`finishing` (awaiting the LREM of `finishJob`). `wire` is the FIFO of commands that were sent on the shared
connection and are not answered yet. A command takes effect when the server executes it, at the head
of `wire`, and the process goes on with the answer.

| Action | Code |
|---|---|
| `Schedule` | `PublisherQueueImpl.scheduleJob` called by the daemon |
| `Start`, `ResetStep`, `ResetDone`, `ResetRejected` | `callbacks.init` = `resetProcessingQueue`, one RPOPLPUSH per step; an error ends the loop |
| `TakeJob`, `TakeTimeout`, `TakeRejected` | the three outcomes of `takeJob(20)` |
| `TakeResent` | ioredis sends an unanswered command again after a reconnect, though the server had executed it |
| `Wake` | the end of `sleepBeforeNextTakeMs` or `sleepAfterErrorMs` |
| `BroadcastSucceeds`, `BroadcastFails`, `BroadcastRetries`, `SendAgain` | `BroadcasterImpl.doBroadcast`; `server_error` is final, other errors are retried while there are delays |
| `Finish`, `FinishRejected` | the LREM of `finishJob`; removing nothing is an error that is only logged |
| `Crash`, `WatchdogKill` | death of the process; a request on its way may still be applied |

Left out on purpose: the `isBroadcastResult` check of `broadcast` (the real `UsersManager` has checked the
shape before, and a wrong shape is retried there), entries that fail validation in `takeJob` (only
`scheduleJob`, which validates, writes the list), the heartbeat's SET (another key, it never blocks), and
log messages (`DaemonLog.emit` returns at once, on another connection). Redis is taken to have dropped the commands
of a dead client before the next process starts its reset.

### BlockingQueueConsumer

The same consumer as a component on its own, with `stop` and repeated `start`, which the publisher does not
use but the class offers and its tests exercise. Every callback resolves or rejects as it likes. `loop` has one
entry per call of `start`; all share the flag `running`, as in the code.

### Daemon

One delegator and one voter, as rules of different pairs share nothing. `chain` is chosen at the start: what a block
contains is `setRules`, `clearRules` (a set_rules without rulesets) or `voteorder` operations, and `head` says how
much of it exists so far. A *moment* is `<<block, index>>`. `rules` is the Redis hash (one field per block number),
`wire` the FIFO of the daemon's ioredis connection, `handlers` the voteorders `onVoteorder` is busy with:
`reading` (HGETALL sent), `retryWait` (its timer runs), `validating`, `pushing` (LPUSH sent, on another connection).

| Action | Code |
|---|---|
| `Boot`, `PreloadRules`, `PreloadDone` | `DaemonManager.run`, `determineStartBlock`, `preloadAllRulesets` |
| `ProcessBlock` | the synchronizer calls `onSetRules` and `onVoteorder` for a block's operations, then `onBlockProcessingFinished`; all send their command at once and none is awaited |
| `ServeSave`, `SaveRejected` | the HSET of `saveRules`, whose error is only logged |
| `ServeRead`, `ReadRejected` | `getRules` in `onVoteorder`; no rulesets: ignored; an error: a timer |
| `ServeProcessed`, `ServeLoaded`, `RecordRejected` | the two writes of `onBlockProcessingFinished` |
| `Validated`, `ValidationFails`, `Retry` | `ValidationRunner.validate`; `onVoteorder` called again by the timer |
| `Push`, `PushRejected`, `PushResent` | `voteorderCommit`, `sendOps`, `scheduleJob`; the LPUSH is executed, the connection breaks before the answer, and ioredis sends it again |
| `CommandsResent` | the connection breaks after the server executed the first commands of the `wire`, and ioredis sends all of them again (default options, `RedisImpl.ts:12`) |
| `Stop`, `Crash` | SIGTERM; death |

The synchronizer is part of the `steem-wise-core` library, which is not in the repository: it is modelled
from the callbacks the daemon gives it. Whether it looks at the promise of `onBlockProcessingFinished` is not
known, so `RecordRejected` allows both that it does and that the process exits on the unhandled rejection.
wiseSQL's `all_rulesets` is taken to return the rules in force at the given block, as far as it has indexed.

### Delegators

`members` is the Redis set, `delegators` the daemon's copy; both carry the number of changes they reflect, so that older and
newer can be told apart. `announcing` counts requests between their SADD or SREM and its PUBLISH, `asked` and `answers`
are the SMEMBERS on the connection, `notices` the messages on the subscriber's connection, `timers` the hourly timers.

| Action | Code |
|---|---|
| `AddDelegator`, `RemoveDelegator`, `Publish`, `PublishLost` | the static methods; the API may die between the two commands |
| `Boot`, `ServeSubscribe`, `Subscribed` | `init`; a message that comes in the same chunk as the answer to SUBSCRIBE finds no handler |
| `ServeReload`, `HandleReload`, `TimerFires` | `reloadDelegators`, awaited by `init` only; each one ends in a `setTimeout` |
| `HandleNotice` | the handler of messages |
| `SubscriberLost` | the subscriber's connection breaks; ioredis subscribes again, nothing is loaded again |
| `CommandRejected`, `Crash` | an unhandled rejection, the `catch` of `daemon/index.ts`, death |

The listeners registered in `Daemon.ts:64-70` only write log lines and are left out.

### Users

One user, whose data no other user shares: `profile` (only the setting `daemonEnabled` of it), `access` and `refresh`
in Vault, `delegator` in Redis. A request is a record with the call it makes next; each action is one call to Vault, Redis
or Steemconnect and what follows it up to the next call. `Fail` rejects any call: a call that was executed although it is
rejected looks like a failure before the following one. The death of a process is a failure of each of its requests.

| Action | Code |
|---|---|
| `Start` | the OAuth callback, `revoke_all`, the settings route, a job of the publisher |
| `ReadProfile`, `WriteProfile`, `UpdateList` | `getUser`, `setUser`, in `login` and `saveUserSettings` |
| `WriteAccess`, `WriteRefresh`, `ReadRefresh`, `WriteBetter` | `login` |
| `RereadRefresh`, `StoreRefreshed`, `RereadAccess` | `refreshAccessToken` |
| `ReadAccess`, `Send` | `broadcast` |
| `ReadAccess`, `Revoke`, `DeleteAccess`, `DeleteRefresh` | `forgetUser` |
| `Expire` | the expiry date of the access token passes |

A refresh token always has the wide scope, as Steemconnect only issues it for a login with `offline`
(`AuthManager.ts:128-131`), so the scope check of `refreshAccessToken` cannot fail. `canIssueRefreshTokens` is true in
both services. The announcement of `UpdateList` is the subject of `Delegators`.

### VaultSession and Health

Time passes in ticks; `lease`, `ttl`, the timers of `chain` and the keys of the services count down together. `chain` is the set of
timers and calls that keep the session: the code has one after the other, but nothing in it says so, hence a set. A call is
answered within the tick in which it is made, unless it hangs for good (Axios is given no timeout). A tick stands for whatever length
makes the delays of the code small numbers; the ones that matter are the ratios: two thirds of the lease, the threshold
of 240 s, 30 s and 20 s for the retries, a heartbeat that lives twice as long as the time between two beats.

| Action | Code |
|---|---|
| `GetStatus`, `Config`, `Restart` | `App.init`: `Vault.init` throws unless the status is 200; the session secret is read; the watchdog of the API restarts a process that serves nothing (only once it has started: a start that hangs is restarted too, which the model leaves out) |
| `Login`, `Renew`, `Fire` | `Vault.appRoleLogin` with `AppRole.login`'s retry; `renewTokenIn` with its three outcomes; a timer |
| `Hang`, `Toggle` | a call is never answered; Vault goes down, is sealed, or comes back |
| `Beat`, `MissedBeat`, `Stop`, `Run` | `HeartbeatImpl.beat` from the loops of the services, of which a failed SET is only logged; a service stops and starts |
| `Ask`, `AskVault`, `ReadKey`, `StatusFails`, `Verdict` | `StatusRoutes`, one call after the other, and `getStatusVerdict` |

A service that has stopped takes a tick to start again. `silent` and `lost` of a request are history: what was wrong when the request began, and
has been ever since. `calm` stands for the two conditions that are not modelled, queues of at most 15 jobs and a status that took at most 3 s.

### DaemonLog and LiveLog

`lists` are the lists in Redis, the newest entry first, `said` the same without trimming. `pipe` holds, per service, what
its emissions are still to do: `emit` awaits each command, and one connection answers in order, so that the emissions take turns.

| Action | Code |
|---|---|
| `Emit`, `Reply` | `DaemonLog.emit`, `PublisherLogImpl`: LPUSH and LTRIM per list, then PUBLISH |
| `Resend`, `Rejected`, `Restart` | a command executed twice after a reconnect; an emission that ends with an error; a new process with `WiseOperationsLog.doPreload` |
| `Dispatch`, `Join`, `RealtimeRestart` | `realtime/index.ts`: a message to the general room and that of its delegator |
| `Open` | `RealtimeLogComponent.reload`, `RealtimeHistoryComponent.reload` with `setParams` of the realtime store |
| `ServeLog`, `LogAnswer`, `LogMessage` | `DaemonRoutes` and the two ways in which entries reach the daemon log |
| `ServePreload`, `PreloadAnswer`, `HistoryMessage`, `RequestFails` | the same for the history, over wiseSQL |

`setParams` compares params that contain functions by their source text: whatever account a later page is about, its params count as
equal, and the functions in the store go on reading the account of the component they were made in.

### Session, RulesetsStore, RuleEditors, Frontend

One tab, with the API, wiseSQL and the blockchain as its environment; `cookie` is the session, which other tabs share. A request is
a record in `calls`, `loads` or `saves`, and its answer an action of its own. A mutation of `RulesetsModuleImpl` assigns, then validates
the whole state: `Jammed` says that the ruleset being edited is not in the store, in which case every mutation assigns and throws, and
each action says what of its handler has run by then.

| Action | Code |
|---|---|
| `OpenDaemon`, `SaveSettings`, `Logout`, `OtherTab` | `DelegateView`, `DaemonSettingsComponent` with its `enable_daemon` query, `AuthModuleImpl.logout`, another tab |
| `Serve`, `UserAnswer`, `LogoutAnswer`, `SaveAnswer`, `CallFails`, `StatAnswer` | answers in `AuthModuleImpl`, `StatusModuleImpl` |
| `Navigate`, `LoadAnswer`, `LoadFails` | `RulesetsView`, `setVoterAndOrDelegator`, `reloadRulesets` before and after its await |
| `UpdateRule`, `DeleteRule`, `AddRule`, `RevertRuleDeletion`, `RenameRuleset` | the components of one ruleset with `checkIfModified` |
| `BeginRulesetEdit`, `RevertChanges`, `SaveChanges`, `DeleteRuleset`, `AddRuleset` | `RulesetCollapseComponent`, `RulesetEditorComponent`, `DeleteRulesetActionComponent`, `AddRulesetActionComponent` |
| `PublishRules`, `RulesAnswer`, `SaveFails`, `AddAnswer`, `AddFails` | `RulesetsRoutes` and the rest of the handlers after their await |

`RuleEditors` has one operator per component in `components/rulesets/rules`, which gives the rules that one change of one field can lead
to. Numbers are typed in tenths, so that `parseInt`, which cuts the fraction off (`PayoutRuleComponent.vue:51` among others, although
the step of its input is 0.1), differs from `parseFloat`. Leaving a page with unsaved changes is always allowed, as after the confirmation that
`beforeRouteLeave` asks for. One form to add a ruleset is open at a time.

`slips` is a history variable: the names of the races and failures a behaviour has gone through. The properties say what
holds in behaviours without certain slips, which is the same as saying what it takes to break them.

## 4. Runs

| Run | Question | Bounds |
|---|---|---|
| `publisher_safety` | Is a job ever lost, stranded, reordered or duplicated without a cause? Does the queue implement `JobDelivery`? | 2 job strings, 3 pushes (so equal strings occur), 1 retry, 1 crash, 1 failing command |
| `publisher_liveness` | Is every job concluded, and is no LREM starved? | 2 jobs, 2 pushes, 2 crashes, no failing command |
| `consumer_loop` | What do `start` and `stop` in any order do to loops and takes? | 2 starts, 2 stops, 2 items, 1 error of each kind |
| `consumer_stop` | Does `stop()` await the outstanding take? (It does not.) | 1 start, 1 stop |
| `delegators` | Can the daemon's copy be wrong without a remedy, go back, or can reload timers multiply unseen? Does the daemon come to know the list? | 2 accounts, 4 updates, 1 death, 2 failures |
| `users_safety` | What can overlapping and failing requests do to tokens, settings and the list? | 3 requests of any kind, 1 expiry, 2 failures |
| `users_narrow` | Can a narrow token replace a wide one? (It can.) | 1 request, 1 failure |
| `daemon_safety` | Are decisions based on the rules in force, and is no voteorder passed over? With START_FROM_BLOCK=head, and with `head_reset`, which skips blocks | all chains of 2 blocks of 6 kinds with at most 4 operations, 2 deaths, 1 failure, 1 switch of the delegator |
| `daemon_liveness` | Is every voteorder in hand settled, does the record catch up? | 2 blocks of 4 kinds, start at block 2, 1 death, 1 failure |
| `health` | Can the session with Vault be lost or split, does it come back, and can the status be wrong? | lease of 5 ticks, tokens of at most 7, threshold 2, retries after 1; 2 services |
| `live_log` | What do lists and views hold when emissions, restarts and pages interleave? | 2 accounts, 1 past operation, lists of 2, 2 emissions, 2 failures or pages |
| `frontend` | Does the page show what was asked for last, is what it calls saved on the blockchain, are published rules one's own? | 2 accounts, 2 rulesets, 2 routes, 4 clicks or failures |

Why these bounds are enough to meet the interesting cases: a second crash (in the liveness run), or a rejected RPOPLPUSH that
makes the watchdog replace the process (in the safety run), falls into the reset after the first crash; three pushes of two strings give a repeated string next to a different one, so that
LREM-all and order matter; two blocks with wiseSQL at block 1 give a preload that lags behind; the
block kinds cover every order of a voteorder relative to the rules of its own block; the one failure may be any rejected command,
fetch or push, or commands sent again (a push that is sent again and then rejected as well takes two, and is left to the proof). `Slots` has as many members
as there are pushes, so a free slot is never what stops a take.

Four updates and two lost announcements let one change hide another, and put two reloads on the connection. Three requests let
a third, alone, find what two that overlapped have left behind; a login needs at most three writes, so two failures can stop
two of them half way.

A lease of 5 and a token of 7 ticks make the second renewal a short one, below the threshold; renewals are due after 3 ticks,
so that a lease can run out in two more while Vault is down. Nothing bounds `failures` and `misses` but the lease and the key, so
that the state space of `health` is finite without a limit on outages. Lists of two entries with two emissions and a past
operation overflow by one. Four clicks are enough for: edit, save, edit again while it waits; add a ruleset, revert it; another
route, an edit, and the answer; each with one failure or change by another tab to spare. Statistics that are asked once (`General`) are
left out of the instance of `frontend` (their answers commute with everything), not of the module.

Deadlock checking is on for the publisher, whose loop never rests, for the delegator list, whose timers never do, and for
`health`, where time goes on for ever. It is off for the consumer, which is done when all loops are over, for the daemon, whose
bounded chain comes to an end, and for users, logs and frontend, whose requests, emissions and clicks are bounded.

### What the results say, and do not say

- `NoJobVanishes` and `ImplementsDelivery`: a job leaves Redis only after a run of that job string has come to an
  end. With two equal job strings, the end of one run removes the backup copy of the other as well.
- `NothingStranded` is about runs without failing commands. When the answer to a BRPOPLPUSH is lost, or an LREM is
  rejected, the entry stays in the processing list until the next restart; this is also why the
  liveness run has no failing commands.
- `DuplicatesExplained`: a job may be applied once per push, once more per restart that put it back,
  and once more per try whose effect was not acknowledged. The last two do happen.
- `RulesNeverStale` excludes rules whose HSET was rejected, and allows rules of the voteorder's own block that
  come after it: the hash has one field per block.
- `NoOrderForgotten` excludes voteorders in hand at a death that happens when a later block has been recorded, and failed
  pushes: these the code does lose.
- `OneJobPerLife`: a restart processes the last block (or, if wiseSQL lags, several) again, so duplicates do come from
  restarts. They also come from an LPUSH that was executed but not answered: ioredis sends it again after a reconnect, and one
  `scheduleJob` leaves two equal jobs (`resent` counts them). What the property rules out is that the daemon's own retries add more.
- `StaleOnlyForAReason` allows announcements that were lost: before the subscription, with the connection, or with the API. These
  are found by the hourly reload only, which is `CopyConverges`.
- `OneChainPerMessage` counts what nothing bounds: each message leaves one more hourly reload for the life of the process.
- `AloneLeavesOrder` is about repair: it holds from whatever state failed and overlapping requests have left. What it does
  not say is that such states do not arise; they do, for instance two overlapping saves leave profile and list in disagreement.
- `NarrowNeverOverridesWide` is refuted: `login` stores the narrow token first. The run needs one failing call; with
  `Requests = {r1, r2}` and `MaxFaults = 0` TLC finds two overlapping logins that do the same.
- `forgetUser` does not touch the profile or the list: the user stays a delegator without tokens.
- `SessionKept` and `LostForGood` belong together: it takes failed renewals worth the margin of a lease to lose the session, and then
  it stays lost, while the API goes on answering at its status route, so that its watchdog does not restart it. `Recovers` excludes
  this case and calls that hang.
- `StatusTrue` is about verdicts of *healthy* only; a service that starts or recovers while the status is gathered may be called unhealthy.
- `NewestKept` bounds the lists as long as no emission is cut off: a crash between push and trim leaves the list one longer until the next trim.
  A preload that was cut off is never completed, as the list is not empty any more (`WiseOperationsLog.ts:19`).
- `ViewsShown` names what breaks it: the answer of `getLog` replaces what the socket brought meanwhile, the preload of the history is put before
  it, and a message between the push and its publication, or before the socket has joined, is shown twice or never.
- `HistoryLoadedOnce` is a property of the code that its author hardly wanted: the history of a second account is never loaded.
- `CleanMeansSaved`, `OwnRulesPublished` and `WhatIsShown` exclude the races which break them; in `slips` these have names, and each is a way in which the
  code does show or publish something else.
- `JammedForGood`: reverting a ruleset that was just added, or loading another route while editing, leaves a page on which nothing can be
  edited until it is loaded anew.
- `StopAwaitsTake` is refuted: `stop()` clears the flag it then tests. A comment in
  `BlockingQueueConsumer.spec.test.ts:279` says otherwise.

## 5. Fairness

Weak fairness, on the steps somebody is obliged to take. Publisher: Docker restarts a dead process and replaces
one whose loop is over (restart policy, `HEALTHCHECK` and `Watchdogs`), Redis executes what is on the connection, a
blocking take after its timeout at the latest, timers fire, an HTTP request settles. Daemon: the same, and
the synchronizer takes the next block when there is one. Delegators: the API goes on to its PUBLISH or fails, ioredis subscribes again, timers
fire. Consumer: callbacks settle. Health:
time passes, calls of the chain are answered (unless they hang, which is an action), a stuck API is restarted by its watchdog, and a service that runs
makes its beat, or fails to, when it is due. Nothing obliges
the daemon to push, the chain to grow, wiseSQL to keep up, users to switch delegators, Vault to stay up, services to start, or anything to fail.
The logs and the frontend are checked for safety only and state no fairness.

## 6. Proofs

`PublisherProofs` proves, for all jobs, slots, numbers of retries, pushes, crashes and faults allowed by
`PublisherAssumption`:

1. `PublisherTypeOK`: `TypeOK` is inductive by itself; one step per action.
2. `PublisherDeliveryInv`: the strengthening the next two need. `NoJobVanishes` is not inductive: a `Finish` removes
   the job of whatever slot is at the head of `wire`, so one has to know that this slot is in fact finishing
   (`WireCarriesFinishing`: a slot on the wire is finishing and occurs there once) and that the job of a finishing run
   has ended (`FinishingHasEnded`).
3. `PublisherImplementsDelivery`: initial states map to initial states, and each step maps to `Accept`, `Conclude`,
   `Discharge` or a stutter of `JobDelivery`, with `owed` the union of the two lists and `concluded` the jobs that ended.
4. `PublisherNoJobVanishes`: from 2.

5. `PublisherNothingStranded`. While the loop has not begun to take, no run is alive and no command is on the wire (`AtRest`), so a reset works
   alone and leaves the processing list empty; after that, as long as no command failed, an entry is added with its run and removed by it
   (`HeldInv`).
6. `PublisherOneRunPerJob`. Takes and resets move entries, so the lists together never hold a job more often than it was pushed. One that was pushed once
   has one entry; the run that took it has that entry, which nobody else can take, put back or remove (`OneInv`).
7. `PublisherDuplicatesExplained`, by a conservation law: what was applied, plus what waits, plus the runs that may still apply it, is at
   most what was pushed plus the surplus that requeues and unacknowledged tries account for (`DueInv`).
8. `PublisherFirstTakesInOrder`. Requeued jobs wait at the far end of the list, but they have been taken before; of those that never were, whatever waits
   ahead of another was pushed no later (`OrderInv`). The property follows as `BRPOPLPUSH` takes the last entry.

They rest on lemmas about what the list commands do to the set of entries and to the number of occurrences of each. LREM is defined by ranks and not
by recursion, so that these can be proved: the kept positions are numbered without gaps (`RankIncreases`, `RankIsOnto`).

`DelegatorsProofs` proves, for all accounts and bounds:

1. `DelegatorsTypeOK`, with the invariant that answers come in the order of changes (`AnswersInOrder`) and that a process
   that is down has no memory.
2. `DelegatorsNeverOlder`: from the order of the answers.
3. `DelegatorsStaleOnlyForAReason`: not inductive as it stands, as it says nothing of the time before `init` has handled its first answer;
   `StaleForAReason` holds as soon as there is an answer. The newest list is the last one in the queue of
   answers, which a `HandleReload` does not change.
4. `DelegatorsOneChainPerMessage`: a conservation law over timers, commands and answers.

`BlockingQueueConsumerProofs` proves, for any numbers of starts, stops, items and errors: `ConsumerTypeOK`, where the flag is up only while some loop is
alive; `ConsumerOneTakeOutlivesStop`, from the invariant that after a stop the flag is down and that a loop which waits for a take has taken
nothing since (`LateInv`); and `ConsumerLoopsEndForAReason`, from the invariant that a flag that went down, or a loop that is over, has a reason (`ReasonInv`).

`FrontendProofs` proves, for any accounts, routes, rulesets, statistics and numbers of clicks, all five properties of the run. Assumed
are that routes name accounts or nobody (`RoutesAssumption`), that the blockchain holds lists of rulesets, each a name and a list of rules, per pair of
accounts (`FirstChainAssumption`), that nobody is not an account, and that statistics are not called like the calls of the session:

1. `FrontendJammedForGood`. The property is about steps, and needs an invariant that says why nothing ever brings the lost ruleset back: its id
   was given out before and is never given out again (`IdsUsed`), and the backup does not have it either.
2. `FrontendWhatIsShown`. Three invariants, each of the form *while requests are under way, the answers that can still come
   are answers to the current question, unless `slips` says otherwise*: for the user (`NextUserShown`), the statistics
   (`NextStatsShown`) and the route (`NextRouteShown`, which also uses the first theorem's invariant).
3. `FrontendTypeOK`. References stay resolved because no rule belongs to two rulesets and no ruleset to two sets of rules, on the page, in the backup,
   or across the two (`RulesApart`, `SetRulesApart`): so a rule deleted here is missed by nobody else, and one put back from the backup was nobody
   else's. This in turn holds because ids are numbered and never given out twice (`StoreUsed`), and lists of rules have no element twice (`Distinct`).
   `BothOK` is this for page and backup together.
4. `FrontendOwnRulesPublished`, from `OneAccount`: as long as no other tab, failed call or misplaced addition interferes, the account shown is that of the
   cookie or nobody (`SessionOne`), the page has the rulesets of the delegator that was loaded (`PageOK`), so the form adds for that account
   (`FormOne`), whatever is edited belongs to it (`EditOne`), and so does whatever is sent (`SavesOne`).
5. `FrontendCleanMeansSaved`. The property speaks of a page at rest; `SavedOK` says what holds on the way there: either nothing is being sent and all sets of rules but the
   one with the edited ruleset are on the blockchain, or exactly one is being sent, as it is on the page, and all others are on the
   blockchain (`Idle`, `Saving`). An edit leaves the other sets alone because of `RulesApart`; a publication lands on the pair that is shown because of `OneAccount`.
   TLC checked `BothOK`, `OneAccount` and `SavedOK` on the instance of `frontend` before they were proved.

The lists of the store are proved about with `SequenceTheorems`; that `indexOf` and `splice`, `RemoveFirst` in the model, take one element out of a list follows from the
smallest index being chosen, which needs the least element of one fixed set only (`FirstPlace`).

`HealthProofs` proves, for any leases, delays, threshold, services, periods and times to live:

1. `HealthSessionKept`. The chain has one element at most, and the time left of the lease exceeds that of the timer by the margin
   of the renewal less `RetryDelay` for each failure (`LeaseOK`), an equation that time leaves alone; when the lease is over it has become the inequality
   that is to be proved.
2. `HealthLostForGood`, from the same invariant: as the chain has one element, a renewal that must fail leaves only another one.
3. `HealthStatusTrue`. For the keys: what is gone of a key's life is what passed since its last beat plus a period for each miss (`KeyKept`). For the
   verdict: what was wrong when the request began still is, or has been seen (`StillLost`, `StillSilent`, `LostSeen`, `SilentSeen`).

`UsersProofs` proves, for any number of requests, expiries and failures, all five safety properties of the run. They rest on `BaseInv`: two requests
that are active together have met, so each has the kind of the other in its list; and which kinds make which call.

1. `UsersSentWithCheckedScope`. A broadcast that refreshes its token rereads it (`SendInv`): whoever has stored a narrow one meanwhile is a narrow login it has met.
2. `UsersTokensStayForgotten`. When `forgetUser` deletes the refresh token and has met nobody who stores tokens, the access token is gone, and whoever
   is active then or comes later stores none: a broadcast that begins now finds none to refresh (`ForgetInv`).
3. `UsersSettingsLostOnlyToOverlaps`. As long as no save is active the profile is what the last undisturbed save wrote, and so is the copy in the hands of every
   login that has read it since (`SaveInv`).
4. `UsersAloneLeavesOrder`. What a request that met nobody has put in order by each of its calls (`InOrder`).
5. `UsersTypeOK`.

`DaemonProofs` proves, for any chains, starting points, deaths and failures, all five safety properties of the run:

1. `DaemonTypeOK`. The commands of a block are numbered by ranks, as LREM is; that `HGETALL` finds an entry to return is the
   maximum of a finite set under the order of the blocks (`WellFoundedInduction`, applied to one fixed set).
2. `DaemonNoOrderForgotten`. What lies between the recorded block and the cursor is covered, and would still be if any of the records on the wire were the
   recorded one (`CoverInv`): that is why a death leaves nothing behind.
3. `DaemonOneJobPerLife`. In a life the synchronizer takes a block once, so a voteorder has one handler with one read on the wire (`HandlersOK`), and none
   once it is pushed (`JobsOK`). A push that ioredis sends again leaves the handler where it is and is counted on both sides.
4. `DaemonLoadedRulesFound` and `DaemonRulesNeverStale`, from `RulesInv`, which has three parts. *The wire is in order*: saves follow the chain and precede the record of
   their block (`SavesInOrder`, `SavesAhead`, `RecordsOK`). A block that is processed again first overwrites its entry by an older operation of the same block; the
   later ones of that block are on the wire behind it, before any read that needs them. *A life starts far enough back*: the start block is not before
   the block up to which rules are loaded (`StartOK`), and the hash or the preload has what is in force there (`KeptUpTo`, `PreloadedOK`, `FoundFrom`).
   *A read finds what it needs*: in the hash, or in a save ahead of it on the wire (`ReadsOK`). That commands may be executed twice
   (`CommandsResent`) needs two more facts, `WireInv`: no save on the wire is of a block that is about to be recorded as loaded, and a save behind a read
   is of a later moment, so that what is overwritten by an older operation of its block comes again before any read that needs it. TLC checked `RulesInv` on chains of two and of
   three blocks before it was proved.

`LiveLogProofs` proves, for any messages of the services, histories, accounts, lengths of lists and views, openings of pages and failures:

1. `LiveLogNewestKept`. A piece of work that is under way has one of a few shapes (`WorkOK`), and the works reach Redis turn by turn (`Rounds`), so what
   a list holds is the newest of what was pushed to it (`ListsKept`, `ListNumbers`, `OpsInOrder`) but for trims that are under way (`TrimsDue`).
2. `LiveLogHistoryLoadedOnce`, from types of the two views and from this: an account has at most one request for its history under way (`LoadedOnce`).
3. `LiveLogViewsShown`. What is on the way to a view stays in line, from the emissions over the channel to the inboxes of the sockets (`Line`, `WayOK`); each
   entry is pushed once (`PushedOnce`) and the sockets are in the rooms of the page (`SocketsOK`). What a view shows or is about to show, together
   with what is on the way, has all of the list (`LogInv`, `HistoryInv`), and an operation that the view knows and that is no longer on the way is older
   than all that are (`KnownInOrder`). TLC checked these invariants on the instance of `live_log` before they were proved.

Every invariant and every action property of the passing runs is thus proved. Only model-checked: liveness, which needs fairness and
ENABLED and is out of reach of TLAPS here (`EveryJobConcluded`, `FinishNotStarved`, `StopEndsLoops`, `OrdersSettle`, `CatchesUp`, `CopyConverges`, `Recovers`).

## 7. Not modelled

The API routes that only read, presentation components, monitoring and deployment keep no state whose order of
change could go wrong. Of what is modelled, these parts are left out:

- The times of the daemon: its loop and the watchdog that looks at it every few seconds (`Daemon.ts:110`), and the delay before a
  retry, which is random around zero and doubles without limit (`Daemon.ts:201`). A retry is modelled as a timer that fires at any time, which
  includes a negative delay.
- `setTimeout` takes at most 2^31 - 1 ms, so a lease of more than 37 days would be renewed at once (`Vault.ts:97`); the leases of the models are small.
- The `isBroadcastResult` check and the wording of messages; see the notes of each module in section 3.
- `BlockLoadingApi`, which the program does not use, and the verdict of a validation, which comes from the `steem-wise-core` library
  and does not change what is scheduled.
- In the frontend: the parts of the components that only present, the login redirect to Steemconnect, and the modals for permissions.
