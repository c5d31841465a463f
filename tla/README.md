# EVEM Toolkits: formal models

TLA+ models of the parts of EVEM Toolkits whose correctness depends on
interleavings, stale clock readings, lost messages, crashes and long histories,
the TLC runs that check them on small instances, and TLAPS proofs of what matters
most for every value of the constants. Everything is translated from the Python
and JavaScript sources; where a document or a test says something else, the run
that shows the difference is kept (see *Findings*).

## 1. Inventory

The product is a Django backend with several private game collectors, a Channels
(WebSocket) service, a React front end and a release tool. Paths below are
relative to the repository.

### Components modelled

| Component | State | Operations | What is hard | What makes it correct |
| --- | --- | --- | --- | --- |
| **GameSessions coordinator** `backend/GameSessions/coordination.py` | SQLite file: one row per account (owner, lease expiry, next RPC slot, window start and count, two pauses), one policy row (rate cooldown, failures) | enter / exit a lease, `before_rpc`, `pause_auth`, `pause_service`, `pause_rate`, `complete`, operator `resume` | separate processes; the clock is read before the transaction; sleep outside it; crash without release | one entitled holder per account; pauses hold; spacing and budget survive crashes; a rate rejection binds every account |
| **Market worker** `backend/Market/worker.py`, `batch_policy.py` | `MarketConfig` singleton, `CollectionRun` rows, `LatestPrice`, in-memory run object | claim, prepare batch policy, plan, heartbeat, save quote, record failure, finish | superseded passes still running; a dead pass's row; a six-field fallback / recovery policy shared with administrators | one running row; a superseded pass writes nothing; cooldown and reduced batch bind everyone; one earned probe per protected period; a stop holds |
| **Market admin API** `backend/Market/views.py` | the same config row | PATCH config, POST manual run | interleaves with a pass in any state | edits void recovery credit; no edit lifts a stop |
| **Killboard discovery and freshness** `backend/Killboard/discovery.py`, `freshness.py` | `ProbeCursor` (position, pause, cooldown, the plan of ids still pending), one `ProbeRun` row | claim, recover an orphan, resume, locate the newest kill, scan pending ids, probe upwards, record, finish | two commands on one cursor; lease expiry; the list of pending ranges is compacted; an answer may both report and fail | no id is lost; a superseded run moves nothing; a paused session is not used |
| **Hotspot history** `backend/AnomalyHotspots/history.py` | a directory: samples, `manifest.json`, `attempts.json`, temporaries | publish, commit, retain, remove orphans; read by web requests | a kill, a power loss or a disk error between two system calls; unsynchronised readers | every listed sample is there; the store is never refused; what is durable is a log |
| **Tactical presence** `backend/TacticalCollaboration/services.py` | connection leases, socket generations, memberships, accounts | admit, leave, claim socket, heartbeat, close, remove, restore, disable | replaced sockets; rows that come back to life; unwritten renewals | limits hold; a replaced socket is never served again; a removed member keeps nothing |
| **Tactical commands** the same file | members, applications, reports, revisions, forces, receipts | all board commands | corrections, confirmations and edits in any order; retried commands | an estimate is that of its source; a command runs once |
| **Tactical realtime** `realtime.py`, `events.py` | a socket's cursor, lock and two tasks | event, poll, refresh, snapshot, send | lost events; a snapshot made of two reads; the cursor advances before the send | never a mixed or older snapshot; every open socket comes to show the committed board |
| **Front-end outbox** `front-codex/src/utils/tacticalOutbox.js`, `useTacticalSession.js` | drafts in localStorage shared by tabs | queue, send, settle, retry, discard | lost and late answers; several tabs | nothing is sent as new twice; a conflict is really not applied |
| **Release tool** `scripts/deploy/release.py`, `backend/Market/deploy_guard.py` | `state.json`, `previous.json`, `transaction.json`, the links `current/<component>`, the collectors' locks | plan, publish full or delta, roll back, undo, recover | failure, signal or kill between any two steps; collectors starting meanwhile | a release is committed, undone or recoverable; no collector works across a switch |

`PROJECT.json` lists every component with its status, and every hazard at its line.

### How they interact

- A collector process (Market, Killboard, Anomaly) wraps its queries in a lease
  of the coordinator when its account is shared, and asks `before_rpc` for each
  game RPC. Market's `collect_due` does both: its own `before_rpc` first renews
  the `CollectionRun` lease, then asks the coordinator.
- The Market worker and the administrators share one config row, always locked
  first. `deploy_guard.py` keeps passes, releases and rollbacks apart by a flock:
  `ReleaseTransaction` composes the publisher with the collectors that hold it,
  and its result is the bound `MaxLive = 1` of the Market runs.
- The commands `collect` and `probe` of Killboard share one `ProbeCursor`:
  `KillCollector` composes them.
- A tactical command commits in one transaction under the organization lock and
  publishes an event afterwards; sockets learn of it by event or by polling. Each
  read of a socket asks the database for its lease. `SocketStanding` is the contract
  between the two sides: `TacticalPresence`, which keeps the rows, implements it,
  and `standing` in `TacticalRealtime`, what a socket sees of them, is one of its
  histories and may be any of them.
- `TacticalOutbox` EXTENDS `TacticalCommand`: browser tabs, the network and the
  server's receipts are composed with everything else members do to the board.
- The collector of anomalies and web requests share only the directory of
  `HotspotHistory`; there is no lock between them.

## 2. What is modelled

### AccountLease: the coordinator

One action per transaction block of `coordination.py`. The clock is read by an
action of its own (`OpenLease`, `AskRpc`, `WakeUp`, `BeginPauseRate`) wherever
the code reads it before `BEGIN IMMEDIATE` is granted, so that a transaction may
act on an old reading; `PauseAuth`, `PauseService`, `Complete` and `Resume`
read it inside the transaction and use `now`.

| Model | Code |
| --- | --- |
| `owner`, `expires`, `nextRpc`, `window`, `count`, `authPaused`, `servicePaused` | columns of `accounts` |
| `cooldown`, `failures` | the `policy` row |
| `Run`, `pc`, `ref`, `read`, `wake` | an `AccountLease` object, where it is, its account, its last clock reading, the end of its sleep |
| `Enter`, `EnterRaises` | `__enter__`, succeeding or raising |
| `ChargeRpc`, `DelayRpc`, `WakeUp` | the loop of `before_rpc` |
| `SendRpc` | the RPC and the answers of `rejections.py` |
| `PauseAuth`, `PauseService`, `PauseRate`, `Complete` | the methods of those names |
| `Unwind`, `Release` | leaving the with-block, `__exit__` |
| `Crash`, `Tick` | the host |
| `Resume` | `Coordinator.resume` (`python -m GameSessions`) |
| `term`, `rpcs` | histories, read only by properties: the last expiry granted to a run, the charges of an account |

### MarketWorker: the collection worker and the administrators

A worker slot makes one pass after another. A pass walks `claiming, claimed,
prepared, planned, collecting / beating / asking / saving, finishing`; each
database transaction is one action and the clock reading that it uses was taken
by an earlier one, as in `collect_due`. A pass may die anywhere; its row then
stays `running` until a later claim finds its lease expired.

| Model | Code |
| --- | --- |
| `config` | the `MarketConfig` row (due, cooldown, session status, fallback, recovery credit) |
| `row`, `queued` | the `CollectionRun` row a slot's pass holds; a queued manual run |
| `job` | the in-memory `run`, and `config_status` |
| `Claim`, `ClaimRefused` | `_claim_run` |
| `Prepare` | `_prepare_batch_policy` |
| `Plan`, `Connect` | `_select_items`, `_save_plan`, the shared-account cap and replanning |
| `BeforeRpc`, `Heartbeat`, `Answer` | `before_rpc`, `_heartbeat_run`, the game's answer |
| `SaveQuote`, `RecordFailure` | `_save_quote`, `_record_failure` |
| `EndOfList`, `Interrupt` | the else and except clauses of `collect_due` |
| `Finish` | `_finish_run`: rate, capacity, fallback, recovery, in the code's order (`AfterRate`, `AfterCapacity`, `AfterFallback`, `AfterRecovery`, `Scheduled`) |
| `LeaseLost` | `_check_lease` raising; the pass ends without a write |
| `PatchCapacity`, `PatchSchedule`, `EnqueueManual` | `AdminConfigView.patch`, `AdminRunView.post` |
| `MaxLive` | 1 where every pass runs under the flock of `deploy_guard.py`; more shows what `worker.py` guarantees by itself |
| `latest`, `streak`, `probed` | the stamp of the price stored last; histories of healthy reduced passes and of probes |

Abstractions. Prices are one stamp; items are counted; a time of 0 is NULL; the
random interval to the next pass is one constant; reasons of a fallback are the
recoverable one and the others; counters that are only compared with a threshold
stop there; a closed row keeps nothing, because nothing reads it again. The
clock of the model is coarser than milliseconds: an administrator's edit and
another write of the config row do not share a reading (`now > config.updated`).
Recovery credit is recognised by the equality of two stamps (`_recovery_credit`),
so this is an assumption: within one millisecond the code could not tell them
apart.

`BatchProtection` is what `docs/market-prices.md` (34-36) promises an operator of the
batch policy: a failure puts the collector under protection, which ends by expiry, by
one successful full batch or by the administrator, and by nothing else; the full batch
is earned by healthy reduced passes with nothing in between, is tried once, and a pass
that dies always leaves protection behind. The mapping reads the credit as
`_recovery_credit` does (an outdated one is none) and the pass from the one running
row. One clause of it comes from the code: the administrator's reset (`views.py`
490-497) ends the protection and does not give the full batch back, so the
protection after a reset may have to run to its expiry.

### TacticalPresence: who is on a board

Every operation is one transaction under the organization's row lock, so one
action. Times are the seconds that are left, counted down by `Tick`; the model
has no clock and no bound on time.

| Model | Code |
| --- | --- |
| `status`, `enabled` | `Membership.status`, `User.is_active` |
| `lease` | `ConnectionLease` rows: owner, seconds left, `socket_generation`, claim window and count |
| `announced` | the parity of `Organization.state_version` (whether a change was announced) |
| `socket` | a physical WebSocket: unclaimed, serving a connection, closed |
| `promised` | history: what is left of the last "60 seconds" a client was told |
| `Admit`, `Leave`, `ClaimSocket`, `Heartbeat` | `admit`, `leave`, `claim_socket`, `socket_heartbeat` |
| `CloseSocket` | the consumer's end |
| `RemoveMember`, `RestoreMember`, `SwitchAccount` | the two membership commands; an administrator's `is_active` |

`SocketStanding` is what the database may say of a claimed connection over time:
live, expired and live again, and lost for good. The mapping reads the standing of
a socket off the lease rows, the memberships and the accounts (`Standing`).

### TacticalRealtime: one socket and its two tasks

The dispatcher handles frames and group events one at a time; the poll wakes by
timer. Both may read and send a snapshot; `io_lock` serialises them. Every `await`
between two reads or before a send is a boundary between actions.

| Model | Code |
| --- | --- |
| `board` | the committed organization: version, content, scope, and presence that nobody announces (`drift`) |
| `standing` | what the database says of the socket's lease and membership |
| `socket`, `task`, `lock`, `inbox` | the consumer's fields, its tasks, `io_lock`, group events under way |
| `stripped` | history: the version at which the socket lost its standing |
| `Authenticate`, `Ping`, `Close` | the frames; `Close` stands for every reason to close |
| `Event`, `EventLocks` | `tactical_state_event` |
| `PollWakes`, `PollCompares`, `RefreshDue` | the poll loop and its refresh every 20 seconds |
| `ReadScope`, `ReadContent`, `Send` | the two database reads of a snapshot, with its retries while the scope moves, and the send |
| `ChangeBoard`, `ChangeScope`, `ChangeOtherBoard`, `Drift`, `LeaseExpires`, `LeaseRenewed`, `LeaseLost` | what others commit, as seen from here |

An event that finds no receiver simply is not put in `inbox` (`Publish`).
`AfterFailedSend` is what happens on Python 3.10, the version that CI and the
deployment guide pin: the `asyncio.TimeoutError` of a stalled send is not an `OSError`,
so it reaches `shutdown(1011)`. From Python 3.11 on it is one, and the handler at
`realtime.py:171-175` would only set `closing`.

### TacticalCommand and TacticalOutbox: the board and a draft on its way to it

| Model | Code |
| --- | --- |
| `member`, `pending`, `report`, `force`, `adopted` | `Membership`, `JoinApplication`, `Report`, `Force`, `ForceSource` rows |
| `Join`, `Review`, `Promote`, `Demote`, `Remove`, `Restore` | the organization's commands |
| `CreateReport`, `CreateFleet`, `UpdateReport`, `MoveReport`, `WithdrawReport`, `ConfirmReport` | the report commands; a fleet report makes or follows a force |
| `CreateForce`, `UpdateForce`, `MoveForce`, `ArchiveForce` | the force commands |
| `draft`, `waiting`, `orphans` | an entry of the outbox; tabs waiting for an answer; requests whose tab gave up and that may still arrive |
| `receipt` | the `CommandReceipt` of this request |
| `fate`, `made` | histories: how the draft left, how many reports it made |
| `Queue`, `Retry`, `Exchange`, `GiveUp`, `ServeOrphan`, `Discard` | the outbox and `command()` |

A refused command changes nothing and is no action in TacticalCommand; in
TacticalOutbox the refusals of the draft matter and are answers of `Serve`, in the
order in which `command()` looks for them. Texts, counts and places are left out:
a move is the edit, hence the version, that it counts as.

### HotspotHistory and HotspotStore

`dir` is the directory as processes see it, `durable` what the last fsync made
certain. A power loss leaves any mixture of the two: each rename, link and unlink
on its own. A pass is `open`, index created if it is the first, orphans cleared,
sample published (write, fsync, link, unlink of the temporary name), index
committed, old samples pruned, attempt recorded, each change with its fsync of
the directory as a step of its own (`SyncDirectory`). `Kill`, `DiskError` and
`PowerLoss` may come between any two. A web request (`ReadIndex`, `CheckMissing`,
`CheckName`, `ChoosePair`, `ReadSample`) runs beside it.

`HotspotStore` is what the docstrings promise: a log in the order of time stamps
from which only the oldest are dropped, and only for age or room. The refinement
mapping is `log <- Entries(durable.index)`: what a power loss would leave.

### KillCollector

One cursor, at most one running row, any number of processes. A run is `claimed,
prepared, asked, ...`; no transaction is open while the game is asked.

| Model | Code |
| --- | --- |
| `cursor` | the `ProbeCursor` row: next id, last success, pause, provisional start, and the plan (phase, search bracket, frontier, pending and deferred ids) |
| `row` | the running `ProbeRun`, its owner and whether its lease has expired |
| `job` | a process: its place, command, counters, the id it asked for |
| `failures`, `remembered` | `failure_count` of the row, and in the memory of each run that loaded it, up to `LongestBackoff` (3: more make no cooldown longer) |
| `settled`, `emptied` | ids stored or excluded; ids a probe was told are empty |
| `Claim`, `Prepare`, `LoadSession` | the claim with orphan recovery and `--resume`, the plan or provisional position, the private session |
| `Ask`, `Record`, `EndRound` | the next id of a locate, a scan or a probe; its answer; the end of a round, where a healthy collector puts `failure_count` back to 0 (`Healthy`) |
| `Raise`, `LoseLease`, `Finish`, `Abort`, `Crash` | the ends of a run |
| `LeaseEnds`, `TimePasses` | leases, cooldowns and retry times may end at any moment |

The stored ranges are modelled as the set of ids in them; `Merge` says what
compacting a list of too many ranges does to that set (it fills gaps, so ids
become pending that were not).

A run works on the row as it loaded it. Every other write is guarded by `_owned`, so
one copy in the model serves the row and its holder; the reset of `failure_count` at
the end of a round is not guarded (`freshness.py:320-321`), so that field has a copy
for each run. A superseded run goes by the plan in its memory, which is not kept: the
model lets it reach the end of its round whenever it is about to ask.

### ReleaseTransaction

| Model | Code |
| --- | --- |
| `state`, `previous`, `journal` | `state.json`, `previous.json`, `transaction.json` |
| `link`, `next` | `current/<component>`, a `<component>.next` left behind |
| `running`, `delta` | what the services have loaded; a planned package of one component |
| `pub`, `held` | the publisher under `publish.lock`, the collectors' locks it holds |
| `col`, `loaded` | a collector process and the back end it has loaded |
| `Source`, `Content` | the git tree of each component of a release (`sources` of its manifest); its product files |
| `Plan`, `PublishFull`, `PublishDelta`, `Rollback` | the commands |
| `Renewed`, `Differing` | `changed_components`, by which a full package selects; the comparison of `_release_plan`, by which a delta does |
| `TakeLock`, `Journal`, `EnterTry`, `PlaceNext`, `MoveLink`, `EndSwitch`, `Restart`, `Healthy`, `WritePrevious`, `WriteState`, `Finish` | the transaction, forwards and undoing |
| `Interrupt`, `Kill` | an exception (a failure or SIGTERM), SIGKILL, anywhere |
| `ServiceRestarts`, `OperatorRecovers` | systemd; the operator who reads the journal |
| `Start`, `Acquire`, `CheckJournal`, `CheckCurrent`, `End` | `deploy_guard.py`, `market_tick.py`, `run-collector.sh` |

The two rules disagree, and the model keeps both. A change of tests alone gives
another tree and the same files: a full package publishes it and restarts the back
end, a delta has nothing to publish. One tree built to other bytes is the reverse: a
full package leaves the component alone. The files of a `Legacy` release, from before
the manifests, are unknown, so a plan counts them as different.

`ReleaseHistory` is what the operator is promised: publishing a full package replaces
the components whose git tree differs, publishing a delta those whose files differ,
all at once or not at all, and rolling back exchanges
the current release and the one before. The mapping takes the two sides from
`state.json` and `previous.json` when there is no journal, and from the journal's
record of what they said while there is one, so that a publication happens in the
step that removes the journal, and all that fails before it or is undone is no step.

### Bad... operators

An operator called `Bad...` stands before the one it is a plausible mistake in.
No action uses it: putting it in place of its neighbour must make the run that
checks a property fail, and it does (PROJECT.json, `mutants`).

## 3. Runs

All runs are exhaustive. Symmetry is used with safety properties only.

| Run | Instance | Question |
| --- | --- | --- |
| `Account` | 2 accounts, 2 runs, time to 9 | Can two collectors be entitled to one account, or send on a paused one? Do spacing, budget and cooldown survive crashes and changes of owner? |
| `AccountCeiling` | 1 account, 2 runs, time to 9 | Does the documented five-minute ceiling hold? (violated) |
| `MarketOverlap` | 3 slots, 2 at a time, time to 3, no edits | What may a superseded or dead pass still do? |
| `MarketRecovery` | 2 slots, 1 at a time, time to 5, edits at 3 | How is a fallback earned away and a stop lifted, over any number of passes? |
| `MarketStop` | 2 slots, 1 at a time, time to 3 | Does a failed verification stop again, as documented? (violated) |
| `Presence` | 2 users, 3 connections, 2 sockets; lease 3, renewal 2, 2 connections to a user, capacity 1 | Which limits hold, and which socket is served? |
| `Realtime` | 1 socket, 2 commands, 1 unannounced change, 2 tries | What may be shown, and does it converge? |
| `Outbox` | founder and author, 2 reports, 1 force, 2 versions, 1 tab and 1 orphan request | Is a draft applied once? Do the board's rows stay in agreement? |
| `Hotspots` | 4 time stamps, 2 contents, retention 2, 2 samples, 1 attempt | What survives a kill or power loss anywhere? |
| `Kills` | 2 processes, ids 1..3 | Is an id forgotten, or moved by a superseded run, or asked for in a pause? |
| `KillBoundary` | 1 process, ids 1..4 | Are empty ids asked again after a probe that failed? (violated) |
| `Releases` | 3 releases (one from before the version endpoints; tree and files disagree both ways), 2 collectors | Is a release ever half applied? |

What they check:

- `MutualExclusion`, `NoEntitledRpcWhilePaused`: a run is *entitled* while the
  last expiry granted to it lies ahead. Whatever stale reading is used, the
  account is handed on only after the previous holder's term.
- `OneSleepSuffices`: when an owner wakes, its slot has come.
- `LedgerSound` (with `RpcSpacing`), `SpanBudget`: of the charges of an account, by
  whichever runs. A stretch of k windows' length never sees k + 1 full budgets.
- `CooldownHoldsForAll`: no charge and no forgiving while the cooldown lasts.
- `RunsSound` (at most one row is running), `PricesMoveForward`, `NoRpcInCooldown`,
  `ReducedWhileProtected`: what one pass can do to another.
- `ProbeIsEarned`, `OnlyManualRunLiftsStop`: what a long history of passes, crashes
  and edits can do to the policy. `KeepsProtection`: the refinement of
  `BatchProtection`.
- `ConnectionLimit`, `AdmissionsRespectCapacity`: of live connections, also when a
  disabled account is enabled again. (The number of accounts online may then pass
  the capacity; nothing else takes it there.) `PresenceSound`: a removed member
  comes back with nothing. `PromiseNearlyKept`: a renewal that is answered but not
  written falls short by less than the threshold. `KeepsStanding`: the refinement of
  `SocketStanding`; a socket that was replaced or lost its lease is never served again.
- `NeverMixed`, `NeverBackwards`, `NothingAfterLoss`: of what a browser is shown.
  `CursorHidesNothing`: although the cursor is advanced before the snapshot is
  sent, at rest a caught-up cursor means that the change was shown. `NeverStuck`: the
  tasks and the lock never all wait, and the guards used in the proofs are exactly
  when their steps are ENABLED. `Converges`, `LossCloses`: the liveness of the socket.
- `SentOnce`, `ConflictIsFinal`: of a draft that is retried. `Consistent`: a live
  force shows what the report it follows says now, and nobody is a member and an
  applicant at once. `EstimateForward`: only a commander's own edit takes an
  estimate back in time.
- `StoreSurvives`, `BudgetNeverRefuses`: no crash leaves a store that later passes
  refuse. `AttemptsAreTrue`: an attempt that says "recorded" is right.
  `OnlyOverlapFails`: a request fails only if the index changed under it.
  `KeepsItsPromise`: the refinement of the abstract log.
- `NothingForgotten`: every id up to the frontier is pending, stored or excluded,
  and the public position has passed only ids stored, excluded or empty.
  `SupersededOnlyResets`: a run whose row another took moves no position, plan, pause,
  pending id or report; the one write left to it puts `failure_count` back to 0.
  `PausedIsLeftAlone`.
- `CommittedOrUndone`: without a journal links, records and services agree; with
  one, it names both sides of every file; and every recorded state is that of one
  release by the rule it was selected by: the files of one release, or (what a full
  package goes by, whatever the bytes) the trees of one. A delta laid over a state it
  was not planned for would be neither. `CollectorsSeeOneRelease`. `ReleasesAreAtomic`: the refinement of
  `ReleaseHistory`.

### Bounds

Account and Market runs: `MaxTime` ends the clock; every other action stays
possible at the bound. The lengths are as small as they can be and still differ:
a lease of 2 outlives two RPC intervals and is half a window, and time goes past
the end of the first window, so that charges of two windows meet. (`SpanBudget` is
about any number; the theorem is, and TLC has seen three windows with one account, a
lease of 5 and time to 13, which takes longer than a run should.) In MarketWorker a lease of 1
expires between two steps of a pass, and time 3 (from 1 + interval) is enough for
a pass to be superseded by one that is itself superseded. `MarketRecovery` starts
either from a fresh row or in network fallback, lasts through a fallback, an edit
in the middle, and a second fallback; two slots keep a dead pass's row while the
other slot claims. A batch has at most 2 items, so that reduced (1) and full (2)
batches differ and a pass can be partial. `EditTimes` limits administrators to
some clock values; without it the edits only multiply the states.

`Presence` has no bound on its histories: a third connection passes the limit
of two, a second user the capacity of one, a second socket replaces the first. In
`Realtime`, two versions let an event be overtaken by a second change, and two
tries let a snapshot fail for good when the scope keeps moving. In `Outbox` the
second report follows the force of the first, version 2 is the edit that makes
the draft's version stale, and one orphan request races one tab; more tabs only
repeat what the orphan does. In `Hotspots` two samples make room a reason to drop, retention
2 of 4 stamps makes age one, and stamps may come in any order. In `Kills`, ids 1
and 3 make two ranges where one is allowed (so that `_merge` compacts), a budget of
one locating request ends a round in the middle of a search, every second scan
takes the oldest id, kills 2 and 3 share a second, and one failure is the longest
backoff: 0 and more than 0 is all the property tells apart. `Releases` has a baseline
without the market collector, a release that brings it, and one that goes back to
the tree of the first front end, built to other bytes, and changes the tests of the
back end. So a full package and a delta of the third release replace different
components of the same state.

`Hotspots`, `Kills` and `Releases` use a VIEW. It hides only what no step can depend
on. `Hotspots`: the sample of the last pass between passes (`BeginPass` replaces it).
`Kills`: the place of a run that lost its row, but for whether it may still reset
`failure_count` (every step it has left ends it), and likewise of one that will ask for
no more, but for where it returns to; the step of a search that ended and the empties
of earlier probes (reset before they are read); the remembered count of a run that will
not save it. `Releases`: what an idle collector had loaded.

CHECK_DEADLOCK is off where the models do stop: the clock at its bound and every
pass over (`Account*`, `Market*`), the socket closed and the commands used up
(`Realtime`), rows and versions at their bounds (`Outbox`).

### Fairness

Only TacticalRealtime assumes any: weak fairness of each step a task takes once
it is on its way, of `Event` and of the 20-second timer, and strong fairness of
`EventLocks` and `PollWakes`, which compete for `io_lock` with the other task
(asyncio's lock serves waiters in order, so neither starves). Nothing is assumed
of clients, commands, events or leases. The collectors justify nothing similar:
they are started by a timer outside the code and may be killed at any time.

## 4. Proofs

Eight `...Proofs` modules prove for every value of the constants what the runs
check on small ones: every property of every passing run, but for the ENABLED half
of `NeverStuck`. Assumptions: the named ASSUMEs of the modules (positive lengths and
thresholds, finite sets of users, a reduced batch smaller than the full one),
evaluated by TLC in every run. No proof uses a bound of the model (`MaxTime`,
`EditTimes`, `MaxLive`, ...) except as the type of what it bounds. Each module proves
an inductive invariant (`...Inductive`) with one lemma per action or part, and derives
the properties from it; `PROJECT.json` lists the theorems.

**AccountLease.** `IInv` adds to the types and the checked invariants
`ReadInPast` (a reading is never ahead of the clock), `TermInv` (inside the
with-block a run either owns its row, whose expiry is then its own term, or its
term has passed), `SendInv` (an owner at its RPC sees no pause) and `LastCharge`
(the next slot is an interval after the last charge). Mutual exclusion alone is
not inductive: it says nothing of a run that was superseded but has not noticed;
`TermInv` does. The budget needs three more parts. `Sorted`: an account's charges are
in order, whoever made them. `ClockStarted`: every reading is past the window that
would have begun at 0, so the first charge opens a window. `Windowed` ties a row to
the ledger: the row's count is the number of charges of the open window, the window
begins at the first of them, and for every k a charge k full budgets or more before
that one is k windows' length older: the next window begins a window's length later
and at most one budget of charges further on, which is the step from k - 1 to k. A
charge is the only step that touches any of it, and the lemma `ChargeBudget`, on one
`Append` to a ledger, then gives `SpanBudget` for every number of windows. In an
hour, twelve windows' length, an account is charged fewer than 13 x 44 RPCs.
Theorems: `Inductive`, `Exclusion`, `PausesHold`, `Spacing`, `Budget`,
`PacingConverges`, `CooldownForAll`.

**MarketWorker.** A claim that goes through has found no live lease and closes every
other running row, so at most one row is running, and every write of a pass is
guarded by `_check_lease`. What holds when a pass claims therefore holds until it
finishes, because only `Finish` writes the cooldown and the session status, and it
leaves no running pass: `CoolInv`, `StopInv`, `PriceInv`. The
policy needs two facts that tie the config row to the history: `CreditInv` (the
valid credit never exceeds the real streak, because every other write moves
`updated_at_ms` past the credit's stamp) and `ProbeInv` (a probe made is
remembered while the fallback lasts). `PlanInv` (attempts never exceed the plan,
which is fixed before the first attempt) is what keeps the counters in their
types. Theorems: `Inductive`, `OneRun`, `Reduction`, `PriceOrder`,
`CooldownHolds`, `StopHolds`, `ProbeEarned`, `ProtectionKept`: every property of the
two passing runs. Two more are proved only: a protected period sees at most one probe
(`OneProbe`), and a refusal leaves no pass on record (`StopEndsEveryPass`), so that
the manual run which lifts a stop was claimed after it.
The proof is laid out as lemmas on the policy helpers (what each makes of a config
row), lemmas on the four kinds of step (`QuietSteps`, `ClaimFacts`, `PrepareFacts`,
`FinishFacts`, `EditFacts`), one lemma per part of `IInv`, and the theorems.
`ProtectionKept` needs one fact more, `FreshInv` (a row becomes a probe only after its
claim), and says of each kind of step which actions of `BatchProtection` it can be
(`ClaimKeepsProtection` and its neighbours). That the row on record is unique is
`OneRun`; that a write which gives no credit voids it is the stamp argument of
`CreditInv`.

**TacticalPresence.** The limit of connections is not inductive for live rows,
because enabling an account revives rows that were not counted: `Held` counts the
rows that would be live. A socket that is replaced never comes back because a
generation is written only by the claim of a socket that is new
(`ReplacedStaysReplacedHolds`); from that, every step moves each socket's standing as
`SocketStanding` allows, several at once when a member is removed or a second passes
(`KeepsStandingHolds`).

**TacticalRealtime.** The lock is exclusive: a task past the lock holds it. What a
task carries is at least as new as what is shown, and a task that has advanced
the cursor either still carries the snapshot that goes with it or has
closed the socket. With these, `NeverBackwards` and `CursorHidesNothing` follow.
`RealtimeStanding` proves that what an open consumer meets is a history of
`SocketStanding`, and `EveryMoveAdmitted` that nothing less is assumed of the
database: with `KeepsStandingHolds`, the two models fit together at this seam.

Liveness is proved too, up to ENABLED. The prover cannot reason about WF and SF, so
`GuardedSpec` states the same fairness with the guards of the steps written out: a
step whose guard holds for good (or, for `EventLocks` and `PollWakes`, again and
again) is taken. That a guard is exactly when its step is ENABLED is checked by TLC in
`NeverStuck`. The argument: `Manned` says that a lock that is taken is held by a task on
its way, so a held lock is followed by a free one (`Stages`, `Holder`); a free
lock, again and again, lets the poll wake; and the poll reads the database. If the
connection is lost, every read closes the socket: `LossClosesHolds`, without any
assumption on what others do. If the board comes to rest, the refresh every 20
seconds publishes it whatever was announced: `QuietBoardIsShown`, and
`ConvergesWhenQuiet` for `Converges`. While commands keep coming, a snapshot can fail
each time because the scope moved, and the code promises nothing; in the model the
commands are bounded, so every behaviour comes to rest and TLC checks `Converges`
without that premise. `AlwaysMovesHolds` is the half of `NeverStuck` without ENABLED.

**TacticalOutbox.** Versions never go back and an archived force stays archived, so
a draft that is stale once is stale for good, and `ConflictIsFinal` holds of every
request still under way. `SentOnce` follows from the receipt, which is written in the
transaction that makes the report.

**HotspotHistory.** The invariant says of both directories, `dir` and `durable`,
that the index is ordered, short and backed by samples, that the step from one to
the other is at most one step of the log, and where the pass stands between them.
Each power loss then leaves one of two indexes, which is the refinement:
`KeepsItsPromiseHolds` proves `Spec => Store!Spec`.

**KillCollector.** `Accounts`: every id up to the frontier is pending or settled, and
none outside the plan is pending, so that the least pending id is a sound position
whichever gaps `_merge` fills (the proof uses only that merging adds ids between
those there are). `CursorOk` says the same of the public position, of a provisional
start and of the first empty id of a probe; `HolderOk` ties the running row to one
process. `SupersededOnlyResetsHolds` goes through the actions: all that a run without
the row can take are `EndRound`, `LoseLease`, `Raise`, `Abort`, `Crash` and those that
only move it on. That a least pending id exists is the well-foundedness of Nat.
`BoundaryLostOnlyByException` bounds the finding of `KillBoundary`: in every behaviour in
which no run that holds the cursor ends in an exception, `EmptyBoundaryRechecked` holds,
with crashes, lost leases, pauses and collectors in between. Its invariant `BInv`
follows the place a probe has to go back to: the id before it is settled (`Firm`), only
a running row can have one, and the holder remembers which.

**ReleaseTransaction.** The publisher's memory of both states agrees with
the journal at every place, forwards and undoing, and what each link and file
shows is determined by the place; the locks held cover every collector either
back end has. A full package leaves the trees of one release and a delta its files
(`RenewedWhole`, `DifferingWhole`), which is what `CommittedOrUndoneHolds` says of
every recorded state. A kill then leaves a journal that names both sides, and each step either
leaves the mapped pair alone or is one publication or rollback of `ReleaseHistory`
(`ReleasesAreAtomicHolds`).

**Only model-checked.** That the guards of `GuardedSpec` are when the steps are ENABLED,
hence that `Spec` with its WF and SF implies it; and `Converges` without the premise
that the board comes to rest. The violated properties have nothing to prove.

## 5. Findings

- **Five-minute ceiling** (`AccountCeiling`). `docs/market-session-rotation.md`
  gives 44 RPCs per account per five minutes; `before_rpc` counts in tumbling
  windows. TLC charges the end of one window and the beginning of the next within
  one span. What does hold is `SpanBudget`: fewer than two full budgets in any five
  minutes, and fewer than k + 1 in k times five.
- **Failed verification** (`MarketStop`). The same document says that a failed
  verification pass after a refusal "stops again". A manual pass that fails on the
  network ends with status `error` and a due time, so scheduled passes resume. What
  does hold is `OnlyManualRunLiftsStop`, and that this run began after the refusal
  (`StopEndsEveryPass`).
- **Empty boundary** (`KillBoundary`). `tests/test_worker.py` (lines 291 and 298)
  states that ids found empty with no report above them are asked again, for a
  probe that ends on its budget and for one that crashes. A probe that ends with an
  exception (`discovery.py:298`) frees the cursor without rewinding it; only the
  recovery of an expired lease and a normal finish do. It is the only way to lose
  such ids (`BoundaryLostOnlyByException`).

An observation without a statement to check it against: when two kills share a
second, a probe may set `last_success_id` below the collector's search
(`discovery.py:387`), and the plan is then refused until a probe has passed the
frontier. Nothing is lost: `NothingForgotten` holds.

Another: because the reset of `failure_count` asks for no ownership
(`freshness.py:320-321`), a superseded collector that ends its round may put the
holder's count back to 0, and the holder's next cooldown is shorter. No document says
otherwise; `SupersededOnlyResets` states the write as what is left to such a run.

## 6. Not modelled

In the components above:

- Coordinator: path and schema checks of the file (they only refuse).
- Market: the session cursor of the pool and the split of a batch between priority
  tiers (they choose which items and which slot, not how many or when); the two
  lesser time budgets of a pass; attempt stamps of items; health and quality views
  (read-only).
- Killboard: the length of a cooldown (it may end at any moment); the bootstrap of a
  cursor (a one-off command); what a stored report contains (`persist_report` is
  one transaction inside `Record`).
- Hotspots: checksums and sizes in the manifest (a sample is whole or not); the race
  of `lstat` and `open` inside one check; `snapshot.py`, the older single-file store.
- Tactical: invite codes, further organizations and boards, the roster, the
  place a report stands on; the 30-frames limit, origin and token checks are the
  nondeterministic `Close`.
- Release: packing, validation, staging, preflight and transfer (they refuse, or add
  a directory that nobody uses yet); the fsync of directories; a `.venv.next` left
  behind. (The Killboard and Anomaly wrappers do not look for a journal; this is
  modelled: `CheckJournal` concerns the market's collector only.)

Components left aside:

- **Captured game protocols, transports, parsers, session bundles**
  (`collector_protocol.py`, `collector_transport.py`, `parser.py`,
  `session_bundle.py`): wire decoding without lasting state, whose outcomes appear
  in the models as choices of an answer.
- **License**: one read and one save in a request. Its race (two machines validate
  one unbound code) is among the hazards; no document or test says what the second
  machine should see, so there is nothing to check it against.
- **Community, Starsea, Authentication, Feedback, FraudList, ControlCenter,
  Bazaar**: CRUD, each request one transaction over one row or one query.
- **Planetary resources, star field search, A\* routing, tactical graph**: functions
  of static data, without state between requests. **Pirate reports**: a cached
  projection and counters.
- **React views and hooks** other than the outbox: presentation of what the server
  says.
