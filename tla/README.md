# Grosh in TLA+

Grosh collects bank transactions of its users (Monobank webhooks and backfills,
manual entries), normalizes them, enriches them (transfer detection, currency
conversion) and shows them. The services are Python/asyncio processes that share
a PostgreSQL database and talk through Kafka topics. This directory holds
specifications of the parts where processes, database transactions and messages
interleave, their model-checking configurations, and machine-checked proofs.

## 1. The system

```
 Monobank ──webhook──▶ ingestion API ──raw topics──▶ normalization ──▶ normalized_transactions ──▶ enrichment ──▶ transactions
 user ─────manual────▶      │                          │   ▲                     ▲
                            │ trigger                  ▼   │ drain               │ replay
                            │                       staging table                │
                            └── lock row + K8s Job ─────────────▶ reprocess pod ─┘
```

| Part | State | Operations | Hard behaviours | What makes it correct |
|---|---|---|---|---|
| Reprocess job (`normalization/reprocess_main.py`, `services/reprocess_orchestrator.py`) | lock row, advisory lock, backup rows, `transactions`, producer queue | check lock, lock, back up, read, delete, replay, wait, verify, restore, release | dies anywhere; statements commit one by one; two pods; replay through two other processes; timeouts | no backed-up row missing once settled; a half-done job is never taken for a finished one; the lock is released |
| Reprocess triggers (`ingestion/routers/reprocess.py`, `admin_reprocess.py`) | `users.last_reprocess_started_at`, lock rows, K8s Jobs | single, bulk and forced trigger | one transaction around an external call; row-lock waits, deadlock; submission that times out | one job per user under its own lock row; quota; every request is answered |
| Normalization consumer, staging drain (`normalization/consumers`, `services/staging_drain_service.py`) | raw offset, staging rows, two producer queues, LISTEN connection | route, stage, publish, drain on NOTIFY, sweep | lock appears while routing; concurrent drains; lost NOTIFY; crash with queued messages | nothing silently lost; order kept; staging empties |
| Enrichment (`enrichment/consumers`, `services/enrichment_orchestrator.py`) | offset, `transactions`, anomalies | insert one event in one transaction under a per-user lock | redelivery, poison messages, waiting for one's counterpart | idempotent insert; both halves of a transfer agree |
| Currency rates (`ingestion/repositories/currency_rate_repo.py`) | `currency_rates` validity intervals | poll, historical upsert | concurrent writers, each reads its neighbours first; boundaries of intervals | history has neither overlap nor gap; a date is answered by the newest publication before it |
| Currency conversion (`enrichment/services/currency_conversion_service.py`) | the transaction it runs in | load the chain of sources, look for a path of one or two rates, convert | every look-up is a statement with a snapshot of its own, while rates are written; five nested orders of preference | the path found is the best one; writes never cost it; no amount is overstated |
| Monobank linking (`ingestion/sources/monobank`) | integrations, accounts, webhook secret at the bank | link, rotate, unlink, rebind, re-register, webhook | external call inside a transaction that may fail; two links at once; a job that autocommits from a stale copy; row locks, privileges and row level security | one account row per card; a webhook never leads to another customer; after requests that did not overlap, what the bank reports reaches an account |
| Backfill (`ingestion/services/backfill_service.py`) | K8s Jobs, integration status | start; read token, fetch, mark a refused token | Jobs that are retried, killed and collected; integration unlinked or rotated meanwhile | one active backfill per account, but for the last attempt |
| API sessions (`api/services/auth_service.py`) | refresh tokens, revoked access tokens, `users.is_active` | login, refresh, logout, logout_all, deactivation, purge | the response leaves before the commit; concurrent refresh and logout; locks in two orders; expiry | a spent refresh token and an ended access token stay refused; logout_all is final until the next login; only deletions of all tokens of a user can deadlock |
| Manual transactions, normalizers, error budget, API reads, frontend, ML stub, infrastructure, migrations | — | — | — | not modelled: validation, parsing, a counter, queries, user interface, deployment |

`PROJECT.json` has the same list with the state of each part, and every hazard
of the code with the property that covers it or the reason why none does yet.

## 2. Modules

| Module | Contents |
|---|---|
| `ReprocessJob` | one user's job: trigger, pods, Kafka, enrichment's insert, operator |
| `ReprocessContract` | abstract specification: what reprocessing promises about the table |
| `ReprocessJobProperties` | properties of the job and the refinement mapping to the contract |
| `ReprocessJobProofs` | proofs |
| `StagingRouting`, `StagingProperties` | normalization consumer and staging drain of one user |
| `StagingProofs` | proofs |
| `ReprocessTrigger`, `TriggerProperties` | concurrent trigger requests over several users |
| `TriggerProofs` | proofs |
| `TransferDecision` | the pure part of transfer detection: candidates, IBAN evidence, decision |
| `TransferPairing`, `TransferProperties` | enrichment of one user's rows with transfer detection, beside a reprocess job |
| `TransferProofs` | proofs |
| `CurrencyRates`, `RatesProperties` | the rows of one source and currency pair under concurrent pollers and historical writers |
| `RatesProofs` | proofs |
| `RateConversion`, `ConversionProperties`, `ConversionProofs` | the search for a conversion path beside the writers of rates; the reference order of all paths |
| `Sessions`, `SessionsProperties` | requests that issue, rotate, revoke and delete the tokens of the API |
| `SessionsProofs` | proofs |
| `MonobankLink` | requests that link and unlink customers of the bank, the re-registration job, the bank, where its reports lead |
| `MonobankBackfill` | extends `MonobankLink` with backfill Jobs and their pods |
| `MonobankProperties`, `MonobankProofs` | properties of the two together; proofs |
| `MCReprocessJob`, `MCTrigger`, `MCTransfer`, `MCRates`, `MCConversion`, `MCSessions`, `MCMonobank` | what TLC needs besides: the symmetry of pods, short lists of users, sets of legs, rates, chains of sources, customers |

Operators named `Mutant: ...` in a comment are not part of a specification: each
is a variant of the definition that follows it with a plausible bug, and the
property named with it in `PROJECT.json` fails when it takes that definition's place.

### How the models correspond to the code

**ReprocessJob.** Lock row, advisory lock, backup, partition and rows are all
keyed by `user_id`, so one user is enough. `pc[p]` is the statement of
`reprocess_user` that pod `p` executes next; the connection is in autocommit mode,
so every statement is a step of its own (the snapshot's SELECT and INSERT of the
backup are one step, because nothing that changes the table between them is visible
to the pod: what is read is what is saved). `AdvisoryUnlock` and `CommitRelease`
are two steps of the same transaction: `pg_advisory_unlock` takes effect before the
commit. `restoring` is the `except` branch. `PodFails` covers a kill and every
exception outside the recovery zone, including one raised by the restore; both leave
the lock row; `VerifyRaises` is an exception of a statement inside the zone, which
starts the restore. Rows and messages are transaction ids: payloads do not matter to the
properties. `outbox` is the producer's local queue, `topic` the part of the partition
that enrichment has not committed. A trigger is open (`trigger`) from the INSERT until
the commit, which `get_db_conn` performs after the handler; `RollbackTrigger` is the
rollback after a submission whose Job exists nevertheless. The operator's actions
follow the recovery procedure of the ADR and wait until no pod is live.
`StrictRouting` excludes publications while the lock row is visible: `job_event_lost`
sets it, so that its counterexample does not rest on the routing leak.

**StagingRouting.** `next` is the committed raw offset; `cons` is where `_route` is.
A drain task selects rows, then publishes and deletes one by one. Two producers exist
in the process, hence two queues. `notified` is lost when no listener is connected.
`lost` records why the service gave an event up. A graceful stop flushes the queues
and is the delivery of what is queued followed by `Crash`.

**ReprocessTrigger.** A request is one READ COMMITTED transaction. `claimed` and
`pending` are its uncommitted writes to `users` and `reprocessing_locks`; they block
others exactly as row locks and unique-index entries do. In `Eligible`, a row claimed
by the same transaction is not eligible again because `now()` is the start of the
transaction. `job` is the list of users the Job still has to process.

**TransferDecision, TransferPairing.** A *leg* is what the bank reports of one side of a
transfer. The code tells descriptions apart by a prefix, membership in a table of known
phrases, the multi-hop phrase, and the account type and currency a known phrase
requires; a description is the record of these four, the last one as the set of accounts
that fit. An IBAN is the account it belongs to. `amount` and `opAmount` are the account
and operation amounts, `time` counts seconds. `transfer` combines the MCC and the direction
that make a row a transfer, incoming or candidate. `source` decides whether the incoming row is looked
at (`Detects`: only Monobank has a strategy); the candidate query does not ask for it, so a leg
the user has entered by hand can be found, but finds nobody.

One message of a worker is one database transaction: `Gate` takes the advisory lock and
decides whether detection runs, `Fetch` reads the row's own IBAN and locks the candidates,
`Persist` is everything from the filter to the commit. These are three steps because
accounts can be linked and a reprocess job can delete or restore rows in between; claim,
resolution of anomalies, INSERT and new anomaly become visible together. The IBAN
of the incoming row is resolved in `Fetch` and those of the candidates in `Persist`;
`Verdict` uses the accounts of `Persist` for both, which is the same, as accounts are only
added and a row whose IBAN was unknown in `Fetch` has taken the short-circuit.
`Crash` is a death of the process or an exception, which ends it: no offset is committed.
The reprocess job does not take enrichment's advisory lock (its key is
`reprocess:<user>`), so its DELETE overlaps with a transaction (`Replayed` bounds the
combinations of legs beside which a job runs): `doomed` is what
the DELETE sees when it starts, and it ends when no worker holds one of these rows. Its
foreign-key action is `RelatedAfterDelete`. The other faults of the job are in
`ReprocessJob` and not repeated here.

**CurrencyRates.** Both upserts are keyed by source and currency pair, so one pair is
enough. Polled and historical rows are two sequences that no statement mixes.
Two polled rows may be equal, so `polled` is a sequence in order of insertion;
historical rows are told apart by their dates. `SelectOpen` is the snapshot of SELECT ...
FOR UPDATE, `UpsertPolled` everything after the lock has been granted: READ COMMITTED then
looks at the locked row again (`seen[p] \cap OpenRows`) and never at rows that were not in
the snapshot. `ReadHistory` takes the advisory lock and reads; the two or three SELECTs
are one step, as only holders of the lock write historical rows. The table has no unique constraint and
`at_time` is the bank's date, so a poll may close a row at the date at which
it began. A rate is what `_rates_equal` compares. `reported` and `published` are ghosts:
what reached the table, in commit order.

**RateConversion.** `conv` is one conversion: tier, number of the pivot (0 is the direct
leg), the left leg when it has been found, and the number of the next statement of
`_resolve_leg`. `FindRate`, `NextProbe`, `NextPivot` and `NextTier` are the nested loops of
`_resolve_path`, one statement per step, because READ COMMITTED gives each its own
snapshot; `Poll`, `PollAgain` and `Backfill` write in between. The chain of sources and the
pivots do not change while the services run, so they are functions of `config`. Which
source is polled is the registry's; historical rows have a middle rate only. The three
target currencies of an event are converted independently, so one conversion per
behaviour is enough. Amounts are magnitudes. In-place corrections of history are in
`CurrencyRates`; here, a rate is written once. A middle rate is positive: nothing in
the schema says so (`rate_mid` is only NOT NULL), but the code divides by it. `Null` is not a
rate: a side of zero is a value of its own (`NeverOverstates` speaks of rows that sell above
their middle rate, so nothing is divided by it). Amounts of a path are exact
fractions, rounded once at the end; the 28 digits of Python's Decimal in between are not
modelled. The chain is
a sequence that follows the fallbacks (`Falls`) as the recursive query does, to
its end or to the cap. The reference
(`RankedPaths`, `WholeChains`) does not search: it takes all paths over all rows and
orders them by a tuple.

**Sessions.** `pc` is the next statement of a request; its uncommitted writes are fields of the
request (`new`, `holds`, `revokes`, `locksUser`), which `Commit` makes visible and for which
others wait. An access and a refresh token issued together have one number. `Respond` precedes
`Commit`, as FastAPI runs the exit of `get_db_conn` after the response (uv.lock:758). The DELETE
of `logout_all` is a snapshot and then a step per row (`DeleteRow`), in any order, each when
nobody else has the row locked: what it has deleted it holds while it waits for the next. `Stuck`
is the deadlock detector's circle of waiting requests; any of them may be its victim. A request
that is refused at its first check, or breaks before its response, leaves nothing and is not made.
`signedOut`, `ended` and `spent` are ghosts, and so is `raced`, which says that a login or refresh
of the user overlapped a `logout_all`.

**MonobankLink, MonobankBackfill.** A request is one transaction; its uncommitted writes are
fields again, and `CommitLink`, `CommitRotation` and `CommitUnlink` make them visible. `Register`
is the bank: it takes the URL or, with a stale token or a lost call, does not, and the code goes
on (best effort). Integration ids and webhook secrets are numbers from one counter. `Link` has the
first SELECT, `CheckConflict` the second, `InsertIntegration` the INSERT ... ON CONFLICT with the
SELECT that follows it in the same function, `Reselect` the one after. `UpdateConfig` and
`PushConfig` are the two halves of one integration in the re-registration job, on a copy taken at
its start. `role` is what the service connects as and never changes: `grosh_ingestion`, as
deployed, may not delete from `bank_integrations`, and row level security hides every row from its
re-registration job; `owner` is the role of the integration tests and of the migrations.
`Publishes` is the receipt of a webhook, which changes nothing here: secret to active row, row and
card to an account. In `MonobankBackfill` a Job has the number of failed attempts that Kubernetes
reports; a pod looks the account up by card and integration and reads the token once
(`ReadIntegration`), queues what it has fetched (`FetchStatements`), and ends when it is flushed
(`Flush`). The check and the creation of a Job are one step, because both are synchronous calls in
one event loop.

## 3. Runs

| Run | Shows |
|---|---|
| `job_safety` | `TypeOK`, `BackupHonoured`, `ReplayConserved` with two overlapping pods, failures, losses and a rolled-back trigger |
| `job_contract` | `StrandedKeepsLock`, the refinement `RefinesContract`, and `JobReleasesLock` under `Fairness`, without rolled-back triggers |
| `staging` | `TypeOK`, `CommittedEventsAccounted`, `DrainedInOrder`, and `StagingEmpties` under `Fairness`, with locks, a notified drain beside the sweep, a crash or a failed publication |
| `trigger` | `TypeOK`, `OneJobPerUser`, `RateLimitHolds`, and `EveryRequestAnswered` under `Fairness`, deadlocks included |
| `transfers` | `TypeOK`, `PairsMutual`, `UnpairedExplained`, `StrongestPartner`, and `MatesFindEachOther` under `Fairness`: three legs in every order of arrival, accounts linked at any time, one duplicate, crash or rebalance, and for a pair with a rival a reprocess job that deletes, replays and perhaps restores |
| `rates` | `TypeOK`, `HistoryTiles`, `HistoryAnswers`, `OrphanGuardSilent`, and, with one poller, `FreshIsLastReport`, `FreshSettled` |
| `conversion` | `TypeOK`, `BestPathWhenQuiet`, `WritesNeverWorsen`, `NeverOverstates`: two sources, two pivots, chains that end, run in a circle or do not exist, up to four rates written before and during the search |
| `sessions` | `TypeOK`, `LogoutAllEndsSessions`, `EndedAccessRefused`, `SpentTokenRefused`, `DeadlocksNeedBulkDelete`: any three requests at once of a user with one or two sessions, with expiry, purge and a lost transaction |
| `monobank` | `TypeOK`, `OneAccountPerCard`, `OwnCustomerOnly`, `ReportsArrive`, `OverlapAtLastAttempt`, under either role: four requests, jobs or new tokens of a user with two customers, and one fault |

Runs that end in a counterexample, each of a sentence in the repository (quoted in
`PROJECT.json`, findings):

| Run | Counterexample |
|---|---|
| `job_event_lost` | event in flight before the lock, inserted after the snapshot, deleted with the rest |
| `monobank_relink` | the bank refuses the token during a backfill and the integration is marked; a link with a new token finds no *active* row, its insert meets the unique index, which ignores the status, and it has no id to answer with: 500, for ever |
| `monobank_unlink` | with the role the service is deployed with, an unlink deregisters the webhook, is refused the DELETE and answers 500: the integration stays active and nothing is reported any more |

Further behaviours of the code can be seen in the models without a run of their own.

* `ReprocessJob`: A pod that looks for the lock row before the trigger has committed skips
  the user, and the row stays until an operator deletes it. A submission that times out
  rolls the lock row back although Kubernetes may have created the Job; after a retry two
  pods pass the check, and the one that waited for the advisory lock rebuilds after the
  other has deleted the lock row.
* `StagingRouting`: An offset is committed while the message is in the producer's local
  queue, so a crash loses the event (`lost`, although a comment of the consumer says
  at-least-once). The lock row may be committed between the EXISTS query and `produce()`,
  and a drain that has begun does not look at it again, so events reach the topic of a
  locked user.
* `ReprocessTrigger`: A bulk request without a target commits the slots it claimed (the ADR
  says it rolls back).
* `TransferPairing`: A message that is delivered again while its row is being deleted passes
  for a duplicate at the gate and is inserted without detection once the row has gone;
  `GateReliable` excludes this combination of a job and a fault from `UnpairedExplained`,
  although the ADR says of the gate that it must not fire during reprocessing. A restore
  over a partial replay brings a row back with its old partner, which has been paired anew
  or not at all; hence the condition of `PairsMutual`. A worker that is between its query and its
  decision does not see a row that a restore brings back, nor one whose partner a DELETE
  takes away; hence `NoRestore` and `~pair[c].claimed` in `StrongestPartner`.
* `CurrencyRates`: Two pollers of one pair that find no open row to lock, or one that the
  other closes meanwhile, both open one; `FreshIsLastReport` therefore speaks of one (`OnePoller`).
* `RateConversion`: `K`, the number of polling periods for which a polled rate counts as
  fresh, is not cosmetic, as 003's technical considerations (line 789) have it: the tier
  decides which row is taken, and so the value.
* `Sessions`: Two refreshes that have both read the token's row both succeed (002's
  technical considerations, line 209, say one of them gets 401), which is why
  `SpentTokenRefused` speaks of what follows the first commit. A logout between the
  response of a login or refresh and its commit finds no row yet, and the token survives
  it. `logout_all` does not reach a token that an overlapping login or refresh issues,
  against its docstring (auth_service.py:190-194); hence `raced`. A refresh and a
  deactivation lock token and user in opposite orders: one of them may be a deadlock victim.
* `MonobankLink`: With the role `grosh_ingestion` the re-registration job sees no row and ends
  without having done anything. With the role of the owner, it overwrites a token that was
  rotated meanwhile, and an unlink deletes a row whose rotation answers 200. With either, a row
  that is active for one SELECT of a link and not for the next leads to a second account row
  (`slipped`); two links of different customers at once leave two active integrations; a
  commit that fails after `set_webhook` leaves the bank with a URL nobody knows.
* `MonobankBackfill`: A Job at its last attempt is taken for exhausted
  (backfill_service.py:49-50), so a second one may run beside it, which is what
  `OverlapAtLastAttempt` describes. A pod that is refused marks the integration it was
  started for, by its id, which hits no row when that integration has been unlinked, and a
  row whose token has been replaced meanwhile when it has been rotated.

**Bounds.** Two pods are needed for every overlap the locks must prevent (a third repeats the
second); two transactions let a replay be half done and let one row stand for another in a count.
One arrival, one failure and one loss each are enough to place the fault at every step, since the
properties hold or fail at a single fault. Staging needs two events for order; the user starts
locked or not and may be locked once more, so two periods of locking, one drain started by a
notification and the sweep, and one fault (a crash or a failed publication). Triggers need two
users and two requests for a deadlock, and a list that names a user twice. Detection needs three
legs: two that belong together and a rival of either; the 24 combinations of `ThreeLegs` cover
every IBAN status of both sides, differing amounts, both edges of the window, known, unknown and
multi-hop descriptions, and a row that is no transfer; in the two of `HalfByHand` the rival is
entered by hand. Two workers are the old and the new owner of the partition, and one fault is
enough to put them into each other's way. The two of `PairAndRival` have a rival on either side; a
job runs beside one of them (`TwoExpenses`; beside both once, with the same result). Rates need
three dates (a row in the middle of another one), two writers of history, and four fetched rates;
a bump, a change and one more poll show everything about polled rows. Two rates that differ in the
buying rate only. Conversion has a pair with a direct rate of each direction and paths over both
pivots, so that every order of preference has two candidates to rank; times 1 to 4 with a grace
and a largest age of 1 put a rate on either side of every limit; four rows of seven are the
longest path with a rival for each leg. Sessions need two requests at a time for every race, three
for a circle of three or for what a used token is worth afterwards, and two sessions for two
deletions that meet in opposite orders; lifetimes of one tick, on a clock of two, reach the second
before, at and after expiry. Monobank needs two customers with a card each to confuse, two
requests at a time, and four operations: link, loss of the binding, link again, and one that
interferes (five were tried once, with the same result). One failed attempt is the last one
(`BackoffLimit = 1`). Symmetry is used in `job_safety` (of pods) and `sessions` (of connections),
which check no liveness.

**Deadlock** is not checked: the system may stop when no request, event or failure is
left within the bounds.

**Fairness.** Weak fairness of whatever has been started: a request handler, a running pod (its
timeouts included: the loop is bounded by 600 seconds in the code), the producer's background
thread, the consumer's loop, the 60-second sweep, the drain tasks, and the members of enrichment's
consumer group. The reprocess job beside which `transfers` runs has none: `MatesFindEachOther`
does not need it to go on. No fairness for triggers, arrivals, faults, the operator, the
listener's reconnection or the release of a lock. Failures of a pod remain possible in
`job_contract`: `JobReleasesLock` lets the lock stay when a pod has been killed or stranded the
user, because the code then leaves it to the operator by design.

## 4. Proofs

Proved by TLAPS for any sets of pods and transactions and any bounds, from
`ConstantsAssumption`:

* `TypeCorrect`: `Spec => []TypeOK`. `TypeOK` alone is not inductive, because the offset
  commit takes the tail of the partition: `InsertedMessage` adds that the message being
  processed is still there.
* `BackupIsHonoured`: `Spec => []BackupHonoured`, even when triggers are rolled back and
  two pods run. The restore reads the *latest* backup and the verification the pod's *own*
  `snapshot_ids`; the inductive invariant `JobInv` therefore adds that a working pod
  has the advisory lock (`HoldersLock`), that the latest backup holds its writer's
  snapshot (`BackupIsSnapshot`), and that it is the working pod's own (`HoldersBackup`).
* `ReplayIsConserved`: `Spec => []ReplayConserved`. `ReplayInv` follows the ids of a pod's snapshot
  from the table over the events it has reconstructed to its producer queue, the part of the
  partition that is still to be inserted (`Unread`: without the message whose row is in the
  table already) and back into the table. That nobody else deletes meanwhile is `HoldersLock`.

Under the further assumption `MaxRollbacks = 0` (no trigger is rolled back after
its Job was created; without it, two pods may work without a lock row, see above):

* `StrandedUserStaysLocked`: `Spec => []StrandedKeepsLock`. `LockInv` adds that at most one pod
  is busy or stranded, that it has the lock row or an open trigger, that an open trigger
  hides no committed row, and that a stranded pod's backup is still the latest.
* `JobImplementsContract`: `Spec => RefinesContract`. `TablePhase` maps the phase of the writer of
  the latest backup to settled, rebuilding or stranded; each action is one step of
  `ReprocessContract` or leaves it alone.

For transfer detection, from `AccountsAssumption` and `PairingAssumption`:

* `DetectionIsSymmetric`: the one-sided tests of the candidate query and the consistency
  filter agree with `Mates`, a relation of two legs that has no first and second, unless
  the row's counterparty is an unlinked account (then the query is never made).
* `TransferTypeCorrect`: `Spec => []TypeOK`; `OwnerHasMessage` adds that the partition is not
  empty while its owner is busy.
* `TransfersPairMutually`: `Spec => []PairsMutual`. `MutualInv` adds what a claim rests on: one
  transaction at a time (`OneTransaction`, from the advisory lock), the found rows are
  stored and free (`FoundIsFree`, from the row locks, which keep the DELETE away),
  and a row that detection runs for is new (`DetectedIsNew`, from the gate). The decision
  enters only through `VerdictIsSound`: it claims nobody or one of the rows found.
* `LegsLeftApartAreExplained`: `Spec => []UnpairedExplained`. `FoundIsComplete` is the counterpart
  of `FoundIsFree`: what a worker has found is still everything that could be claimed when it
  decides; a row whose own counterparty is not linked belongs to no stored row
  (`UnlinkedIsAlone`), because only linked accounts report (`FromBank`). Where the gate can be
  trusted, every new transfer row has been through the detection: without a job no row is deleted
  (`KnownIsStored`), and without a fault the waiting messages are distinct and none has its row in
  the table (`EachOnce`), a replay appending just what the DELETE has removed.
* `StrongestPartnerIsTaken`: `Spec => StrongestPartner`, from the same invariant. `DecisionIsFair` says
  that the buckets of the decision are those of the best evidence, and `RankCountsWitnesses` that
  the evidence counts the IBANs that speak for a pair.

For historical rates, from `RatesAssumption`, for any number of writers, dates and publications:

* `SlotInIsSound`: an upsert turns rows that tile the time, one of them open, into such rows; the
  date has its new rate and every other date the one it had. One lemma for each of the four
  cases of the code; that the first later row exists rests on the well-order of the naturals.
* `HistoryTilesTime`, `OrphanGuardNeverRaises`, `HistoryIsNewestPublication`: `Spec =>
  []HistoryTiles`, `[]OrphanGuardSilent`, `[]HistoryAnswers`. `HistoryInv` adds that there is an
  open row once there is any (so no date is orphaned), that what a writer has read is what the
  table holds and nobody else has read (`ReadIsCurrent`, from the advisory lock), and that rows
  and published dates correspond, each with the rate published last (`PublishedRows`).

For polled rates, from the same assumption, with one poller of the pair and any historical writers:

* `FreshRateIsLastReport` and `FreshRateIsSettled`: `Spec => []FreshIsLastReport` and
  `Spec => FreshSettled`. `PolledInv` adds that the poller holds the bank's newest date and the
  one open row (`PollerIsCurrent`), that rows follow each other and only the last is open
  (`RowsInOrder`), that it has been confirmed by every report so far (`LastRowConfirmed`), and that
  a row says of each time it covers what was last reported then (`RowsSayReports`). It is one
  poller (`OnePoller`) that makes the first hold; see section 3 for two.

For staging, from its `ConstantsAssumption`, for any number of events, notified drains, locks and
faults:

* `StagingTypeCorrect`: `Spec => []TypeOK`. `Busy` adds that a drain that publishes or deletes
  has a row to do so, that a routed event exists, and that the table is finite (its ordered
  snapshot needs a cardinality).
* `NoEventForgotten`: `Spec => []CommittedEventsAccounted`. `Accounted` adds that an event
  counts before its offset is committed, and that a row about to be deleted has been published,
  so that the DELETE takes nothing that is not queued, delivered or given up; what has
  been `Sent` stays so through deliveries, failures and crashes.
* `RowsDrainInOrder`: `Spec => []DrainedInOrder`. `OrderInv` says the same of every place a
  row passes: before a row stands in the topic (`TopicOrdered`), the drain's queue
  (`QueueOrdered`) or the snapshot of a drain (`TasksOrdered`), every row staged earlier
  that is still known is in front of it or further on. `RowsTracked` adds that rows are numbered
  in the order of staging and that a selected row that has gone from the table has been published.
  The queue is one, and a drain publishes from the front: two snapshots may interleave in
  any way. That a first occurrence exists rests on the well-order of the naturals.

For the trigger endpoints, from their `ConstantsAssumption`, for any users, requests, bodies and bounds:

* `TriggerTypeCorrect`: `Spec => []TypeOK`. `Ordered` adds that row locks belong to transactions
  that are open and that a lock row is inserted for a user who is still to do.
* `QuotaHolds`: `Spec => RateLimitHolds`. `QuotaKept` adds that the targets of an open request are
  claimed by it, and that what is claimed without force was not in its hour.
* `JobsAreApart`: `Spec => []OneJobPerUser`. `Apart` adds that a user in a Job has the lock
  row of its request, committed or not, that an uncommitted lock row excludes a committed one, and
  that no Job lists a user twice (or it would go on with a user whose lock row it has deleted).

For sessions, from `SessionsAssumption`, for any users, connections, lifetimes and bounds:

* `SessionsTypeCorrect`: `Spec => []TypeOK`.
* `SpentTokensStayRefused`: `Spec => []SpentTokenRefused`. Whoever commits, the row of the
  token it was given has gone or goes with the commit (`TokenIsDoomed`: the token of a
  request behind its DELETE is in `holds` or in no row), and no commit brings an old
  number back (`NewIsFresh`).
* `EndedAccessStaysRefused`: `Spec => []EndedAccessRefused`. A token of a committed
  logout is revoked or expired (`EndedInv`), and the purge takes expired ones only.
* `LogoutAllIsFinal`: `Spec => []LogoutAllEndsSessions`. `ClosingInv` follows a `logout_all`
  that nobody has overlapped: until its commit it deletes every token there is of the user
  (`DeletesAll`), and from then to the next login nobody has, or is about to get, one (`Closed`).
* `OnlyBulkDeletionsDeadlock`: `Spec => []DeadlocksNeedBulkDelete`. `LocksInv` says what a request
  holds at each statement: one that waits to delete a single token holds nothing yet, and what
  a logout revokes it revokes last. Hence in every circle there is a deletion of all tokens,
  and it waits for another one or for a refresh that has deleted its token and waits for the user.

For Monobank, from `MonobankAssumption` and `BackoffAssumption`, for any customers, cards,
connections, roles and bounds:

* `MonobankTypeCorrect`: `Spec => []TypeOK`. `Shape` adds which fields each step of a request has set
  (`Controlled`, `JobsControlled`) and that a row others refer to cannot be deleted
  under them (`RowsHeld`, from the row locks), so that accounts refer to rows that exist.
* `OverlapsAtLastAttemptOnly`: `Spec => []OverlapAtLastAttempt`. `OlderSpent` adds that
  all Jobs of an account but the youngest do not look active, and never do again.
* `CustomersStayApart`: `Spec => []OwnCustomerOnly`. An id or a secret is given out once, and
  everything that later leads to it - requests, rows, accounts, the bank, the copy of the
  re-registration job - belongs to one customer (`Owned`).
* `OneAccountForEachCard`: `Spec => []OneAccountPerCard`. The unique index makes one row per
  customer and lets one link at a time own its insert (`OneOwner`); a link that does not own it
  has no id to bind new cards to until it has selected the row again, and the cards the owner is
  about to add have no account row (`CardsOnce`). That customers do not share a card is part of
  `MonobankAssumption`: the bank numbers its accounts itself.
* `OrderlyReportsArrive`: `Spec => []ReportsArrive`, for either role. `InOrder` says that whoever
  is at work is alone (`Alone`), what a request at each step knows of the row and of the bank
  (`RequestInOrder`), that the configuration a job is about to push is that of the row
  (`JobInOrder`), and that an active row whose URL the bank does not have is one of which the bank
  knows none, or one the job is about to settle (`RowsInOrder`). `CardsBound` follows the URL
  further: a row has an account for each card of its customer, through rebinding and new links
  (`Covers`), whoever overlaps.

For conversion, from `ConversionAssumption`, for any sources, chains (those that run in a
circle too), rates, goals and bounds:

* `ConversionTypesHold`: `Spec => []TypeOK`. `Typed` adds which fields the search has at each step
  and that half a path is of its tier. That the chain of an entry exists, keeps
  the cap and is the only one to follow the fallbacks, and that the pivots are a finite
  sequence without the ends of the path, are lemmas about `ChainAfter` and `Pivots`.
* `AmountIsNeverOverstated`: `Spec => []NeverOverstates`. Each leg multiplies by a rate no higher, or
  divides by one no lower, than its middle rate; fractions are compared by their cross products, and
  one rounding at the end keeps their order.
* `WritesCostNothing`: `Spec => []WritesNeverWorsen`. `TableInv` says of polled rows of one source and
  pair that they do not overlap and that the open one is the last. `KeptInv` says that what a row
  known at the start would have answered is still answered, by this row or by the one that
  closed it: a fresh answer stays fresh, a close one close. `PassedInv` says that for each tier and
  pivot the search has left behind, and each statement of the leg it is at, the table of the start
  had nothing to offer.
* `QuietSearchFindsBest`: `Spec => []BestPathWhenQuiet`. A write leaves a table that no earlier
  time had (`WriteIsNew`), so the table of the start and the present one are equal only if nothing
  was written; then each leg in hand is the least step for its currencies (`BestInv`), and a chain
  that fails is never searched (`WholeInv`). Lemmas about the order of tuples join the orders of
  the legs to that of the paths.

Only model-checked is liveness (`JobReleasesLock`, `StagingEmpties`, `EveryRequestAnswered`,
`MatesFindEachOther`): properties under fairness are beyond this prover. Every
other property of a passing run is a theorem.

## 5. Not modelled, and the plan

Left out of the models above: payloads, logging, authorisation, unknown users in a bulk list,
messages that cannot be parsed, `AccountNotFoundError` (no code path deletes an account), the
status endpoints, `clean_stale_locks` (no caller), registration and passwords, the polling of the
bank's rate limit inside a backfill (one chunk is all the router allows). Not modelled at all are
parts without an interleaving of their own: the normalizers, manual transactions (whose rows
appear as legs in `TransferPairing`) and parsers map one value to another, the error budget is a
counter whose exhaustion is a crash in the models of the consumers, the read endpoints are
queries, and frontend, ML stub, migrations and infrastructure hold no state of the core (what the
code relies on in the schema, grants, policies and cron jobs is in the actions that meet it).

Next: `ReprocessSystem`, job, staging and triggers over one lock row and one topic, with the
contract of the job as what the other two may rely on.
