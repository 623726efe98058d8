# Verification of mytonprovider-agent

TLA+ models of the agent in `src/`, the TLC instances that check them, and
TLAPS proofs of the main results. Paths below are relative to
`src/internal/` unless they start with `src/`.

## The system

The backend adds a trigger (`job_id`) to one Redis stream per cycle
(`mtpa:cycle:<type>`). Agents read the stream through a consumer group, run the
cycle's handler, add a result envelope to `mtpa:result:<type>` and acknowledge
the trigger. The backend applies each result in one transaction and drops
results of a `job_id` it has already processed. There are seven cycles, served
by four use cases that share Postgres with the backend.

| Part | Source | Module | State |
|---|---|---|---|
| Workers, `process`, XACK | `adapters/inbound/redisstream/consumer.go` | `Consumer` | modelled |
| Reaper | `adapters/inbound/redisstream/reaper.go` | `Consumer` | modelled |
| Consumer group | `adapters/inbound/redisstream/groups.go` | `Consumer` | modelled |
| Promise of a cycle stream | the three above | `JobBoard` | abstract specification |
| Result publisher | `adapters/outbound/redisstream/publisher.go` | `Consumer`, `MasterScan`, `WalletScan` | partly |
| Start, SIGTERM, restart | `app/app.go`, `src/cmd/app/main.go` | `Consumer` | partly |
| `scan_master` | `usecase/discovery`, `ton/master_scanner.go`, `ton/liteclient`, `postgres/system.go` | `MasterScan` | modelled |
| `scan_wallets` | `usecase/discovery`, `ton/scanner.go`, `postgres/provider.go` | `WalletScan` | modelled |
| Promise of a scan cycle | `usecase/discovery` | `ScanFeed` | abstract specification |
| `probe_rates`, `inspect_contracts` | `usecase/poll`, `ton/inspector.go`, `ton/liteclient` | `Poll` | modelled |
| `resolve_endpoints` | `usecase/discovery`, `adapters/outbound/dht`, `postgres/endpoint.go` | `Endpoints` | modelled |
| `lookup_ipinfo` | `usecase/update`, `adapters/outbound/ipconfig`, `postgres/ipinfo.go` | `Endpoints` | modelled |
| `check_proofs` | `usecase/proof`, `adapters/outbound/directprovider` | `CheckProofs` (extends `Endpoints`) | modelled |
| Configuration, metrics, telemetry, pool, load generator, `adnlclients` | | | not modelled: no protocol state |

## Consumer

One cycle stream, its group and the agents that serve it. A stream entry is its
position in the stream. The pending entries list (PEL) is `pending`, the group's
last-delivered-id is `last`, and `start` is the entry `"$"` stood for when the
group was created.

An agent has threads `1..Pool` (`runWorker`) and thread 0 (`runReaper`). `pc`
gives the control point:

| `pc` | Code |
|---|---|
| `loop`, `read`, `backoff` | `runWorker`: context check, XREADGROUP, the one-second wait after an error |
| `run`, `sent`, `ack` | `process`: in the handler, after its XADD, before XACK |
| `wait`, `claim`, `next` | `runReaper` select; `claimPending` before XAUTOCLAIM; in its batch |
| `off` | not started, or returned |

Each Redis command is one action. A command that fails may have been executed
by the server (`XReadGroupErr`, `XAckErr`, `PublishReplyLost`, `MustRunPanics`,
`XAutoClaimErr`); one issued with a cancelled context is not. `Crash` loses the
process and nothing else. A handler is abstracted to its outcomes: an error at
any time, or an XADD of the result with a live context followed by nil.

Time is `Tick`. The idle time of an entry and the age of a handler's context
saturate at the bound they are compared with. With `Prompt`, time passes only
where the program really waits: handlers up to their deadline, blocking reads,
back-offs and the reaper's ticker.

`JobBoard` says what the stream promises: jobs are taken in order of posting,
closed only after somebody worked on them, and never reopened; those posted
before the board opened are never heard of. `ImplementsBoard` is the refinement.

## MasterScan

`CollectNewProviders` from its first read to its last write. Transactions of
the master wallet are numbered by logical time (LT). A worker reads the
checkpoint and the known keys, gets the account from a liteserver that may lag,
pages backwards (`GetTransactions`, newest page first), filters, publishes, and
saves the LT it reached. The consumer appears as jobs that stay pending when no
XACK arrived (`Lose`) and may be run again, also while the first run is still
going on; `again` is history: the jobs that were started more than once. The
backend is `Apply`, and drops the results of a processed job.

`getTxTimeout` or a -400 reply may end the paging before the first page or when
nothing older is left. With `Deadlines` they may also do so between two pages.

## WalletScan

`CollectStorageContracts` (`scan_wallets`). Each provider row has a wallet and
its own `last_tx_lt`; two rows may share a wallet. A worker reads the rows, scans
wallet by wallet, publishes relations and LTs, and calls `UpdateLT`, which
overwrites. A liteserver may answer from any block. `withheld` records the
withdrawals that a run moved its LT past though their page was cut off, or though
`GetStorageContractsInfo` left out their contract: the code never looks at them
again, so the properties excuse exactly those. Paging page by page is
`MasterScan`'s subject; here `GetTransactions` is one step. Losing an XACK, a
crash and a restart are `Lose`: the job runs again, and is then in `again`.

`ScanFeed` says what both scan cycles promise. A feed has events and a mark behind
which the next scan starts. An event that is settled (reported, withheld, or with
nothing to report) stays settled, and a mark is set only to where everything at
or below it was settled before: publish first, then save. It may be set back, as
the unconditional writes of the code do. `ImplementsFeed` is the refinement, with
the checkpoint as the mark in `MasterScan`, and a feed per row with `last_tx_lt`
as its mark in `WalletScan`.

## Poll

`UpdateProviderRates` and `UpdateRejectedContracts`. Both read a list, start one
goroutine per item under a semaphore, wait, look at the context and publish.
They differ in where the slot is taken: before the goroutine in `probe_rates`
(`pc = "loop"`), inside it in `GetProvidersInfo`. `out` is what a goroutine
reported; `"cut"` is a probe that failed because the run itself ended.
`inspect_contracts` sees one block (`block`), which may lag by up to `MaxLag`
(`LastProofs`: a proof made since does not show, the one before it does), and
compares its proof times with the clock later (`IsRemovedByLowBalance`). Times are
ages; a balance is low or not.

## Endpoints and CheckProofs

The columns `ip`, `storage_ip`, `updated_at` and `ip_info` of the providers
table, the two cycles that fill them and the one that reads them.
`resolve_endpoints` (`rpc`) leaves rows with an address and an `updated_at`
younger than `EndpointTTL` alone and reports the others with the time its run
began; `lookup_ipinfo` (`lpc`) works on a snapshot of addresses and stores the
address the service's reply names; `check_proofs` (`cpc`) takes only endpoints
whose `updated_at` is younger than `EndpointMaxAge`. The dispatcher keeps one job of a cycle in flight, so `"sent"`
lasts until the backend has applied the result (`ApplyEndpoints`, `ApplyInfo`,
external). The DHT answers or does not; the overlay search looks at
`BagsToCheck` of the bags. `failed` is history: providers whose last attempt to
be resolved failed or whose run published nothing. So is `known`: how long ago
the run began that found the address in a row.

Whether the backend stores the `updated_at` of a result is not settled by the
repository. `src/docs/02-data-contracts.md:137` and the commented-out UPDATE in
`postgres/provider.go:440-445` name only `ip`, `port`, `storage_ip` and
`storage_port`, while the result carries the time (`:128` of the same document)
and `postgres/endpoint.go:37,72` reads the column back. `Stamps` is the set of
what the backend may do, and `endpoints` allows both at every result. A row of
`NewRows` was inserted just now, the others long ago. An `ip_info` is `{}`, about
an address, or NULL where `NullInfo` allows it; the query of `GetProvidersIPs`
never selects a NULL.

`Verify` and `checkPiece` are a list of stages and the reason of the first that
fails. `LoadFresh` returns what its SELECT names, which has no storage key.
`CheckBags` is the loop of `checkProvider` with the failure threshold; it is
compared with a definition that looks for runs of failures directly, for all
outcomes of up to `MaxChecked` bags.

## Runs

| Run | Result | What it shows |
|---|---|---|
| `consumer_faults` | pass | Safety of `Consumer` with one crash, one lost reply, one XAUTOCLAIM error and SIGTERM: types, at-least-once, finality of XACK, the job board |
| `consumer_timed` | pass | With `MinIdle > ClaimCount * Timeout`, no two handlers for one entry and none after its XACK; the invariant behind it |
| `consumer_live` | pass | Every trigger is acknowledged and workers drain, with a crash and an agent that may stop |
| `reclaim_live_job` | violation | With `MinIdle <= Timeout`, as configured, a live job is claimed and run twice |
| `reaper_stuck` | violation | A failed XAUTOCLAIM, or SIGTERM during `claimPending`, leaves the reaper in its loop |
| `master_cover` | pass | If paging completes, the checkpoint never passes an unreported registration; the dedup loses one only through a job that ran again; the cycle implements a feed |
| `master_redelivery` | violation | A job delivered again reports a registration in a result the backend drops, and the checkpoint passes it |
| `wallets` | pass | No wallet's LT passes an unreported withdrawal, with overlapping and repeated runs; the dedup loses a relation only through a job that ran again; the cycle implements a feed per row |
| `poll` | pass | Published results are complete and free of cut probes, rejections have a cause, every run returns |
| `endpoints` | pass | Addresses are renewed in time while they are resolved, and what `LoadFresh` returns is recent; `check_proofs` publishes complete results; the threshold loop; `ip_info` catches up |
| `proof_key` | violation | No provider is ever reported valid, since the endpoint is loaded without the storage key |
| `master_deadline` | violation | Paging cut short makes the checkpoint skip registrations |

Each violation contradicts a sentence of a doc or comment, quoted in
`PROJECT.json`.

### Further divergences

Two more were found with these modules. No run is kept for them; to see them,
check the named property under the constants given.

- `Consumer!AckedHasResult` fails with the constants of `reclaim_live_job`: a
  failed job is acknowledged without a result, although
  `src/docs/02-data-contracts.md:51` describes results with `status=error`.
- `MasterScan!CheckpointNeverRegresses` fails with the constants of
  `master_cover`: `SetMasterWalletLT` overwrites, while
  `src/docs/01-architecture.md:160` says `WHERE current < incoming`.

Nothing in the repository promises that a provider whose address is resolved
whenever it is due always has an endpoint `check_proofs` accepts, and the
configured values do not give it: an address may get as old as a TTL, a period
and a run of `resolve_endpoints` (`AddressIsRecent`), three times 30 minutes,
while `EndpointMaxAge` is one hour (`proof.go:55`). If the backend does not store
`updated_at`, every row older than that hour is refused.

### Bounds

Two agents are the least that can claim from each other. One trigger suffices
for the races on one entry; `consumer_timed` uses two, for batches and cursors.
Liveness is checked for one trigger only. `ClaimCount` 1 makes the reaper page, 2 makes it hold a
batch. In `consumer_timed`, `MinIdle` is 3 and `ClaimCount * Timeout` is 2, the
smallest gap between the two. Where a run allows a crash or an
error, it allows one, at every point the code can meet it.
In `MasterScan` two workers and two jobs overlap in every way; `Batch` 1 with
two transactions gives page boundaries. `MaxRuns` bounds how often jobs are
started: 3 lets either of them run again while or after the other runs, and any
run may be lost at any point. `master_redelivery` has one page and two runs.
Deadlock is not checked in the runs of `MasterScan` and `WalletScan`, since
their jobs run out. `wallets` has one provider: rows are independent of each
other except for the job they are scanned in, and two transactions with two
workers give every overlap. `poll` has four keys, one of which does not decode,
and two slots; two contracts, one with an address that does not parse, and one
slot. Its times are the least with `Timeout + MaxLag <= Grace + 1` and a lag; with
the configured 10 minutes and the hour of grace a liteserver may be 50 minutes
behind. In `endpoints` one provider can be found and moves
once, the other is never found; they compete for one slot, and of six bags the
first has three in its sample (`MaxBagsPerProvider` 5, half of the bags), so a
sampled report differs in length from a full one. `EndpointTTL`, `Interval` and `Timeout` are 1 and
`EndpointMaxAge` is 2, the ratio of the configured 30 minutes, 30 minutes, up to 30
minutes and one hour. A reply about another address counts as a fault. `MaxChecked` is 11, so that the threshold takes the
values 0, 1 and 2.

### Fairness

`FairSpec` assumes that every goroutine keeps running, that time passes, and
that a dead container is started again (`restart: unless-stopped` in
`src/docker-compose.yml`). It assumes nothing of triggers, errors, crashes
or SIGTERM. The liveness runs use `Prompt = FALSE`, since under `Prompt` `Tick`
is not continuously enabled and its weak fairness would say nothing.

`Poll!FairSpec` assumes that the handler and its goroutines keep running; every
outside call has its own timeout, so it returns. `CheckProofs!FairSpec` assumes
that `lookup_ipinfo` is triggered again and again and its job is worked off, and
nothing of the other cycles. Failing lookups are bounded by `MaxFaults`: with a
service that never answers, `ip_info` never catches up.

## Proofs

Every safety property that a passing run checks has a theorem. The results hold
for all values of the constants that meet the named `ASSUME`s of the modules and
the hypotheses given here.

`ConsumerProofs`, for any agents, pool size, timeouts and bounds:

- `TypeCorrect`, and `Invariance` of `DeliveryInv`;
- `AtLeastOnce`: `Spec => []AckedOnlyHandled`;
- `AckIsFinal`: `Spec => AckedForever`;
- `Refinement`: `Spec => ImplementsBoard`.

`AckedOnlyHandled` alone is not inductive: an XACK preserves it only if the
thread's entry was delivered and its outcome is on record. `DeliveryInv` says
so for each control point, for the reapers' batches and for the time before the
group exists. The proof goes action by action; the refinement first reduces each
step to its effect on the board (`StepEffect`).

`ConsumerTimedProofs`, if `Prompt` and `ClaimCount * Timeout < MinIdle`:

- `TimedInvariance`: `Spec => []TimedInv`;
- `OneHandler`: `Spec => []OneHandlerPerMessage`;
- `NoStaleRun`: `Spec => NoRunAfterAck`.

A thread holds the entry it processes and, if it is a reaper, its batch. `TimedInv`
says that no entry has two holders, and pays for every entry held with one
handler timeout: `idle[m] + |Held| * Timeout <= ClaimCount * Timeout + elapsed`.
A finished handler gives one timeout back, so the bound survives the next one;
with the hypothesis it keeps every held entry below `MinIdle`, out of
XAUTOCLAIM's reach (`HeldIsYoung`, `ClaimedIsFree`). An entry nobody holds, such
as one whose delivery or claim got lost with the reply, may be of any age. The
hypothesis is what the configuration misses (`reclaim_live_job`).

`MasterScanProofs`, for any workers, jobs, keys, wallet and page size:

- `TypeCorrect`, without hypotheses;
- `Invariance` of `ScanInv` and `NoRegistrationSkipped` (`[]CheckpointCovered`),
  if `Deadlines => MaxTx <= Batch`: paging is never cut short, or there is one
  page to cut;
- `RunOnce`: `[]OnceInv`, without hypotheses;
- `NoOtherDropped`: `[]DroppedOnlyIfRepeated`, under the same hypothesis;
- `ScanIsAFeed`: `Spec => ImplementsFeed`, likewise.

`ScanInv` extends the claim to every published result, since the backend may
store its LT at any time, and to every run in progress: what has been paged has
no hole above `fromLT` except below the cursor. It uses that reported keys stay
reported and that a run changes only its own locals. `OnceInv` is about each
job that was started once: it has one worker and one result, and once it is
processed the keys of that result are stored. `NoOtherDropped` follows from the two:
what is reported by a result the backend would drop is already in the table,
unless its job ran again. That exception is real (`master_redelivery`). For the refinement,
`FeedEffect` splits the steps into those that leave the LT alone and take back
no report, and those that report nothing; of the latter, `ScanInv'` gives that the
new LT covers only what was reported already.

`WalletScanProofs`, for any providers, wallets, contracts, workers and jobs:
`TypeCorrect`, `Invariance` of `WalletInv`, `NoWithdrawalSkipped`
(`[]WalletsCovered`), `RunOnce` (`[]OnceInv`), `NoRelationDropped`
(`[]RelationsReachBackend`), and `ScanIsAFeed` (`ImplementsFeed`) along the same
argument as above. `WalletInv` extends `WalletsCovered` to the LTs of
published results and to runs in progress, whose LTs are covered by what they
have found. `RelationsReachBackend` excepts, relation by relation, what only
jobs that ran more than once reported.

`PollProofs` proves `ProbeResults` (`[]StatusesComplete`) and `InspectResults`
(`[]RejectedForCause`) for any keys, relations and semaphores. `PollInv` relates
the goroutines' state to the list that was read, and the age of the run to that
of the block: a proof the block shows is at most a run and the lag older than the
span.

`EndpointProofs`, for any TTL, interval, run time and maximal age, and a backend
that stores `updated_at` or not: `Invariance` of `AgeInv`, `StaysRecent`
(`[]AddressIsRecent`) and `FreshMeansRecent` (`[]FreshIsRecent`). `AgeInv` says
that an address is never older than its row's `updated_at`, for which no run may
be older than a row it updates, and bounds its age by the TTL and the time since
the last trigger or, while a run is replacing it, by the TTL, a period and the run
so far.

`CheckProofsProofs`, for any providers, bags, slots, sample sizes and outages:

- `ChecksInvariance` of the types and `ChecksInv`, `TypeCorrect`, and
  `PublishedIsComplete` (`[]ReasonsComplete`). `ChecksInv` says that a run with a
  live context has, for every provider, a goroutine to start, exactly one at
  work, or its reasons, and that what the goroutine loaded decides their number;
- `LoopIsRight`: `CheckBags` equals its reference for any number of bags and any
  verdicts, and `SkipsRightly` (`[]SkipsAfterRunOfFailures`) for any
  `MaxChecked`. The counter is a recursive function. The proof gives its value
  in closed form (`InARow`), shows that this meets the equations, and that two
  functions that meet them have no least argument at which they differ.

`NatOrder` has the fact used in place of induction: a nonempty set of naturals
has a least element, and a bounded one a greatest.

Only model-checked: liveness, which these provers do not reach
(`EventuallyAcked`, `WorkersDrain`, `RunReturns`, `InfoCatchesUp`). The runs that
end in a violation refute their property on a small instance.

## Not modelled

- `decodeJobID`, JSON and the envelope's text: an entry stands for its `job_id`.
- MAXLEN trimming of result streams: `PublishResult` in `MasterScan` and
  `WalletScan` stands for fewer than MAXLEN results the backend has yet to read.
- Removal of the group by FLUSHDB.
- The seven bindings of one agent together: streams share no state but
  Postgres, so `Consumer` models one.
- `App.New`, `initADNL`, `App.Close`: construction and teardown in a straight
  line. `Close` dereferences fields that `New` never sets.
- The set of relations changes only between runs of `Endpoints` and
  `CheckProofs`; there it is constant.
- Contents of what the network returns: rates, geo data, torrent headers,
  pieces. A stage that handles them succeeds or fails.
- Configuration, metrics, telemetry, the pool, the load generator and
  `adnlclients`: no state the other parts read. Much of `postgres/provider.go`
  is commented out.

## Plan

1. Result streams with MAXLEN and a slow backend, composed with `MasterScan`.
2. Changing relations in `Endpoints`.
