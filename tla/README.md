# A TLA+ model of s4t-trust-hpc

This directory holds specifications of the programs in this repository, the TLC
configurations that check them on small instances, and theorems about them that
the TLA+ proof system (TLAPS) checks for every value of the constants. Paths of
the repository are written as they appear under `src/`.

    tlc -config Startup.cfg MCStartupOnboarding   # model-check one run
    tlapm Mpi_proofs.tla                          # check one module's proofs

`PROJECT.json` lists the runs, the mutants that show each property can fail, the
lines each definition stands for, the hazards and the theorems.

## 1. The system

Two stacks share one private chain. The base stack lets owners of devices trust
them on the chain; the pipeline stack leases trusted worker nodes and runs
computations on them.

    hardhat node (OnboardingTrust, LeasingRegistry)
       ^             ^                ^           ^
       | script,     | transactions   | get_logs  | get_logs
       | service     |                |           |
     owner       gateway  <-----------+       notification --> SMTP
                  ^     ^
             ui --+     +-- satellite --> IoTronic --> plugin --> gRPC worker
             ^
          browser

| Part | State it keeps | Operations | Talks to |
|------|----------------|------------|----------|
| `deploy.ts`, compose | two addresses in hand; two files | create the contracts, write their addresses | chain, files the others read |
| `OnboardingTrust.sol` | requests, counter; events | requestOnboarding, approve, reject, revoke, two views | - |
| `LeasingRegistry.sol` | node -> leased, leasedBy; events | leaseNode, releaseNode | reads OnboardingTrust |
| `auto-onboard-workers.ts` | position in its list of workers | request and approve each worker | chain, as the owner |
| `auto-approve-trusted.ts` | subscription to events | approve requests for devices of the allowlist | chain, as the owner; allowlist file |
| gateway, leasing and chain clients | none | lease, release, request onboarding | chain, with one account |
| gateway, trust configuration | the allowlist file | list, add, delete a stack | the file, shared with the service |
| gateway, event poller | cache of events, last block | poll, recent events | chain |
| notification | last block in memory and in a file | poll, mail, checkpoint | chain, SMTP |
| ui | none (browser: the table) | proxy of the gateway; poll every 5 s | gateway |
| satellite, node registry | pipelines -> nodes | lease, release a pipeline | gateway over HTTP, IoTronic |
| satellite, pipeline client | none between requests | run, run-parallel | IoTronic |
| satellite, IoTronic client | cached token, lock | call a plugin, list boards | Keystone, conductor |
| S4T plugin, gRPC worker | none | increment, verify a batch | each other |
| dynamic MPI experiment | counters of the master | check, hand out, verify, report | MPI |
| static MPI experiment | a rank's devices and result | check, share, generate, verify, reduce | MPI |
| onboarding engine | none | generate, sign, verify | OpenSSL |
| benchmarks, reports, simulated parties | - | - | - |

### What is hard in it

* Every process learns the contracts' addresses from two files, once, when it
  starts. They are written one after the other by a deployer that may fail in
  between; the chain is lost with its node's container, the files are not, and the
  stack may be brought up again on the old chain or a new one.
* The satellite's handlers interleave at every `await`; a call to the gateway that
  exceeds its timeout of 10 s is counted as failed although the gateway may run it
  later; the pipelines live in memory and die with the process.
* The gateway's handlers are `async def` with blocking bodies, so one runs to its
  end before another starts. Its clients do interleave with each other, with
  direct users of its leasing routes, and with whoever else transacts.
* Two processes with the owner's key start side by side and race to approve the
  same requests; the second one reverts, in the script fatally.
* The pollers survive failures of the chain, of SMTP and of files half-way, and
  a chain that starts again from block 0.
* Calls to plugins run concurrently in `asyncio.gather`, fail, time out and may
  be carried out after everybody has given up on them; the token they share
  expires at any time and is renewed under a lock.
* The allowlist is edited by forms that give up after 5 s while their call still
  runs, rewritten through a temporary file that a crash may leave behind, and read
  by another process at any moment.
* The MPI master answers its workers in whatever order their reports come in; a
  rank whose check fails aborts the others wherever they are; and shares, chunks and
  limits of 0 are legal.

`PROJECT.json` has the complete list of hazards, each at its line, with the
property that covers it or the reason why none does yet.

## 2. The modules

| Module | Models | Composed from |
|--------|--------|---------------|
| `Deployment` | the deployer, the address files and who reads them when | |
| `OnboardingTrust` | the trust contract | |
| `NodeLease` | abstract: a board of exclusive leases of approved devices | |
| `LeasingRegistry` | the leasing contract over the trust contract; implements `NodeLease` | `OnboardingTrust`, `NodeLease` (refinement) |
| `SatelliteLeasing`, `SatelliteLeasingProps` | leasing and releasing of pipelines: satellite, gateway, lost and late calls | `NodeLease` |
| `PipelineRun` | runs of a pipeline: satellite, plugin, worker | `Counts` |
| `IotronicClient` | the token and the retries of calls to IoTronic | |
| `StartupOnboarding` | onboarding script, auto-approve service, compose ordering | `OnboardingTrust` |
| `EventFeed` | gateway's event poller and the page in the browser | `OnboardingTrust` |
| `Notification` | notification service | |
| `Allowlist` | abstract: a list of stacks, changed by one at a time | |
| `TrustConfig` | forms, gateway and file of the allowlist, and the service that reads it; implements `Allowlist` | `Allowlist` (refinement) |
| `MpiWorld` | ranks, barriers, aborts and the verification the MPI programs share | |
| `MpiStatic` | the static program: shares and reductions | `MpiWorld`, `Counts` |
| `MpiDynamic` | the dynamic program: master and workers | `MpiWorld` |
| `Counts` | sums of counts over the parts of a batch, in the pipeline client and on rank 0 | |
| `MC*` | symmetry sets and constants for TLC; `MCSatelliteLeasing`, `MCMpi` and `MCBoards` also let one run check two worlds, two programs or two parts | the module named; `MCBoards`: `PipelineRun` and `IotronicClient` |
| `Chain_proofs` | theorems about the contracts, the start of the stack and the event feed | `LeasingRegistry`, `StartupOnboarding`, `EventFeed` |
| `Boards_proofs` | theorems about the calls to the boards and the runs made of them | `IotronicClient`, `PipelineRun`, `Counts_proofs` |
| `Mpi_proofs` | theorems about both MPI programs | `MpiStatic`, `MpiDynamic`, `Counts_proofs` |
| `Counts_proofs` | lemmas about `Counts` | `Counts` |
| the other `*_proofs` | theorems | the module named |

Every module has the operations of its component as actions named after them,
and in front of some of them *faulty variants*: what the operation would be with
a plausible bug. No behaviour uses them; `PROJECT.json` (`mutants`) says which
variant, put in place of which definition, must make TLC refute which property.

### 2.1 The contracts

`OnboardingTrust`: `requests`, `nextRequestId` and the log of events `log`. To tell
the status of a device the contract scans its requests backwards (lines 94-102) and
stops at the first one for the device; `HasStatus` says what that finds, the
device's last request. Addresses are members
of `Accounts`, devices of `Devices`; an id that has no request reads as the zero
struct, whose status is `Pending` and whose owner is the zero address, as in
Solidity. A transaction that reverts changes nothing, so it is not an action. The
position of an event in `log` stands for its block: Hardhat mines one transaction
per block.

What must hold: a status moves only along the life cycle, and the events tell it
(that is all the services off the chain see). What is *not* promised, and is checked in the form it has
(`ApprovalLoss`): a device's approval can be lost to a mere new request for
it, because the latest request shadows an approved one.

`LeasingRegistry` adds `leases`, with the fields `isLeased` and `leasedBy` of a
node, and the events of leasing. What must hold: a leased node was approved at
some time, the events tell the holder, the two fields agree. A node whose trust is
revoked while it is leased stays leased: the abstract board `NodeLease` says so as
well, since `approved` changes there without regard to `holder`.

`ImplementsBoard` is `INSTANCE NodeLease WITH approved <- ..., holder <- ...`: the
devices whose latest request is Approved, and `leasedBy`. The refinement matters
because `SatelliteLeasing` is built on the abstract board and needs nothing else
of the contracts.

### 2.2 Leasing of pipelines

`SatelliteLeasing` has a handler per pipeline (`pc`), the candidates it has not
tried, the nodes it has got, and the one call it awaits. A call is sent in one
action, run by the gateway in another and heard of in a third; `GatewayServes` is a
whole handler of the gateway with its transaction. `CallFails` is a timeout, a
lost call or a lost answer; what the gateway has not run by then goes to `orphans`,
from where it may run at any later time. `Restart` empties the satellite's memory;
`DirectCall` is anyone else at the gateway's leasing routes, who acts in the same
account, on the nodes in `DirectNodes`; `OthersLease` is another account.

What must hold (`SatelliteLeasingProps`): no two pipelines list the same node
(`DisjointPipelines`), what a pipeline lists is leased on the chain in the
gateway's name (`HeldOnChain`), nothing leaks when no call fails (`NoLeak`), requests
are answered. The first two leave out `DirectNodes`, and have to: all leases are
taken in one account's name, so the contract cannot tell the satellite's from those
of another client of the gateway, and a release by that client frees a node the
satellite still lists.

`MCSatelliteLeasing` checks two worlds in one run. In the *faulty* one calls are
lost and late and the satellite restarts; in the *calm* one no call fails, but
trust moves, another account takes nodes and another client uses the gateway. All
of that at once is more than TLC can visit; the theorems cover it.

### 2.3 Runs

`PipelineRun`: `call[r][i]` follows the call of place `i` of run `r` from the
satellite through IoTronic and the plugin to the worker and back; `abandoned` is a
call the satellite has timed out on and the board may still carry out. A parallel
run starts all its calls at once; the first exception answers the request, and the
other calls go on by themselves. A chunk of size 0 is verified like any other. The
worker's `int32` sum wraps at `IntMax`, and protobuf refuses an input outside of
it. The division of a batch is `Share`. Leasing is reduced to what
`SatelliteLeasing` guarantees: a pipeline gets nodes no other pipeline lists.
A run reads its nodes once, at the start; a release or another run may come at any
time after that, so that a worker may be working for a run whose pipeline is gone
and whose node another pipeline has leased. No document rules that out and no
property does.

`IotronicClient`: tokens are numbered as they are issued. A call goes through
`get_token` (cache, or Keystone under the lock), the request, and on 401 through
a forced refresh and one second attempt. Both Keystone and the conductor are
external and modelled by the answers the client distinguishes.

`MCBoards` checks both in one run, each by itself: what a run sees of a call, that it
is carried out or not and answered or not, is what the client makes of it. Of the
lists of nodes it takes one of each kind, since the boards that have a worker are
alike to a run.

### 2.4 Start of the base stack

`Deployment` follows the addresses. Whatever matters is signed by one account, so
that the address of a contract, which Ethereum computes from the account and the
number of its transactions, is the contract's position among them: a new chain has
its first contract where the old one had it. `stage` is how far `docker compose
up` has come; the deployer is four steps, each of which may be its last
(`DeployerDies`, with the file it was writing left empty or not). A listener and the
gateway keep what they read at their start; the gateway reads its two files one
after the other, and the deployer may be at work in between. Two history variables
carry the premises: `adjacent`, no other transaction came between two contracts,
and `fresh`, each deployment was the first of its chain.

What must hold: the two addresses a gateway works with belong together however
deployments ended (`LeasesWhereItOnboards`). That is about a gateway that compose has
started, after the deployer and the onboarding script have ended well, and that no
second `up` has overtaken while it read the files: one started by hand while a deployer
writes them may read one address of each pair, and the property leaves it out.
And nobody takes the registry for a trust contract (`CodeIsTrust`); the listeners come to listen at the contract on file, also
across a loss of the chain (`ListenersComeUp`).

`StartupOnboarding` has the script (`pc`, `at`, `reqId`), the service (`listening`,
`heard`, `approving`) and the allowlist, reduced to the devices it matches. It
starts in the state `deploy.ts` leaves, with a new contract. The gateway starts
when the script is `done`. The service is told the events that are mined after it
has subscribed; each handler reads the allowlist (`Load`), and awaits its
transaction, during which others run. What goes wrong is a `Trouble`: a process is
killed, the owner decides by hand, the allowlist is unreadable and then counts as
empty, the script cannot read the status of a worker and takes that, as its `catch`
does, for a worker without a request. `MaxTroubles` bounds how often.

### 2.5 Pollers

`Notification` steps through one round of the loop: head, reset check, fetch, one
mail per event, truncation of the checkpoint file, its writing. It can crash
between any two. A mail is counted up to 2, which stands for "more than once". Two
history variables serve the properties: `lost`, the requests whose mail was refused
(the code does not retry), and `clean`, which says that no round was cut short by a
crash or a reset of the chain and every checkpoint was saved.

`EventFeed` polls in one step, because the gateway's poll has no await, but each
of the four event types can fail by itself, and the chain can be lost under it
(`ChainReset`), which the gateway does not notice. `flight` holds the answers the
browser has not received yet: it asks every 5 s without waiting, so they overtake
each other. Of an answer the model keeps what the page makes of it, a table of
statuses. The history variable `whole` says that the gateway has had every event of
one chain since its start; a restart makes it true again.

### 2.6 The allowlist

`TrustConfig` follows a form of `/trust` to the file and to the service that obeys
it. A form waits 5 s (`GiveUp`), and its call may run all the same; a user who tries
again submits another form. The gateway serves one call at a time, but its file
operations are steps of their own, since it may be killed between them and the
service may read at any of them: read and check (`Refuse`, `Open`), write
the temporary file (`Write`), `os.replace` (`Replace`); each may fail (`ReadFails`,
`SaveFails`, `Crash`). The service reads the file at every event (`Hear`) and sends
its transaction later (`Approve`). `matched` is history: the devices the file has
matched at some time since they were requested.

`ImplementsAllowlist` is `INSTANCE Allowlist WITH listed <- ...`: whatever is cut
short, its readers see a list that changes by one stack at a time.

### 2.7 MPI

`MpiWorld` has what the two programs share: the `phase` of each rank, which enters
and leaves a barrier by itself, the checks that may fail, `MPI_Abort`, which reaches
the other ranks one by one, and `Bench`, what the verification of a batch returns.

`MpiStatic`: a rank's `Share`, its devices, its result, and its contribution to the
reductions, from which rank 0 computes its report. `MpiDynamic`: the messages from
and to each worker (`requests` with `report`, `answer`), the master's counters, and
three history variables (`owed`, `settled`, `bad`) the properties speak of.

## 3. What the runs show

Passing runs. All bounds are constants of the configuration.

| Run | Shows | Instance, and why it is enough |
|-----|-------|--------------------------------|
| `registry` | life cycle, events against status, how an approval is lost; lease events and the refinement of `NodeLease` | 2 devices, 2 accounts, 2 requests, 4 lease events: two devices, or a device whose approved request is shadowed by a second one; two accounts exchange a node and revoke its trust |
| `satellite` | disjointness, agreement with the chain and answers, under lost and late calls and restarts; no leak when calls do not fail | 2 nodes, 2 pipelines of up to 2, any boards online: both pipelines want what one of them gets, each rolls back, and a late release meets the next lease of its node; in the calm world trust moves, another account takes nodes, and another client of the gateway uses one |
| `startup` | the gateway starts only after every worker was approved; one request per worker; trusted requests are decided; the script converges when run again | 2 workers and another device the allowlist may come to match, 4 requests, one trouble of any kind at any time |
| `notification` | no request skipped, no duplicates in clean operation, every request answered, head reached after a reset | 3 blocks, 2 restarts, 1 reset, all failures: a crash in the batch and a second one in the replay |
| `boards` | runs: traces and batches of successful runs are complete; one worker at a time; no failure without a reason; every run answered. Calls: none carried out twice, retries use a fresh token, every call ends | pipelines of up to 3 of 4 nodes, one board without a worker, batches of 2 (so that a chunk is empty and the division has a rest), values at the edge of the int; 3 calls, 3 tokens: two calls refused and refreshing while a third reads the cache |
| `feed` | what the gateway answers is right as of its last poll; the page converges when answers overtake each other, and after a restart when calls failed or the chain was lost | 2 requests of one device, window of 2: events fall out of the window in the middle of a request's life; 2 answers in flight, or one and one failed call or lost chain; a restart |
| `trust_config` | an acknowledged stack stays, answers are true, a removal is obeyed, refinement of `Allowlist` | 3 forms (an operation, its retry, and an opposite one), two versions of one stack and another, a stack on file, crashes and disk errors anywhere |
| `mpi` | static: phases kept apart, every part of the batch put to verification when rank 0 reports; dynamic: each signature exactly once, the cross-check aborts for bad ones only; both end | 4 ranks, batches of 0, 2 and 5 in chunks of 0, 2 and 7: empty shares and a remainder of 1, a last chunk that is cut, one chunk for all, no progress; checks and verifications that fail |
| `deployment` | the gateway's two addresses belong together, the code on file is a trust contract, the listeners come up | 3 times up, chains of 5 transactions: a deployment on a fresh chain, one on the same chain after it, and one cut short, before, between or after losses of the chain |

Violations: the code disagrees with what the repository says of it.

| Run | The text | What happens |
|-----|----------|--------------|
| `satellite_rollback` | PROGRESS.md:435, rollback releases all partially allocated nodes | a lease call that times out is carried out late, or a release of the rollback fails unnoticed: the node stays leased and belongs to nobody |
| `startup_abort` | comment in auto-approve-trusted.ts:109-111, the race is no real error | when the service wins, the script dies with the revert and the gateway never starts |
| `mpi_report` | hpc-engine/results/RAW_FINDINGS_LOG.md:50, the reduced total is the sum of the verified signatures (`Somma algebrica del conteggio firme verificate`) | rank 0 sums up sizes of batches and not `valid_count`: a signature that does not verify, because OpenSSL fails, is reported as verified |

`CHECK_DEADLOCK FALSE` stands where the system may rest: requests and blocks are
bounded, clients need not act; the program of `mpi_report` ends. It is checked
for `mpi`, where the ranks may stop only when all have `Ended`, and for `deployment`, where services can always be started
and stopped.

### Also seen while modelling

Smaller disagreements with the documents. Those with a definition can be reproduced
by adding it as an INVARIANT to the configuration named.

* `FailsOnlyWhenShort` (module `SatelliteLeasingProps`, with the constants of
  `Satellite.cfg`, all boards online and the board for the satellite alone): the satellite's README says that a request fails *only* when valid
  nodes are fewer than asked. Two requests may take a part each and both roll back.
* `NoDuplicates` without its premise `clean` (`Notification.cfg`):
  notification/README.md:7 says the checkpoint prevents re-sending on restarts. A
  crash between a mail and the checkpoint, or in the writing of it, re-sends.
* `NothingSkipped` without its premise `resets = 0` (`Notification.cfg`):
  PROGRESS.md:39 says the listener notices a reset. It does not when the new chain
  is already as long as the checkpoint: its first requests are never mailed.
* `NewestIsRecent` (`EventFeed.cfg`): gateway/README.md:12 promises the latest
  events. They are appended type by type, and the window may cut the newest.
* `CaughtUpIsTrue` (`EventFeed.cfg`): ui/README.md:12 promises the status in real
  time. One failed `get_logs` and the block counts as processed: the event is lost
  until the gateway is restarted. The same goes for the first events of a chain
  that replaces a lost one.
* `RequestsAreHeard` (`Deployment.cfg`): deploy/README.md says the service
  intercepts the requests. When the stack is brought up a second time on the same
  chain, the service, which runs already, stays with the old contract, while a
  gateway started after that files its requests at the new one.
* gateway/README.md:33 says that a stack is added *or updated*;
  trust_config_client.py:33-34 refuses an id that is on the list.

## 4. Fairness

* `SatelliteLeasing`: weak fairness of each handler *together with* the failure of
  its call. A live event loop resumes what is ready; the 10 s timeout ends every
  wait. Clients, trust, restarts, direct users and orphans owe nothing. In the calm
  world no call fails, and the gateway's answer is part of the handler.
* `PipelineRun`: weak fairness of each call, by whichever of the satellite, the worker
  and the 30 s timeout of httpx moves it on.
* `IotronicClient`: strong fairness per call. `asyncio.Lock` wakes its waiters in
  the order they came, so that one that is enabled again and again gets its turn.
* `StartupOnboarding`: weak fairness of each process, of the delivery of each event
  and of each pending transaction. `WF(Rerun)` is an assumption on the operator,
  not on the code: nothing in the compose file restarts the script. Without it
  the state `startup_abort` finds is where the system stays.
* `Notification`: weak fairness of the round, strong fairness of `Fetch` and of the
  opening and writing of the checkpoint: the chain's RPC and the disk do not fail
  every single time. No fairness for mails: a refused one is counted in `lost`.
* `EventFeed`: gateway and page go on polling (weak fairness of `Poll` and `Ask`);
  not every answer is lost (strong fairness of `Receive`). Nobody owes a restart.
* `MCMpi`: weak fairness of `Next`: ranks run and messages arrive.
* `Deployment`: weak fairness of `Bind` for each listener, which polls in a loop.
  Nobody owes bringing the stack up, starting or stopping anything.
* `TrustConfig` and the contracts have safety properties only, and no fairness.

## 5. What is proved

The theorems hold for any number of devices, accounts, requests, pipelines, blocks,
forms, stacks, deployments, calls, runs, batches and ranks, from the named assumptions on
the constants and nothing else. TLC has checked each property first, on the instance of
its run. Every safety property a passing run checks is stated by a theorem.

* `Chain_proofs`, the trust contract: `TrustTypeOK` needs to know that ids from the counter
  on have no request and an owner that nobody can sign as (`TrustInv`); from that
  the life cycle is a step property. `LogTellsStatus` is proved on top, id by id: an
  event concerns one request, and is the one its new status calls for.
  `ApprovalLoss` rests on two lemmas, that a request and a decision change the status
  of no device but their own (`RequestChangesOne`, `DecideChangesOne`).
* `Chain_proofs`, the leasing contract: `RegistryInv` carries the types of both contracts and
  the agreement of the two fields, and from it follow `LeaseFieldsAgree`,
  `LeasedWasApproved` and the refinement `RegistryImplementsBoard`: a transaction of
  the trust contract changes the approval of one device at most, a lease or release
  is one of the board's. `LeaseLogTellsHolder` is inductive over these: an event
  appended for one device moves the last event of no other (`AppendEffect`), and the
  release that passes the contract's check finds the lease it ends in the log.
* `Chain_proofs`, the start of the stack: what the script, the service, the owner and the
  gateway do to the contract is a behaviour of it (`StartupUsesContract`).
  `DoneMeansApproved` is the end of an induction along the list of workers:
  those the script has passed have an approval in the log (`ApprovalsInv`), since it passes
  one only after it has seen it Approved or approved it, and the log forgets nothing.
  `OneRequestPerWorker` needs more than it says: as long as nothing went wrong, every
  request there is has been approved, but for the one the script is about to approve, and
  the worker it is about to request for has none (`CalmInv`). So a script that is run
  again finds each worker approved or unknown, and requests for none twice.
* `Chain_proofs`, the event feed: `LogInv` says that the events of one request come in the
  order of its life, no two at the same stage of it, and none beyond its status.
  `CacheInv` says that, as long as nothing was missed (`whole`), the cache has
  the events up to the last poll, each once, and those of one request in that
  order as well, although it has been filled type by type: the types are fetched in an
  order that agrees with every life (`JoinParts`, `FetchPart`). The last event of a
  request in any end of the cache is then the one of the highest level, as it is in the
  log, and `AnswersAsOfLastPoll` follows. The events of a type are numbered in the model
  (`Nth`) where a fold would do, because what a fold computes cannot be proved;
  `NthExists` proves the numbering right by counting.
* `SatelliteLeasing_proofs`: `DisjointPipelines` and `HeldOnChain` are not inductive:
  they break if a node that one pipeline lists is about to be released by a call of
  another. The strengthening `ClaimInv` says that whoever lists a node, has
  just leased it and not heard of it, or has a release of it under way
  (in its handler or orphaned) *claims* it; a claimed node is held by the gateway,
  and no node has two claims. Hence a late release can only hit the node of the
  pipeline that gave it up. It speaks of the nodes in `Guarded`, those no other
  client of the gateway uses, as the properties do. The other direction holds where
  no call fails and the satellite is not restarted (`Calm`): what the gateway holds
  is listed by a pipeline or in a call under way (`HeldIsKnown`), and who has
  answered neither awaits nor, having failed or released, lists anything (`AtRest`).
  So there `NoLeak` and `RollbackIsComplete` are theorems: the violation of the
  latter in `satellite_rollback` needs a failed call. `CalmWorldLeaksNothing` says the same
  of the calm one of the run's two worlds.
* `Notification_proofs`: `CheckpointInv` says that in a round what is not answered
  yet is in the batch, and that when the checkpoint is written nothing up to it is
  left; `NothingSkipped` follows, for as long as the chain is not reset, which is
  the form the property has. `DuplicatesInv` is its mirror image: while the operation
  is clean, what is mailed is either below the checkpoint or no longer in the
  batch; `NoDuplicates` follows.
* `TrustConfig_proofs`: `FileInv` says that while a call is served nobody touches
  the file, so that the list about to replace it is still the file with that
  call's edit, and that the temporary file, once written, holds it. So only
  `Replace` changes the file, and by one edit that was asked for
  (`ReplaceEffect`): `AcknowledgedIsKept` follows by induction, as does the
  refinement `FileImplementsAllowlist`, where an addition under a free id maps to
  `Add`, and a removal to `Remove`. `AnswersAreTrue` needs in addition that every
  id that came to the list or left it has somebody who asked for that (`Traced`);
  `RemovalTakesEffect`, that a request being filed or heard of has been compared
  with the file of that moment (`MatchedInv`).
* `Deployment_proofs`: `CodeInv` follows the address of the trust contract from the
  chain to the deployer's hand and into its file (`InHand`), so that whatever is
  written is a trust contract or lies behind the end of the chain. `CodeIsTrust`
  survives the loss of a chain since every contract is deployed behind the
  one on file. `PairInv` says that, where no transaction comes between two
  contracts, two addresses that are a pair differ by one: on a chain, in the
  deployer, in the files once it has ended well, in a gateway that read them in
  that state. So a registry at the one address consults the other, on whatever chain.
* `Boards_proofs`, calls: a call has been carried out only when the client has been
  answered, or has given it up and the conductor has it no longer (`ExecutionInv`);
  so there is nothing to repeat when a 401 makes the client repeat. `RetryIsFresh`
  needs only that tokens are numbered as they are issued.
* `Boards_proofs`, runs: `RunInv` follows each run by its place. A sequential run is `At`
  the place after its last output: the calls before it are closed and have been carried
  out, and each value in the trace is that many increments of the input, modulo the
  width of the int (`Passed`); behind it nothing has been called (`Ahead`); at it there
  is one call, or the reason why there is none any more (`Here`). In a parallel run an
  output is at most the chunk of its place, and the run succeeds when the sum of the
  outputs is the sum of the chunks: hence each is its chunk (`ParallelInv`). Releases,
  new leases and other runs change none of this, since a run keeps the list
  it started with. `TraceIsExact`, `BatchIsVerified`, `FailsForAReason` and `OneAtATime`
  follow.
* `Counts_proofs`: sums are cardinalities in the model (`Total`: the number of things
  counted), so that they can be reasoned about without induction. That the shares of a
  batch make it up (`SharesMakeTotal`) is a bijection between the numbered signatures
  and pairs of a share and a position in it, given by division with remainder; that
  counts below their bounds with the same sum are the bounds (`SameTotal`) is a fact about
  finite sets. Both the pipeline client and the static experiment rest on them.
* `Mpi_proofs`: `DInv` follows what a worker owes from the message on its way to it
  into its report (`Carried`), index by index (`Partition`), and ties the master's
  counters to cardinalities (`Counted`): `active_workers` is the number of workers
  not dismissed, and a dismissed worker owes nothing. So when it reaches 0 the
  whole batch is settled, and the cross-check compares the right numbers. For the
  static program, `SInv` says that an abort comes from a rank that has not entered
  the first barrier, and hence finds all others before it. `Contributions` adds that
  what a rank hands to the reduction is the size of its share, and the shares make up the
  batch: so the ranks' devices are the whole batch, each verified by its rank, when
  rank 0 reports (`BatchIsDone`), also with more ranks than signatures.

The type invariants are proved and not run. The specifications that one module proves
theorems about together have names of their own (`TrustSpec`, `StartupSpec`, `FeedSpec`,
`ClientSpec`, ...).

### Only model-checked

Liveness (every `~>` and `<>`): `RequestsAreAnswered`, `TrustedIsApproved`,
`RetriesConverge`, `EveryRequestNotified`, `CatchesUp`, `Terminates`, `RunsAreAnswered`,
`CallsEnd`, `PageConverges`, `ListenersComeUp`. The proof system reasons neither about
fairness under a quantifier nor about ENABLED.

## 6. What is not modelled

* Status codes, validators, authentication of users, texts of mails, logs, layout.
* A second gateway process on the same allowlist file: the compose file starts one.
* The benchmarks and report scripts: sequential, and their results are times.
* `simulate-owner.ts`, `simulate-admin.ts`: commented out of the compose file; the
  owner of `StartupOnboarding` does whatever they can do.
* Key generation, signing and clocks in the onboarding engine.
* A restart of the satellite during a run: the run is lost with its connection and
  leaves no state.
* A loss of the chain while the onboarding script and the service work: `Deployment`
  follows their addresses through it, `StartupOnboarding` does not follow their
  requests.
* OpenSSL errors other than a signature that does not verify: the program throws and
  the MPI run ends, as after an abort.

Details the models leave out on purpose, where their properties do not depend on them:

* `EventFeed`: a poller's last block is a position in the log of events. On a new chain
  the gateway resumes at the number of a block, with blocks of other transactions before
  it, so which of the first events it misses may differ. Between the loss of a chain and
  the gateway's restart the properties promise nothing.
* `TrustConfig`: the read of the file, the check and the opening of the temporary file
  are one step (`Open`), as the gateway alone writes the file. The name of the temporary
  file carries the process id, so a crash leaves a file that no later process reuses;
  here the next one overwrites it. No reader opens it in either case.
* `MpiDynamic`: a chunk is the interval of its signatures. Its seed and number are
  computed from those and decide nothing.
* `Deployment`: the script's transactions are one on the chain (`SendRequests`), also for
  a script that fails after some of them (`OnboardFails`). Their number shifts the
  addresses of what is deployed later and nothing else.

## 7. Plan

Done in this order, the most important behaviour first: contracts, leasing,
start of the stack, notification, MPI, runs, IoTronic client, event feed, allowlist;
then lost chains for the event feed, the static MPI program, deployment; theorems
for the contracts, the leasing, the notification service, the allowlist, the
deployment, the calls and runs, the start of the stack, the event feed and the MPI
programs.

What is left:

1. `LeasingRegistry` under `SatelliteLeasing` in one composition, to check with the
   contracts themselves what the refinement argues.
2. Proofs of `DisjointPipelines` and `HeldOnChain` for `MCSpec` itself: for its faulty world
   they are the theorems about `Spec`, under the other constants.
