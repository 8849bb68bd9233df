# GenLayer gateway: specification, model checking and proofs

An application on Base asks a question about a piece of evidence; GenLayer
validators answer PASS, FAIL or UNDETERMINED; the answer returns to Base and is
handed to the application's callback. This directory holds TLA+ modules for the
parts of the repository that keep state, the TLC configurations that check them
and proofs that TLAPS checks. Paths below are relative to the repository.

## 1. Inventory

| Part | State | Operations | Talks to |
|---|---|---|---|
| `GatewayRouter.sol` | requests (status, verdict, callback lock), latestNonce, accruedFees, admin addresses, paused | requestDecision, handleResult, retryCallback, withdrawFees, setters | transport adapter (call), result receiver (caller), applications (callback with limited gas) |
| `AgentEscrow.sol` | jobs, requestToJob, nextVerificationNonce, transferLocked, wei | createJob, submitEvidence, requestVerification, onGatewayResult, markTimedOut, refundTimedOut | router (call and callback), client and worker (transfers) |
| `LayerZeroHubReceiver.sol` | messages, processedGuids, trustedSenders, relayers | lzReceive, markRelayed, setters | LayerZero endpoint, relay |
| `LayerZeroHubForwarderQuorum.sol` | signerList, authorizedSigners, quorum, signerEpoch, usedResultTxHashes, trusted contracts | forwardResult, setSigner, setQuorum, setters | hub receiver (view), endpoint |
| `LayerZeroResultReceiver.sol` | processedGuids, trusted forwarder and adjudicator, router | lzReceive, setters | router.handleResult |
| `LayerZeroGatewaySender.sol` | messageNonce, route configuration | dispatch, setters | endpoint |
| `GatewayRouterV2.sol`, `GatewayRouteRegistry.sol` | requests by route, nonces, fees; routes and whether they are active | requestRoute, handleResult, retryCallback; registerRoute, setRouteStatus | as v1 |
| `gateway_adjudicator.py` | results, request_order, authorized submitter | adjudicate, get_result, setters | GenLayer validators, the web |
| `reconcile.ts`, `bridge-relay.ts`, `lib/db` | MongoDB: requests (status, lifecycle, attempts, bridge transactions, result), leases | reconcileRequests, reconcileBridgeRequest, transitionRequest, withLease, retries | hub, GenLayer, Base |
| `requests/route.ts`, `lib/protocol/router.ts` | nonces, requests, with unique indexes | POST registers a request that is on chain, GET reads one, POST `.../retry` makes one due | Base |
| `run-`, `monitor-` and `resume-testnet-*.mjs` | checkpoints and reports in files | pay for jobs, register them, resend packets, report what was settled | escrow, API, LayerZero |
| evidence, webhook routes, explorer, pages, deployment scripts | documents written once | insert, read | - |

What is hard here:

- calls that nest: a callback or a transfer runs foreign code that may call the
  router and the escrow again, and a failure undoes a part of the stack;
- time: a verdict, an expiry, a deadline and a timeout race, across two contracts
  that each decide for themselves;
- delivery: LayerZero may deliver late, twice or in another order; a relayer
  repeats what it does not know to have succeeded;
- configuration: signers, quorum and trusted contracts change while results are
  under way;
- serverless workers: invocations overlap, die between two writes, and act on a
  record they read before they took its lease;
- shared queues: a request that never progresses, or an exception in the middle
  of a batch, must not starve the others;
- lost answers: the acceptance test repeats payments and registrations whose
  answer it did not see, and is started again after it died.

## 2. Modules

| Module | What it models |
|---|---|
| `VerdictRegister` | abstract: what the router promises - a request gets at most one verdict, in time, and at most one successful delivery after it |
| `GatewayRouter` | `GatewayRouter.sol` with its call stack; implements `VerdictRegister` |
| `GatewayRouterProofs` | the router's theorems |
| `Settlement` | abstract: what the escrow promises - a bounty is held until it is paid once, to the worker on PASS, to the client on FAIL or after the deadline without a verdict |
| `AgentEscrow` | `AgentEscrow.sol` composed with `GatewayRouter`; implements `Settlement` |
| `HubReceiver`, `HubForwarderQuorum` | the hub's two contracts, composed |
| `BaseBridge` | `LayerZeroGatewaySender.sol` and `LayerZeroResultReceiver.sol`, inside the router's transactions |
| `Adjudicator` | `gateway_adjudicator.py` with a leader and validators that fetch the evidence each for themselves |
| `BridgePath` | `BaseBridge`, the hub and `Adjudicator` composed: a request's way there and its verdict's way back |
| `RouteRegistry`, `RouterV2` | `GatewayRouteRegistry.sol` and `GatewayRouterV2.sol`; implements `VerdictRegister` |
| `Reconciler` | the relay and the reconciler over the MongoDB index, for one request, await by await |
| `ReconcileQueue` | the reconciler's batches over many requests: order, leases, retry delays |
| `Registration` | `POST /api/v1/requests`: what it compares and its two insertions |
| `PhaseGate` | the acceptance test's scripts, composed with `Registration` |

| `HubForwarderQuorumProofs`, `RouterV2Proofs`, `AgentEscrowProofs`, `ReconcilerProofs`, `BridgePathProofs`, `PhaseGateProofs`, `ReconcileQueueProofs` | the theorems of the modules they are named after; `PhaseGateProofs` also those of `Registration` (section 5) |

`MC*` modules instantiate these for TLC.

### GatewayRouter

`requests` maps ids to records; an id is the record of what the source hashes,
so two requests have one id exactly when they agree in every committed field
(`RequestIds`). A transaction is a sequence of steps that ends with an empty
stack `frames`. `HandleResult` and `RetryCallback` push a frame that keeps the
storage at the low-level `call`; while it is on the stack, anything an
application can do may happen (`RequestDecision`, `RetryCallback`, ...);
`CallbackReturns` pops it and marks the request as executed; `CallbackReverts`
pops it, restores the storage and clears the lock, as lines 379-386 do.
`WithdrawFees` pushes a frame too. `Abort` is a revert of the whole transaction:
it restores `committed`, the storage at the end of the last transaction. The
refinement to `VerdictRegister` reads `committed`, hence one abstract step is one
transaction. Deviations: questions, gas and event text are left out; policy and
evidence hashes are members of small sets; `deliveries` is a history variable.

### AgentEscrow

Extends the router and adds the escrow's storage, its own saved copies
(`escrowFrames`, one per router frame or refund) and `paidTo`, a history of
payments. `OnVerdictWithPayment` stops inside `_pay`'s call with the lock taken;
`PaidCallbackReturns` or a revert ends it. While money is being transferred the
recipient may call either contract. Other applications of the router act
through `OthersAskRouter` and `ForeignCallbackReturns`.

### HubReceiver and HubForwarderQuorum

A packet is any record LayerZero may deliver, as often as it likes. A digest is
the record of the result and `signerEpoch`, since the source hashes both.
Attestations come from keys off the chain; `forwardResult` is given any sequence
of signatures over digests the contract has shown, those of the first epoch
standing for every one that is over. `configurations` and `forwarded` are history
variables. One origin and one destination chain are modelled; the fee and the
version of the message are left out.

### BaseBridge, Adjudicator and BridgePath

`BaseBridge` extends the router. `BridgeRequest` is `requestDecision` with the
`dispatch` it calls; `LzReceive` marks the packet's guid and calls `handleResult`
in one step, whose frame keeps a copy of the bridge's storage (`bridgeFrames`) as
the router's frame keeps the router's. `outbound` is a history of the messages
sent; LayerZero carries only what a finished transaction sent. A message id is
the record of what the source hashes (`Message`). The deployment scripts give the
initial state. The sender's `setOptions` is left out, and LayerZero's fee is the
router's `deliveryFee`.

`Adjudicator` has one GenLayer transaction at a time. `Lead` evaluates, `Agrees`
and `Disagrees` are the other validators' `validate`; each evaluation sees the
committed bytes, other bytes or an unusable response, chosen anew, and judges
the committed bytes as it likes. Validators are counted, not named, because the
code treats them alike. Results are keyed by the request and the spelling of its
id, since the source looks them up by the id as it is spelled but compares the
commitment in lower case. That a majority accepts and that leaders rotate is
GenLayer's, and external. Lengths, URIs and the other commitments are checked
before anything happens and are what a request id stands for.

`BridgePath` composes them: LayerZero delivers whatever was sent, at any time and
again; the relay submits whatever the hub holds, again too (`SubmittedToGenLayer`
covers every interleaving that `Reconciler` describes in detail); honest signers
sign what the adjudicator stored, compromised keys sign anything; strangers send
packets to Base; owners reconfigure. It assumes what no code can give: fewer
keys are lost than the quorum, and owners keep it so; and owners name nobody but
hub forwarders as the forwarder they trust (`PathConstants`, `SignersChange`).

### RouteRegistry and RouterV2

`RouterV2` has the structure of `GatewayRouter` - stack, saved copies,
`committed` - and the differences of the source: a success leaves the lock taken,
only a hash of the result is stored and `RetryCallback` is given bytes, there is
no pause, and a request id also hashes what its route was bound to. The four
values a route is bound to are one member of `Bindings`; keccak256 is a constant
operator that is assumed injective on the results in use. `received` is a
history of what callbacks accepted.

### Reconciler

One request and several invocations of `reconcileRequests`. A worker's `pc`
names the await it is at; what it keeps in memory are the candidate (read
before the lease), the `relayed` flag it read from the hub and its transaction.
`transitionRequest` reads the status and then updates it on condition that it is
still that. `Transition` is the update that succeeds, and `Overtaking` lets it
stop, in the same step, any of the workers that read the status it replaced:
their updates match no record and throw. `RequireReview` overtakes in the same
way. Transactions at the hub that revert
only when mined are not noticed, because no receipt's status is read:
`MarkRelayedReverts` and `ForwardReverts` may go on. `Crash` ends a worker at any
step and leaves its lease; `LeaseExpires` is the TTL index. An exception of an
await is a crash followed by the lease's removal. Left out: the order and the
delays of retries (`ReconcileQueue` has them), the configuration checks and the
commitment checks of a message that is what it should be (`Registration` has
them). The states FAILED and TIMED_OUT are in the source's table, but nothing
enters them.

### ReconcileQueue

The same code seen from the other side: what an attempt does to one record is
only that it waits, advances it, resubmits it or throws; what matters is which
records an invocation takes. `queue` is the records in the order of `updatedAt`,
which every write moves to the end (`Touched`) and a mere look does not:
`AttemptWaits` leaves the order alone, as the source updates nothing then.
`Candidates` is the due ones, at most `Limit` of them. `ScheduleRetry` counts an
attempt only if nobody else did since the candidate was read, and delays by a
power of two. `RequireReviewThrows` is the exception inside the catch block that
leaves the loop; it ends the batch and schedules nothing. `RequestImmediateRetry`
is the endpoint anybody may call. Time is the units left of each delay; a request
is `Stuck` if no chain ever answers it and `Broken` if every attempt throws.
The module assumes fewer stuck records than `Limit` (`StuckLeaveRoom`): with as
many, they fill every batch for ever and nobody else is served. The source has 25
places and no rule that keeps stuck records fewer. `PowersOfTwo` is arithmetic that
the provers do not know; it has nothing to do with the code.

### Registration

An invocation of the handler is at one of its two insertions, or has answered. A
body stands for which request its id names, how its digits are spelled, which
request's nonce it gives, and which of the other fields disagree with the chain
(`defects`); which comparisons there are is `RefusedByTheForm`,
`ComparedWithTheChain` and `ComparedByTheRelay`, from the three places in the
source. `Bodies` are those of other clients, which may register any request that
is on the chain. Every request belongs to one requester here, the escrow, whose
nonces are the requests' numbers. Left out: the filtered listing, which only reads;
the signature's own check is one more field that can be wrong.

### PhaseGate

`script` is the process of `run-testnet-phase-gate.mjs`: its `pc` is the call it
is at, `todo` the places in the data set of the works it still has to pay for (it
takes the first, `Upcoming`), `prepared` what it wrote down.
`withTransientRetries` is modelled by what it does: when the answer to a
transaction that was accepted is lost, the same call is made once more, so that
`CreateJob` makes another job and `SubmitEvidence` or `RequestVerification` meet
a job that has moved on (`SecondSendReverts`). `Register` starts an invocation of
`Registration`'s handler and `Reply`, `NoReply` are what `fetchWithRetries` makes
of it. `files` are the checkpoints, one per start. The reports are operators:
`RunReport`, `AggregateReport` and `ResumeReport` are the sets of reports a script
could write in a state, since its polls may have seen any part of what there is;
the aggregate takes the files in either order. `Adjudicate`, `Deliver` and
`RefundLate` are what the index and the escrow do meanwhile; the modules above
have the details. Left out: the packets the scripts resend (delivery is possible
at any time anyway), `reconcile()`, whose failure is one more way to die
(`ScriptDies`), `PHASE_GATE_REQUIRED`, which lets the operator lower the
threshold, the six historical entries of the aggregate, the texts of the reports,
and that `writeFile` truncates a checkpoint before it writes it: a write that is
torn would lose the whole file, not one job.

## 3. Runs

| Run | Question | Bounds and why they suffice |
|---|---|---|
| `router` | does the router keep its ledger through reentrancy, rollback and late results, and implement the register? | two applications, one nonce each, time 0..2 (before, at and after an expiry), two nested calls (a callback within a callback) |
| `escrow` | do escrow and router agree on every job, is every bounty paid as resolved, is `Settlement` implemented? | two jobs of different value (one refund inside the payment of the other), two nonces, two nested calls |
| `escrow_and_others` | do they agree when another application, the worker, uses the router too; does every bounty leave the escrow? | one job, time 0..3 so that expiry, deadline and timeout are distinct, two nested calls, no fees |
| `hub_quorum` | can anything leave the hub without a quorum of its epoch, twice or for a request that was not relayed? | three signers of which two start, three changes of configuration, two results for one request, packets under two guids |
| `bridge_path` | is the verdict the router records the one the adjudicator stored, on evidence its majority agreed on? is no packet lost or used twice, no request sent twice? | one application with two nonces (two requests), two result hashes for one request, three validators, quorum two of two with one compromised key, one change of signers or quorum; one call deep, time 0..1 |
| `router_v2` | does the second router follow its routes, deliver the recorded bytes once, unlock what failed, hold its fees and implement the register? | two applications, two bindings of one route, two results, time 0..2, two nested calls |
| `reconciler` | does the index only claim what happened, never go back, and is one result returned? | two workers (one races the other), two submissions (the second is the one too many), one crash anywhere, failing executions and lost results |
| `index_recovers` | does the index learn of an executed callback after crashes, failures and lost results; does an undisturbed request return? | one worker, that is invocations one after the other, two crashes |
| `index_races` | does the index learn of an executed callback when invocations overlap, if its record does not come to name a submission that failed? | two workers, no crash, failing executions; each worker submits once at most before a record names a transaction, so two submissions are all there can be |
| `stale_candidate` | does every request return if nothing dies and nothing is lost? **No** | two workers, no crash |
| `reconcile_queue` | is every request served although others never progress or throw for ever, after finitely many deaths and manual retries; is a delay never cut short by a stale copy? | three records, batches of two, so that one record waits outside: one that is stuck, one that is broken, one that is answered; two workers, one death or one-off failure, one manual retry (two give the same answer, in four times the time); delays 1 and 2, so that one grows and one is at the cap |
| `phase_gate` | is a request registered at most once and only if it can be served; is a report that passes backed by the escrow; does a failure lose at most one job? | two works with different expected decisions, both required; three jobs, so that one is paid twice; two starts, so that checkpoints overlap; two handlers, so that a repeated POST races the first; one fault or one registration by somebody else |

`ContractsAgree` is checked in `escrow_and_others`, which has every step of
`escrow` for one job and another application besides. A lock that one job's payment
leaves behind and that keeps another bounty in would need two jobs: it is what
`OnePaymentAtATime` excludes in `escrow`. `RouterTypeOK` is checked as a part of the
escrow's `TypeOK`.

Deadlock is checked in the contracts' runs. A request whose index has reached
CALLBACK_EXECUTED is never listed again, so the reconciler may stop and its runs
do not check deadlock. `reconciler` uses the symmetry of workers, which no action
tells apart; runs with temporal properties use none.

### Fairness

`escrow_and_others` (`AgentEscrow!Fairness`), each strong fairness, because other
transactions may come in between for ever: each call in progress ends, since gas
is finite; time passes; for each job, a client who may call `markTimedOut` or
`refundTimedOut` does so in the end, somebody who may call `retryCallback` does,
the escrow's callback then handles the verdict it was called with, and a recipient
that is paid again and again accepts in the end. The calls of the parties are
transactions of their own (`AtDepth(0)`): the same call made from inside a callback
may be rolled back with it every time, and would satisfy the fairness without
helping. Nothing is assumed of GenLayer, the bridge, or anybody else. The code
cannot force these calls, it only leaves them possible: the property says that
it does. `Reconciler!FairSpec`: the cron job (`.github/workflows/reconcile.yml`,
`vercel.json`) calls again and again, an invocation that does not die goes on, the
TTL index is swept, and LayerZero and GenLayer deliver.

`ReconcileQueue!FairSpec`: each invocation goes on unless it dies and is started
again (the same cron), the TTL index is swept, time passes, and the chains of a
request that is neither stuck nor broken come up with something new (weak
fairness each; no step that helps can be disabled for ever by somebody else).
Nobody has to call the retry endpoint; that it is called, an invocation dies or a
lease expires under its holder only finitely often is an assumption of
`EveryRequestIsServed`, which `MaxRetries` and `MaxFaults` make (see section 4).

## 4. Disagreements with the documents

- A request may be submitted twice and then never return, although nothing fails
  (`stale_candidate`, `reconcile.ts:63`): the candidate is read before the lease,
  and nothing is read again before the submission. The lease lasts 45 seconds
  where an invocation may last 60, and `finally` deletes it whoever holds it by
  then. The second execution fails as "already finalized", the record names it, and
  every later attempt throws. `docs/ARCHITECTURE.md:41` promises a check of the
  chain's state before a submission, `README.md:360` idempotent retries.

Met while modelling and not the subject of a run:

- The same second submission may come after the first one's result was sent back:
  the record then names the failed transaction, the relay throws for it
  (`bridge-relay.ts:354`), and as Base is asked only after the relay has returned
  (`reconcile.ts:69-70`), the index never learns of the callback that Base executed,
  although nothing died. `README.md:366` says that reconciliation "reads Base
  Sepolia, advances the MongoDB index". `IndexCatchesUpUnlessOverwritten` says that
  this is the only way to stay behind; without its exception `index_races` fails.
- An invocation that dies between submitting, recording and marking
  (`bridge-relay.ts:337`) leaves a request that no retry returns: it is submitted
  again with the same end as above, or its message is never marked as relayed and
  `forwardResult` reverts for ever. `index_recovers` needs `Undisturbed` for this.
- `requestImmediateRetry` sets `updatedAt` (`requests.ts:118`), so a retry moves its
  record behind the others. Asked for again and again it can starve a record: of
  [stuck, broken, r] with batches of two, each batch moves `broken` to the end, a
  retry makes `broken` due again, and a retry of `r` itself puts `r` behind it, just
  outside the next batch. One stuck record is enough; `EveryRequestIsServed` assumes
  finitely many retries. The documents promise a retry no place in a batch.
- `setQuorum(1)` succeeds (`LayerZeroHubForwarderQuorum.sol:133`) although the
  constructor, `setSigner` and `docs/MAINNET_READINESS.md:9` ask for two.
- Registration compares neither the URI of the evidence nor the spelling of the id
  with the chain, and anybody may register: such a record is never served, and its
  nonce keeps the right one out (`RegisteredCanBeServed` names the two cases).
- A repeated `POST` after a 5xx or a lost answer is answered 409 although the first
  succeeded, which ends the acceptance test with the job paid for and in no
  checkpoint.
- The aggregate report does not wait for the callback: a job refunded because its
  deadline passed counts as a FAIL that was settled (`PassedReportIsBacked` names
  the case). The resume report does not look at the decision that was expected.

## 5. Proofs

Every invariant, action property and refinement that a run checks is also proved,
for all values of the constants that satisfy the module's assumptions: any number
of accounts, requests, signers, validators, invocations and failures, and any
bound. What TLC alone checks is liveness (at the end of this section). The
theorems have the form `Spec => []P`, or `Spec => Abstract!Spec`; each rests on an
inductive invariant.

**Router** (`GatewayRouterProofs`: `RouterTypeOK`, `DeliveredOnce`,
`LockIsHeldByOneCall`, `FeesAreHeld`, `NonceIdentifiesRequest`, the refinement of
`VerdictRegister`). A revert restores a storage saved earlier, so `IInv` says of
the current storage, the committed one and every saved one what it says of any
(`StorageOK`), each for the requests whose callbacks were in progress at that level
of the stack. Pushing a frame saves the current storage, which is good; popping
one restores a storage that was good for exactly the frames left. For the
refinement, each of these storages must also be one that a single transaction may
make of the committed one (`Evolved` in `RefinementInv`); when the stack is empty
again that is one step of the register, and everything in between is none.

**Escrow** (`AgentEscrowProofs`: `TypeOK`, `HoldsWhatItOwes`, `PaidAsResolved`,
`NonceInStep`, `RequestsBelongToJobs`, `OnePaymentAtATime`, `ContractsAgree`, the
router's invariants under the escrow's composition, the refinement of `Settlement`).
`EscrowInv` speaks of both contracts' storages at every level of both stacks: the
books balance (`BooksOK`) and each job stands where its request says (`JobOKIn`),
given which payment is in progress at that level. What the escrow owes is a sum
over its jobs, a recursive function; how the sum changes with one job is proved by
induction on sets of numbers (`NatSetInduction`, from the well-foundedness of `<`).

**Hub** (`HubForwarderQuorumProofs`: `QuorumStaysReachable`,
`EpochFixesConfiguration`, `ForwardedByQuorum`, `ForwardedOnce`,
`ForwardedAnswersRelayed`). `SignersInv` keeps list, set and quorum together,
`EpochsInv` what each epoch stood for, `SentInv` what was counted for each message,
in the configuration of its epoch, and `StoredInv` the receiver's messages. That
signatures by different signers are as many signers as signatures is an injection.

**Second router** (`RouterV2Proofs`: `RequestsFollowTheirRoute`,
`ReceivesTheRecordedResult`, `LockedWhileCalledOrDelivered`, `V2FeesAreHeld`, the
refinement of `VerdictRegister`). As the first router; `Good` is the part that each
level satisfies, `SinceCommit` what one transaction may do.

**Bridge path** (`BridgePathProofs`: `OneMessagePerRequest`, `PacketPerVerdict`,
`VerdictIsAdjudicated`, the router's invariants when results come through the
bridge). Router and bridge are reverted together, so the invariant speaks of pairs
of storages at every level (`PairOK`). All of them are compared with the one list
of what the forwarder sent, which never shrinks. What was sent rests on results
that the adjudicator stored: a quorum of distinct signers has one whose key is not
lost (`HonestSigner`, an injection into `Compromised`). Results are never replaced,
and rest on what a majority of the validators saw.

**Reconciler** (`ReconcilerProofs`: `StatusIsBacked`, `NoReturnWithoutResult`,
`ReturnedOnce`, `NeverBackwards`). An invocation writes what it decided long
before, from a copy that may be stale. The invariant says for each place it can be
at what it may still rely on (`Ready`), and that every transition it has yet to
make is backed (`Steps`); both survive what others do because nothing on the
chains is undone (`Grows`).

**Queue** (`ReconcileQueueProofs`: `DelayIsKept`). What is left of a delay is at
most the delay the next attempt would get; the property follows from the filter
of `scheduleRetry` alone. The leases play no part in it.

**Registration and acceptance test** (`PhaseGateProofs`:
`RegistrationIsIdempotent`, `RegisteredCanBeServed`, `EveryFailureLosesOneJob`,
`PassedReportIsBacked`). Uniqueness of records rests on what holds between the two
insertions (`OneInsertion`): one invocation has the nonce and nobody the record. A
failure does not lose its job at once, since a lost answer first makes the script
send again; `FewLost` counts that debt (`Spoiled`) like a lost job. A report
counts different works because the script keeps what it prepared, has in hand
and has left to do apart (`WorksInv`), and because the aggregate takes the first
entry of a work in whichever order the files are read (`EntriesApart`).

Assumptions on the constants, each named in its module and evaluated by TLC in the
runs: bounds and fees are natural numbers and the value that stands for nobody
names nobody (`RouterConstants`, `EscrowConstants`, `V2Constants`,
`ReconcilerConstants`, `QueueConstants`, `RegistrationConstants`,
`PhaseGateConstants`); the forwarder is deployed with a quorum of two at least among
finitely many, distinct signers (`ForwarderConstants`, from the constructor); packets
are records (`HubConstants`); the bridge is deployed as the scripts do and fewer keys
are lost than the quorum (`BridgeConstants`, `PathConstants`); a hash tells results
apart (`V2Constants`); the data set has no id twice and the gate takes at most all of
it (`PhaseGateConstants`); `PowersOfTwo`.

Only model-checked:

- liveness under fairness, which TLAPS cannot prove here: `EveryBountySettles`,
  `IndexCatchesUpUnlessOverwritten`, `UndisturbedRequestReturns`,
  `EveryRequestIsServed`. The
  assumption `StuckLeaveRoom` matters to the last one only;
- that `EveryRequestReturns` is violated (`stale_candidate`).

## 6. Not modelled

The v1 forwarder (superseded by the quorum forwarder, which repeats its checks),
the sender of the second router (the first one's code again; nothing answers its
messages yet), the sender's options, evidence store, webhook, explorer and pages
(documents written once or read only), the deployment scripts and
`verify-live-deployment.mjs` (configuration written or compared once; what they
establish is the initial state of `BridgePath`), vendored contracts. Two effects
of integers' width and of an id's spelling are listed as hazards and not modelled:
the relay compares a nonce that passed through a JSON number, and the adjudicator
looks results up by the id as it is spelled (the relay spells it one way; what a
record registered under another spelling means for the relay is in
`Registration`).

## 7. Plan

1. Done: router, escrow, hub, bridge path with the adjudicator, second router,
   reconciler and its queue, registration and the acceptance test; theorems for
   every safety property, action property and refinement that the runs check.
2. An `Adjudicator` run with two spellings of one id, and the theorem that a
   verdict rests on evidence under either.
3. The sender of the second router and its options, once something answers its
   messages.
