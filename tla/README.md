# Verification of the execution system

TLA+ modules for the repository's execution system: two exchange accounts
(Hyperliquid and Bybit) traded as a pair by one process at a time, which keeps
its authority in a lock file, its decisions in an append-only event log, and
must fail closed whenever it does not know where it stands. The product rules
are in `GOAL.md`; the models follow the code in `execution/`,
`reconciliation/`, `data/` and `ops/`. TLC checks them on small instances, and
TLAPS proves the safety of the writer lease, the signer nonces, the order path,
the owner's tenure, the risk controls, the watchdog, the event log, the
collector and the replay of its records for every value of their constants.

    tlc -workers 2 -config WriterLease.cfg MCWriterLease
    tlapm WriterLeaseProofs.tla

`PROJECT.json` names every run, the lines each definition stands for, and the
mutations that show each property can fail.

## 1. The system

Nothing in the repository calls these parts in a loop of its own except the
collector and the two watchdog loops: the rest is a library, and the process
that uses it is outside. What a model takes from that process is said with the
module.

| part | state | operations | interacts with |
|---|---|---|---|
| writer lease, `execution/writer.py` | lock file of the account (flock, epoch, content), authority mode in memory | `acquire`, `revalidate`, `authorize`, elevate, two demotions, `release` | evidence recorder; submission asks it; promotion and kill switch change its mode; watchdog reads its file |
| signer nonces, `execution/nonce.py` | lock file of the wallet, `_last` and `_frozen_reason` in memory, rows in the log | fence `acquire`, `revalidate`, `release`; `allocate`; replay of maximum, freeze, conflict | log; submission; startup admission |
| order submission, `execution/submission.py`, `orders.py` | requests and decision history in the log; evidence in memory | `decide_submission`, `submit_order`, `replacement_intent`, pair and flatten steps | lease, nonces, log, venue |
| agent wallet, `execution/wallet.py` | registration and its expiry | `assess`, `rotate_agent_wallet` | lease |
| watchdog, `ops/watchdog.py`, heartbeat in `writer.py`, `execution/cancel.py` | heartbeat file, deadline at the venue | `publish_heartbeat`, the Bybit loop, the Hyperliquid dead-man loop | lock file, venue |
| admission and promotion, `reconciliation/admission.py`, `promotion.py`, `state.py` | clocks passed from cycle to cycle, previous freeze | startup admission, continuous admission, promote, demote | lease, nonce log, venue surfaces |
| kill switch, `reconciliation/kill_switch.py`, `kill_switch_composition.py`, `clock.py`, `exposure.py` | streak of inconsistent reconciliations, exposure clock | snapshot, flatten plan, finalisation | lease, submission, surfaces |
| pair legs, ledger, rates, `reconciliation/legs.py`, `ledger.py`, `fx.py` | none | classification of fills, pair state, obligation clock, balance audit | admission, kill switch |
| venue surfaces, `reconciliation/hl_*.py`, `bybit_surface.py` | none | parsing of responses into evidence | admission |
| shards, `data/shard.py`, `replay_order.py` | open shard, manifest, finalised shards | `append`, `_finalize`, replay, binding conflicts | every recorder; every replay |
| collector, `data/collector.py`, `session.py` | connections, pending acknowledgements, pong deadline, liveness snapshot | connect, subscribe, heartbeat, record, supervise | shards, kill switch |
| coverage, `data/coverage.py` | none (arithmetic over a recorded window), `BybitBarrier` | pairing of gaps with verifications | shards, collector |
| contracts, schemas, latency, research | none | validation, statistics, probes | |

### What is hard

* **Interleaving.** Two processes acquire one lock file call by call, and any
  process may remove the file. The authority is checked once and used later.
* **Crashes.** Every record and every transport is a point where the process
  may die; the next one has only the log and the lock file.
* **Delivery.** A transport that raises says nothing about the venue: the
  message may arrive later, never, or after it was sent again.
* **Order of effects.** Some effects are recorded first and applied later
  (promotion, nonces, requests), others the other way round (demotions, nonce
  freezes), and recorders may raise with the row on disk.
* **Time.** Evidence is only worth something when it is later than what it is
  about; clocks can be set back.

### What makes each part correct

* Writer lease: one primary writer; authority never ahead of its evidence; a
  demotion lasts; the lock file names the lease in use. An epoch does not always
  name one tenure: in a new lock file, or in one whose rewriting was cut short,
  the count starts at 1 again.
* Signer nonces: a signer never repeats a nonce; a freeze survives restarts;
  what cannot be prevented (a replaced lock file) is found at the next start.
* Order submission: no order is executed twice; a replacement is live only
  after its predecessor has ended; nothing reaches the venue that the log does
  not know of; what it writes replays without a conflict but that of a lease
  epoch that came again.
* Watchdog: orders of a dead writer are cancelled; a healthy writer's are not.
* Admission, promotion, kill switch: unknown state never opens or flattens
  anything; a stop ends with no authority to submit; clocks neither lose nor
  invent time through unknown observations.
* Shards: what is replayed is what was appended, in order, or the replay fails;
  a failed write harms its own shard and no other.
* Collector: a venue counts as verified only by its present connection; what
  was live is found again by replay.
* Coverage: an outage is either explained or makes the window fail, and a window
  that passes had no more of it than the limits allow.
* Rotation: the account never has two leases, and a new one may not open until it
  is promoted. Whether the caller reconciles anew for that is left to it.

## 2. Modules

| module | role |
|---|---|
| `AccountAuthority` | abstract: one primary writer of an account, whose authority only descends |
| `WriterLease` | `WriterLease` of `writer.py`, call by call; implements `AccountAuthority` |
| `SignerNonce` | `SignerFence`, `NonceAllocator` and the replay functions of `nonce.py` |
| `OrderSubmission` | `submit_order`, `decide_submission`, `replacement_intent`, network and venue; takes its writer from `AccountAuthority` |
| `Tenure` | startup admission, promotion, pair, flatten, stop, rotation and dead man of one owner, against both venues and another instance |
| `RiskControl` | clocks of `clock.py`, continuous admission, detectors and decision of the kill switch, the demotions they lead to |
| `Watchdog` | `publish_heartbeat` and the Bybit loop of `watchdog.py` |
| `ShardWriter` | `ShardWriter` of `shard.py` against disk, power and clock, and the replay of whole shards |
| `Coverage` | what replay finds in a collector's records, and the limits of a window, as folds over the records |
| `Collector` | sessions, supervisor and sink of both venues; extends `Coverage`, whose replay runs beside the sink |
| `WriterLeaseProofs`, `SignerNonceProofs`, `OrderSubmissionProofs`, `TenureProofs`, `RiskControlProofs`, `WatchdogProofs`, `ShardWriterProofs`, `CollectorProofs` | TLAPS proofs |
| `MCWriterLease`, `MCSignerNonce`, `MCOrders`, `MCTenure`, `MCRiskControl`, `MCWatchdog`, `MCShardWriter`, `MCCollector` | constants for TLC; `MCOrders` also splits the behaviours into two plans of orders |

`OrderSubmission` composes the lease (by its abstraction) with nonces, log,
network and venue. `Tenure` composes promotion, kill switch, rotation and dead
man, each in steps as coarse as what the others see of them. `Collector`
composes the sessions with the sink and the replay of what the sink appends.

Definitions named after a source name with a suffix, `Grant_Unreplayed`, and
headed "Mutant" are plausible faults of that code; no specification uses them.

### WriterLease

*State.* `named`, `created`, `metadata`, `durable`, `flocked` are the file
system: which lock file the path names, each file's content in the page cache
and on disk, and the holder of its flock. `fd`, `epoch`, `mode` are
`WriterLease._fd` and `_authority`; `stage` says where a process is in
`acquire`. `sending` is an action that `authorize` allowed and the transport
has not sent; `evidence` is the set of decisions that reached the log.

*Actions.* `acquire` is cut at each call another process can come between:
`Open`, `Flock`, `FlockRefused` then `_contended`, `Refuse`, `Truncate`,
`Pwrite`, `Fsync`, `Acquired` or `AcquireUnrecorded`; `LeakDescriptor` is an
`OSError` after the flock, which no handler of `acquire` closes. `authorize`,
`elevate_to_risk_increasing`, `demote_to_cancel_only`,
`demote_to_flatten_only` and `release` revalidate the lock file and record in
one action each; every record may fail, and every action of a lease whose file
was replaced is an `Invalidate`. `Transport` sends what was authorised.
`Crash`, `PowerLoss` (unsynced content may be torn or old) and `Unlink` come
from outside.

*Assumed.* Locks and page cache behave as POSIX says; a recorder that returns
has made its row durable; a process does one thing at a time.

### SignerNonce

*State.* The wallet's lock file as above; `last` and `frozen` are
`_last` and `_frozen_reason`; `row` is the decision being recorded; `log` is
the sequence of `signer_nonce_allocation` rows; `issued` is what `allocate`
returned, in order.

*Actions.* `Open`, `Fence`, `FenceRefused` are `SignerFence.acquire`;
`NonceAllocator` builds the allocator from the replayed maximum and freeze.
`allocate` is `Allocate`, `FenceInvalidated` or `ClockBackward`, which decide,
followed by `Record` or `RecordRaises` (with the row on disk or not), so that a
crash, an `Unlink` and `SetClock` can come in between. The lower bound of the
nonce window cannot fail, as the source says (nonce.py:319).

*Assumed.* The caller replays the log after it has the fence
(tests/test_restart_recovery.py does it before, which is safe only while nobody
else holds the fence), and does not allocate after its own `release`: the
source would record a freeze there.

### OrderSubmission

*State.* `holder`, `authority` come from `AccountAuthority`; `stage` and `call`
are the point `submit_order` is at and its locals; `evidence` is the
`ReconciliationEvidence` in the process. `leases`, `allocations`, `requests`,
`history` are the durable log; `granted` counts the tenures. `sent` never shrinks: `Deliver` may take any
message at any time, or never. `venue` and `executions` are the venue's side.

*Actions.* `submit_order` for one order is `Reconcile`, `Freeze`, `Persist` or
`Resume`, each guarded by what `decide_submission` returns; a new request goes
on through `allocate` (Hyperliquid only), `record_request`, `transport`,
`Answer`, each of which may be the last one before `End`, a crash. A resumed
request goes to `transport` at once. `Observe` reads the venue, or fails to.
`replacement_intent` makes the second order out of authoritative evidence about
the first. `Grant` gives the next tenure any epoch, also one that is on record,
as after a blank, torn or new lock file (writer.py:188-190).

*Assumed of the caller.* It replays the request and the history from the log
for each call, reads evidence in the process that holds the lease or while
nobody holds it, and a tenure that ends takes its call with it. The last
assumption hides what happens when a lock file is replaced under a running
call; the run `writer_replaced` shows that case. *Assumed of the venue:*
Hyperliquid takes a wallet's nonce once, Bybit a client order id once; neither
promises anything about a message under another nonce.

*Left out.* `observe_transport`'s observations: evidence built from replay has
no fill and position times (legs.py:114), so it is never authoritative, which
`Observe` covers with `NoTime`. A replacement keeps its predecessor's signal
time, so `signal_ns` is one constant.

### Watchdog

*State.* `named`, `flocked` and `count` are the lock file as in `WriterLease`,
with its epoch; acquiring it is one step here. `lease` says which process may
publish. `publishing` and `observed` are the point in `publish_heartbeat` and
its argument, `temporary` and `heartbeat` the two files, `watchdog` and `seen`
the point in a round of `run_until_cancel_requested` and its locals. Nothing
compares more than the distance of two instants, so the model keeps ages
instead of times, each up to the value from which on all are alike. `silence`
and `calm` are history.

*Actions.* `Check`, `Write`, `Replace` are `publish_heartbeat`, with a process
ended, or its lock file gone, in between; the temporary file is shared by all
processes of an account. `mono_ns`, `ReadEpoch`, `ReadHeartbeat`, `cancel_all`
are a round, in the order of the source.

*Assumed.* The host wakes the watchdog at most `MaxDelay` late and a round
takes at most as long; `Spec` has weak fairness of the round and of time, which
is what running on a live host means. Nothing is assumed of the writers. The
writer passes the time it takes when it calls `publish_heartbeat`. The content
of the temporary file is one write: two processes that write it at the same
instant could leave a file that does not parse, which the watchdog takes for a
missing one, and cancels.

### RiskControl

*State.* `mode` is the writer's authority mode. `exposure` and `obligation` are
the clocks the next call gets as `previous_exposure` and
`previous_obligation`, `streak` its `previous_streak`; `decision` is the last
`KillSwitchDecision` with the time of its cycle. `exposures`, `obligations` and
`verdicts` are history: what was really observed, by time, so that a property
can say what the clocks ought to show without repeating how they are computed.
`admitted` is the last cycle that let the present writer go on.

*Actions.* `run_admission_cycle` derives both clocks, decides and demotes in one
step, as `apply_continuous_admission` does; `build_kill_switch_snapshot`
advances exposure and streak and decides; `demote_kill_switch_freeze` and
`demote_kill_switch_flatten` apply a decision, later or never. Observations are
arbitrary: flat, naked or unknown, any pair, any notional, any reconciliation,
and any time from the last observation to now. A call the code refuses with an
exception (an older observation, a second opinion on the same instant) changes
nothing, so it is no step. `Evidence` stands for what the stablecoin rate, data
liveness, key, nonces and orders can say together.

*Assumed of the caller*, who is not in the repository: it passes every result on
as the previous value of the next call (`run_admission_cycle` returns no clocks,
so it has to derive them once more), keeps one exposure clock for both controls,
does not observe the future, and promotes only with a ready startup admission.
The lock file and the evidence of a demotion are `WriterLease`'s matter.

*What it does not forbid.* A freeze does nothing to a writer that is pending
reconciliation (writer.py:287, kept by tests/test_gate4_composition.py:302), so
a promotion that was decided before may follow it. The next cycle demotes.

### Tenure

*State.* `holder` says who has the account's lock, `mode` and `rotating` where
the owner stands. `evidence` holds the two surfaces read last, each with whether
it is still fresh and was read since the `startup_started_ns`; `ready` says that
the process has an `AdmissionDecision` that is ready, `plan` what is left of the
`FlattenIntentPlan`. None of these is bound to a lease: they outlive a rotation,
and end with the process. `loop` and `silence` are `run_hl_dead_man_loop`. The
venue has live orders that open or reduce, requests under way, positions, and
the scheduled cancel (`armed`). `shown`, `misled`, `sound`, `flat`, `late` are
history.

*Actions.* `Acquire`, `Startup` (the caller takes the time for its
`startup_started_ns`), `Read` (a surface may be cut off, odd or doubled; then it
proves nothing), `decide_startup_admission`, `promote_writer`,
`submit_t0a_pair` and `cancel_pair_orders` (each leg may fail or be late by
itself), `KillSwitch`, `build_kill_switch_flatten_plan`,
`submit_flatten_step`, `finalize_kill_switch_flatten`. `rotate_agent_wallet` is
cut where it has released the old lease: `Reacquire` or `Abort` end it, and
another instance may take the account in between. `renew_hl_dead_man`,
`run_hl_dead_man_loop_Ends` and `ScheduledCancel` are the dead man. `Fill`,
`Land` and the `Other...` actions are the venues and another instance, `Crash`,
`GetsOld` and `Tick` come from outside. A reading is fresh for any length of
time, which covers every `max_order_age_ns` and `max_position_age_ns`.

*What it does not forbid.* `promote_writer` takes any admission that is ready,
and nothing in it names a lease, an epoch or a time (promotion.py:222-256); nor
does a rotation ask for a new one (wallet.py:140-199), and `startup_started_ns`
is an argument of the caller (state.py:246). So an admission from before a
rotation promotes the lease after it, whatever another instance did in between.
The model has this behaviour and no property speaks against it.
`AdmittedOnLaterState` says what the code does ensure: an admission was decided
on what the venues had at the time the caller gave, or later. Nor does the code
ask for the order of readings before a stop: `StoppedIsFlat` is about flattens
that were finished on orders read while flattening with no request under way,
and on positions read after them (`flat` is false otherwise, and a late fill can
then leave a position). An order that gets live with no cancel scheduled is
reached by none (`late`).

*Assumed.* The owner's process calls any operation at any time, with the latest
evidence and admission it has, until it has called `stop()`, and nothing after
that; it knows its readings by one startup time. Bybit is read together with
Hyperliquid. A log that the admission compares with the venues is empty or tells
what is there. `finalize_kill_switch_flatten` is one step: its demotion takes
effect before its record, which `WriterLease` has.

*Left out.* Fills, balances, keys, nonces, liveness and an earlier freeze may
refuse an admission in the code; here it may be decided or not. Digests and
records of admissions change no state here.

### ShardWriter

*State.* `boot_id`, `hour`, `stage`, `waiting`, `last_key` are the writer:
which shard is open, and which step of `_finalize` it is at. `names`,
`content`, `synced`, `manifest` are the disk. `appended`, `failed`,
`line_failed` and `set_back` are history: the events whose `append_event`
returned, the shards to which a write of data raised, and the other faults.

*Actions.* `append_event`, `_open`, and `_finalize` as `fsync`, `link`,
`unlink`, `write_sidecar`, `write_entry`, `fsync_manifest`, in that order, for
an event of a later hour or for `close`. Any write may raise: of a
record (`Write_Fails`, after which the writer appends on, as `session.py:138`
lets it), of the end of the compressed data (`close_Fails`), of a manifest line
(`WriteFails`). `Kill` and `PowerLoss` strike between any two steps, `SetBack`
sets the clock back once. Replay is a predicate of the disk, `Replays`.

*Assumed.* One writer at a time has a root. Names survive a power failure,
although the code synchronises no directory; contents survive only when they
are synchronised. Data of which a write raised reads as it was before, or not at
all. A hash tells contents apart.

*What it does not forbid.* A shard to which a write raised is listed like any
other, and replay of the whole root is refused from then on, as it is after a
manifest line that was not written whole. `RefusalIsExplained` says that nothing
else but a clock set back has this effect, and that the other shards keep their
events.

*Left out.* The opaque `append`, the digests by which replay finds duplicates,
clipping a window out of the records, `replay_order.py`.

### Coverage and Collector

*State.* Of each session its place (`session`), `connection_number`, whether
the connection still carries messages, the ACKs and the ping it waits for. Of
the sink `live` (per venue: connection, readiness, pong, down, verified) and the
`barrier` of the Bybit books. `coverage` is what `_coverage_points` and
`pair_explained_intervals` have made of the records so far, so that live and
replayed judgement stand side by side in each state. `books`, `stained` and
`dark` are history: what really was the case.

*Actions.* `Connect`, `Ping`, `Ack`, `Frame`, `HandlePong`, `Quarantine` are
`PublicSession`'s steps, each of which gives its record to the sink in the same
step (`Emits`); `Cut` is the moment a connection dies, `Fail` the later one at
which its session notices, for whatever reason; `Restart` is `_supervise` after
its backoff, `Stop` and `Leave` the end. `record`, `_append` and
`_coverage_points` are operators on a state and one more record.

*Assumed.* Both sessions run on one event loop, so a record is made and
appended in one step. Timeouts strike whenever they may.

*Left out.* Decoding of frames and order books (an update is a snapshot, a delta
that follows or one that does not), what the rows of coverage are validated
for, and hours and latencies (`usable` is an input).

## 3. Runs

Every configuration says `CHECK_DEADLOCK FALSE`: the bounds on epochs, nonces,
faults and the clock end the behaviours, and the real system may stop anywhere.
Only `Watchdog` assumes fairness and claims liveness.

| run | instance | result |
|---|---|---|
| `writer` | 2 processes with a wallet each, 2 lock files, 2 epochs, 2 faults | `TypeOK`, `SingleWriter`, `OneRiskGrantPerFile`, `EvidenceBeforeAuthority`, `DemotionIsFinal`, `EpochLostOnlyIfTorn`, `ImplementsAccountAuthority` |
| `writer_replaced` | the same | violates `SoleRiskWriter`, finding 1 |
| `signer_nonce` | 2 processes, 2 lock files, clock 1..2, window 3, 2 faults | `TypeOK`, `NoncesAscend`, `ForkIsDetected`, `NoFalseConflict`, `FreezeIsFinal` |
| `orders` | 2 tenures: of processes that share a wallet, with a Hyperliquid order and its replacement (clock 0..3), or of processes with a wallet each, with an order on Hyperliquid and a reduce-only one on Bybit (clock 0..2); 2 nonces | `TypeOK`, `AtMostOnce`, `OneLiveOrder`, `FirstRetryIsReconciled`, `SentIsRecorded`, `OnlyEpochsConflict` |
| `order_retry` | the same, 1 tenure | violates `NoBlindRetry`, finding 2 |
| `tenure` | legs of size 1, renewal every instant, horizon 2, 1 send | `TypeOK`, `AdmittedOnLaterState`, `StoppedIsFlat`, `AbandonedIsCancelled` |
| `risk_control` | limits of 1, streak threshold 2, clock 1..3 | `TypeOK`, `ClocksAreExact`, `StreakIsExact`, `ContinueIsSafe`, `RiskIsAdmitted` |
| `watchdog` | 2 processes, 2 lock files, 2 epochs, gap 1, interval 1, delay 1 | `TypeOK`, `SilenceIsNoticed`, `HealthyIsSpared`, `AbandonedIsCancelled` |
| `watchdog_healthy` | the same | violates `HealthyCausesNoCall`, finding 3 |
| `recorder` | 2 writers, 2 boot ids, 3 events, clock 1..4 over 3 hours, 1 shard with failed writes | `TypeOK`, `ListedIsIntact`, `ReplayIsFaithful`, `RefusalIsExplained` |
| `collector` | 1 stream of Hyperliquid, a book and trades of Bybit, 1 reconnect, 2 faults, clock 1..3 with the window 2..3 | `TypeOK`, `VerifiedIsCurrent`, `ReplayedIsCurrent`, `LiveIsReplayed`, `OutageIsAccounted` |
| `collector_recovery` | the same | violates `RecoveryIsReplayed`, finding 4 |

*Why these bounds are enough to be worth something.* Two processes make every
race for one lock; a second lock file is the one replacement that separates a
process from its successor; two faults allow a lost record followed by a crash,
a torn epoch followed by a takeover. Two nonces and two tenures let a request of
the first tenure meet an allocation of the second; in the plan with a
replacement the second tenure may have the epoch of the first. A window of 3 over a clock of
2 reaches both sides of `clock_backward`. Clock 3 leaves room for a signal, a
request, evidence after it and a replacement. In `tenure` one send is a whole
pair, or another instance's order, and a horizon
of two renewals reaches both a loop in time and one that died. In `watchdog` the
second file lets two tenures have one epoch, and gap, interval and delay of one
unit each reach both sides of every comparison. In `risk_control` three instants
and limits of one reach an interval in time, one too long, and an unknown
observation inside it; two inconsistent reconciliations reach the threshold and
a third passes it. Three events over three hours give a listed shard, one that
is being finalised and one that is open; two writers take over a boot id or
bring a new one, and one failed shard may be listed before or after a whole one.
One reconnect reaches a second connection, and the use of the
first id again after it; a failure and a quarantined frame may meet on one
connection; a gap of one nanosecond is allowed and a longer one is not, of a
window of two, and the limit in percent (2) is passed by any gap at all. `Stop`
waits for the last instant, because a stop earlier only shortens the behaviour.

The theorems remove these bounds for the writer lease, the nonces, the orders,
the tenure, `risk_control`, `recorder`, `collector` and the safety of
`watchdog`.

### Findings

1. **The lease is checked once** (`writer_replaced`). `GOAL.md:42` asks for one
   risk-increasing writer per account. A process that passed `authorize` and is
   recording its request does not look at the lock file again; when the file is
   removed meanwhile, another process becomes the risk-increasing writer of a
   new file and both send. tests/test_submission.py:323 keeps this on purpose.
   What does hold is `OneRiskGrantPerFile`: while one file is in place, only
   one process is ever granted a risk-increasing action.
2. **A resume does not advance the watermark** (`order_retry`). `GOAL.md:56`
   forbids a direct retry of an ambiguous outcome. `_authoritative_after`
   compares evidence with the request's `recorded_ns`, which a resumed transport
   leaves alone: the same evidence allows a third transport after the second
   lost its answer. `FirstRetryIsReconciled` says what does hold: the first
   retry of a request has to be reconciled. `AtMostOnce` is not at stake, since
   the venue takes the request's identity once.
3. **A fresh heartbeat looks like a timeout** (`watchdog_healthy`). The
   watchdog takes the time before it reads the heartbeat, and a heartbeat later
   than that time is a timeout (watchdog.py:55). A writer that publishes in
   between has its orders cancelled and the loop ends, although watchdog.py:66
   says that a healthy writer causes no venue call. It errs on the safe side.
   `HealthyIsSpared` says that a writer healthy all through a round meets no
   other false alarm.

4. **A connection id comes again** (`collector_recovery`). After the backoff of
   `_supervise` a new session numbers its connections from 1 again.
   `_coverage_points` resets a venue only when the id of a subscription differs
   from the last one it saw: when connection 1 failed and no later one got to
   subscribe, Bybit's new connection 1 stays blocked in replay, although the
   sink calls it verified. `data/coverage.py:60` promises one source for live
   and replayed readiness. It errs on the safe side: coverage counts the time as
   a gap. `LiveIsReplayed` says that only such a connection, or one with a
   quarantined frame, can differ. With `max_reconnects` 0, which session.py:100
   accepts, every connection is number 1, and the sink errs on the unsafe side:
   it keeps the barrier of the connection that failed (collector.py:154), and
   verifies Bybit on the next acknowledgement and pong, before any snapshot. So
   `VerifiedIsCurrent` is about sessions that may reconnect;
   `ReplayedIsCurrent` needs no such condition.

## 4. Proofs

Every theorem of the form `Spec => []P` follows the same line: an inductive
invariant `IInv` that implies `P`, a lemma per conjunct of it that goes through
the actions one by one, and PTL for the temporal step. The assumptions are those
on the constants, which TLC evaluates.

### Writer lease

`WriterLeaseProofs` proves, for any finite or infinite set of processes and any
bounds, each property that `writer` checks: `TypeCorrect`, `SingleWriterHolds`,
`OneRiskGrantPerFileHolds`, `EvidenceBeforeAuthorityHolds`,
`DemotionIsFinalHolds`, `EpochLostOnlyIfTornHolds`, and
`ImplementsAccountAuthorityHolds`, the refinement of `AccountAuthority`.

None of the properties is inductive by itself. The theorem `Invariant`
establishes `IInv`, the conjunction of

* `TypeOK` and `FilesInv`: no process has an uncreated file open;
* `LockInv`: flock table, descriptors, stages and modes agree. A primary lease
  has the flock of the file it has open, so two of them on one file are one;
* `GrantInv`: what is in flight was authorised under the lock file its process
  still has, which with `LockInv` gives `OneRiskGrantPerFile`;
* `EpochInv`: as long as a file's count is readable, in the page cache and on
  disk, it is at or above every epoch recorded since the count last restarted,
  and the file of a lease in use names that lease. That is why the epoch is
  written and synced before it is recorded;
* `UntornInv`: the count of a file on which no acquisition was cut short between
  `ftruncate` and `fsync` has not restarted. With `EpochInv` that gives
  `EpochLostOnlyIfTorn`;
* the evidence and demotion properties, which are inductive relative to these.

`TypeStep`, `LockStep`, `GrantStep`, `EpochStep`, `UntornStep`, `EvidenceStep`,
`DemotionStep` and `FilesStep` show that each conjunct survives each action. The
refinement maps `holder` to the process whose primary lease is on the file the
path names: removing the file ends the abstract tenure.

### Signer nonces

`SignerNonceProofs` proves, for any processes, any window and any number of lock
files, faults and rows, each property that `signer_nonce` checks. Its `IInv` is
`TypeOK` with

* `LockInv`: as for the lease; and a process that lost its file has frozen, in
  which case the first file was removed;
* `RowInv`: a row on its way to the log was decided from the allocator's own
  memory and is above it;
* `AscendInv`: as long as there was one lock file, every allocator that may
  still allocate remembers a nonce at or above all that were issued, and none may
  once a freeze is on record. That is what acquiring the fence before the replay
  is for, and what `NoncesAscend` and `FreezeIsFinal` need;
* `ForkInv`: a log in which replay finds no conflict ends with the highest nonce
  issued, whatever happened to the lock file (`ForkIsDetected`);
* `FaultlessInv`: without faults the last allocation on record is the one every
  allocator remembers (`NoFalseConflict`).

### Orders

`OrderSubmissionProofs` proves, for any orders on either venue, any plan of
replacements, any processes and wallets, each property that `orders` checks. Its
`IInv` is `TypeOK` with

* `CallInv`: an order has at most one request, which every message of it has the
  wallet and the nonce of, and a call in progress has a holder;
* `VenueInv`: what a venue knows of an order it knows from one message. With
  `CallInv` a second message of an order has the identity of the first, so the
  venue does not take it: the lemma `DeliverIsFirst`, and `AtMostOnce`;
* `ReplacementInv`: an end that was observed is the end, because the order's
  message has been taken (`OneLiveOrder`);
* `RetryInv`: evidence is no later than the request that was sent on it, so
  `decide_submission` does not let the request go again on it
  (`FirstRetryIsReconciled`);
* `NonceInv`, `LeaseInv`: a nonce of a wallet has one allocation, which the
  allocator of the tenure is not behind, except for a row whose record failed;
  every request has the acquisition of its tenure on record, so it conflicts
  with another only when that one has the same epoch (`OnlyEpochsConflict`).

`AtMostOnce` rests on what is assumed of the venues, and on one log for all
processes.

### Tenure

`TenureProofs` proves, for any sizes, intervals and horizon that
`run_hl_dead_man_loop` accepts and any number of orders, each property that
`tenure` checks. Its `IInv` is `TypeOK` and `AdmittedOnLaterState` with

* `LiveInv`: without a scheduled cancel Hyperliquid has an order only if one got
  live so and none was scheduled since. An armed cancel is never older than its horizon (`TypeOK`), which
  gives `AbandonedIsCancelled`;
* `SeenInv`: what was read since the `startup_started_ns` is what the venues had
  then or later, whatever changes afterwards;
* `StopInv`: a stopped owner keeps a lease that may cancel only;
* `SoundInv`: orders that were found empty while flattening stay so, positions
  read after them stay what they are, and after a flatten that was finished on
  both there is neither (`StoppedIsFlat`).

### Risk controls

`RiskControlProofs` proves, for any limits and any length of time,
each property that `risk_control` checks: `TypeCorrect`, `ClocksAreExactHolds`,
`StreakIsExactHolds`, `ContinueIsSafeHolds` and `RiskIsAdmittedHolds`. Its `IInv` is the conjunction of

* `TypeOK`;
* `ClockInv` for each clock: it is exact, it stands at the latest observation in
  the history, and it says "in time" only when nothing up to that observation is
  overdue. The code compares one number with a limit; `Overdue` quantifies over
  the whole history, and `ClockStep` is the lemma that the two agree after any
  accepted observation;
* `BoundInv`: a decision or an admission is never later than the clocks it
  rests on, so later observations cannot make it wrong (`OverdueStable`), and
  the streak never exceeds the time;
* `StreakInv`: the streak is in bijection with the inconsistent verdicts since
  the last consistent one. A property that counts is awkward to carry through
  steps; a bijection is extended by the new verdict, or emptied, and gives the
  cardinality of `StreakIsExact` at the end;
* `ContinueIsSafe` and `RiskIsAdmitted`.

### Watchdog

`WatchdogProofs` proves, for any processes, lock files, epochs, gap, interval and
delay, `TypeCorrect`, `SilenceIsNoticedHolds` and `HealthyIsSparedHolds`. Its
`IInv` is `TypeOK` with

* `LockInv`: a file that has the name or a holder has an epoch, so a watchdog
  that reads one never reads the count of nobody;
* `AgeInv`: no clock reading in the heartbeat file, or on its way to it, is
  younger than the silence. It ties the ages, which replace the times of the
  code, to the history;
* `RoundInv`: at each point of a round, how long the silence may have lasted
  when the watchdog did not cancel in the last one. Its bounds add up to the one
  of `SilenceIsNoticed`;
* `CalmInv`: while the writer stays healthy, the epoch that a round has read
  stays the one in the lock file, so only a heartbeat of the future is a false
  alarm (finding 3).

### Event log

`ShardWriterProofs` proves, for any boot ids, any length of an hour, any number
of writers and events, each property that `recorder` checks: `TypeCorrect`,
`ListedIsIntactHolds`, `ReplayIsFaithfulHolds` and `RefusalIsExplainedHolds`.
Its `IInv` is `TypeOK` with

* `StageInv` and `ListInv`: what each step of `_finalize` leaves on disk for the
  next. A shard is synchronised before it has its name and has its sidecar
  before its line, so a line that can be read is of a shard that no power failure
  changes, and none is listed twice;
* `NameInv` and `OpenInv`: the shard of every event has a name, which is why
  `_open` refuses it to a later writer with the same boot id; so the shard that
  is open holds the end of the log and nothing else;
* `KeyInv` and `TimeInv`: the events of one shard ascend, and all of them do
  while the clock was not set back;
* `DamageInv`: every line is torn and known to be, or of a shard that cannot be
  read and to which a write raised, or of one that has exactly its events; so
  damage stays where a write failed (`RefusalIsExplained`);
* `RecordInv`: as far as it can be read, every prefix of the manifest shows the
  events of its shards. `RecordKept` is the step that leaves lines alone,
  `RecordAdded` the one that lists the shard that was open.

Replay is a fold over the manifest, and its proof needs an induction. The
library's induction theorems take an operator, so `LeastNumber` (a set of
numbers has a least one) takes their place: the lemmas from `JoinExists` to
`FlattenAppend` assume the least counterexample and contradict it.
`ReplayIsFaithful` says by an index map (`AreAt`) which events are shown.

### Collector and replay

`CollectorProofs` proves, for any streams and books, any
window and limits, any number of reconnects and any bounds, each property that
`collector` checks: `TypeCorrect`, `VerifiedIsCurrentHolds`,
`ReplayedIsCurrentHolds`, `LiveIsReplayedHolds` and `OutageIsAccountedHolds`. The
judgements are folds over the records, but each step folds in at most two more
records, so no induction over sequences is needed: the lemmas `EmitsIs`,
`EmitsBothIs` say what one and two records do.

`VerifiedIsCurrent` needs `max_reconnects > 0` (finding 4); its `IInv` is

* `EvidenceTypes`, which hold for any number of reconnects;
* `SinkInv`: a venue that is ready has all its acknowledgements, and one that is
  verified is on an open connection, or on one that was left at the stop, with
  complete books;
* `BarrierInv`: the barrier has the open connection's id and knows no more books
  than it has shown. A connection about to start never has the barrier's id:
  after a reconnect its number is higher, and after the backoff the barrier has
  the number of the last one, which is not 1. That is where the condition enters.

`ReplayInv` is about replay, which does not trust an id: `SessionInv` says that
a session that is not open is blocked there or has not been seen, and
`Sound` that an unblocked venue has, of acknowledgements and books, only what
its connection has shown. `StartedIs` and `FailureIs` are the lemmas about a new
connection and a failed one, `EvidenceIs` the one about everything else. Because
a failure blocks the connection, an id that comes again stays blocked, which is
why the proof needs no condition on the reconnects.

`LinkInv` relates the two, for `LiveIsReplayed`:

* `Linked`: a stained open connection is blocked in replay. On another one replay
  has at least the acknowledgements and the pong that the sink has, and the same
  barrier (`Matches`), and what the sink counts as verified is active;
* `Replays`: an unblocked venue is active exactly when its evidence is complete
  (`Balanced`), no gap waits for its event between two steps, and the barrier of
  the sink is of the connection that replay has or empty (`BarrierLinked`).
  Without the last, a connection that starts could not be shown to start with
  the same barrier in both. Replay has failed only where the sink saw a gap on a
  stained Bybit connection, and that gap has ended the session.

`ListenAppends` is its main lemma: it says for one record of an open connection
what is appended and how replay takes it, with the gap event that must follow a
gap and the recovery event that changes nothing (`QuietPoint`).

`OutageInv` adds the pairing, for `OutageIsAccounted`. `Owed` says of the times
in which a venue had no connection: those before its last verification are
explained or the window has an unexplained gap (`Accounted`); the later ones will
be at the next verification, since a failure that waits begins before them
(`Awaited`). The second part does not hold while a dead connection is not noticed
yet: then the session gives nothing but pings to the sink, which verify nothing
that was not verified before, until it fails, and `FailureSettles` shows that the
failure makes up for it. `MergeGrows` carries a bound on the explained time over
to the outage in it: the longest interval and the number of nanoseconds.

### Only model-checked

* `AbandonedIsCancelled` of `Watchdog`: liveness under fairness is out of this
  prover's reach. `SilenceIsNoticed` is its safety part.

## 5. Not modelled

* Parsing of venue responses, validation of rows and contracts, decimal
  arithmetic of deltas, notionals and rates, latency percentiles: they keep no
  state, and a model of them would only repeat them. What depends on their
  outcome takes it as an input.
* `research/`, the notebook and the probes run outside the execution system.
* Pair legs, ledger and conversion rates are pure functions; what keeps state
  over them (the pair's obligation clock, the flatten plan) is in `RiskControl`
  and `Tenure`.
* Records of denied actions, of rotations and of observations: they change no
  state that a later decision reads.
* `confirm_bybit_cancel_completion` has no caller in the repository.
* `replay_order.py` and the final report of the collector read what is on disk
  when everything has stopped.
