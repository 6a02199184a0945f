--------------------------- MODULE OrderSubmission ---------------------------
(***************************************************************************)
(* Submitting the orders of one account (execution/submission.py and       *)
(* execution/orders.py) when answers get lost, messages arrive late and    *)
(* the process dies between any two of its steps.                          *)
(*                                                                         *)
(* AccountAuthority, which WriterLease implements, says who may submit;    *)
(* nonces of one signer ascend as in SignerNonce.  submit_order is cut at  *)
(* every call of it that leaves the process: the nonce record, the request *)
(* record, the transport and its answer.  The process that calls it is not *)
(* part of the repository; the model takes from it that each call gets the *)
(* request and history which the durable log holds, and that evidence is   *)
(* read by the process that holds the lease, or while nobody holds it.     *)
(***************************************************************************)
EXTENDS Naturals, FiniteSetsExt

CONSTANTS Instances,               \* the processes
          Wallets,                 \* wallet fingerprints
          wallet_fingerprint,      \* [Instances -> Wallets]
          NoOne,                   \* no process
          Orders,                  \* client order ids
          NoOrder,                 \* no client order id
          leg,                     \* [Orders -> {"hyperliquid", "bybit"}]
          reduce_only,             \* [Orders -> BOOLEAN]
          replaces,                \* the order each replaces, or NoOrder
          max_signal_age_ns, max_reconcile_attempts,
          MaxEpoch,                \* bound: tenures of the account, lease epochs
          MaxNonce,                \* bound: nonces of one signer
          MaxClock                 \* bound: the clock

ASSUME WalletAssumption == wallet_fingerprint \in [Instances -> Wallets]
ASSUME NoOneAssumption == NoOne \notin Instances /\ NoOrder \notin Orders
ASSUME OrderAssumption ==
    /\ leg \in [Orders -> {"hyperliquid", "bybit"}]
    /\ reduce_only \in [Orders -> BOOLEAN]
    /\ replaces \in [Orders -> Orders \cup {NoOrder}]
    /\ \A o \in Orders : replaces[o] # NoOrder => leg[o] = leg[replaces[o]]
ASSUME BoundAssumption ==
    {max_signal_age_ns, max_reconcile_attempts, MaxEpoch, MaxNonce, MaxClock} \subseteq Nat

VARIABLES
    holder, authority,  \* the account's writer: see AccountAuthority
    epoch,              \* lease epoch of the tenure
    granted,            \* history: the tenures so far
    last,               \* NonceAllocator._last of the tenure's allocator
    stage,              \* where the holder is in submit_order
    call,               \* the order, nonce and decided_ns of that call
    evidence,           \* the ReconciliationEvidence in the holder's memory
    clock,
    intended,           \* the intents made so far
    leases, allocations, requests,  \* durable log: acquisitions, nonces, requests
    history,            \* durable log: ReplayedDecisionHistory of each order
    sent,               \* messages handed to the network, never taken back
    consumed,           \* venue: the message identities it has processed
    venue,              \* venue: the status of each order
    executions          \* history: how often each order was accepted

tenure == <<holder, authority, epoch, granted, last>>
log == <<leases, allocations, requests, history>>
world == <<sent, consumed, venue, executions>>
vars == <<holder, authority, epoch, granted, last, stage, call, evidence, clock, intended,
          leases, allocations, requests, history,
          sent, consumed, venue, executions>>

Account == INSTANCE AccountAuthority

signal_ns == 0  \* of every intent: replacements keep their predecessor's
NoTime == 0     \* some surface of the evidence was not read

HOLD_STATUSES == {"open", "filled", "cancelled", "rejected"}

\* Mutant: an order the venue does not know of may be replaced.
REPLACEABLE_STATUSES_Absent == {"cancelled", "rejected", "absent"}

REPLACEABLE_STATUSES == {"cancelled", "rejected"}
VenueStatuses == HOLD_STATUSES \cup {"absent"}
Statuses == VenueStatuses \cup {"unknown"}

Nonces == 0 .. MaxNonce  \* 0 stands for None
Times == 0 .. MaxClock
Stages == {"idle", "authorized", "allocated", "recorded", "resuming", "sent"}

NoCall == [order |-> NoOrder, nonce |-> 0, decided_ns |-> 0]

\* "ns" is the earliest time of the three surfaces; "outdated" is history: the
\* stage from which a message has gone out since the evidence was read.
NoEvidence == [order |-> NoOrder, status |-> "unknown", ns |-> NoTime, outdated |-> "none"]

Leases == [tenure : 1 .. MaxEpoch, epoch : 1 .. MaxEpoch,
           instance : Instances, wallet : Wallets]
Requests == [order : Orders, instance : Instances, wallet : Wallets,
             nonce : Nonces, epoch : 1 .. MaxEpoch, recorded_ns : Times]
Messages == [order : Orders, wallet : Wallets, nonce : Nonces]

TypeOK ==
    /\ holder \in Instances \cup {NoOne}
    /\ authority \in {"none", "pending_reconciliation", "risk_increasing", "flatten_only"}
    /\ epoch \in 0 .. MaxEpoch
    /\ granted \in 0 .. MaxEpoch
    /\ last \in Nonces
    /\ stage \in Stages
    /\ call \in [order : Orders \cup {NoOrder}, nonce : Nonces, decided_ns : Times]
    /\ evidence \in [order : Orders \cup {NoOrder}, status : Statuses, ns : Times,
                     outdated : {"none", "recorded", "resuming"}]
    /\ clock \in Times
    /\ intended \subseteq Orders
    /\ leases \subseteq Leases
    /\ allocations \subseteq [wallet : Wallets, nonce : Nonces, instance : Instances]
    /\ requests \subseteq Requests
    /\ history \in [Orders -> [attempts : 0 .. max_reconcile_attempts, frozen : BOOLEAN]]
    /\ sent \subseteq Messages
    /\ consumed \subseteq Messages
    /\ venue \in [Orders -> VenueStatuses]
    /\ executions \in [Orders -> Nat]

Init ==
    /\ Account!Init
    /\ epoch = 0
    /\ granted = 0
    /\ last = 0
    /\ stage = "idle"
    /\ call = NoCall
    /\ evidence = NoEvidence
    /\ clock = signal_ns
    /\ intended = {o \in Orders : replaces[o] = NoOrder}
    /\ leases = {}
    /\ allocations = {}
    /\ requests = {}
    /\ history = [o \in Orders |-> [attempts |-> 0, frozen |-> FALSE]]
    /\ sent = {}
    /\ consumed = {}
    /\ venue = [o \in Orders |-> "absent"]
    /\ executions = [o \in Orders |-> 0]

-----------------------------------------------------------------------------
\* The tenure and what only its process knows end together.
Forget ==
    /\ stage' = "idle"
    /\ call' = NoCall
    /\ evidence' = NoEvidence

\* WriterLease.acquire: another acquisition goes on record.  Its epoch goes on
\* from the lock file's last one, skips those of acquisitions that were never
\* recorded, or starts again at 1 when the file is new, empty or torn.
Acquired(i) ==
    /\ granted < MaxEpoch
    /\ Account!Grant(i)
    /\ granted' = granted + 1
    /\ epoch' \in 1 .. MaxEpoch
    /\ leases' = leases \cup {[tenure |-> granted', epoch |-> epoch', instance |-> i,
                              wallet |-> wallet_fingerprint[i]]}

\* Mutant: the allocator starts from zero.
Grant_Unreplayed(i) ==
    /\ Acquired(i)
    /\ last' = 0
    /\ UNCHANGED <<stage, call, evidence, clock, intended, allocations, requests,
                   history, world>>

\* A process gets the account's lease, and with it a signer fence and an
\* allocator that starts from replay_last_allocated_nonce of the log.
Grant(i) ==
    LET allocated == {a.nonce : a \in {b \in allocations : b.wallet = wallet_fingerprint[i]}}
    IN  /\ Acquired(i)
        /\ last' \in {n \in {0} \cup allocated : \A m \in allocated : m \leq n}
        /\ UNCHANGED <<stage, call, evidence, clock, intended, allocations, requests,
                       history, world>>

elevate_to_risk_increasing ==
    /\ stage = "idle"
    /\ Account!Promote
    /\ UNCHANGED <<epoch, granted, last, stage, call, evidence, clock, intended, log, world>>

demote_to_flatten_only ==
    /\ stage = "idle"
    /\ Account!Restrict
    /\ UNCHANGED <<epoch, granted, last, stage, call, evidence, clock, intended, log, world>>

\* The tenure ends: a crash wherever the call is, or a release.
End ==
    /\ Account!End
    /\ Forget
    /\ last' = 0
    /\ UNCHANGED <<epoch, granted, clock, intended, log, world>>

-----------------------------------------------------------------------------
\* The orders, fills and positions of the venue are read, the earliest of them
\* at ns (NoTime when one is missing, as in evidence built from replay); a venue
\* that gives no clear answer leaves the order unknown.
Observe(o) ==
    /\ stage = "idle"
    /\ \E status \in {venue[o], "unknown"}, ns \in {NoTime, clock} :
          evidence' = [order |-> o, status |-> status, ns |-> ns, outdated |-> "none"]
    /\ UNCHANGED <<tenure, stage, call, clock, intended, log, world>>

\* Mutant: the time of the request is not looked at.
_authoritative_after_Signal(o, found) == evidence.ns > signal_ns

\* The three surfaces were all read after the intent, or its request, was made.
_authoritative_after(o, found) ==
    evidence.ns > (IF found = {} THEN signal_ns ELSE Max({r.recorded_ns : r \in found}))

ambiguous(o, found) ==
    \/ evidence.status = "unknown"
    \/ evidence.status = "absent" /\ ~ _authoritative_after(o, found)

\* Mutant: reconciliation attempts are not limited.
decide_submission_Unlimited(o, found) ==
    IF history[o].frozen THEN "freeze"
    ELSE IF ambiguous(o, found) THEN "reconcile"
    ELSE IF evidence.status \in HOLD_STATUSES THEN "hold"
    ELSE IF clock - signal_ns > max_signal_age_ns THEN "reject_stale"
    ELSE IF found = {} THEN "persist"
    ELSE "submit"

decide_submission(o, found) ==
    IF history[o].frozen THEN "freeze"
    ELSE IF ambiguous(o, found)
         THEN IF history[o].attempts \geq max_reconcile_attempts THEN "freeze" ELSE "reconcile"
    ELSE IF evidence.status \in HOLD_STATUSES THEN "hold"
    ELSE IF clock - signal_ns > max_signal_age_ns THEN "reject_stale"
    ELSE IF found = {} THEN "persist"
    ELSE "submit"

\* The requests of an order that the durable log holds.
Request(o) == {r \in requests : r.order = o}

\* WriterLease.authorize for "reduce_only" or "submit".
authorize(o) ==
    authority \in IF reduce_only[o] THEN {"risk_increasing", "flatten_only"}
                                    ELSE {"risk_increasing"}

\* submit_order up to its first call that leaves the process.
Deciding(o, decision) ==
    /\ stage = "idle"
    /\ holder # NoOne
    /\ o \in intended
    /\ evidence.order = o
    /\ decide_submission(o, Request(o)) = decision

\* The decision goes on record: another attempt, or a freeze.
Reconcile(o) ==
    /\ Deciding(o, "reconcile")
    /\ history' = [history EXCEPT ![o].attempts = @ + 1]
    /\ UNCHANGED <<tenure, stage, call, evidence, clock, intended,
                   leases, allocations, requests, world>>

Freeze(o) ==
    /\ Deciding(o, "freeze")
    /\ history' = [history EXCEPT ![o].frozen = TRUE]
    /\ UNCHANGED <<tenure, stage, call, evidence, clock, intended,
                   leases, allocations, requests, world>>

Persist(o) ==
    /\ Deciding(o, "persist")
    /\ authorize(o)
    /\ call' = [order |-> o, nonce |-> 0, decided_ns |-> clock]
    /\ stage' = IF leg[o] = "hyperliquid" THEN "authorized" ELSE "allocated"
    /\ UNCHANGED <<tenure, evidence, clock, intended, log, world>>

\* Mutant: a request made for another wallet is sent again.
_validate_resume_request_Any(request) == TRUE

\* _validate_resume_request: the request was made for this wallet.  It may
\* refuse any request as well because its nonce has left the signer's window.
_validate_resume_request(request) == request.wallet = wallet_fingerprint[holder]

\* Mutant: a resumed request gets the allocator's next nonce.
Resume_Renumbered(o) ==
    /\ Deciding(o, "submit")
    /\ authorize(o)
    /\ \E request \in Request(o) : _validate_resume_request(request)
    /\ call' = [order |-> o, nonce |-> last + 1, decided_ns |-> clock]
    /\ stage' = "resuming"
    /\ UNCHANGED <<tenure, evidence, clock, intended, log, world>>

Resume(o) ==
    /\ Deciding(o, "submit")
    /\ authorize(o)
    /\ \E request \in Request(o) :
          /\ _validate_resume_request(request)
          /\ call' = [order |-> o, nonce |-> request.nonce, decided_ns |-> clock]
    /\ stage' = "resuming"
    /\ UNCHANGED <<tenure, evidence, clock, intended, log, world>>

\* NonceAllocator.allocate: the allocation is recorded, then returned.  When
\* the recorder raises, the row may have reached the log; _last stays.
allocate ==
    LET nonce == last + 1
        row == [wallet |-> wallet_fingerprint[holder], nonce |-> nonce, instance |-> holder]
    IN  /\ stage = "authorized"
        /\ nonce \leq MaxNonce
        /\ \/ /\ allocations' = allocations \cup {row}
              /\ last' = nonce
              /\ call' = [call EXCEPT !.nonce = nonce]
              /\ stage' = "allocated"
           \/ /\ allocations' \in {allocations, allocations \cup {row}}
              /\ call' = NoCall
              /\ stage' = "idle"
              /\ UNCHANGED last
        /\ UNCHANGED <<holder, authority, epoch, granted, evidence, clock, intended,
                       leases, requests, history, world>>

\* Mutant: a failed record does not keep the request from being sent.
record_request_Unheeded ==
    LET built == [order |-> call.order, instance |-> holder,
                  wallet |-> wallet_fingerprint[holder], nonce |-> call.nonce,
                  epoch |-> epoch, recorded_ns |-> call.decided_ns]
    IN  /\ stage = "allocated"
        /\ requests' \in {requests, requests \cup {built}}
        /\ stage' = "recorded"
        /\ UNCHANGED <<tenure, call, evidence, clock, intended, leases, allocations,
                       history, world>>

\* request_recorder: the request is durable before submit_order goes on; when
\* it raises, the request may have reached the log and nothing is sent.
record_request ==
    LET built == [order |-> call.order, instance |-> holder,
                  wallet |-> wallet_fingerprint[holder], nonce |-> call.nonce,
                  epoch |-> epoch, recorded_ns |-> call.decided_ns]
    IN  /\ stage = "allocated"
        /\ \/ /\ requests' = requests \cup {built}
              /\ stage' = "recorded"
              /\ UNCHANGED call
           \/ /\ requests' \in {requests, requests \cup {built}}
              /\ stage' = "idle"
              /\ call' = NoCall
        /\ UNCHANGED <<tenure, evidence, clock, intended, leases, allocations, history, world>>

\* The transport puts the message on the network.
transport ==
    /\ stage \in {"recorded", "resuming"}
    /\ sent' = sent \cup {[order |-> call.order, wallet |-> wallet_fingerprint[holder],
                           nonce |-> call.nonce]}
    /\ evidence' = [evidence EXCEPT !.outdated = stage]
    /\ stage' = "sent"
    /\ UNCHANGED <<tenure, call, clock, intended, log, consumed, venue, executions>>

\* The transport returns or raises: neither says whether the venue got it.
Answer ==
    /\ stage = "sent"
    /\ stage' = "idle"
    /\ call' = NoCall
    /\ UNCHANGED <<tenure, evidence, clock, intended, log, world>>

\* replacement_intent: only of an order whose end is authoritatively known.
replacement_intent(o) ==
    /\ stage = "idle"
    /\ o \notin intended
    /\ replaces[o] # NoOrder /\ evidence.order = replaces[o]
    /\ evidence.status \in REPLACEABLE_STATUSES
    /\ _authoritative_after(replaces[o], {})
    /\ intended' = intended \cup {o}
    /\ UNCHANGED <<tenure, stage, call, evidence, clock, log, world>>

-----------------------------------------------------------------------------
\* Hyperliquid processes a signer's nonce once, Bybit a client order id once.
SameIdentity(m, n) ==
    /\ leg[m.order] = leg[n.order]
    /\ IF leg[m.order] = "hyperliquid" THEN m.wallet = n.wallet /\ m.nonce = n.nonce
                                       ELSE m.order = n.order

\* A message arrives, however late and however often it was sent.
Deliver(m) ==
    /\ \A c \in consumed : ~ SameIdentity(c, m)
    /\ consumed' = consumed \cup {m}
    /\ \/ /\ venue' = [venue EXCEPT ![m.order] = "open"]
          /\ executions' = [executions EXCEPT ![m.order] = @ + 1]
       \/ /\ venue' = [venue EXCEPT ![m.order] = "rejected"]
          /\ UNCHANGED executions
    /\ UNCHANGED <<tenure, stage, call, evidence, clock, intended, log, sent>>

\* An open order fills, or is cancelled by the venue, the watchdog or a writer.
Close(o) ==
    /\ venue[o] = "open"
    /\ \E status \in {"filled", "cancelled"} : venue' = [venue EXCEPT ![o] = status]
    /\ UNCHANGED <<tenure, stage, call, evidence, clock, intended, log,
                   sent, consumed, executions>>

Tick ==
    /\ clock < MaxClock
    /\ clock' = clock + 1
    /\ UNCHANGED <<tenure, stage, call, evidence, intended, log, world>>

Tenure ==
    \/ \E i \in Instances : Grant(i)
    \/ elevate_to_risk_increasing \/ demote_to_flatten_only \/ End

submit_order(o) == Reconcile(o) \/ Freeze(o) \/ Persist(o) \/ Resume(o)

Next ==
    \/ Tenure
    \/ \E o \in Orders : Observe(o) \/ submit_order(o) \/ replacement_intent(o)
    \/ allocate \/ record_request \/ transport \/ Answer
    \/ \E m \in sent : Deliver(m)
    \/ \E o \in Orders : Close(o)
    \/ Tick

Spec == Init /\ [][Next]_vars

-----------------------------------------------------------------------------
\* No order is executed twice: not when the answer to its request is lost and
\* the request is sent again, not when the first message is still under way, not
\* when a process dies between its records and a process with another wallet
\* takes over.
AtMostOnce == \A o \in Orders : executions[o] \leq 1

\* A replacement reaches the venue only when the order it replaces has ended:
\* a late message of the predecessor cannot bring a second live order.
OneLiveOrder ==
    \A o \in Orders :
        replaces[o] # NoOrder /\ venue[o] # "absent"
            => venue[replaces[o]] \in {"cancelled", "rejected"}

\* A request that was recorded and sent is not sent again on evidence from
\* before its first message, not even by another process after a crash.
FirstRetryIsReconciled ==
    stage \notin {"idle", "sent"} => evidence.outdated # "recorded"

\* What GOAL.md section 2.3 asks of every ambiguous outcome: it is never
\* retried before the order has been looked up again.
NoBlindRetry == stage \notin {"idle", "sent"} => evidence.outdated = "none"

\* Whatever the venue may know of is in the durable log, so that the process
\* after a crash can find it.
SentIsRecorded ==
    \A m \in sent :
        \E r \in requests : r.order = m.order /\ r.wallet = m.wallet /\ r.nonce = m.nonce

-----------------------------------------------------------------------------
\* The conflicts that replay_event_window finds in a log, for which admission
\* freezes.  A record comes before the next one that a call makes.
nonce_allocation_missing(r) ==
    LET nonces == {a.nonce : a \in {b \in allocations : b.wallet = r.wallet}}
    IN  nonces # {} /\ r.nonce \geq Min(nonces) /\ r.nonce \notin nonces

nonce_allocation_binding_mismatch(r) ==
    \E a \in allocations : a.wallet = r.wallet /\ a.nonce = r.nonce /\ a.instance # r.instance

\* The first acquisition with the request's epoch is not the request's.
_lease_request_conflicts(r) ==
    \E l \in leases :
        /\ l.epoch = r.epoch
        /\ \A k \in leases : k.epoch = r.epoch => l.tenure \leq k.tenure
        /\ l.instance # r.instance \/ l.wallet # r.wallet

_nonce_request_conflict(r) ==
    /\ leg[r.order] = "hyperliquid"
    /\ nonce_allocation_missing(r) \/ nonce_allocation_binding_mismatch(r)

nonce_reuse(q, r) ==
    /\ {leg[q.order], leg[r.order]} = {"hyperliquid"}
    /\ q.wallet = r.wallet /\ q.nonce = r.nonce
    /\ q.order # r.order

\* Two acquisitions on record have one epoch.
_semantic_conflict(l, k) == l.epoch = k.epoch /\ l # k

\* A lease epoch that comes again is the only thing that replay of the log of
\* submit_order and the acquisitions may find a conflict in: through failing
\* records, restarts and changes of wallet, nonces never conflict, whatever the
\* epochs do, and a request conflicts with a lease only when two acquisitions
\* of its epoch are on record, which replay reports by themselves.
OnlyEpochsConflict ==
    /\ \A r \in requests : ~ _nonce_request_conflict(r)
    /\ \A q, r \in requests : ~ nonce_reuse(q, r)
    /\ \A r \in requests : _lease_request_conflicts(r) =>
           \E l, k \in leases : l.epoch = r.epoch /\ _semantic_conflict(l, k)
=============================================================================
