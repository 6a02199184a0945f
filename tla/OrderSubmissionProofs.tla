------------------------ MODULE OrderSubmissionProofs ------------------------
(***************************************************************************)
(* Proofs about OrderSubmission, for any orders, venues, replacements,     *)
(* processes, wallets and bounds: no order is executed twice, a            *)
(* replacement is alone, the log knows what was sent and replays without a *)
(* conflict, and a first retry rests on new evidence.                      *)
(***************************************************************************)
EXTENDS OrderSubmission, TLAPS

\* A call has a holder and an order; an order has at most one request, which a
\* message of it has the wallet and the nonce of.
CallInv ==
    /\ stage # "idle" => holder # NoOne /\ call.order \in intended
    /\ \A r \in requests : r.order \in intended
    /\ \A q, r \in requests : q.order = r.order => q = r
    /\ stage \in {"authorized", "allocated"} => \A r \in requests : r.order # call.order
    /\ stage \in {"recorded", "resuming"} =>
          \E r \in requests : /\ r.order = call.order /\ r.nonce = call.nonce
                              /\ r.wallet = wallet_fingerprint[holder]
    /\ SentIsRecorded

\* What the venue knows of an order is from its one message.
VenueInv ==
    /\ consumed \subseteq sent
    /\ \A o \in Orders : venue[o] # "absent" \/ executions[o] # 0 =>
                             \E m \in consumed : m.order = o
    /\ AtMostOnce

\* The end of an order that was observed is its end.
ReplacementInv ==
    /\ evidence.order # NoOrder /\ evidence.status \in REPLACEABLE_STATUSES =>
           venue[evidence.order] = evidence.status
    /\ \A o \in intended : replaces[o] # NoOrder => venue[replaces[o]] \in REPLACEABLE_STATUSES

\* Evidence is no later than the request of its order that was sent on it.
RetryInv ==
    /\ evidence.ns \leq clock
    /\ stage \in {"authorized", "allocated", "recorded", "resuming"} =>
           evidence.order = call.order /\ evidence.outdated # "recorded"
    /\ stage \in {"authorized", "allocated"} => evidence.ns \leq call.decided_ns
    /\ stage = "recorded" \/ evidence.outdated = "recorded" =>
           \E r \in requests : r.order = evidence.order /\ evidence.ns \leq r.recorded_ns

\* The allocator of the tenure has a nonce that no request has.
NonceInv ==
    /\ \A a, b \in allocations : a.wallet = b.wallet /\ a.nonce = b.nonce => a = b
    /\ \A a \in allocations :
          holder # NoOne /\ a.wallet = wallet_fingerprint[holder] =>
              a.nonce \leq last \/ (a.nonce = last + 1 /\ a.instance = holder)
    /\ \A r \in requests : leg[r.order] = "hyperliquid" =>
          /\ [wallet |-> r.wallet, nonce |-> r.nonce, instance |-> r.instance] \in allocations
          /\ holder # NoOne /\ r.wallet = wallet_fingerprint[holder] => r.nonce \leq last
    /\ stage = "allocated" /\ leg[call.order] = "hyperliquid" =>
          /\ call.nonce = last
          /\ [wallet |-> wallet_fingerprint[holder], nonce |-> last, instance |-> holder]
                 \in allocations
          /\ \A r \in requests : leg[r.order] = "hyperliquid"
                /\ r.wallet = wallet_fingerprint[holder] => r.nonce < last
    /\ \A q, r \in requests : ~ nonce_reuse(q, r)

\* Every tenure has its acquisition on record, and every request its tenure.
LeaseInv ==
    /\ holder # NoOne =>
          \E l \in leases : /\ l.epoch = epoch /\ l.instance = holder
                            /\ l.wallet = wallet_fingerprint[holder]
    /\ \A r \in requests :
          \E l \in leases : l.epoch = r.epoch /\ l.instance = r.instance /\ l.wallet = r.wallet

\* The inductive invariant.
IInv ==
    /\ TypeOK /\ CallInv /\ VenueInv /\ ReplacementInv /\ RetryInv /\ NonceInv /\ LeaseInv

-----------------------------------------------------------------------------
\* What the constants are.
LEMMA ConstantTypes ==
    /\ MaxEpoch \in Nat /\ MaxNonce \in Nat /\ MaxClock \in Nat
    /\ max_reconcile_attempts \in Nat /\ max_signal_age_ns \in Nat
    /\ NoOne \notin Instances /\ NoOrder \notin Orders
    /\ wallet_fingerprint \in [Instances -> Wallets]
    /\ leg \in [Orders -> {"hyperliquid", "bybit"}]
    /\ replaces \in [Orders -> Orders \cup {NoOrder}]
BY WalletAssumption, NoOneAssumption, OrderAssumption, BoundAssumption

\* The time of an order that has one request is that request's.
LEMMA MaxOfOne ==
    ASSUME NEW n \in Nat
    PROVE  Max({n}) = n
BY DEF Max

\* The request that a call builds reaches the log, or may when the call gives up.
Recording(built) ==
    /\ built.order = call.order /\ built.instance = holder
    /\ built.wallet = wallet_fingerprint[holder]
    /\ built.nonce = call.nonce /\ built.epoch = epoch /\ built.recorded_ns = call.decided_ns
    /\ requests' = requests \cup {built} \/ (requests' = requests /\ stage' = "idle")
    /\ stage' = "recorded" => call' = call

LEMMA RecordStep ==
    ASSUME record_request
    PROVE  \E built : Recording(built)
<1> DEFINE new == [order |-> call.order, instance |-> holder,
                   wallet |-> wallet_fingerprint[holder], nonce |-> call.nonce,
                   epoch |-> epoch, recorded_ns |-> call.decided_ns]
<1>1. requests' = requests \cup {new} \/ (requests' = requests /\ stage' = "idle")
    BY DEF record_request
<1>2. stage' = "recorded" => call' = call
    BY DEF record_request
<1>3. Recording(new)
    BY <1>1, <1>2 DEF Recording
<1> QED
    BY <1>3

\* Every action keeps the types.
LEMMA TypeStep ==
    ASSUME TypeOK, CallInv, LeaseInv, [Next]_vars
    PROVE  TypeOK'
<1> USE ConstantTypes DEF TypeOK, Nonces, Times, Stages, tenure, log, world
<1>1. ASSUME NEW i \in Instances, Grant(i)
      PROVE  TypeOK'
    <2>1. last' \in Nonces
        BY <1>1 DEF Grant, Acquired, Account!Grant
    <2>2. [tenure |-> granted', epoch |-> epoch', instance |-> i,
           wallet |-> wallet_fingerprint[i]] \in Leases
        BY <1>1 DEF Grant, Acquired, Leases
    <2>3. leases' \subseteq Leases
        BY <1>1, <2>2 DEF Grant, Acquired
    <2> QED
        BY <1>1, <2>1, <2>2, <2>3 DEF Grant, Acquired, Account!Grant
<1>2. CASE elevate_to_risk_increasing
    BY <1>2 DEF elevate_to_risk_increasing, Account!Promote
<1>3. CASE demote_to_flatten_only
    BY <1>3 DEF demote_to_flatten_only, Account!Restrict
<1>4. CASE End
    BY <1>4
    DEF End, Account!End, Forget, NoCall, NoEvidence, signal_ns, Statuses, NoTime
<1>5. ASSUME NEW o \in Orders, Observe(o)
      PROVE  TypeOK'
    <2>1. venue[o] \in Statuses
        BY DEF Statuses
    <2>2. evidence' \in [order : Orders \cup {NoOrder}, status : Statuses, ns : Times,
                   outdated : {"none", "recorded", "resuming"}]
        BY <1>5, <2>1 DEF Observe, Statuses, NoTime
    <2> QED
        BY <1>5, <2>1, <2>2 DEF Observe
<1>6. ASSUME NEW o \in Orders, Reconcile(o)
      PROVE  TypeOK'
    <2>1. history[o].attempts < max_reconcile_attempts
        BY <1>6 DEF Reconcile, Deciding, decide_submission
    <2>2. [history[o] EXCEPT !.attempts = @ + 1]
             \in [attempts : 0 .. max_reconcile_attempts, frozen : BOOLEAN]
        BY <2>1
    <2>3. history' \in [Orders -> [attempts : 0 .. max_reconcile_attempts, frozen : BOOLEAN]]
        BY <1>6, <2>2 DEF Reconcile, Deciding
    <2> QED
        BY <1>6, <2>1, <2>2, <2>3 DEF Reconcile, Deciding
<1>7. ASSUME NEW o \in Orders, Freeze(o)
      PROVE  TypeOK'
    <2>1. history[o] \in [attempts : 0 .. max_reconcile_attempts, frozen : BOOLEAN]
        OBVIOUS
    <2>2. [history[o] EXCEPT !.frozen = TRUE]
             \in [attempts : 0 .. max_reconcile_attempts, frozen : BOOLEAN]
        BY <2>1
    <2>3. history' \in [Orders -> [attempts : 0 .. max_reconcile_attempts, frozen : BOOLEAN]]
        BY <1>7, <2>2 DEF Freeze
    <2> QED
        BY <1>7, <2>1, <2>2, <2>3 DEF Freeze
<1>8. ASSUME NEW o \in Orders, Persist(o)
      PROVE  TypeOK'
    BY <1>8 DEF Persist, Deciding
<1>9. ASSUME NEW o \in Orders, Resume(o)
      PROVE  TypeOK'
    <2>1. \A request \in Request(o) : request.nonce \in 0 .. MaxNonce
        BY DEF Request, Requests
    <2> QED
        BY <1>9, <2>1 DEF Resume, Deciding
<1>10. ASSUME NEW o \in Orders, replacement_intent(o)
       PROVE  TypeOK'
    BY <1>10 DEF replacement_intent
<1>11. CASE allocate
    <2>1. holder \in Instances
        BY <1>11 DEF allocate, NoCall, CallInv
    <2>2. [wallet |-> wallet_fingerprint[holder], nonce |-> last + 1, instance |-> holder]
             \in [wallet : Wallets, nonce : Nonces, instance : Instances]
        BY <1>11, <2>1 DEF allocate, NoCall
    <2>3. [call EXCEPT !.nonce = last + 1] \in
            [order : Orders \cup {NoOrder}, nonce : Nonces, decided_ns : Times]
        BY <1>11 DEF allocate, NoCall
    <2>4. allocations' \subseteq [wallet : Wallets, nonce : Nonces, instance : Instances]
        BY <1>11, <2>2 DEF allocate, NoCall
    <2>5. call' \in [order : Orders \cup {NoOrder}, nonce : Nonces, decided_ns : Times]
        BY <1>11, <2>3 DEF allocate, NoCall
    <2> QED
        BY <1>11, <2>4, <2>5 DEF allocate
<1>12. CASE record_request
    <2>1. holder \in Instances /\ call.order \in Orders
        BY <1>12 DEF record_request, NoCall, CallInv
    <2>2. epoch \in 1 .. MaxEpoch
        BY <1>12, <2>1 DEF record_request, NoCall, LeaseInv, Leases
    <2>3. [order |-> call.order, instance |-> holder, wallet |-> wallet_fingerprint[holder],
          nonce |-> call.nonce, epoch |-> epoch, recorded_ns |-> call.decided_ns] \in Requests
        BY <2>1, <2>2 DEF Requests
    <2>4. requests' \subseteq Requests
        BY <1>12, <2>3 DEF record_request, NoCall
    <2> QED
        BY <1>12, <2>4 DEF record_request, NoCall
<1>13. CASE transport
    <2>1. holder \in Instances /\ call.order \in Orders
        BY <1>13 DEF transport, CallInv
    <2>2. [order |-> call.order, wallet |-> wallet_fingerprint[holder], nonce |-> call.nonce]
             \in Messages
        BY <2>1 DEF Messages
    <2>3. [evidence EXCEPT !.outdated = stage] \in
            [order : Orders \cup {NoOrder}, status : Statuses, ns : Times,
             outdated : {"none", "recorded", "resuming"}]
        BY <1>13 DEF transport
    <2> QED
        BY <1>13, <2>1, <2>2, <2>3 DEF transport
<1>14. CASE Answer
    BY <1>14 DEF Answer, NoCall
<1>15. ASSUME NEW m \in sent, Deliver(m)
       PROVE  TypeOK'
    <2>1. m \in Messages /\ m.order \in Orders
        BY <1>15 DEF Deliver, Messages
    <2>2. executions' \in [Orders -> Nat]
        BY <1>15, <2>1 DEF Deliver
    <2>3. venue' \in [Orders -> VenueStatuses]
        BY <1>15, <2>1 DEF Deliver, VenueStatuses, HOLD_STATUSES
    <2> QED
        BY <1>15, <2>1, <2>2, <2>3 DEF Deliver
<1>16. ASSUME NEW o \in Orders, Close(o)
       PROVE  TypeOK'
    <2>1. venue' \in [Orders -> VenueStatuses]
        BY <1>16 DEF Close, VenueStatuses, HOLD_STATUSES
    <2> QED
        BY <1>16, <2>1 DEF Close
<1>17. CASE Tick
    BY <1>17 DEF Tick
<1>18. CASE UNCHANGED vars
    BY <1>18 DEF vars
<1> QED
    BY <1>1, <1>2, <1>3, <1>4, <1>5, <1>6, <1>7, <1>8, <1>9, <1>10, <1>11, <1>12,
       <1>13, <1>14, <1>15, <1>16, <1>17, <1>18 DEF Next, Tenure, submit_order

\* A call has a holder, an order one request, and what is sent is on record.
LEMMA CallStep ==
    ASSUME TypeOK, CallInv, [Next]_vars
    PROVE  CallInv'
<1> USE ConstantTypes DEF TypeOK, CallInv, SentIsRecorded, tenure, log, world
<1>1. ASSUME NEW i \in Instances, Grant(i)
      PROVE  CallInv'
    BY <1>1 DEF Grant, Acquired, Account!Grant
<1>2. CASE elevate_to_risk_increasing
    BY <1>2 DEF elevate_to_risk_increasing, Account!Promote
<1>3. CASE demote_to_flatten_only
    BY <1>3 DEF demote_to_flatten_only, Account!Restrict
<1>4. CASE End
    BY <1>4 DEF End, Account!End, Forget, NoCall, NoEvidence
<1>5. ASSUME NEW o \in Orders, Observe(o)
      PROVE  CallInv'
    BY <1>5 DEF Observe
<1>6. ASSUME NEW o \in Orders, Reconcile(o)
      PROVE  CallInv'
    BY <1>6 DEF Reconcile, Deciding
<1>7. ASSUME NEW o \in Orders, Freeze(o)
      PROVE  CallInv'
    BY <1>7 DEF Freeze
<1>8. ASSUME NEW o \in Orders, Persist(o)
      PROVE  CallInv'
    <2>1. \A r \in requests : r.order # o
        BY <1>8 DEF Persist, Deciding, decide_submission, Request
    <2> QED
        BY <1>8, <2>1 DEF Persist, Deciding
<1>9. ASSUME NEW o \in Orders, Resume(o)
      PROVE  CallInv'
    BY <1>9 DEF Resume, Deciding, Request, _validate_resume_request
<1>10. ASSUME NEW o \in Orders, replacement_intent(o)
       PROVE  CallInv'
    BY <1>10 DEF replacement_intent
<1>11. CASE allocate
    <2>1. call'.order = call.order \/ stage' = "idle"
        BY <1>11 DEF allocate, NoCall
    <2> QED
        BY <1>11, <2>1 DEF allocate, NoCall
<1>12. CASE record_request
    <2>1. stage = "allocated" /\ holder # NoOne /\ call.order \in intended
        BY <1>12 DEF record_request, NoCall
    <2>2. \A r \in requests : r.order # call.order
        BY <1>12 DEF record_request, NoCall
    <2>3. PICK built : Recording(built)
        BY <1>12, RecordStep DEF record_request, NoCall
    <2>4. stage' \in {"recorded", "idle"} /\ UNCHANGED <<holder, intended, sent>>
        BY <1>12 DEF record_request, NoCall
    <2> QED
        BY <2>1, <2>2, <2>3, <2>4 DEF Recording
<1>13. CASE transport
    BY <1>13 DEF transport
<1>14. CASE Answer
    BY <1>14 DEF Answer, NoCall
<1>15. ASSUME NEW m \in sent, Deliver(m)
       PROVE  CallInv'
    BY <1>15 DEF Deliver
<1>16. ASSUME NEW o \in Orders, Close(o)
       PROVE  CallInv'
    BY <1>16 DEF Close
<1>17. CASE Tick
    BY <1>17 DEF Tick
<1>18. CASE UNCHANGED vars
    BY <1>18 DEF vars
<1> QED
    BY <1>1, <1>2, <1>3, <1>4, <1>5, <1>6, <1>7, <1>8, <1>9, <1>10, <1>11, <1>12,
       <1>13, <1>14, <1>15, <1>16, <1>17, <1>18 DEF Next, Tenure, submit_order

\* What is delivered is the first that the venue hears of an order: a second
\* message of it has the identity of the first.
LEMMA DeliverIsFirst ==
    ASSUME TypeOK, CallInv, VenueInv, NEW m \in sent, Deliver(m)
    PROVE  /\ m.order \in Orders
           /\ venue[m.order] = "absent" /\ executions[m.order] = 0
<1>1. m \in Messages /\ m.order \in Orders
    BY DEF TypeOK, Messages
<1>2. ASSUME NEW c \in consumed, c.order = m.order
      PROVE  FALSE
    <2>1. PICK q \in requests : q.order = m.order /\ q.wallet = m.wallet /\ q.nonce = m.nonce
        BY DEF CallInv, SentIsRecorded
    <2>2. PICK r \in requests : r.order = c.order /\ r.wallet = c.wallet /\ r.nonce = c.nonce
        BY DEF CallInv, SentIsRecorded, VenueInv
    <2>3. q = r
        BY <1>2, <2>1, <2>2 DEF CallInv
    <2>4. SameIdentity(c, m)
        BY <1>2, <2>1, <2>2, <2>3 DEF SameIdentity
    <2> QED
        BY <2>4 DEF Deliver
<1> QED
    BY <1>1, <1>2 DEF VenueInv

\* What the venue knows of an order is from one message.
LEMMA VenueStep ==
    ASSUME TypeOK, CallInv, VenueInv, [Next]_vars
    PROVE  VenueInv'
<1> USE ConstantTypes DEF TypeOK, VenueInv, AtMostOnce, tenure, log, world
<1>1. ASSUME NEW i \in Instances, Grant(i)
      PROVE  VenueInv'
    BY <1>1 DEF Grant, Acquired, Account!Grant
<1>2. CASE elevate_to_risk_increasing
    BY <1>2 DEF elevate_to_risk_increasing, Account!Promote
<1>3. CASE demote_to_flatten_only
    BY <1>3 DEF demote_to_flatten_only, Account!Restrict
<1>4. CASE End
    BY <1>4 DEF End, Account!End, Forget, NoCall, NoEvidence
<1>5. ASSUME NEW o \in Orders, Observe(o)
      PROVE  VenueInv'
    BY <1>5 DEF Observe
<1>6. ASSUME NEW o \in Orders, Reconcile(o)
      PROVE  VenueInv'
    BY <1>6 DEF Reconcile, Deciding
<1>7. ASSUME NEW o \in Orders, Freeze(o)
      PROVE  VenueInv'
    BY <1>7 DEF Freeze
<1>8. ASSUME NEW o \in Orders, Persist(o)
      PROVE  VenueInv'
    BY <1>8 DEF Persist, Deciding
<1>9. ASSUME NEW o \in Orders, Resume(o)
      PROVE  VenueInv'
    BY <1>9 DEF Resume, Deciding
<1>10. ASSUME NEW o \in Orders, replacement_intent(o)
       PROVE  VenueInv'
    BY <1>10 DEF replacement_intent
<1>11. CASE allocate
    BY <1>11 DEF allocate, NoCall
<1>12. CASE record_request
    BY <1>12 DEF record_request, NoCall
<1>13. CASE transport
    BY <1>13 DEF transport
<1>14. CASE Answer
    BY <1>14 DEF Answer, NoCall
<1>15. ASSUME NEW m \in sent, Deliver(m)
       PROVE  VenueInv'
    <2>1. m.order \in Orders /\ venue[m.order] = "absent" /\ executions[m.order] = 0
        BY <1>15, DeliverIsFirst DEF Deliver
    <2>2. consumed' = consumed \cup {m} /\ sent' = sent
        BY <1>15 DEF Deliver
    <2>3. \A o \in Orders : o # m.order => venue'[o] = venue[o] /\ executions'[o] = executions[o]
        BY <1>15 DEF Deliver
    <2>4. executions'[m.order] \in {0, 1}
        BY <1>15, <2>1 DEF Deliver
    <2> QED
        BY <2>1, <2>2, <2>3, <2>4
<1>16. ASSUME NEW o \in Orders, Close(o)
       PROVE  VenueInv'
    BY <1>16 DEF Close
<1>17. CASE Tick
    BY <1>17 DEF Tick
<1>18. CASE UNCHANGED vars
    BY <1>18 DEF vars
<1> QED
    BY <1>1, <1>2, <1>3, <1>4, <1>5, <1>6, <1>7, <1>8, <1>9, <1>10, <1>11, <1>12,
       <1>13, <1>14, <1>15, <1>16, <1>17, <1>18 DEF Next, Tenure, submit_order

\* The end of an order is final.
LEMMA ReplacementStep ==
    ASSUME TypeOK, CallInv, VenueInv, ReplacementInv, [Next]_vars
    PROVE  ReplacementInv'
<1> USE ConstantTypes DEF TypeOK, ReplacementInv, REPLACEABLE_STATUSES, tenure, log, world
<1>1. ASSUME NEW i \in Instances, Grant(i)
      PROVE  ReplacementInv'
    BY <1>1 DEF Grant, Acquired, Account!Grant
<1>2. CASE elevate_to_risk_increasing
    BY <1>2 DEF elevate_to_risk_increasing, Account!Promote
<1>3. CASE demote_to_flatten_only
    BY <1>3 DEF demote_to_flatten_only, Account!Restrict
<1>4. CASE End
    BY <1>4 DEF End, Account!End, Forget, NoCall, NoEvidence
<1>5. ASSUME NEW o \in Orders, Observe(o)
      PROVE  ReplacementInv'
    <2>1. evidence'.order = o /\ evidence'.status \in {venue[o], "unknown"}
        BY <1>5 DEF Observe
    <2> QED
        BY <1>5, <2>1 DEF Observe
<1>6. ASSUME NEW o \in Orders, Reconcile(o)
      PROVE  ReplacementInv'
    BY <1>6 DEF Reconcile, Deciding
<1>7. ASSUME NEW o \in Orders, Freeze(o)
      PROVE  ReplacementInv'
    BY <1>7 DEF Freeze
<1>8. ASSUME NEW o \in Orders, Persist(o)
      PROVE  ReplacementInv'
    BY <1>8 DEF Persist, Deciding
<1>9. ASSUME NEW o \in Orders, Resume(o)
      PROVE  ReplacementInv'
    BY <1>9 DEF Resume, Deciding
<1>10. ASSUME NEW o \in Orders, replacement_intent(o)
       PROVE  ReplacementInv'
    BY <1>10 DEF replacement_intent
<1>11. CASE allocate
    BY <1>11 DEF allocate, NoCall
<1>12. CASE record_request
    BY <1>12 DEF record_request, NoCall
<1>13. CASE transport
    <2>1. evidence'.order = evidence.order /\ evidence'.status = evidence.status
        BY <1>13 DEF transport
    <2> QED
        BY <1>13, <2>1 DEF transport
<1>14. CASE Answer
    BY <1>14 DEF Answer, NoCall
<1>15. ASSUME NEW m \in sent, Deliver(m)
       PROVE  ReplacementInv'
    <2>1. m.order \in Orders /\ venue[m.order] = "absent"
        BY <1>15, DeliverIsFirst DEF Deliver
    <2>2. \A o \in Orders : o # m.order => venue'[o] = venue[o]
        BY <1>15 DEF Deliver
    <2>3. UNCHANGED <<evidence, intended>>
        BY <1>15 DEF Deliver
    <2> QED
        BY <2>1, <2>2, <2>3
<1>16. ASSUME NEW o \in Orders, Close(o)
       PROVE  ReplacementInv'
    <2>1. venue[o] = "open" /\ UNCHANGED <<evidence, intended>>
        BY <1>16 DEF Close
    <2>2. \A p \in Orders : p # o => venue'[p] = venue[p]
        BY <1>16 DEF Close
    <2> QED
        BY <2>1, <2>2
<1>17. CASE Tick
    BY <1>17 DEF Tick
<1>18. CASE UNCHANGED vars
    BY <1>18 DEF vars
<1> QED
    BY <1>1, <1>2, <1>3, <1>4, <1>5, <1>6, <1>7, <1>8, <1>9, <1>10, <1>11, <1>12,
       <1>13, <1>14, <1>15, <1>16, <1>17, <1>18 DEF Next, Tenure, submit_order

\* submit_order sends a recorded request only on evidence from after it.
LEMMA ResumeIsLater ==
    ASSUME TypeOK, CallInv, NEW o \in Orders, Deciding(o, "submit"),
           NEW r \in requests, r.order = o
    PROVE  evidence.ns > r.recorded_ns
<1>1. Request(o) = {r}
    BY DEF Request, CallInv
<1>2. evidence.status \in {"absent"}
    BY DEF Deciding, decide_submission, ambiguous, TypeOK, Statuses, VenueStatuses
<1>3. _authoritative_after(o, {r})
    BY <1>1, <1>2 DEF Deciding, decide_submission, ambiguous
<1>4. r.recorded_ns \in Nat
    BY ConstantTypes DEF TypeOK, Requests, Times
<1>5. {q.recorded_ns : q \in {r}} = {r.recorded_ns}
    OBVIOUS
<1> QED
    BY <1>3, <1>4, <1>5, MaxOfOne DEF _authoritative_after

\* A request is recorded on evidence that is not later.
LEMMA RetryStep ==
    ASSUME TypeOK, CallInv, RetryInv, [Next]_vars
    PROVE  RetryInv'
<1> USE ConstantTypes DEF TypeOK, RetryInv, Times, Stages, tenure, log, world
<1>1. ASSUME NEW i \in Instances, Grant(i)
      PROVE  RetryInv'
    BY <1>1 DEF Grant, Acquired, Account!Grant
<1>2. CASE elevate_to_risk_increasing
    BY <1>2 DEF elevate_to_risk_increasing, Account!Promote
<1>3. CASE demote_to_flatten_only
    BY <1>3 DEF demote_to_flatten_only, Account!Restrict
<1>4. CASE End
    BY <1>4 DEF End, Account!End, Forget, NoCall, NoEvidence, NoTime
<1>5. ASSUME NEW o \in Orders, Observe(o)
      PROVE  RetryInv'
    BY <1>5 DEF Observe, NoTime
<1>6. ASSUME NEW o \in Orders, Reconcile(o)
      PROVE  RetryInv'
    BY <1>6 DEF Reconcile, Deciding
<1>7. ASSUME NEW o \in Orders, Freeze(o)
      PROVE  RetryInv'
    BY <1>7 DEF Freeze
<1>8. ASSUME NEW o \in Orders, Persist(o)
      PROVE  RetryInv'
    <2>1. \A r \in requests : r.order # o
        BY <1>8 DEF Persist, Deciding, decide_submission, Request
    <2> QED
        BY <1>8, <2>1 DEF Persist, Deciding
<1>9. ASSUME NEW o \in Orders, Resume(o)
      PROVE  RetryInv'
    <2>1. PICK r \in requests : r.order = o
        BY <1>9 DEF Resume, Deciding, Request
    <2>2. evidence.outdated # "recorded"
        BY <1>9, <2>1, ResumeIsLater DEF Resume, Deciding, CallInv, Requests
    <2>3. stage' = "resuming" /\ call'.order = o /\ evidence.order = o
        BY <1>9 DEF Resume, Deciding
    <2>4. UNCHANGED <<evidence, clock, requests>>
        BY <1>9 DEF Resume, Deciding
    <2> QED
        BY <2>2, <2>3, <2>4
<1>10. ASSUME NEW o \in Orders, replacement_intent(o)
       PROVE  RetryInv'
    BY <1>10 DEF replacement_intent
<1>11. CASE allocate
    <2>1. (call'.order = call.order /\ call'.decided_ns = call.decided_ns) \/ stage' = "idle"
        BY <1>11 DEF allocate, NoCall
    <2>2. stage = "authorized" /\ stage' \in {"allocated", "idle"}
        BY <1>11 DEF allocate, NoCall
    <2>3. UNCHANGED <<evidence, clock, requests>>
        BY <1>11 DEF allocate, NoCall
    <2> QED
        BY <2>1, <2>2, <2>3
<1>12. CASE record_request
    <2>1. PICK built : Recording(built)
        BY <1>12, RecordStep DEF record_request, NoCall
    <2>2. stage = "allocated" /\ stage' \in {"recorded", "idle"} /\ UNCHANGED <<evidence, clock>>
        BY <1>12 DEF record_request, NoCall
    <2>3. evidence.ns \leq call.decided_ns /\ evidence.order = call.order
        BY <1>12, <2>2 DEF record_request, NoCall
    <2>4. requests \subseteq requests' /\ (stage' = "recorded" => built \in requests' /\ call' = call)
        BY <2>1 DEF Recording
    <2>5. built.order = call.order /\ built.recorded_ns = call.decided_ns
        BY <2>1 DEF Recording
    <2> QED
        BY <2>2, <2>3, <2>4, <2>5
<1>13. CASE transport
    <2>1. /\ evidence'.order = evidence.order /\ evidence'.ns = evidence.ns
            /\ evidence'.outdated = stage
        BY <1>13 DEF transport
    <2>2. stage \in {"recorded", "resuming"} /\ stage' = "sent" /\ UNCHANGED <<requests, clock>>
        BY <1>13 DEF transport
    <2> QED
        BY <2>1, <2>2
<1>14. CASE Answer
    BY <1>14 DEF Answer, NoCall
<1>15. ASSUME NEW m \in sent, Deliver(m)
       PROVE  RetryInv'
    BY <1>15 DEF Deliver
<1>16. ASSUME NEW o \in Orders, Close(o)
       PROVE  RetryInv'
    BY <1>16 DEF Close
<1>17. CASE Tick
    BY <1>17 DEF Tick
<1>18. CASE UNCHANGED vars
    BY <1>18 DEF vars
<1> QED
    BY <1>1, <1>2, <1>3, <1>4, <1>5, <1>6, <1>7, <1>8, <1>9, <1>10, <1>11, <1>12,
       <1>13, <1>14, <1>15, <1>16, <1>17, <1>18 DEF Next, Tenure, submit_order

\* allocate takes the one nonce that the wallet has not had.
LEMMA AllocateNonce ==
    ASSUME TypeOK, CallInv, NonceInv, allocate
    PROVE  NonceInv'
<1> DEFINE row == [wallet |-> wallet_fingerprint[holder], nonce |-> last + 1,
                   instance |-> holder]
<1>1. stage = "authorized" /\ holder # NoOne /\ holder' = holder /\ requests' = requests
    BY DEF allocate, CallInv
<1>2. \/ allocations' = allocations /\ last' = last /\ stage' = "idle"
      \/ allocations' = allocations \cup {row} /\ last' = last /\ stage' = "idle"
      \/ /\ allocations' = allocations \cup {row} /\ last' = last + 1
         /\ stage' = "allocated" /\ call'.nonce = last + 1
    BY DEF allocate, TypeOK
<1>3. last \in Nat /\ last' \in {last, last + 1}
    BY <1>2, ConstantTypes DEF TypeOK, Nonces
<1>4. row.wallet = wallet_fingerprint[holder] /\ row.nonce = last + 1 /\ row.instance = holder
    OBVIOUS
<1>5. \A a \in allocations : /\ a.nonce \in Nat
                             /\ a = [wallet |-> a.wallet, nonce |-> a.nonce, instance |-> a.instance]
    BY ConstantTypes DEF TypeOK, Nonces
<1>6. \A a \in allocations :
          a.wallet = row.wallet /\ a.nonce = row.nonce => a = row
    BY <1>1, <1>3, <1>4, <1>5 DEF NonceInv
<1> HIDE DEF row
<1>7. \A a, b \in allocations' : a.wallet = b.wallet /\ a.nonce = b.nonce => a = b
    BY <1>2, <1>6 DEF NonceInv
<1>8. \A a \in allocations' : a.wallet = wallet_fingerprint[holder] =>
          a.nonce \leq last' \/ (a.nonce = last' + 1 /\ a.instance = holder)
    BY <1>1, <1>2, <1>3, <1>4, <1>5 DEF NonceInv
<1>9. \A r \in requests : leg[r.order] = "hyperliquid" =>
          /\ [wallet |-> r.wallet, nonce |-> r.nonce, instance |-> r.instance] \in allocations'
          /\ r.wallet = wallet_fingerprint[holder] => r.nonce \leq last
    BY <1>1, <1>2 DEF NonceInv
<1>10. \A r \in requests : r.nonce \in Nat
    BY ConstantTypes DEF TypeOK, Requests, Nonces
<1>11. \A r \in requests :
          leg[r.order] = "hyperliquid" /\ r.wallet = wallet_fingerprint[holder]
              => r.nonce \leq last' /\ r.nonce < last + 1
    <2>1. \A r \in requests :
              leg[r.order] = "hyperliquid" /\ r.wallet = wallet_fingerprint[holder]
                  => r.nonce \leq last
        BY <1>9
    <2> QED
        BY <1>3, <1>10, <2>1
<1>12. stage' # "idle" =>
          [wallet |-> wallet_fingerprint[holder], nonce |-> last', instance |-> holder]
              \in allocations'
    BY <1>2 DEF row
<1>13. \A q, r \in requests : ~ nonce_reuse(q, r)
    BY DEF NonceInv
<1>14. (\A q, r \in requests : ~ nonce_reuse(q, r))'
    BY <1>1, <1>13 DEF nonce_reuse
<1> QED
    BY <1>1, <1>2, <1>7, <1>8, <1>9, <1>11, <1>12, <1>14 DEF NonceInv

\* A request is recorded with a nonce that no request of the wallet has.
LEMMA RecordNonce ==
    ASSUME TypeOK, CallInv, NonceInv, record_request
    PROVE  NonceInv'
<1>1. PICK built : Recording(built)
    BY RecordStep
<1>2. /\ stage = "allocated" /\ stage' \in {"recorded", "idle"} /\ holder # NoOne
      /\ UNCHANGED <<holder, last, allocations>>
    BY DEF record_request, CallInv, tenure
<1>3. /\ built.order = call.order /\ built.nonce = call.nonce /\ built.instance = holder
      /\ built.wallet = wallet_fingerprint[holder]
      /\ requests' \subseteq requests \cup {built}
    BY <1>1 DEF Recording
<1>4. last \in Nat /\ \A r \in requests : r.nonce \in Nat
    BY ConstantTypes DEF TypeOK, Requests, Nonces
<1>5. leg[built.order] = "hyperliquid" =>
          /\ built.nonce = last
          /\ [wallet |-> built.wallet, nonce |-> built.nonce, instance |-> built.instance]
                 \in allocations
          /\ \A r \in requests : leg[r.order] = "hyperliquid" /\ r.wallet = built.wallet
                 => r.nonce < last
    BY <1>2, <1>3 DEF NonceInv
<1>6. \A q, r \in requests' : ~ nonce_reuse(q, r)
    <2>1. \A r \in requests : leg[r.order] = "hyperliquid" /\ leg[built.order] = "hyperliquid"
              /\ r.wallet = built.wallet => r.nonce # built.nonce
        BY <1>4, <1>5
    <2>2. \A r \in requests : ~ nonce_reuse(built, r) /\ ~ nonce_reuse(r, built)
        BY <2>1 DEF nonce_reuse
    <2>3. ~ nonce_reuse(built, built)
        BY DEF nonce_reuse
    <2> QED
        BY <1>3, <2>2, <2>3 DEF NonceInv
<1>7. (\A q, r \in requests : ~ nonce_reuse(q, r))'
    BY <1>6 DEF nonce_reuse
<1>8. \A r \in requests' : leg[r.order] = "hyperliquid" =>
          /\ [wallet |-> r.wallet, nonce |-> r.nonce, instance |-> r.instance] \in allocations
          /\ r.wallet = wallet_fingerprint[holder] => r.nonce \leq last
    BY <1>2, <1>3, <1>4, <1>5 DEF NonceInv
<1> QED
    BY <1>2, <1>7, <1>8 DEF NonceInv

\* A request of Hyperliquid has the nonce of an allocation.
LEMMA RequestHasRow ==
    ASSUME NonceInv, NEW r \in requests, leg[r.order] = "hyperliquid"
    PROVE  \E a \in allocations :
               a.wallet = r.wallet /\ a.nonce = r.nonce /\ a.instance = r.instance
<1> DEFINE row == [wallet |-> r.wallet, nonce |-> r.nonce, instance |-> r.instance]
<1>1. row \in allocations
    BY DEF NonceInv
<1> QED
    BY <1>1

\* The nonces of a wallet stay unique, and ahead of its requests.
LEMMA NonceStep ==
    ASSUME TypeOK, CallInv, NonceInv, [Next]_vars
    PROVE  NonceInv'
<1> USE ConstantTypes DEF TypeOK, NonceInv, Nonces, tenure, log, world
<1>1. ASSUME NEW i \in Instances, Grant(i)
      PROVE  NonceInv'
    <2>1. \A a \in allocations : a.wallet = wallet_fingerprint[i] => a.nonce \leq last'
        BY <1>1 DEF Grant, Acquired, Account!Grant
    <2>2. \A r \in requests : leg[r.order] = "hyperliquid" =>
            \E a \in allocations : a.wallet = r.wallet /\ a.nonce = r.nonce
        BY RequestHasRow
    <2>3. \A r \in requests : leg[r.order] = "hyperliquid" /\ r.wallet = wallet_fingerprint[i]
              => r.nonce \leq last'
        BY <2>1, <2>2
    <2>4. holder' = i /\ UNCHANGED <<allocations, requests, stage, call>>
        BY <1>1 DEF Grant, Acquired, Account!Grant
    <2>5. holder = NoOne /\ stage = "idle"
        BY <1>1 DEF Grant, Acquired, Account!Grant, CallInv
    <2>6. \A q, r \in requests : ~ nonce_reuse(q, r)
        OBVIOUS
    <2> QED
        BY <2>1, <2>3, <2>4, <2>5, <2>6 DEF nonce_reuse
<1>2. CASE elevate_to_risk_increasing
    BY <1>2 DEF elevate_to_risk_increasing, Account!Promote, nonce_reuse
<1>3. CASE demote_to_flatten_only
    BY <1>3 DEF demote_to_flatten_only, Account!Restrict, nonce_reuse
<1>4. CASE End
    BY <1>4 DEF End, Account!End, Forget, NoCall, NoEvidence, nonce_reuse
<1>5. ASSUME NEW o \in Orders, Observe(o)
      PROVE  NonceInv'
    BY <1>5 DEF Observe, nonce_reuse
<1>6. ASSUME NEW o \in Orders, Reconcile(o)
      PROVE  NonceInv'
    BY <1>6 DEF Reconcile, Deciding, nonce_reuse
<1>7. ASSUME NEW o \in Orders, Freeze(o)
      PROVE  NonceInv'
    BY <1>7 DEF Freeze, nonce_reuse
<1>8. ASSUME NEW o \in Orders, Persist(o)
      PROVE  NonceInv'
    BY <1>8 DEF Persist, Deciding, nonce_reuse
<1>9. ASSUME NEW o \in Orders, Resume(o)
      PROVE  NonceInv'
    BY <1>9 DEF Resume, Deciding, nonce_reuse
<1>10. ASSUME NEW o \in Orders, replacement_intent(o)
       PROVE  NonceInv'
    BY <1>10 DEF replacement_intent, nonce_reuse
<1>11. CASE allocate
    BY <1>11, AllocateNonce
<1>12. CASE record_request
    BY <1>12, RecordNonce
<1>13. CASE transport
    BY <1>13 DEF transport, nonce_reuse
<1>14. CASE Answer
    BY <1>14 DEF Answer, NoCall, nonce_reuse
<1>15. ASSUME NEW m \in sent, Deliver(m)
       PROVE  NonceInv'
    BY <1>15 DEF Deliver, nonce_reuse
<1>16. ASSUME NEW o \in Orders, Close(o)
       PROVE  NonceInv'
    BY <1>16 DEF Close, nonce_reuse
<1>17. CASE Tick
    BY <1>17 DEF Tick, nonce_reuse
<1>18. CASE UNCHANGED vars
    BY <1>18 DEF vars, nonce_reuse
<1> QED
    BY <1>1, <1>2, <1>3, <1>4, <1>5, <1>6, <1>7, <1>8, <1>9, <1>10, <1>11, <1>12,
       <1>13, <1>14, <1>15, <1>16, <1>17, <1>18 DEF Next, Tenure, submit_order

\* A request's epoch, process and wallet are those of an acquisition on record.
LEMMA LeaseStep ==
    ASSUME TypeOK, CallInv, LeaseInv, [Next]_vars
    PROVE  LeaseInv'
<1> USE ConstantTypes DEF TypeOK, LeaseInv, tenure, log, world
<1>1. ASSUME NEW i \in Instances, Grant(i)
      PROVE  LeaseInv'
    <2> DEFINE row == [tenure |-> granted', epoch |-> epoch', instance |-> i,
                       wallet |-> wallet_fingerprint[i]]
    <2>1. leases' = leases \cup {row} /\ holder' = i /\ requests' = requests
        BY <1>1 DEF Grant, Acquired, Account!Grant
    <2>2. /\ row \in leases' /\ row.epoch = epoch' /\ row.instance = holder'
          /\ row.wallet = wallet_fingerprint[holder']
        BY <2>1
    <2> QED
        BY <2>1, <2>2
<1>2. CASE elevate_to_risk_increasing
    BY <1>2 DEF elevate_to_risk_increasing, Account!Promote
<1>3. CASE demote_to_flatten_only
    BY <1>3 DEF demote_to_flatten_only, Account!Restrict
<1>4. CASE End
    BY <1>4 DEF End, Account!End, Forget, NoCall, NoEvidence
<1>5. ASSUME NEW o \in Orders, Observe(o)
      PROVE  LeaseInv'
    BY <1>5 DEF Observe
<1>6. ASSUME NEW o \in Orders, Reconcile(o)
      PROVE  LeaseInv'
    BY <1>6 DEF Reconcile, Deciding
<1>7. ASSUME NEW o \in Orders, Freeze(o)
      PROVE  LeaseInv'
    BY <1>7 DEF Freeze
<1>8. ASSUME NEW o \in Orders, Persist(o)
      PROVE  LeaseInv'
    BY <1>8 DEF Persist, Deciding
<1>9. ASSUME NEW o \in Orders, Resume(o)
      PROVE  LeaseInv'
    BY <1>9 DEF Resume, Deciding
<1>10. ASSUME NEW o \in Orders, replacement_intent(o)
       PROVE  LeaseInv'
    BY <1>10 DEF replacement_intent
<1>11. CASE allocate
    BY <1>11 DEF allocate, NoCall
<1>12. CASE record_request
    <2>1. PICK built : Recording(built)
        BY <1>12, RecordStep DEF record_request, NoCall
    <2>2. holder # NoOne /\ UNCHANGED <<holder, epoch, leases>>
        BY <1>12 DEF record_request, NoCall, CallInv
    <2>3. \E l \in leases : /\ l.epoch = built.epoch /\ l.instance = built.instance
                            /\ l.wallet = built.wallet
        BY <2>1, <2>2 DEF Recording
    <2>4. requests' \subseteq requests \cup {built}
        BY <2>1 DEF Recording
    <2> QED
        BY <2>2, <2>3, <2>4
<1>13. CASE transport
    BY <1>13 DEF transport
<1>14. CASE Answer
    BY <1>14 DEF Answer, NoCall
<1>15. ASSUME NEW m \in sent, Deliver(m)
       PROVE  LeaseInv'
    BY <1>15 DEF Deliver
<1>16. ASSUME NEW o \in Orders, Close(o)
       PROVE  LeaseInv'
    BY <1>16 DEF Close
<1>17. CASE Tick
    BY <1>17 DEF Tick
<1>18. CASE UNCHANGED vars
    BY <1>18 DEF vars
<1> QED
    BY <1>1, <1>2, <1>3, <1>4, <1>5, <1>6, <1>7, <1>8, <1>9, <1>10, <1>11, <1>12,
       <1>13, <1>14, <1>15, <1>16, <1>17, <1>18 DEF Next, Tenure, submit_order

\* IInv is inductive.
LEMMA Initially == Init => IInv
<1> SUFFICES ASSUME Init
             PROVE  IInv
    OBVIOUS
<1> USE ConstantTypes DEF Init, Account!Init, NoCall, NoEvidence, signal_ns, NoTime
<1>1. TypeOK
    BY DEF TypeOK, Nonces, Times, Stages, Statuses, VenueStatuses, HOLD_STATUSES
<1>2. CallInv /\ VenueInv
    BY DEF CallInv, SentIsRecorded, VenueInv, AtMostOnce
<1>3. ReplacementInv /\ RetryInv
    BY DEF ReplacementInv, RetryInv
<1>4. NonceInv /\ LeaseInv
    BY DEF NonceInv, LeaseInv, nonce_reuse
<1> QED
    BY <1>1, <1>2, <1>3, <1>4 DEF IInv

LEMMA Inductive == IInv /\ [Next]_vars => IInv'
BY TypeStep, CallStep, VenueStep, ReplacementStep, RetryStep, NonceStep, LeaseStep DEF IInv

\* The state of the order path, whatever fails, restarts or arrives late.
THEOREM Invariant == Spec => []IInv
BY Initially, Inductive, PTL DEF Spec

\* Every variable keeps its type: no nonce and no attempt beyond its limit
\* (NonceAllocator.allocate, decide_submission).
THEOREM TypeCorrect == Spec => []TypeOK
<1>1. IInv => TypeOK
    BY DEF IInv
<1> QED
    BY <1>1, Invariant, PTL

\* No order is executed twice (submit_order), whatever answers are lost, messages
\* are late, and processes die between two of its records.
THEOREM AtMostOnceHolds == Spec => []AtMostOnce
<1>1. IInv => AtMostOnce
    BY DEF IInv, VenueInv
<1> QED
    BY <1>1, Invariant, PTL

\* A replacement (replacement_intent) reaches the venue only when the order it
\* replaces has ended for good.
THEOREM OneLiveOrderHolds == Spec => []OneLiveOrder
<1>1. ASSUME IInv
      PROVE  OneLiveOrder
    <2>1. ASSUME NEW o \in Orders, replaces[o] # NoOrder, venue[o] # "absent"
          PROVE  venue[replaces[o]] \in {"cancelled", "rejected"}
        <3>1. PICK m \in sent : m.order = o
            BY <1>1, <2>1 DEF IInv, VenueInv
        <3>2. o \in intended
            BY <1>1, <3>1 DEF IInv, CallInv, SentIsRecorded
        <3> QED
            BY <1>1, <2>1, <3>2 DEF IInv, ReplacementInv, REPLACEABLE_STATUSES
    <2> QED
        BY <2>1 DEF OneLiveOrder
<1> QED
    BY <1>1, Invariant, PTL

\* The first retry of a recorded request rests on evidence from after its first
\* message (decide_submission), in this process or the next.
THEOREM FirstRetryIsReconciledHolds == Spec => []FirstRetryIsReconciled
<1>1. IInv => FirstRetryIsReconciled
    BY DEF IInv, TypeOK, RetryInv, FirstRetryIsReconciled, Stages
<1> QED
    BY <1>1, Invariant, PTL

\* Whatever message was handed to the network has its request in the durable log
\* (submit_order records before it sends).
THEOREM SentIsRecordedHolds == Spec => []SentIsRecorded
<1>1. IInv => SentIsRecorded
    BY DEF IInv, CallInv
<1> QED
    BY <1>1, Invariant, PTL

\* replay_event_window finds no conflict of nonces in the log of processes that
\* only die, fail to record, and take over from each other, and no conflict of a
\* request with its lease but where two acquisitions have one epoch.
THEOREM OnlyEpochsConflictHolds == Spec => []OnlyEpochsConflict
<1>1. ASSUME IInv
      PROVE  OnlyEpochsConflict
    <2>1. ASSUME NEW r \in requests, leg[r.order] = "hyperliquid"
          PROVE  ~ nonce_allocation_missing(r) /\ ~ nonce_allocation_binding_mismatch(r)
        <3>1. PICK a \in allocations :
                  a.wallet = r.wallet /\ a.nonce = r.nonce /\ a.instance = r.instance
            BY <1>1, <2>1, RequestHasRow DEF IInv
        <3>2. \A b \in allocations : b.wallet = r.wallet /\ b.nonce = r.nonce => b = a
            BY <1>1, <3>1 DEF IInv, NonceInv
        <3>3. r.nonce \in {b.nonce : b \in {c \in allocations : c.wallet = r.wallet}}
            BY <3>1
        <3> QED
            BY <3>1, <3>2, <3>3 DEF nonce_allocation_missing, nonce_allocation_binding_mismatch
    <2>2. ASSUME NEW r \in requests, _lease_request_conflicts(r)
          PROVE  \E l, k \in leases : l.epoch = r.epoch /\ _semantic_conflict(l, k)
        <3>1. PICK own \in leases :
                  own.epoch = r.epoch /\ own.instance = r.instance /\ own.wallet = r.wallet
            BY <1>1 DEF IInv, LeaseInv
        <3>2. PICK earliest \in leases :
                  /\ earliest.epoch = r.epoch
                  /\ earliest.instance # r.instance \/ earliest.wallet # r.wallet
            BY <2>2 DEF _lease_request_conflicts
        <3>3. _semantic_conflict(own, earliest)
            BY <3>1, <3>2 DEF _semantic_conflict
        <3> QED
            BY <3>1, <3>3
    <2>3. \A q, r \in requests : ~ nonce_reuse(q, r)
        BY <1>1 DEF IInv, NonceInv
    <2> QED
        BY <2>1, <2>2, <2>3 DEF OnlyEpochsConflict, _nonce_request_conflict
<1> QED
    BY <1>1, Invariant, PTL
=============================================================================
