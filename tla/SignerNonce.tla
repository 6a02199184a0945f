----------------------------- MODULE SignerNonce -----------------------------
(***************************************************************************)
(* The nonces of one Hyperliquid signer (execution/nonce.py): a lock file  *)
(* per wallet (SignerFence), an allocator in the memory of the process     *)
(* that holds it (NonceAllocator), and the durable log of its decisions,   *)
(* which the next process replays.                                         *)
(*                                                                         *)
(* allocate decides in one step and records in another: the process may    *)
(* die, the lock file may be replaced and the clock may be set back in     *)
(* between.  The allocator is built from the log after the fence was       *)
(* acquired; its caller is not part of the repository.                     *)
(***************************************************************************)
EXTENDS Naturals, Sequences

CONSTANTS Instances,   \* processes that use the signer
          NoOne,       \* no process
          DAY,         \* DAY_MS
          MaxFiles,    \* bound: lock files ever created
          MaxNow,      \* bound: the clock
          MaxFaults    \* bound: failed records and removed lock files

ASSUME NoOneAssumption == NoOne \notin Instances
ASSUME DayAssumption == DAY \in Nat \ {0, 1}
ASSUME BoundAssumption == {MaxFiles, MaxFaults} \subseteq Nat /\ MaxNow \in Nat \ {0}

VARIABLES
    named,     \* the lock file the signer's path names, 0 when it is missing
    created,   \* the lock files created so far are 1 .. created
    flocked,   \* the process whose descriptor has the flock of each, or NoOne
    fd,        \* SignerFence._fd of each process, 0 for None
    stage,     \* where each process is
    last,      \* NonceAllocator._last
    frozen,    \* NonceAllocator._frozen_reason, "none" for None
    row,       \* the decision each process is recording
    log,       \* the durable signer_nonce_allocation rows
    issued,    \* history: the nonces allocate returned, in order
    now,       \* the clock, in milliseconds
    faults     \* the faults so far

fence == <<named, created, flocked, fd>>
allocator == <<last, frozen, row>>
vars == <<named, created, flocked, fd, stage, last, frozen, row, log, issued, now, faults>>

Files == 1 .. MaxFiles
Stages == {"idle", "opened", "fenced", "ready", "recording"}
FROZEN_REASONS == {"clock_backward", "fence_invalidated"}
Nonces == 0 .. MaxNow + DAY

\* Of a frozen row allocated_nonce is null, here 0.
NoRow == [outcome |-> "none", reason |-> "none", allocated |-> 0, previous |-> 0]
Rows == [outcome : {"allocated", "frozen"},
         reason : FROZEN_REASONS \cup {"nonce_allocated"},
         allocated : Nonces, previous : Nonces]

TypeOK ==
    /\ named \in 0 .. MaxFiles
    /\ created \in 0 .. MaxFiles
    /\ flocked \in [Files -> Instances \cup {NoOne}]
    /\ fd \in [Instances -> 0 .. MaxFiles]
    /\ stage \in [Instances -> Stages]
    /\ last \in [Instances -> Nonces]
    /\ frozen \in [Instances -> FROZEN_REASONS \cup {"none"}]
    /\ row \in [Instances -> Rows \cup {NoRow}]
    /\ log \in Seq(Rows)
    /\ issued \in Seq(Nonces)
    /\ now \in 1 .. MaxNow
    /\ faults \in 0 .. MaxFaults

Init ==
    /\ named = 0
    /\ created = 0
    /\ flocked = [n \in Files |-> NoOne]
    /\ fd = [i \in Instances |-> 0]
    /\ stage = [i \in Instances |-> "idle"]
    /\ last = [i \in Instances |-> 0]
    /\ frozen = [i \in Instances |-> "none"]
    /\ row = [i \in Instances |-> NoRow]
    /\ log = <<>>
    /\ issued = <<>>
    /\ now = 1
    /\ faults = 0

-----------------------------------------------------------------------------
Allocated(r) == r.outcome = "allocated"

replay_last_allocated_nonce(n) ==
    \/ n = 0 /\ \A k \in DOMAIN log : ~ Allocated(log[k])
    \/ /\ \E k \in DOMAIN log : Allocated(log[k]) /\ log[k].allocated = n
       /\ \A k \in DOMAIN log : Allocated(log[k]) => log[k].allocated \leq n

FreezeRows == {k \in DOMAIN log : log[k].outcome = "frozen"}

\* Mutant: a freeze on record is not read back.
replay_freeze_reason_Unread(reason) == reason = "none"

\* The one freeze on record; several are refused with ValueError.
replay_freeze_reason(reason) ==
    \/ FreezeRows = {} /\ reason = "none"
    \/ \E k \in FreezeRows : FreezeRows = {k} /\ reason = log[k].reason

allocation_after_freeze == \E k \in FreezeRows, l \in DOMAIN log : k < l /\ Allocated(log[l])

\* An allocation that does not continue from the allocation before it.
chain_break ==
    \E k, l \in DOMAIN log :
        /\ k < l
        /\ Allocated(log[k]) /\ Allocated(log[l])
        /\ \A m \in k + 1 .. l - 1 : ~ Allocated(log[m])
        /\ log[l].previous # log[k].allocated

\* Mutant: breaks of the chain are not looked for.
replay_signer_nonce_conflict_Unchained == allocation_after_freeze

replay_signer_nonce_conflict == allocation_after_freeze \/ chain_break

-----------------------------------------------------------------------------
Unlocked(i) == [n \in Files |-> IF flocked[n] = i THEN NoOne ELSE flocked[n]]

_same_inode(i) == fd[i] # 0 /\ fd[i] = named

\* SignerFence.acquire: os.open with O_CREAT.
Open(i) ==
    /\ stage[i] = "idle"
    /\ \/ /\ named # 0
          /\ fd' = [fd EXCEPT ![i] = named]
          /\ UNCHANGED <<named, created>>
       \/ /\ named = 0 /\ created < MaxFiles
          /\ created' = created + 1
          /\ named' = created + 1
          /\ fd' = [fd EXCEPT ![i] = created + 1]
    /\ stage' = [stage EXCEPT ![i] = "opened"]
    /\ UNCHANGED <<flocked, allocator, log, issued, now>>

\* SignerFence.acquire: flock, ftruncate, revalidate.
Fence(i) ==
    /\ stage[i] = "opened"
    /\ flocked[fd[i]] = NoOne
    /\ _same_inode(i)
    /\ flocked' = [flocked EXCEPT ![fd[i]] = i]
    /\ stage' = [stage EXCEPT ![i] = "fenced"]
    /\ UNCHANGED <<named, created, fd, allocator, log, issued, now>>

\* SignerFence.acquire: contended, or the lock file is not the named one.
FenceRefused(i) ==
    /\ stage[i] = "opened"
    /\ flocked[fd[i]] # NoOne \/ ~ _same_inode(i)
    /\ fd' = [fd EXCEPT ![i] = 0]
    /\ stage' = [stage EXCEPT ![i] = "idle"]
    /\ UNCHANGED <<named, created, flocked, allocator, log, issued, now>>

\* NonceAllocator.__init__ with the replayed maximum and freeze.
NonceAllocator(i) ==
    /\ stage[i] = "fenced"
    /\ \E n \in Nonces, reason \in FROZEN_REASONS \cup {"none"} :
          /\ replay_last_allocated_nonce(n)
          /\ replay_freeze_reason(reason)
          /\ last' = [last EXCEPT ![i] = n]
          /\ frozen' = [frozen EXCEPT ![i] = reason]
    /\ stage' = [stage EXCEPT ![i] = "ready"]
    /\ UNCHANGED <<fence, row, log, issued, now>>

\* Mutant: the last nonce does not count.
Candidate_Clock(i) == now + 1

Candidate(i) == (IF last[i] < now THEN now ELSE last[i]) + 1

\* Mutant: no window.
Allocate_Unbounded(i) ==
    /\ stage[i] = "ready"
    /\ frozen[i] = "none"
    /\ _same_inode(i)
    /\ row' = [row EXCEPT ![i] = [outcome |-> "allocated", reason |-> "nonce_allocated",
                                  allocated |-> Candidate(i), previous |-> last[i]]]
    /\ stage' = [stage EXCEPT ![i] = "recording"]
    /\ UNCHANGED <<fence, last, frozen, log, issued, now>>

\* allocate: the fence holds and the candidate is in the window.
Allocate(i) ==
    /\ stage[i] = "ready"
    /\ frozen[i] = "none"
    /\ _same_inode(i)
    /\ Candidate(i) < now + DAY
    /\ row' = [row EXCEPT ![i] = [outcome |-> "allocated", reason |-> "nonce_allocated",
                                  allocated |-> Candidate(i), previous |-> last[i]]]
    /\ stage' = [stage EXCEPT ![i] = "recording"]
    /\ UNCHANGED <<fence, last, frozen, log, issued, now>>

\* _freeze: memory first, then the record.
_freeze(i, reason) ==
    /\ frozen' = [frozen EXCEPT ![i] = reason]
    /\ row' = [row EXCEPT ![i] = [outcome |-> "frozen", reason |-> reason,
                                  allocated |-> 0, previous |-> last[i]]]
    /\ stage' = [stage EXCEPT ![i] = "recording"]
    /\ UNCHANGED <<named, created, last, log, issued, now>>

\* allocate: revalidate closes the descriptor of a replaced lock file.
FenceInvalidated(i) ==
    /\ stage[i] = "ready"
    /\ frozen[i] = "none"
    /\ ~ _same_inode(i)
    /\ _freeze(i, "fence_invalidated")
    /\ flocked' = Unlocked(i)
    /\ fd' = [fd EXCEPT ![i] = 0]

\* allocate: the candidate is a day or more ahead of the clock.
ClockBackward(i) ==
    /\ stage[i] = "ready"
    /\ frozen[i] = "none"
    /\ _same_inode(i)
    /\ Candidate(i) \geq now + DAY
    /\ _freeze(i, "clock_backward")
    /\ UNCHANGED <<flocked, fd>>

\* Mutant: the allocator does not remember the nonce.
Record_Forgotten(i) ==
    /\ stage[i] = "recording"
    /\ log' = Append(log, row[i])
    /\ issued' = IF Allocated(row[i]) THEN Append(issued, row[i].allocated) ELSE issued
    /\ row' = [row EXCEPT ![i] = NoRow]
    /\ stage' = [stage EXCEPT ![i] = "ready"]
    /\ UNCHANGED <<fence, last, frozen, now>>

\* The recorder returns: the row is durable, and a nonce is issued.
Record(i) ==
    /\ stage[i] = "recording"
    /\ log' = Append(log, row[i])
    /\ IF Allocated(row[i])
       THEN /\ last' = [last EXCEPT ![i] = row[i].allocated]
            /\ issued' = Append(issued, row[i].allocated)
       ELSE UNCHANGED <<last, issued>>
    /\ row' = [row EXCEPT ![i] = NoRow]
    /\ stage' = [stage EXCEPT ![i] = "ready"]
    /\ UNCHANGED <<fence, frozen, now>>

\* The recorder raises, with the row in the log or not: nothing is issued.
RecordRaises(i) ==
    /\ stage[i] = "recording"
    /\ log' \in {log, Append(log, row[i])}
    /\ row' = [row EXCEPT ![i] = NoRow]
    /\ stage' = [stage EXCEPT ![i] = "ready"]
    /\ UNCHANGED <<fence, last, frozen, issued, now>>

\* The process ends; a row it was recording may have reached the log.
Gone(i) ==
    /\ flocked' = Unlocked(i)
    /\ fd' = [fd EXCEPT ![i] = 0]
    /\ stage' = [stage EXCEPT ![i] = "idle"]
    /\ last' = [last EXCEPT ![i] = 0]
    /\ frozen' = [frozen EXCEPT ![i] = "none"]
    /\ row' = [row EXCEPT ![i] = NoRow]
    /\ UNCHANGED <<named, created, issued, now>>

release(i) ==
    /\ stage[i] \in {"fenced", "ready"}
    /\ Gone(i)
    /\ UNCHANGED log

Crash(i) ==
    /\ stage[i] # "idle"
    /\ log' \in {log} \cup (IF stage[i] = "recording" THEN {Append(log, row[i])} ELSE {})
    /\ Gone(i)

Unlink ==
    /\ named # 0
    /\ named' = 0
    /\ UNCHANGED <<created, flocked, fd, stage, allocator, log, issued, now>>

\* The clock goes on, or is set back.
SetClock ==
    /\ now' \in 1 .. MaxNow
    /\ now' # now
    /\ UNCHANGED <<fence, stage, allocator, log, issued>>

Step(i) ==
    \/ Open(i) \/ Fence(i) \/ FenceRefused(i) \/ NonceAllocator(i)
    \/ Allocate(i) \/ FenceInvalidated(i) \/ ClockBackward(i) \/ Record(i)
    \/ release(i) \/ Crash(i)

Fault == Unlink \/ \E i \in Instances : RecordRaises(i)

Next ==
    \/ (SetClock \/ \E i \in Instances : Step(i)) /\ UNCHANGED faults
    \/ faults < MaxFaults /\ Fault /\ faults' = faults + 1

Spec == Init /\ [][Next]_vars

-----------------------------------------------------------------------------
\* As long as the lock file is not replaced, the signer's nonces ascend across
\* processes, crashes, failed records and a clock that is set back.
NoncesAscend ==
    created \leq 1 =>
        \A k, l \in DOMAIN issued : k < l => issued[k] < issued[l]

\* As long as the lock file is not replaced, a freeze on record ends the
\* signer: no process ever issues a nonce again, restarted or not.
FreezeIsFinal ==
    [][FreezeRows # {} /\ created \leq 1 => issued' = issued]_vars

\* When a replaced lock file lets two processes allocate from the same past,
\* every nonce issued twice or out of order leaves a conflict in the log that
\* the startup check finds.
ForkIsDetected ==
    (\E k, l \in DOMAIN issued : k < l /\ issued[k] \geq issued[l])
        => replay_signer_nonce_conflict

\* The log of a signer whose records all returned and whose lock file stayed is
\* never called a conflict: a crash or a clock set back does not block startup.
NoFalseConflict == faults = 0 => ~ replay_signer_nonce_conflict
=============================================================================
