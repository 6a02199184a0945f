-------------------------- MODULE SignerNonceProofs --------------------------
(***************************************************************************)
(* Proofs about SignerNonce, for any processes, any window and any number  *)
(* of lock files, faults and allocations: as long as the lock file is not  *)
(* replaced the nonces ascend and a freeze is final; when it is, a fork is *)
(* found in the log; and what nobody broke is not called a conflict.       *)
(***************************************************************************)
EXTENDS SignerNonce, TLAPS

Running(i) == stage[i] \in {"fenced", "ready", "recording"}

\* An allocator that has not frozen.
Allocating(i) == stage[i] \in {"ready", "recording"} /\ frozen[i] = "none"

\* A fenced process has the lock of the file it has open; one that lost its file
\* has frozen, and found the first file removed.
LockInv ==
    /\ named \leq created
    /\ \A i \in Instances :
          /\ fd[i] \leq created
          /\ stage[i] \in {"opened", "fenced"} => fd[i] # 0
          /\ Running(i) /\ fd[i] # 0 => flocked[fd[i]] = i
          /\ Running(i) /\ fd[i] = 0 =>
                /\ frozen[i] # "none" /\ created # 0
                /\ created \leq 1 => named = 0 /\ \A n \in Files : flocked[n] = NoOne
    /\ \A n \in Files : flocked[n] # NoOne => Running(flocked[n]) /\ fd[flocked[n]] = n

\* What is being recorded was decided from the allocator's own memory.
RowInv ==
    \A i \in Instances :
        stage[i] = "recording" =>
            /\ row[i] \in Rows
            /\ Allocated(row[i]) <=> frozen[i] = "none"
            /\ Allocated(row[i]) => row[i].previous = last[i] /\ last[i] < row[i].allocated

Ascends == \A k, l \in DOMAIN issued : k < l => issued[k] < issued[l]

\* The memory of an allocator of the one lock file, or of the log, is ahead of
\* all that was issued; a freeze on record is in every memory.
AscendInv ==
    /\ \A k \in DOMAIN issued : \E m \in DOMAIN log :
           Allocated(log[m]) /\ log[m].allocated = issued[k]
    /\ created \leq 1 =>
          /\ Ascends
          /\ \A i \in Instances : Allocating(i) => \A k \in DOMAIN issued : issued[k] \leq last[i]
          /\ FreezeRows # {} => \A i \in Instances : ~ Allocating(i)

\* The last allocation on record.
IsLast(m) ==
    /\ m \in DOMAIN log /\ Allocated(log[m])
    /\ \A l \in DOMAIN log : m < l => ~ Allocated(log[l])

\* A log without a conflict ends with the highest nonce that was issued.
ForkInv ==
    /\ (\A k \in DOMAIN log : ~ Allocated(log[k])) \/ \E m \in DOMAIN log : IsLast(m)
    /\ ~ replay_signer_nonce_conflict =>
          /\ Ascends
          /\ \A m \in DOMAIN log : IsLast(m) =>
                \A k \in DOMAIN issued : issued[k] \leq log[m].allocated

\* Without faults the log ends with its highest nonce, which is the last one that
\* an allocator remembers.
FaultlessInv ==
    faults = 0 =>
        /\ created \leq 1 /\ named = created
        /\ ~ replay_signer_nonce_conflict
        /\ \A m \in DOMAIN log : IsLast(m) =>
              /\ \A k \in DOMAIN log : Allocated(log[k]) => log[k].allocated \leq log[m].allocated
              /\ \A i \in Instances : Allocating(i) => last[i] = log[m].allocated

\* The inductive invariant.
IInv == TypeOK /\ LockInv /\ RowInv /\ AscendInv /\ ForkInv /\ FaultlessInv

-----------------------------------------------------------------------------
\* What the constants are.
LEMMA ConstantTypes ==
    /\ MaxFiles \in Nat /\ MaxNow \in Nat /\ MaxFaults \in Nat /\ DAY \in Nat
    /\ NoOne \notin Instances
    /\ 0 \in Nonces /\ Nonces \subseteq Nat
    /\ NoRow \notin Rows
BY NoOneAssumption, DayAssumption, BoundAssumption DEF Nonces, NoRow, Rows

\* What is appended to a sequence comes after all there was.
LEMMA AppendIs ==
    ASSUME NEW T, NEW s \in Seq(T), NEW x \in T
    PROVE  /\ Append(s, x) \in Seq(T)
           /\ Len(s) \in Nat /\ DOMAIN s = 1 .. Len(s)
           /\ DOMAIN Append(s, x) = 1 .. Len(s) + 1
           /\ \A k \in 1 .. Len(s) : Append(s, x)[k] = s[k]
           /\ Append(s, x)[Len(s) + 1] = x
OBVIOUS


\* Every action keeps the types.
LEMMA TypeStep ==
    ASSUME TypeOK, RowInv, [Next]_vars
    PROVE  TypeOK'
<1> USE ConstantTypes DEF TypeOK, fence, allocator
<1>1. CASE SetClock /\ UNCHANGED faults
    BY <1>1 DEF SetClock
<1>2. ASSUME NEW i \in Instances, Open(i) /\ UNCHANGED faults
      PROVE  TypeOK'
    <2>1. fd[i] \in 0 .. MaxFiles /\ named' \in 0 .. MaxFiles /\ created' \in 0 .. MaxFiles
        BY <1>2 DEF Open
    <2>2. fd' \in [Instances -> 0 .. MaxFiles]
        BY <1>2 DEF Open
    <2>3. stage' \in [Instances -> Stages]
        BY <1>2 DEF Open, Stages
    <2> QED
        BY <1>2, <2>1, <2>2, <2>3 DEF Open
<1>3. ASSUME NEW i \in Instances, Fence(i) /\ UNCHANGED faults
      PROVE  TypeOK'
    <2>1. fd[i] \in Files
        BY <1>3 DEF Fence, Files, _same_inode
    <2> QED
        BY <1>3, <2>1 DEF Fence, Stages
<1>4. ASSUME NEW i \in Instances, FenceRefused(i) /\ UNCHANGED faults
      PROVE  TypeOK'
    BY <1>4 DEF FenceRefused, Stages
<1>5. ASSUME NEW i \in Instances, NonceAllocator(i) /\ UNCHANGED faults
      PROVE  TypeOK'
    BY <1>5 DEF NonceAllocator, Stages
<1>6. ASSUME NEW i \in Instances, Allocate(i) /\ UNCHANGED faults
      PROVE  TypeOK'
    <2>1. Candidate(i) \in Nonces
        BY <1>6 DEF Allocate, Candidate, Nonces
    <2>2. [outcome |-> "allocated", reason |-> "nonce_allocated",
            allocated |-> Candidate(i), previous |-> last[i]] \in Rows
        BY <2>1 DEF Rows
    <2>3. row' \in [Instances -> Rows \cup {NoRow}]
        BY <1>6, <2>2 DEF Allocate
    <2> QED
        BY <1>6, <2>1, <2>2, <2>3 DEF Allocate, Stages
<1>7. ASSUME NEW i \in Instances, FenceInvalidated(i) /\ UNCHANGED faults
      PROVE  TypeOK'
    <2>1. row' \in [Instances -> Rows \cup {NoRow}]
        BY <1>7
        DEF FenceInvalidated, _freeze, Unlocked, fence, allocator, Rows, FROZEN_REASONS
    <2> QED
        BY <1>7, <2>1
        DEF FenceInvalidated, _freeze, Unlocked, fence, allocator, Stages, FROZEN_REASONS
<1>8. ASSUME NEW i \in Instances, ClockBackward(i) /\ UNCHANGED faults
      PROVE  TypeOK'
    <2>1. row' \in [Instances -> Rows \cup {NoRow}]
        BY <1>8 DEF ClockBackward, _freeze, Rows, FROZEN_REASONS
    <2> QED
        BY <1>8, <2>1 DEF ClockBackward, _freeze, Stages, FROZEN_REASONS
<1>9. ASSUME NEW i \in Instances, Record(i) /\ UNCHANGED faults
      PROVE  TypeOK'
    <2>1. row[i] \in Rows => row[i].allocated \in Nonces
        BY <1>9 DEF Record, Rows
    <2>2. row[i] \in Rows
        BY <1>9 DEF Record, RowInv
    <2>3. Append(log, row[i]) \in Seq(Rows)
        BY <2>2, AppendIs
    <2>4. log' = Append(log, row[i])
        BY <1>9 DEF Record
    <2>5. log' \in Seq(Rows)
        BY <2>3, <2>4
    <2>6. Append(issued, row[i].allocated) \in Seq(Nonces)
        BY <2>1, <2>2, AppendIs
    <2>7. issued' = issued \/ issued' = Append(issued, row[i].allocated)
        BY <1>9 DEF Record
    <2>8. issued' \in Seq(Nonces)
        BY <2>6, <2>7
    <2>9. last' \in [Instances -> Nonces]
        BY <1>9, <2>1, <2>2 DEF Record
    <2> QED
        BY <1>9, <2>1, <2>2, <2>3, <2>4, <2>5, <2>6, <2>7, <2>8, <2>9 DEF Record, Stages
<1>10. ASSUME NEW i \in Instances, release(i) /\ UNCHANGED faults
       PROVE  TypeOK'
    BY <1>10 DEF release, Gone, Unlocked, Stages
<1>11. ASSUME NEW i \in Instances, Crash(i) /\ UNCHANGED faults
       PROVE  TypeOK'
    <2>1. stage[i] = "recording" => row[i] \in Rows
        BY DEF Gone, Unlocked, RowInv
    <2>2. row[i] \in Rows => Append(log, row[i]) \in Seq(Rows)
        BY AppendIs DEF Gone, Unlocked
    <2>3. log' = log \/ (stage[i] = "recording" /\ log' = Append(log, row[i]))
        BY <1>11 DEF Crash, Gone, Unlocked
    <2>4. log' \in Seq(Rows)
        BY <2>1, <2>2, <2>3 DEF Gone, Unlocked
    <2> QED
        BY <1>11, <2>1, <2>2, <2>3, <2>4 DEF Crash, Gone, Unlocked, Stages
<1>12. CASE Unlink /\ faults < MaxFaults /\ faults' = faults + 1
    BY <1>12 DEF Unlink
<1>13. ASSUME NEW i \in Instances, RecordRaises(i) /\ faults < MaxFaults /\ faults' = faults + 1
       PROVE  TypeOK'
    <2>1. stage[i] = "recording" => row[i] \in Rows
        BY DEF RowInv
    <2>2. row[i] \in Rows => Append(log, row[i]) \in Seq(Rows)
        BY AppendIs
    <2>3. log' = log \/ (stage[i] = "recording" /\ log' = Append(log, row[i]))
        BY <1>13 DEF RecordRaises
    <2>4. log' \in Seq(Rows)
        BY <2>1, <2>2, <2>3
    <2> QED
        BY <1>13, <2>1, <2>2, <2>3, <2>4 DEF RecordRaises, Stages
<1>14. CASE UNCHANGED vars
    BY <1>14 DEF vars
<1> QED
    BY <1>1, <1>2, <1>3, <1>4, <1>5, <1>6, <1>7, <1>8, <1>9, <1>10, <1>11, <1>12,
       <1>13, <1>14 DEF Next, Step, Fault

\* Every action keeps the locks, and a second lock file needs the first to be removed.
LEMMA LockStep ==
    ASSUME TypeOK, LockInv, [Next]_vars
    PROVE  LockInv'
<1> USE ConstantTypes DEF TypeOK, LockInv, Running, Files, Stages, fence, allocator
<1>1. CASE SetClock /\ UNCHANGED faults
    BY <1>1 DEF SetClock
<1>2. ASSUME NEW i \in Instances, Open(i) /\ UNCHANGED faults
      PROVE  LockInv'
    <2>1. \A j \in Instances : j # i => fd'[j] = fd[j] /\ stage'[j] = stage[j]
        BY <1>2 DEF Open
    <2>2. stage'[i] = "opened" /\ fd'[i] # 0 /\ fd'[i] \leq created'
        BY <1>2 DEF Open
    <2>3. created \leq created' /\ named' \leq created' /\ UNCHANGED <<flocked, frozen>>
        BY <1>2 DEF Open
    <2>4. created' \leq 1 => named' = named \/ \A j \in Instances : fd[j] = 0 /\ created = 0
        BY <1>2 DEF Open
    <2>5. created \in Nat /\ created' \in Nat /\ ~ Running(i)
        BY <1>2 DEF Open
    <2>6. \A j \in Instances : fd'[j] \leq created' /\
            (stage'[j] \in {"opened", "fenced"} => fd'[j] # 0)
        BY <2>1, <2>2, <2>3, <2>5
    <2>7. \A j \in Instances : Running(j)' => j # i /\ Running(j) /\ fd'[j] = fd[j]
        BY <2>1, <2>2, <2>5
    <2>8. \A n \in Files, j \in Instances : flocked[n] = j => Running(j)' /\ fd'[j] = n
        BY <2>1, <2>5
    <2>9. \A j \in Instances : Running(j)' /\ fd'[j] = 0 =>
            created' # 0 /\ (created' \leq 1 => named' = 0)
        BY <2>3, <2>4, <2>5, <2>7
    <2> QED
        BY <2>3, <2>5, <2>6, <2>7, <2>8, <2>9
<1>3. ASSUME NEW i \in Instances, Fence(i) /\ UNCHANGED faults
      PROVE  LockInv'
    BY <1>3 DEF Fence, _same_inode
<1>4. ASSUME NEW i \in Instances, FenceRefused(i) /\ UNCHANGED faults
      PROVE  LockInv'
    BY <1>4 DEF FenceRefused
<1>5. ASSUME NEW i \in Instances, NonceAllocator(i) /\ UNCHANGED faults
      PROVE  LockInv'
    BY <1>5 DEF NonceAllocator
<1>6. ASSUME NEW i \in Instances, Allocate(i) /\ UNCHANGED faults
      PROVE  LockInv'
    BY <1>6 DEF Allocate
<1>7. ASSUME NEW i \in Instances, FenceInvalidated(i) /\ UNCHANGED faults
      PROVE  LockInv'
    BY <1>7 DEF FenceInvalidated, _freeze, Unlocked, fence, allocator, _same_inode
<1>8. ASSUME NEW i \in Instances, ClockBackward(i) /\ UNCHANGED faults
      PROVE  LockInv'
    BY <1>8 DEF ClockBackward, _freeze
<1>9. ASSUME NEW i \in Instances, Record(i) /\ UNCHANGED faults
      PROVE  LockInv'
    BY <1>9 DEF Record
<1>10. ASSUME NEW i \in Instances, release(i) /\ UNCHANGED faults
       PROVE  LockInv'
    BY <1>10 DEF release, Gone, Unlocked
<1>11. ASSUME NEW i \in Instances, Crash(i) /\ UNCHANGED faults
       PROVE  LockInv'
    BY <1>11 DEF Crash, Gone, Unlocked
<1>12. CASE Unlink /\ faults < MaxFaults /\ faults' = faults + 1
    BY <1>12 DEF Unlink
<1>13. ASSUME NEW i \in Instances, RecordRaises(i) /\ faults < MaxFaults /\ faults' = faults + 1
       PROVE  LockInv'
    BY <1>13 DEF RecordRaises
<1>14. CASE UNCHANGED vars
    BY <1>14 DEF vars
<1> QED
    BY <1>1, <1>2, <1>3, <1>4, <1>5, <1>6, <1>7, <1>8, <1>9, <1>10, <1>11, <1>12,
       <1>13, <1>14 DEF Next, Step, Fault

\* What is being recorded stays true of the allocator.
LEMMA RowStep ==
    ASSUME TypeOK, LockInv, RowInv, TypeOK', [Next]_vars
    PROVE  RowInv'
<1> USE ConstantTypes DEF TypeOK, RowInv, Stages, fence, allocator
<1>1. CASE SetClock /\ UNCHANGED faults
    BY <1>1 DEF SetClock
<1>2. ASSUME NEW i \in Instances, Open(i) /\ UNCHANGED faults
      PROVE  RowInv'
    BY <1>2 DEF Open
<1>3. ASSUME NEW i \in Instances, Fence(i) /\ UNCHANGED faults
      PROVE  RowInv'
    BY <1>3 DEF Fence
<1>4. ASSUME NEW i \in Instances, FenceRefused(i) /\ UNCHANGED faults
      PROVE  RowInv'
    BY <1>4 DEF FenceRefused
<1>5. ASSUME NEW i \in Instances, NonceAllocator(i) /\ UNCHANGED faults
      PROVE  RowInv'
    BY <1>5 DEF NonceAllocator
<1>6. ASSUME NEW i \in Instances, Allocate(i) /\ UNCHANGED faults
      PROVE  RowInv'
    <2>1. row'[i] = [outcome |-> "allocated", reason |-> "nonce_allocated",
                     allocated |-> Candidate(i), previous |-> last[i]]
        BY <1>6 DEF Allocate
    <2>2. row'[i] \in Rows \cup {NoRow} /\ row'[i] # NoRow
        BY <2>1 DEF NoRow
    <2>3. last[i] < Candidate(i)
        BY DEF Candidate, Nonces
    <2>4. Allocated(row'[i]) /\ row'[i].allocated = Candidate(i) /\ row'[i].previous = last[i]
        BY <2>1 DEF Allocated
    <2>5. \A j \in Instances :
            j # i => row'[j] = row[j] /\ frozen'[j] = frozen[j] /\ stage'[j] = stage[j]
        BY <1>6 DEF Allocate
    <2>6. last' = last /\ frozen'[i] = "none"
        BY <1>6 DEF Allocate
    <2> QED
        BY <2>2, <2>3, <2>4, <2>5, <2>6
<1>7. ASSUME NEW i \in Instances, FenceInvalidated(i) /\ UNCHANGED faults
      PROVE  RowInv'
    <2>1. row[i]' \in Rows
        BY <1>7
        DEF FenceInvalidated, _freeze, Unlocked, fence, allocator, Rows, FROZEN_REASONS
    <2>2. ~ Allocated(row[i])' /\ frozen'[i] # "none"
        BY <1>7
        DEF FenceInvalidated, _freeze, Unlocked, fence, allocator, Allocated, FROZEN_REASONS
    <2>3. \A j \in Instances :
            j # i => row'[j] = row[j] /\ frozen'[j] = frozen[j] /\ stage'[j] = stage[j]
        BY <1>7 DEF FenceInvalidated, _freeze, Unlocked, fence, allocator
    <2>4. last' = last
        BY <1>7 DEF FenceInvalidated, _freeze, Unlocked, fence, allocator
    <2> QED
        BY <2>1, <2>2, <2>3, <2>4 DEF _freeze, Unlocked, fence, allocator, Allocated
<1>8. ASSUME NEW i \in Instances, ClockBackward(i) /\ UNCHANGED faults
      PROVE  RowInv'
    <2>1. row[i]' \in Rows
        BY <1>8 DEF ClockBackward, _freeze, Rows, FROZEN_REASONS
    <2>2. ~ Allocated(row[i])' /\ frozen'[i] # "none"
        BY <1>8 DEF ClockBackward, _freeze, Allocated, FROZEN_REASONS
    <2>3. \A j \in Instances :
            j # i => row'[j] = row[j] /\ frozen'[j] = frozen[j] /\ stage'[j] = stage[j]
        BY <1>8 DEF ClockBackward, _freeze
    <2>4. last' = last
        BY <1>8 DEF ClockBackward, _freeze
    <2> QED
        BY <2>1, <2>2, <2>3, <2>4 DEF _freeze, Allocated
<1>9. ASSUME NEW i \in Instances, Record(i) /\ UNCHANGED faults
      PROVE  RowInv'
    BY <1>9 DEF Record
<1>10. ASSUME NEW i \in Instances, release(i) /\ UNCHANGED faults
       PROVE  RowInv'
    BY <1>10 DEF release, Gone, Unlocked
<1>11. ASSUME NEW i \in Instances, Crash(i) /\ UNCHANGED faults
       PROVE  RowInv'
    BY <1>11 DEF Crash, Gone, Unlocked
<1>12. CASE Unlink /\ faults < MaxFaults /\ faults' = faults + 1
    BY <1>12 DEF Unlink
<1>13. ASSUME NEW i \in Instances, RecordRaises(i) /\ faults < MaxFaults /\ faults' = faults + 1
       PROVE  RowInv'
    BY <1>13 DEF RecordRaises
<1>14. CASE UNCHANGED vars
    BY <1>14 DEF vars
<1> QED
    BY <1>1, <1>2, <1>3, <1>4, <1>5, <1>6, <1>7, <1>8, <1>9, <1>10, <1>11, <1>12,
       <1>13, <1>14 DEF Next, Step, Fault

\* While there is one lock file an allocator that has not frozen is alone.
LEMMA Alone ==
    ASSUME TypeOK, LockInv, created \leq 1,
           NEW i \in Instances, Running(i), NEW j \in Instances, Allocating(j)
    PROVE  i = j
<1>1. Running(j) /\ fd[j] # 0
    BY DEF Allocating, Running, LockInv
<1>2. fd[j] = 1 /\ flocked[1] = j /\ 1 \in Files
    BY <1>1, ConstantTypes DEF TypeOK, LockInv, Files
<1>3. fd[i] # 0
    BY <1>2, ConstantTypes DEF LockInv
<1> QED
    BY <1>2, <1>3, ConstantTypes DEF TypeOK, LockInv, Files

\* A row that is recorded comes after all there was.
LEMMA LogStep ==
    ASSUME TypeOK, RowInv, NEW i \in Instances, stage[i] = "recording",
           log' = Append(log, row[i])
    PROVE  /\ DOMAIN log' = DOMAIN log \cup {Len(log) + 1}
           /\ \A k \in DOMAIN log : k \in Nat /\ k < Len(log) + 1 /\ log'[k] = log[k]
           /\ Len(log) + 1 \in Nat /\ log'[Len(log) + 1] = row[i]
<1>1. log \in Seq(Rows) /\ row[i] \in Rows
    BY DEF TypeOK, RowInv
<1> QED
    BY <1>1, AppendIs

\* So does a nonce that is issued.
LEMMA IssueStep ==
    ASSUME TypeOK, NEW n \in Nonces, issued' = Append(issued, n)
    PROVE  /\ DOMAIN issued' = DOMAIN issued \cup {Len(issued) + 1}
           /\ \A k \in DOMAIN issued : k \in Nat /\ k < Len(issued) + 1 /\ issued'[k] = issued[k]
           /\ Len(issued) + 1 \in Nat /\ issued'[Len(issued) + 1] = n
           /\ \A k \in DOMAIN issued : issued[k] \in Nat
<1>1. issued \in Seq(Nonces)
    BY DEF TypeOK
<1>2. \A k \in DOMAIN issued : issued[k] \in Nonces
    BY <1>1
<1>3. \A k \in DOMAIN issued : issued[k] \in Nat
    BY <1>2, ConstantTypes
<1> QED
    BY <1>1, <1>3, AppendIs

\* A row that reaches the log is seen by every allocator of the one lock file.
LEMMA FreezesStep ==
    ASSUME TypeOK, LockInv, RowInv, AscendInv, created \leq 1,
           NEW i \in Instances, stage[i] = "recording",
           log' = Append(log, row[i]), FreezeRows' # {},
           NEW j \in Instances, Allocating(j)
    PROVE  FALSE
<1>1. j = i
    BY Alone DEF Running
<1>2. Allocated(row[i]) /\ row[i].outcome # "frozen"
    BY <1>1 DEF RowInv, Allocating, Allocated
<1>3. FreezeRows' = FreezeRows
    BY <1>2, LogStep DEF FreezeRows
<1> QED
    BY <1>3 DEF AscendInv

\* Nonces go on from the highest that was issued, and freezes are not forgotten.
LEMMA AscendStep ==
    ASSUME TypeOK, LockInv, RowInv, AscendInv, [Next]_vars
    PROVE  AscendInv'
<1> USE ConstantTypes DEF TypeOK, fence, allocator
<1>1. CASE SetClock /\ UNCHANGED faults
    BY <1>1 DEF SetClock, AscendInv, Ascends, Allocating, FreezeRows
<1>2. ASSUME NEW i \in Instances, Open(i) /\ UNCHANGED faults
      PROVE  AscendInv'
    BY <1>2 DEF Open, AscendInv, Ascends, Allocating, FreezeRows
<1>3. ASSUME NEW i \in Instances, Fence(i) /\ UNCHANGED faults
      PROVE  AscendInv'
    BY <1>3 DEF Fence, AscendInv, Ascends, Allocating, FreezeRows
<1>4. ASSUME NEW i \in Instances, FenceRefused(i) /\ UNCHANGED faults
      PROVE  AscendInv'
    BY <1>4 DEF FenceRefused, AscendInv, Ascends, Allocating, FreezeRows
<1>5. ASSUME NEW i \in Instances, NonceAllocator(i) /\ UNCHANGED faults
      PROVE  AscendInv'
    <2>1. PICK n \in Nonces, reason \in FROZEN_REASONS \cup {"none"} :
             /\ replay_last_allocated_nonce(n) /\ replay_freeze_reason(reason)
             /\ last' = [last EXCEPT ![i] = n] /\ frozen' = [frozen EXCEPT ![i] = reason]
        BY <1>5 DEF NonceAllocator
    <2>2. \A k \in DOMAIN issued : issued[k] \leq n
        BY <2>1 DEF AscendInv, replay_last_allocated_nonce
    <2>3. \A k \in DOMAIN log : log[k] \in Rows
        OBVIOUS
    <2>4. \A k \in DOMAIN log : log[k].reason # "none"
        BY <2>3 DEF Rows, FROZEN_REASONS
    <2>5. FreezeRows # {} => reason # "none"
        BY <2>1, <2>4 DEF replay_freeze_reason, FreezeRows, Rows, FROZEN_REASONS
    <2> QED
        BY <1>5, <2>1, <2>2, <2>3, <2>4, <2>5, <2>1, <2>2, <2>5
        DEF NonceAllocator, AscendInv, Ascends, Allocating, FreezeRows
<1>6. ASSUME NEW i \in Instances, Allocate(i) /\ UNCHANGED faults
      PROVE  AscendInv'
    BY <1>6 DEF Allocate, AscendInv, Ascends, Allocating, FreezeRows
<1>7. ASSUME NEW i \in Instances, FenceInvalidated(i) /\ UNCHANGED faults
      PROVE  AscendInv'
    BY <1>7
    DEF FenceInvalidated, _freeze, Unlocked, fence, allocator,
        AscendInv, Ascends, Allocating, FreezeRows
<1>8. ASSUME NEW i \in Instances, ClockBackward(i) /\ UNCHANGED faults
      PROVE  AscendInv'
    BY <1>8 DEF ClockBackward, _freeze, AscendInv, Ascends, Allocating, FreezeRows
<1>9. ASSUME NEW i \in Instances, Record(i) /\ UNCHANGED faults
      PROVE  AscendInv'
    <2>1. log' = Append(log, row[i]) /\ stage[i] = "recording" /\ row[i] \in Rows
        BY <1>9 DEF Record, RowInv
    <2>2. created' \leq 1 /\ FreezeRows' # {} => \A j \in Instances : ~ Allocating(j)'
        BY <1>9, <2>1, FreezesStep DEF Record, Allocating, Stages
    <2>3. CASE ~ Allocated(row[i])
        BY <1>9, <2>1, <2>2, <2>3, LogStep DEF Record, AscendInv, Ascends, Allocating
    <2>4. CASE Allocated(row[i])
        <3> DEFINE n == row[i].allocated
        <3>1. /\ n \in Nonces /\ n \in Nat /\ last[i] \in Nat /\ last[i] < n
              /\ Allocating(i) /\ Running(i)
            BY <2>1, <2>4 DEF RowInv, Rows, Allocating, Running
        <3>2. /\ issued' = Append(issued, n) /\ last' = [last EXCEPT ![i] = n]
              /\ UNCHANGED created
            BY <1>9, <2>4 DEF Record
        <3>3. /\ DOMAIN issued' = DOMAIN issued \cup {Len(issued) + 1}
              /\ \A k \in DOMAIN issued : k \in Nat /\ k < Len(issued) + 1
              /\ \A k \in DOMAIN issued : issued'[k] = issued[k] /\ issued[k] \in Nat
              /\ Len(issued) + 1 \in Nat /\ issued'[Len(issued) + 1] = n
            BY <3>1, <3>2, IssueStep
        <3>4. /\ DOMAIN log' = DOMAIN log \cup {Len(log) + 1}
              /\ \A m \in DOMAIN log : log'[m] = log[m]
              /\ log'[Len(log) + 1] = row[i]
            BY <2>1, LogStep
        <3> HIDE DEF n
        <3>5. \A k \in DOMAIN issued' : \E m \in DOMAIN log' :
                  Allocated(log'[m]) /\ log'[m].allocated = issued'[k]
            <4>1. ASSUME NEW k \in DOMAIN issued
                  PROVE  \E m \in DOMAIN log' :
                             Allocated(log'[m]) /\ log'[m].allocated = issued'[k]
                <5>1. PICK m \in DOMAIN log : Allocated(log[m]) /\ log[m].allocated = issued[k]
                    BY DEF AscendInv
                <5> QED
                    BY <3>3, <3>4, <5>1
            <4>2. Allocated(log'[Len(log) + 1]) /\ log'[Len(log) + 1].allocated = n
                BY <2>4, <3>4 DEF n
            <4> QED
                BY <3>3, <3>4, <4>1, <4>2
        <3>6. ASSUME created' \leq 1
              PROVE  /\ Ascends'
                     /\ \A j \in Instances : Allocating(j)' =>
                            \A k \in DOMAIN issued' : issued'[k] \leq last'[j]
            <4>1. \A k \in DOMAIN issued : issued[k] < n
                BY <3>1, <3>2, <3>3, <3>6 DEF AscendInv
            <4>2. Ascends'
                BY <3>1, <3>2, <3>6, <4>1, <3>3 DEF AscendInv, Ascends
            <4>3. \A j \in Instances : Allocating(j)' => j = i
                <5>1. \A j \in Instances : Allocating(j)' => Allocating(j)
                    BY <1>9, <3>1 DEF Record, Allocating, Stages
                <5> QED
                    BY <3>1, <3>2, <3>6, <5>1, Alone
            <4>4. \A k \in DOMAIN issued' : issued'[k] \leq n
                BY <3>1, <3>2, <4>1, <3>3
            <4> QED
                BY <3>2, <4>2, <4>3, <4>4
        <3> QED
            BY <2>2, <3>5, <3>6 DEF AscendInv
    <2> QED
        BY <2>3, <2>4
<1>10. ASSUME NEW i \in Instances, release(i) /\ UNCHANGED faults
       PROVE  AscendInv'
    BY <1>10 DEF release, Gone, Unlocked, AscendInv, Ascends, Allocating, FreezeRows
<1>11. ASSUME NEW i \in Instances, Crash(i) /\ UNCHANGED faults
       PROVE  AscendInv'
    <2>1. log' = log \/ (stage[i] = "recording" /\ log' = Append(log, row[i]))
        BY <1>11 DEF Crash, Gone, Unlocked
    <2>2. \A k \in DOMAIN issued' : \E m \in DOMAIN log' :
            Allocated(log'[m]) /\ log'[m].allocated = issued'[k]
        BY <1>11, <2>1, LogStep DEF Crash, Gone, Unlocked, AscendInv
    <2>3. \A j \in Instances : Allocating(j)' => Allocating(j) /\ last'[j] = last[j]
        BY <1>11 DEF Crash, Gone, Unlocked, Allocating, Stages
    <2>4. created' = created /\ issued' = issued
        BY <1>11 DEF Crash, Gone, Unlocked
    <2>5. log' = log => FreezeRows' = FreezeRows
        BY DEF Gone, Unlocked, FreezeRows
    <2>6. created' \leq 1 /\ FreezeRows' # {} => \A j \in Instances : ~ Allocating(j)'
        BY <2>1, <2>3, <2>4, <2>5, FreezesStep DEF Gone, Unlocked, AscendInv
    <2> QED
        BY <2>2, <2>3, <2>4, <2>6 DEF Gone, Unlocked, AscendInv, Ascends
<1>12. CASE Unlink /\ faults < MaxFaults /\ faults' = faults + 1
    BY <1>12 DEF Unlink, AscendInv, Ascends, Allocating, FreezeRows
<1>13. ASSUME NEW i \in Instances, RecordRaises(i) /\ faults < MaxFaults /\ faults' = faults + 1
       PROVE  AscendInv'
    <2>1. log' = log \/ (stage[i] = "recording" /\ log' = Append(log, row[i]))
        BY <1>13 DEF RecordRaises
    <2>2. \A k \in DOMAIN issued' : \E m \in DOMAIN log' :
            Allocated(log'[m]) /\ log'[m].allocated = issued'[k]
        BY <1>13, <2>1, LogStep DEF RecordRaises, AscendInv
    <2>3. \A j \in Instances : Allocating(j)' => Allocating(j) /\ last'[j] = last[j]
        BY <1>13 DEF RecordRaises, Allocating, Stages
    <2>4. created' = created /\ issued' = issued
        BY <1>13 DEF RecordRaises
    <2>5. log' = log => FreezeRows' = FreezeRows
        BY DEF FreezeRows
    <2>6. created' \leq 1 /\ FreezeRows' # {} => \A j \in Instances : ~ Allocating(j)'
        BY <2>1, <2>3, <2>4, <2>5, FreezesStep DEF AscendInv
    <2> QED
        BY <2>2, <2>3, <2>4, <2>6 DEF AscendInv, Ascends
<1>14. CASE UNCHANGED vars
    BY <1>14 DEF vars, AscendInv, Ascends, Allocating, FreezeRows
<1> QED
    BY <1>1, <1>2, <1>3, <1>4, <1>5, <1>6, <1>7, <1>8, <1>9, <1>10, <1>11, <1>12,
       <1>13, <1>14 DEF Next, Step, Fault

-----------------------------------------------------------------------------
\* What is said of the log stays true as long as the log does.
LEMMA LogSame ==
    ASSUME log' = log
    PROVE  /\ replay_signer_nonce_conflict' <=> replay_signer_nonce_conflict
           /\ \A m : IsLast(m)' <=> IsLast(m)
BY DEF IsLast, replay_signer_nonce_conflict, allocation_after_freeze, chain_break, FreezeRows

\* What a row that is recorded does to the last allocation and to conflicts.
LEMMA ConflictStep ==
    ASSUME TypeOK, RowInv, NEW i \in Instances, stage[i] = "recording",
           log' = Append(log, row[i])
    PROVE  /\ replay_signer_nonce_conflict => replay_signer_nonce_conflict'
           /\ Allocated(row[i]) => /\ \A m \in DOMAIN log' : IsLast(m)' <=> m = Len(log) + 1
                                   /\ \A m \in DOMAIN log : IsLast(m) =>
                                          replay_signer_nonce_conflict' \/ row[i].previous = log[m].allocated
           /\ ~ Allocated(row[i]) => \A m \in DOMAIN log' : IsLast(m)' <=> m \in DOMAIN log /\ IsLast(m)
           /\ replay_signer_nonce_conflict' =>
                  \/ replay_signer_nonce_conflict
                  \/ Allocated(row[i]) /\ FreezeRows # {}
                  \/ Allocated(row[i]) /\ \E m \in DOMAIN log :
                         IsLast(m) /\ row[i].previous # log[m].allocated
<1> DEFINE e == Len(log) + 1
<1>1. /\ DOMAIN log' = DOMAIN log \cup {e}
      /\ DOMAIN log = 1 .. Len(log) /\ Len(log) \in Nat
      /\ \A k \in DOMAIN log : k \in Nat /\ k < e /\ log'[k] = log[k]
      /\ e \in Nat /\ log'[e] = row[i] /\ e \in DOMAIN log'
    BY LogStep DEF TypeOK
<1>2. e \notin DOMAIN log
    BY <1>1
<1>3. FreezeRows \subseteq FreezeRows' /\ \A k \in FreezeRows' : k \in FreezeRows \/ k = e
    BY <1>1 DEF FreezeRows
<1>4. \A l \in DOMAIN log, k \in DOMAIN log : \A m \in k + 1 .. l - 1 : m \in DOMAIN log
    BY <1>1
<1>5. replay_signer_nonce_conflict => replay_signer_nonce_conflict'
    <2>1. allocation_after_freeze => allocation_after_freeze'
        BY <1>1, <1>3 DEF allocation_after_freeze
    <2>2. chain_break => chain_break'
        <3>1. SUFFICES ASSUME NEW k \in DOMAIN log, NEW l \in DOMAIN log,
                              k < l, Allocated(log[k]), Allocated(log[l]),
                              \A m \in k + 1 .. l - 1 : ~ Allocated(log[m]),
                              log[l].previous # log[k].allocated
                       PROVE  chain_break'
            BY DEF chain_break
        <3>2. \A m \in k + 1 .. l - 1 : ~ Allocated(log'[m])
            BY <1>1, <1>4, <3>1
        <3> QED
            <4>1. /\ k \in DOMAIN log' /\ l \in DOMAIN log' /\ Allocated(log'[k]) /\ Allocated(log'[l])
                  /\ log'[l].previous # log'[k].allocated
                BY <1>1, <3>1
            <4> QED
                BY <3>1, <3>2, <4>1 DEF chain_break
    <2> QED
        BY <2>1, <2>2 DEF replay_signer_nonce_conflict
<1>6. ASSUME Allocated(row[i])
      PROVE  \A m \in DOMAIN log' : IsLast(m)' <=> m = e
    BY <1>1, <1>2, <1>6 DEF IsLast
<1>7. ASSUME Allocated(row[i]), NEW m \in DOMAIN log, IsLast(m),
             row[i].previous # log[m].allocated
      PROVE  replay_signer_nonce_conflict'
    <2>1. \A l \in m + 1 .. e - 1 : l \in DOMAIN log /\ m < l
        BY <1>1
    <2>2. \A l \in m + 1 .. e - 1 : ~ Allocated(log'[l])
        BY <1>1, <1>7, <2>1 DEF IsLast
    <2>3. m < e /\ Allocated(log'[m]) /\ Allocated(log'[e]) /\ log'[e].previous # log'[m].allocated
        BY <1>1, <1>7 DEF IsLast
    <2>4. chain_break'
        BY <1>1, <2>2, <2>3 DEF chain_break
    <2> QED
        BY <2>4 DEF replay_signer_nonce_conflict
<1>8. ASSUME ~ Allocated(row[i])
      PROVE  \A m \in DOMAIN log' : IsLast(m)' <=> m \in DOMAIN log /\ IsLast(m)
    BY <1>1, <1>2, <1>8 DEF IsLast
<1>9. ASSUME allocation_after_freeze'
      PROVE  allocation_after_freeze \/ (Allocated(row[i]) /\ FreezeRows # {})
    BY <1>1, <1>2, <1>3, <1>9 DEF allocation_after_freeze
<1>10. ASSUME chain_break'
       PROVE  \/ chain_break
              \/ Allocated(row[i]) /\ \E m \in DOMAIN log :
                     IsLast(m) /\ row[i].previous # log[m].allocated
    <2>1. PICK k \in DOMAIN log', l \in DOMAIN log' :
              /\ k < l /\ Allocated(log'[k]) /\ Allocated(log'[l])
              /\ \A m \in k + 1 .. l - 1 : ~ Allocated(log'[m])
              /\ log'[l].previous # log'[k].allocated
        BY <1>10 DEF chain_break
    <2>2. k \in DOMAIN log
        BY <1>1, <2>1
    <2>3. CASE l \in DOMAIN log
        <3>1. \A m \in k + 1 .. l - 1 : ~ Allocated(log[m])
            BY <1>1, <1>4, <2>1, <2>2, <2>3
        <3> QED
            BY <1>1, <2>1, <2>2, <2>3, <3>1 DEF chain_break
    <2>4. CASE l = e
        <3>1. \A m \in DOMAIN log : k < m => m \in k + 1 .. e - 1
            BY <1>1, <2>2
        <3>2. IsLast(k)
            BY <1>1, <2>1, <2>2, <2>4, <3>1 DEF IsLast
        <3> QED
            BY <1>1, <2>1, <2>2, <2>4, <3>2
    <2> QED
        BY <1>1, <2>3, <2>4
<1> QED
    BY <1>5, <1>6, <1>7, <1>8, <1>9, <1>10 DEF replay_signer_nonce_conflict

\* In a log without a conflict the next allocation is above all that was issued.
LEMMA ForkLog ==
    ASSUME TypeOK, RowInv, AscendInv, ForkInv,
           NEW i \in Instances, stage[i] = "recording", log' = Append(log, row[i])
    PROVE  /\ (\A k \in DOMAIN log' : ~ Allocated(log'[k])) \/ \E m \in DOMAIN log' : IsLast(m)'
           /\ ~ replay_signer_nonce_conflict' =>
                 /\ Ascends
                 /\ Allocated(row[i]) => \A k \in DOMAIN issued : issued[k] < row[i].allocated
                 /\ \A m \in DOMAIN log' : IsLast(m)' =>
                        \A k \in DOMAIN issued : issued[k] \leq log'[m].allocated
<1>1. /\ DOMAIN log' = DOMAIN log \cup {Len(log) + 1}
      /\ \A k \in DOMAIN log : log'[k] = log[k]
      /\ log'[Len(log) + 1] = row[i]
    BY LogStep
<1>2. (\A k \in DOMAIN log' : ~ Allocated(log'[k])) \/ \E m \in DOMAIN log' : IsLast(m)'
    BY <1>1, ConflictStep DEF ForkInv
<1>3. \A k \in DOMAIN issued : issued[k] \in Nat
    <2>1. \A k \in DOMAIN issued : issued[k] \in Nonces
        BY DEF TypeOK
    <2> QED
        BY <2>1, ConstantTypes
<1>4. /\ row[i] \in Rows /\ row[i].allocated \in Nat /\ row[i].previous \in Nat
      /\ Allocated(row[i]) => row[i].previous < row[i].allocated
    BY ConstantTypes DEF RowInv, Rows, TypeOK
<1>5. ASSUME ~ replay_signer_nonce_conflict', Allocated(row[i]), NEW k \in DOMAIN issued
      PROVE  issued[k] < row[i].allocated
    <2>1. \E m \in DOMAIN log : IsLast(m)
        BY DEF AscendInv, ForkInv
    <2>2. PICK m \in DOMAIN log : IsLast(m)
        BY <2>1
    <2>3. row[i].previous = log[m].allocated /\ issued[k] \leq log[m].allocated
        BY <1>5, <2>2, ConflictStep DEF ForkInv
    <2> QED
        BY <1>3, <1>4, <1>5, <2>3
<1>6. ASSUME ~ replay_signer_nonce_conflict', NEW m \in DOMAIN log', IsLast(m)',
             NEW k \in DOMAIN issued
      PROVE  issued[k] \leq log'[m].allocated
    <2>1. CASE Allocated(row[i])
        BY <1>1, <1>3, <1>4, <1>5, <1>6, <2>1, ConflictStep
    <2>2. CASE ~ Allocated(row[i])
        BY <1>1, <1>6, <2>2, ConflictStep DEF ForkInv
    <2> QED
        BY <2>1, <2>2
<1> QED
    BY <1>2, <1>5, <1>6, ConflictStep DEF ForkInv

\* A disorder among the issued nonces has a conflict in the log: only what is
\* recorded can change that.
LEMMA ForkStep ==
    ASSUME TypeOK, RowInv, AscendInv, ForkInv, [Next]_vars
    PROVE  ForkInv'
<1>1. CASE log' = log /\ issued' = issued
    BY <1>1, LogSame DEF ForkInv, Ascends
<1>2. ASSUME NEW i \in Instances, RecordRaises(i) \/ Crash(i)
      PROVE  ForkInv'
    <2>1. /\ log' = log \/ (stage[i] = "recording" /\ log' = Append(log, row[i]))
          /\ issued' = issued
        BY <1>2 DEF RecordRaises, Crash, Gone
    <2>2. CASE log' = log
        BY <1>1, <2>1, <2>2
    <2>3. CASE stage[i] = "recording" /\ log' = Append(log, row[i])
        BY <2>1, <2>3, ForkLog DEF ForkInv, Ascends
    <2> QED
        BY <2>1, <2>2, <2>3
<1>3. ASSUME NEW i \in Instances, Record(i)
      PROVE  ForkInv'
    <2>1. log' = Append(log, row[i]) /\ stage[i] = "recording" /\ row[i] \in Rows
        BY <1>3 DEF Record, RowInv
    <2>2. CASE ~ Allocated(row[i])
        <3>1. issued' = issued
            BY <1>3, <2>2 DEF Record
        <3> QED
            BY <2>1, <3>1, ForkLog DEF ForkInv, Ascends
    <2>3. CASE Allocated(row[i])
        <3> DEFINE n == row[i].allocated
        <3>1. n \in Nonces /\ n \in Nat
            BY <2>1, <2>3, ConstantTypes DEF RowInv, Rows
        <3>2. issued' = Append(issued, n)
            BY <1>3, <2>3 DEF Record
        <3>3. /\ DOMAIN issued' = DOMAIN issued \cup {Len(issued) + 1}
              /\ \A k \in DOMAIN issued : k \in Nat /\ k < Len(issued) + 1
              /\ \A k \in DOMAIN issued : issued'[k] = issued[k] /\ issued[k] \in Nat
              /\ Len(issued) + 1 \in Nat /\ issued'[Len(issued) + 1] = n
            BY <3>1, <3>2, IssueStep
        <3>4. ASSUME ~ replay_signer_nonce_conflict'
              PROVE  Ascends' /\ \A k \in DOMAIN issued' : issued'[k] \leq n
            <4>1. Ascends /\ \A k \in DOMAIN issued : issued[k] < n
                BY <2>1, <2>3, <3>4, ForkLog
            <4> QED
                BY <3>1, <3>3, <4>1 DEF Ascends
        <3>5. \A m \in DOMAIN log' : IsLast(m)' => log'[m] = row[i]
            BY <2>1, <2>3, ConflictStep, LogStep
        <3> QED
            BY <2>1, <3>4, <3>5, ForkLog DEF ForkInv
    <2> QED
        BY <2>2, <2>3
<1> QED
    BY <1>1, <1>2, <1>3 DEF Next, Step, Fault, SetClock, Open, Fence, FenceRefused,
       NonceAllocator, Allocate, FenceInvalidated, ClockBackward, _freeze, release, Gone,
       Unlink, vars

\* Without faults a row continues from the end of the log, and is its new end.
LEMMA FaultlessLog ==
    ASSUME TypeOK, LockInv, RowInv, AscendInv, ForkInv, FaultlessInv, faults = 0,
           NEW i \in Instances, stage[i] = "recording", log' = Append(log, row[i])
    PROVE  /\ ~ replay_signer_nonce_conflict'
           /\ \A m \in DOMAIN log' : IsLast(m)' =>
                 /\ \A k \in DOMAIN log' : Allocated(log'[k]) => log'[k].allocated \leq log'[m].allocated
                 /\ Allocated(row[i]) => log'[m] = row[i]
                 /\ ~ Allocated(row[i]) => m \in DOMAIN log /\ IsLast(m) /\ log'[m] = log[m]
<1>1. /\ DOMAIN log' = DOMAIN log \cup {Len(log) + 1}
      /\ \A k \in DOMAIN log : log'[k] = log[k]
      /\ log'[Len(log) + 1] = row[i]
    BY LogStep
<1>2. created \leq 1 /\ ~ replay_signer_nonce_conflict
    BY DEF FaultlessInv
<1>3. /\ row[i] \in Rows /\ row[i].allocated \in Nat /\ last[i] \in Nat
      /\ Allocated(row[i]) => row[i].previous = last[i] /\ last[i] < row[i].allocated /\ Allocating(i)
    BY ConstantTypes DEF RowInv, Rows, TypeOK, Allocating
<1>4. Allocated(row[i]) => FreezeRows = {}
    BY <1>2, <1>3 DEF AscendInv
<1>5. \A m \in DOMAIN log : IsLast(m) /\ Allocated(row[i]) => row[i].previous = log[m].allocated
    BY <1>3 DEF FaultlessInv
<1>6. ~ replay_signer_nonce_conflict'
    BY <1>2, <1>4, <1>5, ConflictStep
<1>7. \A k \in DOMAIN log : log[k] \in Rows
    BY DEF TypeOK
<1>8. \A k \in DOMAIN log : log[k].allocated \in Nat
    BY <1>7, ConstantTypes DEF Rows
<1>9. ASSUME Allocated(row[i]), NEW k \in DOMAIN log, Allocated(log[k])
      PROVE  log[k].allocated \leq row[i].allocated
    <2>1. PICK m \in DOMAIN log : IsLast(m)
        BY <1>9 DEF ForkInv
    <2>2. log[k].allocated \leq log[m].allocated /\ log[m].allocated = last[i]
        BY <1>3, <1>5, <1>9, <2>1 DEF FaultlessInv
    <2> QED
        BY <1>3, <1>8, <1>9, <2>2
<1>10. ASSUME Allocated(row[i]), NEW m \in DOMAIN log', IsLast(m)'
       PROVE  /\ log'[m] = row[i]
              /\ \A k \in DOMAIN log' : Allocated(log'[k]) => log'[k].allocated \leq log'[m].allocated
    BY <1>1, <1>3, <1>9, <1>10, ConflictStep
<1>11. ASSUME ~ Allocated(row[i]), NEW m \in DOMAIN log', IsLast(m)'
       PROVE  /\ m \in DOMAIN log /\ IsLast(m) /\ log'[m] = log[m]
              /\ \A k \in DOMAIN log' : Allocated(log'[k]) => log'[k].allocated \leq log'[m].allocated
    BY <1>1, <1>11, ConflictStep DEF FaultlessInv
<1> QED
    BY <1>6, <1>10, <1>11

\* Who forgets, or allocates no more, brings no conflict.
LEMMA FaultlessSame ==
    ASSUME FaultlessInv, log' = log, UNCHANGED <<named, created, faults>>,
           \A j \in Instances : Allocating(j)' => Allocating(j) /\ last'[j] = last[j]
    PROVE  FaultlessInv'
BY LogSame DEF FaultlessInv

\* Nothing but a fault brings a conflict into the log.
LEMMA FaultlessStep ==
    ASSUME TypeOK, LockInv, RowInv, AscendInv, ForkInv, FaultlessInv, [Next]_vars
    PROVE  FaultlessInv'
<1> USE DEF fence, allocator
<1>1. CASE SetClock /\ UNCHANGED faults
    BY <1>1, FaultlessSame DEF SetClock, TypeOK, Stages, Allocating
<1>2. ASSUME NEW i \in Instances, Open(i) /\ UNCHANGED faults
      PROVE  FaultlessInv'
    BY <1>2, LogSame DEF Open, FaultlessInv, TypeOK, Stages, Allocating
<1>3. ASSUME NEW i \in Instances, Fence(i) /\ UNCHANGED faults
      PROVE  FaultlessInv'
    BY <1>3, FaultlessSame DEF Fence, TypeOK, Stages, Allocating
<1>4. ASSUME NEW i \in Instances, FenceRefused(i) /\ UNCHANGED faults
      PROVE  FaultlessInv'
    BY <1>4, FaultlessSame DEF FenceRefused, TypeOK, Stages, Allocating
<1>5. ASSUME NEW i \in Instances, NonceAllocator(i) /\ UNCHANGED faults
      PROVE  FaultlessInv'
    <2>1. PICK n \in Nonces, reason \in FROZEN_REASONS \cup {"none"} :
             /\ replay_last_allocated_nonce(n)
             /\ last' = [last EXCEPT ![i] = n] /\ frozen' = [frozen EXCEPT ![i] = reason]
        BY <1>5 DEF NonceAllocator
    <2>2. \A k \in DOMAIN log : log[k] \in Rows
        BY DEF TypeOK
    <2>3. \A k \in DOMAIN log : log[k].allocated \in Nat
        BY <2>2, ConstantTypes DEF Rows
    <2>4. faults = 0 => \A m \in DOMAIN log : IsLast(m) => log[m].allocated = n
        BY <2>1, <2>3, ConstantTypes
        DEF FaultlessInv, IsLast, replay_last_allocated_nonce
    <2>5. \A j \in Instances : j # i => Allocating(j)' = Allocating(j) /\ last'[j] = last[j]
        BY <1>5 DEF NonceAllocator, TypeOK, Allocating
    <2>6. last'[i] = n /\ UNCHANGED <<log, named, created, faults>>
        BY <1>5, <2>1 DEF NonceAllocator, TypeOK
    <2> QED
        BY <2>4, <2>5, <2>6, LogSame DEF FaultlessInv
<1>6. ASSUME NEW i \in Instances, Allocate(i) /\ UNCHANGED faults
      PROVE  FaultlessInv'
    BY <1>6, FaultlessSame DEF Allocate, TypeOK, Stages, Allocating
<1>7. ASSUME NEW i \in Instances, FenceInvalidated(i) /\ UNCHANGED faults
      PROVE  FaultlessInv'
    BY <1>7, FaultlessSame
    DEF FenceInvalidated, _freeze, Unlocked, fence, allocator, TypeOK, Stages, Allocating
<1>8. ASSUME NEW i \in Instances, ClockBackward(i) /\ UNCHANGED faults
      PROVE  FaultlessInv'
    BY <1>8, FaultlessSame DEF ClockBackward, _freeze, TypeOK, Stages, Allocating
<1>9. ASSUME NEW i \in Instances, Record(i) /\ UNCHANGED faults
      PROVE  FaultlessInv'
    <2>1. log' = Append(log, row[i]) /\ stage[i] = "recording"
        BY <1>9 DEF Record
    <2>2. UNCHANGED <<named, created, faults>>
        BY <1>9 DEF Record
    <2>3. \A j \in Instances : Allocating(j)' => Allocating(j)
        BY <1>9 DEF Record, TypeOK, Stages, Allocating
    <2>4. ~ Allocated(row[i]) => last' = last
        BY <1>9 DEF Record
    <2>5. Allocated(row[i]) => last'[i] = row[i].allocated
        BY <1>9 DEF Record, TypeOK
    <2>6. created \leq 1 => \A j \in Instances : Allocating(j) => j = i
        BY <2>1, Alone DEF Running
    <2> QED
        BY <2>1, <2>2, <2>3, <2>4, <2>5, <2>6, FaultlessLog DEF FaultlessInv
<1>10. ASSUME NEW i \in Instances, release(i) /\ UNCHANGED faults
       PROVE  FaultlessInv'
    <2>1. \A j \in Instances : Allocating(j)' => Allocating(j) /\ last'[j] = last[j]
        BY <1>10 DEF release, Gone, Unlocked, TypeOK, Stages, Allocating
    <2>2. UNCHANGED <<log, named, created, faults>>
        BY <1>10 DEF release, Gone, Unlocked
    <2> QED
        BY <2>1, <2>2, FaultlessSame DEF Gone, Unlocked
<1>11. ASSUME NEW i \in Instances, Crash(i) /\ UNCHANGED faults
       PROVE  FaultlessInv'
    <2>1. log' = log \/ (stage[i] = "recording" /\ log' = Append(log, row[i]))
        BY <1>11 DEF Crash, Gone, Unlocked
    <2>2. UNCHANGED <<named, created, faults>>
        BY <1>11 DEF Crash, Gone, Unlocked
    <2>3. \A j \in Instances : Allocating(j)' => j # i /\ Allocating(j) /\ last'[j] = last[j]
        BY <1>11 DEF Crash, Gone, Unlocked, TypeOK, Stages, Allocating
    <2>4. created \leq 1 /\ stage[i] = "recording" => \A j \in Instances : ~ Allocating(j)'
        BY <2>3, Alone DEF Gone, Unlocked, Running
    <2>5. CASE log' = log
        BY <2>2, <2>3, <2>5, FaultlessSame DEF Gone, Unlocked
    <2>6. CASE stage[i] = "recording" /\ log' = Append(log, row[i])
        BY <2>2, <2>4, <2>6, FaultlessLog DEF Gone, Unlocked, FaultlessInv
    <2> QED
        BY <2>1, <2>5, <2>6 DEF Gone, Unlocked
<1>12. CASE Unlink /\ faults < MaxFaults /\ faults' = faults + 1
    <2>1. faults' # 0
        BY ConstantTypes, <1>12 DEF TypeOK
    <2> QED
        BY <2>1 DEF FaultlessInv
<1>13. ASSUME NEW i \in Instances, RecordRaises(i) /\ faults < MaxFaults /\ faults' = faults + 1
       PROVE  FaultlessInv'
    <2>1. faults' # 0
        BY ConstantTypes, <1>13 DEF TypeOK
    <2> QED
        BY <2>1 DEF FaultlessInv
<1>14. CASE UNCHANGED vars
    BY <1>14, FaultlessSame DEF vars, TypeOK, Stages, Allocating
<1> QED
    BY <1>1, <1>2, <1>3, <1>4, <1>5, <1>6, <1>7, <1>8, <1>9, <1>10, <1>11, <1>12,
       <1>13, <1>14 DEF Next, Step, Fault

-----------------------------------------------------------------------------
\* Nothing is on record and no process has the signer.
LEMMA InitInv == Init => IInv
<1> SUFFICES ASSUME Init PROVE IInv
    OBVIOUS
<1> USE ConstantTypes DEF Init
<1>1. TypeOK
    <2>1. faults \in 0 .. MaxFaults /\ created \in 0 .. MaxFiles /\ named \in 0 .. MaxFiles
        OBVIOUS
    <2>2. now \in 1 .. MaxNow
        BY BoundAssumption
    <2> QED
        BY <2>1, <2>2 DEF TypeOK, Stages
<1>2. LockInv /\ RowInv
    BY DEF LockInv, RowInv, Running, Files
<1>3. DOMAIN log = {} /\ DOMAIN issued = {}
    OBVIOUS
<1>4. ~ replay_signer_nonce_conflict
    BY <1>3 DEF replay_signer_nonce_conflict, allocation_after_freeze, chain_break, FreezeRows
<1>5. AscendInv /\ ForkInv /\ FaultlessInv
    BY <1>3, <1>4 DEF AscendInv, ForkInv, FaultlessInv, Ascends, FreezeRows, IsLast
<1> QED
    BY <1>1, <1>2, <1>5 DEF IInv

\* The inductive invariant holds, for any constants that satisfy the assumptions.
THEOREM Invariant == Spec => []IInv
<1>1. IInv /\ [Next]_vars => IInv'
    <2> SUFFICES ASSUME IInv, [Next]_vars PROVE IInv'
        OBVIOUS
    <2>1. TypeOK' /\ LockInv'
        BY TypeStep, LockStep DEF IInv
    <2>2. RowInv' /\ AscendInv' /\ ForkInv' /\ FaultlessInv'
        BY <2>1, RowStep, AscendStep, ForkStep, FaultlessStep DEF IInv
    <2> QED
        BY <2>1, <2>2 DEF IInv
<1> QED
    BY InitInv, <1>1, PTL DEF Spec

\* Every variable keeps its type: no nonce leaves the window (allocate).
THEOREM TypeCorrect == Spec => []TypeOK
<1>1. IInv => TypeOK
    BY DEF IInv
<1> QED
    BY <1>1, Invariant, PTL

\* The nonces of a signer whose lock file stays ascend (allocate), across any
\* number of processes, crashes, failed records and clock changes.
THEOREM NoncesAscendHolds == Spec => []NoncesAscend
<1>1. IInv => NoncesAscend
    BY DEF IInv, AscendInv, Ascends, NoncesAscend
<1> QED
    BY <1>1, Invariant, PTL

\* Whatever happens to the lock file, nonces out of order leave a conflict that
\* replay_signer_nonce_conflict finds.
THEOREM ForkIsDetectedHolds == Spec => []ForkIsDetected
<1>1. ASSUME IInv
      PROVE  ForkIsDetected
    <2>1. \A k \in DOMAIN issued : issued[k] \in Nonces
        BY <1>1 DEF IInv, TypeOK
    <2>2. \A k \in DOMAIN issued : issued[k] \in Nat
        BY <2>1, ConstantTypes
    <2> QED
        BY <1>1, <2>2 DEF IInv, ForkInv, Ascends, ForkIsDetected
<1> QED
    BY <1>1, Invariant, PTL

\* A log that no fault touched has no conflict (replay_signer_nonce_conflict).
THEOREM NoFalseConflictHolds == Spec => []NoFalseConflict
<1>1. IInv => NoFalseConflict
    BY DEF IInv, FaultlessInv, NoFalseConflict
<1> QED
    BY <1>1, Invariant, PTL

\* A freeze on record (replay_freeze_reason) ends a signer whose lock file stays:
\* no later process issues a nonce.
THEOREM FreezeIsFinalHolds == Spec => FreezeIsFinal
<1>1. ASSUME IInv, [Next]_vars, FreezeRows # {}, created \leq 1
      PROVE  issued' = issued
    <2>1. \A i \in Instances : ~ Allocating(i)
        BY <1>1 DEF IInv, AscendInv
    <2>2. ASSUME NEW i \in Instances, Record(i)
          PROVE  issued' = issued
        <3>1. ~ Allocated(row[i])
            BY <1>1, <2>1, <2>2 DEF IInv, RowInv, Allocating, Record
        <3> QED
            BY <2>2, <3>1 DEF Record
    <2> QED
        BY <1>1, <2>2 DEF Next, Step, Fault, SetClock, Open, Fence, FenceRefused,
           NonceAllocator, Allocate, FenceInvalidated, ClockBackward, _freeze, release,
           Crash, Gone, Unlink, RecordRaises, vars
<1>2. IInv /\ [Next]_vars =>
          [FreezeRows # {} /\ created \leq 1 => issued' = issued]_vars
    BY <1>1
<1> QED
    BY <1>2, Invariant, PTL DEF Spec, FreezeIsFinal
=============================================================================
