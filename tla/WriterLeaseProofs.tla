-------------------------- MODULE WriterLeaseProofs --------------------------
(***************************************************************************)
(* Proofs about WriterLease, for any processes, wallets and bounds.        *)
(***************************************************************************)
EXTENDS WriterLease, TLAPS

\* Stages of acquire after the flock was granted, "leaked" included.
Locked == {"flocked", "truncated", "written", "synced", "leaked"}

\* A process past the flock, or with a primary lease, has the flock of the file
\* it has open.
HasLock(i) ==
    /\ stage[i] \in Locked => fd[i] # 0 /\ flocked[fd[i]] = i
    /\ stage[i] = "idle" => fd[i] = 0
    /\ stage[i] \in {"opened", "contended"} => fd[i] # 0 /\ flocked[fd[i]] # i
    /\ mode[i] # "none" <=> stage[i] = "held"
    /\ stage[i] = "held" /\ fd[i] # 0 => flocked[fd[i]] = i
    /\ Primary(i) => fd[i] # 0

\* Nobody else has a flock.
LockInv ==
    /\ \A n \in Files : \A i \in Instances : flocked[n] = i => fd[i] = n
    /\ \A i \in Instances : HasLock(i)

\* What is in flight was authorised by the lease the process still holds.
GrantInv ==
    \A i \in Instances :
        sending[i] # Idle =>
            /\ stage[i] = "held"
            /\ sending[i].action \in Allowed(mode[i])
            /\ mode[i] # "cancel_only" => sending[i].under = fd[i]

Counting == {"truncated", "written", "synced"}

\* What is on record never runs ahead of a lock file's epoch count: readable
\* content of the file, in the page cache or on disk, is at or above every
\* epoch recorded since the count last restarted, and an epoch being acquired
\* is above them all.  The file of a lease in use names that lease.
LeaseOf(i) == [lease_epoch |-> epoch[i], instance_id |-> i]

EpochInv ==
    /\ \A e \in evidence : e.reset \leq resets[e.file]
    /\ \A e \in evidence : e.reset = resets[e.file] =>
          /\ metadata[e.file].lease_epoch = 0 \/ e.epoch \leq metadata[e.file].lease_epoch
          /\ durable[e.file].lease_epoch = 0 \/ e.epoch \leq durable[e.file].lease_epoch
          /\ \A i \in Instances :
                stage[i] \in Counting /\ fd[i] = e.file => e.epoch < epoch[i]
    /\ \A i \in Instances :
          /\ stage[i] \in {"written", "synced"} \/ (stage[i] = "held" /\ fd[i] # 0)
                => metadata[fd[i]] = LeaseOf(i)
          /\ stage[i] = "synced" \/ (stage[i] = "held" /\ fd[i] # 0)
                => durable[fd[i]] = LeaseOf(i)

\* A file that no rewriting was cut short on never loses its count: once an
\* epoch of it is on record the disk has one, a reader finds none only while a
\* holder is between ftruncate and pwrite, and the count has not restarted.
UntornInv ==
    /\ \A i \in Instances :
          stage[i] \in Counting \/ (stage[i] = "held" /\ fd[i] # 0) => epoch[i] # 0
    /\ \A n \in Files \ torn :
          /\ \A e \in evidence : e.file = n =>
                e.reset = resets[n] /\ durable[n].lease_epoch # 0
          /\ metadata[n].lease_epoch = 0 =>
                \/ durable[n].lease_epoch = 0
                \/ \E i \in Instances : fd[i] = n /\ stage[i] = "truncated"

\* Nobody has a lock file open that was not created yet.
FilesInv ==
    /\ named \leq created
    /\ \A i \in Instances : fd[i] \leq created

USE NoOneAssumption, WalletAssumption, ActionsAssumption, BoundAssumption

-----------------------------------------------------------------------------
\* The bound on lock files is a natural number.
LEMMA FileBound == MaxFiles \in Nat
  OBVIOUS

\* The values that steps store have their types.
LEMMA BlankType == Blank \in Metadata
  BY DEF Blank, Metadata

\* What acquire writes into the lock file is lock-file metadata.
LEMMA MetadataType ==
  ASSUME NEW e \in 0 .. MaxEpoch, NEW i \in Instances
  PROVE  [lease_epoch |-> e, instance_id |-> i] \in Metadata
  BY DEF Metadata

\* The epoch acquire computes is within the bound when it is written.
LEMMA NextEpochType ==
  ASSUME TypeOK, NEW n \in Files, NextEpoch(n) \leq MaxEpoch
  PROVE  NextEpoch(n) \in 0 .. MaxEpoch
  BY DEF TypeOK, NextEpoch, Metadata

\* A process with no call under way has a well-typed call.
LEMMA IdleType == Idle \in Sending
  BY DEF Idle, Sending

\* A process that is past os.open and has its lease names an existing file.
LEMMA FileOpen ==
  ASSUME TypeOK, NEW i \in Instances, fd[i] # 0
  PROVE  fd[i] \in Files
  BY DEF TypeOK, Files

\* A decision about a lease (_decision) is a decision row.
LEMMA DecisionType ==
  ASSUME TypeOK, NEW i \in Instances, NEW kind \in Kinds, fd[i] # 0
  PROVE  Decision(i, kind) \in Evidence
  BY FileOpen DEF TypeOK, Decision, Evidence

\* Recording a decision (_record) keeps the log a sequence of rows.
LEMMA RecordType ==
  ASSUME TypeOK, NEW i \in Instances, NEW kind \in Kinds, fd[i] # 0,
         NEW r \in BOOLEAN, _record(i, kind, r)
  PROVE  evidence' \subseteq Evidence
  BY DecisionType DEF TypeOK, _record

\* Closing a descriptor keeps the shape of the lock table.
LEMMA UnlockedType ==
  ASSUME TypeOK, NEW i \in Instances
  PROVE  Unlocked(i) \in [Files -> Instances \cup {NoOne}]
  BY DEF TypeOK, Unlocked

\* Closing the descriptor of a lease keeps the types.
LEMMA DropType ==
  ASSUME TypeOK, NEW i \in Instances, Drop(i)
  PROVE  /\ flocked' \in [Files -> Instances \cup {NoOne}]
         /\ stage' \in [Instances -> Stages]
         /\ fd' \in [Instances -> 0 .. MaxFiles]
         /\ epoch' \in [Instances -> 0 .. MaxEpoch]
         /\ mode' \in [Instances -> Modes]
  BY UnlockedType DEF TypeOK, Drop, Stages, Modes

\* A process that decides something about its lease has a lock file open.
LEMMA DecidesOnFile ==
  ASSUME TypeOK, LockInv, NEW i \in Instances,
         \/ stage[i] \in Locked
         \/ revalidate(i) /\ mode[i] \in PRIMARY_MODES
  PROVE  fd[i] # 0
  BY DEF LockInv, HasLock, Primary, revalidate

\* Tearing the file of a process that is past the flock keeps the types.
LEMMA TornType ==
  ASSUME TypeOK, LockInv, NEW i \in Instances,
         torn' = IF stage[i] = "truncated" THEN torn \cup {fd[i]} ELSE torn
  PROVE  torn' \subseteq Files
<1>1. stage[i] = "truncated" => fd[i] \in Files
  BY FileOpen DEF LockInv, HasLock, Locked
<1> QED
  BY <1>1 DEF TypeOK

\* Every step keeps the types.
LEMMA TypeStep ==
  ASSUME TypeOK, LockInv, [Next]_vars
  PROVE  TypeOK'
<1>1. faults' \in 0 .. MaxFaults
  BY DEF Next, vars, TypeOK
<1>2. TypeOK'
  <2>1. ASSUME NEW i \in Instances, Open(i) PROVE TypeOK'
    <3>1. named' \in 0 .. MaxFiles /\ created' \in 0 .. MaxFiles
      BY <2>1, FileBound DEF Open, TypeOK
    <3>2. fd' \in [Instances -> 0 .. MaxFiles]
      BY <2>1, FileBound DEF Open, TypeOK
    <3> QED
      BY <1>1, <2>1, <3>1, <3>2 DEF Open, TypeOK, Stages
  <2>2. ASSUME NEW i \in Instances, Flock(i) PROVE TypeOK'
    BY <1>1, <2>2, FileOpen DEF Flock, LockInv, HasLock, TypeOK, Stages, Modes, PRIMARY_MODES
  <2>3. ASSUME NEW i \in Instances, FlockRefused(i) PROVE TypeOK'
    BY <1>1, <2>3 DEF FlockRefused, files, TypeOK, Stages, Modes, PRIMARY_MODES
  <2>4. ASSUME NEW i \in Instances, _contended(i) PROVE TypeOK'
    <3>1. fd[i] \in Files
      BY <2>4, FileOpen DEF _contended, LockInv, HasLock
    <3>2. metadata[fd[i]].lease_epoch \in 0 .. MaxEpoch
      BY <3>1 DEF TypeOK, Metadata
    <3>3. epoch' \in [Instances -> 0 .. MaxEpoch]
      BY <2>4, <3>2 DEF _contended, TypeOK
    <3>4. fd' \in [Instances -> 0 .. MaxFiles]
      BY <2>4, FileBound DEF _contended, TypeOK
    <3>5. stage' \in [Instances -> Stages] /\ mode' \in [Instances -> Modes]
      BY <2>4 DEF _contended, TypeOK, Stages, Modes
    <3> QED
      BY <1>1, <2>4, <3>3, <3>4, <3>5 DEF _contended, files, TypeOK
  <2>5. ASSUME NEW i \in Instances, Refuse(i) PROVE TypeOK'
    BY <1>1, <2>5, DropType DEF Refuse, TypeOK, Stages, Modes, PRIMARY_MODES
  <2>6. ASSUME NEW i \in Instances, Truncate(i) PROVE TypeOK'
    BY <1>1, <2>6, BlankType, NextEpochType, FileOpen DEF Truncate, LockInv, HasLock, Locked, TypeOK, Stages, Modes, PRIMARY_MODES
  <2>7. ASSUME NEW i \in Instances, Pwrite(i) PROVE TypeOK'
    BY <1>1, <2>7, MetadataType, FileOpen DEF Pwrite, LockInv, HasLock, Locked, TypeOK, Stages, Modes, PRIMARY_MODES
  <2>8. ASSUME NEW i \in Instances, Fsync(i) PROVE TypeOK'
    BY <1>1, <2>8, FileOpen DEF Fsync, LockInv, HasLock, Locked, TypeOK, Stages, Modes, PRIMARY_MODES
  <2>9. ASSUME NEW i \in Instances, Acquired(i) PROVE TypeOK'
    BY <1>1, <2>9, RecordType, DecidesOnFile DEF Acquired, files, Kinds, Locked, TypeOK, Stages, Modes, PRIMARY_MODES
  <2>10. ASSUME NEW i \in Instances, Invalidate(i) PROVE TypeOK'
    BY <1>1, <2>10, DropType DEF Invalidate, TypeOK, Stages, Modes, PRIMARY_MODES
  <2>11. ASSUME NEW i \in Instances, release(i) PROVE TypeOK'
    BY <1>1, <2>11, DropType DEF release, TypeOK, Stages, Modes, PRIMARY_MODES
  <2>12. ASSUME NEW i \in Instances, NEW action \in Actions, authorize(i, action) PROVE TypeOK'
    BY <1>1, <2>12 DEF authorize, files, leases, Sending, TypeOK, Stages, Modes, PRIMARY_MODES
  <2>13. ASSUME NEW i \in Instances, Transport(i) PROVE TypeOK'
    BY <1>1, <2>13, IdleType DEF Transport, files, leases, TypeOK, Stages, Modes, PRIMARY_MODES
  <2>14. ASSUME NEW i \in Instances, NEW r \in BOOLEAN, elevate_to_risk_increasing(i, r) PROVE TypeOK'
    BY <1>1, <2>14, RecordType, DecidesOnFile DEF elevate_to_risk_increasing, files, Kinds, TypeOK, Stages, Modes, PRIMARY_MODES
  <2>15. ASSUME NEW i \in Instances, NEW r \in BOOLEAN, demote_to_cancel_only(i, r) PROVE TypeOK'
    BY <1>1, <2>15, RecordType, DecidesOnFile DEF demote_to_cancel_only, files, Kinds, TypeOK, Stages, Modes, PRIMARY_MODES
  <2>16. ASSUME NEW i \in Instances, NEW r \in BOOLEAN, demote_to_flatten_only(i, r) PROVE TypeOK'
    BY <1>1, <2>16, RecordType, DecidesOnFile DEF demote_to_flatten_only, files, Kinds, TypeOK, Stages, Modes, PRIMARY_MODES
  <2>17. ASSUME NEW i \in Instances, LeakDescriptor(i) PROVE TypeOK'
    <3>1. torn' \subseteq Files
      BY <2>17, TornType DEF LeakDescriptor
    <3> QED
      BY <1>1, <2>17, <3>1 DEF LeakDescriptor, TypeOK, Stages
  <2>18. ASSUME NEW i \in Instances, AcquireUnrecorded(i) PROVE TypeOK'
    BY <1>1, <2>18, DropType, RecordType, DecidesOnFile DEF AcquireUnrecorded, Kinds, Locked, TypeOK, Stages, Modes, PRIMARY_MODES
  <2>19. ASSUME NEW i \in Instances, Crash(i) PROVE TypeOK'
    <3>1. torn' \subseteq Files
      BY <2>19, TornType DEF Crash
    <3> QED
      BY <1>1, <2>19, <3>1, DropType, IdleType DEF Crash, TypeOK
  <2>20. CASE PowerLoss
    <3>1. torn' \subseteq Files
      BY <2>20 DEF PowerLoss, TypeOK
    <3> QED
      BY <1>1, <2>20, <3>1, IdleType DEF PowerLoss, Files, TypeOK, Stages, Modes
  <2>21. CASE Unlink
    BY <1>1, <2>21 DEF Unlink, leases, TypeOK, Stages, Modes, PRIMARY_MODES
  <2>22. CASE UNCHANGED vars
    BY <1>1, <2>22 DEF vars, TypeOK, Stages, Modes, PRIMARY_MODES
  <2> QED
    BY <2>1, <2>2, <2>3, <2>4, <2>5, <2>6, <2>7, <2>8, <2>9, <2>10, <2>11, <2>12, <2>13, <2>14, <2>15, <2>16, <2>17, <2>18, <2>19, <2>20, <2>21, <2>22
    DEF Next, Acquire, Operate, ChangeMode, Fault
<1> QED
  BY <1>2

\* A step of one process that touches no flock but its own leaves the others'
\* locks in place.
LEMMA LockFrame ==
  ASSUME TypeOK, LockInv, NEW i \in Instances,
         \A j \in Instances \ {i} :
             stage'[j] = stage[j] /\ fd'[j] = fd[j] /\ mode'[j] = mode[j],
         \A n \in Files : \/ flocked'[n] = flocked[n]
                          \/ {flocked[n], flocked'[n]} \subseteq {i, NoOne},
         \A n \in Files : flocked'[n] = i => fd'[i] = n,
         HasLock(i)'
  PROVE  LockInv'
<1>1. \A n \in Files : \A j \in Instances : flocked'[n] = j => fd'[j] = n
  BY DEF LockInv
<1>2. ASSUME NEW j \in Instances \ {i} PROVE HasLock(j)'
  <2>1. fd[j] # 0 => (flocked'[fd[j]] = j <=> flocked[fd[j]] = j)
    BY FileOpen
  <2> QED
    BY <2>1 DEF LockInv, HasLock, Locked, Primary
<1> QED
  BY <1>1, <1>2 DEF LockInv

\* Closing the descriptor takes the process, and nobody else, off the locks.
LEMMA DropLock ==
  ASSUME TypeOK, LockInv, NEW i \in Instances, Drop(i)
  PROVE  LockInv'
<1>1. \A j \in Instances \ {i} :
         stage'[j] = stage[j] /\ fd'[j] = fd[j] /\ mode'[j] = mode[j]
  BY DEF Drop, TypeOK
<1>2. \A n \in Files : \/ flocked'[n] = flocked[n]
                      \/ {flocked[n], flocked'[n]} \subseteq {i, NoOne}
  BY DEF Drop, Unlocked, TypeOK
<1>3. \A n \in Files : flocked'[n] # i
  BY DEF Drop, Unlocked, TypeOK
<1>4. HasLock(i)'
  BY DEF Drop, TypeOK, HasLock, Locked, Primary
<1> QED
  BY <1>1, <1>2, <1>3, <1>4, LockFrame

\* Every step keeps the agreement of flock table, descriptors and stages.
LEMMA LockStep ==
  ASSUME TypeOK, LockInv, [Next]_vars
  PROVE  LockInv'
<1>1. ASSUME NEW i \in Instances, Open(i) PROVE LockInv'
  <2>1. \A j \in Instances \ {i} :
           stage'[j] = stage[j] /\ fd'[j] = fd[j] /\ mode'[j] = mode[j]
    BY <1>1 DEF Open, TypeOK
  <2>2. \A n \in Files : \/ flocked'[n] = flocked[n]
                        \/ {flocked[n], flocked'[n]} \subseteq {i, NoOne}
    BY <1>1, FileBound DEF Open, Files, TypeOK
  <2>3. \A n \in Files : flocked'[n] = i => fd'[i] = n
    BY <1>1 DEF Open, Files, TypeOK, LockInv, HasLock
  <2>4. HasLock(i)'
    BY <1>1, FileBound DEF Open, Files, TypeOK, LockInv, HasLock, Locked, Primary, PRIMARY_MODES
  <2> QED
    BY <2>1, <2>2, <2>3, <2>4, LockFrame
<1>2. ASSUME NEW i \in Instances, Flock(i) PROVE LockInv'
  <2>1. \A j \in Instances \ {i} :
           stage'[j] = stage[j] /\ fd'[j] = fd[j] /\ mode'[j] = mode[j]
    BY <1>2 DEF Flock, TypeOK
  <2>2. \A n \in Files : \/ flocked'[n] = flocked[n]
                        \/ {flocked[n], flocked'[n]} \subseteq {i, NoOne}
    BY <1>2, FileOpen DEF Flock, TypeOK
  <2>3. \A n \in Files : flocked'[n] = i => fd'[i] = n
    BY <1>2, FileOpen DEF Flock, TypeOK, LockInv, HasLock
  <2>4. HasLock(i)'
    BY <1>2, FileOpen DEF Flock, TypeOK, LockInv, HasLock, Locked, Primary, PRIMARY_MODES
  <2> QED
    BY <2>1, <2>2, <2>3, <2>4, LockFrame
<1>3. ASSUME NEW i \in Instances, FlockRefused(i) PROVE LockInv'
  BY <1>3 DEF FlockRefused, files, TypeOK, LockInv, HasLock, Locked, Primary, PRIMARY_MODES
<1>4. ASSUME NEW i \in Instances, _contended(i) PROVE LockInv'
  <2>1. \A j \in Instances \ {i} :
           stage'[j] = stage[j] /\ fd'[j] = fd[j] /\ mode'[j] = mode[j]
    BY <1>4 DEF _contended, TypeOK
  <2>2. \A n \in Files : \/ flocked'[n] = flocked[n]
                        \/ {flocked[n], flocked'[n]} \subseteq {i, NoOne}
    BY <1>4 DEF _contended, files, TypeOK
  <2>3. \A n \in Files : flocked'[n] = i => fd'[i] = n
    BY <1>4 DEF _contended, files, TypeOK, LockInv, HasLock
  <2>4. HasLock(i)'
    BY <1>4 DEF _contended, files, TypeOK, LockInv, HasLock, Locked, Primary, PRIMARY_MODES
  <2> QED
    BY <2>1, <2>2, <2>3, <2>4, LockFrame
<1>5. ASSUME NEW i \in Instances, Refuse(i) PROVE LockInv'
  BY <1>5, DropLock DEF Refuse
<1>6. ASSUME NEW i \in Instances, Truncate(i) PROVE LockInv'
  BY <1>6 DEF Truncate, TypeOK, LockInv, HasLock, Locked, Primary, PRIMARY_MODES
<1>7. ASSUME NEW i \in Instances, Pwrite(i) PROVE LockInv'
  BY <1>7 DEF Pwrite, TypeOK, LockInv, HasLock, Locked, Primary, PRIMARY_MODES
<1>8. ASSUME NEW i \in Instances, Fsync(i) PROVE LockInv'
  BY <1>8 DEF Fsync, TypeOK, LockInv, HasLock, Locked, Primary, PRIMARY_MODES
<1>9. ASSUME NEW i \in Instances, Acquired(i) PROVE LockInv'
  BY <1>9 DEF Acquired, files, TypeOK, LockInv, HasLock, Locked, Primary, PRIMARY_MODES
<1>10. ASSUME NEW i \in Instances, Invalidate(i) PROVE LockInv'
  BY <1>10, DropLock DEF Invalidate
<1>11. ASSUME NEW i \in Instances, release(i) PROVE LockInv'
  BY <1>11, DropLock DEF release
<1>12. ASSUME NEW i \in Instances, NEW action \in Actions, authorize(i, action) PROVE LockInv'
  BY <1>12 DEF authorize, files, leases, TypeOK, LockInv, HasLock, Locked, Primary, PRIMARY_MODES
<1>13. ASSUME NEW i \in Instances, Transport(i) PROVE LockInv'
  BY <1>13 DEF Transport, files, leases, TypeOK, LockInv, HasLock, Locked, Primary, PRIMARY_MODES
<1>14. ASSUME NEW i \in Instances, NEW r \in BOOLEAN, elevate_to_risk_increasing(i, r) PROVE LockInv'
  BY <1>14 DEF elevate_to_risk_increasing, files, revalidate, TypeOK, LockInv, HasLock, Locked, Primary, PRIMARY_MODES
<1>15. ASSUME NEW i \in Instances, NEW r \in BOOLEAN, demote_to_cancel_only(i, r) PROVE LockInv'
  BY <1>15 DEF demote_to_cancel_only, files, revalidate, TypeOK, LockInv, HasLock, Locked, Primary, PRIMARY_MODES
<1>16. ASSUME NEW i \in Instances, NEW r \in BOOLEAN, demote_to_flatten_only(i, r) PROVE LockInv'
  BY <1>16 DEF demote_to_flatten_only, files, revalidate, TypeOK, LockInv, HasLock, Locked, Primary, PRIMARY_MODES
<1>17. ASSUME NEW i \in Instances, LeakDescriptor(i) PROVE LockInv'
  BY <1>17 DEF LeakDescriptor, files, TypeOK, LockInv, HasLock, Locked, Primary, PRIMARY_MODES
<1>18. ASSUME NEW i \in Instances, AcquireUnrecorded(i) PROVE LockInv'
  BY <1>18, DropLock DEF AcquireUnrecorded
<1>19. ASSUME NEW i \in Instances, Crash(i) PROVE LockInv'
  BY <1>19, DropLock DEF Crash
<1>20. CASE PowerLoss
  BY <1>20 DEF PowerLoss, TypeOK, LockInv, HasLock, Locked, Primary, PRIMARY_MODES
<1>21. CASE Unlink
  BY <1>21 DEF Unlink, leases, TypeOK, LockInv, HasLock, Locked, Primary, PRIMARY_MODES
<1>22. CASE UNCHANGED vars
  BY <1>22 DEF vars, TypeOK, LockInv, HasLock, Locked, Primary, PRIMARY_MODES
<1> QED
  BY <1>1, <1>2, <1>3, <1>4, <1>5, <1>6, <1>7, <1>8, <1>9, <1>10, <1>11, <1>12, <1>13, <1>14, <1>15, <1>16, <1>17, <1>18, <1>19, <1>20, <1>21, <1>22
  DEF Next, Acquire, Operate, ChangeMode, Fault

-----------------------------------------------------------------------------
\* Every step keeps the risk grants of one lock file with one process.
LEMMA GrantStep ==
  ASSUME TypeOK, LockInv, GrantInv, [Next]_vars
  PROVE  GrantInv'
\* acquire runs only where nothing is in flight.
<1>1. ASSUME NEW i \in Instances,
             Acquire(i) \/ LeakDescriptor(i) \/ AcquireUnrecorded(i)
      PROVE  GrantInv'
  <2>1. stage[i] # "held" /\ sending' = sending
    BY <1>1 DEF Acquire, Open, Flock, FlockRefused, _contended, Refuse, Truncate, Pwrite,
                Fsync, LeakDescriptor, Acquired, AcquireUnrecorded
  <2>2. \A j \in Instances \ {i} :
           stage'[j] = stage[j] /\ fd'[j] = fd[j] /\ mode'[j] = mode[j]
    BY <1>1 DEF Acquire, Open, Flock, FlockRefused, _contended, Refuse, Truncate, Pwrite,
                Fsync, LeakDescriptor, Acquired, AcquireUnrecorded, Drop, files, TypeOK
  <2> QED
    BY <2>1, <2>2 DEF GrantInv
\* An operation that changes the lease runs only where nothing is in flight.
<1>2. ASSUME NEW i \in Instances, sending[i] = Idle,
             Invalidate(i) \/ release(i) \/ \E r \in BOOLEAN : ChangeMode(i, r)
      PROVE  GrantInv'
  <2>1. sending' = sending
    BY <1>2 DEF Invalidate, release, ChangeMode, elevate_to_risk_increasing,
                demote_to_cancel_only, demote_to_flatten_only
  <2>2. \A j \in Instances \ {i} :
           stage'[j] = stage[j] /\ fd'[j] = fd[j] /\ mode'[j] = mode[j]
    BY <1>2 DEF Invalidate, release, Drop, ChangeMode, elevate_to_risk_increasing,
                demote_to_cancel_only, demote_to_flatten_only, TypeOK
  <2> QED
    BY <1>2, <2>1, <2>2 DEF GrantInv
<1>3. ASSUME NEW i \in Instances, NEW action \in Actions, authorize(i, action)
      PROVE  GrantInv'
  <2>1. /\ stage[i] = "held" /\ mode[i] # "cancel_only" => fd[i] = named
        /\ action \in Allowed(mode[i])
    BY <1>3 DEF authorize, revalidate, _same_inode
  <2>2. stage[i] = "held"
    BY <1>3 DEF authorize, revalidate
  <2> QED
    BY <1>3, <2>1, <2>2 DEF authorize, leases, GrantInv, TypeOK
<1>4. ASSUME NEW i \in Instances, Transport(i) PROVE GrantInv'
  BY <1>4 DEF Transport, leases, GrantInv, TypeOK
<1>5. ASSUME NEW i \in Instances, Crash(i) PROVE GrantInv'
  <2>1. sending' = [sending EXCEPT ![i] = Idle]
    BY <1>5 DEF Crash
  <2>2. \A j \in Instances \ {i} :
           stage'[j] = stage[j] /\ fd'[j] = fd[j] /\ mode'[j] = mode[j]
    BY <1>5 DEF Crash, Drop, TypeOK
  <2> QED
    BY <2>1, <2>2 DEF GrantInv, TypeOK
<1>6. CASE PowerLoss
  BY <1>6 DEF PowerLoss, GrantInv
<1>7. CASE Unlink
  BY <1>7 DEF Unlink, leases, GrantInv
<1>8. CASE UNCHANGED vars
  BY <1>8 DEF vars, GrantInv
<1> QED
  BY <1>1, <1>2, <1>3, <1>4, <1>5, <1>6, <1>7, <1>8
  DEF Next, Operate, Fault, ChangeMode

-----------------------------------------------------------------------------
\* No two processes past the flock have the same file open.
LEMMA OneLockPerFile ==
  ASSUME LockInv, NEW i \in Instances, NEW j \in Instances, fd[i] = fd[j], fd[i] # 0,
         stage[i] \in Locked \cup {"held"}, stage[j] \in Locked \cup {"held"}
  PROVE  i = j
  BY DEF LockInv, HasLock

\* A process past fsync finds its own epoch in its lock file.
LEMMA EpochInFile ==
  ASSUME EpochInv, NEW i \in Instances,
         stage[i] \in {"written", "synced"} \/ (stage[i] = "held" /\ fd[i] # 0)
  PROVE  /\ metadata[fd[i]].lease_epoch = epoch[i]
         /\ stage[i] # "written" => durable[fd[i]].lease_epoch = epoch[i]
<1>1. /\ metadata[fd[i]] = LeaseOf(i)
      /\ stage[i] # "written" => durable[fd[i]] = LeaseOf(i)
  BY DEF EpochInv
<1>2. LeaseOf(i).lease_epoch = epoch[i]
  BY DEF LeaseOf
<1> QED
  BY <1>1, <1>2

\* The epoch count of a file moves only under its lock.
LEMMA CountStep ==
  ASSUME TypeOK, LockInv, EpochInv, NEW i \in Instances, Truncate(i)
  PROVE  EpochInv'
<1> DEFINE n == fd[i]
<1>1. n \in Files /\ stage[i] = "flocked"
  BY FileOpen DEF Truncate, LockInv, HasLock, Locked
<1>2. resets[n] \in Nat /\ metadata[n].lease_epoch \in Nat
  BY <1>1 DEF TypeOK, Metadata
<1>3. \A f \in Files \ {n} : resets'[f] = resets[f] /\ metadata'[f] = metadata[f]
  BY DEF Truncate, TypeOK
<1>4. /\ metadata'[n].lease_epoch = 0
      /\ resets'[n] = IF metadata[n].lease_epoch = 0 THEN resets[n] + 1 ELSE resets[n]
  BY <1>1 DEF Truncate, TypeOK, Blank
<1>5. /\ evidence' = evidence /\ durable' = durable /\ fd' = fd
      /\ stage' = [stage EXCEPT ![i] = "truncated"]
      /\ epoch' = [epoch EXCEPT ![i] = metadata[n].lease_epoch + 1]
  BY DEF Truncate, NextEpoch
<1>6. \A j \in Instances \ {i} :
         stage'[j] = stage[j] /\ epoch'[j] = epoch[j]
  BY <1>5 DEF TypeOK
<1>7. \A j \in Instances \ {i} : stage[j] \in Locked \cup {"held"} => fd[j] # n
  BY <1>1, OneLockPerFile DEF Truncate, LockInv, HasLock, Locked
<1>8. \A e \in evidence : e.file \in Files /\ e.reset \in Nat /\ e.epoch \in Nat
  BY DEF TypeOK, Evidence
<1>9. \A e \in evidence' : e.reset \leq resets'[e.file]
  BY <1>2, <1>3, <1>4, <1>5, <1>8 DEF EpochInv
<1>10. ASSUME NEW e \in evidence, e.reset = resets'[e.file]
       PROVE  /\ metadata'[e.file].lease_epoch = 0 \/ e.epoch \leq metadata'[e.file].lease_epoch
              /\ durable'[e.file].lease_epoch = 0 \/ e.epoch \leq durable'[e.file].lease_epoch
              /\ \A j \in Instances :
                    stage'[j] \in Counting /\ fd'[j] = e.file => e.epoch < epoch'[j]
  <2>1. CASE e.file = n
    <3>1. metadata[n].lease_epoch # 0 /\ e.reset = resets[n]
      BY <1>2, <1>4, <1>8, <1>10, <2>1 DEF EpochInv
    <3>2. e.epoch < metadata[n].lease_epoch + 1
      BY <1>2, <1>8, <2>1, <3>1 DEF EpochInv
    <3>3. epoch'[i] = metadata[n].lease_epoch + 1
      BY <1>5 DEF TypeOK
    <3> QED
      BY <1>4, <1>5, <1>6, <1>7, <2>1, <3>1, <3>2, <3>3 DEF EpochInv, Counting, Locked
  <2>2. CASE e.file # n
    BY <1>3, <1>5, <1>6, <1>8, <1>10, <2>2 DEF EpochInv, Counting
  <2> QED
    BY <2>1, <2>2
<1>11. ASSUME NEW j \in Instances
       PROVE  /\ stage'[j] \in {"written", "synced"} \/ (stage'[j] = "held" /\ fd'[j] # 0)
                    => metadata'[fd'[j]] = LeaseOf(j)'
              /\ stage'[j] = "synced" \/ (stage'[j] = "held" /\ fd'[j] # 0)
                    => durable'[fd'[j]] = LeaseOf(j)'
  <2>1. CASE j = i
    BY <1>5, <2>1 DEF TypeOK
  <2>2. CASE j # i
    BY <1>3, <1>5, <1>6, <1>7, <2>2, FileOpen DEF EpochInv, LeaseOf, Locked, LockInv, HasLock
  <2> QED
    BY <2>1, <2>2
<1> QED
  BY <1>5, <1>9, <1>10, <1>11 DEF EpochInv

\* Steps that record and write nothing: each process keeps its epoch or is no
\* longer in a stage the invariant speaks of.
LEMMA EpochFrame ==
  ASSUME EpochInv, UNCHANGED <<metadata, durable, resets, evidence>>,
         \A j \in Instances :
            \/ stage'[j] = stage[j] /\ fd'[j] = fd[j] /\ epoch'[j] = epoch[j]
            \/ stage'[j] \notin Counting /\ (stage'[j] = "held" => fd'[j] = 0)
  PROVE  EpochInv'
  BY DEF EpochInv, Counting, LeaseOf

\* Steps that may record a decision of a lease whose epoch the file holds.
LEMMA EpochRecord ==
  ASSUME TypeOK, LockInv, EpochInv, NEW i \in Instances, NEW kind, NEW r \in BOOLEAN,
         stage[i] = "synced" \/ (stage[i] = "held" /\ fd[i] # 0),
         _record(i, kind, r), UNCHANGED <<metadata, durable, resets>>,
         \A j \in Instances \ {i} :
            stage'[j] = stage[j] /\ fd'[j] = fd[j] /\ epoch'[j] = epoch[j],
         \/ stage'[i] = "held" /\ fd'[i] = fd[i] /\ epoch'[i] = epoch[i]
         \/ stage'[i] = "idle"
  PROVE  EpochInv'
<1>1. fd[i] \in Files /\ fd[i] # 0
  BY FileOpen DEF LockInv, HasLock, Locked
<1>2. \A j \in Instances \ {i} : stage[j] \in Locked \cup {"held"} => fd[j] # fd[i]
  BY <1>1, OneLockPerFile DEF Locked
<1>3. epoch[i] \in Nat /\ resets[fd[i]] \in Nat
  BY <1>1 DEF TypeOK
<1>4. \A e \in evidence' : e \in evidence \/ e = Decision(i, kind)
  BY DEF _record
<1>5. /\ Decision(i, kind).reset = resets[fd[i]]
      /\ Decision(i, kind).file = fd[i]
      /\ Decision(i, kind).epoch = epoch[i]
  BY DEF Decision
<1>6. metadata[fd[i]].lease_epoch = epoch[i] /\ durable[fd[i]].lease_epoch = epoch[i]
  BY <1>1, EpochInFile
<1>7. \A j \in Instances : stage'[j] \in Counting => j # i
  BY DEF Counting
<1>8. \A e \in evidence' : e.reset \leq resets'[e.file]
  BY <1>3, <1>4, <1>5 DEF EpochInv
<1>9. ASSUME NEW e \in evidence', e.reset = resets'[e.file]
      PROVE  /\ metadata'[e.file].lease_epoch = 0 \/ e.epoch \leq metadata'[e.file].lease_epoch
             /\ durable'[e.file].lease_epoch = 0 \/ e.epoch \leq durable'[e.file].lease_epoch
             /\ \A j \in Instances :
                   stage'[j] \in Counting /\ fd'[j] = e.file => e.epoch < epoch'[j]
  <2>1. CASE e \in evidence
    BY <1>7, <1>9, <2>1 DEF EpochInv
  <2>2. CASE e = Decision(i, kind)
    <3>1. e.file = fd[i] /\ e.epoch = epoch[i]
      BY <1>5, <2>2
    <3>2. \A j \in Instances : stage'[j] \in Counting => fd'[j] # fd[i]
      BY <1>2, <1>7 DEF Counting, Locked
    <3> QED
      BY <1>3, <1>6, <3>1, <3>2
  <2> QED
    BY <1>4, <2>1, <2>2
<1>10. ASSUME NEW j \in Instances
       PROVE  /\ stage'[j] \in {"written", "synced"} \/ (stage'[j] = "held" /\ fd'[j] # 0)
                    => metadata'[fd'[j]] = LeaseOf(j)'
              /\ stage'[j] = "synced" \/ (stage'[j] = "held" /\ fd'[j] # 0)
                    => durable'[fd'[j]] = LeaseOf(j)'
  BY <1>6 DEF EpochInv, LeaseOf
<1> QED
  BY <1>8, <1>9, <1>10 DEF EpochInv

\* Every step keeps the epochs on record below the epoch to be recorded.
LEMMA EpochStep ==
  ASSUME TypeOK, LockInv, EpochInv, [Next]_vars
  PROVE  EpochInv'
<1>1. ASSUME NEW i \in Instances,
             \/ Open(i) \/ Flock(i) \/ FlockRefused(i) \/ _contended(i) \/ Refuse(i)
             \/ LeakDescriptor(i) \/ Invalidate(i) \/ release(i) \/ Crash(i)
      PROVE  EpochInv'
  <2>1. UNCHANGED <<metadata, durable, resets, evidence>>
    BY <1>1 DEF Open, Flock, FlockRefused, _contended, Refuse, LeakDescriptor, Invalidate,
                release, Crash, files
  <2>2. \A j \in Instances \ {i} :
           stage'[j] = stage[j] /\ fd'[j] = fd[j] /\ epoch'[j] = epoch[j]
    BY <1>1 DEF Open, Flock, FlockRefused, _contended, Refuse, LeakDescriptor, Invalidate,
                release, Crash, files, Drop, TypeOK
  <2>3. stage'[i] \notin Counting /\ (stage'[i] = "held" => fd'[i] = 0)
    BY <1>1 DEF Open, Flock, FlockRefused, _contended, Refuse, LeakDescriptor, Invalidate,
                release, Crash, files, Drop, TypeOK, Counting
  <2> QED
    BY <2>1, <2>2, <2>3, EpochFrame
<1>2. ASSUME NEW i \in Instances, Truncate(i) PROVE EpochInv'
  BY <1>2, CountStep
<1>3. ASSUME NEW i \in Instances, Pwrite(i) PROVE EpochInv'
  <2>1. fd[i] \in Files /\ fd[i] # 0 /\ stage[i] = "truncated"
    BY <1>3, FileOpen DEF Pwrite, LockInv, HasLock, Locked
  <2>2. \A j \in Instances \ {i} : stage[j] \in Locked \cup {"held"} => fd[j] # fd[i]
    BY <2>1, OneLockPerFile DEF Locked
  <2>3. metadata'[fd[i]] = LeaseOf(i) /\ metadata'[fd[i]].lease_epoch = epoch[i]
    BY <1>3, <2>1 DEF Pwrite, TypeOK, LeaseOf
  <2>4. \A f \in Files \ {fd[i]} : metadata'[f] = metadata[f]
    BY <1>3 DEF Pwrite, TypeOK
  <2>5. UNCHANGED <<durable, resets, fd, epoch, evidence>> /\ stage'[i] = "written"
    BY <1>3 DEF Pwrite, TypeOK
  <2>6. \A j \in Instances \ {i} : stage'[j] = stage[j]
    BY <1>3 DEF Pwrite, TypeOK
  <2>7. \A e \in evidence : e.file \in Files /\ e.epoch \in Nat
    BY DEF TypeOK, Evidence
  <2>8. epoch[i] \in Nat
    BY DEF TypeOK
  <2>9. \A e \in evidence : e.reset = resets[e.file] =>
           /\ metadata'[e.file].lease_epoch = 0 \/ e.epoch \leq metadata'[e.file].lease_epoch
           /\ \A j \in Instances :
                 stage'[j] \in Counting /\ fd[j] = e.file => e.epoch < epoch[j]
    BY <2>1, <2>3, <2>4, <2>6, <2>7, <2>8 DEF EpochInv, Counting
  <2>10. ASSUME NEW j \in Instances \ {i},
                stage[j] \in {"written", "synced"} \/ (stage[j] = "held" /\ fd[j] # 0)
         PROVE  metadata'[fd[j]] = metadata[fd[j]]
    BY <2>2, <2>4, <2>10, FileOpen DEF LockInv, HasLock, Locked
  <2> QED
    BY <2>3, <2>5, <2>6, <2>9, <2>10 DEF EpochInv, LeaseOf
<1>4. ASSUME NEW i \in Instances, Fsync(i) PROVE EpochInv'
  <2>1. fd[i] \in Files /\ fd[i] # 0 /\ stage[i] = "written"
    BY <1>4, FileOpen DEF Fsync, LockInv, HasLock, Locked
  <2>2. durable'[fd[i]] = metadata[fd[i]] /\ stage'[i] = "synced"
    BY <1>4, <2>1 DEF Fsync, TypeOK
  <2>3. \A f \in Files \ {fd[i]} : durable'[f] = durable[f]
    BY <1>4 DEF Fsync, TypeOK
  <2>4. \A j \in Instances \ {i} : stage'[j] = stage[j]
    BY <1>4 DEF Fsync, TypeOK
  <2>5. UNCHANGED <<metadata, resets, fd, epoch, evidence>>
    BY <1>4 DEF Fsync
  <2>6. \A e \in evidence : e.file \in Files
    BY DEF TypeOK, Evidence
  <2>7. \A j \in Instances \ {i} : stage[j] \in Locked \cup {"held"} => fd[j] # fd[i]
    BY <2>1, OneLockPerFile DEF Locked
  <2>8. ASSUME NEW j \in Instances \ {i}, stage[j] = "synced" \/ (stage[j] = "held" /\ fd[j] # 0)
        PROVE  durable'[fd[j]] = durable[fd[j]]
    BY <2>3, <2>7, <2>8, FileOpen DEF LockInv, HasLock, Locked
  <2>9. \A e \in evidence : e.reset = resets[e.file] =>
           durable'[e.file].lease_epoch = 0 \/ e.epoch \leq durable'[e.file].lease_epoch
    BY <2>2, <2>3, <2>6 DEF EpochInv
  <2> QED
    BY <2>1, <2>2, <2>4, <2>5, <2>8, <2>9 DEF EpochInv, Counting, LeaseOf
<1>5. ASSUME NEW i \in Instances, Acquired(i) \/ AcquireUnrecorded(i) PROVE EpochInv'
  <2>1. /\ stage[i] = "synced" /\ UNCHANGED <<metadata, durable, resets>>
        /\ \E r \in BOOLEAN : _record(i, "acquire", r)
    BY <1>5 DEF Acquired, AcquireUnrecorded, files
  <2>2. \A j \in Instances \ {i} :
           stage'[j] = stage[j] /\ fd'[j] = fd[j] /\ epoch'[j] = epoch[j]
    BY <1>5 DEF Acquired, AcquireUnrecorded, Drop, TypeOK
  <2>3. \/ stage'[i] = "held" /\ fd'[i] = fd[i] /\ epoch'[i] = epoch[i]
        \/ stage'[i] = "idle"
    BY <1>5 DEF Acquired, AcquireUnrecorded, Drop, TypeOK
  <2> QED
    BY <2>1, <2>2, <2>3, EpochRecord
<1>6. ASSUME NEW i \in Instances, NEW r \in BOOLEAN, ChangeMode(i, r) PROVE EpochInv'
  <2>1. \E kind \in Kinds : _record(i, kind, r)
    BY <1>6 DEF ChangeMode, elevate_to_risk_increasing, demote_to_cancel_only,
                demote_to_flatten_only, Kinds
  <2>2. stage[i] = "held" /\ UNCHANGED <<metadata, durable, resets, stage, fd, epoch>>
    BY <1>6 DEF ChangeMode, elevate_to_risk_increasing, demote_to_cancel_only,
                demote_to_flatten_only, files, revalidate
  <2>3. fd[i] # 0
    BY <1>6, DecidesOnFile DEF ChangeMode, elevate_to_risk_increasing,
                demote_to_cancel_only, demote_to_flatten_only, PRIMARY_MODES
  <2> QED
    BY <2>1, <2>2, <2>3, EpochRecord
<1>7. ASSUME NEW i \in Instances,
             Transport(i) \/ \E action \in Actions : authorize(i, action)
      PROVE  EpochInv'
  BY <1>7, EpochFrame DEF Transport, authorize, files, leases
<1>8. CASE PowerLoss
  <2>1. UNCHANGED <<resets, evidence>> /\ \A i \in Instances : stage'[i] = "idle"
    BY <1>8 DEF PowerLoss
  <2>2. \A n \in Files :
           /\ \/ metadata'[n] \in {durable[n], metadata[n]}
              \/ metadata'[n].lease_epoch = 0
           /\ durable'[n] = metadata'[n]
    BY <1>8 DEF PowerLoss, Blank
  <2>3. \A e \in evidence : e.file \in Files
    BY DEF TypeOK, Evidence
  <2> QED
    BY <2>1, <2>2, <2>3 DEF EpochInv, Counting
<1>9. CASE Unlink
  BY <1>9, EpochFrame DEF Unlink, leases
<1>10. CASE UNCHANGED vars
  BY <1>10, EpochFrame DEF vars
<1> QED
  BY <1>1, <1>2, <1>3, <1>4, <1>5, <1>6, <1>7, <1>8, <1>9, <1>10
  DEF Next, Acquire, Operate, Fault, ChangeMode

\* Truncating an untorn file goes on from the count it holds.
LEMMA UntornTruncate ==
  ASSUME TypeOK, LockInv, UntornInv, NEW i \in Instances, Truncate(i)
  PROVE  UntornInv'
<1> DEFINE n == fd[i]
<1>1. n \in Files /\ n # 0 /\ stage[i] = "flocked"
  BY FileOpen DEF Truncate, LockInv, HasLock, Locked
<1>2. /\ UNCHANGED <<evidence, durable, fd, torn>>
      /\ stage' = [stage EXCEPT ![i] = "truncated"]
      /\ epoch' = [epoch EXCEPT ![i] = metadata[n].lease_epoch + 1]
  BY DEF Truncate, NextEpoch
<1>3. \A f \in Files \ {n} : resets'[f] = resets[f] /\ metadata'[f] = metadata[f]
  BY DEF Truncate, TypeOK
<1>4. ASSUME NEW j \in Instances, fd[j] = n, stage[j] = "truncated" PROVE FALSE
  BY <1>1, <1>4, OneLockPerFile DEF Locked
<1>5. metadata[n].lease_epoch + 1 # 0
  BY <1>1 DEF TypeOK, Metadata
<1>6. \A j \in Instances :
         stage'[j] \in Counting \/ (stage'[j] = "held" /\ fd'[j] # 0) => epoch'[j] # 0
  BY <1>2, <1>5 DEF UntornInv, Counting, TypeOK
<1>7. ASSUME n \notin torn, NEW e \in evidence, e.file = n
      PROVE  e.reset = resets'[n] /\ durable[n].lease_epoch # 0
  <2>1. e.reset = resets[n] /\ durable[n].lease_epoch # 0
    BY <1>1, <1>7 DEF UntornInv
  <2>2. metadata[n].lease_epoch # 0
    BY <1>1, <1>4, <1>7, <2>1 DEF UntornInv
  <2> QED
    BY <1>1, <2>1, <2>2 DEF Truncate, TypeOK
<1>8. fd'[i] = n /\ stage'[i] = "truncated"
  BY <1>1, <1>2 DEF TypeOK
<1>9. ASSUME NEW f \in Files \ torn
      PROVE  /\ \A e \in evidence : e.file = f =>
                   e.reset = resets'[f] /\ durable[f].lease_epoch # 0
             /\ metadata'[f].lease_epoch = 0 =>
                   \/ durable[f].lease_epoch = 0
                   \/ \E j \in Instances : fd'[j] = f /\ stage'[j] = "truncated"
  <2>1. CASE f = n
    BY <1>7, <1>8, <2>1
  <2>2. CASE f # n
    <3>1. ASSUME NEW j \in Instances, fd[j] = f, stage[j] = "truncated"
          PROVE  fd'[j] = f /\ stage'[j] = "truncated"
      BY <1>2, <2>2, <3>1 DEF TypeOK
    <3> QED
      BY <1>3, <2>2, <3>1 DEF UntornInv
  <2> QED
    BY <2>1, <2>2
<1> QED
  BY <1>2, <1>6, <1>9 DEF UntornInv

\* Writing the content that was truncated gives the file its count back.
LEMMA UntornWrite ==
  ASSUME TypeOK, LockInv, EpochInv, UntornInv, NEW i \in Instances, Pwrite(i) \/ Fsync(i)
  PROVE  UntornInv'
<1> DEFINE n == fd[i]
<1>1. /\ n \in Files /\ n # 0 /\ stage[i] \in {"truncated", "written"}
      /\ epoch[i] # 0
  BY FileOpen DEF Pwrite, Fsync, LockInv, HasLock, Locked, UntornInv, Counting
<1>2. UNCHANGED <<evidence, resets, fd, epoch, torn>>
  BY DEF Pwrite, Fsync
<1>3. stage'[i] # "truncated" /\ \A j \in Instances \ {i} : stage'[j] = stage[j]
  BY DEF Pwrite, Fsync, TypeOK
<1>4. metadata'[n].lease_epoch # 0
  BY <1>1, EpochInFile DEF Pwrite, Fsync, TypeOK
<1>5. durable'[n].lease_epoch # 0 \/ durable'[n] = durable[n]
  BY <1>1, EpochInFile DEF Pwrite, Fsync, TypeOK
<1>6. \A f \in Files \ {n} : metadata'[f] = metadata[f] /\ durable'[f] = durable[f]
  BY DEF Pwrite, Fsync, TypeOK
<1>7. \A j \in Instances :
         stage'[j] \in Counting \/ (stage'[j] = "held" /\ fd'[j] # 0) => epoch'[j] # 0
  BY <1>1, <1>2, <1>3 DEF UntornInv
<1>8. ASSUME NEW f \in Files \ torn
      PROVE  /\ \A e \in evidence : e.file = f =>
                   e.reset = resets[f] /\ durable'[f].lease_epoch # 0
             /\ metadata'[f].lease_epoch = 0 =>
                   \/ durable'[f].lease_epoch = 0
                   \/ \E j \in Instances : fd'[j] = f /\ stage'[j] = "truncated"
  <2>1. CASE f = n
    BY <1>4, <1>5, <2>1 DEF UntornInv
  <2>2. CASE f # n
    BY <1>2, <1>3, <1>6, <2>2 DEF UntornInv
  <2> QED
    BY <2>1, <2>2
<1> QED
  BY <1>2, <1>7, <1>8 DEF UntornInv

\* A recorded decision names the present count of a file that has one on disk.
LEMMA UntornRecord ==
  ASSUME TypeOK, LockInv, EpochInv, UntornInv, NEW i \in Instances, NEW kind, NEW r \in BOOLEAN,
         stage[i] = "synced" \/ (stage[i] = "held" /\ fd[i] # 0),
         _record(i, kind, r), UNCHANGED <<metadata, durable, resets, torn>>,
         \A j \in Instances \ {i} :
            stage'[j] = stage[j] /\ fd'[j] = fd[j] /\ epoch'[j] = epoch[j],
         \/ stage'[i] = "held" /\ fd'[i] = fd[i] /\ epoch'[i] = epoch[i]
         \/ stage'[i] = "idle"
  PROVE  UntornInv'
<1>1. fd[i] \in Files /\ fd[i] # 0
  BY FileOpen DEF LockInv, HasLock, Locked
<1>2. epoch[i] # 0 /\ durable[fd[i]].lease_epoch = epoch[i]
  BY <1>1, EpochInFile DEF UntornInv, Counting
<1>3. \A e \in evidence' : \/ e \in evidence
                           \/ e.file = fd[i] /\ e.reset = resets[fd[i]]
  BY DEF _record, Decision
<1>4. \A j \in Instances :
         stage'[j] \in Counting \/ (stage'[j] = "held" /\ fd'[j] # 0) => epoch'[j] # 0
  BY <1>1, <1>2 DEF UntornInv, Counting
<1>5. \A j \in Instances : stage[j] = "truncated" => stage'[j] = "truncated" /\ fd'[j] = fd[j]
  OBVIOUS
<1>6. ASSUME NEW f \in Files \ torn
      PROVE  /\ \A e \in evidence' : e.file = f =>
                   e.reset = resets[f] /\ durable[f].lease_epoch # 0
             /\ metadata[f].lease_epoch = 0 =>
                   \/ durable[f].lease_epoch = 0
                   \/ \E j \in Instances : fd'[j] = f /\ stage'[j] = "truncated"
  BY <1>2, <1>3, <1>5 DEF UntornInv
<1> QED
  BY <1>4, <1>6 DEF UntornInv

\* Steps that record and write nothing, where a process that leaves a truncated
\* file behind tears it.
LEMMA UntornFrame ==
  ASSUME UntornInv, UNCHANGED <<metadata, durable, resets, evidence>>, torn \subseteq torn',
         \A j \in Instances :
            \/ stage'[j] = stage[j] /\ fd'[j] = fd[j] /\ epoch'[j] = epoch[j]
            \/ /\ stage'[j] \notin Counting /\ (stage'[j] = "held" => fd'[j] = 0)
               /\ stage[j] = "truncated" => fd[j] \in torn'
  PROVE  UntornInv'
<1>1. \A j \in Instances :
         stage'[j] \in Counting \/ (stage'[j] = "held" /\ fd'[j] # 0) => epoch'[j] # 0
  BY DEF UntornInv
<1>2. ASSUME NEW f \in Files \ torn'
      PROVE  /\ \A e \in evidence : e.file = f =>
                   e.reset = resets[f] /\ durable[f].lease_epoch # 0
             /\ metadata[f].lease_epoch = 0 =>
                   \/ durable[f].lease_epoch = 0
                   \/ \E j \in Instances : fd'[j] = f /\ stage'[j] = "truncated"
  BY DEF UntornInv
<1> QED
  BY <1>1, <1>2 DEF UntornInv

\* Every step keeps the count of an untorn file.
LEMMA UntornStep ==
  ASSUME TypeOK, LockInv, EpochInv, UntornInv, [Next]_vars
  PROVE  UntornInv'
<1>1. ASSUME NEW i \in Instances,
             \/ Open(i) \/ Flock(i) \/ FlockRefused(i) \/ _contended(i) \/ Refuse(i)
             \/ Invalidate(i) \/ release(i)
      PROVE  UntornInv'
  <2>1. UNCHANGED <<metadata, durable, resets, torn, evidence>> /\ stage[i] # "truncated"
    BY <1>1 DEF Open, Flock, FlockRefused, _contended, Refuse, Invalidate, release, files
  <2>2. \A j \in Instances \ {i} :
           stage'[j] = stage[j] /\ fd'[j] = fd[j] /\ epoch'[j] = epoch[j]
    BY <1>1 DEF Open, Flock, FlockRefused, _contended, Refuse, Invalidate, release, files,
                Drop, TypeOK
  <2>3. stage'[i] \notin Counting /\ (stage'[i] = "held" => fd'[i] = 0)
    BY <1>1 DEF Open, Flock, FlockRefused, _contended, Refuse, Invalidate, release, files,
                Drop, TypeOK, Counting
  <2> QED
    BY <2>1, <2>2, <2>3, UntornFrame
<1>2. ASSUME NEW i \in Instances, LeakDescriptor(i) \/ Crash(i) PROVE UntornInv'
  <2>1. /\ UNCHANGED <<metadata, durable, resets, evidence>> /\ torn \subseteq torn'
        /\ stage[i] = "truncated" => fd[i] \in torn'
    BY <1>2 DEF LeakDescriptor, Crash
  <2>2. \A j \in Instances \ {i} :
           stage'[j] = stage[j] /\ fd'[j] = fd[j] /\ epoch'[j] = epoch[j]
    BY <1>2 DEF LeakDescriptor, Crash, Drop, TypeOK
  <2>3. stage'[i] \notin Counting /\ stage'[i] # "held"
    BY <1>2 DEF LeakDescriptor, Crash, Drop, TypeOK, Counting
  <2> QED
    BY <2>1, <2>2, <2>3, UntornFrame
<1>3. ASSUME NEW i \in Instances, Truncate(i) PROVE UntornInv'
  BY <1>3, UntornTruncate
<1>4. ASSUME NEW i \in Instances, Pwrite(i) \/ Fsync(i) PROVE UntornInv'
  BY <1>4, UntornWrite
<1>5. ASSUME NEW i \in Instances, Acquired(i) \/ AcquireUnrecorded(i) PROVE UntornInv'
  <2>1. /\ stage[i] = "synced" /\ UNCHANGED <<metadata, durable, resets, torn>>
        /\ \E r \in BOOLEAN : _record(i, "acquire", r)
    BY <1>5 DEF Acquired, AcquireUnrecorded, files
  <2>2. \A j \in Instances \ {i} :
           stage'[j] = stage[j] /\ fd'[j] = fd[j] /\ epoch'[j] = epoch[j]
    BY <1>5 DEF Acquired, AcquireUnrecorded, Drop, TypeOK
  <2>3. \/ stage'[i] = "held" /\ fd'[i] = fd[i] /\ epoch'[i] = epoch[i]
        \/ stage'[i] = "idle"
    BY <1>5 DEF Acquired, AcquireUnrecorded, Drop, TypeOK
  <2> QED
    BY <2>1, <2>2, <2>3, UntornRecord
<1>6. ASSUME NEW i \in Instances, NEW r \in BOOLEAN, ChangeMode(i, r) PROVE UntornInv'
  <2>1. \E kind \in Kinds : _record(i, kind, r)
    BY <1>6 DEF ChangeMode, elevate_to_risk_increasing, demote_to_cancel_only,
                demote_to_flatten_only, Kinds
  <2>2. stage[i] = "held" /\ UNCHANGED <<metadata, durable, resets, torn, stage, fd, epoch>>
    BY <1>6 DEF ChangeMode, elevate_to_risk_increasing, demote_to_cancel_only,
                demote_to_flatten_only, files, revalidate
  <2>3. fd[i] # 0
    BY <1>6, DecidesOnFile DEF ChangeMode, elevate_to_risk_increasing,
                demote_to_cancel_only, demote_to_flatten_only, PRIMARY_MODES
  <2> QED
    BY <2>1, <2>2, <2>3, UntornRecord
<1>7. ASSUME NEW i \in Instances,
             Transport(i) \/ \E action \in Actions : authorize(i, action)
      PROVE  UntornInv'
  BY <1>7, UntornFrame DEF Transport, authorize, files, leases
<1>8. CASE PowerLoss
  <2>1. UNCHANGED <<resets, evidence>> /\ \A i \in Instances : stage'[i] = "idle"
    BY <1>8 DEF PowerLoss
  <2>2. \A n \in Files :
           /\ metadata'[n] \in {durable[n], metadata[n], Blank}
           /\ durable'[n] = metadata'[n]
    BY <1>8 DEF PowerLoss
  <2>3. ASSUME NEW n \in Files, n \notin torn'
        PROVE  /\ n \notin torn
               /\ durable'[n].lease_epoch = 0 => durable[n].lease_epoch = 0
    BY <1>8, <2>3 DEF PowerLoss
  <2> QED
    BY <2>1, <2>2, <2>3 DEF UntornInv, Counting
<1>9. CASE Unlink
  BY <1>9, UntornFrame DEF Unlink, leases
<1>10. CASE UNCHANGED vars
  BY <1>10, UntornFrame DEF vars
<1> QED
  BY <1>1, <1>2, <1>3, <1>4, <1>5, <1>6, <1>7, <1>8, <1>9, <1>10
  DEF Next, Acquire, Operate, Fault, ChangeMode

-----------------------------------------------------------------------------
Modifies(i) == \E r \in BOOLEAN : ChangeMode(i, r)

\* What one step can do to a lease that has a lock file after it: the lease is
\* new, or changes its mode, or is left alone; its epoch count stays.
LEMMA HeldStep ==
  ASSUME TypeOK, LockInv, [Next]_vars, NEW i \in Instances,
         stage'[i] = "held", fd'[i] # 0
  PROVE  /\ fd'[i] = fd[i] /\ epoch'[i] = epoch[i] /\ resets'[fd[i]] = resets[fd[i]]
         /\ \/ Acquired(i)
            \/ stage[i] = "held" /\ Modifies(i)
            \/ stage[i] = "held" /\ mode'[i] = mode[i]
<1>1. ASSUME NEW j \in Instances, Acquire(j) \/ LeakDescriptor(j) \/ AcquireUnrecorded(j)
      PROVE  /\ fd'[i] = fd[i] /\ epoch'[i] = epoch[i]
             /\ \/ Acquired(i)
                \/ stage[i] = "held" /\ mode'[i] = mode[i]
  BY <1>1 DEF Acquire, Open, Flock, FlockRefused, _contended, Refuse, Truncate, Pwrite,
              Fsync, Acquired, LeakDescriptor, AcquireUnrecorded, Drop, files, TypeOK
<1>2. ASSUME NEW j \in Instances, Invalidate(j) \/ release(j) \/ Crash(j)
      PROVE  /\ fd'[i] = fd[i] /\ epoch'[i] = epoch[i]
             /\ stage[i] = "held" /\ mode'[i] = mode[i]
  BY <1>2 DEF Invalidate, release, Crash, Drop, TypeOK
<1>3. ASSUME NEW j \in Instances, Modifies(j)
      PROVE  /\ fd'[i] = fd[i] /\ epoch'[i] = epoch[i] /\ stage[i] = "held"
             /\ Modifies(i) \/ mode'[i] = mode[i]
  BY <1>3 DEF Modifies, ChangeMode, elevate_to_risk_increasing, demote_to_cancel_only,
              demote_to_flatten_only, TypeOK
<1>4. ASSUME \/ \E j \in Instances : Transport(j) \/ \E a \in Actions : authorize(j, a)
             \/ Unlink
             \/ UNCHANGED vars
      PROVE  UNCHANGED <<stage, fd, epoch, mode, resets>>
  BY <1>4 DEF Transport, authorize, Unlink, files, leases, vars
<1>5. ~ PowerLoss
  BY DEF PowerLoss
<1>6. /\ fd'[i] = fd[i] /\ epoch'[i] = epoch[i]
      /\ \/ Acquired(i)
         \/ stage[i] = "held" /\ Modifies(i)
         \/ stage[i] = "held" /\ mode'[i] = mode[i]
  BY <1>1, <1>2, <1>3, <1>4, <1>5 DEF Next, Operate, Fault, Modifies
<1>7. stage[i] \in Locked \cup {"held"} /\ fd[i] # 0
  BY <1>6 DEF Acquired, Locked
<1>8. resets'[fd[i]] = resets[fd[i]]
  <2>1. ASSUME NEW j \in Instances, Truncate(j) PROVE j # i /\ fd[j] # fd[i]
    BY <1>7, <2>1, OneLockPerFile DEF Truncate, Locked
  <2>2. ASSUME NEW j \in Instances, Truncate(j) PROVE resets'[fd[i]] = resets[fd[i]]
    BY <1>7, <2>1, <2>2, FileOpen DEF Truncate, TypeOK
  <2>3. ASSUME \A j \in Instances : ~ Truncate(j) PROVE resets' = resets
    BY <2>3 DEF Next, Acquire, Operate, Fault, ChangeMode, Open, Flock, FlockRefused, _contended,
                Refuse, Pwrite, Fsync, Acquired, LeakDescriptor, AcquireUnrecorded, Invalidate,
                release, Crash, elevate_to_risk_increasing, demote_to_cancel_only,
                demote_to_flatten_only, Transport, authorize, PowerLoss, Unlink, files, vars
  <2> QED
    BY <2>2, <2>3
<1> QED
  BY <1>6, <1>8

\* The log only grows, and only by a decision of a process at a lock file.
LEMMA LogStep ==
  ASSUME TypeOK, LockInv, [Next]_vars
  PROVE  /\ evidence \subseteq evidence'
         /\ \A e \in evidence' \ evidence : \E j \in Instances :
               \/ e = Decision(j, "acquire") /\ stage[j] = "synced"
               \/ e = Decision(j, "promotion") /\ stage[j] = "held"
               \/ /\ e \in {Decision(j, "flatten_only"), Decision(j, "cancel_only")}
                  /\ stage[j] = "held" /\ fd[j] # 0
                  /\ mode'[j] = e.kind
<1>1. ASSUME NEW j \in Instances, Acquired(j) \/ AcquireUnrecorded(j)
      PROVE  /\ evidence \subseteq evidence' /\ stage[j] = "synced"
             /\ \A e \in evidence' \ evidence : e = Decision(j, "acquire")
  BY <1>1 DEF Acquired, AcquireUnrecorded, _record
<1>2. ASSUME NEW j \in Instances, NEW r \in BOOLEAN, elevate_to_risk_increasing(j, r)
      PROVE  /\ evidence \subseteq evidence' /\ stage[j] = "held"
             /\ \A e \in evidence' \ evidence : e = Decision(j, "promotion")
  BY <1>2 DEF elevate_to_risk_increasing, revalidate, _record
<1>3. ASSUME NEW j \in Instances, NEW r \in BOOLEAN,
             demote_to_flatten_only(j, r) \/ demote_to_cancel_only(j, r)
      PROVE  /\ evidence \subseteq evidence'
             /\ \A e \in evidence' \ evidence :
                   /\ e \in {Decision(j, "flatten_only"), Decision(j, "cancel_only")}
                   /\ stage[j] = "held" /\ fd[j] # 0
                   /\ mode'[j] = e.kind
  <2>1. stage[j] = "held" /\ fd[j] # 0
    BY <1>3, DecidesOnFile DEF demote_to_flatten_only, demote_to_cancel_only, revalidate,
       PRIMARY_MODES
  <2>2. CASE demote_to_flatten_only(j, r)
    BY <2>1, <2>2 DEF demote_to_flatten_only, _record, Decision, TypeOK
  <2>3. CASE demote_to_cancel_only(j, r)
    BY <2>1, <2>3 DEF demote_to_cancel_only, _record, Decision, TypeOK
  <2> QED
    BY <1>3, <2>2, <2>3
<1>4. ASSUME \A j \in Instances : /\ ~ Acquired(j) /\ ~ AcquireUnrecorded(j)
                                 /\ \A r \in BOOLEAN : ~ ChangeMode(j, r)
      PROVE  evidence' = evidence
  BY <1>4 DEF Next, Acquire, Operate, Fault, Open, Flock, FlockRefused, _contended,
              Refuse, Truncate, Pwrite, Fsync, LeakDescriptor, Invalidate,
              release, Crash, Transport, authorize, PowerLoss, Unlink, vars
<1> QED
  BY <1>1, <1>2, <1>3, <1>4 DEF ChangeMode

\* Every step keeps the evidence of acquisitions and promotions ahead of
\* the authority they give.
LEMMA EvidenceStep ==
  ASSUME TypeOK, LockInv, EvidenceBeforeAuthority, [Next]_vars
  PROVE  EvidenceBeforeAuthority'
<1> SUFFICES ASSUME NEW i \in Instances,
                    Primary(i)' \/ mode'[i] \in {"risk_increasing", "flatten_only"}
             PROVE  /\ Recorded(i, "acquire")'
                    /\ mode'[i] \in {"risk_increasing", "flatten_only"}
                          => Recorded(i, "promotion")'
  BY DEF EvidenceBeforeAuthority
<1>1. stage'[i] = "held" /\ fd'[i] # 0 /\ mode'[i] \in PRIMARY_MODES
  BY LockStep DEF LockInv, HasLock, Primary, PRIMARY_MODES
<1>2. \A kind \in Kinds : Recorded(i, kind) => Recorded(i, kind)'
  BY <1>1, HeldStep, LogStep DEF Recorded, Decision
<1>3. CASE Acquired(i)
  <2>1. Recorded(i, "acquire")'
    <3>1. Decision(i, "acquire") \in evidence'
      BY <1>3 DEF Acquired, _record
    <3>2. Decision(i, "acquire")' = Decision(i, "acquire")
      BY <1>1, HeldStep DEF Decision
    <3> QED
      BY <3>1, <3>2 DEF Recorded
  <2>2. mode'[i] = "pending_reconciliation"
    BY <1>3 DEF Acquired, TypeOK
  <2> QED
    BY <2>1, <2>2
<1>4. CASE stage[i] = "held" /\ Modifies(i)
  <2>1. PICK r \in BOOLEAN : ChangeMode(i, r)
    BY <1>4 DEF Modifies
  <2>2. mode[i] \in PRIMARY_MODES
    BY <1>1, <2>1 DEF ChangeMode, elevate_to_risk_increasing, demote_to_cancel_only,
                      demote_to_flatten_only, PRIMARY_MODES
  <2>3. Recorded(i, "acquire")'
    BY <1>2, <1>4, <2>2 DEF EvidenceBeforeAuthority, Primary, Kinds
  <2>4. CASE mode[i] = "pending_reconciliation" /\ mode'[i] = "risk_increasing"
    <3>1. elevate_to_risk_increasing(i, r) /\ r
      BY <2>1, <2>4 DEF ChangeMode, elevate_to_risk_increasing, demote_to_cancel_only,
                        demote_to_flatten_only, TypeOK
    <3>2. Recorded(i, "promotion")'
      BY <3>1 DEF elevate_to_risk_increasing, _record, Recorded, Decision, files
    <3> QED
      BY <2>3, <3>2
  <2>5. CASE mode[i] \in {"risk_increasing", "flatten_only"}
    BY <1>2, <2>3, <2>5 DEF EvidenceBeforeAuthority, Kinds
  <2>6. CASE mode'[i] = "pending_reconciliation"
    BY <2>3, <2>6
  <2> QED
    BY <1>1, <2>1, <2>2, <2>4, <2>5, <2>6
    DEF ChangeMode, elevate_to_risk_increasing, demote_to_cancel_only,
        demote_to_flatten_only, TypeOK, PRIMARY_MODES
<1>5. CASE stage[i] = "held" /\ mode'[i] = mode[i]
  BY <1>1, <1>2, <1>5 DEF EvidenceBeforeAuthority, Primary, Kinds
<1> QED
  BY <1>1, <1>3, <1>4, <1>5, HeldStep

\* Every step keeps a recorded demotion binding for its lease.
LEMMA DemotionStep ==
  ASSUME TypeOK, LockInv, EpochInv, DemotionIsFinal, [Next]_vars
  PROVE  DemotionIsFinal'
<1> DEFINE Left(kind) == IF kind = "flatten_only" THEN {"flatten_only", "cancel_only"}
                                                  ELSE {"cancel_only"}
<1> SUFFICES ASSUME NEW i \in Instances, stage'[i] = "held", fd'[i] # 0,
                    NEW kind \in {"flatten_only", "cancel_only"}, Recorded(i, kind)'
             PROVE  mode'[i] \in Left(kind)
  BY DEF DemotionIsFinal
<1>1. Decision(i, kind)' = Decision(i, kind) /\ fd[i] \in Files
  BY HeldStep, FileOpen DEF Decision
<1>2. stage[i] \in Locked \cup {"held"} /\ fd[i] # 0
  BY HeldStep DEF Acquired, Locked
<1>3. CASE Decision(i, kind) \in evidence
  <2>1. ~ Acquired(i)
    <3>1. Decision(i, kind).reset = resets[fd[i]] /\ Decision(i, kind).file = fd[i]
          /\ Decision(i, kind).epoch = epoch[i]
      BY DEF Decision
    <3>2. ~ (epoch[i] < epoch[i])
      BY DEF TypeOK
    <3> QED
      BY <1>3, <3>1, <3>2 DEF EpochInv, Acquired, Counting
  <2>2. stage[i] = "held" /\ mode[i] \in Left(kind)
    BY <1>2, <1>3, <2>1, HeldStep DEF DemotionIsFinal, Recorded
  <2>3. Modifies(i) => mode'[i] = "cancel_only"
    BY <2>2 DEF Modifies, ChangeMode, elevate_to_risk_increasing, demote_to_cancel_only,
                demote_to_flatten_only, TypeOK
  <2> QED
    BY <2>1, <2>2, <2>3, HeldStep
<1>4. CASE Decision(i, kind) \notin evidence
  <2>1. PICK j \in Instances :
           /\ Decision(i, kind) \in {Decision(j, "flatten_only"), Decision(j, "cancel_only")}
           /\ stage[j] = "held" /\ fd[j] # 0
           /\ mode'[j] = Decision(i, kind).kind
    BY <1>1, <1>4, LogStep DEF Recorded, Decision
  <2>2. fd[i] = fd[j]
    BY <2>1 DEF Decision
  <2>3. i = j
    BY <1>2, <2>1, <2>2, OneLockPerFile
  <2> QED
    BY <2>1, <2>3 DEF Decision
<1> QED
  BY <1>3, <1>4

\* Every step keeps the bookkeeping of the created lock files.
LEMMA FilesStep ==
  ASSUME TypeOK, FilesInv, [Next]_vars
  PROVE  FilesInv'
<1> USE DEF FilesInv
<1>1. ASSUME NEW i \in Instances, Open(i) PROVE FilesInv'
  BY <1>1 DEF Open, TypeOK
<1>2. ASSUME NEW i \in Instances,
             \/ Flock(i) \/ FlockRefused(i) \/ _contended(i) \/ Refuse(i) \/ Truncate(i)
             \/ Pwrite(i) \/ Fsync(i) \/ Acquired(i) \/ LeakDescriptor(i)
             \/ AcquireUnrecorded(i) \/ Invalidate(i) \/ release(i) \/ Crash(i)
      PROVE  FilesInv'
  <2>1. named' = named /\ created' = created
    BY <1>2 DEF Flock, FlockRefused, _contended, Refuse, Truncate, Pwrite, Fsync, Acquired,
                LeakDescriptor, AcquireUnrecorded, Invalidate, release, Crash, files
  <2>2. fd' = fd \/ fd' = [fd EXCEPT ![i] = 0]
    BY <1>2 DEF Flock, FlockRefused, _contended, Refuse, Truncate, Pwrite, Fsync, Acquired,
                LeakDescriptor, AcquireUnrecorded, Invalidate, release, Crash, Drop, files
  <2> QED
    BY <2>1, <2>2 DEF TypeOK
<1>3. ASSUME NEW i \in Instances,
             \/ \E r \in BOOLEAN : ChangeMode(i, r)
             \/ \E action \in Actions : authorize(i, action)
             \/ Transport(i)
      PROVE  FilesInv'
  BY <1>3 DEF ChangeMode, elevate_to_risk_increasing, demote_to_cancel_only,
              demote_to_flatten_only, authorize, Transport, files, leases
<1>4. PowerLoss => FilesInv'
  BY DEF PowerLoss, TypeOK
<1>5. Unlink => FilesInv'
  BY DEF Unlink, leases, TypeOK
<1>6. UNCHANGED vars => FilesInv'
  BY DEF vars
<1> QED
  BY <1>1, <1>2, <1>3, <1>4, <1>5, <1>6 DEF Next, Acquire, Operate, Fault, ChangeMode

-----------------------------------------------------------------------------
IInv ==
    /\ TypeOK
    /\ FilesInv
    /\ LockInv
    /\ GrantInv
    /\ EpochInv
    /\ UntornInv
    /\ EvidenceBeforeAuthority
    /\ DemotionIsFinal

\* The inductive invariant holds when no process has started.
LEMMA InvariantInit == Init => IInv
<1> SUFFICES ASSUME Init PROVE IInv
  OBVIOUS
<1>1. TypeOK
  BY BlankType, IdleType, FileBound DEF Init, TypeOK, Stages, Modes, Files
<1>6. FilesInv
  BY DEF Init, FilesInv
<1>2. LockInv
  BY DEF Init, LockInv, HasLock, Locked, Primary
<1>3. GrantInv
  BY DEF Init, GrantInv
<1>4. EpochInv /\ UntornInv
  BY DEF Init, EpochInv, UntornInv, Counting
<1>5. EvidenceBeforeAuthority /\ DemotionIsFinal
  BY DEF Init, EvidenceBeforeAuthority, DemotionIsFinal, Primary
<1> QED
  BY <1>1, <1>2, <1>3, <1>4, <1>5, <1>6 DEF IInv

\* Every step of the lease protocol keeps the inductive invariant.
LEMMA InvariantStep == IInv /\ [Next]_vars => IInv'
  BY TypeStep, FilesStep, LockStep, GrantStep, EpochStep, UntornStep, EvidenceStep,
     DemotionStep DEF IInv

\* In every behaviour the invariant that ties lock files, epochs, modes, grants
\* and evidence together holds.
THEOREM Invariant == Spec => []IInv
  BY InvariantInit, InvariantStep, PTL DEF Spec

\* Type correctness of writer.py's lease state.
THEOREM TypeCorrect == Spec => []TypeOK
<1>1. IInv => TypeOK
  BY DEF IInv
<1> QED
  BY <1>1, Invariant, PTL

\* At most one process has primary authority over a lock file, for any number
\* of processes, replaced lock files, crashes and power failures.
THEOREM SingleWriterHolds == Spec => []SingleWriter
<1>1. IInv => SingleWriter
  <2> SUFFICES ASSUME LockInv, NEW i \in Instances, NEW j \in Instances,
                      Primary(i), Primary(j), fd[i] = fd[j]
               PROVE  i = j
    BY DEF IInv, SingleWriter
  <2> QED
    BY OneLockPerFile DEF LockInv, HasLock, Primary
<1> QED
  BY <1>1, Invariant, PTL

\* Two risk-increasing calls are never in flight from two processes that were
\* granted them under the same lock file.
THEOREM OneRiskGrantPerFileHolds == Spec => []OneRiskGrantPerFile
<1>1. IInv => OneRiskGrantPerFile
  <2> SUFFICES ASSUME IInv, NEW i \in Instances, NEW j \in Instances,
                      sending[i].action \in RISKY_ACTIONS, sending[j].action \in RISKY_ACTIONS,
                      sending[i].under = sending[j].under
               PROVE  i = j
    BY DEF OneRiskGrantPerFile
  <2>1. ASSUME NEW k \in Instances, sending[k].action \in RISKY_ACTIONS
        PROVE  stage[k] = "held" /\ mode[k] = "risk_increasing" /\ sending[k].under = fd[k]
    <3>1. sending[k] # Idle
      BY <2>1 DEF Idle, RISKY_ACTIONS, WRITER_ACTIONS
    <3>2. stage[k] = "held" /\ sending[k].action \in Allowed(mode[k])
      BY <3>1 DEF IInv, GrantInv
    <3>3. mode[k] = "risk_increasing"
      BY <2>1, <3>2 DEF Allowed, RISKY_ACTIONS
    <3> QED
      BY <3>1, <3>2, <3>3 DEF IInv, GrantInv
  <2>2. Primary(i) /\ Primary(j) /\ fd[i] = fd[j]
    BY <2>1 DEF Primary, PRIMARY_MODES
  <2> QED
    BY <2>2, OneLockPerFile DEF IInv, LockInv, HasLock, Primary
<1> QED
  BY <1>1, Invariant, PTL

\* A lease never has authority the log does not explain.
THEOREM EvidenceBeforeAuthorityHolds == Spec => []EvidenceBeforeAuthority
<1>1. IInv => EvidenceBeforeAuthority
  BY DEF IInv
<1> QED
  BY <1>1, Invariant, PTL

\* A recorded demotion is never undone.
THEOREM DemotionIsFinalHolds == Spec => []DemotionIsFinal
<1>1. IInv => DemotionIsFinal
  BY DEF IInv
<1> QED
  BY <1>1, Invariant, PTL

\* A lease in use is the one its lock file names, and an epoch is acquired a
\* second time only from a file that an earlier acquisition left torn.
THEOREM EpochLostOnlyIfTornHolds == Spec => []EpochLostOnlyIfTorn
<1>1. IInv => EpochLostOnlyIfTorn
  <2> SUFFICES ASSUME IInv PROVE EpochLostOnlyIfTorn
    OBVIOUS
  <2>1. ASSUME NEW i \in Instances, Primary(i)
        PROVE  /\ metadata[fd[i]] = [lease_epoch |-> epoch[i], instance_id |-> i]
               /\ durable[fd[i]] = metadata[fd[i]]
    <3>1. metadata[fd[i]] = LeaseOf(i) /\ durable[fd[i]] = LeaseOf(i)
      BY <2>1 DEF IInv, LockInv, HasLock, EpochInv, Primary
    <3> QED
      BY <3>1 DEF LeaseOf
  <2>2. ASSUME NEW i \in Instances, stage[i] \in Counting, fd[i] \notin torn,
               NEW e \in evidence, e.file = fd[i]
        PROVE  e.epoch < epoch[i]
    <3>1. fd[i] \in Files
      BY <2>2, FileOpen DEF IInv, LockInv, HasLock, Locked, Counting
    <3>2. e.reset = resets[e.file]
      BY <2>2, <3>1 DEF IInv, UntornInv
    <3> QED
      BY <2>2, <3>2 DEF IInv, EpochInv
  <2> QED
    BY <2>1, <2>2, Zenon DEF EpochLostOnlyIfTorn, Counting
<1> QED
  BY <1>1, Invariant, PTL

-----------------------------------------------------------------------------
\* The refinement of AccountAuthority.
LEMMA EffectiveUnique ==
  ASSUME LockInv, NEW i \in Instances, NEW j \in Instances, Effective(i), Effective(j)
  PROVE  i = j
  BY OneLockPerFile DEF Effective, Primary, LockInv, HasLock, _same_inode

\* The effective lease, where there is one, is the abstract holder.
LEMMA HolderIs ==
  ASSUME LockInv, NEW i \in Instances, Effective(i)
  PROVE  holder = i /\ authority = mode[i] /\ mode[i] \in PRIMARY_MODES
  BY EffectiveUnique DEF holder, authority, Effective, Primary

\* Without an effective lease the abstract account has no holder.
LEMMA HolderNone ==
  ASSUME \A i \in Instances : ~ Effective(i)
  PROVE  holder = NoOne /\ authority = "none"
  BY DEF holder, authority

\* Losing or making a lock file never hands the account to a running lease.
LEMMA NamedStep ==
  ASSUME IInv, [Next]_vars, NEW j \in Instances, fd[j] # 0, fd[j] = named'
  PROVE  named' = named
<1>1. ASSUME NEW i \in Instances, Open(i) PROVE named' = named
  BY <1>1 DEF Open, IInv, FilesInv, TypeOK
<1>2. ~ Unlink
  BY DEF Unlink
<1>3. (\A i \in Instances : ~ Open(i)) /\ ~ Unlink => named' = named
  BY DEF Next, Acquire, Operate, Fault, ChangeMode, Flock, FlockRefused, _contended,
         Refuse, Truncate, Pwrite, Fsync, Acquired, LeakDescriptor, AcquireUnrecorded,
         Invalidate, release, Crash, elevate_to_risk_increasing, demote_to_cancel_only,
         demote_to_flatten_only, Transport, authorize, PowerLoss, files, vars
<1> QED
  BY <1>1, <1>2, <1>3

\* A lease that is effective after a step was effective before it or is new.
LEMMA EffectiveStep ==
  ASSUME IInv, IInv', [Next]_vars, NEW j \in Instances, Effective(j)'
  PROVE  /\ named' = named /\ fd'[j] = fd[j] /\ fd[j] # 0 /\ fd[j] = named
         /\ \/ Acquired(j)
            \/ Effective(j) /\ (Modifies(j) \/ mode'[j] = mode[j])
<1>1. stage'[j] = "held" /\ fd'[j] # 0 /\ fd'[j] = named' /\ mode'[j] \in PRIMARY_MODES
  BY DEF Effective, Primary, _same_inode, IInv, LockInv, HasLock
<1>2. fd'[j] = fd[j]
  BY <1>1, HeldStep DEF IInv
<1>3. named' = named
  BY <1>1, <1>2, NamedStep
<1>4. CASE stage[j] = "held" /\ Modifies(j)
  BY <1>1, <1>2, <1>3, <1>4
  DEF Modifies, ChangeMode, elevate_to_risk_increasing, demote_to_cancel_only,
      demote_to_flatten_only, Effective, Primary, _same_inode, PRIMARY_MODES
<1>5. CASE stage[j] = "held" /\ mode'[j] = mode[j]
  BY <1>1, <1>2, <1>3, <1>5 DEF Effective, Primary, _same_inode
<1> QED
  BY <1>1, <1>2, <1>3, <1>4, <1>5, HeldStep DEF IInv

\* Every step of the protocol is a step of AccountAuthority or a stutter.
LEMMA RefinementStep ==
  ASSUME IInv, IInv', [Next]_vars
  PROVE  [Account!Next]_(Account!vars)
<1> USE DEF Account!Next, Account!Grant, Account!Promote, Account!Restrict, Account!End,
            Account!vars
<1>1. CASE \A i \in Instances : ~ Effective(i)'
  <2>1. holder' = NoOne /\ authority' = "none"
    BY <1>1 DEF holder, authority
  <2>2. CASE holder = NoOne
    BY <2>1, <2>2 DEF authority
  <2>3. CASE holder # NoOne
    BY <2>1, <2>3
  <2> QED
    BY <2>2, <2>3
<1>2. ASSUME NEW j \in Instances, Effective(j)' PROVE [Account!Next]_(Account!vars)
  <2>1. \A i \in Instances : Effective(i)' => i = j
    BY <1>2 DEF IInv, LockInv, HasLock, Effective, Primary, _same_inode
  <2>2. holder' = j /\ authority' = mode'[j]
    BY <1>2, <2>1 DEF holder, authority
  <2>3. CASE Acquired(j)
    <3>1. \A i \in Instances : ~ Effective(i)
      BY <1>2, <2>3, EffectiveStep, OneLockPerFile
      DEF IInv, Acquired, Effective, Primary, _same_inode, Locked
    <3>2. holder = NoOne
      BY <3>1, HolderNone
    <3>3. mode'[j] = "pending_reconciliation"
      BY <2>3 DEF Acquired, IInv, TypeOK
    <3> QED
      BY <2>2, <3>2, <3>3
  <2>4. CASE Effective(j) /\ mode'[j] = mode[j]
    BY <2>2, <2>4, HolderIs DEF IInv
  <2>5. CASE Effective(j) /\ Modifies(j)
    <3>1. holder = j /\ authority = mode[j]
      BY <2>5, HolderIs DEF IInv
    <3>2. \/ mode[j] = "pending_reconciliation" /\ mode'[j] = "risk_increasing"
          \/ mode[j] = "risk_increasing" /\ mode'[j] = "flatten_only"
          \/ mode'[j] = mode[j]
      BY <1>2, <2>5
      DEF Modifies, ChangeMode, elevate_to_risk_increasing, demote_to_cancel_only,
          demote_to_flatten_only, Effective, Primary, PRIMARY_MODES, IInv, TypeOK
    <3> QED
      BY <2>2, <3>1, <3>2
  <2> QED
    BY <1>2, <2>3, <2>4, <2>5, EffectiveStep
<1> QED
  BY <1>1, <1>2

\* Seen from outside, writer.py gives an account one writer at a time whose
\* authority follows the mode table.
THEOREM ImplementsAccountAuthorityHolds == Spec => ImplementsAccountAuthority
<1>1. Init => Account!Init
  BY HolderNone DEF Init, Account!Init, Effective, Primary
<1>2. IInv /\ IInv' /\ [Next]_vars => [Account!Next]_(Account!vars)
  BY RefinementStep
<1> QED
  BY <1>1, <1>2, Invariant, PTL DEF Spec, ImplementsAccountAuthority, Account!Spec
=============================================================================
