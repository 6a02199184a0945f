----------------------------- MODULE WriterLease -----------------------------
(***************************************************************************)
(* The writer lease of one account (execution/writer.py, class             *)
(* WriterLease): a lock file named after the account, an advisory          *)
(* exclusive flock on it, the lease epoch kept in its content, and the     *)
(* authority mode kept in the memory of the process that holds it.         *)
(*                                                                         *)
(* A process runs WriterLease.acquire as a sequence of system calls, so    *)
(* acquisition is cut into one action per call that another process, a     *)
(* crash or a lost lock file can come between.  The operations of a held   *)
(* lease run in one thread and are one action each, the evidence record    *)
(* they end with included; what they authorise stays in flight in          *)
(* "sending" until the transport has sent it.                              *)
(***************************************************************************)
EXTENDS Naturals

CONSTANTS Instances,           \* the processes: WriterIdentity.instance_id
          Wallets,             \* wallet fingerprints
          wallet_fingerprint,  \* [Instances -> Wallets]
          NoOne,               \* no process
          Actions,             \* the writer actions that processes try
          MaxFiles,            \* bound: lock files ever created
          MaxEpoch,            \* bound: lease epoch
          MaxFaults            \* bound: crashes, lost files, failed calls

WRITER_ACTIONS ==
    {"cancel", "cancel_all", "submit", "reduce_only", "close", "market", "modify"}
CANCEL_ACTIONS == {"cancel", "cancel_all"}

\* Modes in which a lease is the account's primary lease.
PRIMARY_MODES == {"pending_reconciliation", "risk_increasing", "flatten_only"}

ASSUME WalletAssumption == wallet_fingerprint \in [Instances -> Wallets]
ASSUME NoOneAssumption == NoOne \notin Instances
ASSUME ActionsAssumption == Actions \subseteq WRITER_ACTIONS
ASSUME BoundAssumption == {MaxFiles, MaxEpoch, MaxFaults} \subseteq Nat

VARIABLES
    named,     \* the lock file the account's path names, 0 when it is missing
    created,   \* the lock files created so far are 1 .. created
    metadata,  \* their content, as a reader sees it
    durable,   \* the content of each that fsync has forced to disk
    flocked,   \* the process whose descriptor has the flock of each, or NoOne
    resets,    \* history: how often the epoch count of each file restarted
    torn,      \* history: the files whose rewriting was cut short for good
    stage,     \* where each process is in acquire, or "held" / "idle"
    fd,        \* the lock file each process has open, 0 for none
    epoch,     \* the lease epoch of each process, 0 for none
    mode,      \* the authority mode of each process, "none" without a lease
    sending,   \* the authorised action each process has not yet sent
    evidence,  \* the writer decisions that reached the durable log
    faults     \* the faults so far

files == <<named, created, metadata, durable, flocked, resets, torn>>
leases == <<stage, fd, epoch, mode>>
vars == <<named, created, metadata, durable, flocked, resets, torn,
          stage, fd, epoch, mode, sending, evidence, faults>>

Files == 1 .. MaxFiles
Stages == {"idle", "opened", "flocked", "truncated", "written", "synced",
           "held", "contended", "leaked"}
Modes == PRIMARY_MODES \cup {"cancel_only", "none"}

\* Empty or torn content: _read_metadata returns {} for both.
Blank == [lease_epoch |-> 0, instance_id |-> NoOne]
Metadata == [lease_epoch : 0 .. MaxEpoch, instance_id : Instances \cup {NoOne}]

Idle == [action |-> "none", under |-> 0]
Sending == [action : Actions \cup {"none"}, under : 0 .. MaxFiles]

Kinds == {"acquire", "promotion", "flatten_only", "cancel_only"}
Evidence == [kind : Kinds, file : Files, reset : Nat, epoch : 0 .. MaxEpoch]

TypeOK ==
    /\ named \in 0 .. MaxFiles
    /\ created \in 0 .. MaxFiles
    /\ metadata \in [Files -> Metadata]
    /\ durable \in [Files -> Metadata]
    /\ flocked \in [Files -> Instances \cup {NoOne}]
    /\ resets \in [Files -> Nat]
    /\ torn \subseteq Files
    /\ stage \in [Instances -> Stages]
    /\ fd \in [Instances -> 0 .. MaxFiles]
    /\ epoch \in [Instances -> 0 .. MaxEpoch]
    /\ mode \in [Instances -> Modes]
    /\ sending \in [Instances -> Sending]
    /\ evidence \subseteq Evidence
    /\ faults \in 0 .. MaxFaults

Init ==
    /\ named = 0
    /\ created = 0
    /\ metadata = [n \in Files |-> Blank]
    /\ durable = [n \in Files |-> Blank]
    /\ flocked = [n \in Files |-> NoOne]
    /\ resets = [n \in Files |-> 0]
    /\ torn = {}
    /\ stage = [i \in Instances |-> "idle"]
    /\ fd = [i \in Instances |-> 0]
    /\ epoch = [i \in Instances |-> 0]
    /\ mode = [i \in Instances |-> "none"]
    /\ sending = [i \in Instances |-> Idle]
    /\ evidence = {}
    /\ faults = 0

-----------------------------------------------------------------------------
\* The descriptor still names the file the account's path names.
_same_inode(i) == fd[i] = named

\* Closing the descriptor of a process drops its flock.
Unlocked(i) == [n \in Files |-> IF flocked[n] = i THEN NoOne ELSE flocked[n]]

\* The process is left without a lease and with its descriptor closed.
Drop(i) ==
    /\ flocked' = Unlocked(i)
    /\ stage' = [stage EXCEPT ![i] = "idle"]
    /\ fd' = [fd EXCEPT ![i] = 0]
    /\ epoch' = [epoch EXCEPT ![i] = 0]
    /\ mode' = [mode EXCEPT ![i] = "none"]

Decision(i, kind) ==
    [kind |-> kind, file |-> fd[i], reset |-> resets[fd[i]], epoch |-> epoch[i]]

\* The recorder returns only when the decision is durable; when it raises the
\* decision may or may not have reached the log.
_record(i, kind, returned) ==
    \/ evidence' = evidence \cup {Decision(i, kind)}
    \/ ~ returned /\ UNCHANGED evidence

-----------------------------------------------------------------------------
\* acquire: os.open with O_CREAT.
Open(i) ==
    /\ stage[i] = "idle"
    /\ \/ /\ named # 0
          /\ fd' = [fd EXCEPT ![i] = named]
          /\ UNCHANGED <<named, created>>
       \/ /\ named = 0 /\ created < MaxFiles
          /\ created' = created + 1
          /\ named' = created + 1
          /\ fd' = [fd EXCEPT ![i] = created + 1]
    /\ stage' = [stage EXCEPT ![i] = "opened"]
    /\ UNCHANGED <<metadata, durable, flocked, resets, torn, epoch, mode, sending,
                   evidence>>

\* Mutant: a shared flock.
Flock_Shared(i) ==
    /\ stage[i] = "opened"
    /\ flocked' = [flocked EXCEPT ![fd[i]] = i]
    /\ stage' = [stage EXCEPT ![i] = "flocked"]
    /\ UNCHANGED <<named, created, metadata, durable, resets, torn, fd, epoch, mode,
                   sending, evidence>>

\* acquire: flock LOCK_EX | LOCK_NB on the descriptor succeeds.
Flock(i) ==
    /\ stage[i] = "opened"
    /\ flocked[fd[i]] = NoOne
    /\ flocked' = [flocked EXCEPT ![fd[i]] = i]
    /\ stage' = [stage EXCEPT ![i] = "flocked"]
    /\ UNCHANGED <<named, created, metadata, durable, resets, torn, fd, epoch, mode,
                   sending, evidence>>

\* acquire: the flock is refused (BlockingIOError).
FlockRefused(i) ==
    /\ stage[i] = "opened"
    /\ flocked[fd[i]] # NoOne
    /\ stage' = [stage EXCEPT ![i] = "contended"]
    /\ UNCHANGED <<files, fd, epoch, mode, sending, evidence>>

\* _contended: the incumbent's metadata decides between a cancel-only lease
\* without the lock and no lease at all; a failed record means no lease.
_contended(i) ==
    /\ stage[i] = "contended"
    /\ LET incumbent == metadata[fd[i]]
           prior == incumbent.lease_epoch > 0
           same == /\ incumbent.instance_id # NoOne
                   /\ \/ incumbent.instance_id = i
                      \/ wallet_fingerprint[incumbent.instance_id] = wallet_fingerprint[i]
       IN  \/ /\ prior /\ ~ same
              /\ stage' = [stage EXCEPT ![i] = "held"]
              /\ mode' = [mode EXCEPT ![i] = "cancel_only"]
              /\ epoch' = [epoch EXCEPT ![i] = incumbent.lease_epoch]
           \/ /\ stage' = [stage EXCEPT ![i] = "idle"]
              /\ UNCHANGED <<epoch, mode>>
    /\ fd' = [fd EXCEPT ![i] = 0]
    /\ UNCHANGED <<files, sending, evidence>>

\* acquire: the inode check after the flock fails; the descriptor is closed.
Refuse(i) ==
    /\ stage[i] = "flocked"
    /\ ~ _same_inode(i)
    /\ Drop(i)
    /\ UNCHANGED <<named, created, metadata, durable, resets, torn, sending, evidence>>

\* Mutant: the epoch of the last holder is taken over.
NextEpoch_Kept(n) == IF metadata[n].lease_epoch = 0 THEN 1 ELSE metadata[n].lease_epoch

\* acquire: the next epoch is the one after the file's last, or 1 when the
\* content gives none.
NextEpoch(n) == metadata[n].lease_epoch + 1

\* acquire: inode check, reading the previous epoch, ftruncate.
Truncate(i) ==
    LET n == fd[i] IN
    /\ stage[i] = "flocked"
    /\ _same_inode(i)
    /\ NextEpoch(n) \leq MaxEpoch
    /\ epoch' = [epoch EXCEPT ![i] = NextEpoch(n)]
    /\ resets' = [resets EXCEPT ![n] = IF metadata[n].lease_epoch = 0 THEN @ + 1 ELSE @]
    /\ metadata' = [metadata EXCEPT ![n] = Blank]
    /\ stage' = [stage EXCEPT ![i] = "truncated"]
    /\ UNCHANGED <<named, created, durable, flocked, torn, fd, mode, sending, evidence>>

\* acquire: pwrite of the new metadata.
Pwrite(i) ==
    /\ stage[i] = "truncated"
    /\ metadata' = [metadata EXCEPT ![fd[i]] =
                       [lease_epoch |-> epoch[i], instance_id |-> i]]
    /\ stage' = [stage EXCEPT ![i] = "written"]
    /\ UNCHANGED <<named, created, durable, flocked, resets, torn, fd, epoch, mode,
                   sending, evidence>>

\* acquire: fsync.
Fsync(i) ==
    /\ stage[i] = "written"
    /\ durable' = [durable EXCEPT ![fd[i]] = metadata[fd[i]]]
    /\ stage' = [stage EXCEPT ![i] = "synced"]
    /\ UNCHANGED <<named, created, metadata, flocked, resets, torn, fd, epoch, mode,
                   sending, evidence>>

\* acquire: ftruncate, pwrite or fsync raises OSError, which no handler
\* catches: no lease is returned, and the descriptor keeps the flock.
LeakDescriptor(i) ==
    /\ stage[i] \in {"flocked", "truncated", "written"}
    /\ stage[i] = "flocked" => _same_inode(i)
    /\ stage' = [stage EXCEPT ![i] = "leaked"]
    /\ epoch' = [epoch EXCEPT ![i] = 0]
    /\ torn' = IF stage[i] = "truncated" THEN torn \cup {fd[i]} ELSE torn
    /\ UNCHANGED <<named, created, metadata, durable, flocked, resets, fd, mode,
                   sending, evidence>>

\* acquire: the acquisition is recorded and the lease returned.
Acquired(i) ==
    /\ stage[i] = "synced"
    /\ _record(i, "acquire", TRUE)
    /\ stage' = [stage EXCEPT ![i] = "held"]
    /\ mode' = [mode EXCEPT ![i] = "pending_reconciliation"]
    /\ UNCHANGED <<files, fd, epoch, sending>>

\* acquire: recording the acquisition fails; the descriptor is closed and
\* the epoch stays consumed.
AcquireUnrecorded(i) ==
    /\ stage[i] = "synced"
    /\ _record(i, "acquire", FALSE)
    /\ Drop(i)
    /\ UNCHANGED <<named, created, metadata, durable, resets, torn, sending>>

-----------------------------------------------------------------------------
\* Mutant: the inode is only looked at when the lease is acquired.
revalidate_Trusting(i) == stage[i] = "held"

\* revalidate passes: a cancel-only lease is not looked at, any other must
\* still hold the file its path names.
revalidate(i) ==
    /\ stage[i] = "held"
    /\ mode[i] = "cancel_only" \/ _same_inode(i)

\* Any operation of a lease whose lock file is gone ends the lease instead.
Invalidate(i) ==
    /\ stage[i] = "held"
    /\ ~ revalidate(i)
    /\ Drop(i)
    /\ UNCHANGED <<named, created, metadata, durable, resets, torn, sending, evidence>>

Allowed(m) ==
    CASE m = "risk_increasing" -> WRITER_ACTIONS \ {"modify"}
      [] m = "flatten_only" -> CANCEL_ACTIONS \cup {"reduce_only"}
      [] OTHER -> CANCEL_ACTIONS

\* authorize, for an action the mode allows.  A denial changes nothing here.
authorize(i, action) ==
    /\ revalidate(i)
    /\ action \in Allowed(mode[i])
    /\ sending' = [sending EXCEPT ![i] = [action |-> action, under |-> named]]
    /\ UNCHANGED <<files, leases, evidence>>

\* The transport call that authorize allowed has been made.
Transport(i) ==
    /\ sending[i] # Idle
    /\ sending' = [sending EXCEPT ![i] = Idle]
    /\ UNCHANGED <<files, leases, evidence>>

\* Mutant: the mode changes whether or not the promotion was recorded.
elevate_Unrecorded(i, returned) ==
    /\ revalidate(i)
    /\ mode[i] = "pending_reconciliation"
    /\ _record(i, "promotion", returned)
    /\ mode' = [mode EXCEPT ![i] = "risk_increasing"]
    /\ UNCHANGED <<files, stage, fd, epoch, sending>>

\* Mutant: a demoted lease can be promoted again.
elevate_Repeatable(i, returned) ==
    /\ revalidate(i)
    /\ fd[i] # 0
    /\ _record(i, "promotion", returned)
    /\ mode' = IF returned THEN [mode EXCEPT ![i] = "risk_increasing"] ELSE mode
    /\ UNCHANGED <<files, stage, fd, epoch, sending>>

\* elevate_to_risk_increasing: before_elevate records the promotion, and the
\* mode changes only when that returns.
elevate_to_risk_increasing(i, returned) ==
    /\ revalidate(i)
    /\ mode[i] = "pending_reconciliation"
    /\ _record(i, "promotion", returned)
    /\ mode' = IF returned THEN [mode EXCEPT ![i] = "risk_increasing"] ELSE mode
    /\ UNCHANGED <<files, stage, fd, epoch, sending>>

\* Mutant: the demotion writes a mode no reader of it knows.
demote_to_cancel_only_Misnamed(i, returned) ==
    /\ revalidate(i)
    /\ mode[i] \in {"flatten_only", "risk_increasing"}
    /\ mode' = [mode EXCEPT ![i] = "demoted"]
    /\ _record(i, "cancel_only", returned)
    /\ UNCHANGED <<files, stage, fd, epoch, sending>>

\* demote_to_cancel_only: the mode first, then the record, which may fail.
\* Modes that cannot increase risk are left alone.
demote_to_cancel_only(i, returned) ==
    /\ revalidate(i)
    /\ mode[i] \in {"flatten_only", "risk_increasing"}
    /\ mode' = [mode EXCEPT ![i] = "cancel_only"]
    /\ _record(i, "cancel_only", returned)
    /\ UNCHANGED <<files, stage, fd, epoch, sending>>

\* Mutant: a lease that was never promoted may be given flatten authority.
demote_to_flatten_only_Unpromoted(i, returned) ==
    /\ revalidate(i)
    /\ mode[i] \in {"pending_reconciliation", "risk_increasing"}
    /\ mode' = [mode EXCEPT ![i] = "flatten_only"]
    /\ _record(i, "flatten_only", returned)
    /\ UNCHANGED <<files, stage, fd, epoch, sending>>

demote_to_flatten_only(i, returned) ==
    /\ revalidate(i)
    /\ mode[i] = "risk_increasing"
    /\ mode' = [mode EXCEPT ![i] = "flatten_only"]
    /\ _record(i, "flatten_only", returned)
    /\ UNCHANGED <<files, stage, fd, epoch, sending>>

release(i) ==
    /\ stage[i] = "held"
    /\ fd[i] # 0 => revalidate(i)
    /\ Drop(i)
    /\ UNCHANGED <<named, created, metadata, durable, resets, torn, sending, evidence>>

-----------------------------------------------------------------------------
\* The process dies: the kernel closes its descriptor, what it wrote stays: a
\* lock file it had truncated and not written again stays empty.
Crash(i) ==
    /\ stage[i] # "idle"
    /\ Drop(i)
    /\ sending' = [sending EXCEPT ![i] = Idle]
    /\ torn' = IF stage[i] = "truncated" THEN torn \cup {fd[i]} ELSE torn
    /\ UNCHANGED <<named, created, metadata, durable, resets, evidence>>

\* The host loses power: every process dies, and a file keeps its synced
\* content, what was written since, or neither when it was being rewritten.
PowerLoss ==
    /\ \E i \in Instances : stage[i] # "idle"
    /\ \E content \in [Files -> Metadata] :
          /\ \A n \in Files :
                \/ content[n] \in {durable[n], metadata[n]}
                \/ durable[n] # metadata[n] /\ content[n] = Blank
          /\ metadata' = content
          /\ durable' = content
          /\ torn' = torn \cup {n \in Files :
                                content[n].lease_epoch = 0 /\ durable[n].lease_epoch # 0}
    /\ flocked' = [n \in Files |-> NoOne]
    /\ stage' = [i \in Instances |-> "idle"]
    /\ fd' = [i \in Instances |-> 0]
    /\ epoch' = [i \in Instances |-> 0]
    /\ mode' = [i \in Instances |-> "none"]
    /\ sending' = [i \in Instances |-> Idle]
    /\ UNCHANGED <<named, created, resets, evidence>>

\* Somebody else removes the lock file while processes may have it open.
Unlink ==
    /\ named # 0
    /\ named' = 0
    /\ UNCHANGED <<created, metadata, durable, flocked, resets, torn, leases, sending,
                   evidence>>

\* A process runs one operation at a time: none while a transport call runs.
\* "returned" tells whether the operation's recorder returns.
ChangeMode(i, returned) ==
    /\ sending[i] = Idle
    /\ \/ elevate_to_risk_increasing(i, returned)
       \/ demote_to_cancel_only(i, returned)
       \/ demote_to_flatten_only(i, returned)

Acquire(i) ==
    \/ Open(i) \/ Flock(i) \/ FlockRefused(i) \/ _contended(i) \/ Refuse(i)
    \/ Truncate(i) \/ Pwrite(i) \/ Fsync(i) \/ Acquired(i)

Operate(i) ==
    \/ ChangeMode(i, TRUE)
    \/ sending[i] = Idle /\ (Invalidate(i) \/ release(i))
    \/ sending[i] = Idle /\ \E action \in Actions : authorize(i, action)
    \/ Transport(i)

Fault ==
    \/ \E i \in Instances :
          \/ LeakDescriptor(i) \/ AcquireUnrecorded(i) \/ ChangeMode(i, FALSE)
          \/ Crash(i)
    \/ PowerLoss
    \/ Unlink

Next ==
    \/ (\E i \in Instances : Acquire(i) \/ Operate(i)) /\ UNCHANGED faults
    \/ faults < MaxFaults /\ Fault /\ faults' = faults + 1

Spec == Init /\ [][Next]_vars

-----------------------------------------------------------------------------
Primary(i) == stage[i] = "held" /\ mode[i] \in PRIMARY_MODES

\* The file whose flock backs the lease is the one the account's path names.
Effective(i) == Primary(i) /\ _same_inode(i)

Recorded(i, kind) == Decision(i, kind) \in evidence

RISKY_ACTIONS == WRITER_ACTIONS \ (CANCEL_ACTIONS \cup {"reduce_only"})

\* Two primary leases exist at once only on two different lock files, so at
\* most one of them survives its next revalidate: whatever the order of opens,
\* flocks, inode checks, crashes and removals of the lock file.
SingleWriter ==
    \A i, j \in Instances : Primary(i) /\ Primary(j) /\ fd[i] = fd[j] => i = j

\* While one lock file is in place, at most one process gets a risk-increasing
\* action authorised: a writer that lost its lock file cannot be granted one
\* beside the writer that holds the new file, although it still believes to be
\* in risk_increasing mode.
OneRiskGrantPerFile ==
    \A i, j \in Instances :
        /\ sending[i].action \in RISKY_ACTIONS
        /\ sending[j].action \in RISKY_ACTIONS
        /\ sending[i].under = sending[j].under
        => i = j

\* What GOAL.md section 2.1 asks of the account: one risk-increasing writer.  A
\* process whose lock file is replaced after authorize looked at it does not
\* notice before its order is sent.
SoleRiskWriter ==
    \A i, j \in Instances :
        /\ sending[i].action \in RISKY_ACTIONS
        /\ sending[j].action \in RISKY_ACTIONS
        => i = j

\* Authority is never ahead of the log: a lease in use has its acquisition on
\* record, and one that can increase risk its promotion as well, even when
\* recorders fail and processes crash between a record and its effect.
EvidenceBeforeAuthority ==
    \A i \in Instances :
        /\ Primary(i) => Recorded(i, "acquire")
        /\ mode[i] \in {"risk_increasing", "flatten_only"} => Recorded(i, "promotion")

\* A restriction on record binds the lease for good: no process with that file
\* and epoch has more authority than the log says was left, so a restarted
\* reader of the log never underestimates the running writer.
DemotionIsFinal ==
    \A i \in Instances :
        stage[i] = "held" /\ fd[i] # 0 =>
            /\ Recorded(i, "flatten_only") => mode[i] \in {"flatten_only", "cancel_only"}
            /\ Recorded(i, "cancel_only") => mode[i] = "cancel_only"

\* The lock file of a lease in use names that lease, in memory and on disk, so
\* that a contender, the watchdog and the next holder after a power failure all
\* read whose epoch it is.  And an epoch that is about to be recorded is above
\* every epoch recorded from the same file, unless an earlier acquisition was
\* cut short between ftruncate and fsync: after that the count starts again at
\* 1 and may repeat an epoch on record.
EpochLostOnlyIfTorn ==
    \A i \in Instances :
        /\ Primary(i) =>
              /\ metadata[fd[i]] = [lease_epoch |-> epoch[i], instance_id |-> i]
              /\ durable[fd[i]] = metadata[fd[i]]
        /\ stage[i] \in {"truncated", "written", "synced"} /\ fd[i] \notin torn =>
              \A e \in evidence :
                  e.kind = "acquire" /\ e.file = fd[i] => e.epoch < epoch[i]

\* The effective lease is the single writer of AccountAuthority: every step of
\* the lock-file protocol grants, promotes, restricts or ends one tenure or
\* changes nothing.
holder ==
    IF \E i \in Instances : Effective(i)
    THEN CHOOSE i \in Instances : Effective(i)
    ELSE NoOne
authority == IF holder = NoOne THEN "none" ELSE mode[holder]

Account == INSTANCE AccountAuthority WITH holder <- holder, authority <- authority

ImplementsAccountAuthority == Account!Spec
=============================================================================
