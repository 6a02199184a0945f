------------------------------ MODULE Watchdog ------------------------------
(***************************************************************************)
(* The host watchdog of the Bybit account (ops/watchdog.py) and the        *)
(* heartbeat file it reads (publish_heartbeat in execution/writer.py).     *)
(*                                                                         *)
(* A writer process checks its lease, writes a temporary file and renames  *)
(* it; the watchdog reads the clock, the lock file and the heartbeat, one  *)
(* after the other.  All of these interleave with processes that come, go  *)
(* and lose their lock file.  Acquiring the lease is one step: WriterLease *)
(* has the details, and a lock file that is being written names no epoch   *)
(* of a heartbeat either.                                                  *)
(*                                                                         *)
(* Time has no beginning: the model keeps how long ago things happened, up *)
(* to the ages Late and Stale beyond which nothing tells them apart.       *)
(***************************************************************************)
EXTENDS Integers

CONSTANTS Instances,   \* the processes
          NoOne,       \* no process
          max_gap,     \* max_gap_ns of the watchdog
          interval,    \* interval_ms between its rounds
          MaxDelay,    \* how late its host runs it, and how long a round takes
          MaxFiles,    \* bound: lock files ever created
          MaxEpoch     \* bound: lease epoch

ASSUME NoOneAssumption == NoOne \notin Instances
ASSUME TimeAssumption == {max_gap, interval} \subseteq Nat \ {0} /\ MaxDelay \in Nat
ASSUME BoundAssumption == {MaxFiles, MaxEpoch} \subseteq Nat

VARIABLES
    named,      \* the lock file the account's path names, 0 when it is missing
    created,    \* the lock files created so far are 1 .. created
    count,      \* the lease epoch in each
    flocked,    \* the process that has the flock of each, or NoOne
    lease,      \* the lock file of each process's primary lease, 0 for none
    publishing, \* where each process is in publish_heartbeat
    observed,   \* the age of the clock reading it publishes
    temporary,  \* the .heartbeat.tmp file
    heartbeat,  \* the .heartbeat file
    watchdog,   \* where the watchdog is
    timer,      \* what is left of its wait
    lag,        \* how late it is, or the age of the clock reading of its round
    seen,       \* the epoch its round read, 0 for None
    silence,    \* history: how long ago a lease holder last took the time
    calm        \* history: the writer was healthy since the round began

locks == <<named, created, count, flocked, lease>>
publication == <<publishing, observed, temporary, heartbeat>>
look == <<watchdog, timer, lag, seen>>
vars == <<named, created, count, flocked, lease, publishing, observed, temporary,
          heartbeat, watchdog, timer, lag, seen, silence, calm>>

Files == 1 .. MaxFiles
Late == max_gap + interval + 3 * MaxDelay + 1
Stale == max_gap + MaxDelay + 1
Ages == 0 .. Stale
Older(age, limit) == IF age < limit THEN age + 1 ELSE limit

NoBeat == [epoch |-> 0, age |-> Stale]
Beats == [epoch : 1 .. MaxEpoch, age : Ages] \cup {NoBeat}

Running == {"waiting", "clock", "epoch"}
Ended == {"requested", "failed", "stopped"}

\* The variables' types; a primary lease is held under its flock, and only with
\* one does a process publish.
TypeOK ==
    /\ named \in 0 .. MaxFiles /\ created \in 0 .. MaxFiles
    /\ count \in [Files -> 0 .. MaxEpoch]
    /\ flocked \in [Files -> Instances \cup {NoOne}]
    /\ lease \in [Instances -> 0 .. MaxFiles]
    /\ publishing \in [Instances -> {"idle", "checked", "written"}]
    /\ observed \in [Instances -> Ages]
    /\ temporary \in Beats /\ heartbeat \in Beats
    /\ watchdog \in Running \cup {"cancelling"} \cup Ended
    /\ timer \in 0 .. interval
    /\ lag \in 0 .. MaxDelay
    /\ seen \in 0 .. MaxEpoch
    /\ silence \in 0 .. Late
    /\ calm \in BOOLEAN
    /\ \A i \in Instances : lease[i] # 0 => flocked[lease[i]] = i
    /\ \A i \in Instances : publishing[i] # "idle" => lease[i] # 0

Init ==
    /\ named = 0 /\ created = 0
    /\ count = [n \in Files |-> 0]
    /\ flocked = [n \in Files |-> NoOne]
    /\ lease = [i \in Instances |-> 0]
    /\ publishing = [i \in Instances |-> "idle"]
    /\ observed = [i \in Instances |-> 0]
    /\ temporary = NoBeat /\ heartbeat = NoBeat
    /\ watchdog = "waiting"
    /\ timer = 0 /\ lag = 0 /\ seen = 0
    /\ silence = 0
    /\ calm = FALSE

-----------------------------------------------------------------------------
\* A process gets the primary lease of the named lock file, or of a new one.
Acquire(i) ==
    /\ \A n \in Files : flocked[n] # i
    /\ IF named = 0
       THEN /\ created < MaxFiles
            /\ created' = created + 1
            /\ named' = created + 1
       ELSE /\ flocked[named] = NoOne
            /\ UNCHANGED <<named, created>>
    /\ count[named'] < MaxEpoch
    /\ count' = [count EXCEPT ![named'] = @ + 1]
    /\ flocked' = [flocked EXCEPT ![named'] = i]
    /\ lease' = [lease EXCEPT ![i] = named']
    /\ UNCHANGED <<publication, look, silence>>

Unlocked(i) == [n \in Files |-> IF flocked[n] = i THEN NoOne ELSE flocked[n]]

\* A process ends, wherever it is.
Exit(i) ==
    /\ \E n \in Files : flocked[n] = i
    /\ flocked' = Unlocked(i)
    /\ lease' = [lease EXCEPT ![i] = 0]
    /\ publishing' = [publishing EXCEPT ![i] = "idle"]
    /\ observed' = [observed EXCEPT ![i] = 0]
    /\ UNCHANGED <<named, created, count, temporary, heartbeat, look, silence>>

\* A demotion to cancel_only: the lock stays, the right to publish goes.
demote_to_cancel_only(i) ==
    /\ lease[i] # 0 /\ lease[i] = named
    /\ publishing[i] = "idle"
    /\ lease' = [lease EXCEPT ![i] = 0]
    /\ UNCHANGED <<named, created, count, flocked, publication, look, silence>>

Unlink ==
    /\ named # 0
    /\ named' = 0
    /\ UNCHANGED <<created, count, flocked, lease, publication, look, silence>>

\* publish_heartbeat: the process takes the time, revalidate finds its lease.
Check(i) ==
    /\ lease[i] # 0 /\ lease[i] = named
    /\ publishing[i] = "idle"
    /\ publishing' = [publishing EXCEPT ![i] = "checked"]
    /\ observed' = [observed EXCEPT ![i] = 0]
    /\ silence' = 0
    /\ UNCHANGED <<locks, temporary, heartbeat, look>>

\* Mutant: the process still believes in the lease it closed.
Invalidated_Kept(i) ==
    /\ lease[i] # 0 /\ lease[i] # named
    /\ publishing[i] = "idle"
    /\ flocked' = Unlocked(i)
    /\ UNCHANGED <<named, created, count, lease, publication, look, silence>>

\* publish_heartbeat: revalidate closes the descriptor of a replaced lock file.
Invalidated(i) ==
    /\ lease[i] # 0 /\ lease[i] # named
    /\ publishing[i] = "idle"
    /\ flocked' = Unlocked(i)
    /\ lease' = [lease EXCEPT ![i] = 0]
    /\ UNCHANGED <<named, created, count, publication, look, silence>>

\* Mutant: the time is taken when the file is written.
Write_Restamped(i) ==
    /\ publishing[i] = "checked"
    /\ publishing' = [publishing EXCEPT ![i] = "written"]
    /\ temporary' = [epoch |-> count[lease[i]], age |-> 0]
    /\ observed' = [observed EXCEPT ![i] = 0]
    /\ UNCHANGED <<locks, heartbeat, look, silence>>

Write(i) ==
    /\ publishing[i] = "checked"
    /\ publishing' = [publishing EXCEPT ![i] = "written"]
    /\ temporary' = [epoch |-> count[lease[i]], age |-> observed[i]]
    /\ observed' = [observed EXCEPT ![i] = 0]
    /\ UNCHANGED <<locks, heartbeat, look, silence>>

\* os.replace, which raises when another process renamed the file first.
Replace(i) ==
    /\ publishing[i] = "written"
    /\ publishing' = [publishing EXCEPT ![i] = "idle"]
    /\ heartbeat' = IF temporary = NoBeat THEN heartbeat ELSE temporary
    /\ temporary' = NoBeat
    /\ UNCHANGED <<locks, observed, look, silence>>

-----------------------------------------------------------------------------
read_current_epoch == IF named = 0 THEN 0 ELSE count[named]

\* A round of run_until_cancel_requested takes the time first ...
mono_ns ==
    /\ watchdog = "waiting" /\ timer = 0
    /\ watchdog' = "clock"
    /\ lag' = 0
    /\ UNCHANGED <<locks, publication, timer, seen, silence>>

\* ... then the epoch of the lock file ...
ReadEpoch ==
    /\ watchdog = "clock"
    /\ watchdog' = "epoch"
    /\ seen' = read_current_epoch
    /\ UNCHANGED <<locks, publication, timer, lag, silence>>

\* Mutant: a gap that reaches the limit is over it.
bybit_writer_timeout_Strict(epoch, beat) ==
    \/ epoch = 0 \/ beat.epoch = 0
    \/ epoch # beat.epoch
    \/ beat.age < lag
    \/ beat.age - lag \geq max_gap

\* Mutant: the heartbeat of the named epoch is good for ever.
bybit_writer_timeout_Ageless(epoch, beat) ==
    \/ epoch = 0 \/ beat.epoch = 0
    \/ epoch # beat.epoch
    \/ beat.age < lag

\* A heartbeat younger than the clock reading lies in its future.
bybit_writer_timeout(epoch, beat) ==
    \/ epoch = 0 \/ beat.epoch = 0
    \/ epoch # beat.epoch
    \/ beat.age < lag
    \/ beat.age - lag > max_gap

\* ... then the heartbeat, which decides.
ReadHeartbeat ==
    /\ watchdog = "epoch"
    /\ IF bybit_writer_timeout(seen, heartbeat)
       THEN /\ watchdog' = "cancelling"
            /\ UNCHANGED <<timer, lag>>
       ELSE /\ watchdog' = "waiting"
            /\ timer' = interval
            /\ lag' = 0
    /\ seen' = 0
    /\ UNCHANGED <<locks, publication, silence>>

\* One request: it returns, and so does the loop, or it raises.
cancel_all ==
    /\ watchdog = "cancelling"
    /\ watchdog' \in {"requested", "failed"}
    /\ UNCHANGED <<locks, publication, timer, lag, seen, silence>>

stop_requested ==
    /\ watchdog = "waiting" /\ timer = 0
    /\ watchdog' = "stopped"
    /\ UNCHANGED <<locks, publication, timer, lag, seen, silence>>

\* Time passes, up to MaxDelay while the watchdog has something to do.
Tick ==
    /\ CASE watchdog = "waiting" /\ timer > 0 ->
               timer' = timer - 1 /\ UNCHANGED lag
         [] watchdog \in Running /\ (watchdog = "waiting" => timer = 0) ->
               lag < MaxDelay /\ lag' = lag + 1 /\ UNCHANGED timer
         [] OTHER -> UNCHANGED <<timer, lag>>
    /\ observed' = [i \in Instances |-> 
                      IF publishing[i] = "checked" THEN Older(observed[i], Stale) ELSE 0]
    /\ temporary' = [temporary EXCEPT !.age = Older(@, Stale)]
    /\ heartbeat' = [heartbeat EXCEPT !.age = Older(@, Stale)]
    /\ silence' = Older(silence, Late)
    /\ UNCHANGED <<locks, publishing, watchdog, seen>>

Healthy ==
    /\ named # 0
    /\ heartbeat.epoch = count[named]
    /\ heartbeat.age \leq max_gap

Writer(i) ==
    \/ Acquire(i) \/ Exit(i) \/ demote_to_cancel_only(i)
    \/ Check(i) \/ Invalidated(i) \/ Write(i) \/ Replace(i)

Round == mono_ns \/ ReadEpoch \/ ReadHeartbeat \/ cancel_all

Next ==
    /\ Unlink \/ Round \/ stop_requested \/ Tick \/ \E i \in Instances : Writer(i)
    /\ calm' = (Healthy' /\ (calm \/ (watchdog = "waiting" /\ watchdog' = "clock")))

\* The host runs the watchdog, and time passes.
Spec == Init /\ [][Next]_vars /\ WF_vars(Round /\ Next) /\ WF_vars(Tick /\ Next)

-----------------------------------------------------------------------------
\* A writer that dies, hangs, is demoted or loses its lock file cannot keep the
\* watchdog waiting: whatever is renamed late or by a process that lost the
\* account, no heartbeat hides a silence longer than this.
SilenceIsNoticed ==
    watchdog \in Running => silence \leq max_gap + interval + 3 * MaxDelay

\* A writer that was healthy all through a round only has its orders cancelled
\* when its heartbeat is younger than the clock reading of the round: whatever
\* epochs come and go between the two files the watchdog reads.
HealthyIsSpared ==
    [][watchdog = "epoch" /\ watchdog' = "cancelling" /\ calm => heartbeat.age < lag]_vars

\* The docstring of request_bybit_cancel_on_timeout: a healthy writer causes no
\* venue call.
HealthyCausesNoCall == watchdog = "cancelling" => ~ calm

\* When nobody publishes any more the watchdog ends its waiting, with a cancel
\* request unless it was stopped.
AbandonedIsCancelled == <>[](silence # 0) => <>(watchdog \in Ended)
=============================================================================
