--------------------------- MODULE WatchdogProofs ---------------------------
(***************************************************************************)
(* Proofs about Watchdog, for any processes, gap, interval, delay and      *)
(* bounds: no silence of the writers is hidden from the watchdog for       *)
(* longer than its gap, its interval and three delays, and a writer that   *)
(* is healthy all through a round is spared but for a heartbeat from the   *)
(* future.                                                                 *)
(***************************************************************************)
EXTENDS Watchdog, TLAPS

\* Files that are not created yet are free, and the lock file that has a name or a
\* holder has an epoch.
LockInv ==
    /\ named \leq created
    /\ \A n \in Files : n > created => flocked[n] = NoOne
    /\ \A n \in Files : n = named \/ flocked[n] # NoOne => count[n] # 0

\* An age is at least the silence, as far as ages are told apart.
Covers(age) == silence \leq age \/ age = Stale

\* No clock reading on its way to the heartbeat file, and none in it, is younger
\* than the last that a lease holder took.
AgeInv ==
    /\ \A i \in Instances : publishing[i] = "checked" => Covers(observed[i])
    /\ Covers(temporary.age) /\ Covers(heartbeat.age)

\* How long the writers may have been silent, at each point of a round.
RoundInv ==
    /\ watchdog = "waiting" => silence + timer \leq max_gap + interval + MaxDelay + lag
    /\ watchdog \in {"clock", "epoch"} => silence \leq max_gap + interval + 2 * MaxDelay + lag

\* While the writer stays healthy, the epoch that a round has read stays the one
\* in the lock file.
CalmInv ==
    /\ calm => Healthy
    /\ calm /\ watchdog = "epoch" => seen = count[named]

\* The inductive invariant.
IInv == TypeOK /\ LockInv /\ AgeInv /\ RoundInv /\ CalmInv

-----------------------------------------------------------------------------
\* The constants are numbers.
LEMMA Constants ==
    /\ max_gap \in Nat /\ max_gap > 0 /\ interval \in Nat /\ interval > 0
    /\ MaxDelay \in Nat /\ MaxFiles \in Nat /\ MaxEpoch \in Nat
    /\ Late \in Nat /\ Stale \in Nat /\ Late = max_gap + interval + 3 * MaxDelay + 1
    /\ Stale = max_gap + MaxDelay + 1
BY TimeAssumption, BoundAssumption DEF Late, Stale

\* What is as old as it gets stays so, and the rest gets older.
LEMMA OlderIs ==
    ASSUME NEW limit \in Nat, NEW age \in 0 .. limit
    PROVE  /\ Older(age, limit) \in 0 .. limit
           /\ Older(age, limit) = IF age = limit THEN limit ELSE age + 1
BY DEF Older

\* The age of a heartbeat.
LEMMA BeatAge ==
    ASSUME NEW beat \in Beats
    PROVE  beat.age \in Ages /\ beat.age \in Nat
BY Constants DEF Beats, NoBeat, Ages

\* A heartbeat that gets older is one still.
LEMMA BeatOlder ==
    ASSUME NEW beat \in Beats
    PROVE  /\ beat.age \in Ages
           /\ [beat EXCEPT !.age = Older(@, Stale)] \in Beats
           /\ [beat EXCEPT !.age = Older(@, Stale)].age = Older(beat.age, Stale)
<1>1. Stale \in Nat
    BY Constants
<1>2. beat.age \in Ages
    BY <1>1 DEF Beats, NoBeat, Ages
<1>3. Older(beat.age, Stale) \in Ages
    BY <1>1, <1>2, OlderIs DEF Ages
<1>4. CASE beat \in [epoch : 1 .. MaxEpoch, age : Ages]
    BY <1>2, <1>3, <1>4 DEF Beats
<1>5. CASE beat = NoBeat
    <2>1. Older(Stale, Stale) = Stale
        BY <1>1 DEF Older
    <2> QED BY <1>2, <1>5, <2>1 DEF Beats, NoBeat
<1> QED BY <1>4, <1>5 DEF Beats

\* A process that ends or loses its lock file gives up the locks it has.
LEMMA UnlockedIs ==
    ASSUME TypeOK, NEW i \in Instances
    PROVE  /\ Unlocked(i) \in [Files -> Instances \cup {NoOne}]
           /\ \A n \in Files : Unlocked(i)[n] \in {flocked[n], NoOne}
           /\ \A j \in Instances : j # i /\ lease[j] # 0 => Unlocked(i)[lease[j]] = j
BY DEF TypeOK, Unlocked, Files

-----------------------------------------------------------------------------
\* What each step does to the lock files.
LEMMA LockStep ==
    ASSUME TypeOK, LockInv, [Next]_vars
    PROVE  /\ named' \in 0 .. MaxFiles /\ created' \in 0 .. MaxFiles
           /\ count' \in [Files -> 0 .. MaxEpoch]
           /\ flocked' \in [Files -> Instances \cup {NoOne}]
           /\ lease' \in [Instances -> 0 .. MaxFiles]
           /\ \A i \in Instances : lease'[i] # 0 => flocked'[lease'[i]] = i
           /\ LockInv'
<1> USE DEF TypeOK, LockInv
<1>1. Files \subseteq Nat \ {0} /\ MaxFiles \in Nat /\ MaxEpoch \in Nat
    BY Constants DEF Files
<1>2. ASSUME NEW i \in Instances, Acquire(i)
      PROVE  /\ named' \in 0 .. MaxFiles /\ created' \in 0 .. MaxFiles
             /\ count' \in [Files -> 0 .. MaxEpoch]
             /\ flocked' \in [Files -> Instances \cup {NoOne}]
             /\ lease' \in [Instances -> 0 .. MaxFiles]
             /\ \A j \in Instances : lease'[j] # 0 => flocked'[lease'[j]] = j
             /\ LockInv'
    <2>1. /\ named' \in Files /\ named' \leq created'
          /\ created' \in 0 .. MaxFiles /\ created \leq created'
          /\ flocked[named'] = NoOne
        BY <1>1, <1>2 DEF Acquire, Files
    <2>2. /\ count' = [count EXCEPT ![named'] = @ + 1] /\ count[named'] < MaxEpoch
          /\ flocked' = [flocked EXCEPT ![named'] = i]
          /\ lease' = [lease EXCEPT ![i] = named']
        BY <1>2 DEF Acquire
    <2>3. /\ count' \in [Files -> 0 .. MaxEpoch] /\ count'[named'] # 0
          /\ \A n \in Files : n # named' => count'[n] = count[n]
        BY <1>1, <2>1, <2>2
    <2>4. /\ flocked' \in [Files -> Instances \cup {NoOne}] /\ flocked'[named'] = i
          /\ \A n \in Files : n # named' => flocked'[n] = flocked[n]
        BY <2>1, <2>2
    <2>5. lease' \in [Instances -> 0 .. MaxFiles]
        BY <1>1, <2>1, <2>2 DEF Files
    <2>6. \A j \in Instances : lease'[j] # 0 => flocked'[lease'[j]] = j
        <3> TAKE j \in Instances
        <3>1. CASE j = i
            BY <2>2, <2>4, <3>1
        <3>2. CASE j # i
            <4>1. lease'[j] = lease[j]
                BY <2>2, <3>2
            <4>2. lease[j] # 0 => lease[j] \in Files /\ flocked[lease[j]] = j
                BY <1>1 DEF Files
            <4>3. lease[j] # named'
                <5>1. named' # 0
                    BY <1>1, <2>1
                <5> QED BY <2>1, <4>2, <5>1, NoOneAssumption
            <4> QED BY <2>4, <4>1, <4>2, <4>3
        <3> QED BY <3>1, <3>2
    <2>7. LockInv'
        <3>1. \A n \in Files : n > created' => n # named' /\ n > created
            BY <1>1, <2>1
        <3>2. \A n \in Files : n > created' => flocked'[n] = NoOne
            BY <2>4, <3>1
        <3>3. \A n \in Files : n = named' \/ flocked'[n] # NoOne => count'[n] # 0
            BY <2>3, <2>4
        <3> QED BY <2>1, <3>2, <3>3
    <2>8. named' \in 0 .. MaxFiles /\ count' \in [Files -> 0 .. MaxEpoch]
        BY <1>1, <2>1, <2>3 DEF Files
    <2> HIDE DEF TypeOK, LockInv
    <2> QED BY <2>1, <2>4, <2>5, <2>6, <2>7, <2>8
<1>3. ASSUME NEW i \in Instances, Exit(i) \/ Invalidated(i)
      PROVE  /\ UNCHANGED <<named, created, count>>
             /\ flocked' \in [Files -> Instances \cup {NoOne}]
             /\ lease' \in [Instances -> 0 .. MaxFiles]
             /\ \A j \in Instances : lease'[j] # 0 => flocked'[lease'[j]] = j
             /\ \A n \in Files : flocked'[n] \in {flocked[n], NoOne}
    <2>1. /\ UNCHANGED <<named, created, count>>
          /\ flocked' = Unlocked(i)
          /\ lease' = [lease EXCEPT ![i] = 0]
        BY <1>3 DEF Exit, Invalidated
    <2>2. \A j \in Instances : lease'[j] # 0 => j # i /\ lease'[j] = lease[j]
        BY <2>1
    <2>3. lease' \in [Instances -> 0 .. MaxFiles]
        BY <1>1, <2>1
    <2> HIDE DEF TypeOK
    <2> QED BY <2>1, <2>2, <2>3, UnlockedIs
<1>4. ASSUME NEW i \in Instances, demote_to_cancel_only(i)
      PROVE  /\ UNCHANGED <<named, created, count, flocked>>
             /\ lease' = [lease EXCEPT ![i] = 0]
    BY <1>4 DEF demote_to_cancel_only
<1>5. CASE Unlink
    BY <1>1, <1>5 DEF Unlink
<1>6. CASE UNCHANGED locks
    BY <1>6 DEF locks
<1>7. ASSUME NEW i \in Instances, Check(i) \/ Write(i) \/ Replace(i)
      PROVE  UNCHANGED locks
    BY <1>7 DEF Check, Write, Replace
<1>8. CASE Round \/ stop_requested \/ Tick
    BY <1>6, <1>8 DEF Round, mono_ns, ReadEpoch, ReadHeartbeat, cancel_all, stop_requested, Tick
<1>9. CASE UNCHANGED vars
    BY <1>6, <1>9 DEF vars, locks
<1>10. ASSUME NEW i \in Instances, Writer(i)
       PROVE  /\ named' \in 0 .. MaxFiles /\ created' \in 0 .. MaxFiles
              /\ count' \in [Files -> 0 .. MaxEpoch]
              /\ flocked' \in [Files -> Instances \cup {NoOne}]
              /\ lease' \in [Instances -> 0 .. MaxFiles]
              /\ \A j \in Instances : lease'[j] # 0 => flocked'[lease'[j]] = j
              /\ LockInv'
    BY <1>1, <1>2, <1>3, <1>4, <1>6, <1>7, <1>10 DEF Writer
<1> QED BY <1>5, <1>8, <1>9, <1>10 DEF Next

\* The types are kept by every step.
LEMMA TypeStep ==
    ASSUME TypeOK, LockInv, [Next]_vars
    PROVE  TypeOK'
<1>1. /\ named' \in 0 .. MaxFiles /\ created' \in 0 .. MaxFiles
      /\ count' \in [Files -> 0 .. MaxEpoch]
      /\ flocked' \in [Files -> Instances \cup {NoOne}]
      /\ lease' \in [Instances -> 0 .. MaxFiles]
      /\ \A i \in Instances : lease'[i] # 0 => flocked'[lease'[i]] = i
    BY LockStep
<1>2. calm' \in BOOLEAN
    BY DEF Next, Healthy, vars, TypeOK
<1> DEFINE Published ==
        /\ publishing \in [Instances -> {"idle", "checked", "written"}]
        /\ observed \in [Instances -> Ages]
        /\ temporary \in Beats /\ heartbeat \in Beats
        /\ silence \in 0 .. Late
        /\ \A i \in Instances : publishing[i] # "idle" => lease[i] # 0
           Looked ==
        /\ watchdog \in Running \cup {"cancelling"} \cup Ended
        /\ timer \in 0 .. interval /\ lag \in 0 .. MaxDelay /\ seen \in 0 .. MaxEpoch
<1>3. Published /\ Looked /\ named \in 0 .. MaxFiles /\ count \in [Files -> 0 .. MaxEpoch]
    BY DEF TypeOK
<1>4. Stale \in Nat /\ Late \in Nat /\ 0 \in Ages /\ NoBeat \in Beats
    BY Constants DEF Ages, Beats
<1>5. ASSUME NEW i \in Instances, Writer(i)
      PROVE  Published'
    <2>1. CASE Acquire(i) \/ demote_to_cancel_only(i) \/ Invalidated(i)
        <3>1. UNCHANGED <<publication, silence>>
            BY <2>1 DEF Acquire, demote_to_cancel_only, Invalidated
        <3>2. \A j \in Instances : lease'[j] = lease[j] \/ j = i
            BY <2>1, <1>1 DEF Acquire, demote_to_cancel_only, Invalidated, TypeOK
        <3>3. lease'[i] # 0 \/ publishing[i] = "idle"
            <4>1. CASE Acquire(i)
                <5>1. lease' = [lease EXCEPT ![i] = named']
                    BY <4>1 DEF Acquire
                <5>2. named' # 0
                    BY <4>1, Constants DEF Acquire, TypeOK
                <5> QED BY <5>1, <5>2 DEF TypeOK
            <4>2. CASE demote_to_cancel_only(i) \/ Invalidated(i)
                BY <4>2 DEF demote_to_cancel_only, Invalidated
            <4> QED BY <2>1, <4>1, <4>2
        <3> QED BY <1>3, <3>1, <3>2, <3>3 DEF publication
    <2>2. CASE Exit(i)
        BY <1>3, <1>4, <2>2 DEF Exit, TypeOK
    <2>3. CASE Check(i)
        BY <1>3, <1>4, <2>3 DEF Check, locks
    <2>4. CASE Write(i)
        <3>1. lease[i] \in Files /\ flocked[lease[i]] = i
            BY <2>4 DEF Write, TypeOK, Files
        <3>2. count[lease[i]] \in 1 .. MaxEpoch
            BY <3>1, NoOneAssumption DEF LockInv, TypeOK
        <3>3. temporary' \in Beats
            BY <1>3, <2>4, <3>2 DEF Write, Beats
        <3> QED BY <1>3, <1>4, <2>4, <3>3 DEF Write, locks
    <2>5. CASE Replace(i)
        BY <1>3, <1>4, <2>5 DEF Replace, locks
    <2> QED BY <1>5, <2>1, <2>2, <2>3, <2>4, <2>5 DEF Writer
<1>6. ASSUME NEW i \in Instances, Writer(i)
      PROVE  UNCHANGED look
    BY <1>6 DEF Writer, Acquire, Exit, demote_to_cancel_only, Check, Invalidated, Write, Replace
<1>7. CASE Tick
    <2>1. Published'
        <3>1. \A i \in Instances : observed'[i] \in Ages
            BY <1>3, <1>4, <1>7, OlderIs DEF Tick, Ages
        <3>2. observed' \in [Instances -> Ages]
            BY <1>7, <3>1 DEF Tick
        <3>3. temporary' \in Beats /\ heartbeat' \in Beats
            BY <1>3, <1>7, BeatOlder DEF Tick
        <3>4. silence' \in 0 .. Late
            BY <1>3, <1>4, <1>7, OlderIs DEF Tick
        <3> QED BY <1>3, <1>7, <3>2, <3>3, <3>4 DEF Tick, locks
    <2>2. Looked'
        BY <1>3, <1>7, Constants DEF Tick, Running
    <2> QED BY <1>1, <1>2, <2>1, <2>2 DEF TypeOK
<1>8. CASE Round \/ stop_requested
    <2>1. Published'
        BY <1>3, <1>8 DEF Round, mono_ns, ReadEpoch, ReadHeartbeat, cancel_all, stop_requested,
                          publication, locks
    <2>2. read_current_epoch \in 0 .. MaxEpoch
        BY <1>3, Constants DEF read_current_epoch, Files
    <2>3. Looked'
        <3>1. CASE mono_ns \/ stop_requested \/ cancel_all
            BY <1>3, <3>1, Constants DEF mono_ns, stop_requested, cancel_all, Running, Ended
        <3>2. CASE ReadEpoch
            BY <1>3, <2>2, <3>2 DEF ReadEpoch, Running
        <3>3. CASE ReadHeartbeat
            BY <1>3, <3>3, Constants DEF ReadHeartbeat, Running
        <3> QED BY <1>8, <3>1, <3>2, <3>3 DEF Round
    <2> QED BY <1>1, <1>2, <2>1, <2>3 DEF TypeOK
<1>9. CASE Unlink
    <2>1. UNCHANGED <<publication, look, silence, lease>>
        BY <1>9 DEF Unlink
    <2> QED BY <1>1, <1>2, <1>3, <2>1 DEF TypeOK, publication, look
<1>10. CASE UNCHANGED vars
    BY <1>10 DEF vars, TypeOK
<1>11. ASSUME NEW i \in Instances, Writer(i)
       PROVE  TypeOK'
    BY <1>1, <1>2, <1>3, <1>5, <1>6, <1>11 DEF TypeOK, look
<1> QED BY <1>7, <1>8, <1>9, <1>10, <1>11 DEF Next

-----------------------------------------------------------------------------
\* A clock reading gets older with the silence, and a new one ends it.
LEMMA AgeStep ==
    ASSUME TypeOK, AgeInv, [Next]_vars
    PROVE  AgeInv'
<1>1. /\ Stale \in Nat /\ Late \in Nat /\ Stale \leq Late
      /\ silence \in 0 .. Late /\ observed \in [Instances -> Ages]
      /\ publishing \in [Instances -> {"idle", "checked", "written"}]
      /\ temporary.age \in Ages /\ heartbeat.age \in Ages /\ NoBeat.age = Stale
    <2>1. temporary \in Beats /\ heartbeat \in Beats
        BY DEF TypeOK
    <2>2. temporary.age \in Ages /\ heartbeat.age \in Ages
        BY <2>1, BeatAge
    <2> QED BY <2>2, Constants DEF TypeOK, NoBeat
<1>2. ASSUME NEW age \in Ages, Covers(age), silence' = Older(silence, Late)
      PROVE  Covers(Older(age, Stale))'
    BY <1>1, <1>2 DEF Covers, Older, Ages
<1>3. CASE Tick
    <2>1. silence' = Older(silence, Late) /\ publishing' = publishing
        BY <1>3 DEF Tick
    <2>2. \A i \in Instances : publishing[i] = "checked" => observed'[i] = Older(observed[i], Stale)
        BY <1>3 DEF Tick
    <2>3. /\ temporary'.age = Older(temporary.age, Stale)
          /\ heartbeat'.age = Older(heartbeat.age, Stale)
        BY <1>3, BeatOlder DEF Tick, TypeOK
    <2>4. \A i \in Instances : publishing'[i] = "checked" => Covers(observed[i])
        BY <2>1 DEF AgeInv
    <2>5. \A i \in Instances : publishing'[i] = "checked" => Covers(observed[i])'
        BY <1>1, <1>2, <2>1, <2>2, <2>4 DEF Covers
    <2> QED BY <1>1, <1>2, <2>1, <2>3, <2>5 DEF AgeInv, Covers
<1>4. ASSUME NEW i \in Instances, Check(i)
      PROVE  AgeInv'
    BY <1>1, <1>4 DEF Check, AgeInv, Covers, Ages
<1>5. ASSUME NEW i \in Instances, Write(i)
      PROVE  AgeInv'
    <2>1. /\ silence' = silence /\ heartbeat' = heartbeat
          /\ temporary'.age = observed[i] /\ publishing[i] = "checked"
          /\ publishing' = [publishing EXCEPT ![i] = "written"]
          /\ observed' = [observed EXCEPT ![i] = 0]
        BY <1>5 DEF Write
    <2> QED BY <1>1, <2>1 DEF AgeInv, Covers
<1>6. ASSUME NEW i \in Instances, Replace(i)
      PROVE  AgeInv'
    BY <1>1, <1>6 DEF Replace, AgeInv, Covers
<1>7. ASSUME NEW i \in Instances, Exit(i)
      PROVE  AgeInv'
    BY <1>1, <1>7 DEF Exit, AgeInv, Covers
<1>8. CASE UNCHANGED <<publication, silence>>
    BY <1>8 DEF AgeInv, Covers, publication
<1>9. ASSUME NEW i \in Instances, Acquire(i) \/ demote_to_cancel_only(i) \/ Invalidated(i)
      PROVE  UNCHANGED <<publication, silence>>
    BY <1>9 DEF Acquire, demote_to_cancel_only, Invalidated
<1>10. CASE Round \/ stop_requested \/ Unlink
    BY <1>8, <1>10 DEF Round, mono_ns, ReadEpoch, ReadHeartbeat, cancel_all, stop_requested, Unlink
<1>11. CASE UNCHANGED vars
    BY <1>8, <1>11 DEF vars, publication
<1> QED BY <1>3, <1>4, <1>5, <1>6, <1>7, <1>8, <1>9, <1>10, <1>11 DEF Next, Writer

\* A round that goes on has seen a heartbeat that bounds the silence; each of its
\* waits adds no more than it may last.
LEMMA RoundStep ==
    ASSUME TypeOK, AgeInv, RoundInv, [Next]_vars
    PROVE  RoundInv'
<1>1. /\ silence \in Nat /\ timer \in Nat /\ lag \in Nat /\ lag \leq MaxDelay
      /\ timer \leq interval /\ max_gap \in Nat /\ interval \in Nat /\ MaxDelay \in Nat
      /\ heartbeat.age \in Nat /\ Stale = max_gap + MaxDelay + 1 /\ Late \in Nat
    <2>1. heartbeat.age \in Nat
        BY BeatAge DEF TypeOK
    <2> QED BY <2>1, Constants DEF TypeOK
<1>2. CASE Tick
    <2>1. silence' \in Nat /\ silence' \leq silence + 1 /\ watchdog' = watchdog
        BY <1>1, <1>2 DEF Tick, Older
    <2>2. CASE watchdog = "waiting" /\ timer > 0
        BY <1>1, <1>2, <2>1, <2>2 DEF Tick, RoundInv
    <2>3. CASE watchdog \in Running /\ (watchdog = "waiting" => timer = 0)
        <3>1. lag' = lag + 1 /\ timer' = timer
            BY <1>1, <1>2, <2>3 DEF Tick
        <3>2. ASSUME NEW limit \in Nat, silence \leq limit + lag
              PROVE  silence' \leq limit + lag'
            BY <1>1, <2>1, <3>1, <3>2
        <3>3. CASE watchdog = "waiting"
            <4>1. max_gap + interval + MaxDelay \in Nat /\ timer = 0 /\ timer' = 0
                BY <1>1, <2>3, <3>1, <3>3
            <4>2. silence \leq max_gap + interval + MaxDelay + lag
                BY <1>1, <3>3, <4>1 DEF RoundInv
            <4>3. silence' \leq max_gap + interval + MaxDelay + lag'
                BY <3>2, <4>1, <4>2
            <4>4. silence' + timer' \leq max_gap + interval + MaxDelay + lag'
                <5>1. \A n \in Nat : n + 0 = n
                    OBVIOUS
                <5> QED BY <2>1, <4>1, <4>3, <5>1
            <4> QED BY <2>1, <3>3, <4>4 DEF RoundInv
        <3>4. CASE watchdog \in {"clock", "epoch"}
            <4>1. max_gap + interval + 2 * MaxDelay \in Nat
                BY <1>1
            <4>2. silence \leq max_gap + interval + 2 * MaxDelay + lag
                BY <3>4 DEF RoundInv
            <4>3. silence' \leq max_gap + interval + 2 * MaxDelay + lag'
                BY <3>2, <4>1, <4>2
            <4> QED BY <2>1, <3>4, <4>3 DEF RoundInv
        <3> QED BY <2>3, <3>3, <3>4 DEF Running
    <2>4. CASE watchdog \notin Running
        BY <2>1, <2>4 DEF RoundInv, Running
    <2> QED BY <1>1, <2>2, <2>3, <2>4
<1>3. CASE mono_ns
    BY <1>1, <1>3 DEF mono_ns, RoundInv
<1>4. CASE ReadEpoch
    BY <1>1, <1>4 DEF ReadEpoch, RoundInv
<1>5. CASE ReadHeartbeat
    <2>1. CASE bybit_writer_timeout(seen, heartbeat)
        BY <1>5, <2>1 DEF ReadHeartbeat, RoundInv
    <2>2. CASE ~ bybit_writer_timeout(seen, heartbeat)
        <3>1. heartbeat.age \leq max_gap + MaxDelay
            BY <1>1, <2>2 DEF bybit_writer_timeout
        <3>2. silence \leq max_gap + MaxDelay
            BY <1>1, <3>1 DEF AgeInv, Covers
        <3>3. watchdog' = "waiting" /\ timer' = interval /\ lag' = 0 /\ silence' = silence
            BY <1>5, <2>2 DEF ReadHeartbeat
        <3> QED BY <1>1, <3>2, <3>3 DEF RoundInv
    <2> QED BY <2>1, <2>2
<1>6. CASE cancel_all \/ stop_requested
    BY <1>6 DEF cancel_all, stop_requested, RoundInv
<1>7. ASSUME NEW i \in Instances, Check(i)
      PROVE  RoundInv'
    BY <1>1, <1>7 DEF Check, RoundInv, look
<1>8. CASE UNCHANGED <<look, silence>>
    BY <1>8 DEF RoundInv, look
<1>9. ASSUME NEW i \in Instances, Writer(i), ~ Check(i)
      PROVE  UNCHANGED <<look, silence>>
    BY <1>9 DEF Writer, Acquire, Exit, demote_to_cancel_only, Invalidated, Write, Replace
<1>10. CASE Unlink \/ UNCHANGED vars
    BY <1>8, <1>10 DEF Unlink, vars, look
<1> QED BY <1>2, <1>3, <1>4, <1>5, <1>6, <1>7, <1>8, <1>9, <1>10 DEF Next, Round

\* A writer that stays healthy publishes under one epoch.
LEMMA CalmStep ==
    ASSUME TypeOK, LockInv, CalmInv, [Next]_vars
    PROVE  CalmInv'
<1>1. CASE UNCHANGED vars
    BY <1>1 DEF vars, CalmInv, Healthy
<1>2. CASE Next
    <2>1. calm' = (Healthy' /\ (calm \/ (watchdog = "waiting" /\ watchdog' = "clock")))
        BY <1>2 DEF Next
    <2>2. SUFFICES ASSUME calm', watchdog' = "epoch"
                   PROVE  seen' = count'[named']
        BY <2>1 DEF CalmInv
    <2>3. calm /\ Healthy /\ Healthy'
        BY <2>1, <2>2 DEF CalmInv
    <2>4. CASE ReadEpoch
        BY <2>3, <2>4 DEF ReadEpoch, read_current_epoch, Healthy, locks
    <2>5. CASE ~ ReadEpoch
        <3>1. watchdog' = watchdog /\ seen' = seen
            BY <1>2, <2>2, <2>5 DEF Next, Round, mono_ns, ReadHeartbeat, cancel_all,
                stop_requested, Tick, Unlink, Writer, Acquire, Exit, demote_to_cancel_only,
                Check, Invalidated, Write, Replace, look
        <3>2. seen = count[named]
            BY <2>2, <2>3, <3>1 DEF CalmInv
        <3>3. ASSUME NEW i \in Instances, Acquire(i)
              PROVE  FALSE
            <4>1. named # 0 /\ named' = named /\ heartbeat' = heartbeat
                BY <2>3, <3>3 DEF Healthy, Acquire, publication
            <4>2. count'[named] = count[named] + 1
                BY <3>3, <4>1 DEF Acquire, TypeOK, Files
            <4>3. count[named] \in Nat
                BY <4>1, Constants DEF TypeOK, Files
            <4> QED BY <2>3, <4>1, <4>2, <4>3 DEF Healthy
        <3>4. ~ Unlink
            BY <2>3 DEF Unlink, Healthy
        <3>5. UNCHANGED <<named, count>>
            BY <1>2, <3>3, <3>4 DEF Next, Round, mono_ns, ReadEpoch, ReadHeartbeat, cancel_all,
                stop_requested, Tick, Writer, Exit, demote_to_cancel_only,
                Check, Invalidated, Write, Replace, locks
        <3> QED BY <3>1, <3>2, <3>5
    <2> QED BY <2>4, <2>5
<1> QED BY <1>1, <1>2

-----------------------------------------------------------------------------
\* The inductive invariant holds in every behaviour (publish_heartbeat,
\* run_until_cancel_requested).
THEOREM Invariant == Spec => []IInv
<1>1. Init => IInv
    <2> SUFFICES ASSUME Init PROVE IInv
        OBVIOUS
    <2>1. TypeOK
        <3>1. NoBeat \in Beats /\ 0 \in Ages
            BY Constants DEF Beats, Ages
        <3>2. /\ named \in 0 .. MaxFiles /\ created \in 0 .. MaxFiles
              /\ timer \in 0 .. interval /\ lag \in 0 .. MaxDelay
              /\ seen \in 0 .. MaxEpoch /\ silence \in 0 .. Late
            BY Constants DEF Init
        <3>3. /\ count \in [Files -> 0 .. MaxEpoch]
              /\ lease \in [Instances -> 0 .. MaxFiles]
            BY Constants DEF Init
        <3>4. \A i \in Instances : lease[i] = 0 /\ publishing[i] = "idle"
            BY DEF Init
        <3> QED BY <3>1, <3>2, <3>3, <3>4 DEF Init, TypeOK, Running
    <2>2. LockInv /\ CalmInv
        BY Constants DEF Init, LockInv, CalmInv, Files
    <2>3. AgeInv /\ RoundInv
        BY Constants DEF Init, AgeInv, RoundInv, Covers, NoBeat
    <2> QED BY <2>1, <2>2, <2>3 DEF IInv
<1>2. IInv /\ [Next]_vars => IInv'
    BY TypeStep, LockStep, AgeStep, RoundStep, CalmStep DEF IInv
<1> QED BY <1>1, <1>2, PTL DEF Spec

\* Every variable keeps its type; a process publishes only with a primary lease,
\* whose file it has locked.
THEOREM TypeCorrect == Spec => []TypeOK
<1>1. IInv => TypeOK
    BY DEF IInv
<1> QED BY <1>1, Invariant, PTL

\* Whatever is published late or by a process that lost the account, no heartbeat
\* keeps the watchdog (run_until_cancel_requested) waiting through a silence longer
\* than its gap, its interval and three delays.
THEOREM SilenceIsNoticedHolds == Spec => []SilenceIsNoticed
<1>1. IInv => SilenceIsNoticed
    <2> SUFFICES ASSUME IInv, watchdog \in Running
                 PROVE  silence \leq max_gap + interval + 3 * MaxDelay
        BY DEF SilenceIsNoticed
    <2>1. /\ silence \in Nat /\ timer \in Nat /\ lag \in Nat /\ lag \leq MaxDelay
          /\ max_gap \in Nat /\ interval \in Nat /\ MaxDelay \in Nat
        BY Constants DEF IInv, TypeOK
    <2> QED BY <2>1 DEF IInv, RoundInv, Running
<1> QED BY <1>1, Invariant, PTL

\* A writer that was healthy all through a round has its orders cancelled only when
\* its heartbeat is younger than the clock reading of the round
\* (bybit_writer_timeout).
THEOREM HealthyIsSparedHolds == Spec => HealthyIsSpared
<1>1. ASSUME IInv, [Next]_vars
      PROVE  [watchdog = "epoch" /\ watchdog' = "cancelling" /\ calm => heartbeat.age < lag]_vars
    <2> SUFFICES ASSUME Next, watchdog = "epoch", watchdog' = "cancelling", calm
                 PROVE  heartbeat.age < lag
        BY <1>1
    <2>1. ReadHeartbeat
        BY DEF Next, Round, mono_ns, ReadEpoch, cancel_all,
               stop_requested, Tick, Unlink, Writer, Acquire, Exit, demote_to_cancel_only,
               Check, Invalidated, Write, Replace, look
    <2>2. bybit_writer_timeout(seen, heartbeat)
        BY <2>1 DEF ReadHeartbeat
    <2>3. /\ named \in Files /\ heartbeat.epoch = count[named] /\ seen = count[named]
          /\ heartbeat.age \leq max_gap
        BY <1>1, Constants DEF IInv, CalmInv, Healthy, TypeOK, Files
    <2>4. count[named] # 0
        BY <1>1, <2>3 DEF IInv, LockInv
    <2>5. heartbeat.age \in Nat /\ lag \in Nat /\ max_gap \in Nat
        BY <1>1, Constants, BeatAge DEF IInv, TypeOK
    <2> QED BY <2>2, <2>3, <2>4, <2>5 DEF bybit_writer_timeout
<1> QED BY <1>1, Invariant, PTL DEF HealthyIsSpared, Spec
=============================================================================
