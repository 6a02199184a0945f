----------------------------- MODULE ShardWriter -----------------------------
(***************************************************************************)
(* The durable event log (data/shard.py): a writer appends events to the   *)
(* shard of the current UTC hour, which nobody reads; at the end of the    *)
(* hour it finalizes the shard and lists it in the manifest, and replay    *)
(* reads what the manifest lists.  The writer may be killed between any    *)
(* two steps, the power may fail, any write of it may raise, the clock may *)
(* be set back, and the next process may have the same boot id.            *)
(*                                                                         *)
(* One writer at a time has the root.  The code synchronises files and no  *)
(* directory: names are assumed to survive a power failure, contents only  *)
(* when they are synchronised.                                             *)
(***************************************************************************)
EXTENDS Naturals, FiniteSets, SequencesExt

CONSTANTS BootIds,     \* boot ids: numbers, in the order of the strings
          Sequences,   \* values of seq_within_boot
          HOUR_NS,     \* length of an hour
          MaxClock,    \* bound: the wall clock
          MaxEvents,   \* bound: events appended
          MaxWriters,  \* bound: writers started
          MaxFailures  \* bound: shards to which a write of data raises

ASSUME KeyAssumption == BootIds \subseteq Nat \ {0} /\ Sequences \subseteq Nat
ASSUME BoundAssumption == {HOUR_NS, MaxClock} \subseteq Nat \ {0} /\ {MaxEvents, MaxWriters, MaxFailures} \subseteq Nat

VARIABLES
    clock,      \* the wall clock
    writers,    \* writers started so far
    boot_id,    \* of the writer, NoBoot when there is none
    hour,       \* _hour: of the shard opened last, or NoHour
    stage,      \* of the shard: "none" is open, "open", "ended" when closing its
                \* compressed data raised, or a step of _finalize
    waiting,    \* the event that comes after the hour's end, or NoEvent
    last_key,   \* _last_event_key, or NoEvent
    names,      \* disk: the files of the shard directory
    content,    \* disk: what each shard holds
    synced,     \* disk: shards whose content survives a power failure
    manifest,   \* disk: its lines
    appended,   \* history: the events whose append_event returned
    failed,     \* history: the shards to which a write of data raised
    line_failed, \* history: a manifest line was written in part, or lost
    set_back    \* history: the clock was set back

writer == <<boot_id, hour, stage, waiting, last_key>>
disk == <<names, content, synced, manifest>>
vars == <<clock, writers, boot_id, hour, stage, waiting, last_key, names, content,
          synced, manifest, appended, failed, line_failed, set_back>>
faults == <<failed, line_failed, set_back>>

NoBoot == 0
NoHour == 0
Times == 1 .. MaxClock
_hour_label(ns) == 1 + ns \div HOUR_NS
Hours == {_hour_label(t) : t \in Times}
Shards == [hour : Hours, boot : BootIds]
Events == [ns : Times, boot : BootIds, seq : Sequences]
NoEvent == [ns |-> 0, boot |-> NoBoot, seq |-> 0]

Names == [shard : Shards, kind : {"partial", "final", "sidecar"}]
Named(s, kind) == [shard |-> s, kind |-> kind]

\* What a shard holds.  Compressed data without its end reads like Cut, and so
\* does data of which a write raised: the compressor has taken bytes that its
\* checksum does not count.
Cut == NoEvent
Contents == Seq(Events \cup {Cut})

ShardOf(e) == [hour |-> _hour_label(e.ns), boot |-> e.boot]

\* A manifest line names a shard and its checksum, or is torn.
Torn == [torn |-> TRUE]
Lines == [shard : Shards, sha256 : Contents] \cup {Torn}

\* _event_key is ordered by time, then boot id, then sequence number.
Before(e, f) ==
    \/ e.ns < f.ns
    \/ e.ns = f.ns /\ e.boot < f.boot
    \/ e.ns = f.ns /\ e.boot = f.boot /\ e.seq < f.seq

Stages == {"none", "open", "ended", "synced", "linked", "unlinked", "summed", "listed"}

\* The types; only a writer has a file open, and then it has an hour.
TypeOK ==
    /\ clock \in Times
    /\ writers \in 0 .. MaxWriters
    /\ boot_id \in BootIds \cup {NoBoot}
    /\ hour \in Hours \cup {NoHour}
    /\ stage \in Stages
    /\ waiting \in Events \cup {NoEvent}
    /\ last_key \in Events \cup {NoEvent}
    /\ names \subseteq Names
    /\ content \in [Shards -> Contents]
    /\ synced \subseteq Shards
    /\ manifest \in Seq(Lines)
    /\ appended \in Seq(Events)
    /\ failed \subseteq Shards
    /\ line_failed \in BOOLEAN
    /\ set_back \in BOOLEAN
    /\ stage # "none" => boot_id # NoBoot /\ hour # NoHour

Init ==
    /\ clock = 1 /\ writers = 0
    /\ boot_id = NoBoot /\ hour = NoHour /\ stage = "none"
    /\ waiting = NoEvent /\ last_key = NoEvent
    /\ names = {}
    /\ content = [s \in Shards |-> << >>]
    /\ synced = {}
    /\ manifest = << >>
    /\ appended = << >>
    /\ failed = {} /\ line_failed = FALSE /\ set_back = FALSE

-----------------------------------------------------------------------------
shard == [hour |-> hour, boot |-> boot_id]

\* A process starts a writer: a boot takes time.
ShardWriter(b) ==
    /\ boot_id = NoBoot
    /\ writers < MaxWriters /\ clock < MaxClock
    /\ writers' = writers + 1
    /\ clock' = clock + 1
    /\ boot_id' = b
    /\ hour' = NoHour /\ stage' = "none" /\ waiting' = NoEvent /\ last_key' = NoEvent
    /\ UNCHANGED <<disk, appended, faults>>

\* Writes the length and the record, after what the shard holds.
Write(e, s, before) ==
    /\ content' = [content EXCEPT ![s] = Append(before, e)]
    /\ synced' = synced \ {s}
    /\ appended' = Append(appended, e)
    /\ last_key' = e
    /\ UNCHANGED failed

\* The data of a shard is damaged from here on, or not.
Damaged(s, before) ==
    /\ content' \in {[content EXCEPT ![s] = before],
                     [content EXCEPT ![s] = IF Contains(before, Cut) THEN before
                                            ELSE Append(before, Cut)]}
    /\ failed' = failed \cup {s}
    /\ Cardinality(failed') \leq MaxFailures

\* One of the two writes raises: the event does not count as appended, and the
\* writer stays usable.
Write_Fails(s, before) ==
    /\ Damaged(s, before)
    /\ synced' = synced \ {s}
    /\ UNCHANGED <<appended, last_key>>

\* "event order key did not advance" otherwise.
Advances(e) == last_key = NoEvent \/ Before(last_key, e)

\* append_event, in the hour of the shard or in a later one.
append_event(seq) ==
    LET e == [ns |-> clock, boot |-> boot_id, seq |-> seq]
    IN  /\ boot_id # NoBoot
        /\ stage \in {"none", "open", "ended"} /\ waiting = NoEvent
        /\ Len(appended) < MaxEvents
        /\ Advances(e)
        /\ \/ /\ stage = "open" /\ _hour_label(clock) = hour
              /\ Write(e, shard, content[shard]) \/ Write_Fails(shard, content[shard])
              /\ UNCHANGED <<boot_id, hour, stage, waiting, names, manifest>>
           \/ /\ _hour_label(clock) > hour
              /\ waiting' = e
              /\ UNCHANGED <<boot_id, hour, stage, last_key, disk, appended, failed>>
        /\ UNCHANGED <<clock, writers, line_failed, set_back>>

\* Mutant: the names in use are not looked at.
Taken_Never(s) == FALSE

\* "shard path already exists": the boot id was used before in this hour.
Taken(s) == names \cap {Named(s, "final"), Named(s, "partial")} # {}

\* append refuses the event when _open does, because the path is taken or the
\* file cannot be made; it may be tried again.  The first write follows.
_open ==
    LET s == [hour |-> _hour_label(waiting.ns), boot |-> boot_id]
    IN  /\ stage = "none" /\ waiting # NoEvent
        /\ waiting' = NoEvent
        /\ \/ UNCHANGED <<hour, stage, last_key, names, content, synced, appended, failed>>
           \/ /\ ~ Taken(s)
              /\ hour' = s.hour
              /\ stage' = "open"
              /\ names' = names \cup {Named(s, "partial")}
              /\ Write(waiting, s, << >>) \/ Write_Fails(s, << >>)
        /\ UNCHANGED <<clock, writers, boot_id, manifest, line_failed, set_back>>

-----------------------------------------------------------------------------
\* _finalize, for an event of a later hour or for close: every step of it is on
\* disk before the next.
Step(from, to) ==
    /\ stage \in from
    /\ stage' = to
    /\ UNCHANGED <<clock, writers, hour, waiting, last_key, appended, faults>>

\* Mutant: the shard is not synchronised.
fsync_Dropped ==
    /\ Step({"open", "ended"}, "synced")
    /\ UNCHANGED <<boot_id, disk>>

\* The disk is full when the compressed data is ended, or when it is flushed: the
\* append or close raises, and the next one of a later hour starts here again,
\* whether or not the end was written.
close_Fails ==
    /\ stage = "open"
    /\ stage' = "ended"
    /\ waiting' = NoEvent
    /\ Damaged(shard, content[shard])
    /\ UNCHANGED <<clock, writers, boot_id, hour, last_key, names, synced, manifest,
                   appended, line_failed, set_back>>

\* The end of the compressed data is written and synchronised.
fsync ==
    /\ Step({"open", "ended"}, "synced")
    /\ synced' = synced \cup {shard}
    /\ UNCHANGED <<boot_id, names, content, manifest>>

link ==
    /\ Step({"synced"}, "linked")
    /\ names' = names \cup {Named(shard, "final")}
    /\ UNCHANGED <<boot_id, content, synced, manifest>>

unlink ==
    /\ Step({"linked"}, "unlinked")
    /\ names' = names \ {Named(shard, "partial")}
    /\ UNCHANGED <<boot_id, content, synced, manifest>>

\* Mutant: no sidecar.
write_sidecar_Skipped ==
    /\ Step({"unlinked"}, "summed")
    /\ UNCHANGED <<boot_id, disk>>

write_sidecar ==
    /\ Step({"unlinked"}, "summed")
    /\ names' = names \cup {Named(shard, "sidecar")}
    /\ UNCHANGED <<boot_id, content, synced, manifest>>

write_entry ==
    /\ Step({"summed"}, "listed")
    /\ manifest' = Append(manifest, [shard |-> shard, sha256 |-> content[shard]])
    /\ UNCHANGED <<boot_id, names, content, synced>>

\* The line is synchronised: append goes on with its event, or close is done.
fsync_manifest ==
    /\ Step({"listed"}, "none")
    /\ boot_id' = IF waiting = NoEvent THEN NoBoot ELSE boot_id
    /\ UNCHANGED disk

\* close, when no shard is open.
close ==
    /\ boot_id # NoBoot /\ stage = "none" /\ waiting = NoEvent
    /\ boot_id' = NoBoot
    /\ UNCHANGED <<clock, writers, hour, stage, waiting, last_key, disk, appended, faults>>

\* Mutant: the shard is still open.
Gone_Open ==
    /\ boot_id # NoBoot
    /\ boot_id' = NoBoot /\ hour' = NoHour /\ waiting' = NoEvent /\ last_key' = NoEvent
    /\ UNCHANGED <<clock, writers, stage, appended, failed, set_back>>

\* The process is gone with all it knew; so is a writer that raised at a later
\* step of _finalize, because from then on every call of it raises.
Gone ==
    /\ boot_id # NoBoot
    /\ boot_id' = NoBoot /\ hour' = NoHour /\ stage' = "none"
    /\ waiting' = NoEvent /\ last_key' = NoEvent
    /\ UNCHANGED <<clock, writers, appended, failed, set_back>>

Kill == Gone /\ UNCHANGED <<disk, line_failed>>

\* The disk is full in the middle of a manifest line.
WriteFails ==
    /\ Gone
    /\ stage = "summed"
    /\ manifest' = Append(manifest, Torn)
    /\ line_failed' = TRUE
    /\ UNCHANGED <<names, content, synced>>

\* What was not synchronised is lost, the last manifest line perhaps in part.
PowerLoss ==
    /\ Gone
    /\ content' = [s \in Shards |-> IF s \in synced THEN content[s] ELSE << >>]
    /\ manifest' \in IF stage = "listed"
                     THEN {manifest, Front(manifest), Append(Front(manifest), Torn)}
                     ELSE {manifest}
    /\ line_failed' = (line_failed \/ stage = "listed")
    /\ UNCHANGED <<names, synced>>

Tick ==
    /\ clock < MaxClock
    /\ clock' = clock + 1
    /\ UNCHANGED <<writers, writer, disk, appended, faults>>

SetBack ==
    /\ ~ set_back
    /\ clock' \in 1 .. clock - 1
    /\ set_back' = TRUE
    /\ UNCHANGED <<writers, writer, disk, appended, failed, line_failed>>

_finalize == fsync \/ link \/ unlink \/ write_sidecar \/ write_entry \/ fsync_manifest

Next ==
    \/ \E b \in BootIds : ShardWriter(b)
    \/ \E n \in Sequences : append_event(n)
    \/ _open \/ _finalize \/ close \/ close_Fails
    \/ Kill \/ WriteFails \/ PowerLoss
    \/ Tick \/ SetBack

Spec == Init /\ [][Next]_vars

-----------------------------------------------------------------------------
\* Replay: what the manifest lists, whole shards in the order of its lines.
load_manifest(lines) == lines # << >> /\ \A i \in 1 .. Len(lines) : lines[i] # Torn

\* "missing shard evidence" and the checksum mismatches otherwise.
Intact(line) ==
    /\ {Named(line.shard, "final"), Named(line.shard, "sidecar")} \subseteq names
    /\ content[line.shard] = line.sha256

\* gzip raises EOFError, BadGzipFile or zlib.error, or the lengths do not add up.
IsCut(line) == Contains(content[line.shard], Cut)

replay_records(lines) == FlattenSeq([i \in 1 .. Len(lines) |-> content[lines[i].shard]])

\* "event order key moved backwards" otherwise.
Ordered(records) ==
    \A i \in 1 .. Len(records) - 1 : ~ Before(records[i + 1], records[i])

Replays ==
    /\ load_manifest(manifest)
    /\ \A i \in 1 .. Len(manifest) : Intact(manifest[i]) /\ ~ IsCut(manifest[i])
    /\ Ordered(replay_records(manifest))

-----------------------------------------------------------------------------
\* Every line that replay can read has its shard, its sidecar and the content
\* that was summed, whatever was interrupted and whoever wrote since.
ListedIsIntact ==
    \A i \in 1 .. Len(manifest) : manifest[i] # Torn => Intact(manifest[i])

\* The records are the elements of s at these places, all of them and in order.
AreAt(records, s, places) ==
    \E f \in [1 .. Len(records) -> places] :
        /\ \A i, j \in 1 .. Len(records) : i < j => f[i] < f[j]
        /\ \A k \in places : \E i \in 1 .. Len(records) : f[i] = k
        /\ \A i \in 1 .. Len(records) : records[i] = s[f[i]]

\* A replay shows whole hours: of each shard that is listed every event whose
\* append returned, in the order of the appends, none twice and nothing else.
ReplayIsFaithful ==
    Replays =>
        LET listed == {manifest[i].shard : i \in 1 .. Len(manifest)}
            records == replay_records(manifest)
        IN  /\ AreAt(records, appended,
                     {k \in 1 .. Len(appended) : ShardOf(appended[k]) \in listed})
            /\ \A i, j \in 1 .. Len(records) : records[i] = records[j] => i = j

\* Damage stays where it was done.  A listed shard to which no write of data
\* raised is intact, readable and holds every event of its hour whose append
\* returned, in order, also when replay refuses the log for something else; and
\* replay refuses the log only after the clock was set back, a manifest line was
\* not written whole, or a shard was listed to which a write of data had raised.
RefusalIsExplained ==
    LET sound == {i \in 1 .. Len(manifest) :
                     manifest[i] # Torn /\ manifest[i].shard \notin failed}
    IN  /\ \A i \in sound :
              /\ Intact(manifest[i]) /\ ~ IsCut(manifest[i])
              /\ AreAt(content[manifest[i].shard], appended,
                       {k \in 1 .. Len(appended) : ShardOf(appended[k]) = manifest[i].shard})
        /\ manifest # << >> /\ ~ Replays =>
              \/ set_back
              \/ line_failed
              \/ \E i \in 1 .. Len(manifest) \ sound : manifest[i] # Torn
=============================================================================
