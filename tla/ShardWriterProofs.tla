-------------------------- MODULE ShardWriterProofs --------------------------
(***************************************************************************)
(* Proofs about ShardWriter, for any boot ids, any length of an hour and   *)
(* any number of writers and events: what the manifest lists stays what it *)
(* was, replay shows exactly what was appended, and a kill alone never     *)
(* makes the log unreadable.                                               *)
(***************************************************************************)
EXTENDS ShardWriter, WellFoundedInduction, TLAPS

\* A shard gets its name after it is synchronised, and its line after its sidecar.
StageInv ==
    /\ stage \in {"open", "ended", "synced"} => Named(shard, "final") \notin names
    /\ stage \in {"open", "ended", "synced"} => Named(shard, "partial") \in names
    /\ stage \in {"synced", "linked", "unlinked", "summed", "listed"} => shard \in synced
    /\ stage \in {"linked", "unlinked", "summed", "listed"} => Named(shard, "final") \in names
    /\ stage \in {"summed", "listed"} => Named(shard, "sidecar") \in names
    /\ stage \in {"linked", "unlinked", "summed"} =>
          \A i \in 1 .. Len(manifest) : manifest[i] # Torn => manifest[i].shard # shard
    /\ stage = "listed" => manifest # << >>

\* A line that can be read has its shard, synchronised.
ListInv ==
    \A i \in 1 .. Len(manifest) :
        manifest[i] # Torn => Intact(manifest[i]) /\ manifest[i].shard \in synced

\* The shard of an event has a name, which nobody else may open.
NameInv ==
    \A k \in 1 .. Len(appended) :
        \E kind \in {"partial", "final"} : Named(ShardOf(appended[k]), kind) \in names

\* The shard that is open holds the last events, and only these are its own; it has
\* none of a writer that has appended nothing.
Holds(s, from) ==
    /\ \A k \in 1 .. Len(appended) : ShardOf(appended[k]) = s <=> k > from
    /\ ~ Contains(content[s], Cut) =>
          /\ Len(content[s]) = Len(appended) - from
          /\ \A i \in 1 .. Len(content[s]) : content[s][i] = appended[from + i]

OpenInv ==
    stage # "none" => \E from \in 0 .. Len(appended) :
                          Holds(shard, from) /\ (last_key = NoEvent => from = Len(appended))

\* An event that waits is the writer's and comes after its last one; the events of
\* a shard ascend.
KeyInv ==
    /\ boot_id = NoBoot => waiting = NoEvent /\ stage = "none"
    /\ waiting # NoEvent => waiting.boot = boot_id /\ Advances(waiting)
    /\ last_key # NoEvent => appended # << >> /\ last_key = appended[Len(appended)]
    /\ \A j, k \in 1 .. Len(appended) :
          j < k /\ ShardOf(appended[j]) = ShardOf(appended[k]) => Before(appended[j], appended[k])

\* Without a clock set back all events ascend; a writer starts after all of them.
TimeInv ==
    ~ set_back =>
        /\ waiting # NoEvent => waiting.ns \leq clock
        /\ \A k \in 1 .. Len(appended) :
              /\ appended[k].ns \leq clock
              /\ boot_id # NoBoot /\ last_key = NoEvent =>
                    /\ appended[k].ns < clock
                    /\ waiting # NoEvent => appended[k].ns < waiting.ns
        /\ \A j, k \in 1 .. Len(appended) : j < k => Before(appended[j], appended[k])

\* The first m lines, whose shards replay reads.
Shown(m) == [i \in 1 .. m |-> content[manifest[i].shard]]
Readable(m) == \A i \in 1 .. m : manifest[i] # Torn /\ ~ IsCut(manifest[i])
Places(m) ==
    {k \in 1 .. Len(appended) : \E i \in 1 .. m : manifest[i].shard = ShardOf(appended[k])}

\* As far as it can be read the manifest shows the events of its shards.
RecordInv ==
    \A m \in 0 .. Len(manifest) : Readable(m) => AreAt(FlattenSeq(Shown(m)), appended, Places(m))

\* A shard is damaged where a write raised, and a line is torn where one was cut
\* short; every other line has the events of its shard.
Of(s) == {k \in 1 .. Len(appended) : ShardOf(appended[k]) = s}
Explained(line) ==
    \/ line = Torn /\ line_failed
    \/ line # Torn /\ line.shard \in failed /\ IsCut(line)
    \/ line # Torn /\ ~ IsCut(line) /\ AreAt(content[line.shard], appended, Of(line.shard))
DamageInv ==
    /\ stage # "none" /\ Contains(content[shard], Cut) => shard \in failed
    /\ \A i \in 1 .. Len(manifest) : Explained(manifest[i])

\* The inductive invariant.
IInv ==
    /\ TypeOK /\ StageInv /\ ListInv /\ NameInv /\ OpenInv /\ KeyInv /\ TimeInv
    /\ RecordInv /\ DamageInv

-----------------------------------------------------------------------------
\* Among numbers there is a least one.
LEMMA LeastNumber ==
    ASSUME NEW S, S \subseteq Nat, S # {}
    PROVE  \E x \in S : \A y \in S : ~ (y < x)
<1>1. \E x \in S : \A y \in S : <<y, x>> \notin OpToRel(<, Nat)
    BY NatLessThanWellFounded, WFMin
<1>2. \A x, y \in Nat : y < x => <<y, x>> \in OpToRel(<, Nat)
    BY DEF OpToRel
<1> QED BY <1>1, <1>2

\* The function f joins the first n of the sequences ss, as FlattenSeq does.
Joins(f, ss, n) == f = [i \in 1 .. n |-> IF i = 1 THEN ss[i] ELSE f[i - 1] \o ss[i]]

\* There is one.
LEMMA JoinExists ==
    ASSUME NEW T, NEW ss \in Seq(Seq(T)), ss # << >>
    PROVE  \A n \in 1 .. Len(ss) : \E f : Joins(f, ss, n)
<1> DEFINE without == {n \in 1 .. Len(ss) : ~ \E f : Joins(f, ss, n)}
<1> SUFFICES ASSUME without # {}
             PROVE  FALSE
    OBVIOUS
<1>1. Len(ss) \in Nat /\ without \subseteq Nat
    OBVIOUS
<1>2. PICK n \in without : \A m \in without : ~ (m < n)
    BY <1>1, LeastNumber
<1>3. CASE n = 1
    <2> DEFINE f == [i \in 1 .. 1 |-> ss[1]]
    <2>1. Joins(f, ss, 1)
        BY DEF Joins
    <2> QED BY <1>2, <1>3, <2>1
<1>4. CASE n # 1
    <2>1. n - 1 \in 1 .. Len(ss) /\ n - 1 < n /\ n \in Nat
        BY <1>1, <1>2, <1>4
    <2>2. PICK f : Joins(f, ss, n - 1)
        BY <1>2, <2>1
    <2> DEFINE g == [i \in 1 .. n |-> IF i = n THEN f[n - 1] \o ss[n] ELSE f[i]]
    <2>3. n \in 1 .. n /\ (1 .. n - 1) \subseteq 1 .. n /\ n \notin 1 .. n - 1
        BY <2>1
    <2>4. g[n] = f[n - 1] \o ss[n]
        BY <2>3
    <2>7. ASSUME NEW i \in 1 .. n - 1
          PROVE  g[i] = f[i] /\ f[i] = IF i = 1 THEN ss[i] ELSE f[i - 1] \o ss[i]
        <3>1. f[i] = IF i = 1 THEN ss[i] ELSE f[i - 1] \o ss[i]
            BY <2>2 DEF Joins
        <3>2. i \in 1 .. n /\ i # n
            BY <2>3
        <3> QED BY <3>1, <3>2
    <2>5. ASSUME NEW i \in 1 .. n
          PROVE  g[i] = IF i = 1 THEN ss[i] ELSE g[i - 1] \o ss[i]
        <3>1. CASE i = n
            <4>1. n - 1 \in 1 .. n - 1
                BY <1>4, <2>1
            <4>2. g[n - 1] = f[n - 1]
                BY <2>7, <4>1
            <4> HIDE DEF g
            <4> QED BY <1>4, <2>4, <3>1, <4>2
        <3>2. CASE i # n
            <4>1. i \in 1 .. n - 1 /\ (i # 1 => i - 1 \in 1 .. n - 1)
                BY <2>1, <3>2
            <4> HIDE DEF g
            <4> QED BY <2>7, <4>1
        <3> QED BY <3>1, <3>2
    <2>6. Joins(g, ss, n)
        BY <2>5 DEF Joins
    <2> QED BY <1>2, <2>6
<1> QED BY <1>3, <1>4

\* It depends on nothing but these sequences.
LEMMA JoinUnique ==
    ASSUME NEW ss, NEW tt, NEW f, NEW g, NEW m \in Nat, NEW n \in Nat, m \leq n,
           Joins(f, ss, m), Joins(g, tt, n), \A i \in 1 .. m : ss[i] = tt[i]
    PROVE  \A i \in 1 .. m : f[i] = g[i]
<1> DEFINE differ == {i \in 1 .. m : f[i] # g[i]}
<1> SUFFICES ASSUME differ # {}
             PROVE  FALSE
    OBVIOUS
<1>5. differ \subseteq Nat
    OBVIOUS
<1>1. PICK i \in differ : \A j \in differ : ~ (j < i)
    <2> HIDE DEF differ
    <2> QED BY <1>5, LeastNumber
<1>2. i \in 1 .. m /\ i \in 1 .. n /\ f[i] # g[i]
    BY <1>1
<1>3. /\ f[i] = IF i = 1 THEN ss[i] ELSE f[i - 1] \o ss[i]
      /\ g[i] = IF i = 1 THEN tt[i] ELSE g[i - 1] \o tt[i]
    BY <1>2 DEF Joins
<1>4. i # 1 => f[i - 1] = g[i - 1]
    BY <1>1, <1>2
<1> QED BY <1>2, <1>3, <1>4

\* What is joined is a sequence.
LEMMA JoinType ==
    ASSUME NEW T, NEW ss \in Seq(Seq(T)), NEW n \in 1 .. Len(ss), NEW f, Joins(f, ss, n)
    PROVE  f[n] \in Seq(T)
<1> DEFINE odd == {i \in 1 .. n : f[i] \notin Seq(T)}
<1>1. n \in Nat
    OBVIOUS
<1>2. CASE odd # {}
    <2>1. PICK i \in odd : \A j \in odd : ~ (j < i)
        <3>1. odd \subseteq Nat
            BY <1>1
        <3> HIDE DEF odd
        <3> QED BY <1>2, <3>1, LeastNumber
    <2>2. i \in 1 .. n /\ i \in 1 .. Len(ss) /\ f[i] \notin Seq(T) /\ ss[i] \in Seq(T)
        BY <2>1
    <2>3. f[i] = IF i = 1 THEN ss[i] ELSE f[i - 1] \o ss[i]
        BY <2>2 DEF Joins
    <2>4. i # 1 => f[i - 1] \in Seq(T)
        BY <2>1, <2>2
    <2> QED BY <2>2, <2>3, <2>4
<1>3. CASE odd = {}
    BY <1>1, <1>3
<1> QED BY <1>2, <1>3

\* FlattenSeq is the last of the joined sequences.
LEMMA FlattenIs ==
    ASSUME NEW T, NEW ss \in Seq(Seq(T)), ss # << >>
    PROVE  \E f : Joins(f, ss, Len(ss)) /\ FlattenSeq(ss) = f[Len(ss)]
<1>1. Len(ss) \in Nat /\ Len(ss) # 0
    OBVIOUS
<1>2. \E f : Joins(f, ss, Len(ss))
    BY <1>1, JoinExists
<1> DEFINE flatten == CHOOSE f : Joins(f, ss, Len(ss))
<1>3. Joins(flatten, ss, Len(ss))
    BY <1>2
<1>4. FlattenSeq(ss) = flatten[Len(ss)]
    BY <1>1 DEF FlattenSeq, Joins
<1> QED BY <1>3, <1>4

\* Flattening goes on with the next sequence.
LEMMA FlattenAppend ==
    ASSUME NEW T, NEW ss \in Seq(Seq(T)), NEW c \in Seq(T)
    PROVE  /\ FlattenSeq(ss) \in Seq(T)
           /\ FlattenSeq(Append(ss, c)) = FlattenSeq(ss) \o c
<1> DEFINE tt == Append(ss, c)
           n == Len(ss)
<1>1. /\ n \in Nat /\ tt \in Seq(Seq(T)) /\ tt # << >> /\ Len(tt) = n + 1 /\ tt[n + 1] = c
      /\ \A i \in 1 .. n : tt[i] = ss[i]
    <2>1. n \in Nat /\ tt \in Seq(Seq(T)) /\ Len(tt) = n + 1
        OBVIOUS
    <2> QED BY <2>1
<1> HIDE DEF tt
<1>2. PICK g : Joins(g, tt, n + 1) /\ FlattenSeq(tt) = g[n + 1]
    BY <1>1, FlattenIs
<1>3. g[n + 1] = IF n = 0 THEN c ELSE g[n] \o c
    <2>1. n + 1 \in 1 .. n + 1 /\ (n + 1) - 1 = n /\ (n + 1 = 1 <=> n = 0)
        BY <1>1
    <2>2. g[n + 1] = IF n + 1 = 1 THEN tt[n + 1] ELSE g[(n + 1) - 1] \o tt[n + 1]
        BY <1>2, <2>1 DEF Joins
    <2> QED BY <1>1, <2>1, <2>2
<1>4. CASE ss = << >>
    <2>1. FlattenSeq(ss) = << >> /\ n = 0
        BY <1>4 DEF FlattenSeq
    <2> QED BY <1>2, <1>3, <2>1 DEF tt
<1>5. CASE ss # << >>
    <2>1. PICK f : Joins(f, ss, n) /\ FlattenSeq(ss) = f[n]
        BY <1>5, FlattenIs
    <2>2. n # 0 /\ n \in 1 .. n
        BY <1>1, <1>5
    <2>3. f[n] = g[n]
        <3>1. n + 1 \in Nat /\ n \leq n + 1 /\ \A i \in 1 .. n : ss[i] = tt[i]
            BY <1>1
        <3>2. n \in Nat /\ Joins(f, ss, n) /\ Joins(g, tt, n + 1)
            BY <1>1, <1>2, <2>1
        <3>3. \A i \in 1 .. n : f[i] = g[i]
            <4> HIDE DEF n
            <4> QED BY <3>1, <3>2, JoinUnique
        <3> QED BY <2>2, <3>3
    <2>4. f[n] \in Seq(T)
        BY <2>1, <2>2, JoinType
    <2> QED BY <1>2, <1>3, <2>1, <2>2, <2>3, <2>4 DEF tt
<1> QED BY <1>4, <1>5

-----------------------------------------------------------------------------
\* What the constants are; a time of the clock has an hour.
LEMMA ConstantTypes ==
    /\ MaxClock \in Nat \ {0} /\ MaxEvents \in Nat /\ MaxWriters \in Nat
    /\ BootIds \subseteq Nat \ {0} /\ Sequences \subseteq Nat
    /\ NoBoot \notin BootIds /\ NoEvent \notin Events
    /\ \A t \in Times : _hour_label(t) \in Hours
    /\ NoHour \notin Hours
<1>1. /\ MaxClock \in Nat \ {0} /\ HOUR_NS \in Nat \ {0} /\ MaxEvents \in Nat /\ MaxWriters \in Nat
      /\ BootIds \subseteq Nat \ {0} /\ Sequences \subseteq Nat
    BY KeyAssumption, BoundAssumption
<1>2. NoBoot \notin BootIds
    BY <1>1 DEF NoBoot
<1>3. NoEvent \notin Events
    <2>1. 0 \notin Times
        BY <1>1 DEF Times
    <2> QED BY <2>1 DEF NoEvent, Events
<1>4. \A t \in Times : _hour_label(t) # NoHour
    <2>1. ASSUME NEW t \in Nat
          PROVE  t \div HOUR_NS \in Nat
        BY <1>1
    <2> QED
        BY <1>1, <2>1 DEF Times, _hour_label, NoHour
<1> QED
    BY <1>1, <1>2, <1>3, <1>4 DEF Hours

\* An event has a time, a shard and numbers to compare.
LEMMA EventTypes ==
    ASSUME NEW e \in Events
    PROVE  /\ e.ns \in Times /\ e.boot \in BootIds /\ e.seq \in Sequences
           /\ e.ns \in Nat /\ e.boot \in Nat /\ e.seq \in Nat
           /\ ShardOf(e) \in Shards /\ e # NoEvent
<1>1. e.ns \in Times /\ e.boot \in BootIds /\ e.seq \in Sequences
    BY DEF Events
<1>2. e.ns \in Nat
    BY <1>1, ConstantTypes DEF Times
<1>3. ShardOf(e) \in Shards
    BY <1>1, ConstantTypes DEF ShardOf, Shards
<1> QED BY <1>1, <1>2, <1>3, ConstantTypes

\* The order of the keys is a strict one.
LEMMA BeforeIsOrder ==
    /\ \A e \in Events : ~ Before(e, e)
    /\ \A e, f \in Events : Before(e, f) => ~ Before(f, e)
    /\ \A e, f, g \in Events : Before(e, f) /\ Before(f, g) => Before(e, g)
<1>1. ASSUME NEW e \in Events, NEW f \in Events, NEW g \in Events
      PROVE  /\ ~ Before(e, e)
             /\ Before(e, f) => ~ Before(f, e)
             /\ Before(e, f) /\ Before(f, g) => Before(e, g)
    <2>1. /\ e.ns \in Nat /\ f.ns \in Nat /\ g.ns \in Nat
          /\ e.boot \in Nat /\ f.boot \in Nat /\ g.boot \in Nat
          /\ e.seq \in Nat /\ f.seq \in Nat /\ g.seq \in Nat
        BY EventTypes
    <2> QED BY <2>1 DEF Before
<1> QED BY <1>1

\* What is appended to a sequence comes after all there was.
LEMMA AppendIs ==
    ASSUME NEW T, NEW s \in Seq(T), NEW x \in T
    PROVE  /\ Append(s, x) \in Seq(T)
           /\ Len(s) \in Nat /\ Len(Append(s, x)) = Len(s) + 1
           /\ \A k \in 1 .. Len(s) : Append(s, x)[k] = s[k]
           /\ Append(s, x)[Len(s) + 1] = x
           /\ Append(s, x) # << >>
OBVIOUS

\* All but the last line of a manifest.
LEMMA FrontIs ==
    ASSUME NEW T, NEW s \in Seq(T), s # << >>
    PROVE  /\ Front(s) \in Seq(T)
           /\ Len(s) \in Nat \ {0} /\ Len(Front(s)) = Len(s) - 1
           /\ \A k \in 1 .. Len(s) - 1 : Front(s)[k] = s[k]
BY DEF Front

\* The shard that a writer has open is one.
LEMMA ShardTypes ==
    ASSUME TypeOK
    PROVE  stage # "none" => shard \in Shards
BY ConstantTypes DEF TypeOK, shard, Shards

\* What is written, and where.
LEMMA WriteIs ==
    ASSUME TypeOK, NEW e \in Events, NEW s \in Shards, NEW c \in Contents, Write(e, s, c)
    PROVE  /\ content' \in [Shards -> Contents] /\ synced' \subseteq Shards
           /\ appended' \in Seq(Events) /\ last_key' \in Events
           /\ content'[s] = Append(c, e) /\ synced' = synced \ {s}
           /\ \A u \in Shards \ {s} : content'[u] = content[u]
           /\ appended' = Append(appended, e) /\ last_key' = e /\ failed' = failed
<1>1. Append(c, e) \in Contents
    BY DEF Contents
<1> QED BY <1>1 DEF TypeOK, Write

\* What was there stays where a write raises, or the shard is damaged.
LEMMA DamagedIs ==
    ASSUME TypeOK, NEW s \in Shards, NEW c \in Contents, Damaged(s, c)
    PROVE  /\ content' \in [Shards -> Contents]
           /\ content'[s] = c \/ Contains(content'[s], Cut)
           /\ \A u \in Shards \ {s} : content'[u] = content[u]
           /\ failed' = failed \cup {s}
<1>1. Append(c, Cut) \in Contents /\ Contains(Append(c, Cut), Cut)
    <2>1. c \in Seq(Events \cup {Cut})
        BY DEF Contents
    <2>2. /\ Append(c, Cut) \in Seq(Events \cup {Cut}) /\ Len(c) \in Nat
          /\ Len(Append(c, Cut)) = Len(c) + 1 /\ Append(c, Cut)[Len(c) + 1] = Cut
        BY <2>1, AppendIs
    <2>3. Len(c) + 1 \in 1 .. Len(Append(c, Cut))
        BY <2>2
    <2> QED BY <2>2, <2>3 DEF Contents, Contains
<1>2. PICK d : /\ d \in {c, IF Contains(c, Cut) THEN c ELSE Append(c, Cut)}
               /\ content' = [content EXCEPT ![s] = d]
    BY DEF Damaged
<1>3. d \in Contents /\ (d = c \/ Contains(d, Cut))
    BY <1>1, <1>2
<1>4. /\ content' \in [Shards -> Contents] /\ content'[s] = d
      /\ \A u \in Shards \ {s} : content'[u] = content[u]
    BY <1>2, <1>3 DEF TypeOK
<1> QED BY <1>3, <1>4 DEF Damaged

\* The event that append_event makes.
LEMMA NewEvent ==
    ASSUME TypeOK, boot_id # NoBoot, NEW n \in Sequences
    PROVE  [ns |-> clock, boot |-> boot_id, seq |-> n] \in Events
BY DEF TypeOK, Events

\* Every action keeps the types.
LEMMA TypeStep ==
    ASSUME TypeOK, StageInv, KeyInv, [Next]_vars
    PROVE  TypeOK'
<1> USE DEF TypeOK
<1>1. ASSUME NEW b \in BootIds, ShardWriter(b)
      PROVE  TypeOK'
    <2>1. clock' \in Times /\ writers' \in 0 .. MaxWriters
        BY <1>1, ConstantTypes DEF ShardWriter, Times
    <2> QED BY <1>1, <2>1 DEF ShardWriter, disk, faults, Stages
<1>2. ASSUME NEW n \in Sequences, append_event(n)
      PROVE  TypeOK'
    <2> DEFINE e == [ns |-> clock, boot |-> boot_id, seq |-> n]
    <2>1. e \in Events
        BY <1>2, NewEvent DEF append_event
    <2> HIDE DEF e
    <2>2. CASE /\ stage = "open"
               /\ Write(e, shard, content[shard]) \/ Write_Fails(shard, content[shard])
               /\ UNCHANGED <<boot_id, hour, stage, waiting, names, manifest>>
        <3>1. shard \in Shards /\ content[shard] \in Contents
            BY <2>2, ShardTypes
        <3>2. CASE Write(e, shard, content[shard])
            <4>1. /\ content' \in [Shards -> Contents] /\ synced' \subseteq Shards
                  /\ appended' \in Seq(Events) /\ last_key' \in Events /\ failed' = failed
                BY <2>1, <3>1, <3>2, WriteIs
            <4> QED BY <1>2, <2>2, <4>1 DEF append_event
        <3>3. CASE Write_Fails(shard, content[shard])
            <4>1. content' \in [Shards -> Contents] /\ failed' \subseteq Shards
                BY <3>1, <3>3, DamagedIs DEF Write_Fails
            <4> QED BY <1>2, <2>2, <3>3, <4>1 DEF append_event, Write_Fails
        <3> QED BY <2>2, <3>2, <3>3
    <2>3. CASE waiting' = e /\ UNCHANGED <<boot_id, hour, stage, last_key, disk, appended, failed>>
        BY <1>2, <2>1, <2>3 DEF append_event, disk
    <2> QED BY <1>2, <2>2, <2>3 DEF append_event, e
<1>3. CASE _open
    <2>1. waiting \in Events /\ boot_id \in BootIds /\ waiting.ns \in Times
        BY <1>3, EventTypes DEF _open, KeyInv
    <2> DEFINE s == [hour |-> _hour_label(waiting.ns), boot |-> boot_id]
    <2>2. _hour_label(waiting.ns) \in Hours /\ s \in Shards
        BY <2>1, ConstantTypes DEF Shards
    <2> HIDE DEF s
    <2>3. CASE UNCHANGED <<hour, stage, last_key, names, content, synced, appended, failed>>
        BY <1>3, <2>3 DEF _open
    <2>4. CASE /\ hour' = s.hour /\ stage' = "open" /\ names' = names \cup {Named(s, "partial")}
               /\ Write(waiting, s, << >>) \/ Write_Fails(s, << >>)
        <3>1. << >> \in Contents
            BY DEF Contents
        <3>2. Named(s, "partial") \in Names
            BY <2>2 DEF Named, Names
        <3>3. hour' \in Hours /\ boot_id # NoBoot /\ hour' # NoHour
            BY <2>1, <2>2, <2>4, ConstantTypes DEF s
        <3>4. /\ content' \in [Shards -> Contents] /\ synced' \subseteq Shards
              /\ appended' \in Seq(Events) /\ last_key' \in Events \cup {NoEvent}
              /\ failed' \subseteq Shards
            <4>1. CASE Write(waiting, s, << >>)
                BY <2>1, <2>2, <3>1, <4>1, WriteIs
            <4>2. CASE Write_Fails(s, << >>)
                BY <2>2, <3>1, <4>2, DamagedIs DEF Write_Fails
            <4> QED BY <2>4, <4>1, <4>2
        <3>5. UNCHANGED <<clock, writers, boot_id, manifest, line_failed, set_back>> /\ waiting' = NoEvent
            BY <1>3 DEF _open
        <3> QED BY <2>4, <3>2, <3>3, <3>4, <3>5 DEF Stages
    <2> QED BY <1>3, <2>3, <2>4 DEF _open, s
<1>4. CASE fsync
    BY <1>4, ShardTypes DEF fsync, Step, Stages, faults
<1>5. CASE link
    <2>1. Named(shard, "final") \in Names
        BY <1>5, ShardTypes DEF link, Step, Named, Names
    <2> QED BY <1>5, <2>1 DEF link, Step, Stages, faults
<1>6. CASE unlink
    BY <1>6 DEF unlink, Step, Stages, faults
<1>7. CASE write_sidecar
    <2>1. Named(shard, "sidecar") \in Names
        BY <1>7, ShardTypes DEF write_sidecar, Step, Named, Names
    <2> QED BY <1>7, <2>1 DEF write_sidecar, Step, Stages, faults
<1>8. CASE write_entry
    <2>1. [shard |-> shard, sha256 |-> content[shard]] \in Lines
        BY <1>8, ShardTypes DEF write_entry, Step, Lines
    <2> QED BY <1>8, <2>1 DEF write_entry, Step, Stages, faults
<1>9. CASE fsync_manifest
    BY <1>9 DEF fsync_manifest, Step, disk, Stages, faults
<1>10. CASE close
    BY <1>10 DEF close, disk, faults
<1>11. CASE close_Fails
    <2>1. shard \in Shards /\ content[shard] \in Contents
        BY <1>11, ShardTypes DEF close_Fails
    <2>2. content' \in [Shards -> Contents] /\ failed' \subseteq Shards
        BY <1>11, <2>1, DamagedIs DEF close_Fails
    <2> QED BY <1>11, <2>2 DEF close_Fails, Stages
<1>12. CASE Kill
    BY <1>12 DEF Kill, Gone, disk, Stages
<1>13. CASE WriteFails
    <2>1. Torn \in Lines
        BY DEF Lines
    <2> QED BY <1>13, <2>1 DEF WriteFails, Gone, Stages
<1>14. CASE PowerLoss
    <2>1. << >> \in Contents
        BY DEF Contents
    <2>2. content' \in [Shards -> Contents]
        BY <1>14, <2>1 DEF PowerLoss
    <2>3. manifest' \in Seq(Lines)
        <3>1. CASE stage = "listed"
            <4>1. Front(manifest) \in Seq(Lines)
                BY <3>1, FrontIs DEF StageInv
            <4>2. Append(Front(manifest), Torn) \in Seq(Lines)
                BY <4>1 DEF Lines
            <4> QED BY <1>14, <3>1, <4>1, <4>2 DEF PowerLoss
        <3>2. CASE stage # "listed"
            BY <1>14, <3>2 DEF PowerLoss
        <3> QED BY <3>1, <3>2
    <2> QED BY <1>14, <2>2, <2>3 DEF PowerLoss, Gone, Stages
<1>15. CASE Tick
    <2>1. clock' \in Times
        BY <1>15, ConstantTypes DEF Tick, Times
    <2> QED BY <1>15, <2>1 DEF Tick, writer, disk, faults
<1>16. CASE SetBack
    <2>1. clock' \in Times
        BY <1>16, ConstantTypes DEF SetBack, Times
    <2> QED BY <1>16, <2>1 DEF SetBack, writer, disk
<1>17. CASE UNCHANGED vars
    BY <1>17 DEF vars
<1> QED
    BY <1>1, <1>2, <1>3, <1>4, <1>5, <1>6, <1>7, <1>8, <1>9, <1>10, <1>11, <1>12,
       <1>13, <1>14, <1>15, <1>16, <1>17 DEF Next, _finalize


-----------------------------------------------------------------------------
\* An event goes to the shard that is open, or waits for one.
LEMMA AppendEventIs ==
    ASSUME TypeOK, NEW n \in Sequences, append_event(n)
    PROVE  \E e \in Events :
              /\ e.ns = clock /\ e.boot = boot_id /\ Advances(e)
              /\ boot_id # NoBoot /\ waiting = NoEvent
              /\ UNCHANGED <<clock, writers, line_failed, set_back, boot_id, hour, stage, names, manifest>>
              /\ \/ /\ stage = "open" /\ ShardOf(e) = shard /\ waiting' = NoEvent
                    /\ Write(e, shard, content[shard])
                 \/ /\ stage = "open" /\ waiting' = NoEvent
                    /\ Write_Fails(shard, content[shard])
                 \/ waiting' = e /\ UNCHANGED <<last_key, content, synced, appended, failed>>
<1> DEFINE e == [ns |-> clock, boot |-> boot_id, seq |-> n]
<1>1. e \in Events
    BY NewEvent DEF append_event
<1>2. e.ns = clock /\ e.boot = boot_id
    OBVIOUS
<1>3. _hour_label(clock) = hour => ShardOf(e) = shard
    BY DEF ShardOf, shard
<1> HIDE DEF e
<1>4. CASE /\ stage = "open" /\ _hour_label(clock) = hour
           /\ Write(e, shard, content[shard]) \/ Write_Fails(shard, content[shard])
           /\ UNCHANGED <<boot_id, hour, stage, waiting, names, manifest>>
    BY <1>1, <1>2, <1>3, <1>4 DEF append_event, e
<1>5. CASE waiting' = e /\ UNCHANGED <<boot_id, hour, stage, last_key, disk, appended, failed>>
    BY <1>1, <1>2, <1>5 DEF append_event, e, disk
<1> QED BY <1>4, <1>5 DEF append_event, e

\* A new shard is opened for the event that waits, or the event is refused.
LEMMA OpenIs ==
    ASSUME TypeOK, KeyInv, _open
    PROVE  LET s == ShardOf(waiting)
           IN  /\ stage = "none" /\ waiting \in Events /\ waiting # NoEvent /\ boot_id # NoBoot
               /\ waiting' = NoEvent
               /\ UNCHANGED <<clock, writers, boot_id, manifest, line_failed, set_back>>
               /\ \/ UNCHANGED <<hour, stage, last_key, names, content, synced, appended, failed>>
                  \/ /\ Named(s, "final") \notin names /\ Named(s, "partial") \notin names
                     /\ s \in Shards /\ shard' = s /\ stage' = "open"
                     /\ names' = names \cup {Named(s, "partial")}
                     /\ Write(waiting, s, << >>) \/ Write_Fails(s, << >>)
<1>1. waiting \in Events /\ waiting # NoEvent /\ waiting.boot = boot_id /\ boot_id # NoBoot
    BY DEF TypeOK, _open, KeyInv
<1>2. ShardOf(waiting) = [hour |-> _hour_label(waiting.ns), boot |-> boot_id] /\ ShardOf(waiting) \in Shards
    BY <1>1, EventTypes DEF ShardOf
<1>3. CASE UNCHANGED <<hour, stage, last_key, names, content, synced, appended, failed>>
    BY <1>1, <1>3 DEF _open
<1>4. CASE ~ UNCHANGED <<hour, stage, last_key, names, content, synced, appended, failed>>
    <2>1. /\ hour' = ShardOf(waiting).hour /\ boot_id' = boot_id
          /\ ShardOf(waiting).boot = boot_id
        BY <1>2, <1>4 DEF _open
    <2>2. shard' = ShardOf(waiting)
        BY <1>2, <2>1 DEF shard
    <2> QED BY <1>1, <1>2, <1>4, <2>2 DEF _open, Taken
<1> QED BY <1>3, <1>4

\* Of the shards only the one that is open, or is opened, is written: it has no final
\* name yet.
LEMMA WritingIs ==
    ASSUME TypeOK, StageInv, KeyInv,
           _open \/ close_Fails \/ \E n \in Sequences : append_event(n)
    PROVE  /\ manifest' = manifest /\ names \subseteq names'
           /\ failed \subseteq failed' /\ line_failed' = line_failed
           /\ \A s \in Shards : Named(s, "final") \in names =>
                  content'[s] = content[s] /\ (s \in synced => s \in synced')
           /\ \/ appended' = appended
              \/ \E e \in Events :
                    appended' = Append(appended, e) /\ Named(ShardOf(e), "final") \notin names
<1> DEFINE Kept == /\ failed \subseteq failed'
                   /\ \A s \in Shards : Named(s, "final") \in names =>
                          content'[s] = content[s] /\ (s \in synced => s \in synced')
<1>1. ASSUME NEW u \in Shards, Named(u, "final") \notin names, NEW c \in Contents,
             NEW e \in Events, Write(e, u, c)
      PROVE  Kept /\ appended' = Append(appended, e)
    <2>1. \A s \in Shards : Named(s, "final") \in names => s \in Shards \ {u}
        BY <1>1
    <2> QED BY <1>1, <2>1, WriteIs
<1>2. ASSUME NEW u \in Shards, Named(u, "final") \notin names, NEW c \in Contents, Write_Fails(u, c)
      PROVE  Kept /\ appended' = appended
    <2>1. \A s \in Shards : Named(s, "final") \in names => s \in Shards \ {u}
        BY <1>2
    <2> QED BY <1>2, <2>1, DamagedIs DEF Write_Fails
<1>3. ASSUME UNCHANGED <<content, synced, failed>>
      PROVE  Kept
    BY <1>3
<1> HIDE DEF Kept
<1>4. ASSUME NEW n \in Sequences, append_event(n)
      PROVE  /\ manifest' = manifest /\ names \subseteq names' /\ line_failed' = line_failed /\ Kept
             /\ \/ appended' = appended
                \/ \E e \in Events :
                      appended' = Append(appended, e) /\ Named(ShardOf(e), "final") \notin names
    <2>1. PICK e \in Events :
              /\ UNCHANGED <<manifest, names, line_failed>>
              /\ \/ stage = "open" /\ ShardOf(e) = shard /\ Write(e, shard, content[shard])
                 \/ stage = "open" /\ Write_Fails(shard, content[shard])
                 \/ UNCHANGED <<content, synced, appended, failed>>
        BY <1>4, AppendEventIs
    <2>2. stage = "open" =>
              shard \in Shards /\ Named(shard, "final") \notin names /\ content[shard] \in Contents
        BY ShardTypes DEF StageInv, TypeOK
    <2> QED BY <1>1, <1>2, <1>3, <2>1, <2>2
<1>5. CASE _open
    <2> DEFINE s == ShardOf(waiting)
    <2>1. /\ waiting \in Events /\ UNCHANGED <<manifest, line_failed>>
          /\ \/ UNCHANGED <<names, content, synced, appended, failed>>
             \/ /\ Named(s, "final") \notin names /\ s \in Shards
                /\ names' = names \cup {Named(s, "partial")}
                /\ Write(waiting, s, << >>) \/ Write_Fails(s, << >>)
        BY <1>5, OpenIs
    <2>2. << >> \in Contents
        BY DEF Contents
    <2> HIDE DEF s
    <2>3. CASE UNCHANGED <<names, content, synced, appended, failed>>
        BY <1>3, <2>1, <2>3 DEF Kept
    <2>4. CASE /\ Named(s, "final") \notin names /\ s \in Shards
               /\ names' = names \cup {Named(s, "partial")}
               /\ Write(waiting, s, << >>)
        BY <1>1, <2>1, <2>2, <2>4 DEF Kept, s
    <2>5. CASE /\ Named(s, "final") \notin names /\ s \in Shards
               /\ names' = names \cup {Named(s, "partial")}
               /\ Write_Fails(s, << >>)
        BY <1>2, <2>1, <2>2, <2>5 DEF Kept
    <2> QED BY <2>1, <2>3, <2>4, <2>5
<1>6. CASE close_Fails
    <2>1. /\ shard \in Shards /\ Named(shard, "final") \notin names /\ content[shard] \in Contents
          /\ UNCHANGED <<synced, manifest, names, appended, line_failed>>
        BY <1>6, ShardTypes DEF close_Fails, StageInv, TypeOK
    <2>2. \A s \in Shards : Named(s, "final") \in names => s \in Shards \ {shard}
        BY <2>1
    <2> QED BY <1>6, <2>1, <2>2, DamagedIs DEF close_Fails
<1> QED BY <1>4, <1>5, <1>6 DEF Kept

\* Names of different files.
LEMMA NamesDiffer ==
    /\ \A s, t, kind : Named(s, kind) = Named(t, "partial") => s = t /\ kind = "partial"
    /\ \A s, t, kind : Named(s, kind) = Named(t, "final") => s = t /\ kind = "final"
BY DEF Named

\* The line that a shard has is one of a shard.
LEMMA LineIs ==
    ASSUME TypeOK, NEW i \in 1 .. Len(manifest), manifest[i] # Torn
    PROVE  manifest[i].shard \in Shards
<1>1. manifest[i] \in Lines
    BY DEF TypeOK
<1> QED BY <1>1 DEF Lines

\* A power failure takes the last line of the manifest, or a part of it.
LEMMA LossIs ==
    ASSUME TypeOK, StageInv, PowerLoss
    PROVE  /\ Len(manifest) \in Nat /\ Len(manifest)' \leq Len(manifest)
           /\ \A i \in 1 .. Len(manifest)' : manifest'[i] # Torn => manifest'[i] = manifest[i]
<1>1. Len(manifest) \in Nat
    BY DEF TypeOK
<1>2. CASE manifest' = manifest
    BY <1>1, <1>2
<1>3. CASE stage = "listed"
    <2> DEFINE front == Front(manifest)
    <2>1. /\ front \in Seq(Lines) /\ Len(manifest) \in Nat \ {0}
          /\ Len(front) = Len(manifest) - 1
          /\ \A k \in 1 .. Len(manifest) - 1 : front[k] = manifest[k]
        BY <1>3, FrontIs DEF StageInv, TypeOK
    <2> HIDE DEF front
    <2>2. CASE manifest' = front
        BY <2>1, <2>2
    <2>3. CASE manifest' = Append(front, Torn)
        <3>1. Torn \in Lines
            BY DEF Lines
        <3>2. /\ Len(Append(front, Torn)) = Len(front) + 1
              /\ \A k \in 1 .. Len(front) : Append(front, Torn)[k] = front[k]
              /\ Append(front, Torn)[Len(front) + 1] = Torn
            BY <2>1, <3>1, AppendIs
        <3>3. Len(manifest') = Len(manifest)
            BY <2>1, <2>3, <3>2
        <3>4. ASSUME NEW i \in 1 .. Len(manifest), manifest'[i] # Torn
              PROVE  manifest'[i] = manifest[i]
            <4>1. i \in 1 .. Len(manifest) - 1
                BY <2>1, <2>3, <3>2, <3>4
            <4> QED BY <2>1, <2>3, <3>2, <4>1
        <3> QED BY <1>1, <3>3, <3>4
    <2> QED BY <1>2, <1>3, <2>2, <2>3 DEF PowerLoss, front
<1>4. CASE stage # "listed"
    BY <1>2, <1>4 DEF PowerLoss
<1> QED BY <1>3, <1>4

-----------------------------------------------------------------------------
\* Finalisation goes through its steps in order.
LEMMA StageStep ==
    ASSUME TypeOK, TypeOK', StageInv, ListInv, KeyInv, [Next]_vars
    PROVE  StageInv'
<1> USE DEF StageInv
<1>1. ASSUME NEW b \in BootIds, ShardWriter(b)
      PROVE  StageInv'
    BY <1>1 DEF ShardWriter
<1>2. ASSUME NEW n \in Sequences, append_event(n)
      PROVE  StageInv'
    <2>1. /\ UNCHANGED <<boot_id, hour, stage, names, manifest>>
          /\ stage = "open" \/ synced' = synced
        BY <1>2, AppendEventIs
    <2>2. shard' = shard
        BY <2>1 DEF shard
    <2> QED BY <2>1, <2>2
<1>3. CASE _open
    <2>1. CASE UNCHANGED <<hour, stage, last_key, names, content, synced, appended, failed>>
        BY <1>3, <2>1, OpenIs DEF shard
    <2>2. CASE ~ UNCHANGED <<hour, stage, last_key, names, content, synced, appended, failed>>
        <3>1. /\ stage' = "open"
              /\ Named(shard', "final") \notin names
              /\ names' = names \cup {Named(shard', "partial")}
            BY <1>3, <2>2, OpenIs
        <3>2. Named(shard', "final") \notin names' /\ Named(shard', "partial") \in names'
            BY <3>1, NamesDiffer
        <3> QED BY <3>1, <3>2 DEF Named
    <2> QED BY <2>1, <2>2
<1>4. CASE fsync
    BY <1>4 DEF fsync, Step, shard, Named
<1>5. CASE link
    <2>1. ASSUME NEW i \in 1 .. Len(manifest), manifest[i] # Torn
          PROVE  manifest[i].shard # shard
        BY <1>5, <2>1 DEF link, Step, ListInv, Intact
    <2> QED BY <1>5, <2>1 DEF link, Step, shard, Named
<1>6. CASE unlink
    <2>1. Named(shard, "final") # Named(shard, "partial")
        BY NamesDiffer
    <2> QED BY <1>6, <2>1 DEF unlink, Step, shard, Named
<1>7. CASE write_sidecar
    BY <1>7 DEF write_sidecar, Step, shard, Named
<1>8. CASE write_entry
    <2>1. manifest' # << >>
        <3>1. [shard |-> shard, sha256 |-> content[shard]] \in Lines
            BY <1>8, ShardTypes DEF write_entry, Step, Lines, TypeOK
        <3> QED BY <1>8, <3>1, AppendIs DEF write_entry, TypeOK
    <2> QED BY <1>8, <2>1 DEF write_entry, Step, shard, Named
<1>9. CASE fsync_manifest
    BY <1>9 DEF fsync_manifest, Step
<1>10. CASE close
    BY <1>10 DEF close
<1>11. CASE close_Fails
    BY <1>11 DEF close_Fails, shard, Named
<1>12. CASE Kill \/ WriteFails \/ PowerLoss
    BY <1>12 DEF Kill, WriteFails, PowerLoss, Gone
<1>13. CASE Tick \/ SetBack \/ UNCHANGED vars
    BY <1>13 DEF Tick, SetBack, vars, writer, disk, shard, Named
<1> QED
    BY <1>1, <1>2, <1>3, <1>4, <1>5, <1>6, <1>7, <1>8, <1>9, <1>10, <1>11, <1>12, <1>13
    DEF Next, _finalize

\* What a step leaves alone of the shards that are listed.
LEMMA ListKept ==
    ASSUME ListInv, manifest' = manifest,
           \A s : Named(s, "final") \in names => Named(s, "final") \in names',
           \A s : Named(s, "sidecar") \in names => Named(s, "sidecar") \in names',
           \A s : Named(s, "final") \in names /\ s \in synced =>
                      content'[s] = content[s] /\ s \in synced'
    PROVE  ListInv'
BY DEF ListInv, Intact

\* What is listed stays intact.
LEMMA ListStep ==
    ASSUME TypeOK, TypeOK', StageInv, ListInv, KeyInv, [Next]_vars
    PROVE  ListInv'
<1>1. ASSUME NEW b \in BootIds, ShardWriter(b)
      PROVE  ListInv'
    BY <1>1, ListKept DEF ShardWriter, disk
<1>2. CASE _open \/ close_Fails \/ \E n \in Sequences : append_event(n)
    <2>1. \A s : Named(s, "final") \in names /\ s \in synced =>
                     content'[s] = content[s] /\ s \in synced'
        BY <1>2, WritingIs DEF TypeOK
    <2>2. manifest' = manifest /\ names \subseteq names'
        BY <1>2, WritingIs
    <2> QED BY <2>1, <2>2, ListKept
<1>3. CASE fsync
    BY <1>3, ListKept DEF fsync, Step
<1>4. CASE link
    BY <1>4, ListKept DEF link, Step
<1>5. CASE unlink
    <2>1. \A s : /\ Named(s, "final") # Named(shard, "partial")
                 /\ Named(s, "sidecar") # Named(shard, "partial")
        BY NamesDiffer
    <2> QED BY <1>5, <2>1, ListKept DEF unlink, Step
<1>6. CASE write_sidecar
    BY <1>6, ListKept DEF write_sidecar, Step
<1>7. CASE write_entry
    <2> DEFINE line == [shard |-> shard, sha256 |-> content[shard]]
    <2>1. line \in Lines /\ line.shard = shard /\ line.sha256 = content[shard]
        BY <1>7, ShardTypes DEF write_entry, Step, Lines, TypeOK
    <2>2. manifest' = Append(manifest, line) /\ UNCHANGED <<names, content, synced>>
        BY <1>7 DEF write_entry
    <2>3. {Named(shard, "final"), Named(shard, "sidecar")} \subseteq names /\ shard \in synced
        BY <1>7 DEF write_entry, Step, StageInv
    <2> HIDE DEF line
    <2>4. /\ Len(manifest) \in Nat /\ Len(manifest') = Len(manifest) + 1
          /\ \A i \in 1 .. Len(manifest) : manifest'[i] = manifest[i]
          /\ manifest'[Len(manifest) + 1] = line
        BY <2>1, <2>2, AppendIs DEF TypeOK
    <2>5. ASSUME NEW i \in 1 .. Len(manifest)', manifest'[i] # Torn
          PROVE  Intact(manifest[i])' /\ (manifest[i].shard \in synced)'
        <3>1. CASE i \in 1 .. Len(manifest)
            BY <2>2, <2>4, <2>5, <3>1 DEF ListInv, Intact
        <3>2. CASE i = Len(manifest) + 1
            BY <2>1, <2>2, <2>3, <2>4, <3>2 DEF Intact
        <3> QED BY <2>4, <3>1, <3>2
    <2> QED BY <2>5 DEF ListInv
<1>8. CASE fsync_manifest
    BY <1>8, ListKept DEF fsync_manifest, Step, disk
<1>9. CASE close
    BY <1>9, ListKept DEF close, disk
<1>10. CASE Kill
    BY <1>10, ListKept DEF Kill, disk
<1>11. CASE WriteFails
    <2>1. manifest' = Append(manifest, Torn) /\ UNCHANGED <<names, content, synced>>
        BY <1>11 DEF WriteFails
    <2>2. /\ Len(manifest) \in Nat /\ Len(manifest') = Len(manifest) + 1
          /\ \A i \in 1 .. Len(manifest) : manifest'[i] = manifest[i]
          /\ manifest'[Len(manifest) + 1] = Torn
        <3>1. Torn \in Lines
            BY DEF Lines
        <3> QED BY <2>1, <3>1, AppendIs DEF TypeOK
    <2>3. ASSUME NEW i \in 1 .. Len(manifest)', manifest'[i] # Torn
          PROVE  i \in 1 .. Len(manifest) /\ manifest'[i] = manifest[i]
        BY <2>2, <2>3
    <2> QED BY <2>1, <2>3 DEF ListInv, Intact
<1>12. CASE PowerLoss
    <2>1. /\ UNCHANGED <<names, synced>>
          /\ \A s \in Shards : s \in synced => content'[s] = content[s]
        BY <1>12 DEF PowerLoss
    <2>2. ASSUME NEW i \in 1 .. Len(manifest)', manifest'[i] # Torn
          PROVE  i \in 1 .. Len(manifest) /\ manifest'[i] = manifest[i]
        <3>1. Len(manifest) \in Nat /\ Len(manifest)' \in Nat
            BY DEF TypeOK
        <3> QED BY <1>12, <2>2, <3>1, LossIs
    <2>3. ASSUME NEW i \in 1 .. Len(manifest)', manifest'[i] # Torn
          PROVE  manifest[i].shard \in Shards
        BY <2>2, <2>3, LineIs
    <2> QED BY <2>1, <2>2, <2>3 DEF ListInv, Intact
<1>13. CASE Tick \/ SetBack \/ UNCHANGED vars
    BY <1>13, ListKept DEF Tick, SetBack, vars, disk
<1> QED
    BY <1>1, <1>2, <1>3, <1>4, <1>5, <1>6, <1>7, <1>8, <1>9, <1>10, <1>11, <1>12, <1>13
    DEF Next, _finalize

\* The shard of every event keeps a name.
LEMMA NameStep ==
    ASSUME TypeOK, TypeOK', StageInv, KeyInv, NameInv, [Next]_vars
    PROVE  NameInv'
<1>1. ASSUME appended' = appended, names \subseteq names'
      PROVE  NameInv'
    BY <1>1 DEF NameInv
<1>2. ASSUME NEW e \in Events, appended' = Append(appended, e), names \subseteq names',
             Named(ShardOf(e), "partial") \in names'
      PROVE  NameInv'
    <2>1. /\ Len(appended) \in Nat /\ Len(appended') = Len(appended) + 1
          /\ \A k \in 1 .. Len(appended) : appended'[k] = appended[k]
          /\ appended'[Len(appended) + 1] = e
        BY <1>2, AppendIs DEF TypeOK
    <2>2. ASSUME NEW k \in 1 .. Len(appended)'
          PROVE  \E kind \in {"partial", "final"} : Named(ShardOf(appended'[k]), kind) \in names'
        <3>1. CASE k \in 1 .. Len(appended)
            BY <1>2, <2>1, <3>1 DEF NameInv
        <3>2. CASE k = Len(appended) + 1
            BY <1>2, <2>1, <3>2
        <3> QED BY <2>1, <3>1, <3>2
    <2>3. \A k \in 1 .. Len(appended)' : (ShardOf(appended[k]))' = ShardOf(appended'[k])
        BY DEF ShardOf
    <2> QED BY <2>2, <2>3 DEF NameInv, Named
<1>3. ASSUME NEW n \in Sequences, append_event(n)
      PROVE  NameInv'
    <2>1. PICK e \in Events :
              /\ UNCHANGED names
              /\ \/ stage = "open" /\ ShardOf(e) = shard /\ appended' = Append(appended, e)
                 \/ UNCHANGED appended
        BY <1>3, AppendEventIs DEF Write, Write_Fails
    <2>2. stage = "open" => Named(shard, "partial") \in names
        BY DEF StageInv
    <2> QED BY <1>1, <1>2, <2>1, <2>2
<1>4. CASE _open
    <2>1. /\ waiting \in Events
          /\ \/ UNCHANGED <<names, appended>>
             \/ /\ names' = names \cup {Named(ShardOf(waiting), "partial")}
                /\ appended' = Append(appended, waiting) \/ appended' = appended
        BY <1>4, OpenIs DEF Write, Write_Fails
    <2> QED BY <1>1, <1>2, <2>1
<1>5. CASE unlink
    <2>1. /\ appended' = appended /\ names' = names \ {Named(shard, "partial")}
          /\ Named(shard, "final") \in names
        BY <1>5 DEF unlink, Step, StageInv
    <2>2. ASSUME NEW k \in 1 .. Len(appended)
          PROVE  \E kind \in {"partial", "final"} : Named(ShardOf(appended[k]), kind) \in names'
        <3>1. CASE ShardOf(appended[k]) = shard
            BY <2>1, <3>1, NamesDiffer
        <3>2. CASE ShardOf(appended[k]) # shard
            BY <2>1, <3>2, NamesDiffer DEF NameInv
        <3> QED BY <3>1, <3>2
    <2> QED BY <2>1, <2>2 DEF NameInv
<1>6. CASE fsync \/ link \/ write_sidecar \/ write_entry \/ fsync_manifest
    BY <1>1, <1>6 DEF fsync, link, write_sidecar, write_entry, fsync_manifest, Step, disk
<1>7. CASE close \/ close_Fails \/ Kill \/ WriteFails \/ PowerLoss
    BY <1>1, <1>7 DEF close, close_Fails, Kill, WriteFails, PowerLoss, Gone, disk
<1>8. CASE Tick \/ SetBack \/ UNCHANGED vars \/ \E b \in BootIds : ShardWriter(b)
    BY <1>1, <1>8 DEF Tick, SetBack, vars, ShardWriter, disk
<1> QED BY <1>3, <1>4, <1>5, <1>6, <1>7, <1>8 DEF Next, _finalize

-----------------------------------------------------------------------------
\* One more event.
LEMMA EventAppended ==
    ASSUME TypeOK, NEW e \in Events, appended' = Append(appended, e)
    PROVE  /\ Len(appended) \in Nat /\ Len(appended') = Len(appended) + 1
           /\ \A k \in 1 .. Len(appended) : appended'[k] = appended[k] /\ appended[k] \in Events
           /\ appended'[Len(appended) + 1] = e
           /\ \A k \in 1 .. Len(appended') : k \in 1 .. Len(appended) \/ k = Len(appended) + 1
BY AppendIs DEF TypeOK

\* The open shard stays the end of the log.
LEMMA OpenStep ==
    ASSUME TypeOK, TypeOK', StageInv, NameInv, OpenInv, KeyInv, [Next]_vars
    PROVE  OpenInv'
<1>1. ASSUME stage' = "none"
      PROVE  OpenInv'
    BY <1>1 DEF OpenInv
<1>2. ASSUME stage # "none", shard' = shard, UNCHANGED <<appended, content, last_key>>
      PROVE  OpenInv'
    BY <1>2 DEF OpenInv, Holds
<1>11. ASSUME stage # "none", shard' = shard, UNCHANGED <<appended, last_key>>,
              Damaged(shard, content[shard])
       PROVE  OpenInv'
    <2>1. shard \in Shards /\ content[shard] \in Contents
        BY <1>11, ShardTypes DEF TypeOK
    <2>2. content'[shard] = content[shard] \/ Contains(content'[shard], Cut)
        BY <1>11, <2>1, DamagedIs
    <2>3. PICK from \in 0 .. Len(appended) :
              Holds(shard, from) /\ (last_key = NoEvent => from = Len(appended))
        BY <1>11 DEF OpenInv
    <2>4. Holds(shard, from)'
        BY <1>11, <2>2, <2>3 DEF Holds, ShardOf
    <2> QED BY <1>11, <2>3, <2>4 DEF OpenInv
<1>3. ASSUME NEW n \in Sequences, append_event(n)
      PROVE  OpenInv'
    <2>1. PICK e \in Events :
              /\ UNCHANGED <<boot_id, hour, stage>>
              /\ \/ stage = "open" /\ ShardOf(e) = shard /\ Write(e, shard, content[shard])
                 \/ stage = "open" /\ Write_Fails(shard, content[shard])
                 \/ UNCHANGED <<content, appended, last_key>>
        BY <1>3, AppendEventIs
    <2>2. shard' = shard
        BY <2>1 DEF shard
    <2>3. CASE UNCHANGED <<content, appended, last_key>>
        BY <1>1, <1>2, <2>1, <2>2, <2>3
    <2>5. CASE stage = "open" /\ Write_Fails(shard, content[shard])
        BY <1>11, <2>2, <2>5 DEF Write_Fails
    <2>4. CASE stage = "open" /\ ShardOf(e) = shard /\ Write(e, shard, content[shard])
        <3> DEFINE n0 == Len(appended)
                   c == content[shard]
        <3>1. PICK from \in 0 .. Len(appended) : Holds(shard, from)
            BY <2>4 DEF OpenInv
        <3>2. /\ n0 \in Nat /\ Len(appended') = n0 + 1
              /\ \A k \in 1 .. n0 : appended'[k] = appended[k]
              /\ appended'[n0 + 1] = e
              /\ \A k \in 1 .. Len(appended') : k \in 1 .. n0 \/ k = n0 + 1
            BY <2>4, EventAppended DEF Write
        <3>3. shard \in Shards
            BY <2>4, ShardTypes
        <3>4. c \in Seq(Events \cup {Cut}) /\ content'[shard] = Append(c, e) /\ last_key' = e
            BY <2>4, <3>3, WriteIs DEF TypeOK, Contents
        <3> HIDE DEF c, n0
        <3>5. /\ Len(c) \in Nat /\ Len(content'[shard]) = Len(c) + 1
              /\ \A i \in 1 .. Len(c) : content'[shard][i] = c[i]
              /\ content'[shard][Len(c) + 1] = e
            BY <3>4, AppendIs
        <3>6. ASSUME NEW k \in 1 .. Len(appended')
              PROVE  ShardOf(appended'[k]) = shard <=> k > from
            <4>1. CASE k \in 1 .. n0
                BY <3>1, <3>2, <4>1 DEF Holds, n0
            <4>2. CASE k = n0 + 1
                BY <2>4, <3>1, <3>2, <4>2 DEF n0
            <4> QED BY <3>2, <4>1, <4>2
        <3>7. ASSUME ~ Contains(content'[shard], Cut)
              PROVE  /\ Len(content'[shard]) = Len(appended') - from
                     /\ \A i \in 1 .. Len(content'[shard]) : content'[shard][i] = appended'[from + i]
            <4>1. ~ Contains(c, Cut)
                BY <3>5, <3>7 DEF Contains
            <4>2. Len(c) = n0 - from /\ \A i \in 1 .. Len(c) : c[i] = appended[from + i]
                BY <3>1, <4>1 DEF Holds, c, n0
            <4>3. from \in Nat /\ from \leq n0
                BY <3>1, <3>2 DEF n0
            <4>4. Len(content'[shard]) = Len(appended') - from
                BY <3>2, <3>5, <4>2, <4>3
            <4>5. ASSUME NEW i \in 1 .. Len(content'[shard])
                  PROVE  content'[shard][i] = appended'[from + i]
                <5>1. CASE i \in 1 .. Len(c)
                    <6>1. from + i \in 1 .. n0
                        BY <3>2, <3>5, <4>2, <4>3, <5>1
                    <6> QED BY <3>2, <3>5, <4>2, <5>1, <6>1
                <5>2. CASE i = Len(c) + 1
                    <6>1. from + i = n0 + 1
                        BY <3>2, <3>5, <4>2, <4>3, <5>2
                    <6> QED BY <3>2, <3>5, <5>2, <6>1
                <5> QED BY <3>5, <5>1, <5>2
            <4> QED BY <4>4, <4>5
        <3>8. from \in 0 .. Len(appended')
            BY <3>1, <3>2 DEF n0
        <3>9. Holds(shard, from)'
            BY <2>2, <3>6, <3>7 DEF Holds, ShardOf
        <3>10. last_key' # NoEvent
            BY <3>4, EventTypes
        <3> QED BY <3>8, <3>9, <3>10 DEF OpenInv
    <2> QED BY <2>1, <2>3, <2>4, <2>5
<1>4. CASE _open
    <2>2. CASE UNCHANGED stage
        BY <1>1, <1>4, <2>2, OpenIs
    <2> DEFINE s == ShardOf(waiting)
    <2>3. /\ waiting \in Events
          /\ \/ UNCHANGED stage
             \/ /\ s \in Shards /\ shard' = s
                /\ Named(s, "final") \notin names /\ Named(s, "partial") \notin names
                /\ Write(waiting, s, << >>) \/ Write_Fails(s, << >>)
        BY <1>4, OpenIs
    <2>6. << >> \in Contents /\ Len(appended) \in Nat
        BY DEF Contents, TypeOK
    <2>7. Named(s, "final") \notin names /\ Named(s, "partial") \notin names =>
              \A k \in 1 .. Len(appended) : ShardOf(appended[k]) # s
        BY DEF NameInv
    <2> HIDE DEF s
    <2>4. CASE /\ s \in Shards /\ shard' = s
               /\ Named(s, "final") \notin names /\ Named(s, "partial") \notin names
               /\ Write_Fails(s, << >>)
        <3>1. content'[s] = << >> \/ Contains(content'[s], Cut)
            BY <2>4, <2>6, DamagedIs DEF Write_Fails
        <3>2. \A k \in 1 .. Len(appended) : ShardOf(appended[k]) # s
            BY <2>4, <2>7
        <3>3. appended' = appended
            BY <2>4 DEF Write_Fails
        <3>4. ASSUME NEW from \in Nat, from = Len(appended)
              PROVE  Holds(shard, from)'
            <4>1. /\ \A k \in 1 .. Len(appended) : ShardOf(appended[k]) = s <=> k > from
                  /\ content'[s] = << >> => /\ Len(content'[s]) = Len(appended) - from
                                            /\ \A i \in 1 .. Len(content'[s]) : FALSE
                BY <2>6, <3>2, <3>4
            <4> QED BY <2>4, <3>1, <3>3, <4>1 DEF Holds, ShardOf
        <3>5. Len(appended) \in 0 .. Len(appended')
            BY <2>6, <3>3
        <3> QED BY <2>6, <3>3, <3>4, <3>5 DEF OpenInv
    <2>5. CASE /\ s \in Shards /\ shard' = s
               /\ Named(s, "final") \notin names /\ Named(s, "partial") \notin names
               /\ Write(waiting, s, << >>)
        <3>1. /\ content'[s] = Append(<< >>, waiting) /\ last_key' = waiting
              /\ appended' = Append(appended, waiting)
            BY <2>3, <2>5, <2>6, WriteIs
        <3>2. /\ Len(appended) \in Nat /\ Len(appended') = Len(appended) + 1
              /\ \A k \in 1 .. Len(appended) : appended'[k] = appended[k]
              /\ appended'[Len(appended) + 1] = waiting
              /\ \A k \in 1 .. Len(appended') : k \in 1 .. Len(appended) \/ k = Len(appended) + 1
            BY <2>3, <3>1, EventAppended
        <3>3. content'[s] = <<waiting>>
            BY <3>1
        <3>4. ASSUME NEW k \in 1 .. Len(appended')
              PROVE  ShardOf(appended'[k]) = s <=> k > Len(appended)
            <4>1. CASE k \in 1 .. Len(appended)
                <5>1. ShardOf(appended[k]) # s
                    BY <2>5, <2>7, <4>1
                <5> QED BY <3>2, <4>1, <5>1
            <4>2. CASE k = Len(appended) + 1
                BY <3>2, <4>2 DEF s
            <4> QED BY <3>2, <4>1, <4>2
        <3>5. /\ Len(content'[s]) = Len(appended') - Len(appended)
              /\ \A i \in 1 .. Len(content'[s]) : content'[s][i] = appended'[Len(appended) + i]
            BY <3>2, <3>3
        <3>6. ASSUME NEW from \in Nat, from = Len(appended)
              PROVE  Holds(shard, from)'
            BY <2>5, <3>4, <3>5, <3>6 DEF Holds, ShardOf
        <3>7. Len(appended) \in 0 .. Len(appended')
            BY <3>2
        <3>8. last_key' # NoEvent
            BY <2>3, <3>1, EventTypes
        <3> QED BY <3>2, <3>6, <3>7, <3>8 DEF OpenInv
    <2> QED BY <2>2, <2>3, <2>4, <2>5
<1>5. CASE fsync \/ link \/ unlink \/ write_sidecar \/ write_entry
    <2>1. stage # "none" /\ UNCHANGED <<boot_id, hour, content, appended, last_key>>
        BY <1>5 DEF fsync, link, unlink, write_sidecar, write_entry, Step
    <2> QED BY <1>2, <2>1 DEF shard
<1>6. CASE fsync_manifest
    BY <1>1, <1>6 DEF fsync_manifest, Step
<1>7. CASE close \/ Kill \/ WriteFails \/ PowerLoss
    BY <1>1, <1>7 DEF close, Kill, WriteFails, PowerLoss, Gone
<1>8. CASE close_Fails
    BY <1>8, <1>11 DEF close_Fails, shard
<1>9. CASE Tick \/ SetBack \/ UNCHANGED vars
    <2>1. UNCHANGED <<stage, boot_id, hour, content, appended, last_key>>
        BY <1>9 DEF Tick, SetBack, vars, writer, disk
    <2> QED BY <1>1, <1>2, <2>1 DEF shard
<1>10. ASSUME NEW b \in BootIds, ShardWriter(b)
       PROVE  OpenInv'
    BY <1>1, <1>10 DEF ShardWriter
<1> QED BY <1>3, <1>4, <1>5, <1>6, <1>7, <1>8, <1>9, <1>10 DEF Next, _finalize

\* The events of a shard ascend, and the last is the writer's last one.
LEMMA KeyStep ==
    ASSUME TypeOK, TypeOK', StageInv, NameInv, OpenInv, KeyInv, [Next]_vars
    PROVE  KeyInv'
<1>1. ASSUME NEW e \in Events, appended' = Append(appended, e),
             \A k \in 1 .. Len(appended) : ShardOf(appended[k]) = ShardOf(e) => Before(appended[k], e)
      PROVE  /\ appended' # << >> /\ e = appended'[Len(appended')]
             /\ \A j, k \in 1 .. Len(appended') :
                   j < k /\ ShardOf(appended'[j]) = ShardOf(appended'[k]) => Before(appended'[j], appended'[k])
    <2>1. /\ Len(appended) \in Nat /\ Len(appended') = Len(appended) + 1
          /\ \A k \in 1 .. Len(appended) : appended'[k] = appended[k]
          /\ appended'[Len(appended) + 1] = e
          /\ \A k \in 1 .. Len(appended') : k \in 1 .. Len(appended) \/ k = Len(appended) + 1
        BY <1>1, EventAppended
    <2>2. ASSUME NEW j \in 1 .. Len(appended'), NEW k \in 1 .. Len(appended'), j < k,
                 ShardOf(appended'[j]) = ShardOf(appended'[k])
          PROVE  Before(appended'[j], appended'[k])
        <3>1. j \in 1 .. Len(appended)
            BY <2>1, <2>2
        <3>2. CASE k \in 1 .. Len(appended)
            BY <2>1, <2>2, <3>1, <3>2 DEF KeyInv
        <3>3. CASE k = Len(appended) + 1
            BY <1>1, <2>1, <2>2, <3>1, <3>3
        <3> QED BY <2>1, <3>2, <3>3
    <2>3. appended' # << >>
        BY <2>1
    <2> QED BY <2>1, <2>2, <2>3
<1>2. ASSUME appended' = appended, waiting' = NoEvent, last_key' \in {last_key, NoEvent},
             boot_id' = NoBoot => stage' = "none"
      PROVE  KeyInv'
    BY <1>2 DEF KeyInv, ShardOf, Before
<1>3. ASSUME UNCHANGED <<appended, waiting, last_key, boot_id>>, boot_id = NoBoot => stage' = "none"
      PROVE  KeyInv'
    BY <1>3 DEF KeyInv, ShardOf, Before, Advances
<1>4. ASSUME NEW n \in Sequences, append_event(n)
      PROVE  KeyInv'
    <2>1. PICK e \in Events :
              /\ e.boot = boot_id /\ Advances(e) /\ boot_id # NoBoot
              /\ UNCHANGED <<boot_id, hour, stage>>
              /\ \/ /\ stage = "open" /\ ShardOf(e) = shard /\ waiting' = NoEvent
                    /\ appended' = Append(appended, e) /\ last_key' = e
                 \/ waiting' = NoEvent /\ UNCHANGED <<last_key, appended>>
                 \/ waiting' = e /\ UNCHANGED <<last_key, appended>>
        BY <1>4, AppendEventIs DEF Write, Write_Fails
    <2>4. CASE waiting' = NoEvent /\ UNCHANGED <<last_key, appended>>
        BY <1>2, <2>1, <2>4
    <2>2. CASE waiting' = e /\ UNCHANGED <<last_key, appended>>
        BY <2>1, <2>2 DEF KeyInv, Advances, ShardOf, Before
    <2>3. CASE /\ stage = "open" /\ ShardOf(e) = shard /\ waiting' = NoEvent
               /\ appended' = Append(appended, e) /\ last_key' = e
        <3>2. PICK from \in 0 .. Len(appended) :
                  Holds(shard, from) /\ (last_key = NoEvent => from = Len(appended))
            BY <2>3 DEF OpenInv
        <3>3. /\ Len(appended) \in Nat
              /\ \A k \in 1 .. Len(appended) : appended[k] \in Events /\ Len(appended) \in 1 .. Len(appended)
            BY DEF TypeOK
        <3>4. ASSUME NEW k \in 1 .. Len(appended), ShardOf(appended[k]) = shard
              PROVE  Before(appended[k], e)
            <4>0. k > from /\ last_key # NoEvent
                BY <3>2, <3>3, <3>4 DEF Holds
            <4>3. last_key = appended[Len(appended)] /\ Before(last_key, e)
                BY <2>1, <4>0 DEF KeyInv, Advances
            <4>1. CASE k = Len(appended)
                BY <4>1, <4>3
            <4>2. CASE k # Len(appended)
                <5>1. Len(appended) > from /\ k < Len(appended)
                    BY <3>2, <3>3, <4>0, <4>2
                <5>2. ShardOf(appended[Len(appended)]) = shard
                    BY <3>2, <3>3, <5>1 DEF Holds
                <5>3. Before(appended[k], last_key)
                    BY <3>3, <3>4, <4>3, <5>1, <5>2 DEF KeyInv
                <5> QED BY <3>3, <4>3, <5>3, BeforeIsOrder
            <4> QED BY <4>1, <4>2
        <3>6. /\ appended' # << >> /\ e = appended'[Len(appended')]
              /\ \A j, k \in 1 .. Len(appended') :
                    j < k /\ ShardOf(appended'[j]) = ShardOf(appended'[k]) => Before(appended'[j], appended'[k])
            BY <1>1, <2>3, <3>4
        <3> QED BY <2>1, <2>3, <3>6 DEF KeyInv, ShardOf, Before
    <2> QED BY <2>1, <2>2, <2>3, <2>4
<1>5. CASE _open
    <2>1. /\ waiting \in Events /\ boot_id' # NoBoot /\ waiting' = NoEvent
          /\ \/ UNCHANGED <<last_key, appended>>
             \/ /\ Named(ShardOf(waiting), "final") \notin names
                /\ Named(ShardOf(waiting), "partial") \notin names
                /\ appended' = Append(appended, waiting) /\ last_key' = waiting
        BY <1>5, OpenIs DEF Write, Write_Fails
    <2>2. CASE UNCHANGED <<last_key, appended>>
        BY <1>2, <2>1, <2>2
    <2>3. CASE /\ Named(ShardOf(waiting), "final") \notin names
               /\ Named(ShardOf(waiting), "partial") \notin names
               /\ appended' = Append(appended, waiting) /\ last_key' = waiting
        <3>1. \A k \in 1 .. Len(appended) : ShardOf(appended[k]) # ShardOf(waiting)
            BY <2>3 DEF NameInv
        <3>2. /\ appended' # << >> /\ waiting = appended'[Len(appended')]
              /\ \A j, k \in 1 .. Len(appended') :
                    j < k /\ ShardOf(appended'[j]) = ShardOf(appended'[k]) => Before(appended'[j], appended'[k])
            BY <1>1, <2>1, <2>3, <3>1
        <3> QED BY <2>1, <2>3, <3>2 DEF KeyInv, ShardOf, Before
    <2> QED BY <2>1, <2>2, <2>3
<1>6. CASE fsync \/ link \/ unlink \/ write_sidecar \/ write_entry
    <2>1. stage # "none" /\ UNCHANGED <<appended, waiting, last_key, boot_id>>
        BY <1>6 DEF fsync, link, unlink, write_sidecar, write_entry, Step
    <2> QED BY <1>3, <2>1 DEF KeyInv
<1>7. CASE fsync_manifest
    <2>1. /\ UNCHANGED <<appended, waiting, last_key>> /\ stage' = "none"
          /\ boot_id' = IF waiting = NoEvent THEN NoBoot ELSE boot_id
        BY <1>7 DEF fsync_manifest, Step
    <2>2. CASE waiting = NoEvent
        BY <1>2, <2>1, <2>2
    <2>3. CASE waiting # NoEvent
        BY <1>3, <2>1, <2>3
    <2> QED BY <2>2, <2>3
<1>8. CASE close
    BY <1>2, <1>8 DEF close
<1>9. CASE close_Fails
    <2>1. boot_id # NoBoot
        BY <1>9 DEF close_Fails, KeyInv
    <2> QED BY <1>2, <1>9, <2>1 DEF close_Fails
<1>10. CASE Kill \/ WriteFails \/ PowerLoss
    BY <1>2, <1>10 DEF Kill, WriteFails, PowerLoss, Gone
<1>11. CASE Tick \/ SetBack \/ UNCHANGED vars
    <2>1. UNCHANGED <<appended, waiting, last_key, boot_id, stage>>
        BY <1>11 DEF Tick, SetBack, vars, writer
    <2> QED BY <1>3, <2>1 DEF KeyInv
<1>12. ASSUME NEW b \in BootIds, ShardWriter(b)
       PROVE  KeyInv'
    BY <1>2, <1>12 DEF ShardWriter
<1> QED BY <1>4, <1>5, <1>6, <1>7, <1>8, <1>9, <1>10, <1>11, <1>12 DEF Next, _finalize

\* Unless the clock is set back the log ascends from writer to writer.
LEMMA TimeStep ==
    ASSUME TypeOK, TypeOK', StageInv, KeyInv, TimeInv, [Next]_vars
    PROVE  TimeInv'
<1> SUFFICES ASSUME ~ set_back'
             PROVE  TimeInv'
    BY DEF TimeInv
<1>1. ~ set_back
    BY DEF Next, _finalize, ShardWriter, append_event, _open, fsync, link, unlink, write_sidecar,
           write_entry, fsync_manifest, Step, close, close_Fails, Kill, WriteFails, PowerLoss,
           Gone, Tick, SetBack, vars, faults
<1>2. /\ clock \in Nat /\ clock' \in Nat /\ Len(appended) \in Nat
      /\ \A k \in 1 .. Len(appended) : appended[k] \in Events /\ appended[k].ns \in Nat
    <2>1. clock \in Nat /\ clock' \in Nat
        BY ConstantTypes DEF TypeOK, Times
    <2>2. Len(appended) \in Nat /\ \A k \in 1 .. Len(appended) : appended[k] \in Events
        BY DEF TypeOK
    <2> QED BY <2>1, <2>2, EventTypes
<1>3. ASSUME NEW e \in Events, appended' = Append(appended, e), e.ns \leq clock, clock' = clock,
             waiting' = NoEvent, last_key' # NoEvent,
             \A k \in 1 .. Len(appended) : Before(appended[k], e)
      PROVE  TimeInv'
    <2>1. /\ Len(appended) \in Nat /\ Len(appended') = Len(appended) + 1
          /\ \A k \in 1 .. Len(appended) : appended'[k] = appended[k]
          /\ appended'[Len(appended) + 1] = e
          /\ \A k \in 1 .. Len(appended') : k \in 1 .. Len(appended) \/ k = Len(appended) + 1
        BY <1>3, EventAppended
    <2>2. \A k \in 1 .. Len(appended') : appended'[k].ns \leq clock'
        BY <1>1, <1>3, <2>1 DEF TimeInv
    <2>3. ASSUME NEW j \in 1 .. Len(appended'), NEW k \in 1 .. Len(appended'), j < k
          PROVE  Before(appended'[j], appended'[k])
        <3>1. j \in 1 .. Len(appended)
            BY <2>1, <2>3
        <3>2. CASE k \in 1 .. Len(appended)
            BY <1>1, <2>1, <2>3, <3>1, <3>2 DEF TimeInv
        <3>3. CASE k = Len(appended) + 1
            BY <1>3, <2>1, <3>1, <3>3
        <3> QED BY <2>1, <3>2, <3>3
    <2> QED BY <1>3, <2>2, <2>3 DEF TimeInv, Before
<1>4. ASSUME last_key # NoEvent, NEW e \in Events, Before(last_key, e)
      PROVE  \A k \in 1 .. Len(appended) : Before(appended[k], e)
    <2>1. Len(appended) \in 1 .. Len(appended) /\ last_key = appended[Len(appended)]
        BY <1>2, <1>4 DEF KeyInv, TypeOK
    <2>2. ASSUME NEW k \in 1 .. Len(appended), k # Len(appended)
          PROVE  Before(appended[k], e)
        <3>1. k < Len(appended)
            BY <1>2, <2>2
        <3>2. Before(appended[k], last_key)
            BY <1>1, <2>1, <3>1 DEF TimeInv
        <3> QED BY <1>2, <1>4, <2>1, <3>2, BeforeIsOrder
    <2> QED BY <1>4, <2>1, <2>2
<1>5. ASSUME UNCHANGED <<appended, waiting, last_key, clock>>, boot_id' \in {boot_id, NoBoot}
      PROVE  TimeInv'
    BY <1>1, <1>5 DEF TimeInv, Before
<1>6. ASSUME UNCHANGED <<appended, clock>>, waiting' = NoEvent,
             boot_id' = NoBoot \/ UNCHANGED <<boot_id, last_key>>
      PROVE  TimeInv'
    BY <1>1, <1>6 DEF TimeInv, Before
<1>7. ASSUME NEW n \in Sequences, append_event(n)
      PROVE  TimeInv'
    <2>1. PICK e \in Events :
              /\ e.ns = clock /\ Advances(e)
              /\ UNCHANGED <<clock, boot_id>> /\ boot_id # NoBoot
              /\ \/ waiting' = NoEvent /\ appended' = Append(appended, e) /\ last_key' = e
                 \/ waiting' = NoEvent /\ UNCHANGED <<last_key, appended>>
                 \/ waiting' = e /\ UNCHANGED <<last_key, appended>>
        BY <1>7, AppendEventIs DEF Write, Write_Fails
    <2>4. CASE waiting' = NoEvent /\ UNCHANGED <<last_key, appended>>
        BY <1>6, <2>1, <2>4
    <2>2. CASE waiting' = e /\ UNCHANGED <<last_key, appended>>
        BY <1>1, <1>2, <2>1, <2>2 DEF TimeInv, Before
    <2>3. CASE waiting' = NoEvent /\ appended' = Append(appended, e) /\ last_key' = e
        <3>1. e # NoEvent /\ e.ns \leq clock
            BY <1>2, <2>1, EventTypes
        <3>2. \A k \in 1 .. Len(appended) : Before(appended[k], e)
            <4>1. CASE last_key = NoEvent
                BY <1>1, <2>1, <4>1 DEF TimeInv, Before
            <4>2. CASE last_key # NoEvent
                BY <1>4, <2>1, <4>2 DEF Advances
            <4> QED BY <4>1, <4>2
        <3> QED BY <1>3, <2>1, <2>3, <3>1, <3>2
    <2> QED BY <2>1, <2>2, <2>3, <2>4
<1>8. CASE _open
    <2>1. /\ waiting \in Events /\ waiting # NoEvent /\ boot_id # NoBoot /\ boot_id' = boot_id
          /\ waiting' = NoEvent /\ clock' = clock
          /\ \/ UNCHANGED <<last_key, appended>>
             \/ last_key' = waiting /\ appended' = Append(appended, waiting)
        BY <1>8, OpenIs DEF Write, Write_Fails
    <2>2. CASE UNCHANGED <<last_key, appended>>
        BY <1>6, <2>1, <2>2
    <2>3. CASE last_key' = waiting /\ appended' = Append(appended, waiting)
        <3>1. waiting.ns \leq clock /\ Advances(waiting)
            BY <1>1, <2>1 DEF TimeInv, KeyInv
        <3>2. \A k \in 1 .. Len(appended) : Before(appended[k], waiting)
            <4>1. CASE last_key = NoEvent
                BY <1>1, <2>1, <4>1 DEF TimeInv, Before
            <4>2. CASE last_key # NoEvent
                BY <1>4, <2>1, <3>1, <4>2 DEF Advances
            <4> QED BY <4>1, <4>2
        <3> QED BY <1>3, <2>1, <2>3, <3>1, <3>2
    <2> QED BY <2>1, <2>2, <2>3
<1>9. CASE fsync \/ link \/ unlink \/ write_sidecar \/ write_entry \/ fsync_manifest
    BY <1>5, <1>9 DEF fsync, link, unlink, write_sidecar, write_entry, fsync_manifest, Step
<1>10. CASE close \/ close_Fails \/ UNCHANGED vars
    BY <1>5, <1>6, <1>10 DEF close, close_Fails, vars
<1>11. CASE Kill \/ WriteFails \/ PowerLoss
    BY <1>6, <1>11 DEF Kill, WriteFails, PowerLoss, Gone
<1>12. CASE Tick
    <2>1. clock' = clock + 1 /\ UNCHANGED <<appended, waiting, last_key, boot_id>>
        BY <1>12 DEF Tick, writer
    <2>2. waiting # NoEvent => waiting.ns \in Nat
        BY EventTypes DEF TypeOK
    <2> QED BY <1>1, <1>2, <2>1, <2>2 DEF TimeInv, Before
<1>13. ASSUME NEW b \in BootIds, ShardWriter(b)
       PROVE  TimeInv'
    <2>1. clock' = clock + 1 /\ waiting' = NoEvent /\ appended' = appended
        BY <1>13 DEF ShardWriter
    <2> QED BY <1>1, <1>2, <2>1 DEF TimeInv, Before
<1>14. ~ SetBack
    BY DEF SetBack
<1> QED BY <1>7, <1>8, <1>9, <1>10, <1>11, <1>12, <1>13, <1>14 DEF Next, _finalize


-----------------------------------------------------------------------------
\* What was selected stays so when the log grows behind it.
LEMMA AreAtKept ==
    ASSUME NEW r, NEW s, NEW t, NEW places, AreAt(r, s, places),
           \A k \in places : t[k] = s[k]
    PROVE  AreAt(r, t, places)
BY DEF AreAt

\* Two selections, one behind the other, are one.
LEMMA AreAtJoined ==
    ASSUME NEW T, NEW r \in Seq(T), NEW c \in Seq(T), NEW s, NEW from \in Nat,
           NEW places \in SUBSET (1 .. from), AreAt(r, s, places),
           \A i \in 1 .. Len(c) : c[i] = s[from + i]
    PROVE  AreAt(r \o c, s, places \cup (from + 1 .. from + Len(c)))
<1> DEFINE n == Len(r)
           l == Len(c)
           all == places \cup (from + 1 .. from + l)
<1>1. n \in Nat /\ l \in Nat /\ Len(r \o c) = n + l
    OBVIOUS
<1>2. \A i \in 1 .. n + l : (r \o c)[i] = IF i \leq n THEN r[i] ELSE c[i - n]
    OBVIOUS
<1>3. PICK f \in [1 .. n -> places] :
          /\ \A i, j \in 1 .. n : i < j => f[i] < f[j]
          /\ \A k \in places : \E i \in 1 .. n : f[i] = k
          /\ \A i \in 1 .. n : r[i] = s[f[i]]
    BY DEF AreAt
<1> DEFINE g == [i \in 1 .. n + l |-> IF i \leq n THEN f[i] ELSE from + (i - n)]
<1> HIDE DEF n, l
<1>4. ASSUME NEW i \in 1 .. n
      PROVE  i \in 1 .. n + l /\ i \in Nat /\ g[i] = f[i] /\ f[i] \in places /\ f[i] \in Nat /\ f[i] \leq from
    <2>1. i \in 1 .. n + l /\ i \in Nat /\ i \leq n
        BY <1>1
    <2>2. f[i] \in places /\ f[i] \in Nat /\ f[i] \leq from
        <3>1. f[i] \in places
            BY <1>3
        <3>2. f[i] \in 1 .. from
            BY <3>1
        <3> QED BY <3>1, <3>2
    <2> QED BY <2>1, <2>2
<1>5. ASSUME NEW i \in n + 1 .. n + l
      PROVE  /\ i \in 1 .. n + l /\ i \in Nat /\ g[i] = from + (i - n) /\ i - n \in 1 .. l
             /\ from + (i - n) \in from + 1 .. from + l
    <2>1. i \in 1 .. n + l /\ i \in Nat /\ ~ (i \leq n)
        BY <1>1
    <2>2. i - n \in 1 .. l /\ from + (i - n) \in from + 1 .. from + l
        BY <1>1
    <2> QED BY <2>1, <2>2
<1>6. \A i \in 1 .. n + l : i \in 1 .. n \/ i \in n + 1 .. n + l
    BY <1>1
<1>7. g \in [1 .. n + l -> all]
    <2>1. \A i \in 1 .. n + l : g[i] \in all
        BY <1>4, <1>5, <1>6
    <2> QED BY <2>1
<1> HIDE DEF g
<1>8. ASSUME NEW i \in 1 .. n + l, NEW j \in 1 .. n + l, i < j
      PROVE  g[i] < g[j]
    <2>1. CASE j \in 1 .. n
        <3>1. i \in 1 .. n
            BY <1>1, <1>8, <2>1
        <3> QED BY <1>3, <1>4, <1>8, <2>1, <3>1
    <2>2. CASE i \in 1 .. n /\ j \in n + 1 .. n + l
        <3>1. g[i] \in Nat /\ g[i] \leq from
            BY <1>4, <2>2
        <3>2. g[j] = from + (j - n) /\ j - n \in 1 .. l
            BY <1>5, <2>2
        <3> QED BY <1>1, <3>1, <3>2
    <2>3. CASE i \in n + 1 .. n + l /\ j \in n + 1 .. n + l
        <3>1. g[i] = from + (i - n) /\ g[j] = from + (j - n)
            BY <1>5, <2>3
        <3> QED BY <1>1, <1>8, <2>3, <3>1
    <2> QED BY <1>6, <2>1, <2>2, <2>3
<1>9. ASSUME NEW k \in all
      PROVE  \E i \in 1 .. n + l : g[i] = k
    <2>1. CASE k \in places
        BY <1>3, <1>4, <2>1
    <2>2. CASE k \in from + 1 .. from + l
        <3>1. n + (k - from) \in n + 1 .. n + l /\ from + ((n + (k - from)) - n) = k
            BY <1>1, <2>2
        <3> QED BY <1>5, <3>1
    <2> QED BY <2>1, <2>2
<1>10. ASSUME NEW i \in 1 .. n + l
       PROVE  (r \o c)[i] = s[g[i]]
    <2>1. CASE i \in 1 .. n
        <3>1. i \leq n
            BY <1>1, <2>1
        <3> QED BY <1>2, <1>3, <1>4, <2>1, <3>1 DEF n, l
    <2>2. CASE i \in n + 1 .. n + l
        <3>1. ~ (i \leq n) /\ i - n \in 1 .. Len(c)
            BY <1>1, <1>5, <2>2 DEF l
        <3> QED BY <1>2, <1>5, <2>2, <3>1 DEF n, l
    <2> QED BY <1>6, <2>1, <2>2
<1>11. AreAt(r \o c, s, all)
    <2> DEFINE rc == r \o c
    <2>1. Len(rc) = n + l /\ \A i \in 1 .. n + l : rc[i] = s[g[i]]
        BY <1>1, <1>10
    <2> HIDE DEF all, rc
    <2>2. g \in [1 .. Len(rc) -> all]
        BY <1>7, <2>1
    <2>3. /\ \A i, j \in 1 .. Len(rc) : i < j => g[i] < g[j]
          /\ \A k \in all : \E i \in 1 .. Len(rc) : g[i] = k
          /\ \A i \in 1 .. Len(rc) : rc[i] = s[g[i]]
        BY <1>8, <1>9, <2>1
    <2>4. AreAt(rc, s, all)
        BY <2>2, <2>3 DEF AreAt
    <2> QED BY <2>4 DEF rc
<1> QED BY <1>11 DEF l

\* Lines that stay, of shards that keep their content, show the same events.
LEMMA RecordKept ==
    ASSUME TypeOK, RecordInv, NEW m \in 0 .. Len(manifest), Readable(m)',
           \A i \in 1 .. m : manifest'[i] # Torn =>
               /\ manifest'[i] = manifest[i]
               /\ content'[manifest[i].shard] = content[manifest[i].shard],
           \/ appended' = appended
           \/ \E e \in Events :
                 /\ appended' = Append(appended, e)
                 /\ \A i \in 1 .. m : manifest[i] # Torn => manifest[i].shard # ShardOf(e)
    PROVE  AreAt(FlattenSeq(Shown(m)), appended, Places(m))'
<1>1. \A i \in 1 .. m : /\ manifest'[i] # Torn /\ manifest'[i] = manifest[i]
                        /\ content'[manifest[i].shard] = content[manifest[i].shard]
    BY DEF Readable
<1>2. Readable(m)
    BY <1>1 DEF Readable, IsCut, Contains
<1>3. Shown(m)' = Shown(m)
    BY <1>1 DEF Shown
<1>4. AreAt(FlattenSeq(Shown(m)), appended, Places(m))
    BY <1>2 DEF RecordInv
<1>5. /\ Places(m)' = Places(m)
      /\ \A k \in Places(m) : appended'[k] = appended[k]
    <2>1. CASE appended' = appended
        BY <1>1, <2>1 DEF Places, ShardOf
    <2>2. CASE appended' # appended
        <3>1. PICK e \in Events :
                  /\ appended' = Append(appended, e)
                  /\ \A i \in 1 .. m : manifest[i].shard # ShardOf(e)
            BY <1>1, <2>2
        <3>2. /\ Len(appended) \in Nat /\ Len(appended') = Len(appended) + 1
              /\ \A k \in 1 .. Len(appended) : appended'[k] = appended[k]
              /\ appended'[Len(appended) + 1] = e
              /\ \A k \in 1 .. Len(appended') : k \in 1 .. Len(appended) \/ k = Len(appended) + 1
              /\ \A k \in 1 .. Len(appended) : k \in 1 .. Len(appended')
            <4>1. /\ Len(appended) \in Nat /\ Len(appended') = Len(appended) + 1
                  /\ \A k \in 1 .. Len(appended) : appended'[k] = appended[k]
                  /\ appended'[Len(appended) + 1] = e
                  /\ \A k \in 1 .. Len(appended') : k \in 1 .. Len(appended) \/ k = Len(appended) + 1
                BY <3>1, EventAppended
            <4> QED BY <4>1
        <3>3. \A k : k \in Places(m) =>
                  k \in 1 .. Len(appended) /\ \E i \in 1 .. m : manifest[i].shard = ShardOf(appended[k])
            BY DEF Places
        <3>4. Places(m)' = {k \in 1 .. Len(appended') :
                                \E i \in 1 .. m : manifest'[i].shard = ShardOf(appended'[k])}
            BY DEF Places, ShardOf
        <3>5. ASSUME NEW k \in Places(m)'
              PROVE  k \in Places(m)
            <4>1. k \in 1 .. Len(appended') /\ \E i \in 1 .. m : manifest[i].shard = ShardOf(appended'[k])
                BY <1>1, <3>4
            <4>2. k \in 1 .. Len(appended)
                BY <3>1, <3>2, <4>1
            <4> QED BY <3>2, <4>1, <4>2 DEF Places
        <3>6. ASSUME NEW k \in Places(m)
              PROVE  k \in Places(m)'
            BY <1>1, <3>2, <3>3, <3>4
        <3> QED BY <3>2, <3>3, <3>5, <3>6
    <2> QED BY <2>1, <2>2
<1>6. AreAt(FlattenSeq(Shown(m)), appended', Places(m))
    BY <1>4, <1>5, AreAtKept
<1>7. FlattenSeq(Shown(m))' = FlattenSeq(Shown(m)')
    BY DEF FlattenSeq
<1> QED BY <1>3, <1>5, <1>6, <1>7 DEF AreAt

\* A line that is added shows the end of the log.
LEMMA RecordAdded ==
    ASSUME TypeOK, TypeOK', StageInv, OpenInv, RecordInv, write_entry,
           NEW m \in Nat, m = Len(manifest) + 1, Readable(m)'
    PROVE  AreAt(FlattenSeq(Shown(m)), appended, Places(m))'
<1> DEFINE line == [shard |-> shard, sha256 |-> content[shard]]
           T == Events \cup {Cut}
<1>0. PICK n \in Nat : n = Len(manifest) /\ m = n + 1
    <2>1. Len(manifest) \in Nat
        BY DEF TypeOK
    <2> QED BY <2>1
<1>1. /\ stage = "summed" /\ shard \in Shards /\ line \in Lines /\ line.shard = shard
      /\ manifest' = Append(manifest, line) /\ UNCHANGED <<content, appended>>
    BY ShardTypes DEF write_entry, Step, Lines, TypeOK
<1> HIDE DEF line
<1>2. /\ \A i \in 1 .. n : manifest'[i] = manifest[i]
      /\ manifest'[m] = line
    BY <1>0, <1>1, AppendIs DEF TypeOK
<1>3. /\ \A i \in 1 .. n : manifest[i] # Torn /\ ~ IsCut(manifest[i])
      /\ ~ Contains(content[shard], Cut)
    <2>1. \A i \in 1 .. m : manifest'[i] # Torn /\ ~ Contains(content[manifest'[i].shard], Cut)
        BY <1>1 DEF Readable, IsCut
    <2>2. m \in 1 .. m /\ \A i \in 1 .. n : i \in 1 .. m
        BY <1>0
    <2> QED BY <1>1, <1>2, <2>1, <2>2 DEF IsCut
<1>4. AreAt(FlattenSeq(Shown(n)), appended, Places(n))
    BY <1>0, <1>3 DEF RecordInv, Readable
<1>5. \A i \in 1 .. n : manifest[i].shard \in Shards /\ manifest[i].shard # shard
    BY <1>0, <1>1, <1>3, LineIs DEF StageInv
<1>6. Shown(n) \in Seq(Seq(T)) /\ content[shard] \in Seq(T)
    <2>1. \A s \in Shards : content[s] \in Seq(T)
        BY DEF TypeOK, Contents
    <2>2. \A i \in 1 .. n : content[manifest[i].shard] \in Seq(T)
        BY <1>5, <2>1
    <2> HIDE DEF T
    <2> QED BY <1>1, <2>1, <2>2 DEF Shown
<1>7. Shown(m)' = Append(Shown(n), content[shard])
    <2>1. Shown(m)' = [i \in 1 .. m |-> content[manifest'[i].shard]]
        BY <1>1 DEF Shown
    <2>2. Len(Shown(n)) = n
        BY DEF Shown
    <2>3. Append(Shown(n), content[shard])
              = [i \in 1 .. m |-> IF i = m THEN content[shard] ELSE Shown(n)[i]]
        <3> HIDE DEF T
        <3> QED BY <1>0, <1>6, <2>2
    <2>4. ASSUME NEW i \in 1 .. m
          PROVE  content[manifest'[i].shard] = IF i = m THEN content[shard] ELSE Shown(n)[i]
        <3>1. CASE i = m
            BY <1>1, <1>2, <3>1
        <3>2. CASE i # m
            <4>1. i \in 1 .. n
                BY <1>0, <3>2
            <4> QED BY <1>2, <3>2, <4>1 DEF Shown
        <3> QED BY <3>1, <3>2
    <2> QED BY <2>1, <2>3, <2>4
<1>8. /\ FlattenSeq(Shown(n)) \in Seq(T)
      /\ FlattenSeq(Shown(m))' = FlattenSeq(Shown(n)) \o content[shard]
    <2>1. FlattenSeq(Shown(m))' = FlattenSeq(Shown(m)')
        BY DEF FlattenSeq
    <2> HIDE DEF T
    <2> QED BY <1>6, <1>7, <2>1, FlattenAppend
<1>9. PICK from \in 0 .. Len(appended) : Holds(shard, from)
    BY <1>1 DEF OpenInv
<1>10. /\ from \in Nat /\ Len(appended) \in Nat /\ from + Len(content[shard]) = Len(appended)
       /\ \A i \in 1 .. Len(content[shard]) : content[shard][i] = appended[from + i]
       /\ \A k \in 1 .. Len(appended) : ShardOf(appended[k]) = shard <=> k > from
    <2>1. Len(appended) \in Nat
        BY DEF TypeOK
    <2> QED BY <1>3, <1>9, <2>1 DEF Holds
<1>11. Places(n) \in SUBSET (1 .. from)
    <2>1. ASSUME NEW k \in Places(n)
          PROVE  k \in 1 .. from
        <3>1. k \in 1 .. Len(appended) /\ ShardOf(appended[k]) # shard
            BY <1>5 DEF Places
        <3> QED BY <1>10, <3>1
    <2> QED BY <2>1
<1>12. AreAt(FlattenSeq(Shown(n)) \o content[shard], appended,
             Places(n) \cup (from + 1 .. from + Len(content[shard])))
    <2> HIDE DEF T
    <2> QED BY <1>4, <1>6, <1>8, <1>10, <1>11, AreAtJoined
<1>13. Places(m)' = Places(n) \cup (from + 1 .. Len(appended))
    <2>1. Places(m)' = {k \in 1 .. Len(appended) :
                               \E i \in 1 .. m : manifest'[i].shard = ShardOf(appended[k])}
        BY <1>1 DEF Places, ShardOf
    <2>2. ASSUME NEW k \in 1 .. Len(appended)
          PROVE  (\E i \in 1 .. m : manifest'[i].shard = ShardOf(appended[k]))
                     <=> \/ \E i \in 1 .. n : manifest[i].shard = ShardOf(appended[k])
                         \/ k \in from + 1 .. Len(appended)
        <3>1. \A i \in 1 .. m : i \in 1 .. n \/ i = m
            BY <1>0
        <3>2. m \in 1 .. m /\ \A i \in 1 .. n : i \in 1 .. m
            BY <1>0
        <3>3. k \in from + 1 .. Len(appended) <=> ShardOf(appended[k]) = shard
            BY <1>10
        <3> QED BY <1>1, <1>2, <3>1, <3>2, <3>3
    <2>3. (from + 1 .. Len(appended)) \subseteq 1 .. Len(appended)
        BY <1>10
    <2> QED BY <2>1, <2>2, <2>3 DEF Places
<1>14. AreAt(FlattenSeq(Shown(m)), appended, Places(m))'
           <=> AreAt(FlattenSeq(Shown(m))', appended, Places(m)')
    BY <1>1 DEF AreAt
<1> QED BY <1>8, <1>10, <1>12, <1>13, <1>14

\* What the manifest shows is what was appended.
LEMMA RecordStep ==
    ASSUME TypeOK, TypeOK', StageInv, ListInv, KeyInv, OpenInv, RecordInv, [Next]_vars
    PROVE  RecordInv'
<1>1. Len(manifest) \in Nat /\ Len(manifest)' \in Nat
    BY DEF TypeOK
<1>2. ASSUME manifest' = manifest,
             \A i \in 1 .. Len(manifest) : manifest[i] # Torn =>
                 content'[manifest[i].shard] = content[manifest[i].shard],
             \/ appended' = appended
             \/ \E e \in Events :
                   /\ appended' = Append(appended, e)
                   /\ Named(ShardOf(e), "final") \notin names
      PROVE  RecordInv'
    <2>1. \A e \in Events, i \in 1 .. Len(manifest) :
              Named(ShardOf(e), "final") \notin names /\ manifest[i] # Torn
                  => manifest[i].shard # ShardOf(e)
        BY DEF ListInv, Intact
    <2>2. ASSUME NEW m \in 0 .. Len(manifest), Readable(m)'
          PROVE  AreAt(FlattenSeq(Shown(m)), appended, Places(m))'
        <3>1. \A i \in 1 .. m : i \in 1 .. Len(manifest)
            BY <1>1
        <3> QED BY <1>2, <2>1, <2>2, <3>1, RecordKept
    <2> QED BY <1>2, <2>2 DEF RecordInv
<1>3. ASSUME UNCHANGED <<manifest, content, appended>>
      PROVE  RecordInv'
    BY <1>2, <1>3
<1>4. CASE _open \/ close_Fails \/ \E n \in Sequences : append_event(n)
    <2>1. \A i \in 1 .. Len(manifest) : manifest[i] # Torn =>
              manifest[i].shard \in Shards /\ Named(manifest[i].shard, "final") \in names
        BY LineIs DEF ListInv, Intact
    <2> QED BY <1>2, <1>4, <2>1, WritingIs
<1>5. CASE fsync \/ link \/ unlink \/ write_sidecar \/ fsync_manifest
    BY <1>3, <1>5 DEF fsync, link, unlink, write_sidecar, fsync_manifest, Step, disk
<1>6. CASE write_entry
    <2>1. /\ UNCHANGED <<content, appended>>
          /\ Len(manifest') = Len(manifest) + 1
          /\ \A i \in 1 .. Len(manifest) : manifest'[i] = manifest[i]
        <3>1. [shard |-> shard, sha256 |-> content[shard]] \in Lines
            BY <1>6, ShardTypes DEF write_entry, Step, Lines, TypeOK
        <3> QED BY <1>6, <3>1, AppendIs DEF write_entry, Step, TypeOK
    <2>2. ASSUME NEW m \in 0 .. Len(manifest)', Readable(m)'
          PROVE  AreAt(FlattenSeq(Shown(m)), appended, Places(m))'
        <3>1. CASE m \in 0 .. Len(manifest)
            <4>1. \A i \in 1 .. m : i \in 1 .. Len(manifest)
                BY <1>1, <3>1
            <4> QED BY <2>1, <2>2, <3>1, <4>1, RecordKept
        <3>2. CASE m = Len(manifest) + 1
            BY <1>1, <1>6, <2>2, <3>2, RecordAdded
        <3> QED BY <1>1, <2>1, <3>1, <3>2
    <2> QED BY <2>2 DEF RecordInv
<1>7. CASE close \/ Kill
    BY <1>3, <1>7 DEF close, Kill, Gone, disk
<1>8. CASE WriteFails
    <2>1. /\ UNCHANGED <<content, appended>>
          /\ Len(manifest') = Len(manifest) + 1
          /\ \A i \in 1 .. Len(manifest) : manifest'[i] = manifest[i]
          /\ manifest'[Len(manifest) + 1] = Torn
        <3>1. Torn \in Lines
            BY DEF Lines
        <3> QED BY <1>8, <3>1, AppendIs DEF WriteFails, Gone, TypeOK
    <2>2. ASSUME NEW m \in 0 .. Len(manifest)', Readable(m)'
          PROVE  AreAt(FlattenSeq(Shown(m)), appended, Places(m))'
        <3>1. m # Len(manifest) + 1
            <4>1. m = Len(manifest) + 1 => m \in 1 .. m
                BY <1>1
            <4> QED BY <2>1, <2>2, <4>1 DEF Readable
        <3>2. m \in 0 .. Len(manifest) /\ \A i \in 1 .. m : i \in 1 .. Len(manifest)
            BY <1>1, <2>1, <3>1
        <3> QED BY <2>1, <2>2, <3>2, RecordKept
    <2> QED BY <2>2 DEF RecordInv
<1>9. CASE PowerLoss
    <2>1. /\ appended' = appended
          /\ \A s \in Shards : s \in synced => content'[s] = content[s]
        BY <1>9 DEF PowerLoss, Gone
    <2>2. /\ Len(manifest)' \leq Len(manifest)
          /\ \A i \in 1 .. Len(manifest)' : manifest'[i] # Torn => manifest'[i] = manifest[i]
        BY <1>9, LossIs
    <2>3. ASSUME NEW m \in 0 .. Len(manifest)', Readable(m)'
          PROVE  AreAt(FlattenSeq(Shown(m)), appended, Places(m))'
        <3>1. /\ m \in 0 .. Len(manifest)
              /\ \A i \in 1 .. m : i \in 1 .. Len(manifest) /\ i \in 1 .. Len(manifest)'
            BY <1>1, <2>2
        <3>2. \A i \in 1 .. m : manifest'[i] # Torn =>
                  /\ manifest'[i] = manifest[i]
                  /\ content'[manifest[i].shard] = content[manifest[i].shard]
            BY <2>1, <2>2, <3>1, LineIs DEF ListInv
        <3> QED BY <2>1, <2>3, <3>1, <3>2, RecordKept
    <2> QED BY <2>3 DEF RecordInv
<1>10. CASE Tick \/ SetBack \/ UNCHANGED vars \/ \E b \in BootIds : ShardWriter(b)
    BY <1>3, <1>10 DEF Tick, SetBack, vars, ShardWriter, disk
<1> QED
    BY <1>4, <1>5, <1>6, <1>7, <1>8, <1>9, <1>10 DEF Next, _finalize


-----------------------------------------------------------------------------
\* A line stays explained while its shard keeps its content and gets no event.
LEMMA ExplainedKept ==
    ASSUME NEW line, Explained(line), failed \subseteq failed', line_failed => line_failed',
           line # Torn => content'[line.shard] = content[line.shard] /\ Of(line.shard)' = Of(line.shard),
           \A k \in 1 .. Len(appended) : appended'[k] = appended[k]
    PROVE  \/ line = Torn /\ line_failed'
           \/ line # Torn /\ line.shard \in failed' /\ Contains(content'[line.shard], Cut)
           \/ /\ line # Torn /\ ~ Contains(content'[line.shard], Cut)
              /\ AreAt(content'[line.shard], appended', Of(line.shard)')
<1>1. CASE line # Torn /\ ~ IsCut(line) /\ AreAt(content[line.shard], appended, Of(line.shard))
    <2>1. \A k \in Of(line.shard) : appended'[k] = appended[k]
        BY DEF Of
    <2>2. AreAt(content[line.shard], appended', Of(line.shard))
        BY <1>1, <2>1, AreAtKept
    <2> QED BY <1>1, <2>2 DEF IsCut
<1>2. CASE ~ (line # Torn /\ ~ IsCut(line) /\ AreAt(content[line.shard], appended, Of(line.shard)))
    BY <1>2 DEF Explained, IsCut
<1> QED BY <1>1, <1>2

\* An event adds no place to another shard.
LEMMA OfKept ==
    ASSUME TypeOK, NEW s,
           \/ appended' = appended
           \/ \E e \in Events : appended' = Append(appended, e) /\ ShardOf(e) # s
    PROVE  Of(s)' = Of(s) /\ \A k \in 1 .. Len(appended) : appended'[k] = appended[k]
<1>1. CASE appended' = appended
    BY <1>1 DEF Of, ShardOf
<1>2. ASSUME NEW e \in Events, appended' = Append(appended, e), ShardOf(e) # s
      PROVE  Of(s)' = Of(s) /\ \A k \in 1 .. Len(appended) : appended'[k] = appended[k]
    <2>1. /\ Len(appended) \in Nat /\ Len(appended') = Len(appended) + 1
          /\ \A k \in 1 .. Len(appended) : appended'[k] = appended[k]
          /\ appended'[Len(appended) + 1] = e
          /\ \A k \in 1 .. Len(appended') : k \in 1 .. Len(appended) \/ k = Len(appended) + 1
        BY <1>2, EventAppended
    <2>2. \A k : k \in 1 .. Len(appended') /\ ShardOf(appended'[k]) = s
                    <=> k \in 1 .. Len(appended) /\ ShardOf(appended[k]) = s
        BY <1>2, <2>1
    <2>3. Of(s)' = {k \in 1 .. Len(appended') : ShardOf(appended'[k]) = s}
        BY DEF Of, ShardOf
    <2> QED BY <2>1, <2>2, <2>3 DEF Of
<1> QED BY <1>1, <1>2

\* The content of the open shard, when it can be read, is that of its events.
LEMMA OpenIsWhole ==
    ASSUME TypeOK, OpenInv, stage # "none", ~ Contains(content[shard], Cut)
    PROVE  AreAt(content[shard], appended, Of(shard))
<1> DEFINE T == Events \cup {Cut}
           c == content[shard]
<1>1. PICK from \in 0 .. Len(appended) : Holds(shard, from)
    BY DEF OpenInv
<1>2. c \in Seq(T) /\ << >> \in Seq(T) /\ Len(appended) \in Nat /\ from \in Nat
    BY <1>1, ShardTypes DEF TypeOK, Contents
<1>3. /\ from + Len(c) = Len(appended)
      /\ \A i \in 1 .. Len(c) : c[i] = appended[from + i]
      /\ \A k \in 1 .. Len(appended) : ShardOf(appended[k]) = shard <=> k > from
    <2>1. Len(c) \in Nat
        BY <1>2
    <2> QED BY <1>1, <1>2, <2>1 DEF Holds
<1>4. Of(shard) = {} \cup (from + 1 .. from + Len(c))
    BY <1>2, <1>3 DEF Of
<1>5. AreAt(<< >>, appended, {})
    <2>1. << >> \in [1 .. 0 -> {}] /\ Len(<< >>) = 0
        OBVIOUS
    <2> QED BY <2>1 DEF AreAt
<1> HIDE DEF T, c
<1>6. AreAt(<< >> \o c, appended, {} \cup (from + 1 .. from + Len(c)))
    <2>1. {} \in SUBSET (1 .. from)
        OBVIOUS
    <2> QED BY <1>2, <1>3, <1>5, <2>1, AreAtJoined
<1>7. << >> \o c = c
    BY <1>2
<1> QED BY <1>4, <1>6, <1>7 DEF c

\* Damage is where a write raised, and nowhere else.
LEMMA DamageStep ==
    ASSUME TypeOK, TypeOK', StageInv, ListInv, KeyInv, OpenInv, DamageInv, [Next]_vars
    PROVE  DamageInv'
<1> DEFINE OpenPart == stage # "none" /\ Contains(content[shard], Cut) => shard \in failed
<1>1. Len(manifest) \in Nat /\ Len(manifest)' \in Nat
    BY DEF TypeOK
<1>2. ASSUME NEW i \in 1 .. Len(manifest)', i \in 1 .. Len(manifest), manifest'[i] = manifest[i],
             failed \subseteq failed', line_failed => line_failed',
             manifest[i] # Torn => content'[manifest[i].shard] = content[manifest[i].shard],
             \/ appended' = appended
             \/ \E e \in Events : /\ appended' = Append(appended, e)
                                  /\ manifest[i] # Torn => manifest[i].shard # ShardOf(e)
      PROVE  Explained(manifest[i])'
    <2> DEFINE line == manifest[i]
    <2>1. Explained(line)
        BY <1>2 DEF DamageInv
    <2>2. /\ line # Torn => Of(line.shard)' = Of(line.shard)
          /\ \A k \in 1 .. Len(appended) : appended'[k] = appended[k]
        <3>1. line # Torn => Of(line.shard)' = Of(line.shard)
            BY <1>2, OfKept
        <3>2. \A k \in 1 .. Len(appended) : appended'[k] = appended[k]
            BY <1>2, EventAppended
        <3> QED BY <3>1, <3>2
    <2> HIDE DEF line
    <2>3. \/ line = Torn /\ line_failed'
          \/ line # Torn /\ line.shard \in failed' /\ Contains(content'[line.shard], Cut)
          \/ /\ line # Torn /\ ~ Contains(content'[line.shard], Cut)
             /\ AreAt(content'[line.shard], appended', Of(line.shard)')
        BY <1>2, <2>1, <2>2, ExplainedKept DEF line
    <2> QED BY <1>2, <2>3 DEF Explained, IsCut, line, Of, AreAt, Contains
<1>3. ASSUME UNCHANGED <<manifest, content, appended, failed>>, line_failed => line_failed'
      PROVE  \A i \in 1 .. Len(manifest)' : Explained(manifest[i])'
    BY <1>2, <1>3
<1>4. CASE _open \/ close_Fails \/ \E n \in Sequences : append_event(n)
    <2>1. \A i \in 1 .. Len(manifest) : manifest[i] # Torn =>
              manifest[i].shard \in Shards /\ Named(manifest[i].shard, "final") \in names
        BY LineIs DEF ListInv, Intact
    <2>2. \A i \in 1 .. Len(manifest)' : Explained(manifest[i])'
        BY <1>2, <1>4, <2>1, WritingIs
    <2>3. ASSUME NEW u \in Shards, NEW c \in Contents, NEW e \in Events, Write(e, u, c),
                 Contains(c, Cut) => u \in failed, Contains(content'[u], Cut)
          PROVE  u \in failed'
        <3>1. c \in Seq(Events \cup {Cut}) /\ e \in Events \cup {Cut} /\ e # Cut
            BY EventTypes DEF Contents, Cut
        <3>2. content'[u] = Append(c, e) /\ failed' = failed
            BY <2>3, WriteIs
        <3>3. /\ Len(c) \in Nat /\ Len(Append(c, e)) = Len(c) + 1
              /\ \A k \in 1 .. Len(c) : Append(c, e)[k] = c[k]
              /\ Append(c, e)[Len(c) + 1] = e
            BY <3>1, AppendIs
        <3>4. Contains(c, Cut)
            BY <2>3, <3>1, <3>2, <3>3 DEF Contains
        <3> QED BY <2>3, <3>2, <3>4
    <2>4. ASSUME NEW u \in Shards, NEW c \in Contents, Damaged(u, c)
          PROVE  u \in failed'
        BY <2>4, DamagedIs
    <2>5. OpenPart'
        <3>1. ASSUME NEW n \in Sequences, append_event(n)
              PROVE  OpenPart'
            <4>1. PICK e \in Events :
                      /\ UNCHANGED <<stage, hour, boot_id>>
                      /\ \/ stage = "open" /\ Write(e, shard, content[shard])
                         \/ stage = "open" /\ Write_Fails(shard, content[shard])
                         \/ UNCHANGED <<content, failed>>
                BY <3>1, AppendEventIs
            <4>2. stage # "none" => shard \in Shards /\ content[shard] \in Contents
                BY ShardTypes DEF TypeOK
            <4>3. shard' = shard
                BY <4>1 DEF shard
            <4>4. stage # "none" /\ Contains(content[shard], Cut) => shard \in failed
                BY DEF DamageInv
            <4>5. CASE stage = "open" /\ Write(e, shard, content[shard])
                <5>1. Contains(content'[shard], Cut) => shard \in failed'
                    BY <2>3, <4>2, <4>4, <4>5
                <5> QED BY <4>3, <5>1 DEF Contains
            <4>6. CASE stage = "open" /\ Write_Fails(shard, content[shard])
                BY <2>4, <4>2, <4>3, <4>6 DEF Write_Fails
            <4>7. CASE UNCHANGED <<content, failed>>
                BY <4>1, <4>3, <4>4, <4>7 DEF Contains
            <4> QED BY <4>1, <4>5, <4>6, <4>7
        <3>2. CASE _open
            <4> DEFINE s == ShardOf(waiting)
            <4>1. /\ waiting \in Events /\ stage = "none" /\ s \in Shards
                  /\ \/ stage' = stage
                     \/ shard' = s /\ (Write(waiting, s, << >>) \/ Write_Fails(s, << >>))
                BY <3>2, OpenIs, EventTypes
            <4>2. << >> \in Contents /\ ~ Contains(<< >>, Cut)
                BY DEF Contents, Contains
            <4> HIDE DEF s
            <4>3. CASE stage' = stage
                BY <4>1, <4>3
            <4>4. CASE shard' = s /\ Write(waiting, s, << >>)
                <5>1. Contains(content'[s], Cut) => s \in failed'
                    BY <2>3, <4>1, <4>2, <4>4
                <5> QED BY <4>4, <5>1 DEF Contains
            <4>5. CASE shard' = s /\ Write_Fails(s, << >>)
                BY <2>4, <4>1, <4>2, <4>5 DEF Write_Fails
            <4> QED BY <4>1, <4>3, <4>4, <4>5
        <3>3. CASE close_Fails
            <4>1. shard' = shard /\ shard \in Shards /\ content[shard] \in Contents
                BY <3>3, ShardTypes DEF close_Fails, shard, TypeOK
            <4> QED BY <2>4, <3>3, <4>1 DEF close_Fails
        <3> QED BY <1>4, <3>1, <3>2, <3>3
    <2> QED BY <2>2, <2>5 DEF DamageInv
<1>5. CASE fsync \/ link \/ unlink \/ write_sidecar
    <2>1. /\ UNCHANGED <<manifest, content, appended, failed, line_failed>> /\ stage # "none"
          /\ shard' = shard
        BY <1>5 DEF fsync, link, unlink, write_sidecar, Step, disk, faults, shard
    <2> QED BY <1>3, <2>1 DEF DamageInv, Contains
<1>6. CASE write_entry
    <2> DEFINE line == [shard |-> shard, sha256 |-> content[shard]]
    <2>1. /\ UNCHANGED <<content, appended, failed, line_failed>> /\ stage # "none" /\ shard' = shard
          /\ line \in Lines /\ line.shard = shard /\ line # Torn /\ manifest' = Append(manifest, line)
        BY <1>6, ShardTypes DEF write_entry, Step, faults, shard, Lines, TypeOK, Torn
    <2> HIDE DEF line
    <2>2. /\ Len(manifest') = Len(manifest) + 1
          /\ \A i \in 1 .. Len(manifest) : manifest'[i] = manifest[i]
          /\ manifest'[Len(manifest) + 1] = line
        BY <2>1, AppendIs DEF TypeOK
    <2>3. ASSUME NEW i \in 1 .. Len(manifest)'
          PROVE  Explained(manifest[i])'
        <3>1. CASE i \in 1 .. Len(manifest)
            BY <1>2, <2>1, <2>2, <3>1
        <3>2. CASE i = Len(manifest) + 1
            <4>1. manifest'[i] = line
                BY <2>2, <3>2
            <4>2. \/ shard \in failed /\ Contains(content[shard], Cut)
                  \/ ~ Contains(content[shard], Cut) /\ AreAt(content[shard], appended, Of(shard))
                BY <2>1, OpenIsWhole DEF DamageInv
            <4>3. Of(shard)' = Of(shard)
                BY <2>1 DEF Of, ShardOf
            <4> QED BY <2>1, <4>1, <4>2, <4>3 DEF Explained, IsCut, AreAt, Contains
        <3> QED BY <1>1, <2>2, <3>1, <3>2
    <2> QED BY <2>1, <2>3 DEF DamageInv, Contains
<1>7. CASE fsync_manifest \/ close \/ Kill
    <2>1. UNCHANGED <<manifest, content, appended, failed, line_failed>> /\ stage' = "none"
        BY <1>7 DEF fsync_manifest, close, Kill, Gone, Step, disk, faults, KeyInv
    <2> QED BY <1>3, <2>1 DEF DamageInv
<1>8. CASE WriteFails
    <2>1. /\ UNCHANGED <<content, appended, failed>> /\ stage' = "none" /\ line_failed' = TRUE
          /\ manifest' = Append(manifest, Torn)
        BY <1>8 DEF WriteFails, Gone
    <2>2. /\ Len(manifest') = Len(manifest) + 1
          /\ \A i \in 1 .. Len(manifest) : manifest'[i] = manifest[i]
          /\ manifest'[Len(manifest) + 1] = Torn
        <3>1. Torn \in Lines
            BY DEF Lines
        <3> QED BY <2>1, <3>1, AppendIs DEF TypeOK
    <2>3. ASSUME NEW i \in 1 .. Len(manifest)'
          PROVE  Explained(manifest[i])'
        <3>1. CASE i \in 1 .. Len(manifest)
            BY <1>2, <2>1, <2>2, <3>1
        <3>2. CASE i = Len(manifest) + 1
            BY <2>1, <2>2, <3>2 DEF Explained
        <3> QED BY <1>1, <2>2, <3>1, <3>2
    <2> QED BY <2>1, <2>3 DEF DamageInv
<1>9. CASE PowerLoss
    <2>1. /\ UNCHANGED <<appended, failed>> /\ stage' = "none"
          /\ \A s \in Shards : s \in synced => content'[s] = content[s]
          /\ line_failed' = (line_failed \/ stage = "listed")
        BY <1>9 DEF PowerLoss, Gone
    <2>2. /\ Len(manifest)' \leq Len(manifest)
          /\ \A i \in 1 .. Len(manifest)' : manifest'[i] # Torn => manifest'[i] = manifest[i]
        BY <1>9, LossIs
    <2>3. ASSUME NEW i \in 1 .. Len(manifest)'
          PROVE  Explained(manifest[i])'
        <3>1. i \in 1 .. Len(manifest)
            BY <1>1, <2>2
        <3>2. manifest[i] # Torn => content'[manifest[i].shard] = content[manifest[i].shard]
            BY <2>1, <3>1, LineIs DEF ListInv
        <3>3. CASE manifest'[i] = manifest[i]
            BY <1>2, <2>1, <3>1, <3>2, <3>3
        <3>4. CASE manifest'[i] # manifest[i]
            <4>1. manifest'[i] = Torn /\ stage = "listed"
                BY <1>9, <2>2, <3>4 DEF PowerLoss
            <4> QED BY <2>1, <4>1 DEF Explained
        <3> QED BY <3>3, <3>4
    <2> QED BY <2>1, <2>3 DEF DamageInv
<1>10. CASE Tick \/ SetBack \/ UNCHANGED vars \/ \E b \in BootIds : ShardWriter(b)
    <2>1. UNCHANGED <<manifest, content, appended, failed, line_failed>>
        BY <1>10 DEF Tick, SetBack, vars, ShardWriter, disk, faults
    <2>2. stage' = "none" \/ UNCHANGED <<stage, hour, boot_id>>
        BY <1>10 DEF Tick, SetBack, vars, ShardWriter, writer
    <2>3. OpenPart'
        BY <2>1, <2>2 DEF DamageInv, shard, Contains
    <2> QED BY <1>3, <2>1, <2>3 DEF DamageInv
<1> QED
    BY <1>4, <1>5, <1>6, <1>7, <1>8, <1>9, <1>10 DEF Next, _finalize


-----------------------------------------------------------------------------
\* With nothing on disk there is nothing to show.
LEMMA InitHolds ==
    ASSUME Init
    PROVE  IInv
<1>1. TypeOK
    <2>1. 1 \in Times /\ 0 \in 0 .. MaxWriters
        BY ConstantTypes DEF Times
    <2>2. << >> \in Contents /\ << >> \in Seq(Lines) /\ << >> \in Seq(Events)
        BY DEF Contents
    <2>3. content \in [Shards -> Contents]
        BY <2>2 DEF Init
    <2> QED BY <2>1, <2>2, <2>3 DEF Init, TypeOK, Stages
<1>2. Len(manifest) = 0 /\ Len(appended) = 0
    BY DEF Init
<1>3. StageInv /\ ListInv /\ NameInv /\ OpenInv /\ KeyInv /\ TimeInv /\ DamageInv
    <2>1. \A k : k \notin 1 .. Len(manifest) /\ k \notin 1 .. Len(appended)
        BY <1>2
    <2> QED BY <2>1 DEF Init, StageInv, ListInv, NameInv, OpenInv, KeyInv, TimeInv, DamageInv
<1>4. RecordInv
    <2>1. ASSUME NEW m \in 0 .. Len(manifest)
          PROVE  AreAt(FlattenSeq(Shown(m)), appended, Places(m))
        <3>1. m = 0
            BY <1>2
        <3>2. Shown(m) = << >> /\ Places(m) = {}
            BY <3>1 DEF Shown, Places
        <3>3. FlattenSeq(<< >>) = << >>
            BY DEF FlattenSeq
        <3>4. << >> \in [1 .. 0 -> {}] /\ Len(<< >>) = 0
            OBVIOUS
        <3>5. AreAt(<< >>, appended, {})
            BY <3>4 DEF AreAt
        <3> QED BY <3>2, <3>3, <3>5
    <2> QED BY <2>1 DEF RecordInv
<1> QED BY <1>1, <1>3, <1>4 DEF IInv

\* Every action keeps the inductive invariant.
LEMMA StepHolds ==
    ASSUME IInv, [Next]_vars
    PROVE  IInv'
<1> USE DEF IInv
<1>1. TypeOK'
    BY TypeStep
<1> QED
    BY <1>1, StageStep, ListStep, NameStep, OpenStep, KeyStep, TimeStep, RecordStep, DamageStep

\* The inductive invariant holds in every behaviour (append_event, _open, _finalize,
\* close).
THEOREM Invariant == Spec => []IInv
<1>1. Init => IInv
    BY InitHolds
<1>2. IInv /\ [Next]_vars => IInv'
    BY StepHolds
<1> QED BY <1>1, <1>2, PTL DEF Spec

\* The types of the writer's fields and of the files, for any constants.
THEOREM TypeCorrect == Spec => []TypeOK
<1>1. IInv => TypeOK
    BY DEF IInv
<1> QED BY <1>1, Invariant, PTL

\* A line of the manifest that can be read has its shard, its sidecar and the content
\* that was summed, across kills, a full disk, power failures and later writers
\* (_finalize and _open, as replay_records reads what they leave).
THEOREM ListedIsIntactHolds == Spec => []ListedIsIntact
<1>1. IInv => ListedIsIntact
    BY DEF IInv, ListInv, ListedIsIntact
<1> QED BY <1>1, Invariant, PTL

-----------------------------------------------------------------------------
\* What replay reads, and the places of its events in the log.
LEMMA RecordsArePlaced ==
    ASSUME IInv, load_manifest(manifest),
           \A i \in 1 .. Len(manifest) : ~ IsCut(manifest[i])
    PROVE  /\ replay_records(manifest) \in Seq(Events \cup {Cut})
           /\ LET listed == {manifest[i].shard : i \in 1 .. Len(manifest)}
              IN  AreAt(replay_records(manifest), appended,
                        {k \in 1 .. Len(appended) : ShardOf(appended[k]) \in listed})
<1>1. Len(manifest) \in 0 .. Len(manifest) /\ Readable(Len(manifest))
    BY DEF IInv, TypeOK, load_manifest, Readable
<1>2. AreAt(FlattenSeq(Shown(Len(manifest))), appended, Places(Len(manifest)))
    BY <1>1 DEF IInv, RecordInv
<1>3. replay_records(manifest) = FlattenSeq(Shown(Len(manifest)))
    BY DEF replay_records, Shown
<1>4. Places(Len(manifest)) =
          {k \in 1 .. Len(appended) :
              ShardOf(appended[k]) \in {manifest[i].shard : i \in 1 .. Len(manifest)}}
    BY DEF Places
<1>5. replay_records(manifest) \in Seq(Events \cup {Cut})
    <2> DEFINE T == Events \cup {Cut}
               n == Len(manifest)
    <2>1. n \in Nat /\ \A i \in 1 .. n : content[manifest[i].shard] \in Seq(T)
        <3>1. \A s \in Shards : content[s] \in Seq(T)
            BY DEF IInv, TypeOK, Contents
        <3>2. \A i \in 1 .. n : manifest[i].shard \in Shards
            BY LineIs DEF IInv, load_manifest
        <3> HIDE DEF T
        <3> QED BY <3>1, <3>2 DEF IInv, TypeOK
    <2> HIDE DEF T, n
    <2>2. Shown(n) \in Seq(Seq(T)) /\ << >> \in Seq(T)
        BY <2>1 DEF Shown
    <2>3. FlattenSeq(Shown(n)) \in Seq(T)
        BY <2>2, FlattenAppend
    <2> QED BY <1>3, <2>3 DEF T, n
<1> QED BY <1>2, <1>3, <1>4, <1>5

\* A replay shows of each listed shard every event whose append_event returned, in the
\* order of the appends, none twice and nothing else (replay_records).
THEOREM ReplayIsFaithfulHolds == Spec => []ReplayIsFaithful
<1>1. ASSUME IInv, Replays
      PROVE  ReplayIsFaithful
    <2> DEFINE listed == {manifest[i].shard : i \in 1 .. Len(manifest)}
               places == {k \in 1 .. Len(appended) : ShardOf(appended[k]) \in listed}
               records == replay_records(manifest)
    <2>1. AreAt(records, appended, places)
        BY <1>1, RecordsArePlaced DEF Replays
    <2>2. places \subseteq 1 .. Len(appended)
        OBVIOUS
    <2> HIDE DEF places, records
    <2>3. PICK f \in [1 .. Len(records) -> places] :
              /\ \A i, j \in 1 .. Len(records) : i < j => f[i] < f[j]
              /\ \A i \in 1 .. Len(records) : records[i] = appended[f[i]]
        BY <2>1 DEF AreAt
    <2>4. \A i \in 1 .. Len(records) : f[i] \in 1 .. Len(appended) /\ appended[f[i]] \in Events
        <3>1. \A k \in 1 .. Len(appended) : appended[k] \in Events
            BY <1>1 DEF IInv, TypeOK
        <3> QED BY <2>2, <2>3, <3>1
    <2>5. ASSUME NEW i \in 1 .. Len(records), NEW j \in 1 .. Len(records), i < j
          PROVE  records[i] # records[j]
        <3>1. SUFFICES ASSUME appended[f[i]] = appended[f[j]]
                       PROVE  FALSE
            BY <2>3
        <3>2. Before(appended[f[i]], appended[f[j]])
            BY <1>1, <2>3, <2>4, <2>5, <3>1 DEF IInv, KeyInv
        <3> QED BY <2>4, <3>1, <3>2, BeforeIsOrder
    <2>6. \A i, j \in 1 .. Len(records) : records[i] = records[j] => i = j
        BY <2>5
    <2> QED BY <2>1, <2>6 DEF ReplayIsFaithful, places, records
<1>2. IInv => ReplayIsFaithful
    BY <1>1 DEF ReplayIsFaithful
<1> QED BY <1>2, Invariant, PTL

\* A listed shard to which no write raised is whole, and replay refuses a log only after
\* the clock was set back, with a line that was not written whole, or with a shard to
\* which a write raised (append, close, _finalize; load_manifest, replay_records).
THEOREM RefusalIsExplainedHolds == Spec => []RefusalIsExplained
<1>1. ASSUME IInv, manifest # << >>, ~ set_back,
             \A i \in 1 .. Len(manifest) : manifest[i] # Torn /\ ~ IsCut(manifest[i])
      PROVE  Replays
    <2>1. load_manifest(manifest) /\ \A i \in 1 .. Len(manifest) : Intact(manifest[i])
        BY <1>1 DEF load_manifest, IInv, ListInv
    <2> DEFINE listed == {manifest[i].shard : i \in 1 .. Len(manifest)}
               places == {k \in 1 .. Len(appended) : ShardOf(appended[k]) \in listed}
               records == replay_records(manifest)
    <2>2. AreAt(records, appended, places)
        BY <1>1, <2>1, RecordsArePlaced
    <2>3. places \subseteq 1 .. Len(appended)
        OBVIOUS
    <2> HIDE DEF places, records
    <2>4. PICK f \in [1 .. Len(records) -> places] :
              /\ \A i, j \in 1 .. Len(records) : i < j => f[i] < f[j]
              /\ \A i \in 1 .. Len(records) : records[i] = appended[f[i]]
        BY <2>2 DEF AreAt
    <2>5. \A i \in 1 .. Len(records) : f[i] \in 1 .. Len(appended) /\ appended[f[i]] \in Events
        <3>1. \A k \in 1 .. Len(appended) : appended[k] \in Events
            BY <1>1 DEF IInv, TypeOK
        <3> QED BY <2>3, <2>4, <3>1
    <2>6. ASSUME NEW i \in 1 .. Len(records) - 1
          PROVE  ~ Before(records[i + 1], records[i])
        <3>1. i \in 1 .. Len(records) /\ i + 1 \in 1 .. Len(records) /\ i < i + 1
            <4>1. Len(records) \in Nat
                BY <1>1, <2>1, RecordsArePlaced DEF records
            <4> QED BY <4>1
        <3>2. Before(appended[f[i]], appended[f[i + 1]])
            <4>1. f[i] < f[i + 1]
                BY <2>4, <3>1
            <4> QED BY <1>1, <2>5, <3>1, <4>1 DEF IInv, TimeInv
        <3> QED BY <2>4, <2>5, <3>1, <3>2, BeforeIsOrder
    <2> QED BY <1>1, <2>1, <2>6 DEF Replays, Ordered, records
<1>2. ASSUME IInv
      PROVE  RefusalIsExplained
    <2> DEFINE sound == {i \in 1 .. Len(manifest) :
                            manifest[i] # Torn /\ manifest[i].shard \notin failed}
    <2>1. ASSUME NEW i \in sound
          PROVE  /\ Intact(manifest[i]) /\ ~ IsCut(manifest[i])
                 /\ AreAt(content[manifest[i].shard], appended,
                          {k \in 1 .. Len(appended) : ShardOf(appended[k]) = manifest[i].shard})
        BY <1>2, <2>1 DEF IInv, ListInv, DamageInv, Explained, Of
    <2>2. ASSUME manifest # << >>, ~ Replays, ~ set_back, ~ line_failed
          PROVE  \E i \in 1 .. Len(manifest) \ sound : manifest[i] # Torn
        <3>1. PICK i \in 1 .. Len(manifest) : manifest[i] = Torn \/ IsCut(manifest[i])
            BY <1>1, <1>2, <2>2
        <3>2. manifest[i] # Torn /\ manifest[i].shard \in failed
            BY <1>2, <2>2, <3>1 DEF IInv, DamageInv, Explained
        <3>3. i \notin sound
            BY <3>2
        <3> QED BY <3>2, <3>3
    <2> QED BY <2>1, <2>2 DEF RefusalIsExplained
<1> QED BY <1>2, Invariant, PTL
=============================================================================
