--------------------------- MODULE SaveTailProofs ---------------------------
(***************************************************************************)
(* The save-tail loses nothing, mixes no playthroughs and records nothing  *)
(* twice, for every script of the game, every number of kills and every    *)
(* set of faults.                                                          *)
(*                                                                         *)
(* What has to be said besides the three properties:                       *)
(*   - Line: backlog, queue and the item in the producer's hand are one    *)
(*     line of cached saves, in the order of their seqnos;                 *)
(*   - Accounted: what the consumer holds of a save in memory is as        *)
(*     accounted for as the baseline on disk;                              *)
(*   - Behind, Redo: a file that waits in no line is behind the baseline,  *)
(*     and rows past the baseline (a kill between commit and baseline      *)
(*     write) all come from one file, which will be the first of its       *)
(*     campaign to be diffed again.                                        *)
(***************************************************************************)
EXTENDS SaveTail, OrderedPipeline, FiniteSetTheorems, TLAPS

Items == [seq : Seqs, pt : Pts \cup {NoPt}]
Rows  == [pt : Pts, hap : Dates, stamp : Dates]

\* Type correctness.
TypeOK ==
    /\ script \in Scripts /\ wrote \in 0..Len(script)
    /\ cache \in [Seqs -> Saves \cup {NoSave}]
    /\ sidecar \in [Seqs -> Pts \cup {NoPt}]
    /\ baseFile \in Saves \cup {NoSave}
    /\ rows \in SUBSET Rows
    /\ phase \in {"down", "verify", "run", "stop"}
    /\ verified \in Saves \cup {NoSave}
    /\ last \in Saves \cup {NoSave}
    /\ nextSeq \in Nat \ {0}
    /\ protected \in SUBSET Seqs
    /\ seeds \in Seq(Items) /\ pipe \in Seq(Items)
    /\ hand \in Items \cup {NoItem}
    /\ tick.at # "idle" => tick.snap \in Saves
    /\ tick \in [at : {"idle", "imported", "diffed", "stored", "saved"},
                 snap : Saves \cup {NoSave}]

Held == IF hand = NoItem THEN <<>> ELSE <<hand>>
Line == pipe \o seeds \o Held

InLine == {Line[n].seq : n \in 1..Len(Line)}

\* Nothing runs while the process is down or starting up.
Resting ==
    /\ phase \in {"down", "verify"} =>
         /\ pipe = <<>> /\ seeds = <<>> /\ hand = NoItem /\ ~armed
         /\ last = NoSave /\ tick = Idle
    /\ phase = "down" => verified = NoSave
    /\ armed => seeds = <<>>
    /\ hand # NoItem => armed

\* One line of protected files, in the order they were cached.
InOrder ==
    /\ \A m, n \in 1..Len(Line) : m < n => Line[m].seq < Line[n].seq
    /\ \A n \in 1..Len(Line) : Line[n].seq < nextSeq /\ Line[n].seq \in protected
    /\ phase # "down" => \A k \in Files : k < nextSeq

\* The consumer works on the head of the line, which it has tagged.
AtWork ==
    tick.at # "idle" =>
      /\ pipe # <<>> /\ tick.snap = Snap /\ tick.snap # NoSave
      /\ sidecar[Item.seq] = tick.snap.pt

\* Everything up to save s is among the rows R or was passed over, in K.
Covered(s, R, K) ==
    \A h \in 1..s.date :
      (\E r \in R : r.pt = s.pt /\ r.hap = h) \/ [pt |-> s.pt, hap |-> h] \in K

\* What the process holds in memory is accounted for like the baseline.
Accounted ==
    /\ last # NoSave => Covered(last, rows, skipped)
    /\ tick.at \in {"imported", "stored", "saved"} => Covered(tick.snap, rows, skipped)
    /\ tick.at = "diffed" => last # NoSave /\ Candidate(tick.snap)

\* Every snapshot that may become the baseline is of the pinned playthrough.
OwnOnly ==
    Pin # NoPt =>
      /\ pin = Pin
      /\ verified = NoSave \/ verified.pt = Pin
      /\ last = NoSave \/ last.pt = Pin
      /\ tick.at # "idle" => tick.snap.pt = Pin

-----------------------------------------------------------------------------
(* What keeps a pinned campaign from recording twice.                      *)

Sound == Pin # NoPt /\ ~marred

\* The file cannot give the campaign anything past its baseline.
Harmless(j) ==
    \/ cache[j] = NoSave
    \/ cache[j].pt # Pin
    \/ baseFile # NoSave /\ cache[j].date <= baseFile.date

\* How the baseline on disk follows the one in memory.
Follows ==
    Sound =>
      /\ phase \in {"run", "stop"} /\ tick.at = "idle" => baseFile = last
      /\ tick.at = "diffed" => baseFile = last
      /\ tick.at \in {"imported", "stored"} =>
           baseFile = NoSave \/ (baseFile = last /\ Candidate(tick.snap))
      /\ tick.at = "saved" => baseFile = tick.snap

\* No sidecar can make the process skip a save of its own campaign.
TagsOwn ==
    Sound =>
      /\ baseFile = NoSave => \A k \in Seqs : sidecar[k] \in {NoPt, Pin}
      /\ \A n \in 1..Len(Line) : Line[n].pt \in {NoPt, Pin}

\* What waits in no line is behind the baseline.
Behind ==
    Sound /\ phase \in {"run", "stop"} => \A j \in Files \ InLine : Harmless(j)

\* The rows a kill left ahead of the baseline.
Ahead == {r \in rows : baseFile = NoSave \/ baseFile.date < r.hap}

\* The file k they come from, and that it will be the first to be diffed.
RedoneBy(k) ==
    /\ cache[k] # NoSave /\ cache[k].pt = Pin
    /\ sidecar[k] \in {NoPt, Pin}
    /\ \A r \in Ahead : r.stamp = cache[k].date
    /\ \A j \in Files : j < k => Harmless(j)
    /\ phase \in {"run", "stop"} => k \in InLine

Redo ==
    Sound =>
      /\ rows # {} => baseFile # NoSave
      /\ \A r \in rows : r.hap <= r.stamp
      /\ Ahead # {} => \E k \in Seqs : RedoneBy(k)


-----------------------------------------------------------------------------
(* Sets of seqnos, and the order pending() puts them in.                   *)

\* Sets of seqnos are finite.
LEMMA SeqsFinite ==
    ASSUME NEW S \in SUBSET Seqs
    PROVE  IsFiniteSet(S) /\ Cardinality(S) \in Nat
<1>1. IsFiniteSet(Seqs)  BY SaveTailAssumption, FS_Interval DEF Seqs
<1> QED  BY <1>1, FS_Subset, FS_CardinalityType

\* f lists S upwards.
Lists(f, S) ==
    /\ f \in [1..Cardinality(S) -> S]
    /\ \A m, n \in 1..Cardinality(S) : m < n => f[m] < f[n]

\* Every set of seqnos can be listed upwards: send the element of rank n to n
\* and turn that around.
LEMMA CanBeListed ==
    ASSUME NEW S \in SUBSET Seqs
    PROVE  \E f : Lists(f, S)
<1> DEFINE N == Cardinality(S)
           UpTo(x) == {y \in S : y <= x}
           rank == [x \in S |-> Cardinality(UpTo(x))]
<1>1. IsFiniteSet(S) /\ N \in Nat /\ S \subseteq Nat
  BY SeqsFinite DEF Seqs
<1>2. ASSUME NEW x \in S
      PROVE  Cardinality(UpTo(x)) \in 1..N /\ IsFiniteSet(UpTo(x))
  <2>1. UpTo(x) \in SUBSET S /\ x \in UpTo(x)  BY <1>1
  <2>2. IsFiniteSet(UpTo(x)) /\ Cardinality(UpTo(x)) \in Nat /\ Cardinality(UpTo(x)) <= N
    BY <1>1, <2>1, FS_Subset, FS_CardinalityType
  <2>3. Cardinality(UpTo(x)) # 0  BY <2>1, <2>2, FS_EmptySet
  <2> HIDE DEF UpTo, N
  <2> QED  BY <1>1, <2>2, <2>3
<1>3. ASSUME NEW x \in S, NEW y \in S, x < y
      PROVE  Cardinality(UpTo(x)) < Cardinality(UpTo(y))
  <2>1. UpTo(x) \in SUBSET UpTo(y) /\ y \in UpTo(y) /\ y \notin UpTo(x)
    <3>1. \A z \in S : z \in Int  BY <1>1
    <3> QED  BY <1>3, <3>1
  <2>2. /\ Cardinality(UpTo(x)) <= Cardinality(UpTo(y))
        /\ Cardinality(UpTo(y)) # Cardinality(UpTo(x))
    <3>1. IsFiniteSet(UpTo(y)) BY <1>2
    <3> HIDE DEF UpTo
    <3> QED BY <2>1, <3>1, FS_Subset
  <2>3. Cardinality(UpTo(x)) \in 1..N /\ Cardinality(UpTo(y)) \in 1..N  BY <1>2
  <2> HIDE DEF UpTo, N
  <2> QED  BY <1>1, <2>2, <2>3
<1>4. rank \in [S -> 1..N] /\ \A x \in S : rank[x] = Cardinality(UpTo(x))
  <2> HIDE DEF UpTo, N
  <2> QED  BY <1>2
<1>5. \A x, y \in S : x < y => rank[x] < rank[y]  BY <1>3, <1>4
<1> HIDE DEF N, rank
<1>6. rank \in Injection(S, 1..N)
  <2>1. \A x, y \in S : rank[x] = rank[y] => x = y
    <3> SUFFICES ASSUME NEW x \in S, NEW y \in S, x # y  PROVE rank[x] # rank[y]
      OBVIOUS
    <3>1. rank[x] \in Int /\ rank[y] \in Int  BY <1>1, <1>4
    <3>2. x \in Int /\ y \in Int  BY <1>1
    <3> QED  BY <1>5, <3>1, <3>2
  <2> QED  BY <1>4, <2>1 DEF Injection, IsInjective
<1>7. rank \in Surjection(S, 1..N)
  <2>1. IsFiniteSet(1..N) /\ Cardinality(1..N) = N  BY <1>1, FS_Interval
  <2> QED  BY <1>6, <2>1, FS_Injection DEF N
<1>8. \A n \in 1..N : \E x \in S : rank[x] = n  BY <1>7 DEF Surjection
<1> DEFINE f == [n \in 1..N |-> CHOOSE x \in S : rank[x] = n]
<1>9. ASSUME NEW n \in 1..N  PROVE f[n] \in S /\ rank[f[n]] = n  BY <1>8
<1>10. f \in [1..N -> S]  BY <1>9
<1>11. \A m, n \in 1..N : m < n => f[m] < f[n]
  <2> SUFFICES ASSUME NEW m \in 1..N, NEW n \in 1..N, m < n  PROVE f[m] < f[n]
    OBVIOUS
  <2>1. f[m] \in S /\ f[n] \in S /\ rank[f[m]] = m /\ rank[f[n]] = n  BY <1>9
  <2> HIDE DEF f
  <2>2. \A z \in S : z \in Int  BY <1>1
  <2>3. f[m] \in Int /\ f[n] \in Int  BY <2>1, <2>2
  <2> QED  BY <1>1, <1>5, <2>1, <2>3
<1> HIDE DEF f
<1> QED  BY <1>10, <1>11 DEF Lists, N

\* Whatever lists S upwards leaves nothing out.
LEMMA ListsAll ==
    ASSUME NEW S \in SUBSET Seqs, NEW f, Lists(f, S)
    PROVE  \A k \in S : \E n \in 1..Cardinality(S) : f[n] = k
<1> DEFINE N == Cardinality(S)
<1>1. IsFiniteSet(S) /\ N \in Nat /\ S \subseteq Nat  BY SeqsFinite DEF Seqs
<1>2. f \in [1..N -> S] /\ \A m, n \in 1..N : m < n => f[m] < f[n]  BY DEF Lists
<1> HIDE DEF N
<1>3. f \in Injection(1..N, S)
  <2>1. \A m, n \in 1..N : f[m] = f[n] => m = n
    <3> SUFFICES ASSUME NEW m \in 1..N, NEW n \in 1..N, m # n  PROVE f[m] # f[n]
      OBVIOUS
    <3>1. \A z \in S : z \in Int  BY <1>1
    <3>2. f[m] \in S /\ f[n] \in S  BY <1>2
    <3>3. f[m] \in Int /\ f[n] \in Int  BY <3>1, <3>2
    <3> QED  BY <1>1, <1>2, <3>3
  <2> QED  BY <1>2, <2>1 DEF Injection, IsInjective
<1>4. Cardinality(1..N) = Cardinality(S)  BY <1>1, FS_Interval DEF N
<1>5. f \in Surjection(1..N, S)  BY <1>1, <1>3, <1>4, FS_Injection
<1> QED  BY <1>5 DEF Surjection, N

\* pending(): all of S, oldest first, each with the tag in its sidecar.
LEMMA PendingShape ==
    ASSUME NEW S \in SUBSET Seqs, sidecar' \in [Seqs -> Pts \cup {NoPt}]
    PROVE  LET p == Pending(S) IN
           /\ p \in Seq(Items)
           /\ \A n \in 1..Len(p) : p[n].seq \in S /\ p[n].pt = sidecar'[p[n].seq]
           /\ \A m, n \in 1..Len(p) : m < n => p[m].seq < p[n].seq
           /\ \A k \in S : \E n \in 1..Len(p) : p[n].seq = k
<1> DEFINE N == Cardinality(S)
           order == CHOOSE f \in [1..N -> S] : \A m, n \in 1..N : m < n => f[m] < f[n]
           p == [n \in 1..N |-> [seq |-> order[n], pt |-> sidecar'[order[n]]]]
<1>1. N \in Nat  BY SeqsFinite
<1>2. Lists(order, S)
  <2>1. \E f \in [1..N -> S] : \A m, n \in 1..N : m < n => f[m] < f[n]
    BY CanBeListed DEF Lists
  <2> QED  BY <2>1 DEF Lists
<1>3. Pending(S) = p  BY DEF Pending
<1>4. \A k \in S : \E n \in 1..N : order[n] = k
  <2> HIDE DEF order
  <2> QED  BY <1>2, ListsAll
<1>5. order \in [1..N -> S] /\ \A m, n \in 1..N : m < n => order[m] < order[n]
  <2> HIDE DEF order
  <2> QED  BY <1>2 DEF Lists
<1> HIDE DEF order, N
<1>6. \A n \in 1..N : p[n] = [seq |-> order[n], pt |-> sidecar'[order[n]]]
  OBVIOUS
<1>7. p \in Seq(Items) /\ Len(p) = N
  <2>1. \A n \in 1..N : order[n] \in Seqs /\ sidecar'[order[n]] \in Pts \cup {NoPt}  BY <1>5
  <2>2. \A n \in 1..N : p[n] \in Items  BY <1>6, <2>1 DEF Items
  <2>3. p \in [1..N -> Items]  BY <2>2
  <2> HIDE DEF p
  <2> QED  BY <1>1, <2>3
<1>8. \A n \in 1..N : p[n].seq = order[n] /\ p[n].pt = sidecar'[order[n]]  OBVIOUS
<1> HIDE DEF p
<1> QED  BY <1>3, <1>4, <1>5, <1>7, <1>8

-----------------------------------------------------------------------------
(* The line.                                                               *)

LEMMA HeadMoves ==
    ASSUME NEW T, NEW p \in Seq(T), NEW s \in Seq(T), s # <<>>
    PROVE  Append(p, Head(s)) \o Tail(s) = p \o s
OBVIOUS

LEMMA TailOfConcat ==
    ASSUME NEW T, NEW p \in Seq(T), NEW s \in Seq(T), p # <<>>
    PROVE  Tail(p) \o s = Tail(p \o s) /\ Head(p \o s) = Head(p) /\ p \o s # <<>>
OBVIOUS

LEMMA LineType == TypeOK => Held \in Seq(Items) /\ Line \in Seq(Items)
<1> SUFFICES ASSUME TypeOK  PROVE Held \in Seq(Items) /\ Line \in Seq(Items)
  OBVIOUS
<1>1. pipe \in Seq(Items) /\ seeds \in Seq(Items) /\ hand \in Items \cup {NoItem}
  BY DEF TypeOK
<1>2. Held \in Seq(Items)  BY <1>1 DEF Held
<1> QED  BY <1>1, <1>2 DEF Line

\* The producer moves items along the line without changing it.
LEMMA LinePut ==
    ASSUME TypeOK, Resting, PutSeed \/ PutHand
    PROVE  Line' = Line
<1>1. pipe \in Seq(Items) /\ seeds \in Seq(Items) /\ Held \in Seq(Items)
  BY LineType DEF TypeOK
<1>2. CASE PutSeed
  <2>1. pipe' = Append(pipe, Head(seeds)) /\ seeds' = Tail(seeds) /\ seeds # <<>>
    BY <1>2 DEF PutSeed
  <2>2. Held' = Held  BY <1>2 DEF PutSeed, Held
  <2>3. pipe' \o seeds' = pipe \o seeds  BY <1>1, <2>1, HeadMoves
  <2> QED  BY <2>2, <2>3 DEF Line
<1>3. CASE PutHand
  <2>1. seeds = <<>> /\ hand # NoItem  BY <1>3 DEF Resting, PutHand
  <2>2. hand \in Items  BY <2>1 DEF TypeOK
  <2>3. pipe' = Append(pipe, hand) /\ seeds' = <<>> /\ Held' = <<>> /\ Held = <<hand>>
    BY <1>3, <2>1 DEF PutHand, Held
  <2> QED  BY <1>1, <2>1, <2>2, <2>3 DEF Line
<1> QED  BY <1>2, <1>3

\* The item at work is the first in line.
LEMMA LineHead ==
    ASSUME TypeOK, pipe # <<>>
    PROVE  /\ Item \in Items /\ Item.seq \in Seqs
           /\ Len(Line) \in Nat \ {0} /\ Line[1] = Item /\ Item.seq \in InLine
<1>1. pipe \in Seq(Items) /\ seeds \in Seq(Items) /\ Held \in Seq(Items) /\ Line \in Seq(Items)
  BY LineType DEF TypeOK
<1>2. Item \in Items  BY <1>1 DEF Item
<1>3. Len(Line) \in Nat \ {0} /\ Line[1] = Item  BY <1>1 DEF Line, Item
<1> QED  BY <1>2, <1>3 DEF Items, InLine

\* Consuming an item takes the first from the line.
LEMMA LinePop ==
    ASSUME TypeOK, pipe # <<>>, PopItem
    PROVE  /\ pipe' \in Seq(Items)
           /\ Len(Line') = Len(Line) - 1
           /\ \A n \in 1..Len(Line') : Line'[n] = Line[n + 1] /\ n + 1 \in 1..Len(Line)
<1>1. /\ pipe \in Seq(Items) /\ seeds \in Seq(Items) /\ Held \in Seq(Items)
      /\ Line \in Seq(Items)
  BY LineType DEF TypeOK
<1>2. pipe' = Tail(pipe) /\ seeds' = seeds /\ Held' = Held  BY DEF PopItem, Held
<1>3. pipe' \in Seq(Items)  BY <1>1, <1>2
<1>4. Line' = Tail(Line) /\ Line # <<>>
  <2> DEFINE rest == seeds \o Held
  <2>1. rest \in Seq(Items)  BY <1>1
  <2>2. Line = pipe \o rest  BY <1>1 DEF Line
  <2>3. Line' = Tail(pipe) \o rest  BY <1>1, <1>2, <1>3 DEF Line
  <2> HIDE DEF rest
  <2> QED  BY <1>1, <2>1, <2>2, <2>3, TailOfConcat
<1> QED  BY <1>1, <1>3, <1>4

\* A capture that succeeds puts its item last.
LEMMA LineCapture ==
    ASSUME TypeOK, Resting, NEW s \in Saves \cup {NoSave}, Capture(s)
    PROVE  LET item == [seq |-> nextSeq, pt |-> NoPt] IN
           /\ nextSeq \in Seqs /\ item \in Items
           /\ pipe' \in Seq(Items) /\ hand' \in Items \cup {NoItem}
           /\ \/ /\ Line' = Append(Line, item)
                 /\ cache' = [cache EXCEPT ![nextSeq] = s]
                 /\ nextSeq' = nextSeq + 1
                 /\ protected' = protected \cup {nextSeq}
              \/ /\ Line' = Line
                 /\ UNCHANGED <<cache, nextSeq, protected, pipe, hand>>
<1> DEFINE item == [seq |-> nextSeq, pt |-> NoPt]
<1>1. /\ pipe \in Seq(Items) /\ seeds \in Seq(Items) /\ Held \in Seq(Items)
      /\ hand = NoItem /\ seeds = <<>> /\ Held = <<>> /\ seeds' = seeds
  BY LineType DEF TypeOK, Resting, Capture, Held
<1>2. nextSeq \in Seqs  BY SaveTailAssumption DEF TypeOK, Capture, Seqs
<1>3. item \in Items  BY <1>2 DEF Items
<1>4. item # NoItem  BY <1>2, SaveTailAssumption DEF NoItem, Seqs
<1>5. Line = pipe  BY <1>1 DEF Line
<1> HIDE DEF item
<1>6. CASE UNCHANGED <<cache, nextSeq, protected, pipe, hand>>
  <2>1. Line' = Line  BY <1>1, <1>6 DEF Line, Held
  <2>2. pipe' \in Seq(Items) /\ hand' \in Items \cup {NoItem}  BY <1>1, <1>6
  <2> QED  BY <1>2, <1>3, <1>6, <2>1, <2>2 DEF item
<1>7. CASE ~UNCHANGED <<cache, nextSeq, protected, pipe, hand>>
  <2>1. /\ cache' = [cache EXCEPT ![nextSeq] = s]
        /\ nextSeq' = nextSeq + 1
        /\ protected' = protected \cup {nextSeq}
        /\ \/ pipe' = Append(pipe, item) /\ hand' = hand
           \/ hand' = item /\ pipe' = pipe
    BY <1>7 DEF Capture, item
  <2>2. CASE pipe' = Append(pipe, item) /\ hand' = hand
    <3>1. Held' = <<>> /\ seeds' = <<>>  BY <1>1, <2>2 DEF Held
    <3>2. pipe' \in Seq(Items) /\ hand' \in Items \cup {NoItem}  BY <1>1, <1>3, <2>2
    <3>3. Line' = Append(Line, item)  BY <1>5, <2>2, <3>1, <3>2 DEF Line
    <3> QED  BY <1>2, <1>3, <2>1, <3>2, <3>3 DEF item
  <2>3. CASE hand' = item /\ pipe' = pipe
    <3>1. Held' = <<item>> /\ seeds' = <<>>  BY <1>1, <1>4, <2>3 DEF Held
    <3>2. pipe' \in Seq(Items) /\ hand' \in Items \cup {NoItem}  BY <1>1, <1>3, <2>3
    <3>3. Line' = Append(Line, item)  BY <1>1, <1>3, <1>5, <2>3, <3>1, <3>2 DEF Line
    <3> QED  BY <1>2, <1>3, <2>1, <3>2, <3>3 DEF item
  <2> QED  BY <2>1, <2>2, <2>3
<1> QED  BY <1>6, <1>7

\* What both ways to be done with item k leave alone.
LEMMA MarkShape ==
    ASSUME TypeOK, NEW k \in Seqs, MarkProcessed({k}) \/ MarkProcessedAndGc(k)
    PROVE  /\ cache' \in [Seqs -> Saves \cup {NoSave}]
           /\ sidecar' \in [Seqs -> Pts \cup {NoPt}]
           /\ protected' = protected \ {k}
           /\ \A j \in Seqs : cache'[j] \in {cache[j], NoSave} /\ sidecar'[j] \in {sidecar[j], NoPt}
           /\ \A j \in protected \ {k} : cache'[j] = cache[j] /\ sidecar'[j] = sidecar[j]
<1>1. /\ cache \in [Seqs -> Saves \cup {NoSave}]
      /\ sidecar \in [Seqs -> Pts \cup {NoPt}]
      /\ protected \in SUBSET Seqs
  BY DEF TypeOK
<1>2. CASE MarkProcessed({k})  BY <1>1, <1>2 DEF MarkProcessed
<1>3. CASE MarkProcessedAndGc(k)
  <2>1. PICK stuck \in SUBSET {k} :
          LET fs   == Files \ ({k} \ stuck)
              dead == GcVictims(fs, protected \ {k})
          IN  /\ cache' = [j \in Seqs |-> IF j \in fs \ dead THEN cache[j] ELSE NoSave]
              /\ sidecar' = [j \in Seqs |-> IF j = k \/ j \in dead THEN NoPt ELSE sidecar[j]]
              /\ protected' = protected \ {k}
    BY <1>3 DEF MarkProcessedAndGc
  <2> DEFINE fs   == Files \ ({k} \ stuck)
             dead == GcVictims(fs, protected \ {k})
  <2>2. dead \cap (protected \ {k}) = {}  BY DEF GcVictims
  <2>3. \A j \in Seqs \ {k} : cache[j] # NoSave => j \in fs  BY DEF Files
  <2> HIDE DEF fs, dead
  <2>4. /\ cache' = [j \in Seqs |-> IF j \in fs \ dead THEN cache[j] ELSE NoSave]
        /\ sidecar' = [j \in Seqs |-> IF j = k \/ j \in dead THEN NoPt ELSE sidecar[j]]
        /\ protected' = protected \ {k}
    BY <2>1 DEF fs, dead
  <2> QED  BY <1>1, <2>2, <2>3, <2>4
<1> QED  BY <1>2, <1>3

-----------------------------------------------------------------------------
(* Types.                                                                  *)

LEMMA DiskType ==
    TypeOK => disk \in Saves \cup {NoSave} /\ older \in Saves \cup {NoSave}
<1> SUFFICES ASSUME TypeOK  PROVE disk \in Saves \cup {NoSave} /\ older \in Saves \cup {NoSave}
  OBVIOUS
<1>1. script \in Seq(Saves) /\ wrote \in 0..Len(script)
  BY SaveTailAssumption DEF TypeOK, Saves, Dates
<1>2. wrote # 0 => script[wrote] \in Saves  BY <1>1
<1>3. ~(wrote <= 1) => script[wrote - 1] \in Saves  BY <1>1
<1> QED  BY <1>2, <1>3 DEF disk, older

\* Who works on an item has it.
LEMMA SnapType ==
    ASSUME TypeOK, pipe # <<>>
    PROVE  Item.seq \in Seqs /\ Snap \in Saves \cup {NoSave}
BY LineHead DEF TypeOK, Snap

\* A tag is a playthrough.
LEMMA TagType ==
    ASSUME TypeOK, pipe # <<>>, Snap # NoSave, Tag
    PROVE  /\ sidecar' \in [Seqs -> Pts \cup {NoPt}]
           /\ Snap \in Saves /\ Snap.pt \in Pts /\ Snap.date \in Dates
           /\ sidecar'[Item.seq] = Snap.pt
           /\ \A j \in Seqs : j # Item.seq => sidecar'[j] = sidecar[j]
<1>1. Item.seq \in Seqs /\ Snap \in Saves  BY SnapType
<1>2. Snap.pt \in Pts /\ Snap.date \in Dates  BY <1>1 DEF Saves
<1>3. sidecar \in [Seqs -> Pts \cup {NoPt}]  BY DEF TypeOK
<1> QED  BY <1>1, <1>2, <1>3 DEF Tag

\* The names Seed gives to what it works with.
Start   == IF DiscardBaseline THEN NoSave ELSE baseFile
Foreign == {k \in Files : Start # NoSave /\ sidecar[k] \notin {NoPt, Start.pt}}
Dropped == IF DiscardBaseline THEN Files ELSE Foreign
Left(stuck) == IF DiscardBaseline THEN stuck ELSE Files \ Dropped

\* What the startup does to the cache, the seqnos and the line.
Seeded(stuck, new) ==
    /\ new = {} \/ new = {nextSeq}
    /\ cache' \in [Seqs -> Saves \cup {NoSave}]
    /\ \A k \in Seqs : cache'[k] = IF k \in new THEN disk
                                   ELSE IF k \in Dropped \ stuck THEN NoSave
                                   ELSE cache[k]
    /\ sidecar' \in [Seqs -> Pts \cup {NoPt}]
    /\ \A k \in Seqs : sidecar'[k] = IF k \in Dropped THEN NoPt ELSE sidecar[k]
    /\ nextSeq' \in Nat /\ nextSeq' >= nextSeq
    /\ new # {} => nextSeq' = nextSeq + 1
    /\ protected' = Left(stuck) \cup new
    /\ marred' = (marred \/ \E k \in stuck \ Left(stuck) : sidecar[k] # cache[k].pt)
    /\ last' = Start
    /\ pipe' = <<>> /\ hand' = NoItem /\ seeds' \in Seq(Items) /\ Line' = seeds'
    /\ \A n \in 1..Len(seeds') : /\ seeds'[n].seq \in Left(stuck) \cup new
                                 /\ \/ seeds'[n].pt = NoPt
                                    \/ /\ seeds'[n].seq \in Left(stuck)
                                       /\ seeds'[n].pt = sidecar'[seeds'[n].seq]
    /\ \A m, n \in 1..Len(seeds') : m < n => seeds'[m].seq < seeds'[n].seq
    /\ \A k \in Left(stuck) \cup new : \E n \in 1..Len(seeds') : seeds'[n].seq = k

LEMMA SeedShape ==
    ASSUME TypeOK, Resting, InOrder, Seed
    PROVE  /\ Dropped \in SUBSET Files /\ Files \in SUBSET Seqs
           /\ \E stuck \in SUBSET Dropped, new \in SUBSET Seqs :
                Left(stuck) \in SUBSET Files /\ Seeded(stuck, new)
<1>1. Files \in SUBSET Seqs /\ Dropped \in SUBSET Files  BY DEF Files, Dropped, Foreign
<1>2. PICK stuck \in SUBSET Dropped, copied \in BOOLEAN :
        /\ "unlink" \in Faults \/ stuck = {}
        /\ IF copied THEN verified # NoSave ELSE ~(verified # NoSave) \/ CacheFails
        /\ cache' = [k \in Seqs |-> IF k \in (IF copied THEN {nextSeq} ELSE {}) THEN disk
                                    ELSE IF k \in Dropped \ stuck THEN NoSave
                                    ELSE cache[k]]
        /\ sidecar' = [k \in Seqs |-> IF k \in Dropped THEN NoPt ELSE sidecar[k]]
        /\ nextSeq' = nextSeq + Cardinality(IF copied THEN {nextSeq} ELSE {})
        /\ protected' = Left(stuck) \cup (IF copied THEN {nextSeq} ELSE {})
        /\ marred' = (marred \/ \E k \in stuck \ Left(stuck) : sidecar[k] # cache[k].pt)
        /\ seeds' = Pending(Left(stuck))
                    \o (IF copied THEN <<[seq |-> nextSeq, pt |-> NoPt]>> ELSE <<>>)
  BY DEF Seed, Dropped, Foreign, Start, Left
<1> DEFINE left == Left(stuck)
           new  == IF copied THEN {nextSeq} ELSE {}
<1>3. phase = "verify" /\ (copied => nextSeq \in Seqs)
  BY <1>2, SaveTailAssumption DEF Seed, TypeOK, Seqs
<1>4. left \in SUBSET Files /\ new \in SUBSET Seqs /\ (new = {} \/ new = {nextSeq})
  BY <1>1, <1>3 DEF Left
<1>5. last' = Start  BY DEF Seed, Start
<1> HIDE DEF left, new
<1>6. /\ cache' = [k \in Seqs |-> IF k \in new THEN disk
                                  ELSE IF k \in Dropped \ stuck THEN NoSave
                                  ELSE cache[k]]
      /\ sidecar' = [k \in Seqs |-> IF k \in Dropped THEN NoPt ELSE sidecar[k]]
      /\ nextSeq' = nextSeq + Cardinality(new)
      /\ protected' = left \cup new
      /\ marred' = (marred \/ \E k \in stuck \ left : sidecar[k] # cache[k].pt)
      /\ seeds' = Pending(left) \o (IF copied THEN <<[seq |-> nextSeq, pt |-> NoPt]>> ELSE <<>>)
  BY <1>2 DEF new, left
<1>7. cache' \in [Seqs -> Saves \cup {NoSave}] /\ sidecar' \in [Seqs -> Pts \cup {NoPt}]
  <2>1. disk \in Saves \cup {NoSave}  BY DiskType
  <2>2. cache \in [Seqs -> Saves \cup {NoSave}] /\ sidecar \in [Seqs -> Pts \cup {NoPt}]
    BY DEF TypeOK
  <2> QED  BY <1>6, <2>1, <2>2
<1>8. nextSeq' \in Nat /\ nextSeq' >= nextSeq /\ (new # {} => nextSeq' = nextSeq + 1)
  <2>1. Cardinality({}) = 0 /\ Cardinality({nextSeq}) = 1  BY FS_EmptySet, FS_Singleton
  <2>2. nextSeq \in Nat  BY DEF TypeOK
  <2>3. nextSeq' = nextSeq + Cardinality(new)  BY <1>6
  <2>4. CASE new = {}
    <3>1. nextSeq' = nextSeq + 0  BY <2>1, <2>3, <2>4
    <3> QED  BY <2>2, <2>4, <3>1
  <2>5. CASE new = {nextSeq}
    <3>1. nextSeq' = nextSeq + 1  BY <2>1, <2>3, <2>5
    <3> QED  BY <2>2, <3>1
  <2> QED  BY <1>4, <2>4, <2>5
<1>9. pipe' = <<>> /\ hand' = NoItem  BY <1>3 DEF Seed, Resting
<1> DEFINE p == Pending(left)
<1>10. /\ p \in Seq(Items)
       /\ \A n \in 1..Len(p) : p[n].seq \in left /\ p[n].pt = sidecar'[p[n].seq]
       /\ \A m, n \in 1..Len(p) : m < n => p[m].seq < p[n].seq
       /\ \A k \in left : \E n \in 1..Len(p) : p[n].seq = k
  <2>1. left \in SUBSET Seqs  BY <1>1, <1>4
  <2> QED  BY <1>7, <2>1, PendingShape
<1>11. \A k \in left : k \in Nat /\ k < nextSeq
  BY <1>1, <1>3, <1>4, SaveTailAssumption DEF InOrder, Seqs
<1> HIDE DEF p
<1>12. /\ seeds' \in Seq(Items)
       /\ \A n \in 1..Len(seeds') : /\ seeds'[n].seq \in left \cup new
                                    /\ \/ seeds'[n].pt = NoPt
                                       \/ /\ seeds'[n].seq \in left
                                          /\ seeds'[n].pt = sidecar'[seeds'[n].seq]
       /\ \A m, n \in 1..Len(seeds') : m < n => seeds'[m].seq < seeds'[n].seq
       /\ \A k \in left \cup new : \E n \in 1..Len(seeds') : seeds'[n].seq = k
  <2>1. CASE ~copied
    <3>1. seeds' = p /\ new = {}  BY <1>6, <1>10, <2>1 DEF p, new
    <3> QED  BY <1>10, <3>1
  <2>2. CASE copied
    <3> DEFINE item == [seq |-> nextSeq, pt |-> NoPt]
    <3>1. item \in Items /\ item.seq = nextSeq /\ item.pt = NoPt  BY <1>3, <2>2 DEF Items
    <3> HIDE DEF item
    <3>2. seeds' = Append(p, item) /\ new = {nextSeq}
      <4>1. seeds' = p \o <<item>> /\ new = {nextSeq}  BY <1>6, <2>2 DEF p, item, new
      <4> QED  BY <1>10, <3>1, <4>1
    <3>3. /\ seeds' \in Seq(Items) /\ Len(seeds') = Len(p) + 1 /\ Len(p) \in Nat
          /\ \A n \in 1..Len(p) : seeds'[n] = p[n]
          /\ seeds'[Len(p) + 1] = item
      BY <1>10, <3>1, <3>2
    <3>4. \A n \in 1..Len(seeds') : n \in 1..Len(p) \/ n = Len(p) + 1  BY <3>3
    <3>5. \A n \in 1..Len(seeds') : /\ seeds'[n].seq \in left \cup new
                                    /\ \/ seeds'[n].pt = NoPt
                                       \/ /\ seeds'[n].seq \in left
                                          /\ seeds'[n].pt = sidecar'[seeds'[n].seq]
      BY <1>10, <3>1, <3>2, <3>3, <3>4
    <3>6. \A m, n \in 1..Len(seeds') : m < n => seeds'[m].seq < seeds'[n].seq
      <4> SUFFICES ASSUME NEW m \in 1..Len(seeds'), NEW n \in 1..Len(seeds'), m < n
                   PROVE  seeds'[m].seq < seeds'[n].seq
        OBVIOUS
      <4>1. m \in 1..Len(p)  BY <3>3, <3>4
      <4>2. CASE n \in 1..Len(p)  BY <1>10, <3>3, <4>1, <4>2
      <4>3. CASE n = Len(p) + 1
        <5>1. seeds'[m].seq \in left  BY <1>10, <3>3, <4>1
        <5>2. seeds'[n].seq = nextSeq  BY <3>1, <3>3, <4>3
        <5> QED  BY <1>11, <5>1, <5>2
      <4> QED  BY <3>4, <4>2, <4>3
    <3>7. \A k \in left \cup new : \E n \in 1..Len(seeds') : seeds'[n].seq = k
      <4>1. 1..Len(p) \subseteq 1..Len(seeds') /\ Len(p) + 1 \in 1..Len(seeds')  BY <3>3
      <4>2. ASSUME NEW k \in left  PROVE \E n \in 1..Len(seeds') : seeds'[n].seq = k
        BY <1>10, <3>3, <4>1
      <4>3. ASSUME NEW k \in new  PROVE \E n \in 1..Len(seeds') : seeds'[n].seq = k
        BY <3>1, <3>2, <3>3, <4>1, <4>3
      <4> QED  BY <4>2, <4>3
    <3> QED  BY <3>3, <3>5, <3>6, <3>7
  <2> QED  BY <2>1, <2>2
<1>13. Line' = seeds'
  <2>1. Held' = <<>>  BY <1>9 DEF Held
  <2> QED  BY <1>9, <1>12, <2>1 DEF Line
<1>14. Seeded(stuck, new)
  <2>1. /\ \A k \in Seqs : cache'[k] = IF k \in new THEN disk
                                       ELSE IF k \in Dropped \ stuck THEN NoSave
                                       ELSE cache[k]
        /\ \A k \in Seqs : sidecar'[k] = IF k \in Dropped THEN NoPt ELSE sidecar[k]
    BY <1>6
  <2>2. /\ protected' = left \cup new
        /\ marred' = (marred \/ \E k \in stuck \ left : sidecar[k] # cache[k].pt)
    BY <1>6
  <2> QED
    BY <1>4, <1>5, <1>7, <1>8, <1>9, <1>12, <1>13, <2>1, <2>2 DEF left, Seeded
<1> QED  BY <1>1, <1>4, <1>14 DEF left

Shape == TypeOK /\ Resting /\ InOrder /\ AtWork

LEMMA InitShape == Init => Shape
<1> SUFFICES ASSUME Init  PROVE Shape
  OBVIOUS
<1>1. pipe = <<>> /\ seeds = <<>> /\ hand = NoItem /\ Held = <<>>  BY DEF Init, Held
<1>2. Line = <<>>  BY <1>1 DEF Line
<1>3. TypeOK
  <2>1. script \in Scripts /\ wrote \in 0..Len(script)
    BY SaveTailAssumption DEF Init
  <2>2. cache \in [Seqs -> Saves \cup {NoSave}] /\ sidecar \in [Seqs -> Pts \cup {NoPt}]
    BY DEF Init
  <2> QED  BY <1>1, <2>1, <2>2 DEF Init, TypeOK, Idle
<1>4. Resting /\ AtWork  BY <1>1 DEF Init, Resting, AtWork, Idle
<1>5. InOrder  BY <1>2 DEF Init, InOrder
<1> QED  BY <1>3, <1>4, <1>5 DEF Shape

\* A consumer step of any kind has an item.
LEMMA HasItem ==
    ASSUME Shape, Ready \/ tick.at # "idle"
    PROVE  /\ pipe # <<>> /\ phase \in {"run", "stop"}
           /\ Item.seq \in Seqs /\ Snap \in Saves \cup {NoSave}
<1>1. pipe # <<>>  BY DEF Shape, Ready, AtWork
<1>2. phase \in {"run", "stop"}  BY DEF Shape, Ready, TypeOK, Resting, Idle
<1> QED  BY <1>1, <1>2, SnapType DEF Shape

PopActions == ConsumeSkip \/ ConsumeDrop \/ Finish \/ TickRaises
TagActions == AutoImport \/ Adopt \/ ConsumeBegin \/ ConsumeSilent
OutActions == Stopped \/ Crash \/ CrashInDelete

\* What the four ways to be done with an item have in common.
LEMMA PopShape ==
    ASSUME Shape, PopActions
    PROVE  /\ pipe # <<>> /\ phase \in {"run", "stop"} /\ Item.seq \in Seqs
           /\ MarkProcessed({Item.seq}) \/ MarkProcessedAndGc(Item.seq)
           /\ PopItem
           /\ tick' = Idle
           /\ last' = last \/ (last' = tick.snap /\ tick.at = "saved")
           /\ UNCHANGED <<gameVars, baseFile, pin, rows, imported, tracked, skipped, crashes>>
<1>1. pipe # <<>> /\ phase \in {"run", "stop"} /\ Item.seq \in Seqs
  BY HasItem DEF PopActions, ConsumeSkip, ConsumeDrop, Parsed, Finish, TickRaises
<1>2. /\ MarkProcessed({Item.seq}) \/ MarkProcessedAndGc(Item.seq)
      /\ PopItem
  BY DEF PopActions, ConsumeSkip, ConsumeDrop, Finish, TickRaises
<1>3. /\ tick' = Idle
      /\ last' = last \/ (last' = tick.snap /\ tick.at = "saved")
  BY DEF PopActions, ConsumeSkip, ConsumeDrop, Parsed, Ready, Finish, TickRaises
<1>4. UNCHANGED <<gameVars, baseFile, pin, rows, imported, tracked, skipped, crashes>>
  BY DEF PopActions, ConsumeSkip, ConsumeDrop, Finish, TickRaises
<1> QED  BY <1>1, <1>2, <1>3, <1>4

\* What the four ways to begin with a save have in common.
LEMMA TagShape ==
    ASSUME Shape, TagActions
    PROVE  /\ Parsed /\ pipe # <<>> /\ Snap # NoSave /\ phase \in {"run", "stop"} /\ Tag
           /\ tick' = [at |-> IF AutoImport THEN "imported" ELSE
                              IF ConsumeBegin THEN "diffed" ELSE "stored", snap |-> Snap]
           /\ UNCHANGED <<gameVars, cache, baseFile, rows, tracked, phase, verified, nextSeq,
                          protected, seeds, hand, armed, seen, pipe, recovery, marred, crashes>>
<1>1. Parsed /\ Tag
  BY DEF TagActions, AutoImport, Adopt, ConsumeBegin, ConsumeSilent, Bootstrap
<1>2. pipe # <<>> /\ Snap # NoSave /\ phase \in {"run", "stop"}  BY <1>1 DEF Parsed, Ready
<1>3. AutoImport => tick' = [at |-> "imported", snap |-> Snap]  BY DEF AutoImport
<1>4. ConsumeBegin => tick' = [at |-> "diffed", snap |-> Snap]  BY DEF ConsumeBegin
<1>5. Adopt \/ ConsumeSilent => tick' = [at |-> "stored", snap |-> Snap]
  BY DEF Adopt, ConsumeSilent
<1>6. UNCHANGED <<gameVars, cache, baseFile, rows, tracked, phase, verified, nextSeq,
                  protected, seeds, hand, armed, seen, pipe, recovery, marred, crashes>>
  BY DEF TagActions, AutoImport, Adopt, ConsumeBegin, ConsumeSilent
<1>7. ~(AutoImport /\ ConsumeBegin)  BY DEF AutoImport, ConsumeBegin, Bootstrap
<1> QED  BY <1>1, <1>2, <1>3, <1>4, <1>5, <1>6, <1>7 DEF TagActions

\* What the three ways to end the process have in common.
LEMMA OutShape ==
    ASSUME Shape, OutActions
    PROVE  /\ ForgetAll /\ UNCHANGED <<baseFile, pin, rows, imported>>
           /\ \/ UNCHANGED <<cache, sidecar>>
              \/ /\ CrashInDelete /\ pipe # <<>> /\ Item.seq \in Seqs /\ Snap # NoSave /\ Tag
                 /\ cache' = [cache EXCEPT ![Item.seq] = NoSave]
<1>1. ForgetAll /\ UNCHANGED <<baseFile, pin, rows, imported>>
  BY DEF OutActions, Stopped, Crash, CrashInDelete, storeVars
<1>2. CASE Stopped \/ Crash
  BY <1>1, <1>2 DEF Stopped, Crash, storeVars
<1>3. CASE CrashInDelete
  <2>1. pipe # <<>> /\ Item.seq \in Seqs /\ Snap # NoSave
    BY <1>3, HasItem DEF CrashInDelete, Parsed, Shape, AtWork
  <2> QED  BY <1>1, <1>3, <2>1 DEF CrashInDelete
<1> QED  BY <1>2, <1>3 DEF OutActions

\* The actions, grouped by what they do to the line and the cache.
Quiet == GameSaves \/ Track \/ Stop \/ Arm \/ IngestEvents \/ Persist

LEMMA NextByKind ==
    Next <=> \/ Quiet \/ Boot \/ Seed
             \/ PutSeed \/ PutHand
             \/ WatchSave \/ WatchOldRead
             \/ PopActions \/ TagActions \/ OutActions
BY DEF Next, Producer, Consumer, Quiet, PopActions, TagActions, OutActions

LEMMA CaptureStep ==
    ASSUME TypeOK, WatchSave \/ WatchOldRead
    PROVE  \E s \in Saves \cup {NoSave} : Capture(s)
BY DiskType DEF WatchSave, WatchOldRead

LEMMA TypeStep == Shape /\ [Next]_vars => TypeOK'
<1> SUFFICES ASSUME Shape, [Next]_vars  PROVE TypeOK'
  OBVIOUS
<1>0. TypeOK /\ Resting /\ InOrder /\ AtWork  BY DEF Shape
<1> USE DEF gameVars, storeVars, procVars
<1>1. CASE UNCHANGED vars  BY <1>0, <1>1 DEF TypeOK, vars
<1>2. CASE Quiet
  <2>1. CASE GameSaves
    <3>1. script \in Seq(Saves) /\ wrote \in 0..Len(script) /\ wrote < Len(script)
      BY <1>0, <2>1, SaveTailAssumption DEF TypeOK, Saves, Dates, GameSaves
    <3>2. script' = script /\ wrote' = wrote + 1  BY <2>1 DEF GameSaves
    <3>3. wrote' \in 0..Len(script')  BY <3>1, <3>2
    <3>4. UNCHANGED <<script, storeVars, tracked, procVars>>  BY <2>1 DEF GameSaves
    <3> QED  BY <1>0, <3>3, <3>4 DEF TypeOK
  <2>2. CASE Track \/ Stop \/ Arm  BY <1>0, <2>2 DEF TypeOK, Track, Stop, Arm
  <2>3. CASE IngestEvents
    <3>1. tick.at = "diffed" /\ tick.snap \in Saves  BY <1>0, <2>3 DEF TypeOK, IngestEvents
    <3>2. tick' = [tick EXCEPT !.at = "stored"]  BY <2>3 DEF IngestEvents
    <3>3. /\ tick' \in [at : {"idle", "imported", "diffed", "stored", "saved"},
                        snap : Saves \cup {NoSave}]
          /\ tick'.snap \in Saves
      BY <1>0, <3>1, <3>2 DEF TypeOK
    <3>4. Found(last, tick.snap) \subseteq Rows
      BY <3>1 DEF Found, Happened, Rows, Saves
    <3>5. rows' \in SUBSET Rows  BY <1>0, <2>3, <3>4 DEF TypeOK, IngestEvents
    <3>6. UNCHANGED <<gameVars, cache, sidecar, baseFile, phase, verified, last, nextSeq,
                      protected, seeds, hand, pipe>>
      BY <2>3 DEF IngestEvents
    <3> QED  BY <1>0, <3>3, <3>5, <3>6 DEF TypeOK
  <2>4. CASE Persist
    <3>1. tick.at \in {"stored", "imported"} /\ tick.snap \in Saves
      BY <1>0, <2>4 DEF TypeOK, Persist
    <3>2. tick' = [tick EXCEPT !.at = "saved"]  BY <2>4 DEF Persist
    <3>3. /\ tick' \in [at : {"idle", "imported", "diffed", "stored", "saved"},
                        snap : Saves \cup {NoSave}]
          /\ tick'.snap \in Saves
      BY <1>0, <3>1, <3>2 DEF TypeOK
    <3>4. baseFile' \in {baseFile, tick.snap}  BY <2>4 DEF Persist
    <3>5. UNCHANGED <<gameVars, cache, sidecar, rows, phase, verified, last, nextSeq,
                      protected, seeds, hand, pipe>>
      BY <2>4 DEF Persist
    <3> QED  BY <1>0, <3>1, <3>3, <3>4, <3>5 DEF TypeOK
  <2> QED  BY <1>2, <2>1, <2>2, <2>3, <2>4 DEF Quiet
<1>3. CASE Boot
  <2>1. nextSeq' \in Nat \ {0}
    <3> DEFINE S == {k \in Seqs : \E j \in Files : k <= j}
    <3>1. Cardinality(S) \in Nat  BY SeqsFinite
    <3>2. nextSeq' = 1 + Cardinality(S)  BY <1>3 DEF Boot
    <3> HIDE DEF S
    <3> QED  BY <3>1, <3>2
  <2>2. verified' \in Saves \cup {NoSave}  BY <1>0, <1>3, DiskType DEF Boot, Verified
  <2> QED  BY <1>0, <1>3, <2>1, <2>2 DEF TypeOK, Boot
<1>4. CASE Seed
  <2>1. PICK stuck \in SUBSET Dropped, new \in SUBSET Seqs :
          Left(stuck) \in SUBSET Files /\ Seeded(stuck, new)
    BY <1>0, <1>4, SeedShape
  <2>2. Files \in SUBSET Seqs  BY DEF Files
  <2>3. /\ cache' \in [Seqs -> Saves \cup {NoSave}]
        /\ sidecar' \in [Seqs -> Pts \cup {NoPt}]
        /\ nextSeq' \in Nat /\ nextSeq' >= nextSeq
        /\ protected' \in SUBSET Seqs
        /\ pipe' = <<>> /\ hand' = NoItem /\ seeds' \in Seq(Items)
    BY <2>1, <2>2 DEF Seeded
  <2>4. nextSeq' \in Nat \ {0}  BY <1>0, <2>3 DEF TypeOK
  <2>5. last' \in Saves \cup {NoSave}  BY <1>0, <2>1 DEF Seeded, Start, TypeOK
  <2>6. phase' = "run" /\ UNCHANGED <<gameVars, baseFile, rows, verified, tick>>
    BY <1>4 DEF Seed
  <2> QED  BY <1>0, <2>3, <2>4, <2>5, <2>6 DEF TypeOK
<1>5. CASE PutSeed \/ PutHand
  <2>1. pipe' \in Seq(Items) /\ seeds' \in Seq(Items) /\ hand' \in Items \cup {NoItem}
    <3>1. pipe \in Seq(Items) /\ seeds \in Seq(Items) /\ hand \in Items \cup {NoItem}
      BY <1>0 DEF TypeOK
    <3>2. CASE PutSeed
      <4>1. /\ seeds # <<>> /\ pipe' = Append(pipe, Head(seeds)) /\ seeds' = Tail(seeds)
            /\ hand' = hand
        BY <3>2 DEF PutSeed
      <4> QED  BY <3>1, <4>1
    <3>3. CASE PutHand
      <4>1. hand # NoItem /\ pipe' = Append(pipe, hand) /\ hand' = NoItem /\ seeds' = seeds
        BY <3>3 DEF PutHand
      <4> QED  BY <3>1, <4>1
    <3> QED  BY <1>5, <3>2, <3>3
  <2>2. UNCHANGED <<gameVars, storeVars, phase, verified, last, nextSeq, protected, tick>>
    BY <1>5 DEF PutSeed, PutHand
  <2> QED  BY <1>0, <2>1, <2>2 DEF TypeOK
<1>6. CASE WatchSave \/ WatchOldRead
  <2>1. PICK s \in Saves \cup {NoSave} : Capture(s)  BY <1>0, <1>6, CaptureStep
  <2>2. /\ nextSeq \in Seqs
        /\ pipe' \in Seq(Items) /\ hand' \in Items \cup {NoItem}
        /\ \/ /\ cache' = [cache EXCEPT ![nextSeq] = s]
              /\ nextSeq' = nextSeq + 1
              /\ protected' = protected \cup {nextSeq}
           \/ UNCHANGED <<cache, nextSeq, protected>>
    BY <1>0, <2>1, LineCapture
  <2>3. /\ cache' \in [Seqs -> Saves \cup {NoSave}]
        /\ nextSeq' \in Nat \ {0}
        /\ protected' \in SUBSET Seqs
    <3>1. /\ cache \in [Seqs -> Saves \cup {NoSave}] /\ nextSeq \in Nat \ {0}
          /\ protected \in SUBSET Seqs
      BY <1>0 DEF TypeOK
    <3>2. CASE UNCHANGED <<cache, nextSeq, protected>>  BY <3>1, <3>2
    <3>3. CASE /\ cache' = [cache EXCEPT ![nextSeq] = s]
               /\ nextSeq' = nextSeq + 1
               /\ protected' = protected \cup {nextSeq}
      <4>1. cache' \in [Seqs -> Saves \cup {NoSave}]  BY <2>1, <3>1, <3>3
      <4>2. nextSeq' \in Nat \ {0}  BY <3>1, <3>3
      <4> QED  BY <2>2, <3>1, <3>3, <4>1, <4>2
    <3> QED  BY <2>2, <3>2, <3>3
  <2>4. UNCHANGED <<gameVars, sidecar, baseFile, rows, phase, verified, last, seeds, tick>>
    BY <2>1 DEF Capture
  <2> QED  BY <1>0, <2>2, <2>3, <2>4 DEF TypeOK
<1>7. CASE PopActions
  <2>1. /\ pipe # <<>> /\ Item.seq \in Seqs
        /\ MarkProcessed({Item.seq}) \/ MarkProcessedAndGc(Item.seq)
        /\ PopItem /\ tick' = Idle
        /\ last' \in {last, tick.snap}
        /\ UNCHANGED <<gameVars, baseFile, rows>>
    BY <1>7, PopShape
  <2>2. /\ cache' \in [Seqs -> Saves \cup {NoSave}]
        /\ sidecar' \in [Seqs -> Pts \cup {NoPt}]
        /\ protected' = protected \ {Item.seq}
    BY <1>0, <2>1, MarkShape
  <2>3. pipe' \in Seq(Items)  BY <1>0, <2>1, LinePop
  <2>4. UNCHANGED <<phase, verified, nextSeq, seeds, hand>>  BY <2>1 DEF PopItem
  <2>5. last' \in Saves \cup {NoSave} /\ protected' \in SUBSET Seqs
    BY <1>0, <2>1, <2>2 DEF TypeOK
  <2>6. tick' = [at |-> "idle", snap |-> NoSave]  BY <2>1 DEF Idle
  <2>7. /\ tick' \in [at : {"idle", "imported", "diffed", "stored", "saved"},
                      snap : Saves \cup {NoSave}]
        /\ tick'.at = "idle"
    BY <2>6
  <2> QED  BY <1>0, <2>1, <2>2, <2>3, <2>4, <2>5, <2>7 DEF TypeOK
<1>8. CASE TagActions
  <2>1. /\ pipe # <<>> /\ Snap # NoSave /\ Tag
        /\ tick' = [at |-> IF AutoImport THEN "imported" ELSE
                           IF ConsumeBegin THEN "diffed" ELSE "stored", snap |-> Snap]
        /\ UNCHANGED <<gameVars, cache, baseFile, rows, phase, verified, nextSeq,
                       protected, seeds, hand, pipe>>
    BY <1>8, TagShape
  <2>2. sidecar' \in [Seqs -> Pts \cup {NoPt}] /\ Snap \in Saves  BY <1>0, <2>1, TagType
  <2>3. last' \in {last, Snap}
    BY <1>8 DEF TagActions, AutoImport, Adopt, ConsumeBegin, ConsumeSilent
  <2>4. /\ tick'.snap \in Saves
        /\ tick' \in [at : {"idle", "imported", "diffed", "stored", "saved"},
                      snap : Saves \cup {NoSave}]
    BY <2>1, <2>2
  <2> QED  BY <1>0, <2>1, <2>2, <2>3, <2>4 DEF TypeOK
<1>9. CASE OutActions
  <2>1. ForgetAll /\ UNCHANGED <<baseFile, rows>>  BY <1>9, OutShape
  <2>2. /\ cache' \in [Seqs -> Saves \cup {NoSave}]
        /\ sidecar' \in [Seqs -> Pts \cup {NoPt}]
    <3>1. CASE UNCHANGED <<cache, sidecar>>  BY <1>0, <3>1 DEF TypeOK
    <3>2. CASE /\ pipe # <<>> /\ Item.seq \in Seqs /\ Snap # NoSave /\ Tag
               /\ cache' = [cache EXCEPT ![Item.seq] = NoSave]
      BY <1>0, <3>2, TagType DEF TypeOK
    <3> QED  BY <1>9, <3>1, <3>2, OutShape
  <2>3. /\ UNCHANGED gameVars /\ phase' = "down" /\ verified' = NoSave /\ last' = NoSave
        /\ nextSeq' = 1 /\ protected' = {} /\ seeds' = <<>> /\ hand' = NoItem
        /\ pipe' = <<>> /\ tick' = [at |-> "idle", snap |-> NoSave]
    BY <2>1 DEF ForgetAll, Idle
  <2>4. /\ tick'.at = "idle"
        /\ tick' \in [at : {"idle", "imported", "diffed", "stored", "saved"},
                      snap : Saves \cup {NoSave}]
    BY <2>3
  <2> QED  BY <1>0, <2>1, <2>2, <2>3, <2>4 DEF TypeOK
<1> QED
  BY <1>1, <1>2, <1>3, <1>4, <1>5, <1>6, <1>7, <1>8, <1>9, NextByKind

-----------------------------------------------------------------------------
(* Nothing runs in a process that is down, and the line stays in order.    *)

LEMMA RestingStep == Shape /\ [Next]_vars => Resting'
<1> SUFFICES ASSUME Shape, [Next]_vars  PROVE Resting'
  OBVIOUS
<1>0. TypeOK /\ Resting /\ InOrder /\ AtWork  BY DEF Shape
<1> USE DEF gameVars, storeVars, procVars
<1>1. CASE UNCHANGED vars  BY <1>0, <1>1 DEF Resting, vars
<1>2. CASE Quiet
  <2>1. CASE GameSaves \/ Track \/ Stop  BY <1>0, <2>1 DEF Resting, GameSaves, Track, Stop
  <2>2. CASE Arm  BY <1>0, <2>2 DEF Resting, Arm
  <2>3. CASE IngestEvents \/ Persist
    <3>1. phase \in {"run", "stop"}
      BY <2>3, HasItem DEF IngestEvents, Persist
    <3> QED  BY <1>0, <2>3, <3>1 DEF Resting, IngestEvents, Persist
  <2> QED  BY <1>2, <2>1, <2>2, <2>3 DEF Quiet
<1>3. CASE Boot  BY <1>0, <1>3 DEF Resting, Boot
<1>4. CASE Seed
  <2>1. phase = "verify" /\ phase' = "run" /\ UNCHANGED <<hand, armed>>  BY <1>4 DEF Seed
  <2> QED  BY <1>0, <2>1 DEF Resting
<1>5. CASE PutSeed \/ PutHand
  <2>1. phase \in {"run", "stop"}
    BY <1>0, <1>5 DEF PutSeed, PutHand, Resting, TypeOK
  <2>2. CASE PutSeed
    <3>1. seeds # <<>>  BY <2>2 DEF PutSeed
    <3>2. ~armed /\ hand = NoItem  BY <1>0, <3>1 DEF Resting
    <3> QED  BY <2>1, <2>2, <3>2 DEF PutSeed, Resting
  <2>3. CASE PutHand  BY <1>0, <2>1, <2>3 DEF PutHand, Resting
  <2> QED  BY <1>5, <2>2, <2>3
<1>6. CASE WatchSave \/ WatchOldRead
  <2>1. PICK s \in Saves \cup {NoSave} : Capture(s)  BY <1>0, <1>6, CaptureStep
  <2> QED  BY <1>0, <2>1 DEF Resting, Capture
<1>7. CASE PopActions
  <2>1. phase \in {"run", "stop"} /\ PopItem  BY <1>7, PopShape
  <2> QED  BY <1>0, <2>1 DEF Resting, PopItem
<1>8. CASE TagActions
  <2>1. phase \in {"run", "stop"} /\ UNCHANGED <<phase, verified, seeds, hand, armed>>
    BY <1>8, TagShape
  <2> QED  BY <1>0, <2>1 DEF Resting
<1>9. CASE OutActions  BY <1>9, OutShape DEF ForgetAll, Resting
<1> QED
  BY <1>1, <1>2, <1>3, <1>4, <1>5, <1>6, <1>7, <1>8, <1>9, NextByKind

LEMMA LineSame == UNCHANGED <<pipe, seeds, hand>> => Line' = Line
BY DEF Line, Held

\* Line' as a sequence and its seqnos as numbers.
LEMMA LineNumbers ==
    TypeOK => /\ Line \in Seq(Items) /\ Len(Line) \in Nat
              /\ \A n \in 1..Len(Line) : Line[n] \in Items /\ Line[n].seq \in Seqs
<1> SUFFICES ASSUME TypeOK
             PROVE  /\ Line \in Seq(Items) /\ Len(Line) \in Nat
                    /\ \A n \in 1..Len(Line) : Line[n] \in Items /\ Line[n].seq \in Seqs
  OBVIOUS
<1>1. Line \in Seq(Items)  BY LineType
<1>2. Len(Line) \in Nat /\ \A n \in 1..Len(Line) : Line[n] \in Items  BY <1>1
<1>3. \A i \in Items : i.seq \in Seqs  BY DEF Items
<1> QED  BY <1>1, <1>2, <1>3

LEMMA SeqsAreNat == Seqs \subseteq Nat /\ \A k \in Seqs : k \in Nat
BY SaveTailAssumption DEF Seqs

LEMMA InOrderStep == Shape /\ [Next]_vars => InOrder'
<1> SUFFICES ASSUME Shape, [Next]_vars  PROVE InOrder'
  OBVIOUS
<1>0. TypeOK /\ Resting /\ InOrder /\ AtWork  BY DEF Shape
<1> USE DEF gameVars, storeVars, procVars
<1>1. CASE UNCHANGED vars
  <2>1. Line' = Line /\ UNCHANGED <<nextSeq, protected, phase, cache>>
    BY <1>1, LineSame DEF vars
  <2> QED  BY <1>0, <2>1 DEF InOrder, Files
<1>2. CASE Quiet
  <2>1. UNCHANGED <<pipe, seeds, hand, nextSeq, protected, cache>>
        /\ (phase' = phase \/ phase = "run")
    BY <1>2 DEF Quiet, GameSaves, Track, Stop, Arm, IngestEvents, Persist
  <2>2. Line' = Line  BY <2>1, LineSame
  <2> QED  BY <1>0, <2>1, <2>2 DEF InOrder, Files
<1>3. CASE Boot
  <2>1. UNCHANGED <<pipe, seeds, hand, cache>> /\ phase = "down"  BY <1>3 DEF Boot
  <2>2. Line' = <<>>
    <3>1. pipe' = <<>> /\ seeds' = <<>> /\ hand' = NoItem  BY <1>0, <2>1 DEF Resting
    <3> QED  BY <3>1 DEF Line, Held
  <2>3. \A k \in Files : k < nextSeq'
    <3> SUFFICES ASSUME NEW j \in Files  PROVE j < nextSeq'
      OBVIOUS
    <3> DEFINE S == {k \in Seqs : \E i \in Files : k <= i}
    <3>1. j \in Seqs /\ j \in Nat /\ j > 0  BY SaveTailAssumption DEF Files, Seqs
    <3>2. 1..j \in SUBSET S
      <4>1. \A k \in 1..j : k \in Seqs /\ k <= j  BY <3>1, SaveTailAssumption DEF Seqs
      <4> QED  BY <4>1
    <3>3. IsFiniteSet(S) /\ Cardinality(S) \in Nat  BY SeqsFinite
    <3>4. nextSeq' = 1 + Cardinality(S)  BY <1>3 DEF Boot
    <3> HIDE DEF S
    <3>5. Cardinality(1..j) = j  BY <3>1, FS_Interval
    <3>6. Cardinality(1..j) <= Cardinality(S)  BY <3>2, <3>3, FS_Subset
    <3> QED  BY <3>1, <3>3, <3>4, <3>5, <3>6
  <2> QED  BY <2>1, <2>2, <2>3 DEF InOrder, Files
<1>4. CASE Seed
  <2>1. PICK stuck \in SUBSET Dropped, new \in SUBSET Seqs :
          Left(stuck) \in SUBSET Files /\ Seeded(stuck, new)
    BY <1>0, <1>4, SeedShape
  <2>2. /\ new = {} \/ new = {nextSeq}
        /\ \A k \in Seqs : cache'[k] = IF k \in new THEN disk
                                       ELSE IF k \in Dropped \ stuck THEN NoSave
                                       ELSE cache[k]
        /\ nextSeq' \in Nat /\ nextSeq' >= nextSeq
        /\ new # {} => nextSeq' = nextSeq + 1
        /\ protected' = Left(stuck) \cup new
        /\ Line' = seeds'
        /\ \A n \in 1..Len(seeds') : seeds'[n].seq \in Left(stuck) \cup new
        /\ \A m, n \in 1..Len(seeds') : m < n => seeds'[m].seq < seeds'[n].seq
    BY <2>1 DEF Seeded
  <2>3. nextSeq \in Nat /\ \A k \in Files : k < nextSeq /\ k \in Nat
    BY <1>0, <1>4, SeqsAreNat DEF InOrder, TypeOK, Seed, Files
  <2>4. \A k \in Files \cup new : k < nextSeq'  BY <2>2, <2>3
  <2>5. \A k \in Files' : k \in Files \cup new  BY <2>2 DEF Files
  <2> QED  BY <2>1, <2>2, <2>4, <2>5 DEF InOrder
<1>5. CASE PutSeed \/ PutHand
  <2>1. Line' = Line  BY <1>0, <1>5, LinePut
  <2>2. UNCHANGED <<nextSeq, protected, phase, cache>>  BY <1>5 DEF PutSeed, PutHand
  <2> QED  BY <1>0, <2>1, <2>2 DEF InOrder, Files
<1>6. CASE WatchSave \/ WatchOldRead
  <2>1. PICK s \in Saves \cup {NoSave} : Capture(s)  BY <1>0, <1>6, CaptureStep
  <2> DEFINE item == [seq |-> nextSeq, pt |-> NoPt]
  <2>2. /\ nextSeq \in Seqs /\ item \in Items
        /\ \/ /\ Line' = Append(Line, item)
              /\ cache' = [cache EXCEPT ![nextSeq] = s]
              /\ nextSeq' = nextSeq + 1
              /\ protected' = protected \cup {nextSeq}
           \/ /\ Line' = Line
              /\ UNCHANGED <<cache, nextSeq, protected>>
    BY <1>0, <2>1, LineCapture
  <2>3. phase = "run" /\ phase' = "run"  BY <2>1 DEF Capture
  <2>4. item.seq = nextSeq  OBVIOUS
  <2> HIDE DEF item
  <2>5. CASE Line' = Line /\ UNCHANGED <<cache, nextSeq, protected>>
    BY <1>0, <2>3, <2>5 DEF InOrder, Files
  <2>6. CASE /\ Line' = Append(Line, item)
             /\ cache' = [cache EXCEPT ![nextSeq] = s]
             /\ nextSeq' = nextSeq + 1
             /\ protected' = protected \cup {nextSeq}
    <3>1. /\ Len(Line) \in Nat /\ Len(Line') = Len(Line) + 1
          /\ \A n \in 1..Len(Line) : Line'[n] = Line[n] /\ Line'[n].seq \in Nat
          /\ Line'[Len(Line) + 1] = item
          /\ \A n \in 1..Len(Line') : n \in 1..Len(Line) \/ n = Len(Line) + 1
      <4>1. Line \in Seq(Items)  BY <1>0, LineNumbers
      <4>2. /\ Len(Line) \in Nat /\ Len(Line') = Len(Line) + 1
            /\ \A n \in 1..Len(Line) : Line'[n] = Line[n]
            /\ Line'[Len(Line) + 1] = item
        BY <2>2, <2>6, <4>1
      <4>3. \A n \in 1..Len(Line) : Line'[n].seq \in Nat
        BY <1>0, <4>2, LineNumbers, SeqsAreNat
      <4>4. \A n \in 1..Len(Line') : n \in 1..Len(Line) \/ n = Len(Line) + 1  BY <4>2
      <4> QED  BY <4>2, <4>3, <4>4
    <3>2. nextSeq \in Nat /\ nextSeq' \in Nat /\ nextSeq < nextSeq'
      BY <2>2, <2>6, SeqsAreNat
    <3>3. \A n \in 1..Len(Line) : Line'[n].seq < nextSeq /\ Line'[n].seq \in protected
      BY <1>0, <3>1 DEF InOrder
    <3>4. \A n \in 1..Len(Line') : Line'[n].seq < nextSeq' /\ Line'[n].seq \in protected'
      BY <2>4, <2>6, <3>1, <3>2, <3>3
    <3>5. \A m, n \in 1..Len(Line') : m < n => Line'[m].seq < Line'[n].seq
      <4> SUFFICES ASSUME NEW m \in 1..Len(Line'), NEW n \in 1..Len(Line'), m < n
                   PROVE  Line'[m].seq < Line'[n].seq
        OBVIOUS
      <4>1. m \in 1..Len(Line)  BY <3>1
      <4>2. CASE n \in 1..Len(Line)  BY <1>0, <3>1, <4>1, <4>2 DEF InOrder
      <4>3. CASE n = Len(Line) + 1  BY <2>4, <3>1, <3>3, <4>1, <4>3
      <4> QED  BY <3>1, <4>2, <4>3
    <3>6. \A k \in Files' : k < nextSeq'
      <4>1. \A k \in Files : k < nextSeq /\ k \in Nat
        BY <1>0, <2>3, SeqsAreNat DEF InOrder, Files
      <4>2. \A k \in Files' : k \in Files \/ k = nextSeq  BY <1>0, <2>6 DEF Files, TypeOK
      <4> QED  BY <3>2, <4>1, <4>2
    <3> QED  BY <3>4, <3>5, <3>6 DEF InOrder
  <2> QED  BY <2>2, <2>5, <2>6
<1>7. CASE PopActions
  <2>1. /\ pipe # <<>> /\ Item.seq \in Seqs /\ phase \in {"run", "stop"}
        /\ MarkProcessed({Item.seq}) \/ MarkProcessedAndGc(Item.seq)
        /\ PopItem
    BY <1>7, PopShape
  <2>2. /\ Len(Line') = Len(Line) - 1
        /\ \A n \in 1..Len(Line') : Line'[n] = Line[n + 1] /\ n + 1 \in 1..Len(Line)
    BY <1>0, <2>1, LinePop
  <2>3. Len(Line) \in Nat \ {0} /\ Line[1] = Item  BY <1>0, <2>1, LineHead
  <2>4. /\ protected' = protected \ {Item.seq}
        /\ \A j \in Seqs : cache'[j] \in {cache[j], NoSave}
    BY <1>0, <2>1, MarkShape
  <2>5. nextSeq' = nextSeq /\ phase' = phase  BY <2>1 DEF PopItem
  <2>6. \A n \in 1..Len(Line') : Line'[n].seq < nextSeq' /\ Line'[n].seq \in protected'
    <3> SUFFICES ASSUME NEW n \in 1..Len(Line')
                 PROVE  Line'[n].seq < nextSeq' /\ Line'[n].seq \in protected'
      OBVIOUS
    <3>1. Line'[n] = Line[n + 1] /\ n + 1 \in 1..Len(Line) /\ 1 \in 1..Len(Line) /\ 1 < n + 1
      BY <2>2, <2>3
    <3>2. Line[1].seq < Line[n + 1].seq /\ Line[n + 1].seq < nextSeq
          /\ Line[n + 1].seq \in protected
      BY <1>0, <3>1 DEF InOrder
    <3>3. Line[1].seq \in Nat /\ Line[n + 1].seq \in Nat
      BY <1>0, <3>1, LineNumbers, SeqsAreNat
    <3>4. Line[1].seq # Line[n + 1].seq  BY <3>2, <3>3
    <3> QED  BY <2>3, <2>4, <2>5, <3>1, <3>2, <3>4
  <2>7. \A m, n \in 1..Len(Line') : m < n => Line'[m].seq < Line'[n].seq
    <3> SUFFICES ASSUME NEW m \in 1..Len(Line'), NEW n \in 1..Len(Line'), m < n
                 PROVE  Line'[m].seq < Line'[n].seq
      OBVIOUS
    <3>1. m + 1 \in 1..Len(Line) /\ n + 1 \in 1..Len(Line) /\ m + 1 < n + 1
          /\ Line'[m] = Line[m + 1] /\ Line'[n] = Line[n + 1]
      BY <2>2, <2>3
    <3> QED  BY <1>0, <3>1 DEF InOrder
  <2>8. \A k \in Files' : k \in Files  BY <2>4 DEF Files
  <2>9. \A k \in Files' : k < nextSeq'
    BY <1>0, <2>1, <2>5, <2>8 DEF InOrder
  <2> QED  BY <2>6, <2>7, <2>9 DEF InOrder
<1>8. CASE TagActions
  <2>1. UNCHANGED <<cache, phase, nextSeq, protected, seeds, hand, pipe>>  BY <1>8, TagShape
  <2>2. Line' = Line  BY <2>1, LineSame
  <2> QED  BY <1>0, <2>1, <2>2 DEF InOrder, Files
<1>9. CASE OutActions
  <2>1. pipe' = <<>> /\ seeds' = <<>> /\ hand' = NoItem /\ phase' = "down"
    BY <1>9, OutShape DEF ForgetAll
  <2>2. Line' = <<>>  BY <2>1 DEF Line, Held
  <2> QED  BY <2>1, <2>2 DEF InOrder
<1> QED
  BY <1>1, <1>2, <1>3, <1>4, <1>5, <1>6, <1>7, <1>8, <1>9, NextByKind

LEMMA AtWorkStep == Shape /\ [Next]_vars => AtWork'
<1> SUFFICES ASSUME Shape, [Next]_vars, tick'.at # "idle"
             PROVE  /\ pipe' # <<>> /\ tick'.snap = Snap' /\ tick'.snap # NoSave
                    /\ sidecar'[Item'.seq] = tick'.snap.pt
  BY DEF AtWork
<1>0. TypeOK /\ Resting /\ InOrder /\ AtWork  BY DEF Shape
<1> USE DEF gameVars, storeVars, procVars
<1>a. ASSUME tick.at # "idle", Item' = Item, pipe' # <<>>, tick'.snap = tick.snap,
             cache'[Item.seq] = cache[Item.seq], sidecar' = sidecar
      PROVE  /\ pipe' # <<>> /\ tick'.snap = Snap' /\ tick'.snap # NoSave
             /\ sidecar'[Item'.seq] = tick'.snap.pt
  BY <1>0, <1>a DEF AtWork, Snap
<1>1. CASE UNCHANGED vars
  BY <1>0, <1>1, <1>a DEF AtWork, vars, Item
<1>2. CASE Quiet
  <2>1. /\ UNCHANGED <<pipe, cache, sidecar>>
        /\ tick'.snap = tick.snap
        /\ tick.at # "idle"
    <3>1. CASE GameSaves \/ Track \/ Stop \/ Arm  BY <3>1 DEF GameSaves, Track, Stop, Arm
    <3>2. CASE IngestEvents \/ Persist
      <4>1. UNCHANGED <<pipe, cache, sidecar>> /\ tick.at # "idle"
        BY <3>2 DEF IngestEvents, Persist
      <4>2. tick'.snap = tick.snap  BY <1>0, <3>2 DEF IngestEvents, Persist, TypeOK
      <4> QED  BY <4>1, <4>2
    <3> QED  BY <1>2, <3>1, <3>2 DEF Quiet
  <2> QED  BY <1>0, <1>a, <2>1 DEF AtWork, Item
<1>3. CASE Boot \/ Seed
  <2>1. phase \in {"down", "verify"} /\ tick' = tick  BY <1>3 DEF Boot, Seed
  <2> QED  BY <1>0, <2>1 DEF Resting, Idle
<1>4. CASE PutSeed \/ PutHand
  <2>1. tick' = tick /\ UNCHANGED <<cache, sidecar>>  BY <1>4 DEF PutSeed, PutHand
  <2>2. pipe \in Seq(Items) /\ seeds \in Seq(Items) /\ pipe # <<>>
    BY <1>0, <2>1 DEF TypeOK, AtWork
  <2>3. \E i \in Items : pipe' = Append(pipe, i)
    <3>1. CASE PutSeed
      <4>1. seeds # <<>> /\ pipe' = Append(pipe, Head(seeds))  BY <3>1 DEF PutSeed
      <4>2. Head(seeds) \in Items  BY <2>2, <4>1
      <4> QED  BY <4>1, <4>2
    <3>2. CASE PutHand  BY <1>0, <3>2 DEF PutHand, TypeOK
    <3> QED  BY <1>4, <3>1, <3>2
  <2>4. pipe' # <<>> /\ Item' = Item  BY <2>2, <2>3 DEF Item
  <2> QED  BY <1>a, <2>1, <2>4
<1>5. CASE WatchSave \/ WatchOldRead
  <2>1. PICK s \in Saves \cup {NoSave} : Capture(s)  BY <1>0, <1>5, CaptureStep
  <2>2. tick' = tick /\ sidecar' = sidecar  BY <2>1 DEF Capture
  <2>3. pipe # <<>>  BY <1>0, <2>2 DEF AtWork
  <2>4. Item.seq \in Seqs /\ Item.seq # nextSeq
    <3>1. Item.seq \in Seqs /\ 1 \in 1..Len(Line) /\ Line[1] = Item
      BY <1>0, <2>3, LineHead
    <3>2. Item.seq < nextSeq  BY <1>0, <3>1 DEF InOrder
    <3>3. Item.seq \in Nat /\ nextSeq \in Nat  BY <1>0, <3>1, SeqsAreNat DEF TypeOK
    <3> QED  BY <3>1, <3>2, <3>3
  <2>5. \/ cache' = [cache EXCEPT ![nextSeq] = s]
        \/ UNCHANGED cache
    BY <2>1 DEF Capture
  <2>6. cache'[Item.seq] = cache[Item.seq]  BY <1>0, <2>4, <2>5 DEF TypeOK
  <2>7. pipe \in Seq(Items)  BY <1>0 DEF TypeOK
  <2>8. pipe' = pipe \/ \E i \in Items : pipe' = Append(pipe, i)
    <3>1. [seq |-> nextSeq, pt |-> NoPt] \in Items  BY <1>0, <2>1, LineCapture
    <3> QED  BY <2>1, <3>1 DEF Capture
  <2>9. pipe' # <<>> /\ Item' = Item  BY <2>3, <2>7, <2>8 DEF Item
  <2> QED  BY <1>a, <2>2, <2>6, <2>9
<1>6. CASE PopActions  BY <1>6, PopShape DEF Idle
<1>7. CASE TagActions
  <2>1. /\ pipe # <<>> /\ Snap # NoSave /\ Tag /\ UNCHANGED <<pipe, cache>>
        /\ tick'.snap = Snap
    BY <1>7, TagShape
  <2>2. sidecar'[Item.seq] = Snap.pt  BY <1>0, <2>1, TagType
  <2>3. Item' = Item  BY <2>1 DEF Item
  <2>4. Snap' = Snap  BY <2>1, <2>3 DEF Snap
  <2> QED  BY <2>1, <2>2, <2>3, <2>4
<1>8. CASE OutActions  BY <1>8, OutShape DEF ForgetAll, Idle
<1> QED
  BY <1>1, <1>2, <1>3, <1>4, <1>5, <1>6, <1>7, <1>8, NextByKind

LEMMA ShapeStep == Shape /\ [Next]_vars => Shape'
BY TypeStep, RestingStep, InOrderStep, AtWorkStep DEF Shape

-----------------------------------------------------------------------------
(* Nothing is lost.                                                        *)

\* What is recorded or passed over stays so, and so does what it covers.
LEMMA CoveredKept ==
    ASSUME NEW s, NEW R1, NEW K1, NEW R2, NEW K2,
           R1 \subseteq R2, K1 \subseteq K2, Covered(s, R1, K1)
    PROVE  Covered(s, R2, K2)
BY DEF Covered

\* rows and skipped only grow.
LEMMA OnlyGrow == [Next]_vars => rows \subseteq rows' /\ skipped \subseteq skipped'
<1> USE DEF gameVars, storeVars
<1>1. Quiet => rows \subseteq rows' /\ skipped \subseteq skipped'
  BY DEF Quiet, GameSaves, Track, Stop, Arm, IngestEvents, Persist
<1>2. Boot \/ Seed \/ PutSeed \/ PutHand => rows' = rows /\ skipped' = skipped
  BY DEF Boot, Seed, PutSeed, PutHand
<1>3. WatchSave \/ WatchOldRead => rows' = rows /\ skipped' = skipped
  BY DEF WatchSave, WatchOldRead, Capture
<1>4. PopActions => rows' = rows /\ skipped' = skipped
  BY DEF PopActions, ConsumeSkip, ConsumeDrop, Finish, TickRaises
<1>5. TagActions => rows' = rows /\ skipped \subseteq skipped'
  BY DEF TagActions, AutoImport, Adopt, ConsumeBegin, ConsumeSilent
<1>6. OutActions => rows' = rows /\ skipped' = skipped
  BY DEF OutActions, Stopped, Crash, CrashInDelete, ForgetAll
<1>7. UNCHANGED vars => rows' = rows /\ skipped' = skipped  BY DEF vars
<1> QED  BY <1>1, <1>2, <1>3, <1>4, <1>5, <1>6, <1>7, NextByKind

LEMMA NothingLostMeans ==
    NothingLost <=> (baseFile # NoSave => Covered(baseFile, rows, skipped))
BY DEF NothingLost, Covered, Recorded

Lossless == NothingLost /\ Accounted

LEMMA LosslessStep == Shape /\ Lossless /\ [Next]_vars => Lossless'
<1> SUFFICES ASSUME Shape, Lossless, [Next]_vars
             PROVE  /\ baseFile' # NoSave => Covered(baseFile', rows', skipped')
                    /\ last' # NoSave => Covered(last', rows', skipped')
                    /\ tick'.at \in {"imported", "stored", "saved"} =>
                         Covered(tick'.snap, rows', skipped')
                    /\ tick'.at = "diffed" =>
                         /\ last' # NoSave /\ tick'.snap.pt = last'.pt
                         /\ tick'.snap.date > last'.date
  BY DEF Lossless, NothingLost, Accounted, Covered, Recorded, Candidate
<1>0. TypeOK /\ Resting /\ InOrder /\ AtWork  BY DEF Shape
<1>a. /\ baseFile # NoSave => Covered(baseFile, rows, skipped)
      /\ last # NoSave => Covered(last, rows, skipped)
      /\ tick.at \in {"imported", "stored", "saved"} => Covered(tick.snap, rows, skipped)
      /\ tick.at = "diffed" => /\ last # NoSave /\ tick.snap.pt = last.pt
                               /\ tick.snap.date > last.date
  BY NothingLostMeans DEF Lossless, Accounted, Candidate
<1>b. /\ baseFile # NoSave => Covered(baseFile, rows', skipped')
      /\ last # NoSave => Covered(last, rows', skipped')
      /\ tick.at \in {"imported", "stored", "saved"} => Covered(tick.snap, rows', skipped')
  BY <1>a, OnlyGrow, CoveredKept
<1> USE DEF gameVars, storeVars, procVars
<1>1. CASE UNCHANGED <<baseFile, last, tick>>  BY <1>1, <1>a, <1>b
<1>2. CASE UNCHANGED vars  BY <1>1, <1>2 DEF vars
<1>3. CASE Quiet
  <2>1. CASE GameSaves \/ Track \/ Stop \/ Arm
    BY <1>1, <2>1 DEF GameSaves, Track, Stop, Arm
  <2>2. CASE IngestEvents
    <3>1. tick.at = "diffed" /\ UNCHANGED <<baseFile, last>>  BY <2>2 DEF IngestEvents
    <3>2. tick'.at = "stored" /\ tick'.snap = tick.snap
      BY <1>0, <2>2 DEF IngestEvents, TypeOK
    <3>3. tick.snap \in Saves /\ last \in Saves  BY <1>0, <1>a, <3>1 DEF TypeOK
    <3>4. tick.snap.date \in Dates /\ last.date \in Dates  BY <3>3 DEF Saves
    <3>5. Covered(tick.snap, rows', skipped')
      <4> SUFFICES ASSUME NEW h \in 1..tick.snap.date
                   PROVE  \/ \E r \in rows' : r.pt = tick.snap.pt /\ r.hap = h
                          \/ [pt |-> tick.snap.pt, hap |-> h] \in skipped'
        BY DEF Covered
      <4>1. h \in Dates /\ last.date \in Nat /\ h \in Nat
        BY <3>4, SaveTailAssumption DEF Dates
      <4>2. CASE h <= last.date
        <5>1. h \in 1..last.date  BY <4>1, <4>2
        <5> QED  BY <1>a, <1>b, <3>1, <5>1 DEF Covered
      <4>3. CASE last.date < h
        <5> DEFINE r == [pt |-> tick.snap.pt, hap |-> h, stamp |-> tick.snap.date]
        <5>1. h <= tick.snap.date  BY <3>4, <4>1 DEF Dates
        <5>2. r \in Found(last, tick.snap)  BY <4>1, <4>3, <5>1 DEF Found, Happened
        <5>3. r.pt = tick.snap.pt /\ r.hap = h  OBVIOUS
        <5> HIDE DEF r
        <5>4. PICK bad \in SUBSET Found(last, tick.snap) :
                /\ rows' = rows \cup (Found(last, tick.snap) \ bad)
                /\ skipped' = skipped \cup {[pt |-> q.pt, hap |-> q.hap] : q \in bad}
          BY <2>2 DEF IngestEvents
        <5>5. CASE r \in bad
          <6>1. [pt |-> r.pt, hap |-> r.hap] \in skipped'  BY <5>4, <5>5
          <6> QED  BY <5>3, <6>1
        <5>6. CASE r \notin bad
          <6>1. r \in rows'  BY <5>2, <5>4, <5>6
          <6> QED  BY <5>3, <6>1
        <5> QED  BY <5>5, <5>6
      <4> QED  BY <4>1, <4>2, <4>3
    <3> QED  BY <1>b, <3>1, <3>2, <3>5
  <2>3. CASE Persist
    <3>1. tick.at \in {"stored", "imported"} /\ UNCHANGED last  BY <2>3 DEF Persist
    <3>2. tick'.at = "saved" /\ tick'.snap = tick.snap  BY <1>0, <2>3 DEF Persist, TypeOK
    <3>3. baseFile' \in {baseFile, tick.snap}  BY <2>3 DEF Persist
    <3>4. Covered(tick.snap, rows', skipped')  BY <1>b, <3>1
    <3> QED  BY <1>b, <3>1, <3>2, <3>3, <3>4
  <2> QED  BY <1>3, <2>1, <2>2, <2>3 DEF Quiet
<1>4. CASE Boot  BY <1>1, <1>4 DEF Boot
<1>5. CASE Seed
  <2>1. UNCHANGED <<baseFile, tick>> /\ last' \in {NoSave, baseFile} /\ phase = "verify"
    BY <1>5 DEF Seed
  <2>2. tick.at = "idle"  BY <1>0, <2>1 DEF Resting, Idle
  <2> QED  BY <1>b, <2>1, <2>2
<1>6. CASE PutSeed \/ PutHand  BY <1>1, <1>6 DEF PutSeed, PutHand
<1>7. CASE WatchSave \/ WatchOldRead  BY <1>1, <1>7 DEF WatchSave, WatchOldRead, Capture
<1>8. CASE PopActions
  <2>1. /\ tick' = Idle /\ baseFile' = baseFile
        /\ last' = last \/ (last' = tick.snap /\ tick.at = "saved")
    BY <1>8, PopShape
  <2>2. tick'.at = "idle"  BY <2>1 DEF Idle
  <2> QED  BY <1>b, <2>1, <2>2
<1>9. CASE TagActions
  <2>1. /\ pipe # <<>> /\ Snap # NoSave /\ Tag /\ UNCHANGED <<baseFile, rows>>
        /\ tick' = [at |-> IF AutoImport THEN "imported" ELSE
                           IF ConsumeBegin THEN "diffed" ELSE "stored", snap |-> Snap]
    BY <1>9, TagShape
  <2>2. Snap \in Saves /\ Snap.date \in Dates  BY <1>0, <2>1, TagType
  <2>3. tick'.snap = Snap  BY <2>1
  <2>4. CASE AutoImport \/ Adopt
    <3>1. skipped' = skipped \cup {[pt |-> Snap.pt, hap |-> h] : h \in 1..Snap.date}
      BY <2>4 DEF AutoImport, Adopt
    <3>2. Covered(Snap, rows', skipped')  BY <3>1 DEF Covered
    <3>3. last' \in {last, Snap}  BY <2>4 DEF AutoImport, Adopt
    <3>4. tick'.at # "diffed"  BY <2>4 DEF AutoImport, Adopt
    <3> QED  BY <1>b, <2>1, <2>3, <3>2, <3>3, <3>4
  <2>5. CASE ConsumeBegin
    <3>1. tick'.at = "diffed" /\ last' = last /\ last # NoSave /\ Candidate(Snap)
      BY <2>5 DEF ConsumeBegin
    <3> QED  BY <1>b, <2>1, <2>3, <3>1 DEF Candidate
  <2>6. CASE ConsumeSilent
    <3>1. /\ tick'.at = "stored" /\ last' = last /\ last # NoSave
          /\ Snap.pt = last.pt /\ Snap.date > last.date
          /\ skipped' = skipped \cup {[pt |-> Snap.pt, hap |-> h] : h \in Happened(last, Snap)}
      BY <2>6 DEF ConsumeSilent, Candidate
    <3>2. last.date \in Dates
      <4>1. last \in Saves  BY <1>0, <3>1 DEF TypeOK
      <4> QED  BY <4>1 DEF Saves
    <3>3. Covered(Snap, rows', skipped')
      <4> SUFFICES ASSUME NEW h \in 1..Snap.date
                   PROVE  \/ \E r \in rows' : r.pt = Snap.pt /\ r.hap = h
                          \/ [pt |-> Snap.pt, hap |-> h] \in skipped'
        BY DEF Covered
      <4>1. h \in Dates /\ last.date \in Nat /\ h \in Nat /\ h <= Snap.date
        BY <2>2, <3>2, SaveTailAssumption DEF Dates
      <4>2. CASE h <= last.date
        <5>1. h \in 1..last.date  BY <4>1, <4>2
        <5> QED  BY <1>b, <3>1, <5>1 DEF Covered
      <4>3. CASE last.date < h
        <5>1. h \in Happened(last, Snap)  BY <4>1, <4>3 DEF Happened
        <5> QED  BY <3>1, <5>1
      <4> QED  BY <4>1, <4>2, <4>3
    <3> QED  BY <1>b, <2>1, <2>3, <3>1, <3>3
  <2> QED  BY <1>9, <2>4, <2>5, <2>6 DEF TagActions
<1>10. CASE OutActions
  <2>1. last' = NoSave /\ tick' = Idle /\ baseFile' = baseFile  BY <1>10, OutShape DEF ForgetAll
  <2>2. tick'.at = "idle"  BY <2>1 DEF Idle
  <2> QED  BY <1>b, <2>1, <2>2
<1> QED
  BY <1>2, <1>3, <1>4, <1>5, <1>6, <1>7, <1>8, <1>9, <1>10, NextByKind

-----------------------------------------------------------------------------
(* A pinned campaign takes in no other playthrough.                        *)

Pure == OnePlaythrough /\ OwnOnly

LEMMA PureStep == Shape /\ Lossless /\ Pure /\ [Next]_vars => Pure'
<1> SUFFICES ASSUME Shape, Lossless, Pure, [Next]_vars, Pin # NoPt
             PROVE  /\ \A r \in rows' : r.pt = Pin
                    /\ baseFile' = NoSave \/ baseFile'.pt = Pin
                    /\ pin' = Pin
                    /\ verified' = NoSave \/ verified'.pt = Pin
                    /\ last' = NoSave \/ last'.pt = Pin
                    /\ tick'.at # "idle" => tick'.snap.pt = Pin
  BY DEF Pure, OnePlaythrough, OwnOnly
<1>0. TypeOK /\ Resting /\ InOrder /\ AtWork  BY DEF Shape
<1>a. /\ \A r \in rows : r.pt = Pin
      /\ baseFile = NoSave \/ baseFile.pt = Pin
      /\ pin = Pin
      /\ verified = NoSave \/ verified.pt = Pin
      /\ last = NoSave \/ last.pt = Pin
      /\ tick.at # "idle" => tick.snap.pt = Pin
  BY DEF Pure, OnePlaythrough, OwnOnly
<1> USE DEF gameVars, storeVars, procVars
<1>1. CASE UNCHANGED vars  BY <1>1, <1>a DEF vars
<1>2. CASE Quiet
  <2>1. CASE GameSaves \/ Track \/ Stop \/ Arm
    BY <1>a, <2>1 DEF GameSaves, Track, Stop, Arm
  <2>2. CASE IngestEvents
    <3>1. tick.at # "idle" /\ tick'.snap = tick.snap /\ UNCHANGED <<baseFile, pin, verified, last>>
      BY <1>0, <2>2 DEF IngestEvents, TypeOK
    <3>2. \A r \in Found(last, tick.snap) : r.pt = Pin  BY <1>a, <3>1 DEF Found
    <3>3. \A r \in rows' : r.pt = Pin  BY <1>a, <2>2, <3>2 DEF IngestEvents
    <3> QED  BY <1>a, <3>1, <3>3
  <2>3. CASE Persist
    <3>1. /\ tick.at # "idle" /\ tick'.snap = tick.snap
          /\ UNCHANGED <<pin, rows, verified, last>>
          /\ baseFile' \in {baseFile, tick.snap}
      BY <1>0, <2>3 DEF Persist, TypeOK
    <3> QED  BY <1>a, <3>1
  <2> QED  BY <1>2, <2>1, <2>2, <2>3 DEF Quiet
<1>3. CASE Boot
  <2>1. verified' = NoSave \/ verified'.pt = Pin
    BY <1>a, <1>3 DEF Boot, Verified, Mismatch
  <2> QED  BY <1>a, <1>3, <2>1 DEF Boot
<1>4. CASE Seed
  <2>1. UNCHANGED <<baseFile, pin, rows, verified, tick>> /\ last' \in {NoSave, baseFile}
    BY <1>4 DEF Seed
  <2> QED  BY <1>a, <2>1
<1>5. CASE PutSeed \/ PutHand  BY <1>a, <1>5 DEF PutSeed, PutHand
<1>6. CASE WatchSave \/ WatchOldRead  BY <1>a, <1>6 DEF WatchSave, WatchOldRead, Capture
<1>7. CASE PopActions
  <2>1. /\ tick' = Idle /\ UNCHANGED <<baseFile, pin, rows>> /\ PopItem
        /\ last' = last \/ (last' = tick.snap /\ tick.at = "saved")
    BY <1>7, PopShape
  <2>2. tick'.at = "idle" /\ verified' = verified  BY <2>1 DEF Idle, PopItem
  <2> QED  BY <1>a, <2>1, <2>2
<1>8. CASE TagActions
  <2>1. /\ tick'.snap = Snap /\ UNCHANGED <<baseFile, rows, verified>>
    BY <1>8, TagShape
  <2>2. Snap.pt = Pin
    BY <1>8, <1>a
    DEF TagActions, AutoImport, Adopt, ConsumeBegin, ConsumeSilent, Bootstrap, Mismatch, Candidate
  <2>3. last' \in {last, Snap} /\ pin' \in {pin, Snap.pt}
    BY <1>8 DEF TagActions, AutoImport, Adopt, ConsumeBegin, ConsumeSilent
  <2> QED  BY <1>a, <2>1, <2>2, <2>3
<1>9. CASE OutActions
  <2>1. /\ last' = NoSave /\ verified' = NoSave /\ tick' = Idle
        /\ UNCHANGED <<baseFile, pin, rows>>
    BY <1>9, OutShape DEF ForgetAll
  <2>2. tick'.at = "idle"  BY <2>1 DEF Idle
  <2> QED  BY <1>a, <2>1, <2>2
<1> QED
  BY <1>1, <1>2, <1>3, <1>4, <1>5, <1>6, <1>7, <1>8, <1>9, NextByKind

-----------------------------------------------------------------------------
(* Nothing is recorded twice.                                              *)

\* A fault that mars the behaviour mars it for good.
LEMMA SoundBefore == [Next]_vars /\ Sound' => Sound
<1> USE DEF gameVars, storeVars, procVars
<1> SUFFICES ASSUME [Next]_vars, ~marred'  PROVE ~marred
  BY DEF Sound
<1>1. Quiet => ~marred
  BY DEF Quiet, GameSaves, Track, Stop, Arm, IngestEvents, Persist, Mars
<1>2. Seed => ~marred  BY DEF Seed
<1>3. Boot \/ PutSeed \/ PutHand => ~marred  BY DEF Boot, PutSeed, PutHand
<1>4. WatchSave \/ WatchOldRead => ~marred  BY DEF WatchSave, WatchOldRead, Capture
<1>5. PopActions => ~marred
  BY DEF PopActions, ConsumeSkip, ConsumeDrop, Finish, TickRaises, Mars
<1>6. TagActions => ~marred
  BY DEF TagActions, AutoImport, Adopt, ConsumeBegin, ConsumeSilent
<1>7. OutActions => ~marred  BY DEF OutActions, Stopped, Crash, CrashInDelete, ForgetAll
<1>8. UNCHANGED vars => ~marred  BY DEF vars
<1> QED  BY <1>1, <1>2, <1>3, <1>4, <1>5, <1>6, <1>7, <1>8, NextByKind

Whole == Shape /\ Lossless /\ Pure
Once  == Follows /\ TagsOwn /\ Behind /\ Redo /\ RecordedOnce

\* A file stays harmless while the baseline only moves forward.
LEMMA HarmlessKept ==
    ASSUME TypeOK, NEW j \in Seqs, Harmless(j), cache'[j] \in {cache[j], NoSave},
           \/ baseFile' = baseFile
           \/ /\ baseFile' # NoSave /\ baseFile' \in Saves
              /\ baseFile = NoSave \/ baseFile.date <= baseFile'.date
    PROVE  Harmless(j)'
<1>1. CASE cache[j] = NoSave \/ cache'[j] = NoSave \/ cache[j].pt # Pin
  BY <1>1 DEF Harmless
<1>2. CASE cache'[j] = cache[j] /\ cache[j] # NoSave /\ cache[j].pt = Pin
  <2>1. baseFile # NoSave /\ cache[j].date <= baseFile.date  BY <1>2 DEF Harmless
  <2>2. cache[j] \in Saves /\ baseFile \in Saves  BY <1>2, <2>1 DEF TypeOK
  <2>3. cache[j].date \in Int /\ baseFile.date \in Int
    BY <2>2, SaveTailAssumption DEF Saves, Dates
  <2>4. CASE baseFile' = baseFile  BY <1>2, <2>1, <2>4 DEF Harmless
  <2>5. CASE baseFile' # NoSave /\ baseFile' \in Saves /\ baseFile.date <= baseFile'.date
    <3>1. baseFile'.date \in Int  BY <2>5, SaveTailAssumption DEF Saves, Dates
    <3> QED  BY <1>2, <2>1, <2>3, <2>5, <3>1 DEF Harmless
  <2> QED  BY <2>1, <2>4, <2>5
<1> QED  BY <1>1, <1>2

\* The head of the line has the lowest number in it.
LEMMA HeadLowest ==
    ASSUME TypeOK, InOrder, pipe # <<>>, NEW k \in InLine
    PROVE  k \in Seqs /\ k \in protected /\ (k = Item.seq \/ Item.seq < k)
<1>1. PICK n \in 1..Len(Line) : k = Line[n].seq  BY DEF InLine
<1>2. 1 \in 1..Len(Line) /\ Line[1] = Item  BY LineHead
<1>3. k \in Seqs /\ k \in protected  BY <1>1, LineNumbers DEF InOrder
<1>4. n = 1 \/ 1 < n  OBVIOUS
<1> QED  BY <1>1, <1>2, <1>3, <1>4 DEF InOrder

\* A pop takes only the head out of the line.
LEMMA InLinePop ==
    ASSUME TypeOK, pipe # <<>>, PopItem, NEW k \in InLine
    PROVE  k = Item.seq \/ k \in InLine'
<1>1. PICK n \in 1..Len(Line) : k = Line[n].seq  BY DEF InLine
<1>2. Len(Line) \in Nat \ {0} /\ Line[1] = Item  BY LineHead
<1>3. /\ Len(Line') = Len(Line) - 1
      /\ \A i \in 1..Len(Line') : Line'[i] = Line[i + 1]
  BY LinePop
<1>4. CASE n = 1  BY <1>1, <1>2, <1>4
<1>5. CASE n # 1
  <2>1. n - 1 \in 1..Len(Line') /\ (n - 1) + 1 = n  BY <1>2, <1>3, <1>5
  <2>2. Line'[n - 1] = Line[n]  BY <1>3, <2>1
  <2> QED  BY <1>1, <2>1, <2>2 DEF InLine
<1> QED  BY <1>4, <1>5

\* A capture takes nothing out of the line and adds what it cached.
LEMMA InLineCapture ==
    ASSUME TypeOK, Resting, NEW s \in Saves \cup {NoSave}, Capture(s)
    PROVE  /\ InLine \subseteq InLine' /\ nextSeq \in Seqs
           /\ \/ UNCHANGED cache
              \/ cache' = [cache EXCEPT ![nextSeq] = s] /\ nextSeq \in InLine'
<1> DEFINE item == [seq |-> nextSeq, pt |-> NoPt]
<1>1. /\ nextSeq \in Seqs /\ item \in Items
      /\ \/ Line' = Append(Line, item) /\ cache' = [cache EXCEPT ![nextSeq] = s]
         \/ Line' = Line /\ UNCHANGED cache
  BY LineCapture
<1>2. item.seq = nextSeq  OBVIOUS
<1> HIDE DEF item
<1>3. Line \in Seq(Items)  BY LineType
<1>4. CASE Line' = Line /\ UNCHANGED cache  BY <1>1, <1>4 DEF InLine
<1>5. CASE Line' = Append(Line, item) /\ cache' = [cache EXCEPT ![nextSeq] = s]
  <2>1. /\ Len(Line) \in Nat /\ Len(Line') = Len(Line) + 1
        /\ \A n \in 1..Len(Line) : Line'[n] = Line[n]
        /\ Line'[Len(Line) + 1] = item
    BY <1>1, <1>3, <1>5
  <2>2. \A n \in 1..Len(Line) : n \in 1..Len(Line')  BY <2>1
  <2>3. Len(Line) + 1 \in 1..Len(Line')  BY <2>1
  <2>4. InLine \subseteq InLine'  BY <2>1, <2>2 DEF InLine
  <2>5. nextSeq \in InLine'  BY <1>2, <2>1, <2>3 DEF InLine
  <2> QED  BY <1>1, <1>5, <2>4, <2>5
<1> QED  BY <1>1, <1>4, <1>5

LEMMA InLineSame == Line' = Line => InLine' = InLine
BY DEF InLine

\* A pinned campaign never discards its baseline, so its startup drops only
\* files tagged for another playthrough.
LEMMA NoDiscard ==
    ASSUME Pure, Sound
    PROVE  /\ ~DiscardBaseline /\ Start = baseFile /\ Dropped = Foreign
           /\ Start # NoSave => Start.pt = Pin
           /\ \A stuck : Left(stuck) = Files \ Foreign
<1>1. ~DiscardBaseline
  BY DEF Pure, OwnOnly, OnePlaythrough, Sound, DiscardBaseline
<1>2. Start = baseFile /\ Dropped = Foreign /\ \A stuck : Left(stuck) = Files \ Foreign
  BY <1>1 DEF Start, Dropped, Left
<1>3. baseFile # NoSave => baseFile.pt = Pin  BY DEF Pure, OnePlaythrough, Sound
<1> QED  BY <1>1, <1>2, <1>3

\* What the process is done with, in an unmarred behaviour, has nothing left to
\* give: it is no save, of another playthrough, or not past the baseline.
LEMMA ItemSpent ==
    ASSUME Whole, Sound, Follows, pipe # <<>>,
           \/ Snap = NoSave
           \/ last = NoSave /\ Mismatch(Snap.pt)
           \/ Parsed /\ last # NoSave /\ ~Candidate(Snap)
           \/ tick.at = "saved"
    PROVE  Harmless(Item.seq)
<1>0. TypeOK /\ AtWork /\ Pure /\ Shape  BY DEF Whole, Shape
<1>1. Item.seq \in Seqs /\ Snap \in Saves \cup {NoSave}  BY <1>0, SnapType
<1>2. CASE Snap = NoSave  BY <1>2 DEF Snap, Harmless
<1>3. CASE last = NoSave /\ Mismatch(Snap.pt)
  BY <1>0, <1>3 DEF Pure, OwnOnly, Sound, Mismatch, Snap, Harmless
<1>4. CASE Parsed /\ last # NoSave /\ ~Candidate(Snap)
  <2>1. baseFile = last /\ last.pt = Pin
    BY <1>0, <1>4 DEF Follows, Parsed, Ready, Idle, Pure, OwnOnly, Sound
  <2>2. Snap \in Saves /\ last \in Saves  BY <1>0, <1>1, <1>4 DEF Parsed, TypeOK
  <2>3. Snap.date \in Int /\ last.date \in Int
    BY <2>2, SaveTailAssumption DEF Saves, Dates
  <2>4. Snap.pt # Pin \/ Snap.date <= last.date  BY <1>4, <2>1, <2>3 DEF Candidate
  <2> QED  BY <1>4, <2>1, <2>4 DEF Harmless, Snap
<1>5. CASE tick.at = "saved"
  <2>1. baseFile = Snap /\ Snap # NoSave  BY <1>0, <1>5 DEF Follows, AtWork
  <2>2. Snap \in Saves  BY <1>1, <2>1
  <2>3. Snap.date \in Int  BY <2>2, SaveTailAssumption DEF Saves, Dates
  <2> QED  BY <2>1, <2>3 DEF Harmless, Snap
<1> QED  BY <1>2, <1>3, <1>4, <1>5

LEMMA PopSpent ==
    ASSUME Whole, Follows, TagsOwn, Sound, Sound', PopActions
    PROVE  /\ Harmless(Item.seq)
           /\ ConsumeSkip \/ ConsumeDrop \/ Finish
<1>0. TypeOK /\ Shape /\ Pure  BY DEF Whole, Shape
<1>1. pipe # <<>>  BY <1>0, PopShape
<1>2. ~TickRaises  BY DEF TickRaises, Mars, Sound
<1>3. CASE ConsumeSkip
  <2>1. \/ SidecarForeign
        \/ Snap = NoSave
        \/ last = NoSave /\ Mismatch(Snap.pt)
    BY <1>3 DEF ConsumeSkip, Mars, Sound
  <2>2. ~SidecarForeign
    <3>1. 1 \in 1..Len(Line) /\ Line[1] = Item  BY <1>0, <1>1, LineHead
    <3>2. Item.pt \in {NoPt, Pin}  BY <3>1 DEF TagsOwn
    <3> QED  BY <1>0, <3>2 DEF SidecarForeign, Pure, OwnOnly, Sound
  <2> QED  BY <1>1, <1>3, <2>1, <2>2, ItemSpent
<1>4. CASE ConsumeDrop  BY <1>1, <1>4, ItemSpent DEF ConsumeDrop
<1>5. CASE Finish  BY <1>1, <1>5, ItemSpent DEF Finish
<1> QED  BY <1>2, <1>3, <1>4, <1>5 DEF PopActions

LEMMA CrashSpent ==
    ASSUME Whole, Follows, Sound, CrashInDelete
    PROVE  Harmless(Item.seq) /\ baseFile # NoSave
<1>0. Shape /\ Resting  BY DEF Whole, Shape
<1>1. pipe # <<>> /\ (tick.at = "saved" \/ (Parsed /\ last # NoSave /\ ~Candidate(Snap)))
  BY <1>0, HasItem DEF CrashInDelete, Parsed
<1>2. Harmless(Item.seq)  BY <1>1, ItemSpent
<1>3. CASE tick.at = "saved"  BY <1>0, <1>2, <1>3 DEF Follows, Shape, AtWork
<1>4. CASE Parsed /\ last # NoSave
  <2>1. baseFile = last  BY <1>0, <1>4 DEF Follows, Parsed, Ready, Idle
  <2> QED  BY <1>2, <1>4, <2>1
<1> QED  BY <1>1, <1>3, <1>4

LEMMA FollowsStep == Whole /\ Once /\ [Next]_vars => Follows'
<1> SUFFICES ASSUME Whole, Once, [Next]_vars, Sound'
             PROVE  /\ phase' \in {"run", "stop"} /\ tick'.at = "idle" => baseFile' = last'
                    /\ tick'.at = "diffed" => baseFile' = last'
                    /\ tick'.at \in {"imported", "stored"} =>
                         \/ baseFile' = NoSave
                         \/ /\ baseFile' = last' /\ tick'.snap.pt = last'.pt
                            /\ tick'.snap.date > last'.date
                    /\ tick'.at = "saved" => baseFile' = tick'.snap
  BY DEF Follows, Candidate
<1>0. Shape /\ TypeOK /\ Resting /\ Accounted /\ Pure /\ Sound
  BY SoundBefore DEF Whole, Shape, Lossless
<1>a. /\ phase \in {"run", "stop"} /\ tick.at = "idle" => baseFile = last
      /\ tick.at = "diffed" => /\ baseFile = last
                               /\ tick.snap.pt = last.pt /\ tick.snap.date > last.date
      /\ tick.at \in {"imported", "stored"} =>
           \/ baseFile = NoSave
           \/ /\ baseFile = last /\ tick.snap.pt = last.pt
              /\ tick.snap.date > last.date
      /\ tick.at = "saved" => baseFile = tick.snap
  BY <1>0 DEF Once, Follows, Accounted, Candidate
<1> USE DEF gameVars, storeVars, procVars
<1>1. CASE UNCHANGED vars  BY <1>1, <1>a DEF vars
<1>2. CASE Quiet
  <2>1. CASE GameSaves \/ Track \/ Stop \/ Arm
    BY <1>a, <2>1 DEF GameSaves, Track, Stop, Arm
  <2>2. CASE IngestEvents
    <3>1. tick.at = "diffed" /\ UNCHANGED <<baseFile, last>>  BY <2>2 DEF IngestEvents
    <3>2. tick'.at = "stored" /\ tick'.snap = tick.snap
      BY <1>0, <2>2 DEF IngestEvents, TypeOK
    <3> QED  BY <1>a, <3>1, <3>2
  <2>3. CASE Persist
    <3>1. tick'.at = "saved" /\ tick'.snap = tick.snap  BY <1>0, <2>3 DEF Persist, TypeOK
    <3>2. baseFile' = tick.snap  BY <2>3 DEF Persist, Mars, Sound
    <3> QED  BY <3>1, <3>2
  <2> QED  BY <1>2, <2>1, <2>2, <2>3 DEF Quiet
<1>3. CASE Boot
  <2>1. phase = "down" /\ phase' = "verify" /\ tick' = tick  BY <1>3 DEF Boot
  <2>2. tick'.at = "idle"  BY <1>0, <2>1 DEF Resting, Idle
  <2> QED  BY <2>1, <2>2
<1>4. CASE Seed
  <2>1. phase = "verify" /\ UNCHANGED <<baseFile, tick>> /\ last' = Start
    BY <1>4 DEF Seed, Start
  <2>2. tick'.at = "idle"  BY <1>0, <2>1 DEF Resting, Idle
  <2>3. last' = baseFile'  BY <1>0, <2>1, NoDiscard
  <2> QED  BY <2>2, <2>3
<1>5. CASE PutSeed \/ PutHand  BY <1>a, <1>5 DEF PutSeed, PutHand
<1>6. CASE WatchSave \/ WatchOldRead  BY <1>a, <1>6 DEF WatchSave, WatchOldRead, Capture
<1>7. CASE PopActions
  <2>1. /\ phase \in {"run", "stop"} /\ tick' = Idle /\ baseFile' = baseFile
    BY <1>0, <1>7, PopShape
  <2>2. tick'.at = "idle"  BY <2>1 DEF Idle
  <2>3. CASE ConsumeSkip \/ ConsumeDrop
    <3>1. tick = Idle /\ last' = last  BY <2>3 DEF ConsumeSkip, ConsumeDrop, Parsed, Ready
    <3>2. tick.at = "idle"  BY <3>1 DEF Idle
    <3> QED  BY <1>a, <2>1, <2>2, <3>1, <3>2
  <2>4. CASE Finish
    <3>1. tick.at = "saved" /\ last' = tick.snap  BY <2>4 DEF Finish
    <3> QED  BY <1>a, <2>1, <2>2, <3>1
  <2> QED  BY <1>0, <1>7, <2>3, <2>4, PopSpent DEF Once
<1>8. CASE TagActions
  <2>1. /\ Parsed /\ tick'.snap = Snap /\ UNCHANGED baseFile
        /\ tick' = [at |-> IF AutoImport THEN "imported" ELSE
                           IF ConsumeBegin THEN "diffed" ELSE "stored", snap |-> Snap]
    BY <1>0, <1>8, TagShape
  <2>2. baseFile = last  BY <1>a, <2>1 DEF Parsed, Ready, Idle
  <2>3. CASE AutoImport \/ Adopt
    <3>1. last = NoSave  BY <2>3 DEF AutoImport, Adopt, Bootstrap
    <3>2. tick'.at \in {"imported", "stored"}  BY <2>3 DEF AutoImport, Adopt
    <3> QED  BY <2>1, <2>2, <3>1, <3>2
  <2>4. CASE ConsumeBegin \/ ConsumeSilent
    <3>1. last' = last /\ Snap.pt = last.pt /\ Snap.date > last.date
      BY <2>4 DEF ConsumeBegin, ConsumeSilent, Candidate
    <3>2. tick'.at \in {"diffed", "stored"}  BY <2>4 DEF ConsumeBegin, ConsumeSilent
    <3> QED  BY <2>1, <2>2, <3>1, <3>2
  <2> QED  BY <1>8, <2>3, <2>4 DEF TagActions
<1>9. CASE OutActions
  <2>1. phase' = "down" /\ tick' = Idle  BY <1>0, <1>9, OutShape DEF ForgetAll
  <2>2. tick'.at = "idle"  BY <2>1 DEF Idle
  <2> QED  BY <2>1, <2>2
<1> QED
  BY <1>1, <1>2, <1>3, <1>4, <1>5, <1>6, <1>7, <1>8, <1>9, NextByKind

LEMMA TagsOwnStep == Whole /\ Once /\ [Next]_vars => TagsOwn'
<1> SUFFICES ASSUME Whole, Once, [Next]_vars, Sound'
             PROVE  /\ baseFile' = NoSave => \A k \in Seqs : sidecar'[k] \in {NoPt, Pin}
                    /\ \A n \in 1..Len(Line') : Line'[n].pt \in {NoPt, Pin}
  BY DEF TagsOwn
<1>0. Shape /\ TypeOK /\ Resting /\ InOrder /\ AtWork /\ Pure /\ Sound
  BY SoundBefore DEF Whole, Shape
<1>a. /\ baseFile = NoSave => \A k \in Seqs : sidecar[k] \in {NoPt, Pin}
      /\ \A n \in 1..Len(Line) : Line[n].pt \in {NoPt, Pin}
  BY <1>0 DEF Once, TagsOwn
<1> USE DEF gameVars, storeVars, procVars
<1>1. CASE UNCHANGED <<pipe, seeds, hand, sidecar, baseFile>>
  <2>1. Line' = Line  BY <1>1, LineSame
  <2> QED  BY <1>1, <1>a, <2>1
<1>2. CASE UNCHANGED vars  BY <1>1, <1>2 DEF vars
<1>3. CASE Quiet
  <2>1. CASE GameSaves \/ Track \/ Stop \/ Arm \/ IngestEvents
    BY <1>1, <2>1 DEF GameSaves, Track, Stop, Arm, IngestEvents
  <2>2. CASE Persist
    <3>1. Line' = Line  BY <2>2, LineSame DEF Persist
    <3>2. baseFile' = tick.snap /\ tick.at # "idle"  BY <2>2 DEF Persist, Mars, Sound
    <3>3. baseFile' # NoSave  BY <1>0, <3>2 DEF AtWork
    <3> QED  BY <1>a, <3>1, <3>3
  <2> QED  BY <1>3, <2>1, <2>2 DEF Quiet
<1>4. CASE Boot  BY <1>1, <1>4 DEF Boot
<1>5. CASE Seed
  <2>1. PICK stuck \in SUBSET Dropped, new \in SUBSET Seqs :
          Left(stuck) \in SUBSET Files /\ Seeded(stuck, new)
    BY <1>0, <1>5, SeedShape
  <2>2. baseFile' = baseFile  BY <1>5 DEF Seed
  <2>3. \A k \in Seqs : sidecar'[k] \in {NoPt, sidecar[k]}  BY <2>1 DEF Seeded
  <2>4. /\ Line' = seeds'
        /\ \A n \in 1..Len(seeds') : \/ seeds'[n].pt = NoPt
                                     \/ /\ seeds'[n].seq \in Left(stuck)
                                        /\ seeds'[n].pt = sidecar'[seeds'[n].seq]
    BY <2>1 DEF Seeded
  <2>5. \A k \in Left(stuck) : sidecar[k] \in {NoPt, Pin} /\ k \in Seqs
    BY <1>0, <1>a, NoDiscard DEF Foreign, Files
  <2> QED  BY <1>a, <2>2, <2>3, <2>4, <2>5
<1>6. CASE PutSeed \/ PutHand
  <2>1. Line' = Line  BY <1>0, <1>6, LinePut
  <2>2. UNCHANGED <<sidecar, baseFile>>  BY <1>6 DEF PutSeed, PutHand
  <2> QED  BY <1>a, <2>1, <2>2
<1>7. CASE WatchSave \/ WatchOldRead
  <2>1. PICK s \in Saves \cup {NoSave} : Capture(s)  BY <1>0, <1>7, CaptureStep
  <2>2. UNCHANGED <<sidecar, baseFile>>  BY <2>1 DEF Capture
  <2> DEFINE item == [seq |-> nextSeq, pt |-> NoPt]
  <2>3. item \in Items /\ (Line' = Append(Line, item) \/ Line' = Line)
    BY <1>0, <2>1, LineCapture
  <2>4. item.pt = NoPt  OBVIOUS
  <2> HIDE DEF item
  <2>5. Line \in Seq(Items)  BY <1>0, LineType
  <2>6. \A n \in 1..Len(Line') :
          (n \in 1..Len(Line) /\ Line'[n] = Line[n]) \/ Line'[n] = item
    BY <2>3, <2>5
  <2> QED  BY <1>a, <2>2, <2>4, <2>6
<1>8. CASE PopActions
  <2>1. /\ pipe # <<>> /\ Item.seq \in Seqs
        /\ MarkProcessed({Item.seq}) \/ MarkProcessedAndGc(Item.seq)
        /\ PopItem /\ baseFile' = baseFile
    BY <1>0, <1>8, PopShape
  <2>2. \A j \in Seqs : sidecar'[j] \in {sidecar[j], NoPt}  BY <1>0, <2>1, MarkShape
  <2>3. \A n \in 1..Len(Line') : Line'[n] = Line[n + 1] /\ n + 1 \in 1..Len(Line)
    BY <1>0, <2>1, LinePop
  <2> QED  BY <1>a, <2>1, <2>2, <2>3
<1>9. CASE TagActions
  <2>1. /\ pipe # <<>> /\ Snap # NoSave /\ Tag
        /\ UNCHANGED <<pipe, seeds, hand, baseFile>>
        /\ tick'.snap = Snap /\ tick'.at # "idle"
    BY <1>0, <1>9, TagShape
  <2>2. Line' = Line  BY <2>1, LineSame
  <2>3. Snap.pt = Pin
    <3>1. OwnOnly'  BY PureStep DEF Whole, Pure
    <3> QED  BY <2>1, <3>1 DEF OwnOnly, Sound
  <2>4. \A k \in Seqs : sidecar'[k] \in {sidecar[k], Pin}  BY <1>0, <2>1, <2>3, TagType
  <2> QED  BY <1>a, <2>1, <2>2, <2>4
<1>10. CASE OutActions
  <2>1. pipe' = <<>> /\ seeds' = <<>> /\ hand' = NoItem /\ baseFile' = baseFile
    BY <1>0, <1>10, OutShape DEF ForgetAll
  <2>2. Line' = <<>>  BY <2>1 DEF Line, Held
  <2>3. CASE CrashInDelete
    <3>1. baseFile # NoSave  BY <1>0, <2>3, CrashSpent DEF Once
    <3> QED  BY <2>1, <2>2, <3>1
  <2>4. CASE ~CrashInDelete
    <3>1. UNCHANGED sidecar  BY <1>0, <1>10, <2>4, OutShape
    <3> QED  BY <1>a, <2>1, <2>2, <3>1
  <2> QED  BY <2>3, <2>4
<1> QED
  BY <1>2, <1>3, <1>4, <1>5, <1>6, <1>7, <1>8, <1>9, <1>10, NextByKind

LEMMA BehindStep == Whole /\ Once /\ [Next]_vars => Behind'
<1> SUFFICES ASSUME Whole, Once, [Next]_vars, Sound', phase' \in {"run", "stop"},
                    NEW j \in Files' \ InLine'
             PROVE  Harmless(j)'
  BY DEF Behind
<1>0. Shape /\ TypeOK /\ Resting /\ InOrder /\ AtWork /\ Pure /\ Sound
  BY SoundBefore DEF Whole, Shape
<1>a. phase \in {"run", "stop"} => \A k \in Files \ InLine : Harmless(k)
  BY <1>0 DEF Once, Behind
<1>b. j \in Seqs /\ cache'[j] # NoSave  BY DEF Files
<1> USE DEF gameVars, storeVars, procVars
<1>1. CASE UNCHANGED <<pipe, seeds, hand, cache, baseFile>> /\ phase \in {"run", "stop"}
  <2>1. InLine' = InLine  BY <1>1, LineSame, InLineSame
  <2>2. Harmless(j)  BY <1>1, <1>a, <2>1 DEF Files
  <2> QED  BY <1>0, <1>1, <1>b, <2>2, HarmlessKept
<1>2. CASE UNCHANGED vars  BY <1>1, <1>2 DEF vars
<1>3. CASE Quiet
  <2>1. CASE GameSaves \/ Track \/ Stop \/ Arm \/ IngestEvents
    BY <1>1, <2>1 DEF GameSaves, Track, Stop, Arm, IngestEvents
  <2>2. CASE Persist
    <3>1. UNCHANGED <<pipe, seeds, hand, cache, phase>>  BY <2>2 DEF Persist
    <3>2. InLine' = InLine  BY <3>1, LineSame, InLineSame
    <3>3. Harmless(j)  BY <1>a, <3>1, <3>2 DEF Files
    <3>4. baseFile' = tick.snap /\ tick.at \in {"stored", "imported"}
      BY <2>2 DEF Persist, Mars, Sound
    <3>5. baseFile' # NoSave /\ baseFile' \in Saves  BY <1>0, <3>4 DEF AtWork, TypeOK
    <3>6. baseFile = NoSave \/ baseFile.date <= baseFile'.date
      <4>1. baseFile = NoSave \/ (baseFile = last /\ tick.snap.date > last.date)
        BY <1>0, <3>4 DEF Once, Follows, Candidate
      <4>2. ASSUME baseFile # NoSave  PROVE baseFile.date \in Int /\ tick.snap.date \in Int
        <5>1. baseFile \in Saves /\ tick.snap \in Saves  BY <1>0, <3>4, <4>2 DEF TypeOK
        <5> QED  BY <5>1, SaveTailAssumption DEF Saves, Dates
      <4> QED  BY <3>4, <4>1, <4>2
    <3> QED  BY <1>0, <1>b, <3>1, <3>3, <3>5, <3>6, HarmlessKept
  <2> QED  BY <1>3, <2>1, <2>2 DEF Quiet
<1>4. CASE Boot  BY <1>4 DEF Boot
<1>5. CASE Seed
  <2>1. PICK stuck \in SUBSET Dropped, new \in SUBSET Seqs :
          Left(stuck) \in SUBSET Files /\ Seeded(stuck, new)
    BY <1>0, <1>5, SeedShape
  <2>2. /\ cache'[j] = IF j \in new THEN disk
                       ELSE IF j \in Dropped \ stuck THEN NoSave
                       ELSE cache[j]
        /\ Line' = seeds'
        /\ \A k \in Left(stuck) \cup new : \E n \in 1..Len(seeds') : seeds'[n].seq = k
        /\ marred' = (marred \/ \E k \in stuck \ Left(stuck) : sidecar[k] # cache[k].pt)
    BY <1>b, <2>1 DEF Seeded
  <2>3. j \notin Left(stuck) \cup new  BY <2>2 DEF InLine
  <2>4. cache'[j] = cache[j] /\ j \in Files /\ j \notin Dropped \ stuck
    BY <1>b, <2>2, <2>3 DEF Files
  <2>5. j \in Foreign /\ j \in stuck /\ j \notin Left(stuck)
    BY <1>0, <2>3, <2>4, NoDiscard
  <2>6. sidecar[j] = cache[j].pt  BY <2>2, <2>5 DEF Sound
  <2>7. sidecar[j] # Pin  BY <1>0, <2>5, NoDiscard DEF Foreign
  <2> QED  BY <2>4, <2>6, <2>7 DEF Harmless
<1>6. CASE PutSeed \/ PutHand
  <2>1. InLine' = InLine  BY <1>0, <1>6, LinePut, InLineSame
  <2>2. UNCHANGED <<cache, baseFile, phase>>  BY <1>6 DEF PutSeed, PutHand
  <2>3. Harmless(j)  BY <1>a, <2>1, <2>2 DEF Files
  <2> QED  BY <1>0, <1>b, <2>2, <2>3, HarmlessKept
<1>7. CASE WatchSave \/ WatchOldRead
  <2>1. PICK s \in Saves \cup {NoSave} : Capture(s)  BY <1>0, <1>7, CaptureStep
  <2>2. UNCHANGED <<baseFile, phase>>  BY <2>1 DEF Capture
  <2>3. /\ InLine \subseteq InLine'
        /\ \/ UNCHANGED cache
           \/ cache' = [cache EXCEPT ![nextSeq] = s] /\ nextSeq \in InLine'
    BY <1>0, <2>1, InLineCapture
  <2>4. cache'[j] = cache[j]  BY <1>0, <1>b, <2>3 DEF TypeOK
  <2>5. Harmless(j)  BY <1>a, <1>b, <2>2, <2>3, <2>4 DEF Files
  <2> QED  BY <1>0, <1>b, <2>2, <2>4, <2>5, HarmlessKept
<1>8. CASE PopActions
  <2>1. /\ pipe # <<>> /\ Item.seq \in Seqs /\ phase \in {"run", "stop"}
        /\ MarkProcessed({Item.seq}) \/ MarkProcessedAndGc(Item.seq)
        /\ PopItem /\ baseFile' = baseFile
    BY <1>0, <1>8, PopShape
  <2>2. cache'[j] \in {cache[j], NoSave}  BY <1>0, <1>b, <2>1, MarkShape
  <2>3. j \in Files  BY <1>b, <2>2 DEF Files
  <2>4. j \notin InLine \/ j = Item.seq  BY <1>0, <2>1, InLinePop
  <2>5. Harmless(Item.seq)  BY <1>0, <1>8, PopSpent DEF Once
  <2>6. Harmless(j)  BY <1>a, <2>1, <2>3, <2>4, <2>5
  <2> QED  BY <1>0, <1>b, <2>1, <2>2, <2>6, HarmlessKept
<1>9. CASE TagActions
  BY <1>0, <1>1, <1>9, TagShape
<1>10. CASE OutActions  BY <1>0, <1>10, OutShape DEF ForgetAll
<1> QED
  BY <1>2, <1>3, <1>4, <1>5, <1>6, <1>7, <1>8, <1>9, <1>10, NextByKind

\* The file that rows ahead of the baseline come from still has something to
\* give, namely those rows.
LEMMA RedoneNotHarmless ==
    ASSUME TypeOK, Sound, Redo, Ahead # {}, NEW k \in Seqs, RedoneBy(k)
    PROVE  ~Harmless(k) /\ k \in Files
<1>1. PICK r \in Ahead : TRUE  OBVIOUS
<1>2. r \in rows /\ r \in Rows /\ baseFile # NoSave /\ baseFile.date < r.hap /\ r.hap <= r.stamp
  BY <1>1 DEF Ahead, Redo, TypeOK
<1>3. r.stamp = cache[k].date /\ cache[k] # NoSave /\ cache[k].pt = Pin
  BY <1>1 DEF RedoneBy
<1>4. cache[k] \in Saves /\ baseFile \in Saves  BY <1>2, <1>3 DEF TypeOK
<1>5. cache[k].date \in Int /\ baseFile.date \in Int /\ r.hap \in Int
  BY <1>2, <1>4, SaveTailAssumption DEF Saves, Dates, Rows
<1>6. baseFile.date < cache[k].date  BY <1>2, <1>3, <1>5
<1>7. ~(cache[k].date <= baseFile.date)  BY <1>5, <1>6
<1> QED  BY <1>3, <1>7 DEF Harmless, Files

\* If the head of the line is past the baseline, it is the file that rows ahead
\* of the baseline come from.
LEMMA AheadFromItem ==
    ASSUME Shape, Sound, Redo, pipe # <<>>, phase \in {"run", "stop"},
           ~Harmless(Item.seq), NEW r \in Ahead
    PROVE  r.stamp = Snap.date
<1>0. TypeOK /\ InOrder  BY DEF Shape
<1>1. PICK k \in Seqs : RedoneBy(k)  BY DEF Redo
<1>2. k \in InLine  BY <1>1 DEF RedoneBy
<1>3. k = Item.seq \/ Item.seq < k  BY <1>0, <1>2, HeadLowest
<1>4. Item.seq \in Files  BY <1>0, SnapType DEF Files, Harmless
<1>5. k = Item.seq  BY <1>1, <1>3, <1>4 DEF RedoneBy
<1> QED  BY <1>1, <1>5 DEF RedoneBy, Snap

\* Steps that leave rows and baseline alone keep Redo, if they keep the files
\* that may still be redone in the cache and in the line, and let no file of
\* the campaign in front of them.
LEMMA RedoKept ==
    ASSUME TypeOK, Sound, Redo, rows' = rows, baseFile' = baseFile,
           \A k \in Files :
             (/\ ~Harmless(k) /\ sidecar[k] \in {NoPt, Pin}
              /\ phase \in {"run", "stop"} => k \in InLine)
             => /\ cache'[k] = cache[k] /\ sidecar'[k] \in {NoPt, Pin}
                /\ phase' \in {"run", "stop"} => k \in InLine',
           \A j \in Files' : \/ j \in Files /\ cache'[j] = cache[j]
                             \/ \A k \in Files : k < j
    PROVE  Redo'
<1>1. /\ rows' # {} => baseFile' # NoSave
      /\ \A r \in rows' : r.hap <= r.stamp
      /\ Ahead' = Ahead
  BY DEF Redo, Ahead
<1> SUFFICES ASSUME Ahead # {}  PROVE \E k \in Seqs : RedoneBy(k)'
  BY <1>1 DEF Redo
<1>2. PICK k \in Seqs : RedoneBy(k)  BY DEF Redo
<1>3. ~Harmless(k) /\ k \in Files  BY <1>2, RedoneNotHarmless
<1>4. /\ cache'[k] = cache[k] /\ sidecar'[k] \in {NoPt, Pin}
      /\ phase' \in {"run", "stop"} => k \in InLine'
  BY <1>2, <1>3 DEF RedoneBy
<1>5. ASSUME NEW j \in Files', j < k  PROVE Harmless(j)'
  <2>1. j \in Seqs /\ j \in Nat /\ k \in Nat  BY SeqsAreNat DEF Files
  <2>2. j \in Files /\ cache'[j] = cache[j]  BY <1>3, <1>5, <2>1
  <2>3. Harmless(j)  BY <1>2, <1>5, <2>2 DEF RedoneBy
  <2> QED  BY <2>1, <2>2, <2>3, HarmlessKept
<1>6. RedoneBy(k)'  BY <1>1, <1>2, <1>4, <1>5 DEF RedoneBy
<1> QED  BY <1>6

\* The events transaction records nothing twice: what is found again has the
\* stamp it had.
LEMMA IngestStep ==
    ASSUME Whole, Once, Sound, IngestEvents
    PROVE  Redo' /\ RecordedOnce'
<1>0. /\ Shape /\ TypeOK /\ Resting /\ InOrder /\ AtWork /\ Accounted /\ Pure
      /\ Follows /\ Behind /\ Redo /\ RecordedOnce
  BY DEF Whole, Shape, Lossless, Once
<1>1. /\ tick.at = "diffed" /\ pipe # <<>> /\ phase \in {"run", "stop"} /\ Item.seq \in Seqs
      /\ tick.snap = Snap /\ Snap # NoSave /\ sidecar[Item.seq] = Snap.pt
  BY <1>0, HasItem DEF IngestEvents, AtWork
<1>2. /\ last # NoSave /\ baseFile = last /\ Snap.pt = last.pt /\ Snap.date > last.date
      /\ Snap.pt = Pin
  BY <1>0, <1>1 DEF Accounted, Candidate, Follows, Pure, OwnOnly, Sound
<1>3. Snap \in Saves /\ last \in Saves  BY <1>0, <1>1, <1>2 DEF TypeOK
<1>4. Snap.date \in Dates /\ last.date \in Dates /\ Snap.date \in Int /\ last.date \in Int
  BY <1>3, SaveTailAssumption DEF Saves, Dates
<1>5. UNCHANGED <<cache, sidecar, baseFile, phase, pipe, seeds, hand>>  BY DEF IngestEvents
<1>6. Line' = Line /\ InLine' = InLine  BY <1>5, LineSame, InLineSame
<1>7. ~Harmless(Item.seq)
  <2>1. ~(Snap.date <= baseFile.date)  BY <1>2, <1>4
  <2> QED  BY <1>1, <1>2, <2>1 DEF Harmless, Snap
<1>8. \A r \in Ahead : r.stamp = Snap.date  BY <1>0, <1>1, <1>7, AheadFromItem
<1>9. \A r \in Found(last, Snap) :
        /\ r = [pt |-> Pin, hap |-> r.hap, stamp |-> Snap.date]
        /\ r.pt = Pin /\ r.stamp = Snap.date
        /\ r.hap \in Dates /\ last.date < r.hap /\ r.hap <= Snap.date
  BY <1>2 DEF Found, Happened
<1>10. rows \subseteq rows' /\ rows' \subseteq rows \cup Found(last, Snap)
  BY <1>1 DEF IngestEvents
<1>11. rows \subseteq Rows /\ \A r \in rows : r.pt = Pin
  BY <1>0 DEF TypeOK, Pure, OnePlaythrough, Sound
<1>12. \A r \in rows' : last.date < r.hap => r = [pt |-> Pin, hap |-> r.hap, stamp |-> Snap.date]
  <2> SUFFICES ASSUME NEW r \in rows', last.date < r.hap
               PROVE  r = [pt |-> Pin, hap |-> r.hap, stamp |-> Snap.date]
    OBVIOUS
  <2>1. CASE r \in Found(last, Snap)  BY <1>9, <2>1
  <2>2. CASE r \in rows
    <3>1. r \in Ahead  BY <1>2, <2>2 DEF Ahead
    <3>2. r.stamp = Snap.date /\ r.pt = Pin /\ r \in Rows  BY <1>8, <1>11, <2>2, <3>1
    <3> QED  BY <3>2 DEF Rows
  <2> QED  BY <1>10, <2>1, <2>2
<1>13. RecordedOnce'
  <2> SUFFICES ASSUME NEW r1 \in rows', NEW r2 \in rows', r1.pt = r2.pt, r1.hap = r2.hap
               PROVE  r1 = r2
    BY DEF RecordedOnce
  <2>1. CASE last.date < r1.hap
    <3>1. /\ r1 = [pt |-> Pin, hap |-> r1.hap, stamp |-> Snap.date]
          /\ r2 = [pt |-> Pin, hap |-> r2.hap, stamp |-> Snap.date]
      BY <1>12, <2>1
    <3>2. [pt |-> Pin, hap |-> r1.hap, stamp |-> Snap.date]
            = [pt |-> Pin, hap |-> r2.hap, stamp |-> Snap.date]
      OBVIOUS
    <3> QED  BY <3>1, <3>2, Zenon
  <2>2. CASE ~(last.date < r1.hap)
    <3>1. r1 \in rows /\ r2 \in rows  BY <1>9, <1>10, <2>2
    <3> QED  BY <1>0, <3>1 DEF RecordedOnce, Sound
  <2> QED  BY <2>1, <2>2
<1>14. RedoneBy(Item.seq)'
  <2>1. \A r \in Ahead' : r.stamp = Snap.date
    <3> SUFFICES ASSUME NEW r \in Ahead'  PROVE r.stamp = Snap.date
      OBVIOUS
    <3>1. r \in rows' /\ last.date < r.hap  BY <1>2, <1>5 DEF Ahead
    <3> DEFINE q == [pt |-> Pin, hap |-> r.hap, stamp |-> Snap.date]
    <3>2. r = q  BY <1>12, <3>1
    <3>3. q.stamp = Snap.date  OBVIOUS
    <3> HIDE DEF q
    <3> QED  BY <3>2, <3>3
  <2>2. \A j \in Files' : j < Item.seq => Harmless(j)'
    <3> SUFFICES ASSUME NEW j \in Files', j < Item.seq  PROVE Harmless(j)'
      OBVIOUS
    <3>1. j \in Seqs /\ j \in Files /\ j \in Nat /\ Item.seq \in Nat
      BY <1>1, <1>5, SeqsAreNat DEF Files
    <3>2. j \notin InLine
      <4>1. ~(j = Item.seq \/ Item.seq < j)  BY <3>1
      <4> QED  BY <1>0, <1>1, <4>1, HeadLowest
    <3>3. Harmless(j)  BY <1>0, <1>1, <3>1, <3>2 DEF Behind
    <3> QED  BY <1>0, <1>5, <3>1, <3>3, HarmlessKept
  <2>3. Item.seq \in InLine'  BY <1>0, <1>1, <1>6, LineHead
  <2>4. /\ cache'[Item.seq] = Snap /\ sidecar'[Item.seq] = Pin
    BY <1>1, <1>2, <1>5 DEF Snap
  <2>5. PICK k \in Seqs : k = Item.seq  BY <1>1
  <2>6. RedoneBy(k)'  BY <1>1, <1>2, <2>1, <2>2, <2>3, <2>4, <2>5 DEF RedoneBy
  <2>7. Item' = Item  BY <1>5 DEF Item
  <2> QED  BY <2>5, <2>6, <2>7
<1>15. \A r \in rows' : r.hap <= r.stamp
  <2>1. \A r \in rows : r.hap <= r.stamp  BY <1>0 DEF Redo
  <2> QED  BY <1>9, <1>10, <2>1
<1>16. Item' = Item  BY <1>5 DEF Item
<1>17. baseFile' # NoSave  BY <1>2, <1>5
<1> QED  BY <1>1, <1>13, <1>14, <1>15, <1>16, <1>17 DEF Redo

\* Once the baseline is written, no row is ahead of it.
LEMMA PersistStep ==
    ASSUME Whole, Once, Sound, Sound', Persist
    PROVE  Redo'
<1>0. Shape /\ TypeOK /\ AtWork /\ Pure /\ Follows /\ Redo
  BY DEF Whole, Shape, Once
<1>1. /\ tick.at \in {"stored", "imported"} /\ pipe # <<>> /\ phase \in {"run", "stop"}
      /\ tick.snap = Snap /\ Snap # NoSave
  BY <1>0, HasItem DEF Persist, AtWork
<1>2. baseFile' = Snap /\ rows' = rows  BY <1>1 DEF Persist, Mars, Sound
<1>3. Snap \in Saves /\ Snap.pt = Pin  BY <1>0, <1>1 DEF TypeOK, Pure, OwnOnly, Sound
<1>4. Snap.date \in Int  BY <1>3, SaveTailAssumption DEF Saves, Dates
<1>5. Ahead' = {}
  <2> SUFFICES ASSUME NEW r \in rows  PROVE ~(Snap.date < r.hap)
    BY <1>1, <1>2 DEF Ahead
  <2>1. baseFile # NoSave  BY <1>0 DEF Redo
  <2>2. baseFile = last /\ Snap.date > last.date
    BY <1>0, <1>1, <2>1 DEF Follows, Candidate
  <2>3. baseFile \in Saves /\ r \in Rows  BY <1>0, <2>1 DEF TypeOK
  <2>4. baseFile.date \in Int /\ r.hap \in Int
    BY <2>3, SaveTailAssumption DEF Saves, Dates, Rows
  <2>5. CASE baseFile.date < r.hap
    <3>1. r \in Ahead  BY <2>5 DEF Ahead
    <3>2. ~(Snap.date <= baseFile.date)  BY <1>4, <2>2, <2>4
    <3>3. ~Harmless(Item.seq)  BY <1>1, <1>3, <3>2 DEF Harmless, Snap
    <3>4. r.stamp = Snap.date  BY <1>0, <1>1, <3>1, <3>3, AheadFromItem
    <3>5. r.hap <= r.stamp  BY <1>0 DEF Redo
    <3> QED  BY <1>4, <2>4, <3>4, <3>5
  <2>6. CASE ~(baseFile.date < r.hap)  BY <1>4, <2>2, <2>4, <2>6
  <2> QED  BY <2>5, <2>6
<1> QED  BY <1>0, <1>1, <1>2, <1>5 DEF Redo

LEMMA RedoStep == Whole /\ Once /\ [Next]_vars => Redo'
<1> SUFFICES ASSUME Whole, Once, [Next]_vars, Sound'  PROVE Redo'
  BY DEF Redo
<1>0. /\ Shape /\ TypeOK /\ Resting /\ InOrder /\ AtWork /\ Pure /\ Sound
      /\ Follows /\ TagsOwn /\ Redo
  BY SoundBefore DEF Whole, Shape, Once
<1> USE DEF gameVars, storeVars, procVars
<1>1. ASSUME UNCHANGED <<rows, baseFile, cache, sidecar>>, Line' = Line,
             phase' \in {"run", "stop"} => phase \in {"run", "stop"}
      PROVE  Redo'
  <2>1. InLine' = InLine /\ Files' = Files  BY <1>1, InLineSame DEF Files
  <2> QED  BY <1>0, <1>1, <2>1, RedoKept
<1>2. CASE UNCHANGED vars  BY <1>1, <1>2, LineSame DEF vars
<1>3. CASE Quiet
  <2>1. CASE GameSaves \/ Track \/ Stop \/ Arm
    BY <1>1, <2>1, LineSame DEF GameSaves, Track, Stop, Arm
  <2>2. CASE IngestEvents  BY <1>0, <2>2, IngestStep
  <2>3. CASE Persist  BY <1>0, <2>3, PersistStep
  <2> QED  BY <1>3, <2>1, <2>2, <2>3 DEF Quiet
<1>4. CASE Boot  BY <1>1, <1>4, LineSame DEF Boot
<1>5. CASE Seed
  <2>1. PICK stuck \in SUBSET Dropped, new \in SUBSET Seqs :
          Left(stuck) \in SUBSET Files /\ Seeded(stuck, new)
    BY <1>0, <1>5, SeedShape
  <2>2. rows' = rows /\ baseFile' = baseFile /\ phase = "verify"  BY <1>5 DEF Seed
  <2>3. /\ new = {} \/ new = {nextSeq}
        /\ \A k \in Seqs : cache'[k] = IF k \in new THEN disk
                                       ELSE IF k \in Dropped \ stuck THEN NoSave
                                       ELSE cache[k]
        /\ \A k \in Seqs : sidecar'[k] = IF k \in Dropped THEN NoPt ELSE sidecar[k]
        /\ Line' = seeds'
        /\ \A k \in Left(stuck) \cup new : \E n \in 1..Len(seeds') : seeds'[n].seq = k
    BY <2>1 DEF Seeded
  <2>4. \A k \in Files : k \in Seqs /\ k < nextSeq /\ k \notin new
    <3>1. \A k \in Files : k \in Seqs /\ k \in Nat /\ k < nextSeq
      BY <1>0, <2>2, SeqsAreNat DEF InOrder, Files
    <3>2. nextSeq \in Nat  BY <1>0 DEF TypeOK
    <3> QED  BY <2>3, <3>1, <3>2
  <2>5. ASSUME NEW k \in Files, sidecar[k] \in {NoPt, Pin}
        PROVE  /\ cache'[k] = cache[k] /\ sidecar'[k] \in {NoPt, Pin}
               /\ k \in InLine'
    <3>1. k \notin Dropped /\ k \in Left(stuck)
      BY <1>0, <2>5, NoDiscard DEF Foreign
    <3> QED  BY <2>3, <2>4, <2>5, <3>1 DEF InLine
  <2>6. ASSUME NEW j \in Files'
        PROVE  (j \in Files /\ cache'[j] = cache[j]) \/ \A k \in Files : k < j
    <3>1. j \in Seqs /\ cache'[j] # NoSave  BY DEF Files
    <3> QED  BY <2>3, <2>4, <3>1 DEF Files
  <2> QED  BY <1>0, <2>2, <2>5, <2>6, RedoKept
<1>6. CASE PutSeed \/ PutHand
  <2>1. Line' = Line  BY <1>0, <1>6, LinePut
  <2> QED  BY <1>1, <1>6, <2>1 DEF PutSeed, PutHand
<1>7. CASE WatchSave \/ WatchOldRead
  <2>1. PICK s \in Saves \cup {NoSave} : Capture(s)  BY <1>0, <1>7, CaptureStep
  <2>2. UNCHANGED <<rows, baseFile, sidecar, phase>> /\ phase = "run"  BY <2>1 DEF Capture
  <2>3. /\ InLine \subseteq InLine' /\ nextSeq \in Seqs
        /\ UNCHANGED cache \/ cache' = [cache EXCEPT ![nextSeq] = s]
    BY <1>0, <2>1, InLineCapture
  <2>4. \A k \in Files : k \in Seqs /\ k < nextSeq /\ k # nextSeq
    <3>1. \A k \in Files : k \in Seqs /\ k \in Nat /\ k < nextSeq
      BY <1>0, <2>2, SeqsAreNat DEF InOrder, Files
    <3>2. nextSeq \in Nat  BY <1>0 DEF TypeOK
    <3> QED  BY <3>1, <3>2
  <2>5. \A k \in Seqs : k # nextSeq => cache'[k] = cache[k]  BY <1>0, <2>3 DEF TypeOK
  <2>6. \A k \in Files : cache'[k] = cache[k]  BY <2>4, <2>5
  <2>7. ASSUME NEW j \in Files'
        PROVE  (j \in Files /\ cache'[j] = cache[j]) \/ \A k \in Files : k < j
    <3>1. j \in Seqs /\ cache'[j] # NoSave  BY DEF Files
    <3> QED  BY <2>4, <2>5, <3>1 DEF Files
  <2> QED  BY <1>0, <2>2, <2>3, <2>6, <2>7, RedoKept
<1>8. CASE PopActions
  <2>1. /\ pipe # <<>> /\ Item.seq \in Seqs /\ phase \in {"run", "stop"}
        /\ MarkProcessed({Item.seq}) \/ MarkProcessedAndGc(Item.seq)
        /\ PopItem /\ UNCHANGED <<rows, baseFile>>
    BY <1>0, <1>8, PopShape
  <2>2. /\ \A j \in Seqs : cache'[j] \in {cache[j], NoSave}
        /\ \A j \in protected \ {Item.seq} : cache'[j] = cache[j] /\ sidecar'[j] = sidecar[j]
    BY <1>0, <2>1, MarkShape
  <2>3. Harmless(Item.seq)  BY <1>0, <1>8, PopSpent
  <2>4. ASSUME NEW k \in Files, ~Harmless(k), sidecar[k] \in {NoPt, Pin}, k \in InLine
        PROVE  cache'[k] = cache[k] /\ sidecar'[k] \in {NoPt, Pin} /\ k \in InLine'
    <3>1. k # Item.seq  BY <2>3, <2>4
    <3>2. k \in protected  BY <1>0, <2>1, <2>4, HeadLowest
    <3>3. k \in InLine'  BY <1>0, <2>1, <2>4, <3>1, InLinePop
    <3> QED  BY <2>2, <2>4, <3>1, <3>2, <3>3
  <2>5. \A j \in Files' : j \in Files /\ cache'[j] = cache[j]  BY <2>2 DEF Files
  <2> QED  BY <1>0, <2>1, <2>4, <2>5, RedoKept
<1>9. CASE TagActions
  <2>1. /\ pipe # <<>> /\ Snap # NoSave /\ Tag /\ phase' = phase
        /\ UNCHANGED <<pipe, seeds, hand, cache, rows, baseFile>>
        /\ tick'.snap = Snap /\ tick'.at # "idle"
    BY <1>0, <1>9, TagShape
  <2>2. InLine' = InLine /\ Files' = Files  BY <2>1, LineSame, InLineSame DEF Files
  <2>3. Snap.pt = Pin
    <3>1. OwnOnly'  BY PureStep DEF Whole, Pure
    <3> QED  BY <2>1, <3>1 DEF OwnOnly, Sound
  <2>4. \A k \in Seqs : sidecar'[k] \in {sidecar[k], Pin}  BY <1>0, <2>1, <2>3, TagType
  <2>5. Files \subseteq Seqs  BY DEF Files
  <2> QED  BY <1>0, <2>1, <2>2, <2>4, <2>5, RedoKept
<1>10. CASE OutActions
  <2>1. phase' = "down" /\ UNCHANGED <<rows, baseFile>>
    BY <1>0, <1>10, OutShape DEF ForgetAll
  <2>2. CASE UNCHANGED <<cache, sidecar>>
    <3>1. Files' = Files  BY <2>2 DEF Files
    <3> QED  BY <1>0, <2>1, <2>2, <3>1, RedoKept
  <2>3. CASE /\ CrashInDelete /\ pipe # <<>> /\ Item.seq \in Seqs /\ Snap # NoSave /\ Tag
             /\ cache' = [cache EXCEPT ![Item.seq] = NoSave]
    <3>1. Harmless(Item.seq)  BY <1>0, <2>3, CrashSpent
    <3>2. \A j \in Seqs : j # Item.seq => cache'[j] = cache[j] /\ sidecar'[j] = sidecar[j]
      BY <1>0, <2>3, TagType DEF TypeOK
    <3>3. cache'[Item.seq] = NoSave  BY <1>0, <2>3 DEF TypeOK
    <3>4. \A k \in Files : k \in Seqs /\ (~Harmless(k) => k # Item.seq)
      BY <3>1 DEF Files
    <3>5. \A j \in Files' : j \in Files /\ cache'[j] = cache[j]
      BY <3>2, <3>3 DEF Files
    <3> QED  BY <1>0, <2>1, <3>2, <3>4, <3>5, RedoKept
  <2> QED  BY <1>0, <1>10, <2>2, <2>3, OutShape
<1> QED
  BY <1>2, <1>3, <1>4, <1>5, <1>6, <1>7, <1>8, <1>9, <1>10, NextByKind

\* Only the events transaction adds rows.
LEMMA RecordedOnceStep == Whole /\ Once /\ [Next]_vars => RecordedOnce'
<1> SUFFICES ASSUME Whole, Once, [Next]_vars, Sound'  PROVE RecordedOnce'
  BY DEF RecordedOnce, Sound
<1>0. Shape /\ Sound /\ RecordedOnce  BY SoundBefore DEF Whole, Once
<1> USE DEF gameVars, storeVars, procVars
<1>1. CASE IngestEvents  BY <1>0, <1>1, IngestStep
<1>2. CASE ~IngestEvents
  <2>1. Quiet => rows' = rows
    BY <1>2 DEF Quiet, GameSaves, Track, Stop, Arm, Persist
  <2>2. Boot \/ Seed \/ PutSeed \/ PutHand => rows' = rows
    BY DEF Boot, Seed, PutSeed, PutHand
  <2>3. WatchSave \/ WatchOldRead => rows' = rows  BY DEF WatchSave, WatchOldRead, Capture
  <2>4. PopActions => rows' = rows  BY <1>0, PopShape
  <2>5. TagActions => rows' = rows  BY <1>0, TagShape
  <2>6. OutActions => rows' = rows  BY <1>0, OutShape
  <2>7. UNCHANGED vars => rows' = rows  BY DEF vars
  <2>8. rows' = rows  BY <2>1, <2>2, <2>3, <2>4, <2>5, <2>6, <2>7, NextByKind
  <2> QED  BY <1>0, <2>8 DEF RecordedOnce, Sound
<1> QED  BY <1>1, <1>2

-----------------------------------------------------------------------------
(* The theorems.                                                           *)

\* The inductive invariant.
IInv == Whole /\ Once

LEMMA InitInv == Init => IInv
<1> SUFFICES ASSUME Init  PROVE IInv
  OBVIOUS
<1>1. Shape  BY InitShape
<1>2. /\ baseFile = NoSave /\ rows = {} /\ last = NoSave /\ verified = NoSave /\ pin = Pin
      /\ phase = "down" /\ tick.at = "idle"
      /\ pipe = <<>> /\ seeds = <<>> /\ hand = NoItem
      /\ \A k \in Seqs : sidecar[k] = NoPt
  BY DEF Init, Idle
<1>3. Line = <<>>  BY <1>2 DEF Line, Held
<1>4. Lossless  BY <1>2 DEF Lossless, NothingLost, Accounted
<1>5. Pure  BY <1>2 DEF Pure, OnePlaythrough, OwnOnly
<1>6. Follows /\ TagsOwn /\ Behind  BY <1>2, <1>3 DEF Follows, TagsOwn, Behind
<1>7. Redo /\ RecordedOnce  BY <1>2 DEF Redo, Ahead, RecordedOnce
<1> QED  BY <1>1, <1>4, <1>5, <1>6, <1>7 DEF IInv, Whole, Once

LEMMA NextInv == IInv /\ [Next]_vars => IInv'
BY ShapeStep, LosslessStep, PureStep, FollowsStep, TagsOwnStep, BehindStep, RedoStep,
   RecordedOnceStep
DEF IInv, Whole, Once

LEMMA Invariance == Spec => []IInv
BY InitInv, NextInv, PTL DEF Spec

\* Whatever fails and whenever the process is killed, the baseline on disk is
\* never ahead of the events table (tick.py commits the events before it writes
\* the baseline, and a restart only looks past the baseline).
THEOREM NothingEverLost == Spec => []NothingLost
<1>1. IInv => NothingLost  BY DEF IInv, Whole, Lossless
<1> QED  BY <1>1, Invariance, PTL

\* A pinned campaign records only its own playthrough, whatever other saves
\* pass through the directory and the cache.
THEOREM PlaythroughsApart == Spec => []OnePlaythrough
<1>1. IInv => OnePlaythrough  BY DEF IInv, Whole, Pure
<1> QED  BY <1>1, Invariance, PTL

\* However often the process is killed, whatever comes back from the cache and
\* in whatever state: a pinned campaign whose saves were not skipped by a fault
\* has no happening in its events table twice.
THEOREM NeverTwice == Spec => []RecordedOnce
<1>1. IInv => RecordedOnce  BY DEF IInv, Once
<1> QED  BY <1>1, Invariance, PTL
-----------------------------------------------------------------------------
(***************************************************************************)
(* The parse pipeline, which SaveTail models as the one FIFO pipe, brings  *)
(* the saves in order for every width, queue size and number of saves.     *)
(***************************************************************************)

\* Slots is a positive number whatever concurrency was asked for.
LEMMA SlotsPositive == Slots \in Nat /\ Slots >= 1
BY PipelineAssumption DEF PipelineAssumption, Slots

\* Appending and taking the tail, position by position.
LEMMA AppendFacts ==
    ASSUME NEW s \in Seq(Nat), NEW e \in Nat
    PROVE  /\ Append(s, e) \in Seq(Nat)
           /\ Len(Append(s, e)) = Len(s) + 1
           /\ \A n \in 1..Len(s) : Append(s, e)[n] = s[n]
           /\ Append(s, e)[Len(s) + 1] = e
OBVIOUS

LEMMA TailFacts ==
    ASSUME NEW s \in Seq(Nat), s # <<>>
    PROVE  /\ Head(s) \in Nat /\ Head(s) = s[1] /\ Len(s) >= 1 /\ Len(s) \in Nat
           /\ Tail(s) \in Seq(Nat)
           /\ Len(Tail(s)) = Len(s) - 1
           /\ \A n \in 1..(Len(s) - 1) : Tail(s)[n] = s[n + 1]
OBVIOUS

\* Moving the head of the queue to the window keeps everything in its place.
LEMMA TakeSafe ==
    ASSUME PipelineInv, queue # <<>>, Len(window) < Slots, at # "over",
           NEW p \in {"fill"}, Take(p)
    PROVE  PipelineInv'
<1> USE DEF PipelineInv, PTypeOK
<1>1. /\ window' = Append(window, Head(queue)) /\ queue' = Tail(queue) /\ at' = "fill"
      /\ put' = put /\ sentinel' = sentinel /\ parsed' = parsed /\ out' = out
  BY DEF Take
<1>2. /\ Head(queue) \in Nat /\ Head(queue) = queue[1] /\ Len(queue) >= 1 /\ Len(queue) \in Nat
      /\ Tail(queue) \in Seq(Nat) /\ Len(Tail(queue)) = Len(queue) - 1
      /\ \A n \in 1..(Len(queue) - 1) : Tail(queue)[n] = queue[n + 1]
  BY TailFacts
<1>3. /\ window' \in Seq(Nat) /\ Len(window') = Len(window) + 1
      /\ \A n \in 1..Len(window) : window'[n] = window[n]
      /\ window'[Len(window) + 1] = Head(queue)
  BY <1>1, <1>2, AppendFacts
<1>4. PTypeOK'
  BY <1>1, <1>2, <1>3
<1>5. WindowBounded'
  BY <1>1, <1>3, SlotsPositive DEF WindowBounded
<1>6. /\ Len(window') \in Nat /\ Len(window) \in Nat /\ Len(out) \in Nat
      /\ DOMAIN window' = 1..Len(window') /\ DOMAIN queue' = 1..Len(queue')
      /\ DOMAIN window = 1..Len(window) /\ DOMAIN queue = 1..Len(queue)
  BY <1>1, <1>2, <1>3
<1>7. /\ \A n \in 1..Len(window) : window[n] = Len(out) + n
      /\ \A n \in 1..Len(queue) : queue[n] = Len(out) + Len(window) + n
      /\ put = Len(out) + Len(window) + Len(queue)
  BY <1>6 DEF Conveyed
<1>8. \A n \in DOMAIN window' : window'[n] = Len(out) + n
  <2> HIDE DEF PipelineInv, PTypeOK
  <2> SUFFICES ASSUME NEW n \in 1..(Len(window) + 1) PROVE window'[n] = Len(out) + n
    BY <1>3, <1>6
  <2>1. CASE n \in 1..Len(window)
    BY <1>3, <1>7, <2>1
  <2>2. CASE n = Len(window) + 1
    <3>1. queue[1] = Len(out) + Len(window) + 1
      BY <1>2, <1>7
    <3> QED BY <1>2, <1>3, <1>6, <2>2, <3>1
  <2> QED BY <1>6, <2>1, <2>2
<1>9. \A n \in DOMAIN queue' : queue'[n] = Len(out) + Len(window') + n
  <2> HIDE DEF PipelineInv, PTypeOK
  <2> SUFFICES ASSUME NEW n \in 1..(Len(queue) - 1)
               PROVE  Tail(queue)[n] = Len(out) + (Len(window) + 1) + n
    BY <1>1, <1>2, <1>3, <1>6
  <2>1. n + 1 \in 1..Len(queue) /\ n \in Nat
    BY <1>2
  <2>2. Tail(queue)[n] = Len(out) + Len(window) + (n + 1)
    BY <1>2, <1>7, <2>1
  <2> QED BY <1>6, <2>1, <2>2
<1>10. put = Len(out) + Len(window') + Len(queue')
  BY <1>1, <1>2, <1>3, <1>6, <1>7
<1>11. Conveyed'
  BY <1>1, <1>8, <1>9, <1>10 DEF Conveyed
<1> QED BY <1>1, <1>4, <1>5, <1>11 DEF Conveyed

\* Yielding the head of the window keeps everything in its place.
LEMMA YieldSafe == PipelineInv /\ Yield => PipelineInv'
<1> SUFFICES ASSUME PipelineInv, Yield PROVE PipelineInv'
  OBVIOUS
<1> USE DEF PipelineInv, PTypeOK
<1>0. window # <<>>
  BY DEF Yield
<1>1. /\ out' = Append(out, Head(window)) /\ window' = Tail(window) /\ at' = "yield"
      /\ put' = put /\ sentinel' = sentinel /\ parsed' = parsed /\ queue' = queue /\ at = "head"
  BY DEF Yield
<1>2. /\ Head(window) \in Nat /\ Head(window) = window[1] /\ Len(window) >= 1
      /\ Len(window) \in Nat
      /\ Tail(window) \in Seq(Nat) /\ Len(Tail(window)) = Len(window) - 1
      /\ \A n \in 1..(Len(window) - 1) : Tail(window)[n] = window[n + 1]
  BY <1>0, TailFacts
<1>3. /\ out' \in Seq(Nat) /\ Len(out') = Len(out) + 1
      /\ \A n \in 1..Len(out) : out'[n] = out[n]
      /\ out'[Len(out) + 1] = Head(window)
  BY <1>1, <1>2, AppendFacts
<1>4. PTypeOK'
  BY <1>1, <1>2, <1>3
<1>5. WindowBounded'
  BY <1>1, <1>2, SlotsPositive DEF WindowBounded
<1>6. /\ Len(out) \in Nat /\ Len(queue) \in Nat
      /\ DOMAIN out' = 1..Len(out') /\ DOMAIN out = 1..Len(out)
      /\ DOMAIN window' = 1..Len(window') /\ DOMAIN window = 1..Len(window)
      /\ DOMAIN queue = 1..Len(queue)
  BY <1>1, <1>2, <1>3
<1>7. /\ \A n \in 1..Len(out) : out[n] = n
      /\ \A n \in 1..Len(window) : window[n] = Len(out) + n
      /\ \A n \in 1..Len(queue) : queue[n] = Len(out) + Len(window) + n
      /\ put = Len(out) + Len(window) + Len(queue)
  BY <1>1, <1>6 DEF Conveyed
<1>8. \A n \in DOMAIN out' : out'[n] = n
  <2> HIDE DEF PipelineInv, PTypeOK
  <2> SUFFICES ASSUME NEW n \in 1..(Len(out) + 1) PROVE out'[n] = n
    BY <1>3, <1>6
  <2>1. CASE n \in 1..Len(out)
    BY <1>3, <1>7, <2>1
  <2>2. CASE n = Len(out) + 1
    <3>1. window[1] = Len(out) + 1
      BY <1>2, <1>7
    <3> QED BY <1>2, <1>3, <2>2, <3>1
  <2> QED BY <1>6, <2>1, <2>2
<1>9. \A n \in DOMAIN window' : window'[n] = Len(out') + n
  <2> HIDE DEF PipelineInv, PTypeOK
  <2> SUFFICES ASSUME NEW n \in 1..(Len(window) - 1)
               PROVE  Tail(window)[n] = (Len(out) + 1) + n
    BY <1>1, <1>2, <1>3, <1>6
  <2>1. n + 1 \in 1..Len(window) /\ n \in Nat
    BY <1>2
  <2>2. Tail(window)[n] = Len(out) + (n + 1)
    BY <1>2, <1>7, <2>1
  <2> QED BY <1>6, <2>1, <2>2
<1>10. \A n \in DOMAIN queue' : queue'[n] = Len(out') + Len(window') + n
  BY <1>1, <1>2, <1>3, <1>6, <1>7
<1>11. put = Len(out') + Len(window') + Len(queue')
  BY <1>1, <1>2, <1>3, <1>6, <1>7
<1>12. Conveyed'
  BY <1>1, <1>8, <1>9, <1>10, <1>11 DEF Conveyed
<1>13. Len(out') <= put
  BY <1>1, <1>2, <1>3, <1>6, <1>7
<1> QED BY <1>1, <1>4, <1>5, <1>12, <1>13

\* Put appends the next number.
LEMMA PutSafe == PipelineInv /\ Put => PipelineInv'
<1> SUFFICES ASSUME PipelineInv, Put PROVE PipelineInv'
  OBVIOUS
<1> USE DEF PipelineInv, PTypeOK
<1>1. /\ put' = put + 1 /\ queue' = Append(queue, put + 1) /\ at' = at
      /\ window' = window /\ sentinel' = sentinel /\ parsed' = parsed /\ out' = out
  BY DEF Put
<1>2. /\ queue' \in Seq(Nat) /\ Len(queue') = Len(queue) + 1
      /\ \A n \in 1..Len(queue) : queue'[n] = queue[n]
      /\ queue'[Len(queue) + 1] = put + 1
  BY <1>1, AppendFacts
<1>3. /\ Len(out) \in Nat /\ Len(window) \in Nat /\ Len(queue) \in Nat
      /\ DOMAIN queue' = 1..Len(queue') /\ DOMAIN queue = 1..Len(queue)
  BY <1>2
<1>4. at # "over" => /\ \A n \in DOMAIN queue' : queue'[n] = Len(out) + Len(window) + n
                     /\ put' = Len(out) + Len(window) + Len(queue')
  <2> SUFFICES ASSUME at # "over"
               PROVE  /\ \A n \in 1..(Len(queue) + 1) : queue'[n] = Len(out) + Len(window) + n
                      /\ put' = Len(out) + Len(window) + (Len(queue) + 1)
    BY <1>2, <1>3
  <2>1. /\ \A n \in 1..Len(queue) : queue[n] = Len(out) + Len(window) + n
        /\ put = Len(out) + Len(window) + Len(queue)
    BY <1>3 DEF Conveyed
  <2> HIDE DEF PipelineInv, PTypeOK
  <2>2. ASSUME NEW n \in 1..(Len(queue) + 1) PROVE queue'[n] = Len(out) + Len(window) + n
    <3>1. CASE n \in 1..Len(queue)
      BY <1>2, <2>1, <3>1
    <3>2. CASE n = Len(queue) + 1
      BY <1>2, <1>3, <2>1, <3>2
    <3> QED BY <1>3, <3>1, <3>2
  <2> QED BY <1>1, <1>3, <2>1, <2>2
<1>5. Conveyed'
  BY <1>1, <1>4 DEF Conveyed
<1> QED BY <1>1, <1>2, <1>3, <1>5 DEF WindowBounded

\* Every step preserves the invariant.
LEMMA PipelineStepSafe == PipelineInv /\ [PNext]_pvars => PipelineInv'
<1> SUFFICES ASSUME PipelineInv, [PNext]_pvars PROVE PipelineInv'
  OBVIOUS
<1>1. CASE Put
  BY <1>1, PutSafe
<1>2. CASE PutSentinel
  BY <1>2 DEF PutSentinel, PipelineInv, PTypeOK, WindowBounded, Conveyed
<1>3. CASE Fill
  <2>1. CASE Take("fill") /\ queue # <<>> /\ Len(window) < Slots
    BY <1>3, <2>1, TakeSafe DEF Fill
  <2>2. CASE ~(Take("fill") /\ queue # <<>> /\ Len(window) < Slots)
    <3>1. /\ at = "fill" /\ at' \in {"head", "over", "get"}
          /\ (at' = "get" => window = <<>>) /\ (at' = "head" => window # <<>>)
          /\ sentinel' \in {sentinel, "taken"}
          /\ UNCHANGED <<put, queue, window, parsed, out>>
      BY <1>3, <2>2 DEF Fill
    <3> QED BY <3>1 DEF PipelineInv, PTypeOK, WindowBounded, Conveyed
  <2> QED BY <2>1, <2>2
<1>4. CASE Get
  <2>1. CASE queue # <<>>
    <3>1. window = <<>> /\ Len(window) = 0 /\ at = "get" /\ Take("fill")
      BY <1>4, <2>1 DEF Get, PipelineInv, WindowBounded
    <3> QED BY <2>1, <3>1, TakeSafe, SlotsPositive
  <2>2. CASE queue = <<>>
    BY <1>4, <2>2 DEF Get, PipelineInv, PTypeOK, WindowBounded, Conveyed
  <2> QED BY <2>1, <2>2
<1>5. CASE Yield
  BY <1>5, YieldSafe
<1>6. CASE Consumed
  BY <1>6 DEF Consumed, PipelineInv, PTypeOK, WindowBounded, Conveyed
<1>7. CASE Close
  BY <1>7, SlotsPositive DEF Close, PipelineInv, PTypeOK, WindowBounded, Conveyed
<1>8. CASE \E n \in 1..Slots : WorkerEnds(n)
  <2>1. PICK n \in 1..Slots : WorkerEnds(n)
    BY <1>8
  <2>2. window[n] \in Nat /\ parsed' = parsed \cup {window[n]}
    BY <2>1 DEF WorkerEnds, PipelineInv, PTypeOK
  <2>3. parsed' \in SUBSET Nat
    BY <2>2 DEF PipelineInv, PTypeOK
  <2>4. UNCHANGED <<put, queue, sentinel, window, at, out>>
    BY <2>1 DEF WorkerEnds
  <2> QED BY <2>3, <2>4 DEF PipelineInv, PTypeOK, WindowBounded, Conveyed
<1>9. CASE UNCHANGED pvars
  BY <1>9 DEF pvars, PipelineInv, PTypeOK, WindowBounded, Conveyed
<1> QED BY <1>1, <1>2, <1>3, <1>4, <1>5, <1>6, <1>7, <1>8, <1>9 DEF PNext

(***************************************************************************)
(* The window is bounded and the conveyor in order in every behaviour of   *)
(* map_ordered_bounded.                                                    *)
(***************************************************************************)
THEOREM PipelineSafe == PSpec => [](WindowBounded /\ Conveyed)
<1>1. PInit => PipelineInv
  BY SlotsPositive DEF PInit, PipelineInv, PTypeOK, WindowBounded, Conveyed
<1>2. PipelineInv => WindowBounded /\ Conveyed
  BY DEF PipelineInv
<1> QED BY <1>1, <1>2, PipelineStepSafe, PTL DEF PSpec

\* Every step is a step of OrderedDelivery or changes nothing it can see.
LEMMA StepSimulation ==
    PipelineInv /\ [PNext]_pvars => [Promise!DNext]_(Promise!dvars)
<1> SUFFICES ASSUME PipelineInv, [PNext]_pvars PROVE [Promise!DNext]_(Promise!dvars)
  OBVIOUS
<1> USE DEF Promise!DNext, Promise!dvars
<1>1. CASE Put
  BY <1>1 DEF Put, Promise!Submit
<1>2. CASE Yield
  <2>1. /\ at = "head" /\ window # <<>> /\ window \in Seq(Nat) /\ out \in Seq(Nat)
        /\ out' = Append(out, Head(window)) /\ put' = put /\ at' = "yield"
    BY <1>2 DEF Yield, PipelineInv, PTypeOK
  <2>2. /\ Head(window) = window[1] /\ Len(window) >= 1 /\ Len(window) \in Nat
    BY <2>1, TailFacts
  <2>3. /\ window[1] = Len(out) + 1
        /\ put = Len(out) + Len(window) + Len(queue) /\ Len(queue) \in Nat
    BY <2>1, <2>2 DEF PipelineInv, PTypeOK, Conveyed
  <2>4. Len(out) < put
    BY <2>1, <2>2, <2>3
  <2> QED BY <2>1, <2>2, <2>3, <2>4 DEF Promise!Deliver
<1>3. CASE Fill
  <2>1. at # "over" /\ UNCHANGED <<put, out>>
    BY <1>3 DEF Fill, Take
  <2> QED BY <2>1 DEF Promise!End
<1>4. CASE Get
  BY <1>4 DEF Get, Take
<1>5. CASE Close
  BY <1>5 DEF Close, Promise!End
<1>6. CASE PutSentinel \/ Consumed \/ (\E n \in 1..Slots : WorkerEnds(n))
  BY <1>6 DEF PutSentinel, Consumed, WorkerEnds
<1>7. CASE UNCHANGED pvars
  BY <1>7 DEF pvars
<1> QED BY <1>1, <1>2, <1>3, <1>4, <1>5, <1>6, <1>7 DEF PNext

(***************************************************************************)
(* The pipeline implements OrderedDelivery: what its consumer sees is the  *)
(* saves in the order they were put, none missing, none twice.             *)
(***************************************************************************)
THEOREM PipelineImplements == PSpec => Promise!DSpec
<1>1. PInit => PipelineInv /\ Promise!DInit
  BY SlotsPositive DEF PInit, PipelineInv, PTypeOK, WindowBounded, Conveyed, Promise!DInit
<1> QED BY <1>1, PipelineStepSafe, StepSimulation, PTL DEF PSpec, Promise!DSpec
=============================================================================
