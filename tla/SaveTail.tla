------------------------------ MODULE SaveTail ------------------------------
(***************************************************************************)
(* The save-tail of one campaign (src/chronicler/save/ingest.py, tick.py,  *)
(* cache.py, baseline.py, watcher.py): every autosave the game writes is   *)
(* copied into a per-campaign cache, parsed, diffed against the last       *)
(* snapshot, and the differences become rows of the events table; then the *)
(* snapshot becomes the new baseline, in memory and on disk.  The process  *)
(* may be killed between any two of these and started again.               *)
(*                                                                         *)
(* A save is its playthrough and its in-game date.  One happening takes    *)
(* place in a playthrough on each date; the diff of two saves finds the    *)
(* happenings between their dates and stamps every one with the date of    *)
(* the newer save (diff.py:520), so the UNIQUE constraint on events drops  *)
(* a happening found again by the same save but not by another one.        *)
(*                                                                         *)
(* The parse window of map_ordered_bounded delivers in pull order (module  *)
(* OrderedPipeline), so queue and window are one FIFO here, pipe.          *)
(***************************************************************************)
EXTENDS Integers, Sequences, FiniteSets

CONSTANTS
    Pts,        \* playthrough ids
    NoPt,       \* no playthrough id
    NoSave,     \* no save
    Pin,        \* the campaign DB's playthrough_id when the process first starts
    Scripts,    \* what the game may write, in order, during a behaviour
    MaxDate,    \* bound: in-game dates
    MaxSeq,     \* bound: sequence numbers of cached saves
    PipeCap,    \* maxsize of the pipeline queue plus the parse window
    CacheMax,   \* cache_max_bytes, counted in files
    MaxCrashes, \* bound: kills of the process
    Faults      \* which operations may fail

FaultKinds == {"parse",     \* rakaly times out or the save does not parse
               "copy",      \* cache_save: rotation race or full disk
               "unlink",    \* mark_processed cannot delete the file
               "event",     \* one event's SAVEPOINT is rolled back
               "import",    \* the first-save import fails
               "persist",   \* save_baseline raises OSError
               "registry"}  \* a registry write of the tick raises (locked)

ASSUME SaveTailAssumption ==
    /\ NoPt \notin Pts
    /\ Pin \in Pts \cup {NoPt}
    /\ MaxDate \in Nat /\ MaxSeq \in Nat
    /\ \A w \in Scripts : w \in Seq([pt : Pts, date : 1..MaxDate])
    /\ PipeCap \in Nat \ {0}
    /\ CacheMax \in Nat
    /\ MaxCrashes \in Nat
    /\ Faults \in SUBSET FaultKinds

Dates == 1..MaxDate
Seqs  == 1..MaxSeq
Saves == [pt : Pts, date : Dates]

VARIABLES
    \* outside the process
    script,     \* the game's autosaves, this time
    wrote,      \* how many it has written
    cache,      \* cache directory: seqno -> save
    sidecar,    \* cache directory: seqno -> playthrough in its .meta.json
    baseFile,   \* <db>.baseline.json
    pin,        \* schema_meta.playthrough_id
    rows,       \* the events table
    imported,   \* the first-save import has put its rows there
    tracked,    \* some character is opted in
    \* inside
    phase,      \* "down", "verify", "run" or "stop"
    verified,   \* startup: the parsed current save, if there is one
    last,       \* last_snapshot
    nextSeq,    \* SaveCache._next_seqno
    protected,  \* SaveCache._protected
    seeds,      \* producer: startup backlog still to be put
    hand,       \* producer: item it is blocked putting
    armed,      \* the watcher is running
    seen,       \* the watcher's signature of the autosave
    pipe,       \* queue and parse window, oldest first
    tick,       \* how far the consumer is with the head of pipe
    recovery,   \* items until chronicler_recovered, 0 when the window is closed
    \* for the properties
    skipped,    \* happenings passed over on purpose
    marred,     \* a save was skipped and kept, or a baseline not written, by a fault
    crashes

gameVars  == <<script, wrote>>
storeVars == <<cache, sidecar, baseFile, pin, rows, imported>>
procVars  == <<phase, verified, last, nextSeq, protected, seeds, hand, armed, seen,
               pipe, tick, recovery>>
vars == <<gameVars, storeVars, tracked, procVars, skipped, marred, crashes>>

\* the autosave in the save directory, and the one it replaced
disk  == IF wrote = 0 THEN NoSave ELSE script[wrote]
older == IF wrote <= 1 THEN NoSave ELSE script[wrote - 1]

\* a fault that skips a save or a baseline write (bound: once in a behaviour)
Mars(f) == f \in Faults /\ ~marred /\ marred' = TRUE

Files == {k \in Seqs : cache[k] # NoSave}

Idle == [at |-> "idle", snap |-> NoSave]

NoItem == [seq |-> 0, pt |-> NoPt]

\* what the diff of saves b and s finds
Happened(b, s) == {h \in Dates : b.date < h /\ h <= s.date}
Found(b, s)    == {[pt |-> s.pt, hap |-> h, stamp |-> s.date] : h \in Happened(b, s)}

Init ==
    /\ script \in Scripts /\ wrote = 0
    /\ cache = [k \in Seqs |-> NoSave]
    /\ sidecar = [k \in Seqs |-> NoPt]
    /\ baseFile = NoSave
    /\ pin = Pin
    /\ rows = {} /\ imported = FALSE
    /\ tracked \in BOOLEAN
    /\ phase = "down" /\ verified = NoSave /\ last = NoSave
    /\ nextSeq = 1 /\ protected = {}
    /\ seeds = <<>> /\ hand = NoItem /\ armed = FALSE /\ seen = NoSave
    /\ pipe = <<>> /\ tick = Idle /\ recovery = 0
    /\ skipped = {} /\ marred = FALSE /\ crashes = 0

-----------------------------------------------------------------------------
(* The environment.                                                        *)

\* the game writes the next autosave over the last one
GameSaves ==
    /\ wrote < Len(script)
    /\ wrote' = wrote + 1
    /\ UNCHANGED <<script, storeVars, tracked, procVars, skipped, marred, crashes>>

\* the user opts characters in: POST .../tracked, auto-track
Track ==
    /\ ~tracked
    /\ tracked' = TRUE
    /\ UNCHANGED <<gameVars, storeVars, procVars, skipped, marred, crashes>>

-----------------------------------------------------------------------------
(* SaveCache.                                                              *)

\* mark_processed on each of S: the files and their sidecars go, unless a
\* file cannot be deleted, and protection ends either way
MarkProcessed(S) ==
    /\ \E stuck \in SUBSET S :
         /\ "unlink" \in Faults \/ stuck = {}
         /\ cache' = [k \in Seqs |-> IF k \in S \ stuck THEN NoSave ELSE cache[k]]
    /\ sidecar' = [k \in Seqs |-> IF k \in S THEN NoPt ELSE sidecar[k]]
    /\ protected' = protected \ S

\* the files gc_oldest deletes, of the files fs: the oldest unprotected ones
GcVictims(fs, prot) ==
    {k \in fs \ prot :
       Cardinality(fs) - Cardinality({j \in fs \ prot : j < k}) > CacheMax}

\* mark_processed, then gc_oldest
MarkProcessedAndGc(k) ==
    \E stuck \in SUBSET {k} :
      LET fs   == Files \ ({k} \ stuck)
          dead == GcVictims(fs, protected \ {k})
      IN  /\ "unlink" \in Faults \/ stuck = {}
          /\ cache' = [j \in Seqs |-> IF j \in fs \ dead THEN cache[j] ELSE NoSave]
          /\ sidecar' = [j \in Seqs |-> IF j = k \/ j \in dead THEN NoPt ELSE sidecar[j]]
          /\ protected' = protected \ {k}

-----------------------------------------------------------------------------
(* Startup.                                                                *)

\* Faulty variant: no pin gate.
MismatchNever(p) == FALSE

\* assert_playthrough_or_pin raises
Mismatch(p) == pin # NoPt /\ p # pin

\* _verify_current_save: the current save, or nothing when there is none, it is
\* of another playthrough or it cannot be parsed
Verified == {IF disk = NoSave \/ Mismatch(disk.pt) THEN NoSave ELSE disk}
              \cup (IF "parse" \in Faults THEN {NoSave} ELSE {})

\* load the baseline, open the cache, verify the current save
Boot ==
    /\ phase = "down" /\ crashes <= MaxCrashes
    /\ phase' = "verify"
    /\ nextSeq' = 1 + Cardinality({k \in Seqs : \E j \in Files : k <= j})
    /\ verified' \in Verified
    /\ UNCHANGED <<gameVars, storeVars, tracked, last, protected, seeds, hand, armed,
                   seen, pipe, tick, recovery, skipped, marred, crashes>>

\* pending(): the CachedSave items of the seqnos S, oldest first
Pending(S) ==
    LET order == CHOOSE f \in [1..Cardinality(S) -> S] :
                   \A m, n \in 1..Cardinality(S) : m < n => f[m] < f[n]
    IN  [n \in 1..Cardinality(S) |-> [seq |-> order[n], pt |-> sidecar'[order[n]]]]

\* cache_save: the copy under the next seqno; a copy that fails uses none
CacheFails == "copy" \in Faults

\* Faulty variant: counts the current save even if it was not cached.
RecoveryWindowOpen(start, n) == IF start = NoSave THEN 0 ELSE n + 1

\* recovery_remaining: how many items close the recovery window
RecoveryWindow(start, n) == IF start = NoSave THEN 0 ELSE n

(***************************************************************************)
(* _select_starting_baseline: a baseline of another playthrough than the   *)
(* current save is dropped, and all of the cache with it.                  *)
(***************************************************************************)
DiscardBaseline == baseFile # NoSave /\ verified # NoSave /\ verified.pt # baseFile.pt

(***************************************************************************)
(* Then the backlog: what an earlier run left in the cache, less what a    *)
(* sidecar says is foreign, then a copy of the current save.  A sidecar    *)
(* that a kill left behind speaks for the next file with its number: that  *)
(* file is skipped, and is back at the next start if it cannot be deleted. *)
(***************************************************************************)
Seed ==
    LET discard == DiscardBaseline
        start   == IF discard THEN NoSave ELSE baseFile
        foreign == {k \in Files : start # NoSave /\ sidecar[k] \notin {NoPt, start.pt}}
        drop    == IF discard THEN Files ELSE foreign
        current == verified # NoSave
    IN  /\ phase = "verify"
        /\ current => nextSeq <= MaxSeq
        /\ \E stuck \in SUBSET drop, copied \in BOOLEAN :
             LET left == IF discard THEN stuck ELSE Files \ drop
                 new  == IF copied THEN {nextSeq} ELSE {}
             IN  /\ "unlink" \in Faults \/ stuck = {}
                 /\ IF copied THEN current ELSE ~current \/ CacheFails
                 /\ cache' = [k \in Seqs |-> IF k \in new THEN disk
                                             ELSE IF k \in drop \ stuck THEN NoSave
                                             ELSE cache[k]]
                 /\ sidecar' = [k \in Seqs |-> IF k \in drop THEN NoPt ELSE sidecar[k]]
                 /\ nextSeq' = nextSeq + Cardinality(new)
                 /\ protected' = left \cup new
                 /\ marred' = (marred \/ \E k \in stuck \ left : sidecar[k] # cache[k].pt)
                 /\ seeds' = Pending(left)
                             \o (IF copied THEN <<[seq |-> nextSeq, pt |-> NoPt]>> ELSE <<>>)
        /\ last' = start
        /\ recovery' = RecoveryWindow(start, Len(seeds'))
        /\ phase' = "run"
        /\ UNCHANGED <<gameVars, baseFile, pin, rows, imported, tracked, verified, hand,
                       armed, seen, pipe, tick, skipped, crashes>>

-----------------------------------------------------------------------------
(* The producer.                                                           *)

Room == Len(pipe) < PipeCap

PutSeed ==
    /\ phase \in {"run", "stop"} /\ seeds # <<>> /\ Room
    /\ pipe' = Append(pipe, Head(seeds))
    /\ seeds' = Tail(seeds)
    /\ UNCHANGED <<gameVars, storeVars, tracked, phase, verified, last, nextSeq, protected,
                   hand, armed, seen, tick, recovery, skipped, marred, crashes>>

\* watch_saves starts; what is already there counts as seen
Arm ==
    /\ phase = "run" /\ seeds = <<>> /\ ~armed
    /\ armed' = TRUE
    /\ seen' = disk
    /\ UNCHANGED <<gameVars, storeVars, tracked, phase, verified, last, nextSeq, protected,
                   seeds, hand, pipe, tick, recovery, skipped, marred, crashes>>

\* cache_save, protect, put; put blocks the producer while the queue is full
Capture(s) ==
    /\ phase = "run" /\ armed /\ hand = NoItem
    /\ nextSeq <= MaxSeq
    /\ \/ /\ cache' = [cache EXCEPT ![nextSeq] = s]
          /\ nextSeq' = nextSeq + 1
          /\ protected' = protected \cup {nextSeq}
          /\ LET item == [seq |-> nextSeq, pt |-> NoPt]
             IN  IF Room THEN pipe' = Append(pipe, item) /\ UNCHANGED hand
                         ELSE hand' = item /\ UNCHANGED pipe
       \/ CacheFails /\ UNCHANGED <<cache, nextSeq, protected, pipe, hand>>
    /\ UNCHANGED <<gameVars, sidecar, baseFile, pin, rows, imported, tracked, phase, verified,
                   last, seeds, armed, tick, recovery, skipped, marred, crashes>>

WatchSave == disk # seen /\ seen' = disk /\ Capture(disk)

\* one write causes several notifications, and some read the old state again
\* (bound: leaves numbers for the saves still to come)
WatchOldRead ==
    /\ older # NoSave /\ UNCHANGED seen
    /\ nextSeq + (Len(script) - wrote) + (MaxCrashes - crashes) < MaxSeq
    /\ Capture(older)

PutHand ==
    /\ hand # NoItem /\ Room
    /\ pipe' = Append(pipe, hand)
    /\ hand' = NoItem
    /\ UNCHANGED <<gameVars, storeVars, tracked, phase, verified, last, nextSeq, protected,
                   seeds, armed, seen, tick, recovery, skipped, marred, crashes>>

-----------------------------------------------------------------------------
(* The consumer, _consume_one and _advance_baseline.                       *)

Ready == phase \in {"run", "stop"} /\ pipe # <<>> /\ tick = Idle

Item == Head(pipe)
Snap == cache[Item.seq]

\* every item consumed while the recovery window is open counts towards its end
PopItem ==
    /\ pipe' = Tail(pipe)
    /\ recovery' = IF recovery > 0 THEN recovery - 1 ELSE 0
    /\ UNCHANGED <<phase, verified, nextSeq, seeds, hand, armed, seen>>

\* Faulty variant: takes an untagged save for foreign.
SidecarForeignUntagged == last # NoSave /\ Item.pt # last.pt

SidecarForeign == Item.pt # NoPt /\ last # NoSave /\ Item.pt # last.pt

\* foreign by its sidecar, not parseable, or refused as first baseline; the tag
\* a refused one gets first goes with its file
ConsumeSkip ==
    /\ Ready
    /\ \/ /\ \/ SidecarForeign
             \/ Snap = NoSave
             \/ last = NoSave /\ Snap # NoSave /\ Mismatch(Snap.pt)
          /\ UNCHANGED marred
       \/ Mars("parse")
    /\ MarkProcessed({Item.seq})
    /\ PopItem
    /\ UNCHANGED <<gameVars, baseFile, pin, rows, imported, tracked, last, tick, skipped, crashes>>

Parsed == Ready /\ ~SidecarForeign /\ Snap # NoSave

Bootstrap == Parsed /\ last = NoSave /\ ~Mismatch(Snap.pt)

Fresh == rows = {} /\ ~imported

Tag == sidecar' = [sidecar EXCEPT ![Item.seq] = Snap.pt]

\* no baseline and an empty events table: import_save, which pins the DB
AutoImport ==
    /\ Bootstrap /\ Fresh
    /\ Tag
    /\ pin' = Snap.pt
    /\ imported' = TRUE
    /\ tick' = [at |-> "imported", snap |-> Snap]
    /\ skipped' = skipped \cup {[pt |-> Snap.pt, hap |-> h] : h \in 1..Snap.date}
    /\ UNCHANGED <<gameVars, cache, baseFile, rows, tracked, phase, verified, last, nextSeq,
                   protected, seeds, hand, armed, seen, pipe, recovery,
                   marred, crashes>>

\* no baseline: this save becomes it, and emits nothing
Adopt ==
    /\ Bootstrap /\ (Fresh => "import" \in Faults)
    /\ Tag
    /\ last' = Snap
    /\ tick' = [at |-> "stored", snap |-> Snap]
    /\ skipped' = skipped \cup {[pt |-> Snap.pt, hap |-> h] : h \in 1..Snap.date}
    /\ UNCHANGED <<gameVars, cache, baseFile, pin, rows, imported, tracked, phase, verified,
                   nextSeq, protected, seeds, hand, armed, seen, pipe, recovery,
                   marred, crashes>>

\* Faulty variant: without the forward-only check.
CandidateAnyDate(s) == s.pt = last.pt

\* _is_advance_candidate: of this playthrough and newer
Candidate(s) == s.pt = last.pt /\ s.date > last.date

\* a foreign or stale save leaves the baseline alone, and its tag goes with it
ConsumeDrop ==
    /\ Parsed /\ last # NoSave /\ ~Candidate(Snap)
    /\ MarkProcessedAndGc(Item.seq)
    /\ PopItem
    /\ UNCHANGED <<gameVars, baseFile, pin, rows, imported, tracked, last, tick, skipped, marred, crashes>>

\* somebody is tracked: diff
ConsumeBegin ==
    /\ Parsed /\ last # NoSave /\ Candidate(Snap) /\ tracked
    /\ Tag
    /\ tick' = [at |-> "diffed", snap |-> Snap]
    /\ UNCHANGED <<gameVars, cache, baseFile, pin, rows, imported, tracked, phase, verified,
                   last, nextSeq, protected, seeds, hand, armed, seen, pipe, recovery,
                   skipped, marred, crashes>>

\* nobody is: move the baseline silently
ConsumeSilent ==
    /\ Parsed /\ last # NoSave /\ Candidate(Snap) /\ ~tracked
    /\ Tag
    /\ tick' = [at |-> "stored", snap |-> Snap]
    /\ skipped' = skipped \cup {[pt |-> Snap.pt, hap |-> h] : h \in Happened(last, Snap)}
    /\ UNCHANGED <<gameVars, cache, baseFile, pin, rows, imported, tracked, phase, verified,
                   last, nextSeq, protected, seeds, hand, armed, seen, pipe, recovery,
                   marred, crashes>>

\* one transaction; an event that fails is rolled back to its savepoint
IngestEvents ==
    /\ tick.at = "diffed"
    /\ \E bad \in SUBSET Found(last, tick.snap) :
         /\ "event" \in Faults \/ bad = {}
         /\ rows' = rows \cup (Found(last, tick.snap) \ bad)
         /\ skipped' = skipped \cup {[pt |-> r.pt, hap |-> r.hap] : r \in bad}
    /\ tick' = [tick EXCEPT !.at = "stored"]
    /\ UNCHANGED <<gameVars, cache, sidecar, baseFile, pin, imported, tracked, phase, verified,
                   last, nextSeq, protected, seeds, hand, armed, seen, pipe, recovery,
                   marred, crashes>>

\* Faulty variant: the baseline may be written before the events commit.
PersistEarly ==
    /\ tick.at \in {"diffed", "stored", "imported"}
    /\ baseFile' = tick.snap
    /\ tick' = IF tick.at = "diffed" THEN tick ELSE [tick EXCEPT !.at = "saved"]
    /\ UNCHANGED <<gameVars, cache, sidecar, pin, rows, imported, tracked, phase, verified,
                   last, nextSeq, protected, seeds, hand, armed, seen, pipe, recovery,
                   skipped, marred, crashes>>

\* save_baseline by rename; an OSError is logged and swallowed
Persist ==
    /\ tick.at \in {"stored", "imported"}
    /\ \/ baseFile' = tick.snap /\ UNCHANGED marred
       \/ Mars("persist") /\ UNCHANGED baseFile
    /\ tick' = [tick EXCEPT !.at = "saved"]
    /\ UNCHANGED <<gameVars, cache, sidecar, pin, rows, imported, tracked, phase, verified,
                   last, nextSeq, protected, seeds, hand, armed, seen, pipe, recovery,
                   skipped, crashes>>

\* the first baseline is established without a gc_oldest
Finish ==
    /\ tick.at = "saved"
    /\ last' = tick.snap
    /\ IF last \in {NoSave, tick.snap} THEN MarkProcessed({Item.seq})
                                       ELSE MarkProcessedAndGc(Item.seq)
    /\ PopItem
    /\ tick' = Idle
    /\ UNCHANGED <<gameVars, baseFile, pin, rows, imported, tracked, skipped, marred, crashes>>

\* a registry write raises: the consumer's per-item guard skips the save
TickRaises ==
    /\ Mars("registry") /\ tick.at \in {"diffed", "stored", "saved"}
    /\ MarkProcessed({Item.seq})
    /\ PopItem
    /\ tick' = Idle
    /\ UNCHANGED <<gameVars, baseFile, pin, rows, imported, tracked, last, skipped, crashes>>

-----------------------------------------------------------------------------
(* Stopping.                                                               *)

\* stop_event: the watcher ends, the sentinel lets the consumer drain the queue
Stop ==
    /\ phase = "run"
    /\ phase' = "stop"
    /\ UNCHANGED <<gameVars, storeVars, tracked, verified, last, nextSeq, protected, seeds,
                   hand, armed, seen, pipe, tick, recovery, skipped, marred, crashes>>

ForgetAll ==
    /\ phase' = "down" /\ verified' = NoSave /\ last' = NoSave
    /\ nextSeq' = 1 /\ protected' = {}
    /\ seeds' = <<>> /\ hand' = NoItem /\ armed' = FALSE /\ seen' = NoSave
    /\ pipe' = <<>> /\ tick' = Idle /\ recovery' = 0
    /\ UNCHANGED <<gameVars, tracked, skipped, marred>>

Stopped ==
    /\ phase = "stop" /\ seeds = <<>> /\ hand = NoItem /\ pipe = <<>>
    /\ crashes' = crashes + 1
    /\ ForgetAll
    /\ UNCHANGED storeVars

\* killed between any two steps
Crash ==
    /\ phase # "down" /\ crashes < MaxCrashes
    /\ crashes' = crashes + 1
    /\ ForgetAll
    /\ UNCHANGED storeVars

\* killed inside mark_processed: the file is gone, its sidecar is not
CrashInDelete ==
    /\ crashes < MaxCrashes
    /\ tick.at = "saved" \/ (Parsed /\ last # NoSave /\ ~Candidate(Snap))
    /\ crashes' = crashes + 1
    /\ Tag
    /\ cache' = [cache EXCEPT ![Item.seq] = NoSave]
    /\ ForgetAll
    /\ UNCHANGED <<baseFile, pin, rows, imported>>

-----------------------------------------------------------------------------
Producer == PutSeed \/ Arm \/ WatchSave \/ WatchOldRead \/ PutHand
Consumer ==
    \/ ConsumeSkip \/ AutoImport \/ Adopt \/ ConsumeDrop
    \/ ConsumeBegin \/ ConsumeSilent \/ IngestEvents \/ Persist \/ Finish \/ TickRaises

Next ==
    \/ GameSaves
    \/ Track
    \/ Boot \/ Seed
    \/ Producer
    \/ Consumer
    \/ Stop \/ Stopped \/ Crash \/ CrashInDelete

Spec == Init /\ [][Next]_vars

(***************************************************************************)
(* The process gets on with what it can do: the event loop runs producer   *)
(* and consumer, rakaly is bounded by a timeout, the watcher is notified   *)
(* of every write.  Nothing makes the game save or the user start it.      *)
(***************************************************************************)
Fairness ==
    /\ WF_vars(Seed)
    /\ WF_vars(PutSeed \/ Arm \/ PutHand)
    /\ WF_vars(WatchSave)
    /\ WF_vars(Consumer)
    /\ WF_vars(Stopped)

FairSpec == Spec /\ Fairness

-----------------------------------------------------------------------------
(* Properties.                                                             *)

Recorded(p, h) == \E r \in rows : r.pt = p /\ r.hap = h

(***************************************************************************)
(* However the process is killed and restarted, a pinned campaign records  *)
(* nothing twice: a happening found again after a crash between commit and *)
(* baseline write (tick.py:686-719) is found by the same save, so it gets  *)
(* the same stamp and the UNIQUE constraint drops it.  Foreign saves, old  *)
(* reads, failed copies and events do not change that; only a fault that   *)
(* keeps a diffed save from becoming the baseline does, or one that keeps  *)
(* a file which was skipped for a sidecar not its own.                     *)
(***************************************************************************)
RecordedOnce ==
    Pin # NoPt /\ ~marred => \A r1, r2 \in rows : r1.pt = r2.pt /\ r1.hap = r2.hap => r1 = r2

(***************************************************************************)
(* The baseline on disk is never ahead of the events table: all that       *)
(* happened up to it is recorded, or was passed over on purpose.  So a     *)
(* restart, which only looks past the baseline, misses nothing.            *)
(***************************************************************************)
NothingLost ==
    baseFile # NoSave =>
      \A h \in 1..baseFile.date :
        Recorded(baseFile.pt, h) \/ [pt |-> baseFile.pt, hap |-> h] \in skipped

(***************************************************************************)
(* Saves of other playthroughs share the directory and the cache (cases    *)
(* 7on, 2faj, 27ov.2): a pinned campaign only ever records its own.        *)
(***************************************************************************)
OnePlaythrough ==
    Pin # NoPt =>
      /\ \A r \in rows : r.pt = Pin
      /\ baseFile = NoSave \/ baseFile.pt = Pin

(***************************************************************************)
(* The recovery banner (ingest.py:835-897) closes, or the process ends.    *)
(***************************************************************************)
RecoveryEnds == recovery > 0 ~> recovery = 0

(***************************************************************************)
(* The tail catches up: a save of the campaign that made it into the cache *)
(* and is still wanted is, unless the process goes down or a fault skips a *)
(* save, in the end passed by the baseline.  A full queue, the old reads   *)
(* and foreign saves before it, and files that cannot be deleted only      *)
(* delay it.                                                               *)
(***************************************************************************)
CatchesUp ==
    \A s \in Saves :
      (phase = "run" /\ last # NoSave /\ s.pt = last.pt
         /\ \E k \in protected : cache[k] = s)
        ~> (phase # "run" \/ marred
             \/ (last # NoSave /\ last.pt = s.pt /\ last.date >= s.date))
=============================================================================
