----------------------------- MODULE LogTailer -----------------------------
(***************************************************************************)
(* The debug-log transport: the game's mod writes a tagged line per event  *)
(* and, right after it, a dump whose first line names the character; the   *)
(* tailer pairs the two, records the event (or quarantines it) and         *)
(* persists how far it has read.  The log can be rotated under it.         *)
(*                                                                         *)
(*   file     the lines now in debug.log; lines stand for bytes            *)
(*   script   what the mod still has to write of the current event         *)
(*   todo     events the mod has not begun                                 *)
(*   up, pos, pend, fed   the tailer: running, its offset in memory, the   *)
(*            event waiting for its dump, and whether the line it last     *)
(*            read still has to be stepped over in the registry            *)
(*   saved    the offset the registry holds                                *)
(*   events, quarantine   what the campaign database holds                 *)
(*   muted    the user has suppressed the event kind                       *)
(*   rotating the rotation under way                                       *)
(*   read, lost, dropped, known, cut   history: tags read; pending at a    *)
(*            crash; silenced; lines of the present file read; a rotation  *)
(*            took lines that the tailer had still to read, or to read     *)
(*            again                                                        *)
(***************************************************************************)
EXTENDS Naturals, Sequences, FiniteSets, SequencesExt

CONSTANTS Events, Malformed, Invalid, ScopeTimeout, MaxNoise, MaxFaults,
          None

\* A pending event: its tag, the character of its dump once seen, whether a
\* saved scope was seen, and its age in lines.
Pendings == [ev : Events, owner : Events \cup {None}, full : BOOLEAN, age : Nat]

ASSUME TailerAssumption ==
    /\ Malformed \cup Invalid \subseteq Events
    /\ None \notin Events /\ None \notin Pendings
    /\ ScopeTimeout \in Nat /\ MaxNoise \in Nat /\ MaxFaults \in Nat

VARIABLES file, script, todo, up, pos, pend, fed, saved, events, quarantine,
          muted, rotating, read, lost, dropped, known, cut, noise, faults

game     == <<script, todo, noise>>
tailer   == <<up, pos, pend, fed>>
store    == <<events, quarantine, dropped>>
missed   == <<known, cut>>
logVars == <<file, game, tailer, saved, store, muted, rotating, missed, read, lost, faults>>

Line(k, e) == [kind |-> k, ev |-> e]

(***************************************************************************)
(* The mod and the engine.  Lines without an id may fall between a tag and *)
(* its dump; they also end a dump.                                         *)
(***************************************************************************)
Emit(e) ==
    /\ script = <<>> /\ e \in todo
    /\ script' = <<Line("tag", e), Line("root", e), Line("scope", e)>>
    /\ todo' = todo \ {e}
    /\ UNCHANGED <<file, tailer, saved, store, muted, rotating, missed, read, lost, noise, faults>>

Append1(l) == file' = Append(file, l)

WriteLine ==
    /\ script # <<>>
    /\ Append1(Head(script)) /\ script' = Tail(script)
    /\ UNCHANGED <<todo, tailer, saved, store, muted, rotating, missed, read, lost, noise, faults>>

Noise ==
    /\ noise < MaxNoise /\ noise' = noise + 1
    /\ script # <<>> => Head(script).kind = "root"
    /\ Append1(Line("noise", None))
    /\ UNCHANGED <<script, todo, tailer, saved, store, muted, rotating, missed, read, lost, faults>>

(***************************************************************************)
(* IncrementalParser.                                                      *)
(***************************************************************************)
Pending(e) == [ev |-> e, owner |-> None, full |-> FALSE, age |-> 0]

Good(p) == [ok |-> TRUE, ev |-> p.ev, owner |-> p.owner, full |-> p.full]
Bad(e)  == [ok |-> FALSE, ev |-> e]

\* _finalise: no character, or an envelope the schema refuses, is a failure.
Finalise(p) == IF p.owner = None \/ p.ev \in Invalid THEN Bad(p.ev) ELSE Good(p)

\* Faulty variant: a new tag keeps the pending event's dump.
FeedTagReusing(p, l) ==
    LET before == IF p = None THEN <<>> ELSE <<Finalise(p)>> IN
    IF l.ev \in Malformed
    THEN [out |-> Append(before, Bad(l.ev)), pend |-> None]
    ELSE [out |-> before,
          pend |-> IF p = None THEN Pending(l.ev) ELSE [p EXCEPT !.ev = l.ev]]

\* A tag ends the dump before it; a malformed one is a failure at once.
FeedTag(p, l) ==
    LET before == IF p = None THEN <<>> ELSE <<Finalise(p)>> IN
    IF l.ev \in Malformed
    THEN [out |-> Append(before, Bad(l.ev)), pend |-> None]
    ELSE [out |-> before, pend |-> Pending(l.ev)]

\* Any other line, with an event pending: the line limit comes first, then the
\* engine's prefix (dump start, noise, or dump end), then the dump's body.
FeedBody(p, l) ==
    LET q == [p EXCEPT !.age = @ + 1]
        prefixed == l.kind \in {"root", "noise"} IN
    CASE q.age >= ScopeTimeout -> [out |-> <<Bad(p.ev)>>, pend |-> None]
      [] q.age < ScopeTimeout /\ prefixed /\ p.owner # None ->
            [out |-> <<Finalise(q)>>, pend |-> None]
      [] q.age < ScopeTimeout /\ l.kind = "root" /\ p.owner = None ->
            [out |-> <<>>, pend |-> [q EXCEPT !.owner = l.ev]]
      [] q.age < ScopeTimeout /\ l.kind = "noise" /\ p.owner = None ->
            [out |-> <<>>, pend |-> q]
      [] q.age < ScopeTimeout /\ l.kind = "scope" ->
            [out |-> <<>>, pend |-> [q EXCEPT !.full = TRUE]]

Feed(p, l) == IF l.kind = "tag" THEN FeedTag(p, l)
              ELSE IF p = None THEN [out |-> <<>>, pend |-> None]
              ELSE FeedBody(p, l)

\* Faulty variant: the pending event is forgotten at the end.
FlushNothing(p) == <<>>

\* At the end of the stream a dump that has begun counts as complete.
Flush(p) == IF p = None THEN <<>> ELSE <<Finalise(p)>>

(***************************************************************************)
(* _apply_result for each result: an event is inserted unless its key is   *)
(* there; a failure of a suppressed kind is dropped, any other is          *)
(* quarantined.  The kind of a malformed line is unknown, so never muted.  *)
(***************************************************************************)
Key(x) == <<x.ev, x.owner>>
Silent(silenced, x) == silenced /\ x.ev \notin Malformed

Apply(out, silenced) ==
    LET fresh(x) == x.ok /\ \A y \in events : Key(y) # Key(x)
        refused == {x \in Range(out) : ~x.ok} IN
    /\ events' = events \cup {x \in Range(out) : fresh(x)}
    /\ dropped' = dropped \cup {x.ev : x \in {y \in refused : Silent(silenced, y)}}
    /\ quarantine' = quarantine \cup {x.ev : x \in {y \in refused : ~Silent(silenced, y)}}

\* The suppression check is cached for _REGISTRY_PREDICATE_TTL_SECONDS, so
\* after a change the tailer may still act on the answer before it.
Answers == IF muted THEN BOOLEAN ELSE {FALSE}

\* One line: feed and apply in one transaction; the offset is saved after it.
ReadLine ==
    /\ up /\ ~fed /\ pos < Len(file)
    /\ LET l == file[pos + 1]
           f == Feed(pend, l) IN
          /\ \E silenced \in Answers : Apply(f.out, silenced)
          /\ pend' = f.pend
          /\ read' = IF l.kind = "tag" THEN read \cup {l.ev} ELSE read
    /\ pos' = pos + 1 /\ fed' = TRUE
    /\ cut' = (cut \/ pos > known)
    /\ known' = IF pos < known THEN known ELSE pos + 1
    /\ UNCHANGED <<file, game, up, saved, muted, rotating, lost, faults>>

\* set_tail_offset, touch_last_event_at.
SaveOffset ==
    /\ up /\ fed
    /\ saved' = pos /\ fed' = FALSE
    /\ UNCHANGED <<file, game, up, pos, pend, store, muted, rotating, missed, read, lost, faults>>

\* The file is shorter than the offset: start over.
ResetOffset ==
    /\ up /\ ~fed /\ Len(file) < pos
    /\ pos' = 0
    /\ UNCHANGED <<file, game, up, pend, fed, saved, store, muted, rotating, missed, read, lost, faults>>

StartTailer ==
    /\ ~up
    /\ up' = TRUE /\ pos' = saved /\ pend' = None /\ fed' = FALSE
    /\ UNCHANGED <<file, game, saved, store, muted, rotating, missed, read, lost, faults>>

Fault == faults < MaxFaults /\ faults' = faults + 1

\* The loop's finally: what is pending is flushed and applied.
Stop ==
    /\ up /\ ~fed /\ Fault
    /\ \E silenced \in Answers : Apply(Flush(pend), silenced)
    /\ up' = FALSE /\ pend' = None
    /\ UNCHANGED <<file, game, pos, fed, saved, muted, rotating, missed, read, lost>>

Crash ==
    /\ up /\ Fault
    /\ up' = FALSE /\ pend' = None /\ fed' = FALSE
    /\ lost' = IF pend = None THEN lost ELSE lost \cup {pend.ev}
    /\ UNCHANGED <<file, game, pos, saved, store, muted, rotating, missed, read>>

Mute ==
    /\ ~muted /\ Fault
    /\ muted' = TRUE
    /\ UNCHANGED <<file, game, tailer, saved, store, rotating, missed, read, lost>>

(***************************************************************************)
(* Rotation: copy the log, truncate it (which may fail), then set every    *)
(* campaign's persisted offset to 0.                                       *)
(***************************************************************************)
RotateCopy ==
    /\ rotating = "no" /\ file # <<>> /\ Fault
    /\ rotating' = "copied"
    /\ UNCHANGED <<file, game, tailer, saved, store, muted, missed, read, lost>>

RotateTruncate ==
    /\ rotating = "copied"
    /\ \/ /\ file' = <<>> /\ known' = 0
          /\ cut' = (cut \/ known < Len(file) \/ (up /\ pos < Len(file)))
       \/ UNCHANGED <<file, missed>>
    /\ rotating' = "truncated"
    /\ UNCHANGED <<game, tailer, saved, store, muted, read, lost, faults>>

RotateReset ==
    /\ rotating = "truncated"
    /\ saved' = 0 /\ rotating' = "no"
    /\ UNCHANGED <<file, game, tailer, store, muted, missed, read, lost, faults>>

LogInit ==
    /\ file = <<>> /\ script = <<>> /\ todo = Events
    /\ up = FALSE /\ pos = 0 /\ pend = None /\ fed = FALSE /\ saved = 0
    /\ events = {} /\ quarantine = {} /\ dropped = {}
    /\ muted = FALSE /\ rotating = "no" /\ known = 0 /\ cut = FALSE
    /\ read = {} /\ lost = {} /\ noise = 0 /\ faults = 0

Run == ReadLine \/ SaveOffset \/ ResetOffset \/ StartTailer

LogNext ==
    \/ \E e \in Events : Emit(e)
    \/ WriteLine \/ Noise
    \/ Run \/ Stop \/ Crash
    \/ Mute \/ RotateCopy \/ RotateTruncate \/ RotateReset

LogSpec == LogInit /\ [][LogNext]_logVars

-----------------------------------------------------------------------------
Settled == {x.ev : x \in events} \cup quarantine \cup dropped
Waiting == IF pend = None THEN {} ELSE {pend.ev}

\* Every tagged line the tailer has read is an event, a quarantined or silenced
\* failure, or still waiting for its dump, whatever noise, malformed lines,
\* restarts and rotations come between; only a crash can lose one, the one
\* waiting at that moment.
TagsAccounted == read \subseteq Settled \cup Waiting \cup lost

\* An event is recorded for the character its own dump names, never for the one
\* of a neighbouring event, unless a rotation took lines still to be read.
RightOwner == cut \/ \A x \in events : x.owner = x.ev

=============================================================================
