-------------------------- MODULE DeathBiographies --------------------------
(***************************************************************************)
(* From a death in a save to a biography, and the pause switch between     *)
(* (src/chronicler/narrative/pause.py, save/tick.py, ingest_common.py, the *)
(* llm-pause handler of api/routes/settings.py).  A death is offered to    *)
(* the scheduler once, inside the tick that ingests it.  Two gates read    *)
(* the llm_paused setting through a cache with a time to live; a death     *)
(* that meets the pause is only remembered by the database, and the drains *)
(* (after unpausing, at startup, at teardown) look there for the dead      *)
(* without a biography.  The queue itself dies with the process.           *)
(*                                                                         *)
(* The tick runs in a worker thread and passes the gates there; what they  *)
(* let through it posts to the event loop (call_soon_threadsafe), where    *)
(* handlers and biographies run and where it is enqueued later, without    *)
(* another look at the pause.  All characters here are on the tracked      *)
(* list.                                                                   *)
(***************************************************************************)
EXTENDS Integers, FiniteSets

CONSTANTS
    Chars,
    NoChar,
    MaxToggles,     \* bound: PUT /llm-pause calls
    MaxCrashes,     \* bound: ends of the process
    MaxQueued,      \* bound: biographies of one character queued at a time
    Upsets          \* which of UpsetKinds may happen

UpsetKinds == {"torn",      \* the two threads interleave inside _is_llm_paused
               "commit",    \* the tick's final commit raises
               "drain",     \* a campaign without a scheduler, a drain that raises
               "generate"}  \* a generation fails or is cancelled

ASSUME DeathAssumption ==
    /\ Chars # {} /\ NoChar \notin Chars
    /\ MaxToggles \in Nat /\ MaxCrashes \in Nat /\ MaxQueued \in Nat \ {0}
    /\ Upsets \in SUBSET UpsetKinds

VARIABLES
    \* durable
    paused,     \* settings.json: llm_paused
    deathDate,  \* characters with a committed death_date
    event,      \* characters whose death event is committed
    bios,       \* character -> what its stored biographies were written from
    held,       \* characters paused on the Tracked page (t2v5)
    \* in the process
    phase,      \* "down" (or its tail is), "run" or "stop"
    cached,     \* _llm_paused_cache: its value, and whether it has not expired
    tick,       \* the tick in the worker thread, at most one death each
    handler,    \* the llm-pause handler: "idle", "pausing", "unpausing", "draining"
    posted,     \* characters the tick has posted to the loop
    queue,      \* character -> biographies queued
    writing,    \* character -> its generation: "no", "blind" or "full"
    \* for the properties
    failed,     \* characters with a generation that failed
    misled,     \* a torn read has left a value in the cache that was out of date
    unheld,     \* characters resumed after they died, until a drain looks again
    skipped,    \* characters the last drain should have scheduled and did not
    toggles, crashes

dbVars    == <<deathDate, event, bios>>
userVars  == <<held, toggles>>
offerVars == <<posted, queue, unheld, skipped>>
vars == <<paused, dbVars, userVars, phase, cached, misled, tick, handler, offerVars, writing,
          failed, crashes>>

NoTick == [at |-> "idle", char |-> NoChar, loaded |-> FALSE, pause |-> FALSE]

Stale == [value |-> FALSE, fresh |-> FALSE]

Init ==
    /\ paused \in BOOLEAN
    /\ deathDate = {} /\ event = {}
    /\ bios = [c \in Chars |-> {}]
    /\ held \in SUBSET Chars /\ unheld = {} /\ skipped = {}
    /\ phase = "down"
    /\ cached = Stale /\ misled = FALSE
    /\ tick = NoTick
    /\ handler = "idle"
    /\ posted = {}
    /\ queue = [c \in Chars |-> 0] /\ writing = [c \in Chars |-> "no"]
    /\ failed = {} /\ toggles = 0 /\ crashes = 0

-----------------------------------------------------------------------------
(* The gates.                                                              *)

\* one undisturbed call of _is_llm_paused
IsLlmPaused == IF cached.fresh THEN cached.value ELSE paused

\* and what it leaves in the cache
CacheAfterRead == [value |-> IsLlmPaused, fresh |-> TRUE]

\* Faulty variant: without the scheduler's own look at the global pause.
AdmittedNoGlobal(S) == S \ held

\* schedule's gates: whom of S it enqueues
Admitted(S) == IF IsLlmPaused THEN {} ELSE S \ held

\* schedule each of S, called on the loop
ScheduleAll(S) ==
    /\ \A c \in Admitted(S) : queue[c] < MaxQueued
    /\ queue' = [c \in Chars |-> IF c \in Admitted(S) THEN queue[c] + 1 ELSE queue[c]]
    /\ cached' = IF S \ held = {} THEN cached ELSE CacheAfterRead

\* drain_for_campaign: the dead without a biography
DrainSet == {c \in deathDate : bios[c] = {}}

\* a drain that comes as far as S
Drain(S) ==
    /\ ScheduleAll(S)
    /\ unheld' = unheld \ S
    /\ skipped' = DrainSet \ S
    /\ UNCHANGED posted

\* how far one comes whose caller only logs that it failed
DrainedOf(all) == IF "drain" \in Upsets THEN SUBSET all ELSE {all}

\* a second passes
CacheExpires ==
    /\ phase # "down" /\ cached.fresh
    /\ cached' = [cached EXCEPT !.fresh = FALSE]
    /\ UNCHANGED <<misled, paused, dbVars, userVars, phase, tick, handler, offerVars, writing,
                   failed, crashes>>

-----------------------------------------------------------------------------
(* The tick: "site" is the gate of the call site, "held" and "gate" are    *)
(* the two of schedule, "post" is what has passed them.                    *)

\* c died since the baseline: _refresh_tracked_characters commits death_date
\* in a transaction of its own, then the event's transaction begins.  The loop
\* has run what the tick before posted when it learns that that one is over.
TickRefresh(c) ==
    /\ phase = "run" /\ tick = NoTick /\ posted = {} /\ c \notin event
    /\ deathDate' = deathDate \cup {c}
    /\ tick' = [at |-> "site", char |-> c, loaded |-> FALSE, pause |-> FALSE]
    /\ UNCHANGED <<misled, paused, event, bios, userVars, phase, cached, handler, offerVars,
                   writing, failed, crashes>>

\* where the tick goes on when a gate has answered
AfterGate(answer) ==
    IF answer THEN "commit" ELSE IF tick.at = "site" THEN "held" ELSE "post"

\* should_schedule_death, and schedule's own look at the global pause
TickGate ==
    /\ tick.at \in {"site", "gate"} /\ ~tick.loaded
    /\ tick' = [tick EXCEPT !.at = AfterGate(IsLlmPaused)]
    /\ cached' = CacheAfterRead
    /\ UNCHANGED <<misled, paused, dbVars, userVars, phase, handler, offerVars, writing, failed,
                   crashes>>

\* either call, caught between load_settings and the write of the cache
TickLoad ==
    /\ "torn" \in Upsets
    /\ tick.at \in {"site", "gate"} /\ ~tick.loaded /\ ~cached.fresh
    /\ tick' = [tick EXCEPT !.loaded = TRUE, !.pause = paused]
    /\ UNCHANGED <<misled, paused, dbVars, userVars, phase, cached, handler, offerVars, writing,
                   failed, crashes>>

TickStore ==
    /\ tick.loaded
    /\ tick' = [tick EXCEPT !.at = AfterGate(tick.pause), !.loaded = FALSE, !.pause = FALSE]
    /\ cached' = [value |-> tick.pause, fresh |-> TRUE]
    /\ misled' = (misled \/ tick.pause # paused)
    /\ UNCHANGED <<paused, dbVars, userVars, phase, handler, offerVars, writing, failed, crashes>>

\* schedule's look at the character's own pause
TickHeld ==
    /\ tick.at = "held"
    /\ tick' = [tick EXCEPT !.at = IF tick.char \in held THEN "commit" ELSE "gate"]
    /\ UNCHANGED <<misled, paused, dbVars, userVars, phase, cached, handler, offerVars, writing,
                   failed, crashes>>

\* _enqueue_and_spawn in the thread: call_soon_threadsafe
TickPost ==
    /\ tick.at = "post"
    /\ posted' = posted \cup {tick.char}
    /\ unheld' = unheld \ {tick.char}
    /\ skipped' = skipped \ {tick.char}
    /\ tick' = [tick EXCEPT !.at = "commit"]
    /\ UNCHANGED <<misled, paused, dbVars, userVars, phase, cached, handler, queue, writing,
                   failed, crashes>>

TickCommit ==
    /\ tick.at = "commit"
    /\ event' = event \cup {tick.char}
    /\ tick' = NoTick
    /\ UNCHANGED <<misled, paused, deathDate, bios, userVars, phase, cached, handler, offerVars,
                   writing, failed, crashes>>

\* the consumer skips the save; the next one finds the death again
TickRaises ==
    /\ "commit" \in Upsets /\ tick.at = "commit"
    /\ tick' = NoTick
    /\ UNCHANGED <<misled, paused, dbVars, userVars, phase, cached, handler, offerVars, writing,
                   failed, crashes>>

-----------------------------------------------------------------------------
(* PUT /api/settings/llm-pause.  It has no await: on the loop it is atomic *)
(* but the tick's thread sees every step.                                  *)

LoopFree == phase # "down" /\ handler = "idle"

\* the loop runs what the tick has posted
LoopEnqueues(c) ==
    /\ LoopFree /\ c \in posted /\ queue[c] < MaxQueued
    /\ posted' = posted \ {c}
    /\ queue' = [queue EXCEPT ![c] = @ + 1]
    /\ UNCHANGED <<misled, paused, dbVars, userVars, phase, cached, tick, handler, unheld,
                   skipped, writing, failed, crashes>>

PutPause ==
    /\ LoopFree /\ toggles < MaxToggles
    /\ paused' = TRUE
    /\ handler' = "pausing"
    /\ toggles' = toggles + 1
    /\ UNCHANGED <<misled, dbVars, held, phase, cached, tick, offerVars, writing, failed, crashes>>

PutUnpause ==
    /\ LoopFree /\ toggles < MaxToggles
    /\ paused' = FALSE
    /\ handler' = IF paused THEN "unpausing" ELSE "pausing"
    /\ toggles' = toggles + 1
    /\ UNCHANGED <<misled, dbVars, held, phase, cached, tick, offerVars, writing, failed, crashes>>

\* _reset_llm_paused_cache; only a transition to unpaused goes on to drain
ResetCache ==
    /\ handler \in {"pausing", "unpausing"}
    /\ handler' = IF handler = "unpausing" THEN "draining" ELSE "idle"
    /\ cached' = Stale
    /\ UNCHANGED <<misled, paused, dbVars, userVars, phase, tick, offerVars, writing, failed,
                   crashes>>

\* A campaign whose scheduler cannot be resolved, or whose drain raises half
\* way, is logged, and the handler answers all the same.
UnpauseDrain ==
    /\ handler = "draining"
    /\ \E S \in DrainedOf(DrainSet) : Drain(S)
    /\ handler' = "idle"
    /\ UNCHANGED <<misled, paused, dbVars, userVars, phase, tick, writing, failed, crashes>>

\* POST /tracked/{id}/resume: from now on, deaths are scheduled again
Resume(c) ==
    /\ LoopFree /\ c \in held
    /\ held' = held \ {c}
    /\ unheld' = IF c \in deathDate THEN unheld \cup {c} ELSE unheld
    /\ UNCHANGED <<misled, paused, dbVars, toggles, phase, cached, tick, handler, posted, queue,
                   skipped, writing, failed, crashes>>

-----------------------------------------------------------------------------
(* Biographies (their scheduling is the subject of NarrativeScheduler).    *)

\* Faulty variant: what is still queued when the tail stops stays there.
BiographyReadsRunning(c) ==
    /\ LoopFree /\ phase = "run" /\ queue[c] > 0 /\ writing[c] = "no"
    /\ queue' = [queue EXCEPT ![c] = @ - 1]
    /\ writing' = [writing EXCEPT ![c] = IF c \in event THEN "full" ELSE "blind"]
    /\ UNCHANGED <<misled, paused, dbVars, userVars, phase, cached, tick, handler, posted, unheld,
                   skipped, failed, crashes>>

\* phase 1 reads what is committed: with the death event, or blind to it
BiographyReads(c) ==
    /\ LoopFree /\ queue[c] > 0 /\ writing[c] = "no"
    /\ queue' = [queue EXCEPT ![c] = @ - 1]
    /\ writing' = [writing EXCEPT ![c] = IF c \in event THEN "full" ELSE "blind"]
    /\ UNCHANGED <<misled, paused, dbVars, userVars, phase, cached, tick, handler, posted, unheld,
                   skipped, failed, crashes>>

BiographyStored(c) ==
    /\ LoopFree /\ writing[c] # "no"
    /\ bios' = [bios EXCEPT ![c] = @ \cup {writing[c]}]
    /\ writing' = [writing EXCEPT ![c] = "no"]
    /\ UNCHANGED <<misled, paused, deathDate, event, userVars, phase, cached, tick, handler,
                   offerVars, failed, crashes>>

BiographyFails(c) ==
    /\ "generate" \in Upsets
    /\ LoopFree /\ writing[c] # "no"
    /\ writing' = [writing EXCEPT ![c] = "no"]
    /\ failed' = failed \cup {c}
    /\ UNCHANGED <<misled, paused, dbVars, userVars, phase, cached, tick, handler, offerVars,
                   crashes>>

-----------------------------------------------------------------------------
(* The process.                                                            *)

\* Faulty variant: without _startup_catchup_scan.
StartupNoScan ==
    /\ phase = "down" /\ phase' = "run"
    /\ UNCHANGED <<misled, paused, dbVars, userVars, cached, tick, handler, offerVars, writing,
                   failed, crashes>>

\* run_save_ingest with _startup_catchup_scan; when that raises there is no tail
Startup ==
    /\ phase = "down" /\ phase' = "run"
    /\ Drain(DrainSet)
    /\ UNCHANGED <<misled, paused, dbVars, userVars, tick, handler, writing, failed, crashes>>

\* stop_event, or the task is cancelled while the tick's thread goes on: the
\* last-chance drain, whose failure is only logged
Stop ==
    /\ phase = "run" /\ handler = "idle"
    /\ phase' = "stop"
    /\ \E S \in DrainedOf(DrainSet) : Drain(S)
    /\ UNCHANGED <<misled, paused, dbVars, userVars, tick, handler, writing, failed, crashes>>

ForgetAll ==
    /\ phase' = "down" /\ cached' = Stale /\ misled' = FALSE
    /\ tick' = NoTick /\ handler' = "idle" /\ posted' = {}
    /\ queue' = [c \in Chars |-> 0] /\ writing' = [c \in Chars |-> "no"]
    /\ crashes' = crashes + 1
    /\ UNCHANGED <<paused, dbVars, userVars, unheld, skipped, failed>>

\* scheduler.drain has waited for every biography, or given up on them
Stopped == phase = "stop" /\ handler = "idle" /\ crashes < MaxCrashes /\ ForgetAll

Crash == phase # "down" /\ crashes < MaxCrashes /\ ForgetAll

-----------------------------------------------------------------------------
TickNext ==
    \/ \E c \in Chars : TickRefresh(c)
    \/ TickGate \/ TickLoad \/ TickStore \/ TickHeld \/ TickPost \/ TickCommit \/ TickRaises

HandlerNext == ResetCache \/ UnpauseDrain

BiographyNext(c) == BiographyReads(c) \/ BiographyStored(c) \/ BiographyFails(c)

Next ==
    \/ TickNext
    \/ CacheExpires
    \/ PutPause \/ PutUnpause \/ HandlerNext
    \/ \E c \in Chars : LoopEnqueues(c) \/ Resume(c) \/ BiographyNext(c)
    \/ Startup \/ Stop \/ Stopped \/ Crash

Spec == Init /\ [][Next]_vars

(***************************************************************************)
(* Threads and loop run; every generation ends (the CLI has a timeout);    *)
(* the user starts the program again.  Nobody has to unpause.              *)
(***************************************************************************)
Fairness ==
    /\ WF_vars(TickGate \/ TickStore \/ TickHeld \/ TickPost \/ TickCommit)
    /\ WF_vars(HandlerNext)
    /\ \A c \in Chars : WF_vars(LoopEnqueues(c)) /\ WF_vars(BiographyNext(c))
    /\ WF_vars(Startup)

FairSpec == Spec /\ Fairness

-----------------------------------------------------------------------------
(* Properties.                                                             *)

\* a biography of c is written, being written or going to be
Chronicled(c) == bios[c] # {} \/ queue[c] > 0 \/ writing[c] # "no" \/ c \in posted

(***************************************************************************)
(* "On unpause, drain_for_campaign re-finds dead-without-biography         *)
(* characters and fires them" (tick.py:291-294): a death that has been     *)
(* ingested has its biography coming, or the pause is still on, or one of  *)
(* the drains that will find it is still ahead.  Excepted are characters   *)
(* the user held back, whose generation failed, or whom the last drain     *)
(* skipped for want of a scheduler or because it raised, and a process     *)
(* whose pause cache a torn read has misled.                               *)
(***************************************************************************)
Awaited(c) ==
    \/ Chronicled(c)
    \/ c \in held \cup unheld \cup failed \cup skipped
    \/ paused
    \/ handler \in {"unpausing", "draining"}
    \/ phase = "down"
NoDeathForgotten == misled \/ \A c \in event : Awaited(c)

\* how many biographies of c have passed the gates and not begun
Passed(c) ==
    queue[c] + (IF c \in posted THEN 1 ELSE 0)
             + (IF tick.at = "post" /\ tick.char = c THEN 1 ELSE 0)

(***************************************************************************)
(* Once the handler has answered, the pause is honoured: whatever a gate   *)
(* had read or cached before, nothing more is let through automatically,   *)
(* by the tick's gates or by a drain, again unless a torn read has put an  *)
(* old value back.  What had passed the gates before the answer, at most   *)
(* the one death of the tick under way, is still enqueued after it.        *)
(***************************************************************************)
PauseHonoured ==
    [][(\E c \in Chars : Passed(c)' > Passed(c)) => ~paused \/ handler = "pausing" \/ misled']_vars

(***************************************************************************)
(* What is lost with the process, or was missed by it, the next one makes  *)
(* up for: _startup_catchup_scan finds every death of the time before.     *)
(***************************************************************************)
RestartRecovers ==
    \A c \in Chars :
      (phase = "down" /\ c \in event /\ c \notin held)
        ~> (bios[c] # {} \/ paused \/ c \in failed)

=============================================================================
