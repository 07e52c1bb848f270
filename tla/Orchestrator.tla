---------------------------- MODULE Orchestrator ----------------------------
(***************************************************************************)
(* The save-tails of one process (src/chronicler/orchestrator.py): which   *)
(* campaigns have a run_save_ingest task, and the two dicts that say so,   *)
(* ingest_tasks and app.state.narrative_schedulers.  A tail that reads a   *)
(* save of another known campaign hands over to it: the worker thread that *)
(* found out posts _do_switch to the event loop, which spawns a tail for   *)
(* the other campaign and cancels this one.  A cancelled tail takes its    *)
(* time to end (it drains its biographies), and when it has ended its done *)
(* callback takes the campaign out of both dicts.                          *)
(*                                                                         *)
(* A task is a slot t of Tails, the first free one when it is created.     *)
(* Its states: "none", "new" (created), "run", "closing" (in the finally   *)
(* block), "done" (its callback is pending); after the callback the slot   *)
(* is "none" again.                                                        *)
(***************************************************************************)
EXTENDS Integers, FiniteSetsExt

CONSTANTS
    Camps,      \* known, active campaigns
    MaxTails,   \* bound: tasks there can be at a time
    NoCamp,
    MaxPlays,   \* bound: how often the user changes to another campaign
    MaxAdopts,  \* bound: campaigns adopted, the one given at startup included
    Upsets      \* which of UpsetKinds may happen

UpsetKinds == {"fail",      \* a tail ends with an exception
               "halt",      \* POST /migrate/halt-save-tail
               "teardown"}  \* the server stops

ASSUME OrchestratorAssumption ==
    /\ Camps # {} /\ NoCamp \notin Camps
    /\ MaxTails \in Nat \ {0}
    /\ MaxPlays \in Nat /\ MaxAdopts \in Nat
    /\ Upsets \in SUBSET UpsetKinds

Tails == 1..MaxTails
NoTail == 0

VARIABLES
    st,             \* state of each task
    camp,           \* the campaign it was spawned for
    doomed,         \* tasks with a cancel they have not seen yet
    ingestTasks,    \* campaign -> task
    schedulers,     \* narrative_schedulers: campaign -> task that owns it
    posts,          \* task -> the other campaign its worker thread met, until
                    \* the _do_switch that the thread posts has run
    inbox,          \* campaign -> campaigns with a save its tail has to read
    playing,        \* the campaign being played
    plays, adopts,
    stop,           \* save_tail_stop
    server,         \* "up", "teardown" or "exited"
    gathered,       \* tasks that teardown waits for
    superseded,     \* tasks a switch has cancelled (for the properties)
    failed          \* a tail has failed

tailVars == <<st, camp, doomed, ingestTasks, schedulers, posts, superseded>>
userVars == <<playing, plays, adopts>>
procVars == <<stop, server, gathered, failed>>
vars == <<tailVars, inbox, userVars, procVars>>

Init ==
    /\ st = [t \in Tails |-> "none"]
    /\ camp = [t \in Tails |-> NoCamp]
    /\ doomed = {}
    /\ posts = [t \in Tails |-> NoCamp]
    /\ ingestTasks = [c \in Camps |-> NoTail]
    /\ schedulers = [c \in Camps |-> NoTail]
    /\ inbox = [c \in Camps |-> {}]
    /\ playing \in Camps /\ plays = 0 /\ adopts = 0
    /\ stop = FALSE /\ server = "up" /\ gathered = {}
    /\ superseded = {} /\ failed = FALSE

-----------------------------------------------------------------------------
(* Spawning and switching.                                                 *)

Done(t) == st[t] \in {"none", "done"}

\* the idempotence guard: a task is registered for c and not done
Tailing(c) == ingestTasks[c] # NoTail /\ ~Done(ingestTasks[c])

\* create_task, add_done_callback and the entry in ingest_tasks, in a slot
\* whose last task has left nothing behind
FreeSlots == {t \in Tails : st[t] = "none" /\ posts'[t] = NoCamp}
SpawnIn(c, tasks) ==
    /\ FreeSlots # {}
    /\ st' = [st EXCEPT ![Min(FreeSlots)] = "new"]
    /\ camp' = [camp EXCEPT ![Min(FreeSlots)] = c]
    /\ ingestTasks' = [tasks EXCEPT ![c] = Min(FreeSlots)]

\* adopt-from-save, or the campaign given at startup
Adopt(c) ==
    /\ server = "up" /\ ~Tailing(c)
    /\ adopts < MaxAdopts /\ adopts' = adopts + 1
    /\ UNCHANGED <<doomed, posts, schedulers, superseded, inbox, playing, plays, procVars>>
    /\ SpawnIn(c, ingestTasks)

\* the task runs: run_save_ingest builds its scheduler and hands it back
Start(t) ==
    /\ st[t] = "new" /\ t \notin doomed
    /\ st' = [st EXCEPT ![t] = "run"]
    /\ schedulers' = [schedulers EXCEPT ![camp[t]] = t]
    /\ UNCHANGED <<camp, doomed, ingestTasks, posts, superseded, inbox, userVars, procVars>>

\* Faulty variant: the worker thread's notification never reaches the loop.
ReadForeignUnposted(t, o) ==
    /\ st[t] = "run" /\ t \notin doomed /\ posts[t] = NoCamp
    /\ o \in inbox[camp[t]]
    /\ inbox' = [inbox EXCEPT ![camp[t]] = @ \ {o}]
    /\ UNCHANGED <<tailVars, userVars, procVars>>

(***************************************************************************)
(* The consumer takes a save of campaign o to a worker thread, where       *)
(* _maybe_notify_foreign_playthrough posts _do_switch to the loop.  The    *)
(* consumer gets on only after that, but a cancelled task does not stop    *)
(* its thread: the post may come when the task is long gone.               *)
(***************************************************************************)
ReadForeign(t, o) ==
    /\ st[t] = "run" /\ t \notin doomed /\ posts[t] = NoCamp
    /\ o \in inbox[camp[t]]
    /\ inbox' = [inbox EXCEPT ![camp[t]] = @ \ {o}]
    /\ posts' = [posts EXCEPT ![t] = o]
    /\ UNCHANGED <<st, camp, doomed, ingestTasks, schedulers, superseded, userVars, procVars>>

\* Faulty variant: the superseded task stays in ingest_tasks.
SupersedeNoPop(a, tasks) ==
    LET old == tasks[a]
    IN  IF old # NoTail /\ ~Done(old)
        THEN [tasks |-> tasks, pop |-> TRUE, dead |-> {old}]
        ELSE [tasks |-> tasks, pop |-> FALSE, dead |-> {}]

\* Faulty variant: its scheduler stays in narrative_schedulers.
SupersedeKeepScheduler(a, tasks) ==
    LET old == tasks[a]
    IN  IF old # NoTail /\ ~Done(old)
        THEN [tasks |-> [tasks EXCEPT ![a] = NoTail], pop |-> FALSE, dead |-> {old}]
        ELSE [tasks |-> tasks, pop |-> FALSE, dead |-> {}]

\* second half of _do_switch: pop this campaign's task and scheduler, cancel
Supersede(a, tasks) ==
    LET old == tasks[a]
    IN  IF old # NoTail /\ ~Done(old)
        THEN [tasks |-> [tasks EXCEPT ![a] = NoTail], pop |-> TRUE, dead |-> {old}]
        ELSE [tasks |-> tasks, pop |-> FALSE, dead |-> {}]

DoSwitch(p) ==
    /\ posts[p] # NoCamp /\ server # "exited"
    /\ posts' = [posts EXCEPT ![p] = NoCamp]
    /\ LET a == camp[p]
           b == posts[p]
           s == Supersede(a, ingestTasks)
       IN  /\ IF Tailing(b) THEN ingestTasks' = s.tasks /\ UNCHANGED <<st, camp>>
              ELSE SpawnIn(b, s.tasks)
           /\ superseded' = superseded \cup s.dead
           /\ schedulers' = IF s.pop THEN [schedulers EXCEPT ![a] = NoTail] ELSE schedulers
           /\ doomed' = doomed \cup s.dead
    /\ UNCHANGED <<inbox, userVars, procVars>>

-----------------------------------------------------------------------------
(* How a task ends.                                                        *)

\* CancelledError: at once if it never ran, else through the finally block;
\* a second one, at teardown, ends the drain in it
CancelLands(t) ==
    /\ t \in doomed
    /\ st' = [st EXCEPT ![t] = IF @ = "run" THEN "closing" ELSE "done"]
    /\ doomed' = doomed \ {t}
    /\ UNCHANGED <<camp, ingestTasks, schedulers, posts, superseded, inbox, userVars, procVars>>

\* the stop event, seen after the save in hand
StopSeen(t) ==
    /\ stop /\ st[t] = "run" /\ t \notin doomed /\ posts[t] = NoCamp
    /\ st' = [st EXCEPT ![t] = "closing"]
    /\ UNCHANGED <<camp, doomed, ingestTasks, schedulers, posts, superseded, inbox, userVars,
                   procVars>>

\* bound: a behaviour has a failure or a halt, and a teardown only without a failure
Undisturbed == ~failed /\ ~stop

TailFails(t) ==
    /\ "fail" \in Upsets /\ Undisturbed /\ st[t] = "run" /\ t \notin doomed
    /\ st' = [st EXCEPT ![t] = "closing"]
    /\ failed' = TRUE
    /\ UNCHANGED <<camp, doomed, ingestTasks, schedulers, posts, superseded, inbox, userVars,
                   stop, server, gathered>>

\* the finally block: parse pool, last biographies, scheduler.drain
DrainEnds(t) ==
    /\ st[t] = "closing"
    /\ st' = [st EXCEPT ![t] = "done"]
    /\ doomed' = doomed \ {t}
    /\ UNCHANGED <<camp, ingestTasks, schedulers, posts, superseded, inbox, userVars, procVars>>

\* _on_done pops by campaign, whichever task is registered by now
OnDone(t) ==
    /\ st[t] = "done"
    /\ st' = [st EXCEPT ![t] = "none"]
    /\ ingestTasks' = [ingestTasks EXCEPT ![camp[t]] = NoTail]
    /\ schedulers' = [schedulers EXCEPT ![camp[t]] = NoTail]
    /\ superseded' = superseded \ {t}
    /\ camp' = [camp EXCEPT ![t] = IF posts[t] = NoCamp THEN NoCamp ELSE @]
    /\ gathered' = gathered \ {t}
    /\ UNCHANGED <<doomed, posts, inbox, userVars, stop, server, failed>>

-----------------------------------------------------------------------------
(* The game and the server.                                                *)

Play(c) ==
    /\ server = "up" /\ plays < MaxPlays /\ c # playing
    /\ playing' = c /\ plays' = plays + 1
    /\ UNCHANGED <<tailVars, inbox, adopts, procVars>>

\* every running tail has the directory of all campaigns' saves to read
GameSaves ==
    /\ server = "up"
    /\ inbox' = [c \in Camps |->
                   IF c # playing /\ (\E t \in Tails : st[t] = "run" /\ camp[t] = c)
                   THEN inbox[c] \cup {playing} ELSE inbox[c]]
    /\ UNCHANGED <<tailVars, userVars, procVars>>

\* POST /migrate/halt-save-tail
HaltSaveTail ==
    /\ "halt" \in Upsets /\ Undisturbed /\ server = "up"
    /\ stop' = TRUE
    /\ UNCHANGED <<tailVars, inbox, userVars, server, gathered, failed>>

\* Faulty variant: waits for the tails without cancelling them.
TeardownNoCancel ==
    /\ "teardown" \in Upsets /\ ~failed /\ server = "up"
    /\ server' = "teardown"
    /\ gathered' = {ingestTasks[c] : c \in Camps} \ {NoTail}
    /\ UNCHANGED <<tailVars, inbox, userVars, stop, failed>>

\* uvicorn has stopped: signal the tails, cancel the registered ones, gather
Teardown ==
    /\ "teardown" \in Upsets /\ ~failed /\ server = "up"
    /\ server' = "teardown" /\ stop' = TRUE
    /\ gathered' = {ingestTasks[c] : c \in Camps} \ {NoTail}
    /\ doomed' = doomed \cup {t \in gathered' : ~Done(t)}
    /\ UNCHANGED <<st, camp, ingestTasks, schedulers, posts, superseded, inbox, userVars,
                   failed>>

\* run_dev returns; asyncio.run cancels whatever is left
Exit ==
    /\ server = "teardown" /\ \A t \in gathered : Done(t)
    /\ server' = "exited"
    /\ st' = [t \in Tails |-> "none"] /\ doomed' = {}
    /\ camp' = [t \in Tails |-> NoCamp] /\ posts' = [t \in Tails |-> NoCamp]
    /\ ingestTasks' = [c \in Camps |-> NoTail] /\ schedulers' = [c \in Camps |-> NoTail]
    /\ inbox' = [c \in Camps |-> {}]
    /\ gathered' = {} /\ superseded' = {}
    /\ UNCHANGED <<userVars, stop, failed>>

-----------------------------------------------------------------------------
TailStep(t) ==
    \/ Start(t) \/ (\E o \in Camps : ReadForeign(t, o)) \/ DoSwitch(t)
    \/ CancelLands(t) \/ StopSeen(t) \/ DrainEnds(t) \/ OnDone(t)

Next ==
    \/ \E c \in Camps : Adopt(c) \/ Play(c)
    \/ \E t \in Tails : TailStep(t) \/ TailFails(t)
    \/ GameSaves
    \/ HaltSaveTail \/ Teardown \/ Exit

Spec == Init /\ [][Next]_vars

(***************************************************************************)
(* The event loop runs what is ready; a drain is bounded by its timeout    *)
(* (scheduler.py:497-511); the game writes autosaves as long as it is      *)
(* played.  Nobody has to adopt a campaign, change it or stop the server.  *)
(***************************************************************************)
Fairness ==
    /\ \A t \in Tails : WF_vars(TailStep(t))
    /\ WF_vars(GameSaves)
    /\ WF_vars(Exit)

FairSpec == Spec /\ Fairness

-----------------------------------------------------------------------------
(* Properties.                                                             *)

\* a tail at work: spawned and not cancelled
AtWork(t) == st[t] \in {"new", "run"} /\ t \notin doomed

(***************************************************************************)
(* A switch never leaves the process without a tail: it spawns the other   *)
(* campaign's tail, or finds one at work, before it cancels this one, even *)
(* when the posts of several tails, dead ones included, pile up (208-260). *)
(* A save of another campaign could otherwise go unnoticed for ever.       *)
(***************************************************************************)
NeverUntailed ==
    adopts > 0 /\ ~stop /\ ~failed /\ server # "exited" => \E t \in Tails : AtWork(t)

(***************************************************************************)
(* The scheduler a request is given (api/dependencies.py:130-137) is never *)
(* that of a superseded tail, whose drain has been entered: a task queued  *)
(* there would be cancelled with it.                                       *)
(***************************************************************************)
NoSupersededScheduler ==
    \A c \in Camps : schedulers[c] \notin superseded

(***************************************************************************)
(* The user changes campaign a few times and stays with one: in the end    *)
(* that campaign has a tail at work and keeps it, whatever switches were   *)
(* still in flight, unless the tails were stopped or one has failed.       *)
(***************************************************************************)
TailFollowsPlayer ==
    <>[](\/ adopts = 0 \/ stop \/ failed
         \/ \E t \in Tails : st[t] = "run" /\ t \notin doomed /\ camp[t] = playing)

\* Teardown ends: run_dev's gather waits for no task for ever (329-337).
TeardownEnds == server = "teardown" ~> server = "exited"

=============================================================================
