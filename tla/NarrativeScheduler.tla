------------------------- MODULE NarrativeScheduler -------------------------
(***************************************************************************)
(* Biography generation (src/chronicler/narrative/scheduler.py,            *)
(* pipeline.py, claude_code.py, prose_io.py): scheduler instances that     *)
(* share one event loop, one queue state and one prose repository.         *)
(*                                                                         *)
(* A scheduler turns each request into a queue item and an asyncio task.   *)
(* A task runs atomically between two awaits; pc says which await it is    *)
(* suspended at:                                                           *)
(*   "new"    created, its first step still in the loop's ready queue      *)
(*   "sem"    waiting for a permit of the scheduler's semaphore            *)
(*   "lock"   holding a permit, waiting for the character's lock           *)
(*   "call"   holding both, in provider.generate's claude --print          *)
(*   "commit" holding both, prose file written, in the git commit          *)
(*   "done"                                                                *)
(* asyncio's semaphore and locks are FIFO and tasks get to them in id      *)
(* order, so the waiter served is the smallest waiting id.                 *)
(***************************************************************************)
EXTENDS NarrativeQueueState

CONSTANTS
    Scheds,         \* scheduler instances
    CampOf,         \* scheduler -> the campaign whose DB it was built on
    Width,          \* permits of each scheduler's semaphore
    Known,          \* the <<campaign, character>> pairs with a Character row
    MaxEvents       \* bound: events ingested per character

ASSUME SchedulerAssumption ==
    /\ Scheds # {}
    /\ CampOf \in [Scheds -> Camps]
    /\ Width \in Nat \ {0}
    /\ Known \in SUBSET (Camps \X Chars)
    /\ MaxEvents \in Nat

Keys == Camps \X Chars

VARIABLES
    owner,      \* item_id -> the scheduler whose task runs it
    pc,         \* item_id -> state of that task
    cancelled,  \* tasks whose next step raises CancelledError
    active,     \* keys of the schedulers' _active_tasks
    reorders,   \* reorder_queued calls suspended in gather
    heir,       \* item_id -> item that a reorder respawned it as (0: none)
    drains,     \* scheduler -> its drain() call
    events,     \* campaign, character -> number of events committed
    through,    \* item_id -> events its generation has read
    version,    \* item_id -> the vN its generation writes to
    files,      \* campaign, character -> generation whose prose is in each vN
    rows,       \* campaign, character -> generation stored as each DB version
    raced       \* for the properties: keys two schedulers have generated at once

taskVars  == <<owner, pc, cancelled, active, reorders, heir, drains>>
storeVars == <<events, through, version, files, rows, raced>>
vars      == <<queueVars, taskVars, storeVars>>

Key(i) == <<CampOf[owner[i]], itemChar[i]>>

Live(i) == pc[i] \notin {"none", "done"}

TasksOf(s) == {i \in Ids : owner[i] = s /\ Live(i)}

PermitHolders(s) == {i \in Ids : owner[i] = s /\ pc[i] \in {"lock", "call", "commit"}}

PermitFree(s) == Cardinality(PermitHolders(s)) < Width

\* cancelling a waiter cancels the future it waits on, so it is passed over
PermitWaiters(s) == {i \in Ids : owner[i] = s /\ pc[i] = "sem" /\ i \notin cancelled}

LockHolders(s, c) ==
    {i \in Ids : owner[i] = s /\ itemChar[i] = c /\ pc[i] \in {"call", "commit"}}

LockWaiters(s, c) ==
    {i \in Ids : owner[i] = s /\ itemChar[i] = c /\ pc[i] = "lock" /\ i \notin cancelled}

FirstOf(i, S) == i \in S /\ \A j \in S : i <= j

NoDrain == [phase |-> "idle", snap |-> {}]

Init ==
    /\ QueueInit
    /\ owner = [i \in Ids |-> CHOOSE s \in Scheds : TRUE]
    /\ pc = [i \in Ids |-> "none"]
    /\ cancelled = {}
    /\ active = {}
    /\ reorders = {}
    /\ heir = [i \in Ids |-> 0]
    /\ drains = [s \in Scheds |-> NoDrain]
    /\ events = [k \in Keys |-> 0]
    /\ through = [i \in Ids |-> 0]
    /\ version = [i \in Ids |-> 0]
    /\ files = [k \in Keys |-> <<>>]
    /\ rows = [k \in Keys |-> <<>>]
    /\ raced = {}

-----------------------------------------------------------------------------
(* Enqueueing.                                                             *)

(***************************************************************************)
(* _enqueue_and_spawn for each character of cs: enqueue, create_task,      *)
(* record the task.  From a worker thread, where schedule() passes its     *)
(* gates (DeathBiographies) and sync routes call regenerate(), it is       *)
(* reached through call_soon_threadsafe: a Request is the loop getting to  *)
(* it, at any time after whatever the thread looked at.                    *)
(***************************************************************************)
EnqueueAndSpawn(s, cs) ==
    LET fresh == nextId .. (nextId + Len(cs) - 1)
    IN  /\ Enqueue(cs, CampOf[s])
        /\ owner' = [i \in Ids |-> IF i \in fresh THEN s ELSE owner[i]]
        /\ pc' = [i \in Ids |-> IF i \in fresh THEN "new" ELSE pc[i]]
        /\ active' = active \cup fresh

\* bound: leaves room for what pending reorders will respawn
HasRoom(n) ==
    nextId - 1 + n + Cardinality({i \in Ids : status[i] = "removed" /\ heir[i] = 0})
      <= MaxItems

Request(s, c) ==
    /\ HasRoom(1)
    /\ EnqueueAndSpawn(s, <<c>>)
    /\ UNCHANGED <<cancelled, reorders, heir, drains, storeVars>>

(***************************************************************************)
(* POST /narrative-queue/{id}/regenerate: re-run an item of the recent     *)
(* ring on a scheduler of the item's own campaign.                         *)
(***************************************************************************)
RegenerateRecent(i, s) ==
    /\ HasRoom(1)
    /\ FindRecent(i)
    /\ CampOf[s] = itemCamp[i]
    /\ EnqueueAndSpawn(s, <<itemChar[i]>>)
    /\ UNCHANGED <<cancelled, reorders, heir, drains, storeVars>>

-----------------------------------------------------------------------------
(* The task, _run.                                                         *)

\* leave _run: release what is held and clear the item's _active_tasks entry
Finish(i) ==
    /\ pc' = [pc EXCEPT ![i] = "done"]
    /\ active' = active \ {i}
    /\ UNCHANGED <<owner, cancelled, reorders, heir, drains>>

MoveTo(i, p) ==
    /\ pc' = [pc EXCEPT ![i] = p]
    /\ UNCHANGED <<owner, cancelled, active, reorders, heir, drains>>

\* the key of i, if another scheduler is generating it too: each has its own lock
RacedBy(i) ==
    {Key(j) : j \in {j \in Ids : /\ pc[j] \in {"call", "commit"}
                                /\ owner[j] # owner[i] /\ Key(j) = Key(i)}}

(***************************************************************************)
(* With permit and lock held, up to the first await inside the provider:   *)
(* mark_started, read the character and its events, pick the next free vN  *)
(* of the biographies directory, write the briefing, spawn claude.  A      *)
(* character without a row is an error outcome at once.                    *)
(***************************************************************************)
Generate(i) ==
    IF Key(i) \in Known
    THEN /\ MarkStarted(i)
         /\ MoveTo(i, "call")
         /\ through' = [through EXCEPT ![i] = events[Key(i)]]
         /\ version' = [version EXCEPT ![i] = Len(files[Key(i)]) + 1]
         /\ raced' = raced \cup RacedBy(i)
         /\ UNCHANGED <<events, files, rows>>
    ELSE /\ MarkFailed(i)
         /\ Finish(i)
         /\ UNCHANGED storeVars

\* Faulty variant: no per-character lock.
EnterNoLock(i) == Generate(i)

\* inside the semaphore: take the character's lock or wait for it
Enter(i) ==
    IF LockHolders(owner[i], itemChar[i]) = {} /\ LockWaiters(owner[i], itemChar[i]) = {}
    THEN Generate(i)
    ELSE MoveTo(i, "lock") /\ UNCHANGED <<queueVars, storeVars>>

\* Faulty variant: a fresh task may overtake the waiters.
StartBarging(i) ==
    /\ pc[i] = "new" /\ i \notin cancelled
    /\ \A j \in Ids : pc[j] = "new" => i <= j
    /\ IF PermitFree(owner[i])
       THEN Enter(i)
       ELSE MoveTo(i, "sem") /\ UNCHANGED <<queueVars, storeVars>>

\* first step of a task; the ready queue runs first steps in creation order
Start(i) ==
    /\ pc[i] = "new" /\ i \notin cancelled
    /\ \A j \in Ids : pc[j] = "new" => i <= j
    /\ IF PermitFree(owner[i]) /\ PermitWaiters(owner[i]) = {}
       THEN Enter(i)
       ELSE MoveTo(i, "sem") /\ UNCHANGED <<queueVars, storeVars>>

TakePermit(i) ==
    /\ FirstOf(i, PermitWaiters(owner[i]))
    /\ PermitFree(owner[i])
    /\ Enter(i)

TakeLock(i) ==
    /\ FirstOf(i, LockWaiters(owner[i], itemChar[i]))
    /\ LockHolders(owner[i], itemChar[i]) = {}
    /\ Generate(i)

\* timeout, non-zero exit, empty prose, missing prose directory
ProviderFails(i) ==
    /\ pc[i] = "call" /\ i \notin cancelled
    /\ MarkFailed(i)
    /\ Finish(i)
    /\ UNCHANGED storeVars

\* write_text: creates vN, or overwrites it
WriteFile(k, v, i) ==
    files' = [files EXCEPT ![k] = IF v = Len(@) + 1 THEN Append(@, i)
                                  ELSE [@ EXCEPT ![v] = i]]

\* the CLI returned prose: write the biography file, go and commit it
ProviderReturns(i) ==
    /\ pc[i] = "call" /\ i \notin cancelled
    /\ WriteFile(Key(i), version[i], i)
    /\ MoveTo(i, "commit")
    /\ UNCHANGED <<queueVars, events, through, version, rows, raced>>

\* Faulty variant: the row is stored before the prose is on disk.
StoreEarly(i) ==
    /\ pc[i] = "call" /\ i \notin cancelled
    /\ rows' = [rows EXCEPT ![Key(i)] = Append(@, i)]
    /\ MarkCompleted(i)
    /\ Finish(i)
    /\ UNCHANGED <<events, through, version, files, raced>>

(***************************************************************************)
(* The git commit ended, well or badly (it is best-effort and bounded by a *)
(* timeout): insert_biography at max(version) + 1, mark_completed.         *)
(***************************************************************************)
Store(i) ==
    /\ pc[i] = "commit" /\ i \notin cancelled
    /\ rows' = [rows EXCEPT ![Key(i)] = Append(@, i)]
    /\ MarkCompleted(i)
    /\ Finish(i)
    /\ UNCHANGED <<events, through, version, files, raced>>

\* insert_biography raised: _run's last-line "except Exception"
StoreFails(i) ==
    /\ pc[i] = "commit" /\ i \notin cancelled
    /\ MarkFailed(i)
    /\ Finish(i)
    /\ UNCHANGED storeVars

\* Faulty variant: the CancelledError handlers forget the queue item.
CancelStepSilent(i) ==
    /\ i \in cancelled /\ Live(i)
    /\ Finish(i)
    /\ UNCHANGED <<queueVars, storeVars>>

(***************************************************************************)
(* The step at which a cancelled task sees CancelledError.  From any await *)
(* of _run it ends in mark_failed("cancelled") and the finally block.  A   *)
(* task that never ran its first step has not entered the try statement:   *)
(* it just ends.                                                           *)
(***************************************************************************)
CancelStep(i) ==
    /\ i \in cancelled /\ Live(i)
    /\ IF pc[i] = "new"
       THEN MoveTo(i, "done") /\ UNCHANGED queueVars
       ELSE MarkFailed(i) /\ Finish(i)
    /\ UNCHANGED storeVars

-----------------------------------------------------------------------------
(* cancel_item, reorder_queued and drain.                                  *)

CancelItem(i) ==
    /\ i \in active /\ Live(i)
    /\ cancelled' = cancelled \cup {i}
    /\ UNCHANGED <<queueVars, storeVars, owner, pc, active, reorders, heir, drains>>

(***************************************************************************)
(* The Cancel button.  A client learns an item's id from a frame or a      *)
(* snapshot, which reach it long after the task's first step.              *)
(***************************************************************************)
UserCancel(i) == pc[i] # "new" /\ CancelItem(i)

\* the orders a drag can ask for
Orderings(S) ==
    {f \in [1..Cardinality(S) -> S] : \A m, n \in DOMAIN f : f[m] = f[n] => m = n}

(***************************************************************************)
(* reorder_queued up to its await: everything queued is dropped from the   *)
(* queue state and this scheduler's tasks among it are cancelled.  The     *)
(* snapshot is of the process-wide queue, not of this scheduler's part.    *)
(***************************************************************************)
ReorderBegin(s, order) ==
    LET own == {i \in QueuedIds : owner[i] = s /\ i \in active}
    IN  /\ QueuedIds # {}
        /\ HasRoom(Cardinality(QueuedIds))
        /\ Remove(QueuedIds)
        /\ cancelled' = cancelled \cup {i \in own : Live(i)}
        /\ reorders' = reorders \cup {[sched |-> s, order |-> order, await |-> own]}
        /\ UNCHANGED <<owner, pc, active, heir, drains, storeVars>>

\* Faulty variant: respawns the dropped items except the first.
ReorderEndShort(r) ==
    /\ \A i \in r.await : ~Live(i)
    /\ EnqueueAndSpawn(r.sched, [n \in 1..(Len(r.order) - 1) |-> itemChar[r.order[n + 1]]])
    /\ reorders' = reorders \ {r}
    /\ UNCHANGED <<cancelled, heir, drains, storeVars>>

\* the cancelled tasks are done: regenerate each dropped item, in order
ReorderEnd(r) ==
    /\ \A i \in r.await : ~Live(i)
    /\ EnqueueAndSpawn(r.sched, [n \in 1..Len(r.order) |-> itemChar[r.order[n]]])
    /\ reorders' = reorders \ {r}
    /\ heir' = [i \in Ids |->
                  IF \E n \in 1..Len(r.order) : r.order[n] = i
                  THEN nextId - 1 + (CHOOSE n \in 1..Len(r.order) : r.order[n] = i)
                  ELSE heir[i]]
    /\ UNCHANGED <<cancelled, drains, storeVars>>

SetDrain(s, p, S) == drains' = [drains EXCEPT ![s] = [phase |-> p, snap |-> S]]

\* Faulty variant: waits for _active_tasks to empty instead of _tasks.
DrainWaitActive(s) ==
    /\ \/ drains[s].phase = "idle"
       \/ drains[s].phase = "wait" /\ (\A i \in drains[s].snap : ~Live(i))
    /\ IF {i \in active : owner[i] = s} = {} THEN SetDrain(s, "over", {})
                                            ELSE SetDrain(s, "wait", TasksOf(s))
    /\ UNCHANGED <<queueVars, storeVars, owner, pc, cancelled, active, reorders, heir>>

\* drain, or another round of its loop: wait for the tasks there are now
DrainWait(s) ==
    /\ \/ drains[s].phase = "idle"
       \/ drains[s].phase = "wait" /\ (\A i \in drains[s].snap : ~Live(i))
    /\ IF TasksOf(s) = {} THEN SetDrain(s, "over", {})
                          ELSE SetDrain(s, "wait", TasksOf(s))
    /\ UNCHANGED <<queueVars, storeVars, owner, pc, cancelled, active, reorders, heir>>

\* the timeout: cancel what is still running and wait for it to end
DrainTimeout(s) ==
    /\ drains[s].phase = "wait"
    /\ \E i \in drains[s].snap : Live(i)
    /\ \A i \in drains[s].snap : pc[i] # "new"
    /\ cancelled' = cancelled \cup {i \in drains[s].snap : Live(i)}
    /\ SetDrain(s, "cancel", drains[s].snap)
    /\ UNCHANGED <<queueVars, storeVars, owner, pc, active, reorders, heir>>

DrainEnd(s) ==
    /\ drains[s].phase = "cancel"
    /\ \A i \in drains[s].snap : ~Live(i)
    /\ SetDrain(s, "over", {})
    /\ UNCHANGED <<queueVars, storeVars, owner, pc, cancelled, active, reorders, heir>>

-----------------------------------------------------------------------------
(* The save-tail commits another event of a character.                     *)
IngestEvent(k) ==
    /\ events[k] < MaxEvents
    /\ events' = [events EXCEPT ![k] = @ + 1]
    /\ UNCHANGED <<queueVars, taskVars, through, version, files, rows, raced>>

TaskStep(i) ==
    \/ Start(i) \/ TakePermit(i) \/ TakeLock(i)
    \/ ProviderFails(i) \/ ProviderReturns(i)
    \/ Store(i) \/ StoreFails(i)
    \/ CancelStep(i)

Handlers ==
    \/ \E s \in Scheds, c \in Chars : Request(s, c)
    \/ \E i \in Ids, s \in Scheds : RegenerateRecent(i, s)
    \/ \E s \in Scheds : \E order \in Orderings(QueuedIds) : ReorderBegin(s, order)
    \/ \E r \in reorders : ReorderEnd(r)
    \/ \E s \in Scheds : DrainWait(s) \/ DrainTimeout(s) \/ DrainEnd(s)
    \/ \E k \in Known : IngestEvent(k)

Next == Handlers \/ (\E i \in Ids : TaskStep(i) \/ UserCancel(i))

Spec == Init /\ [][Next]_vars

(***************************************************************************)
(* The event loop runs every ready task; claude --print and git are        *)
(* bounded by timeouts (claude_code.py:541-545, prose_io.py:364-366), so   *)
(* every suspended task is eventually resumed.  drain waits at most its    *)
(* timeout.  Nothing makes users enqueue, cancel or reorder.               *)
(***************************************************************************)
Fairness ==
    /\ \A i \in Ids : WF_vars(TaskStep(i))
    /\ WF_vars(\E r \in reorders : ReorderEnd(r))
    /\ \A s \in Scheds : WF_vars(drains[s].phase # "idle"
                                 /\ (DrainWait(s) \/ DrainTimeout(s) \/ DrainEnd(s)))

FairSpec == Spec /\ Fairness

-----------------------------------------------------------------------------
(* Properties.                                                             *)

ReorderRecords ==
    [sched : Scheds, order : Seq(Ids), await : SUBSET Ids]

\* Types: ids, tasks, drains and versions stay in range, heirs of reorders included.
TypeOK ==
    /\ QueueTypeOK
    /\ owner \in [Ids -> Scheds]
    /\ pc \in [Ids -> {"none", "new", "sem", "lock", "call", "commit", "done"}]
    /\ cancelled \in SUBSET Ids
    /\ active \in SUBSET Ids
    /\ reorders \in SUBSET ReorderRecords
    /\ heir \in [Ids -> 0..MaxItems]
    /\ drains \in [Scheds -> [phase : {"idle", "wait", "cancel", "over"}, snap : SUBSET Ids]]
    /\ events \in [Keys -> 0..MaxEvents]
    /\ through \in [Ids -> 0..MaxEvents]
    /\ version \in [Ids -> Nat]
    /\ files \in [Keys -> Seq(Ids)]
    /\ rows \in [Keys -> Seq(Ids)]
    /\ raced \in SUBSET Keys

(***************************************************************************)
(* The per-character lock (scheduler.py:427-428): whatever mix of death    *)
(* events, regenerations, reorders and cancellations arrives, a scheduler  *)
(* never has two generations of one character in flight.                   *)
(***************************************************************************)
OneGenerationPerCharacter ==
    \A i, j \in Ids :
      /\ i # j /\ owner[i] = owner[j] /\ itemChar[i] = itemChar[j]
      /\ pc[i] \in {"call", "commit"}
      => pc[j] \notin {"call", "commit"}

(***************************************************************************)
(* The semaphore (126, 426): a scheduler never has more than Width tasks   *)
(* past it, a cancelled one included until it has let go.                  *)
(***************************************************************************)
WidthRespected == \A s \in Scheds : Cardinality(PermitHolders(s)) <= Width

(***************************************************************************)
(* What reorder's cancel-and-respawn rests on (326-330, 401-403): permits  *)
(* are taken in spawn order, so no task is past the semaphore while an     *)
(* older task of its scheduler still waits for it.                         *)
(***************************************************************************)
DispatchInOrder ==
    \A i, j \in Ids :
      /\ i < j /\ owner[i] = owner[j] /\ i \notin cancelled
      /\ pc[i] \in {"new", "sem"}
      => pc[j] \notin {"lock", "call", "commit"}

(***************************************************************************)
(* The blackboard tells the truth about the tasks: an item shown as queued *)
(* has a task before its generation, one shown as generating a task in it, *)
(* and a cancel request for either finds that task in _active_tasks.  None *)
(* is left behind for ever on the queue page by a task that ended.         *)
(***************************************************************************)
QueueAgreesWithTasks ==
    \A i \in Ids :
      /\ status[i] = "queued" => pc[i] \in {"new", "sem", "lock"} /\ i \in active
      /\ status[i] = "generating" => pc[i] \in {"call", "commit"} /\ i \in active

(***************************************************************************)
(* The queue page is truthful: its items agree with the tasks, its         *)
(* counters with what has settled, and the ring behind the Regenerate      *)
(* button holds settled items, each once, and all of them until it is full *)
(* (queue_state.py:137, 190-258, 322-333), whatever mark_* calls come late *)
(* or for an item that has left.                                           *)
(***************************************************************************)
QueuePageTruthful == QueueAgreesWithTasks /\ CountersAgree /\ RingHoldsRecentSettled

(***************************************************************************)
(* The prose repository is the system of record (prose_io.py:4-8): the     *)
(* prose of every stored biography is in a file of its own, not            *)
(* overwritten by a concurrent generation that picked the same vN.  And a  *)
(* later version never knows less than an earlier one: events are read in  *)
(* phase 1 and the row is inserted minutes later (pipeline.py:214-299).    *)
(* Excepted are the characters that two schedulers of one campaign have    *)
(* generated at the same time; even those are stored once per generation.  *)
(***************************************************************************)
ProseNeverLost ==
    \A k \in Keys :
      /\ \A m, n \in DOMAIN rows[k] : rows[k][m] = rows[k][n] => m = n
      /\ k \notin raced =>
           /\ \A m \in DOMAIN rows[k] : \E n \in DOMAIN files[k] : files[k][n] = rows[k][m]
           /\ \A m, n \in DOMAIN rows[k] : m < n => through[rows[k][m]] <= through[rows[k][n]]

(***************************************************************************)
(* Reordering is "left the queue", not "failed" (375-381): every item it   *)
(* drops is respawned, for the same character and as an item of its own,   *)
(* or still will be by a call in progress.                                 *)
(***************************************************************************)
ReorderKeepsEveryItem ==
    \A i \in Ids :
      status[i] = "removed" =>
        IF heir[i] = 0
        THEN \E r \in reorders : \E n \in DOMAIN r.order : r.order[n] = i
        ELSE /\ itemChar[heir[i]] = itemChar[i]
             /\ \A j \in Ids : heir[j] = heir[i] => j = i

(***************************************************************************)
(* Nothing the scheduler starts stays for ever.  Every enqueued item       *)
(* leaves the queue page: completed, failed or reordered.  And drain()     *)
(* returns (497-511): teardown cannot hang on a stuck generation or on     *)
(* tasks spawned meanwhile.                                                *)
(***************************************************************************)
WorkEnds ==
    /\ \A i \in Ids : InItems(i) ~> ~InItems(i)
    /\ \A s \in Scheds : drains[s].phase = "wait" ~> drains[s].phase = "over"

-----------------------------------------------------------------------------
(* What makes the properties inductive.                                    *)

\* ids from nextId on have neither item nor task
FreshIds ==
    \A i \in Ids :
      /\ pc[i] = "none" <=> i >= nextId
      /\ i >= nextId => status[i] = "absent" /\ i \notin cancelled

\* a task that has not run its first step is younger than every task that has
NewAreLast ==
    \A i, j \in Ids : pc[i] = "new" /\ i < j => pc[j] \in {"none", "new", "done"}

\* only a reorder cancels a task before its first step, and it has dropped the item
CancelledNewAreRemoved ==
    \A i \in cancelled : pc[i] = "new" => status[i] = "removed"

SafetyInv ==
    /\ TypeOK
    /\ FreshIds /\ NewAreLast /\ CancelledNewAreRemoved
    /\ OneGenerationPerCharacter
    /\ WidthRespected
    /\ DispatchInOrder
    /\ QueueAgreesWithTasks
=============================================================================
