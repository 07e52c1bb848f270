---------------------- MODULE NarrativeSchedulerProofs ----------------------
(***************************************************************************)
(* Theorems about NarrativeScheduler, for any number of schedulers,        *)
(* campaigns, characters, items and permits.                               *)
(***************************************************************************)
EXTENDS NarrativeScheduler, FiniteSetTheorems, TLAPS

-----------------------------------------------------------------------------
(* Facts about the data.                                                   *)

\* Sets of item ids are finite, so their cardinalities are numbers.
LEMMA IdSetsFinite ==
    ASSUME NEW S \in SUBSET Ids
    PROVE  IsFiniteSet(S) /\ Cardinality(S) \in Nat
<1>1. MaxItems \in Nat  BY QueueAssumption
<1>2. IsFiniteSet(Ids)  BY <1>1, FS_Interval DEF Ids
<1> QED  BY <1>2, FS_Subset, FS_CardinalityType

\* A requested order is a sequence of the queued ids.
LEMMA OrderingsAreSequences ==
    ASSUME NEW S \in SUBSET Ids, NEW f \in Orderings(S)
    PROVE  f \in Seq(Ids) /\ \A n \in DOMAIN f : f[n] \in S
<1>1. Cardinality(S) \in Nat  BY IdSetsFinite
<1>2. f \in [1..Cardinality(S) -> S]  BY DEF Orderings
<1> QED  BY <1>1, <1>2

\* The ring stays a sequence of ids.
LEMMA PushType ==
    ASSUME NEW ring \in Seq(Ids), NEW i \in Ids
    PROVE  Push(ring, i) \in Seq(Ids)
<1>1. CASE Len(ring) = RecentCap
  <2>1. ring # <<>>  BY <1>1, QueueAssumption
  <2> QED  BY <1>1, <2>1 DEF Push
<1>2. CASE Len(ring) # RecentCap  BY <1>2 DEF Push
<1> QED  BY <1>1, <1>2

-----------------------------------------------------------------------------
(* Type correctness, one lemma per operation of the queue state and per    *)
(* building block of the task.                                             *)

LEMMA EnqueueType ==
    ASSUME QueueTypeOK, NEW cs \in Seq(Chars), NEW camp \in Camps, Enqueue(cs, camp)
    PROVE  QueueTypeOK'
<1>1. MaxItems \in Nat  BY QueueAssumption
<1>2. nextId \in Nat /\ Len(cs) \in Nat  BY <1>1 DEF QueueTypeOK
<1>3. nextId' \in 1..(MaxItems + 1)  BY <1>1, <1>2 DEF Enqueue, QueueTypeOK
<1>4. \A i \in nextId .. (nextId + Len(cs) - 1) : cs[i - nextId + 1] \in Chars
  BY <1>2
<1>5. itemChar' \in [Ids -> Chars]  BY <1>4 DEF Enqueue, QueueTypeOK
<1>6. status' \in [Ids -> Statuses] /\ itemCamp' \in [Ids -> Camps]
  BY DEF Enqueue, QueueTypeOK, Statuses
<1> QED  BY <1>3, <1>5, <1>6 DEF Enqueue, QueueTypeOK

LEMMA MarkStartedType ==
    ASSUME QueueTypeOK, NEW i \in Ids, MarkStarted(i)
    PROVE  QueueTypeOK'
BY DEF MarkStarted, QueueTypeOK, Statuses

LEMMA MarkFailedType ==
    ASSUME QueueTypeOK, NEW i \in Ids, MarkFailed(i)
    PROVE  QueueTypeOK'
<1>1. CASE InItems(i)
  <2>1. /\ status' = [status EXCEPT ![i] = "failed"]
        /\ recent' = Push(recent, i)
        /\ failedCount' = failedCount + 1
        /\ perChar' = [perChar EXCEPT ![itemChar[i]] = [completed |-> @.completed, failed |-> @.failed + 1]]
        /\ UNCHANGED <<nextId, itemChar, itemCamp, completedCount>>
    BY <1>1 DEF MarkFailed
  <2>2. recent' \in Seq(Ids)  BY <2>1, PushType DEF QueueTypeOK
  <2>3. itemChar[i] \in Chars /\ perChar \in [Chars -> [completed : Nat, failed : Nat]]
    BY DEF QueueTypeOK
  <2>4. perChar' \in [Chars -> [completed : Nat, failed : Nat]]
    BY <2>1, <2>3
  <2>5. status' \in [Ids -> Statuses]  BY <2>1 DEF QueueTypeOK, Statuses
  <2> QED  BY <2>1, <2>2, <2>4, <2>5 DEF QueueTypeOK
<1>2. CASE ~InItems(i)  BY <1>2 DEF MarkFailed, QueueTypeOK, queueVars
<1> QED  BY <1>1, <1>2

LEMMA MarkCompletedType ==
    ASSUME QueueTypeOK, NEW i \in Ids, MarkCompleted(i)
    PROVE  QueueTypeOK'
<1>1. CASE InItems(i)
  <2>1. /\ status' = [status EXCEPT ![i] = "completed"]
        /\ recent' = Push(recent, i)
        /\ completedCount' = completedCount + 1
        /\ perChar' = [perChar EXCEPT ![itemChar[i]] = [completed |-> @.completed + 1, failed |-> @.failed]]
        /\ UNCHANGED <<nextId, itemChar, itemCamp, failedCount>>
    BY <1>1 DEF MarkCompleted
  <2>2. recent' \in Seq(Ids)  BY <2>1, PushType DEF QueueTypeOK
  <2>3. itemChar[i] \in Chars /\ perChar \in [Chars -> [completed : Nat, failed : Nat]]
    BY DEF QueueTypeOK
  <2>4. perChar' \in [Chars -> [completed : Nat, failed : Nat]]
    BY <2>1, <2>3
  <2>5. status' \in [Ids -> Statuses]  BY <2>1 DEF QueueTypeOK, Statuses
  <2> QED  BY <2>1, <2>2, <2>4, <2>5 DEF QueueTypeOK
<1>2. CASE ~InItems(i)  BY <1>2 DEF MarkCompleted, QueueTypeOK, queueVars
<1> QED  BY <1>1, <1>2

LEMMA RemoveType ==
    ASSUME QueueTypeOK, NEW S, Remove(S)
    PROVE  QueueTypeOK'
BY DEF Remove, QueueTypeOK, Statuses

\* Overwriting an entry of a sequence of ids leaves a sequence of ids.
LEMMA ExceptType ==
    ASSUME NEW f \in Seq(Ids), NEW v, NEW i \in Ids
    PROVE  [f EXCEPT ![v] = i] \in Seq(Ids)
<1>1. f \in [1..Len(f) -> Ids] /\ Len(f) \in Nat  OBVIOUS
<1>2. [f EXCEPT ![v] = i] \in [1..Len(f) -> Ids]  BY <1>1
<1> QED  BY <1>1, <1>2

LEMMA KeyType ==
    ASSUME TypeOK, NEW i \in Ids
    PROVE  Key(i) \in Keys
<1>1. owner[i] \in Scheds /\ itemChar[i] \in Chars  BY DEF TypeOK, QueueTypeOK
<1>2. CampOf[owner[i]] \in Camps  BY <1>1, SchedulerAssumption
<1> QED  BY <1>1, <1>2 DEF Key, Keys

\* Spawning touches ids that were not handed out yet, and nothing else.
LEMMA SpawnType ==
    ASSUME TypeOK, NEW s \in Scheds, NEW cs \in Seq(Chars), EnqueueAndSpawn(s, cs)
    PROVE  /\ QueueTypeOK'
           /\ owner' \in [Ids -> Scheds]
           /\ pc' \in [Ids -> {"none", "new", "sem", "lock", "call", "commit", "done"}]
           /\ active' \in SUBSET Ids
<1>1. CampOf[s] \in Camps  BY SchedulerAssumption
<1>2. Enqueue(cs, CampOf[s])  BY DEF EnqueueAndSpawn
<1>3. QueueTypeOK'  BY <1>1, <1>2, EnqueueType DEF TypeOK
<1>4. MaxItems \in Nat /\ nextId \in 1..(MaxItems + 1) /\ Len(cs) \in Nat
  BY QueueAssumption DEF TypeOK, QueueTypeOK
<1>5. nextId + Len(cs) - 1 <= MaxItems  BY <1>2 DEF Enqueue
<1>6. nextId .. (nextId + Len(cs) - 1) \subseteq Ids  BY <1>4, <1>5 DEF Ids
<1> QED  BY <1>3, <1>6 DEF EnqueueAndSpawn, TypeOK

LEMMA FinishType ==
    ASSUME TypeOK, NEW i \in Ids, QueueTypeOK', Finish(i),
           events' = events, through' = through, version' = version,
           files' = files, rows' \in [Keys -> Seq(Ids)], raced' = raced
    PROVE  TypeOK'
BY DEF Finish, TypeOK

LEMMA GenerateType ==
    ASSUME TypeOK, NEW i \in Ids, Generate(i)
    PROVE  TypeOK'
<1>1. CASE Key(i) \in Known
  <2>1. QueueTypeOK'  BY <1>1, MarkStartedType DEF Generate, TypeOK
  <2>2. Key(i) \in Keys  BY KeyType
  <2>3. events[Key(i)] \in 0..MaxEvents /\ Len(files[Key(i)]) \in Nat
    BY <2>2 DEF TypeOK
  <2>4. through' \in [Ids -> 0..MaxEvents] /\ version' \in [Ids -> Nat]
    <3>1. /\ through' = [through EXCEPT ![i] = events[Key(i)]]
          /\ version' = [version EXCEPT ![i] = Len(files[Key(i)]) + 1]
      BY <1>1 DEF Generate
    <3>2. through \in [Ids -> 0..MaxEvents] /\ version \in [Ids -> Nat]  BY DEF TypeOK
    <3>3. Len(files[Key(i)]) + 1 \in Nat  BY <2>3
    <3> QED  BY <2>3, <3>1, <3>2, <3>3
  <2>5. pc' \in [Ids -> {"none", "new", "sem", "lock", "call", "commit", "done"}]
    BY <1>1 DEF Generate, MoveTo, TypeOK
  <2>6. RacedBy(i) \subseteq Keys  BY KeyType DEF RacedBy
  <2>7. raced' \in SUBSET Keys  BY <1>1, <2>6 DEF Generate, TypeOK
  <2> QED  BY <1>1, <2>1, <2>4, <2>5, <2>7 DEF Generate, MoveTo, TypeOK
<1>2. CASE Key(i) \notin Known
  <2>1. QueueTypeOK'  BY <1>2, MarkFailedType DEF Generate, TypeOK
  <2> QED  BY <1>2, <2>1, FinishType DEF Generate, storeVars, TypeOK
<1> QED  BY <1>1, <1>2

LEMMA MoveType ==
    ASSUME TypeOK, NEW i \in Ids,
           NEW p \in {"none", "new", "sem", "lock", "call", "commit", "done"},
           MoveTo(i, p), UNCHANGED <<queueVars, storeVars>>
    PROVE  TypeOK'
BY DEF MoveTo, TypeOK, QueueTypeOK, queueVars, storeVars

LEMMA EnterType ==
    ASSUME TypeOK, NEW i \in Ids, Enter(i)
    PROVE  TypeOK'
BY GenerateType, MoveType DEF Enter

\* The step of a task preserves the types.
LEMMA TaskStepType ==
    ASSUME TypeOK, NEW i \in Ids, TaskStep(i)
    PROVE  TypeOK'
<1>1. CASE Start(i)  BY <1>1, EnterType, MoveType DEF Start
<1>2. CASE TakePermit(i)  BY <1>2, EnterType DEF TakePermit
<1>3. CASE TakeLock(i)  BY <1>3, GenerateType DEF TakeLock
<1>4. CASE ProviderFails(i) \/ StoreFails(i)
  <2>1. MarkFailed(i) /\ Finish(i) /\ UNCHANGED storeVars
    BY <1>4 DEF ProviderFails, StoreFails
  <2>2. QueueTypeOK'  BY <2>1, MarkFailedType DEF TypeOK
  <2> QED  BY <2>1, <2>2, FinishType DEF storeVars, TypeOK
<1>5. CASE ProviderReturns(i)
  <2>1. Key(i) \in Keys  BY KeyType
  <2>2. files[Key(i)] \in Seq(Ids)  BY <2>1 DEF TypeOK
  <2>3. Append(files[Key(i)], i) \in Seq(Ids)  BY <2>2
  <2>4. [files[Key(i)] EXCEPT ![version[i]] = i] \in Seq(Ids)  BY <2>2, ExceptType
  <2>5. files' \in [Keys -> Seq(Ids)]
    BY <1>5, <2>1, <2>3, <2>4 DEF ProviderReturns, WriteFile, TypeOK
  <2>6. MoveTo(i, "commit") /\ UNCHANGED <<queueVars, events, through, version, rows, raced>>
    BY <1>5 DEF ProviderReturns
  <2> QED  BY <2>5, <2>6 DEF MoveTo, TypeOK, QueueTypeOK, queueVars
<1>6. CASE Store(i)
  <2>1. QueueTypeOK'  BY <1>6, MarkCompletedType DEF Store, TypeOK
  <2>2. Key(i) \in Keys  BY KeyType
  <2>3. Append(rows[Key(i)], i) \in Seq(Ids)  BY <2>2 DEF TypeOK
  <2>4. rows' \in [Keys -> Seq(Ids)]  BY <1>6, <2>2, <2>3 DEF Store, TypeOK
  <2>5. Finish(i) /\ UNCHANGED <<events, through, version, files, raced>>  BY <1>6 DEF Store
  <2> QED  BY <2>1, <2>4, <2>5, FinishType
<1>7. CASE CancelStep(i)
  <2>1. CASE pc[i] = "new"  BY <1>7, <2>1, MoveType DEF CancelStep
  <2>2. CASE pc[i] # "new"
    <3>1. QueueTypeOK'  BY <1>7, <2>2, MarkFailedType DEF CancelStep, TypeOK
    <3> QED  BY <1>7, <2>2, <3>1, FinishType DEF CancelStep, storeVars, TypeOK
  <2> QED  BY <2>1, <2>2
<1> QED  BY <1>1, <1>2, <1>3, <1>4, <1>5, <1>6, <1>7 DEF TaskStep

\* The actions that leave queue, tasks and stores as they are but for one or two sets.
LEMMA QuietType ==
    ASSUME TypeOK,
           \/ \E i \in Ids : UserCancel(i)
           \/ \E s \in Scheds : DrainWait(s) \/ DrainTimeout(s) \/ DrainEnd(s)
           \/ \E k \in Known : k \in Keys /\ IngestEvent(k)
    PROVE  TypeOK'
<1>0. QueueTypeOK /\ MaxEvents \in Nat  BY SchedulerAssumption DEF TypeOK
<1>1. ASSUME NEW i \in Ids, UserCancel(i) PROVE TypeOK'
  BY <1>0, <1>1 DEF UserCancel, CancelItem, TypeOK, QueueTypeOK, queueVars, storeVars
<1>2. ASSUME NEW s \in Scheds, DrainWait(s) \/ DrainTimeout(s) \/ DrainEnd(s) PROVE TypeOK'
  <2>1. TasksOf(s) \in SUBSET Ids /\ {} \in SUBSET Ids  BY DEF TasksOf
  <2>2. drains[s].snap \in SUBSET Ids  BY DEF TypeOK
  <2>3. drains' \in [Scheds -> [phase : {"idle", "wait", "cancel", "over"}, snap : SUBSET Ids]]
    <3>1. \E p \in {"wait", "cancel", "over"}, S \in SUBSET Ids : SetDrain(s, p, S)
      BY <1>2, <2>1, <2>2 DEF DrainWait, DrainTimeout, DrainEnd
    <3>2. PICK p \in {"wait", "cancel", "over"}, S \in SUBSET Ids :
            drains' = [drains EXCEPT ![s] = [phase |-> p, snap |-> S]]
      BY <3>1 DEF SetDrain
    <3>3. [phase |-> p, snap |-> S]
            \in [phase : {"idle", "wait", "cancel", "over"}, snap : SUBSET Ids]
      OBVIOUS
    <3> QED  BY <3>2, <3>3 DEF TypeOK
  <2>4. cancelled' \in SUBSET Ids
    BY <1>2, <2>2 DEF DrainWait, DrainTimeout, DrainEnd, TypeOK
  <2>5. UNCHANGED <<queueVars, storeVars, owner, pc, active, reorders, heir>>
    BY <1>2 DEF DrainWait, DrainTimeout, DrainEnd
  <2> QED  BY <1>0, <2>3, <2>4, <2>5 DEF TypeOK, QueueTypeOK, queueVars, storeVars
<1>3. ASSUME NEW k \in Known, k \in Keys, IngestEvent(k) PROVE TypeOK'
  <2>1. events' \in [Keys -> 0..MaxEvents]  BY <1>0, <1>3 DEF IngestEvent, TypeOK
  <2>2. UNCHANGED <<queueVars, taskVars, through, version, files, rows, raced>>
    BY <1>3 DEF IngestEvent
  <2> QED  BY <1>0, <2>1, <2>2 DEF TypeOK, QueueTypeOK, queueVars, taskVars
<1> QED  BY <1>1, <1>2, <1>3

LEMMA ReorderType ==
    ASSUME TypeOK,
           \/ \E s \in Scheds : \E order \in Orderings(QueuedIds) : ReorderBegin(s, order)
           \/ \E r \in reorders : ReorderEnd(r)
    PROVE  TypeOK'
<1>1. ASSUME NEW s \in Scheds, NEW order \in Orderings(QueuedIds), ReorderBegin(s, order)
      PROVE  TypeOK'
  <2> DEFINE own == {i \in QueuedIds : owner[i] = s /\ i \in active}
  <2>1. QueuedIds \in SUBSET Ids  BY DEF QueuedIds
  <2>2. order \in Seq(Ids)  BY <2>1, OrderingsAreSequences
  <2>3. [sched |-> s, order |-> order, await |-> own] \in ReorderRecords
    BY <2>1, <2>2 DEF ReorderRecords
  <2>4. reorders' = reorders \cup {[sched |-> s, order |-> order, await |-> own]}
    BY <1>1 DEF ReorderBegin
  <2>5. reorders' \in SUBSET ReorderRecords  BY <2>3, <2>4 DEF TypeOK
  <2>6. cancelled' \in SUBSET Ids  BY <1>1, <2>1 DEF ReorderBegin, TypeOK
  <2>7. QueueTypeOK'  BY <1>1, RemoveType DEF ReorderBegin, TypeOK
  <2>8. UNCHANGED <<owner, pc, active, heir, drains, storeVars>>  BY <1>1 DEF ReorderBegin
  <2> HIDE DEF own
  <2> QED  BY <2>5, <2>6, <2>7, <2>8 DEF TypeOK, storeVars
<1>2. ASSUME NEW r \in reorders, ReorderEnd(r) PROVE TypeOK'
  <2> DEFINE cs == [n \in 1..Len(r.order) |-> itemChar[r.order[n]]]
  <2>1. r \in ReorderRecords  BY DEF TypeOK
  <2>2. r.sched \in Scheds /\ r.order \in Seq(Ids)  BY <2>1 DEF ReorderRecords
  <2>3. Len(r.order) \in Nat /\ \A n \in 1..Len(r.order) : r.order[n] \in Ids  BY <2>2
  <2>4. \A n \in 1..Len(r.order) : itemChar[r.order[n]] \in Chars
    BY <2>3 DEF TypeOK, QueueTypeOK
  <2>5. cs \in Seq(Chars) /\ Len(cs) = Len(r.order)  BY <2>3, <2>4
  <2>6. EnqueueAndSpawn(r.sched, cs)  BY <1>2 DEF ReorderEnd
  <2>7. MaxItems \in Nat /\ nextId \in 1..(MaxItems + 1)
    BY QueueAssumption DEF TypeOK, QueueTypeOK
  <2>8. nextId + Len(r.order) - 1 <= MaxItems  BY <2>5, <2>6 DEF EnqueueAndSpawn, Enqueue
  <2>9. \A n \in 1..Len(r.order) : nextId - 1 + n \in 0..MaxItems  BY <2>3, <2>7, <2>8
  <2>10. ASSUME NEW i \in Ids PROVE heir'[i] \in 0..MaxItems
    <3>1. CASE \E n \in 1..Len(r.order) : r.order[n] = i
      <4>1. (CHOOSE n \in 1..Len(r.order) : r.order[n] = i) \in 1..Len(r.order)  BY <3>1
      <4> QED  BY <1>2, <2>9, <3>1, <4>1 DEF ReorderEnd
    <3>2. CASE ~\E n \in 1..Len(r.order) : r.order[n] = i
      BY <1>2, <3>2 DEF ReorderEnd, TypeOK
    <3> QED  BY <3>1, <3>2
  <2>11. heir' \in [Ids -> 0..MaxItems]
    <3>1. heir' = [i \in Ids |->
                  IF \E n \in 1..Len(r.order) : r.order[n] = i
                  THEN nextId - 1 + (CHOOSE n \in 1..Len(r.order) : r.order[n] = i)
                  ELSE heir[i]]
      BY <1>2 DEF ReorderEnd
    <3> QED  BY <2>10, <3>1
  <2>12. reorders' \in SUBSET ReorderRecords  BY <1>2 DEF ReorderEnd, TypeOK
  <2>13. UNCHANGED <<cancelled, drains, storeVars>>  BY <1>2 DEF ReorderEnd
  <2> HIDE DEF cs
  <2>14. /\ QueueTypeOK' /\ owner' \in [Ids -> Scheds] /\ active' \in SUBSET Ids
         /\ pc' \in [Ids -> {"none", "new", "sem", "lock", "call", "commit", "done"}]
    BY <2>2, <2>5, <2>6, SpawnType
  <2> QED  BY <2>11, <2>12, <2>13, <2>14 DEF TypeOK, storeVars
<1> QED  BY <1>1, <1>2

LEMMA RequestType ==
    ASSUME TypeOK,
           \/ \E s \in Scheds, c \in Chars : Request(s, c)
           \/ \E i \in Ids, s \in Scheds : RegenerateRecent(i, s)
    PROVE  TypeOK'
<1>1. ASSUME NEW s \in Scheds, NEW c \in Chars, EnqueueAndSpawn(s, <<c>>),
             UNCHANGED <<cancelled, reorders, heir, drains, storeVars>>
      PROVE  TypeOK'
  <2>1. <<c>> \in Seq(Chars)  OBVIOUS
  <2> QED  BY <1>1, <2>1, SpawnType DEF TypeOK, storeVars
<1>2. \A i \in Ids : itemChar[i] \in Chars  BY DEF TypeOK, QueueTypeOK
<1> QED  BY <1>1, <1>2 DEF Request, RegenerateRecent

(***************************************************************************)
(* Every variable of the schedulers, the queue and the stores keeps its    *)
(* type in every reachable state.                                          *)
(***************************************************************************)
THEOREM TypeCorrect == Spec => []TypeOK
<1>1. Init => TypeOK
  <2> SUFFICES ASSUME Init PROVE TypeOK  OBVIOUS
  <2>1. MaxItems \in Nat /\ MaxEvents \in Nat  BY QueueAssumption, SchedulerAssumption
  <2>2. /\ (CHOOSE c \in Chars : TRUE) \in Chars
        /\ (CHOOSE c \in Camps : TRUE) \in Camps
        /\ (CHOOSE s \in Scheds : TRUE) \in Scheds
    BY QueueAssumption, SchedulerAssumption
  <2>3. QueueTypeOK
    BY <2>1, <2>2 DEF Init, QueueInit, QueueTypeOK, Statuses, NoStats
  <2> QED  BY <2>1, <2>2, <2>3 DEF Init, TypeOK, NoDrain
<1>2. TypeOK /\ [Next]_vars => TypeOK'
  <2> SUFFICES ASSUME TypeOK, [Next]_vars PROVE TypeOK'  OBVIOUS
  <2>1. CASE \E i \in Ids : TaskStep(i)  BY <2>1, TaskStepType
  <2>2. CASE \E i \in Ids : UserCancel(i)  BY <2>2, QuietType
  <2>3. CASE \E s \in Scheds : DrainWait(s) \/ DrainTimeout(s) \/ DrainEnd(s)
    BY <2>3, QuietType
  <2>4. CASE \E k \in Known : IngestEvent(k)
    <3>1. \A k \in Known : k \in Keys  BY SchedulerAssumption DEF Keys
    <3> QED  BY <2>4, <3>1, QuietType
  <2>5. CASE \E s \in Scheds : \E order \in Orderings(QueuedIds) : ReorderBegin(s, order)
    BY <2>5, ReorderType
  <2>6. CASE \E r \in reorders : ReorderEnd(r)  BY <2>6, ReorderType
  <2>7. CASE (\E s \in Scheds, c \in Chars : Request(s, c))
             \/ (\E i \in Ids, s \in Scheds : RegenerateRecent(i, s))
    BY <2>7, RequestType
  <2>8. CASE UNCHANGED vars
    BY <2>8 DEF vars, queueVars, taskVars, storeVars, TypeOK, QueueTypeOK
  <2> QED  BY <2>1, <2>2, <2>3, <2>4, <2>5, <2>6, <2>7, <2>8 DEF Next, Handlers
<1> QED  BY <1>1, <1>2, PTL DEF Spec

-----------------------------------------------------------------------------
(***************************************************************************)
(* Every step has one of three shapes: it spawns tasks, it moves one task, *)
(* or it only cancels.  The safety argument needs no more than these.      *)
(***************************************************************************)
SpawnShape(s, n) ==
    /\ n \in Nat /\ nextId + n - 1 <= MaxItems /\ nextId' = nextId + n
    /\ \A i \in Ids :
         IF i \in nextId .. (nextId + n - 1)
         THEN owner'[i] = s /\ pc'[i] = "new" /\ status'[i] = "queued" /\ i \in active'
         ELSE /\ owner'[i] = owner[i] /\ pc'[i] = pc[i] /\ status'[i] = status[i]
              /\ itemChar'[i] = itemChar[i] /\ (i \in active => i \in active')
    /\ cancelled' = cancelled

TakesPermit(i) ==
    /\ pc[i] \in {"new", "sem"} /\ i \notin cancelled
    /\ PermitFree(owner[i])
    /\ \A j \in PermitWaiters(owner[i]) : i <= j
    /\ pc[i] = "new" => PermitWaiters(owner[i]) = {} /\ \A j \in Ids : pc[j] = "new" => i <= j

MoveShape(i) ==
    /\ UNCHANGED <<nextId, owner, itemChar, cancelled>>
    /\ \A j \in Ids \ {i} :
         pc'[j] = pc[j] /\ status'[j] = status[j] /\ (j \in active => j \in active')
    /\ \/ /\ pc'[i] = "sem" /\ pc[i] = "new" /\ (\A j \in Ids : pc[j] = "new" => i <= j)
          /\ status'[i] = status[i] /\ (i \in active => i \in active')
       \/ /\ pc'[i] = "lock" /\ TakesPermit(i)
          /\ status'[i] = status[i] /\ (i \in active => i \in active')
       \/ /\ pc'[i] = "call" /\ (TakesPermit(i) \/ pc[i] = "lock")
          /\ LockHolders(owner[i], itemChar[i]) = {}
          /\ status'[i] = (IF status[i] = "queued" THEN "generating" ELSE status[i])
          /\ (i \in active => i \in active')
       \/ /\ pc'[i] = "commit" /\ pc[i] = "call"
          /\ status'[i] = status[i] /\ (i \in active => i \in active')
       \/ /\ pc'[i] = "done" /\ pc[i] \notin {"none", "done"}
          /\ \/ status'[i] \in {"completed", "failed"}
             \/ status'[i] = status[i] /\ ~InItems(i)
             \/ status'[i] = status[i] /\ pc[i] = "new" /\ i \in cancelled

CancelShape ==
    /\ UNCHANGED <<nextId, owner, itemChar, pc, active>>
    /\ cancelled \subseteq cancelled'
    /\ \A i \in Ids :
         \/ status'[i] = status[i]
         \/ status[i] = "queued" /\ status'[i] = "removed"
    /\ \A i \in cancelled' \ cancelled :
         pc[i] # "none" /\ (pc[i] = "new" => status'[i] = "removed")

LEMMA SpawnHasShape ==
    ASSUME TypeOK, NEW s \in Scheds, NEW cs \in Seq(Chars), EnqueueAndSpawn(s, cs),
           cancelled' = cancelled
    PROVE  SpawnShape(s, Len(cs))
<1>1. Len(cs) \in Nat  OBVIOUS
<1>2. nextId + Len(cs) - 1 <= MaxItems /\ nextId' = nextId + Len(cs)
  BY DEF EnqueueAndSpawn, Enqueue
<1>3. \A i \in Ids :
        IF i \in nextId .. (nextId + Len(cs) - 1)
        THEN owner'[i] = s /\ pc'[i] = "new" /\ status'[i] = "queued" /\ i \in active'
        ELSE /\ owner'[i] = owner[i] /\ pc'[i] = pc[i] /\ status'[i] = status[i]
             /\ itemChar'[i] = itemChar[i] /\ (i \in active => i \in active')
  BY DEF EnqueueAndSpawn, Enqueue
<1> QED  BY <1>1, <1>2, <1>3 DEF SpawnShape

\* mark_failed leaves every other item alone and its own one off the queue.
LEMMA MarkFailedEffect ==
    ASSUME TypeOK, NEW i \in Ids, MarkFailed(i)
    PROVE  /\ UNCHANGED <<nextId, itemChar>>
           /\ \A j \in Ids \ {i} : status'[j] = status[j]
           /\ status'[i] = "failed" \/ (status'[i] = status[i] /\ ~InItems(i))
<1>1. status \in [Ids -> Statuses]  BY DEF TypeOK, QueueTypeOK
<1>2. CASE InItems(i)  BY <1>1, <1>2 DEF MarkFailed
<1>3. CASE ~InItems(i)  BY <1>1, <1>3 DEF MarkFailed, queueVars
<1> QED  BY <1>2, <1>3

LEMMA MarkCompletedEffect ==
    ASSUME TypeOK, NEW i \in Ids, MarkCompleted(i)
    PROVE  /\ UNCHANGED <<nextId, itemChar>>
           /\ \A j \in Ids \ {i} : status'[j] = status[j]
           /\ status'[i] = "completed" \/ (status'[i] = status[i] /\ ~InItems(i))
<1>1. status \in [Ids -> Statuses]  BY DEF TypeOK, QueueTypeOK
<1>2. CASE InItems(i)  BY <1>1, <1>2 DEF MarkCompleted
<1>3. CASE ~InItems(i)  BY <1>1, <1>3 DEF MarkCompleted, queueVars
<1> QED  BY <1>2, <1>3

LEMMA FinishEffect ==
    ASSUME TypeOK, NEW i \in Ids, Finish(i)
    PROVE  /\ UNCHANGED <<owner, cancelled>>
           /\ pc'[i] = "done"
           /\ \A j \in Ids \ {i} : pc'[j] = pc[j] /\ (j \in active => j \in active')
BY DEF Finish, TypeOK

LEMMA MoveEffect ==
    ASSUME TypeOK, NEW i \in Ids, NEW p, MoveTo(i, p)
    PROVE  /\ UNCHANGED <<owner, cancelled, active>>
           /\ pc'[i] = p
           /\ \A j \in Ids \ {i} : pc'[j] = pc[j]
BY DEF MoveTo, TypeOK

\* A task that ends through mark_failed or mark_completed has the shape of a move.
LEMMA EndHasShape ==
    ASSUME TypeOK, NEW i \in Ids, Finish(i), pc[i] \notin {"none", "done"},
           MarkFailed(i) \/ MarkCompleted(i)
    PROVE  MoveShape(i)
<1>1. /\ UNCHANGED <<owner, cancelled>> /\ pc'[i] = "done"
      /\ \A j \in Ids \ {i} : pc'[j] = pc[j] /\ (j \in active => j \in active')
  BY FinishEffect
<1>2. /\ UNCHANGED <<nextId, itemChar>>
      /\ \A j \in Ids \ {i} : status'[j] = status[j]
      /\ status'[i] \in {"completed", "failed"} \/ (status'[i] = status[i] /\ ~InItems(i))
  BY MarkFailedEffect, MarkCompletedEffect
<1> QED  BY <1>1, <1>2 DEF MoveShape

LEMMA GenerateHasShape ==
    ASSUME TypeOK, NEW i \in Ids, Generate(i), TakesPermit(i) \/ pc[i] = "lock",
           LockHolders(owner[i], itemChar[i]) = {}
    PROVE  MoveShape(i)
<1>1. CASE Key(i) \in Known
  <2>1. MarkStarted(i) /\ MoveTo(i, "call")  BY <1>1 DEF Generate
  <2>2. /\ UNCHANGED <<nextId, itemChar>>
        /\ \A j \in Ids \ {i} : status'[j] = status[j]
        /\ status'[i] = (IF status[i] = "queued" THEN "generating" ELSE status[i])
    BY <2>1 DEF MarkStarted, TypeOK, QueueTypeOK
  <2>3. /\ UNCHANGED <<owner, cancelled, active>> /\ pc'[i] = "call"
        /\ \A j \in Ids \ {i} : pc'[j] = pc[j]
    BY <2>1, MoveEffect
  <2> QED  BY <2>2, <2>3 DEF MoveShape
<1>2. CASE Key(i) \notin Known
  <2>1. MarkFailed(i) /\ Finish(i)  BY <1>2 DEF Generate
  <2>2. pc[i] \notin {"none", "done"}  BY DEF TakesPermit
  <2> QED  BY <2>1, <2>2, EndHasShape
<1> QED  BY <1>1, <1>2

LEMMA EnterHasShape ==
    ASSUME TypeOK, NEW i \in Ids, Enter(i), TakesPermit(i)
    PROVE  MoveShape(i)
<1>1. CASE LockHolders(owner[i], itemChar[i]) = {} /\ LockWaiters(owner[i], itemChar[i]) = {}
  BY <1>1, GenerateHasShape DEF Enter
<1>2. CASE ~(LockHolders(owner[i], itemChar[i]) = {} /\ LockWaiters(owner[i], itemChar[i]) = {})
  <2>1. MoveTo(i, "lock") /\ UNCHANGED queueVars  BY <1>2 DEF Enter
  <2> QED  BY <2>1, MoveEffect DEF MoveShape, queueVars
<1> QED  BY <1>1, <1>2

LEMMA TaskStepHasShape ==
    ASSUME TypeOK, NEW i \in Ids, TaskStep(i)
    PROVE  MoveShape(i)
<1>1. CASE Start(i)
  <2>1. CASE PermitFree(owner[i]) /\ PermitWaiters(owner[i]) = {}
    <3>1. TakesPermit(i)  BY <1>1, <2>1 DEF Start, TakesPermit
    <3> QED  BY <1>1, <2>1, <3>1, EnterHasShape DEF Start
  <2>2. CASE ~(PermitFree(owner[i]) /\ PermitWaiters(owner[i]) = {})
    <3>1. MoveTo(i, "sem") /\ UNCHANGED queueVars  BY <1>1, <2>2 DEF Start
    <3> QED  BY <1>1, <3>1, MoveEffect DEF MoveShape, queueVars, Start
  <2> QED  BY <2>1, <2>2
<1>2. CASE TakePermit(i)
  <2>1. TakesPermit(i)  BY <1>2 DEF TakePermit, FirstOf, TakesPermit, PermitWaiters
  <2> QED  BY <1>2, <2>1, EnterHasShape DEF TakePermit
<1>3. CASE TakeLock(i)
  BY <1>3, GenerateHasShape DEF TakeLock, FirstOf, LockWaiters
<1>4. CASE ProviderFails(i)  BY <1>4, EndHasShape DEF ProviderFails
<1>5. CASE ProviderReturns(i)
  <2>1. MoveTo(i, "commit") /\ UNCHANGED queueVars /\ pc[i] = "call"
    BY <1>5 DEF ProviderReturns, queueVars
  <2> QED  BY <2>1, MoveEffect DEF MoveShape, queueVars
<1>6. CASE Store(i)  BY <1>6, EndHasShape DEF Store
<1>7. CASE StoreFails(i)  BY <1>7, EndHasShape DEF StoreFails
<1>8. CASE CancelStep(i)
  <2>1. CASE pc[i] = "new"
    <3>1. MoveTo(i, "done") /\ UNCHANGED queueVars /\ i \in cancelled
      BY <1>8, <2>1 DEF CancelStep
    <3> QED  BY <2>1, <3>1, MoveEffect DEF MoveShape, queueVars
  <2>2. CASE pc[i] # "new"
    BY <1>8, <2>2, EndHasShape DEF CancelStep, Live
  <2> QED  BY <2>1, <2>2
<1> QED  BY <1>1, <1>2, <1>3, <1>4, <1>5, <1>6, <1>7, <1>8 DEF TaskStep

LEMMA NextHasShape ==
    ASSUME TypeOK, [Next]_vars
    PROVE  \/ \E s \in Scheds, n \in Nat : SpawnShape(s, n)
           \/ \E i \in Ids : MoveShape(i)
           \/ CancelShape
<1>1. CASE \E i \in Ids : TaskStep(i)  BY <1>1, TaskStepHasShape
<1>2. ASSUME NEW i \in Ids, UserCancel(i) PROVE CancelShape
  <2>1. UNCHANGED <<nextId, status, owner, itemChar, pc, active>>
    BY <1>2 DEF UserCancel, CancelItem, queueVars
  <2>2. pc[i] \notin {"new", "none"} /\ cancelled' = cancelled \cup {i}
    BY <1>2 DEF UserCancel, CancelItem, Live
  <2> QED  BY <2>1, <2>2 DEF CancelShape
<1>3. ASSUME NEW s \in Scheds, DrainWait(s) \/ DrainTimeout(s) \/ DrainEnd(s) PROVE CancelShape
  <2>1. UNCHANGED <<nextId, status, owner, itemChar, pc, active>>
    BY <1>3 DEF DrainWait, DrainTimeout, DrainEnd, queueVars
  <2>2. /\ cancelled \subseteq cancelled'
        /\ \A i \in cancelled' \ cancelled : pc[i] \notin {"new", "none"}
    BY <1>3 DEF DrainWait, DrainTimeout, DrainEnd, Live
  <2> QED  BY <2>1, <2>2 DEF CancelShape
<1>4. CASE (\E k \in Known : IngestEvent(k)) \/ UNCHANGED vars
  <2>1. UNCHANGED <<nextId, status, owner, itemChar, pc, active, cancelled>>
    BY <1>4 DEF IngestEvent, vars, queueVars, taskVars
  <2> QED  BY <2>1 DEF CancelShape
<1>5. ASSUME NEW s \in Scheds, NEW order, ReorderBegin(s, order) PROVE CancelShape
  <2>1. UNCHANGED <<nextId, owner, itemChar, pc, active>>
    BY <1>5 DEF ReorderBegin, Remove
  <2>2. \A i \in Ids : status'[i] = (IF i \in QueuedIds THEN "removed" ELSE status[i])
    BY <1>5 DEF ReorderBegin, Remove, QueuedIds, InItems
  <2>3. /\ cancelled \subseteq cancelled'
        /\ \A i \in cancelled' \ cancelled : i \in QueuedIds /\ pc[i] # "none"
    BY <1>5 DEF ReorderBegin, Live
  <2>4. QueuedIds = {i \in Ids : status[i] = "queued"}  BY DEF QueuedIds
  <2> QED  BY <2>1, <2>2, <2>3, <2>4 DEF CancelShape
<1>6. ASSUME NEW r \in reorders, ReorderEnd(r)
      PROVE  \E s \in Scheds, n \in Nat : SpawnShape(s, n)
  <2> DEFINE cs == [n \in 1..Len(r.order) |-> itemChar[r.order[n]]]
  <2>1. r \in ReorderRecords  BY DEF TypeOK
  <2>2. r.sched \in Scheds /\ r.order \in Seq(Ids)  BY <2>1 DEF ReorderRecords
  <2>a. \A n \in 1..Len(r.order) : r.order[n] \in Ids  BY <2>2
  <2>3. Len(r.order) \in Nat /\ \A n \in 1..Len(r.order) : itemChar[r.order[n]] \in Chars
    BY <2>2, <2>a DEF TypeOK, QueueTypeOK
  <2>4. cs \in Seq(Chars)  BY <2>3
  <2>5. EnqueueAndSpawn(r.sched, cs) /\ cancelled' = cancelled  BY <1>6 DEF ReorderEnd
  <2> HIDE DEF cs
  <2>6. Len(cs) \in Nat  BY <2>4
  <2> QED  BY <2>2, <2>4, <2>5, <2>6, SpawnHasShape
<1>7. ASSUME NEW s \in Scheds, NEW c \in Chars, EnqueueAndSpawn(s, <<c>>), cancelled' = cancelled
      PROVE  \E t \in Scheds, n \in Nat : SpawnShape(t, n)
  <2>1. <<c>> \in Seq(Chars) /\ Len(<<c>>) \in Nat  OBVIOUS
  <2> QED  BY <1>7, <2>1, SpawnHasShape
<1>8. \A i \in Ids : itemChar[i] \in Chars  BY DEF TypeOK, QueueTypeOK
<1>9. CASE (\E s \in Scheds, c \in Chars : Request(s, c))
           \/ (\E i \in Ids, s \in Scheds : RegenerateRecent(i, s))
  BY <1>7, <1>8, <1>9 DEF Request, RegenerateRecent
<1> QED  BY <1>1, <1>2, <1>3, <1>4, <1>5, <1>6, <1>9 DEF Next, Handlers

-----------------------------------------------------------------------------
(* The inductive invariant.                                                *)

\* A step that lets nobody new past the semaphore keeps the width.
LEMMA WidthKept ==
    ASSUME TypeOK, WidthRespected, \A s \in Scheds : PermitHolders(s)' \subseteq PermitHolders(s)
    PROVE  WidthRespected'
<1> SUFFICES ASSUME NEW s \in Scheds PROVE Cardinality(PermitHolders(s)') <= Width
  BY DEF WidthRespected, PermitHolders
<1>1. PermitHolders(s) \in SUBSET Ids  BY DEF PermitHolders
<1>2. PermitHolders(s)' \in SUBSET Ids  BY DEF PermitHolders
<1>3. IsFiniteSet(PermitHolders(s)) /\ Cardinality(PermitHolders(s)) \in Nat
  BY <1>1, IdSetsFinite
<1>4. Cardinality(PermitHolders(s)') <= Cardinality(PermitHolders(s))  BY <1>3, FS_Subset
<1>5. Cardinality(PermitHolders(s)') \in Nat  BY <1>2, IdSetsFinite
<1>6. Width \in Nat  BY SchedulerAssumption
<1> QED  BY <1>3, <1>4, <1>5, <1>6 DEF WidthRespected

\* A task that takes a free permit keeps it too.
LEMMA WidthTaken ==
    ASSUME TypeOK, WidthRespected, NEW i \in Ids, PermitFree(owner[i]),
           \A s \in Scheds : PermitHolders(s)' \subseteq PermitHolders(s) \cup {i},
           \A s \in Scheds \ {owner[i]} : PermitHolders(s)' \subseteq PermitHolders(s)
    PROVE  WidthRespected'
<1> SUFFICES ASSUME NEW s \in Scheds PROVE Cardinality(PermitHolders(s)') <= Width
  BY DEF WidthRespected, PermitHolders
<1>1. PermitHolders(s) \in SUBSET Ids /\ PermitHolders(s)' \in SUBSET Ids  BY DEF PermitHolders
<1>2. IsFiniteSet(PermitHolders(s)) /\ Cardinality(PermitHolders(s)) \in Nat
  BY <1>1, IdSetsFinite
<1>3. Cardinality(PermitHolders(s)') \in Nat  BY <1>1, IdSetsFinite
<1>4. Width \in Nat  BY SchedulerAssumption
<1>5. CASE s = owner[i]
  <2>1. Cardinality(PermitHolders(s)) + 1 <= Width  BY <1>2, <1>4, <1>5 DEF PermitFree
  <2>2. /\ IsFiniteSet(PermitHolders(s) \cup {i})
        /\ Cardinality(PermitHolders(s) \cup {i}) \in
             {Cardinality(PermitHolders(s)), Cardinality(PermitHolders(s)) + 1}
    BY <1>2, FS_AddElement
  <2>3. Cardinality(PermitHolders(s)') <= Cardinality(PermitHolders(s) \cup {i})
    BY <1>5, <2>2, FS_Subset
  <2> QED  BY <1>2, <1>3, <1>4, <2>1, <2>2, <2>3
<1>6. CASE s # owner[i]
  <2>1. Cardinality(PermitHolders(s)') <= Cardinality(PermitHolders(s))
    BY <1>2, <1>6, FS_Subset
  <2> QED  BY <1>2, <1>3, <1>4, <2>1 DEF WidthRespected
<1> QED  BY <1>5, <1>6

LEMMA SpawnSafe ==
    ASSUME SafetyInv, TypeOK', NEW s \in Scheds, NEW n \in Nat, SpawnShape(s, n)
    PROVE  SafetyInv'
<1> USE DEF SafetyInv
<1> DEFINE F == nextId .. (nextId + n - 1)
<1>1. MaxItems \in Nat /\ nextId \in Nat /\ \A i \in Ids : i \in Nat
  BY QueueAssumption DEF TypeOK, QueueTypeOK, Ids
<1>2. /\ \A i \in Ids : i \in F => /\ i >= nextId /\ i < nextId + n
                                   /\ owner'[i] = s /\ pc'[i] = "new"
                                   /\ status'[i] = "queued" /\ i \in active'
      /\ \A i \in Ids : i \notin F => /\ owner'[i] = owner[i] /\ pc'[i] = pc[i]
                                      /\ status'[i] = status[i] /\ itemChar'[i] = itemChar[i]
                                      /\ (i \in active => i \in active')
      /\ nextId' = nextId + n /\ cancelled' = cancelled
  BY <1>1 DEF SpawnShape
<1>3. \A i \in Ids : i \notin F => (i >= nextId <=> i >= nextId + n)  BY <1>1
<1> HIDE DEF F
<1>4. \A i \in Ids : pc[i] # "none" <=> i < nextId  BY <1>1 DEF FreshIds
<1>5. \A i \in Ids : i \in F => pc[i] = "none"  BY <1>1, <1>2, <1>4
<1>6. FreshIds'  BY <1>1, <1>2, <1>3, <1>4 DEF FreshIds
<1>7. NewAreLast'
  <2> SUFFICES ASSUME NEW i \in Ids, NEW j \in Ids, pc'[i] = "new", i < j
               PROVE  pc'[j] \in {"none", "new", "done"}
    BY DEF NewAreLast
  <2>1. CASE i \in F /\ j \notin F
    <3>1. j >= nextId  BY <1>1, <1>2, <2>1
    <3> QED  BY <1>1, <1>2, <1>4, <2>1, <3>1
  <2>2. CASE j \in F  BY <1>2, <2>2
  <2>3. CASE i \notin F /\ j \notin F  BY <1>2, <2>3 DEF NewAreLast
  <2> QED  BY <2>1, <2>2, <2>3
<1>8. CancelledNewAreRemoved'
  <2>1. \A i \in cancelled : i \in Ids /\ i \notin F
    BY <1>1, <1>2 DEF FreshIds, TypeOK
  <2> QED  BY <1>2, <2>1 DEF CancelledNewAreRemoved
<1>9. OneGenerationPerCharacter'  BY <1>2 DEF OneGenerationPerCharacter
<1>10. DispatchInOrder'
  <2> SUFFICES ASSUME NEW i \in Ids, NEW j \in Ids, i < j, owner'[i] = owner'[j],
                      i \notin cancelled, pc'[i] \in {"new", "sem"},
                      pc'[j] \in {"lock", "call", "commit"}
               PROVE  FALSE
    BY <1>2 DEF DispatchInOrder
  <2>1. j \notin F  BY <1>2
  <2>2. j < nextId  BY <1>2, <1>4, <2>1
  <2>3. i \notin F  BY <1>1, <1>2, <2>2
  <2> QED  BY <1>2, <2>1, <2>3 DEF DispatchInOrder
<1>11. QueueAgreesWithTasks'  BY <1>2 DEF QueueAgreesWithTasks
<1>12. WidthRespected'
  <2>1. \A t \in Scheds : PermitHolders(t)' \subseteq PermitHolders(t)
    BY <1>2 DEF PermitHolders
  <2> QED  BY <2>1, WidthKept
<1> QED  BY <1>6, <1>7, <1>8, <1>9, <1>10, <1>11, <1>12

LEMMA MoveSafe ==
    ASSUME SafetyInv, TypeOK', NEW i \in Ids, MoveShape(i)
    PROVE  SafetyInv'
<1> USE DEF SafetyInv
<1>1. \A j \in Ids : j \in Nat  BY DEF Ids
<1>2. /\ UNCHANGED <<nextId, owner, itemChar, cancelled>>
      /\ \A j \in Ids : j # i => /\ pc'[j] = pc[j] /\ status'[j] = status[j]
                                 /\ (j \in active => j \in active')
  BY DEF MoveShape
<1>3. pc[i] \notin {"none", "done"} /\ pc'[i] \notin {"none", "new"}
  BY DEF MoveShape, TakesPermit
<1>4. FreshIds'
  <2>1. i < nextId
    <3>1. nextId \in Nat  BY QueueAssumption DEF TypeOK, QueueTypeOK
    <3> QED  BY <1>1, <1>3, <3>1 DEF FreshIds
  <2>2. nextId \in Nat  BY QueueAssumption DEF TypeOK, QueueTypeOK
  <2> QED  BY <1>1, <1>2, <1>3, <2>1, <2>2 DEF FreshIds
<1>5. NewAreLast'
  <2> SUFFICES ASSUME NEW j \in Ids, NEW k \in Ids, pc'[j] = "new", j < k
               PROVE  pc'[k] \in {"none", "new", "done"}
    BY DEF NewAreLast
  <2>1. j # i /\ pc[j] = "new"  BY <1>2, <1>3
  <2>2. CASE k # i  BY <1>2, <2>1, <2>2 DEF NewAreLast
  <2>3. CASE k = i
    <3>1. pc[i] \in {"none", "new", "done"}  BY <2>1, <2>3 DEF NewAreLast
    <3>2. pc[i] = "new"  BY <1>3, <3>1
    <3>3. ~(i <= j)  BY <1>1, <2>3
    <3>4. pc'[i] = "done"  BY <2>1, <3>2, <3>3 DEF MoveShape, TakesPermit
    <3> QED  BY <2>3, <3>4
  <2> QED  BY <2>2, <2>3
<1>6. CancelledNewAreRemoved'
  BY <1>2, <1>3 DEF CancelledNewAreRemoved, TypeOK
<1>7. OneGenerationPerCharacter'
  <2>1. CASE pc'[i] = "call"
    <3>1. LockHolders(owner[i], itemChar[i]) = {}  BY <2>1 DEF MoveShape
    <3> QED  BY <1>2, <3>1 DEF OneGenerationPerCharacter, LockHolders
  <2>2. CASE pc'[i] = "commit"
    <3>1. pc[i] = "call"  BY <2>2 DEF MoveShape
    <3> QED  BY <1>2, <3>1 DEF OneGenerationPerCharacter
  <2>3. CASE pc'[i] \notin {"call", "commit"}
    BY <1>2, <2>3 DEF OneGenerationPerCharacter
  <2> QED  BY <2>1, <2>2, <2>3
<1>8. DispatchInOrder'
  <2> SUFFICES ASSUME NEW j \in Ids, NEW k \in Ids, j < k, owner[j] = owner[k],
                      j \notin cancelled, pc'[j] \in {"new", "sem"},
                      pc'[k] \in {"lock", "call", "commit"}
               PROVE  FALSE
    BY <1>2 DEF DispatchInOrder
  <2>1. pc[j] \in {"new", "sem"}
    <3>1. CASE j = i  BY <3>1 DEF MoveShape
    <3>2. CASE j # i  BY <1>2, <3>2
    <3> QED  BY <3>1, <3>2
  <2>2. CASE k # i  BY <1>2, <2>1, <2>2 DEF DispatchInOrder
  <2>3. CASE k = i /\ pc[i] \in {"lock", "call", "commit"}
    BY <2>1, <2>3 DEF DispatchInOrder
  <2>4. CASE k = i /\ pc[i] \in {"new", "sem"}
    <3>1. TakesPermit(i)  BY <2>4 DEF MoveShape
    <3>2. ~(i <= j)  BY <1>1, <2>4
    <3>3. pc[j] # "sem"
      <4>1. pc[j] = "sem" => j \in PermitWaiters(owner[i])  BY <2>4 DEF PermitWaiters
      <4> QED  BY <3>1, <3>2, <4>1 DEF TakesPermit
    <3>4. pc[j] = "new"  BY <2>1, <3>3
    <3>5. pc[i] \in {"none", "new", "done"}  BY <2>4, <3>4 DEF NewAreLast
    <3>6. pc[i] = "new"  BY <2>4, <3>5
    <3> QED  BY <3>1, <3>2, <3>4, <3>6 DEF TakesPermit
  <2>5. CASE k = i /\ pc[i] \notin {"new", "sem", "lock", "call", "commit"}
    BY <2>5 DEF MoveShape, TakesPermit
  <2> QED  BY <2>2, <2>3, <2>4, <2>5
<1>9. QueueAgreesWithTasks'
  <2> SUFFICES ASSUME NEW j \in Ids
               PROVE  /\ status'[j] = "queued"
                           => pc'[j] \in {"new", "sem", "lock"} /\ j \in active'
                      /\ status'[j] = "generating"
                           => pc'[j] \in {"call", "commit"} /\ j \in active'
    BY DEF QueueAgreesWithTasks
  <2>1. CASE j # i  BY <1>2, <2>1 DEF QueueAgreesWithTasks
  <2>2. CASE j = i /\ pc'[i] # "done"
    BY <2>2 DEF QueueAgreesWithTasks, MoveShape, TakesPermit
  <2>3. CASE j = i /\ pc'[i] = "done"
    <3>1. status'[i] \notin {"queued", "generating"}
      BY <2>3 DEF MoveShape, InItems, CancelledNewAreRemoved
    <3> QED  BY <2>3, <3>1
  <2> QED  BY <2>1, <2>2, <2>3
<1>10. WidthRespected'
  <2>1. \A s \in Scheds \ {owner[i]} : PermitHolders(s)' \subseteq PermitHolders(s)
    BY <1>2 DEF PermitHolders
  <2>2. \A s \in Scheds : PermitHolders(s)' \subseteq PermitHolders(s) \cup {i}
    BY <1>2 DEF PermitHolders
  <2>3. CASE TakesPermit(i)  BY <2>1, <2>2, <2>3, WidthTaken DEF TakesPermit
  <2>4. CASE ~TakesPermit(i)
    <3>1. pc'[i] \in {"lock", "call", "commit"} => pc[i] \in {"lock", "call", "commit"}
      BY <2>4 DEF MoveShape
    <3>2. \A s \in Scheds : PermitHolders(s)' \subseteq PermitHolders(s)
      BY <1>2, <3>1 DEF PermitHolders
    <3> QED  BY <3>2, WidthKept
  <2> QED  BY <2>3, <2>4
<1> QED  BY <1>4, <1>5, <1>6, <1>7, <1>8, <1>9, <1>10

LEMMA CancelSafe ==
    ASSUME SafetyInv, TypeOK', CancelShape
    PROVE  SafetyInv'
<1> USE DEF SafetyInv
<1>1. /\ UNCHANGED <<nextId, owner, itemChar, pc, active>>
      /\ cancelled \subseteq cancelled'
      /\ \A i \in cancelled' \ cancelled :
            pc[i] # "none" /\ (pc[i] = "new" => status'[i] = "removed")
  BY DEF CancelShape
<1>2. \A i \in Ids : \/ status'[i] = status[i]
                     \/ (status[i] = "queued" /\ status'[i] = "removed")
  BY DEF CancelShape
<1>3. FreshIds'  BY <1>1, <1>2 DEF FreshIds
<1>4. NewAreLast'  BY <1>1 DEF NewAreLast
<1>5. CancelledNewAreRemoved'
  <2> SUFFICES ASSUME NEW i \in cancelled', pc[i] = "new" PROVE status'[i] = "removed"
    BY <1>1 DEF CancelledNewAreRemoved
  <2>1. i \in Ids  BY DEF TypeOK
  <2>2. CASE i \in cancelled
    <3>1. status[i] = "removed"  BY <2>2 DEF CancelledNewAreRemoved
    <3> QED  BY <1>2, <2>1, <3>1
  <2>3. CASE i \notin cancelled  BY <1>1, <2>3
  <2> QED  BY <2>2, <2>3
<1>6. OneGenerationPerCharacter'  BY <1>1 DEF OneGenerationPerCharacter
<1>7. DispatchInOrder'  BY <1>1 DEF DispatchInOrder
<1>8. QueueAgreesWithTasks'  BY <1>1, <1>2 DEF QueueAgreesWithTasks
<1>9. WidthRespected'
  <2>1. \A s \in Scheds : PermitHolders(s)' \subseteq PermitHolders(s)
    BY <1>1 DEF PermitHolders
  <2> QED  BY <2>1, WidthKept
<1> QED  BY <1>3, <1>4, <1>5, <1>6, <1>7, <1>8, <1>9

\* The inductive invariant holds in every reachable state.
LEMMA SafetyHolds == Spec => []SafetyInv
<1>1. Init /\ TypeOK => SafetyInv
  <2> SUFFICES ASSUME Init, TypeOK PROVE SafetyInv  OBVIOUS
  <2>1. \A i \in Ids : pc[i] = "none" /\ status[i] = "absent" /\ i \notin cancelled
    BY DEF Init, QueueInit
  <2>2. \A i \in Ids : i >= nextId  BY DEF Init, QueueInit, Ids
  <2>3. WidthRespected
    <3>1. \A s \in Scheds : PermitHolders(s) = {}  BY <2>1 DEF PermitHolders
    <3>2. Cardinality({}) = 0  BY FS_EmptySet
    <3> QED  BY <3>1, <3>2, SchedulerAssumption DEF WidthRespected
  <2>4. cancelled = {}  BY DEF Init
  <2> QED  BY <2>1, <2>2, <2>3, <2>4 DEF SafetyInv, FreshIds, NewAreLast,
             CancelledNewAreRemoved, OneGenerationPerCharacter, DispatchInOrder,
             QueueAgreesWithTasks
<1>2. SafetyInv /\ [Next]_vars /\ TypeOK' => SafetyInv'
  <2> SUFFICES ASSUME SafetyInv, [Next]_vars, TypeOK' PROVE SafetyInv'  OBVIOUS
  <2>1. TypeOK  BY DEF SafetyInv
  <2> QED  BY <2>1, NextHasShape, SpawnSafe, MoveSafe, CancelSafe
<1> QED  BY <1>1, <1>2, TypeCorrect, PTL DEF Spec

(***************************************************************************)
(* In every reachable state, for any number of schedulers and any permits: *)
(* one generation per character and scheduler, no more tasks past a        *)
(* semaphore than its width, permits granted in spawn order, and a queue   *)
(* page that agrees with the tasks.                                        *)
(***************************************************************************)
THEOREM SchedulerSafe ==
    Spec => [](OneGenerationPerCharacter /\ WidthRespected
               /\ DispatchInOrder /\ QueueAgreesWithTasks)
<1>1. SafetyInv => OneGenerationPerCharacter /\ WidthRespected
                   /\ DispatchInOrder /\ QueueAgreesWithTasks
  BY DEF SafetyInv
<1> QED  BY <1>1, SafetyHolds, PTL

\* Permits go out in spawn order (asyncio.Semaphore, scheduler.py:426): what
\* reorder_queued's cancel-and-respawn rests on, for any mix of schedulers.
THEOREM PermitsInOrder == Spec => []DispatchInOrder
BY SchedulerSafe, PTL

-----------------------------------------------------------------------------
(***************************************************************************)
(* The queue page.  For its counters and its ring a step either settles    *)
(* one item that was on the queue or leaves the settled ones as they are.  *)
(***************************************************************************)
Ends == {"completed", "failed"}

PageQuiet ==
    /\ UNCHANGED <<recent, completedCount, failedCount, perChar>>
    /\ \A i \in Ids : status[i] \in Ends \/ status'[i] \in Ends =>
         status'[i] = status[i] /\ itemChar'[i] = itemChar[i]

Settles(i, e) ==
    /\ InItems(i)
    /\ status' = [status EXCEPT ![i] = e]
    /\ recent' = Push(recent, i)
    /\ UNCHANGED itemChar
    /\ completedCount' = completedCount + (IF e = "completed" THEN 1 ELSE 0)
    /\ failedCount' = failedCount + (IF e = "failed" THEN 1 ELSE 0)
    /\ perChar' = [perChar EXCEPT ![itemChar[i]] =
                     [completed |-> @.completed + (IF e = "completed" THEN 1 ELSE 0),
                      failed    |-> @.failed + (IF e = "failed" THEN 1 ELSE 0)]]

PageMoves == PageQuiet \/ \E i \in Ids, e \in Ends : Settles(i, e)

LEMMA MarkFailedPage ==
    ASSUME TypeOK, NEW i \in Ids, MarkFailed(i)
    PROVE  PageMoves
<1>1. /\ failedCount \in Nat /\ completedCount \in Nat
      /\ perChar \in [Chars -> [completed : Nat, failed : Nat]] /\ itemChar[i] \in Chars
  BY DEF TypeOK, QueueTypeOK
<1>2. CASE ~InItems(i)  BY <1>2 DEF MarkFailed, queueVars, PageMoves, PageQuiet
<1>3. CASE InItems(i)
  <2>1. perChar[itemChar[i]].completed + 0 = perChar[itemChar[i]].completed  BY <1>1
  <2>2. completedCount + 0 = completedCount  BY <1>1
  <2>3. Settles(i, "failed")  BY <1>3, <2>1, <2>2 DEF MarkFailed, Settles
  <2> QED  BY <2>3 DEF PageMoves, Ends
<1> QED  BY <1>2, <1>3

LEMMA MarkCompletedPage ==
    ASSUME TypeOK, NEW i \in Ids, MarkCompleted(i)
    PROVE  PageMoves
<1>1. /\ failedCount \in Nat /\ completedCount \in Nat
      /\ perChar \in [Chars -> [completed : Nat, failed : Nat]] /\ itemChar[i] \in Chars
  BY DEF TypeOK, QueueTypeOK
<1>2. CASE ~InItems(i)  BY <1>2 DEF MarkCompleted, queueVars, PageMoves, PageQuiet
<1>3. CASE InItems(i)
  <2>1. perChar[itemChar[i]].failed + 0 = perChar[itemChar[i]].failed  BY <1>1
  <2>2. failedCount + 0 = failedCount  BY <1>1
  <2>3. Settles(i, "completed")  BY <1>3, <2>1, <2>2 DEF MarkCompleted, Settles
  <2> QED  BY <2>3 DEF PageMoves, Ends
<1> QED  BY <1>2, <1>3

LEMMA GeneratePage ==
    ASSUME TypeOK, NEW i \in Ids, Generate(i)
    PROVE  PageMoves
<1>1. CASE Key(i) \in Known
  BY <1>1 DEF Generate, MarkStarted, PageMoves, PageQuiet, Ends, TypeOK, QueueTypeOK
<1>2. CASE Key(i) \notin Known  BY <1>2, MarkFailedPage DEF Generate
<1> QED  BY <1>1, <1>2

\* Fresh ids have no item yet, so spawning settles nothing.
LEMMA SpawnPage ==
    ASSUME SafetyInv, NEW s \in Scheds, NEW cs, Len(cs) \in Nat, EnqueueAndSpawn(s, cs)
    PROVE  PageMoves
<1>1. nextId \in Nat /\ \A i \in Ids : i \in Nat
  BY QueueAssumption DEF SafetyInv, TypeOK, QueueTypeOK, Ids
<1>2. \A i \in Ids : i \in nextId .. (nextId + Len(cs) - 1) => status[i] = "absent"
  BY <1>1 DEF SafetyInv, FreshIds
<1>3. UNCHANGED <<recent, completedCount, failedCount, perChar>>
  BY DEF EnqueueAndSpawn, Enqueue
<1>4. \A i \in Ids : \/ status[i] = "absent" /\ status'[i] = "queued"
                     \/ status'[i] = status[i] /\ itemChar'[i] = itemChar[i]
  BY <1>2 DEF EnqueueAndSpawn, Enqueue
<1> QED  BY <1>3, <1>4 DEF PageMoves, PageQuiet, Ends

LEMMA NextPage ==
    ASSUME SafetyInv, [Next]_vars
    PROVE  PageMoves
<1>0. TypeOK  BY DEF SafetyInv
<1>1. ASSUME UNCHANGED queueVars  PROVE PageMoves
  BY <1>1 DEF queueVars, PageMoves, PageQuiet
<1>2. ASSUME NEW i \in Ids, Enter(i)  PROVE PageMoves
  BY <1>0, <1>1, <1>2, GeneratePage DEF Enter
<1>3. ASSUME NEW i \in Ids, TaskStep(i)  PROVE PageMoves
  <2>1. CASE Start(i) \/ TakePermit(i) \/ TakeLock(i)
    BY <1>0, <1>1, <1>2, <2>1, GeneratePage DEF Start, TakePermit, TakeLock
  <2>2. CASE ProviderFails(i) \/ StoreFails(i)
    BY <1>0, <2>2, MarkFailedPage DEF ProviderFails, StoreFails
  <2>3. CASE ProviderReturns(i)
    <3>1. UNCHANGED queueVars  BY <2>3 DEF ProviderReturns, queueVars
    <3> QED  BY <1>1, <3>1
  <2>4. CASE Store(i)  BY <1>0, <2>4, MarkCompletedPage DEF Store
  <2>5. CASE CancelStep(i)  BY <1>0, <1>1, <2>5, MarkFailedPage DEF CancelStep
  <2> QED  BY <1>3, <2>1, <2>2, <2>3, <2>4, <2>5 DEF TaskStep
<1>4. ASSUME NEW s \in Scheds, NEW order, ReorderBegin(s, order)  PROVE PageMoves
  BY <1>4 DEF ReorderBegin, Remove, QueuedIds, InItems, PageMoves, PageQuiet, Ends
<1>5. ASSUME NEW r \in reorders, ReorderEnd(r)  PROVE PageMoves
  <2> DEFINE cs == [n \in 1..Len(r.order) |-> itemChar[r.order[n]]]
  <2>1. r.sched \in Scheds /\ r.order \in Seq(Ids)  BY <1>0 DEF TypeOK, ReorderRecords
  <2>2. Len(r.order) \in Nat  BY <2>1
  <2>3. Len(cs) \in Nat  BY <2>2
  <2>4. EnqueueAndSpawn(r.sched, cs)  BY <1>5 DEF ReorderEnd
  <2> HIDE DEF cs
  <2> QED  BY <2>1, <2>3, <2>4, SpawnPage
<1>6. ASSUME NEW s \in Scheds, NEW c, EnqueueAndSpawn(s, <<c>>)  PROVE PageMoves
  <2>1. Len(<<c>>) \in Nat  OBVIOUS
  <2> QED  BY <1>6, <2>1, SpawnPage
<1>7. CASE (\E s \in Scheds, c \in Chars : Request(s, c))
           \/ (\E i \in Ids, s \in Scheds : RegenerateRecent(i, s))
  BY <1>6, <1>7 DEF Request, RegenerateRecent
<1>8. CASE \/ UNCHANGED vars \/ \E i \in Ids : UserCancel(i)
           \/ \E s \in Scheds : DrainWait(s) \/ DrainTimeout(s) \/ DrainEnd(s)
           \/ \E k \in Known : IngestEvent(k)
  <2>1. UNCHANGED queueVars
    BY <1>8 DEF vars, UserCancel, CancelItem, DrainWait, DrainTimeout, DrainEnd, IngestEvent,
                queueVars
  <2> QED  BY <1>1, <2>1
<1> QED  BY <1>3, <1>4, <1>5, <1>7, <1>8 DEF Next, Handlers

\* The items that ended as e, and those of character c among them.
Ended(st, e) == {i \in Ids : st[i] = e}
EndedOf(st, ch, e, c) == {i \in Ids : st[i] = e /\ ch[i] = c}

LEMMA CountUp ==
    ASSUME NEW S \in SUBSET Ids, NEW i \in Ids, i \notin S
    PROVE  Cardinality(S \cup {i}) = Cardinality(S) + 1
BY IdSetsFinite, FS_AddElement

\* Settling adds the item to one of the two sets, and there to its own character.
LEMMA SettledSets ==
    ASSUME TypeOK, NEW i \in Ids, NEW e \in Ends, Settles(i, e), NEW f \in Ends
    PROVE  /\ Cardinality(Ended(status', f))
                = Cardinality(Ended(status, f)) + (IF f = e THEN 1 ELSE 0)
           /\ \A c \in Chars :
                Cardinality(EndedOf(status', itemChar', f, c))
                  = Cardinality(EndedOf(status, itemChar, f, c))
                      + (IF f = e /\ c = itemChar[i] THEN 1 ELSE 0)
<1>1. status \in [Ids -> Statuses] /\ status[i] \notin Ends
  BY DEF TypeOK, QueueTypeOK, Settles, InItems, Ends
<1>2. \A j \in Ids : status'[j] = (IF j = i THEN e ELSE status[j])  BY <1>1 DEF Settles
<1>3. UNCHANGED itemChar  BY DEF Settles
<1>4. /\ Ended(status, f) \in SUBSET Ids /\ i \notin Ended(status, f)
      /\ Ended(status', f) = IF f = e THEN Ended(status, f) \cup {i} ELSE Ended(status, f)
  BY <1>1, <1>2 DEF Ended
<1>5. Cardinality(Ended(status', f)) = Cardinality(Ended(status, f)) + (IF f = e THEN 1 ELSE 0)
  <2>1. Cardinality(Ended(status, f)) \in Nat  BY <1>4, IdSetsFinite
  <2>2. Cardinality(Ended(status, f) \cup {i}) = Cardinality(Ended(status, f)) + 1
    BY <1>4, CountUp
  <2> QED  BY <1>4, <2>1, <2>2
<1>6. ASSUME NEW c \in Chars
      PROVE  Cardinality(EndedOf(status', itemChar', f, c))
               = Cardinality(EndedOf(status, itemChar, f, c))
                   + (IF f = e /\ c = itemChar[i] THEN 1 ELSE 0)
  <2> DEFINE S == EndedOf(status, itemChar, f, c)
  <2>1. /\ S \in SUBSET Ids /\ i \notin S
        /\ EndedOf(status', itemChar', f, c)
             = IF f = e /\ c = itemChar[i] THEN S \cup {i} ELSE S
    BY <1>1, <1>2, <1>3 DEF EndedOf
  <2> HIDE DEF S
  <2>2. Cardinality(S) \in Nat  BY <2>1, IdSetsFinite
  <2>3. Cardinality(S \cup {i}) = Cardinality(S) + 1  BY <2>1, CountUp
  <2>4. Cardinality(EndedOf(status', itemChar', f, c))
          = Cardinality(S) + (IF f = e /\ c = itemChar[i] THEN 1 ELSE 0)
    BY <2>1, <2>2, <2>3
  <2> QED  BY <2>4 DEF S
<1> QED  BY <1>5, <1>6

LEMMA CountersKept ==
    ASSUME TypeOK, CountersAgree, PageMoves
    PROVE  CountersAgree'
<1>1. /\ completedCount = Cardinality(Ended(status, "completed"))
      /\ failedCount = Cardinality(Ended(status, "failed"))
      /\ \A c \in Chars :
           perChar[c] = [completed |-> Cardinality(EndedOf(status, itemChar, "completed", c)),
                         failed    |-> Cardinality(EndedOf(status, itemChar, "failed", c))]
  BY DEF CountersAgree, Ended, EndedOf
<1> SUFFICES
      /\ completedCount' = Cardinality(Ended(status', "completed"))
      /\ failedCount' = Cardinality(Ended(status', "failed"))
      /\ \A c \in Chars :
           perChar'[c] = [completed |-> Cardinality(EndedOf(status', itemChar', "completed", c)),
                          failed    |-> Cardinality(EndedOf(status', itemChar', "failed", c))]
  BY DEF CountersAgree, Ended, EndedOf
<1>2. CASE PageQuiet
  <2>1. \A e \in Ends : Ended(status', e) = Ended(status, e)
    BY <1>2 DEF PageQuiet, Ended
  <2>2. \A e \in Ends, c \in Chars :
          EndedOf(status', itemChar', e, c) = EndedOf(status, itemChar, e, c)
    BY <1>2 DEF PageQuiet, EndedOf
  <2>3. UNCHANGED <<completedCount, failedCount, perChar>>  BY <1>2 DEF PageQuiet
  <2> QED  BY <1>1, <2>1, <2>2, <2>3 DEF Ends
<1>3. ASSUME NEW i \in Ids, NEW e \in Ends, Settles(i, e)
      PROVE  /\ completedCount' = Cardinality(Ended(status', "completed"))
             /\ failedCount' = Cardinality(Ended(status', "failed"))
             /\ \A c \in Chars :
                  perChar'[c] = [completed |-> Cardinality(EndedOf(status', itemChar', "completed", c)),
                                 failed    |-> Cardinality(EndedOf(status', itemChar', "failed", c))]
  <2>0. "completed" \in Ends /\ "failed" \in Ends /\ "completed" # "failed"  BY DEF Ends
  <2>1. completedCount' = Cardinality(Ended(status', "completed"))
    BY <1>1, <1>3, <2>0, SettledSets DEF Settles
  <2>2. failedCount' = Cardinality(Ended(status', "failed"))
    BY <1>1, <1>3, <2>0, SettledSets DEF Settles
  <2>3. ASSUME NEW c \in Chars
        PROVE  perChar'[c] = [completed |-> Cardinality(EndedOf(status', itemChar', "completed", c)),
                              failed    |-> Cardinality(EndedOf(status', itemChar', "failed", c))]
    <3> DEFINE nc == Cardinality(EndedOf(status, itemChar, "completed", c))
               nf == Cardinality(EndedOf(status, itemChar, "failed", c))
               dc == IF e = "completed" THEN 1 ELSE 0
               df == IF e = "failed" THEN 1 ELSE 0
               own == itemChar[i]
    <3>1. /\ perChar \in [Chars -> [completed : Nat, failed : Nat]]
          /\ own \in Chars
      BY DEF TypeOK, QueueTypeOK
    <3>2. perChar[c] = [completed |-> nc, failed |-> nf] /\ nc \in Nat /\ nf \in Nat
      <4>1. EndedOf(status, itemChar, "completed", c) \in SUBSET Ids
            /\ EndedOf(status, itemChar, "failed", c) \in SUBSET Ids
        BY DEF EndedOf
      <4> QED  BY <1>1, <4>1, IdSetsFinite
    <3>3. /\ Cardinality(EndedOf(status', itemChar', "completed", c))
               = nc + (IF "completed" = e /\ c = own THEN 1 ELSE 0)
          /\ Cardinality(EndedOf(status', itemChar', "failed", c))
               = nf + (IF "failed" = e /\ c = own THEN 1 ELSE 0)
      BY <1>3, <2>0, SettledSets
    <3>4. perChar' = [perChar EXCEPT ![own] =
                        [completed |-> @.completed + dc, failed |-> @.failed + df]]
      BY <1>3 DEF Settles
    <3> HIDE DEF nc, nf, own
    <3>5. CASE c = own
      <4>1. perChar'[c] = [completed |-> perChar[c].completed + dc,
                           failed |-> perChar[c].failed + df]
        BY <3>1, <3>4, <3>5
      <4>2. perChar'[c] = [completed |-> nc + dc, failed |-> nf + df]  BY <3>2, <4>1
      <4> QED  BY <3>3, <3>5, <4>2
    <3>6. CASE c # own
      <4>1. perChar'[c] = perChar[c]  BY <3>1, <3>4, <3>6
      <4> QED  BY <3>2, <3>3, <3>6, <4>1
    <3> QED  BY <3>5, <3>6
  <2> QED  BY <2>1, <2>2, <2>3
<1> QED  BY <1>2, <1>3 DEF PageMoves

\* What the ring looks like after an append.
LEMMA PushShape ==
    ASSUME NEW ring \in Seq(Ids), NEW i \in Ids, Len(ring) <= RecentCap
    PROVE  /\ Push(ring, i) \in Seq(Ids) /\ Len(Push(ring, i)) <= RecentCap
           /\ Len(ring) = RecentCap =>
                /\ Len(Push(ring, i)) = RecentCap
                /\ \A n \in 1..RecentCap :
                     Push(ring, i)[n] = IF n = RecentCap THEN i ELSE ring[n + 1]
           /\ Len(ring) < RecentCap =>
                /\ Len(Push(ring, i)) = Len(ring) + 1
                /\ \A n \in 1..(Len(ring) + 1) :
                     Push(ring, i)[n] = IF n = Len(ring) + 1 THEN i ELSE ring[n]
<1>1. RecentCap \in Nat /\ RecentCap > 0 /\ Len(ring) \in Nat  BY QueueAssumption
<1>2. Push(ring, i) \in Seq(Ids)  BY PushType
<1>3. CASE Len(ring) = RecentCap
  <2>1. ring # <<>>  BY <1>1, <1>3
  <2>2. /\ Tail(ring) \in Seq(Ids) /\ Len(Tail(ring)) = RecentCap - 1
        /\ \A n \in 1..(RecentCap - 1) : Tail(ring)[n] = ring[n + 1]
    BY <1>1, <1>3, <2>1
  <2>3. Push(ring, i) = Append(Tail(ring), i)  BY <1>3 DEF Push
  <2> QED  BY <1>1, <1>2, <1>3, <2>2, <2>3
<1>4. CASE Len(ring) < RecentCap
  <2>1. Push(ring, i) = Append(ring, i)  BY <1>1, <1>4 DEF Push
  <2> QED  BY <1>1, <1>2, <1>4, <2>1
<1> QED  BY <1>1, <1>3, <1>4

LEMMA RingKept ==
    ASSUME TypeOK, RingHoldsRecentSettled, PageMoves
    PROVE  RingHoldsRecentSettled'
<1>1. /\ recent \in Seq(Ids) /\ DOMAIN recent = 1..Len(recent) /\ Len(recent) \in Nat
      /\ RecentCap \in Nat /\ status \in [Ids -> Statuses]
      /\ \A n \in 1..Len(recent) : recent[n] \in Ids
  BY QueueAssumption DEF TypeOK, QueueTypeOK
<1>2. CASE PageQuiet
  <2>1. SettledIds' = SettledIds  BY <1>2 DEF PageQuiet, SettledIds, Ends
  <2>2. UNCHANGED recent  BY <1>2 DEF PageQuiet
  <2> QED  BY <2>1, <2>2 DEF RingHoldsRecentSettled, FindRecent
<1>3. ASSUME NEW i \in Ids, NEW e \in Ends, Settles(i, e)
      PROVE  RingHoldsRecentSettled'
  <2>1. recent' = Push(recent, i) /\ i \notin SettledIds /\ SettledIds' = SettledIds \cup {i}
    BY <1>1, <1>3 DEF Settles, SettledIds, InItems, Ends
  <2>2. /\ Len(recent) <= RecentCap
        /\ \A m, n \in 1..Len(recent) : recent[m] = recent[n] => m = n
        /\ \A n \in 1..Len(recent) : recent[n] \in SettledIds /\ recent[n] # i
        /\ Len(recent) < RecentCap => \A j \in SettledIds : \E n \in 1..Len(recent) : recent[n] = j
    BY <1>1, <2>1 DEF RingHoldsRecentSettled, FindRecent
  <2> DEFINE ring == recent
             pushed == Push(ring, i)
  <2>0. ring \in Seq(Ids) /\ Len(ring) <= RecentCap  BY <1>1, <2>2
  <2> HIDE DEF ring
  <2>a. /\ pushed \in Seq(Ids) /\ Len(pushed) <= RecentCap
        /\ Len(ring) = RecentCap =>
             /\ Len(pushed) = RecentCap
             /\ \A n \in 1..RecentCap : pushed[n] = IF n = RecentCap THEN i ELSE ring[n + 1]
        /\ Len(ring) < RecentCap =>
             /\ Len(pushed) = Len(ring) + 1
             /\ \A n \in 1..(Len(ring) + 1) :
                  pushed[n] = IF n = Len(ring) + 1 THEN i ELSE ring[n]
    BY <2>0, PushShape
  <2> HIDE DEF pushed
  <2>b. recent' = pushed /\ recent = ring  BY <2>1 DEF pushed, ring
  <2>6. /\ Len(recent) = RecentCap =>
             /\ Len(recent') = RecentCap
             /\ \A n \in 1..RecentCap : recent'[n] = IF n = RecentCap THEN i ELSE recent[n + 1]
        /\ Len(recent) < RecentCap =>
             /\ Len(recent') = Len(recent) + 1
             /\ \A n \in 1..(Len(recent) + 1) :
                  recent'[n] = IF n = Len(recent) + 1 THEN i ELSE recent[n]
    BY <2>a, <2>b
  <2>3. recent' \in Seq(Ids) /\ Len(recent') <= RecentCap  BY <2>a, <2>b
  <2>4. CASE Len(recent) = RecentCap
    <3>0. /\ Len(recent') = RecentCap
          /\ \A n \in 1..RecentCap : recent'[n] = IF n = RecentCap THEN i ELSE recent[n + 1]
      BY <2>4, <2>6
    <3>1. /\ Len(recent') = RecentCap /\ DOMAIN recent' = 1..RecentCap
          /\ \A n \in 1..RecentCap : recent'[n] = IF n = RecentCap THEN i ELSE recent[n + 1]
      <4>1. DOMAIN recent' = 1..Len(recent')  BY <2>3
      <4> QED  BY <3>0, <4>1
    <3>2. \A m, n \in 1..RecentCap : recent'[m] = recent'[n] => m = n
      <4>1. \A n \in 1..RecentCap : n # RecentCap => n + 1 \in 1..Len(recent)
        BY <1>1, <2>4
      <4> QED  BY <1>1, <2>2, <2>4, <3>1, <4>1
    <3>3. \A n \in 1..RecentCap : recent'[n] \in SettledIds'
      BY <1>1, <2>1, <2>2, <2>4, <3>1
    <3> QED  BY <1>1, <3>1, <3>2, <3>3 DEF RingHoldsRecentSettled
  <2>5. CASE Len(recent) < RecentCap
    <3> DEFINE L == Len(recent) + 1
    <3>1. /\ Len(recent') = L /\ DOMAIN recent' = 1..L
          /\ \A n \in 1..L : recent'[n] = IF n = L THEN i ELSE recent[n]
      <4>1. DOMAIN recent' = 1..Len(recent')  BY <2>3
      <4>2. Len(recent') = L  BY <2>5, <2>6
      <4>3. \A n \in 1..L : recent'[n] = IF n = L THEN i ELSE recent[n]  BY <2>5, <2>6
      <4> QED  BY <4>1, <4>2, <4>3
    <3>2. \A n \in 1..L : n # L => n \in 1..Len(recent)  BY <1>1
    <3>3. \A m, n \in 1..L : recent'[m] = recent'[n] => m = n  BY <1>1, <2>2, <3>1, <3>2
    <3>4. \A n \in 1..L : recent'[n] \in SettledIds'  BY <2>1, <2>2, <3>1, <3>2
    <3>5. ASSUME NEW j \in SettledIds'  PROVE \E n \in 1..L : recent'[n] = j
      <4>1. CASE j = i
        <5>1. L \in 1..L  BY <1>1
        <5> QED  BY <3>1, <4>1, <5>1
      <4>2. CASE j \in SettledIds
        <5>1. PICK n \in 1..Len(recent) : recent[n] = j  BY <2>2, <2>5, <4>2
        <5>2. n \in 1..L /\ n # L  BY <1>1
        <5> QED  BY <3>1, <5>1, <5>2
      <4> QED  BY <2>1, <4>1, <4>2
    <3> QED  BY <2>3, <3>1, <3>3, <3>4, <3>5 DEF RingHoldsRecentSettled, FindRecent
  <2>7. Len(recent) = RecentCap \/ Len(recent) < RecentCap
    <3>1. Len(recent) \in Nat /\ RecentCap \in Nat  BY <1>1
    <3>2. Len(recent) <= RecentCap  BY <2>2
    <3> QED  BY <3>1, <3>2
  <2> QED  BY <2>4, <2>5, <2>7
<1> QED  BY <1>2, <1>3 DEF PageMoves

(***************************************************************************)
(* The queue page never lies, whoever calls mark_* late, twice or for an   *)
(* item that has left: for any ring size, any number of items and tasks.   *)
(***************************************************************************)
THEOREM PageTruthful == Spec => []QueuePageTruthful
<1> DEFINE Page == CountersAgree /\ RingHoldsRecentSettled
<1>1. Init => Page
  <2> SUFFICES ASSUME Init PROVE Page  OBVIOUS
  <2>1. /\ completedCount = 0 /\ failedCount = 0 /\ recent = <<>>
        /\ \A i \in Ids : status[i] = "absent"
        /\ perChar = [c \in Chars |-> [completed |-> 0, failed |-> 0]]
    BY DEF Init, QueueInit, NoStats
  <2>2. /\ \A e \in Ends : {i \in Ids : status[i] = e} = {}
        /\ \A e \in Ends, c \in Chars : {i \in Ids : status[i] = e /\ itemChar[i] = c} = {}
    BY <2>1 DEF Ends
  <2>3. Cardinality({}) = 0  BY FS_EmptySet
  <2>4. CountersAgree  BY <2>1, <2>2, <2>3 DEF CountersAgree, Ends
  <2>5. SettledIds = {} /\ Len(recent) = 0 /\ DOMAIN recent = {}  BY <2>1 DEF SettledIds
  <2>6. RingHoldsRecentSettled  BY <2>5, QueueAssumption DEF RingHoldsRecentSettled
  <2> QED  BY <2>4, <2>6
<1>2. SafetyInv /\ Page /\ [Next]_vars => Page'
  <2> SUFFICES ASSUME SafetyInv, Page, [Next]_vars PROVE Page'  OBVIOUS
  <2>1. TypeOK /\ PageMoves  BY NextPage DEF SafetyInv
  <2> QED  BY <2>1, CountersKept, RingKept
<1>3. SafetyInv /\ Page => QueuePageTruthful  BY DEF SafetyInv, QueuePageTruthful
<1> HIDE DEF Page
<1> QED  BY <1>1, <1>2, <1>3, SafetyHolds, PTL DEF Spec

-----------------------------------------------------------------------------
(***************************************************************************)
(* Reordering.  Its snapshot is of the process-wide queue, so with several *)
(* schedulers at work an item may come back on another one, but every      *)
(* dropped item comes back.                                                *)
(***************************************************************************)

\* An heir, and what it is the heir of, are items that were handed out, for one
\* character; it has one predecessor; and a reorder has dropped items there were.
HeirsKnown ==
    /\ \A i \in Ids : heir[i] # 0 =>
         i < nextId /\ heir[i] \in Ids /\ heir[i] < nextId /\ itemChar[heir[i]] = itemChar[i]
    /\ \A i, j \in Ids : heir[i] # 0 /\ heir[j] = heir[i] => j = i
    /\ \A r \in reorders : \A n \in DOMAIN r.order : r.order[n] < nextId

\* A drag orders all the queued items: an injection between finite sets of one
\* size misses none.
LEMMA OrderingsComplete ==
    ASSUME NEW S \in SUBSET Ids, NEW f \in Orderings(S), NEW i \in S
    PROVE  \E n \in DOMAIN f : f[n] = i
<1> DEFINE n == Cardinality(S)
<1>1. IsFiniteSet(S) /\ n \in Nat  BY IdSetsFinite
<1>2. /\ f \in [1..n -> S] /\ DOMAIN f = 1..n
      /\ \A a, b \in 1..n : f[a] = f[b] => a = b
  BY DEF Orderings
<1>3. Cardinality(1..n) = n
  <2>1. Cardinality(1..n) = IF 1 > n THEN 0 ELSE n - 1 + 1  BY <1>1, FS_Interval
  <2> QED  BY <1>1, <2>1
<1> HIDE DEF n
<1>4. f \in Injection(1..n, S)  BY <1>2 DEF Injection, IsInjective
<1>5. f \in Surjection(1..n, S)  BY <1>1, <1>3, <1>4, FS_Injection DEF n
<1> QED  BY <1>2, <1>5 DEF Surjection

\* Steps that leave the registry of reorders alone.
LEMMA OthersKeep ==
    ASSUME [Next]_vars, TypeOK
    PROVE  \/ \E s \in Scheds : \E order \in Orderings(QueuedIds) : ReorderBegin(s, order)
           \/ \E r \in reorders : ReorderEnd(r)
           \/ /\ UNCHANGED <<heir, reorders>>
              /\ \/ UNCHANGED queueVars
                 \/ \E s \in Scheds, n \in Nat : SpawnShape(s, n)
                 \/ \E i \in Ids : MoveShape(i)
<1>1. ASSUME NEW i \in Ids, TaskStep(i)  PROVE MoveShape(i) /\ UNCHANGED <<heir, reorders>>
  <2>1. ASSUME Generate(i) \/ Enter(i)  PROVE UNCHANGED <<heir, reorders>>
    BY <2>1 DEF Enter, Generate, MoveTo, Finish
  <2>2. UNCHANGED <<heir, reorders>>
    BY <1>1, <2>1 DEF TaskStep, Start, TakePermit, TakeLock, ProviderFails, ProviderReturns,
                      Store, StoreFails, CancelStep, MoveTo, Finish
  <2> QED  BY <1>1, <2>2, TaskStepHasShape
<1>2. CASE \/ UNCHANGED vars \/ \E i \in Ids : UserCancel(i)
           \/ \E s \in Scheds : DrainWait(s) \/ DrainTimeout(s) \/ DrainEnd(s)
           \/ \E k \in Known : IngestEvent(k)
  BY <1>2 DEF vars, taskVars, UserCancel, CancelItem, DrainWait, DrainTimeout, DrainEnd,
              IngestEvent
<1>3. ASSUME NEW s \in Scheds, NEW c \in Chars, EnqueueAndSpawn(s, <<c>>), cancelled' = cancelled
      PROVE  \E t \in Scheds, n \in Nat : SpawnShape(t, n)
  <2>1. <<c>> \in Seq(Chars) /\ Len(<<c>>) \in Nat  OBVIOUS
  <2> QED  BY <1>3, <2>1, SpawnHasShape
<1>4. \A i \in Ids : itemChar[i] \in Chars  BY DEF TypeOK, QueueTypeOK
<1>5. CASE (\E s \in Scheds, c \in Chars : Request(s, c))
           \/ (\E i \in Ids, s \in Scheds : RegenerateRecent(i, s))
  BY <1>3, <1>4, <1>5 DEF Request, RegenerateRecent
<1> QED  BY <1>1, <1>2, <1>5 DEF Next, Handlers

LEMMA ReorderStep ==
    ASSUME SafetyInv, TypeOK', HeirsKnown, ReorderKeepsEveryItem, [Next]_vars
    PROVE  HeirsKnown' /\ ReorderKeepsEveryItem'
<1>0. /\ TypeOK /\ nextId \in Nat /\ MaxItems \in Nat /\ \A i \in Ids : i \in Nat
  <2>1. TypeOK  BY DEF SafetyInv
  <2>2. MaxItems \in Nat /\ nextId \in 1..(MaxItems + 1)
    BY <2>1, QueueAssumption DEF TypeOK, QueueTypeOK
  <2> QED  BY <2>1, <2>2 DEF Ids
<1>a. owner \in [Ids -> Scheds] /\ heir \in [Ids -> 0..MaxItems]  BY <1>0 DEF TypeOK
<1>3. ASSUME NEW i \in Ids, status[i] = "removed", heir[i] = 0
      PROVE  \E r \in reorders : \E n \in DOMAIN r.order : r.order[n] = i
  BY <1>3 DEF ReorderKeepsEveryItem
<1> DEFINE Bound(i) == heir'[i] # 0 =>
             /\ i < nextId' /\ heir'[i] \in Ids /\ heir'[i] < nextId'
             /\ itemChar'[heir'[i]] = itemChar'[i]
           Waits(i) == heir'[i] = 0 =>
             \E r \in reorders' : \E n \in DOMAIN r.order : r.order[n] = i
           Listed(r) == \A n \in DOMAIN r.order : r.order[n] < nextId'
           Apart == \A i, j \in Ids : heir'[i] # 0 /\ heir'[j] = heir'[i] => j = i
<1>4. ASSUME \A i \in Ids : Bound(i), \A i \in Ids : status'[i] = "removed" => Waits(i),
             \A r \in reorders' : Listed(r), Apart
      PROVE  HeirsKnown' /\ ReorderKeepsEveryItem'
  <2>1. HeirsKnown'  BY <1>4 DEF HeirsKnown
  <2>2. ReorderKeepsEveryItem'  BY <1>4 DEF ReorderKeepsEveryItem
  <2> QED  BY <2>1, <2>2
<1>5. ASSUME UNCHANGED <<heir, reorders>>, nextId' \in Nat, nextId <= nextId',
             \A i \in Ids : status'[i] = "removed" => status[i] = "removed",
             \A i \in Ids : i < nextId => itemChar'[i] = itemChar[i]
      PROVE  HeirsKnown' /\ ReorderKeepsEveryItem'
  <2>1. ASSUME NEW i \in Ids  PROVE Bound(i)
    <3>1. CASE heir[i] # 0
      <4>1. i < nextId /\ heir[i] \in Ids /\ heir[i] < nextId /\ itemChar[heir[i]] = itemChar[i]
        BY <3>1 DEF HeirsKnown
      <4>2. itemChar'[i] = itemChar[i] /\ itemChar'[heir[i]] = itemChar[heir[i]]
        BY <1>5, <4>1
      <4> QED  BY <1>0, <1>5, <4>1, <4>2
    <3> QED  BY <1>5, <3>1
  <2>2. ASSUME NEW i \in Ids, status'[i] = "removed"  PROVE Waits(i)
    BY <1>3, <1>5, <2>2
  <2>3. ASSUME NEW r \in reorders'  PROVE Listed(r)
    <3>1. r \in reorders  BY <1>5
    <3>2. \A n \in DOMAIN r.order : r.order[n] < nextId  BY <3>1 DEF HeirsKnown
    <3>3. r.order \in Seq(Ids)  BY <1>0, <3>1 DEF TypeOK, ReorderRecords
    <3>4. \A n \in DOMAIN r.order : r.order[n] \in Nat  BY <1>0, <3>3
    <3> QED  BY <1>0, <1>5, <3>2, <3>4
  <2>4. Apart  BY <1>5 DEF HeirsKnown
  <2> HIDE DEF Bound, Waits, Listed, Apart
  <2> QED  BY <1>4, <2>1, <2>2, <2>3, <2>4
<1>6. CASE UNCHANGED <<heir, reorders>> /\ UNCHANGED queueVars
  BY <1>0, <1>5, <1>6 DEF queueVars
<1>7. ASSUME NEW s \in Scheds, NEW n \in Nat, SpawnShape(s, n), UNCHANGED <<heir, reorders>>
      PROVE  HeirsKnown' /\ ReorderKeepsEveryItem'
  <2>1. nextId' \in Nat /\ nextId <= nextId'  BY <1>0, <1>7 DEF SpawnShape
  <2>2. \A i \in Ids : status'[i] = "removed" => status[i] = "removed"
    BY <1>7 DEF SpawnShape
  <2>3. \A i \in Ids : i < nextId => itemChar'[i] = itemChar[i]
    BY <1>0, <1>7 DEF SpawnShape
  <2> QED  BY <1>5, <1>7, <2>1, <2>2, <2>3
<1>8. ASSUME NEW i \in Ids, MoveShape(i), UNCHANGED <<heir, reorders>>
      PROVE  HeirsKnown' /\ ReorderKeepsEveryItem'
  <2>1. UNCHANGED <<nextId, itemChar>>  BY <1>8 DEF MoveShape
  <2>2. \A j \in Ids : status'[j] = "removed" => status[j] = "removed"
    BY <1>8 DEF MoveShape
  <2> QED  BY <1>0, <1>5, <1>8, <2>1, <2>2
<1>9. ASSUME NEW s \in Scheds, NEW order \in Orderings(QueuedIds), ReorderBegin(s, order)
      PROVE  HeirsKnown' /\ ReorderKeepsEveryItem'
  <2> DEFINE own == {i \in QueuedIds : owner[i] = s /\ i \in active}
             new == [sched |-> s, order |-> order, await |-> own]
  <2>1. UNCHANGED <<nextId, itemChar, heir>> /\ reorders' = reorders \cup {new}
    BY <1>9 DEF ReorderBegin, Remove
  <2>2. new.order = order  OBVIOUS
  <2> HIDE DEF new
  <2>3. \A i \in Ids : status'[i] = "removed" => status[i] = "removed" \/ i \in QueuedIds
    BY <1>9 DEF ReorderBegin, Remove
  <2>4. QueuedIds \in SUBSET Ids /\ \A i \in QueuedIds : i < nextId
    BY <1>0 DEF QueuedIds, SafetyInv, FreshIds
  <2>5. \A i \in Ids : Bound(i)  BY <2>1 DEF HeirsKnown
  <2>6. ASSUME NEW i \in Ids, status'[i] = "removed", heir'[i] = 0
        PROVE  \E r \in reorders' : \E n \in DOMAIN r.order : r.order[n] = i
    <3>1. CASE status[i] = "removed"  BY <1>3, <2>1, <2>6, <3>1
    <3>2. CASE i \in QueuedIds
      <4>1. \E n \in DOMAIN order : order[n] = i  BY <2>4, <3>2, OrderingsComplete
      <4> QED  BY <2>1, <2>2, <4>1
    <3> QED  BY <2>3, <2>6, <3>1, <3>2
  <2>7. ASSUME NEW r \in reorders'  PROVE Listed(r)
    <3>1. CASE r \in reorders  BY <2>1, <3>1 DEF HeirsKnown
    <3>2. CASE r = new
      <4>1. \A n \in DOMAIN order : order[n] \in QueuedIds  BY <2>4, OrderingsAreSequences
      <4> QED  BY <2>1, <2>2, <2>4, <3>2, <4>1
    <3> QED  BY <2>1, <3>1, <3>2
  <2>8. \A i \in Ids : status'[i] = "removed" => Waits(i)  BY <2>6
  <2>9. Apart  BY <2>1 DEF HeirsKnown
  <2> HIDE DEF Bound, Waits, Listed, Apart
  <2> QED  BY <1>4, <2>5, <2>7, <2>8, <2>9
<1>10. ASSUME NEW r \in reorders, ReorderEnd(r)
       PROVE  HeirsKnown' /\ ReorderKeepsEveryItem'
  <2> DEFINE L == Len(r.order)
             cs == [n \in 1..L |-> itemChar[r.order[n]]]
             Place(i) == CHOOSE n \in 1..L : r.order[n] = i
  <2>1. r.order \in Seq(Ids)  BY <1>0 DEF TypeOK, ReorderRecords
  <2>2. L \in Nat /\ DOMAIN r.order = 1..L /\ \A n \in 1..L : r.order[n] \in Ids  BY <2>1
  <2>3. cs \in Seq(Chars) /\ Len(cs) = L /\ \A n \in 1..L : cs[n] = itemChar[r.order[n]]
    <3>1. \A n \in 1..L : itemChar[r.order[n]] \in Chars  BY <1>0, <2>2 DEF TypeOK, QueueTypeOK
    <3> QED  BY <2>2, <3>1
  <2>4. Enqueue(cs, CampOf[r.sched])  BY <1>10 DEF ReorderEnd, EnqueueAndSpawn
  <2>5. reorders' = reorders \ {r}  BY <1>10 DEF ReorderEnd
  <2>6. \A i \in Ids : heir'[i] = IF \E n \in 1..L : r.order[n] = i
                                  THEN nextId - 1 + Place(i) ELSE heir[i]
    BY <1>10 DEF ReorderEnd
  <2> HIDE DEF cs
  <2>7. nextId' = nextId + L /\ nextId + L - 1 <= MaxItems  BY <2>3, <2>4 DEF Enqueue
  <2>8. \A i \in Ids : i < nextId => itemChar'[i] = itemChar[i] /\ status'[i] = status[i]
    BY <1>0, <2>4 DEF Enqueue
  <2>9. \A i \in Ids : i \in nextId .. (nextId + L - 1) => itemChar'[i] = cs[i - nextId + 1]
    BY <2>3, <2>4 DEF Enqueue
  <2>10. \A i \in Ids : status'[i] = "removed" => status[i] = "removed"
    BY <2>4 DEF Enqueue
  <2>11. ASSUME NEW i \in Ids, NEW m \in 1..L, r.order[m] = i
         PROVE  /\ heir'[i] # 0 /\ i < nextId' /\ heir'[i] \in Ids /\ heir'[i] < nextId'
                /\ itemChar'[heir'[i]] = itemChar'[i]
    <3>1. PICK n \in 1..L : n = Place(i) /\ r.order[n] = i  BY <2>11
    <3> HIDE DEF Place
    <3>2. heir'[i] = nextId - 1 + n  BY <2>6, <2>11, <3>1
    <3>3. i < nextId  BY <2>2, <2>11 DEF HeirsKnown
    <3>4. n \in Nat /\ 1 <= n /\ n <= L  BY <2>2
    <3>5. nextId \in 1..(MaxItems + 1)  BY <1>0 DEF TypeOK, QueueTypeOK
    <3>6. /\ heir'[i] # 0 /\ i < nextId' /\ heir'[i] \in Ids /\ heir'[i] < nextId'
          /\ heir'[i] \in nextId .. (nextId + L - 1) /\ heir'[i] - nextId + 1 = n
      BY <1>0, <2>2, <2>7, <3>2, <3>3, <3>4, <3>5 DEF Ids
    <3>7. itemChar'[heir'[i]] = cs[n]  BY <2>9, <3>6
    <3>8. itemChar'[i] = itemChar[i]  BY <2>8, <3>3
    <3> QED  BY <2>3, <3>1, <3>6, <3>7, <3>8
  <2> HIDE DEF Place
  <2>12. ASSUME NEW i \in Ids  PROVE Bound(i)
    <3>1. CASE \E n \in 1..L : r.order[n] = i  BY <2>11, <3>1
    <3>2. CASE ~\E n \in 1..L : r.order[n] = i
      <4>1. heir'[i] = heir[i]  BY <2>6, <3>2
      <4>2. CASE heir[i] # 0
        <5>1. i < nextId /\ heir[i] \in Ids /\ heir[i] < nextId /\ itemChar[heir[i]] = itemChar[i]
          BY <4>2 DEF HeirsKnown
        <5>2. itemChar'[i] = itemChar[i] /\ itemChar'[heir[i]] = itemChar[heir[i]]
          BY <2>8, <5>1
        <5> QED  BY <1>0, <2>2, <2>7, <4>1, <5>1, <5>2
      <4> QED  BY <4>1, <4>2
    <3> QED  BY <3>1, <3>2
  <2>13. ASSUME NEW i \in Ids, status'[i] = "removed", heir'[i] = 0
         PROVE  \E q \in reorders' : \E n \in DOMAIN q.order : q.order[n] = i
    <3>1. ~\E n \in 1..L : r.order[n] = i  BY <2>11, <2>13
    <3>2. heir[i] = 0 /\ status[i] = "removed"  BY <2>6, <2>10, <2>13, <3>1
    <3>3. PICK q \in reorders : \E n \in DOMAIN q.order : q.order[n] = i  BY <1>3, <3>2
    <3>4. q # r  BY <2>2, <3>1, <3>3
    <3> QED  BY <2>5, <3>3, <3>4
  <2>14. ASSUME NEW q \in reorders'  PROVE Listed(q)
    <3>1. q \in reorders  BY <2>5
    <3>2. \A n \in DOMAIN q.order : q.order[n] < nextId  BY <3>1 DEF HeirsKnown
    <3>3. q.order \in Seq(Ids)  BY <1>0, <3>1 DEF TypeOK, ReorderRecords
    <3>4. \A n \in DOMAIN q.order : q.order[n] \in Nat  BY <1>0, <3>3
    <3> QED  BY <1>0, <2>2, <2>7, <3>2, <3>4
  <2>15. \A i \in Ids : status'[i] = "removed" => Waits(i)  BY <2>13
  <2>16. ASSUME NEW i \in Ids, NEW j \in Ids, heir'[i] # 0, heir'[j] = heir'[i]  PROVE j = i
    <3> DEFINE Old(x) == heir'[x] = heir[x] /\ heir[x] < nextId
               Placed(x) == \E n \in 1..L : r.order[n] = x /\ heir'[x] = nextId - 1 + n
    <3>1. ASSUME NEW x \in Ids, heir'[x] # 0  PROVE Old(x) \/ Placed(x)
      <4>1. CASE \E n \in 1..L : r.order[n] = x
        <5>1. PICK n \in 1..L : n = Place(x) /\ r.order[n] = x  BY <4>1 DEF Place
        <5> QED  BY <2>6, <4>1, <5>1
      <4>2. CASE ~\E n \in 1..L : r.order[n] = x
        <5>1. heir'[x] = heir[x]  BY <2>6, <4>2
        <5> QED  BY <3>1, <5>1 DEF HeirsKnown
      <4> QED  BY <4>1, <4>2
    <3>2. ASSUME NEW x \in Ids, NEW y \in Ids, Old(x), Placed(y), heir'[x] = heir'[y]  PROVE FALSE
      <4>1. PICK n \in 1..L : heir'[y] = nextId - 1 + n  BY <3>2
      <4>2. heir[x] \in Nat /\ n \in Nat /\ 1 <= n  BY <1>0, <1>a, <2>2
      <4> QED  BY <1>0, <3>2, <4>1, <4>2
    <3>3. CASE Old(i) /\ Old(j)  BY <2>16, <3>3 DEF HeirsKnown
    <3>4. CASE Placed(i) /\ Placed(j)
      <4>1. PICK m \in 1..L : r.order[m] = i /\ heir'[i] = nextId - 1 + m  BY <3>4
      <4>2. PICK n \in 1..L : r.order[n] = j /\ heir'[j] = nextId - 1 + n  BY <3>4
      <4>3. m = n  BY <1>0, <2>2, <2>16, <4>1, <4>2
      <4> QED  BY <4>1, <4>2, <4>3
    <3> HIDE DEF Old, Placed
    <3> QED  BY <2>16, <3>1, <3>2, <3>3, <3>4
  <2>17. Apart  BY <2>16
  <2> HIDE DEF Bound, Waits, Listed, Apart
  <2> QED  BY <1>4, <2>12, <2>14, <2>15, <2>17
<1> QED  BY <1>0, <1>6, <1>7, <1>8, <1>9, <1>10, OthersKeep

(***************************************************************************)
(* A reorder (reorder_queued, 340-403) loses no item, changes no character *)
(* and respawns none twice, whatever is cancelled, settled or requested    *)
(* while it waits, however many reorders overlap, on one scheduler or on   *)
(* several that share the queue.                                           *)
(***************************************************************************)
THEOREM ReordersKeep == Spec => []ReorderKeepsEveryItem
<1> DEFINE Kept == HeirsKnown /\ ReorderKeepsEveryItem
<1>1. Init => Kept
  <2> SUFFICES ASSUME Init PROVE Kept  OBVIOUS
  <2>1. /\ \A i \in Ids : status[i] = "absent" /\ heir[i] = 0
        /\ reorders = {}
    BY DEF Init, QueueInit
  <2> QED  BY <2>1 DEF HeirsKnown, ReorderKeepsEveryItem
<1>2. SafetyInv /\ SafetyInv' /\ Kept /\ [Next]_vars => Kept'
  BY ReorderStep DEF SafetyInv
<1>3. Kept => ReorderKeepsEveryItem  OBVIOUS
<1> HIDE DEF Kept
<1> QED  BY <1>1, <1>2, <1>3, SafetyHolds, PTL DEF Spec

-----------------------------------------------------------------------------
(***************************************************************************)
(* The prose repository.  The per-character lock is a scheduler's own, so  *)
(* two of one campaign may pick the same vN; they are seen at it (raced).  *)
(***************************************************************************)

Busy(i) == pc[i] \in {"call", "commit"}

\* Generations of one character on two schedulers are seen.
RacesSeen ==
    \A i, j \in Ids : Busy(i) /\ Busy(j) /\ owner[i] # owner[j] /\ Key(i) = Key(j)
      => Key(i) \in raced

\* Without such a race, a running generation owns the next vN, then the file it
\* wrote there, and has read at least what every stored version has.
Owns(i) ==
    /\ pc[i] = "call" => version[i] = Len(files[Key(i)]) + 1
    /\ pc[i] = "commit" => \E n \in DOMAIN files[Key(i)] : files[Key(i)][n] = i
    /\ \A m \in DOMAIN rows[Key(i)] : through[rows[Key(i)][m]] <= through[i]

VersionsHeld ==
    \A i \in Ids :
      Busy(i) => /\ through[i] <= events[Key(i)]
                 /\ Key(i) \notin raced => Owns(i)

\* What is stored is over, and was read from events that were there.
StoredIsOver ==
    \A k \in Keys : \A m \in DOMAIN rows[k] :
      pc[rows[k][m]] = "done" /\ through[rows[k][m]] <= events[k]

StoreQuiet ==
    /\ UNCHANGED <<through, version, files, rows, raced>>
    /\ \A k \in Keys : events[k] <= events'[k]
    /\ \A i \in Ids : /\ pc'[i] \in {"call", "commit"} => pc'[i] = pc[i]
                      /\ pc[i] = "done" => pc'[i] = "done"
                      /\ pc[i] # "none" => owner'[i] = owner[i] /\ itemChar'[i] = itemChar[i]

Begins(i) ==
    /\ pc[i] \in {"new", "sem", "lock"} /\ LockHolders(owner[i], itemChar[i]) = {}
    /\ pc' = [pc EXCEPT ![i] = "call"]
    /\ through' = [through EXCEPT ![i] = events[Key(i)]]
    /\ version' = [version EXCEPT ![i] = Len(files[Key(i)]) + 1]
    /\ raced' = raced \cup RacedBy(i)
    /\ UNCHANGED <<owner, itemChar, events, files, rows>>

Writes(i) ==
    /\ pc[i] = "call" /\ pc' = [pc EXCEPT ![i] = "commit"]
    /\ WriteFile(Key(i), version[i], i)
    /\ UNCHANGED <<owner, itemChar, events, through, version, rows, raced>>

Stores(i) ==
    /\ pc[i] = "commit" /\ pc' = [pc EXCEPT ![i] = "done"]
    /\ rows' = [rows EXCEPT ![Key(i)] = Append(@, i)]
    /\ UNCHANGED <<owner, itemChar, events, through, version, files, raced>>

StoreMoves == StoreQuiet \/ \E i \in Ids : Begins(i) \/ Writes(i) \/ Stores(i)

LEMMA TaskStoreMoves ==
    ASSUME TypeOK, NEW i \in Ids, TaskStep(i)
    PROVE  StoreMoves
<1>1. pc \in [Ids -> {"none", "new", "sem", "lock", "call", "commit", "done"}]  BY DEF TypeOK
<1>0. \A k \in Keys : events[k] <= events[k]  BY SchedulerAssumption DEF TypeOK
<1>2. ASSUME UNCHANGED <<storeVars, owner, itemChar>>, NEW p \in {"sem", "lock", "done"},
             pc' = [pc EXCEPT ![i] = p], pc[i] # "done"
      PROVE  StoreMoves
  BY <1>0, <1>1, <1>2 DEF storeVars, StoreMoves, StoreQuiet
<1>3. ASSUME Finish(i), MarkFailed(i), UNCHANGED storeVars, pc[i] # "done"  PROVE StoreMoves
  <2>1. UNCHANGED <<owner, itemChar>>  BY <1>3, MarkFailedEffect DEF Finish
  <2> QED  BY <1>2, <1>3, <2>1 DEF Finish
<1>4. ASSUME Generate(i), pc[i] \in {"new", "sem", "lock"},
             LockHolders(owner[i], itemChar[i]) = {}
      PROVE  StoreMoves
  <2>1. CASE Key(i) \in Known
    <3>1. Begins(i)  BY <1>4, <2>1 DEF Generate, MarkStarted, MoveTo, Begins
    <3> QED  BY <3>1 DEF StoreMoves
  <2>2. CASE Key(i) \notin Known  BY <1>3, <1>4, <2>2 DEF Generate
  <2> QED  BY <2>1, <2>2
<1>5. ASSUME MoveTo(i, "sem") \/ MoveTo(i, "lock"), UNCHANGED <<queueVars, storeVars>>,
             pc[i] # "done"
      PROVE  StoreMoves
  BY <1>2, <1>5 DEF MoveTo, queueVars
<1>6. ASSUME Enter(i), pc[i] \in {"new", "sem"}  PROVE StoreMoves
  BY <1>4, <1>5, <1>6 DEF Enter
<1>7. CASE Start(i) \/ TakePermit(i)
  BY <1>5, <1>6, <1>7 DEF Start, TakePermit, FirstOf, PermitWaiters
<1>8. CASE TakeLock(i)  BY <1>4, <1>8 DEF TakeLock, FirstOf, LockWaiters
<1>9. CASE ProviderFails(i) \/ StoreFails(i)  BY <1>3, <1>9 DEF ProviderFails, StoreFails
<1>10. CASE ProviderReturns(i)
  <2>1. Writes(i)  BY <1>10 DEF ProviderReturns, MoveTo, Writes, queueVars
  <2> QED  BY <2>1 DEF StoreMoves
<1>11. CASE Store(i)
  <2>1. UNCHANGED itemChar  BY <1>11, MarkCompletedEffect DEF Store
  <2>2. Stores(i)  BY <1>11, <2>1 DEF Store, Finish, Stores
  <2> QED  BY <2>2 DEF StoreMoves
<1>12. CASE CancelStep(i)
  <2>1. CASE pc[i] = "new"
    BY <1>2, <1>12, <2>1 DEF CancelStep, MoveTo, queueVars
  <2>2. CASE pc[i] # "new"  BY <1>3, <1>12, <2>2 DEF CancelStep, Live
  <2> QED  BY <2>1, <2>2
<1> QED  BY <1>7, <1>8, <1>9, <1>10, <1>11, <1>12 DEF TaskStep

LEMMA NextStoreMoves ==
    ASSUME SafetyInv, [Next]_vars
    PROVE  StoreMoves
<1>0. TypeOK /\ \A k \in Keys : events[k] \in Nat /\ events[k] <= events[k]
  BY SchedulerAssumption DEF SafetyInv, TypeOK
<1>1. CASE \E i \in Ids : TaskStep(i)  BY <1>0, <1>1, TaskStoreMoves
<1>2. ASSUME UNCHANGED <<storeVars, owner, itemChar, pc>>  PROVE StoreMoves
  BY <1>0, <1>2 DEF storeVars, StoreMoves, StoreQuiet
<1>3. CASE \/ UNCHANGED vars \/ \E i \in Ids : UserCancel(i)
           \/ \E s \in Scheds : DrainWait(s) \/ DrainTimeout(s) \/ DrainEnd(s)
           \/ \E s \in Scheds : \E order \in Orderings(QueuedIds) : ReorderBegin(s, order)
  <2>1. UNCHANGED <<storeVars, owner, itemChar, pc>>
    BY <1>3 DEF vars, taskVars, queueVars, UserCancel, CancelItem, DrainWait, DrainTimeout,
                DrainEnd, ReorderBegin, Remove
  <2> QED  BY <1>2, <2>1
<1>4. ASSUME NEW k \in Known, IngestEvent(k)  PROVE StoreMoves
  <2>1. events' = [events EXCEPT ![k] = @ + 1] /\ k \in Keys
        /\ UNCHANGED <<through, version, files, rows, raced, owner, itemChar, pc>>
    BY <1>4, SchedulerAssumption DEF IngestEvent, queueVars, taskVars, Keys
  <2>2. \A j \in Keys : events[j] <= events'[j]
    <3>1. events \in [Keys -> 0..MaxEvents] /\ MaxEvents \in Nat
      BY <1>0, SchedulerAssumption DEF TypeOK
    <3> QED  BY <2>1, <3>1
  <2> QED  BY <2>1, <2>2 DEF StoreMoves, StoreQuiet
<1>5. ASSUME NEW s \in Scheds, NEW n \in Nat, SpawnShape(s, n), UNCHANGED storeVars
      PROVE  StoreMoves
  <2>1. nextId \in Nat /\ \A i \in Ids : i \in Nat
    BY <1>0, QueueAssumption DEF TypeOK, QueueTypeOK, Ids
  <2>2. \A i \in Ids : i \in nextId .. (nextId + n - 1) => pc[i] = "none" /\ pc'[i] = "new"
    BY <1>5, <2>1 DEF SpawnShape, SafetyInv, FreshIds
  <2>3. \A i \in Ids : i \notin nextId .. (nextId + n - 1) =>
          pc'[i] = pc[i] /\ owner'[i] = owner[i] /\ itemChar'[i] = itemChar[i]
    BY <1>5 DEF SpawnShape
  <2> QED  BY <1>0, <1>5, <2>2, <2>3 DEF storeVars, StoreMoves, StoreQuiet
<1>6. CASE \/ \E s \in Scheds, c \in Chars : Request(s, c)
           \/ \E i \in Ids, s \in Scheds : RegenerateRecent(i, s)
           \/ \E r \in reorders : ReorderEnd(r)
  <2>1. UNCHANGED storeVars  BY <1>6 DEF Request, RegenerateRecent, ReorderEnd
  <2>2. ASSUME NEW s \in Scheds, NEW c \in Chars, EnqueueAndSpawn(s, <<c>>),
               cancelled' = cancelled
        PROVE  \E t \in Scheds, n \in Nat : SpawnShape(t, n)
    <3>1. <<c>> \in Seq(Chars) /\ Len(<<c>>) \in Nat  OBVIOUS
    <3> QED  BY <1>0, <2>2, <3>1, SpawnHasShape
  <2>3. \A i \in Ids : itemChar[i] \in Chars  BY <1>0 DEF TypeOK, QueueTypeOK
  <2>4. ASSUME NEW r \in reorders, ReorderEnd(r)
        PROVE  \E t \in Scheds, n \in Nat : SpawnShape(t, n)
    <3> DEFINE cs == [n \in 1..Len(r.order) |-> itemChar[r.order[n]]]
    <3>1. r.sched \in Scheds /\ r.order \in Seq(Ids)  BY <1>0 DEF TypeOK, ReorderRecords
    <3>2. Len(r.order) \in Nat /\ \A n \in 1..Len(r.order) : r.order[n] \in Ids  BY <3>1
    <3>3. cs \in Seq(Chars)  BY <2>3, <3>2
    <3>4. EnqueueAndSpawn(r.sched, cs) /\ cancelled' = cancelled  BY <2>4 DEF ReorderEnd
    <3> HIDE DEF cs
    <3>5. Len(cs) \in Nat  BY <3>3
    <3> QED  BY <1>0, <3>1, <3>3, <3>4, <3>5, SpawnHasShape
  <2>5. \E t \in Scheds, n \in Nat : SpawnShape(t, n)
    BY <1>6, <2>2, <2>3, <2>4 DEF Request, RegenerateRecent
  <2> QED  BY <1>5, <2>1, <2>5
<1> QED  BY <1>1, <1>3, <1>4, <1>6 DEF Next, Handlers

\* Where no race was seen, characters generate one at a time.
LEMMA OnePerKey ==
    ASSUME OneGenerationPerCharacter, RacesSeen, NEW i \in Ids, NEW j \in Ids, i # j,
           Busy(i), Busy(j), Key(i) = Key(j)
    PROVE  Key(i) \in raced
<1>1. itemChar[i] = itemChar[j]  BY DEF Key
<1>2. owner[i] # owner[j]  BY <1>1 DEF OneGenerationPerCharacter, Busy
<1> QED  BY <1>2 DEF RacesSeen

ProseInv == RacesSeen /\ VersionsHeld /\ StoredIsOver /\ ProseNeverLost

LEMMA StoredTypes ==
    ASSUME TypeOK, NEW k \in Keys
    PROVE  /\ rows[k] \in Seq(Ids) /\ files[k] \in Seq(Ids)
           /\ Len(rows[k]) \in Nat /\ Len(files[k]) \in Nat
           /\ DOMAIN rows[k] = 1..Len(rows[k]) /\ DOMAIN files[k] = 1..Len(files[k])
           /\ \A m \in DOMAIN rows[k] : rows[k][m] \in Ids
           /\ \A i \in Ids : through[i] \in Nat
           /\ events[k] \in Nat
BY SchedulerAssumption DEF TypeOK

LEMMA QuietProse ==
    ASSUME TypeOK, TypeOK', ProseInv, StoreQuiet
    PROVE  ProseInv'
<1>1. /\ UNCHANGED <<through, version, files, rows, raced>>
      /\ \A k \in Keys : events[k] \in Nat /\ events'[k] \in Nat /\ events[k] <= events'[k]
      /\ \A i \in Ids : through[i] \in Nat
  BY SchedulerAssumption DEF StoreQuiet, TypeOK
<1>2. ASSUME NEW i \in Ids, Busy(i)'
      PROVE  /\ Busy(i) /\ pc'[i] = pc[i] /\ owner'[i] = owner[i]
             /\ Key(i)' = Key(i) /\ Key(i) \in Keys
  <2>1. pc'[i] = pc[i] /\ owner'[i] = owner[i] /\ itemChar'[i] = itemChar[i]
    BY <1>2 DEF StoreQuiet, Busy
  <2> QED  BY <1>2, <2>1, KeyType DEF Key, Busy
<1>3. RacesSeen'  BY <1>1, <1>2 DEF ProseInv, RacesSeen
<1>4. VersionsHeld'
  <2> SUFFICES ASSUME NEW i \in Ids, Busy(i)'
               PROVE  /\ through'[i] <= events'[Key(i)']
                      /\ Key(i)' \notin raced' => Owns(i)'
    BY DEF VersionsHeld
  <2>1. pc'[i] = pc[i] /\ Key(i)' = Key(i) /\ Key(i) \in Keys /\ Busy(i)  BY <1>2
  <2>2. through[i] <= events[Key(i)] /\ (Key(i) \notin raced => Owns(i))
    BY <2>1 DEF ProseInv, VersionsHeld
  <2>3. through[i] <= events'[Key(i)]  BY <1>1, <2>1, <2>2
  <2>4. Owns(i) => Owns(i)'  BY <1>1, <2>1 DEF Owns
  <2> QED  BY <1>1, <2>1, <2>2, <2>3, <2>4
<1>5. StoredIsOver'
  <2> SUFFICES ASSUME NEW k \in Keys, NEW m \in DOMAIN rows[k]
               PROVE  pc'[rows[k][m]] = "done" /\ through[rows[k][m]] <= events'[k]
    BY <1>1 DEF StoredIsOver
  <2>1. rows[k][m] \in Ids  BY StoredTypes
  <2>2. pc[rows[k][m]] = "done" /\ through[rows[k][m]] <= events[k]
    BY DEF ProseInv, StoredIsOver
  <2> QED  BY <1>1, <2>1, <2>2 DEF StoreQuiet
<1>6. ProseNeverLost'  BY <1>1 DEF ProseInv, ProseNeverLost
<1> QED  BY <1>3, <1>4, <1>5, <1>6 DEF ProseInv

\* A generation that meets one of another scheduler is seen to.
LEMMA BeginProse ==
    ASSUME TypeOK, ProseInv, NEW i \in Ids, Begins(i)
    PROVE  ProseInv'
<1>1. /\ UNCHANGED <<owner, itemChar, events, files, rows>>
      /\ pc'[i] = "call" /\ \A j \in Ids : j # i => pc'[j] = pc[j]
      /\ through'[i] = events[Key(i)] /\ \A j \in Ids : j # i => through'[j] = through[j]
      /\ version'[i] = Len(files[Key(i)]) + 1 /\ \A j \in Ids : j # i => version'[j] = version[j]
      /\ raced' = raced \cup RacedBy(i)
  BY DEF Begins, TypeOK
<1>2. \A j \in Ids : Key(j)' = Key(j) /\ Key(j) \in Keys  BY <1>1, KeyType DEF Key
<1>3. ASSUME NEW k \in Keys, NEW m \in DOMAIN rows[k]
      PROVE  /\ rows[k][m] \in Ids /\ rows[k][m] # i /\ pc[rows[k][m]] = "done"
             /\ through'[rows[k][m]] = through[rows[k][m]]
             /\ through[rows[k][m]] <= events[k]
  <2>1. rows[k][m] \in Ids  BY StoredTypes
  <2>2. pc[rows[k][m]] = "done" /\ through[rows[k][m]] <= events[k]
    BY DEF ProseInv, StoredIsOver
  <2>3. rows[k][m] # i  BY <2>2 DEF Begins
  <2> QED  BY <1>1, <2>1, <2>2, <2>3
<1>4. RacesSeen'
  <2>1. ASSUME NEW j \in Ids, j # i, Busy(j), owner[j] # owner[i], Key(j) = Key(i)
        PROVE  Key(i) \in raced'
    <3>1. Key(j) \in RacedBy(i)  BY <2>1 DEF RacedBy, Busy
    <3> QED  BY <1>1, <2>1, <3>1
  <2>2. \A j \in Ids : j # i /\ Busy(j)' => Busy(j)  BY <1>1 DEF Busy
  <2> SUFFICES ASSUME NEW a \in Ids, NEW b \in Ids, Busy(a)', Busy(b)',
                      owner[a] # owner[b], Key(a) = Key(b)
               PROVE  Key(a) \in raced'
    BY <1>1, <1>2 DEF RacesSeen
  <2>3. CASE a = i  BY <2>1, <2>2, <2>3
  <2>4. CASE b = i  BY <2>1, <2>2, <2>4
  <2>5. CASE a # i /\ b # i  BY <1>1, <2>2, <2>5 DEF ProseInv, RacesSeen
  <2> QED  BY <2>3, <2>4, <2>5
<1>5. VersionsHeld'
  <2> SUFFICES ASSUME NEW j \in Ids, Busy(j)'
               PROVE  /\ through'[j] <= events'[Key(j)']
                      /\ Key(j)' \notin raced' => Owns(j)'
    BY DEF VersionsHeld
  <2>1. CASE j = i
    <3>1. events[Key(i)] \in Nat  BY <1>2, StoredTypes
    <3>2. through'[i] <= events[Key(i)]  BY <1>1, <3>1
    <3>3. Owns(i)'  BY <1>1, <1>2, <1>3 DEF Owns
    <3> QED  BY <1>1, <1>2, <2>1, <3>2, <3>3
  <2>2. CASE j # i
    <3>1. pc[j] = pc'[j] /\ Busy(j)  BY <1>1, <2>2 DEF Busy
    <3>2. through[j] <= events[Key(j)] /\ (Key(j) \notin raced => Owns(j))
      BY <3>1 DEF ProseInv, VersionsHeld
    <3>3. Owns(j) => Owns(j)'  BY <1>1, <1>2, <1>3, <2>2, <3>1 DEF Owns
    <3> QED  BY <1>1, <1>2, <2>2, <3>2, <3>3
  <2> QED  BY <2>1, <2>2
<1>6. StoredIsOver'  BY <1>1, <1>3 DEF StoredIsOver
<1>7. ProseNeverLost'
  <2> SUFFICES ASSUME NEW k \in Keys
               PROVE  /\ \A m, n \in DOMAIN rows[k] : rows[k][m] = rows[k][n] => m = n
                      /\ k \notin raced' =>
                           /\ \A m \in DOMAIN rows[k] :
                                \E n \in DOMAIN files[k] : files[k][n] = rows[k][m]
                           /\ \A m, n \in DOMAIN rows[k] :
                                m < n => through'[rows[k][m]] <= through'[rows[k][n]]
    BY <1>1 DEF ProseNeverLost
  <2> QED  BY <1>1, <1>3 DEF ProseInv, ProseNeverLost
<1> QED  BY <1>4, <1>5, <1>6, <1>7 DEF ProseInv

\* The file is a new one: without a race nobody else of the key is at work.
LEMMA WriteProse ==
    ASSUME OneGenerationPerCharacter, TypeOK, ProseInv, NEW i \in Ids, Writes(i)
    PROVE  ProseInv'
<1>1. /\ UNCHANGED <<owner, itemChar, events, through, version, rows, raced>> /\ pc[i] = "call"
      /\ pc'[i] = "commit" /\ \A j \in Ids : j # i => pc'[j] = pc[j]
  BY DEF Writes, TypeOK
<1>2. \A j \in Ids : Key(j)' = Key(j) /\ Key(j) \in Keys  BY <1>1, KeyType DEF Key
<1>3. /\ Busy(i) /\ \A j \in Ids : Busy(j)' <=> Busy(j)
      /\ \A j \in Ids : j # i /\ Busy(j) /\ Key(j) = Key(i) => Key(i) \in raced
  <2>1. Busy(i) /\ \A j \in Ids : Busy(j)' <=> Busy(j)  BY <1>1 DEF Busy
  <2> QED  BY <2>1, OnePerKey DEF ProseInv
<1>4. PICK k \in Keys : k = Key(i)  BY <1>2
<1>5. files[k] \in Seq(Ids) /\ Len(files[k]) \in Nat /\ DOMAIN files[k] = 1..Len(files[k])
  BY StoredTypes
<1>6. \A j \in Keys : j # k => files'[j] = files[j]
  <2>1. PICK f : files' = [files EXCEPT ![k] = f]  BY <1>4 DEF Writes, WriteFile
  <2> QED  BY <2>1 DEF TypeOK
<1> DEFINE new == Append(files[k], i)
<1>7. /\ DOMAIN new = 1..(Len(files[k]) + 1) /\ new[Len(files[k]) + 1] = i
      /\ \A n \in 1..Len(files[k]) : new[n] = files[k][n]
  BY <1>5
<1> HIDE DEF new
<1>8. k \notin raced => files'[k] = new
  <2> SUFFICES ASSUME k \notin raced  PROVE files'[k] = new  OBVIOUS
  <2>1. version[i] = Len(files[k]) + 1
    BY <1>1, <1>3, <1>4 DEF ProseInv, VersionsHeld, Owns
  <2>2. files' = [files EXCEPT ![k] = new]  BY <1>4, <2>1 DEF Writes, WriteFile, new
  <2> QED  BY <2>2 DEF TypeOK
<1>9. ASSUME NEW j \in Keys, j \notin raced, NEW x, \E n \in DOMAIN files[j] : files[j][n] = x
      PROVE  \E n \in DOMAIN files'[j] : files'[j][n] = x
  <2>1. PICK n \in DOMAIN files[j] : files[j][n] = x  BY <1>9
  <2>2. CASE j = k
    <3>1. n \in 1..(Len(files[k]) + 1) /\ new[n] = x  BY <1>5, <1>7, <2>1, <2>2
    <3> QED  BY <1>7, <1>8, <1>9, <2>2, <3>1
  <2>3. CASE j # k  BY <1>6, <2>1, <2>3
  <2> QED  BY <2>2, <2>3
<1>10. RacesSeen'  BY <1>1, <1>2, <1>3 DEF ProseInv, RacesSeen
<1>11. VersionsHeld'
  <2> SUFFICES ASSUME NEW j \in Ids, Busy(j)
               PROVE  /\ through'[j] <= events'[Key(j)']
                      /\ Key(j) \notin raced => Owns(j)'
    BY <1>1, <1>2, <1>3 DEF VersionsHeld
  <2>1. through[j] <= events[Key(j)] /\ (Key(j) \notin raced => Owns(j))
    BY DEF ProseInv, VersionsHeld
  <2>2. ASSUME Key(j) \notin raced  PROVE Owns(j)'
    <3>1. \A m \in DOMAIN rows[Key(j)] : through[rows[Key(j)][m]] <= through[j]
      BY <2>1, <2>2 DEF Owns
    <3>2. CASE j = i
      <4>1. Len(files[k]) + 1 \in DOMAIN new  BY <1>5, <1>7
      <4>2. \E n \in DOMAIN files'[k] : files'[k][n] = i
        BY <1>4, <1>7, <1>8, <2>2, <3>2, <4>1
      <4> QED  BY <1>1, <1>2, <1>4, <3>1, <3>2, <4>2 DEF Owns
    <3>3. CASE j # i
      <4>1. pc'[j] = pc[j] /\ Key(j) # k  BY <1>1, <1>3, <1>4, <2>2, <3>3
      <4>2. files'[Key(j)] = files[Key(j)]  BY <1>2, <1>6, <4>1
      <4> QED  BY <1>1, <1>2, <2>1, <2>2, <4>1, <4>2 DEF Owns
    <3> QED  BY <3>2, <3>3
  <2> QED  BY <1>1, <1>2, <2>1, <2>2
<1>12. StoredIsOver'
  <2> SUFFICES ASSUME NEW j \in Keys, NEW m \in DOMAIN rows[j]
               PROVE  pc'[rows[j][m]] = "done" /\ through[rows[j][m]] <= events[j]
    BY <1>1 DEF StoredIsOver
  <2>1. rows[j][m] \in Ids  BY StoredTypes
  <2>2. pc[rows[j][m]] = "done" /\ through[rows[j][m]] <= events[j]
    BY DEF ProseInv, StoredIsOver
  <2> QED  BY <1>1, <2>1, <2>2
<1>13. ProseNeverLost'
  <2>1. ASSUME NEW j \in Keys, j \notin raced, NEW m \in DOMAIN rows[j]
        PROVE  \E n \in DOMAIN files'[j] : files'[j][n] = rows[j][m]
    BY <1>9, <2>1 DEF ProseInv, ProseNeverLost
  <2> QED  BY <1>1, <2>1 DEF ProseInv, ProseNeverLost
<1> QED  BY <1>10, <1>11, <1>12, <1>13 DEF ProseInv

LEMMA StoreProse ==
    ASSUME OneGenerationPerCharacter, TypeOK, ProseInv, NEW i \in Ids, Stores(i)
    PROVE  ProseInv'
<1>1. /\ UNCHANGED <<owner, itemChar, events, through, version, files, raced>>
      /\ pc[i] = "commit"
      /\ pc'[i] = "done" /\ \A j \in Ids : j # i => pc'[j] = pc[j]
  BY DEF Stores, TypeOK
<1>2. \A j \in Ids : Key(j)' = Key(j) /\ Key(j) \in Keys  BY <1>1, KeyType DEF Key
<1>3. /\ Busy(i) /\ \A j \in Ids : Busy(j)' => j # i /\ Busy(j) /\ pc'[j] = pc[j]
      /\ \A j \in Ids : j # i /\ Busy(j) /\ Key(j) = Key(i) => Key(i) \in raced
  <2>1. Busy(i) /\ \A j \in Ids : Busy(j)' => j # i /\ Busy(j) /\ pc'[j] = pc[j]
    BY <1>1 DEF Busy
  <2> QED  BY <2>1, OnePerKey DEF ProseInv
<1>4. PICK k \in Keys : k = Key(i)  BY <1>2
<1>5. rows[k] \in Seq(Ids) /\ Len(rows[k]) \in Nat /\ DOMAIN rows[k] = 1..Len(rows[k])
  BY StoredTypes
<1>6. /\ through[i] <= events[k]
      /\ k \notin raced =>
           /\ \E n \in DOMAIN files[k] : files[k][n] = i
           /\ \A m \in DOMAIN rows[k] : through[rows[k][m]] <= through[i]
  BY <1>1, <1>3, <1>4 DEF ProseInv, VersionsHeld, Owns
<1>7. ASSUME NEW j \in Keys, NEW m \in DOMAIN rows[j]
      PROVE  /\ rows[j][m] \in Ids /\ rows[j][m] # i
             /\ pc[rows[j][m]] = "done" /\ through[rows[j][m]] <= events[j]
  <2>1. rows[j][m] \in Ids  BY StoredTypes
  <2>2. pc[rows[j][m]] = "done" /\ through[rows[j][m]] <= events[j]
    BY DEF ProseInv, StoredIsOver
  <2> QED  BY <1>1, <2>1, <2>2
<1> DEFINE new == Append(rows[k], i)
           L == Len(rows[k]) + 1
<1>8. rows' = [rows EXCEPT ![k] = new]  BY <1>4 DEF Stores
<1>9. /\ DOMAIN new = 1..L /\ new[L] = i /\ L \in Nat
      /\ \A n \in 1..L : n # L => n \in DOMAIN rows[k] /\ new[n] = rows[k][n] /\ n < L
  BY <1>5
<1> HIDE DEF new, L
<1>10. rows'[k] = new /\ \A j \in Keys : j # k => rows'[j] = rows[j]
  BY <1>8 DEF TypeOK
<1>11. RacesSeen'  BY <1>1, <1>2, <1>3 DEF ProseInv, RacesSeen
<1>12. VersionsHeld'
  <2> SUFFICES ASSUME NEW j \in Ids, Busy(j)'
               PROVE  /\ through'[j] <= events'[Key(j)']
                      /\ Key(j) \notin raced => Owns(j)'
    BY <1>1, <1>2 DEF VersionsHeld
  <2>1. j # i /\ pc'[j] = pc[j] /\ Busy(j)  BY <1>3
  <2>2. through[j] <= events[Key(j)] /\ (Key(j) \notin raced => Owns(j))
    BY <2>1 DEF ProseInv, VersionsHeld
  <2>3. ASSUME Key(j) \notin raced  PROVE Owns(j)'
    <3>1. Key(j) # k  BY <1>3, <1>4, <2>1, <2>3
    <3> QED  BY <1>1, <1>2, <1>10, <2>1, <2>2, <2>3, <3>1 DEF Owns
  <2> QED  BY <1>1, <1>2, <2>2, <2>3
<1>13. StoredIsOver'
  <2> SUFFICES ASSUME NEW j \in Keys, NEW m \in DOMAIN rows'[j]
               PROVE  pc'[rows'[j][m]] = "done" /\ through[rows'[j][m]] <= events[j]
    BY <1>1 DEF StoredIsOver
  <2>1. CASE j # k  BY <1>1, <1>7, <1>10, <2>1
  <2>2. CASE j = k /\ m = L  BY <1>1, <1>6, <1>9, <1>10, <2>2
  <2>3. CASE j = k /\ m # L
    <3>1. m \in DOMAIN rows[k] /\ rows'[j][m] = rows[k][m]  BY <1>9, <1>10, <2>3
    <3> QED  BY <1>1, <1>7, <2>3, <3>1
  <2> QED  BY <2>1, <2>2, <2>3
<1>14. ProseNeverLost'
  <2> SUFFICES ASSUME NEW j \in Keys
               PROVE  /\ \A m, n \in DOMAIN rows'[j] : rows'[j][m] = rows'[j][n] => m = n
                      /\ j \notin raced =>
                           /\ \A m \in DOMAIN rows'[j] :
                                \E n \in DOMAIN files[j] : files[j][n] = rows'[j][m]
                           /\ \A m, n \in DOMAIN rows'[j] :
                                m < n => through[rows'[j][m]] <= through[rows'[j][n]]
    BY <1>1 DEF ProseNeverLost
  <2>0. /\ \A m, n \in DOMAIN rows[j] : rows[j][m] = rows[j][n] => m = n
        /\ j \notin raced =>
             /\ \A m \in DOMAIN rows[j] : \E n \in DOMAIN files[j] : files[j][n] = rows[j][m]
             /\ \A m, n \in DOMAIN rows[j] : m < n => through[rows[j][m]] <= through[rows[j][n]]
    BY DEF ProseInv, ProseNeverLost
  <2>1. CASE j # k  BY <1>10, <2>0, <2>1
  <2>2. CASE j = k
    <3>1. rows'[j] = new /\ DOMAIN new = 1..L  BY <1>9, <1>10, <2>2
    <3>2. ASSUME k \notin raced, NEW m \in 1..L
          PROVE  \E n \in DOMAIN files[j] : files[j][n] = new[m]
      BY <1>6, <1>9, <2>0, <2>2, <3>2
    <3>3. ASSUME NEW m \in 1..L, NEW n \in 1..L, new[m] = new[n]  PROVE m = n
      BY <1>7, <1>9, <2>0, <2>2, <3>3
    <3>4. ASSUME k \notin raced, NEW m \in 1..L, NEW n \in 1..L, m < n
          PROVE  through[new[m]] <= through[new[n]]
      <4>1. m # L  BY <1>9, <3>4
      <4>2. CASE n = L  BY <1>6, <1>9, <3>4, <4>1, <4>2
      <4>3. CASE n # L  BY <1>9, <2>0, <2>2, <3>4, <4>1, <4>3
      <4> QED  BY <4>2, <4>3
    <3> QED  BY <2>2, <3>1, <3>2, <3>3, <3>4
  <2> QED  BY <2>1, <2>2
<1> QED  BY <1>11, <1>12, <1>13, <1>14 DEF ProseInv

(***************************************************************************)
(* No generation is stored twice, and unless two schedulers of a campaign  *)
(* generated the character at once, no stored biography loses its prose    *)
(* and versions never go back in what they know: for any width, any number *)
(* of schedulers, characters, campaigns and items.                         *)
(***************************************************************************)
THEOREM ProseKept == Spec => []ProseNeverLost
<1>1. Init => ProseInv
  <2> SUFFICES ASSUME Init PROVE ProseInv  OBVIOUS
  <2>1. /\ \A i \in Ids : pc[i] = "none"
        /\ \A k \in Keys : rows[k] = <<>>
    BY DEF Init
  <2>2. \A k \in Keys : DOMAIN rows[k] = {}  BY <2>1
  <2> QED  BY <2>1, <2>2 DEF ProseInv, RacesSeen, VersionsHeld, StoredIsOver, ProseNeverLost, Busy
<1>2. SafetyInv /\ SafetyInv' /\ ProseInv /\ [Next]_vars => ProseInv'
  <2> SUFFICES ASSUME SafetyInv, SafetyInv', ProseInv, [Next]_vars PROVE ProseInv'  OBVIOUS
  <2>1. TypeOK /\ TypeOK' /\ OneGenerationPerCharacter /\ StoreMoves
    BY NextStoreMoves DEF SafetyInv
  <2> QED  BY <2>1, QuietProse, BeginProse, WriteProse, StoreProse DEF StoreMoves
<1>3. ProseInv => ProseNeverLost  BY DEF ProseInv
<1> QED  BY <1>1, <1>2, <1>3, SafetyHolds, PTL DEF Spec
=============================================================================
