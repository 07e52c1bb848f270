------------------------ MODULE NarrativeQueueState ------------------------
(***************************************************************************)
(* The process-wide blackboard of narrative work                           *)
(* (src/chronicler/narrative/queue_state.py).  Every scheduler writes to   *)
(* it, the HTTP handlers and the SSE fan-out read from it.  Each method    *)
(* runs under one threading.Lock, so each is one step here.                *)
(*                                                                         *)
(* An operation is an action on the queue's variables alone; the           *)
(* schedulers of module NarrativeScheduler conjoin them with their own     *)
(* state.                                                                  *)
(*                                                                         *)
(* Timestamps, names and error texts are left out: no decision reads them. *)
(***************************************************************************)
EXTENDS Integers, Sequences, FiniteSets

CONSTANTS
    Chars,      \* character ids (campaign-local integers in the code)
    Camps,      \* campaign uuids
    MaxItems,   \* bound: how many items a behaviour enqueues
    RecentCap   \* recent_capacity, 20 in production

ASSUME QueueAssumption ==
    /\ Chars # {}
    /\ Camps # {}
    /\ MaxItems \in Nat
    /\ RecentCap \in Nat \ {0}

VARIABLES
    nextId,     \* _next_id
    status,     \* item_id -> where its QueueItem is in its life
    itemChar,   \* item_id -> QueueItem.character_id
    itemCamp,   \* item_id -> QueueItem.campaign_uuid
    recent,     \* _recent, oldest first
    completedCount,
    failedCount,
    perChar     \* _per_char: character_id -> its two lifetime counters

queueVars == <<nextId, status, itemChar, itemCamp, recent,
               completedCount, failedCount, perChar>>

Ids == 1..MaxItems

(***************************************************************************)
(* "absent" is an id not handed out yet and "removed" one dropped by       *)
(* remove(); _items holds exactly the "queued" and "generating" ones.      *)
(***************************************************************************)
Statuses == {"absent", "queued", "generating", "completed", "failed", "removed"}

InItems(i) == status[i] \in {"queued", "generating"}

QueuedIds == {i \in Ids : status[i] = "queued"}

SettledIds == {i \in Ids : status[i] \in {"completed", "failed"}}

NoStats == [completed |-> 0, failed |-> 0]

QueueInit ==
    /\ nextId = 1
    /\ status = [i \in Ids |-> "absent"]
    /\ itemChar = [i \in Ids |-> CHOOSE c \in Chars : TRUE]
    /\ itemCamp = [i \in Ids |-> CHOOSE c \in Camps : TRUE]
    /\ recent = <<>>
    /\ completedCount = 0
    /\ failedCount = 0
    /\ perChar = [c \in Chars |-> NoStats]

-----------------------------------------------------------------------------
(* The operations.                                                         *)

(***************************************************************************)
(* enqueue, once for each character of cs in order, all for one campaign.  *)
(***************************************************************************)
Enqueue(cs, camp) ==
    LET fresh == nextId .. (nextId + Len(cs) - 1)
    IN  /\ nextId + Len(cs) - 1 <= MaxItems
        /\ nextId' = nextId + Len(cs)
        /\ status' = [i \in Ids |-> IF i \in fresh THEN "queued" ELSE status[i]]
        /\ itemChar' = [i \in Ids |->
                          IF i \in fresh THEN cs[i - nextId + 1] ELSE itemChar[i]]
        /\ itemCamp' = [i \in Ids |-> IF i \in fresh THEN camp ELSE itemCamp[i]]
        /\ UNCHANGED <<recent, completedCount, failedCount, perChar>>

MarkStarted(i) ==
    /\ status' = IF status[i] = "queued"
                 THEN [status EXCEPT ![i] = "generating"] ELSE status
    /\ UNCHANGED <<nextId, itemChar, itemCamp, recent,
                   completedCount, failedCount, perChar>>

\* deque(maxlen=recent_capacity).append
Push(ring, i) ==
    IF Len(ring) = RecentCap THEN Append(Tail(ring), i) ELSE Append(ring, i)

MarkCompleted(i) ==
    IF InItems(i)
    THEN /\ status' = [status EXCEPT ![i] = "completed"]
         /\ recent' = Push(recent, i)
         /\ completedCount' = completedCount + 1
         /\ perChar' = [perChar EXCEPT ![itemChar[i]] =
                        [completed |-> @.completed + 1, failed |-> @.failed]]
         /\ UNCHANGED <<nextId, itemChar, itemCamp, failedCount>>
    ELSE UNCHANGED queueVars

MarkFailed(i) ==
    IF InItems(i)
    THEN /\ status' = [status EXCEPT ![i] = "failed"]
         /\ recent' = Push(recent, i)
         /\ failedCount' = failedCount + 1
         /\ perChar' = [perChar EXCEPT ![itemChar[i]] =
                        [completed |-> @.completed, failed |-> @.failed + 1]]
         /\ UNCHANGED <<nextId, itemChar, itemCamp, completedCount>>
    ELSE UNCHANGED queueVars

\* remove, for each item of S: no counter, no ring entry, no frame
Remove(S) ==
    /\ status' = [i \in Ids |-> IF i \in S /\ InItems(i) THEN "removed" ELSE status[i]]
    /\ UNCHANGED <<nextId, itemChar, itemCamp, recent,
                   completedCount, failedCount, perChar>>

\* find_recent: the item of that id if the ring still holds it
FindRecent(i) == \E n \in DOMAIN recent : recent[n] = i

-----------------------------------------------------------------------------
QueueTypeOK ==
    /\ nextId \in 1..(MaxItems + 1)
    /\ status \in [Ids -> Statuses]
    /\ itemChar \in [Ids -> Chars]
    /\ itemCamp \in [Ids -> Camps]
    /\ recent \in Seq(Ids)
    /\ completedCount \in Nat
    /\ failedCount \in Nat
    /\ perChar \in [Chars -> [completed : Nat, failed : Nat]]

(***************************************************************************)
(* The totals the queue page shows (queue_state.py:313-320) and the        *)
(* per-character table (267-295) count the same transitions: however       *)
(* clients interleave, duplicate or misorder their calls, each item that   *)
(* ended is counted once, in the total and under its own character.        *)
(***************************************************************************)
CountersAgree ==
    /\ completedCount = Cardinality({i \in Ids : status[i] = "completed"})
    /\ failedCount = Cardinality({i \in Ids : status[i] = "failed"})
    /\ \A c \in Chars :
         perChar[c] = [completed |-> Cardinality({i \in Ids : status[i] = "completed"
                                                              /\ itemChar[i] = c}),
                       failed    |-> Cardinality({i \in Ids : status[i] = "failed"
                                                              /\ itemChar[i] = c})]

(***************************************************************************)
(* The ring behind the Regenerate button (find_recent, 322-333) holds      *)
(* settled items only, never one twice, and nothing settled is missing     *)
(* from it until the ring is full.                                         *)
(***************************************************************************)
RingHoldsRecentSettled ==
    /\ Len(recent) <= RecentCap
    /\ \A m, n \in DOMAIN recent : recent[m] = recent[n] => m = n
    /\ \A n \in DOMAIN recent : recent[n] \in SettledIds
    /\ Len(recent) < RecentCap => \A i \in SettledIds : FindRecent(i)

=============================================================================
