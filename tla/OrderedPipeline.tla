-------------------------- MODULE OrderedPipeline --------------------------
(***************************************************************************)
(* map_ordered_bounded (src/chronicler/util/async_pipeline.py): an async   *)
(* generator that takes saves from a bounded asyncio queue, parses up to   *)
(* Width of them at once in worker tasks, and yields them in the order     *)
(* they were taken.  at says where the generator is suspended:             *)
(*   "fill"   about to top up the window                                   *)
(*   "get"    the window empty, awaiting source.get()                      *)
(*   "head"   awaiting the worker of the oldest item                       *)
(*   "yield"  the consumer has the last pair in hand                       *)
(*   "over"   returned, closed or cancelled                                *)
(***************************************************************************)
EXTENDS Integers, Sequences

CONSTANTS
    Width,      \* concurrency
    QueueCap,   \* maxsize of the queue
    MaxPuts     \* bound: saves the producer puts

ASSUME PipelineAssumption ==
    /\ Width \in Int
    /\ QueueCap \in Nat \ {0}
    /\ MaxPuts \in Nat

VARIABLES
    put,        \* how many saves the producer has put
    queue,      \* the source queue
    sentinel,   \* "no", "queued" (behind every save) or "taken"
    window,     \* pending: items whose worker is in flight, oldest first
    parsed,     \* items whose worker has finished
    at,
    out         \* what was yielded

pvars == <<put, queue, sentinel, window, parsed, at, out>>

\* concurrency is clamped to at least 1
Slots == IF Width < 1 THEN 1 ELSE Width

PInit ==
    /\ put = 0 /\ queue = <<>> /\ sentinel = "no"
    /\ window = <<>> /\ parsed = {}
    /\ at = "fill" /\ out = <<>>

-----------------------------------------------------------------------------
(* The producer.                                                           *)

QueueRoom == Len(queue) < QueueCap

Put ==
    /\ put < MaxPuts /\ sentinel = "no" /\ QueueRoom
    /\ put' = put + 1
    /\ queue' = Append(queue, put + 1)
    /\ UNCHANGED <<sentinel, window, parsed, at, out>>

\* the watcher ended: the drain sentinel
PutSentinel ==
    /\ sentinel = "no" /\ QueueRoom
    /\ sentinel' = "queued"
    /\ UNCHANGED <<put, queue, window, parsed, at, out>>

-----------------------------------------------------------------------------
(* The generator.                                                          *)

\* start a worker on the oldest item of the queue
Take(next) ==
    /\ window' = Append(window, Head(queue))
    /\ queue' = Tail(queue)
    /\ at' = next
    /\ UNCHANGED <<put, sentinel, parsed, out>>

\* Faulty variant: blocks to refill even with work in flight (jea4).
FillBlocking ==
    /\ at = "fill"
    /\ \/ sentinel # "taken" /\ Len(window) < Slots /\ queue # <<>> /\ Take("fill")
       \/ /\ sentinel # "taken" /\ Len(window) < Slots /\ queue = <<>> /\ sentinel = "queued"
          /\ sentinel' = "taken"
          /\ UNCHANGED <<put, queue, window, parsed, at, out>>
       \/ /\ sentinel # "taken" /\ Len(window) < Slots /\ queue = <<>> /\ sentinel = "no"
          /\ at' = "get"
          /\ UNCHANGED <<put, queue, sentinel, window, parsed, out>>
       \/ /\ sentinel = "taken" \/ Len(window) = Slots
          /\ at' = IF window = <<>> THEN "over" ELSE "head"
          /\ UNCHANGED <<put, queue, sentinel, window, parsed, out>>

(***************************************************************************)
(* One round of the inner loop: take an item without blocking, or leave    *)
(* the loop with the window full, the queue empty or the sentinel taken;   *)
(* then return, block on the queue or await the head.                      *)
(***************************************************************************)
Fill ==
    /\ at = "fill"
    /\ \/ sentinel # "taken" /\ Len(window) < Slots /\ queue # <<>> /\ Take("fill")
       \/ /\ sentinel = "taken" \/ Len(window) = Slots \/ queue = <<>>
          /\ sentinel' = IF Len(window) < Slots /\ queue = <<>> /\ sentinel = "queued"
                         THEN "taken" ELSE sentinel
          /\ at' = IF window # <<>> THEN "head"
                   ELSE IF sentinel' = "taken" THEN "over" ELSE "get"
          /\ UNCHANGED <<put, queue, window, parsed, out>>

\* source.get() returns
Get ==
    /\ at = "get"
    /\ \/ queue # <<>> /\ Take("fill")
       \/ /\ queue = <<>> /\ sentinel = "queued"
          /\ sentinel' = "taken" /\ at' = "fill"
          /\ UNCHANGED <<put, queue, window, parsed, out>>

\* a worker ends, with a snapshot or with None
WorkerEnds(n) ==
    /\ n \in DOMAIN window /\ window[n] \notin parsed /\ at # "over"
    /\ parsed' = parsed \cup {window[n]}
    /\ UNCHANGED <<put, queue, sentinel, window, at, out>>

\* Faulty variant: yields whichever worker ended first.
YieldAny ==
    /\ at = "head"
    /\ \E n \in DOMAIN window :
         /\ window[n] \in parsed
         /\ out' = Append(out, window[n])
         /\ window' = [m \in 1..(Len(window) - 1) |-> IF m < n THEN window[m] ELSE window[m + 1]]
    /\ at' = "yield"
    /\ UNCHANGED <<put, queue, sentinel, parsed>>

Yield ==
    /\ at = "head" /\ Head(window) \in parsed
    /\ out' = Append(out, Head(window))
    /\ window' = Tail(window)
    /\ at' = "yield"
    /\ UNCHANGED <<put, queue, sentinel, parsed>>

\* the consumer comes back for more
Consumed ==
    /\ at = "yield" /\ at' = "fill"
    /\ UNCHANGED <<put, queue, sentinel, window, parsed, out>>

\* cancelled at an await, or closed by the consumer: every worker is cancelled
Close ==
    /\ at \in {"get", "head", "yield"}
    /\ at' = "over" /\ window' = <<>>
    /\ UNCHANGED <<put, queue, sentinel, parsed, out>>

-----------------------------------------------------------------------------
PNext ==
    \/ Put \/ PutSentinel
    \/ Fill \/ Get \/ Yield \/ Consumed \/ Close
    \/ \E n \in 1..Slots : WorkerEnds(n)

PSpec == PInit /\ [][PNext]_pvars

(***************************************************************************)
(* The loop resumes the generator, every parse ends (rakaly has a timeout) *)
(* and the consumer comes back.  The producer need not put anything: it    *)
(* parks in watch_saves between autosaves.                                 *)
(***************************************************************************)
PFairness ==
    /\ WF_pvars(Fill \/ Get \/ Yield \/ Consumed)
    /\ \A n \in 1..Slots : WF_pvars(WorkerEnds(n))

FairPSpec == PSpec /\ PFairness

-----------------------------------------------------------------------------
(* Properties.                                                             *)

\* Types: the window holds started parses and the queue what was put.
PTypeOK ==
    /\ put \in Nat
    /\ queue \in Seq(Nat) /\ window \in Seq(Nat) /\ out \in Seq(Nat)
    /\ sentinel \in {"no", "queued", "taken"}
    /\ parsed \in SUBSET Nat
    /\ at \in {"fill", "get", "head", "yield", "over"}

(***************************************************************************)
(* At most Width parses run at once (rakaly processes of hundreds of MB    *)
(* each), and the generator never suspends on an empty queue while a       *)
(* parsed head is waiting to be yielded (jea4, 53-61).                     *)
(***************************************************************************)
WindowBounded ==
    /\ Len(window) <= Slots
    /\ at = "get" => window = <<>>

(***************************************************************************)
(* Nothing is skipped, repeated or overtaken: out, window and queue are,   *)
(* one after the other, all that was put, in order, until the generator is *)
(* closed.                                                                 *)
(***************************************************************************)
Conveyed ==
    /\ \A n \in DOMAIN out : out[n] = n
    /\ \A n \in DOMAIN window : window[n] = Len(out) + n
    /\ at # "over" => /\ \A n \in DOMAIN queue : queue[n] = Len(out) + Len(window) + n
                      /\ put = Len(out) + Len(window) + Len(queue)

(***************************************************************************)
(* The pipeline keeps the promise of OrderedDelivery, with liveness: what  *)
(* was put comes out although nothing more is put.                         *)
(***************************************************************************)
Promise == INSTANCE OrderedDelivery WITH sent <- put, got <- out, ended <- at = "over"

DeliversInOrder == Promise!FairDSpec

\* the inductive invariant
PipelineInv ==
    /\ PTypeOK /\ WindowBounded /\ Conveyed
    /\ Len(out) <= put
    /\ at = "head" => window # <<>>
=============================================================================
