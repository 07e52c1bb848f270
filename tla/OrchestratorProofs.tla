------------------------- MODULE OrchestratorProofs -------------------------
(***************************************************************************)
(* Theorems about what follows the game in one process: the save-tails of  *)
(* Orchestrator, for any campaigns, any number of tasks, changes of        *)
(* campaign and adoptions, and every choice of upsets; and the log tailer  *)
(* of LogTailer, for any events, any amount of noise, any line limit and   *)
(* any number of faults.                                                   *)
(***************************************************************************)
EXTENDS Orchestrator, LogTailer, WellFoundedInduction, TLAPS

-----------------------------------------------------------------------------
(* The save-tails: their inductive invariant.                              *)

TypeOK ==
    /\ st \in [Tails -> {"none", "new", "run", "closing", "done"}]
    /\ camp \in [Tails -> Camps \cup {NoCamp}]
    /\ posts \in [Tails -> Camps \cup {NoCamp}]
    /\ ingestTasks \in [Camps -> Tails \cup {NoTail}]
    /\ schedulers \in [Camps -> Tails \cup {NoTail}]
    /\ inbox \in [Camps -> SUBSET Camps]
    /\ doomed \in SUBSET Tails /\ superseded \in SUBSET Tails /\ gathered \in SUBSET Tails
    /\ playing \in Camps /\ plays \in Nat /\ adopts \in Nat
    /\ stop \in BOOLEAN /\ failed \in BOOLEAN
    /\ server \in {"up", "teardown", "exited"}

\* A task that exists, or whose thread has still to post, knows its campaign.
CampKnown ==
    \A t \in Tails : st[t] # "none" \/ posts[t] # NoCamp => camp[t] \in Camps

\* What is registered for a campaign, as its tail or as the owner of its
\* scheduler, is a task of that campaign that has not gone.
Registered ==
    \A c \in Camps :
        /\ ingestTasks[c] # NoTail =>
              st[ingestTasks[c]] # "none" /\ camp[ingestTasks[c]] = c
        /\ schedulers[c] # NoTail =>
              st[schedulers[c]] # "none" /\ camp[schedulers[c]] = c

\* A tail is only told about campaigns that are not its own.
Foreign ==
    /\ \A c \in Camps : c \notin inbox[c]
    /\ \A t \in Tails : posts[t] # NoCamp => posts[t] # camp[t]

\* A cancel is pending only for a task that has not ended.
DoomedAlive == \A t \in doomed : st[t] \in {"new", "run", "closing"}

\* A superseded task is cancelled, or already on its way out.
SupersededEnds == \A t \in superseded : t \in doomed \/ st[t] \in {"closing", "done"}

\* As long as nothing was stopped and no tail failed, a registered task is
\* at work: a task leaves ingest_tasks no later than it is cancelled.
RegisteredAtWork ==
    ~stop /\ ~failed => \A c \in Camps : ingestTasks[c] # NoTail => AtWork(ingestTasks[c])

IInv ==
    /\ TypeOK /\ CampKnown /\ Registered /\ Foreign
    /\ DoomedAlive /\ SupersededEnds /\ RegisteredAtWork
    /\ NeverUntailed /\ NoSupersededScheduler

-----------------------------------------------------------------------------
(* Facts about the operators.                                              *)

\* Every set of tasks that is not empty has a first one.
LEMMA FirstTail ==
    ASSUME NEW S \in SUBSET Tails, S # {}
    PROVE  Min(S) \in S
<1>1. S \subseteq Nat  BY OrchestratorAssumption DEF Tails
<1>2. PICK x \in S : \A y \in S : ~(<<y, x>> \in OpToRel(<, Nat))
  BY <1>1, NatLessThanWellFounded, WFMin
<1>3. \A y, z \in Nat : y < z => <<y, z>> \in OpToRel(<, Nat)  BY SMT DEF OpToRel
<1>4. \A y \in S : ~(y < x)  BY <1>1, <1>2, <1>3
<1>5. \A y \in S : x =< y  BY <1>1, <1>4
<1> QED  BY <1>5 DEF Min

\* A task is spawned in a slot that is free, and registered for its campaign.
LEMMA SpawnShape ==
    ASSUME NEW c, NEW tasks, SpawnIn(c, tasks)
    PROVE  \E n \in Tails :
              /\ st[n] = "none" /\ posts'[n] = NoCamp
              /\ st' = [st EXCEPT ![n] = "new"]
              /\ camp' = [camp EXCEPT ![n] = c]
              /\ ingestTasks' = [tasks EXCEPT ![c] = n]
<1>1. Min(FreeSlots) \in FreeSlots  BY FirstTail DEF SpawnIn, FreeSlots
<1> QED  BY <1>1 DEF SpawnIn, FreeSlots

\* A slot is a number other than the mark for "no task".
LEMMA TailsAreTasks == NoTail \notin Tails
BY OrchestratorAssumption DEF Tails, NoTail

-----------------------------------------------------------------------------
(* The invariant holds initially and every action preserves it.            *)

LEMMA InitIInv == Init => IInv
<1> SUFFICES ASSUME Init  PROVE IInv  OBVIOUS
<1>1. TypeOK  BY DEF Init, TypeOK
<1>2. CampKnown /\ Registered /\ Foreign /\ RegisteredAtWork
  BY DEF Init, CampKnown, Registered, Foreign, RegisteredAtWork
<1>3. DoomedAlive /\ SupersededEnds /\ NeverUntailed /\ NoSupersededScheduler
  BY DEF Init, DoomedAlive, SupersededEnds, NeverUntailed, NoSupersededScheduler
<1> QED  BY <1>1, <1>2, <1>3 DEF IInv

LEMMA AdoptIInv ==
    ASSUME IInv, NEW c \in Camps, Adopt(c)
    PROVE  IInv'
<1> USE OrchestratorAssumption, TailsAreTasks DEF IInv, TypeOK
<1>1. PICK n \in Tails :
          /\ st[n] = "none" /\ posts'[n] = NoCamp
          /\ st' = [st EXCEPT ![n] = "new"]
          /\ camp' = [camp EXCEPT ![n] = c]
          /\ ingestTasks' = [ingestTasks EXCEPT ![c] = n]
  BY SpawnShape DEF Adopt
<1>2. UNCHANGED <<doomed, posts, schedulers, superseded, inbox, playing, plays, stop, server,
                  gathered, failed>> /\ adopts' = adopts + 1
  BY DEF Adopt, procVars
<1>3. n \notin doomed /\ n \notin superseded  BY <1>1 DEF DoomedAlive, SupersededEnds
<1>4. \A d \in Camps : ingestTasks[d] # n /\ schedulers[d] # n  BY <1>1 DEF Registered
<1>5. TypeOK'  BY <1>1, <1>2
<1>6. CampKnown' /\ Foreign'  BY <1>1, <1>2 DEF CampKnown, Foreign
<1>7. Registered'  BY <1>1, <1>2, <1>4 DEF Registered
<1>8. DoomedAlive' /\ SupersededEnds'  BY <1>1, <1>2, <1>3 DEF DoomedAlive, SupersededEnds
<1>9. RegisteredAtWork' /\ NeverUntailed'
  BY <1>1, <1>2, <1>3, <1>4 DEF RegisteredAtWork, NeverUntailed, AtWork
<1>10. NoSupersededScheduler'  BY <1>2 DEF NoSupersededScheduler
<1> QED  BY <1>5, <1>6, <1>7, <1>8, <1>9, <1>10

LEMMA StartIInv ==
    ASSUME IInv, NEW t \in Tails, Start(t)
    PROVE  IInv'
<1> USE OrchestratorAssumption, TailsAreTasks DEF IInv, TypeOK
<1>1. camp[t] \in Camps /\ t \notin superseded  BY DEF Start, CampKnown, SupersededEnds
<1>2. TypeOK'  BY <1>1 DEF Start, userVars, procVars
<1>3. CampKnown' /\ Foreign'  BY DEF Start, userVars, procVars, CampKnown, Foreign
<1>4. Registered'  BY <1>1 DEF Start, Registered
<1>5. DoomedAlive' /\ SupersededEnds'  BY <1>1 DEF Start, DoomedAlive, SupersededEnds
<1>6. RegisteredAtWork' /\ NeverUntailed'
  BY DEF Start, userVars, procVars, RegisteredAtWork, NeverUntailed, AtWork
<1>7. NoSupersededScheduler'  BY <1>1 DEF Start, NoSupersededScheduler
<1> QED  BY <1>2, <1>3, <1>4, <1>5, <1>6, <1>7

LEMMA ReadForeignIInv ==
    ASSUME IInv, NEW t \in Tails, NEW o \in Camps, ReadForeign(t, o)
    PROVE  IInv'
<1> USE OrchestratorAssumption, TailsAreTasks DEF IInv, TypeOK
<1>1. camp[t] \in Camps /\ o # camp[t]  BY DEF ReadForeign, CampKnown, Foreign
<1>2. TypeOK'  BY <1>1 DEF ReadForeign, userVars, procVars
<1>3. CampKnown' /\ Foreign'  BY <1>1 DEF ReadForeign, CampKnown, Foreign
<1>4. Registered' /\ DoomedAlive' /\ SupersededEnds' /\ NoSupersededScheduler'
  BY DEF ReadForeign, Registered, DoomedAlive, SupersededEnds, NoSupersededScheduler
<1>5. RegisteredAtWork' /\ NeverUntailed'
  BY DEF ReadForeign, userVars, procVars, RegisteredAtWork, NeverUntailed, AtWork
<1> QED  BY <1>2, <1>3, <1>4, <1>5

\* The heart of the matter.  Once the post p has run, the tail of campaign b is
\* at work: either it was, and it is not the one that is cancelled, which is
\* campaign a's, or it has just been spawned in a slot without a cancel.
LEMMA DoSwitchIInv ==
    ASSUME IInv, NEW p \in Tails, DoSwitch(p)
    PROVE  IInv'
<1> USE OrchestratorAssumption, TailsAreTasks DEF IInv, TypeOK
<1> DEFINE a == camp[p]
           b == posts[p]
           s == Supersede(a, ingestTasks)
           old == ingestTasks[a]
<1>1. a \in Camps /\ b \in Camps /\ a # b  BY DEF DoSwitch, CampKnown, Foreign
<1>2. /\ posts' = [posts EXCEPT ![p] = NoCamp]
      /\ superseded' = superseded \cup s.dead /\ doomed' = doomed \cup s.dead
      /\ schedulers' = IF s.pop THEN [schedulers EXCEPT ![a] = NoTail] ELSE schedulers
      /\ UNCHANGED <<inbox, playing, plays, adopts, stop, server, gathered, failed>>
  BY DEF DoSwitch, userVars, procVars
<1>3. \/ /\ old # NoTail /\ ~Done(old)
         /\ s = [tasks |-> [ingestTasks EXCEPT ![a] = NoTail], pop |-> TRUE, dead |-> {old}]
      \/ s = [tasks |-> ingestTasks, pop |-> FALSE, dead |-> {}]
  BY DEF Supersede
<1> HIDE DEF s
<1>4. /\ s.tasks \in [Camps -> Tails \cup {NoTail}]
      /\ \A c \in Camps : s.tasks[c] # NoTail => s.tasks[c] = ingestTasks[c] /\ s.tasks[c] \notin s.dead
      /\ \A c \in Camps \ {a} : s.tasks[c] = ingestTasks[c]
      /\ \A t \in s.dead : t \in Tails /\ st[t] \in {"new", "run", "closing"} /\ camp[t] = a
      /\ s.dead # {} => s.pop
  BY <1>1, <1>3 DEF Registered, Done
<1>5. CASE Tailing(b)
  <2>1. ingestTasks' = s.tasks /\ st' = st /\ camp' = camp  BY <1>5 DEF DoSwitch, s
  <2>2. TypeOK'  BY <1>1, <1>2, <1>4, <2>1
  <2>3. CampKnown' /\ Foreign'  BY <1>2, <2>1 DEF CampKnown, Foreign
  <2>4. Registered'  BY <1>1, <1>2, <1>4, <2>1 DEF Registered
  <2>5. DoomedAlive' /\ SupersededEnds'  BY <1>2, <1>4, <2>1 DEF DoomedAlive, SupersededEnds
  <2>6. RegisteredAtWork'  BY <1>2, <1>4, <2>1 DEF RegisteredAtWork, AtWork
  <2>7. NeverUntailed'
    <3>1. PICK t \in Tails : t = ingestTasks[b]  BY <1>1, <1>5 DEF Tailing
    <3>2. camp[t] = b /\ (~stop /\ ~failed => AtWork(t))
      BY <1>1, <3>1 DEF RegisteredAtWork, Registered
    <3>3. t \notin s.dead  BY <1>1, <1>4, <3>2
    <3> QED  BY <1>2, <2>1, <3>2, <3>3 DEF NeverUntailed, AtWork
  <2>8. NoSupersededScheduler'
    BY <1>1, <1>2, <1>4, <2>1 DEF NoSupersededScheduler, Registered
  <2> QED  BY <2>2, <2>3, <2>4, <2>5, <2>6, <2>7, <2>8
<1>6. CASE ~Tailing(b)
  <2>1. PICK n \in Tails :
            /\ st[n] = "none" /\ posts'[n] = NoCamp
            /\ st' = [st EXCEPT ![n] = "new"]
            /\ camp' = [camp EXCEPT ![n] = b]
            /\ ingestTasks' = [s.tasks EXCEPT ![b] = n]
    BY <1>6, SpawnShape DEF DoSwitch, s
  <2>2. n \notin doomed /\ n \notin superseded /\ n \notin s.dead
    BY <1>4, <2>1 DEF DoomedAlive, SupersededEnds
  <2>3. \A d \in Camps : ingestTasks[d] # n /\ schedulers[d] # n  BY <2>1 DEF Registered
  <2>4. TypeOK'  BY <1>1, <1>2, <1>4, <2>1
  <2>5. CampKnown' /\ Foreign'  BY <1>1, <1>2, <2>1 DEF CampKnown, Foreign
  <2>6. Registered'  BY <1>1, <1>2, <1>4, <2>1, <2>3 DEF Registered
  <2>7. DoomedAlive' /\ SupersededEnds'
    BY <1>2, <1>4, <2>1, <2>2 DEF DoomedAlive, SupersededEnds
  <2>8. RegisteredAtWork' /\ NeverUntailed'
    BY <1>1, <1>2, <1>4, <2>1, <2>2, <2>3 DEF RegisteredAtWork, NeverUntailed, AtWork
  <2>9. NoSupersededScheduler'
    BY <1>1, <1>2, <1>4, <2>1 DEF NoSupersededScheduler, Registered
  <2> QED  BY <2>4, <2>5, <2>6, <2>7, <2>8, <2>9
<1> QED  BY <1>5, <1>6

\* A task on its way out: as long as nothing was stopped and no tail failed it
\* is not registered any more, so no registered task and no tail at work ends.
LEMMA EndingIInv ==
    ASSUME IInv, NEW t \in Tails, CancelLands(t) \/ StopSeen(t) \/ TailFails(t) \/ DrainEnds(t)
    PROVE  IInv'
<1> USE OrchestratorAssumption, TailsAreTasks DEF IInv, TypeOK
<1>1. /\ st[t] # "none"
      /\ \/ t \in doomed /\ stop' = stop /\ failed' = failed
         \/ st[t] = "closing" /\ stop' = stop /\ failed' = failed
         \/ stop' \/ failed'
      /\ \/ st' = [st EXCEPT ![t] = "closing"] /\ st[t] = "run"
         \/ st' = [st EXCEPT ![t] = "done"]
      /\ doomed' = doomed \ {t} \/ (doomed' = doomed /\ st' = [st EXCEPT ![t] = "closing"])
      /\ UNCHANGED <<camp, ingestTasks, schedulers, posts, superseded, inbox, playing, plays,
                     adopts, server, gathered>>
  BY DEF CancelLands, StopSeen, TailFails, DrainEnds, DoomedAlive, Undisturbed, userVars, procVars
<1>2. TypeOK'
  BY <1>1 DEF CancelLands, StopSeen, TailFails, DrainEnds, procVars
<1>3. CampKnown' /\ Foreign' /\ Registered' /\ NoSupersededScheduler'
  BY <1>1 DEF CampKnown, Foreign, Registered, NoSupersededScheduler
<1>4. DoomedAlive' /\ SupersededEnds'  BY <1>1 DEF DoomedAlive, SupersededEnds
<1>5. RegisteredAtWork' /\ NeverUntailed'
  BY <1>1 DEF RegisteredAtWork, NeverUntailed, AtWork
<1> QED  BY <1>2, <1>3, <1>4, <1>5

LEMMA OnDoneIInv ==
    ASSUME IInv, NEW t \in Tails, OnDone(t)
    PROVE  IInv'
<1> USE OrchestratorAssumption, TailsAreTasks DEF IInv, TypeOK
<1>1. camp[t] \in Camps /\ t \notin doomed  BY DEF OnDone, CampKnown, DoomedAlive
<1>2. TypeOK'  BY <1>1 DEF OnDone, userVars
<1>3. CampKnown' /\ Foreign'  BY <1>1 DEF OnDone, CampKnown, Foreign
<1>4. Registered'  BY <1>1 DEF OnDone, Registered
<1>5. DoomedAlive' /\ SupersededEnds'  BY <1>1 DEF OnDone, DoomedAlive, SupersededEnds
<1>6. RegisteredAtWork' /\ NeverUntailed'
  BY <1>1 DEF OnDone, userVars, RegisteredAtWork, NeverUntailed, AtWork
<1>7. NoSupersededScheduler'  BY <1>1 DEF OnDone, NoSupersededScheduler
<1> QED  BY <1>2, <1>3, <1>4, <1>5, <1>6, <1>7

\* The game, the user and the server.
LEMMA WorldIInv ==
    ASSUME IInv, (\E c \in Camps : Play(c)) \/ GameSaves \/ HaltSaveTail \/ Teardown \/ Exit
    PROVE  IInv'
<1> USE OrchestratorAssumption, TailsAreTasks DEF IInv, TypeOK
<1> USE DEF CampKnown, Registered, Foreign, DoomedAlive, SupersededEnds, RegisteredAtWork,
            NeverUntailed, NoSupersededScheduler, AtWork, tailVars, userVars, procVars
<1>1. CASE \E c \in Camps : Play(c)  BY <1>1 DEF Play
<1>2. CASE GameSaves
  <2>1. inbox' \in [Camps -> SUBSET Camps] /\ \A c \in Camps : c \notin inbox'[c]
    BY <1>2 DEF GameSaves
  <2> QED  BY <1>2, <2>1 DEF GameSaves
<1>3. CASE HaltSaveTail  BY <1>3 DEF HaltSaveTail
<1>4. CASE Teardown
  <2>1. gathered' \subseteq Tails /\ doomed' \subseteq Tails  BY <1>4 DEF Teardown
  <2>2. \A t \in doomed' : st[t] \in {"new", "run", "closing"}
    BY <1>4, <2>1 DEF Teardown, Done
  <2> QED  BY <1>4, <2>1, <2>2 DEF Teardown
<1>5. CASE Exit  BY <1>5 DEF Exit
<1> QED  BY <1>1, <1>2, <1>3, <1>4, <1>5

LEMMA NextIInv == IInv /\ [Next]_vars => IInv'
<1> SUFFICES ASSUME IInv, [Next]_vars  PROVE IInv'  OBVIOUS
<1>1. ASSUME NEW c \in Camps, Adopt(c)  PROVE IInv'  BY <1>1, AdoptIInv
<1>2. ASSUME NEW t \in Tails, TailStep(t) \/ TailFails(t)  PROVE IInv'
  <2>1. CASE Start(t)  BY <2>1, StartIInv
  <2>2. ASSUME NEW o \in Camps, ReadForeign(t, o)  PROVE IInv'  BY <2>2, ReadForeignIInv
  <2>3. CASE DoSwitch(t)  BY <2>3, DoSwitchIInv
  <2>4. CASE CancelLands(t) \/ StopSeen(t) \/ TailFails(t) \/ DrainEnds(t)  BY <2>4, EndingIInv
  <2>5. CASE OnDone(t)  BY <2>5, OnDoneIInv
  <2> QED  BY <1>2, <2>1, <2>2, <2>3, <2>4, <2>5 DEF TailStep
<1>3. CASE UNCHANGED vars
  BY <1>3 DEF vars, tailVars, userVars, procVars, IInv, TypeOK, CampKnown, Registered, Foreign,
              DoomedAlive, SupersededEnds, RegisteredAtWork, NeverUntailed,
              NoSupersededScheduler, AtWork
<1> QED  BY <1>1, <1>2, <1>3, WorldIInv DEF Next

-----------------------------------------------------------------------------
\* A switch never leaves the process without a tail at work, however many posts
\* pile up and whatever tasks are still on their way out.
THEOREM AlwaysTailed == Spec => []NeverUntailed
<1>1. IInv => NeverUntailed  BY DEF IInv
<1> QED  BY <1>1, InitIInv, NextIInv, PTL DEF Spec

\* The scheduler registered for a campaign never belongs to a superseded tail.
THEOREM SchedulerCurrent == Spec => []NoSupersededScheduler
<1>1. IInv => NoSupersededScheduler  BY DEF IInv
<1> QED  BY <1>1, InitIInv, NextIInv, PTL DEF Spec

-----------------------------------------------------------------------------
(* The log tailer: its inductive invariant.                                *)

Lines == [kind : {"tag", "root", "scope"}, ev : Events] \cup {Line("noise", None)}

LogTypeOK ==
    /\ file \in Seq(Lines) /\ script \in Seq(Lines) /\ todo \in SUBSET Events
    /\ up \in BOOLEAN /\ fed \in BOOLEAN /\ muted \in BOOLEAN /\ cut \in BOOLEAN
    /\ pos \in Nat /\ saved \in Nat /\ known \in Nat /\ noise \in Nat /\ faults \in Nat
    /\ pend \in Pendings \cup {None}
    /\ rotating \in {"no", "copied", "truncated"}

\* Between i and j there is nothing but noise.
Quiet(i, j) == \A n \in (i + 1)..(j - 1) : file[n].kind = "noise"

\* The next line after line i that is not noise, in the file or still to be
\* written, is the dump of event e.
DumpAhead(i, e) ==
    /\ \A j \in (i + 1)..Len(file) :
          Quiet(i, j) /\ file[j].kind # "noise" => file[j] = Line("root", e)
    /\ Quiet(i, Len(file) + 1) => script # <<>> /\ script[1] = Line("root", e)

\* What the mod has still to write of an event.
ScriptShape ==
    \/ script = <<>>
    \/ \E e \in Events :
          script \in {<<Line("tag", e), Line("root", e), Line("scope", e)>>,
                      <<Line("root", e), Line("scope", e)>>, <<Line("scope", e)>>}

\* A tag in the log is followed by its own dump.
DumpFollowsTag ==
    \A i \in 1..Len(file) : file[i].kind = "tag" => DumpAhead(i, file[i].ev)

\* The line from which the tailer reads on: a position beyond what it has read
\* of the present file is one of the file before.
Onward == IF pos <= known THEN pos ELSE 0

\* The event that waits for its dump meets its own, and the character it has
\* got is its own, unless a rotation has taken lines.
PendingMatched ==
    ~cut /\ pend # None =>
        /\ pos <= known \/ known = 0
        /\ IF pend.owner = None THEN DumpAhead(Onward, pend.ev) ELSE pend.owner = pend.ev

\* Nothing is pending where no tailer runs.
PendingRuns == pend # None => up

LogIInv ==
    /\ LogTypeOK /\ known <= Len(file) /\ PendingRuns
    /\ ScriptShape /\ DumpFollowsTag
    /\ PendingMatched /\ RightOwner /\ TagsAccounted

-----------------------------------------------------------------------------
(* The parser and the transaction that applies what it returns.            *)

\* What short sequences hold.
LEMMA RangeShort ==
    ASSUME NEW a, NEW b
    PROVE  /\ Range(<<>>) = {} /\ Range(<<a>>) = {a}
           /\ Range(Append(<<>>, b)) = {b} /\ Range(Append(<<a>>, b)) = {a, b}
<1>1. Range(<<>>) = {}  BY DEF Range
<1>2. Range(<<a>>) = {a}  BY DEF Range
<1>3. Append(<<>>, b) = <<b>> /\ Range(<<b>>) = {b}  BY DEF Range
<1>4. Range(Append(<<a>>, b)) = {a, b}
  <2>1. <<a>> \in Seq({a, b}) /\ Len(<<a>>) = 1 /\ <<a>>[1] = a  OBVIOUS
  <2>2. /\ DOMAIN Append(<<a>>, b) = 1..2
        /\ Append(<<a>>, b)[1] = a /\ Append(<<a>>, b)[2] = b
    BY <2>1
  <2> QED  BY <2>2 DEF Range
<1> QED  BY <1>1, <1>2, <1>3, <1>4

\* A finished event keeps its tag and its character; without one it fails.
LEMMA FinaliseShape ==
    ASSUME NEW p \in Pendings
    PROVE  /\ Finalise(p).ok \in BOOLEAN /\ Finalise(p).ev = p.ev
           /\ Finalise(p).ok => Finalise(p).owner = p.owner /\ p.owner # None
BY DEF Finalise, Good, Bad, Pendings

\* What a tag does to the parser.
LEMMA FeedTagShape ==
    ASSUME NEW p \in Pendings \cup {None}, NEW l \in Lines, l.kind = "tag"
    PROVE  /\ FeedTag(p, l).pend \in {None, Pending(l.ev)} /\ Pending(l.ev) \in Pendings
           /\ \A x \in Range(FeedTag(p, l).out) :
                 /\ x.ok \in BOOLEAN
                 /\ x.ok => p # None /\ x.ev = p.ev /\ x.owner = p.owner /\ p.owner # None
           /\ p # None => \E x \in Range(FeedTag(p, l).out) : x.ev = p.ev
           /\ FeedTag(p, l).pend = None => \E x \in Range(FeedTag(p, l).out) : x.ev = l.ev
<1> USE TailerAssumption
<1> DEFINE bad == Bad(l.ev)
           before == IF p = None THEN <<>> ELSE <<Finalise(p)>>
<1>1. bad.ok = FALSE /\ bad.ev = l.ev  BY DEF Bad
<1>2. l.ev \in Events  BY DEF Lines, Line
<1>3. Pending(l.ev) \in Pendings  BY <1>2 DEF Pending, Pendings
<1>4. \A x \in Range(before) :
          x.ok \in BOOLEAN /\ (x.ok => p # None /\ x.ev = p.ev /\ x.owner = p.owner /\ p.owner # None)
  BY RangeShort, FinaliseShape
<1>5. p # None => \E x \in Range(before) : x.ev = p.ev  BY RangeShort, FinaliseShape
<1>6. Range(Append(before, bad)) = Range(before) \cup {bad}
  <2>1. CASE p = None
    <3>1. before = <<>>  BY <2>1
    <3> HIDE DEF before, bad
    <3> QED  BY <3>1, RangeShort
  <2>2. CASE p # None
    <3>1. before = <<Finalise(p)>>  BY <2>2
    <3> HIDE DEF before, bad
    <3> QED  BY <3>1, RangeShort
  <2> QED  BY <2>1, <2>2
<1> HIDE DEF before, bad
<1>7. FeedTag(p, l) = IF l.ev \in Malformed
                      THEN [out |-> Append(before, bad), pend |-> None]
                      ELSE [out |-> before, pend |-> Pending(l.ev)]
  BY DEF FeedTag, before, bad
<1>8. Pending(l.ev) # None  BY <1>3
<1>9. CASE l.ev \in Malformed
  <2>1. FeedTag(p, l).out = Append(before, bad) /\ FeedTag(p, l).pend = None  BY <1>7, <1>9
  <2> QED  BY <1>1, <1>3, <1>4, <1>5, <1>6, <2>1
<1>10. CASE l.ev \notin Malformed
  <2>1. FeedTag(p, l).out = before /\ FeedTag(p, l).pend = Pending(l.ev)  BY <1>7, <1>10
  <2> QED  BY <1>3, <1>4, <1>5, <1>8, <2>1
<1> QED  BY <1>9, <1>10

\* What any other line does to it while an event is pending: the event is
\* finished, or it is still pending and at most its character has come.
LEMMA FeedBodyShape ==
    ASSUME NEW p \in Pendings, NEW l \in Lines, l.kind # "tag"
    PROVE  /\ FeedBody(p, l).pend \in Pendings \cup {None}
           /\ \A x \in Range(FeedBody(p, l).out) :
                 x.ok \in BOOLEAN /\ x.ev = p.ev /\ (x.ok => x.owner = p.owner /\ p.owner # None)
           /\ FeedBody(p, l).pend = None => \E x \in Range(FeedBody(p, l).out) : x.ev = p.ev
           /\ FeedBody(p, l).pend # None =>
                 /\ FeedBody(p, l).pend.ev = p.ev
                 /\ \/ FeedBody(p, l).pend.owner = p.owner /\ l.kind = "noise" /\ p.owner = None
                    \/ FeedBody(p, l).pend.owner = l.ev /\ l.kind = "root" /\ p.owner = None
                    \/ FeedBody(p, l).pend.owner = p.owner /\ l.kind = "scope"
<1> USE TailerAssumption
<1> DEFINE q == [p EXCEPT !.age = @ + 1]
           f == FeedBody(p, l)
<1>1. q \in Pendings /\ q.ev = p.ev /\ q.owner = p.owner /\ p.age \in Nat /\ q.age = p.age + 1
  BY DEF Pendings
<1>2. l.kind \in {"root", "noise", "scope"} /\ (l.kind = "root" => l.ev \in Events)
  BY DEF Lines, Line
<1> HIDE DEF q
<1>3. [q EXCEPT !.owner = l.ev].ev = p.ev /\ [q EXCEPT !.owner = l.ev].owner = l.ev
      /\ (l.kind = "root" => [q EXCEPT !.owner = l.ev] \in Pendings)
  BY <1>1, <1>2 DEF Pendings
<1>4. [q EXCEPT !.full = TRUE].ev = p.ev /\ [q EXCEPT !.full = TRUE].owner = p.owner
      /\ [q EXCEPT !.full = TRUE] \in Pendings
  BY <1>1 DEF Pendings
<1>5. /\ Finalise(q).ok \in BOOLEAN /\ Finalise(q).ev = p.ev
      /\ Finalise(q).ok => Finalise(q).owner = p.owner /\ p.owner # None
  BY <1>1, FinaliseShape
<1>6. Bad(p.ev).ok = FALSE /\ Bad(p.ev).ev = p.ev  BY DEF Bad
<1>7. \/ f = [out |-> <<Bad(p.ev)>>, pend |-> None]
      \/ f = [out |-> <<Finalise(q)>>, pend |-> None]
      \/ l.kind = "root" /\ p.owner = None /\ f = [out |-> <<>>, pend |-> [q EXCEPT !.owner = l.ev]]
      \/ l.kind = "noise" /\ p.owner = None /\ f = [out |-> <<>>, pend |-> q]
      \/ l.kind = "scope" /\ f = [out |-> <<>>, pend |-> [q EXCEPT !.full = TRUE]]
  <2>1. CASE q.age >= ScopeTimeout  BY <1>1, <2>1 DEF FeedBody, q
  <2>2. CASE q.age < ScopeTimeout /\ l.kind \in {"root", "noise"} /\ p.owner # None
    BY <1>1, <2>2 DEF FeedBody, q
  <2>3. CASE q.age < ScopeTimeout /\ l.kind = "root" /\ p.owner = None
    BY <1>1, <2>3 DEF FeedBody, q
  <2>4. CASE q.age < ScopeTimeout /\ l.kind = "noise" /\ p.owner = None
    BY <1>1, <2>4 DEF FeedBody, q
  <2>5. CASE q.age < ScopeTimeout /\ l.kind = "scope"  BY <1>1, <2>5 DEF FeedBody, q
  <2> QED  BY <1>1, <1>2, <2>1, <2>2, <2>3, <2>4, <2>5
<1> HIDE DEF f
<1>8. CASE f = [out |-> <<Bad(p.ev)>>, pend |-> None]
  <2>1. f.pend = None /\ Range(f.out) = {Bad(p.ev)}  BY <1>8, RangeShort
  <2> QED  BY <1>6, <2>1 DEF f
<1>9. CASE f = [out |-> <<Finalise(q)>>, pend |-> None]
  <2>1. f.pend = None /\ Range(f.out) = {Finalise(q)}  BY <1>9, RangeShort
  <2> QED  BY <1>5, <2>1 DEF f
<1>10. CASE l.kind = "root" /\ p.owner = None /\ f = [out |-> <<>>, pend |-> [q EXCEPT !.owner = l.ev]]
  <2>1. f.pend = [q EXCEPT !.owner = l.ev] /\ Range(f.out) = {}  BY <1>10, RangeShort
  <2> QED  BY <1>3, <1>10, <2>1 DEF f
<1>11. CASE l.kind = "noise" /\ p.owner = None /\ f = [out |-> <<>>, pend |-> q]
  <2>1. f.pend = q /\ Range(f.out) = {}  BY <1>11, RangeShort
  <2> QED  BY <1>1, <1>11, <2>1 DEF f
<1>12. CASE l.kind = "scope" /\ f = [out |-> <<>>, pend |-> [q EXCEPT !.full = TRUE]]
  <2>1. f.pend = [q EXCEPT !.full = TRUE] /\ Range(f.out) = {}  BY <1>12, RangeShort
  <2> QED  BY <1>4, <1>12, <2>1 DEF f
<1> QED  BY <1>7, <1>8, <1>9, <1>10, <1>11, <1>12

\* Whatever is applied is settled: inserted, already there, silenced or
\* quarantined, and nothing that was settled is lost.
LEMMA ApplySettles ==
    ASSUME NEW out, NEW silenced \in BOOLEAN, Apply(out, silenced),
           \A x \in Range(out) : x.ok \in BOOLEAN
    PROVE  /\ Settled \subseteq Settled'
           /\ \A x \in Range(out) : x.ev \in Settled'
           /\ \A x \in events' : x \in events \/ (x \in Range(out) /\ x.ok)
<1> DEFINE fresh(x) == x.ok /\ \A y \in events : Key(y) # Key(x)
           refused == {x \in Range(out) : ~x.ok}
<1>1. /\ events' = events \cup {x \in Range(out) : fresh(x)}
      /\ dropped' = dropped \cup {x.ev : x \in {y \in refused : Silent(silenced, y)}}
      /\ quarantine' = quarantine \cup {x.ev : x \in {y \in refused : ~Silent(silenced, y)}}
  BY DEF Apply
<1>2. Settled \subseteq Settled'  BY <1>1 DEF Settled
<1>3. ASSUME NEW x \in Range(out)  PROVE x.ev \in Settled'
  <2>1. CASE x.ok /\ fresh(x)  BY <1>1, <2>1 DEF Settled
  <2>2. CASE x.ok /\ ~fresh(x)
    <3>1. PICK y \in events : y.ev = x.ev  BY <2>2 DEF Key
    <3> QED  BY <1>2, <3>1 DEF Settled
  <2>3. CASE ~x.ok
    <3>1. x \in refused  BY <2>3
    <3> QED  BY <1>1, <3>1 DEF Settled
  <2> QED  BY <2>1, <2>2, <2>3
<1> QED  BY <1>1, <1>2, <1>3

-----------------------------------------------------------------------------
(* The log: a line written at its end keeps every dump that lies ahead.    *)

LEMMA WriteKeepsAhead ==
    ASSUME LogIInv, WriteLine \/ Noise, NEW i \in 0..Len(file), NEW e, DumpAhead(i, e)
    PROVE  DumpAhead(i, e)'
<1> USE DEF LogIInv, LogTypeOK
<1>1. PICK l \in Lines :
          /\ file' = Append(file, l)
          /\ \/ script # <<>> /\ l = script[1] /\ script' = Tail(script)
             \/ l.kind = "noise" /\ script' = script
  BY DEF WriteLine, Noise, Append1, Lines, Line
<1>2. /\ Len(file') = Len(file) + 1 /\ file'[Len(file) + 1] = l
      /\ \A n \in 1..Len(file) : file'[n] = file[n]
  BY <1>1
<1>3. ASSUME NEW j \in (i + 1)..(Len(file) + 1)  PROVE Quiet(i, j)' <=> Quiet(i, j)
  <2>1. \A n \in (i + 1)..(j - 1) : file'[n] = file[n]  BY <1>2
  <2> QED  BY <2>1, Zenon DEF Quiet
<1>4. ASSUME NEW j \in (i + 1)..Len(file'), Quiet(i, j)', file'[j].kind # "noise"
      PROVE  file'[j] = Line("root", e)
  <2>1. CASE j <= Len(file)  BY <1>2, <1>3, <1>4, <2>1 DEF DumpAhead
  <2>2. CASE j = Len(file) + 1
    <3>1. Quiet(i, Len(file) + 1)  BY <1>3, <1>4, <2>2
    <3>2. script # <<>> /\ script[1] = Line("root", e)  BY <3>1 DEF DumpAhead
    <3> QED  BY <1>1, <1>2, <1>4, <2>2, <3>2
  <2> QED  BY <1>2, <2>1, <2>2
<1>5. ASSUME Quiet(i, Len(file) + 1)'
      PROVE  script' # <<>> /\ script'[1] = Line("root", e)
  <2>1. \A n \in (i + 1)..(Len(file) + 1) : file'[n].kind = "noise"  BY <1>2, <1>5 DEF Quiet
  <2>2. Quiet(i, Len(file) + 1) /\ l.kind = "noise"  BY <1>2, <2>1 DEF Quiet
  <2>3. script # <<>> /\ script[1] = Line("root", e)  BY <2>2 DEF DumpAhead
  <2> QED  BY <1>1, <2>2, <2>3 DEF Line
<1> QED  BY <1>4, <1>5 DEF DumpAhead

-----------------------------------------------------------------------------
(* The invariant holds initially and every action preserves it.            *)

LEMMA InitLogIInv == LogInit => LogIInv
<1> SUFFICES ASSUME LogInit  PROVE LogIInv  OBVIOUS
<1> USE DEF LogInit
<1>1. file \in Seq(Lines) /\ script \in Seq(Lines) /\ known <= Len(file)  OBVIOUS
<1>4. LogTypeOK /\ PendingRuns  BY <1>1 DEF LogTypeOK, PendingRuns
<1>2. ScriptShape /\ DumpFollowsTag  BY DEF ScriptShape, DumpFollowsTag
<1>3. PendingMatched /\ RightOwner /\ TagsAccounted
  BY DEF PendingMatched, RightOwner, TagsAccounted
<1> QED  BY <1>1, <1>2, <1>3, <1>4 DEF LogIInv

\* A step that leaves the parser, the database and the history alone keeps
\* what is said of them.
LEMMA AccountsKept ==
    ASSUME LogIInv, UNCHANGED <<pend, store, cut, read, lost>>
    PROVE  RightOwner' /\ TagsAccounted'
BY DEF LogIInv, store, RightOwner, TagsAccounted, Settled, Waiting

LEMMA EmitIInv ==
    ASSUME LogIInv, NEW e \in Events, Emit(e)
    PROVE  LogIInv'
<1> USE DEF LogIInv, LogTypeOK
<1>1. /\ script = <<>> /\ script' = <<Line("tag", e), Line("root", e), Line("scope", e)>>
      /\ UNCHANGED <<file, up, pos, pend, fed, saved, store, muted, rotating, known, cut, read,
                     lost, noise, faults>>
      /\ todo' = todo \ {e}
  BY DEF Emit, tailer, missed
<1>2. script' \in Seq(Lines)
  <2>1. Line("tag", e) \in Lines /\ Line("root", e) \in Lines /\ Line("scope", e) \in Lines
    BY DEF Lines, Line
  <2> QED  BY <1>1, <2>1
<1>3. LogTypeOK' /\ (known <= Len(file))' /\ PendingRuns' /\ ScriptShape'
  BY <1>1, <1>2 DEF ScriptShape, PendingRuns
<1>4. ASSUME NEW i, NEW x, DumpAhead(i, x)  PROVE DumpAhead(i, x)'
  BY <1>1, <1>4 DEF DumpAhead, Quiet
<1>5. DumpFollowsTag'  BY <1>1, <1>4 DEF DumpFollowsTag
<1>6. PendingMatched'  BY <1>1, <1>4 DEF PendingMatched, Onward
<1> QED  BY <1>1, <1>3, <1>5, <1>6, AccountsKept

LEMMA WriteIInv ==
    ASSUME LogIInv, WriteLine \/ Noise
    PROVE  LogIInv'
<1> USE DEF LogIInv, LogTypeOK
<1>1. UNCHANGED <<todo, up, pos, pend, fed, saved, store, muted, rotating, known, cut, read,
                  lost, faults>>
  BY DEF WriteLine, Noise, tailer, missed
<1>2. PICK l \in Lines :
          /\ file' = Append(file, l)
          /\ \/ /\ script # <<>> /\ l = script[1] /\ script' = Tail(script)
                /\ noise' = noise
             \/ l.kind = "noise" /\ script' = script /\ noise' = noise + 1
  BY DEF WriteLine, Noise, Append1, Lines, Line
<1>3. LogTypeOK' /\ (known <= Len(file))' /\ PendingRuns'
  <2>1. file' \in Seq(Lines) /\ Len(file') = Len(file) + 1  BY <1>2
  <2>2. script # <<>> => Tail(script) \in Seq(Lines)  OBVIOUS
  <2>3. script' \in Seq(Lines)  BY <1>2, <2>2
  <2>4. noise' \in Nat  BY <1>2
  <2> QED  BY <1>1, <2>1, <2>3, <2>4 DEF PendingRuns
<1>4. ScriptShape'
  <2>1. CASE script' = script  BY <2>1 DEF ScriptShape
  <2>2. CASE script # <<>> /\ script' = Tail(script)
    <3>1. PICK e \in Events :
              script \in {<<Line("tag", e), Line("root", e), Line("scope", e)>>,
                          <<Line("root", e), Line("scope", e)>>, <<Line("scope", e)>>}
      BY <2>2 DEF ScriptShape
    <3>2. CASE script = <<Line("tag", e), Line("root", e), Line("scope", e)>>
      <4>1. script' = <<Line("root", e), Line("scope", e)>>  BY <2>2, <3>2
      <4> QED  BY <4>1 DEF ScriptShape
    <3>3. CASE script = <<Line("root", e), Line("scope", e)>>
      <4>1. script' = <<Line("scope", e)>>  BY <2>2, <3>3
      <4> QED  BY <4>1 DEF ScriptShape
    <3>4. CASE script = <<Line("scope", e)>>
      <4>1. script' = <<>>  BY <2>2, <3>4
      <4> QED  BY <4>1 DEF ScriptShape
    <3> QED  BY <3>1, <3>2, <3>3, <3>4
  <2> QED  BY <1>2, <2>1, <2>2
<1>5. DumpFollowsTag'
  <2> SUFFICES ASSUME NEW i \in 1..Len(file'), file'[i].kind = "tag", NEW e, e = file'[i].ev
               PROVE  DumpAhead(i, e)'
    BY DEF DumpFollowsTag
  <2>1. CASE i \in 1..Len(file)
    <3>1. file'[i] = file[i]  BY <1>2, <2>1
    <3>2. DumpAhead(i, e)  BY <2>1, <3>1 DEF DumpFollowsTag
    <3> QED  BY <2>1, <3>2, WriteKeepsAhead
  <2>2. CASE i = Len(file) + 1
    <3>1. l = file'[i] /\ script # <<>> /\ l = script[1] /\ script' = Tail(script)  BY <1>2, <2>2
    <3>2. PICK x \in Events : script = <<Line("tag", x), Line("root", x), Line("scope", x)>>
      BY <3>1 DEF ScriptShape, Line
    <3>3. x = e  BY <3>1, <3>2 DEF Line
    <3>4. script' = <<Line("root", e), Line("scope", e)>>  BY <3>1, <3>2, <3>3
    <3>5. Len(file') = i  BY <1>2, <2>2
    <3> QED  BY <3>4, <3>5 DEF DumpAhead
  <2> QED  BY <1>2, <2>1, <2>2
<1>6. PendingMatched'
  <2> SUFFICES ASSUME ~cut, pend # None, pend.owner = None, NEW e, e = pend.ev,
                      NEW i, i = Onward
               PROVE  DumpAhead(i, e)'
    BY <1>1 DEF PendingMatched, Onward
  <2>1. DumpAhead(i, e) /\ i \in 0..Len(file)  BY DEF PendingMatched, Onward
  <2> QED  BY <2>1, WriteKeepsAhead
<1> QED  BY <1>1, <1>3, <1>4, <1>5, <1>6, AccountsKept

\* The heart of the matter: a tag is met by its own dump, because that is what
\* lies ahead of the line just read; what leaves the parser is applied.
LEMMA ReadLineIInv ==
    ASSUME LogIInv, ReadLine
    PROVE  LogIInv'
<1> USE TailerAssumption DEF LogIInv, LogTypeOK
<1> DEFINE l == file[pos + 1]
           f == Feed(pend, l)
<1>1. /\ UNCHANGED <<file, script, todo, noise, up, saved, muted, rotating, lost, faults>>
      /\ up /\ pos < Len(file) /\ pos' = pos + 1 /\ fed' = TRUE
      /\ cut' = (cut \/ pos > known)
      /\ known' = IF pos < known THEN known ELSE pos + 1
      /\ pend' = f.pend
      /\ read' = IF l.kind = "tag" THEN read \cup {l.ev} ELSE read
      /\ \E silenced \in BOOLEAN : Apply(f.out, silenced)
  BY DEF ReadLine, game, Answers
<1>2. l \in Lines /\ pos + 1 \in 1..Len(file)  BY <1>1
<1>3. known' \in Nat /\ known' <= Len(file) /\ pos' <= known'  BY <1>1
<1>4. /\ f.pend \in Pendings \cup {None}
      /\ \A x \in Range(f.out) :
            /\ x.ok \in BOOLEAN
            /\ x.ok => pend # None /\ x.ev = pend.ev /\ x.owner = pend.owner /\ pend.owner # None
      /\ l.kind = "tag" =>
            /\ f.pend = None \/ f.pend = Pending(l.ev)
            /\ f.pend = None => \E x \in Range(f.out) : x.ev = l.ev
            /\ pend # None => \E x \in Range(f.out) : x.ev = pend.ev
      /\ l.kind # "tag" /\ pend = None => f.pend = None
      /\ l.kind # "tag" /\ pend # None =>
            /\ f.pend = None => \E x \in Range(f.out) : x.ev = pend.ev
            /\ f.pend # None =>
                  /\ f.pend.ev = pend.ev
                  /\ \/ f.pend.owner = pend.owner /\ l.kind = "noise" /\ pend.owner = None
                     \/ f.pend.owner = l.ev /\ l.kind = "root" /\ pend.owner = None
                     \/ f.pend.owner = pend.owner /\ l.kind = "scope"
  <2>1. CASE l.kind = "tag"
    <3>1. f = FeedTag(pend, l)  BY <2>1 DEF Feed
    <3> HIDE DEF f, l
    <3> QED  BY <1>2, <2>1, <3>1, FeedTagShape
  <2>2. CASE l.kind # "tag" /\ pend = None
    <3>1. f = [out |-> <<>>, pend |-> None]  BY <2>2 DEF Feed
    <3> HIDE DEF f, l
    <3>2. f.pend = None /\ Range(f.out) = {}  BY <3>1, RangeShort
    <3> QED  BY <2>2, <3>2
  <2>3. CASE l.kind # "tag" /\ pend # None
    <3>1. f = FeedBody(pend, l)  BY <2>3 DEF Feed
    <3>2. pend \in Pendings  BY <2>3
    <3> HIDE DEF f, l
    <3> QED  BY <1>2, <2>3, <3>1, <3>2, FeedBodyShape
  <2> QED  BY <2>1, <2>2, <2>3
<1>5. /\ Settled \subseteq Settled' /\ \A x \in Range(f.out) : x.ev \in Settled'
      /\ \A x \in events' : x \in events \/ (x \in Range(f.out) /\ x.ok)
  BY <1>1, <1>4, ApplySettles
<1>6. l.kind = "tag" => Pending(l.ev) # None /\ Pending(l.ev).ev = l.ev /\ Pending(l.ev).owner = None
  <2>1. l.kind = "tag" => l.ev \in Events  BY <1>2 DEF Lines, Line
  <2> HIDE DEF l
  <2>2. l.kind = "tag" => Pending(l.ev) \in Pendings  BY <2>1 DEF Pending, Pendings
  <2> QED  BY <2>2 DEF Pending
<1> HIDE DEF f
<1>7. LogTypeOK' /\ (known <= Len(file))' /\ PendingRuns' /\ ScriptShape'
  <2>1. cut' \in BOOLEAN /\ pend' \in Pendings \cup {None}  BY <1>1, <1>4
  <2> QED  BY <1>1, <1>3, <2>1 DEF ScriptShape, PendingRuns
<1>8. TagsAccounted'
  <2>1. Waiting \subseteq Settled' \cup Waiting'
    <3>1. CASE pend = None  BY <3>1 DEF Waiting
    <3>2. CASE pend # None /\ pend' = None  BY <1>1, <1>4, <1>5, <3>2 DEF Waiting
    <3>3. CASE pend # None /\ pend' # None  BY <1>1, <1>4, <1>5, <3>3 DEF Waiting
    <3> QED  BY <3>1, <3>2, <3>3
  <2>2. l.kind = "tag" => l.ev \in Settled' \cup Waiting'  BY <1>1, <1>4, <1>5, <1>6 DEF Waiting
  <2> QED  BY <1>1, <1>5, <2>1, <2>2 DEF TagsAccounted
<1>9. RightOwner'
  <2> SUFFICES ASSUME ~cut'  PROVE \A x \in events' : x.owner = x.ev  BY DEF RightOwner
  <2>1. ~cut  BY <1>1
  <2> QED  BY <1>4, <1>5, <2>1 DEF RightOwner, PendingMatched
<1>10. ASSUME NEW i \in Nat, NEW e  PROVE DumpAhead(i, e)' <=> DumpAhead(i, e)
  BY <1>1 DEF DumpAhead, Quiet
<1>11. DumpFollowsTag'  BY <1>1, <1>10 DEF DumpFollowsTag
<1>12. PendingMatched'
  <2> SUFFICES ASSUME ~cut', pend' # None
               PROVE  IF pend'.owner = None THEN DumpAhead(pos + 1, pend'.ev)
                      ELSE pend'.owner = pend'.ev
    <3>1. Onward' = pos + 1  BY <1>1, <1>3 DEF Onward
    <3>2. PICK e : e = pend'.ev  OBVIOUS
    <3>3. PICK i \in Nat : i = pos + 1  OBVIOUS
    <3>4. DumpAhead(i, e) => DumpAhead(i, e)'  BY <1>10
    <3>5. DumpAhead(pos + 1, e) => DumpAhead(Onward, e)'  BY <3>1, <3>3, <3>4
    <3> QED  BY <1>1, <1>3, <3>2, <3>5 DEF PendingMatched
  <2>1. ~cut /\ Onward = pos
    <3>1. ~cut /\ ~(pos > known)  BY <1>1, Zenon
    <3> QED  BY <3>1 DEF Onward
  <2>2. CASE l.kind = "tag"
    <3>1. pend'.ev = l.ev /\ pend'.owner = None  BY <1>1, <1>4, <1>6, <2>2
    <3> QED  BY <1>2, <2>2, <3>1 DEF DumpFollowsTag
  <2>3. CASE l.kind # "tag" /\ pend.owner # None
    BY <1>1, <1>4, <2>1, <2>3 DEF PendingMatched
  <2>4. CASE l.kind # "tag" /\ pend.owner = None
    <3>1. pend # None /\ DumpAhead(pos, pend.ev) /\ pend'.ev = pend.ev
      BY <1>1, <1>4, <2>1, <2>4 DEF PendingMatched
    <3>2. Quiet(pos, pos + 1)  BY DEF Quiet
    <3>3. l.kind # "noise" => l = Line("root", pend.ev)  BY <1>1, <3>1, <3>2 DEF DumpAhead
    <3>4. CASE l.kind = "noise"
      <4>1. pend'.owner = None  BY <1>1, <1>4, <2>4, <3>1, <3>4
      <4>2. ASSUME NEW j \in (pos + 2)..(Len(file) + 1), Quiet(pos + 1, j)  PROVE Quiet(pos, j)
        BY <3>4, <4>2 DEF Quiet
      <4> QED  BY <1>1, <3>1, <4>1, <4>2 DEF DumpAhead
    <3>5. CASE l.kind # "noise"
      <4>1. l.kind = "root" /\ l.ev = pend.ev  BY <3>3, <3>5 DEF Line
      <4>2. pend.ev # None  BY <3>1 DEF Pendings
      <4>3. pend'.owner = pend.ev  BY <1>1, <1>4, <2>4, <3>1, <4>1
      <4> QED  BY <3>1, <4>2, <4>3
    <3> QED  BY <3>4, <3>5
  <2> QED  BY <2>2, <2>3, <2>4
<1> QED  BY <1>7, <1>8, <1>9, <1>11, <1>12

LEMMA ResetOffsetIInv ==
    ASSUME LogIInv, ResetOffset
    PROVE  LogIInv'
<1> USE DEF LogIInv, LogTypeOK, ResetOffset, game, missed
<1>1. LogTypeOK' /\ (known <= Len(file))' /\ PendingRuns' /\ ScriptShape'
  BY DEF ScriptShape, PendingRuns
<1>2. DumpFollowsTag'  BY DEF DumpFollowsTag, DumpAhead, Quiet
<1>3. Onward = 0 /\ Onward' = 0  BY DEF Onward
<1>4. ASSUME NEW e  PROVE DumpAhead(0, e)' <=> DumpAhead(0, e)  BY DEF DumpAhead, Quiet
<1>5. PendingMatched'  BY <1>3, <1>4 DEF PendingMatched
<1> QED  BY <1>1, <1>2, <1>5, AccountsKept

\* Steps of the tailer and of the user that leave file and position alone and
\* do not meet the parser.
LEMMA QuietStepIInv ==
    ASSUME LogIInv, SaveOffset \/ Mute \/ RotateCopy \/ RotateReset
    PROVE  LogIInv'
<1> USE DEF LogIInv, LogTypeOK
<1>1. /\ UNCHANGED <<file, script, todo, noise, up, pos, pend, store, known, cut, read, lost>>
      /\ saved' \in Nat /\ fed' \in BOOLEAN /\ muted' \in BOOLEAN /\ faults' \in Nat
      /\ rotating' \in {"no", "copied", "truncated"}
  <2>1. CASE SaveOffset  BY <2>1 DEF SaveOffset, game, missed
  <2>2. CASE Mute  BY <2>2 DEF Mute, Fault, game, tailer, missed
  <2>3. CASE RotateCopy  BY <2>3 DEF RotateCopy, Fault, game, tailer, missed
  <2>4. CASE RotateReset  BY <2>4 DEF RotateReset, game, tailer, missed
  <2> QED  BY <2>1, <2>2, <2>3, <2>4
<1>2. LogTypeOK' /\ (known <= Len(file))' /\ PendingRuns' /\ ScriptShape'
  BY <1>1 DEF ScriptShape, PendingRuns
<1>3. DumpFollowsTag' /\ PendingMatched'
  BY <1>1 DEF DumpFollowsTag, PendingMatched, Onward, DumpAhead, Quiet
<1> QED  BY <1>1, <1>2, <1>3, AccountsKept

\* The ends and the beginning of a process: nothing is pending afterwards, and
\* what was is flushed, or lost in a crash.
LEMMA ProcessIInv ==
    ASSUME LogIInv, StartTailer \/ Stop \/ Crash
    PROVE  LogIInv'
<1> USE TailerAssumption DEF LogIInv, LogTypeOK
<1>1. /\ UNCHANGED <<file, script, todo, noise, saved, muted, rotating, known, cut, read>>
      /\ up' \in BOOLEAN /\ fed' \in BOOLEAN /\ pos' \in Nat /\ faults' \in Nat
      /\ pend' = None
  <2>1. CASE StartTailer  BY <2>1 DEF StartTailer, game, missed
  <2>2. CASE Stop
    <3>1. UNCHANGED <<file, script, todo, noise, saved, muted, rotating, known, cut, read, pos>>
      BY <2>2, Zenon DEF Stop, game, missed
    <3>2. up' = FALSE /\ pend' = None /\ fed' \in {fed, FALSE}  BY <2>2, Zenon DEF Stop
    <3>3. faults' = faults + 1  BY <2>2, Zenon DEF Stop, Fault
    <3>4. up' \in BOOLEAN /\ fed' \in BOOLEAN  BY <3>2
    <3>5. faults' \in Nat /\ pos' \in Nat  BY <3>1, <3>3
    <3> QED  BY <3>1, <3>2, <3>4, <3>5
  <2>3. CASE Crash
    <3>1. UNCHANGED <<file, script, todo, noise, saved, muted, rotating, known, cut, read, pos>>
      BY <2>3, Zenon DEF Crash, game, missed
    <3>2. up' = FALSE /\ pend' = None /\ fed' \in {fed, FALSE}  BY <2>3, Zenon DEF Crash
    <3>3. faults' = faults + 1  BY <2>3, Zenon DEF Crash, Fault
    <3>4. up' \in BOOLEAN /\ fed' \in BOOLEAN  BY <3>2
    <3>5. faults' \in Nat /\ pos' \in Nat  BY <3>1, <3>3
    <3> QED  BY <3>1, <3>2, <3>4, <3>5
  <2> QED  BY <2>1, <2>2, <2>3
<1>2. LogTypeOK' /\ (known <= Len(file))' /\ PendingRuns' /\ ScriptShape'
  BY <1>1 DEF ScriptShape, PendingRuns
<1>3. DumpFollowsTag' /\ PendingMatched'
  BY <1>1 DEF DumpFollowsTag, PendingMatched, DumpAhead, Quiet
<1>4. CASE Stop
  <2>1. PICK silenced \in BOOLEAN : Apply(Flush(pend), silenced)  BY <1>4 DEF Stop, Answers
  <2>2. /\ \A x \in Range(Flush(pend)) :
              /\ x.ok \in BOOLEAN
              /\ x.ok => pend # None /\ x.ev = pend.ev /\ x.owner = pend.owner /\ pend.owner # None
        /\ pend # None => \E x \in Range(Flush(pend)) : x.ev = pend.ev
    <3>1. CASE pend = None
      <4>1. Flush(pend) = <<>>  BY <3>1 DEF Flush
      <4>2. Range(Flush(pend)) = {}  BY <4>1, RangeShort
      <4> QED  BY <3>1, <4>2
    <3>2. CASE pend # None
      <4>1. Flush(pend) = <<Finalise(pend)>> /\ pend \in Pendings  BY <3>2 DEF Flush
      <4>2. Range(Flush(pend)) = {Finalise(pend)}  BY <4>1, RangeShort
      <4> QED  BY <3>2, <4>1, <4>2, FinaliseShape
    <3> QED  BY <3>1, <3>2
  <2>3. /\ Settled \subseteq Settled' /\ \A x \in Range(Flush(pend)) : x.ev \in Settled'
        /\ \A x \in events' : x \in events \/ (x \in Range(Flush(pend)) /\ x.ok)
    BY <2>1, <2>2, ApplySettles
  <2>4. TagsAccounted'
    <3>1. Waiting \subseteq Settled'  BY <2>2, <2>3 DEF Waiting
    <3> QED  BY <1>1, <1>4, <2>3, <3>1 DEF Stop, TagsAccounted
  <2>5. RightOwner'  BY <1>1, <2>2, <2>3 DEF RightOwner, PendingMatched
  <2> QED  BY <1>2, <1>3, <2>4, <2>5
<1>5. CASE StartTailer \/ Crash
  <2>1. store' = store  BY <1>5 DEF StartTailer, Crash
  <2>2. RightOwner'  BY <1>1, <2>1 DEF store, RightOwner
  <2>3. TagsAccounted'
    <3>1. CASE StartTailer
      BY <1>1, <2>1, <3>1 DEF StartTailer, PendingRuns, store, TagsAccounted, Settled, Waiting
    <3>2. CASE Crash
      BY <1>1, <2>1, <3>2 DEF Crash, store, TagsAccounted, Settled, Waiting
    <3> QED  BY <1>5, <3>1, <3>2
  <2> QED  BY <1>2, <1>3, <2>2, <2>3
<1> QED  BY <1>4, <1>5

\* Truncation: lines that nobody has still to read may go; the dump that lies
\* ahead is then the mod's next line.
LEMMA TruncateIInv ==
    ASSUME LogIInv, RotateTruncate
    PROVE  LogIInv'
<1> USE DEF LogIInv, LogTypeOK
<1>1. /\ UNCHANGED <<script, todo, noise, up, pos, pend, fed, saved, store, muted, read, lost,
                     faults>>
      /\ rotating' = "truncated"
  BY DEF RotateTruncate, game, tailer
<1>2. CASE UNCHANGED <<file, missed>>
  <2>1. LogTypeOK' /\ (known <= Len(file))' /\ PendingRuns' /\ ScriptShape'
    BY <1>1, <1>2 DEF ScriptShape, PendingRuns, missed
  <2>2. DumpFollowsTag' /\ PendingMatched'
    BY <1>1, <1>2 DEF missed, DumpFollowsTag, PendingMatched, Onward, DumpAhead, Quiet
  <2> QED  BY <1>1, <1>2, <2>1, <2>2, AccountsKept DEF missed
<1>3. CASE /\ file' = <<>> /\ known' = 0
           /\ cut' = (cut \/ known < Len(file) \/ (up /\ pos < Len(file)))
  <2>1. LogTypeOK' /\ (known <= Len(file))' /\ PendingRuns' /\ ScriptShape'
    <3>1. cut' \in BOOLEAN  BY <1>3
    <3>2. file' \in Seq(Lines) /\ Len(file') = 0  BY <1>3
    <3> QED  BY <1>1, <1>3, <3>1, <3>2 DEF ScriptShape, PendingRuns
  <2>2. DumpFollowsTag'  BY <1>3 DEF DumpFollowsTag
  <2>3. ~cut' => ~cut /\ ~(known < Len(file)) /\ ~(up /\ pos < Len(file))  BY <1>3, Zenon
  <2>4. PendingMatched'
    <3> SUFFICES ASSUME ~cut', pend # None, pend.owner = None, NEW e, e = pend.ev
                 PROVE  DumpAhead(0, e)'
      BY <1>1, <1>3, <2>3 DEF PendingMatched, Onward
    <3>1. /\ ~cut /\ known = Len(file) /\ up /\ pos >= Len(file)
          /\ DumpAhead(Onward, e) /\ (pos <= known \/ known = 0)
      BY <2>3 DEF PendingMatched, PendingRuns
    <3>2. Onward = Len(file)  BY <3>1 DEF Onward
    <3>3. script # <<>> /\ script[1] = Line("root", e)  BY <3>1, <3>2 DEF DumpAhead, Quiet
    <3> QED  BY <1>1, <1>3, <3>1, <3>3 DEF DumpAhead
  <2>5. RightOwner' /\ TagsAccounted'
    BY <1>1, <2>3 DEF store, RightOwner, TagsAccounted, Settled, Waiting
  <2> QED  BY <2>1, <2>2, <2>4, <2>5
<1> QED  BY <1>2, <1>3 DEF RotateTruncate

LEMMA NextLogIInv == LogIInv /\ [LogNext]_logVars => LogIInv'
<1> SUFFICES ASSUME LogIInv, [LogNext]_logVars  PROVE LogIInv'  OBVIOUS
<1>1. CASE UNCHANGED logVars
  <2> USE <1>1 DEF logVars, game, tailer, missed, LogIInv, LogTypeOK
  <2>1. LogTypeOK' /\ (known <= Len(file))' /\ PendingRuns' /\ ScriptShape'
    BY DEF ScriptShape, PendingRuns
  <2>2. DumpFollowsTag' /\ PendingMatched'
    BY DEF DumpFollowsTag, PendingMatched, Onward, DumpAhead, Quiet
  <2> QED  BY <2>1, <2>2, AccountsKept
<1>2. CASE LogNext
  BY <1>2, EmitIInv, WriteIInv, ReadLineIInv, ResetOffsetIInv, QuietStepIInv, ProcessIInv,
     TruncateIInv DEF LogNext, Run
<1> QED  BY <1>1, <1>2

-----------------------------------------------------------------------------
\* Every tagged line the tailer has read is recorded, quarantined, silenced or
\* still waiting for its dump; only a crash can lose one.
THEOREM EveryTagAccounted == LogSpec => []TagsAccounted
<1>1. LogIInv => TagsAccounted  BY DEF LogIInv
<1> QED  BY <1>1, InitLogIInv, NextLogIInv, PTL DEF LogSpec

\* An event is recorded for the character its own dump names.
THEOREM OwnersRight == LogSpec => []RightOwner
<1>1. LogIInv => RightOwner  BY DEF LogIInv
<1> QED  BY <1>1, InitLogIInv, NextLogIInv, PTL DEF LogSpec

=============================================================================
