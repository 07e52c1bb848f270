----------------------- MODULE DeathBiographiesProofs -----------------------
(***************************************************************************)
(* Theorems about DeathBiographies, for any characters, any number of      *)
(* pauses, crashes and queued biographies, and every choice of upsets.     *)
(***************************************************************************)
EXTENDS DeathBiographies, TLAPS

-----------------------------------------------------------------------------
(* The inductive invariant.                                                *)

TypeOK ==
    /\ paused \in BOOLEAN /\ misled \in BOOLEAN
    /\ deathDate \in SUBSET Chars /\ event \in SUBSET Chars
    /\ held \in SUBSET Chars /\ failed \in SUBSET Chars
    /\ posted \in SUBSET Chars /\ unheld \in SUBSET Chars /\ skipped \in SUBSET Chars
    /\ bios \in [Chars -> SUBSET {"blind", "full"}]
    /\ phase \in {"down", "run", "stop"}
    /\ handler \in {"idle", "pausing", "unpausing", "draining"}
    /\ cached \in [value : BOOLEAN, fresh : BOOLEAN]
    /\ tick \in [at : {"idle", "site", "held", "gate", "post", "commit"},
                 char : Chars \cup {NoChar}, loaded : BOOLEAN, pause : BOOLEAN]
    /\ queue \in [Chars -> Nat]
    /\ writing \in [Chars -> {"no", "blind", "full"}]
    /\ toggles \in Nat /\ crashes \in Nat

\* Whoever has a death event, or is the subject of the tick, has a committed
\* death date, so that the drains can find them.
DeathDated ==
    /\ event \subseteq deathDate
    /\ tick.at # "idle" => tick.char \in deathDate
    /\ tick.loaded => tick.at \in {"site", "gate"}

\* The handler runs only in a process, and drains only what is unpaused.
HandlerState ==
    /\ phase = "down" => handler = "idle"
    /\ handler \in {"unpausing", "draining"} => ~paused

\* Unless a torn read has misled it, the cache says what the file says, except
\* between the handler's save of the setting and its reset of the cache.
CacheHonest ==
    \/ misled
    \/ ~cached.fresh
    \/ cached.value = paused
    \/ handler = "pausing" /\ paused
    \/ handler = "unpausing" /\ cached.value

\* The death in the tick will not be forgotten once it is committed: it was
\* posted to the loop, or what kept it out is still on or about to drain.
TickAwaited == tick.at = "commit" => misled \/ Awaited(tick.char)

IInv ==
    /\ TypeOK /\ DeathDated /\ HandlerState /\ CacheHonest
    /\ TickAwaited /\ NoDeathForgotten

-----------------------------------------------------------------------------
(* The gates.                                                              *)

\* A gate answers in Booleans.
LEMMA GateType == TypeOK => IsLlmPaused \in BOOLEAN
BY DEF TypeOK, IsLlmPaused

\* What a gate answers, unless the cache was misled: "paused" only if the pause
\* is on or a drain will follow, "not paused" only if it is off or the handler
\* has not answered yet.
LEMMA GateHonest ==
    ASSUME IInv, ~misled
    PROVE  /\ IsLlmPaused => paused \/ handler = "unpausing"
           /\ ~IsLlmPaused => ~paused \/ handler = "pausing"
BY DEF IInv, TypeOK, CacheHonest, IsLlmPaused

\* Reading the cache through a gate keeps it honest.
LEMMA ReadHonest ==
    ASSUME IInv, cached' \in {cached, CacheAfterRead}, UNCHANGED <<misled, paused, handler>>
    PROVE  CacheHonest' /\ cached' \in [value : BOOLEAN, fresh : BOOLEAN]
<1>1. CASE cached' = cached  BY <1>1 DEF IInv, TypeOK, CacheHonest
<1>2. CASE cached' = CacheAfterRead
  <2>1. cached' = [value |-> IsLlmPaused, fresh |-> TRUE]  BY <1>2 DEF CacheAfterRead
  <2>2. CASE cached.fresh
    <3>1. cached'.value = cached.value  BY <2>1, <2>2 DEF IsLlmPaused
    <3> QED  BY <2>1, <2>2, <3>1, GateType DEF IInv, TypeOK, CacheHonest
  <2>3. CASE ~cached.fresh
    <3>1. cached'.value = paused  BY <2>1, <2>3 DEF IsLlmPaused
    <3> QED  BY <2>1, <3>1, GateType DEF IInv, TypeOK, CacheHonest
  <2> QED  BY <2>2, <2>3
<1> QED  BY <1>1, <1>2

\* What a drain that comes as far as S does.
LEMMA DrainShape ==
    ASSUME TypeOK, NEW S \in SUBSET Chars, Drain(S)
    PROVE  /\ queue' \in [Chars -> Nat]
           /\ \A c \in Chars : queue'[c] >= queue[c]
           /\ \A c \in Chars : queue'[c] > queue[c] => ~IsLlmPaused
           /\ \A c \in S : IsLlmPaused \/ c \in held \/ queue'[c] > 0
           /\ cached' \in {cached, CacheAfterRead}
           /\ unheld' = unheld \ S /\ skipped' = DrainSet \ S /\ posted' = posted
<1>1. queue' = [c \in Chars |-> IF c \in Admitted(S) THEN queue[c] + 1 ELSE queue[c]]
  BY DEF Drain, ScheduleAll
<1>2. /\ cached' \in {cached, CacheAfterRead}
      /\ unheld' = unheld \ S /\ skipped' = DrainSet \ S /\ posted' = posted
  BY DEF Drain, ScheduleAll
<1>3. queue \in [Chars -> Nat]  BY DEF TypeOK
<1>4. /\ \A c \in Admitted(S) : ~IsLlmPaused
      /\ \A c \in S : IsLlmPaused \/ c \in held \/ c \in Admitted(S)
  BY DEF Admitted
<1> QED  BY <1>1, <1>2, <1>3, <1>4

-----------------------------------------------------------------------------
(* The invariant holds initially and every step preserves it.              *)

LEMMA InitIInv == Init => IInv
<1> SUFFICES ASSUME Init  PROVE IInv  OBVIOUS
<1>1. TypeOK  BY DEF Init, TypeOK, NoTick, Stale
<1>2. DeathDated /\ HandlerState /\ CacheHonest /\ TickAwaited /\ NoDeathForgotten
  BY DEF Init, DeathDated, HandlerState, CacheHonest, TickAwaited, NoDeathForgotten, NoTick,
         Stale
<1> QED  BY <1>1, <1>2 DEF IInv

\* A drain forgets nobody: a death that only the pause or the coming drain kept
\* awaited is queued by it, or remembered as skipped.
LEMMA DrainAwaits ==
    ASSUME IInv, NEW S \in SUBSET DrainSet, Drain(S),
           UNCHANGED <<misled, paused, bios, held, failed, writing>>,
           handler \in {"idle", "draining"}, handler' = "idle",
           NEW c \in deathDate, Awaited(c)
    PROVE  misled' \/ Awaited(c)'
<1> USE DEF IInv, TypeOK
<1> SUFFICES ASSUME ~misled, ~paused, c \notin held
             PROVE  Awaited(c)'
  BY DEF Awaited
<1> S \in SUBSET Chars  BY DEF DrainSet
<1>1. /\ \A d \in Chars : queue'[d] >= queue[d]
      /\ \A d \in S : IsLlmPaused \/ d \in held \/ queue'[d] > 0
      /\ unheld' = unheld \ S /\ skipped' = DrainSet \ S /\ posted' = posted
      /\ queue' \in [Chars -> Nat]
  BY DrainShape
<1>2. c \in Chars  OBVIOUS
<1>3. ~IsLlmPaused  BY GateHonest
<1>4. CASE c \in S
  <2>1. queue'[c] > 0  BY <1>1, <1>3, <1>4
  <2> QED  BY <2>1 DEF Awaited, Chronicled
<1>5. CASE c \in DrainSet \ S  BY <1>1, <1>5 DEF Awaited
<1>6. CASE c \notin DrainSet
  <2>1. bios'[c] # {}  BY <1>6 DEF DrainSet
  <2> QED  BY <2>1 DEF Awaited, Chronicled
<1> QED  BY <1>4, <1>5, <1>6

LEMMA TickIInv ==
    ASSUME IInv, TickNext
    PROVE  IInv'
<1> USE DEF IInv, TypeOK, dbVars, userVars, offerVars
<1>1. ASSUME NEW c \in Chars, TickRefresh(c)  PROVE IInv'
  <2>1. TypeOK'  BY <1>1 DEF TickRefresh
  <2>2. DeathDated' /\ HandlerState' /\ CacheHonest' /\ TickAwaited'
    BY <1>1 DEF TickRefresh, DeathDated, HandlerState, CacheHonest, TickAwaited
  <2>3. NoDeathForgotten'
    BY <1>1 DEF TickRefresh, NoDeathForgotten, Awaited, Chronicled
  <2> QED  BY <2>1, <2>2, <2>3
<1>2. CASE TickGate
  <2>1. CacheHonest' /\ cached' \in [value : BOOLEAN, fresh : BOOLEAN]
    BY <1>2, ReadHonest DEF TickGate
  <2>2. /\ tick' = [tick EXCEPT !.at = AfterGate(IsLlmPaused)]
        /\ tick.at \in {"site", "gate"} /\ ~tick.loaded
    BY <1>2 DEF TickGate
  <2>3. /\ AfterGate(IsLlmPaused) \in {"held", "post", "commit"}
        /\ AfterGate(IsLlmPaused) = "commit" => IsLlmPaused
    BY DEF AfterGate
  <2>4. TypeOK'  BY <1>2, <2>1, <2>2, <2>3 DEF TickGate
  <2>5. DeathDated' /\ HandlerState'
    BY <1>2, <2>2, <2>3 DEF TickGate, DeathDated, HandlerState
  <2>6. TickAwaited'
    <3>1. misled \/ (IsLlmPaused => paused \/ handler = "unpausing")  BY GateHonest
    <3> QED  BY <1>2, <2>2, <2>3, <3>1 DEF TickGate, TickAwaited, Awaited
  <2>7. NoDeathForgotten'  BY <1>2 DEF TickGate, NoDeathForgotten, Awaited, Chronicled
  <2> QED  BY <2>1, <2>4, <2>5, <2>6, <2>7
<1>3. CASE TickLoad
  <2>1. /\ tick' = [tick EXCEPT !.loaded = TRUE, !.pause = paused]
        /\ tick.at \in {"site", "gate"}
    BY <1>3 DEF TickLoad
  <2>2. TypeOK'  BY <1>3, <2>1 DEF TickLoad
  <2>3. DeathDated' /\ HandlerState' /\ CacheHonest' /\ TickAwaited'
    BY <1>3, <2>1 DEF TickLoad, DeathDated, HandlerState, CacheHonest, TickAwaited
  <2>4. NoDeathForgotten'  BY <1>3 DEF TickLoad, NoDeathForgotten, Awaited, Chronicled
  <2> QED  BY <2>2, <2>3, <2>4
<1>4. CASE TickStore
  <2>1. /\ tick' = [tick EXCEPT !.at = AfterGate(tick.pause), !.loaded = FALSE, !.pause = FALSE]
        /\ tick.at \in {"site", "gate"}
    BY <1>4 DEF TickStore, DeathDated
  <2>2. /\ AfterGate(tick.pause) \in {"held", "post", "commit"}
        /\ AfterGate(tick.pause) = "commit" => tick.pause
    BY DEF AfterGate
  <2>3. misled' \/ (~misled /\ tick.pause = paused)  BY <1>4 DEF TickStore
  <2>4. TypeOK'
    <3>1. cached' \in [value : BOOLEAN, fresh : BOOLEAN] /\ misled' \in BOOLEAN
      BY <1>4 DEF TickStore
    <3> QED  BY <1>4, <2>1, <2>2, <3>1 DEF TickStore
  <2>5. DeathDated' /\ HandlerState'
    BY <1>4, <2>1, <2>2 DEF TickStore, DeathDated, HandlerState
  <2>6. CacheHonest'  BY <1>4, <2>3 DEF TickStore, CacheHonest
  <2>7. TickAwaited'  BY <1>4, <2>1, <2>2, <2>3 DEF TickStore, TickAwaited, Awaited
  <2>8. NoDeathForgotten'
    BY <1>4, <2>3 DEF TickStore, NoDeathForgotten, Awaited, Chronicled
  <2> QED  BY <2>4, <2>5, <2>6, <2>7, <2>8
<1>5. CASE TickHeld
  <2>1. /\ tick' = [tick EXCEPT !.at = IF tick.char \in held THEN "commit" ELSE "gate"]
        /\ tick.at = "held"
    BY <1>5 DEF TickHeld
  <2>2. TypeOK'  BY <1>5, <2>1 DEF TickHeld
  <2>3. DeathDated' /\ HandlerState' /\ CacheHonest'
    BY <1>5, <2>1 DEF TickHeld, DeathDated, HandlerState, CacheHonest
  <2>4. TickAwaited'  BY <1>5, <2>1 DEF TickHeld, TickAwaited, Awaited
  <2>5. NoDeathForgotten'  BY <1>5 DEF TickHeld, NoDeathForgotten, Awaited, Chronicled
  <2> QED  BY <2>2, <2>3, <2>4, <2>5
<1>6. CASE TickPost
  <2>1. tick' = [tick EXCEPT !.at = "commit"] /\ tick.at = "post" /\ ~tick.loaded
    BY <1>6 DEF TickPost, DeathDated
  <2>2. tick.char \in deathDate /\ tick.char \in Chars  BY <2>1 DEF DeathDated
  <2>3. TypeOK'  BY <1>6, <2>1, <2>2 DEF TickPost
  <2>4. DeathDated' /\ HandlerState' /\ CacheHonest'
    BY <1>6, <2>1 DEF TickPost, DeathDated, HandlerState, CacheHonest
  <2>5. TickAwaited'  BY <1>6, <2>1, <2>2 DEF TickPost, TickAwaited, Awaited, Chronicled
  <2>6. NoDeathForgotten'  BY <1>6 DEF TickPost, NoDeathForgotten, Awaited, Chronicled
  <2> QED  BY <2>3, <2>4, <2>5, <2>6
<1>7. CASE TickCommit
  <2>1. tick' = NoTick /\ tick.at = "commit"  BY <1>7 DEF TickCommit
  <2>2. TypeOK'  BY <1>7, <2>1 DEF TickCommit, NoTick, DeathDated
  <2>3. DeathDated' /\ HandlerState' /\ CacheHonest' /\ TickAwaited'
    BY <1>7, <2>1 DEF TickCommit, NoTick, DeathDated, HandlerState, CacheHonest, TickAwaited
  <2>4. NoDeathForgotten'
    BY <1>7, <2>1 DEF TickCommit, TickAwaited, NoDeathForgotten, Awaited, Chronicled
  <2> QED  BY <2>2, <2>3, <2>4
<1>8. CASE TickRaises
  <2>1. TypeOK'  BY <1>8 DEF TickRaises, NoTick
  <2>2. DeathDated' /\ HandlerState' /\ CacheHonest' /\ TickAwaited'
    BY <1>8 DEF TickRaises, NoTick, DeathDated, HandlerState, CacheHonest, TickAwaited
  <2>3. NoDeathForgotten'  BY <1>8 DEF TickRaises, NoDeathForgotten, Awaited, Chronicled
  <2> QED  BY <2>1, <2>2, <2>3
<1> QED  BY <1>1, <1>2, <1>3, <1>4, <1>5, <1>6, <1>7, <1>8 DEF TickNext

\* The drains: after unpausing, at startup, and before the process ends.
LEMMA DrainIInv ==
    ASSUME IInv, UnpauseDrain \/ Startup \/ Stop
    PROVE  IInv'
<1> USE DEF IInv, TypeOK, dbVars, userVars
<1>1. PICK S \in SUBSET DrainSet : Drain(S)
  BY DEF UnpauseDrain, Startup, Stop, DrainedOf
<1>2. /\ S \in SUBSET Chars /\ DrainSet \in SUBSET Chars
      /\ UNCHANGED <<misled, paused, deathDate, event, bios, held, toggles, tick, writing,
                     failed, crashes>>
      /\ \/ handler' = "idle" /\ handler = "draining" /\ phase' = phase
         \/ handler' = handler /\ handler = "idle" /\ phase' \in {"run", "stop"}
  BY DEF UnpauseDrain, Startup, Stop, HandlerState, DrainSet
<1>3. /\ queue' \in [Chars -> Nat] /\ unheld' \in SUBSET Chars /\ skipped' \in SUBSET Chars
      /\ posted' = posted /\ cached' \in {cached, CacheAfterRead}
  BY <1>1, <1>2, DrainShape
<1>4. CacheHonest' /\ cached' \in [value : BOOLEAN, fresh : BOOLEAN]
  <2>1. CASE handler' = handler  BY <1>2, <1>3, <2>1, ReadHonest
  <2>2. CASE handler' # handler
    <3>1. handler = "draining" /\ ~paused  BY <1>2, <2>2 DEF HandlerState
    <3>2. misled \/ ~cached.fresh \/ cached.value = paused  BY <3>1 DEF CacheHonest
    <3>3. CASE cached' = cached  BY <1>2, <3>2, <3>3 DEF CacheHonest
    <3>4. CASE cached' = CacheAfterRead
      <4>1. cached' = [value |-> IsLlmPaused, fresh |-> TRUE] /\ IsLlmPaused \in BOOLEAN
        BY <3>4, GateType DEF CacheAfterRead
      <4>2. misled \/ cached'.value = paused  BY <3>2, <4>1 DEF IsLlmPaused
      <4> QED  BY <1>2, <4>1, <4>2 DEF CacheHonest
    <3> QED  BY <1>3, <3>3, <3>4
  <2> QED  BY <2>1, <2>2
<1>5. TypeOK'  BY <1>2, <1>3, <1>4
<1>6. DeathDated' /\ HandlerState'  BY <1>2 DEF DeathDated, HandlerState
<1>7. ASSUME NEW c \in deathDate, Awaited(c)  PROVE misled' \/ Awaited(c)'
  BY <1>1, <1>2, <1>7, DrainAwaits
<1>8. TickAwaited'  BY <1>2, <1>7 DEF TickAwaited, DeathDated
<1>9. NoDeathForgotten'  BY <1>2, <1>7 DEF NoDeathForgotten, DeathDated
<1> QED  BY <1>4, <1>5, <1>6, <1>8, <1>9

\* The handler's other steps, the loop's, the passing of time and the user:
\* turning the pause off leaves a drain ahead for whoever it kept awaited.
LEMMA UserIInv ==
    ASSUME IInv, \/ PutPause \/ PutUnpause \/ ResetCache \/ CacheExpires
                 \/ \E c \in Chars : LoopEnqueues(c) \/ Resume(c)
    PROVE  IInv'
<1> USE DEF IInv, TypeOK, dbVars, userVars, offerVars
<1>1. TypeOK'
  <2>1. CASE PutPause  BY <2>1 DEF PutPause
  <2>2. CASE PutUnpause
    <3>1. handler' \in {"pausing", "unpausing"}  BY <2>2, Zenon DEF PutUnpause
    <3>2. paused' = FALSE /\ toggles' = toggles + 1  BY <2>2, Zenon DEF PutUnpause
    <3>3. UNCHANGED <<misled, dbVars, held, phase, cached, tick, offerVars, writing, failed,
                      crashes>>
      BY <2>2, Zenon DEF PutUnpause
    <3>4. paused' \in BOOLEAN  BY <3>2
    <3>5. toggles' \in Nat  BY <3>2
    <3> QED  BY <3>1, <3>3, <3>4, <3>5
  <2>3. CASE ResetCache  BY <2>3 DEF ResetCache, Stale
  <2>4. CASE CacheExpires  BY <2>4 DEF CacheExpires
  <2>5. ASSUME NEW c \in Chars, Resume(c)  PROVE TypeOK'  BY <2>5 DEF Resume
  <2>6. ASSUME NEW c \in Chars, LoopEnqueues(c)  PROVE TypeOK'  BY <2>6 DEF LoopEnqueues
  <2> QED  BY <2>1, <2>2, <2>3, <2>4, <2>5, <2>6
<1>2. DeathDated' /\ HandlerState'
  BY DEF PutPause, PutUnpause, ResetCache, CacheExpires, LoopEnqueues, Resume, LoopFree,
         DeathDated, HandlerState
<1>3. CacheHonest'
  <2>1. CASE PutPause  BY <2>1 DEF PutPause, LoopFree, CacheHonest
  <2>2. CASE PutUnpause  BY <2>2 DEF PutUnpause, LoopFree, CacheHonest
  <2>3. CASE ResetCache  BY <2>3 DEF ResetCache, Stale, CacheHonest
  <2>4. CASE CacheExpires  BY <2>4 DEF CacheExpires, CacheHonest
  <2>5. ASSUME NEW c \in Chars, LoopEnqueues(c) \/ Resume(c)  PROVE CacheHonest'
    BY <2>5 DEF LoopEnqueues, Resume, CacheHonest
  <2> QED  BY <2>1, <2>2, <2>3, <2>4, <2>5
<1>4. ASSUME NEW c \in deathDate, Awaited(c)  PROVE Awaited(c)'
  <2>1. CASE PutPause \/ PutUnpause \/ ResetCache \/ CacheExpires \/ \E d \in Chars : Resume(d)
    BY <1>4, <2>1 DEF PutPause, PutUnpause, ResetCache, CacheExpires, Resume, LoopFree, Awaited,
                      Chronicled
  <2>2. ASSUME NEW d \in Chars, LoopEnqueues(d)  PROVE Awaited(c)'
    BY <1>4, <2>2 DEF LoopEnqueues, Awaited, Chronicled
  <2> QED  BY <2>1, <2>2
<1>5. UNCHANGED <<tick, event, deathDate, misled>>
  BY DEF PutPause, PutUnpause, ResetCache, CacheExpires, LoopEnqueues, Resume
<1>6. NoDeathForgotten'  BY <1>4, <1>5 DEF NoDeathForgotten, DeathDated
<1>7. TickAwaited'  BY <1>4, <1>5 DEF TickAwaited, DeathDated
<1> QED  BY <1>1, <1>2, <1>3, <1>6, <1>7

\* A biography moves from the queue to its generation and from there to the
\* database; only a failure takes it out, and is remembered.
LEMMA BiographyIInv ==
    ASSUME IInv, NEW c \in Chars, BiographyNext(c)
    PROVE  IInv'
<1> USE DEF IInv, TypeOK, dbVars, userVars, offerVars, BiographyNext
<1>1. TypeOK'  BY DEF BiographyReads, BiographyStored, BiographyFails
<1>2. DeathDated' /\ HandlerState' /\ CacheHonest'
  BY DEF BiographyReads, BiographyStored, BiographyFails, DeathDated, HandlerState, CacheHonest
<1>3. ASSUME NEW d \in Chars, Awaited(d)  PROVE Awaited(d)'
  <2>1. CASE Chronicled(d)
    BY <2>1 DEF BiographyReads, BiographyStored, BiographyFails, Awaited, Chronicled
  <2>2. CASE ~Chronicled(d)
    BY <1>3, <2>2 DEF BiographyReads, BiographyStored, BiographyFails, Awaited
  <2> QED  BY <2>1, <2>2
<1>4. UNCHANGED <<tick, event, deathDate, misled>>
  BY DEF BiographyReads, BiographyStored, BiographyFails
<1>5. NoDeathForgotten'  BY <1>3, <1>4 DEF NoDeathForgotten
<1>6. TickAwaited'  BY <1>3, <1>4 DEF TickAwaited, DeathDated
<1> QED  BY <1>1, <1>2, <1>5, <1>6

LEMMA ForgetIInv ==
    ASSUME IInv, ForgetAll
    PROVE  IInv'
<1> USE DEF IInv, TypeOK, dbVars, userVars, ForgetAll, NoTick, Stale
<1>1. TypeOK'
  <2>1. cached' \in [value : BOOLEAN, fresh : BOOLEAN] /\ misled' \in BOOLEAN  OBVIOUS
  <2>2. tick' \in [at : {"idle", "site", "held", "gate", "post", "commit"},
                   char : Chars \cup {NoChar}, loaded : BOOLEAN, pause : BOOLEAN]
    OBVIOUS
  <2>3. queue' \in [Chars -> Nat] /\ writing' \in [Chars -> {"no", "blind", "full"}]  OBVIOUS
  <2> QED  BY <2>1, <2>2, <2>3
<1>2. DeathDated' /\ HandlerState' /\ CacheHonest' /\ TickAwaited'
  BY DEF DeathDated, HandlerState, CacheHonest, TickAwaited
<1>3. NoDeathForgotten'  BY DEF NoDeathForgotten, Awaited
<1> QED  BY <1>1, <1>2, <1>3

LEMMA NextIInv == IInv /\ [Next]_vars => IInv'
<1> SUFFICES ASSUME IInv, [Next]_vars  PROVE IInv'  OBVIOUS
<1>1. CASE UNCHANGED vars
  BY <1>1 DEF vars, dbVars, userVars, offerVars, IInv, TypeOK, DeathDated, HandlerState,
              CacheHonest, TickAwaited, NoDeathForgotten, Awaited, Chronicled
<1>2. CASE Next
  BY <1>2, TickIInv, DrainIInv, UserIInv, BiographyIInv, ForgetIInv
     DEF Next, HandlerNext, Stopped, Crash
<1> QED  BY <1>1, <1>2

-----------------------------------------------------------------------------
\* No ingested death is forgotten: its biography is written or coming, or the
\* pause is still on, or a drain that will find it is still ahead; unless it was
\* held back, failed or skipped, or a torn read misled the cache.
THEOREM DeathsAwaited == Spec => []NoDeathForgotten
<1>1. IInv => NoDeathForgotten  BY DEF IInv
<1> QED  BY <1>1, InitIInv, NextIInv, PTL DEF Spec

\* What lets biographies through: the tick's gates and the drains.
LEMMA LetThrough ==
    ASSUME IInv, Next, NEW c \in Chars, Passed(c)' > Passed(c)
    PROVE  \/ tick.at = "gate" /\ TickGate /\ ~IsLlmPaused
           \/ tick.at = "gate" /\ TickStore /\ ~tick.pause
           \/ misled' = misled /\ \E S \in SUBSET Chars : Drain(S) /\ queue'[c] > queue[c]
<1> USE DEF IInv, TypeOK, offerVars, Passed
<1> queue[c] \in Nat  OBVIOUS
<1>1. CASE TickNext
  <2>1. ASSUME NEW d \in Chars, TickRefresh(d)  PROVE FALSE  BY <2>1 DEF TickRefresh
  <2>2. CASE TickGate
    <3>1. tick' = [tick EXCEPT !.at = AfterGate(IsLlmPaused)] /\ UNCHANGED <<queue, posted>>
      BY <2>2 DEF TickGate
    <3>2. tick'.at = "post"  BY <3>1
    <3>3. tick.at = "gate" /\ ~IsLlmPaused
      BY <2>2, <3>1, <3>2 DEF TickGate, AfterGate
    <3> QED  BY <2>2, <3>3
  <2>3. CASE TickStore
    <3>1. /\ tick' = [tick EXCEPT !.at = AfterGate(tick.pause), !.loaded = FALSE, !.pause = FALSE]
          /\ UNCHANGED <<queue, posted>>
      BY <2>3 DEF TickStore
    <3>2. tick'.at = "post"  BY <3>1
    <3>3. tick.at = "gate" /\ ~tick.pause
      BY <2>3, <3>1, <3>2 DEF TickStore, AfterGate, DeathDated
    <3> QED  BY <2>3, <3>3
  <2>4. CASE TickLoad  BY <2>4 DEF TickLoad
  <2>5. CASE TickHeld  BY <2>5 DEF TickHeld
  <2>6. CASE TickPost  BY <2>6 DEF TickPost
  <2>7. CASE TickCommit \/ TickRaises  BY <2>7 DEF TickCommit, TickRaises, NoTick
  <2> QED  BY <1>1, <2>1, <2>2, <2>3, <2>4, <2>5, <2>6, <2>7 DEF TickNext
<1>2. CASE UnpauseDrain \/ Startup \/ Stop
  <2>1. PICK S \in SUBSET DrainSet : Drain(S)
    BY <1>2 DEF UnpauseDrain, Startup, Stop, DrainedOf
  <2>2. UNCHANGED <<misled, tick, posted>>
    BY <1>2, <2>1 DEF UnpauseDrain, Startup, Stop, Drain
  <2>3. S \in SUBSET Chars  BY DEF DrainSet
  <2>4. queue'[c] \in Nat  BY <2>1, <2>3, DrainShape
  <2> QED  BY <2>1, <2>2, <2>3, <2>4
<1>3. CASE PutPause \/ PutUnpause \/ ResetCache \/ CacheExpires \/ \E d \in Chars : Resume(d)
  BY <1>3 DEF PutPause, PutUnpause, ResetCache, CacheExpires, Resume
<1>4. ASSUME NEW d \in Chars, LoopEnqueues(d)  PROVE FALSE
  <2>1. /\ tick' = tick /\ d \in posted /\ posted' = posted \ {d}
        /\ queue' = [queue EXCEPT ![d] = queue[d] + 1]
    BY <1>4 DEF LoopEnqueues
  <2>2. CASE c = d  BY <2>1, <2>2
  <2>3. CASE c # d  BY <2>1, <2>3
  <2> QED  BY <2>2, <2>3
<1>5. ASSUME NEW d \in Chars, BiographyNext(d)  PROVE FALSE
  <2>1. /\ UNCHANGED <<tick, posted>>
        /\ queue' = queue \/ (queue' = [queue EXCEPT ![d] = queue[d] - 1] /\ queue[d] > 0)
    BY <1>5 DEF BiographyNext, BiographyReads, BiographyStored, BiographyFails
  <2> QED  BY <2>1
<1>6. CASE Stopped \/ Crash  BY <1>6 DEF Stopped, Crash, ForgetAll, NoTick
<1> QED  BY <1>1, <1>2, <1>3, <1>4, <1>5, <1>6 DEF Next, HandlerNext

\* Once the llm-pause handler has answered, neither the tick's gates nor a drain
\* let another biography through.
THEOREM PauseHolds == Spec => PauseHonoured
<1>1. ASSUME IInv, [Next]_vars
      PROVE  [(\E c \in Chars : Passed(c)' > Passed(c)) =>
                 ~paused \/ handler = "pausing" \/ misled']_vars
  <2> SUFFICES ASSUME NEW c \in Chars, Passed(c)' > Passed(c), Next, ~misled'
               PROVE  ~paused \/ handler = "pausing"
    BY <1>1 DEF vars
  <2>1. CASE TickGate /\ ~IsLlmPaused
    <3>1. ~misled  BY <2>1 DEF TickGate
    <3> QED  BY <1>1, <2>1, <3>1, GateHonest
  <2>2. CASE TickStore /\ ~tick.pause
    BY <1>1, <2>2 DEF TickStore, IInv, TypeOK
  <2>3. ASSUME ~misled, NEW S \in SUBSET Chars, Drain(S), queue'[c] > queue[c]
        PROVE  ~paused \/ handler = "pausing"
    BY <1>1, <2>3, DrainShape, GateHonest DEF IInv
  <2> QED  BY <1>1, <2>1, <2>2, <2>3, LetThrough
<1> QED  BY <1>1, InitIInv, NextIInv, PTL DEF Spec, PauseHonoured

=============================================================================
