--------------------------- MODULE ChronicleProofs ---------------------------
(***************************************************************************)
(* What the chronicle tells, for any characters, any number of moves of    *)
(* the game between any number of saves.                                   *)
(***************************************************************************)
EXTENDS Chronicle, FiniteSetTheorems, WellFoundedInduction, TLAPS

-----------------------------------------------------------------------------
(* The events of a diff.                                                   *)

\* An event of character id that is not its death.
LivingEvent(id, e) ==
  /\ e = [c |-> e.c, t |-> e.t, d |-> e.d, p |-> e.p, with |-> e.with]
  /\ e.c = id /\ e.t # "death"

\* One that tells of no title, war, artifact or court position either.
Told == {"death", "title_acquired", "title_created", "title_relinquished",
         "war_declared", "war_joined", "war_left", "war_concluded",
         "artifact_acquired", "artifact_lost", "camp_companion_joined", "camp_companion_left"}
PlainEvent(id, e) ==
  /\ e = [c |-> e.c, t |-> e.t, d |-> e.d, p |-> e.p, with |-> e.with]
  /\ e.c = id /\ e.t \notin Told

LEMMA TraitsPlain ==
  ASSUME NEW id, NEW p, NEW c, NEW e \in DiffTraits(id, p, c)
  PROVE  PlainEvent(id, e)
BY DEF DiffTraits, Events, Event, With, PlainEvent, Told

LEMMA ConcubinesPlain ==
  ASSUME NEW id, NEW p, NEW c, NEW curr, NEW e \in DiffConcubines(id, p, c, curr)
  PROVE  PlainEvent(id, e)
BY DEF DiffConcubines, EventsWith, With, PlainEvent, Told

LEMMA PerksPlain ==
  ASSUME NEW id, NEW p, NEW c, NEW e \in DiffModifiersAndPerks(id, p, c)
  PROVE  PlainEvent(id, e)
<1>1. \E x : \E t \in {"modifier_acquired", "perk_acquired", "lifestyle_committed"} : e = Event(id, t, x)
  BY Zenon DEF DiffModifiersAndPerks, Events
<1> QED  BY <1>1 DEF Event, With, PlainEvent, Told

LEMMA MiscarriagePlain ==
  ASSUME NEW id, NEW p, NEW c, NEW memories, NEW e \in DiffMiscarriage(id, p, c, memories)
  PROVE  PlainEvent(id, e)
BY DEF DiffMiscarriage, Miscarriage, With, PlainEvent, Told

LEMMA StatesPlain ==
  ASSUME NEW id, NEW p, NEW c, NEW e \in DiffStateChanges(id, p, c)
  PROVE  PlainEvent(id, e)
BY DEF DiffStateChanges, Event, With, PlainEvent, Told

LEMMA TitlesLiving ==
  ASSUME NEW id, NEW prv, NEW curr, NEW e \in DiffTitles(id, prv, curr)
  PROVE  LivingEvent(id, e) /\ e.d = None /\ e.t \in {"title_created", "title_acquired", "title_relinquished"}
<1>1. \E x, r : \E t \in {"title_created", "title_acquired", "title_relinquished"} : e = With(id, t, x, r)
  BY Zenon DEF DiffTitles, Created, Acquired, Relinquished, Events, EventsWith, Event
<1> QED  BY <1>1 DEF With, LivingEvent

LEMMA AlliancesPlain ==
  ASSUME NEW id, NEW c, NEW prv, NEW curr, NEW e \in DiffAlliances(id, c, prv, curr)
  PROVE  PlainEvent(id, e)
BY DEF DiffAlliances, SetDiffer, Events, Event, With, PlainEvent, Told

LEMMA ArtifactsLiving ==
  ASSUME NEW id, NEW c, NEW prv, NEW curr, NEW e \in DiffArtifacts(id, c, prv, curr)
  PROVE  LivingEvent(id, e) /\ e.d = None /\ e.t \in {"artifact_acquired", "artifact_lost"}
BY DEF DiffArtifacts, SetDiffer, Events, Event, With, LivingEvent

LEMMA CourtLiving ==
  ASSUME NEW id, NEW c, NEW prv, NEW curr, NEW e \in DiffCourtPositions(id, c, prv, curr)
  PROVE  LivingEvent(id, e) /\ e.d = None /\ e.t \in {"camp_companion_joined", "camp_companion_left"}
BY DEF DiffCourtPositions, SetDiffer, Events, Event, With, LivingEvent

LEMMA HappeningsPlain ==
  ASSUME NEW id, NEW c, NEW prv, NEW curr, NEW e \in DiffHappenings(id, c, prv, curr)
  PROVE  PlainEvent(id, e)
BY DEF DiffHappenings, SetDiffer, Events, Event, With, PlainEvent, Told

LEMMA WarsLiving ==
  ASSUME NEW id, NEW c, NEW prv, NEW curr, NEW e \in DiffWars(id, c, prv, curr)
  PROVE  LivingEvent(id, e) /\ e.d = None /\ e.t \in {"war_declared", "war_joined", "war_left", "war_concluded"}
BY DEF DiffWars, EventsWith, With, LivingEvent

LEMMA DynastyPlain ==
  ASSUME NEW id, NEW c, NEW prv, NEW curr, NEW e \in DiffDynasty(id, c, prv, curr)
  PROVE  PlainEvent(id, e)
BY DEF DiffDynasty, Events, Event, With, PlainEvent, Told

LEMMA ContractsPlain ==
  ASSUME NEW id, NEW c, NEW prv, NEW curr, NEW e \in DiffContracts(id, c, prv, curr)
  PROVE  PlainEvent(id, e)
BY DEF DiffContracts, ContractEvents, Events, Event, With, PlainEvent, Told

LEMMA DomicilePlain ==
  ASSUME NEW id, NEW c, NEW prv, NEW curr, NEW e \in DiffDomicile(id, c, prv, curr)
  PROVE  PlainEvent(id, e)
BY DEF DiffDomicile, Event, With, PlainEvent, Told

LEMMA ConstructionsPlain ==
  ASSUME NEW id, NEW c, NEW prv, NEW curr, NEW e \in DiffConstructions(id, c, prv, curr)
  PROVE  PlainEvent(id, e)
BY DEF DiffConstructions, Events, Event, With, PlainEvent, Told

LEMMA StreamsLiving ==
  ASSUME NEW id, NEW c, NEW prv, NEW curr, NEW e \in StreamDiffers(id, c, prv, curr)
  PROVE  LivingEvent(id, e)
BY AlliancesPlain, ArtifactsLiving, CourtLiving, WarsLiving, DynastyPlain, HappeningsPlain,
   ContractsPlain, DomicilePlain, ConstructionsPlain DEF StreamDiffers, PlainEvent, LivingEvent, Told

LEMMA MemoryPlain ==
  ASSUME NEW id, NEW m, NEW curr
  PROVE  PlainEvent(id, MakeVanillaMemory(id, m, curr))
<1>1. \E x, r, d : MakeVanillaMemory(id, m, curr) = [With(id, "vanilla_memory", x, r) EXCEPT !.d = d]
  BY Zenon DEF MakeVanillaMemory
<1> QED  BY <1>1 DEF With, PlainEvent, Told

LEMMA GovernmentPlain ==
  ASSUME NEW id, NEW p, NEW c, NEW e \in GovernmentEvents(id, p, c)
  PROVE  PlainEvent(id, e)
BY DEF GovernmentEvents, Event, With, PlainEvent, Told

\* What a character's own comparison tells is its death, when one appears, and
\* what is no death.
LEMMA OneCharacter ==
  ASSUME NEW id, NEW p, NEW c, NEW curr, NEW e \in DiffOneCharacter(id, p, c, curr)
  PROVE  PlainEvent(id, e) \/ (DeathAppears(p, c) /\ e \in MakeDeath(id, c))
<1> DEFINE Own == {"travel", "marriage", "divorce", "nickname", "decision_taken"}
<1>1. PICK A \in {IF DeathAppears(p, c) THEN MakeDeath(id, c) ELSE {},
                  IF /\ ~c.is_dead
                     /\ None \notin {p.location, c.location}
                     /\ p.location # c.location
                    THEN {Event(id, "travel", [from_location |-> p.location, to_location |-> c.location])}
                    ELSE {},
                  EventsWith(id, "marriage", NewSpouses(p, c),
                             LAMBDA s : [spouse_character_id |-> s], LAMBDA s : {<<"spouse", s>>}),
                  EventsWith(id, "divorce", c.family.former_spouses \ p.family.former_spouses,
                             LAMBDA s : [former_spouse_character_id |-> s],
                             LAMBDA s : {<<"former_spouse", s>>}),
                  IF ~c.is_dead /\ p.nickname # c.nickname
                    THEN {Event(id, "nickname", [from_nickname |-> p.nickname, to_nickname |-> c.nickname])}
                    ELSE {},
                  IF ~c.is_dead /\ p.government # c.government
                    THEN GovernmentEvents(id, p, c) ELSE {},
                  {MakeVanillaMemory(id, m, curr) : m \in c.memories \ p.memories},
                  Events(id, "decision_taken", {d \in c.decisions \ p.decisions : d[1] \in Interesting},
                         LAMBDA d : [decision_id |-> d[1], cooldown_end_date |-> d[2]])} : e \in A
  BY Zenon DEF DiffOneCharacter
<1>2. e \in GovernmentEvents(id, p, c) => PlainEvent(id, e)
  BY GovernmentPlain
<1>3. ASSUME NEW x, NEW r, NEW t \in Own, e = With(id, t, x, r)
      PROVE  PlainEvent(id, e)
  BY <1>3 DEF With, PlainEvent, Told
<1>4. ASSUME NEW x, NEW t \in Own, e = Event(id, t, x)
      PROVE  PlainEvent(id, e)
  BY <1>4, <1>3 DEF Event
<1>5. CASE A = IF DeathAppears(p, c) THEN MakeDeath(id, c) ELSE {}
  BY <1>1, <1>5, Zenon
<1>6. CASE A = IF /\ ~c.is_dead
                  /\ None \notin {p.location, c.location}
                  /\ p.location # c.location
               THEN {Event(id, "travel", [from_location |-> p.location, to_location |-> c.location])}
               ELSE {}
  BY <1>1, <1>4, <1>6, Zenon
<1>7. CASE A = EventsWith(id, "marriage", NewSpouses(p, c),
                          LAMBDA s : [spouse_character_id |-> s], LAMBDA s : {<<"spouse", s>>})
  BY <1>1, <1>3, <1>7, Zenon DEF EventsWith
<1>8. CASE A = EventsWith(id, "divorce", c.family.former_spouses \ p.family.former_spouses,
                          LAMBDA s : [former_spouse_character_id |-> s],
                          LAMBDA s : {<<"former_spouse", s>>})
  BY <1>1, <1>3, <1>8, Zenon DEF EventsWith
<1>9. CASE A = IF ~c.is_dead /\ p.nickname # c.nickname
               THEN {Event(id, "nickname", [from_nickname |-> p.nickname, to_nickname |-> c.nickname])}
               ELSE {}
  BY <1>1, <1>4, <1>9, Zenon
<1>10. CASE A = IF ~c.is_dead /\ p.government # c.government THEN GovernmentEvents(id, p, c) ELSE {}
  BY <1>1, <1>2, <1>10, Zenon
<1>11. CASE A = {MakeVanillaMemory(id, m, curr) : m \in c.memories \ p.memories}
  <2>1. PICK m : e = MakeVanillaMemory(id, m, curr)
    BY <1>1, <1>11, Zenon
  <2> QED  BY <2>1, MemoryPlain, Zenon
<1>12. CASE A = Events(id, "decision_taken", {d \in c.decisions \ p.decisions : d[1] \in Interesting},
                       LAMBDA d : [decision_id |-> d[1], cooldown_end_date |-> d[2]])
  BY <1>1, <1>4, <1>12, Zenon DEF Events
<1> QED  BY <1>1, <1>5, <1>6, <1>7, <1>8, <1>9, <1>10, <1>11, <1>12, Zenon

\* The death of a character is one event, of that character and that type.
LEMMA DeathEvent ==
  ASSUME NEW id, NEW c
  PROVE  \E e : /\ MakeDeath(id, c) = {e}
                /\ e = [c |-> id, t |-> "death", d |-> e.d, p |-> e.p, with |-> e.with]
<1>1. PICK x, r, date : MakeDeath(id, c) = {[With(id, "death", x, r) EXCEPT !.d = date]}
  BY Zenon DEF MakeDeath
<1>2. PICK r2 : With(id, "death", x, r) = [c |-> id, t |-> "death", d |-> None, p |-> x, with |-> r2]
  BY DEF With
<1>3. [With(id, "death", x, r) EXCEPT !.d = date]
        = [c |-> id, t |-> "death", d |-> date, p |-> x, with |-> r2]
  BY <1>2
<1> QED  BY <1>1, <1>3

\* When a diff tells the death of a character.
TellsDeath(id, prv, curr) ==
  /\ id \in DOMAIN curr.characters
  /\ IF id \in DOMAIN prv.characters
     THEN DeathAppears(prv.characters[id], curr.characters[id])
     ELSE Died(curr.characters[id])

\* diff_snapshots tells a death exactly then, once.
LEMMA TrackedDeath ==
  ASSUME NEW id, NEW prv, NEW curr
  PROVE  /\ TellsDeath(id, prv, curr) =>
              MakeDeath(id, curr.characters[id]) \subseteq DiffTracked(id, prv, curr)
         /\ \A e \in DiffTracked(id, prv, curr) :
              \/ LivingEvent(id, e)
              \/ TellsDeath(id, prv, curr) /\ e \in MakeDeath(id, curr.characters[id])
<1> DEFINE c == curr.characters[id]
           p == prv.characters[id]
<1>1. CASE id \notin DOMAIN curr.characters
  BY <1>1 DEF DiffTracked, TellsDeath
<1>2. CASE id \in DOMAIN curr.characters /\ id \notin DOMAIN prv.characters
  BY <1>2 DEF DiffTracked, TellsDeath, Died
<1>3. CASE id \in DOMAIN curr.characters /\ id \in DOMAIN prv.characters
  <2>1. DiffTracked(id, prv, curr) =
          UNION {DiffOneCharacter(id, p, c, curr), DiffTitles(id, prv, curr),
                 StreamDiffers(id, c, prv, curr), DiffTraits(id, p, c),
                 DiffConcubines(id, p, c, curr), DiffModifiersAndPerks(id, p, c),
                 DiffMiscarriage(id, p, c, curr.memories), DiffStateChanges(id, p, c)}
    BY <1>3, Zenon DEF DiffTracked
  <2>2. TellsDeath(id, prv, curr) <=> DeathAppears(p, c)
    BY <1>3 DEF TellsDeath
  <2>3. DeathAppears(p, c) => MakeDeath(id, c) \subseteq DiffOneCharacter(id, p, c, curr)
    BY Zenon DEF DiffOneCharacter
  <2> HIDE DEF p, c
  <2>4. ASSUME NEW e \in DiffTracked(id, prv, curr)
        PROVE  LivingEvent(id, e) \/ (DeathAppears(p, c) /\ e \in MakeDeath(id, c))
    BY <2>1, OneCharacter, TitlesLiving, StreamsLiving, TraitsPlain, ConcubinesPlain, PerksPlain,
       MiscarriagePlain, StatesPlain DEF PlainEvent, LivingEvent, Told
  <2>5. DeathAppears(p, c) => MakeDeath(id, c) \subseteq DiffTracked(id, prv, curr)
    BY <2>1, <2>3
  <2> QED  BY <2>2, <2>4, <2>5 DEF c
<1> QED  BY <1>1, <1>2, <1>3

-----------------------------------------------------------------------------
(* The game.  None and Junk are values that no record, number, character or  *)
(* event type equals.                                                      *)

Atoms ==
  /\ \A f : f = [x \in DOMAIN f |-> f[x]] => f \notin {None, Junk}
  /\ {None, Junk} \cap (Nat \cup Char \cup Told) = {}

Stages == {"alive", "dying", "unprunable", "prunable", "gone"}

\* What the proofs need to know of a game: how far each life has come, and the
\* slots of the tables a character may hold something of.
Tables == {"titles", "wars", "artifacts", "court"}
WorldOK(w) ==
  /\ {"date", "life", "died"} \cup Tables \subseteq DOMAIN w
  /\ w.date \in Nat
  /\ w.life \in [Char -> Stages]
  /\ w.died \in [Char -> Nat \cup {None}]
  /\ \A c \in Char : w.life[c] = "alive" <=> w.died[c] = None
  /\ DOMAIN w.titles = 1..4
  /\ DOMAIN w.wars = 1..2
  /\ DOMAIN w.artifacts = 1..2
  /\ DOMAIN w.court = {1}
  /\ w.titles[3] = Land(3, None)

\* A move that ends no life.
Kept(w, v) ==
  /\ DOMAIN v = DOMAIN w
  /\ v.date = w.date /\ v.life = w.life /\ v.died = w.died
  /\ \A f \in Tables : DOMAIN v[f] = DOMAIN w[f]
  /\ v.titles[3] = w.titles[3]

LEMMA KeptOK ==
  ASSUME NEW w, NEW v, WorldOK(w), Kept(w, v)
  PROVE  WorldOK(v)
BY DEF WorldOK, Kept, Tables

LEMMA DidKept ==
  ASSUME NEW w, NEW v, NEW h, WorldOK(w), Kept(w, v)
  PROVE  Kept(w, Did(v, h))
<1>1. PICK x : x = v.done (+) SetToBag(h)
  OBVIOUS
<1>2. Did(v, h) = [v EXCEPT !.done = x]
  BY <1>1 DEF Did
<1> QED  BY <1>2 DEF WorldOK, Kept, Tables

LEMMA KeptField ==
  ASSUME NEW w, NEW f, NEW x, WorldOK(w), f \notin {"date", "life", "died"} \cup Tables
  PROVE  Kept(w, [w EXCEPT ![f] = x])
BY DEF WorldOK, Kept, Tables

LEMMA KeptRow ==
  ASSUME NEW w, NEW f \in Tables, NEW k, NEW x, WorldOK(w), f = "titles" => k # 3
  PROVE  Kept(w, [w EXCEPT ![f][k] = x])
BY DEF WorldOK, Kept, Tables

LEMMA KeptEntry ==
  ASSUME NEW w, NEW f, NEW k, NEW x, WorldOK(w), f \notin {"date", "life", "died"} \cup Tables
  PROVE  Kept(w, [w EXCEPT ![f][k] = x])
BY DEF WorldOK, Kept, Tables

LEMMA RememberKept ==
  ASSUME NEW w, NEW c, NEW m, NEW t, NEW roles, WorldOK(w)
  PROVE  Kept(w, Remember(w, c, m, t, roles))
<1>1. PICK x, y : Remember(w, c, m, t, roles) = [w EXCEPT !.memories[c] = x, !.memory[m] = y]
  BY Zenon DEF Remember
<1> QED  BY <1>1 DEF WorldOK, Kept, Tables

LEMMA PersonKept ==
  ASSUME NEW w, WorldOK(w), NEW v \in PersonMoves(w)
  PROVE  Kept(w, v)
<1>1. PICK c : v \in Turns(w, c)
  BY Zenon DEF PersonMoves
<1> QED  BY <1>1 DEF Turns, WorldOK, Kept, Tables

LEMMA CourtKept ==
  ASSUME NEW w, WorldOK(w), NEW v \in CourtMoves(w)
  PROVE  Kept(w, v)
<1>1. PICK c : v \in Careers(w, c)
  BY Zenon DEF CourtMoves
<1> QED  BY <1>1 DEF Careers, WorldOK, Kept, Tables

LEMMA BondKept ==
  ASSUME NEW w, WorldOK(w), NEW v \in BondMoves(w)
  PROVE  Kept(w, v)
BY DEF BondMoves, WorldOK, Kept, Tables

LEMMA TitleKept ==
  ASSUME NEW w, WorldOK(w), NEW v \in TitleMoves(w)
  PROVE  Kept(w, v)
BY DEF TitleMoves, WorldOK, Kept, Tables

LEMMA DynastyKept ==
  ASSUME NEW w, WorldOK(w), NEW v \in DynastyMoves(w)
  PROVE  Kept(w, v)
BY DEF DynastyMoves, WorldOK, Kept, Tables

LEMMA MourningKept ==
  ASSUME NEW w, WorldOK(w), NEW v \in MourningMoves(w)
  PROVE  Kept(w, v)
<1>1. \E c, m, d : v = Mourn(w, c, m, d)
  BY DEF MourningMoves
<1> QED  BY <1>1, RememberKept DEF Mourn

LEMMA DeclareKept ==
  ASSUME NEW w, WorldOK(w), NEW c, NEW d, NEW k
  PROVE  Kept(w, Declare(w, c, d, k))
<1>1. PICK u, x, h : u = [w EXCEPT !.wars[k] = x] /\ Declare(w, c, d, k) = Did(u, h)
  BY Zenon DEF Declare
<1>2. Kept(w, u)
  BY <1>1 DEF WorldOK, Kept, Tables
<1> QED  BY <1>1, <1>2, DidKept

LEMMA WarKept ==
  ASSUME NEW w, WorldOK(w), NEW v \in WarMoves(w)
  PROVE  Kept(w, v)
<1>1. \/ \E c, d, k : v = Declare(w, c, d, k)
      \/ \E c, k : v \in Musters(w, c, k)
      \/ \E k : v = [w EXCEPT !.wars[k] = Junk]
  BY DEF WarMoves
<1>2. ASSUME NEW c, NEW k, v \in Musters(w, c, k)  PROVE  Kept(w, v)
  BY <1>2 DEF Musters, WorldOK, Kept, Tables
<1>3. ASSUME NEW k, v = [w EXCEPT !.wars[k] = Junk]  PROVE  Kept(w, v)
  BY <1>3 DEF WorldOK, Kept, Tables
<1> QED  BY <1>1, <1>2, <1>3, DeclareKept

LEMMA SiteKept ==
  ASSUME NEW w, WorldOK(w), NEW c, NEW v \in SiteMoves(w, c)
  PROVE  Kept(w, v)
<1>1. PICK u, x, y, h : \/ v = [w EXCEPT !.sites[Site] = x]
                        \/ u = [w EXCEPT !.buildings[Site] = x, !.sites[Site] = y] /\ v = Did(u, h)
  BY Zenon DEF SiteMoves
<1>2. v = [w EXCEPT !.sites[Site] = x] => Kept(w, v)
  BY DEF WorldOK, Kept, Tables
<1>3. u = [w EXCEPT !.buildings[Site] = x, !.sites[Site] = y] => Kept(w, u)
  BY DEF WorldOK, Kept, Tables
<1> QED  BY <1>1, <1>2, <1>3, DidKept

LEMMA ContractKept ==
  ASSUME NEW w, WorldOK(w), NEW c, NEW v \in ContractMoves(w, c)
  PROVE  Kept(w, v)
<1>1. PICK u, x, h : \/ v = [w EXCEPT !.contracts[1] = x] \/ v = [w EXCEPT !.contracts = x]
                     \/ u = [w EXCEPT !.contracts[1].status = x] /\ v = Did(u, h)
  BY Zenon DEF ContractMoves
<1>2. v = [w EXCEPT !.contracts[1] = x] \/ v = [w EXCEPT !.contracts = x] => Kept(w, v)
  BY DEF WorldOK, Kept, Tables
<1>3. u = [w EXCEPT !.contracts[1].status = x] => Kept(w, u)
  BY DEF WorldOK, Kept, Tables
<1> QED  BY <1>1, <1>2, <1>3, DidKept

LEMMA WorkKept ==
  ASSUME NEW w, WorldOK(w), NEW v \in WorkMoves(w)
  PROVE  Kept(w, v)
<1>1. PICK c : v \in SiteMoves(w, c) \/ v \in ContractMoves(w, c) \/ v \in Occasions(w, c)
  BY Zenon DEF WorkMoves
<1>2. v \in Occasions(w, c) => Kept(w, v)
  BY DEF Occasions, WorldOK, Kept, Tables
<1> QED  BY <1>1, <1>2, SiteKept, ContractKept

LEMMA CarryKept ==
  ASSUME NEW w, WorldOK(w), NEW c, NEW v \in Carry(w, c)
  PROVE  Kept(w, v)
<1>1. PICK m, r, u, x, h : \/ r = Remember(w, c, m, "child_born", << >>) /\ v = [r EXCEPT !.traits[c] = x]
                           \/ u = [w EXCEPT !.traits[c] = x] /\ v = Did(u, h)
                           \/ v = [w EXCEPT !.traits[c] = x]
  BY Zenon DEF Carry, Birth, Miscarry
<1>2. Kept(w, r) /\ v = [r EXCEPT !.traits[c] = x] => Kept(w, v)
  BY DEF WorldOK, Kept, Tables
<1>3. u = [w EXCEPT !.traits[c] = x] => Kept(w, u)
  BY DEF WorldOK, Kept, Tables
<1>4. v = [w EXCEPT !.traits[c] = x] => Kept(w, v)
  BY DEF WorldOK, Kept, Tables
<1> QED  BY <1>1, <1>2, <1>3, <1>4, RememberKept, DidKept

LEMMA PartKept ==
  ASSUME NEW w, WorldOK(w), NEW c, NEW d
  PROVE  Kept(w, Part(w, c, d)) /\ Kept(w, Split(w, c, d)) /\ Kept(w, Wed(w, c, d))
<1>1. Kept(w, Part(w, c, d))
  <2>1. PICK x, y, p, q : Part(w, c, d) = [w EXCEPT !.spouses[c] = x, !.spouses[d] = y,
                                                    !.primary[c] = p, !.primary[d] = q]
    BY Zenon DEF Part
  <2> QED  BY <2>1 DEF WorldOK, Kept, Tables
<1>2. Kept(w, Split(w, c, d))
  <2>1. PICK u, x, y, h : /\ u = [Part(w, c, d) EXCEPT !.former[c] = x, !.former[d] = y]
                          /\ Split(w, c, d) = Did(u, h)
    BY Zenon DEF Split
  <2>2. Kept(w, u)
    BY <1>1, <2>1 DEF WorldOK, Kept, Tables
  <2> QED  BY <2>1, <2>2, DidKept
<1>3. Kept(w, Wed(w, c, d))
  <2>1. PICK u, x, y, p, q, h :
          /\ u = [w EXCEPT !.spouses[c] = x, !.spouses[d] = y, !.primary[c] = p, !.primary[d] = q]
          /\ Wed(w, c, d) = Did(u, h)
    BY Zenon DEF Wed
  <2>2. Kept(w, u)
    BY <2>1 DEF WorldOK, Kept, Tables
  <2> QED  BY <2>1, <2>2, DidKept
<1> QED  BY <1>1, <1>2, <1>3

LEMMA FamilyKept ==
  ASSUME NEW w, WorldOK(w), NEW v \in FamilyMoves(w)
  PROVE  Kept(w, v)
<1>1. PICK c : v \in Carry(w, c) \/ \E d : v \in Matches(w, c, d)
  BY DEF FamilyMoves
<1>2. ASSUME NEW d, v \in Matches(w, c, d)  PROVE  Kept(w, v)
  <2>1. \/ v \in {Part(w, c, d), Split(w, c, d), Wed(w, c, d)}
        \/ \E x : v = [w EXCEPT !.concubines[c] = x]
    BY <1>2, Zenon DEF Matches
  <2>2. ASSUME NEW x, v = [w EXCEPT !.concubines[c] = x]  PROVE  Kept(w, v)
    BY <2>2 DEF WorldOK, Kept, Tables
  <2> QED  BY <2>1, <2>2, PartKept
<1> QED  BY <1>1, <1>2, CarryKept

\* One life goes a stage further, and a first stage past "alive" sets its date.
Passed(w, v) ==
  /\ DOMAIN v = DOMAIN w
  /\ v.date = w.date
  /\ \A f \in Tables : v[f] = w[f]
  /\ \E c \in Char, s \in Stages \ {"alive"} :
       /\ w.life[c] # "gone"
       /\ w.life[c] = "dying" => s \in {"unprunable", "prunable"}
       /\ w.life[c] \in {"unprunable", "prunable"} => s = "gone"
       /\ v.life = [w.life EXCEPT ![c] = s]
       /\ v.died = IF w.died[c] = None THEN [w.died EXCEPT ![c] = w.date] ELSE w.died

LEMMA DeathPassed ==
  ASSUME NEW w, WorldOK(w), NEW v \in Deaths(w)
  PROVE  Passed(w, v)
<1>1. PICK c \in Tracked : \E s \in NextStage[w.life[c]] : \E k : v = Die(w, c, s, k)
  BY DEF Deaths
<1>2. PICK s \in NextStage[w.life[c]] : \E k : v = Die(w, c, s, k)
  BY <1>1
<1>3. PICK k : v = Die(w, c, s, k)
  BY <1>2
<1>4. c \in Char /\ w.life[c] \in Stages
  BY TrackedAssumption DEF WorldOK
<1>5. /\ s \in Stages \ {"alive"}
      /\ w.life[c] # "gone"
      /\ w.life[c] = "dying" => s \in {"unprunable", "prunable"}
      /\ w.life[c] \in {"unprunable", "prunable"} => s = "gone"
  BY <1>4 DEF NextStage, Stages
<1>6. CASE w.died[c] = None
  BY <1>3, <1>4, <1>5, <1>6 DEF Die, WorldOK, Passed, Tables
<1>7. CASE w.died[c] # None
  BY <1>3, <1>4, <1>5, <1>7 DEF Die, WorldOK, Passed, Tables
<1> QED  BY <1>6, <1>7

LEMMA PassedOK ==
  ASSUME Atoms, NEW w, NEW v, WorldOK(w), Passed(w, v)
  PROVE  WorldOK(v)
<1>1. PICK c \in Char, s \in Stages \ {"alive"} :
       /\ w.life[c] # "gone"
       /\ v.life = [w.life EXCEPT ![c] = s]
       /\ v.died = IF w.died[c] = None THEN [w.died EXCEPT ![c] = w.date] ELSE w.died
  BY DEF Passed
<1>2. v.life \in [Char -> Stages] /\ v.died \in [Char -> Nat \cup {None}]
  BY <1>1 DEF WorldOK
<1>3. \A x \in Char : v.life[x] = "alive" <=> v.died[x] = None
  <2>1. w.date # None
    BY DEF WorldOK, Atoms
  <2> QED  BY <1>1, <2>1 DEF WorldOK
<1> QED  BY <1>2, <1>3 DEF WorldOK, Passed, Tables

\* Only a death ends a life.
LEMMA LivingKept ==
  ASSUME NEW w, WorldOK(w), facet \in Facets, NEW v \in Moves(w), v \notin Deaths(w)
  PROVE  Kept(w, v)
<1>1. ASSUME NEW c, v = [w EXCEPT !.location[c] = 3 - @]  PROVE  Kept(w, v)
  BY <1>1 DEF WorldOK, Kept, Tables
<1>2. CASE facet = "life"
  BY <1>1, <1>2, Zenon DEF Moves
<1>3. CASE facet = "court"
  BY <1>3, CourtKept DEF Moves
<1>4. CASE facet = "family"
  BY <1>4, FamilyKept DEF Moves
<1>5. CASE facet = "mourning"
  BY <1>5, MourningKept DEF Moves
<1>6. CASE facet = "titles"
  BY <1>6, TitleKept DEF Moves
<1>7. CASE facet = "wars"
  BY <1>7, WarKept DEF Moves
<1>8. CASE facet = "bonds"
  BY <1>8, BondKept DEF Moves
<1>9. CASE facet = "works"
  BY <1>9, WorkKept DEF Moves
<1>10. CASE facet = "dynasty"
  BY <1>10, DynastyKept DEF Moves
<1>11. CASE facet = "person"
  BY <1>11, PersonKept DEF Moves
<1> QED  BY <1>2, <1>3, <1>4, <1>5, <1>6, <1>7, <1>8, <1>9, <1>10, <1>11 DEF Facets

LEMMA MovesKept ==
  ASSUME NEW w, WorldOK(w), facet \in Facets, NEW v \in Moves(w)
  PROVE  Kept(w, v) \/ Passed(w, v)
BY LivingKept, DeathPassed

-----------------------------------------------------------------------------
(* The snapshot of a save.                                                 *)

LEMMA SlotEntry ==
  ASSUME Atoms, NEW r, r = [x \in DOMAIN r |-> r[x]]
  PROVE  r # None /\ CharacterEntry(<<r>>) = r /\ CharacterEntry(<<r, r>>) = r
<1>1. r # None /\ r # Junk
  BY DEF Atoms
<1>2. Records(<<r>>) = {1} /\ Records(<<r, r>>) = {1, 2}
  BY <1>1 DEF Records
<1>3. Max({1}) = 1 /\ Max({1, 2}) = 2
  BY DEF Max
<1> QED  BY <1>1, <1>2, <1>3 DEF CharacterEntry

LEMMA PersonEntry ==
  ASSUME Atoms, NEW w, NEW c
  PROVE  /\ Person(w, c) # None
         /\ CharacterEntry(<<Person(w, c)>>) = Person(w, c)
         /\ CharacterEntry(<<Person(w, c), Person(w, c)>>) = Person(w, c)
<1>1. Person(w, c) = [x \in DOMAIN Person(w, c) |-> Person(w, c)[x]]
  BY DEF Person
<1> QED  BY <1>1, SlotEntry

\* Who is in which bucket of the tree.
LEMMA Buckets ==
  ASSUME Atoms, NEW w
  PROVE  LET raw == Save(w)
             found(b) == {c \in DOMAIN raw[b] : CharacterEntry(raw[b][c]) # None}
         IN  /\ found("living") = {c \in Char : w.life[c] \in Walking}
             /\ found("dead_unprunable") = {c \in Char : w.life[c] = "unprunable"}
             /\ found("dead_prunable") = {c \in Char : w.life[c] = "prunable"}
             /\ \A c \in found("living") : CharacterEntry(raw["living"][c]) = Person(w, c)
             /\ \A c \in found("dead_unprunable") : CharacterEntry(raw["dead_unprunable"][c]) = Person(w, c)
             /\ \A c \in found("dead_prunable") : CharacterEntry(raw["dead_prunable"][c]) = Person(w, c)
<1> DEFINE raw == Save(w)
<1>1. raw["living"] = [c \in {x \in Char : w.life[x] \in Walking} |-> <<Person(w, c)>>]
  BY DEF Save
<1>2. raw["dead_unprunable"] =
        [c \in {x \in Char : w.life[x] \in {"unprunable"}} |-> <<Person(w, c), Person(w, c)>>]
  BY DEF Save
<1>3. raw["dead_prunable"] = [c \in {x \in Char : w.life[x] \in {"prunable"}} |-> <<Person(w, c)>>]
  BY DEF Save
<1> DEFINE found(b) == {c \in DOMAIN raw[b] : CharacterEntry(raw[b][c]) # None}
<1> HIDE DEF raw
<1>0. \A c : /\ Person(w, c) # None
            /\ CharacterEntry(<<Person(w, c)>>) = Person(w, c)
            /\ CharacterEntry(<<Person(w, c), Person(w, c)>>) = Person(w, c)
  BY PersonEntry
<1>4. /\ found("living") = {c \in Char : w.life[c] \in Walking}
      /\ \A c \in found("living") : CharacterEntry(raw["living"][c]) = Person(w, c)
  <2>1. DOMAIN raw["living"] = {c \in Char : w.life[c] \in Walking}
    BY <1>1
  <2>2. \A c \in DOMAIN raw["living"] : raw["living"][c] = <<Person(w, c)>>
    BY <1>1
  <2> QED  BY <1>0, <2>1, <2>2
<1>5. /\ found("dead_unprunable") = {c \in Char : w.life[c] = "unprunable"}
      /\ \A c \in found("dead_unprunable") : CharacterEntry(raw["dead_unprunable"][c]) = Person(w, c)
  <2>1. DOMAIN raw["dead_unprunable"] = {c \in Char : w.life[c] = "unprunable"}
    BY <1>2
  <2>2. \A c \in DOMAIN raw["dead_unprunable"] : raw["dead_unprunable"][c] = <<Person(w, c), Person(w, c)>>
    BY <1>2
  <2> QED  BY <1>0, <2>1, <2>2
<1>6. /\ found("dead_prunable") = {c \in Char : w.life[c] = "prunable"}
      /\ \A c \in found("dead_prunable") : CharacterEntry(raw["dead_prunable"][c]) = Person(w, c)
  <2>1. DOMAIN raw["dead_prunable"] = {c \in Char : w.life[c] = "prunable"}
    BY <1>3
  <2>2. \A c \in DOMAIN raw["dead_prunable"] : raw["dead_prunable"][c] = <<Person(w, c)>>
    BY <1>3
  <2> QED  BY <1>0, <2>1, <2>2
<1> QED  BY <1>4, <1>5, <1>6, Zenon DEF raw

\* The snapshot of a save knows everyone who is not pruned, from the record of
\* the one bucket the character is in.
LEMMA Snapshot ==
  ASSUME Atoms, NEW w, WorldOK(w)
  PROVE  /\ ParseSave(Save(w)).date = w.date
         /\ DOMAIN ParseSave(Save(w)).characters = {c \in Char : w.life[c] # "gone"}
         /\ \A c \in Char : w.life[c] # "gone" =>
              ParseSave(Save(w)).characters[c]
                = ParseCharacter(Person(w, c), w.life[c] \notin Walking, w.memory)
<1> DEFINE raw == Save(w)
           found(b) == {c \in DOMAIN raw[b] : CharacterEntry(raw[b][c]) # None}
           last(c) == CHOOSE i \in 1..3 : /\ c \in found(Bucket[i])
                                          /\ \A j \in (i + 1)..3 : c \notin found(Bucket[j])
           all == UNION {found(Bucket[i]) : i \in 1..3}
<1>1. raw.date = w.date /\ raw.memories = w.memory
  BY DEF Save
<1>2. ParseCharacters(raw) =
        [c \in all |-> ParseCharacter(CharacterEntry(raw[Bucket[last(c)]][c]), last(c) > 1, raw.memories)]
  BY Zenon DEF ParseCharacters
<1>3. /\ found("living") = {c \in Char : w.life[c] \in Walking}
      /\ found("dead_unprunable") = {c \in Char : w.life[c] = "unprunable"}
      /\ found("dead_prunable") = {c \in Char : w.life[c] = "prunable"}
      /\ \A c \in found("living") : CharacterEntry(raw["living"][c]) = Person(w, c)
      /\ \A c \in found("dead_unprunable") : CharacterEntry(raw["dead_unprunable"][c]) = Person(w, c)
      /\ \A c \in found("dead_prunable") : CharacterEntry(raw["dead_prunable"][c]) = Person(w, c)
  BY Buckets
<1>4. Bucket[1] = "living" /\ Bucket[2] = "dead_unprunable" /\ Bucket[3] = "dead_prunable"
  BY DEF Bucket
<1> HIDE DEF raw, found
<1>5. all = {c \in Char : w.life[c] # "gone"}
  <2>1. all = found("living") \cup found("dead_unprunable") \cup found("dead_prunable")
    BY <1>4
  <2> QED  BY <2>1, <1>3 DEF WorldOK, Stages, Walking
<1>6. ASSUME NEW c \in Char, w.life[c] # "gone"
      PROVE  /\ last(c) > 1 <=> w.life[c] \notin Walking
             /\ CharacterEntry(raw[Bucket[last(c)]][c]) = Person(w, c)
  <2>1. w.life[c] \in Walking \cup {"unprunable", "prunable"}
    BY <1>6 DEF WorldOK, Stages, Walking
  <2>2. CASE w.life[c] \in Walking
    <3>1. c \in found(Bucket[1]) /\ c \notin found(Bucket[2]) /\ c \notin found(Bucket[3])
      BY <1>3, <1>4, <2>2 DEF Walking
    <3>2. last(c) = 1
      BY <3>1
    <3> QED  BY <1>3, <1>4, <2>2, <3>1, <3>2
  <2>3. CASE w.life[c] = "unprunable"
    <3>1. c \notin found(Bucket[1]) /\ c \in found(Bucket[2]) /\ c \notin found(Bucket[3])
      BY <1>3, <1>4, <2>3 DEF Walking
    <3>2. last(c) = 2
      BY <3>1
    <3> QED  BY <1>3, <1>4, <2>3, <3>1, <3>2 DEF Walking
  <2>4. CASE w.life[c] = "prunable"
    <3>1. c \notin found(Bucket[1]) /\ c \notin found(Bucket[2]) /\ c \in found(Bucket[3])
      BY <1>3, <1>4, <2>4 DEF Walking
    <3>2. last(c) = 3
      BY <3>1
    <3> QED  BY <1>3, <1>4, <2>4, <3>1, <3>2 DEF Walking
  <2> QED  BY <2>1, <2>2, <2>3, <2>4
<1>7. ParseSave(raw).date = raw.date /\ ParseSave(raw).characters = ParseCharacters(raw)
  BY Zenon DEF ParseSave
<1> HIDE DEF all, last
<1>8. ASSUME NEW c \in Char, w.life[c] # "gone"
      PROVE  ParseCharacters(raw)[c] = ParseCharacter(Person(w, c), w.life[c] \notin Walking, w.memory)
  BY <1>1, <1>2, <1>5, <1>6, <1>8
<1>9. DOMAIN ParseCharacters(raw) = {c \in Char : w.life[c] # "gone"}
  BY <1>2, <1>5
<1> QED  BY <1>1, <1>7, <1>8, <1>9 DEF raw

\* Its two signals of a death.
LEMMA Signals ==
  ASSUME Atoms, NEW w, WorldOK(w), NEW c \in Char, w.life[c] # "gone"
  PROVE  LET char == ParseSave(Save(w)).characters[c]
         IN  /\ char.is_dead \in BOOLEAN
             /\ char.is_dead <=> w.life[c] \in {"unprunable", "prunable"}
             /\ char.death_date = w.died[c]
             /\ Died(char) <=> w.died[c] # None
<1>1. /\ ParseCharacter(Person(w, c), w.life[c] \notin Walking, w.memory).is_dead = (w.life[c] \notin Walking)
      /\ ParseCharacter(Person(w, c), w.life[c] \notin Walking, w.memory).death_date
           = IF Person(w, c).dead_data = None THEN None ELSE Person(w, c).dead_data.date
  BY Zenon DEF ParseCharacter
<1>2. Person(w, c).dead_data = IF w.died[c] = None THEN None
                               ELSE [date |-> w.died[c], killer |-> w.killer[c],
                                     location |-> None, memories |-> w.memories[c]]
  BY DEF Person
<1>3. (IF Person(w, c).dead_data = None THEN None ELSE Person(w, c).dead_data.date) = w.died[c]
  <2>1. CASE w.died[c] = None
    BY <1>2, <2>1
  <2>2. CASE w.died[c] # None
    <3>1. PICK r : r = [date |-> w.died[c], killer |-> w.killer[c],
                        location |-> None, memories |-> w.memories[c]]
      OBVIOUS
    <3>2. r # None
      BY <3>1 DEF Atoms
    <3> QED  BY <1>2, <2>2, <3>1, <3>2
  <2> QED  BY <2>1, <2>2
<1>4. w.life[c] \notin Walking <=> w.life[c] \in {"unprunable", "prunable"}
  BY DEF WorldOK, Stages, Walking
<1>5. w.life[c] \in {"unprunable", "prunable"} => w.died[c] # None
  BY DEF WorldOK
<1> QED  BY <1>1, <1>3, <1>4, <1>5, Snapshot DEF Died

LEMMA SnapshotIsRecord ==
  ASSUME Atoms, NEW raw
  PROVE  ParseSave(raw) # None
<1>1. ParseSave(raw) = [x \in DOMAIN ParseSave(raw) |-> ParseSave(raw)[x]]
  BY DEF ParseSave
<1> QED  BY <1>1 DEF Atoms

-----------------------------------------------------------------------------
(* What a tick stores.                                                     *)

Dated(e, date) == IF e.d = None THEN [e EXCEPT !.d = date] ELSE e
Stored(e, date) == PayloadJson(Dated(e, date))
IsEvent(e) == e = [c |-> e.c, t |-> e.t, d |-> e.d, p |-> e.p, with |-> e.with]

LEMMA StoredShape ==
  ASSUME NEW e, NEW date, IsEvent(e)
  PROVE  /\ Stored(e, date).c = e.c
         /\ Stored(e, date).t = e.t
         /\ Stored(e, date).d = IF e.d = None THEN date ELSE e.d
         /\ Stored(e, date).p = Restrict(e.p, {f \in DOMAIN e.p : e.p[f] # None})
<1>1. PICK x : x = Dated(e, date)
  OBVIOUS
<1>2. x.c = e.c /\ x.t = e.t /\ x.d = (IF e.d = None THEN date ELSE e.d) /\ x.p = e.p
  BY <1>1 DEF IsEvent, Dated
<1>3. /\ PayloadJson(x).c = x.c
      /\ PayloadJson(x).t = x.t
      /\ PayloadJson(x).d = x.d
      /\ PayloadJson(x).p = Restrict(x.p, {f \in DOMAIN x.p : x.p[f] # None})
  BY Zenon DEF PayloadJson
<1> QED  BY <1>1, <1>2, <1>3 DEF Stored

LEMMA TickStores ==
  ASSUME db = [rows |-> db.rows, events |-> db.events], Tick
  PROVE  LET curr == ParseSave(Save(world))
         IN  /\ prev # None /\ prev' = curr /\ curr.date > prev.date
             /\ UNCHANGED <<world, facet, stale, first>>
             /\ \A x : x \in db'.events <=>
                  \/ x \in db.events
                  \/ \E id \in Tracked : \E e \in DiffTracked(id, prev, curr) : x = Stored(e, curr.date)
<1>1. PICK curr : curr = ParseSave(Save(world))
  OBVIOUS
<1>2. PICK diff : diff = SafeDiff(prev, curr, Tracked)
  OBVIOUS
<1>3. /\ prev # None /\ prev' = curr /\ curr.date > prev.date
      /\ UNCHANGED <<world, facet, stale, first>>
      /\ diff # None
      /\ \E rows : db' = IngestDiffEvents([db EXCEPT !.rows = rows], diff, curr)
  BY <1>1, <1>2 DEF Tick
<1>4. PICK base : \E rows : base = [db EXCEPT !.rows = rows] /\ db' = IngestDiffEvents(base, diff, curr)
  BY <1>3
<1>5. db'.events = base.events \cup {PayloadJson(e) : e \in diff}
  BY <1>4 DEF IngestDiffEvents
<1>6. diff = DiffSnapshots(prev, curr, Tracked)
  BY <1>2, <1>3, Zenon DEF SafeDiff
<1>7. \A y : y \in diff <=> \E id \in Tracked : \E e \in DiffTracked(id, prev, curr) :
                y = Dated(e, curr.date)
  BY <1>6 DEF DiffSnapshots, Dated
<1>8. \A x : x \in db'.events <=>
        \/ x \in base.events
        \/ \E id \in Tracked : \E e \in DiffTracked(id, prev, curr) : x = Stored(e, curr.date)
  BY <1>5, <1>7 DEF Stored
<1>9. base.events = db.events
  BY <1>4
<1> QED  BY <1>1, <1>3, <1>8, <1>9

-----------------------------------------------------------------------------
(* Deaths.                                                                 *)

DeathsIn(events, c) == {e \in events : e.c = c /\ e.t \in {"death"}}

LEMMA TickDeaths ==
  ASSUME db = [rows |-> db.rows, events |-> db.events], Tick, NEW c \in Tracked
  PROVE  LET curr == ParseSave(Save(world))
         IN  IF TellsDeath(c, prev, curr)
             THEN \E y : DeathsIn(db'.events, c) = DeathsIn(db.events, c) \cup {y}
             ELSE DeathsIn(db'.events, c) = DeathsIn(db.events, c)
<1>1. PICK curr : curr = ParseSave(Save(world))
  OBVIOUS
<1>2. \A x : x \in db'.events <=>
        \/ x \in db.events
        \/ \E id \in Tracked : \E e \in DiffTracked(id, prev, curr) : x = Stored(e, curr.date)
  BY <1>1, TickStores
<1>3. PICK y : /\ MakeDeath(c, curr.characters[c]) = {y}
               /\ y = [c |-> c, t |-> "death", d |-> y.d, p |-> y.p, with |-> y.with]
  BY DeathEvent
<1>4. Stored(y, curr.date).c = c /\ Stored(y, curr.date).t = "death"
  <2>1. IsEvent(y) /\ y.c = c /\ y.t = "death"
    BY <1>3 DEF IsEvent
  <2> QED  BY <2>1, StoredShape
<1>5. ASSUME NEW id \in Tracked, NEW e \in DiffTracked(id, prev, curr),
             Stored(e, curr.date).c = c, Stored(e, curr.date).t = "death"
      PROVE  TellsDeath(c, prev, curr) /\ e = y
  <2>1. CASE LivingEvent(id, e)
    <3>1. IsEvent(e) /\ e.t # "death"
      BY <2>1 DEF LivingEvent, IsEvent
    <3> QED  BY <1>5, <3>1, StoredShape
  <2>2. CASE TellsDeath(id, prev, curr) /\ e \in MakeDeath(id, curr.characters[id])
    <3>1. PICK z : /\ MakeDeath(id, curr.characters[id]) = {z}
                   /\ z = [c |-> id, t |-> "death", d |-> z.d, p |-> z.p, with |-> z.with]
      BY DeathEvent
    <3>2. IsEvent(e) /\ e.c = id
      BY <2>2, <3>1 DEF IsEvent
    <3>3. id = c
      BY <1>5, <3>2, StoredShape
    <3> QED  BY <1>3, <2>2, <3>3
  <2> QED  BY <2>1, <2>2, TrackedDeath
<1>6. TellsDeath(c, prev, curr) => Stored(y, curr.date) \in db'.events
  BY <1>2, <1>3, TrackedDeath
<1>7. CASE TellsDeath(c, prev, curr)
  <2>1. DeathsIn(db'.events, c) = DeathsIn(db.events, c) \cup {Stored(y, curr.date)}
    BY <1>2, <1>4, <1>5, <1>6, <1>7 DEF DeathsIn
  <2> QED  BY <1>1, <1>7, <2>1
<1>8. CASE ~TellsDeath(c, prev, curr)
  <2>1. DeathsIn(db'.events, c) = DeathsIn(db.events, c)
    BY <1>2, <1>5, <1>8 DEF DeathsIn
  <2> QED  BY <1>1, <1>8, <2>1
<1> QED  BY <1>7, <1>8

\* What the baseline says of a character's death, what the game knows of it and
\* what has been told of it.
DeathOf(c, w, base, start, told) ==
  IF c \in DOMAIN base.characters
  THEN LET char == base.characters[c]
       IN  /\ char.is_dead \in BOOLEAN
           /\ char.is_dead => char.death_date # None
           /\ Died(char) => w.died[c] # None
           /\ c \in start.dead => Died(char)
           /\ IF Died(char) /\ c \notin start.dead THEN \E e \in told : told = {e} ELSE told = {}
  ELSE IF w.life[c] = "gone" THEN told = {} \/ \E e \in told : told = {e}
       ELSE told = {} /\ c \notin start.dead

DeathInv ==
  /\ facet \in Facets
  /\ WorldOK(world)
  /\ db = [rows |-> db.rows, events |-> db.events]
  /\ IF prev = None THEN \A c \in Tracked : DeathsIn(db.events, c) = {}
     ELSE \A c \in Tracked : DeathOf(c, world, prev, first, DeathsIn(db.events, c))

LEMMA World0OK ==
  ASSUME Atoms
  PROVE  /\ WorldOK(World0) /\ WorldOK(AtWar)
         /\ \A c \in Char : World0.life[c] = "alive" /\ World0.died[c] = None
<1>1. /\ {"date", "life", "died", "titles", "wars", "artifacts", "court"} \subseteq DOMAIN World0
      /\ World0.date = 0
      /\ World0.life = [c \in Char |-> "alive"]
      /\ World0.died = [c \in Char |-> None]
      /\ World0.wars = <<Junk, Junk>>
      /\ World0.artifacts = <<Junk, Junk>>
      /\ World0.court = <<Junk>>
      /\ World0.titles = <<Land(1, None), Junk, Land(3, None), Land(4, CHOOSE c \in Char \ Tracked : TRUE)>>
  BY DEF World0
<1>2. WorldOK(World0)
  BY <1>1 DEF WorldOK, Stages, Tables
<1>3. PICK x : AtWar = [World0 EXCEPT !.wars[1] = x]
  BY Zenon DEF AtWar
<1>4. Kept(World0, AtWar)
  BY <1>2, <1>3 DEF WorldOK, Kept, Tables
<1> QED  BY <1>1, <1>2, <1>4, KeptOK

\* The file of a build that knew no wars is discarded.
LEMMA OldBaseline ==
  ASSUME NEW raw
  PROVE  LoadBaseline(Restrict(ParseSave(raw), SnapshotFields \ {"wars"})) = None
<1>1. PICK f : f = Restrict(ParseSave(raw), SnapshotFields \ {"wars"})
  OBVIOUS
<1>2. DOMAIN f = SnapshotFields \ {"wars"}
  BY <1>1 DEF Restrict
<1>3. "wars" \in DOMAIN ParseSave(Save(World0))
  BY DEF ParseSave
<1> QED  BY <1>1, <1>2, <1>3 DEF LoadBaseline, SnapshotFields

\* A baseline the session starts from is the snapshot of the first world, for
\* the characters it knows.
LEMMA FirstBaseline ==
  ASSUME Atoms, Init, prev # None
  PROVE  /\ world = World0
         /\ DOMAIN prev.characters = Char \ stale
         /\ \A c \in Char \ stale : prev.characters[c] = ParseSave(Save(World0)).characters[c]
         /\ prev.date = 0
         /\ \A f \in Tables : prev[f] = ParseSave(Save(World0))[f]
         /\ first = Holdings(prev)
<1>1. PICK s : s = ParseSave(Save(World0))
  OBVIOUS
<1>2. /\ world = World0
      /\ prev = [s EXCEPT !.characters = Restrict(@, Char \ stale)]
  BY <1>1, OldBaseline DEF Init, LoadBaseline
<1>3. {"date", "characters"} \cup Tables \subseteq DOMAIN s
  BY <1>1 DEF ParseSave, Tables
<1>4. s.date = 0
  BY <1>1, Snapshot, World0OK DEF World0
<1>5. first = Holdings(prev)
  BY DEF Init
<1>6. prev.characters = [c \in Char \ stale |-> s.characters[c]]
  BY <1>2, <1>3 DEF Restrict
<1>7. prev.date = 0 /\ \A f \in Tables : prev[f] = s[f]
  BY <1>2, <1>3, <1>4 DEF Tables
<1> QED  BY <1>1, <1>2, <1>5, <1>6, <1>7

LEMMA HoldingsDead ==
  ASSUME NEW snap
  PROVE  Holdings(snap).dead = {c \in DOMAIN snap.characters : Died(snap.characters[c])}
BY Zenon DEF Holdings

LEMMA InitDeath ==
  ASSUME Atoms, Init
  PROVE  DeathInv
<1>1. facet \in Facets /\ db = [rows |-> [c \in Char |-> None], events |-> {}]
  BY DEF Init
<1>2. WorldOK(world)
  BY World0OK DEF Init
<1>3. \A c : DeathsIn(db.events, c) = {}
  BY <1>1 DEF DeathsIn
<1>4. db = [rows |-> db.rows, events |-> db.events]
  BY <1>1
<1>5. ASSUME prev # None, NEW c \in Tracked
      PROVE  DeathOf(c, world, prev, first, {})
  <2>1. /\ world = World0
        /\ DOMAIN prev.characters = Char \ stale
        /\ \A x \in Char \ stale : prev.characters[x] = ParseSave(Save(World0)).characters[x]
        /\ first = Holdings(prev)
    BY <1>5, FirstBaseline
  <2>2. c \in Char /\ World0.life[c] = "alive" /\ World0.died[c] = None
    BY TrackedAssumption, World0OK
  <2>3. CASE c \in stale
    <3>1. c \notin first.dead
      BY <2>1, <2>3, HoldingsDead
    <3> QED  BY <2>1, <2>2, <2>3, <3>1 DEF DeathOf
  <2>4. CASE c \notin stale
    <3>1. PICK char : char = prev.characters[c]
      OBVIOUS
    <3>2. /\ char.is_dead \in BOOLEAN
          /\ char.is_dead <=> World0.life[c] \in {"unprunable", "prunable"}
          /\ char.death_date = World0.died[c]
          /\ Died(char) <=> World0.died[c] # None
      BY <2>1, <2>2, <2>4, <3>1, Signals, World0OK
    <3>3. c \notin first.dead
      BY <2>1, <2>2, <3>1, <3>2, HoldingsDead
    <3> QED  BY <2>1, <2>2, <2>4, <3>1, <3>2, <3>3 DEF DeathOf
  <2> QED  BY <2>3, <2>4
<1> QED  BY <1>1, <1>2, <1>3, <1>4, <1>5 DEF DeathInv

\* A move of the game, as far as lives and tables go.
LEMMA PlayWorld ==
  ASSUME Atoms, facet \in Facets, WorldOK(world), Play
  PROVE  /\ WorldOK(world')
         /\ world'.date = world.date + 1
         /\ \A c \in Char : world.died[c] # None => world'.died[c] # None
         /\ \A c \in Char : world.life[c] = "gone" => world'.life[c] = "gone"
         /\ \A c \in Char : world.life[c] \in {"unprunable", "prunable"} =>
                              world'.life[c] \in {"unprunable", "prunable", "gone"}
         /\ UNCHANGED <<facet, stale, prev, first, db>>
<1>1. PICK v \in Moves(world) : world' = [v EXCEPT !.date = @ + 1]
  BY DEF Play
<1>2. UNCHANGED <<facet, stale, prev, first, db>>
  BY DEF Play
<1>3. Kept(world, v) \/ Passed(world, v)
  BY <1>1, MovesKept
<1>4. WorldOK(v)
  BY <1>3, KeptOK, PassedOK
<1>5. v.date = world.date
  BY <1>3 DEF Kept, Passed
<1>6. WorldOK(world') /\ world'.date = world.date + 1 /\ world'.life = v.life /\ world'.died = v.died
  BY <1>1, <1>4, <1>5 DEF WorldOK, Tables
<1>7. CASE Kept(world, v)
  BY <1>2, <1>6, <1>7 DEF Kept
<1>8. CASE Passed(world, v)
  <2>1. PICK c \in Char, s \in Stages \ {"alive"} :
         /\ world.life[c] # "gone"
         /\ world.life[c] \in {"unprunable", "prunable"} => s = "gone"
         /\ v.life = [world.life EXCEPT ![c] = s]
         /\ v.died = IF world.died[c] = None THEN [world.died EXCEPT ![c] = world.date] ELSE world.died
    BY <1>8 DEF Passed
  <2>2. world.life \in [Char -> Stages] /\ world.died \in [Char -> Nat \cup {None}]
    BY DEF WorldOK
  <2>3. ASSUME NEW x \in Char, world.died[x] # None  PROVE  v.died[x] # None
    BY <2>1, <2>2, <2>3
  <2>4. ASSUME NEW x \in Char
        PROVE  /\ world.life[x] = "gone" => v.life[x] = "gone"
               /\ world.life[x] \in {"unprunable", "prunable"} => v.life[x] \in {"unprunable", "prunable", "gone"}
    BY <2>1, <2>2, <2>4
  <2> QED  BY <1>2, <1>6, <2>3, <2>4
<1> QED  BY <1>3, <1>7, <1>8

\* The save of a world, as the baseline it becomes.
LEMMA CurrentSignals ==
  ASSUME Atoms, NEW w, WorldOK(w), NEW c \in Tracked, NEW curr, curr = ParseSave(Save(w))
  PROVE  IF w.life[c] = "gone" THEN c \notin DOMAIN curr.characters
         ELSE /\ c \in DOMAIN curr.characters
              /\ curr.characters[c].is_dead \in BOOLEAN
              /\ curr.characters[c].is_dead => curr.characters[c].death_date # None
              /\ Died(curr.characters[c]) <=> w.died[c] # None
              /\ curr.characters[c].death_date = w.died[c]
<1>1. c \in Char
  BY TrackedAssumption
<1>2. c \in DOMAIN curr.characters <=> w.life[c] # "gone"
  BY <1>1, Snapshot
<1>3. w.life[c] \in {"unprunable", "prunable"} => w.died[c] # None
  BY <1>1 DEF WorldOK
<1> QED  BY <1>1, <1>2, <1>3, Signals

LEMMA NextDeath ==
  ASSUME Atoms, DeathInv, [Next]_vars
  PROVE  DeathInv'
<1>1. /\ facet \in Facets /\ WorldOK(world)
      /\ db = [rows |-> db.rows, events |-> db.events]
  BY DEF DeathInv
<1>2. PICK curr : curr = ParseSave(Save(world))
  OBVIOUS
<1>3. curr # None
  BY <1>2, SnapshotIsRecord
<1>4. CASE Play
  <2>1. /\ WorldOK(world')
        /\ \A c \in Char : world.died[c] # None => world'.died[c] # None
        /\ \A c \in Char : world.life[c] = "gone" => world'.life[c] = "gone"
        /\ UNCHANGED <<facet, stale, prev, first, db>>
    BY <1>1, <1>4, PlayWorld
  <2>2. ASSUME NEW c \in Tracked, NEW told, DeathOf(c, world, prev, first, told)
        PROVE  DeathOf(c, world', prev, first, told)
    BY <2>1, <2>2, TrackedAssumption DEF DeathOf
  <2> QED  BY <1>1, <2>1, <2>2 DEF DeathInv
<1>5. CASE Adopt
  <2>1. prev = None /\ prev' = curr /\ first' = Holdings(curr) /\ UNCHANGED <<world, facet, stale, db>>
    BY <1>2, <1>5 DEF Adopt
  <2>2. ASSUME NEW c \in Tracked  PROVE  DeathOf(c, world, curr, Holdings(curr), {})
    BY <1>1, <1>2, CurrentSignals, HoldingsDead DEF DeathOf
  <2> QED  BY <1>1, <1>3, <2>1, <2>2 DEF DeathInv
<1>6. CASE Tick
  <2>1. prev # None /\ prev' = curr /\ UNCHANGED <<world, facet, stale, first>>
    BY <1>1, <1>2, <1>6, TickStores
  <2>2. db' = [rows |-> db'.rows, events |-> db'.events]
    BY <1>6 DEF Tick, IngestDiffEvents
  <2>3. ASSUME NEW c \in Tracked
        PROVE  DeathOf(c, world, curr, first, DeathsIn(db'.events, c))
    <3>1. DeathOf(c, world, prev, first, DeathsIn(db.events, c))
      BY <2>1 DEF DeathInv
    <3>2. IF TellsDeath(c, prev, curr)
          THEN \E y : DeathsIn(db'.events, c) = DeathsIn(db.events, c) \cup {y}
          ELSE DeathsIn(db'.events, c) = DeathsIn(db.events, c)
      BY <1>1, <1>2, <1>6, TickDeaths
    <3>3. IF world.life[c] = "gone" THEN c \notin DOMAIN curr.characters
          ELSE /\ c \in DOMAIN curr.characters
               /\ curr.characters[c].is_dead \in BOOLEAN
               /\ curr.characters[c].is_dead => curr.characters[c].death_date # None
               /\ Died(curr.characters[c]) <=> world.died[c] # None
               /\ curr.characters[c].death_date = world.died[c]
      BY <1>1, <1>2, CurrentSignals
    <3> DEFINE old == DeathsIn(db.events, c)
               new == DeathsIn(db'.events, c)
    <3> HIDE DEF old, new
    <3>4. CASE world.life[c] = "gone"
      <4>1. ~TellsDeath(c, prev, curr)
        BY <3>3, <3>4 DEF TellsDeath
      <4>2. new = old
        BY <3>2, <4>1 DEF old, new
      <4>3. old = {} \/ \E e \in old : old = {e}
        BY <3>1, <3>4 DEF DeathOf, old
      <4>4. DeathOf(c, world, curr, first, new)
        BY <3>3, <3>4, <4>2, <4>3 DEF DeathOf
      <4> QED  BY <4>4 DEF new
    <3>5. CASE world.life[c] # "gone" /\ c \in DOMAIN prev.characters
      <4>1. TellsDeath(c, prev, curr) <=> DeathAppears(prev.characters[c], curr.characters[c])
        BY <3>3, <3>5 DEF TellsDeath
      <4>2. /\ prev.characters[c].is_dead \in BOOLEAN
            /\ prev.characters[c].is_dead => prev.characters[c].death_date # None
            /\ Died(prev.characters[c]) => world.died[c] # None
            /\ c \in first.dead => Died(prev.characters[c])
            /\ IF Died(prev.characters[c]) /\ c \notin first.dead THEN \E e \in old : old = {e} ELSE old = {}
        BY <3>1, <3>5 DEF DeathOf, old
      <4>3. TellsDeath(c, prev, curr) <=> ~Died(prev.characters[c]) /\ Died(curr.characters[c])
        BY <3>3, <3>5, <4>1, <4>2 DEF DeathAppears, Died
      <4>4. IF Died(curr.characters[c]) /\ c \notin first.dead THEN \E e \in new : new = {e} ELSE new = {}
        <5>1. CASE TellsDeath(c, prev, curr)
          BY <3>2, <4>2, <4>3, <5>1 DEF old, new
        <5>2. CASE ~TellsDeath(c, prev, curr)
          BY <3>2, <3>3, <3>5, <4>2, <4>3, <5>2 DEF old, new
        <5> QED  BY <5>1, <5>2
      <4>5. DeathOf(c, world, curr, first, new)
        BY <3>3, <3>5, <4>2, <4>4 DEF DeathOf
      <4> QED  BY <4>5 DEF new
    <3>6. CASE world.life[c] # "gone" /\ c \notin DOMAIN prev.characters
      <4>1. TellsDeath(c, prev, curr) <=> Died(curr.characters[c])
        BY <3>3, <3>6 DEF TellsDeath
      <4>2. old = {} /\ c \notin first.dead
        BY <3>1, <3>6 DEF DeathOf, old
      <4>3. IF Died(curr.characters[c]) THEN \E e \in new : new = {e} ELSE new = {}
        BY <3>2, <4>1, <4>2 DEF old, new
      <4>4. DeathOf(c, world, curr, first, new)
        BY <3>3, <3>6, <4>2, <4>3 DEF DeathOf
      <4> QED  BY <4>4 DEF new
    <3> QED  BY <3>4, <3>5, <3>6
  <2> QED  BY <1>1, <1>3, <2>1, <2>2, <2>3 DEF DeathInv
<1>7. CASE UNCHANGED vars
  BY <1>7 DEF vars, DeathInv
<1> QED  BY <1>4, <1>5, <1>6, <1>7 DEF Next

\* A tracked character's death is told exactly once, in whatever order its two
\* signals reach the saves and whatever the first baseline knew, however many
\* moves fall between two saves (diff_snapshots, _diff_one_character).
THEOREM DeathAlwaysTold ==
  ASSUME Atoms
  PROVE  Spec => []DeathTold
<1>1. DeathInv => DeathTold
  <2> SUFFICES ASSUME DeathInv, NEW c \in Tracked
               PROVE  /\ Count(c, {"death"}) <= 1
                      /\ InBaseline(c) =>
                           (Count(c, {"death"}) = 1 <=> Died(prev.characters[c]) /\ c \notin first.dead)
    BY DEF DeathTold
  <2> DEFINE told == DeathsIn(db.events, c)
  <2>1. Count(c, {"death"}) = Cardinality(told)
    BY DEF Count, DeathsIn
  <2>2. told = {} \/ \E e : told = {e}
    BY DEF DeathInv, DeathOf
  <2>3. InBaseline(c) => IF Died(prev.characters[c]) /\ c \notin first.dead THEN \E e : told = {e} ELSE told = {}
    BY DEF DeathInv, DeathOf, InBaseline
  <2> HIDE DEF told
  <2>4. told = {} => Cardinality(told) = 0
    BY FS_EmptySet
  <2>5. (\E e : told = {e}) => Cardinality(told) = 1
    BY FS_Singleton
  <2>6. \/ told = {} /\ Count(c, {"death"}) = 0
        \/ (\E e : told = {e}) /\ Count(c, {"death"}) = 1
    BY <2>1, <2>2, <2>4, <2>5
  <2>7. Count(c, {"death"}) <= 1
    BY <2>6
  <2>8. Count(c, {"death"}) = 1 <=> \E e : told = {e}
    BY <2>6
  <2>9. InBaseline(c) =>
          (Count(c, {"death"}) = 1 <=> Died(prev.characters[c]) /\ c \notin first.dead)
    <3>1. CASE Died(prev.characters[c]) /\ c \notin first.dead
      BY <2>3, <2>8, <3>1
    <3>2. CASE ~(Died(prev.characters[c]) /\ c \notin first.dead)
      BY <2>3, <2>8, <3>2
    <3> QED  BY <3>1, <3>2
  <2> QED  BY <2>7, <2>9
<1>2. Init => DeathInv
  BY InitDeath
<1>3. DeathInv /\ [Next]_vars => DeathInv'
  BY NextDeath
<1> QED  BY <1>1, <1>2, <1>3, PTL DEF Spec

-----------------------------------------------------------------------------
(* The titles a briefing lists.                                            *)

\* The held column of a refreshed row.
LEMMA RefreshedHeld ==
  ASSUME Atoms, NEW rows, NEW snap, NEW c \in Tracked, c \in DOMAIN snap.characters
  PROVE  LET row == RefreshTracked(rows, snap, Tracked)[c]
         IN  /\ row # None
             /\ row.held = IF snap.titles.of[c] # {} THEN HeldTitles(snap, c)
                           ELSE IF rows[c] = None THEN None ELSE rows[c].held
<1>1. PICK g : g = [region |-> SummariseRegion(snap, c), cause |-> DetectGreatCause(snap, c)]
  OBVIOUS
<1>2. PICK h : h = IF snap.titles.of[c] = {} THEN None ELSE HeldTitles(snap, c)
  OBVIOUS
<1>3. PICK r : r = [culture |-> snap.characters[c].culture, record |-> snap.characters[c].family,
                    held |-> h]
  OBVIOUS
<1>4. HydrateColumns(snap, c) = Merge(Identity(snap, c), r)
  BY <1>2, <1>3, Zenon DEF HydrateColumns
<1>5. "held" \notin DOMAIN Identity(snap, c)
  BY DEF Identity
<1>6. PICK f : f = Merge(Merge(Identity(snap, c), r), g)
  OBVIOUS
<1>7. "held" \in DOMAIN f /\ f["held"] = h
  BY <1>3, <1>5, <1>6 DEF Merge
<1>8. c \in Char
  BY TrackedAssumption
<1>9. RefreshTracked(rows, snap, Tracked)[c] = UpsertCharacter(rows[c], f)
  BY <1>1, <1>4, <1>6, <1>8, Zenon DEF RefreshTracked
<1>10. UpsertCharacter(rows[c], f) # None
  <2>1. UpsertCharacter(rows[c], f)
          = [k \in DOMAIN UpsertCharacter(rows[c], f) |-> UpsertCharacter(rows[c], f)[k]]
    BY DEF UpsertCharacter
  <2> QED  BY <2>1 DEF Atoms
<1>11. UpsertCharacter(rows[c], f)["held"] = IF h # None THEN h ELSE IF rows[c] = None THEN None ELSE rows[c]["held"]
  BY <1>7 DEF UpsertCharacter, Column, NullableOnUpdate
<1>12. snap.titles.of[c] # {} => h # None
  <2>1. HeldTitles(snap, c) = [i \in DOMAIN HeldTitles(snap, c) |-> HeldTitles(snap, c)[i]]
    BY DEF HeldTitles
  <2> QED  BY <1>2, <2>1 DEF Atoms
<1> QED  BY <1>2, <1>9, <1>10, <1>11, <1>12

\* The identities an event brings leave the column alone.
LEMMA IngestedHeld ==
  ASSUME NEW rows, NEW snap, NEW c, rows[c] # None
  PROVE  UpsertCharacter(rows[c], Identity(snap, c)).held = rows[c].held
<1>1. "held" \notin DOMAIN Identity(snap, c)
  BY DEF Identity
<1> QED  BY <1>1 DEF UpsertCharacter, Column

LEMMA TickHeld ==
  ASSUME Atoms, db = [rows |-> db.rows, events |-> db.events], Tick,
         NEW c \in Tracked, c \in DOMAIN prev'.characters
  PROVE  db'.rows[c].held = IF prev'.titles.of[c] # {} THEN HeldTitles(prev', c)
                            ELSE IF db.rows[c] = None THEN None ELSE db.rows[c].held
<1>1. PICK curr : curr = ParseSave(Save(world))
  OBVIOUS
<1>2. PICK rows : rows = RefreshTracked(db.rows, curr, Tracked)
  OBVIOUS
<1>3. PICK base : base = [db EXCEPT !.rows = rows]
  OBVIOUS
<1>4. PICK diff : diff = SafeDiff(prev, curr, Tracked)
  OBVIOUS
<1>5. prev' = curr /\ db' = IngestDiffEvents(base, diff, curr)
  BY <1>1, <1>2, <1>3, <1>4 DEF Tick
<1>6. base.rows = rows
  BY <1>3
<1>7. rows[c] # None
  BY <1>2, <1>5, RefreshedHeld
<1>8. rows[c].held = IF curr.titles.of[c] # {} THEN HeldTitles(curr, c)
                     ELSE IF db.rows[c] = None THEN None ELSE db.rows[c].held
  BY <1>2, <1>5, RefreshedHeld
<1>9. c \in Char
  BY TrackedAssumption
<1>10. db'.rows[c] = rows[c] \/ db'.rows[c] = UpsertCharacter(rows[c], Identity(curr, c))
  BY <1>5, <1>6, <1>9 DEF IngestDiffEvents
<1>11. db'.rows[c].held = rows[c].held
  BY <1>7, <1>10, IngestedHeld
<1> QED  BY <1>5, <1>8, <1>11

\* The column of a character the newest save gives titles to is that save's.
HeldInv ==
  /\ db = [rows |-> db.rows, events |-> db.events]
  /\ \A c \in Tracked : db.rows[c] # None =>
       /\ prev # None
       /\ (c \in DOMAIN prev.characters /\ prev.titles.of[c] # {}) => db.rows[c].held = HeldTitles(prev, c)

TitlesKept ==
  \A c \in {x \in Tracked : db'.rows[x] # None /\ x \in DOMAIN prev'.characters} :
    LET now == prev'.titles.of[c]
    IN  db'.rows[c].held =
          IF now # {} THEN HeldTitles(prev', c)
          ELSE IF db.rows[c] = None THEN None ELSE db.rows[c].held

LEMMA NextHeld ==
  ASSUME Atoms, HeldInv, [Next]_vars
  PROVE  HeldInv' /\ [TitlesKept]_vars
<1>1. CASE Play
  <2>1. UNCHANGED <<prev, db>>
    BY <1>1 DEF Play
  <2> QED  BY <2>1 DEF HeldInv, TitlesKept
<1>2. CASE Adopt
  <2>1. prev = None /\ UNCHANGED db
    BY <1>2 DEF Adopt
  <2> QED  BY <2>1 DEF HeldInv, TitlesKept
<1>3. CASE Tick
  <2>1. prev' # None
    BY <1>3, SnapshotIsRecord DEF Tick
  <2>2. db' = [rows |-> db'.rows, events |-> db'.events]
    BY <1>3 DEF Tick, IngestDiffEvents
  <2>3. ASSUME NEW c \in Tracked, c \in DOMAIN prev'.characters
        PROVE  db'.rows[c].held = IF prev'.titles.of[c] # {} THEN HeldTitles(prev', c)
                                  ELSE IF db.rows[c] = None THEN None ELSE db.rows[c].held
    BY <1>3, <2>3, TickHeld DEF HeldInv
  <2> QED  BY <2>1, <2>2, <2>3 DEF HeldInv, TitlesKept
<1>4. CASE UNCHANGED vars
  BY <1>4 DEF vars, HeldInv
<1> QED  BY <1>1, <1>2, <1>3, <1>4 DEF Next

\* A briefing lists the titles of the newest save that gave the character any,
\* whatever the saves after it say (hydrate_columns, upsert_character).
THEOREM TitlesAlwaysRemembered ==
  ASSUME Atoms
  PROVE  Spec => TitlesRemembered
<1>1. Init => HeldInv
  <2>1. Init => db = [rows |-> [c \in Char |-> None], events |-> {}]
    BY DEF Init
  <2> QED  BY <2>1, TrackedAssumption DEF HeldInv
<1>2. HeldInv /\ [Next]_vars => HeldInv' /\ [TitlesKept]_vars
  BY NextHeld
<1>3. TitlesRemembered <=> [][TitlesKept]_vars
  BY DEF TitlesRemembered, TitlesKept
<1> QED  BY <1>1, <1>2, <1>3, PTL DEF Spec

-----------------------------------------------------------------------------
(* What the streams tell.  The event of each key a character gained or lost. *)

KeyOf == [titles |-> "title_id", wars |-> "war_id", artifacts |-> "artifact_id", court |-> "position_id"]

TitleGain(id, prv, curr, k) ==
  LET row == curr.titles.row
      from == HolderIn(prv.titles.row, k)
  IN  IF k \in DOMAIN prv.titles.row
      THEN With(id, "title_acquired",
                [title_id |-> k, title_key |-> row[k].key, tier |-> row[k].tier, from_holder_id |-> from],
                {<<"former_holder", from>>})
      ELSE Event(id, "title_created", [title_id |-> k, title_key |-> row[k].key, tier |-> row[k].tier])
TitleLoss(id, prv, curr, k) ==
  LET row == prv.titles.row
      to  == HolderIn(curr.titles.row, k)
  IN  With(id, "title_relinquished",
           [title_id |-> k, title_key |-> row[k].key, tier |-> row[k].tier, to_holder_id |-> to],
           {<<"new_holder", to>>})

WarEvent(id, t, k, row) == With(id, t, WarSidePayload(k, row[k], id), WarParticipants(row[k]))
WarGain(id, prv, curr, k) ==
  LET is == curr.wars.row
  IN  WarEvent(id, IF k \notin DOMAIN prv.wars.row /\ id \in {is[k].attacker, is[k].defender}
                   THEN "war_declared" ELSE "war_joined", k, is)
WarLoss(id, prv, curr, k) ==
  WarEvent(id, IF k \in DOMAIN curr.wars.row THEN "war_left" ELSE "war_concluded", k, prv.wars.row)

CourtEvent(id, t, k, snap, curr) ==
  Event(id, t, [position_id |-> k, employee_id |-> snap.court.row[k].employee,
                employee_name |-> Known(snap.court.row[k].employee, curr)])

GainEvent(s, id, prv, curr, k) ==
  CASE s = "titles"    -> TitleGain(id, prv, curr, k)
    [] s = "wars"      -> WarGain(id, prv, curr, k)
    [] s = "artifacts" -> Event(id, "artifact_acquired", [artifact_id |-> k])
    [] s = "court"     -> CourtEvent(id, "camp_companion_joined", k, curr, curr)
LossEvent(s, id, prv, curr, k) ==
  CASE s = "titles"    -> TitleLoss(id, prv, curr, k)
    [] s = "wars"      -> WarLoss(id, prv, curr, k)
    [] s = "artifacts" -> Event(id, "artifact_lost", [artifact_id |-> k])
    [] s = "court"     -> CourtEvent(id, "camp_companion_left", k, prv, curr)

\* Every one of them is an event of the character, of the window's date, and
\* carries its key.
KeyedEvent(s, types, id, k, e) ==
  /\ IsEvent(e)
  /\ e.c = id /\ e.t \in types /\ e.d = None
  /\ KeyOf[s] \in DOMAIN e.p /\ e.p[KeyOf[s]] = k

LEMMA GainKeyed ==
  ASSUME NEW s \in Tables, NEW id, NEW prv, NEW curr, NEW k
  PROVE  KeyedEvent(s, Streams[s].gain, id, k, GainEvent(s, id, prv, curr, k))
<1>1. CASE s = "titles"
  BY <1>1 DEF GainEvent, TitleGain, Event, With, KeyedEvent, IsEvent, KeyOf, Streams
<1>2. CASE s = "wars"
  BY <1>2 DEF GainEvent, WarGain, WarEvent, WarSidePayload, With, KeyedEvent, IsEvent, KeyOf, Streams
<1>3. CASE s = "artifacts"
  BY <1>3 DEF GainEvent, Event, With, KeyedEvent, IsEvent, KeyOf, Streams
<1>4. CASE s = "court"
  BY <1>4 DEF GainEvent, CourtEvent, Event, With, KeyedEvent, IsEvent, KeyOf, Streams
<1> QED  BY <1>1, <1>2, <1>3, <1>4 DEF Tables

LEMMA LossKeyed ==
  ASSUME NEW s \in Tables, NEW id, NEW prv, NEW curr, NEW k
  PROVE  KeyedEvent(s, Streams[s].loss, id, k, LossEvent(s, id, prv, curr, k))
<1>1. CASE s = "titles"
  BY <1>1 DEF LossEvent, TitleLoss, Event, With, KeyedEvent, IsEvent, KeyOf, Streams
<1>2. CASE s = "wars"
  BY <1>2 DEF LossEvent, WarLoss, WarEvent, WarSidePayload, With, KeyedEvent, IsEvent, KeyOf, Streams
<1>3. CASE s = "artifacts"
  BY <1>3 DEF LossEvent, Event, With, KeyedEvent, IsEvent, KeyOf, Streams
<1>4. CASE s = "court"
  BY <1>4 DEF LossEvent, CourtEvent, Event, With, KeyedEvent, IsEvent, KeyOf, Streams
<1> QED  BY <1>1, <1>2, <1>3, <1>4 DEF Tables

LEMMA TitlesTell ==
  ASSUME NEW id, NEW prv, NEW curr, prv.titles.row # << >>, NEW e
  PROVE  e \in DiffTitles(id, prv, curr) <=>
           \/ \E k \in curr.titles.of[id] \ prv.titles.of[id] : e = GainEvent("titles", id, prv, curr, k)
           \/ \E k \in prv.titles.of[id] \ curr.titles.of[id] : e = LossEvent("titles", id, prv, curr, k)
BY DEF DiffTitles, Created, Acquired, Relinquished, Events, EventsWith, GainEvent, TitleGain, LossEvent, TitleLoss

\* Every event of a stream comes from that stream's differ.
Differ(s, id, c, prv, curr) ==
  CASE s = "titles"    -> DiffTitles(id, prv, curr)
    [] s = "wars"      -> DiffWars(id, c, prv, curr)
    [] s = "artifacts" -> DiffArtifacts(id, c, prv, curr)
    [] s = "court"     -> DiffCourtPositions(id, c, prv, curr)

LEMMA StreamTypes ==
  ASSUME NEW s \in Tables, NEW id, NEW prv, NEW curr,
         id \in DOMAIN prv.characters, id \in DOMAIN curr.characters,
         NEW e, e.t \in Streams[s].gain \cup Streams[s].loss
  PROVE  e \in DiffTracked(id, prv, curr) <=> e \in Differ(s, id, curr.characters[id], prv, curr)
<1> DEFINE c == curr.characters[id]
           p == prv.characters[id]
<1>1. DiffTracked(id, prv, curr) =
        UNION {DiffOneCharacter(id, p, c, curr), DiffTitles(id, prv, curr),
               StreamDiffers(id, c, prv, curr), DiffTraits(id, p, c),
               DiffConcubines(id, p, c, curr), DiffModifiersAndPerks(id, p, c),
               DiffMiscarriage(id, p, c, curr.memories), DiffStateChanges(id, p, c)}
  BY Zenon DEF DiffTracked
<1> HIDE DEF p, c
<1>2. e.t \in Told \ {"death"}
  BY DEF Tables, Streams, Told
<1>3. ~PlainEvent(id, e)
  BY <1>2 DEF PlainEvent
<1>4. e \notin DiffOneCharacter(id, p, c, curr)
  <2>1. e \notin MakeDeath(id, c)
    BY <1>2, DeathEvent
  <2> QED  BY <1>3, <2>1, OneCharacter
<1>5. e \in DiffTracked(id, prv, curr) <=>
        e \in DiffTitles(id, prv, curr) \/ e \in StreamDiffers(id, c, prv, curr)
  BY <1>1, <1>3, <1>4, TraitsPlain, ConcubinesPlain, PerksPlain, MiscarriagePlain, StatesPlain
<1>6. e \in StreamDiffers(id, c, prv, curr) <=>
        \/ e \in DiffWars(id, c, prv, curr)
        \/ e \in DiffArtifacts(id, c, prv, curr)
        \/ e \in DiffCourtPositions(id, c, prv, curr)
  BY <1>3, AlliancesPlain, DynastyPlain, HappeningsPlain, ContractsPlain, DomicilePlain,
     ConstructionsPlain DEF StreamDiffers
<1>7. e \in DiffTitles(id, prv, curr) => s = "titles"
  BY TitlesLiving DEF Tables, Streams
<1>8. e \in DiffWars(id, c, prv, curr) => s = "wars"
  BY WarsLiving DEF Tables, Streams
<1>9. e \in DiffArtifacts(id, c, prv, curr) => s = "artifacts"
  BY ArtifactsLiving DEF Tables, Streams
<1>10. e \in DiffCourtPositions(id, c, prv, curr) => s = "court"
  BY CourtLiving DEF Tables, Streams
<1>11. e \in DiffTracked(id, prv, curr) <=> e \in Differ(s, id, c, prv, curr)
  BY <1>5, <1>6, <1>7, <1>8, <1>9, <1>10 DEF Differ, Tables
<1> QED  BY <1>11 DEF c

\* One event for each key gained, one for each key lost, and no other.
Gained(s, id, prv, curr) == curr[s].of[id] \ prv[s].of[id]
Lost(s, id, prv, curr) == prv[s].of[id] \ curr[s].of[id]

TellsKeys(s, id, prv, curr) ==
  \A e : /\ e \in DiffTracked(id, prv, curr) /\ e.t \in Streams[s].gain <=>
              \E k \in Gained(s, id, prv, curr) : e = GainEvent(s, id, prv, curr, k)
         /\ e \in DiffTracked(id, prv, curr) /\ e.t \in Streams[s].loss <=>
              \E k \in Lost(s, id, prv, curr) : e = LossEvent(s, id, prv, curr, k)

LEMMA StreamTells ==
  ASSUME Atoms, NEW s \in Tables, NEW id, NEW prv, NEW curr,
         id \in DOMAIN prv.characters, id \in DOMAIN curr.characters,
         s = "titles" \/ curr.characters[id].is_dead = FALSE, prv.titles.row # << >>
  PROVE  TellsKeys(s, id, prv, curr)
<1> SUFFICES ASSUME NEW e
             PROVE  /\ e \in DiffTracked(id, prv, curr) /\ e.t \in Streams[s].gain <=>
                         \E k \in Gained(s, id, prv, curr) : e = GainEvent(s, id, prv, curr, k)
                    /\ e \in DiffTracked(id, prv, curr) /\ e.t \in Streams[s].loss <=>
                         \E k \in Lost(s, id, prv, curr) : e = LossEvent(s, id, prv, curr, k)
  BY DEF TellsKeys
<1>0. PICK char : char = curr.characters[id]
  OBVIOUS
<1>1. e.t \in Streams[s].gain \cup Streams[s].loss =>
        (e \in DiffTracked(id, prv, curr) <=> e \in Differ(s, id, char, prv, curr))
  BY <1>0, StreamTypes
<1>2. s # "titles" => char.is_dead = FALSE
  BY <1>0
<1>7. None \notin {"artifact_acquired", "artifact_lost", "camp_companion_joined", "camp_companion_left"}
  BY DEF Atoms, Told
<1>3. e \in Differ(s, id, char, prv, curr) <=>
        \/ \E k \in Gained(s, id, prv, curr) : e = GainEvent(s, id, prv, curr, k)
        \/ \E k \in Lost(s, id, prv, curr) : e = LossEvent(s, id, prv, curr, k)
  <2>1. CASE s = "titles"
    BY <2>1, TitlesTell DEF Differ, Gained, Lost
  <2>2. CASE s = "wars"
    <3>1. char.is_dead = FALSE
      BY <1>2, <2>2
    <3>2. e \in DiffWars(id, char, prv, curr) <=>
            \/ \E k \in curr.wars.of[id] \ prv.wars.of[id] : e = GainEvent("wars", id, prv, curr, k)
            \/ \E k \in prv.wars.of[id] \ curr.wars.of[id] : e = LossEvent("wars", id, prv, curr, k)
      BY <3>1 DEF DiffWars, EventsWith, GainEvent, WarGain, LossEvent, WarLoss, WarEvent
    <3> QED  BY <2>2, <3>2 DEF Differ, Gained, Lost
  <2>3. CASE s = "artifacts"
    <3>1. char.is_dead = FALSE
      BY <1>2, <2>3
    <3>2. e \in DiffArtifacts(id, char, prv, curr) <=>
            \/ \E k \in curr.artifacts.of[id] \ prv.artifacts.of[id] : e = GainEvent("artifacts", id, prv, curr, k)
            \/ \E k \in prv.artifacts.of[id] \ curr.artifacts.of[id] : e = LossEvent("artifacts", id, prv, curr, k)
      BY <3>1, <1>7 DEF DiffArtifacts, SetDiffer, Events, GainEvent, LossEvent
    <3> QED  BY <2>3, <3>2 DEF Differ, Gained, Lost
  <2>4. CASE s = "court"
    <3>1. char.is_dead = FALSE
      BY <1>2, <2>4
    <3>2. e \in DiffCourtPositions(id, char, prv, curr) <=>
            \/ \E k \in curr.court.of[id] \ prv.court.of[id] : e = GainEvent("court", id, prv, curr, k)
            \/ \E k \in prv.court.of[id] \ curr.court.of[id] : e = LossEvent("court", id, prv, curr, k)
      BY <3>1, <1>7 DEF DiffCourtPositions, SetDiffer, Events, GainEvent, CourtEvent, LossEvent
    <3> QED  BY <2>4, <3>2 DEF Differ, Gained, Lost
  <2> QED  BY <2>1, <2>2, <2>3, <2>4 DEF Tables
<1>4. \A k : GainEvent(s, id, prv, curr, k).t \in Streams[s].gain
  BY GainKeyed DEF KeyedEvent
<1>5. \A k : LossEvent(s, id, prv, curr, k).t \in Streams[s].loss
  BY LossKeyed DEF KeyedEvent
<1>6. Streams[s].gain \cap Streams[s].loss = {}
  BY DEF Tables, Streams
<1> QED  BY <1>1, <1>3, <1>4, <1>5, <1>6

-----------------------------------------------------------------------------
(* Gains and losses, counted.                                              *)

\* What a diff needs of the snapshot it starts from: the tables of a save name
\* finitely many rows for a character, there is a title, and the index of the
\* titles is that of their holders.
SnapOK(snap) ==
  /\ snap.date \in Nat
  /\ \A s \in Tables, c \in Char : IsFiniteSet(snap[s].of[c]) /\ snap[s].of[c] \subseteq Nat
  /\ snap.titles.row # << >>
  /\ \A c \in Char : snap.titles.of[c] =
       {t \in DOMAIN snap.titles.row : snap.titles.row[t].holder = c}

GainsIn(events, s, c) == {e \in events : e.c = c /\ e.t \in Streams[s].gain}
LossesIn(events, s, c) == {e \in events : e.c = c /\ e.t \in Streams[s].loss}

\* What is told of a title that c gave up to d, or that d took from c.
ToldLoss(events, c, d, t) ==
  {e \in events : /\ e.c = c /\ e.t = "title_relinquished"
                  /\ e.p.title_id = t /\ Get(e.p, "to_holder_id") = d}
ToldGain(events, c, d, t) ==
  {e \in events : /\ e.c = d /\ e.t = "title_acquired"
                  /\ e.p.title_id = t /\ Get(e.p, "from_holder_id") = c}

\* The gains and losses told of c account for what it holds in the baseline.
Balanced(c, s) ==
  /\ first.held[s][c] \in Nat
  /\ IsFiniteSet(GainsIn(db.events, s, c)) /\ IsFiniteSet(LossesIn(db.events, s, c))
  /\ first.held[s][c] + Cardinality(GainsIn(db.events, s, c))
       - Cardinality(LossesIn(db.events, s, c)) = Cardinality(prev[s].of[c])

\* Both sides of a passing title have been told equally often.
Mirrored(c, d, t) ==
  /\ IsFiniteSet(ToldLoss(db.events, c, d, t)) /\ IsFiniteSet(ToldGain(db.events, c, d, t))
  /\ Cardinality(ToldLoss(db.events, c, d, t)) = Cardinality(ToldGain(db.events, c, d, t))

\* The baseline against the game and the chronicle: everything told of a stream
\* is dated, no later than the baseline; the baseline knows who is not pruned,
\* and who is dead in it stays so.
HoldInv ==
  /\ facet \in Facets
  /\ WorldOK(world)
  /\ db = [rows |-> db.rows, events |-> db.events]
  /\ stale \subseteq Tracked
  /\ prev = None => db.events = {}
  /\ prev # None =>
       /\ SnapOK(prev) /\ prev.date <= world.date
       /\ \A e \in db.events : e.t \in Told \ {"death"} => e.d \in Nat /\ e.d <= prev.date
       /\ \A c \in Tracked \ stale :
            /\ world.life[c] # "gone" => c \in DOMAIN prev.characters
            /\ c \in DOMAIN prev.characters =>
                 /\ prev.characters[c].is_dead \in BOOLEAN
                 /\ prev.characters[c].is_dead => world.life[c] \in {"unprunable", "prunable", "gone"}
                 /\ ~prev.characters[c].is_dead => \A s \in Tables : Balanced(c, s)
       /\ \A c, d \in Tracked \ stale :
            {c, d} \subseteq DOMAIN prev.characters /\ c # d => \A t \in {1, 2} : Mirrored(c, d, t)

\* The reverse index of a table lists rows of the table.
LEMMA IndexedRows ==
  ASSUME NEW w, WorldOK(w), NEW s \in Tables, NEW c \in Char
  PROVE  ParseSave(Save(w))[s].of[c] \subseteq DOMAIN w[s]
<1>1. /\ Save(w).titles = w.titles /\ Save(w).wars = w.wars
      /\ Save(w).artifacts = w.artifacts /\ Save(w).court = w.court
  BY DEF Save
<1>2. PICK raw : raw = Save(w)
  OBVIOUS
<1>3. CASE s = "titles"
  <2>1. PICK kept, rows : /\ kept = Restrict(raw.titles, {k \in Records(raw.titles) : raw.titles[k].key # None})
                          /\ DOMAIN rows = DOMAIN kept
                          /\ ParseTitles(raw).of = ReverseIndex(rows, LAMBDA r : {r.holder})
    BY DEF ParseTitles
  <2>2. ParseTitles(raw).of[c] \subseteq DOMAIN rows
    BY <2>1 DEF ReverseIndex, Records
  <2>3. DOMAIN rows \subseteq DOMAIN raw.titles
    BY <2>1 DEF Restrict, Records
  <2>4. ParseSave(raw)["titles"] = ParseTitles(raw)
    BY DEF ParseSave
  <2> QED  BY <1>1, <1>2, <1>3, <2>2, <2>3, <2>4
<1>4. CASE s = "wars"
  <2>1. ParseWars(raw).of[c] \subseteq DOMAIN raw.wars
    BY DEF ParseWars, ReverseIndex, Records
  <2>2. ParseSave(raw)["wars"] = ParseWars(raw)
    BY DEF ParseSave
  <2> QED  BY <1>1, <1>2, <1>4, <2>1, <2>2
<1>5. CASE s = "artifacts"
  <2>1. ParseArtifacts(raw).of[c] \subseteq DOMAIN raw.artifacts
    BY DEF ParseArtifacts, ReverseIndex, Records
  <2>2. ParseSave(raw)["artifacts"] = ParseArtifacts(raw)
    BY DEF ParseSave
  <2> QED  BY <1>1, <1>2, <1>5, <2>1, <2>2
<1>6. CASE s = "court"
  <2>1. ParseCourtPositions(raw).of[c] \subseteq DOMAIN raw.court
    BY DEF ParseCourtPositions, ReverseIndex, Records, Restrict
  <2>2. ParseSave(raw)["court"] = ParseCourtPositions(raw)
    BY DEF ParseSave
  <2> QED  BY <1>1, <1>2, <1>6, <2>1, <2>2
<1> QED  BY <1>3, <1>4, <1>5, <1>6 DEF Tables

\* The titles: some exist, and each one is listed under its holder.
LEMMA IndexedTitles ==
  ASSUME Atoms, NEW w, WorldOK(w)
  PROVE  LET titles == ParseSave(Save(w)).titles
         IN  /\ titles.row # << >>
             /\ \A c \in Char : titles.of[c] = {t \in DOMAIN titles.row : titles.row[t].holder = c}
<1>1. PICK raw : raw = Save(w)
  OBVIOUS
<1>2. raw.titles = w.titles
  BY <1>1 DEF Save
<1>3. PICK kept, tiers, rows, index :
        /\ kept = Restrict(raw.titles, {k \in Records(raw.titles) : raw.titles[k].key # None})
        /\ rows = [t \in DOMAIN kept |-> [kept[t] EXCEPT !.tier = tiers[t]]]
        /\ index = ReverseIndex(rows, LAMBDA r : {r.holder})
        /\ ParseTitles(raw) = [row |-> rows, of |-> index]
  BY Zenon DEF ParseTitles
<1>4. \A t \in DOMAIN rows : rows[t] # Junk
  <2> SUFFICES ASSUME NEW t \in DOMAIN rows  PROVE  rows[t] # Junk
    OBVIOUS
  <2>1. rows[t] = [x \in DOMAIN rows[t] |-> rows[t][x]]
    BY <1>3
  <2> QED  BY <2>1 DEF Atoms
<1>5. Records(rows) = DOMAIN rows
  BY <1>4 DEF Records
<1>6. 3 \in DOMAIN rows
  <2>1. w.titles[3] = Land(3, None) /\ 3 \in DOMAIN w.titles
    BY DEF WorldOK
  <2>2. PICK l : l = Land(3, None)
    OBVIOUS
  <2>3. l # Junk /\ l.key # None
    BY <2>2 DEF Land, Atoms
  <2> QED  BY <1>2, <1>3, <2>1, <2>2, <2>3 DEF Records, Restrict
<1>7. rows # << >>
  BY <1>6
<1>8. \A c \in Char : index[c] = {t \in DOMAIN rows : rows[t].holder = c}
  BY <1>3, <1>5 DEF ReverseIndex
<1>9. ParseSave(raw).titles = ParseTitles(raw)
  BY DEF ParseSave
<1>10. ParseTitles(raw).row = rows /\ ParseTitles(raw).of = index
  <2>1. ParseTitles(raw) = [row |-> rows, of |-> index]
    BY <1>3, Zenon
  <2> QED  BY <2>1
<1> QED  BY <1>1, <1>7, <1>8, <1>9, <1>10

LEMMA SnapshotOK ==
  ASSUME Atoms, NEW w, WorldOK(w)
  PROVE  SnapOK(ParseSave(Save(w)))
<1>1. PICK snap : snap = ParseSave(Save(w))
  OBVIOUS
<1>2. snap.date \in Nat
  BY <1>1, Snapshot DEF WorldOK
<1>3. ASSUME NEW s \in Tables, NEW c \in Char
      PROVE  IsFiniteSet(snap[s].of[c]) /\ snap[s].of[c] \subseteq Nat
  <2>1. snap[s].of[c] \subseteq DOMAIN w[s]
    BY <1>1, IndexedRows
  <2>2. DOMAIN w[s] \subseteq 1..4
    BY DEF WorldOK, Tables
  <2>3. snap[s].of[c] \in SUBSET Nat /\ \A k \in snap[s].of[c] : k <= 4
    BY <2>1, <2>2
  <2>4. PICK n, S : n \in Nat /\ n = 4 /\ S = snap[s].of[c]
    OBVIOUS
  <2>5. IsFiniteSet(S)
    BY <2>3, <2>4, FS_BoundedSetOfNaturals
  <2> QED  BY <2>3, <2>4, <2>5
<1>4. /\ snap.titles.row # << >>
      /\ \A c \in Char : snap.titles.of[c] = {t \in DOMAIN snap.titles.row : snap.titles.row[t].holder = c}
  BY <1>1, IndexedTitles
<1> QED  BY <1>1, <1>2, <1>3, <1>4 DEF SnapOK

\* One element for each key, all different, counts the keys.
LEMMA ImageCount ==
  ASSUME NEW K, IsFiniteSet(K), NEW f, DOMAIN f = K, f = [k \in K |-> f[k]],
         \A j, k \in K : f[j] = f[k] => j = k
  PROVE  IsFiniteSet({f[k] : k \in K}) /\ Cardinality({f[k] : k \in K}) = Cardinality(K)
<1>1. PICK T : T = {f[k] : k \in K}
  OBVIOUS
<1>2. f \in [K -> T] /\ \A t \in T : \E k \in K : f[k] = t
  BY <1>1
<1>3. f \in Bijection(K, T)
  BY <1>2 DEF Bijection, Injection, Surjection, IsInjective
<1>4. ExistsBijection(K, T)
  BY <1>3 DEF ExistsBijection
<1> QED  BY <1>1, <1>4, FS_Bijection

\* Disjoint sets add up.
LEMMA FreshCount ==
  ASSUME NEW A, NEW B, IsFiniteSet(A), IsFiniteSet(B), A \cap B = {}
  PROVE  IsFiniteSet(A \cup B) /\ Cardinality(A \cup B) = Cardinality(A) + Cardinality(B)
<1>1. Cardinality(A) \in Nat /\ Cardinality(B) \in Nat
  BY FS_CardinalityType
<1>2. Cardinality(A \cap B) = 0
  BY FS_EmptySet
<1>3. IsFiniteSet(A \cup B) /\ Cardinality(A \cup B) = Cardinality(A) + Cardinality(B) - Cardinality(A \cap B)
  BY FS_Union
<1> QED  BY <1>1, <1>2, <1>3

\* What enters a set and what leaves it account for its size.
LEMMA ChangeCount ==
  ASSUME NEW A, NEW B, IsFiniteSet(A), IsFiniteSet(B)
  PROVE  /\ IsFiniteSet(A \ B) /\ IsFiniteSet(B \ A)
         /\ Cardinality(A \ B) \in Nat /\ Cardinality(B \ A) \in Nat
         /\ Cardinality(A) \in Nat /\ Cardinality(B) \in Nat
         /\ Cardinality(A) + Cardinality(B \ A) - Cardinality(A \ B) = Cardinality(B)
<1>1. Cardinality(A) \in Nat /\ Cardinality(B) \in Nat
  BY FS_CardinalityType
<1>2. IsFiniteSet(A \ B) /\ Cardinality(A \ B) = Cardinality(A) - Cardinality(A \cap B)
  BY FS_Difference
<1>3. IsFiniteSet(B \ A) /\ Cardinality(B \ A) = Cardinality(B) - Cardinality(B \cap A)
  BY FS_Difference
<1>4. A \cap B = B \cap A
  OBVIOUS
<1>5. IsFiniteSet(A \cap B)
  BY FS_Intersection
<1>6. Cardinality(A \cap B) \in Nat
  BY <1>5, FS_CardinalityType
<1>7. Cardinality(A \ B) \in Nat /\ Cardinality(B \ A) \in Nat
  BY <1>2, <1>3, FS_CardinalityType
<1>8. PICK a, b, x, y, z : /\ a = Cardinality(A) /\ b = Cardinality(B) /\ x = Cardinality(A \ B)
                           /\ y = Cardinality(B \ A) /\ z = Cardinality(A \cap B)
  OBVIOUS
<1>9. x = a - z /\ y = b - z
  BY <1>2, <1>3, <1>4, <1>8
<1>10. a \in Nat /\ b \in Nat /\ x \in Nat /\ y \in Nat /\ z \in Nat
  BY <1>1, <1>6, <1>7, <1>8
<1>11. a + y - x = b
  BY <1>9, <1>10
<1> QED  BY <1>1, <1>2, <1>3, <1>7, <1>8, <1>11

\* New elements, one per key, told apart by their key and from the old ones by
\* their date.
Labels(f, K, key, date) ==
  /\ DOMAIN f = K /\ f = [k \in K |-> f[k]]
  /\ \A k \in K : f[k].p[key] = k /\ f[k].d = date
NoneDated(old, date) == \A x \in old : x.d # date
Adds(new, old, f, K) == \A x : x \in new <=> x \in old \/ \E k \in K : x = f[k]
Counts(new, old, K) == IsFiniteSet(new) /\ Cardinality(new) = Cardinality(old) + Cardinality(K)

LEMMA ToldCount ==
  ASSUME NEW old, IsFiniteSet(old), NEW K, IsFiniteSet(K), NEW f, NEW key, NEW date,
         Labels(f, K, key, date), NoneDated(old, date), NEW new, Adds(new, old, f, K)
  PROVE  Counts(new, old, K)
<1>1. PICK told : told = {f[k] : k \in K}
  OBVIOUS
<1>2. IsFiniteSet(told) /\ Cardinality(told) = Cardinality(K)
  BY <1>1, ImageCount DEF Labels
<1>3. old \cap told = {}
  BY <1>1 DEF Labels, NoneDated
<1>4. new = old \cup told
  BY <1>1 DEF Adds
<1> QED  BY <1>2, <1>3, <1>4, FreshCount DEF Counts

\* Every event of a diff is one of its character; what the streams tell has the
\* date of the window, and both snapshots know the character.
LEMMA TrackedEvent ==
  ASSUME NEW id, NEW prv, NEW curr, NEW e \in DiffTracked(id, prv, curr)
  PROVE  /\ IsEvent(e) /\ e.c = id
         /\ e.t \in Told \ {"death"} =>
              /\ id \in DOMAIN prv.characters /\ id \in DOMAIN curr.characters
              /\ e.d = None
<1>1. IsEvent(e) /\ e.c = id
  <2>1. CASE LivingEvent(id, e)
    BY <2>1 DEF LivingEvent, IsEvent
  <2>2. CASE e \in MakeDeath(id, curr.characters[id])
    BY <2>2, DeathEvent DEF IsEvent
  <2> QED  BY <2>1, <2>2, TrackedDeath
<1>2. ASSUME e.t \in Told \ {"death"}
      PROVE  id \in DOMAIN prv.characters /\ id \in DOMAIN curr.characters
  <2>1. id \in DOMAIN curr.characters
    BY DEF DiffTracked
  <2>2. CASE id \notin DOMAIN prv.characters
    <3>1. e \in MakeDeath(id, curr.characters[id])
      BY <2>1, <2>2 DEF DiffTracked
    <3> QED  BY <1>2, <3>1, DeathEvent
  <2> QED  BY <2>1, <2>2
<1>3. ASSUME e.t \in Told \ {"death"}
      PROVE  e.d = None
  <2>1. PICK s \in Tables : e.t \in Streams[s].gain \cup Streams[s].loss
    BY <1>3 DEF Tables, Told, Streams
  <2>2. PICK char : char = curr.characters[id]
    OBVIOUS
  <2>3. e \in Differ(s, id, char, prv, curr)
    BY <1>2, <1>3, <2>1, <2>2, StreamTypes
  <2> QED  BY <2>3, TitlesLiving, WarsLiving, ArtifactsLiving, CourtLiving DEF Differ, Tables
<1> QED  BY <1>1, <1>2, <1>3

\* The stored form keeps the key.
LEMMA StoredKey ==
  ASSUME NEW s, NEW types, NEW id, NEW k, NEW e, KeyedEvent(s, types, id, k, e), k # None, NEW date
  PROVE  /\ Stored(e, date).c = id /\ Stored(e, date).t \in types /\ Stored(e, date).d = date
         /\ KeyOf[s] \in DOMAIN Stored(e, date).p /\ Stored(e, date).p[KeyOf[s]] = k
<1>1. /\ Stored(e, date).c = e.c
      /\ Stored(e, date).t = e.t
      /\ Stored(e, date).d = IF e.d = None THEN date ELSE e.d
      /\ Stored(e, date).p = Restrict(e.p, {f \in DOMAIN e.p : e.p[f] # None})
  BY StoredShape DEF KeyedEvent
<1> QED  BY <1>1 DEF KeyedEvent, Restrict

\* What a tick adds to what is told of a stream.
StreamAdds(s, c, prv, curr, before, after) ==
  \A x :
    /\ x \in GainsIn(after, s, c) <=>
         \/ x \in GainsIn(before, s, c)
         \/ \E k \in Gained(s, c, prv, curr) : x = Stored(GainEvent(s, c, prv, curr, k), curr.date)
    /\ x \in LossesIn(after, s, c) <=>
         \/ x \in LossesIn(before, s, c)
         \/ \E k \in Lost(s, c, prv, curr) : x = Stored(LossEvent(s, c, prv, curr, k), curr.date)

LEMMA TickStream ==
  ASSUME Atoms, db = [rows |-> db.rows, events |-> db.events], Tick,
         NEW curr, curr = ParseSave(Save(world)), NEW c \in Tracked, NEW s \in Tables,
         c \in DOMAIN prev.characters, c \in DOMAIN curr.characters,
         s = "titles" \/ curr.characters[c].is_dead = FALSE, prev.titles.row # << >>
  PROVE  StreamAdds(s, c, prev, curr, db.events, db'.events)
<1>1. \A y : y \in db'.events <=>
        \/ y \in db.events
        \/ \E id \in Tracked : \E e \in DiffTracked(id, prev, curr) : y = Stored(e, curr.date)
  BY TickStores
<1>2. ASSUME NEW id \in Tracked, NEW e \in DiffTracked(id, prev, curr)
      PROVE  Stored(e, curr.date).c = id /\ Stored(e, curr.date).t = e.t
  <2>1. IsEvent(e) /\ e.c = id
    BY TrackedEvent
  <2> QED  BY <2>1, StoredShape
<1>3. TellsKeys(s, c, prev, curr)
  BY StreamTells
<1>4. \A x : x \in GainsIn(db'.events, s, c) <=>
        \/ x \in GainsIn(db.events, s, c)
        \/ \E e \in DiffTracked(c, prev, curr) : e.t \in Streams[s].gain /\ x = Stored(e, curr.date)
  BY <1>1, <1>2 DEF GainsIn
<1>5. \A x : x \in LossesIn(db'.events, s, c) <=>
        \/ x \in LossesIn(db.events, s, c)
        \/ \E e \in DiffTracked(c, prev, curr) : e.t \in Streams[s].loss /\ x = Stored(e, curr.date)
  BY <1>1, <1>2 DEF LossesIn
<1> QED  BY <1>3, <1>4, <1>5 DEF TellsKeys, StreamAdds

\* One tick keeps the balance of a character that lives on.
LEMMA TickBalanced ==
  ASSUME Atoms, HoldInv, Tick,
         NEW curr, curr = ParseSave(Save(world)), NEW c \in Tracked \ stale, NEW s \in Tables,
         c \in DOMAIN prev.characters, c \in DOMAIN curr.characters,
         curr.characters[c].is_dead = FALSE, Balanced(c, s)
  PROVE  Balanced(c, s)'
<1>1. /\ prev # None /\ prev' = curr /\ first' = first /\ curr.date > prev.date
      /\ db = [rows |-> db.rows, events |-> db.events]
  BY TickStores DEF HoldInv
<1>2. SnapOK(prev) /\ SnapOK(curr) /\ c \in Char
  BY <1>1, SnapshotOK, TrackedAssumption DEF HoldInv
<1>3. StreamAdds(s, c, prev, curr, db.events, db'.events)
  <2>1. prev.titles.row # << >>
    BY <1>2 DEF SnapOK
  <2> QED  BY <1>1, <2>1, TickStream
<1> DEFINE was == prev[s].of[c]
           is  == curr[s].of[c]
<1>4. /\ IsFiniteSet(was) /\ IsFiniteSet(is) /\ was \subseteq Nat /\ is \subseteq Nat
      /\ Gained(s, c, prev, curr) = is \ was /\ Lost(s, c, prev, curr) = was \ is
  BY <1>2 DEF SnapOK, Gained, Lost
<1> HIDE DEF was, is
<1>5. /\ IsFiniteSet(was \ is) /\ IsFiniteSet(is \ was)
      /\ Cardinality(was \ is) \in Nat /\ Cardinality(is \ was) \in Nat
      /\ Cardinality(was) \in Nat /\ Cardinality(is) \in Nat
      /\ Cardinality(was) + Cardinality(is \ was) - Cardinality(was \ is) = Cardinality(is)
  BY <1>4, ChangeCount
<1>6. \A k \in Nat : k # None
  BY DEF Atoms
<1>7. \A x \in db.events : x.t \in Told \ {"death"} => x.d # curr.date
  BY <1>1, <1>2 DEF HoldInv, SnapOK
<1>8. Streams[s].gain \cup Streams[s].loss \subseteq Told \ {"death"}
  BY DEF Tables, Streams, Told
<1>9. Counts(GainsIn(db'.events, s, c), GainsIn(db.events, s, c), is \ was)
  <2>1. PICK f : f = [k \in is \ was |-> Stored(GainEvent(s, c, prev, curr, k), curr.date)]
    OBVIOUS
  <2>2. Labels(f, is \ was, KeyOf[s], curr.date)
    <3>1. ASSUME NEW k \in is \ was  PROVE  f[k].p[KeyOf[s]] = k /\ f[k].d = curr.date
      <4>1. KeyedEvent(s, Streams[s].gain, c, k, GainEvent(s, c, prev, curr, k)) /\ k # None
        BY <1>4, <1>6, GainKeyed
      <4> QED  BY <2>1, <4>1, StoredKey
    <3> QED  BY <2>1, <3>1 DEF Labels
  <2>3. NoneDated(GainsIn(db.events, s, c), curr.date)
    BY <1>7, <1>8 DEF GainsIn, NoneDated
  <2>4. IsFiniteSet(GainsIn(db.events, s, c))
    BY DEF Balanced
  <2>5. Adds(GainsIn(db'.events, s, c), GainsIn(db.events, s, c), f, is \ was)
    <3>1. \A x : x \in GainsIn(db'.events, s, c) <=>
            \/ x \in GainsIn(db.events, s, c)
            \/ \E k \in Gained(s, c, prev, curr) : x = Stored(GainEvent(s, c, prev, curr, k), curr.date)
      BY <1>3, Zenon DEF StreamAdds
    <3>2. \A k \in Gained(s, c, prev, curr) : f[k] = Stored(GainEvent(s, c, prev, curr, k), curr.date)
      BY <1>4, <2>1
    <3>3. Adds(GainsIn(db'.events, s, c), GainsIn(db.events, s, c), f, Gained(s, c, prev, curr))
      BY <3>1, <3>2 DEF Adds
    <3> QED  BY <1>4, <3>3
  <2> QED  BY <1>5, <2>2, <2>3, <2>4, <2>5, ToldCount
<1>10. Counts(LossesIn(db'.events, s, c), LossesIn(db.events, s, c), was \ is)
  <2>1. PICK f : f = [k \in was \ is |-> Stored(LossEvent(s, c, prev, curr, k), curr.date)]
    OBVIOUS
  <2>2. Labels(f, was \ is, KeyOf[s], curr.date)
    <3>1. ASSUME NEW k \in was \ is  PROVE  f[k].p[KeyOf[s]] = k /\ f[k].d = curr.date
      <4>1. KeyedEvent(s, Streams[s].loss, c, k, LossEvent(s, c, prev, curr, k)) /\ k # None
        BY <1>4, <1>6, LossKeyed
      <4> QED  BY <2>1, <4>1, StoredKey
    <3> QED  BY <2>1, <3>1 DEF Labels
  <2>3. NoneDated(LossesIn(db.events, s, c), curr.date)
    BY <1>7, <1>8 DEF LossesIn, NoneDated
  <2>4. IsFiniteSet(LossesIn(db.events, s, c))
    BY DEF Balanced
  <2>5. Adds(LossesIn(db'.events, s, c), LossesIn(db.events, s, c), f, was \ is)
    <3>1. \A x : x \in LossesIn(db'.events, s, c) <=>
            \/ x \in LossesIn(db.events, s, c)
            \/ \E k \in Lost(s, c, prev, curr) : x = Stored(LossEvent(s, c, prev, curr, k), curr.date)
      BY <1>3, Zenon DEF StreamAdds
    <3>2. \A k \in Lost(s, c, prev, curr) : f[k] = Stored(LossEvent(s, c, prev, curr, k), curr.date)
      BY <1>4, <2>1
    <3>3. Adds(LossesIn(db'.events, s, c), LossesIn(db.events, s, c), f, Lost(s, c, prev, curr))
      BY <3>1, <3>2 DEF Adds
    <3> QED  BY <1>4, <3>3
  <2> QED  BY <1>5, <2>2, <2>3, <2>4, <2>5, ToldCount
<1>11. first.held[s][c] + (Cardinality(GainsIn(db.events, s, c)) + Cardinality(is \ was))
         - (Cardinality(LossesIn(db.events, s, c)) + Cardinality(was \ is)) = Cardinality(is)
  <2>1. PICK g, l, x, y, h : /\ g = Cardinality(GainsIn(db.events, s, c)) /\ x = Cardinality(is \ was)
                             /\ l = Cardinality(LossesIn(db.events, s, c)) /\ y = Cardinality(was \ is)
                             /\ h = first.held[s][c]
    OBVIOUS
  <2>2. g \in Nat /\ l \in Nat /\ x \in Nat /\ y \in Nat /\ h \in Nat
    BY <1>5, <2>1, FS_CardinalityType DEF Balanced
  <2>3. h + g - l = Cardinality(was)
    BY <2>1 DEF Balanced, was
  <2>4. h + (g + x) - (l + y) = Cardinality(is)
    BY <1>5, <2>1, <2>2, <2>3
  <2> QED  BY <2>1, <2>4
<1> QED  BY <1>1, <1>9, <1>10, <1>11 DEF Balanced, Counts, is

\* The stored events of a title that passes name the title and the other side.
LEMMA LossNames ==
  ASSUME Atoms, NEW c, NEW prv, NEW curr, NEW k \in Nat, NEW date, NEW x,
         x = Stored(LossEvent("titles", c, prv, curr, k), date)
  PROVE  /\ x.c = c /\ x.t = "title_relinquished" /\ x.d = date
         /\ x.p.title_id = k /\ Get(x.p, "to_holder_id") = HolderIn(curr.titles.row, k)
<1>1. PICK e, to : e = TitleLoss(c, prv, curr, k) /\ to = HolderIn(curr.titles.row, k)
  OBVIOUS
<1>2. /\ IsEvent(e) /\ e.c = c /\ e.t = "title_relinquished" /\ e.d = None
      /\ e.p.title_id = k /\ e.p.to_holder_id = to /\ {"title_id", "to_holder_id"} \subseteq DOMAIN e.p
  BY <1>1 DEF TitleLoss, With, IsEvent
<1>3. x = Stored(e, date)
  BY <1>1 DEF LossEvent
<1>4. /\ x.c = c /\ x.t = "title_relinquished" /\ x.d = date
      /\ x.p = Restrict(e.p, {f \in DOMAIN e.p : e.p[f] # None})
  BY <1>2, <1>3, StoredShape
<1>5. k # None
  BY DEF Atoms
<1> QED  BY <1>1, <1>2, <1>4, <1>5 DEF Restrict, Get

LEMMA GainNames ==
  ASSUME Atoms, NEW c, NEW prv, NEW curr, NEW k \in Nat, NEW date, NEW x,
         x = Stored(GainEvent("titles", c, prv, curr, k), date)
  PROVE  /\ x.c = c /\ x.d = date /\ x.p.title_id = k
         /\ x.t = IF k \in DOMAIN prv.titles.row THEN "title_acquired" ELSE "title_created"
         /\ k \in DOMAIN prv.titles.row => Get(x.p, "from_holder_id") = HolderIn(prv.titles.row, k)
<1>1. PICK e, from : e = TitleGain(c, prv, curr, k) /\ from = HolderIn(prv.titles.row, k)
  OBVIOUS
<1>2. /\ IsEvent(e) /\ e.c = c /\ e.d = None
      /\ e.t = IF k \in DOMAIN prv.titles.row THEN "title_acquired" ELSE "title_created"
      /\ e.p.title_id = k /\ "title_id" \in DOMAIN e.p
      /\ k \in DOMAIN prv.titles.row => "from_holder_id" \in DOMAIN e.p /\ e.p.from_holder_id = from
  BY <1>1 DEF TitleGain, With, Event, IsEvent
<1>3. x = Stored(e, date)
  BY <1>1 DEF GainEvent
<1>4. /\ x.c = c /\ x.t = e.t /\ x.d = date
      /\ x.p = Restrict(e.p, {f \in DOMAIN e.p : e.p[f] # None})
  BY <1>2, <1>3, StoredShape
<1>5. k # None
  BY DEF Atoms
<1> QED  BY <1>1, <1>2, <1>4, <1>5 DEF Restrict, Get

\* One tick tells both sides of a title that passes, or neither.
Passes(c, d, t, prv, curr) ==
  /\ t \in DOMAIN prv.titles.row /\ prv.titles.row[t].holder = c
  /\ t \in DOMAIN curr.titles.row /\ curr.titles.row[t].holder = d

LEMMA TickMirrored ==
  ASSUME Atoms, HoldInv, Tick,
         NEW curr, curr = ParseSave(Save(world)), NEW c \in Tracked \ stale, NEW d \in Tracked \ stale,
         c # d, {c, d} \subseteq DOMAIN prev.characters, {c, d} \subseteq DOMAIN curr.characters,
         NEW t \in {1, 2}, Mirrored(c, d, t)
  PROVE  Mirrored(c, d, t)'
<1>1. /\ prev # None /\ prev' = curr /\ first' = first /\ curr.date > prev.date
      /\ db = [rows |-> db.rows, events |-> db.events]
  BY TickStores DEF HoldInv
<1>2. SnapOK(prev) /\ SnapOK(curr) /\ c \in Char /\ d \in Char
  BY <1>1, SnapshotOK, TrackedAssumption DEF HoldInv
<1>3. /\ StreamAdds("titles", c, prev, curr, db.events, db'.events)
      /\ StreamAdds("titles", d, prev, curr, db.events, db'.events)
  <2>1. prev.titles.row # << >> /\ "titles" \in Tables
    BY <1>2 DEF SnapOK, Tables
  <2> QED  BY <1>1, <2>1, TickStream
<1>4. c # None /\ d # None
  BY <1>2 DEF Atoms
<1>5. \A x \in db.events : x.t \in Told \ {"death"} => x.d # curr.date
  BY <1>1, <1>2 DEF HoldInv, SnapOK
<1>6. /\ \A k \in Lost("titles", c, prev, curr) :
           k \in Nat /\ k \in DOMAIN prev.titles.row /\ prev.titles.row[k].holder = c
      /\ \A k \in Gained("titles", d, prev, curr) :
           k \in Nat /\ k \in DOMAIN curr.titles.row /\ curr.titles.row[k].holder = d
  BY <1>2 DEF SnapOK, Lost, Gained, Tables
<1>7. Passes(c, d, t, prev, curr) => t \in Lost("titles", c, prev, curr) /\ t \in Gained("titles", d, prev, curr)
  BY <1>2 DEF SnapOK, Lost, Gained, Passes
<1>8. PICK xl, xg : /\ xl = Stored(LossEvent("titles", c, prev, curr, t), curr.date)
                    /\ xg = Stored(GainEvent("titles", d, prev, curr, t), curr.date)
  OBVIOUS
<1> DEFINE oldL == ToldLoss(db.events, c, d, t)
           newL == ToldLoss(db'.events, c, d, t)
           oldG == ToldGain(db.events, c, d, t)
           newG == ToldGain(db'.events, c, d, t)
<1>9. \A x : x \in newL <=> x \in oldL \/ (Passes(c, d, t, prev, curr) /\ x = xl)
  <2> SUFFICES ASSUME NEW x  PROVE  x \in newL <=> x \in oldL \/ (Passes(c, d, t, prev, curr) /\ x = xl)
    OBVIOUS
  <2>1. x \in LossesIn(db'.events, "titles", c) <=>
          \/ x \in LossesIn(db.events, "titles", c)
          \/ \E k \in Lost("titles", c, prev, curr) : x = Stored(LossEvent("titles", c, prev, curr, k), curr.date)
    BY <1>3, Zenon DEF StreamAdds
  <2>2. ASSUME NEW k \in Lost("titles", c, prev, curr),
               x = Stored(LossEvent("titles", c, prev, curr, k), curr.date)
        PROVE  /\ x.c = c /\ x.t = "title_relinquished"
               /\ x.p.title_id = k /\ Get(x.p, "to_holder_id") = HolderIn(curr.titles.row, k)
    BY <1>6, <2>2, LossNames
  <2>3. \A k \in Lost("titles", c, prev, curr) : HolderIn(curr.titles.row, k) = d => Passes(c, d, k, prev, curr)
    BY <1>4, <1>6 DEF HolderIn, Passes
  <2>4. x \in newL <=> /\ x \in LossesIn(db'.events, "titles", c)
                       /\ x.p.title_id = t /\ Get(x.p, "to_holder_id") = d
    BY DEF ToldLoss, LossesIn, Streams
  <2>5. x \in oldL <=> /\ x \in LossesIn(db.events, "titles", c)
                       /\ x.p.title_id = t /\ Get(x.p, "to_holder_id") = d
    BY DEF ToldLoss, LossesIn, Streams
  <2>6. Passes(c, d, t, prev, curr) => HolderIn(curr.titles.row, t) = d
    BY DEF HolderIn, Passes
  <2> HIDE DEF oldL, newL
  <2>7. x \in newL => x \in oldL \/ (Passes(c, d, t, prev, curr) /\ x = xl)
    BY <1>8, <2>1, <2>2, <2>3, <2>4, <2>5
  <2>8. x \in oldL => x \in newL
    BY <2>1, <2>4, <2>5
  <2>9. Passes(c, d, t, prev, curr) /\ x = xl => x \in newL
    BY <1>7, <1>8, <2>1, <2>2, <2>4, <2>6
  <2> QED  BY <2>7, <2>8, <2>9
<1>10. \A x : x \in newG <=> x \in oldG \/ (Passes(c, d, t, prev, curr) /\ x = xg)
  <2> SUFFICES ASSUME NEW x  PROVE  x \in newG <=> x \in oldG \/ (Passes(c, d, t, prev, curr) /\ x = xg)
    OBVIOUS
  <2>1. x \in GainsIn(db'.events, "titles", d) <=>
          \/ x \in GainsIn(db.events, "titles", d)
          \/ \E k \in Gained("titles", d, prev, curr) : x = Stored(GainEvent("titles", d, prev, curr, k), curr.date)
    BY <1>3, Zenon DEF StreamAdds
  <2>2. ASSUME NEW k \in Gained("titles", d, prev, curr),
               x = Stored(GainEvent("titles", d, prev, curr, k), curr.date)
        PROVE  /\ x.c = d /\ x.p.title_id = k
               /\ x.t = "title_acquired" <=> k \in DOMAIN prev.titles.row
               /\ k \in DOMAIN prev.titles.row => Get(x.p, "from_holder_id") = HolderIn(prev.titles.row, k)
    <3>1. k \in Nat
      BY <1>6
    <3>2. /\ x.c = d /\ x.p.title_id = k
          /\ x.t = IF k \in DOMAIN prev.titles.row THEN "title_acquired" ELSE "title_created"
          /\ k \in DOMAIN prev.titles.row => Get(x.p, "from_holder_id") = HolderIn(prev.titles.row, k)
      BY <2>2, <3>1, GainNames
    <3> QED  BY <3>2
  <2>3. \A k \in Gained("titles", d, prev, curr) :
          HolderIn(prev.titles.row, k) = c => Passes(c, d, k, prev, curr)
    BY <1>4, <1>6 DEF HolderIn, Passes
  <2>4. x \in newG <=> /\ x \in GainsIn(db'.events, "titles", d) /\ x.t = "title_acquired"
                       /\ x.p.title_id = t /\ Get(x.p, "from_holder_id") = c
    BY DEF ToldGain, GainsIn, Streams
  <2>5. x \in oldG <=> /\ x \in GainsIn(db.events, "titles", d) /\ x.t = "title_acquired"
                       /\ x.p.title_id = t /\ Get(x.p, "from_holder_id") = c
    BY DEF ToldGain, GainsIn, Streams
  <2>6. Passes(c, d, t, prev, curr) => t \in DOMAIN prev.titles.row /\ HolderIn(prev.titles.row, t) = c
    BY DEF HolderIn, Passes
  <2> HIDE DEF oldG, newG
  <2>7. x \in newG => x \in oldG \/ (Passes(c, d, t, prev, curr) /\ x = xg)
    BY <1>8, <2>1, <2>2, <2>3, <2>4, <2>5
  <2>8. x \in oldG => x \in newG
    BY <2>1, <2>4, <2>5
  <2>9. Passes(c, d, t, prev, curr) /\ x = xg => x \in newG
    BY <1>7, <1>8, <2>1, <2>2, <2>4, <2>6
  <2> QED  BY <2>7, <2>8, <2>9
<1>11. xl.d = curr.date /\ xg.d = curr.date
  BY <1>8, LossNames, GainNames
<1>12. xl \notin oldL /\ xg \notin oldG
  <2>1. {"title_relinquished", "title_acquired"} \subseteq Told \ {"death"}
    BY DEF Told
  <2> QED  BY <1>5, <1>11, <2>1 DEF ToldLoss, ToldGain
<1>13. IsFiniteSet(oldL) /\ IsFiniteSet(oldG) /\ Cardinality(oldL) = Cardinality(oldG)
  BY DEF Mirrored
<1>14. Mirrored(c, d, t)' <=> IsFiniteSet(newL) /\ IsFiniteSet(newG) /\ Cardinality(newL) = Cardinality(newG)
  BY DEF Mirrored
<1> HIDE DEF oldL, newL, oldG, newG
<1>15. CASE Passes(c, d, t, prev, curr)
  <2>1. newL = oldL \cup {xl} /\ newG = oldG \cup {xg}
    BY <1>9, <1>10, <1>15
  <2>2. IsFiniteSet(newL) /\ Cardinality(newL) = Cardinality(oldL) + 1
    BY <1>12, <1>13, <2>1, FS_AddElement
  <2>3. IsFiniteSet(newG) /\ Cardinality(newG) = Cardinality(oldG) + 1
    BY <1>12, <1>13, <2>1, FS_AddElement
  <2> QED  BY <1>13, <1>14, <2>2, <2>3
<1>16. CASE ~Passes(c, d, t, prev, curr)
  <2>1. newL = oldL /\ newG = oldG
    BY <1>9, <1>10, <1>16
  <2> QED  BY <1>13, <1>14, <2>1
<1> QED  BY <1>15, <1>16

\* Nothing told of anything.
LEMMA NothingTold ==
  ASSUME db.events = {}, NEW c, NEW s, NEW d, NEW t
  PROVE  /\ GainsIn(db.events, s, c) = {} /\ LossesIn(db.events, s, c) = {}
         /\ Mirrored(c, d, t)
<1>1. /\ GainsIn(db.events, s, c) = {} /\ LossesIn(db.events, s, c) = {}
      /\ ToldLoss(db.events, c, d, t) = {} /\ ToldGain(db.events, c, d, t) = {}
  BY DEF GainsIn, LossesIn, ToldLoss, ToldGain
<1> QED  BY <1>1, FS_EmptySet DEF Mirrored

\* A first baseline balances itself.
LEMMA FirstHeld ==
  ASSUME NEW snap, SnapOK(snap), NEW c \in Char, NEW s \in Tables
  PROVE  /\ Holdings(snap).held[s][c] \in Nat
         /\ Holdings(snap).held[s][c] + Cardinality({}) - Cardinality({}) = Cardinality(snap[s].of[c])
<1>1. DOMAIN Streams = Tables
  BY DEF Streams, Tables
<1>2. Holdings(snap).held = [x \in DOMAIN Streams |-> [y \in Char |-> Cardinality(snap[x].of[y])]]
  BY Zenon DEF Holdings
<1>3. PICK n : n = Cardinality(snap[s].of[c])
  OBVIOUS
<1>4. n \in Nat
  BY <1>3, FS_CardinalityType DEF SnapOK
<1>5. Holdings(snap).held[s][c] = n
  BY <1>1, <1>2, <1>3
<1> QED  BY <1>3, <1>4, <1>5, FS_EmptySet

LEMMA InitHold ==
  ASSUME Atoms, Init
  PROVE  HoldInv
<1>1. facet \in Facets /\ stale \subseteq Tracked /\ db = [rows |-> [c \in Char |-> None], events |-> {}]
  BY DEF Init
<1>2. WorldOK(world)
  BY World0OK DEF Init
<1>3. db = [rows |-> db.rows, events |-> db.events] /\ db.events = {}
  BY <1>1
<1>4. ASSUME prev # None
      PROVE  /\ SnapOK(prev) /\ prev.date <= world.date
             /\ \A e \in db.events : e.t \in Told \ {"death"} => e.d \in Nat /\ e.d <= prev.date
             /\ \A c \in Tracked \ stale :
                  /\ world.life[c] # "gone" => c \in DOMAIN prev.characters
                  /\ c \in DOMAIN prev.characters =>
                       /\ prev.characters[c].is_dead \in BOOLEAN
                       /\ prev.characters[c].is_dead => world.life[c] \in {"unprunable", "prunable", "gone"}
                       /\ ~prev.characters[c].is_dead => \A s \in Tables : Balanced(c, s)
             /\ \A c, d \in Tracked \ stale :
                  {c, d} \subseteq DOMAIN prev.characters /\ c # d => \A t \in {1, 2} : Mirrored(c, d, t)
  <2>1. PICK snap : snap = ParseSave(Save(World0))
    OBVIOUS
  <2>2. /\ world = World0
        /\ DOMAIN prev.characters = Char \ stale
        /\ \A c \in Char \ stale : prev.characters[c] = snap.characters[c]
        /\ prev.date = 0
        /\ \A f \in Tables : prev[f] = snap[f]
        /\ first = Holdings(prev)
    BY <1>4, <2>1, FirstBaseline
  <2>3. SnapOK(snap)
    BY <2>1, World0OK, SnapshotOK
  <2>4. SnapOK(prev)
    BY <2>2, <2>3 DEF SnapOK, Tables
  <2>5. prev.date <= world.date
    BY <1>2, <2>2 DEF WorldOK
  <2>6. ASSUME NEW c \in Tracked \ stale
        PROVE  /\ c \in DOMAIN prev.characters
               /\ prev.characters[c].is_dead \in BOOLEAN
               /\ prev.characters[c].is_dead => world.life[c] \in {"unprunable", "prunable", "gone"}
               /\ \A s \in Tables : Balanced(c, s)
    <3>1. c \in Char \ stale /\ World0.life[c] = "alive"
      BY TrackedAssumption, World0OK
    <3>2. /\ snap.characters[c].is_dead \in BOOLEAN
          /\ snap.characters[c].is_dead <=> World0.life[c] \in {"unprunable", "prunable"}
      BY <2>1, <3>1, Signals, World0OK
    <3>3. ASSUME NEW s \in Tables  PROVE  Balanced(c, s)
      <4>1. GainsIn(db.events, s, c) = {} /\ LossesIn(db.events, s, c) = {}
        BY <1>3, NothingTold
      <4>2. /\ first.held[s][c] \in Nat
            /\ first.held[s][c] + Cardinality({}) - Cardinality({}) = Cardinality(prev[s].of[c])
        BY <2>2, <2>4, <3>1, FirstHeld
      <4> QED  BY <4>1, <4>2, FS_EmptySet DEF Balanced
    <3> QED  BY <2>2, <3>1, <3>2, <3>3
  <2>7. \A c, d, t : Mirrored(c, d, t)
    BY <1>3, NothingTold
  <2> QED  BY <1>3, <2>4, <2>5, <2>6, <2>7
<1> QED  BY <1>1, <1>2, <1>3, <1>4 DEF HoldInv

\* What a tick stores of a stream has the date of the save.
LEMMA TickDates ==
  ASSUME Atoms, HoldInv, Tick, NEW curr, curr = ParseSave(Save(world)), curr.date \in Nat,
         NEW x \in db'.events, x.t \in Told \ {"death"}
  PROVE  x.d \in Nat /\ x.d <= curr.date
<1>1. /\ prev # None /\ curr.date > prev.date
      /\ x \in db.events \/ \E id \in Tracked : \E e \in DiffTracked(id, prev, curr) : x = Stored(e, curr.date)
  BY TickStores DEF HoldInv
<1>2. CASE x \in db.events
  <2>1. x.d \in Nat /\ x.d <= prev.date /\ prev.date \in Nat
    BY <1>1, <1>2 DEF HoldInv, SnapOK
  <2> QED  BY <1>1, <2>1
<1>3. ASSUME NEW id \in Tracked, NEW e \in DiffTracked(id, prev, curr), x = Stored(e, curr.date)
      PROVE  x.d = curr.date
  <2>1. IsEvent(e) /\ (e.t \in Told \ {"death"} => e.d = None)
    BY TrackedEvent
  <2>2. x.t = e.t /\ x.d = IF e.d = None THEN curr.date ELSE e.d
    BY <1>3, <2>1, StoredShape
  <2> QED  BY <2>1, <2>2
<1> QED  BY <1>1, <1>2, <1>3

LEMMA NextHold ==
  ASSUME Atoms, HoldInv, [Next]_vars
  PROVE  HoldInv'
<1>1. /\ facet \in Facets /\ WorldOK(world) /\ stale \subseteq Tracked
      /\ db = [rows |-> db.rows, events |-> db.events]
  BY DEF HoldInv
<1>2. PICK curr : curr = ParseSave(Save(world))
  OBVIOUS
<1>3. curr # None /\ SnapOK(curr) /\ curr.date = world.date /\ world.date \in Nat
  BY <1>1, <1>2, SnapshotIsRecord, SnapshotOK, Snapshot DEF WorldOK
<1>4. ASSUME NEW c \in Tracked
      PROVE  /\ c \in DOMAIN curr.characters <=> world.life[c] # "gone"
             /\ c \in DOMAIN curr.characters =>
                  /\ curr.characters[c].is_dead \in BOOLEAN
                  /\ curr.characters[c].is_dead <=> world.life[c] \in {"unprunable", "prunable"}
  <2>1. c \in Char
    BY TrackedAssumption
  <2> QED  BY <1>1, <1>2, <2>1, Snapshot, Signals
<1>5. CASE Play
  <2>1. /\ WorldOK(world')
        /\ world'.date = world.date + 1
        /\ \A c \in Char : world.life[c] = "gone" => world'.life[c] = "gone"
        /\ \A c \in Char : world.life[c] \in {"unprunable", "prunable"} =>
                             world'.life[c] \in {"unprunable", "prunable", "gone"}
        /\ UNCHANGED <<facet, stale, prev, first, db>>
    BY <1>1, <1>5, PlayWorld
  <2>2. /\ \A c, s : Balanced(c, s)' <=> Balanced(c, s)
        /\ \A c, d, t : Mirrored(c, d, t)' <=> Mirrored(c, d, t)
    BY <2>1 DEF Balanced, Mirrored
  <2>3. prev # None => prev.date <= world'.date
    BY <1>3, <2>1 DEF HoldInv, SnapOK
  <2>4. \A c \in Tracked : world'.life[c] # "gone" => world.life[c] # "gone"
    BY <2>1, TrackedAssumption
  <2>5. \A c \in Tracked : world.life[c] \in {"unprunable", "prunable", "gone"} =>
                             world'.life[c] \in {"unprunable", "prunable", "gone"}
    BY <2>1, TrackedAssumption
  <2> QED  BY <1>1, <2>1, <2>2, <2>3, <2>4, <2>5 DEF HoldInv
<1>6. CASE Adopt
  <2>1. prev = None /\ prev' = curr /\ first' = Holdings(curr) /\ UNCHANGED <<world, facet, stale, db>>
    BY <1>2, <1>6 DEF Adopt
  <2>2. db.events = {} /\ db'.events = {}
    BY <2>1 DEF HoldInv
  <2>3. \A c, s : GainsIn(db'.events, s, c) = {} /\ LossesIn(db'.events, s, c) = {}
    BY <2>2 DEF GainsIn, LossesIn
  <2>4. ASSUME NEW c \in Tracked, NEW s \in Tables  PROVE  Balanced(c, s)'
    <3>1. /\ first'.held[s][c] \in Nat
          /\ first'.held[s][c] + Cardinality({}) - Cardinality({}) = Cardinality(prev'[s].of[c])
      BY <1>3, <2>1, FirstHeld, TrackedAssumption
    <3> QED  BY <2>3, <3>1, FS_EmptySet DEF Balanced
  <2>5. \A c, d, t : Mirrored(c, d, t)'
    BY <2>1, <2>2, NothingTold DEF Mirrored
  <2>6. curr.date <= world.date
    BY <1>3
  <2> QED  BY <1>1, <1>3, <1>4, <2>1, <2>2, <2>4, <2>5, <2>6 DEF HoldInv
<1>7. CASE Tick
  <2>1. prev # None /\ prev' = curr /\ UNCHANGED <<world, facet, stale, first>>
    BY <1>1, <1>2, <1>7, TickStores
  <2>2. db' = [rows |-> db'.rows, events |-> db'.events]
    BY <1>7 DEF Tick, IngestDiffEvents
  <2>3. \A x \in db'.events : x.t \in Told \ {"death"} => x.d \in Nat /\ x.d <= curr.date
    BY <1>2, <1>3, <1>7, TickDates
  <2>4. ASSUME NEW c \in Tracked \ stale, c \in DOMAIN curr.characters
        PROVE  /\ c \in DOMAIN prev.characters
               /\ prev.characters[c].is_dead \in BOOLEAN
               /\ prev.characters[c].is_dead => curr.characters[c].is_dead
    <3>1. world.life[c] # "gone"
      BY <1>4, <2>4
    <3>2. /\ c \in DOMAIN prev.characters
          /\ prev.characters[c].is_dead \in BOOLEAN
          /\ prev.characters[c].is_dead => world.life[c] \in {"unprunable", "prunable", "gone"}
      BY <2>1, <3>1 DEF HoldInv
    <3> QED  BY <1>4, <2>4, <3>1, <3>2
  <2>5. ASSUME NEW c \in Tracked \ stale, c \in DOMAIN curr.characters, ~curr.characters[c].is_dead,
               NEW s \in Tables
        PROVE  Balanced(c, s)'
    <3>1. c \in DOMAIN prev.characters /\ ~prev.characters[c].is_dead
      BY <2>4, <2>5
    <3>2. Balanced(c, s)
      BY <2>1, <3>1 DEF HoldInv
    <3>3. curr.characters[c].is_dead = FALSE
      BY <1>4, <2>5
    <3> QED  BY <1>2, <1>7, <2>5, <3>1, <3>2, <3>3, TickBalanced
  <2>6. ASSUME NEW c \in Tracked \ stale, NEW d \in Tracked \ stale, c # d,
               {c, d} \subseteq DOMAIN curr.characters, NEW t \in {1, 2}
        PROVE  Mirrored(c, d, t)'
    <3>1. {c, d} \subseteq DOMAIN prev.characters
      BY <2>4, <2>6
    <3>2. Mirrored(c, d, t)
      BY <2>1, <2>6, <3>1 DEF HoldInv
    <3> QED  BY <1>2, <1>7, <2>6, <3>1, <3>2, TickMirrored
  <2>7. curr.date <= world.date
    BY <1>3
  <2> QED  BY <1>1, <1>3, <1>4, <2>1, <2>2, <2>3, <2>5, <2>6, <2>7 DEF HoldInv
<1>8. CASE UNCHANGED vars
  BY <1>8 DEF vars, HoldInv, Balanced, Mirrored
<1> QED  BY <1>5, <1>6, <1>7, <1>8 DEF Next

\* The gains and losses told of a living character add up to what the newest
\* save says it holds - titles, wars, artifacts, court positions - and a title
\* that passes between two tracked characters is told of both or of neither
\* (diff_titles, _diff_wars, make_set_differ, diff_snapshots).
THEOREM HoldingsAlwaysTold ==
  ASSUME Atoms
  PROVE  Spec => []HoldingsTold
<1>1. HoldInv => HoldingsTold
  <2> SUFFICES ASSUME HoldInv  PROVE  HoldingsTold
    OBVIOUS
  <2>1. ASSUME NEW c \in Tracked \ stale, InBaseline(c), ~prev.characters[c].is_dead, NEW s \in DOMAIN Streams
        PROVE  first.held[s][c] + Count(c, Streams[s].gain) - Count(c, Streams[s].loss)
                 = Cardinality(prev[s].of[c])
    <3>1. s \in Tables
      BY DEF Streams, Tables
    <3>2. Balanced(c, s)
      BY <2>1, <3>1 DEF HoldInv, InBaseline
    <3> QED  BY <3>2 DEF Balanced, Count, GainsIn, LossesIn
  <2>2. ASSUME NEW c \in Tracked \ stale, NEW d \in Tracked \ stale, NEW t \in {1, 2},
               InBaseline(c), InBaseline(d), c # d
        PROVE  Cardinality(ToldLoss(db.events, c, d, t)) = Cardinality(ToldGain(db.events, c, d, t))
    <3>1. Mirrored(c, d, t)
      BY <2>2 DEF HoldInv, InBaseline
    <3> QED  BY <3>1 DEF Mirrored
  <2> QED  BY <2>1, <2>2 DEF HoldingsTold, ToldLoss, ToldGain
<1>2. Init => HoldInv
  BY InitHold
<1>3. HoldInv /\ [Next]_vars => HoldInv'
  BY NextHold
<1> QED  BY <1>1, <1>2, <1>3, PTL DEF Spec

-----------------------------------------------------------------------------
(* What the schema accepts.                                                *)

\* A type of the schema and a payload with a value in every field that needs
\* one and without a field the type does not have.
Accepted(t, x) ==
  \E table \in EventPayload :
    /\ t \in DOMAIN table
    /\ \A f \in table[t].must : f \in DOMAIN x /\ x[f] # None
    /\ DOMAIN x \subseteq table[t].must \cup table[t].may

LEMMA AcceptedPasses ==
  ASSUME NEW e, Accepted(e.t, e.p)
  PROVE  ~Refused(e)
<1>1. PICK table \in EventPayload :
        /\ e.t \in DOMAIN table
        /\ \A f \in table[e.t].must : f \in DOMAIN e.p /\ e.p[f] # None
        /\ DOMAIN e.p \subseteq table[e.t].must \cup table[e.t].may
  BY DEF Accepted
<1>2. table[e.t].must \subseteq {f \in DOMAIN e.p : e.p[f] # None}
  BY <1>1
<1> QED  BY <1>1, <1>2 DEF Refused, Valid

LEMMA EventShape ==
  ASSUME NEW id, NEW t, NEW x, NEW r
  PROVE  /\ With(id, t, x, r).t = t /\ With(id, t, x, r).p = x
         /\ Event(id, t, x).t = t /\ Event(id, t, x).p = x
BY DEF With, Event

LEMMA EventAccepted ==
  ASSUME NEW e, NEW id, NEW t, NEW x, NEW r, Accepted(t, x), e = Event(id, t, x) \/ e = With(id, t, x, r)
  PROVE  Accepted(e.t, e.p)
BY EventShape

LEMMA PersonalPayloads ==
  /\ \A k : k # None => Accepted("trait_gained", [trait_id |-> k]) /\ Accepted("trait_lost", [trait_id |-> k])
  /\ Accepted("adventurer_started", Bare) /\ Accepted("adventurer_ended", Bare)
  /\ \A k : k # None => /\ Accepted("alliance_formed", [ally_character_id |-> k])
                        /\ Accepted("alliance_broken", [ally_character_id |-> k])
  /\ \A x, y : /\ Accepted("travel", [from_location |-> x, to_location |-> y])
               /\ Accepted("nickname", [from_nickname |-> x, to_nickname |-> y])
  /\ \A x, y : x # None /\ y # None =>
       Accepted("government_changed", [previous_government |-> x, new_government |-> y])
<1>1. PersonalEvents \in EventPayload
  BY DEF EventPayload
<1>2. DOMAIN Bare = {}
  BY DEF Bare
<1> QED  BY <1>1, <1>2 DEF Accepted, PersonalEvents, Fields, Empty

LEMMA VitalPayloads ==
  \A x : /\ Accepted("death", [killer |-> x])
         /\ Accepted("marriage", [spouse_character_id |-> x])
         /\ Accepted("divorce", [former_spouse_character_id |-> x])
<1>1. VitalEvents \in EventPayload
  BY DEF EventPayload
<1> QED  BY <1>1 DEF Accepted, VitalEvents, Fields, Empty

LEMMA TitlePayloads ==
  \A k, key, tier, h : k # None /\ key # None =>
    /\ Accepted("title_created", [title_id |-> k, title_key |-> key, tier |-> tier])
    /\ Accepted("title_acquired", [title_id |-> k, title_key |-> key, tier |-> tier, from_holder_id |-> h])
    /\ Accepted("title_relinquished", [title_id |-> k, title_key |-> key, tier |-> tier, to_holder_id |-> h])
<1>1. TitleEvents \in EventPayload
  BY DEF EventPayload
<1> QED  BY <1>1 DEF Accepted, TitleEvents, Fields

LEMMA IdentityPayloads ==
  \A x, y : /\ Accepted("house_change", [from_house_id |-> x, to_house_id |-> y])
            /\ Accepted("culture_change", [from_culture_id |-> x, to_culture_id |-> y])
            /\ Accepted("faith_change", [from_faith_id |-> x, to_faith_id |-> y])
<1>1. IdentityEvents \in EventPayload
  BY DEF EventPayload
<1> QED  BY <1>1 DEF Accepted, IdentityEvents, Fields

LEMMA WarPayloads ==
  \A w, s, x, y : w # None =>
    \A t \in {"war_declared", "war_joined", "war_left", "war_concluded"} :
      Accepted(t, [war_id |-> w, side |-> s, primary_attacker_id |-> x, primary_defender_id |-> y])
<1>1. WarEvents \in EventPayload
  BY DEF EventPayload
<1> QED  BY <1>1 DEF Accepted, WarEvents, Each, Fields

LEMMA DynastyPayloads ==
  /\ \A k : k # None => /\ Accepted("artifact_acquired", [artifact_id |-> k])
                        /\ Accepted("artifact_lost", [artifact_id |-> k])
  /\ \A d, k : d # None /\ k # None =>
       Accepted("dynasty_legacy_unlocked", [dynasty_id |-> d, legacy_key |-> k])
  /\ \A d, x, y, z : d # None /\ x # None /\ y # None /\ z # None =>
       Accepted("splendor_increased", [dynasty_id |-> d, old_tier |-> x, new_tier |-> y,
                                       total_renown_at_change |-> z])
<1>1. DynastyEvents \in EventPayload
  BY DEF EventPayload
<1> QED  BY <1>1 DEF Accepted, DynastyEvents, Fields

LEMMA LifestylePayloads ==
  /\ \A k, n : k # None => Accepted("concubine_taken", [concubine_id |-> k, concubine_name |-> n])
  /\ \A k : k # None => /\ Accepted("modifier_acquired", [modifier_key |-> k])
                        /\ Accepted("perk_acquired", [perk_key |-> k])
  /\ \A l, k : l # None /\ k # None =>
       Accepted("lifestyle_committed", [lifestyle_key |-> l, first_perk_key |-> k])
<1>1. LifestyleEvents \in EventPayload
  BY DEF EventPayload
<1> QED  BY <1>1 DEF Accepted, LifestyleEvents, Fields

LEMMA AdventurerPayloads ==
  /\ \A k, x, n : k # None =>
       \A t \in {"camp_companion_joined", "camp_companion_left"} :
         Accepted(t, [position_id |-> k, employee_id |-> x, employee_name |-> n])
  /\ \A s, x : s # None => Accepted("contract_completed", [outcome |-> s, employer_id |-> x])
  /\ \A k, x, y : k # None =>
       Accepted("domicile_moved", [domicile_id |-> k, from_province_id |-> x, to_province_id |-> y])
<1>1. AdventurerEvents \in EventPayload
  BY DEF EventPayload
<1> QED  BY <1>1 DEF Accepted, AdventurerEvents, Fields

LEMMA MemoryPayloads ==
  /\ \A x, y, k, n : x # None /\ y # None =>
       Accepted("vanilla_memory", [memory_type |-> x, participants |-> y, deceased_killer_id |-> k,
                                   deceased_killer_first_name |-> n])
  /\ \A k : k # None => Accepted("epidemic_outbreak", [epidemic_id |-> k])
<1>1. MemoryEvents \in EventPayload
  BY DEF EventPayload
<1> QED  BY <1>1 DEF Accepted, MemoryEvents, Fields

LEMMA ActivityPayloads ==
  /\ \A k, h, r : k # None /\ r # None =>
       Accepted("activity_completed", [activity_id |-> k, host_id |-> h, role |-> r])
  /\ \A k, x : k # None =>
       Accepted("inspiration_sponsored", [inspiration_id |-> k, artisan_character_id |-> x])
  /\ \A x : Accepted("miscarriage", [assumed_father_id |-> x])
<1>1. ActivityEvents \in EventPayload
  BY DEF EventPayload
<1> QED  BY <1>1 DEF Accepted, ActivityEvents, Fields

LEMMA DeedPayloads ==
  /\ \A k, d : k # None => Accepted("decision_taken", [decision_id |-> k, cooldown_end_date |-> d])
  /\ \A b, x, y : b # None /\ x # None /\ y # None =>
       Accepted("building_completed", [building |-> b, province_id |-> x, slot_index |-> y])
<1>1. DeedEvents \in EventPayload
  BY DEF EventPayload
<1> QED  BY <1>1 DEF Accepted, DeedEvents, Fields

-----------------------------------------------------------------------------
(* A parsed save in which every id, key and name the differ reads has a value, *)
(* and what the differ makes of two of them.                                *)

PersonSound(c, memories) ==
  /\ None \notin UNION {c.traits, c.modifiers, c.family.concubines}
  /\ c.perks \subseteq Nat
  /\ \A d \in c.decisions : d[1] # None
  /\ \A m \in c.memories : memories[m].type # None /\ memories[m].participants # None

TablesSound(snap) ==
  /\ \A x \in Char : None \notin UNION {snap.alliances[x], snap.wars.of[x], snap.artifacts.of[x],
                                        snap.court.of[x], snap.epidemics.of[x],
                                        snap.activities.of[x], snap.inspirations.of[x]}
  /\ \A x \in Char : \A t \in snap.titles.of[x] : t # None /\ snap.titles.row[t].key # None
  /\ \A x \in Char : \A k \in snap.constructions.of[x] :
       snap.constructions.row[k].building # None /\ k[1] # None /\ k[2] # None
  /\ \A h \in DOMAIN snap.dynasties.of : snap.dynasties.of[h] # None
  /\ \A d \in DOMAIN snap.dynasties.perks : None \notin snap.dynasties.perks[d]
  /\ \A d \in DOMAIN snap.dynasties.renown : snap.dynasties.renown[d] \in Nat

SnapSound(snap) ==
  /\ \A x \in DOMAIN snap.characters : PersonSound(snap.characters[x], snap.memories)
  /\ TablesSound(snap)

Values == {"host", "attendee"} \cup Terminal \cup Nat

LEMMA TraitsAccepted ==
  ASSUME NEW id, NEW p, NEW c, None \notin p.traits, None \notin c.traits, NEW e \in DiffTraits(id, p, c)
  PROVE  Accepted(e.t, e.p)
<1>1. PICK k \in p.traits \cup c.traits, t \in {"trait_gained", "trait_lost"} :
        e = Event(id, t, [trait_id |-> k])
  BY Zenon DEF DiffTraits, Events
<1> QED  BY <1>1, EventShape, PersonalPayloads

LEMMA ConcubinesAccepted ==
  ASSUME NEW id, NEW p, NEW c, NEW curr, None \notin c.family.concubines,
         NEW e \in DiffConcubines(id, p, c, curr)
  PROVE  Accepted(e.t, e.p)
<1>1. PICK k, n, r :
        k \in c.family.concubines /\ e = With(id, "concubine_taken", [concubine_id |-> k, concubine_name |-> n], r)
  BY Zenon DEF DiffConcubines, EventsWith
<1> QED  BY <1>1, EventShape, LifestylePayloads

LEMMA MiscarriageAccepted ==
  ASSUME NEW id, NEW p, NEW c, NEW memories, NEW e \in DiffMiscarriage(id, p, c, memories)
  PROVE  Accepted(e.t, e.p)
<1>1. PICK x, r : e = With(id, "miscarriage", [assumed_father_id |-> x], r)
  BY Zenon DEF DiffMiscarriage, Miscarriage
<1> QED  BY <1>1, EventShape, ActivityPayloads

LEMMA StatesAccepted ==
  ASSUME NEW id, NEW p, NEW c, NEW e \in DiffStateChanges(id, p, c)
  PROVE  Accepted(e.t, e.p)
<1>1. PICK x, y : \/ e = Event(id, "house_change", [from_house_id |-> x, to_house_id |-> y])
                  \/ e = Event(id, "culture_change", [from_culture_id |-> x, to_culture_id |-> y])
                  \/ e = Event(id, "faith_change", [from_faith_id |-> x, to_faith_id |-> y])
  BY Zenon DEF DiffStateChanges
<1> QED  BY <1>1, EventShape, IdentityPayloads

\* A set of numbers has its least one.
LEMMA LeastIn ==
  ASSUME NEW S, S \subseteq Nat, S # {}
  PROVE  Min(S) \in S
<1>1. PICK x \in S : \A y \in S : ~(<<y, x>> \in OpToRel(<, Nat))
  BY NatLessThanWellFounded, WFMin
<1>2. \A y, z \in Nat : y < z => <<y, z>> \in OpToRel(<, Nat)
  BY SMT DEF OpToRel
<1>3. \A y \in S : x <= y
  <2> TAKE y \in S
  <2>1. x \in Nat /\ y \in Nat
    OBVIOUS
  <2>2. ~(y < x)
    BY <1>1, <1>2, <2>1
  <2> QED  BY <2>1, <2>2
<1> QED  BY <1>3 DEF Min

LEMMA PerksAccepted ==
  ASSUME NEW id, NEW p, NEW c, None \notin c.modifiers, c.perks \subseteq Nat, None \notin Nat,
         NEW e \in DiffModifiersAndPerks(id, p, c)
  PROVE  Accepted(e.t, e.p)
<1> DEFINE perks == c.perks \ p.perks
           new   == {LifestyleOf[k] : k \in perks} \ ({LifestyleOf[k] : k \in p.perks} \cup {None})
           least(l) == Min({k \in perks : LifestyleOf[k] = l})
<1>1. PICK A \in {Events(id, "modifier_acquired", c.modifiers \ p.modifiers, LAMBDA k : [modifier_key |-> k]),
                  Events(id, "perk_acquired", perks, LAMBDA k : [perk_key |-> k]),
                  Events(id, "lifestyle_committed", new,
                         LAMBDA l : [lifestyle_key |-> l, first_perk_key |-> least(l)])} : e \in A
  BY Zenon DEF DiffModifiersAndPerks
<1>2. ASSUME NEW l \in new  PROVE  l # None /\ least(l) # None
  <2>1. PICK S : S = {k \in perks : LifestyleOf[k] = l}
    OBVIOUS
  <2>2. S \subseteq Nat /\ S # {} /\ l # None
    BY <2>1
  <2>3. Min(S) # None
    BY <2>2, LeastIn
  <2> QED  BY <2>1, <2>2, <2>3
<1>3. None \notin perks
  OBVIOUS
<1> HIDE DEF perks, new, least
<1>4. CASE A = Events(id, "modifier_acquired", c.modifiers \ p.modifiers, LAMBDA k : [modifier_key |-> k])
  <2>1. PICK k \in c.modifiers : e = Event(id, "modifier_acquired", [modifier_key |-> k])
    BY <1>1, <1>4, Zenon DEF Events
  <2>2. Accepted("modifier_acquired", [modifier_key |-> k])
    BY LifestylePayloads
  <2> QED  BY <2>1, <2>2, EventAccepted
<1>5. CASE A = Events(id, "perk_acquired", perks, LAMBDA k : [perk_key |-> k])
  <2>1. PICK k \in perks : e = Event(id, "perk_acquired", [perk_key |-> k])
    BY <1>1, <1>5, Zenon DEF Events
  <2>2. Accepted("perk_acquired", [perk_key |-> k])
    BY <1>3, LifestylePayloads
  <2> QED  BY <2>1, <2>2, EventAccepted
<1>6. CASE A = Events(id, "lifestyle_committed", new,
                      LAMBDA l : [lifestyle_key |-> l, first_perk_key |-> least(l)])
  <2>1. PICK l \in new : e = Event(id, "lifestyle_committed", [lifestyle_key |-> l, first_perk_key |-> least(l)])
    BY <1>1, <1>6, Zenon DEF Events
  <2>2. Accepted("lifestyle_committed", [lifestyle_key |-> l, first_perk_key |-> least(l)])
    BY <1>2, LifestylePayloads
  <2> QED  BY <2>1, <2>2, EventAccepted
<1> QED  BY <1>1, <1>4, <1>5, <1>6, Zenon

LEMMA TitlesAccepted ==
  ASSUME NEW id, NEW prv, NEW curr, NEW e \in DiffTitles(id, prv, curr),
         \A t \in prv.titles.of[id] : t # None /\ prv.titles.row[t].key # None,
         \A t \in curr.titles.of[id] : t # None /\ curr.titles.row[t].key # None
  PROVE  Accepted(e.t, e.p)
<1> DEFINE was == prv.titles.row
           is  == curr.titles.row
           gained == curr.titles.of[id] \ prv.titles.of[id]
           lost   == prv.titles.of[id] \ curr.titles.of[id]
<1>1. \/ e \in Created(id, gained \ DOMAIN was, is)
      \/ e \in Acquired(id, gained \cap DOMAIN was, is, LAMBDA t : HolderIn(was, t))
      \/ e \in Relinquished(id, lost, was, LAMBDA t : HolderIn(is, t))
  BY Zenon DEF DiffTitles
<1>2. \A t \in gained : t # None /\ is[t].key # None
  OBVIOUS
<1>3. \A t \in lost : t # None /\ was[t].key # None
  OBVIOUS
<1> HIDE DEF was, is, gained, lost
<1>4. CASE e \in Created(id, gained \ DOMAIN was, is)
  <2>1. PICK t \in gained \ DOMAIN was :
          e = Event(id, "title_created", [title_id |-> t, title_key |-> is[t].key, tier |-> is[t].tier])
    BY <1>4, Zenon DEF Created, Events
  <2>2. Accepted("title_created", [title_id |-> t, title_key |-> is[t].key, tier |-> is[t].tier])
    BY <1>2, TitlePayloads
  <2> QED  BY <2>1, <2>2, EventAccepted
<1>5. CASE e \in Acquired(id, gained \cap DOMAIN was, is, LAMBDA t : HolderIn(was, t))
  <2>1. PICK t, h, r :
          /\ t \in gained \cap DOMAIN was
          /\ e = With(id, "title_acquired", [title_id |-> t, title_key |-> is[t].key, tier |-> is[t].tier,
                                             from_holder_id |-> h], r)
    BY <1>5, Zenon DEF Acquired, EventsWith
  <2>2. Accepted("title_acquired", [title_id |-> t, title_key |-> is[t].key, tier |-> is[t].tier,
                                    from_holder_id |-> h])
    BY <1>2, <2>1, TitlePayloads
  <2> QED  BY <2>1, <2>2, EventAccepted
<1>6. CASE e \in Relinquished(id, lost, was, LAMBDA t : HolderIn(is, t))
  <2>1. PICK t, h, r :
          /\ t \in lost
          /\ e = With(id, "title_relinquished", [title_id |-> t, title_key |-> was[t].key, tier |-> was[t].tier,
                                                 to_holder_id |-> h], r)
    BY <1>6, Zenon DEF Relinquished, EventsWith
  <2>2. Accepted("title_relinquished", [title_id |-> t, title_key |-> was[t].key, tier |-> was[t].tier,
                                        to_holder_id |-> h])
    BY <1>3, <2>1, TitlePayloads
  <2> QED  BY <2>1, <2>2, EventAccepted
<1> QED  BY <1>1, <1>4, <1>5, <1>6

LEMMA AlliancesAccepted ==
  ASSUME NEW id, NEW c, NEW prv, NEW curr, NEW e \in DiffAlliances(id, c, prv, curr),
         None \notin prv.alliances[id], None \notin curr.alliances[id]
  PROVE  Accepted(e.t, e.p)
<1> DEFINE ally(k) == [ally_character_id |-> k]
           told == SetDiffer(id, c, prv.alliances[id], curr.alliances[id],
                             "alliance_formed", "alliance_broken", ally, ally)
<1>1. PICK f, x : f \in told /\ e = [f EXCEPT !.with = x]
  BY Zenon DEF DiffAlliances
<1>2. PICK k \in prv.alliances[id] \cup curr.alliances[id], t \in {"alliance_formed", "alliance_broken"} :
        f = Event(id, t, [ally_character_id |-> k])
  BY <1>1, Zenon DEF SetDiffer, Events
<1>3. e.t = t /\ e.p = [ally_character_id |-> k]
  BY <1>1, <1>2 DEF Event, With
<1>4. k # None
  OBVIOUS
<1> HIDE DEF told
<1> QED  BY <1>3, <1>4, PersonalPayloads

LEMMA ArtifactsAccepted ==
  ASSUME NEW id, NEW c, NEW prv, NEW curr, NEW e \in DiffArtifacts(id, c, prv, curr),
         None \notin prv.artifacts.of[id], None \notin curr.artifacts.of[id]
  PROVE  Accepted(e.t, e.p)
<1>1. PICK k \in prv.artifacts.of[id] \cup curr.artifacts.of[id], t \in {"artifact_acquired", "artifact_lost"} :
        e = Event(id, t, [artifact_id |-> k])
  BY Zenon DEF DiffArtifacts, SetDiffer, Events
<1> QED  BY <1>1, EventShape, DynastyPayloads

LEMMA CourtAccepted ==
  ASSUME NEW id, NEW c, NEW prv, NEW curr, NEW e \in DiffCourtPositions(id, c, prv, curr),
         None \notin prv.court.of[id], None \notin curr.court.of[id]
  PROVE  Accepted(e.t, e.p)
<1> DEFINE position(k, snap) == [position_id |-> k, employee_id |-> snap.court.row[k].employee,
                                employee_name |-> Known(snap.court.row[k].employee, curr)]
<1>1. e \in SetDiffer(id, c, prv.court.of[id], curr.court.of[id], "camp_companion_joined",
                      "camp_companion_left", LAMBDA k : position(k, curr), LAMBDA k : position(k, prv))
  BY Zenon DEF DiffCourtPositions
<1>2. PICK k \in prv.court.of[id] \cup curr.court.of[id], snap \in {prv, curr},
          t \in {"camp_companion_joined", "camp_companion_left"} : e = Event(id, t, position(k, snap))
  BY <1>1, Zenon DEF SetDiffer, Events
<1>3. Accepted(t, position(k, snap))
  BY AdventurerPayloads
<1> HIDE DEF position
<1> QED  BY <1>2, <1>3, EventAccepted

LEMMA HappeningsAccepted ==
  ASSUME NEW id, NEW c, NEW prv, NEW curr, NEW e \in DiffHappenings(id, c, prv, curr),
         None \notin Values,
         None \notin curr.epidemics.of[id], None \notin prv.activities.of[id],
         None \notin curr.inspirations.of[id]
  PROVE  Accepted(e.t, e.p)
<1> DEFINE outbreak(k) == [epidemic_id |-> k]
           host(k) == prv.activities.row[k].host
           activity(k) == [activity_id |-> k, host_id |-> host(k),
                           role |-> IF host(k) = id THEN "host" ELSE "attendee"]
           artisan(k) == IF curr.inspirations.row[k] = {} THEN None
                         ELSE CHOOSE x \in curr.inspirations.row[k] : TRUE
           sponsored(k) == [inspiration_id |-> k, artisan_character_id |-> artisan(k)]
           known == DOMAIN curr.inspirations.row
<1>1. \/ e \in SetDiffer(id, c, prv.epidemics.of[id], curr.epidemics.of[id],
                         "epidemic_outbreak", None, outbreak, outbreak)
      \/ e \in SetDiffer(id, c, prv.activities.of[id], curr.activities.of[id],
                         None, "activity_completed", activity, activity)
      \/ e \in SetDiffer(id, c, prv.inspirations.of[id], curr.inspirations.of[id] \cap known,
                         "inspiration_sponsored", None, sponsored, sponsored)
  BY Zenon DEF DiffHappenings
<1>2. CASE e \in SetDiffer(id, c, prv.epidemics.of[id], curr.epidemics.of[id],
                           "epidemic_outbreak", None, outbreak, outbreak)
  <2>1. PICK k \in curr.epidemics.of[id] : e = Event(id, "epidemic_outbreak", outbreak(k))
    BY <1>2, Zenon DEF SetDiffer, Events
  <2>2. Accepted("epidemic_outbreak", outbreak(k))
    BY MemoryPayloads
  <2> QED  BY <2>1, <2>2, EventAccepted
<1>3. CASE e \in SetDiffer(id, c, prv.activities.of[id], curr.activities.of[id],
                           None, "activity_completed", activity, activity)
  <2>1. PICK k \in prv.activities.of[id] : e = Event(id, "activity_completed", activity(k))
    BY <1>3, Zenon DEF SetDiffer, Events
  <2>2. Accepted("activity_completed", activity(k))
    BY ActivityPayloads DEF Values
  <2> QED  BY <2>1, <2>2, EventAccepted
<1>4. CASE e \in SetDiffer(id, c, prv.inspirations.of[id], curr.inspirations.of[id] \cap known,
                           "inspiration_sponsored", None, sponsored, sponsored)
  <2>1. PICK k \in curr.inspirations.of[id] : e = Event(id, "inspiration_sponsored", sponsored(k))
    BY <1>4, Zenon DEF SetDiffer, Events
  <2>2. Accepted("inspiration_sponsored", sponsored(k))
    BY ActivityPayloads
  <2> QED  BY <2>1, <2>2, EventAccepted
<1> QED  BY <1>1, <1>2, <1>3, <1>4, Zenon

LEMMA WarSideAccepted ==
  ASSUME NEW k, NEW war, NEW id, k # None,
         NEW t \in {"war_declared", "war_joined", "war_left", "war_concluded"}
  PROVE  Accepted(t, WarSidePayload(k, war, id))
BY WarPayloads DEF WarSidePayload

LEMMA WarsAccepted ==
  ASSUME NEW id, NEW c, NEW prv, NEW curr, NEW e \in DiffWars(id, c, prv, curr),
         None \notin prv.wars.of[id], None \notin curr.wars.of[id]
  PROVE  Accepted(e.t, e.p)
<1> DEFINE was == prv.wars.row
           is  == curr.wars.row
           gained == curr.wars.of[id] \ prv.wars.of[id]
           lost   == prv.wars.of[id] \ curr.wars.of[id]
           declared == {w \in gained \ DOMAIN was : id \in {is[w].attacker, is[w].defender}}
           tell(t, ws, row) == EventsWith(id, t, ws, LAMBDA w : WarSidePayload(w, row[w], id),
                                          LAMBDA w : WarParticipants(row[w]))
<1>0. PICK A \in {tell("war_declared", declared, is), tell("war_joined", gained \ declared, is),
                  tell("war_concluded", lost \ DOMAIN is, was),
                  tell("war_left", lost \cap DOMAIN is, was)} : e \in A
  BY Zenon DEF DiffWars
<1>1. /\ declared \subseteq curr.wars.of[id] /\ gained \ declared \subseteq curr.wars.of[id]
      /\ lost \ DOMAIN is \subseteq prv.wars.of[id] /\ lost \cap DOMAIN is \subseteq prv.wars.of[id]
  OBVIOUS
<1>2. PICK t \in {"war_declared", "war_joined", "war_left", "war_concluded"},
          ws \in {declared, gained \ declared, lost \ DOMAIN is, lost \cap DOMAIN is} :
        \E rows : e \in tell(t, ws, rows)
  <2> HIDE DEF tell, declared, gained, lost, is, was
  <2> QED  BY <1>0, Zenon
<1>3. PICK row : e \in tell(t, ws, row)
  BY <1>2
<1>4. PICK k, r : k \in ws /\ e = With(id, t, WarSidePayload(k, row[k], id), r)
  BY <1>3, Zenon DEF EventsWith
<1>5. k # None
  <2> HIDE DEF declared, gained, lost, is, was
  <2> QED  BY <1>1, <1>2, <1>4
<1>6. Accepted(t, WarSidePayload(k, row[k], id))
  BY <1>2, <1>5, WarSideAccepted
<1> HIDE DEF declared, gained, lost, is, was
<1> QED  BY <1>4, <1>6, EventAccepted

LEMMA SplendorTierNat ==
  ASSUME NEW n
  PROVE  SplendorTier(n) \in Nat
<1>1. PICK S : S = {t \in SplendorThresholds : n >= t}
  OBVIOUS
<1>2. PICK high \in Int : high = 105000
  OBVIOUS
<1>3. S \subseteq 0..high /\ 0 \in Int
  BY <1>1, <1>2 DEF SplendorThresholds
<1>4. IsFiniteSet(0..high)
  BY <1>3, FS_Interval
<1>5. IsFiniteSet(S)
  BY <1>3, <1>4, FS_Subset
<1> QED  BY <1>1, <1>5, FS_CardinalityType DEF SplendorTier

LEMMA DynastyAccepted ==
  ASSUME NEW id, NEW c, NEW prv, NEW curr, NEW e \in DiffDynasty(id, c, prv, curr),
         None \notin Values, TablesSound(curr)
  PROVE  Accepted(e.t, e.p)
<1> DEFINE at(table, d, default) == IF d \in DOMAIN table THEN table[d] ELSE default
           d == curr.dynasties.of[c.house]
           old == SplendorTier(at(prv.dynasties.renown, d, 0))
           new == SplendorTier(at(curr.dynasties.renown, d, 0))
           total == at(curr.dynasties.renown, d, 0)
           keys == at(curr.dynasties.perks, d, {}) \ at(prv.dynasties.perks, d, {})
<1>1. /\ c.house \in DOMAIN curr.dynasties.of
      /\ \/ e \in Events(id, "dynasty_legacy_unlocked", keys, LAMBDA k : [dynasty_id |-> d, legacy_key |-> k])
         \/ e = Event(id, "splendor_increased", [dynasty_id |-> d, old_tier |-> old, new_tier |-> new,
                                                 total_renown_at_change |-> total])
  BY Zenon DEF DiffDynasty
<1>2. d # None /\ None \notin keys /\ total \in Nat
  BY <1>1 DEF TablesSound
<1>3. \A n : SplendorTier(n) \in Nat
  BY SplendorTierNat
<1>4. old # None /\ new # None /\ total # None
  BY <1>2, <1>3 DEF Values
<1> HIDE DEF d, old, new, total, keys
<1>5. CASE e \in Events(id, "dynasty_legacy_unlocked", keys, LAMBDA k : [dynasty_id |-> d, legacy_key |-> k])
  <2>1. PICK k \in keys : e = Event(id, "dynasty_legacy_unlocked", [dynasty_id |-> d, legacy_key |-> k])
    BY <1>5, Zenon DEF Events
  <2>2. Accepted("dynasty_legacy_unlocked", [dynasty_id |-> d, legacy_key |-> k])
    BY <1>2, DynastyPayloads
  <2> QED  BY <2>1, <2>2, EventAccepted
<1>6. CASE e = Event(id, "splendor_increased", [dynasty_id |-> d, old_tier |-> old, new_tier |-> new,
                                                total_renown_at_change |-> total])
  <2>1. Accepted("splendor_increased", [dynasty_id |-> d, old_tier |-> old, new_tier |-> new,
                                        total_renown_at_change |-> total])
    BY <1>2, <1>4, DynastyPayloads
  <2> QED  BY <1>6, <2>1, EventAccepted
<1> QED  BY <1>1, <1>5, <1>6, Zenon

LEMMA ContractsAccepted ==
  ASSUME NEW id, NEW c, NEW prv, NEW curr, NEW e \in DiffContracts(id, c, prv, curr), None \notin Values
  PROVE  Accepted(e.t, e.p)
<1>1. PICK k, x : /\ curr.contracts.row[k].status \in Terminal
                  /\ e = Event(id, "contract_completed",
                               [outcome |-> curr.contracts.row[k].status, employer_id |-> x])
  BY Zenon DEF DiffContracts, ContractEvents, Events
<1>2. Accepted("contract_completed", [outcome |-> curr.contracts.row[k].status, employer_id |-> x])
  BY <1>1, AdventurerPayloads DEF Values
<1> QED  BY <1>1, <1>2, EventAccepted

LEMMA DomicileAccepted ==
  ASSUME NEW id, NEW c, NEW prv, NEW curr, NEW e \in DiffDomicile(id, c, prv, curr)
  PROVE  Accepted(e.t, e.p)
<1>1. PICK k, x, y : k # None /\ e = Event(id, "domicile_moved", [domicile_id |-> k, from_province_id |-> x,
                                                                 to_province_id |-> y])
  BY Zenon DEF DiffDomicile
<1>2. Accepted("domicile_moved", [domicile_id |-> k, from_province_id |-> x, to_province_id |-> y])
  BY <1>1, AdventurerPayloads
<1> QED  BY <1>1, <1>2, EventAccepted

LEMMA ConstructionsAccepted ==
  ASSUME NEW id, NEW c, NEW prv, NEW curr, NEW e \in DiffConstructions(id, c, prv, curr),
         \A k \in prv.constructions.of[id] :
           prv.constructions.row[k].building # None /\ k[1] # None /\ k[2] # None
  PROVE  Accepted(e.t, e.p)
<1>1. PICK k \in prv.constructions.of[id] :
        e = Event(id, "building_completed", [building |-> prv.constructions.row[k].building,
                                             province_id |-> k[1], slot_index |-> k[2]])
  BY Zenon DEF DiffConstructions, Events
<1>2. Accepted("building_completed", [building |-> prv.constructions.row[k].building,
                                      province_id |-> k[1], slot_index |-> k[2]])
  BY DeedPayloads
<1> QED  BY <1>1, <1>2, EventAccepted

LEMMA GovernmentAccepted ==
  ASSUME NEW id, NEW p, NEW c, NEW e \in GovernmentEvents(id, p, c)
  PROVE  Accepted(e.t, e.p)
<1>1. \/ e = Event(id, "adventurer_started", Bare) \/ e = Event(id, "adventurer_ended", Bare)
      \/ /\ p.government # None /\ c.government # None
         /\ e = Event(id, "government_changed", [previous_government |-> p.government,
                                                 new_government |-> c.government])
  BY DEF GovernmentEvents
<1> QED  BY <1>1, EventAccepted, PersonalPayloads

LEMMA MemoryAccepted ==
  ASSUME NEW id, NEW m, NEW curr, curr.memories[m].type # None, curr.memories[m].participants # None
  PROVE  LET e == MakeVanillaMemory(id, m, curr) IN Accepted(e.t, e.p)
<1> DEFINE e == MakeVanillaMemory(id, m, curr)
           mem == curr.memories[m]
<1>1. PICK k, n, r, date :
        e = [With(id, "vanilla_memory",
                  [memory_type |-> mem.type, participants |-> mem.participants,
                   deceased_killer_id |-> k, deceased_killer_first_name |-> n], r) EXCEPT !.d = date]
  BY Zenon DEF MakeVanillaMemory
<1>2. PICK x : x = [memory_type |-> mem.type, participants |-> mem.participants,
                    deceased_killer_id |-> k, deceased_killer_first_name |-> n]
  OBVIOUS
<1>3. Accepted("vanilla_memory", x)
  BY <1>2, MemoryPayloads
<1>4. e.t = "vanilla_memory" /\ e.p = x
  <2> HIDE DEF e, mem
  <2> QED  BY <1>1, <1>2 DEF With
<1> QED  BY <1>3, <1>4

LEMMA DeathAccepted ==
  ASSUME NEW id, NEW c, NEW e \in MakeDeath(id, c)
  PROVE  Accepted(e.t, e.p)
<1>1. PICK r, date : e = [With(id, "death", [killer |-> c.killer], r) EXCEPT !.d = date]
  BY Zenon DEF MakeDeath
<1>2. e.t = "death" /\ e.p = [killer |-> c.killer]
  BY <1>1 DEF With
<1> QED  BY <1>2, VitalPayloads

LEMMA OneCharacterAccepted ==
  ASSUME NEW id, NEW p, NEW c, NEW curr, NEW e \in DiffOneCharacter(id, p, c, curr),
         PersonSound(c, curr.memories)
  PROVE  Accepted(e.t, e.p)
<1>1. PICK A \in {IF DeathAppears(p, c) THEN MakeDeath(id, c) ELSE {},
                  IF /\ ~c.is_dead
                     /\ None \notin {p.location, c.location}
                     /\ p.location # c.location
                    THEN {Event(id, "travel", [from_location |-> p.location, to_location |-> c.location])}
                    ELSE {},
                  EventsWith(id, "marriage", NewSpouses(p, c),
                             LAMBDA s : [spouse_character_id |-> s], LAMBDA s : {<<"spouse", s>>}),
                  EventsWith(id, "divorce", c.family.former_spouses \ p.family.former_spouses,
                             LAMBDA s : [former_spouse_character_id |-> s],
                             LAMBDA s : {<<"former_spouse", s>>}),
                  IF ~c.is_dead /\ p.nickname # c.nickname
                    THEN {Event(id, "nickname", [from_nickname |-> p.nickname, to_nickname |-> c.nickname])}
                    ELSE {},
                  IF ~c.is_dead /\ p.government # c.government
                    THEN GovernmentEvents(id, p, c) ELSE {},
                  {MakeVanillaMemory(id, m, curr) : m \in c.memories \ p.memories},
                  Events(id, "decision_taken", {d \in c.decisions \ p.decisions : d[1] \in Interesting},
                         LAMBDA d : [decision_id |-> d[1], cooldown_end_date |-> d[2]])} : e \in A
  BY Zenon DEF DiffOneCharacter
<1>2. CASE A = IF DeathAppears(p, c) THEN MakeDeath(id, c) ELSE {}
  <2>1. e \in MakeDeath(id, c)
    BY <1>1, <1>2, Zenon
  <2> QED  BY <2>1, DeathAccepted
<1>3. CASE A = IF /\ ~c.is_dead
                  /\ None \notin {p.location, c.location}
                  /\ p.location # c.location
               THEN {Event(id, "travel", [from_location |-> p.location, to_location |-> c.location])}
               ELSE {}
  <2>1. e = Event(id, "travel", [from_location |-> p.location, to_location |-> c.location])
    BY <1>1, <1>3, Zenon
  <2> QED  BY <2>1, EventAccepted, PersonalPayloads
<1>4. CASE A = EventsWith(id, "marriage", NewSpouses(p, c),
                          LAMBDA s : [spouse_character_id |-> s], LAMBDA s : {<<"spouse", s>>})
  <2>1. PICK x, r : e = With(id, "marriage", [spouse_character_id |-> x], r)
    BY <1>1, <1>4, Zenon DEF EventsWith
  <2> QED  BY <2>1, EventAccepted, VitalPayloads
<1>5. CASE A = EventsWith(id, "divorce", c.family.former_spouses \ p.family.former_spouses,
                          LAMBDA s : [former_spouse_character_id |-> s],
                          LAMBDA s : {<<"former_spouse", s>>})
  <2>1. PICK x, r : e = With(id, "divorce", [former_spouse_character_id |-> x], r)
    BY <1>1, <1>5, Zenon DEF EventsWith
  <2> QED  BY <2>1, EventAccepted, VitalPayloads
<1>6. CASE A = IF ~c.is_dead /\ p.nickname # c.nickname
               THEN {Event(id, "nickname", [from_nickname |-> p.nickname, to_nickname |-> c.nickname])}
               ELSE {}
  <2>1. e = Event(id, "nickname", [from_nickname |-> p.nickname, to_nickname |-> c.nickname])
    BY <1>1, <1>6, Zenon
  <2> QED  BY <2>1, EventAccepted, PersonalPayloads
<1>7. CASE A = IF ~c.is_dead /\ p.government # c.government THEN GovernmentEvents(id, p, c) ELSE {}
  <2>1. e \in GovernmentEvents(id, p, c)
    BY <1>1, <1>7, Zenon
  <2> QED  BY <2>1, GovernmentAccepted
<1>8. CASE A = {MakeVanillaMemory(id, m, curr) : m \in c.memories \ p.memories}
  <2>1. PICK m \in c.memories : e = MakeVanillaMemory(id, m, curr)
    BY <1>1, <1>8, Zenon
  <2>2. curr.memories[m].type # None /\ curr.memories[m].participants # None
    BY DEF PersonSound
  <2> QED  BY <2>1, <2>2, MemoryAccepted
<1>9. CASE A = Events(id, "decision_taken", {d \in c.decisions \ p.decisions : d[1] \in Interesting},
                      LAMBDA d : [decision_id |-> d[1], cooldown_end_date |-> d[2]])
  <2>1. PICK d \in c.decisions : e = Event(id, "decision_taken", [decision_id |-> d[1], cooldown_end_date |-> d[2]])
    BY <1>1, <1>9, Zenon DEF Events
  <2>2. Accepted("decision_taken", [decision_id |-> d[1], cooldown_end_date |-> d[2]])
    BY DeedPayloads DEF PersonSound
  <2> QED  BY <2>1, <2>2, EventAccepted
<1> QED  BY <1>1, <1>2, <1>3, <1>4, <1>5, <1>6, <1>7, <1>8, <1>9, Zenon

\* What a differ needs of one character's slice of the tables.
SliceSound(snap, x) ==
  /\ None \notin snap.alliances[x] /\ None \notin snap.wars.of[x]
  /\ None \notin snap.artifacts.of[x] /\ None \notin snap.court.of[x]
  /\ None \notin snap.epidemics.of[x] /\ None \notin snap.activities.of[x]
  /\ None \notin snap.inspirations.of[x]
  /\ \A t \in snap.titles.of[x] : t # None /\ snap.titles.row[t].key # None
  /\ \A k \in snap.constructions.of[x] :
       snap.constructions.row[k].building # None /\ k[1] # None /\ k[2] # None

LEMMA StreamsAccepted ==
  ASSUME NEW id, NEW c, NEW prv, NEW curr, NEW e \in StreamDiffers(id, c, prv, curr),
         None \notin Values, SliceSound(prv, id), SliceSound(curr, id), TablesSound(curr)
  PROVE  Accepted(e.t, e.p)
<1>1. PICK A \in {DiffAlliances(id, c, prv, curr), DiffWars(id, c, prv, curr),
                  DiffArtifacts(id, c, prv, curr), DiffCourtPositions(id, c, prv, curr),
                  DiffDynasty(id, c, prv, curr), DiffHappenings(id, c, prv, curr),
                  DiffContracts(id, c, prv, curr), DiffDomicile(id, c, prv, curr),
                  DiffConstructions(id, c, prv, curr)} : e \in A
  BY Zenon DEF StreamDiffers
<1>2. CASE A = DiffAlliances(id, c, prv, curr)
  BY <1>1, <1>2, AlliancesAccepted DEF SliceSound
<1>3. CASE A = DiffWars(id, c, prv, curr)
  BY <1>1, <1>3, WarsAccepted DEF SliceSound
<1>4. CASE A = DiffArtifacts(id, c, prv, curr)
  BY <1>1, <1>4, ArtifactsAccepted DEF SliceSound
<1>5. CASE A = DiffCourtPositions(id, c, prv, curr)
  BY <1>1, <1>5, CourtAccepted DEF SliceSound
<1>6. CASE A = DiffDynasty(id, c, prv, curr)
  BY <1>1, <1>6, DynastyAccepted
<1>7. CASE A = DiffHappenings(id, c, prv, curr)
  BY <1>1, <1>7, HappeningsAccepted DEF SliceSound
<1>8. CASE A = DiffContracts(id, c, prv, curr)
  BY <1>1, <1>8, ContractsAccepted
<1>9. CASE A = DiffDomicile(id, c, prv, curr)
  BY <1>1, <1>9, DomicileAccepted
<1>10. CASE A = DiffConstructions(id, c, prv, curr)
  BY <1>1, <1>10, ConstructionsAccepted DEF SliceSound
<1> QED  BY <1>1, <1>2, <1>3, <1>4, <1>5, <1>6, <1>7, <1>8, <1>9, <1>10, Zenon

LEMMA TrackedAccepted ==
  ASSUME NEW id \in Char, NEW prv, NEW curr, NEW e \in DiffTracked(id, prv, curr),
         None \notin Values, SnapSound(prv), SnapSound(curr)
  PROVE  Accepted(e.t, e.p)
<1> DEFINE c == curr.characters[id]
           p == prv.characters[id]
<1>1. id \in DOMAIN curr.characters
  BY DEF DiffTracked
<1>2. PersonSound(c, curr.memories)
  BY <1>1 DEF SnapSound
<1>3. CASE id \notin DOMAIN prv.characters
  <2>1. e \in MakeDeath(id, c)
    BY <1>1, <1>3, Zenon DEF DiffTracked
  <2> QED  BY <2>1, DeathAccepted
<1>4. CASE id \in DOMAIN prv.characters
  <2>1. PersonSound(p, prv.memories)
    BY <1>4 DEF SnapSound
  <2>2. SliceSound(prv, id) /\ SliceSound(curr, id) /\ TablesSound(curr)
    BY DEF SnapSound, TablesSound, SliceSound
  <2>3. /\ None \notin p.traits /\ None \notin c.traits /\ None \notin c.modifiers
        /\ None \notin c.family.concubines /\ c.perks \subseteq Nat /\ None \notin Nat
    BY <1>2, <2>1 DEF PersonSound, Values
  <2>4. PICK A \in {DiffOneCharacter(id, p, c, curr), DiffTitles(id, prv, curr),
                    StreamDiffers(id, c, prv, curr), DiffTraits(id, p, c),
                    DiffConcubines(id, p, c, curr), DiffModifiersAndPerks(id, p, c),
                    DiffMiscarriage(id, p, c, curr.memories), DiffStateChanges(id, p, c)} : e \in A
    BY <1>1, <1>4, Zenon DEF DiffTracked
  <2> HIDE DEF c, p
  <2>5. CASE A = DiffOneCharacter(id, p, c, curr)
    BY <1>2, <2>4, <2>5, OneCharacterAccepted
  <2>6. CASE A = DiffTitles(id, prv, curr)
    BY <2>2, <2>4, <2>6, TitlesAccepted DEF SliceSound
  <2>7. CASE A = StreamDiffers(id, c, prv, curr)
    BY <2>2, <2>4, <2>7, StreamsAccepted
  <2>8. CASE A = DiffTraits(id, p, c)
    BY <2>3, <2>4, <2>8, TraitsAccepted
  <2>9. CASE A = DiffConcubines(id, p, c, curr)
    BY <2>3, <2>4, <2>9, ConcubinesAccepted
  <2>10. CASE A = DiffModifiersAndPerks(id, p, c)
    BY <2>3, <2>4, <2>10, PerksAccepted
  <2>11. CASE A = DiffMiscarriage(id, p, c, curr.memories)
    BY <2>4, <2>11, MiscarriageAccepted
  <2>12. CASE A = DiffStateChanges(id, p, c)
    BY <2>4, <2>12, StatesAccepted
  <2> QED  BY <2>4, <2>5, <2>6, <2>7, <2>8, <2>9, <2>10, <2>11, <2>12, Zenon
<1> QED  BY <1>3, <1>4

\* An event as a differ makes one: a record with its five fields.
LEMMA TrackedRecord ==
  ASSUME NEW id, NEW prv, NEW curr, NEW e \in DiffTracked(id, prv, curr)
  PROVE  e = [c |-> e.c, t |-> e.t, d |-> e.d, p |-> e.p, with |-> e.with]
<1>1. CASE LivingEvent(id, e)
  BY <1>1 DEF LivingEvent
<1>2. CASE e \in MakeDeath(id, curr.characters[id])
  BY <1>2, DeathEvent
<1> QED  BY <1>1, <1>2, TrackedDeath

LEMMA DiffAccepted ==
  ASSUME NEW prv, NEW curr, NEW tracked \in SUBSET Char, NEW e \in DiffSnapshots(prv, curr, tracked),
         None \notin Values, SnapSound(prv), SnapSound(curr)
  PROVE  /\ ~Refused(e)
         /\ e = [x \in DOMAIN e |-> e[x]]
<1>1. PICK id \in tracked :
        \E f \in DiffTracked(id, prv, curr) : e = IF f.d = None THEN [f EXCEPT !.d = curr.date] ELSE f
  BY Zenon DEF DiffSnapshots
<1>0. PICK f \in DiffTracked(id, prv, curr) : e = IF f.d = None THEN [f EXCEPT !.d = curr.date] ELSE f
  BY <1>1
<1>2. f = [c |-> f.c, t |-> f.t, d |-> f.d, p |-> f.p, with |-> f.with]
  BY TrackedRecord
<1>3. Accepted(f.t, f.p)
  BY TrackedAccepted
<1>4. e.t = f.t /\ e.p = f.p /\ e = [x \in DOMAIN e |-> e[x]]
  BY <1>0, <1>2
<1> QED  BY <1>3, <1>4, AcceptedPasses

-----------------------------------------------------------------------------
(* The world's records, as far as the schema asks for them.                *)

Sources == {"memory", "traits", "modifiers", "concubines", "sponsored", "perk", "cooldowns",
            "titles", "sites", "epidemics", "activities", "dynasties"}

\* What the game writes into the fields the schema wants a value of.
Written(w) ==
  /\ Sources \subseteq DOMAIN w
  /\ \A m \in DOMAIN w.memory : w.memory[m] # Junk =>
       w.memory[m].type # None /\ w.memory[m].participants # None
  /\ w.traits \in [Char -> SUBSET {Pregnant}]
  /\ w.modifiers \in [Char -> SUBSET {"mourning"}]
  /\ w.concubines \in [Char -> SUBSET Char]
  /\ w.sponsored \in [Char -> SUBSET {1}]
  /\ w.perk \in [Char -> SUBSET DOMAIN LifestyleOf]
  /\ w.cooldowns \in [Char -> SUBSET ({"stele", "hold_court"} \X {1})]
  /\ 1 \in DOMAIN w.titles /\ "key" \in DOMAIN w.titles[1]
  /\ \A t \in DOMAIN w.titles : w.titles[t] # Junk => "key" \in DOMAIN w.titles[t]
  /\ DOMAIN w.sites = {Site}
  /\ DOMAIN w.epidemics = {1} /\ DOMAIN w.activities = {1}
  /\ DOMAIN w.dynasties = {1, 2}
  /\ w.dynasties[1] \in [perk : SUBSET {"blood_1"}, accumulated : Nat]
  /\ w.dynasties[2] = Junk

\* None is none of the words and numbers the world is made of.
Words == Values \cup {"mourning", "stele", "hold_court", "blood_1", "child_born", "relative_died"}

LEMMA PersonWritten ==
  ASSUME Atoms, NEW w, WorldOK(w), Written(w), NEW c \in Char, w.life[c] # "gone",
         None \notin Words, Pregnant # None, DOMAIN LifestyleOf \subseteq Nat
  PROVE  PersonSound(ParseSave(Save(w)).characters[c], ParseSave(Save(w)).memories)
<1>1. PICK r, dead, memories : r = Person(w, c) /\ dead = (w.life[c] \notin Walking) /\ memories = w.memory
  BY Zenon
<1>2. PICK x : x = ParseCharacter(r, dead, memories)
  OBVIOUS
<1>3. ParseSave(Save(w)).characters[c] = x
  BY <1>1, <1>2, Snapshot
<1>4. ParseSave(Save(w)).memories = Restrict(w.memory, Records(w.memory))
  <2>1. Save(w).memories = w.memory
    BY DEF Save
  <2>2. ParseSave(Save(w)).memories = Restrict(Save(w).memories, Records(Save(w).memories))
    BY Zenon DEF ParseSave
  <2> QED  BY <2>1, <2>2
<1>5. /\ r.traits = w.traits[c] /\ r.modifiers = w.modifiers[c]
      /\ r.family_data = [primary_spouse |-> w.primary[c], spouses |-> w.spouses[c],
                          former_spouses |-> w.former[c], concubines |-> w.concubines[c],
                          children |-> w.children[c], mother |-> None, father |-> None]
      /\ r.landed_data = (IF w.government[c] = None THEN None
                          ELSE [government |-> w.government[c], cooldowns |-> w.cooldowns[c],
                                sponsored |-> w.sponsored[c]])
      /\ r.alive_data = (IF w.life[c] \in Walking
                         THEN [location |-> w.location[c], memories |-> w.memories[c],
                               perk |-> w.perk[c], inspiration |-> None] ELSE None)
  BY <1>1 DEF Person
<1>6. /\ x.traits = r.traits /\ x.modifiers = r.modifiers
      /\ x.family = ParseFamily(r.family_data)
      /\ x.decisions = IF r.landed_data = None THEN {} ELSE r.landed_data.cooldowns
      /\ x.memories \subseteq Records(memories)
      /\ x.perks \subseteq IF dead \/ r.alive_data = None THEN {} ELSE r.alive_data.perk
  BY <1>2 DEF ParseCharacter
<1>7. None \notin x.traits /\ None \notin x.modifiers
  BY <1>5, <1>6 DEF Written, Words
<1>8. None \notin x.family.concubines
  <2>1. x.family.concubines = w.concubines[c]
    <3>1. PICK f : /\ f = r.family_data
                   /\ f = [primary_spouse |-> w.primary[c], spouses |-> w.spouses[c],
                           former_spouses |-> w.former[c], concubines |-> w.concubines[c],
                           children |-> w.children[c], mother |-> None, father |-> None]
      BY <1>5
    <3>2. f # Junk
      BY <3>1 DEF Atoms
    <3> QED  BY <1>6, <3>1, <3>2 DEF ParseFamily
  <2> QED  BY <2>1 DEF Written, Atoms
<1>9. x.perks \subseteq Nat
  <2>1. x.perks \subseteq w.perk[c]
    BY <1>1, <1>5, <1>6
  <2> QED  BY <2>1 DEF Written
<1>10. \A d \in x.decisions : d[1] # None
  <2>1. x.decisions \subseteq w.cooldowns[c]
    <3>1. PICK l : l = [government |-> w.government[c], cooldowns |-> w.cooldowns[c],
                        sponsored |-> w.sponsored[c]]
      OBVIOUS
    <3>2. l # None /\ l.cooldowns = w.cooldowns[c]
      BY <3>1 DEF Atoms
    <3> QED  BY <1>5, <1>6, <3>1, <3>2
  <2> QED  BY <2>1 DEF Written, Words
<1>11. ASSUME NEW m \in x.memories
       PROVE  /\ ParseSave(Save(w)).memories[m].type # None
              /\ ParseSave(Save(w)).memories[m].participants # None
  <2>1. m \in Records(w.memory)
    BY <1>1, <1>6
  <2> QED  BY <1>4, <2>1 DEF Restrict, Records, Written
<1> QED  BY <1>3, <1>7, <1>8, <1>9, <1>10, <1>11 DEF PersonSound

\* The tables of the save, as the parser reads them.
LEMMA SaveFields ==
  ASSUME NEW w
  PROVE  /\ Save(w).titles = w.titles /\ Save(w).wars = w.wars
         /\ Save(w).artifacts = w.artifacts /\ Save(w).court = w.court
         /\ Save(w).epidemics = w.epidemics /\ Save(w).activities = w.activities
         /\ Save(w).sites = w.sites /\ Save(w).dynasties = w.dynasties
         /\ Save(w).houses = w.houses /\ Save(w).relations = w.relations
         /\ Save(w).memories = w.memory
BY DEF Save

LEMMA SnapTables ==
  ASSUME NEW raw
  PROVE  /\ ParseSave(raw).alliances = ParseAlliances(raw)
         /\ ParseSave(raw).wars = ParseWars(raw)
         /\ ParseSave(raw).artifacts = ParseArtifacts(raw)
         /\ ParseSave(raw).court = ParseCourtPositions(raw)
         /\ ParseSave(raw).epidemics = ParseEpidemics(raw)
         /\ ParseSave(raw).activities = ParseActivities(raw)
         /\ ParseSave(raw).inspirations = ParseInspirations(raw)
         /\ ParseSave(raw).titles = ParseTitles(raw)
         /\ ParseSave(raw).constructions = ParseConstructions(raw)
         /\ ParseSave(raw).dynasties = ParseDynasties(raw)
BY Zenon DEF ParseSave

LEMMA PeopleWritten ==
  ASSUME Atoms, NEW w, WorldOK(w), Written(w), None \notin Words, NEW x \in Char
  PROVE  LET snap == ParseSave(Save(w))
         IN  /\ None \notin snap.alliances[x] /\ None \notin snap.wars.of[x]
             /\ None \notin snap.artifacts.of[x] /\ None \notin snap.court.of[x]
             /\ None \notin snap.epidemics.of[x] /\ None \notin snap.activities.of[x]
<1>1. PICK snap, raw : raw = Save(w) /\ snap = ParseSave(raw)
  OBVIOUS
<1>2. None \notin Nat /\ None \notin Char
  BY DEF Atoms
<1>3. None \notin snap.alliances[x]
  <2>1. ParseAlliances(raw)[x] \subseteq Char
    BY DEF ParseAlliances
  <2> QED  BY <1>1, <1>2, <2>1, SnapTables
<1>4. None \notin snap.wars.of[x] /\ None \notin snap.artifacts.of[x] /\ None \notin snap.court.of[x]
  <2>1. /\ snap["wars"].of[x] \subseteq DOMAIN w["wars"]
        /\ snap["artifacts"].of[x] \subseteq DOMAIN w["artifacts"]
        /\ snap["court"].of[x] \subseteq DOMAIN w["court"]
    BY <1>1, IndexedRows DEF Tables
  <2>2. /\ DOMAIN w["wars"] \subseteq Nat /\ DOMAIN w["artifacts"] \subseteq Nat
        /\ DOMAIN w["court"] \subseteq Nat
    BY DEF WorldOK
  <2> QED  BY <1>2, <2>1, <2>2
<1>5. None \notin snap.epidemics.of[x]
  <2>1. ParseEpidemics(raw).of[x] \subseteq DOMAIN raw.epidemics
    BY DEF ParseEpidemics, ReverseIndex, Records
  <2>2. DOMAIN raw.epidemics = {1}
    BY <1>1, SaveFields DEF Written
  <2> QED  BY <1>1, <1>2, <2>1, <2>2, SnapTables
<1>6. None \notin snap.activities.of[x]
  <2>1. ParseActivities(raw).of[x] \subseteq DOMAIN raw.activities
    BY DEF ParseActivities, ReverseIndex, Records
  <2>2. DOMAIN raw.activities = {1}
    BY <1>1, SaveFields DEF Written
  <2> QED  BY <1>1, <1>2, <2>1, <2>2, SnapTables
<1> QED  BY <1>1, <1>3, <1>4, <1>5, <1>6

LEMMA TitlesWritten ==
  ASSUME Atoms, NEW w, WorldOK(w), Written(w), NEW x \in Char,
         NEW t \in ParseSave(Save(w)).titles.of[x]
  PROVE  t # None /\ ParseSave(Save(w)).titles.row[t].key # None
<1>1. PICK raw : raw = Save(w)
  OBVIOUS
<1>2. raw.titles = w.titles
  BY <1>1, SaveFields
<1>3. PICK kept, tiers, rows, index :
        /\ kept = Restrict(raw.titles, {k \in Records(raw.titles) : raw.titles[k].key # None})
        /\ rows = [s \in DOMAIN kept |-> [kept[s] EXCEPT !.tier = tiers[s]]]
        /\ index = ReverseIndex(rows, LAMBDA r : {r.holder})
        /\ ParseTitles(raw) = [row |-> rows, of |-> index]
  BY Zenon DEF ParseTitles
<1>4. ParseSave(raw).titles.row = rows /\ ParseSave(raw).titles.of = index
  <2>1. ParseSave(raw).titles = [row |-> rows, of |-> index]
    BY <1>3, SnapTables, Zenon
  <2> QED  BY <2>1
<1>5. t \in DOMAIN rows
  <2>1. index[x] \subseteq Records(rows)
    <3>1. index = ReverseIndex(rows, LAMBDA r : {r.holder})
      BY <1>3
    <3> QED  BY <3>1 DEF ReverseIndex
  <2> QED  BY <1>1, <1>4, <2>1 DEF Records
<1>6. t \in Records(w.titles) /\ w.titles[t].key # None /\ kept[t] = w.titles[t]
  BY <1>2, <1>3, <1>5 DEF Restrict
<1>7. t # None
  BY <1>6 DEF Records, WorldOK, Atoms
<1>8. "key" \in DOMAIN kept[t]
  BY <1>6 DEF Records, Written
<1>9. rows[t].key = kept[t].key
  BY <1>3, <1>5, <1>8
<1> QED  BY <1>1, <1>4, <1>6, <1>7, <1>9

LEMMA SitesWritten ==
  ASSUME Atoms, NEW w, Written(w), NEW x \in Char,
         NEW k \in ParseSave(Save(w)).constructions.of[x]
  PROVE  /\ ParseSave(Save(w)).constructions.row[k].building # None
         /\ k[1] # None /\ k[2] # None
<1>1. PICK raw : raw = Save(w)
  OBVIOUS
<1>2. raw.sites = w.sites
  BY <1>1, SaveFields
<1>3. PICK sites, rows, built :
        /\ sites = {s \in Records(raw.sites) : raw.sites[s].building # None}
        /\ rows = Restrict(raw.sites, sites)
        /\ ParseConstructions(raw) =
             [row |-> rows, of |-> [c \in Char |-> {s \in sites : raw.sites[s].character = c}],
              built |-> built]
  BY Zenon DEF ParseConstructions
<1>4. k \in sites /\ ParseSave(raw).constructions.row = rows
  BY <1>1, <1>3, SnapTables
<1>5. rows[k].building # None
  BY <1>3, <1>4 DEF Restrict
<1>6. k = Site
  BY <1>2, <1>3, <1>4 DEF Records, Written
<1>7. k[1] = 1 /\ k[2] = 0
  BY <1>6 DEF Site
<1>8. 1 # None /\ 0 # None
  BY DEF Atoms
<1> QED  BY <1>1, <1>4, <1>5, <1>7, <1>8

LEMMA SponsorsWritten ==
  ASSUME Atoms, NEW w, Written(w), NEW x \in Char
  PROVE  None \notin ParseSave(Save(w)).inspirations.of[x]
<1>1. PICK raw : raw = Save(w)
  OBVIOUS
<1>2. PICK alive, rows :
        /\ alive = {c \in DOMAIN raw.living : CharacterEntry(raw.living[c]) # None}
        /\ ParseInspirations(raw) =
             [row |-> rows,
              of  |-> [c \in Char |-> IF c \in alive /\ CharacterEntry(raw.living[c]).landed_data # None
                                      THEN CharacterEntry(raw.living[c]).landed_data.sponsored ELSE {}]]
  BY Zenon DEF ParseInspirations
<1>3. ParseInspirations(raw).of[x]
        = IF x \in alive /\ CharacterEntry(raw.living[x]).landed_data # None
          THEN CharacterEntry(raw.living[x]).landed_data.sponsored ELSE {}
  BY <1>2
<1>4. CASE x \in alive /\ CharacterEntry(raw.living[x]).landed_data # None
  <2>1. CharacterEntry(raw.living[x]) = Person(w, x)
    BY <1>1, <1>2, <1>4, Buckets
  <2>2. Person(w, x).landed_data = IF w.government[x] = None THEN None
                                   ELSE [government |-> w.government[x], cooldowns |-> w.cooldowns[x],
                                         sponsored |-> w.sponsored[x]]
    BY DEF Person
  <2>3. ParseInspirations(raw).of[x] = w.sponsored[x]
    BY <1>3, <1>4, <2>1, <2>2
  <2>4. None \notin {1}
    BY DEF Atoms
  <2> QED  BY <1>1, <2>3, <2>4, SnapTables DEF Written
<1>5. CASE ~(x \in alive /\ CharacterEntry(raw.living[x]).landed_data # None)
  BY <1>1, <1>3, <1>5, SnapTables
<1> QED  BY <1>4, <1>5

LEMMA DynastiesWritten ==
  ASSUME Atoms, NEW w, Written(w), None \notin Words
  PROVE  LET dynasties == ParseSave(Save(w)).dynasties
         IN  /\ \A h \in DOMAIN dynasties.of : dynasties.of[h] # None
             /\ \A d \in DOMAIN dynasties.perks : None \notin dynasties.perks[d]
             /\ \A d \in DOMAIN dynasties.renown : dynasties.renown[d] \in Nat
<1>1. PICK raw : raw = Save(w)
  OBVIOUS
<1>2. raw.dynasties = w.dynasties
  BY <1>1, SaveFields
<1>3. PICK houses, dynasties :
        /\ houses = {h \in Records(raw.houses) : raw.houses[h].dynasty # None}
        /\ dynasties = ParseDynasties(raw)
        /\ dynasties = [perks  |-> [d \in Records(raw.dynasties) |-> raw.dynasties[d].perk],
                        renown |-> [d \in Records(raw.dynasties) |-> raw.dynasties[d].accumulated],
                        of     |-> [h \in houses |-> raw.houses[h].dynasty]]
  BY Zenon DEF ParseDynasties
<1>4. \A h \in DOMAIN dynasties.of : dynasties.of[h] # None
  BY <1>3
<1>5. Records(raw.dynasties) \subseteq {1}
  BY <1>2 DEF Records, Written
<1>6. raw.dynasties[1].perk \subseteq {"blood_1"} /\ raw.dynasties[1].accumulated \in Nat
  BY <1>2 DEF Written
<1>7. \A d \in DOMAIN dynasties.perks : None \notin dynasties.perks[d]
  BY <1>3, <1>5, <1>6 DEF Words
<1>8. \A d \in DOMAIN dynasties.renown : dynasties.renown[d] \in Nat
  BY <1>3, <1>5, <1>6
<1> QED  BY <1>1, <1>3, <1>4, <1>7, <1>8, SnapTables

\* The snapshot of a save has what every differ needs.
LEMMA SnapshotSound ==
  ASSUME Atoms, NEW w, WorldOK(w), Written(w), None \notin Words, Pregnant # None,
         DOMAIN LifestyleOf \subseteq Nat
  PROVE  SnapSound(ParseSave(Save(w)))
<1>1. PICK snap : snap = ParseSave(Save(w))
  OBVIOUS
<1>2. \A x \in DOMAIN snap.characters : PersonSound(snap.characters[x], snap.memories)
  BY <1>1, Snapshot, PersonWritten
<1>3. \A x \in Char : None \notin UNION {snap.alliances[x], snap.wars.of[x], snap.artifacts.of[x],
                                         snap.court.of[x], snap.epidemics.of[x],
                                         snap.activities.of[x], snap.inspirations.of[x]}
  <2>1. ASSUME NEW x \in Char
        PROVE  /\ None \notin snap.alliances[x] /\ None \notin snap.wars.of[x]
               /\ None \notin snap.artifacts.of[x] /\ None \notin snap.court.of[x]
               /\ None \notin snap.epidemics.of[x] /\ None \notin snap.activities.of[x]
               /\ None \notin snap.inspirations.of[x]
    BY <1>1, PeopleWritten, SponsorsWritten
  <2> QED  BY <2>1
<1>4. TablesSound(snap)
  BY <1>1, <1>3, TitlesWritten, SitesWritten, DynastiesWritten DEF TablesSound
<1> QED  BY <1>1, <1>2, <1>4 DEF SnapSound

-----------------------------------------------------------------------------
(* The moves of the game keep its records written.                         *)

Untouched(w, v) ==
  /\ DOMAIN v = DOMAIN w
  /\ \A f \in Sources \cap DOMAIN w : v[f] = w[f]

LEMMA UntouchedWritten ==
  ASSUME NEW w, NEW v, Written(w), Untouched(w, v)
  PROVE  Written(v)
<1>1. /\ v.memory = w.memory /\ v.traits = w.traits /\ v.modifiers = w.modifiers
      /\ v.concubines = w.concubines /\ v.sponsored = w.sponsored /\ v.perk = w.perk
      /\ v.cooldowns = w.cooldowns /\ v.titles = w.titles /\ v.sites = w.sites
      /\ v.epidemics = w.epidemics /\ v.activities = w.activities /\ v.dynasties = w.dynasties
  BY DEF Untouched, Sources, Written
<1>2. Sources \subseteq DOMAIN v
  BY DEF Untouched, Written
<1> QED  BY <1>1, <1>2 DEF Written

LEMMA FieldUntouched ==
  ASSUME NEW w, NEW f, f \notin Sources, NEW x
  PROVE  Untouched(w, [w EXCEPT ![f] = x])
BY DEF Untouched

LEMMA EntryUntouched ==
  ASSUME NEW w, NEW f, f \notin Sources, NEW k, NEW x
  PROVE  Untouched(w, [w EXCEPT ![f][k] = x])
BY DEF Untouched

LEMMA UntouchedTwice ==
  ASSUME NEW u, NEW v, NEW w, Untouched(u, v), Untouched(v, w)
  PROVE  Untouched(u, w)
BY DEF Untouched

LEMMA DidUntouched ==
  ASSUME NEW w, NEW h
  PROVE  Untouched(w, Did(w, h))
<1>1. PICK x : Did(w, h) = [w EXCEPT !.done = x]
  BY Zenon DEF Did
<1>2. "done" \notin Sources
  BY DEF Sources
<1> QED  BY <1>1, <1>2, FieldUntouched

LEMMA DieUntouched ==
  ASSUME NEW w, NEW v \in Deaths(w)
  PROVE  Untouched(w, v)
<1>1. PICK c \in Tracked : \E s \in NextStage[w.life[c]] : \E k : v = Die(w, c, s, k)
  BY DEF Deaths
<1>2. PICK s, k : v = Die(w, c, s, k)
  BY <1>1
<1> QED  BY <1>2 DEF Die, Untouched, Sources

LEMMA TurnsUntouched ==
  ASSUME NEW w, NEW c, NEW v \in Turns(w, c)
  PROVE  Untouched(w, v)
<1>0. \E f \in {"location", "culture", "faith", "nickname"} : \E x : v = [w EXCEPT ![f][c] = x]
  BY DEF Turns
<1>1. PICK f \in {"location", "culture", "faith", "nickname"} : \E x : v = [w EXCEPT ![f][c] = x]
  BY <1>0
<1>2. f \notin Sources
  BY DEF Sources
<1>3. PICK x : v = [w EXCEPT ![f][c] = x]
  BY <1>1
<1> QED  BY <1>2, <1>3, EntryUntouched

LEMMA WarsUntouched ==
  ASSUME NEW w, NEW v \in WarMoves(w)
  PROVE  Untouched(w, v)
<1>1. \/ \E c, d, k : v = Declare(w, c, d, k)
      \/ \E c, k : v \in Musters(w, c, k)
      \/ \E k : v = [w EXCEPT !.wars[k] = Junk]
  BY DEF WarMoves
<1>2. "wars" \notin Sources
  BY DEF Sources
<1>3. ASSUME NEW c, NEW d, NEW k, v = Declare(w, c, d, k)  PROVE  Untouched(w, v)
  <2>1. PICK u, x, h : u = [w EXCEPT !.wars[k] = x] /\ v = Did(u, h)
    BY <1>3, Zenon DEF Declare
  <2>2. Untouched(w, u)
    BY <1>2, <2>1, EntryUntouched
  <2> QED  BY <2>1, <2>2, DidUntouched, UntouchedTwice
<1>4. ASSUME NEW c, NEW k, v \in Musters(w, c, k)  PROVE  Untouched(w, v)
  <2>1. PICK x : v = [w EXCEPT !.wars[k].attackers = x]
    BY <1>4, Zenon DEF Musters
  <2> QED  BY <2>1 DEF Untouched, Sources
<1>5. ASSUME NEW k, v = [w EXCEPT !.wars[k] = Junk]  PROVE  Untouched(w, v)
  BY <1>2, <1>5, EntryUntouched
<1> QED  BY <1>1, <1>3, <1>4, <1>5

LEMMA BondsUntouched ==
  ASSUME NEW w, NEW v \in BondMoves(w)
  PROVE  Untouched(w, v)
<1>1. /\ DOMAIN v = DOMAIN w
      /\ \A f \in DOMAIN w \ {"relations", "artifacts", "court"} : v[f] = w[f]
  BY DEF BondMoves
<1> QED  BY <1>1 DEF Untouched, Sources

LEMMA ContractUntouched ==
  ASSUME NEW w, NEW c, NEW v \in ContractMoves(w, c)
  PROVE  Untouched(w, v)
<1>1. PICK u, x, h : \/ v = [w EXCEPT !.contracts[1] = x] \/ v = [w EXCEPT !.contracts = x]
                     \/ u = [w EXCEPT !.contracts[1].status = x] /\ v = Did(u, h)
  BY Zenon DEF ContractMoves
<1>2. v = [w EXCEPT !.contracts[1] = x] \/ v = [w EXCEPT !.contracts = x] => Untouched(w, v)
  BY DEF Untouched, Sources
<1>3. u = [w EXCEPT !.contracts[1].status = x] => Untouched(w, u)
  BY DEF Untouched, Sources
<1> QED  BY <1>1, <1>2, <1>3, DidUntouched, UntouchedTwice

LEMMA MarriageUntouched ==
  ASSUME NEW w, NEW c, NEW d
  PROVE  Untouched(w, Part(w, c, d)) /\ Untouched(w, Split(w, c, d)) /\ Untouched(w, Wed(w, c, d))
<1>1. Untouched(w, Part(w, c, d))
  <2>1. PICK x, y, p, q : Part(w, c, d) = [w EXCEPT !.spouses[c] = x, !.spouses[d] = y,
                                                    !.primary[c] = p, !.primary[d] = q]
    BY Zenon DEF Part
  <2> QED  BY <2>1 DEF Untouched, Sources
<1>2. Untouched(w, Split(w, c, d))
  <2>1. PICK u, x, y, h : /\ u = [Part(w, c, d) EXCEPT !.former[c] = x, !.former[d] = y]
                          /\ Split(w, c, d) = Did(u, h)
    BY Zenon DEF Split
  <2>2. Untouched(Part(w, c, d), u)
    BY <2>1 DEF Untouched, Sources
  <2> QED  BY <1>1, <2>1, <2>2, DidUntouched, UntouchedTwice
<1>3. Untouched(w, Wed(w, c, d))
  <2>1. PICK u, x, y, p, q, h :
          /\ u = [w EXCEPT !.spouses[c] = x, !.spouses[d] = y, !.primary[c] = p, !.primary[d] = q]
          /\ Wed(w, c, d) = Did(u, h)
    BY Zenon DEF Wed
  <2>2. Untouched(w, u)
    BY <2>1 DEF Untouched, Sources
  <2> QED  BY <2>1, <2>2, DidUntouched, UntouchedTwice
<1> QED  BY <1>1, <1>2, <1>3

LEMMA RememberWritten ==
  ASSUME Atoms, NEW w, Written(w), NEW c, NEW m, NEW t, NEW roles, t # None, roles # None
  PROVE  Written(Remember(w, c, m, t, roles))
<1>1. PICK v, x, r : /\ v = Remember(w, c, m, t, roles)
                     /\ v = [w EXCEPT !.memories[c] = x, !.memory[m] = r]
                     /\ r = [type |-> t, created |-> w.date, participants |-> roles]
  BY Zenon DEF Remember
<1>2. PICK u : u = [w EXCEPT !.memories[c] = x] /\ v = [u EXCEPT !.memory[m] = r]
  BY <1>1
<1>3. Written(u) /\ u.memory = w.memory
  <2>1. Untouched(w, u)
    BY <1>2 DEF Untouched, Sources
  <2> QED  BY <2>1, UntouchedWritten DEF Untouched, Sources, Written
<1>4. Sources \subseteq DOMAIN v /\ \A f \in Sources \ {"memory"} : v[f] = u[f]
  <2>1. DOMAIN v = DOMAIN u /\ \A f \in DOMAIN u : f # "memory" => v[f] = u[f]
    BY <1>2
  <2> QED  BY <1>3, <2>1 DEF Written
<1>5. v.memory = [w.memory EXCEPT ![m] = r]
  BY <1>1, <1>2, <1>3 DEF Written, Sources
<1>6. r.type # None /\ r.participants # None
  BY <1>1
<1>7. \A k \in DOMAIN v.memory : v.memory[k] # Junk =>
        v.memory[k].type # None /\ v.memory[k].participants # None
  BY <1>3, <1>5, <1>6 DEF Written
<1>8. /\ v.traits = u.traits /\ v.modifiers = u.modifiers
      /\ v.concubines = u.concubines /\ v.sponsored = u.sponsored /\ v.perk = u.perk
      /\ v.cooldowns = u.cooldowns /\ v.titles = u.titles /\ v.sites = u.sites
      /\ v.epidemics = u.epidemics /\ v.activities = u.activities /\ v.dynasties = u.dynasties
  BY <1>4 DEF Sources
<1> QED  BY <1>1, <1>3, <1>4, <1>7, <1>8 DEF Written

\* A move of one field, whose new value is as the game writes it.
Fine(f, x) ==
  /\ f \in Sources \ {"memory"}
  /\ f = "traits" => x \in [Char -> SUBSET {Pregnant}]
  /\ f = "modifiers" => x \in [Char -> SUBSET {"mourning"}]
  /\ f = "concubines" => x \in [Char -> SUBSET Char]
  /\ f = "sponsored" => x \in [Char -> SUBSET {1}]
  /\ f = "perk" => x \in [Char -> SUBSET DOMAIN LifestyleOf]
  /\ f = "cooldowns" => x \in [Char -> SUBSET ({"stele", "hold_court"} \X {1})]
  /\ f \in {"epidemics", "activities"} => DOMAIN x = {1}
  /\ f = "sites" => DOMAIN x = {Site}
  /\ f = "titles" => /\ 1 \in DOMAIN x /\ "key" \in DOMAIN x[1]
                     /\ \A t \in DOMAIN x : x[t] # Junk => "key" \in DOMAIN x[t]
  /\ f = "dynasties" => /\ DOMAIN x = {1, 2} /\ x[2] = Junk
                        /\ x[1] \in [perk : SUBSET {"blood_1"}, accumulated : Nat]

LEMMA FieldWritten ==
  ASSUME NEW w, Written(w), NEW f, NEW x, Fine(f, x), NEW v, v = [w EXCEPT ![f] = x]
  PROVE  Written(v)
<1>1. Sources \subseteq DOMAIN v /\ v[f] = x /\ \A g \in Sources \ {f} : v[g] = w[g]
  <2>1. f \in DOMAIN w
    BY DEF Fine, Written
  <2>2. DOMAIN v = DOMAIN w /\ v[f] = x /\ \A g \in DOMAIN w : g # f => v[g] = w[g]
    BY <2>1
  <2> QED  BY <2>2 DEF Written
<1>2. v.memory = w.memory
  BY <1>1 DEF Sources, Fine
<1>3. v.traits \in [Char -> SUBSET {Pregnant}] /\ v.modifiers \in [Char -> SUBSET {"mourning"}]
  <2>1. v.traits = (IF f = "traits" THEN x ELSE w.traits) /\ v.modifiers = (IF f = "modifiers" THEN x ELSE w.modifiers)
    BY <1>1 DEF Sources
  <2> QED  BY <2>1 DEF Written, Fine
<1>4. v.concubines \in [Char -> SUBSET Char] /\ v.sponsored \in [Char -> SUBSET {1}]
  <2>1. /\ v.concubines = (IF f = "concubines" THEN x ELSE w.concubines)
        /\ v.sponsored = (IF f = "sponsored" THEN x ELSE w.sponsored)
    BY <1>1 DEF Sources
  <2> QED  BY <2>1 DEF Written, Fine
<1>5. /\ v.perk \in [Char -> SUBSET DOMAIN LifestyleOf]
      /\ v.cooldowns \in [Char -> SUBSET ({"stele", "hold_court"} \X {1})]
  <2>1. /\ v.perk = (IF f = "perk" THEN x ELSE w.perk)
        /\ v.cooldowns = (IF f = "cooldowns" THEN x ELSE w.cooldowns)
    BY <1>1 DEF Sources
  <2> QED  BY <2>1 DEF Written, Fine
<1>6. DOMAIN v.epidemics = {1} /\ DOMAIN v.activities = {1} /\ DOMAIN v.sites = {Site}
  <2>1. /\ v.epidemics = (IF f = "epidemics" THEN x ELSE w.epidemics)
        /\ v.activities = (IF f = "activities" THEN x ELSE w.activities)
        /\ v.sites = (IF f = "sites" THEN x ELSE w.sites)
    BY <1>1 DEF Sources
  <2> QED  BY <2>1 DEF Written, Fine
<1>7. 1 \in DOMAIN v.titles /\ "key" \in DOMAIN v.titles[1] /\ \A t \in DOMAIN v.titles : v.titles[t] # Junk => "key" \in DOMAIN v.titles[t]
  <2>1. v.titles = (IF f = "titles" THEN x ELSE w.titles)
    BY <1>1 DEF Sources
  <2> QED  BY <2>1 DEF Written, Fine
<1>8. /\ DOMAIN v.dynasties = {1, 2} /\ v.dynasties[2] = Junk
      /\ v.dynasties[1] \in [perk : SUBSET {"blood_1"}, accumulated : Nat]
  <2>1. v.dynasties = (IF f = "dynasties" THEN x ELSE w.dynasties)
    BY <1>1 DEF Sources
  <2> QED  BY <2>1 DEF Written, Fine
<1> QED  BY <1>1, <1>2, <1>3, <1>4, <1>5, <1>6, <1>7, <1>8 DEF Written

LEMMA CareersWritten ==
  ASSUME NEW w, Written(w), NEW c \in Char, NEW v \in Careers(w, c)
  PROVE  Written(v)
<1>1. \/ \E x \in SUBSET {"mourning"} : v = [w EXCEPT !.modifiers[c] = x]
      \/ \E g : v = [w EXCEPT !.government[c] = g]
      \/ \E x \in SUBSET ({"stele", "hold_court"} \X {1}) : v = [w EXCEPT !.cooldowns[c] = x]
      \/ \E x \in SUBSET DOMAIN LifestyleOf : v = [w EXCEPT !.perk[c] = x]
  <2>1. \/ v = [w EXCEPT !.modifiers[c] = {"mourning"} \ @]
        \/ \E g : v = [w EXCEPT !.government[c] = g]
        \/ \E d \in {"stele", "hold_court"} : v = [w EXCEPT !.cooldowns[c] = {<<d, 1>>}]
        \/ \E k \in DOMAIN LifestyleOf : v = [w EXCEPT !.perk[c] = @ \cup {k}]
    BY Zenon DEF Careers
  <2>2. \A d \in {"stele", "hold_court"} : {<<d, 1>>} \in SUBSET ({"stele", "hold_court"} \X {1})
    OBVIOUS
  <2>3. \A k \in DOMAIN LifestyleOf : w.perk[c] \cup {k} \in SUBSET DOMAIN LifestyleOf
    BY DEF Written
  <2>4. {"mourning"} \ w.modifiers[c] \in SUBSET {"mourning"}
    OBVIOUS
  <2> QED  BY <2>1, <2>2, <2>3, <2>4, Zenon
<1>2. ASSUME NEW x \in SUBSET {"mourning"}, v = [w EXCEPT !.modifiers[c] = x]  PROVE  Written(v)
  <2>1. PICK y : y = [w.modifiers EXCEPT ![c] = x]
    OBVIOUS
  <2>2. v = [w EXCEPT !["modifiers"] = y] /\ y \in [Char -> SUBSET {"mourning"}]
    BY <1>2, <2>1 DEF Written
  <2>3. Fine("modifiers", y)
    BY <2>2 DEF Fine, Sources
  <2> QED  BY <2>2, <2>3, FieldWritten
<1>3. ASSUME NEW g, v = [w EXCEPT !.government[c] = g]  PROVE  Written(v)
  <2>1. Untouched(w, v)
    BY <1>3 DEF Untouched, Sources
  <2> QED  BY <2>1, UntouchedWritten
<1>4. ASSUME NEW x \in SUBSET ({"stele", "hold_court"} \X {1}), v = [w EXCEPT !.cooldowns[c] = x]
      PROVE  Written(v)
  <2>1. PICK y : y = [w.cooldowns EXCEPT ![c] = x]
    OBVIOUS
  <2>2. v = [w EXCEPT !["cooldowns"] = y] /\ y \in [Char -> SUBSET ({"stele", "hold_court"} \X {1})]
    BY <1>4, <2>1 DEF Written
  <2>3. Fine("cooldowns", y)
    BY <2>2 DEF Fine, Sources
  <2> QED  BY <2>2, <2>3, FieldWritten
<1>5. ASSUME NEW x \in SUBSET DOMAIN LifestyleOf, v = [w EXCEPT !.perk[c] = x]  PROVE  Written(v)
  <2>1. PICK y : y = [w.perk EXCEPT ![c] = x]
    OBVIOUS
  <2>2. v = [w EXCEPT !["perk"] = y] /\ y \in [Char -> SUBSET DOMAIN LifestyleOf]
    BY <1>5, <2>1 DEF Written
  <2>3. Fine("perk", y)
    BY <2>2 DEF Fine, Sources
  <2> QED  BY <2>2, <2>3, FieldWritten
<1> QED  BY <1>1, <1>2, <1>3, <1>4, <1>5

LEMMA TraitWritten ==
  ASSUME NEW w, Written(w), NEW c \in Char, NEW v, NEW x \in SUBSET {Pregnant},
         v = [w EXCEPT !.traits[c] = x]
  PROVE  Written(v)
<1>1. PICK y : y = [w.traits EXCEPT ![c] = x]
  OBVIOUS
<1>2. v = [w EXCEPT !["traits"] = y] /\ y \in [Char -> SUBSET {Pregnant}]
  BY <1>1 DEF Written
<1>3. Fine("traits", y)
  BY <1>2 DEF Fine, Sources
<1> QED  BY <1>2, <1>3, FieldWritten

LEMMA CarryWritten ==
  ASSUME Atoms, None \notin Words, NEW w, Written(w), NEW c \in Char, NEW v \in Carry(w, c)
  PROVE  Written(v)
<1>1. PICK m, r, u, h :
        \/ /\ r = Remember(w, c, m, "child_born", << >>)
           /\ v = [r EXCEPT !.traits[c] = @ \ {Pregnant}]
        \/ u = [w EXCEPT !.traits[c] = @ \ {Pregnant}] /\ v = Did(u, h)
        \/ v = [w EXCEPT !.traits[c] = @ \cup {Pregnant}]
  BY Zenon DEF Carry, Birth, Miscarry
<1>2. ASSUME r = Remember(w, c, m, "child_born", << >>), v = [r EXCEPT !.traits[c] = @ \ {Pregnant}]
      PROVE  Written(v)
  <2>1. << >> # None /\ "child_born" # None
    <3>1. << >> = [i \in DOMAIN << >> |-> << >>[i]]
      OBVIOUS
    <3>2. << >> # None
      BY <3>1 DEF Atoms
    <3> QED  BY <3>2 DEF Words
  <2>2. Written(r)
    BY <1>2, <2>1, RememberWritten
  <2>3. r.traits[c] \ {Pregnant} \in SUBSET {Pregnant}
    BY <2>2 DEF Written
  <2> QED  BY <1>2, <2>2, <2>3, TraitWritten
<1>3. ASSUME u = [w EXCEPT !.traits[c] = @ \ {Pregnant}], v = Did(u, h)  PROVE  Written(v)
  <2>1. w.traits[c] \ {Pregnant} \in SUBSET {Pregnant}
    BY DEF Written
  <2>2. Written(u)
    BY <1>3, <2>1, TraitWritten
  <2> QED  BY <1>3, <2>2, DidUntouched, UntouchedWritten
<1>4. ASSUME v = [w EXCEPT !.traits[c] = @ \cup {Pregnant}]  PROVE  Written(v)
  <2>1. w.traits[c] \cup {Pregnant} \in SUBSET {Pregnant}
    BY DEF Written
  <2> QED  BY <1>4, <2>1, TraitWritten
<1> QED  BY <1>1, <1>2, <1>3, <1>4

LEMMA FamilyWritten ==
  ASSUME Atoms, None \notin Words, NEW w, Written(w), NEW v \in FamilyMoves(w)
  PROVE  Written(v)
<1>1. PICK c \in Char : v \in Carry(w, c) \/ \E d \in Char : v \in Matches(w, c, d)
  BY TrackedAssumption DEF FamilyMoves, Alive
<1>2. ASSUME NEW d \in Char, v \in Matches(w, c, d)  PROVE  Written(v)
  <2>1. \/ v \in {Part(w, c, d), Split(w, c, d), Wed(w, c, d)}
        \/ v = [w EXCEPT !.concubines[c] = @ \cup {d}]
    BY <1>2, Zenon DEF Matches
  <2>2. CASE v \in {Part(w, c, d), Split(w, c, d), Wed(w, c, d)}
    BY <2>2, MarriageUntouched, UntouchedWritten
  <2>3. CASE v = [w EXCEPT !.concubines[c] = @ \cup {d}]
    <3>1. PICK x : x = [w.concubines EXCEPT ![c] = @ \cup {d}]
      OBVIOUS
    <3>2. v = [w EXCEPT !["concubines"] = x] /\ x \in [Char -> SUBSET Char]
      BY <2>3, <3>1 DEF Written
    <3>3. Fine("concubines", x)
      BY <3>2 DEF Fine, Sources
    <3> QED  BY <3>2, <3>3, FieldWritten
  <2> QED  BY <2>1, <2>2, <2>3
<1> QED  BY <1>1, <1>2, CarryWritten

LEMMA MourningWritten ==
  ASSUME Atoms, None \notin Words, NEW w, Written(w), NEW v \in MourningMoves(w)
  PROVE  Written(v)
<1>1. PICK c, m, d : v = Mourn(w, c, m, d)
  BY DEF MourningMoves
<1>2. "relative_died" # None /\ [dead_relation |-> d] # None
  BY DEF Words, Atoms
<1> QED  BY <1>1, <1>2, RememberWritten DEF Mourn

LEMMA TitleWritten ==
  ASSUME NEW w, Written(w), NEW t, NEW x, NEW v, v = [w EXCEPT !.titles[t] = x],
         "key" \in DOMAIN x \/ (t # 1 /\ x = Junk)
  PROVE  Written(v)
<1>1. PICK y : y = [w.titles EXCEPT ![t] = x]
  OBVIOUS
<1>2. v = [w EXCEPT !["titles"] = y]
  BY <1>1
<1>3. DOMAIN y = DOMAIN w.titles /\ \A s \in DOMAIN y : y[s] = IF s = t THEN x ELSE w.titles[s]
  BY <1>1
<1>4. \A s \in DOMAIN y : y[s] # Junk => "key" \in DOMAIN y[s]
  BY <1>3 DEF Written
<1>5. 1 \in DOMAIN y /\ "key" \in DOMAIN y[1]
  BY <1>3 DEF Written
<1>6. Fine("titles", y)
  BY <1>4, <1>5 DEF Fine, Sources
<1> QED  BY <1>2, <1>6, FieldWritten

LEMMA TitlesStayWritten ==
  ASSUME NEW w, Written(w), NEW v \in TitleMoves(w)
  PROVE  Written(v)
<1>1. PICK t, x : /\ v = [w EXCEPT !.titles[t] = x]
                  /\ \/ \E s, h : x = Land(s, h)
                     \/ \E h : x = Unwired(h)
                     \/ t = 2 /\ x = Junk
  BY DEF TitleMoves
<1>2. \A s, h : "key" \in DOMAIN Land(s, h)
  BY DEF Land
<1>3. \A h : "key" \in DOMAIN Unwired(h)
  <2>1. \A h : DOMAIN Unwired(h) = DOMAIN Land(2, h)
    BY DEF Unwired
  <2> QED  BY <1>2, <2>1
<1> QED  BY <1>1, <1>2, <1>3, TitleWritten

LEMMA SitesStayWritten ==
  ASSUME NEW w, Written(w), NEW c, NEW v \in SiteMoves(w, c)
  PROVE  Written(v)
<1>1. PICK u, x, y, h : \/ v = [w EXCEPT !.sites[Site] = x]
                        \/ u = [w EXCEPT !.buildings[Site] = x, !.sites[Site] = y] /\ v = Did(u, h)
  BY Zenon DEF SiteMoves
<1>2. ASSUME NEW z, Written(z), NEW s, NEW r, s = [z EXCEPT !.sites[Site] = r]  PROVE  Written(s)
  <2>1. PICK f : f = [z.sites EXCEPT ![Site] = r]
    OBVIOUS
  <2>2. s = [z EXCEPT !["sites"] = f] /\ DOMAIN f = {Site}
    BY <1>2, <2>1 DEF Written
  <2>3. Fine("sites", f)
    BY <2>2 DEF Fine, Sources
  <2> QED  BY <1>2, <2>2, <2>3, FieldWritten
<1>3. ASSUME u = [w EXCEPT !.buildings[Site] = x, !.sites[Site] = y], v = Did(u, h)
      PROVE  Written(v)
  <2>1. PICK z : z = [w EXCEPT !.buildings[Site] = x] /\ u = [z EXCEPT !.sites[Site] = y]
    BY <1>3
  <2>2. Untouched(w, z)
    BY <2>1 DEF Untouched, Sources
  <2>3. Written(u)
    <3>1. Written(z)
      BY <2>2, UntouchedWritten
    <3> QED  BY <1>2, <2>1, <3>1, Zenon
  <2> QED  BY <1>3, <2>3, DidUntouched, UntouchedWritten
<1> QED  BY <1>1, <1>2, <1>3

LEMMA OccasionsWritten ==
  ASSUME NEW w, Written(w), NEW c \in Char, NEW v \in Occasions(w, c)
  PROVE  Written(v)
<1>1. \/ \E x : v = [w EXCEPT !.epidemics[1] = x]
      \/ \E x : v = [w EXCEPT !.activities[1] = x]
      \/ v = [w EXCEPT !.sponsored[c] = {1}]
      \/ \E x : v = [w EXCEPT !.inspirations[1] = x]
      \/ v = [w EXCEPT !.titles[1].holder = c]
      \/ v = [w EXCEPT !.domiciles[1].province = 3 - @]
  BY Zenon DEF Occasions
<1>2. ASSUME NEW x, v = [w EXCEPT !.epidemics[1] = x]  PROVE  Written(v)
  <2>1. PICK y : y = [w.epidemics EXCEPT ![1] = x]
    OBVIOUS
  <2>2. v = [w EXCEPT !["epidemics"] = y] /\ DOMAIN y = {1}
    BY <1>2, <2>1 DEF Written
  <2>3. Fine("epidemics", y)
    BY <2>2 DEF Fine, Sources
  <2> QED  BY <2>2, <2>3, FieldWritten
<1>3. ASSUME NEW x, v = [w EXCEPT !.activities[1] = x]  PROVE  Written(v)
  <2>1. PICK y : y = [w.activities EXCEPT ![1] = x]
    OBVIOUS
  <2>2. v = [w EXCEPT !["activities"] = y] /\ DOMAIN y = {1}
    BY <1>3, <2>1 DEF Written
  <2>3. Fine("activities", y)
    BY <2>2 DEF Fine, Sources
  <2> QED  BY <2>2, <2>3, FieldWritten
<1>4. ASSUME v = [w EXCEPT !.sponsored[c] = {1}]  PROVE  Written(v)
  <2>1. PICK y : y = [w.sponsored EXCEPT ![c] = {1}]
    OBVIOUS
  <2>2. v = [w EXCEPT !["sponsored"] = y] /\ y \in [Char -> SUBSET {1}]
    BY <1>4, <2>1 DEF Written
  <2>3. Fine("sponsored", y)
    BY <2>2 DEF Fine, Sources
  <2> QED  BY <2>2, <2>3, FieldWritten
<1>5. ASSUME NEW x, v = [w EXCEPT !.inspirations[1] = x]  PROVE  Written(v)
  <2>1. Untouched(w, v)
    BY <1>5 DEF Untouched, Sources
  <2> QED  BY <2>1, UntouchedWritten
<1>6. ASSUME v = [w EXCEPT !.titles[1].holder = c]  PROVE  Written(v)
  <2>1. PICK x : x = [w.titles[1] EXCEPT !.holder = c] /\ v = [w EXCEPT !.titles[1] = x]
    BY <1>6
  <2>2. "key" \in DOMAIN x
    BY <2>1 DEF Written
  <2> QED  BY <2>1, <2>2, TitleWritten
<1>7. ASSUME v = [w EXCEPT !.domiciles[1].province = 3 - @]  PROVE  Written(v)
  <2>1. PICK x : v = [w EXCEPT !.domiciles[1] = x]
    BY <1>7
  <2>2. Untouched(w, v)
    BY <2>1 DEF Untouched, Sources
  <2> QED  BY <2>2, UntouchedWritten
<1> QED  BY <1>1, <1>2, <1>3, <1>4, <1>5, <1>6, <1>7

LEMMA DynastyStaysWritten ==
  ASSUME NEW w, Written(w), NEW v \in DynastyMoves(w)
  PROVE  Written(v)
<1>1. \/ v = [w EXCEPT !.dynasties[1].perk = @ \cup {"blood_1"}]
      \/ \E r \in {999, 1000, 15000} : v = [w EXCEPT !.dynasties[1].accumulated = r]
      \/ \E c : v = [w EXCEPT !.house[c] = 3 - @]
  BY DEF DynastyMoves
<1>2. ASSUME NEW x \in [perk : SUBSET {"blood_1"}, accumulated : Nat], v = [w EXCEPT !.dynasties[1] = x]
      PROVE  Written(v)
  <2>1. PICK y : y = [w.dynasties EXCEPT ![1] = x]
    OBVIOUS
  <2>2. /\ v = [w EXCEPT !["dynasties"] = y] /\ DOMAIN y = {1, 2} /\ y[2] = Junk
        /\ y[1] \in [perk : SUBSET {"blood_1"}, accumulated : Nat]
    BY <1>2, <2>1 DEF Written
  <2>3. Fine("dynasties", y)
    BY <2>2 DEF Fine, Sources
  <2> QED  BY <2>2, <2>3, FieldWritten
<1>3. CASE v = [w EXCEPT !.dynasties[1].perk = @ \cup {"blood_1"}]
  <2>1. PICK x : x = [w.dynasties[1] EXCEPT !.perk = @ \cup {"blood_1"}] /\ v = [w EXCEPT !.dynasties[1] = x]
    BY <1>3
  <2>2. x \in [perk : SUBSET {"blood_1"}, accumulated : Nat]
    BY <2>1 DEF Written
  <2> QED  BY <1>2, <2>1, <2>2
<1>4. ASSUME NEW r, r \in Nat, v = [w EXCEPT !.dynasties[1].accumulated = r]
      PROVE  Written(v)
  <2>1. PICK x : x = [w.dynasties[1] EXCEPT !.accumulated = r]
    OBVIOUS
  <2>2. v = [w EXCEPT !.dynasties[1] = x]
    BY <1>4, <2>1
  <2>3. x \in [perk : SUBSET {"blood_1"}, accumulated : Nat]
    BY <1>4, <2>1 DEF Written
  <2> QED  BY <1>2, <2>2, <2>3
<1>5. ASSUME NEW c, v = [w EXCEPT !.house[c] = 3 - @]  PROVE  Written(v)
  <2>1. PICK x : v = [w EXCEPT !.house[c] = x]
    BY <1>5
  <2>2. Untouched(w, v)
    BY <2>1 DEF Untouched, Sources
  <2> QED  BY <2>2, UntouchedWritten
<1>6. {999, 1000, 15000} \subseteq Nat
  OBVIOUS
<1> QED  BY <1>1, <1>3, <1>4, <1>5, <1>6

LEMMA WorksWritten ==
  ASSUME NEW w, Written(w), NEW v \in WorkMoves(w)
  PROVE  Written(v)
<1>1. PICK c \in Char : v \in SiteMoves(w, c) \/ v \in ContractMoves(w, c) \/ v \in Occasions(w, c)
  BY TrackedAssumption, Zenon DEF WorkMoves, Alive
<1> QED  BY <1>1, SitesStayWritten, ContractUntouched, OccasionsWritten, UntouchedWritten

LEMMA MovesWritten ==
  ASSUME Atoms, None \notin Words, facet \in Facets, NEW w, Written(w), NEW v \in Moves(w)
  PROVE  Written(v)
<1>1. CASE v \in Deaths(w)
  BY <1>1, DieUntouched, UntouchedWritten
<1>2. CASE v \notin Deaths(w)
  <2>1. CASE facet = "life"
    <3>1. PICK c : v = [w EXCEPT !.location[c] = 3 - @]
      BY <1>2, <2>1, Zenon DEF Moves
    <3>2. Untouched(w, v)
      BY <3>1 DEF Untouched, Sources
    <3> QED  BY <3>2, UntouchedWritten
  <2>2. CASE facet = "person"
    <3>1. PICK c : v \in Turns(w, c)
      BY <1>2, <2>2, Zenon DEF Moves, PersonMoves
    <3> QED  BY <3>1, TurnsUntouched, UntouchedWritten
  <2>3. CASE facet = "court"
    <3>1. v \in CourtMoves(w)
      BY <1>2, <2>3 DEF Moves
    <3>2. PICK c \in Char : v \in Careers(w, c)
      BY <3>1, TrackedAssumption, Zenon DEF CourtMoves, Alive
    <3> QED  BY <3>2, CareersWritten
  <2>4. CASE facet = "family"
    BY <1>2, <2>4, FamilyWritten DEF Moves
  <2>5. CASE facet = "mourning"
    BY <1>2, <2>5, MourningWritten DEF Moves
  <2>6. CASE facet = "titles"
    BY <1>2, <2>6, TitlesStayWritten DEF Moves
  <2>7. CASE facet = "wars"
    BY <1>2, <2>7, WarsUntouched, UntouchedWritten DEF Moves
  <2>8. CASE facet = "bonds"
    BY <1>2, <2>8, BondsUntouched, UntouchedWritten DEF Moves
  <2>9. CASE facet = "works"
    BY <1>2, <2>9, WorksWritten DEF Moves
  <2>10. CASE facet = "dynasty"
    BY <1>2, <2>10, DynastyStaysWritten DEF Moves
  <2> QED  BY <2>1, <2>2, <2>3, <2>4, <2>5, <2>6, <2>7, <2>8, <2>9, <2>10 DEF Facets
<1> QED  BY <1>1, <1>2

LEMMA World0Written ==
  ASSUME Atoms
  PROVE  Written(World0) /\ Written(AtWar)
<1>1. /\ Sources \subseteq DOMAIN World0
      /\ World0.memory = <<Junk, Junk, Junk>>
      /\ World0.traits = [c \in Char |-> {}] /\ World0.modifiers = [c \in Char |-> {}]
      /\ World0.concubines = [c \in Char |-> {}] /\ World0.sponsored = [c \in Char |-> {}]
      /\ World0.perk = [c \in Char |-> {}] /\ World0.cooldowns = [c \in Char |-> {}]
      /\ World0.epidemics = <<Junk>> /\ World0.activities = <<Junk>>
      /\ World0.titles = <<Land(1, None), Junk, Land(3, None), Land(4, CHOOSE c \in Char \ Tracked : TRUE)>>
      /\ World0.sites = [s \in {Site} |-> Junk]
      /\ World0.dynasties = <<[perk |-> {}, accumulated |-> 0], Junk>>
  BY DEF World0, Sources
<1>2. /\ World0.traits \in [Char -> SUBSET {Pregnant}] /\ World0.modifiers \in [Char -> SUBSET {"mourning"}]
      /\ World0.concubines \in [Char -> SUBSET Char] /\ World0.sponsored \in [Char -> SUBSET {1}]
      /\ World0.perk \in [Char -> SUBSET DOMAIN LifestyleOf]
      /\ World0.cooldowns \in [Char -> SUBSET ({"stele", "hold_court"} \X {1})]
  BY <1>1
<1>3. \A m \in DOMAIN World0.memory : World0.memory[m] = Junk
  BY <1>1
<1>4. DOMAIN World0.epidemics = {1} /\ DOMAIN World0.activities = {1} /\ DOMAIN World0.sites = {Site}
  BY <1>1
<1>5. /\ 1 \in DOMAIN World0.titles /\ "key" \in DOMAIN World0.titles[1]
      /\ \A t \in DOMAIN World0.titles : World0.titles[t] # Junk => "key" \in DOMAIN World0.titles[t]
  <2>1. \A t, h : "key" \in DOMAIN Land(t, h)
    BY DEF Land
  <2> QED  BY <1>1, <2>1
<1>6. /\ DOMAIN World0.dynasties = {1, 2} /\ World0.dynasties[2] = Junk
      /\ World0.dynasties[1] \in [perk : SUBSET {"blood_1"}, accumulated : Nat]
  BY <1>1
<1>7. Written(World0)
  BY <1>1, <1>2, <1>3, <1>4, <1>5, <1>6 DEF Written
<1>8. PICK x : AtWar = [World0 EXCEPT !.wars[1] = x]
  BY Zenon DEF AtWar
<1>9. Untouched(World0, AtWar)
  BY <1>8 DEF Untouched, Sources
<1> QED  BY <1>7, <1>9, UntouchedWritten

-----------------------------------------------------------------------------
(* No save is refused.                                                     *)

\* None is no word and no number of a save and no set of events, perks are
\* numbers, and the trait of a pregnancy is one.
Vocabulary ==
  /\ None \notin Words
  /\ \A S : (\A e \in S : e = [x \in DOMAIN e |-> e[x]]) => S # None
  /\ Pregnant # None
  /\ DOMAIN LifestyleOf \subseteq Nat

\* The game's records are written, and the baseline was parsed from such.
SoundInv ==
  /\ facet \in Facets
  /\ WorldOK(world)
  /\ Written(world)
  /\ prev # None => SnapSound(prev)

\* The fields of a snapshot the schema asks after.
LEMMA SameSound ==
  ASSUME NEW s, SnapSound(s), NEW n, n.memories = s.memories,
         DOMAIN n.characters \subseteq DOMAIN s.characters,
         \A x \in DOMAIN n.characters : n.characters[x] = s.characters[x],
         /\ n.alliances = s.alliances /\ n.wars = s.wars /\ n.artifacts = s.artifacts
         /\ n.court = s.court /\ n.epidemics = s.epidemics /\ n.activities = s.activities
         /\ n.inspirations = s.inspirations /\ n.titles = s.titles
         /\ n.constructions = s.constructions /\ n.dynasties = s.dynasties
  PROVE  SnapSound(n)
<1>1. \A x \in DOMAIN n.characters : PersonSound(n.characters[x], n.memories)
  BY DEF SnapSound
<1>2. TablesSound(n)
  BY DEF SnapSound, TablesSound
<1> QED  BY <1>1, <1>2 DEF SnapSound

LEMMA InitSound ==
  ASSUME Atoms, Vocabulary, Init
  PROVE  SoundInv
<1>1. facet \in Facets /\ WorldOK(world) /\ Written(world)
  BY World0OK, World0Written DEF Init
<1>2. ASSUME prev # None  PROVE  SnapSound(prev)
  <2>1. PICK s : s = ParseSave(Save(World0))
    OBVIOUS
  <2>2. prev = [s EXCEPT !.characters = Restrict(@, Char \ stale)]
    BY <1>2, <2>1, OldBaseline DEF Init, LoadBaseline
  <2>3. SnapSound(s)
    BY <2>1, World0OK, World0Written, SnapshotSound DEF Vocabulary
  <2>4. DOMAIN s.characters = Char
    BY <2>1, World0OK, Snapshot
  <2>5. DOMAIN s = {"date", "characters", "memories", "alliances", "wars", "artifacts", "dynasties",
                    "epidemics", "constructions", "activities", "inspirations", "contracts", "court",
                    "titles", "domiciles"}
    BY <2>1 DEF ParseSave
  <2>6. prev.characters = [c \in Char \ stale |-> s.characters[c]]
    BY <2>2, <2>5 DEF Restrict
  <2>7. /\ prev.memories = s.memories /\ prev.alliances = s.alliances /\ prev.wars = s.wars
        /\ prev.artifacts = s.artifacts /\ prev.court = s.court /\ prev.epidemics = s.epidemics
        /\ prev.activities = s.activities /\ prev.inspirations = s.inspirations
        /\ prev.titles = s.titles /\ prev.constructions = s.constructions
        /\ prev.dynasties = s.dynasties
    BY <2>2, <2>5
  <2> QED  BY <2>3, <2>4, <2>6, <2>7, SameSound
<1> QED  BY <1>1, <1>2 DEF SoundInv

LEMMA NextSound ==
  ASSUME Atoms, Vocabulary, SoundInv, [Next]_vars
  PROVE  SoundInv'
<1>1. CASE Play
  <2>1. WorldOK(world') /\ UNCHANGED <<facet, prev>>
    BY <1>1, PlayWorld DEF SoundInv
  <2>2. PICK v \in Moves(world) : world' = [v EXCEPT !.date = @ + 1]
    BY <1>1 DEF Play
  <2>3. Written(v)
    BY <2>2, MovesWritten DEF SoundInv, Vocabulary
  <2>4. Untouched(v, world')
    BY <2>2 DEF Untouched, Sources
  <2>5. Written(world')
    BY <2>3, <2>4, UntouchedWritten
  <2> QED  BY <2>1, <2>5 DEF SoundInv
<1>2. ASSUME prev' = ParseSave(Save(world)), UNCHANGED <<world, facet>>
      PROVE  SoundInv'
  <2>1. SnapSound(ParseSave(Save(world)))
    BY SnapshotSound DEF SoundInv, Vocabulary
  <2> QED  BY <1>2, <2>1 DEF SoundInv
<1>3. CASE Adopt
  BY <1>2, <1>3 DEF Adopt
<1>4. CASE Tick
  BY <1>2, <1>4 DEF Tick
<1>5. CASE UNCHANGED vars
  BY <1>5 DEF SoundInv, vars
<1> QED  BY <1>1, <1>3, <1>4, <1>5 DEF Next

\* No save the game can write is refused: every event the differ can make of
\* two snapshots carries all the schema wants of its type, None in no field
\* that may not be, and nothing else (_safe_diff, EVENT_PAYLOADS).
THEOREM NoSaveEverRefused ==
  ASSUME Atoms, Vocabulary
  PROVE  Spec => []NoSaveRefused
<1>1. SoundInv => NoSaveRefused
  <2> SUFFICES ASSUME SoundInv, prev # None
               PROVE  SafeDiff(prev, ParseSave(Save(world)), Tracked) # None
    BY DEF NoSaveRefused
  <2>1. PICK prv, curr, diff : /\ prv = prev /\ curr = ParseSave(Save(world))
                               /\ diff = DiffSnapshots(prv, curr, Tracked)
    OBVIOUS
  <2>2. SnapSound(prv) /\ SnapSound(curr)
    BY <2>1, SnapshotSound DEF SoundInv, Vocabulary
  <2>3. None \notin Values
    BY DEF Vocabulary, Words
  <2>4. Tracked \in SUBSET Char
    BY TrackedAssumption
  <2>5. \A e \in diff : ~Refused(e) /\ e = [x \in DOMAIN e |-> e[x]]
    BY <2>1, <2>2, <2>3, <2>4, DiffAccepted
  <2>6. diff # None
    BY <2>5 DEF Vocabulary
  <2>7. SafeDiff(prv, curr, Tracked) = diff
    BY <2>1, <2>5, Zenon DEF SafeDiff
  <2> QED  BY <2>1, <2>6, <2>7
<1>2. Init => SoundInv
  BY InitSound
<1>3. SoundInv /\ [Next]_vars => SoundInv'
  BY NextSound
<1> QED  BY <1>1, <1>2, <1>3, PTL DEF Spec

-----------------------------------------------------------------------------
(* What is told against what happened.                                     *)

\* How often it happened, so far, that h.
Done(w, h) == IF h \in DOMAIN w.done THEN w.done[h] ELSE 0

\* What has been told of a happening: of c, of type t, whom or what x.
ToldOf(events, c, t, x) ==
  {e \in events : /\ e.t = t
                  /\ (IF e.t = "building_completed" THEN None ELSE e.c) = c
                  /\ Get(e.p, Audited[e.t]) = x}

\* What the next save would tell of the world w, after the baseline prv: a spouse
\* the baseline does not know, a marriage it does not know the end of, a war it
\* does not know of one of its principals, a contract that ended and had not, the
\* building under way that stands, a pregnancy that went without a birth.
Married(prv, w, c, d) ==
  c \in Char \cap DOMAIN prv.characters /\ d \in w.spouses[c] \ prv.characters[c].family.spouses
Divorced(prv, w, c, d) ==
  c \in Char \cap DOMAIN prv.characters /\ d \in w.former[c] \ prv.characters[c].family.former_spouses
Declared(prv, w, c, k) ==
  k \in Records(w.wars) \ DOMAIN prv.wars.row /\ c \in {w.wars[k].attacker, w.wars[k].defender}
Ended(prv, w, c, s) ==
  /\ 1 \in Records(w.contracts) /\ w.contracts[1].owner = c /\ w.contracts[1].status = s
  /\ s \in Terminal
  /\ ~(1 \in DOMAIN prv.contracts.row /\ prv.contracts.row[1].status \in Terminal)
Stands(prv, w, c, b) ==
  /\ c = None /\ Site \in DOMAIN prv.constructions.row
  /\ prv.constructions.row[Site].building = b /\ w.buildings[Site] = b
Miscarried(prv, w, c, x) ==
  /\ c \in Char \cap DOMAIN prv.characters /\ x = None
  /\ Pregnant \in prv.characters[c].traits \ w.traits[c]
  /\ \A m \in (w.memories[c] \cap Records(w.memory)) \ prv.characters[c].memories :
       w.memory[m].type # "child_born"
Owes(prv, w, c, t, x) ==
  \/ t = "marriage" /\ Married(prv, w, c, x)
  \/ t = "divorce" /\ Divorced(prv, w, c, x)
  \/ t = "war_declared" /\ Declared(prv, w, c, x)
  \/ t = "contract_completed" /\ Ended(prv, w, c, x)
  \/ t = "building_completed" /\ Stands(prv, w, c, x)
  \/ t = "miscarriage" /\ Miscarried(prv, w, c, x)

\* The game, as far as what happens in it goes: a primary spouse is a spouse, and
\* what stands in a slot is not under way there.
Audit == {"spouses", "former", "primary", "wars", "contracts", "sites", "buildings",
          "traits", "memories", "memory", "done"}
Orderly(w) ==
  /\ Audit \subseteq DOMAIN w
  /\ \A h : Done(w, h) \in Nat
  /\ DOMAIN w.spouses = Char /\ DOMAIN w.former = Char /\ DOMAIN w.primary = Char
  /\ DOMAIN w.traits = Char /\ DOMAIN w.memories = Char
  /\ \A c \in Char : w.primary[c] \in w.spouses[c] \cup {None}
  /\ \A k \in Records(w.wars) : {"attacker", "defender", "attackers"} \subseteq DOMAIN w.wars[k]
  /\ w.contracts = << >> \/ DOMAIN w.contracts = {1}
  /\ \A k \in Records(w.contracts) : {"owner", "status"} \subseteq DOMAIN w.contracts[k]
  /\ DOMAIN w.sites = {Site} /\ DOMAIN w.buildings = {Site}
  /\ w.sites[Site] # Junk => w.sites[Site].building # w.buildings[Site]

\* The baseline's past is the world's: its memories are still remembered, and its
\* contract is gone or has the owner it had.
Past(prv, w) ==
  /\ \A c \in Char \cap DOMAIN prv.characters : prv.characters[c].memories \subseteq Records(w.memory)
  /\ 1 \in DOMAIN prv.contracts.row =>
       \/ w.contracts = << >>
       \/ 1 \in Records(w.contracts) /\ w.contracts[1].owner = prv.contracts.row[1].owner

\* Whatever the next save would tell, after the move and not before, happened.
Honest(prv, w, v) ==
  \A c, x : \A t \in DOMAIN Audited :
    /\ Done(w, <<c, t, x>>) <= Done(v, <<c, t, x>>)
    /\ Owes(prv, v, c, t, x) => \/ Owes(prv, w, c, t, x)
                                \/ Done(w, <<c, t, x>>) < Done(v, <<c, t, x>>)
Good(prv, w, v) == Orderly(v) /\ Past(prv, v) /\ Honest(prv, w, v)

\* The indexes of the baseline.
Indexed(snap) ==
  /\ DOMAIN snap.contracts.row \subseteq {1}
  /\ DOMAIN snap.constructions.row \subseteq {Site}
  /\ \A c \in Char : snap.wars.of[c] \subseteq DOMAIN snap.wars.row
  /\ \A c \in Char :
       /\ snap.contracts.of[c] = {k \in DOMAIN snap.contracts.row : snap.contracts.row[k].owner = c}
       /\ snap.constructions.of[c] =
            {k \in DOMAIN snap.constructions.row : snap.constructions.row[k].character = c}

\* What has been told of a happening, and what the next save would tell of it,
\* is no more than has happened.
Accounted(events, prv, w, c, t, x) ==
  /\ IsFiniteSet(ToldOf(events, c, t, x))
  /\ Cardinality(ToldOf(events, c, t, x))
       + (IF prv # None /\ Owes(prv, w, c, t, x) THEN 1 ELSE 0) <= Done(w, <<c, t, x>>)
ToldInv ==
  /\ facet \in Facets
  /\ WorldOK(world)
  /\ Orderly(world)
  /\ db = [rows |-> db.rows, events |-> db.events]
  /\ prev = None => db.events = {}
  /\ prev # None => Past(prev, world) /\ Indexed(prev)
  /\ \A c, x : \A t \in DOMAIN Audited : Accounted(db.events, prev, world, c, t, x)

LEMMA DidDone ==
  ASSUME NEW u, "done" \in DOMAIN u, NEW H, NEW v, v = Did(u, H)
  PROVE  /\ DOMAIN v = DOMAIN u
         /\ \A f \in DOMAIN u \ {"done"} : v[f] = u[f]
         /\ \A h : Done(v, h) = Done(u, h) + IF h \in H THEN 1 ELSE 0
<1>1. PICK b : b = SetToBag(H)
  OBVIOUS
<1>2. b = [h \in H |-> 1]
  BY <1>1 DEF SetToBag
<1>3. v = [u EXCEPT !.done = u.done (+) b]
  BY <1>1 DEF Did
<1>4. v.done = [h \in DOMAIN u.done \cup DOMAIN b |->
                  (IF h \in DOMAIN u.done THEN u.done[h] ELSE 0) + (IF h \in DOMAIN b THEN b[h] ELSE 0)]
  BY <1>3 DEF (+)
<1>5. DOMAIN v = DOMAIN u /\ \A f \in DOMAIN u \ {"done"} : v[f] = u[f]
  BY <1>3
<1> QED  BY <1>2, <1>4, <1>5 DEF Done

\* A world that keeps all the audit reads.
Quiet(w, v) == Audit \subseteq DOMAIN v /\ \A f \in Audit : v[f] = w[f]

LEMMA QuietFields ==
  ASSUME NEW w, NEW v, Quiet(w, v)
  PROVE  /\ v.spouses = w.spouses /\ v.former = w.former /\ v.primary = w.primary
         /\ v.wars = w.wars /\ v.contracts = w.contracts /\ v.sites = w.sites
         /\ v.buildings = w.buildings /\ v.traits = w.traits /\ v.memories = w.memories
         /\ v.memory = w.memory /\ v.done = w.done
BY DEF Quiet, Audit

LEMMA QuietGood ==
  ASSUME NEW prv, NEW w, NEW v, Quiet(w, v), Orderly(w), Past(prv, w)
  PROVE  Good(prv, w, v)
<1>1. Orderly(v)
  BY QuietFields DEF Orderly, Done, Quiet
<1>2. Past(prv, v)
  BY QuietFields DEF Past
<1>3. \A h : Done(v, h) = Done(w, h) /\ Done(w, h) \in Nat
  BY QuietFields DEF Done, Orderly
<1>4. \A c, t, x : Owes(prv, v, c, t, x) <=> Owes(prv, w, c, t, x)
  BY QuietFields DEF Owes, Married, Divorced, Declared, Ended, Stands, Miscarried
<1>5. Honest(prv, w, v)
  BY <1>3, <1>4 DEF Honest
<1> QED  BY <1>1, <1>2, <1>5 DEF Good

LEMMA DieQuiet ==
  ASSUME NEW w, Orderly(w), NEW v \in Deaths(w)
  PROVE  Quiet(w, v)
<1>1. PICK c \in Tracked : \E s \in NextStage[w.life[c]] : \E k : v = Die(w, c, s, k)
  BY DEF Deaths
<1>2. PICK s, k : v = Die(w, c, s, k)
  BY <1>1
<1> QED  BY <1>2 DEF Die, Quiet, Audit, Orderly

LEMMA TurnsQuiet ==
  ASSUME NEW w, Orderly(w), NEW c, NEW v \in Turns(w, c)
  PROVE  Quiet(w, v)
<1>1. PICK x : \/ v = [w EXCEPT !.location[c] = x] \/ v = [w EXCEPT !.culture[c] = x]
               \/ v = [w EXCEPT !.faith[c] = x] \/ v = [w EXCEPT !.nickname[c] = x]
  BY DEF Turns
<1> QED  BY <1>1 DEF Quiet, Audit, Orderly

LEMMA CareersQuiet ==
  ASSUME NEW w, Orderly(w), NEW c, NEW v \in Careers(w, c)
  PROVE  Quiet(w, v)
<1>1. PICK x : \/ v = [w EXCEPT !.modifiers[c] = x] \/ v = [w EXCEPT !.government[c] = x]
               \/ v = [w EXCEPT !.cooldowns[c] = x] \/ v = [w EXCEPT !.perk[c] = x]
  BY DEF Careers
<1> QED  BY <1>1 DEF Quiet, Audit, Orderly

LEMMA TitlesQuiet ==
  ASSUME NEW w, Orderly(w), NEW v \in TitleMoves(w)
  PROVE  Quiet(w, v)
<1>1. PICK t, x : v = [w EXCEPT !.titles[t] = x]
  BY DEF TitleMoves
<1> QED  BY <1>1 DEF Quiet, Audit, Orderly

LEMMA BondsQuiet ==
  ASSUME NEW w, Orderly(w), NEW v \in BondMoves(w)
  PROVE  Quiet(w, v)
<1>1. DOMAIN v = DOMAIN w /\ \A f \in DOMAIN w \ {"relations", "artifacts", "court"} : v[f] = w[f]
  BY DEF BondMoves
<1> QED  BY <1>1 DEF Quiet, Audit, Orderly

LEMMA DynastyQuiet ==
  ASSUME NEW w, Orderly(w), NEW v \in DynastyMoves(w)
  PROVE  Quiet(w, v)
<1>1. DOMAIN v = DOMAIN w /\ \A f \in DOMAIN w \ {"dynasties", "house"} : v[f] = w[f]
  BY DEF DynastyMoves
<1> QED  BY <1>1 DEF Quiet, Audit, Orderly

LEMMA OccasionsQuiet ==
  ASSUME NEW w, Orderly(w), NEW c, NEW v \in Occasions(w, c)
  PROVE  Quiet(w, v)
<1>1. /\ DOMAIN v = DOMAIN w
      /\ \A f \in DOMAIN w \ {"epidemics", "activities", "sponsored", "inspirations", "titles",
                              "domiciles"} : v[f] = w[f]
  BY DEF Occasions
<1> QED  BY <1>1 DEF Quiet, Audit, Orderly

\* A world owes no more than w did but for H, which is yet to be entered.
Earns(prv, w, u, H) ==
  /\ u.done = w.done
  /\ \A c, t, x : Owes(prv, u, c, t, x) => Owes(prv, w, c, t, x) \/ <<c, t, x>> \in H

LEMMA EarnsGood ==
  ASSUME NEW prv, NEW w, Orderly(w), NEW u, Orderly(u), Past(prv, u), NEW H, Earns(prv, w, u, H)
  PROVE  /\ Good(prv, w, Did(u, H))
         /\ H = {} => Good(prv, w, u)
<1>1. \A h : Done(u, h) = Done(w, h) /\ Done(w, h) \in Nat
  BY DEF Earns, Done, Orderly
<1>2. ASSUME NEW v, v = Did(u, H)  PROVE  Good(prv, w, v)
  <2>0. "done" \in DOMAIN u
    BY DEF Orderly, Audit
  <2>1. /\ DOMAIN v = DOMAIN u
        /\ \A f \in DOMAIN u \ {"done"} : v[f] = u[f]
        /\ \A h : Done(v, h) = Done(u, h) + IF h \in H THEN 1 ELSE 0
    BY <1>2, <2>0, DidDone
  <2>2. /\ v.spouses = u.spouses /\ v.former = u.former /\ v.primary = u.primary
        /\ v.wars = u.wars /\ v.contracts = u.contracts /\ v.sites = u.sites
        /\ v.buildings = u.buildings /\ v.traits = u.traits /\ v.memories = u.memories
        /\ v.memory = u.memory
    BY <2>1 DEF Orderly, Audit
  <2>3. \A h : Done(v, h) \in Nat /\ Done(w, h) <= Done(v, h) /\ (h \in H => Done(w, h) < Done(v, h))
    BY <1>1, <2>1
  <2>4. Orderly(v)
    BY <2>1, <2>2, <2>3 DEF Orderly
  <2>5. Past(prv, v)
    BY <2>2 DEF Past
  <2>6. \A c, t, x : Owes(prv, v, c, t, x) <=> Owes(prv, u, c, t, x)
    BY <2>2 DEF Owes, Married, Divorced, Declared, Ended, Stands, Miscarried
  <2>7. Honest(prv, w, v)
    BY <2>3, <2>6 DEF Honest, Earns
  <2> QED  BY <2>4, <2>5, <2>7 DEF Good
<1>3. ASSUME H = {}  PROVE  Good(prv, w, u)
  <2>1. Honest(prv, w, u)
    BY <1>1, <1>3 DEF Honest, Earns
  <2> QED  BY <2>1 DEF Good
<1> QED  BY <1>2, <1>3

\* A world that keeps all the audit reads but for some fields.
Same(w, u, F) == Audit \subseteq DOMAIN u /\ \A f \in Audit \ F : u[f] = w[f]

LEMMA SpousesGood ==
  ASSUME NEW prv, NEW w, Orderly(w), Past(prv, w), NEW u, Same(w, u, {"spouses", "former", "primary"}),
         DOMAIN u.spouses = Char, DOMAIN u.former = Char, DOMAIN u.primary = Char,
         \A c \in Char : u.primary[c] \in u.spouses[c] \cup {None},
         NEW H,
         \A c \in Char : \A d \in u.spouses[c] \ w.spouses[c] : <<c, "marriage", d>> \in H,
         \A c \in Char : \A d \in u.former[c] \ w.former[c] : <<c, "divorce", d>> \in H
  PROVE  Good(prv, w, Did(u, H)) /\ (H = {} => Good(prv, w, u))
<1>1. /\ u.wars = w.wars /\ u.contracts = w.contracts /\ u.sites = w.sites
      /\ u.buildings = w.buildings /\ u.traits = w.traits /\ u.memories = w.memories
      /\ u.memory = w.memory /\ u.done = w.done /\ Audit \subseteq DOMAIN u
  BY DEF Same, Audit
<1>2. Orderly(u)
  BY <1>1 DEF Orderly, Done
<1>3. Past(prv, u)
  BY <1>1 DEF Past
<1>4. ASSUME NEW c, NEW t, NEW x, Owes(prv, u, c, t, x)
      PROVE  Owes(prv, w, c, t, x) \/ <<c, t, x>> \in H
  <2>1. CASE t = "marriage" /\ Married(prv, u, c, x)
    BY <2>1 DEF Owes, Married
  <2>2. CASE t = "divorce" /\ Divorced(prv, u, c, x)
    BY <2>2 DEF Owes, Divorced
  <2>3. CASE t = "war_declared" /\ Declared(prv, u, c, x)
    BY <1>1, <2>3 DEF Owes, Declared
  <2>4. CASE t = "contract_completed" /\ Ended(prv, u, c, x)
    BY <1>1, <2>4 DEF Owes, Ended
  <2>5. CASE t = "building_completed" /\ Stands(prv, u, c, x)
    BY <1>1, <2>5 DEF Owes, Stands
  <2>6. CASE t = "miscarriage" /\ Miscarried(prv, u, c, x)
    BY <1>1, <2>6 DEF Owes, Miscarried
  <2> QED  BY <1>4, <2>1, <2>2, <2>3, <2>4, <2>5, <2>6 DEF Owes
<1> QED  BY <1>1, <1>2, <1>3, <1>4, EarnsGood DEF Earns

LEMMA WedGood ==
  ASSUME NEW prv, NEW w, Orderly(w), Past(prv, w), NEW c \in Char, NEW d \in Char \ {c}
  PROVE  Good(prv, w, Wed(w, c, d))
<1>1. PICK u : u = [w EXCEPT !.spouses[c] = @ \cup {d}, !.spouses[d] = @ \cup {c},
                             !.primary[c] = IF @ = None THEN d ELSE @,
                             !.primary[d] = IF @ = None THEN c ELSE @]
  OBVIOUS
<1>2. PICK H : H = {<<c, "marriage", d>>, <<d, "marriage", c>>}
  OBVIOUS
<1>3. /\ Same(w, u, {"spouses", "former", "primary"})
      /\ u.former = w.former
      /\ u.spouses = [w.spouses EXCEPT ![c] = @ \cup {d}, ![d] = @ \cup {c}]
      /\ u.primary = [w.primary EXCEPT ![c] = IF @ = None THEN d ELSE @, ![d] = IF @ = None THEN c ELSE @]
  BY <1>1 DEF Same, Orderly, Audit
<1>4. /\ DOMAIN u.spouses = Char /\ DOMAIN u.primary = Char /\ DOMAIN u.former = Char
      /\ \A x \in Char : u.primary[x] \in u.spouses[x] \cup {None}
      /\ \A x \in Char : \A y \in u.spouses[x] \ w.spouses[x] : <<x, "marriage", y>> \in H
  BY <1>2, <1>3 DEF Orderly
<1>5. Good(prv, w, Did(u, H))
  BY <1>3, <1>4, SpousesGood
<1> QED  BY <1>1, <1>2, <1>5 DEF Wed

LEMMA PartGood ==
  ASSUME Atoms, NEW prv, NEW w, Orderly(w), Past(prv, w), NEW c \in Char, NEW d \in Char \ {c}
  PROVE  Good(prv, w, Part(w, c, d)) /\ Good(prv, w, Split(w, c, d))
<1>1. PICK u : u = Part(w, c, d)
  OBVIOUS
<1>2. /\ Same(w, u, {"spouses", "former", "primary"})
      /\ u.former = w.former
      /\ u.spouses = [w.spouses EXCEPT ![c] = @ \ {d}, ![d] = @ \ {c}]
      /\ u.primary = [w.primary EXCEPT ![c] = Promoted(w, c, d), ![d] = Promoted(w, d, c)]
  BY <1>1 DEF Part, Same, Orderly, Audit
<1>3. ASSUME NEW x \in Char, NEW y \in Char
      PROVE  Promoted(w, x, y) \in (w.spouses[x] \ {y}) \cup {None}
  <2>1. w.primary[x] \in w.spouses[x] \cup {None}
    BY DEF Orderly
  <2>2. CASE w.primary[x] # y \/ w.spouses[x] = {y}
    BY <2>1, <2>2 DEF Promoted
  <2>3. CASE w.primary[x] = y /\ w.spouses[x] # {y} /\ \E e \in w.spouses[x] : e # y
    BY <2>3 DEF Promoted
  <2>4. CASE w.primary[x] = y /\ w.spouses[x] = {}
    BY <2>1, <2>4 DEF Atoms
  <2> QED  BY <2>1, <2>2, <2>3, <2>4
<1>4. /\ DOMAIN u.spouses = Char /\ DOMAIN u.primary = Char /\ DOMAIN u.former = Char
      /\ \A x \in Char : u.primary[x] \in u.spouses[x] \cup {None}
      /\ \A x \in Char : u.spouses[x] \subseteq w.spouses[x]
  BY <1>2, <1>3 DEF Orderly
<1>5. Good(prv, w, u)
  BY <1>2, <1>4, SpousesGood
<1>6. PICK s, H : /\ s = [u EXCEPT !.former[c] = @ \cup {d}, !.former[d] = @ \cup {c}]
                  /\ H = {<<c, "divorce", d>>, <<d, "divorce", c>>}
  OBVIOUS
<1>7. /\ Same(w, s, {"spouses", "former", "primary"})
      /\ s.spouses = u.spouses /\ s.primary = u.primary
      /\ s.former = [w.former EXCEPT ![c] = @ \cup {d}, ![d] = @ \cup {c}]
  BY <1>2, <1>6 DEF Same, Audit
<1>8. /\ DOMAIN s.former = Char
      /\ \A x \in Char : \A y \in s.former[x] \ w.former[x] : <<x, "divorce", y>> \in H
  BY <1>6, <1>7 DEF Orderly
<1>9. Good(prv, w, Did(s, H))
  BY <1>4, <1>7, <1>8, SpousesGood
<1> QED  BY <1>1, <1>5, <1>6, <1>9 DEF Split

LEMMA WarsGood ==
  ASSUME Atoms, NEW prv, NEW w, Orderly(w), Past(prv, w), WorldOK(w), NEW v \in WarMoves(w)
  PROVE  Good(prv, w, v)
<1>0. DOMAIN w.wars = 1..2
  BY DEF WorldOK
<1>1. \/ \E c, d : \E k \in Free(w.wars) : v = Declare(w, c, d, k)
      \/ \E c : \E k \in Used(w.wars) : v \in Musters(w, c, k)
      \/ \E k \in Used(w.wars) : v = [w EXCEPT !.wars[k] = Junk]
  BY DEF WarMoves
\* What no war but a newly declared one can owe.
<1>2. ASSUME NEW u, Same(w, u, {"wars"}), NEW H,
             \A k \in Records(u.wars) : {"attacker", "defender", "attackers"} \subseteq DOMAIN u.wars[k],
             \A k \in Records(u.wars) : \A c \in {u.wars[k].attacker, u.wars[k].defender} :
               \/ k \in Records(w.wars) /\ c \in {w.wars[k].attacker, w.wars[k].defender}
               \/ <<c, "war_declared", k>> \in H
      PROVE  Good(prv, w, Did(u, H)) /\ (H = {} => Good(prv, w, u))
  <2>1. /\ u.spouses = w.spouses /\ u.former = w.former /\ u.primary = w.primary
        /\ u.contracts = w.contracts /\ u.sites = w.sites
        /\ u.buildings = w.buildings /\ u.traits = w.traits /\ u.memories = w.memories
        /\ u.memory = w.memory /\ u.done = w.done /\ Audit \subseteq DOMAIN u
    BY <1>2 DEF Same, Audit
  <2>2. Orderly(u)
    BY <1>2, <2>1 DEF Orderly, Done
  <2>3. Past(prv, u)
    BY <2>1 DEF Past
  <2>4. \A c, k : Declared(prv, u, c, k) => Declared(prv, w, c, k) \/ <<c, "war_declared", k>> \in H
    BY <1>2 DEF Declared
  <2>5. \A c, x : /\ Married(prv, u, c, x) <=> Married(prv, w, c, x)
                  /\ Divorced(prv, u, c, x) <=> Divorced(prv, w, c, x)
                  /\ Ended(prv, u, c, x) <=> Ended(prv, w, c, x)
                  /\ Stands(prv, u, c, x) <=> Stands(prv, w, c, x)
                  /\ Miscarried(prv, u, c, x) <=> Miscarried(prv, w, c, x)
    BY <2>1 DEF Married, Divorced, Ended, Stands, Miscarried
  <2>6. \A c, t, x : Owes(prv, u, c, t, x) => Owes(prv, w, c, t, x) \/ <<c, t, x>> \in H
    BY <2>4, <2>5 DEF Owes
  <2> QED  BY <2>1, <2>2, <2>3, <2>6, EarnsGood DEF Earns
<1>3. ASSUME NEW c, NEW d, NEW k \in Free(w.wars), v = Declare(w, c, d, k)  PROVE  Good(prv, w, v)
  <2>1. PICK r : r = [attacker |-> c, defender |-> d, great |-> k = 1, attackers |-> {c}, defenders |-> {d}]
    OBVIOUS
  <2>2. PICK u, H : u = [w EXCEPT !.wars[k] = r] /\ H = {<<c, "war_declared", k>>, <<d, "war_declared", k>>}
    OBVIOUS
  <2>3. v = Did(u, H)
    BY <1>3, <2>1, <2>2 DEF Declare
  <2>4. Same(w, u, {"wars"}) /\ u.wars = [w.wars EXCEPT ![k] = r] /\ k \in DOMAIN w.wars
    BY <2>2 DEF Same, Audit, Orderly, Free
  <2>5. \A j \in Records(u.wars) : j = k \/ (j \in Records(w.wars) /\ u.wars[j] = w.wars[j])
    BY <2>4 DEF Records
  <2>6. u.wars[k] = r
    BY <2>4
  <2>7. /\ {"attacker", "defender", "attackers"} \subseteq DOMAIN r
        /\ r.attacker = c /\ r.defender = d
    BY <2>1
  <2>8. \A j \in Records(u.wars) : {"attacker", "defender", "attackers"} \subseteq DOMAIN u.wars[j]
    BY <2>5, <2>6, <2>7 DEF Orderly
  <2>9. \A j \in Records(u.wars) : \A x \in {u.wars[j].attacker, u.wars[j].defender} :
               \/ j \in Records(w.wars) /\ x \in {w.wars[j].attacker, w.wars[j].defender}
               \/ <<x, "war_declared", j>> \in H
    BY <2>2, <2>5, <2>6, <2>7
  <2> QED  BY <1>2, <2>3, <2>4, <2>8, <2>9
<1>4. ASSUME NEW c, NEW k \in Used(w.wars), v \in Musters(w, c, k)  PROVE  Good(prv, w, v)
  <2>1. PICK x : v = [w EXCEPT !.wars[k].attackers = x]
    BY <1>4, Zenon DEF Musters
  <2>2. PICK r : r = [w.wars[k] EXCEPT !.attackers = x]
    OBVIOUS
  <2>3. Same(w, v, {"wars"}) /\ v.wars = [w.wars EXCEPT ![k] = r] /\ k \in Records(w.wars)
    BY <2>1, <2>2 DEF Same, Audit, Orderly, Used, Free, Records
  <2>4. /\ {"attacker", "defender", "attackers"} \subseteq DOMAIN r
        /\ r.attacker = w.wars[k].attacker /\ r.defender = w.wars[k].defender
    BY <2>2, <2>3 DEF Orderly
  <2>5. v.wars[k] = r /\ \A j \in Records(v.wars) : j \in Records(w.wars) /\ (j # k => v.wars[j] = w.wars[j])
    BY <2>3 DEF Records
  <2>6. \A j \in Records(v.wars) : {"attacker", "defender", "attackers"} \subseteq DOMAIN v.wars[j]
    BY <2>4, <2>5 DEF Orderly
  <2>7. \A j \in Records(v.wars) : j \in Records(w.wars) /\ v.wars[j].attacker = w.wars[j].attacker
                                   /\ v.wars[j].defender = w.wars[j].defender
    BY <2>4, <2>5
  <2> QED  BY <1>2, <2>3, <2>6, <2>7
<1>5. ASSUME NEW k \in Used(w.wars), v = [w EXCEPT !.wars[k] = Junk]  PROVE  Good(prv, w, v)
  <2>1. Same(w, v, {"wars"}) /\ v.wars = [w.wars EXCEPT ![k] = Junk]
    BY <1>5 DEF Same, Audit, Orderly
  <2>2. \A j \in Records(v.wars) : j \in Records(w.wars) /\ v.wars[j] = w.wars[j]
    BY <2>1 DEF Records
  <2>3. \A j \in Records(v.wars) : {"attacker", "defender", "attackers"} \subseteq DOMAIN v.wars[j]
    BY <2>2 DEF Orderly
  <2> QED  BY <1>2, <2>1, <2>2, <2>3
<1> QED  BY <1>1, <1>3, <1>4, <1>5

LEMMA SiteGood ==
  ASSUME NEW prv, NEW w, Orderly(w), Past(prv, w), NEW c, NEW v \in SiteMoves(w, c)
  PROVE  Good(prv, w, v)
<1>1. ASSUME NEW u, Same(w, u, {"sites", "buildings"}),
             DOMAIN u.sites = {Site}, DOMAIN u.buildings = {Site},
             u.sites[Site] # Junk => u.sites[Site].building # u.buildings[Site],
             NEW H, u.buildings # w.buildings => <<None, "building_completed", u.buildings[Site]>> \in H
      PROVE  Good(prv, w, Did(u, H)) /\ (H = {} => Good(prv, w, u))
  <2>1. /\ u.spouses = w.spouses /\ u.former = w.former /\ u.primary = w.primary
        /\ u.contracts = w.contracts /\ u.wars = w.wars
        /\ u.traits = w.traits /\ u.memories = w.memories
        /\ u.memory = w.memory /\ u.done = w.done /\ Audit \subseteq DOMAIN u
    BY <1>1 DEF Same, Audit
  <2>2. Orderly(u)
    BY <1>1, <2>1 DEF Orderly, Done
  <2>3. Past(prv, u)
    BY <2>1 DEF Past
  <2>4. \A x, b : Stands(prv, u, x, b) => Stands(prv, w, x, b) \/ <<x, "building_completed", b>> \in H
    BY <1>1 DEF Stands
  <2>5. \A x, y : /\ Married(prv, u, x, y) <=> Married(prv, w, x, y)
                  /\ Divorced(prv, u, x, y) <=> Divorced(prv, w, x, y)
                  /\ Ended(prv, u, x, y) <=> Ended(prv, w, x, y)
                  /\ Declared(prv, u, x, y) <=> Declared(prv, w, x, y)
                  /\ Miscarried(prv, u, x, y) <=> Miscarried(prv, w, x, y)
    BY <2>1 DEF Married, Divorced, Ended, Declared, Miscarried
  <2>6. \A x, t, y : Owes(prv, u, x, t, y) => Owes(prv, w, x, t, y) \/ <<x, t, y>> \in H
    BY <2>4, <2>5 DEF Owes
  <2> QED  BY <2>1, <2>2, <2>3, <2>6, EarnsGood DEF Earns
<1>2. CASE w.sites[Site] = Junk
  <2>1. PICK b : b # w.buildings[Site] /\ v = [w EXCEPT !.sites[Site] = [character |-> c, building |-> b]]
    BY <1>2 DEF SiteMoves
  <2>2. PICK r : r = [character |-> c, building |-> b]
    OBVIOUS
  <2>3. Same(w, v, {"sites", "buildings"}) /\ v.sites = [w.sites EXCEPT ![Site] = r] /\ v.buildings = w.buildings
    BY <2>1, <2>2 DEF Same, Audit, Orderly
  <2>4. DOMAIN v.sites = {Site} /\ DOMAIN v.buildings = {Site} /\ v.sites[Site] = r /\ r.building = b
    BY <2>2, <2>3 DEF Orderly
  <2> QED  BY <1>1, <2>1, <2>3, <2>4
<1>3. CASE w.sites[Site] # Junk
  <2>1. \/ v = [w EXCEPT !.sites[Site] = Junk]
        \/ v = Did([w EXCEPT !.buildings[Site] = w.sites[Site].building, !.sites[Site] = Junk],
                   {<<None, "building_completed", w.sites[Site].building>>})
    BY <1>3 DEF SiteMoves
  <2>2. CASE v = [w EXCEPT !.sites[Site] = Junk]
    <3>1. Same(w, v, {"sites", "buildings"}) /\ v.sites = [w.sites EXCEPT ![Site] = Junk] /\ v.buildings = w.buildings
      BY <2>2 DEF Same, Audit, Orderly
    <3>2. DOMAIN v.sites = {Site} /\ DOMAIN v.buildings = {Site} /\ v.sites[Site] = Junk
      BY <3>1 DEF Orderly
    <3> QED  BY <1>1, <3>1, <3>2
  <2>3. CASE v = Did([w EXCEPT !.buildings[Site] = w.sites[Site].building, !.sites[Site] = Junk],
                     {<<None, "building_completed", w.sites[Site].building>>})
    <3>1. PICK u, H, b : /\ b = w.sites[Site].building
                         /\ u = [w EXCEPT !.buildings[Site] = b, !.sites[Site] = Junk]
                         /\ H = {<<None, "building_completed", b>>}
      OBVIOUS
    <3>2. /\ Same(w, u, {"sites", "buildings"})
          /\ u.sites = [w.sites EXCEPT ![Site] = Junk] /\ u.buildings = [w.buildings EXCEPT ![Site] = b]
      BY <3>1 DEF Same, Audit, Orderly
    <3>3. /\ DOMAIN u.sites = {Site} /\ DOMAIN u.buildings = {Site}
          /\ u.sites[Site] = Junk /\ u.buildings[Site] = b
      BY <3>2 DEF Orderly
    <3>4. Good(prv, w, Did(u, H))
      BY <1>1, <3>1, <3>2, <3>3
    <3> QED  BY <2>3, <3>1, <3>4
  <2> QED  BY <2>1, <2>2, <2>3
<1> QED  BY <1>2, <1>3

LEMMA ContractGood ==
  ASSUME Atoms, NEW prv, NEW w, Orderly(w), Past(prv, w), NEW c, NEW v \in ContractMoves(w, c)
  PROVE  Good(prv, w, v)
<1>1. ASSUME NEW u, Same(w, u, {"contracts"}),
             u.contracts = << >> \/ DOMAIN u.contracts = {1},
             \A k \in Records(u.contracts) : {"owner", "status"} \subseteq DOMAIN u.contracts[k],
             Past(prv, u),
             NEW H, \/ u.contracts = << >>
                    \/ u.contracts[1].status \notin Terminal
                    \/ <<u.contracts[1].owner, "contract_completed", u.contracts[1].status>> \in H
      PROVE  Good(prv, w, Did(u, H)) /\ (H = {} => Good(prv, w, u))
  <2>1. /\ u.spouses = w.spouses /\ u.former = w.former /\ u.primary = w.primary
        /\ u.sites = w.sites /\ u.buildings = w.buildings /\ u.wars = w.wars
        /\ u.traits = w.traits /\ u.memories = w.memories
        /\ u.memory = w.memory /\ u.done = w.done /\ Audit \subseteq DOMAIN u
    BY <1>1 DEF Same, Audit
  <2>2. Orderly(u)
    BY <1>1, <2>1 DEF Orderly, Done
  <2>4. \A x, s : Ended(prv, u, x, s) => <<x, "contract_completed", s>> \in H
    BY <1>1 DEF Ended, Records
  <2>5. \A x, y : /\ Married(prv, u, x, y) <=> Married(prv, w, x, y)
                  /\ Divorced(prv, u, x, y) <=> Divorced(prv, w, x, y)
                  /\ Stands(prv, u, x, y) <=> Stands(prv, w, x, y)
                  /\ Declared(prv, u, x, y) <=> Declared(prv, w, x, y)
                  /\ Miscarried(prv, u, x, y) <=> Miscarried(prv, w, x, y)
    BY <2>1 DEF Married, Divorced, Stands, Declared, Miscarried
  <2>6. \A x, t, y : Owes(prv, u, x, t, y) => Owes(prv, w, x, t, y) \/ <<x, t, y>> \in H
    BY <2>4, <2>5 DEF Owes
  <2> QED  BY <1>1, <2>1, <2>2, <2>6, EarnsGood DEF Earns
<1>2. w.contracts # << >> /\ DOMAIN w.contracts = {1}
  BY DEF ContractMoves, Orderly
<1>3. CASE w.contracts[1] = Junk
  <2>1. PICK r, m : /\ r = [owner |-> c, status |-> "accepted", employer |-> m]
                    /\ v = [w EXCEPT !.contracts[1] = r]
    BY <1>2, <1>3, Zenon DEF ContractMoves
  <2>2. Same(w, v, {"contracts"}) /\ v.contracts = [w.contracts EXCEPT ![1] = r]
    BY <2>1 DEF Same, Audit, Orderly
  <2>3. DOMAIN v.contracts = {1} /\ v.contracts[1] = r
    BY <1>2, <2>2
  <2>4. r.status \notin Terminal /\ {"owner", "status"} \subseteq DOMAIN r
    BY <2>1 DEF Terminal
  <2>5. v.memory = w.memory /\ 1 \notin DOMAIN prv.contracts.row
    BY <1>2, <1>3, <2>2 DEF Past, Same, Audit, Records
  <2>6. Past(prv, v)
    BY <2>5 DEF Past
  <2>7. \A k \in Records(v.contracts) : {"owner", "status"} \subseteq DOMAIN v.contracts[k]
    BY <2>3, <2>4 DEF Records
  <2>8. v.contracts[1].status \notin Terminal
    BY <2>3, <2>4
  <2> QED  BY <1>1, <2>2, <2>3, <2>6, <2>7, <2>8
<1>4. CASE w.contracts[1] # Junk /\ w.contracts[1].status = "accepted"
  <2>1. PICK s \in Terminal : v = Did([w EXCEPT !.contracts[1].status = s],
                                      {<<w.contracts[1].owner, "contract_completed", s>>})
    BY <1>2, <1>4 DEF ContractMoves
  <2>2. PICK u, r, H : /\ u = [w EXCEPT !.contracts[1].status = s]
                       /\ r = [w.contracts[1] EXCEPT !.status = s]
                       /\ H = {<<w.contracts[1].owner, "contract_completed", s>>}
    OBVIOUS
  <2>3. Same(w, u, {"contracts"}) /\ u.contracts = [w.contracts EXCEPT ![1] = r]
    BY <2>2 DEF Same, Audit, Orderly
  <2>4. DOMAIN u.contracts = {1} /\ u.contracts[1] = r /\ 1 \in Records(w.contracts)
    BY <1>2, <1>4, <2>3 DEF Records
  <2>5. {"owner", "status"} \subseteq DOMAIN r /\ r.owner = w.contracts[1].owner /\ r.status = s
    BY <2>2, <2>4 DEF Orderly
  <2>6. r # Junk
    <3>1. r = [x \in DOMAIN r |-> r[x]]
      BY <2>2
    <3> QED  BY <3>1 DEF Atoms
  <2>7. u.memory = w.memory
    BY <2>3 DEF Same, Audit
  <2>8. Past(prv, u)
    BY <1>2, <2>4, <2>5, <2>6, <2>7 DEF Past, Records
  <2>9. \A k \in Records(u.contracts) : {"owner", "status"} \subseteq DOMAIN u.contracts[k]
    BY <2>4, <2>5 DEF Records
  <2>10. <<u.contracts[1].owner, "contract_completed", u.contracts[1].status>> \in H
    BY <2>2, <2>4, <2>5
  <2>11. Good(prv, w, Did(u, H))
    BY <1>1, <2>3, <2>4, <2>8, <2>9, <2>10
  <2> QED  BY <2>1, <2>2, <2>11
<1>5. CASE w.contracts[1] # Junk /\ w.contracts[1].status # "accepted"
  <2>1. v = [w EXCEPT !.contracts = << >>]
    BY <1>2, <1>5 DEF ContractMoves
  <2>2. Same(w, v, {"contracts"}) /\ v.contracts = << >> /\ v.memory = w.memory
    BY <2>1 DEF Same, Audit, Orderly
  <2>3. Past(prv, v) /\ Records(v.contracts) = {}
    BY <2>2 DEF Past, Records
  <2> QED  BY <1>1, <2>2, <2>3
<1> QED  BY <1>3, <1>4, <1>5

\* Moves of traits and memories: a memory is entered in a free slot, and whoever's
\* pregnancy ends has a new memory of a birth, or else lost the child.
LEMMA MemoryGood ==
  ASSUME NEW prv, NEW w, Orderly(w), Past(prv, w), NEW u, Same(w, u, {"traits", "memories", "memory"}),
         DOMAIN u.traits = Char, DOMAIN u.memories = Char,
         \A m \in Records(w.memory) : m \in Records(u.memory) /\ u.memory[m] = w.memory[m],
         \A c \in Char : w.memories[c] \subseteq u.memories[c],
         NEW H,
         \A c \in Char : Pregnant \in w.traits[c] \ u.traits[c] =>
           \/ \E m \in u.memories[c] \cap Records(u.memory) :
                m \notin Records(w.memory) /\ u.memory[m].type = "child_born"
           \/ <<c, "miscarriage", None>> \in H
  PROVE  Good(prv, w, Did(u, H)) /\ (H = {} => Good(prv, w, u))
<1>1. /\ u.spouses = w.spouses /\ u.former = w.former /\ u.primary = w.primary
      /\ u.sites = w.sites /\ u.buildings = w.buildings /\ u.wars = w.wars
      /\ u.contracts = w.contracts /\ u.done = w.done /\ Audit \subseteq DOMAIN u
  BY DEF Same, Audit
<1>2. Orderly(u)
  BY <1>1 DEF Orderly, Done
<1>3. Past(prv, u)
  BY <1>1 DEF Past
<1>4. ASSUME NEW c, NEW x, Miscarried(prv, u, c, x), ~Miscarried(prv, w, c, x)
      PROVE  <<c, "miscarriage", x>> \in H
  <2>1. /\ c \in Char \cap DOMAIN prv.characters /\ x = None
        /\ Pregnant \in prv.characters[c].traits /\ Pregnant \notin u.traits[c]
        /\ \A m \in (u.memories[c] \cap Records(u.memory)) \ prv.characters[c].memories :
             u.memory[m].type # "child_born"
    BY <1>4 DEF Miscarried
  <2>2. \A m \in (w.memories[c] \cap Records(w.memory)) \ prv.characters[c].memories :
          w.memory[m].type # "child_born"
    <3> SUFFICES ASSUME NEW m \in (w.memories[c] \cap Records(w.memory)) \ prv.characters[c].memories
                 PROVE  w.memory[m].type # "child_born"
      OBVIOUS
    <3>1. m \in Records(u.memory) /\ u.memory[m] = w.memory[m] /\ m \in u.memories[c]
      BY <2>1
    <3> QED  BY <2>1, <3>1
  <2>3. Pregnant \in w.traits[c]
    BY <1>4, <2>1, <2>2 DEF Miscarried
  <2>4. ASSUME NEW m \in u.memories[c] \cap Records(u.memory), m \notin Records(w.memory),
               u.memory[m].type = "child_born"
        PROVE  FALSE
    <3>1. m \notin prv.characters[c].memories
      BY <2>1, <2>4 DEF Past
    <3> QED  BY <2>1, <2>4, <3>1
  <2> QED  BY <2>1, <2>3, <2>4
<1>5. \A x, y : /\ Married(prv, u, x, y) <=> Married(prv, w, x, y)
                /\ Divorced(prv, u, x, y) <=> Divorced(prv, w, x, y)
                /\ Stands(prv, u, x, y) <=> Stands(prv, w, x, y)
                /\ Declared(prv, u, x, y) <=> Declared(prv, w, x, y)
                /\ Ended(prv, u, x, y) <=> Ended(prv, w, x, y)
  BY <1>1 DEF Married, Divorced, Stands, Declared, Ended
<1>6. \A x, t, y : Owes(prv, u, x, t, y) => Owes(prv, w, x, t, y) \/ <<x, t, y>> \in H
  BY <1>4, <1>5 DEF Owes
<1> QED  BY <1>1, <1>2, <1>3, <1>6, EarnsGood DEF Earns

Recalls(w, u, c, m, type) ==
  /\ Same(w, u, {"memories", "memory"}) /\ DOMAIN u = DOMAIN w
  /\ m \in u.memories[c] \cap Records(u.memory) /\ m \notin Records(w.memory)
  /\ u.memory[m].type = type
  /\ DOMAIN u.memories = Char
  /\ \A j \in Records(w.memory) : j \in Records(u.memory) /\ u.memory[j] = w.memory[j]
  /\ \A x \in Char : w.memories[x] \subseteq u.memories[x]

LEMMA Remembered ==
  ASSUME Atoms, NEW w, Orderly(w), NEW c \in Char, NEW m \in Free(w.memory), NEW type, NEW roles
  PROVE  Recalls(w, Remember(w, c, m, type, roles), c, m, type)
<1>0. PICK u : u = Remember(w, c, m, type, roles)
  OBVIOUS
<1>1. PICK r : r = [type |-> type, created |-> w.date, participants |-> roles]
  OBVIOUS
<1>2. r # Junk /\ r.type = type
  BY <1>1 DEF Atoms
<1>3. u = [w EXCEPT !.memories[c] = @ \cup {m}, !.memory[m] = r]
  BY <1>0, <1>1 DEF Remember
<1>4. /\ Same(w, u, {"memories", "memory"}) /\ DOMAIN u = DOMAIN w
      /\ u.memories = [w.memories EXCEPT ![c] = @ \cup {m}] /\ u.memory = [w.memory EXCEPT ![m] = r]
  BY <1>3 DEF Same, Audit, Orderly
<1>5. m \in DOMAIN w.memory /\ w.memory[m] = Junk
  BY DEF Free
<1>6. \A j \in Records(w.memory) : j \in Records(u.memory) /\ u.memory[j] = w.memory[j]
  BY <1>4, <1>5 DEF Records
<1>7. m \in Records(u.memory) /\ u.memory[m] = r /\ m \notin Records(w.memory)
  BY <1>2, <1>4, <1>5 DEF Records
<1>8. DOMAIN u.memories = Char /\ m \in u.memories[c] /\ \A x \in Char : w.memories[x] \subseteq u.memories[x]
  BY <1>4 DEF Orderly
<1> QED  BY <1>0, <1>2, <1>4, <1>6, <1>7, <1>8 DEF Recalls

LEMMA CarryGood ==
  ASSUME Atoms, NEW prv, NEW w, Orderly(w), Past(prv, w), NEW c \in Char, NEW v \in Carry(w, c)
  PROVE  Good(prv, w, v)
<1>1. \/ \E m \in Free(w.memory) : v = Birth(w, c, m)
      \/ v = Miscarry(w, c)
      \/ v = [w EXCEPT !.traits[c] = @ \cup {Pregnant}]
  BY Zenon DEF Carry
<1>2. ASSUME NEW m \in Free(w.memory), v = Birth(w, c, m)  PROVE  Good(prv, w, v)
  <2>1. PICK u : u = Remember(w, c, m, "child_born", << >>)
    OBVIOUS
  <2>2. v = [u EXCEPT !.traits[c] = @ \ {Pregnant}]
    BY <1>2, <2>1 DEF Birth
  <2>3. /\ Same(w, u, {"memories", "memory"}) /\ DOMAIN u = DOMAIN w
        /\ m \in u.memories[c] \cap Records(u.memory) /\ m \notin Records(w.memory)
        /\ u.memory[m].type = "child_born"
        /\ DOMAIN u.memories = Char
        /\ \A j \in Records(w.memory) : j \in Records(u.memory) /\ u.memory[j] = w.memory[j]
        /\ \A x \in Char : w.memories[x] \subseteq u.memories[x]
    <3>1. Recalls(w, u, c, m, "child_born")
      BY <2>1, Remembered
    <3> QED  BY <3>1 DEF Recalls
  <2>4. /\ Same(w, v, {"traits", "memories", "memory"})
        /\ v.memories = u.memories /\ v.memory = u.memory
        /\ v.traits = [w.traits EXCEPT ![c] = @ \ {Pregnant}]
    BY <2>2, <2>3 DEF Same, Audit, Orderly
  <2>5. DOMAIN v.traits = Char /\ \A x \in Char \ {c} : v.traits[x] = w.traits[x]
    BY <2>4 DEF Orderly
  <2>6. \A x \in Char : Pregnant \in w.traits[x] \ v.traits[x] =>
          \E j \in v.memories[x] \cap Records(v.memory) :
            j \notin Records(w.memory) /\ v.memory[j].type = "child_born"
    BY <2>3, <2>4, <2>5
  <2> QED  BY <2>3, <2>4, <2>5, <2>6, MemoryGood
<1>3. CASE v = Miscarry(w, c)
  <2>1. PICK u, H : u = [w EXCEPT !.traits[c] = @ \ {Pregnant}] /\ H = {<<c, "miscarriage", None>>}
    OBVIOUS
  <2>2. v = Did(u, H)
    BY <1>3, <2>1 DEF Miscarry
  <2>3. /\ Same(w, u, {"traits", "memories", "memory"})
        /\ u.memories = w.memories /\ u.memory = w.memory
        /\ u.traits = [w.traits EXCEPT ![c] = @ \ {Pregnant}]
    BY <2>1 DEF Same, Audit, Orderly
  <2>4. DOMAIN u.traits = Char /\ DOMAIN u.memories = Char /\ \A x \in Char \ {c} : u.traits[x] = w.traits[x]
    BY <2>3 DEF Orderly
  <2>5. Good(prv, w, Did(u, H))
    BY <2>1, <2>3, <2>4, MemoryGood
  <2> QED  BY <2>2, <2>5
<1>4. CASE v = [w EXCEPT !.traits[c] = @ \cup {Pregnant}]
  <2>1. /\ Same(w, v, {"traits", "memories", "memory"})
        /\ v.memories = w.memories /\ v.memory = w.memory
        /\ v.traits = [w.traits EXCEPT ![c] = @ \cup {Pregnant}]
    BY <1>4 DEF Same, Audit, Orderly
  <2>2. DOMAIN v.traits = Char /\ DOMAIN v.memories = Char /\ \A x \in Char : w.traits[x] \subseteq v.traits[x]
    BY <2>1 DEF Orderly
  <2> QED  BY <2>1, <2>2, MemoryGood
<1> QED  BY <1>1, <1>2, <1>3, <1>4

LEMMA FamilyGood ==
  ASSUME Atoms, NEW prv, NEW w, Orderly(w), Past(prv, w), NEW v \in FamilyMoves(w)
  PROVE  Good(prv, w, v)
<1>1. PICK c \in Char : v \in Carry(w, c) \/ \E d \in Char \ {c} : v \in Matches(w, c, d)
  BY TrackedAssumption DEF FamilyMoves, Alive
<1>2. ASSUME NEW d \in Char \ {c}, v \in Matches(w, c, d)  PROVE  Good(prv, w, v)
  <2>1. \/ v \in {Part(w, c, d), Split(w, c, d), Wed(w, c, d)}
        \/ v = [w EXCEPT !.concubines[c] = @ \cup {d}]
    BY <1>2, Zenon DEF Matches
  <2>2. CASE v = [w EXCEPT !.concubines[c] = @ \cup {d}]
    <3>1. Quiet(w, v)
      BY <2>2 DEF Quiet, Audit, Orderly
    <3> QED  BY <3>1, QuietGood
  <2> QED  BY <2>1, <2>2, WedGood, PartGood
<1> QED  BY <1>1, <1>2, CarryGood

LEMMA MourningGood ==
  ASSUME Atoms, NEW prv, NEW w, Orderly(w), Past(prv, w), NEW v \in MourningMoves(w)
  PROVE  Good(prv, w, v)
<1>1. PICK c, m, d : c \in Char /\ m \in Free(w.memory) /\ v = Mourn(w, c, m, d)
  BY TrackedAssumption DEF MourningMoves, Alive
<1>2. /\ Same(w, v, {"memories", "memory"})
      /\ DOMAIN v.memories = Char
      /\ \A j \in Records(w.memory) : j \in Records(v.memory) /\ v.memory[j] = w.memory[j]
      /\ \A x \in Char : w.memories[x] \subseteq v.memories[x]
  <2>1. PICK roles : v = Remember(w, c, m, "relative_died", roles)
    BY <1>1, Zenon DEF Mourn
  <2> QED  BY <1>1, <2>1, Remembered DEF Recalls
<1>3. Same(w, v, {"traits", "memories", "memory"}) /\ v.traits = w.traits /\ DOMAIN v.traits = Char
  BY <1>2 DEF Same, Audit, Orderly
<1> QED  BY <1>2, <1>3, MemoryGood

LEMMA WorkGood ==
  ASSUME Atoms, NEW prv, NEW w, Orderly(w), Past(prv, w), NEW v \in WorkMoves(w)
  PROVE  Good(prv, w, v)
<1>1. PICK c : v \in SiteMoves(w, c) \/ v \in ContractMoves(w, c) \/ v \in Occasions(w, c)
  BY Zenon DEF WorkMoves
<1> QED  BY <1>1, SiteGood, ContractGood, OccasionsQuiet, QuietGood

\* Every move of the game is good.
LEMMA MovesGood ==
  ASSUME Atoms, facet \in Facets, NEW prv, NEW w, Orderly(w), Past(prv, w), WorldOK(w), NEW v \in Moves(w)
  PROVE  Good(prv, w, v)
<1>1. CASE v \in Deaths(w)
  BY <1>1, DieQuiet, QuietGood
<1>2. CASE v \notin Deaths(w)
  <2>1. CASE facet = "life"
    <3>1. PICK c : v = [w EXCEPT !.location[c] = 3 - @]
      BY <1>2, <2>1, Zenon DEF Moves
    <3>2. Quiet(w, v)
      BY <3>1 DEF Quiet, Audit, Orderly
    <3> QED  BY <3>2, QuietGood
  <2>2. CASE facet = "person"
    <3>1. PICK c : v \in Turns(w, c)
      BY <1>2, <2>2, Zenon DEF Moves, PersonMoves
    <3> QED  BY <3>1, TurnsQuiet, QuietGood
  <2>3. CASE facet = "court"
    <3>1. PICK c : v \in Careers(w, c)
      BY <1>2, <2>3, Zenon DEF Moves, CourtMoves
    <3> QED  BY <3>1, CareersQuiet, QuietGood
  <2>4. CASE facet = "family"
    BY <1>2, <2>4, FamilyGood DEF Moves
  <2>5. CASE facet = "mourning"
    BY <1>2, <2>5, MourningGood DEF Moves
  <2>6. CASE facet = "titles"
    BY <1>2, <2>6, TitlesQuiet, QuietGood DEF Moves
  <2>7. CASE facet = "wars"
    BY <1>2, <2>7, WarsGood DEF Moves
  <2>8. CASE facet = "bonds"
    BY <1>2, <2>8, BondsQuiet, QuietGood DEF Moves
  <2>9. CASE facet = "works"
    BY <1>2, <2>9, WorkGood DEF Moves
  <2>10. CASE facet = "dynasty"
    BY <1>2, <2>10, DynastyQuiet, QuietGood DEF Moves
  <2> QED  BY <2>1, <2>2, <2>3, <2>4, <2>5, <2>6, <2>7, <2>8, <2>9, <2>10 DEF Facets
<1> QED  BY <1>1, <1>2

-----------------------------------------------------------------------------
\* What a snapshot says of the world it was taken of, as far as the audit asks.
ReadsPerson(snap, w, c) ==
  LET char == snap.characters[c]
  IN  /\ char.family.spouses = w.spouses[c] /\ char.family.former_spouses = w.former[c]
      /\ char.family.primary_spouse = w.primary[c]
      /\ char.traits = w.traits[c] /\ char.memories = w.memories[c] \cap Records(w.memory)
Reads(snap, w) ==
  /\ \A c \in Char \cap DOMAIN snap.characters : ReadsPerson(snap, w, c)
  /\ snap.memories = Restrict(w.memory, Records(w.memory))
  /\ snap.wars.row = Restrict(w.wars, Records(w.wars))
  /\ snap.contracts.row =
       Restrict(w.contracts, {k \in Records(w.contracts) : w.contracts[k].status # None})
  /\ snap.constructions.row =
       Restrict(w.sites, {k \in Records(w.sites) : w.sites[k].building # None})
  /\ snap.constructions.built = Restrict(w.buildings, Records(w.buildings))

LEMMA PersonReads ==
  ASSUME Atoms, NEW w, WorldOK(w), NEW c \in Char \cap DOMAIN ParseSave(Save(w)).characters
  PROVE  ReadsPerson(ParseSave(Save(w)), w, c)
<1>1. PICK r, dead, memories : r = Person(w, c) /\ dead = (w.life[c] \notin Walking) /\ memories = w.memory
  BY Zenon
<1>2. PICK x : x = ParseCharacter(r, dead, memories)
  OBVIOUS
<1>3. w.life[c] # "gone" /\ ParseSave(Save(w)).characters[c] = x
  BY <1>1, <1>2, Snapshot
<1>4. /\ r.traits = w.traits[c]
      /\ r.family_data = [primary_spouse |-> w.primary[c], spouses |-> w.spouses[c],
                          former_spouses |-> w.former[c], concubines |-> w.concubines[c],
                          children |-> w.children[c], mother |-> None, father |-> None]
      /\ r.alive_data = (IF w.life[c] \in Walking
                         THEN [location |-> w.location[c], memories |-> w.memories[c],
                               perk |-> w.perk[c], inspiration |-> None] ELSE None)
      /\ r.dead_data = (IF w.died[c] = None THEN None
                        ELSE [date |-> w.died[c], killer |-> w.killer[c],
                              location |-> None, memories |-> w.memories[c]])
  BY <1>1 DEF Person
<1>5. PICK l : l = IF dead THEN r.dead_data ELSE r.alive_data
  OBVIOUS
<1>6. /\ x.traits = r.traits
      /\ x.family = ParseFamily(r.family_data)
      /\ x.memories = (IF l = None THEN {} ELSE l["memories"]) \cap Records(memories)
  BY <1>2, <1>5 DEF ParseCharacter
<1>7. /\ x.family.spouses = w.spouses[c] /\ x.family.former_spouses = w.former[c]
      /\ x.family.primary_spouse = w.primary[c]
  <2>1. PICK f : /\ f = r.family_data
                 /\ f = [primary_spouse |-> w.primary[c], spouses |-> w.spouses[c],
                         former_spouses |-> w.former[c], concubines |-> w.concubines[c],
                         children |-> w.children[c], mother |-> None, father |-> None]
    BY <1>4
  <2>2. f # Junk
    BY <2>1 DEF Atoms
  <2> QED  BY <1>6, <2>1, <2>2 DEF ParseFamily
<1>8. l # None /\ l["memories"] = w.memories[c]
  <2>1. CASE dead
    <3>1. w.died[c] # None
      BY <1>1, <2>1 DEF WorldOK, Walking
    <3>2. l = [date |-> w.died[c], killer |-> w.killer[c], location |-> None, memories |-> w.memories[c]]
      BY <1>4, <1>5, <2>1, <3>1
    <3> QED  BY <3>2 DEF Atoms
  <2>2. CASE ~dead
    <3>1. l = [location |-> w.location[c], memories |-> w.memories[c], perk |-> w.perk[c],
               inspiration |-> None]
      BY <1>1, <1>4, <1>5, <2>2
    <3> QED  BY <3>1 DEF Atoms
  <2> QED  BY <2>1, <2>2
<1> QED  BY <1>1, <1>3, <1>4, <1>6, <1>7, <1>8 DEF ReadsPerson

\* Reads, and the indexes over what is read.
LEMMA SaveReads ==
  ASSUME Atoms, NEW w, WorldOK(w), Orderly(w), NEW snap, snap = ParseSave(Save(w))
  PROVE  Reads(snap, w) /\ Indexed(snap)
<1>1. PICK raw : raw = Save(w)
  OBVIOUS
<1>2. /\ raw.memories = w.memory /\ raw.wars = w.wars /\ raw.contracts = w.contracts
      /\ raw.sites = w.sites /\ raw.buildings = w.buildings
  BY <1>1 DEF Save
<1>3. /\ snap.memories = Restrict(raw.memories, Records(raw.memories))
      /\ snap.wars = ParseWars(raw) /\ snap.contracts = ParseContracts(raw)
      /\ snap.constructions = ParseConstructions(raw)
  BY <1>1, Zenon DEF ParseSave
<1>4. snap.wars.row = Restrict(w.wars, Records(w.wars))
  <2>1. PICK of : ParseWars(raw) = [row |-> Restrict(raw.wars, Records(raw.wars)), of |-> of]
    BY Zenon DEF ParseWars
  <2> QED  BY <1>2, <1>3, <2>1
<1>5. PICK kept : kept = Restrict(raw.contracts, {k \in Records(raw.contracts) : raw.contracts[k].status # None})
  OBVIOUS
<1>6. snap.contracts = [row |-> kept, of |-> ReverseIndex(kept, LAMBDA r : {r.owner})]
  BY <1>3, <1>5, Zenon DEF ParseContracts
<1>7. Records(kept) = DOMAIN kept /\ DOMAIN kept \subseteq Records(w.contracts)
  BY <1>2, <1>5 DEF Restrict, Records
<1>8. DOMAIN kept \subseteq {1}
  <2>1. CASE w.contracts = << >>
    BY <1>7, <2>1 DEF Records
  <2>2. CASE DOMAIN w.contracts = {1}
    BY <1>7, <2>2 DEF Records
  <2> QED  BY <2>1, <2>2 DEF Orderly
<1>9. \A c \in Char : snap.contracts.of[c] = {k \in DOMAIN kept : kept[k].owner = c}
  BY <1>6, <1>7 DEF ReverseIndex
<1>10. PICK sites, rows, built :
         /\ sites = {k \in Records(raw.sites) : raw.sites[k].building # None}
         /\ rows = Restrict(raw.sites, sites) /\ built = Restrict(raw.buildings, Records(raw.buildings))
         /\ ParseConstructions(raw) =
              [row |-> rows, of |-> [c \in Char |-> {k \in sites : raw.sites[k].character = c}],
               built |-> built]
  BY Zenon DEF ParseConstructions
<1>11. DOMAIN rows = sites /\ sites \subseteq {Site} /\ \A k \in sites : rows[k] = raw.sites[k]
  BY <1>2, <1>10 DEF Restrict, Records, Orderly
<1>12. /\ snap.constructions.row = rows /\ snap.constructions.built = built
       /\ snap.constructions.of = [c \in Char |-> {k \in sites : raw.sites[k].character = c}]
  BY <1>3, <1>10
<1>13. \A c \in Char : snap.constructions.of[c] = {k \in DOMAIN rows : rows[k].character = c}
  BY <1>11, <1>12
<1>14. snap.contracts.row = kept
  <2>1. PICK of : snap.contracts = [row |-> kept, of |-> of]
    BY <1>6, Zenon
  <2> QED  BY <2>1
<1>15. Indexed(snap)
  <2>1. \A c \in Char : ParseWars(raw).of[c] \subseteq DOMAIN ParseWars(raw).row
    BY DEF ParseWars, ReverseIndex, Records, Restrict
  <2> QED  BY <1>3, <1>8, <1>9, <1>11, <1>12, <1>13, <1>14, <2>1 DEF Indexed
<1>16. \A c \in Char \cap DOMAIN snap.characters : ReadsPerson(snap, w, c)
  BY PersonReads
<1>17. snap.memories = Restrict(w.memory, Records(w.memory))
  BY <1>2, <1>3
<1>18. snap.contracts.row =
         Restrict(w.contracts, {k \in Records(w.contracts) : w.contracts[k].status # None})
  BY <1>2, <1>5, <1>14
<1>19. /\ snap.constructions.row = Restrict(w.sites, {k \in Records(w.sites) : w.sites[k].building # None})
       /\ snap.constructions.built = Restrict(w.buildings, Records(w.buildings))
  BY <1>2, <1>10, <1>12
<1>20. Reads(snap, w)
  BY <1>4, <1>16, <1>17, <1>18, <1>19 DEF Reads
<1> QED  BY <1>15, <1>20

\* Once a save is the baseline, nothing is owed.
LEMMA ReadsSettled ==
  ASSUME NEW snap, NEW w, Orderly(w), Reads(snap, w), None \notin Terminal
  PROVE  Past(snap, w) /\ \A c, t, x : ~Owes(snap, w, c, t, x)
<1>1. /\ DOMAIN snap.wars.row = Records(w.wars)
      /\ DOMAIN snap.contracts.row = {k \in Records(w.contracts) : w.contracts[k].status # None}
      /\ \A k \in DOMAIN snap.contracts.row : snap.contracts.row[k] = w.contracts[k]
      /\ DOMAIN snap.constructions.row \subseteq Records(w.sites)
      /\ \A k \in DOMAIN snap.constructions.row : snap.constructions.row[k] = w.sites[k]
  BY DEF Reads, Restrict
<1>2. Past(snap, w)
  BY <1>1 DEF Past, Reads, ReadsPerson
<1>3. ASSUME NEW c, NEW x
      PROVE  /\ ~Married(snap, w, c, x) /\ ~Divorced(snap, w, c, x)
             /\ ~Declared(snap, w, c, x) /\ ~Miscarried(snap, w, c, x)
  BY <1>1 DEF Married, Divorced, Declared, Miscarried, Reads, ReadsPerson
<1>4. ASSUME NEW c, NEW x, Ended(snap, w, c, x)  PROVE  FALSE
  BY <1>1, <1>4 DEF Ended
<1>5. ASSUME NEW c, NEW x, Stands(snap, w, c, x)  PROVE  FALSE
  <2>1. Site \in Records(w.sites) /\ w.sites[Site].building = w.buildings[Site]
    BY <1>1, <1>5 DEF Stands
  <2> QED  BY <2>1 DEF Orderly, Records
<1> QED  BY <1>2, <1>3, <1>4, <1>5 DEF Owes

-----------------------------------------------------------------------------
(* The events of a diff that are audited.                                  *)

\* The one event a diff can make of a happening.
AuditEvent(id, prv, curr, t, x) ==
  CASE t = "marriage" -> With(id, t, [spouse_character_id |-> x], {<<"spouse", x>>})
    [] t = "divorce" -> With(id, t, [former_spouse_character_id |-> x], {<<"former_spouse", x>>})
    [] t = "war_declared" -> WarEvent(id, t, x, curr.wars.row)
    [] t = "contract_completed" ->
         Event(id, t, [outcome |-> curr.contracts.row[1].status, employer_id |-> curr.contracts.row[1].employer])
    [] t = "building_completed" ->
         Event(id, t, [building |-> prv.constructions.row[Site].building,
                       province_id |-> Site[1], slot_index |-> Site[2]])
    [] t = "miscarriage" ->
         With(id, t, [assumed_father_id |-> curr.characters[id].family.primary_spouse],
              {<<"assumed_father", curr.characters[id].family.primary_spouse>>})

\* What a differ has seen when it tells e.
SeesWedding(id, p, c, e) ==
  \E s \in NewSpouses(p, c) : e = With(id, "marriage", [spouse_character_id |-> s], {<<"spouse", s>>})
SeesDivorce(id, p, c, e) ==
  \E s \in c.family.former_spouses \ p.family.former_spouses :
    e = With(id, "divorce", [former_spouse_character_id |-> s], {<<"former_spouse", s>>})
SeesWar(id, prv, curr, e) ==
  \E k \in (curr.wars.of[id] \ prv.wars.of[id]) \ DOMAIN prv.wars.row :
    /\ id \in {curr.wars.row[k].attacker, curr.wars.row[k].defender}
    /\ e = WarEvent(id, "war_declared", k, curr.wars.row)
SeesContract(id, prv, curr, e) ==
  \E k \in prv.contracts.of[id] \cup curr.contracts.of[id] :
    /\ k \in DOMAIN curr.contracts.row /\ curr.contracts.row[k].status \in Terminal
    /\ ~(k \in DOMAIN prv.contracts.row /\ prv.contracts.row[k].status \in Terminal)
    /\ e = Event(id, "contract_completed", [outcome |-> curr.contracts.row[k].status,
                                            employer_id |-> curr.contracts.row[k].employer])
SeesBuilding(id, prv, curr, e) ==
  \E k \in (prv.constructions.of[id] \ curr.constructions.of[id]) \cap DOMAIN curr.constructions.built :
    /\ curr.constructions.built[k] = prv.constructions.row[k].building
    /\ e = Event(id, "building_completed", [building |-> prv.constructions.row[k].building,
                                            province_id |-> k[1], slot_index |-> k[2]])
SeesMiscarriage(id, p, c, memories, e) ==
  /\ Pregnant \in p.traits \ c.traits
  /\ ~\E m \in c.memories \ p.memories : memories[m].type = "child_born"
  /\ e = With(id, "miscarriage", [assumed_father_id |-> c.family.primary_spouse],
              {<<"assumed_father", c.family.primary_spouse>>})
Seen(id, prv, curr, e) ==
  LET p == prv.characters[id]
      c == curr.characters[id]
  IN  \/ SeesWedding(id, p, c, e) \/ SeesDivorce(id, p, c, e)
      \/ SeesWar(id, prv, curr, e) \/ SeesContract(id, prv, curr, e)
      \/ SeesBuilding(id, prv, curr, e) \/ SeesMiscarriage(id, p, c, curr.memories, e)

LEMMA AuditedTypes ==
  DOMAIN Audited = {"marriage", "divorce", "war_declared", "contract_completed",
                    "building_completed", "miscarriage"}
BY DEF Audited

LEMMA OneCharacterSeen ==
  ASSUME NEW id, NEW p, NEW c, NEW curr, NEW e \in DiffOneCharacter(id, p, c, curr), e.t \in DOMAIN Audited
  PROVE  SeesWedding(id, p, c, e) \/ SeesDivorce(id, p, c, e)
<1>1. PICK A \in {IF DeathAppears(p, c) THEN MakeDeath(id, c) ELSE {},
                  IF /\ ~c.is_dead
                     /\ None \notin {p.location, c.location}
                     /\ p.location # c.location
                    THEN {Event(id, "travel", [from_location |-> p.location, to_location |-> c.location])}
                    ELSE {},
                  EventsWith(id, "marriage", NewSpouses(p, c),
                             LAMBDA s : [spouse_character_id |-> s], LAMBDA s : {<<"spouse", s>>}),
                  EventsWith(id, "divorce", c.family.former_spouses \ p.family.former_spouses,
                             LAMBDA s : [former_spouse_character_id |-> s],
                             LAMBDA s : {<<"former_spouse", s>>}),
                  IF ~c.is_dead /\ p.nickname # c.nickname
                    THEN {Event(id, "nickname", [from_nickname |-> p.nickname, to_nickname |-> c.nickname])}
                    ELSE {},
                  IF ~c.is_dead /\ p.government # c.government
                    THEN GovernmentEvents(id, p, c) ELSE {},
                  {MakeVanillaMemory(id, m, curr) : m \in c.memories \ p.memories},
                  Events(id, "decision_taken", {d \in c.decisions \ p.decisions : d[1] \in Interesting},
                         LAMBDA d : [decision_id |-> d[1], cooldown_end_date |-> d[2]])} : e \in A
  BY Zenon DEF DiffOneCharacter
<1>2. e.t \notin {"death", "travel", "nickname", "decision_taken", "vanilla_memory",
                  "adventurer_started", "adventurer_ended", "government_changed"}
  BY AuditedTypes
<1>3. ASSUME NEW x, NEW t, e = Event(id, t, x)
      PROVE  e.t = t
  BY <1>3 DEF With, Event
<1>4. CASE A = IF DeathAppears(p, c) THEN MakeDeath(id, c) ELSE {}
  <2>1. e \in MakeDeath(id, c)
    BY <1>1, <1>4, Zenon
  <2>2. PICK z : MakeDeath(id, c) = {z} /\ z = [c |-> id, t |-> "death", d |-> z.d, p |-> z.p, with |-> z.with]
    BY DeathEvent
  <2>3. PICK d, x, r : z = [c |-> id, t |-> "death", d |-> d, p |-> x, with |-> r]
    BY <2>2, Zenon
  <2>4. e = z
    BY <2>1, <2>2, Zenon
  <2>5. e.t = "death"
    BY <2>3, <2>4
  <2> QED  BY <1>2, <2>5
<1>5. CASE A = IF /\ ~c.is_dead
                  /\ None \notin {p.location, c.location}
                  /\ p.location # c.location
               THEN {Event(id, "travel", [from_location |-> p.location, to_location |-> c.location])}
               ELSE {}
  <2>1. e = Event(id, "travel", [from_location |-> p.location, to_location |-> c.location])
    BY <1>1, <1>5, Zenon
  <2> QED  BY <1>2, <1>3, <2>1
<1>6. CASE A = EventsWith(id, "marriage", NewSpouses(p, c),
                          LAMBDA s : [spouse_character_id |-> s], LAMBDA s : {<<"spouse", s>>})
  <2>1. e \in EventsWith(id, "marriage", NewSpouses(p, c),
                         LAMBDA s : [spouse_character_id |-> s], LAMBDA s : {<<"spouse", s>>})
    BY <1>1, <1>6, Zenon
  <2>2. SeesWedding(id, p, c, e)
    BY <2>1, Zenon DEF EventsWith, SeesWedding
  <2> QED  BY <2>2
<1>7. CASE A = EventsWith(id, "divorce", c.family.former_spouses \ p.family.former_spouses,
                          LAMBDA s : [former_spouse_character_id |-> s],
                          LAMBDA s : {<<"former_spouse", s>>})
  <2>1. e \in EventsWith(id, "divorce", c.family.former_spouses \ p.family.former_spouses,
                         LAMBDA s : [former_spouse_character_id |-> s], LAMBDA s : {<<"former_spouse", s>>})
    BY <1>1, <1>7, Zenon
  <2>2. SeesDivorce(id, p, c, e)
    BY <2>1, Zenon DEF EventsWith, SeesDivorce
  <2> QED  BY <2>2
<1>8. CASE A = IF ~c.is_dead /\ p.nickname # c.nickname
               THEN {Event(id, "nickname", [from_nickname |-> p.nickname, to_nickname |-> c.nickname])}
               ELSE {}
  <2>1. e = Event(id, "nickname", [from_nickname |-> p.nickname, to_nickname |-> c.nickname])
    BY <1>1, <1>8, Zenon
  <2> QED  BY <1>2, <1>3, <2>1
<1>9. CASE A = IF ~c.is_dead /\ p.government # c.government THEN GovernmentEvents(id, p, c) ELSE {}
  <2>1. e \in GovernmentEvents(id, p, c)
    BY <1>1, <1>9, Zenon
  <2>2. PICK t \in {"adventurer_started", "adventurer_ended", "government_changed"} :
          \E x : e = Event(id, t, x)
    BY <2>1, Zenon DEF GovernmentEvents
  <2> QED  BY <1>2, <1>3, <2>2
<1>10. CASE A = {MakeVanillaMemory(id, m, curr) : m \in c.memories \ p.memories}
  <2>1. PICK m : e = MakeVanillaMemory(id, m, curr)
    BY <1>1, <1>10, Zenon
  <2>2. PICK x, r, d : MakeVanillaMemory(id, m, curr) = [With(id, "vanilla_memory", x, r) EXCEPT !.d = d]
    BY Zenon DEF MakeVanillaMemory
  <2>3. PICK w : w = With(id, "vanilla_memory", x, r)
    OBVIOUS
  <2>4. e = [w EXCEPT !.d = d] /\ w.t = "vanilla_memory" /\ "t" \in DOMAIN w
    BY <2>1, <2>2, <2>3 DEF With
  <2>5. e.t = "vanilla_memory"
    BY <2>4
  <2> QED  BY <1>2, <2>5
<1>11. CASE A = Events(id, "decision_taken", {d \in c.decisions \ p.decisions : d[1] \in Interesting},
                       LAMBDA d : [decision_id |-> d[1], cooldown_end_date |-> d[2]])
  <2>1. \E x : e = Event(id, "decision_taken", x)
    BY <1>1, <1>11, Zenon DEF Events
  <2> QED  BY <1>2, <1>3, <2>1
<1> QED  BY <1>1, <1>4, <1>5, <1>6, <1>7, <1>8, <1>9, <1>10, <1>11, Zenon

LEMMA WarsSeen ==
  ASSUME NEW id, NEW c, NEW prv, NEW curr, NEW e \in DiffWars(id, c, prv, curr), e.t \in DOMAIN Audited
  PROVE  SeesWar(id, prv, curr, e)
<1> DEFINE was == prv.wars.row
           is  == curr.wars.row
           gained == curr.wars.of[id] \ prv.wars.of[id]
           lost   == prv.wars.of[id] \ curr.wars.of[id]
           declared == {w \in gained \ DOMAIN was : id \in {is[w].attacker, is[w].defender}}
<1>1. \/ \E k \in declared : e = WarEvent(id, "war_declared", k, is)
      \/ \E t \in {"war_joined", "war_concluded", "war_left"} : \E x, r : e = With(id, t, x, r)
  BY Zenon DEF DiffWars, EventsWith, WarEvent
<1>2. ASSUME NEW t, NEW x, NEW r, e = With(id, t, x, r)
      PROVE  e.t = t
  BY <1>2 DEF With
<1>3. \E k \in declared : e = WarEvent(id, "war_declared", k, is)
  BY <1>1, <1>2, AuditedTypes
<1> QED  BY <1>3 DEF SeesWar

LEMMA ContractsSeen ==
  ASSUME NEW id, NEW c, NEW prv, NEW curr, NEW e \in DiffContracts(id, c, prv, curr)
  PROVE  SeesContract(id, prv, curr, e)
BY Zenon DEF DiffContracts, ContractEvents, Events, SeesContract

LEMMA ConstructionsSeen ==
  ASSUME NEW id, NEW c, NEW prv, NEW curr, NEW e \in DiffConstructions(id, c, prv, curr)
  PROVE  SeesBuilding(id, prv, curr, e)
BY Zenon DEF DiffConstructions, Events, SeesBuilding

LEMMA StreamsSeen ==
  ASSUME NEW id, NEW c, NEW prv, NEW curr, NEW e \in StreamDiffers(id, c, prv, curr), e.t \in DOMAIN Audited
  PROVE  \/ e \in DiffWars(id, c, prv, curr)
         \/ e \in DiffContracts(id, c, prv, curr)
         \/ e \in DiffConstructions(id, c, prv, curr)
<1> DEFINE Others == {"alliance_formed", "alliance_broken", "artifact_acquired", "artifact_lost",
                      "camp_companion_joined", "camp_companion_left", "dynasty_legacy_unlocked",
                      "splendor_increased", "epidemic_outbreak", "activity_completed",
                      "inspiration_sponsored", "domicile_moved"}
<1>1. e.t \notin Others
  BY AuditedTypes
<1>2. ASSUME NEW t, NEW x, NEW r, e = With(id, t, x, r)
      PROVE  e.t = t
  BY <1>2 DEF With
<1>3. e \notin DiffAlliances(id, c, prv, curr)
  BY <1>1 DEF DiffAlliances, SetDiffer, Events, Event, With
<1>4. e \notin DiffArtifacts(id, c, prv, curr) /\ e \notin DiffCourtPositions(id, c, prv, curr)
  BY <1>1, ArtifactsLiving, CourtLiving
<1>5. e \notin DiffDynasty(id, c, prv, curr)
  BY <1>1 DEF DiffDynasty, Events, Event, With
<1>6. e \notin DiffHappenings(id, c, prv, curr)
  BY <1>1 DEF DiffHappenings, SetDiffer, Events, Event, With
<1>7. e \notin DiffDomicile(id, c, prv, curr)
  BY <1>1 DEF DiffDomicile, Event, With
<1> QED  BY <1>3, <1>4, <1>5, <1>6, <1>7 DEF StreamDiffers

\* Every audited event of a diff is one of a differ that saw it happen.
LEMMA AuditSeen ==
  ASSUME NEW id, NEW prv, NEW curr, NEW e \in DiffTracked(id, prv, curr), e.t \in DOMAIN Audited
  PROVE  id \in DOMAIN prv.characters /\ id \in DOMAIN curr.characters /\ Seen(id, prv, curr, e)
<1>1. id \in DOMAIN curr.characters
  BY DEF DiffTracked
<1>2. id \in DOMAIN prv.characters
  <2>1. CASE id \notin DOMAIN prv.characters
    <3>1. e \in MakeDeath(id, curr.characters[id])
      BY <1>1, <2>1 DEF DiffTracked
    <3>2. PICK d, x, r : e = [c |-> id, t |-> "death", d |-> d, p |-> x, with |-> r]
      BY <3>1, DeathEvent
    <3> QED  BY <3>2, AuditedTypes
  <2> QED  BY <2>1
<1>0. PICK p, c : p = prv.characters[id] /\ c = curr.characters[id]
  OBVIOUS
<1>3. DiffTracked(id, prv, curr) =
        UNION {DiffOneCharacter(id, p, c, curr), DiffTitles(id, prv, curr),
               StreamDiffers(id, c, prv, curr), DiffTraits(id, p, c),
               DiffConcubines(id, p, c, curr), DiffModifiersAndPerks(id, p, c),
               DiffMiscarriage(id, p, c, curr.memories), DiffStateChanges(id, p, c)}
  BY <1>0, <1>1, <1>2, Zenon DEF DiffTracked
<1>4. ASSUME NEW t, NEW x, NEW r, e = With(id, t, x, r)
      PROVE  e.t = t
  BY <1>4 DEF With
<1>5. e \notin DiffTitles(id, prv, curr)
  BY TitlesLiving, AuditedTypes
<1>6. e \notin DiffTraits(id, p, c)
  BY AuditedTypes DEF DiffTraits, Events, Event, With
<1>7. e \notin DiffConcubines(id, p, c, curr)
  BY AuditedTypes DEF DiffConcubines, EventsWith, With
<1>8. e \notin DiffModifiersAndPerks(id, p, c)
  <2>1. ASSUME e \in DiffModifiersAndPerks(id, p, c)
        PROVE  \E x : \E t \in {"modifier_acquired", "perk_acquired", "lifestyle_committed"} : e = Event(id, t, x)
    BY <2>1, Zenon DEF DiffModifiersAndPerks, Events
  <2> QED  BY <1>4, <2>1, AuditedTypes DEF Event
<1>9. e \notin DiffStateChanges(id, p, c)
  BY AuditedTypes DEF DiffStateChanges, Event, With
<1>10. e \in DiffOneCharacter(id, p, c, curr) => SeesWedding(id, p, c, e) \/ SeesDivorce(id, p, c, e)
  BY OneCharacterSeen
<1>11. e \in DiffMiscarriage(id, p, c, curr.memories) => SeesMiscarriage(id, p, c, curr.memories, e)
  BY DEF DiffMiscarriage, Miscarriage, SeesMiscarriage
<1>12. e \in StreamDiffers(id, c, prv, curr) =>
         SeesWar(id, prv, curr, e) \/ SeesContract(id, prv, curr, e) \/ SeesBuilding(id, prv, curr, e)
  BY StreamsSeen, WarsSeen, ContractsSeen, ConstructionsSeen
<1>13. Seen(id, prv, curr, e)
  BY <1>0, <1>3, <1>5, <1>6, <1>7, <1>8, <1>9, <1>10, <1>11, <1>12 DEF Seen
<1> QED  BY <1>1, <1>2, <1>13

\* It is of something the world owes, and the only event a diff can make of it;
\* a building is told of the one who was building it.
TellsOwed(id, prv, curr, w, e) ==
  LET c == IF e.t = "building_completed" THEN None ELSE id
      x == Get(e.p, Audited[e.t])
  IN  /\ Owes(prv, w, c, e.t, x)
      /\ e = AuditEvent(id, prv, curr, e.t, x)
      /\ e.t = "building_completed" => id = prv.constructions.row[Site].character

LEMMA AuditOwed ==
  ASSUME NEW w, Orderly(w), NEW prv, Past(prv, w), Indexed(prv), NEW curr, Reads(curr, w), Indexed(curr),
         NEW id \in Char, id \in DOMAIN prv.characters, id \in DOMAIN curr.characters,
         NEW e, Seen(id, prv, curr, e)
  PROVE  TellsOwed(id, prv, curr, w, e)
<1>1. PICK p, c : p = prv.characters[id] /\ c = curr.characters[id]
  OBVIOUS
<1>2. /\ c.family.spouses = w.spouses[id] /\ c.family.former_spouses = w.former[id]
      /\ c.family.primary_spouse = w.primary[id]
      /\ c.traits = w.traits[id] /\ c.memories = w.memories[id] \cap Records(w.memory)
  BY <1>1 DEF Reads, ReadsPerson
<1>3. ASSUME NEW t, NEW y, NEW r, e = With(id, t, y, r)
      PROVE  e.t = t /\ e.p = y
  BY <1>3 DEF With
<1>4. CASE SeesWedding(id, p, c, e)
  <2>1. PICK s \in NewSpouses(p, c) : e = With(id, "marriage", [spouse_character_id |-> s], {<<"spouse", s>>})
    BY <1>4 DEF SeesWedding
  <2>2. s \in w.spouses[id] \ p.family.spouses
    BY <1>2 DEF NewSpouses, Orderly
  <2>3. e.t = "marriage" /\ e.p = [spouse_character_id |-> s]
    BY <1>3, <2>1
  <2>4. Get(e.p, Audited[e.t]) = s
    BY <2>3 DEF Get, Audited
  <2>5. Owes(prv, w, id, "marriage", s)
    BY <1>1, <2>2 DEF Owes, Married
  <2>6. e = AuditEvent(id, prv, curr, "marriage", s)
    BY <2>1 DEF AuditEvent
  <2> QED  BY <2>3, <2>4, <2>5, <2>6 DEF TellsOwed
<1>5. CASE SeesDivorce(id, p, c, e)
  <2>1. PICK s \in c.family.former_spouses \ p.family.former_spouses :
          e = With(id, "divorce", [former_spouse_character_id |-> s], {<<"former_spouse", s>>})
    BY <1>5 DEF SeesDivorce
  <2>2. e.t = "divorce" /\ e.p = [former_spouse_character_id |-> s]
    BY <1>3, <2>1
  <2>3. Get(e.p, Audited[e.t]) = s
    BY <2>2 DEF Get, Audited
  <2>4. Owes(prv, w, id, "divorce", s)
    BY <1>1, <1>2 DEF Owes, Divorced
  <2>5. e = AuditEvent(id, prv, curr, "divorce", s)
    BY <2>1 DEF AuditEvent
  <2> QED  BY <2>2, <2>3, <2>4, <2>5 DEF TellsOwed
<1>6. CASE SeesWar(id, prv, curr, e)
  <2>1. PICK k \in (curr.wars.of[id] \ prv.wars.of[id]) \ DOMAIN prv.wars.row :
          /\ id \in {curr.wars.row[k].attacker, curr.wars.row[k].defender}
          /\ e = WarEvent(id, "war_declared", k, curr.wars.row)
    BY <1>6 DEF SeesWar
  <2>2. e.t = "war_declared" /\ e.p = WarSidePayload(k, curr.wars.row[k], id)
    BY <1>3, <2>1 DEF WarEvent
  <2>3. Get(e.p, Audited[e.t]) = k
    BY <2>2 DEF Get, Audited, WarSidePayload
  <2>4. k \in DOMAIN curr.wars.row
    BY DEF Indexed
  <2>5. k \in Records(w.wars) /\ curr.wars.row[k] = w.wars[k]
    BY <2>4 DEF Reads, Restrict
  <2>6. Owes(prv, w, id, "war_declared", k)
    BY <2>1, <2>5 DEF Owes, Declared
  <2>7. e = AuditEvent(id, prv, curr, "war_declared", k)
    BY <2>1 DEF AuditEvent
  <2> QED  BY <2>2, <2>3, <2>6, <2>7 DEF TellsOwed
<1>7. CASE SeesContract(id, prv, curr, e)
  <2>1. PICK k \in prv.contracts.of[id] \cup curr.contracts.of[id] :
          /\ k \in DOMAIN curr.contracts.row /\ curr.contracts.row[k].status \in Terminal
          /\ ~(k \in DOMAIN prv.contracts.row /\ prv.contracts.row[k].status \in Terminal)
          /\ e = Event(id, "contract_completed", [outcome |-> curr.contracts.row[k].status,
                                                  employer_id |-> curr.contracts.row[k].employer])
    BY <1>7 DEF SeesContract
  <2>2. k = 1
    BY <2>1 DEF Indexed
  <2>3. PICK s : s = curr.contracts.row[1].status
    OBVIOUS
  <2>4. /\ e.t = "contract_completed"
        /\ e.p = [outcome |-> s, employer_id |-> curr.contracts.row[1].employer]
    BY <1>3, <2>1, <2>2, <2>3 DEF Event
  <2>5. Get(e.p, Audited[e.t]) = s
    BY <2>4 DEF Get, Audited
  <2>6. 1 \in Records(w.contracts) /\ curr.contracts.row[1] = w.contracts[1]
    BY <2>1, <2>2 DEF Reads, Restrict
  <2>7. w.contracts[1].owner = id
    <3>1. CASE 1 \in curr.contracts.of[id]
      BY <2>6, <3>1 DEF Indexed
    <3>2. CASE 1 \in prv.contracts.of[id]
      <4>1. 1 \in DOMAIN prv.contracts.row /\ prv.contracts.row[1].owner = id
        BY <3>2 DEF Indexed
      <4>2. w.contracts # << >>
        BY <2>6 DEF Records
      <4> QED  BY <4>1, <4>2 DEF Past
    <3> QED  BY <2>1, <2>2, <3>1, <3>2
  <2>8. Owes(prv, w, id, "contract_completed", s)
    BY <2>1, <2>2, <2>3, <2>6, <2>7 DEF Owes, Ended
  <2>9. e = AuditEvent(id, prv, curr, "contract_completed", s)
    BY <2>1, <2>2 DEF AuditEvent
  <2> QED  BY <2>4, <2>5, <2>8, <2>9 DEF TellsOwed
<1>8. CASE SeesBuilding(id, prv, curr, e)
  <2>1. PICK k \in (prv.constructions.of[id] \ curr.constructions.of[id]) \cap DOMAIN curr.constructions.built :
          /\ curr.constructions.built[k] = prv.constructions.row[k].building
          /\ e = Event(id, "building_completed", [building |-> prv.constructions.row[k].building,
                                                  province_id |-> k[1], slot_index |-> k[2]])
    BY <1>8 DEF SeesBuilding
  <2>2. k = Site /\ Site \in DOMAIN prv.constructions.row /\ prv.constructions.row[Site].character = id
    BY DEF Indexed
  <2>3. PICK b : b = prv.constructions.row[Site].building
    OBVIOUS
  <2>4. e.t = "building_completed" /\ e.p = [building |-> b, province_id |-> Site[1], slot_index |-> Site[2]]
    BY <1>3, <2>1, <2>2, <2>3 DEF Event
  <2>5. Get(e.p, Audited[e.t]) = b
    BY <2>4 DEF Get, Audited
  <2>6. w.buildings[Site] = b
    BY <2>1, <2>2, <2>3 DEF Reads, Restrict
  <2>7. Owes(prv, w, None, "building_completed", b)
    BY <2>2, <2>3, <2>6 DEF Owes, Stands
  <2>8. e = AuditEvent(id, prv, curr, "building_completed", b)
    BY <2>1, <2>2 DEF AuditEvent
  <2> QED  BY <2>2, <2>4, <2>5, <2>7, <2>8 DEF TellsOwed
<1>9. CASE SeesMiscarriage(id, p, c, curr.memories, e)
  <2>1. /\ Pregnant \in p.traits \ c.traits
        /\ ~\E m \in c.memories \ p.memories : curr.memories[m].type = "child_born"
        /\ e = With(id, "miscarriage", [assumed_father_id |-> c.family.primary_spouse],
                    {<<"assumed_father", c.family.primary_spouse>>})
    BY <1>9 DEF SeesMiscarriage
  <2>2. e.t = "miscarriage" /\ e.p = [assumed_father_id |-> c.family.primary_spouse]
    BY <1>3, <2>1
  <2>3. Get(e.p, Audited[e.t]) = None
    BY <2>2 DEF Get, Audited
  <2>4. \A m \in Records(w.memory) : curr.memories[m] = w.memory[m]
    BY DEF Reads, Restrict
  <2>5. Owes(prv, w, id, "miscarriage", None)
    BY <1>1, <1>2, <2>1, <2>4 DEF Owes, Miscarried
  <2>6. e = AuditEvent(id, prv, curr, "miscarriage", None)
    BY <1>1, <2>1 DEF AuditEvent
  <2> QED  BY <2>2, <2>3, <2>5, <2>6 DEF TellsOwed
<1> QED  BY <1>1, <1>4, <1>5, <1>6, <1>7, <1>8, <1>9 DEF Seen

-----------------------------------------------------------------------------
(* Nothing is invented.                                                    *)

\* A tick tells at most one event of a happening, and only if it is owed.
LEMMA TickTold ==
  ASSUME Atoms, ToldInv, Tick, NEW curr, curr = ParseSave(Save(world)),
         NEW c, NEW t \in DOMAIN Audited, NEW x
  PROVE  \E y : ToldOf(db'.events, c, t, x)
                 \subseteq ToldOf(db.events, c, t, x)
                             \cup (IF Owes(prev, world, c, t, x) THEN {y} ELSE {})
<1>1. /\ WorldOK(world) /\ Orderly(world) /\ prev # None /\ Past(prev, world) /\ Indexed(prev)
      /\ \A z : z \in db'.events <=>
           \/ z \in db.events
           \/ \E id \in Tracked : \E e \in DiffTracked(id, prev, curr) : z = Stored(e, curr.date)
  BY TickStores DEF ToldInv
<1>2. Reads(curr, world) /\ Indexed(curr)
  BY <1>1, SaveReads
<1>3. PICK teller : teller = IF t = "building_completed" THEN prev.constructions.row[Site].character ELSE c
  OBVIOUS
<1>4. PICK y : y = Stored(AuditEvent(teller, prev, curr, t, x), curr.date)
  OBVIOUS
<1>5. ASSUME NEW z \in ToldOf(db'.events, c, t, x), z \notin db.events
      PROVE  Owes(prev, world, c, t, x) /\ z = y
  <2>1. /\ z \in db'.events /\ z.t = t
        /\ (IF z.t = "building_completed" THEN None ELSE z.c) = c
        /\ Get(z.p, Audited[z.t]) = x
    BY DEF ToldOf
  <2>2a. PICK id \in Tracked : \E e \in DiffTracked(id, prev, curr) : z = Stored(e, curr.date)
    BY <1>1, <1>5, <2>1
  <2>2. PICK e \in DiffTracked(id, prev, curr) : z = Stored(e, curr.date)
    BY <2>2a
  <2>3. IsEvent(e) /\ e.c = id /\ id \in Char
    BY TrackedEvent, TrackedAssumption
  <2>4. z.c = id /\ z.t = e.t /\ z.p = Restrict(e.p, {f \in DOMAIN e.p : e.p[f] # None})
    BY <2>2, <2>3, StoredShape
  <2>5. Get(z.p, Audited[t]) = Get(e.p, Audited[t])
    BY <2>4 DEF Get, Restrict
  <2>6. TellsOwed(id, prev, curr, world, e)
    <3>1. id \in DOMAIN prev.characters /\ id \in DOMAIN curr.characters /\ Seen(id, prev, curr, e)
      BY <2>1, <2>4, AuditSeen
    <3> QED  BY <1>1, <1>2, <2>3, <3>1, AuditOwed
  <2>7. e.t = t /\ (IF t = "building_completed" THEN None ELSE id) = c /\ Get(e.p, Audited[t]) = x
    BY <2>1, <2>4, <2>5
  <2>8. /\ Owes(prev, world, c, t, x)
        /\ e = AuditEvent(id, prev, curr, t, x)
        /\ t = "building_completed" => id = prev.constructions.row[Site].character
    BY <2>6, <2>7 DEF TellsOwed
  <2>9. id = teller
    BY <1>3, <2>7, <2>8
  <2> QED  BY <1>4, <2>2, <2>8, <2>9
<1>6. ASSUME NEW z \in ToldOf(db'.events, c, t, x), z \in db.events
      PROVE  z \in ToldOf(db.events, c, t, x)
  BY <1>6 DEF ToldOf
<1> QED  BY <1>5, <1>6

\* One more at most counts one more at most.
LEMMA OneMore ==
  ASSUME NEW old, IsFiniteSet(old), NEW new, NEW y, NEW owed \in BOOLEAN,
         new \subseteq old \cup (IF owed THEN {y} ELSE {})
  PROVE  IsFiniteSet(new) /\ Cardinality(new) <= Cardinality(old) + (IF owed THEN 1 ELSE 0)
<1>1. PICK n : n = Cardinality(old)
  OBVIOUS
<1>2. n \in Nat
  BY <1>1, FS_CardinalityType
<1>3. CASE owed
  <2>1. IsFiniteSet(old \cup {y}) /\ Cardinality(old \cup {y}) = (IF y \in old THEN n ELSE n + 1)
    BY <1>1, FS_AddElement
  <2>2. new \subseteq old \cup {y}
    BY <1>3
  <2>3. IsFiniteSet(new) /\ Cardinality(new) <= Cardinality(old \cup {y})
    BY <2>1, <2>2, FS_Subset
  <2>4. Cardinality(new) \in Nat
    BY <2>3, FS_CardinalityType
  <2>5. Cardinality(new) <= n + 1
    BY <1>2, <2>1, <2>3, <2>4
  <2> QED  BY <1>1, <1>3, <2>3, <2>5
<1>4. CASE ~owed
  <2>1. new \subseteq old
    BY <1>4
  <2>2. IsFiniteSet(new) /\ Cardinality(new) <= Cardinality(old)
    BY <2>1, FS_Subset
  <2>3. Cardinality(new) \in Nat
    BY <2>2, FS_CardinalityType
  <2>4. Cardinality(new) <= n + 0
    BY <1>1, <1>2, <2>2, <2>3
  <2> QED  BY <1>1, <1>4, <2>2, <2>4
<1> QED  BY <1>3, <1>4

\* Once the save is the baseline, what was told is accounted for by itself.
LEMMA SettledTold ==
  ASSUME NEW events, NEW snap, NEW w, NEW c, NEW t, NEW x,
         IsFiniteSet(ToldOf(events, c, t, x)), Done(w, <<c, t, x>>) \in Nat,
         Cardinality(ToldOf(events, c, t, x)) <= Done(w, <<c, t, x>>), ~Owes(snap, w, c, t, x)
  PROVE  Accounted(events, snap, w, c, t, x)
<1>1. Cardinality(ToldOf(events, c, t, x)) \in Nat
  BY FS_CardinalityType
<1> QED  BY <1>1 DEF Accounted

LEMMA World0Orderly ==
  ASSUME Atoms
  PROVE  Orderly(World0) /\ Orderly(AtWar)
<1>1. /\ Audit \subseteq DOMAIN World0
      /\ World0.done = EmptyBag
      /\ World0.spouses = [c \in Char |-> {}] /\ World0.former = [c \in Char |-> {}]
      /\ World0.primary = [c \in Char |-> None] /\ World0.traits = [c \in Char |-> {}]
      /\ World0.memories = [c \in Char |-> {}]
      /\ World0.wars = <<Junk, Junk>> /\ World0.contracts = <<Junk>>
      /\ World0.sites = [s \in {Site} |-> Junk] /\ World0.buildings = [s \in {Site} |-> Junk]
  BY DEF World0, Audit
<1>2. \A h : Done(World0, h) = 0
  BY <1>1 DEF Done, EmptyBag, SetToBag
<1>3. Records(World0.wars) = {} /\ Records(World0.contracts) = {} /\ DOMAIN World0.contracts = {1}
  BY <1>1 DEF Records
<1>4. Orderly(World0)
  BY <1>1, <1>2, <1>3 DEF Orderly
<1>5. PICK c, d : AtWar = [World0 EXCEPT !.wars[1] = [attacker |-> c, defender |-> d, great |-> TRUE,
                                                      attackers |-> {c}, defenders |-> {d}]]
  BY Zenon DEF AtWar
<1>6. PICK r : r = [attacker |-> c, defender |-> d, great |-> TRUE, attackers |-> {c}, defenders |-> {d}]
  OBVIOUS
<1>7. AtWar.wars = [World0.wars EXCEPT ![1] = r]
  BY <1>1, <1>5, <1>6 DEF Audit
<1>8. \A k \in Records(AtWar.wars) : AtWar.wars[k] = r
  BY <1>1, <1>7 DEF Records
<1>9. \A k \in Records(AtWar.wars) : {"attacker", "defender", "attackers"} \subseteq DOMAIN AtWar.wars[k]
  BY <1>6, <1>8
<1>10. DOMAIN AtWar = DOMAIN World0 /\ \A f \in DOMAIN World0 \ {"wars"} : AtWar[f] = World0[f]
  BY <1>5
<1>11. /\ AtWar.spouses = World0.spouses /\ AtWar.former = World0.former
       /\ AtWar.primary = World0.primary /\ AtWar.traits = World0.traits
       /\ AtWar.memories = World0.memories /\ AtWar.contracts = World0.contracts
       /\ AtWar.sites = World0.sites /\ AtWar.buildings = World0.buildings /\ AtWar.done = World0.done
  BY <1>1, <1>10 DEF Audit
<1>12. \A h : Done(AtWar, h) = Done(World0, h)
  BY <1>11 DEF Done
<1>13. Orderly(AtWar)
  BY <1>4, <1>9, <1>10, <1>11, <1>12 DEF Orderly
<1> QED  BY <1>4, <1>13

\* The fields of a snapshot the audit reads, of some of its characters.
LEMMA SameReads ==
  ASSUME NEW s, NEW w, Reads(s, w), Indexed(s), NEW n,
         DOMAIN n.characters \subseteq DOMAIN s.characters,
         \A x \in DOMAIN n.characters : n.characters[x] = s.characters[x],
         /\ n.memories = s.memories /\ n.wars = s.wars /\ n.contracts = s.contracts
         /\ n.constructions = s.constructions
  PROVE  Reads(n, w) /\ Indexed(n)
<1>1. \A c \in Char \cap DOMAIN n.characters : ReadsPerson(n, w, c)
  BY DEF Reads, ReadsPerson
<1>2. Reads(n, w)
  BY <1>1 DEF Reads
<1>3. Indexed(n)
  BY DEF Indexed
<1> QED  BY <1>2, <1>3

LEMMA InitTold ==
  ASSUME Atoms, None \notin Terminal, Init
  PROVE  ToldInv
<1>1. /\ facet \in Facets /\ db = [rows |-> db.rows, events |-> db.events] /\ db.events = {}
      /\ world \in {World0, AtWar}
  BY DEF Init
<1>2. WorldOK(world) /\ Orderly(world)
  BY <1>1, World0OK, World0Orderly
<1>3. ASSUME prev # None
      PROVE  Past(prev, world) /\ Indexed(prev) /\ \A c, t, x : ~Owes(prev, world, c, t, x)
  <2>1. PICK s : s = ParseSave(Save(World0))
    OBVIOUS
  <2>2. world = World0 /\ prev = [s EXCEPT !.characters = Restrict(@, Char \ stale)]
    BY <1>3, <2>1, OldBaseline DEF Init, LoadBaseline
  <2>3. Reads(s, World0) /\ Indexed(s)
    BY <2>1, World0OK, World0Orderly, SaveReads
  <2>4. DOMAIN s.characters = Char
    BY <2>1, World0OK, Snapshot
  <2>5. DOMAIN s = {"date", "characters", "memories", "alliances", "wars", "artifacts", "dynasties",
                    "epidemics", "constructions", "activities", "inspirations", "contracts", "court",
                    "titles", "domiciles"}
    BY <2>1 DEF ParseSave
  <2>6. prev.characters = [c \in Char \ stale |-> s.characters[c]]
    BY <2>2, <2>5 DEF Restrict
  <2>7. /\ prev.memories = s.memories /\ prev.wars = s.wars /\ prev.contracts = s.contracts
        /\ prev.constructions = s.constructions
    BY <2>2, <2>5
  <2>8. Reads(prev, World0) /\ Indexed(prev)
    BY <2>3, <2>4, <2>6, <2>7, SameReads
  <2> QED  BY <2>2, <2>8, World0Orderly, ReadsSettled
<1>4. ASSUME NEW c, NEW t \in DOMAIN Audited, NEW x
      PROVE  Accounted(db.events, prev, world, c, t, x)
  <2>1. ToldOf(db.events, c, t, x) = {}
    BY <1>1 DEF ToldOf
  <2>2. Done(world, <<c, t, x>>) \in Nat
    BY <1>2 DEF Orderly
  <2>3. ~(prev # None /\ Owes(prev, world, c, t, x))
    BY <1>3
  <2> QED  BY <2>1, <2>2, <2>3, FS_EmptySet DEF Accounted
<1> QED  BY <1>1, <1>2, <1>3, <1>4 DEF ToldInv

\* What happens may be told later; what was told stays accounted for.
LEMMA HonestAccounted ==
  ASSUME NEW events, NEW prv, NEW w, NEW v, NEW c, NEW t \in DOMAIN Audited, NEW x,
         Accounted(events, prv, w, c, t, x),
         Done(w, <<c, t, x>>) \in Nat, Done(v, <<c, t, x>>) \in Nat,
         Done(w, <<c, t, x>>) <= Done(v, <<c, t, x>>),
         prv # None => (Owes(prv, v, c, t, x) => \/ Owes(prv, w, c, t, x)
                                                \/ Done(w, <<c, t, x>>) < Done(v, <<c, t, x>>))
  PROVE  Accounted(events, prv, v, c, t, x)
<1>1. PICK n, i, j : n = Cardinality(ToldOf(events, c, t, x)) /\ i = Done(w, <<c, t, x>>)
                     /\ j = Done(v, <<c, t, x>>)
  OBVIOUS
<1>2. n \in Nat /\ i \in Nat /\ j \in Nat /\ i <= j /\ IsFiniteSet(ToldOf(events, c, t, x))
  BY <1>1, FS_CardinalityType DEF Accounted
<1>3. CASE prv # None /\ Owes(prv, v, c, t, x)
  <2>1. CASE Owes(prv, w, c, t, x)
    <3>1. n + 1 <= i
      BY <1>1, <1>3, <2>1 DEF Accounted
    <3>2. n + 1 <= j
      BY <1>2, <3>1
    <3> QED  BY <1>1, <1>2, <1>3, <3>2 DEF Accounted
  <2>2. CASE i < j
    <3>1. n <= i
      BY <1>1, <1>2 DEF Accounted
    <3>2. n + 1 <= j
      BY <1>2, <2>2, <3>1
    <3> QED  BY <1>1, <1>2, <1>3, <3>2 DEF Accounted
  <2> QED  BY <1>1, <1>3, <2>1, <2>2
<1>4. CASE ~(prv # None /\ Owes(prv, v, c, t, x))
  <2>1. n <= i
    BY <1>1, <1>2 DEF Accounted
  <2>2. n + 0 <= j
    BY <1>2, <2>1
  <2> QED  BY <1>1, <1>2, <1>4, <2>2 DEF Accounted
<1> QED  BY <1>3, <1>4

LEMMA PlayTold ==
  ASSUME Atoms, None \notin Terminal, ToldInv, Play
  PROVE  ToldInv'
<1>1. /\ facet \in Facets /\ WorldOK(world) /\ Orderly(world)
      /\ db = [rows |-> db.rows, events |-> db.events]
  BY DEF ToldInv
<1>2. WorldOK(world') /\ UNCHANGED <<facet, stale, prev, first, db>>
  BY <1>1, PlayWorld
<1>3. PICK v \in Moves(world) : world' = [v EXCEPT !.date = @ + 1]
  BY DEF Play
<1>4. PICK prv : /\ Past(prv, world)
                 /\ prev # None => prv = prev
  <2>1. CASE prev # None
    BY <2>1 DEF ToldInv
  <2>2. CASE prev = None
    <3>1. Past(ParseSave(Save(world)), world)
      BY <1>1, SaveReads, ReadsSettled
    <3> QED  BY <2>2, <3>1
  <2> QED  BY <2>1, <2>2
<1>5. Good(prv, world, v)
  BY <1>1, <1>3, <1>4, MovesGood
<1>6. Quiet(v, world')
  BY <1>3, <1>5 DEF Good, Orderly, Quiet, Audit
<1>7. Good(prv, v, world')
  BY <1>5, <1>6, QuietGood DEF Good
<1>8. ASSUME NEW c, NEW t \in DOMAIN Audited, NEW x
      PROVE  Accounted(db.events, prev, world', c, t, x)
  <2> DEFINE h == <<c, t, x>>
  <2>1. Accounted(db.events, prev, world, c, t, x)
    BY DEF ToldInv
  <2>2. Done(world, h) \in Nat /\ Done(v, h) \in Nat /\ Done(world', h) \in Nat
    BY <1>1, <1>5, <1>7 DEF Good, Orderly
  <2>3. /\ Done(world, h) <= Done(v, h)
        /\ Owes(prv, v, c, t, x) => Owes(prv, world, c, t, x) \/ Done(world, h) < Done(v, h)
    BY <1>5 DEF Good, Honest
  <2>4. /\ Done(v, h) <= Done(world', h)
        /\ Owes(prv, world', c, t, x) => Owes(prv, v, c, t, x) \/ Done(v, h) < Done(world', h)
    BY <1>7 DEF Good, Honest
  <2>5. prev # None =>
          /\ Owes(prev, v, c, t, x) => Owes(prev, world, c, t, x) \/ Done(world, h) < Done(v, h)
          /\ Owes(prev, world', c, t, x) => Owes(prev, v, c, t, x) \/ Done(v, h) < Done(world', h)
    BY <1>4, <2>3, <2>4
  <2>6. Accounted(db.events, prev, v, c, t, x)
    BY <2>1, <2>2, <2>3, <2>5, HonestAccounted
  <2> QED  BY <2>2, <2>4, <2>5, <2>6, HonestAccounted
<1>9. Orderly(world') /\ (prev # None => Past(prev, world'))
  BY <1>4, <1>7 DEF Good
<1> QED  BY <1>1, <1>2, <1>8, <1>9 DEF ToldInv

LEMMA NextTold ==
  ASSUME Atoms, None \notin Terminal, ToldInv, [Next]_vars
  PROVE  ToldInv'
<1>1. /\ facet \in Facets /\ WorldOK(world) /\ Orderly(world)
      /\ db = [rows |-> db.rows, events |-> db.events]
      /\ \A h : Done(world, h) \in Nat
  BY DEF ToldInv, Orderly
<1>2. PICK curr : curr = ParseSave(Save(world))
  OBVIOUS
<1>3. /\ curr # None /\ Past(curr, world) /\ Indexed(curr)
      /\ \A c, t, x : ~Owes(curr, world, c, t, x)
  BY <1>1, <1>2, SnapshotIsRecord, SaveReads, ReadsSettled
<1>4. CASE Play
  BY <1>4, PlayTold
<1>5. CASE Adopt
  <2>1. prev = None /\ prev' = curr /\ UNCHANGED <<world, facet, db>>
    BY <1>2, <1>5 DEF Adopt
  <2>2. ASSUME NEW c, NEW t \in DOMAIN Audited, NEW x
        PROVE  Accounted(db.events, curr, world, c, t, x)
    <3>1. ToldOf(db.events, c, t, x) = {}
      BY <2>1 DEF ToldInv, ToldOf
    <3> QED  BY <1>1, <1>3, <3>1, FS_EmptySet DEF Accounted
  <2> QED  BY <1>1, <1>3, <2>1, <2>2 DEF ToldInv
<1>6. CASE Tick
  <2>1. prev # None /\ prev' = curr /\ UNCHANGED <<world, facet, stale, first>>
    BY <1>1, <1>2, <1>6, TickStores
  <2>2. db' = [rows |-> db'.rows, events |-> db'.events]
    BY <1>6 DEF Tick, IngestDiffEvents
  <2>3. ASSUME NEW c, NEW t \in DOMAIN Audited, NEW x
        PROVE  Accounted(db'.events, curr, world, c, t, x)
    <3>1. PICK y : ToldOf(db'.events, c, t, x)
                     \subseteq ToldOf(db.events, c, t, x)
                                 \cup (IF Owes(prev, world, c, t, x) THEN {y} ELSE {})
      BY <1>2, <1>6, TickTold
    <3>2. PICK owed \in BOOLEAN : owed <=> Owes(prev, world, c, t, x)
      OBVIOUS
    <3>3. /\ IsFiniteSet(ToldOf(db.events, c, t, x))
          /\ Cardinality(ToldOf(db.events, c, t, x)) + (IF owed THEN 1 ELSE 0) <= Done(world, <<c, t, x>>)
      BY <2>1, <3>2 DEF ToldInv, Accounted
    <3>4. /\ IsFiniteSet(ToldOf(db'.events, c, t, x))
          /\ Cardinality(ToldOf(db'.events, c, t, x))
               <= Cardinality(ToldOf(db.events, c, t, x)) + (IF owed THEN 1 ELSE 0)
      BY <3>1, <3>2, <3>3, OneMore
    <3>5. PICK n, m, k, j : /\ n = Cardinality(ToldOf(db.events, c, t, x))
                            /\ m = Cardinality(ToldOf(db'.events, c, t, x))
                            /\ k = (IF owed THEN 1 ELSE 0) /\ j = Done(world, <<c, t, x>>)
      OBVIOUS
    <3>6. n \in Nat /\ m \in Nat /\ k \in Nat /\ j \in Nat
      BY <1>1, <3>3, <3>4, <3>5, FS_CardinalityType
    <3>7. m <= j
      BY <3>3, <3>4, <3>5, <3>6
    <3> QED  BY <1>1, <1>3, <3>4, <3>5, <3>7, SettledTold
  <2> QED  BY <1>1, <1>3, <2>1, <2>2, <2>3 DEF ToldInv
<1>7. CASE UNCHANGED vars
  BY <1>7 DEF vars, ToldInv
<1> QED  BY <1>4, <1>5, <1>6, <1>7 DEF Next

\* Nothing is told more often than it happened, in any game: a promoted spouse
\* is no wedding, a birth no miscarriage, a cancelled building is not built, a
\* contract ends once, and a war that was on before the baseline is not declared
\* (diff_snapshots, _diff_one_character, _diff_miscarriage, _diff_wars,
\* _diff_contracts, _diff_constructions, load_baseline).
THEOREM NothingEverInvented ==
  ASSUME Atoms, None \notin Terminal
  PROVE  Spec => []NothingInvented
<1> DEFINE happening(e) == <<IF e.t = "building_completed" THEN None ELSE e.c, e.t, Get(e.p, Audited[e.t])>>
           told == {e \in db.events : e.t \in DOMAIN Audited}
<1>1. ToldInv => NothingInvented
  <2> SUFFICES ASSUME ToldInv, NEW e \in told
               PROVE  /\ happening(e) \in DOMAIN world.done
                      /\ Cardinality({a \in told : happening(a) = happening(e)}) <= world.done[happening(e)]
    BY Zenon DEF NothingInvented
  <2>1. PICK c, t, x : /\ c = (IF e.t = "building_completed" THEN None ELSE e.c)
                       /\ t = e.t /\ x = Get(e.p, Audited[e.t])
    OBVIOUS
  <2>2. happening(e) = <<c, t, x>> /\ t \in DOMAIN Audited
    BY <2>1
  <2>3. {a \in told : happening(a) = <<c, t, x>>} = ToldOf(db.events, c, t, x)
    BY <2>2 DEF ToldOf
  <2>4. e \in ToldOf(db.events, c, t, x)
    BY <2>1 DEF ToldOf
  <2>5. PICK n, k : n = Cardinality(ToldOf(db.events, c, t, x)) /\ k = Done(world, <<c, t, x>>)
    OBVIOUS
  <2>6. Accounted(db.events, prev, world, c, t, x) /\ k \in Nat
    BY <2>2, <2>5 DEF ToldInv, Orderly
  <2>7. IsFiniteSet(ToldOf(db.events, c, t, x)) /\ n \in Nat
    BY <2>5, <2>6, FS_CardinalityType DEF Accounted
  <2>8. n # 0
    BY <2>4, <2>5, <2>7, FS_EmptySet
  <2>9. n + (IF prev # None /\ Owes(prev, world, c, t, x) THEN 1 ELSE 0) <= k
    BY <2>5, <2>6 DEF Accounted
  <2>10. n <= k /\ k # 0
    BY <2>6, <2>7, <2>8, <2>9
  <2>11. <<c, t, x>> \in DOMAIN world.done /\ world.done[<<c, t, x>>] = k
    BY <2>5, <2>10 DEF Done
  <2> HIDE DEF happening, told
  <2> QED  BY <2>2, <2>3, <2>5, <2>10, <2>11
<1>2. Init => ToldInv
  BY InitTold
<1>3. ToldInv /\ [Next]_vars => ToldInv'
  BY NextTold
<1> QED  BY <1>1, <1>2, <1>3, PTL DEF Spec

-----------------------------------------------------------------------------
(* Whom the line of an event speaks of.                                    *)

\* The types whose line can show no bare id.
Silent == DOMAIN OnlyIfNamed \cup NobodyElse \cup NobodyElseStates

\* The line of e looks x up, and shows the id where x has no name.
Looks(e, x) ==
  \/ e.t = "vanilla_memory" /\ x \in Range(e.p.participants)
  \/ /\ e.t \in DOMAIN NamedOrId
     /\ x = Get(e.p, NamedOrId[e.t]) /\ x # None
  \/ /\ e.t \in DOMAIN PayloadNameFirst
     /\ x = Get(e.p, PayloadNameFirst[e.t][1]) /\ x # None
     /\ Get(e.p, PayloadNameFirst[e.t][2]) = None

\* An event with a renderer and the fields it reads.
Renderable(e) ==
  /\ e.t \in Renderers
  /\ "" \notin DOMAIN e.p
  /\ e.t = "vanilla_memory" => "participants" \in DOMAIN e.p /\ e.p.participants # None

\* Whoever of a snapshot the line looks up is a participant of the event.
Introduced(e, snap) ==
  \A x \in DOMAIN snap.characters : Looks(e, x) /\ x # None => \E r \in e.with : r[2] = x

Spoken(e, curr) == Renderable(e) /\ Introduced(e, curr)

LEMMA SilentTypeSpoken ==
  ASSUME NEW e, NEW curr, e.t \in Silent, "" \notin DOMAIN e.p
  PROVE  Spoken(e, curr)
<1>1. e.t \in Renderers
  BY DEF Silent, Renderers
<1>2. e.t \notin DOMAIN NamedOrId /\ e.t \notin DOMAIN PayloadNameFirst /\ e.t # "vanilla_memory"
  BY DEF Silent, OnlyIfNamed, NobodyElse, NobodyElseStates, NamedOrId, PayloadNameFirst
<1> QED  BY <1>1, <1>2 DEF Spoken, Renderable, Introduced, Looks

LEMMA SilentSpoken ==
  ASSUME NEW id, NEW x, NEW r, NEW curr, NEW t \in Silent, "" \notin DOMAIN x, NEW e,
         e = Event(id, t, x) \/ e = With(id, t, x, r)
  PROVE  Spoken(e, curr)
<1>1. e.t = t /\ e.p = x
  <2>1. CASE e = Event(id, t, x)
    BY <2>1 DEF Event, With
  <2>2. CASE e = With(id, t, x, r)
    BY <2>2 DEF With
  <2> QED  BY <2>1, <2>2
<1> QED  BY <1>1, SilentTypeSpoken

\* One whose line looks a single participant up.
LEMMA NamedSpoken ==
  ASSUME NEW x, NEW curr, NEW t \in DOMAIN NamedOrId, NEW e, NEW role, NEW k,
         e.t = t, e.p = x, k = None \/ <<role, k>> \in e.with, "" \notin DOMAIN x,
         NamedOrId[t] \in DOMAIN x, x[NamedOrId[t]] = k
  PROVE  Spoken(e, curr)
<1>1. t \in Renderers
  BY DEF Renderers
<1>2. t \notin DOMAIN PayloadNameFirst /\ t # "vanilla_memory"
  BY DEF NamedOrId, PayloadNameFirst
<1>3. ASSUME NEW y, Looks(e, y)  PROVE  \E s \in e.with : s[2] = y
  <2>1. y = Get(x, NamedOrId[t]) /\ y # None
    BY <1>2, <1>3 DEF Looks
  <2>2. y = k
    BY <2>1 DEF Get
  <2>3. <<role, y>> \in e.with /\ <<role, y>>[2] = y
    BY <2>1, <2>2
  <2> QED  BY <2>3
<1> QED  BY <1>1, <1>2, <1>3 DEF Spoken, Renderable, Introduced

\* One whose line prefers the name the payload carries.
LEMMA InlineSpoken ==
  ASSUME NEW id, NEW x, NEW curr, NEW t \in DOMAIN PayloadNameFirst, NEW e,
         e.t = t, e.p = x, "" \notin DOMAIN x,
         PayloadNameFirst[t][1] \in DOMAIN x, PayloadNameFirst[t][2] \in DOMAIN x,
         x[PayloadNameFirst[t][2]] = Known(x[PayloadNameFirst[t][1]], curr)
  PROVE  Spoken(e, curr)
<1>1. t \in Renderers
  BY DEF Renderers
<1>2. t \notin DOMAIN NamedOrId /\ t # "vanilla_memory"
  BY DEF NamedOrId, PayloadNameFirst
<1>3. ASSUME NEW y \in DOMAIN curr.characters, Looks(e, y), y # None  PROVE  FALSE
  <2>1. y = x[PayloadNameFirst[t][1]] /\ x[PayloadNameFirst[t][2]] = None
    BY <1>2, <1>3 DEF Looks, Get
  <2> QED  BY <1>3, <2>1 DEF Known
<1> QED  BY <1>1, <1>2, <1>3 DEF Spoken, Renderable, Introduced

LEMMA WithShape ==
  ASSUME NEW id, NEW t, NEW x, NEW r
  PROVE  /\ With(id, t, x, r).t = t /\ With(id, t, x, r).p = x
         /\ With(id, t, x, r).with = {s \in r : s[2] # None}
BY DEF With

LEMMA TraitsSpoken ==
  ASSUME NEW id, NEW p, NEW c, NEW curr, NEW e \in DiffTraits(id, p, c)
  PROVE  Spoken(e, curr)
<1>1. PICK k, t : /\ t \in {"trait_gained", "trait_lost"} /\ e = Event(id, t, [trait_id |-> k])
  BY Zenon DEF DiffTraits, Events
<1>2. t \in Silent /\ "" \notin DOMAIN [trait_id |-> k]
  BY <1>1 DEF Silent, NobodyElse
<1> QED  BY <1>1, <1>2, SilentSpoken

LEMMA ConcubinesSpoken ==
  ASSUME NEW id, NEW p, NEW c, NEW curr, NEW e \in DiffConcubines(id, p, c, curr)
  PROVE  Spoken(e, curr)
<1>1. PICK k, r : e = With(id, "concubine_taken", [concubine_id |-> k, concubine_name |-> Known(k, curr)], r)
  BY Zenon DEF DiffConcubines, EventsWith
<1>2. PICK x : x = [concubine_id |-> k, concubine_name |-> Known(k, curr)]
  OBVIOUS
<1>3. PICK t : t = "concubine_taken"
  OBVIOUS
<1>4. /\ t \in DOMAIN PayloadNameFirst
      /\ PayloadNameFirst[t][1] = "concubine_id" /\ PayloadNameFirst[t][2] = "concubine_name"
  BY <1>3 DEF PayloadNameFirst
<1>5. /\ "" \notin DOMAIN x /\ "concubine_id" \in DOMAIN x /\ "concubine_name" \in DOMAIN x
      /\ x["concubine_name"] = Known(x["concubine_id"], curr)
  BY <1>2
<1>6. e.t = t /\ e.p = x
  BY <1>1, <1>2, <1>3, WithShape
<1> QED  BY <1>4, <1>5, <1>6, InlineSpoken

LEMMA MiscarriageSpoken ==
  ASSUME NEW id, NEW p, NEW c, NEW memories, NEW curr, NEW e \in DiffMiscarriage(id, p, c, memories)
  PROVE  Spoken(e, curr)
<1>1. PICK k : e = With(id, "miscarriage", [assumed_father_id |-> k], {<<"assumed_father", k>>})
  BY Zenon DEF DiffMiscarriage, Miscarriage
<1>2. PICK x, t : x = [assumed_father_id |-> k] /\ t = "miscarriage"
  OBVIOUS
<1>3. t \in DOMAIN NamedOrId /\ NamedOrId[t] = "assumed_father_id"
  BY <1>2 DEF NamedOrId
<1>4. "" \notin DOMAIN x /\ "assumed_father_id" \in DOMAIN x /\ x["assumed_father_id"] = k
  BY <1>2
<1>5. e.t = t /\ e.p = x /\ (k = None \/ <<"assumed_father", k>> \in e.with)
  BY <1>1, <1>2, WithShape
<1>6. NamedOrId[t] \in DOMAIN x /\ x[NamedOrId[t]] = k
  BY <1>3, <1>4
<1> QED  BY <1>3, <1>4, <1>5, <1>6, NamedSpoken

LEMMA StatesSpoken ==
  ASSUME NEW id, NEW p, NEW c, NEW curr, NEW e \in DiffStateChanges(id, p, c)
  PROVE  Spoken(e, curr)
<1>1. PICK x, y : \/ e = Event(id, "house_change", [from_house_id |-> x, to_house_id |-> y])
                  \/ e = Event(id, "culture_change", [from_culture_id |-> x, to_culture_id |-> y])
                  \/ e = Event(id, "faith_change", [from_faith_id |-> x, to_faith_id |-> y])
  BY Zenon DEF DiffStateChanges
<1>2. /\ {"house_change", "culture_change", "faith_change"} \subseteq Silent
      /\ "" \notin DOMAIN [from_house_id |-> x, to_house_id |-> y]
      /\ "" \notin DOMAIN [from_culture_id |-> x, to_culture_id |-> y]
      /\ "" \notin DOMAIN [from_faith_id |-> x, to_faith_id |-> y]
  BY DEF Silent, NobodyElseStates
<1> QED  BY <1>1, <1>2, SilentSpoken

LEMMA PerksSpoken ==
  ASSUME NEW id, NEW p, NEW c, NEW curr, NEW e \in DiffModifiersAndPerks(id, p, c)
  PROVE  Spoken(e, curr)
<1>1. PICK k, l : \/ e = Event(id, "modifier_acquired", [modifier_key |-> k])
                  \/ e = Event(id, "perk_acquired", [perk_key |-> k])
                  \/ e = Event(id, "lifestyle_committed", [lifestyle_key |-> k, first_perk_key |-> l])
  BY Zenon DEF DiffModifiersAndPerks, Events
<1>2. /\ {"modifier_acquired", "perk_acquired", "lifestyle_committed"} \subseteq Silent
      /\ "" \notin DOMAIN [modifier_key |-> k]
      /\ "" \notin DOMAIN [perk_key |-> k]
      /\ "" \notin DOMAIN [lifestyle_key |-> k, first_perk_key |-> l]
  BY DEF Silent, NobodyElseStates
<1> QED  BY <1>1, <1>2, SilentSpoken

LEMMA TitlesSpoken ==
  ASSUME NEW id, NEW prv, NEW curr, NEW e \in DiffTitles(id, prv, curr)
  PROVE  Spoken(e, curr)
<1> DEFINE was == prv.titles.row
           is  == curr.titles.row
           gained == curr.titles.of[id] \ prv.titles.of[id]
           lost   == prv.titles.of[id] \ curr.titles.of[id]
<1>1. \/ e \in Created(id, gained \ DOMAIN was, is)
      \/ e \in Acquired(id, gained \cap DOMAIN was, is, LAMBDA t : HolderIn(was, t))
      \/ e \in Relinquished(id, lost, was, LAMBDA t : HolderIn(is, t))
  BY Zenon DEF DiffTitles
<1> HIDE DEF was, is, gained, lost
<1>4. CASE e \in Created(id, gained \ DOMAIN was, is)
  <2>1. PICK k, l, m : e = Event(id, "title_created", [title_id |-> k, title_key |-> l, tier |-> m])
    BY <1>4, Zenon DEF Created, Events
  <2>2. "title_created" \in Silent /\ "" \notin DOMAIN [title_id |-> k, title_key |-> l, tier |-> m]
    BY DEF Silent, NobodyElse
  <2> QED  BY <2>1, <2>2, SilentSpoken
<1>5. CASE e \in Acquired(id, gained \cap DOMAIN was, is, LAMBDA t : HolderIn(was, t))
  <2>1. PICK k, l, m, h : e = With(id, "title_acquired", [title_id |-> k, title_key |-> l, tier |-> m,
                                                          from_holder_id |-> h], {<<"former_holder", h>>})
    BY <1>5, Zenon DEF Acquired, EventsWith
  <2>2. PICK x, t : t = "title_acquired" /\ x = [title_id |-> k, title_key |-> l, tier |-> m, from_holder_id |-> h]
    OBVIOUS
  <2>3. t \in DOMAIN NamedOrId /\ NamedOrId[t] = "from_holder_id"
    BY <2>2 DEF NamedOrId
  <2>4. "" \notin DOMAIN x /\ "from_holder_id" \in DOMAIN x /\ x["from_holder_id"] = h
    BY <2>2
  <2>5. e.t = t /\ e.p = x /\ (h = None \/ <<"former_holder", h>> \in e.with)
    BY <2>1, <2>2, WithShape
  <2>6. NamedOrId[t] \in DOMAIN x /\ x[NamedOrId[t]] = h
    BY <2>3, <2>4
  <2> QED  BY <2>3, <2>4, <2>5, <2>6, NamedSpoken
<1>6. CASE e \in Relinquished(id, lost, was, LAMBDA t : HolderIn(is, t))
  <2>1. PICK k, l, m, h : e = With(id, "title_relinquished", [title_id |-> k, title_key |-> l, tier |-> m,
                                                              to_holder_id |-> h], {<<"new_holder", h>>})
    BY <1>6, Zenon DEF Relinquished, EventsWith
  <2>2. PICK x, t : t = "title_relinquished" /\ x = [title_id |-> k, title_key |-> l, tier |-> m, to_holder_id |-> h]
    OBVIOUS
  <2>3. t \in DOMAIN NamedOrId /\ NamedOrId[t] = "to_holder_id"
    BY <2>2 DEF NamedOrId
  <2>4. "" \notin DOMAIN x /\ "to_holder_id" \in DOMAIN x /\ x["to_holder_id"] = h
    BY <2>2
  <2>5. e.t = t /\ e.p = x /\ (h = None \/ <<"new_holder", h>> \in e.with)
    BY <2>1, <2>2, WithShape
  <2>6. NamedOrId[t] \in DOMAIN x /\ x[NamedOrId[t]] = h
    BY <2>3, <2>4
  <2> QED  BY <2>3, <2>4, <2>5, <2>6, NamedSpoken
<1> QED  BY <1>1, <1>4, <1>5, <1>6

LEMMA AlliancesSpoken ==
  ASSUME NEW id, NEW c, NEW prv, NEW curr, NEW e \in DiffAlliances(id, c, prv, curr),
         None \notin prv.alliances[id], None \notin curr.alliances[id]
  PROVE  Spoken(e, curr)
<1> DEFINE ally(k) == [ally_character_id |-> k]
           told == SetDiffer(id, c, prv.alliances[id], curr.alliances[id],
                             "alliance_formed", "alliance_broken", ally, ally)
<1>1. PICK f \in told : e = [f EXCEPT !.with = {<<IF f.t = "alliance_formed" THEN "ally" ELSE "former_ally",
                                                  f.p.ally_character_id>>}]
  BY Zenon DEF DiffAlliances
<1>2. PICK k \in prv.alliances[id] \cup curr.alliances[id], t \in {"alliance_formed", "alliance_broken"} :
        f = Event(id, t, [ally_character_id |-> k])
  BY <1>1, Zenon DEF SetDiffer, Events
<1>3. PICK x : x = [ally_character_id |-> k]
  OBVIOUS
<1>4. f = [c |-> id, t |-> t, d |-> None, p |-> x, with |-> {}]
  BY <1>2, <1>3 DEF Event, With
<1>5. PICK role : e = [f EXCEPT !.with = {<<role, f.p.ally_character_id>>}]
  BY <1>1
<1>6. "" \notin DOMAIN x /\ "ally_character_id" \in DOMAIN x /\ x["ally_character_id"] = k
  BY <1>3
<1>7. e.t = t /\ e.p = x /\ e.with = {<<role, k>>}
  BY <1>4, <1>5, <1>6
<1>8. k # None
  OBVIOUS
<1> HIDE DEF told
<1>9. (k = None \/ <<role, k>> \in e.with)
  BY <1>7, <1>8
<1>10. t \in DOMAIN NamedOrId /\ NamedOrId[t] = "ally_character_id"
  BY DEF NamedOrId
<1>11. NamedOrId[t] \in DOMAIN x /\ x[NamedOrId[t]] = k
  BY <1>6, <1>10
<1> QED  BY <1>6, <1>7, <1>9, <1>10, <1>11, NamedSpoken

LEMMA ArtifactsSpoken ==
  ASSUME NEW id, NEW c, NEW prv, NEW curr, NEW e \in DiffArtifacts(id, c, prv, curr)
  PROVE  Spoken(e, curr)
<1>1. PICK k, t : /\ t \in {"artifact_acquired", "artifact_lost"} /\ e = Event(id, t, [artifact_id |-> k])
  BY Zenon DEF DiffArtifacts, SetDiffer, Events
<1>2. t \in Silent /\ "" \notin DOMAIN [artifact_id |-> k]
  BY <1>1 DEF Silent, NobodyElseStates
<1> QED  BY <1>1, <1>2, SilentSpoken

LEMMA CourtSpoken ==
  ASSUME NEW id, NEW c, NEW prv, NEW curr, NEW e \in DiffCourtPositions(id, c, prv, curr)
  PROVE  Spoken(e, curr)
<1> DEFINE position(k, snap) == [position_id |-> k, employee_id |-> snap.court.row[k].employee,
                                employee_name |-> Known(snap.court.row[k].employee, curr)]
<1>1. e \in SetDiffer(id, c, prv.court.of[id], curr.court.of[id], "camp_companion_joined",
                      "camp_companion_left", LAMBDA k : position(k, curr), LAMBDA k : position(k, prv))
  BY Zenon DEF DiffCourtPositions
<1>2. PICK k, snap, t : /\ t \in {"camp_companion_joined", "camp_companion_left"} /\ e = Event(id, t, position(k, snap))
  BY <1>1, Zenon DEF SetDiffer, Events
<1>3. PICK x, m : x = position(k, snap) /\ m = snap.court.row[k].employee
  OBVIOUS
<1>4. /\ t \in DOMAIN PayloadNameFirst
      /\ PayloadNameFirst[t][1] = "employee_id" /\ PayloadNameFirst[t][2] = "employee_name"
  BY <1>2 DEF PayloadNameFirst
<1>5. x = [position_id |-> k, employee_id |-> m, employee_name |-> Known(m, curr)]
  BY <1>3
<1>6. e.t = t /\ e.p = x
  BY <1>2, <1>3, EventShape
<1>7. /\ "" \notin DOMAIN x /\ "employee_id" \in DOMAIN x /\ "employee_name" \in DOMAIN x
      /\ x["employee_name"] = Known(x["employee_id"], curr)
  BY <1>5
<1> QED  BY <1>4, <1>6, <1>7, InlineSpoken

LEMMA HappeningsSpoken ==
  ASSUME NEW id, NEW c, NEW prv, NEW curr, NEW e \in DiffHappenings(id, c, prv, curr)
  PROVE  Spoken(e, curr)
<1> DEFINE outbreak(k) == [epidemic_id |-> k]
           host(k) == prv.activities.row[k].host
           activity(k) == [activity_id |-> k, host_id |-> host(k),
                           role |-> IF host(k) = id THEN "host" ELSE "attendee"]
           artisan(k) == IF curr.inspirations.row[k] = {} THEN None
                         ELSE CHOOSE x \in curr.inspirations.row[k] : TRUE
           sponsored(k) == [inspiration_id |-> k, artisan_character_id |-> artisan(k)]
           known == DOMAIN curr.inspirations.row
<1>1. \/ e \in SetDiffer(id, c, prv.epidemics.of[id], curr.epidemics.of[id],
                         "epidemic_outbreak", None, outbreak, outbreak)
      \/ e \in SetDiffer(id, c, prv.activities.of[id], curr.activities.of[id],
                         None, "activity_completed", activity, activity)
      \/ e \in SetDiffer(id, c, prv.inspirations.of[id], curr.inspirations.of[id] \cap known,
                         "inspiration_sponsored", None, sponsored, sponsored)
  BY Zenon DEF DiffHappenings
<1>2. {"epidemic_outbreak", "activity_completed", "inspiration_sponsored"} \subseteq Silent
  BY DEF Silent, NobodyElseStates, OnlyIfNamed
<1>3. CASE e \in SetDiffer(id, c, prv.epidemics.of[id], curr.epidemics.of[id],
                           "epidemic_outbreak", None, outbreak, outbreak)
  <2>1. PICK k : e = Event(id, "epidemic_outbreak", outbreak(k))
    BY <1>3, Zenon DEF SetDiffer, Events
  <2>2. "" \notin DOMAIN outbreak(k)
    OBVIOUS
  <2> QED  BY <1>2, <2>1, <2>2, SilentSpoken
<1>4. CASE e \in SetDiffer(id, c, prv.activities.of[id], curr.activities.of[id],
                           None, "activity_completed", activity, activity)
  <2>1. PICK k : e = Event(id, "activity_completed", activity(k))
    BY <1>4, Zenon DEF SetDiffer, Events
  <2>2. "" \notin DOMAIN activity(k)
    OBVIOUS
  <2> QED  BY <1>2, <2>1, <2>2, SilentSpoken
<1>5. CASE e \in SetDiffer(id, c, prv.inspirations.of[id], curr.inspirations.of[id] \cap known,
                           "inspiration_sponsored", None, sponsored, sponsored)
  <2>1. PICK k : e = Event(id, "inspiration_sponsored", sponsored(k))
    BY <1>5, Zenon DEF SetDiffer, Events
  <2>2. "" \notin DOMAIN sponsored(k)
    OBVIOUS
  <2> QED  BY <1>2, <2>1, <2>2, SilentSpoken
<1> QED  BY <1>1, <1>3, <1>4, <1>5, Zenon

LEMMA WarsSpoken ==
  ASSUME NEW id, NEW c, NEW prv, NEW curr, NEW e \in DiffWars(id, c, prv, curr)
  PROVE  Spoken(e, curr)
<1>1. PICK t \in {"war_declared", "war_joined", "war_left", "war_concluded"} :
        \E k, war, r : e = With(id, t, WarSidePayload(k, war, id), r)
  BY Zenon DEF DiffWars, EventsWith
<1>2. PICK k, war, r : e = With(id, t, WarSidePayload(k, war, id), r)
  BY <1>1
<1>3. t \in Silent /\ "" \notin DOMAIN WarSidePayload(k, war, id)
  BY DEF Silent, NobodyElse, WarSidePayload
<1> QED  BY <1>2, <1>3, SilentSpoken

LEMMA DynastySpoken ==
  ASSUME NEW id, NEW c, NEW prv, NEW curr, NEW e \in DiffDynasty(id, c, prv, curr)
  PROVE  Spoken(e, curr)
<1>1. PICK k, l, m, n :
        \/ e = Event(id, "dynasty_legacy_unlocked", [dynasty_id |-> k, legacy_key |-> l])
        \/ e = Event(id, "splendor_increased", [dynasty_id |-> k, old_tier |-> l, new_tier |-> m,
                                                total_renown_at_change |-> n])
  BY Zenon DEF DiffDynasty, Events
<1>2. /\ {"dynasty_legacy_unlocked", "splendor_increased"} \subseteq Silent
      /\ "" \notin DOMAIN [dynasty_id |-> k, legacy_key |-> l]
      /\ "" \notin DOMAIN [dynasty_id |-> k, old_tier |-> l, new_tier |-> m, total_renown_at_change |-> n]
  BY DEF Silent, NobodyElse, NobodyElseStates
<1> QED  BY <1>1, <1>2, SilentSpoken

LEMMA ContractsSpoken ==
  ASSUME NEW id, NEW c, NEW prv, NEW curr, NEW e \in DiffContracts(id, c, prv, curr)
  PROVE  Spoken(e, curr)
<1>1. PICK k, l : e = Event(id, "contract_completed", [outcome |-> k, employer_id |-> l])
  BY Zenon DEF DiffContracts, ContractEvents, Events
<1>2. "contract_completed" \in Silent /\ "" \notin DOMAIN [outcome |-> k, employer_id |-> l]
  BY DEF Silent, OnlyIfNamed
<1> QED  BY <1>1, <1>2, SilentSpoken

LEMMA DomicileSpoken ==
  ASSUME NEW id, NEW c, NEW prv, NEW curr, NEW e \in DiffDomicile(id, c, prv, curr)
  PROVE  Spoken(e, curr)
<1>1. PICK k, x, y : e = Event(id, "domicile_moved", [domicile_id |-> k, from_province_id |-> x,
                                                      to_province_id |-> y])
  BY Zenon DEF DiffDomicile
<1>2. "domicile_moved" \in Silent /\ "" \notin DOMAIN [domicile_id |-> k, from_province_id |-> x,
                                                       to_province_id |-> y]
  BY DEF Silent, NobodyElse
<1> QED  BY <1>1, <1>2, SilentSpoken

LEMMA ConstructionsSpoken ==
  ASSUME NEW id, NEW c, NEW prv, NEW curr, NEW e \in DiffConstructions(id, c, prv, curr)
  PROVE  Spoken(e, curr)
<1>1. PICK k, x, y : e = Event(id, "building_completed", [building |-> k, province_id |-> x, slot_index |-> y])
  BY Zenon DEF DiffConstructions, Events
<1>2. "building_completed" \in Silent /\ "" \notin DOMAIN [building |-> k, province_id |-> x, slot_index |-> y]
  BY DEF Silent, NobodyElseStates
<1> QED  BY <1>1, <1>2, SilentSpoken

LEMMA GovernmentSpoken ==
  ASSUME NEW id, NEW p, NEW c, NEW curr, NEW e \in GovernmentEvents(id, p, c)
  PROVE  Spoken(e, curr)
<1>1. PICK x, y : \/ e = Event(id, "adventurer_started", Bare)
                  \/ e = Event(id, "adventurer_ended", Bare)
                  \/ e = Event(id, "government_changed", [previous_government |-> x, new_government |-> y])
  BY DEF GovernmentEvents
<1>2. /\ {"adventurer_started", "adventurer_ended", "government_changed"} \subseteq Silent
      /\ "" \notin DOMAIN [previous_government |-> x, new_government |-> y]
  BY DEF Silent, NobodyElseStates
<1>3. "" \notin DOMAIN Bare
  BY DEF Bare
<1> QED  BY <1>1, <1>2, <1>3, SilentSpoken

LEMMA MemorySpoken ==
  ASSUME NEW id, NEW m, NEW curr, curr.memories[m].participants # None
  PROVE  Spoken(MakeVanillaMemory(id, m, curr), curr)
<1> DEFINE e == MakeVanillaMemory(id, m, curr)
           mem == curr.memories[m]
<1>1. PICK k, n, date :
        e = [With(id, "vanilla_memory",
                  [memory_type |-> mem.type, participants |-> mem.participants,
                   deceased_killer_id |-> k, deceased_killer_first_name |-> n],
                  {<<role, mem.participants[role]>> : role \in DOMAIN mem.participants}) EXCEPT !.d = date]
  BY Zenon DEF MakeVanillaMemory
<1>2. PICK roles : roles = mem.participants
  OBVIOUS
<1>3. PICK x, r : /\ x = [memory_type |-> mem.type, participants |-> roles,
                          deceased_killer_id |-> k, deceased_killer_first_name |-> n]
                  /\ r = {<<role, roles[role]>> : role \in DOMAIN roles}
  OBVIOUS
<1>4. e.t = "vanilla_memory" /\ e.p = x /\ e.with = {s \in r : s[2] # None}
  <2> HIDE DEF e, mem
  <2> QED  BY <1>1, <1>2, <1>3 DEF With
<1>5. "" \notin DOMAIN x /\ "participants" \in DOMAIN x /\ x.participants = roles
  BY <1>3
<1>6. "vanilla_memory" \in Renderers
  BY DEF Renderers
<1>7. "vanilla_memory" \notin DOMAIN NamedOrId /\ "vanilla_memory" \notin DOMAIN PayloadNameFirst
  BY DEF NamedOrId, PayloadNameFirst
<1>8. roles # None
  BY <1>2
<1> HIDE DEF e, mem
<1>9. ASSUME NEW y, Looks(e, y), y # None  PROVE  \E s \in e.with : s[2] = y
  <2>1. y \in Range(roles)
    BY <1>4, <1>5, <1>7, <1>9 DEF Looks
  <2>2. PICK role \in DOMAIN roles : y = roles[role]
    BY <2>1 DEF Range
  <2>3. <<role, y>> \in r /\ <<role, y>>[2] = y
    BY <1>3, <2>2
  <2> QED  BY <1>4, <1>9, <2>3
<1>10. Renderable(e)
  BY <1>4, <1>5, <1>6, <1>8 DEF Renderable
<1>11. Introduced(e, curr)
  BY <1>9 DEF Introduced
<1>12. Spoken(e, curr)
  BY <1>10, <1>11 DEF Spoken
<1> QED  BY <1>12 DEF e

LEMMA DeathSpoken ==
  ASSUME NEW id, NEW c, NEW curr, NEW e \in MakeDeath(id, c)
  PROVE  Spoken(e, curr)
<1>1. PICK r, date : e = [With(id, "death", [killer |-> c.killer], r) EXCEPT !.d = date]
  BY Zenon DEF MakeDeath
<1>2. PICK x : x = [killer |-> c.killer]
  OBVIOUS
<1>3. e.t = "death" /\ e.p = x
  BY <1>1, <1>2 DEF With
<1>4. "death" \in Silent /\ "" \notin DOMAIN x
  BY <1>2 DEF Silent, NobodyElse
<1> QED  BY <1>3, <1>4, SilentTypeSpoken

LEMMA MarriageSpoken ==
  ASSUME NEW id, NEW k, NEW curr, NEW e,
         e = With(id, "marriage", [spouse_character_id |-> k], {<<"spouse", k>>})
  PROVE  Spoken(e, curr)
<1>1. PICK x, t : x = [spouse_character_id |-> k] /\ t = "marriage"
  OBVIOUS
<1>2. t \in DOMAIN NamedOrId /\ NamedOrId[t] = "spouse_character_id"
  BY <1>1 DEF NamedOrId
<1>3. "" \notin DOMAIN x /\ "spouse_character_id" \in DOMAIN x /\ x["spouse_character_id"] = k
  BY <1>1
<1>4. e.t = t /\ e.p = x /\ (k = None \/ <<"spouse", k>> \in e.with)
  BY <1>1, WithShape
<1>5. NamedOrId[t] \in DOMAIN x /\ x[NamedOrId[t]] = k
  BY <1>2, <1>3
<1> QED  BY <1>2, <1>3, <1>4, <1>5, NamedSpoken

LEMMA DivorceSpoken ==
  ASSUME NEW id, NEW k, NEW curr, NEW e,
         e = With(id, "divorce", [former_spouse_character_id |-> k], {<<"former_spouse", k>>})
  PROVE  Spoken(e, curr)
<1>1. PICK x, t : x = [former_spouse_character_id |-> k] /\ t = "divorce"
  OBVIOUS
<1>2. t \in DOMAIN NamedOrId /\ NamedOrId[t] = "former_spouse_character_id"
  BY <1>1 DEF NamedOrId
<1>3. "" \notin DOMAIN x /\ "former_spouse_character_id" \in DOMAIN x /\ x["former_spouse_character_id"] = k
  BY <1>1
<1>4. e.t = t /\ e.p = x /\ (k = None \/ <<"former_spouse", k>> \in e.with)
  BY <1>1, WithShape
<1>5. NamedOrId[t] \in DOMAIN x /\ x[NamedOrId[t]] = k
  BY <1>2, <1>3
<1> QED  BY <1>2, <1>3, <1>4, <1>5, NamedSpoken

LEMMA OneCharacterSpoken ==
  ASSUME NEW id, NEW p, NEW c, NEW curr, NEW e \in DiffOneCharacter(id, p, c, curr),
         PersonSound(c, curr.memories)
  PROVE  Spoken(e, curr)
<1>1. PICK A \in {IF DeathAppears(p, c) THEN MakeDeath(id, c) ELSE {},
                  IF /\ ~c.is_dead
                     /\ None \notin {p.location, c.location}
                     /\ p.location # c.location
                    THEN {Event(id, "travel", [from_location |-> p.location, to_location |-> c.location])}
                    ELSE {},
                  EventsWith(id, "marriage", NewSpouses(p, c),
                             LAMBDA s : [spouse_character_id |-> s], LAMBDA s : {<<"spouse", s>>}),
                  EventsWith(id, "divorce", c.family.former_spouses \ p.family.former_spouses,
                             LAMBDA s : [former_spouse_character_id |-> s],
                             LAMBDA s : {<<"former_spouse", s>>}),
                  IF ~c.is_dead /\ p.nickname # c.nickname
                    THEN {Event(id, "nickname", [from_nickname |-> p.nickname, to_nickname |-> c.nickname])}
                    ELSE {},
                  IF ~c.is_dead /\ p.government # c.government
                    THEN GovernmentEvents(id, p, c) ELSE {},
                  {MakeVanillaMemory(id, m, curr) : m \in c.memories \ p.memories},
                  Events(id, "decision_taken", {d \in c.decisions \ p.decisions : d[1] \in Interesting},
                         LAMBDA d : [decision_id |-> d[1], cooldown_end_date |-> d[2]])} : e \in A
  BY Zenon DEF DiffOneCharacter
<1>2. CASE A = IF DeathAppears(p, c) THEN MakeDeath(id, c) ELSE {}
  <2>1. e \in MakeDeath(id, c)
    BY <1>1, <1>2, Zenon
  <2> QED  BY <2>1, DeathSpoken
<1>3. CASE A = IF /\ ~c.is_dead
                  /\ None \notin {p.location, c.location}
                  /\ p.location # c.location
               THEN {Event(id, "travel", [from_location |-> p.location, to_location |-> c.location])}
               ELSE {}
  <2>1. PICK x, y : e = Event(id, "travel", [from_location |-> x, to_location |-> y])
    BY <1>1, <1>3, Zenon
  <2>2. "travel" \in Silent /\ "" \notin DOMAIN [from_location |-> x, to_location |-> y]
    BY DEF Silent, NobodyElse
  <2> QED  BY <2>1, <2>2, SilentSpoken
<1>4. CASE A = EventsWith(id, "marriage", NewSpouses(p, c),
                          LAMBDA s : [spouse_character_id |-> s], LAMBDA s : {<<"spouse", s>>})
  <2>1. PICK k : e = With(id, "marriage", [spouse_character_id |-> k], {<<"spouse", k>>})
    BY <1>1, <1>4, Zenon DEF EventsWith
  <2> QED  BY <2>1, MarriageSpoken
<1>5. CASE A = EventsWith(id, "divorce", c.family.former_spouses \ p.family.former_spouses,
                          LAMBDA s : [former_spouse_character_id |-> s],
                          LAMBDA s : {<<"former_spouse", s>>})
  <2>1. PICK k : e = With(id, "divorce", [former_spouse_character_id |-> k], {<<"former_spouse", k>>})
    BY <1>1, <1>5, Zenon DEF EventsWith
  <2> QED  BY <2>1, DivorceSpoken
<1>6. CASE A = IF ~c.is_dead /\ p.nickname # c.nickname
               THEN {Event(id, "nickname", [from_nickname |-> p.nickname, to_nickname |-> c.nickname])}
               ELSE {}
  <2>1. PICK x, y : e = Event(id, "nickname", [from_nickname |-> x, to_nickname |-> y])
    BY <1>1, <1>6, Zenon
  <2>2. "nickname" \in Silent /\ "" \notin DOMAIN [from_nickname |-> x, to_nickname |-> y]
    BY DEF Silent, NobodyElseStates
  <2> QED  BY <2>1, <2>2, SilentSpoken
<1>7. CASE A = IF ~c.is_dead /\ p.government # c.government THEN GovernmentEvents(id, p, c) ELSE {}
  <2>1. e \in GovernmentEvents(id, p, c)
    BY <1>1, <1>7, Zenon
  <2> QED  BY <2>1, GovernmentSpoken
<1>8. CASE A = {MakeVanillaMemory(id, m, curr) : m \in c.memories \ p.memories}
  <2>1. PICK m \in c.memories : e = MakeVanillaMemory(id, m, curr)
    BY <1>1, <1>8, Zenon
  <2>2. curr.memories[m].participants # None
    BY DEF PersonSound
  <2> QED  BY <2>1, <2>2, MemorySpoken
<1>9. CASE A = Events(id, "decision_taken", {d \in c.decisions \ p.decisions : d[1] \in Interesting},
                      LAMBDA d : [decision_id |-> d[1], cooldown_end_date |-> d[2]])
  <2>1. PICK x, y : e = Event(id, "decision_taken", [decision_id |-> x, cooldown_end_date |-> y])
    BY <1>1, <1>9, Zenon DEF Events
  <2>2. "decision_taken" \in Silent /\ "" \notin DOMAIN [decision_id |-> x, cooldown_end_date |-> y]
    BY DEF Silent, NobodyElseStates
  <2> QED  BY <2>1, <2>2, SilentSpoken
<1> QED  BY <1>1, <1>2, <1>3, <1>4, <1>5, <1>6, <1>7, <1>8, <1>9, Zenon

LEMMA StreamsSpoken ==
  ASSUME NEW id, NEW c, NEW prv, NEW curr, NEW e \in StreamDiffers(id, c, prv, curr),
         None \notin prv.alliances[id], None \notin curr.alliances[id]
  PROVE  Spoken(e, curr)
<1>1. PICK A \in {DiffAlliances(id, c, prv, curr), DiffWars(id, c, prv, curr),
                  DiffArtifacts(id, c, prv, curr), DiffCourtPositions(id, c, prv, curr),
                  DiffDynasty(id, c, prv, curr), DiffHappenings(id, c, prv, curr),
                  DiffContracts(id, c, prv, curr), DiffDomicile(id, c, prv, curr),
                  DiffConstructions(id, c, prv, curr)} : e \in A
  BY Zenon DEF StreamDiffers
<1>2. CASE A = DiffAlliances(id, c, prv, curr)
  BY <1>1, <1>2, AlliancesSpoken
<1>3. CASE A = DiffWars(id, c, prv, curr)
  BY <1>1, <1>3, WarsSpoken
<1>4. CASE A = DiffArtifacts(id, c, prv, curr)
  BY <1>1, <1>4, ArtifactsSpoken
<1>5. CASE A = DiffCourtPositions(id, c, prv, curr)
  BY <1>1, <1>5, CourtSpoken
<1>6. CASE A = DiffDynasty(id, c, prv, curr)
  BY <1>1, <1>6, DynastySpoken
<1>7. CASE A = DiffHappenings(id, c, prv, curr)
  BY <1>1, <1>7, HappeningsSpoken
<1>8. CASE A = DiffContracts(id, c, prv, curr)
  BY <1>1, <1>8, ContractsSpoken
<1>9. CASE A = DiffDomicile(id, c, prv, curr)
  BY <1>1, <1>9, DomicileSpoken
<1>10. CASE A = DiffConstructions(id, c, prv, curr)
  BY <1>1, <1>10, ConstructionsSpoken
<1> QED  BY <1>1, <1>2, <1>3, <1>4, <1>5, <1>6, <1>7, <1>8, <1>9, <1>10, Zenon

LEMMA TrackedSpoken ==
  ASSUME NEW id \in Char, NEW prv, NEW curr, NEW e \in DiffTracked(id, prv, curr),
         SnapSound(prv), SnapSound(curr)
  PROVE  Spoken(e, curr)
<1> DEFINE c == curr.characters[id]
           p == prv.characters[id]
<1>1. id \in DOMAIN curr.characters
  BY DEF DiffTracked
<1>2. PersonSound(c, curr.memories)
  BY <1>1 DEF SnapSound
<1>3. CASE id \notin DOMAIN prv.characters
  <2>1. e \in MakeDeath(id, c)
    BY <1>1, <1>3, Zenon DEF DiffTracked
  <2> QED  BY <2>1, DeathSpoken
<1>4. CASE id \in DOMAIN prv.characters
  <2>1. None \notin prv.alliances[id] /\ None \notin curr.alliances[id]
    BY DEF SnapSound, TablesSound
  <2>2. PICK A \in {DiffOneCharacter(id, p, c, curr), DiffTitles(id, prv, curr),
                    StreamDiffers(id, c, prv, curr), DiffTraits(id, p, c),
                    DiffConcubines(id, p, c, curr), DiffModifiersAndPerks(id, p, c),
                    DiffMiscarriage(id, p, c, curr.memories), DiffStateChanges(id, p, c)} : e \in A
    BY <1>1, <1>4, Zenon DEF DiffTracked
  <2> HIDE DEF c, p
  <2>3. CASE A = DiffOneCharacter(id, p, c, curr)
    BY <1>2, <2>2, <2>3, OneCharacterSpoken
  <2>4. CASE A = DiffTitles(id, prv, curr)
    BY <2>2, <2>4, TitlesSpoken
  <2>5. CASE A = StreamDiffers(id, c, prv, curr)
    BY <2>1, <2>2, <2>5, StreamsSpoken
  <2>6. CASE A = DiffTraits(id, p, c)
    BY <2>2, <2>6, TraitsSpoken
  <2>7. CASE A = DiffConcubines(id, p, c, curr)
    BY <2>2, <2>7, ConcubinesSpoken
  <2>8. CASE A = DiffModifiersAndPerks(id, p, c)
    BY <2>2, <2>8, PerksSpoken
  <2>9. CASE A = DiffMiscarriage(id, p, c, curr.memories)
    BY <2>2, <2>9, MiscarriageSpoken
  <2>10. CASE A = DiffStateChanges(id, p, c)
    BY <2>2, <2>10, StatesSpoken
  <2> QED  BY <2>2, <2>3, <2>4, <2>5, <2>6, <2>7, <2>8, <2>9, <2>10, Zenon
<1> QED  BY <1>3, <1>4


-----------------------------------------------------------------------------
(* Everyone a line speaks of has a named row.                              *)

LEMMA StoredFields ==
  ASSUME NEW e, NEW date, IsEvent(e), Renderable(e)
  PROVE  /\ Renderable(Stored(e, date))
         /\ \A x : Looks(Stored(e, date), x) => Looks(e, x)
<1>1. PICK s, f : s = Stored(e, date) /\ f = {k \in DOMAIN e.p : e.p[k] # None}
  OBVIOUS
<1>2. s.t = e.t /\ s.p = Restrict(e.p, f)
  BY <1>1, StoredShape
<1>3. DOMAIN s.p = f /\ \A k \in f : s.p[k] = e.p[k]
  BY <1>2 DEF Restrict
<1>4. \A k : Get(s.p, k) = Get(e.p, k)
  BY <1>1, <1>3 DEF Get
<1>5. e.t = "vanilla_memory" => "participants" \in DOMAIN s.p /\ s.p.participants = e.p.participants
  BY <1>1, <1>3 DEF Renderable
<1>6. Renderable(s)
  BY <1>1, <1>2, <1>3, <1>5 DEF Renderable
<1>7. \A x : Looks(s, x) => Looks(e, x)
  BY <1>2, <1>4, <1>5 DEF Looks
<1> QED  BY <1>1, <1>6, <1>7

HasName(row) == row # None /\ row.first_name # None

LEMMA UpsertNames ==
  ASSUME Atoms, NEW row, NEW f, HasName(row) \/ ("first_name" \in DOMAIN f /\ f["first_name"] # None)
  PROVE  HasName(UpsertCharacter(row, f))
<1>1. PICK u : u = UpsertCharacter(row, f)
  OBVIOUS
<1>2. u = [x \in DOMAIN u |-> u[x]]
  BY <1>1 DEF UpsertCharacter
<1>3. u # None
  BY <1>2 DEF Atoms
<1>4. u["first_name"] = IF "first_name" \in DOMAIN f /\ f["first_name"] # None THEN f["first_name"]
                        ELSE IF row = None THEN None ELSE row["first_name"]
  BY <1>1 DEF UpsertCharacter, Column, NullableOnUpdate
<1> QED  BY <1>1, <1>3, <1>4 DEF HasName

LEMMA IdentityNames ==
  ASSUME NEW snap, NEW c \in DOMAIN snap.characters
  PROVE  "first_name" \in DOMAIN Identity(snap, c) /\ Identity(snap, c)["first_name"] = snap.characters[c].first_name
BY DEF Identity

LEMMA FirstNames ==
  ASSUME Atoms, NEW w, WorldOK(w), NEW snap, snap = ParseSave(Save(w)), NEW c \in DOMAIN snap.characters
  PROVE  c \in Char /\ snap.characters[c].first_name = c /\ c # None
<1>1. c \in Char /\ w.life[c] # "gone"
  BY Snapshot
<1>2. snap.characters[c] = ParseCharacter(Person(w, c), w.life[c] \notin Walking, w.memory)
  BY <1>1, Snapshot
<1>3. ParseCharacter(Person(w, c), w.life[c] \notin Walking, w.memory).first_name = Person(w, c).first_name
  BY Zenon DEF ParseCharacter
<1>4. Person(w, c).first_name = c
  BY DEF Person
<1> QED  BY <1>1, <1>2, <1>3, <1>4 DEF Atoms

LEMMA RefreshedNames ==
  ASSUME Atoms, NEW rows, NEW snap, NEW c \in Char,
         c \in DOMAIN snap.characters => snap.characters[c].first_name # None,
         HasName(rows[c]) \/ c \in Tracked \cap DOMAIN snap.characters
  PROVE  HasName(RefreshTracked(rows, snap, Tracked)[c])
<1>1. CASE c \notin Tracked \cap DOMAIN snap.characters
  BY <1>1 DEF RefreshTracked
<1>2. CASE c \in Tracked \cap DOMAIN snap.characters
  <2>1. PICK g, r : /\ g = [region |-> SummariseRegion(snap, c), cause |-> DetectGreatCause(snap, c)]
                    /\ r = [culture |-> snap.characters[c].culture,
                            record |-> snap.characters[c].family,
                            held |-> IF snap.titles.of[c] = {} THEN None ELSE HeldTitles(snap, c)]
    OBVIOUS
  <2>2. PICK f : f = Merge(Merge(Identity(snap, c), r), g)
    OBVIOUS
  <2>3. RefreshTracked(rows, snap, Tracked)[c] = UpsertCharacter(rows[c], f)
    BY <1>2, <2>1, <2>2, Zenon DEF RefreshTracked, HydrateColumns
  <2>4. "first_name" \in DOMAIN f /\ f["first_name"] = snap.characters[c].first_name
    BY <1>2, <2>2, IdentityNames DEF Merge
  <2> QED  BY <1>2, <2>3, <2>4, UpsertNames
<1> QED  BY <1>1, <1>2

\* What a tick leaves of the names: a tracked character of the save gets one, a
\* name that was there stays, and so do the participants' of a new event get one.
LEMMA TickNames ==
  ASSUME Atoms, Vocabulary, SoundInv, db = [rows |-> db.rows, events |-> db.events], Tick,
         NEW curr, curr = ParseSave(Save(world)), NEW x \in DOMAIN curr.characters,
         \/ x \in Tracked
         \/ HasName(db.rows[x])
         \/ \E id \in Tracked : \E e \in DiffTracked(id, prev, curr) : \E r \in e.with : r[2] = x
  PROVE  HasName(db'.rows[x])
<1>1. x \in Char /\ curr.characters[x].first_name # None
  BY FirstNames DEF SoundInv
<1>2. PICK rows : rows = RefreshTracked(db.rows, curr, Tracked)
  OBVIOUS
<1>3. PICK base : base = [db EXCEPT !.rows = rows]
  OBVIOUS
<1>4. PICK diff : diff = SafeDiff(prev, curr, Tracked)
  OBVIOUS
<1>5. diff # None /\ db' = IngestDiffEvents(base, diff, curr)
  BY <1>2, <1>3, <1>4 DEF Tick
<1>6. base.rows = rows
  BY <1>3
<1>7. PICK people : people = UNION {{e.c} \cup {r[2] : r \in e.with} : e \in diff}
  OBVIOUS
<1>8. db'.rows[x] = IF x \notin people THEN rows[x] ELSE UpsertCharacter(rows[x], Identity(curr, x))
  BY <1>1, <1>5, <1>6, <1>7 DEF IngestDiffEvents
<1>9. "first_name" \in DOMAIN Identity(curr, x) /\ Identity(curr, x)["first_name"] # None
  BY <1>1, IdentityNames
<1>10. CASE x \in people
  BY <1>8, <1>9, <1>10, UpsertNames
<1>11. CASE x \notin people
  <2>1. CASE x \in Tracked \/ HasName(db.rows[x])
    BY <1>1, <1>2, <1>8, <1>11, <2>1, RefreshedNames
  <2>2. ASSUME NEW id \in Tracked, NEW e \in DiffTracked(id, prev, curr), NEW r \in e.with, r[2] = x
        PROVE  x \in people
    <3>1. Dated(e, curr.date) \in diff
      BY <1>4, <1>5, Zenon DEF SafeDiff, DiffSnapshots, Dated
    <3>2. IsEvent(e)
      BY TrackedEvent
    <3>3. Dated(e, curr.date).with = e.with
      BY <3>2 DEF IsEvent, Dated
    <3> QED  BY <1>7, <2>2, <3>1, <3>3
  <2> QED  BY <1>11, <2>1, <2>2
<1> QED  BY <1>10, <1>11

\* The untracked stay in the game and in every baseline, and whoever of the
\* newest save a told event speaks of has a named row.
NamesInv ==
  /\ db = [rows |-> db.rows, events |-> db.events]
  /\ \A c \in Char \ Tracked : world.life[c] = "alive"
  /\ prev = None => db.events = {}
  /\ prev # None => Char \ Tracked \subseteq DOMAIN prev.characters
  /\ \A e \in db.events :
       /\ Renderable(e)
       /\ \A x \in DOMAIN prev.characters : Looks(e, x) => HasName(db.rows[x])

LEMMA UntrackedLive ==
  ASSUME facet \in Facets, WorldOK(world), Play, NEW c \in Char \ Tracked
  PROVE  world'.life[c] = world.life[c]
<1>1. PICK v \in Moves(world) : world' = [v EXCEPT !.date = @ + 1]
  BY DEF Play
<1>2. CASE v \in Deaths(world)
  <2>1. PICK x \in Tracked : \E s \in NextStage[world.life[x]] : \E k : v = Die(world, x, s, k)
    BY <1>2 DEF Deaths
  <2>2. PICK s, k : v = Die(world, x, s, k)
    BY <2>1
  <2>3. "life" \in DOMAIN world /\ world.life \in [Char -> Stages]
    BY DEF WorldOK
  <2>4. v.life = [world.life EXCEPT ![x] = s]
    BY <2>2, <2>3 DEF Die
  <2>5. world'.life = v.life
    BY <1>1
  <2> QED  BY <2>1, <2>3, <2>4, <2>5
<1>3. CASE v \notin Deaths(world)
  <2>1. Kept(world, v)
    BY <1>1, <1>3, LivingKept
  <2>2. world'.life = v.life
    BY <1>1
  <2> QED  BY <2>1, <2>2 DEF Kept
<1> QED  BY <1>2, <1>3

LEMMA InitNames ==
  ASSUME Atoms, Init
  PROVE  NamesInv
<1>1. db = [rows |-> [c \in Char |-> None], events |-> {}]
  BY DEF Init
<1>2. \A c \in Char : world.life[c] = "alive"
  <2>1. AtWar.life = World0.life
    <3>1. PICK x : AtWar = [World0 EXCEPT !.wars[1] = x]
      BY Zenon DEF AtWar
    <3> QED  BY <3>1
  <2> QED  BY <2>1, World0OK DEF Init
<1>3. stale \subseteq Tracked
  BY DEF Init
<1>4. prev # None => DOMAIN prev.characters = Char \ stale
  BY FirstBaseline
<1> QED  BY <1>1, <1>2, <1>3, <1>4 DEF NamesInv

LEMMA NextNames ==
  ASSUME Atoms, Vocabulary, SoundInv, NamesInv, [Next]_vars
  PROVE  NamesInv'
<1>1. CASE Play
  <2>1. UNCHANGED <<prev, db>>
    BY <1>1 DEF Play
  <2>2. \A c \in Char \ Tracked : world'.life[c] = "alive"
    BY <1>1, UntrackedLive DEF SoundInv, NamesInv
  <2> QED  BY <2>1, <2>2 DEF NamesInv, HasName
<1>2. ASSUME prev' = ParseSave(Save(world)), UNCHANGED world
      PROVE  prev' # None /\ Char \ Tracked \subseteq DOMAIN prev'.characters
  <2>1. DOMAIN prev'.characters = {c \in Char : world.life[c] # "gone"}
    BY <1>2, Snapshot DEF SoundInv
  <2> QED  BY <1>2, <2>1, SnapshotIsRecord DEF NamesInv
<1>3. CASE Adopt
  <2>1. prev = None /\ prev' = ParseSave(Save(world)) /\ UNCHANGED <<world, db>>
    BY <1>3 DEF Adopt
  <2>2. db.events = {}
    BY <2>1 DEF NamesInv
  <2> QED  BY <1>2, <2>1, <2>2 DEF NamesInv
<1>4. CASE Tick
  <2>1. PICK curr : curr = ParseSave(Save(world))
    OBVIOUS
  <2>2. db = [rows |-> db.rows, events |-> db.events]
    BY DEF NamesInv
  <2>3. /\ prev # None /\ prev' = curr /\ UNCHANGED world
        /\ \A s : s \in db'.events <=>
             \/ s \in db.events
             \/ \E id \in Tracked : \E e \in DiffTracked(id, prev, curr) : s = Stored(e, curr.date)
    BY <1>4, <2>1, <2>2, TickStores
  <2>4. db' = [rows |-> db'.rows, events |-> db'.events]
    BY <1>4 DEF Tick, IngestDiffEvents
  <2>5. SnapSound(prev) /\ SnapSound(curr)
    BY <2>1, <2>3, SnapshotSound DEF SoundInv, Vocabulary
  <2>6. ASSUME NEW s \in db'.events
        PROVE  Renderable(s) /\ \A x \in DOMAIN curr.characters : Looks(s, x) => HasName(db'.rows[x])
    <3>1. CASE s \in db.events
      <4>1. Renderable(s)
        BY <3>1 DEF NamesInv
      <4>2. ASSUME NEW x \in DOMAIN curr.characters, Looks(s, x)  PROVE  HasName(db'.rows[x])
        <5>1. x \in Char
          BY <2>1, FirstNames DEF SoundInv
        <5>2. CASE x \in Tracked
          BY <1>4, <2>1, <2>2, <5>2, TickNames
        <5>3. CASE x \notin Tracked
          <6>1. x \in DOMAIN prev.characters
            BY <2>3, <5>1, <5>3 DEF NamesInv
          <6>2. HasName(db.rows[x])
            BY <3>1, <4>2, <6>1 DEF NamesInv
          <6> QED  BY <1>4, <2>1, <2>2, <6>2, TickNames
        <5> QED  BY <5>2, <5>3
      <4> QED  BY <4>1, <4>2
    <3>2. ASSUME NEW id \in Tracked, NEW e \in DiffTracked(id, prev, curr), s = Stored(e, curr.date)
          PROVE  Renderable(s) /\ \A x \in DOMAIN curr.characters : Looks(s, x) => HasName(db'.rows[x])
      <4>1. Spoken(e, curr)
        BY <2>5, TrackedSpoken, TrackedAssumption
      <4>2. Renderable(s) /\ \A x : Looks(s, x) => Looks(e, x)
        BY <3>2, <4>1, TrackedEvent, StoredFields DEF Spoken
      <4>3. ASSUME NEW x \in DOMAIN curr.characters, Looks(s, x)  PROVE  HasName(db'.rows[x])
        <5>1. x # None
          BY <2>1, FirstNames DEF SoundInv
        <5>2. \E r \in e.with : r[2] = x
          BY <4>1, <4>2, <4>3, <5>1 DEF Spoken, Introduced
        <5> QED  BY <1>4, <2>1, <2>2, <5>2, TickNames
      <4> QED  BY <4>2, <4>3
    <3> QED  BY <2>3, <3>1, <3>2
  <2> QED  BY <1>2, <2>1, <2>3, <2>4, <2>6 DEF NamesInv, HasName
<1>5. CASE UNCHANGED vars
  BY <1>5 DEF vars, NamesInv, HasName
<1> QED  BY <1>1, <1>3, <1>4, <1>5 DEF Next

\* What the line of an event leaves as a bare id is one it looks up without a
\* name for it, and one of the ids the extractor collects.
LEMMA BareLooks ==
  ASSUME NEW e, Renderable(e), NEW names, NEW titles, NEW x \in RenderEvent(e, names, titles).bare
  PROVE  Looks(e, x) /\ x \notin names
<1> DEFINE at(key)  == {Get(e.p, key)} \ {None}
           always   == Participants(e) \cup IF e.t \in DOMAIN NamedOrId THEN at(NamedOrId[e.t]) ELSE {}
           keys     == IF e.t \in DOMAIN PayloadNameFirst THEN PayloadNameFirst[e.t] ELSE <<"", "">>
           inline   == at(keys[2])
           looked   == IF inline = {} THEN at(keys[1]) ELSE {}
<1>1. RenderEvent(e, names, titles).bare = (always \cup looked) \ names
  BY DEF RenderEvent
<1>2. x \notin names /\ (x \in always \/ x \in looked)
  BY <1>1
<1>3. CASE x \in always
  BY <1>2, <1>3 DEF Participants, Looks
<1>4. CASE x \in looked
  <2>1. CASE e.t \in DOMAIN PayloadNameFirst
    BY <1>2, <1>4, <2>1 DEF Looks
  <2>2. CASE e.t \notin DOMAIN PayloadNameFirst
    <3>1. keys[1] = ""
      BY <2>2
    <3>2. Get(e.p, "") = None
      BY DEF Renderable, Get
    <3> QED  BY <1>4, <3>1, <3>2
  <2> QED  BY <2>1, <2>2
<1> QED  BY <1>2, <1>3, <1>4

LEMMA LooksReferenced ==
  ASSUME NEW events, NEW e \in events, Renderable(e), NEW x, Looks(e, x)
  PROVE  x \in Referenced(events)
<1>1. CASE e.t = "vanilla_memory" /\ x \in Range(e.p.participants)
  <2>1. "participants" \in DOMAIN e.p
    BY <1>1 DEF Renderable
  <2> QED  BY <1>1, <2>1 DEF Referenced
<1>2. ASSUME NEW k \in CharacterIdKeys, x = Get(e.p, k), x # None
      PROVE  x \in Referenced(events)
  <2>1. k \in DOMAIN e.p \cap CharacterIdKeys /\ x = e.p[k]
    BY <1>2 DEF Get
  <2> QED  BY <2>1 DEF Referenced
<1>3. ASSUME NEW t \in DOMAIN NamedOrId  PROVE  NamedOrId[t] \in CharacterIdKeys
  BY DEF NamedOrId, CharacterIdKeys
<1>4. ASSUME NEW t \in DOMAIN PayloadNameFirst  PROVE  PayloadNameFirst[t][1] \in CharacterIdKeys
  BY DEF PayloadNameFirst, CharacterIdKeys
<1> QED  BY <1>1, <1>2, <1>3, <1>4 DEF Looks

\* A rank that was stored too early is recovered from the primary title.
LEMMA RankRecovered ==
  ASSUME NEW e, NEW names, NEW titles, NEW l, l = RenderEvent(e, names, titles), l.title # None,
         l.title.tier = "other"
  PROVE  Get(titles, l.title.key) \in {None, "other"}
<1>1. l.title = IF e.t \in DOMAIN TitleEvents
                THEN [key |-> e.p.title_key, tier |-> ResolveTier(e.p, titles)] ELSE None
  BY DEF RenderEvent
<1>2. l.title.key = e.p.title_key /\ ResolveTier(e.p, titles) = "other"
  BY <1>1
<1> QED  BY <1>2 DEF ResolveTier, Get

\* Every line of a briefing tells its event, and shows a bare id only for
\* whom the newest save does not know and a title without a rank only where
\* that save has none for the subject's first
\* (extract_referenced_ids, upsert_character, _RENDERERS, _resolve_tier).
THEOREM LinesAlwaysTrue ==
  ASSUME Atoms, Vocabulary
  PROVE  Spec => []LinesTrue
<1>1. NamesInv => LinesTrue
  <2> SUFFICES ASSUME NamesInv, NEW c \in Tracked, db.rows[c] # None, NEW l \in BuildBriefing(db, c).lines
               PROVE  /\ l.bare \cap DOMAIN prev.characters = {}
                      /\ l.told
                      /\ (l.title # None /\ l.title.tier = "other") =>
                           Get(TitlesMap(db.rows[c]), l.title.key) \in {None, "other"}
    BY Zenon DEF LinesTrue
  <2>1. BuildBriefing(db, c).lines
          = {RenderEvent(e, NamesMap(db, c), TitlesMap(db.rows[c])) : e \in EventsOf(db, c)}
    BY Zenon DEF BuildBriefing
  <2>2. PICK names, titles : names = NamesMap(db, c) /\ titles = TitlesMap(db.rows[c])
    OBVIOUS
  <2>3. PICK e \in EventsOf(db, c) : l = RenderEvent(e, names, titles)
    BY <2>1, <2>2
  <2>4. e \in db.events /\ Renderable(e)
    BY <2>3 DEF EventsOf, NamesInv
  <2>5. l.told
    <3>1. l.told = (e.t \in Renderers)
      BY <2>3, Zenon DEF RenderEvent
    <3> QED  BY <2>4, <3>1 DEF Renderable
  <2>6. ASSUME NEW x \in DOMAIN prev.characters, x \in l.bare
        PROVE  FALSE
    <3>1. Looks(e, x) /\ x \notin names
      BY <2>3, <2>4, <2>6, BareLooks
    <3>2. x \in Referenced(EventsOf(db, c))
      BY <2>4, <3>1, LooksReferenced
    <3>3. HasName(db.rows[x])
      BY <2>4, <3>1 DEF NamesInv
    <3> QED  BY <2>2, <3>1, <3>2, <3>3 DEF NamesMap, Related, HasName
  <2> QED  BY <2>2, <2>3, <2>5, <2>6, RankRecovered
<1>2. Init => SoundInv /\ NamesInv
  BY InitSound, InitNames
<1>3. SoundInv /\ NamesInv /\ [Next]_vars => (SoundInv /\ NamesInv)'
  BY NextSound, NextNames
<1> QED  BY <1>1, <1>2, <1>3, PTL DEF Spec

-----------------------------------------------------------------------------
(* What a briefing says of kin and of great causes.                        *)

\* A game whose families are as the moves leave them: whom a tracked character
\* has married, left or taken as a concubine is not tracked, its primary spouse is
\* a spouse, and only tracked characters are parents, of tracked characters without
\* children.
Ties == {"spouses", "former", "primary", "concubines", "children"}
FamilyOK(w) ==
  /\ Ties \subseteq DOMAIN w
  /\ \A f \in Ties : DOMAIN w[f] = Char
  /\ \A c \in Tracked : /\ (w.spouses[c] \cup w.former[c] \cup w.concubines[c]) \cap Tracked = {}
                        /\ w.primary[c] \in w.spouses[c] \cup {None}
  /\ \A x \in Char : \A c \in w.children[x] : {c, x} \subseteq Tracked /\ w.children[c] = {}

SameTies(w, v) == Ties \subseteq DOMAIN v /\ \A f \in Ties : v[f] = w[f]

LEMMA SameFamily ==
  ASSUME NEW w, FamilyOK(w), NEW v, SameTies(w, v)
  PROVE  FamilyOK(v)
<1>1. /\ v.spouses = w.spouses /\ v.former = w.former /\ v.primary = w.primary
      /\ v.concubines = w.concubines /\ v.children = w.children
  BY DEF SameTies, Ties
<1> QED  BY <1>1 DEF SameTies, FamilyOK

\* A move that writes fields of no family.
LEMMA FieldTies ==
  ASSUME NEW w, FamilyOK(w), NEW f, f \notin Ties, NEW x
  PROVE  SameTies(w, [w EXCEPT ![f] = x])
BY DEF SameTies, FamilyOK

LEMMA EntryTies ==
  ASSUME NEW w, FamilyOK(w), NEW f, f \notin Ties, NEW k, NEW x
  PROVE  SameTies(w, [w EXCEPT ![f][k] = x])
BY DEF SameTies, FamilyOK

LEMMA DidTies ==
  ASSUME NEW w, NEW v, SameTies(w, v), NEW h
  PROVE  SameTies(w, Did(v, h))
<1>1. PICK x : Did(v, h) = [v EXCEPT !.done = x]
  BY Zenon DEF Did
<1> QED  BY <1>1 DEF SameTies, Ties

LEMMA RememberTies ==
  ASSUME NEW w, FamilyOK(w), NEW c, NEW m, NEW t, NEW roles
  PROVE  SameTies(w, Remember(w, c, m, t, roles))
<1>1. PICK x, y : Remember(w, c, m, t, roles) = [w EXCEPT !.memories[c] = x, !.memory[m] = y]
  BY Zenon DEF Remember
<1> QED  BY <1>1 DEF SameTies, FamilyOK, Ties

LEMMA DieTies ==
  ASSUME NEW w, FamilyOK(w), NEW v \in Deaths(w)
  PROVE  SameTies(w, v)
<1>1. PICK c \in Tracked : \E s \in NextStage[w.life[c]] : \E k : v = Die(w, c, s, k)
  BY DEF Deaths
<1>2. PICK s, k : v = Die(w, c, s, k)
  BY <1>1
<1> QED  BY <1>2 DEF Die, SameTies, FamilyOK, Ties

LEMMA TurnsTies ==
  ASSUME NEW w, FamilyOK(w), NEW c, NEW v \in Turns(w, c)
  PROVE  SameTies(w, v)
<1>1. PICK x : \/ v = [w EXCEPT !.location[c] = x] \/ v = [w EXCEPT !.culture[c] = x]
               \/ v = [w EXCEPT !.faith[c] = x] \/ v = [w EXCEPT !.nickname[c] = x]
  BY DEF Turns
<1> QED  BY <1>1 DEF SameTies, FamilyOK, Ties

LEMMA CareersTies ==
  ASSUME NEW w, FamilyOK(w), NEW c, NEW v \in Careers(w, c)
  PROVE  SameTies(w, v)
<1>1. PICK x : \/ v = [w EXCEPT !.modifiers[c] = x] \/ v = [w EXCEPT !.government[c] = x]
               \/ v = [w EXCEPT !.cooldowns[c] = x] \/ v = [w EXCEPT !.perk[c] = x]
  BY DEF Careers
<1> QED  BY <1>1 DEF SameTies, FamilyOK, Ties

LEMMA TitlesTies ==
  ASSUME NEW w, FamilyOK(w), NEW v \in TitleMoves(w)
  PROVE  SameTies(w, v)
<1>1. PICK t, x : v = [w EXCEPT !.titles[t] = x]
  BY DEF TitleMoves
<1> QED  BY <1>1 DEF SameTies, FamilyOK, Ties

LEMMA BondsTies ==
  ASSUME NEW w, FamilyOK(w), NEW v \in BondMoves(w)
  PROVE  SameTies(w, v)
<1>1. DOMAIN v = DOMAIN w /\ \A f \in DOMAIN w \ {"relations", "artifacts", "court"} : v[f] = w[f]
  BY DEF BondMoves
<1> QED  BY <1>1 DEF SameTies, FamilyOK, Ties

LEMMA DynastyTies ==
  ASSUME NEW w, FamilyOK(w), NEW v \in DynastyMoves(w)
  PROVE  SameTies(w, v)
<1>1. DOMAIN v = DOMAIN w /\ \A f \in DOMAIN w \ {"dynasties", "house"} : v[f] = w[f]
  BY DEF DynastyMoves
<1> QED  BY <1>1 DEF SameTies, FamilyOK, Ties

LEMMA WarsTies ==
  ASSUME NEW w, FamilyOK(w), NEW v \in WarMoves(w)
  PROVE  SameTies(w, v)
<1>1. \/ \E c, d, k : v = Declare(w, c, d, k)
      \/ \E c, k : v \in Musters(w, c, k)
      \/ \E k : v = [w EXCEPT !.wars[k] = Junk]
  BY DEF WarMoves
<1>2. ASSUME NEW c, NEW d, NEW k, v = Declare(w, c, d, k)  PROVE  SameTies(w, v)
  <2>1. PICK u, x, h : u = [w EXCEPT !.wars[k] = x] /\ v = Did(u, h)
    BY <1>2, Zenon DEF Declare
  <2>2. SameTies(w, u)
    BY <2>1 DEF SameTies, FamilyOK, Ties
  <2> QED  BY <2>1, <2>2, DidTies
<1>3. ASSUME NEW c, NEW k, v \in Musters(w, c, k)  PROVE  SameTies(w, v)
  BY <1>3 DEF Musters, SameTies, FamilyOK, Ties
<1>4. ASSUME NEW k, v = [w EXCEPT !.wars[k] = Junk]  PROVE  SameTies(w, v)
  BY <1>4 DEF SameTies, FamilyOK, Ties
<1> QED  BY <1>1, <1>2, <1>3, <1>4

LEMMA WorksTies ==
  ASSUME NEW w, FamilyOK(w), NEW v \in WorkMoves(w)
  PROVE  SameTies(w, v)
<1>1. PICK c : v \in SiteMoves(w, c) \/ v \in ContractMoves(w, c) \/ v \in Occasions(w, c)
  BY Zenon DEF WorkMoves
<1>2. CASE v \in SiteMoves(w, c)
  <2>1. PICK u, x, y, h : \/ v = [w EXCEPT !.sites[Site] = x]
                          \/ u = [w EXCEPT !.buildings[Site] = x, !.sites[Site] = y] /\ v = Did(u, h)
    BY <1>2, Zenon DEF SiteMoves
  <2>2. v = [w EXCEPT !.sites[Site] = x] => SameTies(w, v)
    BY DEF SameTies, FamilyOK, Ties
  <2>3. u = [w EXCEPT !.buildings[Site] = x, !.sites[Site] = y] => SameTies(w, u)
    BY DEF SameTies, FamilyOK, Ties
  <2> QED  BY <2>1, <2>2, <2>3, DidTies
<1>3. CASE v \in ContractMoves(w, c)
  <2>1. PICK u, x, h : \/ v = [w EXCEPT !.contracts[1] = x] \/ v = [w EXCEPT !.contracts = x]
                       \/ u = [w EXCEPT !.contracts[1].status = x] /\ v = Did(u, h)
    BY <1>3, Zenon DEF ContractMoves
  <2>2. v = [w EXCEPT !.contracts[1] = x] \/ v = [w EXCEPT !.contracts = x] => SameTies(w, v)
    BY DEF SameTies, FamilyOK, Ties
  <2>3. u = [w EXCEPT !.contracts[1].status = x] => SameTies(w, u)
    BY DEF SameTies, FamilyOK, Ties
  <2> QED  BY <2>1, <2>2, <2>3, DidTies
<1>4. CASE v \in Occasions(w, c)
  <2>1. /\ DOMAIN v = DOMAIN w
        /\ \A f \in DOMAIN w \ {"epidemics", "activities", "sponsored", "inspirations", "titles",
                                "domiciles"} : v[f] = w[f]
    BY <1>4 DEF Occasions
  <2> QED  BY <2>1 DEF SameTies, FamilyOK, Ties
<1> QED  BY <1>1, <1>2, <1>3, <1>4

LEMMA CarryTies ==
  ASSUME NEW w, FamilyOK(w), NEW c, NEW v \in Carry(w, c)
  PROVE  SameTies(w, v)
<1>1. PICK m, r, u, x, h : \/ r = Remember(w, c, m, "child_born", << >>) /\ v = [r EXCEPT !.traits[c] = x]
                           \/ u = [w EXCEPT !.traits[c] = x] /\ v = Did(u, h)
                           \/ v = [w EXCEPT !.traits[c] = x]
  BY Zenon DEF Carry, Birth, Miscarry
<1>2. SameTies(w, r) /\ v = [r EXCEPT !.traits[c] = x] => SameTies(w, v)
  BY DEF SameTies, FamilyOK, Ties
<1>3. u = [w EXCEPT !.traits[c] = x] => SameTies(w, u)
  BY DEF SameTies, FamilyOK, Ties
<1>4. v = [w EXCEPT !.traits[c] = x] => SameTies(w, v)
  BY DEF SameTies, FamilyOK, Ties
<1> QED  BY <1>1, <1>2, <1>3, <1>4, RememberTies, DidTies

\* A match is between a tracked character and one that is not.
LEMMA WedFamily ==
  ASSUME Atoms, NEW w, FamilyOK(w), NEW c \in Tracked, NEW d \in Char \ Tracked
  PROVE  FamilyOK(Wed(w, c, d))
<1>1. PICK u : u = [w EXCEPT !.spouses[c] = @ \cup {d}, !.spouses[d] = @ \cup {c},
                             !.primary[c] = IF @ = None THEN d ELSE @,
                             !.primary[d] = IF @ = None THEN c ELSE @]
  OBVIOUS
<1>2. /\ DOMAIN u = DOMAIN w
      /\ u.former = w.former /\ u.concubines = w.concubines /\ u.children = w.children
      /\ u.spouses = [w.spouses EXCEPT ![c] = @ \cup {d}, ![d] = @ \cup {c}]
      /\ u.primary = [w.primary EXCEPT ![c] = IF @ = None THEN d ELSE @, ![d] = IF @ = None THEN c ELSE @]
  BY <1>1 DEF FamilyOK, Ties
<1>3. c \in Char /\ c # d
  BY TrackedAssumption
<1>4. \A f \in Ties : DOMAIN u[f] = Char
  BY <1>2 DEF FamilyOK, Ties
<1>5. ASSUME NEW x \in Tracked
      PROVE  /\ (u.spouses[x] \cup u.former[x] \cup u.concubines[x]) \cap Tracked = {}
             /\ u.primary[x] \in u.spouses[x] \cup {None}
  <2>1. DOMAIN w.spouses = Char /\ DOMAIN w.primary = Char /\ x \in Char /\ x # d
    BY TrackedAssumption DEF FamilyOK, Ties
  <2>2. u.spouses[x] = IF x = c THEN w.spouses[x] \cup {d} ELSE w.spouses[x]
    BY <1>2, <1>3, <2>1
  <2>3. u.primary[x] = IF x = c /\ w.primary[x] = None THEN d ELSE w.primary[x]
    BY <1>2, <1>3, <2>1
  <2> QED  BY <1>2, <2>2, <2>3 DEF FamilyOK
<1>6. FamilyOK(u)
  BY <1>2, <1>4, <1>5 DEF FamilyOK
<1>7. PICK H : Wed(w, c, d) = Did(u, H)
  BY <1>1, Zenon DEF Wed
<1>8. SameTies(u, u)
  BY <1>6 DEF SameTies, FamilyOK
<1> QED  BY <1>6, <1>7, <1>8, DidTies, SameFamily

LEMMA PartFamily ==
  ASSUME Atoms, NEW w, FamilyOK(w), NEW c \in Tracked, NEW d \in Char \ Tracked
  PROVE  FamilyOK(Part(w, c, d)) /\ FamilyOK(Split(w, c, d))
<1>1. PICK u : u = Part(w, c, d)
  OBVIOUS
<1>2. /\ DOMAIN u = DOMAIN w
      /\ u.former = w.former /\ u.concubines = w.concubines /\ u.children = w.children
      /\ u.spouses = [w.spouses EXCEPT ![c] = @ \ {d}, ![d] = @ \ {c}]
      /\ u.primary = [w.primary EXCEPT ![c] = Promoted(w, c, d), ![d] = Promoted(w, d, c)]
  BY <1>1 DEF Part, FamilyOK, Ties
<1>3. c \in Char /\ c # d /\ \A f \in Ties : DOMAIN u[f] = Char
  BY <1>2, TrackedAssumption DEF FamilyOK, Ties
<1>4. Promoted(w, c, d) \in (w.spouses[c] \ {d}) \cup {None}
  <2>1. w.primary[c] \in w.spouses[c] \cup {None}
    BY DEF FamilyOK
  <2>2. CASE w.primary[c] # d \/ w.spouses[c] = {d}
    BY <2>1, <2>2 DEF Promoted
  <2>3. CASE w.primary[c] = d /\ w.spouses[c] # {d} /\ \E e \in w.spouses[c] : e # d
    BY <2>3 DEF Promoted
  <2>4. CASE w.primary[c] = d /\ w.spouses[c] = {}
    BY <2>1, <2>4 DEF Atoms
  <2> QED  BY <2>1, <2>2, <2>3, <2>4
<1>5. ASSUME NEW x \in Tracked
      PROVE  /\ (u.spouses[x] \cup u.former[x] \cup u.concubines[x]) \cap Tracked = {}
             /\ u.primary[x] \in u.spouses[x] \cup {None}
  <2>1. DOMAIN w.spouses = Char /\ DOMAIN w.primary = Char /\ x \in Char /\ x # d
    BY TrackedAssumption DEF FamilyOK, Ties
  <2>2. u.spouses[x] = IF x = c THEN w.spouses[x] \ {d} ELSE w.spouses[x]
    BY <1>2, <1>3, <2>1
  <2>3. u.primary[x] = IF x = c THEN Promoted(w, c, d) ELSE w.primary[x]
    BY <1>2, <1>3, <2>1
  <2> QED  BY <1>2, <1>4, <2>2, <2>3 DEF FamilyOK
<1>6. FamilyOK(u)
  BY <1>2, <1>3, <1>5 DEF FamilyOK
<1>7. PICK s : s = [u EXCEPT !.former[c] = @ \cup {d}, !.former[d] = @ \cup {c}]
  OBVIOUS
<1>8. /\ DOMAIN s = DOMAIN u
      /\ s.spouses = u.spouses /\ s.primary = u.primary
      /\ s.concubines = u.concubines /\ s.children = u.children
      /\ s.former = [u.former EXCEPT ![c] = @ \cup {d}, ![d] = @ \cup {c}]
  BY <1>6, <1>7 DEF FamilyOK, Ties
<1>9. \A f \in Ties : DOMAIN s[f] = Char
  BY <1>3, <1>8 DEF Ties
<1>10. ASSUME NEW x \in Tracked  PROVE  s.former[x] \subseteq u.former[x] \cup {d}
  <2>1. DOMAIN u.former = Char /\ x \in Char /\ x # d
    BY <1>3, TrackedAssumption DEF Ties
  <2> QED  BY <1>3, <1>8, <2>1
<1>11. FamilyOK(s)
  <2>1. ASSUME NEW x \in Tracked
        PROVE  /\ (s.spouses[x] \cup s.former[x] \cup s.concubines[x]) \cap Tracked = {}
               /\ s.primary[x] \in s.spouses[x] \cup {None}
    <3>1. /\ (u.spouses[x] \cup u.former[x] \cup u.concubines[x]) \cap Tracked = {}
          /\ u.primary[x] \in u.spouses[x] \cup {None}
      BY <1>5
    <3> QED  BY <1>8, <1>10, <3>1
  <2>2. Ties \subseteq DOMAIN s /\ s.children = w.children
    BY <1>2, <1>8 DEF FamilyOK
  <2> QED  BY <1>9, <2>1, <2>2 DEF FamilyOK
<1>12. PICK H : Split(w, c, d) = Did(s, H)
  BY <1>1, <1>7, Zenon DEF Split
<1>13. SameTies(s, s)
  BY <1>11 DEF SameTies, FamilyOK
<1> QED  BY <1>1, <1>6, <1>11, <1>12, <1>13, DidTies, SameFamily

LEMMA FamilyStays ==
  ASSUME Atoms, NEW w, FamilyOK(w), NEW v \in FamilyMoves(w)
  PROVE  FamilyOK(v)
<1>1. PICK c \in Tracked : v \in Carry(w, c) \/ \E d \in Char \ Tracked : v \in Matches(w, c, d)
  BY DEF FamilyMoves, Alive
<1>2. ASSUME NEW d \in Char \ Tracked, v \in Matches(w, c, d)  PROVE  FamilyOK(v)
  <2>1. \/ v \in {Part(w, c, d), Split(w, c, d), Wed(w, c, d)}
        \/ v = [w EXCEPT !.concubines[c] = @ \cup {d}]
    BY <1>2, Zenon DEF Matches
  <2>2. CASE v = [w EXCEPT !.concubines[c] = @ \cup {d}]
    <3>1. /\ DOMAIN v = DOMAIN w
          /\ v.spouses = w.spouses /\ v.former = w.former /\ v.primary = w.primary
          /\ v.children = w.children /\ v.concubines = [w.concubines EXCEPT ![c] = @ \cup {d}]
      BY <2>2 DEF FamilyOK, Ties
    <3>2. \A f \in Ties : DOMAIN v[f] = Char
      BY <3>1 DEF FamilyOK, Ties
    <3>3. \A x \in Tracked : v.concubines[x] \subseteq w.concubines[x] \cup {d}
      BY <3>1, TrackedAssumption DEF FamilyOK, Ties
    <3> QED  BY <3>1, <3>2, <3>3 DEF FamilyOK
  <2> QED  BY <2>1, <2>2, WedFamily, PartFamily
<1> QED  BY <1>1, <1>2, CarryTies, SameFamily

LEMMA MovesFamily ==
  ASSUME Atoms, facet \in Facets, NEW w, FamilyOK(w), NEW v \in Moves(w)
  PROVE  FamilyOK(v)
<1>1. CASE v \in Deaths(w)
  BY <1>1, DieTies, SameFamily
<1>2. CASE v \notin Deaths(w)
  <2>1. CASE facet = "life"
    <3>1. PICK c : v = [w EXCEPT !.location[c] = 3 - @]
      BY <1>2, <2>1, Zenon DEF Moves
    <3>2. SameTies(w, v)
      BY <3>1 DEF SameTies, FamilyOK, Ties
    <3> QED  BY <3>2, SameFamily
  <2>2. CASE facet = "person"
    <3>1. PICK c : v \in Turns(w, c)
      BY <1>2, <2>2, Zenon DEF Moves, PersonMoves
    <3> QED  BY <3>1, TurnsTies, SameFamily
  <2>3. CASE facet = "court"
    <3>1. PICK c : v \in Careers(w, c)
      BY <1>2, <2>3, Zenon DEF Moves, CourtMoves
    <3> QED  BY <3>1, CareersTies, SameFamily
  <2>4. CASE facet = "family"
    BY <1>2, <2>4, FamilyStays DEF Moves
  <2>5. CASE facet = "mourning"
    <3>1. \E c, m, d : v = Mourn(w, c, m, d)
      BY <1>2, <2>5 DEF Moves, MourningMoves
    <3> QED  BY <3>1, RememberTies, SameFamily DEF Mourn
  <2>6. CASE facet = "titles"
    BY <1>2, <2>6, TitlesTies, SameFamily DEF Moves
  <2>7. CASE facet = "wars"
    BY <1>2, <2>7, WarsTies, SameFamily DEF Moves
  <2>8. CASE facet = "bonds"
    BY <1>2, <2>8, BondsTies, SameFamily DEF Moves
  <2>9. CASE facet = "works"
    BY <1>2, <2>9, WorksTies, SameFamily DEF Moves
  <2>10. CASE facet = "dynasty"
    BY <1>2, <2>10, DynastyTies, SameFamily DEF Moves
  <2> QED  BY <2>1, <2>2, <2>3, <2>4, <2>5, <2>6, <2>7, <2>8, <2>9, <2>10 DEF Facets
<1> QED  BY <1>1, <1>2

LEMMA World0Family ==
  ASSUME Atoms
  PROVE  FamilyOK(World0) /\ FamilyOK(AtWar)
<1>1. PICK parent : parent = CHOOSE c \in Tracked : TRUE
  OBVIOUS
<1>2. /\ Ties \subseteq DOMAIN World0
      /\ World0.spouses = [c \in Char |-> {}] /\ World0.former = [c \in Char |-> {}]
      /\ World0.concubines = [c \in Char |-> {}] /\ World0.primary = [c \in Char |-> None]
      /\ World0.children = [[c \in Char |-> {}] EXCEPT ![parent] = Tracked \ {parent}]
  BY <1>1 DEF World0, Ties
<1>3. \A c \in Tracked : parent \in Tracked
  BY <1>1
<1>4. \A f \in Ties : DOMAIN World0[f] = Char
  BY <1>2 DEF Ties
<1>5. \A x \in Char : \A c \in World0.children[x] : {c, x} \subseteq Tracked /\ World0.children[c] = {}
  BY <1>2, <1>3, TrackedAssumption
<1>6. FamilyOK(World0)
  BY <1>2, <1>4, <1>5, TrackedAssumption DEF FamilyOK
<1>7. PICK x : AtWar = [World0 EXCEPT !.wars[1] = x]
  BY Zenon DEF AtWar
<1>8. SameTies(World0, AtWar)
  BY <1>6, <1>7 DEF SameTies, FamilyOK, Ties
<1> QED  BY <1>6, <1>8, SameFamily

\* The family in a snapshot is the one the game wrote.
LEMMA FamilyReads ==
  ASSUME Atoms, NEW w, WorldOK(w), NEW c \in DOMAIN ParseSave(Save(w)).characters
  PROVE  /\ c \in Char
         /\ ParseSave(Save(w)).characters[c].family =
              [primary_spouse |-> w.primary[c], spouses |-> w.spouses[c],
               former_spouses |-> w.former[c], concubines |-> w.concubines[c],
               children |-> w.children[c], mother |-> None, father |-> None]
<1>1. PICK r, dead, memories : r = Person(w, c) /\ dead = (w.life[c] \notin Walking) /\ memories = w.memory
  BY Zenon
<1>2. c \in Char /\ w.life[c] # "gone" /\ ParseSave(Save(w)).characters[c] = ParseCharacter(r, dead, memories)
  BY <1>1, Snapshot
<1>3. PICK f : f = [primary_spouse |-> w.primary[c], spouses |-> w.spouses[c],
                    former_spouses |-> w.former[c], concubines |-> w.concubines[c],
                    children |-> w.children[c], mother |-> None, father |-> None]
  OBVIOUS
<1>4. r.family_data = f
  BY <1>1, <1>3 DEF Person
<1>5. ParseCharacter(r, dead, memories).family = ParseFamily(r.family_data)
  BY Zenon DEF ParseCharacter
<1>6. f # Junk
  BY <1>3 DEF Atoms
<1> QED  BY <1>2, <1>3, <1>4, <1>5, <1>6 DEF ParseFamily

\* What a baseline says of a family.
FamilyRead(snap, c) ==
  LET family == snap.characters[c].family
  IN  /\ c \in Char
      /\ family # None /\ family.father = None /\ family.mother = None
      /\ c \in Tracked =>
           /\ (family.spouses \cup family.former_spouses \cup family.concubines) \cap Tracked = {}
           /\ family.primary_spouse \in family.spouses \cup {None}
      /\ \A k \in family.children :
           /\ {c, k} \subseteq Tracked
           /\ k \in DOMAIN snap.characters => snap.characters[k].family.children = {}

LEMMA FamiliesRead ==
  ASSUME Atoms, NEW w, WorldOK(w), FamilyOK(w), NEW snap, NEW S,
         snap.characters = [c \in S |-> ParseSave(Save(w)).characters[c]],
         S \subseteq DOMAIN ParseSave(Save(w)).characters,
         NEW c \in DOMAIN snap.characters
  PROVE  FamilyRead(snap, c)
<1>1. ASSUME NEW x \in S
      PROVE  /\ x \in Char /\ snap.characters[x].family # None
             /\ snap.characters[x].family.father = None /\ snap.characters[x].family.mother = None
             /\ snap.characters[x].family.primary_spouse = w.primary[x]
             /\ snap.characters[x].family.spouses = w.spouses[x]
             /\ snap.characters[x].family.former_spouses = w.former[x]
             /\ snap.characters[x].family.concubines = w.concubines[x]
             /\ snap.characters[x].family.children = w.children[x]
  <2>1. PICK f : f = [primary_spouse |-> w.primary[x], spouses |-> w.spouses[x],
                      former_spouses |-> w.former[x], concubines |-> w.concubines[x],
                      children |-> w.children[x], mother |-> None, father |-> None]
    OBVIOUS
  <2>2. x \in Char /\ snap.characters[x].family = f
    BY <2>1, FamilyReads
  <2>3. f # None
    BY <2>1 DEF Atoms
  <2> QED  BY <2>1, <2>2, <2>3
<1>2. c \in S /\ DOMAIN snap.characters = S
  OBVIOUS
<1>3. PICK family : family = snap.characters[c].family
  OBVIOUS
<1>4. /\ c \in Char /\ family # None /\ family.father = None /\ family.mother = None
      /\ family.primary_spouse = w.primary[c] /\ family.spouses = w.spouses[c]
      /\ family.former_spouses = w.former[c] /\ family.concubines = w.concubines[c]
      /\ family.children = w.children[c]
  BY <1>1, <1>2, <1>3
<1>5. c \in Tracked => /\ (family.spouses \cup family.former_spouses \cup family.concubines) \cap Tracked = {}
                       /\ family.primary_spouse \in family.spouses \cup {None}
  BY <1>4 DEF FamilyOK
<1>6. ASSUME NEW k \in family.children
      PROVE  {c, k} \subseteq Tracked /\ (k \in S => snap.characters[k].family.children = {})
  <2>1. {c, k} \subseteq Tracked /\ w.children[k] = {}
    BY <1>4, <1>6 DEF FamilyOK
  <2> QED  BY <1>1, <2>1
<1> QED  BY <1>2, <1>3, <1>4, <1>5, <1>6 DEF FamilyRead

\* A column of an upserted row.
LEMMA UpsertColumn ==
  ASSUME Atoms, NEW row, NEW f, NEW k \in Column
  PROVE  /\ UpsertCharacter(row, f) # None
         /\ UpsertCharacter(row, f)[k] =
              IF k \in DOMAIN f /\ (f[k] # None \/ k \in NullableOnUpdate) THEN f[k]
              ELSE IF row = None THEN None ELSE row[k]
<1>1. PICK u : u = UpsertCharacter(row, f)
  OBVIOUS
<1>2. u = [x \in DOMAIN u |-> u[x]]
  BY <1>1 DEF UpsertCharacter
<1>3. u # None
  BY <1>2 DEF Atoms
<1> QED  BY <1>1, <1>3 DEF UpsertCharacter

\* What a refresh writes of family and great cause.
LEMMA RefreshedRecord ==
  ASSUME Atoms, NEW rows, NEW snap, NEW c \in Tracked, c \in DOMAIN snap.characters,
         snap.characters[c].family # None
  PROVE  /\ RefreshTracked(rows, snap, Tracked)[c] # None
         /\ RefreshTracked(rows, snap, Tracked)[c].record = snap.characters[c].family
         /\ RefreshTracked(rows, snap, Tracked)[c].cause = DetectGreatCause(snap, c)
<1>1. PICK g, r : /\ g = [region |-> SummariseRegion(snap, c), cause |-> DetectGreatCause(snap, c)]
                  /\ r = [culture |-> snap.characters[c].culture,
                          record |-> snap.characters[c].family,
                          held |-> IF snap.titles.of[c] = {} THEN None ELSE HeldTitles(snap, c)]
  OBVIOUS
<1>2. PICK i, f : i = Identity(snap, c) /\ f = Merge(Merge(i, r), g)
  OBVIOUS
<1>3. c \in Char
  BY TrackedAssumption
<1>4. RefreshTracked(rows, snap, Tracked)[c] = UpsertCharacter(rows[c], f)
  BY <1>1, <1>2, <1>3, Zenon DEF RefreshTracked, HydrateColumns
<1>5. DOMAIN i \cap {"record", "cause"} = {}
  BY <1>2 DEF Identity
<1>6. /\ "record" \in DOMAIN f /\ f["record"] = snap.characters[c].family
      /\ "cause" \in DOMAIN f /\ f["cause"] = DetectGreatCause(snap, c)
  BY <1>1, <1>2, <1>5 DEF Merge
<1>7. "cause" \in NullableOnUpdate /\ {"record", "cause"} \subseteq Column
  BY DEF NullableOnUpdate, Column
<1>8. /\ UpsertCharacter(rows[c], f) # None
      /\ UpsertCharacter(rows[c], f)["record"] = snap.characters[c].family
      /\ UpsertCharacter(rows[c], f)["cause"] = DetectGreatCause(snap, c)
  BY <1>6, <1>7, UpsertColumn
<1> QED  BY <1>4, <1>8

\* The identities an event brings leave both alone, and bring a new row neither.
LEMMA IngestedRecord ==
  ASSUME Atoms, NEW row, NEW snap, NEW c
  PROVE  LET u == UpsertCharacter(row, Identity(snap, c))
         IN  /\ u # None
             /\ u.record = IF row = None THEN None ELSE row.record
             /\ u.cause = IF row = None THEN None ELSE row.cause
<1>1. DOMAIN Identity(snap, c) \cap {"record", "cause"} = {}
  BY DEF Identity
<1>2. {"record", "cause"} \subseteq Column
  BY DEF Column
<1>3. PICK u, f : u = UpsertCharacter(row, f) /\ f = Identity(snap, c)
  OBVIOUS
<1>4. /\ u # None
      /\ u["record"] = IF row = None THEN None ELSE row["record"]
      /\ u["cause"] = IF row = None THEN None ELSE row["cause"]
  BY <1>1, <1>2, <1>3, UpsertColumn
<1> QED  BY <1>3, <1>4

LEMMA TickRecord ==
  ASSUME Atoms, db = [rows |-> db.rows, events |-> db.events], Tick, NEW c \in Char
  PROVE  /\ c \in Tracked /\ c \in DOMAIN prev'.characters /\ prev'.characters[c].family # None =>
              /\ db'.rows[c] # None
              /\ db'.rows[c].record = prev'.characters[c].family
              /\ db'.rows[c].cause = DetectGreatCause(prev', c)
         /\ c \notin Tracked /\ (db.rows[c] # None => db.rows[c].record = None) =>
              (db'.rows[c] # None => db'.rows[c].record = None)
<1>1. PICK curr : curr = ParseSave(Save(world))
  OBVIOUS
<1>2. PICK rows : rows = RefreshTracked(db.rows, curr, Tracked)
  OBVIOUS
<1>3. PICK base : base = [db EXCEPT !.rows = rows]
  OBVIOUS
<1>4. PICK diff : diff = SafeDiff(prev, curr, Tracked)
  OBVIOUS
<1>5. prev' = curr /\ db' = IngestDiffEvents(base, diff, curr)
  BY <1>1, <1>2, <1>3, <1>4 DEF Tick
<1>6. base.rows = rows
  BY <1>3
<1>7. db'.rows[c] = rows[c] \/ db'.rows[c] = UpsertCharacter(rows[c], Identity(curr, c))
  BY <1>5, <1>6 DEF IngestDiffEvents
<1>8. PICK u : u = UpsertCharacter(rows[c], Identity(curr, c))
  OBVIOUS
<1>9. /\ u # None
      /\ u.record = IF rows[c] = None THEN None ELSE rows[c].record
      /\ u.cause = IF rows[c] = None THEN None ELSE rows[c].cause
  BY <1>8, IngestedRecord
<1>10. c \notin Tracked => rows[c] = db.rows[c]
  BY <1>2 DEF RefreshTracked
<1>11. c \in Tracked /\ c \in DOMAIN curr.characters /\ curr.characters[c].family # None =>
         /\ rows[c] # None
         /\ rows[c].record = curr.characters[c].family
         /\ rows[c].cause = DetectGreatCause(curr, c)
  BY <1>2, RefreshedRecord
<1> QED  BY <1>5, <1>7, <1>8, <1>9, <1>10, <1>11

-----------------------------------------------------------------------------
\* What the rows say of family and great cause is what the baseline says; the
\* rows of the untracked say nothing of a family.
BriefedInv ==
  /\ facet \in Facets
  /\ WorldOK(world)
  /\ FamilyOK(world)
  /\ db = [rows |-> db.rows, events |-> db.events]
  /\ prev # None => \A c \in DOMAIN prev.characters : FamilyRead(prev, c)
  /\ \A c \in Char \ Tracked : db.rows[c] # None => db.rows[c].record = None
  /\ \A c \in Tracked : db.rows[c] # None =>
       /\ prev # None
       /\ c \in DOMAIN prev.characters => /\ db.rows[c].record = prev.characters[c].family
                                          /\ db.rows[c].cause = DetectGreatCause(prev, c)

LEMMA InitBriefed ==
  ASSUME Atoms, Init
  PROVE  BriefedInv
<1>1. facet \in Facets /\ db = [rows |-> [c \in Char |-> None], events |-> {}]
  BY DEF Init
<1>2. WorldOK(world) /\ FamilyOK(world)
  BY World0OK, World0Family DEF Init
<1>3. ASSUME prev # None, NEW c \in DOMAIN prev.characters
      PROVE  FamilyRead(prev, c)
  <2>1. PICK curr : curr = ParseSave(Save(World0))
    OBVIOUS
  <2>2. prev = [curr EXCEPT !.characters = Restrict(@, Char \ stale)]
    BY <1>3, <2>1, OldBaseline DEF Init, LoadBaseline
  <2>3. "characters" \in DOMAIN curr
    BY <2>1 DEF ParseSave
  <2>4. prev.characters = [x \in Char \ stale |-> curr.characters[x]]
    BY <2>2, <2>3 DEF Restrict
  <2>5. Char \ stale \subseteq DOMAIN curr.characters
    BY <2>1, Snapshot, World0OK
  <2> QED  BY <1>3, <2>1, <2>4, <2>5, World0OK, World0Family, FamiliesRead
<1>4. \A c \in Char : db.rows[c] = None
  BY <1>1
<1>5. db = [rows |-> db.rows, events |-> db.events]
  BY <1>1
<1> QED  BY <1>1, <1>2, <1>3, <1>4, <1>5, TrackedAssumption DEF BriefedInv

LEMMA NextBriefed ==
  ASSUME Atoms, BriefedInv, [Next]_vars
  PROVE  BriefedInv'
<1>1. CASE Play
  <2>1. WorldOK(world') /\ UNCHANGED <<facet, stale, prev, first, db>>
    BY <1>1, PlayWorld DEF BriefedInv
  <2>2. PICK v \in Moves(world) : world' = [v EXCEPT !.date = @ + 1]
    BY <1>1 DEF Play
  <2>3. FamilyOK(v)
    BY MovesFamily DEF BriefedInv
  <2>4. SameTies(v, world')
    BY <2>2, <2>3 DEF SameTies, FamilyOK, Ties
  <2>5. FamilyOK(world')
    BY <2>3, <2>4, SameFamily
  <2> QED  BY <2>1, <2>5 DEF BriefedInv
<1>2. ASSUME prev' = ParseSave(Save(world))
      PROVE  prev' # None /\ \A c \in DOMAIN prev'.characters : FamilyRead(prev', c)
  <2>1. DOMAIN prev'.characters = {c \in Char : world.life[c] # "gone"}
    BY <1>2, Snapshot DEF BriefedInv
  <2>2. prev'.characters = [c \in DOMAIN prev'.characters |-> ParseSave(Save(world)).characters[c]]
    <3>1. PICK raw : raw = Save(world)
      OBVIOUS
    <3>2. prev'.characters = ParseCharacters(raw)
      BY <1>2, <3>1, Zenon DEF ParseSave
    <3>3. ParseCharacters(raw) = [c \in DOMAIN ParseCharacters(raw) |-> ParseCharacters(raw)[c]]
      BY DEF ParseCharacters
    <3> QED  BY <1>2, <3>2, <3>3
  <2>3. \A c \in DOMAIN prev'.characters : FamilyRead(prev', c)
    BY <1>2, <2>2, FamiliesRead DEF BriefedInv
  <2> QED  BY <1>2, <2>3, SnapshotIsRecord
<1>3. CASE Adopt
  <2>1. prev = None /\ prev' = ParseSave(Save(world)) /\ UNCHANGED <<world, facet, db>>
    BY <1>3 DEF Adopt
  <2>2. \A c \in Tracked : db.rows[c] = None
    BY <2>1 DEF BriefedInv
  <2> QED  BY <1>2, <2>1, <2>2 DEF BriefedInv
<1>4. CASE Tick
  <2>1. prev' = ParseSave(Save(world)) /\ UNCHANGED <<world, facet>>
    BY <1>4 DEF Tick
  <2>2. db' = [rows |-> db'.rows, events |-> db'.events]
    BY <1>4 DEF Tick, IngestDiffEvents
  <2>3. ASSUME NEW c \in Tracked, c \in DOMAIN prev'.characters
        PROVE  db'.rows[c].record = prev'.characters[c].family /\ db'.rows[c].cause = DetectGreatCause(prev', c)
    <3>1. prev'.characters[c].family # None
      BY <1>2, <2>1, <2>3 DEF FamilyRead
    <3> QED  BY <1>4, <2>3, <3>1, TickRecord, TrackedAssumption DEF BriefedInv
  <2>4. \A c \in Char \ Tracked : db'.rows[c] # None => db'.rows[c].record = None
    BY <1>4, TickRecord DEF BriefedInv
  <2> QED  BY <1>2, <2>1, <2>2, <2>3, <2>4 DEF BriefedInv
<1>5. CASE UNCHANGED vars
  BY <1>5 DEF vars, BriefedInv
<1> QED  BY <1>1, <1>3, <1>4, <1>5 DEF Next

-----------------------------------------------------------------------------
\* The label of a person is that of the first entry of the family record that has it.
LEMMA LeastIs ==
  ASSUME NEW S, S \subseteq Nat, NEW i \in S, \A j \in S : i <= j
  PROVE  Min(S) = i
<1>1. \A x \in S : (\A y \in S : x <= y) => x = i
  OBVIOUS
<1> QED  BY <1>1 DEF Min

Stranger(family, x) ==
  x \notin {family.father, family.mother, family.primary_spouse} \cup family.spouses
             \cup family.former_spouses \cup family.concubines \cup family.children

\* The table of labels, entry by entry.
LabelsOf(own, family) ==
  /\ Len(own) = 6
  /\ own[1][2] = {family.father} /\ own[2][2] = {family.mother}
  /\ own[3][1] = "spouse" /\ own[3][2] = {family.primary_spouse} \cup family.spouses
  /\ own[4][1] = "former spouse" /\ own[4][2] = family.former_spouses
  /\ own[5][1] = "concubine" /\ own[5][2] = family.concubines
  /\ own[6][1] = "child" /\ own[6][2] = family.children

LEMMA LabelTable ==
  ASSUME NEW family, NEW own, own = FamilyLabels(family)
  PROVE  LabelsOf(own, family)
<1>1. PICK a, b, c, d, e, f :
        /\ a = {family.father} /\ b = {family.mother} /\ c = {family.primary_spouse} \cup family.spouses
        /\ d = family.former_spouses /\ e = family.concubines /\ f = family.children
  OBVIOUS
<1>2. PICK p, q, r, s, t, u :
        /\ p = <<"father", a>> /\ q = <<"mother", b>> /\ r = <<"spouse", c>>
        /\ s = <<"former spouse", d>> /\ t = <<"concubine", e>> /\ u = <<"child", f>>
  OBVIOUS
<1>3. own = <<p, q, r, s, t, u>>
  BY <1>1, <1>2, Zenon DEF FamilyLabels
<1>4. /\ Len(own) = 6
      /\ own[1] = p /\ own[2] = q /\ own[3] = r /\ own[4] = s /\ own[5] = t /\ own[6] = u
  BY <1>3
<1>5. /\ p[2] = a /\ q[2] = b /\ r[1] = "spouse" /\ r[2] = c /\ s[1] = "former spouse" /\ s[2] = d
      /\ t[1] = "concubine" /\ t[2] = e /\ u[1] = "child" /\ u[2] = f
  BY <1>2
<1>6. /\ own[1][2] = a /\ own[2][2] = b
      /\ own[3][1] = "spouse" /\ own[3][2] = c
      /\ own[4][1] = "former spouse" /\ own[4][2] = d
      /\ own[5][1] = "concubine" /\ own[5][2] = e
      /\ own[6][1] = "child" /\ own[6][2] = f
  BY <1>4, <1>5, Zenon
<1> QED  BY <1>1, <1>4, <1>6, Zenon DEF LabelsOf

\* The label of x in c's briefing, from the record of c's family, whose spouses are
\* `wed`, and from `theirs`, the record of x's own.
Labelled(label, wed, theirs, family, c, x) ==
  /\ x \in wed => label = "spouse"
  /\ x \in family.former_spouses \ wed => label = "former spouse"
  /\ x \notin wed \cup family.former_spouses /\ ~Stranger(family, x) => label \in {"concubine", "child"}
  /\ Stranger(family, x) =>
       label = IF x # c /\ theirs # None /\ c \in theirs.children THEN "parent" ELSE None

LEMMA KinLabel ==
  ASSUME NEW base, NEW c, NEW x, NEW family, family = base.rows[c].record, family # None,
         x \notin {family.father, family.mother},
         NEW wed, wed = {family.primary_spouse} \cup family.spouses,
         NEW theirs, theirs = base.rows[x].record,
         NEW label, label = RelationLabel(base, c, x)
  PROVE  Labelled(label, wed, theirs, family, c, x)
<1>1. PICK own, I, at : /\ own = FamilyLabels(family)
                        /\ I = {i \in 1..Len(own) : x \in own[i][2]}
                        /\ at = IF I # {} THEN Min(I) ELSE 0
  OBVIOUS
<1>2. label = CASE at # 0 -> own[at][1]
                [] at = 0 /\ x # c /\ theirs # None /\ c \in theirs.children -> "parent"
                [] OTHER -> None
  BY <1>1 DEF RelationLabel, SelectInSeq
<1>3. /\ at # 0 => label = own[at][1]
      /\ at = 0 => label = IF x # c /\ theirs # None /\ c \in theirs.children THEN "parent" ELSE None
  BY <1>2
<1>4. /\ Len(own) = 6
      /\ own[1][2] = {family.father} /\ own[2][2] = {family.mother}
      /\ own[3][1] = "spouse" /\ own[3][2] = wed
      /\ own[4][1] = "former spouse" /\ own[4][2] = family.former_spouses
      /\ own[5][1] = "concubine" /\ own[5][2] = family.concubines
      /\ own[6][1] = "child" /\ own[6][2] = family.children
  <2>1. LabelsOf(own, family)
    BY <1>1, LabelTable
  <2> QED  BY <2>1, Zenon DEF LabelsOf
<1>5. 1..6 = {1, 2, 3, 4, 5, 6}
  OBVIOUS
<1>6. \A i : i \in I <=> i \in {1, 2, 3, 4, 5, 6} /\ x \in own[i][2]
  BY <1>1, <1>4, <1>5, Zenon
<1>7. /\ I \subseteq {3, 4, 5, 6}
      /\ 3 \in I <=> x \in wed
      /\ 4 \in I <=> x \in family.former_spouses
      /\ 5 \in I <=> x \in family.concubines
      /\ 6 \in I <=> x \in family.children
  BY <1>4, <1>6
<1>8. ASSUME NEW i \in I, \A j \in {3, 4, 5, 6} : j < i => j \notin I  PROVE  at = i
  <2>1. I \subseteq Nat /\ I # {} /\ \A j \in I : i <= j
    BY <1>7, <1>8
  <2> QED  BY <1>1, <2>1, LeastIs
<1>9. x \in wed => at = 3
  BY <1>7, <1>8
<1>10. x \in family.former_spouses \ wed => at = 4
  BY <1>7, <1>8
<1>11. x \notin wed \cup family.former_spouses /\ x \in family.concubines => at = 5
  BY <1>7, <1>8
<1>12. x \notin wed \cup family.former_spouses \cup family.concubines /\ x \in family.children => at = 6
  BY <1>7, <1>8
<1>13. Stranger(family, x) => at = 0
  <2>1. Stranger(family, x) => I = {}
    BY <1>7 DEF Stranger
  <2> QED  BY <1>1, <2>1
<1>14. ~Stranger(family, x) => x \in wed \cup family.former_spouses \cup family.concubines \cup family.children
  BY DEF Stranger
<1>15. /\ at = 3 => label = "spouse"
       /\ at = 4 => label = "former spouse"
       /\ at = 5 => label = "concubine"
       /\ at = 6 => label = "child"
  <2>1. at \in {3, 4, 5, 6} => at # 0
    OBVIOUS
  <2>2. \A i \in {3, 4, 5, 6} : at = i => label = own[i][1]
    BY <1>3, <2>1
  <2> QED  BY <1>4, <2>2, Zenon
<1> QED  BY <1>3, <1>9, <1>10, <1>11, <1>12, <1>13, <1>14, <1>15 DEF Labelled

LEMMA CauseKnown ==
  ASSUME Atoms, NEW snap, NEW c
  PROVE  DetectGreatCause(snap, c) # None <=> \E w \in snap.wars.of[c] : snap.wars.row[w].great
<1>1. PICK causes : causes = {w \in snap.wars.of[c] : snap.wars.row[w].great}
  OBVIOUS
<1>2. \E side, allies : DetectGreatCause(snap, c) =
        IF causes = {} THEN None ELSE [war |-> Min(causes), side |-> side, allies |-> allies]
  BY <1>1, Zenon DEF DetectGreatCause
<1>3. PICK side, allies : DetectGreatCause(snap, c) =
        IF causes = {} THEN None ELSE [war |-> Min(causes), side |-> side, allies |-> allies]
  BY <1>2
<1>4. [war |-> Min(causes), side |-> side, allies |-> allies] # None
  BY DEF Atoms
<1>5. DetectGreatCause(snap, c) # None <=> causes # {}
  BY <1>3, <1>4
<1> QED  BY <1>1, <1>5

\* What a briefing says of family and great cause is what the newest save says,
\* though it reads both from columns that earlier ticks wrote and knows a
\* parent only by the parent's own record (_build_relation_labels,
\* detect_great_cause, upsert_character).
THEOREM BriefingAlwaysTrue ==
  ASSUME Atoms, None \notin {"spouse", "former spouse", "parent"}
  PROVE  Spec => []BriefingTrue
<1>1. BriefedInv => BriefingTrue
  <2> SUFFICES ASSUME BriefedInv, NEW c \in Tracked, prev # None, c \in DOMAIN prev.characters,
                      db.rows[c] # None
               PROVE  KinshipTrue(c, BuildBriefing(db, c)) /\ CauseIsCurrent(c, BuildBriefing(db, c))
    BY Zenon DEF BriefingTrue, Briefed, InBaseline
  <2>1. PICK briefing : briefing = BuildBriefing(db, c)
    OBVIOUS
  <2>2. PICK names : names = NamesMap(db, c)
    OBVIOUS
  <2>3. /\ briefing.glossary = [x \in names \ {c} |-> RelationLabel(db, c, x)]
        /\ briefing.cause = GreatCauseBlock(db.rows[c])
    BY <2>1, <2>2, Zenon DEF BuildBriefing
  <2>4. PICK family : family = prev.characters[c].family
    OBVIOUS
  <2>5. db.rows[c].record = family /\ db.rows[c].cause = DetectGreatCause(prev, c)
    BY <2>4 DEF BriefedInv
  <2>6. /\ family # None /\ family.father = None /\ family.mother = None
        /\ (family.spouses \cup family.former_spouses \cup family.concubines) \cap Tracked = {}
        /\ family.primary_spouse \in family.spouses \cup {None}
        /\ \A k \in family.children :
             /\ c \in Tracked /\ k \in Tracked
             /\ k \in DOMAIN prev.characters => prev.characters[k].family.children = {}
    BY <2>4 DEF BriefedInv, FamilyRead
  <2>7. CauseIsCurrent(c, briefing)
    <3>1. GreatCauseBlock(db.rows[c]) # None <=> db.rows[c].cause # None
      <4>1. PICK row : row = db.rows[c]
        OBVIOUS
      <4>2. [war |-> row.cause.war, side |-> row.cause.side, allies |-> row.cause.allies,
             at_death |-> row.death_date # None] # None
        BY DEF Atoms
      <4> QED  BY <4>1, <4>2 DEF GreatCauseBlock
    <3> QED  BY <2>3, <2>5, <3>1, CauseKnown DEF CauseIsCurrent
  <2>8. ASSUME NEW x \in DOMAIN briefing.glossary \cap DOMAIN prev.characters
        PROVE  /\ briefing.glossary[x] = "spouse" <=> x \in family.spouses
               /\ briefing.glossary[x] = "former spouse" <=> x \in family.former_spouses \ family.spouses
               /\ briefing.glossary[x] = "parent" <=> c \in prev.characters[x].family.children
    <3>1. x \in names \ {c} /\ briefing.glossary[x] = RelationLabel(db, c, x)
      BY <2>3
    <3>2. FamilyRead(prev, x)
      BY DEF BriefedInv
    <3>3. x \in Char /\ x # None /\ db.rows[x] # None
      BY <2>2, <3>1, <3>2 DEF FamilyRead, Atoms, NamesMap, Related
    <3>4. PICK label, theirs, wed : /\ label = RelationLabel(db, c, x)
                                    /\ theirs = db.rows[x].record
                                    /\ wed = {family.primary_spouse} \cup family.spouses
      OBVIOUS
    <3>5. Labelled(label, wed, theirs, family, c, x)
      <4>1. family = db.rows[c].record /\ family # None /\ x \notin {family.father, family.mother}
        BY <2>5, <2>6, <3>3
      <4> QED  BY <3>4, <4>1, KinLabel
    <3>6. x \in wed <=> x \in family.spouses
      BY <2>6, <3>3, <3>4
    <3>7. theirs # None => x \in Tracked /\ theirs = prev.characters[x].family
      BY <3>3, <3>4 DEF BriefedInv
    <3>8. x \in Tracked => theirs = prev.characters[x].family
      BY <3>3, <3>4 DEF BriefedInv
    <3>9. c \in prev.characters[x].family.children => Stranger(family, x) /\ x \in Tracked
      <4>1. SUFFICES ASSUME c \in prev.characters[x].family.children
                     PROVE  Stranger(family, x) /\ x \in Tracked
        OBVIOUS
      <4>2. x \in Tracked /\ family.children = {}
        BY <2>4, <3>2, <4>1 DEF FamilyRead
      <4> QED  BY <2>6, <3>3, <4>2 DEF Stranger
    <3>10. label = "parent" <=> c \in prev.characters[x].family.children
      <4>1. CASE c \in prev.characters[x].family.children
        <5>1. theirs = prev.characters[x].family /\ theirs # None
          BY <3>2, <3>8, <3>9, <4>1 DEF FamilyRead
        <5> QED  BY <3>1, <3>5, <3>9, <4>1, <5>1 DEF Labelled
      <4>2. CASE c \notin prev.characters[x].family.children
        BY <3>5, <3>7, <4>2 DEF Labelled
      <4> QED  BY <4>1, <4>2
    <3>11. label = "spouse" <=> x \in family.spouses
      BY <3>5, <3>6 DEF Labelled
    <3>12. label = "former spouse" <=> x \in family.former_spouses \ family.spouses
      BY <3>5, <3>6 DEF Labelled
    <3> QED  BY <3>1, <3>4, <3>10, <3>11, <3>12
  <2>9. KinshipTrue(c, briefing)
    BY <2>4, <2>8 DEF KinshipTrue
  <2> QED  BY <2>1, <2>7, <2>9
<1>2. Init => BriefedInv
  BY InitBriefed
<1>3. BriefedInv /\ [Next]_vars => BriefedInv'
  BY NextBriefed
<1> QED  BY <1>1, <1>2, <1>3, PTL DEF Spec
==============================================================================
