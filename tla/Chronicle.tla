------------------------------- MODULE Chronicle -------------------------------
(***************************************************************************)
(* Play, save, parse, diff: the game moves, an autosave is parsed and what   *)
(* changed since the baseline is told, and the parsed save becomes the new   *)
(* baseline.  Several moves may fall between two saves, a save may come      *)
(* without any, and the baseline a session starts from may lack a character. *)
(*                                                                          *)
(* The game is the environment: `world` is what CK3 knows and Save(world)    *)
(* the tree rakaly makes of it.  To keep the moves of different subsystems   *)
(* from multiplying, a behaviour plays one facet of the game; a character    *)
(* may die in every one of them.                                            *)
(***************************************************************************)
EXTENDS Briefing, Bags

CONSTANTS Tracked,     \* the characters on the tracked list
          MaxMoves     \* bound on the moves of the game

ASSUME TrackedAssumption == Tracked \subseteq Char /\ MaxMoves \in Nat

VARIABLES world,    \* the game
          facet,    \* which subsystem of it moves
          stale,    \* tracked characters the first baseline lacks
          prev,     \* the baseline snapshot, None until there is one
          first,    \* what everyone held in the first baseline, and who was dead
          db        \* the campaign database

vars == <<world, facet, stale, prev, first, db>>

Facets == {"life", "person", "court", "family", "mourning", "titles", "wars", "bonds", "works", "dynasty"}

(*---------------------------------------------------------------------------
  The game and the tree of its save file.
 ---------------------------------------------------------------------------*)

\* A character lives, may be recorded dead while still listed among the living
\* (a death as the game exits), lands in one of the dead buckets, and may be
\* pruned from the second.  One tracked character is the child of another, and
\* only the parent's record says so.
Walking == {"alive", "dying"}

\* A duchy, its kingdom (which a decision founds under a scripted key, and which
\* may be destroyed), the empire over it, and a second kingdom of that empire,
\* which an untracked king holds.
Land(t, holder) ==
  [key |-> t, holder |-> holder, tier |-> <<"duchy", "other", "empire", "kingdom">>[t],
   liege |-> <<2, 3, None, 3>>[t], vassals |-> <<<< >>, <<1>>, <<2, 4>>, << >>>>[t]]
\* The kingdom as the game first writes it, outside the hierarchy.
Unwired(holder) == [Land(2, holder) EXCEPT !.liege = None, !.vassals = << >>]
\* The one building site, a slot of a province.
Site == <<1, 0>>
World0 ==
  LET all(v) == [c \in Char |-> v]
      parent == CHOOSE c \in Tracked : TRUE
  IN  [date |-> 0, life |-> all("alive"), died |-> all(None), killer |-> all(None),
       location |-> all(1), nickname |-> all(None),
       government |-> all("feudal"), cooldowns |-> all({}), memories |-> all({}),
       perk |-> all({}), traits |-> all({}), modifiers |-> all({}),
       house |-> all(1), culture |-> all(1), faith |-> all(1),
       primary |-> all(None), spouses |-> all({}), former |-> all({}), concubines |-> all({}),
       children |-> [all({}) EXCEPT ![parent] = Tracked \ {parent}],
       sponsored |-> all({}), memory |-> <<Junk, Junk, Junk>>,
       relations |-> {}, artifacts |-> <<Junk, Junk>>, wars |-> <<Junk, Junk>>,
       epidemics |-> <<Junk>>, activities |-> <<Junk>>, inspirations |-> <<Junk>>,
       contracts |-> <<Junk>>, court |-> <<Junk>>, domiciles |-> <<[owner_title |-> 1, province |-> 1]>>,
       titles |-> <<Land(1, None), Junk, Land(3, None), Land(4, CHOOSE c \in Char \ Tracked : TRUE)>>,
       sites |-> [s \in {Site} |-> Junk], buildings |-> [s \in {Site} |-> Junk],
       dynasties |-> <<[perk |-> {}, accumulated |-> 0], Junk>>,
       houses |-> <<[dynasty |-> 1], [dynasty |-> None]>>,
       done |-> EmptyBag]

Person(w, c) ==
  [alive_data  |-> IF w.life[c] \in Walking
                   THEN [location |-> w.location[c], memories |-> w.memories[c],
                         perk |-> w.perk[c], inspiration |-> None] ELSE None,
   dead_data   |-> IF w.died[c] = None THEN None
                   ELSE [date |-> w.died[c], killer |-> w.killer[c],
                         location |-> None, memories |-> w.memories[c]],
   landed_data |-> IF w.government[c] = None THEN None
                   ELSE [government |-> w.government[c], cooldowns |-> w.cooldowns[c],
                         sponsored |-> w.sponsored[c]],
   first_name |-> c, female |-> FALSE,
   nickname |-> w.nickname[c], house |-> w.house[c], culture |-> w.culture[c],
   faith |-> w.faith[c], traits |-> w.traits[c], modifiers |-> w.modifiers[c],
   family_data |-> [primary_spouse |-> w.primary[c], spouses |-> w.spouses[c],
                    former_spouses |-> w.former[c], concubines |-> w.concubines[c],
                    children |-> w.children[c], mother |-> None, father |-> None]]

\* The tree: dead_unprunable entries are written twice and grouped.
Save(w) ==
  LET in(stages) == {c \in Char : w.life[c] \in stages}
  IN  [living          |-> [c \in in(Walking) |-> <<Person(w, c)>>],
       dead_unprunable |-> [c \in in({"unprunable"}) |-> <<Person(w, c), Person(w, c)>>],
       dead_prunable   |-> [c \in in({"prunable"}) |-> <<Person(w, c)>>],
       date |-> w.date, memories |-> w.memory, relations |-> w.relations,
       artifacts |-> w.artifacts, wars |-> w.wars, epidemics |-> w.epidemics,
       activities |-> w.activities, inspirations |-> w.inspirations,
       contracts |-> w.contracts, court |-> w.court, domiciles |-> w.domiciles,
       titles |-> w.titles, sites |-> w.sites, buildings |-> w.buildings,
       dynasties |-> w.dynasties, houses |-> w.houses]

(*---------------------------------------------------------------------------
  Moves of the game, facet by facet, each the set of worlds one move away.
  `done` collects what really happened, as <<character, event type, whom or
  what>>.
 ---------------------------------------------------------------------------*)

Did(w, happenings) == [w EXCEPT !.done = @ (+) SetToBag(happenings)]
Alive(w) == {c \in Char : w.life[c] = "alive"}
Free(table) == {k \in DOMAIN table : table[k] = Junk}
Used(table) == DOMAIN table \ Free(table)

NextStage == [alive |-> {"dying", "unprunable", "prunable"}, dying |-> {"unprunable", "prunable"},
              unprunable |-> {}, prunable |-> {"gone"}, gone |-> {}]
Killers == {None} \cup IF facet = "life" THEN Char \ Tracked ELSE {}
Die(w, c, stage, killer) ==
  IF w.died[c] = None
  THEN [w EXCEPT !.life[c] = stage, !.died[c] = w.date, !.killer[c] = killer]
  ELSE [w EXCEPT !.life[c] = stage]
Deaths(w) ==
  UNION {UNION {{Die(w, c, s, k) : k \in Killers} : s \in NextStage[w.life[c]]} : c \in Tracked}

\* A journey, a new culture, faith or nickname; office, great decisions, moods
\* and perks.
Turns(w, c) ==
  {[w EXCEPT !.location[c] = 3 - @], [w EXCEPT !.culture[c] = 3 - @], [w EXCEPT !.faith[c] = 3 - @]}
    \cup {[w EXCEPT !.nickname[c] = n] : n \in {None, "the Bold"}}
Careers(w, c) ==
  {[w EXCEPT !.modifiers[c] = {"mourning"} \ @]}
    \cup {[w EXCEPT !.government[c] = g] : g \in {None, "feudal", "tribal", Adventurer}}
    \cup {[w EXCEPT !.cooldowns[c] = {<<d, 1>>}] : d \in {"stele", "hold_court"}}
    \cup {[w EXCEPT !.perk[c] = @ \cup {k}] : k \in DOMAIN LifestyleOf}
PersonMoves(w) == UNION {Turns(w, c) : c \in Alive(w) \cap Tracked}
CourtMoves(w) == UNION {Careers(w, c) : c \in Alive(w) \cap Tracked}

Remember(w, c, m, type, roles) ==
  [w EXCEPT !.memories[c] = @ \cup {m},
            !.memory[m] = [type |-> type, created |-> w.date, participants |-> roles]]

\* Weddings, partings that leave no trace, divorces, and a pregnancy to its end:
\* the memory of a birth is written with it.
Wed(w, c, d) ==
  Did([w EXCEPT !.spouses[c] = @ \cup {d}, !.spouses[d] = @ \cup {c},
                !.primary[c] = IF @ = None THEN d ELSE @,
                !.primary[d] = IF @ = None THEN c ELSE @],
      {<<c, "marriage", d>>, <<d, "marriage", c>>})
Promoted(w, c, d) ==
  IF w.primary[c] # d THEN w.primary[c]
  ELSE IF w.spouses[c] = {d} THEN None
  ELSE CHOOSE e \in w.spouses[c] : e # d
Part(w, c, d) ==
  [w EXCEPT !.spouses[c] = @ \ {d}, !.spouses[d] = @ \ {c},
            !.primary[c] = Promoted(w, c, d), !.primary[d] = Promoted(w, d, c)]
Split(w, c, d) ==
  Did([Part(w, c, d) EXCEPT !.former[c] = @ \cup {d}, !.former[d] = @ \cup {c}],
      {<<c, "divorce", d>>, <<d, "divorce", c>>})
Birth(w, c, m) ==
  [Remember(w, c, m, "child_born", << >>) EXCEPT !.traits[c] = @ \ {Pregnant}]
Miscarry(w, c) == Did([w EXCEPT !.traits[c] = @ \ {Pregnant}], {<<c, "miscarriage", None>>})
Carry(w, c) ==
  IF Pregnant \in w.traits[c]
  THEN {Birth(w, c, m) : m \in Free(w.memory)} \cup {Miscarry(w, c)}
  ELSE {[w EXCEPT !.traits[c] = @ \cup {Pregnant}]}

\* Two living people may wed, part or divorce, and one may take the other as a
\* concubine.
Matches(w, c, d) ==
  {[w EXCEPT !.concubines[c] = @ \cup {d}]}
    \cup IF d \in w.spouses[c] THEN {Part(w, c, d), Split(w, c, d)} ELSE {Wed(w, c, d)}
FamilyMoves(w) ==
  UNION {Carry(w, c) \cup UNION {Matches(w, c, d) : d \in Alive(w) \ Tracked} :
         c \in Alive(w) \cap Tracked}

\* News of deaths in the wider family.
Mourn(w, c, m, d) == Remember(w, c, m, "relative_died", [dead_relation |-> d])
MourningMoves(w) ==
  {Mourn(w, c, m, d) : c \in Alive(w) \cap Tracked, m \in Free(w.memory), d \in Char \ Tracked}

TitleMoves(w) ==
  {[w EXCEPT !.titles[t] = Land(t, h)] : t \in 1..2, h \in Alive(w) \cup {None}}
    \cup {[w EXCEPT !.titles[2] = Unwired(h)] : h \in Alive(w)}
    \cup {[w EXCEPT !.titles[2] = Junk]}

Parties(war) == war.attackers \cup war.defenders
Declare(w, c, d, k) ==
  Did([w EXCEPT !.wars[k] = [attacker |-> c, defender |-> d, great |-> k = 1,
                             attackers |-> {c}, defenders |-> {d}]],
      {<<c, "war_declared", k>>, <<d, "war_declared", k>>})

\* A living character joins a war as an attacker, or leaves one it did not start.
Musters(w, c, k) ==
  (IF c \in Parties(w.wars[k]) THEN {} ELSE {[w EXCEPT !.wars[k].attackers = @ \cup {c}]})
    \cup IF c = w.wars[k].attacker THEN {} ELSE {[w EXCEPT !.wars[k].attackers = @ \ {c}]}
WarMoves(w) ==
  (UNION {UNION {{Declare(w, c, d, k) : d \in Alive(w) \ {c}} : c \in Alive(w) \cap Tracked}
          : k \in Free(w.wars)})
    \cup (UNION {UNION {Musters(w, c, k) : c \in Alive(w)} : k \in Used(w.wars)})
    \cup {[w EXCEPT !.wars[k] = Junk] : k \in Used(w.wars)}

BondMoves(w) ==
  UNION {UNION {
    {[w EXCEPT !.relations = @ \cup {[first |-> c, second |-> d, alliances |-> TRUE]}],
     [w EXCEPT !.relations = {r \in @ : c \notin {r.first, r.second}}],
     [w EXCEPT !.artifacts[1] = [owner |-> c]], [w EXCEPT !.artifacts[1] = Junk],
     [w EXCEPT !.court[1] = [employer |-> c, employee |-> d]],
     [w EXCEPT !.court[1] = [employer |-> None, employee |-> d]]}
    : d \in Alive(w) \ {c}} : c \in Alive(w) \cap Tracked}

\* One building site and one contract of a landless adventurer, each with its
\* ways to end, and what a character hosts, suffers, sponsors and moves to.  What
\* stands in a slot is not built there again, and the id of a contract that is
\* gone is given to no other.
SiteMoves(w, c) ==
  IF w.sites[Site] = Junk
  THEN {[w EXCEPT !.sites[Site] = [character |-> c, building |-> b]] :
          b \in {"hall", "wall"} \ {w.buildings[Site]}}
  ELSE {Did([w EXCEPT !.buildings[Site] = w.sites[Site].building, !.sites[Site] = Junk],
            {<<None, "building_completed", w.sites[Site].building>>}),
        [w EXCEPT !.sites[Site] = Junk]}
ContractMoves(w, c) ==
  IF w.contracts = << >> THEN {}
  ELSE IF w.contracts[1] = Junk
  THEN {[w EXCEPT !.contracts[1] = [owner |-> c, status |-> "accepted",
                                    employer |-> CHOOSE d \in Char \ Tracked : TRUE]]}
  ELSE IF w.contracts[1].status = "accepted"
       THEN {Did([w EXCEPT !.contracts[1].status = s],
                 {<<w.contracts[1].owner, "contract_completed", s>>}) : s \in Terminal}
       ELSE {[w EXCEPT !.contracts = << >>]}
Occasions(w, c) ==
  {[w EXCEPT !.epidemics[1] = [characters |-> {c}]], [w EXCEPT !.epidemics[1] = Junk],
   [w EXCEPT !.activities[1] = [host |-> c, attending |-> Alive(w)]], [w EXCEPT !.activities[1] = Junk],
   [w EXCEPT !.sponsored[c] = {1}], [w EXCEPT !.inspirations[1] = [type |-> "blade"]],
   [w EXCEPT !.titles[1].holder = c], [w EXCEPT !.domiciles[1].province = 3 - @]}
WorkMoves(w) ==
  UNION {SiteMoves(w, c) \cup ContractMoves(w, c) \cup Occasions(w, c) : c \in Alive(w) \cap Tracked}

DynastyMoves(w) ==
  {[w EXCEPT !.dynasties[1].perk = @ \cup {"blood_1"}]}
    \cup {[w EXCEPT !.dynasties[1].accumulated = r] : r \in {999, 1000, 15000}}
    \cup {[w EXCEPT !.house[c] = 3 - @] : c \in Alive(w)}

Moves(w) ==
  Deaths(w) \cup
    CASE facet = "life"     -> {[w EXCEPT !.location[c] = 3 - @] : c \in Alive(w) \cap Tracked}
      [] facet = "person"   -> PersonMoves(w)
      [] facet = "court"    -> CourtMoves(w)
      [] facet = "family"   -> FamilyMoves(w)
      [] facet = "mourning" -> MourningMoves(w)
      [] facet = "titles"   -> TitleMoves(w)
      [] facet = "wars"     -> WarMoves(w)
      [] facet = "bonds"    -> BondMoves(w)
      [] facet = "works"    -> WorkMoves(w)
      [] facet = "dynasty"  -> DynastyMoves(w)

(*---------------------------------------------------------------------------
  The specification.
 ---------------------------------------------------------------------------*)

\* The streams told both ways, by the table of the snapshot.
Streams ==
  [titles    |-> [gain |-> {"title_acquired", "title_created"}, loss |-> {"title_relinquished"}],
   wars      |-> [gain |-> {"war_declared", "war_joined"}, loss |-> {"war_left", "war_concluded"}],
   artifacts |-> [gain |-> {"artifact_acquired"}, loss |-> {"artifact_lost"}],
   court     |-> [gain |-> {"camp_companion_joined"}, loss |-> {"camp_companion_left"}]]
Died(char) == char.is_dead \/ char.death_date # None
Holdings(snap) == [held |-> [s \in DOMAIN Streams |-> [c \in Char |-> Cardinality(snap[s].of[c])]],
                   dead |-> {c \in DOMAIN snap.characters : Died(snap.characters[c])}]

\* A baseline file without a field of the snapshot was written by an older
\* build and is discarded.
SnapshotFields == DOMAIN ParseSave(Save(World0))
LoadBaseline(file) == IF SnapshotFields \subseteq DOMAIN file THEN file ELSE None

\* A campaign starts with a baseline of the world as it is, which may lack
\* characters, or with the file of a build that knew no wars while one is on.
AtWar == LET c   == CHOOSE x \in Tracked : TRUE
             foe == CHOOSE x \in Char \ Tracked : TRUE
         IN  [World0 EXCEPT !.wars[1] = [attacker |-> c, defender |-> foe, great |-> TRUE,
                                         attackers |-> {c}, defenders |-> {foe}]]
Init ==
  /\ facet \in Facets
  /\ stale \in SUBSET Tracked /\ (stale # {} => facet = "life")
  /\ \/ /\ world = World0
        /\ prev = LoadBaseline([ParseSave(Save(World0)) EXCEPT
                                  !.characters = Restrict(@, Char \ stale)])
     \/ /\ facet = "wars"
        /\ world = AtWar
        /\ prev = LoadBaseline(Restrict(ParseSave(Save(AtWar)), SnapshotFields \ {"wars"}))
  /\ first = IF prev = None THEN None ELSE Holdings(prev)
  /\ db = [rows |-> [c \in Char |-> None], events |-> {}]

\* The game goes on: the date moves, and something else with it.
Play ==
  /\ world.date < MaxMoves
  /\ \E w \in Moves(world) \ {world} : world' = [w EXCEPT !.date = @ + 1]
  /\ UNCHANGED <<facet, stale, prev, first, db>>

\* Without a baseline the first save becomes it and nothing is told.
Adopt ==
  LET curr == ParseSave(Save(world))
  IN  /\ prev = None
      /\ prev' = curr
      /\ first' = Holdings(curr)
      /\ UNCHANGED <<world, facet, stale, db>>

\* One tick on a save of a later date: parse, diff against the baseline, refresh
\* the tracked rows, store the events, replace the baseline.  A save whose diff
\* is refused is dropped.
Tick ==
  LET curr == ParseSave(Save(world))
      diff == SafeDiff(prev, curr, Tracked)
  IN  /\ prev # None
      /\ curr.date > prev.date
      /\ diff # None
      /\ db' = IngestDiffEvents([db EXCEPT !.rows = RefreshTracked(@, curr, Tracked)], diff, curr)
      /\ prev' = curr
      /\ UNCHANGED <<world, facet, stale, first>>

Next == Play \/ Adopt \/ Tick

Spec == Init /\ [][Next]_vars

(*---------------------------------------------------------------------------
  Properties.
 ---------------------------------------------------------------------------*)

Count(c, ts) == Cardinality({e \in db.events : e.c = c /\ e.t \in ts})
InBaseline(c) == prev # None /\ c \in DOMAIN prev.characters

\* A tracked character's death is told exactly once, whether its two signals
\* come in one save or in two, whichever bucket it lands in, and also when the
\* baseline never held the character (diff_snapshots, _diff_one_character).
DeathTold ==
  \A c \in Tracked :
    /\ Count(c, {"death"}) <= 1
    /\ InBaseline(c) =>
         (Count(c, {"death"}) = 1 <=> Died(prev.characters[c]) /\ c \notin first.dead)

\* Replaying the told gains and losses from the first baseline gives back what
\* a living character holds, and a title that passes between two tracked
\* characters is told on both sides, each naming the other: no title, war,
\* artifact or court position changes hands without its event, however many
\* moves fell between two saves (_diff_titles, _diff_wars, _diff_artifacts).
HoldingsTold ==
  /\ \A c \in Tracked \ stale :
       (InBaseline(c) /\ ~prev.characters[c].is_dead) =>
         \A s \in DOMAIN Streams :
           first.held[s][c] + Count(c, Streams[s].gain) - Count(c, Streams[s].loss)
             = Cardinality(prev[s].of[c])
  /\ \A c, d \in Tracked \ stale : \A t \in {1, 2} :
       LET told(x, type, key, y) == Cardinality({e \in db.events :
             /\ e.c = x /\ e.t = type
             /\ e.p.title_id = t /\ Get(e.p, key) = y})
       IN  (InBaseline(c) /\ InBaseline(d) /\ c # d) =>
             told(c, "title_relinquished", "to_holder_id", d)
               = told(d, "title_acquired", "from_holder_id", c)

\* Nothing is told more often than it happened: a birth is no miscarriage, a
\* promoted spouse no wedding, a cancelled building not built, an ended
\* contract ends once, and a war that was already on when a baseline had to be
\* discarded is not declared.
Audited ==
  [marriage |-> "spouse_character_id", divorce |-> "former_spouse_character_id",
   war_declared |-> "war_id", contract_completed |-> "outcome",
   building_completed |-> "building", miscarriage |-> ""]
NothingInvented ==
  LET happening(e) == <<IF e.t = "building_completed" THEN None ELSE e.c, e.t,
                        Get(e.p, Audited[e.t])>>
      told == {e \in db.events : e.t \in DOMAIN Audited}
  IN  \A h \in {happening(e) : e \in told} :
        /\ h \in DOMAIN world.done
        /\ Cardinality({e \in told : happening(e) = h}) <= world.done[h]

\* No save the game can write makes an event the strict schema refuses for a field
\* it requires and misses, or one it forbids (what type a value has is left out):
\* such a save, and every later one, would be dropped with the baseline kept
\* (_safe_diff), and the chronicle would end there.
NoSaveRefused ==
  prev # None => SafeDiff(prev, ParseSave(Save(world)), Tracked) # None

\* No line of a briefing shows a bare id for a person the newest save knows,
\* nor the bare name of an event type, nor calls a title rankless that the newest
\* save ranks as the subject's first: every id a renderer looks up is one the
\* extractor collected and a tick gave a named row, every event the differ can
\* tell has a renderer, and a rank stored too early is recovered
\* (extract_referenced_ids, _RENDERERS, _resolve_tier).
LinesTrue ==
  \A c \in {x \in Tracked : db.rows[x] # None} : \A l \in BuildBriefing(db, c).lines :
    /\ l.bare \cap DOMAIN prev.characters = {}
    /\ l.told
    /\ (l.title # None /\ l.title.tier = "other") =>
         Get(TitlesMap(db.rows[c]), l.title.key) \in {None, "other"}

\* The glossary of a briefing says what the newest save says: who is a spouse
\* now is called that though the marriage once ended, and a parent is found
\* though only its own record names the child (_build_relation_labels).
KinshipTrue(c, briefing) ==
  LET family == prev.characters[c].family
  IN  \A x \in DOMAIN briefing.glossary \cap DOMAIN prev.characters :
        /\ briefing.glossary[x] = "spouse" <=> x \in family.spouses
        /\ briefing.glossary[x] = "former spouse" <=> x \in family.former_spouses \ family.spouses
        /\ briefing.glossary[x] = "parent" <=> c \in prev.characters[x].family.children

\* It speaks of a great cause as long as the newest save has the character in
\* one, and no longer (detect_great_cause, upsert_character).
CauseIsCurrent(c, briefing) ==
  briefing.cause # None <=> \E w \in prev.wars.of[c] : prev.wars.row[w].great

\* The tracked characters with a row whom the newest save knows.
Briefed == {x \in Tracked : InBaseline(x) /\ db.rows[x] # None}

\* What a briefing tells the model of family and great cause, though all of it
\* is read back from database columns that earlier ticks wrote, is what the newest
\* save says.
BriefingTrue ==
  \A c \in Briefed : LET briefing == BuildBriefing(db, c)
                     IN  KinshipTrue(c, briefing) /\ CauseIsCurrent(c, briefing)

\* The kingdom a save places a character in: one it holds, else the one its duchy
\* lies in; who has neither shares the first spouse's.  Every kingdom of this game
\* lies in the one empire, and parents are not on record.
Home(snap, c) ==
  LET row       == snap.titles.row
      crowns(x) == {t \in snap.titles.of[x] : row[t].tier = "kingdom"}
      over(x)   == {k \in DOMAIN row : /\ row[k].tier = "kingdom"
                                       /\ \E t \in snap.titles.of[x] : row[t].liege = k}
      place(x)  == IF crowns(x) # {} THEN crowns(x) ELSE over(x)
      spouse    == snap.characters[c].family.primary_spouse
      home      == IF place(c) # {} \/ spouse = None THEN place(c) ELSE place(spouse)
  IN  IF home = {} THEN None ELSE Min(home)

\* The world of a briefing is the one around that kingdom: it, its ruler and a
\* culture for it, the other kingdoms of the empire beside it, and the duchies
\* that are held from another kingdom than the one they lie in.
WorldAround(snap, home, told) ==
  LET row == snap.titles.row
      kingdoms == {t \in DOMAIN row : row[t].tier = "kingdom"}
      abroad(t) == /\ row[t].tier = "duchy" /\ row[t].liege \in kingdoms
                   /\ LET crowns == {k \in kingdoms : row[k].holder = row[t].holder}
                      IN  row[t].holder # None /\ crowns # {} /\ Min(crowns) # row[t].liege
  IN  /\ told.self.realm = home
      /\ told.self.ruler = Known(row[home].holder, snap)
      /\ told.self.culture # None
      /\ {p.realm : p \in told.peers} = kingdoms \ {home}
      /\ told.cross = {t \in DOMAIN row : abroad(t)}

\* A briefing tells of the realm around the character as the newest save that
\* placed the character in a kingdom has it (summarise_region, upsert_character):
\* whoever holds nothing any more, and has no spouse who does, keeps the realm of
\* the last such save, as the dead must, whose titles pass to the heir at once.
RealmTrue ==
  [][\A c \in {x \in Tracked : db'.rows[x] # None /\ x \in DOMAIN prev'.characters} :
       LET home == Home(prev', c)
           told == WorldContextBlock(db'.rows[c])
       IN  IF home # None THEN told # None /\ WorldAround(prev', home, told)
           ELSE told = IF db.rows[c] = None THEN None ELSE WorldContextBlock(db.rows[c])]_vars

\* A briefing lists the titles of the newest save that gave the character any:
\* a ruler whose save of death already gives them to the heir keeps them.
TitlesRemembered ==
  [][\A c \in {x \in Tracked : db'.rows[x] # None /\ x \in DOMAIN prev'.characters} :
       LET now == prev'.titles.of[c]
       IN  db'.rows[c].held =
             IF now # {} THEN HeldTitles(prev', c)
             ELSE IF db.rows[c] = None THEN None ELSE db.rows[c].held]_vars

==============================================================================
