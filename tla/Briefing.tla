------------------------------- MODULE Briefing -------------------------------
(***************************************************************************)
(* From a diff to the briefing the LLM is given: the schema check, the rows  *)
(* a tick writes (save/tick.py, ingest_common.py, db/repository.py), the     *)
(* inputs read back for one character (narrative/pipeline.py, names.py) and  *)
(* the parts of the prompt that state facts (prompt_builder.py,              *)
(* event_rendering.py, clusters.py).                                         *)
(*                                                                          *)
(* A database is db.rows, the character table with None for no row, and      *)
(* db.events, the stored events: each is the JSON object of the payload_json *)
(* column, its payload under "p" without the fields that are None.  The      *)
(* wording of the prompt is left out: a line is the people it mentions, by   *)
(* name or by bare id.                                                       *)
(***************************************************************************)
EXTENDS SnapshotDiff, EventSchema

CONSTANTS ClusterMin,     \* DEATH_CLUSTER_MIN_COUNT
          ClusterWindow   \* DEATH_CLUSTER_WINDOW_DAYS, in the unit of the dates

Get(f, k) == IF k \in DOMAIN f THEN f[k] ELSE None

(*---------------------------------------------------------------------------
  The tick's writes.
 ---------------------------------------------------------------------------*)

\* The differ builds every event through the strict schema, so that one event
\* the schema refuses drops the whole save: the tick keeps its baseline.
Refused(e) == ~Valid(e.t, DOMAIN e.p, {f \in DOMAIN e.p : e.p[f] # None})
SafeDiff(prev, curr, tracked) ==
  LET diff == DiffSnapshots(prev, curr, tracked)
  IN  IF \E e \in diff : Refused(e) THEN None ELSE diff

\* The columns a refresh writes.
Column == {"first_name", "nickname", "female", "culture", "death_date", "record", "held",
           "region", "cause"}

\* Faulty variant: every None is written.
NullableAll == Column

\* _CHARACTER_NULLABLE_ON_UPDATE_FIELDS: where a None is a value.
NullableOnUpdate == {"cause"}

\* Insert or update one row.
UpsertCharacter(row, fields) ==
  [k \in Column |->
     IF k \in DOMAIN fields /\ (fields[k] # None \/ k \in NullableOnUpdate) THEN fields[k]
     ELSE IF row = None THEN None ELSE row[k]]

\* What any character of an event is hydrated with.
Identity(snap, c) ==
  IF c \notin DOMAIN snap.characters THEN << >>
  ELSE LET s == snap.characters[c]
       IN  [first_name |-> s.first_name, nickname |-> s.nickname,
            female |-> s.female, death_date |-> s.death_date]

\* The titles a character holds, grandest first, the smaller id first in a tier.
HeldTitlesSorted(snap, c) ==
  LET rank(t) == TierRank(snap.titles.row[t].tier)
  IN  SetToSortSeq(snap.titles.of[c],
                   LAMBDA t, u : rank(t) > rank(u) \/ (rank(t) = rank(u) /\ t < u))

(*---------------------------------------------------------------------------
  World context (save/worldbuilding.py).  A realm is its title, its ruler and
  the ruler's culture; names are left out, and faiths, which go the way of
  cultures.
 ---------------------------------------------------------------------------*)

\* The title of a tier on the de jure chain of a title, or None.  The chain is
\* walked at most once round, so that a cycle of lieges ends it.
WalkDeJure(snap, title, tier) ==
  LET row == snap.titles.row
      up(t) == IF t = None \/ row[t].tier = tier THEN t
               ELSE IF row[t].liege \in DOMAIN row THEN row[t].liege ELSE None
      end == FoldLeft(LAMBDA t, i : up(t), title, [i \in 1..Cardinality(DOMAIN row) |-> i])
  IN  IF TierRank(row[title].tier) > TierRank(tier) THEN None
      ELSE IF end # None /\ row[end].tier = tier THEN end ELSE None

\* Faulty variant: the realm of a spouse is nobody's but the spouse's.
RealmKinParentsOnly(family) == <<family.father, family.mother>>

\* Whose realm a landless character shares, in order.
RealmKin(family) == <<family.primary_spouse, family.father, family.mother>>

\* The realm a character's own titles place it in: a kingdom or an empire it
\* holds, else the de jure kingdom of its grandest title.
OwnRealm(snap, c) ==
  LET held == HeldTitlesSorted(snap, c)
  IN  CASE held = << >> -> None
        [] TierRank(snap.titles.row[Head(held)].tier) >= TierRank("kingdom") -> Head(held)
        [] OTHER -> WalkDeJure(snap, Head(held), "kingdom")

\* _primary_realm_with_fallback: its own realm or that of its family, depth
\* first, everyone visited once.
PrimaryRealm(snap, c) ==
  LET from[x \in Char, seen \in SUBSET Char] ==
        LET visit(acc, kin) == IF acc.realm # None \/ kin = None THEN acc ELSE from[kin, acc.seen]
            own == IF x \in seen THEN None ELSE OwnRealm(snap, x)
        IN  IF x \in seen \/ own # None \/ x \notin DOMAIN snap.characters
            THEN [realm |-> own, seen |-> seen \cup {x}]
            ELSE FoldLeft(visit, [realm |-> None, seen |-> seen \cup {x}],
                          RealmKin(snap.characters[x].family))
  IN  from[c, {}].realm

\* The duchies of an empire whose holder belongs to another realm than the de
\* jure kingdom of the duchy.
CrossCurrents(snap, empire) ==
  {t \in DOMAIN snap.titles.row :
     LET title   == snap.titles.row[t]
         kingdom == WalkDeJure(snap, t, "kingdom")
     IN  /\ title.tier = "duchy" /\ title.holder # None /\ kingdom # None
         /\ WalkDeJure(snap, kingdom, "empire") = empire
         /\ PrimaryRealm(snap, title.holder) \notin {None, kingdom}}

\* What is said of a realm.  A ruler the save does not hold has no culture.
RealmFacts(snap, realm) ==
  LET ruler == Known(snap.titles.row[realm].holder, snap)
  IN  [realm |-> realm, ruler |-> ruler,
       culture |-> IF ruler = None THEN None ELSE snap.characters[ruler].culture]

\* The region of a character: the empire over its realm, its own kingdom there
\* (an emperor's first held one, else the empire) with its own culture where the
\* ruler's is unknown, the other kingdoms, and the cross-currents.  None
\* outside any empire.
SummariseRegion(snap, c) ==
  LET realm    == PrimaryRealm(snap, c)
      empire   == WalkDeJure(snap, realm, "empire")
      kingdoms == {t \in DOMAIN snap.titles.row : /\ snap.titles.row[t].tier = "kingdom"
                                                 /\ WalkDeJure(snap, t, "empire") = empire}
      own      == kingdoms \cap snap.titles.of[c]
      self     == IF realm # empire THEN realm ELSE IF own = {} THEN empire ELSE Min(own)
  IN  IF realm = None \/ empire = None THEN None
      ELSE [empire |-> empire,
            self   |-> [RealmFacts(snap, self) EXCEPT
                          !.culture = IF @ = None THEN snap.characters[c].culture ELSE @],
            peers  |-> {RealmFacts(snap, t) : t \in kingdoms \ {self}},
            cross  |-> CrossCurrents(snap, empire)]

\* The great cause: the first of the character's wars fought for one, its side
\* in it, and the sovereigns beside it, who hold the realm they resolve to.
DetectGreatCause(snap, c) ==
  LET causes == {w \in snap.wars.of[c] : snap.wars.row[w].great}
      war    == snap.wars.row[Min(causes)]
      side   == ResolveWarSide(war, c)
      with   == (IF side = "attacker" THEN war.attackers ELSE war.defenders) \ {c}
      rules(x) == LET realm == PrimaryRealm(snap, x)
                  IN  realm # None /\ snap.titles.row[realm].holder = x
  IN  IF causes = {} THEN None
      ELSE [war |-> Min(causes), side |-> side, allies |-> {x \in with : rules(x)}]

(*---------------------------------------------------------------------------
  The rows a tick writes.
 ---------------------------------------------------------------------------*)

\* All columns of a tracked character: the identity, the culture, the raw record
\* (its family is what the briefing reads) and the titles, where no title is no
\* new value.
HeldTitles(snap, c) ==
  LET sorted == HeldTitlesSorted(snap, c)
  IN  [i \in DOMAIN sorted |-> [key  |-> snap.titles.row[sorted[i]].key,
                                tier |-> snap.titles.row[sorted[i]].tier]]
HydrateColumns(snap, c) ==
  Merge(Identity(snap, c),
        [culture |-> snap.characters[c].culture,
         record  |-> snap.characters[c].family,
         held    |-> IF snap.titles.of[c] = {} THEN None ELSE HeldTitles(snap, c)])
RefreshTracked(rows, snap, tracked) ==
  [c \in Char |-> IF c \notin tracked \cap DOMAIN snap.characters THEN rows[c]
                  ELSE UpsertCharacter(rows[c], Merge(HydrateColumns(snap, c),
                                                      [region |-> SummariseRegion(snap, c),
                                                       cause  |-> DetectGreatCause(snap, c)]))]

\* payload_canonical_json, and the unique (type, date, character, payload).
PayloadJson(e) ==
  [c |-> e.c, t |-> e.t, d |-> e.d,
   p |-> Restrict(e.p, {f \in DOMAIN e.p : e.p[f] # None})]

\* Every character an event names gets a row before the event is inserted; an
\* event that is already there is a duplicate.
IngestDiffEvents(db, diff, snap) ==
  LET people == UNION {{e.c} \cup {r[2] : r \in e.with} : e \in diff}
  IN  [rows   |-> [c \in Char |-> IF c \notin people THEN db.rows[c]
                                  ELSE UpsertCharacter(db.rows[c], Identity(snap, c))],
       events |-> db.events \cup {PayloadJson(e) : e \in diff}]

(*---------------------------------------------------------------------------
  What is read back for one character.
 ---------------------------------------------------------------------------*)

EventsOf(db, c) == {e \in db.events : e.c = c}

\* extract_referenced_ids: the keys that end in _character_id and a list of
\* others, and the participants of a memory.
CharacterIdKeys ==
  {"spouse_character_id", "former_spouse_character_id", "ally_character_id",
   "artisan_character_id", "from_holder_id", "to_holder_id", "host_id", "employer_id",
   "employee_id", "concubine_id", "assumed_father_id", "killer"}
Referenced(events) ==
  UNION {{e.p[k] : k \in DOMAIN e.p \cap CharacterIdKeys}
           \cup Range(IF "participants" \in DOMAIN e.p THEN e.p.participants ELSE << >>)
         : e \in events}

\* The people whose row the briefing reads, and those of them with a name.
Related(db, c) == {x \in Referenced(EventsOf(db, c)) \cup {c} : db.rows[x] # None}
NamesMap(db, c) == {x \in Related(db, c) : db.rows[x].first_name # None}

(*---------------------------------------------------------------------------
  The prompt.
 ---------------------------------------------------------------------------*)

\* The event types with a renderer, by how their line speaks of people: by name
\* or else by bare id; by the name in the payload first; only when the name is
\* known; of nobody else.  Any other type is told by its bare type name.
NamedOrId ==
  [title_acquired |-> "from_holder_id", title_relinquished |-> "to_holder_id",
   alliance_formed |-> "ally_character_id", alliance_broken |-> "ally_character_id",
   marriage |-> "spouse_character_id", divorce |-> "former_spouse_character_id",
   miscarriage |-> "assumed_father_id"]
PayloadNameFirst ==
  [concubine_taken |-> <<"concubine_id", "concubine_name">>,
   camp_companion_joined |-> <<"employee_id", "employee_name">>,
   camp_companion_left |-> <<"employee_id", "employee_name">>]
OnlyIfNamed ==
  [contract_completed |-> "employer_id", activity_completed |-> "host_id",
   inspiration_sponsored |-> "artisan_character_id"]
NobodyElse ==
  {"travel", "trait_gained", "trait_lost", "war_concluded", "war_joined", "war_declared",
   "war_left", "title_created", "death", "domicile_moved", "splendor_increased"}
NobodyElseStates ==
  {"nickname", "adventurer_started", "adventurer_ended", "government_changed", "house_change",
   "culture_change", "faith_change", "decision_taken", "building_completed", "artifact_acquired",
   "artifact_lost", "epidemic_outbreak", "dynasty_legacy_unlocked", "modifier_acquired",
   "perk_acquired", "lifestyle_committed"}
Renderers == UNION {DOMAIN NamedOrId, DOMAIN PayloadNameFirst, DOMAIN OnlyIfNamed, NobodyElse,
                    NobodyElseStates, {"vanilla_memory"}}

\* The tiers a briefing knows better than the events: that of the primary title.
TitlesMap(row) == IF row.held = None THEN << >> ELSE Head(row.held).key :> Head(row.held).tier

\* Faulty variant: the tier stays the one the event was stored with.
ResolveTierFrozen(p, titles) == p.tier

\* A title founded before the game wired it into the hierarchy was stored
\* without a rank; a rank that was stored is not rewritten.
ResolveTier(p, titles) ==
  IF p.tier = "other" /\ p.title_key \in DOMAIN titles THEN titles[p.title_key] ELSE p.tier

\* The people of a memory, by role.
Participants(e) == IF e.t = "vanilla_memory" THEN Range(e.p.participants) ELSE {}

\* render_event_body: who is named in the line of an event, which bare ids
\* stand in it, the title it is about, and whether it is more than the name of
\* the type.  The host's own line names nobody.
RenderEvent(e, names, titles) ==
  LET at(key)  == {Get(e.p, key)} \ {None}
      always   == Participants(e) \cup IF e.t \in DOMAIN NamedOrId THEN at(NamedOrId[e.t]) ELSE {}
      first    == IF e.t \in DOMAIN PayloadNameFirst THEN PayloadNameFirst[e.t] ELSE <<"", "">>
      inline   == at(first[2])
      looked   == IF inline = {} THEN at(first[1]) ELSE {}
      optional == IF e.t \in DOMAIN OnlyIfNamed /\ Get(e.p, "role") # "host"
                  THEN at(OnlyIfNamed[e.t]) ELSE {}
  IN  [named |-> inline \cup ((always \cup looked \cup optional) \cap names),
       bare  |-> (always \cup looked) \ names,
       title |-> IF e.t \in DOMAIN TitleEvents
                 THEN [key |-> e.p.title_key, tier |-> ResolveTier(e.p, titles)] ELSE None,
       told  |-> e.t \in Renderers]

\* The world-context block: the persisted region, with the subject's own culture
\* where a region stored by an older build has none for its realm.
WorldContextBlock(row) ==
  IF row.region = None THEN None
  ELSE [row.region EXCEPT !.self.culture = IF @ = None THEN row.culture ELSE @]

\* The great-cause block, which speaks of a dead subject's cause as the one it
\* died for.
GreatCauseBlock(row) ==
  IF row.cause = None THEN None
  ELSE [war |-> row.cause.war, side |-> row.cause.side, allies |-> row.cause.allies,
        at_death |-> row.death_date # None]

\* Faulty variant: an ended marriage is looked at before the present ones.
FamilyLabelsFormerFirst(family) ==
  <<<<"father", {family.father}>>, <<"mother", {family.mother}>>,
    <<"former spouse", family.former_spouses>>,
    <<"spouse", {family.primary_spouse} \cup family.spouses>>,
    <<"concubine", family.concubines>>, <<"child", family.children>>>>

\* The subject's own family record, in the order in which the first label for
\* a person stands.  (Concubinist and betrothed, which no other part of the
\* model reads, are left out, and so is the sex of parents and children.)
FamilyLabels(family) ==
  <<<<"father", {family.father}>>, <<"mother", {family.mother}>>,
    <<"spouse", {family.primary_spouse} \cup family.spouses>>,
    <<"former spouse", family.former_spouses>>,
    <<"concubine", family.concubines>>, <<"child", family.children>>>>

\* _build_relation_labels: the label of x in c's briefing, from c's record and
\* else from x's own record naming c as its child.
RelationLabel(db, c, x) ==
  LET own   == IF db.rows[c].record = None THEN << >> ELSE FamilyLabels(db.rows[c].record)
      first == SelectInSeq(own, LAMBDA l : x \in l[2])
      theirs == db.rows[x].record
  IN  CASE first # 0 -> own[first][1]
        [] first = 0 /\ x # c /\ theirs # None /\ c \in theirs.children -> "parent"
        [] OTHER -> None

\* detect_death_clusters: the memories of a relative's death in date order,
\* grouped while each is within the window of the one before; groups of enough
\* deaths are told.  The memory type is read at the top of the stored JSON.
DetectDeathClusters(events) ==
  LET deaths == {e \in events : e.t = "vanilla_memory" /\ Get(e, "memory_type") = "relative_died"}
      sorted == SetToSortSeq(deaths, LAMBDA e, f : e.d < f.d)
      near(groups, e) == groups # << >> /\ e.d - Last(Last(groups)).d <= ClusterWindow
      add(groups, e) == IF near(groups, e)
                        THEN Append(Front(groups), Append(Last(groups), e))
                        ELSE Append(groups, <<e>>)
  IN  SelectSeq(FoldLeft(add, << >>, sorted), LAMBDA g : Len(g) >= ClusterMin)

\* build_briefing: one character's briefing.
BuildBriefing(db, c) ==
  LET row   == db.rows[c]
      names == NamesMap(db, c)
      world == WorldContextBlock(row)
  IN  [kind     |-> IF world = None THEN "biography" ELSE "biography_woven",
       world    |-> world,
       cause    |-> GreatCauseBlock(row),
       glossary |-> [x \in names \ {c} |-> RelationLabel(db, c, x)],
       lines    |-> {RenderEvent(e, names, TitlesMap(row)) : e \in EventsOf(db, c)},
       clusters |-> DetectDeathClusters(EventsOf(db, c))]
==============================================================================
