----------------------------- MODULE SnapshotDiff -----------------------------
(***************************************************************************)
(* diff_snapshots (save/diff.py): the events between two parsed snapshots.   *)
(* An event is its character c, its type t, its date d, its payload p under  *)
(* the schema's field names, and the participants stored beside it as        *)
(* <<role, id>>.  A date of None stands for the date of the diff window until *)
(* the end; a field of None is one the stored JSON leaves out.  A name is    *)
(* written as the id it names.  A differ returns a set: the code's lists are *)
(* sorted by character and type at the end, and no property reads that order. *)
(***************************************************************************)
EXTENDS SaveParse

CONSTANTS LifestyleOf,   \* [perk -> lifestyle or None], the static table
          Interesting,   \* decisions whose taking is told
          Pregnant       \* the trait id that traits_lookup resolves "pregnant" to, or None

With(c, t, p, roles) == [c |-> c, t |-> t, d |-> None, p |-> p,
                         with |-> {r \in roles : r[2] # None}]
Event(c, t, p) == With(c, t, p, {})

\* One event for each key, the payload and its roles built from the key.
Events(c, t, keys, P(_)) == {Event(c, t, P(k)) : k \in keys}
EventsWith(c, t, keys, P(_), Roles(_)) == {With(c, t, P(k), Roles(k)) : k \in keys}
Bare == << >>      \* the empty payload
Known(x, curr) == IF x \in DOMAIN curr.characters THEN x ELSE None

(*---------------------------------------------------------------------------
  One character against itself.  p and c are its two snapshots.
 ---------------------------------------------------------------------------*)

\* Faulty variant: only the bucket flip counts, so that a death whose date came
\* first is never told.
DeathAppearsByBucket(p, c) == ~p.is_dead /\ c.is_dead /\ p.death_date = None

\* Death is told when either of its two signals appears and neither had: the
\* move to a dead bucket and the death date come in one save or in two.
DeathAppears(p, c) ==
  \/ ~p.is_dead /\ c.is_dead /\ p.death_date = None
  \/ p.death_date = None /\ c.death_date # None

\* A death carries its own date when the save has one, the killer, and the
\* killer and the family as participants.
FamilyParticipants(c) ==
  {<<"mother", c.family.mother>>, <<"father", c.family.father>>,
   <<"primary_spouse", c.family.primary_spouse>>}
    \cup ({"spouse"} \X c.family.spouses) \cup ({"child"} \X c.family.children)
MakeDeath(id, c) ==
  {[With(id, "death", [killer |-> c.killer], FamilyParticipants(c) \cup {<<"killer", c.killer>>})
      EXCEPT !.d = c.death_date]}

\* New spouses, a promoted primary spouse not counting as one.
NewSpouses(p, c) ==
  (c.family.spouses \ p.family.spouses)
    \cup {s \in {c.family.primary_spouse} :
            s \notin {None, p.family.primary_spouse} \cup p.family.spouses}

Adventurer == "landless_adventurer_government"

\* Faulty variant: a character that lost its land changes government too.
GovernmentEventsLandless(id, p, c) ==
  IF c.government = Adventurer THEN {Event(id, "adventurer_started", Bare)}
  ELSE {Event(id, "government_changed", [previous_government |-> p.government,
                                         new_government |-> c.government])}

\* Entering and leaving the landless-adventurer government, or a change
\* between two known governments.
GovernmentEvents(id, p, c) ==
  CASE c.government = Adventurer -> {Event(id, "adventurer_started", Bare)}
    [] p.government = Adventurer -> {Event(id, "adventurer_ended", Bare)}
    [] OTHER -> IF None \in {p.government, c.government} THEN {}
                ELSE {Event(id, "government_changed",
                            [previous_government |-> p.government,
                             new_government |-> c.government])}

\* A new memory, under its own date or else the window's; for the death of a
\* relative who is still in the save with the killer on record.
MakeVanillaMemory(id, m, curr) ==
  LET mem    == curr.memories[m]
      dead   == IF "dead_relation" \in DOMAIN mem.participants
                THEN mem.participants["dead_relation"] ELSE None
      killer == IF /\ mem.type = "relative_died"
                   /\ dead \in DOMAIN curr.characters
                THEN curr.characters[dead].killer ELSE None
  IN  [With(id, "vanilla_memory",
            [memory_type |-> mem.type, participants |-> mem.participants,
             deceased_killer_id |-> killer, deceased_killer_first_name |-> Known(killer, curr)],
            {<<role, mem.participants[role]>> : role \in DOMAIN mem.participants})
         EXCEPT !.d = mem.created]

DiffOneCharacter(id, p, c, curr) ==
  UNION {
    IF DeathAppears(p, c) THEN MakeDeath(id, c) ELSE {},
    IF /\ ~c.is_dead
       /\ None \notin {p.location, c.location}
       /\ p.location # c.location
      THEN {Event(id, "travel", [from_location |-> p.location, to_location |-> c.location])} ELSE {},
    EventsWith(id, "marriage", NewSpouses(p, c),
               LAMBDA s : [spouse_character_id |-> s], LAMBDA s : {<<"spouse", s>>}),
    EventsWith(id, "divorce", c.family.former_spouses \ p.family.former_spouses,
               LAMBDA s : [former_spouse_character_id |-> s], LAMBDA s : {<<"former_spouse", s>>}),
    IF ~c.is_dead /\ p.nickname # c.nickname
      THEN {Event(id, "nickname", [from_nickname |-> p.nickname, to_nickname |-> c.nickname])} ELSE {},
    IF ~c.is_dead /\ p.government # c.government
      THEN GovernmentEvents(id, p, c) ELSE {},
    {MakeVanillaMemory(id, m, curr) : m \in c.memories \ p.memories},
    Events(id, "decision_taken", {d \in c.decisions \ p.decisions : d[1] \in Interesting},
           LAMBDA d : [decision_id |-> d[1], cooldown_end_date |-> d[2]])}

\* Modifiers and perks are told when acquired, and a lifestyle when a new perk
\* is the character's first one in it.
DiffModifiersAndPerks(id, p, c) ==
  LET perks == c.perks \ p.perks
      had   == {LifestyleOf[k] : k \in p.perks}
      new   == {LifestyleOf[k] : k \in perks} \ (had \cup {None})
      first(l) == Min({k \in perks : LifestyleOf[k] = l})
  IN  IF c.is_dead THEN {}
      ELSE UNION {
        Events(id, "modifier_acquired", c.modifiers \ p.modifiers, LAMBDA k : [modifier_key |-> k]),
        Events(id, "perk_acquired", perks, LAMBDA k : [perk_key |-> k]),
        Events(id, "lifestyle_committed", new,
               LAMBDA l : [lifestyle_key |-> l, first_perk_key |-> first(l)])}

DiffConcubines(id, p, c, curr) ==
  IF c.is_dead THEN {}
  ELSE EventsWith(id, "concubine_taken", c.family.concubines \ p.family.concubines,
                  LAMBDA k : [concubine_id |-> k, concubine_name |-> Known(k, curr)],
                  LAMBDA k : {<<"concubine", k>>})

DiffTraits(id, p, c) ==
  LET payload(k) == [trait_id |-> k]
  IN  IF c.is_dead THEN {}
      ELSE Events(id, "trait_gained", c.traits \ p.traits, payload)
             \cup Events(id, "trait_lost", p.traits \ c.traits, payload)

Miscarriage(id, father) ==
  {With(id, "miscarriage", [assumed_father_id |-> father], {<<"assumed_father", father>>})}

\* Faulty variant: the memories are not looked at.
DiffMiscarriageAlways(id, p, c, memories) ==
  IF ~c.is_dead /\ Pregnant # None /\ Pregnant \in p.traits \ c.traits
  THEN Miscarriage(id, c.family.primary_spouse) ELSE {}

\* The pregnancy ended and no child_born memory came in the same window; the
\* primary spouse is assumed to be the father.
DiffMiscarriage(id, p, c, memories) ==
  IF /\ ~c.is_dead
     /\ Pregnant # None
     /\ Pregnant \in p.traits \ c.traits
     /\ ~\E m \in c.memories \ p.memories : memories[m].type = "child_born"
  THEN Miscarriage(id, c.family.primary_spouse) ELSE {}

\* Changes of house, culture and faith.
DiffStateChanges(id, p, c) ==
  LET told(f, t, payload) == IF c.is_dead \/ p[f] = c[f] THEN {} ELSE {Event(id, t, payload)}
  IN  UNION {
        told("house", "house_change", [from_house_id |-> p.house, to_house_id |-> c.house]),
        told("culture", "culture_change", [from_culture_id |-> p.culture, to_culture_id |-> c.culture]),
        told("faith", "faith_change", [from_faith_id |-> p.faith, to_faith_id |-> c.faith])}

(*---------------------------------------------------------------------------
  One character's slice of the snapshot-level tables of prev and curr.
 ---------------------------------------------------------------------------*)

\* Founded, taken over from a holder, given up to one.
Created(id, ts, row) ==
  Events(id, "title_created", ts,
         LAMBDA t : [title_id |-> t, title_key |-> row[t].key, tier |-> row[t].tier])
Acquired(id, ts, row, from(_)) ==
  EventsWith(id, "title_acquired", ts,
             LAMBDA t : [title_id |-> t, title_key |-> row[t].key, tier |-> row[t].tier,
                         from_holder_id |-> from(t)],
             LAMBDA t : {<<"former_holder", from(t)>>})
Relinquished(id, ts, row, to(_)) ==
  EventsWith(id, "title_relinquished", ts,
             LAMBDA t : [title_id |-> t, title_key |-> row[t].key, tier |-> row[t].tier,
                         to_holder_id |-> to(t)],
             LAMBDA t : {<<"new_holder", to(t)>>})
HolderIn(row, t) == IF t \in DOMAIN row THEN row[t].holder ELSE None

\* Faulty variant: the former holder is read from the new table.
DiffTitlesNewHolder(id, prev, curr) ==
  LET is == curr.titles.row
  IN  Acquired(id, curr.titles.of[id] \ prev.titles.of[id], is, LAMBDA t : HolderIn(is, t))
        \cup Relinquished(id, prev.titles.of[id] \ curr.titles.of[id], prev.titles.row,
                          LAMBDA t : HolderIn(is, t))

\* Titles are told of the dead too.  A baseline without any title is stale and
\* tells nothing.
DiffTitles(id, prev, curr) ==
  LET was == prev.titles.row
      is  == curr.titles.row
      gained == curr.titles.of[id] \ prev.titles.of[id]
      lost   == prev.titles.of[id] \ curr.titles.of[id]
  IN  IF was = << >> THEN {}
      ELSE UNION {Created(id, gained \ DOMAIN was, is),
                  Acquired(id, gained \cap DOMAIN was, is, LAMBDA t : HolderIn(was, t)),
                  Relinquished(id, lost, was, LAMBDA t : HolderIn(is, t))}

\* The shared skeleton of the set-diff streams: nothing for the dead, then the
\* elements that entered the character's index, as P describes them, and those
\* that left it, as Q does.
SetDiffer(id, c, was, is, added, removed, P(_), Q(_)) ==
  IF c.is_dead THEN {}
  ELSE (IF added = None THEN {} ELSE Events(id, added, is \ was, P))
         \cup (IF removed = None THEN {} ELSE Events(id, removed, was \ is, Q))

\* Alliances name the ally as a participant; artifacts and court positions name
\* none.  A position that left is described by the old table.
DiffAlliances(id, c, prev, curr) ==
  LET ally(k) == [ally_character_id |-> k]
      allied(e) == [e EXCEPT !.with =
                      {<<IF e.t = "alliance_formed" THEN "ally" ELSE "former_ally",
                         e.p.ally_character_id>>}]
  IN  {allied(e) : e \in SetDiffer(id, c, prev.alliances[id], curr.alliances[id],
                                  "alliance_formed", "alliance_broken", ally, ally)}
DiffArtifacts(id, c, prev, curr) ==
  LET artifact(k) == [artifact_id |-> k]
  IN  SetDiffer(id, c, prev.artifacts.of[id], curr.artifacts.of[id],
                "artifact_acquired", "artifact_lost", artifact, artifact)
DiffCourtPositions(id, c, prev, curr) ==
  LET position(k, s) == [position_id |-> k, employee_id |-> s.court.row[k].employee,
                         employee_name |-> Known(s.court.row[k].employee, curr)]
  IN  SetDiffer(id, c, prev.court.of[id], curr.court.of[id],
                "camp_companion_joined", "camp_companion_left",
                LAMBDA k : position(k, curr), LAMBDA k : position(k, prev))

\* Streams told one way: outbreaks when they reach the character, activities
\* when they end (as host or as attendee), inspirations when first sponsored
\* and the database has the record.
DiffHappenings(id, c, prev, curr) ==
  LET known == DOMAIN curr.inspirations.row
      outbreak(k) == [epidemic_id |-> k]
      host(k) == prev.activities.row[k].host
      activity(k) == [activity_id |-> k, host_id |-> host(k),
                      role |-> IF host(k) = id THEN "host" ELSE "attendee"]
      artisan(k) == IF curr.inspirations.row[k] = {} THEN None
                    ELSE CHOOSE x \in curr.inspirations.row[k] : TRUE
      sponsored(k) == [inspiration_id |-> k, artisan_character_id |-> artisan(k)]
  IN  UNION {SetDiffer(id, c, prev.epidemics.of[id], curr.epidemics.of[id],
                       "epidemic_outbreak", None, outbreak, outbreak),
             SetDiffer(id, c, prev.activities.of[id], curr.activities.of[id],
                       None, "activity_completed", activity, activity),
             SetDiffer(id, c, prev.inspirations.of[id], curr.inspirations.of[id] \cap known,
                       "inspiration_sponsored", None, sponsored, sponsored)}

\* A side of a war, the payload shared by the war events, and the principals
\* of both sides as participants.
ResolveWarSide(war, id) ==
  IF id \in war.attackers THEN "attacker"
  ELSE IF id \in war.defenders THEN "defender" ELSE None
WarSidePayload(w, war, id) ==
  [war_id |-> w, side |-> ResolveWarSide(war, id),
   primary_attacker_id |-> war.attacker, primary_defender_id |-> war.defender]
WarParticipants(war) == {<<"primary_attacker", war.attacker>>, <<"primary_defender", war.defender>>}

\* Wars: a war that did not exist before is declared by its principals and
\* joined by the others; one that vanished is concluded, one that goes on
\* without the character was left.
DiffWars(id, c, prev, curr) ==
  LET was == prev.wars.row
      is  == curr.wars.row
      gained == curr.wars.of[id] \ prev.wars.of[id]
      lost   == prev.wars.of[id] \ curr.wars.of[id]
      declared == {w \in gained \ DOMAIN was : id \in {is[w].attacker, is[w].defender}}
      tell(t, ws, row) == EventsWith(id, t, ws, LAMBDA w : WarSidePayload(w, row[w], id),
                                     LAMBDA w : WarParticipants(row[w]))
  IN  IF c.is_dead THEN {}
      ELSE UNION {tell("war_declared", declared, is), tell("war_joined", gained \ declared, is),
                  tell("war_concluded", lost \ DOMAIN is, was),
                  tell("war_left", lost \cap DOMAIN is, was)}

\* derive_splendor_tier: how many thresholds the lifetime renown has reached.
SplendorThresholds == {1000, 5000, 15000, 35000, 65000, 105000}
SplendorTier(accumulated) == Cardinality({t \in SplendorThresholds : accumulated >= t})

\* The dynasty of a living character's house: its new legacies, and a rise of
\* its splendor tier.  A dynasty missing from the table counts as empty.
DiffDynasty(id, c, prev, curr) ==
  LET at(table, d, default) == IF d \in DOMAIN table THEN table[d] ELSE default
      legacies(d) == Events(id, "dynasty_legacy_unlocked",
                            at(curr.dynasties.perks, d, {}) \ at(prev.dynasties.perks, d, {}),
                            LAMBDA k : [dynasty_id |-> d, legacy_key |-> k])
      old(d) == SplendorTier(at(prev.dynasties.renown, d, 0))
      new(d) == SplendorTier(at(curr.dynasties.renown, d, 0))
  IN  IF c.is_dead \/ c.house \notin DOMAIN curr.dynasties.of THEN {}
      ELSE LET d == curr.dynasties.of[c.house]
           IN  legacies(d) \cup
                 IF new(d) <= old(d) THEN {}
                 ELSE {Event(id, "splendor_increased",
                             [dynasty_id |-> d, old_tier |-> old(d), new_tier |-> new(d),
                              total_renown_at_change |-> at(curr.dynasties.renown, d, 0)])}

\* The statuses a contract ends in.
Terminal == {"completed", "invalidated"}

ContractEvents(id, ks, row) ==
  Events(id, "contract_completed", ks,
         LAMBDA k : [outcome |-> row[k].status, employer_id |-> row[k].employer])

\* A contract of the character, in either snapshot, reached a terminal status
\* that it did not have before; a contract that vanished tells nothing.
DiffContracts(id, c, prev, curr) ==
  LET ended(table, k) == k \in DOMAIN table /\ table[k].status \in Terminal
  IN  IF c.is_dead THEN {}
      ELSE ContractEvents(id, {k \in prev.contracts.of[id] \cup curr.contracts.of[id] :
                                 /\ ended(curr.contracts.row, k)
                                 /\ ~ended(prev.contracts.row, k)}, curr.contracts.row)

\* The province of the domicile the character occupied and occupies.
DiffDomicile(id, c, prev, curr) ==
  LET at(s) == IF s.domiciles.of[id] = None THEN None
               ELSE s.domiciles.row[s.domiciles.of[id]].province
  IN  IF c.is_dead \/ None \in {at(prev), at(curr)} \/ at(prev) = at(curr) THEN {}
      ELSE {Event(id, "domicile_moved",
                  [domicile_id |-> curr.domiciles.of[id],
                   from_province_id |-> at(prev), to_province_id |-> at(curr)])}

\* A construction left the character's index and its building stands in the
\* slot; otherwise it was cancelled.
DiffConstructions(id, c, prev, curr) ==
  LET built == curr.constructions.built
      left  == prev.constructions.of[id] \ curr.constructions.of[id]
      name(k) == prev.constructions.row[k].building
  IN  IF c.is_dead THEN {}
      ELSE Events(id, "building_completed", {k \in left \cap DOMAIN built : built[k] = name(k)},
                  LAMBDA k : [building |-> name(k), province_id |-> k[1], slot_index |-> k[2]])

\* The registry of the snapshot-level streams.
StreamDiffers(id, c, prev, curr) ==
  UNION {DiffAlliances(id, c, prev, curr), DiffWars(id, c, prev, curr),
         DiffArtifacts(id, c, prev, curr), DiffCourtPositions(id, c, prev, curr),
         DiffDynasty(id, c, prev, curr), DiffHappenings(id, c, prev, curr),
         DiffContracts(id, c, prev, curr), DiffDomicile(id, c, prev, curr),
         DiffConstructions(id, c, prev, curr)}

\* One tracked character: pruned, first observed (told only if already dead),
\* or compared with its earlier self.
DiffTracked(id, prev, curr) ==
  IF id \notin DOMAIN curr.characters THEN {}
  ELSE LET c == curr.characters[id]
       IN  IF id \notin DOMAIN prev.characters
           THEN IF c.is_dead \/ c.death_date # None THEN MakeDeath(id, c) ELSE {}
           ELSE LET p == prev.characters[id]
                IN  UNION {DiffOneCharacter(id, p, c, curr), DiffTitles(id, prev, curr),
                           StreamDiffers(id, c, prev, curr), DiffTraits(id, p, c),
                           DiffConcubines(id, p, c, curr), DiffModifiersAndPerks(id, p, c),
                           DiffMiscarriage(id, p, c, curr.memories),
                           DiffStateChanges(id, p, c)}

\* The tracked filter replaces the walk over the whole world; the window's
\* date goes to every event that brought none of its own.
DiffSnapshots(prev, curr, tracked) ==
  {IF e.d = None THEN [e EXCEPT !.d = curr.date] ELSE e :
     e \in UNION {DiffTracked(id, prev, curr) : id \in tracked}}
==============================================================================
