------------------------------ MODULE SaveParse ------------------------------
(***************************************************************************)
(* What parse_save (save/parse.py) extracts from the JSON tree rakaly makes *)
(* of a .ck3 file: the characters of three buckets, and for every table of  *)
(* records the metadata plus the reverse index from a character to the      *)
(* records that name it.  A raw save is a record of tables; a table is a     *)
(* function from ids to rows, and a row is either a record or Junk, the bare *)
(* string or integer CK3 writes beside real records.  An absent field is     *)
(* None.  Names, costs and dates that no differ compares are left out.       *)
(***************************************************************************)
EXTENDS Integers, Sequences, FiniteSets, Functions, SequencesExt

CONSTANTS Char,    \* character ids
          None,    \* Python's None
          Junk     \* a row that is not a record

\* The rows of a table that are records, and the frozen reverse index of a
\* table: for every character the rows whose set of people names it.  (The
\* code leaves characters without rows out and reads them back with a default
\* of the empty set.)
Records(table) == {k \in DOMAIN table : table[k] # Junk}
ReverseIndex(table, People(_)) ==
  [c \in Char |-> {k \in Records(table) : c \in People(table[k])}]

\* A bucket's slot is a list when rakaly grouped a repeated key: the last
\* record of it counts, and a slot without one is no character.
CharacterEntry(slot) ==
  IF Records(slot) = {} THEN None ELSE slot[Max(Records(slot))]

\* Family relations; a rakaly list for "no family at all" reads as no relation.
ParseFamily(raw) ==
  IF raw = Junk
  THEN [primary_spouse |-> None, spouses |-> {}, former_spouses |-> {},
        concubines |-> {}, children |-> {}, mother |-> None, father |-> None]
  ELSE raw

\* One character record.  Memories and location come from alive_data, or from
\* dead_data once the character is in a dead bucket; perks only while alive;
\* the death date from dead_data whatever the bucket; government and decision
\* cooldowns from landed_data when there is one.
ParseCharacter(r, dead, memories) ==
  LET life == IF dead THEN r.dead_data ELSE r.alive_data
      in(field, default) == IF life = None THEN default ELSE life[field]
  IN  [is_dead    |-> dead,
       death_date |-> IF r.dead_data = None THEN None ELSE r.dead_data.date,
       killer     |-> IF r.dead_data = None THEN None ELSE r.dead_data.killer,
       location   |-> in("location", None),
       memories   |-> in("memories", {}) \cap Records(memories),
       perks      |-> IF dead THEN {} ELSE in("perk", {}),
       government |-> IF r.landed_data = None THEN None ELSE r.landed_data.government,
       decisions  |-> IF r.landed_data = None THEN {} ELSE r.landed_data.cooldowns,
       first_name |-> r.first_name,
       female     |-> r.female,
       nickname   |-> r.nickname,
       house      |-> r.house,
       culture    |-> r.culture,
       faith      |-> r.faith,
       traits     |-> r.traits,
       modifiers  |-> r.modifiers,
       family     |-> ParseFamily(r.family_data)]

\* Alliances in both directions, from the relations that carry the key.
ParseAlliances(raw) ==
  [c \in Char |-> {d \in Char : \E rel \in raw.relations :
                      /\ rel.alliances
                      /\ {rel.first, rel.second} = {c, d}}]

\* Artifacts by owner.
ParseArtifacts(raw) ==
  [row |-> Restrict(raw.artifacts, Records(raw.artifacts)),
   of  |-> ReverseIndex(raw.artifacts, LAMBDA r : {r.owner})]

\* Wars: both sides' participants, the casus belli's principals, and the wars
\* each participant of either side is in.
ParseWars(raw) ==
  [row |-> Restrict(raw.wars, Records(raw.wars)),
   of  |-> ReverseIndex(raw.wars, LAMBDA r : r.attackers \cup r.defenders)]

\* Epidemics by infected character, activities by host and by attendee.
ParseEpidemics(raw) ==
  [row |-> Restrict(raw.epidemics, Records(raw.epidemics)),
   of  |-> ReverseIndex(raw.epidemics, LAMBDA r : r.characters)]
ParseActivities(raw) ==
  [row |-> Restrict(raw.activities, Records(raw.activities)),
   of  |-> ReverseIndex(raw.activities, LAMBDA r : {r.host} \cup r.attending)]

\* Inspirations: the artisan is read off the living record that carries the
\* inspiration, the sponsor index off landed_data, so an index entry may point
\* at an id whose row is Junk.
ParseInspirations(raw) ==
  LET alive == {c \in DOMAIN raw.living : CharacterEntry(raw.living[c]) # None}
      entry(c) == CharacterEntry(raw.living[c])
  IN  [row |-> [i \in Records(raw.inspirations) |->
                  {c \in alive : entry(c).alive_data.inspiration = i}],
       of  |-> [c \in Char |-> IF c \in alive /\ entry(c).landed_data # None
                               THEN entry(c).landed_data.sponsored ELSE {}]]

\* Contracts: rows without a status are skipped; indexed by owner only.
ParseContracts(raw) ==
  LET kept == Restrict(raw.contracts, {k \in Records(raw.contracts) :
                                          raw.contracts[k].status # None})
  IN  [row |-> kept, of |-> ReverseIndex(kept, LAMBDA r : {r.owner})]

\* Court positions: rows without an employer are skipped; indexed by employer.
ParseCourtPositions(raw) ==
  LET kept == Restrict(raw.court, {k \in Records(raw.court) :
                                      raw.court[k].employer # None})
  IN  [row |-> kept, of |-> ReverseIndex(kept, LAMBDA r : {r.employer})]

\* Tiers in ascending order, "other" for what has none.
Tiers == <<"other", "barony", "county", "duchy", "kingdom", "empire">>
TierRank(tier) == CHOOSE i \in 1..Len(Tiers) : Tiers[i] = tier
Demote(tier) == IF TierRank(tier) > 2 THEN Tiers[TierRank(tier) - 1] ELSE "other"
Promote(tier) == IF tier = "empire" THEN tier ELSE Tiers[TierRank(tier) + 1]

\* _infer_tier_for_title: the tier of a title and the memo of the pass after
\* it.  A key with a tier's prefix has that tier; a title scripted at run time
\* ranks below its de jure liege, or else above the grandest of its vassals.  A
\* title met again on the way is answered "other" without an entry.
InferTier(rows, title, before) ==
  LET memos == UNION {[T -> Range(Tiers)] : T \in SUBSET DOMAIN rows}
      infer[t \in DOMAIN rows, memo \in memos, inflight \in SUBSET DOMAIN rows] ==
        LET ask(x, m) == IF x \in DOMAIN rows THEN infer[x, m, inflight \cup {t}]
                         ELSE [tier |-> "other", memo |-> m]
            visit(acc, v) == LET r == ask(v, acc.memo)
                             IN  IF TierRank(r.tier) > TierRank(acc.tier) THEN r
                                 ELSE [acc EXCEPT !.memo = r.memo]
            up    == ask(rows[t].liege, memo)
            below == FoldLeft(visit, [tier |-> "other", memo |-> up.memo], rows[t].vassals)
            settle(tier, m) == [tier |-> tier, memo |-> (t :> tier) @@ m]
        IN  CASE t \in DOMAIN memo           -> [tier |-> memo[t], memo |-> memo]
              [] t \notin DOMAIN memo /\ t \in inflight -> [tier |-> "other", memo |-> memo]
              [] OTHER ->
                   IF rows[t].tier # "other" THEN settle(rows[t].tier, memo)
                   ELSE IF Demote(up.tier) # "other" THEN settle(Demote(up.tier), up.memo)
                   ELSE IF below.tier # "other" THEN settle(Promote(below.tier), below.memo)
                   ELSE settle("other", below.memo)
  IN  infer[title, before, {}]

\* Titles: rows without a key are sentinels; the tiers are resolved in the
\* order of the table with one memo; and the titles each one holds.
ParseTitles(raw) ==
  LET kept == Restrict(raw.titles, {k \in Records(raw.titles) : raw.titles[k].key # None})
      pass(memo, t) == InferTier(kept, t, memo).memo
      tiers == FoldLeft(pass, << >>, SetToSortSeq(DOMAIN kept, <))
      rows == [t \in DOMAIN kept |-> [kept[t] EXCEPT !.tier = tiers[t]]]
  IN  [row |-> rows, of |-> ReverseIndex(rows, LAMBDA r : {r.holder})]

\* Domiciles: rows without an owner title are skipped; a character occupies
\* the last domicile whose title it holds.
ParseDomiciles(raw, titles) ==
  LET kept == Restrict(raw.domiciles, {k \in Records(raw.domiciles) :
                                          raw.domiciles[k].owner_title # None})
      home(c) == {k \in DOMAIN kept : /\ kept[k].owner_title \in DOMAIN titles
                                      /\ titles[kept[k].owner_title].holder = c}
  IN  [row |-> kept,
       of  |-> [c \in Char |-> IF home(c) = {} THEN None
                               ELSE CHOOSE k \in home(c) : \A j \in home(c) : j <= k]]

\* Constructions and buildings, both keyed by <<province, slot>>: what is being
\* built (the last record of a slot), who is building where, what stands.
ParseConstructions(raw) ==
  LET sites == {k \in Records(raw.sites) : raw.sites[k].building # None}
  IN  [row   |-> Restrict(raw.sites, sites),
       of    |-> [c \in Char |-> {k \in sites : raw.sites[k].character = c}],
       built |-> Restrict(raw.buildings, Records(raw.buildings))]

\* Dynasties and houses: legacy perks and lifetime renown per dynasty, and the
\* dynasty of each house that has one.
ParseDynasties(raw) ==
  LET houses == {h \in Records(raw.houses) : raw.houses[h].dynasty # None}
  IN  [perks  |-> [d \in Records(raw.dynasties) |-> raw.dynasties[d].perk],
       renown |-> [d \in Records(raw.dynasties) |-> raw.dynasties[d].accumulated],
       of     |-> [h \in houses |-> raw.houses[h].dynasty]]

\* The snapshot.  The living are read first, then the two dead buckets, a
\* later bucket overwriting an earlier one.
Bucket == <<"living", "dead_unprunable", "dead_prunable">>
ParseCharacters(raw) ==
  LET found(b) == {c \in DOMAIN raw[b] : CharacterEntry(raw[b][c]) # None}
      last(c) == CHOOSE i \in 1..3 : /\ c \in found(Bucket[i])
                                     /\ \A j \in (i + 1)..3 : c \notin found(Bucket[j])
  IN  [c \in UNION {found(Bucket[i]) : i \in 1..3} |->
         ParseCharacter(CharacterEntry(raw[Bucket[last(c)]][c]), last(c) > 1, raw.memories)]

ParseSave(raw) ==
  LET titles == ParseTitles(raw)
  IN  [date         |-> raw.date,
       characters   |-> ParseCharacters(raw),
       memories     |-> Restrict(raw.memories, Records(raw.memories)),
       alliances    |-> ParseAlliances(raw),
       wars         |-> ParseWars(raw),
       artifacts    |-> ParseArtifacts(raw),
       dynasties    |-> ParseDynasties(raw),
       epidemics    |-> ParseEpidemics(raw),
       constructions|-> ParseConstructions(raw),
       activities   |-> ParseActivities(raw),
       inspirations |-> ParseInspirations(raw),
       contracts    |-> ParseContracts(raw),
       court        |-> ParseCourtPositions(raw),
       titles       |-> titles,
       domiciles    |-> ParseDomiciles(raw, titles.row)]
==============================================================================
