----------------------------- MODULE EventSchema -----------------------------
(***************************************************************************)
(* The canonical events (schema/events.py): for every event type the payload *)
(* fields that must have a value and those that may be None.  The models are *)
(* strict (extra = "forbid"): an unknown field, a missing one or a None where *)
(* a value is required raises a ValidationError, and so does an unknown type. *)
(* Field types are left out: every value the differ puts in a field comes    *)
(* from the parser's field of the same type.                                 *)
(***************************************************************************)
EXTENDS Sequences, TLC

\* Two tables in one, the first one's entry where both have one: what @@ of the
\* TLC module is, with a definition the provers can expand.
Merge(f, g) == [k \in DOMAIN f \cup DOMAIN g |-> IF k \in DOMAIN f THEN f[k] ELSE g[k]]

Fields(must, may) == [must |-> must, may |-> may]
Empty == Fields({}, {})

\* One type of each name with these fields.
Each(types, fields) == [t \in types |-> fields]

VitalEvents ==
  [death    |-> Fields({}, {"killer", "cause", "death_age"}),
   birth    |-> Empty,
   marriage |-> Fields({}, {"spouse_character_id"}),
   divorce  |-> Fields({}, {"former_spouse_character_id"})]

\* Events only the in-game mod reports.
ModEvents == Each({"title_gain", "title_lost", "war_started", "war_won_attacker",
                   "war_won_defender", "imprison", "release"}, Empty)

PersonalEvents ==
  LET trait == Fields({"trait_id"}, {"trait_name"})
      ally  == Fields({"ally_character_id"}, {})
  IN  [trait_gained |-> trait, trait_lost |-> trait,
       adventurer_started |-> Empty, adventurer_ended |-> Empty,
       alliance_formed |-> ally, alliance_broken |-> ally,
       travel   |-> Fields({}, {"from_location", "to_location"}),
       nickname |-> Fields({}, {"from_nickname", "to_nickname"}),
       government_changed |-> Fields({"previous_government", "new_government"}, {})]

TitleEvents ==
  LET title(others) == Fields({"title_id", "title_key"}, {"title_name", "tier"} \cup others)
  IN  [title_acquired     |-> title({"from_holder_id"}),
       title_relinquished |-> title({"to_holder_id"}),
       title_created      |-> title({})]

IdentityEvents ==
  [house_change   |-> Fields({}, {"from_house_id", "from_house_name", "to_house_id", "to_house_name"}),
   culture_change |-> Fields({}, {"from_culture_id", "from_culture_name",
                                  "to_culture_id", "to_culture_name"}),
   faith_change   |-> Fields({}, {"from_faith_id", "from_faith_name", "to_faith_id", "to_faith_name"})]

WarEvents ==
  Each({"war_declared", "war_joined", "war_left", "war_concluded"},
       Fields({"war_id"}, {"war_name", "casus_belli_type", "targeted_titles", "side",
                           "primary_attacker_id", "primary_defender_id", "claimant_id"}))

DynastyEvents ==
  LET artifact == Fields({"artifact_id"}, {"name", "type", "rarity"})
  IN  [artifact_acquired |-> artifact, artifact_lost |-> artifact,
       dynasty_legacy_unlocked |-> Fields({"dynasty_id", "legacy_key"}, {"dynasty_name"}),
       splendor_increased |-> Fields({"dynasty_id", "old_tier", "new_tier", "total_renown_at_change"},
                                     {"dynasty_name", "dynasty_head_id"})]

LifestyleEvents ==
  [concubine_taken     |-> Fields({"concubine_id"}, {"concubine_name"}),
   modifier_acquired   |-> Fields({"modifier_key"}, {}),
   perk_acquired       |-> Fields({"perk_key"}, {}),
   lifestyle_committed |-> Fields({"lifestyle_key", "first_perk_key"}, {})]

AdventurerEvents ==
  LET companion == Fields({"position_id"}, {"court_position", "employee_id", "employee_name", "hire_date"})
  IN  [camp_companion_joined |-> companion, camp_companion_left |-> companion,
       contract_completed |->
         Fields({"outcome"}, {"contract_type", "name", "tier", "employer_id", "location_province_id",
                              "acceptance_date", "completion_date"}),
       domicile_moved |-> Fields({"domicile_id"}, {"domicile_type", "from_province_id", "to_province_id"})]

MemoryEvents ==
  [vanilla_memory    |-> Fields({"memory_type", "participants"},
                                {"end_date", "deceased_cause", "deceased_age", "deceased_first_name",
                                 "deceased_killer_id", "deceased_killer_first_name"}),
   epidemic_outbreak |-> Fields({"epidemic_id"}, {"epidemic_type", "name", "intensity", "start_date",
                                                  "num_infected_provinces", "num_character_deaths"})]

ActivityEvents ==
  [activity_completed |-> Fields({"activity_id", "role"},
                                 {"activity_type", "host_id", "start_province_id", "start_date"}),
   inspiration_sponsored |-> Fields({"inspiration_id"},
                                    {"inspiration_type", "artisan_character_id", "total_cost"}),
   miscarriage |-> Fields({}, {"assumed_father_id"})]

DeedEvents ==
  [decision_taken     |-> Fields({"decision_id"}, {"cooldown_end_date"}),
   building_completed |-> Fields({"building", "province_id", "slot_index"}, {"start_date"})]

\* The discriminated union over t, whose tables have no type in common.
EventPayload ==
  {VitalEvents, ModEvents, PersonalEvents, TitleEvents, IdentityEvents, WarEvents, DynastyEvents,
   LifestyleEvents, AdventurerEvents, MemoryEvents, ActivityEvents, DeedEvents}

\* What pydantic accepts: a payload whose fields with a value are `given` and
\* whose fields in all are `fields`.
Valid(t, fields, given) ==
  \E table \in EventPayload :
    /\ t \in DOMAIN table
    /\ table[t].must \subseteq given
    /\ fields \subseteq table[t].must \cup table[t].may
==============================================================================
