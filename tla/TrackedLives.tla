---------------------------- MODULE TrackedLives ----------------------------
(***************************************************************************)
(* Who is tracked: the registry's tracked_characters rows of one campaign, *)
(* written by the user (the Tracked page), by every save-tail tick, by the *)
(* auto-track request and by adoption, under the campaign's rules.         *)
(*                                                                         *)
(*   world     the player's family and realm in the newest save            *)
(*   rules     the persisted auto_track_rules, or Unset                    *)
(*   tracked   the row of a character, or NoRow                            *)
(*   present   the campaign's registry row exists                          *)
(*   tick      the tick in flight: the save it parsed, the ids it read     *)
(*             and, for the properties, who was untracked meanwhile        *)
(*   auto      the auto-track request in flight: the rules it was given    *)
(*             and the save it is parsing                                  *)
(*   put       rule updates between their read and their write             *)
(*   asked, kin, due   history: added by hand; ever related; owed by the   *)
(*             last tick                                                   *)
(***************************************************************************)
EXTENDS Naturals, FiniteSets

CONSTANTS Chars, Founder, Titles, Tier, Liege, Holder0, Putters, UserRole,
          MaxMoves, MaxCalls, NoRow, NoOne, Unset, Idle

\* what a row can say: the role add_tracked_character was last given, the
\* timestamps the user set
Kinds == {"player", "spouse", "child", "grandchild", "parent", "vassal"}
Marks == {"paused", "bumped"}
Rows  == [role : Kinds \cup {UserRole, NoOne}, marks : SUBSET Marks]

ASSUME TrackedAssumption ==
    /\ Founder \in Chars
    /\ Liege \in [Titles -> Titles \cup {NoOne}]
    /\ Holder0 \in [Titles -> Chars \cup {NoOne}]
    /\ NoOne \notin Chars /\ NoOne \notin Titles /\ NoOne \notin Kinds
    /\ NoRow \notin Rows

VARIABLES world, rules, tracked, present, tick, auto, put,
          asked, kin, due, moves, calls

history == <<asked, kin, due>>
bounds  == <<moves, calls>>
vars == <<world, rules, tracked, present, tick, auto, put, history, bounds>>

Flags   == {"heirs", "spouses", "grandchildren", "vassals"}
Default == Flags \ {"vassals"}

\* resolve_auto_track_rules: what is persisted, over the defaults.
Resolved(r) == IF r = Unset THEN Default ELSE r

Tracked == {c \in Chars : tracked[c] # NoRow}

(***************************************************************************)
(* auto_track_candidates: the first relation that applies names the role.  *)
(***************************************************************************)
ChildrenOf(w, c) == {k \in Chars : <<c, k>> \in w.child}
SpousesOf(w, c)  == {s \in Chars : {c, s} \in w.wed}
ParentsOf(w, c)  == {p \in Chars : <<p, c>> \in w.child}

LiegeOf(t) == IF t = NoOne THEN NoOne ELSE Liege[t]

\* _VASSAL_CHAIN_MAX_DEPTH: the walk up the chain takes five steps.
LiegesAbove(t) ==
    LET l1 == LiegeOf(t)
        l2 == LiegeOf(l1)
        l3 == LiegeOf(l2)
        l4 == LiegeOf(l3)
        l5 == LiegeOf(l4)
    IN {l1, l2, l3, l4, l5} \ {NoOne}

\* Above a county come a duchy, a kingdom and an empire, and the highest has no
\* liege or is its own: the chain ends, or repeats, within the five steps.
ASSUME ChainAssumption ==
    \A c \in Titles : Tier[c] = "county" =>
        LET top == LiegeOf(LiegeOf(LiegeOf(LiegeOf(LiegeOf(c)))))
        IN LiegeOf(top) \in LiegesAbove(c) \cup {NoOne}

Realm(w) == {t \in Titles : /\ w.holder[t] = w.player
                            /\ Tier[t] \in {"duchy", "kingdom", "empire"}}

\* _resolve_county_vassals: counties whose de jure chain meets the realm.
CountyVassals(w) ==
    {w.holder[t] : t \in {c \in Titles : Tier[c] = "county"
                             /\ LiegesAbove(c) \cap Realm(w) # {}}} \ {NoOne, w.player}

\* Faulty variant: grandchildren only when heirs are tracked too.
RelationHeirsOnly(w, r, c) ==
    CASE c = w.player -> "player"
      [] "spouses" \in r /\ c \in SpousesOf(w, w.player) -> "spouse"
      [] "heirs" \in r /\ c \in ChildrenOf(w, w.player) -> "child"
      [] "heirs" \in r /\ "grandchildren" \in r
           /\ \E k \in ChildrenOf(w, w.player) : c \in ChildrenOf(w, k) -> "grandchild"
      [] c \in ParentsOf(w, w.player) -> "parent"
      [] "vassals" \in r /\ c \in CountyVassals(w) -> "vassal"
      [] OTHER -> NoOne

Relation(w, r, c) ==
    CASE c = w.player -> "player"
      [] "spouses" \in r /\ c \in SpousesOf(w, w.player) -> "spouse"
      [] "heirs" \in r /\ c \in ChildrenOf(w, w.player) -> "child"
      [] "grandchildren" \in r
           /\ \E k \in ChildrenOf(w, w.player) : c \in ChildrenOf(w, k) -> "grandchild"
      [] c \in ParentsOf(w, w.player) -> "parent"
      [] "vassals" \in r /\ c \in CountyVassals(w) -> "vassal"
      [] OTHER -> NoOne

Candidates(w, r) == IF w.player = NoOne THEN {} ELSE {c \in Chars : Relation(w, r, c) # NoOne}

\* Faulty variant: INSERT OR REPLACE.
AddReplacing(rows, c, role) == [rows EXCEPT ![c] = [role |-> role, marks |-> {}]]

\* add_tracked_character: an upsert that overwrites only what it was given.
Add(rows, c, role) ==
    [rows EXCEPT ![c] = IF @ = NoRow THEN [role |-> role, marks |-> {}]
                        ELSE IF role = NoOne THEN @ ELSE [@ EXCEPT !.role = role]]

AddAll(rows, cs, role(_)) ==
    [c \in Chars |-> IF c \in cs THEN Add(rows, c, role(c))[c] ELSE rows[c]]

(***************************************************************************)
(* What the properties compare with: kinship as such, and the realm as     *)
(* everything under the player's titles.                                   *)
(***************************************************************************)
Under(w) ==
    {t \in Titles : \A S \in SUBSET Titles :
        Realm(w) \subseteq S /\ (\A u \in Titles : Liege[u] \in S => u \in S) => t \in S}

Kin(w, r) ==
    IF w.player = NoOne THEN {} ELSE
    UNION { {w.player}, ParentsOf(w, w.player),
            IF "spouses" \in r THEN {s \in Chars : {s, w.player} \in w.wed} ELSE {},
            IF "heirs" \in r THEN {k \in Chars : <<w.player, k>> \in w.child} ELSE {},
            IF "grandchildren" \in r
            THEN {g \in Chars : \E k \in Chars : {<<w.player, k>>, <<k, g>>} \subseteq w.child}
            ELSE {},
            IF "vassals" \in r
            THEN {w.holder[t] : t \in {u \in Under(w) : Tier[u] = "county"}} \ {NoOne, w.player}
            ELSE {} }

\* Every step may make someone kin.
Remember == kin' = kin \cup Kin(world', Flags)

(***************************************************************************)
(* The game.  MaxMoves bounds its moves.                                   *)
(***************************************************************************)
Move == moves < MaxMoves /\ moves' = moves + 1
        /\ UNCHANGED <<rules, tracked, present, tick, auto, put, asked, due, calls>>

Playing == world.player # NoOne
Alive(c) == c \notin world.dead
Newcomer(c) == /\ Alive(c) /\ c # world.player
               /\ ParentsOf(world, c) = {} /\ SpousesOf(world, c) = {}

Marry(c) == /\ Move /\ Playing /\ Newcomer(c)
            /\ world' = [world EXCEPT !.wed = @ \cup {{world.player, c}}]
            /\ Remember

Birth(p, c) == /\ Move /\ Playing /\ Newcomer(c) /\ Alive(p) /\ p # c
               /\ p = world.player \/ p \in ChildrenOf(world, world.player)
               /\ world' = [world EXCEPT !.child = @ \cup {<<p, c>>}]
               /\ Remember

\* The player dies; a living child, if any, is played on.
Succession ==
    /\ Move /\ Playing
    /\ LET heirs == ChildrenOf(world, world.player) \ world.dead IN
       \E next \in IF heirs = {} THEN {NoOne} ELSE heirs :
          world' = [world EXCEPT !.dead = @ \cup {world.player}, !.player = next]
    /\ Remember

Grant(t, c) == /\ Move /\ Alive(c) /\ world.holder[t] # c
               /\ world' = [world EXCEPT !.holder[t] = c]
               /\ Remember

(***************************************************************************)
(* The user.  MaxCalls bounds the requests.                                *)
(***************************************************************************)
Call == present /\ calls < MaxCalls /\ calls' = calls + 1

AddTracked(c) ==
    /\ Call
    /\ tracked' = Add(tracked, c, UserRole)
    /\ asked' = asked \cup {c}
    /\ UNCHANGED <<world, rules, present, tick, auto, put, kin, due, moves>>

DeleteTracked(c) ==
    /\ Call /\ c \in Tracked
    /\ tracked' = [tracked EXCEPT ![c] = NoRow]
    /\ due' = due \ {c}
    /\ tick' = IF tick = Idle THEN Idle ELSE [tick EXCEPT !.gone = @ \cup {c}]
    /\ UNCHANGED <<world, rules, present, auto, put, asked, kin, moves>>

\* Pause and bump set a timestamp; resume clears the pause.
MarkTracked(c, m) ==
    /\ Call /\ c \in Tracked /\ m \notin tracked[c].marks
    /\ tracked' = [tracked EXCEPT ![c].marks = @ \cup {m}]
    /\ UNCHANGED <<world, rules, present, tick, auto, put, history, moves>>

ResumeTracked(c) ==
    /\ Call /\ c \in Tracked /\ "paused" \in tracked[c].marks
    /\ tracked' = [tracked EXCEPT ![c].marks = @ \ {"paused"}]
    /\ UNCHANGED <<world, rules, present, tick, auto, put, history, moves>>

\* PUT /auto-track-rules runs on a pool thread: it patches the rules that came
\* with the campaign row and writes all of them back.
PutStart(h, f, on) ==
    /\ Call /\ put[h] = Idle
    /\ put' = [put EXCEPT ![h] = IF on THEN Resolved(rules) \cup {f}
                                 ELSE Resolved(rules) \ {f}]
    /\ UNCHANGED <<world, rules, tracked, present, tick, auto, history, moves>>

PutWrite(h) ==
    /\ put[h] # Idle
    /\ rules' = IF present THEN put[h] ELSE rules
    /\ put' = [put EXCEPT ![h] = Idle]
    /\ UNCHANGED <<world, tracked, present, tick, auto, asked, due, bounds>>
    /\ Remember

\* The auto-track request: the rules are those of the campaign row it was
\* given, and the parse of the newest save takes a while.
AutoStart ==
    /\ Call /\ auto = Idle /\ Playing
    /\ auto' = [save |-> world, rules |-> Resolved(rules)]
    /\ UNCHANGED <<world, rules, tracked, present, tick, put, history, moves>>

NoRole(c) == NoOne

AutoTrack ==
    /\ auto # Idle
    /\ tracked' = AddAll(tracked, Candidates(auto.save, auto.rules) \ Tracked, NoRole)
    /\ auto' = Idle
    /\ UNCHANGED <<world, rules, present, tick, put, history, bounds>>

\* Adopting a save of the campaign again: its auto-track is given no rules.
AdoptTrack ==
    /\ Call /\ Playing
    /\ tracked' = AddAll(tracked, Candidates(world, Default) \ Tracked, NoRole)
    /\ UNCHANGED <<world, rules, present, tick, auto, put, history, moves>>

\* delete_campaign takes the tracked rows along; the save-tail is not stopped.
DeleteCampaign ==
    /\ Call
    /\ present' = FALSE
    /\ tracked' = [c \in Chars |-> NoRow]
    /\ due' = {}
    /\ tick' = IF tick = Idle THEN Idle ELSE [tick EXCEPT !.gone = Chars]
    /\ UNCHANGED <<world, rules, auto, put, asked, kin, moves>>

(***************************************************************************)
(* A tick: read the tracked ids, diff and ingest (elsewhere), then pick up *)
(* the family members the ids lack.  With nobody tracked it only advances  *)
(* the baseline.                                                           *)
(***************************************************************************)
TickStart ==
    /\ tick = Idle /\ Tracked # {}
    /\ tick' = [save |-> world, ids |-> Tracked, gone |-> {}]
    /\ UNCHANGED <<world, rules, tracked, present, auto, put, history, bounds>>

\* _auto_track_new_candidates: the rules are read now (a campaign that has gone
\* means the defaults), the ids were read when the tick began.
AutoTrackNewCandidates ==
    /\ tick # Idle
    /\ LET r == IF present THEN Resolved(rules) ELSE Default
           role(c) == Relation(tick.save, r, c) IN
          /\ tracked' = AddAll(tracked, Candidates(tick.save, r) \ tick.ids, role)
          /\ due' = IF present THEN Kin(tick.save, r) \ tick.gone ELSE {}
    /\ tick' = Idle
    /\ UNCHANGED <<world, rules, present, auto, put, asked, kin, bounds>>

Init ==
    /\ world = [player |-> Founder, wed |-> {}, child |-> {}, dead |-> {}, holder |-> Holder0]
    /\ rules = Unset /\ present = TRUE
    /\ tracked = [c \in Chars |-> IF c = Founder
                                  THEN [role |-> NoOne, marks |-> {}] ELSE NoRow]
    /\ tick = Idle /\ auto = Idle /\ put = [h \in Putters |-> Idle]
    /\ asked = {} /\ due = {}
    /\ kin = Kin(world, Flags)
    /\ moves = 0 /\ calls = 0

Game == \/ \E c \in Chars : Marry(c) \/ \E p \in Chars : Birth(p, c)
        \/ Succession
        \/ \E t \in Titles, c \in Chars : Grant(t, c)

User == \/ \E c \in Chars : AddTracked(c) \/ DeleteTracked(c) \/ ResumeTracked(c)
                            \/ \E m \in Marks : MarkTracked(c, m)
        \/ \E h \in Putters, f \in Flags, on \in BOOLEAN : PutStart(h, f, on)
        \/ AutoStart \/ AdoptTrack \/ DeleteCampaign

Tail == TickStart \/ AutoTrackNewCandidates

Next == Game \/ User \/ Tail \/ AutoTrack \/ \E h \in Putters : PutWrite(h)

Spec == Init /\ [][Next]_vars

-----------------------------------------------------------------------------
\* After a tick the player's spouses, children, grandchildren, parents and (when
\* asked for) the counts under the player's titles are all tracked, as the rules
\* of that moment have it: requests, rule changes and manual edits during the
\* tick make nobody fall through, only the user's own untracking does.  And
\* nobody the user did not name is tracked without ever having been kin or a
\* vassal of a character played.
KinTracked == /\ tick = Idle => due \subseteq Tracked
              /\ Tracked \subseteq asked \cup kin

\* What the user set on a row survives everything the program does on its own:
\* a pause or a bump is not lost to a tick, an auto-track or an adoption.
MarksSurvive == [][(Tail \/ AutoTrack \/ AdoptTrack) =>
    \A c \in Tracked : tracked'[c] # NoRow /\ tracked'[c].marks = tracked[c].marks]_vars

=============================================================================
