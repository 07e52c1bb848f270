------------------------- MODULE TrackedLivesProofs -------------------------
(***************************************************************************)
(* Who is tracked, for every family, every tree of titles, every number of *)
(* moves of the game and requests of the user.                             *)
(*                                                                         *)
(* Two facts carry the argument.  The candidates auto_track_candidates     *)
(* names are exactly the kin and counts the rules mean (Candidacy), for    *)
(* which the five steps up a county's de jure chain must find all that     *)
(* lies under the realm (WalkExact).  And a save a tick or a request still *)
(* holds is one whose kin history knows, and an id it read is a row unless *)
(* the user removed it meanwhile (KinKnown, ReadStillTracked).             *)
(***************************************************************************)
EXTENDS TrackedLives, TLAPS

Worlds == [player : Chars \cup {NoOne}, wed : SUBSET SUBSET Chars,
           child : SUBSET (Chars \X Chars), dead : SUBSET Chars,
           holder : [Titles -> Chars \cup {NoOne}]]

TypeOK ==
    /\ world \in Worlds /\ rules \in (SUBSET Flags) \cup {Unset}
    /\ tracked \in [Chars -> Rows \cup {NoRow}] /\ present \in BOOLEAN
    /\ tick \in [save : Worlds, ids : SUBSET Chars, gone : SUBSET Chars] \cup {Idle}
    /\ auto \in [save : Worlds, rules : SUBSET Flags] \cup {Idle}
    /\ put \in [Putters -> (SUBSET Flags) \cup {Idle}]
    /\ asked \in SUBSET Chars /\ kin \in SUBSET Chars /\ due \in SUBSET Chars

KinKnown ==
    /\ Kin(world, Flags) \subseteq kin
    /\ tick # Idle => Kin(tick.save, Flags) \subseteq kin
    /\ auto # Idle => Kin(auto.save, Flags) \subseteq kin

ReadStillTracked == tick # Idle => tick.ids \ tick.gone \subseteq Tracked

TrackedInv ==
    /\ TypeOK /\ KinKnown /\ ReadStillTracked
    /\ due \subseteq Tracked
    /\ Tracked \subseteq asked \cup kin

-----------------------------------------------------------------------------
(* The realm.                                                              *)

\* The liege of a title, if there is one, is a title.
LEMMA LiegeType ==
    ASSUME NEW t \in Titles \cup {NoOne}
    PROVE  /\ LiegeOf(t) \in Titles \cup {NoOne}
           /\ LiegeOf(t) # NoOne => t \in Titles /\ LiegeOf(t) = Liege[t]
BY TrackedAssumption DEF TrackedAssumption, LiegeOf

\* What lies above a county, step by step.
LEMMA Above ==
    ASSUME NEW c \in Titles
    PROVE  \E l1, l2, l3, l4, l5 \in Titles \cup {NoOne} :
              /\ l1 = LiegeOf(c) /\ l2 = LiegeOf(l1) /\ l3 = LiegeOf(l2)
              /\ l4 = LiegeOf(l3) /\ l5 = LiegeOf(l4)
              /\ LiegesAbove(c) = {l1, l2, l3, l4, l5} \ {NoOne}
<1>1. PICK l1 : l1 = LiegeOf(c)  OBVIOUS
<1>2. PICK l2 : l2 = LiegeOf(l1)  OBVIOUS
<1>3. PICK l3 : l3 = LiegeOf(l2)  OBVIOUS
<1>4. PICK l4 : l4 = LiegeOf(l3)  OBVIOUS
<1>5. PICK l5 : l5 = LiegeOf(l4)  OBVIOUS
<1>6. l1 \in Titles \cup {NoOne}  BY <1>1, LiegeType
<1>7. l2 \in Titles \cup {NoOne}  BY <1>2, <1>6, LiegeType
<1>8. l3 \in Titles \cup {NoOne}  BY <1>3, <1>7, LiegeType
<1>9. l4 \in Titles \cup {NoOne}  BY <1>4, <1>8, LiegeType
<1>10. l5 \in Titles \cup {NoOne}  BY <1>5, <1>9, LiegeType
<1>11. LiegesAbove(c) = {l1, l2, l3, l4, l5} \ {NoOne}
  BY <1>1, <1>2, <1>3, <1>4, <1>5 DEF LiegesAbove
<1> QED  BY <1>1, <1>2, <1>3, <1>4, <1>5, <1>6, <1>7, <1>8, <1>9, <1>10, <1>11

\* A set closed under vassalage that holds the liege of a title holds the title.
LEMMA Downward ==
    ASSUME NEW S \in SUBSET Titles, \A u \in Titles : Liege[u] \in S => u \in S,
           NEW t \in Titles \cup {NoOne}, LiegeOf(t) \in S
    PROVE  t \in S
BY LiegeType, TrackedAssumption DEF TrackedAssumption

(***************************************************************************)
(* _resolve_county_vassals walks up from every county; the realm is what   *)
(* lies under the player's titles.  Both find the same counties: five      *)
(* steps miss none, and a chain that runs in a circle adds none.           *)
(***************************************************************************)
THEOREM WalkExact ==
    ASSUME NEW w, NEW c \in Titles, Tier[c] = "county"
    PROVE  c \in Under(w) <=> LiegesAbove(c) \cap Realm(w) # {}
<1> PICK l1, l2, l3, l4, l5 \in Titles \cup {NoOne} :
         /\ l1 = LiegeOf(c) /\ l2 = LiegeOf(l1) /\ l3 = LiegeOf(l2)
         /\ l4 = LiegeOf(l3) /\ l5 = LiegeOf(l4)
         /\ LiegesAbove(c) = {l1, l2, l3, l4, l5} \ {NoOne}
  BY Above
<1>1. ASSUME LiegesAbove(c) \cap Realm(w) # {} PROVE c \in Under(w)
  <2> SUFFICES ASSUME NEW S \in SUBSET Titles, Realm(w) \subseteq S,
                      \A u \in Titles : Liege[u] \in S => u \in S
               PROVE  c \in S
    BY DEF Under
  <2>1. l1 \in S \/ l2 \in S \/ l3 \in S \/ l4 \in S \/ l5 \in S
    BY <1>1
  <2>2. l5 \in S => l4 \in S  BY Downward
  <2>3. l4 \in S => l3 \in S  BY Downward
  <2>4. l3 \in S => l2 \in S  BY Downward
  <2>5. l2 \in S => l1 \in S  BY Downward
  <2>6. l1 \in S => c \in S  BY Downward
  <2> QED  BY <2>1, <2>2, <2>3, <2>4, <2>5, <2>6
<1>2. ASSUME LiegesAbove(c) \cap Realm(w) = {} PROVE c \notin Under(w)
  <2>1. PICK S \in SUBSET Titles : S = Titles \ ({c} \cup LiegesAbove(c))
    OBVIOUS
  <2>2. Realm(w) \subseteq S
    BY <1>2, <2>1 DEF Realm
  <2>3. ASSUME NEW u \in {c} \cup LiegesAbove(c)
        PROVE  LiegeOf(u) \in LiegesAbove(c) \cup {NoOne}
    <3>1. LiegeOf(l5) \in LiegesAbove(c) \cup {NoOne}
      BY ChainAssumption DEF ChainAssumption
    <3> QED  BY <2>3, <3>1
  <2>4. ASSUME NEW u \in Titles, Liege[u] \in S PROVE u \in S
    <3>1. LiegeOf(u) = Liege[u] /\ Liege[u] # NoOne
      BY <2>4, TrackedAssumption DEF TrackedAssumption, LiegeOf
    <3> QED  BY <2>1, <2>3, <2>4, <3>1
  <2> QED  BY <2>1, <2>2, <2>4 DEF Under
<1> QED  BY <1>1, <1>2

-----------------------------------------------------------------------------
(* The candidates.                                                         *)

\* The counts the walk finds are those of the realm.
LEMMA SameCounts ==
    ASSUME NEW w
    PROVE  CountyVassals(w) =
             {w.holder[t] : t \in {u \in Under(w) : Tier[u] = "county"}} \ {NoOne, w.player}
<1>1. {c \in Titles : Tier[c] = "county" /\ LiegesAbove(c) \cap Realm(w) # {}}
        = {u \in Under(w) : Tier[u] = "county"}
  BY WalkExact DEF Under
<1> QED  BY <1>1 DEF CountyVassals

\* A character has a relation exactly when one of the rules names one.
LEMMA RelationFound ==
    ASSUME NEW w, NEW r, NEW c
    PROVE  /\ Relation(w, r, c) \in Kinds \cup {NoOne}
           /\ Relation(w, r, c) # NoOne <=>
                \/ c = w.player
                \/ "spouses" \in r /\ c \in SpousesOf(w, w.player)
                \/ "heirs" \in r /\ c \in ChildrenOf(w, w.player)
                \/ "grandchildren" \in r
                     /\ \E k \in ChildrenOf(w, w.player) : c \in ChildrenOf(w, k)
                \/ c \in ParentsOf(w, w.player)
                \/ "vassals" \in r /\ c \in CountyVassals(w)
BY TrackedAssumption DEF TrackedAssumption, Relation, Kinds

(***************************************************************************)
(* auto_track_candidates, with its order of cases and its walk over the    *)
(* titles, suggests exactly the kin and counts the rules mean.             *)
(***************************************************************************)
THEOREM Candidacy ==
    ASSUME NEW w \in Worlds, NEW r \in SUBSET Flags
    PROVE  Candidates(w, r) = Kin(w, r)
<1>1. CASE w.player = NoOne
  BY <1>1 DEF Candidates, Kin
<1>2. CASE w.player # NoOne
  <2>1. w.player \in Chars /\ w.holder \in [Titles -> Chars \cup {NoOne}]
        /\ w.child \subseteq Chars \X Chars
    BY <1>2 DEF Worlds
  <2>2. CountyVassals(w) \subseteq Chars
    BY <2>1 DEF CountyVassals
  <2>3. ASSUME NEW c \in Chars PROVE c \in Candidates(w, r) <=> c \in Kin(w, r)
    <3>1. c \in Candidates(w, r) <=>
            \/ c = w.player
            \/ "spouses" \in r /\ c \in SpousesOf(w, w.player)
            \/ "heirs" \in r /\ c \in ChildrenOf(w, w.player)
            \/ "grandchildren" \in r
                 /\ \E k \in ChildrenOf(w, w.player) : c \in ChildrenOf(w, k)
            \/ c \in ParentsOf(w, w.player)
            \/ "vassals" \in r /\ c \in CountyVassals(w)
      BY <1>2, RelationFound DEF Candidates
    <3>2. c \in SpousesOf(w, w.player) <=> c \in {s \in Chars : {s, w.player} \in w.wed}
      <4>1. {c, w.player} = {w.player, c}  OBVIOUS
      <4> QED  BY <4>1 DEF SpousesOf
    <3>3. c \in ChildrenOf(w, w.player) <=> c \in {k \in Chars : <<w.player, k>> \in w.child}
      BY DEF ChildrenOf
    <3>4. (\E k \in ChildrenOf(w, w.player) : c \in ChildrenOf(w, k)) <=>
          c \in {g \in Chars : \E k \in Chars : {<<w.player, k>>, <<k, g>>} \subseteq w.child}
      BY DEF ChildrenOf
    <3>5. c \in CountyVassals(w) <=>
          c \in {w.holder[t] : t \in {u \in Under(w) : Tier[u] = "county"}} \ {NoOne, w.player}
      BY SameCounts
    <3>6. c \in Kin(w, r) <=>
            \/ c = w.player
            \/ "spouses" \in r /\ c \in {s \in Chars : {s, w.player} \in w.wed}
            \/ "heirs" \in r /\ c \in {k \in Chars : <<w.player, k>> \in w.child}
            \/ "grandchildren" \in r
                 /\ c \in {g \in Chars : \E k \in Chars : {<<w.player, k>>, <<k, g>>} \subseteq w.child}
            \/ c \in ParentsOf(w, w.player)
            \/ "vassals" \in r
                 /\ c \in {w.holder[t] : t \in {u \in Under(w) : Tier[u] = "county"}} \ {NoOne, w.player}
      BY <1>2 DEF Kin
    <3> QED  BY <3>1, <3>2, <3>3, <3>4, <3>5, <3>6
  <2>4. Candidates(w, r) \subseteq Chars
    BY <1>2 DEF Candidates
  <2>5. Kin(w, r) \subseteq Chars
    BY <1>2, <2>1, <2>2, SameCounts DEF Kin, ParentsOf
  <2> QED  BY <2>3, <2>4, <2>5
<1> QED  BY <1>1, <1>2

\* Kin are characters, and fewer rules name fewer of them.
LEMMA KinGrows ==
    ASSUME NEW w \in Worlds, NEW r \in SUBSET Flags
    PROVE  Kin(w, r) \subseteq Kin(w, Flags) /\ Kin(w, r) \subseteq Chars
<1>1. Candidates(w, r) \subseteq Candidates(w, Flags)
  BY RelationFound DEF Candidates
<1>2. Candidates(w, r) = Kin(w, r) /\ Candidates(w, Flags) = Kin(w, Flags)
  BY Candidacy
<1> QED  BY <1>1, <1>2 DEF Candidates

-----------------------------------------------------------------------------
(* The rows.                                                               *)

\* add_tracked_character leaves a row there, and the marks of one that was.
LEMMA AddKeeps ==
    ASSUME NEW rs \in [Chars -> Rows \cup {NoRow}], NEW c \in Chars,
           NEW role \in Kinds \cup {UserRole, NoOne}
    PROVE  /\ Add(rs, c, role) \in [Chars -> Rows \cup {NoRow}]
           /\ Add(rs, c, role)[c] \in Rows
           /\ rs[c] # NoRow => Add(rs, c, role)[c].marks = rs[c].marks
           /\ \A d \in Chars \ {c} : Add(rs, c, role)[d] = rs[d]
<1>1. CASE rs[c] = NoRow
  BY <1>1 DEF Add, Rows
<1>2. CASE rs[c] # NoRow /\ role = NoOne
  BY <1>2 DEF Add
<1>3. CASE rs[c] # NoRow /\ role # NoOne
  <2>1. rs[c] \in Rows  BY <1>3
  <2>2. /\ [rs[c] EXCEPT !.role = role] \in Rows
        /\ [rs[c] EXCEPT !.role = role].marks = rs[c].marks
    BY <2>1 DEF Rows
  <2>3. Add(rs, c, role) = [rs EXCEPT ![c] = [rs[c] EXCEPT !.role = role]]
    BY <1>3 DEF Add
  <2> QED  BY <2>2, <2>3
<1> QED  BY <1>1, <1>2, <1>3

\* The same for one of many: named or not, and had a row or not.
LEMMA RowKept ==
    ASSUME NEW rs \in [Chars -> Rows \cup {NoRow}], NEW c \in Chars, NEW cs,
           NEW role \in Kinds \cup {UserRole, NoOne}, NEW row,
           row = IF c \in cs THEN Add(rs, c, role)[c] ELSE rs[c]
    PROVE  /\ row \in Rows \cup {NoRow}
           /\ row # NoRow <=> rs[c] # NoRow \/ c \in cs
           /\ rs[c] # NoRow => row.marks = rs[c].marks
<1>1. NoRow \notin Rows  BY TrackedAssumption DEF TrackedAssumption
<1>2. /\ Add(rs, c, role)[c] \in Rows
      /\ rs[c] # NoRow => Add(rs, c, role)[c].marks = rs[c].marks
  BY AddKeeps
<1> QED  BY <1>1, <1>2

\* What the tick does to the rows.
LEMMA TickRows ==
    ASSUME TypeOK, AutoTrackNewCandidates
    PROVE  \E r \in SUBSET Flags :
             /\ tracked' \in [Chars -> Rows \cup {NoRow}]
             /\ Tracked' = Tracked \cup (Kin(tick.save, r) \ tick.ids)
             /\ \A c \in Tracked : tracked'[c] # NoRow /\ tracked'[c].marks = tracked[c].marks
             /\ due' \subseteq Kin(tick.save, r) \ tick.gone
<1> USE DEF TypeOK
<1>1. PICK r : r = IF present THEN Resolved(rules) ELSE Default  OBVIOUS
<1>2. r \in SUBSET Flags  BY <1>1 DEF Resolved, Default
<1>3. PICK f : f = [c \in Chars |-> Relation(tick.save, r, c)]  OBVIOUS
<1>4. f \in [Chars -> Kinds \cup {UserRole, NoOne}]  BY <1>3, RelationFound
<1>5. tick.save \in Worlds  BY DEF AutoTrackNewCandidates
<1>6. Candidates(tick.save, r) = Kin(tick.save, r)  BY <1>2, <1>5, Candidacy
<1>7. tracked' = [c \in Chars |-> IF c \in Candidates(tick.save, r) \ tick.ids
                                  THEN Add(tracked, c, f[c])[c] ELSE tracked[c]]
  BY <1>1, <1>3 DEF AutoTrackNewCandidates, AddAll
<1>8. due' \subseteq Kin(tick.save, r) \ tick.gone
  BY <1>1 DEF AutoTrackNewCandidates
<1>9. Kin(tick.save, r) \subseteq Chars  BY <1>2, <1>5, KinGrows
<1>10. /\ tracked' \in [Chars -> Rows \cup {NoRow}]
       /\ \A c \in Chars : tracked'[c] # NoRow
                             <=> tracked[c] # NoRow \/ c \in Candidates(tick.save, r) \ tick.ids
       /\ \A c \in Chars : tracked[c] # NoRow => tracked'[c].marks = tracked[c].marks
  <2>1. tracked \in [Chars -> Rows \cup {NoRow}]  OBVIOUS
  <2> HIDE DEF TypeOK
  <2>2. ASSUME NEW c \in Chars
        PROVE  /\ tracked'[c] \in Rows \cup {NoRow}
               /\ tracked'[c] # NoRow <=> tracked[c] # NoRow \/ c \in Candidates(tick.save, r) \ tick.ids
               /\ tracked[c] # NoRow => tracked'[c].marks = tracked[c].marks
    <3>1. tracked'[c] = IF c \in Candidates(tick.save, r) \ tick.ids
                        THEN Add(tracked, c, f[c])[c] ELSE tracked[c]
      BY <1>7
    <3>2. f[c] \in Kinds \cup {UserRole, NoOne}  BY <1>4
    <3> QED  BY <2>1, <3>1, <3>2, RowKept
  <2> QED  BY <1>7, <2>2
<1> QED  BY <1>2, <1>6, <1>8, <1>9, <1>10 DEF Tracked

\* What an auto-track or an adoption does to them.
LEMMA CandidateRows ==
    ASSUME TypeOK, NEW w \in Worlds, NEW r \in SUBSET Flags,
           tracked' = AddAll(tracked, Candidates(w, r) \ Tracked, NoRole)
    PROVE  /\ tracked' \in [Chars -> Rows \cup {NoRow}]
           /\ Tracked' = Tracked \cup Kin(w, r)
           /\ \A c \in Tracked : tracked'[c] # NoRow /\ tracked'[c].marks = tracked[c].marks
<1> USE DEF TypeOK
<1>1. PICK f : f = [c \in Chars |-> NoOne]  OBVIOUS
<1>2. f \in [Chars -> Kinds \cup {UserRole, NoOne}]  BY <1>1
<1>3. Candidates(w, r) = Kin(w, r) /\ Kin(w, r) \subseteq Chars  BY Candidacy, KinGrows
<1>4. tracked' = [c \in Chars |-> IF c \in Candidates(w, r) \ Tracked
                                  THEN Add(tracked, c, f[c])[c] ELSE tracked[c]]
  BY <1>1 DEF AddAll, NoRole
<1>5. /\ tracked' \in [Chars -> Rows \cup {NoRow}]
      /\ \A c \in Chars : tracked'[c] # NoRow
                            <=> tracked[c] # NoRow \/ c \in Candidates(w, r) \ Tracked
      /\ \A c \in Chars : tracked[c] # NoRow => tracked'[c].marks = tracked[c].marks
  <2>1. tracked \in [Chars -> Rows \cup {NoRow}]  OBVIOUS
  <2> HIDE DEF TypeOK
  <2>2. ASSUME NEW c \in Chars
        PROVE  /\ tracked'[c] \in Rows \cup {NoRow}
               /\ tracked'[c] # NoRow <=> tracked[c] # NoRow \/ c \in Candidates(w, r) \ Tracked
               /\ tracked[c] # NoRow => tracked'[c].marks = tracked[c].marks
    <3>1. tracked'[c] = IF c \in Candidates(w, r) \ Tracked
                        THEN Add(tracked, c, f[c])[c] ELSE tracked[c]
      BY <1>4
    <3>2. f[c] \in Kinds \cup {UserRole, NoOne}  BY <1>2
    <3> QED  BY <2>1, <3>1, <3>2, RowKept
  <2> QED  BY <1>4, <2>2
<1> QED  BY <1>3, <1>5 DEF Tracked

-----------------------------------------------------------------------------
(* The steps.                                                              *)

\* A move of the game makes a new save and touches nothing the program keeps.
LEMMA GameSafe == TrackedInv /\ Game => TrackedInv'
<1> SUFFICES ASSUME TrackedInv, Game PROVE TrackedInv'
  OBVIOUS
<1> USE DEF TrackedInv, TypeOK
<1>1. /\ UNCHANGED <<rules, tracked, present, tick, auto, put, asked, due>>
      /\ Remember
  BY DEF Game, Marry, Birth, Succession, Grant, Move
<1>2. world' \in Worlds
  <2>0. world.player # NoOne => world.player \in Chars
    BY DEF Worlds
  <2>1. ASSUME NEW c \in Chars, Marry(c) PROVE world' \in Worlds
    <3>1. world' = [world EXCEPT !.wed = @ \cup {{world.player, c}}] /\ world.player # NoOne
      BY <2>1 DEF Marry, Playing
    <3>2. world.wed \cup {{world.player, c}} \in SUBSET SUBSET Chars
      BY <2>0, <3>1 DEF Worlds
    <3> QED  BY <3>1, <3>2 DEF Worlds
  <2>2. ASSUME NEW p \in Chars, NEW c \in Chars, Birth(p, c) PROVE world' \in Worlds
    BY <2>2 DEF Birth, Worlds
  <2>3. ASSUME Succession PROVE world' \in Worlds
    <3>1. PICK n \in Chars \cup {NoOne} :
             world' = [world EXCEPT !.dead = @ \cup {world.player}, !.player = n]
      BY <2>3 DEF Succession, ChildrenOf
    <3>2. world.player \in Chars  BY <2>0, <2>3 DEF Succession, Playing
    <3> QED  BY <3>1, <3>2 DEF Worlds
  <2>4. ASSUME NEW t \in Titles, NEW c \in Chars, Grant(t, c) PROVE world' \in Worlds
    <3>1. world' = [world EXCEPT !.holder = [world.holder EXCEPT ![t] = c]]
      BY <2>4 DEF Grant, Worlds
    <3>2. [world.holder EXCEPT ![t] = c] \in [Titles -> Chars \cup {NoOne}]
      BY DEF Worlds
    <3> QED  BY <3>1, <3>2 DEF Worlds
  <2> QED  BY <2>1, <2>2, <2>3, <2>4 DEF Game
<1>3. Kin(world', Flags) \subseteq Chars  BY <1>2, KinGrows
<1>4. kin' \in SUBSET Chars /\ kin \subseteq kin' /\ Kin(world', Flags) \subseteq kin'
  BY <1>1, <1>3 DEF Remember
<1>5. TypeOK'  BY <1>1, <1>2, <1>4
<1>6. KinKnown'
  <2>1. /\ tick' # Idle => Kin(tick'.save, Flags) \subseteq kin'
        /\ auto' # Idle => Kin(auto'.save, Flags) \subseteq kin'
    BY <1>1, <1>4 DEF KinKnown
  <2> QED  BY <1>4, <2>1 DEF KinKnown
<1>7. Tracked' = Tracked  BY <1>1 DEF Tracked
<1> QED  BY <1>1, <1>4, <1>5, <1>6, <1>7 DEF ReadStillTracked

\* The user's own edits of the rows.
LEMMA EditSafe ==
    ASSUME TrackedInv, NEW c \in Chars,
           AddTracked(c) \/ DeleteTracked(c) \/ ResumeTracked(c)
             \/ \E m \in Marks : MarkTracked(c, m)
    PROVE  TrackedInv'
<1> USE DEF TrackedInv, TypeOK
<1>0. NoRow \notin Rows  BY TrackedAssumption DEF TrackedAssumption
<1>1. CASE AddTracked(c)
  <2>1. /\ tracked' = Add(tracked, c, UserRole) /\ asked' = asked \cup {c}
        /\ UNCHANGED <<world, rules, present, tick, auto, put, kin, due>>
    BY <1>1 DEF AddTracked
  <2>2. /\ tracked' \in [Chars -> Rows \cup {NoRow}] /\ tracked'[c] \in Rows
        /\ \A d \in Chars \ {c} : tracked'[d] = tracked[d]
    BY <2>1, AddKeeps
  <2>3. Tracked' = Tracked \cup {c}  BY <1>0, <2>2 DEF Tracked
  <2>4. TypeOK'  BY <2>1, <2>2
  <2>5. KinKnown'  BY <2>1 DEF KinKnown
  <2> QED  BY <2>1, <2>3, <2>4, <2>5 DEF ReadStillTracked
<1>2. CASE DeleteTracked(c)
  <2>1. /\ tracked' = [tracked EXCEPT ![c] = NoRow] /\ due' = due \ {c}
        /\ tick' = IF tick = Idle THEN Idle ELSE [tick EXCEPT !.gone = @ \cup {c}]
        /\ UNCHANGED <<world, rules, present, auto, put, asked, kin>>
    BY <1>2 DEF DeleteTracked
  <2>2. Tracked' = Tracked \ {c}  BY <2>1 DEF Tracked
  <2>3. tick' # Idle => /\ tick # Idle /\ tick'.save = tick.save /\ tick'.ids = tick.ids
                        /\ tick'.gone = tick.gone \cup {c}
                        /\ tick' \in [save : Worlds, ids : SUBSET Chars, gone : SUBSET Chars]
    BY <2>1
  <2>4. TypeOK'  BY <2>1, <2>3
  <2>5. KinKnown'  BY <2>1, <2>3 DEF KinKnown
  <2>6. ReadStillTracked'  BY <2>2, <2>3 DEF ReadStillTracked
  <2> QED  BY <2>1, <2>2, <2>4, <2>5, <2>6
<1>3. CASE ResumeTracked(c) \/ \E m \in Marks : MarkTracked(c, m)
  <2>1. PICK s \in SUBSET Marks : tracked' = [tracked EXCEPT ![c] = [tracked[c] EXCEPT !.marks = s]]
    <3>1. c \in Tracked  BY <1>3 DEF ResumeTracked, MarkTracked
    <3>2. tracked[c] \in Rows  BY <3>1 DEF Tracked
    <3>3. tracked[c].marks \in SUBSET Marks  BY <3>2 DEF Rows
    <3>4. CASE ResumeTracked(c)
      <4>1. tracked' = [tracked EXCEPT ![c] = [tracked[c] EXCEPT !.marks = tracked[c].marks \ {"paused"}]]
        BY <3>4 DEF ResumeTracked
      <4> QED  BY <3>3, <4>1
    <3>5. ASSUME NEW m \in Marks, MarkTracked(c, m)
          PROVE  \E s \in SUBSET Marks :
                   tracked' = [tracked EXCEPT ![c] = [tracked[c] EXCEPT !.marks = s]]
      <4>1. tracked' = [tracked EXCEPT ![c] = [tracked[c] EXCEPT !.marks = tracked[c].marks \cup {m}]]
        BY <3>5 DEF MarkTracked
      <4> QED  BY <3>3, <4>1
    <3> QED  BY <1>3, <3>4, <3>5
  <2>2. c \in Tracked /\ UNCHANGED <<world, rules, present, tick, auto, put, asked, kin, due>>
    BY <1>3 DEF ResumeTracked, MarkTracked, history
  <2>3. tracked[c] \in Rows  BY <2>2 DEF Tracked
  <2>4. [tracked[c] EXCEPT !.marks = s] \in Rows  BY <2>3 DEF Rows
  <2> DEFINE row == [tracked[c] EXCEPT !.marks = s]
  <2>5. row \in Rows /\ tracked' = [tracked EXCEPT ![c] = row]  BY <2>1, <2>4
  <2> HIDE DEF row
  <2>6. Tracked' = Tracked  BY <1>0, <2>2, <2>5 DEF Tracked
  <2>7. TypeOK'  BY <2>2, <2>5
  <2>8. KinKnown'  BY <2>2 DEF KinKnown
  <2> QED  BY <2>2, <2>6, <2>7, <2>8 DEF ReadStillTracked
<1> QED  BY <1>1, <1>2, <1>3

\* The rule updates: read, patch and write back.
LEMMA RulesSafe ==
    ASSUME TrackedInv, NEW h \in Putters,
           PutWrite(h) \/ \E f \in Flags, on \in BOOLEAN : PutStart(h, f, on)
    PROVE  TrackedInv'
<1> USE DEF TrackedInv, TypeOK
<1>1. CASE PutWrite(h)
  <2>1. /\ put[h] # Idle /\ put' = [put EXCEPT ![h] = Idle]
        /\ rules' = IF present THEN put[h] ELSE rules
        /\ UNCHANGED <<world, tracked, present, tick, auto, asked, due>> /\ Remember
    BY <1>1 DEF PutWrite
  <2>2. kin' = kin \cup Kin(world, Flags)  BY <2>1 DEF Remember
  <2>3. kin' = kin  BY <2>2 DEF KinKnown
  <2>4. rules' \in (SUBSET Flags) \cup {Unset}  BY <2>1
  <2>5. TypeOK'  BY <2>1, <2>3, <2>4
  <2>6. Tracked' = Tracked  BY <2>1 DEF Tracked
  <2>7. KinKnown'  BY <2>1, <2>3 DEF KinKnown
  <2> QED  BY <2>1, <2>3, <2>5, <2>6, <2>7 DEF ReadStillTracked
<1>2. ASSUME NEW f \in Flags, NEW on \in BOOLEAN, PutStart(h, f, on) PROVE TrackedInv'
  <2>1. Resolved(rules) \in SUBSET Flags  BY DEF Resolved, Default
  <2>2. PICK r \in SUBSET Flags : put' = [put EXCEPT ![h] = r]
    BY <1>2, <2>1 DEF PutStart
  <2>3. UNCHANGED <<world, rules, tracked, present, tick, auto, asked, kin, due>>
    BY <1>2 DEF PutStart, history
  <2>4. TypeOK'  BY <2>2, <2>3
  <2>5. Tracked' = Tracked  BY <2>3 DEF Tracked
  <2>6. KinKnown'  BY <2>3 DEF KinKnown
  <2> QED  BY <2>3, <2>4, <2>5, <2>6 DEF ReadStillTracked
<1> QED  BY <1>1, <1>2

\* The auto-track request and adoption add kin of a save history knows.
LEMMA AutoSafe == TrackedInv /\ (AutoStart \/ AutoTrack \/ AdoptTrack) => TrackedInv'
<1> SUFFICES ASSUME TrackedInv, AutoStart \/ AutoTrack \/ AdoptTrack PROVE TrackedInv'
  OBVIOUS
<1> USE DEF TrackedInv
<1>1. CASE AutoStart
  <2>1. /\ auto' = [save |-> world, rules |-> Resolved(rules)]
        /\ UNCHANGED <<world, rules, tracked, present, tick, put, asked, kin, due>>
    BY <1>1 DEF AutoStart, history
  <2>2. Resolved(rules) \in SUBSET Flags  BY DEF Resolved, Default, TypeOK
  <2>3. TypeOK'  BY <2>1, <2>2 DEF TypeOK
  <2>4. Tracked' = Tracked  BY <2>1 DEF Tracked
  <2>5. auto'.save = world  BY <2>1
  <2>6. KinKnown'  BY <2>1, <2>5 DEF KinKnown
  <2> QED  BY <2>1, <2>3, <2>4, <2>6 DEF ReadStillTracked
<1>2. CASE AutoTrack \/ AdoptTrack
  <2>1. PICK w \in Worlds, r \in SUBSET Flags :
           /\ tracked' = AddAll(tracked, Candidates(w, r) \ Tracked, NoRole)
           /\ Kin(w, Flags) \subseteq kin
    <3>1. CASE AutoTrack
      <4>1. auto.save \in Worlds /\ auto.rules \in SUBSET Flags
        BY <3>1 DEF AutoTrack, TypeOK
      <4>2. Kin(auto.save, Flags) \subseteq kin  BY <3>1 DEF AutoTrack, KinKnown
      <4> QED  BY <3>1, <4>1, <4>2 DEF AutoTrack
    <3>2. CASE AdoptTrack
      <4>1. world \in Worlds /\ Default \in SUBSET Flags  BY DEF TypeOK, Default
      <4>2. Kin(world, Flags) \subseteq kin  BY DEF KinKnown
      <4> QED  BY <3>2, <4>1, <4>2 DEF AdoptTrack
    <3> QED  BY <1>2, <3>1, <3>2
  <2>2. /\ UNCHANGED <<world, rules, present, tick, put, asked, kin, due>>
        /\ auto' \in {auto, Idle}
    BY <1>2 DEF AutoTrack, AdoptTrack, history
  <2>3. /\ tracked' \in [Chars -> Rows \cup {NoRow}]
        /\ Tracked' = Tracked \cup Kin(w, r)
    BY <2>1, CandidateRows
  <2>4. Kin(w, r) \subseteq kin  BY <2>1, KinGrows
  <2>5. TypeOK'  BY <2>2, <2>3 DEF TypeOK
  <2>6. KinKnown'  BY <2>2 DEF KinKnown
  <2> QED  BY <2>2, <2>3, <2>4, <2>5, <2>6 DEF ReadStillTracked
<1> QED  BY <1>1, <1>2

\* delete_campaign takes every row.
LEMMA DeleteSafe == TrackedInv /\ DeleteCampaign => TrackedInv'
<1> SUFFICES ASSUME TrackedInv, DeleteCampaign PROVE TrackedInv'
  OBVIOUS
<1> USE DEF TrackedInv, TypeOK
<1>1. /\ present' = FALSE /\ tracked' = [c \in Chars |-> NoRow] /\ due' = {}
      /\ tick' = IF tick = Idle THEN Idle ELSE [tick EXCEPT !.gone = Chars]
      /\ UNCHANGED <<world, rules, auto, put, asked, kin>>
  BY DEF DeleteCampaign
<1>2. Tracked' = {}  BY <1>1 DEF Tracked
<1>3. tick' # Idle => /\ tick # Idle /\ tick'.save = tick.save /\ tick'.ids = tick.ids
                      /\ tick'.gone = Chars /\ tick.ids \subseteq Chars
                      /\ tick' \in [save : Worlds, ids : SUBSET Chars, gone : SUBSET Chars]
  BY <1>1
<1>4. TypeOK'  BY <1>1, <1>3
<1>5. KinKnown'  BY <1>1, <1>3 DEF KinKnown
<1>6. ReadStillTracked'  BY <1>3 DEF ReadStillTracked
<1> QED  BY <1>1, <1>2, <1>4, <1>5, <1>6

\* A tick begins with the ids of the moment, and ends with every kin it owes.
LEMMA TailSafe == TrackedInv /\ Tail => TrackedInv'
<1> SUFFICES ASSUME TrackedInv, Tail PROVE TrackedInv'
  OBVIOUS
<1> USE DEF TrackedInv
<1>1. CASE TickStart
  <2>1. /\ tick' = [save |-> world, ids |-> Tracked, gone |-> {}]
        /\ UNCHANGED <<world, rules, tracked, present, auto, put, asked, kin, due>>
    BY <1>1 DEF TickStart, history
  <2>2. Tracked' = Tracked /\ Tracked \in SUBSET Chars  BY <2>1 DEF Tracked
  <2>3. tick'.save = world /\ tick'.ids = Tracked  BY <2>1
  <2>4. TypeOK'  BY <2>1, <2>2 DEF TypeOK
  <2>5. KinKnown'  BY <2>1, <2>3 DEF KinKnown
  <2>6. ReadStillTracked'  BY <2>2, <2>3 DEF ReadStillTracked
  <2> QED  BY <2>1, <2>2, <2>4, <2>5, <2>6
<1>2. CASE AutoTrackNewCandidates
  <2>1. PICK r \in SUBSET Flags :
           /\ tracked' \in [Chars -> Rows \cup {NoRow}]
           /\ Tracked' = Tracked \cup (Kin(tick.save, r) \ tick.ids)
           /\ due' \subseteq Kin(tick.save, r) \ tick.gone
    BY <1>2, TickRows
  <2>2. tick # Idle /\ tick' = Idle /\ UNCHANGED <<world, rules, present, auto, put, asked, kin>>
    BY <1>2 DEF AutoTrackNewCandidates
  <2>3. tick.save \in Worlds  BY <2>2 DEF TypeOK
  <2>4. Kin(tick.save, r) \subseteq kin /\ Kin(tick.save, r) \subseteq Chars
    BY <2>2, <2>3, KinGrows DEF KinKnown
  <2>5. due' \subseteq Tracked'
    BY <2>1, <2>2 DEF ReadStillTracked
  <2>6. due' \in SUBSET Chars  BY <2>1, <2>4
  <2>7. TypeOK'  BY <2>1, <2>2, <2>6 DEF TypeOK
  <2>8. KinKnown'  BY <2>2 DEF KinKnown
  <2> QED  BY <2>1, <2>2, <2>4, <2>5, <2>7, <2>8 DEF ReadStillTracked
<1> QED  BY <1>1, <1>2 DEF Tail

LEMMA Stuttering == TrackedInv /\ UNCHANGED vars => TrackedInv'
BY DEF vars, history, TrackedInv, TypeOK, KinKnown, ReadStillTracked, Tracked

\* Every step keeps the invariant.
LEMMA Inductive == TrackedInv /\ [Next]_vars => TrackedInv'
<1>1. TrackedInv /\ User => TrackedInv'
  BY EditSafe, RulesSafe, AutoSafe, DeleteSafe DEF User
<1>2. ASSUME NEW h \in Putters PROVE TrackedInv /\ PutWrite(h) => TrackedInv'
  BY RulesSafe
<1> QED  BY <1>1, <1>2, GameSafe, TailSafe, AutoSafe, Stuttering DEF Next

LEMMA Beginning == Init => TrackedInv
<1> SUFFICES ASSUME Init PROVE TrackedInv
  OBVIOUS
<1>1. Founder \in Chars /\ Holder0 \in [Titles -> Chars \cup {NoOne}] /\ NoRow \notin Rows
      /\ NoOne \notin Chars
  BY TrackedAssumption DEF TrackedAssumption
<1>2. world \in Worlds  BY <1>1 DEF Init, Worlds
<1>3. [role |-> NoOne, marks |-> {}] \in Rows  BY DEF Rows
<1>4. Tracked = {Founder}  BY <1>1, <1>3 DEF Init, Tracked
<1>5. kin = Kin(world, Flags)  BY DEF Init
<1>6. kin \subseteq Chars  BY <1>2, <1>5, KinGrows
<1>7. TypeOK  BY <1>2, <1>3, <1>6 DEF Init, TypeOK
<1>8. Founder \in kin
  <2>1. world.player = Founder  BY DEF Init
  <2> QED  BY <1>1, <1>5, <2>1 DEF Kin
<1> QED  BY <1>4, <1>5, <1>7, <1>8 DEF Init, TrackedInv, KinKnown, ReadStillTracked

-----------------------------------------------------------------------------
(***************************************************************************)
(* After a tick the kin the rules name are tracked, save those the user    *)
(* untracked meanwhile, and nobody is tracked whom neither the user named  *)
(* nor a save ever related to a character played.                          *)
(***************************************************************************)
THEOREM KinAlwaysTracked == Spec => []KinTracked
<1>1. TrackedInv => KinTracked  BY DEF TrackedInv, KinTracked
<1> QED  BY <1>1, Beginning, Inductive, PTL DEF Spec

\* A pause or a bump outlives every tick, auto-track and adoption.
THEOREM MarksAlwaysSurvive == Spec => MarksSurvive
<1>1. TrackedInv /\ [Next]_vars =>
        [(Tail \/ AutoTrack \/ AdoptTrack) =>
            \A c \in Tracked : tracked'[c] # NoRow /\ tracked'[c].marks = tracked[c].marks]_vars
  <2> SUFFICES ASSUME TrackedInv, Tail \/ AutoTrack \/ AdoptTrack
               PROVE  \A c \in Tracked :
                        tracked'[c] # NoRow /\ tracked'[c].marks = tracked[c].marks
    OBVIOUS
  <2>0. TypeOK  BY DEF TrackedInv
  <2>1. CASE TickStart
    <3>1. tracked' = tracked  BY <2>1 DEF TickStart
    <3> QED  BY <3>1 DEF Tracked
  <2>2. CASE AutoTrackNewCandidates
    BY <2>0, <2>2, TickRows
  <2>3. CASE AutoTrack
    <3>1. auto.save \in Worlds /\ auto.rules \in SUBSET Flags
      BY <2>0, <2>3 DEF AutoTrack, TypeOK
    <3>2. tracked' = AddAll(tracked, Candidates(auto.save, auto.rules) \ Tracked, NoRole)
      BY <2>3 DEF AutoTrack
    <3> QED  BY <2>0, <3>1, <3>2, CandidateRows
  <2>4. CASE AdoptTrack
    <3>1. world \in Worlds /\ Default \in SUBSET Flags  BY <2>0 DEF TypeOK, Default
    <3>2. tracked' = AddAll(tracked, Candidates(world, Default) \ Tracked, NoRole)
      BY <2>4 DEF AdoptTrack
    <3> QED  BY <2>0, <3>1, <3>2, CandidateRows
  <2> QED  BY <2>1, <2>2, <2>3, <2>4 DEF Tail
<1> QED  BY <1>1, Beginning, Inductive, PTL DEF Spec, MarksSurvive
=============================================================================
