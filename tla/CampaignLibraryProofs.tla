------------------------ MODULE CampaignLibraryProofs ------------------------
(***************************************************************************)
(* The library's deletions stand, its seals are told and its files are     *)
(* kept, for any number of machines, campaigns, playthroughs, requests and *)
(* faults.                                                                 *)
(*                                                                         *)
(* A row can come back in two ways: a new campaign takes the id, or a      *)
(* sidecar is discovered.  That the first cannot happen needs Known:       *)
(* whatever has an id's name on it was born, and ids are handed out once.  *)
(* That no copy is lost without a delete needs Struck: the vehicle only    *)
(* ever carries the removal of files of a campaign someone deleted.        *)
(***************************************************************************)
EXTENDS CampaignLibrary, TLAPS

Adoption == [at : {"create"}, pt : Pts] \cup [at : {"upgrade"}, c : Ids, loc : Locs]
Sealing  == [at : {"generate", "archive"}, c : Ids]
              \cup [at : {"snapshot", "sidecar"}, c : Ids, loc : Locs]
Deletion == [at : {"files", "tombstone"}, c : Ids, loc : Locs]

\* Type correctness.
TypeOK ==
    /\ rows \in [Machines -> [Ids -> Row \cup {NoRow}]]
    /\ live \in [Machines -> SUBSET Ids]
    /\ legacy \in [Machines -> SUBSET Ids]
    /\ arch \in [Machines -> SUBSET Files]
    /\ pend \in [Machines -> [Machines -> SUBSET Files]]
    /\ boot \in [Machines -> {"down", "insert", "up"}]
    /\ tombs \in [Machines -> SUBSET Ids]
    /\ adopt \in [Machines -> [Adopters -> Adoption \cup {Idle}]]
    /\ seal \in [Machines -> Sealing \cup {Idle}]
    /\ del \in [Machines -> Deletion \cup {Idle}]
    /\ born \in [Ids -> Pts \cup {NoPt, NoRow}]
    /\ struck \in SUBSET Ids

Born == {c \in Ids : born[c] # NoRow}

\* Whatever bears a campaign's id belongs to a campaign that was created.
Known ==
    /\ \A m \in Machines : Present(m) \subseteq Born /\ legacy[m] \subseteq Born
    /\ \A m \in Machines : \A f \in arch[m] : f[1] \in Born
    /\ \A m \in Machines, h \in Adopters :
         adopt[m][h] # Idle /\ adopt[m][h].at = "upgrade" => adopt[m][h].c \in Born
    /\ \A m \in Machines : seal[m] # Idle => seal[m].c \in Born
    /\ struck \subseteq Born

\* Tombstones, deletions in flight and removals on their way are of campaigns
\* someone deleted.
Struck ==
    /\ \A m \in Machines : del[m] # Idle => del[m].c \in struck
    /\ \A m \in Machines : tombs[m] \subseteq struck
    /\ \A m \in Machines : \A f \in arch[m] : f[2] = "deleted" => f[1] \in struck
    /\ \A m, n \in Machines : \A f \in pend[m][n] : f \in arch[m] \/ f[1] \in struck

\* The ceremony seals what it has told, if it is still there.
ToldFirst ==
    \A m \in Machines :
      seal[m] # Idle /\ seal[m].at = "archive" /\ seal[m].c \in Present(m)
        => rows[m][seal[m].c].told

IInv == TypeOK /\ Known /\ Struck /\ ToldFirst /\ DeletionStands /\ SealedIsTold

-----------------------------------------------------------------------------
(* The archive directories and what travels between them.                  *)

\* A step on the archive directories that only ever adds files of known
\* campaigns, tombstones of deleted ones, and only removes files of those.
Conserved ==
    /\ arch' \in [Machines -> SUBSET Files]
    /\ pend' \in [Machines -> [Machines -> SUBSET Files]]
    /\ \A n \in Machines : \A f \in arch'[n] :
         f[1] \in Born /\ (f[2] = "deleted" => f[1] \in struck)
    /\ \A n, o \in Machines : \A f \in pend'[n][o] : f \in arch'[n] \/ f[1] \in struck
    /\ \A n \in Machines : \A f \in arch[n] : f \in arch'[n] \/ f[1] \in struck

LEMMA SameConserved ==
    ASSUME TypeOK, Known, Struck, UNCHANGED <<arch, pend>>
    PROVE  Conserved
BY DEF TypeOK, Known, Struck, Conserved

LEMMA QueueShape ==
    ASSUME TypeOK, NEW m \in Machines, NEW fs \in SUBSET Files, Queue(m, fs)
    PROVE  /\ pend' \in [Machines -> [Machines -> SUBSET Files]]
           /\ \A n, o \in Machines :
                pend'[n][o] \subseteq pend[n][o] \cup (IF n = m THEN fs ELSE {})
<1>1. pend \in [Machines -> [Machines -> SUBSET Files]]  BY DEF TypeOK
<1> DEFINE row == [n \in Machines |-> IF n = m THEN {} ELSE pend[m][n] \cup fs]
<1>2. row \in [Machines -> SUBSET Files] /\ \A n \in Machines : row[n] \subseteq pend[m][n] \cup fs
  BY <1>1
<1>3. pend' = [pend EXCEPT ![m] = row]  BY DEF Queue
<1> HIDE DEF row
<1>4. \A n \in Machines : pend'[n] = IF n = m THEN row ELSE pend[n]  BY <1>1, <1>3
<1>5. pend' \in [Machines -> [Machines -> SUBSET Files]]  BY <1>1, <1>2, <1>3
<1> QED  BY <1>1, <1>2, <1>4, <1>5

LEMMA WriteConserves ==
    ASSUME TypeOK, Known, Struck, NEW m \in Machines, NEW fs \in SUBSET Files,
           \A f \in fs : f[1] \in Born /\ (f[2] = "deleted" => f[1] \in struck),
           Write(m, fs)
    PROVE  Conserved
<1>1. arch \in [Machines -> SUBSET Files]  BY DEF TypeOK
<1>2. arch' = [arch EXCEPT ![m] = @ \cup fs] /\ Queue(m, fs)  BY DEF Write
<1>3. /\ arch' \in [Machines -> SUBSET Files]
      /\ \A n \in Machines : arch'[n] = IF n = m THEN arch[n] \cup fs ELSE arch[n]
  BY <1>1, <1>2
<1>4. /\ pend' \in [Machines -> [Machines -> SUBSET Files]]
      /\ \A n, o \in Machines :
           pend'[n][o] \subseteq pend[n][o] \cup (IF n = m THEN fs ELSE {})
  BY <1>2, QueueShape
<1>5. \A n \in Machines : \A f \in arch'[n] :
        f[1] \in Born /\ (f[2] = "deleted" => f[1] \in struck)
  BY <1>3 DEF Known, Struck
<1>6. ASSUME NEW n \in Machines, NEW o \in Machines, NEW f \in pend'[n][o]
      PROVE  f \in arch'[n] \/ f[1] \in struck
  <2>1. CASE f \in pend[n][o]  BY <1>3, <2>1 DEF Struck
  <2>2. CASE n = m /\ f \in fs  BY <1>3, <2>2
  <2> QED  BY <1>4, <1>6, <2>1, <2>2
<1>7. \A n \in Machines : \A f \in arch[n] : f \in arch'[n]  BY <1>3
<1> QED  BY <1>3, <1>4, <1>5, <1>6, <1>7 DEF Conserved

LEMMA UnlinkConserves ==
    ASSUME TypeOK, Known, Struck, NEW m \in Machines, NEW fs \in SUBSET Files,
           \A f \in fs : f[1] \in struck, Unlink(m, fs)
    PROVE  Conserved
<1>1. arch \in [Machines -> SUBSET Files]  BY DEF TypeOK
<1> DEFINE gone == fs \cap arch[m]
<1>2. arch' = [arch EXCEPT ![m] = @ \ fs] /\ Queue(m, gone)  BY DEF Unlink
<1>3. gone \in SUBSET Files /\ \A f \in gone : f[1] \in struck  OBVIOUS
<1> HIDE DEF gone
<1>4. /\ arch' \in [Machines -> SUBSET Files]
      /\ \A n \in Machines : arch'[n] = IF n = m THEN arch[n] \ fs ELSE arch[n]
  BY <1>1, <1>2
<1>5. /\ pend' \in [Machines -> [Machines -> SUBSET Files]]
      /\ \A n, o \in Machines :
           pend'[n][o] \subseteq pend[n][o] \cup (IF n = m THEN gone ELSE {})
  BY <1>2, <1>3, QueueShape
<1>6. \A n \in Machines : \A f \in arch'[n] :
        f[1] \in Born /\ (f[2] = "deleted" => f[1] \in struck)
  BY <1>4 DEF Known, Struck
<1>7. ASSUME NEW n \in Machines, NEW o \in Machines, NEW f \in pend'[n][o]
      PROVE  f \in arch'[n] \/ f[1] \in struck
  <2>1. CASE f \in pend[n][o]
    <3>1. f \in arch[n] \/ f[1] \in struck  BY <2>1 DEF Struck
    <3> QED  BY <1>4, <3>1
  <2>2. CASE f \in gone  BY <1>3, <2>2
  <2> QED  BY <1>5, <1>7, <2>1, <2>2
<1>8. \A n \in Machines : \A f \in arch[n] : f \in arch'[n] \/ f[1] \in struck  BY <1>4
<1> QED  BY <1>4, <1>5, <1>6, <1>7, <1>8 DEF Conserved

\* A delivery brings a file, or the removal of one of a deleted campaign.
LEMMA DeliverConserves ==
    ASSUME TypeOK, Known, Struck, NEW m \in Machines, NEW n \in Machines, NEW f \in Files,
           Deliver(m, n, f)
    PROVE  Conserved
<1>1. arch \in [Machines -> SUBSET Files] /\ pend \in [Machines -> [Machines -> SUBSET Files]]
  BY DEF TypeOK
<1>2. f \in arch[m] \/ f[1] \in struck  BY DEF Deliver, Struck
<1>3. arch' = [arch EXCEPT ![n] = IF f \in arch[m] THEN @ \cup {f} ELSE @ \ {f}]
  BY DEF Deliver
<1>4. /\ arch' \in [Machines -> SUBSET Files]
      /\ \A i \in Machines : i # n => arch'[i] = arch[i]
      /\ arch'[n] = IF f \in arch[m] THEN arch[n] \cup {f} ELSE arch[n] \ {f}
  BY <1>1, <1>3
<1> DEFINE mid == [pend EXCEPT ![m][n] = @ \ {f}]
<1>5. /\ mid \in [Machines -> [Machines -> SUBSET Files]]
      /\ \A i, j \in Machines : mid[i][j] \subseteq pend[i][j]
  BY <1>1
<1>6. pend' = [mid EXCEPT ![n][m] = @ \ {f}]  BY DEF Deliver
<1> HIDE DEF mid
<1>7. /\ pend' \in [Machines -> [Machines -> SUBSET Files]]
      /\ \A i, j \in Machines : pend'[i][j] \subseteq mid[i][j]
  BY <1>5, <1>6
<1>8. ASSUME NEW i \in Machines, NEW g \in arch'[i]
      PROVE  g[1] \in Born /\ (g[2] = "deleted" => g[1] \in struck)
  <2>1. g \in arch[i] \/ g \in arch[m]  BY <1>4, <1>8
  <2> QED  BY <2>1 DEF Known, Struck
<1>9. ASSUME NEW i \in Machines, NEW j \in Machines, NEW g \in pend'[i][j]
      PROVE  g \in arch'[i] \/ g[1] \in struck
  <2>1. g \in pend[i][j]  BY <1>5, <1>7, <1>9
  <2>2. g \in arch[i] \/ g[1] \in struck  BY <2>1 DEF Struck
  <2> QED  BY <1>2, <1>4, <2>2
<1>10. ASSUME NEW i \in Machines, NEW g \in arch[i]
       PROVE  g \in arch'[i] \/ g[1] \in struck
  BY <1>2, <1>4, <1>10
<1> QED  BY <1>4, <1>7, <1>8, <1>9, <1>10 DEF Conserved

\* The files of campaigns c \in S, by name.
LEMMA PairFiles ==
    /\ \A c \in Ids : Pair(c) \subseteq Files /\ \A f \in Pair(c) : f[1] = c /\ f[2] # "deleted"
    /\ \A S \in SUBSET Ids :
         /\ UNION {Pair(c) : c \in S} \subseteq Files
         /\ \A f \in UNION {Pair(c) : c \in S} : f[1] \in S /\ f[2] # "deleted"
<1>1. ASSUME NEW c \in Ids
      PROVE  Pair(c) \subseteq Files /\ \A f \in Pair(c) : f[1] = c /\ f[2] # "deleted"
  BY DEF Pair, Files, Exts
<1> QED  BY <1>1

\* Who is in a request has one.
LEMMA RequestTypes ==
    ASSUME TypeOK, NEW m \in Machines
    PROVE  /\ \A h \in Adopters : adopt[m][h] # Idle =>
                /\ adopt[m][h].at = "create" => adopt[m][h].pt \in Pts
                /\ adopt[m][h].at = "upgrade" => adopt[m][h].c \in Ids /\ adopt[m][h].loc \in Locs
           /\ seal[m] # Idle => /\ seal[m].c \in Ids
                                /\ seal[m] \in Sealing
           /\ del[m] # Idle => del[m].c \in Ids /\ del[m] \in Deletion
<1>1. /\ \A h \in Adopters : adopt[m][h] \in Adoption \cup {Idle}
      /\ seal[m] \in Sealing \cup {Idle}
      /\ del[m] \in Deletion \cup {Idle}
  BY DEF TypeOK
<1>2. \A a \in Adoption : /\ a.at = "create" => a.pt \in Pts
                          /\ a.at = "upgrade" => a.c \in Ids /\ a.loc \in Locs
  BY DEF Adoption
<1>3. (\A a \in Sealing : a.c \in Ids) /\ (\A a \in Deletion : a.c \in Ids)
  BY DEF Sealing, Deletion
<1> QED  BY <1>1, <1>2, <1>3

\* Tombstones are of deleted campaigns.
LEMMA TombedStruck ==
    ASSUME Struck, NEW m \in Machines
    PROVE  Tombed(m) \subseteq struck
<1> SUFFICES ASSUME NEW c \in Tombed(m)  PROVE c \in struck
  OBVIOUS
<1>1. <<c, "deleted">> \in arch[m]  BY DEF Tombed
<1> QED  BY <1>1 DEF Struck

UserAndRequest(m) ==
    \/ \E h \in Adopters, p \in Pts : AdoptStart(m, h, p) \/ AdoptMatch(m, h, p)
    \/ \E h \in Adopters : AdoptCreate(m, h)
    \/ \E c \in Ids : Unarchive(m, c) \/ SealStart(m, c) \/ DeleteStart(m, c)
    \/ SealGenerate(m) \/ SealArchive(m) \/ Stop(m) \/ Crash(m)

\* Every step conserves the archives.
LEMMA ArchStep ==
    ASSUME TypeOK, Known, Struck, [Next]_vars
    PROVE  Conserved
<1>1. CASE UNCHANGED vars  BY <1>1, SameConserved DEF vars
<1>2. ASSUME NEW m \in Machines, UserAndRequest(m)  PROVE Conserved
  BY <1>2, SameConserved
  DEF UserAndRequest, AdoptStart, AdoptMatch, AdoptCreate, Unarchive, SealStart, DeleteStart,
      SealGenerate, SealArchive, Stop, Crash
<1>3. ASSUME NEW m \in Machines, NEW h \in Adopters, AdoptImport(m, h)  PROVE Conserved
  <2>1. adopt[m][h] # Idle /\ adopt[m][h].at = "upgrade"  BY <1>3 DEF AdoptImport
  <2>2. PICK c \in Ids : c = adopt[m][h].c  BY <2>1, RequestTypes
  <2>3. c \in Born  BY <2>1, <2>2 DEF Known
  <2>4. UNCHANGED <<arch, pend>> \/ Write(m, {<<c, "db">>})  BY <1>3, <2>2 DEF AdoptImport
  <2>5. {<<c, "db">>} \in SUBSET Files  BY DEF Files, Exts
  <2>6. CASE Write(m, {<<c, "db">>})
    <3>1. \A f \in {<<c, "db">>} : f[1] \in Born /\ (f[2] = "deleted" => f[1] \in struck)
      BY <2>3
    <3> QED  BY <2>5, <2>6, <3>1, WriteConserves
  <2> QED  BY <2>4, <2>6, SameConserved
<1>4. ASSUME NEW m \in Machines, SealSnapshot(m) \/ SealSidecar(m)  PROVE Conserved
  <2>1. seal[m] # Idle  BY <1>4 DEF SealSnapshot, SealSidecar
  <2>2. PICK c \in Ids : c = seal[m].c  BY <2>1, RequestTypes
  <2>3. c \in Born  BY <2>1, <2>2 DEF Known
  <2>4. UNCHANGED <<arch, pend>> \/ \E e \in {"db", "json"} : Write(m, {<<c, e>>})
    BY <1>4, <2>2 DEF SealSnapshot, SealSidecar
  <2>5. ASSUME NEW e \in {"db", "json"}, Write(m, {<<c, e>>})  PROVE Conserved
    <3>1. {<<c, e>>} \in SUBSET Files  BY DEF Files, Exts
    <3>2. \A f \in {<<c, e>>} : f[1] \in Born /\ (f[2] = "deleted" => f[1] \in struck)
      BY <2>3
    <3> QED  BY <2>5, <3>1, <3>2, WriteConserves
  <2> QED  BY <2>4, <2>5, SameConserved
<1>5. ASSUME NEW m \in Machines, DeleteFiles(m)  PROVE Conserved
  <2>1. del[m] # Idle  BY <1>5 DEF DeleteFiles
  <2>2. PICK c \in Ids : c = del[m].c  BY <2>1, RequestTypes
  <2>3. c \in struck  BY <2>1, <2>2 DEF Struck
  <2>4. Unlink(m, Pair(c)) \/ \E cut \in {{}, {<<c, "db">>}} : Unlink(m, cut)
    BY <1>5, <2>2 DEF DeleteFiles
  <2>5. PICK cut \in {Pair(c), {}, {<<c, "db">>}} : Unlink(m, cut)  BY <2>4
  <2>6. cut \subseteq Pair(c)  BY DEF Pair
  <2>7. cut \in SUBSET Files /\ \A f \in cut : f[1] \in struck  BY <2>3, <2>6, PairFiles
  <2> QED  BY <2>5, <2>7, UnlinkConserves
<1>6. ASSUME NEW m \in Machines, DeleteTombstone(m)  PROVE Conserved
  <2>1. del[m] # Idle  BY <1>6 DEF DeleteTombstone
  <2>2. PICK c \in Ids : c = del[m].c  BY <2>1, RequestTypes
  <2>3. c \in struck /\ c \in Born  BY <2>1, <2>2 DEF Struck, Known
  <2>4. {<<c, "deleted">>} \in SUBSET Files  BY DEF Files, Exts
  <2>5. \A f \in {<<c, "deleted">>} : f[1] \in Born /\ (f[2] = "deleted" => f[1] \in struck)
    BY <2>3
  <2>6. Write(m, {<<c, "deleted">>}) \/ UNCHANGED <<arch, pend>>
    BY <1>6, <2>2 DEF DeleteTombstone
  <2> QED  BY <2>4, <2>5, <2>6, WriteConserves, SameConserved
<1>7. ASSUME NEW m \in Machines, Prune(m)  PROVE Conserved
  <2> DEFINE dead == Tombed(m) \cap Present(m)
             fs == UNION {Pair(c) : c \in dead}
  <2>1. dead \in SUBSET Ids /\ dead \subseteq struck  BY TombedStruck DEF Present
  <2>2. UNCHANGED <<arch, pend>> \/ Unlink(m, fs)  BY <1>7 DEF Prune
  <2>3. fs \in SUBSET Files /\ \A f \in fs : f[1] \in struck
    <3> HIDE DEF dead
    <3>1. UNION {Pair(c) : c \in dead} \in SUBSET Files
          /\ \A f \in UNION {Pair(c) : c \in dead} : f[1] \in dead
      BY <2>1, PairFiles
    <3> QED  BY <2>1, <3>1
  <2> HIDE DEF fs
  <2> QED  BY <2>2, <2>3, UnlinkConserves, SameConserved
<1>8. ASSUME NEW m \in Machines, InsertAndBackfill(m)  PROVE Conserved
  <2> DEFINE S == Unexported(m)
  <2>1. S \in SUBSET Ids /\ S \subseteq Born  BY DEF Unexported, Present, Known
  <2>2. \/ Write(m, UNION {Pair(c) : c \in S})
        \/ Write(m, {<<c, "db">> : c \in S})
    BY <1>8 DEF InsertAndBackfill
  <2> HIDE DEF S
  <2>3. CASE Write(m, UNION {Pair(c) : c \in S})
    <3> DEFINE fs == UNION {Pair(c) : c \in S}
    <3>1. fs \in SUBSET Files
          /\ \A f \in fs : f[1] \in Born /\ (f[2] = "deleted" => f[1] \in struck)
      BY <2>1, PairFiles
    <3>2. Write(m, fs)  BY <2>3
    <3> HIDE DEF fs
    <3> QED  BY <3>1, <3>2, WriteConserves
  <2>4. CASE Write(m, {<<c, "db">> : c \in S})
    <3> DEFINE fs == {<<c, "db">> : c \in S}
    <3>1. fs \in SUBSET Files  BY <2>1 DEF Files, Exts
    <3>2. \A f \in fs : f[1] \in Born /\ (f[2] = "deleted" => f[1] \in struck)
      BY <2>1
    <3>3. Write(m, fs)  BY <2>4
    <3> HIDE DEF fs
    <3> QED  BY <3>1, <3>2, <3>3, WriteConserves
  <2> QED  BY <2>2, <2>3, <2>4
<1>9. ASSUME NEW m \in Machines, MoveLegacy(m)  PROVE Conserved
  <2> DEFINE S == legacy[m]
             fs == UNION {Pair(c) : c \in S}
  <2>1. S \in SUBSET Ids /\ S \subseteq Born  BY DEF TypeOK, Known
  <2>2. Write(m, fs)  BY <1>9 DEF MoveLegacy
  <2> HIDE DEF S
  <2>3. fs \in SUBSET Files
        /\ \A f \in fs : f[1] \in Born /\ (f[2] = "deleted" => f[1] \in struck)
    BY <2>1, PairFiles
  <2> HIDE DEF fs
  <2> QED  BY <2>2, <2>3, WriteConserves
<1>10. ASSUME NEW m \in Machines, NEW n \in Machines, NEW f \in Files, Deliver(m, n, f)
       PROVE  Conserved
  BY <1>10, DeliverConserves
<1>11. CASE Next
  BY <1>2, <1>3, <1>4, <1>5, <1>6, <1>7, <1>8, <1>9, <1>10, <1>11
  DEF Next, RequestStep, BootStep, UserStep, UserAndRequest
<1> QED  BY <1>1, <1>11

-----------------------------------------------------------------------------
(* What a step does to the other variables.                                *)

\* The actions that change the registry; every other one leaves rows alone.
RowActions(m) ==
    \/ \E h \in Adopters : AdoptCreate(m, h)
    \/ \E c \in Ids : Unarchive(m, c) \/ DeleteStart(m, c)
    \/ SealGenerate(m) \/ SealArchive(m) \/ Prune(m) \/ InsertAndBackfill(m)

\* Ids are handed out once, and a deletion is never taken back.
LEMMA HistoryStep ==
    ASSUME TypeOK, Known, [Next]_vars
    PROVE  /\ born' \in [Ids -> Pts \cup {NoPt, NoRow}]
           /\ struck' \in SUBSET Ids
           /\ Born \subseteq Born' /\ struck \subseteq struck' /\ struck' \subseteq Born
<1>0. /\ born \in [Ids -> Pts \cup {NoPt, NoRow}] /\ struck \in SUBSET Ids
      /\ struck \subseteq Born
  BY DEF TypeOK, Known
<1>1. CASE UNCHANGED <<born, struck>>  BY <1>0, <1>1 DEF Born
<1>2. ASSUME NEW m \in Machines, NEW h \in Adopters, AdoptCreate(m, h)
      PROVE  /\ born' \in [Ids -> Pts \cup {NoPt, NoRow}]
             /\ Born \subseteq Born' /\ UNCHANGED struck
  <2>1. adopt[m][h] # Idle /\ adopt[m][h].at = "create"  BY <1>2 DEF AdoptCreate
  <2>2. PICK p \in Pts : p = adopt[m][h].pt  BY <2>1, RequestTypes
  <2>3. PICK c \in Ids : born[c] = NoRow /\ born' = [born EXCEPT ![c] = p]
    BY <1>2, <2>2 DEF AdoptCreate
  <2>4. born' \in [Ids -> Pts \cup {NoPt, NoRow}]  BY <1>0, <2>3
  <2>5. \A i \in Ids : born[i] # NoRow => born'[i] = born[i]  BY <1>0, <2>3
  <2> QED  BY <1>2, <2>4, <2>5 DEF AdoptCreate, Born
<1>3. ASSUME NEW m \in Machines, NEW c \in Ids, DeleteStart(m, c)
      PROVE  UNCHANGED born /\ struck' = struck \cup {c} /\ c \in Born
  BY <1>3 DEF DeleteStart, Known
<1>4. CASE \E m \in Machines, h \in Adopters : AdoptCreate(m, h)  BY <1>0, <1>2, <1>4
<1>5. CASE \E m \in Machines, c \in Ids : DeleteStart(m, c)  BY <1>0, <1>3, <1>5 DEF Born
<1>6. \/ UNCHANGED <<born, struck>>
      \/ \E m \in Machines, h \in Adopters : AdoptCreate(m, h)
      \/ \E m \in Machines, c \in Ids : DeleteStart(m, c)
  <2>1. CASE UNCHANGED vars  BY <2>1 DEF vars, history
  <2>2. ASSUME NEW m \in Machines, BootStep(m) \/ Stop(m) \/ Crash(m) \/ MoveLegacy(m)
        PROVE  UNCHANGED <<born, struck>>
    BY <2>2 DEF BootStep, Prune, InsertAndBackfill, Stop, Crash, MoveLegacy, history
  <2>3. ASSUME NEW m \in Machines, NEW n \in Machines, NEW f \in Files, Deliver(m, n, f)
        PROVE  UNCHANGED <<born, struck>>
    BY <2>3 DEF Deliver, history
  <2>4. ASSUME NEW m \in Machines, RequestStep(m)
        PROVE  UNCHANGED <<born, struck>> \/ \E h \in Adopters : AdoptCreate(m, h)
    BY <2>4 DEF RequestStep, AdoptImport, SealGenerate, SealArchive, SealSnapshot, SealSidecar,
                DeleteFiles, DeleteTombstone, history
  <2>5. ASSUME NEW m \in Machines, UserStep(m)
        PROVE  UNCHANGED <<born, struck>> \/ \E c \in Ids : DeleteStart(m, c)
    BY <2>5 DEF UserStep, AdoptStart, AdoptMatch, Unarchive, SealStart, history
  <2> QED  BY <2>1, <2>2, <2>3, <2>4, <2>5 DEF Next
<1> QED  BY <1>1, <1>4, <1>5, <1>6

\* A startup that reads the tombstones drops those rows; nobody else starts one.
LEMMA TombsStep ==
    ASSUME TypeOK, [Next]_vars
    PROVE  /\ boot' \in [Machines -> {"down", "insert", "up"}]
           /\ tombs' \in [Machines -> SUBSET Ids]
           /\ \A n \in Machines :
                \/ tombs'[n] = tombs[n] /\ (boot'[n] # "down" => boot[n] # "down")
                \/ tombs'[n] = Tombed(n) /\ \A c \in Tombed(n) : rows'[n][c] = NoRow
<1>0. /\ boot \in [Machines -> {"down", "insert", "up"}]
      /\ tombs \in [Machines -> SUBSET Ids]
      /\ rows \in [Machines -> [Ids -> Row \cup {NoRow}]]
  BY DEF TypeOK
<1>1. CASE UNCHANGED <<boot, tombs>>  BY <1>0, <1>1
<1>2. ASSUME NEW m \in Machines, NEW v \in {"down", "up"}, UNCHANGED tombs,
             boot[m] # "down", boot' = [boot EXCEPT ![m] = v]
      PROVE  /\ boot' \in [Machines -> {"down", "insert", "up"}]
             /\ \A n \in Machines : boot'[n] # "down" => boot[n] # "down"
  BY <1>0, <1>2
<1>3. ASSUME NEW m \in Machines, Prune(m)
      PROVE  /\ boot' \in [Machines -> {"down", "insert", "up"}]
             /\ tombs' \in [Machines -> SUBSET Ids]
             /\ tombs'[m] = Tombed(m) /\ \A c \in Tombed(m) : rows'[m][c] = NoRow
             /\ \A n \in Machines : n # m => tombs'[n] = tombs[n] /\ boot'[n] = boot[n]
  <2>1. Tombed(m) \in SUBSET Ids  BY DEF Tombed
  <2>2. tombs' = [tombs EXCEPT ![m] = Tombed(m)] /\ boot' = [boot EXCEPT ![m] = "insert"]
    BY <1>3 DEF Prune
  <2> DEFINE dead == Tombed(m) \cap Present(m)
             Swept(stale) == [c \in Ids |-> IF c \in dead \cup stale THEN NoRow ELSE rows[m][c]]
  <2>3. PICK stale \in {Stale(m), {}} : rows' = [rows EXCEPT ![m] = Swept(stale)]
    BY <1>3 DEF Prune
  <2> DEFINE row == Swept(stale)
  <2>4. \A c \in Tombed(m) : row[c] = NoRow  BY <2>1 DEF Present
  <2>5. rows' = [rows EXCEPT ![m] = row]  BY <2>3
  <2> HIDE DEF row
  <2>6. rows'[m] = row  BY <1>0, <2>5
  <2> QED  BY <1>0, <2>1, <2>2, <2>4, <2>6
<1>4. CASE \E m \in Machines : Prune(m)  BY <1>0, <1>3, <1>4
<1>5. ASSUME NEW m \in Machines, InsertAndBackfill(m) \/ Stop(m) \/ Crash(m)
      PROVE  \E v \in {"down", "up"} :
               UNCHANGED tombs /\ boot[m] # "down" /\ boot' = [boot EXCEPT ![m] = v]
  BY <1>5 DEF InsertAndBackfill, Stop, Crash, Up
<1>6. CASE \E m \in Machines : InsertAndBackfill(m) \/ Stop(m) \/ Crash(m)
  BY <1>0, <1>2, <1>5, <1>6
<1>7. \/ UNCHANGED <<boot, tombs>>
      \/ \E m \in Machines : Prune(m)
      \/ \E m \in Machines : InsertAndBackfill(m) \/ Stop(m) \/ Crash(m)
  <2>1. CASE UNCHANGED vars  BY <2>1 DEF vars, startup
  <2>2. ASSUME NEW m \in Machines, MoveLegacy(m)  PROVE UNCHANGED <<boot, tombs>>
    BY <2>2 DEF MoveLegacy, startup
  <2>3. ASSUME NEW m \in Machines, NEW n \in Machines, NEW f \in Files, Deliver(m, n, f)
        PROVE  UNCHANGED <<boot, tombs>>
    BY <2>3 DEF Deliver, startup
  <2>4. ASSUME NEW m \in Machines, RequestStep(m)  PROVE UNCHANGED <<boot, tombs>>
    BY <2>4 DEF RequestStep, AdoptCreate, AdoptImport, SealGenerate, SealArchive, SealSnapshot,
                SealSidecar, DeleteFiles, DeleteTombstone, startup
  <2>5. ASSUME NEW m \in Machines, UserStep(m)  PROVE UNCHANGED <<boot, tombs>>
    BY <2>5 DEF UserStep, AdoptStart, AdoptMatch, Unarchive, SealStart, DeleteStart, startup
  <2> QED  BY <2>1, <2>2, <2>3, <2>4, <2>5 DEF Next, BootStep
<1> QED  BY <1>1, <1>4, <1>6, <1>7

\* What becomes of campaign c's row on machine n.
RowFate(n, c) ==
    \/ /\ c \in Present(n)
       /\ rows[n][c].told => rows'[n][c].told
       /\ rows'[n][c].archived => rows'[n][c].told
    \/ /\ c \notin Present(n) /\ c \notin Born
       /\ c \in Born' /\ ~rows'[n][c].archived
    \/ /\ c \notin Present(n) /\ c \in Born
       /\ boot[n] = "insert" /\ c \notin tombs[n]
       /\ rows'[n][c].told

RowsMove ==
    /\ rows' \in [Machines -> [Ids -> Row \cup {NoRow}]]
    /\ \A n \in Machines, c \in Ids : rows'[n][c] # NoRow => RowFate(n, c)

\* One row changes, the rest stay.
LEMMA RowEdit ==
    ASSUME TypeOK, SealedIsTold, NEW m \in Machines, NEW c \in Ids, NEW r \in Row \cup {NoRow},
           rows' = [rows EXCEPT ![m][c] = r],
           r # NoRow => (rows'[m][c] = r => RowFate(m, c))
    PROVE  RowsMove
<1>1. rows \in [Machines -> [Ids -> Row \cup {NoRow}]]  BY DEF TypeOK
<1>2. rows' \in [Machines -> [Ids -> Row \cup {NoRow}]] /\ rows'[m][c] = r  BY <1>1
<1>3. ASSUME NEW n \in Machines, NEW d \in Ids, rows'[n][d] # NoRow
      PROVE  RowFate(n, d)
  <2>1. CASE n = m /\ d = c  BY <1>2, <1>3, <2>1
  <2>2. CASE ~(n = m /\ d = c)
    <3>1. rows'[n][d] = rows[n][d]  BY <1>1, <2>2
    <3>2. d \in Present(n)  BY <1>3, <3>1 DEF Present
    <3>3. rows[n][d].archived => rows[n][d].told  BY <3>2 DEF SealedIsTold
    <3> QED  BY <3>1, <3>2, <3>3 DEF RowFate
  <2> QED  BY <2>1, <2>2
<1> QED  BY <1>2, <1>3 DEF RowsMove

LEMMA RowsStay ==
    ASSUME TypeOK, SealedIsTold, UNCHANGED rows
    PROVE  RowsMove
<1>1. rows \in [Machines -> [Ids -> Row \cup {NoRow}]]  BY DEF TypeOK
<1>2. ASSUME NEW n \in Machines, NEW d \in Ids, rows'[n][d] # NoRow
      PROVE  RowFate(n, d)
  <2>1. d \in Present(n)  BY <1>2 DEF Present
  <2>2. rows[n][d].archived => rows[n][d].told  BY <2>1 DEF SealedIsTold
  <2> QED  BY <2>1, <2>2 DEF RowFate
<1> QED  BY <1>1, <1>2 DEF RowsMove

\* A machine's rows are filtered or filled at startup.
LEMMA RowsSweep ==
    ASSUME TypeOK, SealedIsTold, NEW m \in Machines, NEW row \in [Ids -> Row \cup {NoRow}],
           rows' = [rows EXCEPT ![m] = row],
           \A c \in Ids : \/ row[c] = rows[m][c] \/ row[c] = NoRow
                          \/ /\ c \notin Present(m) /\ c \in Born /\ c \notin tombs[m]
                             /\ boot[m] = "insert" /\ row[c].told
    PROVE  RowsMove
<1>1. rows \in [Machines -> [Ids -> Row \cup {NoRow}]]  BY DEF TypeOK
<1>2. /\ rows' \in [Machines -> [Ids -> Row \cup {NoRow}]]
      /\ \A n \in Machines : rows'[n] = IF n = m THEN row ELSE rows[n]
  BY <1>1
<1>3. ASSUME NEW n \in Machines, NEW d \in Ids, rows'[n][d] # NoRow
      PROVE  RowFate(n, d)
  <2>1. CASE rows'[n][d] = rows[n][d]
    <3>1. d \in Present(n)  BY <1>3, <2>1 DEF Present
    <3>2. rows[n][d].archived => rows[n][d].told  BY <3>1 DEF SealedIsTold
    <3> QED  BY <2>1, <3>1, <3>2 DEF RowFate
  <2>2. CASE rows'[n][d] # rows[n][d]
    <3>1. n = m /\ rows'[n][d] = row[d]  BY <1>2, <2>2
    <3> QED  BY <1>3, <2>2, <3>1 DEF RowFate
  <2> QED  BY <2>1, <2>2
<1> QED  BY <1>2, <1>3 DEF RowsMove

\* Who is on file has a row, and its fields.
LEMMA PresentRow ==
    ASSUME TypeOK, NEW m \in Machines, NEW c \in Present(m)
    PROVE  /\ c \in Ids /\ rows[m][c] \in Row
           /\ rows[m][c].told \in BOOLEAN /\ rows[m][c].loc \in Locs
BY DEF TypeOK, Present, Row

\* No new campaign takes over a known id, no discovered one was tombstoned when
\* the thread looked, nothing sealed is untold, and nothing told is forgotten.
LEMMA RowsStep ==
    ASSUME IInv, [Next]_vars
    PROVE  RowsMove
<1>0. /\ TypeOK /\ Known /\ SealedIsTold /\ ToldFirst
      /\ rows \in [Machines -> [Ids -> Row \cup {NoRow}]]
  BY DEF IInv, TypeOK
<1>1. CASE UNCHANGED rows  BY <1>0, <1>1, RowsStay
<1>2. ASSUME NEW m \in Machines, NEW h \in Adopters, AdoptCreate(m, h)  PROVE RowsMove
  <2>1. adopt[m][h] # Idle /\ adopt[m][h].at = "create"  BY <1>2 DEF AdoptCreate
  <2>2. PICK p \in Pts : p = adopt[m][h].pt  BY <1>0, <2>1, RequestTypes
  <2> DEFINE r == [pt |-> p, archived |-> FALSE, loc |-> "live", told |-> FALSE]
  <2>3. PICK c \in Ids : /\ born[c] = NoRow /\ born' = [born EXCEPT ![c] = p]
                         /\ rows' = [rows EXCEPT ![m][c] = r]
    BY <1>2, <2>2 DEF AdoptCreate
  <2>4. r \in Row /\ ~r.archived  BY DEF Row, Locs
  <2>5. c \notin Born /\ c \notin Present(m)  BY <1>0, <2>3 DEF Born, Known
  <2>6. c \in Born'
    <3>1. born'[c] = p  BY <1>0, <2>3 DEF TypeOK
    <3> QED  BY <3>1, LibraryAssumption DEF Born
  <2> HIDE DEF r
  <2>7. rows'[m][c] = r => RowFate(m, c)  BY <2>4, <2>5, <2>6 DEF RowFate
  <2> QED  BY <1>0, <2>3, <2>4, <2>7, RowEdit
<1>3. ASSUME NEW m \in Machines, NEW c \in Ids, DeleteStart(m, c)  PROVE RowsMove
  <2>1. rows' = [rows EXCEPT ![m][c] = NoRow]  BY <1>3 DEF DeleteStart
  <2> QED  BY <1>0, <2>1, RowEdit
<1>4. ASSUME NEW m \in Machines, NEW c \in Present(m), NEW r \in Row,
             rows' = [rows EXCEPT ![m][c] = r], rows[m][c].told => r.told, r.archived => r.told
      PROVE  RowsMove
  <2>1. c \in Ids  BY DEF Present
  <2>2. rows'[m][c] = r => RowFate(m, c)  BY <1>4 DEF RowFate
  <2> QED  BY <1>0, <1>4, <2>1, <2>2, RowEdit
<1>5. ASSUME NEW m \in Machines, NEW c \in Ids, Unarchive(m, c)  PROVE RowsMove
  <2>1. c \in Present(m)  BY <1>5 DEF Unarchive
  <2> DEFINE r == [rows[m][c] EXCEPT !.archived = FALSE]
  <2>2. rows' = [rows EXCEPT ![m][c] = r]  BY <1>5 DEF Unarchive
  <2>3. r \in Row /\ r.told = rows[m][c].told /\ ~r.archived
    BY <1>0, <2>1, PresentRow DEF Row
  <2> HIDE DEF r
  <2> QED  BY <1>4, <2>1, <2>2, <2>3
<1>6. ASSUME NEW m \in Machines, SealGenerate(m)  PROVE RowsMove
  <2>1. seal[m] # Idle  BY <1>6 DEF SealGenerate
  <2>2. PICK c \in Ids : c = seal[m].c  BY <1>0, <2>1, RequestTypes
  <2> DEFINE r == [rows[m][c] EXCEPT !.told = TRUE]
  <2>3. UNCHANGED rows \/ (c \in Present(m) /\ rows' = [rows EXCEPT ![m][c] = r])
    BY <1>6, <2>2 DEF SealGenerate
  <2>4. CASE c \in Present(m) /\ rows' = [rows EXCEPT ![m][c] = r]
    <3>1. r \in Row /\ r.told  BY <1>0, <2>4, PresentRow DEF Row
    <3> HIDE DEF r
    <3> QED  BY <1>4, <2>4, <3>1
  <2> QED  BY <1>1, <2>3, <2>4
<1>7. ASSUME NEW m \in Machines, SealArchive(m)  PROVE RowsMove
  <2>1. seal[m] # Idle /\ seal[m].at = "archive"  BY <1>7 DEF SealArchive
  <2>2. PICK c \in Ids : c = seal[m].c  BY <1>0, <2>1, RequestTypes
  <2> DEFINE r == [rows[m][c] EXCEPT !.archived = TRUE]
  <2>3. UNCHANGED rows \/ (c \in Present(m) /\ rows' = [rows EXCEPT ![m][c] = r])
    BY <1>7, <2>2 DEF SealArchive
  <2>4. CASE c \in Present(m) /\ rows' = [rows EXCEPT ![m][c] = r]
    <3>1. rows[m][c].told  BY <1>0, <2>1, <2>2, <2>4 DEF ToldFirst
    <3>2. r \in Row /\ r.told  BY <1>0, <2>4, <3>1, PresentRow DEF Row
    <3> HIDE DEF r
    <3> QED  BY <1>4, <2>4, <3>2
  <2> QED  BY <1>1, <2>3, <2>4
<1>8. ASSUME NEW m \in Machines, Prune(m)  PROVE RowsMove
  <2> DEFINE Swept(out) == [c \in Ids |-> IF c \in out THEN NoRow ELSE rows[m][c]]
  <2>1. \E stale \in {Stale(m), {}} :
          rows' = [rows EXCEPT ![m] = Swept((Tombed(m) \cap Present(m)) \cup stale)]
    BY <1>8 DEF Prune
  <2>2. PICK out : rows' = [rows EXCEPT ![m] = Swept(out)]  BY <2>1
  <2> DEFINE row == Swept(out)
  <2>3. rows' = [rows EXCEPT ![m] = row]  BY <2>2
  <2>4. row \in [Ids -> Row \cup {NoRow}] /\ \A c \in Ids : row[c] \in {rows[m][c], NoRow}
    BY <1>0
  <2> HIDE DEF row
  <2> QED  BY <1>0, <2>3, <2>4, RowsSweep
<1>9. ASSUME NEW m \in Machines, InsertAndBackfill(m)  PROVE RowsMove
  <2> DEFINE S == Discovered(m)
             row == [c \in Ids |-> IF c \in S THEN FromSidecar(c) ELSE rows[m][c]]
  <2>1. rows' = [rows EXCEPT ![m] = row] /\ boot[m] = "insert"
    BY <1>9 DEF InsertAndBackfill
  <2>2. ASSUME NEW c \in S
        PROVE  c \in Ids /\ c \notin Present(m) /\ c \in Born /\ c \notin tombs[m]
    <3>1. c \in Ids /\ c \notin Present(m) /\ c \notin tombs[m] /\ <<c, "db">> \in arch[m]
      BY <2>2 DEF Discovered, Pair
    <3>2. c \in Born  BY <1>0, <3>1 DEF Known
    <3> QED  BY <3>1, <3>2
  <2> HIDE DEF S
  <2>3. ASSUME NEW c \in S  PROVE FromSidecar(c) \in Row /\ FromSidecar(c).told
    <3>1. born[c] \in Pts \cup {NoPt}  BY <1>0, <2>2 DEF TypeOK, Born
    <3> QED  BY <3>1 DEF FromSidecar, Row, Locs
  <2>4. row \in [Ids -> Row \cup {NoRow}]  BY <1>0, <2>3
  <2>5. \A c \in Ids : row[c] = IF c \in S THEN FromSidecar(c) ELSE rows[m][c]  OBVIOUS
  <2> HIDE DEF row
  <2>6. \A c \in Ids : row[c] = rows[m][c] \/ (c \in S /\ row[c].told)  BY <2>3, <2>5
  <2> QED  BY <1>0, <2>1, <2>2, <2>4, <2>6, RowsSweep
<1>10. UNCHANGED rows \/ \E m \in Machines : RowActions(m)
  <2>1. CASE UNCHANGED vars  BY <2>1 DEF vars
  <2>2. ASSUME NEW m \in Machines, MoveLegacy(m) \/ Stop(m) \/ Crash(m)  PROVE UNCHANGED rows
    BY <2>2 DEF MoveLegacy, Stop, Crash
  <2>3. ASSUME NEW m \in Machines, NEW n \in Machines, NEW f \in Files, Deliver(m, n, f)
        PROVE  UNCHANGED rows
    BY <2>3 DEF Deliver
  <2>4. ASSUME NEW m \in Machines, RequestStep(m)  PROVE UNCHANGED rows \/ RowActions(m)
    BY <2>4 DEF RequestStep, AdoptImport, SealSnapshot, SealSidecar, DeleteFiles,
                DeleteTombstone, RowActions
  <2>5. ASSUME NEW m \in Machines, UserStep(m)  PROVE UNCHANGED rows \/ RowActions(m)
    BY <2>5 DEF UserStep, AdoptStart, AdoptMatch, SealStart, RowActions
  <2> QED  BY <2>1, <2>2, <2>3, <2>4, <2>5 DEF Next, BootStep, RowActions
<1> QED  BY <1>1, <1>2, <1>3, <1>5, <1>6, <1>7, <1>8, <1>9, <1>10 DEF RowActions

\* An adoption that upgrades, upgrades a campaign that was created.
LEMMA AdoptStep ==
    ASSUME TypeOK, Known, [Next]_vars
    PROVE  /\ adopt' \in [Machines -> [Adopters -> Adoption \cup {Idle}]]
           /\ \A n \in Machines, h \in Adopters :
                adopt'[n][h] # Idle /\ adopt'[n][h].at = "upgrade" => adopt'[n][h].c \in Born'
<1>0. /\ adopt \in [Machines -> [Adopters -> Adoption \cup {Idle}]]
      /\ Born \subseteq Born'
  BY HistoryStep DEF TypeOK
<1> DEFINE Goal == /\ adopt' \in [Machines -> [Adopters -> Adoption \cup {Idle}]]
                   /\ \A n \in Machines, h \in Adopters :
                        adopt'[n][h] # Idle /\ adopt'[n][h].at = "upgrade"
                          => adopt'[n][h].c \in Born'
<1>1. CASE UNCHANGED adopt  BY <1>0, <1>1 DEF Known
<1>2. ASSUME NEW m \in Machines, NEW h \in Adopters, NEW a \in Adoption \cup {Idle},
             adopt' = [adopt EXCEPT ![m][h] = a],
             a # Idle /\ a.at = "upgrade" => a.c \in Born'
      PROVE  Goal
  <2>1. adopt' \in [Machines -> [Adopters -> Adoption \cup {Idle}]]  BY <1>0, <1>2
  <2>2. \A n \in Machines, g \in Adopters : \/ adopt'[n][g] = adopt[n][g] \/ adopt'[n][g] = a
    BY <1>0, <1>2
  <2>3. ASSUME NEW n \in Machines, NEW g \in Adopters,
               adopt'[n][g] # Idle, adopt'[n][g].at = "upgrade"
        PROVE  adopt'[n][g].c \in Born'
    <3>1. CASE adopt'[n][g] = a  BY <1>2, <2>3, <3>1
    <3>2. CASE adopt'[n][g] = adopt[n][g]  BY <1>0, <2>3, <3>2 DEF Known
    <3> QED  BY <2>2, <3>1, <3>2
  <2> QED  BY <2>1, <2>3
<1>3. ASSUME NEW m \in Machines, NEW h \in Adopters, NEW p \in Pts, AdoptStart(m, h, p)
      PROVE  Goal
  <2> DEFINE a == [at |-> "create", pt |-> p]
  <2>1. a \in Adoption /\ a.at # "upgrade"  BY DEF Adoption
  <2>2. adopt' = [adopt EXCEPT ![m][h] = a]  BY <1>3 DEF AdoptStart
  <2> HIDE DEF a, Goal
  <2> QED  BY <1>2, <2>1, <2>2
<1>4. ASSUME NEW m \in Machines, NEW h \in Adopters, NEW p \in Pts, AdoptMatch(m, h, p)
      PROVE  Goal
  <2>1. PICK c \in Active(m, p) :
          adopt' = [adopt EXCEPT ![m][h] = [at |-> "upgrade", c |-> c, loc |-> rows[m][c].loc]]
    BY <1>4 DEF AdoptMatch
  <2>2. c \in Present(m)  BY DEF Active
  <2>3. c \in Ids /\ rows[m][c].loc \in Locs /\ c \in Born'  BY <1>0, <2>2, PresentRow DEF Known
  <2> DEFINE a == [at |-> "upgrade", c |-> c, loc |-> rows[m][c].loc]
  <2>4. a \in Adoption /\ a.c = c  BY <2>3 DEF Adoption
  <2>5. adopt' = [adopt EXCEPT ![m][h] = a]  BY <2>1
  <2> HIDE DEF a, Goal
  <2> QED  BY <1>2, <2>3, <2>4, <2>5
<1>5. ASSUME NEW m \in Machines, NEW h \in Adopters, AdoptCreate(m, h)  PROVE Goal
  <2>1. adopt[m][h] # Idle /\ adopt[m][h].at = "create"  BY <1>5 DEF AdoptCreate
  <2>2. PICK p \in Pts : p = adopt[m][h].pt  BY <2>1, RequestTypes
  <2>3. PICK c \in Ids : /\ born' = [born EXCEPT ![c] = p]
                         /\ adopt' = [adopt EXCEPT ![m][h] =
                                        [at |-> "upgrade", c |-> c, loc |-> "live"]]
    BY <1>5, <2>2 DEF AdoptCreate
  <2>4. born'[c] = p  BY <2>3 DEF TypeOK
  <2>5. c \in Born'  BY <2>4, LibraryAssumption DEF Born
  <2> DEFINE a == [at |-> "upgrade", c |-> c, loc |-> "live"]
  <2>6. a \in Adoption /\ a.c = c  BY DEF Adoption, Locs
  <2>7. adopt' = [adopt EXCEPT ![m][h] = a]  BY <2>3
  <2> HIDE DEF a, Goal
  <2> QED  BY <1>2, <2>5, <2>6, <2>7
<1>6. ASSUME NEW m \in Machines, NEW h \in Adopters, AdoptImport(m, h)  PROVE Goal
  <2>1. adopt' = [adopt EXCEPT ![m][h] = Idle]  BY <1>6 DEF AdoptImport
  <2> HIDE DEF Goal
  <2> QED  BY <1>2, <2>1
<1>7. ASSUME NEW m \in Machines, Crash(m)  PROVE Goal
  <2> DEFINE none == [h \in Adopters |-> Idle]
  <2>1. adopt' = [adopt EXCEPT ![m] = none]  BY <1>7 DEF Crash
  <2>2. none \in [Adopters -> Adoption \cup {Idle}] /\ \A h \in Adopters : none[h] = Idle  OBVIOUS
  <2> HIDE DEF none
  <2>3. adopt' \in [Machines -> [Adopters -> Adoption \cup {Idle}]]  BY <1>0, <2>1, <2>2
  <2>4. \A n \in Machines : adopt'[n] = IF n = m THEN none ELSE adopt[n]  BY <1>0, <2>1
  <2>5. \A n \in Machines, g \in Adopters : adopt'[n][g] \in {adopt[n][g], Idle}
    BY <2>2, <2>4
  <2> QED  BY <1>0, <2>3, <2>5 DEF Known
<1>8. UNCHANGED adopt \/ \E m \in Machines :
        \/ \E h \in Adopters, p \in Pts : AdoptStart(m, h, p) \/ AdoptMatch(m, h, p)
        \/ \E h \in Adopters : AdoptCreate(m, h) \/ AdoptImport(m, h)
        \/ Crash(m)
  <2>1. CASE UNCHANGED vars  BY <2>1 DEF vars, requests
  <2>2. ASSUME NEW m \in Machines, MoveLegacy(m) \/ Stop(m) \/ BootStep(m)
        PROVE  UNCHANGED adopt
    BY <2>2 DEF MoveLegacy, Stop, BootStep, Prune, InsertAndBackfill, requests
  <2>3. ASSUME NEW m \in Machines, NEW n \in Machines, NEW f \in Files, Deliver(m, n, f)
        PROVE  UNCHANGED adopt
    BY <2>3 DEF Deliver, requests
  <2>4. ASSUME NEW m \in Machines, RequestStep(m)
        PROVE  UNCHANGED adopt \/ \E h \in Adopters : AdoptCreate(m, h) \/ AdoptImport(m, h)
    BY <2>4 DEF RequestStep, SealGenerate, SealArchive, SealSnapshot, SealSidecar,
                DeleteFiles, DeleteTombstone
  <2>5. ASSUME NEW m \in Machines, UserStep(m)
        PROVE  UNCHANGED adopt \/ \E h \in Adopters, p \in Pts :
                                     AdoptStart(m, h, p) \/ AdoptMatch(m, h, p)
    BY <2>5 DEF UserStep, Unarchive, SealStart, DeleteStart, requests
  <2> QED  BY <2>1, <2>2, <2>3, <2>4, <2>5 DEF Next
<1> QED  BY <1>1, <1>3, <1>4, <1>5, <1>6, <1>7, <1>8

\* The ceremony keeps to its campaign, and tells it before it may archive it.
LEMMA SealStep ==
    ASSUME TypeOK, Known, [Next]_vars
    PROVE  /\ seal' \in [Machines -> Sealing \cup {Idle}]
           /\ \A n \in Machines : seal'[n] # Idle =>
                /\ seal'[n].c \in Born
                /\ seal'[n].at = "archive" =>
                     \/ seal'[n] = seal[n]
                     \/ rows'[n][seal'[n].c] # NoRow => rows'[n][seal'[n].c].told
<1>0. /\ seal \in [Machines -> Sealing \cup {Idle}]
      /\ rows \in [Machines -> [Ids -> Row \cup {NoRow}]]
      /\ \A n \in Machines : seal[n] # Idle => seal[n].c \in Born
  BY DEF TypeOK, Known
<1> DEFINE Told(n, a) == a.at = "archive" =>
                     \/ a = seal[n]
                     \/ rows'[n][a.c] # NoRow => rows'[n][a.c].told
           Goal == /\ seal' \in [Machines -> Sealing \cup {Idle}]
                   /\ \A n \in Machines : seal'[n] # Idle =>
                        seal'[n].c \in Born /\ Told(n, seal'[n])
<1>1. CASE UNCHANGED seal  BY <1>0, <1>1
<1>2. ASSUME NEW m \in Machines, NEW a \in Sealing \cup {Idle},
             seal' = [seal EXCEPT ![m] = a], a # Idle => a.c \in Born /\ Told(m, a)
      PROVE  Goal
  <2>1. seal' \in [Machines -> Sealing \cup {Idle}]  BY <1>0, <1>2
  <2>2. \A n \in Machines : seal'[n] = IF n = m THEN a ELSE seal[n]  BY <1>0, <1>2
  <2>3. ASSUME NEW n \in Machines, seal'[n] # Idle
        PROVE  seal'[n].c \in Born /\ Told(n, seal'[n])
    <3>1. CASE n = m  BY <1>2, <2>2, <2>3, <3>1
    <3>2. CASE n # m  BY <1>0, <2>2, <2>3, <3>2
    <3> QED  BY <3>1, <3>2
  <2> QED  BY <2>1, <2>3
<1>3. ASSUME NEW m \in Machines, seal' = [seal EXCEPT ![m] = Idle]  PROVE Goal
  <2> HIDE DEF Goal, Told
  <2> QED  BY <1>2, <1>3
<1>4. ASSUME NEW m \in Machines, NEW a \in Sealing, seal' = [seal EXCEPT ![m] = a],
             a.c \in Born, a.at # "archive"
      PROVE  Goal
  <2>1. Told(m, a)  BY <1>4
  <2> HIDE DEF Goal, Told
  <2> QED  BY <1>2, <1>4, <2>1
<1>5. ASSUME NEW m \in Machines, NEW c \in Ids, SealStart(m, c)  PROVE Goal
  <2> DEFINE a == [at |-> "generate", c |-> c]
  <2>1. a \in Sealing /\ a.c \in Born /\ a.at # "archive"
    BY <1>5 DEF SealStart, Known, Sealing
  <2>2. seal' = [seal EXCEPT ![m] = a]  BY <1>5 DEF SealStart
  <2> HIDE DEF a, Goal
  <2> QED  BY <1>4, <2>1, <2>2
<1>6. ASSUME NEW m \in Machines, SealGenerate(m)  PROVE Goal
  <2>1. seal[m] # Idle /\ seal[m].at = "generate"  BY <1>6 DEF SealGenerate
  <2>2. seal[m] \in Sealing /\ seal[m].c \in Ids  BY <2>1, RequestTypes
  <2> DEFINE a == [seal[m] EXCEPT !.at = "archive"]
  <2>3. a \in Sealing /\ a.c = seal[m].c  BY <2>1, <2>2 DEF Sealing
  <2>4. CASE seal' = [seal EXCEPT ![m] = Idle]  BY <1>3, <2>4
  <2>5. CASE /\ seal' = [seal EXCEPT ![m].at = "archive"]
             /\ rows' = IF seal[m].c \in Present(m)
                        THEN [rows EXCEPT ![m][seal[m].c].told = TRUE] ELSE rows
    <3>1. PICK c \in Ids : c = seal[m].c  BY <2>2
    <3>2. rows'[m][c] # NoRow => rows'[m][c].told
      <4>1. CASE c \in Present(m)
        <5>1. rows[m][c] \in Row  BY <4>1, PresentRow
        <5> DEFINE r == [rows[m][c] EXCEPT !.told = TRUE]
        <5>2. r.told  BY <5>1 DEF Row
        <5>3. rows' = [rows EXCEPT ![m][c] = r]  BY <2>5, <3>1, <4>1
        <5> HIDE DEF r
        <5>4. rows'[m][c] = r  BY <1>0, <5>3
        <5> QED  BY <5>2, <5>4
      <4>2. CASE c \notin Present(m)  BY <2>5, <3>1, <4>2 DEF Present
      <4> QED  BY <4>1, <4>2
    <3>3. a.c \in Born /\ Told(m, a)  BY <1>0, <2>1, <2>3, <3>1, <3>2
    <3>4. seal' = [seal EXCEPT ![m] = a]  BY <2>5
    <3> HIDE DEF a, Goal, Told
    <3> QED  BY <1>2, <2>3, <3>3, <3>4
  <2> QED  BY <1>6, <2>4, <2>5 DEF SealGenerate
<1>7. ASSUME NEW m \in Machines, SealArchive(m)  PROVE Goal
  <2>1. seal[m] # Idle  BY <1>7 DEF SealArchive
  <2>2. PICK c \in Ids : c = seal[m].c  BY <2>1, RequestTypes
  <2> DEFINE a == [at |-> "snapshot", c |-> c, loc |-> rows[m][c].loc]
  <2>3. CASE c \in Present(m) /\ seal' = [seal EXCEPT ![m] = a]
    <3>1. rows[m][c].loc \in Locs  BY <2>3, PresentRow
    <3>2. a \in Sealing /\ a.c = c /\ a.at # "archive"  BY <3>1 DEF Sealing
    <3> HIDE DEF a, Goal
    <3> QED  BY <1>0, <1>4, <2>1, <2>2, <2>3, <3>2
  <2>4. CASE seal' = [seal EXCEPT ![m] = Idle]  BY <1>3, <2>4
  <2> QED  BY <1>7, <2>2, <2>3, <2>4 DEF SealArchive
<1>8. ASSUME NEW m \in Machines, SealSnapshot(m)  PROVE Goal
  <2>1. seal[m] # Idle /\ seal[m].at = "snapshot"  BY <1>8 DEF SealSnapshot
  <2>2. seal[m] \in Sealing  BY <2>1, RequestTypes
  <2> DEFINE a == [seal[m] EXCEPT !.at = "sidecar"]
  <2>3. a \in Sealing /\ a.c = seal[m].c /\ a.at # "archive"  BY <2>1, <2>2 DEF Sealing
  <2>4. CASE seal' = [seal EXCEPT ![m].at = "sidecar"]
    <3>1. seal' = [seal EXCEPT ![m] = a]  BY <2>4
    <3> HIDE DEF a, Goal
    <3> QED  BY <1>0, <1>4, <2>1, <2>3, <3>1
  <2>5. CASE seal' = [seal EXCEPT ![m] = Idle]  BY <1>3, <2>5
  <2> QED  BY <1>8, <2>4, <2>5 DEF SealSnapshot
<1>9. ASSUME NEW m \in Machines, SealSidecar(m) \/ Crash(m)  PROVE Goal
  <2>1. seal' = [seal EXCEPT ![m] = Idle]  BY <1>9 DEF SealSidecar, Crash
  <2> QED  BY <1>3, <2>1
<1>10. UNCHANGED seal \/ \E m \in Machines :
         \/ \E c \in Ids : SealStart(m, c)
         \/ SealGenerate(m) \/ SealArchive(m) \/ SealSnapshot(m) \/ SealSidecar(m) \/ Crash(m)
  <2>1. CASE UNCHANGED vars  BY <2>1 DEF vars, requests
  <2>2. ASSUME NEW m \in Machines, MoveLegacy(m) \/ Stop(m) \/ BootStep(m)
        PROVE  UNCHANGED seal
    BY <2>2 DEF MoveLegacy, Stop, BootStep, Prune, InsertAndBackfill, requests
  <2>3. ASSUME NEW m \in Machines, NEW n \in Machines, NEW f \in Files, Deliver(m, n, f)
        PROVE  UNCHANGED seal
    BY <2>3 DEF Deliver, requests
  <2>4. ASSUME NEW m \in Machines, RequestStep(m)
        PROVE  \/ UNCHANGED seal
               \/ SealGenerate(m) \/ SealArchive(m) \/ SealSnapshot(m) \/ SealSidecar(m)
    BY <2>4 DEF RequestStep, AdoptCreate, AdoptImport, DeleteFiles, DeleteTombstone
  <2>5. ASSUME NEW m \in Machines, UserStep(m)
        PROVE  UNCHANGED seal \/ \E c \in Ids : SealStart(m, c)
    BY <2>5 DEF UserStep, AdoptStart, AdoptMatch, Unarchive, DeleteStart, requests
  <2> QED  BY <2>1, <2>2, <2>3, <2>4, <2>5 DEF Next
<1> HIDE DEF Goal
<1>11. Goal  BY <1>1, <1>5, <1>6, <1>7, <1>8, <1>9, <1>10 DEF Goal
<1> QED  BY <1>11 DEF Goal

\* A delete in flight is of a campaign that counts as deleted.
LEMMA DelStep ==
    ASSUME TypeOK, Known, Struck, [Next]_vars
    PROVE  /\ del' \in [Machines -> Deletion \cup {Idle}]
           /\ \A n \in Machines : del'[n] # Idle => del'[n].c \in struck'
<1>0. /\ del \in [Machines -> Deletion \cup {Idle}]
      /\ \A n \in Machines : del[n] # Idle => del[n].c \in struck
      /\ struck \subseteq struck'
  BY HistoryStep DEF TypeOK, Struck
<1> DEFINE Goal == /\ del' \in [Machines -> Deletion \cup {Idle}]
                   /\ \A n \in Machines : del'[n] # Idle => del'[n].c \in struck'
<1>1. CASE UNCHANGED del  BY <1>0, <1>1
<1>2. ASSUME NEW m \in Machines, NEW a \in Deletion \cup {Idle},
             del' = [del EXCEPT ![m] = a], a # Idle => a.c \in struck'
      PROVE  Goal
  <2>1. del' \in [Machines -> Deletion \cup {Idle}]  BY <1>0, <1>2
  <2>2. \A n \in Machines : del'[n] = IF n = m THEN a ELSE del[n]  BY <1>0, <1>2
  <2> QED  BY <1>0, <1>2, <2>1, <2>2
<1>3. ASSUME NEW m \in Machines, NEW c \in Ids, DeleteStart(m, c)  PROVE Goal
  <2> DEFINE a == [at |-> "files", c |-> c, loc |-> rows[m][c].loc]
  <2>1. c \in Present(m) /\ c \in struck' /\ del' = [del EXCEPT ![m] = a]
    BY <1>3 DEF DeleteStart
  <2>2. rows[m][c].loc \in Locs  BY <2>1, PresentRow
  <2>3. a \in Deletion /\ a.c = c  BY <2>2 DEF Deletion
  <2> HIDE DEF a, Goal
  <2> QED  BY <1>2, <2>1, <2>3
<1>4. ASSUME NEW m \in Machines, DeleteFiles(m)  PROVE Goal
  <2>1. del[m] # Idle  BY <1>4 DEF DeleteFiles
  <2>2. del[m] \in Deletion  BY <2>1, RequestTypes
  <2> DEFINE a == [del[m] EXCEPT !.at = "tombstone"]
  <2>3. a \in Deletion /\ a.c = del[m].c  BY <2>2 DEF Deletion
  <2>4. del' = [del EXCEPT ![m] = a]  BY <1>4 DEF DeleteFiles
  <2> HIDE DEF a, Goal
  <2> QED  BY <1>0, <1>2, <2>1, <2>3, <2>4
<1>5. ASSUME NEW m \in Machines, DeleteTombstone(m) \/ Crash(m)  PROVE Goal
  <2>1. del' = [del EXCEPT ![m] = Idle]  BY <1>5 DEF DeleteTombstone, Crash
  <2> HIDE DEF Goal
  <2> QED  BY <1>2, <2>1
<1>6. UNCHANGED del \/ \E m \in Machines :
        \/ \E c \in Ids : DeleteStart(m, c)
        \/ DeleteFiles(m) \/ DeleteTombstone(m) \/ Crash(m)
  <2>1. CASE UNCHANGED vars  BY <2>1 DEF vars, requests
  <2>2. ASSUME NEW m \in Machines, MoveLegacy(m) \/ Stop(m) \/ BootStep(m)
        PROVE  UNCHANGED del
    BY <2>2 DEF MoveLegacy, Stop, BootStep, Prune, InsertAndBackfill, requests
  <2>3. ASSUME NEW m \in Machines, NEW n \in Machines, NEW f \in Files, Deliver(m, n, f)
        PROVE  UNCHANGED del
    BY <2>3 DEF Deliver, requests
  <2>4. ASSUME NEW m \in Machines, RequestStep(m)
        PROVE  UNCHANGED del \/ DeleteFiles(m) \/ DeleteTombstone(m)
    BY <2>4 DEF RequestStep, AdoptCreate, AdoptImport, SealGenerate, SealArchive, SealSnapshot,
                SealSidecar
  <2>5. ASSUME NEW m \in Machines, UserStep(m)
        PROVE  UNCHANGED del \/ \E c \in Ids : DeleteStart(m, c)
    BY <2>5 DEF UserStep, AdoptStart, AdoptMatch, Unarchive, SealStart, requests
  <2> QED  BY <2>1, <2>2, <2>3, <2>4, <2>5 DEF Next
<1> HIDE DEF Goal
<1>7. Goal  BY <1>1, <1>3, <1>4, <1>5, <1>6 DEF Goal
<1> QED  BY <1>7 DEF Goal

\* A database disappears only with a deleted campaign.
LEMMA DatabaseStep ==
    ASSUME TypeOK, Known, Struck, [Next]_vars
    PROVE  /\ live' \in [Machines -> SUBSET Ids] /\ legacy' \in [Machines -> SUBSET Ids]
           /\ \A n \in Machines : legacy'[n] \subseteq Born
           /\ \A n \in Machines : \A c \in live[n] : c \in live'[n] \/ c \in struck
<1>0. /\ live \in [Machines -> SUBSET Ids] /\ legacy \in [Machines -> SUBSET Ids]
      /\ \A n \in Machines : legacy[n] \subseteq Born
  BY DEF TypeOK, Known
<1> DEFINE LiveGoal == /\ live' \in [Machines -> SUBSET Ids]
                       /\ \A n \in Machines : \A c \in live[n] : c \in live'[n] \/ c \in struck
           LegacyGoal == /\ legacy' \in [Machines -> SUBSET Ids]
                         /\ \A n \in Machines : legacy'[n] \subseteq Born
<1>1. ASSUME NEW m \in Machines, NEW c \in Ids, live' = [live EXCEPT ![m] = @ \cup {c}]
      PROVE  LiveGoal
  BY <1>0, <1>1
<1>2. ASSUME NEW m \in Machines, NEW S \in SUBSET struck, live' = [live EXCEPT ![m] = @ \ S]
      PROVE  LiveGoal
  BY <1>0, <1>2
<1>3. ASSUME NEW m \in Machines, NEW S \in SUBSET Ids, S \subseteq Born,
             legacy' = [legacy EXCEPT ![m] = S]
      PROVE  LegacyGoal
  BY <1>0, <1>3
<1>4. (UNCHANGED live => LiveGoal) /\ (UNCHANGED legacy => LegacyGoal)  BY <1>0
<1> HIDE DEF LiveGoal, LegacyGoal
<1>5. ASSUME NEW m \in Machines, NEW h \in Adopters, AdoptImport(m, h)
      PROVE  LiveGoal /\ LegacyGoal
  <2>1. adopt[m][h] # Idle /\ adopt[m][h].at = "upgrade"  BY <1>5 DEF AdoptImport
  <2>2. PICK c \in Ids : c = adopt[m][h].c  BY <2>1, RequestTypes
  <2>3. c \in Born  BY <2>1, <2>2 DEF Known
  <2>4. \/ live' = [live EXCEPT ![m] = @ \cup {c}] /\ UNCHANGED legacy
        \/ legacy' = [legacy EXCEPT ![m] = legacy[m] \cup {c}] /\ UNCHANGED live
        \/ UNCHANGED <<live, legacy>>
    BY <1>5, <2>2 DEF AdoptImport
  <2>5. legacy[m] \cup {c} \in SUBSET Ids /\ legacy[m] \cup {c} \subseteq Born
    BY <1>0, <2>3
  <2> QED  BY <1>1, <1>3, <1>4, <2>4, <2>5
<1>6. ASSUME NEW m \in Machines, DeleteFiles(m)  PROVE LiveGoal /\ LegacyGoal
  <2>1. del[m] # Idle  BY <1>6 DEF DeleteFiles
  <2>2. PICK c \in Ids : c = del[m].c  BY <2>1, RequestTypes
  <2>3. c \in struck  BY <2>1, <2>2 DEF Struck
  <2> DEFINE S == IF del[m].loc = "live" THEN {c} ELSE {}
             G == IF del[m].loc = "legacy" THEN legacy[m] \ {c} ELSE legacy[m]
  <2>4. S \in SUBSET struck /\ G \in SUBSET Ids /\ G \subseteq Born  BY <1>0, <2>3
  <2>5. UNCHANGED <<live, legacy>> \/
          /\ live' = [live EXCEPT ![m] = IF del[m].loc = "live" THEN @ \ {c} ELSE @]
          /\ legacy' = [legacy EXCEPT ![m] = G]
    BY <1>6, <2>2 DEF DeleteFiles, DropDatabase
  <2>6. UNCHANGED <<live, legacy>> \/
          (live' = [live EXCEPT ![m] = @ \ S] /\ legacy' = [legacy EXCEPT ![m] = G])
    BY <1>0, <2>5
  <2> HIDE DEF S, G
  <2> QED  BY <1>2, <1>3, <1>4, <2>4, <2>6
<1>7. ASSUME NEW m \in Machines, Prune(m)  PROVE LiveGoal /\ LegacyGoal
  <2> DEFINE S == {c \in Tombed(m) \cap Present(m) : rows[m][c].loc = "live"}
  <2>1. S \in SUBSET struck  BY TombedStruck
  <2>2. UNCHANGED live \/ live' = [live EXCEPT ![m] = @ \ S]  BY <1>7 DEF Prune
  <2>3. UNCHANGED legacy  BY <1>7 DEF Prune
  <2> HIDE DEF S
  <2> QED  BY <1>2, <1>4, <2>1, <2>2, <2>3
<1>8. ASSUME NEW m \in Machines, MoveLegacy(m)  PROVE LiveGoal /\ LegacyGoal
  <2>1. UNCHANGED live /\ legacy' = [legacy EXCEPT ![m] = {}]  BY <1>8 DEF MoveLegacy
  <2> QED  BY <1>3, <1>4, <2>1
<1>9. UNCHANGED <<live, legacy>> \/ \E m \in Machines :
        \/ \E h \in Adopters : AdoptImport(m, h)
        \/ DeleteFiles(m) \/ Prune(m) \/ MoveLegacy(m)
  <2>1. CASE UNCHANGED vars  BY <2>1 DEF vars
  <2>2. ASSUME NEW m \in Machines, Crash(m) \/ Stop(m) \/ InsertAndBackfill(m)
        PROVE  UNCHANGED <<live, legacy>>
    BY <2>2 DEF Crash, Stop, InsertAndBackfill
  <2>3. ASSUME NEW m \in Machines, NEW n \in Machines, NEW f \in Files, Deliver(m, n, f)
        PROVE  UNCHANGED <<live, legacy>>
    BY <2>3 DEF Deliver
  <2>4. ASSUME NEW m \in Machines, RequestStep(m)
        PROVE  \/ UNCHANGED <<live, legacy>> \/ DeleteFiles(m)
               \/ \E h \in Adopters : AdoptImport(m, h)
    BY <2>4 DEF RequestStep, AdoptCreate, SealGenerate, SealArchive, SealSnapshot, SealSidecar,
                DeleteTombstone
  <2>5. ASSUME NEW m \in Machines, UserStep(m)  PROVE UNCHANGED <<live, legacy>>
    BY <2>5 DEF UserStep, AdoptStart, AdoptMatch, Unarchive, SealStart, DeleteStart
  <2> QED  BY <2>1, <2>2, <2>3, <2>4, <2>5 DEF Next, BootStep
<1>10. LiveGoal /\ LegacyGoal  BY <1>4, <1>5, <1>6, <1>7, <1>8, <1>9
<1> QED  BY <1>10 DEF LiveGoal, LegacyGoal

-----------------------------------------------------------------------------
(* The inductive invariant and the theorems.                               *)

LEMMA InitInv == Init => IInv
<1> SUFFICES ASSUME Init PROVE IInv
  OBVIOUS
<1>1. PICK known \in {{}, Machines \ {Origin}} :
    /\ rows = [m \in Machines |-> [c \in Ids |->
          IF c \notin Old \/ m \notin known \cup {Origin} THEN NoRow
          ELSE [pt |-> NoPt, archived |-> TRUE,
                loc |-> IF m = Origin THEN "live" ELSE "legacy", told |-> TRUE]]]
    /\ live = [m \in Machines |-> IF m = Origin THEN Old ELSE {}]
    /\ legacy = [m \in Machines |-> IF m \in known THEN Old ELSE {}]
  BY DEF Init
<1>2. /\ arch = [m \in Machines |-> {}]
      /\ pend = [m \in Machines |-> [n \in Machines |-> {}]]
      /\ boot = [m \in Machines |-> "down"] /\ tombs = [m \in Machines |-> {}]
      /\ adopt = [m \in Machines |-> [h \in Adopters |-> Idle]]
      /\ seal = [m \in Machines |-> Idle] /\ del = [m \in Machines |-> Idle]
      /\ born = [c \in Ids |-> IF c \in Old THEN NoPt ELSE NoRow]
      /\ struck = {}
  BY DEF Init
<1>3. /\ \A loc \in {"live", "legacy"} :
           [pt |-> NoPt, archived |-> TRUE, loc |-> loc, told |-> TRUE] \in Row
      /\ Old \subseteq Ids
  BY LibraryAssumption DEF Row, Locs
<1>4. ASSUME NEW m \in Machines, NEW c \in Ids
      PROVE  /\ rows[m][c] \in Row \cup {NoRow}
             /\ rows[m][c] # NoRow => c \in Old /\ rows[m][c].told
  BY <1>1, <1>3
<1>5. rows \in [Machines -> [Ids -> Row \cup {NoRow}]]
  <2> DEFINE R(m, c) == IF c \notin Old \/ m \notin known \cup {Origin} THEN NoRow
          ELSE [pt |-> NoPt, archived |-> TRUE,
                loc |-> IF m = Origin THEN "live" ELSE "legacy", told |-> TRUE]
  <2>1. rows = [m \in Machines |-> [c \in Ids |-> R(m, c)]]  BY <1>1
  <2>2. \A m \in Machines, c \in Ids : R(m, c) \in Row \cup {NoRow}  BY <1>3
  <2> HIDE DEF R
  <2> QED  BY <2>1, <2>2
<1>6. live \in [Machines -> SUBSET Ids] /\ legacy \in [Machines -> SUBSET Ids]
      /\ \A m \in Machines : legacy[m] \subseteq Old
  BY <1>1, <1>3
<1>7. Old \subseteq Born  BY <1>2, <1>3, LibraryAssumption DEF Born
<1>8. TypeOK  BY <1>2, <1>5, <1>6 DEF TypeOK
<1>9. Known  BY <1>2, <1>4, <1>6, <1>7 DEF Known, Present
<1>10. Struck  BY <1>2 DEF Struck
<1>11. ToldFirst  BY <1>2 DEF ToldFirst
<1>12. DeletionStands  BY <1>2 DEF DeletionStands
<1>13. SealedIsTold  BY <1>4 DEF SealedIsTold, Present
<1> QED  BY <1>8, <1>9, <1>10, <1>11, <1>12, <1>13 DEF IInv

LEMMA NextInv == IInv /\ [Next]_vars => IInv'
<1> SUFFICES ASSUME IInv, [Next]_vars PROVE IInv'
  OBVIOUS
<1>0. TypeOK /\ Known /\ Struck /\ ToldFirst /\ DeletionStands /\ SealedIsTold  BY DEF IInv
<1>1. Conserved  BY <1>0, ArchStep
<1>2. RowsMove  BY RowsStep
<1>3. Born \subseteq Born' /\ struck \subseteq struck' /\ struck' \subseteq Born
  BY <1>0, HistoryStep
<1>4. TypeOK'
  BY <1>0, <1>1, <1>2, HistoryStep, TombsStep, AdoptStep, SealStep, DelStep, DatabaseStep
  DEF TypeOK, Conserved, RowsMove
<1>5. ASSUME NEW n \in Machines, NEW c \in Ids, rows'[n][c] # NoRow
      PROVE  /\ c \in Born'
             /\ rows'[n][c].archived => rows'[n][c].told
             /\ c \in Present(n) \/ c \notin Born
                  \/ (boot[n] = "insert" /\ c \notin tombs[n] /\ rows'[n][c].told)
             /\ (c \in Present(n) /\ rows[n][c].told) => rows'[n][c].told
  BY <1>0, <1>2, <1>3, <1>5 DEF RowsMove, RowFate, Known
<1>6. Known'
  <2>1. \A n \in Machines : Present(n)' \subseteq Born'  BY <1>5 DEF Present
  <2>2. \A n \in Machines : legacy'[n] \subseteq Born'  BY <1>0, <1>3, DatabaseStep
  <2>3. \A n \in Machines : \A f \in arch'[n] : f[1] \in Born'  BY <1>1, <1>3 DEF Conserved
  <2>4. \A n \in Machines : seal'[n] # Idle => seal'[n].c \in Born'  BY <1>0, <1>3, SealStep
  <2>5. \A n \in Machines, h \in Adopters :
          adopt'[n][h] # Idle /\ adopt'[n][h].at = "upgrade" => adopt'[n][h].c \in Born'
    BY <1>0, AdoptStep
  <2> QED  BY <1>3, <2>1, <2>2, <2>3, <2>4, <2>5 DEF Known
<1>7. Struck'
  <2>1. ASSUME NEW n \in Machines  PROVE tombs'[n] \subseteq struck'
    <3>1. tombs'[n] = tombs[n] \/ tombs'[n] = Tombed(n)  BY <1>0, TombsStep
    <3> QED  BY <1>0, <1>3, <3>1, TombedStruck DEF Struck
  <2>2. /\ \A n \in Machines : \A f \in arch'[n] : f[2] = "deleted" => f[1] \in struck'
        /\ \A n, o \in Machines : \A f \in pend'[n][o] : f \in arch'[n] \/ f[1] \in struck'
    BY <1>1, <1>3 DEF Conserved
  <2>3. \A n \in Machines : del'[n] # Idle => del'[n].c \in struck'  BY <1>0, DelStep
  <2> QED  BY <2>1, <2>2, <2>3 DEF Struck
<1>8. ToldFirst'
  <2> SUFFICES ASSUME NEW n \in Machines, seal'[n] # Idle, seal'[n].at = "archive",
                      seal'[n].c \in Present(n)'
               PROVE  rows'[n][seal'[n].c].told
    BY DEF ToldFirst
  <2>1. PICK c \in Ids : c = seal'[n].c  BY DEF Present
  <2>2. rows'[n][c] # NoRow  BY <2>1 DEF Present
  <2>3. c \in Born /\ (seal'[n] = seal[n] \/ (rows'[n][c] # NoRow => rows'[n][c].told))
    BY <1>0, <2>1, SealStep
  <2>4. CASE seal'[n] = seal[n]
    <3>1. c \in Present(n) => rows[n][c].told  BY <1>0, <2>1, <2>4 DEF ToldFirst
    <3> QED  BY <1>5, <2>1, <2>2, <2>3, <3>1
  <2> QED  BY <2>1, <2>2, <2>3, <2>4
<1>9. DeletionStands'
  <2> SUFFICES ASSUME NEW n \in Machines, boot'[n] # "down", NEW c \in tombs'[n],
                      c \in Present(n)'
               PROVE  FALSE
    BY DEF DeletionStands, Up
  <2>1. c \in Ids /\ rows'[n][c] # NoRow  BY DEF Present
  <2>2. tombs'[n] = tombs[n] /\ boot[n] # "down"  BY <1>0, <2>1, TombsStep
  <2>3. c \notin Present(n)  BY <1>0, <2>2 DEF DeletionStands, Up
  <2>4. c \in Born  BY <1>0, <2>2 DEF Struck, Known
  <2> QED  BY <1>5, <2>1, <2>2, <2>3, <2>4
<1>10. SealedIsTold'  BY <1>5 DEF SealedIsTold, Present
<1> QED  BY <1>4, <1>6, <1>7, <1>8, <1>9, <1>10 DEF IInv

THEOREM Inductive == Spec => []IInv
<1>1. Init => IInv  BY InitInv
<1>2. IInv /\ [Next]_vars => IInv'  BY NextInv
<1> QED  BY <1>1, <1>2, PTL DEF Spec

\* A startup that saw a campaign's tombstone leaves the machine without its row,
\* and nothing brings the row back while the program runs
\* (bootstrap_archived_snapshots), however many machines exchange files.
THEOREM DeletionsStand == Spec => []DeletionStands
<1>1. IInv => DeletionStands  BY DEF IInv
<1> QED  BY <1>1, Inductive, PTL

\* An archived campaign has its closing chronicle (complete_campaign archives
\* only what it has told), whatever interleaves with the ceremony.
THEOREM SealsTold == Spec => []SealedIsTold
<1>1. IInv => SealedIsTold  BY DEF IInv
<1> QED  BY <1>1, Inductive, PTL

\* A step that loses a database or a snapshot is a step on a campaign someone
\* deleted: pruning, re-homing, deliveries in any order and crashes lose none.
THEOREM FilesKept == Spec => KeptUnlessDeleted
<1> DEFINE Kept == \A c \in Ids \ struck' :
    \A m \in Machines : /\ c \in live[m] => c \in live'[m]
                        /\ arch[m] \cap Pair(c) \subseteq arch'[m]
<1>1. IInv /\ [Next]_vars => [Kept]_vars
  <2> SUFFICES ASSUME IInv, [Next]_vars, NEW c \in Ids, c \notin struck', NEW m \in Machines
               PROVE  /\ c \in live[m] => c \in live'[m]
                      /\ arch[m] \cap Pair(c) \subseteq arch'[m]
    OBVIOUS
  <2>0. TypeOK /\ Known /\ Struck  BY DEF IInv
  <2>1. c \notin struck  BY <2>0, HistoryStep
  <2>2. c \in live[m] => c \in live'[m]  BY <2>0, <2>1, DatabaseStep
  <2>3. \A f \in arch[m] : f \in arch'[m] \/ f[1] \in struck  BY <2>0, ArchStep DEF Conserved
  <2>4. \A f \in Pair(c) : f[1] = c  BY PairFiles
  <2> QED  BY <2>1, <2>2, <2>3, <2>4
<1> QED  BY <1>1, Inductive, PTL DEF Spec, KeptUnlessDeleted
=============================================================================
