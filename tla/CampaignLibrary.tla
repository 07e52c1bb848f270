--------------------------- MODULE CampaignLibrary ---------------------------
(***************************************************************************)
(* The campaign library: one registry of campaigns per machine, the        *)
(* per-campaign databases beside it, and the archive directory that        *)
(* carries sealed campaigns (and their deletions) to the user's other      *)
(* machines.                                                               *)
(*                                                                         *)
(*   rows     the registry's campaigns table, per machine                  *)
(*   live     the per-campaign database files under the data directory     *)
(*   legacy   snapshots still in the directory used before the archive     *)
(*            directory became configurable                                *)
(*   arch     the archive directory: <<c, "db">> the slimmed snapshot,     *)
(*            <<c, "json">> its sidecar, <<c, "deleted">> a tombstone      *)
(*   pend     pend[m][n]: files changed on m that the sync vehicle (git, a *)
(*            synced folder) has still to bring to n, one at a time and in *)
(*            any order                                                    *)
(*   boot, tombs    the startup thread: bootstrap_archived_snapshots       *)
(*            reads the tombstones, prunes, then inserts; then             *)
(*            backfill_archived_campaigns.  Requests are served meanwhile. *)
(*   adopt, seal, del   requests in flight: adopt-from-save, the closing   *)
(*            ceremony and the Library's delete                            *)
(*   born     the playthrough of every campaign id handed out so far       *)
(*            (uuids are never reused)                                     *)
(*   upsets   faults so far: a crash, or a step of a request failing       *)
(*   struck   the campaigns a delete has removed                           *)
(***************************************************************************)
EXTENDS Naturals, FiniteSets

CONSTANTS Machines, Homes, Ids, Old, Pts, Adopters, MaxRequests,
          Upsets, MaxUpsets, NoRow, NoPt, Idle

Locs == {"live", "legacy", "arch"}
Row  == [pt : Pts \cup {NoPt}, archived : BOOLEAN, loc : Locs, told : BOOLEAN]

ASSUME LibraryAssumption ==
    /\ Old \subseteq Ids
    /\ NoRow \notin Row /\ NoRow \notin Pts \cup {NoPt}

VARIABLES rows, live, legacy, arch, pend, boot, tombs,
          adopt, seal, del, born, struck, upsets

requests == <<adopt, seal, del>>
startup  == <<boot, tombs>>
history  == <<born, struck, upsets>>
vars == <<rows, live, legacy, arch, pend, startup, requests, history>>

Exts  == {"db", "json", "deleted"}
Files == Ids \X Exts

Present(m) == {c \in Ids : rows[m][c] # NoRow}
Up(m) == boot[m] # "down"

\* Is the database file a db_path names still there?
DbAt(m, c, loc) == CASE loc = "live"   -> c \in live[m]
                     [] loc = "legacy" -> c \in legacy[m]
                     [] loc = "arch"   -> <<c, "db">> \in arch[m]

\* A change to the archive directory; the sync vehicle sees it.
Queue(m, fs) == pend' = [pend EXCEPT ![m] = [n \in Machines |->
                            IF n = m THEN {} ELSE @[n] \cup fs]]
Write(m, fs) == arch' = [arch EXCEPT ![m] = @ \cup fs] /\ Queue(m, fs)
Unlink(m, fs) == arch' = [arch EXCEPT ![m] = @ \ fs] /\ Queue(m, fs \cap arch[m])
Pair(c) == {<<c, "db">>, <<c, "json">>}

\* A fault of kind k strikes; MaxUpsets bounds their number.
Fault(k) == k \in Upsets /\ upsets < MaxUpsets /\ upsets' = upsets + 1

\* The bound on requests in flight at once, over all machines.
InFlight == {<<"seal", m>> : m \in {i \in Machines : seal[i] # Idle}}
            \cup {<<"del", m>> : m \in {i \in Machines : del[i] # Idle}}
            \cup {x \in Machines \X Adopters : adopt[x[1]][x[2]] # Idle}
Serving(m) == Up(m) /\ Cardinality(InFlight) < MaxRequests

(***************************************************************************)
(* Adoption: resolve_campaign_for_save looks for an active campaign of     *)
(* the playthrough, refuses to fork an archived one, and creates a row in  *)
(* a transaction of its own; the database is made by the upgrade that      *)
(* follows.                                                                *)
(***************************************************************************)
Active(m, p)   == {c \in Present(m) : rows[m][c].pt = p /\ ~rows[m][c].archived}
Archived(m, p) == {c \in Present(m) : rows[m][c].pt = p /\ rows[m][c].archived}

Resolve(m, p) ==
    CASE p = NoPt           -> "create"
      [] Active(m, p) # {}  -> "match"
      [] Archived(m, p) # {} -> "conflict"
      [] OTHER              -> "create"

\* The bound: a create begins only while an id is left for it.
Creating == {x \in Machines \X Adopters :
                adopt[x[1]][x[2]] # Idle /\ adopt[x[1]][x[2]].at = "create"}
IdLeft == Cardinality(Creating) < Cardinality({c \in Ids : born[c] = NoRow})

AdoptStart(m, h, p) ==
    /\ Serving(m) /\ adopt[m][h] = Idle /\ IdLeft
    /\ Resolve(m, p) = "create"
    /\ adopt' = [adopt EXCEPT ![m][h] = [at |-> "create", pt |-> p]]
    /\ UNCHANGED <<rows, live, legacy, arch, pend, startup, seal, del, history>>

AdoptMatch(m, h, p) ==
    /\ Serving(m) /\ adopt[m][h] = Idle
    /\ Resolve(m, p) = "match"
    /\ \E c \in Active(m, p) :
          adopt' = [adopt EXCEPT ![m][h] =
                       [at |-> "upgrade", c |-> c, loc |-> rows[m][c].loc]]
    /\ UNCHANGED <<rows, live, legacy, arch, pend, startup, seal, del, history>>

\* _create_from_snap; names are left out
AdoptCreate(m, h) ==
    /\ adopt[m][h] # Idle /\ adopt[m][h].at = "create"
    /\ \E c \in {i \in Ids : born[i] = NoRow} :
          /\ rows' = [rows EXCEPT ![m][c] =
                [pt |-> adopt[m][h].pt, archived |-> FALSE,
                 loc |-> "live", told |-> FALSE]]
          /\ born' = [born EXCEPT ![c] = adopt[m][h].pt]
          /\ adopt' = [adopt EXCEPT ![m][h] =
                       [at |-> "upgrade", c |-> c, loc |-> "live"]]
    /\ UNCHANGED <<live, legacy, arch, pend, startup, seal, del, struck, upsets>>

\* _alembic_upgrade and import_save; the upgrade creates a missing file.
\* A failure leaves the row behind without a database.
AdoptImport(m, h) ==
    /\ adopt[m][h] # Idle /\ adopt[m][h].at = "upgrade"
    /\ LET c == adopt[m][h].c IN
          \/ /\ adopt[m][h].loc = "live"
             /\ live' = [live EXCEPT ![m] = @ \cup {c}]
             /\ UNCHANGED <<legacy, arch, pend, upsets>>
          \/ /\ adopt[m][h].loc = "legacy"
             /\ legacy' = [legacy EXCEPT ![m] = @ \cup {c}]
             /\ UNCHANGED <<live, arch, pend, upsets>>
          \/ /\ adopt[m][h].loc = "arch"
             /\ Write(m, {<<c, "db">>})
             /\ UNCHANGED <<live, legacy, upsets>>
          \/ /\ Fault("upgrade")
             /\ UNCHANGED <<live, legacy, arch, pend>>
    /\ adopt' = [adopt EXCEPT ![m][h] = Idle]
    /\ UNCHANGED <<rows, startup, seal, del, born, struck>>

Unarchive(m, c) ==
    /\ Up(m) /\ c \in Present(m) /\ rows[m][c].archived
    /\ rows' = [rows EXCEPT ![m][c].archived = FALSE]
    /\ UNCHANGED <<live, legacy, arch, pend, startup, requests, history>>

(***************************************************************************)
(* The closing ceremony, POST /complete.  The chronicle is generated with  *)
(* no database held, so everything else may happen during the wait; the    *)
(* updates that follow go by id and do nothing when the row has gone.      *)
(***************************************************************************)
SealStart(m, c) ==
    /\ Serving(m) /\ seal[m] = Idle
    /\ c \in Present(m) /\ ~rows[m][c].archived
    /\ seal' = [seal EXCEPT ![m] = [at |-> "generate", c |-> c]]
    /\ UNCHANGED <<rows, live, legacy, arch, pend, startup, adopt, del, history>>

\* Faulty variant: seals although the provider failed.
SealGenerateRegardless(m) ==
    /\ seal[m] # Idle /\ seal[m].at = "generate"
    /\ seal' = [seal EXCEPT ![m].at = "archive"]
    /\ \/ Fault("provider") /\ UNCHANGED rows
       \/ UNCHANGED upsets /\ rows' = IF seal[m].c \in Present(m)
                                     THEN [rows EXCEPT ![m][seal[m].c].told = TRUE] ELSE rows
    /\ UNCHANGED <<live, legacy, arch, pend, startup, adopt, del, born, struck>>

\* A failed generation is a 502 and leaves the campaign active.
SealGenerate(m) ==
    /\ seal[m] # Idle /\ seal[m].at = "generate"
    /\ \/ /\ Fault("provider")
          /\ seal' = [seal EXCEPT ![m] = Idle]
          /\ UNCHANGED rows
       \/ /\ UNCHANGED upsets
          /\ seal' = [seal EXCEPT ![m].at = "archive"]
          /\ rows' = IF seal[m].c \in Present(m)
                     THEN [rows EXCEPT ![m][seal[m].c].told = TRUE] ELSE rows
    /\ UNCHANGED <<live, legacy, arch, pend, startup, adopt, del, born, struck>>

\* archive_campaign and the re-fetch; a row that disappeared is an error.
SealArchive(m) ==
    /\ seal[m] # Idle /\ seal[m].at = "archive"
    /\ LET c == seal[m].c IN
          IF c \in Present(m)
          THEN /\ rows' = [rows EXCEPT ![m][c].archived = TRUE]
               /\ seal' = [seal EXCEPT ![m] =
                              [at |-> "snapshot", c |-> c, loc |-> rows[m][c].loc]]
          ELSE /\ seal' = [seal EXCEPT ![m] = Idle]
               /\ UNCHANGED rows
    /\ UNCHANGED <<live, legacy, arch, pend, startup, adopt, del, history>>

\* export_sealed_campaign, on a worker thread: the snapshot, then the
\* sidecar.  A missing source database is reported, never forged.
SealSnapshot(m) ==
    /\ seal[m] # Idle /\ seal[m].at = "snapshot"
    /\ IF DbAt(m, seal[m].c, seal[m].loc)
       THEN /\ Write(m, {<<seal[m].c, "db">>})
            /\ seal' = [seal EXCEPT ![m].at = "sidecar"]
       ELSE /\ seal' = [seal EXCEPT ![m] = Idle]
            /\ UNCHANGED <<arch, pend>>
    /\ UNCHANGED <<rows, live, legacy, startup, adopt, del, history>>

SealSidecar(m) ==
    /\ seal[m] # Idle /\ seal[m].at = "sidecar"
    /\ \/ Write(m, {<<seal[m].c, "json">>}) /\ UNCHANGED upsets
       \/ Fault("sidecar") /\ UNCHANGED <<arch, pend>>
    /\ seal' = [seal EXCEPT ![m] = Idle]
    /\ UNCHANGED <<rows, live, legacy, startup, adopt, del, born, struck>>

(***************************************************************************)
(* The Library's delete.  The route finds the campaign by its name,        *)
(* archived rows included (names are left out: each has its own), removes  *)
(* the row with its tracked and suppressed rows, then the database, then   *)
(* the snapshot pair, and last writes the tombstone that carries the       *)
(* deletion to the other machines.                                         *)
(***************************************************************************)
DeleteStart(m, c) ==
    /\ Serving(m) /\ del[m] = Idle
    /\ c \in Present(m)
    /\ rows' = [rows EXCEPT ![m][c] = NoRow]
    /\ del' = [del EXCEPT ![m] = [at |-> "files", c |-> c, loc |-> rows[m][c].loc]]
    /\ struck' = struck \cup {c}
    /\ UNCHANGED <<live, legacy, arch, pend, startup, adopt, seal, born, upsets>>

\* The database, then the snapshot and its sidecar.  A lock that outlives the
\* retries is only logged; one on the pair leaves the rest of it.
DropDatabase(m) ==
    /\ live' = [live EXCEPT ![m] = IF del[m].loc = "live" THEN @ \ {del[m].c} ELSE @]
    /\ legacy' = [legacy EXCEPT ![m] = IF del[m].loc = "legacy" THEN @ \ {del[m].c} ELSE @]

DeleteFiles(m) ==
    /\ del[m] # Idle /\ del[m].at = "files"
    /\ LET pair == Pair(del[m].c) IN
          \/ UNCHANGED upsets /\ DropDatabase(m) /\ Unlink(m, pair)
          \/ Fault("lock") /\ UNCHANGED <<live, legacy>> /\ Unlink(m, pair)
          \/ /\ Fault("lock") /\ DropDatabase(m)
             /\ \E cut \in {{}, {<<del[m].c, "db">>}} : Unlink(m, cut)
    /\ del' = [del EXCEPT ![m].at = "tombstone"]
    /\ UNCHANGED <<rows, startup, adopt, seal, born, struck>>

\* Faulty variant: the tombstone is not brought to the other machines.
DeleteTombstoneUnshared(m) ==
    /\ del[m] # Idle /\ del[m].at = "tombstone"
    /\ arch' = [arch EXCEPT ![m] = @ \cup {<<del[m].c, "deleted">>}]
    /\ del' = [del EXCEPT ![m] = Idle]
    /\ UNCHANGED <<rows, live, legacy, pend, startup, adopt, seal, history>>

\* A tombstone that cannot be written is only logged.
DeleteTombstone(m) ==
    /\ del[m] # Idle /\ del[m].at = "tombstone"
    /\ \/ Write(m, {<<del[m].c, "deleted">>}) /\ UNCHANGED upsets
       \/ Fault("tombstone") /\ UNCHANGED <<arch, pend>>
    /\ del' = [del EXCEPT ![m] = Idle]
    /\ UNCHANGED <<rows, live, legacy, startup, adopt, seal, born, struck>>

(***************************************************************************)
(* Startup, on a worker thread while requests are served.                  *)
(***************************************************************************)
Tombed(m) == {c \in Ids : <<c, "deleted">> \in arch[m]}

\* Faulty variant: forgets the directory used before.
StaleCurrentOnly(m) == {c \in Present(m) \ Tombed(m) :
                /\ ~DbAt(m, c, rows[m][c].loc)
                /\ rows[m][c].loc = "arch"}

\* The row's file is gone, and it was a snapshot (in the archive directory
\* or the old one) or the archive directory has the campaign now.
Stale(m) == {c \in Present(m) \ Tombed(m) :
                /\ ~DbAt(m, c, rows[m][c].loc)
                /\ rows[m][c].loc # "live" \/ <<c, "db">> \in arch[m]}

\* Faulty variant: deletes the files of the rows it drops.
PruneFilesToo(m) ==
    /\ boot[m] = "down"
    /\ LET dead == (Tombed(m) \cap Present(m)) \cup Stale(m) IN
          /\ rows' = [rows EXCEPT ![m] =
                [c \in Ids |-> IF c \in dead THEN NoRow ELSE @[c]]]
          /\ Unlink(m, UNION {Pair(c) : c \in dead})
          /\ live' = [live EXCEPT ![m] = @ \ {c \in dead : rows[m][c].loc = "live"}]
    /\ tombs' = [tombs EXCEPT ![m] = Tombed(m)]
    /\ boot' = [boot EXCEPT ![m] = "insert"]
    /\ UNCHANGED <<legacy, requests, history>>

\* A tombstoned campaign goes with its files; a stale row goes alone.  Nothing
\* is looked at where there is no archive directory, and an empty one may be none.
Prune(m) ==
    /\ boot[m] = "down"
    /\ LET dead == Tombed(m) \cap Present(m) IN
          /\ \E stale \in {Stale(m), {}} :
                /\ stale = Stale(m) \/ arch[m] = {}
                /\ rows' = [rows EXCEPT ![m] =
                      [c \in Ids |-> IF c \in dead \cup stale THEN NoRow ELSE @[c]]]
          /\ \/ /\ UNCHANGED upsets
                /\ Unlink(m, UNION {Pair(c) : c \in dead})
                /\ live' = [live EXCEPT ![m] = @ \ {c \in dead : rows[m][c].loc = "live"}]
             \/ Fault("lock") /\ UNCHANGED <<arch, pend, live>>
    /\ tombs' = [tombs EXCEPT ![m] = Tombed(m)]
    /\ boot' = [boot EXCEPT ![m] = "insert"]
    /\ UNCHANGED <<legacy, requests, born, struck>>

\* Faulty variant: does not look at the tombstones.
DiscoveredAll(m) == {c \in Ids \ Present(m) : Pair(c) \subseteq arch[m]}

\* Sidecars with their snapshot, not tombstoned when the thread looked, and
\* not known yet.
Discovered(m) == {c \in Ids \ (tombs[m] \cup Present(m)) : Pair(c) \subseteq arch[m]}

\* backfill_archived_campaigns: only this machine's own seals go out.
Unexported(m) == {c \in Present(m) \ Tombed(m) :
                     /\ rows[m][c].archived
                     /\ rows[m][c].loc = "live" /\ c \in live[m]
                     /\ <<c, "db">> \notin arch[m]}

\* The row a sidecar makes: always archived, its database the snapshot.
FromSidecar(c) == [pt |-> born[c], archived |-> TRUE, loc |-> "arch", told |-> TRUE]

InsertAndBackfill(m) ==
    /\ boot[m] = "insert"
    /\ rows' = [rows EXCEPT ![m] = [c \in Ids |->
          IF c \in Discovered(m)
          THEN FromSidecar(c)
          ELSE @[c]]]
    /\ \/ Write(m, UNION {Pair(c) : c \in Unexported(m)}) /\ UNCHANGED upsets
       \/ Fault("sidecar") /\ Write(m, {<<c, "db">> : c \in Unexported(m)})
    /\ boot' = [boot EXCEPT ![m] = "up"]
    /\ UNCHANGED <<live, legacy, tombs, requests, born, struck>>

Quiet(m) == seal[m] = Idle /\ del[m] = Idle /\ \A h \in Adopters : adopt[m][h] = Idle

Stop(m) ==
    /\ boot[m] = "up" /\ Quiet(m)
    /\ boot' = [boot EXCEPT ![m] = "down"]
    /\ UNCHANGED <<rows, live, legacy, arch, pend, tombs, requests, history>>

Crash(m) ==
    /\ Fault("crash") /\ Up(m)
    /\ boot' = [boot EXCEPT ![m] = "down"]
    /\ adopt' = [adopt EXCEPT ![m] = [h \in Adopters |-> Idle]]
    /\ seal' = [seal EXCEPT ![m] = Idle]
    /\ del' = [del EXCEPT ![m] = Idle]
    /\ UNCHANGED <<rows, live, legacy, arch, pend, tombs, born, struck>>

(***************************************************************************)
(* The sync vehicle and the user's own hands.                              *)
(***************************************************************************)
\* m's version of f reaches n, over whatever n had done to the file itself.
Deliver(m, n, f) ==
    /\ f \in pend[m][n]
    /\ arch' = [arch EXCEPT ![n] = IF f \in arch[m] THEN @ \cup {f} ELSE @ \ {f}]
    /\ pend' = [pend EXCEPT ![m][n] = @ \ {f}, ![n][m] = @ \ {f}]
    /\ UNCHANGED <<rows, live, legacy, startup, requests, history>>

\* The command the startup warning prints, run while the program is down.
MoveLegacy(m) ==
    /\ boot[m] = "down" /\ legacy[m] # {}
    /\ Write(m, UNION {Pair(c) : c \in legacy[m]})
    /\ legacy' = [legacy EXCEPT ![m] = {}]
    /\ UNCHANGED <<rows, live, startup, requests, history>>

Origin == CHOOSE m \in Machines : TRUE

\* Old: campaigns sealed before the archive directory moved.  The origin reads
\* its own database; a machine that knew them reads a snapshot in the old
\* directory, and another one has not heard of them.
Init == \E known \in {{}, Machines \ {Origin}} :
    /\ rows = [m \in Machines |-> [c \in Ids |->
          IF c \notin Old \/ m \notin known \cup {Origin} THEN NoRow
          ELSE [pt |-> NoPt, archived |-> TRUE,
                loc |-> IF m = Origin THEN "live" ELSE "legacy", told |-> TRUE]]]
    /\ live = [m \in Machines |-> IF m = Origin THEN Old ELSE {}]
    /\ legacy = [m \in Machines |-> IF m \in known THEN Old ELSE {}]
    /\ arch = [m \in Machines |-> {}]
    /\ pend = [m \in Machines |-> [n \in Machines |-> {}]]
    /\ boot = [m \in Machines |-> "down"] /\ tombs = [m \in Machines |-> {}]
    /\ adopt = [m \in Machines |-> [h \in Adopters |-> Idle]]
    /\ seal = [m \in Machines |-> Idle] /\ del = [m \in Machines |-> Idle]
    /\ born = [c \in Ids |-> IF c \in Old THEN NoPt ELSE NoRow]
    /\ struck = {} /\ upsets = 0

RequestStep(m) ==
    \/ \E h \in Adopters : AdoptCreate(m, h) \/ AdoptImport(m, h)
    \/ SealGenerate(m) \/ SealArchive(m) \/ SealSnapshot(m) \/ SealSidecar(m)
    \/ DeleteFiles(m) \/ DeleteTombstone(m)

BootStep(m) == Prune(m) \/ InsertAndBackfill(m)

UserStep(m) ==
    \/ /\ m \in Homes
       /\ \E h \in Adopters, p \in Pts : AdoptStart(m, h, p) \/ AdoptMatch(m, h, p)
    \/ \E c \in Ids : Unarchive(m, c) \/ SealStart(m, c) \/ DeleteStart(m, c)

Next == \E m \in Machines :
    \/ RequestStep(m) \/ BootStep(m) \/ UserStep(m)
    \/ Stop(m) \/ Crash(m) \/ MoveLegacy(m)
    \/ \E n \in Machines, f \in Files : Deliver(m, n, f)

Spec == Init /\ [][Next]_vars

\* The vehicle delivers, requests and the startup thread run on, and every
\* machine is restarted now and then.
Fairness == \A m \in Machines :
    /\ WF_vars(RequestStep(m)) /\ WF_vars(BootStep(m)) /\ SF_vars(Stop(m))
    /\ \A n \in Machines \ {m}, f \in Files : WF_vars(Deliver(m, n, f))

FairSpec == Spec /\ Fairness

-----------------------------------------------------------------------------
\* A startup that saw a campaign's tombstone leaves the machine without a row
\* for it, and nothing brings the row back: not a sidecar that arrives late or
\* lingers, not a snapshot re-exported elsewhere (bootstrap_archived_snapshots
\* and the guard against resurrection it carries).
DeletionStands == \A m \in Machines :
    Up(m) => tombs[m] \cap Present(m) = {}

\* A campaign's database, and every copy of its snapshot, disappear only after
\* someone deleted that campaign: pruning a stale row, re-homing a
\* moved archive or a crash never costs data.
KeptUnlessDeleted == [][\A c \in Ids \ struck' :
    \A m \in Machines : /\ c \in live[m] => c \in live'[m]
                        /\ arch[m] \cap Pair(c) \subseteq arch'[m]]_vars

\* A sealed campaign has its closing chronicle: the ceremony archives only what
\* it has written, whatever else happens to the row while the provider works.
SealedIsTold == \A m \in Machines : \A c \in Present(m) :
    rows[m][c].archived => rows[m][c].told

\* A card whose snapshot is gone (its archive moved, or the file went) never
\* stays in the Library: a later startup re-homes or drops it.
BrokenCardsHeal == \A m \in Machines, c \in Ids :
    []<>~(c \in Present(m) /\ rows[m][c].loc # "live" /\ ~DbAt(m, c, rows[m][c].loc))

\* What is decided on one machine reaches the others, whatever order the files
\* travel in.  A campaign tombstoned on any machine ends up gone from every
\* machine's Library for good; one that stays sealed on its own machine is in
\* every machine's Library again and again, whoever removes a copy, unless its
\* export was cut off between snapshot and sidecar.
LibrariesConverge == \A c \in Ids :
    /\ (\E m \in Machines : c \in Tombed(m)) ~> [](\A m \in Machines : c \notin Present(m))
    /\ \A m \in Machines :
         <>[](/\ c \in Present(m) /\ rows[m][c].archived
              /\ rows[m][c].loc = "live" /\ c \in live[m]
              /\ <<c, "db">> \in arch[m] => <<c, "json">> \in arch[m])
           => []<>(\A n \in Machines : c \in Present(n))
=============================================================================
