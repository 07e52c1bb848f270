------------------------ MODULE MCNarrativeScheduler ------------------------
(***************************************************************************)
(* Instances of NarrativeScheduler for TLC: schedulers of one campaign,    *)
(* its save-tail's and the one the regenerate endpoint may have built for  *)
(* it (api/dependencies.py:139-172).  Either may come first and they run   *)
(* the same code, so they are interchangeable: the one scheduler Init      *)
(* names, as owner of ids not handed out, is read by no action and no      *)
(* property.                                                               *)
(***************************************************************************)
EXTENDS NarrativeScheduler, TLC

CampOfAll == [s \in Scheds |-> CHOOSE c \in Camps : TRUE]

\* the first character has a row, the second, if there is one, has none
KnownAll == Camps \X {1}

Interchangeable == Permutations(Scheds)
=============================================================================
