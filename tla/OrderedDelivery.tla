-------------------------- MODULE OrderedDelivery --------------------------
(***************************************************************************)
(* What the parse pipeline of the save-tail promises its consumer          *)
(* (src/chronicler/util/async_pipeline.py, the docstring): the saves       *)
(* submitted, numbered 1, 2, ..., come out one by one in that order, and   *)
(* none waits for a later one to be submitted.                             *)
(***************************************************************************)
EXTENDS Integers, Sequences

VARIABLES
    sent,   \* how many were submitted
    got,    \* what has come out
    ended   \* no more comes out

dvars == <<sent, got, ended>>

DInit == sent = 0 /\ got = <<>> /\ ended = FALSE

Submit ==
    /\ sent' = sent + 1
    /\ UNCHANGED <<got, ended>>

Deliver ==
    /\ ~ended /\ Len(got) < sent
    /\ got' = Append(got, Len(got) + 1)
    /\ UNCHANGED <<sent, ended>>

End ==
    /\ ~ended /\ ended' = TRUE
    /\ UNCHANGED <<sent, got>>

DNext == Submit \/ Deliver \/ End

DSpec == DInit /\ [][DNext]_dvars

FairDSpec == DSpec /\ WF_dvars(Deliver)
=============================================================================
