------------------------------ MODULE MCChronicle ------------------------------
(* The Chronicle with two tracked characters, one untracked one, and two perks  *)
(* of one lifestyle beside one the static table does not know.                  *)
EXTENDS Chronicle
MCLifestyleOf == <<"martial", "martial", None>>
==============================================================================
