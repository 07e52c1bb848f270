----------------------------- MODULE MCSaveTail -----------------------------
(***************************************************************************)
(* Instances of SaveTail for TLC: what the game writes.                    *)
(***************************************************************************)
EXTENDS SaveTail

Own(d)   == [pt |-> "own", date |-> d]
Other(d) == [pt |-> "other", date |-> d]

\* the user plays this campaign all along, or another one in between, dated later
MixedScripts == {<<Own(1), Own(2), Own(3)>>, <<Own(1), Other(3), Own(2)>>}
=============================================================================
