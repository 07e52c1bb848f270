--------------------------- MODULE MCTrackedLives ---------------------------
\* An empire, a duchy under it and a county under the duchy; the empire is its
\* own liege, so the walk up the chain meets a cycle.  The founder is a duke.
EXTENDS TrackedLives

CONSTANTS Count

MCTitles  == {"e", "d", "c"}
MCTier    == [e |-> "empire", d |-> "duchy", c |-> "county"]
MCLiege   == [e |-> "e", d |-> "e", c |-> "d"]
MCHolder0 == [e |-> Count, d |-> Founder, c |-> Count]
=============================================================================
