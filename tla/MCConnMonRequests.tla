--------------------------- MODULE MCConnMonRequests ---------------------------
(***************************************************************************)
(* Model-checking instance of ConnMonRequests. A scenario, chosen at the   *)
(* start, bounds what the environment and the clients do:                  *)
(*   table: an access point is started up to twice, sessions listen  *)
(*          and enumerate, and nobody asks;                                *)
(*   ask:   a connection lives and ends under questions of two sessions;   *)
(*   stop:  two connections are stopped, alone and together.               *)
(***************************************************************************)
EXTENDS ConnMonRequests, TLC

CONSTANTS First, Listener, Scenarios

VARIABLE scenario

mcVars == <<allVars, scenario>>

In(sc) == scenario = sc

\* What a scenario leaves out of the next state.
Within ==
  CASE In("table") ->
         /\ \A iap \in Iaps \ {First} : starts'[iap] = 0
         /\ \A s \in Sessions : pending'[s] = NoRequest
         /\ stop' = stop
         /\ \A id \in Ids : activity'[id] # "continuous"
         /\ TableStep => \A id \in Ids : timers[id] = 0
    [] In("ask") ->
         /\ \A iap \in Iaps : starts'[iap] <= IF iap = First THEN 1 ELSE 0
         /\ stop' = stop \/ Removed # {}
         /\ listening' \subseteq {Listener}
    [] In("stop") ->
         /\ \A iap \in Iaps : starts'[iap] <= starts'[First] /\ starts'[iap] <= 1
         /\ Cardinality(listening') = 0
         /\ volume' = {}
         /\ \A id \in Ids : activity'[id] = "none"

MCInit == Init /\ scenario \in Scenarios

MCNext == Next /\ Within /\ UNCHANGED scenario

MCSpec == MCInit /\ [][MCNext]_mcVars

MCFairSpec == MCSpec /\ Fairness

Symmetry == Permutations(Sessions)
=============================================================================
