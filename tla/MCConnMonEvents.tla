---------------------------- MODULE MCConnMonEvents ----------------------------
(***************************************************************************)
(* ConnMonEvents on small instances. A rigid variable chooses the part of  *)
(* the environment that moves.                                             *)
(***************************************************************************)
EXTENDS ConnMonEvents, TLC

CONSTANTS
  MaxRequests,   \* bound: the requests that wait for the plug-in
  MaxDataTime    \* bound: the events added when a connection is open

VARIABLE scenario

MCMinimum(c, k) == 2

\* The requests that wait for the plug-in.
RequestsBound == Len(plugin.requests) <= MaxRequests

\* queue: events and a bearer threshold, no connection. data, activity: a
\* connection, one of its thresholds and its events. plugin: the plug-in and
\* who wants its events.
Scenarios == {"queue", "data", "activity", "plugin"}

Within ==
  /\ scenario = "queue" =>
       /\ UNCHANGED <<connVars, plugin>>
       /\ \A s \in Sessions : flag'[s]["availability"] = 0 /\ flag'[s]["group"] <= 1
  /\ scenario \in {"data", "activity"} =>
       /\ UNCHANGED <<flag, plugin, left>>
       /\ time' # time => Up # {} /\ time' <= MaxDataTime
  /\ scenario = "data" =>
       /\ \A s \in Sessions, c \in Connections : threshold'[s][c]["activity"] = 0
       /\ time' # time => armed # Unarmed
  /\ scenario = "activity" =>
       \A s \in Sessions, c \in Connections, k \in DataKinds : threshold'[s][c][k] = 0
  /\ scenario = "plugin" => UNCHANGED <<queueVars, connVars>>

MCInit == Init /\ scenario \in Scenarios
MCNext == Next /\ Within /\ UNCHANGED scenario
MCSpec == MCInit /\ [][MCNext]_<<vars, scenario>>

Symmetry == Permutations(Sessions)

=============================================================================
