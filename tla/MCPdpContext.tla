--------------------------- MODULE MCPdpContext ---------------------------
(* The PDP context manager with one connection of each kind, checked by TLC. *)
EXTENDS PdpContext

Cfg(h, r, retry, poll, l) ==
  [home |-> h, roaming |-> r, retry |-> retry, poll |-> poll, linger |-> l]

\* Off; always on at home with a retry interval of three units, in two parts;
\* on at home, with no retry, no poll, and a linger.
MCConfigs == {Cfg(FALSE, FALSE, 3, TRUE, "off"), Cfg(TRUE, FALSE, 3, TRUE, "off"),
              Cfg(TRUE, FALSE, 0, FALSE, "on")}

\* The phone is at home and cellular data is allowed, where they do not change.
MCInit ==
  /\ Init
  /\ "usage" \notin scenario => usage = "Automatic"
  /\ "network" \notin scenario => network = "home"
MCSpec == MCInit /\ [][Next]_vars
MCFairSpec == MCSpec /\ Fairness
===========================================================================
