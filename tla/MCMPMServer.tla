---------------------------- MODULE MCMPMServer ----------------------------
(* Model-checking instances of MPMServer.                                  *)
EXTENDS MPMServer, TLC

Symmetry == Permutations(Sessions)

\* One or two WLANs, a cellular IAP, and the one the MMS property may name.
CONSTANTS w1, w2, g1, g2
MCRank == [i \in Iaps |->
  CASE i = w1 -> 1 [] i = w2 -> 2 [] i = g1 -> 3 [] i = g2 -> 4]

\* To the destination; to the cellular IAP alone, silently, and for a background
\* application; to the IAP of the MMS.
ToSnap == [snap |-> TRUE, iap |-> NoIap, silent |-> FALSE, background |-> FALSE]
ToCell == [snap |-> FALSE, iap |-> g1, silent |-> FALSE, background |-> FALSE]
ToCellSilently == [ToCell EXCEPT !.silent = TRUE]
ToCellInBackground == [ToCell EXCEPT !.background = TRUE]
ToMms == [ToCell EXCEPT !.iap = g2]

MCPrefsSnap == {ToSnap}
MCPrefsAll == {ToSnap, ToCell, ToCellSilently, ToCellInBackground, ToMms}

\* Bound of the run with two clients: they choose as they like while neither is
\* mobile.  Once one is, both are up and have asked for the destination, and the
\* run ends where a bearer fails, a client leaves or cancels its request, or a
\* connection has moved to the cellular IAP.  ConnMon never reports the IAP of
\* the MMS: it is reached by those who ask for it alone.
TwoRoam ==
  /\ \A c \in Sessions :
       /\ cli[c].phase = "up" /\ cli[c].mob # "stopped"
       /\ sess[c].sel # None /\ sess[c].sel.snap
       /\ GetBMIap(conns[c]) = g1 => conns[c].state # "Started"
  /\ scans = <<>> /\ obsolete = 0 /\ usage = "Confirm"

TwoClients ==
  /\ g2 \notin avail
  /\ TwoRoam \/ \A c \in Sessions : cli[c].mob = "off"
=============================================================================
