------------------------------ MODULE MPMServer ------------------------------
(***************************************************************************)
(* The Mobility Policy Manager (bearermanagement/mpm) and its clients, the *)
(* S60 MCPR nodes (bearermanagement/S60MCPR), one per session.             *)
(*                                                                         *)
(* The server is one thread: a request, a ConnMon event, a finished scan,  *)
(* an answered dialog or a timer is one action.  Three things a handler    *)
(* does before it returns can run code of other sessions and are steps of  *)
(* their own, taken before anything else (work, carry): the loop that      *)
(* clears the temporary blacklists, the loop that notifies the sessions,   *)
(* and the dialog that starts when the one before it in the queue goes.    *)
(*                                                                         *)
(* There is one destination (SNAP), which holds every IAP; snap says       *)
(* whether a connection is to it or to an IAP of its own.  The session     *)
(* stands for its Connection Id.                                           *)
(***************************************************************************)
EXTENDS Naturals, FiniteSets, Sequences, SequencesExt

CONSTANTS
  Sessions,    \* the client sessions
  Iaps,        \* the IAPs of the destination
  Wlans,       \* those that are WLANs; the others are packet data
  MmsIap,      \* the IAP the MMS property names, or NoIap; it stays the same
  Rank,        \* their order of preference
  NoIap,       \* IAP id 0
  None,        \* a null pointer or an empty message
  Prefs,       \* the connection preferences clients choose with
  Usages,      \* the cellular data usage settings the user sets
  WlanManual,  \* ECmUsageOfWlanManual is set
  Errors,      \* the errors clients report: "KErrCancel", "terminated", "other"
  Mobile,      \* clients register for preferred IAPs
  Disciplined, \* clients have one request outstanding at a time
  MaxScans     \* bound: scans in progress

Cells == Iaps \ Wlans
IapOrNone == Iaps \cup {NoIap}
States == {"Idle", "Starting", "Started", "Roaming"}
Conn == [snap: BOOLEAN, iap: IapOrNone, state: States]
\* A preference; background says whether iAppUid, which comes with it, is that of
\* the SIM toolkit, the TV service or the Always-On starter.
Pref == [snap: BOOLEAN, iap: IapOrNone, silent: BOOLEAN, background: BOOLEAN]
Categories == {"ETemporary", "EConnectionLifetime"}
Note == [type: {"pref", "start", "stop", "error"}, iap: IapOrNone]
StartingDlg == [snap: BOOLEAN, iap: Iaps]
RoamingDlg == [iap: Iaps, reconnect: BOOLEAN]
Answers == {"ThisTime", "Automatically", "Cancelled"}
Answer == [iap: Iaps, ans: Answers]
Callbacks == {"ChooseIap", "ProcessErr", "CarrierRejected"}
Scan == [c: Sessions, cb: Callbacks]

ASSUME ConstantsAssumption ==
  /\ Wlans \subseteq Iaps /\ NoIap \notin Iaps /\ IsFiniteSet(Iaps)
  /\ MmsIap \in IapOrNone
  /\ Rank \in [Iaps -> Nat] /\ \A i, j \in Iaps : Rank[i] = Rank[j] => i = j
  /\ Prefs \subseteq Pref /\ \A p \in Prefs : p.snap <=> p.iap = NoIap
  /\ Usages \subseteq {"Confirm", "Automatic", "Disabled"} /\ Usages # {}
  /\ WlanManual \in BOOLEAN /\ Mobile \in BOOLEAN
  /\ Disciplined \in BOOLEAN
  /\ Errors \subseteq {"KErrCancel", "terminated", "other"} /\ MaxScans \in Nat
  /\ None \notin Conn \cup Pref \cup Note \cup StartingDlg \cup RoamingDlg \cup Answer \cup Scan
               \cup Errors

VARIABLES
  sess,        \* CMPMServerSession, with the replies its client has not read
  cli,         \* the S60 MCPR node of the session
  conns,       \* iActiveBMConns
  connOrder,   \* the order of its entries
  black,       \* iBlackListIdList
  blackOrder,  \* the order of its entries
  avail,       \* iAvailableIAPs
  discard,     \* iDiscardAvailabilityNotification
  discarded,   \* iAvailabilityNotificationDiscarded
  scans,       \* iReqPtrs, the scans in progress
  obsolete,    \* how many cancelled scans are still to finish
  startQ,      \* the queue of starting dialogs; its head is on the display
  roamQ,       \* the queue of roaming dialogs
  timer,       \* the connection permission query timer runs
  usage,       \* the cellular data usage setting
  usageSeen,   \* what the data usage watcher has read of it
  work,        \* what the handler still has to do
  carry,       \* the answers of the dialogs that went, for those that start
  fatal        \* what kills the server's thread

tableVars == <<conns, connOrder>>
blackVars == <<black, blackOrder>>
monVars == <<avail, discard, discarded, scans, obsolete>>
dialogVars == <<startQ, roamQ, timer, carry>>
usageVars == <<usage, usageSeen>>
vars == <<sess, cli, tableVars, blackVars, monVars, dialogVars, usageVars, work, fatal>>

Session == [
  open: BOOLEAN,
  sel: {None} \cup Pref,            \* iIapSelection and its preferences
  scanning: BOOLEAN,                \* iChooseIapState
  choose: BOOLEAN,                  \* iChooseIapMessage is held
  perr: {None} \cup Errors,         \* iProcessErrorMessage
  wait: BOOLEAN,                    \* iNotifRequested
  reg: BOOLEAN,                     \* iPreferredIAPRequested
  hold: BOOLEAN,                    \* iStoredIapInfo: iHoldPrefIapNotif
  stored: {None} \cup SUBSET Iaps, \* iStoredIapInfo: the information waiting
  confirm: BOOLEAN,                 \* iMigrateState = EMigrateUserConfirmation
  migrateIap: IapOrNone,            \* iMigrateIap
  lastNotified: IapOrNone,          \* iLastNotifiedIap
  offers: 0..2,                     \* history: the offers not answered yet
  sdlg: {None} \cup StartingDlg,    \* iConfirmDlgStarting
  rdlg: {None} \cup RoamingDlg,     \* iConfirmDlgRoaming
  reply: {"none", "ok", "error", "Propagate", "Reselect", "Ignore"},
  note: {None} \cup Note]           \* the notification the client has not read

\* The node.  phase is what it does for its connection, mob the state of its
\* mobility activity, iap the IAP its bearer uses, pref iPreferredAPId, stored
\* iPendingNotification; refused is history: the offers the application
\* has refused since it registered.
Client == [
  phase: {"new", "choosing", "starting", "retrying", "up", "recovering", "down", "left", "ended",
          "gone"},
  mob: {"off", "wait", "offered", "response", "reconnect", "decide", "leaving", "stopped"},
  iap: IapOrNone, pref: IapOrNone, stored: {None} \cup Note,
  refused: SUBSET Iaps]

NoSession == [
  open |-> FALSE, sel |-> None, scanning |-> FALSE, choose |-> FALSE, perr |-> None,
  wait |-> FALSE, reg |-> FALSE, hold |-> FALSE, stored |-> None, confirm |-> FALSE,
  migrateIap |-> NoIap, lastNotified |-> NoIap, offers |-> 0, sdlg |-> None, rdlg |-> None,
  reply |-> "none", note |-> None]
NoClient == [phase |-> "new", mob |-> "off", iap |-> NoIap, pref |-> NoIap,
             stored |-> None, refused |-> {}]
NoWork == [unblack |-> 0, pref |-> {}, cb |-> None]
NoCarry == [start |-> None, roam |-> None]

TypeOK ==
  /\ sess \in [Sessions -> Session]
  /\ cli \in [Sessions -> Client]
  /\ conns \in [Sessions -> {None} \cup Conn] /\ connOrder \in Seq(Sessions)
  /\ black \in [Sessions -> SUBSET (Iaps \X Categories)] /\ blackOrder \in Seq(Sessions)
  /\ avail \in SUBSET Iaps /\ discard \in BOOLEAN /\ discarded \in BOOLEAN
  /\ scans \in Seq(Scan) /\ obsolete \in Nat
  /\ startQ \in Seq(Sessions) /\ roamQ \in Seq(Sessions) /\ timer \in BOOLEAN
  /\ usage \in Usages \cup {"Automatic"} /\ usageSeen \in Usages \cup {"Automatic"}
  /\ work \in [unblack: Nat, pref: SUBSET Sessions, cb: {None} \cup Scan]
  /\ carry \in [start: {None} \cup Answer, roam: {None} \cup Answer]
  /\ fatal \in {"none", "null message", "freed session"}

Init ==
  /\ sess = [c \in Sessions |-> NoSession] /\ cli = [c \in Sessions |-> NoClient]
  /\ conns = [c \in Sessions |-> None] /\ connOrder = <<>>
  /\ black = [c \in Sessions |-> {}] /\ blackOrder = <<>>
  /\ avail \in SUBSET Iaps /\ discard = FALSE /\ discarded = FALSE
  /\ scans = <<>> /\ obsolete = 0
  /\ startQ = <<>> /\ roamQ = <<>> /\ timer = FALSE
  /\ usage \in Usages /\ usageSeen = usage
  /\ work = NoWork /\ carry = NoCarry /\ fatal = "none"

\* The server waits for its next request or event.
Quiet == work = NoWork /\ carry = NoCarry /\ fatal = "none"

-----------------------------------------------------------------------------
\* The list q, whose entries are distinct, without the one that is in S.
Without(q, S) == RemoveFirstMatch(q, LAMBDA c : c \in S)

\* The table of connections.

GetBMIap(e) == IF e = None THEN NoIap ELSE e.iap
GetBMSnap(e) == e # None /\ e.snap
GetConnectionState(e) == IF e = None THEN "Starting" ELSE e.state

\* Mutant: an entry that is there keeps its IAP.
AppendIfNew(c, snap, i, state) ==
  /\ conns' = [conns EXCEPT ![c] =
       IF @ = None THEN [snap |-> snap, iap |-> i, state |-> state] ELSE [@ EXCEPT !.state = state]]
  /\ connOrder' = IF conns[c] = None THEN Append(connOrder, c) ELSE connOrder
AppendBMConnection(c, snap, i, state) ==
  /\ conns' = [conns EXCEPT ![c] =
                 [snap |-> IF @ = None THEN snap ELSE @.snap, iap |-> i, state |-> state]]
  /\ connOrder' = IF conns[c] = None THEN Append(connOrder, c) ELSE connOrder

Reset(e) == IF e = None THEN None ELSE [e EXCEPT !.iap = NoIap, !.state = "Idle"]
ResetBMConnection(c) == conns' = [conns EXCEPT ![c] = Reset(@)] /\ UNCHANGED connOrder

CheckIfStarted(i, c) ==
  LET others == {k \in DOMAIN connOrder : connOrder[k] # c /\ conns[connOrder[k]].iap = i}
      state(k) == conns[connOrder[k]].state
  IN \/ \E k \in others : state(k) = "Started"
     \/ others # {} /\ state(Max(others)) = "Starting"

IsBackgroundApplication(s) == s.sel # None /\ s.sel.background

\* Mutant: the setting as the watcher saw it last.
IsConfirmFirstSeen(i, c, s) ==
  /\ ~CheckIfStarted(i, c) /\ ~IsBackgroundApplication(s) /\ i # MmsIap
  /\ usageSeen = "Confirm"
IsConfirmFirst(i, c, s) ==
  /\ ~CheckIfStarted(i, c) /\ ~IsBackgroundApplication(s) /\ i # MmsIap
  /\ usage = "Confirm"

\* The black lists and the choice among what they leave.  The entry for IAP 0
\* of a connection that was reset bars nothing and is not kept.

\* Mutant: the entry for IAP 0 is kept.
BlackListAny(c, i, category) ==
  /\ black' = [black EXCEPT ![c] = @ \cup {<<i, category>>}]
  /\ blackOrder' = <<c>> \o Without(blackOrder, {c})

BlackListIap(c, i, category) ==
  /\ black' = [black EXCEPT ![c] = IF i = NoIap THEN @ ELSE @ \cup {<<i, category>>}]
  /\ blackOrder' = <<c>> \o Without(blackOrder, {c})

UnblackListIap(c) ==
  /\ black' = [black EXCEPT ![c] = {}]
  /\ blackOrder' = Without(blackOrder, {c})

\* Mutant: only the temporary entries count.
AvailableUnrefused(info, b) == {i \in info : <<i, "ETemporary">> \notin b}
AvailableUnblacklistedIaps(info, b) == {i \in info : \A x \in b : x[1] # i}

ChooseBestIAP(S) == IF S = {} THEN NoIap ELSE CHOOSE i \in S : \A j \in S : Rank[i] <= Rank[j]

\* Completing what a session's client waits for.

Notify(s, type, i) ==
  IF s.wait THEN [s EXCEPT !.wait = FALSE, !.note = [type |-> type, iap |-> i]] ELSE s
ErrorNotification(s) == Notify(s, "error", NoIap)
StartIAPNotification(s, i) == Notify([s EXCEPT !.hold = TRUE], "start", i)
StopIAPNotification(s) == Notify(s, "stop", NoIap)

ChooseIapComplete(s, result) ==
  [s EXCEPT !.choose = FALSE, !.scanning = FALSE, !.reply = IF s.choose THEN result ELSE @]
ProcessErrorComplete(s, action) == [s EXCEPT !.perr = None, !.reply = action]
StopDisplayingStartingDlg(s) ==
  IF s.sdlg = None THEN s ELSE [ChooseIapComplete(s, "error") EXCEPT !.sdlg = None]
\* Mutant: notifications stay on hold.
DropStoredIapInfo(s) == [s EXCEPT !.stored = None]
ResetStoredIapInfo(s) == [s EXCEPT !.hold = FALSE, !.stored = None]

\* PrefIAPNotificationL for a session s with the entry e and the black list b.
\* EConfirmDlgRoaming as a caller is EBearerMan here: it differs only in not
\* deleting the dialog that called, which deletes itself.
NotRequested(s) == ~s.wait \/ ~s.reg
HeldBack(s, e, caller) ==
  /\ ~s.confirm /\ caller # "EBearerMan"
  /\ s.hold \/ GetConnectionState(e) = "Roaming"
CheckNotifNeed(s, e, i) ==
  /\ i # s.lastNotified /\ i # GetBMIap(e)
  /\ ~(WlanManual /\ i \in Wlans)

\* It leaves with KErrNotFound: no selection, or nothing to prefer.
PrefNotFound(s, e, b, info, caller) ==
  /\ ~NotRequested(s) /\ ~HeldBack(s, e, caller) /\ GetBMSnap(e)
  /\ \/ s.sel = None
     \/ caller = "EBearerMan" /\ AvailableUnblacklistedIaps(info, b) = {}

\* Mutant: a dialog about the IAP before stays.
OfferBesides(s, i) ==
  [Notify(s, "pref", i) EXCEPT !.lastNotified = i, !.hold = TRUE,
                               !.offers = IF @ = 0 THEN 1 ELSE 2]
Offer(s, i) == [OfferBesides(s, i) EXCEPT !.rdlg = None, !.confirm = FALSE]

PrefIAPNotification(s, e, b, info, caller) ==
  LET usable == AvailableUnblacklistedIaps(info, b)
      best == ChooseBestIAP(usable)
  IN IF NotRequested(s) THEN s
     ELSE IF HeldBack(s, e, caller) THEN [s EXCEPT !.stored = info]
     ELSE IF ~GetBMSnap(e)
       THEN IF GetBMIap(e) \in usable THEN s ELSE ErrorNotification(s)
     ELSE IF s.sel = None THEN s
     ELSE IF best = NoIap THEN IF caller = "EConnMon" THEN ErrorNotification(s) ELSE s
     ELSE IF CheckNotifNeed(s, e, best)
       THEN Offer(s, best)
     ELSE s

\* Mutant: no error notification.
PrefOnly(s, e, b, info) == PrefIAPNotification(s, e, b, info, "EBearerMan")
\* What the handlers do with the IAPs that are left after an IAP was refused.
PrefOrError(s, e, b, info) ==
  IF PrefNotFound(s, e, b, info, "EBearerMan") THEN ErrorNotification(s)
  ELSE PrefIAPNotification(s, e, b, info, "EBearerMan")
OfferNext(s, e, b) ==
  IF avail = {} THEN ErrorNotification(s) ELSE PrefOrError(s, e, b, avail)

\* The silent connections left alone on IAP i, which nobody can ask about any
\* more: the sessions CheckIapForDisconnect stops, with the table t and the
\* setting u.
CheckIapForDisconnect(i, t, u) ==
  LET uses(d) == /\ t[d] # None
                 /\ \/ t[d].iap = i
                    \/ t[d].iap = NoIap /\ sess[d].sel # None /\ sess[d].sel.iap = i
      on == {d \in Sessions : uses(d)}
      silent(d) == sess[d].sel = None \/ sess[d].sel.silent
  IN IF i \in Cells /\ u = "Confirm" /\ \A d \in on : silent(d)
     THEN {d \in on : t[d].state \in {"Started", "Starting"}}
     ELSE {}
Stopped(S) == [c \in Sessions |-> IF c \in S THEN StopIAPNotification(sess[c]) ELSE sess[c]]

\* RemoveBMConnection, and the sessions it stops.
RemoveBMConnection(c) ==
  /\ conns' = [conns EXCEPT ![c] = None]
  /\ connOrder' = Without(connOrder, {c})
StoppedByRemove(c) ==
  LET i == IF GetBMIap(conns[c]) = NoIap /\ sess[c].sel # None THEN sess[c].sel.iap
           ELSE GetBMIap(conns[c])
  IN IF conns[c] = None THEN {}
     ELSE CheckIapForDisconnect(i, [conns EXCEPT ![c] = None], usageSeen)

-----------------------------------------------------------------------------
\* Dialogs.  A dialog that goes leaves its queue; if it was on the display, the
\* next one starts and is told its answer (Cancelled if it had none).

Answered(q, rest, dlg, ans, old) ==
  IF q = <<>> THEN old
  ELSE IF rest = <<>> THEN None
  ELSE IF Head(q) = Head(rest) THEN old
  ELSE [iap |-> dlg[Head(q)].iap, ans |-> ans]

\* The queues after a handler that answered a dialog with ans or deleted it.
Dialogs(ans) ==
  LET sdlg == [c \in Sessions |-> sess[c].sdlg]
      rdlg == [c \in Sessions |-> sess[c].rdlg]
      startRest == Without(startQ, {c \in Sessions : sess'[c].sdlg = None})
      roamRest == Without(roamQ, {c \in Sessions : sess'[c].rdlg = None})
      starting == {c \in Sessions : sdlg[c] = None /\ sess'[c].sdlg # None}
      roaming == {c \in Sessions : rdlg[c] = None /\ sess'[c].rdlg # None}
  IN /\ startQ' = startRest \o SetToSeq(starting)
     /\ roamQ' = roamRest \o SetToSeq(roaming)
     /\ carry' = [start |-> Answered(startQ, startRest, sdlg, ans, carry.start),
                  roam |-> Answered(roamQ, roamRest, rdlg, ans, carry.roam)]

Cancelled == Dialogs("Cancelled")

\* ConfirmDlgResponse of the starting dialog of c.
StartingResponse(c, ans) ==
  LET s == [sess[c] EXCEPT !.sdlg = None]
      d == sess[c].sdlg
  IN \/ /\ ans # "Cancelled"
        /\ AppendBMConnection(c, d.snap, d.iap, "Starting")
        /\ sess' = [sess EXCEPT ![c] = ChooseIapComplete(s, "ok")]
        /\ usage' = IF ans = "Automatically" THEN "Automatic" ELSE usage
        /\ UNCHANGED timer
     \/ /\ ans = "Cancelled"
        /\ timer' = TRUE
        /\ sess' = [sess EXCEPT ![c] = ChooseIapComplete(s, "error")]
        /\ UNCHANGED <<tableVars, usage>>

MigrateDone(s) == [s EXCEPT !.confirm = FALSE, !.migrateIap = NoIap]

\* ConfirmDlgResponse of the roaming dialog of c.
RoamingResponse(c, ans) ==
  LET s == [sess[c] EXCEPT !.rdlg = None]
      i == GetBMIap(conns[c])
  IN \/ /\ ans # "Cancelled"
        /\ sess' = [sess EXCEPT ![c] = MigrateDone(StartIAPNotification(s, s.migrateIap))]
        /\ usage' = IF ans = "Automatically" THEN "Automatic" ELSE usage
        /\ UNCHANGED <<blackVars, timer>>
     \/ /\ ans = "Cancelled" /\ ~sess[c].rdlg.reconnect
        /\ timer' = TRUE
        /\ BlackListIap(c, i, "EConnectionLifetime")
        /\ sess' = [sess EXCEPT ![c] = MigrateDone(PrefOrError(s, conns[c], black'[c], avail))]
        /\ UNCHANGED usage
     \/ /\ ans = "Cancelled" /\ sess[c].rdlg.reconnect
        /\ timer' = TRUE
        /\ sess' = [sess EXCEPT ![c] = MigrateDone(ErrorNotification(s))]
        /\ UNCHANGED <<blackVars, usage>>

AnswerStarting(ans) ==
  /\ Quiet /\ startQ # <<>>
  /\ StartingResponse(Head(startQ), ans) /\ Dialogs(ans)
  /\ UNCHANGED <<cli, blackVars, monVars, usageSeen, work, fatal>>

AnswerRoaming(ans) ==
  /\ Quiet /\ roamQ # <<>>
  /\ RoamingResponse(Head(roamQ), ans) /\ Dialogs(ans)
  /\ UNCHANGED <<cli, tableVars, monVars, usageSeen, work, fatal>>

\* The dialog that starts after another of the same IAP takes its answer.
PropagateStarting ==
  /\ fatal = "none" /\ carry.start # None /\ carry.roam = None
  /\ LET c == Head(startQ)
     IN IF sess[c].sdlg.iap = carry.start.iap
        THEN StartingResponse(c, carry.start.ans) /\ Dialogs(carry.start.ans)
        ELSE /\ carry' = NoCarry
             /\ UNCHANGED <<sess, tableVars, startQ, roamQ, timer, usage>>
  /\ UNCHANGED <<cli, blackVars, monVars, usageSeen, work, fatal>>

PropagateRoaming ==
  /\ fatal = "none" /\ carry.roam # None
  /\ LET c == Head(roamQ)
     IN IF sess[c].rdlg.iap = carry.roam.iap
        THEN RoamingResponse(c, carry.roam.ans) /\ Dialogs(carry.roam.ans)
        ELSE /\ carry' = [carry EXCEPT !.roam = None]
             /\ UNCHANGED <<sess, blackVars, startQ, roamQ, timer, usage>>
  /\ UNCHANGED <<cli, tableVars, monVars, usageSeen, work, fatal>>

PermQueryTimerExpires ==
  /\ Quiet /\ timer /\ timer' = FALSE
  /\ UNCHANGED <<sess, cli, tableVars, blackVars, monVars, startQ, roamQ, carry,
                 usageVars, work, fatal>>

-----------------------------------------------------------------------------
\* Scans.

\* The bound on the scans in progress; without room the request comes later.
ScanRoom == Len(scans) + obsolete < MaxScans

ScanWLANNetworks(c, cb) ==
  /\ ScanRoom
  /\ scans' = Append(scans, [c |-> c, cb |-> cb])
  /\ discard' = TRUE
  /\ UNCHANGED <<avail, discarded, obsolete>>

\* Mutant: the scan goes on.
CancelNoScan(c) == discard' = FALSE /\ UNCHANGED <<scans, obsolete, avail, discarded>>

\* Removes the first scan of c, whatever it is for.
CancelScan(c) ==
  LET own == {k \in DOMAIN scans : scans[k].c = c}
      first == CHOOSE k \in own : \A l \in own : k <= l
  IN /\ discard' = FALSE
     /\ scans' = IF own = {} THEN scans ELSE RemoveAt(scans, first)
     /\ obsolete' = IF own = {} THEN obsolete ELSE obsolete + 1
     /\ UNCHANGED <<avail, discarded>>

\* The work of IapAvailabilityChange, before the callback cb of a scan.
IapAvailabilityChange(cb) ==
  /\ discarded' = FALSE
  /\ work' = [unblack |-> Len(blackOrder), pref |-> {c \in Sessions : sess[c].open}, cb |-> cb]

AvailabilityEvent(S) ==
  /\ Quiet
  /\ avail' = S
  /\ IF S # {} /\ ~discard THEN IapAvailabilityChange(None)
     ELSE discarded' = TRUE /\ UNCHANGED work
  /\ UNCHANGED <<sess, cli, tableVars, blackVars, discard, scans, obsolete, dialogVars,
                 usageVars, fatal>>

ScanDone(k, S) ==
  /\ Quiet
  /\ avail' = S /\ discard' = FALSE
  /\ scans' = RemoveAt(scans, k)
  /\ IF discarded /\ S # {} THEN IapAvailabilityChange(scans[k])
     ELSE work' = [NoWork EXCEPT !.cb = scans[k]] /\ UNCHANGED discarded
  /\ UNCHANGED <<sess, cli, tableVars, blackVars, obsolete, dialogVars, usageVars, fatal>>

\* Mutant: the session is not called back.
ScanFailsSilently(k) ==
  /\ Quiet
  /\ discard' = FALSE /\ scans' = RemoveAt(scans, k)
  /\ UNCHANGED <<sess, cli, tableVars, blackVars, avail, discarded, obsolete, dialogVars,
                 usageVars, work, fatal>>

ScanFails(k) ==
  /\ Quiet
  /\ discard' = FALSE /\ scans' = RemoveAt(scans, k)
  /\ work' = [NoWork EXCEPT !.cb = scans[k]]
  /\ UNCHANGED <<sess, cli, tableVars, blackVars, avail, discarded, obsolete, dialogVars,
                 usageVars, fatal>>

ObsoleteScanDone(S) ==
  /\ Quiet /\ obsolete > 0
  /\ avail' = S /\ obsolete' = obsolete - 1
  /\ UNCHANGED <<sess, cli, tableVars, blackVars, discard, discarded, scans, dialogVars,
                 usageVars, work, fatal>>

Busy == fatal = "none" /\ carry = NoCarry

\* One round of the loop of HandleServerUnblackListIap( ETemporary ).
UnblackTemporary ==
  /\ Busy /\ work.unblack > 0
  /\ LET c == blackOrder[work.unblack]
         others == RemoveAt(blackOrder, work.unblack)
         left == {x \in black[c] : x[2] # "ETemporary"}
     IN /\ black' = [black EXCEPT ![c] = left]
        /\ blackOrder' = IF left = {} THEN others ELSE <<c>> \o others
  /\ work' = [work EXCEPT !.unblack = @ - 1]
  /\ UNCHANGED <<sess, cli, tableVars, monVars, dialogVars, usageVars, fatal>>

\* One round of the loop of SendPrefIAPNotificationL, which a leave ends.  The
\* code goes through iSessions in its order; here the order is any.
SendPrefIAPNotification(c) ==
  /\ Busy /\ work.unblack = 0 /\ c \in work.pref
  /\ sess' = [sess EXCEPT ![c] = PrefIAPNotification(@, conns[c], black[c], avail, "EConnMonEvent")]
  /\ Cancelled
  /\ work' = [work EXCEPT !.pref =
       IF PrefNotFound(sess[c], conns[c], black[c], avail, "EConnMonEvent") THEN {} ELSE @ \ {c}]
  /\ UNCHANGED <<cli, tableVars, blackVars, monVars, timer, usageVars, fatal>>

-----------------------------------------------------------------------------
\* Choosing an IAP.

MayAsk(s) == ~timer /\ ~s.sel.silent

\* The end of a selection: grant i, ask the user, or refuse.
Decide(c, s, i, snap) ==
  LET ask == i \in Cells /\ IsConfirmFirst(i, c, s)
  IN \/ /\ ~ask
        /\ sess' = [sess EXCEPT ![c] = ChooseIapComplete(s, "ok")]
        /\ AppendBMConnection(c, snap, i, "Starting")
     \/ /\ ask /\ MayAsk(s)
        /\ sess' = [sess EXCEPT ![c] = [s EXCEPT !.sdlg = [snap |-> snap, iap |-> i]]]
        /\ UNCHANGED tableVars
     \/ /\ ask /\ ~MayAsk(s)
        /\ sess' = [sess EXCEPT ![c] = ChooseIapComplete(s, "error")]
        /\ UNCHANGED tableVars

CompleteExplicitSnapConnection(c, s) ==
  LET i == ChooseBestIAP(AvailableUnblacklistedIaps(avail, black[c]))
  IN \/ /\ i = NoIap
        /\ sess' = [sess EXCEPT ![c] = ChooseIapComplete(s, "error")]
        /\ UNCHANGED tableVars
     \/ /\ i # NoIap
        /\ Decide(c, [s EXCEPT !.sel.iap = i], i, TRUE)

\* iIapSelection->ChooseIapL for a session s that holds the message.
ChooseIapL(c, s, pref) ==
  LET e == conns[c]
      p == IF GetBMSnap(e) THEN [pref EXCEPT !.snap = TRUE, !.iap = NoIap]
           ELSE IF GetBMIap(e) # NoIap THEN [pref EXCEPT !.snap = FALSE, !.iap = e.iap]
           ELSE pref
      chosen == [s EXCEPT !.sel = p]
      disabled == p.iap \in Cells \ {MmsIap} /\ "Disabled" \in {usage, usageSeen}
  IN \/ /\ disabled
        /\ sess' = [sess EXCEPT ![c] = ChooseIapComplete(chosen, "error")]
        /\ UNCHANGED <<tableVars, monVars>>
     \/ /\ p.iap # NoIap /\ ~disabled
        /\ Decide(c, chosen, p.iap, p.iap \in Wlans /\ p.snap)
        /\ UNCHANGED monVars
     \/ /\ p.iap = NoIap /\ Wlans # {}
        /\ sess' = [sess EXCEPT ![c] = [chosen EXCEPT !.scanning = TRUE]]
        /\ ScanWLANNetworks(c, "ChooseIap")
        /\ UNCHANGED tableVars
     \/ /\ p.iap = NoIap /\ Wlans = {}
        /\ CompleteExplicitSnapConnection(c, chosen)
        /\ UNCHANGED monVars

\* The node sends one request at a time.
Free(c) == ~sess[c].choose /\ sess[c].perr = None /\ sess[c].reply = "none"
Ready(c) == Quiet /\ sess[c].open /\ Free(c)

Open(c) ==
  /\ Quiet /\ cli[c].phase = "new" /\ ~sess[c].open
  /\ sess' = [sess EXCEPT ![c] = [NoSession EXCEPT !.open = TRUE, !.wait = TRUE]]
  /\ UNCHANGED <<cli, tableVars, blackVars, monVars, dialogVars, usageVars, work, fatal>>

ChooseIap(c, pref) ==
  /\ Ready(c) /\ cli[c].phase = "new"
  /\ ChooseIapL(c, [sess[c] EXCEPT !.choose = TRUE], pref)
  /\ Cancelled
  /\ cli' = [cli EXCEPT ![c].phase = "choosing"]
  /\ UNCHANGED <<blackVars, timer, usageVars, work, fatal>>

ReselectIap(c) ==
  /\ Quiet /\ sess[c].reply = "Reselect"
  /\ ChooseIapL(c, [sess[c] EXCEPT !.choose = TRUE, !.reply = "none"], sess[c].sel)
  /\ Cancelled
  /\ cli' = [cli EXCEPT ![c].phase = "choosing"]
  /\ UNCHANGED <<blackVars, timer, usageVars, work, fatal>>

\* A second ChooseBestIAP() or ReselectBestIAP() while one is held.  Choose
\* answers it twice, the second time through a null message; Reselect answers it
\* and then puts it in the place of the one that is held.
ChooseWhileHeld(c) ==
  /\ ~Disciplined /\ Quiet /\ sess[c].choose
  /\ fatal' = "null message"
  /\ UNCHANGED <<sess, cli, tableVars, blackVars, monVars, dialogVars, usageVars, work>>

ReselectWhileHeld(c) ==
  /\ ~Disciplined /\ Quiet /\ sess[c].choose
  /\ ChooseIapL(c, [sess[c] EXCEPT !.choose = FALSE], sess[c].sel)
  /\ Cancelled
  /\ UNCHANGED <<cli, blackVars, timer, usageVars, work, fatal>>

CancelChoose(c) ==
  /\ Quiet /\ sess[c].choose
  /\ sess' = [sess EXCEPT ![c] =
       [ChooseIapComplete(@, "error") EXCEPT !.reply = "none", !.sel = None, !.sdlg = None]]
  /\ CancelScan(c) /\ Cancelled
  /\ cli' = [cli EXCEPT ![c].phase = "ended"]
  /\ UNCHANGED <<tableVars, blackVars, timer, usageVars, work, fatal>>

\* The entries of their own on the same IAP start with it.
StartedWith(c, d) ==
  d = c \/ (conns[d] # None /\ ~conns[d].snap /\ conns[d].iap = conns[c].iap)
IapConnectionStarted(c) ==
  /\ Ready(c) /\ cli[c].phase = "starting" /\ GetBMIap(conns[c]) = cli[c].iap
  /\ conns' = [d \in Sessions |->
       IF StartedWith(c, d) THEN [conns[d] EXCEPT !.state = "Started"] ELSE conns[d]]
  /\ cli' = [cli EXCEPT ![c].phase = "up"]
  /\ UNCHANGED <<sess, connOrder, blackVars, monVars, dialogVars, usageVars, work, fatal>>

-----------------------------------------------------------------------------
\* Errors.

EnoughWlans == Cardinality(Wlans) >= 2   \* SnapContainsWlanL, KMPMNrWlansTwo

ErrorWhileStarting(c, s) ==
  LET propagate == ~GetBMSnap(conns[c]) \/ s.perr = "KErrCancel"
  IN /\ IF propagate THEN UNCHANGED blackVars
        ELSE BlackListIap(c, GetBMIap(conns[c]), "ETemporary")
     /\ sess' = [sess EXCEPT ![c] =
          ProcessErrorComplete(s, IF propagate THEN "Propagate" ELSE "Reselect")]
     /\ UNCHANGED <<tableVars, monVars>>

\* Mutant: every error is ignored.
IgnoreAlways(s, e, b, info) ==
  ProcessErrorComplete(PrefIAPNotification(s, e, b, info, "EBearerMan"), "Ignore")
\* Offer what is left of info, or give the error up to the application.
IgnoreOrPropagate(s, e, b, info) ==
  ProcessErrorComplete(PrefOrError(s, e, b, info),
    IF PrefNotFound(s, e, b, info, "EBearerMan") THEN "Propagate" ELSE "Ignore")

ErrorWhileRoaming(c, s) ==
  LET i == GetBMIap(conns[c])
  IN /\ ResetBMConnection(c)
     /\ BlackListIap(c, i, "ETemporary")
     /\ sess' = [sess EXCEPT ![c] =
          IgnoreOrPropagate(ResetStoredIapInfo(s), conns'[c], black'[c], avail \ {i})]
     /\ UNCHANGED monVars

ErrorWhileStarted(c, s) ==
  LET i == GetBMIap(conns[c])
      cancelled == s.perr \in {"KErrCancel", "terminated"}
      recover == ~cancelled /\ s.reg /\ GetBMSnap(conns[c])
      scan == i \in Wlans /\ EnoughWlans
  IN /\ UNCHANGED tableVars
     /\ \/ /\ ~recover
           /\ sess' = [sess EXCEPT ![c] = ProcessErrorComplete(
                IF cancelled \/ s.reg THEN ErrorNotification(s) ELSE s, "Propagate")]
           /\ UNCHANGED <<blackVars, monVars>>
        \/ /\ recover /\ ~scan
           /\ BlackListIap(c, i, "ETemporary")
           /\ sess' = [sess EXCEPT ![c] = IgnoreOrPropagate(s, conns[c], black'[c], avail \ {i})]
           /\ UNCHANGED monVars
        \/ /\ recover /\ scan
           /\ BlackListIap(c, i, "ETemporary")
           /\ sess' = [sess EXCEPT ![c] = s]
           /\ ScanWLANNetworks(c, "ProcessErr")

HandleProcessError(c, error) ==
  LET s == [StopDisplayingStartingDlg(sess[c]) EXCEPT !.perr = error]
      state == GetConnectionState(conns[c])
      complete(action) == /\ sess' = [sess EXCEPT ![c] = ProcessErrorComplete(s, action)]
                          /\ UNCHANGED <<tableVars, blackVars, monVars>>
  IN \/ s.sel = None /\ complete("Propagate")
     \/ s.sel # None /\ state = "Starting" /\ ErrorWhileStarting(c, s)
     \/ s.sel # None /\ state = "Roaming" /\ ErrorWhileRoaming(c, s)
     \/ s.sel # None /\ state = "Started" /\ ErrorWhileStarted(c, s)
     \/ s.sel # None /\ state = "Idle" /\ complete("error")

ProcessError(c, error) ==
  /\ Ready(c)
  /\ \/ /\ cli[c].phase = "starting"
        /\ cli' = [cli EXCEPT ![c].phase = "retrying"]
     \/ /\ cli[c].phase = "up" /\ cli[c].mob \in {"off", "wait", "reconnect", "stopped"}
        /\ cli' = [cli EXCEPT ![c].phase = "recovering"]
  /\ HandleProcessError(c, error)
  /\ Cancelled
  /\ UNCHANGED <<timer, usageVars, work, fatal>>

CancelProcessError(c) ==
  /\ Quiet /\ sess[c].perr # None
  /\ sess' = [sess EXCEPT ![c].perr = None]
  /\ CancelScan(c)
  /\ cli' = [cli EXCEPT ![c].phase = IF @ = "retrying" THEN "ended" ELSE "down"]
  /\ UNCHANGED <<tableVars, blackVars, dialogVars, usageVars, work, fatal>>

\* The callback of a finished scan.
ChooseIapScanCompleted(c) ==
  \/ /\ sess[c].sel = None
     /\ sess' = [sess EXCEPT ![c] = ChooseIapComplete(@, "error")]
     /\ UNCHANGED tableVars
  \/ /\ sess[c].sel # None /\ ~sess[c].scanning
     /\ UNCHANGED <<sess, tableVars>>
  \/ /\ sess[c].sel # None /\ sess[c].scanning
     /\ CompleteExplicitSnapConnection(c, sess[c])

ScanCallback ==
  /\ Busy /\ work.unblack = 0 /\ work.pref = {} /\ work.cb # None
  /\ LET c == work.cb.c
         kill(why) == fatal' = why /\ UNCHANGED <<sess, tableVars>>
         e == conns[c]
     IN \/ ~sess[c].open /\ kill("freed session")
        \/ /\ sess[c].open /\ work.cb.cb = "ChooseIap"
           /\ ChooseIapScanCompleted(c) /\ UNCHANGED fatal
        \/ /\ sess[c].open /\ work.cb.cb = "ProcessErr"
           /\ IF sess[c].perr = None THEN kill("null message")
              ELSE /\ sess' = [sess EXCEPT ![c] =
                        IgnoreOrPropagate(@, e, black[c], avail \ {GetBMIap(e)})]
                   /\ UNCHANGED <<tableVars, fatal>>
        \/ /\ sess[c].open /\ work.cb.cb = "CarrierRejected"
           /\ sess' = [sess EXCEPT ![c] = OfferNext(@, e, black[c])]
           /\ UNCHANGED <<tableVars, fatal>>
  /\ Cancelled
  /\ work' = NoWork
  /\ UNCHANGED <<cli, blackVars, monVars, timer, usageVars>>

-----------------------------------------------------------------------------
\* Mobility.

\* The node answers an offer.  When a second one was sent before that, they have
\* crossed, and that is remembered.
AnswerOffer(s) == [s EXCEPT !.offers = IF @ = 1 THEN 0 ELSE @]

RegisterPrefIAPNotif(c) ==
  /\ Ready(c) /\ Mobile /\ cli[c].phase = "up" /\ cli[c].mob = "off"
  /\ LET e == conns[c]
         s == [sess[c] EXCEPT !.reg = TRUE]
     IN IF ~GetBMSnap(e) /\ GetBMIap(e) = NoIap THEN UNCHANGED sess
        ELSE sess' = [sess EXCEPT ![c] =
               IF avail # {} /\ GetBMSnap(e)
               THEN PrefIAPNotification(s, e, black[c], avail, "EBearerMan") ELSE s]
  /\ Cancelled
  /\ cli' = [cli EXCEPT ![c].mob = "wait"]
  /\ UNCHANGED <<tableVars, blackVars, monVars, timer, usageVars, work, fatal>>

\* It deletes no dialog.
UnregisterPrefIAPNotif(c) ==
  /\ Ready(c)
  /\ \/ cli[c].mob = "leaving"
     \/ cli[c].phase = "up" /\ cli[c].mob \in {"wait", "response", "decide"}
     \/ cli[c].phase \in {"down", "left", "ended"} /\ cli[c].mob \notin {"off", "stopped"}
  /\ sess' = [sess EXCEPT ![c].reg = FALSE, ![c].lastNotified = NoIap]
  /\ UnblackListIap(c)
  /\ cli' = [cli EXCEPT ![c].mob = "stopped",
                        ![c].refused = {}]
  /\ UNCHANGED <<tableVars, monVars, dialogVars, usageVars, work, fatal>>

\* ApplicationMigratesToCarrier: ask whether the roaming may cost, or start it.
MigratesToCarrier(c) ==
  LET i == cli[c].pref
      old == GetBMIap(conns[c])
      s == [AnswerOffer(sess[c]) EXCEPT !.migrateIap = i, !.rdlg = None]
      asking == [s EXCEPT !.confirm = TRUE]
      denied == i \in Cells /\ usageSeen = "Disabled"
      ask == old # i /\ i \in Cells /\ IsConfirmFirst(i, c, s)
      reconnect == old \notin AvailableUnblacklistedIaps(avail, black[c])
  IN /\ AppendBMConnection(c, FALSE, i, "Roaming")
     /\ sess' = [sess EXCEPT ![c] =
          IF denied THEN MigrateDone(ErrorNotification(s))
          ELSE IF ~ask THEN MigrateDone(StartIAPNotification(asking, i))
          ELSE IF ~MayAsk(s) THEN MigrateDone(ErrorNotification(asking))
          ELSE [asking EXCEPT !.rdlg = [iap |-> i, reconnect |-> reconnect]]]

IgnoredTheCarrier(c, cancel) ==
  /\ BlackListIap(c, cli[c].pref, "EConnectionLifetime")
  /\ sess' = [sess EXCEPT ![c] = OfferNext(AnswerOffer(ResetStoredIapInfo(@)), conns[c], black'[c])]
  /\ cli' = [cli EXCEPT ![c].mob = IF cancel THEN "leaving" ELSE "wait",
                        ![c].refused = @ \cup {cli[c].pref}]

\* A pending notification is delivered again when the node waits for an answer.
Keep(cl, n) == [cl EXCEPT !.stored = IF @ = None THEN n ELSE @]
Reconnected(cl, i) == [cl EXCEPT !.iap = i]
Deliver(cl, n) ==
  IF n.type = "stop"
    THEN [cl EXCEPT !.phase = IF @ \in {"starting", "up"} THEN "down" ELSE @]
  ELSE IF cl.phase \notin {"up", "recovering"} THEN cl
  ELSE IF cl.mob \in {"wait", "response"} /\ n.type = "pref"
    THEN [cl EXCEPT !.mob = "offered", !.pref = n.iap, !.stored = None]
  ELSE IF cl.mob = "response" /\ n.type = "start"
    THEN [Reconnected(cl, n.iap) EXCEPT !.mob = "reconnect", !.stored = None]
  ELSE IF cl.mob \in {"wait", "response"} /\ n.type = "error"
    THEN [cl EXCEPT !.phase = "down"]
  ELSE Keep(cl, n)
WaitResponse(cl) ==
  LET waiting == [cl EXCEPT !.mob = "response", !.stored = None]
  IN IF cl.stored = None THEN waiting ELSE Deliver(waiting, cl.stored)

ApplicationMigratesToCarrier(c) ==
  /\ Ready(c) /\ cli[c].phase = "up" /\ cli[c].mob = "offered"
  /\ MigratesToCarrier(c) /\ Cancelled
  /\ cli' = [cli EXCEPT ![c] = WaitResponse(@)]
  /\ UNCHANGED <<blackVars, monVars, timer, usageVars, work, fatal>>

ApplicationIgnoredTheCarrier(c, cancel) ==
  /\ Ready(c) /\ cli[c].phase = "up" /\ cli[c].mob = "offered"
  /\ IgnoredTheCarrier(c, cancel) /\ Cancelled
  /\ UNCHANGED <<tableVars, monVars, timer, usageVars, work, fatal>>

ApplicationAcceptedTheCarrier(c) ==
  /\ Ready(c) /\ cli[c].phase = "up" /\ cli[c].mob = "decide"
  /\ AppendBMConnection(c, FALSE, cli[c].pref, "Started")
  /\ LET s == ResetStoredIapInfo(sess[c])
     IN sess' = [sess EXCEPT ![c] =
          IF @.stored = None THEN s
          ELSE PrefIAPNotification(s, conns'[c], black[c], @.stored, "EConnMon")]
  /\ Cancelled
  /\ cli' = [cli EXCEPT ![c].mob = "wait"]
  /\ UNCHANGED <<blackVars, monVars, timer, usageVars, work, fatal>>

\* The application refuses the IAP it migrated to, or (before any offer) the one
\* its connection started with.
ApplicationRejectedTheCarrier(c) ==
  LET i == IF cli[c].mob = "decide" THEN cli[c].pref ELSE cli[c].iap
      s == ResetStoredIapInfo(sess[c])
  IN /\ Ready(c) /\ cli[c].phase = "up" /\ cli[c].mob \in {"wait", "decide"}
     /\ BlackListIap(c, i, "EConnectionLifetime")
     /\ ResetBMConnection(c)
     /\ \/ /\ i \in Wlans /\ GetBMSnap(conns[c]) /\ EnoughWlans
           /\ sess' = [sess EXCEPT ![c] = s]
           /\ ScanWLANNetworks(c, "CarrierRejected")
        \/ /\ ~(i \in Wlans /\ GetBMSnap(conns[c]) /\ EnoughWlans)
           /\ sess' = [sess EXCEPT ![c] = OfferNext(s, conns'[c], black'[c])]
           /\ UNCHANGED monVars
     /\ Cancelled
     /\ cli' = [cli EXCEPT ![c] = WaitResponse(
          IF cli[c].mob = "decide" THEN [cli[c] EXCEPT !.refused = @ \cup {i}] ELSE cli[c])]
     /\ UNCHANGED <<timer, usageVars, work, fatal>>

\* The new bearer is up: the application is asked whether it likes it.
MigrationCompleted(c) ==
  /\ Ready(c) /\ cli[c].phase = "up" /\ cli[c].mob = "reconnect"
  /\ cli' = [cli EXCEPT ![c].mob = "decide"]
  /\ UNCHANGED <<sess, tableVars, blackVars, monVars, dialogVars, usageVars, work, fatal>>

\* The node reads a notification; one that stops it ends it, so that is left for
\* when it has no request outstanding.
ReadNotification(c) ==
  /\ Quiet /\ sess[c].note # None
  /\ sess[c].note.type = "stop" => Free(c)
  /\ cli' = [cli EXCEPT ![c] = Deliver(@, sess[c].note)]
  /\ sess' = [sess EXCEPT ![c].note = None, ![c].wait = TRUE]
  /\ UNCHANGED <<tableVars, blackVars, monVars, dialogVars, usageVars, work, fatal>>

\* What the node does with the answer to its request.
AfterReply(cl, reply, iap) ==
  IF cl.phase = "choosing"
    THEN IF reply = "ok" THEN [cl EXCEPT !.phase = "starting", !.iap = iap]
         ELSE [cl EXCEPT !.phase = "ended"]
  ELSE IF cl.phase = "retrying" THEN [cl EXCEPT !.phase = "ended"]
  ELSE IF cl.phase # "recovering" THEN cl
  ELSE IF reply # "Ignore" THEN [cl EXCEPT !.phase = "down"]
  ELSE IF cl.mob = "reconnect" THEN WaitResponse([cl EXCEPT !.phase = "up"])
  ELSE [cl EXCEPT !.phase = "up"]

ReadReply(c) ==
  /\ Quiet /\ sess[c].reply \notin {"none", "Reselect"}
  /\ cli' = [cli EXCEPT ![c] = AfterReply(@, sess[c].reply, GetBMIap(conns[c]))]
  /\ sess' = [sess EXCEPT ![c].reply = "none"]
  /\ UNCHANGED <<tableVars, blackVars, monVars, dialogVars, usageVars, work, fatal>>

-----------------------------------------------------------------------------
\* Leaving, and the setting of the user.

ApplicationLeavesConnection(c) ==
  /\ Ready(c) /\ cli[c].phase \in {"up", "down"}
  /\ ResetBMConnection(c)
  /\ cli' = [cli EXCEPT ![c].phase = "left"]
  /\ UNCHANGED <<sess, blackVars, monVars, dialogVars, usageVars, work, fatal>>

ApplicationConnectionEnds(c) ==
  /\ Ready(c) /\ cli[c].phase = "left"
  /\ UnblackListIap(c) /\ RemoveBMConnection(c)
  /\ sess' = [Stopped(StoppedByRemove(c)) EXCEPT ![c] =
       [StopDisplayingStartingDlg(sess[c]) EXCEPT !.reg = FALSE, !.rdlg = None, !.sel = None]]
  /\ Cancelled
  /\ cli' = [cli EXCEPT ![c].phase = "ended"]
  /\ UNCHANGED <<monVars, timer, usageVars, work, fatal>>

\* The session closes, at any time when its client dies.  A client that comes
\* back is another session.
Close(c) ==
  /\ Quiet /\ sess[c].open
  /\ CancelScan(c) /\ UnblackListIap(c) /\ RemoveBMConnection(c)
  /\ sess' = [Stopped(StoppedByRemove(c)) EXCEPT ![c] = NoSession]
  /\ Cancelled
  /\ cli' = [cli EXCEPT ![c] = [NoClient EXCEPT !.phase = "gone"]]
  /\ UNCHANGED <<timer, usageVars, work, fatal>>

UserSetsUsage(u) ==
  /\ Quiet /\ u # usage /\ usage' = u
  /\ UNCHANGED <<sess, cli, tableVars, blackVars, monVars, dialogVars, usageSeen, work, fatal>>

\* StopCellularConns: all of them, or those that cannot be asked about, but for
\* the IAP of the MMS.
DataUsageChanged ==
  LET stoppable == Cells \ {MmsIap}
      inUse == {GetBMIap(conns[c]) : c \in Sessions} \cap stoppable
  IN /\ Quiet /\ usageSeen # usage /\ usageSeen' = usage
     /\ sess' = Stopped(
          IF usage = "Disabled" THEN {c \in Sessions : GetBMIap(conns[c]) \in stoppable}
          ELSE UNION {CheckIapForDisconnect(i, conns, usage) : i \in inUse})
     /\ UNCHANGED <<cli, tableVars, blackVars, monVars, dialogVars, usage, work, fatal>>

-----------------------------------------------------------------------------
\* What runs before the server waits for its next request or event.
Internal ==
  \/ PropagateStarting \/ PropagateRoaming
  \/ UnblackTemporary \/ (\E c \in Sessions : SendPrefIAPNotification(c)) \/ ScanCallback

ScanEnds(c) ==
  \E k \in DOMAIN scans :
    scans[k].c = c /\ (ScanFails(k) \/ \E S \in SUBSET Iaps : ScanDone(k, S))

UserAnswers ==
  \E ans \in Answers : AnswerStarting(ans) \/ AnswerRoaming(ans)

Request(c) ==
  \/ Open(c) \/ (\E p \in Prefs : ChooseIap(c, p)) \/ ReselectIap(c) \/ CancelChoose(c)
  \/ IapConnectionStarted(c)
  \/ (\E e \in Errors : ProcessError(c, e)) \/ CancelProcessError(c)
  \/ RegisterPrefIAPNotif(c) \/ UnregisterPrefIAPNotif(c)
  \/ ApplicationMigratesToCarrier(c) \/ ApplicationAcceptedTheCarrier(c)
  \/ ApplicationRejectedTheCarrier(c) \/ MigrationCompleted(c)
  \/ (\E cancel \in BOOLEAN : ApplicationIgnoredTheCarrier(c, cancel))
  \/ ApplicationLeavesConnection(c) \/ ApplicationConnectionEnds(c) \/ Close(c)
  \/ ChooseWhileHeld(c) \/ ReselectWhileHeld(c)

Environment ==
  \/ \E S \in SUBSET Iaps : AvailabilityEvent(S) \/ ObsoleteScanDone(S)
  \/ \E u \in Usages : UserSetsUsage(u)

Next ==
  \/ Internal \/ UserAnswers \/ PermQueryTimerExpires \/ DataUsageChanged
  \/ \E c \in Sessions : Request(c) \/ ScanEnds(c) \/ ReadNotification(c) \/ ReadReply(c)
  \/ Environment

Spec == Init /\ [][Next]_vars

\* The server finishes what a handler began and serves every event; ConnMon ends
\* its scans; the user answers; nodes read what they are sent.
Fairness ==
  /\ WF_vars(Internal) /\ SF_vars(UserAnswers)
  /\ \A c \in Sessions :
       SF_vars(ScanEnds(c)) /\ SF_vars(ReadReply(c)) /\ SF_vars(ReadNotification(c))

FairSpec == Spec /\ Fairness

-----------------------------------------------------------------------------
(* Properties.                                                             *)

Outstanding(c, cb) == LET scan == [c |-> c, cb |-> cb] IN scan \in ToSet(scans) \/ work.cb = scan

\* A request the server holds has something that will answer it: a live scan of
\* its own session with the right callback, or a dialog in the queue.
RequestsProgress ==
  \A c \in Sessions :
    /\ sess[c].choose => sess[c].sdlg # None \/ Outstanding(c, "ChooseIap")
    /\ sess[c].perr # None => Outstanding(c, "ProcessErr")

\* The user is asked about starting a connection only for a request that still
\* waits, never for a silent one, and every such dialog is in the queue.
StartingDialogs ==
  \A c \in Sessions :
    /\ (sess[c].sdlg # None) <=> (c \in ToSet(startQ))
    /\ sess[c].sdlg # None => sess[c].choose /\ ~sess[c].sel.silent

\* While a registered connection is up and no second offer has followed one
\* without an answer, the roaming dialog asks about what its answer does: the IAP
\* the table has it roaming to and the one to be started.
RoamingDialogs ==
  \A c \in Sessions :
    /\ (sess[c].rdlg # None) <=> (c \in ToSet(roamQ))
    /\ sess[c].rdlg # None /\ sess[c].reg /\ sess[c].offers < 2 /\ cli[c].phase = "up" =>
        /\ sess[c].confirm /\ sess[c].migrateIap = sess[c].rdlg.iap
        /\ conns[c] # None /\ conns[c].iap = sess[c].rdlg.iap /\ conns[c].state = "Roaming"

\* Both queues of dialogs and the sessions whose requests the answers complete
\* agree, whatever offers, availability and answers to other dialogs did meanwhile.
DialogsMatch == StartingDialogs /\ RoamingDialogs

\* An IAP whose offer the application refused, by ignoring it or by rejecting it
\* after the migration, is neither used by its connection nor offered to it
\* again, whichever scans, errors and stored notifications were under way, unless
\* offers have crossed.
RefusedStaysRefused ==
  \A c \in Sessions :
    cli[c].phase \in {"up", "recovering"} /\ sess[c].offers < 2 =>
      \A i \in cli[c].refused :
        /\ <<i, "EConnectionLifetime">> \in black[c]
        /\ sess[c].note # [type |-> "pref", iap |-> i]
        /\ ~(cli[c].mob = "offered" /\ cli[c].pref = i)
        /\ GetBMIap(conns[c]) # i

\* The server's table and the node agree: a connection the table has as started
\* is on the IAP of the node's bearer.
TableMatchesBearer ==
  \A c \in Sessions :
    /\ cli[c].phase \in {"up", "recovering"} /\ sess[c].offers < 2
    /\ GetConnectionState(conns[c]) = "Started"
    => conns[c].iap = cli[c].iap

\* A notification to start an IAP is never out of date: the table still has the
\* connection roaming to that IAP when the node reads it.
StartIsWanted ==
  \A c \in Sessions :
    /\ cli[c].phase = "up" /\ sess[c].reg /\ sess[c].offers < 2
    /\ sess[c].note # None /\ sess[c].note.type = "start"
    => conns[c] # None /\ conns[c].iap = sess[c].note.iap /\ conns[c].state = "Roaming"

\* Server and node keep one view of where a connection is and goes, though
\* requests, notifications and answers cross, as long as offers do not.
NodeAndTableAgree == TableMatchesBearer /\ StartIsWanted

\* Notifications of a registered connection are on hold only while the node has
\* something left to do that releases them: a hold with nothing pending would
\* leave the connection where it is for ever.
HoldIsOwed ==
  \A c \in Sessions :
    sess[c].hold /\ sess[c].reg /\ cli[c].phase = "up" =>
      \/ sess[c].note # None \/ cli[c].stored # None
      \/ cli[c].mob \in {"offered", "response", "reconnect", "decide"}

\* Nobody waits for nothing: what answers a held request, or releases a held
\* connection, is under way.
WaitersAreOwed == RequestsProgress /\ HoldIsOwed

\* A node that is told to ignore an error has, or is about to read, what it
\* waits for instead: an offer or an error notification.  It may not under manual
\* control of the WLANs, which bars the offer but not the choice of it, or when
\* offers have crossed.
IgnoredIsNotified ==
  [][\A c \in Sessions :
       /\ ~WlanManual /\ sess[c].offers < 2
       /\ sess[c].reg /\ cli'[c].phase = "recovering"
       /\ sess[c].reply # "Ignore" /\ sess'[c].reply = "Ignore"
       => sess'[c].note # None \/ cli[c].stored # None \/ cli[c].mob = "offered"]_vars

\* Under the setting to always ask, a connection is granted a cellular IAP only
\* by the answer to its own dialog, which the user or the dialog before it in the
\* queue gave, or because another connection already has that IAP started or
\* starting.  The code never asks background applications, nor about the IAP of
\* the MMS: the property says nothing of them.
CellularNeedsConsent ==
  [][\A c \in Sessions :
       LET e == conns'[c] IN
       /\ usage = "Confirm" /\ ~IsBackgroundApplication(sess'[c])
       /\ GetBMIap(e) \in Cells \ {MmsIap} /\ GetConnectionState(e) = "Starting"
       /\ e # None /\ e # conns[c]
       => \/ sess[c].sdlg # None /\ sess[c].sdlg.iap = e.iap
          \/ \E d \in Sessions \ {c} :
               conns[d] # None /\ conns[d].iap = e.iap /\ conns[d].state \in {"Starting", "Started"}]_vars

\* No handler completes a request that is gone or calls back a session that is.
ServerSurvives == fatal = "none"

\* Every ChooseIap and ProcessError the server holds is answered.
RequestsComplete ==
  \A c \in Sessions :
    /\ sess[c].choose ~> ~sess[c].choose
    /\ sess[c].perr # None ~> sess[c].perr = None

\* A node that waits for the server's decision, after it migrated or refused,
\* gets one: an IAP to start, another offer or an error.
ResponseIsAnswered ==
  \A c \in Sessions :
    (cli[c].phase = "up" /\ cli[c].mob = "response")
      ~> ~(cli[c].phase = "up" /\ cli[c].mob = "response")

=============================================================================
