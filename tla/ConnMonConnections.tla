-------------------------- MODULE ConnMonConnections --------------------------
(***************************************************************************)
(* The Connection Monitor server's table of connections (CConnMonIAP) and  *)
(* the notifiers that keep it: the one for all interfaces, which adds a    *)
(* record when an interface comes up, and, for a record while some session *)
(* listens, the one for the progress of the connection and the one for its *)
(* sub-connections. They decide together when the record goes and whether  *)
(* the sessions hear of it.                                                *)
(*                                                                         *)
(* The socket server is the environment: it starts and stops interfaces on *)
(* its own, and queues what it has to say for a request the server has not *)
(* issued again yet. The active objects of the server run in any order.    *)
(***************************************************************************)
EXTENDS Integers, Sequences, FiniteSets

CONSTANTS
  Sessions,   \* the clients
  Iaps,       \* the access points
  MaxStarts   \* bound: the times an interface of an access point is started

ASSUME StartsAssumption == MaxStarts \in Nat
ASSUME IapsAssumption == IsFiniteSet(Iaps)

VARIABLES
  starts,     \* the interfaces that were started for an access point
  stage,      \* the progress of the last one; None when it is gone
  updown,     \* what AllInterfaceNotification has to report, in order
  watching,   \* iConnUpDownNotifier exists and is active
  iConnInfos, \* the table: a record for each connection id in it
  iIdCounter, \* the last connection id given
  listening,  \* the sessions that listen to events
  told,       \* the ids each session that listens heard of and no deletion of
  deleted,    \* how often each of them heard of an id's deletion
  forgotten,  \* the records whose notifiers went with what they had seen, or
              \* came when the link was already closed
  failed,     \* the records whose progress request failed
  crashed     \* the server dereferenced a notifier that is not there

netVars == <<starts, stage>>
ghosts == <<told, deleted, forgotten, failed>>
connVars == <<netVars, updown, watching, iConnInfos, iIdCounter, listening,
              ghosts, crashed>>

None == 0          \* also what GetConnectionStatus leaves when it fails
Starting == 1
LinkLayerOpen == 2
LinkLayerClosed == 3
Stages == None..LinkLayerClosed
NoFiltering == -1

Ids == 1..(MaxStarts * Cardinality(Iaps))   \* bound: one for each start

Records ==
  [iap : Iaps, start : 0..MaxStarts,
   progress : {"none", "idle", "active"},              \* iProgressNotifier
   last : Stages, filter : {NoFiltering} \cup Stages,
   sub : {"none", "idle", "active", "disconnected"},   \* iConnDownNotifier
   deleteSent : BOOLEAN, interfaceClosed : BOOLEAN, linkLayerClosed : BOOLEAN,
   stages : Seq(Stages),    \* what ProgressNotification has to report
   closed : BOOLEAN]        \* AllSubConnectionNotification has to report the end

Reports == [iap : Iaps, state : {"up", "down"}]

RecordOf(iap) ==
  [iap |-> iap, start |-> starts[iap],
   progress |-> "none", last |-> None, filter |-> NoFiltering,
   sub |-> "none", deleteSent |-> FALSE, interfaceClosed |-> FALSE,
   linkLayerClosed |-> FALSE, stages |-> <<>>, closed |-> FALSE]

\* GetConnectionStatus of a record: its attachment outlives the interface.
StatusOf(rec) == IF rec.start = starts[rec.iap] THEN stage[rec.iap] ELSE None

\* Find with MatchIap
OfIap(table, iap) == {id \in DOMAIN table : table[id].iap = iap}

-----------------------------------------------------------------------------
(* The notifiers of a record *)

\* The notifiers of a record go together, with what they know.
WithoutNotifiers(rec) ==
  [rec EXCEPT !.progress = "none", !.sub = "none", !.last = None,
              !.filter = NoFiltering, !.deleteSent = FALSE,
              !.interfaceClosed = FALSE, !.linkLayerClosed = FALSE]

\* AddConnNotificationsL: a notifier that is there stays as it is. The stages
\* up to the present one are filtered out when the record is not a new one.
WithNotifiers(rec, filter) ==
  IF rec.progress # "none"
    THEN rec
    ELSE [rec EXCEPT !.progress = "active", !.filter = filter,
                     !.sub = IF StatusOf(rec) = LinkLayerOpen THEN "active" ELSE "idle"]

AllWithNotifiers(table) ==
  [id \in DOMAIN table |-> WithNotifiers(table[id], StatusOf(table[id]))]

Without(table, ids) == [id \in DOMAIN table \ ids |-> table[id]]

\* SendDeletedEvent: tells it once, and removes the record if its interface
\* is known to be gone.
Dropped(table, id) ==
  LET rec == table[id]
  IN  IF rec.interfaceClosed THEN Without(table, {id})
      ELSE [table EXCEPT ![id].deleteSent = TRUE]

AfterSend(table, id) == IF table[id].deleteSent THEN table ELSE Dropped(table, id)
Sends(table, id) == IF table[id].deleteSent THEN {} ELSE {id}

Counted(n) == IF n < 2 THEN n + 1 ELSE n

\* The events that a step adds: the ids whose creation and deletion it tells.
Tell(created, deletedIds) ==
  /\ told' = [s \in Sessions |->
                IF s \in listening THEN (told[s] \ deletedIds) \cup created ELSE {}]
  /\ deleted' = [s \in Sessions |-> [id \in Ids |->
                   IF s \in listening /\ id \in deletedIds
                     THEN Counted(deleted[s][id]) ELSE deleted[s][id]]]

TellNothing == UNCHANGED <<told, deleted>>

-----------------------------------------------------------------------------
(* The interfaces, which the socket server starts and stops *)

\* What the attachments to the present interface of an access point hear.
Heard(iap, st, ends) ==
  [id \in DOMAIN iConnInfos |->
     LET rec == iConnInfos[id]
     IN  IF rec.iap # iap \/ rec.start # starts[iap] THEN rec
         ELSE [rec EXCEPT !.stages = Append(@, st), !.closed = @ \/ ends]]

Report(iap, state) ==
  updown' = IF watching THEN Append(updown, [iap |-> iap, state |-> state]) ELSE updown

UnchangedByNet == UNCHANGED <<watching, iIdCounter, listening, ghosts, crashed>>

StartInterface(iap) ==
  /\ stage[iap] = None
  /\ starts[iap] < MaxStarts
  /\ starts' = [starts EXCEPT ![iap] = @ + 1]
  /\ stage' = [stage EXCEPT ![iap] = Starting]
  /\ Report(iap, "up")
  /\ UNCHANGED iConnInfos
  /\ UnchangedByNet

OpenLink(iap) ==
  /\ stage[iap] = Starting
  /\ stage' = [stage EXCEPT ![iap] = LinkLayerOpen]
  /\ iConnInfos' = Heard(iap, LinkLayerOpen, FALSE)
  /\ UNCHANGED <<starts, updown>>
  /\ UnchangedByNet

CloseLink(iap) ==
  /\ stage[iap] \in {Starting, LinkLayerOpen}
  /\ stage' = [stage EXCEPT ![iap] = LinkLayerClosed]
  /\ iConnInfos' = Heard(iap, LinkLayerClosed, stage[iap] = LinkLayerOpen)
  /\ UNCHANGED <<starts, updown>>
  /\ UnchangedByNet

StopInterface(iap) ==
  /\ stage[iap] = LinkLayerClosed
  /\ stage' = [stage EXCEPT ![iap] = None]
  /\ Report(iap, "down")
  /\ UNCHANGED <<starts, iConnInfos>>
  /\ UnchangedByNet

-----------------------------------------------------------------------------
(* The notifier for all interfaces *)

Handled(state) ==
  /\ ~crashed
  /\ watching
  /\ updown # <<>>
  /\ Head(updown).state = state
  /\ updown' = Tail(updown)

UpDownKeeps == UNCHANGED <<netVars, watching, listening, failed>>

\* CompleteConnectionClosing: what is left of the table when a new interface
\* of a known access point comes up, and the deletion it tells.
ClosingNever(iap) == {}
Closing(iap) == OfIap(iConnInfos, iap)
ClosingTells(iap) == UNION {Sends(iConnInfos, id) : id \in Closing(iap)}

\* It asks the notifiers whether they are active, and they may not be there.
ClosingCrashes(iap) == \E id \in Closing(iap) : iConnInfos[id].progress = "none"

\* AddConnectionL: the new record attaches to whatever interface of the access
\* point there is now. Its notifiers report every stage: the notifier that
\* calls is not active while it runs.
Added(iap) ==
  LET rec == RecordOf(iap)
      new == IF listening # {} THEN WithNotifiers(rec, NoFiltering) ELSE rec
      old == Without(iConnInfos, Closing(iap))
  IN  [id \in DOMAIN old \cup {iIdCounter'} |->
         IF id = iIdCounter' THEN new ELSE old[id]]

UpCrashes(iap) ==
  /\ ClosingCrashes(iap)
  /\ crashed' = TRUE
  /\ TellNothing
  /\ UNCHANGED <<iConnInfos, iIdCounter, forgotten>>

UpFails(iap) ==
  /\ ~ClosingCrashes(iap)
  /\ stage[iap] = None
  /\ iIdCounter' = iIdCounter + 1
  /\ iConnInfos' = Without(iConnInfos, Closing(iap))
  /\ Tell({}, ClosingTells(iap))
  /\ UNCHANGED <<forgotten, crashed>>

UpAdds(iap) ==
  /\ ~ClosingCrashes(iap)
  /\ stage[iap] # None
  /\ iIdCounter' = iIdCounter + 1
  /\ iConnInfos' = Added(iap)
  /\ Tell({iIdCounter'}, ClosingTells(iap))
  /\ forgotten' = IF listening # {} /\ stage[iap] = LinkLayerClosed
                    THEN forgotten \cup {iIdCounter'} ELSE forgotten
  /\ UNCHANGED crashed

InterfaceUp ==
  /\ Handled("up")
  /\ iIdCounter + 1 \in Ids
  /\ LET iap == Head(updown).iap
     IN  UpCrashes(iap) \/ UpFails(iap) \/ UpAdds(iap)
  /\ UpDownKeeps

AfterDownUnmarked(table, id) ==
  IF listening = {} \/ table[id].deleteSent THEN Without(table, {id})
  ELSE IF table[id].linkLayerClosed THEN AfterSend(table, id)
  ELSE table

\* The record goes at once when nobody listens, or when its deletion was told.
\* Otherwise its notifiers finish it, unless they have seen the link closed.
AfterDown(table, id) ==
  LET known == [table EXCEPT ![id].interfaceClosed = TRUE]
  IN  IF listening = {} \/ table[id].deleteSent THEN Without(table, {id})
      ELSE IF table[id].linkLayerClosed THEN AfterSend(known, id)
      ELSE known

DownTells(iap) ==
  IF listening = {} THEN {}
  ELSE UNION {Sends(iConnInfos, id) :
                id \in {i \in OfIap(iConnInfos, iap) : iConnInfos[i].linkLayerClosed}}

InterfaceDown ==
  /\ Handled("down")
  /\ LET ids == OfIap(iConnInfos, Head(updown).iap)
     IN  iConnInfos' = IF ids = {} THEN iConnInfos
                       ELSE AfterDown(iConnInfos, CHOOSE id \in ids : TRUE)
  /\ Tell({}, DownTells(Head(updown).iap))
  /\ UNCHANGED <<iIdCounter, forgotten, crashed>>
  /\ UpDownKeeps

-----------------------------------------------------------------------------
(* The notifiers of one record *)

NotifierKeeps ==
  UNCHANGED <<netVars, updown, watching, iIdCounter, listening, forgotten, crashed>>

\* The stage is only reported when it is another one than the last and passes
\* the filter, which ends with the first stage that passes.
IsNews(rec, st) == st # rec.last
PassesFilter(rec, st) == rec.filter = NoFiltering \/ st > rec.filter

\* The open link wakes the notifier of the sub-connections, which does not ask
\* again once it has seen the connection end.
AfterOpen(rec) ==
  IF rec.sub = "idle" THEN [rec EXCEPT !.sub = "active", !.linkLayerClosed = FALSE]
  ELSE IF rec.sub = "disconnected" THEN [rec EXCEPT !.linkLayerClosed = FALSE]
  ELSE rec

AfterClosed(rec) == [rec EXCEPT !.linkLayerClosed = TRUE]

\* CProgressNotifier::RunL up to the deletion it may tell.
AfterStage(rec, st) ==
  LET taken == [rec EXCEPT !.stages = Tail(@), !.last = st]
      passed == [taken EXCEPT !.filter = NoFiltering]
  IN  IF ~IsNews(rec, st) \/ ~PassesFilter(rec, st) THEN taken
      ELSE CASE st = LinkLayerOpen -> AfterOpen(passed)
             [] st = LinkLayerClosed -> AfterClosed(passed)
             [] OTHER -> passed

Progress(id) ==
  LET rec == iConnInfos[id]
      st == Head(rec.stages)
      now == [iConnInfos EXCEPT ![id] = AfterStage(rec, st)]
      ends == /\ st = LinkLayerClosed
              /\ IsNews(rec, st) /\ PassesFilter(rec, st)
              /\ rec.interfaceClosed
      idle == [now EXCEPT ![id].progress = "idle"]
  IN  /\ ~crashed
      /\ rec.progress = "active"
      /\ rec.stages # <<>>
      /\ iConnInfos' = IF ends THEN AfterSend(idle, id) ELSE now
      /\ Tell({}, IF ends THEN Sends(now, id) ELSE {})
      /\ NotifierKeeps
      /\ UNCHANGED failed

\* An error ends the requests for the progress of a connection.
ProgressFails(id) ==
  /\ ~crashed
  /\ iConnInfos[id].progress = "active"
  /\ iConnInfos[id].stages = <<>>
  /\ StatusOf(iConnInfos[id]) = None
  /\ iConnInfos' = [iConnInfos EXCEPT ![id].progress = "idle"]
  /\ failed' = failed \cup {id}
  /\ TellNothing
  /\ NotifierKeeps

\* CSubConnUpDownNotifier::RunL: whoever of the two notifiers comes last tells
\* the deletion.
SubEnds(id, sub) ==
  LET now == [iConnInfos EXCEPT ![id].sub = sub, ![id].closed = FALSE]
      ends == iConnInfos[id].progress # "active"
  IN  /\ iConnInfos' = IF ends THEN AfterSend(now, id) ELSE now
      /\ Tell({}, IF ends THEN Sends(now, id) ELSE {})

SubConnectionClosed(id) ==
  /\ ~crashed
  /\ iConnInfos[id].sub = "active"
  /\ iConnInfos[id].closed
  /\ SubEnds(id, "disconnected")
  /\ NotifierKeeps
  /\ UNCHANGED failed

\* KErrNotReady
SubConnectionNotReady(id) ==
  /\ ~crashed
  /\ iConnInfos[id].sub = "active"
  /\ ~iConnInfos[id].closed
  /\ StatusOf(iConnInfos[id]) = None
  /\ SubEnds(id, "idle")
  /\ NotifierKeeps
  /\ UNCHANGED failed

-----------------------------------------------------------------------------
(* The clients *)

\* AllInterfaceNotification reports the interfaces that exist when it is first
\* asked for.
Present == {iap \in Iaps : stage[iap] # None}
InSomeOrder(iaps) ==
  CHOOSE q \in [1..Cardinality(iaps) -> [iap : iaps, state : {"up"}]] :
    \A iap \in iaps : \E n \in DOMAIN q : q[n].iap = iap

Watch ==
  /\ watching' = TRUE
  /\ updown' = IF watching THEN updown ELSE InSomeOrder(Present)

\* What a notifier saw and the next one on the same record cannot see again.
Seen(rec) == rec.interfaceClosed \/ rec.linkLayerClosed \/ rec.deleteSent

\* The records whose new notifiers will not be told that the link closes: the
\* filter keeps the stage back, or it was over when the record attached.
Missed(table) ==
  {id \in DOMAIN table :
     LET rec == table[id]
     IN  /\ rec.progress = "none"
         /\ \/ StatusOf(rec) = LinkLayerClosed
            \/ /\ StatusOf(rec) = None
               /\ ~\E n \in DOMAIN rec.stages : rec.stages[n] = LinkLayerClosed}

\* ListenL
Listen(s) ==
  /\ ~crashed
  /\ s \notin listening
  /\ listening' = listening \cup {s}
  /\ Watch
  /\ iConnInfos' = AllWithNotifiers(iConnInfos)
  /\ told' = [told EXCEPT ![s] = {}]
  /\ deleted' = [deleted EXCEPT ![s] = [id \in Ids |-> 0]]
  /\ forgotten' = forgotten \cup Missed(iConnInfos)
  /\ UNCHANGED <<netVars, iIdCounter, failed, crashed>>

\* CancelListen: the notifiers go with the last listener.
AfterCancel(ls) ==
  IF ls = {} THEN [id \in DOMAIN iConnInfos |-> WithoutNotifiers(iConnInfos[id])]
  ELSE iConnInfos

CancelListen(s) ==
  /\ ~crashed
  /\ s \in listening
  /\ listening' = listening \ {s}
  /\ iConnInfos' = AfterCancel(listening')
  /\ told' = [told EXCEPT ![s] = {}]
  /\ deleted' = [deleted EXCEPT ![s] = [id \in Ids |-> 0]]
  /\ forgotten' = IF listening' # {} THEN forgotten
                  ELSE forgotten \cup {id \in DOMAIN iConnInfos : Seen(iConnInfos[id])}
  /\ UNCHANGED <<netVars, updown, watching, iIdCounter, failed, crashed>>

ObsoleteAnyway(table) == {id \in DOMAIN table : StatusOf(table[id]) = None}

\* EnumerateConnections removes the records of connections that are gone and
\* have no notifier that is still to tell it.
Obsolete(table) ==
  {id \in DOMAIN table : /\ StatusOf(table[id]) = None
                         /\ table[id].sub = "none" \/ table[id].deleteSent}

Cleaned(table) ==
  LET kept == Without(table, Obsolete(table))
  IN  IF listening = {} THEN kept ELSE AllWithNotifiers(kept)

\* EnumerateConnectionsL: the ids that the client gets.
Listed(table) == {id \in DOMAIN table : ~table[id].deleteSent}

Enumerate(s) ==
  /\ ~crashed
  /\ Watch
  /\ iConnInfos' = Cleaned(iConnInfos)
  /\ told' = IF s \in listening THEN [told EXCEPT ![s] = @ \cup Listed(iConnInfos')]
             ELSE told
  /\ forgotten' = IF listening = {} THEN forgotten ELSE forgotten \cup Missed(iConnInfos)
  /\ UNCHANGED <<netVars, iIdCounter, listening, deleted, failed, crashed>>

-----------------------------------------------------------------------------
ConnInit ==
  /\ starts = [iap \in Iaps |-> 0]
  /\ stage = [iap \in Iaps |-> None]
  /\ updown = <<>>
  /\ watching = FALSE
  /\ iConnInfos = [id \in {} |-> RecordOf(0)]
  /\ iIdCounter = 0
  /\ listening = {}
  /\ told = [s \in Sessions |-> {}]
  /\ deleted = [s \in Sessions |-> [id \in Ids |-> 0]]
  /\ forgotten = {}
  /\ failed = {}
  /\ crashed = FALSE

Network ==
  \E iap \in Iaps :
    \/ StartInterface(iap)
    \/ OpenLink(iap)
    \/ CloseLink(iap)
    \/ StopInterface(iap)

Clients ==
  \E s \in Sessions :
    \/ Listen(s)
    \/ CancelListen(s)
    \/ Enumerate(s)

-----------------------------------------------------------------------------
(* Properties *)

ConnTypeOK ==
  /\ starts \in [Iaps -> 0..MaxStarts]
  /\ stage \in [Iaps -> Stages]
  /\ updown \in Seq(Reports)
  /\ watching \in BOOLEAN
  /\ DOMAIN iConnInfos \subseteq Ids
  /\ \A id \in DOMAIN iConnInfos :
       /\ iConnInfos[id] \in Records
       /\ iConnInfos[id].progress = "none" <=> iConnInfos[id].sub = "none"
  /\ iIdCounter \in {0} \cup Ids
  /\ listening \subseteq Sessions
  /\ told \in [Sessions -> SUBSET Ids]
  /\ deleted \in [Sessions -> [Ids -> 0..2]]
  /\ forgotten \subseteq Ids
  /\ failed \subseteq Ids
  /\ crashed \in BOOLEAN

\* A session that goes on listening is told at most once that a connection is
\* deleted, however the interface's notifier, the progress notifier and the
\* one for the sub-connections interleave: each of them may be the one that
\* tells it (SendDeletedEvent).
DeletedOnce == \A s \in Sessions, id \in Ids : deleted[s][id] < 2

\* A connection a listening session heard of, by its creation or because the
\* session enumerated it, leaves the table only with its deletion told: an
\* interface that is down, an enumeration that cleans up and a new interface of
\* the same access point remove records too.
GoneIsTold == \A s \in listening : told[s] \subseteq DOMAIN iConnInfos

\* There is one record for an access point (AddConnectionL finishes the old
\* one): the reports of the interface notifier name an access point only, and
\* everything that looks a record up by it takes the first it finds.
OneRecordPerIap ==
  \A i, j \in DOMAIN iConnInfos : iConnInfos[i].iap = iConnInfos[j].iap => i = j

\* A new interface of a known access point makes the server use the notifiers of
\* the old record, which are only there while some session listens. The server
\* survives as long as no listener left a record half closed behind.
ServerSurvives ==
  \A iap \in Iaps :
    /\ ~crashed
    /\ updown # <<>>
    /\ Head(updown) = [iap |-> iap, state |-> "up"]
    /\ ClosingCrashes(iap)
    => OfIap(iConnInfos, iap) \subseteq forgotten
=============================================================================
