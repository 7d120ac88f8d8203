---------------------------- MODULE ConnMonRequests ----------------------------
(***************************************************************************)
(* What the clients of the Connection Monitor ask of a connection and get  *)
(* an answer for later: the amount of data transferred, whether it is      *)
(* active, and that it is stopped. The server keeps one operation of a     *)
(* kind running for a connection, and answers every session that waits for *)
(* it. The steps of the table and its notifiers (ConnMonConnections) end   *)
(* operations, and start those for the activity of an open connection.     *)
(***************************************************************************)
EXTENDS ConnMonConnections

CONSTANT MaxTimers   \* bound: the timers that run for a connection's activity

ASSUME TimersAssumption == MaxTimers \in Nat \ {0}

VARIABLES
  pending,    \* the request each session waits for
  volume,     \* the connections whose iDataVolumeAO is active
  activity,   \* each connection's iActivityNotifier
  timers,     \* the CTimerAOs that run for a connection
  stop,       \* each connection's iAsyncStopStatus
  daemons,    \* the connections with a thread that stops them
  iAsyncStopQueue, \* the stop requests that wait, with the ids each waits for;
                   \* each is counted on its own, whatever their order
  unstarted   \* the connections whose thread could not be started

asyncVars == <<volume, activity, timers>>
stopVars == <<stop, daemons, iAsyncStopQueue, unstarted>>
requestVars == <<pending, asyncVars, stopVars>>
allVars == <<connVars, requestVars>>

\* iActivityNotifier is not there, not active, active for one answer (that is
\* when its threshold is KOneTimeQueryThreshold), active for every change, or
\* its status is KErrDisconnected.
ActivityStates == {"none", "idle", "oneshot", "continuous", "disconnected"}
Inactive == {"none", "idle", "disconnected"}

NoRequest == [kind |-> "none", id |-> 0]
Request(kind, id) == [kind |-> kind, id |-> id]
Kinds == {"volume", "activity", "stop", "unregistered"}
Waits(s, kind, ids) == pending[s].kind = kind /\ pending[s].id \in ids

Elements == [session : Sessions, ids : SUBSET Ids, count : Nat]

-----------------------------------------------------------------------------
(* The operations *)

\* CompleteDataVolumeRequests and CompleteActivityRequests of every session.
Answered(kind, ids) ==
  [s \in Sessions |-> IF Waits(s, kind, ids) THEN NoRequest ELSE pending[s]]

BothAnsweredHalf(ids) ==
  [s \in Sessions |-> IF Waits(s, "volume", ids) THEN NoRequest ELSE pending[s]]

BothAnswered(ids) ==
  [s \in Sessions |->
     IF Waits(s, "volume", ids) \/ Waits(s, "activity", ids) THEN NoRequest ELSE pending[s]]

\* GetActivityOneShotL: a notifier that is not active asks once, and a timer
\* bounds it. Nothing stops the timer.
OneShot(ids) == {id \in ids : activity[id] \in Inactive}

\* Receive: asks for every change if some session has an activity threshold.
\* After a cancelled request it does not ask again.
Resumed(id, wanted) ==
  CASE activity[id] = "disconnected" -> "disconnected"
    [] wanted -> "continuous"
    [] OTHER -> "idle"

\* DoCancel of the two active objects when a connection is stopped.
Cancelled(ids) ==
  [id \in Ids |-> IF id \in ids /\ activity[id] \in {"oneshot", "continuous"} THEN "idle"
                  ELSE activity[id]]

-----------------------------------------------------------------------------
(* What the steps of the table do to the requests *)

\* Removed records answer what is pending on them (RemoveConnSettingsFromSessions)
\* and take their operations with them; so do all records when the last
\* listener leaves (DeleteConnNotifications).
Removed == DOMAIN iConnInfos \ DOMAIN iConnInfos'
Silenced == IF listening # {} /\ listening' = {} THEN DOMAIN iConnInfos ELSE {}
Ended == Removed \cup Silenced

\* The activity notifiers that a step starts: for one answer when the link has
\* opened or is open, and for every change when they are there and idle.
Follow(opened, resumed) ==
  LET once == {id \in opened \ Ended : activity[id] \in Inactive}
  IN  \E wanted \in SUBSET resumed :
        /\ \A id \in once : timers[id] < MaxTimers
        /\ pending' = BothAnswered(Ended)
        /\ volume' = volume \ Ended
        /\ activity' = [id \in Ids |->
             CASE id \in Ended -> "none"
               [] id \in once -> "oneshot"
               [] id \in resumed -> Resumed(id, id \in wanted)
               [] OTHER -> activity[id]]
        /\ timers' = [id \in Ids |->
             IF id \in Removed THEN 0 ELSE IF id \in once THEN timers[id] + 1 ELSE timers[id]]
        /\ stop' = [id \in Ids |-> IF id \in Removed THEN "no" ELSE stop[id]]
        /\ UNCHANGED <<daemons, iAsyncStopQueue, unstarted>>

\* AddConnNotificationsL for some records of the table a step leaves.
NowOpen == {id \in DOMAIN iConnInfos' : StatusOf(iConnInfos'[id]) = LinkLayerOpen}
Launched(ids) == {id \in ids : activity[id] = "none"}
Renewed(ids) == {id \in ids : activity[id] \in {"idle", "disconnected"}}

FollowAdding(ids) == Follow(Launched(ids \cap NowOpen), Renewed(ids))

New == DOMAIN iConnInfos' \ DOMAIN iConnInfos

UpOfInterface ==
  /\ InterfaceUp
  /\ IF listening # {} THEN FollowAdding(New) ELSE Follow({}, {})

ProgressOf(id) ==
  LET rec == iConnInfos[id]
      opens == /\ Head(rec.stages) = LinkLayerOpen
               /\ IsNews(rec, LinkLayerOpen)
               /\ PassesFilter(rec, LinkLayerOpen)
  IN  /\ Progress(id)
      /\ Follow(IF opens THEN {id} ELSE {}, {})

Others ==
  \/ InterfaceDown
  \/ \E id \in DOMAIN iConnInfos :
       ProgressFails(id) \/ SubConnectionClosed(id) \/ SubConnectionNotReady(id)
  \/ \E s \in Sessions : CancelListen(s)

Adding ==
  \E s \in Sessions :
    \/ Listen(s)
    \/ Enumerate(s)

TableStep ==
  \/ Network /\ UNCHANGED requestVars
  \/ UpOfInterface
  \/ \E id \in DOMAIN iConnInfos : ProgressOf(id)
  \/ Others /\ Follow({}, {})
  \/ /\ Adding
     /\ IF listening' # {} THEN FollowAdding(DOMAIN iConnInfos') ELSE Follow({}, {})

-----------------------------------------------------------------------------
(* The amount of data transferred *)

Free(s) == ~crashed /\ pending[s] = NoRequest

\* GetUintAttribute starts the operation. The session then checks whether the
\* connection is valid, which may fail for one that is gone: the request is not
\* registered, and its message is not completed either.
AskVolume(s, id) ==
  /\ Free(s)
  /\ id \in DOMAIN iConnInfos
  /\ volume' = volume \cup {id}
  /\ \/ pending' = [pending EXCEPT ![s] = Request("volume", id)]
     \/ /\ StatusOf(iConnInfos[id]) = None
        /\ pending' = [pending EXCEPT ![s] = Request("unregistered", id)]
  /\ UNCHANGED <<connVars, activity, timers, stopVars>>

VolumeIsKnown(id) ==
  /\ ~crashed
  /\ id \in volume
  /\ volume' = volume \ {id}
  /\ pending' = Answered("volume", {id})
  /\ UNCHANGED <<connVars, activity, timers, stopVars>>

-----------------------------------------------------------------------------
(* Whether the connection is active *)

\* GetBoolAttribute: while some session listens and the notifier is active, the
\* last answer is given at once.
AnsweredAtOnce(id) == listening # {} /\ activity[id] \notin Inactive

AskActivity(s, id) ==
  /\ Free(s)
  /\ id \in DOMAIN iConnInfos
  /\ StatusOf(iConnInfos[id]) = LinkLayerOpen
  /\ ~AnsweredAtOnce(id)
  /\ pending' = [pending EXCEPT ![s] = Request("activity", id)]
  /\ IF id \in OneShot({id})
       THEN /\ timers[id] < MaxTimers
            /\ activity' = [activity EXCEPT ![id] = "oneshot"]
            /\ timers' = [timers EXCEPT ![id] = @ + 1]
       ELSE UNCHANGED <<activity, timers>>
  /\ UNCHANGED <<connVars, volume, stopVars>>

\* CActivityNotifier::RunL: a single answer goes to the sessions that wait, and
\* the notifier goes on for the listeners if the answer is no error.
ActivityIsKnown(id) ==
  /\ ~crashed
  /\ activity[id] = "oneshot"
  /\ pending' = Answered("activity", {id})
  /\ \E wanted \in IF listening # {} THEN BOOLEAN ELSE {FALSE} :
       activity' = [activity EXCEPT ![id] = Resumed(id, wanted)]
  /\ UNCHANGED <<connVars, volume, timers, stopVars>>

ActivityChanges(id) ==
  /\ ~crashed
  /\ activity[id] = "continuous"
  /\ \E after \in {"continuous", "idle", "disconnected"} :
       activity' = [activity EXCEPT ![id] = after]
  /\ UNCHANGED <<connVars, pending, volume, timers, stopVars>>

\* CTimerAO::RunL: it cancels whatever single request is active now, which
\* answers the sessions that wait.
TimerExpires(id) ==
  /\ ~crashed
  /\ timers[id] > 0
  /\ timers' = [timers EXCEPT ![id] = @ - 1]
  /\ IF activity[id] = "oneshot"
       THEN /\ pending' = Answered("activity", {id})
            /\ \E wanted \in IF listening # {} THEN BOOLEAN ELSE {FALSE} :
                 activity' = [activity EXCEPT ![id] = Resumed(id, wanted)]
       ELSE UNCHANGED <<pending, activity>>
  /\ UNCHANGED <<connVars, volume, stopVars>>

-----------------------------------------------------------------------------
(* Stopping *)

\* StartAsyncStopThreadL: what runs on the connections is cancelled before the
\* thread starts, and the status is set whether the thread starts or not.
StartStop(ids, failing) ==
  /\ volume' = volume \ ids
  /\ activity' = Cancelled(ids)
  /\ stop' = [id \in Ids |-> IF id \in ids THEN "started" ELSE stop[id]]
  /\ daemons' = daemons \cup (ids \ failing)
  /\ unstarted' = unstarted \cup failing
  /\ UNCHANGED timers

Queued(s, ids) ==
  iAsyncStopQueue' = iAsyncStopQueue \cup {[session |-> s, ids |-> ids, count |-> 0]}

NotStarted(ids) == {id \in ids : stop[id] = "no"}
Unstopped == {id \in DOMAIN iConnInfos : stop[id] # "completed"}

\* AsyncConnectionStopL. A connection whose stop has ended is answered at once.
AskStop(s, id) ==
  /\ Free(s)
  /\ id \in Unstopped
  /\ \E failing \in SUBSET NotStarted({id}) :
       /\ StartStop(NotStarted({id}), failing)
       /\ IF failing = {}
            THEN /\ Queued(s, {id})
                 /\ pending' = [BothAnswered(NotStarted({id})) EXCEPT
                                  ![s] = Request("stop", id)]
            ELSE /\ pending' = BothAnswered({id})
                 /\ UNCHANGED iAsyncStopQueue
  /\ UNCHANGED connVars

\* AsyncConnectionStopAllL answers with an error at once if a thread could not be
\* started, though others were.
AskStopAll(s) ==
  /\ Free(s)
  /\ Unstopped # {}
  /\ \E failing \in SUBSET NotStarted(Unstopped) :
       /\ StartStop(NotStarted(Unstopped), failing)
       /\ IF failing = {}
            THEN /\ Queued(s, Unstopped)
                 /\ pending' = [BothAnswered(NotStarted(Unstopped)) EXCEPT
                                  ![s] = Request("stop", 0)]
            ELSE /\ pending' = BothAnswered(NotStarted(Unstopped))
                 /\ UNCHANGED iAsyncStopQueue
  /\ UNCHANGED connVars

\* CompleteAsyncStopReqs: the connection is counted for the requests that wait
\* for it, and those that have all of theirs counted are answered.
CountedAlways(e, id) == [e EXCEPT !.count = @ + 1]
CountedIn(e, id) == IF id \in e.ids THEN [e EXCEPT !.count = @ + 1] ELSE e
IsCompleteLate(e) == e.count > Cardinality(e.ids)
IsComplete(e) == e.count >= Cardinality(e.ids)

\* ConnectionStopThreadFunction: Stop returns when the interface of the access
\* point has closed, or with an error, as do the calls before it.
Ends(id, ok) ==
  LET counted == {CountedIn(e, id) : e \in iAsyncStopQueue}
      complete == {e \in counted : IsComplete(e)}
      done == {e.session : e \in complete}
  IN  /\ (ok /\ id \in DOMAIN iConnInfos) =>
           stage[iConnInfos[id].iap] \in {LinkLayerClosed, None}
      /\ daemons' = daemons \ {id}
      /\ stop' = IF id \in DOMAIN iConnInfos THEN [stop EXCEPT ![id] = "completed"] ELSE stop
      /\ iAsyncStopQueue' = counted \ complete
      /\ pending' = [s \in Sessions |->
                       IF s \in done /\ pending[s].kind = "stop" THEN NoRequest ELSE pending[s]]

\* CConnMonAsyncStopDaemon::RunL
StopEnds(id) ==
  /\ ~crashed
  /\ id \in daemons
  /\ \E ok \in BOOLEAN : Ends(id, ok)
  /\ UNCHANGED <<connVars, asyncVars, unstarted>>

\* SetBoolAttribute: StopConnection in the server's own thread. It cancels what
\* runs on the connection; the interface ends on its own or not at all.
StopNow(s, id) ==
  /\ Free(s)
  /\ id \in DOMAIN iConnInfos
  /\ volume' = volume \ {id}
  /\ activity' = Cancelled({id})
  /\ pending' = BothAnswered({id})
  /\ UNCHANGED <<connVars, timers, stopVars>>

-----------------------------------------------------------------------------
(* Cancelling *)

\* CancelAsyncRequest: the requests of the kind, on every connection. What is
\* not registered is not found.
Cancel(s) ==
  /\ ~crashed
  /\ pending[s].kind \in {"volume", "activity", "stop"}
  /\ pending' = [pending EXCEPT ![s] = NoRequest]
  /\ iAsyncStopQueue' = IF pending[s].kind # "stop" THEN iAsyncStopQueue
                        ELSE {e \in iAsyncStopQueue : e.session # s}
  /\ UNCHANGED <<connVars, asyncVars, stop, daemons, unstarted>>

-----------------------------------------------------------------------------
Init ==
  /\ ConnInit
  /\ pending = [s \in Sessions |-> NoRequest]
  /\ volume = {}
  /\ activity = [id \in Ids |-> "none"]
  /\ timers = [id \in Ids |-> 0]
  /\ stop = [id \in Ids |-> "no"]
  /\ daemons = {}
  /\ iAsyncStopQueue = {}
  /\ unstarted = {}

Asking ==
  \E s \in Sessions :
    \/ \E id \in DOMAIN iConnInfos :
         \/ AskVolume(s, id)
         \/ AskActivity(s, id)
         \/ AskStop(s, id)
         \/ StopNow(s, id)
    \/ AskStopAll(s)
    \/ Cancel(s)

Operations ==
  \E id \in Ids :
    \/ VolumeIsKnown(id)
    \/ ActivityIsKnown(id)
    \/ ActivityChanges(id)
    \/ TimerExpires(id)
    \/ StopEnds(id)

Next ==
  \/ TableStep
  \/ Asking
  \/ Operations

Spec == Init /\ [][Next]_allVars

\* The active objects that keep the table.
Handling ==
  \/ UpOfInterface
  \/ InterfaceDown /\ Follow({}, {})
  \/ \E id \in DOMAIN iConnInfos : ProgressOf(id)
  \/ (\E id \in DOMAIN iConnInfos : SubConnectionClosed(id)) /\ Follow({}, {})

\* The server's thread runs its active objects when what they asked for has come,
\* RConnection ends the requests it was given, the timers expire, and Stop
\* returns.
Fairness ==
  /\ WF_allVars(Handling)
  /\ \A id \in Ids :
       /\ WF_allVars(VolumeIsKnown(id))
       /\ WF_allVars(TimerExpires(id))
       /\ WF_allVars(StopEnds(id))

FairSpec == Spec /\ Fairness

-----------------------------------------------------------------------------
(* Properties *)

TypeOK ==
  /\ ConnTypeOK
  /\ pending \in [Sessions -> [kind : {"none"} \cup Kinds, id : {0} \cup Ids]]
  /\ volume \subseteq Ids
  /\ activity \in [Ids -> ActivityStates]
  /\ timers \in [Ids -> 0..MaxTimers]
  /\ stop \in [Ids -> {"no", "started", "completed"}]
  /\ daemons \subseteq Ids
  /\ iAsyncStopQueue \subseteq Elements
  /\ unstarted \subseteq Ids

WaitingFor(s) == {e \in iAsyncStopQueue : e.session = s}
Unbounded(s) == \E e \in WaitingFor(s) : e.ids \cap unstarted # {}

\* Whoever waits for an answer has somebody to give it: the operation is active
\* on a connection in the table, a timer bounds the one without a bound of its
\* own, and a stop waits in the queue for a thread that runs. Stops, cancels,
\* removed records, last listeners and stale timers all end operations that
\* other sessions wait for. Left out are the stop of a connection whose thread
\* could not be started, which stays marked as started, and the request that the
\* session did not register.
PendingHasOperation ==
  \A s \in Sessions :
    LET id == pending[s].id
    IN  /\ pending[s].kind = "volume" => id \in volume \cap DOMAIN iConnInfos
        /\ pending[s].kind = "activity" =>
             /\ id \in DOMAIN iConnInfos
             /\ activity[id] = "oneshot"
             /\ timers[id] > 0
        /\ pending[s].kind = "stop" =>
             \E e \in WaitingFor(s) : e.ids \cap (daemons \cup unstarted) # {}

\* The table, the requests and the operations fit together, a deletion is told
\* once, and no handler uses a notifier that is gone.
Consistent == TypeOK /\ DeletedOnce /\ ServerSurvives /\ PendingHasOperation

\* The end of a thread answers a stop request only if no thread is left for the
\* connections it waits for: requests share threads that others started, and
\* records are removed meanwhile (iStopCount).
StopsAwaited ==
  [][\A s \in Sessions :
       (pending[s].kind = "stop" /\ pending'[s] = NoRequest /\ daemons' # daemons) =>
         \A e \in WaitingFor(s) : e.ids \cap daemons' = {}]_allVars

\* "Connection has already been closed, but not yet removed from connection
\* table": a connection whose stop completed is closed.
CompletedIsClosed ==
  \A id \in DOMAIN iConnInfos :
    stop[id] = "completed" => StatusOf(iConnInfos[id]) \in {LinkLayerClosed, None}

\* Every request that is registered is answered in the end, except the stop of a
\* connection whose thread could not be started.
RequestsEnd ==
  \A s \in Sessions :
    (pending[s].kind \in {"volume", "activity", "stop"} /\ ~Unbounded(s))
      ~> (pending[s] = NoRequest \/ crashed)

\* The record of a connection whose interface is gone leaves the table, unless
\* what its notifiers had seen was lost with them, or the request for its
\* progress failed. Otherwise the server would go on enumerating it.
GoneIsRemoved ==
  \A id \in Ids :
    (id \in DOMAIN iConnInfos /\ StatusOf(iConnInfos[id]) = None)
      ~> (id \notin DOMAIN iConnInfos \/ id \in forgotten \cup failed \/ crashed)
=============================================================================
