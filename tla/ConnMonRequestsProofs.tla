------------------------- MODULE ConnMonRequestsProofs -------------------------
(***************************************************************************)
(* Proofs about what the clients ask of the Connection Monitor             *)
(* (ConnMonRequests): whoever waits has somebody to answer, and the end of *)
(* a stop thread answers a request only if no thread is left for it. And   *)
(* about the reports of the interfaces (ConnMonConnections): what the      *)
(* notifier for all interfaces has to say of an access point alternates,   *)
(* and so a record that is there when its access point comes up again was  *)
(* closed, or lost what it had seen. The server survives.                  *)
(***************************************************************************)
EXTENDS ConnMonTableProofs

---------------------------------------------------------------------------------
(* What the steps of the table do to the table's ids and to the requests *)

LEMMA SendDomain ==
  ASSUME NEW table, NEW id \in DOMAIN table
  PROVE  DOMAIN AfterSend(table, id) \subseteq DOMAIN table
PROOF
  BY DEF AfterSend, Dropped, Without

LEMMA NewIds ==
  ASSUME TableInv, ConnNext
  PROVE  /\ iIdCounter' \in {iIdCounter, iIdCounter + 1}
         /\ DOMAIN iConnInfos' \ DOMAIN iConnInfos \subseteq {iIdCounter + 1}
PROOF
  <1>1. CASE Network
    BY <1>1
    DEF Network, StartInterface, OpenLink, CloseLink, StopInterface, UnchangedByNet, Heard
  <1>2. CASE InterfaceUp
    BY <1>2
    DEF InterfaceUp, UpCrashes, UpFails, UpAdds, Added, Without
  <1>3. CASE InterfaceDown
    <2> DEFINE ids == OfIap(iConnInfos, Head(updown).iap)
               id == CHOOSE i \in ids : TRUE
               known == [iConnInfos EXCEPT ![id].interfaceClosed = TRUE]
    <2>1. ids = {} \/ id \in DOMAIN iConnInfos
      BY DEF OfIap
    <2>2. iConnInfos' = IF ids = {} THEN iConnInfos ELSE AfterDown(iConnInfos, id)
      BY <1>3 DEF InterfaceDown
    <2>3. iIdCounter' = iIdCounter
      BY <1>3 DEF InterfaceDown
    <2> HIDE DEF ids, id
    <2>4. DOMAIN known = DOMAIN iConnInfos
      OBVIOUS
    <2>5. id \in DOMAIN iConnInfos => DOMAIN AfterSend(known, id) \subseteq DOMAIN iConnInfos
      BY <2>4, SendDomain
    <2>6. id \in DOMAIN iConnInfos => DOMAIN AfterDown(iConnInfos, id) \subseteq DOMAIN iConnInfos
      BY <2>4, <2>5 DEF AfterDown, Without
    <2> QED
      BY <2>1, <2>2, <2>3, <2>6
  <1>4. ASSUME NEW id \in DOMAIN iConnInfos, Progress(id)
        PROVE  iIdCounter' = iIdCounter /\ DOMAIN iConnInfos' \subseteq DOMAIN iConnInfos
    <2> DEFINE new == AfterStage(iConnInfos[id], Head(iConnInfos[id].stages))
               now == [iConnInfos EXCEPT ![id] = new]
               idle == [now EXCEPT ![id].progress = "idle"]
    <2>1. iConnInfos' \in {now, AfterSend(idle, id)} /\ iIdCounter' = iIdCounter
      BY <1>4 DEF Progress, NotifierKeeps
    <2> HIDE DEF new
    <2>2. DOMAIN now = DOMAIN iConnInfos /\ DOMAIN idle = DOMAIN iConnInfos
      OBVIOUS
    <2>3. DOMAIN AfterSend(idle, id) \subseteq DOMAIN iConnInfos
      BY <2>2, SendDomain
    <2> QED
      BY <2>1, <2>2, <2>3
  <1>5. ASSUME NEW id \in DOMAIN iConnInfos, ProgressFails(id)
        PROVE  iIdCounter' = iIdCounter /\ DOMAIN iConnInfos' \subseteq DOMAIN iConnInfos
    BY <1>5 DEF ProgressFails, NotifierKeeps
  <1>6. ASSUME NEW id \in DOMAIN iConnInfos, NEW sub, SubEnds(id, sub), NotifierKeeps
        PROVE  iIdCounter' = iIdCounter /\ DOMAIN iConnInfos' \subseteq DOMAIN iConnInfos
    <2> DEFINE now == [iConnInfos EXCEPT ![id].sub = sub, ![id].closed = FALSE]
    <2>1. iConnInfos' \in {now, AfterSend(now, id)} /\ iIdCounter' = iIdCounter
      BY <1>6 DEF SubEnds, NotifierKeeps
    <2>2. DOMAIN now = DOMAIN iConnInfos
      OBVIOUS
    <2>3. DOMAIN AfterSend(now, id) \subseteq DOMAIN iConnInfos
      BY <2>2, SendDomain
    <2> QED
      BY <2>1, <2>2, <2>3
  <1>7. CASE Clients
    BY <1>7
    DEF Clients, Listen, CancelListen, Enumerate, AllWithNotifiers, AfterCancel, Cleaned, Without
  <1> QED
    BY <1>1, <1>2, <1>3, <1>4, <1>5, <1>6, <1>7
    DEF ConnNext, SubConnectionClosed, SubConnectionNotReady

\* A step of the table leaves the requests alone, or has them follow: the
\* activity notifiers it starts belong to records of the table, and none asks for
\* changes when nobody listens.
LEMMA TableFollows ==
  ASSUME TableInv, TableStep
  PROVE  \/ /\ UNCHANGED <<requestVars, listening>>
            /\ DOMAIN iConnInfos' = DOMAIN iConnInfos
         \/ \E opened, resumed :
              /\ Follow(opened, resumed)
              /\ opened \subseteq DOMAIN iConnInfos \cup DOMAIN iConnInfos'
              /\ resumed \subseteq DOMAIN iConnInfos' \ opened
              /\ \A id \in resumed : activity[id] \in {"idle", "disconnected"}
              /\ listening' = {} => resumed = {}
PROOF
  <1> DEFINE Good(opened, resumed) ==
               /\ opened \subseteq DOMAIN iConnInfos \cup DOMAIN iConnInfos'
               /\ resumed \subseteq DOMAIN iConnInfos' \ opened
               /\ \A id \in resumed : activity[id] \in {"idle", "disconnected"}
               /\ listening' = {} => resumed = {}
  <1>1. CASE Network /\ UNCHANGED requestVars
    BY <1>1
    DEF Network, StartInterface, OpenLink, CloseLink, StopInterface, UnchangedByNet, Heard
  <1>2. Good({}, {})
    OBVIOUS
  <1>3. ASSUME NEW ids \in SUBSET DOMAIN iConnInfos', listening' # {}
        PROVE  Good(Launched(ids \cap NowOpen), Renewed(ids))
    BY <1>3 DEF Launched, Renewed
  <1>4. ASSUME NEW id \in DOMAIN iConnInfos
        PROVE  Good({id}, {})
    OBVIOUS
  <1>5. CASE UpOfInterface
    <2>1. New \in SUBSET DOMAIN iConnInfos' /\ listening' = listening
      BY <1>5 DEF UpOfInterface, InterfaceUp, UpDownKeeps, New
    <2> HIDE DEF Good
    <2>2. \E opened, resumed : Follow(opened, resumed) /\ Good(opened, resumed)
      BY <1>2, <1>3, <1>5, <2>1 DEF UpOfInterface, FollowAdding
    <2> QED
      BY <2>2 DEF Good
  <1>6. ASSUME NEW id \in DOMAIN iConnInfos, ProgressOf(id)
        PROVE  \E opened, resumed : Follow(opened, resumed) /\ Good(opened, resumed)
    <2> HIDE DEF Good
    <2> QED
      BY <1>2, <1>4, <1>6 DEF ProgressOf
  <1>7. CASE Others /\ Follow({}, {})
    BY <1>2, <1>7
  <1>8. CASE Adding /\ IF listening' # {} THEN FollowAdding(DOMAIN iConnInfos') ELSE Follow({}, {})
    <2> HIDE DEF Good
    <2>1. \E opened, resumed : Follow(opened, resumed) /\ Good(opened, resumed)
      BY <1>2, <1>3, <1>8 DEF FollowAdding
    <2> QED
      BY <2>1 DEF Good
  <1> QED
    BY <1>1, <1>5, <1>6, <1>7, <1>8 DEF TableStep

---------------------------------------------------------------------------------
(* The invariant *)

\* What the threads that stop connections are, or are to be.
Stopping == daemons \cup unstarted

RequestTypes ==
  /\ pending \in [Sessions -> [kind : {"none"} \cup Kinds, id : {0} \cup Ids]]
  /\ volume \subseteq Ids
  /\ activity \in [Ids -> ActivityStates]
  /\ timers \in [Ids -> 0..MaxTimers]
  /\ stop \in [Ids -> {"no", "started", "completed"}]
  /\ daemons \subseteq Ids
  /\ iAsyncStopQueue \subseteq Elements
  /\ unstarted \subseteq Ids

\* The ids that were given.
Given == DOMAIN iConnInfos \subseteq 1..iIdCounter /\ DOMAIN iConnInfos \subseteq Ids

\* The volume and the activity of a connection somebody waits for are being
\* asked for, and a timer bounds a single question.
AskedFor ==
  /\ \A s \in Sessions : pending[s].kind = "volume" =>
       pending[s].id \in volume \cap DOMAIN iConnInfos
  /\ \A s \in Sessions : pending[s].kind = "activity" =>
       pending[s].id \in DOMAIN iConnInfos /\ activity[pending[s].id] = "oneshot"
  /\ \A id \in Ids : activity[id] = "oneshot" => timers[id] > 0
  /\ \A id \in Ids : activity[id] # "none" => id \in DOMAIN iConnInfos
  /\ \A id \in Ids : activity[id] = "continuous" => listening # {}

\* The status of a record says what became of its thread, and a connection gets
\* one thread.
ThreadsMarked ==
  /\ Stopping \subseteq 1..iIdCounter
  /\ \A id \in Ids : stop[id] # "no" => id \in DOMAIN iConnInfos
  /\ \A id \in DOMAIN iConnInfos : stop[id] = "no" => id \notin Stopping
  /\ \A id \in DOMAIN iConnInfos : stop[id] = "started" => id \in Stopping
  /\ daemons \cap unstarted = {}

\* A stop request that waits has counted the connections that have no thread any
\* more, and not all of them; and none of its connections gets a thread again.
ElementCounts(e) ==
  /\ e.ids \subseteq 1..iIdCounter
  /\ \A id \in e.ids \cap DOMAIN iConnInfos : stop[id] # "no"
  /\ e.count = Cardinality(e.ids \ Stopping)
  /\ e.count < Cardinality(e.ids)

\* A session waits in the queue when a stop is pending, and only once.
OneElement ==
  /\ \A e \in iAsyncStopQueue : pending[e.session].kind = "stop"
  /\ \A e, f \in iAsyncStopQueue : e.session = f.session => e = f
  /\ \A s \in Sessions : pending[s].kind = "stop" => \E e \in iAsyncStopQueue : e.session = s

StopInv ==
  /\ ThreadsMarked
  /\ \A e \in iAsyncStopQueue : ElementCounts(e)
  /\ OneElement

RequestInv == RequestTypes /\ AskedFor /\ StopInv

LEMMA InitRequests == Init => RequestInv
PROOF
  <1> SUFFICES ASSUME Init PROVE RequestInv
    OBVIOUS
  <1>1. DOMAIN iConnInfos = {}
    BY DEF Init, ConnInit
  <1>2. RequestTypes
    BY TimersAssumption DEF Init, RequestTypes, ActivityStates, Kinds, NoRequest
  <1>3. AskedFor
    BY DEF Init, AskedFor, NoRequest
  <1>4. StopInv
    BY <1>1 DEF Init, StopInv, ThreadsMarked, Stopping, OneElement, NoRequest
  <1> QED
    BY <1>2, <1>3, <1>4 DEF RequestInv

---------------------------------------------------------------------------------
(* The steps of the table *)

LEMMA FollowKeepsAsked ==
  ASSUME RequestTypes, AskedFor, Given,
         NEW opened, NEW resumed, Follow(opened, resumed),
         opened \subseteq DOMAIN iConnInfos \cup DOMAIN iConnInfos',
         resumed \subseteq DOMAIN iConnInfos' \ opened,
         \A id \in resumed : activity[id] \in {"idle", "disconnected"},
         listening' = {} => resumed = {}
  PROVE  RequestTypes' /\ AskedFor'
PROOF
  <1> DEFINE once == {id \in opened \ Ended : activity[id] \in Inactive}
  <1>1. PICK wanted \in SUBSET resumed :
          /\ \A id \in once : timers[id] < MaxTimers
          /\ pending' = BothAnswered(Ended)
          /\ volume' = volume \ Ended
          /\ activity' = [id \in Ids |->
               CASE id \in Ended -> "none"
                 [] id \in once -> "oneshot"
                 [] id \in resumed -> Resumed(id, id \in wanted)
                 [] OTHER -> activity[id]]
          /\ timers' = [id \in Ids |->
               IF id \in Removed THEN 0 ELSE IF id \in once THEN timers[id] + 1 ELSE timers[id]]
          /\ stop' = [id \in Ids |-> IF id \in Removed THEN "no" ELSE stop[id]]
          /\ UNCHANGED <<daemons, iAsyncStopQueue, unstarted>>
    BY DEF Follow
  <1>2. Removed \subseteq Ended /\ Ended \subseteq DOMAIN iConnInfos
    BY DEF Ended, Removed, Silenced
  <1>3. DOMAIN iConnInfos \ Ended \subseteq DOMAIN iConnInfos'
    BY DEF Ended, Removed
  <1>4. once \subseteq DOMAIN iConnInfos'
    BY <1>3
  <1>0. once \cap Ended = {} /\ resumed \cap Ended = {} /\ once \cap resumed = {}
    BY DEF Ended, Removed, Silenced
  <1> HIDE DEF once
  <1>5. ASSUME NEW id \in Ids
        PROVE  /\ activity'[id] \in ActivityStates
               /\ timers'[id] \in 0..MaxTimers
    BY <1>1, TimersAssumption DEF RequestTypes, ActivityStates, Resumed
  <1>6. RequestTypes'
    <2>1. pending' \in [Sessions -> [kind : {"none"} \cup Kinds, id : {0} \cup Ids]]
      BY <1>1 DEF RequestTypes, BothAnswered, NoRequest
    <2>2. activity' \in [Ids -> ActivityStates] /\ timers' \in [Ids -> 0..MaxTimers]
      BY <1>1, <1>5
    <2> QED
      BY <1>1, <2>1, <2>2 DEF RequestTypes
  <1>7. ASSUME NEW id \in Ids
        PROVE  /\ activity'[id] = "oneshot" => timers'[id] > 0
               /\ activity'[id] # "none" => id \in DOMAIN iConnInfos'
               /\ activity'[id] = "continuous" => listening' # {}
    <2>1. CASE id \in Ended
      <3>1. id \notin once /\ id \notin resumed
        BY <1>0, <2>1
      <3>2. activity'[id] = "none"
        BY <1>1, <2>1, <3>1
      <3> QED
        BY <3>2
    <2>2. CASE id \in once
      <3>0. id \notin Ended /\ id \notin resumed /\ id \notin Removed
        BY <1>0, <1>2, <2>2
      <3>1. activity'[id] = "oneshot" /\ timers'[id] = timers[id] + 1
        BY <1>1, <2>2, <3>0
      <3> QED
        BY <1>4, <2>2, <3>1 DEF RequestTypes
    <2>3. CASE id \in resumed \ (Ended \cup once)
      <3>1. activity'[id] \in {"disconnected", "continuous", "idle"}
        BY <1>1, <2>3 DEF Resumed
      <3> QED
        BY <2>3, <3>1
    <2>4. CASE id \notin Ended \cup once \cup resumed
      <3>1. activity'[id] = activity[id] /\ timers'[id] = timers[id]
        BY <1>1, <1>2, <2>4
      <3>2. id \in DOMAIN iConnInfos => id \in DOMAIN iConnInfos' /\ (listening # {} => listening' # {})
        BY <1>3, <2>4 DEF Ended, Silenced
      <3> QED
        BY <3>1, <3>2 DEF AskedFor
    <2> QED
      BY <2>1, <2>2, <2>3, <2>4
  <1>8. ASSUME NEW s \in Sessions
        PROVE  /\ pending'[s].kind = "volume" =>
                    pending'[s].id \in volume' \cap DOMAIN iConnInfos'
               /\ pending'[s].kind = "activity" =>
                    pending'[s].id \in DOMAIN iConnInfos' /\ activity'[pending'[s].id] = "oneshot"
    <2> DEFINE id == pending[s].id
    <2>1. pending'[s] = IF Waits(s, "volume", Ended) \/ Waits(s, "activity", Ended)
                        THEN NoRequest ELSE pending[s]
      BY <1>1 DEF BothAnswered
    <2>2. CASE pending'[s].kind = "volume"
      <3>1. pending'[s] = pending[s] /\ id \notin Ended
        BY <2>1, <2>2 DEF NoRequest, Waits
      <3> QED
        BY <1>1, <1>3, <2>2, <3>1 DEF AskedFor
    <2>3. CASE pending'[s].kind = "activity"
      <3>1. pending'[s] = pending[s] /\ id \notin Ended
        BY <2>1, <2>3 DEF NoRequest, Waits
      <3>2. id \in DOMAIN iConnInfos /\ activity[id] = "oneshot" /\ id \in Ids
        BY <2>3, <3>1 DEF AskedFor, Given
      <3>3. id \notin once /\ id \notin resumed
        BY <3>2 DEF once, Inactive
      <3>4. activity'[id] = "oneshot"
        BY <1>1, <3>1, <3>2, <3>3
      <3>5. id \in DOMAIN iConnInfos'
        BY <1>3, <3>1, <3>2
      <3> QED
        BY <2>3, <3>1, <3>4, <3>5
    <2> QED
      BY <2>2, <2>3
  <1> QED
    BY <1>6, <1>7, <1>8 DEF AskedFor

\* Records that go take their stop with them; those that are new have no thread.
LEMMA FollowKeepsStops ==
  ASSUME RequestTypes, StopInv, Given, Given', iIdCounter \in Nat,
         NEW opened, NEW resumed, Follow(opened, resumed),
         iIdCounter' \in {iIdCounter, iIdCounter + 1},
         DOMAIN iConnInfos' \ DOMAIN iConnInfos \subseteq {iIdCounter + 1}
  PROVE  StopInv'
PROOF
  <1>1. /\ pending' = BothAnswered(Ended)
        /\ stop' = [id \in Ids |-> IF id \in Removed THEN "no" ELSE stop[id]]
        /\ UNCHANGED <<daemons, iAsyncStopQueue, unstarted>>
    BY DEF Follow
  <1>2. ThreadsMarked'
    <2>1. Stopping' = Stopping
      BY <1>1 DEF Stopping
    <2>2. \A id \in Ids : stop'[id] = IF id \in Removed THEN "no" ELSE stop[id]
      BY <1>1
    <2>3. Stopping \subseteq 1..iIdCounter'
      BY DEF StopInv, ThreadsMarked
    <2>4. ASSUME NEW id \in DOMAIN iConnInfos'
          PROVE  /\ id \in Ids
                 /\ stop'[id] = "no" => id \notin Stopping
                 /\ stop'[id] = "started" => id \in Stopping
      <3>1. id \in Ids /\ id \notin Removed
        BY DEF Given, Removed
      <3>2. CASE id \in DOMAIN iConnInfos
        BY <2>2, <3>1, <3>2 DEF StopInv, ThreadsMarked
      <3>3. CASE id \notin DOMAIN iConnInfos
        <4>1. id = iIdCounter + 1 /\ id \notin Stopping
          BY <2>4, <3>3 DEF StopInv, ThreadsMarked
        <4>2. stop'[id] = "no"
          BY <2>2, <3>1, <3>3 DEF StopInv, ThreadsMarked
        <4> QED
          BY <3>1, <4>1, <4>2
      <3> QED
        BY <3>2, <3>3
    <2> QED
      BY <1>1, <2>1, <2>2, <2>3, <2>4 DEF StopInv, ThreadsMarked, Removed
  <1>3. ASSUME NEW e \in iAsyncStopQueue'
        PROVE  ElementCounts(e)'
    <2>1. ElementCounts(e) /\ Stopping' = Stopping
      BY <1>1 DEF StopInv, Stopping
    <2>2. e.ids \subseteq 1..iIdCounter'
      BY <2>1 DEF ElementCounts
    <2>3. ASSUME NEW id \in e.ids \cap DOMAIN iConnInfos'
          PROVE  stop'[id] # "no"
      <3>1. id \in DOMAIN iConnInfos
        BY <2>1 DEF ElementCounts
      <3>2. id \in Ids /\ id \notin Removed
        BY <3>1 DEF Given, Removed
      <3> QED
        BY <1>1, <2>1, <3>1, <3>2 DEF ElementCounts
    <2> QED
      BY <2>1, <2>2, <2>3 DEF ElementCounts
  <1>4. \A s \in Sessions :
          /\ pending[s].kind = "stop" => pending'[s] = pending[s]
          /\ pending'[s].kind = "stop" => pending'[s] = pending[s]
    BY <1>1 DEF BothAnswered, Waits, NoRequest
  <1>5. OneElement'
    BY <1>1, <1>4 DEF StopInv, OneElement, RequestTypes, Elements
  <1> QED
    BY <1>2, <1>3, <1>5 DEF StopInv

---------------------------------------------------------------------------------
(* What the clients ask, and its answers *)

\* A step of the requests, which leaves the table alone.
TableStays == TableInv /\ RestTypes /\ UNCHANGED connVars

LEMMA StaysGiven ==
  ASSUME TableInv, RestTypes
  PROVE  Given
PROOF
  BY IdsAreGiven DEF TableInv, RestTypes, Given

\* The stops are left alone when nobody waits for one or no more.
LEMMA StopsAlone ==
  ASSUME StopInv, RequestTypes, UNCHANGED <<iConnInfos, iIdCounter, stopVars>>,
         pending' \in [Sessions -> [kind : {"none"} \cup Kinds, id : {0} \cup Ids]],
         \A s \in Sessions :
           pending'[s] = pending[s] \/ {pending[s].kind, pending'[s].kind} \cap {"stop"} = {}
  PROVE  StopInv'
PROOF
  <1>1. UNCHANGED <<stop, daemons, iAsyncStopQueue, unstarted>>
    BY DEF stopVars
  <1>2. ThreadsMarked'
    BY <1>1 DEF StopInv, ThreadsMarked, Stopping
  <1>3. \A e \in iAsyncStopQueue' : ElementCounts(e)'
    BY <1>1 DEF StopInv, ElementCounts, Stopping
  <1>4. OneElement'
    BY <1>1 DEF StopInv, OneElement, RequestTypes, Elements
  <1> QED
    BY <1>2, <1>3, <1>4 DEF StopInv

\* A session that is free has no stop request in the queue.
LEMMA FreeWaitsForNothing ==
  ASSUME NEW s \in Sessions, Free(s)
  PROVE  pending[s].kind = "none"
PROOF
  BY DEF Free, NoRequest

LEMMA AskVolumeKeeps ==
  ASSUME RequestInv, TableStays, NEW s \in Sessions, NEW id \in DOMAIN iConnInfos,
         AskVolume(s, id)
  PROVE  RequestInv'
PROOF
  <1>1. id \in Ids /\ pending[s].kind = "none"
    BY StaysGiven, FreeWaitsForNothing DEF TableStays, Given, AskVolume
  <1>2. PICK kind \in {"volume", "unregistered"} :
          pending' = [pending EXCEPT ![s] = [kind |-> kind, id |-> id]]
    BY DEF AskVolume, Request
  <1>3. /\ volume' = volume \cup {id}
        /\ UNCHANGED <<activity, timers, stopVars, iConnInfos, iIdCounter, listening>>
    BY DEF AskVolume, connVars
  <1>4. RequestTypes'
    BY <1>1, <1>2, <1>3 DEF RequestInv, RequestTypes, Kinds, stopVars
  <1>5. AskedFor'
    BY <1>1, <1>2, <1>3 DEF RequestInv, RequestTypes, AskedFor
  <1>6. \A t \in Sessions :
          pending'[t] = pending[t] \/ {pending[t].kind, pending'[t].kind} \cap {"stop"} = {}
    BY <1>1, <1>2 DEF RequestInv, RequestTypes
  <1>7. StopInv'
    BY <1>3, <1>4, <1>6, StopsAlone DEF RequestInv, RequestTypes
  <1> QED
    BY <1>4, <1>5, <1>7 DEF RequestInv

LEMMA VolumeIsKnownKeeps ==
  ASSUME RequestInv, TableStays, NEW id \in Ids, VolumeIsKnown(id)
  PROVE  RequestInv'
PROOF
  <1>1. /\ volume' = volume \ {id}
        /\ pending' = Answered("volume", {id})
        /\ UNCHANGED <<activity, timers, stopVars, iConnInfos, iIdCounter, listening>>
    BY DEF VolumeIsKnown, connVars
  <1>2. RequestTypes'
    BY <1>1 DEF RequestInv, RequestTypes, Answered, NoRequest, stopVars
  <1>3. AskedFor'
    BY <1>1 DEF RequestInv, RequestTypes, AskedFor, Answered, Waits, NoRequest
  <1>4. \A t \in Sessions :
          pending'[t] = pending[t] \/ {pending[t].kind, pending'[t].kind} \cap {"stop"} = {}
    BY <1>1 DEF Answered, Waits, NoRequest
  <1>5. StopInv'
    BY <1>1, <1>2, <1>4, StopsAlone DEF RequestInv, RequestTypes
  <1> QED
    BY <1>2, <1>3, <1>5 DEF RequestInv

LEMMA AskActivityKeeps ==
  ASSUME RequestInv, TableStays, NEW s \in Sessions, NEW id \in DOMAIN iConnInfos,
         AskActivity(s, id)
  PROVE  RequestInv'
PROOF
  <1>1. id \in Ids /\ pending[s].kind = "none"
    BY StaysGiven, FreeWaitsForNothing DEF TableStays, Given, AskActivity
  <1>2. /\ pending' = [pending EXCEPT ![s] = [kind |-> "activity", id |-> id]]
        /\ UNCHANGED <<volume, stopVars, iConnInfos, iIdCounter, listening>>
    BY DEF AskActivity, Request, connVars
  <1>3. \/ /\ timers[id] < MaxTimers
           /\ activity' = [activity EXCEPT ![id] = "oneshot"]
           /\ timers' = [timers EXCEPT ![id] = @ + 1]
        \/ UNCHANGED <<activity, timers>> /\ activity[id] = "oneshot"
    BY <1>1 DEF AskActivity, OneShot, AnsweredAtOnce, RequestInv, RequestTypes, AskedFor,
       ActivityStates, Inactive
  <1>4. RequestTypes'
    BY <1>1, <1>2, <1>3, TimersAssumption
    DEF RequestInv, RequestTypes, Kinds, stopVars, ActivityStates
  <1>5. AskedFor'
    <2>1. activity'[id] = "oneshot" /\ timers'[id] > 0
      BY <1>1, <1>3 DEF RequestInv, RequestTypes, AskedFor
    <2>2. \A i \in Ids \ {id} : activity'[i] = activity[i] /\ timers'[i] = timers[i]
      BY <1>3 DEF RequestInv, RequestTypes
    <2>3. \A t \in Sessions :
            IF t = s THEN pending'[t].kind = "activity" /\ pending'[t].id = id
            ELSE pending'[t] = pending[t]
      BY <1>2 DEF RequestInv, RequestTypes
    <2>4. \A t \in Sessions : pending'[t].kind = "activity" =>
            pending'[t].id \in DOMAIN iConnInfos /\ activity'[pending'[t].id] = "oneshot"
      <3> SUFFICES ASSUME NEW t \in Sessions, pending'[t].kind = "activity"
                   PROVE  pending'[t].id \in DOMAIN iConnInfos
                          /\ activity'[pending'[t].id] = "oneshot"
        OBVIOUS
      <3>1. CASE t = s
        BY <2>1, <2>3, <3>1
      <3>2. CASE t # s
        <4>1. pending[t].id \in DOMAIN iConnInfos /\ activity[pending[t].id] = "oneshot"
          BY <2>3, <3>2 DEF RequestInv, AskedFor
        <4>2. pending[t].id \in Ids
          BY <4>1, StaysGiven DEF TableStays, Given
        <4> QED
          BY <2>1, <2>2, <2>3, <3>2, <4>1, <4>2
      <3> QED
        BY <3>1, <3>2
    <2>5. \A t \in Sessions : pending'[t].kind = "volume" =>
            pending'[t].id \in volume \cap DOMAIN iConnInfos
      BY <2>3 DEF RequestInv, AskedFor
    <2>6. \A i \in Ids :
            /\ activity'[i] = "oneshot" => timers'[i] > 0
            /\ activity'[i] # "none" => i \in DOMAIN iConnInfos
            /\ activity'[i] = "continuous" => listening # {}
      BY <2>1, <2>2 DEF RequestInv, AskedFor
    <2> QED
      BY <1>2, <2>4, <2>5, <2>6 DEF AskedFor
  <1>6. \A t \in Sessions :
          pending'[t] = pending[t] \/ {pending[t].kind, pending'[t].kind} \cap {"stop"} = {}
    BY <1>1, <1>2 DEF RequestInv, RequestTypes
  <1>7. StopInv'
    BY <1>2, <1>4, <1>6, StopsAlone DEF RequestInv, RequestTypes
  <1> QED
    BY <1>4, <1>5, <1>7 DEF RequestInv

\* The answer to a single question, by the notifier or by the timer that cancels
\* it.
LEMMA ActivityAnswered ==
  ASSUME RequestInv, TableStays, NEW id \in Ids,
         pending' = Answered("activity", {id}),
         NEW wanted \in IF listening # {} THEN BOOLEAN ELSE {FALSE},
         activity' = [activity EXCEPT ![id] = Resumed(id, wanted)],
         activity[id] = "oneshot",
         timers' \in [Ids -> 0..MaxTimers],
         \A i \in Ids \ {id} : timers'[i] = timers[i],
         UNCHANGED <<volume, stopVars>>
  PROVE  RequestInv'
PROOF
  <1>1. UNCHANGED <<iConnInfos, iIdCounter, listening>>
    BY DEF TableStays, connVars
  <1>2. /\ Resumed(id, wanted) \in {"idle", "continuous"}
        /\ Resumed(id, wanted) = "continuous" => listening # {}
    BY DEF Resumed
  <1> DEFINE new == Resumed(id, wanted)
  <1>3. activity' = [activity EXCEPT ![id] = new]
    OBVIOUS
  <1>4. new \in {"idle", "continuous"} /\ (new = "continuous" => listening # {})
    BY <1>2
  <1> HIDE DEF new
  <1>5. RequestTypes'
    BY <1>3, <1>4 DEF RequestInv, RequestTypes, Answered, NoRequest, stopVars, ActivityStates
  <1>6. AskedFor'
    BY <1>1, <1>3, <1>4 DEF RequestInv, RequestTypes, AskedFor, Answered, Waits, NoRequest
  <1>7. \A t \in Sessions :
          pending'[t] = pending[t] \/ {pending[t].kind, pending'[t].kind} \cap {"stop"} = {}
    BY DEF Answered, Waits, NoRequest
  <1>8. StopInv'
    BY <1>1, <1>5, <1>7, StopsAlone DEF RequestInv, RequestTypes
  <1> QED
    BY <1>5, <1>6, <1>8 DEF RequestInv

LEMMA ActivityIsKnownKeeps ==
  ASSUME RequestInv, TableStays, NEW id \in Ids, ActivityIsKnown(id)
  PROVE  RequestInv'
PROOF
  <1>1. PICK wanted \in IF listening # {} THEN BOOLEAN ELSE {FALSE} :
          activity' = [activity EXCEPT ![id] = Resumed(id, wanted)]
    BY DEF ActivityIsKnown
  <1>2. /\ pending' = Answered("activity", {id})
        /\ activity[id] = "oneshot"
        /\ timers' \in [Ids -> 0..MaxTimers]
        /\ \A i \in Ids \ {id} : timers'[i] = timers[i]
        /\ UNCHANGED <<volume, stopVars>>
    BY DEF ActivityIsKnown, RequestInv, RequestTypes
  <1> QED
    BY <1>1, <1>2, ActivityAnswered

LEMMA TimerExpiresKeeps ==
  ASSUME RequestInv, TableStays, NEW id \in Ids, TimerExpires(id)
  PROVE  RequestInv'
PROOF
  <1>1. /\ timers[id] > 0
        /\ timers' = [timers EXCEPT ![id] = @ - 1]
        /\ timers \in [Ids -> 0..MaxTimers]
        /\ UNCHANGED <<volume, stopVars>>
    BY DEF TimerExpires, RequestInv, RequestTypes
  <1>2. timers' \in [Ids -> 0..MaxTimers] /\ \A i \in Ids \ {id} : timers'[i] = timers[i]
    BY <1>1, TimersAssumption
  <1>3. CASE activity[id] = "oneshot"
    <2>1. PICK wanted \in IF listening # {} THEN BOOLEAN ELSE {FALSE} :
            activity' = [activity EXCEPT ![id] = Resumed(id, wanted)]
      BY <1>3 DEF TimerExpires
    <2>2. pending' = Answered("activity", {id})
      BY <1>3 DEF TimerExpires
    <2> QED
      BY <1>1, <1>2, <1>3, <2>1, <2>2, ActivityAnswered
  <1>4. CASE activity[id] # "oneshot"
    <2>1. /\ UNCHANGED <<pending, activity, volume, stopVars>>
          /\ UNCHANGED <<iConnInfos, iIdCounter, listening>>
      BY <1>4 DEF TimerExpires, TableStays, connVars
    <2>2. RequestTypes'
      BY <1>2, <2>1 DEF RequestInv, RequestTypes, stopVars
    <2>3. AskedFor'
      BY <1>2, <1>4, <2>1 DEF RequestInv, RequestTypes, AskedFor
    <2>4. StopInv'
      BY <2>1, <2>2, StopsAlone DEF RequestInv, RequestTypes
    <2> QED
      BY <2>2, <2>3, <2>4 DEF RequestInv
  <1> QED
    BY <1>3, <1>4

LEMMA ActivityChangesKeeps ==
  ASSUME RequestInv, TableStays, NEW id \in Ids, ActivityChanges(id)
  PROVE  RequestInv'
PROOF
  <1>1. PICK after \in {"continuous", "idle", "disconnected"} :
          activity' = [activity EXCEPT ![id] = after]
    BY DEF ActivityChanges
  <1>2. /\ activity[id] = "continuous"
        /\ UNCHANGED <<pending, volume, timers, stopVars, iConnInfos, iIdCounter, listening>>
    BY DEF ActivityChanges, connVars
  <1>3. RequestTypes'
    BY <1>1, <1>2 DEF RequestInv, RequestTypes, stopVars, ActivityStates
  <1>4. AskedFor'
    BY <1>1, <1>2 DEF RequestInv, RequestTypes, AskedFor
  <1>5. StopInv'
    BY <1>2, <1>3, StopsAlone DEF RequestInv, RequestTypes
  <1> QED
    BY <1>3, <1>4, <1>5 DEF RequestInv

---------------------------------------------------------------------------------
(* Stopping *)

\* What is cancelled on some connections leaves no session waiting for it.
LEMMA CancelledKeeps ==
  ASSUME RequestTypes, AskedFor, Given, NEW ids \in SUBSET Ids, NEW more \in SUBSET Ids,
         ids \subseteq more,
         volume' = volume \ ids, activity' = Cancelled(ids),
         UNCHANGED <<timers, iConnInfos, listening>>,
         \A t \in Sessions :
           pending'[t] = BothAnswered(more)[t] \/ pending'[t].kind \notin {"volume", "activity"}
  PROVE  AskedFor' /\ activity' \in [Ids -> ActivityStates]
PROOF
  <1>1. activity' \in [Ids -> ActivityStates]
    BY DEF RequestTypes, Cancelled, ActivityStates
  <1>2. ASSUME NEW id \in Ids
        PROVE  /\ activity'[id] = "oneshot" => activity[id] = "oneshot" /\ id \notin ids
               /\ activity'[id] = "continuous" => activity[id] = "continuous"
               /\ activity'[id] # "none" => activity[id] # "none"
               /\ id \notin ids => activity'[id] = activity[id]
    BY DEF Cancelled
  <1>3. ASSUME NEW t \in Sessions, pending'[t].kind \in {"volume", "activity"}
        PROVE  pending'[t] = pending[t] /\ pending[t].id \notin ids
    BY <1>3 DEF BothAnswered, Waits, NoRequest
  <1>4. \A t \in Sessions :
          /\ pending'[t].kind = "volume" => pending'[t].id \in volume' \cap DOMAIN iConnInfos
          /\ pending'[t].kind = "activity" =>
               pending'[t].id \in DOMAIN iConnInfos /\ activity'[pending'[t].id] = "oneshot"
    BY <1>2, <1>3 DEF AskedFor, Given
  <1> QED
    BY <1>1, <1>2, <1>4 DEF AskedFor

LEMMA StopNowKeeps ==
  ASSUME RequestInv, TableStays, NEW s \in Sessions, NEW id \in DOMAIN iConnInfos,
         StopNow(s, id)
  PROVE  RequestInv'
PROOF
  <1>1. id \in Ids /\ Given
    BY StaysGiven DEF TableStays, Given
  <1>2. /\ volume' = volume \ {id}
        /\ activity' = Cancelled({id})
        /\ pending' = BothAnswered({id})
        /\ UNCHANGED <<timers, stopVars, iConnInfos, iIdCounter, listening>>
    BY DEF StopNow, connVars
  <1>3. AskedFor' /\ activity' \in [Ids -> ActivityStates]
    BY <1>1, <1>2, CancelledKeeps DEF RequestInv
  <1>4. RequestTypes'
    BY <1>2, <1>3 DEF RequestInv, RequestTypes, BothAnswered, NoRequest, stopVars
  <1>5. \A t \in Sessions :
          pending'[t] = pending[t] \/ {pending[t].kind, pending'[t].kind} \cap {"stop"} = {}
    BY <1>2 DEF BothAnswered, Waits, NoRequest
  <1>6. StopInv'
    BY <1>2, <1>4, <1>5, StopsAlone DEF RequestInv, RequestTypes
  <1> QED
    BY <1>3, <1>4, <1>6 DEF RequestInv

\* Starting threads: each gets its mark, and no request that waits is affected.
LEMMA StartKeeps ==
  ASSUME RequestInv, TableStays, NEW ids \in SUBSET Unstopped,
         NEW failing \in SUBSET NotStarted(ids), StartStop(NotStarted(ids), failing)
  PROVE  /\ Stopping' = Stopping \cup NotStarted(ids)
         /\ ThreadsMarked'
         /\ \A e \in iAsyncStopQueue : ElementCounts(e)'
         /\ stop' \in [Ids -> {"no", "started", "completed"}]
         /\ daemons' \subseteq Ids
         /\ unstarted' \subseteq Ids
PROOF
  <1> DEFINE new == NotStarted(ids)
  <1>1. /\ new \subseteq DOMAIN iConnInfos
        /\ \A id \in new : stop[id] = "no"
        /\ new \subseteq Ids
        /\ new \subseteq 1..iIdCounter
    BY StaysGiven DEF NotStarted, Unstopped, TableStays, Given
  <1>2. /\ stop' = [id \in Ids |-> IF id \in new THEN "started" ELSE stop[id]]
        /\ daemons' = daemons \cup (new \ failing)
        /\ unstarted' = unstarted \cup failing
        /\ failing \subseteq new
    BY DEF StartStop
  <1>3. UNCHANGED <<iConnInfos, iIdCounter>> /\ DOMAIN iConnInfos \subseteq Ids
    BY StaysGiven DEF TableStays, connVars, Given
  <1> HIDE DEF new
  <1>4. Stopping' = Stopping \cup new
    BY <1>2 DEF Stopping
  <1>5. new \cap Stopping = {}
    BY <1>1 DEF RequestInv, StopInv, ThreadsMarked
  <1>6. stop' \in [Ids -> {"no", "started", "completed"}]
    BY <1>2 DEF RequestInv, RequestTypes
  <1>7. daemons' \subseteq Ids /\ unstarted' \subseteq Ids
    BY <1>1, <1>2 DEF RequestInv, RequestTypes
  <1>8. ThreadsMarked'
    <2>1. Stopping' \subseteq 1..iIdCounter'
      BY <1>1, <1>3, <1>4 DEF RequestInv, StopInv, ThreadsMarked
    <2>2. \A id \in Ids : stop'[id] # "no" => id \in DOMAIN iConnInfos
      BY <1>1, <1>2 DEF RequestInv, StopInv, ThreadsMarked
    <2>3. \A id \in DOMAIN iConnInfos :
            /\ stop'[id] = "no" => id \notin Stopping'
            /\ stop'[id] = "started" => id \in Stopping'
      BY <1>2, <1>3, <1>4 DEF RequestInv, StopInv, ThreadsMarked
    <2>4. daemons' \cap unstarted' = {}
      BY <1>2, <1>5 DEF RequestInv, StopInv, ThreadsMarked, Stopping
    <2> QED
      BY <1>3, <2>1, <2>2, <2>3, <2>4 DEF ThreadsMarked
  <1>9. ASSUME NEW e \in iAsyncStopQueue
        PROVE  ElementCounts(e)'
    <2>1. ElementCounts(e)
      BY DEF RequestInv, StopInv
    <2>2. e.ids \cap new = {}
      BY <1>1, <2>1 DEF ElementCounts
    <2>3. e.ids \ Stopping' = e.ids \ Stopping
      BY <1>4, <2>2
    <2>4. \A id \in e.ids \cap DOMAIN iConnInfos : stop'[id] # "no"
      BY <1>2, <1>3, <2>1 DEF ElementCounts
    <2> QED
      BY <1>3, <2>1, <2>3, <2>4 DEF ElementCounts
  <1> QED
    BY <1>4, <1>6, <1>7, <1>8, <1>9 DEF new

\* A request that waits for its threads.
LEMMA QueuedKeeps ==
  ASSUME RequestInv, TableStays, NEW s \in Sessions, Free(s),
         NEW ids \in SUBSET Unstopped, ids # {}, NEW id \in {0} \cup Ids,
         StartStop(NotStarted(ids), {}), Queued(s, ids),
         pending' = [BothAnswered(NotStarted(ids)) EXCEPT ![s] = Request("stop", id)]
  PROVE  RequestInv'
PROOF
  <1> DEFINE new == NotStarted(ids)
             element == [session |-> s, ids |-> ids, count |-> 0]
  <1>1. /\ Stopping' = Stopping \cup new
        /\ ThreadsMarked'
        /\ \A e \in iAsyncStopQueue : ElementCounts(e)'
        /\ stop' \in [Ids -> {"no", "started", "completed"}]
        /\ daemons' \subseteq Ids
        /\ unstarted' \subseteq Ids
    BY StartKeeps
  <1>2. /\ ids \subseteq DOMAIN iConnInfos /\ ids \subseteq Ids /\ ids \subseteq 1..iIdCounter
        /\ new \subseteq ids /\ Given
        /\ \A i \in ids : stop[i] # "completed" /\ (stop[i] = "no" => i \in new)
    BY StaysGiven DEF NotStarted, Unstopped, TableStays, Given
  <1>3. /\ UNCHANGED <<iConnInfos, iIdCounter, listening, timers>>
        /\ volume' = volume \ new
        /\ activity' = Cancelled(new)
        /\ stop' = [i \in Ids |-> IF i \in new THEN "started" ELSE stop[i]]
        /\ iAsyncStopQueue' = iAsyncStopQueue \cup {element}
    BY DEF TableStays, connVars, StartStop, Queued
  <1> HIDE DEF new
  <1>4. /\ pending'[s] = [kind |-> "stop", id |-> id]
        /\ \A t \in Sessions \ {s} : pending'[t] = BothAnswered(new)[t]
        /\ \A t \in Sessions : BothAnswered(new)[t] \in {NoRequest, pending[t]}
        /\ \A t \in Sessions : pending[t].kind = "stop" => BothAnswered(new)[t] = pending[t]
    BY DEF new, BothAnswered, Request, Waits
  <1>5. pending[s].kind = "none"
    BY FreeWaitsForNothing
  <1>6. AskedFor' /\ activity' \in [Ids -> ActivityStates]
    BY <1>2, <1>3, <1>4, CancelledKeeps DEF RequestInv
  <1>7. element \in Elements
    BY <1>2 DEF Elements
  <1>8. RequestTypes'
    <2>1. pending' \in [Sessions -> [kind : {"none"} \cup Kinds, id : {0} \cup Ids]]
      BY DEF RequestInv, RequestTypes, BothAnswered, NoRequest, Request, Kinds
    <2> QED
      BY <1>1, <1>3, <1>6, <1>7, <2>1 DEF RequestInv, RequestTypes
  <1>9. ElementCounts(element)'
    <2>1. ids \subseteq Stopping'
      BY <1>1, <1>2 DEF RequestInv, RequestTypes, StopInv, ThreadsMarked
    <2>2. ids \ Stopping' = {}
      BY <2>1
    <2>3. IsFiniteSet(ids)
      BY <1>2, FS_Subset DEF TableStays, TableInv, TableTypes, IsTable
    <2>4. Cardinality(ids) \in Nat /\ Cardinality(ids) # 0
      BY <2>3, FS_CardinalityType, FS_EmptySet
    <2>5. Cardinality(ids \ Stopping') = 0
      BY <2>2, FS_EmptySet
    <2>6. \A i \in ids : stop'[i] # "no"
      BY <1>2, <1>3
    <2> QED
      BY <1>2, <1>3, <2>4, <2>5, <2>6 DEF ElementCounts
  <1>10. OneElement'
    <2>1. \A e \in iAsyncStopQueue : pending[e.session].kind = "stop" /\ e.session \in Sessions
      BY DEF RequestInv, RequestTypes, StopInv, OneElement, Elements
    <2>2. \A e \in iAsyncStopQueue : e.session # s /\ pending'[e.session] = pending[e.session]
      BY <1>4, <1>5, <2>1
    <2>3. element.session = s /\ pending'[s].kind = "stop"
      BY <1>4
    <2> HIDE DEF element
    <2>4. \A e \in iAsyncStopQueue' : pending'[e.session].kind = "stop"
      BY <1>3, <2>1, <2>2, <2>3
    <2>5. \A e, f \in iAsyncStopQueue' : e.session = f.session => e = f
      BY <1>3, <2>2, <2>3 DEF RequestInv, StopInv, OneElement
    <2>6. ASSUME NEW t \in Sessions, pending'[t].kind = "stop"
          PROVE  \E e \in iAsyncStopQueue' : e.session = t
      <3>1. CASE t = s
        BY <1>3, <2>3, <3>1
      <3>2. CASE t # s
        <4>1. pending[t].kind = "stop"
          BY <1>4, <2>6, <3>2 DEF NoRequest
        <4> QED
          BY <1>3, <4>1 DEF RequestInv, StopInv, OneElement
      <3> QED
        BY <3>1, <3>2
    <2> QED
      BY <2>4, <2>5, <2>6 DEF OneElement
  <1>11. StopInv'
    BY <1>1, <1>3, <1>9, <1>10 DEF StopInv
  <1> QED
    BY <1>6, <1>8, <1>11 DEF RequestInv

\* One that is refused because a thread could not be started.
LEMMA RefusedKeeps ==
  ASSUME RequestInv, TableStays, NEW ids \in SUBSET Unstopped,
         NEW failing \in SUBSET NotStarted(ids), StartStop(NotStarted(ids), failing),
         NEW more \in SUBSET Ids, NotStarted(ids) \subseteq more,
         pending' = BothAnswered(more), UNCHANGED iAsyncStopQueue
  PROVE  RequestInv'
PROOF
  <1> DEFINE new == NotStarted(ids)
  <1>1. /\ ThreadsMarked'
        /\ \A e \in iAsyncStopQueue : ElementCounts(e)'
        /\ stop' \in [Ids -> {"no", "started", "completed"}]
        /\ daemons' \subseteq Ids
        /\ unstarted' \subseteq Ids
    BY StartKeeps
  <1>2. Given /\ new \in SUBSET Ids
    BY StaysGiven DEF TableStays, NotStarted
  <1>3. /\ UNCHANGED <<iConnInfos, listening, timers>>
        /\ volume' = volume \ new
        /\ activity' = Cancelled(new)
    BY DEF TableStays, connVars, StartStop
  <1> HIDE DEF new
  <1>4. AskedFor' /\ activity' \in [Ids -> ActivityStates]
    BY <1>2, <1>3, CancelledKeeps DEF RequestInv, new
  <1>5. RequestTypes'
    <2>1. pending' \in [Sessions -> [kind : {"none"} \cup Kinds, id : {0} \cup Ids]]
      BY DEF RequestInv, RequestTypes, BothAnswered, NoRequest
    <2> QED
      BY <1>1, <1>3, <1>4, <2>1 DEF RequestInv, RequestTypes
  <1>6. \A t \in Sessions :
          pending'[t] = pending[t] \/ {pending[t].kind, pending'[t].kind} \cap {"stop"} = {}
    BY DEF BothAnswered, Waits, NoRequest
  <1>7. OneElement'
    BY <1>6 DEF RequestInv, RequestTypes, StopInv, OneElement, Elements
  <1> QED
    BY <1>1, <1>4, <1>5, <1>7 DEF RequestInv, StopInv

LEMMA AskStopKeeps ==
  ASSUME RequestInv, TableStays, NEW s \in Sessions,
         NEW id \in DOMAIN iConnInfos, AskStop(s, id)
  PROVE  RequestInv'
PROOF
  <1>1. /\ Free(s) /\ {id} \in SUBSET Unstopped /\ id \in Ids
        /\ NotStarted({id}) \subseteq {id}
    BY StaysGiven DEF AskStop, NotStarted, TableStays, Given
  <1>2. PICK failing \in SUBSET NotStarted({id}) :
          /\ StartStop(NotStarted({id}), failing)
          /\ IF failing = {}
               THEN /\ Queued(s, {id})
                    /\ pending' = [BothAnswered(NotStarted({id})) EXCEPT
                                     ![s] = Request("stop", id)]
               ELSE /\ pending' = BothAnswered({id})
                    /\ UNCHANGED iAsyncStopQueue
    BY DEF AskStop
  <1>3. CASE failing = {}
    BY <1>1, <1>2, <1>3, QueuedKeeps
  <1>4. CASE failing # {}
    BY <1>1, <1>2, <1>4, RefusedKeeps
  <1> QED
    BY <1>3, <1>4

LEMMA AskStopAllKeeps ==
  ASSUME RequestInv, TableStays, NEW s \in Sessions, AskStopAll(s)
  PROVE  RequestInv'
PROOF
  <1>1. Free(s) /\ Unstopped # {} /\ NotStarted(Unstopped) \in SUBSET Ids
    BY StaysGiven DEF AskStopAll, NotStarted, Unstopped, TableStays, Given
  <1>2. PICK failing \in SUBSET NotStarted(Unstopped) :
          /\ StartStop(NotStarted(Unstopped), failing)
          /\ IF failing = {}
               THEN /\ Queued(s, Unstopped)
                    /\ pending' = [BothAnswered(NotStarted(Unstopped)) EXCEPT
                                     ![s] = Request("stop", 0)]
               ELSE /\ pending' = BothAnswered(NotStarted(Unstopped))
                    /\ UNCHANGED iAsyncStopQueue
    BY DEF AskStopAll
  <1>3. CASE failing = {}
    BY <1>1, <1>2, <1>3, QueuedKeeps
  <1>4. CASE failing # {}
    BY <1>1, <1>2, <1>4, RefusedKeeps
  <1> QED
    BY <1>3, <1>4

\* The end of a thread is counted by the requests that wait for its connection.
LEMMA CountedOnce ==
  ASSUME NEW e \in Elements, ElementCounts(e), NEW id \in daemons,
         ThreadsMarked, Stopping' = Stopping \ {id}
  PROVE  LET c == CountedIn(e, id)
         IN  /\ c \in Elements
             /\ c.session = e.session /\ c.ids = e.ids
             /\ IsFiniteSet(c.ids)
             /\ c.count = Cardinality(c.ids \ Stopping')
PROOF
  <1>1. IsFiniteSet(e.ids)
    <2>1. Cardinality(Iaps) \in Nat
      BY IapsAssumption, FS_CardinalityType
    <2>2. MaxStarts * Cardinality(Iaps) \in Int
      BY <2>1, StartsAssumption
    <2>3. IsFiniteSet(Ids)
      BY <2>2, FS_Interval DEF Ids
    <2>4. e.ids \in SUBSET Ids
      BY DEF Elements
    <2> QED
      BY <2>3, <2>4, FS_Subset
  <1>2. id \in Stopping
    BY DEF Stopping
  <1>3. CASE id \in e.ids
    <2>1. e.ids \ Stopping' = (e.ids \ Stopping) \cup {id} /\ id \notin e.ids \ Stopping
      BY <1>2, <1>3
    <2>2. IsFiniteSet(e.ids \ Stopping)
      BY <1>1, FS_Subset
    <2>3. Cardinality((e.ids \ Stopping) \cup {id}) = Cardinality(e.ids \ Stopping) + 1
      BY <2>1, <2>2, FS_AddElement
    <2>4. /\ CountedIn(e, id) = [e EXCEPT !.count = e.count + 1]
          /\ e.count \in Nat
      BY <1>3 DEF CountedIn, Elements
    <2>5. /\ CountedIn(e, id) \in Elements
          /\ CountedIn(e, id).session = e.session
          /\ CountedIn(e, id).ids = e.ids
          /\ CountedIn(e, id).count = e.count + 1
      BY <2>4 DEF Elements
    <2>6. Cardinality(e.ids \ Stopping') = e.count + 1
      BY <2>1, <2>3 DEF ElementCounts
    <2> QED
      BY <1>1, <2>5, <2>6
  <1>4. CASE id \notin e.ids
    <2>1. e.ids \ Stopping' = e.ids \ Stopping
      BY <1>4
    <2> QED
      BY <1>1, <1>4, <2>1 DEF CountedIn, ElementCounts
  <1> QED
    BY <1>3, <1>4

LEMMA StopEndsKeeps ==
  ASSUME RequestInv, TableStays, NEW id \in Ids, StopEnds(id)
  PROVE  /\ RequestInv'
         /\ \A s \in Sessions :
              pending[s].kind = "stop" /\ pending'[s] = NoRequest =>
                \A e \in WaitingFor(s) : e.ids \cap daemons' = {}
PROOF
  <1> DEFINE Counted1(e) == CountedIn(e, id)
             counted == {Counted1(e) : e \in iAsyncStopQueue}
             complete == {e \in counted : IsComplete(e)}
             done == {e.session : e \in complete}
  <1>1. /\ id \in daemons
        /\ daemons' = daemons \ {id}
        /\ stop' = IF id \in DOMAIN iConnInfos THEN [stop EXCEPT ![id] = "completed"] ELSE stop
        /\ iAsyncStopQueue' = counted \ complete
        /\ pending' = [s \in Sessions |->
                         IF s \in done /\ pending[s].kind = "stop" THEN NoRequest ELSE pending[s]]
        /\ UNCHANGED <<volume, activity, timers, unstarted, iConnInfos, iIdCounter, listening>>
    BY DEF StopEnds, Ends, asyncVars, connVars
  <1>2. Stopping' = Stopping \ {id}
    BY <1>1 DEF Stopping, RequestInv, StopInv, ThreadsMarked
  <1>3. ASSUME NEW e \in iAsyncStopQueue
        PROVE  /\ Counted1(e) \in Elements
               /\ Counted1(e).session = e.session /\ Counted1(e).ids = e.ids
               /\ IsFiniteSet(e.ids)
               /\ Counted1(e).count = Cardinality(e.ids \ Stopping')
    BY <1>1, <1>2, CountedOnce DEF RequestInv, RequestTypes, StopInv
  <1> HIDE DEF Counted1
  <1>4. \A e \in iAsyncStopQueue :
          /\ e.session \in Sessions /\ pending[e.session].kind = "stop"
          /\ \A f \in iAsyncStopQueue : e.session = f.session => e = f
    BY DEF RequestInv, RequestTypes, StopInv, OneElement, Elements
  <1>5. ThreadsMarked'
    BY <1>1, <1>2 DEF RequestInv, RequestTypes, StopInv, ThreadsMarked, Stopping
  <1>6. ASSUME NEW c \in iAsyncStopQueue'
        PROVE  ElementCounts(c)' /\ c \in Elements
    <2>1. PICK e \in iAsyncStopQueue : c = Counted1(e) /\ ~IsComplete(c)
      BY <1>1
    <2>2. ElementCounts(e)
      BY DEF RequestInv, StopInv
    <2>3. c \in Elements /\ c.ids = e.ids /\ IsFiniteSet(e.ids)
          /\ c.count = Cardinality(c.ids \ Stopping')
      BY <1>3, <2>1
    <2>4. c.count < Cardinality(c.ids)
      <3>1. Cardinality(c.ids) \in Nat
        BY <2>3, FS_CardinalityType
      <3> QED
        BY <2>1, <2>3, <3>1 DEF IsComplete, Elements
    <2>5. \A i \in c.ids \cap DOMAIN iConnInfos' : stop'[i] # "no"
      BY <1>1, <2>2, <2>3 DEF ElementCounts, RequestInv, RequestTypes, Elements
    <2> QED
      BY <1>1, <2>2, <2>3, <2>4, <2>5 DEF ElementCounts
  <1>7. RequestTypes'
    <2>1. pending' \in [Sessions -> [kind : {"none"} \cup Kinds, id : {0} \cup Ids]]
      BY <1>1 DEF RequestInv, RequestTypes, NoRequest
    <2>2. iAsyncStopQueue' \subseteq Elements
      BY <1>6
    <2> QED
      BY <1>1, <2>1, <2>2 DEF RequestInv, RequestTypes
  <1>8. AskedFor'
    BY <1>1 DEF RequestInv, AskedFor, NoRequest
  <1>9. OneElement'
    <2>1. \A c \in iAsyncStopQueue' : pending'[c.session].kind = "stop"
      <3> SUFFICES ASSUME NEW c \in iAsyncStopQueue' PROVE pending'[c.session].kind = "stop"
        OBVIOUS
      <3>1. PICK e \in iAsyncStopQueue : c = Counted1(e) /\ ~IsComplete(c)
        BY <1>1
      <3>2. c.session = e.session
        BY <1>3, <3>1
      <3>3. ASSUME c.session \in done PROVE FALSE
        <4>1. PICK f \in iAsyncStopQueue :
                Counted1(f).session = c.session /\ IsComplete(Counted1(f))
          BY <3>3
        <4>2. f = e
          BY <1>3, <1>4, <3>2, <4>1, ZenonT(60)
        <4> QED
          BY <3>1, <4>1, <4>2
      <3> QED
        BY <1>1, <1>4, <3>2, <3>3
    <2>2. \A c, d \in iAsyncStopQueue' : c.session = d.session => c = d
      <3> SUFFICES ASSUME NEW c \in iAsyncStopQueue', NEW d \in iAsyncStopQueue',
                          c.session = d.session
                   PROVE  c = d
        OBVIOUS
      <3>1. PICK e \in iAsyncStopQueue, f \in iAsyncStopQueue : c = Counted1(e) /\ d = Counted1(f)
        BY <1>1
      <3>2. e.session = f.session
        BY <1>3, <3>1
      <3> QED
        BY <1>4, <3>1, <3>2
    <2>3. ASSUME NEW s \in Sessions, pending'[s].kind = "stop"
          PROVE  \E c \in iAsyncStopQueue' : c.session = s
      <3>1. s \notin done /\ pending[s].kind = "stop"
        BY <1>1, <2>3 DEF NoRequest
      <3>2. PICK e \in iAsyncStopQueue : e.session = s
        BY <3>1 DEF RequestInv, StopInv, OneElement
      <3>3. Counted1(e).session = s /\ Counted1(e) \in counted
        BY <1>3, <3>2
      <3>4. Counted1(e) \notin complete
        BY <3>1, <3>3
      <3> QED
        BY <1>1, <3>3, <3>4
    <2> QED
      BY <2>1, <2>2, <2>3 DEF OneElement
  <1>10. ASSUME NEW s \in Sessions, pending[s].kind = "stop", pending'[s] = NoRequest,
                NEW e \in WaitingFor(s)
         PROVE  e.ids \cap daemons' = {}
    <2>1. s \in done
      BY <1>1, <1>10 DEF NoRequest
    <2>2. PICK f \in iAsyncStopQueue : Counted1(f).session = s /\ IsComplete(Counted1(f))
      BY <2>1
    <2>3. f = e
      BY <1>3, <1>4, <2>2 DEF WaitingFor
    <2>4. /\ IsFiniteSet(e.ids)
          /\ Cardinality(e.ids \ Stopping') >= Cardinality(e.ids)
      BY <1>3, <2>2, <2>3 DEF IsComplete
    <2>5. /\ Cardinality(e.ids) \in Nat /\ Cardinality(e.ids \ Stopping') \in Nat
          /\ Cardinality(e.ids \ Stopping') <= Cardinality(e.ids)
          /\ Cardinality(e.ids) = Cardinality(e.ids \ Stopping') => e.ids = e.ids \ Stopping'
      BY <2>4, FS_Subset, FS_CardinalityType
    <2>6. e.ids = e.ids \ Stopping'
      BY <2>4, <2>5
    <2> QED
      BY <2>6 DEF Stopping
  <1>11. StopInv'
    BY <1>5, <1>6, <1>9 DEF StopInv
  <1> QED
    BY <1>7, <1>8, <1>10, <1>11 DEF RequestInv

LEMMA CancelKeeps ==
  ASSUME RequestInv, TableStays, NEW s \in Sessions, Cancel(s)
  PROVE  RequestInv'
PROOF
  <1>1. /\ pending' = [pending EXCEPT ![s] = NoRequest]
        /\ UNCHANGED <<volume, activity, timers, stop, daemons, unstarted,
                       iConnInfos, iIdCounter, listening>>
        /\ iAsyncStopQueue' \subseteq iAsyncStopQueue
    BY DEF Cancel, asyncVars, TableStays, connVars
  <1>2. iAsyncStopQueue' = {e \in iAsyncStopQueue : e.session # s}
    <2>1. CASE pending[s].kind = "stop"
      BY <2>1 DEF Cancel
    <2>2. CASE pending[s].kind # "stop"
      BY <2>2 DEF Cancel, RequestInv, StopInv, OneElement
    <2> QED
      BY <2>1, <2>2
  <1>3. RequestTypes'
    BY <1>1 DEF RequestInv, RequestTypes, NoRequest
  <1>4. AskedFor'
    BY <1>1 DEF RequestInv, RequestTypes, AskedFor, NoRequest
  <1>5. ThreadsMarked' /\ \A e \in iAsyncStopQueue' : ElementCounts(e)'
    BY <1>1 DEF RequestInv, StopInv, ThreadsMarked, ElementCounts, Stopping
  <1>6. OneElement'
    BY <1>1, <1>2 DEF RequestInv, RequestTypes, StopInv, OneElement, NoRequest, Elements
  <1> QED
    BY <1>3, <1>4, <1>5, <1>6 DEF RequestInv, StopInv

---------------------------------------------------------------------------------
(* The theorems *)

LEMMA TableStepKeeps ==
  ASSUME TableInv, RestTypes, TableInv', RestTypes', RequestInv, TableStep
  PROVE  RequestInv' /\ UNCHANGED daemons
PROOF
  <1>1. Given /\ Given' /\ iIdCounter \in Nat
    <2>1. Given
      BY StaysGiven
    <2>2. Given'
      BY IdsAreGiven DEF TableInv, RestTypes, Given
    <2> QED
      BY <2>1, <2>2 DEF TableInv, TableTypes
  <1>2. ConnNext
    BY DEF TableStep, ConnNext, UpOfInterface, ProgressOf, Others, Adding, Clients
  <1>3. /\ iIdCounter' \in {iIdCounter, iIdCounter + 1}
        /\ DOMAIN iConnInfos' \ DOMAIN iConnInfos \subseteq {iIdCounter + 1}
    BY <1>2, NewIds
  <1>4. CASE /\ UNCHANGED <<requestVars, listening>>
             /\ DOMAIN iConnInfos' = DOMAIN iConnInfos
    <2>1. UNCHANGED <<pending, volume, activity, timers, stop, daemons, iAsyncStopQueue,
                      unstarted, listening>>
      BY <1>4 DEF requestVars, asyncVars, stopVars
    <2>2. RequestTypes' /\ AskedFor'
      BY <1>4, <2>1 DEF RequestInv, RequestTypes, AskedFor
    <2>3. ThreadsMarked' /\ OneElement'
      BY <1>1, <1>3, <1>4, <2>1 DEF RequestInv, StopInv, ThreadsMarked, OneElement, Stopping
    <2>4. \A e \in iAsyncStopQueue' : ElementCounts(e)'
      <3> SUFFICES ASSUME NEW e \in iAsyncStopQueue PROVE ElementCounts(e)'
        BY <2>1
      <3>1. ElementCounts(e) /\ Stopping' = Stopping
        BY <2>1 DEF RequestInv, StopInv, Stopping
      <3>2. 1..iIdCounter \subseteq 1..iIdCounter'
        BY <1>1, <1>3
      <3> QED
        BY <1>4, <2>1, <3>1, <3>2 DEF ElementCounts
    <2> QED
      BY <2>1, <2>2, <2>3, <2>4 DEF RequestInv, StopInv
  <1>5. ASSUME NEW opened, NEW resumed, Follow(opened, resumed),
               opened \subseteq DOMAIN iConnInfos \cup DOMAIN iConnInfos',
               resumed \subseteq DOMAIN iConnInfos' \ opened,
               \A id \in resumed : activity[id] \in {"idle", "disconnected"},
               listening' = {} => resumed = {}
        PROVE  RequestInv' /\ UNCHANGED daemons
    <2>1. RequestTypes' /\ AskedFor'
      BY <1>1, <1>5, FollowKeepsAsked DEF RequestInv
    <2>2. StopInv'
      BY <1>1, <1>3, <1>5, FollowKeepsStops DEF RequestInv
    <2>3. UNCHANGED daemons
      BY <1>5 DEF Follow
    <2> QED
      BY <2>1, <2>2, <2>3 DEF RequestInv
  <1> QED
    BY <1>4, <1>5, TableFollows

\* What a step does to the stops.
Awaited ==
  \A s \in Sessions :
    (pending[s].kind = "stop" /\ pending'[s] = NoRequest /\ daemons' # daemons) =>
      \A e \in WaitingFor(s) : e.ids \cap daemons' = {}

\* Asking for a stop answers none.
LEMMA Unanswered ==
  ASSUME NEW s \in Sessions, NEW ids, NEW id,
         \/ pending' = [BothAnswered(ids) EXCEPT ![s] = Request("stop", id)]
         \/ pending' = BothAnswered(ids)
  PROVE  Awaited
PROOF
  <1> SUFFICES ASSUME NEW t \in Sessions, pending[t].kind = "stop", pending'[t] = NoRequest
               PROVE  FALSE
    BY DEF Awaited
  <1>1. BothAnswered(ids)[t] = pending[t]
    BY DEF BothAnswered, Waits
  <1>2. pending'[t].kind = "stop"
    <2> DEFINE asked == [BothAnswered(ids) EXCEPT ![s] = Request("stop", id)]
    <2>1. asked[t] = IF t = s THEN Request("stop", id) ELSE BothAnswered(ids)[t]
      BY DEF BothAnswered
    <2>2. asked[t].kind = "stop"
      BY <1>1, <2>1 DEF Request
    <2> QED
      BY <1>1, <2>2
  <1> QED
    BY <1>2 DEF NoRequest

LEMMA StepKeeps ==
  ASSUME TableInv, RestTypes, TableInv', RestTypes', RequestInv, [Next]_allVars
  PROVE  RequestInv' /\ Awaited
PROOF
  <1>1. CASE UNCHANGED allVars
    <2>1. UNCHANGED <<pending, volume, activity, timers, stop, daemons, iAsyncStopQueue,
                      unstarted, listening, iConnInfos, iIdCounter>>
      BY <1>1 DEF allVars, connVars, requestVars, asyncVars, stopVars
    <2>2. RequestTypes' /\ AskedFor'
      BY <2>1 DEF RequestInv, RequestTypes, AskedFor
    <2>3. StopInv'
      BY <2>1 DEF RequestInv, StopInv, ThreadsMarked, ElementCounts, OneElement, Stopping
    <2> QED
      BY <2>1, <2>2, <2>3 DEF RequestInv, Awaited
  <1>2. CASE TableStep
    BY <1>2, TableStepKeeps DEF Awaited
  <1>3. ASSUME UNCHANGED connVars PROVE TableStays
    BY <1>3 DEF TableStays
  <1>4. ASSUME NEW s \in Sessions, NEW id \in DOMAIN iConnInfos,
               AskVolume(s, id) \/ AskActivity(s, id) \/ StopNow(s, id)
        PROVE  RequestInv' /\ UNCHANGED daemons
    BY <1>3, <1>4, AskVolumeKeeps, AskActivityKeeps, StopNowKeeps
    DEF AskVolume, AskActivity, StopNow, stopVars
  <1>5. ASSUME NEW s \in Sessions, NEW id \in DOMAIN iConnInfos, AskStop(s, id)
        PROVE  RequestInv' /\ Awaited
    <2>1. RequestInv'
      BY <1>3, <1>5, AskStopKeeps DEF AskStop
    <2>2. PICK ids :
            \/ pending' = [BothAnswered(ids) EXCEPT ![s] = Request("stop", id)]
            \/ pending' = BothAnswered(ids)
      BY <1>5 DEF AskStop
    <2> QED
      BY <2>1, <2>2, Unanswered
  <1>6. ASSUME NEW s \in Sessions, AskStopAll(s)
        PROVE  RequestInv' /\ Awaited
    <2>1. RequestInv'
      BY <1>3, <1>6, AskStopAllKeeps DEF AskStopAll
    <2>2. PICK ids :
            \/ pending' = [BothAnswered(ids) EXCEPT ![s] = Request("stop", 0)]
            \/ pending' = BothAnswered(ids)
      BY <1>6 DEF AskStopAll
    <2> QED
      BY <2>1, <2>2, Unanswered
  <1>7. ASSUME NEW s \in Sessions, Cancel(s)
        PROVE  RequestInv' /\ UNCHANGED daemons
    BY <1>3, <1>7, CancelKeeps DEF Cancel
  <1>8. ASSUME NEW id \in Ids,
               VolumeIsKnown(id) \/ ActivityIsKnown(id) \/ ActivityChanges(id)
                 \/ TimerExpires(id)
        PROVE  RequestInv' /\ UNCHANGED daemons
    BY <1>3, <1>8, VolumeIsKnownKeeps, ActivityIsKnownKeeps, ActivityChangesKeeps,
       TimerExpiresKeeps
    DEF VolumeIsKnown, ActivityIsKnown, ActivityChanges, TimerExpires, stopVars
  <1>9. ASSUME NEW id \in Ids, StopEnds(id)
        PROVE  RequestInv' /\ Awaited
    BY <1>3, <1>9, StopEndsKeeps DEF StopEnds, Awaited
  <1>10. UNCHANGED daemons => Awaited
    BY DEF Awaited
  <1> QED
    BY <1>1, <1>2, <1>4, <1>5, <1>6, <1>7, <1>8, <1>9, <1>10 DEF Next, Asking, Operations

LEMMA RequestsAlways == Spec => []RequestInv /\ [][Awaited]_allVars
PROOF
  <1>1. Init => RequestInv
    BY InitRequests
  <1>2. TableInv /\ RestTypes /\ TableInv' /\ RestTypes' /\ RequestInv /\ [Next]_allVars
          => RequestInv' /\ Awaited
    BY StepKeeps
  <1> QED
    BY <1>1, <1>2, TableAlways, RestAlways, PTL DEF Spec

\* Every variable of the table, its notifiers and the requests has its type.
THEOREM TypesHold == Spec => []TypeOK
PROOF
  <1>1. TableInv /\ RestTypes /\ RequestInv => TypeOK
    BY ConnTypes DEF RequestInv, RequestTypes, TypeOK
  <1> QED
    BY <1>1, TableAlways, RestAlways, RequestsAlways, PTL

\* Whoever waits for an answer has somebody to give it, whatever other sessions
\* stop, cancel or stop listening to (CConnMonIAP, CConnMonSess).
THEOREM RequestsHaveOperations == Spec => []PendingHasOperation
PROOF
  <1>1. TableInv /\ RestTypes /\ RequestInv => PendingHasOperation
    <2> SUFFICES ASSUME TableInv, RestTypes, RequestInv, NEW s \in Sessions
                 PROVE  LET id == pending[s].id
                        IN  /\ pending[s].kind = "volume" => id \in volume \cap DOMAIN iConnInfos
                            /\ pending[s].kind = "activity" =>
                                 /\ id \in DOMAIN iConnInfos
                                 /\ activity[id] = "oneshot"
                                 /\ timers[id] > 0
                            /\ pending[s].kind = "stop" =>
                                 \E e \in WaitingFor(s) :
                                   e.ids \cap (daemons \cup unstarted) # {}
      BY DEF PendingHasOperation
    <2>1. pending[s].kind = "volume" => pending[s].id \in volume \cap DOMAIN iConnInfos
      BY DEF RequestInv, AskedFor
    <2>2. ASSUME pending[s].kind = "activity"
          PROVE  /\ pending[s].id \in DOMAIN iConnInfos
                 /\ activity[pending[s].id] = "oneshot"
                 /\ timers[pending[s].id] > 0
      <3>1. pending[s].id \in DOMAIN iConnInfos /\ activity[pending[s].id] = "oneshot"
        BY <2>2 DEF RequestInv, AskedFor
      <3>2. pending[s].id \in Ids
        BY <3>1, StaysGiven DEF Given
      <3> QED
        BY <3>1, <3>2 DEF RequestInv, AskedFor
    <2>3. ASSUME pending[s].kind = "stop"
          PROVE  \E e \in WaitingFor(s) : e.ids \cap (daemons \cup unstarted) # {}
      <3>1. PICK e \in iAsyncStopQueue : e.session = s
        BY <2>3 DEF RequestInv, StopInv, OneElement
      <3>2. ElementCounts(e)
        BY DEF RequestInv, StopInv
      <3>3. e.ids \cap Stopping # {}
        <4>1. SUFFICES ASSUME e.ids \cap Stopping = {} PROVE FALSE
          OBVIOUS
        <4>2. e.ids \ Stopping = e.ids
          BY <4>1
        <4>3. e.count \in Nat
          BY DEF RequestInv, RequestTypes, Elements
        <4> QED
          BY <3>2, <4>2, <4>3 DEF ElementCounts
      <3> QED
        BY <3>1, <3>3 DEF WaitingFor, Stopping
    <2> QED
      BY <2>1, <2>2, <2>3
  <1> QED
    BY <1>1, TableAlways, RestAlways, RequestsAlways, PTL

\* The end of a thread answers a stop request only when no thread is left for
\* the connections it waits for (CompleteAsyncStopReqs, iStopCount).
THEOREM StopsAreAwaited == Spec => StopsAwaited
PROOF
  <1>1. StopsAwaited <=> [][Awaited]_allVars
    BY DEF StopsAwaited, Awaited
  <1> QED
    BY <1>1, RequestsAlways

---------------------------------------------------------------------------------
(* The reports of the interfaces *)

\* The first and the last report of an access point among those that wait.
FirstFor(n) == \A k \in DOMAIN updown : k < n => updown[k].iap # updown[n].iap
LastFor(n) == \A k \in DOMAIN updown : k > n => updown[k].iap # updown[n].iap
NoneFor(iap) == \A n \in DOMAIN updown : updown[n].iap # iap

Unwatched == ~watching => updown = <<>> /\ DOMAIN iConnInfos = {}

\* An interface goes up and down in turn.
Alternate ==
  \A m, n \in DOMAIN updown :
    /\ m < n
    /\ updown[m].iap = updown[n].iap
    /\ \A k \in DOMAIN updown : m < k /\ k < n => updown[k].iap # updown[n].iap
    => updown[m].state # updown[n].state

LastMatches ==
  \A n \in DOMAIN updown :
    LastFor(n) => (updown[n].state = "up" <=> stage[updown[n].iap] # None)

Known(id) == iConnInfos[id].interfaceClosed \/ id \in forgotten

\* A record whose interface's end was reported knows of it, or has forgotten it:
\* the next report of its access point is of a new interface.
EndsKnown ==
  \A id \in DOMAIN iConnInfos :
    /\ \A n \in DOMAIN updown :
         updown[n].iap = iConnInfos[id].iap /\ FirstFor(n) /\ updown[n].state = "up" => Known(id)
    /\ NoneFor(iConnInfos[id].iap) /\ stage[iConnInfos[id].iap] = None => Known(id)

\* A record whose interface is known to have ended has its notifiers.
ClosedNotified ==
  \A id \in DOMAIN iConnInfos :
    iConnInfos[id].interfaceClosed => iConnInfos[id].progress # "none"

ReportsInv == Unwatched /\ Alternate /\ LastMatches /\ EndsKnown /\ ClosedNotified

\* Until the server crashes.
ReportInv == crashed \/ ReportsInv

LEMMA ReportTypes ==
  ASSUME updown \in Seq(Reports)
  PROVE  /\ Len(updown) \in Nat
         /\ DOMAIN updown = 1..Len(updown)
         /\ \A n \in DOMAIN updown :
              updown[n] \in Reports /\ updown[n].iap \in Iaps /\ updown[n].state \in {"up", "down"}
PROOF
  <1>1. Len(updown) \in Nat /\ DOMAIN updown = 1..Len(updown)
    OBVIOUS
  <1>2. \A n \in DOMAIN updown : updown[n] \in Reports
    BY <1>1, ElementOfSeq
  <1> QED
    BY <1>1, <1>2 DEF Reports

---------------------------------------------------------------------------------
(* Steps that leave the reports alone *)

\* What the handlers of the records leave as it is.
Holds(before, after) ==
  \A id \in DOMAIN after :
    /\ id \in DOMAIN before
    /\ after[id].iap = before[id].iap
    /\ after[id].interfaceClosed = before[id].interfaceClosed
    /\ after[id].progress = "none" => before[id].progress = "none"

LEMMA HoldsOn ==
  ASSUME NEW a, NEW b, NEW c, Holds(a, b), Holds(b, c)
  PROVE  Holds(a, c)
PROOF
  BY DEF Holds

LEMMA UpdateHolds ==
  ASSUME NEW table, NEW id \in DOMAIN table, NEW rec,
         rec.iap = table[id].iap, rec.interfaceClosed = table[id].interfaceClosed,
         rec.progress = "none" => table[id].progress = "none"
  PROVE  Holds(table, [table EXCEPT ![id] = rec])
PROOF
  BY DEF Holds

LEMMA WithoutHolds ==
  ASSUME NEW table, NEW ids
  PROVE  Holds(table, Without(table, ids))
PROOF
  BY DEF Holds, Without

LEMMA SendHolds ==
  ASSUME NEW table, IsTable(table), NEW id \in DOMAIN table
  PROVE  Holds(table, AfterSend(table, id))
PROOF
  <1>1. Holds(table, table)
    BY DEF Holds
  <1>2. Holds(table, Without(table, {id}))
    BY WithoutHolds
  <1>3. Holds(table, [table EXCEPT ![id].deleteSent = TRUE])
    BY DEF Holds, IsTable, Recs, Records
  <1> QED
    BY <1>1, <1>2, <1>3 DEF AfterSend, Dropped

LEMMA NotifiersHold ==
  ASSUME NEW table, IsTable(table)
  PROVE  Holds(table, AllWithNotifiers(table))
PROOF
  <1> DEFINE Turned(id) == WithNotifiers(table[id], StatusOf(table[id]))
  <1>1. ASSUME NEW id \in DOMAIN table
        PROVE  /\ Turned(id).iap = table[id].iap
               /\ Turned(id).interfaceClosed = table[id].interfaceClosed
               /\ Turned(id).progress = "none" => table[id].progress = "none"
    <2>1. table[id] \in Recs
      BY DEF IsTable
    <2>2. CASE table[id].progress # "none"
      BY <2>2 DEF WithNotifiers
    <2>3. CASE table[id].progress = "none"
      BY <2>1, <2>3 DEF WithNotifiers, Recs, Records
    <2> QED
      BY <2>2, <2>3
  <1>2. AllWithNotifiers(table) = [id \in DOMAIN table |-> Turned(id)]
    BY DEF AllWithNotifiers
  <1> HIDE DEF Turned
  <1> QED
    BY <1>1, <1>2 DEF Holds

LEMMA HeardHolds ==
  ASSUME TableInv, NEW iap, NEW st, NEW ends
  PROVE  Holds(iConnInfos, Heard(iap, st, ends))
PROOF
  <1> DEFINE Turned(id) == [iConnInfos[id] EXCEPT !.stages = Append(@, st), !.closed = @ \/ ends]
  <1>1. ASSUME NEW id \in DOMAIN iConnInfos
        PROVE  /\ Turned(id).iap = iConnInfos[id].iap
               /\ Turned(id).interfaceClosed = iConnInfos[id].interfaceClosed
               /\ Turned(id).progress = iConnInfos[id].progress
    BY DEF TableInv, TableTypes, IsTable, Recs, Records
  <1>2. Heard(iap, st, ends) =
          [id \in DOMAIN iConnInfos |->
             IF iConnInfos[id].iap # iap \/ iConnInfos[id].start # starts[iap]
               THEN iConnInfos[id] ELSE Turned(id)]
    BY DEF Heard
  <1> HIDE DEF Turned
  <1> QED
    BY <1>1, <1>2 DEF Holds

\* A step of the records alone: whatever was reported stays so.
LEMMA HoldingKeeps ==
  ASSUME TableInv, ReportsInv, Holds(iConnInfos, iConnInfos'), forgotten \subseteq forgotten',
         UNCHANGED <<updown, watching>>,
         \A i \in Iaps : stage'[i] = None <=> stage[i] = None
  PROVE  ReportsInv'
PROOF
  <1>0. updown \in Seq(Reports)
    BY DEF TableInv, TableTypes
  <1>1. Unwatched'
    BY DEF ReportsInv, Unwatched, Holds
  <1>2. Alternate'
    BY DEF ReportsInv, Alternate
  <1>3. ClosedNotified'
    BY DEF ReportsInv, ClosedNotified, Holds
  <1>4. LastMatches'
    <2>1. \A n \in DOMAIN updown : updown[n].iap \in Iaps
      BY <1>0, ReportTypes
    <2> QED
      BY <2>1 DEF ReportsInv, LastMatches, LastFor
  <1>5. EndsKnown'
    <2> SUFFICES ASSUME NEW id \in DOMAIN iConnInfos'
                 PROVE  /\ \A n \in DOMAIN updown :
                             updown[n].iap = iConnInfos'[id].iap /\ FirstFor(n)
                               /\ updown[n].state = "up" => Known(id)'
                        /\ NoneFor(iConnInfos'[id].iap) /\ stage'[iConnInfos'[id].iap] = None
                             => Known(id)'
      BY DEF EndsKnown, FirstFor, NoneFor
    <2>1. /\ id \in DOMAIN iConnInfos
          /\ iConnInfos'[id].iap = iConnInfos[id].iap
          /\ Known(id) => Known(id)'
      BY DEF Holds, Known
    <2>2. iConnInfos[id].iap \in Iaps
      BY <2>1 DEF TableInv, TableTypes, IsTable, Recs, Records
    <2> QED
      BY <2>1, <2>2 DEF ReportsInv, EndsKnown
  <1> QED
    BY <1>1, <1>2, <1>3, <1>4, <1>5 DEF ReportsInv

LEMMA StageHolds ==
  ASSUME NEW rec \in Recs, rec.stages # <<>>
  PROVE  AfterStage(rec, Head(rec.stages)).interfaceClosed = rec.interfaceClosed
PROOF
  <1> DEFINE st == Head(rec.stages)
             taken == [rec EXCEPT !.stages = Tail(@), !.last = st]
             passed == [taken EXCEPT !.filter = NoFiltering]
  <1>1. /\ taken.interfaceClosed = rec.interfaceClosed
        /\ passed.interfaceClosed = rec.interfaceClosed
        /\ AfterOpen(passed).interfaceClosed = rec.interfaceClosed
        /\ AfterClosed(passed).interfaceClosed = rec.interfaceClosed
    BY DEF Recs, Records, AfterOpen, AfterClosed
  <1>2. AfterStage(rec, st) \in {taken, passed, AfterOpen(passed), AfterClosed(passed)}
    BY DEF AfterStage
  <1> QED
    BY <1>1, <1>2

LEMMA NotifierSteps ==
  ASSUME TableInv, ReportsInv, NEW id \in DOMAIN iConnInfos,
         Progress(id) \/ ProgressFails(id) \/ SubConnectionClosed(id)
           \/ SubConnectionNotReady(id)
  PROVE  ReportsInv'
PROOF
  <1> DEFINE rec == iConnInfos[id]
  <1>1. IsTable(iConnInfos) /\ rec \in Recs
    BY DEF TableInv, TableTypes, IsTable
  <1>2. UNCHANGED <<stage, updown, watching, forgotten>>
    BY DEF Progress, ProgressFails, SubConnectionClosed, SubConnectionNotReady, NotifierKeeps,
       netVars
  <1>3. CASE Progress(id)
    <2> DEFINE new == AfterStage(rec, Head(rec.stages))
               resting == [new EXCEPT !.progress = "idle"]
               now == [iConnInfos EXCEPT ![id] = new]
               idle == [now EXCEPT ![id].progress = "idle"]
    <2>1. rec.progress = "active" /\ rec.stages # <<>>
          /\ iConnInfos' \in {now, AfterSend(idle, id)}
      BY <1>3 DEF Progress
    <2>2. /\ new \in Recs /\ new.progress = "active"
          /\ new.iap = rec.iap /\ new.deleteSent = rec.deleteSent
      BY <1>1, <2>1, StageKeeps
    <2>3. new.interfaceClosed = rec.interfaceClosed
      BY <1>1, <2>1, StageHolds
    <2> HIDE DEF new
    <2>4. /\ resting \in Recs /\ resting.progress = "idle"
          /\ resting.iap = rec.iap /\ resting.interfaceClosed = rec.interfaceClosed
          /\ resting.deleteSent = rec.deleteSent
      BY <2>2, <2>3 DEF Recs, Records
    <2>5. idle = [iConnInfos EXCEPT ![id] = resting]
      BY <1>1
    <2> HIDE DEF resting
    <2>6. Holds(iConnInfos, now)
      BY <2>2, <2>3, UpdateHolds
    <2>7. Holds(iConnInfos, idle)
      BY <2>4, <2>5, UpdateHolds
    <2>8. IsTable(idle) /\ id \in DOMAIN idle
      BY <1>1, <2>1, <2>4, <2>5, UpdateDevelops DEF Develops
    <2>9. Holds(iConnInfos, AfterSend(idle, id))
      BY <2>7, <2>8, SendHolds, HoldsOn
    <2> HIDE DEF now, idle
    <2> QED
      BY <1>2, <2>1, <2>6, <2>9, HoldingKeeps
  <1>4. CASE ProgressFails(id)
    <2> DEFINE new == [rec EXCEPT !.progress = "idle"]
    <2>1. iConnInfos' = [iConnInfos EXCEPT ![id] = new]
      BY <1>4 DEF ProgressFails
    <2>2. new.progress = "idle" /\ new.iap = rec.iap /\ new.interfaceClosed = rec.interfaceClosed
      BY <1>1 DEF Recs, Records
    <2> HIDE DEF new
    <2>3. Holds(iConnInfos, iConnInfos')
      BY <2>1, <2>2, UpdateHolds
    <2> QED
      BY <1>2, <2>3, HoldingKeeps
  <1>5. ASSUME NEW sub \in {"idle", "disconnected"}, rec.sub = "active", SubEnds(id, sub)
        PROVE  ReportsInv'
    <2> DEFINE new == [rec EXCEPT !.sub = sub, !.closed = FALSE]
               now == [iConnInfos EXCEPT ![id] = new]
    <2>1. /\ new \in Recs
          /\ new.progress = rec.progress
          /\ new.iap = rec.iap
          /\ new.deleteSent = rec.deleteSent
          /\ new.interfaceClosed = rec.interfaceClosed
      BY <1>1, <1>5 DEF Recs, Records
    <2>2. [iConnInfos EXCEPT ![id].sub = sub, ![id].closed = FALSE] = now
      BY <1>1
    <2>3. iConnInfos' \in {now, AfterSend(now, id)}
      BY <1>5, <2>2 DEF SubEnds
    <2> HIDE DEF new
    <2>4. Holds(iConnInfos, now)
      BY <2>1, UpdateHolds
    <2>5. IsTable(now) /\ id \in DOMAIN now
      BY <1>1, <2>1, UpdateDevelops DEF Develops
    <2>6. Holds(iConnInfos, AfterSend(now, id))
      BY <2>4, <2>5, SendHolds, HoldsOn
    <2> HIDE DEF now
    <2> QED
      BY <1>2, <2>3, <2>4, <2>6, HoldingKeeps
  <1> QED
    BY <1>3, <1>4, <1>5 DEF SubConnectionClosed, SubConnectionNotReady

---------------------------------------------------------------------------------
(* The notifier for all interfaces takes a report *)

LEMMA TakenReport ==
  ASSUME updown \in Seq(Reports), updown # <<>>, updown' = Tail(updown), UNCHANGED stage,
         Alternate, LastMatches
  PROVE  LET head == Head(updown)
         IN  /\ Alternate'
             /\ LastMatches'
             /\ \A n \in DOMAIN updown' :
                  /\ n + 1 \in DOMAIN updown /\ updown'[n] = updown[n + 1]
                  /\ FirstFor(n)' /\ updown'[n].iap # head.iap => FirstFor(n + 1)
                  /\ FirstFor(n)' /\ updown'[n].iap = head.iap => updown'[n].state # head.state
             /\ \A iap : NoneFor(iap)' /\ iap # head.iap => NoneFor(iap)
             /\ \A iap : NoneFor(iap)' /\ iap = head.iap =>
                  (head.state = "up" <=> stage[head.iap] # None)
PROOF
  <1> DEFINE head == Head(updown)
             N == Len(updown)
  <1>1. /\ N \in Nat /\ N >= 1 /\ DOMAIN updown = 1..N
        /\ DOMAIN updown' = 1..(N - 1)
        /\ head = updown[1]
        /\ \A n \in 1..(N - 1) : updown'[n] = updown[n + 1]
    <2>1. N \in Nat /\ N # 0 /\ DOMAIN updown = 1..N
      BY EmptySeq
    <2>2. /\ Len(Tail(updown)) = N - 1
          /\ Tail(updown) \in Seq(Reports)
          /\ \A n \in 1..(N - 1) : Tail(updown)[n] = updown[n + 1]
      BY HeadTailProperties
    <2>3. DOMAIN Tail(updown) = 1..(N - 1)
      BY <2>2
    <2>4. head = updown[1]
      OBVIOUS
    <2> QED
      BY <2>1, <2>2, <2>3, <2>4
  <1> HIDE DEF head, N
  <1>2. Alternate'
    <2> SUFFICES ASSUME NEW m \in DOMAIN updown', NEW n \in DOMAIN updown', m < n,
                        updown'[m].iap = updown'[n].iap,
                        \A k \in DOMAIN updown' : m < k /\ k < n => updown'[k].iap # updown'[n].iap
                 PROVE  updown'[m].state # updown'[n].state
      BY DEF Alternate
    <2>1. /\ m \in 1..(N - 1) /\ n \in 1..(N - 1)
          /\ m + 1 \in 1..N /\ n + 1 \in 1..N /\ m + 1 < n + 1
          /\ updown'[m] = updown[m + 1] /\ updown'[n] = updown[n + 1]
      BY <1>1
    <2>2. ASSUME NEW k \in 1..N, m + 1 < k, k < n + 1
          PROVE  updown[k].iap # updown[n + 1].iap
      <3>1. k - 1 \in 1..(N - 1) /\ m < k - 1 /\ k - 1 < n /\ (k - 1) + 1 = k
        BY <1>1, <2>1, <2>2
      <3>2. updown'[k - 1] = updown[k]
        BY <1>1, <3>1
      <3> QED
        BY <1>1, <2>1, <3>1, <3>2
    <2> QED
      BY <1>1, <2>1, <2>2 DEF Alternate
  <1>3. LastMatches'
    <2> SUFFICES ASSUME NEW n \in 1..(N - 1),
                        \A k \in 1..(N - 1) : k > n => updown'[k].iap # updown'[n].iap
                 PROVE  updown'[n].state = "up" <=> stage[updown'[n].iap] # None
      BY <1>1 DEF LastMatches, LastFor
    <2>1. n + 1 \in 1..N /\ updown'[n] = updown[n + 1]
      BY <1>1
    <2>2. ASSUME NEW k \in 1..N, k > n + 1
          PROVE  updown[k].iap # updown[n + 1].iap
      <3>1. k - 1 \in 1..(N - 1) /\ k - 1 > n /\ (k - 1) + 1 = k
        BY <1>1, <2>2
      <3>2. updown'[k - 1] = updown[k]
        BY <1>1, <3>1
      <3> QED
        BY <2>1, <3>1, <3>2
    <2> QED
      BY <1>1, <2>1, <2>2 DEF LastMatches, LastFor
  <1>4. ASSUME NEW n \in DOMAIN updown'
        PROVE  /\ n + 1 \in DOMAIN updown /\ updown'[n] = updown[n + 1]
               /\ FirstFor(n)' /\ updown'[n].iap # head.iap => FirstFor(n + 1)
               /\ FirstFor(n)' /\ updown'[n].iap = head.iap => updown'[n].state # head.state
    <2>1. n \in 1..(N - 1) /\ n + 1 \in 1..N /\ updown'[n] = updown[n + 1] /\ 1 < n + 1
      BY <1>1
    <2>2. ASSUME FirstFor(n)', NEW k \in 1..N, k < n + 1, k # 1
          PROVE  updown[k].iap # updown[n + 1].iap
      <3>1. k - 1 \in 1..(N - 1) /\ k - 1 < n /\ (k - 1) + 1 = k
        BY <1>1, <2>1, <2>2
      <3>2. updown'[k - 1] = updown[k]
        BY <1>1, <3>1
      <3> QED
        BY <1>1, <2>1, <2>2, <3>1, <3>2 DEF FirstFor
    <2>3. FirstFor(n)' /\ updown'[n].iap # head.iap => FirstFor(n + 1)
      BY <1>1, <2>1, <2>2 DEF FirstFor
    <2>4. ASSUME FirstFor(n)', updown'[n].iap = head.iap
          PROVE  updown'[n].state # head.state
      <3>1. 1 \in 1..N /\ updown[1].iap = updown[n + 1].iap
        BY <1>1, <2>1, <2>4
      <3>2. \A k \in 1..N : 1 < k /\ k < n + 1 => updown[k].iap # updown[n + 1].iap
        BY <2>2, <2>4
      <3> QED
        BY <1>1, <2>1, <3>1, <3>2 DEF Alternate
    <2> QED
      BY <1>1, <2>1, <2>3, <2>4
  <1>5. ASSUME NEW iap, NoneFor(iap)', NEW k \in 1..N, k # 1
        PROVE  updown[k].iap # iap
    <2>1. k - 1 \in 1..(N - 1) /\ (k - 1) + 1 = k
      BY <1>1, <1>5
    <2>2. updown'[k - 1] = updown[k]
      BY <1>1, <2>1
    <2> QED
      BY <1>1, <1>5, <2>1, <2>2 DEF NoneFor
  <1>6. \A iap : NoneFor(iap)' /\ iap # head.iap => NoneFor(iap)
    BY <1>1, <1>5 DEF NoneFor
  <1>7. ASSUME NEW iap, NoneFor(iap)', iap = head.iap
        PROVE  head.state = "up" <=> stage[head.iap] # None
    <2>1. ASSUME NEW k \in 1..N, k > 1
          PROVE  updown[k].iap # updown[1].iap
      <3>1. k # 1
        BY <2>1
      <3> QED
        BY <1>1, <1>5, <1>7, <3>1
    <2>2. LastFor(1)
      BY <1>1, <2>1 DEF LastFor
    <2> QED
      BY <1>1, <2>2 DEF LastMatches
  <1> QED
    BY <1>2, <1>3, <1>4, <1>6, <1>7 DEF head

\* The record of an interface that ended knows it; one of an interface that is up
\* is new; the others stay as they are.
LEMMA TakenKeeps ==
  ASSUME TableInv, ReportsInv, watching, updown # <<>>, updown' = Tail(updown),
         UNCHANGED <<stage, watching>>, forgotten \subseteq forgotten',
         \A id \in DOMAIN iConnInfos' :
           \/ /\ id \in DOMAIN iConnInfos
              /\ iConnInfos'[id] = iConnInfos[id]
              /\ iConnInfos[id].iap # Head(updown).iap
           \/ /\ iConnInfos'[id].iap = Head(updown).iap
              /\ Head(updown).state = "up"
              /\ ~iConnInfos'[id].interfaceClosed
           \/ /\ iConnInfos'[id].iap = Head(updown).iap
              /\ iConnInfos'[id].interfaceClosed
              /\ iConnInfos'[id].progress # "none"
  PROVE  ReportsInv'
PROOF
  <1> DEFINE head == Head(updown)
  <1>1. /\ Alternate'
        /\ LastMatches'
        /\ \A n \in DOMAIN updown' :
             /\ n + 1 \in DOMAIN updown /\ updown'[n] = updown[n + 1]
             /\ FirstFor(n)' /\ updown'[n].iap # head.iap => FirstFor(n + 1)
             /\ FirstFor(n)' /\ updown'[n].iap = head.iap => updown'[n].state # head.state
        /\ \A iap : NoneFor(iap)' /\ iap # head.iap => NoneFor(iap)
        /\ \A iap : NoneFor(iap)' /\ iap = head.iap =>
             (head.state = "up" <=> stage[head.iap] # None)
    BY TakenReport DEF TableInv, TableTypes, ReportsInv
  <1>2. Unwatched'
    BY DEF Unwatched
  <1>3. ClosedNotified'
    BY DEF ReportsInv, ClosedNotified
  <1>4. EndsKnown'
    <2> SUFFICES ASSUME NEW id \in DOMAIN iConnInfos', NEW iap, iap = iConnInfos'[id].iap
                 PROVE  /\ \A n \in DOMAIN updown' :
                             updown'[n].iap = iap /\ FirstFor(n)' /\ updown'[n].state = "up"
                               => Known(id)'
                        /\ NoneFor(iap)' /\ stage'[iap] = None => Known(id)'
      BY DEF EndsKnown, NoneFor
    <2>1. CASE /\ id \in DOMAIN iConnInfos
               /\ iConnInfos'[id] = iConnInfos[id]
               /\ iConnInfos[id].iap # head.iap
      <3>1. Known(id) => Known(id)'
        BY <2>1 DEF Known
      <3>2. iap = iConnInfos[id].iap /\ iap # head.iap
        BY <2>1
      <3>3. \A n \in DOMAIN updown' :
              updown'[n].iap = iap /\ FirstFor(n)' /\ updown'[n].state = "up" => Known(id)
        BY <1>1, <2>1, <3>2 DEF ReportsInv, EndsKnown
      <3>4. NoneFor(iap)' /\ stage[iap] = None => Known(id)
        BY <1>1, <2>1, <3>2 DEF ReportsInv, EndsKnown
      <3> QED
        BY <3>1, <3>3, <3>4
    <2>2. CASE /\ iConnInfos'[id].iap = head.iap
               /\ head.state = "up"
               /\ ~iConnInfos'[id].interfaceClosed
      BY <1>1, <2>2
    <2>3. CASE iConnInfos'[id].interfaceClosed
      BY <2>3 DEF Known
    <2> QED
      BY <2>1, <2>2, <2>3
  <1> QED
    BY <1>1, <1>2, <1>3, <1>4 DEF ReportsInv

LEMMA UpReported ==
  ASSUME TableInv, ReportInv, InterfaceUp
  PROVE  ReportInv'
PROOF
  <1> DEFINE iap == Head(updown).iap
             left == Without(iConnInfos, Closing(iap))
  <1>1. /\ ~crashed /\ watching /\ updown # <<>> /\ updown' = Tail(updown)
        /\ Head(updown).state = "up"
        /\ UNCHANGED <<stage, watching>>
        /\ ReportsInv
    BY DEF InterfaceUp, Handled, UpDownKeeps, netVars, ReportInv
  <1>2. CASE UpCrashes(iap)
    BY <1>2 DEF UpCrashes, ReportInv
  <1>3. \A id \in DOMAIN left :
          id \in DOMAIN iConnInfos /\ left[id] = iConnInfos[id] /\ left[id].iap # iap
    BY DEF Without, Closing, OfIap
  <1>4. CASE UpFails(iap)
    <2>1. iConnInfos' = left /\ forgotten' = forgotten
      BY <1>4 DEF UpFails
    <2> HIDE DEF left, iap
    <2>2. ReportsInv'
      BY <1>1, <1>3, <2>1, TakenKeeps DEF iap
    <2> QED
      BY <2>2 DEF ReportInv
  <1>5. CASE UpAdds(iap)
    <2> DEFINE new == IF listening # {} THEN WithNotifiers(RecordOf(iap), NoFiltering)
                      ELSE RecordOf(iap)
    <2>1. /\ iConnInfos' = [id \in DOMAIN left \cup {iIdCounter'} |->
                              IF id = iIdCounter' THEN new ELSE left[id]]
          /\ forgotten \subseteq forgotten'
      BY <1>5 DEF UpAdds, Added
    <2>2. new.iap = iap /\ ~new.interfaceClosed
      BY DEF RecordOf, WithNotifiers
    <2> HIDE DEF new, left, iap
    <2>3. ASSUME NEW id \in DOMAIN iConnInfos'
          PROVE  \/ /\ id \in DOMAIN iConnInfos
                    /\ iConnInfos'[id] = iConnInfos[id]
                    /\ iConnInfos[id].iap # iap
                 \/ iConnInfos'[id].iap = iap /\ ~iConnInfos'[id].interfaceClosed
      BY <1>3, <2>1, <2>2
    <2>4. ReportsInv'
      BY <1>1, <2>1, <2>3, TakenKeeps DEF iap
    <2> QED
      BY <2>4 DEF ReportInv
  <1> QED
    BY <1>2, <1>4, <1>5 DEF InterfaceUp

LEMMA DownReported ==
  ASSUME TableInv, ReportInv, InterfaceDown
  PROVE  ReportInv'
PROOF
  <1> DEFINE iap == Head(updown).iap
             ids == OfIap(iConnInfos, iap)
             chosen == CHOOSE id \in ids : TRUE
             rec == iConnInfos[chosen]
             known == [iConnInfos EXCEPT ![chosen].interfaceClosed = TRUE]
  <1>1. /\ ~crashed /\ watching /\ updown # <<>> /\ updown' = Tail(updown)
        /\ UNCHANGED <<stage, watching, forgotten>>
        /\ ReportsInv
        /\ iConnInfos' = IF ids = {} THEN iConnInfos ELSE AfterDown(iConnInfos, chosen)
    BY DEF InterfaceDown, Handled, UpDownKeeps, netVars, ReportInv
  <1>2. ASSUME NEW id \in DOMAIN iConnInfos'
        PROVE  \/ /\ id \in DOMAIN iConnInfos
                  /\ iConnInfos'[id] = iConnInfos[id]
                  /\ iConnInfos[id].iap # iap
               \/ /\ iConnInfos'[id].iap = iap
                  /\ iConnInfos'[id].interfaceClosed
                  /\ iConnInfos'[id].progress # "none"
    <2>1. CASE ids = {}
      BY <1>1, <1>2, <2>1 DEF OfIap
    <2>2. CASE ids # {}
      <3>1. chosen \in ids /\ ids = {chosen}
        BY <2>2 DEF OfIap, TableInv, OneRecordPerIap
      <3>2. iConnInfos' = AfterDown(iConnInfos, chosen)
        BY <1>1, <2>2
      <3>3. /\ chosen \in DOMAIN iConnInfos /\ rec \in Recs /\ rec.iap = iap
            /\ \A i \in DOMAIN iConnInfos \ {chosen} : iConnInfos[i].iap # iap
        BY <3>1 DEF OfIap, TableInv, TableTypes, IsTable
      <3> HIDE DEF chosen, ids
      <3>4. CASE listening = {} \/ rec.deleteSent
        BY <1>2, <3>2, <3>3, <3>4 DEF AfterDown, Without
      <3>5. CASE listening # {} /\ ~rec.deleteSent
        <4>1. /\ DOMAIN known = DOMAIN iConnInfos
              /\ \A i \in DOMAIN iConnInfos \ {chosen} : known[i] = iConnInfos[i]
              /\ known[chosen] = [rec EXCEPT !.interfaceClosed = TRUE]
          BY <3>3
        <4>2. /\ known[chosen].interfaceClosed /\ known[chosen].iap = iap
              /\ known[chosen].progress = rec.progress
              /\ known[chosen].deleteSent = rec.deleteSent
          BY <3>3, <4>1 DEF Recs, Records
        <4>3. rec.progress # "none"
          BY <3>3, <3>5 DEF TableInv, AllNotified
        <4>4. CASE rec.linkLayerClosed
          <5>1. iConnInfos' = Without(known, {chosen})
            BY <3>2, <3>5, <4>2, <4>4 DEF AfterDown, AfterSend, Dropped
          <5> HIDE DEF known
          <5> QED
            BY <1>2, <3>3, <4>1, <5>1 DEF Without
        <4>5. CASE ~rec.linkLayerClosed
          <5>1. iConnInfos' = known
            BY <3>2, <3>5, <4>5 DEF AfterDown
          <5> HIDE DEF known
          <5> QED
            BY <1>2, <3>3, <4>1, <4>2, <4>3, <5>1
        <4> QED
          BY <4>4, <4>5
      <3> QED
        BY <3>4, <3>5
    <2> QED
      BY <2>1, <2>2
  <1> HIDE DEF iap
  <1>3. ReportsInv'
    BY <1>1, <1>2, TakenKeeps DEF iap
  <1> QED
    BY <1>3 DEF ReportInv

---------------------------------------------------------------------------------
(* The socket server reports one *)

LEMMA AppendedReport ==
  ASSUME updown \in Seq(Reports), NEW iap \in Iaps, NEW state \in {"up", "down"},
         updown' = Append(updown, [iap |-> iap, state |-> state]),
         Alternate, LastMatches,
         state = "up" <=> stage[iap] = None,
         state = "up" <=> stage'[iap] # None,
         \A i \in Iaps \ {iap} : stage'[i] = stage[i]
  PROVE  /\ Alternate'
         /\ LastMatches'
         /\ \A n \in DOMAIN updown' :
              FirstFor(n)' =>
                \/ n \in DOMAIN updown /\ FirstFor(n) /\ updown'[n] = updown[n]
                \/ updown'[n] = [iap |-> iap, state |-> state] /\ NoneFor(iap)
         /\ \A i : NoneFor(i)' => NoneFor(i) /\ i # iap
PROOF
  <1> DEFINE N == Len(updown)
             r == [iap |-> iap, state |-> state]
  <1>1. /\ N \in Nat /\ DOMAIN updown = 1..N
        /\ DOMAIN updown' = 1..(N + 1)
        /\ \A n \in 1..N : updown'[n] = updown[n]
        /\ updown'[N + 1] = r
    <2>1. r \in Reports
      BY DEF Reports
    <2>2. /\ Append(updown, r) \in Seq(Reports)
          /\ Len(Append(updown, r)) = N + 1
          /\ \A n \in 1..N : Append(updown, r)[n] = updown[n]
          /\ Append(updown, r)[N + 1] = r
      BY <2>1, AppendProperties
    <2> QED
      BY <2>2
  <1>2. /\ r.iap = iap /\ r.state = state
        /\ \A n \in 1..N : updown[n].iap \in Iaps /\ updown[n].state \in {"up", "down"}
    BY <1>1, ReportTypes
  <1> HIDE DEF N, r
  <1>3. Alternate'
    <2> SUFFICES ASSUME NEW m \in DOMAIN updown', NEW n \in DOMAIN updown', m < n,
                        updown'[m].iap = updown'[n].iap,
                        \A k \in DOMAIN updown' : m < k /\ k < n => updown'[k].iap # updown'[n].iap
                 PROVE  updown'[m].state # updown'[n].state
      BY DEF Alternate
    <2>1. m \in 1..N /\ updown'[m] = updown[m]
      BY <1>1
    <2>2. CASE n \in 1..N
      <3>1. \A k \in 1..N : m < k /\ k < n => updown[k].iap # updown[n].iap
        BY <1>1, <2>2
      <3> QED
        BY <1>1, <2>1, <2>2, <3>1 DEF Alternate
    <2>3. CASE n = N + 1
      <3>1. updown'[n] = r /\ updown[m].iap = iap
        BY <1>1, <1>2, <2>1, <2>3
      <3>2. ASSUME NEW k \in 1..N, k > m
            PROVE  updown[k].iap # updown[m].iap
        <4>1. k \in DOMAIN updown' /\ m < k /\ k < n
          BY <1>1, <2>1, <2>3, <3>2
        <4> QED
          BY <1>1, <2>1, <4>1
      <3>3. LastFor(m)
        BY <1>1, <3>2 DEF LastFor
      <3>4. updown[m].state = "up" <=> stage[iap] # None
        BY <1>1, <2>1, <3>1, <3>3 DEF LastMatches
      <3> QED
        BY <1>2, <2>1, <3>1, <3>4
    <2> QED
      BY <1>1, <2>2, <2>3
  <1>4. LastMatches'
    <2> SUFFICES ASSUME NEW n \in DOMAIN updown',
                        \A k \in DOMAIN updown' : k > n => updown'[k].iap # updown'[n].iap
                 PROVE  updown'[n].state = "up" <=> stage'[updown'[n].iap] # None
      BY DEF LastMatches, LastFor
    <2>1. CASE n = N + 1
      BY <1>1, <1>2, <2>1
    <2>2. CASE n \in 1..N
      <3>1. updown'[n] = updown[n]
        BY <1>1, <2>2
      <3>2. updown[n].iap # iap
        <4>1. N + 1 \in DOMAIN updown' /\ N + 1 > n
          BY <1>1, <2>2
        <4> QED
          BY <1>1, <1>2, <3>1, <4>1
      <3>3. \A k \in 1..N : k > n => updown[k].iap # updown[n].iap
        BY <1>1, <3>1
      <3>4. updown[n].state = "up" <=> stage[updown[n].iap] # None
        BY <1>1, <2>2, <3>3 DEF LastMatches, LastFor
      <3> QED
        BY <1>2, <2>2, <3>1, <3>2, <3>4
    <2> QED
      BY <1>1, <2>1, <2>2
  <1>5. ASSUME NEW n \in DOMAIN updown', FirstFor(n)'
        PROVE  \/ n \in DOMAIN updown /\ FirstFor(n) /\ updown'[n] = updown[n]
               \/ updown'[n] = r /\ NoneFor(iap)
    <2>1. CASE n \in 1..N
      BY <1>1, <1>5, <2>1 DEF FirstFor
    <2>2. CASE n = N + 1
      <3>1. ASSUME NEW k \in 1..N
            PROVE  updown[k].iap # iap
        <4>1. k \in DOMAIN updown' /\ k < n
          BY <1>1, <2>2
        <4> QED
          BY <1>1, <1>2, <1>5, <2>2, <4>1 DEF FirstFor
      <3> QED
        BY <1>1, <2>2, <3>1 DEF NoneFor
    <2> QED
      BY <1>1, <2>1, <2>2
  <1>6. ASSUME NEW i, NoneFor(i)'
        PROVE  NoneFor(i) /\ i # iap
    <2>1. \A n \in 1..(N + 1) : updown'[n].iap # i
      BY <1>1, <1>6 DEF NoneFor
    <2>2. N + 1 \in 1..(N + 1)
      BY <1>1
    <2>3. i # iap
      BY <1>1, <1>2, <2>1, <2>2
    <2> QED
      BY <1>1, <2>1, <2>3 DEF NoneFor
  <1> QED
    BY <1>3, <1>4, <1>5, <1>6 DEF r

LEMMA ReportKeeps ==
  ASSUME TableInv, ReportsInv, NEW iap \in Iaps, NEW state \in {"up", "down"},
         Report(iap, state), UNCHANGED <<watching, iConnInfos, forgotten>>,
         state = "up" <=> stage[iap] = None,
         state = "up" <=> stage'[iap] # None,
         \A i \in Iaps \ {iap} : stage'[i] = stage[i]
  PROVE  ReportsInv'
PROOF
  <1>1. CASE ~watching
    <2>1. updown = <<>> /\ DOMAIN iConnInfos = {} /\ updown' = updown /\ DOMAIN updown' = {}
      BY <1>1 DEF ReportsInv, Unwatched, Report
    <2> QED
      BY <1>1, <2>1
      DEF ReportsInv, Unwatched, Alternate, LastMatches, EndsKnown, ClosedNotified
  <1>2. CASE watching
    <2>1. updown' = Append(updown, [iap |-> iap, state |-> state]) /\ updown \in Seq(Reports)
      BY <1>2 DEF Report, TableInv, TableTypes
    <2>2. /\ Alternate'
          /\ LastMatches'
          /\ \A n \in DOMAIN updown' :
               FirstFor(n)' =>
                 \/ n \in DOMAIN updown /\ FirstFor(n) /\ updown'[n] = updown[n]
                 \/ updown'[n] = [iap |-> iap, state |-> state] /\ NoneFor(iap)
          /\ \A i : NoneFor(i)' => NoneFor(i) /\ i # iap
      BY <2>1, AppendedReport DEF ReportsInv
    <2>3. EndsKnown'
      <3> SUFFICES ASSUME NEW id \in DOMAIN iConnInfos, NEW i \in Iaps, i = iConnInfos[id].iap
                   PROVE  /\ \A n \in DOMAIN updown' :
                               updown'[n].iap = i /\ FirstFor(n)' /\ updown'[n].state = "up"
                                 => Known(id)
                          /\ NoneFor(i)' /\ stage'[i] = None => Known(id)
        <4>1. \A id \in DOMAIN iConnInfos : iConnInfos[id].iap \in Iaps
          BY DEF TableInv, TableTypes, IsTable, Recs, Records
        <4> QED
          BY <4>1 DEF EndsKnown, NoneFor, Known
      <3>1. ASSUME NEW n \in DOMAIN updown', updown'[n].iap = i, FirstFor(n)',
                   updown'[n].state = "up"
            PROVE  Known(id)
        <4>1. CASE n \in DOMAIN updown /\ FirstFor(n) /\ updown'[n] = updown[n]
          BY <3>1, <4>1 DEF ReportsInv, EndsKnown
        <4>2. CASE updown'[n] = [iap |-> iap, state |-> state] /\ NoneFor(iap)
          <5>1. iap = i /\ state = "up"
            BY <3>1, <4>2
          <5> QED
            BY <4>2, <5>1 DEF ReportsInv, EndsKnown
        <4> QED
          BY <2>2, <3>1, <4>1, <4>2
      <3>2. NoneFor(i)' /\ stage'[i] = None => Known(id)
        BY <2>2 DEF ReportsInv, EndsKnown
      <3> QED
        BY <3>1, <3>2
    <2>4. Unwatched' /\ ClosedNotified'
      BY <1>2 DEF ReportsInv, Unwatched, ClosedNotified
    <2> QED
      BY <2>2, <2>3, <2>4 DEF ReportsInv
  <1> QED
    BY <1>1, <1>2

LEMMA NetworkReported ==
  ASSUME TableInv, ReportsInv, Network
  PROVE  ReportsInv'
PROOF
  <1> PICK iap \in Iaps :
        StartInterface(iap) \/ OpenLink(iap) \/ CloseLink(iap) \/ StopInterface(iap)
    BY DEF Network
  <1>1. stage \in [Iaps -> Stages]
    BY DEF TableInv, TableTypes, NetTypes
  <1>2. Starting # None /\ LinkLayerOpen # None /\ LinkLayerClosed # None
    BY DEF Starting, LinkLayerOpen, LinkLayerClosed, None
  <1>3. UNCHANGED <<watching, forgotten>>
    BY DEF StartInterface, OpenLink, CloseLink, StopInterface, UnchangedByNet, ghosts
  <1>4. CASE StartInterface(iap)
    BY <1>1, <1>2, <1>3, <1>4, ReportKeeps DEF StartInterface
  <1>5. CASE StopInterface(iap)
    BY <1>1, <1>2, <1>3, <1>5, ReportKeeps DEF StopInterface
  <1>6. CASE OpenLink(iap)
    <2>1. Holds(iConnInfos, iConnInfos')
      BY <1>6, HeardHolds DEF OpenLink
    <2>2. updown' = updown /\ \A i \in Iaps : stage'[i] = None <=> stage[i] = None
      BY <1>1, <1>2, <1>6 DEF OpenLink
    <2> QED
      BY <1>3, <2>1, <2>2, HoldingKeeps
  <1>7. CASE CloseLink(iap)
    <2>1. Holds(iConnInfos, iConnInfos')
      BY <1>7, HeardHolds DEF CloseLink
    <2>2. updown' = updown /\ \A i \in Iaps : stage'[i] = None <=> stage[i] = None
      BY <1>1, <1>2, <1>7 DEF CloseLink
    <2> QED
      BY <1>3, <2>1, <2>2, HoldingKeeps
  <1> QED
    BY <1>4, <1>5, <1>6, <1>7

---------------------------------------------------------------------------------
(* The clients *)

\* Each interface that exists is reported once.
LEMMA OrderIsOnce ==
  ASSUME NEW iaps, IsFiniteSet(iaps)
  PROVE  LET q == InSomeOrder(iaps)
         IN  /\ \A n \in DOMAIN q : q[n].iap \in iaps /\ q[n].state = "up"
             /\ \A m, n \in DOMAIN q : q[m].iap = q[n].iap => m = n
PROOF
  <1> DEFINE N == Cardinality(iaps)
             R == [iap : iaps, state : {"up"}]
             q == InSomeOrder(iaps)
             f == [n \in 1..N |-> q[n].iap]
  <1>1. N \in Nat /\ ExistsBijection(1..N, iaps)
    BY FS_CardinalityType
  <1>2. PICK g \in [1..N -> iaps] : \A iap \in iaps : \E n \in 1..N : g[n] = iap
    BY <1>1 DEF ExistsBijection, Bijection, Surjection, Injection
  <1> DEFINE p == [n \in 1..N |-> [iap |-> g[n], state |-> "up"]]
  <1>3. p \in [1..N -> R] /\ \A iap \in iaps : \E n \in DOMAIN p : p[n].iap = iap
    BY <1>2
  <1> DEFINE Names(x) == \A iap \in iaps : \E n \in DOMAIN x : x[n].iap = iap
  <1>4. q \in [1..N -> R] /\ \A iap \in iaps : \E n \in DOMAIN q : q[n].iap = iap
    <2>1. q = CHOOSE x \in [1..N -> R] : Names(x)
      BY DEF InSomeOrder
    <2>2. p \in [1..N -> R] /\ Names(p)
      BY <1>3
    <2> HIDE DEF q, N, R, Names, p
    <2>3. q \in [1..N -> R] /\ Names(q)
      BY <2>1, <2>2
    <2> QED
      BY <2>3 DEF Names
  <1> HIDE DEF q
  <1>5. DOMAIN q = 1..N /\ \A n \in 1..N : q[n].iap \in iaps /\ q[n].state = "up"
    BY <1>4
  <1>6. f \in Surjection(1..N, iaps)
    BY <1>4, <1>5 DEF Surjection
  <1>7. IsFiniteSet(1..N) /\ Cardinality(1..N) = N
    BY <1>1, FS_Interval
  <1>8. f \in Injection(1..N, iaps)
    BY <1>6, <1>7, FS_SurjSameCardinalityImpliesInj
  <1>9. ASSUME NEW m \in 1..N, NEW n \in 1..N, q[m].iap = q[n].iap
        PROVE  m = n
    <2>1. f[m] = q[m].iap /\ f[n] = q[n].iap
      OBVIOUS
    <2> HIDE DEF f, N
    <2> QED
      BY <1>8, <1>9, <2>1 DEF Injection, IsInjective
  <1> QED
    BY <1>5, <1>9 DEF q

\* The interface notifier starts with a table that is empty.
LEMMA WatchedKeeps ==
  ASSUME updown' = InSomeOrder(Present), watching', UNCHANGED stage, DOMAIN iConnInfos' = {}
  PROVE  ReportsInv'
PROOF
  <1>1. IsFiniteSet(Present)
    BY IapsAssumption, FS_Subset DEF Present
  <1>2. /\ \A n \in DOMAIN updown' : updown'[n].iap \in Present /\ updown'[n].state = "up"
        /\ \A m, n \in DOMAIN updown' : updown'[m].iap = updown'[n].iap => m = n
    BY <1>1, OrderIsOnce
  <1>3. Alternate'
    <2> SUFFICES ASSUME NEW m \in DOMAIN updown', NEW n \in DOMAIN updown', m < n,
                        updown'[m].iap = updown'[n].iap
                 PROVE  FALSE
      BY DEF Alternate
    <2>1. m = n /\ n < n
      BY <1>2
    <2>2. DOMAIN updown' \subseteq Nat
      <3>1. \A k \in DOMAIN InSomeOrder(Present) : k \in Nat
        BY <1>1, OrderExists
      <3> QED
        BY <3>1
    <2> QED
      BY <2>1, <2>2
  <1>4. LastMatches'
    BY <1>2 DEF LastMatches, Present
  <1> QED
    BY <1>3, <1>4 DEF ReportsInv, Unwatched, EndsKnown, ClosedNotified

LEMMA WatchKeeps ==
  ASSUME TableInv, ReportsInv, Watch, Holds(iConnInfos, iConnInfos'),
         forgotten \subseteq forgotten', UNCHANGED stage
  PROVE  ReportsInv'
PROOF
  <1>1. CASE watching
    <2>1. UNCHANGED <<updown, watching>>
      BY <1>1 DEF Watch, ReportsInv, Unwatched
    <2> QED
      BY <2>1, HoldingKeeps
  <1>2. CASE ~watching
    <2>1. DOMAIN iConnInfos' = {}
      BY <1>2 DEF ReportsInv, Unwatched, Holds
    <2>2. updown' = InSomeOrder(Present) /\ watching'
      BY <1>2 DEF Watch
    <2> QED
      BY <2>1, <2>2, WatchedKeeps
  <1> QED
    BY <1>1, <1>2

LEMMA ClientSteps ==
  ASSUME TableInv, ReportsInv, NEW s \in Sessions,
         Listen(s) \/ CancelListen(s) \/ Enumerate(s)
  PROVE  ReportsInv'
PROOF
  <1>1. IsTable(iConnInfos)
    BY DEF TableInv, TableTypes
  <1>2. CASE Listen(s)
    <2>1. Holds(iConnInfos, iConnInfos')
      BY <1>1, <1>2, NotifiersHold DEF Listen
    <2> QED
      BY <1>2, <2>1, WatchKeeps DEF Listen, netVars
  <1>3. CASE Enumerate(s)
    <2> DEFINE kept == Without(iConnInfos, Obsolete(iConnInfos))
    <2>1. Holds(iConnInfos, kept) /\ IsTable(kept)
      <3>1. Holds(iConnInfos, kept)
        BY WithoutHolds
      <3>2. IsTable(kept)
        <4>1. Obsolete(iConnInfos) \in SUBSET DOMAIN iConnInfos
          BY DEF Obsolete
        <4> HIDE DEF kept
        <4> QED
          BY <1>1, <4>1, WithoutDevelops DEF Develops, kept
      <3> QED
        BY <3>1, <3>2
    <2>2. iConnInfos' \in {kept, AllWithNotifiers(kept)}
      BY <1>3 DEF Enumerate, Cleaned
    <2> HIDE DEF kept
    <2>3. Holds(iConnInfos, iConnInfos')
      BY <2>1, <2>2, NotifiersHold, HoldsOn
    <2>4. forgotten \subseteq forgotten' /\ UNCHANGED stage /\ Watch
      BY <1>3 DEF Enumerate, netVars
    <2> QED
      BY <2>3, <2>4, WatchKeeps
  <1>4. CASE CancelListen(s)
    <2>1. UNCHANGED <<stage, updown, watching>> /\ forgotten \subseteq forgotten'
      BY <1>4 DEF CancelListen, netVars
    <2>2. CASE listening' # {}
      <3>1. Holds(iConnInfos, iConnInfos')
        BY <1>4, <2>2 DEF CancelListen, AfterCancel, Holds
      <3> QED
        BY <2>1, <3>1, HoldingKeeps
    <2>3. CASE listening' = {}
      <3>1. /\ DOMAIN iConnInfos' = DOMAIN iConnInfos
            /\ \A id \in DOMAIN iConnInfos' :
                 iConnInfos'[id] = WithoutNotifiers(iConnInfos[id])
            /\ forgotten' = forgotten \cup {id \in DOMAIN iConnInfos : Seen(iConnInfos[id])}
        BY <1>4, <2>3 DEF CancelListen, AfterCancel
      <3>2. ASSUME NEW id \in DOMAIN iConnInfos
            PROVE  /\ iConnInfos'[id].iap = iConnInfos[id].iap
                   /\ ~iConnInfos'[id].interfaceClosed
                   /\ Known(id) => Known(id)'
        <4>1. iConnInfos[id] \in Recs /\ iConnInfos'[id] = WithoutNotifiers(iConnInfos[id])
          BY <1>1, <3>1 DEF IsTable
        <4>2. iConnInfos'[id].iap = iConnInfos[id].iap /\ ~iConnInfos'[id].interfaceClosed
          BY <4>1 DEF WithoutNotifiers, Recs, Records
        <4> QED
          BY <3>1, <4>2 DEF Known, Seen
      <3>3. EndsKnown'
        BY <2>1, <3>1, <3>2 DEF ReportsInv, EndsKnown, FirstFor, NoneFor
      <3>4. ClosedNotified'
        BY <3>1, <3>2 DEF ClosedNotified
      <3> QED
        BY <2>1, <3>1, <3>3, <3>4
        DEF ReportsInv, Unwatched, Alternate, LastMatches, LastFor
    <2> QED
      BY <2>2, <2>3
  <1> QED
    BY <1>2, <1>3, <1>4

---------------------------------------------------------------------------------
(* The theorems *)

LEMMA InitReported == Init => ReportInv
PROOF
  <1> SUFFICES ASSUME Init PROVE ReportsInv
    BY DEF ReportInv
  <1>1. DOMAIN updown = {} /\ DOMAIN iConnInfos = {} /\ updown = <<>>
    BY DEF Init, ConnInit
  <1> QED
    BY <1>1
    DEF ReportsInv, Unwatched, Alternate, LastMatches, EndsKnown, ClosedNotified

LEMMA NextReported == TableInv /\ ReportInv /\ [Next]_allVars => ReportInv'
PROOF
  <1> SUFFICES ASSUME TableInv, ReportInv, [Next]_allVars PROVE ReportInv'
    OBVIOUS
  <1>1. CASE UNCHANGED connVars
    BY <1>1
    DEF connVars, netVars, ghosts, ReportInv, ReportsInv, Unwatched, Alternate, LastMatches,
        LastFor, EndsKnown, FirstFor, NoneFor, Known, ClosedNotified
  <1>2. CASE ConnNext
    <2>1. CASE Network
      <3>1. crashed' = crashed
        BY <2>1
        DEF Network, StartInterface, OpenLink, CloseLink, StopInterface, UnchangedByNet
      <3> QED
        BY <2>1, <3>1, NetworkReported DEF ReportInv
    <2>2. CASE InterfaceUp
      BY <2>2, UpReported
    <2>3. CASE InterfaceDown
      BY <2>3, DownReported
    <2>4. ASSUME NEW id \in DOMAIN iConnInfos,
                 Progress(id) \/ ProgressFails(id) \/ SubConnectionClosed(id)
                   \/ SubConnectionNotReady(id)
          PROVE  ReportInv'
      <3>1. ~crashed
        BY <2>4 DEF Progress, ProgressFails, SubConnectionClosed, SubConnectionNotReady
      <3> QED
        BY <2>4, <3>1, NotifierSteps DEF ReportInv
    <2>5. ASSUME NEW s \in Sessions, Listen(s) \/ CancelListen(s) \/ Enumerate(s)
          PROVE  ReportInv'
      <3>1. ~crashed
        BY <2>5 DEF Listen, CancelListen, Enumerate
      <3> QED
        BY <2>5, <3>1, ClientSteps DEF ReportInv
    <2> QED
      BY <1>2, <2>1, <2>2, <2>3, <2>4, <2>5 DEF ConnNext, Clients
  <1> QED
    BY <1>1, <1>2, TableSteps DEF allVars

LEMMA ReportsAlways == Spec => []ReportInv
PROOF
  BY InitReported, NextReported, TableAlways, PTL DEF Spec

\* No handler uses a notifier that is gone, unless the last listener left a
\* record half closed behind (CompleteConnectionClosing).
THEOREM TheServerSurvives == Spec => []ServerSurvives
PROOF
  <1>1. TableInv /\ ReportInv => ServerSurvives
    <2> SUFFICES ASSUME TableInv, ReportInv, NEW iap \in Iaps, ~crashed, updown # <<>>,
                        Head(updown) = [iap |-> iap, state |-> "up"], ClosingCrashes(iap)
                 PROVE  OfIap(iConnInfos, iap) \subseteq forgotten
      BY DEF ServerSurvives
    <2>1. PICK id \in OfIap(iConnInfos, iap) : iConnInfos[id].progress = "none"
      BY DEF ClosingCrashes, Closing
    <2>2. id \in DOMAIN iConnInfos /\ iConnInfos[id].iap = iap /\ OfIap(iConnInfos, iap) = {id}
      BY <2>1 DEF OfIap, TableInv, OneRecordPerIap
    <2>3. ~iConnInfos[id].interfaceClosed
      BY <2>1, <2>2 DEF ReportInv, ReportsInv, ClosedNotified
    <2>4. 1 \in DOMAIN updown /\ updown[1] = Head(updown) /\ FirstFor(1)
      <3>1. /\ Len(updown) \in Nat /\ DOMAIN updown = 1..Len(updown) /\ Len(updown) # 0
            /\ Head(updown) = updown[1]
        BY EmptySeq DEF TableInv, TableTypes
      <3> QED
        BY <3>1 DEF FirstFor
    <2>5. Known(id)
      BY <2>2, <2>4 DEF ReportInv, ReportsInv, EndsKnown
    <2> QED
      BY <2>2, <2>3, <2>5 DEF Known
  <1> QED
    BY <1>1, TableAlways, ReportsAlways, PTL

\* The table, the requests and the operations fit together in every state of the
\* server (CConnMonIAP, CConnMonSess).
THEOREM ConsistentAlways == Spec => []Consistent
PROOF
  <1>1. TypeOK /\ DeletedOnce /\ ServerSurvives /\ PendingHasOperation => Consistent
    BY DEF Consistent
  <1> QED
    BY <1>1, TypesHold, DeletionsAreToldOnce, TheServerSurvives, RequestsHaveOperations, PTL

================================================================================
