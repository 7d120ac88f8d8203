-------------------------- MODULE PdpContextProofs --------------------------
(***************************************************************************)
(* Proofs about the PDP context manager (PdpContext): no state waits for   *)
(* nothing, the states that leave the context to others hold no timer and  *)
(* no request, no timer and no request is started twice, and the parts of  *)
(* a retry never overrun its interval.                                     *)
(***************************************************************************)
EXTENDS PdpContext, FiniteSetTheorems, TLAPS

-----------------------------------------------------------------------------
(* The inductive invariant *)

Idle == {"Init", "ResetFactorySettings", "ExternalConnection"}
Trying == {"Connecting", "Connected", "Disconnected", "Waiting", "Unconnected"}
Quiet == timers = {} /\ req = "none"
AlwaysOn == (reg = "home" /\ cfg.home) \/ (reg = "roaming" /\ cfg.roaming)

\* Only a link that is being opened goes on or fails.
RequestFits == req \in {"progress", "open"} \cup FailureReasons => conn = "EOpeningLink"

\* HasNextStep, and that a connected request is of a link that is up.  A modem
\* call that began in Init leaves the rules in force: others handlers go on.
StateAble ==
  fatal = "none" /\ nested # "other" =>
    /\ state = "Connecting" => "connection" \in timers
    /\ state = "Waiting" => "retry" \in timers
    /\ state = "Disconnected" => reactivation
    /\ state = "Connected" => conn = "EListeningAccessPoint" /\ req \in {"waiting", "closed"}

\* Whatever the environment does, these states hold nothing.
IdleQuiet == state \in Idle => Quiet

\* Every part of a retry is as long as the timer runs, but for the last one.
RetryCut ==
  "retry" \in timers =>
    /\ segment.interval > 0
    /\ segment.count * MaxTimer + segment.interval <= cfg.retry
    /\ segment.interval = MaxTimer \/ segment.count * MaxTimer + segment.interval = cfg.retry

\* What a scenario does not have does not happen.
Dormant ==
  /\ "reset" \notin scenario => tool = "idle" /\ prop = "StartReply" /\ sub = "waiting"
  /\ "usage" \notin scenario => ~usageNote
EventsOwn == \A i \in 1..Len(events): events[i].id = "own"
OnlyOwn ==
  "others" \notin scenario =>
    /\ others = {} /\ bearer \in {None, "own"} /\ EventsOwn
    /\ state # "ExternalConnection"

\* While a handler waits for the modem, and no other can run, nothing runs.
NestedQuiet ==
  InOrder /\ nested # "none" =>
    /\ Quiet /\ state \notin {"ResetFactorySettings", "ExternalConnection"}
    /\ nested = "Init" => state = "Init"

\* From the answer to the reset tool until it has stopped, the machine rests.
ResetHolds ==
  InOrder =>
    /\ tool = "resetting" => prop = "StartReply"
    /\ (\/ tool = "resetting"
        \/ tool = "asked" /\ prop = "StartReply"
        \/ sub = "completed" /\ prop = "Stop") => state = "ResetFactorySettings"

\* Where the asserts hold, a state that will start the context has no request.
Prem == InOrder /\ "telephony" \notin scenario /\ PollsInOrder
Serial ==
  Prem =>
    /\ fatal = "none"
    /\ state \in {"Waiting", "Unconnected", "Disconnected"} => req = "none"
    /\ "unconnect" \in timers => cfg.poll

\* Where only the link, the usage and the settings change, the machine is in its
\* round only while the settings keep the context on, and no link outlives the
\* connection.
Undisturbed == scenario \subseteq {"usage", "link", "settings"}
KeepsOn ==
  /\ reg \in {"none", network}
  /\ state \in Trying /\ nested = "none" => AlwaysOn
OwnsLink == Interface => Stops
Private == Undisturbed => KeepsOn /\ OwnsLink

PdpInv ==
  /\ TypeOK /\ RequestFits /\ StateAble /\ IdleQuiet /\ RetryCut /\ Dormant /\ OnlyOwn
  /\ NestedQuiet /\ ResetHolds /\ RestsQuietly /\ Serial /\ Private

-----------------------------------------------------------------------------
(* Types *)

MachineOK ==
  /\ state \in States /\ flags \in SUBSET {"NWRegistration", "Settings"}
  /\ attempts \in 0..(MaxAttempts - 1)
  /\ reactivation \in BOOLEAN /\ skip \in BOOLEAN
  /\ nested \in {"none", "Init", "other"}
ResOK ==
  /\ timers \in SUBSET Timers /\ segment \in [interval: 0..MaxTimer, count: Nat]
  /\ conn \in InternalStates
  /\ req \in {"none", "waiting", "progress", "open", "closed"} \cup FailureReasons
  /\ own \in {"none", "opening", "up", "closing"} /\ fatal \in {"none", "timer", "active"}
SettingsOK ==
  /\ reg' \in {"home", "roaming", "none"} /\ cfg' \in Configs

LEMMA EnableType ==
  ASSUME TypeOK, SettingsOK, Enable \/ CancelAllEnable
  PROVE  ResOK' /\ state' \in States
  BY DEF TypeOK, SettingsOK, Enable, CancelAllEnable, ResOK, Activate,
         ActivateConnection, CancelAllActivate, CancelAll, CancelAllThen, StopInterface,
         Same, res, States, Timers, InternalStates, FailureReasons

LEMMA SmallerType ==
  ASSUME SettingsOK, NEW d \in Nat
  PROVE  cfg'.retry \in Nat /\ Smaller(d, MaxTimer) \in 0..MaxTimer
  BY ConstantsAssumption DEF SettingsOK, Settings, Smaller

LEMMA SwitchType ==
  ASSUME TypeOK, SettingsOK, NEW on \in SUBSET Timers, NEW r, SwitchFailed(r, on)
  PROVE  timers' \in SUBSET Timers /\ segment' \in [interval: 0..MaxTimer, count: Nat] /\ fatal' \in {"none", "timer", "active"} /\ state' \in States
<1> DEFINE part == Smaller(cfg'.retry, MaxTimer)
<1>1. part \in 0..MaxTimer
  BY SmallerType
<1>2. segment' \in {segment, [interval |-> part, count |-> 0]}
  BY DEF SwitchFailed, SwitchToUnconnected, StartRetryTimer, StartUnconnectTimer
<1>3. segment' \in [interval: 0..MaxTimer, count: Nat]
  <2> HIDE DEF part
  <2> QED BY <1>1, <1>2 DEF TypeOK
<1>4. timers' \in {on, on \cup {"retry"}, on \cup {"unconnect"}} /\ fatal' \in {fatal, "timer"} /\ state' \in {"Waiting", "Unconnected"}
  BY DEF SwitchFailed, SwitchToUnconnected, StartRetryTimer, StartUnconnectTimer
<1> QED BY <1>3, <1>4 DEF TypeOK, Timers, States

LEMMA NetworkType ==
  ASSUME TypeOK, SettingsOK, HandleNetworkChanged
  PROVE  ResOK' /\ MachineOK'
<1>0. ResOK /\ MachineOK
  BY DEF TypeOK, ResOK, MachineOK
<1>1. UNCHANGED <<attempts, reactivation, skip, nested>> /\ flags' \in SUBSET {"NWRegistration", "Settings"}
  BY DEF HandleNetworkChanged, TypeOK
<1>2. CASE Enable \/ CancelAllEnable
  BY <1>0, <1>1, <1>2, EnableType DEF MachineOK
<1>3. CASE UNCHANGED state /\ Same
  BY <1>0, <1>1, <1>3 DEF ResOK, MachineOK, Same, res
<1>4. CASE state' = "Disabled" /\ DetachConnection
  BY <1>0, <1>1, <1>4 DEF ResOK, MachineOK, DetachConnection, States, InternalStates
<1> QED BY <1>2, <1>3, <1>4 DEF HandleNetworkChanged

LEMMA CancelType ==
  ASSUME TypeOK, NEW ts \in SUBSET Timers, CancelAllThen(ts)
  PROVE  ResOK'
  BY DEF TypeOK, ResOK, CancelAllThen, StopInterface, InternalStates

LEMMA ActivateType ==
  ASSUME TypeOK, NEW on \in SUBSET Timers, Activate(on) \/ CancelAllActivate
  PROVE  ResOK'
  BY DEF TypeOK, ResOK, Activate, CancelAllActivate, ActivateConnection, StopInterface,
         InternalStates, Timers, FailureReasons

LEMMA SettingsReceivedType ==
  ASSUME TypeOK, SettingsOK, HandleSettingsReceived
  PROVE  ResOK' /\ MachineOK'
<1>0. ResOK /\ MachineOK
  BY DEF TypeOK, ResOK, MachineOK
<1>1. /\ UNCHANGED <<attempts, reactivation, skip>> /\ flags' \in SUBSET {"NWRegistration", "Settings"}
      /\ nested' \in {"none", "Init", "other"}
  BY DEF HandleSettingsReceived, TypeOK
<1>2. CASE Enable \/ CancelAllEnable
  BY <1>0, <1>1, <1>2, EnableType DEF MachineOK
<1>3. CASE UNCHANGED state /\ Same
  BY <1>0, <1>1, <1>3 DEF ResOK, MachineOK, Same, res
<1>4. CASE UNCHANGED state /\ CancelAll
  BY <1>0, <1>1, <1>4, CancelType DEF MachineOK, CancelAll
<1> QED BY <1>2, <1>3, <1>4 DEF HandleSettingsReceived

LEMMA ConnectionDeletedType ==
  ASSUME TypeOK, HandleConnectionDeleted
  PROVE  ResOK' /\ MachineOK'
<1>0. ResOK /\ MachineOK /\ timers \in SUBSET Timers
  BY DEF TypeOK, ResOK, MachineOK
<1>1. /\ UNCHANGED <<flags, attempts, nested>> /\ skip' \in BOOLEAN
      /\ reactivation' \in BOOLEAN /\ state' \in States
  BY DEF HandleConnectionDeleted, TypeOK, States
<1>2. ResOK'
  BY <1>0, CancelType, ActivateType
  DEF HandleConnectionDeleted, ResOK, Same, res, CancelAll
<1> QED BY <1>0, <1>1, <1>2 DEF MachineOK

LEMMA ExternalType ==
  ASSUME TypeOK, HandleExternalConnectionCreated
  PROVE  ResOK' /\ MachineOK'
<1>0. ResOK /\ MachineOK /\ timers \in SUBSET Timers
  BY DEF TypeOK, ResOK, MachineOK
<1>2. ResOK'
  BY <1>0, CancelType DEF HandleExternalConnectionCreated, ResOK, Same, res, CancelAll
<1> QED BY <1>0, <1>2 DEF MachineOK, HandleExternalConnectionCreated, States

LEMMA ResetType ==
  ASSUME TypeOK, NEW start \in BOOLEAN, HandleResetFactorySettings(start)
  PROVE  ResOK' /\ MachineOK' /\ prop' \in {prop, "StartReply"}
<1>0. ResOK /\ MachineOK /\ timers \in SUBSET Timers
  BY DEF TypeOK, ResOK, MachineOK
<1>2. ResOK'
  BY <1>0, CancelType, ActivateType
  DEF HandleResetFactorySettings, ResOK, Same, res, CancelAll
<1> QED BY <1>0, <1>2 DEF MachineOK, HandleResetFactorySettings, States

LEMMA UnconnectType ==
  ASSUME TypeOK, HandleUnconnectTimerExpired
  PROVE  ResOK' /\ MachineOK'
<1>0. ResOK /\ MachineOK /\ timers \ {"unconnect"} \in SUBSET Timers
  BY DEF TypeOK, ResOK, MachineOK
<1>2. ResOK'
  BY <1>0, ActivateType
  DEF HandleUnconnectTimerExpired, ResOK, StartUnconnectTimer, Timers
<1> QED BY <1>0, <1>2 DEF MachineOK, HandleUnconnectTimerExpired, States

LEMMA FailedType ==
  ASSUME TypeOK, UNCHANGED <<reg, cfg>>, NEW r, HandlePDPContextActivationFailed(r)
  PROVE  ResOK' /\ MachineOK'
<1>0. ResOK /\ MachineOK /\ SettingsOK
  BY DEF TypeOK, ResOK, MachineOK, SettingsOK
<1>1. timers \ {"connection"} \in SUBSET Timers
  BY DEF TypeOK
<1>2. CASE state = "Connecting"
  BY <1>0, <1>1, <1>2, SwitchType
  DEF HandlePDPContextActivationFailed, ResOK, MachineOK, InternalStates
<1>3. CASE state # "Connecting"
  BY <1>0, <1>3 DEF HandlePDPContextActivationFailed, ResOK, MachineOK, InternalStates
<1> QED BY <1>2, <1>3

LEMMA ActivatedType ==
  ASSUME TypeOK, HandlePDPContextActivated
  PROVE  ResOK' /\ MachineOK'
  BY DEF TypeOK, HandlePDPContextActivated, ResOK, MachineOK, States, InternalStates

LEMMA DisconnectedType ==
  ASSUME TypeOK, HandlePDPContextDisconnected
  PROVE  MachineOK'
  BY DEF TypeOK, HandlePDPContextDisconnected, MachineOK, States

LEMMA LingerType ==
  ASSUME TypeOK, SettingsOK
  PROVE  /\ StopLinger => linger' \in {None} \cup Linger
         /\ \A l \in Linger: StartedLinger(l) \in Linger /\ LingerSettingsChanged(l) \in Linger
         /\ LingerSettings => linger' \in {None} \cup Linger
<1>1. cfg'.linger \in {"off", "on", "forever"}
  BY ConstantsAssumption DEF SettingsOK, Settings
<1>2. StopLinger => linger' \in {None} \cup Linger
  BY DEF StopLinger, TypeOK, Linger
<1>3. \A l \in Linger: StartedLinger(l) \in Linger
  BY <1>1 DEF StartedLinger, Linger
<1>4. \A l \in Linger: LingerSettingsChanged(l) \in Linger
  BY <1>1, <1>3 DEF LingerSettingsChanged, Linger
<1> QED BY <1>2, <1>3, <1>4 DEF LingerSettings, TypeOK

WorldOK ==
  /\ scenario \in Scenarios /\ setup \in BOOLEAN /\ linger \in {None} \cup Linger
  /\ my \in {None} \cup Ids /\ alive \in BOOLEAN /\ bearer \in {None} \cup Ids
  /\ others \in SUBSET Others /\ events \in Seq(Event)
  /\ reg \in {"home", "roaming", "none"} /\ network \in Networks /\ fetch \in BOOLEAN
  /\ cfg \in Configs /\ usage \in Usages /\ usageNote \in BOOLEAN
  /\ sub \in {"waiting", "completed", "handled"}
  /\ prop \in {"Start", "StartReply", "Stop"} /\ tool \in {"idle", "asked", "resetting"}

LEMMA TypeParts == TypeOK <=> ResOK /\ MachineOK /\ WorldOK
  BY DEF TypeOK, ResOK, MachineOK, WorldOK

LEMMA TypePartsNext == TypeOK' <=> ResOK' /\ MachineOK' /\ WorldOK'
  BY DEF TypeOK, ResOK, MachineOK, WorldOK

LEMMA EventsType ==
  ASSUME TypeOK
  PROVE  /\ events # <<>> => events[1] \in Event /\ Tail(events) \in Seq(Event)
         /\ \A id \in Ids: Created(id) \in Event /\ Deleted(id) \in Event
         /\ \A e \in Event: Append(events, e) \in Seq(Event)
         /\ \A e, f \in Event: events \o <<e, f>> \in Seq(Event)
         /\ Opened \in Event /\ "own" \in Ids /\ Others \subseteq Ids
<1>1. events \in Seq(Event)
  BY DEF TypeOK
<1>2. events # <<>> => events[1] \in Event /\ Tail(events) \in Seq(Event)
  BY <1>1
<1>3. \A e, f \in Event: Append(events, e) \in Seq(Event) /\ <<e, f>> \in Seq(Event)
  BY <1>1
<1>4. \A e, f \in Event: events \o <<e, f>> \in Seq(Event)
  BY <1>1, <1>3
<1>5. \A id \in Ids: Created(id) \in Event /\ Deleted(id) \in Event
  BY DEF Event, Created, Deleted
<1>6. Opened \in Event /\ "own" \in Ids /\ Others \subseteq Ids
  BY DEF Event, Opened, Ids
<1> QED BY <1>2, <1>3, <1>4, <1>5, <1>6

LEMMA MaxTimerTimes ==
  \A n \in Nat: n * MaxTimer \in Nat /\ (n + 1) * MaxTimer = n * MaxTimer + MaxTimer
  BY ConstantsAssumption

LEMMA TypeStep ==
  ASSUME TypeOK, RetryCut, Next
  PROVE  TypeOK'
<1>0. ResOK /\ MachineOK /\ WorldOK
  BY TypeParts
<1> SUFFICES ResOK' /\ MachineOK' /\ WorldOK'
  BY TypePartsNext
<1>1. CASE HandleSetup
  <2>1. SettingsOK
    BY <1>1 DEF HandleSetup, TypeOK, SettingsOK
  <2> QED BY <1>0, <1>1, <2>1, SettingsReceivedType, LingerType, ZenonT(60)
  DEF HandleSetup, WorldOK, monitor, world, reset
<1>2. CASE HandleSettingsChanged
  <2>1. SettingsOK
    BY <1>2 DEF HandleSettingsChanged, TypeOK, SettingsOK, phone
  <2> QED BY <1>0, <1>2, <2>1, SettingsReceivedType, LingerType
  DEF HandleSettingsChanged, WorldOK, monitor, world, reset, phone, started
<1>3. CASE ModemAnswers
  <2>1. SettingsOK
    BY <1>3 DEF ModemAnswers, TypeOK, SettingsOK, phone, settings
  <2>2. ResOK' /\ state' \in States
    BY <1>0, <1>3, <2>1, EnableType DEF ModemAnswers, Same, res, ResOK, MachineOK
  <2>3. flags' \in SUBSET {"NWRegistration", "Settings"}
    BY <1>3 DEF ModemAnswers, TypeOK
  <2> QED BY <1>0, <1>3, <2>1, <2>2, <2>3, LingerType
  DEF ModemAnswers, MachineOK, WorldOK, monitor, world, reset, phone, started, settings
<1>4. CASE HandleNWRegistrationStatusChanged
  <2>1. SettingsOK
    BY <1>4, ConstantsAssumption
    DEF HandleNWRegistrationStatusChanged, TypeOK, SettingsOK, settings
  <2>2. linger' \in {None} \cup Linger
    BY <1>4, <2>1, LingerType DEF HandleNWRegistrationStatusChanged, TypeOK
  <2> QED BY <1>0, <1>4, <2>1, <2>2, NetworkType, ConstantsAssumption
  DEF HandleNWRegistrationStatusChanged, WorldOK, monitor, world, reset, started,
      settings, SettingsOK
<1>5. CASE HandleError
  <2>1. MachineOK' /\ ResOK'
    BY <1>0, <1>5, DisconnectedType DEF HandleError, Same, res, ResOK
  <2>2. fetch' \in BOOLEAN
    BY <1>0, <1>5 DEF HandleError, WorldOK
  <2> QED BY <1>0, <1>5, <2>1, <2>2
  DEF HandleError, WorldOK, monitor, world, reset, started, settings
<1>6. CASE ConnectionRuns
  <2>1. WorldOK' /\ UNCHANGED <<reg, cfg>>
    BY <1>0, <1>6
    DEF ConnectionRuns, WorldOK, monitor, world, reset, started, settings, phone
  <2>2. CASE HandleOpeningLink
    BY <1>0, <2>1, <2>2, ActivatedType, FailedType
    DEF HandleOpeningLink, ResOK, MachineOK, machine
  <2>3. CASE HandleListeningAccessPoint
    BY <1>0, <2>1, <2>3, DisconnectedType
    DEF HandleListeningAccessPoint, ResOK, InternalStates
  <2> QED BY <1>6, <2>1, <2>2, <2>3 DEF ConnectionRuns
<1>7. CASE HandleReactivation
  <2>1. WorldOK' /\ timers \in SUBSET Timers
    BY <1>0, <1>7
    DEF HandleReactivation, WorldOK, ResOK, monitor, world, reset, started, settings,
        phone
  <2> QED BY <1>0, <1>7, <2>1, ActivateType
  DEF HandleReactivation, ResOK, MachineOK, Same, res, States
<1>8. CASE HandleRetryTimer
  <2>1. WorldOK' /\ timers \ {"retry"} \in SUBSET Timers /\ UNCHANGED cfg
    BY <1>0, <1>8
    DEF HandleRetryTimer, WorldOK, ResOK, monitor, world, reset, started, settings,
        phone
  <2> DEFINE ran == segment.interval + segment.count * MaxTimer
             part == Smaller(cfg.retry - ran, MaxTimer)
             full == segment.count * MaxTimer
  <2>4. full \in Nat /\ segment.interval \in Nat
    BY <1>0, MaxTimerTimes DEF ResOK
  <2>2. CASE cfg.retry # ran
    <3>1. ran \in Nat /\ cfg.retry \in Nat /\ MaxTimer \in Nat
      BY <1>0, MaxTimerTimes, ConstantsAssumption DEF ResOK, WorldOK, Settings
    <3>2. ran <= cfg.retry
      <4>1. full + segment.interval <= cfg.retry
        BY <1>8 DEF HandleRetryTimer, RetryCut
      <4> HIDE DEF full
      <4>2. ran = segment.interval + full
        BY DEF full
      <4> QED BY <2>4, <3>1, <4>1, <4>2
    <3>3. part \in 0..MaxTimer
      BY <3>1, <3>2 DEF Smaller
    <3>4. segment' = [interval |-> part, count |-> segment.count + 1]
      BY <1>8, <2>2 DEF HandleRetryTimer
    <3>5. segment' \in [interval: 0..MaxTimer, count: Nat]
      <4> HIDE DEF part
      <4> QED BY <1>0, <3>3, <3>4 DEF ResOK
    <3> QED BY <1>0, <1>8, <2>1, <2>2, <3>5
    DEF HandleRetryTimer, ResOK, MachineOK, machine
  <2>3. CASE cfg.retry = ran
    BY <1>0, <1>8, <2>1, <2>3, ActivateType, ZenonT(60)
    DEF HandleRetryTimer, StopTimer, ResOK, MachineOK, States
  <2> QED BY <2>2, <2>3
<1>9. CASE HandleConnectionTimer
  <2>1. WorldOK' /\ SettingsOK
    BY <1>0, <1>9
    DEF HandleConnectionTimer, WorldOK, SettingsOK, monitor, world, reset, started,
        settings, phone
  <2>2. CASE state # "Connecting"
    BY <1>0, <1>9, <2>1, <2>2 DEF HandleConnectionTimer, StopTimer, ResOK, MachineOK
  <2>3. CASE state = "Connecting" /\ attempts + 1 < MaxAttempts
    <3>1. attempts' \in 0..(MaxAttempts - 1)
      BY <1>0, <1>9, <2>3, ConstantsAssumption DEF HandleConnectionTimer, MachineOK
    <3>2. ResOK'
      BY <1>9, <2>3, CancelType, ConstantsAssumption DEF HandleConnectionTimer, Timers
    <3> QED BY <1>0, <1>9, <2>1, <2>3, <3>1, <3>2 DEF HandleConnectionTimer, MachineOK
  <2>4. CASE state = "Connecting" /\ attempts + 1 = MaxAttempts /\ SwitchFailed("ETemporary", {})
    <3>1. attempts' \in 0..(MaxAttempts - 1)
      BY <1>9, <2>4, ConstantsAssumption DEF HandleConnectionTimer
    <3>2. ResOK' /\ state' \in States
      <4>1. {} \in SUBSET Timers
        OBVIOUS
      <4>2. /\ timers' \in SUBSET Timers /\ segment' \in [interval: 0..MaxTimer, count: Nat]
            /\ fatal' \in {"none", "timer", "active"} /\ state' \in States
        BY <2>1, <2>4, <4>1, SwitchType
      <4>3. req' = "none" /\ conn' \in {conn, "EDisconnected"} /\ own' \in {own, "closing"}
        BY <1>0, <1>9, <2>4, ConstantsAssumption
        DEF HandleConnectionTimer, StopInterface, MachineOK
      <4> QED BY <1>0, <4>2, <4>3 DEF ResOK, InternalStates
    <3> QED BY <1>0, <1>9, <2>1, <2>4, <3>1, <3>2 DEF HandleConnectionTimer, MachineOK
  <2> QED BY <1>9, <2>2, <2>3, <2>4 DEF HandleConnectionTimer
<1>10. CASE HandleUnconnectTimer
  BY <1>0, <1>10, UnconnectType
  DEF HandleUnconnectTimer, WorldOK, monitor, world, reset, started, settings, phone
<1>11. CASE HandleUsageChanged
  <2>1. ResOK' /\ MachineOK'
    BY <1>0, <1>11, UnconnectType
    DEF HandleUsageChanged, Stays, Same, res, machine, ResOK, MachineOK
  <2> QED BY <1>0, <1>11, <2>1, ZenonT(60)
  DEF HandleUsageChanged, NotifiedOfUsage, WorldOK, monitor, world, reset, started,
      phone
<1>12. CASE LingerTimer
  BY <1>0, <1>12
  DEF LingerTimer, Linger, WorldOK, monitor, world, reset, started, phone, settings,
      machine, ResOK, MachineOK
<1>13. CASE EventCreate
  <2>1. events # <<>> /\ events[1].id \in Ids /\ events' \in Seq(Event)
    BY <1>13, EventsType DEF EventCreate, Take, Event
  <2> QED BY <1>0, <1>13, <2>1
  DEF EventCreate, Take, WorldOK, monitor, world, reset, started, phone, settings,
      machine, res, ResOK, MachineOK
<1>14. CASE EventOpen
  <2>1. events # <<>> /\ events' \in Seq(Event)
    BY <1>14, EventsType DEF EventOpen, Take, Event
  <2>2. SettingsOK /\ [status |-> "stopped", interval |-> "off"] \in Linger
    BY <1>0, <1>14 DEF EventOpen, WorldOK, SettingsOK, phone, settings, Linger
  <2>3. linger' \in {None} \cup Linger
    BY <1>0, <1>14, <2>2, LingerType DEF EventOpen, WorldOK
  <2> QED BY <1>0, <1>14, <2>1, <2>3
  DEF EventOpen, Take, WorldOK, monitor, reset, started, phone, settings, machine, res,
      ResOK, MachineOK
<1>15. CASE EventDelete
  <2>1. events # <<>> /\ events' \in Seq(Event)
    BY <1>15, EventsType DEF EventDelete, Take, Event
  <2>2. ResOK' /\ MachineOK'
    BY <1>0, <1>15, ConnectionDeletedType
    DEF EventDelete, Stays, Same, res, machine, ResOK, MachineOK
  <2> QED BY <1>0, <1>15, <2>1, <2>2, ZenonT(60)
  DEF EventDelete, Take, WorldOK, reset, started, phone, settings
<1>16. CASE BearerKnown
  <2>2. ResOK' /\ MachineOK'
    BY <1>0, <1>16, ExternalType
    DEF BearerKnown, Stays, Same, res, machine, ResOK, MachineOK
  <2>3. alive' \in BOOLEAN /\ bearer' = None
    BY <1>0, <1>16 DEF BearerKnown, WorldOK
  <2> QED BY <1>0, <1>16, <2>2, <2>3
  DEF BearerKnown, WorldOK, world, reset, started, phone, settings
<1>17. CASE PropertyChanged
  <2>2. ResOK' /\ MachineOK' /\ prop' \in {prop, "StartReply"}
    BY <1>0, <1>17, ResetType
    DEF PropertyChanged, Stays, Same, res, machine, ResOK, MachineOK
  <2> QED BY <1>0, <1>17, <2>2
  DEF PropertyChanged, WorldOK, world, monitor, started, phone, settings
<1>18. CASE Resubscribe
  BY <1>0, <1>18
  DEF Resubscribe, WorldOK, ResOK, MachineOK, res, machine, world, monitor, started,
      phone, settings
<1>19. CASE Environment
  <2>1. UNCHANGED <<timers, segment, conn, fatal, machine, linger, my, alive, bearer, scenario, setup>>
    BY <1>19
    DEF Environment, ResetTool, StartAnswers, LinkCloses, LinkDeleted, OthersChange,
        NetworkChanges, UserSetsUsage, outside, started, monitor
  <2>2. CASE ResetTool
    BY <1>0, <2>1, <2>2
    DEF ResetTool, ToolAsks, ToolResets, ToolStops, Told, WorldOK, ResOK, MachineOK,
        machine, world, phone, settings
  <2>3. CASE StartAnswers
    <3>1. events' \in Seq(Event)
      <4>1. events' \in {events, events \o <<Created("own"), Opened>>, Append(events, Created("own")),
                          Append(events, Opened), events \o <<Created("own"), Deleted("own")>>}
        BY <2>3 DEF StartAnswers
      <4>2. Created("own") \in Event /\ Deleted("own") \in Event /\ Opened \in Event
        BY EventsType
      <4>3. /\ Append(events, Created("own")) \in Seq(Event) /\ Append(events, Opened) \in Seq(Event)
            /\ events \o <<Created("own"), Opened>> \in Seq(Event)
            /\ events \o <<Created("own"), Deleted("own")>> \in Seq(Event)
        BY <4>2, EventsType
      <4> QED BY <4>1, <4>3 DEF TypeOK
    <3>2. ResOK'
      BY <1>0, <2>1, <2>3 DEF StartAnswers, ResOK, FailureReasons
    <3> QED BY <1>0, <2>1, <2>3, <3>1, <3>2
    DEF StartAnswers, WorldOK, MachineOK, machine, phone, settings, reset
  <2>4. CASE LinkCloses
    BY <1>0, <2>1, <2>4
    DEF LinkCloses, WorldOK, ResOK, MachineOK, machine, world, phone, settings, reset,
        FailureReasons
  <2>5. CASE LinkDeleted
    BY <1>0, <2>1, <2>5, EventsType
    DEF LinkDeleted, WorldOK, ResOK, MachineOK, machine, phone, settings, reset
  <2>6. CASE OthersChange
    BY <1>0, <2>1, <2>6, EventsType
    DEF OthersChange, WorldOK, ResOK, MachineOK, machine, phone, settings, reset
  <2>7. CASE NetworkChanges
    BY <1>0, <2>1, <2>7
    DEF NetworkChanges, WorldOK, ResOK, MachineOK, machine, world, settings, reset
  <2>8. CASE UserSetsUsage
    BY <1>0, <2>1, <2>8
    DEF UserSetsUsage, WorldOK, ResOK, MachineOK, machine, world, phone, reset
  <2> QED BY <1>19, <2>2, <2>3, <2>4, <2>5, <2>6, <2>7, <2>8 DEF Environment
<1> QED
  BY <1>1, <1>2, <1>3, <1>4, <1>5, <1>6, <1>7, <1>8, <1>9, <1>10, <1>11, <1>12, <1>13, <1>14, <1>15, <1>16, <1>17, <1>18, <1>19
  DEF Next, Handlers

-----------------------------------------------------------------------------
(* What each step does to the parts of the invariant *)

LEMMA ScenarioStays ==
  ASSUME Next
  PROVE  UNCHANGED scenario
BY DEF Next, Handlers, Environment, HandleSetup, HandleSettingsChanged, ModemAnswers,
       HandleNWRegistrationStatusChanged, HandleError, ConnectionRuns, HandleReactivation,
       HandleRetryTimer, HandleConnectionTimer, HandleUnconnectTimer, HandleUsageChanged, LingerTimer,
       EventCreate, EventOpen, EventDelete, BearerKnown, PropertyChanged, Resubscribe, ResetTool,
       StartAnswers, LinkCloses, LinkDeleted, OthersChange, NetworkChanges, UserSetsUsage, outside,
       started, machine

\* The steps that touch neither the machine nor its timers and requests.
Elsewhere ==
  \/ EventCreate \/ EventOpen \/ Resubscribe
  \/ ResetTool \/ LinkDeleted \/ OthersChange \/ NetworkChanges \/ UserSetsUsage

LEMMA ElsewhereStill ==
  ASSUME Elsewhere
  PROVE  UNCHANGED <<timers, segment, conn, req, fatal, machine, started, cfg>>
BY DEF Elsewhere, EventCreate, EventOpen, Resubscribe, ResetTool, LinkDeleted,
       OthersChange,
       NetworkChanges, UserSetsUsage, outside, res, settings

\* A queue of events of the own context, with more of them.
LEMMA OwnOnes ==
  ASSUME NEW s \in Seq(Event), \A i \in 1..Len(s): s[i].id = "own",
         NEW e, e.id = "own", NEW f, f.id = "own"
  PROVE  /\ \A i \in 1..Len(Append(s, e)): Append(s, e)[i].id = "own"
         /\ \A i \in 1..Len(s \o <<e, f>>): (s \o <<e, f>>)[i].id = "own"
PROOF
  <1>1. \A i \in 1..Len(Append(s, e)): Append(s, e)[i] = IF i <= Len(s) THEN s[i] ELSE e
    OBVIOUS
  <1>2. Len(s \o <<e, f>>) = Len(s) + 2
    OBVIOUS
  <1>3. \A i \in 1..Len(s) + 2: (s \o <<e, f>>)[i] = IF i <= Len(s) THEN s[i] ELSE <<e, f>>[i - Len(s)]
    OBVIOUS
  <1>4. \A j \in 1..2: <<e, f>>[j].id = "own"
    OBVIOUS
  <1>5. \A i \in 1..Len(s) + 2: (s \o <<e, f>>)[i].id = "own"
    <2> TAKE i \in 1..Len(s) + 2
    <2>1. CASE i <= Len(s)
      BY <1>3, <2>1
    <2>2. CASE i > Len(s)
      <3>1. i - Len(s) \in 1..2
        BY <2>2
      <3> QED BY <1>3, <1>4, <2>2, <3>1
    <2> QED BY <2>1, <2>2
  <1> QED BY <1>1, <1>2, <1>5

\* A retry that starts, its first part cut to what the timer can run.
LEMMA SwitchCut ==
  ASSUME TypeOK, RetryCut, UNCHANGED cfg, NEW on \in SUBSET timers, NEW r, SwitchFailed(r, on)
  PROVE  RetryCut'
PROOF
  <1>1. CASE StartRetryTimer(on) /\ cfg'.retry # 0
    <2>1. cfg'.retry \in Nat /\ MaxTimer \in Nat \ {0} /\ 0 * MaxTimer = 0
      BY ConstantsAssumption DEF TypeOK, Settings
    <2>2. segment'.interval = Smaller(cfg'.retry, MaxTimer) /\ segment'.count = 0
      BY <1>1 DEF StartRetryTimer
    <2>3. segment'.count * MaxTimer = 0
      BY <2>1, <2>2
    <2> QED
      BY <1>1, <2>1, <2>2, <2>3 DEF RetryCut, Smaller
  <1>2. CASE timers' \subseteq on \cup {"unconnect"} /\ UNCHANGED segment
    BY <1>2 DEF RetryCut
  <1> QED
    BY <1>1, <1>2 DEF SwitchFailed, SwitchToUnconnected, StartUnconnectTimer

\* A request that goes on or has failed is of a link that is being opened, the
\* states outside the round hold nothing, and a state that waits has what it waits for.
LEMMA AbleStep ==
  ASSUME RequestFits, IdleQuiet, StateAble, Next
  PROVE  RequestFits' /\ IdleQuiet' /\ StateAble'
PROOF
  <1>1. CASE HandleSetup
    BY <1>1
   
    DEF HandleSetup, HandleSettingsReceived, Same, Enable, CancelAll, CancelAllEnable,
        res,
        Activate, CancelAllThen, CancelAllActivate, ActivateConnection, RequestFits, IdleQuiet,
        StateAble, Idle, Quiet, FailureReasons
  <1>2. CASE HandleSettingsChanged
    BY <1>2
   
    DEF HandleSettingsChanged, HandleSettingsReceived, Same, Enable, CancelAll,
        CancelAllEnable,
        res, Activate, CancelAllThen, CancelAllActivate, ActivateConnection, RequestFits,
        IdleQuiet, StateAble, Idle, Quiet, FailureReasons
  <1>3. CASE ModemAnswers
    BY <1>3
   
    DEF ModemAnswers, Same, Enable, res, Activate, ActivateConnection, RequestFits,
        IdleQuiet,
        StateAble, Idle, Quiet
  <1>4. CASE HandleNWRegistrationStatusChanged
    BY <1>4
   
    DEF HandleNWRegistrationStatusChanged, HandleNetworkChanged, Enable, Same,
        DetachConnection,
        CancelAllEnable, Activate, res, CancelAllActivate, CancelAll, ActivateConnection,
        CancelAllThen, RequestFits, IdleQuiet, StateAble, Idle, Quiet, FailureReasons
  <1>5. CASE HandleError
    BY <1>5
   
    DEF HandleError, HandlePDPContextDisconnected, Same, res, RequestFits, IdleQuiet,
        StateAble,
        Idle, Quiet
  <1>6. CASE ConnectionRuns
    BY <1>6
    DEF ConnectionRuns, HandleOpeningLink, HandleListeningAccessPoint, machine,
        HandlePDPContextActivated, FailureReasons, HandlePDPContextActivationFailed,
        HandlePDPContextDisconnected, SwitchFailed, StartRetryTimer, SwitchToUnconnected,
        RequestFits, IdleQuiet, StateAble, Idle, Quiet
  <1>7. CASE HandleReactivation
    BY <1>7
   
    DEF HandleReactivation, Activate, Same, ActivateConnection, res, RequestFits,
        IdleQuiet,
        StateAble, Idle, Quiet
  <1>8. CASE HandleRetryTimer
    BY <1>8
   
    DEF HandleRetryTimer, machine, Activate, StopTimer, ActivateConnection, RequestFits,
        IdleQuiet,
        StateAble, Idle, Quiet
  <1>9. CASE HandleConnectionTimer
    BY <1>9
    DEF HandleConnectionTimer, StopTimer, CancelAllThen, SwitchFailed, StartRetryTimer,
        SwitchToUnconnected, RequestFits, IdleQuiet, StateAble, Idle, Quiet, FailureReasons
  <1>10. CASE HandleUnconnectTimer
    BY <1>10
    DEF HandleUnconnectTimer, HandleUnconnectTimerExpired, Activate, ActivateConnection,
        RequestFits, IdleQuiet, StateAble, Idle, Quiet
  <1>11. CASE HandleUsageChanged
    BY <1>11
   
    DEF HandleUsageChanged, Stays, HandleUnconnectTimerExpired, machine, Same, Activate,
        res,
        ActivateConnection, RequestFits, IdleQuiet, StateAble, Idle, Quiet
  <1>12. CASE LingerTimer
    BY <1>12
    DEF LingerTimer, machine, RequestFits, IdleQuiet, StateAble, Quiet, FailureReasons
  <1>13. CASE EventDelete
    BY <1>13
    DEF EventDelete, Stays, HandleConnectionDeleted, machine, Same, Activate, CancelAll,
        CancelAllActivate, res, ActivateConnection, CancelAllThen, RequestFits, IdleQuiet,
        StateAble, Idle, Quiet, FailureReasons
  <1>14. CASE BearerKnown
    BY <1>14
    DEF BearerKnown, HandleExternalConnectionCreated, Stays, CancelAll, Same, machine,
        CancelAllThen, res, RequestFits, IdleQuiet, StateAble, Quiet, FailureReasons
  <1>15. CASE PropertyChanged
    BY <1>15
   
    DEF PropertyChanged, HandleResetFactorySettings, Stays, Same, CancelAll, Activate,
        machine,
        res, CancelAllThen, ActivateConnection, RequestFits, IdleQuiet, StateAble, Idle, Quiet,
        FailureReasons
  <1>16. CASE StartAnswers
    BY <1>16
    DEF StartAnswers, outside, machine, RequestFits, IdleQuiet, StateAble, Quiet
  <1>17. CASE LinkCloses
    BY <1>17
   
    DEF LinkCloses, outside, machine, RequestFits, IdleQuiet, StateAble, Quiet,
        FailureReasons
  <1>18. CASE Elsewhere
    BY <1>18, ElsewhereStill
    DEF machine, RequestFits, IdleQuiet, StateAble, Quiet
  <1> QED
    BY <1>1, <1>2, <1>3, <1>4, <1>5, <1>6, <1>7, <1>8, <1>9, <1>10, <1>11, <1>12, <1>13,
       <1>14, <1>15, <1>16, <1>17, <1>18
    DEF Next, Handlers, Environment, Elsewhere

\* The parts of a retry never overrun it: only the last part is cut.
LEMMA RetryStep ==
  ASSUME TypeOK, IdleQuiet, RetryCut, Next
  PROVE  RetryCut'
PROOF
  <1>1. CASE HandleSetup
    BY <1>1
   
    DEF HandleSetup, HandleSettingsReceived, Same, Enable, CancelAll, CancelAllEnable,
        res,
        Activate, CancelAllThen, CancelAllActivate, RetryCut, IdleQuiet, Idle, Quiet
  <1>2. CASE HandleSettingsChanged
    BY <1>2
   
    DEF HandleSettingsChanged, HandleSettingsReceived, Same, Enable, CancelAll,
        CancelAllEnable,
        res, Activate, CancelAllThen, CancelAllActivate, RetryCut, IdleQuiet, Idle, Quiet
  <1>3. CASE ModemAnswers
    BY <1>3
    DEF ModemAnswers, settings, Same, Enable, res, Activate, RetryCut
  <1>4. CASE HandleNWRegistrationStatusChanged
    BY <1>4
    DEF HandleNWRegistrationStatusChanged, settings, HandleNetworkChanged, Enable, Same,
        DetachConnection, CancelAllEnable, Activate, res, CancelAllActivate, CancelAll,
        CancelAllThen, RetryCut
  <1>5. CASE HandleError
    BY <1>5
    DEF HandleError, Same, settings, res, RetryCut
  <1>6. CASE ConnectionRuns
    <2>1. \/ UNCHANGED <<segment, timers>>
          \/ SwitchFailed(req, timers \ {"connection"})
          \/ timers' = timers \ {"connection"} /\ UNCHANGED segment
      BY <1>6
      DEF ConnectionRuns, HandleOpeningLink, HandleListeningAccessPoint, settings,
         HandlePDPContextActivated, HandlePDPContextActivationFailed
    <2>2. UNCHANGED cfg
      BY <1>6 DEF ConnectionRuns, settings
    <2> QED
      BY <2>1, <2>2, SwitchCut DEF RetryCut
  <1>7. CASE HandleReactivation
    BY <1>7
    DEF HandleReactivation, settings, Activate, Same, res, RetryCut
  <1>8. CASE HandleRetryTimer
    <2> DEFINE full == segment.count * MaxTimer
               ran == segment.interval + full
               part == Smaller(cfg.retry - ran, MaxTimer)
    <2>1. /\ full \in Nat /\ segment.interval \in Nat /\ segment.count \in Nat
          /\ (segment.count + 1) * MaxTimer = full + MaxTimer
          /\ cfg.retry \in Nat /\ MaxTimer \in Nat \ {0}
      BY MaxTimerTimes, ConstantsAssumption DEF TypeOK, Settings
    <2>2. UNCHANGED cfg /\ "retry" \in timers
      BY <1>8 DEF HandleRetryTimer, settings
    <2>3. CASE cfg.retry # ran
      <3>1. segment' = [interval |-> part, count |-> segment.count + 1]
        BY <1>8, <2>3 DEF HandleRetryTimer
      <3>2. segment'.interval = part /\ segment'.count * MaxTimer = full + MaxTimer
        BY <2>1, <3>1
      <3>3. /\ segment.interval > 0 /\ full + segment.interval <= cfg.retry
            /\ segment.interval = MaxTimer \/ full + segment.interval = cfg.retry
        BY <2>2 DEF RetryCut
      <3> HIDE DEF full
      <3>4. /\ part > 0 /\ full + MaxTimer + part <= cfg.retry
            /\ part = MaxTimer \/ full + MaxTimer + part = cfg.retry
        BY <2>1, <2>3, <3>3 DEF Smaller
      <3> QED
        BY <2>2, <3>2, <3>4 DEF RetryCut
    <2>4. CASE cfg.retry = ran
      BY <1>8, <2>4 DEF HandleRetryTimer, StopTimer, Activate, RetryCut
    <2> QED
      BY <2>3, <2>4
  <1>9. CASE HandleConnectionTimer
    <2>1. \/ timers' = timers \ {"connection"} /\ UNCHANGED segment
          \/ timers' = {"connection"}
          \/ SwitchFailed("ETemporary", {})
      BY <1>9 DEF HandleConnectionTimer, StopTimer, CancelAllThen
    <2>2. UNCHANGED cfg
      BY <1>9 DEF HandleConnectionTimer, settings
    <2> QED
      BY <2>1, <2>2, SwitchCut DEF RetryCut
  <1>10. CASE HandleUnconnectTimer
    BY <1>10
   
    DEF HandleUnconnectTimer, settings, HandleUnconnectTimerExpired, Activate,
        StartUnconnectTimer,
        RetryCut
  <1>11. CASE HandleUsageChanged
    BY <1>11
    DEF HandleUsageChanged, Stays, HandleUnconnectTimerExpired, Same, Activate,
        StartUnconnectTimer, res, RetryCut
  <1>12. CASE LingerTimer
    BY <1>12
    DEF LingerTimer, settings, RetryCut
  <1>13. CASE EventDelete
    BY <1>13
   
    DEF EventDelete, settings, Stays, HandleConnectionDeleted, Same, Activate,
        CancelAll,
        CancelAllActivate, res, CancelAllThen, RetryCut
  <1>14. CASE BearerKnown
    BY <1>14
    DEF BearerKnown, settings, HandleExternalConnectionCreated, Stays, CancelAll, Same,
        CancelAllThen, res, RetryCut
  <1>15. CASE PropertyChanged
    BY <1>15
   
    DEF PropertyChanged, settings, HandleResetFactorySettings, Stays, Same, CancelAll,
        Activate,
        res, CancelAllThen, RetryCut
  <1>16. CASE StartAnswers
    BY <1>16
    DEF StartAnswers, outside, settings, RetryCut
  <1>17. CASE LinkCloses
    BY <1>17
    DEF LinkCloses, outside, settings, RetryCut
  <1>18. CASE Elsewhere
    BY <1>18, ElsewhereStill
    DEF RetryCut
  <1> QED
    BY <1>1, <1>2, <1>3, <1>4, <1>5, <1>6, <1>7, <1>8, <1>9, <1>10, <1>11, <1>12, <1>13,
       <1>14, <1>15, <1>16, <1>17, <1>18
    DEF Next, Handlers, Environment, Elsewhere

\* Without others all events are of the own context.
LEMMA OnlyOwnStep ==
  ASSUME TypeOK, OnlyOwn, Next
  PROVE  OnlyOwn'
PROOF
  <1>1. CASE HandleSetup
    BY <1>1
   
    DEF HandleSetup, monitor, world, HandleSettingsReceived, Enable, CancelAllEnable,
        OnlyOwn,
        EventsOwn
  <1>2. CASE HandleSettingsChanged
    BY <1>2
    DEF HandleSettingsChanged, started, monitor, world, HandleSettingsReceived, Enable,
        CancelAllEnable, OnlyOwn, EventsOwn
  <1>3. CASE ModemAnswers
    BY <1>3
    DEF ModemAnswers, started, monitor, world, Enable, OnlyOwn, EventsOwn
  <1>4. CASE HandleNWRegistrationStatusChanged
    BY <1>4
   
    DEF HandleNWRegistrationStatusChanged, started, monitor, world,
        HandleNetworkChanged, Enable,
        CancelAllEnable, OnlyOwn, EventsOwn
  <1>5. CASE HandleError
    BY <1>5
   
    DEF HandleError, HandlePDPContextDisconnected, started, monitor, world, OnlyOwn,
        EventsOwn
  <1>6. CASE ConnectionRuns
    BY <1>6
   
    DEF ConnectionRuns, monitor, world, started, HandleOpeningLink,
        HandleListeningAccessPoint,
        machine, HandlePDPContextActivated, HandlePDPContextActivationFailed,
        HandlePDPContextDisconnected, SwitchFailed, SwitchToUnconnected, OnlyOwn, EventsOwn
  <1>7. CASE HandleReactivation
    BY <1>7
    DEF HandleReactivation, monitor, world, started, OnlyOwn, EventsOwn
  <1>8. CASE HandleRetryTimer
    BY <1>8
    DEF HandleRetryTimer, monitor, world, started, machine, OnlyOwn, EventsOwn
  <1>9. CASE HandleConnectionTimer
    BY <1>9
   
    DEF HandleConnectionTimer, monitor, world, started, SwitchFailed,
        SwitchToUnconnected, OnlyOwn,
        EventsOwn
  <1>10. CASE HandleUnconnectTimer
    BY <1>10
   
    DEF HandleUnconnectTimer, monitor, world, started, HandleUnconnectTimerExpired,
        OnlyOwn,
        EventsOwn
  <1>11. CASE HandleUsageChanged
    BY <1>11
   
    DEF HandleUsageChanged, monitor, world, started, Stays, HandleUnconnectTimerExpired,
        machine,
        OnlyOwn, EventsOwn
  <1>12. CASE LingerTimer
    BY <1>12
    DEF LingerTimer, machine, started, monitor, world, OnlyOwn, EventsOwn
  <1>13. CASE EventCreate
    BY <1>13
    DEF EventCreate, Take, monitor, machine, started, OnlyOwn, EventsOwn
  <1>14. CASE EventOpen
    BY <1>14
    DEF EventOpen, Take, machine, started, monitor, OnlyOwn, EventsOwn
  <1>15. CASE EventDelete
    BY <1>15
   
    DEF EventDelete, Take, started, Stays, HandleConnectionDeleted, machine, OnlyOwn,
        EventsOwn
  <1>16. CASE BearerKnown
    BY <1>16, ConstantsAssumption
    DEF BearerKnown, world, Stays, machine, started, OnlyOwn, EventsOwn
  <1>17. CASE PropertyChanged
    BY <1>17
   
    DEF PropertyChanged, world, monitor, started, HandleResetFactorySettings, Stays,
        machine,
        OnlyOwn, EventsOwn
  <1>18. CASE Resubscribe
    BY <1>18
    DEF Resubscribe, machine, world, monitor, started, OnlyOwn, EventsOwn
  <1>19. CASE ResetTool
    BY <1>19
    DEF ResetTool, outside, world, machine, started, monitor, OnlyOwn, EventsOwn
  <1>20. CASE StartAnswers
    <2>1. SUFFICES ASSUME "others" \notin scenario
                   PROVE  EventsOwn'
      BY <1>20 DEF OnlyOwn, StartAnswers, outside, started, machine, monitor
    <2>2. EventsOwn /\ events \in Seq(Event)
      BY <2>1 DEF OnlyOwn, TypeOK
    <2>3. Created("own").id = "own" /\ Deleted("own").id = "own" /\ Opened.id = "own"
      BY DEF Created, Deleted, Opened
    <2>4. events' \in {events, events \o <<Created("own"), Opened>>, Append(events, Created("own")),
                      Append(events, Opened), events \o <<Created("own"), Deleted("own")>>}
      BY <1>20 DEF StartAnswers
    <2> QED
      <3>1. \A i \in 1..Len(events): events[i].id = "own"
        BY <2>2 DEF EventsOwn
      <3>2. ASSUME NEW e, e.id = "own", NEW f, f.id = "own", events' \in {Append(events, e), events \o <<e, f>>}
            PROVE  EventsOwn'
        <4>1. /\ \A i \in 1..Len(Append(events, e)): Append(events, e)[i].id = "own"
              /\ \A i \in 1..Len(events \o <<e, f>>): (events \o <<e, f>>)[i].id = "own"
          BY <2>2, <3>1, <3>2, OwnOnes
        <4>2. CASE events' = Append(events, e)
          BY <4>1, <4>2 DEF EventsOwn
        <4>3. CASE events' = events \o <<e, f>>
          BY <4>1, <4>3 DEF EventsOwn
        <4> QED
          BY <3>2, <4>2, <4>3
      <3> QED
        BY <2>2, <2>3, <2>4, <3>2 DEF EventsOwn
  <1>21. CASE LinkCloses
    BY <1>21
    DEF LinkCloses, outside, world, machine, started, monitor, OnlyOwn, EventsOwn
  <1>22. CASE LinkDeleted
    <2>1. events \in Seq(Event)
      BY DEF TypeOK
    <2> QED
      BY <1>22, <2>1
      DEF LinkDeleted, outside, machine, monitor, started, OnlyOwn, EventsOwn, Deleted
  <1>23. CASE OthersChange
    BY <1>23
    DEF OthersChange, outside, started, OnlyOwn
  <1>24. CASE NetworkChanges
    BY <1>24
    DEF NetworkChanges, outside, world, machine, started, monitor, OnlyOwn, EventsOwn
  <1>25. CASE UserSetsUsage
    BY <1>25
    DEF UserSetsUsage, outside, world, machine, started, monitor, OnlyOwn, EventsOwn
  <1> QED
    BY <1>1, <1>2, <1>3, <1>4, <1>5, <1>6, <1>7, <1>8, <1>9, <1>10, <1>11, <1>12, <1>13,
       <1>14, <1>15, <1>16, <1>17, <1>18, <1>19, <1>20, <1>21, <1>22, <1>23, <1>24, <1>25
    DEF Next, Handlers, Environment

\* From the answer to the end of a reset the machine rests.
LEMMA ResetStep ==
  ASSUME Dormant, OnlyOwn, NestedQuiet, ResetHolds, Next
  PROVE  Dormant' /\ ResetHolds'
PROOF
  <1>1. CASE HandleSetup
    BY <1>1
    DEF HandleSetup, reset, HandleSettingsReceived, Dormant, ResetHolds, InOrder
  <1>2. CASE HandleSettingsChanged
    BY <1>2
   
    DEF HandleSettingsChanged, started, reset, HandleSettingsReceived, Dormant,
        ResetHolds, InOrder
  <1>3. CASE ModemAnswers
    BY <1>3
   
    DEF ModemAnswers, started, settings, reset, Dormant, ResetHolds, NestedQuiet,
        InOrder
  <1>4. CASE HandleNWRegistrationStatusChanged
    BY <1>4
   
    DEF HandleNWRegistrationStatusChanged, settings, started, reset,
        HandleNetworkChanged, Dormant,
        ResetHolds, InOrder
  <1>5. CASE HandleError
    BY <1>5
   
    DEF HandleError, HandlePDPContextDisconnected, settings, started, reset, Dormant,
        ResetHolds,
        InOrder
  <1>6. CASE ConnectionRuns
    BY <1>6
   
    DEF ConnectionRuns, settings, started, reset, HandleOpeningLink,
        HandleListeningAccessPoint,
        machine, HandlePDPContextActivated, HandlePDPContextActivationFailed,
        HandlePDPContextDisconnected, Dormant, ResetHolds, InOrder
  <1>7. CASE HandleReactivation
    BY <1>7
    DEF HandleReactivation, settings, started, reset, Dormant, ResetHolds, InOrder
  <1>8. CASE HandleRetryTimer
    BY <1>8
   
    DEF HandleRetryTimer, settings, started, reset, machine, Dormant, ResetHolds,
        InOrder
  <1>9. CASE HandleConnectionTimer
    BY <1>9
    DEF HandleConnectionTimer, settings, started, reset, Dormant, ResetHolds, InOrder
  <1>10. CASE HandleUnconnectTimer
    BY <1>10
   
    DEF HandleUnconnectTimer, settings, started, reset, HandleUnconnectTimerExpired,
        Dormant,
        ResetHolds, InOrder
  <1>11. CASE HandleUsageChanged
    BY <1>11
   
    DEF HandleUsageChanged, NotifiedOfUsage, started, reset, Stays,
        HandleUnconnectTimerExpired,
        machine, Dormant, ResetHolds, InOrder
  <1>12. CASE LingerTimer
    BY <1>12
    DEF LingerTimer, machine, started, settings, reset, Dormant, ResetHolds, InOrder
  <1>13. CASE EventCreate
    BY <1>13
    DEF EventCreate, machine, started, settings, reset, Dormant, ResetHolds, InOrder
  <1>14. CASE EventOpen
    BY <1>14
    DEF EventOpen, machine, started, settings, reset, Dormant, ResetHolds, InOrder
  <1>15. CASE EventDelete
    BY <1>15
   
    DEF EventDelete, started, settings, reset, Stays, HandleConnectionDeleted, machine,
        Dormant,
        ResetHolds, InOrder
  <1>16. CASE BearerKnown
    BY <1>16
   
    DEF BearerKnown, settings, started, reset, HandleExternalConnectionCreated, Stays,
        machine,
        Dormant, ResetHolds, InOrder
  <1>17. CASE PropertyChanged
    BY <1>17
   
    DEF PropertyChanged, settings, started, HandleResetFactorySettings, Stays, machine,
        Dormant,
        OnlyOwn, ResetHolds, InOrder
  <1>18. CASE Resubscribe
    BY <1>18
    DEF Resubscribe, machine, settings, started, Dormant, ResetHolds, InOrder
  <1>19. CASE ResetTool
    BY <1>19
   
    DEF ResetTool, ToolAsks, ToolResets, ToolStops, outside, settings, machine, started,
        Dormant,
        ResetHolds, InOrder
  <1>20. CASE StartAnswers
    BY <1>20
   
    DEF StartAnswers, outside, settings, reset, machine, started, Dormant, ResetHolds,
        InOrder
  <1>21. CASE LinkCloses
    BY <1>21
   
    DEF LinkCloses, outside, settings, reset, machine, started, Dormant, ResetHolds,
        InOrder
  <1>22. CASE LinkDeleted
    BY <1>22
   
    DEF LinkDeleted, outside, settings, reset, machine, started, Dormant, ResetHolds,
        InOrder
  <1>23. CASE OthersChange
    BY <1>23
    DEF OthersChange, outside, settings, reset, started, Dormant, ResetHolds, InOrder
  <1>24. CASE NetworkChanges
    BY <1>24
   
    DEF NetworkChanges, outside, settings, reset, machine, started, Dormant, ResetHolds,
        InOrder
  <1>25. CASE UserSetsUsage
    BY <1>25
    DEF UserSetsUsage, outside, reset, machine, started, Dormant, ResetHolds, InOrder
  <1> QED
    BY <1>1, <1>2, <1>3, <1>4, <1>5, <1>6, <1>7, <1>8, <1>9, <1>10, <1>11, <1>12, <1>13,
       <1>14, <1>15, <1>16, <1>17, <1>18, <1>19, <1>20, <1>21, <1>22, <1>23, <1>24, <1>25
    DEF Next, Handlers, Environment

\* The handler that waits for the modem has stopped what ran, and a timer runs only in its state.
LEMMA RestStep ==
  ASSUME RequestFits, IdleQuiet, OnlyOwn, Dormant, NestedQuiet, ResetHolds, RestsQuietly, Next
  PROVE  NestedQuiet' /\ RestsQuietly'
PROOF
  <1>1. CASE HandleSetup
    BY <1>1
   
    DEF HandleSetup, Dispatch, HandleSettingsReceived, Same, CancelAll, res,
        CancelAllThen,
        NestedQuiet, RestsQuietly, InOrder, Quiet
  <1>2. CASE HandleSettingsChanged
    BY <1>2
   
    DEF HandleSettingsChanged, Dispatch, started, HandleSettingsReceived, Same,
        CancelAll, res,
        CancelAllThen, NestedQuiet, RestsQuietly, InOrder, Quiet
  <1>3. CASE ModemAnswers
    BY <1>3
   
    DEF ModemAnswers, started, Same, Enable, res, Activate, NestedQuiet, RestsQuietly,
        InOrder,
        Quiet
  <1>4. CASE HandleNWRegistrationStatusChanged
    BY <1>4
   
    DEF HandleNWRegistrationStatusChanged, Dispatch, started, HandleNetworkChanged,
        Enable, Same,
        DetachConnection, CancelAllEnable, Activate, res, CancelAllActivate, CancelAll,
        CancelAllThen, NestedQuiet, RestsQuietly, InOrder
  <1>5. CASE HandleError
    BY <1>5
   
    DEF HandleError, Dispatch, HandlePDPContextDisconnected, Same, started, res,
        NestedQuiet,
        RestsQuietly, InOrder
  <1>6. CASE ConnectionRuns
    BY <1>6
   
    DEF ConnectionRuns, Dispatch, started, HandleOpeningLink,
        HandleListeningAccessPoint, machine,
        HandlePDPContextActivated, HandlePDPContextActivationFailed, HandlePDPContextDisconnected,
        SwitchFailed, StartRetryTimer, SwitchToUnconnected, StartUnconnectTimer, NestedQuiet,
        RestsQuietly, InOrder
  <1>7. CASE HandleReactivation
    BY <1>7
   
    DEF HandleReactivation, Dispatch, started, Activate, Same, res, NestedQuiet,
        RestsQuietly,
        InOrder
  <1>8. CASE HandleRetryTimer
    BY <1>8
   
    DEF HandleRetryTimer, Dispatch, started, machine, Activate, NestedQuiet,
        RestsQuietly, InOrder
  <1>9. CASE HandleConnectionTimer
    BY <1>9
   
    DEF HandleConnectionTimer, Dispatch, started, CancelAllThen, SwitchFailed,
        StartRetryTimer,
        SwitchToUnconnected, StartUnconnectTimer, NestedQuiet, RestsQuietly, InOrder
  <1>10. CASE HandleUnconnectTimer
    BY <1>10
    DEF HandleUnconnectTimer, Dispatch, started, HandleUnconnectTimerExpired, Activate,
        StartUnconnectTimer, NestedQuiet, RestsQuietly, InOrder
  <1>11. CASE HandleUsageChanged
    BY <1>11
   
    DEF HandleUsageChanged, NotifiedOfUsage, started, Stays,
        HandleUnconnectTimerExpired, Dispatch,
        machine, Same, Activate, StartUnconnectTimer, res, NestedQuiet, RestsQuietly, InOrder
  <1>12. CASE LingerTimer
    BY <1>12
    DEF LingerTimer, Dispatch, machine, started, NestedQuiet, RestsQuietly, InOrder
  <1>13. CASE EventDelete
    BY <1>13
   
    DEF EventDelete, Dispatch, started, Stays, HandleConnectionDeleted, machine, Same,
        Activate,
        CancelAll, CancelAllActivate, res, CancelAllThen, NestedQuiet, RestsQuietly, InOrder
  <1>14. CASE BearerKnown
    BY <1>14
   
    DEF BearerKnown, Dispatch, started, HandleExternalConnectionCreated, Stays,
        CancelAll, Same,
        machine, CancelAllThen, res, NestedQuiet, RestsQuietly, InOrder
  <1>15. CASE PropertyChanged
    BY <1>15
   
    DEF PropertyChanged, Dispatch, started, HandleResetFactorySettings, Stays, Same,
        CancelAll,
        Activate, machine, res, CancelAllThen, NestedQuiet, RestsQuietly, InOrder, ResetHolds
  <1>16. CASE StartAnswers
    BY <1>16
   
    DEF StartAnswers, outside, machine, started, NestedQuiet, RestsQuietly, InOrder,
        Quiet
  <1>17. CASE LinkCloses
    BY <1>17
    DEF LinkCloses, outside, machine, started, NestedQuiet, RestsQuietly, InOrder, Quiet
  <1>18. CASE Elsewhere
    BY <1>18, ElsewhereStill
    DEF machine, started, NestedQuiet, RestsQuietly, InOrder, Quiet
  <1> QED
    BY <1>1, <1>2, <1>3, <1>4, <1>5, <1>6, <1>7, <1>8, <1>9, <1>10, <1>11, <1>12, <1>13,
       <1>14, <1>15, <1>16, <1>17, <1>18
    DEF Next, Handlers, Environment, Elsewhere

\* Alone, the machine is in its round only where the settings keep the context on.
LEMMA KeepsStep ==
  ASSUME "network" \notin scenario, "others" \notin scenario, "reset" \notin scenario, "modem" \notin scenario,
         "telephony" \notin scenario,
         RequestFits, IdleQuiet, NestedQuiet, OnlyOwn, Dormant, StateAble, RestsQuietly, KeepsOn, Next
  PROVE  KeepsOn'
PROOF
  <1>1. CASE HandleSetup
    BY <1>1
    DEF HandleSetup, HandleSettingsReceived, Trying, KeepsOn
  <1>2. CASE HandleSettingsChanged
    BY <1>2
    DEF HandleSettingsChanged, phone, HandleSettingsReceived, Trying, KeepsOn
  <1>3. CASE ModemAnswers
    BY <1>3
   
    DEF ModemAnswers, phone, Enable, EnableAlwaysOn, NestedQuiet, InOrder, AlwaysOn,
        Trying, KeepsOn
  <1>4. CASE HandleNWRegistrationStatusChanged
    BY <1>4
   
    DEF HandleNWRegistrationStatusChanged, settings, HandleNetworkChanged,
        EnableAlwaysOn, Enable,
        AlwaysOn, Trying, KeepsOn
  <1>5. CASE HandleError
    BY <1>5
    DEF HandleError
  <1>6. CASE ConnectionRuns
    BY <1>6
   
    DEF ConnectionRuns, phone, settings, HandleOpeningLink, HandleListeningAccessPoint,
        machine,
        HandlePDPContextActivated, HandlePDPContextActivationFailed, HandlePDPContextDisconnected,
        AlwaysOn, Trying, KeepsOn
  <1>7. CASE HandleReactivation
    BY <1>7
    DEF HandleReactivation, phone, settings, AlwaysOn, Trying, KeepsOn
  <1>8. CASE HandleRetryTimer
    BY <1>8
    DEF HandleRetryTimer, phone, settings, machine, AlwaysOn, Trying, KeepsOn
  <1>9. CASE HandleConnectionTimer
    BY <1>9
    DEF HandleConnectionTimer, phone, settings, AlwaysOn, Trying, KeepsOn
  <1>10. CASE HandleUnconnectTimer
    BY <1>10
   
    DEF HandleUnconnectTimer, phone, settings, HandleUnconnectTimerExpired, AlwaysOn,
        Trying,
        KeepsOn
  <1>11. CASE HandleUsageChanged
    BY <1>11
   
    DEF HandleUsageChanged, phone, Stays, HandleUnconnectTimerExpired, machine,
        AlwaysOn, Trying,
        KeepsOn
  <1>12. CASE LingerTimer
    BY <1>12
    DEF LingerTimer, machine, phone, settings, AlwaysOn, KeepsOn
  <1>13. CASE EventCreate
    BY <1>13
    DEF EventCreate, machine, phone, settings, AlwaysOn, KeepsOn
  <1>14. CASE EventOpen
    BY <1>14
    DEF EventOpen, machine, phone, settings, AlwaysOn, KeepsOn
  <1>15. CASE EventDelete
    BY <1>15
   
    DEF EventDelete, phone, settings, Stays, HandleConnectionDeleted, machine, OnlyOwn,
        AlwaysOn,
        Trying, KeepsOn
  <1>16. CASE BearerKnown
    BY <1>16
   
    DEF BearerKnown, phone, settings, HandleExternalConnectionCreated, Stays, machine,
        AlwaysOn,
        Trying, KeepsOn
  <1>17. CASE PropertyChanged
    BY <1>17
    DEF PropertyChanged, Dormant
  <1>18. CASE Resubscribe
    BY <1>18
    DEF Resubscribe, Dormant
  <1>19. CASE ResetTool
    BY <1>19
    DEF ResetTool, ToolAsks, ToolResets, ToolStops, Dormant
  <1>20. CASE StartAnswers
    BY <1>20
    DEF StartAnswers, outside, phone, settings, machine, AlwaysOn, KeepsOn
  <1>21. CASE LinkCloses
    BY <1>21
    DEF LinkCloses, outside, phone, settings, machine, AlwaysOn, KeepsOn
  <1>22. CASE LinkDeleted
    BY <1>22
    DEF LinkDeleted, outside, phone, settings, machine, AlwaysOn, KeepsOn
  <1>23. CASE OthersChange
    BY <1>23
    DEF OthersChange
  <1>24. CASE NetworkChanges
    BY <1>24
    DEF NetworkChanges
  <1>25. CASE UserSetsUsage
    BY <1>25
    DEF UserSetsUsage, outside, phone, machine, AlwaysOn, KeepsOn
  <1> QED
    BY <1>1, <1>2, <1>3, <1>4, <1>5, <1>6, <1>7, <1>8, <1>9, <1>10, <1>11, <1>12, <1>13,
       <1>14, <1>15, <1>16, <1>17, <1>18, <1>19, <1>20, <1>21, <1>22, <1>23, <1>24, <1>25
    DEF Next, Handlers, Environment

\* Alone, a link is up only for the connection, which stops it.
LEMMA LinkStep ==
  ASSUME "network" \notin scenario, "others" \notin scenario, "reset" \notin scenario, "modem" \notin scenario,
         "telephony" \notin scenario,
         RequestFits, IdleQuiet, NestedQuiet, OnlyOwn, Dormant, StateAble, RestsQuietly, KeepsOn, OwnsLink,
         state \in {"Waiting", "Unconnected", "Disconnected"} => req = "none", Next
  PROVE  OwnsLink'
PROOF
  <1>1. CASE HandleSetup
    BY <1>1
   
    DEF HandleSetup, Dispatch, HandleSettingsReceived, Same, CancelAll, res,
        CancelAllThen,
        StopInterface, Stops, Interface, OwnsLink
  <1>2. CASE HandleSettingsChanged
    BY <1>2
    DEF HandleSettingsChanged, Dispatch, HandleSettingsReceived, Same, CancelAll, res,
        CancelAllThen, StopInterface, Stops, Interface, OwnsLink
  <1>3. CASE ModemAnswers
    BY <1>3
   
    DEF ModemAnswers, Same, Enable, res, Activate, NestedQuiet, InOrder, Quiet,
        OwnsLink,
        Interface, Stops
  <1>4. CASE HandleNWRegistrationStatusChanged
    BY <1>4
    DEF HandleNWRegistrationStatusChanged, Dispatch, settings, HandleNetworkChanged,
        EnableAlwaysOn, Enable, Same, CancelAllEnable, Activate, res, CancelAllActivate,
        StopInterface, Stops, Interface, RestsQuietly, InOrder, AlwaysOn, Trying, KeepsOn, OwnsLink
  <1>5. CASE HandleError
    BY <1>5
    DEF HandleError
  <1>6. CASE ConnectionRuns
    BY <1>6
   
    DEF ConnectionRuns, HandleOpeningLink, HandleListeningAccessPoint,
        HandlePDPContextActivated,
        FailureReasons, HandlePDPContextActivationFailed, OwnsLink, Interface, Stops
  <1>7. CASE HandleReactivation
    BY <1>7
    DEF HandleReactivation, Activate, Same, res, OwnsLink, Interface, Stops
  <1>8. CASE HandleRetryTimer
    BY <1>8
    DEF HandleRetryTimer, Activate, StopTimer, OwnsLink, Interface, Stops
  <1>9. CASE HandleConnectionTimer
    BY <1>9
   
    DEF HandleConnectionTimer, StopTimer, CancelAllThen, StopInterface, Stops,
        Interface, OwnsLink
  <1>10. CASE HandleUnconnectTimer
    BY <1>10
   
    DEF HandleUnconnectTimer, HandleUnconnectTimerExpired, Activate, OwnsLink,
        Interface, Stops
  <1>11. CASE HandleUsageChanged
    BY <1>11
   
    DEF HandleUsageChanged, Stays, HandleUnconnectTimerExpired, Same, Activate, res,
        OwnsLink,
        Interface, Stops
  <1>12. CASE LingerTimer
    BY <1>12
    DEF LingerTimer, OwnsLink, Interface, Stops
  <1>13. CASE EventCreate
    BY <1>13
    DEF EventCreate, res, OwnsLink, Interface, Stops
  <1>14. CASE EventOpen
    BY <1>14
    DEF EventOpen, res, OwnsLink, Interface, Stops
  <1>15. CASE EventDelete
    BY <1>15
   
    DEF EventDelete, Stays, HandleConnectionDeleted, Same, CancelAll, CancelAllActivate,
        res,
        Interface, CancelAllThen, StopInterface, Stops, OnlyOwn, OwnsLink
  <1>16. CASE BearerKnown
    BY <1>16
   
    DEF BearerKnown, HandleExternalConnectionCreated, Stays, CancelAll, Same,
        CancelAllThen, res,
        StopInterface, Stops, Interface, OwnsLink
  <1>17. CASE PropertyChanged
    BY <1>17
    DEF PropertyChanged, Dormant
  <1>18. CASE Resubscribe
    BY <1>18
    DEF Resubscribe, Dormant
  <1>19. CASE ResetTool
    BY <1>19
    DEF ResetTool, ToolAsks, ToolResets, ToolStops, Dormant
  <1>20. CASE StartAnswers
    BY <1>20
    DEF StartAnswers, outside, OwnsLink, Interface, Stops
  <1>21. CASE LinkCloses
    BY <1>21
    DEF LinkCloses, Interface, OwnsLink
  <1>22. CASE LinkDeleted
    BY <1>22
    DEF LinkDeleted, OwnsLink, Interface
  <1>23. CASE OthersChange
    BY <1>23
    DEF OthersChange
  <1>24. CASE NetworkChanges
    BY <1>24
    DEF NetworkChanges
  <1>25. CASE UserSetsUsage
    BY <1>25
    DEF UserSetsUsage, outside, OwnsLink, Interface, Stops
  <1> QED
    BY <1>1, <1>2, <1>3, <1>4, <1>5, <1>6, <1>7, <1>8, <1>9, <1>10, <1>11, <1>12, <1>13,
       <1>14, <1>15, <1>16, <1>17, <1>18, <1>19, <1>20, <1>21, <1>22, <1>23, <1>24, <1>25
    DEF Next, Handlers, Environment

\* No timer and no request is started twice.
LEMMA SerialStep ==
  ASSUME TypeOK, RequestFits, IdleQuiet, NestedQuiet, ResetHolds, StateAble, RestsQuietly, Private, OnlyOwn,
         Dormant, Serial, Next
  PROVE  Serial'
PROOF
  <1>1. CASE HandleSetup
    BY <1>1
   
    DEF HandleSetup, Dispatch, HandleSettingsReceived, Same, CancelAll, res,
        CancelAllThen, Serial,
        Prem, RestsQuietly, InOrder
  <1>2. CASE HandleSettingsChanged
    BY <1>2
   
    DEF HandleSettingsChanged, Dispatch, started, HandleSettingsReceived, Same,
        CancelAll, res,
        CancelAllThen, Serial, Prem, RestsQuietly, InOrder
  <1>3. CASE ModemAnswers
    BY <1>3
   
    DEF ModemAnswers, started, Same, Enable, res, Activate, Serial, Prem, NestedQuiet,
        InOrder,
        Quiet
  <1>4. CASE HandleNWRegistrationStatusChanged
    BY <1>4
   
    DEF HandleNWRegistrationStatusChanged, Dispatch, started, HandleNetworkChanged,
        Enable, Same,
        DetachConnection, CancelAllEnable, Activate, res, CancelAllActivate, CancelAll,
        CancelAllThen, Serial, Prem, RestsQuietly, InOrder
  <1>5. CASE HandleError
    BY <1>5
    DEF HandleError, started, Serial, Prem
  <1>6. CASE ConnectionRuns
    BY <1>6
   
    DEF ConnectionRuns, settings, started, HandleOpeningLink,
        HandleListeningAccessPoint, machine,
        HandlePDPContextActivated, HandlePDPContextActivationFailed, SwitchFailed, StartRetryTimer,
        SwitchToUnconnected, UnconnectTimerDisabled, StartUnconnectTimer, Serial, Prem,
        PollsInOrder, RestsQuietly, InOrder
  <1>7. CASE HandleReactivation
    BY <1>7
   
    DEF HandleReactivation, settings, started, Activate, Same, res, Serial, Prem,
        PollsInOrder,
        RestsQuietly, InOrder
  <1>8. CASE HandleRetryTimer
    BY <1>8
   
    DEF HandleRetryTimer, started, Activate, Serial, Prem, PollsInOrder, RestsQuietly,
        InOrder
  <1>9. CASE HandleConnectionTimer
    BY <1>9
   
    DEF HandleConnectionTimer, settings, started, StopTimer, CancelAllThen,
        SwitchFailed,
        StartRetryTimer, SwitchToUnconnected, UnconnectTimerDisabled, StartUnconnectTimer, Serial,
        Prem, PollsInOrder, InOrder
  <1>10. CASE HandleUnconnectTimer
    BY <1>10
    DEF HandleUnconnectTimer, settings, started, HandleUnconnectTimerExpired, Activate,
        StartUnconnectTimer, Serial, Prem, PollsInOrder, RestsQuietly, InOrder
  <1>11. CASE HandleUsageChanged
    <2>1. "usage" \in scenario
      BY <1>11 DEF HandleUsageChanged, NotifiedOfUsage, Dormant
    <2>2. Prem /\ state = "Unconnected" => cfg.poll \/ (others = {} /\ ~Interface)
      BY <2>1
      DEF Prem, PollsInOrder, TypeOK, Private, Undisturbed, OwnsLink, OnlyOwn, Serial,
          Stops
    <2>3. Prem /\ state = "Unconnected" /\ ~cfg.poll => NumberOfConnections = 0
      BY <2>2, FS_EmptySet DEF NumberOfConnections
    <2> QED
      BY <1>11, <2>3
     
      DEF HandleUsageChanged, Stays, HandleUnconnectTimerExpired, machine, Same,
          Activate,
          StartUnconnectTimer, res, started, Serial, Prem, PollsInOrder, InOrder, RestsQuietly
  <1>12. CASE LingerTimer
    BY <1>12
    DEF LingerTimer, machine, started, settings, Serial, Prem, PollsInOrder, InOrder
  <1>13. CASE EventCreate
    BY <1>13
   
    DEF EventCreate, res, machine, started, settings, Serial, Prem, PollsInOrder,
        InOrder
  <1>14. CASE EventOpen
    BY <1>14
    DEF EventOpen, res, machine, started, settings, Serial, Prem, PollsInOrder, InOrder
  <1>15. CASE EventDelete
    BY <1>15
   
    DEF EventDelete, started, settings, Stays, HandleConnectionDeleted, machine, Same,
        Activate,
        CancelAll, CancelAllActivate, res, CancelAllThen, Serial, Prem, PollsInOrder, RestsQuietly,
        InOrder
  <1>16. CASE BearerKnown
    BY <1>16
   
    DEF BearerKnown, settings, started, HandleExternalConnectionCreated, Stays,
        CancelAll, Same,
        machine, CancelAllThen, res, Serial, Prem, PollsInOrder, InOrder
  <1>17. CASE PropertyChanged
    BY <1>17
   
    DEF PropertyChanged, settings, started, HandleResetFactorySettings, Stays, Same,
        CancelAll,
        Activate, machine, res, CancelAllThen, Serial, Prem, PollsInOrder, ResetHolds,
        RestsQuietly, InOrder
  <1>18. CASE Resubscribe
    BY <1>18
   
    DEF Resubscribe, res, machine, settings, started, Serial, Prem, PollsInOrder,
        InOrder
  <1>19. CASE ResetTool
    BY <1>19
   
    DEF ResetTool, outside, settings, machine, started, Serial, Prem, PollsInOrder,
        InOrder
  <1>20. CASE StartAnswers
    BY <1>20
   
    DEF StartAnswers, outside, settings, machine, started, Serial, Prem, PollsInOrder,
        InOrder
  <1>21. CASE LinkCloses
    BY <1>21
   
    DEF LinkCloses, outside, settings, machine, started, Serial, Prem, PollsInOrder,
        InOrder
  <1>22. CASE LinkDeleted
    BY <1>22
   
    DEF LinkDeleted, outside, settings, machine, started, Serial, Prem, PollsInOrder,
        InOrder
  <1>23. CASE OthersChange
    BY <1>23
   
    DEF OthersChange, outside, settings, machine, started, Serial, Prem, PollsInOrder,
        InOrder
  <1>24. CASE NetworkChanges
    BY <1>24
   
    DEF NetworkChanges, outside, settings, machine, started, Serial, Prem, PollsInOrder,
        InOrder
  <1>25. CASE UserSetsUsage
    BY <1>25
    DEF UserSetsUsage, outside, machine, started, Serial, Prem, PollsInOrder, InOrder
  <1> QED
    BY <1>1, <1>2, <1>3, <1>4, <1>5, <1>6, <1>7, <1>8, <1>9, <1>10, <1>11, <1>12, <1>13,
       <1>14, <1>15, <1>16, <1>17, <1>18, <1>19, <1>20, <1>21, <1>22, <1>23, <1>24, <1>25
    DEF Next, Handlers, Environment

LEMMA PrivateStep ==
  ASSUME PdpInv, Next
  PROVE  Private'
PROOF
  <1> SUFFICES ASSUME Undisturbed PROVE KeepsOn' /\ OwnsLink'
    <2>1. UNCHANGED scenario
      BY ScenarioStays
    <2> QED BY <2>1 DEF Private, Undisturbed
  <1>1. /\ "network" \notin scenario /\ "others" \notin scenario /\ "reset" \notin scenario
        /\ "modem" \notin scenario /\ "telephony" \notin scenario
    BY DEF Undisturbed
  <1>2. KeepsOn /\ OwnsLink
    BY DEF PdpInv, Private
  <1>3. state \in {"Waiting", "Unconnected", "Disconnected"} => req = "none"
    BY <1>1 DEF PdpInv, Serial, Prem, InOrder, PollsInOrder, Undisturbed
  <1> QED
    BY <1>1, <1>2, <1>3, KeepsStep, LinkStep DEF PdpInv

LEMMA InvInit == Init => PdpInv
PROOF
  <1> SUFFICES ASSUME Init PROVE PdpInv
    OBVIOUS
  <1>1. TypeOK
    <2>1. segment \in [interval: 0..MaxTimer, count: Nat] /\ attempts \in 0..(MaxAttempts - 1)
      BY ConstantsAssumption DEF Init
    <2>2. flags = {} /\ timers = {} /\ others = {} /\ events \in Seq(Event)
      BY DEF Init
    <2> QED
      BY <2>1, <2>2 DEF Init, TypeOK, States, InternalStates
  <1>2. OnlyOwn
    BY DEF Init, OnlyOwn, EventsOwn
  <1>3. Private
    BY DEF Init, Private, KeepsOn, OwnsLink, Trying, Interface
  <1> QED
    BY <1>1, <1>2, <1>3
   
    DEF Init, PdpInv, RequestFits, FailureReasons, StateAble, IdleQuiet, Quiet,
        RetryCut, Dormant,
        NestedQuiet, ResetHolds, RestsQuietly, Serial

LEMMA InvStep == PdpInv /\ [Next]_vars => PdpInv'
PROOF
  <1> SUFFICES ASSUME PdpInv, [Next]_vars PROVE PdpInv'
    OBVIOUS
  <1>1. CASE Next
    BY <1>1, TypeStep, AbleStep, RetryStep, OnlyOwnStep, ResetStep, RestStep, SerialStep, PrivateStep
    DEF PdpInv
  <1>2. CASE UNCHANGED vars
    BY <1>2
   
    DEF vars, res, machine, started, monitor, world, phone, settings, reset, PdpInv,
        TypeOK,
        RequestFits, StateAble, IdleQuiet, Quiet, RetryCut, Dormant, OnlyOwn, EventsOwn, NestedQuiet,
        ResetHolds, RestsQuietly, InOrder, Serial, Prem, PollsInOrder, Private, Undisturbed, KeepsOn,
        AlwaysOn, OwnsLink, Interface, Stops
  <1> QED BY <1>1, <1>2

LEMMA InvAlways == Spec => []PdpInv
PROOF BY InvInit, InvStep, PTL DEF Spec

-----------------------------------------------------------------------------
(* The properties *)

\* Every state of the machine has its type and what it waits for, whatever the
\* environment does, and no assertion of a timer or a request fails where the
\* handlers run in order.
THEOREM AlwaysAbleHolds == Spec => []AlwaysAble
PROOF
  <1>1. PdpInv => AlwaysAble
    BY DEF PdpInv, AlwaysAble, HasNextStep, StateAble, SurvivesAsserts, Serial, Prem
  <1> QED BY <1>1, InvAlways, PTL

\* A state that leaves the context to others holds no timer and no request, and
\* a timer runs only in the state that started it.
THEOREM RestsQuietlyHolds == Spec => []RestsQuietly
PROOF
  <1>1. PdpInv => RestsQuietly
    BY DEF PdpInv
  <1> QED BY <1>1, InvAlways, PTL

\* What has run of a retry, with the part that runs, is at most the setting, for
\* every interval and every limit of the timer.
THEOREM RetryInPartsHolds == Spec => []RetryInParts
PROOF
  <1>1. PdpInv => RetryInParts
    BY DEF PdpInv, RetryCut, RetryInParts
  <1> QED BY <1>1, InvAlways, PTL
=============================================================================
