---------------------------- MODULE PdpContext ----------------------------
(* The PDP context manager of the always-online plug-in: CAOServer with its *)
(* state objects (TAOState), the timers (CAOTimer), the connection          *)
(* (CAOConnectionImpl), the watchers of other connections, the network,    *)
(* the settings and the factory reset, and the linger of its own context.  *)
(*                                                                         *)
(* The plug-in is one thread.  A handler is one action; only the call that  *)
(* sets the modem's always-on mode runs a scheduler loop of its own, and    *)
(* ends in a later action (ModemAnswers).  The kernel, ESOCK, Connection    *)
(* Monitor, telephony, the user and the reset tool run between handlers.    *)
EXTENDS Naturals, Sequences, FiniteSets

CONSTANTS
  Externals,   \* connections of others over a bearer that competes for the context
  Wlans,       \* connections of others over another bearer
  None,        \* no connection
  Configs,     \* the settings the user chooses from
  Networks,    \* the registrations the phone can have: subset of home, roaming, none
  Usages,      \* the settings of cellular data usage
  MaxTimer,    \* KMaxTimerInSeconds
  MaxAttempts, \* KMaxAttempts
  Scenarios,   \* what the environment does in a behaviour: sets of the names below
  MaxEvents    \* bound: monitor events not yet delivered when the environment acts

Settings == [home: BOOLEAN, roaming: BOOLEAN, retry: Nat, poll: BOOLEAN,
             linger: {"off", "on", "forever"}]

\* Starts fail and links close, connections of others come and go, the registration, the data usage or other
\* settings change, a factory reset is run, telephony fails a request, and the
\* modem lets other handlers run before it answers.
Disturbances == {"link", "others", "network", "usage", "settings", "reset", "telephony", "modem"}

ASSUME ConstantsAssumption ==
  /\ Externals \cap Wlans = {} /\ "own" \notin Externals \cup Wlans
  /\ None \notin Externals \cup Wlans \cup {"own"}
  /\ Configs \subseteq Settings
  /\ Networks \subseteq {"home", "roaming", "none"}
  /\ Usages \subseteq {"Disabled", "Confirm", "Automatic"}
  /\ MaxTimer \in Nat \ {0} /\ MaxAttempts \in Nat \ {0} /\ MaxEvents \in Nat
  /\ Scenarios \subseteq SUBSET Disturbances

VARIABLES
  scenario,    \* what the environment does in this behaviour
  state,       \* iCurrentState
  flags,       \* iFlags of the Init state
  attempts,    \* iConnectionCounter of the Connecting state
  timers,      \* the timers that run
  segment,     \* iCurrentRetryTimerInterval and iRetryTimerCount
  reactivation,\* iAsyncReactivation is active
  skip,        \* iActivationFailure
  setup,       \* iAsyncSetup is active
  nested,      \* the settings handler that waits for the modem: none, Init, other
  fatal,       \* what panics the thread
  conn,        \* iState of CAOConnectionImpl
  req,         \* its request: none, waiting, or what it has completed with
  own,         \* the own context in ESOCK: none, opening, up, closing
  linger,      \* the CLingerConnection of the own context
  my,          \* iMyConnectionId
  alive,       \* iConnectionAlive
  bearer,      \* the connection whose bearer is being fetched
  others,      \* the connections of others
  events,      \* Connection Monitor's events, not yet delivered
  reg,         \* iWNReg
  fetch,       \* iNWRegistrationStatus is active
  network,     \* the registration the phone has
  cfg,         \* the settings CAOSettings has read
  usageNote,   \* the repository has completed the data usage notification
  usage,       \* the cellular data usage setting
  sub,         \* the subscription to the factory reset property
  prop,        \* the factory reset property
  tool         \* what the factory reset tool does

\* What a handler of the state machine moves (res), and what it does not.
res == <<timers, segment, conn, req, own, fatal>>
machine == <<state, flags, attempts, reactivation, skip, nested>>
monitor == <<my, alive, bearer>>
started == <<setup, scenario>>
world == <<others, events>>
phone == <<reg, fetch, network>>
settings == <<cfg, usageNote, usage>>
reset == <<sub, prop, tool>>
vars == <<res, machine, started, linger, monitor, world, phone, settings, reset>>

States == {"Init", "Disabled", "Connecting", "Connected", "Disconnected", "Waiting",
           "Unconnected", "ResetFactorySettings", "ExternalConnection"}
Timers == {"retry", "connection", "unconnect"}
InternalStates == {"EDisconnected", "EOpeningLink", "EListeningAccessPoint"}
FailureReasons == {"ETemporary", "EPermanent"}
Others == Externals \cup Wlans
Ids == {"own"} \cup Others
Event == [type: {"create", "open", "delete"}, id: Ids]
Linger == [status: {"stopped", "attached", "lingering"}, interval: {"off", "on", "forever"}]

TypeOK ==
  /\ scenario \in Scenarios
  /\ state \in States /\ flags \in SUBSET {"NWRegistration", "Settings"}
  /\ attempts \in 0..(MaxAttempts - 1) /\ timers \in SUBSET Timers
  /\ segment \in [interval: 0..MaxTimer, count: Nat]
  /\ reactivation \in BOOLEAN /\ skip \in BOOLEAN /\ setup \in BOOLEAN
  /\ nested \in {"none", "Init", "other"} /\ fatal \in {"none", "timer", "active"}
  /\ conn \in InternalStates
  /\ req \in {"none", "waiting", "progress", "open", "closed"} \cup FailureReasons
  /\ own \in {"none", "opening", "up", "closing"} /\ linger \in {None} \cup Linger
  /\ my \in {None} \cup Ids /\ alive \in BOOLEAN /\ bearer \in {None} \cup Ids
  /\ others \in SUBSET Others /\ events \in Seq(Event)
  /\ reg \in {"home", "roaming", "none"} /\ network \in Networks /\ fetch \in BOOLEAN
  /\ cfg \in Configs /\ usage \in Usages /\ usageNote \in BOOLEAN
  /\ sub \in {"waiting", "completed", "handled"}
  /\ prop \in {"Start", "StartReply", "Stop"} /\ tool \in {"idle", "asked", "resetting"}

Init ==
  /\ scenario \in Scenarios
  /\ state = "Init" /\ flags = {} /\ attempts = 0 /\ timers = {}
  /\ segment = [interval |-> 0, count |-> 0] /\ reactivation = FALSE /\ skip = TRUE
  /\ setup = TRUE /\ nested = "none" /\ fatal = "none"
  /\ conn = "EDisconnected" /\ req = "none" /\ own = "none" /\ linger = None
  /\ my = None /\ alive = FALSE /\ bearer = None /\ others = {} /\ events = <<>>
  /\ reg = "none" /\ network \in Networks /\ fetch = FALSE
  /\ cfg \in Configs /\ ~cfg.home /\ ~cfg.roaming /\ cfg.linger = "off"
  /\ usage \in Usages /\ usageNote = FALSE
  /\ sub = "waiting" /\ prop = "StartReply" /\ tool = "idle"

\* The thread waits for its next event, in its own loop or in the modem's.
Dispatch == fatal = "none" /\ sub # "handled" /\ ("modem" \in scenario \/ nested = "none")

-----------------------------------------------------------------------------
\* The network and the settings, as the handler that runs sees them.

EnableAlwaysOn == (reg' = "home" /\ cfg'.home) \/ (reg' = "roaming" /\ cfg'.roaming)
IsCellularAllowedByUser == usage # "Disabled" /\ ~(usage = "Confirm" /\ reg' = "roaming")
UnconnectTimerDisabled == ~IsCellularAllowedByUser \/ ~cfg'.poll

Interface == own \in {"opening", "up"}
IsConnectedToDefaultIAP == Interface
NumberOfConnections == Cardinality(others) + (IF Interface THEN 1 ELSE 0)

Smaller(a, b) == IF a < b THEN a ELSE b
Deleted(id) == [type |-> "delete", id |-> id]
Created(id) == [type |-> "create", id |-> id]
Opened == [type |-> "open", id |-> "own"]

-----------------------------------------------------------------------------
\* What a state object does to the timers and the connection.

Same == UNCHANGED res
StopTimer(t) == timers' = timers \ {t} /\ UNCHANGED <<segment, conn, req, own, fatal>>

\* The connection is a started one, so DoCancel stops its interface.
Stops == req \in {"waiting", "progress", "open"} /\ conn # "EDisconnected"
StopInterface == own' = IF Stops /\ Interface THEN "closing" ELSE own

\* Mutants of CancelAllThen: the timers go on; the connection timer is not
\* started again.
CancelConnectionOnly(ts) ==
  /\ timers' = timers \cup ts /\ req' = "none" /\ StopInterface
  /\ conn' = IF req = "none" THEN conn ELSE "EDisconnected"
  /\ UNCHANGED <<segment, fatal>>
CancelForGood(ts) ==
  /\ timers' = {} /\ req' = "none" /\ StopInterface
  /\ conn' = IF req = "none" THEN conn ELSE "EDisconnected"
  /\ UNCHANGED <<segment, fatal>>

\* CancelAll, after which the timers ts run.
CancelAllThen(ts) ==
  /\ timers' = ts /\ req' = "none" /\ StopInterface
  /\ conn' = IF req = "none" THEN conn ELSE "EDisconnected"
  /\ UNCHANGED <<segment, fatal>>
CancelAll == CancelAllThen({})

\* ActivateConnection: a start that the user does not allow fails at once.
ActivateConnection ==
  /\ conn' = "EOpeningLink"
  /\ req' = IF IsCellularAllowedByUser THEN "waiting" ELSE "EPermanent"

\* CancelAll and DoActivatePDPContextL.
CancelAllActivate ==
  /\ timers' = {"connection"} /\ ActivateConnection /\ StopInterface
  /\ UNCHANGED <<segment, fatal>>

\* DoActivatePDPContextL while the timers on run: a timer or a request that is
\* active already panics the thread.
Activate(on) ==
  /\ timers' = on \cup {"connection"} /\ ActivateConnection
  /\ fatal' = IF "connection" \in on THEN "timer" ELSE IF req # "none" THEN "active" ELSE fatal
  /\ UNCHANGED <<segment, own>>

\* Mutants: the parts of the last retry are counted on; the interval is not cut.
StartRetryTimerCounting(on) ==
  /\ timers' = on \cup {"retry"}
  /\ segment' = [segment EXCEPT !.interval = Smaller(cfg'.retry, MaxTimer)]
  /\ fatal' = IF "retry" \in on THEN "timer" ELSE fatal

\* StartRetryTimer and StartUnconnectTimer while the timers on run.
StartRetryTimer(on) ==
  /\ timers' = on \cup {"retry"}
  /\ segment' = [interval |-> Smaller(cfg'.retry, MaxTimer), count |-> 0]
  /\ fatal' = IF "retry" \in on THEN "timer" ELSE fatal
StartUnconnectTimer(on) ==
  /\ timers' = on \cup {"unconnect"}
  /\ fatal' = IF "unconnect" \in on \/ ~cfg'.poll THEN "timer" ELSE fatal
  /\ UNCHANGED segment

\* HandleEnableAlwaysOnL of the Starting state, which is never left standing.
Enable ==
  IF EnableAlwaysOn THEN state' = "Connecting" /\ Activate(timers)
                    ELSE state' = "Disabled" /\ Same
CancelAllEnable ==
  IF EnableAlwaysOn THEN state' = "Connecting" /\ CancelAllActivate
                    ELSE state' = "Disabled" /\ CancelAll

\* HandleSwitchFromDisconnectedL after a failure, the timers on running.
SwitchToUnconnected(on) ==
  /\ state' = "Unconnected"
  /\ IF UnconnectTimerDisabled THEN timers' = on /\ UNCHANGED <<segment, fatal>>
                               ELSE StartUnconnectTimer(on)
\* Mutant: the retry timer is not started.
SwitchFailedWithoutRetry(reason, on) ==
  IF reason = "ETemporary" /\ cfg'.retry # 0
  THEN state' = "Waiting" /\ timers' = on /\ UNCHANGED <<segment, fatal>>
  ELSE SwitchToUnconnected(on)
SwitchFailed(reason, on) ==
  IF reason = "ETemporary" /\ cfg'.retry # 0
  THEN state' = "Waiting" /\ StartRetryTimer(on)
  ELSE SwitchToUnconnected(on)

-----------------------------------------------------------------------------
\* Handlers of the state machine.  Each sets the machine and res.

\* What a handler of a state whose method returns NULL does.
Stays == UNCHANGED machine /\ Same

HandlePDPContextActivated ==
  /\ conn' = "EListeningAccessPoint" /\ req' = "waiting" /\ UNCHANGED <<own, segment, fatal>>
  /\ IF state = "Connecting" THEN state' = "Connected" /\ timers' = timers \ {"connection"}
                             ELSE UNCHANGED <<state, timers>>
  /\ UNCHANGED <<flags, attempts, reactivation, skip, nested>>

HandlePDPContextActivationFailed(reason) ==
  /\ conn' = "EDisconnected" /\ req' = "none" /\ UNCHANGED own
  /\ skip' = TRUE
  /\ IF state = "Connecting" THEN SwitchFailed(reason, timers \ {"connection"})
                             ELSE UNCHANGED <<state, timers, segment, fatal>>
  /\ UNCHANGED <<flags, attempts, reactivation, nested>>

\* HandlePDPContextDisconnectedL, and DoReactivation where the state changes.
HandlePDPContextDisconnected ==
  /\ IF state = "Connected" THEN state' = "Disconnected" /\ reactivation' = TRUE
                            ELSE UNCHANGED <<state, reactivation>>
  /\ UNCHANGED <<flags, attempts, skip, nested>>

\* CloseConnection: the interface is left to its other users.
DetachConnection ==
  timers' = {} /\ conn' = "EDisconnected" /\ req' = "none" /\ UNCHANGED <<segment, own, fatal>>

HandleNetworkChanged ==
  /\ UNCHANGED <<attempts, reactivation, skip, nested>>
  /\ \/ /\ state = "Init" /\ reg' # "none"
        /\ IF "Settings" \in flags THEN flags' = {} /\ Enable
                                   ELSE flags' = {"NWRegistration"} /\ UNCHANGED state /\ Same
     \/ state = "Disabled" /\ reg' # "none" /\ UNCHANGED flags /\ Enable
     \/ /\ \/ state \in {"Init", "Disabled"} /\ reg' = "none"
           \/ state \in {"ResetFactorySettings", "ExternalConnection"}
        /\ UNCHANGED <<state, flags>> /\ Same
     \/ /\ state = "Connected" /\ reg' # "none" /\ UNCHANGED flags
        /\ \/ EnableAlwaysOn /\ UNCHANGED state /\ Same
           \/ /\ ~EnableAlwaysOn /\ cfg'.linger = "on"
              /\ state' = "Disabled" /\ DetachConnection
           \/ ~EnableAlwaysOn /\ cfg'.linger # "on" /\ CancelAllEnable
     \/ /\ \/ state \in {"Connecting", "Disconnected", "Waiting", "Unconnected"}
           \/ state = "Connected" /\ reg' = "none"
        /\ UNCHANGED flags /\ CancelAllEnable

\* HandleSettingsReceivedL: the mode is set in a loop of its own, unless
\* another handler's loop runs, and then the handler goes on.
HandleSettingsReceived ==
  /\ UNCHANGED <<attempts, reactivation, skip>>
  /\ \/ /\ state \in {"ResetFactorySettings", "ExternalConnection"}
        /\ UNCHANGED <<state, flags, nested>> /\ Same
     \/ /\ state = "Init" /\ nested = "none"
        /\ nested' = "Init" /\ UNCHANGED <<state, flags>> /\ Same
     \/ /\ state = "Init" /\ nested # "none" /\ UNCHANGED nested
        /\ IF "NWRegistration" \in flags THEN flags' = {} /\ Enable
                                         ELSE flags' = {"Settings"} /\ UNCHANGED state /\ Same
     \/ /\ state \notin {"Init", "ResetFactorySettings", "ExternalConnection"} /\ nested = "none"
        /\ nested' = "other" /\ UNCHANGED <<state, flags>> /\ CancelAll
     \/ /\ state \notin {"Init", "ResetFactorySettings", "ExternalConnection"} /\ nested # "none"
        /\ UNCHANGED <<flags, nested>> /\ CancelAllEnable

HandleConnectionDeleted ==
  /\ UNCHANGED <<flags, attempts, nested>>
  /\ \/ skip /\ skip' = FALSE /\ UNCHANGED <<state, reactivation>> /\ Same
     \/ ~skip /\ reactivation /\ UNCHANGED <<state, reactivation, skip>> /\ Same
     \/ /\ ~skip /\ ~reactivation /\ UNCHANGED skip
        /\ \/ /\ state \in {"Init", "Disabled", "ResetFactorySettings"}
              /\ UNCHANGED <<state, reactivation>> /\ Same
           \/ /\ state = "ExternalConnection"
              /\ state' = "Connecting" /\ UNCHANGED reactivation /\ Activate(timers)
           \/ /\ state \notin {"Init", "Disabled", "ResetFactorySettings", "ExternalConnection"}
              /\ IsConnectedToDefaultIAP
              /\ UNCHANGED <<state, reactivation>> /\ Same
           \/ /\ state \in {"Connecting", "Connected"} /\ ~IsConnectedToDefaultIAP
              /\ state' = "Disconnected" /\ reactivation' = TRUE /\ CancelAll
           \/ /\ state \in {"Disconnected", "Waiting", "Unconnected"} /\ ~IsConnectedToDefaultIAP
              /\ state' = "Connecting" /\ UNCHANGED reactivation /\ CancelAllActivate

HandleExternalConnectionCreated ==
  /\ reactivation' = FALSE /\ UNCHANGED <<flags, attempts, skip, nested>>
  /\ IF state \in {"Connecting", "Connected", "Disconnected", "Waiting"}
     THEN state' = "ExternalConnection" /\ CancelAll
     ELSE UNCHANGED state /\ Same

\* HandleResetFactorySettingsL; start: the reset begins.
HandleResetFactorySettings(start) ==
  /\ UNCHANGED <<flags, attempts, reactivation, skip, nested>>
  /\ \/ /\ state = "ExternalConnection"
        /\ prop' = "StartReply" /\ UNCHANGED state /\ Same
     \/ /\ start /\ state \notin {"ExternalConnection", "ResetFactorySettings"}
        /\ prop' = "StartReply" /\ state' = "ResetFactorySettings" /\ CancelAll
     \/ start /\ state = "ResetFactorySettings" /\ UNCHANGED <<prop, state>> /\ Same
     \/ /\ ~start /\ state # "ExternalConnection"
        /\ UNCHANGED prop /\ state' = "Connecting" /\ Activate(timers)

\* HandleUnconnectTimerExpiredL, the timer stopped.
HandleUnconnectTimerExpired ==
  /\ UNCHANGED <<flags, attempts, reactivation, skip, nested>>
  /\ LET on == timers \ {"unconnect"} IN
     IF state = "Unconnected" /\ NumberOfConnections = 0
     THEN state' = "Connecting" /\ Activate(on)
     ELSE /\ UNCHANGED <<state, conn, req, own>>
          /\ IF state = "Unconnected" THEN StartUnconnectTimer(on)
                                      ELSE timers' = on /\ UNCHANGED <<segment, fatal>>

-----------------------------------------------------------------------------
\* The linger of the own context.

StopLinger == linger' = IF linger = None THEN None ELSE [linger EXCEPT !.status = "stopped"]

\* A linger that is not attached reads its interval and attaches to the context.
StartedLinger(l) ==
  IF l.status # "stopped" THEN l
  ELSE [interval |-> cfg'.linger,
        status |-> IF cfg'.linger # "off" /\ own = "up" THEN "attached" ELSE "stopped"]

LingerSettingsChanged(l) ==
  IF l.interval = cfg'.linger THEN l
  ELSE IF cfg'.linger = "off" THEN [interval |-> "off", status |-> "stopped"]
  ELSE IF l.status = "stopped" THEN StartedLinger(l)
  ELSE [interval |-> cfg'.linger, status |-> "attached"]

\* HandleSettingsChangedL of the connection manager.
LingerSettings ==
  IF EnableAlwaysOn \/ linger = None THEN StopLinger
  ELSE linger' = LingerSettingsChanged(linger)

\* The data or linger timer runs out, an idle linger stops the interface.
LingerTimer ==
  /\ Dispatch /\ linger # None
  /\ linger.status # "stopped" /\ linger.interval = "on"
  /\ \/ linger.status = "attached" /\ own = "up" /\ linger' = [linger EXCEPT !.status = "lingering"]
        /\ UNCHANGED <<own, req>>
     \/ /\ linger.status = "lingering" /\ own = "up" /\ linger' = [linger EXCEPT !.status = "stopped"]
        /\ own' = "closing"
        /\ req' = IF conn = "EListeningAccessPoint" /\ req = "waiting" THEN "closed" ELSE req
     \/ linger.status = "lingering" /\ linger' = [linger EXCEPT !.status = "attached"]
        /\ UNCHANGED <<own, req>>
  /\ UNCHANGED <<timers, segment, conn, fatal, machine, started, monitor, world, phone, settings, reset>>

-----------------------------------------------------------------------------
\* The events of the plug-in's thread.

\* The setup timer: the registration is asked for, and the settings are read
\* next, before any other handler.
HandleSetup ==
  /\ Dispatch /\ setup
  /\ setup' = FALSE /\ UNCHANGED scenario /\ fetch' = TRUE /\ cfg' \in Configs
  /\ UNCHANGED <<reg, network, usageNote, usage, monitor, world, reset>>
  /\ HandleSettingsReceived
  /\ IF nested' = nested THEN LingerSettings ELSE UNCHANGED linger

\* The user changes a setting, which is read in the next handler to run.
HandleSettingsChanged ==
  /\ "settings" \in scenario /\ Dispatch /\ cfg' \in Configs \ {cfg}
  /\ UNCHANGED <<phone, started, usageNote, usage, monitor, world, reset>>
  /\ HandleSettingsReceived
  /\ IF nested' = nested THEN LingerSettings ELSE UNCHANGED linger

\* The modem has set its mode: the handler that waited goes on, whatever the
\* handlers since have made of the state.
ModemAnswers ==
  /\ fatal = "none" /\ sub # "handled" /\ nested # "none" /\ nested' = "none"
  /\ UNCHANGED <<attempts, reactivation, skip, started, phone, settings, monitor, world, reset>>
  /\ IF nested = "Init" /\ "NWRegistration" \notin flags
     THEN flags' = {"Settings"} /\ UNCHANGED state /\ Same
     ELSE flags' = (IF nested = "Init" THEN {} ELSE flags) /\ Enable
  /\ LingerSettings

\* The registration that was asked for, or one that has changed.
HandleNWRegistrationStatusChanged ==
  /\ Dispatch /\ (fetch \/ reg # network)
  /\ reg' = network /\ fetch' = FALSE
  /\ UNCHANGED <<network, settings, started, monitor, world, reset>>
  /\ HandleNetworkChanged
  /\ IF EnableAlwaysOn \/ linger = None THEN StopLinger
     ELSE linger' = IF reg' = "none" THEN linger ELSE StartedLinger(linger)

\* Telephony fails one of the two requests.
HandleError ==
  /\ "telephony" \in scenario
  /\ Dispatch /\ \/ fetch /\ fetch' = FALSE
                 \/ UNCHANGED fetch
  /\ HandlePDPContextDisconnected /\ Same
  /\ UNCHANGED <<reg, network, settings, started, linger, monitor, world, reset>>

\* RunL of the connection: a start has gone on, succeeded or failed.
HandleOpeningLink ==
  \/ /\ req = "progress" /\ req' = "waiting"
     /\ UNCHANGED <<timers, segment, conn, own, fatal, machine>>
  \/ req = "open" /\ HandlePDPContextActivated
  \/ req \in FailureReasons /\ HandlePDPContextActivationFailed(req)

\* RunL of the connection: the context has ended.
HandleListeningAccessPoint ==
  /\ req = "closed" /\ conn' = "EDisconnected" /\ req' = "none"
  /\ UNCHANGED <<timers, segment, own, fatal>>
  /\ HandlePDPContextDisconnected

ConnectionRuns ==
  /\ Dispatch
  /\ UNCHANGED <<linger, monitor, world, phone, settings, started, reset>>
  /\ \/ HandleOpeningLink
     \/ HandleListeningAccessPoint

HandleReactivation ==
  /\ Dispatch /\ reactivation /\ reactivation' = FALSE
  /\ UNCHANGED <<linger, monitor, world, phone, settings, started, reset>>
  /\ IF state = "Disconnected" THEN state' = "Connecting" /\ Activate(timers)
                               ELSE UNCHANGED state /\ Same
  /\ UNCHANGED <<flags, attempts, skip, nested>>

\* HandleRetryTimerCallBackL: a long interval is run in parts.
HandleRetryTimer ==
  /\ Dispatch /\ "retry" \in timers
  /\ UNCHANGED <<linger, monitor, world, phone, settings, started, reset>>
  /\ LET ran == segment.interval + segment.count * MaxTimer IN
     IF cfg.retry # ran
     THEN /\ segment' = [interval |-> Smaller(cfg.retry - ran, MaxTimer), count |-> segment.count + 1]
          /\ UNCHANGED <<timers, conn, req, own, fatal, machine>>
     ELSE /\ UNCHANGED <<flags, attempts, reactivation, skip, nested>>
          /\ IF state = "Waiting" THEN state' = "Connecting" /\ Activate(timers \ {"retry"})
                                  ELSE UNCHANGED state /\ StopTimer("retry")

\* The fifth time a start takes too long it has failed; before that the start
\* is cancelled and the timer runs again.
HandleConnectionTimer ==
  /\ Dispatch /\ "connection" \in timers
  /\ UNCHANGED <<linger, monitor, world, phone, settings, started, reset>>
  /\ UNCHANGED <<flags, reactivation, skip, nested>>
  /\ \/ state # "Connecting" /\ UNCHANGED <<state, attempts>> /\ StopTimer("connection")
     \/ /\ state = "Connecting" /\ attempts + 1 < MaxAttempts
        /\ attempts' = attempts + 1 /\ UNCHANGED state /\ CancelAllThen({"connection"})
     \/ /\ state = "Connecting" /\ attempts + 1 = MaxAttempts
        /\ attempts' = 0 /\ SwitchFailed("ETemporary", {})
        /\ req' = "none" /\ conn' = (IF req = "none" THEN conn ELSE "EDisconnected") /\ StopInterface

HandleUnconnectTimer ==
  /\ Dispatch /\ "unconnect" \in timers
  /\ UNCHANGED <<linger, monitor, world, phone, settings, started, reset>>
  /\ HandleUnconnectTimerExpired

\* CurrentCellularDataUsageChangedL, with the value the setting now has.
NotifiedOfUsage == Dispatch /\ usageNote /\ usageNote' = FALSE
HandleUsageChanged ==
  /\ NotifiedOfUsage
  /\ UNCHANGED <<cfg, usage, linger, monitor, world, phone, started, reset>>
  /\ IF usage = "Disabled" \/ state = "Disabled" THEN Stays ELSE HandleUnconnectTimerExpired

-----------------------------------------------------------------------------
\* Connection Monitor's events (EventL, BearerRunL).

\* The delete event of the connection is in the queue: it has gone.
Gone(id) == \E i \in 2..Len(events): events[i] = Deleted(id)

Take(type) == events # <<>> /\ events[1].type = type /\ events' = Tail(events) /\ UNCHANGED others

EventCreate ==
  /\ Dispatch /\ Take("create")
  /\ LET id == events[1].id IN
     IF alive THEN UNCHANGED monitor
     ELSE /\ my' = id /\ UNCHANGED alive
          /\ bearer' = IF bearer = None /\ (id # "own" \/ Gone(id)) THEN id ELSE bearer
  /\ UNCHANGED <<res, machine, started, linger, phone, settings, reset>>

\* The link of the own context is open: a new linger, that starts at once
\* where the context is not kept on.
EventOpen ==
  /\ Dispatch /\ Take("open")
  /\ UNCHANGED <<res, machine, started, monitor, phone, settings, reset>>
  /\ LET new == [status |-> "stopped", interval |-> "off"] IN
     linger' = IF Gone("own") THEN linger ELSE IF EnableAlwaysOn THEN new ELSE StartedLinger(new)

\* Only the connection that was created last is told of to the state machine.
EventDelete ==
  /\ Dispatch /\ Take("delete")
  /\ UNCHANGED <<started, my, phone, settings, reset>>
  /\ LET id == events[1].id IN
     /\ linger' = IF id = "own" THEN None ELSE linger
     /\ \/ id # my /\ UNCHANGED <<alive, bearer>> /\ Stays
        \/ id = my /\ alive' = FALSE /\ bearer' = None /\ HandleConnectionDeleted

\* BearerRunL: a connection that has gone meanwhile has no bearer.
BearerKnown ==
  /\ Dispatch /\ bearer # None /\ bearer' = None
  /\ UNCHANGED <<my, linger, world, phone, settings, started, reset>>
  /\ \/ bearer \in Externals /\ alive' = TRUE /\ HandleExternalConnectionCreated
     \/ bearer \notin others /\ UNCHANGED alive /\ Stays
     \/ bearer \in Wlans /\ UNCHANGED alive /\ Stays

-----------------------------------------------------------------------------
\* The factory reset property: the handler reads it, and subscribes again when
\* it has done; a write in between is not told of.
PropertyChanged ==
  /\ Dispatch /\ sub = "completed" /\ sub' = "handled"
  /\ UNCHANGED <<tool, linger, world, monitor, phone, settings, started>>
  /\ IF prop \in {"Start", "Stop"} THEN HandleResetFactorySettings(prop = "Start")
                                   ELSE UNCHANGED prop /\ Stays

Resubscribe ==
  /\ fatal = "none" /\ sub = "handled" /\ sub' = "waiting"
  /\ UNCHANGED <<res, machine, linger, world, monitor, phone, settings, started, prop, tool>>

-----------------------------------------------------------------------------
\* The environment.

outside == <<timers, segment, conn, fatal, machine, started, linger, monitor>>
Told == IF sub = "waiting" THEN "completed" ELSE sub

\* The factory reset tool waits for the answer, resets, and says when it is done.
ToolAsks == "reset" \in scenario /\ tool = "idle" /\ tool' = "asked" /\ prop' = "Start" /\ sub' = Told
ToolResets == tool = "asked" /\ prop = "StartReply" /\ tool' = "resetting" /\ UNCHANGED <<prop, sub>>
ToolStops == tool = "resetting" /\ tool' = "idle" /\ prop' = "Stop" /\ sub' = Told
ResetTool ==
  /\ ToolAsks \/ ToolResets \/ ToolStops
  /\ UNCHANGED <<outside, req, own, world, phone, settings>>

\* ESOCK and the network answer a start.
StartAnswers ==
  /\ req = "waiting" /\ conn = "EOpeningLink" /\ own # "closing" /\ Len(events) < MaxEvents
  /\ \/ own = "none" /\ own' = "up" /\ req' = "open"
        /\ events' = events \o <<Created("own"), Opened>>
     \/ "link" \in scenario /\ own = "none" /\ own' = "opening" /\ req' = "progress" /\ events' = Append(events, Created("own"))
     \/ own = "opening" /\ own' = "up" /\ req' = "open" /\ events' = Append(events, Opened)
     \/ own = "up" /\ req' = "open" /\ UNCHANGED <<own, events>>
     \/ /\ "link" \in scenario /\ own = "none" /\ UNCHANGED own
        /\ req' \in FailureReasons
        /\ events' \in {events, events \o <<Created("own"), Deleted("own")>>}
  /\ UNCHANGED <<outside, others, phone, settings, reset>>

\* The network ends the context, or its last user has left it; an error of a
\* link that is opening is lost on the way and counts as a permanent one.
LinkCloses ==
  /\ "link" \in scenario /\ Interface /\ own' = "closing"
  /\ req' = IF req = "none" THEN req
            ELSE CASE conn = "EListeningAccessPoint" -> "closed"
                   [] conn = "EOpeningLink" /\ (own = "opening" \/ req = "open") -> "EPermanent"
                   [] OTHER -> req
  /\ UNCHANGED <<outside, world, phone, settings, reset>>

\* Connection Monitor sees that the interface has gone.
LinkDeleted ==
  /\ own = "closing" /\ own' = "none" /\ events' = Append(events, Deleted("own"))
  /\ UNCHANGED <<outside, req, others, phone, settings, reset>>

OthersChange ==
  /\ "others" \in scenario
  /\ Len(events) < MaxEvents
  /\ \E id \in Others:
       \/ id \notin others /\ others' = others \cup {id} /\ events' = Append(events, Created(id))
       \/ id \in others /\ others' = others \ {id} /\ events' = Append(events, Deleted(id))
  /\ UNCHANGED <<outside, req, own, phone, settings, reset>>

NetworkChanges ==
  /\ "network" \in scenario
  /\ network' \in Networks \ {network}
  /\ UNCHANGED <<outside, req, own, world, reg, fetch, settings, reset>>

UserSetsUsage ==
  /\ "usage" \in scenario
  /\ usage' \in Usages \ {usage} /\ usageNote' = TRUE
  /\ UNCHANGED <<outside, req, own, world, phone, cfg, reset>>

Handlers ==
  \/ HandleSetup \/ HandleSettingsChanged \/ ModemAnswers \/ HandleNWRegistrationStatusChanged
  \/ HandleError \/ ConnectionRuns \/ HandleReactivation \/ HandleRetryTimer \/ HandleConnectionTimer
  \/ HandleUnconnectTimer \/ HandleUsageChanged \/ LingerTimer
  \/ EventCreate \/ EventOpen \/ EventDelete \/ BearerKnown \/ PropertyChanged \/ Resubscribe
Environment ==
  \/ ResetTool \/ StartAnswers \/ LinkCloses \/ LinkDeleted \/ OthersChange \/ NetworkChanges
  \/ UserSetsUsage
Next == Handlers \/ Environment
Spec == Init /\ [][Next]_vars

\* A timer that has run out and a request that has completed are served in
\* turn, though other handlers come in between; the modem answers.
Fairness ==
  /\ SF_vars(HandleReactivation) /\ SF_vars(HandleRetryTimer)
  /\ SF_vars(HandleConnectionTimer)
  /\ SF_vars(ModemAnswers) /\ WF_vars(Resubscribe)
FairSpec == Spec /\ Fairness

-----------------------------------------------------------------------------
\* Safety

\* No state waits for nothing, whatever the environment does: Connecting has the
\* connection timer, Waiting the retry timer, Disconnected the reactivation,
\* Connected a request that tells of the end of the context.  While the modem is
\* awaited the handler that waits has stopped them and goes on itself (taostate.cpp
\* DoActivatePDPContextL, taostatedisconnected.cpp HandleSwitchFromDisconnectedL,
\* caoserver.cpp DoReactivation).
HasNextStep ==
  fatal = "none" /\ nested = "none" =>
    /\ state = "Connecting" => "connection" \in timers
    /\ state = "Waiting" => "retry" \in timers
    /\ state = "Disconnected" => reactivation
    /\ state = "Connected" => req # "none"

\* A handler that runs inside another one's loop, and a reset that another
\* connection lets begin, leave the state machine's order.
InOrder == "modem" \notin scenario /\ ~({"others", "reset"} \subseteq scenario)

\* The states that leave the context to others hold no timer and no request that
\* would start it again, and a timer runs only in the state that started it
\* (taostate.cpp CancelAll, taostateconnected.cpp HandleNetworkChangedL).
RestsQuietly ==
  InOrder =>
    /\ state \in {"Init", "Disabled", "ResetFactorySettings", "ExternalConnection"} =>
         timers = {} /\ req = "none"
    /\ fatal = "none" =>
         timers \subseteq CASE state = "Waiting" -> {"retry"} [] state = "Connecting" -> {"connection"}
                            [] state = "Unconnected" -> {"unconnect"} [] OTHER -> {}

\* However long the retry interval, its parts never overrun it: what has run,
\* with the part that runs, is at most the setting (caotimer.cpp
\* HandleRetryTimerCallBackL).
RetryInParts ==
  "retry" \in timers => segment.count * MaxTimer + segment.interval <= cfg.retry /\ segment.interval > 0

\* A poll is started though polling is off, when the setting of data usage changes
\* while the context lives on unconnected or other connections do.
PollsInOrder ==
  "usage" \in scenario =>
    (\A c \in Configs: c.poll) \/ scenario \subseteq {"usage", "link", "settings"}

\* No timer and no request is started while it is active, which panics the thread,
\* though connections come and go while the network and the settings change, or
\* in a reset (the assertions of caotimer.cpp and caoconnectionimpl.cpp).
SurvivesAsserts ==
  (InOrder /\ "telephony" \notin scenario /\ PollsInOrder) => fatal = "none"

\* Every state has its type and its next step, and no assertion fails.
AlwaysAble == TypeOK /\ HasNextStep /\ SurvivesAsserts

-----------------------------------------------------------------------------
\* Liveness

\* A state that only waits is left: a disconnected context is started again and a
\* retry comes, and a start succeeds, fails or is given up, or the thread has
\* panicked (caotimer.cpp, caoserver.cpp HandleReactivationL,
\* taostateconnecting.cpp HandleConnectionTimerTriggeredL).
Waits == state \in {"Disconnected", "Waiting"}
WaitingEnds == Waits ~> ~Waits \/ fatal # "none"
ConnectingEnds == state = "Connecting" ~> state # "Connecting" \/ fatal # "none"
=============================================================================
