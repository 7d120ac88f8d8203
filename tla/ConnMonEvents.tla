----------------------------- MODULE ConnMonEvents -----------------------------
(***************************************************************************)
(* The Connection Monitor server's event path: the queue of events, the    *)
(* sessions that listen to them, the thresholds they are filtered with,    *)
(* the requests the server keeps armed in RConnection for the amount of    *)
(* data transferred, and the plug-in of the extension that it tells        *)
(* whether availability events are wanted.                                 *)
(*                                                                         *)
(* One server thread runs everything: every action is one message served   *)
(* or one active object run.                                               *)
(***************************************************************************)
EXTENDS Integers, Sequences, FiniteSets

CONSTANTS
  Sessions,      \* the clients
  Connections,   \* the internal connections; each is opened and closed once
  Kinds,         \* the connection thresholds the clients use
  Flags,         \* the bearer thresholds the clients use
  FlagValues,    \* the values they set them to: any number is allowed
  EventTypes,    \* the events without data that notifiers and plug-ins add
  QueueSize,     \* KEventQueueSize
  Thresholds,    \* the values the clients set a connection threshold to
  Amounts,       \* the data volumes RConnection reports
  Minimum(_, _), \* the smallest threshold allowed on a connection
  MaxTime        \* bound: the events that are added

DataKinds == {"downlink", "uplink"}
FlagNames == {"availability", "signal", "group"}
TypeNames == {"created", "availability", "signal", "activity",
              "bearer", "bearerInfo", "bearerGroup"}

ASSUME SessionsAssumption == IsFiniteSet(Sessions)
ASSUME SizeAssumption == QueueSize \in Nat \ {0}
ASSUME NamesAssumption ==
  /\ Kinds \subseteq DataKinds \cup {"activity"}
  /\ Flags \subseteq FlagNames
  /\ EventTypes \subseteq TypeNames
ASSUME ValuesAssumption ==
  /\ Thresholds \subseteq Nat
  /\ Amounts \subseteq Nat
  /\ FlagValues \subseteq Nat
  /\ \A c \in Connections, k \in Kinds : Minimum(c, k) \in Nat \ {0}
  /\ MaxTime \in Nat

VARIABLES
  time,       \* the queue's iLastEventTime, in steps of one microsecond
  iEvents,    \* the queue: a set of events; they are in the order of their times
  lost,       \* the times of the events freed because the queue was full
  open,       \* the sessions that exist
  listening,  \* the sessions with iListening
  receiving,  \* the sessions with iReceiveActive
  last,       \* each session's iLastEventTime
  given,      \* the time of the last event each session was sent since it listens
  threshold,  \* each session's iConnParams: its threshold of a kind
  flag,       \* each session's bearer thresholds
  since,      \* the time at which each session began to listen
  left,       \* the sessions that listen though their ListenL has left
  untold,     \* whether availability events are wanted was last changed by a session
              \*   that no plug-in heard of, or whose threshold is neither 0 nor 1
  early,      \* the sessions that listen with a threshold that nothing is armed for
  conn,       \* each connection's state
  noti,       \* the connections that have their data notifiers
  armed,      \* the threshold a data notifier asked for; Idle; Silent
  plugin      \* the plug-in of the extension

queueVars == <<time, iEvents, lost>>
sessionVars == <<open, listening, receiving, last, given>>
connVars == <<conn, noti, armed>>
ghosts == <<since, left, untold, early>>
vars == <<queueVars, sessionVars, threshold, flag, ghosts, connVars, plugin>>

Idle == 0
Silent == -1  \* iStatus is KErrCancel: Receive returns at once

Infos == [type : TypeNames \cup DataKinds, conn : Connections \cup {"none"}, data : Nat]
Plugins == [registered : BOOLEAN, asking : BOOLEAN, on : BOOLEAN, requests : Seq(BOOLEAN)]
NoPlugin == [registered |-> FALSE, asking |-> FALSE, on |-> FALSE, requests |-> <<>>]

EventOf(type) == [type |-> type, conn |-> "none", data |-> 0]
ConnEvent(type, c, data) == [type |-> type, conn |-> c, data |-> data]

Newest(es) == CHOOSE e \in es : \A f \in es : e.time >= f.time
Oldest(es) == CHOOSE e \in es : \A f \in es : e.time <= f.time
Smallest(ns) == CHOOSE n \in ns : \A m \in ns : n <= m
Greater(m, n) == IF m > n THEN m ELSE n

-----------------------------------------------------------------------------
(* Thresholds *)

\* CalculateThreshold: the smallest one that any session has set, listening or
\* not; 0 when none has.
Global(th, c, k) ==
  LET set == {th[s][c][k] : s \in open} \ {0}
  IN  IF set = {} THEN 0 ELSE Smallest(set)

\* CalculateThreshold of the bearer availability: some session that listens
\* has set it.
Wanted(ls, fl) == \E s \in ls : fl[s]["availability"] # 0

\* A threshold is served in steps of the smallest one: the multiple of it that
\* is nearest to the session's own.
Adjusted(own, smallest) ==
  LET modulo == IF smallest > 0 THEN own % smallest ELSE 0
  IN  CASE modulo = 0 -> own
        [] modulo # 0 /\ modulo < smallest \div 2 -> own - modulo
        [] OTHER -> own + smallest - modulo

\* The reported volume, rounded to a multiple of the smallest threshold.
Rounded(data, smallest) ==
  LET whole == smallest * (data \div smallest)
  IN  IF data % smallest > smallest \div 2 THEN whole + smallest ELSE whole

\* The filter for the amounts of data in SendEventToClient.
DataPasses(data, own, smallest) ==
  LET adjusted == Adjusted(own, smallest)
  IN  /\ adjusted > 0
      /\ smallest > 0
      /\ Rounded(data, smallest) % adjusted = 0

\* SendEventToClient's filters.
Passes(s, info) ==
  CASE info.type \in DataKinds ->
         DataPasses(info.data, threshold[s][info.conn][info.type],
                    Global(threshold, info.conn, info.type))
    [] info.type = "activity" ->
         info.conn # "none" /\ threshold[s][info.conn]["activity"] # 0
    [] info.type = "availability" -> flag[s]["availability"] # 0
    [] info.type = "signal" -> flag[s]["signal"] # 0
    [] info.type \in {"bearerInfo", "bearerGroup"} -> flag[s]["group"] # 0
    [] info.type = "bearer" -> flag[s]["group"] = 0
    [] OTHER -> TRUE

-----------------------------------------------------------------------------
(* The queue *)

\* FreeEvent on the oldest event when no slot is free.
Evicted == IF Cardinality(iEvents) >= QueueSize THEN {Oldest(iEvents)} ELSE {}

AllOfferedSome == receiving # {}

\* The event is freed at once when as many sessions were offered it as listen.
AllOffered == Cardinality(receiving) = Cardinality(listening)

\* CEventQueue::Add: every session that waits is offered the event, and has
\* seen it whether its filter lets it through or not.
Add(info) ==
  LET e == [time |-> time + 1, info |-> info]
      taking == {s \in receiving : Passes(s, info)}
  IN  /\ time < MaxTime
      /\ time' = time + 1
      /\ lost' = lost \cup {f.time : f \in Evicted}
      /\ iEvents' = (iEvents \ Evicted) \cup (IF AllOffered THEN {} ELSE {e})
      /\ last' = [s \in Sessions |-> IF s \in receiving THEN time + 1 ELSE last[s]]
      /\ given' = [s \in Sessions |-> IF s \in taking THEN time + 1 ELSE given[s]]
      /\ receiving' = receiving \ taking
      /\ UNCHANGED <<open, listening>>

CheckEventsNone(s, seen) ==
  /\ last' = [last EXCEPT ![s] = seen]
  /\ receiving' = receiving \cup {s}
  /\ UNCHANGED given

\* CEventQueue::CheckEvents: the events the session has not seen are offered
\* in their order, up to the first one its filter lets through.
CheckEvents(s, seen) ==
  LET newer == {e \in iEvents : e.time > seen}
      passing == {e \in newer : Passes(s, e.info)}
      e == Oldest(passing)
  IN  IF passing # {}
      THEN /\ last' = [last EXCEPT ![s] = e.time]
           /\ given' = [given EXCEPT ![s] = e.time]
           /\ receiving' = receiving \ {s}
      ELSE /\ last' = [last EXCEPT ![s] = IF newer = {} THEN seen
                                          ELSE Newest(newer).time]
           /\ receiving' = receiving \cup {s}
           /\ UNCHANGED given

-----------------------------------------------------------------------------
(* The plug-in *)

\* SetPluginThreshold and CPlugin::SetAttributeForClient: when the global
\* threshold changes the plug-in's outstanding query is answered, or the
\* request waits for the next one.
Ask(on) ==
  CASE ~plugin.registered -> plugin
    [] plugin.registered /\ plugin.asking -> [plugin EXCEPT !.asking = FALSE, !.on = on]
    [] OTHER -> [plugin EXCEPT !.requests = Append(@, on)]

TellPluginOn(before, after, value) == IF after /\ ~before THEN Ask(value = 1) ELSE plugin

\* SetPluginThreshold: a session's threshold becomes value. The plug-in is told
\* when that changes whether the events are wanted; a value of 1 tells it to
\* send them, and any other one not to.
TellPlugin(before, after, value) == IF before # after THEN Ask(value = 1) ELSE plugin

\* What is wanted changes by a session that did, or did not, tell the plug-in so.
NoteUntold(before, after, told) == untold' = IF before # after THEN ~told ELSE untold

\* A plug-in registers the availability threshold and is told at once when
\* some session wants the events already.
PluginRegister ==
  /\ ~plugin.registered
  /\ plugin' = CASE ~Wanted(listening, flag) -> [plugin EXCEPT !.registered = TRUE]
                 [] Wanted(listening, flag) /\ plugin.asking ->
                      [plugin EXCEPT !.registered = TRUE, !.asking = FALSE, !.on = TRUE]
                 [] OTHER -> [plugin EXCEPT !.registered = TRUE, !.requests = <<TRUE>>]
  /\ untold' = FALSE
  /\ UNCHANGED <<queueVars, sessionVars, threshold, flag, since, left, early, connVars>>

\* The plug-in's query: the request that waits longest, or it waits itself.
PluginGetQuery ==
  /\ ~plugin.asking
  /\ plugin' = IF plugin.requests = <<>>
               THEN [plugin EXCEPT !.asking = TRUE]
               ELSE [plugin EXCEPT !.on = Head(plugin.requests), !.requests = Tail(@)]
  /\ UNCHANGED <<queueVars, sessionVars, threshold, flag, ghosts, connVars>>

PluginCloses ==
  /\ plugin # NoPlugin
  /\ plugin' = NoPlugin
  /\ UNCHANGED <<queueVars, sessionVars, threshold, flag, ghosts, connVars>>

-----------------------------------------------------------------------------
(* The data notifiers *)

ReceiveOwn(request, th, c, k) == IF request = Idle THEN 0 ELSE request

\* CDataNotifier::Receive: not after a cancelled request, not while active,
\* and only when some session has a threshold.
Receive(request, th, c, k) == IF request = Idle THEN Global(th, c, k) ELSE request

\* The requests after Receive of the notifiers of the connections cs.
Woken(cs, th) ==
  [c \in Connections |-> [k \in DataKinds |->
     IF c \in cs THEN Receive(armed[c][k], th, c, k) ELSE armed[c][k]]]
Unarmed == [c \in Connections |-> [k \in DataKinds |-> Idle]]

Up == {c \in Connections : conn[c] = "up"}

\* The amount of data that was asked for has gone through: the event is added
\* and the next request is made with the smallest threshold of this moment.
DataTransferred(c, k, amount) ==
  /\ armed[c][k] > 0
  /\ amount >= armed[c][k]
  /\ Add(ConnEvent(k, c, amount))
  /\ armed' = [armed EXCEPT ![c][k] = Global(threshold, c, k)]
  /\ UNCHANGED <<threshold, flag, ghosts, conn, noti, plugin>>

\* The request ends with KErrCancel because the interface closes.
DataCancelled(c, k) ==
  /\ armed[c][k] > 0
  /\ armed' = [armed EXCEPT ![c][k] = Silent]
  /\ UNCHANGED <<queueVars, sessionVars, threshold, flag, ghosts, conn, noti, plugin>>

\* The request fails otherwise and is made again; after
\* KConnMonEventErrorThreshold failures in a row it is not, which is left out.
DataFails(c, k) ==
  /\ armed[c][k] > 0
  /\ armed' = [armed EXCEPT ![c][k] = Global(threshold, c, k)]
  /\ UNCHANGED <<queueVars, sessionVars, threshold, flag, ghosts, conn, noti, plugin>>

-----------------------------------------------------------------------------
(* The sessions *)

NoThresholds == [c \in Connections |-> [k \in DataKinds \cup {"activity"} |-> 0]]
NoFlags == [f \in FlagNames |-> 0]

\* CConnMonSession::ConstructL.
OpenSession(s) ==
  /\ s \notin open
  /\ open' = open \cup {s}
  /\ last' = [last EXCEPT ![s] = time]
  /\ UNCHANGED <<queueVars, listening, receiving, given, threshold, flag, ghosts,
                 connVars, plugin>>

\* Nothing is armed for a threshold that the session brings along.
NoteEarly(s) ==
  early' = IF \E c \in noti, k \in DataKinds : armed[c][k] = Idle /\ threshold[s][c][k] > 0
           THEN early \cup {s}
           ELSE early \ {s}

\* A request for an event of a session that listens.
ReceiveEvent(s) ==
  /\ s \in listening \ receiving
  /\ CheckEvents(s, last[s])
  /\ UNCHANGED <<queueVars, open, listening, threshold, flag, ghosts, connVars, plugin>>

FromBefore(s) == last[s]

\* "Want events from now on..."
FromNowOn(s) == time

\* The session's first request: the connections' notifiers are created when
\* they are not there, and only then started. Events from now on are sent.
StartListening(s) ==
  /\ s \in open \ listening
  /\ listening' = listening \cup {s}
  /\ noti' = noti \cup Up
  /\ armed' = Woken(Up \ noti, threshold)
  /\ CheckEvents(s, FromNowOn(s))
  /\ plugin' = IF flag[s]["availability"] = 1
               THEN TellPlugin(Wanted(listening, flag), TRUE, 1)
               ELSE plugin
  /\ since' = [since EXCEPT ![s] = time]
  /\ NoteUntold(Wanted(listening, flag), Wanted(listening', flag), flag[s]["availability"] = 1)
  /\ NoteEarly(s)
  /\ UNCHANGED <<queueVars, open, threshold, flag, left, conn>>

\* The same when ListenL leaves before it comes to the connections: the
\* request fails, and the session counts as one that listens.
ListenLeaves(s) ==
  /\ s \in open \ listening
  /\ listening' = listening \cup {s}
  /\ since' = [since EXCEPT ![s] = time]
  /\ left' = left \cup {s}
  /\ NoteUntold(Wanted(listening, flag), Wanted(listening', flag), FALSE)
  /\ NoteEarly(s)
  /\ UNCHANGED <<queueVars, open, receiving, last, given, threshold, flag, connVars,
                 plugin>>

NotWaitingForgotten(s) == receiving

\* The session waits no longer: its request is completed.
NotWaiting(s) == receiving \ {s}

\* CancelReceiveEvent: the last session that listens takes the notifiers with it.
\* A session tells the plug-in that it goes if its threshold is 1.
StopListening(s) ==
  /\ receiving' = NotWaiting(s)
  /\ listening' = listening \ {s}
  /\ plugin' = IF flag[s]["availability"] = 1
               THEN TellPlugin(Wanted(listening, flag), Wanted(listening \ {s}, flag), 0)
               ELSE plugin
  /\ NoteUntold(Wanted(listening, flag), Wanted(listening \ {s}, flag),
                flag[s]["availability"] = 1)
  /\ noti' = IF listening = {s} THEN {} ELSE noti
  /\ armed' = IF listening = {s} THEN Unarmed ELSE armed
  /\ given' = [given EXCEPT ![s] = 0]
  /\ since' = [since EXCEPT ![s] = 0]
  /\ left' = left \ {s}
  /\ early' = early \ {s}

CancelReceive(s) ==
  /\ s \in listening
  /\ StopListening(s)
  /\ UNCHANGED <<queueVars, open, last, threshold, flag, conn>>

\* ~CConnMonSession.
CloseSession(s) ==
  /\ s \in open
  /\ StopListening(s)
  /\ open' = open \ {s}
  /\ threshold' = [threshold EXCEPT ![s] = NoThresholds]
  /\ flag' = [flag EXCEPT ![s] = NoFlags]
  /\ UNCHANGED <<queueVars, last, conn>>

\* AdjustThresholdToAllowedRange.
Allowed(c, k, value) == IF value = 0 THEN 0 ELSE Greater(value, Minimum(c, k))

\* SetUintAttributeL of a connection's threshold and SetConnectionSettings:
\* the connection's notifiers are woken when the session listens.
SetThreshold(s, c, k, value) ==
  LET th == [threshold EXCEPT ![s][c][k] = Allowed(c, k, value)]
  IN  /\ s \in open
      /\ conn[c] = "up"
      /\ threshold' = th
      /\ armed' = IF s \in listening /\ c \in noti THEN Woken({c}, th) ELSE armed
      /\ UNCHANGED <<queueVars, sessionVars, flag, ghosts, conn, noti, plugin>>

\* SetUintAttributeL of a bearer threshold. No value is refused or adjusted.
SetFlag(s, f, value) ==
  LET fl == [flag EXCEPT ![s][f] = value]
  IN  /\ s \in open
      /\ flag' = fl
      /\ plugin' = IF f = "availability"
                   THEN TellPlugin(Wanted(listening, flag), Wanted(listening, fl), value)
                   ELSE plugin
      /\ NoteUntold(Wanted(listening, flag), Wanted(listening, fl), value \in {0, 1})
      /\ UNCHANGED <<queueVars, sessionVars, threshold, since, left, early, connVars>>

-----------------------------------------------------------------------------
(* Events and connections *)

\* A notifier or a plug-in adds an event that carries no amount.
AddEvent(type) ==
  /\ \/ type # "activity" /\ Add(EventOf(type))
     \/ type = "activity" /\ \E c \in Up : Add(ConnEvent(type, c, 0))
  /\ UNCHANGED <<threshold, flag, ghosts, connVars, plugin>>

\* AddConnectionL: a connection enters the table with its link open.
ConnectionOpens(c) ==
  /\ conn[c] = "new"
  /\ conn' = [conn EXCEPT ![c] = "up"]
  /\ noti' = IF listening # {} THEN noti \cup {c} ELSE noti
  /\ armed' = IF listening # {} THEN Woken({c}, threshold) ELSE armed
  /\ UNCHANGED <<queueVars, sessionVars, threshold, flag, ghosts, plugin>>

\* RemoveConnection: its notifiers go and the sessions' settings for it.
ConnectionCloses(c) ==
  /\ conn[c] = "up"
  /\ conn' = [conn EXCEPT ![c] = "gone"]
  /\ noti' = noti \ {c}
  /\ armed' = [armed EXCEPT ![c] = [k \in DataKinds |-> Idle]]
  /\ threshold' = [s \in Sessions |-> [threshold[s] EXCEPT ![c] = NoThresholds[c]]]
  /\ UNCHANGED <<queueVars, sessionVars, flag, ghosts, plugin>>

-----------------------------------------------------------------------------
Init ==
  /\ time = 0
  /\ iEvents = {}
  /\ lost = {}
  /\ open = {}
  /\ listening = {}
  /\ receiving = {}
  /\ last = [s \in Sessions |-> 0]
  /\ given = [s \in Sessions |-> 0]
  /\ threshold = [s \in Sessions |-> NoThresholds]
  /\ flag = [s \in Sessions |-> NoFlags]
  /\ since = [s \in Sessions |-> 0]
  /\ left = {}
  /\ untold = FALSE
  /\ early = {}
  /\ conn = [c \in Connections |-> "new"]
  /\ noti = {}
  /\ armed = Unarmed
  /\ plugin = NoPlugin

SessionNext(s) ==
  \/ OpenSession(s)
  \/ ReceiveEvent(s)
  \/ StartListening(s)
  \/ ListenLeaves(s)
  \/ CancelReceive(s)
  \/ CloseSession(s)
  \/ \E c \in Connections, k \in Kinds, value \in Thresholds : SetThreshold(s, c, k, value)
  \/ \E f \in Flags, value \in FlagValues : SetFlag(s, f, value)

ConnectionNext(c) ==
  \/ ConnectionOpens(c)
  \/ ConnectionCloses(c)
  \/ \E k \in DataKinds, amount \in Amounts : DataTransferred(c, k, amount)
  \/ \E k \in DataKinds : DataCancelled(c, k) \/ DataFails(c, k)

PluginNext == PluginRegister \/ PluginGetQuery \/ PluginCloses

Next ==
  \/ \E s \in Sessions : SessionNext(s)
  \/ \E c \in Connections : ConnectionNext(c)
  \/ \E type \in EventTypes : AddEvent(type)
  \/ PluginNext

Spec == Init /\ [][Next]_vars

-----------------------------------------------------------------------------
(* Properties *)

Events == [time : Nat, info : Infos]

\* Every variable has its type; a session that waits for an event listens.
TypeOK ==
  /\ time \in Nat
  /\ iEvents \subseteq Events
  /\ lost \subseteq Nat
  /\ open \subseteq Sessions
  /\ receiving \subseteq listening
  /\ listening \subseteq open
  /\ last \in [Sessions -> Nat]
  /\ given \in [Sessions -> Nat]
  /\ threshold \in [Sessions -> [Connections -> [DataKinds \cup {"activity"} -> Nat]]]
  /\ flag \in [Sessions -> [FlagNames -> Nat]]
  /\ since \in [Sessions -> Nat]
  /\ left \subseteq listening
  /\ untold \in BOOLEAN
  /\ early \subseteq listening
  /\ conn \in [Connections -> {"new", "up", "gone"}]
  /\ noti \subseteq Connections
  /\ armed \in [Connections -> [DataKinds -> Nat \cup {Silent}]]
  /\ plugin \in Plugins

\* The queue never has more events than it has slots: Add takes the oldest
\* event's slot when none is free (CEventQueue::Add).
QueueBounded == Cardinality(iEvents) <= QueueSize

\* A session that waits for an event has seen every event of the queue: its
\* request is never left waiting behind an event that its filter lets through
\* (CheckEvents is called for each request, Add offers each new event).
WaitingUpToDate == \A s \in receiving, e \in iEvents : e.time <= last[s]

\* What a listening session has not seen is still in the queue, unless the
\* queue was full. An event is freed early, when the number of sessions that
\* were offered it equals the number that listen, and sessions come, go and
\* cancel between two events.
UnseenIsKept ==
  \A s \in listening \ left, t \in 1 .. time :
    t > last[s] => t \in lost \/ \E e \in iEvents : e.time = t

\* The queue keeps within its slots what somebody has not seen.
QueueKeeps == QueueBounded /\ UnseenIsKept

\* A session is sent events in their order and none that is older than its
\* listening ("Want events from now on..."), unless its ListenL left; and none
\* that passes its filter when the next one is sent is passed over
\* (SendEventToClient raises iLastEventTime before it filters).
SentInOrder ==
  [][\A s \in listening' : given'[s] \notin {0, given[s]} =>
       /\ given'[s] > since'[s] \/ s \in left
       /\ s \in listening => given'[s] > last[s]
       /\ s \in listening =>
            \A e \in iEvents : last[s] < e.time /\ e.time < given'[s] => ~Passes(s, e.info)]_vars

\* What the plug-in knows, once it has taken the requests that wait for it.
Told == IF plugin.requests = <<>> THEN plugin.on ELSE plugin.requests[Len(plugin.requests)]

\* The plug-in sends availability events exactly while some listening session
\* has asked for them, whatever the order in which sessions set the threshold,
\* listen, cancel and close and the plug-in registers and asks; no request
\* waits while the plug-in's query does. The code keeps this up for thresholds
\* of 0 and 1: it is not so after a session with another one, or one whose
\* ListenL has left, has changed what is wanted, until a session with a 0 or a 1
\* or a new plug-in puts it right.
PluginFollows ==
  /\ plugin.registered /\ ~untold => (Told <=> Wanted(listening, flag))
  /\ plugin.asking => plugin.requests = <<>>

\* The thresholds are served in steps of the smallest one: the session that
\* has set it gets every event, and the others get every n-th, at a threshold
\* that differs from theirs by at most half a step.
ServedInSteps ==
  \A s \in open, c \in Up, k \in DataKinds :
    LET own == threshold[s][c][k]
        smallest == Global(threshold, c, k)
        adjusted == Adjusted(own, smallest)
    IN  own > 0 =>
          /\ adjusted > 0 /\ adjusted % smallest = 0
          /\ 2 * (adjusted - own) \in -smallest .. smallest + 1
          /\ own = smallest => \A a \in Amounts : DataPasses(a, own, smallest)

\* While a session listens with a threshold, the connection's notifier has a
\* request in RConnection, unless the interface closes or the requests failed:
\* the exception is a session that had set the threshold before it began to
\* listen, when another one listened already.
ArmedWhileWanted ==
  \A s \in listening \ early, c \in noti, k \in DataKinds :
    threshold[s][c][k] > 0 => armed[c][k] # Idle

\* Both of them together keep the promise of the data thresholds.
ThresholdsServed == ServedInSteps /\ ArmedWhileWanted

=============================================================================
