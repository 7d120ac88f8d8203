# A TLA+ verification project for ipconnmgmt

This directory holds TLA+ models of the parts of `ipconnmgmt` (Symbian's IP connection
management) that decide *when* a connection is used and *who* is told about it, the TLC
configurations that check them on small instances, and TLAPS proofs of what holds for every
instance. Everything is translated from the code under `src/`; the table `map` of
`PROJECT.json` names the lines each definition stands for.

## 1. The system

Every server of the repository is one Symbian thread with an active scheduler: a handler
(`ServiceL` of a session, `RunL` of an active object, a callback) runs to its end before the
next one starts. Concurrency is between that thread and its clients, the other servers, the
kernel's timers and the user; inside the thread it is re-entrancy, a handler that runs code of
another session before it returns. Nothing is persisted except settings in CommsDat and the
central repository, so there is no crash recovery; a client that dies closes its session.

### 1.1 Components

| Component | State | Operations | What makes it hard | What must hold | Model |
|---|---|---|---|---|---|
| FlexTimer server and engine, `keepalive/flextimer/server` | the sessions' pending message and window; the engine's list, clock (from a tick counter) and wake-up timer | At, After, AfterTicks, Cancel, Configure, close; wake-up; change of system time | the kernel and the clock run between the steps of a handler; the 32-bit counter wraps; two records of each request | no timer early, none slept through, none lost or answered twice, batches as large as windows allow | `FlexTimer`, `FlexTimerService` |
| FlexTimer client, `keepalive/flextimer/client` | the shared server process, CFlexTimer, CFlexPeriodic | connect (starts the server), requests | the server's start-up rendezvous | every connect returns | requests only |
| Mobility Policy Manager (MPM), `bearermanagement/mpm` | table of active connections, black lists, sessions with one held request of each kind, scans, dialogs, available IAPs, data usage setting | ChooseBestIAP, Reselect, ProcessError, preferred-IAP registration and answers, leave and end, cancel, events, scans, dialogs, watchers | scans and dialogs answer requests later, in a state that has moved on; one dialog's end starts the next; loops over sessions call back into them | no cellular use without consent, no refused IAP back, every request answered, table and nodes agree | `MPMServer` |
| S60 MCPR, `bearermanagement/S60MCPR` | a node per connection: its mobility activity, its pending notification, its request queue to MPM | start, migrate, accept, reject, ignore, error recovery | notifications cross requests | as above, from the client's end | the client half of `MPMServer` |
| Connection Monitor, `connectionmonitoring/connmon` | the event queue; sessions with thresholds and one event request each; the table of connections with three notifiers per record; asynchronous attribute and stop requests; a plug-in of the extension | listen, receive, cancel, set thresholds; enumerate; asynchronous data volume, activity, stop; reports of ESOCK | one notifier serves all sessions; cancel races completion; records are removed while a request on them is out; three notifiers may each be the first to learn of an end | events in order and none lost before the queue is full; each deletion told once; each request answered; a stop ends when its threads have | `ConnMonEvents`, `ConnMonConnections`, `ConnMonRequests` |
| Connection settings server, `cmmanager/cmmgr/cmmserver` | sessions' handles with copies of destinations and connection methods; shared structures with reference counts; the instance mapping and its lists of deleted ids; CommsDat | open, create, edit, save, delete, refresh, close; changes of the database | one session saves or deletes what another one holds; the mapping is kept by hand on some paths and read again on others | counts and handles agree; the mapping shows what is stored; an unchanged handle is current; what is held is not deleted | `CmmServer` |
| PDP context manager, `alwayson_net_plugin/pdpcontextmanager2` | one state object of nine, the connection, retry and unconnect timers, the connection's request, settings, the factory reset | events from the connection, Connection Monitor, telephony, settings, timers, a property | a timer or a completion of the previous state arrives in the next one; one call waits in a nested loop | no state waits for nothing; nothing is started twice; a retry comes | `PdpContext` |
| Data connection logger, `connmon/dataconnectionlogger` | one log event per connection | start and stop notifications | | starts and stops paired | not modelled |
| Connection dialogs, confirmation queries, settings and Qt user interface | user interface | | | | not modelled (an answer is an input) |
| CommsDat creator, connection preferences, plug-ins of the settings server, attribute packing in `RConnMon`, connection view, indicators | none beyond a record or a message | conversion, database writes at first boot | | | not modelled |

`PROJECT.json` lists all of them with their sources under `components`, and under `hazards` the
places where the code is hard to test.

### 1.2 How they interact

An application opens a connection; ESOCK's mesh machine creates an S60 MCPR node for it, and the
node opens a session with MPM. MPM chooses an IAP (after a WLAN scan it asks of Connection Monitor,
after a dialog if the user must be asked), the node starts its bearer and reports that it is up.
An application that asked for mobility is offered better IAPs: MPM notifies *preferred IAP*, the
application migrates or ignores, MPM notifies *start IAP* (after a dialog when it may cost), the
node starts the new bearer, and the application accepts or rejects it. Errors of a bearer go to MPM,
which tells the node to propagate them, to reselect, or to ignore them and wait for another offer.
Connection Monitor tells MPM which IAPs are available. The settings server and MPM share CommsDat.
FlexTimer is used by clients that keep connections alive and want their timers to expire together.
The PDP context manager keeps one packet data connection up by itself: Connection Monitor's events
tell it of the connections of others, for which it gives the context up, and the telephony server and
the user's settings when it may have it back. Connection Monitor learns of interfaces from ESOCK and
is asked about them by everybody else; a bearer plug-in adds availability events.

## 2. Modules

| Module | Content |
|---|---|
| `FlexTimer` | server, sessions, engine, wake-up timer, kernel |
| `FlexTimerService` | what the timers promise, with no list and no engine clock: the abstract specification `FlexTimer` implements |
| `FlexTimerProofs`, `FlexTimerServiceProofs` | types, queue and messages, clock and wake-up; implementation |
| `MPMServer` | MPM with a node per session |
| `MPMServerProofs` | all its safety properties, proved |
| `PdpContext` | the PDP context manager's state objects, timers and connection, with their environment |
| `PdpContextProofs` | its invariants, proved |
| `CmmServer` | the settings server: sessions, handles, cache, mapping, CommsDat |
| `CmmServerProofs` | its invariants, proved for the scenarios in which no destination is deleted |
| `ConnMonEvents` | Connection Monitor's event queue, thresholds, data notifiers and plug-in |
| `ConnMonEventsProofs` | all its properties, proved |
| `ConnMonConnections` | Connection Monitor's table and the notifiers that keep it |
| `ConnMonRequests` | extends the table with the asynchronous requests: a step of the table ends or starts operations in the same step (`Follow`) |
| `ConnMonTableProofs`, `ConnMonRequestsProofs` | proofs about the two: one record per access point and its deletion; requests and stops; reports, notifiers and types |
| `MC...` | instances, with the scenarios that divide large ones |

A *scenario* is a rigid variable, chosen at the start, that says which part of the environment and
which requests a behaviour may use. One run checks all its scenarios together; a scenario bounds what
interacts with what, never what a handler does.

## 3. FlexTimer

### 3.1 How the module corresponds to the code

A session's message is served in several steps, because `CFlexTimerEngine` reads the clock
several times in one handler and the kernel may complete the wake-up timer in between:
`AddTimer`, `CancelTimer` and `Disconnect` end where the code calls `StartTimer`; `StartTimer` and
`WakeUp` call each other as `CFlexTimerEngine::StartTimer` and `WakeUp` do; `UniversalTime` and
`AtUTC` are the two halves of `CFlexTimerWakeUpTimer::StartTimer`, which turns the interval that
the engine computed from the ticks into an instant by a later reading of the wall clock and then
asks the kernel for that instant; `Return` is what the
session does after the engine returned. `handler.pc` is the step that comes next, `handler.op` the
handler it belongs to. No other handler starts in between (`Dispatch`), but `Tick`, `KernelTimer`,
`SetTime` and the clients' `Request` are possible at every step. The dispatch order is the code's:
the wake-up timer is an active object with the server's priority that was added first, so a
completed wake-up goes before the next message.

`timerList` is a set, since the code uses its order only for the order of completions within a
batch. `iLastTicks` and `iCurrentAbsoluteTime` are `lastTicks` (modulo `TickModulus`, the counter's
width) and `curTime`; `syncAt`, `pending[s].start`, `.due`, `slip` and `owed` are history. `slip` is
what the environment did to the request while it was being made: the time that passed between the
engine's reading of the ticks and `UniversalTime`, and how far the wall clock was set back between
that and `AtUTC`. Times
are in units of the engine's resolution; intervals in microseconds and ticks are the same unit
here. `Interval` computes an At request's interval when the server reads it, from the wall clock
`now + offset`, as `DoAddTimer` does; that reading and the engine's own in `AddTimerL` are one step
here. Time that passes between the two shifts the window, which is therefore promised, in
`pending`, from the engine's reading on.

### 3.2 What is checked

| Run | Instance | What it shows |
|---|---|---|
| `flextimer` | 2 sessions, intervals 1 and 2, windows 1 and an illegal 3, counter modulo 4, 5 instants (3.6 million states) | `TypeOK`, `PendingIsQueued`, `OwedIsHeld`, `EngineClockExact`, and `ImplementsService`. The counter wraps, requests age in the queue past their time, clients are panicked and die in every handler |
| `flextimer_batch` | 3 queued timers with every combination of windows up to 3 and of At and After, cancellations, the system time changes (2.5 million states) | `WakeUpCoversDeadlines`: however the timers are taken off the list, and whatever the clock and the wall clock do between the steps that arm the wake-up timer, the request the server sleeps on is later than no deadline by more than `slip`. And the two-pass algorithm of the container (`LatestPossibleAlgorithm`): who waits for whom is visible only with three timers. `ServiceSteps` says each batch could not have been larger; an aborted timer leaves the list together with its message |
| `flextimer_live` | 2 sessions, fairness | `ServiceGoesOn`: `StartTimer` and `WakeUp` do not call each other for ever, and every pending request completes |

`flextimer_batch` starts from `QueuedInit`, the states in which each of three sessions has just had a
request accepted in the first instant; they are reachable, and reaching them in the run would only
multiply it.

### 3.3 Fairness and bounds

The thread serves what is pending (weak fairness of the engine's steps and the wake-up; strong
fairness of a session's request, since other handlers disable it again and again), the kernel
completes an expired timer, time passes. Clients are not fair: they may stop.

`MaxTime` bounds the clock; a wrap of the counter, a full window and a full interval fit in it.
`MaxLatency` says how late the thread may be, in arming the wake-up timer and in serving it, and
`MaxOffset` how far the wall clock may be set: `Tick` does not let more than
`MaxTimerLength + MaxLatency + MaxOffset` pass between two readings of the counter while timers are
queued.
The code needs this (a thread that sleeps through a whole turn of a 32-bit counter loses that
time) and cannot ensure it; with `KFlexTimerMaxTimerLength` it leaves the thread more than a day.

### 3.4 What is proved

For every set of sessions, every window set, every width of the counter and every clock horizon, from
`ConstantsAssumption` only:

- `TypeCorrect`: `Spec => []TypeOK`.
- `QueueCorrect`: `Spec => []PendingIsQueued`. The inductive form is `QueueInv`: every queued timer
  belongs to a pending message that nobody withdraws (`TimersArePending`), a session has at most one
  (`OneTimerEach`), and a pending message has one (`PendingAreQueued`).
- `OwedCorrect`: `Spec => []OwedIsHeld`. Strengthened by what a closed session holds, nothing;
  otherwise a connect could start with a debt.
- `ClockCorrect`: `Spec => []EngineClockExact`. It needs `CounterInv` (the remembered count is that of
  the last reading, which is less than a turn of the counter ago) and the lemma `WrappedDifference`:
  a difference of two counts modulo M is the difference of the times.
- `WakeUpCorrect`: `Spec => []WakeUpCoversDeadlines`. `SleepInv` says it also for a handler that is about
  to return, and of the interval and the instant that a handler in `UniversalTime` and in `AtUTC` is
  about to ask for; that `StartTimer` establishes it follows from the exact clock, and each move of a
  clock in between adds to `slip` what it takes from the instant.
- `Implementation`: `Spec => ImplementsService`. Each step is mapped: `AddTimer` accepts, `WakeUp`
  expires a batch or stutters (`ExpireStep`), cancellation, abort, failure and disconnection withdraw,
  `Tick` is time, the others stutter. That an accepted window starts no earlier than the service
  allows rests on `DefaultWindowBound` and on the check of configured windows (`WindowInv`).

- `StepsServe`: `Spec => ServiceSteps`, the same step by step, from any state that the inductive
  invariant admits (`StepsFromThere`), so also for the runs that begin with queued timers.

Liveness (`ServiceGoesOn`) is model-checked only.

## 4. MPM and its nodes

### 4.1 How the module corresponds to the code

`sess[c]` is a `CMPMServerSession`, `cli[c]` the S60 MCPR node that opened it. `conns` and
`connOrder` are `iActiveBMConns`, `black` and `blackOrder` `iBlackListIdList` with both categories (the
order matters to one loop), `avail` the last availability information, `discard` and `discarded` the
two discard flags, `scans` the queue of `CConnMonitorScanRequest`s, `startQ` and `roamQ` the two
dialog queues, `timer` the query timer, `usage` the setting and `usageSeen` the watcher's copy.

One action is one handler. Three things a handler starts can run other sessions' code in the middle
of its own, and are steps taken before anything else (`Quiet`): the loop that takes temporary
entries off the black lists (`UnblackTemporary`), the loop that notifies the sessions
(`SendPrefIAPNotification`), and the dialog that the destructor of the one on the display starts,
with the answer it carries over (`PropagateStarting`, `PropagateRoaming`). `fatal` records that a
handler completed a null message or called a session that is gone. `offers` is history: it counts the
offers the node has not answered, and stays at 2 once a second one was sent (offers have crossed).
`conns` as a queue and the dialog queues lose one entry at a time (`Without`), as the code's loops do.

The node reads a reply and a notification when it gets to them (`ReadReply`,
`ReadNotification`), so requests and notifications cross in every order; it keeps one pending
notification (`cli[c].stored`) as `s60mcpr.cpp` does. The application's decisions are free.

There is one destination, which holds all IAPs, with a rank and a bearer each; a connection is to it
or to one IAP of its own, silently or not. A preference also says whether it comes from one of the
background applications that `IsConfirmFirstL` never asks about (mpmserversession.cpp:817, 3233); the
IAP that the MMS property names is not asked about either, and not barred or stopped when cellular
use is disabled (`MmsIap`, a constant: the property is taken to stay the same).
`IapConnectionStarted` also starts, in the table, the entries of other connections of their own on the
same IAP (mpmserver.cpp:792).

### 4.2 What is checked

| Run | Instance | What it shows |
|---|---|---|
| `mpm_mobility` | 1 client that may repeat its requests, 2 WLANs, up to 2 scans in progress (109,000 states) | `RefusedStaysRefused`: no scan, error, stored information or event brings back what the application refused. `NodeAndTableAgree`: the table and the node agree on where the connection is, and a start notification is not out of date, though rejections cross it. `WaitersAreOwed`: what is held has a scan or a dialog that answers it, and nothing is on hold with nobody to release it. `IgnoredIsNotified`: a node told to ignore an error gets what it waits for, unless WLANs are under manual control. But for `WaitersAreOwed` they are stated as long as no offer has crossed another (section 9) |
| `mpm_consent` | 1 client, a WLAN and a cellular IAP, asking or automatic use, dialogs, errors, changes of the setting, fairness (237,000 states) | `RequestsComplete`, `ResponseIsAnswered`: held requests are answered, and so is a node that waits for MPM's decision. The types |
| `mpm_dialogs` | 2 clients, a WLAN, a cellular IAP and that of the MMS, silent or not, background applications, asking or disabled (1.7 million states) | `CellularNeedsConsent`: under the setting to ask, whichever of the two asks first, no cellular IAP is granted without the answer to a dialog or another connection that has it; but for background applications and the IAP of the MMS, which get theirs without (the property fails without either exception). `DialogsMatch`: the queues of starting and roaming dialogs agree with the requests held for them, a dialog asks about what its answer does, while answers are carried over from one to the next. `ServerSurvives`: no scan or dialog calls a session that is gone, none is answered twice |

### 4.3 Fairness and bounds

Weak fairness of what a handler has begun (`Internal`): the thread runs it before anything else.
Strong fairness of the user's answers, the ends of scans and the reading of replies and
notifications: each is again and again disabled for a moment by a handler's internal steps, and
Connection Monitor, the user and the node's thread get to them in the end. Availability events, the
setting, the application and the query timer are not fair.

`MaxScans` bounds the scans in progress; with `Disciplined` a client has one request at a time, as
`CMPMPolicyRequests` ensures, and then only rejected carriers make a second scan. A session opens once and starts
mobility once: one that comes back is another session. One session is enough for the properties that
relate a session to its node; dialogs relate sessions and have two. The constraint `TwoClients` keeps
`mpm_dialogs` to two connections that start at the same time, or that both roam from the WLAN, and to
availability that does not report the IAP of the MMS, which is then used only by those that ask for it; what
happens after one of them leaves the other alone is in the runs with one. One client shows the discard
flag only as two of its own scans share it; that two clients share it is in the theorems, which hold for
any sessions. Where two sessions
are compared they are interchangeable, so `Symmetry` is sound; runs with temporal properties that
need fairness do not use it.

## 5. The PDP context manager

### 5.1 How the module corresponds to the code

`state` is the current `TAOState`; a handler of it is an operator that maps what the handler moves
(`res`: timers, retry segment, connection and its request) and the state it returns. `conn` and `req`
are `CAOConnectionImpl`'s internal state and request, `own` the context in ESOCK, `events` what
Connection Monitor has sent and not delivered, `my` the id the server took for its own. `TAOState::CancelAll`
is `CancelAllThen`, what every way out of a state begins with. `SetAlwaysOnModeL` waits for the modem
in a scheduler loop of its own; with the scenario `modem` other handlers run in it (`nested`), and
`ModemAnswers` ends the handler that waited. `fatal` is a failed assertion: a timer or a request that
is started while it is active.

### 5.2 What is checked

Run `pdp` (389,000 states): a connection of another cellular user and one of a WLAN, three settings (off; on with
a retry interval longer than one timer; on without retry and with linger), six scenarios, each the
disturbances that meet: links that fail and close, others' connections, the network, the usage and
other settings, telephony failures, the reset, the modem's loop.

- `AlwaysAble`: the types; every state that waits has the timer, request or reactivation that ends it;
  no assertion fails. The last part is not claimed where the code does fail it (section 9): with
  `telephony`, with `modem`, with `others` together with `reset`, and, if some setting does not poll,
  with `usage` next to anything but the link and the other settings (`PollsInOrder`).
- `RestsQuietly`: states that leave the context to others hold no timer and no request, and a timer
  runs only in the state that started it. Without the scenarios `modem` and `others` with `reset`.
- `RetryInParts`: the parts of a long retry never overrun the setting, and none is empty.
- `ConnectingEnds`, `WaitingEnds`: starting, being disconnected and waiting for a retry are left.

Fairness: strong for the handlers of the reactivation and of the two timers and for the modem's
answer, since other handlers come in between, weak for the subscription. The network, the user and
others' connections owe nothing. Bounds: `MaxTimer` 2 of a retry interval of 3, so that there are two
parts; `MaxAttempts` 2; one undelivered event when the environment acts.

## 6. The connection settings server

### 6.1 How the module corresponds to the code

`db` is CommsDat, a value per connection method and a sequence of items per destination; `mapping` and
`deleted` are `CCmmInstanceMapping`, `cms` and `dsts` the arrays of `CCmmCache` with their reference
counts, `cmH` and `dstH` the sessions' handles, each with its own copy. A request is one action, and
computes the next state as a value step by step (`World`, `Become`), in the order of the code: a save
of a destination checks and makes its deletions, saves each item the session has a handle to, an
embedded destination among them, stores its record, and commits; after the commit ids are exchanged,
handles outdated and the mapping kept. A save that leaves rolls CommsDat back and keeps what the code
had already done to handles and arrays. A panic restarts the server with what CommsDat holds.

Objects that the code goes through one by one, each without a look at the others, are handled as a set:
a session's connection methods when it ends (`CloseCms`), the ids given by a commit (`GiveCmIds`,
`GiveDstIds`), what is saved or deleted once a transaction is committed (`CmsSaved`, `MarkDeleted`).
Where the order shows, it is the code's: the items of a destination that is saved, of which one may be
dropped or fail (`ItemsDone`, `AllItemsDone`), the deletions that a save checks, and the destination
handles of a session that ends (`CloseDsts`), are recursive functions over a sequence.

### 6.2 What is checked

Run `cmm` (414,000 states): 2 sessions, 2 connection methods, 2 destinations, one temporary id, two
destination handles for each session, nine scenarios of records and requests.

- `StructuresCounted`: a structure exists exactly while some session has a handle, and counts them.
- `MappingFollowsDb`: on all paths the mapping shows what reading it again would show; not with
  connections, where the code does not (section 9).
- `StoredIsWhole`: no visible item leads nowhere, destinations are embedded one level deep though the
  check is made against unsaved handles of all sessions, and what a client holds stays stored.
- `UnchangedHandlesAgree`: a handle that says it is unchanged shows what is stored, unless another
  program wrote it.
- `LoadedIsCurrent`: once CommsDat's notification is served, what the cache takes for loaded is current.
  Every scenario but `dest` has the notification, which the server's own writes cause too.

`cmm_restored` (violation): section 9. The scenarios keep apart what the code is known to break:
deleting a destination and saving another handle of it, deleting a connection method from one destination
and adding it to another handle, a destination in two sessions with connections. Two sessions are enough for one that holds what the other one changes; one temporary id
bounds new objects to one at a time.

## 7. Connection Monitor

### 7.1 How the modules correspond to the code

`ConnMonEvents`: `iEvents` is the queue as a set with times (the queue's order is that of the times),
`last` a session's `iLastEventTime`, `receiving` its `iReceiveActive`. `Add` frees what has been
offered to as many sessions as listen, takes the oldest event's slot when none is free, and offers
the new one to all; `CheckEvents` serves a request with the first event that passes. `armed` is what
a `CDataNotifier` asked of `RConnection`, `plugin` the extension's plug-in with the requests that
wait for it. A bearer threshold takes any value (`FlagValues`: 0, 1 and 2 in the run), as in
`SetUintAttributeL`, and the plug-in is told what `SetPluginThreshold` makes of it: a value of 1 to
send the events, any other not to. `since`, `given`, `lost`, `left`, `early` and `untold` are history.

`ConnMonConnections`: `iConnInfos` holds records with the state of their progress notifier and
sub-connection notifier and the flags of `SendDeletedEvent`; `updown`, `stages` and `closed` are what
ESOCK has to report to a request that is not issued yet. ESOCK is external: reports come in order, a
record is attached to the newest interface of its access point, a watch begins with the interfaces
that are up. Active objects run in any order. `told` and `deleted` are what sessions heard.

`ConnMonRequests` extends it: one data volume request, one activity notifier and one stop thread for a
connection, whoever waits. `iAsyncStopQueue` is a set: an element counts its connections on its own,
wherever it stands in the queue.

`MaxStarts` bounds how often an interface comes up, `Ids` the ids that are given (one for each start),
`MaxTimers` the timers of a connection.

### 7.2 What is checked

Run `connmon_events` (458,000 states): 2 sessions, 1 connection, a queue of 2 slots and 4 events,
thresholds that are no multiples of each other (4 and 7), four scenarios.

- `WaitingUpToDate`, `QueueKeeps`, `SentInOrder`: a request never waits behind an unseen event; the
  queue is bounded and keeps what somebody has not seen until it is full, though it frees events by
  counting sessions that come and go; events are sent in order and none wanted is passed over.
- `PluginFollows`: the plug-in sends availability events exactly while somebody wants them. `untold`
  marks the exceptions: the last session that changed whether anybody wants the events did so without
  the plug-in's being told, because `ListenL` left or because its threshold is neither 0 nor 1 (section
  9). The next change by a session with a threshold of 0 or 1 ends the exception, and the property holds again.
- `ThresholdsServed`: a threshold is served at the nearest multiple of the smallest one, and its
  notifier is armed while a listening session wants it.

Run `connmon` (96,000 states): 2 sessions, 2 access points, interfaces that come twice, scenarios for
the table, for questions and for stops, with fairness.

- `OneRecordPerIap`, `GoneIsTold`, `GoneIsRemoved`: one record for an access point; a connection a
  listening session heard of leaves the table only with its deletion told; the record of an interface
  that is gone leaves it in the end.
- `Consistent`: types, a deletion told at most once, no notifier used after it was deleted, and each
  waiting session has the operation that will answer it, in a connection of the table.
- `RequestsEnd`, `StopsAwaited`: every request is answered; a stop only when no thread it waits for is
  left.

`connmon_stop` (violation): section 9.

Fairness: the thread runs active objects that have completed, `RConnection` ends its requests, timers
expire and `Stop` returns (weak: nothing disables them but their end). Sessions owe nothing.

The exemptions are named in the modules: `left` (a session whose `ListenL` left), `early` (one that set
a threshold before it listened), `forgotten` (records whose notifiers went with what they had seen),
`failed` (a failed progress request), `unstarted` (a stop whose thread could not be started). Each is
a place in section 9.

## 8. What is proved

`tlapm` proves the theorems of `PROJECT.json` for every value of the constants that satisfies the named
assumptions of the modules; TLC has checked the invariants they rest on.

FlexTimer: section 3.4. Connection Monitor's event path, in `ConnMonEventsProofs`, from
`SessionsAssumption` (finitely many sessions), `SizeAssumption`, `NamesAssumption` and `ValuesAssumption`:

- `TypeCorrect`. With it goes `InTime`: no event and no session is ahead of the queue's clock. Every
  later step needs it, since a new event's time is one more.
- `WaitingCorrect`, `QueueCorrect` from `QueueInv`: the queue is finite and bounded; requests are up to
  date; what is unseen is kept; and (`SeenBefore`, the strengthening) a session has seen everything
  from before it listened, unless its `ListenL` left. `Add` is the step that needs work: freeing an event offered to all
  (`OfferedToAll`), taking the oldest slot (`AddKeepsBound`, by cardinalities) and offering the new
  one (`AddKeepsQueue`); `CheckEvents` is `CheckKeepsQueue`.
- `OrderCorrect`: an action property, step by step from `QueueInv` (`OrderStep`).
- `PluginCorrect` from `PluginInv`, which says what the plug-in will know when it has taken the requests
  that wait.
- `ThresholdsCorrect`: `ArmedWhileWanted` is inductive (`ArmedStep`); `ServedInSteps` is arithmetic
  about the rounding (`AdjustedIsNear`, `SmallestPassesAll`).

That oldest and newest events exist is `LeastExists`, from the well-foundedness of the naturals.

Connection Monitor's table and requests, from `IapsAssumption` (finitely many access points),
`StartsAssumption` and `TimersAssumption`. Three inductive invariants, each in its module, each using
the ones before it:

- `TableInv` (`ConnMonTableProofs`) gives `OneRecord`, `DeletionsAreTold` and `DeletionsAreToldOnce`.
  None of the three properties is inductive. What a session heard of is in the table *and not marked*
  as told (`HeardIsThere`); what it was told to be deleted is gone or marked, and its id is not given
  again (`DeletedIsMarked`); and every record has its notifiers while somebody listens
  (`AllNotified`), without which an enumeration would remove a record silently. `Develops` says what
  a handler that tells some deletions makes of a table; the steps of the notifiers compose it.
- `RequestInv` (`ConnMonRequestsProofs`) gives `RequestsHaveOperations` and `StopsAreAwaited`. A stop
  that waits has counted exactly the connections that have no thread any more (`ElementCounts`),
  which holds because a connection never gets a second thread (`ThreadsMarked`) and a session waits
  once (`OneElement`). `TableFollows` says how a step of the table reaches the requests.
- `ReportInv` gives `TheServerSurvives`. What waits to be reported of an
  access point alternates between up and down (`Alternate`) and ends with what is so (`LastMatches`).
  So a record that is there when its access point is reported up again has seen its interface end or
  has forgotten it (`EndsKnown`), and one that has seen it still has its notifiers (`ClosedNotified`).
  It is stated until a crash: a server that used a notifier that is gone keeps no promise.

`ConsistentAlways` joins them with the types (`TypesHold`).

The PDP context manager, in `PdpContextProofs`, from `ConstantsAssumption` (any settings, intervals,
numbers of attempts and parts of the environment): `AlwaysAbleHolds`, `RestsQuietlyHolds` and
`RetryInPartsHolds`, from one inductive invariant, `PdpInv`. None of the three is inductive alone:

- a state that waits has what ends its waiting, and a connected one a link that is up with its request
  pending (`StateAble`), which needs that only a link that is being opened goes on or fails (`RequestFits`);
- the idle states hold nothing whatever the environment does (`IdleQuiet`), and what a scenario leaves out
  does not happen (`Dormant`, `OnlyOwn`); while a handler waits for the modem and no other may run, nothing
  runs (`NestedQuiet`), and from the answer to the reset tool until it stops the machine stays in its state
  (`ResetHolds`): together they keep `RestsQuietly`;
- nothing is started twice (`Serial`), because a state that will start the context has no request, and,
  where the usage changes, the machine is in its round only while the settings keep the context on, and no
  link outlives it (`Private`);
- each part of a retry but the last is as long as the timer runs, and the parts add up (`RetryCut`).

MPM and its nodes, in `MPMServerProofs`, from `ConstantsAssumption` alone: any sessions, any finite set
of IAPs and ranks, any number of scans. The inductive invariant `MPMInv` has two layers.

- `Local`, for one session with its node, its entry in the table and its black list: which request is
  held and what replies wait (`Asked`, `Choosing`), what the table grants (`Granted`, `NotMobile`,
  `Entry`), the hold (`Owed`), where the bearer is (`Bearer`), and, while no offers crossed, that one
  offer at most is on its way (`Offered`), what the dialog asks about (`Asking`), in which state the
  node reads a start (`Moving`), and what is barred (`Refused`). The last four need one another:
  an IAP refused is not offered again because the last one offered is used, barred or on its way; that
  the node and the table agree when it accepts needs that the dialog, the notification and the node's
  preference were about one IAP from the offer on.
- What relates sessions: dialogs and queues (`QueuesMatch`), the table and its order (`TableListed`),
  the black lists' loop (`LoopInRange`), held requests and scans (`RequestsProgress`,
  `ChoiceScans`).

Each operator that changes a session has a lemma that it keeps `Local` (`...Local`), each action one
that it keeps `MPMInv` (`...Keeps`): only the acting session changes, or the loops change each
session as if alone. From it follow, with a few steps each, `TypeOKHolds`,
`WaitersAreOwedHolds`, `RefusedStaysRefusedHolds`, `NodeAndTableAgreeHolds` and, for clients with
one request at a time (`Disciplined`), `DialogsMatchHolds`. `CellularNeedsConsentHolds` and
`IgnoredIsNotifiedHolds` are action properties, proved action by action; the first for any IAP of the
MMS and any background applications, whose exceptions it states. `ServerSurvivesHolds` has one
more invariant, `ScansOwned`: each scan in progress belongs to a session that is open and still waits
for it. It is proved for behaviours in which no session has two scans (`OneScanEach`, which
`MaxScans = 1` gives `mpm_dialogs`), since `CancelScan` removes the first one only and the other
calls back a session that is gone (section 9).

The connection settings server, in `CmmServerProofs`, from `IdsAreDisjoint`, `BoundsAssumption` (finitely
many sessions), `NoneIsNothing` and `StoredAssumption`: any sessions, connection methods, destinations, values,
handles and records, and any list of items in a destination. `CountsCorrect`, `MappingCorrect`,
`WholeCorrect`, `HandlesCorrect` and `CacheCorrect` follow from one inductive invariant, `Inv`
(`InvCorrect`), none of them being inductive alone. A request computes the next world in steps; each
operator for a step has a lemma that says what it keeps (`Keeps`), and the lemma of a request composes
them. The parts:

- `Core`: the types; the counts (`CmsCounted`, `DstsCounted`), for which a session needs to have one slot
  for a destination at most (`OneSlot`); and how things fit: a cached connection method that is saved is
  stored, and hidden if its status says so, and one with a temporary id is new and one session's (`CmsFit`,
  `DstsFit`); an unchanged handle is to a stored destination (`HandlesFit`); what is mapped is stored and
  not hidden (`MappedFits`). In the middle of a save `Core` does not hold, since
  a plug-in has a record whose structure still says that it is new: `Saving` says what holds from `Begin`
  to the commit, and that the ids given so far are distinct and were free (`GivenFresh`). The commit's renaming
  (`GiveCmIds`, `GiveDstIds`) puts it together again.
- `MapOK`, the mapping is what would be read; `Current`, what is loaded is current; `Agree`, unchanged
  handles agree. `Agree` is kept only together with `Current`: an opened handle copies the cache.
- `Whole`, for which `StoredIsWhole` has to be said of what is unsaved too: what a destination lists is stored
  (`ListedStored`), what waits to be deleted is listed nowhere (`HiddenUnlisted`), and no destination that any
  record, mapping *or handle* embeds embeds another (`OneDeep`): that is what the checks of
  `AddEmbeddedDestinationL` against the handles of every session are for.

Lemmas about `Only` and about the loops over items and handles, which are recursive functions, are proved
by a least counterexample, which is a number (`OnlyUnfolds`, `InductionTo`).

The theorems are about behaviours whose scenario is `Covered`: no destination is deleted, and connection
methods are deleted from a destination (`DestDelete`) only if no destination is saved. Both exclusions are
where the code fails `StoredIsWhole` (section 9), so that no general theorem is to be had. Everything else a
scenario may ask for is allowed, in any combination: opening, making, copying, changing, saving, refreshing, deleting and
closing of connection methods, destinations with embedded ones that are edited, saved and moved between,
ends of sessions, panics, shutdown, connections and writes of other programs. Of the nine scenarios
of `cmm` six are covered (`cm`, `new`, `embed`, `edit`, `move`, `outside`). The other three, `dest`, `destroy` and
`connected`, ask for less than would break it and stay with TLC: their proof would need an invariant in which
destinations may be hidden and handles have deletions to make, with what keeps the two apart from saves. `WholeCorrect` has one more hypothesis,
`StoredWhole`: the records found at the start are whole, since the server checks no record that it did not write. All
records in `MCCmmServer` are.

Only model-checked: the settings server's invariants in the scenarios just named; and all liveness,
which needs fairness and `ENABLED`: `ServiceGoesOn`,
`RequestsComplete` and `ResponseIsAnswered` of MPM, `ConnectingEnds` and `WaitingEnds` of the PDP context
manager, `GoneIsRemoved` and `RequestsEnd` of Connection Monitor.

## 9. Where the code and what it says of itself differ

With a run that shows it:

- `cmm_restored`: a connection method (or a destination) that is saved after another session deleted it
  is marked valid, but its id stays in the list of deleted ones, and nobody can open it until its last
  handle is closed (cmmcache.cpp:868; the comment at 1026 says it "is restored as uncategorized").
- `connmon_stop`: a stop that fails marks its connection as stopped; later requests are told at once
  that an open connection is closed (ConnMonIAP.cpp:2149; comment at 1957).

Met while modelling, without a run of their own. FlexTimer and MPM:

- `StartTimer` cancels the wake-up request in any other session's handler, and with it an abort by a
  change of the system time that has not been dispatched (flextimerengine.cpp:154), though
  rflextimer.h:431 promises that an At timer "will cancel itself".
- The wake-up timer is armed by UTC "to get indications about system time change"
  (flextimerwakeuptimer.cpp:51). A change between `UniversalTime` and `AtUTC` (63-72) gives none: if it
  sets the clock back, the server sleeps past the deadline by as much (`slip` in
  `WakeUpCoversDeadlines`).
- An At request whose time passes while it waits in FlexTimer's queue panics its client, though the
  comment in `DoAddTimer` speaks of timer values "zero or negative" being completed
  (flextimersession.cpp:444, 472).
- The loop that clears the temporary black list inserts at index 0 while it counts down and skips an
  entry (mpmserver.cpp:1114).
- With WLANs under manual control the notification that was to follow an ignored error is suppressed
  (mpmserversession.cpp:3132; the comment at 1566 relies on it).
- Offers can cross, though the comment at mpmserversession.cpp:2766 says that a new preferred carrier "can
  only be processed after the response for the previous one is received": a rejection or an error releases the hold
  while an offer is on its way (`ResetStoredIapInfo`, 1264), and scan callbacks and error
  recovery go past the hold (2636). With three IAPs a second offer then follows an unanswered one, and
  table and node may disagree, a refused IAP come back or an ignored error go without notification.
- A session with two scans cancels one when it closes; the other one calls it back
  (mpmconnmonevents.cpp:598).
- A second `ChooseBestIAP` while one is held is answered with `KErrServerBusy` and then, because the
  check does not return, answered again through a null handle (mpmserversession.cpp:395).
- The end of one session's scan clears the discard flag of all (mpmconnmonevents.cpp:590).
- Unregistering from preferred-IAP notifications clears the connection's lifetime black list, which
  mpmserver.h:145 says lasts until the connection is terminated (mpmserversession.cpp:1784).
- A setting that changes and changes back before the watcher runs looks unchanged, and silent
  connections started in between stay (mpmdatausagewatcher.cpp:119).

PDP context manager:

- The modem's nested loop lets a second activation start inside the first (caogpds.cpp:204).
- A telephony error in Connected activates a connection whose request is active.
- A change of the usage setting goes on as if the unconnect timer had expired: with others'
  connections, or when the network or a reset let the context live on, it starts that timer although
  polling is off, and the assertion about its interval fails.
- ExternalConnection answers a factory reset and stays (taostateexternalconnection.cpp:52): it may
  activate the context during the reset.
- A write of the reset property between `Get` and the next `Subscribe` is lost (caoserver.cpp:355).
- The first expiry of the connection timer cancels the start and starts nothing for the attempts it
  still counts (taostateconnecting.cpp:87).
- The deletion of a connection that is not the failed one is ignored after a failed activation
  (caoserver.cpp:749 says "the same connection that just failed to activate").

Connection settings server:

- `ConnMethodInOtherDestination` indexes with `i` where it loops over `j` (cmmsession.cpp:427), although a
  delete is to be dropped for what is "in any other client-side destination handles" (cmmcache.cpp:611): a
  client that takes a connection method from one destination to delete it, and has added it to the handle of
  another, embedded one, loses the record and saves the item. TLC finds that `StoredIsWhole` fails when
  `AddConnMethod` is added to the requests of `dest`, with a second item in each of two destinations.
- A save of a handle to a destination that another session deleted writes its items, and the destination
  stays hidden (as in `cmm_restored`): another destination with the same connection method can then be deleted
  and takes the method along, since `ConnMethodInOtherDestination` asks the mapping. When the server starts again
  the destination is back, with an item that does not exist. TLC finds it with `DeleteDestination` next to
  `UpdateDestination` and `AddConnMethod`.
- A connection method marked as deleted whose last handle closes while it carries a connection stays
  in CommsDat and is taken off the list (cmmcache.cpp:1952).
- An embedded destination that is new loses its place: `TranslateTemporaryId` knows new connection
  methods only (cmmcache.cpp:3133).
- A save that fails rolls CommsDat back, and plug-ins keep the handle's data.
- A session's destructor refreshes handles of the containers it is destroying (cmmsession.cpp:115).

Connection Monitor:

- A threshold set before listening, while another session listens, arms nothing (ConnMonSess.cpp:1963,
  against rconnmon.h:134).
- An availability threshold other than 0 and 1 is stored as it is (ConnMonSess.cpp:1335; "All alowed" at
  2692), counts as a wish for the events (`CalculateThreshold`) and passes the session's filter, but the
  plug-in is told nothing when the session begins or ceases to listen (1603, 1637) and is told not to
  send them when a listening session sets it (2471). rconnmon.h:143 says of the setting "Enables
  EConnMonBearerAvailabilityChange events" and names no limit. TLC finds that `PluginFollows` fails
  without its exception for such values.
- `ListenL` that leaves keeps `iListening`: the session later gets events from before
  (ConnMonSess.cpp:1599).
- A thread that cannot be started leaves the connection marked as stopping, and later stops wait for
  ever (ConnMonIAP.cpp:2049); a stop of all with one such error is not queued though others stop.
- An interface that goes down before its link layer closed, after the last listener left, and comes
  back: `CompleteConnectionClosing` uses a notifier that is gone (ConnMonIAP.cpp:2607).
- The cancellation by the last listener of a connection's requests cancels those of other sessions
  (CDataVolume.cpp:87); the timer of a cancelled activity request ends the next one (ConnMonIAP.cpp:5194).

## 10. Mutants

Every property of a passing run has a mutated definition in the module, marked `Mutant`, next to the
one it changes: a dropped guard, an off-by-one, a timer or a black listing that is not removed, a
count that is wrong, an answer that is not sent. TLC finds the property violated with it.

## 11. Running

`tlc -config MCFlexTimer.cfg MCFlexTimer.tla` (and so on for each run of `PROJECT.json`), and
`tlapm FlexTimerServiceProofs.tla` (and the other proof modules; `MPMServerProofs` and
`CmmServerProofs` take about twelve minutes each). Deadlock is not checked: the clocks
and counters of the models end, and all clients may have closed.

## 12. What is not modelled, and why

In MPM: user connections, whose IAP the code gives other connections without asking
(mpmiapselection.cpp:191, 219, 254), and VPN with its virtual IAPs, which are never asked about (356, 515): `CellularNeedsConsent`
says nothing of them; a change of the MMS property, sorting of embedded destinations, forced roaming (its policy is
another product of the same steps), implicit connections and the connection selection dialog (they end
in the same `ChooseIapL` with another input), IAPs presumed available and IAPs with the same network
name, voice calls and GSM, offline mode, pop-up notes, `Joins`, `Activated` and
`IapConnectionStopped`, scans made for events, cached scans, failures of the database. The comparison
of home and visitor network is one setting. `IgnoredIsNotified`, `RefusedStaysRefused` and
`NodeAndTableAgree` are stated for connections of registered clients
whose offers have not crossed. In S60 MCPR the request queue and
the activities' own states: they follow the mesh machine's protocol, which is not in this repository.

In the PDP context manager: the linger of other IAPs, linger in segments, retries of the telephony
status, a bearer that is temporarily blocked, the registration update manager (not in the build).

In the settings server: names, icons, metadata, protection and capabilities, bearer priorities, virtual
connection methods, objects made with an id of the client's choice, handles on embedded destinations
through the connection method interface, failures and external deletions of CommsDat. They are
attributes of records whose life is modelled, or more inputs of the same steps.

In Connection Monitor: attributes that are answered at once, external circuit and packet switched
records, reconnection, the WLAN and telephony queries (a value each, asked of another server), client
lists, the synchronous stop of all, the limits on errors of notifiers and on ids (a stop of all waits for 16
connections at most: `TAsyncStopQueueElement::Add` drops the ids beyond, and is answered without
them), the server's delayed end.

The rest of section 1.1 is user interface, pure conversion, attribute access to CommsDat records, or
database writes without an interleaving; the data connection logger is one more client that writes a
log.
