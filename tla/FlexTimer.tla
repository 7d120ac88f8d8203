------------------------------ MODULE FlexTimer ------------------------------
(***************************************************************************)
(* The FlexTimer server (keepalive/flextimer/server): one active scheduler *)
(* thread that serves the sessions' timer requests from a list of timers,  *)
(* each with an expiry window, and one kernel wake-up timer.               *)
(*                                                                         *)
(* Every RunL or ServiceL of the thread is one handler; it runs to its end *)
(* before the next is dispatched, but the kernel, the clock and the        *)
(* clients run between any two of its steps.  handler.pc is the step that  *)
(* comes next: StartTimer and WakeUp call each other until nothing is due, *)
(* and arming the wake-up timer takes the steps UniversalTime and AtUTC.   *)
(*                                                                         *)
(* Times are Ints in units of the engine's resolution.  The list is a set: *)
(* the only use the code makes of its order is the order in which timers   *)
(* of one batch are completed.                                             *)
(***************************************************************************)
EXTENDS Integers

CONSTANTS
  Sessions,        \* the server's client sessions
  NoSession,       \* handler.s when the handler works for no session
  None,            \* no message
  MaxTimerLength,  \* KFlexTimerMaxTimerLength
  TickModulus,     \* User::TickCount() counts modulo this (2^32)
  MaxLatency,      \* bound: how late the thread may be in all between two readings
                   \*   of the ticks: in arming its wake-up timer and in serving it
  Lengths,         \* the intervals clients ask for
  WindowSizes,     \* the window sizes clients configure
  WindowNum, WindowDen,  \* KDefaultWindowMultiplier = WindowNum / WindowDen
  Offsets,         \* bound: the wall clock's offsets from the elapsed time,
  MaxOffset,       \*   none of them above MaxOffset
  MaxTime          \* bound: the horizon of the model's clock

Timer == [cb: Sessions, min: Int, max: Int, abort: BOOLEAN]
Promise == [abort: BOOLEAN, start: Int, due: Int]
Message == [at: BOOLEAN, value: Int]
AcceptedWindow == [start: Int, due: Int]  \* what the service keeps of a promise

ASSUME ConstantsAssumption ==
  /\ NoSession \notin Sessions
  /\ MaxTimerLength \in Nat /\ MaxLatency \in Nat \ {0} /\ MaxTime \in Nat
  /\ MaxOffset \in Nat /\ 0 \in Offsets /\ Offsets \subseteq 0 .. MaxOffset
  /\ TickModulus \in Nat \ {0} /\ MaxTimerLength + MaxLatency + MaxOffset < TickModulus
  /\ WindowNum \in Nat /\ WindowDen \in Nat \ {0} /\ WindowNum <= WindowDen
  /\ Lengths \subseteq Nat /\ WindowSizes \subseteq Int
  /\ None \notin Promise \cup Message \cup AcceptedWindow \cup WindowSizes

VARIABLES
  now,        \* the time that has really passed
  offset,     \* the wall clock is now + offset
  slip,       \* history: what the clock did while the wake-up timer was being
              \*   armed: the time that passed between the engine's reading of
              \*   the ticks and the reading of the wall clock, and how far the
              \*   wall clock was set back between that and the request
  lastTicks,  \* iLastTicks
  curTime,    \* iCurrentAbsoluteTime
  syncAt,     \* history: now at the last GetCurrentTime
  timerList,  \* iTimerList
  wakeup,     \* the kernel's request behind CFlexTimerWakeUpTimer
  handler,    \* the handler that runs in the server's thread
  conn,       \* the sessions: "closed", "open" or "panicked" clients
  winSize,    \* iTimerWinSize, None when iUseDefaultWin
  pending,    \* iPendingTimeoutMsg, with the window the client was promised
  sent,       \* timer requests sent and not yet served
  owed,       \* how many requests of the client are still to be completed
  result      \* the code of the last completion

clockVars == <<now, offset, slip>>
engineVars == <<lastTicks, curTime, syncAt, timerList, wakeup>>
sessionVars == <<conn, winSize, pending, sent, owed, result>>
vars == <<clockVars, engineVars, handler, sessionVars>>

Codes == {"none", "KErrNone", "KErrCancel", "KErrAbort", "KErrNoMemory"}

Idle == [pc |-> "idle", op |-> "none", s |-> NoSession, time |-> 0]
WakeUpOff == [st |-> "off", at |-> 0]

TypeOK ==
  /\ now \in 0 .. MaxTime /\ offset \in Offsets /\ slip \in Int
  /\ lastTicks \in 0 .. TickModulus - 1
  /\ curTime \in Nat /\ syncAt \in 0 .. now
  /\ timerList \subseteq Timer
  /\ wakeup \in [st: {"off", "armed", "expired", "aborted"}, at: Int]
  /\ handler \in [pc: {"idle", "StartTimer", "UniversalTime", "AtUTC", "WakeUp", "return"},
                  op: {"none", "Add", "Cancel", "Disconnect", "RunL"},
                  s: Sessions \cup {NoSession},
                  time: Int]  \* aInterval, then utcNow, of the wake-up timer's StartTimer
  /\ conn \in [Sessions -> {"closed", "open", "panicked"}]
  /\ winSize \in [Sessions -> WindowSizes \cup {None}]
  /\ pending \in [Sessions -> Promise \cup {None}]
  /\ sent \in [Sessions -> Message \cup {None}]
  /\ owed \in [Sessions -> Int]
  /\ result \in [Sessions -> Codes]

Init ==
  /\ now = 0 /\ offset = 0 /\ slip = 0
  /\ lastTicks = 0 /\ curTime = 0 /\ syncAt = 0
  /\ timerList = {} /\ wakeup = WakeUpOff /\ handler = Idle
  /\ conn = [s \in Sessions |-> "closed"]
  /\ winSize = [s \in Sessions |-> None]
  /\ pending = [s \in Sessions |-> None]
  /\ sent = [s \in Sessions |-> None]
  /\ owed = [s \in Sessions |-> 0]
  /\ result = [s \in Sessions |-> "none"]

-----------------------------------------------------------------------------
(* The timer container: its clock and its algorithms.                      *)

\* Mutant: the ticks subtracted as signed numbers.
SyncedTimeSigned == curTime + ((now % TickModulus) - lastTicks)

\* The engine's clock after GetCurrentTime: the ticks counted since the last
\* call are added, whatever the 32-bit counter did in between.
SyncedTime == curTime + (((now % TickModulus) - lastTicks) % TickModulus)

\* Mutant: the counter kept without its width.
GetCurrentTimeWide ==
  /\ curTime' = SyncedTime
  /\ lastTicks' = now
  /\ syncAt' = now

GetCurrentTime ==
  /\ curTime' = SyncedTime
  /\ lastTicks' = now % TickModulus
  /\ syncAt' = now

\* Mutant: timers are candidates before their window begins.
CandidatesEarly(list, t) == {i \in list : i.min - 1 <= t}

\* SimpleAlgorithm: the timers whose window has begun.
Candidates(list, t) == {i \in list : i.min <= t}

\* Mutant: candidates due together with a dropped timer are not put back.
FiredAtOnce(list, t) ==
  {i \in Candidates(list, t) : \A d \in list \ Candidates(list, t) : i.max <= d.max}

\* LatestPossibleAlgorithm: a candidate that can still wait for the first
\* dropped timer's deadline goes back to the list.
Fired(list, t) ==
  LET dropped == list \ Candidates(list, t)
  IN {i \in Candidates(list, t) : \A d \in dropped : i.max < d.max}

\* Mutant: the last deadline instead of the first.
IsLastTimeout(list, m) ==
  /\ \E i \in list : i.max = m
  /\ \A i \in list : m >= i.max

\* The deadline that GetNextTimeout finds.
IsNextTimeout(list, m) ==
  /\ \E i \in list : i.max = m
  /\ \A i \in list : m <= i.max

DefaultWindow(length) == (length * WindowNum) \div WindowDen

-----------------------------------------------------------------------------
(* Completing a pending message: RMessage2::Complete nulls it; a client    *)
(* that has been panicked hears nothing.                                   *)

Complete(S, code) ==
  LET C == {s \in S : pending[s] # None} IN
  /\ pending' = [s \in Sessions |-> IF s \in C THEN None ELSE pending[s]]
  /\ owed' = [s \in Sessions |->
       IF s \in C /\ conn[s] = "open" THEN owed[s] - 1 ELSE owed[s]]
  /\ result' = [s \in Sessions |-> IF s \in C THEN code ELSE result[s]]

-----------------------------------------------------------------------------
(* The clients.                                                            *)

\* The server object may be dispatched.  The wake-up timer is an active object
\* of the same priority added to the scheduler before it, so it goes first.
Dispatch == handler = Idle /\ wakeup.st \notin {"expired", "aborted"}

\* RFlexTimer::Connect and CFlexTimerServer::NewSessionL.
Connect(s) ==
  /\ conn[s] = "closed" /\ Dispatch
  /\ conn' = [conn EXCEPT ![s] = "open"]
  /\ winSize' = [winSize EXCEPT ![s] = None]
  /\ UNCHANGED <<clockVars, engineVars, handler, pending, sent, owed, result>>

\* RFlexTimer::At, AtUTC, After and AfterTicks send the request; At checks
\* that its time is not in the past on the client's side.
Request(s, at, length) ==
  /\ conn[s] = "open" /\ sent[s] = None
  /\ sent' = [sent EXCEPT
       ![s] = [at |-> at, value |-> IF at THEN now + offset + length ELSE length]]
  /\ owed' = [owed EXCEPT ![s] = @ + 1]
  /\ UNCHANGED <<clockVars, engineVars, handler, conn, winSize, pending, result>>

-----------------------------------------------------------------------------
(* The session's handlers.                                                 *)

Panic(s) ==
  /\ conn' = [conn EXCEPT ![s] = "panicked"]
  /\ owed' = [owed EXCEPT ![s] = 0]
  /\ sent' = [sent EXCEPT ![s] = None]

\* The interval to the requested time, from the wall clock for At and AtUTC.
Interval(m) == IF m.at THEN m.value - (now + offset) ELSE m.value

Window(s, length) == IF winSize[s] = None THEN DefaultWindow(length) ELSE winSize[s]

\* Mutant: the check is dropped.
AlwaysFree(s) == s \in Sessions

\* The check of every New..Timer handler.
NothingPending(s) == pending[s] = None

\* NewAtTimer .. NewAfterTicksTimer: a second request, or a value outside the
\* limits of DoAddTimer, panics the client and leaves the session as it is.
RejectTimer(s) ==
  /\ Dispatch /\ conn[s] = "open" /\ sent[s] # None
  /\ \/ ~NothingPending(s)
     \/ Interval(sent[s]) \notin 0 .. MaxTimerLength
  /\ Panic(s)
  /\ UNCHANGED <<clockVars, engineVars, handler, winSize, pending, result>>

\* DoAddTimer and CFlexTimerEngine::AddTimer up to the call of StartTimer.
AddTimer(s) ==
  LET length == Interval(sent[s])
      start == length - Window(s, length)
  IN
  /\ Dispatch /\ conn[s] = "open" /\ sent[s] # None /\ NothingPending(s)
  /\ length \in 0 .. MaxTimerLength
  /\ GetCurrentTime
  /\ timerList' = timerList \cup
       {[cb |-> s, min |-> SyncedTime + start, max |-> SyncedTime + length,
         abort |-> sent[s].at]}
  /\ pending' = [pending EXCEPT
       ![s] = [abort |-> sent[s].at, start |-> now + start, due |-> now + length]]
  /\ result' = [result EXCEPT ![s] = "none"]
  /\ sent' = [sent EXCEPT ![s] = None]
  /\ handler' = [pc |-> "StartTimer", op |-> "Add", s |-> s, time |-> 0]
  /\ UNCHANGED <<clockVars, wakeup, conn, winSize, owed>>

\* The same when CFlexTimerItem::NewL leaves: the clock has been read, the
\* message is completed with the error and StartTimer is not called.
AddTimerFails(s) ==
  /\ Dispatch /\ conn[s] = "open" /\ sent[s] # None /\ NothingPending(s)
  /\ Interval(sent[s]) \in 0 .. MaxTimerLength
  /\ GetCurrentTime
  /\ sent' = [sent EXCEPT ![s] = None]
  /\ owed' = [owed EXCEPT ![s] = @ - 1]
  /\ result' = [result EXCEPT ![s] = "KErrNoMemory"]
  /\ UNCHANGED <<clockVars, timerList, wakeup, handler, conn, winSize, pending>>

\* Mutant: the timer stays on the list.
RemoveNothing(s) == s \in Sessions /\ UNCHANGED timerList

\* CFlexTimerEngine::CancelTimer up to its StartTimer: RemoveTimer takes the
\* first timer of the session off the list.
RemoveTimer(s) ==
  IF \E i \in timerList : i.cb = s
  THEN \E i \in timerList : i.cb = s /\ timerList' = timerList \ {i}
  ELSE UNCHANGED timerList

\* CFlexTimerSession::CancelTimer, a synchronous call of a client whose earlier
\* request has been served; without a pending message it changes nothing.
CancelTimer(s) ==
  /\ Dispatch /\ conn[s] = "open" /\ sent[s] = None /\ pending[s] # None
  /\ RemoveTimer(s)
  /\ handler' = [pc |-> "StartTimer", op |-> "Cancel", s |-> s, time |-> 0]
  /\ UNCHANGED <<clockVars, lastTicks, curTime, syncAt, wakeup, sessionVars>>

\* ConfigureParameters; KErrInUse with a timer pending.  An illegal size is
\* stored before the client is panicked.
Configure(s, w) ==
  /\ Dispatch /\ conn[s] = "open" /\ sent[s] = None /\ pending[s] = None
  /\ winSize' = [winSize EXCEPT ![s] = w]
  /\ IF w \in 0 .. MaxTimerLength THEN UNCHANGED <<conn, owed, sent>> ELSE Panic(s)
  /\ UNCHANGED <<clockVars, engineVars, handler, pending, result>>

\* Disconnect, on RFlexTimer::Close or the death of the client.
Disconnect(s) ==
  /\ Dispatch /\ conn[s] # "closed" /\ sent[s] = None
  /\ RemoveTimer(s)
  /\ handler' = [pc |-> "StartTimer", op |-> "Disconnect", s |-> s, time |-> 0]
  /\ UNCHANGED <<clockVars, lastTicks, curTime, syncAt, wakeup, sessionVars>>

-----------------------------------------------------------------------------
(* The engine.                                                             *)

\* The handler goes on with the step pc.
GoOn(pc, time) == [pc |-> pc, op |-> handler.op, s |-> handler.s, time |-> time]

\* CFlexTimerEngine::StartTimer: StopTimer cancels the kernel's request, and
\* with it a completion that has not been dispatched; GetNextTimeout reads the
\* ticks; then the request is made anew, WakeUp is called, or there is nothing
\* to wait for.
StartTimer ==
  /\ handler.pc = "StartTimer"
  /\ GetCurrentTime
  /\ slip' = 0
  /\ wakeup' = WakeUpOff
  /\ \/ /\ timerList = {}
        /\ handler' = GoOn("return", 0)
     \/ \E m \in {i.max : i \in timerList} :
          /\ IsNextTimeout(timerList, m)
          /\ handler' = IF m > SyncedTime
                         THEN GoOn("UniversalTime", m - SyncedTime)
                         ELSE GoOn("WakeUp", 0)
  /\ UNCHANGED <<now, offset, timerList, sessionVars>>

\* CFlexTimerWakeUpTimer::StartTimer makes an instant of the interval, by the
\* wall clock of this moment, which is not the moment of the engine's reading...
UniversalTime ==
  /\ handler.pc = "UniversalTime"
  /\ handler' = GoOn("AtUTC", now + offset + handler.time)
  /\ UNCHANGED <<clockVars, engineVars, sessionVars>>

\* ... and asks the kernel for it.  The kernel goes by the wall clock it has
\* then; from the request on it reports a change of it.
AtUTC ==
  /\ handler.pc = "AtUTC"
  /\ wakeup' = [st |-> "armed", at |-> handler.time - offset]
  /\ handler' = GoOn("return", 0)
  /\ UNCHANGED <<clockVars, lastTicks, curTime, syncAt, timerList, sessionVars>>

\* CFlexTimerEngine::WakeUp with FireTimers and ExpireTimers.
WakeUp ==
  /\ handler.pc = "WakeUp"
  /\ GetCurrentTime
  /\ timerList' = timerList \ Fired(timerList, SyncedTime)
  /\ Complete({i.cb : i \in Fired(timerList, SyncedTime)}, "KErrNone")
  /\ handler' = GoOn("StartTimer", 0)
  /\ UNCHANGED <<clockVars, wakeup, conn, winSize, sent>>

\* Mutant: the wake-up is swallowed.
RunWakeUpSwallowed ==
  /\ handler = Idle /\ wakeup.st = "expired"
  /\ wakeup' = WakeUpOff
  /\ UNCHANGED <<clockVars, lastTicks, curTime, syncAt, timerList, handler, sessionVars>>

\* CFlexTimerWakeUpTimer::RunL after the kernel completed the request normally.
RunWakeUp ==
  /\ handler = Idle /\ wakeup.st = "expired"
  /\ wakeup' = WakeUpOff
  /\ handler' = [pc |-> "WakeUp", op |-> "RunL", s |-> NoSession, time |-> 0]
  /\ UNCHANGED <<clockVars, lastTicks, curTime, syncAt, timerList, sessionVars>>

\* RunL after KErrAbort: SystemTimeChanged and AbortTimersDueToTimeChange.
RunTimeChanged ==
  LET aborted == {i \in timerList : i.abort} IN
  /\ handler = Idle /\ wakeup.st = "aborted"
  /\ wakeup' = WakeUpOff
  /\ timerList' = timerList \ aborted
  /\ Complete({i.cb : i \in aborted}, "KErrAbort")
  /\ handler' = [pc |-> "StartTimer", op |-> "RunL", s |-> NoSession, time |-> 0]
  /\ UNCHANGED <<clockVars, lastTicks, curTime, syncAt, conn, winSize, sent>>

\* What is left of the handler when the engine returns to it.
Return ==
  LET s == handler.s IN
  /\ handler.pc = "return"
  /\ handler' = Idle
  /\ CASE handler.op = "Cancel" ->
            /\ Complete({s}, "KErrCancel")
            /\ UNCHANGED <<conn, winSize, sent>>
       [] handler.op = "Disconnect" ->
            /\ conn' = [conn EXCEPT ![s] = "closed"]
            /\ winSize' = [winSize EXCEPT ![s] = None]
            /\ pending' = [pending EXCEPT ![s] = None]
            /\ sent' = [sent EXCEPT ![s] = None]
            /\ owed' = [owed EXCEPT ![s] = 0]
            /\ result' = [result EXCEPT ![s] = "none"]
       [] OTHER -> UNCHANGED sessionVars
  /\ UNCHANGED <<clockVars, engineVars>>

-----------------------------------------------------------------------------
(* The kernel.                                                             *)

\* Time passes.  While timers are queued the server reads the tick counter at
\* least every MaxTimerLength + MaxLatency, and the offsets' range: its wake-up
\* timer is never armed further away than MaxTimerLength and the slip.
Tick ==
  /\ now < MaxTime
  /\ timerList # {} => now - syncAt < MaxTimerLength + MaxLatency + MaxOffset
  /\ handler.pc = "UniversalTime" => slip < MaxLatency
  /\ now' = now + 1
  /\ slip' = IF handler.pc = "UniversalTime" THEN slip + 1 ELSE slip
  /\ UNCHANGED <<offset, engineVars, handler, sessionVars>>

\* The kernel completes the wake-up timer's AtUTC request: at its time, or at
\* once with an error if that has passed.  RunL takes both for the wake-up.
KernelTimer ==
  /\ wakeup.st = "armed" /\ now >= wakeup.at
  /\ wakeup' = [wakeup EXCEPT !.st = "expired"]
  /\ UNCHANGED <<clockVars, lastTicks, curTime, syncAt, timerList, handler, sessionVars>>

\* The system time is set: an outstanding AtUTC completes with KErrAbort, one
\* that is only about to be made does not.
SetTime ==
  /\ offset' \in Offsets \ {offset}
  /\ slip' = IF handler.pc = "AtUTC" THEN slip + (offset - offset') ELSE slip
  /\ wakeup' = IF wakeup.st = "armed" THEN [wakeup EXCEPT !.st = "aborted"] ELSE wakeup
  /\ UNCHANGED <<now, lastTicks, curTime, syncAt, timerList, handler, sessionVars>>

-----------------------------------------------------------------------------
Next ==
  \/ \E s \in Sessions :
       \/ Connect(s) \/ Disconnect(s) \/ CancelTimer(s)
       \/ AddTimer(s) \/ AddTimerFails(s) \/ RejectTimer(s)
       \/ \E at \in BOOLEAN, length \in Lengths : Request(s, at, length)
       \/ \E w \in WindowSizes : Configure(s, w)
  \/ StartTimer \/ UniversalTime \/ AtUTC \/ WakeUp \/ Return
  \/ RunWakeUp \/ RunTimeChanged
  \/ Tick \/ KernelTimer \/ SetTime

Spec == Init /\ [][Next]_vars

\* The thread serves every message and every completed request; the kernel
\* completes timers; time passes.  Clients may stop.
Fairness ==
  /\ WF_vars(StartTimer \/ UniversalTime \/ AtUTC \/ WakeUp \/ Return)
  /\ WF_vars(RunWakeUp) /\ WF_vars(RunTimeChanged)
  /\ \A s \in Sessions : SF_vars(AddTimer(s) \/ AddTimerFails(s) \/ RejectTimer(s))
  /\ WF_vars(Tick) /\ WF_vars(KernelTimer)

FairSpec == Spec /\ Fairness

-----------------------------------------------------------------------------
(* Properties.                                                             *)

TimersOf(s) == {i \in timerList : i.cb = s}

\* The session the running handler has already taken off the list.
Withdrawing(s) == handler.op \in {"Cancel", "Disconnect"} /\ handler.s = s

\* iPendingTimeoutMsg and the engine's list agree at every step of every
\* handler: a session has one queued timer while its message is pending, apart
\* from the rest of its own cancellation, and none otherwise.  A timer without
\* a message would fire for nobody; a message without a timer never completes.
PendingIsQueued ==
  \A s \in Sessions :
    IF pending[s] = None \/ Withdrawing(s) THEN TimersOf(s) = {}
    ELSE \E i \in timerList :
           TimersOf(s) = {i} /\ i.abort = pending[s].abort

\* Every request of a live client is completed exactly once: what is owed to
\* the client is what it has sent plus the message the session keeps.
OwedIsHeld ==
  \A s \in Sessions :
    conn[s] = "open" =>
      owed[s] = (IF sent[s] = None THEN 0 ELSE 1) + (IF pending[s] = None THEN 0 ELSE 1)

\* The engine's clock, kept from a tick counter that wraps, measures real time
\* for every queued timer: what is left of it in engine time at the last
\* reading of the counter is what was really left then.
EngineClockExact ==
  \A i \in timerList :
    /\ i.max - curTime = pending[i.cb].due - syncAt
    /\ i.min - curTime = pending[i.cb].start - syncAt

\* When no handler runs the engine cannot sleep through a deadline: the kernel
\* timer runs, or has completed, and nothing runs when nothing is queued.  It is
\* no later than the first due time by more than what the clock itself did while
\* it was being armed: the time that passed between the reading of the ticks
\* and that of the wall clock, and how far the wall clock was set back before
\* the kernel had the request, which then goes unreported.
WakeUpCoversDeadlines ==
  handler = Idle =>
    /\ timerList = {} <=> wakeup.st = "off"
    /\ \A i \in timerList : wakeup.at <= pending[i.cb].due + slip

\* The clients see the promised service: windows in real time, never early,
\* in batches that could not have waited for one another.
Service == INSTANCE FlexTimerService WITH
  clock <- now,
  request <- [s \in Sessions |->
                IF pending[s] = None \/ Withdrawing(s) THEN None
                ELSE [start |-> pending[s].start, due |-> pending[s].due]],
  outcome <- result,
  MaxLength <- MaxTimerLength

ImplementsService == Service!Spec

\* The same for a behaviour that starts with timers already queued.
ServiceSteps == [][Service!Next]_(Service!vars)

\* StartTimer and WakeUp call each other only finitely often: each handler
\* returns to the active scheduler.
HandlersReturn == handler.pc # "idle" ~> handler.pc = "idle"

\* A pending request whose due time lies before the model's horizon is
\* completed: by expiry, cancellation, abort or disconnection.
PendingCompletes ==
  \A s \in Sessions :
    (pending[s] # None /\ pending[s].due + MaxLatency + MaxOffset < MaxTime) ~> pending[s] = None

\* Everybody gets on: the engine's handlers and the clients that wait.
ServiceGoesOn == HandlersReturn /\ PendingCompletes
=============================================================================
