------------------------ MODULE FlexTimerServiceProofs ------------------------
(***************************************************************************)
(* The FlexTimer server implements the service of FlexTimerService: every  *)
(* step is a step of the service or changes nothing the clients see.       *)
(***************************************************************************)
EXTENDS FlexTimerProofs

\* The service's variable request.
Asked == [s \in Sessions |->
            IF pending[s] = None \/ Withdrawing(s) THEN None
            ELSE [start |-> pending[s].start, due |-> pending[s].due]]

\* A client that is not panicked has configured a legal window.
WindowInv ==
  \A s \in Sessions :
    conn[s] = "open" => winSize[s] = None \/ winSize[s] \in 0 .. MaxTimerLength

\* The default window is not longer than the interval.
LEMMA DefaultWindowBound ==
  ASSUME NEW length \in Nat
  PROVE  DefaultWindow(length) \in 0 .. length
PROOF
  <1> DEFINE a == length * WindowNum
  <1>0. WindowNum \in Nat /\ WindowDen \in Nat \ {0} /\ WindowNum <= WindowDen
    BY ConstantsAssumption
  <1>1. a \in Int /\ 0 <= a /\ a <= WindowDen * length
    BY <1>0, SMTT(20)
  <1> HIDE DEF a
  <1>2. a \div WindowDen \in Int /\ a % WindowDen \in 0 .. WindowDen - 1
        /\ a = WindowDen * (a \div WindowDen) + (a % WindowDen)
    BY <1>0, <1>1
  <1>3. PICK q \in Int, r \in 0 .. WindowDen - 1 :
          a \div WindowDen = q /\ a = WindowDen * q + r
    BY <1>2
  <1>4. q >= 0
    <2> SUFFICES ASSUME q <= -1 PROVE FALSE
      BY <1>3
    <2>1. WindowDen * q <= WindowDen * (-1)
      BY <1>0, SMTT(20)
    <2> QED
      BY <1>0, <1>1, <1>3, <2>1
  <1>5. q <= length
    <2> SUFFICES ASSUME q >= length + 1 PROVE FALSE
      BY <1>3
    <2>1. WindowDen * q >= WindowDen * (length + 1)
      BY <1>0, SMTT(20)
    <2>2. WindowDen * (length + 1) = WindowDen * length + WindowDen
      BY <1>0
    <2>3. WindowDen * q \in Int /\ WindowDen * length \in Int
      BY <1>0
    <2>4. WindowDen * q <= a
      BY <1>3, <2>3
    <2> QED
      BY <1>0, <1>1, <2>1, <2>2, <2>3, <2>4
  <1> QED
    BY <1>3, <1>4, <1>5 DEF DefaultWindow, a

LEMMA WindowBound ==
  ASSUME TypeOK, WindowInv, NEW s \in Sessions, conn[s] = "open",
         NEW length \in 0 .. MaxTimerLength
  PROVE  Window(s, length) \in 0 .. MaxTimerLength
PROOF
  <1>1. MaxTimerLength \in Nat /\ length \in Nat
    BY ConstantsAssumption
  <1>2. DefaultWindow(length) \in 0 .. length
    BY <1>1, DefaultWindowBound
  <1> QED
    BY <1>1, <1>2 DEF Window, WindowInv

LEMMA WindowStep ==
  ASSUME TypeOK, WindowInv, [Next]_vars
  PROVE  WindowInv'
PROOF
  <1> USE DEF WindowInv
  <1>1. ASSUME NEW s \in Sessions, Connect(s) PROVE WindowInv'
    BY <1>1 DEF Connect, TypeOK
  <1>2. ASSUME NEW s \in Sessions, Configure(s, winSize'[s]), winSize'[s] \in WindowSizes
        PROVE  WindowInv'
    BY <1>2 DEF Configure, Panic, TypeOK
  <1>3. ASSUME NEW s \in Sessions, RejectTimer(s) PROVE WindowInv'
    BY <1>3 DEF RejectTimer, Panic, TypeOK
  <1>4. CASE Return
    BY <1>4 DEF Return, sessionVars, TypeOK
  <1>5. CASE UNCHANGED <<conn, winSize>>
    BY <1>5
  <1>6. ASSUME NEW s \in Sessions, NEW w \in WindowSizes, Configure(s, w)
        PROVE  winSize'[s] = w
    BY <1>6 DEF Configure, TypeOK
  <1> QED
    BY <1>1, <1>2, <1>3, <1>4, <1>5, <1>6
       DEF Next, vars, sessionVars, Disconnect, CancelTimer, AddTimer, AddTimerFails,
           Request, StartTimer, UniversalTime, AtUTC, WakeUp, RunWakeUp, RunTimeChanged, Tick,
           KernelTimer, SetTime

\* What the service sees of an outstanding request.
LEMMA AskedWindow ==
  ASSUME NEW s \in Sessions, pending[s] # None, ~Withdrawing(s)
  PROVE  Asked[s].start = pending[s].start /\ Asked[s].due = pending[s].due
PROOF
  <1>1. Asked[s] = [start |-> pending[s].start, due |-> pending[s].due]
    BY DEF Asked
  <1> QED
    BY <1>1

\* A session whose message is neither gone nor withdrawn is outstanding.
LEMMA OutstandingAsked ==
  ASSUME TypeOK, NEW s \in Sessions
  PROVE  Asked[s] # None <=> pending[s] # None /\ ~Withdrawing(s)
PROOF
  <1>1. CASE pending[s] # None /\ ~Withdrawing(s)
    <2>1. pending[s] \in Promise
      BY <1>1 DEF TypeOK
    <2>2. [start |-> pending[s].start, due |-> pending[s].due] \in AcceptedWindow
      BY <2>1 DEF Promise, AcceptedWindow
    <2> QED
      BY <1>1, <2>2, ConstantsAssumption DEF Asked
  <1>2. CASE ~(pending[s] # None /\ ~Withdrawing(s))
    BY <1>2 DEF Asked
  <1> QED
    BY <1>1, <1>2

\* Nothing changes for the clients.
LEMMA SameAsked ==
  ASSUME UNCHANGED <<now, result>>,
         \A s \in Sessions : /\ (Withdrawing(s) <=> Withdrawing(s)')
                             /\ (pending'[s] = None <=> pending[s] = None)
                             /\ pending[s] # None => /\ pending'[s].start = pending[s].start
                                                     /\ pending'[s].due = pending[s].due
  PROVE  UNCHANGED Service!vars
PROOF
  <1>1. Asked' = Asked
    BY DEF Asked
  <1> QED
    BY <1>1 DEF Service!vars, Asked

\* Requests are withdrawn; no outcome becomes that of an expiry.
LEMMA WithdrawStep ==
  ASSUME TypeOK', now' = now,
         \A s \in Sessions : Asked'[s] \in {None, Asked[s]},
         \A s \in Sessions : result'[s] # result[s] => result'[s] # "KErrNone"
  PROVE  Service!Withdraw
PROOF
  <1>1. DOMAIN Asked' = Sessions /\ DOMAIN result' = Sessions
    BY DEF Asked, TypeOK
  <1> QED
    BY <1>1 DEF Service!Withdraw, Service!Expired, Asked

\* AddTimer accepts a request with a legal window.
LEMMA AcceptStep ==
  ASSUME TypeOK, TypeOK', QueueInv, WindowInv, NEW s \in Sessions, AddTimer(s)
  PROVE  Service!Accept(s)
PROOF
  <1>1. PICK p \in Promise, length \in 0 .. MaxTimerLength :
          /\ pending' = [pending EXCEPT ![s] = p]
          /\ p.due = now + length /\ p.start = now + length - Window(s, length)
    BY AddTimerEffect
  <1>2. Window(s, length) \in 0 .. MaxTimerLength
    BY WindowBound DEF AddTimer
  <1>3. now \in Int /\ MaxTimerLength \in Nat /\ length \in Int
    BY ConstantsAssumption DEF TypeOK
  <1>4. handler = Idle /\ handler'.op = "Add" /\ pending[s] = None /\ p # None
    BY ConstantsAssumption DEF AddTimer, Dispatch, NothingPending
  <1>5. Asked' = [Asked EXCEPT ![s] = [start |-> p.start, due |-> now + length]]
    <2>1. \A t \in Sessions : ~Withdrawing(t) /\ ~Withdrawing(t)'
      BY <1>4 DEF Withdrawing, Idle
    <2>2. pending'[s] = p /\ \A t \in Sessions \ {s} : pending'[t] = pending[t]
      BY <1>1 DEF TypeOK
    <2> QED
      BY <1>1, <1>4, <2>1, <2>2 DEF Asked
  <1>6. p.start \in (now + length - MaxTimerLength) .. (now + length)
    BY <1>1, <1>2, <1>3
  <1>7. Asked[s] = None
    BY <1>4 DEF Asked
  <1>8. result' = [result EXCEPT ![s] = "none"] /\ now' = now
    BY DEF AddTimer, clockVars
  <1> QED
    BY <1>5, <1>6, <1>7, <1>8 DEF Service!Accept, Asked

\* A timer that fires has a shorter deadline than every timer that stays.
LEMMA FiredBeforeKept ==
  ASSUME TypeOK, NEW t \in Int,
         NEW i \in Fired(timerList, t), NEW j \in timerList \ Fired(timerList, t)
  PROVE  i \in timerList /\ i.min <= t /\ i.max < j.max
PROOF
  <1> DEFINE dropped == timerList \ Candidates(timerList, t)
  <1>1. \A k \in timerList : k.max \in Int /\ k.min \in Int
    BY DEF TypeOK, Timer
  <1>2. i \in timerList /\ i.min <= t /\ \A d \in dropped : i.max < d.max
    BY DEF Fired, Candidates
  <1>3. CASE j \in dropped
    BY <1>2, <1>3
  <1>4. CASE j \notin dropped
    <2>1. PICK d \in dropped : ~(j.max < d.max)
      BY <1>4 DEF Fired
    <2> QED
      BY <1>1, <1>2, <2>1
  <1> QED
    BY <1>2, <1>3, <1>4

\* WakeUp expires a batch, or nothing.
LEMMA ExpireStep ==
  ASSUME TypeOK, TypeOK', QueueInv, ClockInv, WakeUp
  PROVE  (\E B \in SUBSET Sessions : Service!Expire(B)) \/ UNCHANGED Service!vars
PROOF
  <1> DEFINE F == Fired(timerList, SyncedTime)
             B == {i.cb : i \in F}
  <1>1. F \subseteq timerList
    BY DEF Fired, Candidates
  <1>2. /\ now' = now /\ handler'.op = handler.op /\ handler'.s = handler.s
        /\ Complete(B, "KErrNone")
    BY DEF WakeUp, GoOn, TypeOK, clockVars
  <1>3. \A s \in Sessions :
          /\ pending'[s] = IF s \in B THEN None ELSE pending[s]
          /\ result'[s] = IF s \in B /\ pending[s] # None THEN "KErrNone" ELSE result[s]
    BY <1>2, CompleteEffect DEF Complete, TypeOK
  <1>4. SyncedTime \in Int
    BY SyncedTimeType
  <1> HIDE DEF F
  <1>5. \A i \in F : i.cb \in Sessions /\ pending[i.cb] # None /\ ~Withdrawing(i.cb)
    BY <1>1 DEF TypeOK, Timer, QueueInv, TimersArePending
  <1>6. B \subseteq Sessions /\ \A s \in B : Asked[s] # None
    BY <1>5, OutstandingAsked
  <1>7. \A s \in Sessions : Withdrawing(s)' <=> Withdrawing(s)
    BY <1>2 DEF Withdrawing
  <1>8. CASE B = {}
    <2>1. result' = result
      BY <1>2, <1>8 DEF Complete, TypeOK
    <2> QED
      BY <1>2, <1>3, <1>7, <1>8, <2>1, SameAsked
  <1>9. CASE B # {}
    <2> DEFINE Out == {s \in Sessions : Asked[s] # None}
    <2>1. B \subseteq Out
      BY <1>6
    <2>2. ASSUME NEW s \in B
          PROVE  Asked[s].start <= now
      <3>1. PICK i \in F : i.cb = s
        OBVIOUS
      <3>2. i.min <= SyncedTime /\ i \in timerList
        BY <1>1 DEF F, Fired, Candidates
      <3>3. i.min - SyncedTime = pending[s].start - now /\ i.min \in Int
            /\ pending[s].start \in Int
        BY <3>1, <3>2, ReadingIsExact, QueuedPromise
      <3>4. Asked[s].start = pending[s].start
        BY <1>5, <3>1, AskedWindow
      <3> QED
        BY <1>4, <3>2, <3>3, <3>4 DEF TypeOK
    <2>3. ASSUME NEW s \in B, NEW r \in Out \ B
          PROVE  Asked[s].due < Asked[r].due
      <3>1. PICK i \in F : i.cb = s
        OBVIOUS
      <3>2. pending[r] # None /\ ~Withdrawing(r) /\ r \in Sessions
        BY OutstandingAsked
      <3>3. PICK j \in timerList : j.cb = r
        BY <3>2 DEF QueueInv, PendingAreQueued
      <3>4. j \in timerList \ F /\ i \in timerList
        BY <1>1, <2>3, <3>3
      <3>5. i.max < j.max
        BY <1>4, <3>4, FiredBeforeKept DEF F
      <3>6. i.max - SyncedTime = pending[s].due - now /\ j.max - SyncedTime = pending[r].due - now
            /\ i.max \in Int /\ j.max \in Int
            /\ pending[s].due \in Int /\ pending[r].due \in Int
        BY <3>1, <3>3, <3>4, ReadingIsExact, QueuedPromise
      <3>7. Asked[s].due = pending[s].due /\ Asked[r].due = pending[r].due
        BY <1>5, <3>1, <3>2, AskedWindow
      <3> QED
        BY <1>4, <3>5, <3>6, <3>7 DEF TypeOK
    <2>4. Asked' = [s \in Sessions |-> IF s \in B THEN None ELSE Asked[s]]
      BY <1>3, <1>7 DEF Asked
    <2>5. result' = [s \in Sessions |-> IF s \in B THEN "KErrNone" ELSE result[s]]
      BY <1>3, <1>5 DEF TypeOK
    <2> HIDE DEF B, Out
    <2>6. /\ B # {} /\ B \subseteq Out
          /\ \A s \in B : Asked[s].start <= now
          /\ \A s \in B, r \in Out \ B : Asked[s].due < Asked[r].due
          /\ Asked' = [s \in Sessions |-> IF s \in B THEN None ELSE Asked[s]]
          /\ result' = [s \in Sessions |-> IF s \in B THEN "KErrNone" ELSE result[s]]
          /\ UNCHANGED now
      BY <1>2, <1>9, <2>1, <2>2, <2>3, <2>4, <2>5
    <2>7. PICK C \in SUBSET Sessions : C = B
      BY <1>6
    <2>8. Service!Expire(C)
      BY <2>6, <2>7 DEF Service!Expire, Service!Outstanding, Service!Expired, Asked, Out
    <2> QED
      BY <2>8
  <1> QED
    BY <1>8, <1>9

\* Every step of the server is a step of the service or a stuttering step of it.
LEMMA ServiceStep ==
  ASSUME TypeOK, TypeOK', QueueInv, ClockInv, WindowInv, [Next]_vars
  PROVE  [Service!Next]_(Service!vars)
PROOF
  <1>1. ASSUME NEW s \in Sessions, Connect(s) PROVE UNCHANGED Service!vars
    BY <1>1, SameAsked DEF Connect, clockVars, Withdrawing
  <1>2. ASSUME NEW s \in Sessions, Disconnect(s) PROVE Service!Withdraw
    <2>1. now' = now /\ pending' = pending /\ result' = result
      BY <1>2 DEF Disconnect, clockVars, sessionVars
    <2>2. \A t \in Sessions : ~Withdrawing(t)
      BY <1>2 DEF Disconnect, Dispatch, Idle, Withdrawing
    <2> QED
      BY <2>1, <2>2, WithdrawStep DEF Asked
  <1>3. ASSUME NEW s \in Sessions, CancelTimer(s) PROVE Service!Withdraw
    <2>1. now' = now /\ pending' = pending /\ result' = result
      BY <1>3 DEF CancelTimer, clockVars, sessionVars
    <2>2. \A t \in Sessions : ~Withdrawing(t)
      BY <1>3 DEF CancelTimer, Dispatch, Idle, Withdrawing
    <2> QED
      BY <2>1, <2>2, WithdrawStep DEF Asked
  <1>4. ASSUME NEW s \in Sessions, AddTimer(s) PROVE Service!Accept(s)
    BY <1>4, AcceptStep
  <1>5. ASSUME NEW s \in Sessions, AddTimerFails(s) PROVE Service!Withdraw
    <2>1. /\ UNCHANGED <<now, pending, handler>>
          /\ result' = [result EXCEPT ![s] = "KErrNoMemory"]
      BY <1>5 DEF AddTimerFails, clockVars
    <2> QED
      BY <2>1, WithdrawStep DEF Asked, Withdrawing, TypeOK
  <1>6. ASSUME NEW s \in Sessions, RejectTimer(s) PROVE UNCHANGED Service!vars
    BY <1>6, SameAsked DEF RejectTimer, clockVars, Withdrawing
  <1>7. ASSUME NEW s \in Sessions, NEW at \in BOOLEAN, NEW length \in Lengths,
               Request(s, at, length)
        PROVE  UNCHANGED Service!vars
    BY <1>7, SameAsked DEF Request, clockVars, Withdrawing
  <1>8. ASSUME NEW s \in Sessions, NEW w \in WindowSizes, Configure(s, w)
        PROVE  UNCHANGED Service!vars
    BY <1>8, SameAsked DEF Configure, clockVars, Withdrawing
  <1>9. CASE StartTimer
    <2>1. handler'.op = handler.op /\ handler'.s = handler.s
      BY <1>9 DEF StartTimer, GoOn, TypeOK
    <2> QED
      BY <1>9, <2>1, SameAsked DEF StartTimer, sessionVars, Withdrawing
  <1>10. CASE WakeUp
    <2>1. (\E B \in SUBSET Sessions : Service!Expire(B)) \/ UNCHANGED Service!vars
      BY <1>10, ExpireStep
    <2> QED
      BY <2>1 DEF Service!Next
  <1>11. CASE RunWakeUp
    BY <1>11, SameAsked DEF RunWakeUp, clockVars, sessionVars, Withdrawing, Idle
  <1>12. CASE RunTimeChanged
    <2> DEFINE S == {i.cb : i \in {t \in timerList : t.abort}}
    <2>1. Complete(S, "KErrAbort") /\ now' = now /\ handler = Idle /\ handler'.op = "RunL"
      BY <1>12 DEF RunTimeChanged, clockVars
    <2> HIDE DEF S
    <2>2. \A s \in Sessions : pending'[s] \in {None, pending[s]}
      BY <2>1, CompleteEffect
    <2>3. \A s \in Sessions : result'[s] \in {result[s], "KErrAbort"}
      BY <2>1 DEF Complete, TypeOK
    <2> QED
      BY <2>1, <2>2, <2>3, WithdrawStep DEF Asked, Withdrawing, Idle, Service!Next
  <1>13. CASE Return
    <2>1. now' = now /\ \A s \in Sessions : ~Withdrawing(s)'
      BY <1>13 DEF Return, clockVars, Idle, Withdrawing
    <2>2. ASSUME handler.op = "Cancel" PROVE Service!Withdraw
      <3>1. Complete({handler.s}, "KErrCancel")
        BY <1>13, <2>2 DEF Return
      <3>2. \A s \in Sessions : pending'[s] = IF Withdrawing(s) THEN None ELSE pending[s]
        BY <2>2, <3>1, CompleteEffect DEF Withdrawing
      <3>3. \A s \in Sessions : result'[s] \in {result[s], "KErrCancel"}
        BY <3>1 DEF Complete, TypeOK
      <3> QED
        BY <2>1, <3>2, <3>3, WithdrawStep DEF Asked
    <2>3. ASSUME handler.op = "Disconnect" PROVE Service!Withdraw
      <3>1. \A s \in Sessions : pending'[s] = IF Withdrawing(s) THEN None ELSE pending[s]
        BY <1>13, <2>3 DEF Return, Withdrawing, TypeOK
      <3>2. \A s \in Sessions : result'[s] \in {result[s], "none"}
        BY <1>13, <2>3 DEF Return, TypeOK
      <3> QED
        BY <2>1, <3>1, <3>2, WithdrawStep DEF Asked
    <2>4. ASSUME handler.op \notin {"Cancel", "Disconnect"} PROVE Service!Withdraw
      <3>1. UNCHANGED <<pending, result>> /\ \A s \in Sessions : ~Withdrawing(s)
        BY <1>13, <2>4 DEF Return, sessionVars, Withdrawing
      <3> QED
        BY <2>1, <3>1, WithdrawStep DEF Asked
    <2>5. Service!Withdraw
      BY <2>2, <2>3, <2>4
    <2> QED
      BY <2>5 DEF Service!Next
  <1>14. CASE Tick
    <2>1. now' = now + 1 /\ UNCHANGED <<pending, handler, result>>
      BY <1>14 DEF Tick, sessionVars
    <2>2. Service!Tick
      BY <2>1 DEF Service!Tick, Withdrawing
    <2> QED
      BY <2>2 DEF Service!Next
  <1>15. CASE KernelTimer
    BY <1>15, SameAsked DEF KernelTimer, clockVars, sessionVars, Withdrawing
  <1>16. CASE SetTime
    <2>1. UNCHANGED <<now, result, handler>>
      BY <1>16 DEF SetTime, sessionVars
    <2> QED
      BY <1>16, <2>1, SetTimeEffect, SameAsked DEF Withdrawing
  <1>17. CASE UNCHANGED vars
    BY <1>17, SameAsked DEF vars, clockVars, sessionVars, Withdrawing
  <1>18. CASE UniversalTime
    <2>1. handler'.op = handler.op /\ handler'.s = handler.s
      BY <1>18 DEF UniversalTime, GoOn, TypeOK
    <2> QED
      BY <1>18, <2>1, SameAsked DEF UniversalTime, clockVars, sessionVars, Withdrawing
  <1>19. CASE AtUTC
    <2>1. handler'.op = handler.op /\ handler'.s = handler.s
      BY <1>19 DEF AtUTC, GoOn, TypeOK
    <2> QED
      BY <1>19, <2>1, SameAsked DEF AtUTC, clockVars, sessionVars, Withdrawing
  <1> QED
    BY <1>1, <1>2, <1>3, <1>4, <1>5, <1>6, <1>7, <1>8, <1>9, <1>10, <1>11, <1>12,
       <1>13, <1>14, <1>15, <1>16, <1>17, <1>18, <1>19 DEF Next, Service!Next

\* The clients see the service of FlexTimerService: windows in real time that end
\* within the limit, no early expiry, and batches as large as the windows allow
\* (ImplementsService).
THEOREM Implementation == Spec => ImplementsService
PROOF
  <1>1. Init => WindowInv /\ Service!Init
    BY DEF Init, WindowInv, Service!Init
  <1>2. TypeOK /\ WindowInv /\ [Next]_vars => WindowInv'
    BY WindowStep
  <1>3. TypeOK /\ TypeOK' /\ EngineInv /\ WindowInv /\ [Next]_vars
          => [Service!Next]_(Service!vars)
    BY ServiceStep DEF EngineInv
  <1> QED
    BY <1>1, <1>2, <1>3, EngineInvariant, PTL
       DEF Spec, ImplementsService, Service!Spec

\* Each step alone, also of a behaviour that begins with timers already queued:
\* what the engine has promised so far is all a step relies on, so no batch could
\* have been larger whatever led to it.
LEMMA StepsFromThere ==
  TypeOK /\ EngineInv /\ WindowInv /\ [][Next]_vars => ServiceSteps
PROOF
  <1>1. TypeOK /\ [Next]_vars => TypeOK'
    BY TypeStep
  <1>2. TypeOK /\ TypeOK' /\ EngineInv /\ WindowInv /\ [Next]_vars
          => EngineInv' /\ WindowInv' /\ [Service!Next]_(Service!vars)
    BY QueueStep, ClockStep, SleepStep, WindowStep, ServiceStep DEF EngineInv
  <1> QED
    BY <1>1, <1>2, PTL DEF ServiceSteps

\* No accepted window is longer than the limit, no timer of a batch could have
\* waited for one that stays, and nothing else ends a request silently (ServiceSteps).
THEOREM StepsServe == Spec => ServiceSteps
PROOF
  <1>1. ImplementsService => ServiceSteps
    BY PTL DEF ImplementsService, ServiceSteps, Service!Spec
  <1> QED
    BY <1>1, Implementation
=============================================================================
