---------------------------- MODULE FlexTimerProofs ----------------------------
(***************************************************************************)
(* Proofs about FlexTimer for any number of sessions, any window sizes and *)
(* any width of the tick counter: types; the pending messages and the      *)
(* engine's list of timers, two records of the same requests, each of      *)
(* which is completed once; the engine's clock, which measures real time,  *)
(* and its wake-up timer, which covers every deadline.                     *)
(***************************************************************************)
EXTENDS FlexTimer, TLAPS

USE DEF Timer, Promise, Message, Codes

\* Division with remainder.
LEMMA Division ==
  ASSUME NEW M \in Nat \ {0}, NEW a \in Int
  PROVE  \E q \in Int, r \in 0 .. M - 1 : a % M = r /\ a = M * q + r
PROOF
  <1>1. a \div M \in Int /\ a % M \in 0 .. M - 1 /\ a = M * (a \div M) + (a % M)
    OBVIOUS
  <1> QED
    BY <1>1

\* A multiple of M between -M and M is zero.
LEMMA SmallMultiple ==
  ASSUME NEW M \in Nat \ {0}, NEW k \in Int, M * k < M, -M < M * k
  PROVE  M * k = 0
PROOF
  <1>1. CASE k >= 1
    <2>1. M * k >= M * 1
      BY <1>1, SMTT(20)
    <2> QED
      BY <2>1
  <1>2. CASE k <= -1
    <2>1. M * k <= M * (-1)
      BY <1>2, SMTT(20)
    <2> QED
      BY <2>1
  <1> QED
    BY <1>1, <1>2

\* The difference of two counts of a counter that wraps at M, taken modulo M, is
\* the difference of the times, if that is less than M (GetCurrentTime).
LEMMA WrappedDifference ==
  ASSUME NEW M \in Nat \ {0}, NEW a \in Int, NEW b \in Int,
         0 <= a - b, a - b < M
  PROVE  ((a % M) - (b % M)) % M = a - b
PROOF
  <1>1. PICK p \in Int, u \in 0 .. M - 1 : a % M = u /\ a = M * p + u
    BY Division
  <1>2. PICK q \in Int, v \in 0 .. M - 1 : b % M = v /\ b = M * q + v
    BY Division
  <1>3. PICK r \in Int, w \in 0 .. M - 1 : (u - v) % M = w /\ u - v = M * r + w
    <2>1. u - v \in Int
      OBVIOUS
    <2> QED
      BY <2>1, Division
  <1>4. M * (p - q + r) = M * p - M * q + M * r
    OBVIOUS
  <1>5. M * (p - q + r) = (a - b) - w
    <2>1. a = M * p + u /\ b = M * q + v /\ u - v = M * r + w
      BY <1>1, <1>2, <1>3
    <2>2. M * p \in Int /\ M * q \in Int /\ M * r \in Int
      OBVIOUS
    <2>3. M * p - M * q + M * r = (a - b) - w
      BY <2>1, <2>2
    <2> QED
      BY <1>4, <2>3
  <1>6. M * (p - q + r) = 0
    BY <1>5, SmallMultiple
  <1> QED
    BY <1>1, <1>2, <1>3, <1>5, <1>6
\* Reading the tick counter keeps the engine's clock a natural number and the
\* remembered count inside the counter's width (GetCurrentTime).
LEMMA SyncedTimeType ==
  ASSUME TypeOK
  PROVE  /\ SyncedTime \in Nat
         /\ now % TickModulus \in 0 .. TickModulus - 1
PROOF
  <1>1. TickModulus \in Nat \ {0} /\ now \in Nat /\ lastTicks \in Int
    BY ConstantsAssumption DEF TypeOK
  <1>2. now % TickModulus \in 0 .. TickModulus - 1
    BY <1>1
  <1>3. ((now % TickModulus) - lastTicks) % TickModulus \in 0 .. TickModulus - 1
    BY <1>1, <1>2
  <1> QED
    BY <1>1, <1>2, <1>3 DEF TypeOK, SyncedTime

\* A timer value inside DoAddTimer's limits gives a window with Int bounds.
LEMMA WindowType ==
  ASSUME TypeOK, NEW s \in Sessions, NEW length \in Int
  PROVE  Window(s, length) \in Int
PROOF
  <1>1. CASE winSize[s] = None
    <2>1. (length * WindowNum) \in Int
      BY ConstantsAssumption
    <2>2. DefaultWindow(length) \in Int
      BY <2>1, ConstantsAssumption DEF DefaultWindow
    <2> QED
      BY <1>1, <2>2 DEF Window
  <1>2. CASE winSize[s] # None
    <2>1. winSize[s] \in WindowSizes
      BY <1>2 DEF TypeOK
    <2> QED
      BY <1>2, <2>1, ConstantsAssumption DEF Window
  <1> QED
    BY <1>1, <1>2

\* What AddTimer puts on the list and keeps for the client: two records of one
\* window, the one in the engine's time and the other in real time.
LEMMA AddTimerEffect ==
  ASSUME TypeOK, NEW s \in Sessions, AddTimer(s)
  PROVE  \E new \in Timer, p \in Promise, length \in 0 .. MaxTimerLength :
           /\ length = Interval(sent[s])
           /\ timerList' = timerList \cup {new}
           /\ pending' = [pending EXCEPT ![s] = p]
           /\ new.cb = s /\ new.abort = p.abort
           /\ new.max = SyncedTime + length /\ new.min = SyncedTime + length - Window(s, length)
           /\ p.due = now + length /\ p.start = now + length - Window(s, length)
PROOF
  <1> DEFINE length == Interval(sent[s])
             window == Window(s, length)
             new == [cb |-> s, min |-> SyncedTime + (length - window),
                     max |-> SyncedTime + length, abort |-> sent[s].at]
             p == [abort |-> sent[s].at, start |-> now + (length - window),
                   due |-> now + length]
  <1>1. sent[s] \in Message /\ length \in 0 .. MaxTimerLength
    BY DEF AddTimer, TypeOK
  <1>2. length \in Int
    BY <1>1, ConstantsAssumption
  <1>3. window \in Int
    BY <1>2, WindowType
  <1>4. timerList' = timerList \cup {new} /\ pending' = [pending EXCEPT ![s] = p]
    BY DEF AddTimer
  <1> HIDE DEF length, window
  <1>5. sent[s].at \in BOOLEAN
    BY <1>1
  <1>6. now \in Int /\ SyncedTime \in Int
    BY SyncedTimeType DEF TypeOK
  <1>7. new \in Timer /\ p \in Promise
    BY <1>2, <1>3, <1>5, <1>6
  <1>8. /\ new.cb = s /\ new.abort = p.abort
        /\ new.max = SyncedTime + length /\ new.min = SyncedTime + length - window
        /\ p.due = now + length /\ p.start = now + length - window
    BY <1>2, <1>3, <1>6
  <1>9. length = Interval(sent[s]) /\ window = Window(s, length)
    BY DEF length, window
  <1> HIDE DEF new, p
  <1> QED
    BY <1>1, <1>4, <1>7, <1>8, <1>9

\* Completing messages keeps the types of the session's variables.
LEMMA CompleteType ==
  ASSUME TypeOK, NEW S, NEW code \in Codes, Complete(S, code)
  PROVE  /\ pending' \in [Sessions -> Promise \cup {None}]
         /\ owed' \in [Sessions -> Int]
         /\ result' \in [Sessions -> Codes]
PROOF
  BY DEF Complete, TypeOK

\* A step keeps the types.
LEMMA TypeStep == TypeOK /\ [Next]_vars => TypeOK'
PROOF
  <1> SUFFICES ASSUME TypeOK, [Next]_vars PROVE TypeOK'
    OBVIOUS
  <1> USE ConstantsAssumption
  <1>0. GetCurrentTime => /\ lastTicks' \in 0 .. TickModulus - 1
                          /\ curTime' \in Nat /\ syncAt' \in 0 .. now
    BY SyncedTimeType DEF GetCurrentTime, TypeOK
  <1>1. ASSUME NEW s \in Sessions, Connect(s) PROVE TypeOK'
    BY <1>1 DEF Connect, TypeOK, clockVars, engineVars
  <1>2. ASSUME NEW s \in Sessions, Disconnect(s) PROVE TypeOK'
    BY <1>2 DEF Disconnect, RemoveTimer, TypeOK, clockVars, sessionVars
  <1>3. ASSUME NEW s \in Sessions, CancelTimer(s) PROVE TypeOK'
    BY <1>3 DEF CancelTimer, RemoveTimer, TypeOK, clockVars, sessionVars
  <1>4. ASSUME NEW s \in Sessions, AddTimer(s) PROVE TypeOK'
    <2>1. PICK new \in Timer, p \in Promise :
            timerList' = timerList \cup {new} /\ pending' = [pending EXCEPT ![s] = p]
      BY <1>4, AddTimerEffect
    <2>2. timerList' \subseteq Timer /\ pending' \in [Sessions -> Promise \cup {None}]
      BY <2>1 DEF TypeOK
    <2> QED
      BY <1>4, <1>0, <2>2 DEF AddTimer, TypeOK, clockVars
  <1>5. ASSUME NEW s \in Sessions, AddTimerFails(s) PROVE TypeOK'
    BY <1>5, <1>0 DEF AddTimerFails, TypeOK, clockVars
  <1>6. ASSUME NEW s \in Sessions, RejectTimer(s) PROVE TypeOK'
    BY <1>6 DEF RejectTimer, Panic, TypeOK, clockVars, engineVars
  <1>7. ASSUME NEW s \in Sessions, NEW at \in BOOLEAN, NEW length \in Lengths,
               Request(s, at, length)
        PROVE TypeOK'
    <2>1. length \in Int /\ now + offset + length \in Int
      BY DEF TypeOK
    <2> QED
      BY <1>7, <2>1 DEF Request, TypeOK, clockVars, engineVars
  <1>8. ASSUME NEW s \in Sessions, NEW w \in WindowSizes, Configure(s, w)
        PROVE TypeOK'
    BY <1>8 DEF Configure, Panic, TypeOK, clockVars, engineVars
  <1>9. CASE StartTimer
    <2>1. ASSUME NEW i \in timerList
          PROVE i.max - SyncedTime \in Int
      BY SyncedTimeType DEF TypeOK
    <2>2. handler' \in [pc: {"idle", "StartTimer", "UniversalTime", "AtUTC", "WakeUp", "return"},
                        op: {"none", "Add", "Cancel", "Disconnect", "RunL"},
                        s: Sessions \cup {NoSession}, time: Int]
      BY <1>9, <2>1 DEF StartTimer, GoOn, TypeOK
    <2> QED
      BY <1>9, <1>0, <2>2 DEF StartTimer, GoOn, TypeOK, WakeUpOff, sessionVars
  <1>10. CASE WakeUp
    <2>1. Complete({i.cb : i \in Fired(timerList, SyncedTime)}, "KErrNone")
      BY <1>10 DEF WakeUp
    <2>2. /\ pending' \in [Sessions -> Promise \cup {None}]
          /\ owed' \in [Sessions -> Int] /\ result' \in [Sessions -> Codes]
      BY <2>1, CompleteType
    <2> QED
      BY <1>10, <1>0, <2>2 DEF WakeUp, GoOn, TypeOK, clockVars
  <1>11. CASE RunWakeUp
    BY <1>11 DEF RunWakeUp, TypeOK, WakeUpOff, clockVars, sessionVars
  <1>12. CASE RunTimeChanged
    <2>1. Complete({i.cb : i \in {t \in timerList : t.abort}}, "KErrAbort")
      BY <1>12 DEF RunTimeChanged
    <2>2. /\ pending' \in [Sessions -> Promise \cup {None}]
          /\ owed' \in [Sessions -> Int] /\ result' \in [Sessions -> Codes]
      BY <2>1, CompleteType
    <2> QED
      BY <1>12, <2>2 DEF RunTimeChanged, TypeOK, WakeUpOff, clockVars
  <1>13. CASE Return
    <2>1. CASE handler.op = "Cancel"
      <3>1. Complete({handler.s}, "KErrCancel") /\ UNCHANGED <<conn, winSize, sent>>
        BY <1>13, <2>1 DEF Return
      <3>2. /\ pending' \in [Sessions -> Promise \cup {None}]
            /\ owed' \in [Sessions -> Int] /\ result' \in [Sessions -> Codes]
        BY <3>1, CompleteType
      <3> QED
        BY <1>13, <3>1, <3>2 DEF Return, TypeOK, Idle, clockVars, engineVars
    <2>2. CASE handler.op = "Disconnect"
      BY <1>13, <2>2 DEF Return, TypeOK, Idle, clockVars, engineVars
    <2>3. CASE handler.op \notin {"Cancel", "Disconnect"}
      BY <1>13, <2>3 DEF Return, TypeOK, Idle, clockVars, engineVars, sessionVars
    <2> QED
      BY <2>1, <2>2, <2>3
  <1>14. CASE Tick
    BY <1>14 DEF Tick, TypeOK, engineVars, sessionVars
  <1>15. CASE KernelTimer
    BY <1>15 DEF KernelTimer, TypeOK, clockVars, sessionVars
  <1>16. CASE SetTime
    <2>1. offset \in Int /\ offset' \in Int
      BY <1>16 DEF SetTime, TypeOK
    <2> QED
      BY <1>16, <2>1 DEF SetTime, TypeOK, sessionVars
  <1>17. CASE UNCHANGED vars
    BY <1>17 DEF vars, clockVars, engineVars, sessionVars, TypeOK
  <1>18. CASE UniversalTime
    BY <1>18 DEF UniversalTime, GoOn, TypeOK, clockVars, engineVars, sessionVars
  <1>19. CASE AtUTC
    BY <1>19 DEF AtUTC, GoOn, TypeOK, clockVars, sessionVars
  <1> QED
    BY <1>1, <1>2, <1>3, <1>4, <1>5, <1>6, <1>7, <1>8, <1>9, <1>10, <1>11, <1>12,
       <1>13, <1>14, <1>15, <1>16, <1>17, <1>18, <1>19 DEF Next

\* The types of all variables, for every number of sessions (TypeOK).
THEOREM TypeCorrect == Spec => []TypeOK
PROOF
  <1>1. Init => TypeOK
    BY ConstantsAssumption DEF Init, TypeOK, Idle, WakeUpOff
  <1>2. TypeOK /\ [Next]_vars => TypeOK'
    BY TypeStep
  <1> QED
    BY <1>1, <1>2, PTL DEF Spec

---------------------------------------------------------------------------------
(* The queue and the messages *)

\* Every queued timer is that of a pending message that nobody is withdrawing.
TimersArePending ==
  \A i \in timerList :
    /\ pending[i.cb] # None /\ ~Withdrawing(i.cb)
    /\ i.abort = pending[i.cb].abort

OneTimerEach == \A i, j \in timerList : i.cb = j.cb => i = j

PendingAreQueued ==
  \A s \in Sessions :
    pending[s] # None /\ ~Withdrawing(s) => \E i \in timerList : i.cb = s

QueueInv == TimersArePending /\ OneTimerEach /\ PendingAreQueued

\* PendingIsQueued in a form that the steps of the proofs take apart.
LEMMA QueueInvEquivalent ==
  ASSUME TypeOK
  PROVE  QueueInv <=> PendingIsQueued
PROOF
  <1>1. \A i \in timerList : i.cb \in Sessions
    BY DEF TypeOK, Timer
  <1>2. ASSUME QueueInv PROVE PendingIsQueued
    <2>1. ASSUME NEW s \in Sessions, pending[s] = None \/ Withdrawing(s)
          PROVE  TimersOf(s) = {}
      BY <1>2, <2>1 DEF QueueInv, TimersArePending, TimersOf
    <2>2. ASSUME NEW s \in Sessions, ~(pending[s] = None \/ Withdrawing(s))
          PROVE  \E i \in timerList : TimersOf(s) = {i} /\ i.abort = pending[s].abort
      <3>1. PICK i \in timerList : i.cb = s
        BY <1>2, <2>2 DEF QueueInv, PendingAreQueued
      <3>2. TimersOf(s) = {i}
        BY <1>2, <3>1 DEF QueueInv, OneTimerEach, TimersOf
      <3>3. i.abort = pending[s].abort
        BY <1>2, <3>1 DEF QueueInv, TimersArePending
      <3> QED
        BY <3>2, <3>3
    <2> QED
      BY <2>1, <2>2 DEF PendingIsQueued
  <1>3. ASSUME PendingIsQueued PROVE QueueInv
    <2>1. \A i \in timerList : i \in TimersOf(i.cb)
      BY DEF TimersOf
    <2>2. TimersArePending
      BY <1>1, <1>3, <2>1 DEF PendingIsQueued, TimersArePending
    <2>3. OneTimerEach
      <3> SUFFICES ASSUME NEW i \in timerList, NEW j \in timerList, i.cb = j.cb
                   PROVE  i = j
        BY DEF OneTimerEach
      <3>1. i \in TimersOf(i.cb) /\ j \in TimersOf(i.cb)
        BY <2>1
      <3>2. pending[i.cb] # None /\ ~Withdrawing(i.cb)
        BY <2>2 DEF TimersArePending
      <3>3. PICK k \in timerList : TimersOf(i.cb) = {k}
        BY <1>1, <1>3, <3>2 DEF PendingIsQueued
      <3> QED
        BY <3>1, <3>3
    <2>4. PendingAreQueued
      <3> SUFFICES ASSUME NEW s \in Sessions, pending[s] # None, ~Withdrawing(s)
                   PROVE  \E i \in timerList : i.cb = s
        BY DEF PendingAreQueued
      <3>1. PICK k \in timerList : TimersOf(s) = {k}
        BY <1>3 DEF PendingIsQueued
      <3> QED
        BY <3>1 DEF TimersOf
    <2> QED
      BY <2>2, <2>3, <2>4 DEF QueueInv
  <1> QED
    BY <1>2, <1>3

\* What Complete leaves pending.
LEMMA CompleteEffect ==
  ASSUME TypeOK, NEW S, NEW code, Complete(S, code), NEW s \in Sessions
  PROVE  pending'[s] = IF s \in S THEN None ELSE pending[s]
PROOF
  BY DEF Complete, TypeOK

\* A change of the system time touches no window.
LEMMA SetTimeEffect ==
  ASSUME TypeOK, SetTime, NEW s \in Sessions
  PROVE  /\ pending'[s] = None <=> pending[s] = None
         /\ pending[s] # None => /\ pending'[s].abort = pending[s].abort
                                 /\ pending'[s].start = pending[s].start
                                 /\ pending'[s].due = pending[s].due
PROOF
  BY DEF SetTime, sessionVars

\* Taking a session's timer off the list leaves the others and none of its own.
LEMMA RemoveTimerEffect ==
  ASSUME QueueInv, NEW s \in Sessions, RemoveTimer(s)
  PROVE  timerList' = {i \in timerList : i.cb # s}
PROOF
  BY DEF QueueInv, OneTimerEach, RemoveTimer

LEMMA QueueStep ==
  ASSUME TypeOK, TypeOK', QueueInv, [Next]_vars
  PROVE  QueueInv'
PROOF
  <1> USE DEF QueueInv, TimersArePending, OneTimerEach, PendingAreQueued, Withdrawing
  <1>0. \A i \in timerList : i.cb \in Sessions
    BY DEF TypeOK, Timer
  <1>1. ASSUME NEW s \in Sessions, Connect(s) PROVE QueueInv'
    BY <1>1 DEF Connect, engineVars
  <1>2. ASSUME NEW s \in Sessions, Disconnect(s) PROVE QueueInv'
    <2>1. timerList' = {i \in timerList : i.cb # s}
      BY <1>2, RemoveTimerEffect DEF Disconnect
    <2>2. pending' = pending /\ handler = Idle
          /\ handler' = [pc |-> "StartTimer", op |-> "Disconnect", s |-> s, time |-> 0]
      BY <1>2 DEF Disconnect, sessionVars, Dispatch
    <2> QED
      BY <1>0, <2>1, <2>2 DEF Idle
  <1>3. ASSUME NEW s \in Sessions, CancelTimer(s) PROVE QueueInv'
    <2>1. timerList' = {i \in timerList : i.cb # s}
      BY <1>3, RemoveTimerEffect DEF CancelTimer
    <2>2. pending' = pending /\ handler = Idle
          /\ handler' = [pc |-> "StartTimer", op |-> "Cancel", s |-> s, time |-> 0]
      BY <1>3 DEF CancelTimer, sessionVars, Dispatch
    <2> QED
      BY <1>0, <2>1, <2>2 DEF Idle
  <1>4. ASSUME NEW s \in Sessions, AddTimer(s) PROVE QueueInv'
    <2>1. PICK new \in Timer, p \in Promise :
            /\ timerList' = timerList \cup {new} /\ pending' = [pending EXCEPT ![s] = p]
            /\ new.cb = s /\ new.abort = p.abort
      BY <1>4, AddTimerEffect
    <2>2. /\ pending[s] = None /\ p # None /\ pending'[s] = p
          /\ \A t \in Sessions \ {s} : pending'[t] = pending[t]
      BY <1>4, <2>1, ConstantsAssumption DEF AddTimer, NothingPending, TypeOK
    <2>3. handler = Idle /\ handler'.op = "Add"
      BY <1>4 DEF AddTimer, Dispatch
    <2> QED
      BY <1>0, <2>1, <2>2, <2>3 DEF Idle
  <1>5. ASSUME NEW s \in Sessions, AddTimerFails(s) PROVE QueueInv'
    BY <1>5 DEF AddTimerFails
  <1>6. ASSUME NEW s \in Sessions, RejectTimer(s) PROVE QueueInv'
    BY <1>6 DEF RejectTimer, engineVars
  <1>7. ASSUME NEW s \in Sessions, NEW at \in BOOLEAN, NEW length \in Lengths,
               Request(s, at, length)
        PROVE  QueueInv'
    BY <1>7 DEF Request, engineVars
  <1>8. ASSUME NEW s \in Sessions, NEW w \in WindowSizes, Configure(s, w)
        PROVE  QueueInv'
    BY <1>8 DEF Configure, engineVars
  <1>9. CASE StartTimer
    <2>1. handler'.op = handler.op /\ handler'.s = handler.s
      BY <1>9 DEF StartTimer, GoOn, TypeOK
    <2> QED
      BY <1>9, <2>1 DEF StartTimer, sessionVars
  <1>10. CASE WakeUp
    <2> DEFINE F == Fired(timerList, SyncedTime)
    <2>1. F \subseteq timerList
      BY DEF Fired, Candidates
    <2>2. \A s \in Sessions :
            pending'[s] = IF s \in {i.cb : i \in F} THEN None ELSE pending[s]
      BY <1>10, CompleteEffect DEF WakeUp
    <2>3. handler'.op = handler.op /\ handler'.s = handler.s
      BY <1>10 DEF WakeUp, GoOn, TypeOK
    <2>4. timerList' = timerList \ F
      BY <1>10 DEF WakeUp
    <2> HIDE DEF F
    <2>5. \A i \in timerList \ F : i.cb \notin {j.cb : j \in F}
      BY <2>1
    <2> QED
      BY <1>0, <2>1, <2>2, <2>3, <2>4, <2>5
  <1>11. CASE RunWakeUp
    BY <1>11 DEF RunWakeUp, Idle, sessionVars
  <1>12. CASE RunTimeChanged
    <2> DEFINE F == {i \in timerList : i.abort}
    <2>1. F \subseteq timerList
      OBVIOUS
    <2>2. \A s \in Sessions :
            pending'[s] = IF s \in {i.cb : i \in F} THEN None ELSE pending[s]
      BY <1>12, CompleteEffect DEF RunTimeChanged
    <2>3. handler = Idle /\ handler'.op = "RunL"
      BY <1>12 DEF RunTimeChanged
    <2>4. timerList' = timerList \ F
      BY <1>12 DEF RunTimeChanged
    <2> HIDE DEF F
    <2>5. \A i \in timerList \ F : i.cb \notin {j.cb : j \in F}
      BY <2>1
    <2> QED
      BY <1>0, <2>1, <2>2, <2>3, <2>4, <2>5 DEF Idle
  <1>13. CASE Return
    <2>1. timerList' = timerList /\ handler'.op = "none"
      BY <1>13 DEF Return, engineVars, Idle
    <2>2. \A s \in Sessions :
            pending'[s] = IF Withdrawing(s) THEN None ELSE pending[s]
      <3>1. CASE handler.op = "Cancel"
        BY <1>13, <3>1, CompleteEffect DEF Return
      <3>2. CASE handler.op = "Disconnect"
        BY <1>13, <3>2 DEF Return, TypeOK
      <3>3. CASE handler.op \notin {"Cancel", "Disconnect"}
        BY <1>13, <3>3 DEF Return, sessionVars
      <3> QED
        BY <3>1, <3>2, <3>3
    <2> QED
      BY <1>0, <2>1, <2>2
  <1>14. CASE Tick
    BY <1>14 DEF Tick, engineVars, sessionVars
  <1>15. CASE KernelTimer
    BY <1>15 DEF KernelTimer, sessionVars
  <1>16. CASE SetTime
    <2>1. timerList' = timerList /\ handler' = handler
      BY <1>16 DEF SetTime
    <2> QED
      BY <1>0, <1>16, <2>1, SetTimeEffect
  <1>17. CASE UNCHANGED vars
    BY <1>17 DEF vars, engineVars, sessionVars
  <1>18. CASE UniversalTime
    <2>1. handler'.op = handler.op /\ handler'.s = handler.s
      BY <1>18 DEF UniversalTime, GoOn, TypeOK
    <2> QED
      BY <1>18, <2>1 DEF UniversalTime, engineVars, sessionVars
  <1>19. CASE AtUTC
    <2>1. handler'.op = handler.op /\ handler'.s = handler.s
      BY <1>19 DEF AtUTC, GoOn, TypeOK
    <2> QED
      BY <1>19, <2>1 DEF AtUTC, sessionVars
  <1> QED
    BY <1>1, <1>2, <1>3, <1>4, <1>5, <1>6, <1>7, <1>8, <1>9, <1>10, <1>11, <1>12,
       <1>13, <1>14, <1>15, <1>16, <1>17, <1>18, <1>19 DEF Next

\* At every step of every handler a session has one queued timer while its
\* message is pending, and none otherwise (PendingIsQueued).
THEOREM QueueCorrect == Spec => []PendingIsQueued
PROOF
  <1>1. Init => QueueInv
    BY DEF Init, QueueInv, TimersArePending, OneTimerEach, PendingAreQueued
  <1>2. TypeOK /\ TypeOK' /\ QueueInv /\ [Next]_vars => QueueInv'
    BY QueueStep
  <1>3. TypeOK /\ QueueInv => PendingIsQueued
    BY QueueInvEquivalent
  <1> QED
    BY <1>1, <1>2, <1>3, TypeCorrect, PTL DEF Spec

-----------------------------------------------------------------------------
Count(m) == IF m = None THEN 0 ELSE 1

\* What is owed to a session that is open, and nothing to one that is not yet.
OwedTo(s) ==
  /\ conn[s] = "open" => owed[s] = Count(sent[s]) + Count(pending[s])
  /\ conn[s] = "closed" => owed[s] = 0 /\ sent[s] = None /\ pending[s] = None

OwedInv == \A s \in Sessions : OwedTo(s)

\* Completing messages pays for each that was pending.
LEMMA CompletePays ==
  ASSUME TypeOK, TypeOK', OwedInv, NEW S, NEW code, Complete(S, code),
         UNCHANGED <<conn, sent>>
  PROVE  OwedInv'
PROOF
  <1> SUFFICES ASSUME NEW s \in Sessions PROVE OwedTo(s)'
    BY DEF OwedInv
  <1>1. OwedTo(s) /\ owed[s] \in Int
    BY DEF OwedInv, TypeOK
  <1>2. pending'[s] = IF s \in S THEN None ELSE pending[s]
    BY CompleteEffect
  <1>3. owed'[s] = IF s \in S /\ pending[s] # None /\ conn[s] = "open"
                   THEN owed[s] - 1 ELSE owed[s]
    BY DEF Complete, TypeOK
  <1> QED
    BY <1>1, <1>2, <1>3 DEF OwedTo, Count

LEMMA OwedStep ==
  ASSUME TypeOK, TypeOK', OwedInv, [Next]_vars
  PROVE  OwedInv'
PROOF
  <1>0. \A t \in Sessions : OwedTo(t) /\ owed[t] \in Int
    BY DEF OwedInv, TypeOK
  <1>1. ASSUME NEW s \in Sessions, Connect(s) PROVE OwedInv'
    BY <1>0, <1>1 DEF Connect, OwedInv, OwedTo, Count, TypeOK
  <1>2. ASSUME NEW s \in Sessions, Disconnect(s) PROVE OwedInv'
    BY <1>0, <1>2 DEF Disconnect, sessionVars, OwedInv, OwedTo, Count
  <1>3. ASSUME NEW s \in Sessions, CancelTimer(s) PROVE OwedInv'
    BY <1>0, <1>3 DEF CancelTimer, sessionVars, OwedInv, OwedTo, Count
  <1>4. ASSUME NEW s \in Sessions, AddTimer(s) PROVE OwedInv'
    <2>1. PICK p \in Promise : pending' = [pending EXCEPT ![s] = p]
      BY <1>4, AddTimerEffect
    <2>2. p # None /\ pending[s] = None
      BY <1>4, ConstantsAssumption DEF AddTimer, NothingPending
    <2>3. /\ conn[s] = "open" /\ sent[s] # None
          /\ sent' = [sent EXCEPT ![s] = None] /\ UNCHANGED <<conn, owed>>
      BY <1>4 DEF AddTimer
    <2> QED
      BY <1>0, <2>1, <2>2, <2>3 DEF OwedInv, OwedTo, Count, TypeOK
  <1>5. ASSUME NEW s \in Sessions, AddTimerFails(s) PROVE OwedInv'
    <2>1. /\ conn[s] = "open" /\ sent[s] # None
          /\ sent' = [sent EXCEPT ![s] = None] /\ UNCHANGED <<conn, pending>>
          /\ owed' = [owed EXCEPT ![s] = @ - 1]
      BY <1>5 DEF AddTimerFails
    <2> QED
      BY <1>0, <2>1 DEF OwedInv, OwedTo, Count, TypeOK
  <1>6. ASSUME NEW s \in Sessions, RejectTimer(s) PROVE OwedInv'
    BY <1>0, <1>6 DEF RejectTimer, Panic, OwedInv, OwedTo, Count, TypeOK
  <1>7. ASSUME NEW s \in Sessions, NEW at \in BOOLEAN, NEW length \in Lengths,
               Request(s, at, length)
        PROVE  OwedInv'
    <2>1. /\ conn[s] = "open" /\ sent[s] = None
          /\ owed' = [owed EXCEPT ![s] = @ + 1] /\ UNCHANGED <<conn, pending>>
          /\ \A t \in Sessions \ {s} : sent'[t] = sent[t]
      BY <1>7 DEF Request, TypeOK
    <2>2. sent'[s] \in Message
      <3>1. length \in Int /\ now + offset + length \in Int
        BY ConstantsAssumption DEF TypeOK
      <3>2. sent'[s] = [at |-> at, value |-> IF at THEN now + offset + length ELSE length]
        BY <1>7 DEF Request, TypeOK
      <3> QED
        BY <3>1, <3>2 DEF Message
    <2>3. sent'[s] # None
      BY <2>2, ConstantsAssumption
    <2> QED
      BY <1>0, <2>1, <2>3 DEF OwedInv, OwedTo, Count, TypeOK
  <1>8. ASSUME NEW s \in Sessions, NEW w \in WindowSizes, Configure(s, w)
        PROVE  OwedInv'
    BY <1>0, <1>8 DEF Configure, Panic, OwedInv, OwedTo, Count, TypeOK
  <1>9. CASE StartTimer
    BY <1>0, <1>9 DEF StartTimer, sessionVars, OwedInv, OwedTo, Count
  <1>10. CASE WakeUp
    BY <1>10, CompletePays DEF WakeUp
  <1>11. CASE RunWakeUp
    BY <1>0, <1>11 DEF RunWakeUp, sessionVars, OwedInv, OwedTo, Count
  <1>12. CASE RunTimeChanged
    BY <1>12, CompletePays DEF RunTimeChanged
  <1>13. CASE Return
    <2>1. CASE handler.op = "Cancel"
      BY <1>13, <2>1, CompletePays DEF Return
    <2>2. CASE handler.op = "Disconnect"
      BY <1>0, <1>13, <2>2 DEF Return, OwedInv, OwedTo, Count, TypeOK
    <2>3. CASE handler.op \notin {"Cancel", "Disconnect"}
      BY <1>0, <1>13, <2>3 DEF Return, sessionVars, OwedInv, OwedTo, Count
    <2> QED
      BY <2>1, <2>2, <2>3
  <1>14. CASE Tick
    BY <1>0, <1>14 DEF Tick, sessionVars, OwedInv, OwedTo, Count
  <1>15. CASE KernelTimer
    BY <1>0, <1>15 DEF KernelTimer, sessionVars, OwedInv, OwedTo, Count
  <1>16. CASE SetTime
    <2>1. UNCHANGED <<conn, sent, owed>>
      BY <1>16 DEF SetTime, sessionVars
    <2>2. \A t \in Sessions : pending'[t] = None <=> pending[t] = None
      BY <1>16, SetTimeEffect
    <2> QED
      BY <1>0, <2>1, <2>2 DEF OwedInv, OwedTo, Count
  <1>17. CASE UNCHANGED vars
    BY <1>0, <1>17 DEF vars, sessionVars, OwedInv, OwedTo, Count
  <1>18. CASE UniversalTime
    BY <1>0, <1>18 DEF UniversalTime, sessionVars, OwedInv, OwedTo, Count
  <1>19. CASE AtUTC
    BY <1>0, <1>19 DEF AtUTC, sessionVars, OwedInv, OwedTo, Count
  <1> QED
    BY <1>1, <1>2, <1>3, <1>4, <1>5, <1>6, <1>7, <1>8, <1>9, <1>10, <1>11, <1>12,
       <1>13, <1>14, <1>15, <1>16, <1>17, <1>18, <1>19 DEF Next

\* What is owed to an open client is what it has sent plus the message the session
\* keeps: each request is completed once (OwedIsHeld).
THEOREM OwedCorrect == Spec => []OwedIsHeld
PROOF
  <1>1. Init => OwedInv
    BY DEF Init, OwedInv, OwedTo, Count
  <1>2. TypeOK /\ TypeOK' /\ OwedInv /\ [Next]_vars => OwedInv'
    BY OwedStep
  <1>3. OwedInv => OwedIsHeld
    BY DEF OwedInv, OwedTo, Count, OwedIsHeld
  <1> QED
    BY <1>1, <1>2, <1>3, TypeCorrect, PTL DEF Spec

---------------------------------------------------------------------------------
(* The clock and the wake-up timer *)

\* The counter is the one of the last reading, and while timers are queued that
\* reading is not older than the counter's width.
CounterInv ==
  /\ lastTicks = syncAt % TickModulus
  /\ timerList # {} => now - syncAt <= MaxTimerLength + MaxLatency + MaxOffset

\* A timer has as far to go in engine time as its message in real time.
ExactFor(i) ==
  /\ i.max - curTime = pending[i.cb].due - syncAt
  /\ i.min - curTime = pending[i.cb].start - syncAt

ClockInv == CounterInv /\ \A i \in timerList : ExactFor(i)

\* No queued timer is due before t, but for what the clock slips.
DueFrom(t) == \A i \in timerList : t <= pending[i.cb].due + slip

\* The wake-up request that is out when no engine code runs, and the instant it
\* is going to be made for while it is being armed.
SleepInv ==
  /\ handler.pc = "UniversalTime" => timerList # {} /\ DueFrom(now + handler.time)
  /\ handler.pc = "AtUTC" => timerList # {} /\ DueFrom(handler.time - offset)
  /\ handler.pc \in {"idle", "return"} =>
       /\ timerList = {} <=> wakeup.st = "off"
       /\ DueFrom(wakeup.at)

\* A queued timer's message is there, with a window.
LEMMA QueuedPromise ==
  ASSUME TypeOK, QueueInv, NEW i \in timerList
  PROVE  /\ i \in Timer /\ i.cb \in Sessions
         /\ i.max \in Int /\ i.min \in Int
         /\ pending[i.cb] \in Promise
         /\ pending[i.cb].due \in Int /\ pending[i.cb].start \in Int
PROOF
  <1>1. i \in Timer /\ i.cb \in Sessions /\ i.max \in Int /\ i.min \in Int
    BY DEF TypeOK, Timer
  <1>2. pending[i.cb] \in Promise
    BY <1>1 DEF TypeOK, QueueInv, TimersArePending
  <1> QED
    BY <1>1, <1>2 DEF Promise

\* With timers queued the counter tells how much time has really passed.
LEMMA SyncedTimeExact ==
  ASSUME TypeOK, CounterInv, timerList # {}
  PROVE  SyncedTime = curTime + (now - syncAt)
PROOF
  <1>1. TickModulus \in Nat \ {0} /\ now \in Int /\ syncAt \in Int
        /\ 0 <= now - syncAt /\ now - syncAt < TickModulus
    BY ConstantsAssumption DEF TypeOK, CounterInv
  <1>2. ((now % TickModulus) - (syncAt % TickModulus)) % TickModulus = now - syncAt
    BY <1>1, WrappedDifference
  <1> QED
    BY <1>2 DEF SyncedTime, CounterInv

\* What a timer has left in engine time when the counter is read.
LEMMA ReadingIsExact ==
  ASSUME TypeOK, QueueInv, ClockInv, NEW i \in timerList
  PROVE  /\ i.max - SyncedTime = pending[i.cb].due - now
         /\ i.min - SyncedTime = pending[i.cb].start - now
PROOF
  <1>1. SyncedTime = curTime + (now - syncAt) /\ ExactFor(i)
    BY SyncedTimeExact DEF ClockInv
  <1>2. curTime \in Int /\ now \in Int /\ syncAt \in Int
    BY DEF TypeOK
  <1> QED
    BY <1>1, <1>2, QueuedPromise DEF ExactFor

\* Reading the counter keeps the clock exact for the timers that stay.
LEMMA ReadingKeepsClock ==
  ASSUME TypeOK, QueueInv, ClockInv, GetCurrentTime, now' = now,
         timerList' \subseteq timerList,
         \A i \in timerList' : pending'[i.cb] = pending[i.cb]
  PROVE  ClockInv'
PROOF
  <1>1. now \in Nat /\ MaxTimerLength + MaxLatency + MaxOffset \in Nat
    BY ConstantsAssumption DEF TypeOK
  <1>2. CounterInv'
    BY <1>1 DEF CounterInv, GetCurrentTime
  <1>3. ASSUME NEW i \in timerList' PROVE ExactFor(i)'
    BY <1>3, ReadingIsExact DEF GetCurrentTime, ExactFor
  <1> QED
    BY <1>2, <1>3 DEF ClockInv

\* A step that leaves clock and counter alone keeps the clock exact for the timers
\* that stay.
LEMMA ClockUntouched ==
  ASSUME ClockInv, UNCHANGED <<now, lastTicks, curTime, syncAt>>,
         timerList' \subseteq timerList,
         \A i \in timerList' : /\ pending'[i.cb].due = pending[i.cb].due
                               /\ pending'[i.cb].start = pending[i.cb].start
  PROVE  ClockInv'
PROOF
  BY DEF ClockInv, CounterInv, ExactFor

\* Completing messages leaves those of the timers that stay on the list.
LEMMA CompletedAreGone ==
  ASSUME TypeOK, TypeOK', QueueInv', NEW S, NEW code, Complete(S, code)
  PROVE  \A i \in timerList' : pending'[i.cb] = pending[i.cb]
PROOF
  BY CompleteEffect DEF QueueInv, TimersArePending, TypeOK, Timer

\* The rest of a handler changes no message of a queued timer.
LEMMA ReturnEffect ==
  ASSUME TypeOK, QueueInv, Return
  PROVE  \A i \in timerList : pending'[i.cb] = pending[i.cb]
PROOF
  <1>0. \A i \in timerList : i.cb \in Sessions /\ ~Withdrawing(i.cb)
    BY DEF TypeOK, Timer, QueueInv, TimersArePending
  <1>1. CASE handler.op = "Cancel"
    BY <1>0, <1>1, CompleteEffect DEF Return, Withdrawing
  <1>2. CASE handler.op = "Disconnect"
    BY <1>0, <1>2 DEF Return, Withdrawing, TypeOK
  <1>3. CASE handler.op \notin {"Cancel", "Disconnect"}
    BY <1>3 DEF Return, sessionVars
  <1> QED
    BY <1>1, <1>2, <1>3

LEMMA ClockStep ==
  ASSUME TypeOK, TypeOK', QueueInv, QueueInv', ClockInv, [Next]_vars
  PROVE  ClockInv'
PROOF
  <1>0. \A i \in timerList : i.cb \in Sessions
    BY DEF TypeOK, Timer
  <1>1. ASSUME NEW s \in Sessions, Connect(s) PROVE ClockInv'
    BY <1>1, ClockUntouched DEF Connect, clockVars, engineVars
  <1>2. ASSUME NEW s \in Sessions, Disconnect(s) PROVE ClockInv'
    BY <1>2, ClockUntouched DEF Disconnect, RemoveTimer, clockVars, sessionVars
  <1>3. ASSUME NEW s \in Sessions, CancelTimer(s) PROVE ClockInv'
    BY <1>3, ClockUntouched DEF CancelTimer, RemoveTimer, clockVars, sessionVars
  <1>4. ASSUME NEW s \in Sessions, AddTimer(s) PROVE ClockInv'
    <2>1. PICK new \in Timer, p \in Promise, length \in 0 .. MaxTimerLength :
            /\ timerList' = timerList \cup {new}
            /\ pending' = [pending EXCEPT ![s] = p]
            /\ new.cb = s
            /\ new.max = SyncedTime + length /\ p.due = now + length
            /\ new.min = SyncedTime + length - Window(s, length)
            /\ p.start = now + length - Window(s, length)
      BY <1>4, AddTimerEffect
    <2>2. GetCurrentTime /\ now' = now
      BY <1>4 DEF AddTimer, clockVars
    <2>3. now \in Nat /\ SyncedTime \in Nat /\ length \in Int
          /\ MaxTimerLength + MaxLatency + MaxOffset \in Nat
      BY SyncedTimeType, ConstantsAssumption DEF TypeOK
    <2>4. CounterInv'
      BY <2>2, <2>3 DEF CounterInv, GetCurrentTime
    <2>5. ASSUME NEW i \in timerList PROVE ExactFor(i)'
      <3>1. pending'[i.cb] = pending[i.cb]
        BY <1>0, <1>4, <2>1
           DEF AddTimer, NothingPending, QueueInv, TimersArePending, TypeOK
      <3> QED
        BY <2>2, <3>1, ReadingIsExact DEF GetCurrentTime, ExactFor
    <2>6. ExactFor(new)'
      <3>1. Window(s, length) \in Int
        BY <2>3, WindowType
      <3>2. pending'[s] = p /\ curTime' = SyncedTime /\ syncAt' = now
        BY <2>1, <2>2 DEF TypeOK, GetCurrentTime
      <3> QED
        BY <2>1, <2>3, <3>1, <3>2 DEF ExactFor
    <2> QED
      BY <2>1, <2>4, <2>5, <2>6 DEF ClockInv
  <1>5. ASSUME NEW s \in Sessions, AddTimerFails(s) PROVE ClockInv'
    BY <1>5, ReadingKeepsClock DEF AddTimerFails, clockVars
  <1>6. ASSUME NEW s \in Sessions, RejectTimer(s) PROVE ClockInv'
    BY <1>6, ClockUntouched DEF RejectTimer, clockVars, engineVars
  <1>7. ASSUME NEW s \in Sessions, NEW at \in BOOLEAN, NEW length \in Lengths,
               Request(s, at, length)
        PROVE  ClockInv'
    BY <1>7, ClockUntouched DEF Request, clockVars, engineVars
  <1>8. ASSUME NEW s \in Sessions, NEW w \in WindowSizes, Configure(s, w)
        PROVE  ClockInv'
    BY <1>8, ClockUntouched DEF Configure, clockVars, engineVars
  <1>9. CASE StartTimer
    BY <1>9, ReadingKeepsClock DEF StartTimer, sessionVars
  <1>10. CASE WakeUp
    <2>1. GetCurrentTime /\ now' = now /\ timerList' \subseteq timerList
      BY <1>10 DEF WakeUp, clockVars
    <2>2. \A i \in timerList' : pending'[i.cb] = pending[i.cb]
      BY <1>10, CompletedAreGone DEF WakeUp
    <2> QED
      BY <2>1, <2>2, ReadingKeepsClock
  <1>11. CASE RunWakeUp
    BY <1>11, ClockUntouched DEF RunWakeUp, clockVars, sessionVars
  <1>12. CASE RunTimeChanged
    <2>1. /\ UNCHANGED <<now, lastTicks, curTime, syncAt>>
          /\ timerList' \subseteq timerList
      BY <1>12 DEF RunTimeChanged, clockVars
    <2>2. \A i \in timerList' : pending'[i.cb] = pending[i.cb]
      BY <1>12, CompletedAreGone DEF RunTimeChanged
    <2> QED
      BY <2>1, <2>2, ClockUntouched
  <1>13. CASE Return
    <2>1. UNCHANGED <<now, lastTicks, curTime, syncAt, timerList>>
      BY <1>13 DEF Return, clockVars, engineVars
    <2> QED
      BY <1>13, <2>1, ReturnEffect, ClockUntouched
  <1>14. CASE Tick
    <2>1. now \in Int /\ syncAt \in Int /\ MaxTimerLength + MaxLatency + MaxOffset \in Int
      BY ConstantsAssumption DEF TypeOK
    <2> QED
      BY <1>14, <2>1 DEF Tick, engineVars, sessionVars, ClockInv, CounterInv, ExactFor
  <1>15. CASE KernelTimer
    BY <1>15, ClockUntouched DEF KernelTimer, clockVars, sessionVars
  <1>16. CASE SetTime
    <2>1. UNCHANGED <<now, lastTicks, curTime, syncAt, timerList>>
      BY <1>16 DEF SetTime
    <2>2. \A i \in timerList : /\ pending'[i.cb].due = pending[i.cb].due
                               /\ pending'[i.cb].start = pending[i.cb].start
      BY <1>0, <1>16, SetTimeEffect DEF QueueInv, TimersArePending
    <2> QED
      BY <2>1, <2>2, ClockUntouched
  <1>17. CASE UNCHANGED vars
    BY <1>17, ClockUntouched DEF vars, clockVars, engineVars, sessionVars
  <1>18. CASE UniversalTime
    BY <1>18, ClockUntouched DEF UniversalTime, clockVars, engineVars, sessionVars
  <1>19. CASE AtUTC
    BY <1>19, ClockUntouched DEF AtUTC, clockVars, sessionVars
  <1> QED
    BY <1>1, <1>2, <1>3, <1>4, <1>5, <1>6, <1>7, <1>8, <1>9, <1>10, <1>11, <1>12,
       <1>13, <1>14, <1>15, <1>16, <1>17, <1>18, <1>19 DEF Next

LEMMA SleepStep ==
  ASSUME TypeOK, TypeOK', QueueInv, ClockInv, SleepInv, [Next]_vars
  PROVE  SleepInv'
PROOF
  <1>0. /\ \A i \in timerList : i.cb \in Sessions /\ pending[i.cb].due \in Int
        /\ now \in Int /\ slip \in Int /\ offset \in Int /\ handler.time \in Int
    BY QueuedPromise, ConstantsAssumption DEF TypeOK
  <1>1. ASSUME NEW s \in Sessions, Connect(s) PROVE SleepInv'
    BY <1>1 DEF Connect, clockVars, engineVars, SleepInv, DueFrom
  <1>2. ASSUME NEW s \in Sessions, Disconnect(s) PROVE SleepInv'
    BY <1>2 DEF Disconnect, SleepInv, Idle
  <1>3. ASSUME NEW s \in Sessions, CancelTimer(s) PROVE SleepInv'
    BY <1>3 DEF CancelTimer, SleepInv, Idle
  <1>4. ASSUME NEW s \in Sessions, AddTimer(s) PROVE SleepInv'
    BY <1>4 DEF AddTimer, SleepInv, Idle
  <1>5. ASSUME NEW s \in Sessions, AddTimerFails(s) PROVE SleepInv'
    BY <1>5 DEF AddTimerFails, Dispatch, Idle, clockVars, SleepInv, DueFrom
  <1>6. ASSUME NEW s \in Sessions, RejectTimer(s) PROVE SleepInv'
    BY <1>6 DEF RejectTimer, clockVars, engineVars, SleepInv, DueFrom
  <1>7. ASSUME NEW s \in Sessions, NEW at \in BOOLEAN, NEW length \in Lengths,
               Request(s, at, length)
        PROVE  SleepInv'
    BY <1>7 DEF Request, clockVars, engineVars, SleepInv, DueFrom
  <1>8. ASSUME NEW s \in Sessions, NEW w \in WindowSizes, Configure(s, w)
        PROVE  SleepInv'
    BY <1>8 DEF Configure, clockVars, engineVars, SleepInv, DueFrom
  <1>9. CASE StartTimer
    <2>1. /\ UNCHANGED <<now, offset, timerList, pending>>
          /\ slip' = 0 /\ wakeup' = WakeUpOff
      BY <1>9 DEF StartTimer, sessionVars
    <2>2. CASE timerList = {} /\ handler'.pc = "return"
      BY <2>1, <2>2 DEF SleepInv, DueFrom, WakeUpOff
    <2>3. ASSUME NEW m \in {i.max : i \in timerList}, IsNextTimeout(timerList, m),
                 handler'.pc = "UniversalTime", handler'.time = m - SyncedTime
          PROVE  SleepInv'
      <3>1. SyncedTime \in Int /\ m \in Int
        BY <2>3, SyncedTimeType, QueuedPromise DEF TypeOK
      <3>2. ASSUME NEW i \in timerList
            PROVE  now + handler'.time <= pending[i.cb].due
        <4>1. m <= i.max
          BY <2>3 DEF IsNextTimeout
        <4>2. i.max - SyncedTime = pending[i.cb].due - now
          BY ReadingIsExact
        <4> QED
          BY <1>0, <2>3, <3>1, <4>1, <4>2, QueuedPromise
      <3>3. DueFrom(now + handler.time)'
        BY <1>0, <2>1, <3>2 DEF DueFrom
      <3>4. timerList' # {}
        BY <2>1, <2>3
      <3> QED
        BY <2>3, <3>3, <3>4 DEF SleepInv
    <2>4. CASE handler'.pc = "WakeUp"
      BY <2>4 DEF SleepInv
    <2> QED
      BY <1>9, <2>2, <2>3, <2>4 DEF StartTimer, GoOn, TypeOK
  <1>10. CASE WakeUp
    <2>1. handler'.pc = "StartTimer"
      BY <1>10 DEF WakeUp, GoOn, TypeOK
    <2> QED
      BY <2>1 DEF SleepInv
  <1>11. CASE RunWakeUp
    BY <1>11 DEF RunWakeUp, SleepInv, Idle
  <1>12. CASE RunTimeChanged
    BY <1>12 DEF RunTimeChanged, SleepInv, Idle
  <1>13. CASE Return
    <2>1. /\ UNCHANGED <<timerList, wakeup, slip>>
          /\ handler.pc = "return" /\ handler'.pc = "idle"
      BY <1>13 DEF Return, clockVars, engineVars, Idle
    <2> QED
      BY <1>13, <2>1, ReturnEffect DEF SleepInv, DueFrom
  <1>14. CASE Tick
    <2>1. /\ now' = now + 1 /\ UNCHANGED <<offset, timerList, wakeup, handler, pending>>
          /\ slip' = IF handler.pc = "UniversalTime" THEN slip + 1 ELSE slip
      BY <1>14 DEF Tick, engineVars, sessionVars
    <2>2. ASSUME handler.pc = "UniversalTime", DueFrom(now + handler.time)
          PROVE  DueFrom(now + handler.time)'
      BY <1>0, <2>1, <2>2 DEF DueFrom
    <2> QED
      BY <2>1, <2>2 DEF SleepInv, DueFrom
  <1>15. CASE KernelTimer
    <2>1. /\ wakeup.st = "armed" /\ wakeup'.st = "expired" /\ wakeup'.at = wakeup.at
          /\ UNCHANGED <<clockVars, timerList, handler, pending>>
      BY <1>15 DEF KernelTimer, sessionVars, TypeOK
    <2> QED
      BY <2>1 DEF SleepInv, DueFrom, clockVars
  <1>16. CASE SetTime
    <2>1. /\ wakeup'.at = wakeup.at /\ (wakeup'.st = "off" <=> wakeup.st = "off")
          /\ slip' = IF handler.pc = "AtUTC" THEN slip + (offset - offset') ELSE slip
          /\ UNCHANGED <<now, timerList, handler>> /\ offset' \in Int
      BY <1>16, ConstantsAssumption DEF SetTime, TypeOK
    <2>2. \A i \in timerList : pending'[i.cb].due = pending[i.cb].due
      BY <1>0, <1>16, SetTimeEffect DEF QueueInv, TimersArePending
    <2>3. ASSUME handler.pc = "AtUTC", DueFrom(handler.time - offset)
          PROVE  DueFrom(handler.time - offset)'
      BY <1>0, <2>1, <2>2, <2>3 DEF DueFrom
    <2> QED
      BY <2>1, <2>2, <2>3 DEF SleepInv, DueFrom
  <1>17. CASE UNCHANGED vars
    BY <1>17 DEF vars, clockVars, engineVars, sessionVars, SleepInv, DueFrom
  <1>18. CASE UniversalTime
    <2>1. /\ handler.pc = "UniversalTime" /\ handler'.pc = "AtUTC"
          /\ handler'.time = now + offset + handler.time
          /\ UNCHANGED <<slip, offset, timerList, pending>>
      BY <1>18 DEF UniversalTime, GoOn, TypeOK, clockVars, engineVars, sessionVars
    <2>2. handler'.time - offset = now + handler.time
      BY <1>0, <2>1
    <2>3. timerList # {} /\ DueFrom(now + handler.time)
      BY <2>1 DEF SleepInv
    <2> QED
      BY <2>1, <2>2, <2>3 DEF SleepInv, DueFrom
  <1>19. CASE AtUTC
    <2>1. /\ handler.pc = "AtUTC" /\ handler'.pc = "return"
          /\ wakeup'.st = "armed" /\ wakeup'.at = handler.time - offset
          /\ UNCHANGED <<slip, timerList, pending>>
      BY <1>19 DEF AtUTC, GoOn, TypeOK, clockVars, sessionVars
    <2>2. timerList # {} /\ DueFrom(handler.time - offset)
      BY <2>1 DEF SleepInv
    <2> QED
      BY <2>1, <2>2 DEF SleepInv, DueFrom
  <1> QED
    BY <1>1, <1>2, <1>3, <1>4, <1>5, <1>6, <1>7, <1>8, <1>9, <1>10, <1>11, <1>12,
       <1>13, <1>14, <1>15, <1>16, <1>17, <1>18, <1>19 DEF Next

\* The invariant that the engine's properties rest on.
EngineInv == QueueInv /\ ClockInv /\ SleepInv

LEMMA EngineInvariant == Spec => [](TypeOK /\ EngineInv)
PROOF
  <1>1. Init => EngineInv
    <2>1. ASSUME Init PROVE CounterInv
      <3>1. TickModulus \in Nat \ {0} /\ MaxTimerLength + MaxLatency + MaxOffset \in Nat
        BY ConstantsAssumption
      <3>2. 0 % TickModulus = 0
        BY <3>1, WrappedDifference
      <3> QED
        BY <2>1, <3>1, <3>2 DEF Init, CounterInv
    <2> QED
      BY <2>1 DEF Init, EngineInv, QueueInv, TimersArePending, OneTimerEach,
                  PendingAreQueued, ClockInv, SleepInv, DueFrom, Idle, WakeUpOff
  <1>2. TypeOK /\ TypeOK' /\ EngineInv /\ [Next]_vars => EngineInv'
    BY QueueStep, ClockStep, SleepStep DEF EngineInv
  <1> QED
    BY <1>1, <1>2, TypeCorrect, PTL DEF Spec

\* The engine's clock measures real time for every queued timer (EngineClockExact).
THEOREM ClockCorrect == Spec => []EngineClockExact
PROOF
  <1>1. EngineInv => EngineClockExact
    BY DEF EngineInv, ClockInv, ExactFor, EngineClockExact
  <1> QED
    BY <1>1, EngineInvariant, PTL

\* When no handler runs the wake-up request covers the first deadline, but for what
\* the clock did while the request was being made, and nothing is requested for an
\* empty list (WakeUpCoversDeadlines).
THEOREM WakeUpCorrect == Spec => []WakeUpCoversDeadlines
PROOF
  <1>1. EngineInv => WakeUpCoversDeadlines
    BY DEF EngineInv, SleepInv, DueFrom, WakeUpCoversDeadlines, Idle
  <1> QED
    BY <1>1, EngineInvariant, PTL

================================================================================
