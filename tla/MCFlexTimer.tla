----------------------------- MODULE MCFlexTimer -----------------------------
(* Model-checking instance of FlexTimer.                                   *)
EXTENDS FlexTimer, TLC

Symmetry == Permutations(Sessions)

\* Requests: due in the next unit and at the limit.  A window that is legal, and
\* one beyond the limit.
MCLengths == {1, 2}
MCWindows == {1, 3}
MCLengthsLive == {1}
MCWindowsNone == {}
MCOffsets == {0}
MCOffsetsChange == {0, 1}

(* Batches.  The behaviours that follow when every session has had one     *)
(* request accepted in the first instant: all windows up to the limit,     *)
(* with the engine's StartTimer still to come.  Which timers of a batch    *)
(* wait for which is only visible with three of them.  A batch with At     *)
(* timers among them is cut short when the system time changes.            *)
QueuedInit ==
  /\ now = 0 /\ offset = 0 /\ slip = 0 /\ lastTicks = 0 /\ curTime = 0 /\ syncAt = 0
  /\ wakeup = WakeUpOff
  /\ handler \in [pc: {"StartTimer"}, op: {"Add"}, s: Sessions, time: {0}]
  /\ conn = [s \in Sessions |-> "open"]
  /\ winSize = [s \in Sessions |-> None]
  /\ sent = [s \in Sessions |-> None]
  /\ owed = [s \in Sessions |-> 1]
  /\ result = [s \in Sessions |-> "none"]
  /\ pending \in [Sessions -> {p \in [abort: BOOLEAN, start: 0 .. MaxTimerLength,
                                      due: 0 .. MaxTimerLength] :
                                   p.start <= p.due}]
  /\ timerList = {[cb |-> s, min |-> pending[s].start, max |-> pending[s].due,
                   abort |-> pending[s].abort] : s \in Sessions}

QueuedSpec ==
  QueuedInit /\ [][\/ \E s \in Sessions : CancelTimer(s)
                   \/ StartTimer \/ UniversalTime \/ AtUTC \/ WakeUp \/ Return
                   \/ RunWakeUp \/ RunTimeChanged \/ Tick \/ KernelTimer \/ SetTime]_vars
=============================================================================
