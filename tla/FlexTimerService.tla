--------------------------- MODULE FlexTimerService ---------------------------
(***************************************************************************)
(* What RFlexTimer promises its clients (ipcm_plat/flextimer_api), with no *)
(* list, engine clock or wake-up timer: a request has a window in real     *)
(* time, expires inside or after it and never before it, and timers expire *)
(* in the largest batches the windows allow.                               *)
(***************************************************************************)
EXTENDS Integers

CONSTANTS Sessions, None, MaxLength

VARIABLES clock,    \* the time that has passed
          request,  \* the window of each outstanding request
          outcome   \* how the last request of a session ended

vars == <<clock, request, outcome>>

Expired == "KErrNone"

Init ==
  /\ clock = 0
  /\ request = [s \in Sessions |-> None]
  /\ outcome = [s \in Sessions |-> "none"]

Tick == clock' = clock + 1 /\ UNCHANGED <<request, outcome>>

\* A request is accepted with a window that ends at most MaxLength from now.
Accept(s) ==
  /\ request[s] = None
  /\ \E length \in 0 .. MaxLength :
       \E start \in (clock + length - MaxLength) .. (clock + length) :
         request' = [request EXCEPT ![s] = [start |-> start, due |-> clock + length]]
  /\ outcome' = [outcome EXCEPT ![s] = "none"]
  /\ UNCHANGED clock

Outstanding == {s \in Sessions : request[s] # None}

\* A batch of timers expires: the window of each has begun, and none of them
\* could have waited to expire together with a timer that stays outstanding.
Expire(B) ==
  /\ B # {} /\ B \subseteq Outstanding
  /\ \A s \in B : request[s].start <= clock
  /\ \A s \in B, r \in Outstanding \ B : request[s].due < request[r].due
  /\ request' = [s \in Sessions |-> IF s \in B THEN None ELSE request[s]]
  /\ outcome' = [s \in Sessions |-> IF s \in B THEN Expired ELSE outcome[s]]
  /\ UNCHANGED clock

\* Requests are withdrawn: cancelled, aborted, refused, or their client is gone.
Withdraw ==
  /\ \A s \in Sessions : request'[s] \in {None, request[s]}
  /\ \A s \in Sessions : outcome'[s] # outcome[s] => outcome'[s] # Expired
  /\ DOMAIN request' = Sessions /\ DOMAIN outcome' = Sessions
  /\ UNCHANGED clock

Next == Tick \/ (\E s \in Sessions : Accept(s)) \/ (\E B \in SUBSET Sessions : Expire(B))
             \/ Withdraw

Spec == Init /\ [][Next]_vars
=============================================================================
