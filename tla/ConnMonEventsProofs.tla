-------------------------- MODULE ConnMonEventsProofs --------------------------
(***************************************************************************)
(* Proofs about ConnMonEvents: its types, the bookkeeping of the event     *)
(* queue, what the plug-in knows and which data notifiers are armed, for   *)
(* any finite set of sessions and any values of the other constants.       *)
(***************************************************************************)
EXTENDS ConnMonEvents, FiniteSetTheorems, SequenceTheorems, WellFoundedInduction, TLAPS

\* The oldest and the newest event and the smallest threshold are CHOOSEn; that
\* there is one follows from the order of the naturals.
LEMMA LeastExists ==
  ASSUME NEW S \in SUBSET Nat, S # {}
  PROVE  \E n \in S : \A m \in S : n <= m
PROOF
  <1>1. PICK n \in S : \A m \in S : ~(<<m, n>> \in OpToRel(<, Nat))
    BY NatLessThanWellFounded, WFMin, Zenon
  <1>2. \A m \in S : ~(m < n)
    BY <1>1 DEF OpToRel
  <1> QED
    BY <1>2

LEMMA OldestIsOne ==
  ASSUME NEW es, \A e \in es : e.time \in Nat, es # {}
  PROVE  Oldest(es) \in es /\ \A f \in es : Oldest(es).time <= f.time
PROOF
  <1> DEFINE times == {e.time : e \in es}
  <1>1. PICK n \in times : \A m \in times : n <= m
    BY LeastExists
  <1>2. \E e \in es : \A f \in es : e.time <= f.time
    BY <1>1
  <1> QED
    BY <1>2 DEF Oldest

LEMMA NewestIsOne ==
  ASSUME NEW es, NEW bound \in Nat, es # {},
         \A e \in es : e.time \in Nat /\ e.time <= bound
  PROVE  Newest(es) \in es /\ \A f \in es : f.time <= Newest(es).time
PROOF
  <1> DEFINE distances == {bound - e.time : e \in es}
  <1>1. distances \in SUBSET Nat /\ distances # {}
    OBVIOUS
  <1>2. PICK n \in distances : \A m \in distances : n <= m
    BY <1>1, LeastExists
  <1>3. PICK e \in es : n = bound - e.time
    OBVIOUS
  <1>4. ASSUME NEW f \in es PROVE e.time >= f.time
    <2>1. bound - f.time \in distances
      OBVIOUS
    <2>2. bound - e.time <= bound - f.time
      BY <1>2, <1>3, <2>1
    <2> QED
      BY <2>2
  <1>5. Newest(es) \in es /\ \A f \in es : Newest(es).time >= f.time
    BY <1>4 DEF Newest
  <1> QED
    BY <1>5

\* A threshold that some session has set is counted in the smallest one.
LEMMA GlobalType ==
  ASSUME NEW th \in [Sessions -> [Connections -> [DataKinds \cup {"activity"} -> Nat]]],
         NEW c \in Connections, NEW k \in DataKinds, open \subseteq Sessions
  PROVE  /\ Global(th, c, k) \in Nat
         /\ \A s \in open :
              th[s][c][k] > 0 => Global(th, c, k) > 0 /\ Global(th, c, k) <= th[s][c][k]
PROOF
  <1> DEFINE set == {th[s][c][k] : s \in open} \ {0}
  <1>1. set \in SUBSET Nat
    OBVIOUS
  <1>2. CASE set = {}
    <2>1. Global(th, c, k) = 0
      BY <1>2 DEF Global
    <2>2. \A s \in open : th[s][c][k] = 0
      BY <1>2
    <2> QED
      BY <2>1, <2>2
  <1>3. CASE set # {}
    <2>1. \E n \in set : \A m \in set : n <= m
      BY <1>1, <1>3, LeastExists
    <2>2. Smallest(set) \in set /\ \A m \in set : Smallest(set) <= m
      BY <2>1 DEF Smallest
    <2>3. Global(th, c, k) = Smallest(set)
      BY <1>3 DEF Global
    <2>4. Global(th, c, k) \in Nat /\ Global(th, c, k) # 0
      <3> HIDE DEF set
      <3> QED
        BY <1>1, <2>2, <2>3 DEF set
    <2>5. ASSUME NEW s \in open, th[s][c][k] > 0 PROVE Global(th, c, k) <= th[s][c][k]
      <3>1. th[s][c][k] \in set
        BY <2>5
      <3> HIDE DEF set
      <3> QED
        BY <2>2, <2>3, <3>1
    <2> QED
      BY <2>4, <2>5
  <1> QED
    BY <1>2, <1>3

--------------------------------------------------------------------------------
(* Times *)

\* Nothing is newer than the queue's iLastEventTime.
InTime ==
  /\ \A e \in iEvents : e.time <= time
  /\ \A s \in Sessions : last[s] <= time /\ since[s] <= time

\* What an added event leaves of the queue and the sessions.
LEMMA AddEffect ==
  ASSUME TypeOK, InTime, NEW info \in Infos, Add(info)
  PROVE  /\ time' = time + 1
         /\ \E e \in Events : /\ e = [time |-> time + 1, info |-> info]
                              /\ iEvents' = (iEvents \ Evicted) \cup
                                              (IF AllOffered THEN {} ELSE {e})
         /\ iEvents' \subseteq Events
         /\ lost' = lost \cup {f.time : f \in Evicted}
         /\ Evicted \subseteq iEvents
         /\ receiving' \subseteq receiving
         /\ last' \in [Sessions -> Nat] /\ given' \in [Sessions -> Nat]
         /\ \A s \in Sessions : last'[s] = IF s \in receiving THEN time + 1 ELSE last[s]
         /\ \A s \in Sessions : given'[s] = given[s] \/ (s \in receiving /\ given'[s] = time + 1)
         /\ UNCHANGED <<open, listening>>
PROOF
  <1> DEFINE e == [time |-> time + 1, info |-> info]
             taking == {s \in receiving : Passes(s, info)}
  <1>1. e \in Events
    BY DEF TypeOK, Events
  <1>2. Evicted \subseteq iEvents
    <2>1. CASE Cardinality(iEvents) >= QueueSize
      <3>1. iEvents # {}
        BY <2>1, FS_EmptySet, SizeAssumption
      <3>2. \A f \in iEvents : f.time \in Nat
        BY DEF TypeOK, Events
      <3>3. Oldest(iEvents) \in iEvents
        BY <3>1, <3>2, OldestIsOne
      <3> QED
        BY <2>1, <3>3 DEF Evicted
    <2>2. CASE ~(Cardinality(iEvents) >= QueueSize)
      BY <2>2 DEF Evicted
    <2> QED
      BY <2>1, <2>2
  <1>3. iEvents' = (iEvents \ Evicted) \cup (IF AllOffered THEN {} ELSE {e})
    BY DEF Add
  <1>4. iEvents' \subseteq Events
    BY <1>1, <1>3 DEF TypeOK
  <1>5. last' = [s \in Sessions |-> IF s \in receiving THEN time + 1 ELSE last[s]]
    BY DEF Add
  <1>6. given' = [s \in Sessions |-> IF s \in taking THEN time + 1 ELSE given[s]]
    BY DEF Add
  <1>7. receiving' = receiving \ taking
    BY DEF Add
  <1>8. time' = time + 1 /\ lost' = lost \cup {f.time : f \in Evicted} /\ UNCHANGED <<open, listening>>
    BY DEF Add
  <1>9. time \in Nat /\ receiving \subseteq Sessions
    BY DEF TypeOK
  <1>10. last' \in [Sessions -> Nat]
    BY <1>5, <1>9 DEF TypeOK
  <1>11. given' \in [Sessions -> Nat]
    BY <1>6, <1>9 DEF TypeOK
  <1>12. \A s \in Sessions : given'[s] = given[s] \/ (s \in receiving /\ given'[s] = time + 1)
    BY <1>6
  <1>13. \A s \in Sessions : last'[s] = IF s \in receiving THEN time + 1 ELSE last[s]
    BY <1>5
  <1> QED
    BY <1>1, <1>2, <1>3, <1>4, <1>7, <1>8, <1>10, <1>11, <1>12, <1>13

\* What CheckEvents leaves of the session that asks: it has seen the event it is
\* given, or it waits and has seen every event.
LEMMA CheckEventsEffect ==
  ASSUME TypeOK, InTime, NEW s \in open, NEW seen \in Nat, seen <= time,
         CheckEvents(s, seen)
  PROVE  /\ last' \in [Sessions -> Nat] /\ given' \in [Sessions -> Nat]
         /\ \A d \in Sessions \ {s} : last'[d] = last[d] /\ given'[d] = given[d]
         /\ receiving' = receiving \cup {s} \/ receiving' = receiving \ {s}
         /\ seen <= last'[s] /\ last'[s] <= time
         /\ s \in receiving' =>
              /\ \A e \in iEvents : e.time <= last'[s]
              /\ given' = given
         /\ s \notin receiving' =>
              /\ seen < given'[s]
              /\ \A e \in iEvents : seen < e.time /\ e.time < given'[s] => ~Passes(s, e.info)
              /\ \E e \in iEvents : seen < e.time
PROOF
  <1> DEFINE newer == {e \in iEvents : e.time > seen}
             passing == {e \in newer : Passes(s, e.info)}
  <1>1. \A e \in iEvents : e.time \in Nat /\ e.time <= time
    BY DEF TypeOK, Events, InTime
  <1>2. s \in Sessions /\ time \in Nat
    BY DEF TypeOK
  <1>3. CASE passing # {}
    <2>1. Oldest(passing) \in passing /\ \A f \in passing : Oldest(passing).time <= f.time
      BY <1>1, <1>3, OldestIsOne
    <2>2. /\ last' = [last EXCEPT ![s] = Oldest(passing).time]
          /\ given' = [given EXCEPT ![s] = Oldest(passing).time]
          /\ receiving' = receiving \ {s}
      BY <1>3 DEF CheckEvents
    <2>3. Oldest(passing).time \in Nat /\ seen < Oldest(passing).time /\ Oldest(passing).time <= time
      BY <1>1, <2>1
    <2>4. last'[s] = Oldest(passing).time /\ given'[s] = Oldest(passing).time
      BY <1>2, <2>2 DEF TypeOK
    <2>5. ASSUME NEW e \in iEvents, seen < e.time, e.time < given'[s]
          PROVE  ~Passes(s, e.info)
      <3>1. ~(Oldest(passing).time <= e.time)
        BY <1>1, <2>3, <2>4, <2>5
      <3>2. e \notin passing
        BY <2>1, <3>1
      <3> QED
        BY <1>1, <2>5, <3>2
    <2>6. last' \in [Sessions -> Nat] /\ given' \in [Sessions -> Nat]
      BY <2>2, <2>3 DEF TypeOK
    <2>7. \A d \in Sessions \ {s} : last'[d] = last[d] /\ given'[d] = given[d]
      BY <2>2 DEF TypeOK
    <2>8. \E e \in iEvents : seen < e.time
      BY <2>1, <2>3
    <2> HIDE DEF passing
    <2> QED
      BY <2>2, <2>3, <2>4, <2>5, <2>6, <2>7, <2>8
  <1>4. CASE passing = {}
    <2> DEFINE now == IF newer = {} THEN seen ELSE Newest(newer).time
    <2>1. /\ last' = [last EXCEPT ![s] = now]
          /\ receiving' = receiving \cup {s}
          /\ given' = given
      BY <1>4 DEF CheckEvents
    <2>2. /\ now \in Nat /\ seen <= now /\ now <= time
          /\ \A e \in iEvents : e.time <= now
      <3>1. CASE newer = {}
        BY <1>1, <3>1
      <3>2. CASE newer # {}
        <4>1. Newest(newer) \in newer /\ \A f \in newer : f.time <= Newest(newer).time
          BY <1>1, <1>2, <3>2, NewestIsOne
        <4>2. now = Newest(newer).time
          BY <3>2
        <4>3. now \in Nat /\ seen < now /\ now <= time
          BY <1>1, <4>1, <4>2
        <4>4. ASSUME NEW e \in iEvents PROVE e.time <= now
          <5>1. CASE e \in newer
            BY <4>1, <4>2, <5>1
          <5>2. CASE e \notin newer
            BY <1>1, <4>3, <5>2
          <5> QED
            BY <5>1, <5>2
        <4> QED
          BY <4>3, <4>4
      <3> QED
        BY <3>1, <3>2
    <2> HIDE DEF now
    <2> QED
      BY <1>2, <2>1, <2>2 DEF TypeOK
  <1> QED
    BY <1>3, <1>4

--------------------------------------------------------------------------------
(* Types *)

LEMMA AskType ==
  ASSUME plugin \in Plugins, NEW on \in BOOLEAN
  PROVE  /\ Ask(on) \in Plugins
         /\ \A before, after \in BOOLEAN, value \in Nat :
              (value = 1) = on => TellPlugin(before, after, value) \in Plugins
PROOF
  <1>1. Ask(on) \in Plugins
    <2>1. Append(plugin.requests, on) \in Seq(BOOLEAN)
      BY DEF Plugins
    <2>2. CASE ~plugin.registered
      BY <2>2 DEF Ask
    <2>3. CASE plugin.registered /\ plugin.asking
      BY <2>3 DEF Ask, Plugins
    <2>4. CASE plugin.registered /\ ~plugin.asking
      <3>1. Ask(on) = [plugin EXCEPT !.requests = Append(@, on)]
        BY <2>4 DEF Ask
      <3> QED
        BY <2>1, <3>1 DEF Plugins
    <2>5. plugin.registered \in BOOLEAN /\ plugin.asking \in BOOLEAN
      BY DEF Plugins
    <2> QED
      BY <2>2, <2>3, <2>4, <2>5
  <1> QED
    BY <1>1 DEF TellPlugin

LEMMA UntoldType ==
  ASSUME TypeOK, NEW before, NEW after, NEW told \in BOOLEAN, NoteUntold(before, after, told)
  PROVE  untold' \in BOOLEAN
PROOF
  BY DEF NoteUntold, TypeOK

LEMMA WokenType ==
  ASSUME TypeOK, NEW cs,
         NEW th \in [Sessions -> [Connections -> [DataKinds \cup {"activity"} -> Nat]]]
  PROVE  Woken(cs, th) \in [Connections -> [DataKinds -> Nat \cup {Silent}]]
PROOF
  <1>1. ASSUME NEW c \in Connections, NEW k \in DataKinds
        PROVE  Receive(armed[c][k], th, c, k) \in Nat \cup {Silent}
    <2>1. Global(th, c, k) \in Nat
      <3>1. open \subseteq Sessions
        BY DEF TypeOK
      <3> QED
        BY <3>1, GlobalType
    <2>2. armed[c][k] \in Nat \cup {Silent}
      BY DEF TypeOK
    <2>3. Receive(armed[c][k], th, c, k) \in {Global(th, c, k), armed[c][k]}
      BY DEF Receive
    <2> QED
      BY <2>1, <2>2, <2>3
  <1> QED
    BY <1>1 DEF Woken, TypeOK

\* Every way of stopping to listen.
LEMMA StopType ==
  ASSUME TypeOK, InTime, NEW s \in Sessions, StopListening(s), UNCHANGED <<time, last>>
  PROVE  /\ receiving' \subseteq listening' /\ listening' \subseteq listening \ {s}
         /\ plugin' \in Plugins /\ untold' \in BOOLEAN /\ noti' \subseteq Connections
         /\ armed' \in [Connections -> [DataKinds -> Nat \cup {Silent}]]
         /\ given' \in [Sessions -> Nat] /\ since' \in [Sessions -> Nat]
         /\ left' \subseteq listening' /\ early' \subseteq listening'
         /\ \A d \in Sessions : since'[d] <= time
PROOF
  <1>1. plugin' \in Plugins
    <2>1. \A ls, fl : Wanted(ls, fl) \in BOOLEAN
      BY DEF Wanted
    <2>2. plugin \in Plugins
      BY DEF TypeOK
    <2>3. \/ plugin' = TellPlugin(Wanted(listening, flag), Wanted(listening \ {s}, flag), 0)
          \/ plugin' = plugin
      BY DEF StopListening
    <2>4. TellPlugin(Wanted(listening, flag), Wanted(listening \ {s}, flag), 0) \in Plugins
      BY <2>1, <2>2, AskType
    <2> QED
      BY <2>2, <2>3, <2>4
  <1>2. armed' \in [Connections -> [DataKinds -> Nat \cup {Silent}]]
    BY DEF StopListening, TypeOK, Unarmed, Idle
  <1>3. given' \in [Sessions -> Nat] /\ since' \in [Sessions -> Nat]
    BY DEF StopListening, TypeOK
  <1>4. \A d \in Sessions : since'[d] <= time
    BY DEF StopListening, TypeOK, InTime
  <1>5. untold' \in BOOLEAN
    BY UntoldType DEF StopListening
  <1> QED
    BY <1>1, <1>2, <1>3, <1>4, <1>5 DEF StopListening, NotWaiting, TypeOK

LEMMA InitTypes == Init => TypeOK /\ InTime
PROOF
  <1> SUFFICES ASSUME Init PROVE TypeOK /\ InTime
    OBVIOUS
  <1>1. /\ threshold \in [Sessions -> [Connections -> [DataKinds \cup {"activity"} -> Nat]]]
        /\ flag \in [Sessions -> [FlagNames -> Nat]]
        /\ armed \in [Connections -> [DataKinds -> Nat \cup {Silent}]]
    BY DEF Init, NoThresholds, NoFlags, Unarmed, Idle
  <1>2. plugin \in Plugins
    <2>1. <<>> \in Seq(BOOLEAN)
      OBVIOUS
    <2> QED
      BY <2>1 DEF Init, Plugins, NoPlugin
  <1>3. /\ last \in [Sessions -> Nat] /\ given \in [Sessions -> Nat] /\ since \in [Sessions -> Nat]
        /\ conn \in [Connections -> {"new", "up", "gone"}]
    BY DEF Init
  <1>4. InTime
    BY DEF Init, InTime
  <1> QED
    BY <1>1, <1>2, <1>3, <1>4 DEF Init, TypeOK

LEMMA TypesStep ==
  ASSUME TypeOK, InTime, [Next]_vars
  PROVE  TypeOK' /\ InTime'
PROOF
  <1> USE DEF queueVars, sessionVars, connVars, ghosts
  <1>1. ASSUME NEW s \in Sessions, OpenSession(s) PROVE TypeOK' /\ InTime'
    <2>1. /\ last' \in [Sessions -> Nat]
          /\ \A d \in Sessions : last'[d] <= time
      BY <1>1 DEF OpenSession, TypeOK, InTime
    <2>2. InTime'
      BY <1>1, <2>1 DEF OpenSession, InTime
    <2>3. listening' \subseteq open' /\ open' \subseteq Sessions
      BY <1>1 DEF OpenSession, TypeOK
    <2> QED
      BY <1>1, <2>1, <2>2, <2>3 DEF OpenSession, TypeOK
  <1>2. ASSUME NEW s \in Sessions, ReceiveEvent(s) PROVE TypeOK' /\ InTime'
    <2>1. s \in open /\ last[s] \in Nat /\ last[s] <= time /\ CheckEvents(s, last[s])
      BY <1>2 DEF ReceiveEvent, TypeOK, InTime
    <2>2. /\ last' \in [Sessions -> Nat] /\ given' \in [Sessions -> Nat]
          /\ \A d \in Sessions \ {s} : last'[d] = last[d]
          /\ receiving' = receiving \cup {s} \/ receiving' = receiving \ {s}
          /\ last'[s] <= time
      BY <2>1, CheckEventsEffect
    <2>3. receiving' \subseteq listening
      BY <1>2, <2>2 DEF ReceiveEvent, TypeOK
    <2> QED
      BY <1>2, <2>2, <2>3 DEF ReceiveEvent, TypeOK, InTime
  <1>3. ASSUME NEW s \in Sessions, StartListening(s) PROVE TypeOK' /\ InTime'
    <2>1. s \in open /\ FromNowOn(s) \in Nat /\ FromNowOn(s) <= time /\ CheckEvents(s, FromNowOn(s))
      BY <1>3 DEF StartListening, TypeOK, FromNowOn
    <2>2. /\ last' \in [Sessions -> Nat] /\ given' \in [Sessions -> Nat]
          /\ \A d \in Sessions \ {s} : last'[d] = last[d]
          /\ receiving' = receiving \cup {s} \/ receiving' = receiving \ {s}
          /\ last'[s] <= time
      BY <2>1, CheckEventsEffect
    <2>3. receiving' \subseteq listening'
      BY <1>3, <2>2 DEF StartListening, TypeOK
    <2>4. armed' \in [Connections -> [DataKinds -> Nat \cup {Silent}]]
      BY <1>3, WokenType DEF StartListening, TypeOK
    <2>5. plugin' \in Plugins
      <3>1. Wanted(listening, flag) \in BOOLEAN
        BY DEF Wanted
      <3>2. TellPlugin(Wanted(listening, flag), TRUE, 1) \in Plugins
        BY <3>1, AskType DEF TypeOK
      <3> QED
        BY <1>3, <3>2 DEF StartListening, TypeOK
    <2>6. noti' \subseteq Connections
      BY <1>3 DEF StartListening, TypeOK, Up
    <2>7. early' \subseteq listening'
      BY <1>3 DEF StartListening, NoteEarly, TypeOK
    <2>8. since' \in [Sessions -> Nat] /\ \A d \in Sessions : since'[d] <= time
      BY <1>3 DEF StartListening, TypeOK, InTime
    <2>9. untold' \in BOOLEAN
      <3>1. (flag[s]["availability"] = 1) \in BOOLEAN
        OBVIOUS
      <3> QED
        BY <1>3, <3>1, UntoldType DEF StartListening
    <2> QED
      BY <1>3, <2>2, <2>3, <2>4, <2>5, <2>6, <2>7, <2>8, <2>9
         DEF StartListening, TypeOK, InTime
  <1>4. ASSUME NEW s \in Sessions, ListenLeaves(s) PROVE TypeOK' /\ InTime'
    <2>1. early' \subseteq listening'
      BY <1>4 DEF ListenLeaves, NoteEarly, TypeOK
    <2>2. since' \in [Sessions -> Nat] /\ \A d \in Sessions : since'[d] <= time
      BY <1>4 DEF ListenLeaves, TypeOK, InTime
    <2>3. untold' \in BOOLEAN
      BY <1>4, UntoldType DEF ListenLeaves
    <2> QED
      BY <1>4, <2>1, <2>2, <2>3 DEF ListenLeaves, TypeOK, InTime
  <1>5. ASSUME NEW s \in Sessions, CancelReceive(s) PROVE TypeOK' /\ InTime'
    <2>1. StopListening(s) /\ UNCHANGED <<queueVars, open, last, threshold, flag, conn>>
      BY <1>5 DEF CancelReceive
    <2>2. listening' \subseteq open
      BY <2>1 DEF StopListening, TypeOK
    <2>3. /\ receiving' \subseteq listening' /\ plugin' \in Plugins /\ noti' \subseteq Connections
          /\ untold' \in BOOLEAN
          /\ armed' \in [Connections -> [DataKinds -> Nat \cup {Silent}]]
          /\ given' \in [Sessions -> Nat] /\ since' \in [Sessions -> Nat]
          /\ left' \subseteq listening' /\ early' \subseteq listening'
          /\ \A d \in Sessions : since'[d] <= time
      BY <2>1, StopType
    <2>4. InTime'
      BY <2>1, <2>3 DEF InTime
    <2> QED
      BY <2>1, <2>2, <2>3, <2>4 DEF TypeOK
  <1>6. ASSUME NEW s \in Sessions, CloseSession(s) PROVE TypeOK' /\ InTime'
    <2>1. StopListening(s) /\ UNCHANGED <<queueVars, last, conn>>
      BY <1>6 DEF CloseSession
    <2>2. listening' = listening \ {s} /\ open' = open \ {s}
      BY <1>6 DEF CloseSession, StopListening
    <2>3. /\ threshold' \in [Sessions -> [Connections -> [DataKinds \cup {"activity"} -> Nat]]]
          /\ flag' \in [Sessions -> [FlagNames -> Nat]]
      BY <1>6 DEF CloseSession, TypeOK, NoThresholds, NoFlags
    <2>4. /\ receiving' \subseteq listening' /\ plugin' \in Plugins /\ noti' \subseteq Connections
          /\ untold' \in BOOLEAN
          /\ armed' \in [Connections -> [DataKinds -> Nat \cup {Silent}]]
          /\ given' \in [Sessions -> Nat] /\ since' \in [Sessions -> Nat]
          /\ left' \subseteq listening' /\ early' \subseteq listening'
          /\ \A d \in Sessions : since'[d] <= time
      BY <2>1, StopType
    <2>5. InTime'
      BY <2>1, <2>4 DEF InTime
    <2>6. listening' \subseteq open' /\ open' \subseteq Sessions
      BY <2>2 DEF TypeOK
    <2> QED
      BY <2>1, <2>3, <2>4, <2>5, <2>6 DEF TypeOK
  <1>7. ASSUME NEW s \in Sessions, NEW c \in Connections, NEW k \in Kinds,
               NEW value \in Thresholds, SetThreshold(s, c, k, value)
        PROVE  TypeOK' /\ InTime'
    <2>1. Allowed(c, k, value) \in Nat
      BY ValuesAssumption DEF Allowed, Greater
    <2>2. k \in DataKinds \cup {"activity"}
      BY NamesAssumption
    <2>3. threshold' \in [Sessions -> [Connections -> [DataKinds \cup {"activity"} -> Nat]]]
      BY <1>7, <2>1, <2>2 DEF SetThreshold, TypeOK
    <2>4. armed' \in [Connections -> [DataKinds -> Nat \cup {Silent}]]
      <3> DEFINE th == [threshold EXCEPT ![s][c][k] = Allowed(c, k, value)]
      <3>1. th \in [Sessions -> [Connections -> [DataKinds \cup {"activity"} -> Nat]]]
        BY <1>7, <2>3 DEF SetThreshold
      <3>2. armed' = Woken({c}, th) \/ armed' = armed
        BY <1>7 DEF SetThreshold
      <3> HIDE DEF th
      <3>3. Woken({c}, th) \in [Connections -> [DataKinds -> Nat \cup {Silent}]]
        BY <3>1, WokenType
      <3> QED
        BY <3>2, <3>3 DEF TypeOK
    <2> QED
      BY <1>7, <2>3, <2>4 DEF SetThreshold, TypeOK, InTime
  <1>8. ASSUME NEW s \in Sessions, NEW f \in Flags, NEW value \in FlagValues, SetFlag(s, f, value)
        PROVE  TypeOK' /\ InTime'
    <2>1. flag' \in [Sessions -> [FlagNames -> Nat]]
      BY <1>8, NamesAssumption, ValuesAssumption DEF SetFlag, TypeOK
    <2>2. plugin' \in Plugins
      <3>1. \A ls, fl : Wanted(ls, fl) \in BOOLEAN
        BY DEF Wanted
      <3>2. plugin \in Plugins
        BY DEF TypeOK
      <3>3. \/ plugin' = TellPlugin(Wanted(listening, flag), Wanted(listening, flag'), value)
            \/ plugin' = plugin
        BY <1>8 DEF SetFlag
      <3>4. value \in Nat /\ (value = 1) \in BOOLEAN
        BY ValuesAssumption
      <3>5. TellPlugin(Wanted(listening, flag), Wanted(listening, flag'), value) \in Plugins
        BY <3>1, <3>2, <3>4, AskType
      <3> QED
        BY <3>2, <3>3, <3>5
    <2>3. untold' \in BOOLEAN
      <3>1. (value \in {0, 1}) \in BOOLEAN
        OBVIOUS
      <3> QED
        BY <1>8, <3>1, UntoldType DEF SetFlag
    <2> QED
      BY <1>8, <2>1, <2>2, <2>3 DEF SetFlag, TypeOK, InTime
  <1>9. ASSUME NEW info \in Infos, Add(info), UNCHANGED <<threshold, flag, ghosts>>,
               plugin' = plugin, conn' = conn, noti' = noti,
               armed' \in [Connections -> [DataKinds -> Nat \cup {Silent}]]
        PROVE  TypeOK' /\ InTime'
    <2>1. /\ time' = time + 1 /\ iEvents' \subseteq Events
          /\ iEvents' \subseteq iEvents \cup {[time |-> time + 1, info |-> info]}
          /\ lost' = lost \cup {f.time : f \in Evicted} /\ Evicted \subseteq iEvents
          /\ receiving' \subseteq receiving /\ UNCHANGED <<open, listening>>
          /\ last' \in [Sessions -> Nat] /\ given' \in [Sessions -> Nat]
          /\ \A s \in Sessions : last'[s] = IF s \in receiving THEN time + 1 ELSE last[s]
      BY <1>9, AddEffect
    <2>2. time \in Nat /\ \A e \in iEvents : e.time \in Nat /\ e.time <= time
      BY DEF TypeOK, InTime, Events
    <2>3. lost' \subseteq Nat
      BY <2>1, <2>2 DEF TypeOK
    <2>4. \A e \in iEvents' : e.time <= time'
      BY <2>1, <2>2
    <2>5. \A s \in Sessions : last'[s] <= time' /\ since'[s] <= time'
      <3>1. \A s \in Sessions : last[s] \in Nat /\ since[s] \in Nat /\ last[s] <= time /\ since[s] <= time
        BY DEF TypeOK, InTime
      <3> QED
        BY <1>9, <2>1, <2>2, <3>1
    <2>6. InTime'
      BY <2>4, <2>5 DEF InTime
    <2>7. time' \in Nat /\ receiving' \subseteq listening' /\ listening' \subseteq open'
          /\ open' \subseteq Sessions /\ left' \subseteq listening' /\ early' \subseteq listening'
      BY <1>9, <2>1, <2>2 DEF TypeOK
    <2> QED
      BY <1>9, <2>1, <2>3, <2>6, <2>7 DEF TypeOK
  <1>10. ASSUME NEW c \in Connections, NEW k \in DataKinds, NEW amount \in Amounts,
                DataTransferred(c, k, amount)
         PROVE  TypeOK' /\ InTime'
    <2>1. ConnEvent(k, c, amount) \in Infos
      <3>1. amount \in Nat
        BY ValuesAssumption
      <3> QED
        BY <3>1 DEF ConnEvent, Infos
    <2>2. armed' \in [Connections -> [DataKinds -> Nat \cup {Silent}]]
      <3>1. Global(threshold, c, k) \in Nat
        BY GlobalType DEF TypeOK
      <3>2. armed' = [armed EXCEPT ![c][k] = Global(threshold, c, k)]
        BY <1>10 DEF DataTransferred
      <3> QED
        BY <3>1, <3>2 DEF TypeOK
    <2> QED
      BY <1>9, <1>10, <2>1, <2>2 DEF DataTransferred
  <1>11. ASSUME NEW c \in Connections, NEW k \in DataKinds, DataCancelled(c, k) \/ DataFails(c, k)
         PROVE  TypeOK' /\ InTime'
    <2>1. Global(threshold, c, k) \in Nat
      BY GlobalType DEF TypeOK
    <2>2. armed' \in [Connections -> [DataKinds -> Nat \cup {Silent}]]
      <3>1. PICK v \in Nat \cup {Silent} : armed' = [armed EXCEPT ![c][k] = v]
        BY <1>11, <2>1 DEF DataCancelled, DataFails
      <3> QED
        BY <3>1 DEF TypeOK
    <2> QED
      BY <1>11, <2>2 DEF DataCancelled, DataFails, TypeOK, InTime
  <1>12. ASSUME NEW type \in EventTypes, AddEvent(type) PROVE TypeOK' /\ InTime'
    <2>1. PICK info \in Infos : Add(info)
      <3>1. EventOf(type) \in Infos
        BY NamesAssumption DEF EventOf, Infos
      <3>2. \A c \in Connections : ConnEvent(type, c, 0) \in Infos
        BY NamesAssumption DEF ConnEvent, Infos
      <3> QED
        BY <1>12, <3>1, <3>2 DEF AddEvent, Up
    <2>2. armed' = armed
      BY <1>12 DEF AddEvent
    <2> QED
      BY <1>9, <1>12, <2>1, <2>2 DEF AddEvent, TypeOK
  <1>13. ASSUME NEW c \in Connections, ConnectionOpens(c) PROVE TypeOK' /\ InTime'
    <2>1. armed' \in [Connections -> [DataKinds -> Nat \cup {Silent}]]
      BY <1>13, WokenType DEF ConnectionOpens, TypeOK
    <2>2. conn' \in [Connections -> {"new", "up", "gone"}] /\ noti' \subseteq Connections
      BY <1>13 DEF ConnectionOpens, TypeOK
    <2> QED
      BY <1>13, <2>1, <2>2 DEF ConnectionOpens, TypeOK, InTime
  <1>14. ASSUME NEW c \in Connections, ConnectionCloses(c) PROVE TypeOK' /\ InTime'
    <2>1. armed' \in [Connections -> [DataKinds -> Nat \cup {Silent}]]
      BY <1>14 DEF ConnectionCloses, TypeOK, Idle
    <2>2. conn' \in [Connections -> {"new", "up", "gone"}] /\ noti' \subseteq Connections
      BY <1>14 DEF ConnectionCloses, TypeOK
    <2>3. threshold' \in [Sessions -> [Connections -> [DataKinds \cup {"activity"} -> Nat]]]
      BY <1>14 DEF ConnectionCloses, TypeOK, NoThresholds
    <2> QED
      BY <1>14, <2>1, <2>2, <2>3 DEF ConnectionCloses, TypeOK, InTime
  <1>15. ASSUME PluginNext PROVE TypeOK' /\ InTime'
    <2>1. plugin' \in Plugins
      <3>1. plugin \in Plugins /\ <<TRUE>> \in Seq(BOOLEAN)
        BY DEF TypeOK
      <3>2. CASE PluginRegister
        <4>1. \/ plugin' = [plugin EXCEPT !.registered = TRUE]
              \/ plugin' = [plugin EXCEPT !.registered = TRUE, !.asking = FALSE, !.on = TRUE]
              \/ plugin' = [plugin EXCEPT !.registered = TRUE, !.requests = <<TRUE>>]
          <5>1. Wanted(listening, flag) \in BOOLEAN /\ plugin.asking \in BOOLEAN
            BY <3>1 DEF Wanted, Plugins
          <5> QED
            BY <3>2, <5>1 DEF PluginRegister
        <4> QED
          BY <3>1, <4>1 DEF Plugins
      <3>3. CASE PluginGetQuery
        <4>1. CASE plugin.requests = <<>>
          BY <3>1, <3>3, <4>1 DEF PluginGetQuery, Plugins
        <4>2. CASE plugin.requests # <<>>
          <5>1. Head(plugin.requests) \in BOOLEAN /\ Tail(plugin.requests) \in Seq(BOOLEAN)
            BY <3>1, <4>2 DEF Plugins
          <5>2. plugin' = [plugin EXCEPT !.on = Head(plugin.requests), !.requests = Tail(@)]
            BY <3>3, <4>2 DEF PluginGetQuery
          <5> QED
            BY <3>1, <5>1, <5>2 DEF Plugins
        <4> QED
          BY <4>1, <4>2
      <3>4. CASE PluginCloses
        <4>1. <<>> \in Seq(BOOLEAN)
          OBVIOUS
        <4> QED
          BY <3>4, <4>1 DEF PluginCloses, Plugins, NoPlugin
      <3> QED
        BY <1>15, <3>2, <3>3, <3>4 DEF PluginNext
    <2>2. /\ UNCHANGED <<queueVars, sessionVars, threshold, flag, since, left, early, connVars>>
          /\ untold' \in BOOLEAN
      BY <1>15 DEF PluginNext, PluginRegister, PluginGetQuery, PluginCloses, TypeOK
    <2> QED
      BY <2>1, <2>2 DEF TypeOK, InTime
  <1>16. ASSUME UNCHANGED vars PROVE TypeOK' /\ InTime'
    BY <1>16 DEF vars, TypeOK, InTime
  <1>17. ASSUME NEW s \in Sessions, SessionNext(s) PROVE TypeOK' /\ InTime'
    BY <1>1, <1>2, <1>3, <1>4, <1>5, <1>6, <1>7, <1>8, <1>17 DEF SessionNext
  <1>18. ASSUME NEW c \in Connections, ConnectionNext(c) PROVE TypeOK' /\ InTime'
    BY <1>10, <1>11, <1>13, <1>14, <1>18 DEF ConnectionNext
  <1> QED
    BY <1>12, <1>15, <1>16, <1>17, <1>18 DEF Next

LEMMA TypesAlways == Spec => [](TypeOK /\ InTime)
PROOF
  <1>1. Init => TypeOK /\ InTime
    BY InitTypes
  <1>2. TypeOK /\ InTime /\ [Next]_vars => (TypeOK /\ InTime)'
    BY TypesStep
  <1> QED
    BY <1>1, <1>2, PTL DEF Spec

\* Every variable keeps its type; in particular a session that waits for an
\* event listens, and a session that listens is open.
THEOREM TypeCorrect == Spec => []TypeOK
PROOF
  BY TypesAlways, PTL

--------------------------------------------------------------------------------
(* The queue *)

\* The session has seen everything that was added before it listened, unless
\* its ListenL left.
SeenBefore == \A s \in listening \ left : since[s] <= last[s]

\* The bookkeeping of CEventQueue: it is finite and within its slots, whoever
\* waits has seen it all and whoever has not seen an event finds it there.
QueueInv == IsFiniteSet(iEvents) /\ QueueBounded /\ WaitingUpToDate /\ UnseenIsKept /\ SeenBefore

\* Steps that leave the queue alone and make nobody wait or listen.
LEMMA QueueStill ==
  ASSUME TypeOK, QueueInv, UNCHANGED queueVars,
         receiving' \subseteq receiving,
         listening' \ left' \subseteq listening \ left,
         \A s \in listening : last'[s] = last[s],
         \A s \in listening' \ left' : since'[s] = since[s]
  PROVE  QueueInv'
PROOF
  <1>1. UNCHANGED <<time, iEvents, lost>>
    BY DEF queueVars
  <1>2. receiving \subseteq listening
    BY DEF TypeOK
  <1>3. (IsFiniteSet(iEvents) /\ QueueBounded)'
    BY <1>1 DEF QueueInv, QueueBounded
  <1>4. WaitingUpToDate'
    BY <1>1, <1>2 DEF QueueInv, WaitingUpToDate
  <1>5. UnseenIsKept'
    BY <1>1 DEF QueueInv, UnseenIsKept
  <1>6. SeenBefore'
    BY DEF QueueInv, SeenBefore
  <1> QED
    BY <1>3, <1>4, <1>5, <1>6 DEF QueueInv

\* When an event is freed because as many sessions were offered it as listen,
\* those are all that listen.
LEMMA OfferedToAll ==
  ASSUME TypeOK, AllOffered
  PROVE  receiving = listening
PROOF
  <1>1. IsFiniteSet(listening) /\ receiving \subseteq listening
    BY SessionsAssumption, FS_Subset DEF TypeOK
  <1> QED
    BY <1>1, FS_Subset DEF AllOffered

\* Adding takes a slot only after it has freed the one it needs.
LEMMA AddKeepsBound ==
  ASSUME TypeOK, QueueInv, InTime, NEW info \in Infos, Add(info)
  PROVE  (IsFiniteSet(iEvents) /\ QueueBounded)'
PROOF
  <1>1. PICK e \in Events : iEvents' = (iEvents \ Evicted) \cup (IF AllOffered THEN {} ELSE {e})
    BY AddEffect
  <1> DEFINE rest == iEvents \ Evicted
  <1>2. IsFiniteSet(iEvents) /\ Cardinality(iEvents) <= QueueSize /\ Cardinality(iEvents) \in Nat
    BY FS_CardinalityType DEF QueueInv, QueueBounded
  <1>3. IsFiniteSet(rest) /\ Cardinality(rest) \in Nat /\ Cardinality(rest) <= QueueSize - 1
    <2>1. CASE Cardinality(iEvents) >= QueueSize
      <3>1. Evicted = {Oldest(iEvents)} /\ Oldest(iEvents) \in iEvents
        BY <2>1, AddEffect DEF Evicted
      <3>2. IsFiniteSet(rest) /\ Cardinality(rest) = Cardinality(iEvents) - 1
        BY <1>2, <3>1, FS_RemoveElement
      <3>3. Cardinality(rest) \in Nat
        BY <3>2, FS_CardinalityType
      <3> QED
        BY <1>2, <3>2, <3>3, SizeAssumption
    <2>2. CASE ~(Cardinality(iEvents) >= QueueSize)
      <3>1. rest = iEvents
        BY <2>2 DEF Evicted
      <3> QED
        BY <1>2, <2>2, <3>1, SizeAssumption
    <2> QED
      BY <2>1, <2>2
  <1> HIDE DEF rest
  <1>4. iEvents' = rest \/ iEvents' = rest \cup {e}
    BY <1>1 DEF rest
  <1>5. IsFiniteSet(rest \cup {e}) /\ Cardinality(rest \cup {e}) \in {Cardinality(rest), Cardinality(rest) + 1}
    BY <1>3, FS_AddElement
  <1>6. /\ IsFiniteSet(rest) /\ Cardinality(rest) <= QueueSize
        /\ IsFiniteSet(rest \cup {e}) /\ Cardinality(rest \cup {e}) <= QueueSize
    <2>1. QueueSize \in Nat
      BY SizeAssumption
    <2>2. \/ Cardinality(rest \cup {e}) = Cardinality(rest)
          \/ Cardinality(rest \cup {e}) = Cardinality(rest) + 1
      BY <1>3, FS_AddElement
    <2> QED
      BY <1>3, <1>5, <2>1, <2>2
  <1>7. IsFiniteSet(iEvents') /\ Cardinality(iEvents') <= QueueSize
    BY <1>4, <1>6
  <1> QED
    BY <1>7 DEF QueueBounded

LEMMA AddKeepsQueue ==
  ASSUME TypeOK, QueueInv, InTime, NEW info \in Infos, Add(info), UNCHANGED <<since, left>>
  PROVE  QueueInv'
PROOF
  <1>1. PICK e \in Events : /\ e = [time |-> time + 1, info |-> info]
                            /\ iEvents' = (iEvents \ Evicted) \cup (IF AllOffered THEN {} ELSE {e})
    BY AddEffect
  <1>2. /\ time' = time + 1 /\ lost' = lost \cup {f.time : f \in Evicted}
        /\ receiving' \subseteq receiving /\ UNCHANGED <<open, listening>>
        /\ \A s \in Sessions : last'[s] = IF s \in receiving THEN time + 1 ELSE last[s]
    BY AddEffect
  <1>3. /\ time \in Nat /\ receiving \subseteq listening /\ listening \subseteq Sessions
        /\ \A s \in Sessions : last[s] \in Nat /\ last[s] <= time /\ since[s] \in Nat
        /\ \A f \in iEvents : f.time \in Nat /\ f.time <= time
    BY DEF TypeOK, InTime, Events
  <1>4. WaitingUpToDate'
    <2>1. ASSUME NEW s \in receiving', NEW f \in iEvents' PROVE f.time <= last'[s]
      <3>1. last'[s] = time + 1
        BY <1>2, <1>3
      <3>2. f.time <= time + 1
        BY <1>1, <1>3
      <3> QED
        BY <3>1, <3>2
    <2> QED
      BY <2>1 DEF WaitingUpToDate
  <1>5. UnseenIsKept'
    <2>1. ASSUME NEW s \in listening' \ left', NEW t \in 1 .. time', t > last'[s]
          PROVE  t \in lost' \/ \E f \in iEvents' : f.time = t
      <3>1. s \in Sessions /\ s \notin receiving /\ t > last[s]
        BY <1>2, <1>3, <2>1
      <3>2. ~AllOffered
        BY <1>2, <3>1, OfferedToAll
      <3>3. CASE t = time + 1
        BY <1>1, <3>2, <3>3
      <3>4. CASE t \in 1 .. time
        <4>1. t \in lost \/ \E f \in iEvents : f.time = t
          BY <1>2, <3>1, <3>4 DEF QueueInv, UnseenIsKept
        <4> QED
          BY <1>1, <1>2, <4>1
      <3> QED
        BY <1>2, <1>3, <3>3, <3>4
    <2> QED
      BY <2>1 DEF UnseenIsKept
  <1>6. SeenBefore'
    <2>1. \A s \in listening \ left : since[s] <= last[s]
      BY DEF QueueInv, SeenBefore
    <2>2. \A s \in listening : last[s] <= last'[s] /\ last'[s] \in Nat
      BY <1>2, <1>3
    <2>3. \A s \in listening \ left : since[s] <= last'[s]
      BY <1>3, <2>1, <2>2
    <2> QED
      BY <1>2, <2>3 DEF SeenBefore
  <1> QED
    BY <1>4, <1>5, <1>6, AddKeepsBound DEF QueueInv

\* A session that asks for an event: it has seen no less than before.
LEMMA CheckKeepsQueue ==
  ASSUME TypeOK, QueueInv, InTime, NEW s \in open, NEW seen \in Nat, seen <= time,
         CheckEvents(s, seen), UNCHANGED <<queueVars, left>>,
         listening' \subseteq listening \cup {s}, s \notin left,
         \A t \in 1 .. time : t > seen => t \in lost \/ \E e \in iEvents : e.time = t,
         since'[s] <= seen, since'[s] \in Nat,
         \A d \in listening \ {s} : since'[d] = since[d]
  PROVE  QueueInv'
PROOF
  <1>1. UNCHANGED <<time, iEvents, lost>>
    BY DEF queueVars
  <1>2. /\ last' \in [Sessions -> Nat]
        /\ \A d \in Sessions \ {s} : last'[d] = last[d]
        /\ receiving' = receiving \cup {s} \/ receiving' = receiving \ {s}
        /\ seen <= last'[s]
        /\ s \in receiving' => \A e \in iEvents : e.time <= last'[s]
    BY CheckEventsEffect
  <1>3. receiving \subseteq listening /\ listening \subseteq Sessions /\ s \in Sessions /\ time \in Nat
    BY DEF TypeOK
  <1>4. (IsFiniteSet(iEvents) /\ QueueBounded)'
    BY <1>1 DEF QueueInv, QueueBounded
  <1>5. WaitingUpToDate'
    <2>1. \A d \in receiving, e \in iEvents : e.time <= last[d]
      BY DEF QueueInv, WaitingUpToDate
    <2>2. ASSUME NEW d \in receiving', NEW e \in iEvents PROVE e.time <= last'[d]
      <3>1. CASE d = s
        BY <1>2, <3>1
      <3>2. CASE d # s
        BY <1>2, <1>3, <2>1, <3>2
      <3> QED
        BY <3>1, <3>2
    <2> QED
      BY <1>1, <2>2 DEF WaitingUpToDate
  <1>6. UnseenIsKept'
    <2>1. ASSUME NEW d \in listening' \ left', NEW t \in 1 .. time, t > last'[d]
          PROVE  t \in lost \/ \E e \in iEvents : e.time = t
      <3>1. CASE d = s
        <4>1. t > seen
          BY <1>2, <1>3, <2>1, <3>1
        <4> QED
          BY <4>1
      <3>2. CASE d # s
        <4>1. d \in listening \ left /\ t > last[d]
          BY <1>2, <1>3, <2>1, <3>2
        <4> QED
          BY <4>1 DEF QueueInv, UnseenIsKept
      <3> QED
        BY <3>1, <3>2
    <2> QED
      BY <1>1, <2>1 DEF UnseenIsKept
  <1>7. SeenBefore'
    <2>1. \A d \in listening \ left : since[d] <= last[d]
      BY DEF QueueInv, SeenBefore
    <2>2. ASSUME NEW d \in listening' \ left' PROVE since'[d] <= last'[d]
      <3>1. CASE d = s
        <4>1. last'[s] \in Nat
          BY <1>2, <1>3
        <4> QED
          BY <1>2, <3>1, <4>1
      <3>2. CASE d # s
        BY <1>2, <1>3, <2>1, <3>2
      <3> QED
        BY <3>1, <3>2
    <2> QED
      BY <2>2 DEF SeenBefore
  <1> QED
    BY <1>4, <1>5, <1>6, <1>7 DEF QueueInv

LEMMA InitQueue == Init => QueueInv
PROOF
  <1> SUFFICES ASSUME Init PROVE QueueInv
    OBVIOUS
  <1>1. IsFiniteSet(iEvents) /\ QueueBounded
    BY FS_EmptySet, SizeAssumption DEF Init, QueueBounded
  <1> QED
    BY <1>1 DEF Init, QueueInv, WaitingUpToDate, UnseenIsKept, SeenBefore

\* The actions that add an event.
LEMMA AddingSteps ==
  ASSUME TypeOK,
         \/ \E type \in EventTypes : AddEvent(type)
         \/ \E c \in Connections, k \in DataKinds, amount \in Amounts :
              DataTransferred(c, k, amount)
  PROVE  /\ \E info \in Infos : Add(info)
         /\ UNCHANGED <<threshold, flag, ghosts, conn, noti, plugin>>
PROOF
  <1>1. ASSUME NEW type \in EventTypes, AddEvent(type)
        PROVE  /\ \E info \in Infos : Add(info)
               /\ UNCHANGED <<threshold, flag, ghosts, conn, noti, plugin>>
    <2>1. EventOf(type) \in Infos /\ \A c \in Connections : ConnEvent(type, c, 0) \in Infos
      BY NamesAssumption DEF EventOf, ConnEvent, Infos
    <2> QED
      BY <1>1, <2>1 DEF AddEvent, Up, connVars
  <1>2. ASSUME NEW c \in Connections, NEW k \in DataKinds, NEW amount \in Amounts,
               DataTransferred(c, k, amount)
        PROVE  /\ \E info \in Infos : Add(info)
               /\ UNCHANGED <<threshold, flag, ghosts, conn, noti, plugin>>
    <2>1. ConnEvent(k, c, amount) \in Infos
      BY ValuesAssumption DEF ConnEvent, Infos
    <2> QED
      BY <1>2, <2>1 DEF DataTransferred
  <1> QED
    BY <1>1, <1>2

LEMMA QueueStep ==
  ASSUME TypeOK, InTime, QueueInv, [Next]_vars
  PROVE  QueueInv'
PROOF
  <1> DEFINE still == /\ UNCHANGED queueVars /\ receiving' \subseteq receiving
                      /\ listening' \ left' \subseteq listening \ left
                      /\ \A s \in listening : last'[s] = last[s]
                      /\ \A s \in listening' \ left' : since'[s] = since[s]
  <1>1. still => QueueInv'
    BY QueueStill
  <1>2. ASSUME NEW s \in Sessions, OpenSession(s) PROVE still
    BY <1>2 DEF OpenSession, TypeOK, ghosts
  <1>3. ASSUME NEW s \in Sessions, ListenLeaves(s) PROVE still
    BY <1>3 DEF ListenLeaves, TypeOK
  <1>4. ASSUME NEW s \in Sessions, CancelReceive(s) \/ CloseSession(s) PROVE still
    <2>1. StopListening(s) /\ UNCHANGED <<queueVars, last>>
      BY <1>4 DEF CancelReceive, CloseSession
    <2>2. listening' = listening \ {s} /\ left' = left \ {s} /\ receiving' = receiving \ {s}
      BY <2>1 DEF StopListening, NotWaiting
    <2>3. \A d \in listening' : since'[d] = since[d]
      BY <2>1, <2>2 DEF StopListening, TypeOK
    <2> QED
      BY <2>1, <2>2, <2>3
  <1>5. ASSUME NEW s \in Sessions, NEW c \in Connections, NEW k \in Kinds,
               NEW value \in Thresholds, SetThreshold(s, c, k, value)
        PROVE  still
    BY <1>5 DEF SetThreshold, sessionVars, ghosts
  <1>6. ASSUME NEW s \in Sessions, NEW f \in Flags, NEW value \in FlagValues, SetFlag(s, f, value)
        PROVE  still
    BY <1>6 DEF SetFlag, sessionVars, ghosts
  <1>7. ASSUME NEW c \in Connections, ConnectionOpens(c) \/ ConnectionCloses(c) PROVE still
    BY <1>7 DEF ConnectionOpens, ConnectionCloses, sessionVars, ghosts
  <1>8. ASSUME NEW c \in Connections, NEW k \in DataKinds, DataCancelled(c, k) \/ DataFails(c, k)
        PROVE  still
    BY <1>8 DEF DataCancelled, DataFails, sessionVars, ghosts
  <1>9. ASSUME PluginNext PROVE still
    BY <1>9 DEF PluginNext, PluginRegister, PluginGetQuery, PluginCloses, sessionVars, ghosts
  <1>10. ASSUME UNCHANGED vars PROVE still
    BY <1>10 DEF vars, sessionVars, ghosts
  <1>11. ASSUME NEW s \in Sessions, ReceiveEvent(s) PROVE QueueInv'
    <2>1. /\ s \in listening /\ s \in open /\ s \in Sessions /\ last[s] \in Nat /\ last[s] <= time
          /\ since[s] \in Nat /\ CheckEvents(s, last[s])
          /\ UNCHANGED <<queueVars, listening, left, since>>
      BY <1>11 DEF ReceiveEvent, TypeOK, InTime, ghosts
    <2>2. CASE s \notin left
      <3>1. \A t \in 1 .. time : t > last[s] => t \in lost \/ \E e \in iEvents : e.time = t
        BY <2>1, <2>2 DEF QueueInv, UnseenIsKept
      <3>2. since'[s] <= last[s]
        BY <2>1, <2>2 DEF QueueInv, SeenBefore
      <3> QED
        BY <2>1, <2>2, <3>1, <3>2, CheckKeepsQueue
    <2>3. CASE s \in left
      <3>1. /\ \A d \in Sessions \ {s} : last'[d] = last[d]
            /\ receiving' = receiving \cup {s} \/ receiving' = receiving \ {s}
            /\ s \in receiving' => \A e \in iEvents : e.time <= last'[s]
        BY <2>1, CheckEventsEffect
      <3>2. UNCHANGED <<time, iEvents, lost>> /\ receiving \subseteq listening /\ listening \subseteq Sessions
        BY <2>1 DEF queueVars, TypeOK
      <3>3. WaitingUpToDate'
        <4>1. \A d \in receiving, e \in iEvents : e.time <= last[d]
          BY DEF QueueInv, WaitingUpToDate
        <4>2. ASSUME NEW d \in receiving', NEW e \in iEvents PROVE e.time <= last'[d]
          BY <2>1, <3>1, <3>2, <4>1
        <4> QED
          BY <3>2, <4>2 DEF WaitingUpToDate
      <3>4. \A d \in listening' \ left' : d \in listening \ left /\ last'[d] = last[d]
        BY <2>1, <2>3, <3>1, <3>2
      <3>5. UnseenIsKept'
        BY <3>2, <3>4 DEF QueueInv, UnseenIsKept
      <3>6. SeenBefore'
        BY <2>1, <3>4 DEF QueueInv, SeenBefore
      <3>7. (IsFiniteSet(iEvents) /\ QueueBounded)'
        BY <3>2 DEF QueueInv, QueueBounded
      <3> QED
        BY <3>3, <3>5, <3>6, <3>7 DEF QueueInv
    <2> QED
      BY <2>2, <2>3
  <1>12. ASSUME NEW s \in Sessions, StartListening(s) PROVE QueueInv'
    <2>1. /\ s \in open /\ s \notin listening /\ s \notin left /\ time \in Nat
          /\ CheckEvents(s, time) /\ UNCHANGED <<queueVars, left>>
          /\ listening' = listening \cup {s}
      BY <1>12 DEF StartListening, TypeOK, FromNowOn
    <2>2. since'[s] = time /\ \A d \in listening \ {s} : since'[d] = since[d]
      BY <1>12 DEF StartListening, TypeOK
    <2>3. \A t \in 1 .. time : ~(t > time)
      BY <2>1
    <2>4. time <= time /\ since'[s] <= time /\ since'[s] \in Nat
      BY <2>1, <2>2
    <2> QED
      BY <2>1, <2>2, <2>3, <2>4, CheckKeepsQueue
  <1>13. ASSUME \/ \E type \in EventTypes : AddEvent(type)
                \/ \E c \in Connections, k \in DataKinds, amount \in Amounts :
                     DataTransferred(c, k, amount)
         PROVE  QueueInv'
    <2>1. PICK info \in Infos : Add(info)
      BY <1>13, AddingSteps
    <2>2. UNCHANGED <<since, left>>
      BY <1>13, AddingSteps DEF ghosts
    <2> QED
      BY <2>1, <2>2, AddKeepsQueue
  <1> HIDE DEF still
  <1>14. ASSUME NEW s \in Sessions, SessionNext(s) PROVE QueueInv'
    BY <1>1, <1>2, <1>3, <1>4, <1>5, <1>6, <1>11, <1>12, <1>14 DEF SessionNext
  <1>15. ASSUME NEW c \in Connections, ConnectionNext(c) PROVE QueueInv'
    BY <1>1, <1>7, <1>8, <1>13, <1>15 DEF ConnectionNext
  <1> QED
    BY <1>1, <1>9, <1>10, <1>13, <1>14, <1>15 DEF Next

LEMMA QueueAlways == Spec => [](TypeOK /\ InTime /\ QueueInv)
PROOF
  <1>1. Init => QueueInv
    BY InitQueue
  <1>2. TypeOK /\ InTime /\ QueueInv /\ [Next]_vars => QueueInv'
    BY QueueStep
  <1> QED
    BY <1>1, <1>2, TypesAlways, PTL DEF Spec

\* No session is left waiting behind an event of the queue.
THEOREM WaitingCorrect == Spec => []WaitingUpToDate
PROOF
  <1>1. QueueInv => WaitingUpToDate
    BY DEF QueueInv
  <1> QED
    BY <1>1, QueueAlways, PTL

\* The queue keeps within its slots, and what a session has not seen is there
\* or was lost to a full queue: freeing an event early never takes it from
\* somebody.
THEOREM QueueCorrect == Spec => []QueueKeeps
PROOF
  <1>1. QueueInv => QueueKeeps
    BY DEF QueueInv, QueueKeeps
  <1> QED
    BY <1>1, QueueAlways, PTL

--------------------------------------------------------------------------------
(* The order of the events *)

\* What SentInOrder asks of one session in one step.
InOrder(s) ==
  given'[s] \notin {0, given[s]} =>
    /\ given'[s] > since'[s] \/ s \in left
    /\ s \in listening => given'[s] > last[s]
    /\ s \in listening =>
         \A e \in iEvents : last[s] < e.time /\ e.time < given'[s] => ~Passes(s, e.info)

LEMMA OrderStep ==
  ASSUME TypeOK, InTime, QueueInv, [Next]_vars, NEW s \in listening'
  PROVE  InOrder(s)
PROOF
  <1>1. s \in Sessions
    <2>1. TypeOK'
      BY TypesStep
    <2> QED
      BY <2>1 DEF TypeOK
  <1>2. ASSUME given'[s] = given[s] PROVE InOrder(s)
    BY <1>2 DEF InOrder
  <1>3. /\ last[s] \in Nat /\ since[s] \in Nat /\ last[s] <= time /\ since[s] <= time /\ time \in Nat
        /\ \A e \in iEvents : e.time \in Nat
    BY <1>1 DEF TypeOK, InTime, Events
  <1>4. ASSUME NEW d \in Sessions, ReceiveEvent(d) PROVE InOrder(s)
    <2>1. /\ d \in listening /\ d \in open /\ last[d] \in Nat /\ last[d] <= time
          /\ since[d] \in Nat /\ CheckEvents(d, last[d]) /\ UNCHANGED <<since, left>>
      BY <1>4 DEF ReceiveEvent, TypeOK, InTime, ghosts
    <2>2. /\ \A x \in Sessions \ {d} : given'[x] = given[x]
          /\ d \in receiving' => given' = given
          /\ d \notin receiving' =>
               /\ last[d] < given'[d]
               /\ \A e \in iEvents : last[d] < e.time /\ e.time < given'[d] => ~Passes(d, e.info)
          /\ given' \in [Sessions -> Nat]
      BY <2>1, CheckEventsEffect
    <2>3. CASE s # d
      BY <1>1, <1>2, <2>2, <2>3
    <2>4. CASE s = d /\ d \in receiving'
      BY <1>2, <2>2, <2>4
    <2>5. CASE s = d /\ d \notin receiving'
      <3>1. s \notin left => since'[s] <= last[s]
        BY <2>1, <2>5 DEF QueueInv, SeenBefore
      <3>2. s \notin left => given'[s] > since'[s]
        BY <1>1, <1>3, <2>1, <2>2, <2>5, <3>1
      <3> QED
        BY <2>1, <2>2, <2>5, <3>2 DEF InOrder
    <2> QED
      BY <2>3, <2>4, <2>5
  <1>5. ASSUME NEW d \in Sessions, StartListening(d) PROVE InOrder(s)
    <2>1. /\ d \notin listening /\ d \in open /\ CheckEvents(d, time) /\ since'[d] = time
      BY <1>5 DEF StartListening, TypeOK, FromNowOn
    <2>2. /\ \A x \in Sessions \ {d} : given'[x] = given[x]
          /\ d \in receiving' => given' = given
          /\ d \notin receiving' => time < given'[d]
      BY <1>3, <2>1, CheckEventsEffect
    <2>3. CASE s # d
      BY <1>1, <1>2, <2>2, <2>3
    <2>4. CASE s = d
      BY <1>2, <2>1, <2>2, <2>4 DEF InOrder
    <2> QED
      BY <2>3, <2>4
  <1>6. ASSUME NEW d \in Sessions, CancelReceive(d) \/ CloseSession(d) PROVE InOrder(s)
    <2>1. given' = [given EXCEPT ![d] = 0]
      BY <1>6 DEF CancelReceive, CloseSession, StopListening
    <2> QED
      BY <1>1, <2>1 DEF InOrder, TypeOK
  <1>7. ASSUME \/ \E type \in EventTypes : AddEvent(type)
               \/ \E c \in Connections, k \in DataKinds, amount \in Amounts :
                    DataTransferred(c, k, amount)
        PROVE  InOrder(s)
    <2>1. PICK info \in Infos : Add(info)
      BY <1>7, AddingSteps
    <2>2. since' = since /\ listening' = listening
      BY <1>7, <2>1, AddingSteps, AddEffect DEF ghosts
    <2>3. CASE s \in receiving /\ given'[s] = time + 1
      <3>1. \A e \in iEvents : e.time <= last[s]
        BY <2>3 DEF QueueInv, WaitingUpToDate
      <3>2. \A e \in iEvents : ~(last[s] < e.time)
        BY <1>3, <3>1
      <3>3. given'[s] > since'[s] /\ given'[s] > last[s]
        BY <1>3, <2>2, <2>3
      <3> QED
        BY <3>2, <3>3 DEF InOrder
    <2> QED
      BY <1>1, <1>2, <2>1, <2>3, AddEffect
  <1>8. ASSUME NEW d \in Sessions, OpenSession(d) \/ ListenLeaves(d) PROVE given' = given
    BY <1>8 DEF OpenSession, ListenLeaves
  <1>9. ASSUME NEW d \in Sessions, NEW c \in Connections, NEW k \in Kinds,
               NEW value \in Thresholds, SetThreshold(d, c, k, value)
        PROVE  given' = given
    BY <1>9 DEF SetThreshold, sessionVars
  <1>10. ASSUME NEW d \in Sessions, NEW f \in Flags, NEW value \in FlagValues, SetFlag(d, f, value)
        PROVE  given' = given
    BY <1>10 DEF SetFlag, sessionVars
  <1>11. ASSUME NEW c \in Connections, ConnectionOpens(c) \/ ConnectionCloses(c)
         PROVE  given' = given
    BY <1>11 DEF ConnectionOpens, ConnectionCloses, sessionVars
  <1>12. ASSUME NEW c \in Connections, NEW k \in DataKinds, DataCancelled(c, k) \/ DataFails(c, k)
         PROVE  given' = given
    BY <1>12 DEF DataCancelled, DataFails, sessionVars
  <1>13. ASSUME PluginNext \/ UNCHANGED vars PROVE given' = given
    BY <1>13 DEF PluginNext, PluginRegister, PluginGetQuery, PluginCloses, sessionVars, vars
  <1>14. ASSUME NEW d \in Sessions, SessionNext(d) PROVE InOrder(s)
    BY <1>2, <1>4, <1>5, <1>6, <1>8, <1>9, <1>10, <1>14 DEF SessionNext
  <1>15. ASSUME NEW c \in Connections, ConnectionNext(c) PROVE InOrder(s)
    BY <1>2, <1>7, <1>11, <1>12, <1>15 DEF ConnectionNext
  <1> QED
    BY <1>2, <1>7, <1>13, <1>14, <1>15 DEF Next

\* A listening session is sent its events in their order, from those that were
\* added since it listens, and none that passes its filter is passed over.
THEOREM OrderCorrect == Spec => SentInOrder
PROOF
  <1>1. TypeOK /\ InTime /\ QueueInv /\ [Next]_vars => \A s \in listening' : InOrder(s)
    BY OrderStep
  <1>2. TypeOK /\ InTime /\ QueueInv /\ [Next]_vars =>
          [\A s \in listening' : given'[s] \notin {0, given[s]} =>
             /\ given'[s] > since'[s] \/ s \in left
             /\ s \in listening => given'[s] > last[s]
             /\ s \in listening =>
                  \A e \in iEvents : last[s] < e.time /\ e.time < given'[s] => ~Passes(s, e.info)]_vars
    BY <1>1 DEF InOrder
  <1> QED
    BY <1>2, QueueAlways, PTL DEF Spec, SentInOrder

--------------------------------------------------------------------------------
(* The plug-in *)

\* What the plug-in knows before it registers is that nobody wants the events,
\* and afterwards what somebody wants; nothing waits for it while it asks.
PluginInv ==
  /\ ~plugin.registered => ~plugin.on /\ plugin.requests = <<>>
  /\ plugin.asking => plugin.requests = <<>>
  /\ plugin.registered /\ ~untold => (Told <=> Wanted(listening, flag))

\* Telling the plug-in of a change leaves it knowing the new value.
LEMMA TellTells ==
  ASSUME TypeOK, PluginInv, NEW before \in BOOLEAN, NEW after \in BOOLEAN, NEW value,
         plugin' = TellPlugin(before, after, value)
  PROVE  /\ plugin'.registered = plugin.registered
         /\ ~plugin'.registered => ~plugin'.on /\ plugin'.requests = <<>>
         /\ plugin'.asking => plugin'.requests = <<>>
         /\ before = after => Told' = Told
         /\ plugin.registered /\ before # after => (Told' <=> value = 1)
PROOF
  <1> DEFINE on == (value = 1)
  <1>0. on \in BOOLEAN
    OBVIOUS
  <1> HIDE DEF on
  <1>1. plugin \in Plugins
    BY DEF TypeOK
  <1>2. CASE before = after
    BY <1>2 DEF TellPlugin, PluginInv, Told
  <1>3. CASE before # after /\ ~plugin.registered
    <2>1. plugin' = plugin
      BY <1>1, <1>3 DEF TellPlugin, Ask, Plugins
    <2> QED
      BY <1>3, <2>1 DEF PluginInv
  <1>4. CASE before # after /\ plugin.registered /\ plugin.asking
    <2>1. plugin' = [plugin EXCEPT !.asking = FALSE, !.on = on]
      BY <1>4 DEF TellPlugin, Ask, on
    <2>2. plugin.requests = <<>>
      BY <1>4 DEF PluginInv
    <2>3. Told' = on
      BY <1>0, <1>1, <2>1, <2>2 DEF Told, Plugins
    <2> QED
      BY <1>1, <1>4, <2>1, <2>2, <2>3 DEF Plugins, on
  <1>5. CASE before # after /\ plugin.registered /\ ~plugin.asking
    <2>1. plugin' = [plugin EXCEPT !.requests = Append(@, on)]
      BY <1>5 DEF TellPlugin, Ask, on
    <2>2. /\ plugin'.requests = Append(plugin.requests, on) /\ plugin'.registered /\ ~plugin'.asking
      BY <1>1, <1>5, <2>1 DEF Plugins
    <2>3. /\ Append(plugin.requests, on) # <<>>
          /\ Append(plugin.requests, on)[Len(Append(plugin.requests, on))] = on
      BY <1>0, <1>1 DEF Plugins
    <2>4. Told' = on
      BY <2>2, <2>3 DEF Told
    <2> QED
      BY <1>5, <2>2, <2>4 DEF on
  <1>6. plugin.registered \in BOOLEAN /\ plugin.asking \in BOOLEAN
    BY <1>1 DEF Plugins
  <1> QED
    BY <1>2, <1>3, <1>4, <1>5, <1>6

\* Steps that leave the plug-in alone: what is wanted changes only untold.
LEMMA PluginStill ==
  ASSUME PluginInv, plugin' = plugin, NEW told,
         NoteUntold(Wanted(listening, flag), Wanted(listening, flag)', told),
         Wanted(listening, flag)' # Wanted(listening, flag) => ~told
  PROVE  PluginInv'
PROOF
  BY DEF PluginInv, NoteUntold, Told

\* Steps in which the plug-in is told: when what is wanted changes it hears the
\* new value, or the session counts as one that has not told it.
LEMMA PluginIsTold ==
  ASSUME TypeOK, PluginInv, NEW after \in BOOLEAN, NEW value, NEW told,
         plugin' = TellPlugin(Wanted(listening, flag), after, value),
         Wanted(listening, flag)' = after,
         NoteUntold(Wanted(listening, flag), after, told),
         Wanted(listening, flag) # after /\ told => (value = 1) = after
  PROVE  PluginInv'
PROOF
  <1>1. Wanted(listening, flag) \in BOOLEAN
    BY DEF Wanted
  <1>2. /\ plugin'.registered = plugin.registered
        /\ ~plugin'.registered => ~plugin'.on /\ plugin'.requests = <<>>
        /\ plugin'.asking => plugin'.requests = <<>>
        /\ Wanted(listening, flag) = after => Told' = Told
        /\ plugin.registered /\ Wanted(listening, flag) # after => (Told' <=> value = 1)
    BY <1>1, TellTells
  <1>3. CASE Wanted(listening, flag) = after
    <2>1. untold' = untold /\ Told' = Told
      BY <1>2, <1>3 DEF NoteUntold
    <2>2. plugin'.registered /\ ~untold' => (Told' <=> Wanted(listening, flag)')
      BY <1>2, <1>3, <2>1 DEF PluginInv
    <2> QED
      BY <1>2, <2>2 DEF PluginInv
  <1>4. CASE Wanted(listening, flag) # after
    <2>1. untold' = ~told
      BY <1>4 DEF NoteUntold
    <2>2. plugin'.registered /\ ~untold' => (Told' <=> Wanted(listening, flag)')
      BY <1>2, <1>4, <2>1
    <2> QED
      BY <1>2, <2>2 DEF PluginInv
  <1> QED
    BY <1>3, <1>4

LEMMA PluginOwnSteps ==
  ASSUME TypeOK, PluginInv, PluginNext
  PROVE  PluginInv'
PROOF
  <1>1. plugin \in Plugins
    BY DEF TypeOK
  <1>2. UNCHANGED <<listening, flag>>
    BY DEF PluginNext, PluginRegister, PluginGetQuery, PluginCloses, sessionVars, ghosts
  <1>3. (Wanted(listening, flag)' <=> Wanted(listening, flag)) /\ Wanted(listening, flag) \in BOOLEAN
    BY <1>2 DEF Wanted
  <1>4. CASE PluginRegister
    <2>1. ~plugin.registered /\ ~plugin.on /\ plugin.requests = <<>> /\ plugin.asking \in BOOLEAN
      BY <1>1, <1>4 DEF PluginRegister, PluginInv, Plugins
    <2>2. CASE ~Wanted(listening, flag)
      <3>1. plugin' = [plugin EXCEPT !.registered = TRUE]
        BY <1>4, <2>2 DEF PluginRegister
      <3>2. plugin'.requests = <<>> /\ plugin'.on = plugin.on /\ plugin'.registered
        BY <1>1, <2>1, <3>1 DEF Plugins
      <3>3. ~Told'
        BY <2>1, <3>2 DEF Told
      <3> QED
        BY <1>3, <2>2, <3>2, <3>3 DEF PluginInv
    <2>3. CASE Wanted(listening, flag) /\ plugin.asking
      <3>1. plugin' = [plugin EXCEPT !.registered = TRUE, !.asking = FALSE, !.on = TRUE]
        BY <1>4, <2>3 DEF PluginRegister
      <3>2. plugin'.requests = <<>> /\ plugin'.on = TRUE /\ plugin'.registered /\ ~plugin'.asking
        BY <1>1, <2>1, <3>1 DEF Plugins
      <3>3. Told'
        BY <3>2 DEF Told
      <3> QED
        BY <1>3, <2>3, <3>2, <3>3 DEF PluginInv
    <2>4. CASE Wanted(listening, flag) /\ ~plugin.asking
      <3>1. plugin' = [plugin EXCEPT !.registered = TRUE, !.requests = <<TRUE>>]
        BY <1>4, <2>4 DEF PluginRegister
      <3>2. plugin'.requests = <<TRUE>> /\ plugin'.registered /\ ~plugin'.asking
        BY <1>1, <2>4, <3>1 DEF Plugins
      <3>3. Told'
        BY <3>2 DEF Told
      <3> QED
        BY <1>3, <2>4, <3>2, <3>3 DEF PluginInv
    <2> QED
      BY <1>3, <2>1, <2>2, <2>3, <2>4
  <1>5. CASE PluginGetQuery
    <2>0. untold' = untold
      BY <1>5 DEF PluginGetQuery, ghosts
    <2>1. CASE plugin.requests = <<>>
      <3>1. plugin' = [plugin EXCEPT !.asking = TRUE]
        BY <1>5, <2>1 DEF PluginGetQuery
      <3>2. /\ plugin'.requests = <<>> /\ plugin'.on = plugin.on
            /\ plugin'.registered = plugin.registered
        BY <1>1, <2>1, <3>1 DEF Plugins
      <3>3. Told' = Told
        BY <2>1, <3>2 DEF Told
      <3> QED
        BY <1>2, <1>3, <1>5, <2>0, <3>2, <3>3 DEF PluginInv
    <2>2. CASE plugin.requests # <<>>
      <3> DEFINE rs == plugin.requests
      <3>1. plugin' = [plugin EXCEPT !.on = Head(rs), !.requests = Tail(@)]
        BY <1>5, <2>2 DEF PluginGetQuery
      <3>2. /\ plugin'.requests = Tail(rs) /\ plugin'.on = Head(rs)
            /\ plugin'.registered = plugin.registered /\ ~plugin'.asking
        BY <1>1, <1>5, <3>1 DEF Plugins, PluginGetQuery
      <3>3. rs \in Seq(BOOLEAN) /\ plugin.registered
        BY <1>1, <2>2 DEF PluginInv, Plugins
      <3>4. Told' = rs[Len(rs)]
        <4>1. CASE Tail(rs) = <<>>
          <5>1. Len(rs) = 1
            <6> HIDE DEF rs
            <6>1. rs # <<>>
              BY <2>2 DEF rs
            <6>2. Len(Tail(rs)) = Len(rs) - 1 /\ Len(rs) \in Nat
              BY <3>3, <6>1, HeadTailProperties
            <6>3. Len(<<>>) = 0
              BY EmptySeq
            <6>4. Len(Tail(rs)) = 0
              BY <4>1, <6>3, Zenon
            <6> QED
              BY <6>2, <6>4
          <5>2. Told' = Head(rs)
            BY <3>2, <4>1 DEF Told
          <5> QED
            BY <2>2, <3>3, <5>1, <5>2
        <4>2. CASE Tail(rs) # <<>>
          <5>1. Told' = Tail(rs)[Len(Tail(rs))]
            BY <3>2, <4>2 DEF Told
          <5>2. Tail(rs)[Len(Tail(rs))] = rs[Len(rs)]
            <6> HIDE DEF rs
            <6>1. rs # <<>>
              BY <2>2 DEF rs
            <6>2. Len(Tail(rs)) = Len(rs) - 1 /\ Len(rs) \in Nat /\ Len(Tail(rs)) > 0
              BY <3>3, <4>2, <6>1
            <6>3. \A n \in 1 .. Len(Tail(rs)) : Tail(rs)[n] = rs[n + 1]
              BY <3>3, <6>1
            <6> QED
              BY <6>2, <6>3
          <5> QED
            BY <5>1, <5>2
        <4> QED
          BY <4>1, <4>2
      <3>5. Told = rs[Len(rs)]
        BY <2>2 DEF Told
      <3> QED
        BY <1>2, <1>3, <2>0, <3>2, <3>3, <3>4, <3>5 DEF PluginInv
    <2> QED
      BY <2>1, <2>2
  <1>6. CASE PluginCloses
    BY <1>6 DEF PluginCloses, PluginInv, NoPlugin
  <1> QED
    BY <1>4, <1>5, <1>6 DEF PluginNext

LEMMA PluginStep ==
  ASSUME TypeOK, PluginInv, [Next]_vars
  PROVE  PluginInv'
PROOF
  <1>0. /\ listening \subseteq Sessions
        /\ \A s \in Sessions : flag[s]["availability"] \in Nat
        /\ plugin \in Plugins
        /\ \A ls, fl : Wanted(ls, fl) \in BOOLEAN
    BY DEF TypeOK, FlagNames, Wanted
  <1>1. ASSUME UNCHANGED <<listening, flag, untold, plugin>> PROVE PluginInv'
    BY <1>1 DEF PluginInv, Told, Wanted
  <1>2. ASSUME NEW s \in Sessions, StartListening(s) PROVE PluginInv'
    <2>1. /\ listening' = listening \cup {s} /\ flag' = flag
          /\ NoteUntold(Wanted(listening, flag), Wanted(listening, flag)',
                        flag[s]["availability"] = 1)
      <3>1. flag' = flag
        BY <1>2 DEF StartListening
      <3>2. Wanted(listening, flag)' = Wanted(listening', flag)
        BY <3>1 DEF Wanted
      <3> QED
        BY <1>2, <3>1, <3>2 DEF StartListening
    <2>2. CASE flag[s]["availability"] = 1
      <3>1. plugin' = TellPlugin(Wanted(listening, flag), TRUE, 1)
        BY <1>2, <2>2 DEF StartListening
      <3>2. Wanted(listening, flag)' = TRUE
        BY <2>1, <2>2 DEF Wanted
      <3>3. NoteUntold(Wanted(listening, flag), TRUE, flag[s]["availability"] = 1)
        BY <2>1, <3>2
      <3> QED
        BY <3>1, <3>2, <3>3, PluginIsTold
    <2>3. CASE flag[s]["availability"] # 1
      <3>1. plugin' = plugin
        BY <1>2, <2>3 DEF StartListening
      <3> QED
        BY <2>1, <2>3, <3>1, PluginStill
    <2> QED
      BY <2>2, <2>3
  <1>3. ASSUME NEW s \in Sessions, ListenLeaves(s) PROVE PluginInv'
    <2>1. /\ UNCHANGED <<flag, plugin>>
          /\ NoteUntold(Wanted(listening, flag), Wanted(listening', flag), FALSE)
      BY <1>3 DEF ListenLeaves
    <2>2. Wanted(listening, flag)' = Wanted(listening', flag)
      BY <2>1 DEF Wanted
    <2> QED
      BY <2>1, <2>2, PluginStill
  <1>4. ASSUME NEW s \in Sessions, CancelReceive(s) \/ CloseSession(s) PROVE PluginInv'
    <2>1. StopListening(s)
      BY <1>4 DEF CancelReceive, CloseSession
    <2>2. /\ listening' = listening \ {s}
          /\ NoteUntold(Wanted(listening, flag), Wanted(listening \ {s}, flag),
                        flag[s]["availability"] = 1)
      BY <2>1 DEF StopListening
    <2>3. \A d \in listening \ {s} : flag'[d] = flag[d]
      BY <1>0, <1>4 DEF CancelReceive, CloseSession, TypeOK
    <2>4. Wanted(listening, flag)' = Wanted(listening \ {s}, flag)
      BY <2>2, <2>3 DEF Wanted
    <2>5. CASE flag[s]["availability"] = 1
      <3>1. plugin' = TellPlugin(Wanted(listening, flag), Wanted(listening \ {s}, flag), 0)
        BY <2>1, <2>5 DEF StopListening
      <3>2. Wanted(listening, flag) # Wanted(listening \ {s}, flag)
              => Wanted(listening \ {s}, flag) = FALSE
        BY DEF Wanted
      <3> QED
        BY <1>0, <2>2, <2>4, <3>1, <3>2, PluginIsTold
    <2>6. CASE flag[s]["availability"] # 1
      <3>1. plugin' = plugin
        BY <2>1, <2>6 DEF StopListening
      <3> QED
        BY <2>2, <2>4, <2>6, <3>1, PluginStill
    <2> QED
      BY <2>5, <2>6
  <1>5. ASSUME NEW s \in Sessions, NEW f \in Flags, NEW value \in FlagValues, SetFlag(s, f, value)
        PROVE  PluginInv'
    <2> DEFINE fl == [flag EXCEPT ![s][f] = value]
    <2>1. /\ flag' = fl /\ listening' = listening
          /\ NoteUntold(Wanted(listening, flag), Wanted(listening, fl), value \in {0, 1})
      BY <1>5 DEF SetFlag, sessionVars
    <2>2. Wanted(listening, flag)' = Wanted(listening, fl)
      BY <2>1 DEF Wanted
    <2>3. CASE f = "availability"
      <3>1. plugin' = TellPlugin(Wanted(listening, flag), Wanted(listening, fl), value)
        BY <1>5, <2>3 DEF SetFlag
      <3>2. \A d \in Sessions : fl[d]["availability"] =
                                  IF d = s THEN value ELSE flag[d]["availability"]
        BY <2>3 DEF TypeOK, FlagNames
      <3>3. Wanted(listening, flag) # Wanted(listening, fl) =>
              Wanted(listening, fl) = (value # 0)
        BY <1>0, <3>2 DEF Wanted
      <3>4. value \in {0, 1} => (value = 1) = (value # 0)
        OBVIOUS
      <3> HIDE DEF fl
      <3> QED
        BY <1>0, <2>1, <2>2, <3>1, <3>3, <3>4, PluginIsTold
    <2>4. CASE f # "availability"
      <3>1. plugin' = plugin
        BY <1>5, <2>4 DEF SetFlag
      <3>2. \A d \in Sessions : fl[d]["availability"] = flag[d]["availability"]
        BY <2>4 DEF TypeOK, FlagNames
      <3>3. Wanted(listening, fl) = Wanted(listening, flag)
        BY <1>0, <3>2 DEF Wanted
      <3> HIDE DEF fl
      <3> QED
        BY <2>1, <2>2, <3>1, <3>3, PluginStill
    <2> QED
      BY <2>3, <2>4
  <1>6. ASSUME NEW s \in Sessions, OpenSession(s) \/ ReceiveEvent(s) PROVE PluginInv'
    BY <1>1, <1>6 DEF OpenSession, ReceiveEvent, ghosts
  <1>7. ASSUME NEW s \in Sessions, NEW c \in Connections, NEW k \in Kinds,
               NEW value \in Thresholds, SetThreshold(s, c, k, value)
        PROVE  PluginInv'
    BY <1>1, <1>7 DEF SetThreshold, sessionVars, ghosts
  <1>8. ASSUME NEW c \in Connections, ConnectionOpens(c) \/ ConnectionCloses(c) PROVE PluginInv'
    BY <1>1, <1>8 DEF ConnectionOpens, ConnectionCloses, sessionVars, ghosts
  <1>9. ASSUME NEW c \in Connections, NEW k \in DataKinds, DataCancelled(c, k) \/ DataFails(c, k)
        PROVE  PluginInv'
    BY <1>1, <1>9 DEF DataCancelled, DataFails, sessionVars, ghosts
  <1>10. ASSUME \/ \E type \in EventTypes : AddEvent(type)
                \/ \E c \in Connections, k \in DataKinds, amount \in Amounts :
                     DataTransferred(c, k, amount)
         PROVE  PluginInv'
    <2>1. PICK info \in Infos : Add(info)
      BY <1>10, AddingSteps
    <2>2. UNCHANGED <<listening, flag, untold, plugin>>
      BY <1>10, <2>1, AddingSteps DEF Add, ghosts
    <2> QED
      BY <1>1, <2>2
  <1>11. ASSUME UNCHANGED vars PROVE PluginInv'
    BY <1>1, <1>11 DEF vars, sessionVars, ghosts
  <1>12. ASSUME NEW s \in Sessions, SessionNext(s) PROVE PluginInv'
    BY <1>2, <1>3, <1>4, <1>5, <1>6, <1>7, <1>12 DEF SessionNext
  <1>13. ASSUME NEW c \in Connections, ConnectionNext(c) PROVE PluginInv'
    BY <1>8, <1>9, <1>10, <1>13 DEF ConnectionNext
  <1> QED
    BY <1>10, <1>11, <1>12, <1>13, PluginOwnSteps DEF Next

\* The plug-in sends availability events exactly while some listening session
\* wants them, once it has taken the requests that wait for it.
THEOREM PluginCorrect == Spec => []PluginFollows
PROOF
  <1>1. Init => PluginInv
    BY DEF Init, PluginInv, NoPlugin
  <1>2. TypeOK /\ PluginInv /\ [Next]_vars => PluginInv'
    BY PluginStep
  <1>3. PluginInv => PluginFollows
    BY DEF PluginInv, PluginFollows
  <1> QED
    BY <1>1, <1>2, <1>3, TypesAlways, PTL DEF Spec

--------------------------------------------------------------------------------
(* The data thresholds *)

\* Waking notifiers arms the ones whose threshold some session has set, and
\* takes nobody's request away.
LEMMA WokenArmed ==
  ASSUME TypeOK, NEW cs,
         NEW th \in [Sessions -> [Connections -> [DataKinds \cup {"activity"} -> Nat]]],
         NEW c \in Connections, NEW k \in DataKinds
  PROVE  /\ armed[c][k] # Idle => Woken(cs, th)[c][k] # Idle
         /\ c \in cs => \A s \in open : th[s][c][k] > 0 => Woken(cs, th)[c][k] # Idle
PROOF
  <1>1. /\ Global(th, c, k) \in Nat
        /\ \A s \in open : th[s][c][k] > 0 => Global(th, c, k) > 0
    <2>1. open \subseteq Sessions
      BY DEF TypeOK
    <2> QED
      BY <2>1, GlobalType
  <1>2. Woken(cs, th)[c][k] = IF c \in cs THEN Receive(armed[c][k], th, c, k) ELSE armed[c][k]
    BY DEF Woken
  <1> QED
    BY <1>1, <1>2 DEF Receive, Idle

\* Steps that leave the thresholds and do not disarm anybody.
LEMMA ArmedStill ==
  ASSUME ArmedWhileWanted, listening' \ early' \subseteq listening \ early,
         noti' \subseteq noti, noti \subseteq Connections,
         \A s \in listening', c \in noti', k \in DataKinds :
           threshold'[s][c][k] = threshold[s][c][k],
         \A c \in noti', k \in DataKinds : armed[c][k] # Idle => armed'[c][k] # Idle
  PROVE  ArmedWhileWanted'
PROOF
  <1>1. \A s \in listening \ early, c \in noti, k \in DataKinds :
          threshold[s][c][k] > 0 => armed[c][k] # Idle
    BY DEF ArmedWhileWanted
  <1>2. ASSUME NEW s \in listening' \ early', NEW c \in noti', NEW k \in DataKinds,
               threshold'[s][c][k] > 0
        PROVE  armed'[c][k] # Idle
    BY <1>1, <1>2
  <1> QED
    BY <1>2 DEF ArmedWhileWanted

LEMMA ArmedSessionStep ==
  ASSUME TypeOK, ArmedWhileWanted, NEW s \in Sessions, SessionNext(s)
  PROVE  ArmedWhileWanted'
PROOF
  <1>0. /\ listening \subseteq open /\ open \subseteq Sessions /\ noti \subseteq Connections
        /\ threshold \in [Sessions -> [Connections -> [DataKinds \cup {"activity"} -> Nat]]]
    BY DEF TypeOK
  <1>1. \A d \in listening \ early, c \in noti, k \in DataKinds :
          threshold[d][c][k] > 0 => armed[c][k] # Idle
    BY DEF ArmedWhileWanted
  <1>2. CASE OpenSession(s) \/ ReceiveEvent(s) \/ \E f \in Flags, value \in FlagValues : SetFlag(s, f, value)
    <2>1. UNCHANGED <<listening, early, noti, armed, threshold>>
      BY <1>2 DEF OpenSession, ReceiveEvent, SetFlag, sessionVars, ghosts, connVars
    <2> QED
      BY <1>0, <2>1, ArmedStill
  <1>3. CASE StartListening(s) \/ ListenLeaves(s)
    <2>1. /\ listening' = listening \cup {s} /\ threshold' = threshold /\ NoteEarly(s)
          /\ s \in open
      BY <1>3 DEF StartListening, ListenLeaves
    <2>2. \/ noti' = noti \cup Up /\ armed' = Woken(Up \ noti, threshold)
          \/ noti' = noti /\ armed' = armed
      BY <1>3 DEF StartListening, ListenLeaves, connVars
    <2>3. s \notin early' =>
            \A c \in noti, k \in DataKinds : threshold[s][c][k] > 0 => armed[c][k] # Idle
      BY <2>1 DEF NoteEarly
    <2>4. \A d \in listening \ {s} : d \in early' <=> d \in early
      BY <2>1 DEF NoteEarly
    <2>5. ASSUME NEW d \in listening' \ early', NEW c \in noti, NEW k \in DataKinds,
                 threshold[d][c][k] > 0
          PROVE  armed[c][k] # Idle
      <3>1. CASE d = s
        BY <2>3, <2>5, <3>1
      <3>2. CASE d # s
        BY <1>1, <2>1, <2>4, <2>5, <3>2
      <3> QED
        BY <3>1, <3>2
    <2>6. ASSUME NEW d \in listening' \ early', NEW c \in noti', NEW k \in DataKinds,
                 threshold[d][c][k] > 0
          PROVE  armed'[c][k] # Idle
      <3>1. d \in open /\ c \in Connections
        BY <1>0, <2>1, <2>2 DEF Up
      <3>2. CASE c \in noti
        <4>1. armed[c][k] # Idle
          BY <2>5, <2>6, <3>2
        <4> QED
          BY <1>0, <2>2, <3>1, <4>1, WokenArmed
      <3>3. CASE c \notin noti
        <4>1. c \in Up \ noti /\ armed' = Woken(Up \ noti, threshold)
          BY <2>2, <2>6, <3>3
        <4> QED
          BY <1>0, <2>6, <3>1, <4>1, WokenArmed
      <3> QED
        BY <3>2, <3>3
    <2> QED
      BY <2>1, <2>6 DEF ArmedWhileWanted
  <1>4. CASE CancelReceive(s) \/ CloseSession(s)
    <2>1. StopListening(s)
      BY <1>4 DEF CancelReceive, CloseSession
    <2>2. listening' = listening \ {s} /\ early' = early \ {s}
      BY <2>1 DEF StopListening
    <2>3. CASE listening = {s}
      BY <2>2, <2>3 DEF ArmedWhileWanted
    <2>4. CASE listening # {s}
      <3>1. noti' = noti /\ armed' = armed
        BY <2>1, <2>4 DEF StopListening
      <3>2. \A d \in Sessions \ {s} : threshold'[d] = threshold[d]
        BY <1>0, <1>4 DEF CancelReceive, CloseSession
      <3>3. listening' \ early' \subseteq listening \ early
        BY <2>2
      <3>4. \A d \in listening' : threshold'[d] = threshold[d]
        BY <1>0, <2>2, <3>2
      <3> QED
        BY <1>0, <3>1, <3>3, <3>4, ArmedStill
    <2> QED
      BY <2>3, <2>4
  <1>5. ASSUME NEW c \in Connections, NEW k \in Kinds, NEW value \in Thresholds,
               SetThreshold(s, c, k, value)
        PROVE  ArmedWhileWanted'
    <2> DEFINE th == [threshold EXCEPT ![s][c][k] = Allowed(c, k, value)]
    <2>1. /\ UNCHANGED <<listening, early, noti>> /\ threshold' = th
          /\ armed' = IF s \in listening /\ c \in noti THEN Woken({c}, th) ELSE armed
      BY <1>5 DEF SetThreshold, sessionVars, ghosts
    <2>2. Allowed(c, k, value) \in Nat /\ k \in DataKinds \cup {"activity"}
      BY NamesAssumption, ValuesAssumption DEF Allowed, Greater
    <2>3. th \in [Sessions -> [Connections -> [DataKinds \cup {"activity"} -> Nat]]]
      BY <1>0, <2>2
    <2>4. /\ \A d \in Sessions \ {s} : th[d] = threshold[d]
          /\ \A b \in Connections \ {c} : th[s][b] = threshold[s][b]
      BY <1>0
    <2> HIDE DEF th
    <2>5. ASSUME NEW d \in listening \ early, NEW b \in noti, NEW j \in DataKinds, th[d][b][j] > 0
          PROVE  armed'[b][j] # Idle
      <3>1. d \in open /\ d \in Sessions /\ b \in Connections
        BY <1>0
      <3>2. CASE s \in listening /\ c \in noti /\ b = c
        BY <2>1, <2>3, <2>5, <3>1, <3>2, WokenArmed
      <3>3. CASE ~(s \in listening /\ c \in noti /\ b = c)
        <4>1. th[d][b] = threshold[d][b]
          BY <2>4, <3>1, <3>3
        <4>2. armed[b][j] # Idle
          BY <1>1, <2>5, <4>1
        <4> QED
          BY <2>1, <2>3, <3>1, <4>2, WokenArmed
      <3> QED
        BY <3>2, <3>3
    <2> QED
      BY <2>1, <2>5 DEF ArmedWhileWanted
  <1> QED
    BY <1>2, <1>3, <1>4, <1>5 DEF SessionNext

LEMMA ArmedConnectionStep ==
  ASSUME TypeOK, ArmedWhileWanted, NEW c \in Connections, ConnectionNext(c)
  PROVE  ArmedWhileWanted'
PROOF
  <1>0. /\ listening \subseteq open /\ open \subseteq Sessions /\ noti \subseteq Connections
        /\ threshold \in [Sessions -> [Connections -> [DataKinds \cup {"activity"} -> Nat]]]
        /\ armed \in [Connections -> [DataKinds -> Nat \cup {Silent}]]
    BY DEF TypeOK
  <1>1. \A d \in listening \ early, b \in noti, k \in DataKinds :
          threshold[d][b][k] > 0 => armed[b][k] # Idle
    BY DEF ArmedWhileWanted
  <1>2. ASSUME NEW k \in DataKinds, UNCHANGED <<listening, early, noti, threshold>>,
               armed' = [armed EXCEPT ![c][k] = Global(threshold, c, k)]
        PROVE  ArmedWhileWanted'
    <2>1. /\ UNCHANGED <<listening, early, noti, threshold>>
          /\ armed' = [armed EXCEPT ![c][k] = Global(threshold, c, k)]
      BY <1>2
    <2>2. /\ Global(threshold, c, k) \in Nat
          /\ \A d \in open : threshold[d][c][k] > 0 => Global(threshold, c, k) > 0
      BY <1>0, GlobalType
    <2>3. ASSUME NEW d \in listening \ early, NEW b \in noti, NEW j \in DataKinds,
                 threshold[d][b][j] > 0
          PROVE  armed'[b][j] # Idle
      <3>1. CASE b = c /\ j = k
        BY <1>0, <2>1, <2>2, <2>3, <3>1 DEF Idle
      <3>2. CASE ~(b = c /\ j = k)
        <4>1. armed'[b][j] = armed[b][j]
          BY <1>0, <2>1, <3>2
        <4> QED
          BY <1>1, <2>3, <4>1
      <3> QED
        BY <3>1, <3>2
    <2> QED
      BY <2>1, <2>3 DEF ArmedWhileWanted
  <1>3. ASSUME NEW k \in DataKinds, DataCancelled(c, k) PROVE ArmedWhileWanted'
    <2>1. /\ UNCHANGED <<listening, early, noti, threshold>>
          /\ armed' = [armed EXCEPT ![c][k] = Silent]
      BY <1>3 DEF DataCancelled, sessionVars, ghosts
    <2>2. \A b \in noti, j \in DataKinds : armed[b][j] # Idle => armed'[b][j] # Idle
      BY <1>0, <2>1 DEF Silent, Idle
    <2> QED
      BY <1>0, <2>1, <2>2, ArmedStill
  <1>4. CASE ConnectionOpens(c)
    <2>1. CASE listening = {}
      BY <1>4, <2>1 DEF ConnectionOpens, sessionVars, ArmedWhileWanted
    <2>2. CASE listening # {}
      <3>1. /\ UNCHANGED <<listening, early, threshold>>
            /\ noti' = noti \cup {c} /\ armed' = Woken({c}, threshold)
        BY <1>4, <2>2 DEF ConnectionOpens, sessionVars, ghosts
      <3>2. ASSUME NEW d \in listening \ early, NEW b \in noti', NEW j \in DataKinds,
                   threshold[d][b][j] > 0
            PROVE  armed'[b][j] # Idle
        <4>1. d \in open /\ b \in Connections
          BY <1>0, <3>1
        <4>2. CASE b = c
          <5>1. Woken({c}, threshold)[b][j] # Idle
            BY <1>0, <3>2, <4>1, <4>2, WokenArmed
          <5> QED
            BY <3>1, <5>1
        <4>3. CASE b # c
          <5>1. armed[b][j] # Idle
            BY <1>1, <3>1, <3>2, <4>3
          <5> QED
            BY <1>0, <3>1, <4>1, <5>1, WokenArmed
        <4> QED
          BY <4>2, <4>3
      <3> QED
        BY <3>1, <3>2 DEF ArmedWhileWanted
    <2> QED
      BY <2>1, <2>2
  <1>5. CASE ConnectionCloses(c)
    <2>1. /\ UNCHANGED <<listening, early>> /\ noti' = noti \ {c}
          /\ armed' = [armed EXCEPT ![c] = [k \in DataKinds |-> Idle]]
          /\ threshold' = [d \in Sessions |-> [threshold[d] EXCEPT ![c] = NoThresholds[c]]]
      BY <1>5 DEF ConnectionCloses, sessionVars, ghosts
    <2>2. \A b \in noti' : armed'[b] = armed[b]
      BY <1>0, <2>1
    <2>3. \A d \in listening, b \in noti' : threshold'[d][b] = threshold[d][b]
      BY <1>0, <2>1
    <2> QED
      BY <1>0, <2>1, <2>2, <2>3, ArmedStill
  <1>6. \/ ConnectionOpens(c) \/ ConnectionCloses(c)
        \/ \E k \in DataKinds, amount \in Amounts : DataTransferred(c, k, amount)
        \/ \E k \in DataKinds : DataCancelled(c, k)
        \/ \E k \in DataKinds : DataFails(c, k)
    BY DEF ConnectionNext
  <1>7. ASSUME NEW k \in DataKinds,
               DataFails(c, k) \/ \E amount \in Amounts : DataTransferred(c, k, amount)
        PROVE  ArmedWhileWanted'
    <2>1. /\ UNCHANGED <<listening, early, noti, threshold>>
          /\ armed' = [armed EXCEPT ![c][k] = Global(threshold, c, k)]
      BY <1>7 DEF DataTransferred, DataFails, Add, sessionVars, ghosts
    <2> QED
      BY <2>1, <1>2
  <1> QED
    BY <1>3, <1>4, <1>5, <1>6, <1>7

LEMMA ArmedStep ==
  ASSUME TypeOK, ArmedWhileWanted, [Next]_vars
  PROVE  ArmedWhileWanted'
PROOF
  <1>1. ASSUME UNCHANGED <<listening, early, noti, armed, threshold>> PROVE ArmedWhileWanted'
    BY <1>1 DEF ArmedWhileWanted
  <1>2. ASSUME NEW type \in EventTypes, AddEvent(type) PROVE ArmedWhileWanted'
    BY <1>1, <1>2 DEF AddEvent, Add, ghosts, connVars
  <1>3. ASSUME PluginNext PROVE ArmedWhileWanted'
    BY <1>1, <1>3 DEF PluginNext, PluginRegister, PluginGetQuery, PluginCloses,
                      sessionVars, ghosts, connVars
  <1>4. ASSUME UNCHANGED vars PROVE ArmedWhileWanted'
    BY <1>1, <1>4 DEF vars, sessionVars, ghosts, connVars
  <1> QED
    BY <1>2, <1>3, <1>4, ArmedSessionStep, ArmedConnectionStep DEF Next

\* A multiple leaves no remainder; what is left without the remainder, or filled
\* up to the next one, is a multiple.
LEMMA Multiples ==
  ASSUME NEW n \in Nat, NEW step \in Nat \ {0}
  PROVE  /\ (step * n) % step = 0
         /\ n % step \in 0 .. step - 1
         /\ (n - (n % step)) % step = 0
         /\ (n + step - (n % step)) % step = 0
PROOF
  <1>1. \A q \in Nat : (step * q) % step = 0
    OBVIOUS
  <1>2. n = step * (n \div step) + (n % step)
    OBVIOUS
  <1>3. n \div step \in Nat /\ n % step \in 0 .. step - 1
    OBVIOUS
  <1>4. n - (n % step) = step * (n \div step)
    BY <1>2, <1>3
  <1>5. n + step - (n % step) = step * (n \div step + 1)
    BY <1>2, <1>3
  <1>6. n \div step + 1 \in Nat
    BY <1>3
  <1>7. (n - (n % step)) % step = 0
    BY <1>1, <1>3, <1>4
  <1>8. (n + step - (n % step)) % step = 0
    BY <1>1, <1>5, <1>6
  <1> QED
    BY <1>1, <1>3, <1>7, <1>8

\* The threshold that is served is a multiple of the smallest one, within half a
\* step of what was asked.
LEMMA AdjustedIsNear ==
  ASSUME NEW own \in Nat, NEW smallest \in Nat \ {0}, smallest <= own
  PROVE  /\ Adjusted(own, smallest) \in Nat \ {0}
         /\ Adjusted(own, smallest) % smallest = 0
         /\ 2 * (Adjusted(own, smallest) - own) \in -smallest .. smallest + 1
PROOF
  <1> DEFINE modulo == own % smallest
             half == smallest \div 2
  <1>1. modulo \in 0 .. smallest - 1 /\ modulo \in Nat
    OBVIOUS
  <1>2. half \in Nat /\ 2 * half <= smallest /\ smallest <= 2 * half + 1
    OBVIOUS
  <1>3. Adjusted(own, smallest) = CASE modulo = 0 -> own
                                    [] modulo # 0 /\ modulo < half -> own - modulo
                                    [] OTHER -> own + smallest - modulo
    BY DEF Adjusted
  <1>4. (own - modulo) % smallest = 0 /\ (own + smallest - modulo) % smallest = 0
    BY Multiples
  <1> HIDE DEF modulo, half
  <1>5. CASE modulo = 0
    <2>1. Adjusted(own, smallest) = own /\ own - modulo = own
      BY <1>3, <1>5
    <2>2. own % smallest = 0
      BY <1>5 DEF modulo
    <2>3. own > 0 /\ 2 * (own - own) = 0
      OBVIOUS
    <2> QED
      BY <2>1, <2>2, <2>3
  <1>6. CASE modulo # 0 /\ modulo < half
    <2>1. Adjusted(own, smallest) = own - modulo
      BY <1>3, <1>6
    <2>2. own - modulo \in Nat \ {0} /\ 2 * (own - modulo - own) \in -smallest .. smallest + 1
      BY <1>1, <1>2, <1>6
    <2> QED
      BY <1>4, <2>1, <2>2
  <1>7. CASE modulo # 0 /\ ~(modulo < half)
    <2>1. Adjusted(own, smallest) = own + smallest - modulo
      BY <1>3, <1>7
    <2>2. Adjusted(own, smallest) % smallest = 0
      BY <1>4, <2>1
    <2>3. Adjusted(own, smallest) \in Nat \ {0}
      BY <1>1, <2>1
    <2>4. Adjusted(own, smallest) - own = smallest - modulo
      BY <1>1, <2>1
    <2>5. 2 * (smallest - modulo) \in -smallest .. smallest + 1
      BY <1>1, <1>2, <1>7
    <2> QED
      BY <2>2, <2>3, <2>4, <2>5
  <1> QED
    BY <1>5, <1>6, <1>7

\* The session with the smallest threshold is passed every amount.
LEMMA SmallestPassesAll ==
  ASSUME NEW own \in Nat \ {0}, NEW data \in Nat
  PROVE  DataPasses(data, own, own)
PROOF
  <1>1. own % own = 0
    <2>1. (own * 1) % own = 0
      BY Multiples
    <2> QED
      BY <2>1
  <1>2. Adjusted(own, own) = own
    BY <1>1 DEF Adjusted
  <1>3. data \div own \in Nat /\ data \div own + 1 \in Nat
    OBVIOUS
  <1>4. Rounded(data, own) \in {own * (data \div own), own * (data \div own) + own}
    BY DEF Rounded
  <1>5. own * (data \div own) + own = own * (data \div own + 1)
    BY <1>3
  <1>6. (own * (data \div own)) % own = 0 /\ (own * (data \div own + 1)) % own = 0
    BY <1>3, Multiples
  <1>7. Rounded(data, own) % own = 0
    BY <1>4, <1>5, <1>6
  <1> QED
    BY <1>2, <1>7 DEF DataPasses

LEMMA ThresholdsInSteps ==
  ASSUME TypeOK
  PROVE  ServedInSteps
PROOF
  <1> SUFFICES ASSUME NEW s \in open, NEW c \in Up, NEW k \in DataKinds, threshold[s][c][k] > 0
               PROVE  LET own == threshold[s][c][k]
                          smallest == Global(threshold, c, k)
                          adjusted == Adjusted(own, smallest)
                      IN  /\ adjusted > 0 /\ adjusted % smallest = 0
                          /\ 2 * (adjusted - own) \in -smallest .. smallest + 1
                          /\ own = smallest => \A a \in Amounts : DataPasses(a, own, smallest)
    BY DEF ServedInSteps
  <1> DEFINE own == threshold[s][c][k]
             smallest == Global(threshold, c, k)
  <1>1. s \in Sessions /\ c \in Connections /\ open \subseteq Sessions
    BY DEF TypeOK, Up
  <1>2. own \in Nat \ {0}
    BY <1>1 DEF TypeOK
  <1>3. smallest \in Nat /\ smallest > 0 /\ smallest <= own
    <2>1. threshold \in [Sessions -> [Connections -> [DataKinds \cup {"activity"} -> Nat]]]
      BY DEF TypeOK
    <2> QED
      BY <1>1, <2>1, GlobalType
  <1> HIDE DEF own, smallest
  <1>4. /\ Adjusted(own, smallest) \in Nat \ {0} /\ Adjusted(own, smallest) % smallest = 0
        /\ 2 * (Adjusted(own, smallest) - own) \in -smallest .. smallest + 1
    BY <1>2, <1>3, AdjustedIsNear
  <1>5. own = smallest => \A a \in Amounts : DataPasses(a, own, smallest)
    BY <1>2, ValuesAssumption, SmallestPassesAll
  <1>6. Adjusted(own, smallest) > 0
    BY <1>4
  <1> QED
    BY <1>4, <1>5, <1>6 DEF own, smallest

\* The data thresholds are served: in steps of the smallest one, at most half a
\* step away from what each session asked for, and with a request in RConnection
\* or a notifier silenced by the closing interface while a session listens with a
\* threshold, whatever thresholds the others set, change and take back.
THEOREM ThresholdsCorrect == Spec => []ThresholdsServed
PROOF
  <1>1. Init => ArmedWhileWanted
    BY DEF Init, ArmedWhileWanted
  <1>2. TypeOK /\ ArmedWhileWanted /\ [Next]_vars => ArmedWhileWanted'
    BY ArmedStep
  <1>3. TypeOK /\ ArmedWhileWanted => ThresholdsServed
    BY ThresholdsInSteps DEF ThresholdsServed
  <1> QED
    BY <1>1, <1>2, <1>3, TypesAlways, PTL DEF Spec
================================================================================
