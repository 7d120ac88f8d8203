--------------------------- MODULE MPMServerProofs ---------------------------
(***************************************************************************)
(* Proofs about the Mobility Policy Manager's server (MPMServer), for any  *)
(* number of sessions, IAPs and scans.                                     *)
(*                                                                         *)
(* The inductive invariant MPMInv says of each session, apart from the     *)
(* others, how its state, its node, its entry in the table and its black   *)
(* list belong together (Local), and of the server that the dialogs are in *)
(* the queues (QueuesMatch), that the table's list names its entries       *)
(* (TableListed), that the loop over the black lists stays in range        *)
(* (LoopInRange) and that the requests it holds have a scan or a dialog    *)
(* that answers them (RequestsProgress, ChoiceScans).  Most of the lemmas  *)
(* are of two kinds: X...Local shows what the handler X makes of one       *)
(* session and its node, X...Keeps that its step keeps MPMInv.             *)
(***************************************************************************)
EXTENDS MPMServer, FiniteSetTheorems, SequenceTheorems, WellFoundedInduction, TLAPS

------------------------------------------------------------------------------
(* Sets and sequences *)

LEMMA LeastExists ==
  ASSUME NEW S \in SUBSET Nat, S # {}
  PROVE  \E n \in S : \A m \in S : n <= m
PROOF
  <1>1. PICK n \in S : \A m \in S : ~(<<m, n>> \in OpToRel(<, Nat))
    BY NatLessThanWellFounded, WFMin, Zenon
  <1>2. \A m \in S : ~(m < n)
    BY <1>1 DEF OpToRel
  <1> QED
    BY <1>2

LEMMA MinIsIn ==
  ASSUME NEW S \in SUBSET Nat, S # {}
  PROVE  Min(S) \in S /\ \A m \in S : Min(S) <= m
  BY LeastExists DEF Min

LEMMA MaxIsIn ==
  ASSUME NEW n \in Nat, NEW S \in SUBSET (1..n), S # {}
  PROVE  Max(S) \in S
<1> DEFINE gaps == {n - k : k \in S}
<1>1. gaps \in SUBSET Nat /\ gaps # {}
  <2>1. \A k \in S : n - k \in Nat
    OBVIOUS
  <2> QED BY <2>1
<1>2. PICK g \in gaps : \A m \in gaps : g <= m
  BY <1>1, LeastExists
<1>3. PICK k \in S : g = n - k
  OBVIOUS
<1>4. ASSUME NEW l \in S PROVE k >= l
  <2>1. n - l \in gaps
    OBVIOUS
  <2>2. n - k <= n - l
    BY <1>2, <1>3, <2>1
  <2> QED BY <2>2
<1> QED BY <1>4 DEF Max

LEMMA BestIsIn ==
  ASSUME NEW S \in SUBSET Iaps
  PROVE  /\ S # {} => ChooseBestIAP(S) \in S
         /\ S = {} => ChooseBestIAP(S) = NoIap
         /\ ChooseBestIAP(S) = NoIap => S = {}
<1>1. CASE S # {}
  <2> DEFINE ranks == {Rank[i] : i \in S}
  <2>1. ranks \in SUBSET Nat /\ ranks # {}
    BY <1>1, ConstantsAssumption
  <2>2. PICK r \in ranks : \A q \in ranks : r <= q
    BY <2>1, LeastExists
  <2>3. \E i \in S : \A j \in S : Rank[i] <= Rank[j]
    BY <2>2
  <2> QED BY <1>1, <2>3, ConstantsAssumption DEF ChooseBestIAP
<1>2. CASE S = {}
  BY <1>2 DEF ChooseBestIAP
<1> QED BY <1>1, <1>2

Distinct(q) == \A i, j \in 1..Len(q) : q[i] = q[j] => i = j

LEMMA RemoveAtKeeps ==
  ASSUME NEW S, NEW q \in Seq(S), NEW k \in 1..Len(q)
  PROVE  /\ RemoveAt(q, k) \in Seq(S) /\ Len(RemoveAt(q, k)) = Len(q) - 1
         /\ \A i \in 1..(Len(q) - 1) : RemoveAt(q, k)[i] = IF i < k THEN q[i] ELSE q[i + 1]
         /\ ToSet(RemoveAt(q, k)) \subseteq ToSet(q)
         /\ ToSet(q) \subseteq ToSet(RemoveAt(q, k)) \cup {q[k]}
<1> DEFINE a == SubSeq(q, 1, k - 1)
           b == SubSeq(q, k + 1, Len(q))
<1>1. a \in Seq(S) /\ Len(a) = k - 1 /\ \A i \in 1..(k - 1) : a[i] = q[i]
  BY SubSeqProperties
<1>2. b \in Seq(S) /\ Len(b) = Len(q) - k /\ \A i \in 1..(Len(q) - k) : b[i] = q[k + i]
  BY SubSeqProperties
<1>3. RemoveAt(q, k) = a \o b
  BY DEF RemoveAt
<1> HIDE DEF a, b
<1>10. /\ a \o b \in Seq(S) /\ Len(a \o b) = Len(a) + Len(b)
       /\ \A i \in 1..(Len(a) + Len(b)) : (a \o b)[i] = IF i <= Len(a) THEN a[i] ELSE b[i - Len(a)]
  BY <1>1, <1>2, ConcatProperties
<1>11. Len(a) + Len(b) = Len(q) - 1 /\ Len(a) = k - 1
  BY <1>1, <1>2
<1>12. ASSUME NEW i \in 1..(Len(q) - 1)
       PROVE (a \o b)[i] = IF i < k THEN q[i] ELSE q[i + 1]
  <2>1. CASE i < k
    BY <1>1, <1>10, <1>11, <2>1
  <2>2. CASE ~(i < k)
    <3>1. (a \o b)[i] = b[i - (k - 1)] /\ i - (k - 1) \in 1..(Len(q) - k)
      BY <1>10, <1>11, <2>2
    <3> QED BY <1>2, <2>2, <3>1
  <2> QED BY <2>1, <2>2
<1>4. /\ RemoveAt(q, k) \in Seq(S) /\ Len(RemoveAt(q, k)) = Len(q) - 1
      /\ \A i \in 1..(Len(q) - 1) : RemoveAt(q, k)[i] = IF i < k THEN q[i] ELSE q[i + 1]
  BY <1>3, <1>10, <1>11, <1>12
<1>5. ToSet(RemoveAt(q, k)) \subseteq ToSet(q)
  BY <1>4 DEF ToSet
<1>6. ASSUME NEW i \in 1..Len(q), i # k PROVE q[i] \in ToSet(RemoveAt(q, k))
  <2>1. CASE i < k
    <3>1. i \in 1..(Len(q) - 1) /\ RemoveAt(q, k)[i] = q[i]
      BY <1>4, <2>1
    <3> QED BY <1>4, <3>1 DEF ToSet
  <2>2. CASE i > k
    <3>1. i - 1 \in 1..(Len(q) - 1) /\ RemoveAt(q, k)[i - 1] = q[i]
      BY <1>4, <2>2
    <3> QED BY <1>4, <3>1 DEF ToSet
  <2> QED BY <1>6, <2>1, <2>2
<1>7. ToSet(q) \subseteq ToSet(RemoveAt(q, k)) \cup {q[k]}
  BY <1>6 DEF ToSet
<1> QED BY <1>4, <1>5, <1>7

LEMMA WithoutKeeps ==
  ASSUME NEW S, NEW q \in Seq(S), NEW T
  PROVE  /\ Without(q, T) \in Seq(S)
         /\ ToSet(Without(q, T)) \subseteq ToSet(q)
         /\ ToSet(q) \subseteq ToSet(Without(q, T)) \cup T
         /\ \/ Without(q, T) = q /\ ToSet(q) \cap T = {}
            \/ \E k \in 1..Len(q) : q[k] \in T /\ Without(q, T) = RemoveAt(q, k)
<1> DEFINE I == {i \in 1..Len(q) : q[i] \in T}
<1>1. CASE I = {}
  <2>1. Without(q, T) = q
    BY <1>1 DEF Without, RemoveFirstMatch
  <2> QED BY <1>1, <2>1 DEF ToSet
<1>2. CASE I # {}
  <2>1. Min(I) \in I
    BY SMTT(30), <1>2, MinIsIn
  <2>2. Without(q, T) = RemoveAt(q, Min(I))
    BY <1>2 DEF Without, RemoveFirstMatch, SelectInSeq
  <2>3. Min(I) \in 1..Len(q) /\ q[Min(I)] \in T
    BY <2>1
  <2> HIDE DEF I
  <2> QED BY <2>2, <2>3, RemoveAtKeeps
<1> QED BY <1>1, <1>2

LEMMA RemoveAtDistinct ==
  ASSUME NEW S, NEW q \in Seq(S), Distinct(q), NEW k \in 1..Len(q)
  PROVE  Distinct(RemoveAt(q, k)) /\ ToSet(RemoveAt(q, k)) = ToSet(q) \ {q[k]}
<1> DEFINE r == RemoveAt(q, k)
<1>1. Len(r) = Len(q) - 1 /\ \A i \in 1..(Len(q) - 1) : r[i] = IF i < k THEN q[i] ELSE q[i + 1]
  BY RemoveAtKeeps
<1>2. ToSet(r) \subseteq ToSet(q) /\ ToSet(q) \subseteq ToSet(r) \cup {q[k]}
  BY RemoveAtKeeps
<1> HIDE DEF r
<1>3. Distinct(r)
  BY <1>1 DEF Distinct
<1>4. \A i \in 1..Len(r) : r[i] # q[k]
  BY <1>1 DEF Distinct
<1>5. r \in Seq(S)
  BY RemoveAtKeeps DEF r
<1>6. ToSet(r) = ToSet(q) \ {q[k]}
  <2>1. q[k] \notin ToSet(r)
    BY <1>4, <1>5 DEF ToSet
  <2> QED BY <1>2, <2>1
<1> QED BY <1>3, <1>6 DEF r

\* A queue without the entry of one session that leaves it.
LEMMA WithoutOne ==
  ASSUME NEW q \in Seq(Sessions), Distinct(q), NEW T, NEW c, T \cap ToSet(q) \subseteq {c}
  PROVE  Distinct(Without(q, T)) /\ ToSet(Without(q, T)) = ToSet(q) \ T
<1>1. CASE Without(q, T) = q /\ ToSet(q) \cap T = {}
  BY <1>1
<1>2. CASE \E k \in 1..Len(q) : q[k] \in T /\ Without(q, T) = RemoveAt(q, k)
  <2>1. PICK k \in 1..Len(q) : q[k] \in T /\ Without(q, T) = RemoveAt(q, k)
    BY <1>2
  <2>2. q[k] \in ToSet(q)
    BY DEF ToSet
  <2> QED BY <2>1, <2>2, RemoveAtDistinct
<1> QED BY <1>1, <1>2, WithoutKeeps

LEMMA SeqOfOne ==
  /\ SetToSeq({}) = <<>>
  /\ \A x : SetToSeq({x}) = <<x>>
<1>1. SetToSeq({}) = <<>>
  <2>1. Cardinality({}) = 0
    BY FS_EmptySet
  <2>2. \A f \in [1..0 -> {}] : f = <<>>
    OBVIOUS
  <2>4. <<>> \in [1..0 -> {}]
    OBVIOUS
  <2>3. IsInjective(<<>>)
    BY DEF IsInjective
  <2> QED BY <2>1, <2>2, <2>3, <2>4 DEF SetToSeq
<1>2. ASSUME NEW x PROVE SetToSeq({x}) = <<x>>
  <2>1. Cardinality({x}) = 1
    BY FS_Singleton
  <2>2. \A f \in [1..1 -> {x}] : f = <<x>>
    OBVIOUS
  <2>3. <<x>> \in [1..1 -> {x}] /\ IsInjective(<<x>>)
    BY DEF IsInjective
  <2> QED BY <2>1, <2>2, <2>3 DEF SetToSeq
<1> QED BY <1>1, <1>2

LEMMA JoinOne ==
  ASSUME NEW q \in Seq(Sessions), Distinct(q), NEW c \in Sessions,
         NEW T \in SUBSET {c}, T \cap ToSet(q) = {}
  PROVE  /\ q \o SetToSeq(T) \in Seq(Sessions) /\ Distinct(q \o SetToSeq(T))
         /\ ToSet(q \o SetToSeq(T)) = ToSet(q) \cup T
         /\ q # <<>> => q \o SetToSeq(T) # <<>> /\ Head(q \o SetToSeq(T)) = Head(q)
<1>1. CASE T = {}
  <2>1. q \o SetToSeq(T) = q
    BY <1>1, SeqOfOne, ConcatEmptySeq
  <2> QED BY <1>1, <2>1
<1>2. CASE T = {c}
  <2> DEFINE r == q \o <<c>>
  <2>1. q \o SetToSeq(T) = r
    BY <1>2, SeqOfOne
  <2>2. <<c>> \in Seq(Sessions) /\ Len(<<c>>) = 1 /\ <<c>>[1] = c
    OBVIOUS
  <2>3. /\ r \in Seq(Sessions) /\ Len(r) = Len(q) + 1
        /\ \A i \in 1..(Len(q) + 1) : r[i] = IF i <= Len(q) THEN q[i] ELSE <<c>>[i - Len(q)]
    BY <2>2, ConcatProperties
  <2>4. r[Len(q) + 1] = c /\ \A i \in 1..Len(q) : r[i] = q[i]
    BY <2>2, <2>3
  <2>5. \A i \in 1..Len(q) : q[i] # c
    BY <1>2 DEF ToSet
  <2> HIDE DEF r
  <2>6. Distinct(r)
    BY <2>3, <2>4, <2>5 DEF Distinct
  <2>7. ToSet(r) = ToSet(q) \cup {c}
    <3>0. DOMAIN r = 1..(Len(q) + 1) /\ DOMAIN q = 1..Len(q)
      BY <2>3
    <3>1. ToSet(r) = {r[i] : i \in 1..(Len(q) + 1)} /\ ToSet(q) = {q[i] : i \in 1..Len(q)}
      BY <3>0 DEF ToSet
    <3>2. 1..(Len(q) + 1) = (1..Len(q)) \cup {Len(q) + 1}
      OBVIOUS
    <3> QED BY <2>4, <3>1, <3>2
  <2>8. q # <<>> => r # <<>> /\ Head(r) = Head(q)
    BY <2>3, <2>4
  <2> QED BY <1>2, <2>1, <2>3, <2>6, <2>7, <2>8
<1> QED BY <1>1, <1>2

------------------------------------------------------------------------------
(* The invariant of a session, and what an offer makes of it *)

\* Whether the message n is of the type.
Says(n, type) == n # None /\ n.type = type
Active(cl) == cl.phase \in {"up", "recovering"}

\* A session that is there holds the request for notifications or has completed it.
Asked(s, cl) ==
  /\ (s.note # None) <=> (s.open /\ ~s.wait)
  /\ s.wait \/ cl.phase \notin {"new", "gone"} => s.open

\* The choice of an IAP, the requests of the session and their replies.
Choosing(s, cl) ==
  /\ s.choose \/ s.scanning \/ s.sdlg # None => cl.phase = "choosing"
  /\ s.choose => s.sel # None
  /\ s.choose /\ s.sdlg = None => s.scanning
  /\ Disciplined /\ s.scanning => s.choose
  /\ s.reply # "none" => ~s.choose /\ ~s.scanning /\ s.sdlg = None /\ s.perr = None
  /\ s.reply = "Reselect" => cl.phase = "retrying" /\ s.sel # None
  /\ cl.phase = "recovering" => s.perr # None \/ s.reply # "none"
  /\ Disciplined /\ s.sdlg # None => s.choose /\ ~s.sel.silent

\* What the table grants is what the node starts, unless the entry has started
\* with another on the same IAP; and a failing connection stays as it is until its
\* scan ends.
Granted(s, cl, e) ==
  /\ (cl.phase = "choosing" /\ s.reply = "ok") \/ cl.phase = "starting" =>
       /\ e # None /\ e.iap # NoIap
       /\ e.state = "Starting" \/ (e.state = "Started" /\ ~e.snap)
  /\ cl.phase = "starting" => e.iap = cl.iap
  /\ s.perr # None =>
       /\ s.reg /\ cl.phase \in {"recovering", "down"}
       /\ e # None /\ e.snap /\ e.state = "Started"

\* Before the client is mobile.
NotMobile(s, cl, e) ==
  /\ cl.phase \in {"new", "choosing", "starting", "retrying"} => cl.mob = "off"
  /\ cl.mob = "off" =>
       /\ ~s.reg /\ ~s.hold /\ ~s.confirm /\ s.rdlg = None /\ s.lastNotified = NoIap
       /\ ~Says(s.note, "pref") /\ ~Says(s.note, "start")
       /\ ~Says(cl.stored, "pref") /\ ~Says(cl.stored, "start")
       /\ cl.refused = {} /\ s.offers = 0
  /\ cl.mob = "off" /\ Active(cl) => e # None /\ e.state = "Started"

\* The entry of a connection that is up, and the IAP of an offer.
Entry(s, cl, e) ==
  /\ Says(s.note, "pref") => s.note.iap # NoIap
  /\ Says(cl.stored, "pref") => cl.stored.iap # NoIap /\ cl.mob # "response"
  /\ \/ cl.mob \in {"offered", "reconnect", "decide"} \/ s.rdlg # None
     \/ Says(s.note, "start") \/ Says(cl.stored, "start")
     => cl.pref # NoIap
  /\ Active(cl) =>
       /\ e # None /\ e.state # "Starting" /\ (e.iap = NoIap <=> e.state = "Idle")
       /\ e.state = "Roaming" => e.snap
       /\ s.reg <=> cl.mob \notin {"off", "stopped"}
       /\ cl.phase = "recovering" => cl.mob \in {"off", "stopped", "wait", "offered", "reconnect"}
       /\ ~s.reg => cl.refused = {}
       /\ cl.mob = "response" => cl.stored = None
       /\ Says(s.note, "pref") \/ Says(cl.stored, "pref") \/ cl.mob = "offered" => e.snap

\* A hold is owed, whether or not offers have crossed.
Owed(s, cl) ==
  s.hold /\ s.reg /\ Active(cl) =>
    \/ s.note # None \/ cl.stored # None
    \/ cl.mob \in {"offered", "response", "reconnect", "decide"}

\* A registered connection that is up and whose offers did not cross.
Uncrossed(s, cl) == s.reg /\ Active(cl) /\ s.offers < 2

Bearer(s, cl, e) ==
  Active(cl) /\ s.offers < 2 /\ e # None /\ e.state = "Started" => e.iap = cl.iap

\* One offer at most is on its way: in the notification, kept by the node or
\* before the application; it is the last one, and neither used nor refused.
Fits(i, s, cl, e) == i = s.lastNotified /\ i # e.iap /\ i \notin cl.refused
Offered(s, cl, e) ==
  Uncrossed(s, cl) =>
    /\ Says(s.note, "pref") => Fits(s.note.iap, s, cl, e) /\ ~Says(cl.stored, "pref") /\ s.offers = 1
    /\ Says(cl.stored, "pref") => Fits(cl.stored.iap, s, cl, e) /\ s.offers = 1
    /\ cl.mob = "offered" =>
         /\ Fits(cl.pref, s, cl, e) /\ s.offers = 1
         /\ ~Says(s.note, "pref") /\ ~Says(cl.stored, "pref")

\* The dialog asks about what its answer does.
Asking(s, cl, e) ==
  Uncrossed(s, cl) =>
    /\ s.confirm => s.rdlg # None
    /\ s.rdlg # None =>
         /\ cl.mob = "response" /\ s.confirm /\ e.state = "Roaming"
         /\ s.migrateIap = s.rdlg.iap /\ e.iap = s.rdlg.iap /\ cl.pref = s.rdlg.iap
         /\ ~Says(s.note, "pref") /\ ~Says(s.note, "start")

\* The node reads each notification in the state it is meant for.
Moving(s, cl, e) ==
  Uncrossed(s, cl) =>
    /\ Says(s.note, "start") =>
         cl.mob = "response" /\ e.state = "Roaming" /\ e.iap = s.note.iap /\ cl.pref = e.iap
    /\ ~Says(cl.stored, "start")
    /\ cl.mob = "decide" \/ (cl.mob = "reconnect" /\ cl.phase = "up") =>
         e.state = "Roaming" /\ e.iap = cl.pref /\ e.iap = cl.iap

\* What is refused is barred, and the last IAP that was offered is used, barred or
\* still on its way.
Refused(s, cl, e, b) ==
  Uncrossed(s, cl) =>
    /\ \A i \in cl.refused : <<i, "EConnectionLifetime">> \in b /\ i # e.iap
    /\ e.state \in {"Started", "Roaming"} =>
         \/ s.lastNotified \in {NoIap, e.iap} \/ <<s.lastNotified, "EConnectionLifetime">> \in b
         \/ Says(s.note, "pref") \/ cl.stored # None \/ cl.mob = "offered"

Local(s, cl, e, b) ==
  /\ Asked(s, cl) /\ Choosing(s, cl) /\ Granted(s, cl, e) /\ NotMobile(s, cl, e)
  /\ Entry(s, cl, e) /\ Owed(s, cl) /\ Bearer(s, cl, e) /\ Offered(s, cl, e)
  /\ Asking(s, cl, e) /\ Moving(s, cl, e) /\ Refused(s, cl, e, b)

Entries == {None} \cup Conn
Blacks == SUBSET (Iaps \X Categories)

Reached(s, r, e, b, info) ==
  \/ r = s \/ r = [s EXCEPT !.stored = info] \/ r = ErrorNotification(s)
  \/ \E j \in Iaps : /\ s.wait /\ s.reg /\ GetBMSnap(e) /\ j # s.lastNotified /\ j # GetBMIap(e)
                     /\ \A x \in b : x[1] # j
                     /\ r = Offer(s, j)

LEMMA PrefResult ==
  ASSUME NEW s \in Session, NEW e, NEW b, NEW info \in SUBSET Iaps, NEW caller
  PROVE  Reached(s, PrefIAPNotification(s, e, b, info, caller), e, b, info)
<1> DEFINE usable == AvailableUnblacklistedIaps(info, b)
           best == ChooseBestIAP(usable)
<1>1. usable \in SUBSET Iaps /\ \A i \in usable : \A x \in b : x[1] # i
  BY DEF AvailableUnblacklistedIaps
<1>2. best # NoIap => best \in usable
  <2> HIDE DEF usable
  <2> QED BY <1>1, BestIsIn
<1> DEFINE r == PrefIAPNotification(s, e, b, info, caller)
<1>3. \/ r = s \/ r = [s EXCEPT !.stored = info] \/ r = ErrorNotification(s)
      \/ /\ r = Offer(s, best) /\ best # NoIap /\ ~NotRequested(s) /\ GetBMSnap(e)
         /\ CheckNotifNeed(s, e, best)
  BY DEF PrefIAPNotification
<1> HIDE DEF r, best
<1>4. ASSUME /\ r = Offer(s, best) /\ best # NoIap /\ ~NotRequested(s) /\ GetBMSnap(e)
             /\ CheckNotifNeed(s, e, best)
      PROVE  Reached(s, r, e, b, info)
  <2> HIDE DEF usable
  <2> QED BY <1>1, <1>2, <1>4 DEF Reached, NotRequested, CheckNotifNeed
<1>5. Reached(s, r, e, b, info)
  BY <1>3, <1>4 DEF Reached
<1> QED BY <1>5 DEF r

LEMMA PrefOrErrorResult ==
  ASSUME NEW s \in Session, NEW e, NEW b, NEW info \in SUBSET Iaps
  PROVE  Reached(s, PrefOrError(s, e, b, info), e, b, info)
  BY PrefResult, SMTT(60) DEF PrefOrError, Reached

LEMMA OfferNextResult ==
  ASSUME NEW s \in Session, NEW e, NEW b, avail \in SUBSET Iaps
  PROVE  Reached(s, OfferNext(s, e, b), e, b, avail)
  BY PrefOrErrorResult DEF OfferNext, Reached

LEMMA NotifyType ==
  ASSUME NEW s \in Session, NEW type \in {"pref", "start", "stop", "error"}, NEW i \in IapOrNone
  PROVE  /\ Notify(s, type, i) \in Session
         /\ \A j \in IapOrNone, o \in 0..2 :
              [Notify(s, type, i) EXCEPT !.lastNotified = j, !.hold = TRUE, !.offers = o] \in Session
<1> DEFINE n == [type |-> type, iap |-> i]
<1>1. n \in Note
  BY DEF Note
<1> HIDE DEF n
<1>2. [s EXCEPT !.wait = FALSE, !.note = n] \in Session
  BY <1>1 DEF Session
<1>3. Notify(s, type, i) \in Session
  BY <1>2 DEF Notify, n
<1>4. \A m \in Session, j \in IapOrNone, o \in 0..2 :
        [m EXCEPT !.lastNotified = j, !.hold = TRUE, !.offers = o] \in Session
  BY DEF Session
<1> QED BY <1>3, <1>4

LEMMA ReachedType ==
  ASSUME NEW s \in Session, NEW e, NEW b, NEW info \in SUBSET Iaps, NEW r, Reached(s, r, e, b, info)
  PROVE  /\ r \in Session
         /\ r.sdlg = s.sdlg /\ r.choose = s.choose /\ r.perr = s.perr /\ r.open = s.open
         /\ r.scanning = s.scanning /\ r.reply = s.reply
<1>1. CASE r = s \/ r = [s EXCEPT !.stored = info]
  BY <1>1 DEF Session
<1>2. CASE r = ErrorNotification(s)
  <2>1. r \in Session
    BY <1>2, NotifyType DEF ErrorNotification, IapOrNone
  <2> QED BY <1>2, <2>1, SMTT(60) DEF Session, Notify, ErrorNotification
<1>3. CASE \E j \in Iaps : r = Offer(s, j)
  <2>1. PICK j \in Iaps : r = Offer(s, j)
    BY <1>3
  <2> DEFINE o == IF s.offers = 0 THEN 1 ELSE 2
             p == [Notify(s, "pref", j) EXCEPT !.lastNotified = j, !.hold = TRUE, !.offers = o]
  <2>2. o \in 0..2
    OBVIOUS
  <2>3. p \in Session /\ Notify(s, "pref", j) \in Session
    <3> HIDE DEF o
    <3> QED BY <2>2, NotifyType DEF IapOrNone
  <2>4. Notify(s, "pref", j).offers = s.offers
    BY DEF Session, Notify
  <2>5. OfferBesides(s, j) = p
    BY <2>3, <2>4 DEF OfferBesides, Session
  <2>6. /\ p.sdlg = s.sdlg /\ p.choose = s.choose /\ p.perr = s.perr /\ p.open = s.open
        /\ p.scanning = s.scanning /\ p.reply = s.reply
    BY DEF Session, Notify
  <2>7. r = [p EXCEPT !.rdlg = None, !.confirm = FALSE]
    BY <2>1, <2>5 DEF Offer
  <2> HIDE DEF p
  <2> QED BY <2>3, <2>6, <2>7 DEF Session
<1> QED BY <1>1, <1>2, <1>3 DEF Reached

LEMMA StoredLocal ==
  ASSUME NEW s \in Session, NEW cl \in Client, NEW e \in Entries, NEW b \in Blacks, Local(s, cl, e, b),
         NEW info \in SUBSET Iaps
  PROVE  Local([s EXCEPT !.stored = info], cl, e, b)
<1> DEFINE r == [s EXCEPT !.stored = info]
<1>1. /\ r.open = s.open /\ r.sel = s.sel /\ r.scanning = s.scanning /\ r.choose = s.choose
      /\ r.perr = s.perr /\ r.wait = s.wait /\ r.reg = s.reg /\ r.hold = s.hold /\ r.confirm = s.confirm
      /\ r.migrateIap = s.migrateIap /\ r.lastNotified = s.lastNotified /\ r.offers = s.offers
      /\ r.sdlg = s.sdlg /\ r.rdlg = s.rdlg /\ r.reply = s.reply /\ r.note = s.note
  BY DEF Session
<1> HIDE DEF r
<1> SUFFICES Local(r, cl, e, b)
  BY DEF r
<1>2. Local(r, cl, e, b)
  <2>1. Asked(r, cl)
    BY <1>1
       DEF Local, Asked, Says, Active, Uncrossed, Fits
  <2>2. Choosing(r, cl)
    BY <1>1
       DEF Local, Choosing, Says, Active, Uncrossed, Fits
  <2>3. Granted(r, cl, e)
    BY <1>1
       DEF Local, Granted, Says, Active, Uncrossed, Fits
  <2>4. NotMobile(r, cl, e)
    BY <1>1
       DEF Local, NotMobile, Says, Active, Uncrossed, Fits
  <2>5. Entry(r, cl, e)
    BY <1>1
       DEF Local, Entry, Says, Active, Uncrossed, Fits
  <2>6. Owed(r, cl)
    BY <1>1
       DEF Local, Owed, Says, Active, Uncrossed, Fits
  <2>7. Bearer(r, cl, e)
    BY <1>1
       DEF Local, Bearer, Says, Active, Uncrossed, Fits
  <2>8. Offered(r, cl, e)
    BY <1>1
       DEF Local, Offered, Says, Active, Uncrossed, Fits
  <2>9. Asking(r, cl, e)
    BY <1>1
       DEF Local, Asking, Says, Active, Uncrossed, Fits
  <2>10. Moving(r, cl, e)
    BY <1>1
       DEF Local, Moving, Says, Active, Uncrossed, Fits
  <2>11. Refused(r, cl, e, b)
    BY <1>1
       DEF Local, Refused, Asked, Says, Active, Uncrossed, Fits
  <2> QED BY <2>1, <2>2, <2>3, <2>4, <2>5, <2>6, <2>7, <2>8, <2>9, <2>10, <2>11 DEF Local
<1> QED BY <1>2

LEMMA PlainNoteLocal ==
  ASSUME NEW s \in Session, NEW cl \in Client, NEW e \in Entries, NEW b \in Blacks, Local(s, cl, e, b),
         NEW type \in {"error", "stop"}
  PROVE  Local(Notify(s, type, NoIap), cl, e, b)
<1> DEFINE n == [type |-> type, iap |-> NoIap]
           r == [s EXCEPT !.wait = FALSE, !.note = n]
<1>0. n \in Note /\ n # None /\ n.type = type
  BY ConstantsAssumption DEF Note, IapOrNone
<1>1. /\ r.open = s.open /\ r.sel = s.sel /\ r.scanning = s.scanning /\ r.choose = s.choose
      /\ r.perr = s.perr /\ r.wait = FALSE /\ r.reg = s.reg /\ r.hold = s.hold /\ r.confirm = s.confirm
      /\ r.migrateIap = s.migrateIap /\ r.lastNotified = s.lastNotified /\ r.offers = s.offers
      /\ r.sdlg = s.sdlg /\ r.rdlg = s.rdlg /\ r.reply = s.reply /\ r.note = n
  BY DEF Session
<1> HIDE DEF r, n
<1>2. ASSUME s.wait PROVE Local(r, cl, e, b)
  <2>1. Asked(r, cl)
    BY <1>0, <1>1, <1>2
       DEF Local, Asked, Says, Active, Uncrossed, Fits
  <2>2. Choosing(r, cl)
    BY <1>0, <1>1, <1>2
       DEF Local, Choosing, Says, Active, Uncrossed, Fits
  <2>3. Granted(r, cl, e)
    BY <1>0, <1>1, <1>2
       DEF Local, Granted, Says, Active, Uncrossed, Fits
  <2>4. NotMobile(r, cl, e)
    BY <1>0, <1>1, <1>2
       DEF Local, NotMobile, Says, Active, Uncrossed, Fits
  <2>5. Entry(r, cl, e)
    BY <1>0, <1>1, <1>2
       DEF Local, Entry, Says, Active, Uncrossed, Fits
  <2>6. Owed(r, cl)
    BY <1>0, <1>1, <1>2
       DEF Local, Owed, Says, Active, Uncrossed, Fits
  <2>7. Bearer(r, cl, e)
    BY <1>0, <1>1, <1>2
       DEF Local, Bearer, Says, Active, Uncrossed, Fits
  <2>8. Offered(r, cl, e)
    BY <1>0, <1>1, <1>2
       DEF Local, Offered, Says, Active, Uncrossed, Fits
  <2>9. Asking(r, cl, e)
    BY <1>0, <1>1, <1>2
       DEF Local, Asking, Says, Active, Uncrossed, Fits
  <2>10. Moving(r, cl, e)
    BY <1>0, <1>1, <1>2
       DEF Local, Moving, Says, Active, Uncrossed, Fits
  <2>11. Refused(r, cl, e, b)
    BY <1>0, <1>1, <1>2
       DEF Local, Refused, Asked, Says, Active, Uncrossed, Fits
  <2> QED BY <2>1, <2>2, <2>3, <2>4, <2>5, <2>6, <2>7, <2>8, <2>9, <2>10, <2>11 DEF Local
<1> QED BY <1>2 DEF Notify, r, n

LEMMA OfferLocal ==
  ASSUME NEW s \in Session, NEW cl \in Client, NEW e \in Entries, NEW b \in Blacks, Local(s, cl, e, b),
         NEW j \in Iaps, s.wait, s.reg, GetBMSnap(e), j # s.lastNotified, j # GetBMIap(e),
         \A x \in b : x[1] # j
  PROVE  Local(Offer(s, j), cl, e, b)
<1> DEFINE n == [type |-> "pref", iap |-> j]
           r == Offer(s, j)
<1>0. n \in Note /\ n # None /\ n.type = "pref" /\ n.iap = j /\ j # NoIap
  BY ConstantsAssumption DEF Note, IapOrNone
<1>1. /\ r.open = s.open /\ r.sel = s.sel /\ r.scanning = s.scanning /\ r.choose = s.choose
      /\ r.perr = s.perr /\ r.wait = FALSE /\ r.reg = s.reg /\ r.hold = TRUE /\ r.confirm = FALSE
      /\ r.migrateIap = s.migrateIap /\ r.lastNotified = j
      /\ r.offers = IF s.offers = 0 THEN 1 ELSE 2
      /\ r.sdlg = s.sdlg /\ r.rdlg = None /\ r.reply = s.reply /\ r.note = n
  BY DEF Session, Offer, OfferBesides, Notify
<1>2. e # None /\ e.snap /\ j # e.iap
  BY DEF GetBMSnap, GetBMIap
<1>3. s.offers \in 0..2
  BY DEF Session
<1>4. \A i \in cl.refused : i # j \/ ~Uncrossed(s, cl)
  BY DEF Local, Refused
<1> HIDE DEF r, n
<1>5. Local(r, cl, e, b)
  <2>1. Asked(r, cl)
    BY <1>0, <1>1, <1>2, <1>3, <1>4
       DEF Local, Asked, Says, Active, Uncrossed, Fits
  <2>2. Choosing(r, cl)
    BY <1>0, <1>1, <1>2, <1>3, <1>4
       DEF Local, Choosing, Says, Active, Uncrossed, Fits
  <2>3. Granted(r, cl, e)
    BY <1>0, <1>1, <1>2, <1>3, <1>4
       DEF Local, Granted, Says, Active, Uncrossed, Fits
  <2>4. NotMobile(r, cl, e)
    BY <1>0, <1>1, <1>2, <1>3, <1>4
       DEF Local, NotMobile, Says, Active, Uncrossed, Fits
  <2>5. Entry(r, cl, e)
    BY <1>0, <1>1, <1>2, <1>3, <1>4
       DEF Local, Entry, Says, Active, Uncrossed, Fits
  <2>6. Owed(r, cl)
    BY <1>0, <1>1, <1>2, <1>3, <1>4
       DEF Local, Owed, Says, Active, Uncrossed, Fits
  <2>7. Bearer(r, cl, e)
    BY <1>0, <1>1, <1>2, <1>3, <1>4
       DEF Local, Bearer, Says, Active, Uncrossed, Fits
  <2>8. Offered(r, cl, e)
    BY <1>0, <1>1, <1>2, <1>3, <1>4
       DEF Local, Offered, Says, Active, Uncrossed, Fits
  <2>9. Asking(r, cl, e)
    BY <1>0, <1>1, <1>2, <1>3, <1>4
       DEF Local, Asking, Says, Active, Uncrossed, Fits
  <2>10. Moving(r, cl, e)
    BY <1>0, <1>1, <1>2, <1>3, <1>4
       DEF Local, Moving, Says, Active, Uncrossed, Fits
  <2>11. Refused(r, cl, e, b)
    BY <1>0, <1>1, <1>2, <1>3, <1>4
       DEF Local, Refused, Asked, Says, Active, Uncrossed, Fits
  <2> QED BY <2>1, <2>2, <2>3, <2>4, <2>5, <2>6, <2>7, <2>8, <2>9, <2>10, <2>11 DEF Local
<1> QED BY <1>5 DEF r

LEMMA ReachedLocal ==
  ASSUME NEW s \in Session, NEW cl \in Client, NEW e \in Entries, NEW b \in Blacks, Local(s, cl, e, b),
         NEW info \in SUBSET Iaps, NEW r, Reached(s, r, e, b, info)
  PROVE  Local(r, cl, e, b)
  BY StoredLocal, PlainNoteLocal, OfferLocal DEF Reached, ErrorNotification

------------------------------------------------------------------------------
(* The dialogs and their queues *)

\* A dialog is in its queue, once; the answer that is carried on has a dialog to go to.
QueuesMatch ==
  /\ Distinct(startQ) /\ Distinct(roamQ)
  /\ \A c \in Sessions : (sess[c].sdlg # None) <=> (c \in ToSet(startQ))
  /\ \A c \in Sessions : (sess[c].rdlg # None) <=> (c \in ToSet(roamQ))
  /\ carry.start # None => startQ # <<>>
  /\ carry.roam # None => roamQ # <<>>

\* The order of the table names each entry once.
TableListed ==
  Distinct(connOrder) /\ \A k \in 1..Len(connOrder) : conns[connOrder[k]] # None

\* The loop over the black lists runs alone and within them.
LoopInRange ==
  /\ work.unblack <= Len(blackOrder)
  /\ work.unblack > 0 => carry = NoCarry

AllLocal == \A c \in Sessions : Local(sess[c], cli[c], conns[c], black[c])

\* A choice that is held has one scan at most, and none once the user is asked or
\* before it is made.
Choice(c) == [c |-> c, cb |-> "ChooseIap"]
Once(x) ==
  /\ \A k, l \in 1..Len(scans) : scans[k] = x /\ scans[l] = x => k = l
  /\ work.cb = x => \A k \in 1..Len(scans) : scans[k] # x
Unscanned(x) == work.cb # x /\ \A k \in 1..Len(scans) : scans[k] # x
ChoiceScanned(c) ==
  /\ sess[c].choose => Once(Choice(c))
  /\ \/ sess[c].choose /\ sess[c].sdlg # None
     \/ cli[c].phase \in {"new", "starting", "retrying"}
     \/ cli[c].phase = "choosing" /\ sess[c].reply # "none"
     => Unscanned(Choice(c))
ChoiceScans == \A c \in Sessions : ChoiceScanned(c)

MPMInv ==
  /\ TypeOK /\ AllLocal /\ QueuesMatch /\ TableListed /\ LoopInRange /\ RequestsProgress
  /\ ChoiceScans

------------------------------------------------------------------------------
\* Only c's own dialogs change.
DialogsOf(c) ==
  \A d \in Sessions \ {c} : sess'[d].sdlg = sess[d].sdlg /\ sess'[d].rdlg = sess[d].rdlg

DialogVarsOK ==
  /\ startQ' \in Seq(Sessions) /\ roamQ' \in Seq(Sessions)
  /\ carry' \in [start: {None} \cup Answer, roam: {None} \cup Answer]

LEMMA HeadIsIn ==
  ASSUME NEW S, NEW q \in Seq(S), q # <<>>
  PROVE  Head(q) \in S /\ Head(q) \in ToSet(q)
<1>1. Len(q) > 0 /\ Head(q) = q[1]
  BY HeadTailProperties
<1>2. 1 \in DOMAIN q
  BY <1>1
<1> QED BY <1>1, <1>2 DEF ToSet

\* The dialogs dlg are those of the queue q; what is left of q when they become
\* new, and the queue then.
Agrees(q, dlg) == Distinct(q) /\ \A d \in Sessions : (dlg[d] # None) <=> (d \in ToSet(q))
SameBut(c, dlg, new) == \A d \in Sessions \ {c} : new[d] = dlg[d]
Rest(q, new) == Without(q, {d \in Sessions : new[d] = None})
Requeued(q, dlg, new) ==
  Rest(q, new) \o SetToSeq({d \in Sessions : dlg[d] = None /\ new[d] # None})

LEMMA OneQueue ==
  ASSUME NEW c \in Sessions, NEW q \in Seq(Sessions), NEW dlg, NEW new,
         Agrees(q, dlg), SameBut(c, dlg, new)
  PROVE  /\ Rest(q, new) \in Seq(Sessions)
         /\ Requeued(q, dlg, new) \in Seq(Sessions) /\ Agrees(Requeued(q, dlg, new), new)
         /\ Rest(q, new) # <<>> => Requeued(q, dlg, new) # <<>>
         /\ q = <<>> => Rest(q, new) = <<>>
<1> DEFINE gone == {d \in Sessions : new[d] = None}
           come == {d \in Sessions : dlg[d] = None /\ new[d] # None}
           rest == Without(q, gone)
           r == rest \o SetToSeq(come)
<1>0. Rest(q, new) = rest /\ Requeued(q, dlg, new) = r
  BY DEF Rest, Requeued
<1>1. gone \cap ToSet(q) \subseteq {c} /\ Distinct(q)
  BY DEF ToSet, Agrees, SameBut
<1>2. come \in SUBSET {c}
  BY DEF SameBut
<1>3. rest \in Seq(Sessions)
  <2> HIDE DEF gone
  <2> QED BY WithoutKeeps
<1>4. Distinct(rest) /\ ToSet(rest) = ToSet(q) \ gone
  <2> HIDE DEF gone
  <2> QED BY <1>1, WithoutOne
<1>5. come \cap ToSet(rest) = {}
  <2> HIDE DEF rest
  <2> QED BY <1>4 DEF Agrees
<1>6. /\ r \in Seq(Sessions) /\ Distinct(r) /\ ToSet(r) = ToSet(rest) \cup come
      /\ rest # <<>> => r # <<>>
  <2> HIDE DEF come, rest
  <2> QED BY <1>2, <1>3, <1>4, <1>5, JoinOne
<1>7. ASSUME NEW d \in Sessions PROVE (new[d] # None) <=> (d \in ToSet(r))
  <2>1. ToSet(r) = (ToSet(q) \ gone) \cup come
    BY <1>4, <1>6
  <2> HIDE DEF r, rest
  <2> QED BY <2>1 DEF Agrees
<1>8. q = <<>> => rest = <<>>
  BY DEF Without, RemoveFirstMatch
<1> HIDE DEF r, rest
<1> QED BY <1>0, <1>3, <1>6, <1>7, <1>8 DEF Agrees

LEMMA AnsweredType ==
  ASSUME NEW q \in Seq(Sessions), NEW rest, NEW dlg, NEW ans \in Answers, NEW old \in {None} \cup Answer,
         \A d \in ToSet(q) : dlg[d].iap \in Iaps
  PROVE  /\ Answered(q, rest, dlg, ans, old) \in {None} \cup Answer
         /\ Answered(q, rest, dlg, ans, old) # None => (old # None /\ q = <<>>) \/ rest # <<>>
  BY HeadIsIn DEF Answered, Answer

LEMMA DialogsKeep ==
  ASSUME TypeOK, QueuesMatch, NEW c \in Sessions, DialogsOf(c), NEW ans \in Answers, Dialogs(ans)
  PROVE  DialogVarsOK /\ QueuesMatch'
<1> DEFINE sdlg == [d \in Sessions |-> sess[d].sdlg]
           rdlg == [d \in Sessions |-> sess[d].rdlg]
           snew == [d \in Sessions |-> sess'[d].sdlg]
           rnew == [d \in Sessions |-> sess'[d].rdlg]
           srest == Rest(startQ, snew)
           rrest == Rest(roamQ, rnew)
<1>1. /\ {d \in Sessions : snew[d] = None} = {d \in Sessions : sess'[d].sdlg = None}
      /\ {d \in Sessions : rnew[d] = None} = {d \in Sessions : sess'[d].rdlg = None}
      /\ {d \in Sessions : sdlg[d] = None /\ snew[d] # None}
           = {d \in Sessions : sdlg[d] = None /\ sess'[d].sdlg # None}
      /\ {d \in Sessions : rdlg[d] = None /\ rnew[d] # None}
           = {d \in Sessions : rdlg[d] = None /\ sess'[d].rdlg # None}
  OBVIOUS
<1>2. /\ startQ' = Requeued(startQ, sdlg, snew)
      /\ roamQ' = Requeued(roamQ, rdlg, rnew)
      /\ carry' = [start |-> Answered(startQ, srest, sdlg, ans, carry.start),
                   roam |-> Answered(roamQ, rrest, rdlg, ans, carry.roam)]
  BY <1>1, Zenon DEF Dialogs, Requeued, Rest
<1>3. startQ \in Seq(Sessions) /\ roamQ \in Seq(Sessions)
  BY DEF TypeOK
<1>4. /\ Agrees(startQ, sdlg) /\ Agrees(roamQ, rdlg)
      /\ SameBut(c, sdlg, snew) /\ SameBut(c, rdlg, rnew)
  BY DEF QueuesMatch, DialogsOf, Agrees, SameBut
<1>5. ToSet(startQ) \subseteq Sessions /\ ToSet(roamQ) \subseteq Sessions
  BY <1>3 DEF ToSet
<1>6. /\ \A d \in ToSet(startQ) : sdlg[d].iap \in Iaps
      /\ \A d \in ToSet(roamQ) : rdlg[d].iap \in Iaps
  BY <1>4, <1>5 DEF TypeOK, Session, StartingDlg, RoamingDlg, Agrees
<1>7. \A d \in Sessions : snew[d] = sess'[d].sdlg /\ rnew[d] = sess'[d].rdlg
  OBVIOUS
<1> HIDE DEF sdlg, rdlg, snew, rnew
<1>8. /\ srest \in Seq(Sessions) /\ startQ' \in Seq(Sessions) /\ Agrees(startQ', snew)
      /\ srest # <<>> => startQ' # <<>>
      /\ startQ = <<>> => srest = <<>>
  BY <1>2, <1>3, <1>4, OneQueue
<1>9. /\ rrest \in Seq(Sessions) /\ roamQ' \in Seq(Sessions) /\ Agrees(roamQ', rnew)
      /\ rrest # <<>> => roamQ' # <<>>
      /\ roamQ = <<>> => rrest = <<>>
  BY <1>2, <1>3, <1>4, OneQueue
<1> HIDE DEF srest, rrest
<1>10. /\ carry'.start \in {None} \cup Answer
       /\ carry'.start # None => (carry.start # None /\ startQ = <<>>) \/ srest # <<>>
  <2> DEFINE a == Answered(startQ, srest, sdlg, ans, carry.start)
  <2>1. carry.start \in {None} \cup Answer
    BY DEF TypeOK
  <2>2. a \in {None} \cup Answer /\ (a # None => (carry.start # None /\ startQ = <<>>) \/ srest # <<>>)
    BY <1>3, <1>6, <2>1, AnsweredType
  <2>3. carry'.start = a
    BY <1>2
  <2> HIDE DEF a
  <2> QED BY <2>2, <2>3
<1>11. /\ carry'.roam \in {None} \cup Answer
       /\ carry'.roam # None => (carry.roam # None /\ roamQ = <<>>) \/ rrest # <<>>
  <2> DEFINE a == Answered(roamQ, rrest, rdlg, ans, carry.roam)
  <2>1. carry.roam \in {None} \cup Answer
    BY DEF TypeOK
  <2>2. a \in {None} \cup Answer /\ (a # None => (carry.roam # None /\ roamQ = <<>>) \/ rrest # <<>>)
    BY <1>3, <1>6, <2>1, AnsweredType
  <2>3. carry'.roam = a
    BY <1>2
  <2> HIDE DEF a
  <2> QED BY <2>2, <2>3
<1>12. (carry.start # None => startQ # <<>>) /\ (carry.roam # None => roamQ # <<>>)
  BY DEF QueuesMatch
<1>13. DialogVarsOK
  BY <1>2, <1>8, <1>9, <1>10, <1>11 DEF DialogVarsOK
<1>14. QueuesMatch'
  BY <1>7, <1>8, <1>9, <1>10, <1>11, <1>12 DEF QueuesMatch, Agrees
<1> QED BY <1>13, <1>14

LEMMA DialogsSame ==
  ASSUME TypeOK, QueuesMatch, UNCHANGED dialogVars,
         \A d \in Sessions : sess'[d].sdlg = sess[d].sdlg /\ sess'[d].rdlg = sess[d].rdlg
  PROVE  DialogVarsOK /\ QueuesMatch'
  BY DEF TypeOK, QueuesMatch, DialogVarsOK, dialogVars

------------------------------------------------------------------------------
Frame(c) ==
  \A d \in Sessions \ {c} :
    /\ sess'[d] = sess[d] \/ sess'[d] = StopIAPNotification(sess[d])
    /\ cli'[d] = cli[d] /\ conns'[d] = conns[d] /\ black'[d] = black[d]

LEMMA StopFields ==
  ASSUME NEW s \in Session
  PROVE  /\ StopIAPNotification(s) \in Session
         /\ StopIAPNotification(s).sdlg = s.sdlg /\ StopIAPNotification(s).rdlg = s.rdlg
         /\ StopIAPNotification(s).choose = s.choose /\ StopIAPNotification(s).perr = s.perr
         /\ StopIAPNotification(s).open = s.open /\ StopIAPNotification(s).reply = s.reply
<1>1. StopIAPNotification(s) \in Session
  BY NotifyType DEF StopIAPNotification, IapOrNone
<1> QED BY <1>1 DEF StopIAPNotification, Notify, Session

LEMMA FrameKeeps ==
  ASSUME TypeOK, AllLocal, NEW c \in Sessions, Frame(c),
         Local(sess'[c], cli'[c], conns'[c], black'[c])
  PROVE  AllLocal' /\ DialogsOf(c)
         /\ \A d \in Sessions \ {c} :
              /\ sess'[d].choose = sess[d].choose /\ sess'[d].perr = sess[d].perr
              /\ sess'[d].open = sess[d].open /\ sess'[d].reply = sess[d].reply
<1>1. ASSUME NEW d \in Sessions \ {c}
      PROVE  /\ Local(sess'[d], cli'[d], conns'[d], black'[d])
             /\ sess'[d].sdlg = sess[d].sdlg /\ sess'[d].rdlg = sess[d].rdlg
             /\ sess'[d].choose = sess[d].choose /\ sess'[d].perr = sess[d].perr
             /\ sess'[d].open = sess[d].open /\ sess'[d].reply = sess[d].reply
  <2>1. /\ sess[d] \in Session /\ cli[d] \in Client /\ conns[d] \in Entries /\ black[d] \in Blacks
        /\ Local(sess[d], cli[d], conns[d], black[d])
    BY DEF TypeOK, AllLocal, Entries, Blacks
  <2>2. Local(StopIAPNotification(sess[d]), cli[d], conns[d], black[d])
    BY <2>1, PlainNoteLocal DEF StopIAPNotification
  <2> QED BY <1>1, <2>1, <2>2, StopFields DEF Frame
<1> QED BY <1>1 DEF AllLocal, DialogsOf

------------------------------------------------------------------------------
(* What the operations on the table, the black lists and the scans keep *)

\* The types of the groups of variables, and that the table is listed.
NodesOK == sess \in [Sessions -> Session] /\ cli \in [Sessions -> Client]
TablesOK == conns \in [Sessions -> Entries] /\ connOrder \in Seq(Sessions) /\ TableListed
BlacksOK == black \in [Sessions -> Blacks] /\ blackOrder \in Seq(Sessions)
MonOK ==
  /\ avail \in SUBSET Iaps /\ discard \in BOOLEAN /\ discarded \in BOOLEAN
  /\ scans \in Seq(Scan) /\ obsolete \in Nat
UsageOK ==
  /\ timer \in BOOLEAN
  /\ usage \in Usages \cup {"Automatic"} /\ usageSeen \in Usages \cup {"Automatic"}
WorkOK ==
  /\ work \in [unblack: Nat, pref: SUBSET Sessions, cb: {None} \cup Scan]
  /\ fatal \in {"none", "null message", "freed session"}
DialogsOK ==
  /\ startQ \in Seq(Sessions) /\ roamQ \in Seq(Sessions)
  /\ carry \in [start: {None} \cup Answer, roam: {None} \cup Answer]

LEMMA TypeSplit ==
  /\ TypeOK /\ TableListed <=>
       NodesOK /\ TablesOK /\ BlacksOK /\ MonOK /\ UsageOK /\ WorkOK /\ DialogsOK
  /\ TypeOK' /\ TableListed' <=>
       NodesOK' /\ TablesOK' /\ BlacksOK' /\ MonOK' /\ UsageOK' /\ WorkOK' /\ DialogsOK'
  BY DEF TypeOK, NodesOK, TablesOK, BlacksOK, MonOK, UsageOK, WorkOK, DialogsOK, Entries, Blacks

LEMMA AppendKeeps ==
  ASSUME TablesOK, NEW c \in Sessions, NEW snap \in BOOLEAN, NEW i \in IapOrNone, NEW state \in States,
         AppendBMConnection(c, snap, i, state)
  PROVE  /\ TablesOK'
         /\ conns'[c] \in Conn /\ conns'[c].iap = i /\ conns'[c].state = state
         /\ conns'[c].snap = IF conns[c] = None THEN snap ELSE conns[c].snap
         /\ \A d \in Sessions \ {c} : conns'[d] = conns[d]
<1> DEFINE e == [snap |-> IF conns[c] = None THEN snap ELSE conns[c].snap, iap |-> i, state |-> state]
<1>1. e \in Conn /\ e # None
  BY ConstantsAssumption DEF Conn, TablesOK, Entries
<1>2. conns' = [conns EXCEPT ![c] = e]
  BY DEF AppendBMConnection
<1>3. conns' \in [Sessions -> Entries] /\ conns'[c] = e /\ \A d \in Sessions \ {c} : conns'[d] = conns[d]
  <2> HIDE DEF e
  <2> QED BY <1>1, <1>2 DEF TablesOK, Entries
<1>4. connOrder' \in Seq(Sessions) /\ TableListed'
  <2>1. CASE conns[c] = None
    <3>1. connOrder' = Append(connOrder, c)
      BY <2>1 DEF AppendBMConnection
    <3>2. /\ connOrder' \in Seq(Sessions) /\ Len(connOrder') = Len(connOrder) + 1
          /\ \A k \in 1..Len(connOrder) : connOrder'[k] = connOrder[k]
          /\ connOrder'[Len(connOrder) + 1] = c
      BY <3>1, AppendProperties DEF TablesOK
    <3>3. \A k \in 1..Len(connOrder) : connOrder[k] # c /\ connOrder[k] \in Sessions
      BY <2>1 DEF TablesOK, TableListed
    <3>4. Distinct(connOrder')
      BY <3>2, <3>3 DEF Distinct, TablesOK, TableListed
    <3>5. \A k \in 1..Len(connOrder') : conns'[connOrder'[k]] # None
      <4> HIDE DEF e
      <4> QED BY <1>1, <1>3, <3>2, <3>3 DEF TablesOK, TableListed
    <3> QED BY <3>2, <3>4, <3>5 DEF TableListed
  <2>2. CASE conns[c] # None
    <3>1. connOrder' = connOrder
      BY <2>2 DEF AppendBMConnection
    <3> HIDE DEF e
    <3> QED BY <1>1, <1>3, <3>1 DEF TableListed, TablesOK
  <2> QED BY <2>1, <2>2
<1>5. e.iap = i /\ e.state = state /\ e.snap = IF conns[c] = None THEN snap ELSE conns[c].snap
  OBVIOUS
<1> HIDE DEF e
<1> QED BY <1>1, <1>3, <1>4, <1>5 DEF TablesOK

LEMMA ResetKeeps ==
  ASSUME TablesOK, NEW c \in Sessions, ResetBMConnection(c)
  PROVE  /\ TablesOK' /\ conns'[c] = Reset(conns[c]) /\ \A d \in Sessions \ {c} : conns'[d] = conns[d]
         /\ conns[c] # None => /\ conns'[c] \in Conn /\ conns'[c].iap = NoIap
                               /\ conns'[c].state = "Idle" /\ conns'[c].snap = conns[c].snap
         /\ conns[c] = None => conns'[c] = None
<1>1. conns[c] # None => /\ Reset(conns[c]) \in Conn /\ Reset(conns[c]).iap = NoIap
                         /\ Reset(conns[c]).state = "Idle" /\ Reset(conns[c]).snap = conns[c].snap
  <2>1. \A e \in Conn : LET r == [e EXCEPT !.iap = NoIap, !.state = "Idle"]
                       IN r \in Conn /\ r.iap = NoIap /\ r.state = "Idle" /\ r.snap = e.snap
    BY DEF Conn, States, IapOrNone
  <2>2. conns[c] # None => conns[c] \in Conn
    BY DEF TablesOK, Entries
  <2> QED BY <2>1, <2>2 DEF Reset
<1>2. conns[c] = None => Reset(conns[c]) = None
  BY DEF Reset
<1>3. conns' = [conns EXCEPT ![c] = Reset(conns[c])] /\ connOrder' = connOrder
  BY DEF ResetBMConnection
<1>4. Reset(conns[c]) \in Entries /\ (conns[c] # None => Reset(conns[c]) # None)
  BY <1>1, <1>2, ConstantsAssumption DEF Entries
<1> QED BY <1>1, <1>2, <1>3, <1>4 DEF TablesOK, TableListed

LEMMA RemoveKeeps ==
  ASSUME TablesOK, NEW c \in Sessions, RemoveBMConnection(c)
  PROVE  TablesOK' /\ conns'[c] = None /\ \A d \in Sessions \ {c} : conns'[d] = conns[d]
<1>1. conns' = [conns EXCEPT ![c] = None] /\ connOrder' = Without(connOrder, {c})
  BY DEF RemoveBMConnection
<1>2. connOrder \in Seq(Sessions) /\ Distinct(connOrder)
  BY DEF TablesOK, TableListed
<1>3. connOrder' \in Seq(Sessions) /\ Distinct(connOrder') /\ ToSet(connOrder') = ToSet(connOrder) \ {c}
  BY <1>1, <1>2, WithoutKeeps, WithoutOne
<1>4. \A k \in 1..Len(connOrder') : connOrder'[k] \in ToSet(connOrder) /\ connOrder'[k] # c
  BY <1>3 DEF ToSet
<1>5. \A d \in ToSet(connOrder) : d \in Sessions /\ conns[d] # None
  BY <1>2 DEF ToSet, TablesOK, TableListed
<1> QED BY <1>1, <1>3, <1>4, <1>5 DEF TablesOK, TableListed, Entries

LEMMA BlackKeeps ==
  ASSUME BlacksOK, NEW c \in Sessions, NEW i \in IapOrNone, NEW category \in Categories,
         BlackListIap(c, i, category)
  PROVE  /\ BlacksOK' /\ \A d \in Sessions \ {c} : black'[d] = black[d]
         /\ black'[c] = black[c] \cup IF i = NoIap THEN {} ELSE {<<i, category>>}
<1>1. i # NoIap => <<i, category>> \in Iaps \X Categories
  BY DEF IapOrNone
<1> DEFINE b == black[c] \cup IF i = NoIap THEN {} ELSE {<<i, category>>}
<1>2. b \in Blacks
  BY <1>1 DEF BlacksOK, Blacks
<1>3. black' = [black EXCEPT ![c] = b]
  BY DEF BlackListIap
<1>4. black' \in [Sessions -> Blacks] /\ black'[c] = b /\ \A d \in Sessions \ {c} : black'[d] = black[d]
  <2> HIDE DEF b
  <2> QED BY <1>2, <1>3 DEF BlacksOK
<1>5. blackOrder' \in Seq(Sessions)
  <2>1. Without(blackOrder, {c}) \in Seq(Sessions) /\ <<c>> \in Seq(Sessions)
    BY WithoutKeeps DEF BlacksOK
  <2> QED BY <2>1, ConcatProperties DEF BlackListIap
<1> QED BY <1>4, <1>5 DEF BlacksOK

LEMMA UnblackKeeps ==
  ASSUME BlacksOK, NEW c \in Sessions, UnblackListIap(c)
  PROVE  /\ BlacksOK' /\ \A d \in Sessions \ {c} : black'[d] = black[d]
         /\ black'[c] = {}
  BY WithoutKeeps DEF BlacksOK, UnblackListIap, Blacks

------------------------------------------------------------------------------
\* Whatever else happens to the scans, those of others stay.
OthersScanned(c) ==
  \A d \in Sessions \ {c} :
    /\ \A cb \in Callbacks : Outstanding(d, cb) => Outstanding(d, cb)'
    /\ Once(Choice(d)) => Once(Choice(d))'
    /\ Unscanned(Choice(d)) => Unscanned(Choice(d))'

LEMMA ScanKeeps ==
  ASSUME MonOK, NEW c \in Sessions, NEW cb \in Callbacks, ScanWLANNetworks(c, cb), UNCHANGED work
  PROVE  /\ MonOK' /\ OthersScanned(c) /\ Outstanding(c, cb)'
         /\ \A x : x # [c |-> c, cb |-> cb] =>
              (Once(x) => Once(x)') /\ (Unscanned(x) => Unscanned(x)')
         /\ Unscanned([c |-> c, cb |-> cb]) => Once([c |-> c, cb |-> cb])'
<1> DEFINE scan == [c |-> c, cb |-> cb]
<1>1. scan \in Scan
  BY DEF Scan
<1>2. scans' = Append(scans, scan)
  BY DEF ScanWLANNetworks
<1> HIDE DEF scan
<1>3. /\ scans' \in Seq(Scan) /\ Len(scans') = Len(scans) + 1 /\ scans'[Len(scans) + 1] = scan
      /\ \A k \in 1..Len(scans) : scans'[k] = scans[k]
  BY <1>1, <1>2, AppendProperties DEF MonOK
<1>4. scan \in ToSet(scans') /\ \A x \in ToSet(scans) : x \in ToSet(scans')
  BY <1>3 DEF ToSet, MonOK
<1>5. Len(scans) \in Nat
  BY DEF MonOK
<1>6. \A x : x # scan => (Once(x) => Once(x)') /\ (Unscanned(x) => Unscanned(x)')
  BY <1>3, <1>5 DEF Once, Unscanned
<1>7. Unscanned(scan) => Once(scan)'
  BY <1>3, <1>5 DEF Once, Unscanned
<1>8. MonOK'
  BY <1>3 DEF MonOK, ScanWLANNetworks
<1>9. \A d \in Sessions, b \in Callbacks : Outstanding(d, b) => Outstanding(d, b)'
  BY <1>4 DEF Outstanding
<1>10. Outstanding(c, cb)'
  BY <1>4 DEF Outstanding, scan
<1>11. \A d \in Sessions \ {c} : Choice(d) # scan
  BY DEF Choice, scan
<1>12. OthersScanned(c)
  BY <1>6, <1>9, <1>11 DEF OthersScanned
<1> QED BY <1>6, <1>7, <1>8, <1>10, <1>12 DEF scan

\* A scan that goes leaves the others as they were.
LEMMA ShorterScans ==
  ASSUME scans \in Seq(Scan), NEW k \in 1..Len(scans), scans' = RemoveAt(scans, k), UNCHANGED work
  PROVE  \A x : (Once(x) => Once(x)') /\ (Unscanned(x) => Unscanned(x)')
<1>1. /\ Len(scans') = Len(scans) - 1 /\ Len(scans) \in Nat
      /\ \A i \in 1..(Len(scans) - 1) : scans'[i] = IF i < k THEN scans[i] ELSE scans[i + 1]
  BY RemoveAtKeeps, SMTT(60)
<1> DEFINE old(i) == IF i < k THEN i ELSE i + 1
<1>2. \A i \in 1..Len(scans') : old(i) \in 1..Len(scans) /\ scans'[i] = scans[old(i)]
  BY <1>1
<1>3. \A i, j \in 1..Len(scans') : old(i) = old(j) => i = j
  BY <1>1
<1> HIDE DEF old
<1>4. ASSUME NEW x, Once(x) PROVE Once(x)'
  <2>1. ASSUME NEW i \in 1..Len(scans'), NEW j \in 1..Len(scans'), scans'[i] = x, scans'[j] = x
        PROVE  i = j
    <3>1. old(i) \in 1..Len(scans) /\ old(j) \in 1..Len(scans) /\ scans[old(i)] = x /\ scans[old(j)] = x
      BY <1>2, <2>1
    <3>2. old(i) = old(j)
      BY <1>4, <3>1 DEF Once
    <3> QED BY <1>3, <3>2
  <2>2. ASSUME work.cb = x, NEW i \in 1..Len(scans') PROVE scans'[i] # x
    BY <1>2, <1>4, <2>2 DEF Once
  <2> QED BY <2>1, <2>2 DEF Once
<1>5. ASSUME NEW x, Unscanned(x) PROVE Unscanned(x)'
  BY <1>2, <1>5 DEF Unscanned
<1> QED BY <1>4, <1>5

LEMMA CancelScanKeeps ==
  ASSUME MonOK, NEW c \in Sessions, CancelScan(c), UNCHANGED work
  PROVE  MonOK' /\ OthersScanned(c)
<1> DEFINE own == {k \in DOMAIN scans : scans[k].c = c}
           first == CHOOSE k \in own : \A l \in own : k <= l
<1>1. CASE own = {}
  <2>1. UNCHANGED scans /\ obsolete' = obsolete
    BY <1>1 DEF CancelScan
  <2> QED BY <2>1 DEF MonOK, CancelScan, OthersScanned, Outstanding, Once, Unscanned
<1>2. CASE own # {}
  <2>1. own \in SUBSET Nat
    BY DEF MonOK
  <2>2. \E k \in own : \A l \in own : k <= l
    <3> HIDE DEF own
    <3> QED BY <1>2, <2>1, LeastExists
  <2>3. first \in own
    <3> HIDE DEF own
    <3> QED BY <2>2
  <2>4. scans' = RemoveAt(scans, first) /\ obsolete' = obsolete + 1
    BY <1>2 DEF CancelScan
  <2>5. first \in 1..Len(scans) /\ scans[first].c = c
    BY <2>3 DEF MonOK
  <2> HIDE DEF first, own
  <2>6. ToSet(scans) \subseteq ToSet(scans') \cup {scans[first]}
    BY <2>4, <2>5, RemoveAtKeeps DEF MonOK
  <2>7. \A d \in Sessions \ {c}, cb \in Callbacks : Outstanding(d, cb) => Outstanding(d, cb)'
    <3> SUFFICES ASSUME NEW d \in Sessions \ {c}, NEW cb \in Callbacks, Outstanding(d, cb)
                 PROVE  Outstanding(d, cb)'
      OBVIOUS
    <3>1. [c |-> d, cb |-> cb] # scans[first]
      BY <2>5
    <3> QED BY <2>6, <3>1 DEF Outstanding
  <2>8. \A x : (Once(x) => Once(x)') /\ (Unscanned(x) => Unscanned(x)')
    BY <2>4, <2>5, ShorterScans DEF MonOK
  <2>9. discard' = FALSE /\ avail' = avail /\ discarded' = discarded
    BY DEF CancelScan
  <2>10. scans' \in Seq(Scan)
    BY <2>4, <2>5, RemoveAtKeeps DEF MonOK
  <2>11. MonOK'
    <3>1. obsolete' \in Nat
      BY <2>4 DEF MonOK
    <3> QED BY <2>9, <2>10, <3>1 DEF MonOK
  <2> QED BY <2>7, <2>8, <2>11 DEF OthersScanned
<1> QED BY <1>1, <1>2

LEMMA NoScanKeeps ==
  ASSUME MonOK, UNCHANGED monVars, UNCHANGED work
  PROVE  /\ MonOK'
         /\ \A d \in Sessions : \A cb \in Callbacks : Outstanding(d, cb)' <=> Outstanding(d, cb)
         /\ \A x : (Once(x) => Once(x)') /\ (Unscanned(x) => Unscanned(x)')
         /\ \A c \in Sessions : OthersScanned(c)
<1>1. UNCHANGED <<scans, work>>
  BY DEF monVars
<1>2. \A x : (Once(x) => Once(x)') /\ (Unscanned(x) => Unscanned(x)')
  BY <1>1 DEF Once, Unscanned
<1>3. MonOK'
  BY DEF MonOK, monVars
<1>4. \A d \in Sessions : \A cb \in Callbacks : Outstanding(d, cb)' <=> Outstanding(d, cb)
  BY <1>1 DEF Outstanding
<1> QED BY <1>2, <1>3, <1>4 DEF OthersScanned

------------------------------------------------------------------------------
OwnProgress(c) ==
  /\ sess'[c].choose => sess'[c].sdlg # None \/ Outstanding(c, "ChooseIap")'
  /\ sess'[c].perr # None => Outstanding(c, "ProcessErr")'

DialogsMove(c) ==
  \/ \E ans \in Answers : Dialogs(ans)
  \/ UNCHANGED dialogVars /\ sess'[c].sdlg = sess[c].sdlg /\ sess'[c].rdlg = sess[c].rdlg

\* A step that changes the session c, its node, its entry, its black list and its scans.
LEMMA StepKeeps ==
  ASSUME MPMInv, NEW c \in Sessions, Frame(c), Local(sess'[c], cli'[c], conns'[c], black'[c]),
         NodesOK', TablesOK', BlacksOK', MonOK', UsageOK', WorkOK', DialogsMove(c),
         LoopInRange', OthersScanned(c), OwnProgress(c), ChoiceScanned(c)'
  PROVE  MPMInv'
<1>1. TypeOK /\ QueuesMatch /\ AllLocal /\ RequestsProgress /\ ChoiceScans
  BY DEF MPMInv
<1>2. /\ AllLocal' /\ DialogsOf(c)
      /\ \A d \in Sessions \ {c} :
           /\ sess'[d].choose = sess[d].choose /\ sess'[d].perr = sess[d].perr
           /\ sess'[d].reply = sess[d].reply
  BY <1>1, FrameKeeps
<1>3. DialogVarsOK /\ QueuesMatch'
  <2>1. CASE \E ans \in Answers : Dialogs(ans)
    BY <1>1, <1>2, <2>1, DialogsKeep
  <2>2. CASE UNCHANGED dialogVars /\ sess'[c].sdlg = sess[c].sdlg /\ sess'[c].rdlg = sess[c].rdlg
    <3>1. \A d \in Sessions : sess'[d].sdlg = sess[d].sdlg /\ sess'[d].rdlg = sess[d].rdlg
      BY <1>2, <2>2 DEF DialogsOf
    <3> QED BY <1>1, <2>2, <3>1, DialogsSame
  <2> QED BY <2>1, <2>2 DEF DialogsMove
<1>4. TypeOK' /\ TableListed'
  BY <1>3, TypeSplit DEF DialogVarsOK, DialogsOK
<1>5. RequestsProgress'
  <2> SUFFICES ASSUME NEW d \in Sessions
               PROVE /\ sess'[d].choose => sess'[d].sdlg # None \/ Outstanding(d, "ChooseIap")'
                     /\ sess'[d].perr # None => Outstanding(d, "ProcessErr")'
    BY DEF RequestsProgress
  <2>1. CASE d = c
    BY <2>1 DEF OwnProgress
  <2>2. CASE d # c
    BY <1>1, <1>2, <2>2 DEF RequestsProgress, OthersScanned, Callbacks, DialogsOf
  <2> QED BY <2>1, <2>2
<1>6. ChoiceScans'
  <2> SUFFICES ASSUME NEW d \in Sessions \ {c} PROVE ChoiceScanned(d)'
    BY DEF ChoiceScans
  <2>1. cli'[d] = cli[d] /\ sess'[d].sdlg = sess[d].sdlg
    BY <1>2 DEF Frame, DialogsOf
  <2> QED BY <1>1, <1>2, <2>1 DEF ChoiceScans, ChoiceScanned, OthersScanned
<1> QED BY <1>2, <1>3, <1>4, <1>5, <1>6 DEF MPMInv

------------------------------------------------------------------------------
(* The handlers of requests, for the session and its node *)

\* What a node that waits for an answer makes of a notification it kept.
Waits(cl, k) ==
  /\ k.stored = None /\ k.refused = cl.refused
  /\ \/ cl.stored = None /\ k.phase = "up" /\ k.mob = "response" /\ k.iap = cl.iap /\ k.pref = cl.pref
     \/ /\ Says(cl.stored, "pref") /\ k.phase = "up" /\ k.mob = "offered" /\ k.iap = cl.iap
        /\ k.pref = cl.stored.iap
     \/ /\ Says(cl.stored, "start") /\ k.phase = "up" /\ k.mob = "reconnect"
        /\ k.iap = cl.stored.iap /\ k.pref = cl.pref
     \/ /\ Says(cl.stored, "stop") \/ Says(cl.stored, "error")
        /\ k.phase = "down" /\ k.mob = "response" /\ k.iap = cl.iap /\ k.pref = cl.pref

LEMMA WaitResponseResult ==
  ASSUME NEW cl \in Client, cl.phase = "up"
  PROVE  WaitResponse(cl) \in Client /\ Waits(cl, WaitResponse(cl))
<1> DEFINE w == [cl EXCEPT !.mob = "response", !.stored = None]
<1>1. /\ w \in Client /\ w.phase = "up" /\ w.mob = "response" /\ w.stored = None /\ w.iap = cl.iap
      /\ w.pref = cl.pref /\ w.refused = cl.refused
  BY DEF Client
<1>2. CASE cl.stored = None
  BY <1>1, <1>2 DEF WaitResponse, Waits
<1>3. ASSUME cl.stored # None PROVE WaitResponse(cl) \in Client /\ Waits(cl, WaitResponse(cl))
  <2>1. /\ WaitResponse(cl) = Deliver(w, cl.stored)
        /\ cl.stored.type \in {"pref", "start", "stop", "error"} /\ cl.stored.iap \in IapOrNone
    BY <1>3 DEF WaitResponse, Client, Note
  <2> DEFINE k == Deliver(w, cl.stored)
  <2> HIDE DEF w
  <2>2. \/ cl.stored.type = "stop" /\ k = [w EXCEPT !.phase = "down"]
        \/ cl.stored.type = "pref" /\ k = [w EXCEPT !.mob = "offered", !.pref = cl.stored.iap, !.stored = None]
        \/ /\ cl.stored.type = "start"
           /\ k = [[w EXCEPT !.iap = cl.stored.iap] EXCEPT !.mob = "reconnect", !.stored = None]
        \/ cl.stored.type = "error" /\ k = [w EXCEPT !.phase = "down"]
    BY <1>1, <2>1 DEF Deliver, Reconnected, Client
  <2> HIDE DEF k
  <2>3. k \in Client
    BY <1>1, <2>1, <2>2 DEF Client
  <2>4. Waits(cl, k)
    BY <1>1, <1>3, <2>1, <2>2 DEF Client, Waits, Says
  <2> QED BY <2>1, <2>3, <2>4 DEF k
<1> QED BY <1>2, <1>3

\* What a node makes of the notification n.
Delivers(cl, n, k) ==
  /\ k.refused = cl.refused
  /\ \/ /\ n.type = "stop" /\ k.phase = (IF cl.phase \in {"starting", "up"} THEN "down" ELSE cl.phase)
        /\ k.mob = cl.mob /\ k.iap = cl.iap /\ k.pref = cl.pref /\ k.stored = cl.stored
     \/ n.type # "stop" /\ ~Active(cl) /\ k = cl
     \/ /\ n.type = "pref" /\ Active(cl) /\ cl.mob \in {"wait", "response"} /\ k.phase = cl.phase
        /\ k.mob = "offered" /\ k.iap = cl.iap /\ k.pref = n.iap /\ k.stored = None
     \/ /\ n.type = "start" /\ Active(cl) /\ cl.mob = "response" /\ k.phase = cl.phase
        /\ k.mob = "reconnect" /\ k.iap = n.iap /\ k.pref = cl.pref /\ k.stored = None
     \/ /\ n.type = "error" /\ Active(cl) /\ cl.mob \in {"wait", "response"} /\ k.phase = "down"
        /\ k.mob = cl.mob /\ k.iap = cl.iap /\ k.pref = cl.pref /\ k.stored = cl.stored
     \/ /\ n.type # "stop" /\ Active(cl) /\ k.phase = cl.phase /\ k.mob = cl.mob /\ k.iap = cl.iap
        /\ cl.mob = "response" => FALSE
        /\ cl.mob = "wait" => n.type = "start"
        /\ k.pref = cl.pref /\ k.stored = (IF cl.stored = None THEN n ELSE cl.stored)

LEMMA DeliverResult ==
  ASSUME NEW cl \in Client, NEW n \in Note
  PROVE  Deliver(cl, n) \in Client /\ Delivers(cl, n, Deliver(cl, n))
<1>0. n.type \in {"pref", "start", "stop", "error"} /\ n.iap \in IapOrNone
  BY DEF Note
<1> DEFINE k == Deliver(cl, n)
<1>1. \/ /\ n.type = "stop"
         /\ k = [cl EXCEPT !.phase = IF @ \in {"starting", "up"} THEN "down" ELSE @]
      \/ n.type # "stop" /\ ~Active(cl) /\ k = cl
      \/ /\ n.type = "pref" /\ Active(cl) /\ cl.mob \in {"wait", "response"}
         /\ k = [cl EXCEPT !.mob = "offered", !.pref = n.iap, !.stored = None]
      \/ /\ n.type = "start" /\ Active(cl) /\ cl.mob = "response"
         /\ k = [[cl EXCEPT !.iap = n.iap] EXCEPT !.mob = "reconnect", !.stored = None]
      \/ /\ n.type = "error" /\ Active(cl) /\ cl.mob \in {"wait", "response"}
         /\ k = [cl EXCEPT !.phase = "down"]
      \/ /\ n.type # "stop" /\ Active(cl) /\ cl.mob # "response" /\ (cl.mob = "wait" => n.type = "start")
         /\ k = [cl EXCEPT !.stored = IF @ = None THEN n ELSE @]
  BY <1>0 DEF Deliver, Reconnected, Keep, Active
<1> HIDE DEF k
<1>2. k \in Client
  BY <1>0, <1>1 DEF Client
<1>3. Delivers(cl, n, k)
  BY <1>0, <1>1 DEF Client, Delivers
<1> QED BY <1>2, <1>3 DEF k

------------------------------------------------------------------------------

\* A choice of an IAP: it is granted, refused, scanned or asked for.
LEMMA ChooseLocal ==
  ASSUME NEW s \in Session, NEW cl \in Client, NEW e \in Entries, NEW b \in Blacks,
         Local(s, cl, e, b),
         NEW r \in Session, NEW k \in Client, NEW f \in Entries,
         cl.phase \in {"new", "retrying", "choosing"}, s.open, s.perr = None,
         k.phase = "choosing" /\ k.mob = cl.mob /\ k.iap = cl.iap /\ k.pref = cl.pref,
         k.stored = cl.stored /\ k.refused = cl.refused,
         r.open = s.open /\ r.perr = s.perr /\ r.wait = s.wait /\ r.reg = s.reg /\ r.hold = s.hold,
         r.stored = s.stored /\ r.confirm = s.confirm /\ r.migrateIap = s.migrateIap,
         r.lastNotified = s.lastNotified /\ r.offers = s.offers /\ r.rdlg = s.rdlg /\ r.note = s.note,
         r.choose => r.sel # None,
         r.choose /\ r.sdlg = None => r.scanning,
         Disciplined /\ r.scanning => r.choose,
         r.reply # "none" => ~r.choose /\ ~r.scanning /\ r.sdlg = None,
         r.reply # "Reselect",
         Disciplined /\ r.sdlg # None => r.choose /\ ~r.sel.silent,
         r.reply = "ok" => f # None /\ f.state = "Starting" /\ f.iap # NoIap
  PROVE  Local(r, k, f, b)
<1>1. Local(r, k, f, b)
  <2>1. Asked(r, k)
    BY DEF Local, Asked, Says, Active, Uncrossed, Fits
  <2>2. Choosing(r, k)
    BY DEF Local, Choosing, Says, Active, Uncrossed, Fits
  <2>3. Granted(r, k, f)
    BY DEF Local, Granted, Says, Active, Uncrossed, Fits
  <2>4. NotMobile(r, k, f)
    BY DEF Local, NotMobile, Says, Active, Uncrossed, Fits
  <2>5. Entry(r, k, f)
    BY DEF Local, Entry, Says, Active, Uncrossed, Fits
  <2>6. Owed(r, k)
    BY DEF Local, Owed, Says, Active, Uncrossed, Fits
  <2>7. Bearer(r, k, f)
    BY DEF Local, Bearer, Says, Active, Uncrossed, Fits
  <2>8. Offered(r, k, f)
    BY DEF Local, Offered, Says, Active, Uncrossed, Fits
  <2>9. Asking(r, k, f)
    BY DEF Local, Asking, Says, Active, Uncrossed, Fits
  <2>10. Moving(r, k, f)
    BY DEF Local, Moving, Says, Active, Uncrossed, Fits
  <2>11. Refused(r, k, f, b)
    BY DEF Local, Refused, Says, Active, Uncrossed, Fits, Asked
  <2> QED BY <2>1, <2>2, <2>3, <2>4, <2>5, <2>6, <2>7, <2>8, <2>9, <2>10, <2>11 DEF Local
<1> QED BY <1>1

LEMMA CancelChooseLocal ==
  ASSUME NEW s \in Session, NEW cl \in Client, NEW e \in Entries, NEW b \in Blacks,
         Local(s, cl, e, b),
         s.choose
  PROVE  /\ Local([s EXCEPT !.choose = FALSE, !.scanning = FALSE, !.reply = "none", !.sel = None, !.sdlg = None],
                  [cl EXCEPT !.phase = "ended"], e, b)
         /\ [s EXCEPT !.choose = FALSE, !.scanning = FALSE, !.reply = "none", !.sel = None, !.sdlg = None] \in Session
         /\ [cl EXCEPT !.phase = "ended"] \in Client
<1> DEFINE r == [s EXCEPT !.choose = FALSE, !.scanning = FALSE, !.reply = "none", !.sel = None, !.sdlg = None]
           k == [cl EXCEPT !.phase = "ended"]
<1>1. /\ r.open = s.open /\ r.sel = None /\ r.scanning = FALSE /\ r.choose = FALSE
      /\ r.perr = s.perr /\ r.wait = s.wait /\ r.reg = s.reg /\ r.hold = s.hold
      /\ r.stored = s.stored /\ r.confirm = s.confirm /\ r.migrateIap = s.migrateIap
      /\ r.lastNotified = s.lastNotified /\ r.offers = s.offers /\ r.sdlg = None
      /\ r.rdlg = s.rdlg /\ r.reply = "none" /\ r.note = s.note
  BY DEF Session
<1>2. /\ k.phase = "ended" /\ k.mob = cl.mob /\ k.iap = cl.iap /\ k.pref = cl.pref
      /\ k.stored = cl.stored /\ k.refused = cl.refused
  BY DEF Client
<1>3. r \in Session
  BY DEF Session
<1>4. k \in Client
  BY DEF Client
<1>5. cl.phase = "choosing"
  BY DEF Local, Choosing
<1> HIDE DEF r, k
<1>6. Local(r, k, e, b)
  <2>1. Asked(r, k)
    BY <1>1, <1>2, <1>3, <1>4, <1>5 DEF Local, Asked, Says, Active, Uncrossed, Fits
  <2>2. Choosing(r, k)
    BY <1>1, <1>2, <1>3, <1>4, <1>5 DEF Local, Choosing, Says, Active, Uncrossed, Fits
  <2>3. Granted(r, k, e)
    BY <1>1, <1>2, <1>3, <1>4, <1>5 DEF Local, Granted, Says, Active, Uncrossed, Fits
  <2>4. NotMobile(r, k, e)
    BY <1>1, <1>2, <1>3, <1>4, <1>5 DEF Local, NotMobile, Says, Active, Uncrossed, Fits
  <2>5. Entry(r, k, e)
    BY <1>1, <1>2, <1>3, <1>4, <1>5 DEF Local, Entry, Says, Active, Uncrossed, Fits
  <2>6. Owed(r, k)
    BY <1>1, <1>2, <1>3, <1>4, <1>5 DEF Local, Owed, Says, Active, Uncrossed, Fits
  <2>7. Bearer(r, k, e)
    BY <1>1, <1>2, <1>3, <1>4, <1>5 DEF Local, Bearer, Says, Active, Uncrossed, Fits
  <2>8. Offered(r, k, e)
    BY <1>1, <1>2, <1>3, <1>4, <1>5 DEF Local, Offered, Says, Active, Uncrossed, Fits
  <2>9. Asking(r, k, e)
    BY <1>1, <1>2, <1>3, <1>4, <1>5 DEF Local, Asking, Says, Active, Uncrossed, Fits
  <2>10. Moving(r, k, e)
    BY <1>1, <1>2, <1>3, <1>4, <1>5 DEF Local, Moving, Says, Active, Uncrossed, Fits
  <2>11. Refused(r, k, e, b)
    BY <1>1, <1>2, <1>3, <1>4, <1>5 DEF Local, Refused, Says, Active, Uncrossed, Fits, Asked
  <2> QED BY <2>1, <2>2, <2>3, <2>4, <2>5, <2>6, <2>7, <2>8, <2>9, <2>10, <2>11 DEF Local
<1> QED BY <1>1, <1>2, <1>3, <1>4, <1>5, <1>6 DEF r, k

LEMMA StartedLocal ==
  ASSUME NEW s \in Session, NEW cl \in Client, NEW e \in Entries, NEW b \in Blacks,
         Local(s, cl, e, b),
         NEW f \in Conn,
         cl.phase = "starting", ~s.choose, s.perr = None, s.reply = "none",
         e # None /\ f.snap = e.snap /\ f.iap = e.iap /\ f.state = "Started"
  PROVE  /\ Local(s, [cl EXCEPT !.phase = "up"], f, b)
         /\ [cl EXCEPT !.phase = "up"] \in Client
<1> DEFINE k == [cl EXCEPT !.phase = "up"]
<1>1. /\ k.phase = "up" /\ k.mob = cl.mob /\ k.iap = cl.iap /\ k.pref = cl.pref
      /\ k.stored = cl.stored /\ k.refused = cl.refused
  BY DEF Client
<1>2. k \in Client
  BY DEF Client
<1>3. f # None /\ f \in Entries
  BY ConstantsAssumption DEF Entries
<1>4. cl.mob = "off" /\ e.iap = cl.iap /\ e.iap # NoIap
  BY DEF Local, NotMobile, Granted
<1>5. /\ ~s.reg /\ ~s.hold /\ ~s.confirm /\ s.rdlg = None
      /\ s.lastNotified = NoIap /\ s.offers = 0 /\ cl.refused = {}
      /\ ~Says(s.note, "pref") /\ ~Says(s.note, "start")
      /\ ~Says(cl.stored, "pref") /\ ~Says(cl.stored, "start")
  BY <1>4 DEF Local, NotMobile
<1> HIDE DEF k
<1>6. Local(s, k, f, b)
  <2>1. Asked(s, k)
    BY <1>1, <1>2, <1>3, <1>4, <1>5 DEF Local, Asked, Says, Active, Uncrossed, Fits
  <2>2. Choosing(s, k)
    BY <1>1, <1>2, <1>3, <1>4, <1>5 DEF Local, Choosing, Says, Active, Uncrossed, Fits
  <2>3. Granted(s, k, f)
    BY <1>1, <1>2, <1>3, <1>4, <1>5 DEF Local, Granted, Says, Active, Uncrossed, Fits
  <2>4. NotMobile(s, k, f)
    BY <1>1, <1>2, <1>3, <1>4, <1>5 DEF Local, NotMobile, Says, Active, Uncrossed, Fits
  <2>5. Entry(s, k, f)
    BY <1>1, <1>2, <1>3, <1>4, <1>5 DEF Local, Entry, Says, Active, Uncrossed, Fits
  <2>6. Owed(s, k)
    BY <1>1, <1>2, <1>3, <1>4, <1>5 DEF Local, Owed, Says, Active, Uncrossed, Fits
  <2>7. Bearer(s, k, f)
    BY <1>1, <1>2, <1>3, <1>4, <1>5 DEF Local, Bearer, Says, Active, Uncrossed, Fits
  <2>8. Offered(s, k, f)
    BY <1>1, <1>2, <1>3, <1>4, <1>5 DEF Local, Offered, Says, Active, Uncrossed, Fits
  <2>9. Asking(s, k, f)
    BY <1>1, <1>2, <1>3, <1>4, <1>5 DEF Local, Asking, Says, Active, Uncrossed, Fits
  <2>10. Moving(s, k, f)
    BY <1>1, <1>2, <1>3, <1>4, <1>5 DEF Local, Moving, Says, Active, Uncrossed, Fits
  <2>11. Refused(s, k, f, b)
    BY <1>1, <1>2, <1>3, <1>4, <1>5 DEF Local, Refused, Says, Active, Uncrossed, Fits, Asked
  <2> QED BY <2>1, <2>2, <2>3, <2>4, <2>5, <2>6, <2>7, <2>8, <2>9, <2>10, <2>11 DEF Local
<1> QED BY <1>1, <1>2, <1>3, <1>4, <1>5, <1>6 DEF k

\* The entry of another, which starts with it.
LEMMA TogetherLocal ==
  ASSUME NEW s \in Session, NEW cl \in Client, NEW e \in Conn, NEW b \in Blacks,
         Local(s, cl, e, b), ~e.snap, e.iap # NoIap,
         NEW f \in Conn, f.snap = e.snap, f.iap = e.iap, f.state = "Started"
  PROVE  Local(s, cl, f, b)
<1>1. e # None /\ f # None
  BY ConstantsAssumption
<1>2. Active(cl) => e = f
  <2>1. Active(cl) => e.state = "Started"
    BY <1>1 DEF Local, Entry, Conn, States
  <2> QED BY <2>1 DEF Conn
<1>3. Granted(s, cl, f)
  BY <1>1 DEF Local, Granted
<1>4. ~Active(cl) =>
        /\ NotMobile(s, cl, f) /\ Entry(s, cl, f) /\ Bearer(s, cl, f) /\ Offered(s, cl, f)
        /\ Asking(s, cl, f) /\ Moving(s, cl, f) /\ Refused(s, cl, f, b)
  <2> SUFFICES ASSUME ~Active(cl)
               PROVE  /\ NotMobile(s, cl, f) /\ Entry(s, cl, f) /\ Bearer(s, cl, f)
                      /\ Offered(s, cl, f) /\ Asking(s, cl, f) /\ Moving(s, cl, f)
                      /\ Refused(s, cl, f, b)
    OBVIOUS
  <2>1. NotMobile(s, cl, f)
    BY DEF Local, NotMobile
  <2>2. Entry(s, cl, f)
    BY DEF Local, Entry
  <2>3. /\ Bearer(s, cl, f) /\ Offered(s, cl, f) /\ Asking(s, cl, f) /\ Moving(s, cl, f)
        /\ Refused(s, cl, f, b)
    BY DEF Bearer, Offered, Asking, Moving, Refused, Uncrossed
  <2> QED BY <2>1, <2>2, <2>3
<1> QED BY <1>2, <1>3, <1>4 DEF Local

\* The node sends its request about an error.
Reports(cl, p) ==
  \/ cl.phase = "starting" /\ p = "retrying"
  \/ cl.phase = "up" /\ p = "recovering" /\ cl.mob \in {"off", "wait", "reconnect", "stopped"}

\* The request is answered at once.
LEMMA ErrorLocal ==
  ASSUME NEW s \in Session, NEW cl \in Client, NEW e \in Entries, NEW b \in Blacks,
         Local(s, cl, e, b),
         NEW p, NEW a \in {"error", "Propagate", "Reselect", "Ignore"}, NEW d \in Blacks,
         Reports(cl, p), ~s.choose, s.perr = None, s.reply = "none", b \subseteq d,
         a = "Reselect" => p = "retrying" /\ s.sel # None
  PROVE  /\ Local([s EXCEPT !.perr = None, !.reply = a], [cl EXCEPT !.phase = p], e, d)
         /\ [s EXCEPT !.perr = None, !.reply = a] \in Session
         /\ [cl EXCEPT !.phase = p] \in Client
<1> DEFINE r == [s EXCEPT !.perr = None, !.reply = a]
           k == [cl EXCEPT !.phase = p]
<1>1. /\ r.open = s.open /\ r.sel = s.sel /\ r.scanning = s.scanning /\ r.choose = s.choose
      /\ r.perr = None /\ r.wait = s.wait /\ r.reg = s.reg /\ r.hold = s.hold
      /\ r.stored = s.stored /\ r.confirm = s.confirm /\ r.migrateIap = s.migrateIap
      /\ r.lastNotified = s.lastNotified /\ r.offers = s.offers /\ r.sdlg = s.sdlg
      /\ r.rdlg = s.rdlg /\ r.reply = a /\ r.note = s.note
  BY DEF Session
<1>2. /\ k.phase = p /\ k.mob = cl.mob /\ k.iap = cl.iap /\ k.pref = cl.pref
      /\ k.stored = cl.stored /\ k.refused = cl.refused
  BY DEF Client
<1>3. r \in Session
  BY ZenonT(40) DEF Session
<1>4. k \in Client
  BY DEF Reports, Client
<1> HIDE DEF r, k
<1>5. Local(r, k, e, d)
  <2>1. Asked(r, k)
    BY <1>1, <1>2, <1>3, <1>4 DEF Local, Asked, Says, Active, Uncrossed, Fits, Reports
  <2>2. Choosing(r, k)
    BY <1>1, <1>2, <1>3, <1>4 DEF Local, Choosing, Says, Active, Uncrossed, Fits, Reports
  <2>3. Granted(r, k, e)
    BY <1>1, <1>2, <1>3, <1>4 DEF Local, Granted, Says, Active, Uncrossed, Fits, Reports
  <2>4. NotMobile(r, k, e)
    BY <1>1, <1>2, <1>3, <1>4 DEF Local, NotMobile, Says, Active, Uncrossed, Fits, Reports
  <2>5. Entry(r, k, e)
    BY <1>1, <1>2, <1>3, <1>4 DEF Local, Entry, Says, Active, Uncrossed, Fits, Reports
  <2>6. Owed(r, k)
    BY <1>1, <1>2, <1>3, <1>4 DEF Local, Owed, Says, Active, Uncrossed, Fits, Reports
  <2>7. Bearer(r, k, e)
    BY <1>1, <1>2, <1>3, <1>4 DEF Local, Bearer, Says, Active, Uncrossed, Fits, Reports
  <2>8. Offered(r, k, e)
    BY <1>1, <1>2, <1>3, <1>4 DEF Local, Offered, Says, Active, Uncrossed, Fits, Reports
  <2>9. Asking(r, k, e)
    BY <1>1, <1>2, <1>3, <1>4 DEF Local, Asking, Says, Active, Uncrossed, Fits, Reports
  <2>10. Moving(r, k, e)
    BY <1>1, <1>2, <1>3, <1>4 DEF Local, Moving, Says, Active, Uncrossed, Fits, Reports
  <2>11. Refused(r, k, e, d)
    BY <1>1, <1>2, <1>3, <1>4 DEF Local, Refused, Says, Active, Uncrossed, Fits, Asked, Reports
  <2> QED BY <2>1, <2>2, <2>3, <2>4, <2>5, <2>6, <2>7, <2>8, <2>9, <2>10, <2>11 DEF Local
<1> QED BY <1>1, <1>2, <1>3, <1>4, <1>5 DEF r, k

LEMMA RoamingErrorLocal ==
  ASSUME NEW s \in Session, NEW cl \in Client, NEW e \in Entries, NEW b \in Blacks,
         Local(s, cl, e, b),
         NEW a \in {"Propagate", "Ignore"}, NEW f \in Conn, NEW d \in Blacks,
         Reports(cl, "recovering"), ~s.choose, s.perr = None, s.reply = "none", b \subseteq d,
         f.iap = NoIap /\ f.state = "Idle",
         e # None /\ f.snap = e.snap /\ e.state = "Roaming"
  PROVE  /\ Local([s EXCEPT !.hold = FALSE, !.stored = None, !.perr = None, !.reply = a],
                  [cl EXCEPT !.phase = "recovering"], f, d)
         /\ [s EXCEPT !.hold = FALSE, !.stored = None, !.perr = None, !.reply = a] \in Session
         /\ [cl EXCEPT !.phase = "recovering"] \in Client
<1> DEFINE r == [s EXCEPT !.hold = FALSE, !.stored = None, !.perr = None, !.reply = a]
           k == [cl EXCEPT !.phase = "recovering"]
<1>1. /\ r.open = s.open /\ r.sel = s.sel /\ r.scanning = s.scanning /\ r.choose = s.choose
      /\ r.perr = None /\ r.wait = s.wait /\ r.reg = s.reg /\ r.hold = FALSE /\ r.stored = None
      /\ r.confirm = s.confirm /\ r.migrateIap = s.migrateIap /\ r.lastNotified = s.lastNotified
      /\ r.offers = s.offers /\ r.sdlg = s.sdlg /\ r.rdlg = s.rdlg /\ r.reply = a
      /\ r.note = s.note
  BY DEF Session
<1>2. /\ k.phase = "recovering" /\ k.mob = cl.mob /\ k.iap = cl.iap /\ k.pref = cl.pref
      /\ k.stored = cl.stored /\ k.refused = cl.refused
  BY DEF Client
<1>3. r \in Session
  BY ZenonT(40) DEF Session
<1>4. k \in Client
  BY DEF Client
<1>5. f # None /\ f \in Entries
  BY ConstantsAssumption DEF Entries
<1>6. \A i \in cl.refused : Uncrossed(s, cl) => i # NoIap
  BY ZenonT(40), ConstantsAssumption DEF Local, Refused, Blacks
<1> HIDE DEF r, k
<1>7. Local(r, k, f, d)
  <2>1. Asked(r, k)
    BY <1>1, <1>2, <1>3, <1>4, <1>5, <1>6 DEF Local, Asked, Says, Active, Uncrossed, Fits, Reports
  <2>2. Choosing(r, k)
    BY <1>1, <1>2, <1>3, <1>4, <1>5, <1>6 DEF Local, Choosing, Says, Active, Uncrossed, Fits, Reports
  <2>3. Granted(r, k, f)
    BY <1>1, <1>2, <1>3, <1>4, <1>5, <1>6 DEF Local, Granted, Says, Active, Uncrossed, Fits, Reports
  <2>4. NotMobile(r, k, f)
    BY <1>1, <1>2, <1>3, <1>4, <1>5, <1>6 DEF Local, NotMobile, Says, Active, Uncrossed, Fits, Reports, Entry
  <2>5. Entry(r, k, f)
    BY <1>1, <1>2, <1>3, <1>4, <1>5, <1>6 DEF Local, Entry, Says, Active, Uncrossed, Fits, Reports
  <2>6. Owed(r, k)
    BY <1>1, <1>2, <1>3, <1>4, <1>5, <1>6 DEF Local, Owed, Says, Active, Uncrossed, Fits, Reports
  <2>7. Bearer(r, k, f)
    BY <1>1, <1>2, <1>3, <1>4, <1>5, <1>6 DEF Local, Bearer, Says, Active, Uncrossed, Fits, Reports
  <2>8. Offered(r, k, f)
    BY <1>1, <1>2, <1>3, <1>4, <1>5, <1>6 DEF Local, Offered, Says, Active, Uncrossed, Fits, Reports, Entry
  <2>9. Asking(r, k, f)
    BY <1>1, <1>2, <1>3, <1>4, <1>5, <1>6 DEF Local, Asking, Says, Active, Uncrossed, Fits, Reports
  <2>10. Moving(r, k, f)
    BY <1>1, <1>2, <1>3, <1>4, <1>5, <1>6 DEF Local, Moving, Says, Active, Uncrossed, Fits, Reports
  <2>11. Refused(r, k, f, d)
    BY <1>1, <1>2, <1>3, <1>4, <1>5, <1>6 DEF Local, Refused, Says, Active, Uncrossed, Fits, Asked, Reports
  <2> QED BY <2>1, <2>2, <2>3, <2>4, <2>5, <2>6, <2>7, <2>8, <2>9, <2>10, <2>11 DEF Local
<1> QED BY <1>1, <1>2, <1>3, <1>4, <1>5, <1>6, <1>7 DEF r, k

\* It is held until a scan ends.
LEMMA ScannedErrorLocal ==
  ASSUME NEW s \in Session, NEW cl \in Client, NEW e \in Entries, NEW b \in Blacks,
         Local(s, cl, e, b),
         NEW a \in Errors, NEW d \in Blacks,
         Reports(cl, "recovering"), ~s.choose, s.perr = None, s.reply = "none", b \subseteq d,
         s.reg, e # None, e.snap, e.state = "Started"
  PROVE  /\ Local([s EXCEPT !.perr = a], [cl EXCEPT !.phase = "recovering"], e, d)
         /\ [s EXCEPT !.perr = a] \in Session
         /\ [cl EXCEPT !.phase = "recovering"] \in Client
<1> DEFINE r == [s EXCEPT !.perr = a]
           k == [cl EXCEPT !.phase = "recovering"]
<1>1. /\ r.open = s.open /\ r.sel = s.sel /\ r.scanning = s.scanning /\ r.choose = s.choose
      /\ r.perr = a /\ r.wait = s.wait /\ r.reg = s.reg /\ r.hold = s.hold /\ r.stored = s.stored
      /\ r.confirm = s.confirm /\ r.migrateIap = s.migrateIap /\ r.lastNotified = s.lastNotified
      /\ r.offers = s.offers /\ r.sdlg = s.sdlg /\ r.rdlg = s.rdlg /\ r.reply = s.reply
      /\ r.note = s.note
  BY DEF Session
<1>2. /\ k.phase = "recovering" /\ k.mob = cl.mob /\ k.iap = cl.iap /\ k.pref = cl.pref
      /\ k.stored = cl.stored /\ k.refused = cl.refused
  BY DEF Client
<1>3. r \in Session
  BY DEF Session
<1>4. k \in Client
  BY DEF Client
<1>5. a # None
  BY ConstantsAssumption
<1> HIDE DEF r, k
<1>6. Local(r, k, e, d)
  <2>1. Asked(r, k)
    BY <1>1, <1>2, <1>3, <1>4, <1>5 DEF Local, Asked, Says, Active, Uncrossed, Fits, Reports
  <2>2. Choosing(r, k)
    BY <1>1, <1>2, <1>3, <1>4, <1>5 DEF Local, Choosing, Says, Active, Uncrossed, Fits, Reports
  <2>3. Granted(r, k, e)
    BY <1>1, <1>2, <1>3, <1>4, <1>5 DEF Local, Granted, Says, Active, Uncrossed, Fits, Reports
  <2>4. NotMobile(r, k, e)
    BY <1>1, <1>2, <1>3, <1>4, <1>5 DEF Local, NotMobile, Says, Active, Uncrossed, Fits, Reports
  <2>5. Entry(r, k, e)
    BY <1>1, <1>2, <1>3, <1>4, <1>5 DEF Local, Entry, Says, Active, Uncrossed, Fits, Reports
  <2>6. Owed(r, k)
    BY <1>1, <1>2, <1>3, <1>4, <1>5 DEF Local, Owed, Says, Active, Uncrossed, Fits, Reports
  <2>7. Bearer(r, k, e)
    BY <1>1, <1>2, <1>3, <1>4, <1>5 DEF Local, Bearer, Says, Active, Uncrossed, Fits, Reports
  <2>8. Offered(r, k, e)
    BY <1>1, <1>2, <1>3, <1>4, <1>5 DEF Local, Offered, Says, Active, Uncrossed, Fits, Reports
  <2>9. Asking(r, k, e)
    BY <1>1, <1>2, <1>3, <1>4, <1>5 DEF Local, Asking, Says, Active, Uncrossed, Fits, Reports
  <2>10. Moving(r, k, e)
    BY <1>1, <1>2, <1>3, <1>4, <1>5 DEF Local, Moving, Says, Active, Uncrossed, Fits, Reports
  <2>11. Refused(r, k, e, d)
    BY <1>1, <1>2, <1>3, <1>4, <1>5 DEF Local, Refused, Says, Active, Uncrossed, Fits, Asked, Reports
  <2> QED BY <2>1, <2>2, <2>3, <2>4, <2>5, <2>6, <2>7, <2>8, <2>9, <2>10, <2>11 DEF Local
<1> QED BY <1>1, <1>2, <1>3, <1>4, <1>5, <1>6 DEF r, k

\* The scan for an error has ended.
LEMMA ScanEndsLocal ==
  ASSUME NEW s \in Session, NEW cl \in Client, NEW e \in Entries, NEW b \in Blacks,
         Local(s, cl, e, b),
         NEW a \in {"Propagate", "Ignore"},
         s.perr # None
  PROVE  /\ Local([s EXCEPT !.perr = None, !.reply = a], cl, e, b)
         /\ [s EXCEPT !.perr = None, !.reply = a] \in Session
<1> DEFINE r == [s EXCEPT !.perr = None, !.reply = a]
<1>1. /\ r.open = s.open /\ r.sel = s.sel /\ r.scanning = s.scanning /\ r.choose = s.choose
      /\ r.perr = None /\ r.wait = s.wait /\ r.reg = s.reg /\ r.hold = s.hold
      /\ r.stored = s.stored /\ r.confirm = s.confirm /\ r.migrateIap = s.migrateIap
      /\ r.lastNotified = s.lastNotified /\ r.offers = s.offers /\ r.sdlg = s.sdlg
      /\ r.rdlg = s.rdlg /\ r.reply = a /\ r.note = s.note
  BY DEF Session
<1>2. r \in Session
  BY DEF Session
<1>3. ~s.choose /\ ~s.scanning /\ s.sdlg = None /\ cl.phase \in {"recovering", "down"}
  BY DEF Local, Granted, Choosing
<1> HIDE DEF r
<1>4. Local(r, cl, e, b)
  <2>1. Asked(r, cl)
    BY <1>1, <1>2, <1>3 DEF Local, Asked, Says, Active, Uncrossed, Fits
  <2>2. Choosing(r, cl)
    BY <1>1, <1>2, <1>3 DEF Local, Choosing, Says, Active, Uncrossed, Fits
  <2>3. Granted(r, cl, e)
    BY <1>1, <1>2, <1>3 DEF Local, Granted, Says, Active, Uncrossed, Fits
  <2>4. NotMobile(r, cl, e)
    BY <1>1, <1>2, <1>3 DEF Local, NotMobile, Says, Active, Uncrossed, Fits
  <2>5. Entry(r, cl, e)
    BY <1>1, <1>2, <1>3 DEF Local, Entry, Says, Active, Uncrossed, Fits
  <2>6. Owed(r, cl)
    BY <1>1, <1>2, <1>3 DEF Local, Owed, Says, Active, Uncrossed, Fits
  <2>7. Bearer(r, cl, e)
    BY <1>1, <1>2, <1>3 DEF Local, Bearer, Says, Active, Uncrossed, Fits
  <2>8. Offered(r, cl, e)
    BY <1>1, <1>2, <1>3 DEF Local, Offered, Says, Active, Uncrossed, Fits
  <2>9. Asking(r, cl, e)
    BY <1>1, <1>2, <1>3 DEF Local, Asking, Says, Active, Uncrossed, Fits
  <2>10. Moving(r, cl, e)
    BY <1>1, <1>2, <1>3 DEF Local, Moving, Says, Active, Uncrossed, Fits
  <2>11. Refused(r, cl, e, b)
    BY <1>1, <1>2, <1>3 DEF Local, Refused, Says, Active, Uncrossed, Fits, Asked
  <2> QED BY <2>1, <2>2, <2>3, <2>4, <2>5, <2>6, <2>7, <2>8, <2>9, <2>10, <2>11 DEF Local
<1> QED BY <1>1, <1>2, <1>3, <1>4 DEF r

LEMMA CancelErrorLocal ==
  ASSUME NEW s \in Session, NEW cl \in Client, NEW e \in Entries, NEW b \in Blacks,
         Local(s, cl, e, b),
         s.perr # None
  PROVE  /\ Local([s EXCEPT !.perr = None], [cl EXCEPT !.phase = "down"], e, b)
         /\ [s EXCEPT !.perr = None] \in Session
         /\ [cl EXCEPT !.phase = "down"] \in Client
<1> DEFINE r == [s EXCEPT !.perr = None]
           k == [cl EXCEPT !.phase = "down"]
<1>1. /\ r.open = s.open /\ r.sel = s.sel /\ r.scanning = s.scanning /\ r.choose = s.choose
      /\ r.perr = None /\ r.wait = s.wait /\ r.reg = s.reg /\ r.hold = s.hold
      /\ r.stored = s.stored /\ r.confirm = s.confirm /\ r.migrateIap = s.migrateIap
      /\ r.lastNotified = s.lastNotified /\ r.offers = s.offers /\ r.sdlg = s.sdlg
      /\ r.rdlg = s.rdlg /\ r.reply = s.reply /\ r.note = s.note
  BY DEF Session
<1>2. /\ k.phase = "down" /\ k.mob = cl.mob /\ k.iap = cl.iap /\ k.pref = cl.pref
      /\ k.stored = cl.stored /\ k.refused = cl.refused
  BY DEF Client
<1>3. r \in Session
  BY DEF Session
<1>4. k \in Client
  BY DEF Client
<1>5. ~s.choose /\ ~s.scanning /\ s.sdlg = None /\ cl.phase \in {"recovering", "down"}
  BY DEF Local, Granted, Choosing
<1> HIDE DEF r, k
<1>6. Local(r, k, e, b)
  <2>1. Asked(r, k)
    BY <1>1, <1>2, <1>3, <1>4, <1>5 DEF Local, Asked, Says, Active, Uncrossed, Fits
  <2>2. Choosing(r, k)
    BY <1>1, <1>2, <1>3, <1>4, <1>5 DEF Local, Choosing, Says, Active, Uncrossed, Fits
  <2>3. Granted(r, k, e)
    BY <1>1, <1>2, <1>3, <1>4, <1>5 DEF Local, Granted, Says, Active, Uncrossed, Fits
  <2>4. NotMobile(r, k, e)
    BY <1>1, <1>2, <1>3, <1>4, <1>5 DEF Local, NotMobile, Says, Active, Uncrossed, Fits
  <2>5. Entry(r, k, e)
    BY <1>1, <1>2, <1>3, <1>4, <1>5 DEF Local, Entry, Says, Active, Uncrossed, Fits
  <2>6. Owed(r, k)
    BY <1>1, <1>2, <1>3, <1>4, <1>5 DEF Local, Owed, Says, Active, Uncrossed, Fits
  <2>7. Bearer(r, k, e)
    BY <1>1, <1>2, <1>3, <1>4, <1>5 DEF Local, Bearer, Says, Active, Uncrossed, Fits
  <2>8. Offered(r, k, e)
    BY <1>1, <1>2, <1>3, <1>4, <1>5 DEF Local, Offered, Says, Active, Uncrossed, Fits
  <2>9. Asking(r, k, e)
    BY <1>1, <1>2, <1>3, <1>4, <1>5 DEF Local, Asking, Says, Active, Uncrossed, Fits
  <2>10. Moving(r, k, e)
    BY <1>1, <1>2, <1>3, <1>4, <1>5 DEF Local, Moving, Says, Active, Uncrossed, Fits
  <2>11. Refused(r, k, e, b)
    BY <1>1, <1>2, <1>3, <1>4, <1>5 DEF Local, Refused, Says, Active, Uncrossed, Fits, Asked
  <2> QED BY <2>1, <2>2, <2>3, <2>4, <2>5, <2>6, <2>7, <2>8, <2>9, <2>10, <2>11 DEF Local
<1> QED BY <1>1, <1>2, <1>3, <1>4, <1>5, <1>6 DEF r, k

LEMMA RegisterLocal ==
  ASSUME NEW s \in Session, NEW cl \in Client, NEW e \in Entries, NEW b \in Blacks,
         Local(s, cl, e, b),
         cl.phase = "up", cl.mob = "off"
  PROVE  /\ Local([s EXCEPT !.reg = TRUE], [cl EXCEPT !.mob = "wait"], e, b)
         /\ [s EXCEPT !.reg = TRUE] \in Session
         /\ [cl EXCEPT !.mob = "wait"] \in Client
<1> DEFINE r == [s EXCEPT !.reg = TRUE]
           k == [cl EXCEPT !.mob = "wait"]
<1>1. /\ r.open = s.open /\ r.sel = s.sel /\ r.scanning = s.scanning /\ r.choose = s.choose
      /\ r.perr = s.perr /\ r.wait = s.wait /\ r.reg = TRUE /\ r.hold = s.hold
      /\ r.stored = s.stored /\ r.confirm = s.confirm /\ r.migrateIap = s.migrateIap
      /\ r.lastNotified = s.lastNotified /\ r.offers = s.offers /\ r.sdlg = s.sdlg
      /\ r.rdlg = s.rdlg /\ r.reply = s.reply /\ r.note = s.note
  BY DEF Session
<1>2. /\ k.phase = cl.phase /\ k.mob = "wait" /\ k.iap = cl.iap /\ k.pref = cl.pref
      /\ k.stored = cl.stored /\ k.refused = cl.refused
  BY DEF Client
<1>3. r \in Session
  BY DEF Session
<1>4. k \in Client
  BY DEF Client
<1>5. /\ ~s.reg /\ ~s.hold /\ ~s.confirm /\ s.rdlg = None
      /\ s.lastNotified = NoIap /\ s.offers = 0 /\ cl.refused = {}
      /\ ~Says(s.note, "pref") /\ ~Says(s.note, "start")
      /\ ~Says(cl.stored, "pref") /\ ~Says(cl.stored, "start")
  BY DEF Local, NotMobile
<1>6. e # None /\ e.state = "Started"
  BY DEF Local, NotMobile, Active
<1> HIDE DEF r, k
<1>7. Local(r, k, e, b)
  <2>1. Asked(r, k)
    BY <1>1, <1>2, <1>3, <1>4, <1>5, <1>6 DEF Local, Asked, Says, Active, Uncrossed, Fits
  <2>2. Choosing(r, k)
    BY <1>1, <1>2, <1>3, <1>4, <1>5, <1>6 DEF Local, Choosing, Says, Active, Uncrossed, Fits
  <2>3. Granted(r, k, e)
    BY <1>1, <1>2, <1>3, <1>4, <1>5, <1>6 DEF Local, Granted, Says, Active, Uncrossed, Fits
  <2>4. NotMobile(r, k, e)
    BY <1>1, <1>2, <1>3, <1>4, <1>5, <1>6 DEF Local, NotMobile, Says, Active, Uncrossed, Fits
  <2>5. Entry(r, k, e)
    BY <1>1, <1>2, <1>3, <1>4, <1>5, <1>6 DEF Local, Entry, Says, Active, Uncrossed, Fits
  <2>6. Owed(r, k)
    BY <1>1, <1>2, <1>3, <1>4, <1>5, <1>6 DEF Local, Owed, Says, Active, Uncrossed, Fits
  <2>7. Bearer(r, k, e)
    BY <1>1, <1>2, <1>3, <1>4, <1>5, <1>6 DEF Local, Bearer, Says, Active, Uncrossed, Fits
  <2>8. Offered(r, k, e)
    BY <1>1, <1>2, <1>3, <1>4, <1>5, <1>6 DEF Local, Offered, Says, Active, Uncrossed, Fits
  <2>9. Asking(r, k, e)
    BY <1>1, <1>2, <1>3, <1>4, <1>5, <1>6 DEF Local, Asking, Says, Active, Uncrossed, Fits
  <2>10. Moving(r, k, e)
    BY <1>1, <1>2, <1>3, <1>4, <1>5, <1>6 DEF Local, Moving, Says, Active, Uncrossed, Fits
  <2>11. Refused(r, k, e, b)
    BY <1>1, <1>2, <1>3, <1>4, <1>5, <1>6 DEF Local, Refused, Says, Active, Uncrossed, Fits, Asked
  <2> QED BY <2>1, <2>2, <2>3, <2>4, <2>5, <2>6, <2>7, <2>8, <2>9, <2>10, <2>11 DEF Local
<1> QED BY <1>1, <1>2, <1>3, <1>4, <1>5, <1>6, <1>7 DEF r, k

LEMMA UnregisterLocal ==
  ASSUME NEW s \in Session, NEW cl \in Client, NEW e \in Entries, NEW b \in Blacks,
         Local(s, cl, e, b),
         ~s.choose, s.perr = None, s.reply = "none",
         \/ cl.mob = "leaving"
         \/ cl.phase = "up" /\ cl.mob \in {"wait", "response", "decide"}
         \/ cl.phase \in {"down", "left", "ended"}
  PROVE  /\ Local([s EXCEPT !.reg = FALSE, !.lastNotified = NoIap],
                  [cl EXCEPT !.mob = "stopped", !.refused = {}], e, {})
         /\ [s EXCEPT !.reg = FALSE, !.lastNotified = NoIap] \in Session
         /\ [cl EXCEPT !.mob = "stopped", !.refused = {}] \in Client
<1> DEFINE r == [s EXCEPT !.reg = FALSE, !.lastNotified = NoIap]
           k == [cl EXCEPT !.mob = "stopped", !.refused = {}]
<1>1. /\ r.open = s.open /\ r.sel = s.sel /\ r.scanning = s.scanning /\ r.choose = s.choose
      /\ r.perr = s.perr /\ r.wait = s.wait /\ r.reg = FALSE /\ r.hold = s.hold
      /\ r.stored = s.stored /\ r.confirm = s.confirm /\ r.migrateIap = s.migrateIap
      /\ r.lastNotified = NoIap /\ r.offers = s.offers /\ r.sdlg = s.sdlg /\ r.rdlg = s.rdlg
      /\ r.reply = s.reply /\ r.note = s.note
  BY DEF Session
<1>2. /\ k.phase = cl.phase /\ k.mob = "stopped" /\ k.iap = cl.iap /\ k.pref = cl.pref
      /\ k.stored = cl.stored /\ k.refused = {}
  BY DEF Client
<1>3. r \in Session
  BY ZenonT(40) DEF Session, IapOrNone
<1>4. k \in Client
  BY DEF Client
<1> HIDE DEF r, k
<1>5. Local(r, k, e, {})
  <2>1. Asked(r, k)
    BY <1>1, <1>2, <1>3, <1>4 DEF Local, Asked, Says, Active, Uncrossed, Fits
  <2>2. Choosing(r, k)
    BY <1>1, <1>2, <1>3, <1>4 DEF Local, Choosing, Says, Active, Uncrossed, Fits
  <2>3. Granted(r, k, e)
    BY <1>1, <1>2, <1>3, <1>4 DEF Local, Granted, Says, Active, Uncrossed, Fits
  <2>4. NotMobile(r, k, e)
    BY <1>1, <1>2, <1>3, <1>4 DEF Local, NotMobile, Says, Active, Uncrossed, Fits
  <2>5. Entry(r, k, e)
    BY <1>1, <1>2, <1>3, <1>4 DEF Local, Entry, Says, Active, Uncrossed, Fits
  <2>6. Owed(r, k)
    BY <1>1, <1>2, <1>3, <1>4 DEF Local, Owed, Says, Active, Uncrossed, Fits
  <2>7. Bearer(r, k, e)
    BY <1>1, <1>2, <1>3, <1>4 DEF Local, Bearer, Says, Active, Uncrossed, Fits
  <2>8. Offered(r, k, e)
    BY <1>1, <1>2, <1>3, <1>4 DEF Local, Offered, Says, Active, Uncrossed, Fits
  <2>9. Asking(r, k, e)
    BY <1>1, <1>2, <1>3, <1>4 DEF Local, Asking, Says, Active, Uncrossed, Fits
  <2>10. Moving(r, k, e)
    BY <1>1, <1>2, <1>3, <1>4 DEF Local, Moving, Says, Active, Uncrossed, Fits
  <2>11. Refused(r, k, e, {})
    BY <1>1, <1>2, <1>3, <1>4 DEF Local, Refused, Says, Active, Uncrossed, Fits, Asked
  <2> QED BY <2>1, <2>2, <2>3, <2>4, <2>5, <2>6, <2>7, <2>8, <2>9, <2>10, <2>11 DEF Local
<1> QED BY <1>1, <1>2, <1>3, <1>4, <1>5 DEF r, k

------------------------------------------------------------------------------
(* Starting, migrating and answering an offer *)

\* The notification to start an IAP.
LEMMA StartLocal ==
  ASSUME NEW s \in Session, NEW cl \in Client, NEW e \in Entries, NEW b \in Blacks,
         Local(s, cl, e, b),
         NEW i \in IapOrNone,
         s.wait,
         Uncrossed(s, cl) => cl.mob = "response" /\ e # None /\ e.state = "Roaming" /\ e.iap = i /\ cl.pref = i,
         Uncrossed(s, cl) => ~s.confirm /\ s.rdlg = None,
         cl.mob # "off", cl.pref # NoIap
  PROVE  /\ Local([s EXCEPT !.hold = TRUE, !.wait = FALSE, !.note = [type |-> "start", iap |-> i]], cl, e, b)
         /\ [s EXCEPT !.hold = TRUE, !.wait = FALSE, !.note = [type |-> "start", iap |-> i]] \in Session
<1> DEFINE r == [s EXCEPT !.hold = TRUE, !.wait = FALSE, !.note = [type |-> "start", iap |-> i]]
<1>0. [type |-> "start", iap |-> i] \in Note
  BY DEF Note
<1>1. /\ r.open = s.open /\ r.sel = s.sel /\ r.scanning = s.scanning /\ r.choose = s.choose
      /\ r.perr = s.perr /\ r.wait = FALSE /\ r.reg = s.reg /\ r.hold = TRUE
      /\ r.stored = s.stored /\ r.confirm = s.confirm /\ r.migrateIap = s.migrateIap
      /\ r.lastNotified = s.lastNotified /\ r.offers = s.offers /\ r.sdlg = s.sdlg
      /\ r.rdlg = s.rdlg /\ r.reply = s.reply /\ r.note = [type |-> "start", iap |-> i]
  BY DEF Session
<1>2. r \in Session
  BY <1>0 DEF Session
<1>3. [type |-> "start", iap |-> i] # None
  BY ConstantsAssumption DEF Note
<1> HIDE DEF r
<1>4. Local(r, cl, e, b)
  <2>1. Asked(r, cl)
    BY <1>0, <1>1, <1>2, <1>3 DEF Local, Asked, Says, Active, Uncrossed, Fits
  <2>2. Choosing(r, cl)
    BY <1>0, <1>1, <1>2, <1>3 DEF Local, Choosing, Says, Active, Uncrossed, Fits
  <2>3. Granted(r, cl, e)
    BY <1>0, <1>1, <1>2, <1>3 DEF Local, Granted, Says, Active, Uncrossed, Fits
  <2>4. NotMobile(r, cl, e)
    BY <1>0, <1>1, <1>2, <1>3 DEF Local, NotMobile, Says, Active, Uncrossed, Fits
  <2>5. Entry(r, cl, e)
    BY <1>0, <1>1, <1>2, <1>3 DEF Local, Entry, Says, Active, Uncrossed, Fits
  <2>6. Owed(r, cl)
    BY <1>0, <1>1, <1>2, <1>3 DEF Local, Owed, Says, Active, Uncrossed, Fits
  <2>7. Bearer(r, cl, e)
    BY <1>0, <1>1, <1>2, <1>3 DEF Local, Bearer, Says, Active, Uncrossed, Fits
  <2>8. Offered(r, cl, e)
    BY <1>0, <1>1, <1>2, <1>3 DEF Local, Offered, Says, Active, Uncrossed, Fits
  <2>9. Asking(r, cl, e)
    BY <1>0, <1>1, <1>2, <1>3 DEF Local, Asking, Says, Active, Uncrossed, Fits
  <2>10. Moving(r, cl, e)
    BY <1>0, <1>1, <1>2, <1>3 DEF Local, Moving, Says, Active, Uncrossed, Fits
  <2>11. Refused(r, cl, e, b)
    BY <1>0, <1>1, <1>2, <1>3 DEF Local, Refused, Says, Active, Uncrossed, Fits, Asked
  <2> QED BY <2>1, <2>2, <2>3, <2>4, <2>5, <2>6, <2>7, <2>8, <2>9, <2>10, <2>11 DEF Local
<1> QED BY <1>0, <1>1, <1>2, <1>3, <1>4 DEF r

\* The node answers an offer: it migrates.
LEMMA MigratesLocal ==
  ASSUME NEW s \in Session, NEW cl \in Client, NEW e \in Entries, NEW b \in Blacks,
         Local(s, cl, e, b),
         NEW k \in Client, NEW f \in Conn,
         NEW o, o = IF s.offers = 1 THEN 0 ELSE s.offers,
         cl.phase = "up", cl.mob = "offered", Waits(cl, k), ~s.choose, s.perr = None, s.reply = "none",
         e # None /\ f.snap = e.snap /\ f.iap = cl.pref /\ f.state = "Roaming"
  PROVE  /\ Local([s EXCEPT !.migrateIap = NoIap, !.confirm = FALSE, !.rdlg = None, !.offers = o], k, f, b)
         /\ [s EXCEPT !.migrateIap = NoIap, !.confirm = FALSE, !.rdlg = None, !.offers = o] \in Session
<1> DEFINE r == [s EXCEPT !.migrateIap = NoIap, !.confirm = FALSE, !.rdlg = None, !.offers = o]
<1>0. s.offers \in 0..2 /\ o \in 0..2 /\ NoIap \in IapOrNone /\ cl.pref \in IapOrNone
  BY DEF Session, Client, IapOrNone
<1>1. /\ r.open = s.open /\ r.sel = s.sel /\ r.scanning = s.scanning /\ r.choose = s.choose
      /\ r.perr = s.perr /\ r.wait = s.wait /\ r.reg = s.reg /\ r.hold = s.hold
      /\ r.stored = s.stored /\ r.confirm = FALSE /\ r.migrateIap = NoIap
      /\ r.lastNotified = s.lastNotified /\ r.offers = o /\ r.sdlg = s.sdlg /\ r.rdlg = None
      /\ r.reply = s.reply /\ r.note = s.note
  BY DEF Session
<1>2. r \in Session
  <2>1. \A x \in 0..2, i \in IapOrNone :
          [s EXCEPT !.migrateIap = i, !.confirm = FALSE, !.rdlg = None, !.offers = x] \in Session
    BY ZenonT(40) DEF Session
  <2> QED BY <1>0, <2>1
<1>3. f # None /\ f \in Entries
  BY ConstantsAssumption DEF Entries
<1>4. cl.pref # NoIap /\ s.reg
  BY DEF Local, Entry, Active
<1>5. Uncrossed(s, cl) =>
        /\ Fits(cl.pref, s, cl, e) /\ ~Says(s.note, "pref") /\ ~Says(s.note, "start")
        /\ ~Says(cl.stored, "pref") /\ ~Says(cl.stored, "start")
  BY DEF Local, Offered, Moving
<1> HIDE DEF r
<1>6. Local(r, k, f, b)
  <2>1. Asked(r, k)
    BY <1>0, <1>1, <1>2, <1>3, <1>4, <1>5 DEF Local, Asked, Says, Active, Uncrossed, Fits, Waits
  <2>2. Choosing(r, k)
    BY <1>0, <1>1, <1>2, <1>3, <1>4, <1>5 DEF Local, Choosing, Says, Active, Uncrossed, Fits, Waits
  <2>3. Granted(r, k, f)
    BY <1>0, <1>1, <1>2, <1>3, <1>4, <1>5 DEF Local, Granted, Says, Active, Uncrossed, Fits, Waits
  <2>4. NotMobile(r, k, f)
    BY <1>0, <1>1, <1>2, <1>3, <1>4, <1>5 DEF Local, NotMobile, Says, Active, Uncrossed, Fits, Waits
  <2>5. Entry(r, k, f)
    BY <1>0, <1>1, <1>2, <1>3, <1>4, <1>5 DEF Local, Entry, Says, Active, Uncrossed, Fits, Waits
  <2>6. Owed(r, k)
    BY <1>0, <1>1, <1>2, <1>3, <1>4, <1>5 DEF Local, Owed, Says, Active, Uncrossed, Fits, Waits
  <2>7. Bearer(r, k, f)
    BY <1>0, <1>1, <1>2, <1>3, <1>4, <1>5 DEF Local, Bearer, Says, Active, Uncrossed, Fits, Waits
  <2>8. Offered(r, k, f)
    BY <1>0, <1>1, <1>2, <1>3, <1>4, <1>5 DEF Local, Offered, Says, Active, Uncrossed, Fits, Waits
  <2>9. Asking(r, k, f)
    BY <1>0, <1>1, <1>2, <1>3, <1>4, <1>5 DEF Local, Asking, Says, Active, Uncrossed, Fits, Waits
  <2>10. Moving(r, k, f)
    BY <1>0, <1>1, <1>2, <1>3, <1>4, <1>5 DEF Local, Moving, Says, Active, Uncrossed, Fits, Waits
  <2>11. Refused(r, k, f, b)
    BY <1>0, <1>1, <1>2, <1>3, <1>4, <1>5 DEF Local, Refused, Says, Active, Uncrossed, Fits, Asked, Waits
  <2> QED BY <2>1, <2>2, <2>3, <2>4, <2>5, <2>6, <2>7, <2>8, <2>9, <2>10, <2>11 DEF Local
<1> QED BY <1>0, <1>1, <1>2, <1>3, <1>4, <1>5, <1>6 DEF r

\* It is to migrate, and the user is asked whether it may.
LEMMA AsksLocal ==
  ASSUME NEW s \in Session, NEW cl \in Client, NEW e \in Entries, NEW b \in Blacks,
         Local(s, cl, e, b),
         NEW k \in Client, NEW f \in Conn, NEW dlg \in RoamingDlg,
         NEW o, o = IF s.offers = 1 THEN 0 ELSE s.offers,
         cl.phase = "up", cl.mob = "offered", Waits(cl, k), ~s.choose, s.perr = None, s.reply = "none",
         e # None /\ f.snap = e.snap /\ f.iap = cl.pref /\ f.state = "Roaming", dlg.iap = cl.pref
  PROVE  /\ Local([s EXCEPT !.migrateIap = cl.pref, !.confirm = TRUE, !.rdlg = dlg, !.offers = o], k, f, b)
         /\ [s EXCEPT !.migrateIap = cl.pref, !.confirm = TRUE, !.rdlg = dlg, !.offers = o] \in Session
<1> DEFINE r == [s EXCEPT !.migrateIap = cl.pref, !.confirm = TRUE, !.rdlg = dlg, !.offers = o]
<1>0. s.offers \in 0..2 /\ o \in 0..2 /\ NoIap \in IapOrNone /\ cl.pref \in IapOrNone
  BY DEF Session, Client, IapOrNone
<1>1. /\ r.open = s.open /\ r.sel = s.sel /\ r.scanning = s.scanning /\ r.choose = s.choose
      /\ r.perr = s.perr /\ r.wait = s.wait /\ r.reg = s.reg /\ r.hold = s.hold
      /\ r.stored = s.stored /\ r.confirm = TRUE /\ r.migrateIap = cl.pref
      /\ r.lastNotified = s.lastNotified /\ r.offers = o /\ r.sdlg = s.sdlg /\ r.rdlg = dlg
      /\ r.reply = s.reply /\ r.note = s.note
  BY DEF Session
<1>2. r \in Session
  BY ZenonT(40), <1>0 DEF Session
<1>3. f # None /\ f \in Entries
  BY ConstantsAssumption DEF Entries
<1>4. cl.pref # NoIap /\ s.reg
  BY DEF Local, Entry, Active
<1>5. Uncrossed(s, cl) =>
        /\ Fits(cl.pref, s, cl, e) /\ ~Says(s.note, "pref") /\ ~Says(s.note, "start")
        /\ ~Says(cl.stored, "pref") /\ ~Says(cl.stored, "start")
  BY DEF Local, Offered, Moving
<1>6. dlg # None
  BY ConstantsAssumption
<1> HIDE DEF r
<1>7. Local(r, k, f, b)
  <2>1. Asked(r, k)
    BY <1>0, <1>1, <1>2, <1>3, <1>4, <1>5, <1>6 DEF Local, Asked, Says, Active, Uncrossed, Fits, Waits
  <2>2. Choosing(r, k)
    BY <1>0, <1>1, <1>2, <1>3, <1>4, <1>5, <1>6 DEF Local, Choosing, Says, Active, Uncrossed, Fits, Waits
  <2>3. Granted(r, k, f)
    BY <1>0, <1>1, <1>2, <1>3, <1>4, <1>5, <1>6 DEF Local, Granted, Says, Active, Uncrossed, Fits, Waits
  <2>4. NotMobile(r, k, f)
    BY <1>0, <1>1, <1>2, <1>3, <1>4, <1>5, <1>6 DEF Local, NotMobile, Says, Active, Uncrossed, Fits, Waits
  <2>5. Entry(r, k, f)
    BY <1>0, <1>1, <1>2, <1>3, <1>4, <1>5, <1>6 DEF Local, Entry, Says, Active, Uncrossed, Fits, Waits
  <2>6. Owed(r, k)
    BY <1>0, <1>1, <1>2, <1>3, <1>4, <1>5, <1>6 DEF Local, Owed, Says, Active, Uncrossed, Fits, Waits
  <2>7. Bearer(r, k, f)
    BY <1>0, <1>1, <1>2, <1>3, <1>4, <1>5, <1>6 DEF Local, Bearer, Says, Active, Uncrossed, Fits, Waits
  <2>8. Offered(r, k, f)
    BY <1>0, <1>1, <1>2, <1>3, <1>4, <1>5, <1>6 DEF Local, Offered, Says, Active, Uncrossed, Fits, Waits
  <2>9. Asking(r, k, f)
    BY <1>0, <1>1, <1>2, <1>3, <1>4, <1>5, <1>6 DEF Local, Asking, Says, Active, Uncrossed, Fits, Waits
  <2>10. Moving(r, k, f)
    BY <1>0, <1>1, <1>2, <1>3, <1>4, <1>5, <1>6 DEF Local, Moving, Says, Active, Uncrossed, Fits, Waits
  <2>11. Refused(r, k, f, b)
    BY <1>0, <1>1, <1>2, <1>3, <1>4, <1>5, <1>6 DEF Local, Refused, Says, Active, Uncrossed, Fits, Asked, Waits
  <2> QED BY <2>1, <2>2, <2>3, <2>4, <2>5, <2>6, <2>7, <2>8, <2>9, <2>10, <2>11 DEF Local
<1> QED BY <1>0, <1>1, <1>2, <1>3, <1>4, <1>5, <1>6, <1>7 DEF r

\* It refuses an offer.
LEMMA IgnoresLocal ==
  ASSUME NEW s \in Session, NEW cl \in Client, NEW e \in Entries, NEW b \in Blacks,
         Local(s, cl, e, b),
         NEW m \in {"leaving", "wait"}, NEW d \in Blacks,
         NEW o, o = IF s.offers = 1 THEN 0 ELSE s.offers,
         cl.phase = "up", cl.mob = "offered", ~s.choose, s.perr = None, s.reply = "none",
         b \subseteq d, <<cl.pref, "EConnectionLifetime">> \in d
  PROVE  /\ Local([s EXCEPT !.hold = FALSE, !.stored = None, !.offers = o],
                  [cl EXCEPT !.mob = m, !.refused = cl.refused \cup {cl.pref}], e, d)
         /\ [s EXCEPT !.hold = FALSE, !.stored = None, !.offers = o] \in Session
         /\ [cl EXCEPT !.mob = m, !.refused = cl.refused \cup {cl.pref}] \in Client
<1> DEFINE r == [s EXCEPT !.hold = FALSE, !.stored = None, !.offers = o]
           k == [cl EXCEPT !.mob = m, !.refused = cl.refused \cup {cl.pref}]
<1>0. s.offers \in 0..2 /\ o \in 0..2 /\ NoIap \in IapOrNone /\ cl.pref \in IapOrNone
  BY DEF Session, Client, IapOrNone
<1>1. /\ r.open = s.open /\ r.sel = s.sel /\ r.scanning = s.scanning /\ r.choose = s.choose
      /\ r.perr = s.perr /\ r.wait = s.wait /\ r.reg = s.reg /\ r.hold = FALSE /\ r.stored = None
      /\ r.confirm = s.confirm /\ r.migrateIap = s.migrateIap /\ r.lastNotified = s.lastNotified
      /\ r.offers = o /\ r.sdlg = s.sdlg /\ r.rdlg = s.rdlg /\ r.reply = s.reply
      /\ r.note = s.note
  BY DEF Session
<1>2. /\ k.phase = cl.phase /\ k.mob = m /\ k.iap = cl.iap /\ k.pref = cl.pref
      /\ k.stored = cl.stored /\ k.refused = cl.refused \cup {cl.pref}
  BY DEF Client
<1>3. r \in Session
  <2>1. \A x \in 0..2 : [s EXCEPT !.hold = FALSE, !.stored = None, !.offers = x] \in Session
    BY ZenonT(40) DEF Session
  <2> QED BY <1>0, <2>1
<1>4. k \in Client
  BY ConstantsAssumption DEF Client, Blacks, Local, Entry, IapOrNone
<1>5. s.reg
  BY DEF Local, Entry, Active
<1>6. Uncrossed(s, cl) =>
        /\ Fits(cl.pref, s, cl, e) /\ ~Says(s.note, "pref") /\ ~Says(s.note, "start")
        /\ ~Says(cl.stored, "pref") /\ ~Says(cl.stored, "start")
  BY DEF Local, Offered, Moving
<1> HIDE DEF r, k
<1>7. Local(r, k, e, d)
  <2>1. Asked(r, k)
    BY <1>0, <1>1, <1>2, <1>3, <1>4, <1>5, <1>6 DEF Local, Asked, Says, Active, Uncrossed, Fits
  <2>2. Choosing(r, k)
    BY <1>0, <1>1, <1>2, <1>3, <1>4, <1>5, <1>6 DEF Local, Choosing, Says, Active, Uncrossed, Fits
  <2>3. Granted(r, k, e)
    BY <1>0, <1>1, <1>2, <1>3, <1>4, <1>5, <1>6 DEF Local, Granted, Says, Active, Uncrossed, Fits
  <2>4. NotMobile(r, k, e)
    BY <1>0, <1>1, <1>2, <1>3, <1>4, <1>5, <1>6 DEF Local, NotMobile, Says, Active, Uncrossed, Fits
  <2>5. Entry(r, k, e)
    BY <1>0, <1>1, <1>2, <1>3, <1>4, <1>5, <1>6 DEF Local, Entry, Says, Active, Uncrossed, Fits
  <2>6. Owed(r, k)
    BY <1>0, <1>1, <1>2, <1>3, <1>4, <1>5, <1>6 DEF Local, Owed, Says, Active, Uncrossed, Fits
  <2>7. Bearer(r, k, e)
    BY <1>0, <1>1, <1>2, <1>3, <1>4, <1>5, <1>6 DEF Local, Bearer, Says, Active, Uncrossed, Fits
  <2>8. Offered(r, k, e)
    BY <1>0, <1>1, <1>2, <1>3, <1>4, <1>5, <1>6 DEF Local, Offered, Says, Active, Uncrossed, Fits
  <2>9. Asking(r, k, e)
    BY <1>0, <1>1, <1>2, <1>3, <1>4, <1>5, <1>6 DEF Local, Asking, Says, Active, Uncrossed, Fits
  <2>10. Moving(r, k, e)
    BY <1>0, <1>1, <1>2, <1>3, <1>4, <1>5, <1>6 DEF Local, Moving, Says, Active, Uncrossed, Fits
  <2>11. Refused(r, k, e, d)
    BY <1>0, <1>1, <1>2, <1>3, <1>4, <1>5, <1>6 DEF Local, Refused, Says, Active, Uncrossed, Fits, Asked
  <2> QED BY <2>1, <2>2, <2>3, <2>4, <2>5, <2>6, <2>7, <2>8, <2>9, <2>10, <2>11 DEF Local
<1> QED BY <1>0, <1>1, <1>2, <1>3, <1>4, <1>5, <1>6, <1>7 DEF r, k

\* It stays with the IAP it migrated to.
LEMMA AcceptsLocal ==
  ASSUME NEW s \in Session, NEW cl \in Client, NEW e \in Entries, NEW b \in Blacks,
         Local(s, cl, e, b),
         NEW f \in Conn,
         cl.phase = "up", cl.mob = "decide",
         e # None /\ f.snap = e.snap /\ f.iap = cl.pref /\ f.state = "Started"
  PROVE  /\ Local([s EXCEPT !.hold = FALSE, !.stored = None], [cl EXCEPT !.mob = "wait"], f, b)
         /\ [s EXCEPT !.hold = FALSE, !.stored = None] \in Session
         /\ [cl EXCEPT !.mob = "wait"] \in Client
<1> DEFINE r == [s EXCEPT !.hold = FALSE, !.stored = None]
           k == [cl EXCEPT !.mob = "wait"]
<1>1. /\ r.open = s.open /\ r.sel = s.sel /\ r.scanning = s.scanning /\ r.choose = s.choose
      /\ r.perr = s.perr /\ r.wait = s.wait /\ r.reg = s.reg /\ r.hold = FALSE /\ r.stored = None
      /\ r.confirm = s.confirm /\ r.migrateIap = s.migrateIap /\ r.lastNotified = s.lastNotified
      /\ r.offers = s.offers /\ r.sdlg = s.sdlg /\ r.rdlg = s.rdlg /\ r.reply = s.reply
      /\ r.note = s.note
  BY DEF Session
<1>2. /\ k.phase = cl.phase /\ k.mob = "wait" /\ k.iap = cl.iap /\ k.pref = cl.pref
      /\ k.stored = cl.stored /\ k.refused = cl.refused
  BY DEF Client
<1>3. r \in Session
  BY DEF Session
<1>4. k \in Client
  BY DEF Client
<1>5. f # None /\ f \in Entries
  BY ConstantsAssumption DEF Entries
<1>6. s.offers \in 0..2
  BY DEF Session
<1>7. cl.pref # NoIap /\ s.reg
  BY DEF Local, Entry, Active
<1>8. s.offers < 2 => e.state = "Roaming" /\ e.iap = cl.pref /\ cl.iap = cl.pref
  BY <1>7 DEF Local, Moving, Uncrossed, Active
<1> HIDE DEF r, k
<1>9. Local(r, k, f, b)
  <2>1. Asked(r, k)
    BY <1>1, <1>2, <1>3, <1>4, <1>5, <1>6, <1>7, <1>8 DEF Local, Asked, Says, Active, Uncrossed, Fits
  <2>2. Choosing(r, k)
    BY <1>1, <1>2, <1>3, <1>4, <1>5, <1>6, <1>7, <1>8 DEF Local, Choosing, Says, Active, Uncrossed, Fits
  <2>3. Granted(r, k, f)
    BY <1>1, <1>2, <1>3, <1>4, <1>5, <1>6, <1>7, <1>8 DEF Local, Granted, Says, Active, Uncrossed, Fits
  <2>4. NotMobile(r, k, f)
    BY <1>1, <1>2, <1>3, <1>4, <1>5, <1>6, <1>7, <1>8 DEF Local, NotMobile, Says, Active, Uncrossed, Fits
  <2>5. Entry(r, k, f)
    BY <1>1, <1>2, <1>3, <1>4, <1>5, <1>6, <1>7, <1>8 DEF Local, Entry, Says, Active, Uncrossed, Fits
  <2>6. Owed(r, k)
    BY <1>1, <1>2, <1>3, <1>4, <1>5, <1>6, <1>7, <1>8 DEF Local, Owed, Says, Active, Uncrossed, Fits
  <2>7. Bearer(r, k, f)
    BY <1>1, <1>2, <1>3, <1>4, <1>5, <1>6, <1>7, <1>8 DEF Local, Bearer, Says, Active, Uncrossed, Fits
  <2>8. Offered(r, k, f)
    BY <1>1, <1>2, <1>3, <1>4, <1>5, <1>6, <1>7, <1>8 DEF Local, Offered, Says, Active, Uncrossed, Fits
  <2>9. Asking(r, k, f)
    BY <1>1, <1>2, <1>3, <1>4, <1>5, <1>6, <1>7, <1>8 DEF Local, Asking, Says, Active, Uncrossed, Fits
  <2>10. Moving(r, k, f)
    BY <1>1, <1>2, <1>3, <1>4, <1>5, <1>6, <1>7, <1>8 DEF Local, Moving, Says, Active, Uncrossed, Fits
  <2>11. Refused(r, k, f, b)
    BY <1>1, <1>2, <1>3, <1>4, <1>5, <1>6, <1>7, <1>8 DEF Local, Refused, Says, Active, Uncrossed, Fits, Asked
  <2> QED BY <2>1, <2>2, <2>3, <2>4, <2>5, <2>6, <2>7, <2>8, <2>9, <2>10, <2>11 DEF Local
<1> QED BY <1>1, <1>2, <1>3, <1>4, <1>5, <1>6, <1>7, <1>8, <1>9 DEF r, k

\* It refuses the IAP it has.
LEMMA RejectsLocal ==
  ASSUME NEW s \in Session, NEW cl \in Client, NEW e \in Entries, NEW b \in Blacks,
         Local(s, cl, e, b),
         NEW j \in Client, NEW k \in Client, NEW f \in Conn, NEW d \in Blacks, NEW i,
         cl.phase = "up", cl.mob \in {"wait", "decide"}, ~s.choose, s.perr = None, s.reply = "none",
         j.phase = "up" /\ j.iap = cl.iap /\ j.pref = cl.pref /\ j.stored = cl.stored,
         j.refused = IF cl.mob = "decide" THEN cl.refused \cup {i} ELSE cl.refused,
         Waits(j, k),
         b \subseteq d, cl.mob = "decide" => <<i, "EConnectionLifetime">> \in d,
         cl.mob = "decide" => i = cl.pref,
         e # None /\ f.snap = e.snap /\ f.iap = NoIap /\ f.state = "Idle"
  PROVE  /\ Local([s EXCEPT !.hold = FALSE, !.stored = None], k, f, d)
         /\ [s EXCEPT !.hold = FALSE, !.stored = None] \in Session
<1> DEFINE r == [s EXCEPT !.hold = FALSE, !.stored = None]
<1>1. /\ r.open = s.open /\ r.sel = s.sel /\ r.scanning = s.scanning /\ r.choose = s.choose
      /\ r.perr = s.perr /\ r.wait = s.wait /\ r.reg = s.reg /\ r.hold = FALSE /\ r.stored = None
      /\ r.confirm = s.confirm /\ r.migrateIap = s.migrateIap /\ r.lastNotified = s.lastNotified
      /\ r.offers = s.offers /\ r.sdlg = s.sdlg /\ r.rdlg = s.rdlg /\ r.reply = s.reply
      /\ r.note = s.note
  BY DEF Session
<1>2. r \in Session
  BY DEF Session
<1>3. f # None /\ f \in Entries
  BY ConstantsAssumption DEF Entries
<1>4. s.offers \in 0..2
  BY DEF Session
<1>5. s.reg
  BY DEF Local, Entry, Active
<1>6. \A x \in k.refused : <<x, "EConnectionLifetime">> \in d \/ ~Uncrossed(s, cl)
  BY DEF Waits, Local, Refused
<1>7. \A x : <<x, "EConnectionLifetime">> \in d => x # NoIap
  BY ConstantsAssumption DEF Blacks
<1> HIDE DEF r
<1>8. Local(r, k, f, d)
  <2>1. Asked(r, k)
    BY <1>1, <1>2, <1>3, <1>4, <1>5, <1>6, <1>7 DEF Local, Asked, Says, Active, Uncrossed, Fits, Waits
  <2>2. Choosing(r, k)
    BY <1>1, <1>2, <1>3, <1>4, <1>5, <1>6, <1>7 DEF Local, Choosing, Says, Active, Uncrossed, Fits, Waits
  <2>3. Granted(r, k, f)
    BY <1>1, <1>2, <1>3, <1>4, <1>5, <1>6, <1>7 DEF Local, Granted, Says, Active, Uncrossed, Fits, Waits
  <2>4. NotMobile(r, k, f)
    BY <1>1, <1>2, <1>3, <1>4, <1>5, <1>6, <1>7 DEF Local, NotMobile, Says, Active, Uncrossed, Fits, Waits
  <2>5. Entry(r, k, f)
    BY <1>1, <1>2, <1>3, <1>4, <1>5, <1>6, <1>7 DEF Local, Entry, Says, Active, Uncrossed, Fits, Waits
  <2>6. Owed(r, k)
    BY <1>1, <1>2, <1>3, <1>4, <1>5, <1>6, <1>7 DEF Local, Owed, Says, Active, Uncrossed, Fits, Waits
  <2>7. Bearer(r, k, f)
    BY <1>1, <1>2, <1>3, <1>4, <1>5, <1>6, <1>7 DEF Local, Bearer, Says, Active, Uncrossed, Fits, Waits
  <2>8. Offered(r, k, f)
    BY <1>1, <1>2, <1>3, <1>4, <1>5, <1>6, <1>7
       DEF Local, Offered, Says, Active, Uncrossed, Fits, Waits, Entry, Moving
  <2>9. Asking(r, k, f)
    BY <1>1, <1>2, <1>3, <1>4, <1>5, <1>6, <1>7 DEF Local, Asking, Says, Active, Uncrossed, Fits, Waits
  <2>10. Moving(r, k, f)
    BY <1>1, <1>2, <1>3, <1>4, <1>5, <1>6, <1>7 DEF Local, Moving, Says, Active, Uncrossed, Fits, Waits
  <2>11. Refused(r, k, f, d)
    BY <1>1, <1>2, <1>3, <1>4, <1>5, <1>6, <1>7 DEF Local, Refused, Says, Active, Uncrossed, Fits, Asked, Waits
  <2> QED BY <2>1, <2>2, <2>3, <2>4, <2>5, <2>6, <2>7, <2>8, <2>9, <2>10, <2>11 DEF Local
<1> QED BY <1>1, <1>2, <1>3, <1>4, <1>5, <1>6, <1>7, <1>8 DEF r

LEMMA CompletedLocal ==
  ASSUME NEW s \in Session, NEW cl \in Client, NEW e \in Entries, NEW b \in Blacks,
         Local(s, cl, e, b),
         cl.phase = "up", cl.mob = "reconnect"
  PROVE  /\ Local(s, [cl EXCEPT !.mob = "decide"], e, b)
         /\ [cl EXCEPT !.mob = "decide"] \in Client
<1> DEFINE k == [cl EXCEPT !.mob = "decide"]
<1>1. /\ k.phase = cl.phase /\ k.mob = "decide" /\ k.iap = cl.iap /\ k.pref = cl.pref
      /\ k.stored = cl.stored /\ k.refused = cl.refused
  BY DEF Client
<1>2. k \in Client
  BY DEF Client
<1> HIDE DEF k
<1>3. Local(s, k, e, b)
  <2>1. Asked(s, k)
    BY <1>1, <1>2 DEF Local, Asked, Says, Active, Uncrossed, Fits
  <2>2. Choosing(s, k)
    BY <1>1, <1>2 DEF Local, Choosing, Says, Active, Uncrossed, Fits
  <2>3. Granted(s, k, e)
    BY <1>1, <1>2 DEF Local, Granted, Says, Active, Uncrossed, Fits
  <2>4. NotMobile(s, k, e)
    BY <1>1, <1>2 DEF Local, NotMobile, Says, Active, Uncrossed, Fits
  <2>5. Entry(s, k, e)
    BY <1>1, <1>2 DEF Local, Entry, Says, Active, Uncrossed, Fits
  <2>6. Owed(s, k)
    BY <1>1, <1>2 DEF Local, Owed, Says, Active, Uncrossed, Fits
  <2>7. Bearer(s, k, e)
    BY <1>1, <1>2 DEF Local, Bearer, Says, Active, Uncrossed, Fits
  <2>8. Offered(s, k, e)
    BY <1>1, <1>2 DEF Local, Offered, Says, Active, Uncrossed, Fits
  <2>9. Asking(s, k, e)
    BY <1>1, <1>2 DEF Local, Asking, Says, Active, Uncrossed, Fits
  <2>10. Moving(s, k, e)
    BY <1>1, <1>2 DEF Local, Moving, Says, Active, Uncrossed, Fits
  <2>11. Refused(s, k, e, b)
    BY <1>1, <1>2 DEF Local, Refused, Says, Active, Uncrossed, Fits, Asked
  <2> QED BY <2>1, <2>2, <2>3, <2>4, <2>5, <2>6, <2>7, <2>8, <2>9, <2>10, <2>11 DEF Local
<1> QED BY <1>1, <1>2, <1>3 DEF k

\* The node reads a notification.
LEMMA ReadsNoteLocal ==
  ASSUME NEW s \in Session, NEW cl \in Client, NEW e \in Entries, NEW b \in Blacks,
         Local(s, cl, e, b),
         NEW k \in Client,
         s.note # None, Delivers(cl, s.note, k),
         s.note.type = "stop" => ~s.choose /\ s.perr = None /\ s.reply = "none"
  PROVE  /\ Local([s EXCEPT !.note = None, !.wait = TRUE], k, e, b)
         /\ [s EXCEPT !.note = None, !.wait = TRUE] \in Session
<1> DEFINE r == [s EXCEPT !.note = None, !.wait = TRUE]
<1>1. /\ r.open = s.open /\ r.sel = s.sel /\ r.scanning = s.scanning /\ r.choose = s.choose
      /\ r.perr = s.perr /\ r.wait = TRUE /\ r.reg = s.reg /\ r.hold = s.hold
      /\ r.stored = s.stored /\ r.confirm = s.confirm /\ r.migrateIap = s.migrateIap
      /\ r.lastNotified = s.lastNotified /\ r.offers = s.offers /\ r.sdlg = s.sdlg
      /\ r.rdlg = s.rdlg /\ r.reply = s.reply /\ r.note = None
  BY DEF Session
<1>2. r \in Session
  BY DEF Session
<1>3. s.offers \in 0..2
  BY DEF Session
<1>4. s.note.type \in {"pref", "start", "stop", "error"}
  BY DEF Session, Note
<1> HIDE DEF r
<1>5. Local(r, k, e, b)
  <2>1. Asked(r, k)
    BY <1>1, <1>2, <1>3, <1>4 DEF Local, Asked, Says, Active, Uncrossed, Fits, Delivers
  <2>2. Choosing(r, k)
    BY <1>1, <1>2, <1>3, <1>4 DEF Local, Choosing, Says, Active, Uncrossed, Fits, Delivers
  <2>3. Granted(r, k, e)
    BY <1>1, <1>2, <1>3, <1>4 DEF Local, Granted, Says, Active, Uncrossed, Fits, Delivers
  <2>4. NotMobile(r, k, e)
    BY <1>1, <1>2, <1>3, <1>4 DEF Local, NotMobile, Says, Active, Uncrossed, Fits, Delivers
  <2>5. Entry(r, k, e)
    BY <1>1, <1>2, <1>3, <1>4 DEF Local, Entry, Says, Active, Uncrossed, Fits, Delivers
  <2>6. Owed(r, k)
    BY <1>1, <1>2, <1>3, <1>4 DEF Local, Owed, Says, Active, Uncrossed, Fits, Delivers, Entry, Choosing
  <2>7. Bearer(r, k, e)
    BY <1>1, <1>2, <1>3, <1>4 DEF Local, Bearer, Says, Active, Uncrossed, Fits, Delivers, Entry, Moving
  <2>8. Offered(r, k, e)
    BY <1>1, <1>2, <1>3, <1>4 DEF Local, Offered, Says, Active, Uncrossed, Fits, Delivers
  <2>9. Asking(r, k, e)
    BY <1>1, <1>2, <1>3, <1>4 DEF Local, Asking, Says, Active, Uncrossed, Fits, Delivers
  <2>10. Moving(r, k, e)
    BY <1>1, <1>2, <1>3, <1>4 DEF Local, Moving, Says, Active, Uncrossed, Fits, Delivers
  <2>11. Refused(r, k, e, b)
    BY <1>1, <1>2, <1>3, <1>4 DEF Local, Refused, Says, Active, Uncrossed, Fits, Asked, Delivers, Entry
  <2> QED BY <2>1, <2>2, <2>3, <2>4, <2>5, <2>6, <2>7, <2>8, <2>9, <2>10, <2>11 DEF Local
<1> QED BY <1>1, <1>2, <1>3, <1>4, <1>5 DEF r

------------------------------------------------------------------------------
(* Holding, the dialogs that go, replies and leaving *)

LEMMA HeldLocal ==
  ASSUME NEW s \in Session, NEW cl \in Client, NEW e \in Entries, NEW b \in Blacks,
         Local(s, cl, e, b),
         ~s.wait, cl.mob # "off"
  PROVE  /\ Local([s EXCEPT !.hold = TRUE], cl, e, b)
         /\ [s EXCEPT !.hold = TRUE] \in Session
<1> DEFINE r == [s EXCEPT !.hold = TRUE]
<1>1. /\ r.open = s.open /\ r.sel = s.sel /\ r.scanning = s.scanning /\ r.choose = s.choose
      /\ r.perr = s.perr /\ r.wait = s.wait /\ r.reg = s.reg /\ r.hold = TRUE
      /\ r.stored = s.stored /\ r.confirm = s.confirm /\ r.migrateIap = s.migrateIap
      /\ r.lastNotified = s.lastNotified /\ r.offers = s.offers /\ r.sdlg = s.sdlg
      /\ r.rdlg = s.rdlg /\ r.reply = s.reply /\ r.note = s.note
  BY DEF Session
<1>2. r \in Session
  BY DEF Session
<1> HIDE DEF r
<1>3. Local(r, cl, e, b)
  <2>1. Asked(r, cl)
    BY <1>1, <1>2 DEF Local, Asked, Says, Active, Uncrossed, Fits
  <2>2. Choosing(r, cl)
    BY <1>1, <1>2 DEF Local, Choosing, Says, Active, Uncrossed, Fits
  <2>3. Granted(r, cl, e)
    BY <1>1, <1>2 DEF Local, Granted, Says, Active, Uncrossed, Fits
  <2>4. NotMobile(r, cl, e)
    BY <1>1, <1>2 DEF Local, NotMobile, Says, Active, Uncrossed, Fits
  <2>5. Entry(r, cl, e)
    BY <1>1, <1>2 DEF Local, Entry, Says, Active, Uncrossed, Fits
  <2>6. Owed(r, cl)
    BY <1>1, <1>2 DEF Local, Owed, Says, Active, Uncrossed, Fits, Asked
  <2>7. Bearer(r, cl, e)
    BY <1>1, <1>2 DEF Local, Bearer, Says, Active, Uncrossed, Fits
  <2>8. Offered(r, cl, e)
    BY <1>1, <1>2 DEF Local, Offered, Says, Active, Uncrossed, Fits
  <2>9. Asking(r, cl, e)
    BY <1>1, <1>2 DEF Local, Asking, Says, Active, Uncrossed, Fits
  <2>10. Moving(r, cl, e)
    BY <1>1, <1>2 DEF Local, Moving, Says, Active, Uncrossed, Fits
  <2>11. Refused(r, cl, e, b)
    BY <1>1, <1>2 DEF Local, Refused, Says, Active, Uncrossed, Fits, Asked
  <2> QED BY <2>1, <2>2, <2>3, <2>4, <2>5, <2>6, <2>7, <2>8, <2>9, <2>10, <2>11 DEF Local
<1> QED BY <1>1, <1>2, <1>3 DEF r

\* The notification to start an IAP, sent or not.
LEMMA StartNoteLocal ==
  ASSUME NEW s \in Session, NEW cl \in Client, NEW e \in Entries, NEW b \in Blacks,
         Local(s, cl, e, b), NEW i \in IapOrNone,
         Uncrossed(s, cl) => cl.mob = "response" /\ e # None /\ e.state = "Roaming" /\ e.iap = i /\ cl.pref = i,
         Uncrossed(s, cl) => ~s.confirm /\ s.rdlg = None, cl.mob # "off", cl.pref # NoIap
  PROVE  /\ Local(StartIAPNotification(s, i), cl, e, b)
         /\ StartIAPNotification(s, i) \in Session
         /\ StartIAPNotification(s, i).sdlg = s.sdlg /\ StartIAPNotification(s, i).rdlg = s.rdlg
         /\ StartIAPNotification(s, i).choose = s.choose /\ StartIAPNotification(s, i).perr = s.perr
<1> DEFINE n == [type |-> "start", iap |-> i]
           h == [s EXCEPT !.hold = TRUE]
           r == [s EXCEPT !.hold = TRUE, !.wait = FALSE, !.note = n]
<1>1. s.wait => Local(r, cl, e, b) /\ r \in Session
  BY StartLocal
<1>2. ~s.wait => Local(h, cl, e, b)
  BY HeldLocal
<1>3. h \in Session
  BY DEF Session
<1>4. /\ h.sdlg = s.sdlg /\ h.rdlg = s.rdlg /\ h.choose = s.choose /\ h.perr = s.perr /\ h.wait = s.wait
      /\ r.sdlg = s.sdlg /\ r.rdlg = s.rdlg /\ r.choose = s.choose /\ r.perr = s.perr
  BY DEF Session
<1>5. StartIAPNotification(s, i) = IF s.wait THEN r ELSE h
  <2>1. StartIAPNotification(s, i) = IF h.wait THEN [h EXCEPT !.wait = FALSE, !.note = n] ELSE h
    BY DEF StartIAPNotification, Notify
  <2>2. [h EXCEPT !.wait = FALSE, !.note = n] = r
    BY DEF Session
  <2> HIDE DEF h, r
  <2> QED BY <1>4, <2>1, <2>2
<1> HIDE DEF h, r
<1> QED BY <1>1, <1>2, <1>3, <1>4, <1>5

\* The roaming dialog goes with its answer.
LEMMA DialogGoneLocal ==
  ASSUME NEW s \in Session, NEW cl \in Client, NEW e \in Entries, NEW b \in Blacks,
         Local(s, cl, e, b),
         NEW d \in Blacks,
         s.rdlg # None, b \subseteq d
  PROVE  /\ Local([s EXCEPT !.rdlg = None, !.confirm = FALSE, !.migrateIap = NoIap], cl, e, d)
         /\ [s EXCEPT !.rdlg = None, !.confirm = FALSE, !.migrateIap = NoIap] \in Session
<1> DEFINE r == [s EXCEPT !.rdlg = None, !.confirm = FALSE, !.migrateIap = NoIap]
<1>1. /\ r.open = s.open /\ r.sel = s.sel /\ r.scanning = s.scanning /\ r.choose = s.choose
      /\ r.perr = s.perr /\ r.wait = s.wait /\ r.reg = s.reg /\ r.hold = s.hold
      /\ r.stored = s.stored /\ r.confirm = FALSE /\ r.migrateIap = NoIap
      /\ r.lastNotified = s.lastNotified /\ r.offers = s.offers /\ r.sdlg = s.sdlg
      /\ r.rdlg = None /\ r.reply = s.reply /\ r.note = s.note
  BY DEF Session
<1>2. r \in Session
  BY DEF Session, IapOrNone
<1> HIDE DEF r
<1>3. Local(r, cl, e, d)
  <2>1. Asked(r, cl)
    BY <1>1, <1>2 DEF Local, Asked, Says, Active, Uncrossed, Fits
  <2>2. Choosing(r, cl)
    BY <1>1, <1>2 DEF Local, Choosing, Says, Active, Uncrossed, Fits
  <2>3. Granted(r, cl, e)
    BY <1>1, <1>2 DEF Local, Granted, Says, Active, Uncrossed, Fits
  <2>4. NotMobile(r, cl, e)
    BY <1>1, <1>2 DEF Local, NotMobile, Says, Active, Uncrossed, Fits
  <2>5. Entry(r, cl, e)
    BY <1>1, <1>2 DEF Local, Entry, Says, Active, Uncrossed, Fits
  <2>6. Owed(r, cl)
    BY <1>1, <1>2 DEF Local, Owed, Says, Active, Uncrossed, Fits
  <2>7. Bearer(r, cl, e)
    BY <1>1, <1>2 DEF Local, Bearer, Says, Active, Uncrossed, Fits
  <2>8. Offered(r, cl, e)
    BY <1>1, <1>2 DEF Local, Offered, Says, Active, Uncrossed, Fits
  <2>9. Asking(r, cl, e)
    BY <1>1, <1>2 DEF Local, Asking, Says, Active, Uncrossed, Fits
  <2>10. Moving(r, cl, e)
    BY <1>1, <1>2 DEF Local, Moving, Says, Active, Uncrossed, Fits
  <2>11. Refused(r, cl, e, d)
    BY <1>1, <1>2 DEF Local, Refused, Says, Active, Uncrossed, Fits, Asked
  <2> QED BY <2>1, <2>2, <2>3, <2>4, <2>5, <2>6, <2>7, <2>8, <2>9, <2>10, <2>11 DEF Local
<1> QED BY <1>1, <1>2, <1>3 DEF r

\* The reply a of the server, with the IAP i that the node then asks for.
Replied(cl, a, i, k) ==
  \/ /\ cl.phase = "choosing" /\ a = "ok" /\ k.phase = "starting" /\ k.iap = i
     /\ k.mob = cl.mob /\ k.pref = cl.pref /\ k.stored = cl.stored /\ k.refused = cl.refused
  \/ /\ k.iap = cl.iap /\ k.mob = cl.mob /\ k.pref = cl.pref /\ k.stored = cl.stored /\ k.refused = cl.refused
     /\ \/ cl.phase = "choosing" /\ a # "ok" /\ k.phase = "ended"
        \/ cl.phase = "retrying" /\ k.phase = "ended"
        \/ cl.phase = "recovering" /\ a # "Ignore" /\ k.phase = "down"
        \/ cl.phase = "recovering" /\ a = "Ignore" /\ cl.mob # "reconnect" /\ k.phase = "up"
        \/ cl.phase \notin {"choosing", "retrying", "recovering"} /\ k.phase = cl.phase
  \/ cl.phase = "recovering" /\ a = "Ignore" /\ cl.mob = "reconnect" /\ Waits(cl, k)

LEMMA AfterReplyResult ==
  ASSUME NEW cl \in Client, NEW a, NEW i \in IapOrNone
  PROVE  AfterReply(cl, a, i) \in Client /\ Replied(cl, a, i, AfterReply(cl, a, i))
<1> DEFINE u == [cl EXCEPT !.phase = "up"]
           k == AfterReply(cl, a, i)
<1>1. /\ u \in Client /\ u.phase = "up" /\ u.mob = cl.mob /\ u.iap = cl.iap /\ u.pref = cl.pref
      /\ u.stored = cl.stored /\ u.refused = cl.refused
  BY DEF Client
<1>2. CASE cl.phase = "recovering" /\ a = "Ignore" /\ cl.mob = "reconnect"
  <2>1. k = WaitResponse(u)
    BY <1>2 DEF AfterReply
  <2> HIDE DEF u, k
  <2>2. k \in Client /\ Waits(u, k)
    BY <1>1, <2>1, WaitResponseResult
  <2>3. Waits(cl, k)
    BY <1>1, <2>2 DEF Waits
  <2> QED BY <1>2, <2>2, <2>3 DEF Replied, k
<1>3. CASE ~(cl.phase = "recovering" /\ a = "Ignore" /\ cl.mob = "reconnect")
  <2>1. \/ cl.phase = "choosing" /\ a = "ok" /\ k = [cl EXCEPT !.phase = "starting", !.iap = i]
        \/ cl.phase = "choosing" /\ a # "ok" /\ k = [cl EXCEPT !.phase = "ended"]
        \/ cl.phase = "retrying" /\ k = [cl EXCEPT !.phase = "ended"]
        \/ cl.phase = "recovering" /\ a # "Ignore" /\ k = [cl EXCEPT !.phase = "down"]
        \/ cl.phase = "recovering" /\ a = "Ignore" /\ cl.mob # "reconnect" /\ k = [cl EXCEPT !.phase = "up"]
        \/ cl.phase \notin {"choosing", "retrying", "recovering"} /\ k = cl
    BY <1>3 DEF AfterReply
  <2> HIDE DEF k
  <2>2. k \in Client
    BY <2>1 DEF Client
  <2>3. Replied(cl, a, i, k)
    BY <2>1 DEF Client, Replied
  <2> QED BY <2>2, <2>3 DEF k
<1> QED BY <1>2, <1>3

LEMMA ReadsReplyLocal ==
  ASSUME NEW s \in Session, NEW cl \in Client, NEW e \in Entries, NEW b \in Blacks,
         Local(s, cl, e, b),
         NEW k \in Client,
         Replied(cl, s.reply, GetBMIap(e), k),
         s.reply # "none", s.reply # "Reselect"
  PROVE  /\ Local([s EXCEPT !.reply = "none"], k, e, b)
         /\ [s EXCEPT !.reply = "none"] \in Session
<1> DEFINE r == [s EXCEPT !.reply = "none"]
<1>1. /\ r.open = s.open /\ r.sel = s.sel /\ r.scanning = s.scanning /\ r.choose = s.choose
      /\ r.perr = s.perr /\ r.wait = s.wait /\ r.reg = s.reg /\ r.hold = s.hold
      /\ r.stored = s.stored /\ r.confirm = s.confirm /\ r.migrateIap = s.migrateIap
      /\ r.lastNotified = s.lastNotified /\ r.offers = s.offers /\ r.sdlg = s.sdlg
      /\ r.rdlg = s.rdlg /\ r.reply = "none" /\ r.note = s.note
  BY DEF Session
<1>2. r \in Session
  BY DEF Session
<1>3. s.offers \in 0..2
  BY DEF Session
<1>4. ~s.choose /\ s.perr = None
  BY DEF Local, Choosing
<1>5. GetBMIap(e) = IF e = None THEN NoIap ELSE e.iap
  BY DEF GetBMIap
<1>6. cl.phase = "choosing" => cl.mob = "off"
  BY DEF Local, NotMobile
<1> HIDE DEF r
<1>7. Local(r, k, e, b)
  <2>1. Asked(r, k)
    BY <1>1, <1>2, <1>3, <1>4, <1>5, <1>6 DEF Local, Asked, Says, Active, Uncrossed, Fits, Replied, Waits
  <2>2. Choosing(r, k)
    BY <1>1, <1>2, <1>3, <1>4, <1>5, <1>6 DEF Local, Choosing, Says, Active, Uncrossed, Fits, Replied, Waits
  <2>3. Granted(r, k, e)
    BY <1>1, <1>2, <1>3, <1>4, <1>5, <1>6 DEF Local, Granted, Says, Active, Uncrossed, Fits, Replied, Waits
  <2>4. NotMobile(r, k, e)
    BY <1>1, <1>2, <1>3, <1>4, <1>5, <1>6 DEF Local, NotMobile, Says, Active, Uncrossed, Fits, Replied, Waits
  <2>5. Entry(r, k, e)
    BY <1>1, <1>2, <1>3, <1>4, <1>5, <1>6
       DEF Local, Entry, Says, Active, Uncrossed, Fits, Replied, Waits, Moving
  <2>6. Owed(r, k)
    BY <1>1, <1>2, <1>3, <1>4, <1>5, <1>6 DEF Local, Owed, Says, Active, Uncrossed, Fits, Replied, Waits
  <2>7. Bearer(r, k, e)
    BY <1>1, <1>2, <1>3, <1>4, <1>5, <1>6
       DEF Local, Bearer, Says, Active, Uncrossed, Fits, Replied, Waits, Moving, Entry
  <2>8. Offered(r, k, e)
    BY <1>1, <1>2, <1>3, <1>4, <1>5, <1>6
       DEF Local, Offered, Says, Active, Uncrossed, Fits, Replied, Waits, Entry
  <2>9. Asking(r, k, e)
    BY <1>1, <1>2, <1>3, <1>4, <1>5, <1>6 DEF Local, Asking, Says, Active, Uncrossed, Fits, Replied, Waits
  <2>10. Moving(r, k, e)
    BY <1>1, <1>2, <1>3, <1>4, <1>5, <1>6 DEF Local, Moving, Says, Active, Uncrossed, Fits, Replied, Waits
  <2>11. Refused(r, k, e, b)
    BY <1>1, <1>2, <1>3, <1>4, <1>5, <1>6
       DEF Local, Refused, Says, Active, Uncrossed, Fits, Asked, Replied, Waits, Entry, Moving
  <2> QED BY <2>1, <2>2, <2>3, <2>4, <2>5, <2>6, <2>7, <2>8, <2>9, <2>10, <2>11 DEF Local
<1> QED BY <1>1, <1>2, <1>3, <1>4, <1>5, <1>6, <1>7 DEF r

LEMMA LeavesLocal ==
  ASSUME NEW s \in Session, NEW cl \in Client, NEW e \in Entries, NEW b \in Blacks,
         Local(s, cl, e, b),
         NEW f \in Entries,
         cl.phase \in {"up", "down"}, ~s.choose, s.perr = None, s.reply = "none"
  PROVE  /\ Local(s, [cl EXCEPT !.phase = "left"], f, b)
         /\ [cl EXCEPT !.phase = "left"] \in Client
<1> DEFINE k == [cl EXCEPT !.phase = "left"]
<1>1. /\ k.phase = "left" /\ k.mob = cl.mob /\ k.iap = cl.iap /\ k.pref = cl.pref
      /\ k.stored = cl.stored /\ k.refused = cl.refused
  BY DEF Client
<1>2. k \in Client
  BY DEF Client
<1> HIDE DEF k
<1>3. Local(s, k, f, b)
  <2>1. Asked(s, k)
    BY <1>1, <1>2 DEF Local, Asked, Says, Active, Uncrossed, Fits
  <2>2. Choosing(s, k)
    BY <1>1, <1>2 DEF Local, Choosing, Says, Active, Uncrossed, Fits
  <2>3. Granted(s, k, f)
    BY <1>1, <1>2 DEF Local, Granted, Says, Active, Uncrossed, Fits
  <2>4. NotMobile(s, k, f)
    BY <1>1, <1>2 DEF Local, NotMobile, Says, Active, Uncrossed, Fits
  <2>5. Entry(s, k, f)
    BY <1>1, <1>2 DEF Local, Entry, Says, Active, Uncrossed, Fits
  <2>6. Owed(s, k)
    BY <1>1, <1>2 DEF Local, Owed, Says, Active, Uncrossed, Fits
  <2>7. Bearer(s, k, f)
    BY <1>1, <1>2 DEF Local, Bearer, Says, Active, Uncrossed, Fits
  <2>8. Offered(s, k, f)
    BY <1>1, <1>2 DEF Local, Offered, Says, Active, Uncrossed, Fits
  <2>9. Asking(s, k, f)
    BY <1>1, <1>2 DEF Local, Asking, Says, Active, Uncrossed, Fits
  <2>10. Moving(s, k, f)
    BY <1>1, <1>2 DEF Local, Moving, Says, Active, Uncrossed, Fits
  <2>11. Refused(s, k, f, b)
    BY <1>1, <1>2 DEF Local, Refused, Says, Active, Uncrossed, Fits, Asked
  <2> QED BY <2>1, <2>2, <2>3, <2>4, <2>5, <2>6, <2>7, <2>8, <2>9, <2>10, <2>11 DEF Local
<1> QED BY <1>1, <1>2, <1>3 DEF k

LEMMA EndedType ==
  ASSUME NEW q \in Session PROVE [q EXCEPT !.reg = FALSE, !.rdlg = None, !.sel = None] \in Session
  BY DEF Session

LEMMA EndsLocal ==
  ASSUME NEW s \in Session, NEW cl \in Client, NEW e \in Entries, NEW b \in Blacks,
         Local(s, cl, e, b),
         cl.phase = "left", ~s.choose, s.perr = None, s.reply = "none"
  PROVE  /\ Local([s EXCEPT !.reg = FALSE, !.rdlg = None, !.sel = None], [cl EXCEPT !.phase = "ended"], None, {})
         /\ [s EXCEPT !.reg = FALSE, !.rdlg = None, !.sel = None] \in Session
         /\ [cl EXCEPT !.phase = "ended"] \in Client
<1> DEFINE r == [s EXCEPT !.reg = FALSE, !.rdlg = None, !.sel = None]
           k == [cl EXCEPT !.phase = "ended"]
<1>1. /\ r.open = s.open /\ r.sel = None /\ r.scanning = s.scanning /\ r.choose = s.choose
      /\ r.perr = s.perr /\ r.wait = s.wait /\ r.reg = FALSE /\ r.hold = s.hold
      /\ r.stored = s.stored /\ r.confirm = s.confirm /\ r.migrateIap = s.migrateIap
      /\ r.lastNotified = s.lastNotified /\ r.offers = s.offers /\ r.sdlg = s.sdlg
      /\ r.rdlg = None /\ r.reply = s.reply /\ r.note = s.note
  BY DEF Session
<1>2. /\ k.phase = "ended" /\ k.mob = cl.mob /\ k.iap = cl.iap /\ k.pref = cl.pref
      /\ k.stored = cl.stored /\ k.refused = cl.refused
  BY DEF Client
<1>3. r \in Session
  BY EndedType
<1>4. k \in Client
  BY DEF Client
<1> HIDE DEF r, k
<1>5. Local(r, k, None, {})
  <2>1. Asked(r, k)
    BY <1>1, <1>2, <1>3, <1>4 DEF Local, Asked, Says, Active, Uncrossed, Fits
  <2>2. Choosing(r, k)
    BY <1>1, <1>2, <1>3, <1>4 DEF Local, Choosing, Says, Active, Uncrossed, Fits
  <2>3. Granted(r, k, None)
    BY <1>1, <1>2, <1>3, <1>4 DEF Local, Granted, Says, Active, Uncrossed, Fits
  <2>4. NotMobile(r, k, None)
    BY <1>1, <1>2, <1>3, <1>4 DEF Local, NotMobile, Says, Active, Uncrossed, Fits
  <2>5. Entry(r, k, None)
    BY <1>1, <1>2, <1>3, <1>4 DEF Local, Entry, Says, Active, Uncrossed, Fits
  <2>6. Owed(r, k)
    BY <1>1, <1>2, <1>3, <1>4 DEF Local, Owed, Says, Active, Uncrossed, Fits
  <2>7. Bearer(r, k, None)
    BY <1>1, <1>2, <1>3, <1>4 DEF Local, Bearer, Says, Active, Uncrossed, Fits
  <2>8. Offered(r, k, None)
    BY <1>1, <1>2, <1>3, <1>4 DEF Local, Offered, Says, Active, Uncrossed, Fits
  <2>9. Asking(r, k, None)
    BY <1>1, <1>2, <1>3, <1>4 DEF Local, Asking, Says, Active, Uncrossed, Fits
  <2>10. Moving(r, k, None)
    BY <1>1, <1>2, <1>3, <1>4 DEF Local, Moving, Says, Active, Uncrossed, Fits
  <2>11. Refused(r, k, None, {})
    BY <1>1, <1>2, <1>3, <1>4 DEF Local, Refused, Says, Active, Uncrossed, Fits, Asked
  <2> QED BY <2>1, <2>2, <2>3, <2>4, <2>5, <2>6, <2>7, <2>8, <2>9, <2>10, <2>11 DEF Local
<1> QED BY <1>1, <1>2, <1>3, <1>4, <1>5 DEF r, k

LEMMA OpenLocal ==
  ASSUME NEW s \in Session, NEW cl \in Client, NEW e \in Entries, NEW b \in Blacks,
         Local(s, cl, e, b), cl.phase = "new"
  PROVE  Local([NoSession EXCEPT !.open = TRUE, !.wait = TRUE], cl, e, b)
  BY DEF Local, NoSession, Asked, Choosing, Granted, NotMobile, Entry, Owed, Bearer, Offered, Asking, Moving,
         Refused, Says, Active, Uncrossed

LEMMA NoSessionType ==
  /\ NoSession \in Session /\ NoClient \in Client /\ [NoClient EXCEPT !.phase = "gone"] \in Client
  /\ [NoSession EXCEPT !.open = TRUE, !.wait = TRUE] \in Session
<1>1. NoSession \in Session
  BY SMTT(30) DEF NoSession, Session, IapOrNone
<1>3. [NoSession EXCEPT !.open = TRUE, !.wait = TRUE] \in Session
  BY <1>1 DEF Session
<1>2. NoClient \in Client /\ [NoClient EXCEPT !.phase = "gone"] \in Client
  BY DEF NoClient, Client, IapOrNone
<1> QED BY <1>1, <1>2, <1>3

LEMMA NewLocal == \A b : Local(NoSession, NoClient, None, b)
  BY DEF Local, NoSession, NoClient, Asked, Choosing, Granted, NotMobile, Entry, Owed, Bearer, Offered,
         Asking, Moving, Refused, Says, Active, Uncrossed

LEMMA CloseLocal == \A b : Local(NoSession, [NoClient EXCEPT !.phase = "gone"], None, b)
  BY DEF Local, NoSession, NoClient, Asked, Choosing, Granted, NotMobile, Entry, Owed, Bearer, Offered,
         Asking, Moving, Refused, Says, Active, Uncrossed

LEMMA UnblackLocal ==
  ASSUME NEW s \in Session, NEW cl \in Client, NEW e \in Entries, NEW b \in Blacks,
         Local(s, cl, e, b), NEW d \in Blacks,
         \A i : <<i, "EConnectionLifetime">> \in b => <<i, "EConnectionLifetime">> \in d
  PROVE  Local(s, cl, e, d)
<1>1. Refused(s, cl, e, d)
  BY DEF Local, Refused
<1> QED BY <1>1 DEF Local

------------------------------------------------------------------------------
\* What is done after an offer or an error notification commutes with it.
Besides(m, j) ==
  [m EXCEPT !.lastNotified = j, !.hold = TRUE, !.offers = IF @ = 0 THEN 1 ELSE 2]
Closed(m) == [m EXCEPT !.rdlg = None, !.confirm = FALSE]

LEMMA DoneReached ==
  ASSUME NEW s \in Session, NEW e, NEW b, NEW info, NEW r, Reached(s, r, e, b, info)
  PROVE  Reached(MigrateDone(s), MigrateDone(r), e, b, info)
<1>1. MigrateDone([s EXCEPT !.stored = info]) = [MigrateDone(s) EXCEPT !.stored = info]
  BY DEF MigrateDone, Session
<1>2. MigrateDone(ErrorNotification(s)) = ErrorNotification(MigrateDone(s))
  BY DEF MigrateDone, ErrorNotification, Notify, Session
<1>3. ASSUME NEW j \in Iaps PROVE MigrateDone(Offer(s, j)) = Offer(MigrateDone(s), j)
  <2>1. MigrateDone(Notify(s, "pref", j)) = Notify(MigrateDone(s), "pref", j)
    BY DEF MigrateDone, Notify, Session
  <2>2. \A m \in Session : MigrateDone(Besides(m, j)) = Besides(MigrateDone(m), j)
    BY ZenonT(40) DEF MigrateDone, Besides, Session
  <2>3. \A m \in Session : MigrateDone(Closed(m)) = Closed(MigrateDone(m))
    BY DEF MigrateDone, Closed, Session
  <2>4. /\ Notify(s, "pref", j) \in Session
        /\ Besides(Notify(s, "pref", j), j) \in Session
    <3>1. \A i \in IapOrNone, o \in 0..2 :
            [Notify(s, "pref", j) EXCEPT !.lastNotified = i, !.hold = TRUE, !.offers = o] \in Session
      BY NotifyType, ZenonT(60) DEF IapOrNone
    <3>2. Notify(s, "pref", j) \in Session /\ j \in IapOrNone
      BY NotifyType DEF IapOrNone
    <3>3. (IF Notify(s, "pref", j).offers = 0 THEN 1 ELSE 2) \in 0..2
      OBVIOUS
    <3> QED BY <3>1, <3>2, <3>3 DEF Besides
  <2>5. \A m : Offer(m, j) = Closed(Besides(Notify(m, "pref", j), j))
    BY DEF Offer, OfferBesides, Besides, Closed
  <2> QED BY <2>1, <2>2, <2>3, <2>4, <2>5
<1>4. MigrateDone(s).wait = s.wait /\ MigrateDone(s).reg = s.reg /\ MigrateDone(s).lastNotified = s.lastNotified
  BY DEF MigrateDone, Session
<1> QED BY <1>1, <1>2, <1>3, <1>4 DEF Reached

LEMMA ErrorCompleteReached ==
  ASSUME NEW s \in Session, NEW e, NEW b, NEW info, NEW r, NEW a, Reached(s, r, e, b, info)
  PROVE  Reached(ProcessErrorComplete(s, a), ProcessErrorComplete(r, a), e, b, info)
<1>1. ProcessErrorComplete([s EXCEPT !.stored = info], a) = [ProcessErrorComplete(s, a) EXCEPT !.stored = info]
  BY DEF ProcessErrorComplete, Session
<1>2. ProcessErrorComplete(ErrorNotification(s), a) = ErrorNotification(ProcessErrorComplete(s, a))
  BY DEF ProcessErrorComplete, ErrorNotification, Notify, Session
<1>3. ASSUME NEW j \in Iaps PROVE ProcessErrorComplete(Offer(s, j), a) = Offer(ProcessErrorComplete(s, a), j)
  <2>1. ProcessErrorComplete(Notify(s, "pref", j), a) = Notify(ProcessErrorComplete(s, a), "pref", j)
    BY DEF ProcessErrorComplete, Notify, Session
  <2>2. \A m \in Session : ProcessErrorComplete(Besides(m, j), a) = Besides(ProcessErrorComplete(m, a), j)
    BY ZenonT(40) DEF ProcessErrorComplete, Besides, Session
  <2>3. \A m \in Session : ProcessErrorComplete(Closed(m), a) = Closed(ProcessErrorComplete(m, a))
    BY DEF ProcessErrorComplete, Closed, Session
  <2>4. /\ Notify(s, "pref", j) \in Session
        /\ Besides(Notify(s, "pref", j), j) \in Session
    <3>1. \A i \in IapOrNone, o \in 0..2 :
            [Notify(s, "pref", j) EXCEPT !.lastNotified = i, !.hold = TRUE, !.offers = o] \in Session
      BY NotifyType DEF IapOrNone
    <3>2. Notify(s, "pref", j) \in Session /\ j \in IapOrNone
      BY NotifyType DEF IapOrNone
    <3>3. (IF Notify(s, "pref", j).offers = 0 THEN 1 ELSE 2) \in 0..2
      OBVIOUS
    <3> QED BY <3>1, <3>2, <3>3 DEF Besides
  <2>5. \A m : Offer(m, j) = Closed(Besides(Notify(m, "pref", j), j))
    BY DEF Offer, OfferBesides, Besides, Closed
  <2> QED BY <2>1, <2>2, <2>3, <2>4, <2>5
<1>4. /\ ProcessErrorComplete(s, a).wait = s.wait /\ ProcessErrorComplete(s, a).reg = s.reg
      /\ ProcessErrorComplete(s, a).lastNotified = s.lastNotified
  BY DEF ProcessErrorComplete, Session
<1> QED BY <1>1, <1>2, <1>3, <1>4 DEF Reached

------------------------------------------------------------------------------
(* The parts of a step *)

LEMMA Here ==
  ASSUME MPMInv, NEW c \in Sessions
  PROVE  /\ sess[c] \in Session /\ cli[c] \in Client /\ conns[c] \in Entries /\ black[c] \in Blacks
         /\ Local(sess[c], cli[c], conns[c], black[c])
         /\ NodesOK /\ TablesOK /\ BlacksOK /\ MonOK /\ UsageOK /\ WorkOK
<1>1. NodesOK /\ TablesOK /\ BlacksOK /\ MonOK /\ UsageOK /\ WorkOK
  BY TypeSplit DEF MPMInv
<1>2. Local(sess[c], cli[c], conns[c], black[c])
  BY DEF MPMInv, AllLocal
<1> QED BY <1>1, <1>2 DEF NodesOK, TablesOK, BlacksOK

\* What is left to show of a handler that changes the session c to r and its node to k.
Proceeds(c, r) ==
  /\ r.choose => r.sdlg # None \/ Outstanding(c, "ChooseIap")'
  /\ r.perr # None => Outstanding(c, "ProcessErr")'
Scanned(c, r, k) ==
  /\ r.choose => Once(Choice(c))'
  /\ \/ r.choose /\ r.sdlg # None
     \/ k.phase \in {"new", "starting", "retrying"}
     \/ k.phase = "choosing" /\ r.reply # "none"
     => Unscanned(Choice(c))'
Asks(c, r) ==
  \/ \E ans \in Answers : Dialogs(ans)
  \/ UNCHANGED dialogVars /\ r.sdlg = sess[c].sdlg /\ r.rdlg = sess[c].rdlg
Table(c, f) == TablesOK' /\ conns'[c] = f /\ \A d \in Sessions \ {c} : conns'[d] = conns[d]
Barred(c, b) == BlacksOK' /\ black'[c] = b /\ \A d \in Sessions \ {c} : black'[d] = black[d]

LEMMA HandlerKeeps ==
  ASSUME MPMInv, NEW c \in Sessions, NEW r \in Session, NEW k \in Client, NEW f, NEW b,
         sess' = [sess EXCEPT ![c] = r], cli' = [cli EXCEPT ![c] = k],
         Table(c, f), Barred(c, b), Local(r, k, f, b), MonOK', UsageOK', WorkOK', LoopInRange',
         Asks(c, r), OthersScanned(c), Proceeds(c, r), Scanned(c, r, k)
  PROVE  MPMInv'
<1>1. NodesOK
  BY Here
<1>2. /\ NodesOK' /\ sess'[c] = r /\ cli'[c] = k
      /\ \A d \in Sessions \ {c} : sess'[d] = sess[d] /\ cli'[d] = cli[d]
  BY <1>1 DEF NodesOK
<1>3. Frame(c) /\ Local(sess'[c], cli'[c], conns'[c], black'[c])
  BY <1>2 DEF Frame, Table, Barred
<1>4. OwnProgress(c) /\ ChoiceScanned(c)' /\ DialogsMove(c)
  BY <1>2 DEF OwnProgress, Proceeds, ChoiceScanned, Scanned, DialogsMove, Asks
<1> QED BY <1>2, <1>3, <1>4, StepKeeps DEF Table, Barred

\* A handler that the server takes up when it waits.
LEMMA QuietKeeps ==
  ASSUME MPMInv, Quiet, NEW c \in Sessions, NEW r \in Session, NEW k \in Client, NEW f, NEW b,
         sess' = [sess EXCEPT ![c] = r], cli' = [cli EXCEPT ![c] = k],
         Table(c, f), Barred(c, b), Local(r, k, f, b), MonOK', UsageOK', UNCHANGED <<work, fatal>>,
         Asks(c, r), OthersScanned(c), Proceeds(c, r), Scanned(c, r, k)
  PROVE  MPMInv'
<1>1. BlacksOK' /\ work' = NoWork
  BY DEF Barred, Quiet
<1>2. LoopInRange'
  BY <1>1 DEF LoopInRange, NoWork, BlacksOK
<1>3. WorkOK'
  BY Here DEF WorkOK
<1> QED BY <1>2, <1>3, HandlerKeeps

LEMMA SameVars ==
  ASSUME MPMInv, NEW c \in Sessions
  PROVE  /\ UNCHANGED tableVars => Table(c, conns[c])
         /\ UNCHANGED blackVars => Barred(c, black[c])
         /\ UNCHANGED <<monVars, work>> => /\ MonOK' /\ OthersScanned(c)
                                           /\ \A x : (Once(x) => Once(x)') /\ (Unscanned(x) => Unscanned(x)')
                                           /\ \A cb \in Callbacks : Outstanding(c, cb)' <=> Outstanding(c, cb)
         /\ UNCHANGED usageVars /\ timer' \in BOOLEAN => UsageOK'
         /\ UNCHANGED dialogVars => timer' \in BOOLEAN
         /\ UNCHANGED timer => timer' \in BOOLEAN
         /\ Cancelled => \E ans \in Answers : Dialogs(ans)
         /\ UNCHANGED sess => sess' = [sess EXCEPT ![c] = sess[c]]
         /\ UNCHANGED cli => cli' = [cli EXCEPT ![c] = cli[c]]
<1>1. NodesOK /\ TablesOK /\ BlacksOK /\ MonOK /\ UsageOK
  BY Here
<1>2. UNCHANGED tableVars => Table(c, conns[c])
  BY <1>1 DEF tableVars, Table, TablesOK, TableListed
<1>3. UNCHANGED blackVars => Barred(c, black[c])
  BY <1>1 DEF blackVars, Barred, BlacksOK
<1>4. UNCHANGED <<monVars, work>> => /\ MonOK' /\ OthersScanned(c)
                                     /\ \A x : (Once(x) => Once(x)') /\ (Unscanned(x) => Unscanned(x)')
                                     /\ \A cb \in Callbacks : Outstanding(c, cb)' <=> Outstanding(c, cb)
  BY <1>1, NoScanKeeps
<1>5. /\ UNCHANGED usageVars /\ timer' \in BOOLEAN => UsageOK'
      /\ UNCHANGED dialogVars => timer' \in BOOLEAN
      /\ UNCHANGED timer => timer' \in BOOLEAN
  BY <1>1 DEF usageVars, UsageOK, dialogVars
<1>6. Cancelled => \E ans \in Answers : Dialogs(ans)
  BY DEF Cancelled, Answers
<1>7. (UNCHANGED sess => sess' = [sess EXCEPT ![c] = sess[c]]) /\ (UNCHANGED cli => cli' = [cli EXCEPT ![c] = cli[c]])
  BY <1>1 DEF NodesOK
<1> QED BY <1>2, <1>3, <1>4, <1>5, <1>6, <1>7

\* A session without a request, or whose requests go on as they were.
LEMMA CalmScans ==
  ASSUME MPMInv, NEW c \in Sessions, NEW r, NEW k
  PROVE  /\ ~r.choose /\ r.perr = None => Proceeds(c, r)
         /\ ~r.choose /\ k.phase \notin {"new", "starting", "retrying", "choosing"} => Scanned(c, r, k)
         /\ /\ UNCHANGED <<monVars, work>> /\ r.choose = sess[c].choose /\ r.sdlg = sess[c].sdlg
            => /\ r.perr = sess[c].perr => Proceeds(c, r)
               /\ /\ (k.phase \in {"new", "starting", "retrying", "choosing"} => k.phase = cli[c].phase)
                  /\ r.reply \in {sess[c].reply, "none"}
                  => Scanned(c, r, k)
<1>1. ~r.choose /\ r.perr = None => Proceeds(c, r)
  BY DEF Proceeds
<1>2. ~r.choose /\ k.phase \notin {"new", "starting", "retrying", "choosing"} => Scanned(c, r, k)
  BY DEF Scanned
<1>3. ASSUME UNCHANGED <<monVars, work>>, r.choose = sess[c].choose, r.sdlg = sess[c].sdlg
      PROVE  /\ r.perr = sess[c].perr => Proceeds(c, r)
             /\ /\ (k.phase \in {"new", "starting", "retrying", "choosing"} => k.phase = cli[c].phase)
                  /\ r.reply \in {sess[c].reply, "none"}
                  => Scanned(c, r, k)
  <2>1. /\ \A x : (Once(x) => Once(x)') /\ (Unscanned(x) => Unscanned(x)')
        /\ \A cb \in Callbacks : Outstanding(c, cb)' <=> Outstanding(c, cb)
    BY <1>3, SameVars
  <2>2. RequestsProgress /\ ChoiceScanned(c)
    BY DEF MPMInv, ChoiceScans
  <2>3. r.perr = sess[c].perr => Proceeds(c, r)
    BY <1>3, <2>1, <2>2 DEF RequestsProgress, Proceeds, Callbacks
  <2>4. /\ (k.phase \in {"new", "starting", "retrying", "choosing"} => k.phase = cli[c].phase)
                  /\ r.reply \in {sess[c].reply, "none"}
                  => Scanned(c, r, k)
    BY <1>3, <2>1, <2>2 DEF Scanned, ChoiceScanned
  <2> QED BY <2>3, <2>4
<1> QED BY <1>1, <1>2, <1>3, Zenon

------------------------------------------------------------------------------
LEMMA OpenKeeps == ASSUME MPMInv, NEW c \in Sessions, Open(c) PROVE MPMInv'
<1> DEFINE r == [NoSession EXCEPT !.open = TRUE, !.wait = TRUE]
<1>1. Local(r, cli[c], conns[c], black[c]) /\ r \in Session
  BY Here, OpenLocal, NoSessionType DEF Open
<1>2. ~r.choose /\ r.perr = None /\ r.sdlg = None /\ r.rdlg = None /\ r.reply = "none"
  BY DEF NoSession
<1>3. /\ Quiet /\ sess' = [sess EXCEPT ![c] = r]
      /\ UNCHANGED <<cli, tableVars, blackVars, monVars, dialogVars, usageVars, work, fatal>>
  BY DEF Open
<1> HIDE DEF r
<1>4. sess[c].sdlg = None /\ sess[c].rdlg = None /\ cli[c].phase = "new" /\ cli[c] \in Client
  BY Here DEF Open, Local, Choosing, NotMobile
<1>5. Unscanned(Choice(c)) /\ Unscanned(Choice(c))'
  BY <1>3, <1>4, SameVars DEF MPMInv, ChoiceScans, ChoiceScanned
<1>6. Asks(c, r) /\ Proceeds(c, r) /\ Scanned(c, r, cli[c])
  BY <1>2, <1>3, <1>4, <1>5 DEF Asks, Proceeds, Scanned
<1> QED BY <1>1, <1>3, <1>4, <1>6, SameVars, QuietKeeps

LEMMA MigrationCompletedKeeps == ASSUME MPMInv, NEW c \in Sessions, MigrationCompleted(c) PROVE MPMInv'
<1> DEFINE k == [cli[c] EXCEPT !.mob = "decide"]
<1>0. cli[c].phase = "up" /\ cli[c].mob = "reconnect" /\ cli[c] \in Client /\ sess[c] \in Session
  BY Here DEF MigrationCompleted
<1>1. Local(sess[c], k, conns[c], black[c]) /\ k \in Client
  BY <1>0, Here, CompletedLocal
<1>2. /\ Quiet /\ Free(c) /\ cli' = [cli EXCEPT ![c] = k]
      /\ UNCHANGED <<sess, tableVars, blackVars, monVars, dialogVars, usageVars, work, fatal>>
  BY Here DEF MigrationCompleted, Ready, NodesOK
<1>3. k.phase = "up"
  BY <1>0 DEF Client
<1> HIDE DEF k
<1>4. Asks(c, sess[c]) /\ Proceeds(c, sess[c]) /\ Scanned(c, sess[c], k)
  BY <1>2, <1>3 DEF Asks, Proceeds, Scanned, Free
<1> QED BY <1>0, <1>1, <1>2, <1>4, SameVars, QuietKeeps

------------------------------------------------------------------------------
(* The choice of an IAP *)

\* r has what s has of everything but the choice of an IAP.
SameRest(s, r) ==
  /\ r.open = s.open /\ r.perr = s.perr /\ r.wait = s.wait /\ r.reg = s.reg /\ r.hold = s.hold
  /\ r.stored = s.stored /\ r.confirm = s.confirm /\ r.migrateIap = s.migrateIap
  /\ r.lastNotified = s.lastNotified /\ r.offers = s.offers /\ r.rdlg = s.rdlg /\ r.note = s.note

\* The ends of a selection: it is answered, granted or asked about.
Decided(c, s, r) ==
  /\ SameRest(s, r) /\ r.sel # None /\ Table(c, conns'[c])
  /\ \/ /\ ~r.choose /\ ~r.scanning /\ r.sdlg = s.sdlg
        /\ r.reply = IF s.choose THEN "error" ELSE s.reply
     \/ /\ ~r.choose /\ ~r.scanning /\ r.sdlg = s.sdlg
        /\ r.reply = IF s.choose THEN "ok" ELSE s.reply
        /\ conns'[c] # None /\ conns'[c].state = "Starting" /\ conns'[c].iap # NoIap
     \/ /\ r.choose = s.choose /\ r.scanning = s.scanning /\ r.reply = s.reply
        /\ r.sdlg # None /\ ~r.sel.silent

LEMMA CompleteFields ==
  ASSUME NEW s \in Session, NEW a \in {"ok", "error"}
  PROVE  /\ ChooseIapComplete(s, a) \in Session /\ SameRest(s, ChooseIapComplete(s, a))
         /\ ~ChooseIapComplete(s, a).choose /\ ~ChooseIapComplete(s, a).scanning
         /\ ChooseIapComplete(s, a).sdlg = s.sdlg /\ ChooseIapComplete(s, a).sel = s.sel
         /\ ChooseIapComplete(s, a).reply = IF s.choose THEN a ELSE s.reply
<1> DEFINE r == [s EXCEPT !.choose = FALSE, !.scanning = FALSE, !.reply = IF s.choose THEN a ELSE @]
<1>1. r \in Session
  <2> DEFINE q == IF s.choose THEN a ELSE s.reply
  <2>1. q \in {"none", "ok", "error", "Propagate", "Reselect", "Ignore"}
    BY DEF Session
  <2>2. r = [s EXCEPT !.choose = FALSE, !.scanning = FALSE, !.reply = q]
    BY DEF Session
  <2> HIDE DEF q, r
  <2> QED BY <2>1, <2>2 DEF Session
<1>2. /\ SameRest(s, r) /\ ~r.choose /\ ~r.scanning /\ r.sdlg = s.sdlg /\ r.sel = s.sel
      /\ r.reply = IF s.choose THEN a ELSE s.reply
  BY DEF Session, SameRest
<1> QED BY <1>1, <1>2 DEF ChooseIapComplete

LEMMA DecideResult ==
  ASSUME MPMInv, NEW c \in Sessions, NEW s \in Session, NEW i \in Iaps, NEW snap \in BOOLEAN,
         s.sel # None, Decide(c, s, i, snap)
  PROVE  \E r \in Session : sess' = [sess EXCEPT ![c] = r] /\ Decided(c, s, r)
<1>1. CASE /\ sess' = [sess EXCEPT ![c] = ChooseIapComplete(s, "ok")]
           /\ AppendBMConnection(c, snap, i, "Starting")
  <2>1. Table(c, conns'[c]) /\ conns'[c] # None /\ conns'[c].state = "Starting" /\ conns'[c].iap # NoIap
    BY <1>1, Here, AppendKeeps, ConstantsAssumption DEF Table, IapOrNone, States
  <2> QED BY <1>1, <2>1, CompleteFields DEF Decided
<1>2. CASE /\ sess' = [sess EXCEPT ![c] = [s EXCEPT !.sdlg = [snap |-> snap, iap |-> i]]]
           /\ ~s.sel.silent /\ UNCHANGED tableVars
  <2> DEFINE d == [snap |-> snap, iap |-> i]
             r == [s EXCEPT !.sdlg = d]
  <2>1. d \in StartingDlg /\ d # None
    BY ConstantsAssumption DEF StartingDlg
  <2> HIDE DEF d
  <2>2. r \in Session
    BY <2>1 DEF Session
  <2>3. /\ SameRest(s, r) /\ r.choose = s.choose /\ r.scanning = s.scanning /\ r.reply = s.reply
        /\ r.sdlg # None /\ r.sel = s.sel
    BY <2>1 DEF Session, SameRest
  <2>4. sess' = [sess EXCEPT ![c] = r] /\ Table(c, conns'[c])
    BY <1>2, SameVars DEF d, Table
  <2> HIDE DEF r
  <2>5. Decided(c, s, r)
    BY <1>2, <2>3, <2>4 DEF Decided
  <2> QED BY <2>2, <2>4, <2>5
<1>3. CASE sess' = [sess EXCEPT ![c] = ChooseIapComplete(s, "error")] /\ UNCHANGED tableVars
  <2>1. Table(c, conns'[c])
    BY <1>3, SameVars DEF Table
  <2> QED BY <1>3, <2>1, CompleteFields DEF Decided
<1> QED BY <1>1, <1>2, <1>3 DEF Decide, MayAsk

\* The session the best IAP is decided for.
LEMMA ExplicitSelected ==
  ASSUME MPMInv, NEW c \in Sessions, NEW s \in Session, s.sel # None, CompleteExplicitSnapConnection(c, s)
  PROVE  \/ sess' = [sess EXCEPT ![c] = ChooseIapComplete(s, "error")] /\ UNCHANGED tableVars
         \/ \E i \in Iaps, q \in Session :
              /\ Decide(c, q, i, TRUE) /\ q.sel # None /\ SameRest(s, q)
              /\ q.choose = s.choose /\ q.scanning = s.scanning /\ q.reply = s.reply /\ q.sdlg = s.sdlg
<1> DEFINE i == ChooseBestIAP(AvailableUnblacklistedIaps(avail, black[c]))
           q == [s EXCEPT !.sel.iap = i]
<1>2. CASE i # NoIap /\ Decide(c, q, i, TRUE)
  <2>1. i \in Iaps
    <3>1. avail \in SUBSET Iaps
      BY Here DEF MonOK
    <3>2. AvailableUnblacklistedIaps(avail, black[c]) \in SUBSET Iaps
      BY <3>1 DEF AvailableUnblacklistedIaps
    <3> QED BY <1>2, <3>2, BestIsIn
  <2> HIDE DEF i
  <2>2. s.sel \in Pref
    BY DEF Session
  <2> DEFINE p == [s.sel EXCEPT !.iap = i]
  <2>3. p \in Pref /\ p # None
    BY <2>1, <2>2, ConstantsAssumption DEF Pref, IapOrNone
  <2>4. q = [s EXCEPT !.sel = p]
    OBVIOUS
  <2> HIDE DEF p, q
  <2>5. q \in Session /\ q.sel # None /\ SameRest(s, q) /\ q.choose = s.choose /\ q.scanning = s.scanning
        /\ q.reply = s.reply /\ q.sdlg = s.sdlg
    BY <2>3, <2>4 DEF Session, SameRest
  <2> QED BY <1>2, <2>1, <2>5
<1> QED BY <1>2 DEF CompleteExplicitSnapConnection

LEMMA ExplicitResult ==
  ASSUME MPMInv, NEW c \in Sessions, NEW s \in Session, s.sel # None, CompleteExplicitSnapConnection(c, s)
  PROVE  \E r \in Session : sess' = [sess EXCEPT ![c] = r] /\ Decided(c, s, r)
<1>1. CASE sess' = [sess EXCEPT ![c] = ChooseIapComplete(s, "error")] /\ UNCHANGED tableVars
  <2>1. Table(c, conns'[c])
    BY <1>1, SameVars DEF Table
  <2> QED BY <1>1, <2>1, CompleteFields DEF Decided
<1>2. ASSUME NEW i \in Iaps, NEW q \in Session, Decide(c, q, i, TRUE), q.sel # None, SameRest(s, q),
             q.choose = s.choose, q.scanning = s.scanning, q.reply = s.reply, q.sdlg = s.sdlg
      PROVE  \E r \in Session : sess' = [sess EXCEPT ![c] = r] /\ Decided(c, s, r)
  <2>1. PICK r \in Session : sess' = [sess EXCEPT ![c] = r] /\ Decided(c, q, r)
    BY <1>2, DecideResult
  <2>2. Decided(c, s, r)
    BY <1>2, <2>1 DEF Decided, SameRest
  <2> QED BY <2>1, <2>2
<1> QED BY <1>1, <1>2, ExplicitSelected

\* A scan instead.
Searching(c, s, r) ==
  /\ SameRest(s, r) /\ r.sel # None /\ r.scanning /\ r.choose = s.choose /\ r.sdlg = s.sdlg
  /\ r.reply = s.reply
  /\ ScanWLANNetworks(c, "ChooseIap") /\ UNCHANGED tableVars

\* What ChooseIapL makes of a preference, and ExplicitSnap of the session.
Preference(e, pref) ==
  IF GetBMSnap(e) THEN [pref EXCEPT !.snap = TRUE, !.iap = NoIap]
  ELSE IF GetBMIap(e) # NoIap THEN [pref EXCEPT !.snap = FALSE, !.iap = e.iap]
  ELSE pref

LEMMA PreferenceTyped ==
  ASSUME NEW e \in Entries, NEW pref \in Pref
  PROVE  Preference(e, pref) \in Pref /\ Preference(e, pref) # None
<1>2. GetBMIap(e) # NoIap => e.iap \in IapOrNone
  BY DEF Entries, Conn, GetBMIap
<1>3. \A n \in BOOLEAN, j \in IapOrNone : [pref EXCEPT !.snap = n, !.iap = j] \in Pref
  BY DEF Pref
<1>4. NoIap \in IapOrNone
  BY DEF IapOrNone
<1>5. Preference(e, pref) \in Pref
  BY <1>2, <1>3, <1>4 DEF Preference
<1> QED BY <1>5, ConstantsAssumption

LEMMA ChooseIapLResult ==
  ASSUME MPMInv, NEW c \in Sessions, NEW s \in Session, NEW pref \in Pref, ChooseIapL(c, s, pref)
  PROVE  \E r \in Session : /\ sess' = [sess EXCEPT ![c] = r]
                            /\ (Decided(c, s, r) /\ UNCHANGED monVars) \/ Searching(c, s, r)
<1> DEFINE p == Preference(conns[c], pref)
           chosen == [s EXCEPT !.sel = p]
<1>1. p \in Pref /\ p # None
  BY Here, PreferenceTyped
<1>2. \/ /\ sess' = [sess EXCEPT ![c] = ChooseIapComplete(chosen, "error")]
         /\ UNCHANGED <<tableVars, monVars>>
      \/ /\ p.iap # NoIap /\ Decide(c, chosen, p.iap, p.iap \in Wlans /\ p.snap) /\ UNCHANGED monVars
      \/ /\ sess' = [sess EXCEPT ![c] = [chosen EXCEPT !.scanning = TRUE]]
         /\ ScanWLANNetworks(c, "ChooseIap") /\ UNCHANGED tableVars
      \/ CompleteExplicitSnapConnection(c, chosen) /\ UNCHANGED monVars
  BY DEF ChooseIapL, Preference
<1> HIDE DEF p
<1>3. /\ chosen \in Session /\ chosen.sel # None /\ SameRest(s, chosen) /\ chosen.choose = s.choose
      /\ chosen.scanning = s.scanning /\ chosen.reply = s.reply /\ chosen.sdlg = s.sdlg
  BY <1>1 DEF Session, SameRest
<1> HIDE DEF chosen
<1>4. \A r : Decided(c, chosen, r) => Decided(c, s, r)
  BY <1>3 DEF Decided, SameRest
<1>5. CASE /\ sess' = [sess EXCEPT ![c] = ChooseIapComplete(chosen, "error")]
           /\ UNCHANGED <<tableVars, monVars>>
  <2>1. Table(c, conns'[c])
    BY <1>5, SameVars DEF Table
  <2>2. Decided(c, chosen, ChooseIapComplete(chosen, "error"))
    BY <1>3, <2>1, CompleteFields DEF Decided
  <2> QED BY <1>3, <1>4, <1>5, <2>2, CompleteFields
<1>6. CASE p.iap # NoIap /\ Decide(c, chosen, p.iap, p.iap \in Wlans /\ p.snap) /\ UNCHANGED monVars
  <2>1. p.iap \in Iaps /\ (p.iap \in Wlans /\ p.snap) \in BOOLEAN
    BY <1>1, <1>6 DEF Pref, IapOrNone
  <2> QED BY <1>3, <1>4, <1>6, <2>1, DecideResult
<1>7. CASE /\ sess' = [sess EXCEPT ![c] = [chosen EXCEPT !.scanning = TRUE]]
           /\ ScanWLANNetworks(c, "ChooseIap") /\ UNCHANGED tableVars
  <2> DEFINE r == [chosen EXCEPT !.scanning = TRUE]
  <2>1. /\ r \in Session /\ SameRest(chosen, r) /\ r.sel = chosen.sel /\ r.choose = chosen.choose
        /\ r.sdlg = chosen.sdlg /\ r.reply = chosen.reply /\ r.scanning
    BY <1>3 DEF Session, SameRest
  <2> HIDE DEF r
  <2>2. Searching(c, s, r)
    BY <1>3, <1>7, <2>1 DEF Searching, SameRest
  <2> QED BY <1>7, <2>1, <2>2 DEF r
<1>8. CASE CompleteExplicitSnapConnection(c, chosen) /\ UNCHANGED monVars
  BY <1>3, <1>4, <1>8, ExplicitResult
<1> QED BY <1>2, <1>5, <1>6, <1>7, <1>8

LEMMA ChooseKeeps ==
  ASSUME MPMInv, Quiet, NEW c \in Sessions, NEW s \in Session, NEW pref \in Pref, NEW k \in Client,
         ChooseIapL(c, s, pref), Cancelled, cli' = [cli EXCEPT ![c] = k],
         k.phase = "choosing", k.mob = cli[c].mob, k.iap = cli[c].iap, k.pref = cli[c].pref,
         k.stored = cli[c].stored, k.refused = cli[c].refused,
         SameRest(sess[c], s), s.open, s.perr = None, s.reply = "none",
         \/ cli[c].phase \in {"new", "retrying"} /\ s.choose /\ s.sdlg = None /\ ~s.scanning
         \/ cli[c].phase = "choosing" /\ ~s.choose /\ ~Disciplined,
         UNCHANGED <<blackVars, timer, usageVars, work, fatal>>
  PROVE  MPMInv'
<1>0. /\ sess[c] \in Session /\ cli[c] \in Client /\ conns[c] \in Entries /\ black[c] \in Blacks
      /\ Local(sess[c], cli[c], conns[c], black[c]) /\ MonOK /\ ChoiceScanned(c)
  BY Here DEF MPMInv, ChoiceScans
<1>1. PICK r \in Session : /\ sess' = [sess EXCEPT ![c] = r]
                           /\ (Decided(c, s, r) /\ UNCHANGED monVars) \/ Searching(c, s, r)
  BY ChooseIapLResult
<1>2. Table(c, conns'[c]) /\ Barred(c, black[c]) /\ UsageOK' /\ Asks(c, r)
  <2>1. Table(c, conns'[c])
    BY <1>1, SameVars DEF Decided, Searching, Table
  <2> QED BY <2>1, SameVars DEF Asks
<1>3. conns'[c] \in Entries
  BY <1>2 DEF Table, TablesOK
<1>4. SameRest(sess[c], r) /\ r.perr = None
  BY <1>1 DEF Decided, Searching, SameRest
<1>5. Local(r, k, conns'[c], black[c])
  <2>1. /\ r.choose => r.sel # None
        /\ r.choose /\ r.sdlg = None => r.scanning
        /\ Disciplined /\ r.scanning => r.choose
        /\ r.reply # "none" => ~r.choose /\ ~r.scanning /\ r.sdlg = None
        /\ r.reply # "Reselect"
        /\ Disciplined /\ r.sdlg # None => r.choose /\ ~r.sel.silent
        /\ r.reply = "ok" => conns'[c] # None /\ conns'[c].state = "Starting" /\ conns'[c].iap # NoIap
    <3>1. CASE Decided(c, s, r)
      BY <3>1 DEF Decided
    <3>2. CASE Searching(c, s, r)
      BY <3>2 DEF Searching
    <3> QED BY <1>1, <3>1, <3>2
  <2>2. sess[c].open /\ sess[c].perr = None
    BY DEF SameRest
  <2> QED BY <1>0, <1>3, <1>4, <2>1, <2>2, ChooseLocal DEF SameRest
<1>6. s.choose => Unscanned(Choice(c))
  BY <1>0 DEF ChoiceScanned
<1>7. MonOK' /\ OthersScanned(c) /\ Proceeds(c, r) /\ Scanned(c, r, k)
  <2>1. CASE Decided(c, s, r) /\ UNCHANGED monVars
    <3>1. MonOK' /\ OthersScanned(c) /\ (Unscanned(Choice(c)) => Unscanned(Choice(c))')
      BY <2>1, SameVars
    <3>2. Unscanned(Choice(c))' => Once(Choice(c))'
      BY DEF Unscanned, Once
    <3>3. r.choose \/ r.reply # "none" => s.choose
      BY <2>1 DEF Decided
    <3>4. r.choose => r.sdlg # None
      BY <2>1 DEF Decided
    <3>5. Scanned(c, r, k)
      BY <1>6, <3>1, <3>2, <3>3 DEF Scanned
    <3> QED BY <1>4, <3>1, <3>4, <3>5 DEF Proceeds
  <2>2. CASE Searching(c, s, r)
    <3>1. /\ MonOK' /\ OthersScanned(c) /\ Outstanding(c, "ChooseIap")'
          /\ Unscanned(Choice(c)) => Once(Choice(c))'
      BY <1>0, <2>2, ScanKeeps DEF Searching, Callbacks, Choice
    <3>2. Scanned(c, r, k)
      BY <1>6, <2>2, <3>1 DEF Scanned, Searching
    <3> QED BY <1>4, <3>1, <3>2 DEF Proceeds
  <2> QED BY <1>1, <2>1, <2>2
<1> QED BY <1>1, <1>2, <1>5, <1>7, QuietKeeps

LEMMA ChooseIapKeeps ==
  ASSUME MPMInv, NEW c \in Sessions, \/ \E pref \in Prefs : ChooseIap(c, pref)
                                     \/ ReselectIap(c) \/ ReselectWhileHeld(c)
  PROVE  MPMInv'
<1>0. /\ sess[c] \in Session /\ cli[c] \in Client /\ Choosing(sess[c], cli[c]) /\ Granted(sess[c], cli[c], conns[c])
      /\ Asked(sess[c], cli[c])
  BY Here DEF Local
<1> DEFINE k == [cli[c] EXCEPT !.phase = "choosing"]
<1>1. /\ k \in Client /\ k.phase = "choosing" /\ k.mob = cli[c].mob /\ k.iap = cli[c].iap /\ k.pref = cli[c].pref
      /\ k.stored = cli[c].stored /\ k.refused = cli[c].refused
  BY <1>0 DEF Client
<1> HIDE DEF k
<1>2. ASSUME NEW pref \in Prefs, ChooseIap(c, pref) PROVE MPMInv'
  <2> DEFINE s == [sess[c] EXCEPT !.choose = TRUE]
  <2>1. /\ Quiet /\ sess[c].open /\ sess[c].perr = None /\ sess[c].reply = "none" /\ cli[c].phase = "new"
        /\ ChooseIapL(c, s, pref) /\ Cancelled /\ cli' = [cli EXCEPT ![c] = k]
        /\ UNCHANGED <<blackVars, timer, usageVars, work, fatal>>
    BY <1>2 DEF ChooseIap, Ready, Free, k
  <2>2. /\ s \in Session /\ SameRest(sess[c], s) /\ s.choose /\ s.reply = "none"
        /\ s.sdlg = sess[c].sdlg /\ s.scanning = sess[c].scanning
    BY <1>0, <2>1 DEF Session, SameRest
  <2>3. s.open /\ s.perr = None /\ pref \in Pref /\ s.sdlg = None /\ ~s.scanning
    BY <1>0, <2>1, <2>2, ConstantsAssumption DEF SameRest, Choosing
  <2> HIDE DEF s
  <2> QED BY <1>1, <2>1, <2>2, <2>3, ChooseKeeps
<1>3. ASSUME ReselectIap(c) PROVE MPMInv'
  <2> DEFINE s == [sess[c] EXCEPT !.choose = TRUE, !.reply = "none"]
  <2>1. /\ Quiet /\ sess[c].reply = "Reselect"
        /\ ChooseIapL(c, s, sess[c].sel) /\ Cancelled /\ cli' = [cli EXCEPT ![c] = k]
        /\ UNCHANGED <<blackVars, timer, usageVars, work, fatal>>
    BY <1>3 DEF ReselectIap, k
  <2>2. /\ s \in Session /\ SameRest(sess[c], s) /\ s.choose = TRUE /\ s.reply = "none"
        /\ s.sdlg = sess[c].sdlg /\ s.scanning = sess[c].scanning
    BY <1>0 DEF Session, SameRest
  <2>3. /\ cli[c].phase = "retrying" /\ sess[c].sel \in Pref
        /\ s.open /\ s.perr = None /\ s.sdlg = None /\ ~s.scanning
    <3>1. /\ cli[c].phase = "retrying" /\ sess[c].sel # None
          /\ sess[c].perr = None /\ sess[c].sdlg = None /\ ~sess[c].scanning
      BY <1>0, <2>1 DEF Choosing
    <3>2. sess[c].open
      BY <1>0, <3>1 DEF Asked
    <3>3. sess[c].sel \in Pref
      BY <1>0, <3>1 DEF Session
    <3> QED BY <2>2, <3>1, <3>2, <3>3 DEF SameRest
  <2> HIDE DEF s
  <2> QED BY <1>1, <2>1, <2>2, <2>3, ChooseKeeps
<1>4. ASSUME ReselectWhileHeld(c) PROVE MPMInv'
  <2> DEFINE s == [sess[c] EXCEPT !.choose = FALSE]
  <2>1. /\ Quiet /\ ~Disciplined /\ sess[c].choose
        /\ ChooseIapL(c, s, sess[c].sel) /\ Cancelled /\ UNCHANGED cli
        /\ UNCHANGED <<blackVars, timer, usageVars, work, fatal>>
    BY <1>4 DEF ReselectWhileHeld
  <2>2. cli[c].phase = "choosing" /\ sess[c].sel # None /\ sess[c].reply = "none" /\ sess[c].perr = None
    BY <1>0, <2>1 DEF Choosing, Granted
  <2>3. /\ s \in Session /\ SameRest(sess[c], s) /\ ~s.choose /\ s.reply = "none"
    BY ZenonT(40), <1>0, <2>2 DEF Session, SameRest
  <2>4. s.open /\ s.perr = None /\ sess[c].sel \in Pref /\ cli' = [cli EXCEPT ![c] = cli[c]]
    <3>1. sess[c].open /\ sess[c].sel \in Pref
      BY <1>0, <2>2 DEF Asked, Session
    <3> QED BY <2>1, <2>2, <2>3, <3>1, SameVars DEF SameRest
  <2> HIDE DEF s
  <2> QED BY <1>0, <2>1, <2>2, <2>3, <2>4, ChooseKeeps
<1> QED BY <1>2, <1>3, <1>4

------------------------------------------------------------------------------
(* The node's own steps *)

LEMMA CancelChooseKeeps == ASSUME MPMInv, NEW c \in Sessions, CancelChoose(c) PROVE MPMInv'
<1> DEFINE s == sess[c]
           r == [s EXCEPT !.choose = FALSE, !.scanning = FALSE, !.reply = "none", !.sel = None, !.sdlg = None]
           k == [cli[c] EXCEPT !.phase = "ended"]
<1>0. /\ s \in Session /\ cli[c] \in Client /\ conns[c] \in Entries /\ black[c] \in Blacks /\ MonOK
      /\ Local(s, cli[c], conns[c], black[c])
  BY Here
<1>1. /\ Quiet /\ s.choose /\ CancelScan(c) /\ Cancelled /\ cli' = [cli EXCEPT ![c] = k]
      /\ UNCHANGED <<tableVars, blackVars, timer, usageVars, work, fatal>>
      /\ sess' = [sess EXCEPT ![c] =
           [ChooseIapComplete(s, "error") EXCEPT !.reply = "none", !.sel = None, !.sdlg = None]]
  BY DEF CancelChoose
<1>2. [ChooseIapComplete(s, "error") EXCEPT !.reply = "none", !.sel = None, !.sdlg = None] = r
  BY <1>0 DEF ChooseIapComplete, Session
<1>3. Local(r, k, conns[c], black[c]) /\ r \in Session /\ k \in Client
  BY <1>0, <1>1, CancelChooseLocal
<1>4. ~r.choose /\ r.perr = s.perr /\ k.phase = "ended"
  BY <1>0 DEF Session, Client
<1>5. s.perr = None
  BY <1>0, <1>1 DEF Local, Choosing, Granted
<1> HIDE DEF s, r, k
<1>6. MonOK' /\ OthersScanned(c)
  BY <1>0, <1>1, CancelScanKeeps
<1>7. Asks(c, r) /\ Proceeds(c, r) /\ Scanned(c, r, k)
  BY <1>1, <1>4, <1>5, SameVars, CalmScans DEF Asks
<1> QED BY <1>1, <1>2, <1>3, <1>6, <1>7, SameVars, QuietKeeps

\* What starts in the table when c has started.
LEMMA StartedTogether ==
  ASSUME MPMInv, NEW c \in Sessions, IapConnectionStarted(c), NEW d \in Sessions
  PROVE  \/ conns'[d] = conns[d] /\ d # c
         \/ /\ conns[d] \in Conn /\ conns'[d] \in Conn /\ conns'[d].snap = conns[d].snap
            /\ conns'[d].iap = conns[d].iap /\ conns[d].iap # NoIap
            /\ conns'[d].state = "Started" /\ (d # c => ~conns[d].snap)
<1> DEFINE f == [conns[d] EXCEPT !.state = "Started"]
<1>1. /\ conns[c] \in Conn /\ conns[c].iap # NoIap
  BY Here DEF IapConnectionStarted, Local, Granted, Entries
<1>2. conns'[d] = IF StartedWith(c, d) THEN f ELSE conns[d]
  BY DEF IapConnectionStarted
<1>3. CASE StartedWith(c, d)
  <2>1. conns[d] \in Conn /\ conns[d].iap # NoIap /\ (d # c => ~conns[d].snap)
    BY <1>1, <1>3, Here DEF StartedWith, Entries
  <2>2. f \in Conn /\ f.snap = conns[d].snap /\ f.iap = conns[d].iap /\ f.state = "Started"
    BY <2>1 DEF Conn, States
  <2> QED BY <1>2, <1>3, <2>1, <2>2
<1>4. CASE ~StartedWith(c, d)
  BY <1>2, <1>4 DEF StartedWith
<1> QED BY <1>3, <1>4

LEMMA IapConnectionStartedKeeps == ASSUME MPMInv, NEW c \in Sessions, IapConnectionStarted(c) PROVE MPMInv'
<1> DEFINE k == [cli[c] EXCEPT !.phase = "up"]
<1>0. /\ NodesOK /\ TablesOK /\ BlacksOK /\ MonOK /\ UsageOK /\ WorkOK /\ DialogsOK
      /\ AllLocal /\ QueuesMatch /\ RequestsProgress /\ ChoiceScans /\ LoopInRange
  BY TypeSplit DEF MPMInv
<1>1. /\ Free(c) /\ cli[c].phase = "starting" /\ cli' = [cli EXCEPT ![c] = k]
      /\ conns' = [d \in Sessions |->
           IF StartedWith(c, d) THEN [conns[d] EXCEPT !.state = "Started"] ELSE conns[d]]
      /\ UNCHANGED <<sess, connOrder, black, blackOrder, avail, discard, discarded, scans, obsolete,
                     startQ, roamQ, timer, carry, usage, usageSeen, work, fatal>>
  BY DEF IapConnectionStarted, Ready, blackVars, monVars, dialogVars, usageVars
<1>2. k.phase = "up" /\ k \in Client
  BY <1>0 DEF NodesOK, Client
<1> HIDE DEF k
<1>3. /\ NodesOK' /\ cli'[c] = k /\ \A d \in Sessions \ {c} : cli'[d] = cli[d]
  BY <1>0, <1>1, <1>2 DEF NodesOK
<1>4. ASSUME NEW d \in Sessions
      PROVE  conns'[d] \in Entries /\ (conns[d] # None => conns'[d] # None)
  BY <1>0, StartedTogether, ConstantsAssumption DEF TablesOK, Entries
<1>5. TablesOK'
  <2>1. conns' \in [Sessions -> Entries]
    BY <1>1, <1>4
  <2>2. TableListed'
    BY <1>0, <1>1, <1>4 DEF TablesOK, TableListed
  <2> QED BY <1>0, <1>1, <2>1, <2>2 DEF TablesOK
<1>6. BlacksOK' /\ MonOK' /\ UsageOK' /\ WorkOK' /\ DialogsOK' /\ LoopInRange'
  BY <1>0, <1>1 DEF BlacksOK, MonOK, UsageOK, WorkOK, DialogsOK, LoopInRange
<1>7. AllLocal'
  <2> SUFFICES ASSUME NEW d \in Sessions PROVE Local(sess[d], cli'[d], conns'[d], black[d])
    BY <1>1 DEF AllLocal
  <2>1. /\ sess[d] \in Session /\ cli[d] \in Client /\ black[d] \in Blacks
        /\ Local(sess[d], cli[d], conns[d], black[d])
    BY Here
  <2>2. CASE d = c
    <3>1. /\ conns[c] \in Conn /\ conns'[c] \in Conn /\ conns'[c].snap = conns[c].snap
          /\ conns'[c].iap = conns[c].iap /\ conns'[c].state = "Started"
      BY StartedTogether
    <3>2. conns[c] # None /\ conns[c] \in Entries
      BY <3>1, ConstantsAssumption DEF Entries
    <3>3. Local(sess[c], k, conns'[c], black[c])
      BY <1>1, <2>1, <2>2, <3>1, <3>2, StartedLocal DEF Free, k
    <3> QED BY <1>3, <2>2, <3>3
  <2>3. CASE d # c
    <3>1. conns'[d] = conns[d] \/
            /\ conns[d] \in Conn /\ conns'[d] \in Conn /\ conns'[d].snap = conns[d].snap
            /\ conns'[d].iap = conns[d].iap /\ conns[d].iap # NoIap
            /\ conns'[d].state = "Started" /\ ~conns[d].snap
      BY <2>3, StartedTogether
    <3>2. Local(sess[d], cli[d], conns'[d], black[d])
      BY <2>1, <3>1, TogetherLocal
    <3> QED BY <1>3, <2>3, <3>2
  <2> QED BY <2>2, <2>3
<1>8. QueuesMatch'
  BY <1>0, <1>1 DEF QueuesMatch
<1>9. RequestsProgress' /\ ChoiceScans'
  <2>1. \A x : (Once(x) => Once(x)') /\ (Unscanned(x) => Unscanned(x)')
    BY <1>1 DEF Once, Unscanned
  <2>2. RequestsProgress'
    BY <1>0, <1>1 DEF RequestsProgress, Outstanding
  <2>3. ChoiceScans'
    BY <1>0, <1>1, <1>2, <1>3, <2>1 DEF ChoiceScans, ChoiceScanned, Free
  <2> QED BY <2>2, <2>3
<1> QED BY <1>3, <1>5, <1>6, <1>7, <1>8, <1>9, TypeSplit DEF MPMInv

LEMMA ReadNotificationKeeps == ASSUME MPMInv, NEW c \in Sessions, ReadNotification(c) PROVE MPMInv'
<1> DEFINE s == sess[c]
           r == [s EXCEPT !.note = None, !.wait = TRUE]
           k == Deliver(cli[c], s.note)
<1>0. /\ s \in Session /\ cli[c] \in Client /\ conns[c] \in Entries /\ black[c] \in Blacks
      /\ Local(s, cli[c], conns[c], black[c])
  BY Here
<1>1. /\ Quiet /\ s.note # None /\ (s.note.type = "stop" => Free(c))
      /\ cli' = [cli EXCEPT ![c] = k] /\ sess' = [sess EXCEPT ![c] = r]
      /\ UNCHANGED <<tableVars, blackVars, monVars, dialogVars, usageVars, work, fatal>>
  BY DEF ReadNotification
<1>2. s.note \in Note
  BY <1>0, <1>1 DEF Session
<1>3. /\ r.choose = s.choose /\ r.perr = s.perr /\ r.sdlg = s.sdlg /\ r.rdlg = s.rdlg /\ r.reply = s.reply
  BY <1>0 DEF Session
<1>4. k \in Client /\ Delivers(cli[c], s.note, k)
  BY <1>0, <1>2, DeliverResult
<1>5. k.phase \in {cli[c].phase, "down"}
  BY <1>4 DEF Delivers
<1> HIDE DEF k
<1>6. Local(r, k, conns[c], black[c]) /\ r \in Session
  BY <1>0, <1>1, <1>4, ReadsNoteLocal DEF Free
<1> HIDE DEF r
<1>7. Asks(c, r) /\ Proceeds(c, r) /\ Scanned(c, r, k)
  BY <1>1, <1>3, <1>5, CalmScans DEF Asks
<1> QED BY <1>0, <1>1, <1>4, <1>6, <1>7, SameVars, QuietKeeps

LEMMA ReadReplyKeeps == ASSUME MPMInv, NEW c \in Sessions, ReadReply(c) PROVE MPMInv'
<1> DEFINE s == sess[c]
           r == [s EXCEPT !.reply = "none"]
           k == AfterReply(cli[c], s.reply, GetBMIap(conns[c]))
<1>0. /\ s \in Session /\ cli[c] \in Client /\ conns[c] \in Entries /\ black[c] \in Blacks
      /\ Local(s, cli[c], conns[c], black[c]) /\ ChoiceScanned(c)
  BY Here DEF MPMInv, ChoiceScans
<1>1. /\ Quiet /\ s.reply # "none" /\ s.reply # "Reselect"
      /\ cli' = [cli EXCEPT ![c] = k] /\ sess' = [sess EXCEPT ![c] = r]
      /\ UNCHANGED <<tableVars, blackVars, monVars, dialogVars, usageVars, work, fatal>>
  BY DEF ReadReply
<1>2. GetBMIap(conns[c]) \in IapOrNone
  BY <1>0 DEF GetBMIap, Entries, Conn, IapOrNone
<1>3. k \in Client /\ Replied(cli[c], s.reply, GetBMIap(conns[c]), k)
  BY <1>0, <1>2, AfterReplyResult
<1>4. /\ r.choose = s.choose /\ r.perr = s.perr /\ r.sdlg = s.sdlg /\ r.rdlg = s.rdlg /\ r.reply = "none"
      /\ ~s.choose /\ s.perr = None
  BY <1>0, <1>1 DEF Session, Local, Choosing
<1> HIDE DEF k
<1>5. Local(r, k, conns[c], black[c]) /\ r \in Session
  BY <1>0, <1>1, <1>3, ReadsReplyLocal
<1>6. k.phase \in {"new", "starting", "retrying"} => Unscanned(Choice(c))
  BY <1>0, <1>1, <1>3 DEF Replied, Waits, ChoiceScanned
<1> HIDE DEF r
<1>7. Unscanned(Choice(c)) => Unscanned(Choice(c))'
  BY <1>1, SameVars
<1>8. Asks(c, r) /\ Proceeds(c, r) /\ Scanned(c, r, k)
  BY <1>1, <1>4, <1>6, <1>7 DEF Asks, Proceeds, Scanned
<1> QED BY <1>0, <1>1, <1>3, <1>5, <1>8, SameVars, QuietKeeps

LEMMA ApplicationLeavesConnectionKeeps ==
  ASSUME MPMInv, NEW c \in Sessions, ApplicationLeavesConnection(c)
  PROVE  MPMInv'
<1> DEFINE k == [cli[c] EXCEPT !.phase = "left"]
<1>0. /\ sess[c] \in Session /\ cli[c] \in Client /\ conns[c] \in Entries /\ black[c] \in Blacks /\ TablesOK
      /\ Local(sess[c], cli[c], conns[c], black[c])
  BY Here
<1>1. /\ Quiet /\ Free(c) /\ cli[c].phase \in {"up", "down"} /\ cli' = [cli EXCEPT ![c] = k]
      /\ ResetBMConnection(c)
      /\ UNCHANGED <<sess, blackVars, monVars, dialogVars, usageVars, work, fatal>>
  BY DEF ApplicationLeavesConnection, Ready
<1>2. Table(c, conns'[c]) /\ conns'[c] \in Entries
  BY <1>0, <1>1, ResetKeeps DEF Table, TablesOK
<1>3. k.phase = "left"
  BY <1>0 DEF Client
<1>4. Local(sess[c], k, conns'[c], black[c]) /\ k \in Client
  BY <1>0, <1>1, <1>2, LeavesLocal DEF Free
<1> HIDE DEF k
<1>5. Asks(c, sess[c]) /\ Proceeds(c, sess[c]) /\ Scanned(c, sess[c], k)
  BY <1>1, <1>3, CalmScans DEF Asks, Free
<1> QED BY <1>0, <1>1, <1>2, <1>4, <1>5, SameVars, QuietKeeps

LEMMA CancelProcessErrorKeeps == ASSUME MPMInv, NEW c \in Sessions, CancelProcessError(c) PROVE MPMInv'
<1> DEFINE s == sess[c]
           r == [s EXCEPT !.perr = None]
           k == [cli[c] EXCEPT !.phase = "down"]
<1>0. /\ s \in Session /\ cli[c] \in Client /\ conns[c] \in Entries /\ black[c] \in Blacks /\ MonOK
      /\ Local(s, cli[c], conns[c], black[c])
  BY Here
<1>1. /\ Quiet /\ s.perr # None /\ CancelScan(c) /\ sess' = [sess EXCEPT ![c] = r]
      /\ cli' = [cli EXCEPT ![c].phase = IF @ = "retrying" THEN "ended" ELSE "down"]
      /\ UNCHANGED <<tableVars, blackVars, dialogVars, usageVars, work, fatal>>
  BY DEF CancelProcessError
<1>2. cli[c].phase # "retrying" /\ ~s.choose
  BY <1>0, <1>1 DEF Local, Granted, Choosing
<1>3. cli' = [cli EXCEPT ![c] = k]
  BY <1>1, <1>2
<1>4. Local(r, k, conns[c], black[c]) /\ r \in Session /\ k \in Client
  BY <1>0, <1>1, CancelErrorLocal
<1>5. ~r.choose /\ r.perr = None /\ k.phase = "down" /\ r.sdlg = s.sdlg /\ r.rdlg = s.rdlg
  BY <1>0, <1>2 DEF Session, Client
<1> HIDE DEF r, k
<1>6. MonOK' /\ OthersScanned(c)
  BY <1>0, <1>1, CancelScanKeeps
<1>7. Asks(c, r) /\ Proceeds(c, r) /\ Scanned(c, r, k)
  BY <1>1, <1>5, CalmScans DEF Asks
<1> QED BY <1>1, <1>3, <1>4, <1>6, <1>7, SameVars, QuietKeeps

LEMMA ChooseWhileHeldKeeps == ASSUME MPMInv, NEW c \in Sessions, ChooseWhileHeld(c) PROVE MPMInv'
<1>1. /\ UNCHANGED <<sess, cli, tableVars, blackVars, monVars, dialogVars, usageVars, work>>
      /\ fatal' = "null message"
  BY DEF ChooseWhileHeld
<1>2. TypeOK'
  BY <1>1 DEF MPMInv, TypeOK, tableVars, blackVars, monVars, dialogVars, usageVars
<1>3. AllLocal' /\ TableListed' /\ LoopInRange' /\ QueuesMatch'
  BY <1>1 DEF MPMInv, AllLocal, TableListed, LoopInRange, QueuesMatch, tableVars, blackVars, dialogVars
<1>4. RequestsProgress' /\ ChoiceScans'
  BY <1>1 DEF MPMInv, RequestsProgress, ChoiceScans, ChoiceScanned, Outstanding, Once, Unscanned, monVars
<1> QED BY <1>2, <1>3, <1>4 DEF MPMInv

------------------------------------------------------------------------------
(* Registering, accepting and ignoring *)

\* A handler of a request that leaves no request with the session.
LEMMA ReadyKeeps ==
  ASSUME MPMInv, NEW c \in Sessions, Ready(c), NEW r \in Session, NEW k \in Client, NEW f, NEW b,
         sess' = [sess EXCEPT ![c] = r], cli' = [cli EXCEPT ![c] = k],
         Table(c, f), Barred(c, b), Local(r, k, f, b), MonOK', OthersScanned(c),
         UNCHANGED <<timer, usageVars, work, fatal>>, Cancelled,
         ~r.choose, r.perr = None, k.phase \notin {"new", "starting", "retrying", "choosing"}
  PROVE  MPMInv'
<1>1. Asks(c, r) /\ UsageOK'
  BY SameVars DEF Asks
<1>2. Proceeds(c, r) /\ Scanned(c, r, k)
  BY CalmScans
<1> QED BY <1>1, <1>2, QuietKeeps DEF Ready

\* What a session with no request has of those after an offer or an error notification.
LEMMA ReachedCalm ==
  ASSUME NEW s \in Session, NEW cl \in Client, NEW e \in Entries, NEW b \in Blacks, Local(s, cl, e, b),
         NEW info \in SUBSET Iaps, NEW r, Reached(s, r, e, b, info), ~s.choose, s.perr = None
  PROVE  r \in Session /\ Local(r, cl, e, b) /\ ~r.choose /\ r.perr = None
  BY ReachedLocal, ReachedType

LEMMA RegisterPrefIAPNotifKeeps == ASSUME MPMInv, NEW c \in Sessions, RegisterPrefIAPNotif(c) PROVE MPMInv'
<1> DEFINE s == [sess[c] EXCEPT !.reg = TRUE]
           k == [cli[c] EXCEPT !.mob = "wait"]
           e == conns[c]
           b == black[c]
           r == IF avail # {} /\ GetBMSnap(e) THEN PrefIAPNotification(s, e, b, avail, "EBearerMan") ELSE s
<1>0. /\ sess[c] \in Session /\ cli[c] \in Client /\ e \in Entries /\ b \in Blacks /\ MonOK
      /\ Local(sess[c], cli[c], e, b)
  BY Here
<1>1. /\ Ready(c) /\ cli[c].phase = "up" /\ cli[c].mob = "off" /\ Cancelled
      /\ UNCHANGED <<tableVars, blackVars, monVars, timer, usageVars, work, fatal>>
      /\ cli' = [cli EXCEPT ![c] = k]
      /\ IF ~GetBMSnap(e) /\ GetBMIap(e) = NoIap THEN UNCHANGED sess ELSE sess' = [sess EXCEPT ![c] = r]
  BY DEF RegisterPrefIAPNotif
<1>2. GetBMIap(e) # NoIap
  BY <1>0, <1>1 DEF Local, NotMobile, Entry, Active, GetBMIap
<1>3. sess' = [sess EXCEPT ![c] = r]
  BY <1>1, <1>2
<1>4. Local(s, k, e, b) /\ s \in Session /\ k \in Client
  BY <1>0, <1>1, RegisterLocal
<1>5. s.choose = sess[c].choose /\ s.perr = sess[c].perr /\ k.phase = "up"
  BY <1>0, <1>1 DEF Session, Client
<1>6. ~s.choose /\ s.perr = None
  BY <1>1, <1>5 DEF Ready, Free
<1>7. avail \in SUBSET Iaps
  BY <1>0 DEF MonOK
<1> HIDE DEF s, k
<1>8. Reached(s, r, e, b, avail)
  BY <1>4, <1>7, PrefResult DEF Reached
<1> HIDE DEF r
<1>9. r \in Session /\ Local(r, k, e, b) /\ ~r.choose /\ r.perr = None
  BY <1>0, <1>4, <1>6, <1>7, <1>8, ReachedCalm
<1> QED BY <1>1, <1>3, <1>4, <1>5, <1>9, SameVars, ReadyKeeps

LEMMA UnregisterPrefIAPNotifKeeps ==
  ASSUME MPMInv, NEW c \in Sessions, UnregisterPrefIAPNotif(c)
  PROVE  MPMInv'
<1> DEFINE s == sess[c]
           r == [s EXCEPT !.reg = FALSE, !.lastNotified = NoIap]
           k == [cli[c] EXCEPT !.mob = "stopped", !.refused = {}]
<1>0. /\ s \in Session /\ cli[c] \in Client /\ conns[c] \in Entries /\ black[c] \in Blacks /\ BlacksOK
      /\ Local(s, cli[c], conns[c], black[c])
  BY Here
<1>1. /\ Quiet /\ Free(c) /\ UnblackListIap(c)
      /\ \/ cli[c].mob = "leaving"
         \/ cli[c].phase = "up" /\ cli[c].mob \in {"wait", "response", "decide"}
         \/ cli[c].phase \in {"down", "left", "ended"} /\ cli[c].mob \notin {"off", "stopped"}
      /\ UNCHANGED <<tableVars, monVars, dialogVars, usageVars, work, fatal>>
      /\ sess' = [sess EXCEPT ![c].reg = FALSE, ![c].lastNotified = NoIap]
      /\ cli' = [cli EXCEPT ![c].mob = "stopped", ![c].refused = {}]
  BY DEF UnregisterPrefIAPNotif, Ready
<1>2. sess' = [sess EXCEPT ![c] = r] /\ cli' = [cli EXCEPT ![c] = k]
  BY <1>1
<1>3. ~s.choose /\ s.perr = None /\ s.reply = "none"
  BY <1>1 DEF Free
<1>4. Local(r, k, conns[c], {}) /\ r \in Session /\ k \in Client
  BY <1>0, <1>1, <1>3, UnregisterLocal
<1>5. r.choose = s.choose /\ r.perr = s.perr /\ r.sdlg = s.sdlg /\ r.rdlg = s.rdlg /\ k.phase = cli[c].phase
  BY <1>0 DEF Session, Client
<1>6. cli[c].phase \notin {"new", "starting", "retrying", "choosing"}
  BY <1>0, <1>1 DEF Local, NotMobile
<1>7. Barred(c, {})
  BY <1>0, <1>1, UnblackKeeps DEF Barred
<1> HIDE DEF r, k
<1>8. Asks(c, r) /\ Proceeds(c, r) /\ Scanned(c, r, k)
  BY <1>1, <1>3, <1>5, <1>6, CalmScans DEF Asks
<1> QED BY <1>1, <1>2, <1>4, <1>7, <1>8, SameVars, QuietKeeps

LEMMA ApplicationAcceptedTheCarrierKeeps ==
  ASSUME MPMInv, NEW c \in Sessions, ApplicationAcceptedTheCarrier(c)
  PROVE  MPMInv'
<1> DEFINE e == conns[c]
           f == conns'[c]
           b == black[c]
           s == ResetStoredIapInfo(sess[c])
           k == [cli[c] EXCEPT !.mob = "wait"]
           r == IF sess[c].stored = None THEN s
                ELSE PrefIAPNotification(s, f, b, sess[c].stored, "EConnMon")
<1>0. /\ sess[c] \in Session /\ cli[c] \in Client /\ e \in Entries /\ b \in Blacks /\ TablesOK
      /\ Local(sess[c], cli[c], e, b)
  BY Here
<1>1. /\ Ready(c) /\ cli[c].phase = "up" /\ cli[c].mob = "decide" /\ Cancelled
      /\ AppendBMConnection(c, FALSE, cli[c].pref, "Started")
      /\ UNCHANGED <<blackVars, monVars, timer, usageVars, work, fatal>>
      /\ cli' = [cli EXCEPT ![c] = k] /\ sess' = [sess EXCEPT ![c] = r]
  BY DEF ApplicationAcceptedTheCarrier
<1>2. cli[c].pref \in IapOrNone /\ e # None
  BY <1>0, <1>1 DEF Client, Local, Entry, Active
<1>3. /\ Table(c, f) /\ f \in Conn /\ f.iap = cli[c].pref /\ f.state = "Started" /\ f.snap = e.snap
  BY <1>0, <1>1, <1>2, AppendKeeps DEF Table, States
<1> HIDE DEF f
<1>4. Local(s, k, f, b) /\ s \in Session /\ k \in Client
  BY <1>0, <1>1, <1>2, <1>3, AcceptsLocal DEF ResetStoredIapInfo
<1>5. s.choose = sess[c].choose /\ s.perr = sess[c].perr /\ k.phase = "up"
  BY <1>0, <1>1 DEF Session, Client, ResetStoredIapInfo
<1>6. ~s.choose /\ s.perr = None
  BY <1>1, <1>5 DEF Ready, Free
<1> HIDE DEF s, k
<1>7. \E info \in SUBSET Iaps : Reached(s, r, f, b, info)
  <2>1. CASE sess[c].stored = None
    BY <2>1 DEF Reached
  <2>2. CASE sess[c].stored # None
    <3>1. sess[c].stored \in SUBSET Iaps
      BY <1>0, <2>2 DEF Session
    <3> QED BY <1>4, <2>2, <3>1, PrefResult
  <2> QED BY <2>1, <2>2
<1> HIDE DEF r
<1>8. f \in Entries
  BY <1>3 DEF Entries
<1>9. r \in Session /\ Local(r, k, f, b) /\ ~r.choose /\ r.perr = None
  BY <1>0, <1>4, <1>6, <1>7, <1>8, ReachedCalm
<1> QED BY <1>1, <1>3, <1>4, <1>5, <1>9, SameVars, ReadyKeeps

LEMMA ApplicationIgnoredTheCarrierKeeps ==
  ASSUME MPMInv, NEW c \in Sessions, NEW cancel \in BOOLEAN, ApplicationIgnoredTheCarrier(c, cancel)
  PROVE  MPMInv'
<1> DEFINE e == conns[c]
           i == cli[c].pref
           b == black'[c]
           m == IF cancel THEN "leaving" ELSE "wait"
           o == IF sess[c].offers = 1 THEN 0 ELSE sess[c].offers
           s == [sess[c] EXCEPT !.hold = FALSE, !.stored = None, !.offers = o]
           k == [cli[c] EXCEPT !.mob = m, !.refused = cli[c].refused \cup {i}]
           r == OfferNext(s, e, b)
<1>0. /\ sess[c] \in Session /\ cli[c] \in Client /\ e \in Entries /\ black[c] \in Blacks /\ MonOK
      /\ BlacksOK /\ Local(sess[c], cli[c], e, black[c])
  BY Here
<1>1. /\ Ready(c) /\ cli[c].phase = "up" /\ cli[c].mob = "offered" /\ Cancelled
      /\ BlackListIap(c, i, "EConnectionLifetime")
      /\ UNCHANGED <<tableVars, monVars, timer, usageVars, work, fatal>>
      /\ sess' = [sess EXCEPT ![c] = OfferNext(AnswerOffer(ResetStoredIapInfo(sess[c])), e, b)]
      /\ cli' = [cli EXCEPT ![c].mob = m, ![c].refused = cli[c].refused \cup {i}]
  BY DEF ApplicationIgnoredTheCarrier, IgnoredTheCarrier
<1>2. AnswerOffer(ResetStoredIapInfo(sess[c])) = s
  BY <1>0 DEF AnswerOffer, ResetStoredIapInfo, Session
<1>3. sess' = [sess EXCEPT ![c] = r] /\ cli' = [cli EXCEPT ![c] = k]
  BY <1>1, <1>2
<1>4. i \in IapOrNone /\ i # NoIap
  BY <1>0, <1>1 DEF Client, Local, Entry
<1>5. Barred(c, b) /\ b = black[c] \cup {<<i, "EConnectionLifetime">>}
  BY <1>0, <1>1, <1>4, BlackKeeps DEF Barred, Categories
<1>6. b \in Blacks
  BY <1>5 DEF Barred, BlacksOK
<1> HIDE DEF b
<1>7. ~sess[c].choose /\ sess[c].perr = None /\ sess[c].reply = "none" /\ m \in {"leaving", "wait"}
  BY <1>1 DEF Ready, Free
<1>a. o = IF sess[c].offers = 1 THEN 0 ELSE sess[c].offers
  OBVIOUS
<1>b. black[c] \subseteq b /\ <<i, "EConnectionLifetime">> \in b
  BY <1>5
<1> HIDE DEF m, o
<1>8. Local(s, k, e, b) /\ s \in Session /\ k \in Client
  BY ZenonT(40), <1>0, <1>1, <1>6, <1>7, <1>a, <1>b, IgnoresLocal
<1>9. s.choose = sess[c].choose /\ s.perr = sess[c].perr /\ k.phase = "up"
  BY <1>0, <1>1 DEF Session, Client
<1>10. avail \in SUBSET Iaps
  BY <1>0 DEF MonOK
<1> HIDE DEF s, k
<1>11. Reached(s, r, e, b, avail)
  BY <1>8, <1>10, OfferNextResult
<1> HIDE DEF r
<1>12. r \in Session /\ Local(r, k, e, b) /\ ~r.choose /\ r.perr = None
  BY <1>0, <1>6, <1>7, <1>8, <1>9, <1>10, <1>11, ReachedCalm
<1>13. Table(c, e) /\ MonOK' /\ OthersScanned(c)
  BY <1>1, SameVars
<1> QED BY <1>1, <1>3, <1>5, <1>8, <1>9, <1>12, <1>13, ReadyKeeps

------------------------------------------------------------------------------
(* Rejecting and migrating *)

LEMMA ApplicationRejectedTheCarrierKeeps ==
  ASSUME MPMInv, NEW c \in Sessions, ApplicationRejectedTheCarrier(c)
  PROVE  MPMInv'
<1> DEFINE cl == cli[c]
           e == conns[c]
           f == conns'[c]
           b == black'[c]
           i == IF cl.mob = "decide" THEN cl.pref ELSE cl.iap
           s == ResetStoredIapInfo(sess[c])
           j == IF cl.mob = "decide" THEN [cl EXCEPT !.refused = @ \cup {i}] ELSE cl
           k == WaitResponse(j)
<1>0. /\ sess[c] \in Session /\ cl \in Client /\ e \in Entries /\ black[c] \in Blacks /\ MonOK
      /\ TablesOK /\ BlacksOK /\ Local(sess[c], cl, e, black[c])
  BY Here
<1>1. /\ Ready(c) /\ cl.phase = "up" /\ cl.mob \in {"wait", "decide"} /\ Cancelled
      /\ BlackListIap(c, i, "EConnectionLifetime") /\ ResetBMConnection(c)
      /\ UNCHANGED <<timer, usageVars, work, fatal>> /\ cli' = [cli EXCEPT ![c] = k]
      /\ \/ sess' = [sess EXCEPT ![c] = s] /\ ScanWLANNetworks(c, "CarrierRejected")
         \/ sess' = [sess EXCEPT ![c] = OfferNext(s, f, b)] /\ UNCHANGED monVars
  BY DEF ApplicationRejectedTheCarrier
<1>2. i \in IapOrNone /\ (cl.mob = "decide" => i \in Iaps /\ i = cl.pref) /\ e # None
  BY <1>0, <1>1 DEF Client, Local, Entry, Active, IapOrNone
<1>3. /\ j \in Client /\ j.phase = "up" /\ j.iap = cl.iap /\ j.pref = cl.pref /\ j.stored = cl.stored
      /\ j.refused = IF cl.mob = "decide" THEN cl.refused \cup {i} ELSE cl.refused
  <2> HIDE DEF i
  <2> QED BY <1>0, <1>1, <1>2 DEF Client
<1>4. /\ Barred(c, b) /\ black[c] \subseteq b /\ b \in Blacks
      /\ cl.mob = "decide" => <<i, "EConnectionLifetime">> \in b
  <2> HIDE DEF i
  <2>1. BlacksOK' /\ (\A d \in Sessions \ {c} : black'[d] = black[d])
        /\ b = black[c] \cup IF i = NoIap THEN {} ELSE {<<i, "EConnectionLifetime">>}
    BY <1>0, <1>1, <1>2, BlackKeeps DEF Categories
  <2>2. i \in Iaps => i # NoIap
    BY ConstantsAssumption
  <2> QED BY <1>2, <2>1, <2>2 DEF Barred, BlacksOK
<1>5. Table(c, f) /\ f \in Conn /\ f.iap = NoIap /\ f.state = "Idle" /\ f.snap = e.snap
  BY <1>0, <1>1, <1>2, ResetKeeps DEF Table
<1> HIDE DEF i, f, b, j
<1>6. k \in Client /\ Waits(j, k)
  BY <1>3, WaitResponseResult
<1>7. ~sess[c].choose /\ sess[c].perr = None /\ sess[c].reply = "none"
  BY <1>1 DEF Ready, Free
<1> HIDE DEF k
<1>8. Local(s, k, f, b) /\ s \in Session
  BY ZenonT(40), <1>0, <1>1, <1>2, <1>3, <1>4, <1>5, <1>6, <1>7, RejectsLocal DEF ResetStoredIapInfo
<1>9. ~s.choose /\ s.perr = None /\ k.phase \in {"up", "down"}
  BY <1>0, <1>6, <1>7 DEF Session, ResetStoredIapInfo, Waits
<1> HIDE DEF s, cl
<1>10. CASE sess' = [sess EXCEPT ![c] = s] /\ ScanWLANNetworks(c, "CarrierRejected")
  <2>1. MonOK' /\ OthersScanned(c)
    BY <1>0, <1>1, <1>10, ScanKeeps DEF Callbacks
  <2> QED BY <1>1, <1>4, <1>5, <1>6, <1>8, <1>9, <1>10, <2>1, ReadyKeeps
<1>11. CASE sess' = [sess EXCEPT ![c] = OfferNext(s, f, b)] /\ UNCHANGED monVars
  <2> DEFINE r == OfferNext(s, f, b)
  <2>1. MonOK' /\ OthersScanned(c) /\ avail \in SUBSET Iaps
    BY <1>0, <1>1, <1>11, SameVars DEF MonOK
  <2>2. Reached(s, r, f, b, avail)
    BY <1>8, <2>1, OfferNextResult
  <2>3. f \in Entries
    BY <1>5 DEF Entries
  <2> HIDE DEF r
  <2>4. r \in Session /\ Local(r, k, f, b) /\ ~r.choose /\ r.perr = None
    BY <1>4, <1>6, <1>8, <1>9, <2>1, <2>2, <2>3, ReachedCalm
  <2>5. sess' = [sess EXCEPT ![c] = r]
    BY <1>11 DEF r
  <2> QED BY <1>1, <1>4, <1>5, <1>6, <1>9, <2>1, <2>4, <2>5, ReadyKeeps
<1> QED BY <1>1, <1>10, <1>11

LEMMA DoneStart ==
  ASSUME NEW s \in Session, NEW i \in IapOrNone
  PROVE  MigrateDone(StartIAPNotification(s, i)) = StartIAPNotification(MigrateDone(s), i)
<1> DEFINE h == [s EXCEPT !.hold = TRUE]
           n == [type |-> "start", iap |-> i]
           g == [MigrateDone(s) EXCEPT !.hold = TRUE]
<1>1. h.wait = s.wait /\ g.wait = s.wait
  BY DEF Session, MigrateDone
<1>2. MigrateDone(h) = g
  BY DEF Session, MigrateDone
<1>3. MigrateDone([h EXCEPT !.wait = FALSE, !.note = n]) = [g EXCEPT !.wait = FALSE, !.note = n]
  <2> HIDE DEF n
  <2> QED BY DEF Session, MigrateDone
<1> HIDE DEF h, g, n
<1>4. MigrateDone(Notify(h, "start", i)) = Notify(g, "start", i)
  BY <1>1, <1>2, <1>3 DEF Notify, n
<1> QED BY <1>4 DEF StartIAPNotification, h, g

\* The node that answers an offer waits for the start of its migration.
LEMMA AnswersOffer ==
  ASSUME NEW s \in Session, NEW cl \in Client, NEW e \in Entries, NEW b \in Blacks, Local(s, cl, e, b),
         NEW k, Waits(cl, k), cl.phase = "up", cl.mob = "offered"
  PROVE  /\ s.reg /\ k.mob # "off" /\ k.pref # NoIap
         /\ s.offers < 2 /\ Active(k) => k.mob = "response" /\ k.pref = cl.pref
<1>1. s.reg /\ cl.pref # NoIap
  BY DEF Local, Entry, Active
<1>2. s.offers < 2 => ~Says(cl.stored, "pref") /\ ~Says(cl.stored, "start")
  BY <1>1 DEF Local, Offered, Moving, Uncrossed, Active
<1>3. k.mob # "off" /\ k.pref # NoIap
  BY <1>1 DEF Waits, Local, Entry
<1>4. s.offers < 2 /\ Active(k) => k.mob = "response" /\ k.pref = cl.pref
  BY <1>2 DEF Waits, Active
<1> QED BY <1>1, <1>3, <1>4

LEMMA ApplicationMigratesToCarrierKeeps ==
  ASSUME MPMInv, NEW c \in Sessions, ApplicationMigratesToCarrier(c)
  PROVE  MPMInv'
<1> DEFINE cl == cli[c]
           e == conns[c]
           f == conns'[c]
           b == black[c]
           i == cl.pref
           o == IF sess[c].offers = 1 THEN 0 ELSE sess[c].offers
           s == [AnswerOffer(sess[c]) EXCEPT !.migrateIap = i, !.rdlg = None]
           asking == [s EXCEPT !.confirm = TRUE]
           m == [sess[c] EXCEPT !.migrateIap = NoIap, !.confirm = FALSE, !.rdlg = None, !.offers = o]
           dlg == [iap |-> i, reconnect |-> GetBMIap(e) \notin AvailableUnblacklistedIaps(avail, b)]
           k == WaitResponse(cl)
           asked == [sess[c] EXCEPT !.migrateIap = i, !.confirm = TRUE, !.rdlg = dlg, !.offers = o]
<1>0. /\ sess[c] \in Session /\ cl \in Client /\ e \in Entries /\ b \in Blacks /\ TablesOK
      /\ Local(sess[c], cl, e, b)
  BY Here
<1>1. /\ Ready(c) /\ cl.phase = "up" /\ cl.mob = "offered" /\ Cancelled
      /\ AppendBMConnection(c, FALSE, i, "Roaming")
      /\ UNCHANGED <<blackVars, monVars, timer, usageVars, work, fatal>> /\ cli' = [cli EXCEPT ![c] = k]
  BY DEF ApplicationMigratesToCarrier, MigratesToCarrier
<1>2. \/ sess' = [sess EXCEPT ![c] = MigrateDone(ErrorNotification(s))]
      \/ sess' = [sess EXCEPT ![c] = MigrateDone(ErrorNotification(asking))]
      \/ sess' = [sess EXCEPT ![c] = MigrateDone(StartIAPNotification(asking, i))]
      \/ sess' = [sess EXCEPT ![c] = [asking EXCEPT !.rdlg = dlg]]
  <2> HIDE DEF asking
  <2> QED BY DEF ApplicationMigratesToCarrier, MigratesToCarrier, asking
<1>3. i \in Iaps /\ e # None /\ i \in IapOrNone
  BY <1>0, <1>1 DEF Client, Local, Entry, Active, IapOrNone
<1>4. Table(c, f) /\ f \in Conn /\ f.iap = i /\ f.state = "Roaming" /\ f.snap = e.snap
  BY <1>0, <1>1, <1>3, AppendKeeps DEF Table, States
<1>5. k \in Client /\ Waits(cl, k) /\ k.phase \in {"up", "down"}
  <2>1. k \in Client /\ Waits(cl, k)
    BY <1>0, <1>1, WaitResponseResult
  <2> HIDE DEF k
  <2> QED BY <2>1 DEF Waits
<1>6. dlg \in RoamingDlg /\ dlg.iap = i
  BY <1>3 DEF RoamingDlg
<1>7. o = (IF sess[c].offers = 1 THEN 0 ELSE sess[c].offers)
  OBVIOUS
<1>a. o \in 0..2
  BY <1>0 DEF Session
<1> HIDE DEF dlg, o, k, f
<1>8. MigrateDone(s) = m /\ MigrateDone(asking) = m /\ [asking EXCEPT !.rdlg = dlg] = asked
  <2>1. AnswerOffer(sess[c]) = [sess[c] EXCEPT !.offers = o]
    BY <1>0, <1>7, <1>a DEF AnswerOffer, Session
  <2> HIDE DEF cl
  <2> QED BY <1>0, <2>1 DEF MigrateDone, Session
<1>9. s \in Session /\ asking \in Session
  <2>1. AnswerOffer(sess[c]) = [sess[c] EXCEPT !.offers = o]
    BY <1>0, <1>7, <1>a DEF AnswerOffer, Session
  <2>2. AnswerOffer(sess[c]) \in Session
    BY <1>0, <1>a, <2>1 DEF Session
  <2>3. \A q \in Session, x \in IapOrNone : /\ [q EXCEPT !.migrateIap = x, !.rdlg = None] \in Session
                                            /\ [q EXCEPT !.confirm = TRUE] \in Session
    BY DEF Session
  <2> QED BY <1>3, <2>2, <2>3
<1>10. ~sess[c].choose /\ sess[c].perr = None /\ sess[c].reply = "none"
  BY <1>1 DEF Ready, Free
<1> HIDE DEF s, asking
<1>d. /\ sess[c] \in Session /\ cl \in Client /\ e \in Entries /\ b \in Blacks /\ Local(sess[c], cl, e, b)
      /\ k \in Client /\ Waits(cl, k) /\ f \in Conn
      /\ cl.phase = "up" /\ cl.mob = "offered" /\ ~sess[c].choose /\ sess[c].perr = None
      /\ sess[c].reply = "none" /\ e # None /\ f.snap = e.snap /\ f.iap = cl.pref /\ f.state = "Roaming"
  BY <1>0, <1>1, <1>3, <1>4, <1>5, <1>10
<1> HIDE DEF m, cl, e, b, i
<1>11. /\ m \in Session /\ Local(m, k, f, b) /\ ~m.choose /\ m.perr = None
       /\ k.mob # "off" /\ k.pref # NoIap
       /\ Uncrossed(m, k) => k.mob = "response" /\ k.pref = i /\ ~m.confirm /\ m.rdlg = None
  <2>1. m \in Session /\ Local(m, k, f, b)
    BY ZenonT(40), <1>7, <1>d, MigratesLocal DEF m
  <2>2. /\ m.choose = sess[c].choose /\ m.perr = sess[c].perr /\ ~m.confirm /\ m.rdlg = None
        /\ m.offers = o /\ m.reg = sess[c].reg
    BY <1>0 DEF Session, m
  <2>3. o < 2 => sess[c].offers < 2
    BY <1>0, <1>7 DEF Session
  <2>4. /\ k.mob # "off" /\ k.pref # NoIap
        /\ sess[c].offers < 2 /\ Active(k) => k.mob = "response" /\ k.pref = i
    BY <1>d, AnswersOffer DEF i
  <2> QED BY <1>10, <2>1, <2>2, <2>3, <2>4 DEF Uncrossed
<1>12. asked \in Session /\ Local(asked, k, f, b) /\ ~asked.choose /\ asked.perr = None
  <2>1. asked \in Session /\ Local(asked, k, f, b)
    BY ZenonT(40), <1>6, <1>7, <1>d, AsksLocal DEF i
  <2> QED BY <1>0, <1>10, <2>1 DEF Session
<1> HIDE DEF asked, cl
<1>13. f \in Entries
  BY <1>4 DEF Entries
<1>b. /\ StartIAPNotification(m, i) \in Session /\ Local(StartIAPNotification(m, i), k, f, b)
      /\ ~StartIAPNotification(m, i).choose /\ StartIAPNotification(m, i).perr = None
  <2>1. f # None
    BY <1>4, ConstantsAssumption
  <2> QED BY <1>0, <1>3, <1>4, <1>5, <1>11, <1>13, <2>1, StartNoteLocal
<1>14. ErrorNotification(m) \in Session /\ Local(ErrorNotification(m), k, f, b)
       /\ ~ErrorNotification(m).choose /\ ErrorNotification(m).perr = None
  <2>1. Reached(m, ErrorNotification(m), f, b, {})
    BY DEF Reached
  <2> QED BY <1>0, <1>5, <1>11, <1>13, <2>1, ReachedCalm
<1>15. /\ MigrateDone(ErrorNotification(s)) = ErrorNotification(m)
       /\ MigrateDone(ErrorNotification(asking)) = ErrorNotification(m)
  BY ZenonT(40), <1>8, <1>9 DEF MigrateDone, ErrorNotification, Notify, Session
<1>16. MigrateDone(StartIAPNotification(asking, i)) = StartIAPNotification(m, i)
  BY <1>3, <1>8, <1>9, DoneStart
<1>17. \E r \in Session : sess' = [sess EXCEPT ![c] = r] /\ Local(r, k, f, b) /\ ~r.choose /\ r.perr = None
  BY <1>2, <1>8, <1>b, <1>12, <1>14, <1>15, <1>16
<1>18. Barred(c, b) /\ MonOK' /\ OthersScanned(c)
  BY <1>1, SameVars DEF b
<1> QED BY <1>1, <1>4, <1>5, <1>17, <1>18, ReadyKeeps

------------------------------------------------------------------------------
(* Errors *)

\* The request about an error is answered at once.
LEMMA ErrorAnswered ==
  ASSUME MPMInv, NEW c \in Sessions, Ready(c), NEW p, Reports(cli[c], p), NEW k \in Client,
         k = [cli[c] EXCEPT !.phase = p], cli' = [cli EXCEPT ![c] = k],
         NEW r \in Session, NEW f, NEW b, sess' = [sess EXCEPT ![c] = r],
         Table(c, f), Barred(c, b), Local(r, k, f, b), ~r.choose, r.perr = None,
         UNCHANGED <<monVars, timer, usageVars, work, fatal>>, Cancelled
  PROVE  MPMInv'
<1>1. Asks(c, r) /\ UsageOK' /\ MonOK' /\ OthersScanned(c)
  BY SameVars DEF Asks
<1>2. k.phase = p
  BY Here DEF Client
<1>3. Proceeds(c, r)
  BY CalmScans
<1>4. Scanned(c, r, k)
  <2>1. CASE p = "recovering"
    BY <1>2, <2>1 DEF Scanned
  <2>2. CASE p = "retrying"
    <3>1. cli[c].phase = "starting"
      BY <2>2 DEF Reports
    <3>2. Unscanned(Choice(c))
      BY <3>1 DEF MPMInv, ChoiceScans, ChoiceScanned
    <3>3. Unscanned(Choice(c))'
      BY <3>2, SameVars
    <3> QED BY <3>3 DEF Scanned
  <2> QED BY <2>1, <2>2 DEF Reports
<1> QED BY <1>1, <1>3, <1>4, QuietKeeps DEF Ready

\* It is answered after an offer or an error notification.
LEMMA ErrorReached ==
  ASSUME MPMInv, NEW c \in Sessions, Ready(c), NEW p, Reports(cli[c], p), NEW k \in Client,
         k = [cli[c] EXCEPT !.phase = p], cli' = [cli EXCEPT ![c] = k],
         NEW s \in Session, NEW q, NEW a, NEW f \in Entries, NEW b \in Blacks, NEW info \in SUBSET Iaps,
         Reached(s, q, f, b, info), ProcessErrorComplete(s, a) \in Session,
         Local(ProcessErrorComplete(s, a), k, f, b), ~s.choose,
         sess' = [sess EXCEPT ![c] = ProcessErrorComplete(q, a)], Table(c, f), Barred(c, b),
         UNCHANGED <<monVars, timer, usageVars, work, fatal>>, Cancelled
  PROVE  MPMInv'
<1> DEFINE t == ProcessErrorComplete(s, a)
           r == ProcessErrorComplete(q, a)
<1>1. ~t.choose /\ t.perr = None
  BY DEF ProcessErrorComplete, Session
<1>2. Reached(t, r, f, b, info)
  BY ErrorCompleteReached
<1> HIDE DEF r, t
<1>3. t \in Session /\ Local(t, k, f, b)
  BY DEF t
<1>4. r \in Session /\ Local(r, k, f, b) /\ ~r.choose /\ r.perr = None
  BY <1>1, <1>2, <1>3, ReachedCalm
<1>5. sess' = [sess EXCEPT ![c] = r]
  BY DEF r
<1> QED BY <1>4, <1>5, ErrorAnswered

LEMMA HandleProcessErrorKeeps ==
  ASSUME MPMInv, NEW c \in Sessions, NEW error \in Errors, Ready(c), NEW p, Reports(cli[c], p),
         cli' = [cli EXCEPT ![c].phase = p], HandleProcessError(c, error), Cancelled,
         UNCHANGED <<timer, usageVars, work, fatal>>
  PROVE  MPMInv'
<1> DEFINE s == sess[c]
           e == conns[c]
           b == black[c]
           q == [s EXCEPT !.perr = error]
           k == [cli[c] EXCEPT !.phase = p]
           i == GetBMIap(e)
           f == conns'[c]
           d == black'[c]
           done(a) == [s EXCEPT !.perr = None, !.reply = a]
<1>0. /\ s \in Session /\ cli[c] \in Client /\ e \in Entries /\ b \in Blacks /\ MonOK /\ TablesOK /\ BlacksOK
      /\ Local(s, cli[c], e, b)
  BY Here
<1>1. ~s.choose /\ s.perr = None /\ s.reply = "none" /\ s.sdlg = None
  BY <1>0 DEF Ready, Free, Reports, Local, Choosing
<1>2. StopDisplayingStartingDlg(s) = s
  BY <1>1 DEF StopDisplayingStartingDlg
<1>3. cli' = [cli EXCEPT ![c] = k] /\ k \in Client
  BY <1>0 DEF Reports, Client
<1>4. /\ i \in IapOrNone /\ i = (IF e = None THEN NoIap ELSE e.iap)
      /\ GetConnectionState(e) = IF e = None THEN "Starting" ELSE e.state
  BY <1>0 DEF GetBMIap, Entries, Conn, IapOrNone, GetConnectionState
<1>5. avail \in SUBSET Iaps /\ avail \ {i} \in SUBSET Iaps
  BY <1>0 DEF MonOK
<1>6. /\ q \in Session /\ q.choose = s.choose /\ q.sel = s.sel /\ q.reg = s.reg
      /\ \A a : ProcessErrorComplete(q, a) = done(a)
      /\ ResetStoredIapInfo(q) \in Session /\ ResetStoredIapInfo(q).choose = s.choose
      /\ \A a : ProcessErrorComplete(ResetStoredIapInfo(q), a)
                  = [s EXCEPT !.hold = FALSE, !.stored = None, !.perr = None, !.reply = a]
  <2>1. /\ q \in Session /\ q.choose = s.choose /\ q.sel = s.sel /\ q.reg = s.reg
        /\ ResetStoredIapInfo(q) \in Session /\ ResetStoredIapInfo(q).choose = s.choose
    BY ZenonT(40), <1>0 DEF Session, ResetStoredIapInfo
  <2>2. ASSUME NEW a
        PROVE  /\ ProcessErrorComplete(q, a) = done(a)
               /\ ProcessErrorComplete(ResetStoredIapInfo(q), a)
                    = [s EXCEPT !.hold = FALSE, !.stored = None, !.perr = None, !.reply = a]
    BY <1>0 DEF Session, ProcessErrorComplete, ResetStoredIapInfo
  <2> HIDE DEF q, done
  <2> QED BY <2>1, <2>2
<1>7. HandleProcessError(c, error) <=>
        LET complete(action) == /\ sess' = [sess EXCEPT ![c] = ProcessErrorComplete(q, action)]
                                /\ UNCHANGED <<tableVars, blackVars, monVars>>
        IN \/ q.sel = None /\ complete("Propagate")
           \/ q.sel # None /\ GetConnectionState(e) = "Starting" /\ ErrorWhileStarting(c, q)
           \/ q.sel # None /\ GetConnectionState(e) = "Roaming" /\ ErrorWhileRoaming(c, q)
           \/ q.sel # None /\ GetConnectionState(e) = "Started" /\ ErrorWhileStarted(c, q)
           \/ q.sel # None /\ GetConnectionState(e) = "Idle" /\ complete("error")
  BY <1>2 DEF HandleProcessError
<1> HIDE DEF q, k, i, f, d
<1>k. k = [cli[c] EXCEPT !.phase = p]
  BY DEF k
\* Answered at once, and the black list may have grown.
<1>8. ASSUME NEW a \in {"error", "Propagate", "Reselect", "Ignore"}, a = "Reselect" => p = "retrying" /\ s.sel # None,
             NEW w, NEW info \in SUBSET Iaps, Barred(c, w), b \subseteq w, NEW u, Reached(q, u, e, w, info),
             sess' = [sess EXCEPT ![c] = ProcessErrorComplete(u, a)], UNCHANGED <<tableVars, monVars>>
      PROVE  MPMInv'
  <2>1. w \in Blacks /\ Table(c, e)
    BY <1>8, SameVars DEF Barred, BlacksOK
  <2>2. Local(done(a), k, e, w) /\ done(a) \in Session
    BY ZenonT(40), <1>0, <1>1, <1>8, <2>1, ErrorLocal DEF k
  <2>3. ProcessErrorComplete(q, a) = done(a)
    BY <1>6
  <2>4. Local(ProcessErrorComplete(q, a), k, e, w) /\ ProcessErrorComplete(q, a) \in Session
    BY <2>2, <2>3
  <2>5. Ready(c) /\ Reports(cli[c], p) /\ ~q.choose
    BY <1>1, <1>6
  <2> HIDE DEF s, e, b, done
  <2>6. e \in Entries /\ k \in Client /\ q \in Session
    BY <1>0, <1>3, <1>6
  <2> QED BY <1>3, <1>k, <1>8, <2>1, <2>4, <2>5, <2>6, ErrorReached
<1>9. Reached(q, q, e, b, {}) /\ b \subseteq b
  BY DEF Reached
<1>10. ASSUME NEW a \in {"error", "Propagate"}, sess' = [sess EXCEPT ![c] = ProcessErrorComplete(q, a)],
              UNCHANGED <<tableVars, blackVars, monVars>>
       PROVE  MPMInv'
  BY <1>8, <1>9, <1>10, SameVars
<1>11. ASSUME BlackListIap(c, i, "ETemporary") PROVE Barred(c, d) /\ b \subseteq d /\ d \in Blacks
  BY <1>0, <1>4, <1>11, BlackKeeps DEF Barred, d, Categories, BlacksOK
<1>12. ASSUME GetConnectionState(e) = "Starting" PROVE p = "retrying"
  BY <1>0, <1>4, <1>12 DEF Reports, Local, Entry, Active
<1>13. ASSUME GetConnectionState(e) \in {"Roaming", "Started"}
       PROVE  /\ e # None /\ e.state = GetConnectionState(e)
              /\ e.state = "Roaming" \/ s.reg => p = "recovering"
  BY <1>0, <1>4, <1>13 DEF Reports, Local, Granted, NotMobile
<1>14. ASSUME q.sel # None, GetConnectionState(e) = "Starting", ErrorWhileStarting(c, q) PROVE MPMInv'
  <2>1. \/ /\ UNCHANGED <<tableVars, blackVars, monVars>>
           /\ sess' = [sess EXCEPT ![c] = ProcessErrorComplete(q, "Propagate")]
        \/ /\ BlackListIap(c, i, "ETemporary") /\ UNCHANGED <<tableVars, monVars>>
           /\ sess' = [sess EXCEPT ![c] = ProcessErrorComplete(q, "Reselect")]
    BY <1>14 DEF ErrorWhileStarting, i
  <2>2. CASE /\ UNCHANGED <<tableVars, blackVars, monVars>>
             /\ sess' = [sess EXCEPT ![c] = ProcessErrorComplete(q, "Propagate")]
    BY <1>10, <2>2
  <2>3. CASE /\ BlackListIap(c, i, "ETemporary") /\ UNCHANGED <<tableVars, monVars>>
             /\ sess' = [sess EXCEPT ![c] = ProcessErrorComplete(q, "Reselect")]
    <3>1. Reached(q, q, e, d, {})
      BY DEF Reached
    <3>2. p = "retrying" /\ s.sel # None
      BY <1>6, <1>12, <1>14
    <3> QED BY <1>8, <1>11, <2>3, <3>1, <3>2
  <2> QED BY <2>1, <2>2, <2>3
<1>15. ASSUME q.sel # None, GetConnectionState(e) = "Roaming", ErrorWhileRoaming(c, q) PROVE MPMInv'
  <2> DEFINE t == ResetStoredIapInfo(q)
             info == avail \ {i}
             a == IF PrefNotFound(t, f, d, info, "EBearerMan") THEN "Propagate" ELSE "Ignore"
             u == PrefOrError(t, f, d, info)
  <2>1. /\ ResetBMConnection(c) /\ BlackListIap(c, i, "ETemporary") /\ UNCHANGED monVars
        /\ sess' = [sess EXCEPT ![c] = ProcessErrorComplete(u, a)]
    BY <1>15 DEF ErrorWhileRoaming, IgnoreOrPropagate, i, f, d
  <2>2. e # None /\ e.state = "Roaming" /\ p = "recovering"
    BY <1>13, <1>15
  <2>3. Table(c, f) /\ f \in Conn /\ f.iap = NoIap /\ f.state = "Idle" /\ f.snap = e.snap
    BY <1>0, <2>1, <2>2, ResetKeeps DEF Table, f
  <2>4. Barred(c, d) /\ b \subseteq d /\ d \in Blacks
    BY <1>11, <2>1
  <2>5. a \in {"Propagate", "Ignore"} /\ info \in SUBSET Iaps /\ f \in Entries
    BY <1>5, <2>3 DEF Entries
  <2>6. t \in Session /\ ~t.choose
    BY <1>1, <1>6
  <2>7. Reached(t, u, f, d, info)
    <3> HIDE DEF t, info, a
    <3> QED BY <2>5, <2>6, PrefOrErrorResult
  <2> HIDE DEF a, info, u
  <2>8. ProcessErrorComplete(t, a) \in Session /\ Local(ProcessErrorComplete(t, a), k, f, d)
    <3> DEFINE z == [s EXCEPT !.hold = FALSE, !.stored = None, !.perr = None, !.reply = a]
    <3>1. ProcessErrorComplete(t, a) = z
      BY <1>6, ZenonT(60)
    <3>2. z \in Session /\ Local(z, k, f, d)
      BY <1>0, <1>1, <2>2, <2>3, <2>4, <2>5, RoamingErrorLocal DEF k
    <3> QED BY <3>1, <3>2
  <2> HIDE DEF s, e, b, t
  <2>9. Ready(c) /\ Reports(cli[c], p) /\ k \in Client /\ k = [cli[c] EXCEPT !.phase = p]
    BY <1>3, <1>k
  <2> QED BY <1>3, <2>1, <2>3, <2>4, <2>5, <2>6, <2>7, <2>8, <2>9, ErrorReached
<1>16. ASSUME q.sel # None, GetConnectionState(e) = "Started", ErrorWhileStarted(c, q) PROVE MPMInv'
  <2> DEFINE info == avail \ {i}
             a == IF PrefNotFound(q, e, d, info, "EBearerMan") THEN "Propagate" ELSE "Ignore"
             u == PrefOrError(q, e, d, info)
             v == IF q.perr \in {"KErrCancel", "terminated"} \/ q.reg THEN ErrorNotification(q) ELSE q
  <2>1. /\ UNCHANGED tableVars
        /\ \/ /\ sess' = [sess EXCEPT ![c] = ProcessErrorComplete(v, "Propagate")]
              /\ UNCHANGED <<blackVars, monVars>>
           \/ /\ BlackListIap(c, i, "ETemporary") /\ UNCHANGED monVars
              /\ sess' = [sess EXCEPT ![c] = ProcessErrorComplete(u, a)]
           \/ /\ BlackListIap(c, i, "ETemporary") /\ q.reg /\ GetBMSnap(e)
              /\ sess' = [sess EXCEPT ![c] = q] /\ ScanWLANNetworks(c, "ProcessErr")
    BY <1>16 DEF ErrorWhileStarted, IgnoreOrPropagate, i, d
  <2>2. e # None /\ e.state = "Started" /\ (s.reg => p = "recovering")
    BY <1>13, <1>16
  <2>3. CASE /\ sess' = [sess EXCEPT ![c] = ProcessErrorComplete(v, "Propagate")]
             /\ UNCHANGED <<tableVars, blackVars, monVars>>
    <3>1. Reached(q, v, e, b, {})
      BY DEF Reached
    <3> HIDE DEF v
    <3>2. Barred(c, b)
      BY <2>3, SameVars
    <3> QED BY <1>8, <2>3, <3>1, <3>2
  <2>4. CASE /\ BlackListIap(c, i, "ETemporary") /\ UNCHANGED <<tableVars, monVars>>
             /\ sess' = [sess EXCEPT ![c] = ProcessErrorComplete(u, a)]
    <3>1. a \in {"Propagate", "Ignore"} /\ info \in SUBSET Iaps
      BY <1>5
    <3> HIDE DEF a, info
    <3>2. Reached(q, u, e, d, info)
      BY <1>6, <3>1, PrefOrErrorResult
    <3> HIDE DEF u
    <3>3. Barred(c, d) /\ b \subseteq d
      BY <1>11, <2>4
    <3> QED BY <1>8, <2>4, <3>1, <3>2, <3>3
  <2>5. CASE /\ BlackListIap(c, i, "ETemporary") /\ UNCHANGED tableVars /\ q.reg /\ GetBMSnap(e)
             /\ sess' = [sess EXCEPT ![c] = q] /\ ScanWLANNetworks(c, "ProcessErr")
    <3>1. Barred(c, d) /\ b \subseteq d /\ d \in Blacks /\ Table(c, e)
      BY <1>11, <2>5, SameVars
    <3>2. e.snap /\ s.reg
      BY <1>6, <2>5 DEF GetBMSnap
    <3>3. Local(q, k, e, d) /\ p = "recovering"
      BY <1>0, <1>1, <2>2, <3>1, <3>2, ScannedErrorLocal DEF q, k
    <3>4. MonOK' /\ OthersScanned(c) /\ Outstanding(c, "ProcessErr")'
      BY <1>0, <2>5, ScanKeeps DEF Callbacks
    <3>5. k.phase = "recovering"
      BY <1>0, <3>3 DEF k, Client
    <3>6. Asks(c, q) /\ UsageOK' /\ Proceeds(c, q) /\ Scanned(c, q, k)
      BY <1>1, <1>6, <3>4, <3>5, SameVars DEF Asks, Proceeds, Scanned
    <3> QED BY <1>3, <1>6, <2>5, <3>1, <3>3, <3>4, <3>6, QuietKeeps DEF Ready
  <2> HIDE DEF u, v, a, info
  <2> QED BY <2>1, <2>3, <2>4, <2>5
<1> QED BY <1>7, <1>10, <1>14, <1>15, <1>16

LEMMA ProcessErrorKeeps ==
  ASSUME MPMInv, NEW c \in Sessions, NEW error \in Errors, ProcessError(c, error)
  PROVE  MPMInv'
<1>1. \E p : Reports(cli[c], p) /\ cli' = [cli EXCEPT ![c].phase = p]
  BY DEF ProcessError, Reports
<1> QED BY <1>1, HandleProcessErrorKeeps DEF ProcessError

------------------------------------------------------------------------------
(* The answers of the user *)

\* The handler of a dialog's answer: the loops are done, the scans as they were.
LEMMA AnswerKeeps ==
  ASSUME MPMInv, work.unblack = 0, NEW c \in Sessions, NEW r \in Session, NEW f, NEW b,
         sess' = [sess EXCEPT ![c] = r], UNCHANGED <<cli, monVars, work, fatal>>,
         Table(c, f), Barred(c, b), Local(r, cli[c], f, b), UsageOK',
         NEW ans \in Answers, Dialogs(ans), Proceeds(c, r), Scanned(c, r, cli[c])
  PROVE  MPMInv'
<1>1. MonOK' /\ OthersScanned(c) /\ cli' = [cli EXCEPT ![c] = cli[c]] /\ cli[c] \in Client
  BY Here, SameVars
<1>2. WorkOK'
  BY Here DEF WorkOK
<1>3. LoopInRange'
  BY DEF LoopInRange, Barred, BlacksOK
<1>4. Asks(c, r)
  BY DEF Asks
<1> QED BY <1>1, <1>2, <1>3, <1>4, HandlerKeeps

LEMMA NoLoop == ASSUME MPMInv, Quiet \/ carry # NoCarry PROVE work.unblack = 0
<1>1. CASE Quiet
  BY <1>1 DEF Quiet, NoWork
<1>2. CASE carry # NoCarry
  <2>1. ~(work.unblack > 0)
    BY <1>2 DEF MPMInv, LoopInRange
  <2>2. work.unblack \in Nat
    BY DEF MPMInv, TypeOK
  <2> QED BY <2>1, <2>2
<1> QED BY <1>1, <1>2

LEMMA StartingResponseKeeps ==
  ASSUME MPMInv, work.unblack = 0, NEW c \in Sessions, sess[c].sdlg # None, NEW ans \in Answers,
         StartingResponse(c, ans), Dialogs(ans), UNCHANGED <<cli, blackVars, monVars, usageSeen, work, fatal>>
  PROVE  MPMInv'
<1> DEFINE e == conns[c]
           b == black[c]
           d == sess[c].sdlg
           s == [sess[c] EXCEPT !.sdlg = None]
           f == conns'[c]
<1>0. /\ sess[c] \in Session /\ cli[c] \in Client /\ e \in Entries /\ b \in Blacks /\ TablesOK /\ UsageOK
      /\ Local(sess[c], cli[c], e, b) /\ ChoiceScanned(c)
  BY Here DEF MPMInv, ChoiceScans
<1>1. /\ cli[c].phase = "choosing" /\ sess[c].perr = None /\ sess[c].reply = "none" /\ sess[c].open
      /\ sess[c].choose => sess[c].sel # None
  BY <1>0 DEF Local, Choosing, Granted, Asked
<1>2. d \in StartingDlg /\ d.snap \in BOOLEAN /\ d.iap \in IapOrNone /\ d.iap # NoIap
  BY <1>0, ConstantsAssumption DEF Session, StartingDlg, IapOrNone
<1>3. /\ s \in Session /\ s.choose = sess[c].choose /\ s.reply = "none" /\ s.sdlg = None /\ SameRest(sess[c], s)
      /\ s.sel = sess[c].sel
  BY ZenonT(40), <1>0, <1>1 DEF Session, SameRest
<1>4. \/ /\ AppendBMConnection(c, d.snap, d.iap, "Starting")
         /\ sess' = [sess EXCEPT ![c] = ChooseIapComplete(s, "ok")]
         /\ usage' \in {"Automatic", usage} /\ UNCHANGED timer
      \/ /\ timer' = TRUE
         /\ sess' = [sess EXCEPT ![c] = ChooseIapComplete(s, "error")]
         /\ UNCHANGED <<tableVars, usage>>
  BY DEF StartingResponse
<1>5. UsageOK'
  BY <1>0, <1>4 DEF UsageOK
<1>6. Barred(c, b) /\ b \in Blacks
  BY <1>0, SameVars
<1>7. sess[c].choose => Unscanned(Choice(c))'
  <2>1. sess[c].choose => Unscanned(Choice(c))
    BY <1>0 DEF ChoiceScanned
  <2> QED BY <2>1, SameVars
<1>8. \E a \in {"ok", "error"} :
        /\ sess' = [sess EXCEPT ![c] = ChooseIapComplete(s, a)] /\ Table(c, f)
        /\ a = "ok" => f # None /\ f.state = "Starting" /\ f.iap # NoIap
  <2>1. CASE /\ AppendBMConnection(c, d.snap, d.iap, "Starting")
             /\ sess' = [sess EXCEPT ![c] = ChooseIapComplete(s, "ok")]
    <3>1. /\ TablesOK' /\ f \in Conn /\ f.iap = d.iap /\ f.state = "Starting"
          /\ \A x \in Sessions \ {c} : conns'[x] = conns[x]
      BY <1>0, <1>2, <2>1, AppendKeeps DEF States
    <3>2. Table(c, f) /\ f # None
      BY <3>1, ConstantsAssumption DEF Table
    <3> QED BY <1>2, <2>1, <3>1, <3>2
  <2>2. CASE sess' = [sess EXCEPT ![c] = ChooseIapComplete(s, "error")] /\ UNCHANGED tableVars
    <3>1. Table(c, f)
      BY <2>2, SameVars DEF Table
    <3> QED BY <2>2, <3>1
  <2> QED BY <1>4, <2>1, <2>2
<1>9. PICK a \in {"ok", "error"} :
        /\ sess' = [sess EXCEPT ![c] = ChooseIapComplete(s, a)] /\ Table(c, f)
        /\ a = "ok" => f # None /\ f.state = "Starting" /\ f.iap # NoIap
  BY <1>8
<1> DEFINE r == ChooseIapComplete(s, a)
<1>10. /\ r \in Session /\ SameRest(s, r) /\ ~r.choose /\ ~r.scanning /\ r.sdlg = None /\ r.sel = sess[c].sel
       /\ r.reply = IF sess[c].choose THEN a ELSE "none"
  <2> HIDE DEF s
  <2> QED BY <1>3, CompleteFields
<1>11. sess' = [sess EXCEPT ![c] = r]
  BY <1>9
<1> HIDE DEF r, s, f
<1>12. SameRest(sess[c], r) /\ r.perr = None
  BY <1>1, <1>3, <1>10 DEF SameRest
<1>13. f \in Entries
  BY <1>9 DEF Table, TablesOK
<1>14. Local(r, cli[c], f, b)
  BY <1>0, <1>1, <1>9, <1>10, <1>12, <1>13, ChooseLocal DEF SameRest
<1>15. Proceeds(c, r) /\ Scanned(c, r, cli[c])
  BY <1>1, <1>7, <1>10, <1>12 DEF Proceeds, Scanned
<1> QED BY <1>5, <1>6, <1>9, <1>10, <1>11, <1>14, <1>15, AnswerKeeps

LEMMA RoamingResponseKeeps ==
  ASSUME MPMInv, work.unblack = 0, NEW c \in Sessions, sess[c].rdlg # None, NEW ans \in Answers,
         RoamingResponse(c, ans), Dialogs(ans), UNCHANGED <<cli, tableVars, monVars, usageSeen, work, fatal>>
  PROVE  MPMInv'
<1> DEFINE e == conns[c]
           b == black[c]
           cl == cli[c]
           i == GetBMIap(e)
           s == [sess[c] EXCEPT !.rdlg = None]
           m == [sess[c] EXCEPT !.rdlg = None, !.confirm = FALSE, !.migrateIap = NoIap]
           w == black'[c]
<1>0. /\ sess[c] \in Session /\ cl \in Client /\ e \in Entries /\ b \in Blacks /\ BlacksOK /\ UsageOK
      /\ Local(sess[c], cl, e, b) /\ avail \in SUBSET Iaps
  BY Here DEF MonOK
<1>1. s \in Session /\ s.migrateIap = sess[c].migrateIap /\ s.migrateIap \in IapOrNone
  BY <1>0 DEF Session
<1>2. MigrateDone(s) = m
  BY <1>0 DEF MigrateDone, Session
<1>3. /\ m.choose = sess[c].choose /\ m.perr = sess[c].perr /\ m.sdlg = sess[c].sdlg /\ ~m.confirm /\ m.rdlg = None
      /\ m.reg = sess[c].reg /\ m.offers = sess[c].offers
  BY <1>0 DEF Session
<1>4. cl.mob # "off" /\ cl.pref # NoIap
  BY <1>0 DEF Local, NotMobile, Entry
<1>5. cl.phase \notin {"new", "choosing", "starting", "retrying"} /\ ~sess[c].choose
  BY <1>0, <1>4 DEF Local, NotMobile, Choosing
<1>6. Table(c, e)
  BY SameVars
<1>7. UsageOK'
  BY <1>0 DEF RoamingResponse, UsageOK
<1>8. \/ /\ sess' = [sess EXCEPT ![c] = MigrateDone(StartIAPNotification(s, s.migrateIap))]
         /\ UNCHANGED blackVars
      \/ /\ BlackListIap(c, i, "EConnectionLifetime")
         /\ sess' = [sess EXCEPT ![c] = MigrateDone(PrefOrError(s, e, w, avail))]
      \/ /\ sess' = [sess EXCEPT ![c] = MigrateDone(ErrorNotification(s))]
         /\ UNCHANGED blackVars
  BY DEF RoamingResponse
<1> HIDE DEF m, w
<1>9. ASSUME NEW r \in Session, sess' = [sess EXCEPT ![c] = r], NEW v, Barred(c, v), Local(r, cl, e, v),
             r.choose = sess[c].choose, r.perr = sess[c].perr, r.sdlg = sess[c].sdlg
      PROVE  MPMInv'
  <2>1. Proceeds(c, r) /\ Scanned(c, r, cl)
    BY <1>5, <1>9, CalmScans
  <2> QED BY <1>6, <1>7, <1>9, <2>1, AnswerKeeps
<1>10. ASSUME NEW v \in Blacks, b \subseteq v PROVE m \in Session /\ Local(m, cl, e, v)
  BY <1>0, <1>10, DialogGoneLocal DEF m
<1>11. CASE /\ sess' = [sess EXCEPT ![c] = MigrateDone(StartIAPNotification(s, s.migrateIap))]
            /\ UNCHANGED blackVars
  <2> DEFINE g == s.migrateIap
             r == StartIAPNotification(m, g)
  <2>1. sess' = [sess EXCEPT ![c] = r]
    BY <1>1, <1>2, <1>11, DoneStart
  <2>2. m \in Session /\ Local(m, cl, e, b)
    BY <1>0, <1>10
  <2>3. Uncrossed(m, cl) => cl.mob = "response" /\ e # None /\ e.state = "Roaming" /\ e.iap = g /\ cl.pref = g
    BY <1>0, <1>1, <1>3 DEF Uncrossed, Local, Asking, Entry
  <2>4. g \in IapOrNone
    BY <1>1
  <2> HIDE DEF g
  <2>5. /\ r \in Session /\ Local(r, cl, e, b)
        /\ r.sdlg = m.sdlg /\ r.choose = m.choose /\ r.perr = m.perr
    BY <1>0, <1>3, <1>4, <2>2, <2>3, <2>4, StartNoteLocal
  <2> HIDE DEF r
  <2>6. Barred(c, b)
    BY <1>11, SameVars
  <2> QED BY <1>3, <1>9, <2>1, <2>5, <2>6
<1>12. ASSUME NEW q, NEW v \in Blacks, Barred(c, v), b \subseteq v, Reached(s, q, e, v, avail),
              sess' = [sess EXCEPT ![c] = MigrateDone(q)]
       PROVE  MPMInv'
  <2> DEFINE r == MigrateDone(q)
  <2>1. Reached(m, r, e, v, avail)
    BY <1>1, <1>2, <1>12, DoneReached
  <2>2. m \in Session /\ Local(m, cl, e, v)
    BY <1>10, <1>12
  <2> HIDE DEF r
  <2>3. /\ r \in Session /\ Local(r, cl, e, v)
        /\ r.sdlg = m.sdlg /\ r.choose = m.choose /\ r.perr = m.perr
    BY <1>0, <2>1, <2>2, ReachedLocal, ReachedType
  <2> QED BY <1>3, <1>9, <1>12, <2>3 DEF r
<1>13. CASE /\ BlackListIap(c, i, "EConnectionLifetime")
            /\ sess' = [sess EXCEPT ![c] = MigrateDone(PrefOrError(s, e, w, avail))]
  <2>1. i \in IapOrNone
    BY <1>0 DEF GetBMIap, Entries, Conn, IapOrNone
  <2> HIDE DEF i
  <2>2. Barred(c, w) /\ b \subseteq w /\ w \in Blacks
    BY <1>0, <1>13, <2>1, BlackKeeps DEF Barred, w, Categories, BlacksOK
  <2>3. Reached(s, PrefOrError(s, e, w, avail), e, w, avail)
    BY <1>0, <1>1, PrefOrErrorResult
  <2> QED BY <1>12, <1>13, <2>2, <2>3
<1>14. CASE sess' = [sess EXCEPT ![c] = MigrateDone(ErrorNotification(s))] /\ UNCHANGED blackVars
  <2>1. Reached(s, ErrorNotification(s), e, b, avail) /\ Barred(c, b)
    BY <1>14, SameVars DEF Reached
  <2> QED BY <1>0, <1>12, <1>14, <2>1
<1> QED BY <1>8, <1>11, <1>13, <1>14

\* The dialog that starts does not take the answer.
LEMMA CarryKeeps ==
  ASSUME MPMInv, work.unblack = 0,
         UNCHANGED <<sess, cli, tableVars, blackVars, monVars, startQ, roamQ, timer, usageVars, work, fatal>>,
         carry' \in {NoCarry, [carry EXCEPT !.roam = None]}
  PROVE  MPMInv'
<1>0. carry \in [start: {None} \cup Answer, roam: {None} \cup Answer]
  BY DEF MPMInv, TypeOK
<1>1. /\ carry' \in [start: {None} \cup Answer, roam: {None} \cup Answer]
      /\ carry'.start \in {None, carry.start} /\ carry'.roam = None
  BY <1>0 DEF NoCarry
<1>2. TypeOK'
  BY <1>1 DEF MPMInv, TypeOK, tableVars, blackVars, monVars, usageVars
<1>3. AllLocal' /\ TableListed'
  BY DEF MPMInv, AllLocal, TableListed, tableVars, blackVars
<1>6. LoopInRange'
  <2>1. Len(blackOrder') \in Nat /\ work' = work
    <3>1. blackOrder' = blackOrder /\ work' = work
      BY DEF blackVars
    <3>2. blackOrder \in Seq(Sessions)
      BY DEF MPMInv, TypeOK
    <3> QED BY <3>1, <3>2
  <2>2. carry = NoCarry => carry' = NoCarry
    BY <1>0 DEF NoCarry
  <2> QED BY <2>1, <2>2 DEF LoopInRange
<1>4. QueuesMatch'
  BY <1>1 DEF MPMInv, QueuesMatch
<1>5. RequestsProgress' /\ ChoiceScans'
  BY DEF MPMInv, RequestsProgress, ChoiceScans, ChoiceScanned, Outstanding, Once, Unscanned, monVars
<1> QED BY <1>2, <1>3, <1>4, <1>5, <1>6 DEF MPMInv

LEMMA HeadDialogs ==
  ASSUME MPMInv
  PROVE  /\ startQ # <<>> => Head(startQ) \in Sessions /\ sess[Head(startQ)].sdlg # None
         /\ roamQ # <<>> => Head(roamQ) \in Sessions /\ sess[Head(roamQ)].rdlg # None
         /\ carry.start # None => startQ # <<>> /\ carry # NoCarry /\ carry.start.ans \in Answers
         /\ carry.roam # None => roamQ # <<>> /\ carry # NoCarry /\ carry.roam.ans \in Answers
<1>1. /\ startQ \in Seq(Sessions) /\ roamQ \in Seq(Sessions)
      /\ carry \in [start: {None} \cup Answer, roam: {None} \cup Answer]
  BY DEF MPMInv, TypeOK
<1>2. /\ startQ # <<>> => Head(startQ) \in Sessions /\ Head(startQ) \in ToSet(startQ)
      /\ roamQ # <<>> => Head(roamQ) \in Sessions /\ Head(roamQ) \in ToSet(roamQ)
  BY <1>1, HeadIsIn
<1>3. (carry.start # None \/ carry.roam # None) => carry # NoCarry
  BY DEF NoCarry
<1> QED BY <1>1, <1>2, <1>3 DEF MPMInv, QueuesMatch, Answer

LEMMA DialogsAnsweredKeeps ==
  ASSUME MPMInv, \/ \E ans \in Answers : AnswerStarting(ans) \/ AnswerRoaming(ans)
                 \/ PropagateStarting \/ PropagateRoaming
  PROVE  MPMInv'
<1>1. ASSUME NEW ans \in Answers, AnswerStarting(ans) PROVE MPMInv'
  BY <1>1, HeadDialogs, NoLoop, StartingResponseKeeps DEF AnswerStarting
<1>2. ASSUME NEW ans \in Answers, AnswerRoaming(ans) PROVE MPMInv'
  BY <1>2, HeadDialogs, NoLoop, RoamingResponseKeeps DEF AnswerRoaming
<1>3. ASSUME PropagateStarting PROVE MPMInv'
  <2> DEFINE c == Head(startQ)
             ans == carry.start.ans
  <2>1. /\ c \in Sessions /\ sess[c].sdlg # None /\ carry # NoCarry /\ ans \in Answers
        /\ carry.roam = None
    BY <1>3, HeadDialogs DEF PropagateStarting
  <2>2. \/ /\ StartingResponse(c, ans) /\ Dialogs(ans)
           /\ UNCHANGED <<cli, blackVars, monVars, usageSeen, work, fatal>>
        \/ /\ carry' = NoCarry
           /\ UNCHANGED <<sess, cli, tableVars, blackVars, monVars, startQ, roamQ, timer,
                          usageVars, work, fatal>>
    BY <1>3 DEF PropagateStarting, usageVars
  <2>3. work.unblack = 0
    BY <2>1, NoLoop
  <2> HIDE DEF c, ans
  <2> QED BY <2>1, <2>2, <2>3, StartingResponseKeeps, CarryKeeps
<1>4. ASSUME PropagateRoaming PROVE MPMInv'
  <2> DEFINE c == Head(roamQ)
             ans == carry.roam.ans
  <2>1. /\ c \in Sessions /\ sess[c].rdlg # None /\ carry # NoCarry /\ ans \in Answers
    BY <1>4, HeadDialogs DEF PropagateRoaming
  <2>2. \/ /\ RoamingResponse(c, ans) /\ Dialogs(ans)
           /\ UNCHANGED <<cli, tableVars, monVars, usageSeen, work, fatal>>
        \/ /\ carry' = [carry EXCEPT !.roam = None]
           /\ UNCHANGED <<sess, cli, tableVars, blackVars, monVars, startQ, roamQ, timer,
                          usageVars, work, fatal>>
    BY <1>4 DEF PropagateRoaming, usageVars
  <2>3. work.unblack = 0
    BY <2>1, NoLoop
  <2> HIDE DEF c, ans
  <2> QED BY <2>1, <2>2, <2>3, RoamingResponseKeeps, CarryKeeps
<1> QED BY <1>1, <1>2, <1>3, <1>4

------------------------------------------------------------------------------
(* Settings and leaving *)

\* Sessions are stopped at most, and nothing else that matters changes.
LEMMA StoppedKeeps ==
  ASSUME MPMInv, NodesOK', UsageOK',
         \A d \in Sessions : sess'[d] = sess[d] \/ sess'[d] = StopIAPNotification(sess[d]),
         UNCHANGED <<cli, tableVars, blackVars, monVars, startQ, roamQ, carry, work, fatal>>
  PROVE  MPMInv'
<1>0. /\ NodesOK /\ TablesOK /\ BlacksOK /\ MonOK /\ WorkOK /\ DialogsOK /\ AllLocal /\ QueuesMatch
      /\ RequestsProgress /\ ChoiceScans /\ LoopInRange
  BY TypeSplit DEF MPMInv
<1>1. UNCHANGED <<conns, connOrder, black, blackOrder, avail, discard, discarded, scans, obsolete>>
  BY DEF tableVars, blackVars, monVars
<1>2. TablesOK' /\ BlacksOK' /\ MonOK' /\ WorkOK' /\ DialogsOK' /\ LoopInRange'
  <2>1. TablesOK'
    BY <1>0, <1>1 DEF TablesOK, TableListed
  <2>2. BlacksOK' /\ LoopInRange'
    BY <1>0, <1>1 DEF BlacksOK, LoopInRange
  <2>3. MonOK' /\ WorkOK' /\ DialogsOK'
    BY <1>0, <1>1 DEF MonOK, WorkOK, DialogsOK
  <2> QED BY <2>1, <2>2, <2>3
<1>3. ASSUME NEW d \in Sessions
      PROVE  /\ Local(sess'[d], cli'[d], conns'[d], black'[d])
             /\ sess'[d].sdlg = sess[d].sdlg /\ sess'[d].rdlg = sess[d].rdlg
             /\ sess'[d].choose = sess[d].choose /\ sess'[d].perr = sess[d].perr
             /\ sess'[d].reply = sess[d].reply /\ cli'[d] = cli[d]
  <2>1. /\ sess[d] \in Session /\ cli[d] \in Client /\ conns[d] \in Entries /\ black[d] \in Blacks
        /\ Local(sess[d], cli[d], conns[d], black[d])
    BY Here
  <2>2. Local(StopIAPNotification(sess[d]), cli[d], conns[d], black[d])
    BY <2>1, PlainNoteLocal DEF StopIAPNotification
  <2> QED BY <1>1, <2>1, <2>2, StopFields
<1>4. AllLocal'
  BY <1>3 DEF AllLocal
<1>5. QueuesMatch'
  BY <1>0, <1>3 DEF QueuesMatch
<1>6. RequestsProgress' /\ ChoiceScans'
  <2>1. \A x : (Once(x) => Once(x)') /\ (Unscanned(x) => Unscanned(x)')
    BY <1>1 DEF Once, Unscanned
  <2>2. \A d \in Sessions, cb \in Callbacks : Outstanding(d, cb) => Outstanding(d, cb)'
    BY <1>1 DEF Outstanding
  <2>3. RequestsProgress'
    BY <1>0, <1>3, <2>2 DEF RequestsProgress, Callbacks
  <2>4. ChoiceScans'
    BY <1>0, <1>3, <2>1 DEF ChoiceScans, ChoiceScanned
  <2> QED BY <2>3, <2>4
<1>7. TypeOK' /\ TableListed'
  BY <1>2, TypeSplit
<1> QED BY <1>2, <1>4, <1>5, <1>6, <1>7 DEF MPMInv

\* Nothing changes but the timer and the settings.
LEMMA SettingsKeep ==
  ASSUME MPMInv, UsageOK',
         UNCHANGED <<sess, cli, tableVars, blackVars, monVars, startQ, roamQ, carry, work, fatal>>
  PROVE  MPMInv'
<1>1. NodesOK'
  BY TypeSplit DEF MPMInv, NodesOK
<1> QED BY <1>1, StoppedKeeps

LEMMA PermQueryTimerExpiresKeeps == ASSUME MPMInv, PermQueryTimerExpires PROVE MPMInv'
<1>1. UsageOK
  BY TypeSplit DEF MPMInv
<1>2. UsageOK'
  BY <1>1 DEF UsageOK, PermQueryTimerExpires, usageVars
<1> QED BY <1>2, SettingsKeep DEF PermQueryTimerExpires

LEMMA UserSetsUsageKeeps == ASSUME MPMInv, NEW u \in Usages, UserSetsUsage(u) PROVE MPMInv'
<1>1. UsageOK
  BY TypeSplit DEF MPMInv
<1>2. UsageOK' /\ UNCHANGED <<startQ, roamQ, carry>>
  BY <1>1 DEF UsageOK, UserSetsUsage, dialogVars
<1> QED BY <1>2, SettingsKeep DEF UserSetsUsage

\* The sessions that are stopped, and the one that goes.
LEMMA StoppedType ==
  ASSUME NodesOK, NEW S
  PROVE  /\ Stopped(S) \in [Sessions -> Session]
         /\ \A d \in Sessions : Stopped(S)[d] = sess[d] \/ Stopped(S)[d] = StopIAPNotification(sess[d])
  BY StopFields DEF NodesOK, Stopped

LEMMA DataUsageChangedKeeps == ASSUME MPMInv, DataUsageChanged PROVE MPMInv'
<1>1. NodesOK /\ UsageOK
  BY TypeSplit DEF MPMInv
<1>2. PICK S : sess' = Stopped(S)
  BY DEF DataUsageChanged
<1>3. /\ UsageOK' /\ UNCHANGED <<startQ, roamQ, carry>>
      /\ UNCHANGED <<cli, tableVars, blackVars, monVars, work, fatal>>
  BY <1>1 DEF UsageOK, DataUsageChanged, dialogVars
<1>4. /\ NodesOK'
      /\ \A d \in Sessions : sess'[d] = sess[d] \/ sess'[d] = StopIAPNotification(sess[d])
  BY <1>1, <1>2, <1>3, StoppedType DEF NodesOK
<1> QED BY <1>3, <1>4, StoppedKeeps

\* A connection that goes may stop others.
LEMMA GoesKeeps ==
  ASSUME MPMInv, Quiet, NEW c \in Sessions, NEW r \in Session, NEW k \in Client, NEW S,
         sess' = [Stopped(S) EXCEPT ![c] = r], cli' = [cli EXCEPT ![c] = k],
         UnblackListIap(c), RemoveBMConnection(c), Local(r, k, None, {}), MonOK', OthersScanned(c),
         Cancelled, UNCHANGED <<timer, usageVars, work, fatal>>,
         ~r.choose, r.perr = None, k.phase \in {"ended", "gone"}
  PROVE  MPMInv'
<1>0. NodesOK /\ TablesOK /\ BlacksOK /\ UsageOK /\ WorkOK
  BY TypeSplit DEF MPMInv
<1>1. /\ NodesOK' /\ sess'[c] = r /\ cli'[c] = k
      /\ \A d \in Sessions \ {c} :
           (sess'[d] = sess[d] \/ sess'[d] = StopIAPNotification(sess[d])) /\ cli'[d] = cli[d]
  BY <1>0, StoppedType DEF NodesOK
<1>2. /\ TablesOK' /\ conns'[c] = None /\ BlacksOK' /\ black'[c] = {}
      /\ \A d \in Sessions \ {c} : conns'[d] = conns[d] /\ black'[d] = black[d]
  BY <1>0, RemoveKeeps, UnblackKeeps
<1>3. Frame(c) /\ Local(sess'[c], cli'[c], conns'[c], black'[c])
  BY <1>1, <1>2 DEF Frame
<1>4. UsageOK' /\ WorkOK'
  BY <1>0 DEF UsageOK, WorkOK, usageVars
<1>5. LoopInRange'
  BY <1>2 DEF LoopInRange, Quiet, NoWork, BlacksOK
<1>6. DialogsMove(c) /\ OwnProgress(c) /\ ChoiceScanned(c)'
  BY <1>1 DEF DialogsMove, Cancelled, Answers, OwnProgress, ChoiceScanned
<1> QED BY <1>1, <1>2, <1>3, <1>4, <1>5, <1>6, StepKeeps

LEMMA ApplicationConnectionEndsKeeps ==
  ASSUME MPMInv, NEW c \in Sessions, ApplicationConnectionEnds(c) PROVE MPMInv'
<1> DEFINE r == [sess[c] EXCEPT !.reg = FALSE, !.rdlg = None, !.sel = None]
           k == [cli[c] EXCEPT !.phase = "ended"]
<1>0. /\ sess[c] \in Session /\ cli[c] \in Client /\ conns[c] \in Entries /\ black[c] \in Blacks
      /\ Local(sess[c], cli[c], conns[c], black[c])
  BY Here
<1>1. /\ Quiet /\ Free(c) /\ cli[c].phase = "left" /\ UnblackListIap(c) /\ RemoveBMConnection(c)
      /\ Cancelled /\ cli' = [cli EXCEPT ![c] = k]
      /\ UNCHANGED <<monVars, timer, usageVars, work, fatal>>
  BY DEF ApplicationConnectionEnds, Ready
<1>2. StopDisplayingStartingDlg(sess[c]) = sess[c]
  BY <1>0, <1>1 DEF Local, Choosing, StopDisplayingStartingDlg
<1>3. sess' = [Stopped(StoppedByRemove(c)) EXCEPT ![c] = r]
  BY <1>2 DEF ApplicationConnectionEnds
<1>4. Local(r, k, None, {}) /\ r \in Session /\ k \in Client
  BY <1>0, <1>1, EndsLocal DEF Free
<1>5. ~r.choose /\ r.perr = None /\ k.phase = "ended"
  BY <1>0, <1>1 DEF Free, Session, Client
<1>6. MonOK' /\ OthersScanned(c)
  BY <1>1, SameVars
<1> HIDE DEF r, k
<1> QED BY <1>1, <1>3, <1>4, <1>5, <1>6, GoesKeeps

LEMMA CloseKeeps == ASSUME MPMInv, NEW c \in Sessions, Close(c) PROVE MPMInv'
<1> DEFINE k == [NoClient EXCEPT !.phase = "gone"]
<1>1. /\ Quiet /\ CancelScan(c) /\ UnblackListIap(c) /\ RemoveBMConnection(c)
      /\ sess' = [Stopped(StoppedByRemove(c)) EXCEPT ![c] = NoSession]
      /\ Cancelled /\ cli' = [cli EXCEPT ![c] = k]
      /\ UNCHANGED <<timer, usageVars, work, fatal>>
  BY DEF Close
<1>2. Local(NoSession, k, None, {}) /\ NoSession \in Session /\ k \in Client
  BY CloseLocal, NoSessionType
<1>3. ~NoSession.choose /\ NoSession.perr = None /\ k.phase = "gone"
  BY DEF NoSession, NoClient
<1>4. MonOK' /\ OthersScanned(c)
  BY <1>1, Here, CancelScanKeeps
<1> HIDE DEF k
<1> QED BY <1>1, <1>2, <1>3, <1>4, GoesKeeps

------------------------------------------------------------------------------
(* Scans and events *)

\* An event changes what ConnMon told and what the handler has to do.
LEMMA EventKeeps ==
  ASSUME MPMInv, Quiet, UNCHANGED <<sess, cli, tableVars, blackVars, dialogVars, usageVars, fatal>>,
         MonOK', WorkOK', work'.unblack \in {0, Len(blackOrder)},
         \A x : (Once(x) => Once(x)') /\ (Unscanned(x) => Unscanned(x)'),
         \A d \in Sessions, cb \in Callbacks : Outstanding(d, cb) => Outstanding(d, cb)'
  PROVE  MPMInv'
<1>0. /\ NodesOK /\ TablesOK /\ BlacksOK /\ UsageOK /\ DialogsOK /\ AllLocal /\ QueuesMatch
      /\ RequestsProgress /\ ChoiceScans
  BY TypeSplit DEF MPMInv
<1>1. UNCHANGED <<conns, connOrder, black, blackOrder, startQ, roamQ, timer, carry, usage, usageSeen>>
  BY DEF tableVars, blackVars, dialogVars, usageVars
<1>2. TablesOK' /\ NodesOK' /\ BlacksOK'
  BY <1>0, <1>1 DEF TablesOK, TableListed, NodesOK, BlacksOK
<1>3. UsageOK' /\ DialogsOK'
  BY <1>0, <1>1 DEF UsageOK, DialogsOK
<1>4. LoopInRange'
  <2>1. carry' = NoCarry /\ Len(blackOrder) \in Nat
    BY <1>0, <1>1 DEF Quiet, BlacksOK
  <2> QED BY <1>1, <2>1 DEF LoopInRange
<1>5. AllLocal' /\ QueuesMatch'
  BY <1>0, <1>1 DEF AllLocal, QueuesMatch
<1>6. RequestsProgress' /\ ChoiceScans'
  <2>1. RequestsProgress'
    BY <1>0 DEF RequestsProgress, Callbacks
  <2>2. ChoiceScans'
    BY <1>0 DEF ChoiceScans, ChoiceScanned
  <2> QED BY <2>1, <2>2
<1>7. TypeOK' /\ TableListed'
  BY <1>2, <1>3, TypeSplit
<1> QED BY <1>4, <1>5, <1>6, <1>7 DEF MPMInv

\* A scan that ends goes from the list to the work of the handler.
LEMMA TakenKeeps ==
  ASSUME scans \in Seq(Scan), NEW k \in 1..Len(scans), scans' = RemoveAt(scans, k),
         work.cb = None, work'.cb = scans[k]
  PROVE  /\ scans' \in Seq(Scan)
         /\ \A x : (Once(x) => Once(x)') /\ (Unscanned(x) => Unscanned(x)')
         /\ \A d \in Sessions, cb \in Callbacks : Outstanding(d, cb) => Outstanding(d, cb)'
<1>1. /\ scans' \in Seq(Scan) /\ Len(scans') = Len(scans) - 1 /\ Len(scans) \in Nat
      /\ \A i \in 1..(Len(scans) - 1) : scans'[i] = IF i < k THEN scans[i] ELSE scans[i + 1]
      /\ ToSet(scans) \subseteq ToSet(scans') \cup {scans[k]}
  <2> DEFINE q == RemoveAt(scans, k)
  <2>0. Len(scans) \in Nat
    OBVIOUS
  <2>1. /\ q \in Seq(Scan) /\ Len(q) = Len(scans) - 1
        /\ \A i \in 1..(Len(scans) - 1) : q[i] = IF i < k THEN scans[i] ELSE scans[i + 1]
        /\ ToSet(scans) \subseteq ToSet(q) \cup {scans[k]}
    <3> HIDE DEF q
    <3> QED BY RemoveAtKeeps DEF q
  <2>2. scans' = q
    OBVIOUS
  <2> HIDE DEF q
  <2> QED BY <2>0, <2>1, <2>2
<1> DEFINE old(i) == IF i < k THEN i ELSE i + 1
<1>2. \A i \in 1..Len(scans') : old(i) \in 1..Len(scans) /\ scans'[i] = scans[old(i)] /\ old(i) # k
  BY <1>1
<1>3. \A i, j \in 1..Len(scans') : old(i) = old(j) => i = j
  BY <1>1
<1> HIDE DEF old
<1>4. ASSUME NEW x, Once(x) PROVE Once(x)'
  <2>1. ASSUME NEW i \in 1..Len(scans'), NEW j \in 1..Len(scans'), scans'[i] = x, scans'[j] = x
        PROVE  i = j
    <3>1. old(i) \in 1..Len(scans) /\ old(j) \in 1..Len(scans) /\ scans[old(i)] = x /\ scans[old(j)] = x
      BY <1>2, <2>1
    <3>2. old(i) = old(j)
      BY <1>4, <3>1 DEF Once
    <3> QED BY <1>3, <3>2
  <2>2. ASSUME work'.cb = x, NEW i \in 1..Len(scans') PROVE scans'[i] # x
    <3>1. old(i) \in 1..Len(scans) /\ scans'[i] = scans[old(i)] /\ old(i) # k /\ scans[k] = x
      BY <1>2, <2>2
    <3> QED BY <1>4, <3>1 DEF Once
  <2> QED BY <2>1, <2>2 DEF Once
<1>5. ASSUME NEW x, Unscanned(x) PROVE Unscanned(x)'
  BY <1>2, <1>5 DEF Unscanned
<1>6. \A d \in Sessions, cb \in Callbacks : Outstanding(d, cb) => Outstanding(d, cb)'
  <2> SUFFICES ASSUME NEW d \in Sessions, NEW cb \in Callbacks, Outstanding(d, cb)
               PROVE  Outstanding(d, cb)'
    OBVIOUS
  <2>1. [c |-> d, cb |-> cb] # None
    BY ConstantsAssumption DEF Scan
  <2> QED BY <1>1, <2>1 DEF Outstanding
<1> QED BY <1>1, <1>4, <1>5, <1>6

LEMMA SameScans ==
  ASSUME UNCHANGED scans, work'.cb = work.cb
  PROVE  /\ \A x : (Once(x) => Once(x)') /\ (Unscanned(x) => Unscanned(x)')
         /\ \A d \in Sessions, cb \in Callbacks : Outstanding(d, cb) <=> Outstanding(d, cb)'
  BY DEF Once, Unscanned, Outstanding

LEMMA AvailabilityWork ==
  ASSUME NodesOK, BlacksOK, WorkOK, NEW cb \in {None} \cup Scan, UNCHANGED fatal,
         \/ IapAvailabilityChange(cb)
         \/ work' = [NoWork EXCEPT !.cb = cb]
  PROVE  WorkOK' /\ work'.unblack \in {0, Len(blackOrder)} /\ work'.cb = cb
<1>1. CASE IapAvailabilityChange(cb)
  <2>1. Len(blackOrder) \in Nat
    BY DEF BlacksOK
  <2> QED BY <1>1, <2>1 DEF IapAvailabilityChange, WorkOK
<1>2. CASE work' = [NoWork EXCEPT !.cb = cb]
  BY <1>2 DEF NoWork, WorkOK
<1> QED BY <1>1, <1>2

LEMMA QuietWork == ASSUME Quiet PROVE work.cb = None /\ work.unblack = 0 /\ work.pref = {}
                                      /\ work = [NoWork EXCEPT !.cb = None]
  BY DEF Quiet, NoWork

LEMMA AvailabilityEventKeeps ==
  ASSUME MPMInv, NEW S \in SUBSET Iaps, AvailabilityEvent(S) PROVE MPMInv'
<1>0. NodesOK /\ BlacksOK /\ MonOK /\ WorkOK /\ Quiet
  BY TypeSplit DEF MPMInv, AvailabilityEvent
<1>1. WorkOK' /\ work'.unblack \in {0, Len(blackOrder)} /\ work'.cb = None
  <2>1. \/ IapAvailabilityChange(None)
        \/ work' = [NoWork EXCEPT !.cb = None]
    BY <1>0, QuietWork DEF AvailabilityEvent
  <2>2. UNCHANGED fatal
    BY DEF AvailabilityEvent
  <2> QED BY <1>0, <2>1, <2>2, AvailabilityWork
<1>2. MonOK'
  BY <1>0 DEF AvailabilityEvent, MonOK, IapAvailabilityChange
<1>3. UNCHANGED scans /\ work'.cb = work.cb
  BY <1>0, <1>1, QuietWork DEF AvailabilityEvent
<1> QED BY <1>0, <1>1, <1>2, <1>3, SameScans, EventKeeps DEF AvailabilityEvent

LEMMA ObsoleteScanDoneKeeps ==
  ASSUME MPMInv, NEW S \in SUBSET Iaps, ObsoleteScanDone(S) PROVE MPMInv'
<1>0. MonOK /\ WorkOK /\ Quiet
  BY TypeSplit DEF MPMInv, ObsoleteScanDone
<1>1. MonOK'
  BY <1>0 DEF MonOK, ObsoleteScanDone
<1>2. WorkOK' /\ work'.unblack = 0 /\ work'.cb = work.cb /\ UNCHANGED scans
  BY <1>0, QuietWork DEF WorkOK, ObsoleteScanDone
<1> QED BY <1>0, <1>1, <1>2, SameScans, EventKeeps DEF ObsoleteScanDone

LEMMA ScanEndsKeeps == ASSUME MPMInv, NEW c \in Sessions, ScanEnds(c) PROVE MPMInv'
<1>0. NodesOK /\ BlacksOK /\ MonOK /\ WorkOK
  BY TypeSplit DEF MPMInv
<1>1. PICK k \in DOMAIN scans : ScanFails(k) \/ \E S \in SUBSET Iaps : ScanDone(k, S)
  BY DEF ScanEnds
<1>2. k \in 1..Len(scans) /\ scans \in Seq(Scan) /\ scans[k] \in {None} \cup Scan
  BY <1>0 DEF MonOK
<1>3. /\ Quiet /\ scans' = RemoveAt(scans, k)
      /\ UNCHANGED <<sess, cli, tableVars, blackVars, dialogVars, usageVars, fatal, obsolete>>
      /\ discard' = FALSE /\ avail' \in SUBSET Iaps /\ discarded' \in BOOLEAN
      /\ \/ IapAvailabilityChange(scans[k])
         \/ work' = [NoWork EXCEPT !.cb = scans[k]]
  BY <1>0, <1>1 DEF ScanFails, ScanDone, MonOK, IapAvailabilityChange
<1>4. WorkOK' /\ work'.unblack \in {0, Len(blackOrder)} /\ work'.cb = scans[k]
  BY <1>0, <1>2, <1>3, AvailabilityWork
<1>5. /\ scans' \in Seq(Scan)
      /\ \A x : (Once(x) => Once(x)') /\ (Unscanned(x) => Unscanned(x)')
      /\ \A d \in Sessions, cb \in Callbacks : Outstanding(d, cb) => Outstanding(d, cb)'
  BY <1>2, <1>3, <1>4, QuietWork, TakenKeeps
<1>6. MonOK'
  BY <1>0, <1>3, <1>5 DEF MonOK
<1> QED BY <1>3, <1>4, <1>5, <1>6, EventKeeps

------------------------------------------------------------------------------
\* A round of a loop: what the session waits for stays.
LEMMA RoundKeeps ==
  ASSUME MPMInv, NEW c \in Sessions, NEW r \in Session, NEW b, sess' = [sess EXCEPT ![c] = r],
         UNCHANGED <<cli, tableVars, monVars, usageVars>>, timer' \in BOOLEAN,
         Barred(c, b), Local(r, cli[c], conns[c], b), WorkOK', LoopInRange', Asks(c, r),
         work'.cb = work.cb, r.choose = sess[c].choose, r.sdlg = sess[c].sdlg,
         r.perr = sess[c].perr, r.reply = sess[c].reply
  PROVE  MPMInv'
<1>1. cli' = [cli EXCEPT ![c] = cli[c]] /\ cli[c] \in Client /\ Table(c, conns[c]) /\ UsageOK'
  BY Here, SameVars
<1>2. UNCHANGED scans /\ MonOK'
  BY Here DEF monVars, MonOK
<1>3. /\ \A x : (Once(x) => Once(x)') /\ (Unscanned(x) => Unscanned(x)')
      /\ \A d \in Sessions, cb \in Callbacks : Outstanding(d, cb) <=> Outstanding(d, cb)'
  BY <1>2, SameScans
<1>4. OthersScanned(c)
  BY <1>3 DEF OthersScanned
<1>5. RequestsProgress /\ ChoiceScanned(c)
  BY DEF MPMInv, ChoiceScans
<1>6. Proceeds(c, r)
  BY <1>3, <1>5 DEF Proceeds, RequestsProgress, Callbacks
<1>7. Scanned(c, r, cli[c])
  BY <1>3, <1>5 DEF Scanned, ChoiceScanned
<1> QED BY <1>1, <1>2, <1>4, <1>6, <1>7, HandlerKeeps

LEMMA UnblackTemporaryKeeps == ASSUME MPMInv, UnblackTemporary PROVE MPMInv'
<1> DEFINE n == work.unblack
           c == blackOrder[n]
           others == RemoveAt(blackOrder, n)
           left == {x \in black[c] : x[2] # "ETemporary"}
<1>0. /\ WorkOK /\ BlacksOK /\ n \in Nat /\ n > 0 /\ n <= Len(blackOrder) /\ carry = NoCarry
      /\ blackOrder \in Seq(Sessions) /\ Len(blackOrder) \in Nat
  <2>1. WorkOK /\ BlacksOK /\ LoopInRange
    BY TypeSplit DEF MPMInv
  <2> QED BY <2>1 DEF LoopInRange, UnblackTemporary, Busy, WorkOK, BlacksOK
<1>1. c \in Sessions /\ n \in 1..Len(blackOrder)
  BY <1>0
<1>2. /\ black' = [black EXCEPT ![c] = left]
      /\ blackOrder' = (IF left = {} THEN others ELSE <<c>> \o others)
      /\ work' = [work EXCEPT !.unblack = n - 1]
      /\ UNCHANGED <<sess, cli, tableVars, monVars, dialogVars, usageVars, fatal>>
  BY DEF UnblackTemporary
<1>3. others \in Seq(Sessions) /\ Len(others) = Len(blackOrder) - 1
  BY <1>0, <1>1, RemoveAtKeeps
<1>4. /\ black[c] \in Blacks /\ sess[c] \in Session /\ cli[c] \in Client /\ conns[c] \in Entries
      /\ Local(sess[c], cli[c], conns[c], black[c])
  BY <1>1, Here
<1>5. left \in Blacks /\ \A i : <<i, "EConnectionLifetime">> \in black[c] => <<i, "EConnectionLifetime">> \in left
  BY <1>4 DEF Blacks
<1> HIDE DEF c, others, left, n
<1>6. blackOrder' \in Seq(Sessions) /\ n - 1 <= Len(blackOrder')
  <2>1. <<c>> \o others \in Seq(Sessions) /\ Len(<<c>> \o others) = 1 + Len(others)
    BY <1>1, <1>3, ConcatProperties
  <2> QED BY <1>0, <1>2, <1>3, <2>1
<1>7. Barred(c, left)
  BY <1>0, <1>1, <1>2, <1>5, <1>6 DEF Barred, BlacksOK
<1>8. Local(sess[c], cli[c], conns[c], left)
  BY <1>4, <1>5, UnblackLocal
<1>9. work'.unblack = n - 1 /\ work'.cb = work.cb /\ WorkOK'
  <2>1. n - 1 \in Nat
    BY <1>0
  <2>2. work \in [unblack: Nat, pref: SUBSET Sessions, cb: {None} \cup Scan]
    BY <1>0 DEF WorkOK
  <2>3. work' \in [unblack: Nat, pref: SUBSET Sessions, cb: {None} \cup Scan]
        /\ work'.unblack = n - 1 /\ work'.cb = work.cb
    BY <1>2, <2>1, <2>2
  <2> QED BY <1>0, <1>2, <2>3 DEF WorkOK
<1>10. LoopInRange' /\ timer' \in BOOLEAN
  <2>1. UsageOK /\ carry' = carry /\ timer' = timer
    BY <1>2, TypeSplit DEF MPMInv, dialogVars
  <2> QED BY <1>0, <1>6, <1>9, <2>1 DEF LoopInRange, UsageOK
<1>11. Asks(c, sess[c]) /\ sess' = [sess EXCEPT ![c] = sess[c]]
  BY <1>1, <1>2, SameVars DEF Asks
<1> QED BY <1>1, <1>2, <1>4, <1>7, <1>8, <1>9, <1>10, <1>11, RoundKeeps

LEMMA SendPrefIAPNotificationKeeps ==
  ASSUME MPMInv, NEW c \in Sessions, SendPrefIAPNotification(c) PROVE MPMInv'
<1> DEFINE r == PrefIAPNotification(sess[c], conns[c], black[c], avail, "EConnMonEvent")
<1>0. /\ sess[c] \in Session /\ cli[c] \in Client /\ conns[c] \in Entries /\ black[c] \in Blacks
      /\ Local(sess[c], cli[c], conns[c], black[c]) /\ avail \in SUBSET Iaps /\ WorkOK /\ BlacksOK
  BY Here DEF MonOK
<1>1. /\ sess' = [sess EXCEPT ![c] = r] /\ Cancelled /\ work.unblack = 0
      /\ UNCHANGED <<cli, tableVars, blackVars, monVars, timer, usageVars, fatal>>
  BY DEF SendPrefIAPNotification
<1>2. Reached(sess[c], r, conns[c], black[c], avail)
  BY <1>0, PrefResult
<1> HIDE DEF r
<1>3. /\ r \in Session /\ Local(r, cli[c], conns[c], black[c]) /\ r.choose = sess[c].choose
      /\ r.sdlg = sess[c].sdlg /\ r.perr = sess[c].perr /\ r.reply = sess[c].reply
  BY <1>0, <1>2, ReachedLocal, ReachedType
<1>4. \E P \in SUBSET Sessions : work' = [work EXCEPT !.pref = P]
  BY <1>0 DEF SendPrefIAPNotification, WorkOK
<1>5. WorkOK' /\ work'.unblack = 0 /\ work'.cb = work.cb
  BY <1>0, <1>1, <1>4 DEF WorkOK
<1>6. Barred(c, black[c]) /\ timer' \in BOOLEAN /\ Asks(c, r)
  BY <1>1, SameVars DEF Asks
<1>7. LoopInRange'
  BY <1>5, <1>6 DEF LoopInRange, Barred, BlacksOK
<1> QED BY <1>1, <1>3, <1>5, <1>6, <1>7, RoundKeeps

------------------------------------------------------------------------------
(* The callback of a scan, and the invariant of the server *)

\* The callback of a scan of c, which it leaves as r.
LEMMA CallbackKeeps ==
  ASSUME MPMInv, NEW c \in Sessions, work.cb # None, work.cb.c = c, work' = NoWork, WorkOK',
         NEW r \in Session, sess' = [sess EXCEPT ![c] = r], Table(c, conns'[c]),
         UNCHANGED <<cli, blackVars, monVars, timer, usageVars>>, Cancelled,
         Local(r, cli[c], conns'[c], black[c]),
         r.choose => sess[c].choose /\ (r.sdlg # None \/ work.cb.cb # "ChooseIap"),
         r.sdlg # sess[c].sdlg => cli[c].phase \notin {"new", "starting", "retrying"},
         r.choose /\ r.sdlg # None => sess[c].sdlg # None \/ work.cb = Choice(c),
         r.choose /\ r.sdlg = None => sess[c].sdlg = None,
         r.perr # None => sess[c].perr # None /\ work.cb.cb # "ProcessErr",
         cli[c].phase = "choosing" /\ r.reply # "none" =>
           sess[c].reply # "none" \/ (sess[c].choose /\ work.cb = Choice(c))
  PROVE  MPMInv'
<1>0. cli[c] \in Client /\ RequestsProgress /\ ChoiceScanned(c) /\ MonOK /\ work.cb \in Scan
  BY Here DEF MPMInv, ChoiceScans, WorkOK
<1>1. /\ cli' = [cli EXCEPT ![c] = cli[c]] /\ Barred(c, black[c]) /\ UsageOK' /\ Asks(c, r)
  BY SameVars DEF Asks
<1>2. MonOK' /\ UNCHANGED scans
  BY <1>0 DEF MonOK, monVars
<1>3. work'.cb = None /\ work'.unblack = 0
  BY DEF NoWork
<1>4. LoopInRange'
  BY <1>1, <1>3 DEF LoopInRange, Barred, BlacksOK
<1>5. \A x : x # None => (Once(x) => Once(x)') /\ (Unscanned(x) => Unscanned(x)')
  BY <1>2, <1>3 DEF Once, Unscanned
<1>6. work.cb = Choice(c) /\ Once(Choice(c)) => Unscanned(Choice(c))'
  BY <1>0, <1>2, <1>3, ConstantsAssumption DEF Once, Unscanned
<1>7. \A d \in Sessions : Choice(d) # None
  BY ConstantsAssumption DEF Choice, Scan, Callbacks
<1>8. \A d \in Sessions, cb \in Callbacks :
        d # c \/ cb # work.cb.cb => (Outstanding(d, cb) => Outstanding(d, cb)')
  <2> SUFFICES ASSUME NEW d \in Sessions, NEW cb \in Callbacks, d # c \/ cb # work.cb.cb,
                      Outstanding(d, cb)
               PROVE  Outstanding(d, cb)'
    OBVIOUS
  <2>1. work.cb # [c |-> d, cb |-> cb]
    OBVIOUS
  <2> QED BY <1>2, <2>1 DEF Outstanding
<1>9. OthersScanned(c)
  BY <1>5, <1>7, <1>8 DEF OthersScanned
<1>10. Proceeds(c, r)
  BY <1>0, <1>8 DEF Proceeds, RequestsProgress, Callbacks
<1>11. Scanned(c, r, cli[c])
  BY <1>0, <1>5, <1>6, <1>7 DEF Scanned, ChoiceScanned
<1> QED BY <1>0, <1>1, <1>2, <1>4, <1>9, <1>10, <1>11, HandlerKeeps

LEMMA ScanCallbackKeeps == ASSUME MPMInv, ScanCallback PROVE MPMInv'
<1> DEFINE c == work.cb.c
           s == sess[c]
           e == conns[c]
           b == black[c]
           cl == cli[c]
<1>0. work.cb # None /\ work.cb \in Scan /\ work.unblack = 0 /\ WorkOK
  <2>1. WorkOK
    BY TypeSplit DEF MPMInv
  <2> QED BY <2>1 DEF ScanCallback, WorkOK
<1>1. c \in Sessions /\ work.cb.cb \in Callbacks
  BY <1>0 DEF Scan
<1>2. /\ s \in Session /\ cl \in Client /\ e \in Entries /\ b \in Blacks /\ avail \in SUBSET Iaps
      /\ Local(s, cl, e, b) /\ Asked(s, cl) /\ Choosing(s, cl) /\ Granted(s, cl, e) /\ ChoiceScanned(c)
  BY <1>1, Here DEF Local, MonOK, MPMInv, ChoiceScans
<1>3. Cancelled /\ work' = NoWork /\ UNCHANGED <<cli, blackVars, monVars, timer, usageVars>>
  BY DEF ScanCallback
<1>4. \/ ~s.open /\ fatal' = "freed session" /\ UNCHANGED <<sess, tableVars>>
      \/ s.open /\ work.cb.cb = "ChooseIap" /\ ChooseIapScanCompleted(c) /\ UNCHANGED fatal
      \/ /\ s.open /\ work.cb.cb = "ProcessErr"
         /\ \/ s.perr = None /\ fatal' = "null message" /\ UNCHANGED <<sess, tableVars>>
            \/ /\ s.perr # None /\ UNCHANGED <<tableVars, fatal>>
               /\ sess' = [sess EXCEPT ![c] = IgnoreOrPropagate(s, e, b, avail \ {GetBMIap(e)})]
      \/ /\ s.open /\ work.cb.cb = "CarrierRejected" /\ UNCHANGED <<tableVars, fatal>>
         /\ sess' = [sess EXCEPT ![c] = OfferNext(s, e, b)]
  BY DEF ScanCallback
<1>5. WorkOK'
  BY <1>0, <1>3, <1>4 DEF WorkOK, NoWork
<1>6. work.cb.cb = "ChooseIap" => work.cb = Choice(c)
  BY <1>0 DEF Scan, Choice
<1>7. UNCHANGED tableVars => Table(c, conns'[c]) /\ conns'[c] = e
  BY <1>1, SameVars DEF Table, tableVars
<1>8. UNCHANGED sess => sess' = [sess EXCEPT ![c] = s]
  BY <1>1, SameVars
<1> HIDE DEF c, s, e, b, cl
<1>9. ASSUME NEW r \in Session, sess' = [sess EXCEPT ![c] = r], UNCHANGED tableVars,
             Local(r, cl, e, b), r.choose = s.choose, r.sdlg = s.sdlg, r.reply = s.reply,
             r.choose => work.cb.cb # "ChooseIap",
             r.perr # None => s.perr # None /\ work.cb.cb # "ProcessErr"
      PROVE  MPMInv'
  BY <1>0, <1>1, <1>3, <1>5, <1>7, <1>9, CallbackKeeps DEF c, s, e, b, cl
<1>10. CASE ~s.open /\ UNCHANGED <<sess, tableVars>>
  <2>1. ~s.choose /\ s.perr = None
    BY <1>2, <1>10 DEF Asked, Choosing, Granted
  <2> QED BY <1>2, <1>8, <1>9, <1>10, <2>1
<1>11. CASE s.open /\ work.cb.cb = "ProcessErr" /\ s.perr = None /\ UNCHANGED <<sess, tableVars>>
  BY <1>2, <1>8, <1>9, <1>11
<1>12. CASE /\ work.cb.cb = "ProcessErr" /\ s.perr # None /\ UNCHANGED tableVars
            /\ sess' = [sess EXCEPT ![c] = IgnoreOrPropagate(s, e, b, avail \ {GetBMIap(e)})]
  <2> DEFINE info == avail \ {GetBMIap(e)}
             q == PrefOrError(s, e, b, info)
  <2>1. PICK a \in {"Propagate", "Ignore"} : sess' = [sess EXCEPT ![c] = ProcessErrorComplete(q, a)]
    BY <1>12 DEF IgnoreOrPropagate
  <2>2. info \in SUBSET Iaps
    BY <1>2
  <2> HIDE DEF info
  <2>3. Reached(s, q, e, b, info)
    BY <1>2, <2>2, PrefOrErrorResult
  <2> HIDE DEF q
  <2> DEFINE t == ProcessErrorComplete(s, a)
             r == ProcessErrorComplete(q, a)
  <2>4. t \in Session /\ Local(t, cl, e, b)
    BY <1>2, <1>12, ScanEndsLocal DEF ProcessErrorComplete
  <2>5. t.choose = s.choose /\ t.perr = None
    BY <1>2 DEF Session, ProcessErrorComplete
  <2>6. Reached(t, r, e, b, info)
    BY <1>2, <2>3, ErrorCompleteReached
  <2>7. sess' = [sess EXCEPT ![c] = r]
    BY <2>1
  <2> HIDE DEF t, r
  <2>8. r \in Session /\ Local(r, cl, e, b) /\ r.choose = s.choose /\ r.perr = None
    BY <1>2, <2>2, <2>4, <2>5, <2>6, ReachedLocal, ReachedType
  <2>9. ~s.choose /\ cl.phase # "choosing"
    BY <1>2, <1>12 DEF Choosing, Granted
  <2>10. r.sdlg = s.sdlg
    <3>1. t.sdlg = s.sdlg
      BY <1>2 DEF t, Session, ProcessErrorComplete
    <3> QED BY <2>2, <2>4, <2>6, <3>1, ReachedType
  <2> QED BY <1>0, <1>1, <1>3, <1>5, <1>7, <1>12, <2>7, <2>8, <2>9, <2>10, CallbackKeeps DEF c, s, e, b, cl
<1>13. CASE /\ work.cb.cb = "CarrierRejected" /\ UNCHANGED tableVars
            /\ sess' = [sess EXCEPT ![c] = OfferNext(s, e, b)]
  <2> DEFINE r == OfferNext(s, e, b)
  <2>1. Reached(s, r, e, b, avail)
    BY <1>2, OfferNextResult
  <2>2. sess' = [sess EXCEPT ![c] = r]
    BY <1>13
  <2> HIDE DEF r
  <2>3. /\ r \in Session /\ Local(r, cl, e, b) /\ r.choose = s.choose /\ r.sdlg = s.sdlg
        /\ r.reply = s.reply /\ r.perr = s.perr
    BY <1>2, <2>1, ReachedLocal, ReachedType
  <2> QED BY <1>9, <1>13, <2>2, <2>3
<1>14. CASE work.cb.cb = "ChooseIap" /\ UNCHANGED <<sess, tableVars>> /\ ~s.scanning
  <2>1. ~s.choose
    <3>1. s.choose => s.sdlg # None
      BY <1>2, <1>14 DEF Choosing
    <3> QED BY <1>2, <1>6, <1>14, <3>1 DEF ChoiceScanned, Unscanned, s
  <2> QED BY <1>2, <1>8, <1>9, <1>14, <2>1
<1>15. ASSUME s.scanning, work.cb.cb = "ChooseIap", NEW r \in Session, sess' = [sess EXCEPT ![c] = r],
              SameRest(s, r), Table(c, conns'[c]),
              r.choose => r.sel # None /\ r.sdlg # None /\ s.choose /\ ~r.sel.silent,
              Disciplined /\ r.scanning => r.choose,
              \/ ~r.choose /\ ~r.scanning /\ r.sdlg = s.sdlg
              \/ r.choose = s.choose /\ r.scanning = s.scanning /\ r.sdlg # None /\ ~r.sel.silent
                 /\ r.reply = "none",
              r.reply # "none" => s.choose /\ ~r.choose /\ ~r.scanning /\ r.sdlg = s.sdlg,
              r.reply # "Reselect",
              r.reply = "ok" => conns'[c] # None /\ conns'[c].state = "Starting" /\ conns'[c].iap # NoIap
       PROVE  MPMInv'
  <2>1. cl.phase = "choosing" /\ s.reply = "none" /\ (Disciplined => s.choose)
    BY <1>2, <1>15 DEF Choosing
  <2>2. s.open /\ s.perr = None
    BY <1>2, <2>1 DEF Asked, Granted
  <2>3. s.choose => s.sdlg = None
    BY <1>2, <1>6, <1>15 DEF ChoiceScanned, Unscanned, s
  <2>4. conns'[c] \in Entries
    BY <1>1, <1>15 DEF Table, TablesOK
  <2>5. Disciplined /\ r.sdlg # None => r.choose /\ ~r.sel.silent
    BY <1>15, <2>1, <2>3
  <2>6. Local(r, cl, conns'[c], b)
    BY <1>2, <1>15, <2>1, <2>2, <2>3, <2>4, <2>5, ChooseLocal DEF SameRest
  <2>7. r.perr = None
    BY <1>15, <2>2 DEF SameRest
  <2> QED BY <1>0, <1>1, <1>3, <1>5, <1>6, <1>15, <2>1, <2>3, <2>6, <2>7, CallbackKeeps DEF c, s, b, cl
<1>16. CASE /\ s.open /\ work.cb.cb = "ChooseIap" /\ s.sel = None /\ UNCHANGED tableVars
            /\ sess' = [sess EXCEPT ![c] = ChooseIapComplete(s, "error")]
  <2> DEFINE r == ChooseIapComplete(s, "error")
  <2>1. ~s.choose
    BY <1>2, <1>16 DEF Choosing
  <2>2. /\ r \in Session /\ SameRest(s, r) /\ ~r.choose /\ ~r.scanning /\ r.sdlg = s.sdlg
        /\ r.sel = s.sel /\ r.reply = s.reply
    BY <1>2, <2>1, CompleteFields
  <2>3. sess' = [sess EXCEPT ![c] = r]
    BY <1>16
  <2>4. ~s.scanning => r = s
    BY <1>2, <2>1 DEF Session, ChooseIapComplete
  <2>5. CASE ~s.scanning
    <3> HIDE DEF r
    <3> QED BY <1>2, <1>9, <1>16, <2>1, <2>3, <2>4, <2>5
  <2>6. CASE s.scanning
    <3>1. s.reply = "none"
      BY <1>2, <2>6 DEF Choosing
    <3> HIDE DEF r
    <3> QED BY <1>7, <1>15, <1>16, <2>2, <2>3, <2>6, <3>1
  <2> QED BY <2>5, <2>6
<1>17. CASE /\ s.open /\ work.cb.cb = "ChooseIap" /\ s.sel # None /\ s.scanning
            /\ CompleteExplicitSnapConnection(c, s)
  <2>1. PICK r \in Session : sess' = [sess EXCEPT ![c] = r] /\ Decided(c, s, r)
    BY <1>1, <1>2, <1>17, ExplicitResult
  <2>2. s.reply = "none" /\ (Disciplined => s.choose)
    BY <1>2, <1>17 DEF Choosing
  <2> QED BY <1>15, <1>17, <2>1, <2>2 DEF Decided
<1>18. CASE s.open /\ work.cb.cb = "ChooseIap" /\ ChooseIapScanCompleted(c)
  <2>1. \/ /\ s.sel = None /\ sess' = [sess EXCEPT ![c] = ChooseIapComplete(s, "error")]
           /\ UNCHANGED tableVars
        \/ ~s.scanning /\ UNCHANGED <<sess, tableVars>>
        \/ s.sel # None /\ s.scanning /\ CompleteExplicitSnapConnection(c, s)
    BY <1>18 DEF ChooseIapScanCompleted, s
  <2> QED BY <1>14, <1>16, <1>17, <1>18, <2>1
<1> QED BY <1>4, <1>10, <1>11, <1>12, <1>13, <1>18

------------------------------------------------------------------------------
LEMMA InitHolds == ASSUME Init PROVE MPMInv
<1>1. TypeOK
  <2>1. NoSession \in Session /\ NoClient \in Client
    BY NoSessionType
  <2>2. sess \in [Sessions -> Session] /\ cli \in [Sessions -> Client]
    BY <2>1, Zenon DEF Init
  <2>3. /\ conns \in [Sessions -> {None} \cup Conn] /\ connOrder \in Seq(Sessions)
        /\ black \in [Sessions -> SUBSET (Iaps \X Categories)] /\ blackOrder \in Seq(Sessions)
        /\ scans \in Seq(Scan) /\ obsolete \in Nat /\ startQ \in Seq(Sessions) /\ roamQ \in Seq(Sessions)
    BY DEF Init
  <2>4. /\ work \in [unblack: Nat, pref: SUBSET Sessions, cb: {None} \cup Scan]
        /\ carry \in [start: {None} \cup Answer, roam: {None} \cup Answer]
    BY DEF Init, NoWork, NoCarry
  <2>5. /\ avail \in SUBSET Iaps /\ discard \in BOOLEAN /\ discarded \in BOOLEAN /\ timer \in BOOLEAN
        /\ usage \in Usages \cup {"Automatic"} /\ usageSeen \in Usages \cup {"Automatic"}
        /\ fatal \in {"none", "null message", "freed session"}
    BY DEF Init
  <2> QED BY <2>2, <2>3, <2>4, <2>5 DEF TypeOK
<1>2. \A c \in Sessions : sess[c] = NoSession /\ cli[c] = NoClient /\ conns[c] = None /\ black[c] = {}
  BY DEF Init
<1>3. AllLocal
  BY <1>2, NewLocal DEF AllLocal
<1>4. QueuesMatch
  BY <1>2 DEF Init, QueuesMatch, Distinct, NoSession, NoCarry, ToSet
<1>5. TableListed /\ LoopInRange
  BY DEF Init, TableListed, LoopInRange, Distinct, NoWork
<1>6. RequestsProgress /\ ChoiceScans
  <2>1. RequestsProgress
    BY <1>2 DEF RequestsProgress, NoSession
  <2>2. \A x : x # None => Unscanned(x)
    BY DEF Init, Unscanned, NoWork
  <2>3. \A c \in Sessions : Choice(c) # None
    BY ConstantsAssumption DEF Choice, Scan, Callbacks
  <2>4. \A x : Unscanned(x) => Once(x)
    BY DEF Unscanned, Once
  <2> QED BY <2>1, <2>2, <2>3, <2>4 DEF ChoiceScans, ChoiceScanned
<1> QED BY <1>1, <1>3, <1>4, <1>5, <1>6 DEF MPMInv

LEMMA NextKeeps == ASSUME MPMInv, [Next]_vars PROVE MPMInv'
<1>1. ASSUME Internal PROVE MPMInv'
  BY <1>1, DialogsAnsweredKeeps, UnblackTemporaryKeeps, SendPrefIAPNotificationKeeps, ScanCallbackKeeps
     DEF Internal
<1>2. ASSUME UserAnswers PROVE MPMInv'
  BY <1>2, DialogsAnsweredKeeps DEF UserAnswers
<1>3. ASSUME NEW c \in Sessions, Request(c) PROVE MPMInv'
  <2>1. CASE \/ Open(c) \/ (\E p \in Prefs : ChooseIap(c, p)) \/ ReselectIap(c) \/ CancelChoose(c)
             \/ IapConnectionStarted(c) \/ ChooseWhileHeld(c) \/ ReselectWhileHeld(c)
    BY <2>1, OpenKeeps, ChooseIapKeeps, CancelChooseKeeps, IapConnectionStartedKeeps, ChooseWhileHeldKeeps
  <2>2. CASE (\E e \in Errors : ProcessError(c, e)) \/ CancelProcessError(c)
    BY <2>2, ProcessErrorKeeps, CancelProcessErrorKeeps
  <2>3. CASE \/ RegisterPrefIAPNotif(c) \/ UnregisterPrefIAPNotif(c)
             \/ ApplicationMigratesToCarrier(c) \/ ApplicationAcceptedTheCarrier(c)
             \/ ApplicationRejectedTheCarrier(c) \/ MigrationCompleted(c)
             \/ (\E cancel \in BOOLEAN : ApplicationIgnoredTheCarrier(c, cancel))
    BY <2>3, RegisterPrefIAPNotifKeeps, UnregisterPrefIAPNotifKeeps, ApplicationMigratesToCarrierKeeps,
       ApplicationAcceptedTheCarrierKeeps, ApplicationRejectedTheCarrierKeeps, MigrationCompletedKeeps,
       ApplicationIgnoredTheCarrierKeeps
  <2>4. CASE ApplicationLeavesConnection(c) \/ ApplicationConnectionEnds(c) \/ Close(c)
    BY <2>4, ApplicationLeavesConnectionKeeps, ApplicationConnectionEndsKeeps, CloseKeeps
  <2> QED BY <1>3, <2>1, <2>2, <2>3, <2>4 DEF Request
<1>4. ASSUME Environment PROVE MPMInv'
  BY <1>4, AvailabilityEventKeeps, ObsoleteScanDoneKeeps, UserSetsUsageKeeps DEF Environment
<1>5. ASSUME UNCHANGED vars PROVE MPMInv'
  <2>1. UsageOK
    BY TypeSplit DEF MPMInv
  <2>2. UsageOK' /\ UNCHANGED <<sess, cli, tableVars, blackVars, monVars, startQ, roamQ, carry, work, fatal>>
    BY <1>5, <2>1 DEF vars, UsageOK, usageVars, dialogVars
  <2> QED BY <2>2, SettingsKeep
<1> QED BY <1>1, <1>2, <1>3, <1>4, <1>5, PermQueryTimerExpiresKeeps, DataUsageChangedKeeps, ScanEndsKeeps,
           ReadNotificationKeeps, ReadReplyKeeps DEF Next

\* What the server's state has to be like whenever a step begins: the invariant that
\* the theorems below follow from.
THEOREM Invariant == Spec => []MPMInv
<1>1. Init => MPMInv
  BY InitHolds
<1>2. MPMInv /\ [Next]_vars => MPMInv'
  BY NextKeeps
<1> QED BY <1>1, <1>2, PTL DEF Spec

------------------------------------------------------------------------------
(* What follows from the invariant *)

\* The server's variables have their types: no entry of a black list is for IAP 0, a
\* dialog is about an IAP, and only sessions are in the queues and the lists.
THEOREM TypeOKHolds == Spec => []TypeOK
<1>1. MPMInv => TypeOK
  BY DEF MPMInv
<1> QED BY <1>1, Invariant, PTL

\* Nobody waits for nothing: a request the server holds has a scan or a dialog that
\* answers it, and a held connection something that releases it, with any number of
\* clients, IAPs and scans, whether or not clients are disciplined.
THEOREM WaitersAreOwedHolds == Spec => []WaitersAreOwed
<1>1. MPMInv => WaitersAreOwed
  <2> SUFFICES ASSUME MPMInv PROVE WaitersAreOwed
    OBVIOUS
  <2>1. \A c \in Sessions : Owed(sess[c], cli[c])
    BY DEF MPMInv, AllLocal, Local
  <2>2. HoldIsOwed
    BY <2>1 DEF HoldIsOwed, Owed, Active
  <2> QED BY <2>2 DEF MPMInv, WaitersAreOwed
<1> QED BY <1>1, Invariant, PTL

\* A dialog is in its queue, and is about what its answer does.
THEOREM DialogsMatchHolds == ASSUME Disciplined PROVE Spec => []DialogsMatch
<1>1. MPMInv => DialogsMatch
  <2> SUFFICES ASSUME MPMInv PROVE DialogsMatch
    OBVIOUS
  <2>1. \A c \in Sessions : /\ (sess[c].sdlg # None) <=> (c \in ToSet(startQ))
                            /\ (sess[c].rdlg # None) <=> (c \in ToSet(roamQ))
    BY DEF MPMInv, QueuesMatch
  <2>2. ASSUME NEW c \in Sessions
        PROVE  /\ Choosing(sess[c], cli[c]) /\ Asking(sess[c], cli[c], conns[c])
               /\ Entry(sess[c], cli[c], conns[c])
    BY DEF MPMInv, AllLocal, Local
  <2>3. StartingDialogs
    BY <2>1, <2>2 DEF StartingDialogs, Choosing
  <2>4. RoamingDialogs
    <3> SUFFICES ASSUME NEW c \in Sessions, sess[c].rdlg # None, sess[c].reg, sess[c].offers < 2,
                        cli[c].phase = "up"
                 PROVE  /\ sess[c].confirm /\ sess[c].migrateIap = sess[c].rdlg.iap
                        /\ conns[c] # None /\ conns[c].iap = sess[c].rdlg.iap
                        /\ conns[c].state = "Roaming"
      BY <2>1 DEF RoamingDialogs
    <3> QED BY <2>2 DEF Asking, Entry, Uncrossed, Active
  <2> QED BY <2>3, <2>4 DEF DialogsMatch
<1> QED BY <1>1, Invariant, PTL

\* An IAP that the application refused is neither used nor offered again.
THEOREM RefusedStaysRefusedHolds == Spec => []RefusedStaysRefused
<1>1. MPMInv => RefusedStaysRefused
  <2> SUFFICES ASSUME MPMInv, NEW c \in Sessions, cli[c].phase \in {"up", "recovering"},
                      sess[c].offers < 2, NEW i \in cli[c].refused
               PROVE  /\ <<i, "EConnectionLifetime">> \in black[c]
                      /\ sess[c].note # [type |-> "pref", iap |-> i]
                      /\ ~(cli[c].mob = "offered" /\ cli[c].pref = i)
                      /\ GetBMIap(conns[c]) # i
    BY DEF RefusedStaysRefused
  <2>1. /\ Entry(sess[c], cli[c], conns[c]) /\ Offered(sess[c], cli[c], conns[c])
        /\ Refused(sess[c], cli[c], conns[c], black[c])
    BY DEF MPMInv, AllLocal, Local
  <2>2. Uncrossed(sess[c], cli[c]) /\ conns[c] # None
    BY <2>1 DEF Entry, Active, Uncrossed
  <2>3. <<i, "EConnectionLifetime">> \in black[c] /\ GetBMIap(conns[c]) # i
    BY <2>1, <2>2 DEF Refused, GetBMIap
  <2>4. ~(cli[c].mob = "offered" /\ cli[c].pref = i)
    BY <2>1, <2>2 DEF Offered, Fits
  <2>5. sess[c].note # [type |-> "pref", iap |-> i]
    <3>1. ASSUME sess[c].note = [type |-> "pref", iap |-> i] PROVE FALSE
      <4>1. i \in Iaps
        BY DEF MPMInv, TypeOK, Client
      <4>2. sess[c].note \in Note
        BY <3>1, <4>1 DEF Note, IapOrNone
      <4>3. Says(sess[c].note, "pref") /\ sess[c].note.iap = i
        BY <3>1, <4>2, ConstantsAssumption DEF Says
      <4> QED BY <2>1, <2>2, <4>3 DEF Offered, Fits
    <3> QED BY <3>1
  <2> QED BY <2>3, <2>4, <2>5
<1> QED BY <1>1, Invariant, PTL

\* The server's table and the node agree on where a connection is and goes.
THEOREM NodeAndTableAgreeHolds == Spec => []NodeAndTableAgree
<1>1. MPMInv => NodeAndTableAgree
  <2> SUFFICES ASSUME MPMInv PROVE TableMatchesBearer /\ StartIsWanted
    BY DEF NodeAndTableAgree
  <2>1. ASSUME NEW c \in Sessions
        PROVE  /\ Entry(sess[c], cli[c], conns[c]) /\ Bearer(sess[c], cli[c], conns[c])
               /\ Moving(sess[c], cli[c], conns[c])
    BY DEF MPMInv, AllLocal, Local
  <2>2. TableMatchesBearer
    BY <2>1 DEF TableMatchesBearer, Bearer, Entry, Active, GetConnectionState
  <2>3. StartIsWanted
    BY <2>1 DEF StartIsWanted, Moving, Entry, Active, Uncrossed, Says
  <2> QED BY <2>2, <2>3
<1> QED BY <1>1, Invariant, PTL

------------------------------------------------------------------------------
\* The entry of c is granted an IAP the user is to be asked about.
Grants(c) ==
  LET e == conns'[c] IN
  /\ usage = "Confirm" /\ ~IsBackgroundApplication(sess'[c])
  /\ GetBMIap(e) \in Cells \ {MmsIap} /\ GetConnectionState(e) = "Starting"
  /\ e # None /\ e # conns[c]
Consent(c) ==
  LET e == conns'[c] IN
  \/ sess[c].sdlg # None /\ sess[c].sdlg.iap = e.iap
  \/ \E d \in Sessions \ {c} :
       conns[d] # None /\ conns[d].iap = e.iap /\ conns[d].state \in {"Starting", "Started"}

LEMMA StartedElsewhere ==
  ASSUME TablesOK, NEW c \in Sessions, NEW i, CheckIfStarted(i, c)
  PROVE  \E d \in Sessions \ {c} :
           conns[d] # None /\ conns[d].iap = i /\ conns[d].state \in {"Starting", "Started"}
<1> DEFINE others == {k \in DOMAIN connOrder : connOrder[k] # c /\ conns[connOrder[k]].iap = i}
<1>1. \/ \E k \in others : conns[connOrder[k]].state = "Started"
      \/ others # {} /\ conns[connOrder[Max(others)]].state = "Starting"
  BY DEF CheckIfStarted
<1>2. others \in SUBSET (1..Len(connOrder)) /\ Len(connOrder) \in Nat
  BY DEF TablesOK
<1>3. \A k \in others : /\ connOrder[k] \in Sessions \ {c} /\ conns[connOrder[k]] # None
                        /\ conns[connOrder[k]].iap = i
  BY <1>2 DEF TablesOK, TableListed
<1> HIDE DEF others
<1>4. PICK k \in others : conns[connOrder[k]].state \in {"Starting", "Started"}
  BY <1>1, <1>2, MaxIsIn
<1> QED BY <1>3, <1>4

LEMMA DecideConsents ==
  ASSUME MPMInv, NEW c \in Sessions, NEW s \in Session, NEW i, NEW snap, Decide(c, s, i, snap),
         NEW d \in Sessions, Grants(d)
  PROVE  Consent(d)
<1>0. NodesOK /\ TablesOK
  BY Here
<1>1. conns' # conns
  BY DEF Grants
<1>2. /\ ~(i \in Cells /\ IsConfirmFirst(i, c, s)) /\ AppendBMConnection(c, snap, i, "Starting")
      /\ sess' = [sess EXCEPT ![c] = ChooseIapComplete(s, "ok")]
  BY <1>1 DEF Decide, tableVars
<1>3. d = c /\ conns'[c].iap = i
  BY <1>0, <1>2 DEF Grants, AppendBMConnection, TablesOK
<1>4. IsBackgroundApplication(sess'[c]) = IsBackgroundApplication(s)
  <2>1. sess'[c] = ChooseIapComplete(s, "ok")
    BY <1>0, <1>2 DEF NodesOK
  <2>2. sess'[c].sel = s.sel
    BY <2>1, CompleteFields
  <2> QED BY <2>2 DEF IsBackgroundApplication
<1>5. CheckIfStarted(i, c)
  BY <1>2, <1>3, <1>4 DEF Grants, GetBMIap, IsConfirmFirst
<1> QED BY <1>0, <1>3, <1>5, StartedElsewhere DEF Consent

LEMMA ExplicitConsents ==
  ASSUME MPMInv, NEW c \in Sessions, NEW s \in Session, s.sel # None,
         CompleteExplicitSnapConnection(c, s), NEW d \in Sessions, Grants(d)
  PROVE  Consent(d)
<1>1. conns' # conns
  BY DEF Grants
<1>2. \E q \in Session : \E i : Decide(c, q, i, TRUE)
  BY <1>1, ExplicitSelected DEF tableVars
<1> QED BY <1>2, DecideConsents

LEMMA ChooseConsents ==
  ASSUME MPMInv, NEW c \in Sessions, NEW s \in Session, NEW pref \in Pref, ChooseIapL(c, s, pref),
         NEW d \in Sessions, Grants(d)
  PROVE  Consent(d)
<1>1. conns' # conns
  BY DEF Grants
<1> DEFINE p == Preference(conns[c], pref)
           chosen == [s EXCEPT !.sel = p]
<1>2. p \in Pref /\ p # None
  BY Here, PreferenceTyped
<1>3. \/ \E i, snap : Decide(c, chosen, i, snap)
      \/ CompleteExplicitSnapConnection(c, chosen)
  BY <1>1 DEF ChooseIapL, tableVars, Preference
<1> HIDE DEF p
<1>4. chosen \in Session /\ chosen.sel # None
  BY <1>2 DEF Session
<1> HIDE DEF chosen
<1> QED BY <1>3, <1>4, DecideConsents, ExplicitConsents

\* A choice is made for a session and a preference.
LEMMA ChoiceTyped ==
  ASSUME MPMInv, NEW c \in Sessions, \/ \E p \in Prefs : ChooseIap(c, p)
                                     \/ ReselectIap(c) \/ ReselectWhileHeld(c)
  PROVE  \E s \in Session, pref \in Pref : ChooseIapL(c, s, pref)
<1>0. /\ sess[c] \in Session /\ Choosing(sess[c], cli[c])
  BY Here DEF Local
<1>1. ASSUME NEW pref \in Prefs, ChooseIap(c, pref)
      PROVE  \E s \in Session, q \in Pref : ChooseIapL(c, s, q)
  <2> DEFINE s == [sess[c] EXCEPT !.choose = TRUE]
  <2>1. s \in Session /\ pref \in Pref
    BY <1>0, ConstantsAssumption DEF Session
  <2>2. ChooseIapL(c, s, pref)
    BY <1>1 DEF ChooseIap
  <2> HIDE DEF s
  <2> QED BY <2>1, <2>2
<1>2. ASSUME ReselectIap(c)
      PROVE  \E s \in Session, q \in Pref : ChooseIapL(c, s, q)
  <2> DEFINE s == [sess[c] EXCEPT !.choose = TRUE, !.reply = "none"]
  <2>1. s \in Session /\ sess[c].sel \in Pref
    BY <1>0, <1>2 DEF Session, Choosing, ReselectIap
  <2>2. ChooseIapL(c, s, sess[c].sel)
    BY <1>2 DEF ReselectIap
  <2> HIDE DEF s
  <2> QED BY <2>1, <2>2
<1>3. ASSUME ReselectWhileHeld(c)
      PROVE  \E s \in Session, q \in Pref : ChooseIapL(c, s, q)
  <2> DEFINE s == [sess[c] EXCEPT !.choose = FALSE]
  <2>1. s \in Session /\ sess[c].sel \in Pref
    BY ZenonT(40), <1>0, <1>3 DEF Session, Choosing, ReselectWhileHeld
  <2>2. ChooseIapL(c, s, sess[c].sel)
    BY <1>3 DEF ReselectWhileHeld
  <2> HIDE DEF s
  <2> QED BY <2>1, <2>2
<1> QED BY <1>1, <1>2, <1>3

\* An entry that changes otherwise than by a grant is not starting.
Ungranted(c) ==
  /\ \A d \in Sessions \ {c} : conns'[d] = conns[d]
  /\ conns'[c] = None \/ conns'[c].state # "Starting"

LEMMA NotGranted ==
  ASSUME NEW c \in Sessions, Ungranted(c), NEW d \in Sessions PROVE ~Grants(d)
  BY DEF Ungranted, Grants, GetConnectionState

LEMMA Unchanging ==
  ASSUME TablesOK, NEW c \in Sessions
  PROVE  /\ \A snap \in BOOLEAN, i \in IapOrNone, state \in {"Started", "Roaming"} :
              AppendBMConnection(c, snap, i, state) => Ungranted(c)
         /\ ResetBMConnection(c) => Ungranted(c)
         /\ RemoveBMConnection(c) => Ungranted(c)
<1>1. ASSUME NEW snap \in BOOLEAN, NEW i \in IapOrNone, NEW state \in {"Started", "Roaming"},
             AppendBMConnection(c, snap, i, state)
      PROVE  Ungranted(c)
  <2>1. state \in States
    BY DEF States
  <2> QED BY <1>1, <2>1, AppendKeeps DEF Ungranted
<1>2. ResetBMConnection(c) => Ungranted(c)
  BY ResetKeeps DEF Ungranted
<1>3. RemoveBMConnection(c) => Ungranted(c)
  BY RemoveKeeps DEF Ungranted
<1> QED BY <1>1, <1>2, <1>3

LEMMA AnswerConsents ==
  ASSUME TablesOK, NEW c \in Sessions, sess[c].sdlg # None, NEW ans, StartingResponse(c, ans),
         NEW d \in Sessions, Grants(d)
  PROVE  Consent(d)
<1>1. conns' # conns
  BY DEF Grants
<1>2. AppendBMConnection(c, sess[c].sdlg.snap, sess[c].sdlg.iap, "Starting")
  BY <1>1 DEF StartingResponse, tableVars
<1>3. d = c /\ conns'[c].iap = sess[c].sdlg.iap
  BY <1>2 DEF Grants, AppendBMConnection, TablesOK
<1> QED BY <1>3 DEF Consent

LEMMA ErrorUngranted ==
  ASSUME TablesOK, NEW c \in Sessions, NEW error, HandleProcessError(c, error)
  PROVE  UNCHANGED conns \/ Ungranted(c)
<1>1. ASSUME NEW s, ErrorWhileStarting(c, s) PROVE UNCHANGED conns
  BY <1>1 DEF ErrorWhileStarting, tableVars
<1>2. ASSUME NEW s, ErrorWhileStarted(c, s) PROVE UNCHANGED conns
  BY <1>2 DEF ErrorWhileStarted, tableVars
<1>3. ASSUME NEW s, ErrorWhileRoaming(c, s) PROVE Ungranted(c)
  BY <1>3, Unchanging DEF ErrorWhileRoaming
<1> QED BY <1>1, <1>2, <1>3 DEF HandleProcessError, tableVars

LEMMA NextConsents ==
  ASSUME MPMInv, Next, NEW d \in Sessions, Grants(d) PROVE Consent(d)
<1>0. TablesOK /\ NodesOK /\ conns' # conns
  BY TypeSplit DEF MPMInv, Grants
<1>1. ASSUME NEW ans, AnswerStarting(ans) PROVE Consent(d)
  BY <1>0, <1>1, HeadDialogs, AnswerConsents DEF AnswerStarting
<1>2. ASSUME PropagateStarting PROVE Consent(d)
  <2>1. /\ StartingResponse(Head(startQ), carry.start.ans) /\ Head(startQ) \in Sessions
        /\ sess[Head(startQ)].sdlg # None
    BY <1>0, <1>2, HeadDialogs DEF PropagateStarting, tableVars
  <2> QED BY <1>0, <2>1, AnswerConsents
<1>3. ASSUME ScanCallback PROVE Consent(d)
  <2>1. work.cb.c \in Sessions
    BY <1>3 DEF ScanCallback, MPMInv, TypeOK, Scan
  <2>2. \E s \in Session : s.sel # None /\ CompleteExplicitSnapConnection(work.cb.c, s)
    BY <1>0, <1>3, <2>1 DEF ScanCallback, ChooseIapScanCompleted, tableVars, NodesOK
  <2> QED BY <2>1, <2>2, ExplicitConsents
<1>4. ASSUME NEW c \in Sessions, \/ \E p \in Prefs : ChooseIap(c, p)
                                \/ ReselectIap(c) \/ ReselectWhileHeld(c)
      PROVE  Consent(d)
  BY <1>4, ChoiceTyped, ChooseConsents
<1>5. ASSUME NEW c \in Sessions, Ungranted(c) PROVE Consent(d)
  BY <1>5, NotGranted
<1>6. ASSUME NEW c \in Sessions, NEW e, ProcessError(c, e) PROVE Consent(d)
  BY <1>0, <1>5, <1>6, ErrorUngranted DEF ProcessError
<1>7. ASSUME NEW c \in Sessions, ApplicationMigratesToCarrier(c) \/ ApplicationAcceptedTheCarrier(c)
      PROVE  Consent(d)
  <2>1. cli[c].pref \in IapOrNone
    BY <1>0 DEF NodesOK, Client
  <2>2. \/ AppendBMConnection(c, FALSE, cli[c].pref, "Roaming")
        \/ AppendBMConnection(c, FALSE, cli[c].pref, "Started")
    BY <1>7 DEF ApplicationMigratesToCarrier, MigratesToCarrier, ApplicationAcceptedTheCarrier
  <2> QED BY <1>0, <1>5, <2>1, <2>2, Unchanging
<1>8. ASSUME NEW c \in Sessions, \/ ApplicationRejectedTheCarrier(c) \/ ApplicationLeavesConnection(c)
                                \/ ApplicationConnectionEnds(c) \/ Close(c)
      PROVE  Consent(d)
  <2>1. ResetBMConnection(c) \/ RemoveBMConnection(c)
    BY <1>8 DEF ApplicationRejectedTheCarrier, ApplicationLeavesConnection, ApplicationConnectionEnds,
                Close
  <2> QED BY <1>0, <1>5, <2>1, Unchanging
<1>9. ASSUME NEW c \in Sessions, IapConnectionStarted(c) PROVE Consent(d)
  <2>1. conns'[d] = conns[d] \/ conns'[d].state = "Started"
    BY <1>9, StartedTogether
  <2> QED BY <2>1 DEF Grants, GetConnectionState
<1>10. ASSUME NEW c \in Sessions, Request(c) PROVE Consent(d)
  <2>1. CASE \/ Open(c) \/ CancelChoose(c) \/ CancelProcessError(c) \/ RegisterPrefIAPNotif(c)
             \/ UnregisterPrefIAPNotif(c) \/ MigrationCompleted(c)
             \/ (\E cancel \in BOOLEAN : ApplicationIgnoredTheCarrier(c, cancel))
             \/ ChooseWhileHeld(c)
    BY <1>0, <2>1 DEF Open, CancelChoose, CancelProcessError, RegisterPrefIAPNotif, tableVars,
       UnregisterPrefIAPNotif, MigrationCompleted, ApplicationIgnoredTheCarrier, ChooseWhileHeld
  <2> QED BY <1>4, <1>6, <1>7, <1>8, <1>9, <1>10, <2>1 DEF Request
<1>11. CASE \/ UnblackTemporary \/ (\E c \in Sessions : SendPrefIAPNotification(c)) \/ PropagateRoaming
            \/ (\E ans \in Answers : AnswerRoaming(ans)) \/ PermQueryTimerExpires \/ DataUsageChanged
  BY <1>0, <1>11 DEF UnblackTemporary, SendPrefIAPNotification, PropagateRoaming, AnswerRoaming,
     PermQueryTimerExpires, DataUsageChanged, tableVars
<1>12. CASE \/ Environment
            \/ \E c \in Sessions : ScanEnds(c) \/ ReadNotification(c) \/ ReadReply(c)
  BY <1>0, <1>12 DEF Environment, AvailabilityEvent, ObsoleteScanDone, UserSetsUsage, ScanEnds,
     ScanFails, ScanDone, ReadNotification, ReadReply, tableVars
<1> QED BY <1>1, <1>2, <1>3, <1>10, <1>11, <1>12 DEF Next, Internal, UserAnswers

\* A cellular IAP is granted only with the user's consent or where it is in use,
\* but for the background applications and the IAP of the MMS, which the code
\* never asks about.
THEOREM CellularNeedsConsentHolds == Spec => CellularNeedsConsent
<1> DEFINE A == \A c \in Sessions :
                  LET e == conns'[c] IN
                  /\ usage = "Confirm" /\ ~IsBackgroundApplication(sess'[c])
                  /\ GetBMIap(e) \in Cells \ {MmsIap} /\ GetConnectionState(e) = "Starting"
                  /\ e # None /\ e # conns[c]
                  => \/ sess[c].sdlg # None /\ sess[c].sdlg.iap = e.iap
                     \/ \E d \in Sessions \ {c} :
                          conns[d] # None /\ conns[d].iap = e.iap /\ conns[d].state \in {"Starting", "Started"}
<1>1. MPMInv /\ [Next]_vars => [A]_vars
  BY NextConsents DEF Grants, Consent
<1>2. Spec => [][A]_vars
  BY <1>1, Invariant, PTL DEF Spec
<1> QED BY <1>2 DEF CellularNeedsConsent

------------------------------------------------------------------------------
(* Errors that are ignored *)

\* The reply to d has just become that the error is ignored.
Newly(d) == sess[d].reply # "Ignore" /\ sess'[d].reply = "Ignore"
Minds(c, r) == sess' = [sess EXCEPT ![c] = r] /\ (r.reply = sess[c].reply \/ r.reply # "Ignore")

LEMMA NotNewly ==
  ASSUME NodesOK, NEW c \in Sessions, NEW r, Minds(c, r), NEW d \in Sessions PROVE ~Newly(d)
  BY DEF NodesOK, Minds, Newly

LEMMA StoppedNotNewly ==
  ASSUME NodesOK, NEW c \in Sessions, NEW r, NEW S, NEW d \in Sessions,
         \/ sess' = Stopped(S)
         \/ sess' = [Stopped(S) EXCEPT ![c] = r] /\ (r.reply = sess[c].reply \/ r.reply # "Ignore")
  PROVE  ~Newly(d)
<1>1. \A x \in Sessions : sess[x] \in Session /\ StopIAPNotification(sess[x]).reply = sess[x].reply
  BY StopFields DEF NodesOK
<1> QED BY <1>1, StoppedType DEF Newly

\* What a handler does to a session keeps the reply and the error it holds.
Alike(s, r) == r \in Session /\ r.reply = s.reply /\ r.perr = s.perr /\ r.open = s.open
Turns(c) == \E r : sess' = [sess EXCEPT ![c] = r] /\ Alike(sess[c], r)

LEMMA HandlersAlike ==
  ASSUME NEW s \in Session
  PROVE  /\ Alike(s, MigrateDone(s)) /\ Alike(s, AnswerOffer(s))
         /\ Alike(s, ResetStoredIapInfo(s)) /\ Alike(s, ErrorNotification(s))
         /\ \A i \in IapOrNone : Alike(s, StartIAPNotification(s, i))
         /\ Alike(s, [s EXCEPT !.rdlg = None])
         /\ \A i \in IapOrNone : Alike(s, [s EXCEPT !.migrateIap = i, !.rdlg = None])
         /\ Alike(s, [s EXCEPT !.confirm = TRUE])
<1>1. Alike(s, MigrateDone(s)) /\ Alike(s, ResetStoredIapInfo(s))
  <2>1. NoIap \in IapOrNone
    BY DEF IapOrNone
  <2>2. Alike(s, MigrateDone(s))
    BY ZenonT(40), <2>1 DEF Session, Alike, MigrateDone
  <2>3. Alike(s, ResetStoredIapInfo(s))
    BY ZenonT(40) DEF Session, Alike, ResetStoredIapInfo
  <2> QED BY <2>2, <2>3
<1>2. Alike(s, AnswerOffer(s))
  <2> DEFINE o == IF s.offers = 1 THEN 0 ELSE s.offers
  <2>1. o \in 0..2
    BY DEF Session
  <2>2. AnswerOffer(s) = [s EXCEPT !.offers = o]
    BY DEF AnswerOffer
  <2> HIDE DEF o
  <2> QED BY <2>1, <2>2 DEF Session, Alike
<1>3. \A x \in Session, t \in {"start", "error"}, i \in IapOrNone : Alike(x, Notify(x, t, i))
  <2> SUFFICES ASSUME NEW x \in Session, NEW t \in {"start", "error"}, NEW i \in IapOrNone
               PROVE  Alike(x, Notify(x, t, i))
    BY SMTT(60)
  <2>1. Notify(x, t, i) \in Session
    BY NotifyType
  <2>2. LET r == Notify(x, t, i) IN r.reply = x.reply /\ r.perr = x.perr /\ r.open = x.open
    BY DEF Notify, Session
  <2> QED BY <2>1, <2>2 DEF Alike
<1>4. Alike(s, ErrorNotification(s))
  BY <1>3 DEF ErrorNotification, IapOrNone
<1>5. ASSUME NEW i \in IapOrNone PROVE Alike(s, StartIAPNotification(s, i))
  <2>1. Alike(s, [s EXCEPT !.hold = TRUE])
    BY DEF Session, Alike
  <2> QED BY <1>3, <2>1 DEF StartIAPNotification, Alike
<1>6. /\ Alike(s, [s EXCEPT !.rdlg = None]) /\ Alike(s, [s EXCEPT !.confirm = TRUE])
      /\ \A i \in IapOrNone : Alike(s, [s EXCEPT !.migrateIap = i, !.rdlg = None])
  BY ZenonT(40) DEF Session, Alike
<1> QED BY <1>1, <1>2, <1>4, <1>5, <1>6

LEMMA OffersAlike ==
  ASSUME NEW s \in Session, avail \in SUBSET Iaps, NEW e, NEW b
  PROVE  /\ Alike(s, OfferNext(s, e, b))
         /\ \A info \in SUBSET Iaps : /\ Alike(s, PrefOrError(s, e, b, info))
                                      /\ \A caller : Alike(s, PrefIAPNotification(s, e, b, info, caller))
<1>1. \A info \in SUBSET Iaps : \A r : Reached(s, r, e, b, info) => Alike(s, r)
  BY ReachedType DEF Alike
<1> QED BY <1>1, PrefResult, PrefOrErrorResult, OfferNextResult

\* What an ignored error leaves the session with: an offer or an error is under way.
LEMMA IgnoredIsOffered ==
  ASSUME NEW s \in Session, NEW cl \in Client, NEW e \in Entries, NEW b \in Blacks, Local(s, cl, e, b),
         Uncrossed(s, cl), e # None, e.state \in {"Started", "Roaming"}, ~WlanManual,
         NEW q \in Session, q.wait = s.wait, q.reg = s.reg, q.lastNotified = s.lastNotified, q.note = s.note,
         NEW f, GetBMSnap(f), GetBMIap(f) \in {e.iap, NoIap}, NEW d \in Blacks, b \subseteq d,
         NEW info \in SUBSET Iaps, e.iap \notin info, ~PrefNotFound(q, f, d, info, "EBearerMan")
  PROVE  PrefOrError(q, f, d, info).note # None \/ cl.stored # None \/ cl.mob = "offered"
<1> DEFINE usable == AvailableUnblacklistedIaps(info, d)
           best == ChooseBestIAP(usable)
           r == PrefIAPNotification(q, f, d, info, "EBearerMan")
<1>1. PrefOrError(q, f, d, info) = r
  BY DEF PrefOrError
<1>2. Asked(s, cl) /\ Refused(s, cl, e, b) /\ s.reg /\ s.open
  BY DEF Local, Asked, Uncrossed, Active
<1>3. CASE ~q.wait
  <2>1. r = q
    BY <1>3 DEF PrefIAPNotification, NotRequested
  <2> QED BY <1>1, <1>2, <1>3, <2>1 DEF Asked
<1>4. CASE q.wait
  <2>1. ~NotRequested(q) /\ ~HeldBack(q, f, "EBearerMan")
    BY <1>2, <1>4 DEF NotRequested, HeldBack
  <2>2. q.sel # None /\ usable # {}
    BY <2>1 DEF PrefNotFound
  <2>3. /\ usable \in SUBSET info /\ \A i \in usable, x \in d : x[1] # i
    BY DEF AvailableUnblacklistedIaps
  <2>4. best \in usable /\ best # NoIap
    <3> HIDE DEF usable
    <3> QED BY <2>2, <2>3, BestIsIn
  <2>5. r = IF CheckNotifNeed(q, f, best) THEN Offer(q, best) ELSE q
    BY <2>1, <2>2, <2>4 DEF PrefIAPNotification
  <2> HIDE DEF usable, best, r
  <2>6. CASE CheckNotifNeed(q, f, best)
    <3>1. best \in Iaps
      BY <2>3, <2>4
    <3>2. Offer(q, best).note = [type |-> "pref", iap |-> best]
      BY <1>4 DEF Offer, OfferBesides, Notify, Session
    <3>3. [type |-> "pref", iap |-> best] \in Note
      BY <3>1 DEF Note, IapOrNone
    <3> QED BY <1>1, <2>5, <2>6, <3>2, <3>3, ConstantsAssumption
  <2>7. CASE ~CheckNotifNeed(q, f, best)
    <3>1. best # e.iap
      BY <2>3, <2>4
    <3>2. best = s.lastNotified
      BY <2>4, <2>7, <3>1 DEF CheckNotifNeed
    <3>3. <<best, "EConnectionLifetime">> \notin b
      BY <2>3, <2>4
    <3>4. Says(s.note, "pref") \/ cl.stored # None \/ cl.mob = "offered"
      BY <1>2, <2>4, <3>1, <3>2, <3>3 DEF Refused
    <3> QED BY <1>1, <2>5, <2>7, <3>4 DEF Says
  <2> QED BY <2>6, <2>7
<1> QED BY <1>3, <1>4

Compensated(c) == sess'[c].note # None \/ cli[c].stored # None \/ cli[c].mob = "offered"

LEMMA CompletedIsOffered ==
  ASSUME MPMInv, NEW c \in Sessions, sess[c].reg, sess[c].offers < 2, Active(cli[c]), ~WlanManual,
         conns[c] # None, conns[c].state \in {"Started", "Roaming"},
         NEW q \in Session, q.wait = sess[c].wait, q.reg = sess[c].reg,
         q.lastNotified = sess[c].lastNotified, q.note = sess[c].note,
         NEW f, GetBMSnap(f), GetBMIap(f) \in {conns[c].iap, NoIap},
         NEW d \in Blacks, black[c] \subseteq d,
         sess' = [sess EXCEPT ![c] = IgnoreOrPropagate(q, f, d, avail \ {GetBMIap(conns[c])})],
         sess'[c].reply = "Ignore"
  PROVE  Compensated(c)
<1> DEFINE info == avail \ {GetBMIap(conns[c])}
           p == PrefOrError(q, f, d, info)
           a == IF PrefNotFound(q, f, d, info, "EBearerMan") THEN "Propagate" ELSE "Ignore"
<1>1. /\ sess[c] \in Session /\ cli[c] \in Client /\ conns[c] \in Entries /\ black[c] \in Blacks
      /\ Local(sess[c], cli[c], conns[c], black[c]) /\ avail \in SUBSET Iaps /\ NodesOK
  BY Here DEF MonOK
<1>2. sess'[c] = [p EXCEPT !.perr = None, !.reply = a]
  BY <1>1 DEF NodesOK, IgnoreOrPropagate, ProcessErrorComplete
<1>3. info \in SUBSET Iaps /\ conns[c].iap \notin info
  BY <1>1 DEF GetBMIap
<1> HIDE DEF info
<1>4. p \in Session
  BY <1>1, <1>3, OffersAlike DEF Alike
<1>5. sess'[c].note = p.note /\ a = "Ignore"
  <2> HIDE DEF p, a
  <2>1. [p EXCEPT !.perr = None, !.reply = a].note = p.note
    BY <1>4 DEF Session
  <2>2. [p EXCEPT !.perr = None, !.reply = a].reply = a
    BY <1>4 DEF Session
  <2> QED BY <1>2, <2>1, <2>2
<1>6. ~PrefNotFound(q, f, d, info, "EBearerMan")
  BY <1>5
<1>7. Uncrossed(sess[c], cli[c])
  BY DEF Uncrossed
<1>8. p.note # None \/ cli[c].stored # None \/ cli[c].mob = "offered"
  BY <1>1, <1>3, <1>6, <1>7, IgnoredIsOffered
<1> QED BY <1>5, <1>8 DEF Compensated

\* A reported error that is ignored.
LEMMA ErrorIsOffered ==
  ASSUME MPMInv, NEW c \in Sessions, NEW error \in Errors, ProcessError(c, error),
         sess[c].reg, sess[c].offers < 2, ~WlanManual, cli'[c].phase = "recovering",
         sess[c].reply # "Ignore", sess'[c].reply = "Ignore"
  PROVE  Compensated(c)
<1> DEFINE s == sess[c]
           e == conns[c]
           i == GetBMIap(e)
           q == [s EXCEPT !.perr = error]
           h == ResetStoredIapInfo(q)
<1>0. /\ s \in Session /\ cli[c] \in Client /\ e \in Entries /\ black[c] \in Blacks /\ NodesOK /\ TablesOK
      /\ BlacksOK /\ Local(s, cli[c], e, black[c])
  BY Here
<1>1. cli[c].phase = "up" /\ Active(cli[c]) /\ s.sdlg = None
  <2>1. cli[c].phase = "up"
    BY <1>0 DEF ProcessError, Client, NodesOK
  <2> QED BY <1>0, <2>1 DEF Local, Choosing, Active
<1>2. /\ e # None /\ i = e.iap /\ GetConnectionState(e) = e.state /\ i \in IapOrNone
      /\ e.state = "Roaming" => e.snap
  BY <1>0, <1>1 DEF Local, Entry, GetBMIap, GetConnectionState, Entries, Conn
<1>3. /\ q \in Session /\ q.wait = s.wait /\ q.reg = s.reg /\ q.lastNotified = s.lastNotified /\ q.note = s.note
      /\ q.reply = s.reply
      /\ h \in Session /\ h.wait = s.wait /\ h.reg = s.reg /\ h.lastNotified = s.lastNotified /\ h.note = s.note
  <2>1. /\ q \in Session /\ q.wait = s.wait /\ q.reg = s.reg /\ q.lastNotified = s.lastNotified
        /\ q.note = s.note /\ q.reply = s.reply
    BY <1>0 DEF Session
  <2> HIDE DEF q
  <2>2. h \in Session /\ h.wait = q.wait /\ h.reg = q.reg /\ h.lastNotified = q.lastNotified /\ h.note = q.note
    BY ZenonT(40), <2>1 DEF Session, ResetStoredIapInfo
  <2> QED BY <2>1, <2>2
<1>4. StopDisplayingStartingDlg(s) = s
  BY <1>1 DEF StopDisplayingStartingDlg
<1>5. \/ /\ e.state = "Roaming" /\ ResetBMConnection(c) /\ BlackListIap(c, i, "ETemporary")
         /\ sess' = [sess EXCEPT ![c] = IgnoreOrPropagate(h, conns'[c], black'[c], avail \ {i})]
      \/ /\ e.state = "Started" /\ GetBMSnap(e) /\ BlackListIap(c, i, "ETemporary")
         /\ sess' = [sess EXCEPT ![c] = IgnoreOrPropagate(q, e, black'[c], avail \ {i})]
      \/ sess' = [sess EXCEPT ![c] = q]
      \/ \E p, a : /\ a \in {"Propagate", "Reselect", "error"} /\ p \in Session
                   /\ sess' = [sess EXCEPT ![c] = ProcessErrorComplete(p, a)]
  <2>1. HandleProcessError(c, error)
    BY DEF ProcessError
  <2>2. \/ /\ sess' = [sess EXCEPT ![c] = ProcessErrorComplete(q, "Propagate")]
        \/ ErrorWhileStarting(c, q)
        \/ e.state = "Roaming" /\ ErrorWhileRoaming(c, q)
        \/ e.state = "Started" /\ ErrorWhileStarted(c, q)
        \/ sess' = [sess EXCEPT ![c] = ProcessErrorComplete(q, "error")]
    BY <1>2, <1>4, <2>1 DEF HandleProcessError
  <2> HIDE DEF q, h, i
  <2>3. ASSUME ErrorWhileStarting(c, q)
        PROVE  \E a : /\ a \in {"Propagate", "Reselect", "error"}
                      /\ sess' = [sess EXCEPT ![c] = ProcessErrorComplete(q, a)]
    BY <2>3 DEF ErrorWhileStarting
  <2>4. ASSUME ErrorWhileRoaming(c, q)
        PROVE  /\ ResetBMConnection(c) /\ BlackListIap(c, i, "ETemporary")
               /\ sess' = [sess EXCEPT ![c] = IgnoreOrPropagate(h, conns'[c], black'[c], avail \ {i})]
    BY <2>4 DEF ErrorWhileRoaming, i, h
  <2>5. ASSUME ErrorWhileStarted(c, q)
        PROVE  \/ /\ GetBMSnap(e) /\ BlackListIap(c, i, "ETemporary")
                  /\ sess' = [sess EXCEPT ![c] = IgnoreOrPropagate(q, e, black'[c], avail \ {i})]
               \/ sess' = [sess EXCEPT ![c] = q]
               \/ \E p \in {q, ErrorNotification(q)} :
                    sess' = [sess EXCEPT ![c] = ProcessErrorComplete(p, "Propagate")]
    BY <2>5 DEF ErrorWhileStarted, i
  <2>6. ErrorNotification(q) \in Session
    BY <1>3, HandlersAlike DEF Alike
  <2> QED BY <1>3, <2>2, <2>3, <2>4, <2>5, <2>6
<1> HIDE DEF q, h
<1>7. CASE sess' = [sess EXCEPT ![c] = q]
  BY <1>0, <1>3, <1>7 DEF NodesOK
<1>8. CASE \E p, a : /\ a \in {"Propagate", "Reselect", "error"} /\ p \in Session
                     /\ sess' = [sess EXCEPT ![c] = ProcessErrorComplete(p, a)]
  <2>1. PICK p, a : /\ a \in {"Propagate", "Reselect", "error"} /\ p \in Session
                    /\ sess' = [sess EXCEPT ![c] = ProcessErrorComplete(p, a)]
    BY <1>8
  <2>2. ProcessErrorComplete(p, a).reply = a
    BY <2>1 DEF ProcessErrorComplete, Session
  <2> QED BY <1>0, <2>1, <2>2 DEF NodesOK
<1>9. BlackListIap(c, i, "ETemporary") => black'[c] \in Blacks /\ black[c] \subseteq black'[c]
  <2> HIDE DEF i
  <2> QED BY <1>0, <1>2, BlackKeeps DEF BlacksOK, Categories
<1>10. CASE /\ e.state = "Roaming" /\ ResetBMConnection(c) /\ BlackListIap(c, i, "ETemporary")
            /\ sess' = [sess EXCEPT ![c] = IgnoreOrPropagate(h, conns'[c], black'[c], avail \ {i})]
  <2>1. GetBMSnap(conns'[c]) /\ GetBMIap(conns'[c]) = NoIap
    <3>1. conns'[c] \in Conn /\ conns'[c].iap = NoIap /\ conns'[c].snap = e.snap
      BY <1>0, <1>2, <1>10, ResetKeeps
    <3> QED BY <1>2, <1>10, <3>1, ConstantsAssumption DEF GetBMSnap, GetBMIap
  <2> QED BY <1>1, <1>2, <1>3, <1>9, <1>10, <2>1, CompletedIsOffered
<1>11. CASE /\ e.state = "Started" /\ GetBMSnap(e) /\ BlackListIap(c, i, "ETemporary")
            /\ sess' = [sess EXCEPT ![c] = IgnoreOrPropagate(q, e, black'[c], avail \ {i})]
  BY <1>1, <1>2, <1>3, <1>9, <1>11, CompletedIsOffered
<1> QED BY <1>5, <1>7, <1>8, <1>10, <1>11

LEMMA CallbackIsOffered ==
  ASSUME MPMInv, ScanCallback, NEW d \in Sessions, ~WlanManual, sess[d].offers < 2, sess[d].reg,
         cli'[d].phase = "recovering", Newly(d)
  PROVE  Compensated(d)
<1> DEFINE c == work.cb.c
           s == sess[c]
           e == conns[c]
<1>1. c \in Sessions
  BY DEF ScanCallback, MPMInv, TypeOK, Scan
<1>2. /\ s \in Session /\ cli[c] \in Client /\ e \in Entries /\ black[c] \in Blacks /\ NodesOK
      /\ Local(s, cli[c], e, black[c]) /\ avail \in SUBSET Iaps
  BY <1>1, Here DEF MonOK
<1>3. \/ UNCHANGED sess
      \/ ChooseIapScanCompleted(c)
      \/ /\ s.perr # None
         /\ sess' = [sess EXCEPT ![c] = IgnoreOrPropagate(s, e, black[c], avail \ {GetBMIap(e)})]
      \/ sess' = [sess EXCEPT ![c] = OfferNext(s, e, black[c])]
  BY DEF ScanCallback
<1>4. cli' = cli
  BY DEF ScanCallback
<1> HIDE DEF c
<1>5. CASE ChooseIapScanCompleted(c)
  <2>1. CASE sess' = [sess EXCEPT ![c] = ChooseIapComplete(s, "error")]
    BY <1>1, <1>2, <2>1, CompleteFields, NotNewly DEF Minds
  <2>2. CASE s.sel # None /\ CompleteExplicitSnapConnection(c, s)
    <3>1. PICK r \in Session : sess' = [sess EXCEPT ![c] = r] /\ Decided(c, s, r)
      BY <1>1, <1>2, <2>2, ExplicitResult
    <3>2. Minds(c, r)
      BY <3>1 DEF Minds, Decided
    <3> QED BY <1>1, <1>2, <3>2, NotNewly
  <2> QED BY <1>5, <2>1, <2>2 DEF ChooseIapScanCompleted, Newly
<1>6. CASE sess' = [sess EXCEPT ![c] = OfferNext(s, e, black[c])]
  <2>1. Minds(c, OfferNext(s, e, black[c]))
    BY <1>2, <1>6, OffersAlike DEF Minds, Alike
  <2> QED BY <1>1, <1>2, <2>1, NotNewly
<1>7. CASE /\ s.perr # None
           /\ sess' = [sess EXCEPT ![c] = IgnoreOrPropagate(s, e, black[c], avail \ {GetBMIap(e)})]
  <2>1. d = c
    BY <1>1, <1>2, <1>7 DEF Newly, NodesOK
  <2>2. e # None /\ e.snap /\ e.state = "Started" /\ Active(cli[c])
    BY <1>2, <1>4, <1>7, <2>1 DEF Local, Granted, Active
  <2>3. GetBMSnap(e) /\ GetBMIap(e) = e.iap
    BY <2>2 DEF GetBMSnap, GetBMIap
  <2> QED BY <1>1, <1>2, <1>7, <2>1, <2>2, <2>3, CompletedIsOffered DEF Newly
<1> QED BY <1>3, <1>5, <1>6, <1>7 DEF Newly

------------------------------------------------------------------------------
(* No other handler has an error ignored *)

\* No other handler tells a client to ignore its error.
LEMMA ChoiceNotNewly ==
  ASSUME MPMInv, NEW c \in Sessions, NEW s \in Session, NEW pref \in Pref, ChooseIapL(c, s, pref),
         s.reply \in {sess[c].reply, "none"}, NEW d \in Sessions
  PROVE  ~Newly(d)
<1>1. PICK r \in Session : sess' = [sess EXCEPT ![c] = r] /\ (Decided(c, s, r) \/ Searching(c, s, r))
  BY ChooseIapLResult
<1>2. Minds(c, r)
  BY <1>1 DEF Minds, Decided, Searching
<1> QED BY <1>2, NotNewly, Here

LEMMA ChoosingNotNewly ==
  ASSUME MPMInv, NEW c \in Sessions, \/ \E pref \in Prefs : ChooseIap(c, pref)
                                     \/ ReselectIap(c) \/ ReselectWhileHeld(c) \/ CancelChoose(c),
         NEW d \in Sessions
  PROVE  ~Newly(d)
<1>0. /\ sess[c] \in Session /\ NodesOK /\ Choosing(sess[c], cli[c])
  BY Here DEF Local
<1>1. ASSUME NEW pref \in Prefs, ChooseIap(c, pref) PROVE ~Newly(d)
  <2> DEFINE s == [sess[c] EXCEPT !.choose = TRUE]
  <2>1. s \in Session /\ s.reply = sess[c].reply /\ pref \in Pref
    BY <1>0, ConstantsAssumption DEF Session
  <2>2. ChooseIapL(c, s, pref)
    BY <1>1 DEF ChooseIap
  <2> HIDE DEF s
  <2> QED BY <2>1, <2>2, ChoiceNotNewly
<1>2. ASSUME ReselectIap(c) PROVE ~Newly(d)
  <2> DEFINE s == [sess[c] EXCEPT !.choose = TRUE, !.reply = "none"]
  <2>1. s \in Session /\ s.reply = "none" /\ sess[c].sel \in Pref
    BY <1>0, <1>2 DEF Session, Choosing, ReselectIap
  <2>2. ChooseIapL(c, s, sess[c].sel)
    BY <1>2 DEF ReselectIap
  <2> HIDE DEF s
  <2> QED BY <2>1, <2>2, ChoiceNotNewly
<1>3. ASSUME ReselectWhileHeld(c) PROVE ~Newly(d)
  <2> DEFINE s == [sess[c] EXCEPT !.choose = FALSE]
  <2>1. s \in Session /\ s.reply = sess[c].reply /\ sess[c].sel \in Pref
    BY ZenonT(40), <1>0, <1>3 DEF Session, Choosing, ReselectWhileHeld
  <2>2. ChooseIapL(c, s, sess[c].sel)
    BY <1>3 DEF ReselectWhileHeld
  <2> HIDE DEF s
  <2> QED BY <2>1, <2>2, ChoiceNotNewly
<1>4. ASSUME CancelChoose(c) PROVE ~Newly(d)
  <2> DEFINE p == ChooseIapComplete(sess[c], "error")
             r == [p EXCEPT !.reply = "none", !.sel = None, !.sdlg = None]
  <2>1. p \in Session
    BY <1>0, CompleteFields
  <2>2. sess' = [sess EXCEPT ![c] = r]
    BY <1>4 DEF CancelChoose
  <2> HIDE DEF p
  <2>3. r.reply = "none"
    BY <2>1 DEF Session
  <2> HIDE DEF r
  <2> QED BY <1>0, <2>2, <2>3, NotNewly DEF Minds
<1> QED BY <1>1, <1>2, <1>3, <1>4

LEMMA AnsweringNotNewly ==
  ASSUME MPMInv, NEW c \in Sessions, NEW ans, StartingResponse(c, ans) \/ RoamingResponse(c, ans),
         NEW d \in Sessions
  PROVE  ~Newly(d)
<1>0. sess[c] \in Session /\ NodesOK /\ avail \in SUBSET Iaps
  BY Here DEF MonOK
<1>1. CASE StartingResponse(c, ans)
  <2> DEFINE s == [sess[c] EXCEPT !.sdlg = None]
  <2>1. PICK a \in {"ok", "error"} : sess' = [sess EXCEPT ![c] = ChooseIapComplete(s, a)]
    BY <1>1 DEF StartingResponse
  <2>2. s \in Session /\ s.reply = sess[c].reply
    BY <1>0 DEF Session
  <2> HIDE DEF s
  <2>3. Minds(c, ChooseIapComplete(s, a))
    BY <2>1, <2>2, CompleteFields DEF Minds
  <2> QED BY <1>0, <2>3, NotNewly
<1>2. CASE RoamingResponse(c, ans)
  <2> DEFINE s == [sess[c] EXCEPT !.rdlg = None]
  <2>1. Alike(sess[c], s) /\ s.migrateIap \in IapOrNone
    BY <1>0 DEF Session, Alike
  <2>2. \E p \in {StartIAPNotification(s, s.migrateIap), PrefOrError(s, conns[c], black'[c], avail),
                  ErrorNotification(s)} :
          sess' = [sess EXCEPT ![c] = MigrateDone(p)]
    BY <1>2 DEF RoamingResponse
  <2> HIDE DEF s
  <2>3. PICK p : Alike(s, p) /\ sess' = [sess EXCEPT ![c] = MigrateDone(p)]
    <3>1. s \in Session
      BY <2>1 DEF Alike
    <3> QED BY <1>0, <2>1, <2>2, <3>1, HandlersAlike, OffersAlike
  <2>4. Alike(sess[c], MigrateDone(p))
    <3>1. p \in Session
      BY <2>3 DEF Alike
    <3>2. Alike(p, MigrateDone(p))
      BY <3>1, HandlersAlike
    <3> QED BY <2>1, <2>3, <3>2 DEF Alike
  <2> QED BY <1>0, <2>3, <2>4, NotNewly DEF Minds, Alike
<1> QED BY <1>1, <1>2

LEMMA OfferingTurns ==
  ASSUME MPMInv, NEW c \in Sessions,
         \/ RegisterPrefIAPNotif(c) \/ ApplicationAcceptedTheCarrier(c) \/ ApplicationRejectedTheCarrier(c)
         \/ \E cancel \in BOOLEAN : ApplicationIgnoredTheCarrier(c, cancel)
         \/ SendPrefIAPNotification(c)
  PROVE  Turns(c)
<1> DEFINE s == sess[c]
           kept(p) == Alike(s, p) /\ sess' = [sess EXCEPT ![c] = p]
<1>0. s \in Session /\ NodesOK /\ avail \in SUBSET Iaps
  BY Here DEF MonOK
<1>1. ASSUME NEW p, kept(p) PROVE Turns(c)
  BY <1>1 DEF Turns
<1> HIDE DEF s
<1>2. CASE RegisterPrefIAPNotif(c)
  <2> DEFINE q == [s EXCEPT !.reg = TRUE]
  <2>1. Alike(s, q)
    BY <1>0 DEF Alike, Session
  <2>2. \/ UNCHANGED sess
        \/ \E p \in {PrefIAPNotification(q, conns[c], black[c], avail, "EBearerMan"), q} :
             sess' = [sess EXCEPT ![c] = p]
    BY <1>2 DEF RegisterPrefIAPNotif, s
  <2> HIDE DEF q
  <2>3. q \in Session
    BY <2>1 DEF Alike
  <2>4. Alike(s, PrefIAPNotification(q, conns[c], black[c], avail, "EBearerMan"))
    <3>1. Alike(q, PrefIAPNotification(q, conns[c], black[c], avail, "EBearerMan"))
      BY <1>0, <2>3, OffersAlike
    <3> QED BY <2>1, <3>1 DEF Alike
  <2>5. UNCHANGED sess => sess' = [sess EXCEPT ![c] = s] /\ Alike(s, s)
    BY <1>0 DEF NodesOK, Alike, s
  <2> QED BY <1>1, <2>1, <2>2, <2>4, <2>5
<1>3. CASE SendPrefIAPNotification(c)
  <2>1. sess' = [sess EXCEPT ![c] = PrefIAPNotification(s, conns[c], black[c], avail, "EConnMonEvent")]
    BY <1>3 DEF SendPrefIAPNotification, s
  <2>2. Alike(s, PrefIAPNotification(s, conns[c], black[c], avail, "EConnMonEvent"))
    BY <1>0, OffersAlike
  <2> QED BY <1>1, <2>1, <2>2
<1> DEFINE q == ResetStoredIapInfo(s)
<1>4. Alike(s, q) /\ q \in Session
  BY <1>0, HandlersAlike DEF Alike
<1> HIDE DEF q
<1>5. CASE ApplicationAcceptedTheCarrier(c)
  <2> DEFINE p == PrefIAPNotification(q, conns'[c], black[c], s.stored, "EConnMon")
  <2>1. \/ s.stored = None /\ sess' = [sess EXCEPT ![c] = q]
        \/ s.stored # None /\ sess' = [sess EXCEPT ![c] = p]
    BY <1>5 DEF ApplicationAcceptedTheCarrier, s, q
  <2>2. s.stored # None => Alike(s, p)
    <3>1. SUFFICES ASSUME s.stored # None PROVE Alike(s, p)
      OBVIOUS
    <3>2. s.stored \in SUBSET Iaps
      BY <1>0, <3>1 DEF Session
    <3>3. Alike(q, p)
      BY <1>0, <1>4, <3>2, OffersAlike
    <3> QED BY <1>4, <3>3 DEF Alike
  <2> HIDE DEF p
  <2> QED BY <1>1, <1>4, <2>1, <2>2
<1>6. CASE ApplicationRejectedTheCarrier(c)
  <2> DEFINE p == OfferNext(q, conns'[c], black'[c])
  <2>1. sess' = [sess EXCEPT ![c] = q] \/ sess' = [sess EXCEPT ![c] = p]
    BY <1>6 DEF ApplicationRejectedTheCarrier, s, q
  <2>2. Alike(s, p)
    BY <1>0, <1>4, OffersAlike DEF Alike
  <2> HIDE DEF p
  <2> QED BY <1>1, <1>4, <2>1, <2>2
<1>7. CASE \E cancel \in BOOLEAN : ApplicationIgnoredTheCarrier(c, cancel)
  <2> DEFINE t == AnswerOffer(q)
             p == OfferNext(t, conns[c], black'[c])
  <2>1. sess' = [sess EXCEPT ![c] = p]
    BY <1>7 DEF ApplicationIgnoredTheCarrier, IgnoredTheCarrier, s, q
  <2>2. Alike(q, t)
    BY <1>4, HandlersAlike
  <2> HIDE DEF t
  <2>3. t \in Session
    BY <2>2 DEF Alike
  <2>4. Alike(s, p)
    BY <1>0, <1>4, <2>2, <2>3, OffersAlike DEF Alike
  <2> HIDE DEF p
  <2> QED BY <1>1, <2>1, <2>4
<1> QED BY <1>2, <1>3, <1>5, <1>6, <1>7

LEMMA MigratingTurns ==
  ASSUME MPMInv, NEW c \in Sessions, ApplicationMigratesToCarrier(c)
  PROVE  Turns(c)
<1> DEFINE i == cli[c].pref
           t == AnswerOffer(sess[c])
           s == [t EXCEPT !.migrateIap = i, !.rdlg = None]
           asking == [s EXCEPT !.confirm = TRUE]
           reconnect == GetBMIap(conns[c]) \notin AvailableUnblacklistedIaps(avail, black[c])
           asked == [asking EXCEPT !.rdlg = [iap |-> i, reconnect |-> reconnect]]
<1>0. sess[c] \in Session /\ NodesOK /\ i \in IapOrNone /\ i # NoIap
  BY Here DEF Client, ApplicationMigratesToCarrier, Local, Entry
<1>1. \E r \in {MigrateDone(ErrorNotification(s)), MigrateDone(StartIAPNotification(asking, i)),
               MigrateDone(ErrorNotification(asking)), asked} :
        sess' = [sess EXCEPT ![c] = r]
  BY DEF ApplicationMigratesToCarrier, MigratesToCarrier
<1>2. Alike(sess[c], t)
  BY <1>0, HandlersAlike
<1> HIDE DEF t, i
<1>3. Alike(sess[c], s)
  BY <1>0, <1>2, HandlersAlike DEF Alike
<1> HIDE DEF s
<1>4. Alike(sess[c], asking)
  BY <1>3, HandlersAlike DEF Alike
<1>5. Alike(sess[c], asked)
  <2> DEFINE dlg == [iap |-> i, reconnect |-> reconnect]
  <2>1. dlg \in RoamingDlg
    BY <1>0 DEF RoamingDlg, IapOrNone
  <2>2. asked = [asking EXCEPT !.rdlg = dlg]
    OBVIOUS
  <2> HIDE DEF dlg, asking, asked
  <2>3. asking \in Session
    BY <1>4 DEF Alike
  <2>4. asked \in Session /\ asked.reply = asking.reply /\ asked.perr = asking.perr /\ asked.open = asking.open
    BY <2>1, <2>2, <2>3 DEF Session
  <2> QED BY <1>4, <2>4 DEF Alike
<1> HIDE DEF asking, asked
<1>6. \A p : Alike(sess[c], p) => Alike(sess[c], MigrateDone(p))
  BY HandlersAlike DEF Alike
<1>7. /\ Alike(sess[c], ErrorNotification(s)) /\ Alike(sess[c], ErrorNotification(asking))
      /\ Alike(sess[c], StartIAPNotification(asking, i))
  BY <1>0, <1>3, <1>4, HandlersAlike DEF Alike
<1> QED BY <1>1, <1>5, <1>6, <1>7 DEF Turns

LEMMA TurnsNotNewly == ASSUME NodesOK, NEW c \in Sessions, Turns(c), NEW d \in Sessions PROVE ~Newly(d)
  BY NotNewly DEF Turns, Alike, Minds

LEMMA NextCompensates ==
  ASSUME MPMInv, Next, NEW d \in Sessions, ~WlanManual, sess[d].offers < 2, sess[d].reg,
         cli'[d].phase = "recovering", Newly(d)
  PROVE  Compensated(d)
<1>0. NodesOK /\ sess' # sess
  BY TypeSplit DEF MPMInv, Newly
<1>1. ASSUME NEW c \in Sessions, NEW ans, StartingResponse(c, ans) \/ RoamingResponse(c, ans)
      PROVE  FALSE
  BY <1>1, AnsweringNotNewly
<1>2. CASE Internal \/ UserAnswers
  <2>1. CASE PropagateStarting \/ PropagateRoaming \/ UserAnswers
    BY <1>0, <1>1, <2>1, HeadDialogs
       DEF PropagateStarting, PropagateRoaming, UserAnswers, AnswerStarting, AnswerRoaming
  <2> QED BY <1>0, <1>2, <2>1, CallbackIsOffered, OfferingTurns, TurnsNotNewly DEF Internal, UnblackTemporary
<1>3. ASSUME NEW c \in Sessions, Request(c) PROVE Compensated(d)
  <2>1. CASE \/ (\E p \in Prefs : ChooseIap(c, p)) \/ ReselectIap(c) \/ CancelChoose(c)
             \/ ReselectWhileHeld(c)
    BY <2>1, ChoosingNotNewly
  <2>2. ASSUME NEW e \in Errors, ProcessError(c, e) PROVE Compensated(d)
    <3>1. \E r : sess' = [sess EXCEPT ![c] = r]
      BY <2>2 DEF ProcessError, HandleProcessError, ErrorWhileStarting, ErrorWhileRoaming, ErrorWhileStarted
    <3>2. d = c
      BY <1>0, <3>1 DEF NodesOK, Newly
    <3> QED BY <2>2, <3>2, ErrorIsOffered DEF Newly
  <2>3. CASE \/ RegisterPrefIAPNotif(c) \/ ApplicationAcceptedTheCarrier(c)
             \/ ApplicationRejectedTheCarrier(c)
             \/ \E cancel \in BOOLEAN : ApplicationIgnoredTheCarrier(c, cancel)
    BY <1>0, <2>3, OfferingTurns, TurnsNotNewly
  <2>4. CASE ApplicationMigratesToCarrier(c)
    BY <1>0, <2>4, MigratingTurns, TurnsNotNewly
  <2>5. CASE CancelProcessError(c) \/ UnregisterPrefIAPNotif(c)
    <3>1. sess[c] \in Session
      BY <1>0 DEF NodesOK
    <3>2. /\ [sess[c] EXCEPT !.perr = None].reply = sess[c].reply
          /\ [sess[c] EXCEPT !.reg = FALSE, !.lastNotified = NoIap].reply = sess[c].reply
      BY <3>1 DEF Session
    <3>3. \/ sess' = [sess EXCEPT ![c] = [sess[c] EXCEPT !.perr = None]]
          \/ sess' = [sess EXCEPT ![c] = [sess[c] EXCEPT !.reg = FALSE, !.lastNotified = NoIap]]
      BY <1>0, <2>5 DEF CancelProcessError, UnregisterPrefIAPNotif, NodesOK
    <3> QED BY <1>0, <3>2, <3>3, NotNewly DEF Minds
  <2>6. CASE Open(c)
    <3>1. [NoSession EXCEPT !.open = TRUE, !.wait = TRUE].reply = "none"
      BY DEF NoSession
    <3> QED BY <1>0, <2>6, <3>1, NotNewly DEF Open, Minds
  <2>7. CASE ApplicationConnectionEnds(c)
    <3> DEFINE p == StopDisplayingStartingDlg(sess[c])
               r == [p EXCEPT !.reg = FALSE, !.rdlg = None, !.sel = None]
    <3>1. p = sess[c] /\ sess[c] \in Session
      BY <1>0, <2>7, Here
         DEF ApplicationConnectionEnds, StopDisplayingStartingDlg, Local, Choosing, NodesOK
    <3>2. r.reply = sess[c].reply
      BY <3>1 DEF Session
    <3>3. sess' = [Stopped(StoppedByRemove(c)) EXCEPT ![c] = r]
      BY <2>7 DEF ApplicationConnectionEnds
    <3> HIDE DEF r
    <3> QED BY <1>0, <3>2, <3>3, StoppedNotNewly
  <2>8. CASE Close(c)
    <3>1. sess' = [Stopped(StoppedByRemove(c)) EXCEPT ![c] = NoSession] /\ NoSession.reply = "none"
      BY <2>8 DEF Close, NoSession
    <3> QED BY <1>0, <3>1, StoppedNotNewly
  <2>9. CASE \/ IapConnectionStarted(c) \/ MigrationCompleted(c) \/ ApplicationLeavesConnection(c)
             \/ ChooseWhileHeld(c)
    BY <1>0, <2>9 DEF IapConnectionStarted, MigrationCompleted, ApplicationLeavesConnection, ChooseWhileHeld
  <2> QED BY <1>3, <2>1, <2>2, <2>3, <2>4, <2>5, <2>6, <2>7, <2>8, <2>9 DEF Request
<1>4. ASSUME NEW c \in Sessions, ReadNotification(c) \/ ReadReply(c) PROVE FALSE
  <2>1. sess[c] \in Session
    BY <1>0 DEF NodesOK
  <2>2. /\ [sess[c] EXCEPT !.note = None, !.wait = TRUE].reply = sess[c].reply
        /\ [sess[c] EXCEPT !.reply = "none"].reply = "none"
    BY <2>1 DEF Session
  <2>3. \/ sess' = [sess EXCEPT ![c] = [sess[c] EXCEPT !.note = None, !.wait = TRUE]]
        \/ sess' = [sess EXCEPT ![c] = [sess[c] EXCEPT !.reply = "none"]]
    BY <1>0, <1>4 DEF ReadNotification, ReadReply, NodesOK
  <2> QED BY <1>0, <2>2, <2>3, NotNewly DEF Minds
<1>5. CASE DataUsageChanged
  BY <1>0, <1>5, StoppedNotNewly DEF DataUsageChanged
<1>6. CASE PermQueryTimerExpires \/ Environment \/ \E c \in Sessions : ScanEnds(c)
  BY <1>0, <1>6 DEF PermQueryTimerExpires, Environment, AvailabilityEvent, ObsoleteScanDone, UserSetsUsage,
     ScanEnds, ScanFails, ScanDone
<1> QED BY <1>2, <1>3, <1>4, <1>5, <1>6 DEF Next

\* A node that is told to ignore an error has an offer or an error notification under way.
THEOREM IgnoredIsNotifiedHolds == Spec => IgnoredIsNotified
<1> DEFINE A == \A c \in Sessions :
                  /\ ~WlanManual /\ sess[c].offers < 2
                  /\ sess[c].reg /\ cli'[c].phase = "recovering"
                  /\ sess[c].reply # "Ignore" /\ sess'[c].reply = "Ignore"
                  => sess'[c].note # None \/ cli[c].stored # None \/ cli[c].mob = "offered"
<1>1. MPMInv /\ [Next]_vars => [A]_vars
  BY NextCompensates DEF Newly, Compensated
<1>2. Spec => [][A]_vars
  BY <1>1, Invariant, PTL DEF Spec
<1> QED BY <1>2 DEF IgnoredIsNotified

------------------------------------------------------------------------------
(* Nothing calls back what is gone *)

\* What a scan calls back is there, and the request about an error that it is for.
Awaited(s, scan) == s[scan.c].open /\ (scan.cb = "ProcessErr" => s[scan.c].perr # None)
ScansOwned ==
  /\ fatal = "none"
  /\ \A k \in DOMAIN scans : Awaited(sess, scans[k])
  /\ work.cb # None => Awaited(sess, work.cb) /\ \A k \in DOMAIN scans : scans[k].c # work.cb.c

\* No session has two scans at a time.
OneScanEach == \A k, l \in DOMAIN scans : scans[k].c = scans[l].c => k = l

Holds(d) ==
  /\ sess[d].open => sess'[d].open
  /\ sess[d].perr # None => sess'[d].perr # None

LEMMA TurnsHold == ASSUME NodesOK, NEW c \in Sessions, Turns(c), NEW d \in Sessions PROVE Holds(d)
  BY DEF NodesOK, Turns, Alike, Holds

LEMMA HandledHolds ==
  ASSUME NodesOK, NEW c \in Sessions, NEW r, sess' = [sess EXCEPT ![c] = r],
         sess[c].open => r.open, sess[c].perr # None => r.perr # None, NEW d \in Sessions
  PROVE  Holds(d)
  BY DEF NodesOK, Holds

LEMMA ScanTypes ==
  ASSUME MPMInv
  PROVE  /\ scans \in Seq(Scan)
         /\ \A k \in DOMAIN scans : scans[k] \in Scan /\ scans[k].c \in Sessions
         /\ work.cb # None => work.cb \in Scan /\ work.cb.c \in Sessions
<1>1. /\ scans \in Seq(Scan)
      /\ work \in [unblack: Nat, pref: SUBSET Sessions, cb: {None} \cup Scan]
  BY DEF MPMInv, TypeOK
<1>2. (\A k \in DOMAIN scans : scans[k] \in Scan) /\ work.cb \in {None} \cup Scan
  BY <1>1
<1>3. \A x \in Scan : x.c \in Sessions
  BY DEF Scan
<1> QED BY <1>1, <1>2, <1>3

\* No scan begins or ends.
LEMMA CalmOwned ==
  ASSUME MPMInv, ScansOwned, UNCHANGED <<scans, fatal>>, work'.cb \in {None, work.cb},
         \A d \in Sessions : Holds(d)
  PROVE  ScansOwned'
<1>1. ASSUME NEW scan \in Scan, Awaited(sess, scan) PROVE Awaited(sess', scan)
  <2>1. scan.c \in Sessions
    BY DEF Scan
  <2> QED BY <1>1, <2>1 DEF Holds, Awaited
<1> QED BY <1>1, ScanTypes DEF ScansOwned

LEMMA StartOwned ==
  ASSUME MPMInv, ScansOwned, Quiet, NEW c \in Sessions, NEW cb \in Callbacks, ScanWLANNetworks(c, cb),
         UNCHANGED <<work, fatal>>, \A d \in Sessions : Holds(d),
         sess'[c].open, cb = "ProcessErr" => sess'[c].perr # None
  PROVE  ScansOwned'
<1> DEFINE new == [c |-> c, cb |-> cb]
<1>1. new \in Scan /\ new.c = c /\ new.cb = cb
  BY DEF Scan
<1>2. scans' = Append(scans, new)
  BY DEF ScanWLANNetworks
<1> HIDE DEF new
<1>3. /\ DOMAIN scans' = 1..(Len(scans) + 1) /\ DOMAIN scans = 1..Len(scans) /\ Len(scans) \in Nat
      /\ \A k \in 1..Len(scans) : scans'[k] = scans[k]
      /\ scans'[Len(scans) + 1] = new
  BY <1>1, <1>2, ScanTypes
<1>4. ASSUME NEW scan \in Scan, Awaited(sess, scan) PROVE Awaited(sess', scan)
  <2>1. scan.c \in Sessions
    BY DEF Scan
  <2> QED BY <1>4, <2>1 DEF Holds, Awaited
<1>5. Awaited(sess', new)
  BY <1>1 DEF Awaited
<1>6. ASSUME NEW k \in DOMAIN scans' PROVE Awaited(sess', scans'[k])
  <2>1. CASE k \in 1..Len(scans)
    BY <1>3, <1>4, <2>1, ScanTypes DEF ScansOwned
  <2>2. CASE k = Len(scans) + 1
    BY <1>3, <1>5, <2>2
  <2> QED BY <1>3, <2>1, <2>2
<1>7. work'.cb = None
  BY DEF Quiet, NoWork
<1> QED BY <1>6, <1>7 DEF ScansOwned, Awaited

\* What is left when the scan k is removed.
LEMMA LeftOwned ==
  ASSUME MPMInv, ScansOwned, OneScanEach, NEW k \in DOMAIN scans, scans' = RemoveAt(scans, k),
         \A d \in Sessions \ {scans[k].c} : Holds(d)
  PROVE  \A l \in DOMAIN scans' : Awaited(sess', scans'[l]) /\ scans'[l].c # scans[k].c
<1>1. scans \in Seq(Scan) /\ k \in 1..Len(scans) /\ DOMAIN scans = 1..Len(scans)
  BY ScanTypes, SMTT(60)
<1>2. /\ scans' \in Seq(Scan) /\ Len(scans') = Len(scans) - 1
      /\ \A i \in 1..(Len(scans) - 1) : scans'[i] = IF i < k THEN scans[i] ELSE scans[i + 1]
  BY <1>1, RemoveAtKeeps
<1>3. ASSUME NEW l \in DOMAIN scans' PROVE Awaited(sess', scans'[l]) /\ scans'[l].c # scans[k].c
  <2> DEFINE m == IF l < k THEN l ELSE l + 1
  <2>1. l \in 1..(Len(scans) - 1) /\ Len(scans) \in Nat
    BY <1>1, <1>2
  <2>2. m \in 1..Len(scans) /\ m # k /\ scans'[l] = scans[m]
    BY <1>1, <1>2, <2>1
  <2> HIDE DEF m
  <2>3. scans[m].c # scans[k].c /\ Awaited(sess, scans[m]) /\ scans[m].c \in Sessions
    BY <1>1, <2>2, ScanTypes DEF OneScanEach, ScansOwned
  <2> QED BY <2>2, <2>3 DEF Awaited, Holds
<1> QED BY <1>3

LEMMA CancelOwned ==
  ASSUME MPMInv, ScansOwned, OneScanEach, Quiet, NEW c \in Sessions, CancelScan(c),
         UNCHANGED <<work, fatal>>, \A d \in Sessions \ {c} : Holds(d)
  PROVE  ScansOwned'
<1> DEFINE own == {k \in DOMAIN scans : scans[k].c = c}
           first == CHOOSE k \in own : \A l \in own : k <= l
<1>0. work'.cb = None
  BY DEF Quiet, NoWork
<1>1. CASE own = {}
  <2>1. UNCHANGED scans
    BY <1>1 DEF CancelScan
  <2>2. \A k \in DOMAIN scans : scans[k].c \in Sessions \ {c}
    BY <1>1, ScanTypes
  <2> QED BY <1>0, <2>1, <2>2 DEF ScansOwned, Awaited, Holds
<1>2. CASE own # {}
  <2>1. own \in SUBSET Nat
    BY ScanTypes
  <2>2. \E k \in own : \A l \in own : k <= l
    <3> HIDE DEF own
    <3> QED BY <1>2, <2>1, LeastExists
  <2>3. first \in own
    <3> HIDE DEF own
    <3> QED BY <2>2
  <2>4. scans' = RemoveAt(scans, first)
    BY <1>2 DEF CancelScan
  <2>5. first \in DOMAIN scans /\ scans[first].c = c
    BY <2>3
  <2> HIDE DEF first, own
  <2> QED BY <1>0, <2>4, <2>5, LeftOwned DEF ScansOwned
<1> QED BY <1>1, <1>2

LEMMA EndOwned ==
  ASSUME MPMInv, ScansOwned, OneScanEach, NEW c \in Sessions, ScanEnds(c)
  PROVE  ScansOwned'
<1>1. PICK k \in DOMAIN scans : scans[k].c = c /\ (ScanFails(k) \/ \E S \in SUBSET Iaps : ScanDone(k, S))
  BY DEF ScanEnds
<1>2. UNCHANGED <<sess, fatal>> /\ scans' = RemoveAt(scans, k) /\ work'.cb = scans[k]
  BY <1>1 DEF ScanFails, ScanDone, IapAvailabilityChange, NoWork
<1>3. \A l \in DOMAIN scans' : Awaited(sess', scans'[l]) /\ scans'[l].c # scans[k].c
  BY <1>2, LeftOwned DEF Holds
<1>4. Awaited(sess', scans[k])
  BY <1>2 DEF ScansOwned, Awaited
<1> QED BY <1>2, <1>3, <1>4 DEF ScansOwned, Awaited

LEMMA CallbackOwned == ASSUME MPMInv, ScansOwned, ScanCallback PROVE ScansOwned'
<1> DEFINE c == work.cb.c
           s == sess[c]
           e == conns[c]
           q == PrefOrError(s, e, black[c], avail \ {GetBMIap(e)})
           a == IF PrefNotFound(s, e, black[c], avail \ {GetBMIap(e)}, "EBearerMan") THEN "Propagate"
                ELSE "Ignore"
<1>0. c \in Sessions /\ work.cb \in Scan /\ s.open /\ (work.cb.cb = "ProcessErr" => s.perr # None)
  BY ScanTypes DEF ScanCallback, ScansOwned, Awaited
<1>1. s \in Session /\ NodesOK /\ avail \in SUBSET Iaps
  BY <1>0, Here DEF MonOK
<1>2. /\ \/ work.cb.cb = "ChooseIap" /\ ChooseIapScanCompleted(c)
         \/ work.cb.cb = "ProcessErr" /\ sess' = [sess EXCEPT ![c] = ProcessErrorComplete(q, a)]
         \/ work.cb.cb = "CarrierRejected" /\ sess' = [sess EXCEPT ![c] = OfferNext(s, e, black[c])]
      /\ work'.cb = None /\ UNCHANGED <<scans, fatal>>
  BY <1>0 DEF ScanCallback, IgnoreOrPropagate, NoWork, monVars
<1>3. avail \ {GetBMIap(e)} \in SUBSET Iaps
  BY <1>1
<1>4. Alike(s, q) /\ Alike(s, OfferNext(s, e, black[c]))
  BY <1>1, <1>3, OffersAlike
<1>5. ProcessErrorComplete(q, a).open = s.open
  <2> HIDE DEF q, a, s
  <2> QED BY <1>4 DEF Alike, ProcessErrorComplete, Session
<1>6. CASE ChooseIapScanCompleted(c)
  <2>1. CASE sess' = [sess EXCEPT ![c] = ChooseIapComplete(s, "error")]
    BY ZenonT(40), <1>0, <1>1, <1>2, <2>1, CompleteFields, HandledHolds, CalmOwned DEF SameRest
  <2>2. CASE s.sel # None /\ CompleteExplicitSnapConnection(c, s)
    <3>1. PICK r \in Session : sess' = [sess EXCEPT ![c] = r] /\ Decided(c, s, r)
      BY <1>0, <1>1, <2>2, ExplicitResult
    <3> QED BY <1>0, <1>1, <1>2, <3>1, HandledHolds, CalmOwned DEF Decided, SameRest
  <2>3. CASE UNCHANGED sess
    BY <1>2, <2>3, CalmOwned DEF Holds
  <2> QED BY <1>6, <2>1, <2>2, <2>3 DEF ChooseIapScanCompleted
<1>7. CASE sess' = [sess EXCEPT ![c] = OfferNext(s, e, black[c])]
  BY <1>0, <1>1, <1>2, <1>4, <1>7, HandledHolds, CalmOwned DEF Alike
<1>8. CASE sess' = [sess EXCEPT ![c] = ProcessErrorComplete(q, a)]
  <2> HIDE DEF q, a, c
  <2>1. \A d \in Sessions \ {c} : Holds(d)
    BY <1>0, <1>1, <1>8 DEF NodesOK, Holds
  <2>2. \A k \in DOMAIN scans : scans[k].c \in Sessions \ {c}
    BY <1>0, ScanTypes DEF ScansOwned, ScanCallback, c
  <2> QED BY <1>2, <2>1, <2>2 DEF ScansOwned, Awaited, Holds
<1> QED BY <1>2, <1>6, <1>7, <1>8

LEMMA ChoiceOwned ==
  ASSUME MPMInv, ScansOwned, Quiet, NEW c \in Sessions, NEW s \in Session, NEW pref \in Pref,
         ChooseIapL(c, s, pref), s.open, sess[c].open, s.perr = sess[c].perr, UNCHANGED <<work, fatal>>
  PROVE  ScansOwned'
<1>1. PICK r \in Session : /\ sess' = [sess EXCEPT ![c] = r]
                           /\ (Decided(c, s, r) /\ UNCHANGED monVars) \/ Searching(c, s, r)
  BY ChooseIapLResult
<1>2. r.open /\ r.perr = sess[c].perr
  BY <1>1 DEF Decided, Searching, SameRest
<1>3. /\ \A d \in Sessions : Holds(d)
      /\ sess'[c].open
  BY <1>1, <1>2, HandledHolds, Here DEF NodesOK
<1>4. CASE UNCHANGED monVars
  BY <1>3, <1>4, CalmOwned DEF monVars
<1>5. CASE Searching(c, s, r)
  <2>1. ScanWLANNetworks(c, "ChooseIap")
    BY <1>5 DEF Searching
  <2> QED BY <1>3, <2>1, StartOwned DEF Callbacks
<1> QED BY <1>1, <1>4, <1>5

LEMMA ChoosingOwned ==
  ASSUME MPMInv, ScansOwned, OneScanEach, NEW c \in Sessions,
         (\E pref \in Prefs : ChooseIap(c, pref)) \/ ReselectIap(c) \/ CancelChoose(c)
  PROVE  ScansOwned'
<1>0. /\ sess[c] \in Session /\ NodesOK /\ Choosing(sess[c], cli[c]) /\ Asked(sess[c], cli[c])
  BY Here DEF Local
<1>1. ASSUME NEW pref \in Prefs, ChooseIap(c, pref) PROVE ScansOwned'
  <2> DEFINE s == [sess[c] EXCEPT !.choose = TRUE]
  <2>1. s \in Session /\ s.open = sess[c].open /\ s.perr = sess[c].perr /\ pref \in Pref
    BY <1>0, ConstantsAssumption DEF Session
  <2>2. ChooseIapL(c, s, pref) /\ Quiet /\ sess[c].open /\ UNCHANGED <<work, fatal>>
    BY <1>1 DEF ChooseIap, Ready
  <2> HIDE DEF s
  <2> QED BY <2>1, <2>2, ChoiceOwned
<1>2. ASSUME ReselectIap(c) PROVE ScansOwned'
  <2> DEFINE s == [sess[c] EXCEPT !.choose = TRUE, !.reply = "none"]
  <2>1. /\ s \in Session /\ s.open = sess[c].open /\ s.perr = sess[c].perr /\ sess[c].sel \in Pref
        /\ sess[c].open
    BY <1>0, <1>2 DEF Session, Choosing, Asked, ReselectIap
  <2>2. ChooseIapL(c, s, sess[c].sel) /\ Quiet /\ UNCHANGED <<work, fatal>>
    BY <1>2 DEF ReselectIap
  <2> HIDE DEF s
  <2> QED BY <2>1, <2>2, ChoiceOwned
<1>3. ASSUME CancelChoose(c) PROVE ScansOwned'
  <2>1. /\ Quiet /\ CancelScan(c) /\ UNCHANGED <<work, fatal>>
        /\ \E r : sess' = [sess EXCEPT ![c] = r]
    BY <1>3 DEF CancelChoose
  <2>2. \A d \in Sessions \ {c} : Holds(d)
    BY <1>0, <2>1 DEF NodesOK, Holds
  <2> QED BY <2>1, <2>2, CancelOwned
<1> QED BY <1>1, <1>2, <1>3

LEMMA ErrorOwned ==
  ASSUME MPMInv, ScansOwned, NEW c \in Sessions, NEW error \in Errors, ProcessError(c, error)
  PROVE  ScansOwned'
<1> DEFINE s == sess[c]
           q == [s EXCEPT !.perr = error]
           h == ResetStoredIapInfo(q)
           i == GetBMIap(conns[c])
<1>0. s \in Session /\ NodesOK /\ avail \in SUBSET Iaps /\ avail \ {i} \in SUBSET Iaps
  BY Here DEF MonOK
<1>1. /\ Quiet /\ s.open /\ s.perr = None /\ s.sdlg = None /\ UNCHANGED <<work, fatal>>
      /\ HandleProcessError(c, error)
  <2>1. Ready(c) /\ cli[c].phase \in {"starting", "up"}
    BY DEF ProcessError
  <2>2. s.sdlg = None
    BY <2>1, Here DEF Local, Choosing
  <2> QED BY <2>1, <2>2 DEF ProcessError, Ready, Free
<1>2. StopDisplayingStartingDlg(s) = s
  BY <1>1 DEF StopDisplayingStartingDlg
<1>3. /\ q \in Session /\ q.open /\ q.perr = error /\ q.perr # None
      /\ h \in Session /\ h.open
  <2>1. q \in Session /\ q.open /\ q.perr = error
    BY <1>0, <1>1 DEF Session
  <2> HIDE DEF q
  <2>2. h \in Session /\ h.open
    BY <2>1, HandlersAlike DEF Alike
  <2> QED BY <2>1, <2>2, ConstantsAssumption
<1>4. \/ /\ sess' = [sess EXCEPT ![c] = q] /\ ScanWLANNetworks(c, "ProcessErr")
      \/ /\ UNCHANGED monVars
         /\ \/ sess' = [sess EXCEPT ![c] = IgnoreOrPropagate(h, conns'[c], black'[c], avail \ {i})]
            \/ sess' = [sess EXCEPT ![c] = IgnoreOrPropagate(q, conns[c], black'[c], avail \ {i})]
            \/ \E p \in {q, ErrorNotification(q)} : \E a :
                 sess' = [sess EXCEPT ![c] = ProcessErrorComplete(p, a)]
  <2>1. \/ ErrorWhileStarting(c, q) \/ ErrorWhileRoaming(c, q) \/ ErrorWhileStarted(c, q)
        \/ /\ \E a : sess' = [sess EXCEPT ![c] = ProcessErrorComplete(q, a)]
           /\ UNCHANGED monVars
    BY <1>1, <1>2 DEF HandleProcessError
  <2> HIDE DEF q, i
  <2>2. ASSUME ErrorWhileStarting(c, q)
        PROVE  UNCHANGED monVars /\ \E a : sess' = [sess EXCEPT ![c] = ProcessErrorComplete(q, a)]
    BY <2>2 DEF ErrorWhileStarting
  <2>3. ASSUME ErrorWhileRoaming(c, q)
        PROVE  /\ UNCHANGED monVars
               /\ sess' = [sess EXCEPT ![c] = IgnoreOrPropagate(h, conns'[c], black'[c], avail \ {i})]
    BY <2>3 DEF ErrorWhileRoaming, i
  <2>4. ASSUME ErrorWhileStarted(c, q)
        PROVE  \/ sess' = [sess EXCEPT ![c] = q] /\ ScanWLANNetworks(c, "ProcessErr")
               \/ /\ UNCHANGED monVars
                  /\ \/ sess' = [sess EXCEPT ![c] = IgnoreOrPropagate(q, conns[c], black'[c], avail \ {i})]
                     \/ \E p \in {q, ErrorNotification(q)} : \E a :
                          sess' = [sess EXCEPT ![c] = ProcessErrorComplete(p, a)]
    BY <2>4 DEF ErrorWhileStarted, i
  <2> HIDE DEF h
  <2> QED BY <2>1, <2>2, <2>3, <2>4
<1>5. CASE sess' = [sess EXCEPT ![c] = q] /\ ScanWLANNetworks(c, "ProcessErr")
  <2> HIDE DEF q
  <2>1. (\A d \in Sessions : Holds(d)) /\ sess'[c].open /\ sess'[c].perr # None
    BY <1>0, <1>3, <1>5, HandledHolds DEF NodesOK
  <2> QED BY <1>1, <1>5, <2>1, StartOwned DEF Callbacks
<1> HIDE DEF q, h
<1>6. ASSUME NEW p \in Session, p.open, NEW a, sess' = [sess EXCEPT ![c] = ProcessErrorComplete(p, a)],
             UNCHANGED monVars
      PROVE  ScansOwned'
  <2>1. ProcessErrorComplete(p, a).open
    BY <1>6 DEF ProcessErrorComplete, Session
  <2>2. \A d \in Sessions : Holds(d)
    <3> HIDE DEF s
    <3> QED BY <1>0, <1>1, <1>6, <2>1, HandledHolds DEF s
  <2> QED BY <1>1, <1>6, <2>2, CalmOwned DEF monVars
<1>7. ASSUME NEW p \in Session, p.open, NEW f, NEW d
      PROVE  \E u \in Session : \E a : u.open /\ IgnoreOrPropagate(p, f, d, avail \ {i}) = ProcessErrorComplete(u, a)
  <2>1. Alike(p, PrefOrError(p, f, d, avail \ {i}))
    BY <1>0, OffersAlike
  <2> QED BY <1>7, <2>1 DEF IgnoreOrPropagate, Alike
<1>8. \A p \in {q, ErrorNotification(q)} : p \in Session /\ p.open
  BY <1>3, HandlersAlike DEF Alike
<1>9. CASE /\ UNCHANGED monVars
           /\ \/ sess' = [sess EXCEPT ![c] = IgnoreOrPropagate(h, conns'[c], black'[c], avail \ {i})]
              \/ sess' = [sess EXCEPT ![c] = IgnoreOrPropagate(q, conns[c], black'[c], avail \ {i})]
  <2> HIDE DEF i
  <2>1. PICK p \in Session : /\ p.open
                             /\ \E f, d : sess' = [sess EXCEPT ![c] = IgnoreOrPropagate(p, f, d, avail \ {i})]
    BY <1>3, <1>9
  <2>2. PICK u \in Session : u.open /\ \E a : sess' = [sess EXCEPT ![c] = ProcessErrorComplete(u, a)]
    <3>1. PICK f, d : sess' = [sess EXCEPT ![c] = IgnoreOrPropagate(p, f, d, avail \ {i})]
      BY <2>1
    <3>2. \E u \in Session : \E a : /\ u.open
                                   /\ IgnoreOrPropagate(p, f, d, avail \ {i}) = ProcessErrorComplete(u, a)
      BY <1>7, <2>1
    <3> QED BY <3>1, <3>2
  <2> QED BY <1>6, <1>9, <2>2
<1>10. CASE /\ UNCHANGED monVars
            /\ \E p \in {q, ErrorNotification(q)} : \E a :
                 sess' = [sess EXCEPT ![c] = ProcessErrorComplete(p, a)]
  BY <1>6, <1>8, <1>10
<1> QED BY <1>4, <1>5, <1>9, <1>10

LEMMA AnsweringHolds ==
  ASSUME MPMInv, NEW c \in Sessions, NEW ans, StartingResponse(c, ans) \/ RoamingResponse(c, ans),
         NEW d \in Sessions
  PROVE  Holds(d)
<1>0. sess[c] \in Session /\ NodesOK /\ avail \in SUBSET Iaps
  BY Here DEF MonOK
<1>1. CASE StartingResponse(c, ans)
  <2> DEFINE s == [sess[c] EXCEPT !.sdlg = None]
  <2>1. PICK a \in {"ok", "error"} : sess' = [sess EXCEPT ![c] = ChooseIapComplete(s, a)]
    BY <1>1 DEF StartingResponse
  <2>2. s \in Session /\ s.perr = sess[c].perr /\ s.open = sess[c].open
    BY <1>0 DEF Session
  <2> HIDE DEF s
  <2> DEFINE r == ChooseIapComplete(s, a)
  <2>3. r.perr = sess[c].perr /\ r.open = sess[c].open
    BY <2>2, CompleteFields DEF SameRest
  <2>4. sess' = [sess EXCEPT ![c] = r]
    BY <2>1
  <2> HIDE DEF r
  <2> QED BY <1>0, <2>3, <2>4, HandledHolds
<1>2. CASE RoamingResponse(c, ans)
  <2> DEFINE s == [sess[c] EXCEPT !.rdlg = None]
  <2>1. Alike(sess[c], s) /\ s.migrateIap \in IapOrNone
    BY <1>0 DEF Session, Alike
  <2>2. \E p \in {StartIAPNotification(s, s.migrateIap), PrefOrError(s, conns[c], black'[c], avail),
                  ErrorNotification(s)} :
          sess' = [sess EXCEPT ![c] = MigrateDone(p)]
    BY <1>2 DEF RoamingResponse
  <2> HIDE DEF s
  <2>3. PICK p : Alike(s, p) /\ sess' = [sess EXCEPT ![c] = MigrateDone(p)]
    <3>1. s \in Session
      BY <2>1 DEF Alike
    <3> QED BY <1>0, <2>1, <2>2, <3>1, HandlersAlike, OffersAlike
  <2>4. Alike(sess[c], MigrateDone(p))
    BY <2>1, <2>3, HandlersAlike DEF Alike
  <2> QED BY <1>0, <2>3, <2>4, TurnsHold DEF Turns
<1> QED BY <1>1, <1>2

LEMMA StoppedHolds ==
  ASSUME NodesOK, NEW S, NEW c \in Sessions, NEW r, NEW d \in Sessions,
         \/ sess' = Stopped(S)
         \/ sess' = [Stopped(S) EXCEPT ![c] = r] /\ (d = c => r.perr = sess[c].perr /\ r.open = sess[c].open)
  PROVE  Holds(d)
<1>1. /\ \A x \in Sessions : sess[x] \in Session /\ StopIAPNotification(sess[x]).perr = sess[x].perr
                             /\ StopIAPNotification(sess[x]).open = sess[x].open
  BY StopFields DEF NodesOK
<1> QED BY <1>1, StoppedType DEF Holds

LEMMA RequestOwned ==
  ASSUME MPMInv, ScansOwned, OneScanEach, Disciplined, NEW c \in Sessions, Request(c)
  PROVE  ScansOwned'
<1>0. NodesOK /\ sess[c] \in Session
  BY Here
<1>c. ASSUME \A d \in Sessions : Holds(d), UNCHANGED <<monVars, work, fatal>> PROVE ScansOwned'
  BY <1>c, CalmOwned DEF monVars
<1>1. CASE (\E p \in Prefs : ChooseIap(c, p)) \/ ReselectIap(c) \/ CancelChoose(c)
  BY <1>1, ChoosingOwned
<1>2. CASE \E e \in Errors : ProcessError(c, e)
  BY <1>2, ErrorOwned
<1>3. CASE \/ RegisterPrefIAPNotif(c) \/ ApplicationAcceptedTheCarrier(c)
           \/ \E cancel \in BOOLEAN : ApplicationIgnoredTheCarrier(c, cancel)
  <2>1. \A d \in Sessions : Holds(d)
    BY <1>0, <1>3, OfferingTurns, TurnsHold
  <2>2. UNCHANGED <<monVars, work, fatal>>
    BY <1>3 DEF RegisterPrefIAPNotif, ApplicationAcceptedTheCarrier, ApplicationIgnoredTheCarrier
  <2> QED BY <1>c, <2>1, <2>2
<1>4. CASE ApplicationRejectedTheCarrier(c)
  <2>1. (\A d \in Sessions : Holds(d)) /\ sess'[c].open
    <3>1. Turns(c) /\ sess[c].open
      BY <1>4, OfferingTurns DEF ApplicationRejectedTheCarrier, Ready
    <3> QED BY <1>0, <3>1, TurnsHold DEF Holds
  <2>2. /\ UNCHANGED <<work, fatal>> /\ Quiet
        /\ UNCHANGED monVars \/ ScanWLANNetworks(c, "CarrierRejected")
    BY <1>4 DEF ApplicationRejectedTheCarrier, Ready
  <2> QED BY <1>c, <2>1, <2>2, StartOwned DEF Callbacks
<1>5. CASE ApplicationMigratesToCarrier(c)
  <2>1. \A d \in Sessions : Holds(d)
    BY <1>0, <1>5, MigratingTurns, TurnsHold
  <2> QED BY <1>c, <1>5, <2>1 DEF ApplicationMigratesToCarrier
<1>6. CASE CancelProcessError(c) \/ Close(c)
  <2>1. Quiet /\ CancelScan(c) /\ UNCHANGED <<work, fatal>>
    BY <1>6 DEF CancelProcessError, Close
  <2>2. CASE CancelProcessError(c)
    <3>1. \A d \in Sessions \ {c} : Holds(d)
      BY <1>0, <2>2 DEF CancelProcessError, NodesOK, Holds
    <3> QED BY <2>1, <3>1, CancelOwned
  <2>3. CASE Close(c)
    <3>1. \A d \in Sessions \ {c} : Holds(d)
      BY <1>0, <2>3, StoppedHolds DEF Close
    <3> QED BY <2>1, <3>1, CancelOwned
  <2> QED BY <1>6, <2>2, <2>3
<1>7. CASE UnregisterPrefIAPNotif(c)
  <2> DEFINE r == [sess[c] EXCEPT !.reg = FALSE, !.lastNotified = NoIap]
  <2>1. r.perr = sess[c].perr /\ r.open = sess[c].open
    BY <1>0 DEF Session
  <2>2. sess' = [sess EXCEPT ![c] = r]
    BY <1>0, <1>7 DEF UnregisterPrefIAPNotif, NodesOK
  <2> HIDE DEF r
  <2>3. \A d \in Sessions : Holds(d)
    BY <1>0, <2>1, <2>2, HandledHolds
  <2> QED BY <1>c, <1>7, <2>3 DEF UnregisterPrefIAPNotif
<1>8. CASE Open(c)
  <2>1. sess[c].perr = None /\ ~sess[c].open
    BY <1>8, Here DEF Open, Local, Granted
  <2>2. \A d \in Sessions : Holds(d)
    BY <1>0, <1>8, <2>1, HandledHolds DEF Open
  <2> QED BY <1>c, <1>8, <2>2 DEF Open
<1>9. CASE ApplicationConnectionEnds(c)
  <2> DEFINE p == StopDisplayingStartingDlg(sess[c])
             r == [p EXCEPT !.reg = FALSE, !.rdlg = None, !.sel = None]
  <2>1. p = sess[c]
    BY <1>9, Here DEF ApplicationConnectionEnds, StopDisplayingStartingDlg, Local, Choosing
  <2>2. r.perr = sess[c].perr /\ r.open = sess[c].open
    BY <1>0, <2>1 DEF Session
  <2>3. sess' = [Stopped(StoppedByRemove(c)) EXCEPT ![c] = r]
    BY <1>9 DEF ApplicationConnectionEnds
  <2> HIDE DEF r
  <2>4. \A d \in Sessions : Holds(d)
    BY <1>0, <2>2, <2>3, StoppedHolds
  <2> QED BY <1>c, <1>9, <2>4 DEF ApplicationConnectionEnds
<1>10. CASE IapConnectionStarted(c) \/ MigrationCompleted(c) \/ ApplicationLeavesConnection(c)
  BY <1>c, <1>10 DEF IapConnectionStarted, MigrationCompleted, ApplicationLeavesConnection, Holds
<1> QED BY <1>1, <1>2, <1>3, <1>4, <1>5, <1>6, <1>7, <1>8, <1>9, <1>10
        DEF Request, ChooseWhileHeld, ReselectWhileHeld

LEMMA NextOwned ==
  ASSUME MPMInv, ScansOwned, OneScanEach, Disciplined, [Next]_vars PROVE ScansOwned'
<1>0. NodesOK
  BY TypeSplit DEF MPMInv
<1>c. ASSUME \A d \in Sessions : Holds(d), UNCHANGED <<scans, fatal>>, work'.cb \in {None, work.cb}
      PROVE  ScansOwned'
  BY <1>c, CalmOwned
<1>1. CASE PropagateStarting \/ PropagateRoaming \/ UserAnswers
  <2>1. UNCHANGED <<monVars, work, fatal>>
    BY <1>1 DEF PropagateStarting, PropagateRoaming, UserAnswers, AnswerStarting, AnswerRoaming
  <2>2. \/ UNCHANGED sess
        \/ \E c \in Sessions : \E ans : StartingResponse(c, ans) \/ RoamingResponse(c, ans)
    BY <1>1, HeadDialogs
       DEF PropagateStarting, PropagateRoaming, UserAnswers, AnswerStarting, AnswerRoaming
  <2>3. \A d \in Sessions : Holds(d)
    BY <2>2, AnsweringHolds DEF Holds
  <2> QED BY <1>c, <2>1, <2>3 DEF monVars
<1>2. CASE UnblackTemporary
  <2>1. work'.cb = work.cb
    BY <1>2, Here DEF UnblackTemporary, MPMInv, TypeOK
  <2> QED BY <1>c, <1>2, <2>1 DEF UnblackTemporary, monVars, Holds
<1>3. ASSUME NEW c \in Sessions, SendPrefIAPNotification(c) PROVE ScansOwned'
  <2>1. \A d \in Sessions : Holds(d)
    BY <1>0, <1>3, OfferingTurns, TurnsHold
  <2>2. work'.cb = work.cb
    BY <1>3 DEF SendPrefIAPNotification, MPMInv, TypeOK
  <2> QED BY <1>c, <1>3, <2>1, <2>2 DEF SendPrefIAPNotification, monVars
<1>4. ASSUME NEW c \in Sessions, ReadNotification(c) \/ ReadReply(c) PROVE ScansOwned'
  <2>0. sess[c] \in Session
    BY <1>0 DEF NodesOK
  <2>1. \A r \in {[sess[c] EXCEPT !.note = None, !.wait = TRUE], [sess[c] EXCEPT !.reply = "none"]} :
          r.perr = sess[c].perr /\ r.open = sess[c].open
    BY <2>0 DEF Session
  <2>2. \/ sess' = [sess EXCEPT ![c] = [sess[c] EXCEPT !.note = None, !.wait = TRUE]]
        \/ sess' = [sess EXCEPT ![c] = [sess[c] EXCEPT !.reply = "none"]]
    BY <1>0, <1>4 DEF ReadNotification, ReadReply, NodesOK
  <2>3. \A d \in Sessions : Holds(d)
    BY <1>0, <2>1, <2>2, HandledHolds
  <2> QED BY <1>c, <1>4, <2>3 DEF ReadNotification, ReadReply, monVars
<1>5. CASE DataUsageChanged
  <2>1. \A d \in Sessions : Holds(d)
    BY <1>0, <1>5, StoppedHolds DEF DataUsageChanged
  <2> QED BY <1>c, <1>5, <2>1 DEF DataUsageChanged, monVars
<1>6. CASE Environment
  <2>1. ASSUME NEW S, AvailabilityEvent(S)
        PROVE  UNCHANGED <<sess, scans, fatal>> /\ work'.cb \in {None, work.cb}
    BY <2>1 DEF AvailabilityEvent, IapAvailabilityChange
  <2>2. ASSUME NEW S, ObsoleteScanDone(S)
        PROVE  UNCHANGED <<sess, scans, fatal>> /\ work'.cb \in {None, work.cb}
    BY <2>2 DEF ObsoleteScanDone
  <2>3. ASSUME NEW u, UserSetsUsage(u)
        PROVE  UNCHANGED <<sess, scans, fatal>> /\ work'.cb \in {None, work.cb}
    BY <2>3 DEF UserSetsUsage, monVars
  <2> QED BY <1>c, <1>6, <2>1, <2>2, <2>3 DEF Environment, Holds
<1>7. CASE PermQueryTimerExpires \/ UNCHANGED vars
  BY <1>c, <1>7 DEF PermQueryTimerExpires, vars, monVars, Holds
<1> QED BY <1>1, <1>2, <1>3, <1>4, <1>5, <1>6, <1>7, CallbackOwned, RequestOwned, EndOwned
        DEF Next, Internal

\* The server never calls back a session that has closed and never answers an error
\* message that is gone, as long as no session has two scans in progress; with two,
\* CancelScan, which removes the first of them, leaves one behind.
THEOREM ServerSurvivesHolds ==
  ASSUME Disciplined PROVE Spec /\ []OneScanEach => []ServerSurvives
<1>1. Init => ScansOwned
  <2> SUFFICES ASSUME Init PROVE ScansOwned
    OBVIOUS
  <2>1. scans = <<>> /\ work.cb = None /\ fatal = "none"
    BY DEF Init, NoWork
  <2>2. DOMAIN scans = {}
    BY <2>1
  <2> QED BY <2>1, <2>2 DEF ScansOwned
<1>2. MPMInv /\ ScansOwned /\ OneScanEach /\ [Next]_vars => ScansOwned'
  BY NextOwned
<1>3. ScansOwned => ServerSurvives
  BY DEF ScansOwned, ServerSurvives
<1> QED BY <1>1, <1>2, <1>3, Invariant, PTL DEF Spec

==============================================================================
