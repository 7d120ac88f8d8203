--------------------------- MODULE ConnMonTableProofs ---------------------------
(***************************************************************************)
(* Proofs about the Connection Monitor server's table of connections       *)
(* (ConnMonConnections) under all that ConnMonRequests does with it: there *)
(* is one record for an access point, a listening session is told of each  *)
(* deletion before the record goes, and it is told once.                   *)
(***************************************************************************)
EXTENDS ConnMonRequests, FiniteSetTheorems, SequenceTheorems, TLAPS

\* The two notifiers of a record come and go together.
Recs == {r \in Records : r.progress = "none" <=> r.sub = "none"}

IsTable(table) ==
  /\ table = [id \in DOMAIN table |-> table[id]]
  /\ IsFiniteSet(DOMAIN table)
  /\ \A id \in DOMAIN table : table[id] \in Recs

\* What handlers make of a table when they tell the deletions of some ids: no
\* record is new or another access point's, none loses its notifiers, and a
\* record's deletion counts as told, or the record goes, exactly when it was
\* told before or is told now. Nothing is told twice.
Develops(before, after, toldNow) ==
  /\ IsTable(after)
  /\ DOMAIN after \subseteq DOMAIN before
  /\ \A id \in DOMAIN after :
       /\ after[id].iap = before[id].iap
       /\ after[id].progress = "none" => before[id].progress = "none"
       /\ after[id].deleteSent <=> before[id].deleteSent \/ id \in toldNow
  /\ \A id \in DOMAIN before \ DOMAIN after : before[id].deleteSent \/ id \in toldNow
  /\ \A id \in toldNow : id \in DOMAIN before /\ ~before[id].deleteSent

\* The steps of the table alone.
ConnNext ==
  \/ Network
  \/ InterfaceUp
  \/ InterfaceDown
  \/ \E id \in DOMAIN iConnInfos :
       Progress(id) \/ ProgressFails(id) \/ SubConnectionClosed(id) \/ SubConnectionNotReady(id)
  \/ Clients

LEMMA TableSteps == Next => ConnNext \/ UNCHANGED connVars
PROOF
  <1> SUFFICES ASSUME Next PROVE ConnNext \/ UNCHANGED connVars
    OBVIOUS
  <1>1. CASE TableStep
    BY <1>1 DEF TableStep, ConnNext, UpOfInterface, ProgressOf, Others, Adding, Clients
  <1>2. CASE Asking
    BY <1>2 DEF Asking, AskVolume, AskActivity, AskStop, AskStopAll, StopNow, Cancel
  <1>3. CASE Operations
    BY <1>3 DEF Operations, VolumeIsKnown, ActivityIsKnown, ActivityChanges, TimerExpires, StopEnds
  <1> QED
    BY <1>1, <1>2, <1>3 DEF Next

---------------------------------------------------------------------------------
(* What the operators make of a table *)

LEMMA NothingDevelops ==
  ASSUME NEW table, IsTable(table)
  PROVE  Develops(table, table, {})
PROOF
  BY DEF Develops

LEMMA DevelopsOn ==
  ASSUME NEW a, NEW b, NEW c, NEW ids,
         IsTable(a), Develops(a, b, {}), Develops(b, c, ids)
  PROVE  Develops(a, c, ids)
PROOF
  BY DEF Develops

\* One record changes, but not in what Develops looks at.
LEMMA UpdateDevelops ==
  ASSUME NEW table, IsTable(table), NEW id \in DOMAIN table, NEW rec \in Recs,
         rec.iap = table[id].iap, rec.deleteSent = table[id].deleteSent,
         rec.progress = "none" => table[id].progress = "none"
  PROVE  Develops(table, [table EXCEPT ![id] = rec], {})
PROOF
  BY DEF Develops, IsTable

LEMMA WithoutDevelops ==
  ASSUME NEW table, IsTable(table), NEW ids \in SUBSET DOMAIN table, NEW toldNow,
         toldNow = {id \in ids : ~table[id].deleteSent}
  PROVE  Develops(table, Without(table, ids), toldNow)
PROOF
  <1>1. IsFiniteSet(DOMAIN table \ ids)
    BY FS_Difference DEF IsTable
  <1> QED
    BY <1>1 DEF Develops, IsTable, Without

LEMMA AfterSendDevelops ==
  ASSUME NEW table, IsTable(table), NEW id \in DOMAIN table
  PROVE  Develops(table, AfterSend(table, id), Sends(table, id))
PROOF
  <1>1. CASE table[id].deleteSent
    BY <1>1, NothingDevelops DEF AfterSend, Sends
  <1>2. CASE ~table[id].deleteSent /\ table[id].interfaceClosed
    <2>1. Develops(table, Without(table, {id}), {id})
      BY <1>2, WithoutDevelops
    <2> QED
      BY <1>2, <2>1 DEF AfterSend, Sends, Dropped
  <1>3. CASE ~table[id].deleteSent /\ ~table[id].interfaceClosed
    <2>1. [table[id] EXCEPT !.deleteSent = TRUE] \in Recs
      BY DEF IsTable, Recs, Records
    <2> QED
      BY <1>3, <2>1 DEF AfterSend, Sends, Dropped, Develops, IsTable, Recs, Records
  <1> QED
    BY <1>1, <1>2, <1>3

LEMMA NotifiersKeep ==
  ASSUME NEW rec \in Recs, NEW filter \in {NoFiltering} \cup Stages
  PROVE  LET new == WithNotifiers(rec, filter)
         IN  /\ new \in Recs
             /\ new.progress # "none"
             /\ new.iap = rec.iap
             /\ new.deleteSent = rec.deleteSent
PROOF
  <1>1. CASE rec.progress # "none"
    BY <1>1 DEF WithNotifiers
  <1>2. CASE rec.progress = "none"
    BY <1>2 DEF WithNotifiers, Recs, Records
  <1> QED
    BY <1>1, <1>2

\* The network's part of the types.
NetTypes == starts \in [Iaps -> 0..MaxStarts] /\ stage \in [Iaps -> Stages]

LEMMA NotifiersDevelop ==
  ASSUME NetTypes, NEW table, IsTable(table)
  PROVE  /\ Develops(table, AllWithNotifiers(table), {})
         /\ \A id \in DOMAIN table : AllWithNotifiers(table)[id].progress # "none"
PROOF
  <1>1. ASSUME NEW id \in DOMAIN table
        PROVE  StatusOf(table[id]) \in Stages
    BY <1>1 DEF StatusOf, IsTable, Recs, Records, Stages, None, NetTypes, LinkLayerClosed
  <1> DEFINE Turned(id) == WithNotifiers(table[id], StatusOf(table[id]))
  <1>2. ASSUME NEW id \in DOMAIN table
        PROVE  /\ Turned(id) \in Recs
               /\ Turned(id).progress # "none"
               /\ Turned(id).iap = table[id].iap
               /\ Turned(id).deleteSent = table[id].deleteSent
    BY <1>1, <1>2, NotifiersKeep DEF IsTable
  <1>3. AllWithNotifiers(table) = [id \in DOMAIN table |-> Turned(id)]
    BY DEF AllWithNotifiers
  <1> HIDE DEF Turned
  <1> QED
    BY <1>2, <1>3 DEF Develops, IsTable

---------------------------------------------------------------------------------
(* The invariant *)

\* While somebody listens every record has its notifiers.
AllNotified == listening # {} => \A id \in DOMAIN iConnInfos : iConnInfos[id].progress # "none"

\* What a listening session heard of is in the table and not yet told to be
\* deleted.
HeardIsThere ==
  \A s \in listening : \A id \in told[s] :
    id \in DOMAIN iConnInfos /\ ~iConnInfos[id].deleteSent

\* What it was told to be deleted is gone, or its record says so; and no id is
\* given again.
DeletedIsMarked ==
  \A s \in listening, id \in Ids : deleted[s][id] > 0 =>
    /\ id <= iIdCounter
    /\ deleted[s][id] = 1
    /\ id \in DOMAIN iConnInfos => iConnInfos[id].deleteSent

TableTypes ==
  /\ NetTypes
  /\ updown \in Seq(Reports)
  /\ IsTable(iConnInfos)
  /\ iIdCounter \in Nat
  /\ listening \subseteq Sessions
  /\ told \in [Sessions -> SUBSET Nat]
  /\ deleted \in [Sessions -> [Ids -> 0..2]]

\* Ids are given in order.
TableInv ==
  /\ TableTypes
  /\ DOMAIN iConnInfos \subseteq 1..iIdCounter
  /\ OneRecordPerIap
  /\ AllNotified
  /\ HeardIsThere
  /\ DeletedIsMarked

LEMMA InitTable == Init => TableInv
PROOF
  <1> SUFFICES ASSUME Init PROVE TableInv
    OBVIOUS
  <1>1. DOMAIN iConnInfos = {} /\ iConnInfos = [id \in DOMAIN iConnInfos |-> iConnInfos[id]]
    BY DEF Init, ConnInit
  <1>2. IsTable(iConnInfos)
    BY <1>1, FS_EmptySet DEF IsTable
  <1>3. deleted \in [Sessions -> [Ids -> 0..2]]
    BY DEF Init, ConnInit
  <1>4. NetTypes /\ updown \in Seq(Reports)
    BY StartsAssumption DEF Init, ConnInit, NetTypes, Stages, None, LinkLayerClosed
  <1> QED
    BY <1>1, <1>2, <1>3, <1>4
    DEF TableInv, TableTypes, Init, ConnInit, OneRecordPerIap, AllNotified, HeardIsThere,
        DeletedIsMarked

\* A handler that tells the deletions it makes, and may use up an id.
LEMMA TellingKeeps ==
  ASSUME TableInv, NEW ids, Develops(iConnInfos, iConnInfos', ids),
         Tell({}, ids), UNCHANGED listening, iIdCounter' \in {iIdCounter, iIdCounter + 1},
         NetTypes', updown' \in Seq(Reports)
  PROVE  TableInv'
PROOF
  <1>0. iIdCounter \in Nat /\ iIdCounter' \in Nat /\ iIdCounter <= iIdCounter'
    BY DEF TableInv, TableTypes
  <1>1. OneRecordPerIap'
    BY DEF TableInv, Develops, OneRecordPerIap
  <1>2. DOMAIN iConnInfos' \subseteq 1..iIdCounter'
    BY <1>0 DEF TableInv, Develops
  <1>3. told' \in [Sessions -> SUBSET Nat]
    BY DEF TableInv, TableTypes, Tell
  <1>4. deleted' \in [Sessions -> [Ids -> 0..2]]
    <2>1. \A n \in 0..2 : Counted(n) \in 0..2
      BY DEF Counted
    <2> QED
      BY <2>1 DEF TableInv, TableTypes, Tell
  <1>5. AllNotified'
    BY DEF TableInv, Develops, AllNotified
  <1>6. ASSUME NEW s \in listening', NEW id \in told'[s]
        PROVE  id \in DOMAIN iConnInfos' /\ ~iConnInfos'[id].deleteSent
    <2>1. s \in listening /\ s \in Sessions
      BY <1>6 DEF TableInv, TableTypes
    <2>2. told'[s] = told[s] \ ids
      BY <2>1 DEF Tell
    <2> QED
      BY <1>6, <2>1, <2>2 DEF TableInv, Develops, HeardIsThere
  <1>7. ASSUME NEW s \in listening', NEW id \in Ids, deleted'[s][id] > 0
        PROVE  /\ id <= iIdCounter'
               /\ deleted'[s][id] = 1
               /\ id \in DOMAIN iConnInfos' => iConnInfos'[id].deleteSent
    <2>1. s \in listening /\ s \in Sessions
      BY <1>7 DEF TableInv, TableTypes
    <2>2. deleted'[s][id] = IF id \in ids THEN Counted(deleted[s][id]) ELSE deleted[s][id]
      BY <2>1 DEF Tell
    <2>3. deleted[s][id] \in 0..2
      BY <2>1 DEF TableInv, TableTypes
    <2>4. CASE id \in ids
      <3>1. id \in DOMAIN iConnInfos /\ ~iConnInfos[id].deleteSent
        BY <2>4 DEF Develops
      <3>2. deleted[s][id] = 0
        BY <2>1, <2>3, <3>1 DEF TableInv, DeletedIsMarked
      <3>3. id <= iIdCounter
        BY <3>1 DEF TableInv
      <3>4. id \in Nat
        BY <3>1, <1>0 DEF TableInv
      <3> QED
        BY <1>0, <2>2, <2>4, <3>2, <3>3, <3>4 DEF Counted, Develops
    <2>5. CASE id \notin ids
      <3>1. id <= iIdCounter /\ deleted[s][id] = 1
        BY <1>7, <2>1, <2>2, <2>5 DEF TableInv, DeletedIsMarked
      <3>2. id \in DOMAIN iConnInfos' => iConnInfos'[id].deleteSent
        BY <1>7, <2>1, <2>2, <2>5 DEF TableInv, Develops, DeletedIsMarked
      <3>3. id \in Int
        BY <1>7, StartsAssumption DEF Ids
      <3> QED
        BY <1>0, <2>2, <2>5, <3>1, <3>2, <3>3
    <2> QED
      BY <2>4, <2>5
  <1> QED
    BY <1>1, <1>2, <1>3, <1>4, <1>5, <1>6, <1>7
    DEF TableInv, TableTypes, HeardIsThere, DeletedIsMarked, Develops

\* One that tells nothing.
LEMMA SilentKeeps ==
  ASSUME TableInv, Develops(iConnInfos, iConnInfos', {}),
         UNCHANGED <<iIdCounter, listening, told, deleted>>,
         NetTypes', updown' \in Seq(Reports)
  PROVE  TableInv'
PROOF
  <1>1. OneRecordPerIap'
    BY DEF TableInv, Develops, OneRecordPerIap
  <1>2. AllNotified' /\ HeardIsThere' /\ DeletedIsMarked'
    BY DEF TableInv, Develops, AllNotified, HeardIsThere, DeletedIsMarked
  <1> QED
    BY <1>1, <1>2 DEF TableInv, TableTypes, Develops

\* While nobody listens nobody hears, and records go silently.
LEMMA UnheardKeeps ==
  ASSUME TableInv, listening' = {}, IsTable(iConnInfos'),
         DOMAIN iConnInfos' \subseteq DOMAIN iConnInfos,
         \A id \in DOMAIN iConnInfos' : iConnInfos'[id].iap = iConnInfos[id].iap,
         told' \in [Sessions -> SUBSET Nat], deleted' \in [Sessions -> [Ids -> 0..2]],
         UNCHANGED iIdCounter, NetTypes', updown' \in Seq(Reports)
  PROVE  TableInv'
PROOF
  <1>1. OneRecordPerIap'
    BY DEF TableInv, OneRecordPerIap
  <1> QED
    BY <1>1 DEF TableInv, TableTypes, AllNotified, HeardIsThere, DeletedIsMarked

LEMMA TellTypes ==
  ASSUME TableTypes, NEW new \in SUBSET Nat, NEW ids, Tell(new, ids)
  PROVE  told' \in [Sessions -> SUBSET Nat] /\ deleted' \in [Sessions -> [Ids -> 0..2]]
PROOF
  <1>1. \A n \in 0..2 : Counted(n) \in 0..2
    BY DEF Counted
  <1>2. told' \in [Sessions -> SUBSET Nat]
    BY DEF TableTypes, Tell
  <1>3. deleted' \in [Sessions -> [Ids -> 0..2]]
    BY <1>1 DEF TableTypes, Tell
  <1> QED
    BY <1>2, <1>3

---------------------------------------------------------------------------------
(* The steps *)

LEMMA HeardDevelops ==
  ASSUME TableInv, NEW iap \in Iaps, NEW st \in Stages, NEW ends \in BOOLEAN
  PROVE  Develops(iConnInfos, Heard(iap, st, ends), {})
PROOF
  <1> DEFINE Turned(id) == [iConnInfos[id] EXCEPT !.stages = Append(@, st), !.closed = @ \/ ends]
  <1>1. ASSUME NEW id \in DOMAIN iConnInfos
        PROVE  /\ Turned(id) \in Recs
               /\ Turned(id).iap = iConnInfos[id].iap
               /\ Turned(id).progress = iConnInfos[id].progress
               /\ Turned(id).deleteSent = iConnInfos[id].deleteSent
    <2>1. iConnInfos[id] \in Recs
      BY <1>1 DEF TableInv, TableTypes, IsTable
    <2>2. Append(iConnInfos[id].stages, st) \in Seq(Stages)
      BY <2>1 DEF Recs, Records
    <2>3. (iConnInfos[id].closed \/ ends) \in BOOLEAN
      OBVIOUS
    <2> QED
      BY <2>1, <2>2, <2>3 DEF Recs, Records
  <1>2. Heard(iap, st, ends) =
          [id \in DOMAIN iConnInfos |->
             IF iConnInfos[id].iap # iap \/ iConnInfos[id].start # starts[iap]
               THEN iConnInfos[id] ELSE Turned(id)]
    BY DEF Heard
  <1> HIDE DEF Turned
  <1> QED
    BY <1>1, <1>2 DEF TableInv, TableTypes, IsTable, Develops

LEMMA NetworkKeeps ==
  ASSUME TableInv, Network
  PROVE  TableInv'
PROOF
  <1> PICK iap \in Iaps :
        StartInterface(iap) \/ OpenLink(iap) \/ CloseLink(iap) \/ StopInterface(iap)
    BY DEF Network
  <1>0. /\ starts \in [Iaps -> 0..MaxStarts]
        /\ stage \in [Iaps -> Stages]
        /\ updown \in Seq(Reports)
        /\ \A st \in {None, Starting, LinkLayerOpen, LinkLayerClosed} : st \in Stages
    BY DEF TableInv, TableTypes, NetTypes, Stages, None, Starting, LinkLayerOpen, LinkLayerClosed
  <1>1. NetTypes'
    <2>1. CASE StartInterface(iap)
      BY <1>0, <2>1, StartsAssumption DEF NetTypes, StartInterface
    <2>2. CASE OpenLink(iap)
      BY <1>0, <2>2 DEF NetTypes, OpenLink
    <2>3. CASE CloseLink(iap)
      BY <1>0, <2>3 DEF NetTypes, CloseLink
    <2>4. CASE StopInterface(iap)
      BY <1>0, <2>4 DEF NetTypes, StopInterface
    <2> QED
      BY <2>1, <2>2, <2>3, <2>4
  <1>2. updown' \in Seq(Reports)
    <2>1. ASSUME NEW state \in {"up", "down"}, Report(iap, state)
          PROVE  updown' \in Seq(Reports)
      <3>1. [iap |-> iap, state |-> state] \in Reports
        BY DEF Reports
      <3>2. Append(updown, [iap |-> iap, state |-> state]) \in Seq(Reports)
        BY <1>0, <3>1
      <3> QED
        BY <1>0, <2>1, <3>2 DEF Report
    <2> QED
      BY <1>0, <2>1 DEF StartInterface, OpenLink, CloseLink, StopInterface
  <1>3. Develops(iConnInfos, iConnInfos', {})
    <2>1. CASE UNCHANGED iConnInfos
      BY <2>1, NothingDevelops DEF TableInv, TableTypes
    <2>2. CASE OpenLink(iap)
      <3>1. Develops(iConnInfos, Heard(iap, LinkLayerOpen, FALSE), {})
        BY <1>0, HeardDevelops
      <3> QED
        BY <2>2, <3>1 DEF OpenLink
    <2>3. CASE CloseLink(iap)
      <3> DEFINE ends == stage[iap] = LinkLayerOpen
      <3>1. ends \in BOOLEAN
        OBVIOUS
      <3> HIDE DEF ends
      <3>2. Develops(iConnInfos, Heard(iap, LinkLayerClosed, ends), {})
        BY <1>0, <3>1, HeardDevelops
      <3> QED
        BY <2>3, <3>2 DEF CloseLink, ends
    <2> QED
      BY <2>1, <2>2, <2>3 DEF StartInterface, StopInterface
  <1>4. UNCHANGED <<iIdCounter, listening, told, deleted>>
    BY DEF StartInterface, OpenLink, CloseLink, StopInterface, UnchangedByNet, ghosts
  <1> QED
    BY <1>1, <1>2, <1>3, <1>4, SilentKeeps

LEMMA HandledTypes ==
  ASSUME TableInv, NEW state, Handled(state), UpDownKeeps
  PROVE  NetTypes' /\ updown' \in Seq(Reports) /\ Head(updown).iap \in Iaps
PROOF
  <1>1. updown' \in Seq(Reports) /\ Head(updown) \in Reports
    BY DEF TableInv, TableTypes, Handled
  <1>2. NetTypes'
    BY DEF TableInv, TableTypes, NetTypes, UpDownKeeps, netVars
  <1> QED
    BY <1>1, <1>2 DEF Reports

LEMMA RecordIsNew ==
  ASSUME NetTypes, NEW iap \in Iaps
  PROVE  /\ RecordOf(iap) \in Recs
         /\ RecordOf(iap).iap = iap
         /\ RecordOf(iap).deleteSent = FALSE
PROOF
  <1>1. starts[iap] \in 0..MaxStarts /\ None \in Stages /\ <<>> \in Seq(Stages)
    BY DEF NetTypes, None, Stages, LinkLayerClosed
  <1> QED
    BY <1>1 DEF RecordOf, Recs, Records

\* One that tells deletions and adds a record for the next id.
LEMMA AddingKeeps ==
  ASSUME TableInv, NEW left, NEW gone, Develops(iConnInfos, left, gone),
         NEW new \in Recs, ~new.deleteSent,
         listening # {} => new.progress # "none",
         \A id \in DOMAIN left : left[id].iap # new.iap,
         iIdCounter' = iIdCounter + 1,
         iConnInfos' = [id \in DOMAIN left \cup {iIdCounter'} |->
                          IF id = iIdCounter' THEN new ELSE left[id]],
         Tell({iIdCounter'}, gone), UNCHANGED listening,
         NetTypes', updown' \in Seq(Reports)
  PROVE  TableInv'
PROOF
  <1> DEFINE c == iIdCounter'
  <1>1. /\ iIdCounter \in Nat /\ c \in Nat /\ c = iIdCounter + 1
        /\ c \notin DOMAIN iConnInfos /\ c \notin DOMAIN left
    BY DEF TableInv, TableTypes, Develops
  <1>2. /\ DOMAIN iConnInfos' = DOMAIN left \cup {c}
        /\ iConnInfos'[c] = new
        /\ \A id \in DOMAIN left : iConnInfos'[id] = left[id]
    BY <1>1
  <1>3. IsTable(iConnInfos')
    <2>1. IsFiniteSet(DOMAIN left \cup {c})
      BY FS_AddElement DEF Develops, IsTable
    <2>2. \A id \in DOMAIN iConnInfos' : iConnInfos'[id] \in Recs
      BY <1>2 DEF Develops, IsTable
    <2> QED
      BY <1>2, <2>1, <2>2 DEF IsTable
  <1>4. DOMAIN iConnInfos' \subseteq 1..c
    BY <1>1, <1>2 DEF TableInv, Develops
  <1>5. OneRecordPerIap'
    <2>1. \A i, j \in DOMAIN left : left[i].iap = left[j].iap => i = j
      BY DEF TableInv, Develops, OneRecordPerIap
    <2> QED
      BY <1>1, <1>2, <2>1 DEF OneRecordPerIap
  <1>6. AllNotified'
    BY <1>1, <1>2 DEF TableInv, Develops, AllNotified
  <1>7. told' \in [Sessions -> SUBSET Nat] /\ deleted' \in [Sessions -> [Ids -> 0..2]]
    <2>1. {c} \in SUBSET Nat
      BY <1>1
    <2> QED
      BY <2>1, TellTypes DEF TableInv
  <1>8. ASSUME NEW s \in listening', NEW id \in told'[s]
        PROVE  id \in DOMAIN iConnInfos' /\ ~iConnInfos'[id].deleteSent
    <2>1. s \in listening /\ s \in Sessions
      BY <1>8 DEF TableInv, TableTypes
    <2>2. told'[s] = (told[s] \ gone) \cup {c}
      BY <2>1 DEF Tell
    <2>3. CASE id = c
      BY <1>2, <2>3
    <2>4. CASE id \in told[s] \ gone
      <3>1. id \in DOMAIN left /\ ~left[id].deleteSent
        BY <2>1, <2>4 DEF TableInv, Develops, HeardIsThere
      <3> QED
        BY <1>2, <3>1
    <2> QED
      BY <1>8, <2>2, <2>3, <2>4
  <1>9. ASSUME NEW s \in listening', NEW id \in Ids, deleted'[s][id] > 0
        PROVE  /\ id <= iIdCounter'
               /\ deleted'[s][id] = 1
               /\ id \in DOMAIN iConnInfos' => iConnInfos'[id].deleteSent
    <2>1. s \in listening /\ s \in Sessions
      BY <1>9 DEF TableInv, TableTypes
    <2>2. deleted'[s][id] = IF id \in gone THEN Counted(deleted[s][id]) ELSE deleted[s][id]
      BY <2>1 DEF Tell
    <2>3. deleted[s][id] \in 0..2
      BY <2>1 DEF TableInv, TableTypes
    <2>4. CASE id \in gone
      <3>1. id \in DOMAIN iConnInfos /\ ~iConnInfos[id].deleteSent
        BY <2>4 DEF Develops
      <3>2. deleted[s][id] = 0
        BY <2>1, <2>3, <3>1 DEF TableInv, DeletedIsMarked
      <3>3. id \in Nat /\ id <= iIdCounter
        BY <1>1, <3>1 DEF TableInv
      <3>4. id \in DOMAIN left => left[id].deleteSent
        BY <2>4 DEF Develops
      <3>5. deleted'[s][id] = 1
        BY <2>2, <2>4, <3>2 DEF Counted
      <3> QED
        BY <1>1, <1>2, <3>3, <3>4, <3>5
    <2>5. CASE id \notin gone
      <3>1. /\ id <= iIdCounter /\ deleted[s][id] = 1
            /\ id \in DOMAIN iConnInfos => iConnInfos[id].deleteSent
        BY <1>9, <2>1, <2>2, <2>5 DEF TableInv, DeletedIsMarked
      <3>2. id \in DOMAIN left => left[id].deleteSent
        BY <3>1 DEF Develops
      <3>3. id \in Int
        BY <1>9, StartsAssumption DEF Ids
      <3> QED
        BY <1>1, <1>2, <2>2, <2>5, <3>1, <3>2, <3>3
    <2> QED
      BY <2>4, <2>5
  <1> QED
    BY <1>1, <1>3, <1>4, <1>5, <1>6, <1>7, <1>8, <1>9
    DEF TableInv, TableTypes, HeardIsThere, DeletedIsMarked

LEMMA UpKeeps ==
  ASSUME TableInv, InterfaceUp
  PROVE  TableInv'
PROOF
  <1> DEFINE iap == Head(updown).iap
             ids == Closing(iap)
             gone == ClosingTells(iap)
             left == Without(iConnInfos, ids)
  <1>1. NetTypes' /\ updown' \in Seq(Reports) /\ iap \in Iaps /\ UNCHANGED listening
    BY HandledTypes DEF InterfaceUp, UpDownKeeps
  <1>2. Develops(iConnInfos, left, gone)
    <2>1. gone = {id \in ids : ~iConnInfos[id].deleteSent}
      BY DEF ClosingTells, Sends
    <2>2. ids \in SUBSET DOMAIN iConnInfos /\ IsTable(iConnInfos)
      BY DEF Closing, OfIap, TableInv, TableTypes
    <2> QED
      BY <2>1, <2>2, WithoutDevelops
  <1>3. CASE UpCrashes(iap)
    BY <1>1, <1>3, NothingDevelops, SilentKeeps
    DEF UpCrashes, TellNothing, TableInv, TableTypes
  <1>4. CASE UpFails(iap)
    <2>1. /\ iIdCounter' \in {iIdCounter, iIdCounter + 1}
          /\ Develops(iConnInfos, iConnInfos', gone)
          /\ Tell({}, gone)
      BY <1>2, <1>4 DEF UpFails
    <2> HIDE DEF gone
    <2> QED
      BY <1>1, <2>1, TellingKeeps
  <1>5. CASE UpAdds(iap)
    <2> DEFINE new == IF listening # {} THEN WithNotifiers(RecordOf(iap), NoFiltering)
                      ELSE RecordOf(iap)
    <2>1. /\ new \in Recs
          /\ new.iap = iap
          /\ ~new.deleteSent
          /\ listening # {} => new.progress # "none"
      <3> DEFINE rec == RecordOf(iap)
                 noted == WithNotifiers(rec, NoFiltering)
      <3>1. rec \in Recs /\ rec.iap = iap /\ rec.deleteSent = FALSE
        BY <1>1, RecordIsNew DEF TableInv, TableTypes
      <3> HIDE DEF rec
      <3>2. /\ noted \in Recs /\ noted.progress # "none"
            /\ noted.iap = iap /\ noted.deleteSent = FALSE
        BY <3>1, NotifiersKeep
      <3> HIDE DEF noted
      <3> QED
        BY <3>1, <3>2 DEF rec, noted
    <2>2. \A id \in DOMAIN left : left[id].iap # iap
      BY DEF Without, Closing, OfIap
    <2>3. /\ iIdCounter' = iIdCounter + 1
          /\ Tell({iIdCounter'}, gone)
          /\ iConnInfos' = [id \in DOMAIN left \cup {iIdCounter'} |->
                              IF id = iIdCounter' THEN new ELSE left[id]]
      BY <1>5 DEF UpAdds, Added
    <2> HIDE DEF new, left, gone
    <2> QED
      BY <1>1, <1>2, <2>1, <2>2, <2>3, AddingKeeps
  <1> QED
    BY <1>3, <1>4, <1>5 DEF InterfaceUp

\* The record of the interface that is down.
LEMMA DownDevelops ==
  ASSUME TableInv, NEW iap \in Iaps, listening # {}
  PROVE  LET ids == OfIap(iConnInfos, iap)
         IN  Develops(iConnInfos,
                      IF ids = {} THEN iConnInfos
                      ELSE AfterDown(iConnInfos, CHOOSE id \in ids : TRUE),
                      DownTells(iap))
PROOF
  <1> DEFINE ids == OfIap(iConnInfos, iap)
             id == CHOOSE i \in ids : TRUE
             rec == iConnInfos[id]
             known == [iConnInfos EXCEPT ![id].interfaceClosed = TRUE]
  <1>1. IsTable(iConnInfos) /\ ids \subseteq DOMAIN iConnInfos
    BY DEF TableInv, TableTypes, OfIap
  <1>2. CASE ids = {}
    BY <1>1, <1>2, NothingDevelops DEF DownTells
  <1>3. CASE ids # {}
    <2>1. id \in ids /\ ids = {id}
      BY <1>3 DEF OfIap, TableInv, OneRecordPerIap
    <2>2. DownTells(iap) = IF rec.linkLayerClosed THEN Sends(iConnInfos, id) ELSE {}
      BY <2>1 DEF DownTells
    <2> HIDE DEF id, ids
    <2>3. id \in DOMAIN iConnInfos /\ rec \in Recs
      BY <1>1, <2>1 DEF IsTable
    <2>4. Develops(iConnInfos, known, {})
      <3>1. [rec EXCEPT !.interfaceClosed = TRUE] \in Recs
        BY <2>3 DEF Recs, Records
      <3>2. /\ [rec EXCEPT !.interfaceClosed = TRUE].iap = rec.iap
            /\ [rec EXCEPT !.interfaceClosed = TRUE].deleteSent = rec.deleteSent
            /\ [rec EXCEPT !.interfaceClosed = TRUE].progress = rec.progress
        BY <2>3 DEF Recs, Records
      <3>3. known = [iConnInfos EXCEPT ![id] = [rec EXCEPT !.interfaceClosed = TRUE]]
        OBVIOUS
      <3> HIDE DEF known
      <3> QED
        BY <1>1, <2>3, <3>1, <3>2, <3>3, UpdateDevelops
    <2>5. IsTable(known) /\ id \in DOMAIN known
      BY <2>3, <2>4 DEF Develops
    <2>6. Sends(known, id) = Sends(iConnInfos, id)
      BY <2>3 DEF Sends, Recs, Records
    <2>7. CASE rec.deleteSent
      <3>1. Develops(iConnInfos, Without(iConnInfos, {id}), {})
        BY <1>1, <2>3, <2>7, WithoutDevelops
      <3> QED
        BY <1>3, <2>2, <2>7, <3>1 DEF AfterDown, Sends, id, ids
    <2>8. CASE ~rec.deleteSent /\ rec.linkLayerClosed
      <3>1. Develops(known, AfterSend(known, id), Sends(known, id))
        BY <2>5, AfterSendDevelops
      <3>2. Develops(iConnInfos, AfterSend(known, id), Sends(iConnInfos, id))
        BY <1>1, <2>4, <2>6, <3>1, DevelopsOn
      <3> QED
        BY <1>3, <2>2, <2>8, <3>2 DEF AfterDown, id, ids
    <2>9. CASE ~rec.deleteSent /\ ~rec.linkLayerClosed
      BY <1>3, <2>2, <2>4, <2>9 DEF AfterDown, id, ids
    <2> QED
      BY <2>7, <2>8, <2>9
  <1> QED
    BY <1>2, <1>3

LEMMA DownKeeps ==
  ASSUME TableInv, InterfaceDown
  PROVE  TableInv'
PROOF
  <1> DEFINE iap == Head(updown).iap
             ids == OfIap(iConnInfos, iap)
  <1>1. NetTypes' /\ updown' \in Seq(Reports) /\ iap \in Iaps
    BY HandledTypes DEF InterfaceDown
  <1>2. /\ UNCHANGED <<iIdCounter, listening>>
        /\ Tell({}, DownTells(iap))
        /\ iConnInfos' = IF ids = {} THEN iConnInfos
                         ELSE AfterDown(iConnInfos, CHOOSE id \in ids : TRUE)
    BY DEF InterfaceDown, UpDownKeeps
  <1> HIDE DEF iap
  <1>3. CASE listening # {}
    <2>1. Develops(iConnInfos, iConnInfos', DownTells(iap))
      BY <1>1, <1>2, <1>3, DownDevelops
    <2>2. iIdCounter' \in {iIdCounter, iIdCounter + 1}
      BY <1>2
    <2> QED
      BY <1>1, <1>2, <2>1, <2>2, TellingKeeps
  <1>4. CASE listening = {}
    <2> DEFINE left == iConnInfos'
    <2>1. IsTable(iConnInfos)
      BY DEF TableInv, TableTypes
    <2>2. PICK gone \in SUBSET DOMAIN iConnInfos : iConnInfos' = Without(iConnInfos, gone)
      <3>1. CASE ids = {}
        <4>1. iConnInfos = Without(iConnInfos, {})
          BY <2>1 DEF IsTable, Without
        <4> QED
          BY <1>2, <3>1, <4>1
      <3>2. CASE ids # {}
        BY <1>2, <1>4, <3>2 DEF AfterDown, OfIap
      <3> QED
        BY <3>1, <3>2
    <2>3. Develops(iConnInfos, Without(iConnInfos, gone), {id \in gone : ~iConnInfos[id].deleteSent})
      BY <2>1, WithoutDevelops
    <2>4. told' \in [Sessions -> SUBSET Nat] /\ deleted' \in [Sessions -> [Ids -> 0..2]]
      BY <1>2, TellTypes DEF TableInv
    <2>5. /\ IsTable(iConnInfos')
          /\ DOMAIN iConnInfos' \subseteq DOMAIN iConnInfos
          /\ \A id \in DOMAIN iConnInfos' : iConnInfos'[id].iap = iConnInfos[id].iap
      BY <2>2, <2>3 DEF Develops
    <2> QED
      BY <1>1, <1>2, <1>4, <2>4, <2>5, UnheardKeeps
  <1> QED
    BY <1>3, <1>4

\* CProgressNotifier leaves a record its access point and its notifiers.
LEMMA StageKeeps ==
  ASSUME NEW rec \in Recs, rec.stages # <<>>
  PROVE  LET new == AfterStage(rec, Head(rec.stages))
         IN  /\ new \in Recs
             /\ new.progress = rec.progress
             /\ new.iap = rec.iap
             /\ new.deleteSent = rec.deleteSent
PROOF
  <1> DEFINE st == Head(rec.stages)
             taken == [rec EXCEPT !.stages = Tail(@), !.last = st]
             passed == [taken EXCEPT !.filter = NoFiltering]
             Same(r) == /\ r \in Recs
                        /\ r.progress = rec.progress
                        /\ r.iap = rec.iap
                        /\ r.deleteSent = rec.deleteSent
  <1>1. st \in Stages /\ Tail(rec.stages) \in Seq(Stages)
    BY DEF Recs, Records
  <1> HIDE DEF st
  <1>2. Same(taken)
    BY <1>1 DEF Recs, Records
  <1>3. Same(passed)
    BY <1>2 DEF Recs, Records
  <1> HIDE DEF taken, passed
  <1>4. Same(AfterOpen(passed))
    <2>1. CASE passed.sub = "idle"
      BY <1>3, <2>1 DEF AfterOpen, Recs, Records
    <2>2. CASE passed.sub = "disconnected"
      BY <1>3, <2>2 DEF AfterOpen, Recs, Records
    <2> QED
      BY <1>3, <2>1, <2>2 DEF AfterOpen
  <1>5. Same(AfterClosed(passed))
    BY <1>3 DEF AfterClosed, Recs, Records
  <1>6. AfterStage(rec, st) \in {taken, passed, AfterOpen(passed), AfterClosed(passed)}
    BY DEF AfterStage, taken, passed
  <1> HIDE DEF Same
  <1>7. Same(AfterStage(rec, st))
    BY <1>2, <1>3, <1>4, <1>5, <1>6
  <1> QED
    BY <1>7 DEF Same, st

\* A change of one record, after which its deletion may be told.
LEMMA EndingDevelops ==
  ASSUME NEW table, IsTable(table), NEW id \in DOMAIN table, NEW rec \in Recs,
         rec.iap = table[id].iap, rec.deleteSent = table[id].deleteSent,
         rec.progress = "none" => table[id].progress = "none",
         NEW now, now = [table EXCEPT ![id] = rec]
  PROVE  /\ Develops(table, now, {})
         /\ Develops(table, AfterSend(now, id), Sends(now, id))
PROOF
  <1>1. Develops(table, now, {})
    BY UpdateDevelops
  <1>2. IsTable(now) /\ id \in DOMAIN now
    BY <1>1 DEF Develops
  <1>3. Develops(now, AfterSend(now, id), Sends(now, id))
    BY <1>2, AfterSendDevelops
  <1> QED
    BY <1>1, <1>3, DevelopsOn

LEMMA ProgressKeeps ==
  ASSUME TableInv, NEW id \in DOMAIN iConnInfos, Progress(id)
  PROVE  TableInv'
PROOF
  <1> DEFINE rec == iConnInfos[id]
             st == Head(rec.stages)
             new == AfterStage(rec, st)
             resting == [new EXCEPT !.progress = "idle"]
             now == [iConnInfos EXCEPT ![id] = new]
             idle == [iConnInfos EXCEPT ![id] = resting]
             ends == /\ st = LinkLayerClosed
                     /\ IsNews(rec, st) /\ PassesFilter(rec, st)
                     /\ rec.interfaceClosed
  <1>1. IsTable(iConnInfos) /\ rec \in Recs
    BY DEF TableInv, TableTypes, IsTable
  <1>2. rec.progress = "active" /\ rec.stages # <<>>
    BY DEF Progress
  <1>3. /\ new \in Recs
        /\ new.progress = rec.progress
        /\ new.iap = rec.iap
        /\ new.deleteSent = rec.deleteSent
    BY <1>1, <1>2, StageKeeps
  <1>4. /\ iConnInfos' = IF ends THEN AfterSend([now EXCEPT ![id].progress = "idle"], id) ELSE now
        /\ Tell({}, IF ends THEN Sends(now, id) ELSE {})
        /\ NotifierKeeps
    BY DEF Progress
  <1>5. [now EXCEPT ![id].progress = "idle"] = idle
    BY <1>1
  <1> HIDE DEF new, ends, st
  <1>6. /\ resting \in Recs
        /\ resting.progress = "idle"
        /\ resting.iap = rec.iap
        /\ resting.deleteSent = rec.deleteSent
    BY <1>2, <1>3 DEF Recs, Records
  <1>7. Sends(now, id) = Sends(idle, id)
    BY <1>3, <1>6 DEF Sends
  <1> HIDE DEF resting
  <1>8. Develops(iConnInfos, now, {})
    BY <1>1, <1>3, EndingDevelops
  <1>9. Develops(iConnInfos, AfterSend(idle, id), Sends(idle, id))
    BY <1>1, <1>2, <1>6, EndingDevelops
  <1>10. Develops(iConnInfos, iConnInfos', IF ends THEN Sends(now, id) ELSE {})
    BY <1>4, <1>5, <1>7, <1>8, <1>9
  <1>11. NetTypes' /\ updown' \in Seq(Reports) /\ UNCHANGED <<iIdCounter, listening>>
    BY <1>4 DEF NotifierKeeps, netVars, TableInv, TableTypes, NetTypes
  <1> HIDE DEF now
  <1> QED
    BY <1>4, <1>10, <1>11, TellingKeeps

LEMMA ProgressFailsKeeps ==
  ASSUME TableInv, NEW id \in DOMAIN iConnInfos, ProgressFails(id)
  PROVE  TableInv'
PROOF
  <1> DEFINE rec == iConnInfos[id]
             new == [rec EXCEPT !.progress = "idle"]
  <1>1. IsTable(iConnInfos) /\ rec \in Recs
    BY DEF TableInv, TableTypes, IsTable
  <1>2. rec.progress = "active"
    BY DEF ProgressFails
  <1>3. new \in Recs /\ new.progress = "idle" /\ new.iap = rec.iap
        /\ new.deleteSent = rec.deleteSent
    BY <1>1, <1>2 DEF Recs, Records
  <1>4. iConnInfos' = [iConnInfos EXCEPT ![id] = new] /\ TellNothing /\ NotifierKeeps
    BY DEF ProgressFails
  <1> HIDE DEF new
  <1>5. Develops(iConnInfos, iConnInfos', {})
    BY <1>1, <1>2, <1>3, <1>4, UpdateDevelops
  <1>6. /\ NetTypes' /\ updown' \in Seq(Reports)
        /\ UNCHANGED <<iIdCounter, listening, told, deleted>>
    BY <1>4 DEF NotifierKeeps, TellNothing, netVars, TableInv, TableTypes, NetTypes
  <1> QED
    BY <1>5, <1>6, SilentKeeps

LEMMA SubEndsKeeps ==
  ASSUME TableInv, NEW id \in DOMAIN iConnInfos, NEW sub \in {"idle", "disconnected"},
         iConnInfos[id].sub = "active", SubEnds(id, sub), NotifierKeeps
  PROVE  TableInv'
PROOF
  <1> DEFINE rec == iConnInfos[id]
             new == [rec EXCEPT !.sub = sub, !.closed = FALSE]
             now == [iConnInfos EXCEPT ![id] = new]
             ends == rec.progress # "active"
  <1>1. IsTable(iConnInfos) /\ rec \in Recs
    BY DEF TableInv, TableTypes, IsTable
  <1>2. /\ new \in Recs
        /\ new.progress = rec.progress
        /\ new.iap = rec.iap
        /\ new.deleteSent = rec.deleteSent
    BY <1>1 DEF Recs, Records
  <1>3. [iConnInfos EXCEPT ![id].sub = sub, ![id].closed = FALSE] = now
    BY <1>1
  <1>4. /\ iConnInfos' = IF ends THEN AfterSend(now, id) ELSE now
        /\ Tell({}, IF ends THEN Sends(now, id) ELSE {})
    BY <1>3 DEF SubEnds
  <1> HIDE DEF new
  <1>5. /\ Develops(iConnInfos, now, {})
        /\ Develops(iConnInfos, AfterSend(now, id), Sends(now, id))
    BY <1>1, <1>2, EndingDevelops
  <1>6. Develops(iConnInfos, iConnInfos', IF ends THEN Sends(now, id) ELSE {})
    BY <1>4, <1>5
  <1>7. NetTypes' /\ updown' \in Seq(Reports) /\ UNCHANGED <<iIdCounter, listening>>
    BY DEF NotifierKeeps, netVars, TableInv, TableTypes, NetTypes
  <1> HIDE DEF now
  <1> QED
    BY <1>4, <1>6, <1>7, TellingKeeps

\* A session that starts or stops listening has heard of nothing.
LEMMA FreshKeeps ==
  ASSUME TableInv, NEW s \in Sessions, Develops(iConnInfos, iConnInfos', {}),
         AllNotified', listening' \in SUBSET Sessions, listening' \ {s} \subseteq listening,
         told' = [told EXCEPT ![s] = {}],
         deleted' = [deleted EXCEPT ![s] = [id \in Ids |-> 0]],
         UNCHANGED iIdCounter, NetTypes', updown' \in Seq(Reports)
  PROVE  TableInv'
PROOF
  <1>1. told' \in [Sessions -> SUBSET Nat] /\ deleted' \in [Sessions -> [Ids -> 0..2]]
    BY DEF TableInv, TableTypes
  <1>2. OneRecordPerIap'
    BY DEF TableInv, Develops, OneRecordPerIap
  <1>3. ASSUME NEW t \in listening'
        PROVE  IF t = s THEN told'[t] = {} /\ \A id \in Ids : deleted'[t][id] = 0
               ELSE t \in listening /\ told'[t] = told[t] /\ deleted'[t] = deleted[t]
    BY DEF TableInv, TableTypes
  <1>4. HeardIsThere'
    BY <1>3 DEF TableInv, Develops, HeardIsThere
  <1>5. DeletedIsMarked'
    BY <1>3 DEF TableInv, Develops, DeletedIsMarked
  <1> QED
    BY <1>1, <1>2, <1>4, <1>5 DEF TableInv, TableTypes, Develops

\* The interfaces that exist are reported in some order.
LEMMA OrderExists ==
  ASSUME NEW iaps, IsFiniteSet(iaps)
  PROVE  InSomeOrder(iaps) \in Seq([iap : iaps, state : {"up"}])
PROOF
  <1> DEFINE N == Cardinality(iaps)
             R == [iap : iaps, state : {"up"}]
  <1>1. N \in Nat /\ ExistsBijection(1..N, iaps)
    BY FS_CardinalityType
  <1>2. PICK f \in [1..N -> iaps] : \A iap \in iaps : \E n \in 1..N : f[n] = iap
    BY <1>1 DEF ExistsBijection, Bijection, Surjection, Injection
  <1> DEFINE q == [n \in 1..N |-> [iap |-> f[n], state |-> "up"]]
  <1>3. q \in [1..N -> R] /\ \A iap \in iaps : \E n \in DOMAIN q : q[n].iap = iap
    BY <1>2
  <1>4. InSomeOrder(iaps) \in [1..N -> R]
    BY <1>3 DEF InSomeOrder
  <1> HIDE DEF N, R
  <1>5. [1..N -> R] \subseteq Seq(R)
    BY <1>1
  <1> QED
    BY <1>4, <1>5 DEF R

\* Listening, or asking for the table, sets the interface notifier going.
LEMMA WatchTypes ==
  ASSUME TableInv, Watch
  PROVE  updown' \in Seq(Reports)
PROOF
  <1>1. CASE watching
    BY <1>1 DEF Watch, TableInv, TableTypes
  <1>2. CASE ~watching
    <2>1. IsFiniteSet(Present)
      BY IapsAssumption, FS_Subset DEF Present
    <2>2. updown' \in Seq([iap : Present, state : {"up"}])
      BY <1>2, <2>1, OrderExists DEF Watch
    <2> DEFINE R == [iap : Present, state : {"up"}]
    <2>3. R \subseteq Reports
      BY DEF Present, Reports
    <2> HIDE DEF R
    <2>4. Seq(R) \subseteq Seq(Reports)
      BY <2>3
    <2> QED
      BY <2>2, <2>4 DEF R
  <1> QED
    BY <1>1, <1>2

LEMMA ListenKeeps ==
  ASSUME TableInv, NEW s \in Sessions, Listen(s)
  PROVE  TableInv'
PROOF
  <1>1. /\ updown' \in Seq(Reports)
        /\ NetTypes'
    BY WatchTypes DEF Listen, netVars, TableInv, TableTypes, NetTypes
  <1>2. /\ Develops(iConnInfos, AllWithNotifiers(iConnInfos), {})
        /\ \A id \in DOMAIN iConnInfos : AllWithNotifiers(iConnInfos)[id].progress # "none"
    BY NotifiersDevelop DEF TableInv, TableTypes
  <1>3. iConnInfos' = AllWithNotifiers(iConnInfos)
    BY DEF Listen
  <1>4. Develops(iConnInfos, iConnInfos', {}) /\ AllNotified'
    BY <1>2, <1>3 DEF AllNotified, Develops
  <1> QED
    BY <1>1, <1>4, FreshKeeps DEF Listen, TableInv, TableTypes

LEMMA CancelListenKeeps ==
  ASSUME TableInv, NEW s \in Sessions, CancelListen(s)
  PROVE  TableInv'
PROOF
  <1>1. /\ updown' \in Seq(Reports)
        /\ NetTypes'
    BY DEF CancelListen, netVars, TableInv, TableTypes, NetTypes
  <1>2. IsTable(iConnInfos)
    BY DEF TableInv, TableTypes
  <1>3. CASE listening' # {}
    <2>1. Develops(iConnInfos, iConnInfos', {})
      BY <1>2, <1>3, NothingDevelops DEF CancelListen, AfterCancel
    <2>2. AllNotified'
      BY <1>3 DEF CancelListen, AfterCancel, TableInv, AllNotified
    <2> QED
      BY <1>1, <2>1, <2>2, FreshKeeps DEF CancelListen, TableInv, TableTypes
  <1>4. CASE listening' = {}
    <2>1. iConnInfos' = [id \in DOMAIN iConnInfos |-> WithoutNotifiers(iConnInfos[id])]
      BY <1>4 DEF CancelListen, AfterCancel
    <2>2. ASSUME NEW rec \in Recs
          PROVE  WithoutNotifiers(rec) \in Recs /\ WithoutNotifiers(rec).iap = rec.iap
      <3>1. None \in Stages
        BY DEF None, Stages, LinkLayerClosed
      <3> QED
        BY <3>1 DEF WithoutNotifiers, Recs, Records
    <2>3. /\ IsTable(iConnInfos')
          /\ DOMAIN iConnInfos' \subseteq DOMAIN iConnInfos
          /\ \A id \in DOMAIN iConnInfos' : iConnInfos'[id].iap = iConnInfos[id].iap
      BY <1>2, <2>1, <2>2 DEF IsTable
    <2>4. told' \in [Sessions -> SUBSET Nat] /\ deleted' \in [Sessions -> [Ids -> 0..2]]
      BY DEF CancelListen, TableInv, TableTypes
    <2> QED
      BY <1>1, <1>4, <2>3, <2>4, UnheardKeeps DEF CancelListen
  <1> QED
    BY <1>3, <1>4

\* Asking for the table removes what is obsolete and makes the notifiers of the
\* rest.
LEMMA CleanedDevelops ==
  ASSUME TableInv, listening # {}
  PROVE  /\ Develops(iConnInfos, Cleaned(iConnInfos), {})
         /\ \A id \in DOMAIN Cleaned(iConnInfos) : Cleaned(iConnInfos)[id].progress # "none"
PROOF
  <1> DEFINE gone == Obsolete(iConnInfos)
             kept == Without(iConnInfos, gone)
  <1>1. IsTable(iConnInfos) /\ NetTypes /\ gone \in SUBSET DOMAIN iConnInfos
    BY DEF TableInv, TableTypes, Obsolete
  <1>2. \A id \in gone : iConnInfos[id].deleteSent
    BY DEF Obsolete, TableInv, TableTypes, IsTable, AllNotified, Recs, Records
  <1>3. Develops(iConnInfos, kept, {})
    <2>1. {} = {id \in gone : ~iConnInfos[id].deleteSent}
      BY <1>2
    <2> HIDE DEF gone
    <2> QED
      BY <1>1, <2>1, WithoutDevelops
  <1> HIDE DEF kept
  <1>4. /\ Develops(kept, AllWithNotifiers(kept), {})
        /\ \A id \in DOMAIN kept : AllWithNotifiers(kept)[id].progress # "none"
    BY <1>1, <1>3, NotifiersDevelop DEF Develops
  <1>5. Cleaned(iConnInfos) = AllWithNotifiers(kept)
    BY DEF Cleaned, kept
  <1>6. Develops(iConnInfos, AllWithNotifiers(kept), {})
    BY <1>1, <1>3, <1>4, DevelopsOn
  <1>7. DOMAIN AllWithNotifiers(kept) \subseteq DOMAIN kept
    BY <1>4 DEF Develops
  <1> QED
    BY <1>4, <1>5, <1>6, <1>7

LEMMA EnumerateKeeps ==
  ASSUME TableInv, NEW s \in Sessions, Enumerate(s)
  PROVE  TableInv'
PROOF
  <1>1. /\ updown' \in Seq(Reports)
        /\ NetTypes'
        /\ UNCHANGED <<iIdCounter, listening, deleted>>
        /\ iConnInfos' = Cleaned(iConnInfos)
    BY WatchTypes DEF Enumerate, netVars, TableInv, TableTypes, NetTypes
  <1>2. IsTable(iConnInfos) /\ iIdCounter \in Nat /\ told \in [Sessions -> SUBSET Nat]
    BY DEF TableInv, TableTypes
  <1>3. CASE listening = {}
    <2>1. Obsolete(iConnInfos) \in SUBSET DOMAIN iConnInfos
      BY DEF Obsolete
    <2>2. iConnInfos' = Without(iConnInfos, Obsolete(iConnInfos))
      BY <1>1, <1>3 DEF Cleaned
    <2>3. PICK gone : Develops(iConnInfos, iConnInfos', gone)
      BY <1>2, <2>1, <2>2, WithoutDevelops
    <2>4. told' = told /\ deleted' \in [Sessions -> [Ids -> 0..2]]
      BY <1>1, <1>3 DEF Enumerate, TableInv, TableTypes
    <2> QED
      BY <1>1, <1>2, <1>3, <2>3, <2>4, UnheardKeeps DEF Develops
  <1>4. CASE listening # {}
    <2>1. /\ Develops(iConnInfos, iConnInfos', {})
          /\ \A id \in DOMAIN iConnInfos' : iConnInfos'[id].progress # "none"
      BY <1>1, <1>4, CleanedDevelops
    <2>2. Listed(iConnInfos') \subseteq DOMAIN iConnInfos'
      BY DEF Listed
    <2>3. DOMAIN iConnInfos' \subseteq 1..iIdCounter'
      BY <1>1, <2>1 DEF TableInv, Develops
    <2>4. told' \in [Sessions -> SUBSET Nat]
      BY <1>1, <1>2, <2>2, <2>3 DEF Enumerate
    <2>5. ASSUME NEW t \in listening'
          PROVE  told'[t] \subseteq told[t] \cup Listed(iConnInfos')
      BY <1>1, <1>2 DEF Enumerate, TableInv, TableTypes
    <2>6. HeardIsThere'
      BY <1>1, <2>1, <2>5 DEF TableInv, Develops, HeardIsThere, Listed
    <2>7. OneRecordPerIap' /\ AllNotified' /\ DeletedIsMarked'
      BY <1>1, <2>1 DEF TableInv, Develops, OneRecordPerIap, AllNotified, DeletedIsMarked
    <2> QED
      BY <1>1, <2>1, <2>3, <2>4, <2>6, <2>7 DEF TableInv, TableTypes, Develops
  <1> QED
    BY <1>3, <1>4

---------------------------------------------------------------------------------
(* The theorems *)

LEMMA NextKeeps == TableInv /\ [Next]_allVars => TableInv'
PROOF
  <1> SUFFICES ASSUME TableInv, [Next]_allVars PROVE TableInv'
    OBVIOUS
  <1>1. CASE UNCHANGED connVars
    BY <1>1
    DEF connVars, netVars, ghosts, TableInv, TableTypes, NetTypes, OneRecordPerIap,
        AllNotified, HeardIsThere, DeletedIsMarked
  <1>2. CASE ConnNext
    <2>1. CASE Network
      BY <2>1, NetworkKeeps
    <2>2. CASE InterfaceUp
      BY <2>2, UpKeeps
    <2>3. CASE InterfaceDown
      BY <2>3, DownKeeps
    <2>4. ASSUME NEW id \in DOMAIN iConnInfos, Progress(id)
          PROVE  TableInv'
      BY <2>4, ProgressKeeps
    <2>5. ASSUME NEW id \in DOMAIN iConnInfos, ProgressFails(id)
          PROVE  TableInv'
      BY <2>5, ProgressFailsKeeps
    <2>6. ASSUME NEW id \in DOMAIN iConnInfos, SubConnectionClosed(id)
          PROVE  TableInv'
      BY <2>6, SubEndsKeeps DEF SubConnectionClosed
    <2>7. ASSUME NEW id \in DOMAIN iConnInfos, SubConnectionNotReady(id)
          PROVE  TableInv'
      BY <2>7, SubEndsKeeps DEF SubConnectionNotReady
    <2>8. ASSUME NEW s \in Sessions, Listen(s) \/ CancelListen(s) \/ Enumerate(s)
          PROVE  TableInv'
      BY <2>8, ListenKeeps, CancelListenKeeps, EnumerateKeeps
    <2> QED
      BY <1>2, <2>1, <2>2, <2>3, <2>4, <2>5, <2>6, <2>7, <2>8 DEF ConnNext, Clients
  <1>3. Next => ConnNext \/ UNCHANGED connVars
    BY TableSteps
  <1> QED
    BY <1>1, <1>2, <1>3 DEF allVars

LEMMA TableAlways == Spec => []TableInv
PROOF
  BY InitTable, NextKeeps, PTL DEF Spec

\* What else has a type.
RestTypes ==
  /\ watching \in BOOLEAN
  /\ iIdCounter \in {0} \cup Ids
  /\ told \in [Sessions -> SUBSET Ids]
  /\ forgotten \subseteq Ids
  /\ failed \subseteq Ids
  /\ crashed \in BOOLEAN

LEMMA IdsAreGiven ==
  ASSUME NEW c \in {0} \cup Ids
  PROVE  1..c \subseteq Ids
PROOF
  <1>1. Cardinality(Iaps) \in Nat
    BY IapsAssumption, FS_CardinalityType
  <1>2. MaxStarts * Cardinality(Iaps) \in Nat
    BY <1>1, StartsAssumption
  <1> QED
    BY <1>2 DEF Ids

LEMMA RestAlways == Spec => []RestTypes
PROOF
  <1>1. Init => RestTypes
    BY DEF Init, ConnInit, RestTypes
  <1>2. TableInv /\ TableInv' /\ RestTypes /\ [Next]_allVars => RestTypes'
    <2> SUFFICES ASSUME TableInv, TableInv', RestTypes, [Next]_allVars PROVE RestTypes'
      OBVIOUS
    <2>1. DOMAIN iConnInfos \subseteq Ids
      BY IdsAreGiven DEF TableInv, RestTypes
    <2>2. iIdCounter' \in {0} \cup Ids => DOMAIN iConnInfos' \subseteq Ids
      BY IdsAreGiven DEF TableInv
    <2>3. ASSUME NEW new \in SUBSET Ids, NEW gone, Tell(new, gone)
          PROVE  told' \in [Sessions -> SUBSET Ids]
      BY <2>3 DEF RestTypes, Tell
    <2>4. CASE Network
      BY <2>4
      DEF Network, StartInterface, OpenLink, CloseLink, StopInterface, UnchangedByNet, ghosts,
          RestTypes
    <2>5. CASE InterfaceUp
      <3>1. iIdCounter + 1 \in Ids
        BY <2>5 DEF InterfaceUp
      <3>2. iIdCounter' \in {0} \cup Ids
        BY <2>5, <3>1 DEF InterfaceUp, UpCrashes, UpFails, UpAdds, RestTypes
      <3>3. told' \in [Sessions -> SUBSET Ids]
        BY <2>3, <2>5, <3>1
        DEF InterfaceUp, UpCrashes, UpFails, UpAdds, TellNothing, RestTypes
      <3>4. /\ forgotten' \subseteq forgotten \cup {iIdCounter + 1}
            /\ crashed' \in BOOLEAN
        BY <2>5 DEF InterfaceUp, UpCrashes, UpFails, UpAdds, RestTypes
      <3> QED
        BY <2>5, <3>1, <3>2, <3>3, <3>4 DEF InterfaceUp, UpDownKeeps, RestTypes
    <2>6. CASE InterfaceDown
      BY <2>3, <2>6 DEF InterfaceDown, UpDownKeeps, RestTypes
    <2>7. ASSUME NEW id \in DOMAIN iConnInfos,
                 Progress(id) \/ ProgressFails(id) \/ SubConnectionClosed(id)
                   \/ SubConnectionNotReady(id)
          PROVE  RestTypes'
      BY <2>1, <2>3, <2>7
      DEF Progress, ProgressFails, SubConnectionClosed, SubConnectionNotReady, SubEnds,
          NotifierKeeps, TellNothing, RestTypes
    <2>8. ASSUME NEW s \in Sessions, Listen(s) \/ CancelListen(s) \/ Enumerate(s)
          PROVE  RestTypes'
      <3>1. CASE Listen(s)
        BY <2>1, <3>1 DEF Listen, Watch, Missed, RestTypes
      <3>2. CASE CancelListen(s)
        BY <2>1, <3>2 DEF CancelListen, RestTypes
      <3>3. CASE Enumerate(s)
        <4>1. /\ iIdCounter' \in {0} \cup Ids
              /\ watching' \in BOOLEAN
              /\ failed' \subseteq Ids
              /\ crashed' \in BOOLEAN
          BY <3>3 DEF Enumerate, Watch, RestTypes
        <4>2. Listed(iConnInfos') \subseteq Ids
          BY <2>2, <4>1 DEF Listed
        <4>3. told' \in [Sessions -> SUBSET Ids]
          BY <3>3, <4>2 DEF Enumerate, RestTypes
        <4>4. forgotten' \subseteq Ids
          BY <2>1, <3>3 DEF Enumerate, Missed, RestTypes
        <4> QED
          BY <4>1, <4>3, <4>4 DEF RestTypes
      <3> QED
        BY <2>8, <3>1, <3>2, <3>3
    <2>9. ConnNext => RestTypes'
      BY <2>4, <2>5, <2>6, <2>7, <2>8 DEF ConnNext, Clients
    <2>10. UNCHANGED connVars => RestTypes'
      BY DEF connVars, ghosts, RestTypes
    <2> QED
      BY <2>9, <2>10, TableSteps DEF allVars
  <1> QED
    BY <1>1, <1>2, TableAlways, PTL DEF Spec

\* The table, the notifiers and the reports have their types.
LEMMA ConnTypes == TableInv /\ RestTypes => ConnTypeOK
PROOF
  BY IdsAreGiven
  DEF TableInv, TableTypes, NetTypes, IsTable, Recs, RestTypes, ConnTypeOK

\* There is one record for an access point, whatever interfaces come and go
\* (AddConnectionL).
THEOREM OneRecord == Spec => []OneRecordPerIap
PROOF
  <1>1. TableInv => OneRecordPerIap
    BY DEF TableInv
  <1> QED
    BY <1>1, TableAlways, PTL

\* What a listening session heard of leaves the table only with its deletion
\* told (SendDeletedEvent and what removes records without it).
THEOREM DeletionsAreTold == Spec => []GoneIsTold
PROOF
  <1>1. TableInv => GoneIsTold
    BY DEF TableInv, HeardIsThere, GoneIsTold
  <1> QED
    BY <1>1, TableAlways, PTL

\* Nothing was told to a session that does not listen.
Quiet == \A s \in Sessions \ listening, id \in Ids : deleted[s][id] = 0

LEMMA QuietAlways == Spec => []Quiet
PROOF
  <1>1. Init => Quiet
    BY DEF Init, ConnInit, Quiet
  <1>2. TableInv /\ Quiet /\ [Next]_allVars => Quiet'
    <2> SUFFICES ASSUME TableInv, Quiet, [Next]_allVars PROVE Quiet'
      OBVIOUS
    <2>1. deleted \in [Sessions -> [Ids -> 0..2]]
      BY DEF TableInv, TableTypes
    <2>2. CASE UNCHANGED <<listening, deleted>>
      BY <2>2 DEF Quiet
    <2>3. ASSUME NEW new, NEW gone, Tell(new, gone), UNCHANGED listening
          PROVE  Quiet'
      BY <2>1, <2>3 DEF Tell, Quiet
    <2>4. ASSUME NEW s \in Sessions, listening \subseteq listening' \cup {s},
                 deleted' = [deleted EXCEPT ![s] = [id \in Ids |-> 0]]
          PROVE  Quiet'
      BY <2>1, <2>4 DEF Quiet
    <2>5. CASE Network
      BY <2>2, <2>5
      DEF Network, StartInterface, OpenLink, CloseLink, StopInterface, UnchangedByNet, ghosts
    <2>6. CASE InterfaceUp
      BY <2>2, <2>3, <2>6 DEF InterfaceUp, UpCrashes, UpFails, UpAdds, UpDownKeeps, TellNothing
    <2>7. CASE InterfaceDown
      BY <2>3, <2>7 DEF InterfaceDown, UpDownKeeps
    <2>8. ASSUME NEW id \in DOMAIN iConnInfos,
                 Progress(id) \/ ProgressFails(id) \/ SubConnectionClosed(id)
                   \/ SubConnectionNotReady(id)
          PROVE  Quiet'
      BY <2>2, <2>3, <2>8
      DEF Progress, ProgressFails, SubConnectionClosed, SubConnectionNotReady, SubEnds,
          NotifierKeeps, TellNothing
    <2>9. ASSUME NEW s \in Sessions, Listen(s) \/ CancelListen(s) \/ Enumerate(s)
          PROVE  Quiet'
      <3>1. CASE Listen(s)
        BY <2>4, <3>1 DEF Listen
      <3>2. CASE CancelListen(s)
        BY <2>4, <3>2 DEF CancelListen
      <3>3. CASE Enumerate(s)
        BY <2>2, <3>3 DEF Enumerate
      <3> QED
        BY <2>9, <3>1, <3>2, <3>3
    <2>10. ConnNext => Quiet'
      BY <2>5, <2>6, <2>7, <2>8, <2>9 DEF ConnNext, Clients
    <2>11. UNCHANGED connVars => Quiet'
      BY <2>2 DEF connVars, ghosts
    <2> QED
      BY <2>10, <2>11, TableSteps DEF allVars
  <1> QED
    BY <1>1, <1>2, TableAlways, PTL DEF Spec

\* And it is told once, whichever of the notifiers tells it (iDeleteSent).
THEOREM DeletionsAreToldOnce == Spec => []DeletedOnce
PROOF
  <1>1. TableInv /\ Quiet => DeletedOnce
    <2> SUFFICES ASSUME TableInv, Quiet, NEW s \in Sessions, NEW id \in Ids
                 PROVE  deleted[s][id] < 2
      BY DEF DeletedOnce
    <2>1. deleted[s][id] \in 0..2
      BY DEF TableInv, TableTypes
    <2>2. CASE s \in listening
      BY <2>1, <2>2 DEF TableInv, DeletedIsMarked
    <2>3. CASE s \notin listening
      BY <2>3 DEF Quiet
    <2> QED
      BY <2>2, <2>3
  <1> QED
    BY <1>1, TableAlways, QuietAlways, PTL
=================================================================================
