------------------------------ MODULE CmmServer ------------------------------
(***************************************************************************)
(* The Connection Method Manager server: the process through which every   *)
(* application reads and edits the connection methods (CMs, "access        *)
(* points") and the destinations (ordered groups of CMs) of the phone.     *)
(*                                                                         *)
(* CommsDat holds the saved CMs and destinations.  The server keeps a      *)
(* mapping of what is in CommsDat (CCmmInstanceMapping), and a cache       *)
(* (CCmmCache) with one reference-counted structure for each CM and        *)
(* destination that some client has a handle to.  Each session owns its    *)
(* handles, and each handle its own copy of the data, which a client edits *)
(* and then saves.  An object that is deleted while others still hold it   *)
(* stays in CommsDat, hidden from the mapping, until its last handle goes. *)
(*                                                                         *)
(* The server is one thread that serves a message at a time: each action   *)
(* is one message, one notification or one disturbance from outside.  The  *)
(* disturbances of a behaviour, and the requests its clients make, are     *)
(* given by the scenario.                                                  *)
(*                                                                         *)
(* Left out: names, icons, metadata, protection and capabilities, bearer   *)
(* priorities, virtual CMs that link to others, CMs and destinations made  *)
(* with an id of the client's choice, and failures of CommsDat.            *)
(***************************************************************************)
EXTENDS Naturals, Sequences, FiniteSets, SequencesExt

CONSTANTS Sessions,   \* client sessions
          Cms,        \* ids CommsDat can give to a saved CM
          Dests,      \* ids CommsDat can give to a saved destination
          MaxTemp,    \* bound: temporary ids handed out before the server restarts
          Values,     \* what a CM's records can say
          NumSlots,   \* bound: destination handles a session can have
          None,       \* no such thing
          Scenarios,  \* names of the scenarios
          Stored,     \* for each scenario, what CommsDat holds at first
          Requests    \* for each scenario, the requests and disturbances

Slots == 1..NumSlots

(* A temporary id is above every id of CommsDat.  CMs and destinations share
   the counter; their temporary ids are told apart here by their parity. *)
KTemporaryIdCounterStart == 100
CmTemp(n)  == KTemporaryIdCounterStart + 2 * n
DstTemp(n) == KTemporaryIdCounterStart + 2 * n + 1
CmTemps    == { CmTemp(n) : n \in 1..MaxTemp }
DstTemps   == { DstTemp(n) : n \in 1..MaxTemp }
CmIds      == Cms \cup CmTemps
DstIds     == Dests \cup DstTemps

ASSUME IdsAreDisjoint == Cms \cup Dests \subseteq 1..99 /\ Cms \cap Dests = {}

(* What CommsDat holds and the mapping shows of a destination. *)
Items == Seq(Cms \cup Dests)

(* The records of a CM and of a destination. *)
Data == [cm : [Cms -> Values \cup {None}], dest : [Dests -> Items \cup {None}]]

(* CCmmConnMethodStruct and CCmmDestinationStruct: the cache's. *)
CmStructs  == [status : {"NotSaved", "Valid", "ToBeDeleted"},
               rec : {"Unsaved", "Loaded", "Expired"},
               ref : 1..Cardinality(Sessions), val : Values, made : BOOLEAN]
DstStructs == [status : {"NotSaved", "Valid", "ToBeDeleted"},
               ref : 1..Cardinality(Sessions), blank : BOOLEAN]

(* CCmmConnMethodInstance and CCmmDestinationInstance: a session's. *)
CmHandles  == [status : {"Valid", "Changed"}, rec : {"Unsaved", "Loaded", "Modified"},
               val : Values]
DstHandles == [id : DstIds, status : {"Valid", "Changed"},
               items : Seq(CmIds \cup DstIds), toDelete : Seq(CmIds)]

ASSUME BoundsAssumption ==
    IsFiniteSet(Sessions) /\ MaxTemp \in Nat /\ NumSlots \in Nat /\ Values # {}
ASSUME NoneIsNothing ==
    None \notin Values \cup Seq(CmIds \cup DstIds) \cup CmStructs \cup DstStructs
                \cup CmHandles \cup DstHandles
ASSUME StoredAssumption == \A sc \in Scenarios : Stored[sc] \subseteq Data

VARIABLES
  scenario,   \* never changes
  db,         \* CommsDat: .cm[c] a value or None, .dest[d] a sequence of items or None
  mapping,    \* CCmmInstanceMapping: .cm a set, .dest[d] a sequence of items or None
  deleted,    \* iDeletedConnMethods and iDeletedDestinations: .cm, .dest
  cms,        \* iConnMethodArray: for each id, the structure or None
  dsts,       \* iDestinationArray: for each id, the structure or None
  cmH,        \* each session's iConnMethodObjects: for each id, the handle or None
  dstH,       \* each session's iDestinationObjects: for each slot, the handle or None
  lastTemp,   \* iCurrentTemporaryId: how many temporary ids were handed out
  notify,     \* CommsDat has a change notification for the server
  sessions,   \* connected sessions
  connected,  \* CMs that carry a connection now (esock, outside the server)
  panicked    \* the server panicked and was started again

vars == << scenario, db, mapping, deleted, cms, dsts, cmH, dstH, lastTemp,
           notify, sessions, connected, panicked >>

Least(S)       == CHOOSE x \in S : \A y \in S : x <= y
Has(q, x)      == q # None /\ x \in ToSet(q)
IsEmbedded(i)  == i \in DstIds

(* The elements of q that are in S, and those that are not in I. *)
Only(q, S) ==
    LET kept[n \in 0..Len(q)] ==
          IF n = 0 THEN << >>
          ELSE IF q[n] \in S THEN Append(kept[n - 1], q[n]) ELSE kept[n - 1]
    IN kept[Len(q)]
Without(q, I) == Only(q, ToSet(q) \ I)

-----------------------------------------------------------------------------
(* The state as one value: a request computes the next one step by step.   *)

World == [db |-> db, mapping |-> mapping, deleted |-> deleted, cms |-> cms,
          dsts |-> dsts, cmH |-> cmH, dstH |-> dstH, lastTemp |-> lastTemp]

Become(w) ==
    /\ db' = w.db /\ mapping' = w.mapping /\ deleted' = w.deleted
    /\ cms' = w.cms /\ dsts' = w.dsts /\ cmH' = w.cmH /\ dstH' = w.dstH
    /\ lastTemp' = w.lastTemp
    /\ notify' = (notify \/ w.db # db)
    /\ UNCHANGED << scenario, sessions, connected, panicked >>

(* What a mapping that is read from CommsDat shows: the records that are   *)
(* not on the lists of deleted ones, and in a destination only items that  *)
(* exist.                                                                  *)
ReadConnMethods(data, del) == { c \in Cms : data.cm[c] # None /\ c \notin del.cm }
ReadDestinations(data, del, cmSet) ==
    LET dstSet   == { d \in Dests : data.dest[d] # None /\ d \notin del.dest }
    IN [d \in Dests |-> IF d \in dstSet THEN Only(data.dest[d], (cmSet \cup dstSet) \ {d})
                       ELSE None]
ReadMapping(data, del) ==
    [cm   |-> ReadConnMethods(data, del),
     dest |-> ReadDestinations(data, del, ReadConnMethods(data, del))]

RefreshMapping(w) == [w EXCEPT !.mapping = ReadMapping(w.db, w.deleted)]

NoStructs(ids) == [i \in ids |-> None]
NothingDeleted == [cm |-> {}, dest |-> {}]

(* A server that has just started on these records. *)
Started(data) ==
    [db |-> data, mapping |-> ReadMapping(data, NothingDeleted),
     deleted |-> NothingDeleted, cms |-> NoStructs(CmIds), dsts |-> NoStructs(DstIds),
     cmH |-> [s \in Sessions |-> NoStructs(CmIds)],
     dstH |-> [s \in Sessions |-> NoStructs(Slots)], lastTemp |-> 0]

Init ==
    /\ scenario \in Scenarios
    /\ \E data \in Stored[scenario] :
         LET w == Started(data)
         IN /\ db = w.db /\ mapping = w.mapping /\ deleted = w.deleted
            /\ cms = w.cms /\ dsts = w.dsts /\ cmH = w.cmH /\ dstH = w.dstH
            /\ lastTemp = w.lastTemp
    /\ notify = FALSE
    /\ sessions = {}
    /\ connected = {}
    /\ panicked = FALSE

(* The server panics: every session loses its handles, an open transaction *)
(* is undone, and the next client starts the server again.                 *)
Panic ==
    LET w == Started(db)
    IN /\ mapping' = w.mapping /\ deleted' = w.deleted /\ cms' = w.cms
       /\ dsts' = w.dsts /\ cmH' = w.cmH /\ dstH' = w.dstH /\ lastTemp' = w.lastTemp
       /\ notify' = FALSE /\ sessions' = {} /\ panicked' = TRUE
       /\ UNCHANGED << scenario, db, connected >>

May(r) == r \in Requests[scenario]

-----------------------------------------------------------------------------
(* Helpers of the sessions and the mapping                                 *)

(* The slots of the handles a session has to a destination: one at most. *)
SlotsOf(w, s, d)   == { k \in Slots : w.dstH[s][k] # None /\ w.dstH[s][k].id = d }
FreeSlots(s)       == { k \in Slots : dstH[s][k] = None }
HasEmbedded(q)     == q # None /\ \E j \in DOMAIN q : IsEmbedded(q[j])

InOtherMapped(m, c, d) == \E e \in Dests \ {d} : Has(m.dest[e], c)

(* CCmmSession::ConnMethodInOtherDestination: for the destination handles of
   the session but those of d, compares c with the items.  For each item of
   the handle in slot k it looks at the item at place k, whatever item it is
   at, and the server panics when the handle has no such place. *)
SessionInOther(w, s, c, d) ==
    LET Other(k)  == w.dstH[s][k] # None /\ w.dstH[s][k].id # d
                     /\ w.dstH[s][k].items # << >>
        Panics(k) == Other(k) /\ k > Len(w.dstH[s][k].items)
        Finds(k)  == Other(k) /\ ~Panics(k) /\ w.dstH[s][k].items[k] = c
        stops     == { k \in Slots : Panics(k) \/ Finds(k) }
    IN CASE stops = {}           -> "no"
         [] Panics(Least(stops)) -> "panic"
         [] OTHER                -> "yes"

(* RefreshHandles in every session: handles to these objects are out of date. *)
\* Mutant: nobody is told.
OutdateNoCms(w, C) == w
OutdateCms(w, C) ==
    [w EXCEPT !.cmH = [s \in Sessions |-> [i \in CmIds |->
        IF i \in C /\ w.cmH[s][i] # None THEN [w.cmH[s][i] EXCEPT !.status = "Changed"]
        ELSE w.cmH[s][i]]]]
OutdateDsts(w, D) ==
    [w EXCEPT !.dstH = [s \in Sessions |-> [k \in Slots |->
        IF w.dstH[s][k] # None /\ w.dstH[s][k].id \in D
        THEN [w.dstH[s][k] EXCEPT !.status = "Changed"] ELSE w.dstH[s][k]]]]

(* CCmmInstanceMapping::RemoveConnMethod, RemoveConnMethodFromDestinations and
   RemoveDestination. *)
Unlist(w, I) ==
    [w EXCEPT !.mapping.dest = [d \in Dests |->
        IF w.mapping.dest[d] = None THEN None ELSE Without(w.mapping.dest[d], I)]]
UnmapCms(w, C) == [Unlist(w, C) EXCEPT !.mapping.cm = w.mapping.cm \ C]
UnmapDst(w, d) == [Unlist(w, {d}) EXCEPT !.mapping.dest[d] = None]
HideCms(w, C)  == [UnmapCms(w, C) EXCEPT !.deleted.cm = w.deleted.cm \cup C]
HideDst(w, d)  == [UnmapDst(w, d) EXCEPT !.deleted.dest = w.deleted.dest \cup {d}]

(* The mapped destinations that list c. *)
Listing(w, c) == { d \in Dests : Has(w.mapping.dest[d], c) }

(* CommsDat without the records that put i in a destination. *)
WithoutItem(data, i) ==
    [data EXCEPT !.dest = [d \in Dests |->
        IF data.dest[d] = None THEN None ELSE Without(data.dest[d], {i})]]

(* Deletes what a cached CM's plug-in holds from CommsDat. *)
DeleteRecord(w, c) == [w EXCEPT !.db.cm[c] = None]

\* Mutant: the CMs stay in the mapping.
MarkedOnly(w, C) ==
    [OutdateCms(w, C) EXCEPT !.cms = [i \in CmIds |->
        IF i \in C THEN [w.cms[i] EXCEPT !.status = "ToBeDeleted"] ELSE w.cms[i]]]

(* These cached CMs are hidden until their last handles close. *)
MarkDeleted(w, C) ==
    [OutdateCms(HideCms(w, C), C) EXCEPT !.cms = [i \in CmIds |->
        IF i \in C THEN [w.cms[i] EXCEPT !.status = "ToBeDeleted"] ELSE w.cms[i]]]

(* iDeletedConnMethods of the cache, once the transaction is committed. *)
AfterDelete(w, C) ==
    LET cached == { c \in C : w.cms[c] # None }
    IN MarkDeleted(UnmapCms(w, C \ cached), cached)

-----------------------------------------------------------------------------
(* Deleting a destination, and closing handles                             *)

\* Mutant: every CM of the destination goes with it.
OwnCmsAll(w, d, ids) ==
    IF ids # << >> /\ IsEmbedded(Last(ids)) THEN Front(ids) ELSE ids

(* DeleteDestinationL with the last handle: deletes the CMs that are in no
   other mapped destination, then the destination.  A CM that is not saved
   makes it leave, and nothing is deleted. *)
OwnCms(w, d, ids) ==
    Only(IF ids # << >> /\ IsEmbedded(Last(ids)) THEN Front(ids) ELSE ids,
         { c \in ToSet(ids) : ~InOtherMapped(w.mapping, c, d) })
WithoutRecords(w, d, erased) ==
    [w EXCEPT !.db = [cm   |-> [c \in Cms |-> IF c \in erased THEN None ELSE w.db.cm[c]],
                      dest |-> [WithoutItem(w.db, d).dest EXCEPT ![d] = None]]]

(* gone are the CMs deleted with d, stored those that are not cached; one that
   is on the list of deleted ones already makes what follows be skipped. *)
DeleteThese(w, d, gone, stored) ==
    LET twice == { j \in DOMAIN gone : gone[j] \notin stored /\ gone[j] \in w.deleted.cm }
        Less(C) == AfterDelete(WithoutRecords(w, d, stored), C)
    IN IF twice # {} THEN Less({ gone[j] : j \in 1..(Least(twice) - 1) })
       ELSE OutdateDsts(UnmapDst(Less(ToSet(gone)), d), {d})
DeleteChosen(w, d, own) ==
    IF \E c \in ToSet(own) \cap CmIds : w.cms[c] # None /\ w.cms[c].status = "NotSaved" THEN w
    ELSE DeleteThese(w, d,
            Only(own, { c \in ToSet(own) : IF w.cms[c] # None THEN w.cms[c].status = "Valid"
                                           ELSE c \in w.mapping.cm }),
            { c \in ToSet(own) \cap w.mapping.cm : w.cms[c] = None })
DeleteWithCms(w, h, ids) == DeleteChosen(w, h.id, OwnCms(w, h.id, ids))

(* CloseDestination, called by the destructor of a handle.  w has neither the
   last handle h nor the structure any more. *)
LastDstClosed(w, h, struct) ==
    IF struct.status # "ToBeDeleted" THEN w
    ELSE [(IF ToSet(h.items) \cap connected # {} THEN w ELSE DeleteWithCms(w, h, h.items))
             EXCEPT !.deleted.dest = w.deleted.dest \ {h.id}]
DstClosed(w, h, struct) ==
    IF struct.ref > 1 THEN [w EXCEPT !.dsts[h.id].ref = struct.ref - 1]
    ELSE LastDstClosed([w EXCEPT !.dsts[h.id] = None], h, struct)
CloseDst(w, s, k) ==
    DstClosed([w EXCEPT !.dstH[s][k] = None], w.dstH[s][k], w.dsts[w.dstH[s][k].id])

(* CloseConnMethod for handles of s: the structure goes with its last handle,
   and a CM that waits for it with its record, unless it is connected. *)
\* Mutant: the last but one handle counts as the last.
LastHandlesEarly(w, C) == { i \in C : w.cms[i].ref <= 2 }
LastHandles(w, C)      == { i \in C : w.cms[i].ref <= 1 }
CloseCms(w, s, C) ==
    LET last == LastHandles(w, C)
        gone == { c \in last : w.cms[c].status = "ToBeDeleted" }
    IN [w EXCEPT !.cmH[s] = [i \in CmIds |-> IF i \in C THEN None ELSE w.cmH[s][i]],
                 !.cms = [i \in CmIds |-> IF i \in last THEN None
                             ELSE IF i \in C THEN [w.cms[i] EXCEPT !.ref = w.cms[i].ref - 1]
                             ELSE w.cms[i]],
                 !.deleted.cm = w.deleted.cm \ gone,
                 !.db.cm = [c \in Cms |-> IF c \in gone \ connected THEN None ELSE w.db.cm[c]]]

(* The destructor of the session closes its destinations, then its CMs. *)
CloseDsts(w, s) ==
    LET closed[k \in 0..NumSlots] ==
          IF k = 0 THEN w
          ELSE IF w.dstH[s][k] = None THEN closed[k - 1] ELSE CloseDst(closed[k - 1], s, k)
    IN closed[NumSlots]
CloseAll(w, s) == CloseCms(CloseDsts(w, s), s, { i \in CmIds : w.cmH[s][i] # None })

-----------------------------------------------------------------------------
(* Saving: UpdateConnMethodL and UpdateDestinationL                        *)
(*                                                                         *)
(* A save in progress is the world so far, .w, with what the cache keeps   *)
(* until the outermost transaction is committed: the ids given to new CMs  *)
(* and destinations, the CMs and destinations saved, and the CMs deleted.  *)

NoIds    == [i \in {} |-> i]
Begin(w) == [ok |-> TRUE, panic |-> FALSE, w |-> w, newCm |-> NoIds, newDst |-> NoIds,
             savedCm |-> {}, savedDst |-> {}, gone |-> {}]
Fail(p)  == [p EXCEPT !.ok = FALSE]

(* The id a new record gets: the first that CommsDat has free. *)
FreeCms(w)   == { c \in Cms : w.db.cm[c] = None }
FreeDests(w) == { d \in Dests : w.db.dest[d] = None }

(* The id that an object has, or the one that was given to it. *)
Real(new, i)   == IF i \in DOMAIN new THEN new[i] ELSE i
Given(new, i, r) == [j \in DOMAIN new \cup {i} |-> IF j = i THEN r ELSE new[j]]

(* The real id of a CM that is saved, in the transaction that gave it. *)
RealId(p, i) == Real(p.newCm, i)

(* CCmPluginBaseEng::UpdateL through the handle of s.  The plug-in takes the
   handle's data for its own before it writes: a new CM gets its record, and
   one that has had its id is modified, which fails if there is no record. *)
SaveCm(p, s, i) ==
    LET new   == ~p.w.cms[i].made
        real  == IF new THEN Least(FreeCms(p.w)) ELSE RealId(p, i)
        own   == [p.w.cms[i] EXCEPT !.val = p.w.cmH[s][i].val, !.made = TRUE]
        taken == [p.w EXCEPT !.cms[i] = own]
    IN IF ~new /\ (real \notin Cms \/ p.w.db.cm[real] = None)
       THEN Fail([p EXCEPT !.w = taken])
       ELSE [p EXCEPT !.w = [taken EXCEPT !.db.cm[real] = p.w.cmH[s][i].val],
                      !.savedCm = p.savedCm \cup {i},
                      !.newCm = IF new THEN Given(p.newCm, i, real) ELSE p.newCm]

(* Once the transaction is committed the session's handles, the cache and the
   items of the session's destinations get the real ids of new CMs. *)
Renamed(f, new) ==
    [i \in DOMAIN f |->
        IF i \in DOMAIN new THEN None
        ELSE IF \E t \in DOMAIN new : new[t] = i THEN f[CHOOSE t \in DOMAIN new : new[t] = i]
        ELSE f[i]]
GiveCmIds(w, s, new) ==
    [w EXCEPT !.cmH[s] = Renamed(w.cmH[s], new), !.cms = Renamed(w.cms, new),
              !.dstH[s] = [k \in Slots |->
                 IF w.dstH[s][k] = None THEN None
                 ELSE [w.dstH[s][k] EXCEPT !.items =
                         [j \in DOMAIN w.dstH[s][k].items |-> Real(new, w.dstH[s][k].items[j])]]]]
GiveDstIds(w, s, new) ==
    [w EXCEPT !.dsts = Renamed(w.dsts, new),
              !.dstH[s] = [k \in Slots |->
                 IF w.dstH[s][k] = None THEN None
                 ELSE [w.dstH[s][k] EXCEPT !.id = Real(new, w.dstH[s][k].id)]]]

(* UpdateSuccessful of the handles and of the structures. *)
CmsSaved(w, s, C) ==
    [w EXCEPT !.cmH[s] = [i \in CmIds |->
                 IF i \in C THEN [w.cmH[s][i] EXCEPT !.status = "Valid", !.rec = "Loaded"]
                 ELSE w.cmH[s][i]],
              !.cms = [i \in CmIds |->
                 IF i \in C THEN [w.cms[i] EXCEPT !.status = "Valid", !.rec = "Loaded"]
                 ELSE w.cms[i]]]
DstsSaved(w, s, D) ==
    [w EXCEPT !.dstH[s] = [k \in Slots |->
                 IF w.dstH[s][k] # None /\ w.dstH[s][k].id \in D
                 THEN [w.dstH[s][k] EXCEPT !.status = "Valid", !.toDelete = << >>]
                 ELSE w.dstH[s][k]],
              !.dsts = [d \in DstIds |->
                 IF d \in D THEN [w.dsts[d] EXCEPT !.status = "Valid", !.blank = FALSE]
                 ELSE w.dsts[d]]]

(* What UpdateDestinationL does after the outermost commit. *)
CmsCommitted(w, s, C) == CmsSaved(OutdateCms(w, C), s, C)
DstsCommitted(w, s, D) == DstsSaved(OutdateDsts(w, D), s, D)
Committed(p, s) ==
    LET cmIds  == { RealId(p, i) : i \in p.savedCm }
        dstIds == { Real(p.newDst, d) : d \in p.savedDst }
        cmsOk  == CmsCommitted(GiveCmIds(p.w, s, p.newCm), s, cmIds)
        named  == GiveDstIds(AfterDelete(cmsOk, p.gone), s, p.newDst)
    IN RefreshMapping(DstsCommitted(named, s, dstIds))

(* The first loop of UpdateDestinationL, over the CMs that the handle wants
   deleted: those that are gone or in another destination are dropped, and a
   connected one makes the whole update leave. *)
CheckDeletions(p, s, k) ==
    LET h         == p.w.dstH[s][k]
        q         == h.toDelete
        Asked(c)  == c \in p.w.mapping.cm /\ ~InOtherMapped(p.w.mapping, c, h.id)
        Answer(c) == SessionInOther(p.w, s, c, 0)
        wanted    == { c \in ToSet(q) : Asked(c) /\ Answer(c) = "no" }
        stops     == { j \in DOMAIN q : \/ Asked(q[j]) /\ Answer(q[j]) = "panic"
                                        \/ q[j] \in wanted \cap connected }
        last      == IF stops = {} THEN Len(q) ELSE Least(stops)
    IN [kept |-> Only(SubSeq(q, 1, last), wanted) \o SubSeq(q, last + 1, Len(q)),
        end  |-> IF stops = {} THEN "ok" ELSE IF q[last] \in wanted THEN "InUse" ELSE "panic"]

(* UpdateDestinationL inside its transaction, for the handle in slot k: the
   CMs to delete that are not cached go, the others after the commit. *)
Deletions(p, s, k, kept) ==
    LET erased == { c \in ToSet(kept) : p.w.cms[c] = None }
    IN [p EXCEPT !.w = [p.w EXCEPT !.dstH[s][k].toDelete = kept,
                            !.db.cm = [c \in Cms |-> IF c \in erased THEN None ELSE p.w.db.cm[c]]],
                 !.gone = p.gone \cup { c \in ToSet(kept) \ erased : p.w.cms[c].status = "Valid" }]

(* Each CM that the session has a handle to is saved; an item that is nowhere
   any more is dropped. *)
ItemDropped(w, s, k, i) ==
    [w EXCEPT !.dstH[s][k].items = Without(w.dstH[s][k].items, {i})]
SaveItem(p, s, k, i) ==
    LET held   == IF IsEmbedded(i) THEN SlotsOf(p.w, s, i) # {} ELSE p.w.cmH[s][i] # None
        stored == IF IsEmbedded(i) THEN i \in Dests /\ p.w.mapping.dest[i] # None
                                   ELSE i \in p.w.mapping.cm
    IN CASE ~p.ok -> p
         [] p.ok /\ held -> IF IsEmbedded(i) THEN p ELSE SaveCm(p, s, i)
         [] OTHER -> IF stored THEN p
                     ELSE [p EXCEPT !.w = ItemDropped(p.w, s, k, i)]
ItemsDone(p, s, k) ==
    LET q == p.w.dstH[s][k].items
        done[n \in 0..Len(q)] == IF n = 0 THEN p ELSE SaveItem(done[n - 1], s, k, q[n])
    IN done[Len(q)]

(* Then the destination.  TranslateTemporaryId knows the new CMs only: an
   embedded destination that is new has no id, and its record holds nothing. *)
StoredItems(p, h) == Only([j \in DOMAIN h.items |-> RealId(p, h.items[j])], Cms \cup Dests)
StoreDst(p, h, real) ==
    [p EXCEPT !.w = [p.w EXCEPT !.db.dest[real] = StoredItems(p, h), !.dsts[h.id].blank = TRUE],
              !.savedDst = p.savedDst \cup {h.id},
              !.newDst = IF h.id # real THEN Given(p.newDst, h.id, real) ELSE p.newDst]
ItemsSaved(p, h) ==
    IF ~p.ok \/ (h.status = "Valid" /\ p.w.dsts[h.id].status # "Valid") THEN Fail(p)
    ELSE StoreDst(p, h, IF Real(p.newDst, h.id) \in Dests THEN Real(p.newDst, h.id)
                        ELSE Least(FreeDests(p.w)))
SaveInSlot(p, s, k) == ItemsSaved(p, p.w.dstH[s][k])
Refused(p, s, k, check) ==
    IF check.end = "panic" THEN [Fail(p) EXCEPT !.panic = TRUE]
                           ELSE [Fail(p) EXCEPT !.w.dstH[s][k].toDelete = check.kept]

(* An embedded destination that the session has a handle to is saved the same
   way; destinations are embedded one level deep. *)
SaveEmbedded(p, s, k) ==
    LET check == CheckDeletions(p, s, k)
    IN IF check.end # "ok" THEN Refused(p, s, k, check)
       ELSE SaveInSlot(ItemsDone(Deletions(p, s, k, check.kept), s, k), s, k)
SaveAnyItem(p, s, k, i) ==
    IF p.ok /\ IsEmbedded(i) /\ SlotsOf(p.w, s, i) # {}
    THEN SaveEmbedded(p, s, Least(SlotsOf(p.w, s, i)))
    ELSE SaveItem(p, s, k, i)
AllItemsDone(p, s, k) ==
    LET q == p.w.dstH[s][k].items
        done[n \in 0..Len(q)] == IF n = 0 THEN p ELSE SaveAnyItem(done[n - 1], s, k, q[n])
    IN done[Len(q)]
SaveDst(p, s, k) ==
    LET check == CheckDeletions(p, s, k)
    IN IF check.end # "ok" THEN Refused(p, s, k, check)
       ELSE SaveInSlot(AllItemsDone(Deletions(p, s, k, check.kept), s, k), s, k)

SavingDst(w, s, k) == SaveDst(Begin(w), s, k)
Outcome(p, w, s)   == IF p.ok THEN Committed(p, s) ELSE [p.w EXCEPT !.db = w.db]

CmCommitted(p, s, i) ==
    IF p.ok THEN CmsCommitted(GiveCmIds(RefreshMapping(p.w), s, p.newCm), s, {RealId(p, i)})
    ELSE p.w
UpdateCm(w, s, i) == CmCommitted(SaveCm(Begin(w), s, i), s, i)

(* A save needs an id for everything that is new: the bounds of Cms and Dests. *)
RoomToSave(s) ==
    /\ Cardinality({ i \in CmTemps : cmH[s][i] # None }) <= Cardinality(FreeCms(World))
    /\ Cardinality({ k \in Slots : dstH[s][k] # None /\ dstH[s][k].id \in DstTemps })
          <= Cardinality(FreeDests(World))

-----------------------------------------------------------------------------
(* Requests about CMs                                                      *)

NewCmHandle(v) == [status |-> "Changed", rec |-> "Unsaved", val |-> v]

(* OpenConnMethodL: the CM is loaded unless it is cached, and loaded again if
   what is cached is out of date. *)
Reloaded(struct, c) ==
    IF struct.rec = "Expired" THEN [struct EXCEPT !.val = db.cm[c], !.rec = "Loaded"] ELSE struct
OpenedCm(c) ==
    IF cms[c] # None THEN Reloaded(cms[c], c)
    ELSE [status |-> "Valid", rec |-> "Loaded", ref |-> 0, val |-> db.cm[c], made |-> TRUE]

(* CopyDataL: the handle's copy. *)
CopyOf(struct) ==
    IF struct.status = "Valid" THEN [status |-> "Valid", rec |-> "Loaded", val |-> struct.val]
    ELSE NewCmHandle(struct.val)

(* GetConnMethodWithIdL and, for an item of a destination handle,
   GetConnMethodFromDestWithIdL. *)
OpenConnMethod(s, c) ==
    /\ May("OpenConnMethod") /\ s \in sessions
    /\ c \in mapping.cm /\ cmH[s][c] = None
    /\ Become([World EXCEPT !.cms[c] = [OpenedCm(c) EXCEPT !.ref = @ + 1],
                            !.cmH[s][c] = CopyOf(OpenedCm(c))])

(* A structure for a CM that is not saved, and its handle. *)
WithNewCm(w, s, v) ==
    LET t == CmTemp(w.lastTemp + 1)
    IN [w EXCEPT !.lastTemp = @ + 1,
                 !.cms[t] = [status |-> "NotSaved", rec |-> "Unsaved", ref |-> 1,
                             val |-> v, made |-> FALSE],
                 !.cmH[s][t] = NewCmHandle(v)]

DefaultValue == CHOOSE v \in Values : TRUE

CreateConnMethod(s) ==
    /\ May("CreateConnMethod") /\ s \in sessions /\ lastTemp < MaxTemp
    /\ Become(WithNewCm(World, s, DefaultValue))

CreateCopyOfExisting(s, i) ==
    /\ May("CreateCopy") /\ cmH[s][i] # None /\ lastTemp < MaxTemp
    /\ Become(WithNewCm(World, s, cmH[s][i].val))

SetAttribute(s, i, v) ==
    /\ May("SetAttribute") /\ cmH[s][i] # None /\ cmH[s][i].val # v
    /\ Become([World EXCEPT !.cmH[s][i] =
                  [status |-> cmH[s][i].status, rec |-> "Modified", val |-> v]])

(* RefreshConnMethodL *)
RefreshConnMethod(s, i) ==
    /\ May("RefreshConnMethod") /\ cmH[s][i] # None /\ cms[i].status # "NotSaved"
    /\ LET cached == Reloaded(cms[i], i)
       IN Become([World EXCEPT !.cms[i] = cached,
                     !.cmH[s][i] = [status |-> "Valid", rec |-> "Loaded", val |-> cached.val]])

UpdateConnMethod(s, i) ==
    /\ May("UpdateConnMethod") /\ cmH[s][i] # None /\ RoomToSave(s)
    /\ Become(UpdateCm(World, s, i))

(* RemoveAllReferencesToConnMethodL when no transaction is open around it. *)
RemoveReferences(w, s, c) ==
    LET w1 == OutdateDsts(Unlist([w EXCEPT !.db = WithoutItem(w.db, c)], {c}), Listing(w, c))
    IN [w1 EXCEPT !.dstH[s] = [k \in Slots |->
          IF w1.dstH[s][k] = None THEN None
          ELSE [w1.dstH[s][k] EXCEPT !.items = Without(w1.dstH[s][k].items, {c})]]]

RemoveAllReferences(s, c) ==
    /\ May("RemoveAllReferences") /\ cmH[s][c] # None
    /\ c \in mapping.cm /\ c \notin connected
    /\ Become(RemoveReferences(World, s, c))

(* DeleteConnMethodL.  With other handles the CM is hidden and its status says
   that the last of them deletes it; with none it goes now, from CommsDat and
   from the mapping, though not from the items of the session's handles. *)
DeleteNow(w, c) ==
    OutdateDsts(UnmapCms(DeleteRecord([w EXCEPT !.db = WithoutItem(w.db, c)], c), {c}),
                Listing(w, c))
HideUntilClosed(w, s, c) == AfterDelete(RemoveReferences(w, s, c), {c})

HeldByOne(c)     == cms[c].ref <= 1

DeleteConnMethod(s, c) ==
    /\ May("DeleteConnMethod") /\ c \in Cms /\ cmH[s][c] # None
    /\ IF cms[c].status = "ToBeDeleted" THEN Become(CloseCms(World, s, {c}))
       ELSE /\ c \in mapping.cm /\ c \notin connected
            /\ IF HeldByOne(c)
               THEN /\ lastTemp < MaxTemp
                    /\ Become([DeleteNow(World, c) EXCEPT !.cmH[s][c] = None,
                                  !.cms[c] = None, !.lastTemp = @ + 1])
               ELSE Become(CloseCms(HideUntilClosed(World, s, c), s, {c}))

CloseConnMethod(s, i) ==
    /\ cmH[s][i] # None
    /\ Become(CloseCms(World, s, {i}))

-----------------------------------------------------------------------------
(* Requests about destinations                                             *)

(* The handle in slot k of s gets these items and CMs to delete, and is out of
   date with CommsDat. *)
WithItems(w, s, k, q, t) ==
    [w EXCEPT !.dstH[s][k] = [id |-> w.dstH[s][k].id, status |-> "Changed",
                              items |-> q, toDelete |-> t]]
ItemLeft(w, s, k, i) ==
    WithItems(w, s, k, Without(w.dstH[s][k].items, {i}), w.dstH[s][k].toDelete)

(* OpenDestinationL and CreateDestinationInstanceL: a destination that is to be
   deleted, or whose records were just written, is not given out. *)
CanOpenDst(d) == mapping.dest[d] # None
                 /\ (dsts[d] # None => dsts[d].status = "Valid" /\ ~dsts[d].blank)
OpenedDst(d)  == IF dsts[d] # None THEN dsts[d]
                 ELSE [status |-> "Valid", ref |-> 0, blank |-> FALSE]
DstCopy(d)    == [id |-> d, status |-> "Valid", items |-> mapping.dest[d], toDelete |-> << >>]

(* GetDestinationL *)
OpenDestination(s, d) ==
    /\ May("OpenDestination") /\ s \in sessions /\ FreeSlots(s) # {}
    /\ CanOpenDst(d) /\ SlotsOf(World, s, d) = {}
    /\ Become([World EXCEPT !.dsts[d] = [OpenedDst(d) EXCEPT !.ref = @ + 1],
                            !.dstH[s][Least(FreeSlots(s))] = DstCopy(d)])

(* CreateDestinationWithNameL *)
CreateDestination(s) ==
    /\ May("CreateDestination") /\ s \in sessions
    /\ FreeSlots(s) # {} /\ lastTemp < MaxTemp
    /\ LET t == DstTemp(lastTemp + 1)
       IN Become([World EXCEPT !.lastTemp = @ + 1,
                     !.dsts[t] = [status |-> "NotSaved", ref |-> 1, blank |-> FALSE],
                     !.dstH[s][Least(FreeSlots(s))] =
                         [id |-> t, status |-> "Changed", items |-> << >>, toDelete |-> << >>]])

(* RefreshDestinationL.  A hidden destination is in no mapping: the call fails. *)
RefreshDestination(s, k) ==
    /\ May("RefreshDestination") /\ dstH[s][k] # None
    /\ LET d == dstH[s][k].id
       IN /\ d \in Dests /\ dsts[d].status \in {"Valid", "ToBeDeleted"} /\ ~dsts[d].blank
          /\ mapping.dest[d] # None
          /\ Become([World EXCEPT !.dstH[s][k] = DstCopy(d)])

(* AddConnMethodL: the CM goes after the others and before an embedded one. *)
WithCmAdded(w, s, k, i) ==
    LET q    == w.dstH[s][k].items
        last == IF q # << >> /\ IsEmbedded(Last(q)) THEN Len(q) - 1 ELSE Len(q)
    IN WithItems(w, s, k, InsertAt(q, last + 1, i), Without(w.dstH[s][k].toDelete, {i}))

MayAdd(s, k, i) == cmH[s][i] # None /\ dstH[s][k] # None /\ ~Has(dstH[s][k].items, i)

AddConnMethod(s, k, i) ==
    /\ May("AddConnMethod") /\ MayAdd(s, k, i)
    /\ Become(WithCmAdded(World, s, k, i))

(* CreateConnMethodToDestL *)
CreateConnMethodToDest(s, k) ==
    /\ May("CreateConnMethodToDest") /\ dstH[s][k] # None /\ lastTemp < MaxTemp
    /\ Become(WithCmAdded(WithNewCm(World, s, DefaultValue), s, k, CmTemp(lastTemp + 1)))

(* AddEmbeddedDestinationL, with the checks of the handle, of the mapping and
   of the handles of every session. *)
Mapped(d) == IF d \in Dests THEN mapping.dest[d] ELSE None
MappedFlat(d, emb) ==
    /\ \A x \in Dests : ~Has(mapping.dest[x], d)
    /\ ~HasEmbedded(Mapped(d)) /\ ~HasEmbedded(Mapped(emb))

MayEmbed(d, emb) ==
    /\ MappedFlat(d, emb)
    /\ \A u \in Sessions, x \in Slots : dstH[u][x] # None =>
          /\ ~Has(dstH[u][x].items, d)
          /\ dstH[u][x].id = emb => ~HasEmbedded(dstH[u][x].items)
AddEmbeddedDestination(s, k, e) ==
    /\ May("AddEmbedded") /\ dstH[s][k] # None /\ dstH[s][e] # None
    /\ LET d == dstH[s][k].id  emb == dstH[s][e].id  q == dstH[s][k].items
       IN /\ emb # d /\ ~HasEmbedded(q) /\ MayEmbed(d, emb)
          /\ Become(WithItems(World, s, k, Append(q, emb), dstH[s][k].toDelete))

(* DeleteConnMethodFromDestinationL: the CM is deleted with the next update
   unless it is in another destination, saved or in the session's handles. *)
DestDeleteConnMethod(s, k, c) ==
    /\ May("DestDelete") /\ cmH[s][c] # None /\ dstH[s][k] # None
    /\ Has(dstH[s][k].items, c) /\ c \notin connected
    /\ LET h      == dstH[s][k]
           w      == ItemLeft(World, s, k, c)
           shared == InOtherMapped(mapping, c, h.id)
           answer == SessionInOther(w, s, c, h.id)
       IN IF ~shared /\ answer = "panic" THEN Panic
          ELSE IF shared \/ answer = "yes" \/ Has(h.toDelete, c) THEN Become(w)
          ELSE Become(WithItems(w, s, k, Without(h.items, {c}), Append(h.toDelete, c)))

(* RemoveConnMethodFromDestinationL *)
DestRemoveConnMethod(s, k, c) ==
    /\ May("DestRemove") /\ cmH[s][c] # None /\ dstH[s][k] # None
    /\ Has(dstH[s][k].items, c) /\ c \notin connected
    /\ Become(ItemLeft(World, s, k, c))

Saved(p, w, s)  == IF p.panic THEN Panic ELSE Become(Outcome(p, w, s))
Save(w, s, k)   == Saved(SavingDst(w, s, k), w, s)

UpdateDestination(s, k) ==
    /\ May("UpdateDestination") /\ dstH[s][k] # None /\ RoomToSave(s)
    /\ Save(World, s, k)

(* CopyConnMethodL *)
CopyConnMethod(s, k, i) ==
    /\ May("CopyConnMethod") /\ MayAdd(s, k, i) /\ RoomToSave(s)
    /\ Save(WithCmAdded(World, s, k, i), s, k)

(* RemoveConnMethodL *)
RemoveConnMethod(s, k, i) ==
    /\ May("RemoveConnMethod") /\ cmH[s][i] # None /\ dstH[s][k] # None /\ RoomToSave(s)
    /\ Has(dstH[s][k].items, i) /\ i \notin connected
    /\ Save(ItemLeft(World, s, k, i), s, k)

(* MoveConnMethodL: two updates, each in a transaction of its own.  The CM is
   looked for in the source again, under the id it has after the first. *)
TakenOut(w, s, k, c) ==
    IF ~Has(w.dstH[s][k].items, c) THEN Become(w)
    ELSE Save(ItemLeft(w, s, k, c), s, k)
Moved(p, w, s, from, i) ==
    IF p.panic THEN Panic
    ELSE IF ~p.ok THEN Become(Outcome(p, w, s))
    ELSE TakenOut(Outcome(p, w, s), s, from, RealId(p, i))
MoveConnMethod(s, from, to, i) ==
    /\ May("MoveConnMethod") /\ MayAdd(s, to, i) /\ dstH[s][from] # None /\ RoomToSave(s)
    /\ Has(dstH[s][from].items, i) /\ i \notin connected
    /\ Moved(SavingDst(WithCmAdded(World, s, to, i), s, to),
             WithCmAdded(World, s, to, i), s, from, i)

CloseDeleted(w, s, k, d) == w.db.dest[d] = None /\ Become(CloseDst(w, s, k))

(* CheckIfDestinationCanBeDeletedL and DeleteDestinationL; the handle is
   closed after it. *)
DeleteDestination(s, k) ==
    /\ May("DeleteDestination") /\ dstH[s][k] # None
    /\ LET h == dstH[s][k]  d == h.id
       IN /\ d \in Dests
          /\ IF dsts[d].status = "ToBeDeleted" THEN Become(CloseDst(World, s, k))
             ELSE /\ mapping.dest[d] # None
                  /\ \A i \in ToSet(mapping.dest[d]) : i \notin connected
                  /\ IF dsts[d].ref > 1
                     THEN Become(CloseDst(OutdateDsts([HideDst(World, d)
                                    EXCEPT !.dsts[d].status = "ToBeDeleted"], {d}), s, k))
                     ELSE ~dsts[d].blank
                          /\ CloseDeleted(DeleteWithCms(World, h, mapping.dest[d]), s, k, d)

CloseDestination(s, k) ==
    /\ dstH[s][k] # None
    /\ Become(CloseDst(World, s, k))

-----------------------------------------------------------------------------
(* Sessions, the server and what is around it                              *)

OpenSession(s) ==
    /\ s \notin sessions
    /\ sessions' = sessions \cup {s}
    /\ UNCHANGED << scenario, db, mapping, deleted, cms, dsts, cmH, dstH, lastTemp,
                    notify, connected, panicked >>

(* The client closes its session, or dies. *)
CloseSession(s) ==
    /\ s \in sessions
    /\ LET w == CloseAll(World, s)
       IN /\ db' = w.db /\ mapping' = w.mapping /\ deleted' = w.deleted
          /\ cms' = w.cms /\ dsts' = w.dsts /\ cmH' = w.cmH /\ dstH' = w.dstH
          /\ lastTemp' = w.lastTemp /\ notify' = (notify \/ w.db # db)
    /\ sessions' = sessions \ {s}
    /\ UNCHANGED << scenario, connected, panicked >>

(* The shutdown timer expires with no session left; the next client finds a
   server that has just started. *)
ShutDown ==
    /\ sessions = {} /\ (World # Started(db) \/ notify)
    /\ LET w == Started(db)
       IN /\ mapping' = w.mapping /\ deleted' = w.deleted /\ cms' = w.cms
          /\ dsts' = w.dsts /\ cmH' = w.cmH /\ dstH' = w.dstH /\ lastTemp' = w.lastTemp
    /\ notify' = FALSE
    /\ UNCHANGED << scenario, db, sessions, connected, panicked >>

\* Mutant: the cache keeps what it has.
Kept(struct) == struct

(* DbChangeDetectedL: what the cache has loaded is out of date, and the mapping
   is read again. *)
Expired(struct) ==
    IF struct # None /\ struct.rec = "Loaded" THEN [struct EXCEPT !.rec = "Expired"] ELSE struct
DbChangeDetected ==
    /\ May("DbChange") /\ notify
    /\ cms' = [i \in CmIds |-> Expired(cms[i])]
    /\ mapping' = ReadMapping(db, deleted)
    /\ notify' = FALSE
    /\ UNCHANGED << scenario, db, deleted, dsts, cmH, dstH, lastTemp, sessions,
                    connected, panicked >>

(* Another program writes a CM into CommsDat. *)
WrittenOutside(c, v) ==
    /\ May("WrittenOutside") /\ db.cm[c] \notin {None, v}
    /\ db' = [db EXCEPT !.cm[c] = v]
    /\ notify' = TRUE
    /\ UNCHANGED << scenario, mapping, deleted, cms, dsts, cmH, dstH, lastTemp,
                    sessions, connected, panicked >>

ConnectionChanges(c) ==
    /\ May("Connections") /\ db.cm[c] # None
    /\ connected' = IF c \in connected THEN connected \ {c} ELSE connected \cup {c}
    /\ UNCHANGED << scenario, db, mapping, deleted, cms, dsts, cmH, dstH, lastTemp,
                    notify, sessions, panicked >>

Next ==
    \/ \E s \in Sessions :
         \/ OpenSession(s) \/ CloseSession(s)
         \/ CreateConnMethod(s) \/ CreateDestination(s)
         \/ \E c \in Cms : OpenConnMethod(s, c) \/ DeleteConnMethod(s, c)
                           \/ RemoveAllReferences(s, c)
         \/ \E d \in Dests : OpenDestination(s, d)
         \/ \E i \in CmIds :
              \/ CreateCopyOfExisting(s, i) \/ RefreshConnMethod(s, i)
              \/ UpdateConnMethod(s, i) \/ CloseConnMethod(s, i)
              \/ \E v \in Values : SetAttribute(s, i, v)
              \/ \E k \in Slots :
                   \/ AddConnMethod(s, k, i) \/ DestDeleteConnMethod(s, k, i)
                   \/ DestRemoveConnMethod(s, k, i) \/ CopyConnMethod(s, k, i)
                   \/ RemoveConnMethod(s, k, i)
                   \/ \E to \in Slots \ {k} : MoveConnMethod(s, k, to, i)
         \/ \E k \in Slots :
              \/ CreateConnMethodToDest(s, k) \/ RefreshDestination(s, k)
              \/ UpdateDestination(s, k) \/ DeleteDestination(s, k)
              \/ CloseDestination(s, k)
              \/ \E e \in Slots \ {k} : AddEmbeddedDestination(s, k, e)
    \/ ShutDown
    \/ DbChangeDetected
    \/ \E c \in Cms : ConnectionChanges(c) \/ \E v \in Values : WrittenOutside(c, v)

Spec == Init /\ [][Next]_vars

-----------------------------------------------------------------------------
(* Properties                                                              *)

(* The type invariant. *)
TypeOK ==
    /\ db \in Data
    /\ mapping \in [cm : SUBSET Cms, dest : [Dests -> Items \cup {None}]]
    /\ deleted \in [cm : SUBSET Cms, dest : SUBSET Dests]
    /\ cms \in [CmIds -> CmStructs \cup {None}]
    /\ dsts \in [DstIds -> DstStructs \cup {None}]
    /\ cmH \in [Sessions -> [CmIds -> CmHandles \cup {None}]]
    /\ dstH \in [Sessions -> [Slots -> DstHandles \cup {None}]]
    /\ lastTemp \in 0..MaxTemp /\ notify \in BOOLEAN /\ panicked \in BOOLEAN
    /\ sessions \subseteq Sessions /\ connected \subseteq Cms

(* The cache's reference counts are the numbers of handles, whatever renames,
   deletions and closing sessions did: a structure goes with its last handle,
   never before and never later, and no handle is without one. *)
HandlesCounted ==
    /\ \A i \in CmIds :
         LET n == Cardinality({ s \in Sessions : cmH[s][i] # None })
         IN IF n = 0 THEN cms[i] = None ELSE cms[i] # None /\ cms[i].ref = n
    /\ \A d \in DstIds :
         LET n == Cardinality({ s \in Sessions : SlotsOf(World, s, d) # {} })
         IN IF n = 0 THEN dsts[d] = None ELSE dsts[d] # None /\ dsts[d].ref = n

(* Structures and handles keep their types and their counts. *)
StructuresCounted == TypeOK /\ HandlesCounted

(* The mapping is maintained by hand on some paths and read again on others:
   on all of them it shows exactly what reading it again would show.  (Not so
   when a deleted CM carries a connection as its last handle closes: it stays
   in CommsDat and is in no list, and the mapping lacks it until it is read.) *)
MappingFollowsDb == May("Connections") \/ mapping = ReadMapping(db, deleted)

(* No destination that clients can see lists a CM that CommsDat lacks: a CM
   that is deleted with one destination was in no other. *)
NoDanglingItem ==
    \A d \in Dests : db.dest[d] # None /\ d \notin deleted.dest =>
        \A i \in ToSet(db.dest[d]) \cap Cms : db.cm[i] # None

(* Destinations are embedded one level deep: checks of one session's request
   against every session's unsaved handles keep it so in CommsDat. *)
EmbeddedOneDeep ==
    \A d, e \in Dests : Has(db.dest[d], e) => ~HasEmbedded(db.dest[e])

(* A handle that says it is unchanged since it was read or saved shows what
   CommsDat has, also after other sessions saved or deleted: they tell it.
   (What other programs write reaches the cache and not the handles.) *)
UnchangedHandlesAgree ==
    May("WrittenOutside") \/ \A s \in Sessions, c \in Cms :
        cmH[s][c] # None /\ cmH[s][c].status = "Valid" /\ cmH[s][c].rec = "Loaded"
            => cmH[s][c].val = db.cm[c]

(* Once CommsDat has told of its changes, what the cache believes to be loaded
   is what CommsDat holds: a refresh gives a client the current data. *)
LoadedIsCurrent ==
    \A c \in Cms : ~notify /\ cms[c] # None /\ cms[c].rec = "Loaded" => cms[c].val = db.cm[c]

(* A CM that clients have a handle to and that is saved stays in CommsDat
   until the last handle is closed, though somebody else deletes it. *)
HeldStaysStored ==
    \A c \in Cms : (\E s \in Sessions : cmH[s][c] # None) => db.cm[c] # None

(* What sessions see and hold can be resolved, and destinations end. *)
StoredIsWhole == NoDanglingItem /\ EmbeddedOneDeep /\ HeldStaysStored

(* cmmserverdefs.h: Valid means that the object exists in the database and
   that sessions can open handles to it. *)
ValidCanBeOpened ==
    /\ \A c \in Cms : cms[c] # None /\ cms[c].status = "Valid" => c \in mapping.cm
    /\ \A d \in Dests : dsts[d] # None /\ dsts[d].status = "Valid" => mapping.dest[d] # None

=============================================================================
