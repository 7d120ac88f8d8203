--------------------------- MODULE CmmServerProofs ---------------------------
(***************************************************************************)
(* Proofs about CmmServer.                                                 *)
(*                                                                         *)
(* A request computes the next world from the present one in steps (a save *)
(* makes deletions, saves items, stores the record, exchanges ids, tells   *)
(* handles and reads the mapping again), and each operator for a step has  *)
(* a lemma that says what it keeps: Keeps(w, v).  What is kept is Core     *)
(* (types, counts, and how structures, handles and records fit together),  *)
(* that the mapping follows CommsDat (MapOK), that what is cached is       *)
(* current (Current), that unchanged handles agree with CommsDat (Agree),  *)
(* and that destinations are whole (Whole).  Inv puts them together.       *)
(*                                                                         *)
(* The theorems are about the scenarios that are Covered: with what these  *)
(* leave out, destinations that are deleted while others save them and CMs *)
(* that are deleted by a save while another handle lists them, the code    *)
(* can leave an item that does not exist (README, section 9).              *)
(***************************************************************************)
EXTENDS CmmServer, FiniteSetTheorems, SequenceTheorems, WellFoundedInduction, TLAPS

------------------------------------------------------------------------------
(* Numbers and sequences *)

\* A nonempty set of naturals has a least element.
LEMMA LeastExists ==
  ASSUME NEW S \in SUBSET Nat, S # {}
  PROVE  \E n \in S : \A m \in S : n <= m
PROOF
  <1>1. PICK n \in S : \A m \in S : ~(<<m, n>> \in OpToRel(<, Nat))
    BY NatLessThanWellFounded, WFMin, Zenon
  <1>2. \A m \in S : ~(m < n)
    BY <1>1 DEF OpToRel
  <1> QED
    BY <1>2

\* What Least chooses, for the ids CommsDat gives and for slots.
LEMMA LeastIsIn ==
  ASSUME NEW S \in SUBSET Nat, S # {}
  PROVE  Least(S) \in S /\ \A m \in S : Least(S) <= m
  BY LeastExists DEF Least

\* The recursion that Only evaluates.
LEMMA OnlyUnfolds ==
  ASSUME NEW T, NEW q \in Seq(T), NEW S
  PROVE  \E kept : /\ kept[0] = << >>
                   /\ \A n \in 1..Len(q) : kept[n] = IF q[n] \in S THEN Append(kept[n - 1], q[n])
                                                     ELSE kept[n - 1]
                   /\ Only(q, S) = kept[Len(q)]
PROOF
  <1> DEFINE Rec(f, m) == [n \in 0..m |-> IF n = 0 THEN << >>
                             ELSE IF q[n] \in S THEN Append(f[n - 1], q[n]) ELSE f[n - 1]]
  <1> DEFINE Fails == { m \in Nat : ~ \E f : f = Rec(f, m) }
  <1>1. Fails = {}
    <2>1. SUFFICES ASSUME Fails # {} PROVE FALSE
      OBVIOUS
    <2>2. PICK m \in Fails : \A x \in Fails : m <= x
      BY <2>1, LeastExists, Fails \in SUBSET Nat
    <2>3. m # 0
      <3>1. [n \in 0..0 |-> << >>] = Rec([n \in 0..0 |-> << >>], 0)
        OBVIOUS
      <3> QED BY <3>1, <2>2
    <2>4. PICK f : f = Rec(f, m - 1)
      <3>1. m - 1 \in Nat /\ ~(m <= m - 1)
        BY <2>2, <2>3
      <3>2. m - 1 \notin Fails
        BY <3>1, <2>2
      <3> QED BY <3>1, <3>2
    <2> DEFINE g == [n \in 0..m |-> IF n < m THEN f[n]
                       ELSE IF q[m] \in S THEN Append(f[m - 1], q[m]) ELSE f[m - 1]]
    <2>5. ASSUME NEW n \in 0..m PROVE g[n] = Rec(g, m)[n]
      <3>1. CASE n = 0
        BY <3>1, <2>3, <2>4
      <3>2. CASE n # 0 /\ n < m
        <4>1. n \in 0..(m - 1) /\ n - 1 \in 0..(m - 1) /\ n - 1 \in 0..m /\ n - 1 < m
          BY <3>2
        <4>2. g[n - 1] = f[n - 1] /\ g[n] = f[n]
          BY <4>1, <3>2
        <4>3. f[n] = Rec(f, m - 1)[n]
          BY <2>4
        <4> QED BY <4>1, <4>2, <4>3, <3>2
      <3>3. CASE n = m
        <4>1. m - 1 \in 0..m /\ m - 1 < m /\ m \in 0..m
          BY <2>3
        <4>2. g[m - 1] = f[m - 1]
          BY <4>1
        <4> QED BY <4>1, <4>2, <3>3, <2>3
      <3> QED BY <3>1, <3>2, <3>3
    <2>6. g = Rec(g, m)
      BY <2>5, SMTT(60)
    <2> QED BY <2>2, <2>6
  <1>2. Len(q) \in Nat
    BY LenProperties
  <1> DEFINE kept == CHOOSE f : f = Rec(f, Len(q))
  <1>3. kept = Rec(kept, Len(q))
    <2>1. \E f : f = Rec(f, Len(q))
      BY <1>1, <1>2
    <2> QED BY <2>1
  <1>4. Only(q, S) = kept[Len(q)]
    BY DEF Only
  <1> HIDE DEF kept
  <1>5. \A n \in 0..Len(q) : kept[n] = Rec(kept, Len(q))[n]
    BY <1>3
  <1>6. kept[0] = << >>
    BY <1>5, <1>2
  <1>7. \A n \in 1..Len(q) : kept[n] = IF q[n] \in S THEN Append(kept[n - 1], q[n]) ELSE kept[n - 1]
    BY <1>5, <1>2
  <1> QED
    BY <1>4, <1>6, <1>7

\* Induction up to n, for a set of numbers.
LEMMA InductionTo ==
  ASSUME NEW N \in Nat, NEW G, 0 \in G, \A n \in 1..N : n - 1 \in G => n \in G
  PROVE  \A n \in 0..N : n \in G
PROOF
  <1> DEFINE Fails == { n \in 0..N : n \notin G }
  <1>1. SUFFICES ASSUME Fails # {} PROVE FALSE
    OBVIOUS
  <1>2. PICK m \in Fails : \A x \in Fails : m <= x
    <2>1. Fails \in SUBSET Nat
      OBVIOUS
    <2> QED BY <1>1, <2>1, LeastExists
  <1>3. m \in 1..N /\ m - 1 \in 0..N /\ ~(m <= m - 1)
    BY <1>2
  <1>4. m - 1 \in G
    BY <1>2, <1>3
  <1> QED BY <1>2, <1>3, <1>4

\* What Only keeps: the elements in S, and a sequence.
LEMMA OnlyIn ==
  ASSUME NEW T, NEW q \in Seq(T), NEW S
  PROVE  /\ Only(q, S) \in Seq(T)
         /\ ToSet(Only(q, S)) = ToSet(q) \cap S
PROOF
  <1>1. PICK kept : /\ kept[0] = << >>
                    /\ \A n \in 1..Len(q) : kept[n] = IF q[n] \in S THEN Append(kept[n - 1], q[n])
                                                      ELSE kept[n - 1]
                    /\ Only(q, S) = kept[Len(q)]
    BY OnlyUnfolds
  <1>2. Len(q) \in Nat /\ DOMAIN q = 1..Len(q) /\ \A n \in 1..Len(q) : q[n] \in T
    BY LenProperties, ElementOfSeq
  <1> DEFINE Holds == { n \in 0..Len(q) : /\ kept[n] \in Seq(T)
                                         /\ ToSet(kept[n]) = { q[j] : j \in 1..n } \cap S }
  <1>3. 0 \in Holds
    <2>1. << >> \in Seq(T) /\ ToSet(<< >>) = {}
      BY EmptySeq DEF ToSet
    <2>2. { q[j] : j \in 1..0 } = {}
      OBVIOUS
    <2>3. kept[0] \in Seq(T) /\ ToSet(kept[0]) = {}
      BY <2>1, <1>1
    <2>4. { q[j] : j \in 1..0 } \cap S = {} /\ 0 \in 0..Len(q)
      BY <2>2, <1>2
    <2> QED BY <2>3, <2>4
  <1>4. ASSUME NEW n \in 1..Len(q), n - 1 \in Holds PROVE n \in Holds
    <2>1. n \in 0..Len(q) /\ q[n] \in T /\ 1..n = (1..(n - 1)) \cup {n}
      BY <1>2
    <2>2. { q[j] : j \in 1..n } = { q[j] : j \in 1..(n - 1) } \cup {q[n]}
      BY <2>1
    <2>3. CASE q[n] \notin S
      <3>1. kept[n] = kept[n - 1]
        BY <1>1, <2>3
      <3> QED BY <1>4, <2>1, <2>2, <2>3, <3>1
    <2>4. CASE q[n] \in S
      <3>1. kept[n] = Append(kept[n - 1], q[n]) /\ kept[n - 1] \in Seq(T)
        BY <1>1, <1>4, <2>4
      <3> DEFINE r == kept[n - 1]
      <3>2. /\ Append(r, q[n]) \in Seq(T)
            /\ Len(Append(r, q[n])) = Len(r) + 1 /\ Len(r) \in Nat
            /\ \A i \in 1..Len(r) : Append(r, q[n])[i] = r[i]
            /\ Append(r, q[n])[Len(r) + 1] = q[n]
            /\ DOMAIN r = 1..Len(r) /\ DOMAIN Append(r, q[n]) = 1..(Len(r) + 1)
        BY <3>1, <2>1, AppendProperties, LenProperties
      <3> HIDE DEF r
      <3>3. ToSet(Append(r, q[n])) = ToSet(r) \cup {q[n]}
        BY <3>2 DEF ToSet
      <3> QED BY <1>4, <2>1, <2>2, <2>4, <3>1, <3>2, <3>3, ZenonT(60) DEF r
    <2> QED BY <2>3, <2>4
  <1>5. Len(q) \in Holds
    <2> HIDE DEF Holds
    <2>1. \A n \in 1..Len(q) : n - 1 \in Holds => n \in Holds
      BY <1>4
    <2>2. \A n \in 0..Len(q) : n \in Holds
      BY <1>3, <2>1, <1>2, InductionTo
    <2> QED BY <2>2, <1>2
  <1>6. { q[j] : j \in 1..Len(q) } = ToSet(q)
    BY <1>2 DEF ToSet
  <1> QED BY <1>1, <1>5, <1>6

\* Only sets that differ on elements of q make a difference.
LEMMA OnlyAgree ==
  ASSUME NEW T, NEW q \in Seq(T), NEW S, NEW R, ToSet(q) \cap S = ToSet(q) \cap R
  PROVE  Only(q, S) = Only(q, R)
PROOF
  <1>1. PICK kept : /\ kept[0] = << >>
                    /\ \A n \in 1..Len(q) : kept[n] = IF q[n] \in S THEN Append(kept[n - 1], q[n])
                                                      ELSE kept[n - 1]
                    /\ Only(q, S) = kept[Len(q)]
    BY OnlyUnfolds
  <1>2. PICK held : /\ held[0] = << >>
                    /\ \A n \in 1..Len(q) : held[n] = IF q[n] \in R THEN Append(held[n - 1], q[n])
                                                      ELSE held[n - 1]
                    /\ Only(q, R) = held[Len(q)]
    BY OnlyUnfolds
  <1>3. Len(q) \in Nat /\ DOMAIN q = 1..Len(q)
    BY LenProperties
  <1> DEFINE Same == { n \in 0..Len(q) : kept[n] = held[n] }
  <1>4. 0 \in Same
    BY <1>1, <1>2, <1>3
  <1>5. ASSUME NEW n \in 1..Len(q), n - 1 \in Same PROVE n \in Same
    <2>1. q[n] \in ToSet(q)
      BY <1>3 DEF ToSet
    <2>2. q[n] \in S <=> q[n] \in R
      BY <2>1
    <2>3. kept[n - 1] = held[n - 1] /\ n \in 0..Len(q)
      BY <1>5, <1>3
    <2> QED BY <1>1, <1>2, <2>2, <2>3
  <1>6. Len(q) \in Same
    <2> HIDE DEF Same
    <2>1. \A n \in 1..Len(q) : n - 1 \in Same => n \in Same
      BY <1>5
    <2>2. \A n \in 0..Len(q) : n \in Same
      BY <1>4, <2>1, <1>3, InductionTo
    <2> QED BY <2>2, <1>3
  <1> QED BY <1>1, <1>2, <1>6

\* A longer sequence.
LEMMA OnlyAppend ==
  ASSUME NEW T, NEW q \in Seq(T), NEW x \in T, NEW S
  PROVE  Only(Append(q, x), S) = IF x \in S THEN Append(Only(q, S), x) ELSE Only(q, S)
PROOF
  <1> DEFINE r == Append(q, x)
  <1>1. r \in Seq(T) /\ Len(q) \in Nat /\ Len(r) = Len(q) + 1
        /\ (\A i \in 1..Len(q) : r[i] = q[i]) /\ r[Len(q) + 1] = x
    BY AppendProperties, LenProperties
  <1> HIDE DEF r
  <1>2. PICK kept : /\ kept[0] = << >>
                    /\ \A n \in 1..Len(q) : kept[n] = IF q[n] \in S THEN Append(kept[n - 1], q[n])
                                                      ELSE kept[n - 1]
                    /\ Only(q, S) = kept[Len(q)]
    BY OnlyUnfolds
  <1>3. PICK held : /\ held[0] = << >>
                    /\ \A n \in 1..Len(r) : held[n] = IF r[n] \in S THEN Append(held[n - 1], r[n])
                                                      ELSE held[n - 1]
                    /\ Only(r, S) = held[Len(r)]
    BY <1>1, OnlyUnfolds
  <1> DEFINE Same == { n \in 0..Len(q) : kept[n] = held[n] }
  <1>4. 0 \in Same
    BY <1>1, <1>2, <1>3
  <1>5. ASSUME NEW n \in 1..Len(q), n - 1 \in Same PROVE n \in Same
    <2>1. kept[n - 1] = held[n - 1] /\ n \in 0..Len(q) /\ n \in 1..Len(r) /\ r[n] = q[n]
      BY <1>5, <1>1
    <2> QED BY <1>2, <1>3, <2>1
  <1>6. Len(q) \in Same
    <2> HIDE DEF Same
    <2>1. \A n \in 1..Len(q) : n - 1 \in Same => n \in Same
      BY <1>5
    <2>2. \A n \in 0..Len(q) : n \in Same
      BY <1>4, <2>1, <1>1, InductionTo
    <2> QED BY <2>2, <1>1
  <1>7. Len(r) \in 1..Len(r) /\ Len(r) - 1 = Len(q) /\ r[Len(r)] = x
    BY <1>1
  <1>8. held[Len(r)] = IF x \in S THEN Append(held[Len(q)], x) ELSE held[Len(q)]
    BY <1>3, <1>7
  <1> QED BY <1>2, <1>3, <1>6, <1>8 DEF r

\* Keeping those of R after those of S.
LEMMA OnlyTwice ==
  ASSUME NEW T, NEW q \in Seq(T), NEW S, NEW R
  PROVE  Only(Only(q, S), R) = Only(q, S \cap R)
PROOF
  <1>1. PICK kept : /\ kept[0] = << >>
                    /\ \A n \in 1..Len(q) : kept[n] = IF q[n] \in S THEN Append(kept[n - 1], q[n])
                                                      ELSE kept[n - 1]
                    /\ Only(q, S) = kept[Len(q)]
    BY OnlyUnfolds
  <1>2. PICK both : /\ both[0] = << >>
                    /\ \A n \in 1..Len(q) : both[n] = IF q[n] \in S \cap R THEN Append(both[n - 1], q[n])
                                                      ELSE both[n - 1]
                    /\ Only(q, S \cap R) = both[Len(q)]
    BY OnlyUnfolds
  <1>3. Len(q) \in Nat /\ \A n \in 1..Len(q) : q[n] \in T
    BY LenProperties, ElementOfSeq
  <1> DEFINE Same == { n \in 0..Len(q) : kept[n] \in Seq(T) /\ Only(kept[n], R) = both[n] }
  <1>4. 0 \in Same
    <2>1. << >> \in Seq(T) /\ Len(<< >>) = 0
      BY EmptySeq
    <2> DEFINE r == << >>
    <2>2. Only(r, R) = << >>
      <3>1. r \in Seq(T) /\ Len(r) = 0
        BY <2>1
      <3> HIDE DEF r
      <3>2. PICK h : /\ h[0] = << >>
                     /\ \A n \in 1..Len(r) : h[n] = IF r[n] \in R THEN Append(h[n - 1], r[n])
                                                    ELSE h[n - 1]
                     /\ Only(r, R) = h[Len(r)]
        BY <3>1, OnlyUnfolds
      <3> QED BY <3>1, <3>2
    <2>3. kept[0] = r /\ both[0] = << >> /\ 0 \in 0..Len(q)
      BY <1>1, <1>2, <1>3
    <2> HIDE DEF r
    <2>4. r \in Seq(T) /\ r = << >>
      BY <2>1 DEF r
    <2> QED BY <2>2, <2>3, <2>4
  <1>5. ASSUME NEW n \in 1..Len(q), n - 1 \in Same PROVE n \in Same
    <2>1. kept[n - 1] \in Seq(T) /\ Only(kept[n - 1], R) = both[n - 1] /\ n \in 0..Len(q) /\ q[n] \in T
      BY <1>5, <1>3
    <2>2. CASE q[n] \notin S
      BY <1>1, <1>2, <2>1, <2>2
    <2>3. CASE q[n] \in S
      <3>1. kept[n] = Append(kept[n - 1], q[n])
        BY <1>1, <2>3
      <3>2. kept[n] \in Seq(T)
        BY <3>1, <2>1, AppendProperties
      <3>3. Only(kept[n], R) = IF q[n] \in R THEN Append(both[n - 1], q[n]) ELSE both[n - 1]
        <4> DEFINE r == kept[n - 1]
        <4>1. r \in Seq(T) /\ q[n] \in T /\ Only(r, R) = both[n - 1] /\ kept[n] = Append(r, q[n])
          BY <3>1, <2>1
        <4> HIDE DEF r
        <4>2. Only(Append(r, q[n]), R) = IF q[n] \in R THEN Append(Only(r, R), q[n]) ELSE Only(r, R)
          BY <4>1, OnlyAppend
        <4> QED BY <4>1, <4>2
      <3> QED BY <1>2, <2>1, <2>3, <3>2, <3>3
    <2> QED BY <2>2, <2>3
  <1>6. Len(q) \in Same
    <2> HIDE DEF Same
    <2>1. \A n \in 1..Len(q) : n - 1 \in Same => n \in Same
      BY <1>5
    <2>2. \A n \in 0..Len(q) : n \in Same
      BY <1>4, <2>1, <1>3, InductionTo
    <2> QED BY <2>2, <1>3
  <1> QED BY <1>1, <1>2, <1>6

\* What is left without the elements of I.
LEMMA WithoutIn ==
  ASSUME NEW T, NEW q \in Seq(T), NEW I
  PROVE  /\ Without(q, I) \in Seq(T)
         /\ ToSet(Without(q, I)) = ToSet(q) \ I
  BY OnlyIn DEF Without

Worlds == [db      : Data,
           mapping : [cm : SUBSET Cms, dest : [Dests -> Items \cup {None}]],
           deleted : [cm : SUBSET Cms, dest : SUBSET Dests],
           cms     : [CmIds -> CmStructs \cup {None}],
           dsts    : [DstIds -> DstStructs \cup {None}],
           cmH     : [Sessions -> [CmIds -> CmHandles \cup {None}]],
           dstH    : [Sessions -> [Slots -> DstHandles \cup {None}]],
           lastTemp : 0..MaxTemp]

Holders(w, i)    == { s \in Sessions : w.cmH[s][i] # None }
DstHolders(w, d) == { s \in Sessions : SlotsOf(w, s, d) # {} }

\* The structures' counts are the numbers of sessions with a handle.
CmsCounted(w) == \A i \in CmIds :
    IF w.cms[i] = None THEN Holders(w, i) = {} ELSE w.cms[i].ref = Cardinality(Holders(w, i))
DstsCounted(w) == \A d \in DstIds :
    IF w.dsts[d] = None THEN DstHolders(w, d) = {}
    ELSE w.dsts[d].ref = Cardinality(DstHolders(w, d))

\* A session has one handle to a destination.
OneSlot(w) == \A s \in Sessions : \A k, l \in Slots :
    w.dstH[s][k] # None /\ w.dstH[s][l] # None /\ w.dstH[s][k].id = w.dstH[s][l].id => k = l

\* What is cached under an id of CommsDat is stored; under a temporary id, new and private.
CmsFit(w) == \A i \in CmIds : w.cms[i] # None =>
    IF i \in Cms THEN /\ w.db.cm[i] # None /\ w.cms[i].status # "NotSaved" /\ w.cms[i].made /\ w.cms[i].rec # "Unsaved"
                      /\ w.cms[i].status = "ToBeDeleted" => i \in w.deleted.cm
    ELSE /\ w.cms[i].status = "NotSaved" /\ ~w.cms[i].made /\ w.cms[i].ref = 1
         /\ \E n \in 1..w.lastTemp : i = CmTemp(n)
DstsFit(w) == \A d \in DstIds : w.dsts[d] # None =>
    IF d \in Dests THEN w.db.dest[d] # None /\ w.dsts[d].status = "Valid"
    ELSE /\ w.dsts[d].status = "NotSaved" /\ w.dsts[d].ref = 1
         /\ \E n \in 1..w.lastTemp : d = DstTemp(n)
HandlesFit(w) == \A s \in Sessions : \A k \in Slots :
    w.dstH[s][k] # None /\ w.dstH[s][k].status = "Valid" => w.dstH[s][k].id \in Dests

\* What is mapped is stored and not hidden; no destination is hidden.
MappedFits(w) ==
    /\ \A c \in w.mapping.cm : w.db.cm[c] # None /\ c \notin w.deleted.cm
    /\ \A d \in Dests : w.mapping.dest[d] # None => w.db.dest[d] # None
    /\ w.deleted.dest = {}

Core(w) == /\ w \in Worlds
           /\ CmsCounted(w) /\ DstsCounted(w) /\ OneSlot(w)
           /\ CmsFit(w) /\ DstsFit(w) /\ HandlesFit(w) /\ MappedFits(w)

MapOK(w) == w.mapping = ReadMapping(w.db, w.deleted)

Current(w) == \A c \in Cms : w.cms[c] # None /\ w.cms[c].rec = "Loaded" => w.cms[c].val = w.db.cm[c]
Agree(w) == \A s \in Sessions : \A c \in Cms :
    w.cmH[s][c] # None /\ w.cmH[s][c].status = "Valid" /\ w.cmH[s][c].rec = "Loaded"
        => w.cmH[s][c].val = w.db.cm[c]

\* No handle has a CM to delete.
NoToDelete(w) == \A s \in Sessions : \A k \in Slots :
    w.dstH[s][k] # None => w.dstH[s][k].toDelete = << >>

\* e is listed by d: in CommsDat, in the mapping or by a handle.
Embeds(w, d, e) ==
    \/ d \in Dests /\ (Has(w.db.dest[d], e) \/ Has(w.mapping.dest[d], e))
    \/ \E s \in Sessions : \E k \in Slots :
         w.dstH[s][k] # None /\ w.dstH[s][k].id = d /\ e \in ToSet(w.dstH[s][k].items)
\* What destinations list is stored, and what CommsDat shows embedded is mapped.
ListedStored(w) ==
    /\ \A d \in Dests : w.db.dest[d] # None => \A c \in ToSet(w.db.dest[d]) \cap Cms : w.db.cm[c] # None
    /\ \A d \in DstIds, e \in Dests : Embeds(w, d, e) => w.db.dest[e] # None
    /\ \A d \in Dests : w.db.dest[d] # None => w.mapping.dest[d] # None
    /\ \A d, e \in Dests : Has(w.db.dest[d], e) => Has(w.mapping.dest[d], e)
\* A CM that waits to be deleted is in no destination.
HiddenUnlisted(w) == \A c \in Cms : w.cms[c] # None /\ w.cms[c].status = "ToBeDeleted" =>
    \A d \in Dests : ~Has(w.db.dest[d], c)
OneDeep(w) == \A d, e, x \in DstIds : Embeds(w, d, e) => ~Embeds(w, e, x)
Whole(w) == ListedStored(w) /\ HiddenUnlisted(w) /\ OneDeep(w)

\* What a step from w to v keeps.
KeepsMost(w, v) ==
    /\ Core(v)
    /\ connected = {} /\ MapOK(w) => MapOK(v)
    /\ Current(w) => Current(v)
    /\ Current(w) /\ Agree(w) => Agree(v)
KeepsLists(w, v) ==
    /\ KeepsMost(w, v)
    /\ Whole(w) => Whole(v)
Keeps(w, v) == KeepsLists(w, v) /\ (NoToDelete(w) => NoToDelete(v))

------------------------------------------------------------------------------

\* The four kinds of ids are apart.
LEMMA IdsApart ==
  /\ Cms \cap Dests = {} /\ CmTemps \cap DstTemps = {} /\ CmIds \cap DstIds = {}
  /\ CmIds \cap Cms = Cms /\ CmTemps \cap Cms = {} /\ DstTemps \cap Dests = {}
  /\ CmIds = Cms \cup CmTemps /\ DstIds = Dests \cup DstTemps
PROOF
  <1>1. ASSUME NEW n \in Nat PROVE CmTemp(n) \notin 1..99 /\ DstTemp(n) \notin 1..99
    BY DEF CmTemp, DstTemp, KTemporaryIdCounterStart
  <1>2. ASSUME NEW n \in Nat, NEW m \in Nat PROVE CmTemp(n) # DstTemp(m)
    BY DEF CmTemp, DstTemp, KTemporaryIdCounterStart
  <1>3. 1..MaxTemp \subseteq Nat
    OBVIOUS
  <1>4. CmTemps \cap DstTemps = {} /\ CmTemps \cap (1..99) = {} /\ DstTemps \cap (1..99) = {}
    BY <1>1, <1>2, <1>3 DEF CmTemps, DstTemps
  <1> QED BY <1>4, IdsAreDisjoint DEF CmIds, DstIds

\* The arithmetic of the reference counts.
LEMMA CountHolders ==
  ASSUME NEW H \in SUBSET Sessions, NEW s \in Sessions
  PROVE  /\ Cardinality(H) \in Nat /\ Cardinality(Sessions) \in Nat
         /\ Cardinality(H) <= Cardinality(Sessions) /\ (Cardinality(H) = 0 <=> H = {})
         /\ s \notin H => Cardinality(H \cup {s}) = Cardinality(H) + 1
         /\ s \in H => Cardinality(H \ {s}) = Cardinality(H) - 1
         /\ Cardinality({s}) = 1
         /\ Cardinality(H) = 1 /\ s \in H => H = {s}
PROOF
  <1>1. IsFiniteSet(Sessions) /\ IsFiniteSet(H) /\ Cardinality(H) <= Cardinality(Sessions)
        /\ Cardinality(H) \in Nat /\ Cardinality(Sessions) \in Nat
    BY BoundsAssumption, FS_Subset, FS_CardinalityType
  <1>2. Cardinality(H) = 0 <=> H = {}
    BY <1>1, FS_EmptySet
  <1>3. s \notin H => Cardinality(H \cup {s}) = Cardinality(H) + 1
    BY <1>1, FS_AddElement
  <1>4. s \in H => Cardinality(H \ {s}) = Cardinality(H) - 1
    BY <1>1, FS_RemoveElement
  <1>5. Cardinality(H) = 1 /\ s \in H => H = {s}
    BY <1>1, FS_Singleton
  <1>6. Cardinality({s}) = 1
    BY FS_Singleton
  <1> QED BY <1>1, <1>2, <1>3, <1>4, <1>5, <1>6

\* The mapping is what reading it would show, destination by destination.
LEMMA MappingRead ==
  ASSUME NEW w \in Worlds
  PROVE  MapOK(w) <=>
           /\ w.mapping.cm = ReadConnMethods(w.db, w.deleted)
           /\ \A d \in Dests : w.mapping.dest[d] =
                IF w.db.dest[d] # None /\ d \notin w.deleted.dest
                THEN Only(w.db.dest[d], (ReadConnMethods(w.db, w.deleted)
                        \cup { e \in Dests : w.db.dest[e] # None /\ e \notin w.deleted.dest }) \ {d})
                ELSE None
PROOF
  <1>1. w.mapping = [cm |-> w.mapping.cm, dest |-> w.mapping.dest]
        /\ w.mapping.dest = [d \in Dests |-> w.mapping.dest[d]]
    BY DEF Worlds
  <1>2. MapOK(w) <=> w.mapping.cm = ReadConnMethods(w.db, w.deleted)
                    /\ w.mapping.dest = ReadDestinations(w.db, w.deleted, ReadConnMethods(w.db, w.deleted))
    BY <1>1 DEF MapOK, ReadMapping
  <1> QED BY <1>1, <1>2 DEF ReadDestinations

\* From w to v the same sessions hold the same CMs, and the cache tells the same of them.
SameCms(w, v) ==
    /\ \A s \in Sessions : \A i \in CmIds : v.cmH[s][i] = None <=> w.cmH[s][i] = None
    /\ \A i \in CmIds : v.cms[i] = None <=> w.cms[i] = None
    /\ \A i \in CmIds : w.cms[i] # None =>
         /\ v.cms[i].status = w.cms[i].status /\ v.cms[i].ref = w.cms[i].ref
         /\ v.cms[i].made = w.cms[i].made /\ (v.cms[i].rec = "Unsaved" => w.cms[i].rec = "Unsaved")
    /\ \A c \in Cms : w.cms[c] # None => v.db.cm[c] # None
    /\ w.deleted.cm \subseteq v.deleted.cm /\ w.lastTemp <= v.lastTemp
SameDsts(w, v) ==
    /\ \A s \in Sessions : \A k \in Slots :
         /\ v.dstH[s][k] = None <=> w.dstH[s][k] = None
         /\ w.dstH[s][k] # None => /\ v.dstH[s][k].id = w.dstH[s][k].id
                                   /\ v.dstH[s][k].status \in {w.dstH[s][k].status, "Changed"}
    /\ \A d \in DstIds : v.dsts[d] = None <=> w.dsts[d] = None
    /\ \A d \in DstIds : w.dsts[d] # None =>
         v.dsts[d].status = w.dsts[d].status /\ v.dsts[d].ref = w.dsts[d].ref
    /\ \A d \in Dests : w.dsts[d] # None => v.db.dest[d] # None
    /\ w.lastTemp <= v.lastTemp

\* Counts and fitting carry over when the same CMs are held.
LEMMA SameCmsFit ==
  ASSUME NEW w, NEW v, w \in Worlds, v \in Worlds, CmsCounted(w), CmsFit(w), SameCms(w, v)
  PROVE  CmsCounted(v) /\ CmsFit(v)
PROOF
  <1>1. \A i \in CmIds : Holders(v, i) = Holders(w, i)
    BY DEF Holders, SameCms
  <1>2. CmsCounted(v)
    BY <1>1 DEF CmsCounted, SameCms
  <1>3. w.lastTemp \in Nat /\ v.lastTemp \in Nat /\ w.lastTemp <= v.lastTemp
    BY BoundsAssumption DEF Worlds, SameCms
  <1>4. 1..w.lastTemp \subseteq 1..v.lastTemp
    BY <1>3
  <1>5. CmsFit(v)
    BY <1>4 DEF CmsFit, SameCms
  <1> QED BY <1>2, <1>5

\* Counts and fitting carry over when the same destinations are held.
LEMMA SameDstsFit ==
  ASSUME NEW w, NEW v, w \in Worlds, v \in Worlds, DstsCounted(w), OneSlot(w), DstsFit(w),
         HandlesFit(w), SameDsts(w, v)
  PROVE  DstsCounted(v) /\ OneSlot(v) /\ DstsFit(v) /\ HandlesFit(v)
PROOF
  <1>1. \A s \in Sessions : \A d \in DstIds : SlotsOf(v, s, d) = SlotsOf(w, s, d)
    BY DEF SlotsOf, SameDsts
  <1>2. \A d \in DstIds : DstHolders(v, d) = DstHolders(w, d)
    BY <1>1 DEF DstHolders
  <1>3. DstsCounted(v)
    BY <1>2 DEF DstsCounted, SameDsts
  <1>4. OneSlot(v)
    BY DEF OneSlot, SameDsts
  <1>5. HandlesFit(v)
    BY DEF HandlesFit, SameDsts
  <1>6. w.lastTemp \in Nat /\ v.lastTemp \in Nat /\ w.lastTemp <= v.lastTemp
    BY BoundsAssumption DEF Worlds, SameDsts
  <1>7. 1..w.lastTemp \subseteq 1..v.lastTemp
    BY <1>6
  <1>8. DstsFit(v)
    BY <1>7 DEF DstsFit, SameDsts
  <1> QED BY <1>3, <1>4, <1>5, <1>8

\* From w to v nothing more is listed, and no destination comes or goes.
ListsLess(w, v) ==
    /\ \A d \in DstIds : \A e \in DstIds : Embeds(v, d, e) => Embeds(w, d, e)
    /\ \A d \in Dests : v.db.dest[d] = None <=> w.db.dest[d] = None
    /\ \A d \in Dests : v.mapping.dest[d] = None <=> w.mapping.dest[d] = None
    /\ \A d \in Dests : \A x \in Cms \cup Dests : Has(v.db.dest[d], x) => Has(w.db.dest[d], x)
    /\ \A d \in Dests : \A e \in Dests :
         Has(w.mapping.dest[d], e) /\ Has(v.db.dest[d], e) => Has(v.mapping.dest[d], e)
    /\ \A c \in Cms : w.db.cm[c] # None =>
         \/ v.db.cm[c] # None
         \/ \A d \in Dests : ~Has(v.db.dest[d], c)
    /\ \A c \in Cms : v.cms[c] # None /\ v.cms[c].status = "ToBeDeleted" =>
         \/ w.cms[c] # None /\ w.cms[c].status = "ToBeDeleted"
         \/ \A d \in Dests : ~Has(v.db.dest[d], c)

\* Whole destinations stay whole when nothing more is listed.
LEMMA ListsLessWhole ==
  ASSUME NEW w, NEW v, w \in Worlds, v \in Worlds, Whole(w), ListsLess(w, v)
  PROVE  Whole(v)
PROOF
  <1>0. /\ \A d \in Dests : v.db.dest[d] = None <=> w.db.dest[d] = None
        /\ \A d \in Dests : v.mapping.dest[d] = None <=> w.mapping.dest[d] = None
    BY DEF ListsLess
  <1>1. ListedStored(v)
    <2>1. ASSUME NEW d \in Dests, v.db.dest[d] # None, NEW c \in ToSet(v.db.dest[d]) \cap Cms
          PROVE  v.db.cm[c] # None
      <3>1. Has(v.db.dest[d], c)
        BY <2>1 DEF Has
      <3>2. Has(w.db.dest[d], c)
        BY <3>1 DEF ListsLess
      <3>3. w.db.cm[c] # None
        BY <3>2 DEF Whole, ListedStored, Has
      <3> QED BY <3>1, <3>3 DEF ListsLess
    <2>2. \A d \in DstIds, e \in Dests : Embeds(v, d, e) => v.db.dest[e] # None
      <3>1. SUFFICES ASSUME NEW d \in DstIds, NEW e \in Dests, Embeds(v, d, e) PROVE v.db.dest[e] # None
        OBVIOUS
      <3>2. Embeds(w, d, e)
        BY <3>1, IdsApart DEF ListsLess
      <3>3. w.db.dest[e] # None
        BY <3>2 DEF Whole, ListedStored
      <3> QED BY <3>3, <1>0
    <2>3. ASSUME NEW d \in Dests, v.db.dest[d] # None PROVE v.mapping.dest[d] # None
      <3>1. w.db.dest[d] # None
        BY <2>3, <1>0
      <3>2. w.mapping.dest[d] # None
        BY <3>1 DEF Whole, ListedStored
      <3> QED BY <3>2, <1>0
    <2>4. \A d, e \in Dests : Has(v.db.dest[d], e) => Has(v.mapping.dest[d], e)
      BY DEF Whole, ListedStored, ListsLess
    <2> QED BY <2>1, <2>2, <2>3, <2>4 DEF ListedStored
  <1>2. HiddenUnlisted(v)
    BY DEF Whole, HiddenUnlisted, ListsLess
  <1>3. OneDeep(v)
    BY DEF Whole, OneDeep, ListsLess
  <1> QED BY <1>1, <1>2, <1>3 DEF Whole

\* What follows a step that keeps all this keeps it too.
LEMMA KeepsBoth ==
  ASSUME NEW w, NEW v, NEW x, Keeps(w, v), Keeps(v, x)
  PROVE  Keeps(w, x)
  BY DEF Keeps, KeepsLists, KeepsMost

\* A step that changes only CMs' structures and handles.
LEMMA CmsOnlyKeeps ==
  ASSUME NEW w, NEW v, Core(w), v \in Worlds,
         v.db = w.db, v.mapping = w.mapping, v.deleted = w.deleted,
         v.dsts = w.dsts, v.dstH = w.dstH, w.lastTemp <= v.lastTemp,
         CmsCounted(v), CmsFit(v), Current(w) => Current(v), Current(w) /\ Agree(w) => Agree(v),
         \A c \in Cms : v.cms[c] # None /\ v.cms[c].status = "ToBeDeleted" =>
            w.cms[c] # None /\ w.cms[c].status = "ToBeDeleted"
  PROVE  Keeps(w, v)
PROOF
  <1>1. SameDsts(w, v)
    BY IdsApart DEF SameDsts, Core, DstsFit
  <1>2. DstsCounted(v) /\ OneSlot(v) /\ DstsFit(v) /\ HandlesFit(v)
    BY <1>1, SameDstsFit DEF Core
  <1>3. MappedFits(v) /\ (MapOK(w) => MapOK(v))
    BY DEF Core, MappedFits, MapOK
  <1>4. NoToDelete(w) => NoToDelete(v)
    BY DEF NoToDelete
  <1>5. ListsLess(w, v)
    <2>1. \A d \in DstIds : \A e \in DstIds : Embeds(v, d, e) => Embeds(w, d, e)
      BY DEF Embeds
    <2> QED BY <2>1 DEF ListsLess
  <1>6. Whole(w) => Whole(v)
    BY <1>5, ListsLessWhole DEF Core
  <1> QED BY <1>2, <1>3, <1>4, <1>6 DEF Keeps, KeepsLists, KeepsMost, Core

\* A step that changes only destinations' structures and handles.
LEMMA DstsOnlyMost ==
  ASSUME NEW w, NEW v, Core(w), v \in Worlds,
         v.db = w.db, v.mapping = w.mapping, v.deleted = w.deleted,
         v.cms = w.cms, v.cmH = w.cmH, w.lastTemp <= v.lastTemp,
         DstsCounted(v), OneSlot(v), DstsFit(v), HandlesFit(v)
  PROVE  KeepsMost(w, v)
PROOF
  <1>1. SameCms(w, v)
    BY IdsApart DEF SameCms, Core, CmsFit
  <1>2. CmsCounted(v) /\ CmsFit(v)
    BY <1>1, SameCmsFit DEF Core
  <1>3. MappedFits(v) /\ (MapOK(w) => MapOK(v)) /\ (Current(w) => Current(v)) /\ (Agree(w) => Agree(v))
    BY DEF Core, MappedFits, MapOK, Current, Agree
  <1> QED BY <1>2, <1>3 DEF KeepsMost, Core

\* A step that only touches destination handles which list no more.
LEMMA DstsOnlyLists ==
  ASSUME NEW w, NEW v, Core(w), KeepsMost(w, v),
         v.db = w.db, v.mapping = w.mapping, v.cms = w.cms,
         Whole(w) => \A d \in DstIds : \A e \in DstIds : Embeds(v, d, e) => Embeds(w, d, e)
  PROVE  KeepsLists(w, v)
PROOF
  <1>2. ASSUME Whole(w) PROVE Whole(v)
    <2>1. ListsLess(w, v)
      BY <1>2 DEF ListsLess
    <2> QED BY <2>1, <1>2, ListsLessWhole DEF Core, KeepsMost
  <1> QED BY <1>2 DEF KeepsLists

\* RefreshHandles: handles that are out of date say so.
LEMMA OutdateCmsKeeps ==
  ASSUME NEW w, Core(w), NEW C
  PROVE  Keeps(w, OutdateCms(w, C))
PROOF
  <1> DEFINE v == OutdateCms(w, C)
  <1>1. w \in Worlds
    BY DEF Core
  <1>2. /\ v.db = w.db /\ v.mapping = w.mapping /\ v.deleted = w.deleted /\ v.cms = w.cms
        /\ v.dsts = w.dsts /\ v.dstH = w.dstH /\ v.lastTemp = w.lastTemp
    BY <1>1 DEF OutdateCms, Worlds
  <1>3. \A s \in Sessions : \A i \in CmIds : v.cmH[s][i] =
          IF i \in C /\ w.cmH[s][i] # None THEN [w.cmH[s][i] EXCEPT !.status = "Changed"] ELSE w.cmH[s][i]
    BY <1>1 DEF OutdateCms, Worlds
  <1>4. v \in Worlds <=> v.cmH \in [Sessions -> [CmIds -> CmHandles \cup {None}]]
    BY <1>1 DEF OutdateCms, Worlds
  <1>5. v.cmH = [s \in Sessions |-> [i \in CmIds |-> v.cmH[s][i]]]
    BY <1>1 DEF OutdateCms, Worlds
  <1> HIDE DEF v
  <1>6. ASSUME NEW s \in Sessions, NEW i \in CmIds
        PROVE  /\ v.cmH[s][i] = None <=> w.cmH[s][i] = None
               /\ v.cmH[s][i] \in CmHandles \cup {None}
               /\ v.cmH[s][i] # None /\ v.cmH[s][i].status = "Valid" => v.cmH[s][i] = w.cmH[s][i]
    <2>1. CASE i \in C /\ w.cmH[s][i] # None
      <3>1. w.cmH[s][i] \in CmHandles /\ v.cmH[s][i] = [w.cmH[s][i] EXCEPT !.status = "Changed"]
        BY <2>1, <1>1, <1>3 DEF Worlds
      <3>2. v.cmH[s][i] \in CmHandles /\ v.cmH[s][i].status = "Changed"
        BY <3>1 DEF CmHandles
      <3> QED BY <2>1, <3>2, NoneIsNothing
    <2>2. CASE ~(i \in C /\ w.cmH[s][i] # None)
      <3>1. v.cmH[s][i] = w.cmH[s][i]
        BY <2>2, <1>3
      <3>2. w.cmH[s][i] \in CmHandles \cup {None}
        BY <1>1 DEF Worlds
      <3> QED BY <3>1, <3>2
    <2> QED BY <2>1, <2>2
  <1>7. v \in Worlds
    BY <1>4, <1>5, <1>6
  <1>8. SameCms(w, v)
    BY <1>1, <1>2, <1>6, IdsApart, BoundsAssumption DEF SameCms, Core, CmsFit, Worlds
  <1>9. (Current(w) => Current(v)) /\ (Agree(w) => Agree(v))
    BY <1>2, <1>6, IdsApart DEF Current, Agree
  <1>10. CmsCounted(v) /\ CmsFit(v)
    BY <1>1, <1>7, <1>8, SameCmsFit DEF Core
  <1>11. w.lastTemp <= v.lastTemp
    BY <1>8 DEF SameCms
  <1> QED BY <1>2, <1>7, <1>9, <1>10, <1>11, CmsOnlyKeeps DEF v

\* Closing handles to CMs: the last one deletes what was to be deleted.
LEMMA CloseCmsKeeps ==
  ASSUME NEW w, Core(w), NEW s \in Sessions, NEW C \in SUBSET CmIds,
         \A i \in C : w.cmH[s][i] # None
  PROVE  Keeps(w, CloseCms(w, s, C))
PROOF
  <1> DEFINE last == LastHandles(w, C)
             gone == { c \in last : w.cms[c].status = "ToBeDeleted" }
             v == CloseCms(w, s, C)
  <1>1. w \in Worlds
    BY DEF Core
  <1>2. /\ v.mapping = w.mapping /\ v.dsts = w.dsts /\ v.dstH = w.dstH /\ v.lastTemp = w.lastTemp
    BY <1>1 DEF CloseCms, Worlds
  <1>3. v.db = [w.db EXCEPT !.cm = [c \in Cms |-> IF c \in gone \ connected THEN None ELSE w.db.cm[c]]]
    BY <1>1 DEF CloseCms, Worlds
  <1>4. v.deleted = [w.deleted EXCEPT !.cm = w.deleted.cm \ gone]
    BY <1>1 DEF CloseCms, Worlds
  <1>5. v.cms = [i \in CmIds |-> IF i \in last THEN None
                             ELSE IF i \in C THEN [w.cms[i] EXCEPT !.ref = w.cms[i].ref - 1]
                             ELSE w.cms[i]]
    BY <1>1 DEF CloseCms, Worlds
  <1>6. v.cmH = [w.cmH EXCEPT ![s] = [i \in CmIds |-> IF i \in C THEN None ELSE w.cmH[s][i]]]
    BY <1>1, SMTT(60) DEF CloseCms, Worlds
  <1>7. v \in Worlds <=> /\ v.db \in Data /\ v.deleted \in [cm : SUBSET Cms, dest : SUBSET Dests]
                        /\ v.cms \in [CmIds -> CmStructs \cup {None}]
                        /\ v.cmH \in [Sessions -> [CmIds -> CmHandles \cup {None}]]
    BY <1>1, Zenon DEF CloseCms, Worlds
  <1>8. last \subseteq C /\ gone \subseteq last /\ last = { i \in C : w.cms[i].ref <= 1 }
    BY DEF LastHandles
  <1> HIDE DEF v, last, gone
  \* Who holds what.
  <1>9. ASSUME NEW i \in C
        PROVE  /\ s \in Holders(w, i) /\ w.cms[i] # None /\ w.cms[i] \in CmStructs
               /\ w.cms[i].ref = Cardinality(Holders(w, i)) /\ Cardinality(Holders(w, i)) \in Nat
               /\ Cardinality(Holders(w, i)) # 0
    <2>1. s \in Holders(w, i) /\ Holders(w, i) \in SUBSET Sessions /\ i \in CmIds
      BY DEF Holders
    <2>2. w.cms[i] # None /\ w.cms[i].ref = Cardinality(Holders(w, i))
      BY <2>1 DEF Core, CmsCounted
    <2>3. w.cms[i] \in CmStructs
      BY <1>1, <2>1, <2>2 DEF Worlds
    <2>4. Cardinality(Holders(w, i)) \in Nat /\ (Cardinality(Holders(w, i)) = 0 <=> Holders(w, i) = {})
      BY <2>1, CountHolders
    <2> QED BY <2>1, <2>2, <2>3, <2>4
  <1>10. \A i \in CmIds : Holders(v, i) = IF i \in C THEN Holders(w, i) \ {s} ELSE Holders(w, i)
    BY <1>1, <1>6 DEF Holders, Worlds
  <1>11. \A i \in C : w.cms[i].ref \in Nat /\ w.cms[i].ref # 0 /\ (i \in last <=> w.cms[i].ref = 1)
    BY <1>8, <1>9
  <1>12. ASSUME NEW i \in CmIds
         PROVE  IF v.cms[i] = None THEN w.cms[i] = None \/ i \in last
                ELSE /\ w.cms[i] # None /\ i \notin last /\ v.cms[i] \in CmStructs
                     /\ v.cms[i].status = w.cms[i].status /\ v.cms[i].rec = w.cms[i].rec
                     /\ v.cms[i].val = w.cms[i].val /\ v.cms[i].made = w.cms[i].made
                     /\ v.cms[i].ref = IF i \in C THEN w.cms[i].ref - 1 ELSE w.cms[i].ref
    <2>1. CASE i \in last
      BY <2>1, <1>5, <1>8
    <2>2. CASE i \in C \ last
      <3>1. w.cms[i] # None /\ w.cms[i] \in CmStructs /\ v.cms[i] = [w.cms[i] EXCEPT !.ref = w.cms[i].ref - 1]
        BY <2>2, <1>5, <1>9
      <3>2. w.cms[i].ref \in 1..Cardinality(Sessions) /\ w.cms[i].ref - 1 \in 1..Cardinality(Sessions)
        <4>1. Cardinality(Sessions) \in Nat
          BY BoundsAssumption, FS_CardinalityType
        <4>2. w.cms[i].ref \in 1..Cardinality(Sessions)
          BY <3>1 DEF CmStructs
        <4> QED BY <2>2, <4>1, <4>2, <1>11
      <3>3. v.cms[i] \in CmStructs
        BY <3>1, <3>2 DEF CmStructs
      <3>4. v.cms[i] # None
        BY <3>3, NoneIsNothing
      <3> QED BY <2>2, <3>1, <3>3, <3>4 DEF CmStructs
    <2>3. CASE i \notin C
      <3>1. v.cms[i] = w.cms[i] /\ i \notin last
        BY <2>3, <1>5, <1>8
      <3> QED BY <3>1, <2>3, <1>1 DEF Worlds
    <2> QED BY <2>1, <2>2, <2>3, <1>8
  \* What is deleted: nobody holds it, and it was hidden.
  <1>13. ASSUME NEW c \in gone
         PROVE  c \in Cms /\ c \in w.deleted.cm /\ c \notin w.mapping.cm /\ v.cms[c] = None
                /\ c \in CmIds /\ w.cms[c] # None /\ w.cms[c].status = "ToBeDeleted"
    <2>1. c \in CmIds /\ w.cms[c] # None /\ w.cms[c].status = "ToBeDeleted" /\ c \in last
      BY <1>8, <1>9 DEF gone
    <2>2. c \in Cms
      BY <2>1 DEF Core, CmsFit
    <2>3. c \in w.deleted.cm
      BY <2>1, <2>2 DEF Core, CmsFit
    <2> QED BY <2>1, <2>2, <2>3, <1>5 DEF Core, MappedFits
  <1>14. ASSUME NEW c \in Cms
         PROVE  v.db.cm[c] = IF c \in gone \ connected THEN None ELSE w.db.cm[c]
    BY <1>1, <1>3 DEF Worlds, Data
  <1>15. v.db.dest = w.db.dest /\ v.deleted.dest = w.deleted.dest /\ v.deleted.cm = w.deleted.cm \ gone
    BY <1>1, <1>3, <1>4 DEF Worlds, Data
  <1>16. v \in Worlds
    <2>1. v.db \in Data
      <3>1. w.db.cm \in [Cms -> Values \cup {None}] /\ w.db.dest \in [Dests -> Items \cup {None}]
            /\ w.db = [cm |-> w.db.cm, dest |-> w.db.dest]
        BY <1>1 DEF Worlds, Data
      <3>2. [c \in Cms |-> IF c \in gone \ connected THEN None ELSE w.db.cm[c]] \in [Cms -> Values \cup {None}]
        BY <3>1
      <3> QED BY <1>3, <3>1, <3>2 DEF Data
    <2>2. v.deleted \in [cm : SUBSET Cms, dest : SUBSET Dests]
      BY <1>1, <1>4 DEF Worlds
    <2>3. v.cms \in [CmIds -> CmStructs \cup {None}]
      BY <1>5, <1>12
    <2>4. v.cmH \in [Sessions -> [CmIds -> CmHandles \cup {None}]]
      BY <1>1, <1>6 DEF Worlds
    <2> QED BY <1>7, <2>1, <2>2, <2>3, <2>4
  <1>17. CmsCounted(v)
    <2>1. SUFFICES ASSUME NEW i \in CmIds
          PROVE IF v.cms[i] = None THEN Holders(v, i) = {} ELSE v.cms[i].ref = Cardinality(Holders(v, i))
      BY DEF CmsCounted
    <2>2. CASE i \in C
      <3>1. Holders(v, i) = Holders(w, i) \ {s} /\ s \in Holders(w, i) /\ Holders(w, i) \in SUBSET Sessions
        BY <2>2, <1>9, <1>10 DEF Holders
      <3>2. Cardinality(Holders(v, i)) = w.cms[i].ref - 1
        <4> DEFINE H == Holders(w, i)
        <4>0. H \in SUBSET Sessions /\ s \in H
          BY <3>1
        <4> HIDE DEF H
        <4>1. Cardinality(H \ {s}) = Cardinality(H) - 1
          BY <4>0, CountHolders
        <4> QED BY <3>1, <4>1, <2>2, <1>9 DEF H
      <3>3. w.cms[i] # None
        BY <2>2, <1>9
      <3>4. CASE i \in last
        <4>1. Holders(w, i) = {s}
          <5>1. Cardinality(Holders(w, i)) = 1
            BY <3>4, <2>2, <1>9, <1>11
          <5> QED BY <5>1, <3>1, CountHolders
        <4> QED BY <3>1, <4>1, <1>5, <3>4
      <3> QED BY <3>2, <3>3, <3>4, <1>12, <2>2
    <2>3. CASE i \notin C
      <3>1. v.cms[i] = w.cms[i] /\ Holders(v, i) = Holders(w, i)
        BY <2>3, <1>5, <1>8, <1>10
      <3> QED BY <3>1 DEF Core, CmsCounted
    <2> QED BY <2>2, <2>3
  <1>18. DstsCounted(v) /\ OneSlot(v) /\ DstsFit(v) /\ HandlesFit(v)
    <2>1. \A d \in DstIds : DstHolders(v, d) = DstHolders(w, d)
      BY <1>2 DEF DstHolders, SlotsOf
    <2>2. DstsCounted(v)
      BY <1>2, <2>1 DEF Core, DstsCounted
    <2>3. OneSlot(v) /\ HandlesFit(v)
      BY <1>2 DEF Core, OneSlot, HandlesFit
    <2>4. DstsFit(v)
      BY <1>2, <1>15 DEF Core, DstsFit
    <2> QED BY <2>2, <2>3, <2>4
  <1>19. CmsFit(v)
    <2>1. SUFFICES ASSUME NEW i \in CmIds, v.cms[i] # None
          PROVE IF i \in Cms THEN /\ v.db.cm[i] # None /\ v.cms[i].status # "NotSaved" /\ v.cms[i].made /\ v.cms[i].rec # "Unsaved"
                                  /\ v.cms[i].status = "ToBeDeleted" => i \in v.deleted.cm
                ELSE /\ v.cms[i].status = "NotSaved" /\ ~v.cms[i].made /\ v.cms[i].ref = 1
                     /\ \E n \in 1..v.lastTemp : i = CmTemp(n)
      BY DEF CmsFit
    <2>2. w.cms[i] # None /\ i \notin last /\ i \notin gone
      BY <2>1, <1>12, <1>8
    <2>3. CASE i \in Cms
      BY <2>1, <2>2, <2>3, <1>12, <1>14, <1>15 DEF Core, CmsFit
    <2>4. CASE i \notin Cms
      <3>1. w.cms[i].status = "NotSaved" /\ ~w.cms[i].made /\ w.cms[i].ref = 1 /\ \E n \in 1..w.lastTemp : i = CmTemp(n)
        BY <2>2, <2>4 DEF Core, CmsFit
      <3>2. i \notin C
        BY <3>1, <2>2, <1>11
      <3> QED BY <3>1, <3>2, <2>1, <2>4, <1>12, <1>2
    <2> QED BY <2>3, <2>4
  <1>20. MappedFits(v)
    BY <1>2, <1>13, <1>14, <1>15 DEF Core, MappedFits, Worlds
  <1>21. ASSUME connected = {}, MapOK(w) PROVE MapOK(v)
    <2>1. ReadConnMethods(v.db, v.deleted) = ReadConnMethods(w.db, w.deleted)
      BY <1>13, <1>14, <1>15, <1>21 DEF ReadConnMethods
    <2> QED BY <2>1, <1>1, <1>2, <1>15, <1>16, <1>21, MappingRead, SMTT(60)
  <1>22. ASSUME Current(w) PROVE Current(v)
    BY <1>22, <1>12, <1>13, <1>14, IdsApart DEF Current
  <1>23. ASSUME Agree(w) PROVE Agree(v)
    <2>1. SUFFICES ASSUME NEW u \in Sessions, NEW c \in Cms, v.cmH[u][c] # None
          PROVE v.cmH[u][c] = w.cmH[u][c] /\ v.db.cm[c] = w.db.cm[c]
      BY <1>23 DEF Agree
    <2>2. c \in CmIds
      BY IdsApart
    <2>3. v.cmH[u][c] = w.cmH[u][c]
      BY <2>1, <2>2, <1>1, <1>6 DEF Worlds
    <2>4. u \in Holders(v, c)
      BY <2>1 DEF Holders
    <2>5. v.cms[c] # None
      BY <2>4, <2>2, <1>17 DEF CmsCounted
    <2> QED BY <2>3, <2>5, <1>13, <1>14
  <1>24. NoToDelete(w) => NoToDelete(v)
    BY <1>2, <1>15 DEF NoToDelete
  <1>25. ASSUME Whole(w) PROVE Whole(v)
    <2>1. \A d \in DstIds, e \in DstIds : Embeds(v, d, e) <=> Embeds(w, d, e)
      BY <1>2, <1>15 DEF Embeds
    <2>2. ListedStored(v)
      <3>1. ASSUME NEW d \in Dests, v.db.dest[d] # None, NEW c \in ToSet(v.db.dest[d]) \cap Cms
            PROVE  v.db.cm[c] # None
        <4>1. w.db.cm[c] # None /\ Has(w.db.dest[d], c)
          BY <3>1, <1>15, <1>25 DEF Whole, ListedStored, Has
        <4>2. c \notin gone
          BY <4>1, <1>13, <1>25 DEF Whole, HiddenUnlisted
        <4> QED BY <4>1, <4>2, <1>14
      <3>2. \A d \in DstIds, e \in Dests : Embeds(v, d, e) => v.db.dest[e] # None
        BY <2>1, <1>15, <1>25, IdsApart DEF Whole, ListedStored
      <3> QED BY <3>1, <3>2, <1>2, <1>15, <1>25 DEF Whole, ListedStored
    <2>3. HiddenUnlisted(v)
      BY <1>12, <1>15, <1>25, IdsApart DEF Whole, HiddenUnlisted
    <2>4. OneDeep(v)
      BY <2>1, <1>25 DEF Whole, OneDeep
    <2> QED BY <2>2, <2>3, <2>4 DEF Whole
  <1> QED BY <1>16, <1>17, <1>18, <1>19, <1>20, <1>21, <1>22, <1>23, <1>24, <1>25 DEF Keeps, KeepsLists, KeepsMost, Core, v

\* The next state as a value.
LEMMA BecomeIs ==
  ASSUME NEW v, v \in Worlds, Become(v)
  PROVE  /\ World' = v
         /\ notify' = (notify \/ v.db # db)
         /\ scenario' = scenario /\ sessions' = sessions /\ connected' = connected
         /\ panicked' = panicked
PROOF
  <1>1. v = [db |-> v.db, mapping |-> v.mapping, deleted |-> v.deleted, cms |-> v.cms,
             dsts |-> v.dsts, cmH |-> v.cmH, dstH |-> v.dstH, lastTemp |-> v.lastTemp]
    BY DEF Worlds
  <1>2. World' = [db |-> v.db, mapping |-> v.mapping, deleted |-> v.deleted, cms |-> v.cms,
             dsts |-> v.dsts, cmH |-> v.cmH, dstH |-> v.dstH, lastTemp |-> v.lastTemp]
    BY DEF World, Become
  <1> QED BY <1>1, <1>2 DEF Become

\* One CM's structure and the handle of s to it are replaced.
LEMMA CmSetKeeps ==
  ASSUME NEW w, NEW v, Core(w), NEW s \in Sessions, NEW i \in CmIds,
         NEW x \in CmStructs, NEW h \in CmHandles, NEW n \in 0..MaxTemp, w.lastTemp <= n,
         v = [w EXCEPT !.cms = [w.cms EXCEPT ![i] = x],
                       !.cmH = [w.cmH EXCEPT ![s] = [w.cmH[s] EXCEPT ![i] = h]],
                       !.lastTemp = n],
         x.ref = Cardinality(Holders(w, i) \cup {s}),
         i \in Cms => /\ w.db.cm[i] # None /\ x.status # "NotSaved" /\ x.made /\ x.rec # "Unsaved"
                      /\ x.status = "ToBeDeleted" =>
                           /\ i \in w.deleted.cm
                           /\ w.cms[i] # None /\ w.cms[i].status = "ToBeDeleted"
                      /\ Current(w) /\ x.rec = "Loaded" => x.val = w.db.cm[i]
                      /\ Current(w) /\ h.status = "Valid" /\ h.rec = "Loaded" => h.val = w.db.cm[i],
         i \notin Cms => /\ x.status = "NotSaved" /\ ~x.made /\ x.ref = 1
                         /\ \E m \in 1..n : i = CmTemp(m)
  PROVE  Keeps(w, v)
PROOF
  <1>1. w \in Worlds
    BY DEF Core
  <1>2. /\ v.db = w.db /\ v.mapping = w.mapping /\ v.deleted = w.deleted
        /\ v.dsts = w.dsts /\ v.dstH = w.dstH /\ v.lastTemp = n
    BY <1>1 DEF Worlds
  <1>3. v.cms = [w.cms EXCEPT ![i] = x] /\ v.cmH = [w.cmH EXCEPT ![s] = [w.cmH[s] EXCEPT ![i] = h]]
    BY <1>1 DEF Worlds
  <1>4. v \in Worlds
    BY <1>1 DEF Worlds
  <1>5. \A j \in CmIds : v.cms[j] = IF j = i THEN x ELSE w.cms[j]
    BY <1>1, <1>3 DEF Worlds
  <1>6. \A u \in Sessions : \A j \in CmIds : v.cmH[u][j] = IF u = s /\ j = i THEN h ELSE w.cmH[u][j]
    BY <1>1, <1>3 DEF Worlds
  <1>7. x # None /\ h # None
    BY NoneIsNothing
  <1>8. CmsCounted(v)
    <2>1. Holders(v, i) = Holders(w, i) \cup {s}
      BY <1>6, <1>7 DEF Holders
    <2>2. \A j \in CmIds \ {i} : Holders(v, j) = Holders(w, j)
      BY <1>6 DEF Holders
    <2> QED BY <1>5, <1>7, <2>1, <2>2, ZenonT(60) DEF Core, CmsCounted
  <1>9. CmsFit(v)
    <2>1. 1..w.lastTemp \subseteq 1..n
      BY <1>1, BoundsAssumption DEF Worlds
    <2> QED BY <1>2, <1>5, <1>7, <2>1 DEF Core, CmsFit
  <1>10. ASSUME Current(w) PROVE Current(v) /\ (Agree(w) => Agree(v))
    BY <1>10, <1>2, <1>5, <1>6, IdsApart DEF Current, Agree
  <1>11. \A c \in Cms : v.cms[c] # None /\ v.cms[c].status = "ToBeDeleted" =>
            w.cms[c] # None /\ w.cms[c].status = "ToBeDeleted"
    BY <1>5, IdsApart
  <1> QED BY <1>2, <1>4, <1>8, <1>9, <1>10, <1>11, CmsOnlyKeeps

\* What a record of the cache or of a session becomes.
LEMMA SetFields ==
  /\ \A x \in CmStructs : x # None /\ x.ref \in 1..Cardinality(Sessions)
  /\ \A x \in DstStructs : x # None /\ x.ref \in 1..Cardinality(Sessions)
  /\ \A h \in CmHandles \cup DstHandles : h # None
  /\ DefaultValue \in Values
PROOF
  <1>1. DefaultValue \in Values
    BY BoundsAssumption DEF DefaultValue
  <1> QED BY <1>1, NoneIsNothing DEF CmStructs, DstStructs

\* SetIntAttributeL and the others: the handle's own copy.
LEMMA SetAttributeKeeps ==
  ASSUME NEW w, Core(w), NEW s \in Sessions, NEW i \in CmIds, NEW x \in Values, w.cmH[s][i] # None
  PROVE  Keeps(w, [w EXCEPT !.cmH[s][i] = [status |-> w.cmH[s][i].status, rec |-> "Modified", val |-> x]])
PROOF
  <1> DEFINE h == [status |-> w.cmH[s][i].status, rec |-> "Modified", val |-> x]
             v == [w EXCEPT !.cms = [w.cms EXCEPT ![i] = w.cms[i]],
                            !.cmH = [w.cmH EXCEPT ![s] = [w.cmH[s] EXCEPT ![i] = h]],
                            !.lastTemp = w.lastTemp]
  <1>1. w \in Worlds /\ w.cmH[s][i] \in CmHandles
    BY DEF Core, Worlds
  <1>2. s \in Holders(w, i)
    BY DEF Holders
  <1>3. w.cms[i] # None /\ w.cms[i].ref = Cardinality(Holders(w, i))
    BY <1>2 DEF Core, CmsCounted
  <1>4. w.cms[i] \in CmStructs /\ w.lastTemp \in 0..MaxTemp /\ w.lastTemp <= w.lastTemp
    BY <1>1, <1>3, BoundsAssumption DEF Worlds
  <1>5. h \in CmHandles
    BY <1>1 DEF CmHandles
  <1>6. Holders(w, i) \cup {s} = Holders(w, i)
    BY <1>2
  <1>7. i \in Cms => /\ w.db.cm[i] # None /\ w.cms[i].status # "NotSaved" /\ w.cms[i].made /\ w.cms[i].rec # "Unsaved"
                     /\ w.cms[i].status = "ToBeDeleted" => i \in w.deleted.cm
                     /\ Current(w) /\ w.cms[i].rec = "Loaded" => w.cms[i].val = w.db.cm[i]
    BY <1>3 DEF Core, CmsFit, Current
  <1>8. i \notin Cms => /\ w.cms[i].status = "NotSaved" /\ ~w.cms[i].made /\ w.cms[i].ref = 1
                        /\ \E m \in 1..w.lastTemp : i = CmTemp(m)
    BY <1>3 DEF Core, CmsFit
  <1>9. h.rec # "Loaded"
    OBVIOUS
  <1> HIDE DEF h
  <1>10. [w EXCEPT !.cmH[s][i] = h] = v
    BY <1>1 DEF Worlds
  <1>11. Keeps(w, v)
    <2> HIDE DEF v
    <2> QED BY <1>3, <1>4, <1>5, <1>6, <1>7, <1>8, <1>9, CmSetKeeps, Zenon DEF v
  <1> QED BY <1>10, <1>11 DEF h

\* A CM that is not saved, with a temporary id.
LEMMA WithNewCmKeeps ==
  ASSUME NEW w, Core(w), NEW s \in Sessions, NEW x \in Values, w.lastTemp < MaxTemp
  PROVE  Keeps(w, WithNewCm(w, s, x))
PROOF
  <1> DEFINE t == CmTemp(w.lastTemp + 1)
             h == NewCmHandle(x)
             new == [status |-> "NotSaved", rec |-> "Unsaved", ref |-> 1, val |-> x, made |-> FALSE]
             v == [w EXCEPT !.cms = [w.cms EXCEPT ![t] = new],
                            !.cmH = [w.cmH EXCEPT ![s] = [w.cmH[s] EXCEPT ![t] = h]],
                            !.lastTemp = w.lastTemp + 1]
  <1>1. w \in Worlds
    BY DEF Core
  <1>2. w.lastTemp \in 0..MaxTemp /\ w.lastTemp + 1 \in 0..MaxTemp /\ w.lastTemp <= w.lastTemp + 1
        /\ w.lastTemp + 1 \in 1..MaxTemp
    BY <1>1, BoundsAssumption DEF Worlds
  <1>3. t \in CmTemps /\ t \in CmIds /\ t \notin Cms
    BY <1>2, IdsApart DEF CmTemps
  <1>4. w.cms[t] = None
    <2>1. SUFFICES ASSUME w.cms[t] # None PROVE FALSE
      OBVIOUS
    <2>2. PICK n \in 1..w.lastTemp : t = CmTemp(n)
      BY <2>1, <1>3 DEF Core, CmsFit
    <2> QED BY <2>2, <1>2 DEF CmTemp, KTemporaryIdCounterStart
  <1>5. Holders(w, t) = {} /\ Holders(w, t) \cup {s} = {s} /\ Cardinality({s}) = 1
    BY <1>3, <1>4, FS_Singleton DEF Core, CmsCounted
  <1>6. Cardinality(Sessions) \in Nat /\ Cardinality(Sessions) # 0
    BY BoundsAssumption, FS_CardinalityType, FS_EmptySet
  <1>7. new \in CmStructs /\ h \in CmHandles
    BY <1>6 DEF CmStructs, CmHandles, NewCmHandle
  <1>8. new.ref = Cardinality(Holders(w, t) \cup {s})
    BY <1>5
  <1>9. \E m \in 1..(w.lastTemp + 1) : t = CmTemp(m)
    BY <1>2
  <1>10. new.status = "NotSaved" /\ ~new.made /\ new.ref = 1
    OBVIOUS
  <1>11. WithNewCm(w, s, x) = v
    BY <1>1 DEF WithNewCm, Worlds
  <1> HIDE DEF t, new, h, v
  <1>12. Keeps(w, v)
    BY <1>2, <1>3, <1>7, <1>8, <1>9, <1>10, CmSetKeeps, Zenon DEF v
  <1> QED BY <1>11, <1>12

\* What Reloaded leaves and what it takes from CommsDat.
LEMMA ReloadedIs ==
  ASSUME NEW r \in CmStructs, NEW c \in Cms
  PROVE  Reloaded(r, c) = IF r.rec = "Expired"
           THEN [status |-> r.status, rec |-> "Loaded", ref |-> r.ref, val |-> db.cm[c], made |-> r.made]
           ELSE r
PROOF
  <1> DEFINE m == [r EXCEPT !.val = db.cm[c]]
  <1>1. m = [status |-> r.status, rec |-> r.rec, ref |-> r.ref, val |-> db.cm[c], made |-> r.made]
    BY DEF CmStructs
  <1>2. [r EXCEPT !.val = db.cm[c], !.rec = "Loaded"] = [m EXCEPT !.rec = "Loaded"]
    OBVIOUS
  <1> HIDE DEF m
  <1>3. [m EXCEPT !.rec = "Loaded"]
          = [status |-> r.status, rec |-> "Loaded", ref |-> r.ref, val |-> db.cm[c], made |-> r.made]
    BY <1>1
  <1> QED BY <1>2, <1>3 DEF Reloaded

\* GetConnMethodWithIdL: loaded, cached, or loaded again.
LEMMA OpenConnMethodKeeps ==
  ASSUME Core(World), NEW s \in Sessions, NEW c \in Cms, OpenConnMethod(s, c)
  PROVE  Keeps(World, World')
PROOF
  <1> DEFINE w == World
             x == [OpenedCm(c) EXCEPT !.ref = OpenedCm(c).ref + 1]
             h == CopyOf(OpenedCm(c))
             v == [w EXCEPT !.cms = [w.cms EXCEPT ![c] = x],
                            !.cmH = [w.cmH EXCEPT ![s] = [w.cmH[s] EXCEPT ![c] = h]],
                            !.lastTemp = w.lastTemp]
  <1>1. w \in Worlds /\ c \in CmIds
    BY IdsApart DEF Core
  <1>2. w.db = db /\ w.cms = cms /\ w.cmH = cmH /\ w.mapping = mapping /\ w.lastTemp = lastTemp
        /\ w.deleted = deleted
    BY DEF World
  <1> HIDE DEF w
  <1>3. db.cm[c] # None /\ c \notin deleted.cm /\ db.cm[c] \in Values
    BY <1>1, <1>2 DEF Core, MappedFits, OpenConnMethod, Worlds, Data, w
  <1>4. s \notin Holders(w, c) /\ Holders(w, c) \in SUBSET Sessions
    BY <1>2 DEF Holders, OpenConnMethod
  <1>5. Cardinality(Holders(w, c) \cup {s}) = Cardinality(Holders(w, c)) + 1
        /\ Cardinality(Holders(w, c)) + 1 \in 1..Cardinality(Sessions)
    <2> DEFINE H == Holders(w, c)
               J == H \cup {s}
    <2>1. H \in SUBSET Sessions /\ J \in SUBSET Sessions /\ s \notin H
      BY <1>4
    <2> HIDE DEF H
    <2>2. Cardinality(J) = Cardinality(H) + 1 /\ Cardinality(H) \in Nat
      BY <2>1, CountHolders
    <2> HIDE DEF J
    <2>3. Cardinality(J) <= Cardinality(Sessions) /\ Cardinality(Sessions) \in Nat
      BY <2>1, CountHolders
    <2> QED BY <2>2, <2>3 DEF H, J
  <1>6. IF cms[c] = None THEN Cardinality(Holders(w, c)) = 0
        ELSE /\ cms[c].ref = Cardinality(Holders(w, c)) /\ cms[c] \in CmStructs
             /\ cms[c].status = "Valid" /\ cms[c].made /\ cms[c].rec # "Unsaved"
    <2>1. CASE cms[c] = None
      <3>0. w.cms[c] = None /\ CmsCounted(w)
        BY <2>1, <1>1, <1>2 DEF Core, w
      <3>1. Holders(w, c) = {}
        BY <3>0, <1>1 DEF CmsCounted
      <3> QED BY <3>1, <2>1, FS_EmptySet
    <2>2. CASE cms[c] # None
      <3>1. cms[c].ref = Cardinality(Holders(w, c)) /\ cms[c].status # "NotSaved" /\ cms[c].made
            /\ cms[c].rec # "Unsaved" /\ cms[c].status # "ToBeDeleted"
        BY <2>2, <1>1, <1>2, <1>3 DEF Core, CmsCounted, CmsFit, w
      <3>2. cms[c] \in CmStructs
        BY <2>2, <1>1, <1>2 DEF Worlds
      <3>3. cms[c].status = "Valid"
        BY <3>1, <3>2 DEF CmStructs
      <3> QED BY <2>2, <3>1, <3>2, <3>3
    <2> QED BY <2>1, <2>2
  <1> DEFINE Opened == [status : {"Valid"}, rec : {"Loaded"}, ref : Nat, val : Values, made : {TRUE}]
  <1>7. PICK o : o = OpenedCm(c)
    OBVIOUS
  <1>8. Cardinality(Holders(w, c)) \in Nat
    BY <1>4, CountHolders
  <1>9. o \in Opened /\ o.ref = Cardinality(Holders(w, c)) /\ (Current(w) => o.val = db.cm[c])
    <2>1. CASE cms[c] = None
      <3>1. o = [status |-> "Valid", rec |-> "Loaded", ref |-> 0, val |-> db.cm[c], made |-> TRUE]
        BY <2>1, <1>7 DEF OpenedCm
      <3> QED BY <3>1, <2>1, <1>3, <1>6
    <2>2. CASE cms[c] # None
      <3>1. cms[c] \in CmStructs /\ cms[c].status = "Valid" /\ cms[c].made = TRUE
            /\ cms[c].ref = Cardinality(Holders(w, c)) /\ cms[c].rec \in {"Loaded", "Expired"}
        BY <2>2, <1>6 DEF CmStructs
      <3>2. Current(w) /\ cms[c].rec = "Loaded" => cms[c].val = db.cm[c]
        BY <2>2, <1>2 DEF Current
      <3>3. o = Reloaded(cms[c], c)
        BY <2>2, <1>7 DEF OpenedCm
      <3>4. CASE cms[c].rec = "Expired"
        <4>1. o = [status |-> cms[c].status, rec |-> "Loaded", ref |-> cms[c].ref,
                   val |-> db.cm[c], made |-> cms[c].made]
          BY <3>1, <3>3, <3>4, ReloadedIs
        <4> QED BY <3>1, <4>1, <1>3, <1>8
      <3>5. CASE cms[c].rec # "Expired"
        <4>1. o = cms[c]
          BY <3>1, <3>3, <3>5, ReloadedIs
        <4> QED BY <3>1, <3>2, <3>5, <4>1, <1>8 DEF CmStructs
      <3> QED BY <3>4, <3>5
    <2> QED BY <2>1, <2>2
  <1>11. x = [o EXCEPT !.ref = o.ref + 1]
    BY <1>7
  <1>12. h = [status |-> "Valid", rec |-> "Loaded", val |-> o.val]
    <2>1. h = CopyOf(o)
      BY <1>7
    <2> QED BY <2>1, <1>9 DEF CopyOf
  <1>13. x \in CmStructs /\ h \in CmHandles
         /\ x.ref = Cardinality(Holders(w, c) \cup {s}) /\ x.status = "Valid" /\ x.made /\ x.rec = "Loaded"
         /\ x.val = o.val /\ h.val = o.val
    <2> HIDE DEF x, h
    <2>1. o \in Opened /\ o.ref + 1 \in 1..Cardinality(Sessions) /\ x = [o EXCEPT !.ref = o.ref + 1]
      BY <1>5, <1>9, <1>11
    <2>2. x \in CmStructs
      BY <2>1 DEF CmStructs
    <2>3. x.ref = Cardinality(Holders(w, c) \cup {s}) /\ x.status = "Valid" /\ x.made /\ x.rec = "Loaded"
          /\ x.val = o.val
      BY <2>1, <1>5, <1>9
    <2>4. h \in CmHandles /\ h.val = o.val
      BY <1>12, <2>1 DEF CmHandles
    <2> QED BY <2>2, <2>3, <2>4
  <1>14. Current(w) => o.val = db.cm[c]
    BY <1>9
  <1>15. v = [w EXCEPT !.cms[c] = x, !.cmH[s][c] = h]
    BY <1>1 DEF Worlds
  <1>16. [World EXCEPT !.cms[c] = [OpenedCm(c) EXCEPT !.ref = @ + 1], !.cmH[s][c] = CopyOf(OpenedCm(c))] = v
    BY <1>15 DEF w
  <1>17. Become(v)
    BY <1>16 DEF OpenConnMethod
  <1> HIDE DEF x, h
  <1>18. w.lastTemp \in 0..MaxTemp /\ w.lastTemp <= w.lastTemp
    BY <1>1, BoundsAssumption DEF Worlds
  <1>19. v \in Worlds
    BY <1>1, <1>13, <1>18 DEF Worlds
  <1>20. Keeps(w, v)
    <2>2. Core(w)
      BY DEF w
    <2> HIDE DEF v
    <2> QED BY <1>1, <1>2, <1>3, <1>13, <1>14, <1>18, <2>2, CmSetKeeps, Zenon DEF v
  <1>21. World' = v
    BY <1>17, <1>19, BecomeIs
  <1> QED BY <1>20, <1>21 DEF w

\* What is told of an object that a session holds.
LEMMA HeldCm ==
  ASSUME NEW w, Core(w), NEW s \in Sessions, NEW i \in CmIds, w.cmH[s][i] # None
  PROVE  /\ w.cms[i] # None /\ w.cms[i] \in CmStructs /\ w.cmH[s][i] \in CmHandles
         /\ s \in Holders(w, i) /\ w.cms[i].ref = Cardinality(Holders(w, i))
         /\ i \in Cms => /\ w.db.cm[i] # None /\ w.db.cm[i] \in Values /\ w.cms[i].status # "NotSaved"
                         /\ w.cms[i].made /\ w.cms[i].rec # "Unsaved"
                         /\ w.cms[i].status = "ToBeDeleted" => i \in w.deleted.cm
         /\ i \notin Cms => /\ w.cms[i].status = "NotSaved" /\ ~w.cms[i].made /\ w.cms[i].ref = 1
                            /\ \E n \in 1..w.lastTemp : i = CmTemp(n)
PROOF
  <1>1. w \in Worlds /\ s \in Holders(w, i)
    BY DEF Core, Holders
  <1>2. w.cms[i] # None /\ w.cms[i].ref = Cardinality(Holders(w, i))
    BY <1>1 DEF Core, CmsCounted
  <1>3. w.cms[i] \in CmStructs /\ w.cmH[s][i] \in CmHandles
    BY <1>1, <1>2 DEF Worlds
  <1>4. i \in Cms => w.db.cm[i] # None /\ w.db.cm[i] \in Values
    BY <1>1, <1>2 DEF Worlds, Data, Core, CmsFit
  <1> QED BY <1>1, <1>2, <1>3, <1>4 DEF Core, CmsFit

\* RefreshConnMethodL.
LEMMA RefreshConnMethodKeeps ==
  ASSUME Core(World), NEW s \in Sessions, NEW i \in CmIds, RefreshConnMethod(s, i)
  PROVE  Keeps(World, World')
PROOF
  <1> DEFINE w == World
             x == Reloaded(cms[i], i)
             h == [status |-> "Valid", rec |-> "Loaded", val |-> x.val]
             v == [w EXCEPT !.cms = [w.cms EXCEPT ![i] = x],
                            !.cmH = [w.cmH EXCEPT ![s] = [w.cmH[s] EXCEPT ![i] = h]],
                            !.lastTemp = w.lastTemp]
  <1>1. w \in Worlds /\ Core(w)
    BY DEF Core
  <1>2. w.db = db /\ w.cms = cms /\ w.cmH = cmH
    BY DEF World
  <1>3. Become([World EXCEPT !.cms[i] = x, !.cmH[s][i] = h])
    BY DEF RefreshConnMethod
  <1>4. Become(v)
    <2>1. [World EXCEPT !.cms[i] = x, !.cmH[s][i] = h] = v
      <3> HIDE DEF x, h
      <3> QED BY <1>1 DEF Worlds
    <2> QED BY <1>3, <2>1
  <1>5. w.cmH[s][i] # None /\ w.cms[i].status # "NotSaved"
    BY <1>2 DEF RefreshConnMethod
  <1> HIDE DEF w
  <1>6. w.cms[i] # None /\ w.cms[i] \in CmStructs /\ s \in Holders(w, i) /\ w.cms[i].ref = Cardinality(Holders(w, i))
        /\ i \in Cms /\ w.db.cm[i] # None /\ w.db.cm[i] \in Values /\ w.cms[i].made /\ w.cms[i].rec # "Unsaved"
        /\ (w.cms[i].status = "ToBeDeleted" => i \in w.deleted.cm)
    BY <1>1, <1>5, HeldCm
  <1>7. x = IF w.cms[i].rec = "Expired"
            THEN [status |-> w.cms[i].status, rec |-> "Loaded", ref |-> w.cms[i].ref,
                  val |-> w.db.cm[i], made |-> w.cms[i].made]
            ELSE w.cms[i]
    BY <1>2, <1>6, ReloadedIs
  <1> HIDE DEF x
  <1>8. x \in CmStructs /\ x.status = w.cms[i].status /\ x.made /\ x.rec = "Loaded" /\ x.ref = w.cms[i].ref
        /\ (Current(w) => x.val = w.db.cm[i])
    <2>1. CASE w.cms[i].rec = "Expired"
      BY <2>1, <1>6, <1>7 DEF CmStructs
    <2>2. CASE w.cms[i].rec # "Expired"
      <3>1. x = w.cms[i] /\ x.rec = "Loaded"
        BY <2>2, <1>6, <1>7 DEF CmStructs
      <3> QED BY <3>1, <1>6 DEF Current
    <2> QED BY <2>1, <2>2
  <1>9. h \in CmHandles /\ h.val = x.val
    BY <1>8 DEF CmHandles, CmStructs
  <1> HIDE DEF h
  <1>10. w.lastTemp \in 0..MaxTemp /\ w.lastTemp <= w.lastTemp
    BY <1>1, BoundsAssumption DEF Worlds
  <1>11. v \in Worlds
    BY <1>1, <1>8, <1>9, <1>10 DEF Worlds
  <1>12. Holders(w, i) \cup {s} = Holders(w, i)
    BY <1>6
  <1>13. Keeps(w, v)
    <2> HIDE DEF v
    <2> QED BY <1>1, <1>5, <1>6, <1>8, <1>9, <1>10, <1>12, CmSetKeeps, Zenon DEF v
  <1>14. World' = v
    BY <1>4, <1>11, BecomeIs
  <1> QED BY <1>13, <1>14 DEF w

\* A part of a sequence has no other elements.
LEMMA SubSeqIn ==
  ASSUME NEW T, NEW q \in Seq(T), NEW m \in 1..Len(q) + 1, NEW n \in 0..Len(q)
  PROVE  SubSeq(q, m, n) \in Seq(T) /\ ToSet(SubSeq(q, m, n)) \subseteq ToSet(q)
PROOF
  <1>1. Len(q) \in Nat /\ DOMAIN q = 1..Len(q)
    BY LenProperties
  <1>2. SubSeq(q, m, n) \in Seq(T) /\ Len(SubSeq(q, m, n)) = (IF m <= n THEN n - m + 1 ELSE 0)
        /\ \A i \in 1..n - m + 1 : SubSeq(q, m, n)[i] = q[m + i - 1]
    BY <1>1, SubSeqProperties
  <1>3. DOMAIN SubSeq(q, m, n) = 1..Len(SubSeq(q, m, n))
    BY <1>2, LenProperties
  <1>4. \A i \in DOMAIN SubSeq(q, m, n) : SubSeq(q, m, n)[i] \in ToSet(q)
    <2>1. SUFFICES ASSUME NEW i \in DOMAIN SubSeq(q, m, n) PROVE SubSeq(q, m, n)[i] \in ToSet(q)
      OBVIOUS
    <2>2. i \in 1..n - m + 1 /\ m + i - 1 \in 1..Len(q)
      BY <1>1, <1>2, <1>3
    <2> QED BY <2>2, <1>1, <1>2 DEF ToSet
  <1> QED BY <1>2, <1>4 DEF ToSet

\* Two sequences joined have the elements of both.
LEMMA ConcatIn ==
  ASSUME NEW T, NEW p \in Seq(T), NEW q \in Seq(T)
  PROVE  p \o q \in Seq(T) /\ ToSet(p \o q) \subseteq ToSet(p) \cup ToSet(q)
PROOF
  <1>1. Len(p) \in Nat /\ Len(q) \in Nat /\ DOMAIN p = 1..Len(p) /\ DOMAIN q = 1..Len(q)
    BY LenProperties
  <1>2. p \o q \in Seq(T) /\ Len(p \o q) = Len(p) + Len(q)
        /\ \A i \in 1..Len(p) + Len(q) : (p \o q)[i] = IF i <= Len(p) THEN p[i] ELSE q[i - Len(p)]
    BY ConcatProperties
  <1>3. DOMAIN (p \o q) = 1..(Len(p) + Len(q))
    BY <1>2, LenProperties
  <1>4. ASSUME NEW i \in DOMAIN (p \o q) PROVE (p \o q)[i] \in ToSet(p) \cup ToSet(q)
    <2>1. CASE i <= Len(p)
      <3>1. i \in DOMAIN p /\ (p \o q)[i] = p[i]
        BY <2>1, <1>1, <1>2, <1>3
      <3> QED BY <3>1 DEF ToSet
    <2>2. CASE ~(i <= Len(p))
      <3>1. i - Len(p) \in DOMAIN q /\ (p \o q)[i] = q[i - Len(p)]
        BY <2>2, <1>1, <1>2, <1>3
      <3> QED BY <3>1 DEF ToSet
    <2> QED BY <2>1, <2>2
  <1> QED BY <1>2, <1>4 DEF ToSet

\* A sequence with an element put in.
LEMMA InsertAtIn ==
  ASSUME NEW T, NEW q \in Seq(T), NEW n \in 1..Len(q) + 1, NEW x \in T
  PROVE  InsertAt(q, n, x) \in Seq(T) /\ ToSet(InsertAt(q, n, x)) \subseteq ToSet(q) \cup {x}
PROOF
  <1> DEFINE a == SubSeq(q, 1, n - 1)
             b == SubSeq(q, n, Len(q))
  <1>1. Len(q) \in Nat
    BY LenProperties
  <1>2. n - 1 \in 0..Len(q) /\ Len(q) \in 0..Len(q) /\ 1 \in 1..Len(q) + 1
    BY <1>1
  <1>3. a \in Seq(T) /\ ToSet(a) \subseteq ToSet(q) /\ b \in Seq(T) /\ ToSet(b) \subseteq ToSet(q)
    BY <1>2, SubSeqIn
  <1>4. <<x>> \in Seq(T) /\ ToSet(<<x>>) = {x}
    <2>1. <<x>> \in Seq(T) /\ DOMAIN <<x>> = {1} /\ <<x>>[1] = x
      OBVIOUS
    <2> QED BY <2>1 DEF ToSet
  <1>5. InsertAt(q, n, x) = a \o <<x>> \o b
    BY DEF InsertAt
  <1> HIDE DEF a, b
  <1> DEFINE c == <<x>>
             ac == a \o c
  <1>6. c \in Seq(T) /\ ToSet(c) = {x}
    BY <1>4
  <1> HIDE DEF c
  <1>7. ac \in Seq(T) /\ ToSet(ac) \subseteq ToSet(a) \cup ToSet(c)
    BY <1>3, <1>6, ConcatIn
  <1> HIDE DEF ac
  <1>8. ac \o b \in Seq(T) /\ ToSet(ac \o b) \subseteq ToSet(ac) \cup ToSet(b)
    BY <1>3, <1>7, ConcatIn
  <1> QED BY <1>3, <1>5, <1>6, <1>7, <1>8 DEF ac, c

\* A sequence with an element at its end.
LEMMA AppendIn ==
  ASSUME NEW T, NEW q \in Seq(T), NEW x \in T
  PROVE  Append(q, x) \in Seq(T) /\ ToSet(Append(q, x)) = ToSet(q) \cup {x}
PROOF
  <1>1. Append(q, x) \in Seq(T) /\ Len(Append(q, x)) = Len(q) + 1 /\ Len(q) \in Nat
        /\ (\A i \in 1..Len(q) : Append(q, x)[i] = q[i]) /\ Append(q, x)[Len(q) + 1] = x
        /\ DOMAIN q = 1..Len(q) /\ DOMAIN Append(q, x) = 1..(Len(q) + 1)
    BY AppendProperties, LenProperties
  <1>2. 1..(Len(q) + 1) = (1..Len(q)) \cup {Len(q) + 1}
    BY <1>1
  <1> QED BY <1>1, <1>2 DEF ToSet

\* What a list has embedded.
LEMMA EmbeddedIn ==
  ASSUME NEW q, q # None
  PROVE  HasEmbedded(q) <=> ToSet(q) \cap DstIds # {}
  BY DEF HasEmbedded, IsEmbedded, ToSet

\* A handle to a destination, and the structure it counts in.
LEMMA HeldDst ==
  ASSUME NEW w, Core(w), NEW s \in Sessions, NEW k \in Slots, w.dstH[s][k] # None
  PROVE  LET h == w.dstH[s][k]
         IN /\ h \in DstHandles /\ h.id \in DstIds /\ k \in SlotsOf(w, s, h.id)
            /\ SlotsOf(w, s, h.id) = {k} /\ s \in DstHolders(w, h.id)
            /\ w.dsts[h.id] # None /\ w.dsts[h.id] \in DstStructs
            /\ w.dsts[h.id].ref = Cardinality(DstHolders(w, h.id))
            /\ h.id \in Dests => w.db.dest[h.id] # None /\ w.dsts[h.id].status = "Valid"
            /\ h.id \notin Dests => w.dsts[h.id].status = "NotSaved" /\ w.dsts[h.id].ref = 1
            /\ h.status = "Valid" => h.id \in Dests
PROOF
  <1> DEFINE h == w.dstH[s][k]
             d == h.id
  <1>1. w \in Worlds /\ h \in DstHandles
    BY DEF Core, Worlds
  <1>2. d \in DstIds /\ k \in SlotsOf(w, s, d)
    BY <1>1 DEF DstHandles, SlotsOf
  <1>3. SlotsOf(w, s, d) = {k}
    BY <1>2 DEF Core, OneSlot, SlotsOf
  <1>4. s \in DstHolders(w, d)
    BY <1>2 DEF DstHolders
  <1> HIDE DEF d
  <1>5. w.dsts[d] # None /\ w.dsts[d].ref = Cardinality(DstHolders(w, d))
    BY <1>2, <1>4 DEF Core, DstsCounted
  <1>6. w.dsts[d] \in DstStructs
    BY <1>1, <1>2, <1>5 DEF Worlds
  <1>7. /\ d \in Dests => w.db.dest[d] # None /\ w.dsts[d].status = "Valid"
        /\ d \notin Dests => w.dsts[d].status = "NotSaved" /\ w.dsts[d].ref = 1
    BY <1>2, <1>5 DEF Core, DstsFit
  <1>8. h.status = "Valid" => d \in Dests
    BY DEF Core, HandlesFit, d
  <1> QED BY <1>1, <1>2, <1>3, <1>4, <1>5, <1>6, <1>7, <1>8 DEF d

\* The handle of s in slot k is replaced by one to the same destination.
LEMMA DstHandleMost ==
  ASSUME NEW w, NEW v, Core(w), NEW s \in Sessions, NEW k \in Slots, w.dstH[s][k] # None,
         NEW h \in DstHandles, h.id = w.dstH[s][k].id, h.status = "Changed" \/ h.id \in Dests,
         v = [w EXCEPT !.dstH = [w.dstH EXCEPT ![s] = [w.dstH[s] EXCEPT ![k] = h]]]
  PROVE  /\ KeepsMost(w, v)
         /\ v.db = w.db /\ v.mapping = w.mapping /\ v.cms = w.cms
         /\ \A u \in Sessions : \A l \in Slots : v.dstH[u][l] = IF u = s /\ l = k THEN h ELSE w.dstH[u][l]
PROOF
  <1>1. w \in Worlds
    BY DEF Core
  <1>2. /\ v.db = w.db /\ v.mapping = w.mapping /\ v.deleted = w.deleted /\ v.cms = w.cms
        /\ v.dsts = w.dsts /\ v.cmH = w.cmH /\ v.lastTemp = w.lastTemp
    BY <1>1 DEF Worlds
  <1>3. v.dstH = [w.dstH EXCEPT ![s] = [w.dstH[s] EXCEPT ![k] = h]]
    BY <1>1 DEF Worlds
  <1>4. v \in Worlds
    BY <1>1 DEF Worlds
  <1>5. \A u \in Sessions : \A l \in Slots : v.dstH[u][l] = IF u = s /\ l = k THEN h ELSE w.dstH[u][l]
    BY <1>1, <1>3 DEF Worlds
  <1>6. h # None /\ w.lastTemp <= v.lastTemp
    BY <1>1, <1>2, NoneIsNothing, BoundsAssumption DEF Worlds
  <1>7. DstsCounted(v) /\ OneSlot(v) /\ HandlesFit(v)
    <2>1. \A u \in Sessions : \A d \in DstIds : SlotsOf(v, u, d) = SlotsOf(w, u, d)
      BY <1>5, <1>6 DEF SlotsOf
    <2>2. \A d \in DstIds : DstHolders(v, d) = DstHolders(w, d)
      BY <2>1 DEF DstHolders
    <2>3. DstsCounted(v)
      BY <1>2, <2>2 DEF DstsCounted, Core
    <2>4. OneSlot(v)
      BY <1>5, <1>6 DEF OneSlot, Core
    <2>5. HandlesFit(v)
      BY <1>5, <1>6 DEF HandlesFit, Core
    <2> QED BY <2>3, <2>4, <2>5
  <1>8. DstsFit(v)
    BY <1>2 DEF Core, DstsFit
  <1>10. KeepsMost(w, v)
    BY <1>2, <1>4, <1>6, <1>7, <1>8, DstsOnlyMost
  <1> QED BY <1>2, <1>5, <1>10

\* A new value of a destination handle that lists what was listed.
LEMMA DstHandleKeeps ==
  ASSUME NEW w, NEW v, Core(w), NEW s \in Sessions, NEW k \in Slots, w.dstH[s][k] # None,
         NEW h \in DstHandles, h.id = w.dstH[s][k].id, h.status = "Changed" \/ h.id \in Dests,
         v = [w EXCEPT !.dstH = [w.dstH EXCEPT ![s] = [w.dstH[s] EXCEPT ![k] = h]]],
         Whole(w) => \A e \in ToSet(h.items) \cap DstIds : Embeds(w, h.id, e)
  PROVE  KeepsLists(w, v) /\ (NoToDelete(w) /\ h.toDelete = << >> => NoToDelete(v))
PROOF
  <1>1. /\ KeepsMost(w, v)
        /\ v.db = w.db /\ v.mapping = w.mapping /\ v.cms = w.cms
        /\ \A u \in Sessions : \A l \in Slots : v.dstH[u][l] = IF u = s /\ l = k THEN h ELSE w.dstH[u][l]
    <2>1. h.id = w.dstH[s][k].id /\ (h.status = "Changed" \/ h.id \in Dests)
      OBVIOUS
    <2>2. KeepsMost(w, v)
      BY <2>1, DstHandleMost
    <2>3. v.db = w.db /\ v.mapping = w.mapping /\ v.cms = w.cms
      BY DEF Core, Worlds
    <2>4. \A u \in Sessions : \A l \in Slots : v.dstH[u][l] = IF u = s /\ l = k THEN h ELSE w.dstH[u][l]
      BY DEF Core, Worlds
    <2> QED BY <2>2, <2>3, <2>4
  <1>3. ASSUME Whole(w), NEW d \in DstIds, NEW e \in DstIds, Embeds(v, d, e) PROVE Embeds(w, d, e)
    BY <1>1, <1>3 DEF Embeds
  <1>4. NoToDelete(w) /\ h.toDelete = << >> => NoToDelete(v)
    BY <1>1 DEF NoToDelete
  <1>5. KeepsLists(w, v)
    BY <1>1, <1>3, DstsOnlyLists
  <1> QED BY <1>4, <1>5

\* s gets a handle to d in a free slot.
LEMMA DstOpenKeeps ==
  ASSUME NEW w, NEW v, Core(w), NEW s \in Sessions, NEW k \in Slots, w.dstH[s][k] = None,
         NEW x \in DstStructs, NEW h \in DstHandles, NEW n \in 0..MaxTemp, w.lastTemp <= n,
         SlotsOf(w, s, h.id) = {}, x.ref = Cardinality(DstHolders(w, h.id) \cup {s}),
         h.status = "Changed" \/ h.id \in Dests,
         v = [w EXCEPT !.dsts = [w.dsts EXCEPT ![h.id] = x],
                       !.dstH = [w.dstH EXCEPT ![s] = [w.dstH[s] EXCEPT ![k] = h]],
                       !.lastTemp = n],
         h.id \in Dests => w.db.dest[h.id] # None /\ x.status = "Valid",
         h.id \notin Dests => /\ x.status = "NotSaved" /\ x.ref = 1
                              /\ \E m \in 1..n : h.id = DstTemp(m),
         h.toDelete = << >>,
         Whole(w) => \A e \in ToSet(h.items) \cap DstIds : Embeds(w, h.id, e)
  PROVE  Keeps(w, v)
PROOF
  <1>1. w \in Worlds /\ h.id \in DstIds
    BY DEF Core, DstHandles
  <1>2. /\ v.db = w.db /\ v.mapping = w.mapping /\ v.deleted = w.deleted /\ v.cms = w.cms
        /\ v.cmH = w.cmH /\ v.lastTemp = n
    BY <1>1 DEF Worlds
  <1>3. v.dstH = [w.dstH EXCEPT ![s] = [w.dstH[s] EXCEPT ![k] = h]] /\ v.dsts = [w.dsts EXCEPT ![h.id] = x]
    BY <1>1 DEF Worlds
  <1>4. v \in Worlds
    BY <1>1 DEF Worlds
  <1>5. \A u \in Sessions : \A l \in Slots : v.dstH[u][l] = IF u = s /\ l = k THEN h ELSE w.dstH[u][l]
    BY <1>1, <1>3 DEF Worlds
  <1>6. h # None /\ x # None /\ w.lastTemp <= v.lastTemp
    BY <1>2, NoneIsNothing
  <1>7. \A d \in DstIds : v.dsts[d] = IF d = h.id THEN x ELSE w.dsts[d]
    BY <1>1, <1>3 DEF Worlds
  <1>8. DstsCounted(v)
    <2>1. \A u \in Sessions : \A d \in DstIds : SlotsOf(v, u, d) =
            IF u = s /\ d = h.id THEN {k} ELSE SlotsOf(w, u, d)
      BY <1>5, <1>6 DEF SlotsOf
    <2>2. DstHolders(v, h.id) = DstHolders(w, h.id) \cup {s}
      BY <2>1, <1>1 DEF DstHolders
    <2>3. \A d \in DstIds \ {h.id} : DstHolders(v, d) = DstHolders(w, d)
      BY <2>1 DEF DstHolders
    <2> QED BY <1>1, <1>6, <1>7, <2>2, <2>3, ZenonT(60) DEF DstsCounted, Core
  <1>9. OneSlot(v)
    <2>1. \A l \in Slots : w.dstH[s][l] # None => w.dstH[s][l].id # h.id
      BY DEF SlotsOf
    <2> QED BY <2>1, <1>5, <1>6 DEF OneSlot, Core
  <1>10. HandlesFit(v)
    BY <1>5, <1>6 DEF HandlesFit, Core
  <1>11. DstsFit(v)
    <2>1. 1..w.lastTemp \subseteq 1..n
      BY <1>1, BoundsAssumption DEF Worlds
    <2> QED BY <1>2, <1>6, <1>7, <2>1 DEF Core, DstsFit
  <1>13. NoToDelete(w) => NoToDelete(v)
    BY <1>5 DEF NoToDelete
  <1>14. ASSUME Whole(w), NEW d \in DstIds, NEW e \in DstIds, Embeds(v, d, e) PROVE Embeds(w, d, e)
    BY <1>2, <1>5, <1>14 DEF Embeds
  <1>15. KeepsMost(w, v)
    BY <1>2, <1>4, <1>6, <1>8, <1>9, <1>10, <1>11, DstsOnlyMost
  <1>16. KeepsLists(w, v)
    BY <1>2, <1>14, <1>15, DstsOnlyLists
  <1> QED BY <1>13, <1>16 DEF Keeps

\* A sequence without elements is the empty one.
LEMMA EmptyIs ==
  ASSUME NEW T, NEW q \in Seq(T), ToSet(q) = {}
  PROVE  q = << >>
PROOF
  <1>1. Len(q) \in Nat /\ DOMAIN q = 1..Len(q)
    BY LenProperties
  <1>2. Len(q) = 0
    <2>1. SUFFICES ASSUME Len(q) # 0 PROVE FALSE
      OBVIOUS
    <2>2. q[1] \in ToSet(q)
      BY <1>1, <2>1 DEF ToSet
    <2> QED BY <2>2
  <1> QED BY <1>2, EmptySeq

\* Nothing can be taken from the empty sequence.
LEMMA WithoutEmpty ==
  ASSUME NEW T, NEW I
  PROVE  Without(<< >>, I) = << >>
PROOF
  <1> DEFINE q == << >>
  <1>1. q \in Seq(T) /\ ToSet(q) = {}
    BY EmptySeq DEF ToSet
  <1> HIDE DEF q
  <1>2. Without(q, I) \in Seq(T) /\ ToSet(Without(q, I)) = {}
    BY <1>1, WithoutIn
  <1> DEFINE p == Without(q, I)
  <1> HIDE DEF p
  <1>3. p = << >>
    BY <1>2, EmptyIs DEF p
  <1> QED BY <1>3 DEF p, q

\* What is stored can be a handle's.
LEMMA ItemsIn ==
  /\ \A q : q \in Items => q \in Seq(CmIds \cup DstIds) /\ q # None
  /\ \A i : i \in Seq(CmIds \cup DstIds) => i # None
PROOF
  <1>1. Cms \cup Dests \subseteq CmIds \cup DstIds
    BY DEF CmIds, DstIds
  <1>2. ASSUME NEW q \in Seq(Cms \cup Dests) PROVE q \in Seq(CmIds \cup DstIds)
    <2>1. Len(q) \in Nat /\ q \in [1..Len(q) -> Cms \cup Dests]
      BY LenProperties, ElementOfSeq
    <2>2. q \in [1..Len(q) -> CmIds \cup DstIds]
      BY <1>1, <2>1
    <2> QED BY <2>1, <2>2, SeqDef
  <1> QED BY <1>2, NoneIsNothing DEF Items

\* A handle with other items: all but what destinations list.
LEMMA WithItemsMost ==
  ASSUME NEW w, Core(w), NEW s \in Sessions, NEW k \in Slots, w.dstH[s][k] # None,
         NEW q \in Seq(CmIds \cup DstIds), NEW t \in Seq(CmIds)
  PROVE  LET v == WithItems(w, s, k, q, t)
             h == [id |-> w.dstH[s][k].id, status |-> "Changed", items |-> q, toDelete |-> t]
         IN /\ KeepsMost(w, v)
            /\ v.db = w.db /\ v.mapping = w.mapping /\ v.deleted = w.deleted /\ v.cms = w.cms
            /\ v.cmH = w.cmH /\ v.dsts = w.dsts /\ v.lastTemp = w.lastTemp
            /\ h \in DstHandles
            /\ \A u \in Sessions : \A l \in Slots :
                 v.dstH[u][l] = IF u = s /\ l = k THEN h ELSE w.dstH[u][l]
PROOF
  <1> DEFINE v == WithItems(w, s, k, q, t)
             h == [id |-> w.dstH[s][k].id, status |-> "Changed", items |-> q, toDelete |-> t]
  <1>1. w \in Worlds /\ w.dstH[s][k] \in DstHandles
    BY DEF Core, Worlds
  <1>2. h \in DstHandles /\ h.id = w.dstH[s][k].id /\ h.status = "Changed" /\ h.toDelete = t
    BY <1>1 DEF DstHandles
  <1>3. v = [w EXCEPT !.dstH = [w.dstH EXCEPT ![s] = [w.dstH[s] EXCEPT ![k] = h]]]
    BY <1>1 DEF WithItems, Worlds
  <1> HIDE DEF v, h
  <1>4. KeepsMost(w, v)
    BY <1>2, <1>3, DstHandleMost
  <1>5. v.db = w.db /\ v.mapping = w.mapping /\ v.deleted = w.deleted /\ v.cms = w.cms
        /\ v.cmH = w.cmH /\ v.dsts = w.dsts /\ v.lastTemp = w.lastTemp
    BY <1>1, <1>3 DEF Worlds
  <1>6. \A u \in Sessions : \A l \in Slots : v.dstH[u][l] = IF u = s /\ l = k THEN h ELSE w.dstH[u][l]
    BY <1>1, <1>3 DEF Worlds
  <1> QED BY <1>2, <1>4, <1>5, <1>6 DEF v, h

\* A handle whose items are of its own and CMs.
LEMMA WithItemsKeeps ==
  ASSUME NEW w, Core(w), NEW s \in Sessions, NEW k \in Slots, w.dstH[s][k] # None,
         NEW q \in Seq(CmIds \cup DstIds), NEW t \in Seq(CmIds),
         ToSet(q) \subseteq ToSet(w.dstH[s][k].items) \cup CmIds
  PROVE  /\ KeepsLists(w, WithItems(w, s, k, q, t))
         /\ NoToDelete(w) /\ t = << >> => NoToDelete(WithItems(w, s, k, q, t))
PROOF
  <1> DEFINE v == WithItems(w, s, k, q, t)
             h == [id |-> w.dstH[s][k].id, status |-> "Changed", items |-> q, toDelete |-> t]
  <1>1. /\ KeepsMost(w, v)
        /\ v.db = w.db /\ v.mapping = w.mapping /\ v.cms = w.cms
        /\ \A u \in Sessions : \A l \in Slots : v.dstH[u][l] = IF u = s /\ l = k THEN h ELSE w.dstH[u][l]
    BY WithItemsMost, SMTT(60)
  <1>2. h.id = w.dstH[s][k].id /\ h.items = q
    OBVIOUS
  <1>3. w.dstH[s][k] \in DstHandles
    BY DEF Core, Worlds
  <1>4. q # None /\ w.dstH[s][k].items # None
    BY <1>3, NoneIsNothing DEF DstHandles
  <1> HIDE DEF v, h
  <1>6. ASSUME Whole(w), NEW d \in DstIds, NEW e \in DstIds, Embeds(v, d, e) PROVE Embeds(w, d, e)
    <2>1. e \in ToSet(q) => e \in ToSet(w.dstH[s][k].items)
      BY IdsApart
    <2> QED BY <2>1, <1>1, <1>2, <1>6 DEF Embeds
  <1>7. KeepsLists(w, v)
    BY <1>1, <1>6, DstsOnlyLists
  <1>8. NoToDelete(w) /\ t = << >> => NoToDelete(v)
    <2>1. h.toDelete = t
      BY DEF h
    <2> QED BY <2>1, <1>1 DEF NoToDelete
  <1> QED BY <1>7, <1>8 DEF v

\* A request keeps what the world it computes keeps.
LEMMA BecomeKeeps ==
  ASSUME NEW v, Keeps(World, v), Become(v)
  PROVE  Keeps(World, World')
PROOF
  <1>1. v \in Worlds
    BY DEF Keeps, KeepsLists, KeepsMost, Core
  <1> QED BY <1>1, BecomeIs

\* A handle loses an item.
LEMMA ItemLeftKeeps ==
  ASSUME NEW w, Core(w), NEW s \in Sessions, NEW k \in Slots, w.dstH[s][k] # None, NEW i
  PROVE  Keeps(w, ItemLeft(w, s, k, i))
PROOF
  <1> DEFINE q == Without(w.dstH[s][k].items, {i})
             t == w.dstH[s][k].toDelete
  <1>1. w.dstH[s][k] \in DstHandles
    BY DEF Core, Worlds
  <1>2. w.dstH[s][k].items \in Seq(CmIds \cup DstIds) /\ t \in Seq(CmIds)
    BY <1>1 DEF DstHandles
  <1>3. q \in Seq(CmIds \cup DstIds) /\ ToSet(q) = ToSet(w.dstH[s][k].items) \ {i}
    BY <1>2, WithoutIn
  <1>4. NoToDelete(w) => t = << >>
    BY DEF NoToDelete
  <1> HIDE DEF q, t
  <1>5. ToSet(q) \subseteq ToSet(w.dstH[s][k].items) \cup CmIds
    BY <1>3
  <1>6. Keeps(w, WithItems(w, s, k, q, t))
    BY <1>2, <1>3, <1>4, <1>5, WithItemsKeeps DEF Keeps
  <1> QED BY <1>6 DEF ItemLeft, q, t

\* A handle gets a CM, before an embedded destination.
LEMMA WithCmAddedKeeps ==
  ASSUME NEW w, Core(w), NEW s \in Sessions, NEW k \in Slots, w.dstH[s][k] # None, NEW i \in CmIds
  PROVE  Keeps(w, WithCmAdded(w, s, k, i))
PROOF
  <1> DEFINE items == w.dstH[s][k].items
             last == IF items # << >> /\ IsEmbedded(Last(items)) THEN Len(items) - 1 ELSE Len(items)
             q == InsertAt(items, last + 1, i)
             t == Without(w.dstH[s][k].toDelete, {i})
  <1>1. w.dstH[s][k] \in DstHandles
    BY DEF Core, Worlds
  <1>2. items \in Seq(CmIds \cup DstIds) /\ w.dstH[s][k].toDelete \in Seq(CmIds)
    BY <1>1 DEF DstHandles
  <1>3. last + 1 \in 1..Len(items) + 1
    <2>1. Len(items) \in Nat /\ (items # << >> => Len(items) # 0)
      BY <1>2, LenProperties, EmptySeq
    <2> QED BY <2>1
  <1>4. t \in Seq(CmIds)
    BY <1>2, WithoutIn
  <1>5. NoToDelete(w) => t = << >>
    <2>1. SUFFICES ASSUME NoToDelete(w) PROVE t = << >>
      OBVIOUS
    <2>2. w.dstH[s][k].toDelete = << >>
      BY <2>1 DEF NoToDelete
    <2> QED BY <2>2, WithoutEmpty
  <1> HIDE DEF items, last
  <1>6. q \in Seq(CmIds \cup DstIds) /\ ToSet(q) \subseteq ToSet(items) \cup {i}
    <2>1. i \in CmIds \cup DstIds
      OBVIOUS
    <2> DEFINE n == last + 1
    <2> HIDE DEF n
    <2>2. InsertAt(items, n, i) \in Seq(CmIds \cup DstIds) /\ ToSet(InsertAt(items, n, i)) \subseteq ToSet(items) \cup {i}
      BY <1>2, <1>3, <2>1, InsertAtIn DEF n
    <2> QED BY <2>2 DEF n
  <1>7. ToSet(q) \subseteq ToSet(w.dstH[s][k].items) \cup CmIds
    BY <1>6 DEF items
  <1> HIDE DEF q, t
  <1>8. Keeps(w, WithItems(w, s, k, q, t))
    BY <1>4, <1>5, <1>6, <1>7, WithItemsKeeps DEF Keeps
  <1> QED BY <1>8 DEF WithCmAdded, q, t, items, last

\* The first free slot.
LEMMA FreeSlotIs ==
  ASSUME NEW s \in Sessions, FreeSlots(s) # {}
  PROVE  Least(FreeSlots(s)) \in Slots /\ dstH[s][Least(FreeSlots(s))] = None
PROOF
  <1>1. FreeSlots(s) \in SUBSET Nat
    BY BoundsAssumption DEF FreeSlots, Slots
  <1>2. Least(FreeSlots(s)) \in FreeSlots(s)
    BY <1>1, LeastIsIn
  <1> QED BY <1>2 DEF FreeSlots

\* The handle that shows what is mapped.
LEMMA DstCopyIs ==
  ASSUME Core(World), NEW d \in Dests, mapping.dest[d] # None
  PROVE  LET h == DstCopy(d)
         IN /\ h \in DstHandles /\ h.id = d /\ h.toDelete = << >>
            /\ World.db.dest[d] # None
            /\ \A e \in ToSet(h.items) \cap DstIds : Embeds(World, d, e)
PROOF
  <1> DEFINE h == DstCopy(d)
             w == World
  <1>1. w \in Worlds /\ w.mapping = mapping
    BY DEF Core, World
  <1>2. mapping.dest[d] \in Items
    BY <1>1 DEF Worlds
  <1>3. mapping.dest[d] \in Seq(CmIds \cup DstIds) /\ << >> \in Seq(CmIds) /\ d \in DstIds
    BY <1>2, ItemsIn, EmptySeq, IdsApart
  <1>4. h \in DstHandles /\ h.id = d /\ h.toDelete = << >> /\ h.items = mapping.dest[d]
    BY <1>3 DEF DstCopy, DstHandles
  <1>5. w.db.dest[d] # None
    BY <1>1 DEF Core, MappedFits
  <1>7. \A e \in ToSet(h.items) \cap DstIds : Embeds(w, d, e)
    BY <1>1, <1>4 DEF Embeds, Has
  <1> QED BY <1>4, <1>5, <1>7

\* RefreshDestinationL.
LEMMA RefreshDestinationKeeps ==
  ASSUME Core(World), NEW s \in Sessions, NEW k \in Slots, RefreshDestination(s, k)
  PROVE  Keeps(World, World')
PROOF
  <1> DEFINE w == World
             d == w.dstH[s][k].id
             h == DstCopy(d)
             v == [w EXCEPT !.dstH = [w.dstH EXCEPT ![s] = [w.dstH[s] EXCEPT ![k] = h]]]
  <1>1. w.dstH = dstH /\ w.mapping = mapping /\ w \in Worlds
    BY DEF World, Core
  <1>2. w.dstH[s][k] # None /\ d \in Dests /\ mapping.dest[d] # None
        /\ Become([World EXCEPT !.dstH[s][k] = DstCopy(d)])
    BY <1>1 DEF RefreshDestination
  <1>3. Become(v)
    <2> HIDE DEF h
    <2>1. [World EXCEPT !.dstH[s][k] = h] = v
      BY <1>1 DEF Worlds
    <2> QED BY <1>2, <2>1 DEF h
  <1>4. /\ h \in DstHandles /\ h.id = d /\ h.toDelete = << >>
        /\ \A e \in ToSet(h.items) \cap DstIds : Embeds(w, d, e)
    <2> HIDE DEF d
    <2> QED BY <1>2, DstCopyIs
  <1> HIDE DEF h
  <1>5. Keeps(w, v)
    <2>1. Core(w) /\ h.id = w.dstH[s][k].id
      BY <1>4
    <2> HIDE DEF v, w
    <2> QED BY <1>2, <1>4, <2>1, DstHandleKeeps DEF v, Keeps
  <1> QED BY <1>3, <1>5, BecomeKeeps

\* GetDestinationL.
LEMMA OpenDestinationKeeps ==
  ASSUME Core(World), NEW s \in Sessions, NEW d \in Dests, OpenDestination(s, d)
  PROVE  Keeps(World, World')
PROOF
  <1> DEFINE w == World
             k == Least(FreeSlots(s))
             h == DstCopy(d)
             H == DstHolders(w, d)
             J == H \cup {s}
             x == [OpenedDst(d) EXCEPT !.ref = OpenedDst(d).ref + 1]
             v == [w EXCEPT !.dsts = [w.dsts EXCEPT ![h.id] = x],
                            !.dstH = [w.dstH EXCEPT ![s] = [w.dstH[s] EXCEPT ![k] = h]],
                            !.lastTemp = w.lastTemp]
  <1>1. w.dstH = dstH /\ w.mapping = mapping /\ w.dsts = dsts /\ w \in Worlds /\ d \in DstIds
    BY IdsApart DEF World, Core
  <1>2. FreeSlots(s) # {} /\ SlotsOf(w, s, d) = {} /\ mapping.dest[d] # None
        /\ (dsts[d] # None => dsts[d].status = "Valid")
        /\ Become([World EXCEPT !.dsts[d] = x, !.dstH[s][k] = h])
    BY DEF OpenDestination, CanOpenDst
  <1>3. k \in Slots /\ w.dstH[s][k] = None
    BY <1>1, <1>2, FreeSlotIs
  <1>4. /\ h \in DstHandles /\ h.id = d /\ h.toDelete = << >> /\ w.db.dest[d] # None
        /\ \A e \in ToSet(h.items) \cap DstIds : Embeds(w, d, e)
    BY <1>2, DstCopyIs
  <1>5. s \notin H /\ H \in SUBSET Sessions /\ J \in SUBSET Sessions
    BY <1>2 DEF DstHolders
  <1>6. Core(w)
    OBVIOUS
  <1> HIDE DEF w, h, k, H
  <1>7. Cardinality(J) = Cardinality(H) + 1 /\ Cardinality(H) \in Nat
    BY <1>5, CountHolders
  <1> HIDE DEF J
  <1>8. Cardinality(J) \in 1..Cardinality(Sessions)
    <2>1. Cardinality(J) <= Cardinality(Sessions) /\ Cardinality(Sessions) \in Nat
      BY <1>5, CountHolders
    <2> QED BY <1>7, <2>1
  <1>9. x \in DstStructs /\ x.status = "Valid" /\ x.ref = Cardinality(J)
    <2>1. CASE dsts[d] = None
      <3>1. H = {}
        <4>1. w.dsts[d] = None /\ DstsCounted(w)
          BY <2>1, <1>1, <1>6 DEF Core
        <4> QED BY <4>1, <1>1 DEF DstsCounted, H
      <3>2. Cardinality(H) = 0
        BY <3>1, FS_EmptySet
      <3>3. x = [[status |-> "Valid", ref |-> 0, blank |-> FALSE] EXCEPT !.ref = 0 + 1]
        BY <2>1 DEF OpenedDst
      <3> QED BY <3>2, <3>3, <1>7, <1>8 DEF DstStructs
    <2>2. CASE dsts[d] # None
      <3>1. dsts[d] \in DstStructs /\ dsts[d].ref = Cardinality(H) /\ dsts[d].status = "Valid"
        BY <2>2, <1>1, <1>2, <1>6 DEF Core, Worlds, DstsCounted, H
      <3>2. x = [dsts[d] EXCEPT !.ref = dsts[d].ref + 1]
        BY <2>2 DEF OpenedDst
      <3> HIDE DEF x
      <3>3. dsts[d].ref + 1 \in 1..Cardinality(Sessions)
        BY <3>1, <1>7, <1>8
      <3> QED BY <3>1, <3>2, <3>3, <1>7, <1>8 DEF DstStructs
    <2> QED BY <2>1, <2>2
  <1> HIDE DEF x
  <1>10. Become(v)
    <2>1. [w EXCEPT !.dsts[d] = x, !.dstH[s][k] = h] = v
      BY <1>1, <1>4 DEF Worlds
    <2> QED BY <1>2, <2>1 DEF w
  <1>11. w.lastTemp \in 0..MaxTemp /\ w.lastTemp <= w.lastTemp
    BY <1>1, BoundsAssumption DEF Worlds
  <1>12. Keeps(w, v)
    <2>1. SlotsOf(w, s, h.id) = {} /\ x.ref = Cardinality(DstHolders(w, h.id) \cup {s}) /\ h.id \in Dests
          /\ w.db.dest[h.id] # None
          /\ \A e \in ToSet(h.items) \cap DstIds : Embeds(w, h.id, e)
      BY <1>2, <1>4, <1>9 DEF J, H, w
    <2> HIDE DEF v
    <2> QED BY <1>3, <1>4, <1>6, <1>9, <1>11, <2>1, DstOpenKeeps, Zenon DEF v
  <1> QED BY <1>10, <1>12, BecomeKeeps DEF w

\* CreateDestinationWithNameL.
LEMMA CreateDestinationKeeps ==
  ASSUME Core(World), NEW s \in Sessions, CreateDestination(s)
  PROVE  Keeps(World, World')
PROOF
  <1> DEFINE w == World
             k == Least(FreeSlots(s))
             t == DstTemp(w.lastTemp + 1)
             h == [id |-> t, status |-> "Changed", items |-> << >>, toDelete |-> << >>]
             x == [status |-> "NotSaved", ref |-> 1, blank |-> FALSE]
             v == [w EXCEPT !.dsts = [w.dsts EXCEPT ![h.id] = x],
                            !.dstH = [w.dstH EXCEPT ![s] = [w.dstH[s] EXCEPT ![k] = h]],
                            !.lastTemp = w.lastTemp + 1]
  <1>1. w.dstH = dstH /\ w \in Worlds /\ w.lastTemp = lastTemp /\ Core(w)
    BY DEF World, Core
  <1>2. FreeSlots(s) # {} /\ w.lastTemp < MaxTemp
        /\ Become([World EXCEPT !.lastTemp = World.lastTemp + 1, !.dsts[t] = x, !.dstH[s][k] = h])
    BY <1>1 DEF CreateDestination
  <1>3. k \in Slots /\ w.dstH[s][k] = None
    BY <1>1, <1>2, FreeSlotIs
  <1> HIDE DEF w
  <1>4. w.lastTemp + 1 \in 0..MaxTemp /\ w.lastTemp <= w.lastTemp + 1 /\ w.lastTemp + 1 \in 1..MaxTemp
        /\ w.lastTemp \in Nat
    BY <1>1, <1>2, BoundsAssumption DEF Worlds
  <1>5. t \in DstTemps /\ t \in DstIds /\ t \notin Dests
    BY <1>4, IdsApart DEF DstTemps
  <1>6. w.dsts[t] = None
    <2>1. SUFFICES ASSUME w.dsts[t] # None PROVE FALSE
      OBVIOUS
    <2>2. PICK n \in 1..w.lastTemp : t = DstTemp(n)
      BY <2>1, <1>1, <1>5 DEF Core, DstsFit
    <2> QED BY <2>2, <1>4 DEF DstTemp, KTemporaryIdCounterStart
  <1>7. DstHolders(w, t) = {} /\ DstHolders(w, t) \cup {s} = {s} /\ Cardinality({s}) = 1
    BY <1>1, <1>5, <1>6, FS_Singleton DEF Core, DstsCounted
  <1>8. SlotsOf(w, s, t) = {}
    BY <1>7 DEF DstHolders
  <1>9. Cardinality(Sessions) \in Nat /\ Cardinality(Sessions) # 0
    BY BoundsAssumption, FS_CardinalityType, FS_EmptySet
  <1>10. << >> \in Seq(CmIds \cup DstIds) /\ << >> \in Seq(CmIds) /\ ToSet(<< >>) = {} /\ << >> # None
    <2>1. << >> \in Seq(CmIds \cup DstIds) /\ << >> \in Seq(CmIds)
      BY EmptySeq
    <2>2. << >> # None
      BY <2>1, ItemsIn
    <2> QED BY <2>1, <2>2 DEF ToSet
  <1>11. h \in DstHandles /\ h.id = t /\ h.items = << >> /\ h.toDelete = << >> /\ h.status = "Changed"
         /\ x \in DstStructs /\ x.status = "NotSaved" /\ x.ref = 1
    BY <1>5, <1>9, <1>10 DEF DstHandles, DstStructs
  <1>12. ~HasEmbedded(h.items)
    BY <1>10, <1>11 DEF HasEmbedded
  <1>13. \E m \in 1..(w.lastTemp + 1) : h.id = DstTemp(m)
    BY <1>4, <1>11
  <1>14. Become(v)
    <2> HIDE DEF x
    <2>1. h.id = t
      BY <1>11
    <2> HIDE DEF h, t
    <2>2. [w EXCEPT !.lastTemp = w.lastTemp + 1, !.dsts[t] = x, !.dstH[s][k] = h] = v
      BY <1>1, <2>1 DEF Worlds
    <2> QED BY <1>2, <2>2 DEF w, h, t
  <1> HIDE DEF h, x, k
  <1>15. Keeps(w, v)
    <2>1. SlotsOf(w, s, h.id) = {} /\ x.ref = Cardinality(DstHolders(w, h.id) \cup {s}) /\ h.id \notin Dests
          /\ ToSet(h.items) \cap DstIds = {}
      BY <1>5, <1>7, <1>8, <1>10, <1>11
    <2> HIDE DEF v, t
    <2> QED BY <1>1, <1>3, <1>4, <1>11, <1>12, <1>13, <2>1, DstOpenKeeps, Zenon DEF v
  <1> QED BY <1>14, <1>15, BecomeKeeps DEF w

\* CreateConnMethodToDestL.
LEMMA CreateConnMethodToDestKeeps ==
  ASSUME Core(World), NEW s \in Sessions, NEW k \in Slots, CreateConnMethodToDest(s, k)
  PROVE  Keeps(World, World')
PROOF
  <1> DEFINE w == World
             v == WithNewCm(w, s, DefaultValue)
             t == CmTemp(w.lastTemp + 1)
  <1>1. w.dstH[s][k] # None /\ w.lastTemp < MaxTemp /\ w \in Worlds
        /\ Become(WithCmAdded(v, s, k, t))
    BY DEF World, CreateConnMethodToDest, Core
  <1>2. Keeps(w, v)
    BY <1>1, SetFields, WithNewCmKeeps
  <1>3. v.dstH = w.dstH
    BY <1>1 DEF WithNewCm, Worlds
  <1>4. t \in CmIds
    <2>1. w.lastTemp + 1 \in 1..MaxTemp
      BY <1>1, BoundsAssumption DEF Worlds
    <2> QED BY <2>1 DEF CmIds, CmTemps
  <1>5. Core(v) /\ v.dstH[s][k] # None
    BY <1>1, <1>2, <1>3 DEF Keeps, KeepsLists, KeepsMost
  <1> HIDE DEF v, t
  <1>6. Keeps(v, WithCmAdded(v, s, k, t))
    BY <1>4, <1>5, WithCmAddedKeeps
  <1>7. Keeps(w, WithCmAdded(v, s, k, t))
    BY <1>2, <1>6, KeepsBoth
  <1> QED BY <1>1, <1>7, BecomeKeeps

\* DeleteConnMethodFromDestinationL: a CM to delete with the next update.
LEMMA DestDeleteKeeps ==
  ASSUME Core(World), NEW s \in Sessions, NEW k \in Slots, NEW c \in CmIds,
         DestDeleteConnMethod(s, k, c)
  PROVE  Panic \/ KeepsLists(World, World')
PROOF
  <1> DEFINE w == World
             h == w.dstH[s][k]
             q == Without(h.items, {c})
             u == ItemLeft(w, s, k, c)
             v == WithItems(u, s, k, q, Append(h.toDelete, c))
  <1>1. w.dstH = dstH /\ w \in Worlds /\ Core(w)
    BY DEF World, Core
  <1>2. h # None /\ (Panic \/ Become(u) \/ Become(v))
    BY <1>1 DEF DestDeleteConnMethod
  <1>3. h \in DstHandles
    BY <1>1, <1>2 DEF Worlds
  <1>4. h.items \in Seq(CmIds \cup DstIds) /\ h.toDelete \in Seq(CmIds)
    BY <1>3 DEF DstHandles
  <1>5. q \in Seq(CmIds \cup DstIds) /\ ToSet(q) = ToSet(h.items) \ {c} /\ Append(h.toDelete, c) \in Seq(CmIds)
    BY <1>4, WithoutIn, AppendProperties
  <1>6. Keeps(w, u)
    BY <1>1, <1>2, ItemLeftKeeps
  <1>7. u.dstH[s][k] = [id |-> h.id, status |-> "Changed", items |-> q, toDelete |-> h.toDelete]
    <2> HIDE DEF q
    <2>1. u = WithItems(w, s, k, q, h.toDelete)
      BY DEF ItemLeft, q
    <2>2. WithItems(w, s, k, q, h.toDelete).dstH[s][k]
            = [id |-> h.id, status |-> "Changed", items |-> q, toDelete |-> h.toDelete]
      BY <1>1 DEF WithItems, Worlds
    <2> QED BY <2>1, <2>2
  <1> HIDE DEF w, h, q, u
  <1>8. Core(u)
    BY <1>6 DEF Keeps, KeepsLists, KeepsMost
  <1>9. u.dstH[s][k] # None /\ u.dstH[s][k].items = q
    <2>1. [id |-> h.id, status |-> "Changed", items |-> q, toDelete |-> h.toDelete] \in DstHandles
      BY <1>3, <1>4, <1>5 DEF DstHandles
    <2> QED BY <1>7, <2>1, NoneIsNothing
  <1>10. KeepsLists(u, v)
    <2> DEFINE t == Append(h.toDelete, c)
    <2>1. t \in Seq(CmIds) /\ ToSet(q) \subseteq ToSet(u.dstH[s][k].items) \cup CmIds
      BY <1>5, <1>9
    <2> HIDE DEF t
    <2>2. KeepsLists(u, WithItems(u, s, k, q, t))
      BY <1>5, <1>8, <1>9, <2>1, WithItemsKeeps
    <2> QED BY <2>2 DEF t
  <1> HIDE DEF v
  <1>11. KeepsLists(w, u) /\ KeepsLists(w, v)
    BY <1>6, <1>10 DEF Keeps, KeepsLists, KeepsMost
  <1>12. u \in Worlds /\ v \in Worlds
    BY <1>11 DEF KeepsLists, KeepsMost, Core
  <1> QED BY <1>2, <1>11, <1>12, BecomeIs DEF w

\* AddEmbeddedDestinationL: the checks of the handles of all sessions keep one level.
LEMMA AddEmbeddedKeeps ==
  ASSUME Core(World), NEW s \in Sessions, NEW k \in Slots, NEW x \in Slots \ {k},
         AddEmbeddedDestination(s, k, x)
  PROVE  Keeps(World, World')
PROOF
  <1> DEFINE w == World
             d == w.dstH[s][k].id
             e == w.dstH[s][x].id
             q == Append(w.dstH[s][k].items, e)
             t == w.dstH[s][k].toDelete
             v == WithItems(w, s, k, q, t)
  <1>1. w.dstH = dstH /\ w.mapping = mapping /\ w \in Worlds /\ Core(w)
    BY DEF World, Core
  <1>2. w.dstH[s][k] # None /\ w.dstH[s][x] # None /\ e # d /\ MayEmbed(d, e) /\ Become(v)
    BY <1>1, SMTT(60) DEF AddEmbeddedDestination
  <1>3. d \in DstIds /\ e \in DstIds /\ w.dstH[s][k] \in DstHandles /\ w.dstH[s][x] \in DstHandles
        /\ (e \in Dests => w.db.dest[e] # None)
    BY <1>1, <1>2, HeldDst
  <1>4. q \in Seq(CmIds \cup DstIds) /\ ToSet(q) = ToSet(w.dstH[s][k].items) \cup {e} /\ t \in Seq(CmIds)
    <2>1. w.dstH[s][k].items \in Seq(CmIds \cup DstIds) /\ t \in Seq(CmIds) /\ e \in CmIds \cup DstIds
      BY <1>3 DEF DstHandles
    <2> DEFINE i == w.dstH[s][k].items
    <2> HIDE DEF i, e
    <2>2. i \in Seq(CmIds \cup DstIds)
      BY <2>1 DEF i
    <2>3. Append(i, e) \in Seq(CmIds \cup DstIds) /\ ToSet(Append(i, e)) = ToSet(i) \cup {e}
      BY <2>1, <2>2, AppendIn
    <2> QED BY <2>1, <2>3 DEF i
  <1>5. NoToDelete(w) => t = << >>
    BY <1>2 DEF NoToDelete
  <1> HIDE DEF w, q, t
  <1>6. /\ KeepsMost(w, v)
        /\ v.db = w.db /\ v.mapping = w.mapping /\ v.deleted = w.deleted /\ v.cms = w.cms
        /\ \A u \in Sessions : \A l \in Slots : u # s \/ l # k => v.dstH[u][l] = w.dstH[u][l]
        /\ v.dstH[s][k].id = d /\ v.dstH[s][k].items = q /\ v.dstH[s][k] # None /\ v.dstH[s][k].toDelete = t
    <2> DEFINE h == [id |-> w.dstH[s][k].id, status |-> "Changed", items |-> q, toDelete |-> t]
    <2>1. /\ KeepsMost(w, v)
          /\ v.db = w.db /\ v.mapping = w.mapping /\ v.deleted = w.deleted /\ v.cms = w.cms
          /\ h \in DstHandles
          /\ \A u \in Sessions : \A l \in Slots : v.dstH[u][l] = IF u = s /\ l = k THEN h ELSE w.dstH[u][l]
      BY <1>1, <1>2, <1>4, <1>5, WithItemsMost, SMTT(60)
    <2>2. h.id = d /\ h.items = q /\ h.toDelete = t
      OBVIOUS
    <2> HIDE DEF h, v
    <2> QED BY <2>1, <2>2, NoneIsNothing
  <1>7. World' = v
    <2>1. v \in Worlds
      BY <1>6 DEF KeepsMost, Core
    <2> QED BY <1>2, <2>1, BecomeIs
  <1> HIDE DEF v, d, e
  <1>8. ASSUME NEW a \in DstIds, NEW b \in DstIds
        PROVE  Embeds(v, a, b) => Embeds(w, a, b) \/ (a = d /\ b = e)
    <2>1. CASE a \in Dests /\ (Has(v.db.dest[a], b) \/ Has(v.mapping.dest[a], b))
      BY <2>1, <1>6 DEF Embeds
    <2>2. ASSUME NEW u \in Sessions, NEW l \in Slots, v.dstH[u][l] # None, v.dstH[u][l].id = a,
                 b \in ToSet(v.dstH[u][l].items)
          PROVE Embeds(w, a, b) \/ (a = d /\ b = e)
      <3>1. CASE u = s /\ l = k
        BY <3>1, <2>2, <1>2, <1>4, <1>6 DEF Embeds, d
      <3>2. CASE u # s \/ l # k
        BY <3>2, <2>2, <1>6 DEF Embeds
      <3> QED BY <3>1, <3>2
    <2> QED BY <2>1, <2>2 DEF Embeds
  <1>9. ASSUME Whole(w), NEW a \in DstIds PROVE ~Embeds(w, a, d) /\ ~Embeds(w, e, a)
    <2>1. \A y \in Dests : ~Has(w.mapping.dest[y], d)
      BY <1>1, <1>2 DEF MayEmbed, MappedFlat
    <2>2. e \in Dests => ~HasEmbedded(w.mapping.dest[e])
      BY <1>1, <1>2 DEF MayEmbed, MappedFlat, Mapped
    <2>3. \A u \in Sessions : \A l \in Slots : w.dstH[u][l] # None =>
            /\ ~Has(w.dstH[u][l].items, d)
            /\ w.dstH[u][l].id = e => ~HasEmbedded(w.dstH[u][l].items)
      BY <1>1, <1>2 DEF MayEmbed
    <2>4. \A u \in Sessions : \A l \in Slots : w.dstH[u][l] # None => w.dstH[u][l].items # None
      BY <1>1, ItemsIn DEF Worlds, DstHandles
    <2>5. \A y \in Dests : \A z \in DstIds : Has(w.db.dest[y], z) => Has(w.mapping.dest[y], z)
      <3>1. SUFFICES ASSUME NEW y \in Dests, NEW z \in DstIds, Has(w.db.dest[y], z)
            PROVE Has(w.mapping.dest[y], z)
        OBVIOUS
      <3>2. w.db.dest[y] \in Seq(Cms \cup Dests)
        BY <3>1, <1>1 DEF Worlds, Data, Has, Items
      <3>3. z \in Cms \cup Dests
        <4> DEFINE r == w.db.dest[y]
        <4>1. r \in Seq(Cms \cup Dests) /\ z \in ToSet(r)
          BY <3>1, <3>2 DEF Has
        <4> HIDE DEF r
        <4>2. DOMAIN r = 1..Len(r) /\ \A n \in 1..Len(r) : r[n] \in Cms \cup Dests
          BY <4>1, LenProperties, ElementOfSeq
        <4> QED BY <4>1, <4>2 DEF ToSet
      <3>4. z \in Dests
        BY <3>3, IdsApart
      <3> QED BY <3>1, <3>4, <1>9 DEF Whole, ListedStored
    <2>6. ~Embeds(w, a, d)
      BY <2>1, <2>3, <2>4, <2>5, <1>3 DEF Embeds, Has
    <2>7. ~Embeds(w, e, a)
      <3>1. e \in Dests => ~Has(w.mapping.dest[e], a) /\ ~Has(w.db.dest[e], a)
        BY <2>2, <2>5, EmbeddedIn DEF Has
      <3>2. ASSUME NEW u \in Sessions, NEW l \in Slots, w.dstH[u][l] # None, w.dstH[u][l].id = e
            PROVE a \notin ToSet(w.dstH[u][l].items)
        BY <3>2, <2>3, <2>4, EmbeddedIn
      <3> QED BY <3>1, <3>2 DEF Embeds
    <2> QED BY <2>6, <2>7
  <1>10. ASSUME Whole(w) PROVE Whole(v)
    <2>1. OneDeep(v)
      <3>1. SUFFICES ASSUME NEW a \in DstIds, NEW b \in DstIds, NEW c \in DstIds, Embeds(v, a, b), Embeds(v, b, c)
            PROVE FALSE
        BY DEF OneDeep
      <3>2. (Embeds(w, a, b) \/ (a = d /\ b = e)) /\ (Embeds(w, b, c) \/ (b = d /\ c = e))
        BY <3>1, <1>8
      <3>3. ~(Embeds(w, a, b) /\ Embeds(w, b, c))
        BY <1>10 DEF Whole, OneDeep
      <3> QED BY <3>2, <3>3, <1>2, <1>9, <1>10 DEF d, e
    <2>2. ListedStored(v)
      <3>1. ASSUME NEW a \in DstIds, NEW b \in Dests, Embeds(v, a, b) PROVE v.db.dest[b] # None
        <4>1. Embeds(w, a, b) \/ b = e
          BY <3>1, <1>8, IdsApart
        <4> QED BY <4>1, <1>3, <1>6, <1>10 DEF Whole, ListedStored, e
      <3> QED BY <3>1, <1>6, <1>10 DEF Whole, ListedStored
    <2>3. HiddenUnlisted(v)
      BY <1>6, <1>10 DEF Whole, HiddenUnlisted
    <2> QED BY <2>1, <2>2, <2>3 DEF Whole
  <1>11. NoToDelete(w) => NoToDelete(v)
    BY <1>5, <1>6 DEF NoToDelete
  <1> QED BY <1>6, <1>7, <1>10, <1>11 DEF w, Keeps, KeepsLists

\* Closing a destination handle.
LEMMA CloseDstKeeps ==
  ASSUME NEW w, Core(w), NEW s \in Sessions, NEW k \in Slots, w.dstH[s][k] # None
  PROVE  LET v == CloseDst(w, s, k)
         IN /\ Keeps(w, v) /\ v.cmH = w.cmH
            /\ \A u \in Sessions : \A l \in Slots :
                 v.dstH[u][l] = IF u = s /\ l = k THEN None ELSE w.dstH[u][l]
PROOF
  <1> DEFINE v == CloseDst(w, s, k)
             h == w.dstH[s][k]
             d == h.id
             x == w.dsts[d]
             H == DstHolders(w, d)
             rest == IF x.ref > 1 THEN [x EXCEPT !.ref = x.ref - 1] ELSE None
  <1>1. w \in Worlds
    BY DEF Core
  <1>2. h \in DstHandles /\ d \in DstIds /\ x # None /\ x \in DstStructs /\ x.ref = Cardinality(H)
        /\ SlotsOf(w, s, d) = {k} /\ s \in H /\ x.status \in {"Valid", "NotSaved"}
        /\ (x.status = "NotSaved" <=> d \notin Dests) /\ (d \notin Dests => x.ref = 1)
    BY HeldDst
  <1>3. v = [w EXCEPT !.dstH = [w.dstH EXCEPT ![s] = [w.dstH[s] EXCEPT ![k] = None]],
                      !.dsts = [w.dsts EXCEPT ![d] = rest]]
    <2> DEFINE w1 == [w EXCEPT !.dstH[s][k] = None]
    <2>1. w1 \in Worlds /\ w1 = [w EXCEPT !.dstH = [w.dstH EXCEPT ![s] = [w.dstH[s] EXCEPT ![k] = None]]]
          /\ w1.dsts = w.dsts
      BY <1>1 DEF Worlds
    <2>2. v = DstClosed(w1, h, x)
      BY DEF CloseDst
    <2> HIDE DEF w1, h
    <2>3. CASE x.ref > 1
      <3>1. v = [w1 EXCEPT !.dsts[d].ref = x.ref - 1]
        BY <2>2, <2>3 DEF DstClosed
      <3>2. v = [w1 EXCEPT !.dsts = [w.dsts EXCEPT ![d] = rest]]
        BY <2>1, <2>3, <3>1, <1>2 DEF Worlds
      <3> QED BY <1>1, <2>1, <3>2 DEF Worlds
    <2>4. CASE ~(x.ref > 1)
      <3>1. v = LastDstClosed([w1 EXCEPT !.dsts[d] = None], h, x)
        BY <2>2, <2>4 DEF DstClosed
      <3>2. v = [w1 EXCEPT !.dsts[d] = None]
        BY <3>1, <1>2 DEF LastDstClosed
      <3>3. v = [w1 EXCEPT !.dsts = [w.dsts EXCEPT ![d] = rest]]
        BY <2>1, <2>4, <3>2 DEF Worlds
      <3> QED BY <1>1, <2>1, <3>3 DEF Worlds
    <2> QED BY <2>3, <2>4
  <1> HIDE DEF v, h, d, H
  <1>4. H \in SUBSET Sessions
    BY DEF H, DstHolders
  <1>5. Cardinality(H) \in Nat /\ Cardinality(H) # 0 /\ Cardinality(H \ {s}) = Cardinality(H) - 1
        /\ (Cardinality(H) = 1 => H = {s}) /\ Cardinality(Sessions) \in Nat
    BY <1>2, <1>4, CountHolders, ZenonT(60)
  <1>6. IF x.ref > 1 THEN /\ rest \in DstStructs /\ rest # None /\ rest.ref = Cardinality(H) - 1
                          /\ rest.status = x.status /\ d \in Dests
                     ELSE rest = None /\ H = {s}
    <2>1. CASE x.ref > 1
      <3>1. x.ref - 1 \in 1..Cardinality(Sessions)
        BY <2>1, <1>2, <1>5 DEF DstStructs
      <3> HIDE DEF x
      <3>2. rest = [x EXCEPT !.ref = x.ref - 1]
        BY <2>1
      <3>3. rest \in DstStructs /\ rest.ref = x.ref - 1 /\ rest.status = x.status
        BY <1>2, <3>1, <3>2 DEF DstStructs
      <3>4. rest # None
        BY <3>3, NoneIsNothing
      <3> QED BY <2>1, <3>3, <3>4, <1>2
    <2>2. CASE ~(x.ref > 1)
      <3>1. x.ref = 1
        BY <2>2, <1>2, <1>5
      <3> QED BY <2>2, <3>1, <1>2, <1>5
    <2> QED BY <2>1, <2>2
  <1>7. v.db = w.db /\ v.mapping = w.mapping /\ v.deleted = w.deleted /\ v.cms = w.cms /\ v.cmH = w.cmH
        /\ v.lastTemp = w.lastTemp /\ w.lastTemp <= v.lastTemp
        /\ v.dstH = [w.dstH EXCEPT ![s] = [w.dstH[s] EXCEPT ![k] = None]]
        /\ v.dsts = [w.dsts EXCEPT ![d] = rest]
    BY <1>1, <1>3, BoundsAssumption DEF Worlds
  <1>8. v \in Worlds
    BY <1>1, <1>2, <1>3, <1>6 DEF Worlds
  <1>9. \A u \in Sessions : \A l \in Slots : v.dstH[u][l] = IF u = s /\ l = k THEN None ELSE w.dstH[u][l]
    BY <1>1, <1>7 DEF Worlds
  <1>10. \A e \in DstIds : v.dsts[e] = IF e = d THEN rest ELSE w.dsts[e]
    BY <1>1, <1>7 DEF Worlds
  <1>11. DstsCounted(v)
    <2>1. \A u \in Sessions : \A e \in DstIds : SlotsOf(v, u, e) =
            IF u = s /\ e = d THEN {} ELSE SlotsOf(w, u, e)
      BY <1>2, <1>9 DEF SlotsOf, h, d
    <2>2. DstHolders(v, d) = H \ {s}
      BY <2>1, <1>2 DEF DstHolders, H
    <2>3. \A e \in DstIds \ {d} : DstHolders(v, e) = DstHolders(w, e)
      BY <2>1 DEF DstHolders
    <2>4. IF v.dsts[d] = None THEN DstHolders(v, d) = {} ELSE v.dsts[d].ref = Cardinality(DstHolders(v, d))
      <3>1. v.dsts[d] = rest
        BY <1>2, <1>10
      <3> HIDE DEF rest
      <3> QED BY <2>2, <3>1, <1>5, <1>6
    <2> QED BY <2>3, <2>4, <1>10 DEF DstsCounted, Core
  <1>12. OneSlot(v) /\ HandlesFit(v)
    BY <1>9 DEF OneSlot, HandlesFit, Core
  <1>13. DstsFit(v)
    <2> HIDE DEF rest, x
    <2>1. rest # None => rest.status = "Valid" /\ d \in Dests /\ w.db.dest[d] # None
      BY <1>2, <1>6 DEF Core, DstsFit, x
    <2> QED BY <2>1, <1>7, <1>10 DEF Core, DstsFit
  <1>14. KeepsMost(w, v)
    BY <1>7, <1>8, <1>11, <1>12, <1>13, DstsOnlyMost
  <1>16. NoToDelete(w) => NoToDelete(v)
    BY <1>9 DEF NoToDelete
  <1>17. ASSUME Whole(w), NEW a \in DstIds, NEW b \in DstIds, Embeds(v, a, b) PROVE Embeds(w, a, b)
    BY <1>7, <1>9, <1>17 DEF Embeds
  <1>18. KeepsLists(w, v)
    BY <1>7, <1>14, <1>17, DstsOnlyLists
  <1> QED BY <1>7, <1>9, <1>16, <1>18 DEF Keeps, v

\* The recursion that CloseDsts evaluates.
LEMMA CloseDstsUnfolds ==
  ASSUME NEW w, NEW s
  PROVE  \E closed :
           /\ closed[0] = w
           /\ \A k \in 1..NumSlots : closed[k] =
                IF w.dstH[s][k] = None THEN closed[k - 1] ELSE CloseDst(closed[k - 1], s, k)
           /\ CloseDsts(w, s) = closed[NumSlots]
PROOF
  <1> DEFINE Rec(f, m) == [k \in 0..m |-> IF k = 0 THEN w
                  ELSE IF w.dstH[s][k] = None THEN f[k - 1] ELSE CloseDst(f[k - 1], s, k)]
  <1> DEFINE Fails == { m \in Nat : ~ \E f : f = Rec(f, m) }
  <1>1. Fails = {}
    <2>1. SUFFICES ASSUME Fails # {} PROVE FALSE
      OBVIOUS
    <2>2. PICK m \in Fails : \A x \in Fails : m <= x
      BY <2>1, LeastExists, Fails \in SUBSET Nat
    <2>3. m # 0
      <3>1. [k \in 0..0 |-> w] = Rec([k \in 0..0 |-> w], 0)
        OBVIOUS
      <3> QED BY <3>1, <2>2
    <2>4. PICK f : f = Rec(f, m - 1)
      <3>1. m - 1 \in Nat /\ ~(m <= m - 1)
        BY <2>2, <2>3
      <3>2. m - 1 \notin Fails
        BY <3>1, <2>2
      <3> QED BY <3>1, <3>2
    <2> DEFINE g == [k \in 0..m |-> IF k < m THEN f[k]
                  ELSE IF w.dstH[s][m] = None THEN f[m - 1] ELSE CloseDst(f[m - 1], s, m)]
    <2>5. ASSUME NEW n \in 0..m PROVE g[n] = Rec(g, m)[n]
      <3>1. CASE n = 0
        BY <3>1, <2>3, <2>4
      <3>2. CASE n # 0 /\ n < m
        <4>1. n \in 0..(m - 1) /\ n - 1 \in 0..(m - 1) /\ n - 1 \in 0..m /\ n - 1 < m
          BY <3>2
        <4>2. g[n - 1] = f[n - 1] /\ g[n] = f[n]
          BY <4>1, <3>2
        <4>3. f[n] = Rec(f, m - 1)[n]
          BY <2>4
        <4> QED BY <4>1, <4>2, <4>3, <3>2
      <3>3. CASE n = m
        <4>1. m - 1 \in 0..m /\ m - 1 < m /\ m \in 0..m
          BY <2>3
        <4>2. g[m - 1] = f[m - 1]
          BY <4>1
        <4> QED BY <4>1, <4>2, <3>3, <2>3
      <3> QED BY <3>1, <3>2, <3>3
    <2>6. g = Rec(g, m)
      BY <2>5
    <2> QED BY <2>2, <2>6
  <1> DEFINE closed == CHOOSE f : f = Rec(f, NumSlots)
  <1>2. closed = Rec(closed, NumSlots)
    <2>1. \E f : f = Rec(f, NumSlots)
      BY <1>1, BoundsAssumption
    <2> QED BY <2>1
  <1>3. CloseDsts(w, s) = closed[NumSlots]
    BY DEF CloseDsts
  <1> HIDE DEF closed
  <1>4. \A k \in 0..NumSlots : closed[k] = Rec(closed, NumSlots)[k]
    BY <1>2
  <1>5. closed[0] = w
    BY <1>4, BoundsAssumption
  <1>6. \A k \in 1..NumSlots : closed[k] =
          IF w.dstH[s][k] = None THEN closed[k - 1] ELSE CloseDst(closed[k - 1], s, k)
    BY <1>4, BoundsAssumption
  <1> QED BY <1>3, <1>5, <1>6

\* A session's end closes all its handles.
LEMMA CloseAllKeeps ==
  ASSUME NEW w, Core(w), NEW s \in Sessions
  PROVE  LET v == CloseAll(w, s)
         IN /\ Keeps(w, v)
            /\ \A i \in CmIds : v.cmH[s][i] = None
            /\ \A k \in Slots : v.dstH[s][k] = None
            /\ \A u \in Sessions \ {s} : /\ \A i \in CmIds : v.cmH[u][i] = w.cmH[u][i]
                                         /\ \A k \in Slots : v.dstH[u][k] = w.dstH[u][k]
PROOF
  <1>1. PICK closed :
           /\ closed[0] = w
           /\ \A k \in 1..NumSlots : closed[k] =
                IF w.dstH[s][k] = None THEN closed[k - 1] ELSE CloseDst(closed[k - 1], s, k)
           /\ CloseDsts(w, s) = closed[NumSlots]
    BY CloseDstsUnfolds
  <1> DEFINE Fine(x, n) == /\ Keeps(w, x) /\ x.cmH = w.cmH
                           /\ \A u \in Sessions : \A l \in Slots :
                                x.dstH[u][l] = IF u = s /\ l <= n THEN None ELSE w.dstH[u][l]
  <1> DEFINE Good == { n \in 0..NumSlots : Fine(closed[n], n) }
  <1>2. 0 \in Good
    <2>1. Keeps(w, w)
      BY DEF Keeps, KeepsLists, KeepsMost
    <2>2. 0 \in 0..NumSlots /\ \A l \in Slots : ~(l <= 0)
      BY BoundsAssumption DEF Slots
    <2> QED BY <2>1, <2>2, <1>1
  <1>3. ASSUME NEW n \in 1..NumSlots, n - 1 \in Good PROVE n \in Good
    <2> DEFINE x == closed[n - 1]
    <2>1. Fine(x, n - 1) /\ n \in Slots /\ n \in 0..NumSlots
      BY <1>3 DEF Slots
    <2>2. Core(x)
      BY <2>1 DEF Keeps, KeepsLists, KeepsMost
    <2>3. \A l \in Slots : (l <= n <=> l <= n - 1 \/ l = n) /\ ~(n <= n - 1)
      BY DEF Slots
    <2>4. CASE w.dstH[s][n] = None
      <3>1. closed[n] = x
        BY <2>4, <1>1
      <3> HIDE DEF x
      <3>2. ASSUME NEW u \in Sessions, NEW l \in Slots
            PROVE  x.dstH[u][l] = IF u = s /\ l <= n THEN None ELSE w.dstH[u][l]
        <4>1. CASE l = n
          BY <4>1, <2>1, <2>3, <2>4
        <4>2. CASE l # n
          BY <4>2, <2>1, <2>3
        <4> QED BY <4>1, <4>2
      <3>3. Fine(x, n)
        BY <2>1, <3>2
      <3> QED BY <2>1, <3>1, <3>3 DEF x
    <2>5. CASE w.dstH[s][n] # None
      <3>1. closed[n] = CloseDst(x, s, n)
        BY <2>5, <1>1
      <3>2. x.dstH[s][n] # None
        BY <2>1, <2>3, <2>5
      <3> HIDE DEF x
      <3> DEFINE v == CloseDst(x, s, n)
      <3>3. /\ Keeps(x, v) /\ v.cmH = x.cmH
            /\ \A u \in Sessions : \A l \in Slots :
                 v.dstH[u][l] = IF u = s /\ l = n THEN None ELSE x.dstH[u][l]
        BY <2>1, <2>2, <3>2, CloseDstKeeps
      <3> HIDE DEF v
      <3>4. Keeps(w, v)
        BY <2>1, <3>3, KeepsBoth
      <3>5. Fine(v, n)
        BY <2>1, <2>3, <3>3, <3>4
      <3> QED BY <2>1, <3>1, <3>5 DEF v
    <2> QED BY <2>4, <2>5
  <1>4. NumSlots \in Good
    <2> HIDE DEF Good
    <2>1. \A n \in 1..NumSlots : n - 1 \in Good => n \in Good
      BY <1>3
    <2>2. \A n \in 0..NumSlots : n \in Good
      BY <1>2, <2>1, BoundsAssumption, InductionTo
    <2> QED BY <2>2, BoundsAssumption
  <1> DEFINE x == CloseDsts(w, s)
             C == { i \in CmIds : w.cmH[s][i] # None }
             v == CloseCms(x, s, C)
  <1>5. Fine(x, NumSlots) /\ \A l \in Slots : l <= NumSlots
    BY <1>1, <1>4 DEF Slots
  <1>6. Core(x) /\ C \in SUBSET CmIds /\ \A i \in C : x.cmH[s][i] # None
    BY <1>5 DEF Keeps, KeepsLists, KeepsMost
  <1>7. v = CloseAll(w, s)
    BY DEF CloseAll
  <1> HIDE DEF x
  <1>8. v.dstH = x.dstH /\ v.cmH = [x.cmH EXCEPT ![s] = [i \in CmIds |-> IF i \in C THEN None ELSE x.cmH[s][i]]]
        /\ x \in Worlds
    BY <1>6 DEF CloseCms, Core, Worlds
  <1> HIDE DEF C
  <1>9. Keeps(x, v)
    BY <1>6, CloseCmsKeeps
  <1> HIDE DEF v
  <1>10. Keeps(w, v)
    BY <1>5, <1>9, KeepsBoth
  <1>11. \A i \in CmIds : v.cmH[s][i] = None
    BY <1>5, <1>8 DEF Worlds, C
  <1>12. \A u \in Sessions \ {s} : \A i \in CmIds : v.cmH[u][i] = w.cmH[u][i]
    BY <1>5, <1>8 DEF Worlds
  <1>13. \A u \in Sessions : \A k \in Slots : v.dstH[u][k] = IF u = s THEN None ELSE w.dstH[u][k]
    BY <1>5, <1>8
  <1> QED BY <1>7, <1>10, <1>11, <1>12, <1>13

\* g lists only what h lists.
ListsNoMore(g, h) == ToSet(g.items) \subseteq ToSet(h.items)

\* Handles to destinations that list less, or are out of date.
LEMMA DstHandlesKeep ==
  ASSUME NEW w, NEW v, Core(w),
         NEW f \in [Sessions -> [Slots -> DstHandles \cup {None}]], v = [w EXCEPT !.dstH = f],
         \A s \in Sessions : \A k \in Slots :
            /\ f[s][k] = None <=> w.dstH[s][k] = None
            /\ w.dstH[s][k] # None =>
                 /\ f[s][k].id = w.dstH[s][k].id /\ f[s][k].status \in {w.dstH[s][k].status, "Changed"}
                 /\ ListsNoMore(f[s][k], w.dstH[s][k])
                 /\ f[s][k].toDelete = w.dstH[s][k].toDelete
  PROVE  Keeps(w, v)
PROOF
  <1>1. w \in Worlds
    BY DEF Core
  <1>2. /\ v.db = w.db /\ v.mapping = w.mapping /\ v.deleted = w.deleted /\ v.cms = w.cms
        /\ v.cmH = w.cmH /\ v.dsts = w.dsts /\ v.lastTemp = w.lastTemp /\ w.lastTemp <= v.lastTemp
        /\ v \in Worlds
    <2>1. v.lastTemp = w.lastTemp /\ w.lastTemp <= v.lastTemp
      BY <1>1, BoundsAssumption DEF Worlds
    <2>2. v \in Worlds
      BY <1>1 DEF Worlds
    <2>3. /\ v.db = w.db /\ v.mapping = w.mapping /\ v.deleted = w.deleted /\ v.cms = w.cms
          /\ v.cmH = w.cmH /\ v.dsts = w.dsts
      BY <1>1 DEF Worlds
    <2> QED BY <2>1, <2>2, <2>3
  <1>v. v.dstH = f /\ \A s \in Sessions : \A k \in Slots : v.dstH[s][k] = f[s][k]
    BY <1>1 DEF Worlds
  <1>3. SameDsts(w, v)
    BY <1>2, <1>v, IdsApart DEF SameDsts, Core, DstsFit
  <1>4. DstsCounted(v) /\ OneSlot(v) /\ DstsFit(v) /\ HandlesFit(v)
    BY <1>1, <1>2, <1>3, SameDstsFit DEF Core
  <1>5. KeepsMost(w, v)
    BY <1>2, <1>4, DstsOnlyMost
  <1>7. ASSUME Whole(w), NEW d \in DstIds, NEW e \in DstIds, Embeds(v, d, e) PROVE Embeds(w, d, e)
    <2>1. ASSUME NEW s \in Sessions, NEW k \in Slots, v.dstH[s][k] # None, v.dstH[s][k].id = d,
                 e \in ToSet(v.dstH[s][k].items)
          PROVE  w.dstH[s][k] # None /\ w.dstH[s][k].id = d /\ e \in ToSet(w.dstH[s][k].items)
      <3>1. w.dstH[s][k] # None
        BY <1>v, <2>1
      <3> QED BY <1>v, <2>1, <3>1 DEF ListsNoMore
    <2> QED BY <1>2, <1>7, <2>1 DEF Embeds
  <1>8. KeepsLists(w, v)
    BY <1>2, <1>5, <1>7, DstsOnlyLists
  <1>9. NoToDelete(w) => NoToDelete(v)
    BY <1>v DEF NoToDelete
  <1> QED BY <1>8, <1>9 DEF Keeps

\* RefreshHandles for destinations.
LEMMA OutdateDstsKeeps ==
  ASSUME NEW w, Core(w), NEW D
  PROVE  Keeps(w, OutdateDsts(w, D))
PROOF
  <1> DEFINE f == [s \in Sessions |-> [k \in Slots |->
        IF w.dstH[s][k] # None /\ w.dstH[s][k].id \in D
        THEN [w.dstH[s][k] EXCEPT !.status = "Changed"] ELSE w.dstH[s][k]]]
  <1>1. ASSUME NEW s \in Sessions, NEW k \in Slots
        PROVE  /\ f[s][k] \in DstHandles \cup {None}
               /\ f[s][k] = None <=> w.dstH[s][k] = None
               /\ w.dstH[s][k] # None =>
                    /\ f[s][k].id = w.dstH[s][k].id /\ f[s][k].status \in {w.dstH[s][k].status, "Changed"}
                    /\ ListsNoMore(f[s][k], w.dstH[s][k])
                    /\ f[s][k].toDelete = w.dstH[s][k].toDelete
    <2>1. w.dstH[s][k] \in DstHandles \cup {None}
      BY DEF Core, Worlds
    <2>2. CASE w.dstH[s][k] # None /\ w.dstH[s][k].id \in D
      <3>1. f[s][k] = [w.dstH[s][k] EXCEPT !.status = "Changed"] /\ w.dstH[s][k] \in DstHandles
        BY <2>1, <2>2
      <3> HIDE DEF f
      <3>2. f[s][k] \in DstHandles
        BY <3>1 DEF DstHandles
      <3> QED BY <2>2, <3>1, <3>2, SetFields DEF DstHandles, ListsNoMore
    <2>3. CASE ~(w.dstH[s][k] # None /\ w.dstH[s][k].id \in D)
      <3>1. f[s][k] = w.dstH[s][k]
        BY <2>3
      <3> HIDE DEF f
      <3> QED BY <2>1, <3>1 DEF ListsNoMore
    <2> QED BY <2>2, <2>3
  <1>2. OutdateDsts(w, D) = [w EXCEPT !.dstH = f]
    BY DEF OutdateDsts
  <1>3. f = [s \in Sessions |-> [k \in Slots |-> f[s][k]]]
    OBVIOUS
  <1> HIDE DEF f
  <1>4. f \in [Sessions -> [Slots -> DstHandles \cup {None}]]
    BY <1>1, <1>3
  <1> QED BY <1>1, <1>2, <1>4, DstHandlesKeep

\* CMs are taken out of the mapping, and of CommsDat where it shows them.
LEMMA MapLess ==
  ASSUME NEW w \in Worlds, NEW v \in Worlds, MapOK(w), NEW I \in SUBSET Cms,
         v.deleted.dest = w.deleted.dest,
         v.mapping.cm = ReadConnMethods(v.db, v.deleted),
         ReadConnMethods(v.db, v.deleted) \ I = ReadConnMethods(w.db, w.deleted) \ I,
         \A d \in Dests : v.mapping.dest[d] =
            IF w.mapping.dest[d] = None THEN None ELSE Without(w.mapping.dest[d], I),
         \A d \in Dests : v.db.dest[d] = None <=> w.db.dest[d] = None,
         \/ \A d \in Dests : w.db.dest[d] # None => v.db.dest[d] = Without(w.db.dest[d], I)
         \/ /\ \A d \in Dests : w.db.dest[d] # None => v.db.dest[d] = w.db.dest[d]
            /\ ReadConnMethods(v.db, v.deleted) \cap I = {}
  PROVE  MapOK(v)
PROOF
  <1> DEFINE D == { e \in Dests : w.db.dest[e] # None /\ e \notin w.deleted.dest }
             A == ReadConnMethods(w.db, w.deleted)
             B == ReadConnMethods(v.db, v.deleted)
             T == Cms \cup Dests
  <1>1. { e \in Dests : v.db.dest[e] # None /\ e \notin v.deleted.dest } = D
    OBVIOUS
  <1>2. D \cap I = {} /\ D \subseteq Dests
    BY IdsApart
  <1>3. ASSUME NEW d \in Dests
        PROVE  v.mapping.dest[d] = IF v.db.dest[d] # None /\ d \notin v.deleted.dest
                                   THEN Only(v.db.dest[d], (B \cup D) \ {d}) ELSE None
    <2>1. w.mapping.dest[d] = IF w.db.dest[d] # None /\ d \notin w.deleted.dest
                              THEN Only(w.db.dest[d], (A \cup D) \ {d}) ELSE None
      BY MappingRead
    <2>2. CASE ~(w.db.dest[d] # None /\ d \notin w.deleted.dest)
      BY <2>1, <2>2
    <2>3. CASE w.db.dest[d] # None /\ d \notin w.deleted.dest
      <3> DEFINE q == w.db.dest[d]
                 m == w.mapping.dest[d]
      <3>1. q \in Seq(T)
        BY <2>3 DEF Worlds, Data, Items
      <3>2. m = Only(q, (A \cup D) \ {d})
        BY <2>1, <2>3
      <3> HIDE DEF q, m, A, B, D, T
      <3>3. m \in Seq(T) /\ ToSet(m) = ToSet(q) \cap ((A \cup D) \ {d})
        BY <3>1, <3>2, OnlyIn
      <3>4. Without(m, I) = Only(q, ((A \cup D) \ {d}) \cap (ToSet(m) \ I))
        <4>1. Without(m, I) = Only(Only(q, (A \cup D) \ {d}), ToSet(m) \ I)
          BY <3>2 DEF Without
        <4> QED BY <3>1, <4>1, OnlyTwice
      <3>5. m # None
        BY <3>3, ItemsIn DEF T, Items
      <3>6. v.mapping.dest[d] = Without(m, I)
        BY <3>5 DEF m
      <3>7. CASE v.db.dest[d] = Without(q, I)
        <4>1. Without(q, I) = Only(q, ToSet(q) \ I)
          BY DEF Without
        <4>2. Only(v.db.dest[d], (B \cup D) \ {d}) = Only(q, (ToSet(q) \ I) \cap ((B \cup D) \ {d}))
          BY <3>1, <3>7, <4>1, OnlyTwice
        <4>3. ToSet(q) \cap ((ToSet(q) \ I) \cap ((B \cup D) \ {d}))
              = ToSet(q) \cap (((A \cup D) \ {d}) \cap (ToSet(m) \ I))
          BY <3>3 DEF A, B
        <4>4. Only(v.db.dest[d], (B \cup D) \ {d}) = Without(m, I)
          BY <3>1, <3>4, <4>2, <4>3, OnlyAgree
        <4> QED BY <2>3, <3>6, <4>4 DEF B, D
      <3>8. CASE v.db.dest[d] = q /\ B \cap I = {}
        <4>1. ToSet(q) \cap ((B \cup D) \ {d})
              = ToSet(q) \cap (((A \cup D) \ {d}) \cap (ToSet(m) \ I))
          BY <1>2, <3>3, <3>8 DEF A, B, D
        <4>2. Only(v.db.dest[d], (B \cup D) \ {d}) = Without(m, I)
          BY <3>1, <3>4, <3>8, <4>1, OnlyAgree
        <4> QED BY <2>3, <3>6, <4>2 DEF B, D
      <3> QED BY <2>3, <3>7, <3>8 DEF q, B
    <2> QED BY <2>2, <2>3
  <1> QED BY <1>1, <1>3, MappingRead

\* What is listed when CMs are taken out of the mapping, or of CommsDat as well.
LEMMA TakenOutLists ==
  ASSUME NEW w \in Worlds, NEW v \in Worlds, NEW I \in SUBSET Cms, v.dstH = w.dstH,
         \A d \in Dests : v.mapping.dest[d] =
            IF w.mapping.dest[d] = None THEN None ELSE Without(w.mapping.dest[d], I),
         \/ v.db.dest = w.db.dest
         \/ \A d \in Dests : v.db.dest[d] =
               IF w.db.dest[d] = None THEN None ELSE Without(w.db.dest[d], I),
         \A c \in Cms : w.db.cm[c] # None => v.db.cm[c] # None \/ \A d \in Dests : ~Has(v.db.dest[d], c),
         \A c \in Cms : Whole(w) /\ v.cms[c] # None /\ v.cms[c].status = "ToBeDeleted" =>
            \/ w.cms[c] # None /\ w.cms[c].status = "ToBeDeleted"
            \/ \A d \in Dests : ~Has(v.db.dest[d], c)
  PROVE  /\ Whole(w) => Whole(v)
         /\ NoToDelete(w) => NoToDelete(v)
PROOF
  <1>1. ASSUME NEW q \in Items
        PROVE  /\ q # None /\ Without(q, I) # None /\ Without(q, I) \in Items
               /\ ToSet(Without(q, I)) = ToSet(q) \ I
    <2>1. Without(q, I) \in Items /\ ToSet(Without(q, I)) = ToSet(q) \ I
      BY WithoutIn DEF Items
    <2> QED BY <2>1, ItemsIn
  <1>2. \A d \in Dests : w.mapping.dest[d] \in Items \cup {None} /\ w.db.dest[d] \in Items \cup {None}
    BY DEF Worlds, Data
  <1>3. ASSUME NEW d \in Dests
        PROVE  /\ v.mapping.dest[d] = None <=> w.mapping.dest[d] = None
               /\ \A x : Has(v.mapping.dest[d], x) <=> Has(w.mapping.dest[d], x) /\ x \notin I
    BY <1>1, <1>2 DEF Has
  <1>4. ASSUME NEW d \in Dests
        PROVE  /\ v.db.dest[d] = None <=> w.db.dest[d] = None
               /\ \A x : Has(v.db.dest[d], x) => Has(w.db.dest[d], x)
    BY <1>1, <1>2 DEF Has
  <1>5. \A e \in DstIds : e \notin I
    BY IdsApart
  <1>7. ASSUME Whole(w) PROVE Whole(v)
    <2>1. ASSUME NEW d \in DstIds, NEW e \in DstIds, Embeds(v, d, e) PROVE Embeds(w, d, e)
      BY <1>3, <1>4, <2>1 DEF Embeds
    <2>2. \A d \in Dests : \A e \in Dests :
             Has(w.mapping.dest[d], e) /\ Has(v.db.dest[d], e) => Has(v.mapping.dest[d], e)
      BY <1>3, <1>5, IdsApart
    <2>3. ListsLess(w, v)
      BY <1>3, <1>4, <1>7, <2>1, <2>2 DEF ListsLess
    <2> QED BY <1>7, <2>3, ListsLessWhole
  <1>8. NoToDelete(w) => NoToDelete(v)
    BY DEF NoToDelete
  <1> QED BY <1>7, <1>8

\* CommsDat without an item, and a mapping without it.
LEMMA WithoutItemIs ==
  ASSUME NEW data \in Data, NEW i
  PROVE  /\ WithoutItem(data, i) \in Data /\ WithoutItem(data, i).cm = data.cm
         /\ \A d \in Dests : WithoutItem(data, i).dest[d] =
              IF data.dest[d] = None THEN None ELSE Without(data.dest[d], {i})
PROOF
  <1>1. ASSUME NEW d \in Dests, data.dest[d] # None PROVE Without(data.dest[d], {i}) \in Items
    <2>1. data.dest[d] \in Items
      BY <1>1 DEF Data
    <2> QED BY <2>1, WithoutIn DEF Items
  <1> QED BY <1>1 DEF WithoutItem, Data

\* The mapping without some items.
LEMMA UnlistIs ==
  ASSUME NEW w \in Worlds, NEW I
  PROVE  /\ Unlist(w, I) \in Worlds
         /\ Unlist(w, I) = [w EXCEPT !.mapping = Unlist(w, I).mapping]
         /\ Unlist(w, I).mapping.cm = w.mapping.cm
         /\ \A d \in Dests : Unlist(w, I).mapping.dest[d] =
              IF w.mapping.dest[d] = None THEN None ELSE Without(w.mapping.dest[d], I)
PROOF
  <1> DEFINE m == [w.mapping EXCEPT !.dest = [d \in Dests |->
                IF w.mapping.dest[d] = None THEN None ELSE Without(w.mapping.dest[d], I)]]
  <1>1. ASSUME NEW d \in Dests, w.mapping.dest[d] # None PROVE Without(w.mapping.dest[d], I) \in Items
    <2>1. w.mapping.dest[d] \in Items
      BY <1>1 DEF Worlds
    <2> QED BY <2>1, WithoutIn DEF Items
  <1>2. Unlist(w, I) = [w EXCEPT !.mapping = m]
    BY DEF Unlist, Worlds
  <1>3. /\ m \in [cm : SUBSET Cms, dest : [Dests -> Items \cup {None}]] /\ m.cm = w.mapping.cm
        /\ \A d \in Dests : m.dest[d] = IF w.mapping.dest[d] = None THEN None ELSE Without(w.mapping.dest[d], I)
    BY <1>1 DEF Worlds
  <1> HIDE DEF m
  <1>4. Unlist(w, I).mapping = m
    BY <1>2 DEF Worlds
  <1>5. Unlist(w, I) \in Worlds
    BY <1>2, <1>3 DEF Worlds
  <1> QED BY <1>2, <1>3, <1>4, <1>5

\* What is left of the world when only CommsDat's lists and the mapping change.
LEMMA ListsOnlyKeep ==
  ASSUME NEW w, NEW v, Core(w), v \in Worlds, NEW I \in SUBSET Cms,
         v.db.cm = w.db.cm, v.deleted = w.deleted, v.cms = w.cms, v.cmH = w.cmH,
         v.dsts = w.dsts, v.dstH = w.dstH, v.lastTemp = w.lastTemp,
         v.mapping.cm \subseteq w.mapping.cm, MapOK(w) => v.mapping.cm = w.mapping.cm,
         \A d \in Dests : v.mapping.dest[d] =
            IF w.mapping.dest[d] = None THEN None ELSE Without(w.mapping.dest[d], I),
         \/ v.db.dest = w.db.dest /\ \A c \in I : w.db.cm[c] = None
         \/ \A d \in Dests : v.db.dest[d] =
               IF w.db.dest[d] = None THEN None ELSE Without(w.db.dest[d], I)
  PROVE  Keeps(w, v)
PROOF
  <1>1. w \in Worlds /\ w.lastTemp <= v.lastTemp
    BY BoundsAssumption DEF Core, Worlds
  <1>2. ASSUME NEW q \in Items PROVE Without(q, I) \in Items /\ Without(q, I) # None
    <2>1. Without(q, I) \in Items
      BY WithoutIn DEF Items
    <2> QED BY <2>1, ItemsIn
  <1>3. \A d \in Dests : /\ v.mapping.dest[d] = None <=> w.mapping.dest[d] = None
                         /\ v.db.dest[d] = None <=> w.db.dest[d] = None
    BY <1>1, <1>2 DEF Worlds, Data
  <1>4. SameCms(w, v) /\ SameDsts(w, v)
    <2>1. SameCms(w, v)
      BY <1>1, IdsApart DEF SameCms, Core, CmsFit
    <2>2. SameDsts(w, v)
      BY <1>1, <1>3, IdsApart DEF SameDsts, Core, DstsFit
    <2> QED BY <2>1, <2>2
  <1>5. CmsCounted(v) /\ CmsFit(v) /\ DstsCounted(v) /\ OneSlot(v) /\ DstsFit(v) /\ HandlesFit(v)
    BY <1>1, <1>4, SameCmsFit, SameDstsFit DEF Core
  <1>6. MappedFits(v)
    BY <1>3 DEF MappedFits, Core
  <1>7. ASSUME MapOK(w) PROVE MapOK(v)
    <2>1. ReadConnMethods(v.db, v.deleted) = ReadConnMethods(w.db, w.deleted)
      BY DEF ReadConnMethods
    <2>2. w.mapping.cm = ReadConnMethods(w.db, w.deleted)
      BY <1>1, <1>7, MappingRead
    <2>3. \A c \in I : w.db.cm[c] = None => c \notin ReadConnMethods(v.db, v.deleted)
      BY DEF ReadConnMethods
    <2>4. v.mapping.cm = ReadConnMethods(v.db, v.deleted)
      BY <1>7, <2>1, <2>2
    <2>5. \/ \A d \in Dests : w.db.dest[d] # None => v.db.dest[d] = Without(w.db.dest[d], I)
          \/ /\ \A d \in Dests : w.db.dest[d] # None => v.db.dest[d] = w.db.dest[d]
             /\ ReadConnMethods(v.db, v.deleted) \cap I = {}
      BY <2>3
    <2>6. ReadConnMethods(v.db, v.deleted) \ I = ReadConnMethods(w.db, w.deleted) \ I
      BY <2>1
    <2>7. v.deleted.dest = w.deleted.dest
      OBVIOUS
    <2> QED BY <1>1, <1>3, <1>7, <2>4, <2>5, <2>6, <2>7, MapLess
  <1>8. (Current(w) => Current(v)) /\ (Agree(w) => Agree(v))
    BY DEF Current, Agree
  <1>9. (Whole(w) => Whole(v)) /\ (NoToDelete(w) => NoToDelete(v))
    BY <1>1, TakenOutLists
  <1> QED BY <1>5, <1>6, <1>7, <1>8, <1>9 DEF Keeps, KeepsLists, KeepsMost, Core

\* RemoveReferences(w, s, c): what is left does not list c in CommsDat.
LEMMA RemoveReferencesKeeps ==
  ASSUME NEW w, Core(w), NEW s \in Sessions, NEW c \in Cms
  PROVE  LET v == RemoveReferences(w, s, c)
         IN /\ Keeps(w, v) /\ v.cms = w.cms /\ v.cmH = w.cmH
            /\ \A d \in Dests : ~Has(v.db.dest[d], c)
PROOF
  <1> DEFINE a == [w EXCEPT !.db = WithoutItem(w.db, c)]
             b == Unlist(a, {c})
             x == OutdateDsts(b, Listing(w, c))
             f == [x.dstH EXCEPT ![s] = [k \in Slots |->
                     IF x.dstH[s][k] = None THEN None
                     ELSE [x.dstH[s][k] EXCEPT !.items = Without(x.dstH[s][k].items, {c})]]]
             v == [x EXCEPT !.dstH = f]
  <1>1. w \in Worlds
    BY DEF Core
  <1>2. /\ WithoutItem(w.db, c) \in Data /\ WithoutItem(w.db, c).cm = w.db.cm
        /\ \A d \in Dests : WithoutItem(w.db, c).dest[d] =
              IF w.db.dest[d] = None THEN None ELSE Without(w.db.dest[d], {c})
    BY <1>1, WithoutItemIs DEF Worlds
  <1>3. a \in Worlds /\ a.db = WithoutItem(w.db, c) /\ a.mapping = w.mapping
    BY <1>1, <1>2 DEF Worlds
  <1>4. /\ a.deleted = w.deleted /\ a.cms = w.cms /\ a.cmH = w.cmH /\ a.dsts = w.dsts
        /\ a.dstH = w.dstH /\ a.lastTemp = w.lastTemp
    BY <1>1 DEF Worlds
  <1>v. v = RemoveReferences(w, s, c)
    BY DEF RemoveReferences
  <1> HIDE DEF a
  <1>5. /\ b \in Worlds /\ b = [a EXCEPT !.mapping = b.mapping] /\ b.mapping.cm = a.mapping.cm
        /\ \A d \in Dests : b.mapping.dest[d] =
              IF a.mapping.dest[d] = None THEN None ELSE Without(a.mapping.dest[d], {c})
    BY <1>3, UnlistIs
  <1> HIDE DEF b
  <1>6. b.db = a.db
    BY <1>3, <1>5 DEF Worlds
  <1>7. /\ b.deleted = w.deleted /\ b.cms = w.cms /\ b.cmH = w.cmH /\ b.dsts = w.dsts
        /\ b.dstH = w.dstH /\ b.lastTemp = w.lastTemp
    BY <1>3, <1>4, <1>5 DEF Worlds
  <1>8. Keeps(w, b)
    <2>1. b.db.cm = w.db.cm /\ b.mapping.cm = w.mapping.cm /\ {c} \in SUBSET Cms
      BY <1>2, <1>3, <1>5, <1>6
    <2>2. \A d \in Dests : b.mapping.dest[d] =
              IF w.mapping.dest[d] = None THEN None ELSE Without(w.mapping.dest[d], {c})
      BY <1>3, <1>5
    <2>3. \A d \in Dests : b.db.dest[d] =
              IF w.db.dest[d] = None THEN None ELSE Without(w.db.dest[d], {c})
      BY <1>2, <1>3, <1>6
    <2> QED BY <1>5, <1>7, <2>1, <2>2, <2>3, ListsOnlyKeep
  <1>9. Core(b)
    BY <1>8 DEF Keeps, KeepsLists, KeepsMost
  <1>10. Keeps(b, x)
    BY <1>9, OutdateDstsKeeps
  <1>11. x.db = b.db /\ x.cms = b.cms /\ x.cmH = b.cmH
    BY <1>5 DEF OutdateDsts, Worlds
  <1> HIDE DEF x
  <1>12. Core(x)
    BY <1>10 DEF Keeps, KeepsLists, KeepsMost
  <1>13. ASSUME NEW u \in Sessions, NEW k \in Slots
        PROVE  /\ f[u][k] \in DstHandles \cup {None}
               /\ f[u][k] = None <=> x.dstH[u][k] = None
               /\ x.dstH[u][k] # None =>
                    /\ f[u][k].id = x.dstH[u][k].id /\ f[u][k].status \in {x.dstH[u][k].status, "Changed"}
                    /\ ListsNoMore(f[u][k], x.dstH[u][k])
                    /\ f[u][k].toDelete = x.dstH[u][k].toDelete
    <2>1. x.dstH \in [Sessions -> [Slots -> DstHandles \cup {None}]]
      BY <1>12 DEF Core, Worlds
    <2>2. CASE u = s /\ x.dstH[s][k] # None
      <3> DEFINE h == x.dstH[s][k]
                 q == Without(h.items, {c})
      <3>1. h \in DstHandles /\ f[u][k] = [h EXCEPT !.items = q]
        BY <2>1, <2>2
      <3> HIDE DEF f, h
      <3>2. h.items \in Seq(CmIds \cup DstIds)
        BY <3>1 DEF DstHandles
      <3>3. q \in Seq(CmIds \cup DstIds) /\ ToSet(q) = ToSet(h.items) \ {c}
        BY <3>2, WithoutIn
      <3> HIDE DEF q
      <3>4. /\ f[u][k] \in DstHandles /\ f[u][k].items = q /\ f[u][k].id = h.id
            /\ f[u][k].status = h.status /\ f[u][k].toDelete = h.toDelete
        BY <3>1, <3>3 DEF DstHandles
      <3> QED BY <2>2, <3>3, <3>4, SetFields DEF h, ListsNoMore
    <2>3. CASE ~(u = s /\ x.dstH[s][k] # None)
      <3>1. f[u][k] = x.dstH[u][k]
        BY <2>1, <2>3
      <3>2. x.dstH[u][k] \in DstHandles \cup {None}
        BY <2>1
      <3> HIDE DEF f
      <3> QED BY <3>1, <3>2 DEF ListsNoMore
    <2> QED BY <2>2, <2>3
  <1>14. f = [u \in Sessions |-> [k \in Slots |-> f[u][k]]]
    BY <1>12 DEF Core, Worlds
  <1> HIDE DEF f
  <1>15. f \in [Sessions -> [Slots -> DstHandles \cup {None}]]
    BY <1>13, <1>14
  <1>16. v.db = x.db /\ v.cms = x.cms /\ v.cmH = x.cmH
    BY <1>12 DEF Core, Worlds
  <1>17. v = [x EXCEPT !.dstH = f]
    OBVIOUS
  <1> HIDE DEF v
  <1>18. Keeps(x, v)
    BY <1>12, <1>13, <1>15, <1>17, DstHandlesKeep
  <1>19. Keeps(w, v)
    BY <1>8, <1>10, <1>18, KeepsBoth
  <1>20. ASSUME NEW d \in Dests PROVE ~Has(v.db.dest[d], c)
    <2>1. v.db.dest[d] = IF w.db.dest[d] = None THEN None ELSE Without(w.db.dest[d], {c})
      BY <1>2, <1>3, <1>6, <1>11, <1>16
    <2>2. w.db.dest[d] # None => w.db.dest[d] \in Items
      BY <1>1 DEF Worlds, Data
    <2> QED BY <2>1, <2>2, WithoutIn DEF Items, Has
  <1> QED BY <1>7, <1>11, <1>16, <1>19, <1>20, <1>v

\* Cached CMs that are in no destination are hidden.
LEMMA MarkDeletedKeeps ==
  ASSUME NEW w, Core(w), NEW C \in SUBSET Cms, \A c \in C : w.cms[c] # None,
         \A c \in C : \A d \in Dests : ~Has(w.db.dest[d], c)
  PROVE  Keeps(w, MarkDeleted(w, C)) /\ MarkDeleted(w, C).cmH = OutdateCms(w, C).cmH
PROOF
  <1> DEFINE a == Unlist(w, C)
             b == HideCms(w, C)
             x == OutdateCms(b, C)
             v == MarkDeleted(w, C)
             f == [i \in CmIds |-> IF i \in C THEN [w.cms[i] EXCEPT !.status = "ToBeDeleted"] ELSE w.cms[i]]
             u == [w EXCEPT !.cms = f, !.deleted = [w.deleted EXCEPT !.cm = w.deleted.cm \cup C],
                            !.mapping = [a.mapping EXCEPT !.cm = w.mapping.cm \ C]]
  <1>1. w \in Worlds
    BY DEF Core
  <1>2. /\ a \in Worlds /\ a = [w EXCEPT !.mapping = a.mapping] /\ a.mapping.cm = w.mapping.cm
        /\ \A d \in Dests : a.mapping.dest[d] =
              IF w.mapping.dest[d] = None THEN None ELSE Without(w.mapping.dest[d], C)
    BY <1>1, UnlistIs
  <1>3. b = [w EXCEPT !.mapping = [a.mapping EXCEPT !.cm = w.mapping.cm \ C],
                      !.deleted = [w.deleted EXCEPT !.cm = w.deleted.cm \cup C]]
    <2>1. b = [UnmapCms(w, C) EXCEPT !.deleted.cm = w.deleted.cm \cup C] /\ UnmapCms(w, C) = [a EXCEPT !.mapping.cm = w.mapping.cm \ C]
      BY DEF HideCms, UnmapCms
    <2> HIDE DEF a
    <2>2. UnmapCms(w, C) = [w EXCEPT !.mapping = [a.mapping EXCEPT !.cm = w.mapping.cm \ C]]
      BY <1>1, <1>2, <2>1 DEF Worlds
    <2> QED BY <1>1, <1>2, <2>1, <2>2 DEF Worlds
  <1>4. v = [x EXCEPT !.cms = f]
    BY DEF MarkDeleted
  <1> HIDE DEF a
  <1>5. /\ a.mapping.dest \in [Dests -> Items \cup {None}]
        /\ f \in [CmIds -> CmStructs \cup {None}]
        /\ \A i \in CmIds : /\ f[i] = None <=> w.cms[i] = None
                            /\ w.cms[i] # None => /\ f[i].ref = w.cms[i].ref /\ f[i].rec = w.cms[i].rec
                                                  /\ f[i].val = w.cms[i].val /\ f[i].made = w.cms[i].made
                                                  /\ f[i].status = IF i \in C THEN "ToBeDeleted" ELSE w.cms[i].status
    <2>1. a.mapping.dest \in [Dests -> Items \cup {None}]
      BY <1>2 DEF Worlds
    <2>2. ASSUME NEW i \in CmIds
          PROVE  /\ f[i] \in CmStructs \cup {None}
                 /\ f[i] = None <=> w.cms[i] = None
                 /\ w.cms[i] # None => /\ f[i].ref = w.cms[i].ref /\ f[i].rec = w.cms[i].rec
                                       /\ f[i].val = w.cms[i].val /\ f[i].made = w.cms[i].made
                                       /\ f[i].status = IF i \in C THEN "ToBeDeleted" ELSE w.cms[i].status
      <3>1. CASE i \in C
        <4>1. w.cms[i] \in CmStructs /\ w.cms[i] # None /\ f[i] = [w.cms[i] EXCEPT !.status = "ToBeDeleted"]
          BY <1>1, <3>1 DEF Worlds
        <4> HIDE DEF f
        <4>2. f[i] \in CmStructs
          BY <4>1 DEF CmStructs
        <4> QED BY <3>1, <4>1, <4>2, SetFields DEF CmStructs
      <3>2. CASE i \notin C
        <4>1. w.cms[i] \in CmStructs \cup {None} /\ f[i] = w.cms[i]
          BY <1>1, <3>2 DEF Worlds
        <4> HIDE DEF f
        <4> QED BY <3>2, <4>1
      <3> QED BY <3>1, <3>2
    <2>3. f = [i \in CmIds |-> f[i]]
      OBVIOUS
    <2> HIDE DEF f
    <2> QED BY <2>1, <2>2, <2>3
  <1> HIDE DEF f
  <1>6. /\ u.db = w.db /\ u.cms = f /\ u.cmH = w.cmH /\ u.dsts = w.dsts /\ u.dstH = w.dstH
        /\ u.lastTemp = w.lastTemp /\ w.lastTemp <= u.lastTemp
    <2>1. u.lastTemp = w.lastTemp /\ w.lastTemp <= u.lastTemp
      BY <1>1, BoundsAssumption DEF Worlds
    <2> QED BY <2>1, <1>1 DEF Worlds
  <1>7. u.deleted.cm = w.deleted.cm \cup C /\ u.deleted.dest = w.deleted.dest
        /\ u.mapping.cm = w.mapping.cm \ C /\ u.mapping.dest = a.mapping.dest
    BY <1>1, <1>2 DEF Worlds
  <1>8. u \in Worlds
    <2>1. [w.deleted EXCEPT !.cm = w.deleted.cm \cup C] \in [cm : SUBSET Cms, dest : SUBSET Dests]
          /\ [a.mapping EXCEPT !.cm = w.mapping.cm \ C] \in [cm : SUBSET Cms, dest : [Dests -> Items \cup {None}]]
      BY <1>1, <1>2 DEF Worlds
    <2> QED BY <1>1, <1>5, <2>1 DEF Worlds
  <1>9. v = OutdateCms(u, C)
    <2>1. b \in Worlds /\ b.cmH = w.cmH
      <3>1. [w.deleted EXCEPT !.cm = w.deleted.cm \cup C] \in [cm : SUBSET Cms, dest : SUBSET Dests]
            /\ [a.mapping EXCEPT !.cm = w.mapping.cm \ C] \in [cm : SUBSET Cms, dest : [Dests -> Items \cup {None}]]
        BY <1>1, <1>2 DEF Worlds
      <3> QED BY <1>1, <1>3, <3>1 DEF Worlds
    <2> DEFINE g == [s \in Sessions |-> [i \in CmIds |->
        IF i \in C /\ w.cmH[s][i] # None THEN [w.cmH[s][i] EXCEPT !.status = "Changed"]
        ELSE w.cmH[s][i]]]
    <2>2. x = [b EXCEPT !.cmH = g] /\ OutdateCms(u, C) = [u EXCEPT !.cmH = g]
      BY <1>6, <2>1 DEF OutdateCms
    <2> HIDE DEF g, b, x, v
    <2>3. v = [b EXCEPT !.cmH = g, !.cms = f]
      BY <1>4, <2>1, <2>2 DEF Worlds
    <2>4. u = [b EXCEPT !.cms = f]
      BY <1>1, <1>3 DEF Worlds
    <2> HIDE DEF u
    <2> QED BY <2>1, <2>2, <2>3, <2>4 DEF Worlds
  <1>c. v.cmH = OutdateCms(w, C).cmH
    <2>1. v.cmH = OutdateCms(u, C).cmH
      BY <1>9
    <2> QED BY <1>1, <1>6, <1>8, <2>1 DEF OutdateCms, Worlds
  <1> HIDE DEF u, v
  <1>11. CmsCounted(u) /\ CmsFit(u)
    <2>1. \A i \in CmIds : Holders(u, i) = Holders(w, i)
      BY <1>6 DEF Holders
    <2>2. CmsCounted(u)
      BY <1>5, <1>6, <2>1 DEF CmsCounted, Core
    <2>3. CmsFit(u)
      BY <1>5, <1>6, <1>7, IdsApart DEF CmsFit, Core
    <2> QED BY <2>2, <2>3
  <1>12. DstsCounted(u) /\ OneSlot(u) /\ DstsFit(u) /\ HandlesFit(u)
    <2>1. SameDsts(w, u)
      BY <1>1, <1>6, IdsApart DEF SameDsts, Core, DstsFit
    <2> QED BY <1>1, <1>8, <2>1, SameDstsFit DEF Core
  <1>13. ASSUME NEW d \in Dests
         PROVE  /\ u.mapping.dest[d] = IF w.mapping.dest[d] = None THEN None ELSE Without(w.mapping.dest[d], C)
                /\ u.mapping.dest[d] # None => w.mapping.dest[d] # None
    BY <1>2, <1>7
  <1>14. MappedFits(u)
    BY <1>6, <1>7, <1>13 DEF MappedFits, Core
  <1>15. ASSUME MapOK(w) PROVE MapOK(u)
    <2>1. ReadConnMethods(u.db, u.deleted) = ReadConnMethods(w.db, w.deleted) \ C
      BY <1>6, <1>7 DEF ReadConnMethods
    <2>2. w.mapping.cm = ReadConnMethods(w.db, w.deleted)
      BY <1>1, <1>15, MappingRead
    <2>3. \A d \in Dests : u.db.dest[d] = w.db.dest[d]
      BY <1>6
    <2>4. ReadConnMethods(u.db, u.deleted) \cap C = {}
          /\ ReadConnMethods(u.db, u.deleted) \ C = ReadConnMethods(w.db, w.deleted) \ C
          /\ u.mapping.cm = ReadConnMethods(u.db, u.deleted)
      BY <1>7, <2>1, <2>2
    <2> QED BY <1>1, <1>7, <1>8, <1>13, <1>15, <2>3, <2>4, MapLess
  <1>16. (Current(w) => Current(u)) /\ (Agree(w) => Agree(u))
    BY <1>5, <1>6, IdsApart DEF Current, Agree
  <1>17. (Whole(w) => Whole(u)) /\ (NoToDelete(w) => NoToDelete(u))
    <2>1. ASSUME NEW c \in Cms, u.cms[c] # None, u.cms[c].status = "ToBeDeleted"
          PROVE  \/ w.cms[c] # None /\ w.cms[c].status = "ToBeDeleted"
                 \/ \A d \in Dests : ~Has(u.db.dest[d], c)
      BY <2>1, <1>5, <1>6, IdsApart
    <2> QED BY <1>1, <1>6, <1>8, <1>13, <2>1, TakenOutLists
  <1>18. Keeps(w, u)
    BY <1>8, <1>11, <1>12, <1>14, <1>15, <1>16, <1>17 DEF Keeps, KeepsLists, KeepsMost, Core
  <1>19. Core(u)
    BY <1>18 DEF Keeps, KeepsLists, KeepsMost
  <1>20. Keeps(u, v)
    BY <1>9, <1>19, OutdateCmsKeeps
  <1>21. Keeps(w, v)
    BY <1>18, <1>20, KeepsBoth
  <1> QED BY <1>21, <1>c DEF v

\* CMs that CommsDat lacks leave the mapping.
LEMMA UnmapCmsKeeps ==
  ASSUME NEW w, Core(w), NEW I \in SUBSET Cms, \A c \in I : w.db.cm[c] = None
  PROVE  /\ Keeps(w, UnmapCms(w, I))
         /\ UnmapCms(w, I) = [w EXCEPT !.mapping = UnmapCms(w, I).mapping]
         /\ UnmapCms(w, I) \in Worlds
PROOF
  <1> DEFINE a == Unlist(w, I)
             v == UnmapCms(w, I)
  <1>1. w \in Worlds
    BY DEF Core
  <1>2. /\ a \in Worlds /\ a = [w EXCEPT !.mapping = a.mapping] /\ a.mapping.cm = w.mapping.cm
        /\ \A d \in Dests : a.mapping.dest[d] =
              IF w.mapping.dest[d] = None THEN None ELSE Without(w.mapping.dest[d], I)
    BY <1>1, UnlistIs
  <1>3. v = [a EXCEPT !.mapping.cm = w.mapping.cm \ I]
    BY DEF UnmapCms
  <1> HIDE DEF a, v
  <1> DEFINE m == [a.mapping EXCEPT !.cm = w.mapping.cm \ I]
  <1>4. m \in [cm : SUBSET Cms, dest : [Dests -> Items \cup {None}]] /\ m.dest = a.mapping.dest
        /\ m.cm = w.mapping.cm \ I
    BY <1>1, <1>2 DEF Worlds
  <1>5. v = [w EXCEPT !.mapping = m]
    BY <1>1, <1>2, <1>3 DEF Worlds
  <1> HIDE DEF m
  <1>6. v \in Worlds /\ v.mapping = m
    BY <1>1, <1>4, <1>5 DEF Worlds
  <1>7. /\ v.db = w.db /\ v.deleted = w.deleted /\ v.cms = w.cms /\ v.cmH = w.cmH
        /\ v.dsts = w.dsts /\ v.dstH = w.dstH /\ v.lastTemp = w.lastTemp
    BY <1>1, <1>5 DEF Worlds
  <1>8. MapOK(w) => v.mapping.cm = w.mapping.cm
    BY <1>4, <1>6 DEF Core, MappedFits
  <1>9. Keeps(w, v)
    <2>1. \A d \in Dests : v.mapping.dest[d] =
              IF w.mapping.dest[d] = None THEN None ELSE Without(w.mapping.dest[d], I)
      BY <1>2, <1>4, <1>6
    <2>2. v.mapping.cm \subseteq w.mapping.cm
      BY <1>4, <1>6
    <2> QED BY <1>6, <1>7, <1>8, <2>1, <2>2, ListsOnlyKeep
  <1> QED BY <1>5, <1>6, <1>9 DEF v

\* The CMs of C are deleted after the commit.
LEMMA AfterDeleteKeeps ==
  ASSUME NEW w, Core(w), NEW C \in SUBSET Cms,
         \A c \in C : IF w.cms[c] = None THEN w.db.cm[c] = None ELSE \A d \in Dests : ~Has(w.db.dest[d], c)
  PROVE  /\ Keeps(w, AfterDelete(w, C))
         /\ AfterDelete(w, C).cmH = OutdateCms(w, { c \in C : w.cms[c] # None }).cmH
PROOF
  <1> DEFINE cached == { c \in C : w.cms[c] # None }
             I == C \ cached
             x == UnmapCms(w, I)
             v == MarkDeleted(x, cached)
  <1>1. I \in SUBSET Cms /\ \A c \in I : w.db.cm[c] = None
    OBVIOUS
  <1>2. cached \in SUBSET Cms /\ \A c \in cached : w.cms[c] # None /\ \A d \in Dests : ~Has(w.db.dest[d], c)
    OBVIOUS
  <1>3. v = AfterDelete(w, C)
    BY DEF AfterDelete
  <1> HIDE DEF I, cached
  <1>4. Keeps(w, x) /\ x = [w EXCEPT !.mapping = x.mapping] /\ x \in Worlds
    BY <1>1, UnmapCmsKeeps
  <1> HIDE DEF x
  <1>5. x.cms = w.cms /\ x.db = w.db /\ x.cmH = w.cmH
    BY <1>4 DEF Core, Worlds
  <1>6. Core(x)
    BY <1>4 DEF Keeps, KeepsLists, KeepsMost
  <1>7. Keeps(x, v) /\ v.cmH = OutdateCms(x, cached).cmH
    <2>1. \A c \in cached : x.cms[c] # None /\ \A d \in Dests : ~Has(x.db.dest[d], c)
      BY <1>2, <1>5
    <2> QED BY <1>2, <1>6, <2>1, MarkDeletedKeeps
  <1> HIDE DEF v
  <1>8. Keeps(w, v)
    BY <1>4, <1>7, KeepsBoth
  <1>9. OutdateCms(x, cached).cmH = OutdateCms(w, cached).cmH
    BY <1>4, <1>5 DEF OutdateCms, Core, Worlds
  <1> QED BY <1>3, <1>7, <1>8, <1>9 DEF cached

\* RemoveAllReferencesToConnMethodL.
LEMMA RemoveAllReferencesKeeps ==
  ASSUME Core(World), NEW s \in Sessions, NEW c \in Cms, RemoveAllReferences(s, c)
  PROVE  Keeps(World, World')
PROOF
  <1> DEFINE v == RemoveReferences(World, s, c)
  <1>1. Become(v)
    BY DEF RemoveAllReferences
  <1>2. Keeps(World, v)
    BY RemoveReferencesKeeps
  <1> HIDE DEF v
  <1> QED BY <1>1, <1>2, BecomeKeeps

\* A CM that s alone holds is deleted at once.
LEMMA DeleteNowKeeps ==
  ASSUME NEW w, Core(w), NEW s \in Sessions, NEW c \in Cms, w.cmH[s][c] # None, w.cms[c].ref <= 1,
         w.lastTemp < MaxTemp
  PROVE  Keeps(w, [DeleteNow(w, c) EXCEPT !.cmH[s][c] = None, !.cms[c] = None, !.lastTemp = @ + 1])
PROOF
  <1> DEFINE dat == [WithoutItem(w.db, c) EXCEPT !.cm = [w.db.cm EXCEPT ![c] = None]]
             a == Unlist(w, {c})
             m == [a.mapping EXCEPT !.cm = w.mapping.cm \ {c}]
             f == [w.cmH EXCEPT ![s] = [w.cmH[s] EXCEPT ![c] = None]]
             g == [w.cms EXCEPT ![c] = None]
             n == w.lastTemp + 1
             u == [w EXCEPT !.db = dat, !.mapping = m, !.cms = g, !.cmH = f, !.lastTemp = n]
             v == [DeleteNow(w, c) EXCEPT !.cmH[s][c] = None, !.cms[c] = None, !.lastTemp = @ + 1]
             H == Holders(w, c)
  <1>1. w \in Worlds
    BY DEF Core
  <1>2. /\ WithoutItem(w.db, c) \in Data /\ WithoutItem(w.db, c).cm = w.db.cm
        /\ \A d \in Dests : WithoutItem(w.db, c).dest[d] =
              IF w.db.dest[d] = None THEN None ELSE Without(w.db.dest[d], {c})
    BY <1>1, WithoutItemIs DEF Worlds
  <1>3. /\ dat \in Data /\ dat.dest = WithoutItem(w.db, c).dest
        /\ \A i \in Cms : dat.cm[i] = IF i = c THEN None ELSE w.db.cm[i]
    BY <1>1, <1>2 DEF Data, Worlds
  <1>4. /\ a \in Worlds /\ a = [w EXCEPT !.mapping = a.mapping] /\ a.mapping.cm = w.mapping.cm
        /\ \A d \in Dests : a.mapping.dest[d] =
              IF w.mapping.dest[d] = None THEN None ELSE Without(w.mapping.dest[d], {c})
    BY <1>1, UnlistIs
  <1>5. m \in [cm : SUBSET Cms, dest : [Dests -> Items \cup {None}]] /\ m.dest = a.mapping.dest
        /\ m.cm = w.mapping.cm \ {c}
    <2> HIDE DEF a
    <2> QED BY <1>1, <1>4 DEF Worlds
  <1>6. c \in CmIds
    BY IdsApart
  <1>7. f \in [Sessions -> [CmIds -> CmHandles \cup {None}]] /\ g \in [CmIds -> CmStructs \cup {None}]
        /\ n \in 0..MaxTemp /\ n \in Nat /\ w.lastTemp \in Nat /\ w.lastTemp <= n
    <2>1. w.lastTemp \in 0..MaxTemp /\ MaxTemp \in Nat
      BY <1>1, BoundsAssumption DEF Worlds
    <2>2. n \in 0..MaxTemp /\ n \in Nat /\ w.lastTemp \in Nat /\ w.lastTemp <= n
      BY <2>1
    <2>3. f \in [Sessions -> [CmIds -> CmHandles \cup {None}]]
      BY <1>1, <1>6 DEF Worlds
    <2>4. g \in [CmIds -> CmStructs \cup {None}]
      BY <1>1, <1>6 DEF Worlds
    <2> QED BY <2>2, <2>3, <2>4
  <1> HIDE DEF dat, a, m, f, g, n
  <1>8. u \in Worlds
    BY <1>1, <1>3, <1>5, <1>7 DEF Worlds
  <1>9. u.db = dat /\ u.mapping = m /\ u.cms = g /\ u.cmH = f
    BY <1>1 DEF Worlds
  <1>10. u.lastTemp = n /\ u.deleted = w.deleted /\ u.dsts = w.dsts /\ u.dstH = w.dstH
    BY <1>1 DEF Worlds
  <1>11. v = OutdateDsts(u, Listing(w, c))
    <2> DEFINE L == Listing(w, c)
               h == [t \in Sessions |-> [k \in Slots |->
                  IF w.dstH[t][k] # None /\ w.dstH[t][k].id \in L
                  THEN [w.dstH[t][k] EXCEPT !.status = "Changed"] ELSE w.dstH[t][k]]]
               b == [w EXCEPT !.db = WithoutItem(w.db, c)]
               e == DeleteRecord(b, c)
               y == UnmapCms(e, {c})
    <2>1. b \in Worlds /\ b.db = WithoutItem(w.db, c)
      BY <1>1, <1>2 DEF Worlds
    <2>2. e = [b EXCEPT !.db.cm[c] = None]
      BY DEF DeleteRecord
    <2>3. e = [w EXCEPT !.db = dat]
      <3> HIDE DEF b
      <3>1. e = [b EXCEPT !.db = [b.db EXCEPT !.cm = [b.db.cm EXCEPT ![c] = None]]]
        BY <2>2
      <3>2. e = [b EXCEPT !.db = dat]
        BY <1>2, <2>1, <3>1 DEF dat
      <3> QED BY <1>1, <2>1, <3>2 DEF b, Worlds
    <2> HIDE DEF b, e
    <2>4. e \in Worlds /\ e.mapping = w.mapping
      BY <1>1, <1>3, <2>3 DEF Worlds
    <2>5. Unlist(e, {c}) = [e EXCEPT !.mapping = a.mapping]
      <3>1. Unlist(e, {c}) = [e EXCEPT !.mapping.dest = [d \in Dests |->
                IF e.mapping.dest[d] = None THEN None ELSE Without(e.mapping.dest[d], {c})]]
        BY DEF Unlist
      <3>2. a = [w EXCEPT !.mapping.dest = [d \in Dests |->
                IF w.mapping.dest[d] = None THEN None ELSE Without(w.mapping.dest[d], {c})]]
        BY DEF Unlist, a
      <3> HIDE DEF a
      <3>3. a.mapping = [w.mapping EXCEPT !.dest = [d \in Dests |->
                IF w.mapping.dest[d] = None THEN None ELSE Without(w.mapping.dest[d], {c})]]
        BY <1>1, <3>2 DEF Worlds
      <3> QED BY <2>4, <3>1, <3>3 DEF Worlds
    <2>6. y = [e EXCEPT !.mapping = m]
      <3>1. y = [Unlist(e, {c}) EXCEPT !.mapping.cm = e.mapping.cm \ {c}]
        BY DEF UnmapCms
      <3> HIDE DEF y
      <3>2. y = [e EXCEPT !.mapping = [a.mapping EXCEPT !.cm = e.mapping.cm \ {c}]]
        BY <2>4, <2>5, <3>1 DEF Worlds
      <3> QED BY <2>4, <3>2 DEF m
    <2> HIDE DEF y
    <2>7. y \in Worlds /\ y = [w EXCEPT !.db = dat, !.mapping = m]
      <3>1. y = [w EXCEPT !.db = dat, !.mapping = m]
        BY <1>1, <2>3, <2>6 DEF Worlds
      <3> QED BY <1>1, <1>3, <1>5, <3>1 DEF Worlds
    <2>8. y.dstH = w.dstH /\ y.cmH = w.cmH /\ y.cms = w.cms /\ y.lastTemp = w.lastTemp
      BY <1>1, <2>7 DEF Worlds
    <2>9. DeleteNow(w, c) = [y EXCEPT !.dstH = h]
      <3>1. DeleteNow(w, c) = OutdateDsts(y, L)
        BY DEF DeleteNow, y, e, b
      <3> HIDE DEF L
      <3>2. OutdateDsts(y, L) = [y EXCEPT !.dstH = [t \in Sessions |-> [k \in Slots |->
                  IF y.dstH[t][k] # None /\ y.dstH[t][k].id \in L
                  THEN [y.dstH[t][k] EXCEPT !.status = "Changed"] ELSE y.dstH[t][k]]]]
        BY DEF OutdateDsts
      <3> QED BY <2>8, <3>1, <3>2
    <2>10. OutdateDsts(u, L) = [u EXCEPT !.dstH = h]
      <3> HIDE DEF L
      <3>2. OutdateDsts(u, L) = [u EXCEPT !.dstH = [t \in Sessions |-> [k \in Slots |->
                  IF u.dstH[t][k] # None /\ u.dstH[t][k].id \in L
                  THEN [u.dstH[t][k] EXCEPT !.status = "Changed"] ELSE u.dstH[t][k]]]]
        BY DEF OutdateDsts
      <3> QED BY <1>10, <3>2
    <2> HIDE DEF h, L, u
    <2>11. v = [y EXCEPT !.dstH = h, !.cmH = f, !.cms = g, !.lastTemp = n]
      <3> DEFINE z == [y EXCEPT !.dstH = h]
      <3>1. z.cmH = w.cmH /\ z.cms = w.cms /\ z.lastTemp = w.lastTemp
        BY <2>7, <2>8 DEF Worlds
      <3> HIDE DEF z
      <3>2. v = [z EXCEPT !.cmH[s][c] = None, !.cms[c] = None, !.lastTemp = @ + 1]
        BY <2>9 DEF z
      <3>3. v = [z EXCEPT !.cmH = f, !.cms = g, !.lastTemp = n]
        BY <3>1, <3>2 DEF f, g, n
      <3> QED BY <3>3 DEF z
    <2>12. u = [y EXCEPT !.cmH = f, !.cms = g, !.lastTemp = n]
      BY <1>1, <2>7 DEF u, Worlds
    <2> QED BY <2>7, <2>10, <2>11, <2>12, ZenonT(60) DEF L, Worlds
  <1> HIDE DEF u, v, H
  <1>12. c \notin u.mapping.cm /\ u.mapping.cm = w.mapping.cm \ {c} /\ u.mapping.dest = a.mapping.dest
         /\ u.db.cm[c] = None
         /\ \A i \in Cms \ {c} : u.db.cm[i] = w.db.cm[i]
    BY <1>3, <1>5, <1>9
  <1>13. ASSUME NEW d \in Dests
         PROVE  /\ u.db.dest[d] = IF w.db.dest[d] = None THEN None ELSE Without(w.db.dest[d], {c})
                /\ u.mapping.dest[d] = IF w.mapping.dest[d] = None THEN None
                                       ELSE Without(w.mapping.dest[d], {c})
                /\ u.db.dest[d] = None <=> w.db.dest[d] = None
                /\ u.mapping.dest[d] # None => w.mapping.dest[d] # None
    <2>1. u.db.dest[d] = IF w.db.dest[d] = None THEN None ELSE Without(w.db.dest[d], {c})
      BY <1>2, <1>3, <1>9
    <2>2. u.mapping.dest[d] = IF w.mapping.dest[d] = None THEN None ELSE Without(w.mapping.dest[d], {c})
      BY <1>4, <1>5, <1>9
    <2>3. w.db.dest[d] # None => w.db.dest[d] \in Items
      BY <1>1 DEF Worlds, Data
    <2>4. w.db.dest[d] # None => Without(w.db.dest[d], {c}) # None
      BY <2>3, WithoutIn, ItemsIn DEF Items
    <2> QED BY <2>1, <2>2, <2>4
  <1>14. CmsCounted(u) /\ CmsFit(u)
    <2>1. \A i \in CmIds : u.cms[i] = IF i = c THEN None ELSE w.cms[i]
      BY <1>1, <1>6, <1>9 DEF g, Worlds
    <2>2. \A t \in Sessions : \A i \in CmIds : u.cmH[t][i] = IF t = s /\ i = c THEN None ELSE w.cmH[t][i]
      BY <1>1, <1>6, <1>9 DEF f, Worlds
    <2>3. H = {s}
      <3>1. s \in H /\ w.cms[c].ref = Cardinality(H) /\ H \in SUBSET Sessions
        BY <1>6, HeldCm DEF H, Holders
      <3>2. Cardinality(H) \in Nat /\ Cardinality(H) # 0 /\ (Cardinality(H) = 1 => H = {s})
        BY <3>1, CountHolders
      <3> QED BY <3>1, <3>2
    <2>4. Holders(u, c) = {}
      BY <2>2, <2>3, <1>6 DEF Holders, H
    <2>5. \A i \in CmIds \ {c} : Holders(u, i) = Holders(w, i)
      BY <2>2 DEF Holders
    <2>6. CmsCounted(u)
      BY <2>1, <2>4, <2>5 DEF CmsCounted, Core
    <2>7. 1..w.lastTemp \subseteq 1..n
      BY <1>7
    <2>8. CmsFit(u)
      BY <1>10, <1>12, <2>1, <2>7, IdsApart DEF CmsFit, Core
    <2> QED BY <2>6, <2>8
  <1>15. DstsCounted(u) /\ OneSlot(u) /\ DstsFit(u) /\ HandlesFit(u)
    <2>1. SameDsts(w, u)
      BY <1>1, <1>7, <1>10, <1>13, IdsApart DEF SameDsts, Core, DstsFit
    <2> QED BY <1>1, <1>8, <2>1, SameDstsFit DEF Core
  <1>16. MappedFits(u)
    <2>1. w.mapping.cm \subseteq Cms
      BY <1>1 DEF Worlds
    <2>2. \A i \in u.mapping.cm : u.db.cm[i] # None /\ i \notin u.deleted.cm
      BY <1>10, <1>12, <2>1 DEF MappedFits, Core
    <2>3. \A d \in Dests : u.mapping.dest[d] # None => u.db.dest[d] # None
      BY <1>13 DEF MappedFits, Core
    <2> QED BY <1>10, <2>2, <2>3 DEF MappedFits, Core
  <1>17. ASSUME MapOK(w) PROVE MapOK(u)
    <2>1. ReadConnMethods(u.db, u.deleted) = ReadConnMethods(w.db, w.deleted) \ {c}
      BY <1>10, <1>12 DEF ReadConnMethods
    <2>2. w.mapping.cm = ReadConnMethods(w.db, w.deleted)
      BY <1>1, <1>17, MappingRead
    <2>3. {c} \in SUBSET Cms /\ u.deleted.dest = w.deleted.dest
          /\ ReadConnMethods(u.db, u.deleted) \ {c} = ReadConnMethods(w.db, w.deleted) \ {c}
          /\ u.mapping.cm = ReadConnMethods(u.db, u.deleted)
      BY <1>10, <1>12, <2>1, <2>2
    <2>4. \A d \in Dests : w.db.dest[d] # None => u.db.dest[d] = Without(w.db.dest[d], {c})
      BY <1>13
    <2> QED BY <1>1, <1>8, <1>13, <1>17, <2>3, <2>4, MapLess
  <1>18. (Current(w) => Current(u)) /\ (Agree(w) => Agree(u))
    <2>1. \A i \in Cms : u.cms[i] = IF i = c THEN None ELSE w.cms[i]
      BY <1>1, <1>6, <1>9, IdsApart DEF g, Worlds
    <2>2. \A t \in Sessions : \A i \in CmIds : u.cmH[t][i] = IF t = s /\ i = c THEN None ELSE w.cmH[t][i]
      BY <1>1, <1>6, <1>9 DEF f, Worlds
    <2>3. H = {s}
      <3>1. s \in H /\ w.cms[c].ref = Cardinality(H) /\ H \in SUBSET Sessions
        BY <1>6, HeldCm DEF H, Holders
      <3>2. Cardinality(H) \in Nat /\ Cardinality(H) # 0 /\ (Cardinality(H) = 1 => H = {s})
        BY <3>1, CountHolders
      <3> QED BY <3>1, <3>2
    <2>4. \A t \in Sessions : u.cmH[t][c] = None
      BY <2>2, <2>3, <1>6 DEF H, Holders
    <2> QED BY <2>1, <2>2, <2>4, <1>12, IdsApart DEF Current, Agree
  <1>19. (Whole(w) => Whole(u)) /\ (NoToDelete(w) => NoToDelete(u))
    <2>1. \A i \in Cms : u.cms[i] # None /\ u.cms[i].status = "ToBeDeleted" =>
             w.cms[i] # None /\ w.cms[i].status = "ToBeDeleted"
      BY <1>1, <1>6, <1>9, IdsApart DEF g, Worlds
    <2>2. \A d \in Dests : ~Has(u.db.dest[d], c)
      <3>1. SUFFICES ASSUME NEW d \in Dests PROVE ~Has(u.db.dest[d], c)
        OBVIOUS
      <3>2. w.db.dest[d] # None => w.db.dest[d] \in Items
        BY <1>1 DEF Worlds, Data
      <3> QED BY <1>13, <3>2, WithoutIn DEF Items, Has
    <2>3. \A i \in Cms : w.db.cm[i] # None => u.db.cm[i] # None \/ \A d \in Dests : ~Has(u.db.dest[d], i)
      BY <1>12, <2>2
    <2> QED BY <1>1, <1>8, <1>10, <1>13, <2>1, <2>3, TakenOutLists
  <1>20. Keeps(w, u)
    BY <1>8, <1>14, <1>15, <1>16, <1>17, <1>18, <1>19 DEF Keeps, KeepsLists, KeepsMost, Core
  <1>21. Core(u)
    BY <1>20 DEF Keeps, KeepsLists, KeepsMost
  <1>22. Keeps(u, v)
    BY <1>11, <1>21, OutdateDstsKeeps
  <1>23. Keeps(w, v)
    BY <1>20, <1>22, KeepsBoth
  <1> QED BY <1>23 DEF v

\* DeleteConnMethod: at once, or hidden until the last handle closes.
LEMMA DeleteConnMethodKeeps ==
  ASSUME Core(World), NEW s \in Sessions, NEW c \in Cms, DeleteConnMethod(s, c)
  PROVE  Keeps(World, World')
PROOF
  <1>1. c \in CmIds /\ World.cmH[s][c] # None /\ World.cms = cms /\ World.lastTemp = lastTemp
    BY IdsApart DEF DeleteConnMethod, World
  <1>2. CASE cms[c].status = "ToBeDeleted"
    <2> DEFINE v == CloseCms(World, s, {c})
    <2>1. Become(v)
      BY <1>2 DEF DeleteConnMethod
    <2>2. Keeps(World, v)
      BY <1>1, CloseCmsKeeps
    <2> HIDE DEF v
    <2> QED BY <2>1, <2>2, BecomeKeeps
  <1>3. CASE cms[c].status # "ToBeDeleted" /\ HeldByOne(c)
    <2> DEFINE v == [DeleteNow(World, c) EXCEPT !.cmH[s][c] = None, !.cms[c] = None, !.lastTemp = @ + 1]
    <2>1. Become(v) /\ lastTemp < MaxTemp
      BY <1>3 DEF DeleteConnMethod
    <2>2. Keeps(World, v)
      BY <1>1, <1>3, <2>1, DeleteNowKeeps, Zenon DEF HeldByOne
    <2> HIDE DEF v
    <2> QED BY <2>1, <2>2, BecomeKeeps
  <1>4. CASE cms[c].status # "ToBeDeleted" /\ ~HeldByOne(c)
    <2> DEFINE a == RemoveReferences(World, s, c)
               b == AfterDelete(a, {c})
               v == CloseCms(b, s, {c})
    <2>1. Become(v)
      BY <1>4 DEF DeleteConnMethod, HideUntilClosed
    <2>2. Keeps(World, a) /\ a.cms = World.cms /\ a.cmH = World.cmH /\ \A d \in Dests : ~Has(a.db.dest[d], c)
      BY RemoveReferencesKeeps
    <2> HIDE DEF a
    <2>3. Core(a) /\ a \in Worlds
      BY <2>2 DEF Keeps, KeepsLists, KeepsMost, Core
    <2>4. World.cms[c] # None
      BY <1>1, HeldCm
    <2>5. {c} \in SUBSET Cms /\ \A i \in {c} :
             IF a.cms[i] = None THEN a.db.cm[i] = None ELSE \A d \in Dests : ~Has(a.db.dest[d], i)
      BY <2>2, <2>4
    <2>6. Keeps(a, b) /\ b.cmH = OutdateCms(a, { i \in {c} : a.cms[i] # None }).cmH
      BY <2>3, <2>5, AfterDeleteKeeps
    <2> HIDE DEF b
    <2>7. b.cmH[s][c] # None
      <3> DEFINE C == { i \in {c} : a.cms[i] # None }
      <3> HIDE DEF C
      <3>1. b.cmH = OutdateCms(a, C).cmH
        BY <2>6 DEF C
      <3>2. b.cmH[s][c] = IF c \in C /\ a.cmH[s][c] # None THEN [a.cmH[s][c] EXCEPT !.status = "Changed"]
                          ELSE a.cmH[s][c]
        BY <1>1, <2>3, <3>1 DEF OutdateCms, Worlds
      <3>3. a.cmH[s][c] # None
        BY <1>1, <2>2
      <3>4. a.cmH[s][c] \in CmHandles
        BY <1>1, <2>3, <3>3 DEF Worlds
      <3>5. [a.cmH[s][c] EXCEPT !.status = "Changed"] \in CmHandles
        BY <3>4 DEF CmHandles
      <3> QED BY <3>2, <3>3, <3>5, SetFields
    <2>8. Core(b) /\ {c} \in SUBSET CmIds /\ \A i \in {c} : b.cmH[s][i] # None
      BY <1>1, <2>6, <2>7 DEF Keeps, KeepsLists, KeepsMost
    <2>9. Keeps(b, v)
      BY <2>8, CloseCmsKeeps
    <2> HIDE DEF v
    <2>10. Keeps(World, v)
      BY <2>2, <2>6, <2>9, KeepsBoth
    <2> QED BY <2>1, <2>10, BecomeKeeps
  <1> QED BY <1>2, <1>3, <1>4

\* CreateConnMethodL.
LEMMA CreateConnMethodKeeps ==
  ASSUME Core(World), NEW s \in Sessions,
         CreateConnMethod(s)
  PROVE  Keeps(World, World')
PROOF
  <1>1. World.lastTemp = lastTemp /\ World.cmH = cmH /\ World.dstH = dstH
    BY DEF World
  <1> DEFINE v == WithNewCm(World, s, DefaultValue)
  <1>2. Become(v) /\ lastTemp < MaxTemp
    BY DEF CreateConnMethod
  <1>3. Keeps(World, v)
    BY <1>1, <1>2, SetFields, WithNewCmKeeps
  <1> HIDE DEF v
  <1> QED BY <1>2, <1>3, BecomeKeeps

\* The requests that change nothing but a handle to a CM and its structure.
LEMMA CmHandleRequestsKeep ==
  ASSUME Core(World), NEW s \in Sessions, NEW i \in CmIds, NEW x \in Values,
         \/ CreateCopyOfExisting(s, i)
         \/ SetAttribute(s, i, x)
         \/ CloseConnMethod(s, i)
  PROVE  Keeps(World, World')
PROOF
  <1>1. World.lastTemp = lastTemp /\ World.cmH = cmH /\ World.dstH = dstH
    BY DEF World
  <1>2. CASE CreateCopyOfExisting(s, i)
    <2> DEFINE v == WithNewCm(World, s, cmH[s][i].val)
    <2>1. Become(v) /\ lastTemp < MaxTemp /\ cmH[s][i] # None
      BY <1>2 DEF CreateCopyOfExisting
    <2>2. cmH[s][i].val \in Values
      BY <1>1, <2>1, HeldCm DEF CmHandles
    <2>3. Keeps(World, v)
      BY <1>1, <2>1, <2>2, WithNewCmKeeps
    <2> HIDE DEF v
    <2> QED BY <2>1, <2>3, BecomeKeeps
  <1>3. CASE SetAttribute(s, i, x)
    <2> DEFINE v == [World EXCEPT !.cmH[s][i] =
                       [status |-> World.cmH[s][i].status, rec |-> "Modified", val |-> x]]
    <2>1. Become(v) /\ cmH[s][i] # None
      BY <1>1, <1>3 DEF SetAttribute
    <2>2. Keeps(World, v)
      BY <1>1, <2>1, SetAttributeKeeps
    <2> HIDE DEF v
    <2> QED BY <2>1, <2>2, BecomeKeeps
  <1>4. CASE CloseConnMethod(s, i)
    <2> DEFINE v == CloseCms(World, s, {i})
    <2>1. Become(v) /\ cmH[s][i] # None
      BY <1>4 DEF CloseConnMethod
    <2>2. Keeps(World, v)
      BY <1>1, <2>1, CloseCmsKeeps
    <2> HIDE DEF v
    <2> QED BY <2>1, <2>2, BecomeKeeps
  <1> QED BY <1>2, <1>3, <1>4

\* CloseDestination.
LEMMA CloseDestinationKeeps ==
  ASSUME Core(World), NEW s \in Sessions, NEW k \in Slots,
         CloseDestination(s, k)
  PROVE  Keeps(World, World')
PROOF
  <1>1. World.lastTemp = lastTemp /\ World.cmH = cmH /\ World.dstH = dstH
    BY DEF World
  <1> DEFINE v == CloseDst(World, s, k)
  <1>2. Become(v) /\ dstH[s][k] # None
    BY DEF CloseDestination
  <1>3. Keeps(World, v)
    BY <1>1, <1>2, CloseDstKeeps
  <1> HIDE DEF v
  <1> QED BY <1>2, <1>3, BecomeKeeps

\* The requests that change the items of a handle to a destination.
LEMMA ItemRequestsKeep ==
  ASSUME Core(World), NEW s \in Sessions, NEW k \in Slots, NEW i \in CmIds,
         \/ AddConnMethod(s, k, i)
         \/ DestRemoveConnMethod(s, k, i)
  PROVE  Keeps(World, World')
PROOF
  <1>1. World.lastTemp = lastTemp /\ World.cmH = cmH /\ World.dstH = dstH
    BY DEF World
  <1>2. CASE AddConnMethod(s, k, i)
    <2> DEFINE v == WithCmAdded(World, s, k, i)
    <2>1. Become(v) /\ dstH[s][k] # None
      BY <1>2 DEF AddConnMethod, MayAdd
    <2>2. Keeps(World, v)
      BY <1>1, <2>1, WithCmAddedKeeps
    <2> HIDE DEF v
    <2> QED BY <2>1, <2>2, BecomeKeeps
  <1>3. CASE DestRemoveConnMethod(s, k, i)
    <2> DEFINE v == ItemLeft(World, s, k, i)
    <2>1. Become(v) /\ dstH[s][k] # None
      BY <1>3 DEF DestRemoveConnMethod
    <2>2. Keeps(World, v)
      BY <1>1, <2>1, ItemLeftKeeps
    <2> HIDE DEF v
    <2> QED BY <2>1, <2>2, BecomeKeeps
  <1> QED BY <1>2, <1>3

\* What s has no id of CommsDat for, and whether there are ids for it.
CmTempsHeld(w, s)  == { i \in CmTemps : w.cmH[s][i] # None }
DstTempSlots(w, s) == { k \in Slots : w.dstH[s][k] # None /\ w.dstH[s][k].id \in DstTemps }
RoomIn(w, s) == /\ Cardinality(CmTempsHeld(w, s)) <= Cardinality(FreeCms(w))
                /\ Cardinality(DstTempSlots(w, s)) <= Cardinality(FreeDests(w))

\* The ids S given to some of T.
NewIds(T, S) == UNION { [D -> S] : D \in SUBSET T }

Saves == [ok : BOOLEAN, panic : BOOLEAN, w : Worlds, newCm : NewIds(CmTemps, Cms),
          newDst : NewIds(DstTemps, Dests), savedCm : SUBSET CmIds, savedDst : SUBSET DstIds,
          gone : SUBSET CmIds]

\* Nothing was given that CommsDat has, and nothing twice.
GivenFresh(new, recs) ==
    /\ \A t, u \in DOMAIN new : new[t] = new[u] => t = u
    /\ \A t \in DOMAIN new : recs[new[t]] = None

\* A save in progress, for s and from w: what it has done with CMs.
SavingCms(w, p, s) ==
    /\ p.w.cmH = w.cmH
    /\ \A i \in p.savedCm : w.cmH[s][i] # None
    /\ DOMAIN p.newCm = p.savedCm \cap CmTemps
    /\ GivenFresh(p.newCm, w.db.cm)
    /\ \A t \in DOMAIN p.newCm : p.w.db.cm[p.newCm[t]] = w.cmH[s][t].val
    /\ \A c \in Cms : (\A t \in DOMAIN p.newCm : p.newCm[t] # c) =>
         p.w.db.cm[c] = IF c \in p.savedCm THEN w.cmH[s][c].val ELSE w.db.cm[c]
    /\ \A i \in CmIds : p.w.cms[i] = None <=> w.cms[i] = None
    /\ \A i \in CmIds : w.cms[i] # None =>
         /\ p.w.cms[i].status = w.cms[i].status /\ p.w.cms[i].rec = w.cms[i].rec
         /\ p.w.cms[i].ref = w.cms[i].ref
         /\ p.w.cms[i].made <=> w.cms[i].made \/ i \in DOMAIN p.newCm
         /\ p.w.cms[i].val = IF i \in p.savedCm THEN w.cmH[s][i].val ELSE w.cms[i].val
    /\ Cardinality(CmTempsHeld(w, s) \ DOMAIN p.newCm) <= Cardinality(FreeCms(p.w))

\* With destinations: the handles may have lost items.
SameHandle(g, h) == /\ g.id = h.id /\ g.status = h.status /\ g.toDelete = h.toDelete
                    /\ ListsNoMore(g, h)
Unsaved(w, p, s) == { k \in DstTempSlots(w, s) : w.dstH[s][k].id \notin DOMAIN p.newDst }
SavingDsts(w, p, s) ==
    /\ \A u \in Sessions : \A k \in Slots :
         /\ p.w.dstH[u][k] = None <=> w.dstH[u][k] = None
         /\ w.dstH[u][k] # None => SameHandle(p.w.dstH[u][k], w.dstH[u][k])
         /\ u # s => p.w.dstH[u][k] = w.dstH[u][k]
    /\ \A d \in p.savedDst : \E k \in Slots : w.dstH[s][k] # None /\ w.dstH[s][k].id = d
    /\ DOMAIN p.newDst = p.savedDst \cap DstTemps
    /\ GivenFresh(p.newDst, w.db.dest)
    /\ \A t \in DOMAIN p.newDst : p.w.db.dest[p.newDst[t]] # None
    /\ \A d \in Dests : w.db.dest[d] # None => p.w.db.dest[d] # None
    /\ \A d \in DstIds : p.w.dsts[d] = None <=> w.dsts[d] = None
    /\ \A d \in DstIds : w.dsts[d] # None =>
         p.w.dsts[d].status = w.dsts[d].status /\ p.w.dsts[d].ref = w.dsts[d].ref
    /\ Cardinality(Unsaved(w, p, s)) <= Cardinality(FreeDests(p.w))

\* With the lists: a CM is listed that was, or that is saved or mapped; a
\* destination that was, or that a handle has.
ListedCm(w, p, c) == c \in p.savedCm \/ c \in w.mapping.cm \/ \E t \in DOMAIN p.newCm : p.newCm[t] = c
ListedDst(w, p, s, d, e) == \E k \in Slots :
    w.dstH[s][k] # None /\ Real(p.newDst, w.dstH[s][k].id) = d /\ e \in ToSet(w.dstH[s][k].items)
SavingLists(w, p, s) == \A d \in Dests :
    /\ \A c \in Cms : Has(p.w.db.dest[d], c) => Has(w.db.dest[d], c) \/ ListedCm(w, p, c)
    /\ \A e \in Dests : Has(p.w.db.dest[d], e) => Has(w.db.dest[d], e) \/ ListedDst(w, p, s, d, e)

Saving(w, p, s) ==
    /\ p \in Saves /\ p.ok = TRUE /\ p.panic = FALSE /\ p.gone = {}
    /\ p.w.mapping = w.mapping /\ p.w.deleted = w.deleted /\ p.w.lastTemp = w.lastTemp
    /\ SavingCms(w, p, s) /\ SavingDsts(w, p, s) /\ SavingLists(w, p, s)

\* From p to r more is saved, and the handles of s lose items only.
Further(p, r, s) ==
    /\ p.savedCm \subseteq r.savedCm
    /\ \A k \in Slots : p.w.dstH[s][k] # None => ListsNoMore(r.w.dstH[s][k], p.w.dstH[s][k])

\* An item that is saved, or needs not be.
Resolved(w, p, i) == i \in CmIds => i \in p.savedCm \/ i \in w.mapping.cm

------------------------------------------------------------------------------

\* Partial functions from temporary ids to real ones.
LEMMA NewIdsIs ==
  ASSUME NEW T, NEW S, NEW f
  PROVE  f \in NewIds(T, S) <=> DOMAIN f \subseteq T /\ f \in [DOMAIN f -> S]
PROOF
  <1>1. ASSUME f \in NewIds(T, S) PROVE DOMAIN f \subseteq T /\ f \in [DOMAIN f -> S]
    BY <1>1 DEF NewIds
  <1>2. ASSUME DOMAIN f \subseteq T, f \in [DOMAIN f -> S] PROVE f \in NewIds(T, S)
    BY <1>2 DEF NewIds
  <1> QED BY <1>1, <1>2

\* Ids are finitely many.
LEMMA IdsFinite ==
  /\ IsFiniteSet(Cms) /\ IsFiniteSet(Dests) /\ IsFiniteSet(CmTemps) /\ IsFiniteSet(Slots)
PROOF
  <1>1. IsFiniteSet(1..99) /\ IsFiniteSet(1..NumSlots) /\ IsFiniteSet(1..MaxTemp)
    <2>1. 1 \in Int /\ 99 \in Int /\ NumSlots \in Int /\ MaxTemp \in Int
      BY BoundsAssumption
    <2> QED BY <2>1, FS_Interval
  <1>2. IsFiniteSet(Cms) /\ IsFiniteSet(Dests)
    BY <1>1, IdsAreDisjoint, FS_Subset
  <1>3. IsFiniteSet(CmTemps)
    <2> DEFINE f == [n \in 1..MaxTemp |-> CmTemp(n)]
    <2>1. f \in Surjection(1..MaxTemp, CmTemps)
      BY DEF Surjection, CmTemps
    <2> QED BY <1>1, <2>1, FS_Surjection
  <1> QED BY <1>1, <1>2, <1>3 DEF Slots

\* What is free, and one less of it.
LEMMA FreeIds ==
  ASSUME NEW w \in Worlds
  PROVE  /\ IsFiniteSet(FreeCms(w)) /\ IsFiniteSet(FreeDests(w))
         /\ FreeCms(w) # {} => Least(FreeCms(w)) \in FreeCms(w)
         /\ FreeDests(w) # {} => Least(FreeDests(w)) \in FreeDests(w)
PROOF
  <1>1. FreeCms(w) \subseteq Cms /\ FreeDests(w) \subseteq Dests
    BY DEF FreeCms, FreeDests
  <1>2. IsFiniteSet(FreeCms(w)) /\ IsFiniteSet(FreeDests(w))
    BY <1>1, IdsFinite, FS_Subset
  <1>3. FreeCms(w) \in SUBSET Nat /\ FreeDests(w) \in SUBSET Nat
    BY <1>1, IdsAreDisjoint
  <1> QED BY <1>2, <1>3, LeastIsIn

\* One element less of each: what was not more still is not.
LEMMA OneLess ==
  ASSUME NEW A, NEW B, NEW a \in A, NEW b, IsFiniteSet(A), IsFiniteSet(B),
         Cardinality(A) <= Cardinality(B)
  PROVE  /\ B # {}
         /\ b \in B => Cardinality(A \ {a}) <= Cardinality(B \ {b})
PROOF
  <1>1. Cardinality(A) \in Nat /\ Cardinality(B) \in Nat /\ Cardinality(A) # 0
    BY FS_CardinalityType, FS_EmptySet
  <1>2. Cardinality(B) # 0
    BY <1>1
  <1>3. B # {}
    BY <1>2, FS_EmptySet
  <1>4. ASSUME b \in B PROVE Cardinality(A \ {a}) <= Cardinality(B \ {b})
    <2>1. Cardinality(A \ {a}) = Cardinality(A) - 1 /\ Cardinality(B \ {b}) = Cardinality(B) - 1
      BY <1>4, FS_RemoveElement
    <2> QED BY <1>1, <2>1
  <1> QED BY <1>3, <1>4

\* A save begins.
LEMMA BeginSaves ==
  ASSUME NEW w, Core(w), NEW s \in Sessions, RoomIn(w, s)
  PROVE  Saving(w, Begin(w), s)
PROOF
  <1> DEFINE p == Begin(w)
  <1>1. w \in Worlds
    BY DEF Core
  <1>2. NoIds \in NewIds(CmTemps, Cms) /\ NoIds \in NewIds(DstTemps, Dests) /\ DOMAIN NoIds = {}
    BY NewIdsIs DEF NoIds
  <1>3. /\ p.ok = TRUE /\ p.panic = FALSE /\ p.gone = {} /\ p.w = w /\ p.newCm = NoIds
        /\ p.newDst = NoIds /\ p.savedCm = {} /\ p.savedDst = {}
    BY DEF Begin
  <1>4. p \in Saves
    BY <1>1, <1>2 DEF Begin, Saves
  <1> HIDE DEF p
  <1>5. CmTempsHeld(w, s) \ DOMAIN p.newCm = CmTempsHeld(w, s) /\ Unsaved(w, p, s) = DstTempSlots(w, s)
    BY <1>2, <1>3 DEF Unsaved
  <1>6. SavingCms(w, p, s)
    BY <1>2, <1>3, <1>5 DEF SavingCms, GivenFresh, RoomIn
  <1>7. SavingDsts(w, p, s)
    BY <1>2, <1>3, <1>5 DEF SavingDsts, GivenFresh, RoomIn, SameHandle, ListsNoMore
  <1>8. SavingLists(w, p, s)
    BY <1>3 DEF SavingLists
  <1> QED BY <1>3, <1>4, <1>6, <1>7, <1>8 DEF Saving, p

\* What a given id adds.
LEMMA GivenIs ==
  ASSUME NEW new, NEW i, NEW r, NEW j \in DOMAIN new \cup {i}
  PROVE  /\ DOMAIN Given(new, i, r) = DOMAIN new \cup {i}
         /\ Given(new, i, r)[j] = IF j = i THEN r ELSE new[j]
  BY DEF Given

\* r is p with CM i written by s, under the id real.
IsNewCm(p, i) == i \notin Cms /\ i \notin DOMAIN p.newCm
CmWritten(w, p, r, s, i, real) ==
    /\ real \in Cms /\ w.cmH[s][i].val \in Values /\ w.cms[i] # None
    /\ IF IsNewCm(p, i) THEN i \in CmTemps /\ real \in FreeCms(p.w)
       ELSE IF i \in Cms THEN real = i ELSE real = p.newCm[i]
    /\ r.newCm = IF IsNewCm(p, i) THEN Given(p.newCm, i, real) ELSE p.newCm
    /\ r \in Saves /\ r.ok = TRUE /\ r.panic = FALSE /\ r.gone = {} /\ r.newDst = p.newDst
    /\ r.savedCm = p.savedCm \cup {i} /\ r.savedDst = p.savedDst
    /\ r.w.mapping = p.w.mapping /\ r.w.deleted = p.w.deleted /\ r.w.lastTemp = p.w.lastTemp
    /\ r.w.cmH = p.w.cmH /\ r.w.dstH = p.w.dstH /\ r.w.dsts = p.w.dsts
    /\ r.w.db.dest = p.w.db.dest
    /\ \A c \in Cms : r.w.db.cm[c] = IF c = real THEN w.cmH[s][i].val ELSE p.w.db.cm[c]
    /\ \A j \in CmIds \ {i} : r.w.cms[j] = p.w.cms[j]
    /\ r.w.cms[i] # None /\ r.w.cms[i].made = TRUE /\ r.w.cms[i].val = w.cmH[s][i].val
    /\ r.w.cms[i].status = w.cms[i].status /\ r.w.cms[i].rec = w.cms[i].rec
    /\ r.w.cms[i].ref = w.cms[i].ref

\* What SaveCm leaves.
LEMMA SaveCmIs ==
  ASSUME NEW w, Core(w), NEW s \in Sessions, NEW p, Saving(w, p, s), NEW i \in CmIds, w.cmH[s][i] # None
  PROVE  \E real \in Cms : CmWritten(w, p, SaveCm(p, s, i), s, i, real)
PROOF
  <1> DEFINE new  == i \notin Cms /\ i \notin DOMAIN p.newCm
             real == IF new THEN Least(FreeCms(p.w)) ELSE RealId(p, i)
             r    == SaveCm(p, s, i)
             x    == w.cmH[s][i].val
             own  == [p.w.cms[i] EXCEPT !.val = x, !.made = TRUE]
             dat  == [p.w.db EXCEPT !.cm = [p.w.db.cm EXCEPT ![real] = x]]
             N    == IF new THEN Given(p.newCm, i, real) ELSE p.newCm
             W    == [p.w EXCEPT !.cms = [p.w.cms EXCEPT ![i] = own], !.db = dat]
  <1>1. p \in Saves /\ p.w \in Worlds /\ w \in Worlds /\ SavingCms(w, p, s) /\ p.w.cmH = w.cmH
    BY DEF Saving, Saves, Core, SavingCms
  <1>2. p.newCm \in [DOMAIN p.newCm -> Cms] /\ DOMAIN p.newCm \subseteq CmTemps
    BY <1>1, NewIdsIs DEF Saves
  <1>3. \A j \in CmIds : w.cmH[s][j] # None => w.cmH[s][j].val \in Values /\ w.cmH[s][j].val # None
    <2>1. SUFFICES ASSUME NEW j \in CmIds, w.cmH[s][j] # None
                   PROVE  w.cmH[s][j].val \in Values /\ w.cmH[s][j].val # None
      OBVIOUS
    <2>2. w.cmH[s][j] \in CmHandles
      BY <1>1, <2>1 DEF Worlds
    <2> QED BY <2>2, NoneIsNothing DEF CmHandles
  <1>4. /\ w.cms[i] # None /\ (i \in Cms => w.db.cm[i] # None /\ w.cms[i].made) /\ (i \notin Cms => ~w.cms[i].made)
    BY HeldCm
  <1>5. /\ p.w.cms[i] # None /\ (p.w.cms[i].made <=> ~new) /\ p.w.cms[i].status = w.cms[i].status
        /\ p.w.cms[i].rec = w.cms[i].rec /\ p.w.cms[i].ref = w.cms[i].ref
    BY <1>1, <1>4 DEF SavingCms
  <1>6. p.w.cms[i] \in CmStructs
    BY <1>1, <1>5 DEF Worlds
  <1>7. x \in Values
    BY <1>3
  <1>8. /\ own \in CmStructs /\ own.made = TRUE /\ own.val = x /\ own.status = w.cms[i].status
        /\ own.rec = w.cms[i].rec /\ own.ref = w.cms[i].ref
    <2> DEFINE y == p.w.cms[i]
    <2> HIDE DEF y
    <2>1. y \in CmStructs
      BY <1>6 DEF y
    <2>2. [y EXCEPT !.val = x, !.made = TRUE] \in CmStructs
      BY <1>7, <2>1 DEF CmStructs
    <2>3. /\ [y EXCEPT !.val = x, !.made = TRUE].made = TRUE /\ [y EXCEPT !.val = x, !.made = TRUE].val = x
          /\ [y EXCEPT !.val = x, !.made = TRUE].status = y.status
          /\ [y EXCEPT !.val = x, !.made = TRUE].rec = y.rec
          /\ [y EXCEPT !.val = x, !.made = TRUE].ref = y.ref
      BY <2>1 DEF CmStructs
    <2> QED BY <1>5, <2>2, <2>3 DEF y
  <1>9. IF new THEN i \in CmTemps /\ real \in FreeCms(p.w)
        ELSE IF i \in Cms THEN real = i ELSE real = p.newCm[i]
    <2>1. CASE new
      <3>1. i \in CmTemps
        BY <2>1, IdsApart
      <3> DEFINE A == CmTempsHeld(w, s) \ DOMAIN p.newCm
      <3>2. i \in A
        BY <2>1, <3>1 DEF CmTempsHeld
      <3>3. CmTempsHeld(w, s) \subseteq CmTemps
        BY DEF CmTempsHeld
      <3>4. IsFiniteSet(A)
        BY <3>3, IdsFinite, FS_Subset
      <3>5. Cardinality(A) <= Cardinality(FreeCms(p.w)) /\ IsFiniteSet(FreeCms(p.w))
        BY <1>1, FreeIds DEF SavingCms
      <3> HIDE DEF A
      <3>6. FreeCms(p.w) # {}
        BY <3>2, <3>4, <3>5, OneLess
      <3> QED BY <1>1, <2>1, <3>1, <3>6, FreeIds
    <2>2. CASE ~new
      BY <1>2, <2>2, IdsApart DEF RealId, Real
    <2> QED BY <2>1, <2>2
  <1>10. real \in Cms
    BY <1>2, <1>9 DEF FreeCms
  <1>11. ~new => p.w.db.cm[real] # None
    <2>1. \A t \in DOMAIN p.newCm : w.cmH[s][t] # None /\ t \in CmIds
      BY <1>1, <1>2, IdsApart DEF SavingCms
    <2>2. \A t \in DOMAIN p.newCm : p.w.db.cm[p.newCm[t]] # None
      BY <1>1, <1>3, <2>1 DEF SavingCms
    <2>3. CASE i \in Cms
      <3>1. real = i
        BY <1>9, <2>3
      <3>2. CASE \A t \in DOMAIN p.newCm : p.newCm[t] # i
        <4>1. p.w.db.cm[i] = IF i \in p.savedCm THEN x ELSE w.db.cm[i]
          BY <1>1, <2>3, <3>2 DEF SavingCms
        <4> QED BY <1>3, <1>4, <2>3, <3>1, <4>1
      <3> QED BY <2>2, <3>1, <3>2
    <2>4. CASE i \notin Cms /\ i \in DOMAIN p.newCm
      BY <1>9, <2>2, <2>4
    <2> QED BY <2>3, <2>4
  <1>12. r = [p EXCEPT !.w = W, !.savedCm = p.savedCm \cup {i}, !.newCm = N]
    <2>1. (~p.w.cms[i].made) = new /\ p.w.cmH[s][i].val = x
      BY <1>1, <1>5
    <2> DEFINE taken == [p.w EXCEPT !.cms[i] = own]
    <2>2. r = [p EXCEPT !.w = [taken EXCEPT !.db.cm[real] = x], !.savedCm = p.savedCm \cup {i}, !.newCm = N]
      BY <1>10, <1>11, <2>1 DEF SaveCm
    <2>3. [taken EXCEPT !.db.cm[real] = x] = W
      BY <1>1 DEF Worlds
    <2> QED BY <2>2, <2>3
  <1> HIDE DEF new, real, own, x, r
  <1>13. N \in NewIds(CmTemps, Cms)
    <2>1. CASE new
      <3>2. N = Given(p.newCm, i, real)
        BY <2>1
      <3>3. N = [j \in DOMAIN N |-> N[j]]
        BY <3>2 DEF Given
      <3> HIDE DEF N
      <3>1. DOMAIN N = DOMAIN p.newCm \cup {i} /\ \A j \in DOMAIN p.newCm \cup {i} :
               N[j] = IF j = i THEN real ELSE p.newCm[j]
        BY <3>2 DEF Given
      <3>4. N \in [DOMAIN N -> Cms] /\ DOMAIN N \subseteq CmTemps
        BY <1>2, <1>9, <1>10, <2>1, <3>1, <3>3
      <3> QED BY <3>4, NewIdsIs
    <2>2. CASE ~new
      BY <1>1, <2>2 DEF Saves
    <2> QED BY <2>1, <2>2
  <1>14. dat \in Data /\ dat.dest = p.w.db.dest
         /\ \A c \in Cms : dat.cm[c] = IF c = real THEN x ELSE p.w.db.cm[c]
    BY <1>1, <1>7, <1>10 DEF Worlds, Data
  <1> HIDE DEF dat, N
  <1>15. W \in Worlds
    BY <1>1, <1>8, <1>14 DEF Worlds
  <1>16. /\ W.mapping = p.w.mapping /\ W.deleted = p.w.deleted /\ W.lastTemp = p.w.lastTemp
         /\ W.cmH = p.w.cmH /\ W.dstH = p.w.dstH /\ W.dsts = p.w.dsts
    BY <1>1 DEF Worlds
  <1>17. W.db = dat /\ \A j \in CmIds : W.cms[j] = IF j = i THEN own ELSE p.w.cms[j]
    BY <1>1 DEF Worlds
  <1> HIDE DEF W
  <1>18. r \in Saves /\ r.w = W /\ r.savedCm = p.savedCm \cup {i} /\ r.newCm = N
    BY <1>1, <1>12, <1>13, <1>15 DEF Saves
  <1>19. /\ r.ok = p.ok /\ r.panic = p.panic /\ r.gone = p.gone /\ r.newDst = p.newDst
         /\ r.savedDst = p.savedDst
    BY <1>1, <1>12 DEF Saves
  <1>20. p.ok = TRUE /\ p.panic = FALSE /\ p.gone = {}
    BY DEF Saving
  <1>21. own # None
    BY <1>8, SetFields
  <1>22. CmWritten(w, p, r, s, i, real)
    <2>1. new = IsNewCm(p, i) /\ x = w.cmH[s][i].val
      BY DEF new, x, IsNewCm
    <2>2. /\ r.newCm = IF IsNewCm(p, i) THEN Given(p.newCm, i, real) ELSE p.newCm
          /\ IF IsNewCm(p, i) THEN i \in CmTemps /\ real \in FreeCms(p.w)
             ELSE IF i \in Cms THEN real = i ELSE real = p.newCm[i]
      BY <1>9, <1>18, <2>1 DEF N
    <2>3. /\ r.w.cms[i] # None /\ r.w.cms[i].made = TRUE /\ r.w.cms[i].val = w.cmH[s][i].val
          /\ r.w.cms[i].status = w.cms[i].status /\ r.w.cms[i].rec = w.cms[i].rec
          /\ r.w.cms[i].ref = w.cms[i].ref
          /\ \A j \in CmIds \ {i} : r.w.cms[j] = p.w.cms[j]
      BY <1>8, <1>17, <1>18, <1>21, <2>1
    <2>4. /\ \A c \in Cms : r.w.db.cm[c] = IF c = real THEN w.cmH[s][i].val ELSE p.w.db.cm[c]
          /\ r.w.db.dest = p.w.db.dest
      BY <1>14, <1>17, <1>18, <2>1
    <2>5. /\ r.w.mapping = p.w.mapping /\ r.w.deleted = p.w.deleted /\ r.w.lastTemp = p.w.lastTemp
          /\ r.w.cmH = p.w.cmH /\ r.w.dstH = p.w.dstH /\ r.w.dsts = p.w.dsts
      BY <1>16, <1>18
    <2>6. /\ r \in Saves /\ r.ok = TRUE /\ r.panic = FALSE /\ r.gone = {} /\ r.newDst = p.newDst
          /\ r.savedCm = p.savedCm \cup {i} /\ r.savedDst = p.savedDst
      BY <1>18, <1>19, <1>20
    <2>7. real \in Cms /\ w.cmH[s][i].val \in Values /\ w.cms[i] # None
      BY <1>4, <1>7, <1>10, <2>1
    <2> QED BY <2>2, <2>3, <2>4, <2>5, <2>6, <2>7 DEF CmWritten
  <1> QED BY <1>10, <1>22 DEF r

\* What holds of everything the session has.
LEMMA SavingFacts ==
  ASSUME NEW w, Core(w), NEW s \in Sessions, NEW p, Saving(w, p, s)
  PROVE  /\ p \in Saves /\ p.w \in Worlds /\ w \in Worlds
         /\ p.newCm \in [DOMAIN p.newCm -> Cms] /\ DOMAIN p.newCm \subseteq CmTemps
         /\ p.newDst \in [DOMAIN p.newDst -> Dests] /\ DOMAIN p.newDst \subseteq DstTemps
         /\ \A i \in CmIds : w.cmH[s][i] # None => w.cmH[s][i].val \in Values /\ w.cmH[s][i].val # None
         /\ \A t \in DOMAIN p.newCm : w.cmH[s][t] # None /\ t \in CmIds /\ t \in p.savedCm
PROOF
  <1>1. p \in Saves /\ p.w \in Worlds /\ w \in Worlds /\ SavingCms(w, p, s)
    BY DEF Saving, Saves, Core
  <1>2. /\ p.newCm \in [DOMAIN p.newCm -> Cms] /\ DOMAIN p.newCm \subseteq CmTemps
        /\ p.newDst \in [DOMAIN p.newDst -> Dests] /\ DOMAIN p.newDst \subseteq DstTemps
    BY <1>1, NewIdsIs DEF Saves
  <1>3. \A i \in CmIds : w.cmH[s][i] # None => w.cmH[s][i].val \in Values /\ w.cmH[s][i].val # None
    <2>1. SUFFICES ASSUME NEW i \in CmIds, w.cmH[s][i] # None
                   PROVE  w.cmH[s][i].val \in Values /\ w.cmH[s][i].val # None
      OBVIOUS
    <2>2. w.cmH[s][i] \in CmHandles
      BY <1>1, <2>1 DEF Worlds
    <2> QED BY <2>2, NoneIsNothing DEF CmHandles
  <1>4. \A t \in DOMAIN p.newCm : w.cmH[s][t] # None /\ t \in CmIds /\ t \in p.savedCm
    BY <1>1, <1>2, IdsApart DEF SavingCms
  <1> QED BY <1>1, <1>2, <1>3, <1>4

\* Saving a CM that s has a handle to.
LEMMA SaveCmSaves ==
  ASSUME NEW w, Core(w), NEW s \in Sessions, NEW p, Saving(w, p, s), NEW i \in CmIds, w.cmH[s][i] # None
  PROVE  LET r == SaveCm(p, s, i)
         IN Saving(w, r, s) /\ Further(p, r, s) /\ i \in r.savedCm
PROOF
  <1> DEFINE new == IsNewCm(p, i)
             r   == SaveCm(p, s, i)
             x   == w.cmH[s][i].val
  <1>0. PICK real \in Cms : CmWritten(w, p, r, s, i, real)
    BY SaveCmIs
  <1> HIDE DEF r
  <1>1. /\ real \in Cms /\ x \in Values /\ w.cms[i] # None
        /\ IF new THEN i \in CmTemps /\ real \in FreeCms(p.w)
           ELSE IF i \in Cms THEN real = i ELSE real = p.newCm[i]
        /\ r.newCm = IF new THEN Given(p.newCm, i, real) ELSE p.newCm
        /\ r \in Saves /\ r.ok = TRUE /\ r.panic = FALSE /\ r.gone = {} /\ r.newDst = p.newDst
        /\ r.savedCm = p.savedCm \cup {i} /\ r.savedDst = p.savedDst
        /\ r.w.mapping = p.w.mapping /\ r.w.deleted = p.w.deleted /\ r.w.lastTemp = p.w.lastTemp
        /\ r.w.cmH = p.w.cmH /\ r.w.dstH = p.w.dstH /\ r.w.dsts = p.w.dsts
        /\ r.w.db.dest = p.w.db.dest
        /\ \A c \in Cms : r.w.db.cm[c] = IF c = real THEN x ELSE p.w.db.cm[c]
        /\ \A j \in CmIds \ {i} : r.w.cms[j] = p.w.cms[j]
        /\ /\ r.w.cms[i] # None /\ r.w.cms[i].made = TRUE /\ r.w.cms[i].val = x
           /\ r.w.cms[i].status = w.cms[i].status /\ r.w.cms[i].rec = w.cms[i].rec
           /\ r.w.cms[i].ref = w.cms[i].ref
    BY <1>0 DEF CmWritten
  <1>2. /\ p \in Saves /\ p.w \in Worlds /\ w \in Worlds
        /\ p.newCm \in [DOMAIN p.newCm -> Cms] /\ DOMAIN p.newCm \subseteq CmTemps
        /\ \A j \in CmIds : w.cmH[s][j] # None => w.cmH[s][j].val \in Values /\ w.cmH[s][j].val # None
        /\ \A t \in DOMAIN p.newCm : w.cmH[s][t] # None /\ t \in CmIds /\ t \in p.savedCm
    BY SavingFacts
  <1>3. /\ SavingCms(w, p, s) /\ SavingDsts(w, p, s) /\ SavingLists(w, p, s)
        /\ p.w.mapping = w.mapping /\ p.w.deleted = w.deleted /\ p.w.lastTemp = w.lastTemp
    BY DEF Saving
  <1>4. i \in Cms => w.db.cm[i] # None /\ w.cms[i].made
    BY HeldCm
  <1>n. new <=> i \notin Cms /\ i \notin DOMAIN p.newCm
    BY DEF IsNewCm
  <1> HIDE DEF new, x
  <1>5. /\ DOMAIN r.newCm = IF new THEN DOMAIN p.newCm \cup {i} ELSE DOMAIN p.newCm
        /\ \A t \in DOMAIN p.newCm : r.newCm[t] = p.newCm[t]
        /\ new => r.newCm[i] = real
    <2>1. CASE new
      <3>1. r.newCm = Given(p.newCm, i, real)
        BY <1>1, <2>1
      <3> QED BY <1>n, <2>1, <3>1 DEF Given
    <2>2. CASE ~new
      BY <1>1, <2>2
    <2> QED BY <2>1, <2>2
  <1>6. \A t \in DOMAIN p.newCm : p.w.db.cm[p.newCm[t]] # None /\ p.newCm[t] \in Cms
    BY <1>2, <1>3 DEF SavingCms
  <1>7. new => w.db.cm[real] = None /\ \A t \in DOMAIN p.newCm : p.newCm[t] # real
    <2>1. SUFFICES ASSUME new PROVE w.db.cm[real] = None /\ \A t \in DOMAIN p.newCm : p.newCm[t] # real
      OBVIOUS
    <2>2. p.w.db.cm[real] = None
      BY <1>1, <2>1 DEF FreeCms
    <2>3. \A t \in DOMAIN p.newCm : p.newCm[t] # real
      BY <1>6, <2>2
    <2>4. None = IF real \in p.savedCm THEN w.cmH[s][real].val ELSE w.db.cm[real]
      BY <1>1, <1>3, <2>2, <2>3 DEF SavingCms
    <2>5. real \in p.savedCm => w.cmH[s][real].val # None
      BY <1>1, <1>2, <1>3, IdsApart DEF SavingCms
    <2> QED BY <2>3, <2>4, <2>5
  <1>8. SavingCms(w, r, s)
    <2>1. r.w.cmH = w.cmH
      BY <1>1, <1>3 DEF SavingCms
    <2>2. \A j \in r.savedCm : w.cmH[s][j] # None
      BY <1>1, <1>3 DEF SavingCms
    <2>3. DOMAIN r.newCm = r.savedCm \cap CmTemps
      <3>1. DOMAIN p.newCm = p.savedCm \cap CmTemps
        BY <1>3 DEF SavingCms
      <3> QED BY <1>n, <1>1, <1>5, <3>1, IdsApart
    <2>4. GivenFresh(r.newCm, w.db.cm)
      <3>1. GivenFresh(p.newCm, w.db.cm)
        BY <1>3 DEF SavingCms
      <3> QED BY <1>5, <1>7, <3>1 DEF GivenFresh
    <2>5. ASSUME NEW t \in DOMAIN r.newCm PROVE r.w.db.cm[r.newCm[t]] = w.cmH[s][t].val
      <3>1. CASE t \in DOMAIN p.newCm /\ p.newCm[t] # real
        <4>1. p.w.db.cm[p.newCm[t]] = w.cmH[s][t].val
          BY <1>3, <3>1 DEF SavingCms
        <4> QED BY <1>1, <1>5, <1>6, <3>1, <4>1
      <3>2. CASE t \in DOMAIN p.newCm /\ p.newCm[t] = real
        <4>1. ~new
          BY <1>7, <3>2
        <4>2. CASE i \in Cms
          <5>1. p.newCm[t] = i
            BY <1>1, <3>2, <4>1, <4>2
          <5> QED BY <1>3, <1>4, <3>2, <4>2, <5>1 DEF SavingCms, GivenFresh
        <4>3. CASE i \notin Cms
          <5>1. i \in DOMAIN p.newCm /\ p.newCm[t] = p.newCm[i]
            BY <1>n, <1>1, <3>2, <4>1, <4>3
          <5>2. t = i
            BY <1>3, <3>2, <5>1 DEF SavingCms, GivenFresh
          <5> QED BY <1>1, <1>5, <3>2, <5>2 DEF x
        <4> QED BY <4>2, <4>3
      <3>3. CASE t \notin DOMAIN p.newCm
        <4>1. new /\ t = i
          BY <1>5, <3>3
        <4> QED BY <1>1, <1>5, <4>1 DEF x
      <3> QED BY <3>1, <3>2, <3>3
    <2>6. ASSUME NEW c \in Cms, \A t \in DOMAIN r.newCm : r.newCm[t] # c
          PROVE  r.w.db.cm[c] = IF c \in r.savedCm THEN w.cmH[s][c].val ELSE w.db.cm[c]
      <3>1. \A t \in DOMAIN p.newCm : p.newCm[t] # c
        BY <1>5, <2>6
      <3>2. p.w.db.cm[c] = IF c \in p.savedCm THEN w.cmH[s][c].val ELSE w.db.cm[c]
        BY <1>3, <3>1 DEF SavingCms
      <3>3. CASE c = real
        <4>1. ~new
          BY <1>5, <2>6, <3>3
        <4>2. i \in Cms
          BY <1>n, <1>1, <3>1, <3>3, <4>1
        <4>3. c = i
          BY <1>1, <3>3, <4>1, <4>2
        <4> QED BY <1>1, <3>3, <4>3 DEF x
      <3>4. CASE c # real
        <4>1. c # i
          BY <1>n, <1>1, <3>4
        <4> QED BY <1>1, <3>2, <3>4, <4>1
      <3> QED BY <3>3, <3>4
    <2>7. \A j \in CmIds : r.w.cms[j] = None <=> w.cms[j] = None
      BY <1>1, <1>3 DEF SavingCms
    <2>8. ASSUME NEW j \in CmIds, w.cms[j] # None
          PROVE  /\ r.w.cms[j].status = w.cms[j].status /\ r.w.cms[j].rec = w.cms[j].rec
                 /\ r.w.cms[j].ref = w.cms[j].ref
                 /\ r.w.cms[j].made <=> w.cms[j].made \/ j \in DOMAIN r.newCm
                 /\ r.w.cms[j].val = IF j \in r.savedCm THEN w.cmH[s][j].val ELSE w.cms[j].val
      <3>1. CASE j = i
        <4>1. /\ r.w.cms[i].made = TRUE /\ r.w.cms[i].val = x
              /\ r.w.cms[i].status = w.cms[i].status /\ r.w.cms[i].rec = w.cms[i].rec
              /\ r.w.cms[i].ref = w.cms[i].ref /\ i \in r.savedCm
          BY <1>1
        <4>2. w.cms[i].made \/ i \in DOMAIN r.newCm
          BY <1>n, <1>4, <1>5
        <4> QED BY <3>1, <4>1, <4>2 DEF x
      <3>2. CASE j # i
        <4>1. /\ p.w.cms[j].status = w.cms[j].status /\ p.w.cms[j].rec = w.cms[j].rec
              /\ p.w.cms[j].ref = w.cms[j].ref
              /\ p.w.cms[j].made <=> w.cms[j].made \/ j \in DOMAIN p.newCm
              /\ p.w.cms[j].val = IF j \in p.savedCm THEN w.cmH[s][j].val ELSE w.cms[j].val
          BY <1>3, <2>8 DEF SavingCms
        <4>2. r.w.cms[j] = p.w.cms[j] /\ (j \in r.savedCm <=> j \in p.savedCm)
              /\ (j \in DOMAIN r.newCm <=> j \in DOMAIN p.newCm)
          BY <1>1, <1>5, <3>2
        <4> QED BY <4>1, <4>2
      <3> QED BY <3>1, <3>2
    <2>9. Cardinality(CmTempsHeld(w, s) \ DOMAIN r.newCm) <= Cardinality(FreeCms(r.w))
      <3> DEFINE A == CmTempsHeld(w, s) \ DOMAIN p.newCm
                 F == FreeCms(p.w)
      <3>1. CmTempsHeld(w, s) \subseteq CmTemps
        BY DEF CmTempsHeld
      <3>2. IsFiniteSet(A) /\ IsFiniteSet(F) /\ Cardinality(A) <= Cardinality(F)
        <4>1. IsFiniteSet(A)
          BY <3>1, IdsFinite, FS_Subset
        <4> QED BY <4>1, <1>2, <1>3, FreeIds DEF SavingCms
      <3>3. CASE new
        <4>1. i \in A
          BY <1>n, <1>1, <3>3 DEF CmTempsHeld
        <4>2. CmTempsHeld(w, s) \ DOMAIN r.newCm = A \ {i}
          BY <1>5, <3>3
        <4>3. FreeCms(r.w) = F \ {real}
          <5>1. x # None
            BY <1>1, NoneIsNothing
          <5> QED BY <1>1, <3>3, <5>1 DEF FreeCms
        <4>4. real \in F
          BY <1>1, <3>3
        <4> HIDE DEF A, F
        <4> QED BY <3>2, <4>1, <4>2, <4>3, <4>4, OneLess
      <3>4. CASE ~new
        <4>1. p.w.db.cm[real] # None
          <5>1. CASE i \in Cms
            <6>1. real = i
              BY <1>1, <3>4, <5>1
            <6>2. CASE \A t \in DOMAIN p.newCm : p.newCm[t] # i
              <7>1. p.w.db.cm[i] = IF i \in p.savedCm THEN w.cmH[s][i].val ELSE w.db.cm[i]
                BY <1>3, <5>1, <6>2 DEF SavingCms
              <7> QED BY <1>2, <1>4, <5>1, <6>1, <7>1
            <6> QED BY <1>6, <6>1, <6>2
          <5>2. CASE i \notin Cms
            BY <1>n, <1>1, <1>6, <3>4, <5>2
          <5> QED BY <5>1, <5>2
        <4>2. FreeCms(r.w) = F
          <5>1. x # None
            BY <1>1, NoneIsNothing
          <5> QED BY <1>1, <4>1, <5>1 DEF FreeCms
        <4>3. CmTempsHeld(w, s) \ DOMAIN r.newCm = A
          BY <1>5, <3>4
        <4> HIDE DEF A, F
        <4> QED BY <3>2, <4>2, <4>3
      <3> QED BY <3>3, <3>4
    <2> QED BY <2>1, <2>2, <2>3, <2>4, <2>5, <2>6, <2>7, <2>8, <2>9 DEF SavingCms
  <1>9. SavingDsts(w, r, s)
    <2>1. /\ r.newDst = p.newDst /\ r.savedDst = p.savedDst /\ r.w.dstH = p.w.dstH
          /\ r.w.dsts = p.w.dsts /\ r.w.db.dest = p.w.db.dest
      BY <1>1
    <2>2. Unsaved(w, r, s) = Unsaved(w, p, s) /\ FreeDests(r.w) = FreeDests(p.w)
      BY <2>1 DEF Unsaved, FreeDests
    <2> QED BY <1>3, <2>1, <2>2 DEF SavingDsts
  <1>10. SavingLists(w, r, s)
    <2>1. \A c : ListedCm(w, p, c) => ListedCm(w, r, c)
      BY <1>1, <1>5 DEF ListedCm
    <2>2. \A d, e : ListedDst(w, p, s, d, e) => ListedDst(w, r, s, d, e)
      BY <1>1 DEF ListedDst
    <2> QED BY <1>1, <1>3, <2>1, <2>2 DEF SavingLists
  <1>11. Saving(w, r, s)
    BY <1>1, <1>3, <1>8, <1>9, <1>10 DEF Saving
  <1>12. Further(p, r, s) /\ i \in r.savedCm
    BY <1>1 DEF Further, ListsNoMore
  <1> QED BY <1>11, <1>12 DEF r

\* An item leaves a handle of s that is being saved.
LEMMA ItemDroppedSaves ==
  ASSUME NEW w, Core(w), NEW s \in Sessions, NEW p, Saving(w, p, s), NEW k \in Slots,
         w.dstH[s][k] # None, NEW i
  PROVE  LET r == [p EXCEPT !.w = ItemDropped(p.w, s, k, i)]
         IN Saving(w, r, s) /\ Further(p, r, s) /\ i \notin ToSet(r.w.dstH[s][k].items)
PROOF
  <1> DEFINE h == p.w.dstH[s][k]
             q == Without(h.items, {i})
             g == [h EXCEPT !.items = q]
             f == [p.w.dstH EXCEPT ![s] = [p.w.dstH[s] EXCEPT ![k] = g]]
             W == ItemDropped(p.w, s, k, i)
             r == [p EXCEPT !.w = W]
  <1>1. p \in Saves /\ p.w \in Worlds /\ w \in Worlds
    BY SavingFacts
  <1>2. SavingCms(w, p, s) /\ SavingDsts(w, p, s) /\ SavingLists(w, p, s)
    BY DEF Saving
  <1>3. h # None /\ SameHandle(h, w.dstH[s][k])
    BY <1>2 DEF SavingDsts
  <1>4. h \in DstHandles
    BY <1>1, <1>3 DEF Worlds
  <1>5. h.items \in Seq(CmIds \cup DstIds)
    BY <1>4 DEF DstHandles
  <1>6. W = [p.w EXCEPT !.dstH = f]
    BY DEF ItemDropped
  <1> HIDE DEF h
  <1>7. q \in Seq(CmIds \cup DstIds) /\ ToSet(q) = ToSet(h.items) \ {i}
    BY <1>5, WithoutIn
  <1> HIDE DEF q
  <1>8. g \in DstHandles /\ g.id = h.id /\ g.status = h.status /\ g.toDelete = h.toDelete /\ g.items = q
    BY <1>4, <1>7 DEF DstHandles
  <1>9. g # None /\ SameHandle(g, w.dstH[s][k]) /\ ListsNoMore(g, h)
    BY <1>3, <1>7, <1>8, SetFields DEF SameHandle, ListsNoMore
  <1> HIDE DEF g
  <1>10. f \in [Sessions -> [Slots -> DstHandles \cup {None}]]
         /\ \A u \in Sessions : \A l \in Slots : f[u][l] = IF u = s /\ l = k THEN g ELSE p.w.dstH[u][l]
    BY <1>1, <1>8 DEF Worlds
  <1> HIDE DEF f, W
  <1>11. W \in Worlds /\ W.dstH = f
    BY <1>1, <1>6, <1>10 DEF Worlds
  <1>12. /\ W.db = p.w.db /\ W.mapping = p.w.mapping /\ W.deleted = p.w.deleted
         /\ W.cms = p.w.cms /\ W.cmH = p.w.cmH /\ W.dsts = p.w.dsts /\ W.lastTemp = p.w.lastTemp
    BY <1>1, <1>6 DEF Worlds
  <1>13. r \in Saves /\ r.w = W
    BY <1>1, <1>11 DEF Saves
  <1>14. /\ r.ok = p.ok /\ r.panic = p.panic /\ r.gone = p.gone /\ r.newCm = p.newCm
         /\ r.newDst = p.newDst /\ r.savedCm = p.savedCm /\ r.savedDst = p.savedDst
    BY <1>1 DEF Saves
  <1> HIDE DEF r
  <1>15. FreeCms(r.w) = FreeCms(p.w) /\ FreeDests(r.w) = FreeDests(p.w) /\ Unsaved(w, r, s) = Unsaved(w, p, s)
    BY <1>12, <1>13, <1>14 DEF FreeCms, FreeDests, Unsaved
  <1>16. SavingCms(w, r, s)
    <2>1. /\ r.w.cmH = p.w.cmH /\ r.w.cms = p.w.cms /\ r.w.db = p.w.db /\ r.newCm = p.newCm
          /\ r.savedCm = p.savedCm /\ FreeCms(r.w) = FreeCms(p.w)
      BY <1>12, <1>13, <1>14, <1>15
    <2>2. SavingCms(w, p, s)
      BY <1>2
    <2> QED BY <2>1, <2>2 DEF SavingCms
  <1>17. SavingDsts(w, r, s)
    <2>1. ASSUME NEW u \in Sessions, NEW l \in Slots
          PROVE  /\ r.w.dstH[u][l] = None <=> w.dstH[u][l] = None
                 /\ w.dstH[u][l] # None => SameHandle(r.w.dstH[u][l], w.dstH[u][l])
                 /\ u # s => r.w.dstH[u][l] = w.dstH[u][l]
      BY <1>2, <1>9, <1>10, <1>11, <1>13 DEF SavingDsts
    <2> QED BY <1>2, <1>12, <1>13, <1>14, <1>15, <2>1 DEF SavingDsts
  <1>18. SavingLists(w, r, s)
    BY <1>2, <1>12, <1>13, <1>14 DEF SavingLists, ListedCm, ListedDst
  <1>19. Saving(w, r, s)
    BY <1>12, <1>13, <1>14, <1>16, <1>17, <1>18 DEF Saving
  <1>20. Further(p, r, s)
    BY <1>9, <1>10, <1>11, <1>13, <1>14 DEF Further, ListsNoMore, h
  <1>21. i \notin ToSet(r.w.dstH[s][k].items)
    BY <1>7, <1>8, <1>10, <1>11, <1>13
  <1> QED BY <1>19, <1>20, <1>21 DEF r, W

\* What the record of a destination gets.
LEMMA StoredItemsIn ==
  ASSUME NEW p, NEW h, h.items \in Seq(CmIds \cup DstIds), DOMAIN p.newCm \subseteq CmTemps,
         p.newCm \in [DOMAIN p.newCm -> Cms]
  PROVE  /\ StoredItems(p, h) \in Items
         /\ \A x \in ToSet(StoredItems(p, h)) :
              x \in Cms \cup Dests /\ \E i \in ToSet(h.items) : x = Real(p.newCm, i)
PROOF
  <1> DEFINE q == [j \in DOMAIN h.items |-> RealId(p, h.items[j])]
             T == Cms \cup Dests \cup CmIds \cup DstIds
  <1>1. DOMAIN h.items = 1..Len(h.items) /\ Len(h.items) \in Nat
        /\ \A j \in DOMAIN h.items : h.items[j] \in CmIds \cup DstIds
    BY LenProperties
  <1>2. \A j \in DOMAIN h.items : RealId(p, h.items[j]) \in T
    BY <1>1 DEF RealId, Real
  <1>3. q \in Seq(T) /\ DOMAIN q = DOMAIN h.items
    BY <1>1, <1>2, IsASeq
  <1>4. StoredItems(p, h) = Only(q, Cms \cup Dests)
    BY DEF StoredItems
  <1> HIDE DEF T
  <1>5. ToSet(q) = { q[j] : j \in DOMAIN h.items }
    BY <1>3 DEF ToSet
  <1>6. \A x \in ToSet(q) : \E j \in DOMAIN h.items : x = Real(p.newCm, h.items[j])
    BY <1>5 DEF RealId
  <1>7. \A j \in DOMAIN h.items : h.items[j] \in ToSet(h.items)
    BY DEF ToSet
  <1> HIDE DEF q
  <1>8. Only(q, Cms \cup Dests) \in Seq(T) /\ ToSet(Only(q, Cms \cup Dests)) = ToSet(q) \cap (Cms \cup Dests)
    BY <1>3, OnlyIn
  <1>9. ToSet(StoredItems(p, h)) \subseteq Cms \cup Dests
    BY <1>4, <1>8
  <1>10. StoredItems(p, h) \in Items
    <2> DEFINE m == StoredItems(p, h)
    <2>1. m \in Seq(T) /\ ToSet(m) \subseteq Cms \cup Dests
      BY <1>4, <1>8, <1>9
    <2> HIDE DEF m
    <2>2. DOMAIN m = 1..Len(m) /\ Len(m) \in Nat /\ \A j \in 1..Len(m) : m[j] \in ToSet(m)
      BY <2>1, LenProperties DEF ToSet
    <2>3. m = [j \in 1..Len(m) |-> m[j]]
      BY <2>1, <2>2
    <2>4. \A j \in 1..Len(m) : m[j] \in Cms \cup Dests
      BY <2>1, <2>2
    <2>5. m \in Seq(Cms \cup Dests)
      BY <2>2, <2>3, <2>4, IsASeq
    <2> QED BY <2>5 DEF m, Items
  <1> QED BY <1>4, <1>6, <1>7, <1>8, <1>9, <1>10

\* r is p with the destination in slot k of s written, under the id real.
IsNewDst(p, d) == d \notin Dests /\ d \notin DOMAIN p.newDst
ItemsOf(p, s, k) == StoredItems(p, p.w.dstH[s][k])
DstWritten(w, p, r, s, k, real) ==
    LET d == w.dstH[s][k].id
    IN /\ real \in Dests /\ d \in DstIds /\ w.dsts[d] # None
       /\ IF IsNewDst(p, d) THEN d \in DstTemps /\ real \in FreeDests(p.w)
          ELSE IF d \in Dests THEN real = d ELSE real = p.newDst[d]
       /\ DOMAIN r.newDst = IF IsNewDst(p, d) THEN DOMAIN p.newDst \cup {d} ELSE DOMAIN p.newDst
       /\ \A t \in DOMAIN p.newDst : r.newDst[t] = p.newDst[t]
       /\ IsNewDst(p, d) => r.newDst[d] = real
       /\ r \in Saves /\ r.ok = TRUE /\ r.panic = FALSE /\ r.gone = {} /\ r.newCm = p.newCm
       /\ r.savedCm = p.savedCm /\ r.savedDst = p.savedDst \cup {d}
       /\ r.w.mapping = p.w.mapping /\ r.w.deleted = p.w.deleted /\ r.w.lastTemp = p.w.lastTemp
       /\ r.w.cmH = p.w.cmH /\ r.w.cms = p.w.cms /\ r.w.dstH = p.w.dstH
       /\ r.w.db.cm = p.w.db.cm
       /\ \A e \in Dests : r.w.db.dest[e] = IF e = real THEN ItemsOf(p, s, k) ELSE p.w.db.dest[e]
       /\ ItemsOf(p, s, k) # None
       /\ \A e \in DstIds \ {d} : r.w.dsts[e] = p.w.dsts[e]
       /\ r.w.dsts[d] # None /\ r.w.dsts[d].status = w.dsts[d].status
       /\ r.w.dsts[d].ref = w.dsts[d].ref

\* What writing a destination leaves.
LEMMA SaveInSlotIs ==
  ASSUME NEW w, Core(w), NEW s \in Sessions, NEW p, Saving(w, p, s), NEW k \in Slots,
         w.dstH[s][k] # None
  PROVE  \E real \in Dests : DstWritten(w, p, SaveInSlot(p, s, k), s, k, real)
PROOF
  <1> DEFINE h    == p.w.dstH[s][k]
             d    == w.dstH[s][k].id
             new  == IsNewDst(p, d)
             real == IF Real(p.newDst, d) \in Dests THEN Real(p.newDst, d) ELSE Least(FreeDests(p.w))
             r    == SaveInSlot(p, s, k)
             q    == ItemsOf(p, s, k)
             own  == [p.w.dsts[d] EXCEPT !.blank = TRUE]
             dat  == [p.w.db EXCEPT !.dest = [p.w.db.dest EXCEPT ![real] = q]]
             N    == IF d # real THEN Given(p.newDst, d, real) ELSE p.newDst
             W    == [p.w EXCEPT !.dsts = [p.w.dsts EXCEPT ![d] = own], !.db = dat]
  <1>1. /\ p \in Saves /\ p.w \in Worlds /\ w \in Worlds
        /\ p.newDst \in [DOMAIN p.newDst -> Dests] /\ DOMAIN p.newDst \subseteq DstTemps
        /\ p.newCm \in [DOMAIN p.newCm -> Cms] /\ DOMAIN p.newCm \subseteq CmTemps
    BY SavingFacts
  <1>2. SavingDsts(w, p, s) /\ p.ok = TRUE /\ p.panic = FALSE /\ p.gone = {}
    BY DEF Saving
  <1>3. /\ d \in DstIds /\ w.dsts[d] # None
        /\ w.dstH[s][k].status = "Valid" => d \in Dests
        /\ d \in Dests => w.db.dest[d] # None /\ w.dsts[d].status = "Valid"
    BY HeldDst
  <1>4. h # None /\ SameHandle(h, w.dstH[s][k])
    BY <1>2 DEF SavingDsts
  <1>5. h \in DstHandles /\ h.id = d /\ h.status = w.dstH[s][k].status
    BY <1>1, <1>4 DEF Worlds, SameHandle
  <1>6. /\ p.w.dsts[d] # None /\ p.w.dsts[d].status = w.dsts[d].status
        /\ p.w.dsts[d].ref = w.dsts[d].ref
    BY <1>2, <1>3 DEF SavingDsts
  <1>7. p.w.dsts[d] \in DstStructs
    BY <1>1, <1>3, <1>6, SMTT(60) DEF Worlds
  <1>8. /\ own \in DstStructs /\ own.status = w.dsts[d].status /\ own.ref = w.dsts[d].ref
    <2> DEFINE y == p.w.dsts[d]
    <2> HIDE DEF y
    <2>1. y \in DstStructs
      BY <1>7 DEF y
    <2>2. /\ [y EXCEPT !.blank = TRUE] \in DstStructs /\ [y EXCEPT !.blank = TRUE].status = y.status
          /\ [y EXCEPT !.blank = TRUE].ref = y.ref
      BY <2>1 DEF DstStructs
    <2> QED BY <1>6, <2>2, Zenon DEF y
  <1>9. IF new THEN d \in DstTemps /\ real \in FreeDests(p.w)
        ELSE IF d \in Dests THEN real = d ELSE real = p.newDst[d]
    <2>1. CASE new
      <3>1. d \in DstTemps /\ d \notin Dests /\ d \notin DOMAIN p.newDst
        BY <1>3, <2>1, IdsApart DEF IsNewDst
      <3>2. real = Least(FreeDests(p.w))
        BY <3>1 DEF Real
      <3> DEFINE A == Unsaved(w, p, s)
      <3>3. k \in A
        BY <3>1 DEF Unsaved, DstTempSlots
      <3>4. A \subseteq Slots
        BY DEF Unsaved, DstTempSlots
      <3>5. IsFiniteSet(A)
        BY <3>4, IdsFinite, FS_Subset
      <3>6. Cardinality(A) <= Cardinality(FreeDests(p.w)) /\ IsFiniteSet(FreeDests(p.w))
        BY <1>1, <1>2, FreeIds DEF SavingDsts
      <3> HIDE DEF A
      <3>7. FreeDests(p.w) # {}
        BY <3>3, <3>5, <3>6, OneLess
      <3> QED BY <1>1, <2>1, <3>1, <3>2, <3>7, FreeIds
    <2>2. CASE ~new /\ d \in Dests
      <3>1. d \notin DOMAIN p.newDst
        BY <1>1, <2>2, IdsApart
      <3> QED BY <2>2, <3>1 DEF Real
    <2>3. CASE ~new /\ d \notin Dests
      <3>1. d \in DOMAIN p.newDst
        BY <2>3 DEF IsNewDst
      <3> QED BY <1>1, <2>3, <3>1 DEF Real
    <2> QED BY <2>1, <2>2, <2>3
  <1>10. real \in Dests
    BY <1>1, <1>9 DEF FreeDests, IsNewDst
  <1>11. q \in Items /\ q # None
    <2>1. h.items \in Seq(CmIds \cup DstIds)
      BY <1>5 DEF DstHandles
    <2>2. StoredItems(p, h) \in Items
      <3> HIDE DEF h
      <3> QED BY <1>1, <2>1, StoredItemsIn, SMTT(60)
    <2> QED BY <2>2, ItemsIn DEF ItemsOf
  <1>12. r = [p EXCEPT !.w = W, !.savedDst = p.savedDst \cup {d}, !.newDst = N]
    <2>1. ~(h.status = "Valid" /\ p.w.dsts[d].status # "Valid")
      BY <1>3, <1>5, <1>6
    <2>2. r = StoreDst(p, h, real)
      BY <1>2, <1>5, <2>1 DEF SaveInSlot, ItemsSaved
    <2>3. [p.w EXCEPT !.db.dest[real] = q, !.dsts[d].blank = TRUE] = W
      BY <1>1 DEF Worlds
    <2> QED BY <1>5, <2>2, <2>3 DEF StoreDst, ItemsOf
  <1>13. \A t \in DOMAIN p.newDst : t # d => N[t] = p.newDst[t]
    BY DEF Given
  <1>14. /\ DOMAIN N = IF new THEN DOMAIN p.newDst \cup {d} ELSE DOMAIN p.newDst
         /\ \A t \in DOMAIN p.newDst : N[t] = p.newDst[t]
         /\ new => N[d] = real
    <2>1. CASE new
      <3>1. d # real /\ d \notin DOMAIN p.newDst
        BY <1>10, <2>1 DEF IsNewDst
      <3> QED BY <2>1, <3>1 DEF Given
    <2>2. CASE ~new /\ d \in Dests
      BY <1>9, <2>2, SMTT(60)
    <2>3. CASE ~new /\ d \notin Dests
      <3>1. d \in DOMAIN p.newDst /\ real = p.newDst[d]
        BY <1>9, <2>3 DEF IsNewDst
      <3> QED BY <2>3, <3>1 DEF Given
    <2> QED BY <2>1, <2>2, <2>3
  <1>15. N \in NewIds(DstTemps, Dests)
    <2>1. N = [j \in DOMAIN N |-> N[j]]
      BY <1>1 DEF Given
    <2>2. \A j \in DOMAIN N : N[j] \in Dests /\ j \in DstTemps
      BY <1>1, <1>9, <1>10, <1>14
    <2> HIDE DEF N
    <2>3. N \in [DOMAIN N -> Dests] /\ DOMAIN N \subseteq DstTemps
      BY <2>1, <2>2
    <2> QED BY <2>3, NewIdsIs
  <1> HIDE DEF new, real, own, r, N, q, h, d
  <1>16. dat \in Data /\ dat.cm = p.w.db.cm
         /\ \A e \in Dests : dat.dest[e] = IF e = real THEN q ELSE p.w.db.dest[e]
    BY <1>1, <1>10, <1>11 DEF Worlds, Data
  <1> HIDE DEF dat
  <1>17. W \in Worlds
    BY <1>1, <1>3, <1>8, <1>16 DEF Worlds
  <1>18. /\ W.mapping = p.w.mapping /\ W.deleted = p.w.deleted /\ W.lastTemp = p.w.lastTemp
         /\ W.cmH = p.w.cmH /\ W.dstH = p.w.dstH /\ W.cms = p.w.cms
    BY <1>1 DEF Worlds
  <1>19. W.db = dat /\ \A e \in DstIds : W.dsts[e] = IF e = d THEN own ELSE p.w.dsts[e]
    BY <1>1 DEF Worlds
  <1> HIDE DEF W
  <1>20. r \in Saves /\ r.w = W /\ r.newDst = N /\ r.savedDst = p.savedDst \cup {d}
    BY <1>1, <1>3, <1>12, <1>15, <1>17 DEF Saves
  <1>21. /\ r.ok = p.ok /\ r.panic = p.panic /\ r.gone = p.gone /\ r.newCm = p.newCm
         /\ r.savedCm = p.savedCm
    BY <1>1, <1>12 DEF Saves
  <1>22. own # None
    BY <1>8, SetFields
  <1>23. DstWritten(w, p, r, s, k, real)
    <2>1. d = w.dstH[s][k].id /\ new = IsNewDst(p, d) /\ q = ItemsOf(p, s, k)
      BY DEF d, new, q
    <2>2. real \in Dests /\ d \in DstIds /\ w.dsts[d] # None
      BY <1>3, <1>10
    <2>3. /\ IF IsNewDst(p, d) THEN d \in DstTemps /\ real \in FreeDests(p.w)
             ELSE IF d \in Dests THEN real = d ELSE real = p.newDst[d]
          /\ DOMAIN r.newDst = IF IsNewDst(p, d) THEN DOMAIN p.newDst \cup {d} ELSE DOMAIN p.newDst
          /\ \A t \in DOMAIN p.newDst : r.newDst[t] = p.newDst[t]
          /\ IsNewDst(p, d) => r.newDst[d] = real
      BY <1>9, <1>14, <1>20, <2>1
    <2>4. /\ r \in Saves /\ r.ok = TRUE /\ r.panic = FALSE /\ r.gone = {} /\ r.newCm = p.newCm
          /\ r.savedCm = p.savedCm /\ r.savedDst = p.savedDst \cup {d}
      BY <1>2, <1>20, <1>21
    <2>5. /\ r.w.mapping = p.w.mapping /\ r.w.deleted = p.w.deleted /\ r.w.lastTemp = p.w.lastTemp
          /\ r.w.cmH = p.w.cmH /\ r.w.cms = p.w.cms /\ r.w.dstH = p.w.dstH
      BY <1>18, <1>20
    <2>6. /\ r.w.db.cm = p.w.db.cm
          /\ \A e \in Dests : r.w.db.dest[e] = IF e = real THEN ItemsOf(p, s, k) ELSE p.w.db.dest[e]
          /\ ItemsOf(p, s, k) # None
      BY <1>11, <1>16, <1>19, <1>20, <2>1
    <2>7. /\ \A e \in DstIds \ {d} : r.w.dsts[e] = p.w.dsts[e]
          /\ r.w.dsts[d] # None /\ r.w.dsts[d].status = w.dsts[d].status
          /\ r.w.dsts[d].ref = w.dsts[d].ref
      BY <1>3, <1>8, <1>19, <1>20, <1>22
    <2> QED BY <2>1, <2>2, <2>3, <2>4, <2>5, <2>6, <2>7, Zenon DEF DstWritten
  <1> QED BY <1>10, <1>23 DEF r

\* Saving the destination in a slot of s, when its items are saved.
LEMMA SaveInSlotSaves ==
  ASSUME NEW w, Core(w), NEW s \in Sessions, NEW p, Saving(w, p, s), NEW k \in Slots,
         w.dstH[s][k] # None,
         \A i \in ToSet(p.w.dstH[s][k].items) : Resolved(w, p, i)
  PROVE  LET r == SaveInSlot(p, s, k) IN Saving(w, r, s) /\ Further(p, r, s)
PROOF
  <1> DEFINE d   == w.dstH[s][k].id
             new == IsNewDst(p, d)
             r   == SaveInSlot(p, s, k)
             q   == ItemsOf(p, s, k)
  <1>0. PICK real \in Dests : DstWritten(w, p, r, s, k, real)
    BY SaveInSlotIs, SMTT(60)
  <1> HIDE DEF r
  <1>1. /\ real \in Dests /\ d \in DstIds /\ w.dsts[d] # None
        /\ IF new THEN d \in DstTemps /\ real \in FreeDests(p.w)
           ELSE IF d \in Dests THEN real = d ELSE real = p.newDst[d]
        /\ DOMAIN r.newDst = IF new THEN DOMAIN p.newDst \cup {d} ELSE DOMAIN p.newDst
        /\ \A t \in DOMAIN p.newDst : r.newDst[t] = p.newDst[t]
        /\ new => r.newDst[d] = real
        /\ r \in Saves /\ r.ok = TRUE /\ r.panic = FALSE /\ r.gone = {} /\ r.newCm = p.newCm
        /\ r.savedCm = p.savedCm /\ r.savedDst = p.savedDst \cup {d}
        /\ r.w.mapping = p.w.mapping /\ r.w.deleted = p.w.deleted /\ r.w.lastTemp = p.w.lastTemp
        /\ r.w.cmH = p.w.cmH /\ r.w.cms = p.w.cms /\ r.w.dstH = p.w.dstH
        /\ r.w.db.cm = p.w.db.cm
        /\ \A e \in Dests : r.w.db.dest[e] = IF e = real THEN q ELSE p.w.db.dest[e]
        /\ q # None
        /\ \A e \in DstIds \ {d} : r.w.dsts[e] = p.w.dsts[e]
        /\ r.w.dsts[d] # None /\ r.w.dsts[d].status = w.dsts[d].status
        /\ r.w.dsts[d].ref = w.dsts[d].ref
    BY <1>0 DEF DstWritten
  <1>2. /\ p \in Saves /\ p.w \in Worlds /\ w \in Worlds
        /\ p.newCm \in [DOMAIN p.newCm -> Cms] /\ DOMAIN p.newCm \subseteq CmTemps
        /\ p.newDst \in [DOMAIN p.newDst -> Dests] /\ DOMAIN p.newDst \subseteq DstTemps
    BY SavingFacts
  <1>3. /\ SavingCms(w, p, s) /\ SavingDsts(w, p, s) /\ SavingLists(w, p, s)
        /\ p.w.mapping = w.mapping /\ p.w.deleted = w.deleted /\ p.w.lastTemp = w.lastTemp
    BY DEF Saving
  <1>4. d \in Dests => w.db.dest[d] # None
    BY HeldDst
  <1>5. OneSlot(w)
    BY DEF Core
  <1>6. \A x \in ToSet(q) : \/ x \in Cms /\ ListedCm(w, p, x)
                            \/ x \in Dests /\ x \in ToSet(w.dstH[s][k].items)
    <2> DEFINE h == p.w.dstH[s][k]
    <2>1. h # None /\ SameHandle(h, w.dstH[s][k])
      BY <1>3 DEF SavingDsts
    <2>2. h \in DstHandles
      BY <1>2, <2>1 DEF Worlds
    <2>3. h.items \in Seq(CmIds \cup DstIds)
      BY <2>2 DEF DstHandles
    <2>4. q = StoredItems(p, h)
      BY DEF ItemsOf
    <2>5. \A i \in ToSet(h.items) : Resolved(w, p, i) /\ i \in ToSet(w.dstH[s][k].items)
      BY <2>1 DEF SameHandle, ListsNoMore
    <2> HIDE DEF h, q
    <2>6. \A x \in ToSet(q) : x \in Cms \cup Dests /\ \E i \in ToSet(h.items) : x = Real(p.newCm, i)
      BY <1>2, <2>3, <2>4, StoredItemsIn
    <2>7. ASSUME NEW x \in ToSet(q)
          PROVE  \/ x \in Cms /\ ListedCm(w, p, x)
                 \/ x \in Dests /\ x \in ToSet(w.dstH[s][k].items)
      <3>1. PICK i \in ToSet(h.items) : x = Real(p.newCm, i)
        BY <2>6
      <3>2. CASE i \in DOMAIN p.newCm
        BY <1>2, <3>1, <3>2 DEF Real, ListedCm
      <3>3. CASE i \notin DOMAIN p.newCm
        <4>1. x = i
          BY <3>1, <3>3 DEF Real
        <4>2. CASE x \in Cms
          <5>1. x \in CmIds
            BY <4>2, IdsApart
          <5> QED BY <2>5, <4>1, <4>2, <5>1 DEF Resolved, ListedCm
        <4>3. CASE x \in Dests
          BY <2>5, <4>1, <4>3
        <4> QED BY <2>6, <4>2, <4>3
      <3> QED BY <3>2, <3>3
    <2> QED BY <2>7
  <1>n. new <=> d \notin Dests /\ d \notin DOMAIN p.newDst
    BY DEF IsNewDst
  <1> HIDE DEF new, q
  <1>7. SavingCms(w, r, s)
    <2>1. /\ r.w.cmH = p.w.cmH /\ r.w.cms = p.w.cms /\ r.w.db.cm = p.w.db.cm /\ r.newCm = p.newCm
          /\ r.savedCm = p.savedCm
      BY <1>1
    <2>2. FreeCms(r.w) = FreeCms(p.w)
      BY <2>1 DEF FreeCms
    <2>3. SavingCms(w, p, s)
      BY <1>3
    <2> QED BY <2>1, <2>2, <2>3, SMTT(60) DEF SavingCms
  <1>8. \A t \in DOMAIN p.newDst : p.w.db.dest[p.newDst[t]] # None /\ p.newDst[t] \in Dests
    BY <1>2, <1>3 DEF SavingDsts
  <1>9. new => w.db.dest[real] = None /\ \A t \in DOMAIN p.newDst : p.newDst[t] # real
    <2>1. SUFFICES ASSUME new PROVE w.db.dest[real] = None /\ \A t \in DOMAIN p.newDst : p.newDst[t] # real
      BY SMTT(60)
    <2>2. p.w.db.dest[real] = None
      BY <1>1, <2>1 DEF FreeDests
    <2> QED BY <1>3, <1>8, <2>2 DEF SavingDsts
  <1>p. /\ \A u \in Sessions : \A l \in Slots :
            /\ p.w.dstH[u][l] = None <=> w.dstH[u][l] = None
            /\ w.dstH[u][l] # None => SameHandle(p.w.dstH[u][l], w.dstH[u][l])
            /\ u # s => p.w.dstH[u][l] = w.dstH[u][l]
        /\ GivenFresh(p.newDst, w.db.dest)
        /\ \A e \in Dests : w.db.dest[e] # None => p.w.db.dest[e] # None
        /\ \A e \in DstIds : p.w.dsts[e] = None <=> w.dsts[e] = None
        /\ \A e \in DstIds : w.dsts[e] # None =>
             p.w.dsts[e].status = w.dsts[e].status /\ p.w.dsts[e].ref = w.dsts[e].ref
    <2>1. SavingDsts(w, p, s)
      BY <1>3, SMTT(60)
    <2> QED BY <2>1 DEF SavingDsts
  <1>q. /\ \A e \in Dests : r.w.db.dest[e] = IF e = real THEN q ELSE p.w.db.dest[e]
        /\ q # None /\ real \in Dests
    BY <1>1, SMTT(60)
  <1>d. /\ \A e \in DstIds \ {d} : r.w.dsts[e] = p.w.dsts[e]
        /\ r.w.dsts[d] # None /\ r.w.dsts[d].status = w.dsts[d].status
        /\ r.w.dsts[d].ref = w.dsts[d].ref /\ w.dsts[d] # None /\ d \in DstIds
    BY <1>1, ZenonT(60)
  <1>g. /\ DOMAIN r.newDst = IF new THEN DOMAIN p.newDst \cup {d} ELSE DOMAIN p.newDst
        /\ \A t \in DOMAIN p.newDst : r.newDst[t] = p.newDst[t]
        /\ new => r.newDst[d] = real
    BY <1>1
  <1> HIDE DEF d
  <1>10. SavingDsts(w, r, s)
    <2>1. \A u \in Sessions : \A l \in Slots :
            /\ r.w.dstH[u][l] = None <=> w.dstH[u][l] = None
            /\ w.dstH[u][l] # None => SameHandle(r.w.dstH[u][l], w.dstH[u][l])
            /\ u # s => r.w.dstH[u][l] = w.dstH[u][l]
      <3>1. r.w.dstH = p.w.dstH
        BY <1>1, SMTT(60)
      <3> QED BY <1>p, <3>1
    <2>2. \A e \in r.savedDst : \E l \in Slots : w.dstH[s][l] # None /\ w.dstH[s][l].id = e
      BY <1>1, <1>3, Zenon DEF SavingDsts, d
    <2>3. DOMAIN r.newDst = r.savedDst \cap DstTemps
      <3>1. DOMAIN p.newDst = p.savedDst \cap DstTemps
        BY <1>3 DEF SavingDsts
      <3> QED BY <1>n, <1>1, <3>1, IdsApart
    <2>4. GivenFresh(r.newDst, w.db.dest)
      <3>1. GivenFresh(p.newDst, w.db.dest)
        BY <1>p
      <3> QED BY <1>9, <1>g, <3>1 DEF GivenFresh
    <2>5. \A t \in DOMAIN r.newDst : r.w.db.dest[r.newDst[t]] # None
      BY <1>8, <1>q, <1>g
    <2>6. \A e \in Dests : w.db.dest[e] # None => r.w.db.dest[e] # None
      BY <1>p, <1>q
    <2>7. \A e \in DstIds : r.w.dsts[e] = None <=> w.dsts[e] = None
      BY <1>p, <1>d
    <2>8. \A e \in DstIds : w.dsts[e] # None =>
            r.w.dsts[e].status = w.dsts[e].status /\ r.w.dsts[e].ref = w.dsts[e].ref
      BY <1>p, <1>d
    <2>9. Cardinality(Unsaved(w, r, s)) <= Cardinality(FreeDests(r.w))
      <3> DEFINE A == Unsaved(w, p, s)
                 F == FreeDests(p.w)
      <3>1. A \subseteq Slots
        BY DEF Unsaved, DstTempSlots
      <3>2. IsFiniteSet(A) /\ IsFiniteSet(F) /\ Cardinality(A) <= Cardinality(F)
        <4>1. IsFiniteSet(A)
          BY <3>1, IdsFinite, FS_Subset
        <4> QED BY <4>1, <1>2, <1>3, FreeIds DEF SavingDsts
      <3>3. CASE new
        <4>1. k \in A
          BY <1>n, <1>1, <3>3, SMTT(60) DEF Unsaved, DstTempSlots, d
        <4>2. Unsaved(w, r, s) = A \ {k}
          BY <1>1, <1>5, <3>3, ZenonT(60) DEF Unsaved, DstTempSlots, OneSlot, d
        <4>3. FreeDests(r.w) = F \ {real}
          BY <1>1, <3>3 DEF FreeDests
        <4>4. real \in F
          BY <1>1, <3>3
        <4> HIDE DEF A, F
        <4> QED BY <3>2, <4>1, <4>2, <4>3, <4>4, OneLess, SMTT(60)
      <3>4. CASE ~new
        <4>1. p.w.db.dest[real] # None
          <5>1. CASE d \in Dests
            <6>1. real = d
              BY <1>1, <3>4, <5>1
            <6> QED BY <1>4, <1>p, <5>1, <6>1
          <5>2. CASE d \notin Dests
            <6>1. real = p.newDst[d] /\ d \in DOMAIN p.newDst
              BY <1>n, <1>1, <3>4, <5>2
            <6> QED BY <1>8, <6>1
          <5> QED BY <5>1, <5>2
        <4>2. FreeDests(r.w) = F
          BY <1>1, <4>1 DEF FreeDests
        <4>3. Unsaved(w, r, s) = A
          BY <1>1, <3>4 DEF Unsaved
        <4> HIDE DEF A, F
        <4> QED BY <3>2, <4>2, <4>3
      <3> QED BY <3>3, <3>4
    <2> QED BY <2>1, <2>2, <2>3, <2>4, <2>5, <2>6, <2>7, <2>8, <2>9 DEF SavingDsts
  <1>11. SavingLists(w, r, s)
    <2>1. \A c : ListedCm(w, p, c) => ListedCm(w, r, c)
      BY <1>1 DEF ListedCm
    <2>2. \A e \in Dests : \A x : ListedDst(w, p, s, e, x) => ListedDst(w, r, s, e, x)
      <3>1. SUFFICES ASSUME NEW e \in Dests, NEW x, ListedDst(w, p, s, e, x)
                     PROVE  ListedDst(w, r, s, e, x)
        OBVIOUS
      <3>2. PICK l \in Slots : w.dstH[s][l] # None /\ Real(p.newDst, w.dstH[s][l].id) = e
                               /\ x \in ToSet(w.dstH[s][l].items)
        BY <3>1 DEF ListedDst
      <3>3. Real(r.newDst, w.dstH[s][l].id) = e
        <4>1. CASE w.dstH[s][l].id \in DOMAIN p.newDst
          BY <1>1, <3>2, <4>1 DEF Real
        <4>2. CASE w.dstH[s][l].id \notin DOMAIN p.newDst
          <5>1. w.dstH[s][l].id = e
            BY <3>2, <4>2 DEF Real
          <5>2. e \notin DOMAIN r.newDst
            BY <1>1, <1>2, <1>n, <4>2, <5>1
          <5> QED BY <5>1, <5>2 DEF Real
        <4> QED BY <4>1, <4>2
      <3> QED BY <3>2, <3>3 DEF ListedDst
    <2>3. Real(r.newDst, d) = real
      <3>1. CASE d \in DOMAIN r.newDst
        BY <1>n, <1>1, <1>2, <3>1, IdsApart DEF Real
      <3>2. CASE d \notin DOMAIN r.newDst
        BY <1>n, <1>1, <3>2 DEF Real
      <3> QED BY <3>1, <3>2
    <2>4. \A x \in ToSet(q) \cap Dests : ListedDst(w, r, s, real, x)
      BY <1>6, <2>3, IdsApart, HeldDst DEF ListedDst, d
    <2>5. \A x \in ToSet(q) \cap Cms : ListedCm(w, r, x)
      BY <1>6, <2>1, IdsApart
    <2>6. ASSUME NEW e \in Dests, NEW c \in Cms, Has(r.w.db.dest[e], c)
          PROVE  Has(w.db.dest[e], c) \/ ListedCm(w, r, c)
      <3>1. CASE e = real
        BY <1>1, <2>5, <2>6, <3>1 DEF Has
      <3>2. CASE e # real
        BY <1>1, <1>3, <2>1, <2>6, <3>2 DEF SavingLists
      <3> QED BY <3>1, <3>2
    <2>7. ASSUME NEW e \in Dests, NEW x \in Dests, Has(r.w.db.dest[e], x)
          PROVE  Has(w.db.dest[e], x) \/ ListedDst(w, r, s, e, x)
      <3>1. CASE e = real
        BY <1>1, <2>4, <2>7, <3>1 DEF Has
      <3>2. CASE e # real
        BY <1>1, <1>3, <2>2, <2>7, <3>2 DEF SavingLists
      <3> QED BY <3>1, <3>2
    <2> QED BY <2>6, <2>7 DEF SavingLists
  <1>12. Saving(w, r, s)
    BY <1>1, <1>3, <1>7, <1>10, <1>11 DEF Saving
  <1>13. Further(p, r, s)
    BY <1>1 DEF Further, ListsNoMore
  <1> QED BY <1>12, <1>13 DEF r

\* ItemsDone saves item after item.
LEMMA ItemsDoneUnfolds ==
  ASSUME NEW p, NEW s, NEW k, NEW T, NEW q \in Seq(T), q = p.w.dstH[s][k].items
  PROVE  \E done :
           /\ done[0] = p
           /\ \A n \in 1..Len(q) : done[n] = SaveItem(done[n - 1], s, k, q[n])
           /\ ItemsDone(p, s, k) = done[Len(q)]
PROOF
  <1>0. Len(q) \in Nat
    BY LenProperties
  <1> DEFINE Rec(f, m) == [n \in 0..m |-> IF n = 0 THEN p ELSE SaveItem(f[n - 1], s, k, q[n])]
  <1> DEFINE Fails == { m \in Nat : ~ \E f : f = Rec(f, m) }
  <1>1. Fails = {}
    <2>1. SUFFICES ASSUME Fails # {} PROVE FALSE
      OBVIOUS
    <2>2. PICK m \in Fails : \A x \in Fails : m <= x
      BY <2>1, LeastExists, Fails \in SUBSET Nat
    <2>3. m # 0
      <3>1. [n \in 0..0 |-> p] = Rec([n \in 0..0 |-> p], 0)
        OBVIOUS
      <3> QED BY <3>1, <2>2
    <2>4. PICK f : f = Rec(f, m - 1)
      <3>1. m - 1 \in Nat /\ ~(m <= m - 1)
        BY <2>2, <2>3
      <3>2. m - 1 \notin Fails
        BY <3>1, <2>2
      <3> QED BY <3>1, <3>2
    <2> DEFINE g == [n \in 0..m |-> IF n < m THEN f[n] ELSE SaveItem(f[m - 1], s, k, q[m])]
    <2>5. ASSUME NEW n \in 0..m PROVE g[n] = Rec(g, m)[n]
      <3>1. CASE n = 0
        BY <3>1, <2>3, <2>4
      <3>2. CASE n # 0 /\ n < m
        <4>1. n \in 0..(m - 1) /\ n - 1 \in 0..(m - 1) /\ n - 1 \in 0..m /\ n - 1 < m
          BY <3>2
        <4>2. g[n - 1] = f[n - 1] /\ g[n] = f[n]
          BY <4>1, <3>2, SMTT(60)
        <4>3. f[n] = Rec(f, m - 1)[n]
          BY <2>4
        <4> QED BY <4>1, <4>2, <4>3, <3>2
      <3>3. CASE n = m
        <4>1. m - 1 \in 0..m /\ m - 1 < m /\ m \in 0..m
          BY <2>3
        <4>2. g[m - 1] = f[m - 1]
          BY <4>1
        <4> QED BY <4>1, <4>2, <3>3, <2>3
      <3> QED BY <3>1, <3>2, <3>3
    <2>6. g = Rec(g, m)
      BY <2>5, SMTT(60)
    <2> QED BY <2>2, <2>6
  <1> DEFINE done == CHOOSE f : f = Rec(f, Len(q))
  <1>2. done = Rec(done, Len(q))
    <2>1. \E f : f = Rec(f, Len(q))
      BY <1>0, <1>1, SMTT(60)
    <2> QED BY <2>1, Zenon
  <1>3. ItemsDone(p, s, k) = done[Len(q)]
    BY DEF ItemsDone
  <1> HIDE DEF done
  <1>4. \A n \in 0..Len(q) : done[n] = Rec(done, Len(q))[n]
    BY <1>2, Zenon
  <1> DEFINE N == Len(q)
  <1>n. N \in Nat
    BY <1>0
  <1>m. \A n \in 0..N : done[n] = IF n = 0 THEN p ELSE SaveItem(done[n - 1], s, k, q[n])
    BY <1>4
  <1> HIDE DEF N
  <1>5. done[0] = p
    BY <1>n, <1>m
  <1>6. \A n \in 1..N : done[n] = SaveItem(done[n - 1], s, k, q[n])
    <2>1. \A n \in 1..N : n \in 0..N /\ n # 0
      BY <1>n
    <2> QED BY <1>m, <2>1
  <1> QED BY <1>3, <1>5, <1>6 DEF N

\* AllItemsDone does so, embedded destinations first.
LEMMA AllItemsDoneUnfolds ==
  ASSUME NEW p, NEW s, NEW k, NEW T, NEW q \in Seq(T), q = p.w.dstH[s][k].items
  PROVE  \E done :
           /\ done[0] = p
           /\ \A n \in 1..Len(q) : done[n] = SaveAnyItem(done[n - 1], s, k, q[n])
           /\ AllItemsDone(p, s, k) = done[Len(q)]
PROOF
  <1>0. Len(q) \in Nat
    BY LenProperties
  <1> DEFINE Rec(f, m) == [n \in 0..m |-> IF n = 0 THEN p ELSE SaveAnyItem(f[n - 1], s, k, q[n])]
  <1> DEFINE Fails == { m \in Nat : ~ \E f : f = Rec(f, m) }
  <1>1. Fails = {}
    <2>1. SUFFICES ASSUME Fails # {} PROVE FALSE
      OBVIOUS
    <2>2. PICK m \in Fails : \A x \in Fails : m <= x
      BY <2>1, LeastExists, Fails \in SUBSET Nat
    <2>3. m # 0
      <3>1. [n \in 0..0 |-> p] = Rec([n \in 0..0 |-> p], 0)
        OBVIOUS
      <3> QED BY <3>1, <2>2
    <2>4. PICK f : f = Rec(f, m - 1)
      <3>1. m - 1 \in Nat /\ ~(m <= m - 1)
        BY <2>2, <2>3
      <3>2. m - 1 \notin Fails
        BY <3>1, <2>2
      <3> QED BY <3>1, <3>2
    <2> DEFINE g == [n \in 0..m |-> IF n < m THEN f[n] ELSE SaveAnyItem(f[m - 1], s, k, q[m])]
    <2>5. ASSUME NEW n \in 0..m PROVE g[n] = Rec(g, m)[n]
      <3>1. CASE n = 0
        BY <3>1, <2>3, <2>4
      <3>2. CASE n # 0 /\ n < m
        <4>1. n \in 0..(m - 1) /\ n - 1 \in 0..(m - 1) /\ n - 1 \in 0..m /\ n - 1 < m
          BY <3>2
        <4>2. g[n - 1] = f[n - 1] /\ g[n] = f[n]
          BY <4>1, <3>2
        <4>3. f[n] = Rec(f, m - 1)[n]
          BY <2>4
        <4> QED BY <4>1, <4>2, <4>3, <3>2
      <3>3. CASE n = m
        <4>1. m - 1 \in 0..m /\ m - 1 < m /\ m \in 0..m
          BY <2>3
        <4>2. g[m - 1] = f[m - 1]
          BY <4>1
        <4> QED BY <4>1, <4>2, <3>3, <2>3
      <3> QED BY <3>1, <3>2, <3>3
    <2>6. g = Rec(g, m)
      BY <2>5, SMTT(60)
    <2> QED BY <2>2, <2>6
  <1> DEFINE done == CHOOSE f : f = Rec(f, Len(q))
  <1>2. done = Rec(done, Len(q))
    <2>1. \E f : f = Rec(f, Len(q))
      BY <1>0, <1>1, SMTT(60)
    <2> QED BY <2>1, Zenon
  <1>3. AllItemsDone(p, s, k) = done[Len(q)]
    BY DEF AllItemsDone
  <1> HIDE DEF done
  <1>4. \A n \in 0..Len(q) : done[n] = Rec(done, Len(q))[n]
    BY <1>2
  <1> DEFINE N == Len(q)
  <1>n. N \in Nat
    BY <1>0
  <1>m. \A n \in 0..N : done[n] = IF n = 0 THEN p ELSE SaveAnyItem(done[n - 1], s, k, q[n])
    BY <1>4
  <1> HIDE DEF N
  <1>5. done[0] = p
    BY <1>n, <1>m
  <1>6. \A n \in 1..N : done[n] = SaveAnyItem(done[n - 1], s, k, q[n])
    <2>1. \A n \in 1..N : n \in 0..N /\ n # 0
      BY <1>n
    <2> QED BY <1>m, <2>1
  <1> QED BY <1>3, <1>5, <1>6 DEF N

\* An item is saved, needs not be, or has left the handle.
Settled(w, p, s, k, i) == Resolved(w, p, i) \/ i \notin ToSet(p.w.dstH[s][k].items)

\* A save goes on from step to step.
LEMMA FurtherOn ==
  ASSUME NEW w, NEW s \in Sessions, NEW p, NEW r, NEW x, Saving(w, p, s), Saving(w, r, s),
         Further(p, r, s), Further(r, x, s)
  PROVE  Further(p, x, s)
PROOF
  <1>1. \A k \in Slots : p.w.dstH[s][k] # None => r.w.dstH[s][k] # None
    BY DEF Saving, SavingDsts
  <1> QED BY <1>1 DEF Further, ListsNoMore

\* An item that is dealt with stays so.
LEMMA StaysSettled ==
  ASSUME NEW w, NEW s \in Sessions, NEW p, NEW r, NEW k \in Slots, Saving(w, p, s),
         w.dstH[s][k] # None, Further(p, r, s), NEW i, Settled(w, p, s, k, i)
  PROVE  Settled(w, r, s, k, i)
PROOF
  <1>1. p.w.dstH[s][k] # None
    BY DEF Saving, SavingDsts
  <1>2. ToSet(r.w.dstH[s][k].items) \subseteq ToSet(p.w.dstH[s][k].items) /\ p.savedCm \subseteq r.savedCm
    BY <1>1 DEF Further, ListsNoMore
  <1> QED BY <1>2 DEF Settled, Resolved

\* One item.
LEMMA SaveItemSaves ==
  ASSUME NEW w, Core(w), NEW s \in Sessions, NEW p, Saving(w, p, s), NEW k \in Slots,
         w.dstH[s][k] # None, NEW i \in CmIds \cup DstIds
  PROVE  LET r == SaveItem(p, s, k, i)
         IN Saving(w, r, s) /\ Further(p, r, s) /\ Settled(w, r, s, k, i)
PROOF
  <1>1. p.ok = TRUE /\ p.w.cmH = w.cmH /\ p.w.mapping = w.mapping
    BY DEF Saving, SavingCms
  <1>2. Further(p, p, s)
    BY DEF Further, ListsNoMore
  <1> DEFINE e == [p EXCEPT !.w = ItemDropped(p.w, s, k, i)]
  <1>3. Saving(w, e, s) /\ Further(p, e, s) /\ Settled(w, e, s, k, i)
    BY ItemDroppedSaves DEF Settled
  <1> HIDE DEF e
  <1>4. CASE i \in DstIds
    <2>1. IsEmbedded(i) /\ Resolved(w, p, i)
      BY <1>4, IdsApart DEF IsEmbedded, Resolved
    <2>2. SaveItem(p, s, k, i) \in {p, e}
      BY <1>1, <2>1 DEF SaveItem, e
    <2> QED BY <1>2, <1>3, <2>1, <2>2 DEF Settled
  <1>5. CASE i \in CmIds
    <2>1. ~IsEmbedded(i)
      BY <1>5, IdsApart DEF IsEmbedded
    <2>2. CASE w.cmH[s][i] # None
      <3>1. SaveItem(p, s, k, i) = SaveCm(p, s, i)
        BY <1>1, <2>1, <2>2 DEF SaveItem
      <3> DEFINE r == SaveCm(p, s, i)
      <3>2. Saving(w, r, s) /\ Further(p, r, s) /\ i \in r.savedCm
        BY <1>5, <2>2, SaveCmSaves
      <3> HIDE DEF r
      <3>3. Settled(w, r, s, k, i)
        BY <3>2 DEF Settled, Resolved
      <3> QED BY <3>1, <3>2, <3>3 DEF r
    <2>3. CASE w.cmH[s][i] = None /\ i \in w.mapping.cm
      <3>1. SaveItem(p, s, k, i) = p
        BY <1>1, <2>1, <2>3 DEF SaveItem
      <3> QED BY <1>2, <2>3, <3>1 DEF Settled, Resolved
    <2>4. CASE w.cmH[s][i] = None /\ i \notin w.mapping.cm
      <3>1. SaveItem(p, s, k, i) = e
        BY <1>1, <2>1, <2>4 DEF SaveItem, e
      <3> QED BY <1>3, <3>1
    <2> QED BY <2>2, <2>3, <2>4
  <1> QED BY <1>4, <1>5

\* Nothing is deleted by a save of a handle that asks for nothing.
LEMMA NothingToDelete ==
  ASSUME NEW w, Core(w), NEW s \in Sessions, NEW p, Saving(w, p, s), NEW k \in Slots,
         w.dstH[s][k] # None, NoToDelete(w)
  PROVE  /\ CheckDeletions(p, s, k) = [kept |-> << >>, end |-> "ok"]
         /\ Deletions(p, s, k, << >>) = p
PROOF
  <1> DEFINE h == p.w.dstH[s][k]
  <1>1. p \in Saves /\ p.w \in Worlds
    BY SavingFacts
  <1>2. SavingDsts(w, p, s) /\ p.gone = {}
    BY DEF Saving
  <1>3. h # None /\ h.toDelete = << >>
    BY <1>2 DEF SavingDsts, SameHandle, NoToDelete
  <1>4. h \in DstHandles
    BY <1>1, <1>3 DEF Worlds
  <1>5. SubSeq(<< >>, 1, 0) = << >> /\ Len(<< >>) = 0 /\ DOMAIN << >> = {}
    OBVIOUS
  <1>6. \A S : Only(<< >>, S) = << >>
    <2>1. SUFFICES ASSUME NEW S PROVE Only(<< >>, S) = << >>
      OBVIOUS
    <2> DEFINE e == << >>
               o == Only(e, S)
    <2>2. e \in Seq(Int) /\ ToSet(e) = {}
      BY DEF ToSet
    <2> HIDE DEF e
    <2>3. o \in Seq(Int) /\ ToSet(o) = {}
      BY <2>2, OnlyIn
    <2> HIDE DEF o
    <2>4. o = << >>
      BY <2>3, EmptyIs
    <2> QED BY <2>4 DEF o, e
  <1>7. << >> \o << >> = << >>
    BY SMTT(60)
  <1>8. CheckDeletions(p, s, k) = [kept |-> << >>, end |-> "ok"]
    <2> DEFINE Asked(c)  == c \in p.w.mapping.cm /\ ~InOtherMapped(p.w.mapping, c, h.id)
               Answer(c) == SessionInOther(p.w, s, c, 0)
               wanted    == { c \in ToSet(h.toDelete) : Asked(c) /\ Answer(c) = "no" }
               stops     == { j \in DOMAIN h.toDelete :
                                \/ Asked(h.toDelete[j]) /\ Answer(h.toDelete[j]) = "panic"
                                \/ h.toDelete[j] \in wanted \cap connected }
               last      == IF stops = {} THEN Len(h.toDelete) ELSE Least(stops)
    <2>1. stops = {}
      BY <1>3, <1>5
    <2>2. last = 0
      BY <1>3, <1>5, <2>1
    <2>3. CheckDeletions(p, s, k) =
            [kept |-> Only(SubSeq(h.toDelete, 1, last), wanted)
                        \o SubSeq(h.toDelete, last + 1, Len(h.toDelete)),
             end  |-> IF stops = {} THEN "ok" ELSE IF h.toDelete[last] \in wanted THEN "InUse" ELSE "panic"]
      BY DEF CheckDeletions
    <2> HIDE DEF stops, last, wanted
    <2>4. last + 1 = 1
      BY <2>2
    <2>5. Only(SubSeq(h.toDelete, 1, last), wanted) = << >>
          /\ SubSeq(h.toDelete, last + 1, Len(h.toDelete)) = << >>
      BY <1>3, <1>5, <1>6, <2>2, <2>4
    <2> QED BY <1>7, <2>1, <2>3, <2>5, Zenon
  <1>9. Deletions(p, s, k, << >>) = p
    <2>1. ToSet(<< >>) = {}
      BY DEF ToSet
    <2>2. [h EXCEPT !.toDelete = << >>] = h
      BY <1>3, <1>4 DEF DstHandles
    <2>3. [p.w.dstH EXCEPT ![s] = [p.w.dstH[s] EXCEPT ![k] = h]] = p.w.dstH
      BY <1>1 DEF Worlds
    <2>4. [c \in Cms |-> p.w.db.cm[c]] = p.w.db.cm
      BY <1>1 DEF Worlds, Data
    <2>5. [p.w.db EXCEPT !.cm = p.w.db.cm] = p.w.db
      BY <1>1 DEF Worlds, Data
    <2> DEFINE W == [p.w EXCEPT !.dstH[s][k].toDelete = << >>, !.db.cm = [c \in Cms |-> p.w.db.cm[c]]]
    <2>6. Deletions(p, s, k, << >>) = [p EXCEPT !.w = W, !.gone = p.gone]
      BY <2>1 DEF Deletions
    <2>7. W = [p.w EXCEPT !.dstH = p.w.dstH, !.db = p.w.db]
      BY <1>1, <2>2, <2>3, <2>4, <2>5 DEF Worlds
    <2>8. [p.w EXCEPT !.dstH = p.w.dstH, !.db = p.w.db] = p.w
      BY <1>1 DEF Worlds
    <2>9. [p EXCEPT !.w = p.w, !.gone = p.gone] = p
      BY <1>1 DEF Saves
    <2> QED BY <2>6, <2>7, <2>8, <2>9
  <1> QED BY <1>8, <1>9

\* All items of a handle.
LEMMA ItemsDoneSaves ==
  ASSUME NEW w, Core(w), NEW s \in Sessions, NEW p, Saving(w, p, s), NEW k \in Slots,
         w.dstH[s][k] # None
  PROVE  LET r == ItemsDone(p, s, k)
         IN /\ Saving(w, r, s) /\ Further(p, r, s)
            /\ \A i \in ToSet(r.w.dstH[s][k].items) : Resolved(w, r, i)
PROOF
  <1> DEFINE q == p.w.dstH[s][k].items
             N == Len(q)
             T == CmIds \cup DstIds
  <1>1. p.w \in Worlds /\ p.w.dstH[s][k] # None
    <2>1. SavingDsts(w, p, s)
      BY DEF Saving
    <2> QED BY <2>1, SavingFacts DEF SavingDsts
  <1>2. p.w.dstH[s][k] \in DstHandles
    BY <1>1 DEF Worlds
  <1>3. q \in Seq(T)
    BY <1>2 DEF DstHandles
  <1>4. N \in Nat /\ \A n \in 1..N : q[n] \in T
    BY <1>3, LenProperties
  <1>5. ToSet(q) = { q[n] : n \in 1..N }
    BY <1>3, LenProperties DEF ToSet
  <1>q. q = p.w.dstH[s][k].items
    OBVIOUS
  <1> HIDE DEF q, T
  <1>6. PICK done : /\ done[0] = p
                    /\ \A n \in 1..Len(q) : done[n] = SaveItem(done[n - 1], s, k, q[n])
                    /\ ItemsDone(p, s, k) = done[Len(q)]
    BY <1>3, <1>q, ItemsDoneUnfolds
  <1> HIDE DEF N
  <1> DEFINE Good(n) == /\ Saving(w, done[n], s) /\ Further(p, done[n], s)
                        /\ \A m \in 1..n : Settled(w, done[n], s, k, q[m])
             G == { n \in 0..N : Good(n) }
  <1>7. Further(p, p, s)
    BY DEF Further, ListsNoMore
  <1>8. 0 \in G
    BY <1>4, <1>6, <1>7
  <1>9. ASSUME NEW n \in 1..N, n - 1 \in G PROVE n \in G
    <2> DEFINE x == done[n - 1]
    <2>1. Saving(w, x, s) /\ Further(p, x, s) /\ \A m \in 1..(n - 1) : Settled(w, x, s, k, q[m])
      BY <1>9
    <2>2. done[n] = SaveItem(x, s, k, q[n])
      BY <1>6 DEF N
    <2>3. q[n] \in CmIds \cup DstIds
      BY <1>4 DEF T
    <2> HIDE DEF x
    <2>4. Saving(w, done[n], s) /\ Further(x, done[n], s) /\ Settled(w, done[n], s, k, q[n])
      BY <2>1, <2>2, <2>3, SaveItemSaves
    <2>5. Further(p, done[n], s)
      BY <2>1, <2>4, FurtherOn
    <2>6. \A m \in 1..(n - 1) : Settled(w, done[n], s, k, q[m])
      BY <2>1, <2>4, StaysSettled
    <2>7. \A m \in 1..n : m = n \/ m \in 1..(n - 1)
      BY <1>4
    <2>8. \A m \in 1..n : Settled(w, done[n], s, k, q[m])
      BY <2>4, <2>6, <2>7
    <2>9. n \in 0..N
      BY <1>4
    <2> QED BY <2>4, <2>5, <2>8, <2>9
  <1>10. \A n \in 1..N : n - 1 \in G => n \in G
    BY <1>9
  <1> HIDE DEF G
  <1>11. \A n \in 0..N : n \in G
    BY <1>4, <1>8, <1>10, InductionTo
  <1>12. N \in G
    BY <1>4, <1>11
  <1>13. Good(N)
    BY <1>12 DEF G
  <1> DEFINE r == ItemsDone(p, s, k)
  <1>14. r = done[N]
    BY <1>6 DEF N
  <1> HIDE DEF r
  <1>15. Saving(w, r, s) /\ Further(p, r, s) /\ \A m \in 1..N : Settled(w, r, s, k, q[m])
    BY <1>13, <1>14
  <1>16. \A i \in ToSet(r.w.dstH[s][k].items) : i \in ToSet(q)
    BY <1>1, <1>15 DEF Further, ListsNoMore, q
  <1>17. \A i \in ToSet(r.w.dstH[s][k].items) : Resolved(w, r, i)
    BY <1>5, <1>15, <1>16 DEF Settled
  <1> QED BY <1>15, <1>17 DEF r

\* An embedded destination that the session has a handle to.
LEMMA SaveEmbeddedSaves ==
  ASSUME NEW w, Core(w), NEW s \in Sessions, NEW p, Saving(w, p, s), NEW k \in Slots,
         w.dstH[s][k] # None, NoToDelete(w)
  PROVE  LET r == SaveEmbedded(p, s, k) IN Saving(w, r, s) /\ Further(p, r, s)
PROOF
  <1> DEFINE x == ItemsDone(p, s, k)
             r == SaveInSlot(x, s, k)
  <1>1. SaveEmbedded(p, s, k) = r
    <2>1. CheckDeletions(p, s, k) = [kept |-> << >>, end |-> "ok"] /\ Deletions(p, s, k, << >>) = p
      BY NothingToDelete
    <2>2. CheckDeletions(p, s, k).end = "ok" /\ CheckDeletions(p, s, k).kept = << >>
      BY <2>1
    <2> QED BY <2>1, <2>2 DEF SaveEmbedded
  <1>2. /\ Saving(w, x, s) /\ Further(p, x, s)
        /\ \A i \in ToSet(x.w.dstH[s][k].items) : Resolved(w, x, i)
    BY ItemsDoneSaves
  <1> HIDE DEF x
  <1>3. Saving(w, r, s) /\ Further(x, r, s)
    BY <1>2, SaveInSlotSaves
  <1> HIDE DEF r
  <1>4. Further(p, r, s)
    BY <1>2, <1>3, FurtherOn
  <1> QED BY <1>1, <1>3, <1>4

\* One item, embedded or not.
LEMMA SaveAnyItemSaves ==
  ASSUME NEW w, Core(w), NEW s \in Sessions, NEW p, Saving(w, p, s), NEW k \in Slots,
         w.dstH[s][k] # None, NoToDelete(w), NEW i \in CmIds \cup DstIds
  PROVE  LET r == SaveAnyItem(p, s, k, i)
         IN Saving(w, r, s) /\ Further(p, r, s) /\ Settled(w, r, s, k, i)
PROOF
  <1>1. CASE p.ok /\ IsEmbedded(i) /\ SlotsOf(p.w, s, i) # {}
    <2> DEFINE e == Least(SlotsOf(p.w, s, i))
               r == SaveEmbedded(p, s, e)
    <2>1. SlotsOf(p.w, s, i) \in SUBSET Nat
      BY BoundsAssumption DEF SlotsOf, Slots
    <2>2. e \in SlotsOf(p.w, s, i)
      BY <1>1, <2>1, LeastIsIn
    <2>3. e \in Slots /\ p.w.dstH[s][e] # None
      BY <2>2 DEF SlotsOf
    <2>4. SavingDsts(w, p, s)
      BY DEF Saving
    <2>5. w.dstH[s][e] # None
      BY <2>3, <2>4 DEF SavingDsts
    <2>6. SaveAnyItem(p, s, k, i) = r
      BY <1>1 DEF SaveAnyItem
    <2> HIDE DEF e
    <2>7. Saving(w, r, s) /\ Further(p, r, s)
      BY <2>3, <2>5, SaveEmbeddedSaves
    <2> HIDE DEF r
    <2>8. Settled(w, r, s, k, i)
      BY <1>1, IdsApart DEF Settled, Resolved, IsEmbedded
    <2> QED BY <2>6, <2>7, <2>8
  <1>2. CASE ~(p.ok /\ IsEmbedded(i) /\ SlotsOf(p.w, s, i) # {})
    <2>1. SaveAnyItem(p, s, k, i) = SaveItem(p, s, k, i)
      BY <1>2 DEF SaveAnyItem
    <2> QED BY <2>1, SaveItemSaves
  <1> QED BY <1>1, <1>2

\* All items of a handle, embedded destinations with theirs.
LEMMA AllItemsDoneSaves ==
  ASSUME NEW w, Core(w), NEW s \in Sessions, NEW p, Saving(w, p, s), NEW k \in Slots,
         w.dstH[s][k] # None, NoToDelete(w)
  PROVE  LET r == AllItemsDone(p, s, k)
         IN /\ Saving(w, r, s) /\ Further(p, r, s)
            /\ \A i \in ToSet(r.w.dstH[s][k].items) : Resolved(w, r, i)
PROOF
  <1> DEFINE q == p.w.dstH[s][k].items
             N == Len(q)
             T == CmIds \cup DstIds
  <1>1. p.w \in Worlds /\ p.w.dstH[s][k] # None
    <2>1. SavingDsts(w, p, s)
      BY DEF Saving
    <2> QED BY <2>1, SavingFacts DEF SavingDsts
  <1>2. p.w.dstH[s][k] \in DstHandles
    BY <1>1 DEF Worlds
  <1>3. q \in Seq(T)
    BY <1>2 DEF DstHandles
  <1>4. N \in Nat /\ \A n \in 1..N : q[n] \in T
    BY <1>3, LenProperties
  <1>5. ToSet(q) = { q[n] : n \in 1..N }
    BY <1>3, LenProperties DEF ToSet
  <1>q. q = p.w.dstH[s][k].items
    OBVIOUS
  <1> HIDE DEF q, T
  <1>6. PICK done : /\ done[0] = p
                    /\ \A n \in 1..Len(q) : done[n] = SaveAnyItem(done[n - 1], s, k, q[n])
                    /\ AllItemsDone(p, s, k) = done[Len(q)]
    BY <1>3, <1>q, AllItemsDoneUnfolds
  <1> HIDE DEF N
  <1> DEFINE Good(n) == /\ Saving(w, done[n], s) /\ Further(p, done[n], s)
                        /\ \A m \in 1..n : Settled(w, done[n], s, k, q[m])
             G == { n \in 0..N : Good(n) }
  <1>7. Further(p, p, s)
    BY DEF Further, ListsNoMore
  <1>8. 0 \in G
    BY <1>4, <1>6, <1>7
  <1>9. ASSUME NEW n \in 1..N, n - 1 \in G PROVE n \in G
    <2> DEFINE x == done[n - 1]
    <2>1. Saving(w, x, s) /\ Further(p, x, s) /\ \A m \in 1..(n - 1) : Settled(w, x, s, k, q[m])
      BY <1>9
    <2>2. done[n] = SaveAnyItem(x, s, k, q[n])
      BY <1>6 DEF N
    <2>3. q[n] \in CmIds \cup DstIds
      BY <1>4 DEF T
    <2> HIDE DEF x
    <2>4. Saving(w, done[n], s) /\ Further(x, done[n], s) /\ Settled(w, done[n], s, k, q[n])
      BY <2>1, <2>2, <2>3, SaveAnyItemSaves
    <2>5. Further(p, done[n], s)
      BY <2>1, <2>4, FurtherOn
    <2>6. \A m \in 1..(n - 1) : Settled(w, done[n], s, k, q[m])
      BY <2>1, <2>4, StaysSettled
    <2>7. \A m \in 1..n : m = n \/ m \in 1..(n - 1)
      BY <1>4
    <2>8. \A m \in 1..n : Settled(w, done[n], s, k, q[m])
      BY <2>4, <2>6, <2>7
    <2>9. n \in 0..N
      BY <1>4
    <2> QED BY <2>4, <2>5, <2>8, <2>9
  <1>10. \A n \in 1..N : n - 1 \in G => n \in G
    BY <1>9
  <1> HIDE DEF G
  <1>11. \A n \in 0..N : n \in G
    BY <1>4, <1>8, <1>10, InductionTo
  <1>12. N \in G
    BY <1>4, <1>11
  <1>13. Good(N)
    BY <1>12 DEF G
  <1> DEFINE r == AllItemsDone(p, s, k)
  <1>14. r = done[N]
    BY <1>6 DEF N
  <1> HIDE DEF r
  <1>15. Saving(w, r, s) /\ Further(p, r, s) /\ \A m \in 1..N : Settled(w, r, s, k, q[m])
    BY <1>13, <1>14
  <1>16. \A i \in ToSet(r.w.dstH[s][k].items) : i \in ToSet(q)
    BY <1>1, <1>15 DEF Further, ListsNoMore, q
  <1>17. \A i \in ToSet(r.w.dstH[s][k].items) : Resolved(w, r, i)
    BY <1>5, <1>15, <1>16 DEF Settled
  <1> QED BY <1>15, <1>17 DEF r

\* What UpdateDestinationL does up to the commit.
LEMMA SavingDstSaves ==
  ASSUME NEW w, Core(w), NEW s \in Sessions, NEW k \in Slots, w.dstH[s][k] # None,
         NoToDelete(w), RoomIn(w, s)
  PROVE  Saving(w, SavingDst(w, s, k), s)
PROOF
  <1> DEFINE p == Begin(w)
             x == AllItemsDone(p, s, k)
             r == SaveInSlot(x, s, k)
  <1>1. Saving(w, p, s)
    BY BeginSaves
  <1>2. SavingDst(w, s, k) = SaveDst(p, s, k)
    BY DEF SavingDst
  <1> HIDE DEF p
  <1>3. SaveDst(p, s, k) = r
    <2>1. CheckDeletions(p, s, k) = [kept |-> << >>, end |-> "ok"] /\ Deletions(p, s, k, << >>) = p
      BY <1>1, NothingToDelete
    <2>2. CheckDeletions(p, s, k).end = "ok" /\ CheckDeletions(p, s, k).kept = << >>
      BY <2>1
    <2> QED BY <2>1, <2>2 DEF SaveDst
  <1>4. /\ Saving(w, x, s)
        /\ \A i \in ToSet(x.w.dstH[s][k].items) : Resolved(w, x, i)
    BY <1>1, AllItemsDoneSaves
  <1> HIDE DEF x
  <1>5. Saving(w, r, s)
    BY <1>4, SaveInSlotSaves
  <1> QED BY <1>2, <1>3, <1>5

\* No two get the same.
OneToOne(new) == \A t, u \in DOMAIN new : new[t] = new[u] => t = u

RenamedFrom(g, f, new, I) ==
    /\ \A i \in DOMAIN new : g[i] = None
    /\ \A t \in DOMAIN new : new[t] \in I \ DOMAIN new => g[new[t]] = f[t]
    /\ \A i \in I \ DOMAIN new : (\A t \in DOMAIN new : new[t] # i) => g[i] = f[i]

\* An array with the given ids in the place of temporary ones.
LEMMA RenamedIs ==
  ASSUME NEW I, NEW S, NEW f \in [I -> S \cup {None}], NEW new, OneToOne(new), DOMAIN new \subseteq I
  PROVE  LET g == Renamed(f, new)
         IN g \in [I -> S \cup {None}] /\ RenamedFrom(g, f, new, I)
PROOF
  <1> DEFINE g == Renamed(f, new)
             Of(i) == CHOOSE t \in DOMAIN new : new[t] = i
  <1>1. \A i : (\E t \in DOMAIN new : new[t] = i) => Of(i) \in DOMAIN new /\ new[Of(i)] = i
    OBVIOUS
  <1>2. DOMAIN f = I
    OBVIOUS
  <1>3. g = [i \in I |-> IF i \in DOMAIN new THEN None
                         ELSE IF \E t \in DOMAIN new : new[t] = i THEN f[Of(i)] ELSE f[i]]
    BY <1>2 DEF Renamed
  <1>4. \A t \in DOMAIN new : Of(new[t]) = t
    BY <1>1 DEF OneToOne
  <1> HIDE DEF Of, g
  <1>5. g \in [I -> S \cup {None}]
    BY <1>1, <1>3
  <1>6. \A i \in DOMAIN new : g[i] = None
    BY <1>3
  <1>7. \A t \in DOMAIN new : new[t] \in I \ DOMAIN new => g[new[t]] = f[t]
    BY <1>3, <1>4
  <1>8. \A i \in I \ DOMAIN new : (\A t \in DOMAIN new : new[t] # i) => g[i] = f[i]
    BY <1>3
  <1> QED BY <1>5, <1>6, <1>7, <1>8 DEF g, RenamedFrom

\* The object under id i was under id t before the ids of new were given.
IdFrom(new, t, i) == IF t \in DOMAIN new THEN new[t] = i
                     ELSE i = t /\ \A u \in DOMAIN new : new[u] # i

\* The destination handles: items with the given ids.
ItemsGiven(x, y, s) ==
    /\ \A u \in Sessions : \A k \in Slots :
         /\ y.dstH[u][k] = None <=> x.dstH[u][k] = None
         /\ x.dstH[u][k] # None =>
              /\ y.dstH[u][k].id = x.dstH[u][k].id /\ y.dstH[u][k].status = x.dstH[u][k].status
              /\ y.dstH[u][k].toDelete = x.dstH[u][k].toDelete
              /\ \A e \in DstIds : e \in ToSet(y.dstH[u][k].items) => e \in ToSet(x.dstH[u][k].items)

\* The ids of new CMs are given.
LEMMA GiveCmIdsIs ==
  ASSUME NEW x \in Worlds, NEW s \in Sessions, NEW new \in NewIds(CmTemps, Cms), OneToOne(new)
  PROVE  LET y == GiveCmIds(x, s, new)
         IN /\ y \in Worlds /\ ItemsGiven(x, y, s)
            /\ y.db = x.db /\ y.mapping = x.mapping /\ y.deleted = x.deleted
            /\ y.dsts = x.dsts /\ y.lastTemp = x.lastTemp
            /\ y.cms = Renamed(x.cms, new)
            /\ \A u \in Sessions : \A i \in CmIds :
                 y.cmH[u][i] = IF u = s THEN Renamed(x.cmH[s], new)[i] ELSE x.cmH[u][i]
PROOF
  <1> DEFINE y == GiveCmIds(x, s, new)
             F == Renamed(x.cmH[s], new)
             K == Renamed(x.cms, new)
             Row == [k \in Slots |->
                 IF x.dstH[s][k] = None THEN None
                 ELSE [x.dstH[s][k] EXCEPT !.items =
                         [j \in DOMAIN x.dstH[s][k].items |-> Real(new, x.dstH[s][k].items[j])]]]
  <1>1. DOMAIN new \subseteq CmTemps /\ new \in [DOMAIN new -> Cms]
    BY NewIdsIs
  <1>2. DOMAIN new \subseteq CmIds
    BY <1>1, IdsApart
  <1>3. x.cms \in [CmIds -> CmStructs \cup {None}] /\ x.cmH[s] \in [CmIds -> CmHandles \cup {None}]
    BY DEF Worlds
  <1>4. F \in [CmIds -> CmHandles \cup {None}] /\ K \in [CmIds -> CmStructs \cup {None}]
    BY <1>2, <1>3, RenamedIs
  <1>5. ASSUME NEW k \in Slots, x.dstH[s][k] # None
        PROVE  /\ Row[k] \in DstHandles /\ Row[k] # None
               /\ Row[k].id = x.dstH[s][k].id /\ Row[k].status = x.dstH[s][k].status
               /\ Row[k].toDelete = x.dstH[s][k].toDelete
               /\ \A e \in DstIds : e \in ToSet(Row[k].items) => e \in ToSet(x.dstH[s][k].items)
    <2> DEFINE h == x.dstH[s][k]
               q == [j \in DOMAIN h.items |-> Real(new, h.items[j])]
               g == [h EXCEPT !.items = q]
               T == CmIds \cup DstIds
    <2>1. Row[k] = g
      BY <1>5
    <2>2. h \in DstHandles
      BY <1>5 DEF Worlds
    <2> HIDE DEF h
    <2>3. h.items \in Seq(T)
      BY <2>2 DEF DstHandles
    <2>4. DOMAIN h.items = 1..Len(h.items) /\ Len(h.items) \in Nat
          /\ \A j \in DOMAIN h.items : h.items[j] \in T
      BY <2>3, LenProperties
    <2>5. \A j \in DOMAIN h.items : Real(new, h.items[j]) \in T
      BY <1>1, <2>4, IdsApart DEF Real
    <2>6. q \in Seq(T) /\ DOMAIN q = DOMAIN h.items
      BY <2>4, <2>5, IsASeq
    <2>7. ToSet(q) = { q[j] : j \in DOMAIN h.items }
      BY <2>6 DEF ToSet
    <2>8. \A j \in DOMAIN h.items : h.items[j] \in ToSet(h.items)
      BY DEF ToSet
    <2>9. ASSUME NEW e \in DstIds, e \in ToSet(q) PROVE e \in ToSet(h.items)
      <3>1. PICK j \in DOMAIN h.items : e = Real(new, h.items[j])
        BY <2>7, <2>9
      <3>2. h.items[j] \notin DOMAIN new
        BY <1>1, <3>1, IdsApart DEF Real
      <3>3. e = h.items[j]
        BY <3>1, <3>2 DEF Real
      <3> QED BY <2>8, <3>3
    <2> HIDE DEF q, T
    <2>10. g \in DstHandles /\ g.id = h.id /\ g.status = h.status /\ g.toDelete = h.toDelete /\ g.items = q
      BY <2>2, <2>6 DEF DstHandles, T
    <2>11. g # None
      BY <2>10, SetFields
    <2> HIDE DEF g
    <2>12. Row[k] = g /\ h = x.dstH[s][k]
      BY <2>1 DEF h
    <2> HIDE DEF Row
    <2> QED BY <2>9, <2>10, <2>11, <2>12
  <1>6. Row \in [Slots -> DstHandles \cup {None}]
    BY <1>5
  <1>7. \A k \in Slots : Row[k] = None <=> x.dstH[s][k] = None
    BY <1>5
  <1>8. y = [x EXCEPT !.cmH = [x.cmH EXCEPT ![s] = F], !.cms = K, !.dstH = [x.dstH EXCEPT ![s] = Row]]
    BY DEF GiveCmIds
  <1>k. K = Renamed(x.cms, new) /\ F = Renamed(x.cmH[s], new)
    OBVIOUS
  <1> HIDE DEF y, F, K, Row
  <1>9. y \in Worlds
    BY <1>4, <1>6, <1>8 DEF Worlds
  <1>10. /\ y.db = x.db /\ y.mapping = x.mapping /\ y.deleted = x.deleted
         /\ y.dsts = x.dsts /\ y.lastTemp = x.lastTemp /\ y.cms = K
    BY <1>8 DEF Worlds
  <1>11. \A u \in Sessions : \A i \in CmIds : y.cmH[u][i] = IF u = s THEN F[i] ELSE x.cmH[u][i]
    BY <1>8 DEF Worlds
  <1>12. \A u \in Sessions : \A k \in Slots : y.dstH[u][k] = IF u = s THEN Row[k] ELSE x.dstH[u][k]
    BY <1>8 DEF Worlds
  <1>13. ItemsGiven(x, y, s)
    BY <1>5, <1>7, <1>12 DEF ItemsGiven
  <1> QED BY <1>9, <1>10, <1>11, <1>13, <1>k DEF y

\* The fields of handles and structures that an update sets.
LEMMA CmUpdated ==
  /\ \A h \in CmHandles :
       /\ [h EXCEPT !.status = "Changed"] \in CmHandles
       /\ [h EXCEPT !.status = "Changed"].status = "Changed"
       /\ [h EXCEPT !.status = "Changed"].rec = h.rec /\ [h EXCEPT !.status = "Changed"].val = h.val
  /\ \A h \in CmHandles :
       /\ [h EXCEPT !.status = "Valid", !.rec = "Loaded"] \in CmHandles
       /\ [h EXCEPT !.status = "Valid", !.rec = "Loaded"].status = "Valid"
       /\ [h EXCEPT !.status = "Valid", !.rec = "Loaded"].rec = "Loaded"
       /\ [h EXCEPT !.status = "Valid", !.rec = "Loaded"].val = h.val
  /\ \A x \in CmStructs :
       /\ [x EXCEPT !.status = "Valid", !.rec = "Loaded"] \in CmStructs
       /\ [x EXCEPT !.status = "Valid", !.rec = "Loaded"].status = "Valid"
       /\ [x EXCEPT !.status = "Valid", !.rec = "Loaded"].rec = "Loaded"
       /\ [x EXCEPT !.status = "Valid", !.rec = "Loaded"].val = x.val
       /\ [x EXCEPT !.status = "Valid", !.rec = "Loaded"].ref = x.ref
       /\ [x EXCEPT !.status = "Valid", !.rec = "Loaded"].made = x.made
  BY Zenon DEF CmHandles, CmStructs

\* h tells the others that a handle is out of date.
CmTold(h, g, told) ==
    /\ h = None <=> g = None
    /\ g # None => /\ h.val = g.val /\ h.rec = g.rec
                   /\ h.status = IF told THEN "Changed" ELSE g.status
CmHandleSaved(h, g, saved) ==
    /\ h = None <=> g = None
    /\ g # None => /\ h.val = g.val
                   /\ IF saved THEN h.status = "Valid" /\ h.rec = "Loaded"
                      ELSE h.status = g.status /\ h.rec = g.rec
CmStructSaved(x, z, saved) ==
    /\ x = None <=> z = None
    /\ z # None => /\ x.val = z.val /\ x.made = z.made /\ x.ref = z.ref
                   /\ IF saved THEN x.status = "Valid" /\ x.rec = "Loaded"
                      ELSE x.status = z.status /\ x.rec = z.rec

\* What is told of saved CMs: in all sessions, and in the session that saved.
LEMMA CmsCommittedIs ==
  ASSUME NEW x \in Worlds, NEW s \in Sessions, NEW C \in SUBSET CmIds,
         \A c \in C : x.cmH[s][c] # None /\ x.cms[c] # None
  PROVE  LET y == CmsCommitted(x, s, C)
         IN /\ y \in Worlds
            /\ y.db = x.db /\ y.mapping = x.mapping /\ y.deleted = x.deleted
            /\ y.dsts = x.dsts /\ y.dstH = x.dstH /\ y.lastTemp = x.lastTemp
            /\ \A u \in Sessions \ {s} : \A i \in CmIds : CmTold(y.cmH[u][i], x.cmH[u][i], i \in C)
            /\ \A i \in CmIds : CmHandleSaved(y.cmH[s][i], x.cmH[s][i], i \in C)
            /\ \A i \in CmIds : CmStructSaved(y.cms[i], x.cms[i], i \in C)
PROOF
  <1> DEFINE F == [u \in Sessions |-> [i \in CmIds |->
                    IF i \in C /\ x.cmH[u][i] # None THEN [x.cmH[u][i] EXCEPT !.status = "Changed"]
                    ELSE x.cmH[u][i]]]
             z == [x EXCEPT !.cmH = F]
             Row == [i \in CmIds |-> IF i \in C THEN [z.cmH[s][i] EXCEPT !.status = "Valid", !.rec = "Loaded"]
                                     ELSE z.cmH[s][i]]
             K == [i \in CmIds |-> IF i \in C THEN [z.cms[i] EXCEPT !.status = "Valid", !.rec = "Loaded"]
                                   ELSE z.cms[i]]
             y == CmsCommitted(x, s, C)
  <1>1. ASSUME NEW u \in Sessions, NEW i \in CmIds
        PROVE  /\ F[u][i] \in CmHandles \cup {None} /\ CmTold(F[u][i], x.cmH[u][i], i \in C)
    <2> DEFINE h == x.cmH[u][i]
    <2>1. h \in CmHandles \cup {None}
      BY DEF Worlds
    <2>2. F[u][i] = IF i \in C /\ h # None THEN [h EXCEPT !.status = "Changed"] ELSE h
      OBVIOUS
    <2> HIDE DEF h, F
    <2>3. CASE i \in C /\ h # None
      <3>1. F[u][i] = [h EXCEPT !.status = "Changed"] /\ h \in CmHandles
        BY <2>1, <2>2, <2>3
      <3> DEFINE g == [h EXCEPT !.status = "Changed"]
      <3>2. g \in CmHandles /\ g.status = "Changed" /\ g.rec = h.rec /\ g.val = h.val
        BY <3>1, CmUpdated, Zenon
      <3>3. g # None
        BY <3>2, SetFields
      <3> HIDE DEF g
      <3>4. F[u][i] = g
        BY <3>1 DEF g
      <3> QED BY <2>3, <3>2, <3>3, <3>4 DEF CmTold, h
    <2>4. CASE ~(i \in C /\ h # None)
      <3>1. F[u][i] = h
        BY <2>2, <2>4
      <3> QED BY <2>1, <2>4, <3>1 DEF CmTold, h
    <2> QED BY <2>3, <2>4
  <1>2. F \in [Sessions -> [CmIds -> CmHandles \cup {None}]]
    BY <1>1
  <1>3. OutdateCms(x, C) = z
    BY DEF OutdateCms
  <1> HIDE DEF F
  <1>4. z \in Worlds /\ z.cmH = F /\ z.cms = x.cms
    BY <1>2 DEF Worlds
  <1>5. /\ z.db = x.db /\ z.mapping = x.mapping /\ z.deleted = x.deleted
        /\ z.dsts = x.dsts /\ z.dstH = x.dstH /\ z.lastTemp = x.lastTemp
    BY DEF Worlds
  <1>6. y = [z EXCEPT !.cmH = [z.cmH EXCEPT ![s] = Row], !.cms = K]
    BY <1>3 DEF CmsCommitted, CmsSaved
  <1> HIDE DEF y, z
  <1>7. ASSUME NEW i \in CmIds
        PROVE  /\ Row[i] \in CmHandles \cup {None} /\ CmHandleSaved(Row[i], x.cmH[s][i], i \in C)
    <2> DEFINE h == F[s][i]
    <2>1. h \in CmHandles \cup {None} /\ CmTold(h, x.cmH[s][i], i \in C)
      BY <1>1
    <2>2. Row[i] = IF i \in C THEN [h EXCEPT !.status = "Valid", !.rec = "Loaded"] ELSE h
      BY <1>4
    <2> HIDE DEF h, Row
    <2>3. CASE i \in C
      <3>1. x.cmH[s][i] # None
        BY <2>3
      <3>2. h \in CmHandles /\ h.val = x.cmH[s][i].val
        BY <2>1, <3>1 DEF CmTold
      <3> DEFINE g == [h EXCEPT !.status = "Valid", !.rec = "Loaded"]
      <3>3. g \in CmHandles /\ g.status = "Valid" /\ g.rec = "Loaded" /\ g.val = h.val
        BY <3>2, CmUpdated, Zenon
      <3>4. g # None
        BY <3>3, SetFields
      <3>5. Row[i] = g
        BY <2>2, <2>3
      <3> HIDE DEF g
      <3> QED BY <2>3, <3>1, <3>2, <3>3, <3>4, <3>5 DEF CmHandleSaved
    <2>4. CASE i \notin C
      <3>1. Row[i] = h
        BY <2>2, <2>4
      <3> QED BY <2>1, <2>4, <3>1 DEF CmHandleSaved, CmTold
    <2> QED BY <2>3, <2>4
  <1>8. ASSUME NEW i \in CmIds
        PROVE  /\ K[i] \in CmStructs \cup {None} /\ CmStructSaved(K[i], x.cms[i], i \in C)
    <2> DEFINE h == x.cms[i]
    <2>1. h \in CmStructs \cup {None}
      BY DEF Worlds
    <2>2. K[i] = IF i \in C THEN [h EXCEPT !.status = "Valid", !.rec = "Loaded"] ELSE h
      BY <1>4
    <2>h. h = x.cms[i]
      OBVIOUS
    <2> HIDE DEF h, K
    <2>3. CASE i \in C
      <3>1. h \in CmStructs /\ h # None
        BY <2>1, <2>3, <2>h
      <3> DEFINE g == [h EXCEPT !.status = "Valid", !.rec = "Loaded"]
      <3>3. g \in CmStructs /\ g.status = "Valid" /\ g.rec = "Loaded" /\ g.val = h.val
            /\ g.ref = h.ref /\ g.made = h.made
        BY <3>1, CmUpdated, Zenon
      <3>4. g # None
        BY <3>3, SetFields
      <3>5. K[i] = g
        BY <2>2, <2>3
      <3> HIDE DEF g
      <3> QED BY <2>3, <2>h, <3>1, <3>3, <3>4, <3>5 DEF CmStructSaved
    <2>4. CASE i \notin C
      <3>1. K[i] = h
        BY <2>2, <2>4
      <3> QED BY <2>1, <2>4, <2>h, <3>1 DEF CmStructSaved
    <2> QED BY <2>3, <2>4
  <1>9. Row \in [CmIds -> CmHandles \cup {None}] /\ K \in [CmIds -> CmStructs \cup {None}]
    BY <1>7, <1>8, Zenon
  <1> HIDE DEF Row, K
  <1>10. y \in Worlds
    BY <1>4, <1>6, <1>9 DEF Worlds
  <1>11. /\ y.db = x.db /\ y.mapping = x.mapping /\ y.deleted = x.deleted
         /\ y.dsts = x.dsts /\ y.dstH = x.dstH /\ y.lastTemp = x.lastTemp /\ y.cms = K
    BY <1>4, <1>5, <1>6 DEF Worlds
  <1>12. \A u \in Sessions : \A i \in CmIds : y.cmH[u][i] = IF u = s THEN Row[i] ELSE F[u][i]
    BY <1>4, <1>6 DEF Worlds
  <1>13. \A u \in Sessions \ {s} : \A i \in CmIds : CmTold(y.cmH[u][i], x.cmH[u][i], i \in C)
    BY <1>1, <1>12
  <1>14. \A i \in CmIds : CmHandleSaved(y.cmH[s][i], x.cmH[s][i], i \in C)
    BY <1>7, <1>12
  <1>15. \A i \in CmIds : CmStructSaved(y.cms[i], x.cms[i], i \in C)
    BY <1>8, <1>11
  <1> QED BY <1>10, <1>11, <1>13, <1>14, <1>15 DEF y

\* y is x with the CMs C of s saved, of them new ones under the ids of new.
CmsGiven(x, y, s, new, C) ==
    /\ \A t \in DOMAIN new : y.cmH[s][t] = None /\ y.cms[t] = None
    /\ \A t \in CmIds : \A i \in CmIds : IdFrom(new, t, i) =>
         /\ CmHandleSaved(y.cmH[s][i], x.cmH[s][t], i \in C)
         /\ CmStructSaved(y.cms[i], x.cms[t], i \in C)
    /\ \A u \in Sessions \ {s} : \A i \in CmIds : CmTold(y.cmH[u][i], x.cmH[u][i], i \in C)

\* The exchange of ids and the telling, of CMs.
LEMMA GiveAndSaveCms ==
  ASSUME NEW x \in Worlds, NEW s \in Sessions, NEW new \in NewIds(CmTemps, Cms), OneToOne(new),
         NEW C \in SUBSET CmIds,
         \A c \in C : \E t \in CmIds : IdFrom(new, t, c) /\ x.cmH[s][t] # None /\ x.cms[t] # None
  PROVE  LET y == CmsCommitted(GiveCmIds(x, s, new), s, C)
         IN /\ y \in Worlds
            /\ y.db = x.db /\ y.mapping = x.mapping /\ y.deleted = x.deleted
            /\ y.dsts = x.dsts /\ y.lastTemp = x.lastTemp
            /\ CmsGiven(x, y, s, new, C) /\ ItemsGiven(x, y, s)
PROOF
  <1> DEFINE g == GiveCmIds(x, s, new)
             y == CmsCommitted(g, s, C)
             F == Renamed(x.cmH[s], new)
             K == Renamed(x.cms, new)
  <1>1. DOMAIN new \subseteq CmTemps /\ new \in [DOMAIN new -> Cms]
    BY NewIdsIs
  <1>2. /\ g \in Worlds /\ ItemsGiven(x, g, s)
        /\ g.db = x.db /\ g.mapping = x.mapping /\ g.deleted = x.deleted
        /\ g.dsts = x.dsts /\ g.lastTemp = x.lastTemp /\ g.cms = K
        /\ \A u \in Sessions : \A i \in CmIds : g.cmH[u][i] = IF u = s THEN F[i] ELSE x.cmH[u][i]
    BY GiveCmIdsIs
  <1>3. DOMAIN new \subseteq CmIds /\ \A t \in DOMAIN new : new[t] \in CmIds \ DOMAIN new
    BY <1>1, IdsApart
  <1>4. /\ \A i \in DOMAIN new : F[i] = None
        /\ \A t \in DOMAIN new : F[new[t]] = x.cmH[s][t]
        /\ \A i \in CmIds \ DOMAIN new : (\A t \in DOMAIN new : new[t] # i) => F[i] = x.cmH[s][i]
    <2> DEFINE f == x.cmH[s]
    <2>1. f \in [CmIds -> CmHandles \cup {None}] /\ f = x.cmH[s]
      BY DEF Worlds
    <2>2. F = Renamed(f, new)
      OBVIOUS
    <2> HIDE DEF f, F
    <2>3. RenamedFrom(F, f, new, CmIds)
      <3>1. DOMAIN new \subseteq CmIds
        BY <1>3
      <3> QED BY <2>1, <2>2, <3>1, RenamedIs
    <2> QED BY <1>3, <2>1, <2>3 DEF RenamedFrom
  <1>5. /\ \A i \in DOMAIN new : K[i] = None
        /\ \A t \in DOMAIN new : K[new[t]] = x.cms[t]
        /\ \A i \in CmIds \ DOMAIN new : (\A t \in DOMAIN new : new[t] # i) => K[i] = x.cms[i]
    <2> DEFINE f == x.cms
    <2>1. f \in [CmIds -> CmStructs \cup {None}] /\ f = x.cms
      BY DEF Worlds
    <2>2. K = Renamed(f, new)
      OBVIOUS
    <2> HIDE DEF f, K
    <2>3. RenamedFrom(K, f, new, CmIds)
      <3>1. DOMAIN new \subseteq CmIds
        BY <1>3
      <3> QED BY <2>1, <2>2, <3>1, RenamedIs
    <2> QED BY <1>3, <2>1, <2>3 DEF RenamedFrom
  <1> HIDE DEF F, K, g
  <1>6. ASSUME NEW t \in CmIds, NEW i \in CmIds, IdFrom(new, t, i)
        PROVE  g.cmH[s][i] = x.cmH[s][t] /\ g.cms[i] = x.cms[t]
    <2>1. CASE t \in DOMAIN new
      BY <1>2, <1>4, <1>5, <1>6, <2>1 DEF IdFrom
    <2>2. CASE t \notin DOMAIN new
      BY <1>2, <1>4, <1>5, <1>6, <2>2 DEF IdFrom
    <2> QED BY <2>1, <2>2
  <1>7. \A c \in C : g.cmH[s][c] # None /\ g.cms[c] # None
    BY <1>6
  <1>8. /\ y \in Worlds
        /\ y.db = g.db /\ y.mapping = g.mapping /\ y.deleted = g.deleted
        /\ y.dsts = g.dsts /\ y.dstH = g.dstH /\ y.lastTemp = g.lastTemp
        /\ \A u \in Sessions \ {s} : \A i \in CmIds : CmTold(y.cmH[u][i], g.cmH[u][i], i \in C)
        /\ \A i \in CmIds : CmHandleSaved(y.cmH[s][i], g.cmH[s][i], i \in C)
        /\ \A i \in CmIds : CmStructSaved(y.cms[i], g.cms[i], i \in C)
    BY <1>2, <1>7, CmsCommittedIs
  <1> HIDE DEF y
  <1>9. CmsGiven(x, y, s, new, C)
    <2>1. ASSUME NEW t \in DOMAIN new PROVE y.cmH[s][t] = None /\ y.cms[t] = None
      <3>1. g.cmH[s][t] = None /\ g.cms[t] = None /\ t \in CmIds
        BY <1>2, <1>3, <1>4, <1>5
      <3> QED BY <1>8, <3>1 DEF CmHandleSaved, CmStructSaved
    <2>2. ASSUME NEW t \in CmIds, NEW i \in CmIds, IdFrom(new, t, i)
          PROVE  /\ CmHandleSaved(y.cmH[s][i], x.cmH[s][t], i \in C)
                 /\ CmStructSaved(y.cms[i], x.cms[t], i \in C)
      <3>1. g.cmH[s][i] = x.cmH[s][t] /\ g.cms[i] = x.cms[t]
        BY <1>6, <2>2
      <3>2. CmHandleSaved(y.cmH[s][i], g.cmH[s][i], i \in C) /\ CmStructSaved(y.cms[i], g.cms[i], i \in C)
        BY <1>8
      <3> QED BY <3>1, <3>2
    <2>3. ASSUME NEW u \in Sessions \ {s}, NEW i \in CmIds
          PROVE  CmTold(y.cmH[u][i], x.cmH[u][i], i \in C)
      <3>1. g.cmH[u][i] = x.cmH[u][i]
        BY <1>2
      <3>2. CmTold(y.cmH[u][i], g.cmH[u][i], i \in C)
        BY <1>8
      <3> QED BY <3>1, <3>2
    <2> QED BY <2>1, <2>2, <2>3 DEF CmsGiven
  <1>10. ItemsGiven(x, y, s)
    BY <1>2, <1>8 DEF ItemsGiven
  <1> QED BY <1>2, <1>8, <1>9, <1>10 DEF y, g

\* The fields of handles and structures of destinations that an update sets.
LEMMA DstUpdated ==
  /\ \A h \in DstHandles :
       /\ [h EXCEPT !.status = "Changed"] \in DstHandles
       /\ [h EXCEPT !.status = "Changed"].status = "Changed"
       /\ [h EXCEPT !.status = "Changed"].id = h.id /\ [h EXCEPT !.status = "Changed"].items = h.items
       /\ [h EXCEPT !.status = "Changed"].toDelete = h.toDelete
  /\ \A h \in DstHandles : \A d \in DstIds :
       /\ [h EXCEPT !.id = d] \in DstHandles /\ [h EXCEPT !.id = d].id = d
       /\ [h EXCEPT !.id = d].status = h.status /\ [h EXCEPT !.id = d].items = h.items
       /\ [h EXCEPT !.id = d].toDelete = h.toDelete
  /\ \A x \in DstStructs :
       /\ [x EXCEPT !.status = "Valid", !.blank = FALSE] \in DstStructs
       /\ [x EXCEPT !.status = "Valid", !.blank = FALSE].status = "Valid"
       /\ [x EXCEPT !.status = "Valid", !.blank = FALSE].ref = x.ref
  BY Zenon DEF DstHandles, DstStructs

\* The handle h was g when a destination D was saved: by others, or by itself.
DstTold(h, g, D) ==
    /\ h = None <=> g = None
    /\ g # None => /\ h.id = g.id /\ h.items = g.items /\ h.toDelete = g.toDelete
                   /\ h.status = IF g.id \in D THEN "Changed" ELSE g.status
DstRenumbered(h, g, new) ==
    /\ h = None <=> g = None
    /\ g # None => /\ h.id = Real(new, g.id) /\ h.items = g.items /\ h.toDelete = g.toDelete
                   /\ h.status = g.status
DstHandleSaved(h, g, new, D) ==
    /\ h = None <=> g = None
    /\ g # None => /\ h.id = Real(new, g.id) /\ h.items = g.items
                   /\ IF h.id \in D THEN h.status = "Valid" /\ h.toDelete = << >>
                      ELSE h.status = g.status /\ h.toDelete = g.toDelete
DstStructSaved(x, z, saved) ==
    /\ x = None <=> z = None
    /\ z # None => x.ref = z.ref /\ x.status = IF saved THEN "Valid" ELSE z.status

\* The ids of new destinations are given.
LEMMA GiveDstIdsIs ==
  ASSUME NEW x \in Worlds, NEW s \in Sessions, NEW new \in NewIds(DstTemps, Dests), OneToOne(new)
  PROVE  LET y == GiveDstIds(x, s, new)
         IN /\ y \in Worlds
            /\ y.db = x.db /\ y.mapping = x.mapping /\ y.deleted = x.deleted
            /\ y.cms = x.cms /\ y.cmH = x.cmH /\ y.lastTemp = x.lastTemp
            /\ RenamedFrom(y.dsts, x.dsts, new, DstIds)
            /\ \A u \in Sessions \ {s} : \A k \in Slots : y.dstH[u][k] = x.dstH[u][k]
            /\ \A k \in Slots : DstRenumbered(y.dstH[s][k], x.dstH[s][k], new)
PROOF
  <1> DEFINE y == GiveDstIds(x, s, new)
             f == x.dsts
             K == Renamed(f, new)
             Row == [k \in Slots |-> IF x.dstH[s][k] = None THEN None
                                     ELSE [x.dstH[s][k] EXCEPT !.id = Real(new, x.dstH[s][k].id)]]
  <1>1. DOMAIN new \subseteq DstTemps /\ new \in [DOMAIN new -> Dests]
    BY NewIdsIs
  <1>2. DOMAIN new \subseteq DstIds /\ f \in [DstIds -> DstStructs \cup {None}] /\ K = Renamed(f, new)
    BY <1>1, IdsApart DEF Worlds
  <1>3. y = [x EXCEPT !.dsts = K, !.dstH = [x.dstH EXCEPT ![s] = Row]]
    BY DEF GiveDstIds
  <1>f. f = x.dsts
    OBVIOUS
  <1> HIDE DEF f, K, y
  <1>4. K \in [DstIds -> DstStructs \cup {None}] /\ RenamedFrom(K, f, new, DstIds)
    BY <1>2, RenamedIs
  <1>5. ASSUME NEW k \in Slots
        PROVE  Row[k] \in DstHandles \cup {None} /\ DstRenumbered(Row[k], x.dstH[s][k], new)
    <2> DEFINE h == x.dstH[s][k]
               d == Real(new, h.id)
               g == [h EXCEPT !.id = d]
    <2>1. h \in DstHandles \cup {None} /\ Row[k] = IF h = None THEN None ELSE g
      BY DEF Worlds
    <2> HIDE DEF h, Row
    <2>2. CASE h = None
      BY <2>1, <2>2 DEF DstRenumbered, h
    <2>3. CASE h # None
      <3>1. h \in DstHandles
        BY <2>1, <2>3
      <3>2. h.id \in DstIds
        BY <3>1 DEF DstHandles
      <3>3. d \in DstIds
        BY <1>1, <3>2, IdsApart DEF Real
      <3>d. d = Real(new, h.id)
        OBVIOUS
      <3> HIDE DEF d
      <3>4. g \in DstHandles /\ g.id = d /\ g.status = h.status /\ g.items = h.items /\ g.toDelete = h.toDelete
        BY <3>1, <3>3, DstUpdated, Zenon
      <3>5. g # None /\ Row[k] = g
        BY <2>1, <2>3, <3>4, SetFields
      <3> HIDE DEF g
      <3> QED BY <2>3, <3>4, <3>5, <3>d DEF DstRenumbered, h
    <2> QED BY <2>2, <2>3
  <1>6. Row \in [Slots -> DstHandles \cup {None}]
    BY <1>5
  <1> HIDE DEF Row
  <1>7. y \in Worlds
    BY <1>3, <1>4, <1>6 DEF Worlds
  <1>8. /\ y.db = x.db /\ y.mapping = x.mapping /\ y.deleted = x.deleted
        /\ y.cms = x.cms /\ y.cmH = x.cmH /\ y.lastTemp = x.lastTemp /\ y.dsts = K
    BY <1>3 DEF Worlds
  <1>9. \A u \in Sessions : \A k \in Slots : y.dstH[u][k] = IF u = s THEN Row[k] ELSE x.dstH[u][k]
    BY <1>3 DEF Worlds
  <1>10. \A k \in Slots : DstRenumbered(y.dstH[s][k], x.dstH[s][k], new)
    BY <1>5, <1>9
  <1>11. RenamedFrom(y.dsts, x.dsts, new, DstIds)
    BY <1>4, <1>8, <1>f
  <1> QED BY <1>7, <1>8, <1>9, <1>10, <1>11 DEF y

\* Saved destinations, and handles to them.
LEMMA DstsCommittedIs ==
  ASSUME NEW x \in Worlds, NEW s \in Sessions, NEW D \in SUBSET DstIds, \A d \in D : x.dsts[d] # None
  PROVE  LET y == DstsCommitted(x, s, D)
         IN /\ y \in Worlds
            /\ y.db = x.db /\ y.mapping = x.mapping /\ y.deleted = x.deleted
            /\ y.cms = x.cms /\ y.cmH = x.cmH /\ y.lastTemp = x.lastTemp
            /\ \A u \in Sessions \ {s} : \A k \in Slots : DstTold(y.dstH[u][k], x.dstH[u][k], D)
            /\ \A k \in Slots : DstHandleSaved(y.dstH[s][k], x.dstH[s][k], NoIds, D)
            /\ \A d \in DstIds : DstStructSaved(y.dsts[d], x.dsts[d], d \in D)
PROOF
  <1> DEFINE F == [u \in Sessions |-> [k \in Slots |->
                    IF x.dstH[u][k] # None /\ x.dstH[u][k].id \in D
                    THEN [x.dstH[u][k] EXCEPT !.status = "Changed"] ELSE x.dstH[u][k]]]
             z == [x EXCEPT !.dstH = F]
             Row == [k \in Slots |-> IF z.dstH[s][k] # None /\ z.dstH[s][k].id \in D
                                     THEN [z.dstH[s][k] EXCEPT !.status = "Valid", !.toDelete = << >>]
                                     ELSE z.dstH[s][k]]
             K == [d \in DstIds |-> IF d \in D THEN [z.dsts[d] EXCEPT !.status = "Valid", !.blank = FALSE]
                                    ELSE z.dsts[d]]
             y == DstsCommitted(x, s, D)
  <1>1. ASSUME NEW u \in Sessions, NEW k \in Slots
        PROVE  F[u][k] \in DstHandles \cup {None} /\ DstTold(F[u][k], x.dstH[u][k], D)
    <2> DEFINE h == x.dstH[u][k]
    <2>1. h \in DstHandles \cup {None}
      BY DEF Worlds
    <2>2. F[u][k] = IF h # None /\ h.id \in D THEN [h EXCEPT !.status = "Changed"] ELSE h
      OBVIOUS
    <2> HIDE DEF h, F
    <2>3. CASE h # None /\ h.id \in D
      <3> DEFINE g == [h EXCEPT !.status = "Changed"]
      <3>1. F[u][k] = g /\ h \in DstHandles
        BY <2>1, <2>2, <2>3
      <3>2. g \in DstHandles /\ g.status = "Changed" /\ g.id = h.id /\ g.items = h.items
            /\ g.toDelete = h.toDelete
        BY <3>1, DstUpdated, Zenon
      <3>3. g # None
        BY <3>2, SetFields
      <3> HIDE DEF g
      <3> QED BY <2>3, <3>1, <3>2, <3>3 DEF DstTold, h
    <2>4. CASE ~(h # None /\ h.id \in D)
      <3>1. F[u][k] = h
        BY <2>2, <2>4
      <3> QED BY <2>1, <2>4, <3>1 DEF DstTold, h
    <2> QED BY <2>3, <2>4
  <1>2. F \in [Sessions -> [Slots -> DstHandles \cup {None}]]
    BY <1>1
  <1>3. OutdateDsts(x, D) = z
    BY DEF OutdateDsts
  <1> HIDE DEF F
  <1>4. z \in Worlds /\ z.dstH = F /\ z.dsts = x.dsts
    BY <1>2 DEF Worlds
  <1>5. /\ z.db = x.db /\ z.mapping = x.mapping /\ z.deleted = x.deleted
        /\ z.cms = x.cms /\ z.cmH = x.cmH /\ z.lastTemp = x.lastTemp
    BY DEF Worlds
  <1>6. y = [z EXCEPT !.dstH = [z.dstH EXCEPT ![s] = Row], !.dsts = K]
    BY <1>3 DEF DstsCommitted, DstsSaved
  <1> HIDE DEF y, z
  <1>n. DOMAIN NoIds = {} /\ << >> \in Seq(CmIds)
    BY DEF NoIds
  <1>7. ASSUME NEW k \in Slots
        PROVE  Row[k] \in DstHandles \cup {None} /\ DstHandleSaved(Row[k], x.dstH[s][k], NoIds, D)
    <2> DEFINE h == F[s][k]
    <2>1. h \in DstHandles \cup {None} /\ DstTold(h, x.dstH[s][k], D)
      BY <1>1
    <2>2. Row[k] = IF h # None /\ h.id \in D THEN [h EXCEPT !.status = "Valid", !.toDelete = << >>] ELSE h
      BY <1>4
    <2> HIDE DEF h, Row
    <2>3. h # None => h.id = Real(NoIds, x.dstH[s][k].id) /\ h.id = x.dstH[s][k].id
      BY <1>n, <2>1 DEF DstTold, Real
    <2>4. CASE h # None /\ h.id \in D
      <3> DEFINE e == << >>
                 g == [h EXCEPT !.status = "Valid", !.toDelete = e]
      <3>1. Row[k] = g /\ h \in DstHandles
        BY <2>1, <2>2, <2>4
      <3>e. e \in Seq(CmIds) /\ e = << >>
        OBVIOUS
      <3> HIDE DEF e
      <3>2. g \in DstHandles /\ g.status = "Valid" /\ g.id = h.id /\ g.items = h.items
            /\ g.toDelete = << >>
        BY <3>1, <3>e DEF DstHandles
      <3>3. g # None
        BY <3>2, SetFields
      <3> HIDE DEF g
      <3> QED BY <2>1, <2>3, <2>4, <3>1, <3>2, <3>3 DEF DstHandleSaved, DstTold
    <2>5. CASE ~(h # None /\ h.id \in D)
      <3>1. Row[k] = h
        BY <2>2, <2>5
      <3> QED BY <2>1, <2>3, <2>5, <3>1 DEF DstHandleSaved, DstTold
    <2> QED BY <2>4, <2>5
  <1>8. ASSUME NEW d \in DstIds
        PROVE  K[d] \in DstStructs \cup {None} /\ DstStructSaved(K[d], x.dsts[d], d \in D)
    <2> DEFINE h == x.dsts[d]
    <2>1. h \in DstStructs \cup {None}
      BY DEF Worlds
    <2>2. K[d] = IF d \in D THEN [h EXCEPT !.status = "Valid", !.blank = FALSE] ELSE h
      BY <1>4
    <2>h. h = x.dsts[d]
      OBVIOUS
    <2> HIDE DEF h, K
    <2>3. CASE d \in D
      <3> DEFINE g == [h EXCEPT !.status = "Valid", !.blank = FALSE]
      <3>1. h \in DstStructs /\ K[d] = g
        BY <2>1, <2>2, <2>3, <2>h
      <3>2. g \in DstStructs /\ g.status = "Valid" /\ g.ref = h.ref
        BY <3>1, DstUpdated, Zenon
      <3>3. g # None /\ h # None
        BY <3>1, <3>2, SetFields
      <3> HIDE DEF g
      <3> QED BY <2>3, <2>h, <3>1, <3>2, <3>3 DEF DstStructSaved
    <2>4. CASE d \notin D
      <3>1. K[d] = h
        BY <2>2, <2>4, SMTT(60)
      <3> QED BY <2>1, <2>4, <2>h, <3>1 DEF DstStructSaved
    <2> QED BY <2>3, <2>4
  <1>9. Row \in [Slots -> DstHandles \cup {None}] /\ K \in [DstIds -> DstStructs \cup {None}]
    BY <1>7, <1>8, Zenon
  <1> HIDE DEF Row, K
  <1>10. y \in Worlds
    BY <1>4, <1>6, <1>9 DEF Worlds
  <1>11. /\ y.db = x.db /\ y.mapping = x.mapping /\ y.deleted = x.deleted
         /\ y.cms = x.cms /\ y.cmH = x.cmH /\ y.lastTemp = x.lastTemp /\ y.dsts = K
    BY <1>4, <1>5, <1>6 DEF Worlds
  <1>12. \A u \in Sessions : \A k \in Slots : y.dstH[u][k] = IF u = s THEN Row[k] ELSE F[u][k]
    BY <1>4, <1>6 DEF Worlds
  <1>13. \A u \in Sessions \ {s} : \A k \in Slots : DstTold(y.dstH[u][k], x.dstH[u][k], D)
    BY <1>1, <1>12
  <1>14. \A k \in Slots : DstHandleSaved(y.dstH[s][k], x.dstH[s][k], NoIds, D)
    BY <1>7, <1>12
  <1>15. \A d \in DstIds : DstStructSaved(y.dsts[d], x.dsts[d], d \in D)
    BY <1>8, <1>11
  <1> QED BY <1>10, <1>11, <1>13, <1>14, <1>15 DEF y

\* Without CMs to delete nothing but the mapping is touched after the commit.
LEMMA NothingAfter ==
  ASSUME NEW x \in Worlds
  PROVE  LET y == AfterDelete(x, {})
         IN /\ y \in Worlds /\ y.db = x.db /\ y.deleted = x.deleted /\ y.cms = x.cms /\ y.cmH = x.cmH
            /\ y.dsts = x.dsts /\ y.dstH = x.dstH /\ y.lastTemp = x.lastTemp
PROOF
  <1> DEFINE E == {}
             a == UnmapCms(x, E)
             b == HideCms(a, E)
             c == OutdateCms(b, E)
             y == MarkDeleted(a, E)
  <1>e. E = {}
    OBVIOUS
  <1> HIDE DEF E
  <1>1. ASSUME NEW z \in Worlds
        PROVE  /\ UnmapCms(z, E) \in Worlds
               /\ UnmapCms(z, E) = [z EXCEPT !.mapping = UnmapCms(z, E).mapping]
    <2> DEFINE n == Unlist(z, E)
               m == [n.mapping EXCEPT !.cm = z.mapping.cm \ E]
    <2>1. n \in Worlds /\ n = [z EXCEPT !.mapping = n.mapping]
      BY UnlistIs
    <2>2. UnmapCms(z, E) = [n EXCEPT !.mapping = m]
      BY DEF UnmapCms
    <2> HIDE DEF n
    <2>3. m \in [cm : SUBSET Cms, dest : [Dests -> Items \cup {None}]]
      BY <2>1 DEF Worlds
    <2> HIDE DEF m
    <2>4. UnmapCms(z, E) \in Worlds /\ UnmapCms(z, E).mapping = m
      BY <2>1, <2>2, <2>3 DEF Worlds
    <2>5. UnmapCms(z, E) = [z EXCEPT !.mapping = m]
      BY <2>1, <2>2, <2>3 DEF Worlds
    <2> QED BY <2>4, <2>5
  <1>2. a \in Worlds /\ a = [x EXCEPT !.mapping = a.mapping]
    BY <1>1
  <1>3. UnmapCms(a, E) \in Worlds /\ UnmapCms(a, E) = [a EXCEPT !.mapping = UnmapCms(a, E).mapping]
    BY <1>1, <1>2
  <1>4. b = [UnmapCms(a, E) EXCEPT !.deleted = [UnmapCms(a, E).deleted EXCEPT !.cm = a.deleted.cm \cup E]]
    BY DEF HideCms
  <1>5. /\ a.db = x.db /\ a.deleted = x.deleted /\ a.cms = x.cms /\ a.cmH = x.cmH
        /\ a.dsts = x.dsts /\ a.dstH = x.dstH /\ a.lastTemp = x.lastTemp
    BY <1>2 DEF Worlds
  <1> DEFINE u == UnmapCms(a, E)
  <1> HIDE DEF a, b, u
  <1>6. /\ u.db = x.db /\ u.deleted = x.deleted /\ u.cms = x.cms /\ u.cmH = x.cmH
        /\ u.dsts = x.dsts /\ u.dstH = x.dstH /\ u.lastTemp = x.lastTemp /\ u \in Worlds
    BY <1>3, <1>5 DEF Worlds, u
  <1>7. b = [u EXCEPT !.deleted = [u.deleted EXCEPT !.cm = a.deleted.cm \cup E]]
    BY <1>4 DEF u
  <1>8. [u.deleted EXCEPT !.cm = a.deleted.cm \cup E] = x.deleted
    <2>1. x.deleted \in [cm : SUBSET Cms, dest : SUBSET Dests] /\ u.deleted = x.deleted
          /\ a.deleted.cm \cup E = x.deleted.cm
      BY <1>e, <1>5, <1>6 DEF Worlds
    <2> QED BY <2>1
  <1>9. b \in Worlds /\ b.db = x.db /\ b.deleted = x.deleted /\ b.cms = x.cms /\ b.cmH = x.cmH
        /\ b.dsts = x.dsts /\ b.dstH = x.dstH /\ b.lastTemp = x.lastTemp
    BY <1>6, <1>7, <1>8 DEF Worlds
  <1> DEFINE G == [t \in Sessions |-> [i \in CmIds |->
                     IF i \in E /\ b.cmH[t][i] # None THEN [b.cmH[t][i] EXCEPT !.status = "Changed"]
                     ELSE b.cmH[t][i]]]
             K == [i \in CmIds |-> IF i \in E THEN [a.cms[i] EXCEPT !.status = "ToBeDeleted"] ELSE a.cms[i]]
  <1>10. c = [b EXCEPT !.cmH = G]
    BY DEF OutdateCms
  <1>11. G = x.cmH
    <2>1. \A t \in Sessions : \A i \in CmIds : G[t][i] = x.cmH[t][i]
      BY <1>e, <1>9
    <2>2. x.cmH \in [Sessions -> [CmIds -> CmHandles \cup {None}]]
      BY DEF Worlds
    <2>3. \A t \in Sessions : G[t] = x.cmH[t]
      BY <2>1, <2>2
    <2> QED BY <2>2, <2>3
  <1>12. K = x.cms
    <2>1. \A i \in CmIds : K[i] = x.cms[i]
      BY <1>e, <1>5
    <2>2. x.cms \in [CmIds -> CmStructs \cup {None}]
      BY DEF Worlds
    <2> QED BY <2>1, <2>2
  <1>13. y = [c EXCEPT !.cms = K]
    BY DEF MarkDeleted, b
  <1>14. AfterDelete(x, {}) = y
    <2>1. { d \in {} : x.cms[d] # None } = E /\ {} \ E = E
      BY <1>e
    <2> QED BY <1>e, <2>1 DEF AfterDelete, a
  <1> HIDE DEF G, K, c, y
  <1>15. c \in Worlds /\ c.db = x.db /\ c.deleted = x.deleted /\ c.cms = x.cms /\ c.cmH = x.cmH
         /\ c.dsts = x.dsts /\ c.dstH = x.dstH /\ c.lastTemp = x.lastTemp
    <2>1. x.cmH \in [Sessions -> [CmIds -> CmHandles \cup {None}]]
      BY DEF Worlds
    <2> QED BY <1>9, <1>10, <1>11, <2>1 DEF Worlds
  <1>16. y \in Worlds /\ y.db = x.db /\ y.deleted = x.deleted /\ y.cms = x.cms /\ y.cmH = x.cmH
         /\ y.dsts = x.dsts /\ y.dstH = x.dstH /\ y.lastTemp = x.lastTemp
    <2>1. x.cms \in [CmIds -> CmStructs \cup {None}]
      BY DEF Worlds
    <2> QED BY <1>12, <1>13, <1>15, <2>1 DEF Worlds
  <1> QED BY <1>14, <1>16

\* What a mapping read from CommsDat is.
LEMMA RefreshMappingIs ==
  ASSUME NEW x \in Worlds
  PROVE  LET y == RefreshMapping(x)
         IN /\ y \in Worlds /\ MapOK(y) /\ y.db = x.db /\ y.deleted = x.deleted /\ y.cms = x.cms
            /\ y.cmH = x.cmH /\ y.dsts = x.dsts /\ y.dstH = x.dstH /\ y.lastTemp = x.lastTemp
PROOF
  <1> DEFINE m == ReadMapping(x.db, x.deleted)
             y == RefreshMapping(x)
             cmSet == ReadConnMethods(x.db, x.deleted)
             dstSet == { d \in Dests : x.db.dest[d] # None /\ d \notin x.deleted.dest }
  <1>1. ASSUME NEW d \in dstSet PROVE Only(x.db.dest[d], (cmSet \cup dstSet) \ {d}) \in Items
    <2>1. x.db.dest[d] \in Seq(Cms \cup Dests)
      BY DEF Worlds, Data, Items
    <2> DEFINE q == x.db.dest[d]  S == (cmSet \cup dstSet) \ {d}
    <2> HIDE DEF q, S
    <2>2. Only(q, S) \in Seq(Cms \cup Dests)
      BY <2>1, OnlyIn DEF q
    <2> QED BY <2>2 DEF q, S, Items
  <1>2. cmSet \in SUBSET Cms
    BY DEF ReadConnMethods
  <1>3. ReadDestinations(x.db, x.deleted, cmSet) \in [Dests -> Items \cup {None}]
    BY <1>1 DEF ReadDestinations
  <1>4. m \in [cm : SUBSET Cms, dest : [Dests -> Items \cup {None}]]
    BY <1>2, <1>3 DEF ReadMapping
  <1>5. y = [x EXCEPT !.mapping = m]
    BY DEF RefreshMapping
  <1>m. m = ReadMapping(x.db, x.deleted)
    OBVIOUS
  <1> HIDE DEF m, y
  <1>6. /\ y \in Worlds /\ y.mapping = m /\ y.db = x.db /\ y.deleted = x.deleted /\ y.cms = x.cms
        /\ y.cmH = x.cmH /\ y.dsts = x.dsts /\ y.dstH = x.dstH /\ y.lastTemp = x.lastTemp
    BY <1>4, <1>5 DEF Worlds
  <1>7. MapOK(y)
    BY <1>6, <1>m DEF MapOK
  <1> QED BY <1>6, <1>7 DEF y

\* y is x with the destinations D of s saved, of them new ones under the ids of new.
DstsGiven(x, y, s, new, D) ==
    /\ \A t \in DOMAIN new : y.dsts[t] = None
    /\ \A t \in DstIds : \A e \in DstIds : IdFrom(new, t, e) =>
         DstStructSaved(y.dsts[e], x.dsts[t], e \in D)
    /\ \A k \in Slots : DstHandleSaved(y.dstH[s][k], x.dstH[s][k], new, D)
    /\ \A u \in Sessions \ {s} : \A k \in Slots : DstTold(y.dstH[u][k], x.dstH[u][k], D)

\* The exchange of ids and the telling, of destinations.
LEMMA GiveAndSaveDsts ==
  ASSUME NEW x \in Worlds, NEW s \in Sessions, NEW new \in NewIds(DstTemps, Dests), OneToOne(new),
         NEW D \in SUBSET DstIds, \A d \in D : \E t \in DstIds : IdFrom(new, t, d) /\ x.dsts[t] # None
  PROVE  LET y == DstsCommitted(GiveDstIds(x, s, new), s, D)
         IN /\ y \in Worlds
            /\ y.db = x.db /\ y.mapping = x.mapping /\ y.deleted = x.deleted
            /\ y.cms = x.cms /\ y.cmH = x.cmH /\ y.lastTemp = x.lastTemp
            /\ DstsGiven(x, y, s, new, D)
PROOF
  <1> DEFINE g == GiveDstIds(x, s, new)
             y == DstsCommitted(g, s, D)
  <1>1. DOMAIN new \subseteq DstTemps /\ new \in [DOMAIN new -> Dests]
    BY NewIdsIs
  <1>2. /\ g \in Worlds
        /\ g.db = x.db /\ g.mapping = x.mapping /\ g.deleted = x.deleted
        /\ g.cms = x.cms /\ g.cmH = x.cmH /\ g.lastTemp = x.lastTemp
        /\ RenamedFrom(g.dsts, x.dsts, new, DstIds)
        /\ \A u \in Sessions \ {s} : \A k \in Slots : g.dstH[u][k] = x.dstH[u][k]
        /\ \A k \in Slots : DstRenumbered(g.dstH[s][k], x.dstH[s][k], new)
    BY GiveDstIdsIs
  <1>3. DOMAIN new \subseteq DstIds /\ \A t \in DOMAIN new : new[t] \in DstIds \ DOMAIN new
    BY <1>1, IdsApart
  <1> HIDE DEF g
  <1>4. ASSUME NEW t \in DstIds, NEW e \in DstIds, IdFrom(new, t, e) PROVE g.dsts[e] = x.dsts[t]
    <2>1. CASE t \in DOMAIN new
      BY <1>2, <1>3, <1>4, <2>1 DEF IdFrom, RenamedFrom
    <2>2. CASE t \notin DOMAIN new
      BY <1>2, <1>4, <2>2 DEF IdFrom, RenamedFrom
    <2> QED BY <2>1, <2>2
  <1>5. \A d \in D : g.dsts[d] # None
    BY <1>4
  <1>6. /\ y \in Worlds
        /\ y.db = g.db /\ y.mapping = g.mapping /\ y.deleted = g.deleted
        /\ y.cms = g.cms /\ y.cmH = g.cmH /\ y.lastTemp = g.lastTemp
        /\ \A u \in Sessions \ {s} : \A k \in Slots : DstTold(y.dstH[u][k], g.dstH[u][k], D)
        /\ \A k \in Slots : DstHandleSaved(y.dstH[s][k], g.dstH[s][k], NoIds, D)
        /\ \A d \in DstIds : DstStructSaved(y.dsts[d], g.dsts[d], d \in D)
    BY <1>2, <1>5, DstsCommittedIs
  <1> HIDE DEF y
  <1>n. \A d : Real(NoIds, d) = d
    BY DEF NoIds, Real
  <1>7. ASSUME NEW t \in DOMAIN new PROVE y.dsts[t] = None
    <2>1. g.dsts[t] = None /\ t \in DstIds
      BY <1>2, <1>3 DEF RenamedFrom
    <2> QED BY <1>6, <2>1 DEF DstStructSaved
  <1>8. ASSUME NEW t \in DstIds, NEW e \in DstIds, IdFrom(new, t, e)
        PROVE  DstStructSaved(y.dsts[e], x.dsts[t], e \in D)
    BY <1>4, <1>6, <1>8
  <1>9. ASSUME NEW k \in Slots PROVE DstHandleSaved(y.dstH[s][k], x.dstH[s][k], new, D)
    <2>1. DstHandleSaved(y.dstH[s][k], g.dstH[s][k], NoIds, D) /\ DstRenumbered(g.dstH[s][k], x.dstH[s][k], new)
      BY <1>2, <1>6
    <2> QED BY <1>n, <2>1 DEF DstHandleSaved, DstRenumbered
  <1>10. ASSUME NEW u \in Sessions \ {s}, NEW k \in Slots
         PROVE  DstTold(y.dstH[u][k], x.dstH[u][k], D)
    <2>1. DstTold(y.dstH[u][k], g.dstH[u][k], D) /\ g.dstH[u][k] = x.dstH[u][k]
      BY <1>2, <1>6
    <2> QED BY <2>1
  <1>11. DstsGiven(x, y, s, new, D)
    BY <1>7, <1>8, <1>9, <1>10 DEF DstsGiven
  <1> QED BY <1>2, <1>6, <1>11 DEF y, g

\* v is what a save p of s commits.
SavedCmIds(p)  == { RealId(p, i) : i \in p.savedCm }
SavedDstIds(p) == { Real(p.newDst, d) : d \in p.savedDst }
Written(p, v, s) ==
    /\ v \in Worlds /\ MapOK(v)
    /\ v.db = p.w.db /\ v.deleted = p.w.deleted /\ v.lastTemp = p.w.lastTemp
    /\ CmsGiven(p.w, v, s, p.newCm, SavedCmIds(p))
    /\ \E x : ItemsGiven(p.w, x, s) /\ x.dsts = p.w.dsts
              /\ DstsGiven(x, v, s, p.newDst, SavedDstIds(p))

\* The ids of what was saved.
LEMMA SavedIds ==
  ASSUME NEW w, Core(w), NEW s \in Sessions, NEW p, Saving(w, p, s)
  PROVE  /\ p.newCm \in NewIds(CmTemps, Cms) /\ OneToOne(p.newCm)
         /\ p.newDst \in NewIds(DstTemps, Dests) /\ OneToOne(p.newDst)
         /\ SavedCmIds(p) \in SUBSET CmIds /\ SavedDstIds(p) \in SUBSET DstIds
         /\ SavedCmIds(p) \subseteq Cms /\ SavedDstIds(p) \subseteq Dests
         /\ \A i \in p.savedCm : IdFrom(p.newCm, i, RealId(p, i)) /\ i \in CmIds /\ w.cmH[s][i] # None
         /\ \A d \in p.savedDst : IdFrom(p.newDst, d, Real(p.newDst, d)) /\ d \in DstIds /\ w.dsts[d] # None
         /\ \A i \in Cms : w.db.cm[i] # None => \A t \in DOMAIN p.newCm : p.newCm[t] # i
         /\ \A d \in Dests : w.db.dest[d] # None => \A t \in DOMAIN p.newDst : p.newDst[t] # d
PROOF
  <1>1. /\ p \in Saves /\ p.w \in Worlds /\ w \in Worlds
        /\ p.newCm \in [DOMAIN p.newCm -> Cms] /\ DOMAIN p.newCm \subseteq CmTemps
        /\ p.newDst \in [DOMAIN p.newDst -> Dests] /\ DOMAIN p.newDst \subseteq DstTemps
    BY SavingFacts
  <1>2. SavingCms(w, p, s) /\ SavingDsts(w, p, s)
    BY DEF Saving
  <1>3. /\ p.newCm \in NewIds(CmTemps, Cms) /\ p.newDst \in NewIds(DstTemps, Dests)
        /\ p.savedCm \subseteq CmIds /\ p.savedDst \subseteq DstIds
    BY <1>1 DEF Saves
  <1>4. GivenFresh(p.newCm, w.db.cm) /\ GivenFresh(p.newDst, w.db.dest)
        /\ DOMAIN p.newCm = p.savedCm \cap CmTemps /\ DOMAIN p.newDst = p.savedDst \cap DstTemps
    BY <1>2 DEF SavingCms, SavingDsts
  <1>5. OneToOne(p.newCm) /\ OneToOne(p.newDst)
    BY <1>4 DEF GivenFresh, OneToOne
  <1>6. /\ \A i \in Cms : w.db.cm[i] # None => \A t \in DOMAIN p.newCm : p.newCm[t] # i
        /\ \A d \in Dests : w.db.dest[d] # None => \A t \in DOMAIN p.newDst : p.newDst[t] # d
    BY <1>4 DEF GivenFresh
  <1>7. ASSUME NEW i \in p.savedCm
        PROVE  IdFrom(p.newCm, i, RealId(p, i)) /\ RealId(p, i) \in Cms /\ w.cmH[s][i] # None
    <2>1. i \in CmIds /\ w.cmH[s][i] # None
      BY <1>2, <1>3 DEF SavingCms
    <2>2. CASE i \in DOMAIN p.newCm
      BY <1>1, <2>1, <2>2 DEF RealId, Real, IdFrom
    <2>3. CASE i \notin DOMAIN p.newCm
      <3>1. i \in Cms
        BY <1>4, <2>1, <2>3, IdsApart
      <3>2. w.db.cm[i] # None
        BY <2>1, <3>1, HeldCm
      <3> QED BY <1>6, <2>1, <2>3, <3>1, <3>2 DEF RealId, Real, IdFrom
    <2> QED BY <2>2, <2>3
  <1>8. ASSUME NEW d \in p.savedDst
        PROVE  IdFrom(p.newDst, d, Real(p.newDst, d)) /\ Real(p.newDst, d) \in Dests /\ w.dsts[d] # None
    <2>1. d \in DstIds
      BY <1>3
    <2>2. PICK k \in Slots : w.dstH[s][k] # None /\ w.dstH[s][k].id = d
      BY <1>2 DEF SavingDsts
    <2>3. w.dsts[d] # None /\ (d \in Dests => w.db.dest[d] # None)
      BY <2>2, HeldDst
    <2>4. CASE d \in DOMAIN p.newDst
      BY <1>1, <2>3, <2>4 DEF Real, IdFrom
    <2>5. CASE d \notin DOMAIN p.newDst
      <3>1. d \in Dests
        BY <1>4, <2>1, <2>5, IdsApart
      <3> QED BY <1>6, <2>3, <2>5, <3>1 DEF Real, IdFrom
    <2> QED BY <2>4, <2>5
  <1>9. SavedCmIds(p) \subseteq Cms /\ SavedDstIds(p) \subseteq Dests
    BY <1>7, <1>8 DEF SavedCmIds, SavedDstIds
  <1>10. SavedCmIds(p) \in SUBSET CmIds /\ SavedDstIds(p) \in SUBSET DstIds
    BY <1>9, IdsApart
  <1> QED BY <1>3, <1>5, <1>6, <1>7, <1>8, <1>9, <1>10

\* The commit of UpdateDestinationL.
LEMMA CommittedIs ==
  ASSUME NEW w, Core(w), NEW s \in Sessions, NEW p, Saving(w, p, s)
  PROVE  Written(p, Committed(p, s), s)
PROOF
  <1> DEFINE x == p.w
             C == SavedCmIds(p)
             D == SavedDstIds(p)
             a == CmsCommitted(GiveCmIds(x, s, p.newCm), s, C)
             b == AfterDelete(a, {})
             c == DstsCommitted(GiveDstIds(b, s, p.newDst), s, D)
             v == RefreshMapping(c)
  <1>1. /\ p.newCm \in NewIds(CmTemps, Cms) /\ OneToOne(p.newCm)
        /\ p.newDst \in NewIds(DstTemps, Dests) /\ OneToOne(p.newDst)
        /\ C \in SUBSET CmIds /\ D \in SUBSET DstIds
        /\ \A i \in p.savedCm : IdFrom(p.newCm, i, RealId(p, i)) /\ i \in CmIds /\ w.cmH[s][i] # None
        /\ \A d \in p.savedDst : IdFrom(p.newDst, d, Real(p.newDst, d)) /\ d \in DstIds /\ w.dsts[d] # None
    BY SavedIds
  <1>2. x \in Worlds /\ SavingCms(w, p, s) /\ SavingDsts(w, p, s) /\ p.gone = {}
    BY SavingFacts DEF Saving
  <1>3. x.cmH = w.cmH /\ \A i \in CmIds : x.cms[i] = None <=> w.cms[i] = None
    BY <1>2 DEF SavingCms
  <1>4. \A d \in DstIds : x.dsts[d] = None <=> w.dsts[d] = None
    BY <1>2 DEF SavingDsts
  <1>5. Committed(p, s) = v
    BY <1>2 DEF Committed, SavedCmIds, SavedDstIds
  <1>6. \A i \in C : \E t \in CmIds : IdFrom(p.newCm, t, i) /\ x.cmH[s][t] # None /\ x.cms[t] # None
    <2>1. SUFFICES ASSUME NEW t \in p.savedCm
                   PROVE  t \in CmIds /\ IdFrom(p.newCm, t, RealId(p, t)) /\ x.cmH[s][t] # None /\ x.cms[t] # None
      BY DEF SavedCmIds
    <2>2. w.cms[t] # None
      BY <1>1, HeldCm
    <2> QED BY <1>1, <1>3, <2>2
  <1>7. \A d \in D : \E t \in DstIds : IdFrom(p.newDst, t, d) /\ x.dsts[t] # None
    BY <1>1, <1>4 DEF SavedDstIds
  <1> HIDE DEF x, C, D
  <1>8. /\ a \in Worlds
        /\ a.db = x.db /\ a.mapping = x.mapping /\ a.deleted = x.deleted
        /\ a.dsts = x.dsts /\ a.lastTemp = x.lastTemp
        /\ CmsGiven(x, a, s, p.newCm, C) /\ ItemsGiven(x, a, s)
    BY <1>1, <1>2, <1>6, GiveAndSaveCms
  <1> HIDE DEF a
  <1>9. b \in Worlds /\ b.db = a.db /\ b.deleted = a.deleted /\ b.cms = a.cms /\ b.cmH = a.cmH
        /\ b.dsts = a.dsts /\ b.dstH = a.dstH /\ b.lastTemp = a.lastTemp
    BY <1>8, NothingAfter
  <1> HIDE DEF b
  <1>10. \A d \in D : \E t \in DstIds : IdFrom(p.newDst, t, d) /\ b.dsts[t] # None
    BY <1>7, <1>8, <1>9
  <1>11. /\ c \in Worlds
         /\ c.db = b.db /\ c.mapping = b.mapping /\ c.deleted = b.deleted
         /\ c.cms = b.cms /\ c.cmH = b.cmH /\ c.lastTemp = b.lastTemp
         /\ DstsGiven(b, c, s, p.newDst, D)
    BY <1>1, <1>9, <1>10, GiveAndSaveDsts
  <1> HIDE DEF c
  <1>12. v \in Worlds /\ MapOK(v) /\ v.db = c.db /\ v.deleted = c.deleted /\ v.cms = c.cms
         /\ v.cmH = c.cmH /\ v.dsts = c.dsts /\ v.dstH = c.dstH /\ v.lastTemp = c.lastTemp
    BY <1>11, RefreshMappingIs
  <1> HIDE DEF v
  <1>13. CmsGiven(x, v, s, p.newCm, C)
    BY <1>8, <1>9, <1>11, <1>12 DEF CmsGiven
  <1>14. ItemsGiven(x, b, s) /\ b.dsts = x.dsts
    BY <1>8, <1>9 DEF ItemsGiven
  <1>15. DstsGiven(b, v, s, p.newDst, D)
    BY <1>11, <1>12 DEF DstsGiven
  <1>16. v.db = x.db /\ v.deleted = x.deleted /\ v.lastTemp = x.lastTemp
    BY <1>8, <1>9, <1>11, <1>12
  <1>17. Written(p, v, s)
    BY <1>12, <1>13, <1>14, <1>15, <1>16 DEF Written, x, C, D
  <1> QED BY <1>5, <1>17

\* The commit of UpdateConnMethodL.
LEMMA CmCommittedIs ==
  ASSUME NEW w, Core(w), NEW s \in Sessions, NEW i \in CmIds, w.cmH[s][i] # None, RoomIn(w, s)
  PROVE  LET p == SaveCm(Begin(w), s, i)
         IN Saving(w, p, s) /\ Written(p, UpdateCm(w, s, i), s)
PROOF
  <1> DEFINE o == Begin(w)
             p == SaveCm(o, s, i)
             x == p.w
             C == SavedCmIds(p)
             y == RefreshMapping(x)
             v == CmsCommitted(GiveCmIds(y, s, p.newCm), s, C)
  <1>1. Saving(w, o, s) /\ o.savedCm = {} /\ o.savedDst = {} /\ o.newDst = NoIds
    BY BeginSaves DEF Begin
  <1>d. UpdateCm(w, s, i) = CmCommitted(p, s, i)
    BY DEF UpdateCm
  <1> HIDE DEF o
  <1>2. Saving(w, p, s)
    BY <1>1, SaveCmSaves
  <1>3. p.savedCm = {i} /\ p.savedDst = {} /\ p.newDst = NoIds /\ p.ok = TRUE
    <2>1. PICK real \in Cms : CmWritten(w, o, p, s, i, real)
      BY <1>1, SaveCmIs
    <2> HIDE DEF p
    <2> QED BY <1>1, <2>1 DEF CmWritten
  <1>4. C = {RealId(p, i)} /\ SavedDstIds(p) = {}
    BY <1>3 DEF SavedCmIds, SavedDstIds
  <1>5. CmCommitted(p, s, i) = v
    BY <1>3, <1>4 DEF CmCommitted
  <1> HIDE DEF p
  <1>6. /\ p.newCm \in NewIds(CmTemps, Cms) /\ OneToOne(p.newCm) /\ C \in SUBSET CmIds
        /\ \A j \in p.savedCm : IdFrom(p.newCm, j, RealId(p, j)) /\ j \in CmIds /\ w.cmH[s][j] # None
    BY <1>2, SavedIds
  <1>7. x \in Worlds /\ SavingCms(w, p, s)
    BY <1>2, SavingFacts DEF Saving
  <1>8. x.cmH = w.cmH /\ \A j \in CmIds : x.cms[j] = None <=> w.cms[j] = None
    BY <1>7 DEF SavingCms
  <1> HIDE DEF x
  <1>9. y \in Worlds /\ MapOK(y) /\ y.db = x.db /\ y.deleted = x.deleted /\ y.cms = x.cms
        /\ y.cmH = x.cmH /\ y.dsts = x.dsts /\ y.dstH = x.dstH /\ y.lastTemp = x.lastTemp
    BY <1>7, RefreshMappingIs
  <1> HIDE DEF y
  <1>10. \A c \in C : \E t \in CmIds : IdFrom(p.newCm, t, c) /\ y.cmH[s][t] # None /\ y.cms[t] # None
    <2>1. SUFFICES ASSUME NEW t \in p.savedCm
                   PROVE  t \in CmIds /\ IdFrom(p.newCm, t, RealId(p, t)) /\ y.cmH[s][t] # None /\ y.cms[t] # None
      BY DEF SavedCmIds
    <2>2. w.cms[t] # None
      BY <1>6, HeldCm
    <2> QED BY <1>6, <1>8, <1>9, <2>2
  <1> HIDE DEF C
  <1>11. /\ v \in Worlds
         /\ v.db = y.db /\ v.mapping = y.mapping /\ v.deleted = y.deleted
         /\ v.dsts = y.dsts /\ v.lastTemp = y.lastTemp
         /\ CmsGiven(y, v, s, p.newCm, C) /\ ItemsGiven(y, v, s)
    BY <1>6, <1>9, <1>10, GiveAndSaveCms
  <1> HIDE DEF v
  <1>12. CmsGiven(x, v, s, p.newCm, C)
    BY <1>9, <1>11 DEF CmsGiven
  <1>13. ItemsGiven(x, v, s) /\ v.dsts = x.dsts
    BY <1>9, <1>11 DEF ItemsGiven
  <1>14. MapOK(v)
    BY <1>9, <1>11 DEF MapOK
  <1>15. DstsGiven(v, v, s, p.newDst, SavedDstIds(p))
    <2>1. DOMAIN NoIds = {} /\ \A d : Real(NoIds, d) = d
      BY DEF NoIds, Real
    <2>2. \A t \in DstIds : \A e \in DstIds : IdFrom(p.newDst, t, e) => DstStructSaved(v.dsts[e], v.dsts[t], FALSE)
      BY <1>3, <2>1 DEF IdFrom, DstStructSaved
    <2>3. \A k \in Slots : DstHandleSaved(v.dstH[s][k], v.dstH[s][k], p.newDst, {})
      BY <1>3, <2>1 DEF DstHandleSaved
    <2>4. \A u \in Sessions \ {s} : \A k \in Slots : DstTold(v.dstH[u][k], v.dstH[u][k], {})
      BY DEF DstTold
    <2>5. SavedDstIds(p) = {} /\ DOMAIN p.newDst = {} /\ \A e : (e \in SavedDstIds(p)) = FALSE
      BY <1>3, <1>4, <2>1
    <2>6. \A t \in DstIds : \A e \in DstIds : IdFrom(p.newDst, t, e) =>
            DstStructSaved(v.dsts[e], v.dsts[t], e \in SavedDstIds(p))
      BY <2>2, <2>5
    <2>7. \A k \in Slots : DstHandleSaved(v.dstH[s][k], v.dstH[s][k], p.newDst, SavedDstIds(p))
      BY <2>3, <2>5
    <2>8. \A u \in Sessions \ {s} : \A k \in Slots : DstTold(v.dstH[u][k], v.dstH[u][k], SavedDstIds(p))
      BY <2>4, <2>5
    <2> QED BY <2>5, <2>6, <2>7, <2>8 DEF DstsGiven
  <1>16. Written(p, v, s)
    BY <1>9, <1>11, <1>12, <1>13, <1>14, <1>15 DEF Written, x, C
  <1> QED BY <1>2, <1>5, <1>d, <1>16 DEF p, o

\* What the commit of a save makes of a temporary id, of the id given for it,
\* of the id of another CM that is saved, and of any other id.
CmGone(w, v, s, t) == v.cmH[s][t] = None /\ v.cms[t] = None /\ Holders(w, t) = {s}
CmStored(v, s, i) ==
    /\ v.cmH[s][i] # None /\ v.cmH[s][i].val = v.db.cm[i]
    /\ v.cms[i] # None /\ v.cms[i].status = "Valid" /\ v.cms[i].rec = "Loaded"
    /\ v.cms[i].made = TRUE /\ v.cms[i].val = v.db.cm[i] /\ v.db.cm[i] # None
CmNew(w, v, s, i) ==
    /\ i \in Cms /\ Holders(w, i) = {} /\ w.cms[i] = None /\ w.db.cm[i] = None
    /\ CmStored(v, s, i) /\ v.cms[i].ref = 1
CmHeldStored(w, v, s, i) ==
    /\ i \in Cms /\ w.cmH[s][i] # None /\ w.cms[i] # None
    /\ CmStored(v, s, i) /\ v.cms[i].ref = w.cms[i].ref
CmLeft(w, v, s, i) ==
    /\ v.cmH[s][i] = None <=> w.cmH[s][i] = None
    /\ w.cmH[s][i] # None => /\ v.cmH[s][i].val = w.cmH[s][i].val
                             /\ v.cmH[s][i].rec = w.cmH[s][i].rec
                             /\ v.cmH[s][i].status = w.cmH[s][i].status
    /\ v.cms[i] = None <=> w.cms[i] = None
    /\ w.cms[i] # None => /\ v.cms[i].status = w.cms[i].status /\ v.cms[i].rec = w.cms[i].rec
                          /\ v.cms[i].ref = w.cms[i].ref /\ v.cms[i].made = w.cms[i].made
                          /\ v.cms[i].val = w.cms[i].val
    /\ i \in Cms => v.db.cm[i] = w.db.cm[i]

\* Every id is one of those.
CmsSplit(w, v, s, p) ==
    /\ \A t \in DOMAIN p.newCm : CmGone(w, v, s, t) /\ CmNew(w, v, s, p.newCm[t])
    /\ \A i \in p.savedCm \cap Cms : CmHeldStored(w, v, s, i)
    /\ \A i \in CmIds : \/ i \in DOMAIN p.newCm \/ \E t \in DOMAIN p.newCm : p.newCm[t] = i
                        \/ i \in p.savedCm \cap Cms \/ CmLeft(w, v, s, i)
    /\ \A i \in CmIds : i \in SavedCmIds(p) <=>
         i \in p.savedCm \cap Cms \/ \E t \in DOMAIN p.newCm : p.newCm[t] = i
    /\ \A u \in Sessions \ {s} : \A i \in CmIds : CmTold(v.cmH[u][i], w.cmH[u][i], i \in SavedCmIds(p))

\* Each CM id after a commit: gone, new, saved again, or left alone.
LEMMA CmsSplitIs ==
  ASSUME NEW w, Core(w), NEW s \in Sessions, NEW p, Saving(w, p, s), NEW v, Written(p, v, s)
  PROVE  CmsSplit(w, v, s, p)
PROOF
  <1> DEFINE new == p.newCm
             C == SavedCmIds(p)
  <1>1. /\ new \in NewIds(CmTemps, Cms) /\ OneToOne(new)
        /\ C \subseteq Cms
        /\ \A i \in p.savedCm : IdFrom(new, i, RealId(p, i)) /\ i \in CmIds /\ w.cmH[s][i] # None
        /\ \A i \in Cms : w.db.cm[i] # None => \A t \in DOMAIN new : new[t] # i
    BY SavedIds
  <1>2. /\ p \in Saves /\ p.w \in Worlds /\ w \in Worlds
        /\ new \in [DOMAIN new -> Cms] /\ DOMAIN new \subseteq CmTemps
        /\ \A i \in CmIds : w.cmH[s][i] # None => w.cmH[s][i].val \in Values /\ w.cmH[s][i].val # None
        /\ \A t \in DOMAIN new : w.cmH[s][t] # None /\ t \in CmIds /\ t \in p.savedCm
    BY SavingFacts
  <1>3. SavingCms(w, p, s)
    BY DEF Saving
  <1>4. CmsGiven(p.w, v, s, new, C) /\ v.db = p.w.db
    BY DEF Written
  <1>5. /\ p.w.cmH = w.cmH
        /\ DOMAIN new = p.savedCm \cap CmTemps
        /\ GivenFresh(new, w.db.cm)
        /\ \A t \in DOMAIN new : p.w.db.cm[new[t]] = w.cmH[s][t].val
        /\ \A c \in Cms : (\A t \in DOMAIN new : new[t] # c) =>
             p.w.db.cm[c] = IF c \in p.savedCm THEN w.cmH[s][c].val ELSE w.db.cm[c]
        /\ \A i \in CmIds : p.w.cms[i] = None <=> w.cms[i] = None
        /\ \A i \in CmIds : w.cms[i] # None =>
             /\ p.w.cms[i].status = w.cms[i].status /\ p.w.cms[i].rec = w.cms[i].rec
             /\ p.w.cms[i].ref = w.cms[i].ref
             /\ p.w.cms[i].made <=> w.cms[i].made \/ i \in DOMAIN new
             /\ p.w.cms[i].val = IF i \in p.savedCm THEN w.cmH[s][i].val ELSE w.cms[i].val
    BY <1>3 DEF SavingCms
  <1>6. /\ \A t \in DOMAIN new : v.cmH[s][t] = None /\ v.cms[t] = None
        /\ \A t \in CmIds : \A i \in CmIds : IdFrom(new, t, i) =>
             /\ CmHandleSaved(v.cmH[s][i], w.cmH[s][t], i \in C)
             /\ CmStructSaved(v.cms[i], p.w.cms[t], i \in C)
        /\ \A u \in Sessions \ {s} : \A i \in CmIds : CmTold(v.cmH[u][i], w.cmH[u][i], i \in C)
    BY <1>4, <1>5 DEF CmsGiven
  <1>7. \A i \in CmIds : i \in C <=>
           i \in p.savedCm \cap Cms \/ \E t \in DOMAIN new : new[t] = i
    <2>1. \A i \in p.savedCm : RealId(p, i) = IF i \in DOMAIN new THEN new[i] ELSE i
      BY DEF RealId, Real
    <2>2. \A i \in p.savedCm : i \in DOMAIN new <=> i \notin Cms
      BY <1>1, <1>2, <1>5, IdsApart
    <2>3. \A t \in DOMAIN new : new[t] \in C
      BY <1>2, <2>1 DEF SavedCmIds
    <2>4. \A i \in p.savedCm \cap Cms : i \in C
      BY <2>1, <2>2 DEF SavedCmIds
    <2>5. \A i \in C : i \in p.savedCm \cap Cms \/ \E t \in DOMAIN new : new[t] = i
      BY <2>1, <2>2, <1>1 DEF SavedCmIds
    <2> QED BY <2>3, <2>4, <2>5
  <1> HIDE DEF new, C
  <1>8. ASSUME NEW t \in DOMAIN new PROVE CmGone(w, v, s, t) /\ CmNew(w, v, s, new[t])
    <2> DEFINE i == new[t]
    <2>1. i \in Cms /\ i \in CmIds /\ t \in CmIds /\ t \notin Cms /\ i \in C
      BY <1>2, <1>7, <1>8, IdsApart
    <2>2. w.cmH[s][t] # None /\ w.cmH[s][t].val # None /\ t \in p.savedCm
      BY <1>2, <1>8, <2>1
    <2>3. w.cms[t] # None /\ w.cms[t].ref = 1 /\ s \in Holders(w, t)
          /\ w.cms[t].ref = Cardinality(Holders(w, t))
      BY <2>1, <2>2, HeldCm
    <2>4. Holders(w, t) = {s}
      <3>1. Holders(w, t) \in SUBSET Sessions
        BY DEF Holders
      <3> DEFINE H == Holders(w, t)
      <3>2. H \in SUBSET Sessions /\ Cardinality(H) = 1 /\ s \in H
        BY <2>3, <3>1
      <3> HIDE DEF H
      <3>3. H = {s}
        BY <3>2, CountHolders
      <3> QED BY <3>3 DEF H
    <2>5. CmGone(w, v, s, t)
      BY <1>6, <1>8, <2>4 DEF CmGone
    <2>6. w.db.cm[i] = None
      BY <1>5, <1>8 DEF GivenFresh
    <2>7. w.cms[i] = None /\ Holders(w, i) = {}
      BY <2>1, <2>6 DEF Core, CmsFit, CmsCounted
    <2>8. IdFrom(new, t, i)
      BY <1>8 DEF IdFrom
    <2>9. v.db.cm[i] = w.cmH[s][t].val
      BY <1>4, <1>5, <1>8
    <2> HIDE DEF i
    <2>10. CmHandleSaved(v.cmH[s][i], w.cmH[s][t], i \in C) /\ CmStructSaved(v.cms[i], p.w.cms[t], i \in C)
      BY <1>6, <2>1, <2>8
    <2>11. /\ p.w.cms[t] # None /\ p.w.cms[t].val = w.cmH[s][t].val /\ p.w.cms[t].ref = 1
           /\ p.w.cms[t].made
      BY <1>5, <1>8, <2>1, <2>2, <2>3
    <2>12. p.w.cms[t].made \in BOOLEAN
      <3>1. p.w.cms[t] \in CmStructs
        BY <1>2, <2>1, <2>11 DEF Worlds
      <3> QED BY <3>1 DEF CmStructs
    <2>13. CmNew(w, v, s, i)
      BY <2>1, <2>2, <2>6, <2>7, <2>9, <2>10, <2>11, <2>12 DEF CmNew, CmStored, CmHandleSaved, CmStructSaved
    <2> QED BY <2>5, <2>13 DEF i
  <1>9. ASSUME NEW i \in p.savedCm \cap Cms PROVE CmHeldStored(w, v, s, i)
    <2>1. i \in CmIds /\ w.cmH[s][i] # None /\ i \in C
      BY <1>1, <1>7, <1>9
    <2>2. w.cms[i] # None /\ w.db.cm[i] # None /\ w.cms[i].made /\ w.cmH[s][i].val # None
      BY <1>2, <1>9, <2>1, HeldCm
    <2>3. \A t \in DOMAIN new : new[t] # i
      BY <1>1, <1>9, <2>2 DEF new
    <2>4. IdFrom(new, i, i)
      <3>1. i \notin DOMAIN new
        BY <1>2, <1>9, IdsApart DEF new
      <3> QED BY <2>3, <3>1 DEF IdFrom
    <2>5. CmHandleSaved(v.cmH[s][i], w.cmH[s][i], i \in C) /\ CmStructSaved(v.cms[i], p.w.cms[i], i \in C)
      BY <1>6, <2>1, <2>4
    <2>6. v.db.cm[i] = w.cmH[s][i].val
      BY <1>4, <1>5, <1>9, <2>3
    <2>7. /\ p.w.cms[i] # None /\ p.w.cms[i].val = w.cmH[s][i].val
          /\ p.w.cms[i].ref = w.cms[i].ref /\ p.w.cms[i].made
      BY <1>5, <1>9, <2>1, <2>2
    <2>8. p.w.cms[i].made \in BOOLEAN
      <3>1. p.w.cms[i] \in CmStructs
        BY <1>2, <2>1, <2>7 DEF Worlds
      <3> QED BY <3>1 DEF CmStructs
    <2> QED BY <1>9, <2>1, <2>2, <2>5, <2>6, <2>7, <2>8 DEF CmHeldStored, CmStored, CmHandleSaved, CmStructSaved
  <1>10. ASSUME NEW i \in CmIds, i \notin DOMAIN new, \A t \in DOMAIN new : new[t] # i,
                i \notin p.savedCm \cap Cms
         PROVE  CmLeft(w, v, s, i)
    <2>1. IdFrom(new, i, i)
      BY <1>10 DEF IdFrom
    <2>2. i \notin p.savedCm /\ i \notin C
      BY <1>5, <1>7, <1>10, IdsApart DEF new
    <2>3. CmHandleSaved(v.cmH[s][i], w.cmH[s][i], i \in C) /\ CmStructSaved(v.cms[i], p.w.cms[i], i \in C)
      BY <1>6, <2>1
    <2>4. i \in Cms => v.db.cm[i] = w.db.cm[i]
      BY <1>4, <1>5, <1>10, <2>2
    <2>5. w.cms[i] # None => p.w.cms[i].made = w.cms[i].made
      <3>1. SUFFICES ASSUME w.cms[i] # None PROVE p.w.cms[i].made = w.cms[i].made
        OBVIOUS
      <3>2. w.cms[i] \in CmStructs /\ p.w.cms[i] \in CmStructs
        BY <1>2, <1>5, <3>1 DEF Worlds
      <3>3. p.w.cms[i].made \in BOOLEAN /\ w.cms[i].made \in BOOLEAN
        BY <3>2 DEF CmStructs
      <3> QED BY <1>5, <1>10, <3>1, <3>3
    <2> QED BY <1>5, <2>2, <2>3, <2>4, <2>5 DEF CmLeft, CmHandleSaved, CmStructSaved
  <1> QED BY <1>6, <1>7, <1>8, <1>9, <1>10 DEF CmsSplit, new, C

\* Who has a handle to a CM after a commit.
LEMMA CommitHolders ==
  ASSUME NEW w, NEW s \in Sessions, NEW p, NEW v, CmsSplit(w, v, s, p)
  PROVE  /\ \A t \in DOMAIN p.newCm : t \in CmIds => Holders(v, t) = {}
         /\ \A t \in DOMAIN p.newCm : p.newCm[t] \in CmIds => Holders(v, p.newCm[t]) = {s}
         /\ \A i \in p.savedCm \cap Cms : i \in CmIds => Holders(v, i) = Holders(w, i)
         /\ \A i \in CmIds : CmLeft(w, v, s, i) => Holders(v, i) = Holders(w, i)
PROOF
  <1>1. \A u \in Sessions \ {s} : \A i \in CmIds : v.cmH[u][i] = None <=> w.cmH[u][i] = None
    BY DEF CmsSplit, CmTold
  <1>2. ASSUME NEW i \in CmIds, v.cmH[s][i] = None <=> w.cmH[s][i] = None
        PROVE  Holders(v, i) = Holders(w, i)
    BY <1>1, <1>2 DEF Holders
  <1>3. ASSUME NEW t \in DOMAIN p.newCm, t \in CmIds PROVE Holders(v, t) = {}
    <2>1. v.cmH[s][t] = None /\ Holders(w, t) = {s}
      BY DEF CmsSplit, CmGone
    <2> QED BY <1>1, <1>3, <2>1 DEF Holders
  <1>4. ASSUME NEW t \in DOMAIN p.newCm, p.newCm[t] \in CmIds PROVE Holders(v, p.newCm[t]) = {s}
    <2>1. v.cmH[s][p.newCm[t]] # None /\ Holders(w, p.newCm[t]) = {}
      BY DEF CmsSplit, CmNew, CmStored
    <2> QED BY <1>1, <1>4, <2>1 DEF Holders
  <1>5. \A i \in p.savedCm \cap Cms : v.cmH[s][i] # None /\ w.cmH[s][i] # None
    BY DEF CmsSplit, CmHeldStored, CmStored
  <1>6. \A i \in CmIds : CmLeft(w, v, s, i) => Holders(v, i) = Holders(w, i)
    BY <1>2 DEF CmLeft
  <1> QED BY <1>2, <1>3, <1>4, <1>5, <1>6

\* A commit keeps what is said of CMs.
LEMMA CommitKeepsCms ==
  ASSUME NEW w, Core(w), NEW s \in Sessions, NEW p, Saving(w, p, s), NEW v, Written(p, v, s)
  PROVE  /\ CmsCounted(v) /\ CmsFit(v)
         /\ Current(w) => Current(v)
         /\ Agree(w) => Agree(v)
         /\ FreeCms(v) = FreeCms(p.w)
         /\ CmTempsHeld(v, s) = CmTempsHeld(w, s) \ DOMAIN p.newCm
PROOF
  <1> DEFINE Gone(i)  == i \in DOMAIN p.newCm
             New(i)   == \E t \in DOMAIN p.newCm : p.newCm[t] = i
             Again(i)  == i \in p.savedCm \cap Cms
  <1>1. CmsSplit(w, v, s, p)
    BY CmsSplitIs
  <1>2. /\ p.newCm \in [DOMAIN p.newCm -> Cms] /\ DOMAIN p.newCm \subseteq CmTemps
        /\ w \in Worlds
    BY SavingFacts
  <1>3. v.db = p.w.db /\ v.deleted = w.deleted /\ v.lastTemp = w.lastTemp
    BY DEF Written, Saving
  <1>4. CmsCounted(w) /\ CmsFit(w)
    BY DEF Core
  <1>h. /\ \A t \in DOMAIN p.newCm : t \in CmIds => Holders(v, t) = {}
        /\ \A t \in DOMAIN p.newCm : p.newCm[t] \in CmIds => Holders(v, p.newCm[t]) = {s}
        /\ \A i \in p.savedCm \cap Cms : i \in CmIds => Holders(v, i) = Holders(w, i)
        /\ \A i \in CmIds : CmLeft(w, v, s, i) => Holders(v, i) = Holders(w, i)
    BY <1>1, CommitHolders, ZenonT(60)
  <1>s. /\ \A t \in DOMAIN p.newCm : CmGone(w, v, s, t) /\ CmNew(w, v, s, p.newCm[t])
        /\ \A i \in p.savedCm \cap Cms : CmHeldStored(w, v, s, i)
        /\ \A i \in CmIds : Gone(i) \/ New(i) \/ Again(i) \/ CmLeft(w, v, s, i)
        /\ \A i \in CmIds : i \in SavedCmIds(p) <=> Again(i) \/ New(i)
    BY <1>1 DEF CmsSplit
  <1>5. \A i \in CmIds : Gone(i) => v.cms[i] = None /\ v.cmH[s][i] = None /\ Holders(v, i) = {}
    BY <1>h, <1>s DEF CmGone
  <1>6. \A i \in CmIds : New(i) => /\ CmNew(w, v, s, i) /\ Holders(v, i) = {s}
    BY <1>h, <1>s
  <1>7. \A i \in CmIds : Again(i) => /\ CmHeldStored(w, v, s, i) /\ Holders(v, i) = Holders(w, i)
    BY <1>h, <1>s
  <1>8. \A i \in CmIds : ~Gone(i) /\ ~New(i) /\ ~Again(i) =>
          CmLeft(w, v, s, i) /\ Holders(v, i) = Holders(w, i) /\ i \notin SavedCmIds(p)
    BY <1>h, <1>s
  <1>9. \A i \in CmIds : Again(i) => i \in SavedCmIds(p)
    BY <1>1 DEF CmsSplit
  <1>10. \A u \in Sessions \ {s} : \A i \in CmIds : CmTold(v.cmH[u][i], w.cmH[u][i], i \in SavedCmIds(p))
    BY <1>1 DEF CmsSplit
  <1>11. \A i \in CmIds : Gone(i) => i \notin Cms
    BY <1>2, IdsApart
  <1>12. Cms \subseteq CmIds /\ CmTemps \subseteq CmIds /\ Cms \cap CmTemps = {}
    BY IdsApart
  <1> HIDE DEF Gone, New, Again
  <1>13. CmsCounted(v)
    <2>1. SUFFICES ASSUME NEW i \in CmIds
                   PROVE  IF v.cms[i] = None THEN Holders(v, i) = {}
                          ELSE v.cms[i].ref = Cardinality(Holders(v, i))
      BY DEF CmsCounted
    <2>2. IF w.cms[i] = None THEN Holders(w, i) = {} ELSE w.cms[i].ref = Cardinality(Holders(w, i))
      BY <1>4 DEF CmsCounted
    <2>3. CASE Gone(i)
      BY <1>5, <2>3
    <2>4. CASE New(i)
      <3>1. Cardinality({s}) = 1
        BY CountHolders
      <3> QED BY <1>6, <2>4, <3>1 DEF CmNew, CmStored
    <2>5. CASE Again(i)
      BY <1>7, <2>2, <2>5 DEF CmHeldStored, CmStored
    <2>6. CASE ~Gone(i) /\ ~New(i) /\ ~Again(i)
      BY <1>8, <2>2, <2>6 DEF CmLeft
    <2> QED BY <2>3, <2>4, <2>5, <2>6
  <1>14. CmsFit(v)
    <2>1. SUFFICES ASSUME NEW i \in CmIds, v.cms[i] # None
                   PROVE  IF i \in Cms
                          THEN /\ v.db.cm[i] # None /\ v.cms[i].status # "NotSaved" /\ v.cms[i].made
                               /\ v.cms[i].rec # "Unsaved"
                               /\ v.cms[i].status = "ToBeDeleted" => i \in v.deleted.cm
                          ELSE /\ v.cms[i].status = "NotSaved" /\ ~v.cms[i].made /\ v.cms[i].ref = 1
                               /\ \E n \in 1..v.lastTemp : i = CmTemp(n)
      BY DEF CmsFit
    <2>2. CASE New(i) \/ Again(i)
      <3>1. i \in Cms /\ CmStored(v, s, i)
        BY <1>6, <1>7, <2>2 DEF CmNew, CmHeldStored
      <3> QED BY <3>1 DEF CmStored
    <2>3. CASE ~Gone(i) /\ ~New(i) /\ ~Again(i)
      <3>1. CmLeft(w, v, s, i)
        BY <1>8, <2>3
      <3>2. w.cms[i] # None
        BY <2>1, <3>1 DEF CmLeft
      <3>3. IF i \in Cms
            THEN /\ w.db.cm[i] # None /\ w.cms[i].status # "NotSaved" /\ w.cms[i].made
                 /\ w.cms[i].rec # "Unsaved"
                 /\ w.cms[i].status = "ToBeDeleted" => i \in w.deleted.cm
            ELSE /\ w.cms[i].status = "NotSaved" /\ ~w.cms[i].made /\ w.cms[i].ref = 1
                 /\ \E n \in 1..w.lastTemp : i = CmTemp(n)
        BY <1>4, <3>2 DEF CmsFit
      <3> QED BY <1>3, <3>1, <3>2, <3>3 DEF CmLeft
    <2> QED BY <1>5, <2>1, <2>2, <2>3
  <1>15. ASSUME Current(w) PROVE Current(v)
    <2>1. SUFFICES ASSUME NEW c \in Cms, v.cms[c] # None, v.cms[c].rec = "Loaded"
                   PROVE  v.cms[c].val = v.db.cm[c]
      BY DEF Current
    <2>2. CASE New(c) \/ Again(c)
      BY <1>6, <1>7, <1>12, <2>2 DEF CmNew, CmHeldStored, CmStored
    <2>3. CASE ~New(c) /\ ~Again(c)
      <3>1. CmLeft(w, v, s, c)
        BY <1>8, <1>11, <1>12, <2>3
      <3> QED BY <1>15, <2>1, <3>1 DEF CmLeft, Current
    <2> QED BY <2>2, <2>3
  <1>16. ASSUME Agree(w) PROVE Agree(v)
    <2>1. SUFFICES ASSUME NEW u \in Sessions, NEW c \in Cms, v.cmH[u][c] # None,
                          v.cmH[u][c].status = "Valid", v.cmH[u][c].rec = "Loaded"
                   PROVE  v.cmH[u][c].val = v.db.cm[c]
      BY DEF Agree
    <2>2. CASE u = s /\ (New(c) \/ Again(c))
      BY <1>6, <1>7, <1>12, <2>2 DEF CmNew, CmHeldStored, CmStored
    <2>3. CASE ~New(c) /\ ~Again(c)
      <3>1. CmLeft(w, v, s, c) /\ c \notin SavedCmIds(p)
        BY <1>8, <1>11, <1>12, <2>3
      <3>2. w.cmH[u][c] # None /\ w.cmH[u][c].status = "Valid" /\ w.cmH[u][c].rec = "Loaded"
            /\ v.cmH[u][c].val = w.cmH[u][c].val
        <4>1. CASE u = s
          BY <2>1, <3>1, <4>1 DEF CmLeft
        <4>2. CASE u # s
          BY <1>10, <1>12, <2>1, <3>1, <4>2 DEF CmTold
        <4> QED BY <4>1, <4>2
      <3>3. v.db.cm[c] = w.db.cm[c]
        BY <3>1 DEF CmLeft
      <3> QED BY <1>16, <3>2, <3>3 DEF Agree
    <2>4. CASE u # s /\ New(c)
      <3>1. u \in Holders(v, c)
        BY <2>1 DEF Holders
      <3> QED BY <1>6, <1>12, <2>4, <3>1
    <2>5. CASE u # s /\ Again(c)
      <3>1. CmTold(v.cmH[u][c], w.cmH[u][c], TRUE)
        BY <1>9, <1>10, <1>12, <2>5
      <3> QED BY <2>1, <3>1 DEF CmTold
    <2> QED BY <2>2, <2>3, <2>4, <2>5
  <1>17. FreeCms(v) = FreeCms(p.w)
    BY <1>3 DEF FreeCms
  <1>18. CmTempsHeld(v, s) = CmTempsHeld(w, s) \ DOMAIN p.newCm
    <2>1. ASSUME NEW i \in CmTemps
          PROVE  v.cmH[s][i] # None <=> w.cmH[s][i] # None /\ i \notin DOMAIN p.newCm
      <3>1. CASE Gone(i)
        BY <1>5, <1>12, <3>1 DEF Gone
      <3>2. CASE ~Gone(i)
        <4>1. ~New(i) /\ ~Again(i)
          BY <1>6, <1>7, <1>12 DEF CmNew, CmHeldStored
        <4> QED BY <1>8, <1>12, <3>2, <4>1 DEF CmLeft, Gone
      <3> QED BY <3>1, <3>2
    <2> QED BY <2>1 DEF CmTempsHeld
  <1> QED BY <1>13, <1>14, <1>15, <1>16, <1>17, <1>18

\* What the commit of a save makes of a temporary id of a destination, of the
\* id given for it, and of any other id.
DstGone(w, v, s, t) == v.dsts[t] = None /\ DstHolders(w, t) = {s}
DstNew(w, v, d) ==
    /\ d \in Dests /\ DstHolders(w, d) = {} /\ w.dsts[d] = None /\ w.db.dest[d] = None
    /\ v.db.dest[d] # None /\ v.dsts[d] # None /\ v.dsts[d].status = "Valid" /\ v.dsts[d].ref = 1
DstLeft(w, v, d) ==
    /\ v.dsts[d] = None <=> w.dsts[d] = None
    /\ w.dsts[d] # None => /\ v.dsts[d].ref = w.dsts[d].ref
                           /\ v.dsts[d].status = w.dsts[d].status
    /\ d \in Dests => (w.db.dest[d] # None => v.db.dest[d] # None)

\* The handle h was g, and lists no destination more.
HandleLeft(h, g) ==
    /\ h = None <=> g = None
    /\ g # None => /\ h.toDelete \in {g.toDelete, << >>}
                   /\ \A e \in DstIds : e \in ToSet(h.items) => e \in ToSet(g.items)
DstsSplit(w, v, s, p) ==
    /\ \A t \in DOMAIN p.newDst : DstGone(w, v, s, t) /\ DstNew(w, v, p.newDst[t])
    /\ \A d \in DstIds : \/ d \in DOMAIN p.newDst \/ \E t \in DOMAIN p.newDst : p.newDst[t] = d
                         \/ DstLeft(w, v, d)
    /\ \A u \in Sessions : \A k \in Slots : HandleLeft(v.dstH[u][k], w.dstH[u][k])
    /\ \A u \in Sessions \ {s} : \A k \in Slots : w.dstH[u][k] # None =>
         /\ v.dstH[u][k].id = w.dstH[u][k].id
         /\ v.dstH[u][k].status = "Valid" => w.dstH[u][k].status = "Valid"
    /\ \A k \in Slots : w.dstH[s][k] # None =>
         /\ v.dstH[s][k].id = Real(p.newDst, w.dstH[s][k].id)
         /\ v.dstH[s][k].status = "Valid" =>
              w.dstH[s][k].status = "Valid" \/ v.dstH[s][k].id \in Dests

\* Each destination id and handle after a commit.
LEMMA DstsSplitIs ==
  ASSUME NEW w, Core(w), NEW s \in Sessions, NEW p, Saving(w, p, s), NEW v, Written(p, v, s)
  PROVE  DstsSplit(w, v, s, p)
PROOF
  <1> DEFINE new == p.newDst
             D == SavedDstIds(p)
  <1>1. /\ D \subseteq Dests /\ OneToOne(new)
        /\ \A d \in p.savedDst : IdFrom(new, d, Real(new, d)) /\ d \in DstIds /\ w.dsts[d] # None
        /\ \A d \in Dests : w.db.dest[d] # None => \A t \in DOMAIN new : new[t] # d
    BY SavedIds
  <1>2. /\ w \in Worlds /\ p.w \in Worlds
        /\ new \in [DOMAIN new -> Dests] /\ DOMAIN new \subseteq DstTemps
    BY SavingFacts
  <1>3. SavingDsts(w, p, s)
    BY DEF Saving
  <1>4. v.db = p.w.db /\ v \in Worlds
    BY DEF Written
  <1>5. PICK x : ItemsGiven(p.w, x, s) /\ x.dsts = p.w.dsts /\ DstsGiven(x, v, s, new, D)
    BY DEF Written
  <1>6. /\ \A u \in Sessions : \A k \in Slots :
             /\ p.w.dstH[u][k] = None <=> w.dstH[u][k] = None
             /\ w.dstH[u][k] # None => SameHandle(p.w.dstH[u][k], w.dstH[u][k])
        /\ DOMAIN new = p.savedDst \cap DstTemps
        /\ \A d \in p.savedDst : \E k \in Slots : w.dstH[s][k] # None /\ w.dstH[s][k].id = d
        /\ GivenFresh(new, w.db.dest)
        /\ \A t \in DOMAIN new : p.w.db.dest[new[t]] # None
        /\ \A d \in Dests : w.db.dest[d] # None => p.w.db.dest[d] # None
        /\ \A d \in DstIds : p.w.dsts[d] = None <=> w.dsts[d] = None
        /\ \A d \in DstIds : w.dsts[d] # None =>
             p.w.dsts[d].status = w.dsts[d].status /\ p.w.dsts[d].ref = w.dsts[d].ref
    BY <1>3 DEF SavingDsts
  <1>7. /\ \A t \in DOMAIN new : v.dsts[t] = None
        /\ \A t \in DstIds : \A e \in DstIds : IdFrom(new, t, e) =>
             DstStructSaved(v.dsts[e], p.w.dsts[t], e \in D)
        /\ \A k \in Slots : DstHandleSaved(v.dstH[s][k], x.dstH[s][k], new, D)
        /\ \A u \in Sessions \ {s} : \A k \in Slots : DstTold(v.dstH[u][k], x.dstH[u][k], D)
    BY <1>5 DEF DstsGiven
  <1>8. \A u \in Sessions : \A k \in Slots :
         /\ x.dstH[u][k] = None <=> p.w.dstH[u][k] = None
         /\ p.w.dstH[u][k] # None =>
              /\ x.dstH[u][k].id = p.w.dstH[u][k].id /\ x.dstH[u][k].status = p.w.dstH[u][k].status
              /\ x.dstH[u][k].toDelete = p.w.dstH[u][k].toDelete
              /\ \A e \in DstIds : e \in ToSet(x.dstH[u][k].items) => e \in ToSet(p.w.dstH[u][k].items)
    BY <1>5 DEF ItemsGiven
  <1>a. \A t \in DOMAIN new : new[t] \in D
    BY <1>6 DEF SavedDstIds, Real
  <1> HIDE DEF new, D
  <1>9. \A u \in Sessions : \A k \in Slots :
         /\ x.dstH[u][k] = None <=> w.dstH[u][k] = None
         /\ w.dstH[u][k] # None =>
              /\ x.dstH[u][k].id = w.dstH[u][k].id /\ x.dstH[u][k].status = w.dstH[u][k].status
              /\ x.dstH[u][k].toDelete = w.dstH[u][k].toDelete
              /\ \A e \in DstIds : e \in ToSet(x.dstH[u][k].items) => e \in ToSet(w.dstH[u][k].items)
    BY <1>6, <1>8, SMTT(60) DEF SameHandle, ListsNoMore
  <1>10. ASSUME NEW u \in Sessions \ {s}, NEW k \in Slots
         PROVE  /\ HandleLeft(v.dstH[u][k], w.dstH[u][k])
                /\ w.dstH[u][k] # None =>
                     /\ v.dstH[u][k].id = w.dstH[u][k].id
                     /\ v.dstH[u][k].status = "Valid" => w.dstH[u][k].status = "Valid"
    <2>1. DstTold(v.dstH[u][k], x.dstH[u][k], D)
      BY <1>7
    <2> QED BY <1>9, <2>1 DEF DstTold, HandleLeft
  <1>11. ASSUME NEW k \in Slots
         PROVE  /\ HandleLeft(v.dstH[s][k], w.dstH[s][k])
                /\ w.dstH[s][k] # None =>
                     /\ v.dstH[s][k].id = Real(new, w.dstH[s][k].id)
                     /\ v.dstH[s][k].status = "Valid" =>
                          w.dstH[s][k].status = "Valid" \/ v.dstH[s][k].id \in Dests
    <2>1. DstHandleSaved(v.dstH[s][k], x.dstH[s][k], new, D)
      BY <1>7
    <2> QED BY <1>1, <1>9, <2>1 DEF DstHandleSaved, HandleLeft
  <1>12. ASSUME NEW t \in DOMAIN new PROVE DstGone(w, v, s, t) /\ DstNew(w, v, new[t])
    <2> DEFINE d == new[t]
    <2>1. t \in DstIds /\ t \notin Dests /\ d \in Dests /\ d \in DstIds /\ d \in D
      BY <1>2, <1>a, IdsApart
    <2>2. PICK k \in Slots : w.dstH[s][k] # None /\ w.dstH[s][k].id = t
      BY <1>6
    <2>3. /\ s \in DstHolders(w, t) /\ w.dsts[t] # None /\ w.dsts[t].ref = 1
          /\ w.dsts[t].ref = Cardinality(DstHolders(w, t))
      BY <2>1, <2>2, HeldDst
    <2>4. DstHolders(w, t) = {s}
      <3> DEFINE H == DstHolders(w, t)
      <3>1. H \in SUBSET Sessions /\ Cardinality(H) = 1 /\ s \in H
        BY <2>3 DEF DstHolders
      <3> HIDE DEF H
      <3>2. H = {s}
        BY <3>1, CountHolders
      <3> QED BY <3>2 DEF H
    <2>5. w.db.dest[d] = None
      BY <1>6 DEF GivenFresh
    <2>6. w.dsts[d] = None /\ DstHolders(w, d) = {}
      BY <2>1, <2>5 DEF Core, DstsFit, DstsCounted
    <2>7. IdFrom(new, t, d)
      BY DEF IdFrom
    <2>8. v.db.dest[d] # None
      BY <1>4, <1>6
    <2> HIDE DEF d
    <2>9. DstStructSaved(v.dsts[d], p.w.dsts[t], d \in D)
      BY <1>7, <2>1, <2>7
    <2>10. p.w.dsts[t] # None /\ p.w.dsts[t].ref = 1
      BY <1>6, <2>1, <2>3
    <2>11. DstNew(w, v, d)
      BY <2>1, <2>5, <2>6, <2>8, <2>9, <2>10 DEF DstNew, DstStructSaved
    <2> QED BY <1>7, <2>4, <2>11 DEF DstGone, d
  <1>13. ASSUME NEW d \in DstIds, d \notin DOMAIN new, \A t \in DOMAIN new : new[t] # d
         PROVE  DstLeft(w, v, d)
    <2>1. IdFrom(new, d, d)
      BY <1>13 DEF IdFrom
    <2>2. DstStructSaved(v.dsts[d], p.w.dsts[d], d \in D)
      BY <1>7, <2>1
    <2>3. d \in Dests => (w.db.dest[d] # None => v.db.dest[d] # None)
      BY <1>4, <1>6
    <2>4. d \in Dests /\ w.dsts[d] # None => w.dsts[d].status = "Valid"
      BY DEF Core, DstsFit
    <2> QED BY <1>1, <1>6, <2>2, <2>3, <2>4 DEF DstLeft, DstStructSaved
  <1>14. /\ \A t \in DOMAIN new : DstGone(w, v, s, t) /\ DstNew(w, v, new[t])
         /\ \A d \in DstIds : d \in DOMAIN new \/ (\E t \in DOMAIN new : new[t] = d) \/ DstLeft(w, v, d)
    BY <1>12, <1>13
  <1>15. \A u \in Sessions : \A k \in Slots : HandleLeft(v.dstH[u][k], w.dstH[u][k])
    BY <1>10, <1>11
  <1> QED BY <1>10, <1>11, <1>14, <1>15 DEF DstsSplit, new

\* Who has a handle to a destination after a commit, and in which slots.
LEMMA CommitDstHolders ==
  ASSUME NEW w, Core(w), NEW s \in Sessions, NEW p, Saving(w, p, s), NEW v, DstsSplit(w, v, s, p)
  PROVE  /\ \A k \in Slots : w.dstH[s][k] # None =>
              /\ w.dstH[s][k].id \in DOMAIN p.newDst =>
                   p.newDst[w.dstH[s][k].id] \in Dests /\ w.dstH[s][k].id \in DstTemps
              /\ \A t \in DOMAIN p.newDst : w.dstH[s][k].id # p.newDst[t]
         /\ \A t \in DOMAIN p.newDst : DstHolders(v, t) = {} /\ DstHolders(v, p.newDst[t]) = {s}
         /\ \A d \in DstIds : d \notin DOMAIN p.newDst /\ (\A t \in DOMAIN p.newDst : p.newDst[t] # d)
              => DstHolders(v, d) = DstHolders(w, d)
PROOF
  <1> DEFINE new == p.newDst
             G(k) == w.dstH[s][k]
  <1>1. /\ new \in [DOMAIN new -> Dests] /\ DOMAIN new \subseteq DstTemps /\ OneToOne(new)
    BY SavingFacts, SavedIds
  <1>2. /\ \A t \in DOMAIN new : DstGone(w, v, s, t) /\ DstNew(w, v, new[t])
        /\ \A u \in Sessions : \A k \in Slots : v.dstH[u][k] = None <=> w.dstH[u][k] = None
        /\ \A u \in Sessions \ {s} : \A k \in Slots : w.dstH[u][k] # None => v.dstH[u][k].id = w.dstH[u][k].id
        /\ \A k \in Slots : G(k) # None => v.dstH[s][k].id = Real(new, G(k).id)
    BY DEF DstsSplit, HandleLeft
  <1>3. \A k \in Slots : G(k) # None => k \in SlotsOf(w, s, G(k).id) /\ s \in DstHolders(w, G(k).id)
    BY DEF SlotsOf, DstHolders
  <1>4. \A t \in DOMAIN new : DstHolders(w, t) = {s} /\ DstHolders(w, new[t]) = {}
    BY <1>2 DEF DstGone, DstNew
  <1> HIDE DEF new
  <1>5. ASSUME NEW k \in Slots, G(k) # None
        PROVE  /\ G(k).id \in DOMAIN new => new[G(k).id] \in Dests /\ G(k).id \in DstTemps
               /\ \A t \in DOMAIN new : G(k).id # new[t]
    BY <1>1, <1>3, <1>4, <1>5
  <1>6. \A u \in Sessions \ {s} : \A d : SlotsOf(v, u, d) = SlotsOf(w, u, d)
    BY <1>2 DEF SlotsOf
  <1>7. \A d : (\A k \in Slots : G(k) # None => Real(new, G(k).id) # d) => SlotsOf(v, s, d) = {}
    BY <1>2 DEF SlotsOf
  <1>8. ASSUME NEW t \in DOMAIN new PROVE DstHolders(v, t) = {} /\ DstHolders(v, new[t]) = {s}
    <2>1. t \notin Dests
      BY <1>1, IdsApart
    <2>2. \A k \in Slots : G(k) # None => Real(new, G(k).id) # t
      BY <1>1, <1>5, <2>1 DEF Real
    <2>3. SlotsOf(v, s, t) = {}
      BY <1>7, <2>2
    <2>4. DstHolders(v, t) = {}
      BY <1>4, <1>6, <2>3 DEF DstHolders
    <2>5. SlotsOf(w, s, t) # {}
      BY <1>4 DEF DstHolders
    <2>6. PICK k \in Slots : G(k) # None /\ G(k).id = t
      BY <2>5 DEF SlotsOf
    <2>7. k \in SlotsOf(v, s, new[t])
      BY <1>2, <2>6 DEF SlotsOf, Real
    <2>8. DstHolders(v, new[t]) = {s}
      BY <1>4, <1>6, <2>7 DEF DstHolders
    <2> QED BY <2>4, <2>8
  <1>9. ASSUME NEW d \in DstIds, d \notin DOMAIN new, \A t \in DOMAIN new : new[t] # d
        PROVE  DstHolders(v, d) = DstHolders(w, d)
    <2>1. \A k \in Slots : G(k) # None => (Real(new, G(k).id) = d <=> G(k).id = d)
      BY <1>9 DEF Real
    <2>2. SlotsOf(v, s, d) = SlotsOf(w, s, d)
      BY <1>2, <2>1 DEF SlotsOf
    <2> QED BY <1>6, <2>2 DEF DstHolders
  <1> QED BY <1>5, <1>8, <1>9 DEF new

\* What is mapped is stored, right after the mapping is read.
LEMMA ReadFits ==
  ASSUME NEW v \in Worlds, MapOK(v), v.deleted.dest = {}
  PROVE  MappedFits(v)
PROOF
  <1>1. /\ v.mapping.cm = ReadConnMethods(v.db, v.deleted)
        /\ \A d \in Dests : v.db.dest[d] = None => v.mapping.dest[d] = None
    BY MappingRead
  <1> QED BY <1>1 DEF MappedFits, ReadConnMethods

\* A commit keeps what is said of destinations.
LEMMA CommitKeepsDsts ==
  ASSUME NEW w, Core(w), NEW s \in Sessions, NEW p, Saving(w, p, s), NEW v, Written(p, v, s)
  PROVE  /\ DstsCounted(v) /\ OneSlot(v) /\ DstsFit(v) /\ HandlesFit(v) /\ MappedFits(v)
         /\ NoToDelete(w) => NoToDelete(v)
         /\ FreeDests(v) = FreeDests(p.w)
         /\ DstTempSlots(v, s) = Unsaved(w, p, s)
         /\ \A k \in Slots : v.dstH[s][k] = None <=> w.dstH[s][k] = None
PROOF
  <1> DEFINE new == p.newDst
             Gone(d) == d \in DOMAIN new
             New(d)  == \E t \in DOMAIN new : new[t] = d
  <1>1. DstsSplit(w, v, s, p)
    BY DstsSplitIs
  <1>2. /\ new \in [DOMAIN new -> Dests] /\ DOMAIN new \subseteq DstTemps /\ OneToOne(new)
        /\ w \in Worlds
    BY SavingFacts, SavedIds
  <1>3. /\ v.db = p.w.db /\ v.deleted = w.deleted /\ v.lastTemp = w.lastTemp
        /\ v \in Worlds /\ MapOK(v)
    BY DEF Written, Saving
  <1>4. DstsCounted(w) /\ OneSlot(w) /\ DstsFit(w) /\ HandlesFit(w) /\ w.deleted.dest = {}
    BY DEF Core, MappedFits
  <1>5. /\ \A t \in DOMAIN new : DstGone(w, v, s, t) /\ DstNew(w, v, new[t])
        /\ \A d \in DstIds : Gone(d) \/ New(d) \/ DstLeft(w, v, d)
        /\ \A u \in Sessions : \A k \in Slots : HandleLeft(v.dstH[u][k], w.dstH[u][k])
        /\ \A u \in Sessions \ {s} : \A k \in Slots : w.dstH[u][k] # None =>
             /\ v.dstH[u][k].id = w.dstH[u][k].id
             /\ v.dstH[u][k].status = "Valid" => w.dstH[u][k].status = "Valid"
        /\ \A k \in Slots : w.dstH[s][k] # None =>
             /\ v.dstH[s][k].id = Real(new, w.dstH[s][k].id)
             /\ v.dstH[s][k].status = "Valid" =>
                  w.dstH[s][k].status = "Valid" \/ v.dstH[s][k].id \in Dests
    BY <1>1 DEF DstsSplit
  <1>6. /\ \A k \in Slots : w.dstH[s][k] # None =>
             /\ w.dstH[s][k].id \in DOMAIN new =>
                  new[w.dstH[s][k].id] \in Dests /\ w.dstH[s][k].id \in DstTemps
             /\ \A t \in DOMAIN new : w.dstH[s][k].id # new[t]
        /\ \A t \in DOMAIN new : DstHolders(v, t) = {} /\ DstHolders(v, new[t]) = {s}
        /\ \A d \in DstIds : d \notin DOMAIN new /\ (\A t \in DOMAIN new : new[t] # d)
             => DstHolders(v, d) = DstHolders(w, d)
    BY <1>1, CommitDstHolders
  <1>a. \A u \in Sessions : \A k \in Slots : v.dstH[u][k] = None <=> w.dstH[u][k] = None
    BY <1>5 DEF HandleLeft
  <1> HIDE DEF new
  <1>7. \A d \in DstIds : Gone(d) => v.dsts[d] = None /\ DstHolders(v, d) = {}
    BY <1>5, <1>6 DEF DstGone
  <1>8. \A d \in DstIds : New(d) => DstNew(w, v, d) /\ DstHolders(v, d) = {s}
    BY <1>5, <1>6
  <1>9. \A d \in DstIds : ~Gone(d) /\ ~New(d) => DstLeft(w, v, d) /\ DstHolders(v, d) = DstHolders(w, d)
    BY <1>5, <1>6
  <1> HIDE DEF Gone, New
  <1>10. DstsCounted(v)
    <2>1. SUFFICES ASSUME NEW d \in DstIds
                   PROVE  IF v.dsts[d] = None THEN DstHolders(v, d) = {}
                          ELSE v.dsts[d].ref = Cardinality(DstHolders(v, d))
      BY DEF DstsCounted
    <2>2. CASE Gone(d)
      BY <1>7, <2>2
    <2>3. CASE New(d)
      <3>1. Cardinality({s}) = 1
        BY CountHolders
      <3> QED BY <1>8, <2>3, <3>1 DEF DstNew
    <2>4. CASE ~Gone(d) /\ ~New(d)
      BY <1>4, <1>9, <2>4 DEF DstLeft, DstsCounted
    <2> QED BY <2>2, <2>3, <2>4
  <1>11. OneSlot(v)
    <2>1. SUFFICES ASSUME NEW u \in Sessions, NEW k \in Slots, NEW l \in Slots,
                          v.dstH[u][k] # None, v.dstH[u][l] # None, v.dstH[u][k].id = v.dstH[u][l].id
                   PROVE  k = l
      BY DEF OneSlot
    <2>2. w.dstH[u][k] # None /\ w.dstH[u][l] # None
      BY <1>a, <2>1
    <2>3. w.dstH[u][k].id = w.dstH[u][l].id
      <3>1. CASE u # s
        BY <1>5, <2>1, <2>2, <3>1
      <3>2. CASE u = s
        <4> DEFINE a == w.dstH[s][k].id
                   b == w.dstH[s][l].id
        <4>1. Real(new, a) = Real(new, b)
          BY <1>5, <2>1, <2>2, <3>2
        <4>2. /\ a \in DOMAIN new => \A t \in DOMAIN new : b # new[t]
              /\ b \in DOMAIN new => \A t \in DOMAIN new : a # new[t]
          BY <1>6, <2>2, <3>2
        <4> HIDE DEF a, b
        <4>3. a = b
          BY <1>2, <4>1, <4>2 DEF Real, OneToOne
        <4> QED BY <3>2, <4>3 DEF a, b
      <3> QED BY <3>1, <3>2
    <2> QED BY <1>4, <2>2, <2>3 DEF OneSlot
  <1>12. DstsFit(v)
    <2>1. SUFFICES ASSUME NEW d \in DstIds, v.dsts[d] # None
                   PROVE  IF d \in Dests THEN v.db.dest[d] # None /\ v.dsts[d].status = "Valid"
                          ELSE /\ v.dsts[d].status = "NotSaved" /\ v.dsts[d].ref = 1
                               /\ \E n \in 1..v.lastTemp : d = DstTemp(n)
      BY DEF DstsFit
    <2>2. CASE New(d)
      BY <1>8, <2>2 DEF DstNew
    <2>3. CASE ~Gone(d) /\ ~New(d)
      <3>1. DstLeft(w, v, d)
        BY <1>9, <2>3
      <3>2. w.dsts[d] # None
        BY <2>1, <3>1 DEF DstLeft
      <3>3. IF d \in Dests THEN w.db.dest[d] # None /\ w.dsts[d].status = "Valid"
            ELSE /\ w.dsts[d].status = "NotSaved" /\ w.dsts[d].ref = 1
                 /\ \E n \in 1..w.lastTemp : d = DstTemp(n)
        BY <1>4, <3>2 DEF DstsFit
      <3> QED BY <1>3, <3>1, <3>2, <3>3 DEF DstLeft
    <2> QED BY <1>7, <2>1, <2>2, <2>3
  <1>13. HandlesFit(v)
    <2>1. SUFFICES ASSUME NEW u \in Sessions, NEW k \in Slots, v.dstH[u][k] # None,
                          v.dstH[u][k].status = "Valid"
                   PROVE  v.dstH[u][k].id \in Dests
      BY DEF HandlesFit
    <2>2. w.dstH[u][k] # None
      BY <1>a, <2>1
    <2>3. w.dstH[u][k].status = "Valid" => w.dstH[u][k].id \in Dests
      BY <1>4, <2>2 DEF HandlesFit
    <2>4. CASE u # s
      BY <1>5, <2>1, <2>2, <2>3, <2>4
    <2>5. CASE u = s
      BY <1>2, <1>5, <2>1, <2>2, <2>3, <2>5 DEF Real
    <2> QED BY <2>4, <2>5
  <1>14. MappedFits(v)
    BY <1>3, <1>4, ReadFits
  <1>15. NoToDelete(w) => NoToDelete(v)
    BY <1>5, <1>a DEF NoToDelete, HandleLeft
  <1>16. FreeDests(v) = FreeDests(p.w)
    BY <1>3 DEF FreeDests
  <1>17. DstTempSlots(v, s) = Unsaved(w, p, s)
    <2>1. ASSUME NEW k \in Slots, w.dstH[s][k] # None
          PROVE  v.dstH[s][k].id \in DstTemps <=> w.dstH[s][k].id \in DstTemps /\ w.dstH[s][k].id \notin DOMAIN new
      <3>1. CASE w.dstH[s][k].id \in DOMAIN new
        <4>1. v.dstH[s][k].id \in Dests
          BY <1>5, <1>6, <2>1, <3>1 DEF Real
        <4> QED BY <3>1, <4>1, IdsApart
      <3>2. CASE w.dstH[s][k].id \notin DOMAIN new
        BY <1>5, <2>1, <3>2 DEF Real
      <3> QED BY <3>1, <3>2
    <2> QED BY <1>a, <2>1 DEF DstTempSlots, Unsaved, new
  <1> QED BY <1>10, <1>11, <1>12, <1>13, <1>14, <1>15, <1>16, <1>17, <1>a

\* Right after the mapping is read it lists what CommsDat lists and has.
LEMMA ReadLists ==
  ASSUME NEW v \in Worlds, MapOK(v), v.deleted.dest = {}
  PROVE  /\ \A d \in Dests : v.db.dest[d] # None => v.mapping.dest[d] # None
         /\ \A d \in Dests : \A x : Has(v.mapping.dest[d], x) => Has(v.db.dest[d], x)
         /\ \A d, e \in Dests : Has(v.db.dest[d], e) /\ v.db.dest[e] # None /\ e # d
              => Has(v.mapping.dest[d], e)
PROOF
  <1> DEFINE S(d) == (ReadConnMethods(v.db, v.deleted)
                        \cup { e \in Dests : v.db.dest[e] # None /\ e \notin v.deleted.dest }) \ {d}
  <1>1. \A d \in Dests : v.mapping.dest[d] =
          IF v.db.dest[d] # None THEN Only(v.db.dest[d], S(d)) ELSE None
    BY MappingRead
  <1>2. \A d, e \in Dests : v.db.dest[e] # None /\ e # d => e \in S(d)
    OBVIOUS
  <1> HIDE DEF S
  <1>3. ASSUME NEW d \in Dests, v.db.dest[d] # None
        PROVE  /\ v.mapping.dest[d] # None
               /\ ToSet(v.mapping.dest[d]) = ToSet(v.db.dest[d]) \cap S(d)
    <2> DEFINE q == v.db.dest[d]
               I == S(d)
    <2>1. q \in Seq(Cms \cup Dests)
      BY <1>3 DEF Worlds, Data, Items
    <2>2. v.mapping.dest[d] = Only(q, I)
      BY <1>1, <1>3
    <2> HIDE DEF q, I
    <2>3. Only(q, I) \in Seq(Cms \cup Dests) /\ ToSet(Only(q, I)) = ToSet(q) \cap I
      BY <2>1, OnlyIn
    <2>4. Only(q, I) # None
      BY <2>3, ItemsIn DEF Items
    <2> QED BY <2>2, <2>3, <2>4 DEF q, I
  <1> QED BY <1>1, <1>2, <1>3 DEF Has

\* What is listed after a commit was listed before it, by the same destination.
LEMMA CommitEmbeds ==
  ASSUME NEW w, Core(w), NEW s \in Sessions, NEW p, Saving(w, p, s), NEW v, Written(p, v, s),
         NEW d \in DstIds, NEW e \in DstIds, Embeds(v, d, e)
  PROVE  \E b \in DstIds : Real(p.newDst, b) = d /\ Embeds(w, b, e)
PROOF
  <1> DEFINE new == p.newDst
  <1>1. DstsSplit(w, v, s, p) /\ SavingLists(w, p, s)
    BY DstsSplitIs DEF Saving
  <1>2. /\ new \in [DOMAIN new -> Dests] /\ DOMAIN new \subseteq DstTemps /\ w \in Worlds
    BY SavingFacts
  <1>3. /\ v.db = p.w.db /\ v.deleted.dest = {} /\ v \in Worlds /\ MapOK(v)
    BY DEF Written, Saving, Core, MappedFits
  <1>4. \A k \in Slots : w.dstH[s][k] # None => w.dstH[s][k].id \in DstIds
    BY HeldDst
  <1>5. \A u \in Sessions : \A k \in Slots : w.dstH[u][k] # None => w.dstH[u][k].id \in DstIds
    BY HeldDst
  <1> HIDE DEF new
  <1>6. ASSUME d \in Dests, Has(v.db.dest[d], e)
        PROVE  \E b \in DstIds : Real(new, b) = d /\ Embeds(w, b, e)
    <2>1. e \in Dests
      <3>1. v.db.dest[d] # None /\ e \in ToSet(v.db.dest[d])
        BY <1>6 DEF Has
      <3>2. v.db.dest[d] \in Seq(Cms \cup Dests)
        BY <1>3, <1>6, <3>1 DEF Worlds, Data, Items
      <3>3. e \in Cms \cup Dests
        BY <3>1, <3>2, LenProperties, ElementOfSeq DEF ToSet
      <3> QED BY <3>3, IdsApart
    <2>2. Has(w.db.dest[d], e) \/ ListedDst(w, p, s, d, e)
      BY <1>1, <1>3, <1>6, <2>1 DEF SavingLists
    <2>3. CASE Has(w.db.dest[d], e)
      <3>1. Real(new, d) = d
        BY <1>2, <1>6, IdsApart DEF Real
      <3>2. Embeds(w, d, e)
        BY <1>6, <2>3 DEF Embeds
      <3> QED BY <3>1, <3>2
    <2>4. CASE ListedDst(w, p, s, d, e)
      <3>1. PICK k \in Slots : /\ w.dstH[s][k] # None /\ Real(new, w.dstH[s][k].id) = d
                               /\ e \in ToSet(w.dstH[s][k].items)
        BY <2>4 DEF ListedDst, new
      <3>2. Embeds(w, w.dstH[s][k].id, e)
        BY <3>1 DEF Embeds
      <3> QED BY <1>4, <3>1, <3>2
    <2> QED BY <2>2, <2>3, <2>4
  <1>7. ASSUME d \in Dests, Has(v.mapping.dest[d], e) PROVE Has(v.db.dest[d], e)
    BY <1>3, <1>7, ReadLists
  <1>8. ASSUME NEW u \in Sessions, NEW k \in Slots, v.dstH[u][k] # None, v.dstH[u][k].id = d,
               e \in ToSet(v.dstH[u][k].items)
        PROVE  \E b \in DstIds : Real(new, b) = d /\ Embeds(w, b, e)
    <2>1. HandleLeft(v.dstH[u][k], w.dstH[u][k])
      BY <1>1 DEF DstsSplit
    <2>2. w.dstH[u][k] # None /\ e \in ToSet(w.dstH[u][k].items)
      BY <1>8, <2>1 DEF HandleLeft
    <2> DEFINE b == w.dstH[u][k].id
    <2>3. Embeds(w, b, e) /\ b \in DstIds
      BY <1>5, <2>2 DEF Embeds
    <2>4. CASE u = s
      <3>1. Real(new, b) = d
        BY <1>1, <1>8, <2>2, <2>4 DEF DstsSplit, new
      <3> QED BY <2>3, <3>1
    <2>5. CASE u # s
      <3>1. b = d
        BY <1>1, <1>8, <2>2, <2>5, SMTT(60) DEF DstsSplit
      <3>2. u \in DstHolders(w, b)
        BY <2>2, HeldDst
      <3>3. b \notin DOMAIN new
        BY <1>1, <2>5, <3>2 DEF DstsSplit, DstGone, new
      <3> QED BY <2>3, <3>1, <3>3 DEF Real
    <2> QED BY <2>4, <2>5
  <1>9. \/ d \in Dests /\ (Has(v.db.dest[d], e) \/ Has(v.mapping.dest[d], e))
        \/ \E u \in Sessions : \E k \in Slots :
             v.dstH[u][k] # None /\ v.dstH[u][k].id = d /\ e \in ToSet(v.dstH[u][k].items)
    BY DEF Embeds
  <1>10. \E b \in DstIds : Real(new, b) = d /\ Embeds(w, b, e)
    BY <1>6, <1>7, <1>8, <1>9
  <1> QED BY <1>10 DEF new

\* What destinations list stays whole.
LEMMA CommitKeepsWhole ==
  ASSUME NEW w, Core(w), NEW s \in Sessions, NEW p, Saving(w, p, s), NEW v, Written(p, v, s), Whole(w)
  PROVE  Whole(v)
PROOF
  <1> DEFINE new == p.newDst
             Again(i) == i \in p.savedCm \cap Cms
             New(i)   == \E t \in DOMAIN p.newCm : p.newCm[t] = i
  <1>1. CmsSplit(w, v, s, p) /\ SavingLists(w, p, s) /\ DstsSplit(w, v, s, p) /\ SavingDsts(w, p, s)
    BY CmsSplitIs, DstsSplitIs DEF Saving
  <1>2. /\ new \in [DOMAIN new -> Dests] /\ DOMAIN new \subseteq DstTemps
        /\ DOMAIN p.newCm \subseteq CmTemps
    BY SavingFacts
  <1>3. /\ v.db = p.w.db /\ v.deleted.dest = {} /\ v \in Worlds /\ MapOK(v)
    BY DEF Written, Saving, Core, MappedFits
  <1>4. ListedStored(w) /\ HiddenUnlisted(w) /\ OneDeep(w) /\ MappedFits(w) /\ CmsFit(w)
    BY DEF Whole, Core
  <1>5. \A c \in Cms : c \in CmIds /\ c \notin DOMAIN p.newCm
    BY <1>2, IdsApart
  <1>6. \A c \in Cms : \/ New(c) /\ CmStored(v, s, c)
                       \/ Again(c) /\ CmStored(v, s, c)
                       \/ CmLeft(w, v, s, c)
    BY <1>1, <1>5 DEF CmsSplit, CmNew, CmHeldStored
  <1>7. \A c \in Cms : New(c) \/ Again(c) => CmStored(v, s, c)
    BY <1>1, <1>5 DEF CmsSplit, CmNew, CmHeldStored
  <1>8. \A d \in Dests : \A c \in Cms : Has(v.db.dest[d], c) =>
          Has(w.db.dest[d], c) \/ Again(c) \/ New(c) \/ c \in w.mapping.cm
    BY <1>1, <1>3 DEF SavingLists, ListedCm
  <1>9. \A d, e \in DstIds : Embeds(v, d, e) => \E b \in DstIds : Real(new, b) = d /\ Embeds(w, b, e)
    BY CommitEmbeds
  <1>10. \A t \in DOMAIN new : w.db.dest[new[t]] = None /\ new[t] \in Dests
    BY <1>1 DEF DstsSplit, DstNew
  <1>11. \A d \in Dests : w.db.dest[d] # None => v.db.dest[d] # None
    BY <1>1, <1>3 DEF SavingDsts
  <1> HIDE DEF new, Again, New
  <1>12. \A c \in Cms : w.db.cm[c] # None => v.db.cm[c] # None
    BY <1>6 DEF CmStored, CmLeft
  <1>13. \A d \in DstIds, e \in Dests : Embeds(w, d, e) => w.db.dest[e] # None
    BY <1>4 DEF ListedStored
  <1>14. Dests \subseteq DstIds
    BY IdsApart
  <1>15. OneDeep(v)
    <2>1. SUFFICES ASSUME NEW d \in DstIds, NEW e \in DstIds, NEW x \in DstIds,
                          Embeds(v, d, e), Embeds(v, e, x)
                   PROVE  FALSE
      BY DEF OneDeep
    <2>2. PICK a \in DstIds : Real(new, a) = d /\ Embeds(w, a, e)
      BY <1>9, <2>1
    <2>3. PICK b \in DstIds : Real(new, b) = e /\ Embeds(w, b, x)
      BY <1>9, <2>1
    <2>4. b \in DOMAIN new
      <3>1. b # e
        BY <1>4, <2>2, <2>3 DEF OneDeep
      <3> QED BY <2>3, <3>1 DEF Real
    <2>5. e = new[b]
      BY <2>3, <2>4 DEF Real
    <2> QED BY <1>10, <1>13, <2>2, <2>4, <2>5
  <1>16. ASSUME NEW d \in Dests, v.db.dest[d] # None, NEW c \in ToSet(v.db.dest[d]) \cap Cms
         PROVE  v.db.cm[c] # None
    <2>1. Has(v.db.dest[d], c)
      BY <1>16 DEF Has
    <2>2. CASE Has(w.db.dest[d], c)
      BY <1>4, <1>12, <2>2 DEF ListedStored, Has
    <2>3. CASE Again(c) \/ New(c)
      BY <1>7, <2>3 DEF CmStored
    <2>4. CASE c \in w.mapping.cm
      BY <1>4, <1>12, <2>4 DEF MappedFits
    <2> QED BY <1>8, <2>1, <2>2, <2>3, <2>4
  <1>17. \A d \in DstIds, e \in Dests : Embeds(v, d, e) => v.db.dest[e] # None
    BY <1>9, <1>11, <1>13, <1>14
  <1>18. \A d \in Dests : v.db.dest[d] # None => v.mapping.dest[d] # None
    BY <1>3, ReadLists
  <1>19. ASSUME NEW d \in Dests, NEW e \in Dests, Has(v.db.dest[d], e) PROVE Has(v.mapping.dest[d], e)
    <2>1. Embeds(v, d, e)
      BY <1>19 DEF Embeds
    <2>2. v.db.dest[e] # None
      BY <1>14, <1>17, <2>1
    <2>3. e # d
      BY <1>14, <1>15, <2>1 DEF OneDeep
    <2> QED BY <1>3, <1>19, <2>2, <2>3, ReadLists
  <1>20. ListedStored(v)
    BY <1>16, <1>17, <1>18, <1>19 DEF ListedStored
  <1>21. HiddenUnlisted(v)
    <2>1. SUFFICES ASSUME NEW c \in Cms, v.cms[c] # None, v.cms[c].status = "ToBeDeleted",
                          NEW d \in Dests, Has(v.db.dest[d], c)
                   PROVE  FALSE
      BY DEF HiddenUnlisted
    <2>2. ~New(c) /\ ~Again(c)
      BY <1>7, <2>1 DEF CmStored
    <2>3. CmLeft(w, v, s, c)
      BY <1>6, <2>2
    <2>4. w.cms[c] # None /\ w.cms[c].status = "ToBeDeleted"
      BY <2>1, <2>3 DEF CmLeft
    <2>5. c \in w.deleted.cm
      BY <1>4, <1>5, <2>4 DEF CmsFit
    <2>6. c \notin w.mapping.cm
      BY <1>4, <2>5 DEF MappedFits
    <2>7. ~Has(w.db.dest[d], c)
      BY <1>4, <2>4 DEF HiddenUnlisted
    <2> QED BY <1>8, <2>1, <2>2, <2>6, <2>7
  <1> QED BY <1>15, <1>20, <1>21 DEF Whole

\* s has handles to destinations in the same slots.
SameSlots(w, v, s) == \A k \in Slots : v.dstH[s][k] = None <=> w.dstH[s][k] = None

\* A commit keeps everything, and leaves ids for what is still unsaved.
LEMMA CommitKeeps ==
  ASSUME NEW w, Core(w), NEW s \in Sessions, NEW p, Saving(w, p, s), NEW v, Written(p, v, s)
  PROVE  /\ Keeps(w, v) /\ v \in Worlds /\ RoomIn(v, s)
         /\ SameSlots(w, v, s)
PROOF
  <1>1. /\ CmsCounted(v) /\ CmsFit(v)
        /\ Current(w) => Current(v)
        /\ Agree(w) => Agree(v)
        /\ FreeCms(v) = FreeCms(p.w)
        /\ CmTempsHeld(v, s) = CmTempsHeld(w, s) \ DOMAIN p.newCm
    BY CommitKeepsCms
  <1>2. /\ DstsCounted(v) /\ OneSlot(v) /\ DstsFit(v) /\ HandlesFit(v) /\ MappedFits(v)
        /\ NoToDelete(w) => NoToDelete(v)
        /\ FreeDests(v) = FreeDests(p.w)
        /\ DstTempSlots(v, s) = Unsaved(w, p, s)
        /\ \A k \in Slots : v.dstH[s][k] = None <=> w.dstH[s][k] = None
    BY CommitKeepsDsts
  <1>3. Whole(w) => Whole(v)
    BY CommitKeepsWhole
  <1>4. v \in Worlds /\ MapOK(v)
    BY DEF Written
  <1>5. Cardinality(CmTempsHeld(w, s) \ DOMAIN p.newCm) <= Cardinality(FreeCms(p.w))
    BY DEF Saving, SavingCms
  <1>6. Cardinality(Unsaved(w, p, s)) <= Cardinality(FreeDests(p.w))
    BY DEF Saving, SavingDsts
  <1>7. RoomIn(v, s)
    BY <1>1, <1>2, <1>5, <1>6 DEF RoomIn
  <1>8. Core(v)
    BY <1>1, <1>2, <1>4 DEF Core
  <1> QED BY <1>1, <1>2, <1>3, <1>4, <1>7, <1>8 DEF Keeps, KeepsLists, KeepsMost, SameSlots

\* UpdateDestinationL for the handle in slot k.
LEMMA SaveKeeps ==
  ASSUME NEW w, Core(w), NEW s \in Sessions, NEW k \in Slots, w.dstH[s][k] # None,
         NoToDelete(w), RoomIn(w, s)
  PROVE  LET p == SavingDst(w, s, k)
             v == Committed(p, s)
         IN /\ p.panic = FALSE /\ p.ok = TRUE /\ Outcome(p, w, s) = v
            /\ Keeps(w, v) /\ v \in Worlds /\ RoomIn(v, s)
            /\ SameSlots(w, v, s)
PROOF
  <1> DEFINE p == SavingDst(w, s, k)
             v == Committed(p, s)
  <1>1. Saving(w, p, s)
    BY SavingDstSaves
  <1> HIDE DEF p
  <1>2. p.panic = FALSE /\ p.ok = TRUE
    BY <1>1 DEF Saving
  <1>3. Written(p, v, s)
    BY <1>1, CommittedIs
  <1>4. Outcome(p, w, s) = v
    BY <1>2 DEF Outcome
  <1> HIDE DEF v
  <1>5. /\ Keeps(w, v) /\ v \in Worlds /\ RoomIn(v, s)
        /\ SameSlots(w, v, s)
    BY <1>1, <1>3, CommitKeeps
  <1> QED BY <1>2, <1>4, <1>5 DEF v, p

\* New items need no ids.
LEMMA WithItemsRoom ==
  ASSUME NEW w, Core(w), NEW s \in Sessions, NEW k \in Slots, w.dstH[s][k] # None, RoomIn(w, s),
         NEW q \in Seq(CmIds \cup DstIds), NEW t \in Seq(CmIds)
  PROVE  LET v == WithItems(w, s, k, q, t)
         IN RoomIn(v, s) /\ SameSlots(w, v, s)
PROOF
  <1> DEFINE v == WithItems(w, s, k, q, t)
             h == [id |-> w.dstH[s][k].id, status |-> "Changed", items |-> q, toDelete |-> t]
  <1>1. /\ v.db = w.db /\ v.cmH = w.cmH /\ h \in DstHandles
        /\ \A u \in Sessions : \A l \in Slots : v.dstH[u][l] = IF u = s /\ l = k THEN h ELSE w.dstH[u][l]
    BY WithItemsMost
  <1>2. h.id = w.dstH[s][k].id
    OBVIOUS
  <1> HIDE DEF v, h
  <1>3. h # None
    BY <1>1, NoneIsNothing
  <1>4. FreeCms(v) = FreeCms(w) /\ FreeDests(v) = FreeDests(w) /\ CmTempsHeld(v, s) = CmTempsHeld(w, s)
    BY <1>1 DEF FreeCms, FreeDests, CmTempsHeld
  <1>5. \A l \in Slots : /\ v.dstH[s][l] = None <=> w.dstH[s][l] = None
                         /\ w.dstH[s][l] # None => v.dstH[s][l].id = w.dstH[s][l].id
    BY <1>1, <1>2, <1>3
  <1>6. DstTempSlots(v, s) = DstTempSlots(w, s)
    BY <1>5 DEF DstTempSlots
  <1> QED BY <1>4, <1>5, <1>6 DEF RoomIn, SameSlots, v

\* With a CM more, or less, in a handle of s.
LEMMA ItemsRoom ==
  ASSUME NEW w, Core(w), NEW s \in Sessions, NEW k \in Slots, w.dstH[s][k] # None, RoomIn(w, s),
         NEW i \in CmIds
  PROVE  /\ Keeps(w, ItemLeft(w, s, k, i)) /\ RoomIn(ItemLeft(w, s, k, i), s)
         /\ SameSlots(w, ItemLeft(w, s, k, i), s)
         /\ Keeps(w, WithCmAdded(w, s, k, i)) /\ RoomIn(WithCmAdded(w, s, k, i), s)
         /\ SameSlots(w, WithCmAdded(w, s, k, i), s)
PROOF
  <1> DEFINE items == w.dstH[s][k].items
             t == w.dstH[s][k].toDelete
             q == Without(items, {i})
             n == IF items # << >> /\ IsEmbedded(Last(items)) THEN Len(items) - 1 ELSE Len(items)
             m == n + 1
             r == InsertAt(items, m, i)
             x == Without(t, {i})
  <1>1. w.dstH[s][k] \in DstHandles
    BY DEF Core, Worlds
  <1>2. items \in Seq(CmIds \cup DstIds) /\ t \in Seq(CmIds)
    BY <1>1 DEF DstHandles
  <1>3. q \in Seq(CmIds \cup DstIds) /\ x \in Seq(CmIds)
    BY <1>2, WithoutIn
  <1>4. m \in 1..Len(items) + 1
    <2>1. Len(items) \in Nat /\ (items # << >> => Len(items) # 0)
      BY <1>2, LenProperties, EmptySeq
    <2> QED BY <2>1, SMTT(60)
  <1>5. r \in Seq(CmIds \cup DstIds)
    <2>1. i \in CmIds \cup DstIds
      OBVIOUS
    <2> HIDE DEF m, items
    <2> QED BY <1>2, <1>4, <2>1, InsertAtIn
  <1>6. ItemLeft(w, s, k, i) = WithItems(w, s, k, q, t)
    BY DEF ItemLeft
  <1>7. WithCmAdded(w, s, k, i) = WithItems(w, s, k, r, x)
    BY DEF WithCmAdded
  <1> HIDE DEF q, t, r, x
  <1>8. /\ RoomIn(WithItems(w, s, k, q, t), s)
        /\ SameSlots(w, WithItems(w, s, k, q, t), s)
    BY <1>2, <1>3, WithItemsRoom
  <1>9. /\ RoomIn(WithItems(w, s, k, r, x), s)
        /\ SameSlots(w, WithItems(w, s, k, r, x), s)
    BY <1>3, <1>5, WithItemsRoom
  <1>10. Keeps(w, ItemLeft(w, s, k, i)) /\ Keeps(w, WithCmAdded(w, s, k, i))
    BY ItemLeftKeeps, WithCmAddedKeeps
  <1> QED BY <1>6, <1>7, <1>8, <1>9, <1>10

\* Items of a handle change, then the destination in slot k is saved.
LEMMA SavedAfterKeeps ==
  ASSUME NEW w, Core(w), NEW s \in Sessions, NEW k \in Slots, NoToDelete(w), NEW x, Keeps(w, x),
         RoomIn(x, s), x.dstH[s][k] # None
  PROVE  LET p == SavingDst(x, s, k)
             v == Committed(p, s)
         IN /\ p.panic = FALSE /\ p.ok = TRUE /\ Outcome(p, x, s) = v
            /\ Keeps(w, v) /\ v \in Worlds /\ RoomIn(v, s) /\ Core(v) /\ NoToDelete(v)
            /\ SameSlots(x, v, s)
PROOF
  <1> DEFINE p == SavingDst(x, s, k)
             v == Committed(p, s)
  <1>1. Core(x) /\ NoToDelete(x)
    BY DEF Keeps, KeepsLists, KeepsMost
  <1>2. /\ p.panic = FALSE /\ p.ok = TRUE /\ Outcome(p, x, s) = v
        /\ Keeps(x, v) /\ v \in Worlds /\ RoomIn(v, s)
        /\ SameSlots(x, v, s)
    BY <1>1, SaveKeeps
  <1> HIDE DEF v, p
  <1>3. Keeps(w, v)
    BY <1>2, KeepsBoth
  <1>4. Core(v) /\ NoToDelete(v)
    BY <1>3 DEF Keeps, KeepsLists, KeepsMost
  <1> QED BY <1>2, <1>3, <1>4 DEF v, p

\* The bound of the requests that save is the one of the lemmas.
LEMMA RoomHere ==
  ASSUME NEW s \in Sessions, RoomToSave(s)
  PROVE  RoomIn(World, s)
PROOF
  <1>1. World.cmH = cmH /\ World.dstH = dstH
    BY DEF World
  <1>2. { i \in CmTemps : cmH[s][i] # None } = CmTempsHeld(World, s)
    BY <1>1 DEF CmTempsHeld
  <1>3. { k \in Slots : dstH[s][k] # None /\ dstH[s][k].id \in DstTemps } = DstTempSlots(World, s)
    BY <1>1 DEF DstTempSlots
  <1> QED BY <1>2, <1>3 DEF RoomToSave, RoomIn

\* UpdateConnMethodL.
LEMMA UpdateConnMethodKeeps ==
  ASSUME Core(World), NEW s \in Sessions, NEW i \in CmIds, UpdateConnMethod(s, i)
  PROVE  Keeps(World, World')
PROOF
  <1> DEFINE w == World
             v == UpdateCm(w, s, i)
             p == SaveCm(Begin(w), s, i)
  <1>1. w.cmH = cmH
    BY DEF World
  <1>2. w.cmH[s][i] # None /\ RoomIn(w, s) /\ Become(v)
    BY <1>1, RoomHere DEF UpdateConnMethod
  <1>3. Core(w)
    OBVIOUS
  <1> HIDE DEF w
  <1>4. Saving(w, p, s) /\ Written(p, v, s)
    BY <1>2, <1>3, CmCommittedIs
  <1> HIDE DEF p, v
  <1>5. Keeps(w, v)
    BY <1>3, <1>4, CommitKeeps
  <1> QED BY <1>2, <1>5, BecomeKeeps DEF w

\* A request that saves a destination once, of a world it has prepared.
LEMMA SaveKeepsWorld ==
  ASSUME Core(World), NoToDelete(World), NEW s \in Sessions, NEW k \in Slots, NEW x,
         Keeps(World, x), RoomIn(x, s), x.dstH[s][k] # None, Save(x, s, k)
  PROVE  Keeps(World, World')
PROOF
  <1> DEFINE w == World
             p == SavingDst(x, s, k)
             v == Committed(p, s)
  <1>1. Core(w) /\ NoToDelete(w) /\ Keeps(w, x)
    OBVIOUS
  <1> HIDE DEF w
  <1>2. p.panic = FALSE /\ Outcome(p, x, s) = v /\ Keeps(w, v) /\ v \in Worlds
    BY <1>1, SavedAfterKeeps
  <1>3. Become(Outcome(p, x, s))
    BY <1>2 DEF Save, Saved
  <1> HIDE DEF p, v
  <1>4. Become(v)
    BY <1>2, <1>3
  <1> QED BY <1>2, <1>4, BecomeKeeps DEF w

\* UpdateDestinationL.
LEMMA UpdateDestinationKeeps ==
  ASSUME Core(World), NoToDelete(World), NEW s \in Sessions, NEW k \in Slots, UpdateDestination(s, k)
  PROVE  Keeps(World, World')
PROOF
  <1>1. World.dstH[s][k] # None /\ RoomIn(World, s) /\ Save(World, s, k)
    BY RoomHere DEF UpdateDestination, World
  <1>2. Keeps(World, World)
    BY DEF Keeps, KeepsLists, KeepsMost
  <1> QED BY <1>1, <1>2, SaveKeepsWorld

\* CopyConnMethodL and RemoveConnMethodL.
LEMMA CopyOrRemoveKeeps ==
  ASSUME Core(World), NoToDelete(World), NEW s \in Sessions, NEW k \in Slots, NEW i \in CmIds,
         CopyConnMethod(s, k, i) \/ RemoveConnMethod(s, k, i)
  PROVE  Keeps(World, World')
PROOF
  <1> DEFINE w == World
             added == WithCmAdded(w, s, k, i)
             left  == ItemLeft(w, s, k, i)
  <1>1. w.cmH = cmH /\ w.dstH = dstH
    BY DEF World
  <1>2. /\ w.dstH[s][k] # None /\ RoomIn(w, s)
        /\ Save(added, s, k) \/ Save(left, s, k)
    BY <1>1, RoomHere DEF CopyConnMethod, RemoveConnMethod, MayAdd
  <1>3. Core(w) /\ NoToDelete(w)
    OBVIOUS
  <1> HIDE DEF w
  <1>4. /\ Keeps(w, left) /\ RoomIn(left, s) /\ SameSlots(w, left, s)
        /\ Keeps(w, added) /\ RoomIn(added, s) /\ SameSlots(w, added, s)
    BY <1>2, <1>3, ItemsRoom
  <1>5. added.dstH[s][k] # None /\ left.dstH[s][k] # None
    BY <1>2, <1>4 DEF SameSlots
  <1> HIDE DEF added, left
  <1> QED BY <1>2, <1>3, <1>4, <1>5, SaveKeepsWorld DEF w

\* MoveConnMethodL: two saves.
LEMMA MoveConnMethodKeeps ==
  ASSUME Core(World), NoToDelete(World), NEW s \in Sessions, NEW from \in Slots, NEW to \in Slots,
         NEW i \in CmIds, MoveConnMethod(s, from, to, i)
  PROVE  Keeps(World, World')
PROOF
  <1> DEFINE w == World
             x == WithCmAdded(w, s, to, i)
             p == SavingDst(x, s, to)
             v == Committed(p, s)
             c == RealId(p, i)
             y == ItemLeft(v, s, from, c)
             q == SavingDst(y, s, from)
             z == Committed(q, s)
  <1>1. w.cmH = cmH /\ w.dstH = dstH
    BY DEF World
  <1>2. /\ w.dstH[s][to] # None /\ w.dstH[s][from] # None /\ RoomIn(w, s)
        /\ Moved(p, x, s, from, i)
    BY <1>1, RoomHere DEF MoveConnMethod, MayAdd
  <1>3. Core(w) /\ NoToDelete(w)
    OBVIOUS
  <1> HIDE DEF w
  <1>4. Keeps(w, x) /\ RoomIn(x, s) /\ SameSlots(w, x, s)
    BY <1>2, <1>3, ItemsRoom
  <1> HIDE DEF x
  <1>t. x.dstH[s][to] # None /\ Keeps(w, x) /\ RoomIn(x, s)
    BY <1>2, <1>4 DEF SameSlots
  <1>5. /\ p.panic = FALSE /\ p.ok = TRUE /\ Outcome(p, x, s) = v
        /\ Keeps(w, v) /\ v \in Worlds /\ RoomIn(v, s) /\ Core(v) /\ NoToDelete(v)
        /\ SameSlots(x, v, s)
    BY <1>3, <1>t, SavedAfterKeeps
  <1>6. TakenOut(v, s, from, c)
    BY <1>2, <1>5 DEF Moved
  <1> HIDE DEF v, c
  <1>7. v.dstH[s][from] # None
    BY <1>2, <1>4, <1>5 DEF SameSlots
  <1>8. CASE Become(v)
    BY <1>5, <1>8, BecomeKeeps DEF w
  <1>9. CASE Has(v.dstH[s][from].items, c) /\ Save(y, s, from)
    <2>1. Keeps(v, y) /\ RoomIn(y, s) /\ y.dstH[s][from] # None
      <3>1. c \in CmIds
        <4>1. p \in Saves
          <5>1. Saving(x, p, s)
            <6>1. Core(x) /\ NoToDelete(x) /\ x.dstH[s][to] # None
              BY <1>2, <1>3, <1>4, <1>t DEF Keeps, KeepsLists, KeepsMost
            <6> QED BY <1>4, <6>1, SavingDstSaves
          <5> QED BY <5>1 DEF Saving
        <4>2. p.newCm \in NewIds(CmTemps, Cms)
          BY <4>1 DEF Saves
        <4>3. p.newCm \in [DOMAIN p.newCm -> Cms]
          BY <4>2, NewIdsIs
        <4> HIDE DEF p
        <4> QED BY <4>3, IdsApart DEF c, RealId, Real
      <3> QED BY <1>5, <1>7, <3>1, ItemsRoom DEF SameSlots
    <2> HIDE DEF y, p
    <2>v. Core(v) /\ NoToDelete(v)
      BY <1>5
    <2>2. /\ q.panic = FALSE /\ Outcome(q, y, s) = z /\ Keeps(v, z) /\ z \in Worlds
      BY <2>1, <2>v, SavedAfterKeeps
    <2>3. Become(Outcome(q, y, s))
      BY <1>9, <2>2 DEF Save, Saved
    <2> HIDE DEF q, z
    <2>4. Keeps(w, z)
      BY <1>5, <2>2, KeepsBoth
    <2>5. Become(z)
      BY <2>2, <2>3
    <2> QED BY <2>4, <2>5, BecomeKeeps DEF w
  <1>10. Become(v) \/ (Has(v.dstH[s][from].items, c) /\ Save(y, s, from))
    BY <1>6 DEF TakenOut
  <1> QED BY <1>8, <1>9, <1>10

\* A mapping that is read is of the mapping's type.
LEMMA ReadMappingIs ==
  ASSUME NEW data \in Data, NEW del
  PROVE  ReadMapping(data, del) \in [cm : SUBSET Cms, dest : [Dests -> Items \cup {None}]]
PROOF
  <1>1. ReadConnMethods(data, del) \in SUBSET Cms
    BY DEF ReadConnMethods
  <1> DEFINE S(d) == (ReadConnMethods(data, del)
                        \cup { e \in Dests : data.dest[e] # None /\ e \notin del.dest }) \ {d}
  <1>2. ASSUME NEW d \in Dests, data.dest[d] # None PROVE Only(data.dest[d], S(d)) \in Items
    <2> DEFINE q == data.dest[d]
               I == S(d)
    <2>1. q \in Seq(Cms \cup Dests)
      BY <1>2 DEF Data, Items
    <2> HIDE DEF q, I
    <2>2. Only(q, I) \in Seq(Cms \cup Dests)
      BY <2>1, OnlyIn
    <2> QED BY <2>2 DEF q, I, Items
  <1> HIDE DEF S
  <1>3. ReadDestinations(data, del, ReadConnMethods(data, del))
          = [d \in Dests |-> IF d \in { e \in Dests : data.dest[e] # None /\ e \notin del.dest }
                             THEN Only(data.dest[d], S(d)) ELSE None]
    BY DEF ReadDestinations, S
  <1>4. ReadDestinations(data, del, ReadConnMethods(data, del)) \in [Dests -> Items \cup {None}]
    BY <1>2, <1>3
  <1> QED BY <1>1, <1>4 DEF ReadMapping

\* Records whose items exist and whose embedded destinations embed none.
WholeData(data) == \A d \in Dests : data.dest[d] # None => \A i \in ToSet(data.dest[d]) :
    /\ i \in Cms => data.cm[i] # None
    /\ i \in Dests => data.dest[i] # None /\ ~HasEmbedded(data.dest[i])

\* A server that has just started has every part of the invariant, except that
\* its destinations are whole only if the records are.
LEMMA StartedIs ==
  ASSUME NEW data \in Data
  PROVE  LET v == Started(data)
         IN /\ Core(v) /\ MapOK(v) /\ Current(v) /\ Agree(v) /\ NoToDelete(v)
            /\ v.db = data
            /\ WholeData(data) => Whole(v)
PROOF
  <1> DEFINE v == Started(data)
             m == ReadMapping(data, NothingDeleted)
  <1>1. /\ v.db = data /\ v.mapping = m /\ v.deleted = NothingDeleted
        /\ v.cms = [i \in CmIds |-> None] /\ v.dsts = [d \in DstIds |-> None]
        /\ v.cmH = [s \in Sessions |-> [i \in CmIds |-> None]]
        /\ v.dstH = [s \in Sessions |-> [k \in Slots |-> None]] /\ v.lastTemp = 0
    BY DEF Started, NoStructs
  <1>2. m \in [cm : SUBSET Cms, dest : [Dests -> Items \cup {None}]]
    BY ReadMappingIs
  <1>3. NothingDeleted \in [cm : SUBSET Cms, dest : SUBSET Dests] /\ NothingDeleted.dest = {}
    BY DEF NothingDeleted
  <1>4. 0 \in 0..MaxTemp
    BY BoundsAssumption
  <1>5. v \in Worlds
    <2> HIDE DEF m
    <2>1. v = [db |-> data, mapping |-> m, deleted |-> NothingDeleted, cms |-> NoStructs(CmIds),
               dsts |-> NoStructs(DstIds), cmH |-> [s \in Sessions |-> NoStructs(CmIds)],
               dstH |-> [s \in Sessions |-> NoStructs(Slots)], lastTemp |-> 0]
      BY DEF Started, m
    <2>2. /\ NoStructs(CmIds) \in [CmIds -> CmStructs \cup {None}]
          /\ NoStructs(DstIds) \in [DstIds -> DstStructs \cup {None}]
          /\ NoStructs(CmIds) \in [CmIds -> CmHandles \cup {None}]
          /\ NoStructs(Slots) \in [Slots -> DstHandles \cup {None}]
      BY DEF NoStructs
    <2> HIDE DEF v
    <2> QED BY <1>2, <1>3, <1>4, <2>1, <2>2 DEF Worlds
  <1> HIDE DEF v, m
  <1>6. MapOK(v)
    BY <1>1 DEF MapOK, m
  <1>7. MappedFits(v)
    BY <1>1, <1>3, <1>5, <1>6, ReadFits
  <1>8. CmsCounted(v) /\ CmsFit(v) /\ Current(v)
    BY <1>1, IdsApart DEF CmsCounted, CmsFit, Current, Holders
  <1>9. DstsCounted(v) /\ DstsFit(v) /\ OneSlot(v) /\ HandlesFit(v) /\ NoToDelete(v)
    BY <1>1 DEF DstsCounted, DstsFit, OneSlot, HandlesFit, NoToDelete, DstHolders, SlotsOf
  <1>10. Agree(v)
    BY <1>1, IdsApart DEF Agree
  <1>11. ASSUME WholeData(data) PROVE Whole(v)
    <2>1. /\ \A d \in Dests : v.db.dest[d] # None => v.mapping.dest[d] # None
          /\ \A d \in Dests : \A x : Has(v.mapping.dest[d], x) => Has(v.db.dest[d], x)
          /\ \A d, e \in Dests : Has(v.db.dest[d], e) /\ v.db.dest[e] # None /\ e # d
              => Has(v.mapping.dest[d], e)
      BY <1>1, <1>3, <1>5, <1>6, ReadLists
    <2>2. ASSUME NEW d, NEW e, Embeds(v, d, e) PROVE d \in Dests /\ Has(data.dest[d], e)
      BY <1>1, <2>1, <2>2 DEF Embeds
    <2>3. ASSUME NEW d \in Dests, NEW e \in DstIds, Has(data.dest[d], e)
          PROVE  e \in Dests /\ data.dest[e] # None /\ ~HasEmbedded(data.dest[e])
      <3>1. data.dest[d] # None /\ e \in ToSet(data.dest[d])
        BY <2>3 DEF Has
      <3>2. data.dest[d] \in Seq(Cms \cup Dests)
        BY <3>1 DEF Data, Items
      <3>3. e \in Cms \cup Dests
        BY <3>1, <3>2, LenProperties, ElementOfSeq DEF ToSet
      <3>4. e \in Dests
        BY <3>3, <2>3, IdsApart
      <3> QED BY <1>11, <3>1, <3>4 DEF WholeData
    <2>4. ASSUME NEW d \in Dests, NEW e \in Dests, Has(data.dest[d], e) PROVE e # d
      <3>1. ~HasEmbedded(data.dest[e])
        BY <2>3, <2>4, IdsApart
      <3>2. HasEmbedded(data.dest[d])
        BY <2>4, EmbeddedIn, IdsApart DEF Has
      <3> QED BY <3>1, <3>2
    <2>5. ListedStored(v)
      <3>1. ASSUME NEW d \in Dests, v.db.dest[d] # None, NEW c \in ToSet(v.db.dest[d]) \cap Cms
            PROVE  v.db.cm[c] # None
        BY <1>1, <1>11, <3>1 DEF WholeData
      <3>2. ASSUME NEW d \in DstIds, NEW e \in Dests, Embeds(v, d, e) PROVE v.db.dest[e] # None
        BY <1>1, <2>2, <2>3, <3>2, IdsApart
      <3>3. ASSUME NEW d \in Dests, NEW e \in Dests, Has(v.db.dest[d], e) PROVE Has(v.mapping.dest[d], e)
        BY <1>1, <2>1, <2>3, <2>4, <3>3, IdsApart
      <3> QED BY <2>1, <3>1, <3>2, <3>3 DEF ListedStored
    <2>6. HiddenUnlisted(v)
      BY <1>1, IdsApart DEF HiddenUnlisted
    <2>7. ASSUME NEW d \in DstIds, NEW e \in DstIds, NEW x \in DstIds, Embeds(v, d, e), Embeds(v, e, x)
          PROVE  FALSE
      <3>1. ~HasEmbedded(data.dest[e])
        BY <2>2, <2>3, <2>7
      <3>2. Has(data.dest[e], x)
        BY <2>2, <2>7
      <3>3. HasEmbedded(data.dest[e])
        BY <3>2, EmbeddedIn DEF Has
      <3> QED BY <3>1, <3>3
    <2> QED BY <2>5, <2>6, <2>7 DEF Whole, OneDeep
  <1> QED BY <1>1, <1>5, <1>6, <1>7, <1>8, <1>9, <1>10, <1>11 DEF Core, v

\* Destinations that are whole leave records that are.
LEMMA WholeLeaves ==
  ASSUME NEW w \in Worlds, Whole(w)
  PROVE  WholeData(w.db)
PROOF
  <1>1. SUFFICES ASSUME NEW d \in Dests, w.db.dest[d] # None, NEW i \in ToSet(w.db.dest[d])
                 PROVE  /\ i \in Cms => w.db.cm[i] # None
                        /\ i \in Dests => w.db.dest[i] # None /\ ~HasEmbedded(w.db.dest[i])
    BY DEF WholeData
  <1>2. i \in Cms => w.db.cm[i] # None
    BY <1>1 DEF Whole, ListedStored
  <1>3. ASSUME i \in Dests PROVE w.db.dest[i] # None /\ ~HasEmbedded(w.db.dest[i])
    <2>1. Embeds(w, d, i) /\ d \in DstIds /\ i \in DstIds
      BY <1>1, <1>3, IdsApart DEF Embeds, Has
    <2>2. w.db.dest[i] # None
      BY <1>3, <2>1 DEF Whole, ListedStored
    <2>3. ASSUME HasEmbedded(w.db.dest[i]) PROVE FALSE
      <3>1. PICK x \in DstIds : x \in ToSet(w.db.dest[i])
        BY <2>2, <2>3, EmbeddedIn
      <3>2. Embeds(w, i, x)
        BY <1>3, <2>2, <3>1 DEF Embeds, Has
      <3> QED BY <2>1, <3>1, <3>2 DEF Whole, OneDeep
    <2> QED BY <2>2, <2>3
  <1> QED BY <1>2, <1>3

\* CommsDat's notification: the cache forgets what it has loaded, and the
\* mapping is read again.
Told(w) == [w EXCEPT !.cms = [i \in CmIds |-> Expired(w.cms[i])],
                     !.mapping = ReadMapping(w.db, w.deleted)]

\* DbChangeDetectedL.
LEMMA ToldKeeps ==
  ASSUME NEW w, Core(w)
  PROVE  Keeps(w, Told(w)) /\ MapOK(Told(w)) /\ Current(Told(w))
PROOF
  <1> DEFINE v == Told(w)
             m == ReadMapping(w.db, w.deleted)
             f == [i \in CmIds |-> Expired(w.cms[i])]
  <1>1. w \in Worlds /\ w.db \in Data /\ w.deleted.dest = {}
    BY DEF Core, MappedFits, Worlds
  <1>2. /\ v.db = w.db /\ v.mapping = m /\ v.deleted = w.deleted /\ v.cms = f /\ v.dsts = w.dsts
        /\ v.cmH = w.cmH /\ v.dstH = w.dstH /\ v.lastTemp = w.lastTemp
    BY <1>1 DEF Told, Worlds
  <1>3. \A i \in CmIds :
          /\ f[i] \in CmStructs \cup {None} /\ (f[i] = None <=> w.cms[i] = None)
          /\ w.cms[i] # None =>
               /\ f[i].status = w.cms[i].status /\ f[i].ref = w.cms[i].ref /\ f[i].made = w.cms[i].made
               /\ f[i].rec # "Loaded" /\ (f[i].rec = "Unsaved" => w.cms[i].rec = "Unsaved")
    <2>1. SUFFICES ASSUME NEW i \in CmIds, w.cms[i] # None
                   PROVE  LET g == Expired(w.cms[i])
                          IN /\ g \in CmStructs /\ g.status = w.cms[i].status /\ g.ref = w.cms[i].ref
                             /\ g.made = w.cms[i].made /\ g.rec # "Loaded"
                             /\ g.rec = "Unsaved" => w.cms[i].rec = "Unsaved"
      BY NoneIsNothing DEF Expired
    <2> DEFINE x == w.cms[i]
    <2>2. x \in CmStructs /\ x # None
      BY <1>1, <2>1 DEF Worlds
    <2> HIDE DEF x
    <2>3. CASE x.rec = "Loaded"
      <3>1. Expired(x) = [x EXCEPT !.rec = "Expired"]
        BY <2>2, <2>3 DEF Expired
      <3> QED BY <2>2, <3>1 DEF CmStructs, x
    <2>4. CASE x.rec # "Loaded"
      <3>1. Expired(x) = x
        BY <2>4 DEF Expired
      <3> QED BY <2>2, <2>4, <3>1 DEF x
    <2> QED BY <2>3, <2>4
  <1>4. m \in [cm : SUBSET Cms, dest : [Dests -> Items \cup {None}]]
    BY <1>1, ReadMappingIs
  <1>5. v \in Worlds
    <2>1. f \in [CmIds -> CmStructs \cup {None}]
      BY <1>3
    <2> HIDE DEF f, m
    <2>2. v = [w EXCEPT !.cms = f, !.mapping = m]
      BY DEF Told, f, m
    <2> HIDE DEF v
    <2> QED BY <1>1, <1>4, <2>1, <2>2 DEF Worlds
  <1> HIDE DEF v, f, m
  <1>6. MapOK(v)
    BY <1>2 DEF MapOK, m
  <1>7. MappedFits(v)
    BY <1>1, <1>2, <1>5, <1>6, ReadFits
  <1>8. CmsCounted(v) /\ CmsFit(v)
    <2>1. SameCms(w, v)
      <3>1. w.lastTemp <= v.lastTemp
        BY <1>1, <1>2, BoundsAssumption DEF Worlds
      <3>2. \A c \in Cms : w.cms[c] # None => v.db.cm[c] # None
        BY <1>2, IdsApart DEF Core, CmsFit
      <3> QED BY <1>2, <1>3, <3>1, <3>2 DEF SameCms
    <2> QED BY <1>1, <1>5, <2>1, SameCmsFit DEF Core
  <1>9. DstsCounted(v) /\ OneSlot(v) /\ DstsFit(v) /\ HandlesFit(v)
    BY <1>2 DEF Core, DstsCounted, OneSlot, DstsFit, HandlesFit, DstHolders, SlotsOf
  <1>10. Current(v)
    BY <1>2, <1>3, IdsApart DEF Current
  <1>11. (Agree(w) => Agree(v)) /\ (NoToDelete(w) => NoToDelete(v))
    BY <1>2 DEF Agree, NoToDelete
  <1>12. ASSUME Whole(w) PROVE Whole(v)
    <2>1. /\ \A d \in Dests : v.db.dest[d] # None => v.mapping.dest[d] # None
          /\ \A d \in Dests : \A x : Has(v.mapping.dest[d], x) => Has(v.db.dest[d], x)
          /\ \A d, e \in Dests : Has(v.db.dest[d], e) /\ v.db.dest[e] # None /\ e # d
              => Has(v.mapping.dest[d], e)
      BY <1>1, <1>2, <1>5, <1>6, ReadLists
    <2>2. \A d, e : Embeds(v, d, e) => Embeds(w, d, e)
      BY <1>2, <2>1 DEF Embeds
    <2>3. ListedStored(v)
      <3>1. \A d \in Dests : v.db.dest[d] # None => \A c \in ToSet(v.db.dest[d]) \cap Cms : v.db.cm[c] # None
        BY <1>2, <1>12 DEF Whole, ListedStored
      <3>2. \A d \in DstIds, e \in Dests : Embeds(v, d, e) => v.db.dest[e] # None
        BY <1>2, <1>12, <2>2 DEF Whole, ListedStored
      <3>3. ASSUME NEW d \in Dests, NEW e \in Dests, Has(v.db.dest[d], e) PROVE Has(v.mapping.dest[d], e)
        <4>1. Embeds(w, d, e) /\ d \in DstIds /\ e \in DstIds
          BY <1>2, <3>3, IdsApart DEF Embeds
        <4>2. v.db.dest[e] # None
          BY <1>2, <1>12, <4>1 DEF Whole, ListedStored
        <4>3. e # d
          BY <1>12, <4>1 DEF Whole, OneDeep
        <4> QED BY <2>1, <3>3, <4>2, <4>3
      <3> QED BY <2>1, <3>1, <3>2, <3>3 DEF ListedStored
    <2>4. HiddenUnlisted(v)
      BY <1>2, <1>3, <1>12, IdsApart DEF Whole, HiddenUnlisted
    <2>5. OneDeep(v)
      BY <1>12, <2>2 DEF Whole, OneDeep
    <2> QED BY <2>3, <2>4, <2>5 DEF Whole
  <1> QED BY <1>5, <1>6, <1>7, <1>8, <1>9, <1>10, <1>11, <1>12
          DEF Keeps, KeepsLists, KeepsMost, Core, v

\* Another program writes a CM's record: nothing but its value is different.
LEMMA WrittenKeeps ==
  ASSUME NEW w, Core(w), NEW c \in Cms, NEW x \in Values, w.db.cm[c] # None
  PROVE  LET v == [w EXCEPT !.db = [w.db EXCEPT !.cm[c] = x]]
         IN /\ Core(v) /\ (MapOK(w) => MapOK(v)) /\ (NoToDelete(w) => NoToDelete(v))
            /\ Whole(w) => Whole(v)
PROOF
  <1> DEFINE u == [w.db EXCEPT !.cm[c] = x]
             v == [w EXCEPT !.db = u]
  <1>1. w \in Worlds /\ w.db \in Data
    BY DEF Core, Worlds
  <1>2. u \in Data /\ u.dest = w.db.dest /\ \A b \in Cms : u.cm[b] = IF b = c THEN x ELSE w.db.cm[b]
    BY <1>1 DEF Data
  <1>3. \A b \in Cms : u.cm[b] = None <=> w.db.cm[b] = None
    BY <1>2, NoneIsNothing
  <1> HIDE DEF u
  <1>4. /\ v.db = u /\ v.mapping = w.mapping /\ v.deleted = w.deleted /\ v.cms = w.cms /\ v.dsts = w.dsts
        /\ v.cmH = w.cmH /\ v.dstH = w.dstH /\ v.lastTemp = w.lastTemp /\ v \in Worlds
    BY <1>1, <1>2 DEF Worlds
  <1> HIDE DEF v
  <1>5. MapOK(w) => MapOK(v)
    <2>1. ReadConnMethods(u, w.deleted) = ReadConnMethods(w.db, w.deleted)
      BY <1>3 DEF ReadConnMethods
    <2>2. ReadMapping(u, w.deleted) = ReadMapping(w.db, w.deleted)
      BY <1>2, <2>1 DEF ReadMapping, ReadDestinations
    <2> QED BY <1>4, <2>2 DEF MapOK
  <1>6. CmsCounted(v) /\ CmsFit(v)
    BY <1>3, <1>4, IdsApart DEF Core, CmsCounted, CmsFit, Holders
  <1>7. DstsCounted(v) /\ OneSlot(v) /\ DstsFit(v) /\ HandlesFit(v)
    BY <1>2, <1>4 DEF Core, DstsCounted, OneSlot, DstsFit, HandlesFit, DstHolders, SlotsOf
  <1>8. MappedFits(v)
    <2>1. \A b \in v.mapping.cm : b \in Cms
      BY <1>4 DEF Worlds
    <2> QED BY <1>2, <1>3, <1>4, <2>1 DEF Core, MappedFits
  <1>9. ListsLess(w, v)
    <2>1. \A d, e : Embeds(v, d, e) => Embeds(w, d, e)
      BY <1>2, <1>4 DEF Embeds
    <2> QED BY <1>2, <1>3, <1>4, <2>1 DEF ListsLess
  <1>10. Whole(w) => Whole(v)
    BY <1>1, <1>4, <1>9, ListsLessWhole
  <1>11. NoToDelete(w) => NoToDelete(v)
    BY <1>4 DEF NoToDelete
  <1> QED BY <1>4, <1>5, <1>6, <1>7, <1>8, <1>10, <1>11 DEF Core, v, u

\* The requests that save a destination.
DestSaves == {"UpdateDestination", "CopyConnMethod", "RemoveConnMethod", "MoveConnMethod"}

\* The scenarios the theorems are about: no destination is deleted, and either no
\* CM is deleted with a destination or no destination is saved.
Covered == /\ ~May("DeleteDestination")
           /\ May("DestDelete") => \A r \in DestSaves : ~May(r)

\* What CommsDat holds at first is whole.
StoredWhole == \A data \in Stored[scenario] : WholeData(data)

\* The inductive invariant.
Inv ==
    /\ scenario \in Scenarios
    /\ Core(World)
    /\ notify \in BOOLEAN /\ panicked \in BOOLEAN
    /\ sessions \subseteq Sessions /\ connected \subseteq Cms
    /\ May("Connections") \/ (connected = {} /\ MapOK(World))
    /\ notify \/ Current(World)
    /\ May("WrittenOutside") \/ (Current(World) /\ Agree(World))
    /\ May("DestDelete") \/ NoToDelete(World)
    /\ StoredWhole => Whole(World)

\* A step of the server without an effect on what is around it.
Framed ==
    /\ scenario' = scenario /\ sessions' = sessions /\ connected' = connected /\ panicked' = panicked
    /\ notify' \in BOOLEAN /\ (notify => notify')

\* What is said of the scenario stays.
LEMMA ScenarioStays ==
  ASSUME scenario' = scenario
  PROVE  /\ \A r : May(r)' <=> May(r)
         /\ Covered' <=> Covered
         /\ StoredWhole' <=> StoredWhole
  BY DEF May, Covered, StoredWhole

\* The server starts on the records that whole worlds hold.
LEMMA RestartKeepsInv ==
  ASSUME Inv, World' = Started(db), scenario' = scenario, connected' = connected, notify' = FALSE,
         sessions' \subseteq Sessions, panicked' \in BOOLEAN
  PROVE  Inv'
PROOF
  <1> DEFINE w == World
             v == Started(db)
  <1>1. w \in Worlds /\ db \in Data /\ w.db = db
    BY DEF Inv, Core, Worlds, World
  <1>2. /\ Core(v) /\ MapOK(v) /\ Current(v) /\ Agree(v) /\ NoToDelete(v)
        /\ WholeData(db) => Whole(v)
    BY <1>1, StartedIs
  <1>3. StoredWhole => WholeData(db)
    BY <1>1, WholeLeaves DEF Inv
  <1> HIDE DEF v
  <1>4. /\ Core(World)' /\ MapOK(World)' /\ Current(World)' /\ Agree(World)' /\ NoToDelete(World)'
        /\ StoredWhole => Whole(World)'
    <2>1. World' = v
      BY DEF v
    <2>2. Core(World') /\ MapOK(World') /\ Current(World') /\ Agree(World') /\ NoToDelete(World')
      BY <1>2, <2>1
    <2>3. StoredWhole => Whole(World')
      BY <1>2, <1>3, <2>1
    <2>4. Core(World)' <=> Core(World')
      OBVIOUS
    <2> QED BY <2>2, <2>3
  <1> QED BY <1>4, ScenarioStays DEF Inv

\* A step that keeps what is said of the world keeps the invariant.
LEMMA KeepsInv ==
  ASSUME Inv, Framed, KeepsLists(World, World'),
         May("DestDelete") \/ (NoToDelete(World) => NoToDelete(World'))
  PROVE  Inv'
PROOF
  <1>1. Core(World') /\ (connected = {} /\ MapOK(World) => MapOK(World'))
        /\ (Current(World) => Current(World'))
        /\ (Current(World) /\ Agree(World) => Agree(World'))
        /\ (Whole(World) => Whole(World'))
    BY DEF KeepsLists, KeepsMost
  <1> QED BY <1>1, ScenarioStays DEF Inv, Framed
\* A step that leaves the server as it is.
LEMMA SameWorldKeepsInv ==
  ASSUME Inv, World' = World, scenario' = scenario, connected' = connected, notify' = notify,
         sessions' \subseteq Sessions, panicked' = panicked
  PROVE  Inv'
  BY ScenarioStays DEF Inv

\* A request changes nothing around the server.
LEMMA BecomeFramed ==
  ASSUME Inv, NEW v, Become(v)
  PROVE  Framed
  BY DEF Become, Framed, Inv

\* After a panic the server starts on what CommsDat holds.
LEMMA PanicKeepsInv ==
  ASSUME Inv, Panic
  PROVE  Inv'
PROOF
  <1>1. /\ db' = db /\ scenario' = scenario /\ connected' = connected /\ notify' = FALSE
        /\ sessions' \subseteq Sessions /\ panicked' \in BOOLEAN
    BY DEF Panic
  <1>2. World' = Started(db)
    BY <1>1 DEF Panic, World, Started
  <1> QED BY <1>1, <1>2, RestartKeepsInv

\* The requests about CMs.
LEMMA CmRequestsKeepInv ==
  ASSUME Inv, NEW s \in Sessions, NEW i \in CmIds, NEW x \in Values,
         \/ CreateCopyOfExisting(s, i) \/ RefreshConnMethod(s, i)
         \/ UpdateConnMethod(s, i) \/ CloseConnMethod(s, i) \/ SetAttribute(s, i, x)
  PROVE  Inv'
PROOF
  <1>1. Core(World)
    BY DEF Inv
  <1>2. Framed
    BY BecomeFramed DEF CreateCopyOfExisting, RefreshConnMethod, UpdateConnMethod,
                        CloseConnMethod, SetAttribute
  <1>3. Keeps(World, World')
    BY <1>1, CmHandleRequestsKeep, RefreshConnMethodKeeps, UpdateConnMethodKeeps
  <1> QED BY <1>2, <1>3, KeepsInv DEF Keeps

\* The requests about CMs that are saved.
LEMMA StoredCmRequestsKeepInv ==
  ASSUME Inv, NEW s \in Sessions, NEW c \in Cms,
         OpenConnMethod(s, c) \/ DeleteConnMethod(s, c) \/ RemoveAllReferences(s, c)
  PROVE  Inv'
PROOF
  <1>1. Core(World)
    BY DEF Inv
  <1>2. Framed
    BY BecomeFramed DEF OpenConnMethod, DeleteConnMethod, RemoveAllReferences
  <1>3. Keeps(World, World')
    BY <1>1, OpenConnMethodKeeps, DeleteConnMethodKeeps, RemoveAllReferencesKeeps
  <1> QED BY <1>2, <1>3, KeepsInv DEF Keeps

\* The requests that make or open something.
LEMMA NewHandlesKeepInv ==
  ASSUME Inv, NEW s \in Sessions,
         CreateConnMethod(s) \/ CreateDestination(s) \/ \E d \in Dests : OpenDestination(s, d)
  PROVE  Inv'
PROOF
  <1>1. Core(World)
    BY DEF Inv
  <1>2. Framed
    BY BecomeFramed, Zenon DEF CreateConnMethod, CreateDestination, OpenDestination
  <1>3. Keeps(World, World')
    BY <1>1, CreateConnMethodKeeps, CreateDestinationKeeps, OpenDestinationKeeps
  <1> QED BY <1>2, <1>3, KeepsInv DEF Keeps

\* The requests about a destination and not one of its items.
LEMMA DestRequestsKeepInv ==
  ASSUME Inv, Covered, NEW s \in Sessions, NEW k \in Slots,
         \/ CreateConnMethodToDest(s, k) \/ RefreshDestination(s, k) \/ DeleteDestination(s, k)
         \/ CloseDestination(s, k) \/ \E e \in Slots \ {k} : AddEmbeddedDestination(s, k, e)
  PROVE  Inv'
PROOF
  <1>1. Core(World)
    BY SMTT(60) DEF Inv
  <1>2. ~DeleteDestination(s, k)
    BY DEF DeleteDestination, Covered
  <1>3. Framed
    BY <1>2, BecomeFramed DEF CreateConnMethodToDest, RefreshDestination, CloseDestination,
                              AddEmbeddedDestination
  <1>4. Keeps(World, World')
    BY <1>1, <1>2, CreateConnMethodToDestKeeps, RefreshDestinationKeeps, CloseDestinationKeeps,
       AddEmbeddedKeeps
  <1> QED BY <1>3, <1>4, KeepsInv DEF Keeps

\* The requests about an item of a destination that save nothing.
LEMMA ItemRequestsKeepInv ==
  ASSUME Inv, NEW s \in Sessions, NEW k \in Slots, NEW i \in CmIds,
         AddConnMethod(s, k, i) \/ DestRemoveConnMethod(s, k, i) \/ DestDeleteConnMethod(s, k, i)
  PROVE  Inv'
PROOF
  <1>1. Core(World)
    BY DEF Inv
  <1>2. CASE AddConnMethod(s, k, i) \/ DestRemoveConnMethod(s, k, i)
    <2>1. Framed
      BY <1>2, BecomeFramed DEF AddConnMethod, DestRemoveConnMethod
    <2>2. Keeps(World, World')
      BY <1>1, <1>2, ItemRequestsKeep
    <2> QED BY <2>1, <2>2, KeepsInv DEF Keeps
  <1>3. CASE DestDeleteConnMethod(s, k, i) /\ ~Panic
    <2>1. May("DestDelete") /\ Framed
      BY <1>3, BecomeFramed DEF DestDeleteConnMethod
    <2>2. KeepsLists(World, World')
      BY <1>1, <1>3, DestDeleteKeeps
    <2> QED BY <2>1, <2>2, KeepsInv
  <1> QED BY <1>2, <1>3, PanicKeepsInv

\* The requests that save a destination.
LEMMA DestSavesKeepInv ==
  ASSUME Inv, Covered, NEW s \in Sessions, NEW k \in Slots,
         \/ UpdateDestination(s, k)
         \/ \E i \in CmIds : \/ CopyConnMethod(s, k, i) \/ RemoveConnMethod(s, k, i)
                             \/ \E to \in Slots \ {k} : MoveConnMethod(s, k, to, i)
  PROVE  Inv'
PROOF
  <1>1. Core(World) /\ NoToDelete(World)
    <2>1. ~May("DestDelete")
      BY DEF Covered, DestSaves, UpdateDestination, CopyConnMethod, RemoveConnMethod, MoveConnMethod
    <2> QED BY <2>1 DEF Inv
  <1>2. Keeps(World, World')
    BY <1>1, UpdateDestinationKeeps, CopyOrRemoveKeeps, MoveConnMethodKeeps
  <1>3. Panic \/ \E v : Become(v)
    <2>1. ASSUME NEW p, NEW w, Saved(p, w, s) PROVE Panic \/ \E v : Become(v)
      BY <2>1 DEF Saved
    <2>2. ASSUME NEW w, NEW c, TakenOut(w, s, k, c) PROVE Panic \/ \E v : Become(v)
      BY <2>1, <2>2 DEF TakenOut, Save
    <2>3. ASSUME NEW p, NEW w, NEW i, Moved(p, w, s, k, i) PROVE Panic \/ \E v : Become(v)
      BY <2>2, <2>3 DEF Moved
    <2> QED BY <2>1, <2>3 DEF UpdateDestination, CopyConnMethod, RemoveConnMethod, MoveConnMethod, Save
  <1>4. CASE ~Panic
    <2>1. Framed
      BY <1>3, <1>4, BecomeFramed
    <2> QED BY <1>2, <2>1, KeepsInv DEF Keeps
  <1> QED BY <1>4, PanicKeepsInv

\* Sessions come and go, and the server shuts down without any.
LEMMA SessionsKeepInv ==
  ASSUME Inv, ShutDown \/ \E s \in Sessions : OpenSession(s) \/ CloseSession(s)
  PROVE  Inv'
PROOF
  <1>1. CASE ShutDown
    <2>1. /\ db' = db /\ scenario' = scenario /\ connected' = connected /\ notify' = FALSE
          /\ sessions' \subseteq Sessions /\ panicked' \in BOOLEAN
      BY <1>1 DEF ShutDown, Inv
    <2>2. World' = Started(db)
      BY <1>1, <2>1 DEF ShutDown, World, Started
    <2> QED BY <2>1, <2>2, RestartKeepsInv
  <1>2. ASSUME NEW s \in Sessions, OpenSession(s) PROVE Inv'
    <2>1. World' = World /\ scenario' = scenario /\ connected' = connected /\ notify' = notify
          /\ sessions' \subseteq Sessions /\ panicked' = panicked
      BY <1>2 DEF OpenSession, World, Inv
    <2> QED BY <2>1, SameWorldKeepsInv
  <1>3. ASSUME NEW s \in Sessions, CloseSession(s) PROVE Inv'
    <2> DEFINE v == CloseAll(World, s)
    <2>1. Core(World) /\ Keeps(World, v)
      BY CloseAllKeeps DEF Inv
    <2> HIDE DEF v
    <2>2. /\ db' = v.db /\ mapping' = v.mapping /\ deleted' = v.deleted /\ cms' = v.cms
          /\ dsts' = v.dsts /\ cmH' = v.cmH /\ dstH' = v.dstH /\ lastTemp' = v.lastTemp
          /\ notify' = (notify \/ v.db # db)
          /\ scenario' = scenario /\ connected' = connected /\ panicked' = panicked
          /\ sessions' = sessions \ {s}
      BY <1>3 DEF CloseSession, v
    <2>3. World' = v
      <3>1. v \in Worlds
        BY <2>1 DEF Keeps, KeepsLists, KeepsMost, Core
      <3> QED BY <2>2, <3>1 DEF World, Worlds
    <2>4. /\ Core(World') /\ (connected = {} /\ MapOK(World) => MapOK(World'))
          /\ (Current(World) => Current(World'))
          /\ (Current(World) /\ Agree(World) => Agree(World'))
          /\ (Whole(World) => Whole(World')) /\ (NoToDelete(World) => NoToDelete(World'))
      BY <2>1, <2>3 DEF Keeps, KeepsLists, KeepsMost
    <2> QED BY <2>2, <2>4, ScenarioStays DEF Inv
  <1> QED BY <1>1, <1>2, <1>3

\* CommsDat's notification, what other programs write, and connections.
LEMMA OutsideKeepsInv ==
  ASSUME Inv, \/ DbChangeDetected
              \/ \E c \in Cms : ConnectionChanges(c) \/ \E x \in Values : WrittenOutside(c, x)
  PROVE  Inv'
PROOF
  <1>1. CASE DbChangeDetected
    <2>1. World' = Told(World)
      <3> DEFINE f == [i \in CmIds |-> Expired(World.cms[i])]
                 m == ReadMapping(World.db, World.deleted)
      <3>1. World.db = db /\ World.deleted = deleted /\ World.cms = cms
        BY DEF World
      <3>2. cms' = f /\ mapping' = m
        BY <1>1, <3>1 DEF DbChangeDetected
      <3>3. Told(World) = [World EXCEPT !.cms = f, !.mapping = m]
        BY DEF Told
      <3> HIDE DEF f, m
      <3>4. /\ db' = db /\ deleted' = deleted /\ dsts' = dsts /\ cmH' = cmH /\ dstH' = dstH
            /\ lastTemp' = lastTemp
        BY <1>1 DEF DbChangeDetected
      <3> QED BY <3>2, <3>3, <3>4 DEF World
    <2>2. Core(World)
      BY DEF Inv
    <2>3. Keeps(World, World') /\ MapOK(World') /\ Current(World')
      BY <2>1, <2>2, ToldKeeps
    <2>4. /\ Core(World') /\ MapOK(World') /\ Current(World')
          /\ (Current(World) /\ Agree(World) => Agree(World'))
          /\ (Whole(World) => Whole(World')) /\ (NoToDelete(World) => NoToDelete(World'))
      BY <2>3 DEF Keeps, KeepsLists, KeepsMost
    <2>5. /\ scenario' = scenario /\ connected' = connected /\ panicked' = panicked
          /\ sessions' = sessions /\ notify' = FALSE
      BY <1>1 DEF DbChangeDetected
    <2> QED BY <2>4, <2>5, ScenarioStays DEF Inv
  <1>2. ASSUME NEW c \in Cms, NEW x \in Values, WrittenOutside(c, x) PROVE Inv'
    <2>1. Core(World) /\ World.db.cm[c] # None
      BY <1>2 DEF Inv, WrittenOutside, World
    <2>2. World' = [World EXCEPT !.db = [World.db EXCEPT !.cm[c] = x]]
      BY <1>2 DEF WrittenOutside, World
    <2>3. /\ Core(World') /\ (MapOK(World) => MapOK(World'))
          /\ (NoToDelete(World) => NoToDelete(World')) /\ (Whole(World) => Whole(World'))
      BY <2>1, <2>2, WrittenKeeps
    <2>4. /\ scenario' = scenario /\ connected' = connected /\ panicked' = panicked
          /\ sessions' = sessions /\ notify' = TRUE /\ May("WrittenOutside")
      BY <1>2 DEF WrittenOutside
    <2> QED BY <2>3, <2>4, ScenarioStays DEF Inv
  <1>3. ASSUME NEW c \in Cms, ConnectionChanges(c) PROVE Inv'
    <2>1. /\ World' = World /\ scenario' = scenario /\ panicked' = panicked
          /\ sessions' = sessions /\ notify' = notify /\ May("Connections")
          /\ connected' \subseteq Cms
      BY <1>3 DEF ConnectionChanges, World, Inv
    <2> QED BY <2>1, ScenarioStays DEF Inv
  <1> QED BY <1>1, <1>2, <1>3

\* The scenario never changes.
LEMMA ScenarioKept ==
  ASSUME [Next]_vars
  PROVE  scenario' = scenario
PROOF
  <1>1. ASSUME NEW v, Become(v) PROVE scenario' = scenario
    BY <1>1 DEF Become
  <1>2. ASSUME Panic PROVE scenario' = scenario
    BY <1>2 DEF Panic
  <1>3. ASSUME NEW p, NEW w, NEW s, Saved(p, w, s) PROVE scenario' = scenario
    BY <1>1, <1>2, <1>3 DEF Saved
  <1>4. ASSUME NEW p, NEW w, NEW s, NEW k, NEW i, Moved(p, w, s, k, i) PROVE scenario' = scenario
    BY <1>1, <1>2, <1>3, <1>4, SMTT(60) DEF Moved, TakenOut, Save
  <1>5. ASSUME NEW s \in Sessions,
               \/ CreateConnMethod(s) \/ CreateDestination(s)
               \/ \E c \in Cms : OpenConnMethod(s, c) \/ DeleteConnMethod(s, c) \/ RemoveAllReferences(s, c)
               \/ \E d \in Dests : OpenDestination(s, d)
               \/ \E i \in CmIds : \/ CreateCopyOfExisting(s, i) \/ RefreshConnMethod(s, i)
                                   \/ UpdateConnMethod(s, i) \/ CloseConnMethod(s, i)
                                   \/ \E v \in Values : SetAttribute(s, i, v)
        PROVE  scenario' = scenario
    BY <1>1, <1>5, Zenon DEF CreateConnMethod, CreateDestination, OpenConnMethod, DeleteConnMethod,
       RemoveAllReferences, OpenDestination, CreateCopyOfExisting, RefreshConnMethod,
       UpdateConnMethod, CloseConnMethod, SetAttribute
  <1>6. ASSUME NEW s \in Sessions, NEW k \in Slots, NEW i \in CmIds,
               \/ AddConnMethod(s, k, i) \/ DestDeleteConnMethod(s, k, i)
               \/ DestRemoveConnMethod(s, k, i) \/ CopyConnMethod(s, k, i)
               \/ RemoveConnMethod(s, k, i)
               \/ \E to \in Slots \ {k} : MoveConnMethod(s, k, to, i)
        PROVE  scenario' = scenario
    BY <1>1, <1>2, <1>3, <1>4, <1>6, SMTT(60) DEF AddConnMethod, DestDeleteConnMethod, DestRemoveConnMethod,
       CopyConnMethod, RemoveConnMethod, MoveConnMethod, Save
  <1>7. ASSUME NEW s \in Sessions, NEW k \in Slots,
               \/ CreateConnMethodToDest(s, k) \/ RefreshDestination(s, k)
               \/ UpdateDestination(s, k) \/ DeleteDestination(s, k) \/ CloseDestination(s, k)
               \/ \E e \in Slots \ {k} : AddEmbeddedDestination(s, k, e)
        PROVE  scenario' = scenario
    BY <1>1, <1>2, <1>3, <1>7, Zenon DEF CreateConnMethodToDest, RefreshDestination, UpdateDestination,
       DeleteDestination, CloseDeleted, CloseDestination, AddEmbeddedDestination, Save
  <1>8. ASSUME ShutDown \/ DbChangeDetected
               \/ (\E c \in Cms : ConnectionChanges(c) \/ \E v \in Values : WrittenOutside(c, v))
               \/ (\E s \in Sessions : OpenSession(s) \/ CloseSession(s))
        PROVE  scenario' = scenario
    BY <1>8 DEF ShutDown, DbChangeDetected, ConnectionChanges, WrittenOutside, OpenSession, CloseSession
  <1>9. CASE Next
    BY <1>5, <1>6, <1>7, <1>8, <1>9 DEF Next
  <1>10. CASE UNCHANGED vars
    BY <1>10 DEF vars
  <1> QED BY <1>9, <1>10

\* The invariant holds at first.
LEMMA InitInv ==
  ASSUME Init
  PROVE  Inv
PROOF
  <1>1. scenario \in Scenarios /\ notify = FALSE /\ sessions = {} /\ connected = {} /\ panicked = FALSE
    BY DEF Init
  <1>2. PICK data \in Stored[scenario] : World = Started(data)
    BY DEF Init, World, Started
  <1> DEFINE v == Started(data)
  <1>3. data \in Data
    BY <1>1, <1>2, StoredAssumption
  <1>4. /\ Core(v) /\ MapOK(v) /\ Current(v) /\ Agree(v) /\ NoToDelete(v)
        /\ WholeData(data) => Whole(v)
    BY <1>3, StartedIs
  <1>5. StoredWhole => WholeData(data)
    BY <1>2 DEF StoredWhole
  <1>6. World = v
    BY <1>2
  <1> HIDE DEF v
  <1> QED BY <1>1, <1>4, <1>5, <1>6 DEF Inv

\* Every step keeps the invariant.
LEMMA NextInv ==
  ASSUME Inv, Covered, [Next]_vars
  PROVE  Inv'
PROOF
  <1>1. ASSUME NEW s \in Sessions, NEW k \in Slots, NEW i \in CmIds,
               \/ AddConnMethod(s, k, i) \/ DestDeleteConnMethod(s, k, i)
               \/ DestRemoveConnMethod(s, k, i) \/ CopyConnMethod(s, k, i)
               \/ RemoveConnMethod(s, k, i)
               \/ \E to \in Slots \ {k} : MoveConnMethod(s, k, to, i)
        PROVE  Inv'
    BY <1>1, ItemRequestsKeepInv, DestSavesKeepInv
  <1>2. ASSUME NEW s \in Sessions, NEW k \in Slots,
               \/ CreateConnMethodToDest(s, k) \/ RefreshDestination(s, k)
               \/ UpdateDestination(s, k) \/ DeleteDestination(s, k) \/ CloseDestination(s, k)
               \/ \E e \in Slots \ {k} : AddEmbeddedDestination(s, k, e)
        PROVE  Inv'
    BY <1>2, DestRequestsKeepInv, DestSavesKeepInv
  <1>3. ASSUME NEW s \in Sessions,
               \/ OpenSession(s) \/ CloseSession(s) \/ CreateConnMethod(s) \/ CreateDestination(s)
               \/ \E c \in Cms : OpenConnMethod(s, c) \/ DeleteConnMethod(s, c) \/ RemoveAllReferences(s, c)
               \/ \E d \in Dests : OpenDestination(s, d)
        PROVE  Inv'
    BY <1>3, SessionsKeepInv, NewHandlesKeepInv, StoredCmRequestsKeepInv
  <1>4. ASSUME NEW s \in Sessions, NEW i \in CmIds,
               \/ CreateCopyOfExisting(s, i) \/ RefreshConnMethod(s, i)
               \/ UpdateConnMethod(s, i) \/ CloseConnMethod(s, i)
               \/ \E v \in Values : SetAttribute(s, i, v)
        PROVE  Inv'
    <2>1. \E v \in Values : TRUE
      BY BoundsAssumption
    <2> QED BY <1>4, <2>1, CmRequestsKeepInv
  <1>5. ASSUME ShutDown \/ DbChangeDetected
               \/ (\E c \in Cms : ConnectionChanges(c) \/ \E v \in Values : WrittenOutside(c, v))
        PROVE  Inv'
    BY <1>5, SessionsKeepInv, OutsideKeepsInv
  <1>6. CASE Next
    BY <1>1, <1>2, <1>3, <1>4, <1>5, <1>6 DEF Next
  <1>7. CASE UNCHANGED vars
    <2>1. /\ World' = World /\ scenario' = scenario /\ connected' = connected /\ notify' = notify
          /\ sessions' \subseteq Sessions /\ panicked' = panicked
      BY <1>7 DEF vars, World, Inv
    <2> QED BY <2>1, SameWorldKeepsInv
  <1> QED BY <1>6, <1>7

\* The invariant holds in every covered scenario.
THEOREM InvCorrect == Spec => [](Covered => Inv)
PROOF
  <1>1. Init => (Covered => Inv)
    BY InitInv
  <1>2. (Covered => Inv) /\ [Next]_vars => (Covered => Inv)'
    <2>1. SUFFICES ASSUME Covered => Inv, [Next]_vars, Covered' PROVE Inv'
      OBVIOUS
    <2>2. scenario' = scenario
      BY <2>1, ScenarioKept
    <2>3. Covered
      BY <2>1, <2>2, ScenarioStays
    <2> QED BY <2>1, <2>3, NextInv
  <1> QED BY <1>1, <1>2, PTL DEF Spec

\* The types, and the counts of handles.
LEMMA InvCounts ==
  ASSUME Inv
  PROVE  StructuresCounted
PROOF
  <1> DEFINE w == World
  <1>1. /\ Core(w) /\ w.db = db /\ w.mapping = mapping /\ w.deleted = deleted /\ w.cms = cms
        /\ w.dsts = dsts /\ w.cmH = cmH /\ w.dstH = dstH /\ w.lastTemp = lastTemp
    BY DEF Inv, World
  <1>2. TypeOK
    BY <1>1 DEF Core, Worlds, TypeOK, Inv
  <1>3. ASSUME NEW i \in CmIds
        PROVE  LET n == Cardinality({ s \in Sessions : cmH[s][i] # None })
               IN IF n = 0 THEN cms[i] = None ELSE cms[i] # None /\ cms[i].ref = n
    <2>1. Holders(w, i) = { s \in Sessions : cmH[s][i] # None }
      BY <1>1 DEF Holders
    <2>2. IF cms[i] = None THEN Holders(w, i) = {} ELSE cms[i].ref = Cardinality(Holders(w, i))
      BY <1>1 DEF Core, CmsCounted
    <2>3. cms[i] # None => cms[i].ref # 0
      <3>1. Cardinality(Sessions) \in Nat
        BY BoundsAssumption, FS_CardinalityType
      <3>2. cms[i] # None => cms[i] \in CmStructs
        BY <1>2 DEF TypeOK
      <3> QED BY <3>1, <3>2 DEF CmStructs
    <2>4. Cardinality({}) = 0
      BY FS_EmptySet
    <2> QED BY <2>1, <2>2, <2>3, <2>4
  <1>4. ASSUME NEW d \in DstIds
        PROVE  LET n == Cardinality({ s \in Sessions : SlotsOf(World, s, d) # {} })
               IN IF n = 0 THEN dsts[d] = None ELSE dsts[d] # None /\ dsts[d].ref = n
    <2>1. DstHolders(w, d) = { s \in Sessions : SlotsOf(World, s, d) # {} }
      BY DEF DstHolders
    <2>2. IF dsts[d] = None THEN DstHolders(w, d) = {} ELSE dsts[d].ref = Cardinality(DstHolders(w, d))
      BY <1>1 DEF Core, DstsCounted
    <2>3. dsts[d] # None => dsts[d].ref # 0
      <3>1. Cardinality(Sessions) \in Nat
        BY BoundsAssumption, FS_CardinalityType
      <3>2. dsts[d] # None => dsts[d] \in DstStructs
        BY <1>2 DEF TypeOK
      <3> QED BY <3>1, <3>2 DEF DstStructs
    <2>4. Cardinality({}) = 0
      BY FS_EmptySet
    <2> QED BY <2>1, <2>2, <2>3, <2>4
  <1> QED BY <1>2, <1>3, <1>4 DEF StructuresCounted, HandlesCounted

\* What CommsDat holds is whole if it was at first.
LEMMA InvWhole ==
  ASSUME Inv, StoredWhole
  PROVE  StoredIsWhole
PROOF
  <1>1. /\ Core(World) /\ Whole(World) /\ World.db = db /\ World.deleted = deleted
        /\ World.cms = cms /\ World.cmH = cmH
    BY DEF Inv, World
  <1>2. NoDanglingItem
    BY <1>1 DEF NoDanglingItem, Whole, ListedStored
  <1>3. EmbeddedOneDeep
    <2>1. SUFFICES ASSUME NEW d \in Dests, NEW e \in Dests, Has(db.dest[d], e), HasEmbedded(db.dest[e])
                   PROVE  FALSE
      BY DEF EmbeddedOneDeep
    <2>2. PICK x \in DstIds : x \in ToSet(db.dest[e])
      <3>1. db.dest[e] # None
        BY <2>1 DEF HasEmbedded
      <3> QED BY <2>1, <3>1, EmbeddedIn
    <2>3. Embeds(World, d, e) /\ Embeds(World, e, x)
      BY <1>1, <2>1, <2>2 DEF Embeds, Has, HasEmbedded
    <2> QED BY <1>1, <2>3, IdsApart DEF Whole, OneDeep
  <1>4. HeldStaysStored
    <2>1. SUFFICES ASSUME NEW c \in Cms, NEW s \in Sessions, cmH[s][c] # None PROVE db.cm[c] # None
      BY DEF HeldStaysStored
    <2> QED BY <1>1, <2>1, HeldCm, IdsApart
  <1> QED BY <1>2, <1>3, <1>4 DEF StoredIsWhole

\* Types, and reference counts: a structure is there exactly while sessions have
\* handles to it, and counts them.
THEOREM CountsCorrect == Spec => [](Covered => StructuresCounted)
PROOF
  <1>1. (Covered => Inv) => (Covered => StructuresCounted)
    BY InvCounts
  <1> QED BY <1>1, InvCorrect, PTL

\* The instance mapping, edited by hand on some paths and read again on others,
\* shows what reading it would show.
THEOREM MappingCorrect == Spec => [](Covered => MappingFollowsDb)
PROOF
  <1>1. (Covered => Inv) => (Covered => MappingFollowsDb)
    BY DEF Inv, MappingFollowsDb, MapOK, World
  <1> QED BY <1>1, InvCorrect, PTL

\* When it was so at first, no destination ever lists a CM that CommsDat lacks,
\* destinations are embedded one level deep, and what clients hold stays stored.
THEOREM WholeCorrect == Spec => [](Covered /\ StoredWhole => StoredIsWhole)
PROOF
  <1>1. (Covered => Inv) => (Covered /\ StoredWhole => StoredIsWhole)
    BY InvWhole
  <1> QED BY <1>1, InvCorrect, PTL

\* A handle that says it is unchanged shows what CommsDat has.
THEOREM HandlesCorrect == Spec => [](Covered => UnchangedHandlesAgree)
PROOF
  <1>1. (Covered => Inv) => (Covered => UnchangedHandlesAgree)
    BY DEF Inv, UnchangedHandlesAgree, Agree, World
  <1> QED BY <1>1, InvCorrect, PTL

\* Once CommsDat has told of its changes, what the cache takes for loaded is current.
THEOREM CacheCorrect == Spec => [](Covered => LoadedIsCurrent)
PROOF
  <1>1. (Covered => Inv) => (Covered => LoadedIsCurrent)
    BY DEF Inv, LoadedIsCurrent, Current, World
  <1> QED BY <1>1, InvCorrect, PTL

==============================================================================
