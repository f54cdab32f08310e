-------------------------- MODULE ForkChoiceProofs --------------------------
(* The store's invariants hold for every tree of headers, epoch and order of *)
(* arrival.  The store with its file is still the store: it implements       *)
(* ForkChoice, so the invariants hold across failed writes, resets, crashes  *)
(* and replays.                                                              *)
EXTENDS ChainStore, SequenceTheorems, WellFoundedInduction, TLAPS

-----------------------------------------------------------------------------
(* Branches *)

LEMMA BoundedMaximum ==
  ASSUME NEW n \in Nat, NEW T \in SUBSET (0..n), T # {}
  PROVE  \E x \in T : \A y \in T : y <= x
<1> DEFINE U == {n - x : x \in T}
<1>1. U \in SUBSET Nat /\ U # {}
  <2>1. \A x \in T : n - x \in Nat
    OBVIOUS
  <2>2. PICK x \in T : TRUE
    OBVIOUS
  <2>3. n - x \in U
    BY <2>2
  <2>4. ASSUME NEW u \in U PROVE u \in Nat
    BY <2>1, <2>4
  <2> QED
    BY <2>3, <2>4
<1>2. PICK u \in U : \A w \in U : ~(<<w, u>> \in OpToRel(<, Nat))
  BY <1>1, NatLessThanWellFounded, WFMin
<1>3. \A w \in U : ~(w < u)
  BY <1>1, <1>2 DEF OpToRel
<1>4. PICK x \in T : u = n - x
  OBVIOUS
<1>5. ASSUME NEW y \in T PROVE y <= x
  BY <1>3, <1>4
<1> QED
  BY <1>5

LEMMA HeaderFacts ==
  ASSUME NEW h \in Headers
  PROVE  h \in Seq(Seals) /\ Len(h) \in 0..MaxNumber /\ Len(h) \in Nat
<1>1. PICK n \in 0..MaxNumber : h \in [1..n -> Seals]
  BY DEF Headers
<1>2. n \in Nat
  BY <1>1, HeadersAssumption
<1> QED
  BY <1>1, <1>2, IsASeq

LEMMA GenesisFacts == Genesis \in Headers /\ Len(Genesis) = 0
<1>1. Genesis \in [1..0 -> Seals]
  BY DEF Genesis
<1> QED
  BY <1>1, HeadersAssumption DEF Headers, Genesis

LEMMA UptoFacts ==
  ASSUME NEW h \in Seq(Seals), NEW n \in 0..Len(h)
  PROVE  /\ Upto(h, n) \in Seq(Seals)
         /\ Len(Upto(h, n)) = n
         /\ \A i \in 1..n : Upto(h, n)[i] = h[i]
  BY DEF Upto

LEMMA UptoUpto ==
  ASSUME NEW h \in Seq(Seals), NEW n \in 0..Len(h), NEW k \in 0..n
  PROVE  Upto(Upto(h, n), k) = Upto(h, k)
<1>1. k \in 0..Len(h) /\ Len(h) \in Nat
  BY LenProperties
<1>2. /\ Upto(h, n) \in Seq(Seals) /\ Len(Upto(h, n)) = n
      /\ \A i \in 1..n : Upto(h, n)[i] = h[i]
  BY UptoFacts
<1>3. /\ Upto(h, k) \in Seq(Seals) /\ Len(Upto(h, k)) = k
      /\ \A i \in 1..k : Upto(h, k)[i] = h[i]
  BY <1>1, UptoFacts
<1>4. /\ Upto(Upto(h, n), k) \in Seq(Seals) /\ Len(Upto(Upto(h, n), k)) = k
      /\ \A i \in 1..k : Upto(Upto(h, n), k)[i] = Upto(h, n)[i]
  BY <1>2, UptoFacts
<1>5. \A i \in 1..k : Upto(Upto(h, n), k)[i] = Upto(h, k)[i]
  BY <1>2, <1>3, <1>4
<1> QED
  BY <1>3, <1>4, <1>5, SeqEqual

LEMMA UptoAll ==
  ASSUME NEW h \in Seq(Seals)
  PROVE  Upto(h, Len(h)) = h /\ Upto(h, 0) = Genesis
<1>1. Len(h) \in Nat
  BY LenProperties
<1>2. /\ Upto(h, Len(h)) \in Seq(Seals) /\ Len(Upto(h, Len(h))) = Len(h)
      /\ \A i \in 1..Len(h) : Upto(h, Len(h))[i] = h[i]
  BY <1>1, UptoFacts
<1>3. Upto(h, Len(h)) = h
  BY <1>1, <1>2, SeqEqual
<1>4. Upto(h, 0) \in Seq(Seals) /\ Len(Upto(h, 0)) = 0
  BY <1>1, UptoFacts
<1> QED
  BY <1>3, <1>4, EmptySeq DEF Genesis

LEMMA ParentFacts ==
  ASSUME NEW h \in Headers, h # Genesis
  PROVE  /\ Len(h) \in Nat /\ Len(h) >= 1 /\ h[Len(h)] \in Seals
         /\ Parent(h) \in Seq(Seals) /\ Len(Parent(h)) = Len(h) - 1
         /\ Parent(h) # h /\ \A n \in 0..(Len(h) - 1) : Upto(Parent(h), n) = Upto(h, n)
<1>1. h \in Seq(Seals) /\ Len(h) \in Nat
  BY HeaderFacts
<1>2. Len(h) \in Nat \ {0}
  BY <1>1, EmptySeq DEF Genesis
<1>3. h[Len(h)] \in Seals
  BY <1>1, <1>2, ElementOfSeq
<1>4. Len(h) - 1 \in 0..Len(h)
  BY <1>2
<1>5. Parent(h) \in Seq(Seals) /\ Len(Parent(h)) = Len(h) - 1
  BY <1>1, <1>4, UptoFacts DEF Parent
<1>6. \A n \in 0..(Len(h) - 1) : Upto(Parent(h), n) = Upto(h, n)
  BY <1>1, <1>4, UptoUpto DEF Parent
<1> QED
  BY <1>2, <1>3, <1>5, <1>6

\* findCommonAncestor finds a block below both.
LEMMA CommonAncestor ==
  ASSUME NEW a \in Headers, NEW b \in Headers, Known \subseteq Headers, Genesis \in Known
  PROVE  /\ FindCommonAncestor(a, b) \in Known
         /\ IsAncestor(FindCommonAncestor(a, b), a)
         /\ IsAncestor(FindCommonAncestor(a, b), b)
<1> DEFINE C == {c \in Known : IsAncestor(c, a) /\ IsAncestor(c, b)}
           T == {Len(c) : c \in C}
<1>1. Genesis \in C
  BY HeaderFacts, GenesisFacts, UptoAll DEF IsAncestor
<1>2. T \in SUBSET (0..MaxNumber) /\ T # {}
  <2>1. \A c \in C : Len(c) \in 0..MaxNumber
    BY HeaderFacts
  <2>2. ASSUME NEW t \in T PROVE t \in 0..MaxNumber
    BY <2>1, <2>2
  <2>3. Len(Genesis) \in T
    BY <1>1
  <2> QED
    BY <2>2, <2>3
<1>3. PICK m \in T : \A t \in T : t <= m
  BY <1>2, BoundedMaximum, HeadersAssumption
<1>4. PICK c \in C : Len(c) = m
  OBVIOUS
<1>5. \A d \in C : Len(d) <= Len(c)
  BY <1>3, <1>4
<1>6. \E x \in Known :
        /\ IsAncestor(x, a) /\ IsAncestor(x, b)
        /\ \A d \in Known : IsAncestor(d, a) /\ IsAncestor(d, b) => Len(d) <= Len(x)
  BY <1>4, <1>5
<1> QED
  BY <1>6 DEF FindCommonAncestor

-----------------------------------------------------------------------------
(* setHead *)

LEMMA ReindexCorrect ==
  ASSUME TypeOK, CanonicalIndex, NEW h \in Headers, h # Genesis
  PROVE  Reindex(h) = [n \in 0..Len(h) |-> Upto(h, n)]
<1>1. head \in Headers /\ Len(head) \in Nat /\ Len(h) \in Nat
  BY HeaderFacts DEF TypeOK
<1>2. /\ DOMAIN numbers = 0..Len(head)
      /\ \A n \in 0..Len(head) : numbers[n] = Upto(head, n)
  BY DEF CanonicalIndex, Number
<1>3. CASE Parent(h) = head
  <2>1. Len(h) = Len(head) + 1 /\ \A n \in 0..Len(head) : Upto(head, n) = Upto(h, n)
    BY <1>1, <1>3, ParentFacts
  <2>2. Upto(h, Len(h)) = h
    BY HeaderFacts, UptoAll
  <2>3. 0..Len(h) = 0..Len(head) \cup {Len(h)}
    BY <1>1, <2>1
  <2>4. Reindex(h) = [n \in 0..Len(h) |-> IF n = Len(h) THEN h ELSE numbers[n]]
    BY <1>2, <1>3, <2>3 DEF Reindex, Number
  <2>5. ASSUME NEW n \in 0..Len(h)
        PROVE  (IF n = Len(h) THEN h ELSE numbers[n]) = Upto(h, n)
    BY <1>1, <1>2, <2>1, <2>2
  <2> QED
    BY <2>4, <2>5
<1>4. CASE Parent(h) # head
  <2> DEFINE c == FindCommonAncestor(head, h)
             a == Len(c)
             new == (a + 1)..Len(h)
  <2>1. c \in Headers /\ IsAncestor(c, head) /\ IsAncestor(c, h)
    BY <1>1, CommonAncestor DEF TypeOK
  <2>2. /\ a \in Nat /\ a <= Len(head) /\ a <= Len(h)
        /\ Upto(head, a) = c /\ Upto(h, a) = c
    BY <2>1, HeaderFacts DEF IsAncestor
  <2>3. \A n \in 0..a : Upto(head, n) = Upto(h, n)
    <3>1. \A n \in 0..a : Upto(c, n) = Upto(head, n)
      BY <1>1, <2>2, HeaderFacts, UptoUpto
    <3>2. \A n \in 0..a : Upto(c, n) = Upto(h, n)
      BY <1>1, <2>2, HeaderFacts, UptoUpto
    <3> QED
      BY <3>1, <3>2
  <2>4. (0..Len(head) \ ((a + 1)..Len(head))) \cup new = 0..Len(h)
    BY <1>1, <2>2
  <2>5. Reindex(h) = [n \in 0..Len(h) |-> IF n \in new THEN Upto(h, n) ELSE numbers[n]]
    BY <1>2, <1>4, <2>4 DEF Reindex, Number
  <2>6. ASSUME NEW n \in 0..Len(h)
        PROVE  (IF n \in new THEN Upto(h, n) ELSE numbers[n]) = Upto(h, n)
    BY <1>1, <1>2, <2>2, <2>3
  <2> QED
    BY <2>5, <2>6
<1> QED
  BY <1>3, <1>4

LEMMA EpochNumbers ==
  ASSUME NEW n \in Nat, Epoch # 0
  PROVE  LET i == n \div Epoch
         IN  /\ i \in Nat
             /\ i * Epoch \in 0..n
             /\ i >= 2 => (i - 2) * Epoch \in 0..n
<1> DEFINE i == n \div Epoch
<1>1. Epoch \in Nat /\ Epoch > 0
  BY HeadersAssumption
<1>2. i \in Nat
  BY <1>1
<1>3. i * Epoch <= n /\ i * Epoch >= 0
  BY <1>1, <1>2
<1>4. ASSUME i >= 2 PROVE (i - 2) * Epoch \in 0..n
  <2>1. (i - 2) * Epoch = i * Epoch - 2 * Epoch
    BY <1>1, <1>2
  <2>2. (i - 2) * Epoch >= 0
    BY <1>1, <1>2, <1>4
  <2> QED
    BY <1>1, <1>2, <1>3, <2>1, <2>2
<1> QED
  BY <1>1, <1>2, <1>3, <1>4

LEMMA SetHeadCorrect ==
  ASSUME StoreInv, NEW h \in Headers, h # Genesis, SetHead(h)
  PROVE  CanonicalIndex' /\ EpochPointers' /\ head' = h
         /\ safe' \in {Upto(h, n) : n \in 0..Len(h)}
         /\ finalized' \in {Upto(h, n) : n \in 0..Len(h)}
<1> DEFINE i == Len(h) \div Epoch
<1>1. Len(h) \in Nat /\ head' = h /\ numbers' = [n \in 0..Len(h) |-> Upto(h, n)]
  BY HeaderFacts, ReindexCorrect DEF SetHead, StoreInv
<1>2. CanonicalIndex'
  BY <1>1 DEF CanonicalIndex, Number
<1>3. Upto(h, 0) = Genesis /\ 0 \in 0..Len(h)
  BY <1>1, HeaderFacts, UptoAll
<1>4. CASE Epoch = 0
  <2>1. safe = Genesis /\ finalized = Genesis
    BY <1>4, HeaderFacts, UptoAll DEF StoreInv, EpochPointers, TypeOK
  <2>2. safe' = Genesis /\ finalized' = Genesis
    BY <1>4, <2>1 DEF SetHead, UpdateSafeFinalized
  <2>3. EpochPointers'
    BY <1>1, <1>3, <1>4, <2>2 DEF EpochPointers
  <2> QED
    BY <1>1, <1>2, <1>3, <2>2, <2>3
<1>5. CASE Epoch # 0
  <2>1. /\ i \in Nat /\ i * Epoch \in 0..Len(h)
        /\ i >= 2 => (i - 2) * Epoch \in 0..Len(h)
    BY <1>1, <1>5, EpochNumbers
  <2>2. safe' = Upto(h, i * Epoch)
    BY <1>1, <1>5, <2>1 DEF SetHead, UpdateSafeFinalized, CanonicalAt, Number
  <2>3. finalized' = Upto(h, IF i >= 2 THEN (i - 2) * Epoch ELSE 0)
    BY <1>1, <1>3, <1>5, <2>1 DEF SetHead, UpdateSafeFinalized, CanonicalAt, Number
  <2>4. EpochPointers'
    BY <1>1, <1>5, <2>2, <2>3 DEF EpochPointers, Number
  <2> QED
    BY <1>1, <1>2, <1>3, <2>1, <2>2, <2>3, <2>4
<1> QED
  BY <1>4, <1>5

-----------------------------------------------------------------------------
(* The invariant *)

LEMMA NewStoreInv ==
  ASSUME td' = [h \in {Genesis} |-> GenesisTD], numbers' = [n \in {0} |-> Genesis],
         head' = Genesis, safe' = Genesis, finalized' = Genesis
  PROVE  StoreInv'
<1>1. Genesis \in Headers /\ Genesis \in Seq(Seals) /\ Len(Genesis) = 0 /\ Upto(Genesis, 0) = Genesis
  BY GenesisFacts, HeaderFacts, UptoAll
<1>2. GenesisTD \in Int
  BY HeadersAssumption DEF GenesisTD
<1>3. TypeOK' /\ BranchesKnown' /\ HeaviestHead'
  BY <1>1, <1>2 DEF TypeOK, BranchesKnown, HeaviestHead, Known, Number
<1>4. CanonicalIndex'
  BY <1>1 DEF CanonicalIndex, Number
<1>5. EpochPointers'
  <2>1. CASE Epoch = 0
    BY <1>1, <2>1 DEF EpochPointers
  <2>2. CASE Epoch # 0
    <3>1. 0 \div Epoch = 0
      BY <2>2, HeadersAssumption
    <3> QED
      BY <1>1, <2>2, <3>1, HeadersAssumption DEF EpochPointers, Number
  <2> QED
    BY <2>1, <2>2
<1> QED
  BY <1>3, <1>4, <1>5 DEF StoreInv

LEMMA AddBlockInv ==
  ASSUME StoreInv, NEW h \in Headers, AddBlock(h)
  PROVE  StoreInv'
<1>1. /\ h \notin Known /\ h # Genesis /\ Parent(h) \in Known
      /\ Known' = Known \cup {h}
      /\ td'[h] = ChildTD(h) /\ \A x \in Known : td'[x] = td[x]
      /\ td' \in [Known' -> Int]
  <2>1. Difficulty[h[Len(h)]] \in Nat /\ h # Genesis
    BY ParentFacts, HeadersAssumption DEF AddBlock
  <2>2. ChildTD(h) \in Int
    BY <2>1 DEF ChildTD, AddBlock, StoreInv, TypeOK
  <2> QED
    BY <2>2 DEF AddBlock, Known, StoreInv, TypeOK
<1>2. h \in Seq(Seals) /\ Len(h) \in Nat
  BY HeaderFacts
<1>3. BranchesKnown'
  <2>1. ASSUME NEW n \in 0..Len(h) PROVE Upto(h, n) \in Known'
    <3>1. CASE n = Len(h)
      BY <1>1, <1>2, <3>1, UptoAll
    <3>2. CASE n # Len(h)
      <4>1. n \in 0..(Len(h) - 1) /\ Len(Parent(h)) = Len(h) - 1
        BY <1>1, <1>2, <3>2, ParentFacts
      <4>2. Upto(h, n) = Upto(Parent(h), n)
        BY <1>1, <4>1, ParentFacts
      <4> QED
        BY <1>1, <4>1, <4>2 DEF StoreInv, BranchesKnown, Number
    <3> QED
      BY <3>1, <3>2
  <2> QED
    BY <1>1, <2>1 DEF StoreInv, BranchesKnown, Number
<1>4. \A x \in Known \ {Genesis} : Parent(x) \in Known
  <2>1. ASSUME NEW x \in Known, x # Genesis PROVE Parent(x) \in Known
    <3>1. Len(x) \in Nat /\ Len(x) - 1 \in 0..Len(x)
      BY <2>1, ParentFacts DEF StoreInv, TypeOK
    <3> QED
      BY <3>1 DEF StoreInv, BranchesKnown, Parent, Number
  <2> QED
    BY <2>1
<1>5. \A x \in Known' \ {Genesis} : td'[x] = ChildTD(x)'
  <2>1. ASSUME NEW x \in Known' \ {Genesis} PROVE td'[x] = td'[Parent(x)] + Difficulty[x[Len(x)]]
    <3>1. CASE x = h
      BY <1>1, <3>1 DEF ChildTD
    <3>2. CASE x # h
      BY <1>1, <1>4, <2>1, <3>2 DEF StoreInv, HeaviestHead, ChildTD
    <3> QED
      BY <3>1, <3>2
  <2> QED
    BY <2>1 DEF ChildTD
<1>6. CASE ChildTD(h) > td[head]
  <2>1. /\ CanonicalIndex' /\ EpochPointers' /\ head' = h
        /\ safe' \in {Upto(h, n) : n \in 0..Len(h)}
        /\ finalized' \in {Upto(h, n) : n \in 0..Len(h)}
    BY <1>1, <1>6, SetHeadCorrect DEF AddBlock
  <2>2. TypeOK'
    BY <1>1, <1>3, <2>1 DEF StoreInv, TypeOK, BranchesKnown, Number
  <2>3. \A x \in Known' : td'[x] <= td'[head']
    BY <1>1, <1>6, <2>1 DEF StoreInv, TypeOK, HeaviestHead
  <2> QED
    BY <1>3, <1>5, <2>1, <2>2, <2>3 DEF StoreInv, HeaviestHead
<1>7. CASE ~(ChildTD(h) > td[head])
  <2>1. UNCHANGED <<numbers, head, safe, finalized>>
    BY <1>7 DEF AddBlock
  <2>2. TypeOK' /\ CanonicalIndex' /\ EpochPointers'
    BY <1>1, <2>1 DEF StoreInv, TypeOK, CanonicalIndex, EpochPointers
  <2>3. \A x \in Known' : td'[x] <= td'[head']
    BY <1>1, <1>7, <2>1 DEF StoreInv, TypeOK, HeaviestHead
  <2> QED
    BY <1>3, <1>5, <2>2, <2>3 DEF StoreInv, HeaviestHead
<1> QED
  BY <1>6, <1>7

LEMMA StoreInvInit == Init => StoreInv
<1> SUFFICES ASSUME Init PROVE StoreInv
  OBVIOUS
<1>1. Genesis \in Headers /\ Genesis \in Seq(Seals) /\ Len(Genesis) = 0 /\ Upto(Genesis, 0) = Genesis
  BY GenesisFacts, HeaderFacts, UptoAll
<1>2. TypeOK /\ BranchesKnown /\ HeaviestHead
  BY <1>1, HeadersAssumption DEF Init, GenesisTD, TypeOK, BranchesKnown, HeaviestHead, Known, Number
<1>3. CanonicalIndex
  BY <1>1 DEF Init, CanonicalIndex, Number
<1>4. Epoch # 0 => 0 \div Epoch = 0
  BY HeadersAssumption
<1>5. EpochPointers
  BY <1>1, <1>4, HeadersAssumption DEF Init, EpochPointers, Number
<1> QED
  BY <1>2, <1>3, <1>5 DEF StoreInv

LEMMA StoreInvNext == StoreInv /\ [Next]_storeVars => StoreInv'
<1> SUFFICES ASSUME StoreInv, [Next]_storeVars PROVE StoreInv'
  OBVIOUS
<1>1. ASSUME NEW h \in Headers, AddBlock(h) PROVE StoreInv'
  BY <1>1, AddBlockInv
<1>2. CASE Reset
  BY <1>2, NewStoreInv DEF Reset
<1>3. CASE UNCHANGED storeVars
  BY <1>3 DEF storeVars, StoreInv, TypeOK, CanonicalIndex, BranchesKnown, HeaviestHead,
     EpochPointers, Known, ChildTD
<1> QED
  BY <1>1, <1>2, <1>3 DEF Next

\* Whatever blocks arrive and however often the store is reset, its index is
\* the head's branch, its head is heaviest, and safe and finalized are the
\* epoch blocks of that branch (AddBlock, setHead, updateSafeFinalized).
THEOREM StoreCorrect == Spec => []StoreInv
  BY StoreInvInit, StoreInvNext, PTL DEF Spec

\* The store's maps and pointers always hold known headers.
THEOREM StoreTypeCorrect == Spec => []TypeOK
<1>1. StoreInv => TypeOK
  BY DEF StoreInv
<1> QED
  BY <1>1, StoreCorrect, PTL

\* The branch of a known block is known down to genesis, so no walk of setHead
\* or findCommonAncestor meets an unknown parent.
THEOREM BranchesComplete == Spec => []BranchesKnown
<1>1. StoreInv => BranchesKnown
  BY DEF StoreInv
<1> QED
  BY <1>1, StoreCorrect, PTL

\* After any sequence of reorgs the canonical index is exactly the head's
\* branch (setHead).
THEOREM IndexCorrect == Spec => []CanonicalIndex
<1>1. StoreInv => CanonicalIndex
  BY DEF StoreInv
<1> QED
  BY <1>1, StoreCorrect, PTL

\* The head is always a heaviest known block (AddBlock).
THEOREM HeadCorrect == Spec => []HeaviestHead
<1>1. StoreInv => HeaviestHead
  BY DEF StoreInv
<1> QED
  BY <1>1, StoreCorrect, PTL

\* Safe and finalized are always the epoch blocks of the head's branch
\* (updateSafeFinalized).
THEOREM PointersCorrect == Spec => []EpochPointers
<1>1. StoreInv => EpochPointers
  BY DEF StoreInv
<1> QED
  BY <1>1, StoreCorrect, PTL

-----------------------------------------------------------------------------
(* The store and its file *)

\* Every record of the file that was not torn is a header, and only a replay is
\* somewhere in the file.
FileOK ==
  /\ file \in Seq(Headers \cup {Torn}) /\ Len(file) <= MaxRecords
  /\ pos \in 0..Len(file) /\ (mode # "Replaying" => pos = 0)
  /\ mode \in Modes /\ logged \in BOOLEAN

\* What is replayed has no torn record: repair cut the file before it.
Repaired == mode = "Replaying" => \A i \in 1..Len(file) : file[i] # Torn

LEMMA ReadableFacts ==
  ASSUME NEW f \in Seq(Headers \cup {Torn})
  PROVE  /\ Readable(f) \in Seq(Headers \cup {Torn}) /\ Len(Readable(f)) <= Len(f)
         /\ \A i \in 1..Len(Readable(f)) : Readable(f)[i] # Torn
<1> DEFINE good == {n \in 0..Len(f) : \A i \in 1..n : f[i] # Torn}
           m == CHOOSE n \in good : \A k \in good : k <= n
<1>1. Len(f) \in Nat
  BY LenProperties
<1>2. good \in SUBSET (0..Len(f)) /\ 0 \in good
  BY <1>1
<1>3. m \in good
  <2>1. \E n \in good : \A k \in good : k <= n
    BY <1>1, <1>2, BoundedMaximum
  <2> QED
    BY <2>1
<1>4. /\ Readable(f) = SubSeq(f, 1, m) /\ m \in 0..Len(f)
      /\ \A i \in 1..m : f[i] # Torn
  BY <1>3 DEF Readable
<1> HIDE DEF m
<1> QED
  BY <1>1, <1>4

LEMMA FileStep ==
  ASSUME FileOK, Repaired, [ChainNext]_chainVars
  PROVE  FileOK' /\ Repaired'
<1> USE FileAssumption DEF FileOK, Repaired, Modes
<1>1. ASSUME NEW h \in Headers, AddAndAppend(h) PROVE FileOK' /\ Repaired'
  <2>1. logged' \in BOOLEAN
    BY <1>1, Zenon DEF AddAndAppend
  <2>2. /\ file' \in {file, Append(file, h), Append(file, Torn)} /\ Len(file) < MaxRecords
        /\ mode \in {"Up", "Resetting"} /\ UNCHANGED <<mode, pos>>
    BY <1>1 DEF AddAndAppend
  <2> QED
    BY <2>1, <2>2
<1>2. CASE Truncate
  BY <1>2 DEF Truncate
<1>3. CASE ResetStore
  BY <1>3 DEF ResetStore
<1>4. CASE Crash
  BY <1>4 DEF Crash
<1>5. CASE Restart
  BY <1>5, ReadableFacts DEF Restart
<1>6. CASE ReplayRecord
  BY <1>6 DEF ReplayRecord
<1>7. CASE SetDB
  BY <1>7 DEF SetDB
<1>8. CASE UNCHANGED chainVars
  BY <1>8 DEF chainVars, fileVars
<1> QED
  BY <1>1, <1>2, <1>3, <1>4, <1>5, <1>6, <1>7, <1>8 DEF ChainNext

LEMMA StoreStep ==
  ASSUME FileOK, Repaired, [ChainNext]_chainVars
  PROVE  [Next]_storeVars
<1>1. ASSUME NEW h \in Headers, AddAndAppend(h) PROVE [Next]_storeVars
  BY <1>1 DEF AddAndAppend, Next
<1>2. CASE Truncate
  BY <1>2 DEF Truncate
<1>3. CASE ResetStore
  BY <1>3 DEF ResetStore, Next
<1>4. CASE Crash
  BY <1>4 DEF Crash
<1>5. CASE Restart
  BY <1>5 DEF Restart, Next
<1>6. CASE ReplayRecord
  <2> DEFINE h == file[pos + 1]
  <2>1. CASE AddBlock(h)
    <3>1. h \in Headers
      <4>1. pos + 1 \in 1..Len(file)
        BY <1>6, LenProperties DEF ReplayRecord, FileOK
      <4> QED
        BY <1>6, <4>1, ElementOfSeq DEF ReplayRecord, FileOK, Repaired
    <3> QED
      BY <2>1, <3>1 DEF Next
  <2>2. CASE UNCHANGED storeVars
    BY <2>2
  <2> QED
    BY <1>6, <2>1, <2>2 DEF ReplayRecord
<1>7. CASE SetDB
  BY <1>7 DEF SetDB
<1>8. CASE UNCHANGED chainVars
  BY <1>8 DEF chainVars, storeVars
<1> QED
  BY <1>1, <1>2, <1>3, <1>4, <1>5, <1>6, <1>7, <1>8 DEF ChainNext

LEMMA FileCorrect == ChainSpec => [](FileOK /\ Repaired)
<1>1. ChainInit => FileOK /\ Repaired
  BY FileAssumption DEF ChainInit, FileOK, Repaired, Modes
<1>2. FileOK /\ Repaired /\ [ChainNext]_chainVars => FileOK' /\ Repaired'
  BY FileStep
<1> QED
  BY <1>1, <1>2, PTL DEF ChainSpec

\* The store with its file, its crashes and its replay implements the store.
LEMMA ChainImplementsStore == ChainSpec => Spec
<1>1. ChainInit => Init
  BY DEF ChainInit
<1>2. FileOK /\ Repaired /\ [ChainNext]_chainVars => [Next]_storeVars
  BY StoreStep
<1> QED
  BY <1>1, <1>2, FileCorrect, PTL DEF ChainSpec, Spec

\* A node that crashed at any point and replayed what its file still holds has
\* a correct store (replayChain, repair).
THEOREM ChainStoreCorrect == ChainSpec => []StoreInv
  BY ChainImplementsStore, StoreCorrect, PTL

\* A torn record never survives repair, whatever was written before the crash,
\* and a replay stays within the file (repair, ReadAll, replayChain).
THEOREM ChainTypeCorrect == ChainSpec => []ChainTypeOK
<1> DEFINE Histories == durable \subseteq Headers /\ slipped \subseteq Headers
<1>1. StoreInv /\ FileOK /\ Repaired /\ Histories => ChainTypeOK
  BY FileAssumption DEF StoreInv, FileOK, Repaired, ChainTypeOK
<1>2. ChainInit => Histories
  BY GenesisFacts DEF ChainInit
<1>3. StoreInv /\ Histories /\ [ChainNext]_chainVars => Histories'
  <2> SUFFICES ASSUME StoreInv, Histories, [ChainNext]_chainVars PROVE Histories'
    OBVIOUS
  <2>1. Known \subseteq Headers /\ Genesis \in Headers
    BY GenesisFacts DEF StoreInv, TypeOK
  <2>2. ASSUME NEW h \in Headers, AddAndAppend(h) PROVE Histories'
    BY <2>2 DEF AddAndAppend
  <2>3. CASE Truncate \/ ResetStore \/ Crash \/ Restart \/ ReplayRecord \/ SetDB
    BY <2>1, <2>3 DEF Truncate, ResetStore, Crash, Restart, ReplayRecord, SetDB
  <2>4. CASE UNCHANGED chainVars
    BY <2>4 DEF chainVars, fileVars
  <2> QED
    BY <2>2, <2>3, <2>4 DEF ChainNext
<1> HIDE DEF Histories
<1> QED
  BY <1>1, <1>2, <1>3, ChainStoreCorrect, FileCorrect, PTL DEF ChainSpec

-----------------------------------------------------------------------------
(* The replay.  What a replay computes would be a recursive function of the  *)
(* file.  Instead, a run lists the stores that adding the records one by one *)
(* goes through; a step of the process extends a run or moves along it.      *)

\* The rest of the store follows from these two.
State == <<td, head>>

NewState == <<[h \in {Genesis} |-> GenesisTD], Genesis>>

\* The store after AddBlock(h), which may refuse h.
Added(s, h) ==
  IF h \notin DOMAIN s[1] /\ h # Genesis /\ Parent(h) \in DOMAIN s[1]
  THEN LET t == s[1][Parent(h)] + Difficulty[h[Len(h)]]
       IN  <<[x \in DOMAIN s[1] \cup {h} |-> IF x = h THEN t ELSE s[1][x]],
             IF t > s[1][s[2]] THEN h ELSE s[2]>>
  ELSE s

\* The variables of the store with the given state.
Whole(s) ==
  LET i == IF Epoch = 0 THEN 0 ELSE Number(s[2]) \div Epoch
  IN  <<s[1], [n \in 0..Number(s[2]) |-> Upto(s[2], n)], s[2],
        Upto(s[2], i * Epoch), Upto(s[2], IF i >= 2 THEN (i - 2) * Epoch ELSE 0)>>

\* run[i] is the store after the first i records of f, up to n.
IsRun(run, f, n) == run[0] = NewState /\ \A i \in 1..n : run[i] = Added(run[i - 1], f[i])

\* The first n records of f make the store s.
Makes(f, n, s) == \E run : IsRun(run, f, n) /\ run[n] = s

\* A store of a process: it has genesis, and its head.
Based(s) ==
  /\ s[1] = [x \in DOMAIN s[1] |-> s[1][x]]
  /\ Genesis \in DOMAIN s[1] /\ s[2] \in DOMAIN s[1]

\* The store F, which the readable records make, has the durable blocks D, and of
\* the others only blocks of the store S and the slipped ones, L.  Without these
\* it differs from S in nothing but the blocks it lacks: the head of S is its
\* head, as long as it has that block.
Backs(F, S, D, L) ==
  /\ D \subseteq DOMAIN F[1]
  /\ DOMAIN F[1] \subseteq DOMAIN S[1] \cup L
  /\ L = {} => /\ \A x \in DOMAIN F[1] : F[1][x] = S[1][x]
               /\ S[2] \in DOMAIN F[1] => F[2] = S[2]

\* The whole of f makes a store that backs the one that there was before the
\* process stopped, and its first n records make s.
Rebuilds(f, n, s) ==
  \E run, B :
    /\ IsRun(run, f, Len(f)) /\ run[n] = s /\ Based(run[Len(f)])
    /\ before = Whole(B) /\ Based(B) /\ Backs(run[Len(f)], B, durable, slipped)

Intact(f) == \A i \in 1..Len(f) : f[i] # Torn

\* The readable records make F.
Records(f, F) == Makes(Readable(f), Len(Readable(f)), F) /\ Based(F)

\* The file of a running process makes a store that backs its own, the file of
\* one that stopped a store that backs the one it had, and a replay is on the way
\* there.
ReplayInv ==
  /\ td[Genesis] = GenesisTD
  /\ mode \in {"Up", "Resetting"} /\ logged => Intact(file)
  /\ mode = "Up" => /\ \E F : Records(file, F) /\ Backs(F, State, durable, slipped)
                    /\ logged => durable = Known
  /\ mode = "Resetting" =>
       /\ durable = {Genesis}
       /\ \E F : /\ Records(file, F) /\ DOMAIN F[1] \subseteq {Genesis} \cup slipped
                 /\ slipped = {} => F = NewState
  /\ mode = "Down" => Rebuilds(Readable(file), 0, NewState)
  /\ mode = "Replaying" => Rebuilds(file, pos, State)

LEMMA WholeState ==
  ASSUME StoreInv
  PROVE  storeVars = Whole(State)
  BY DEF StoreInv, CanonicalIndex, EpochPointers, storeVars, Whole, State

LEMMA AddedByAddBlock ==
  ASSUME NEW h, AddBlock(h)
  PROVE  State' = Added(State, h)
  BY DEF AddBlock, SetHead, Added, State, Known, ChildTD

LEMMA ResetState ==
  ASSUME Reset
  PROVE  State' = NewState
  BY DEF Reset, State, NewState

LEMMA EmptyRun ==
  ASSUME NEW f
  PROVE  Makes(f, 0, NewState)
<1> DEFINE run == [i \in {0} |-> NewState]
<1>1. IsRun(run, f, 0) /\ run[0] = NewState
  BY DEF IsRun
<1> QED
  BY <1>1 DEF Makes

\* A run goes on with the next record, whatever follows it.
LEMMA LongerRun ==
  ASSUME NEW f, NEW g, NEW n \in Nat, NEW s, Makes(f, n, s), \A i \in 1..n : g[i] = f[i]
  PROVE  Makes(g, n + 1, Added(s, g[n + 1]))
<1>1. PICK run : IsRun(run, f, n) /\ run[n] = s
  BY DEF Makes
<1> DEFINE longer == [i \in 0..(n + 1) |-> IF i = n + 1 THEN Added(s, g[n + 1]) ELSE run[i]]
<1>2. longer[0] = NewState /\ longer[n + 1] = Added(s, g[n + 1])
  BY <1>1 DEF IsRun
<1>3. ASSUME NEW i \in 1..(n + 1) PROVE longer[i] = Added(longer[i - 1], g[i])
  <2>1. longer[i - 1] = run[i - 1]
    OBVIOUS
  <2>2. CASE i = n + 1
    BY <1>1, <1>2, <2>1, <2>2
  <2>3. CASE i # n + 1
    <3>1. i \in 1..n /\ longer[i] = run[i]
      BY <2>3
    <3> QED
      BY <1>1, <2>1, <3>1 DEF IsRun
  <2> QED
    BY <2>2, <2>3
<1> HIDE DEF longer
<1> QED
  BY <1>2, <1>3 DEF Makes, IsRun

\* The scan of repair stops at the first torn record.
LEMMA ReadableAppend ==
  ASSUME NEW f \in Seq(Headers \cup {Torn}), NEW h
  PROVE  /\ Intact(f) => Readable(f) = f
         /\ Readable(Append(f, h)) = IF Intact(f) /\ h # Torn THEN Append(f, h) ELSE Readable(f)
<1>1. Len(f) \in Nat
  BY LenProperties
<1> DEFINE good(g) == {n \in 0..Len(g) : \A i \in 1..n : g[i] # Torn}
           end(g) == CHOOSE n \in good(g) : \A k \in good(g) : k <= n
           g == Append(f, h)
<1>2. Len(g) = Len(f) + 1 /\ g[Len(f) + 1] = h /\ \A i \in 1..Len(f) : g[i] = f[i]
  BY <1>1
<1>3. Readable(f) = SubSeq(f, 1, end(f)) /\ Readable(g) = SubSeq(g, 1, end(g))
  BY DEF Readable
<1>4. end(f) \in 0..Len(f)
  <2>1. good(f) \in SUBSET (0..Len(f)) /\ 0 \in good(f)
    BY <1>1
  <2>2. \E n \in good(f) : \A k \in good(f) : k <= n
    BY <1>1, <2>1, BoundedMaximum
  <2> QED
    BY <2>1, <2>2
<1>5. ASSUME Intact(f) PROVE Readable(f) = f
  <2>1. \A n \in good(f) : (\A k \in good(f) : k <= n) <=> n = Len(f)
    BY <1>1, <1>5 DEF Intact
  <2>2. Len(f) \in good(f)
    BY <1>1, <1>5 DEF Intact
  <2>3. end(f) = Len(f)
    BY <2>1, <2>2
  <2>4. SubSeq(f, 1, Len(f)) = f
    BY <1>1
  <2> QED
    BY <1>3, <2>3, <2>4
<1>6. ASSUME Intact(f), h # Torn PROVE Readable(g) = g
  <2>1. \A n \in good(g) : (\A k \in good(g) : k <= n) <=> n = Len(g)
    BY <1>1, <1>2, <1>6 DEF Intact
  <2>2. Len(g) \in good(g)
    BY <1>1, <1>2, <1>6 DEF Intact
  <2>3. end(g) = Len(g)
    BY <2>1, <2>2
  <2>4. SubSeq(g, 1, Len(g)) = g
    BY <1>1, <1>2
  <2> QED
    BY <1>3, <2>3, <2>4
<1>7. ASSUME ~(Intact(f) /\ h # Torn) PROVE Readable(g) = Readable(f)
  <2>1. good(g) = good(f)
    BY <1>1, <1>2, <1>7 DEF Intact
  <2>2. end(g) = end(f)
    BY <2>1
  <2>3. SubSeq(g, 1, end(f)) = SubSeq(f, 1, end(f))
    <3> HIDE DEF end
    <3> QED
      BY <1>1, <1>2, <1>4
  <2> QED
    BY <1>3, <2>2, <2>3
<1> HIDE DEF g
<1>8. Readable(g) = IF Intact(f) /\ h # Torn THEN g ELSE Readable(f)
  BY <1>6, <1>7
<1> QED
  BY <1>5, <1>8 DEF g

LEMMA NewBased == Based(NewState) /\ DOMAIN NewState[1] = {Genesis} /\ NewState[2] = Genesis
  BY DEF Based, NewState

\* The store and what its file makes go on together.
LEMMA AddedBacks ==
  ASSUME NEW F, NEW S, NEW D, NEW L, NEW h, Based(F), Based(S), Backs(F, S, D, L),
         \A x \in DOMAIN S[1] : S[1][x] \in Int /\ S[1][x] <= S[1][S[2]],
         h \notin DOMAIN S[1], h # Genesis, Parent(h) \in DOMAIN S[1],
         Difficulty[h[Len(h)]] \in Int
  PROVE  /\ Based(Added(F, h)) /\ Backs(Added(F, h), Added(S, h), D, L)
         /\ Backs(F, Added(S, h), D, L)
<1> DEFINE d == Difficulty[h[Len(h)]]
           t == S[1][Parent(h)] + d
           u == F[1][Parent(h)] + d
           S2 == Added(S, h)
           F2 == Added(F, h)
<1>1. /\ DOMAIN S2[1] = DOMAIN S[1] \cup {h}
      /\ \A x \in DOMAIN S[1] : S2[1][x] = S[1][x]
      /\ S2[1][h] = t /\ S2[2] = IF t > S[1][S[2]] THEN h ELSE S[2]
  BY DEF Added
<1>2. Backs(F, S2, D, L)
  BY <1>1 DEF Backs, Based
<1>3. CASE ~(h \notin DOMAIN F[1] /\ Parent(h) \in DOMAIN F[1])
  <2>1. F2 = F
    BY <1>3 DEF Added
  <2> QED
    BY <1>2, <2>1
<1>4. CASE h \notin DOMAIN F[1] /\ Parent(h) \in DOMAIN F[1]
  <2>1. /\ F2 = <<[x \in DOMAIN F[1] \cup {h} |-> IF x = h THEN u ELSE F[1][x]],
                  IF u > F[1][F[2]] THEN h ELSE F[2]>>
    BY <1>4 DEF Added
  <2>2. /\ DOMAIN F2[1] = DOMAIN F[1] \cup {h} /\ F2[1][h] = u
        /\ \A x \in DOMAIN F[1] : F2[1][x] = F[1][x]
        /\ F2[2] = IF u > F[1][F[2]] THEN h ELSE F[2]
        /\ F2[1] = [x \in DOMAIN F2[1] |-> F2[1][x]]
    BY <1>4, <2>1
  <2>3. Based(F2)
    BY <2>2 DEF Based
  <2> HIDE DEF F2, S2, d
  <2>4. ASSUME L = {}
        PROVE  /\ \A x \in DOMAIN F2[1] : F2[1][x] = S2[1][x]
               /\ S2[2] \in DOMAIN F2[1] => F2[2] = S2[2]
    <3>1. /\ \A x \in DOMAIN F[1] : F[1][x] = S[1][x] /\ x \in DOMAIN S[1]
          /\ S[2] \in DOMAIN F[1] => F[2] = S[2]
      BY <2>4 DEF Backs
    <3>2. u = t /\ F[2] \in DOMAIN F[1] /\ S[2] \in DOMAIN S[1]
      BY <1>4, <3>1 DEF Based
    <3>3. \A x \in DOMAIN F2[1] : F2[1][x] = S2[1][x]
      BY <1>1, <2>2, <3>1, <3>2
    <3> DEFINE a == F[1][F[2]]
               b == S[1][S[2]]
    <3>4. a \in Int /\ b \in Int /\ a <= b
      BY <3>1, <3>2
    <3>5. t \in Int
      BY DEF d
    <3>6. /\ S2[2] = IF t > b THEN h ELSE S[2]
          /\ F2[2] = IF t > a THEN h ELSE F[2]
      BY <1>1, <2>2, <3>2
    <3>7. F[2] = S[2] => a = b
      BY <3>1, <3>2
    <3> HIDE DEF a, b, t, u
    <3>8. CASE t > b
      <4>1. t > a
        BY <3>4, <3>5, <3>8
      <4> QED
        BY <3>3, <3>6, <3>8, <4>1
    <3>9. CASE ~(t > b) /\ S[2] \in DOMAIN F[1]
      BY <3>1, <3>3, <3>6, <3>7, <3>9
    <3>10. CASE ~(t > b) /\ S[2] \notin DOMAIN F[1]
      BY <2>2, <3>2, <3>3, <3>6, <3>10
    <3> QED
      BY <3>8, <3>9, <3>10
  <2>5. Backs(F2, S2, D, L)
    BY <1>1, <2>2, <2>4 DEF Backs
  <2> QED
    BY <1>2, <2>3, <2>5 DEF F2, S2
<1> QED
  BY <1>3, <1>4

LEMMA EmptyRecords == Intact(<<>>) /\ Records(<<>>, NewState)
<1>1. Intact(<<>>) /\ <<>> \in Seq(Headers \cup {Torn})
  BY DEF Intact
<1>2. Readable(<<>>) = <<>>
  BY <1>1, ReadableAppend
<1>3. Makes(<<>>, 0, NewState)
  BY EmptyRun
<1> QED
  BY <1>1, <1>2, <1>3, NewBased DEF Records

LEMMA AddedBased ==
  ASSUME NEW F, NEW h, Based(F)
  PROVE  Based(Added(F, h)) /\ DOMAIN Added(F, h)[1] \subseteq DOMAIN F[1] \cup {h}
<1> DEFINE t == F[1][Parent(h)] + Difficulty[h[Len(h)]]
           G == <<[x \in DOMAIN F[1] \cup {h} |-> IF x = h THEN t ELSE F[1][x]],
                  IF t > F[1][F[2]] THEN h ELSE F[2]>>
<1>1. Added(F, h) = G \/ Added(F, h) = F
  BY DEF Added
<1>2. /\ DOMAIN G[1] = DOMAIN F[1] \cup {h} /\ (G[2] = h \/ G[2] = F[2])
      /\ G[1] = [x \in DOMAIN G[1] |-> G[1][x]]
  OBVIOUS
<1> HIDE DEF G
<1> QED
  BY <1>1, <1>2 DEF Based

LEMMA ReplayInvInit == ChainInit => ReplayInv
<1> SUFFICES ASSUME ChainInit PROVE ReplayInv
  OBVIOUS
<1>1. /\ State = NewState /\ file = <<>> /\ mode = "Up" /\ durable = {Genesis} /\ slipped = {}
      /\ Known = {Genesis} /\ td[Genesis] = GenesisTD
  BY DEF ChainInit, Init, State, NewState, Known
<1>2. Intact(file) /\ Records(file, NewState)
  BY <1>1, EmptyRecords
<1>3. Backs(NewState, State, durable, slipped)
  BY <1>1, NewBased DEF Backs
<1> QED
  BY <1>1, <1>2, <1>3 DEF ReplayInv

LEMMA StateFacts ==
  ASSUME StoreInv
  PROVE  /\ Based(State) /\ DOMAIN State[1] = Known /\ State[1] = td /\ State[2] = head
         /\ \A x \in Known : td[x] \in Int /\ td[x] <= td[head]
  BY DEF StoreInv, TypeOK, HeaviestHead, State, Based, Known

\* What the file makes goes on with a record that can be read,
LEMMA RecordsLonger ==
  ASSUME NEW f \in Seq(Headers \cup {Torn}), NEW F, Records(f, F), NEW h, Based(Added(F, h)),
         h # Torn, Intact(f)
  PROVE  Records(Append(f, h), Added(F, h))
<1> DEFINE g == Append(f, h)
<1>1. Readable(f) = f /\ Readable(g) = g
  BY ReadableAppend
<1>2. /\ Len(f) \in Nat /\ Len(g) = Len(f) + 1 /\ g[Len(f) + 1] = h
      /\ \A i \in 1..Len(f) : g[i] = f[i]
  BY LenProperties
<1>3. Makes(f, Len(f), F)
  BY <1>1 DEF Records
<1> HIDE DEF g
<1>4. Makes(g, Len(f) + 1, Added(F, g[Len(f) + 1]))
  BY <1>2, <1>3, LongerRun
<1>5. Records(g, Added(F, h))
  BY <1>1, <1>2, <1>4 DEF Records
<1> QED
  BY <1>5 DEF g

\* and with no other.
LEMMA RecordsSame ==
  ASSUME NEW f \in Seq(Headers \cup {Torn}), NEW F, Records(f, F), NEW h,
         ~(Intact(f) /\ h # Torn)
  PROVE  Records(Append(f, h), F)
  BY ReadableAppend DEF Records

LEMMA AppendKeeps ==
  ASSUME FileOK, StoreInv, ReplayInv, NEW h \in Headers, AddAndAppend(h)
  PROVE  ReplayInv'
<1>1. /\ mode' = mode /\ mode \in {"Up", "Resetting"} /\ State' = Added(State, h)
      /\ h \notin Known /\ h # Genesis /\ Parent(h) \in Known
  BY AddedByAddBlock DEF AddAndAppend, AddBlock
<1>2. /\ file \in Seq(Headers \cup {Torn}) /\ h # Torn
      /\ Difficulty[h[Len(h)]] \in Int
  <2>1. h[Len(h)] \in Seals
    BY <1>1, HeaderFacts DEF Genesis
  <2> QED
    BY <2>1, FileAssumption, HeadersAssumption DEF FileOK
<1>3. Known' = Known \cup {h} /\ td'[Genesis] = GenesisTD
  BY <1>1 DEF AddAndAppend, AddBlock, Known, ReplayInv, StoreInv, TypeOK
<1>4. Known = DOMAIN State[1] /\ Based(State)
      /\ \A x \in DOMAIN State[1] : State[1][x] \in Int /\ State[1][x] <= State[1][State[2]]
  BY StateFacts
<1>5. \/ /\ file' = Append(file, h) /\ logged' = logged
         /\ durable' = durable \cup (IF mode = "Up" /\ logged THEN {h} ELSE {})
         /\ slipped' = slipped \cup (IF mode = "Resetting" THEN {h} ELSE {})
      \/ /\ file' \in {file, Append(file, Torn)} /\ ~logged'
         /\ durable' = durable /\ slipped' = slipped
  BY DEF AddAndAppend
<1>6. mode' \in {"Up", "Resetting"} /\ logged' => Intact(file')
  <2> SUFFICES ASSUME logged' PROVE Intact(file')
    OBVIOUS
  <2>1. Intact(file) /\ file' = Append(file, h)
    BY <1>1, <1>5 DEF ReplayInv
  <2> QED
    BY <1>2, <2>1 DEF Intact
\* The readable records make F, as before, or go on with h.
<1>7. ASSUME NEW F, Records(file, F), Based(Added(F, h))
      PROVE  \/ Records(file', F) /\ ~logged'
             \/ Records(file', Added(F, h)) /\ file' = Append(file, h)
  <2>1. CASE file' = Append(file, h) /\ Intact(file)
    BY <1>2, <1>7, <2>1, RecordsLonger
  <2>2. CASE file' = Append(file, h) /\ ~Intact(file)
    BY <1>1, <1>2, <1>5, <1>7, <2>2, RecordsSame DEF ReplayInv
  <2>3. CASE file' = file /\ ~logged'
    BY <1>7, <2>3
  <2>4. CASE file' = Append(file, Torn) /\ ~logged'
    BY <1>2, <1>7, <2>4, RecordsSame
  <2> QED
    BY <1>5, <2>1, <2>2, <2>3, <2>4
<1>8. CASE mode = "Up"
  <2>1. PICK F : Records(file, F) /\ Backs(F, State, durable, slipped)
    BY <1>8 DEF ReplayInv
  <2>2. /\ Based(Added(F, h)) /\ Backs(Added(F, h), State', durable, slipped)
        /\ Backs(F, State', durable, slipped)
    BY <1>1, <1>2, <1>4, <2>1, AddedBacks DEF Records
  <2>3. /\ slipped' = slipped /\ (logged => durable = Known)
        /\ \/ logged' = logged /\ durable' = durable \cup (IF logged THEN {h} ELSE {})
           \/ ~logged' /\ durable' = durable
    BY <1>5, <1>8 DEF ReplayInv
  <2>4. logged => h \in DOMAIN Added(F, h)[1]
    <3> SUFFICES ASSUME logged PROVE h \in DOMAIN Added(F, h)[1]
      OBVIOUS
    <3>1. Parent(h) \in DOMAIN F[1]
      BY <1>1, <2>1, <2>3 DEF Backs
    <3> QED
      BY <1>1, <3>1 DEF Added
  <2>5. \E G : Records(file', G) /\ Backs(G, State', durable', slipped')
    <3>1. CASE Records(file', F) /\ ~logged'
      <4>1. durable' = durable
        BY <2>3, <3>1
      <4> QED
        BY <2>2, <2>3, <3>1, <4>1
    <3>2. CASE Records(file', Added(F, h))
      <4>1. Backs(Added(F, h), State', durable', slipped)
        BY <2>2, <2>3, <2>4 DEF Backs
      <4> QED
        BY <2>3, <3>2, <4>1
    <3> QED
      BY <1>7, <2>1, <2>2, <3>1, <3>2
  <2>6. logged' => durable' = Known'
    BY <1>3, <2>3
  <2> QED
    BY <1>1, <1>3, <1>6, <1>8, <2>5, <2>6 DEF ReplayInv
<1>9. CASE mode = "Resetting"
  <2>1. PICK F : /\ Records(file, F) /\ DOMAIN F[1] \subseteq {Genesis} \cup slipped
                 /\ slipped = {} => F = NewState
    BY <1>9 DEF ReplayInv
  <2>2. /\ DOMAIN Added(F, h)[1] \subseteq DOMAIN F[1] \cup {h} /\ Based(Added(F, h))
    BY <2>1, AddedBased DEF Records
  <2>3. CASE file' = Append(file, h)
    <3>1. slipped' = slipped \cup {h} /\ durable' = durable
      BY <1>2, <1>5, <1>9, <2>3
    <3>2. \E G : Records(file', G) /\ DOMAIN G[1] \subseteq {Genesis} \cup slipped'
      BY <1>7, <2>1, <2>2, <3>1
    <3> QED
      BY <1>1, <1>3, <1>6, <1>9, <3>1, <3>2 DEF ReplayInv
  <2>4. CASE file' # Append(file, h)
    <3>1. Records(file', F) /\ slipped' = slipped /\ durable' = durable
      BY <1>5, <1>7, <2>1, <2>2, <2>4
    <3> QED
      BY <1>1, <1>3, <1>6, <1>9, <2>1, <3>1 DEF ReplayInv
  <2> QED
    BY <2>3, <2>4
<1> QED
  BY <1>1, <1>8, <1>9

LEMMA CrashKeeps ==
  ASSUME FileOK, Repaired, StoreInv, ReplayInv, Crash
  PROVE  ReplayInv'
<1>1. mode' = "Down" /\ UNCHANGED <<logged, durable, slipped, td>>
  BY DEF Crash, storeVars
<1>2. SUFFICES ASSUME TRUE PROVE Rebuilds(Readable(file), 0, NewState)'
  BY <1>1 DEF ReplayInv
<1>3. CASE mode \in {"Up", "Resetting"}
  <2>1. before' = Whole(State) /\ Based(State) /\ DOMAIN State[1] = Known
    BY <1>3, WholeState, StateFacts DEF Crash
  <2>2. PICK F : Records(file, F) /\ Backs(F, State, durable, slipped)
    <3>1. CASE mode = "Up"
      BY <3>1 DEF ReplayInv
    <3>2. CASE mode = "Resetting"
      <4>1. PICK F : /\ Records(file, F) /\ DOMAIN F[1] \subseteq {Genesis} \cup slipped
                     /\ slipped = {} => F = NewState
        BY <3>2 DEF ReplayInv
      <4>2. durable = {Genesis} /\ Genesis \in DOMAIN F[1] /\ Genesis \in DOMAIN State[1]
        BY <3>2, <2>1, <4>1 DEF ReplayInv, Records, Based
      <4>3. NewState[1][Genesis] = State[1][Genesis]
        BY DEF NewState, State, ReplayInv
      <4> QED
        BY <4>1, <4>2, <4>3, NewBased DEF Backs
    <3> QED
      BY <1>3, <3>1, <3>2
  <2>3. Readable(file') = Readable(file)
    BY <1>3, ReadableAppend DEF FileOK, Crash
  <2>4. PICK run : /\ IsRun(run, Readable(file), Len(Readable(file)))
                   /\ run[Len(Readable(file))] = F
    BY <2>2 DEF Records, Makes
  <2>5. run[0] = NewState /\ Based(F)
    BY <2>2, <2>4 DEF IsRun, Records
  <2> QED
    BY <1>1, <2>1, <2>2, <2>3, <2>4, <2>5 DEF Rebuilds
<1>4. CASE mode = "Replaying"
  <2>1. before' = before /\ file' = file
    BY <1>4 DEF Crash
  <2>2. Rebuilds(file, pos, State)
    BY <1>4 DEF ReplayInv
  <2>3. Readable(file) = file
    BY <1>4, ReadableAppend DEF FileOK, Repaired, Intact
  <2> QED
    BY <1>1, <2>1, <2>2, <2>3 DEF Rebuilds, IsRun
<1> QED
  BY <1>3, <1>4 DEF FileOK, Modes, Crash

LEMMA RestartKeeps ==
  ASSUME ReplayInv, Restart
  PROVE  ReplayInv'
<1>1. /\ mode = "Down" /\ mode' = "Replaying" /\ file' = Readable(file) /\ pos' = 0
      /\ State' = NewState /\ UNCHANGED <<before, logged, durable, slipped>>
      /\ td'[Genesis] = GenesisTD
  BY ResetState DEF Restart, Reset
<1>2. Rebuilds(file, pos, State)'
  BY <1>1 DEF ReplayInv, Rebuilds
<1> QED
  BY <1>1, <1>2 DEF ReplayInv

LEMMA ReplayKeeps ==
  ASSUME FileOK, StoreInv, ReplayInv, ReplayRecord
  PROVE  ReplayInv'
<1> DEFINE h == file[pos + 1]
<1>1. /\ mode = "Replaying" /\ pos' = pos + 1 /\ pos \in Nat /\ pos + 1 \in 1..Len(file)
      /\ UNCHANGED <<file, mode, before, logged, durable, slipped>>
  BY LenProperties DEF ReplayRecord, FileOK
<1>2. State' = Added(State, h) /\ td'[Genesis] = td[Genesis]
  <2>1. CASE h \notin Known /\ h # Genesis /\ Parent(h) \in Known
    <3>1. AddBlock(h)
      BY <2>1 DEF ReplayRecord
    <3>2. td'[Genesis] = td[Genesis]
      BY <2>1, <3>1 DEF AddBlock, StoreInv, TypeOK
    <3> QED
      BY <3>1, <3>2, AddedByAddBlock
  <2>2. CASE ~(h \notin Known /\ h # Genesis /\ Parent(h) \in Known)
    BY <2>2 DEF ReplayRecord, storeVars, State, Added, Known
  <2> QED
    BY <2>1, <2>2
<1>3. Rebuilds(file, pos, State)'
  <2>1. PICK run, B :
          /\ IsRun(run, file, Len(file)) /\ run[pos] = State /\ Based(run[Len(file)])
          /\ before = Whole(B) /\ Based(B) /\ Backs(run[Len(file)], B, durable, slipped)
    BY <1>1 DEF ReplayInv, Rebuilds
  <2>2. run[pos + 1] = Added(run[pos], file[pos + 1])
    BY <1>1, <2>1 DEF IsRun
  <2> QED
    BY <1>1, <1>2, <2>1, <2>2 DEF Rebuilds
<1> QED
  BY <1>1, <1>2, <1>3 DEF ReplayInv

LEMMA ReplayInvNext ==
  ASSUME FileOK, Repaired, StoreInv, ReplayInv, [ChainNext]_chainVars
  PROVE  ReplayInv'
<1>1. ASSUME NEW h \in Headers, AddAndAppend(h) PROVE ReplayInv'
  BY <1>1, AppendKeeps
<1>2. CASE Truncate
  <2>1. /\ mode' = "Resetting" /\ file' = <<>> /\ durable' = {Genesis} /\ slipped' = {}
        /\ td' = td
    BY <1>2 DEF Truncate, storeVars
  <2>2. Intact(<<>>) /\ Records(<<>>, NewState)
    BY EmptyRecords
  <2> QED
    BY <2>1, <2>2, NewBased DEF ReplayInv
<1>3. CASE ResetStore
  <2>1. /\ mode = "Resetting" /\ mode' = "Up" /\ State' = NewState /\ Known' = {Genesis}
        /\ td'[Genesis] = GenesisTD /\ UNCHANGED <<file, logged, durable, slipped>>
    BY <1>3, ResetState DEF ResetStore, Reset, Known
  <2>2. PICK F : /\ Records(file, F) /\ DOMAIN F[1] \subseteq {Genesis} \cup slipped
                 /\ slipped = {} => F = NewState
    BY <2>1 DEF ReplayInv
  <2>3. Backs(F, NewState, {Genesis}, slipped)
    BY <2>2, NewBased DEF Backs, Records, Based
  <2> QED
    BY <2>1, <2>2, <2>3 DEF ReplayInv
<1>4. CASE Crash
  BY <1>4, CrashKeeps
<1>5. CASE Restart
  BY <1>5, RestartKeeps
<1>6. CASE ReplayRecord
  BY <1>6, ReplayKeeps
<1>7. CASE SetDB
  <2>1. /\ mode = "Replaying" /\ pos = Len(file) /\ mode' = "Up" /\ file' = file
        /\ UNCHANGED <<State, Known, td>> /\ durable' = Known /\ slipped' = {}
    BY <1>7 DEF SetDB, storeVars, State, Known
  <2>2. Intact(file) /\ Readable(file) = file
    BY <2>1, ReadableAppend DEF FileOK, Repaired, Intact
  <2>3. Records(file, State)
    BY <2>1, <2>2 DEF ReplayInv, Rebuilds, Records, Makes
  <2>4. Backs(State, State, Known, {})
    BY StateFacts DEF Backs
  <2> QED
    BY <2>1, <2>2, <2>3, <2>4 DEF ReplayInv
<1>8. CASE UNCHANGED chainVars
  BY <1>8 DEF chainVars, fileVars, storeVars, State, Known, ReplayInv, Rebuilds
<1> QED
  BY <1>1, <1>2, <1>3, <1>4, <1>5, <1>6, <1>7, <1>8 DEF ChainNext

LEMMA ReplayInvHolds == ChainSpec => []ReplayInv
<1>1. FileOK /\ Repaired /\ StoreInv /\ ReplayInv /\ [ChainNext]_chainVars => ReplayInv'
  BY ReplayInvNext
<1> QED
  BY <1>1, ReplayInvInit, FileCorrect, ChainStoreCorrect, PTL DEF ChainSpec

\* After the replay the store is the one that the records make.
LEMMA ReplayedBacks ==
  ASSUME ReplayInv, Replayed
  PROVE  \E B : before = Whole(B) /\ Based(B) /\ Backs(State, B, durable, slipped)
  BY DEF ReplayInv, Rebuilds, Replayed

\* A restart loses no block that was appended before the first failed append,
\* invents none but those that were appended between Truncate and Reset, and keeps
\* the head if its block came back, for any sequence of blocks, failures, resets
\* and crashes (AddBlock, resetChain, replayChain, repair).
THEOREM RestartCorrect == ChainSpec => []RestartRestores
<1>1. StoreInv /\ ReplayInv => RestartRestores
  <2> SUFFICES ASSUME StoreInv, ReplayInv, Replayed
               PROVE  /\ durable \subseteq Known
                      /\ Known \subseteq DOMAIN before[1] \cup slipped
                      /\ slipped = {} /\ before[3] \in Known => head = before[3]
    BY DEF RestartRestores
  <2>1. PICK B : before = Whole(B) /\ Based(B) /\ Backs(State, B, durable, slipped)
    BY ReplayedBacks
  <2>2. before[1] = B[1] /\ before[3] = B[2]
    BY <2>1 DEF Whole
  <2> QED
    BY <2>1, <2>2, StateFacts DEF Backs
<1> QED
  BY <1>1, ReplayInvHolds, ChainStoreCorrect, PTL

\* Where every block was appended and none slipped in between Truncate and Reset,
\* a restart rebuilds the store exactly, ties between heads included, wherever the
\* process stopped and however often (replayChain, repair, AddBlock).
THEOREM ReplayCorrect == ChainSpec => []ReplayRebuilds
<1>1. StoreInv /\ ReplayInv => ReplayRebuilds
  <2> SUFFICES ASSUME StoreInv, ReplayInv, Replayed, durable = DOMAIN before[1], slipped = {}
               PROVE  storeVars = before
    BY DEF ReplayRebuilds
  <2>1. PICK B : before = Whole(B) /\ Based(B) /\ Backs(State, B, durable, slipped)
    BY ReplayedBacks
  <2>2. before[1] = B[1]
    BY <2>1 DEF Whole
  <2>3. DOMAIN State[1] = DOMAIN B[1] /\ \A x \in DOMAIN B[1] : State[1][x] = B[1][x]
    BY <2>1, <2>2 DEF Backs
  <2>4. State[1] = B[1] /\ State[2] = B[2]
    <3>1. Based(State)
      BY StateFacts
    <3>2. State[1] = B[1]
      BY <2>1, <2>3, <3>1 DEF Based
    <3> QED
      BY <2>1, <2>3, <3>2 DEF Backs, Based
  <2>5. Whole(State) = Whole(B)
    BY <2>4 DEF Whole
  <2> QED
    BY <2>1, <2>5, WholeState
<1> QED
  BY <1>1, ReplayInvHolds, ChainStoreCorrect, PTL
=============================================================================
