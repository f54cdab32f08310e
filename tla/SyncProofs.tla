----------------------------- MODULE SyncProofs -----------------------------
(***************************************************************************)
(* Proofs about the nodes that catch up with each other, for any number of *)
(* nodes, links, chains on disk and blocks in a response.  Two results:    *)
(* the store of every node stays a store of ForkChoice, and an undisturbed *)
(* session ends with the chain of the peer.                                *)
(***************************************************************************)
EXTENDS Sync, SequenceTheorems, FiniteSetTheorems, TLAPS

-----------------------------------------------------------------------------
(* Branches *)

LEMMA HeaderFacts ==
  ASSUME NEW h \in Headers
  PROVE  h \in Seq(Seals) /\ Len(h) \in 0..MaxNumber /\ Len(h) \in Nat /\ DOMAIN h = 1..Len(h)
<1>1. PICK n \in 0..MaxNumber : h \in [1..n -> Seals]
  BY Zenon DEF Headers
<1>2. n \in Nat
  BY <1>1, SyncAssumption
<1>3. h \in Seq(Seals) /\ Len(h) = n
  BY <1>1, <1>2, IsASeq
<1> QED
  BY <1>1, <1>2, <1>3, LenProperties, Zenon

LEMMA SequencesAreHeaders ==
  ASSUME NEW h \in Seq(Seals), Len(h) <= MaxNumber
  PROVE  h \in Headers
<1>1. Len(h) \in 0..MaxNumber /\ h \in [1..Len(h) -> Seals]
  BY SyncAssumption, LenProperties
<1> QED
  BY <1>1, Zenon DEF Headers

LEMMA GenesisFacts == Genesis \in Headers /\ Len(Genesis) = 0
<1>1. Genesis \in Seq(Seals) /\ Len(Genesis) = 0
  BY DEF Genesis
<1>2. Len(Genesis) <= MaxNumber
  BY <1>1, SyncAssumption
<1> QED
  BY <1>1, <1>2, SequencesAreHeaders, Zenon

LEMMA UptoFacts ==
  ASSUME NEW h \in Headers, NEW n \in 0..Len(h)
  PROVE  /\ Upto(h, n) \in Headers
         /\ Len(Upto(h, n)) = n
         /\ \A i \in 1..n : Upto(h, n)[i] = h[i]
<1>1. h \in Seq(Seals) /\ Len(h) \in 0..MaxNumber /\ Len(h) \in Nat
  BY HeaderFacts, Zenon
<1>2. /\ Upto(h, n) \in Seq(Seals) /\ Len(Upto(h, n)) = n
      /\ \A i \in 1..n : Upto(h, n)[i] = h[i]
  BY <1>1 DEF Upto
<1>3. Len(Upto(h, n)) <= MaxNumber
  BY <1>1, <1>2, SyncAssumption
<1> QED
  BY <1>2, <1>3, SequencesAreHeaders, Zenon

LEMMA SameHeader ==
  ASSUME NEW g \in Headers, NEW h \in Headers, Len(g) = Len(h), \A i \in 1..Len(g) : g[i] = h[i]
  PROVE  g = h
  BY HeaderFacts, SeqEqual, Zenon

LEMMA UptoUpto ==
  ASSUME NEW h \in Headers, NEW n \in 0..Len(h), NEW k \in 0..n
  PROVE  Upto(Upto(h, n), k) = Upto(h, k)
<1>1. k \in 0..Len(h) /\ Len(h) \in Nat
  BY HeaderFacts
<1>2. /\ Upto(h, n) \in Headers /\ Len(Upto(h, n)) = n
      /\ \A i \in 1..n : Upto(h, n)[i] = h[i]
  BY UptoFacts, Zenon
<1>3. /\ Upto(h, k) \in Headers /\ Len(Upto(h, k)) = k
      /\ \A i \in 1..k : Upto(h, k)[i] = h[i]
  BY <1>1, UptoFacts, Zenon
<1>4. /\ Upto(Upto(h, n), k) \in Headers /\ Len(Upto(Upto(h, n), k)) = k
      /\ \A i \in 1..k : Upto(Upto(h, n), k)[i] = Upto(h, n)[i]
  BY <1>2, UptoFacts, Zenon
<1>5. \A i \in 1..k : Upto(Upto(h, n), k)[i] = Upto(h, k)[i]
  BY <1>2, <1>3, <1>4
<1> QED
  BY <1>3, <1>4, <1>5, SameHeader, Zenon

LEMMA UptoAll ==
  ASSUME NEW h \in Headers
  PROVE  Upto(h, Len(h)) = h /\ Upto(h, 0) = Genesis
<1>1. Len(h) \in Nat /\ Len(h) \in 0..Len(h) /\ 0 \in 0..Len(h)
  BY HeaderFacts
<1>2. /\ Upto(h, Len(h)) \in Headers /\ Len(Upto(h, Len(h))) = Len(h)
      /\ \A i \in 1..Len(h) : Upto(h, Len(h))[i] = h[i]
  BY <1>1, UptoFacts, Zenon
<1>3. Upto(h, Len(h)) = h
  BY <1>2, SameHeader, Zenon
<1>4. Upto(h, 0) \in Headers /\ Len(Upto(h, 0)) = 0
  BY <1>1, UptoFacts, Zenon
<1>5. Upto(h, 0) = Genesis
  BY <1>4, GenesisFacts, SameHeader
<1> QED
  BY <1>3, <1>5, Zenon

LEMMA ParentFacts ==
  ASSUME NEW h \in Headers, h # Genesis
  PROVE  /\ Len(h) \in Nat /\ Len(h) >= 1 /\ h[Len(h)] \in Seals
         /\ Parent(h) \in Headers /\ Len(Parent(h)) = Len(h) - 1
         /\ Parent(h) # h /\ Parent(h) = Upto(h, Len(h) - 1)
         /\ \A n \in 0..(Len(h) - 1) : Upto(Parent(h), n) = Upto(h, n)
<1>1. h \in Seq(Seals) /\ Len(h) \in Nat
  BY HeaderFacts, Zenon
<1>2. Len(h) \in Nat \ {0}
  BY <1>1, EmptySeq, Zenon DEF Genesis
<1>3. h[Len(h)] \in Seals
  BY <1>1, <1>2, ElementOfSeq
<1>4. Len(h) - 1 \in 0..Len(h)
  BY <1>2
<1>5. Parent(h) \in Headers /\ Len(Parent(h)) = Len(h) - 1
  BY <1>4, UptoFacts, Zenon DEF Parent
<1>6. \A n \in 0..(Len(h) - 1) : Upto(Parent(h), n) = Upto(h, n)
  BY <1>4, UptoUpto, Zenon DEF Parent
<1> QED
  BY <1>2, <1>3, <1>5, <1>6 DEF Parent

\* The signatures in turn of a branch.
InTurns(h) == {i \in DOMAIN h : h[i] = "inturn"}

LEMMA InTurnsFacts ==
  ASSUME NEW h \in Headers
  PROVE  /\ IsFiniteSet(InTurns(h)) /\ Cardinality(InTurns(h)) \in Nat
         /\ TD(h) = 1 + Len(h) + Cardinality(InTurns(h))
<1>1. InTurns(h) \in SUBSET (1..Len(h)) /\ Len(h) \in Nat
  BY HeaderFacts, Zenon DEF InTurns
<1>2. IsFiniteSet(1..Len(h))
  BY <1>1, FS_Interval
<1>3. TD(h) = 1 + Len(h) + Cardinality(InTurns(h))
  BY Zenon DEF TD, InTurns
<1> QED
  BY <1>1, <1>2, <1>3, FS_Subset, FS_CardinalityType, Zenon

\* The total difficulty of a branch is that of the branch below, and the
\* difficulty of its last block.
LEMMA TDFacts ==
  /\ TD(Genesis) = 1
  /\ \A h \in Headers : TD(h) \in Nat
  /\ \A h \in Headers \ {Genesis} :
       TD(h) = TD(Parent(h)) + Difficulty[h[Len(h)]] /\ TD(h) > TD(Parent(h))
<1>1. TD(Genesis) = 1
  <2>1. InTurns(Genesis) = {} /\ Len(Genesis) = 0
    BY GenesisFacts, HeaderFacts DEF InTurns
  <2> QED
    BY <2>1, FS_EmptySet, GenesisFacts, InTurnsFacts
<1>2. ASSUME NEW h \in Headers PROVE TD(h) \in Nat
  BY InTurnsFacts, HeaderFacts
<1>3. ASSUME NEW h \in Headers, h # Genesis
      PROVE  TD(h) = TD(Parent(h)) + Difficulty[h[Len(h)]] /\ TD(h) > TD(Parent(h))
  <2> DEFINE n == Len(h)
             S == InTurns(Parent(h))
  <2>1. /\ n \in Nat /\ n >= 1 /\ h[n] \in Seals
        /\ Parent(h) \in Headers /\ Len(Parent(h)) = n - 1 /\ Parent(h) = Upto(h, n - 1)
    BY <1>3, ParentFacts, Zenon
  <2>2. DOMAIN h = 1..n /\ DOMAIN Parent(h) = 1..(n - 1)
    BY <2>1, HeaderFacts, Zenon
  <2>3. \A i \in 1..(n - 1) : Parent(h)[i] = h[i]
    <3>1. n - 1 \in 0..Len(h)
      BY <2>1
    <3> QED
      BY <2>1, <3>1, UptoFacts, Zenon
  <2>4. IsFiniteSet(S) /\ Cardinality(S) \in Nat /\ n \notin S
    <3>1. n \notin 1..(n - 1)
      BY <2>1
    <3> QED
      BY <2>1, <2>2, <3>1, InTurnsFacts, Zenon DEF InTurns
  <2>5. CASE h[n] = "inturn"
    <3>1. InTurns(h) = S \cup {n}
      BY <2>1, <2>2, <2>3, <2>5 DEF InTurns
    <3>2. Cardinality(S \cup {n}) = Cardinality(S) + 1
      BY <2>4, FS_AddElement, Zenon
    <3>3. Difficulty[h[n]] = 2
      BY <2>5, Zenon DEF Difficulty, Seals
    <3>4. Cardinality(InTurns(h)) = Cardinality(S) + 1
      BY <3>1, <3>2, Zenon
    <3>5. TD(h) = 1 + n + Cardinality(InTurns(h)) /\ TD(Parent(h)) = 1 + (n - 1) + Cardinality(S)
      BY <2>1, InTurnsFacts, Zenon
    <3> HIDE DEF S
    <3> QED
      BY <2>1, <2>4, <3>3, <3>4, <3>5
  <2>6. CASE h[n] # "inturn"
    <3>1. InTurns(h) = S
      BY <2>1, <2>2, <2>3, <2>6 DEF InTurns
    <3>2. Difficulty[h[n]] = 1
      BY <2>1, <2>6, Zenon DEF Difficulty, Seals
    <3> QED
      BY <2>1, <2>4, <3>1, <3>2, InTurnsFacts
  <2> QED
    BY <2>5, <2>6, Zenon
<1> QED
  BY <1>1, <1>2, <1>3, Zenon

\* A branch is at least as heavy as what it is built on.
LEMMA TDUpto ==
  ASSUME NEW h \in Headers, NEW k \in 0..Len(h)
  PROVE  TD(Upto(h, k)) <= TD(h)
<1> DEFINE g == Upto(h, k)
<1>1. g \in Headers /\ Len(g) = k /\ (\A i \in 1..k : g[i] = h[i]) /\ Len(h) \in Nat
  BY UptoFacts, HeaderFacts, Zenon
<1>2. DOMAIN g = 1..k /\ DOMAIN h = 1..Len(h)
  BY <1>1, HeaderFacts, Zenon
<1> HIDE DEF g
<1>3. InTurns(g) \subseteq InTurns(h)
  BY <1>1, <1>2 DEF InTurns
<1>4. Cardinality(InTurns(g)) <= Cardinality(InTurns(h))
  BY <1>3, InTurnsFacts, FS_Subset, Zenon
<1>5. /\ TD(g) = 1 + Len(g) + Cardinality(InTurns(g)) /\ Cardinality(InTurns(g)) \in Nat
      /\ TD(h) = 1 + Len(h) + Cardinality(InTurns(h)) /\ Cardinality(InTurns(h)) \in Nat
  BY <1>1, InTurnsFacts, Zenon
<1>6. TD(g) <= TD(h)
  BY <1>1, <1>4, <1>5
<1> QED
  BY <1>6, Zenon DEF g

-----------------------------------------------------------------------------
(* The store of a node is a store of ForkChoice *)

StoreOK(n) ==
  /\ known[n] \in SUBSET Headers /\ Genesis \in known[n] /\ head[n] \in known[n]
  /\ \A h \in known[n] : \A k \in 0..Len(h) : Upto(h, k) \in known[n]
  /\ \A h \in known[n] : TD(h) <= TD(head[n])

\* The operators of ForkChoice, for the store of n.
LEMMA StoreNames ==
  ASSUME NEW n
  PROVE  /\ Store(n)!Headers = Headers /\ Store(n)!Genesis = Genesis
         /\ Store(n)!Known = known[n] /\ Store(n)!GenesisTD = 1
         /\ \A h : Store(n)!Parent(h) = Parent(h) /\ Store(n)!Number(h) = Len(h)
         /\ \A h, k : Store(n)!Upto(h, k) = Upto(h, k)
<1>1. Store(n)!Headers = Headers
  BY Zenon DEF Store!Headers, Headers
<1>2. Store(n)!Genesis = Genesis /\ Store(n)!Known = known[n] /\ Store(n)!GenesisTD = 1
  BY DEF Store!Genesis, Genesis, Store!Known, Store!GenesisTD
<1>3. \A h : Store(n)!Parent(h) = Parent(h) /\ Store(n)!Number(h) = Len(h)
  BY Zenon DEF Store!Parent, Parent, Store!Upto, Upto, Store!Number
<1>4. \A h, k : Store(n)!Upto(h, k) = Upto(h, k)
  BY Zenon DEF Store!Upto, Upto
<1> QED
  BY <1>1, <1>2, <1>3, <1>4, Zenon

LEMMA StoreInvMapped ==
  ASSUME NEW n, StoreOK(n)
  PROVE  Store(n)!StoreInv
<1> DEFINE h == head[n]
           fin == Upto(h, IF Len(h) >= 2 THEN Len(h) - 2 ELSE 0)
<1>1. h \in Headers /\ h \in known[n] /\ Len(h) \in Nat /\ Upto(h, Len(h)) = h
  BY HeaderFacts, UptoAll, Zenon DEF StoreOK
<1>2. fin \in known[n]
  <2>1. (IF Len(h) >= 2 THEN Len(h) - 2 ELSE 0) \in 0..Len(h)
    BY <1>1
  <2> QED
    BY <1>1, <2>1, Zenon DEF StoreOK
<1>3. Store(n)!TypeOK
  <2>1. [x \in known[n] |-> TD(x)] \in [known[n] -> Int]
    BY TDFacts DEF StoreOK
  <2> QED
    BY <1>1, <1>2, <2>1, StoreNames, Zenon DEF StoreOK, Store!TypeOK, Number
<1>4. Store(n)!CanonicalIndex
  BY StoreNames DEF Store!CanonicalIndex, Number
<1>5. Store(n)!BranchesKnown
  BY StoreNames DEF Store!BranchesKnown, StoreOK
<1>6. Store(n)!HeaviestHead
  <2>1. \A x \in known[n] : [y \in known[n] |-> TD(y)][x] <= [y \in known[n] |-> TD(y)][h]
    BY <1>1, Zenon DEF StoreOK
  <2>2. ASSUME NEW x \in known[n], x # Genesis PROVE TD(x) = Store(n)!ChildTD(x)
    <3>1. x \in Headers /\ Parent(x) = Upto(x, Len(x) - 1) /\ Len(x) - 1 \in 0..Len(x)
      BY <2>2, ParentFacts DEF StoreOK
    <3>2. Parent(x) \in known[n]
      BY <3>1, Zenon DEF StoreOK
    <3> QED
      BY <2>2, <3>1, <3>2, TDFacts, StoreNames, Zenon DEF Store!ChildTD
  <2> QED
    BY <2>1, <2>2, StoreNames, Zenon DEF Store!HeaviestHead
<1>7. Store(n)!EpochPointers
  <2>1. \A m \in Nat : m \div 1 = m
    <3>1. ASSUME NEW m \in Nat, NEW q \in Int, q = m \div 1 PROVE q = m
      BY <3>1
    <3> QED
      BY <3>1
  <2>2. \A m \in Int : m * 1 = m
    OBVIOUS
  <2> QED
    BY <1>1, <2>1, <2>2, StoreNames DEF Store!EpochPointers, Number
<1> QED
  BY <1>3, <1>4, <1>5, <1>6, <1>7, Zenon DEF Store!StoreInv

\* The highest of finitely many numbers.
LEMMA BoundedMaximum ==
  ASSUME NEW n \in Nat, NEW T \in SUBSET (0..n), T # {}
  PROVE  \E x \in T : \A y \in T : y <= x
<1> DEFINE U == {n - x : x \in T}
<1>1. U \in SUBSET Nat /\ U # {}
  <2>1. \A x \in T : n - x \in Nat
    OBVIOUS
  <2>2. PICK x \in T : TRUE
    BY Zenon
  <2>3. n - x \in U
    BY <2>2, Zenon
  <2>4. ASSUME NEW u \in U PROVE u \in Nat
    BY <2>1, <2>4, Zenon
  <2> QED
    BY <2>3, <2>4, Zenon
<1>2. PICK u \in U : \A w \in U : ~(<<w, u>> \in OpToRel(<, Nat))
  BY <1>1, NatLessThanWellFounded, WFMin, Zenon
<1>3. \A w \in U : ~(w < u)
  BY <1>1, <1>2, Zenon DEF OpToRel
<1>4. PICK x \in T : u = n - x
  BY Zenon
<1>5. ASSUME NEW y \in T PROVE y <= x
  BY <1>3, <1>4
<1> QED
  BY <1>5, Zenon

LEMMA CommonAncestorMapped ==
  ASSUME NEW n, StoreOK(n), NEW h \in Headers
  PROVE  LET c == Store(n)!FindCommonAncestor(head[n], h)
         IN  /\ c \in Headers /\ Len(c) <= Len(head[n]) /\ Len(c) <= Len(h)
             /\ Upto(head[n], Len(c)) = c /\ Upto(h, Len(c)) = c
<1> DEFINE Below(c) == /\ Len(c) <= Len(head[n]) /\ Upto(head[n], Len(c)) = c
                       /\ Len(c) <= Len(h) /\ Upto(h, Len(c)) = c
           C == {c \in known[n] : Below(c)}
           T == {Len(c) : c \in C}
<1>1. head[n] \in Headers /\ known[n] \subseteq Headers /\ Genesis \in known[n]
  BY Zenon DEF StoreOK
<1>2. \A c : Store(n)!IsAncestor(c, head[n]) /\ Store(n)!IsAncestor(c, h) <=> Below(c)
  <2>1. \A c, x : Store(n)!IsAncestor(c, x) <=> Len(c) <= Len(x) /\ Upto(x, Len(c)) = c
    BY Zenon DEF Store!IsAncestor, Store!Upto, Upto
  <2> QED
    BY Zenon, <2>1
<1>3. Genesis \in C
  BY <1>1, HeaderFacts, GenesisFacts, UptoAll
<1>4. T \in SUBSET (0..MaxNumber) /\ T # {}
  <2>1. \A c \in C : Len(c) \in 0..MaxNumber
    BY <1>1, HeaderFacts, Zenon
  <2>2. ASSUME NEW t \in T PROVE t \in 0..MaxNumber
    BY <2>1, <2>2, Zenon
  <2>3. Len(Genesis) \in T
    BY <1>3, Zenon
  <2> QED
    BY <2>2, <2>3, Zenon
<1>5. PICK m \in T : \A t \in T : t <= m
  BY <1>4, BoundedMaximum, SyncAssumption, Zenon
<1>6. PICK c \in C : Len(c) = m
  BY Zenon
<1> HIDE DEF Below
<1>7. /\ c \in known[n] /\ Below(c)
      /\ \A d \in known[n] : Below(d) => Len(d) <= Len(c)
  BY <1>5, <1>6, Zenon
<1> DEFINE P(x) == /\ Store(n)!IsAncestor(x, head[n]) /\ Store(n)!IsAncestor(x, h)
                   /\ \A d \in known[n] : Store(n)!IsAncestor(d, head[n]) /\ Store(n)!IsAncestor(d, h) => Len(d) <= Len(x)
<1>8. P(c)
  BY <1>2, <1>7, Zenon
<1>9. Store(n)!FindCommonAncestor(head[n], h) = CHOOSE x \in known[n] : P(x)
  BY StoreNames, Zenon DEF Store!FindCommonAncestor
<1> DEFINE a == Store(n)!FindCommonAncestor(head[n], h)
<1>10. a \in known[n] /\ P(a)
  <2> HIDE DEF P
  <2> QED
    BY <1>7, <1>8, <1>9, Zenon
<1>11. Below(a)
  BY <1>2, <1>10, Zenon
<1> QED
  BY <1>1, <1>10, <1>11, Zenon DEF Below

LEMMA ReindexMapped ==
  ASSUME NEW n, StoreOK(n), NEW h \in Headers, h # Genesis
  PROVE  Store(n)!Reindex(h) = [k \in 0..Len(h) |-> Upto(h, k)]
<1> DEFINE g == head[n]
           index == [k \in 0..Len(g) |-> Upto(g, k)]
<1>1. g \in Headers /\ Len(g) \in Nat /\ Len(h) \in Nat
  BY HeaderFacts, Zenon DEF StoreOK
<1>2. CASE Parent(h) = g
  <2>1. Len(h) = Len(g) + 1 /\ \A k \in 0..Len(g) : Upto(g, k) = Upto(h, k)
    BY <1>1, <1>2, ParentFacts
  <2>2. Upto(h, Len(h)) = h
    BY UptoAll, Zenon
  <2>3. 0..Len(h) = 0..Len(g) \cup {Len(h)}
    BY <1>1, <2>1
  <2>4. Store(n)!Reindex(h) = [k \in 0..Len(h) |-> IF k = Len(h) THEN h ELSE index[k]]
    BY <1>2, <2>3, StoreNames, Zenon DEF Store!Reindex, Number
  <2>5. ASSUME NEW k \in 0..Len(h)
        PROVE  (IF k = Len(h) THEN h ELSE index[k]) = Upto(h, k)
    BY <1>1, <2>1, <2>2
  <2> QED
    BY <2>4, <2>5, Zenon
<1>3. CASE Parent(h) # g
  <2> DEFINE c == Store(n)!FindCommonAncestor(g, h)
             a == Len(c)
             new == (a + 1)..Len(h)
  <2>1. /\ c \in Headers /\ a \in Nat /\ a <= Len(g) /\ a <= Len(h)
        /\ Upto(g, a) = c /\ Upto(h, a) = c
    BY CommonAncestorMapped, HeaderFacts, Zenon
  <2> HIDE DEF c
  <2>2. \A k \in 0..a : Upto(g, k) = Upto(h, k)
    <3>1. a \in 0..Len(g) /\ a \in 0..Len(h)
      BY <1>1, <2>1
    <3>2. \A k \in 0..a : Upto(Upto(g, a), k) = Upto(g, k)
      BY <1>1, <3>1, UptoUpto, Zenon
    <3>3. \A k \in 0..a : Upto(Upto(h, a), k) = Upto(h, k)
      BY <3>1, UptoUpto, Zenon
    <3> QED
      BY <2>1, <3>2, <3>3, Zenon
  <2>3. (0..Len(g) \ ((a + 1)..Len(g))) \cup new = 0..Len(h)
    BY <1>1, <2>1
  <2>4. Store(n)!Reindex(h) = [k \in 0..Len(h) |-> IF k \in new THEN Upto(h, k) ELSE index[k]]
    BY <1>3, <2>3, StoreNames DEF Store!Reindex, Number, c
  <2>5. ASSUME NEW k \in 0..Len(h)
        PROVE  (IF k \in new THEN Upto(h, k) ELSE index[k]) = Upto(h, k)
    BY <1>1, <2>1, <2>2
  <2> QED
    BY <2>4, <2>5, Zenon
<1> QED
  BY <1>2, <1>3, Zenon

\* What a step may do to the store of a node.
Stays(n) == known'[n] = known[n] /\ head'[n] = head[n]

Emptied(n) == known'[n] = {Genesis} /\ head'[n] = Genesis

Grows(n, h) ==
  /\ h # Genesis /\ h \notin known[n] /\ Parent(h) \in known[n]
  /\ known'[n] = known[n] \cup {h}
  /\ head'[n] = IF TD(h) > TD(head[n]) THEN h ELSE head[n]

StoreStep(n) == Stays(n) \/ Emptied(n) \/ \E h \in Headers : Grows(n, h)

LEMMA StaysMapped ==
  ASSUME NEW n, StoreOK(n), Stays(n)
  PROVE  StoreOK(n)' /\ UNCHANGED Store(n)!storeVars
<1>1. StoreOK(n)'
  BY Zenon DEF StoreOK, Stays
<1>2. UNCHANGED Store(n)!storeVars
  BY Zenon DEF Store!storeVars, Stays
<1> QED
  BY <1>1, <1>2, Zenon

LEMMA EmptiedMapped ==
  ASSUME NEW n, Emptied(n)
  PROVE  StoreOK(n)' /\ Store(n)!Reset
<1>1. Len(Genesis) = 0 /\ TD(Genesis) = 1 /\ Genesis \in Headers /\ Upto(Genesis, 0) = Genesis
  BY GenesisFacts, TDFacts, UptoAll, Zenon
<1>2. 0..Len(Genesis) = {0}
  BY <1>1
<1>3. StoreOK(n)'
  BY <1>1, <1>2 DEF StoreOK, Emptied
<1>4. /\ [x \in known'[n] |-> TD(x)] = [x \in {Genesis} |-> 1]
      /\ [k \in 0..Len(head'[n]) |-> Upto(head'[n], k)] = [k \in {0} |-> Genesis]
  BY <1>1, <1>2, Zenon DEF Emptied
<1>5. Upto(head'[n], IF Len(head'[n]) >= 2 THEN Len(head'[n]) - 2 ELSE 0) = Genesis
  BY <1>1 DEF Emptied
<1>6. Store(n)!Reset
  BY <1>1, <1>4, <1>5, StoreNames DEF Store!Reset, Emptied, Number
<1> QED
  BY <1>3, <1>6, Zenon

LEMMA GrowsMapped ==
  ASSUME NEW n, StoreOK(n), NEW h \in Headers, Grows(n, h)
  PROVE  StoreOK(n)' /\ Store(n)!AddBlock(h)
<1> DEFINE g == head[n]
<1>1. /\ g \in Headers /\ g \in known[n] /\ known[n] \subseteq Headers
      /\ h # Genesis /\ Parent(h) \in known[n] /\ TD(g) \in Nat /\ TD(h) \in Nat
      /\ head'[n] \in {g, h} /\ Len(h) \in Nat /\ Len(g) \in Nat
  BY TDFacts, HeaderFacts, Zenon DEF StoreOK, Grows
<1>2. StoreOK(n)'
  <2>1. \A k \in 0..Len(h) : Upto(h, k) \in known'[n]
    <3>1. Upto(h, Len(h)) = h
      BY UptoAll, Zenon
    <3>2. \A k \in 0..(Len(h) - 1) : Upto(h, k) \in known[n]
      <4>1. /\ Len(Parent(h)) = Len(h) - 1
            /\ \A k \in 0..(Len(h) - 1) : Upto(Parent(h), k) = Upto(h, k)
        BY <1>1, ParentFacts, Zenon
      <4>2. \A k \in 0..Len(Parent(h)) : Upto(Parent(h), k) \in known[n]
        BY <1>1, Zenon DEF StoreOK
      <4> QED
        BY <4>1, <4>2, Zenon
    <3>3. \A k \in 0..Len(h) : k = Len(h) \/ k \in 0..(Len(h) - 1)
      BY <1>1
    <3> QED
      BY <3>1, <3>2, <3>3, Zenon DEF Grows
  <2>2. \A x \in known[n] : \A k \in 0..Len(x) : Upto(x, k) \in known'[n]
    BY Zenon DEF StoreOK, Grows
  <2>3. \A x \in known'[n] : TD(x) <= TD(head'[n])
    <3>1. \A x \in known[n] : TD(x) <= TD(g) /\ TD(x) \in Nat
      BY <1>1, TDFacts, Zenon DEF StoreOK
    <3>2. CASE TD(h) > TD(g)
      BY <1>1, <3>1, <3>2 DEF Grows
    <3>3. CASE ~(TD(h) > TD(g))
      BY <1>1, <3>1, <3>3 DEF Grows
    <3> QED
      BY <3>2, <3>3, Zenon
  <2>4. Genesis \in known'[n] /\ known'[n] \in SUBSET Headers /\ head'[n] \in known'[n]
    BY <1>1, Zenon DEF StoreOK, Grows
  <2>5. \A x \in known'[n] : \A k \in 0..Len(x) : Upto(x, k) \in known'[n]
    BY <2>1, <2>2, Zenon DEF Grows
  <2> QED
    BY <2>3, <2>4, <2>5, Zenon DEF StoreOK
<1>3. Store(n)!ChildTD(h) = TD(h)
  BY <1>1, TDFacts, StoreNames, Zenon DEF Store!ChildTD
<1>4. [x \in known'[n] |-> TD(x)]
        = [x \in known[n] \cup {h} |-> IF x = h THEN Store(n)!ChildTD(h)
                                        ELSE [y \in known[n] |-> TD(y)][x]]
  BY <1>3, Zenon DEF Grows
<1>5. [x \in known[n] |-> TD(x)][g] = TD(g)
  BY <1>1, Zenon
<1>6. CASE TD(h) > TD(g)
  <2>1. head'[n] = h
    BY <1>6, Zenon DEF Grows
  <2> DEFINE index == [k \in 0..Len(h) |-> Upto(h, k)]
  <2>2. Store(n)!Reindex(h) = index
    BY <1>1, ReindexMapped, Zenon
  <2>3. Store(n)!UpdateSafeFinalized(h, index)
    <3>1. \A m \in Nat : m \div 1 = m
      <4>1. ASSUME NEW m \in Nat, NEW q \in Int, q = m \div 1 PROVE q = m
        BY <4>1
      <4> QED
        BY <4>1
    <3>2. \A m \in Int : m * 1 = m
      OBVIOUS
    <3>3. \A k \in 0..Len(h) : Store(n)!CanonicalAt(index, k) = Upto(h, k)
      BY StoreNames, Zenon DEF Store!CanonicalAt
    <3>4. Upto(h, 0) = Genesis /\ Upto(h, Len(h)) = h
      BY UptoAll, Zenon
    <3>5. Len(h) \in 0..Len(h) /\ (Len(h) >= 2 => Len(h) - 2 \in 0..Len(h))
      BY <1>1
    <3>6. Store(n)!CanonicalAt(index, Len(h)) = h
      BY <3>3, <3>4, <3>5, Zenon
    <3>7. Len(h) >= 2 => Store(n)!CanonicalAt(index, Len(h) - 2) = Upto(h, Len(h) - 2)
      BY <3>3, <3>5, Zenon
    <3> HIDE DEF index
    <3> QED
      BY <1>1, <2>1, <3>1, <3>2, <3>4, <3>6, <3>7, StoreNames DEF Store!UpdateSafeFinalized, Number
  <2>4. Store(n)!SetHead(h)
    BY <2>1, <2>2, <2>3, Zenon DEF Store!SetHead, Number
  <2> QED
    BY <1>1, <1>2, <1>3, <1>4, <1>5, <1>6, <2>4, StoreNames, Zenon DEF Store!AddBlock, Grows
<1>7. CASE ~(TD(h) > TD(g))
  <2>1. head'[n] = g
    BY <1>7, Zenon DEF Grows
  <2> QED
    BY <1>1, <1>2, <1>3, <1>4, <1>5, <1>7, <2>1, StoreNames DEF Store!AddBlock, Grows
<1> QED
  BY <1>6, <1>7, Zenon

LEMMA StoreStepMapped ==
  ASSUME NEW n, StoreOK(n), StoreStep(n)
  PROVE  StoreOK(n)' /\ [Store(n)!Next]_(Store(n)!storeVars)
  BY StaysMapped, EmptiedMapped, GrowsMapped, StoreNames, Zenon DEF StoreStep, Store!Next

-----------------------------------------------------------------------------
(* What the steps do to the stores and to the sessions *)

Steps == {"Idle", "Begin", "Asked", "Compare", "Range", "Reset", "Import", "Finish", "Status"}

Blocks == Headers \ {Genesis}

Session ==
  [at : Steps, peer : Nodes, reported : Headers, end : Nat, start : Nat,
   reset : BOOLEAN, batch : Seq(Blocks), full : BOOLEAN]

\* The types, and what a step of a session finds in it.
SyncOK ==
  /\ known \in [Nodes -> SUBSET Headers] /\ head \in [Nodes -> Headers]
  /\ want \in [Nodes -> SUBSET Nodes]
  /\ gossip \in [Nodes -> SUBSET [block : Blocks, from : Nodes]]
  /\ import \in [Nodes -> Headers] /\ own \in [Nodes -> Headers]
  /\ calm \in [Nodes -> BOOLEAN]
  /\ session \in [Nodes -> Session]
  /\ \A n \in Nodes : /\ session[n].at = "Range" => session[n].start >= 1
                      /\ session[n].at \in {"Reset", "Import"} => session[n].batch # <<>>

LEMMA BatchHead ==
  ASSUME SyncOK, NEW n \in Nodes, session[n].at = "Import"
  PROVE  LET b == session[n].batch
         IN  /\ Head(b) = b[1] /\ Head(b) \in Blocks /\ Len(b) \in Nat /\ Len(b) >= 1
             /\ Tail(b) \in Seq(Blocks) /\ Len(Tail(b)) = Len(b) - 1
             /\ \A i \in 1..(Len(b) - 1) : Tail(b)[i] = b[i + 1]
<1> DEFINE b == session[n].batch
<1>1. b \in Seq(Blocks) /\ b # <<>>
  BY Zenon DEF SyncOK, Session
<1> HIDE DEF b
<1>2. Len(b) \in Nat /\ Len(b) >= 1 /\ Head(b) = b[1]
  BY <1>1, EmptySeq
<1>3. Head(b) \in Blocks /\ Tail(b) \in Seq(Blocks)
  BY <1>1, HeadTailProperties, Zenon
<1>4. Len(Tail(b)) = Len(b) - 1 /\ \A i \in 1..(Len(b) - 1) : Tail(b)[i] = b[i + 1]
  BY <1>1, <1>2
<1> QED
  BY <1>2, <1>3, <1>4, Zenon DEF b

LEMMA AddBlockStep ==
  ASSUME SyncOK, NEW n \in Nodes, StoreOK(n), NEW h \in Blocks, AddBlock(n, h)
  PROVE  /\ StoreStep(n) /\ \A m \in Nodes \ {n} : Stays(m)
         /\ known' \in [Nodes -> SUBSET Headers] /\ head' \in [Nodes -> Headers]
<1>1. h \in Headers /\ h # Genesis
  BY Zenon DEF Blocks
<1>2. CASE Parent(h) \in known[n] /\ h \notin known[n]
  <2>1. Grows(n, h)
    BY <1>1, <1>2, Zenon DEF AddBlock, Grows, SyncOK
  <2>2. \A m \in Nodes \ {n} : Stays(m)
    BY <1>2 DEF AddBlock, Stays, SyncOK
  <2>3. known' \in [Nodes -> SUBSET Headers] /\ head' \in [Nodes -> Headers]
    BY <1>1, <1>2 DEF AddBlock, SyncOK
  <2> QED
    BY <1>1, <2>1, <2>2, <2>3, Zenon DEF StoreStep
<1>3. CASE Parent(h) \in known[n] /\ h \in known[n]
  <2>1. known[n] \cup {h} = known[n]
    BY <1>3, Zenon
  <2>2. known' = known /\ head' = head
    BY <1>3, <2>1, Zenon DEF AddBlock, SyncOK
  <2> QED
    BY <2>2, Zenon DEF StoreStep, Stays, SyncOK
<1>4. CASE Parent(h) \notin known[n]
  BY <1>4, Zenon DEF AddBlock, storeVars, StoreStep, Stays, SyncOK
<1> QED
  BY <1>2, <1>3, <1>4, Zenon

LEMMA SameStores ==
  ASSUME SyncOK, UNCHANGED storeVars
  PROVE  /\ \A n \in Nodes : StoreStep(n)
         /\ known' \in [Nodes -> SUBSET Headers] /\ head' \in [Nodes -> Headers]
  BY Zenon DEF storeVars, StoreStep, Stays, SyncOK

\* Every step leaves the store of every node as it is, empties it or adds a
\* block to it.
LEMMA StoreSteps ==
  ASSUME SyncOK, \A n \in Nodes : StoreOK(n), [Next]_vars
  PROVE  /\ \A n \in Nodes : StoreStep(n)
         /\ known' \in [Nodes -> SUBSET Headers] /\ head' \in [Nodes -> Headers]
<1> DEFINE G == /\ \A n \in Nodes : StoreStep(n)
                /\ known' \in [Nodes -> SUBSET Headers] /\ head' \in [Nodes -> Headers]
<1>1. CASE UNCHANGED vars
  BY <1>1, SameStores, Zenon DEF vars
<1>2. ASSUME NEW l \in Links, Handshake(l) PROVE G
  BY <1>2, SameStores, Zenon DEF Handshake, SendStatus, AnswerStatus, ReadStatus, FailStatus
<1>3. ASSUME NEW n \in Nodes, NEW p \in want[n], StartSync(n, p) PROVE G
  BY <1>3, SameStores, Zenon DEF StartSync
<1>4. ASSUME NEW n \in Nodes, BuildBlock(n) PROVE G
  BY <1>4, SameStores, Zenon DEF BuildBlock
<1>5. ASSUME NEW n \in Nodes, SessionStep(n) PROVE G
  <2>1. CASE ResetChain(n)
    <3>1. Emptied(n) /\ \A m \in Nodes \ {n} : Stays(m)
      BY <2>1, Zenon DEF ResetChain, Emptied, Stays, SyncOK
    <3>2. known' \in [Nodes -> SUBSET Headers] /\ head' \in [Nodes -> Headers]
      BY <2>1, GenesisFacts, Zenon DEF ResetChain, SyncOK
    <3> QED
      BY <3>1, <3>2, Zenon DEF StoreStep
  <2>2. CASE ImportSyncBlock(n) \/ FailSnapshot(n)
    <3>1. Head(session[n].batch) \in Blocks
      BY <2>2, BatchHead, Zenon DEF ImportSyncBlock, FailSnapshot
    <3>2. AddBlock(n, Head(session[n].batch))
      BY <2>2, Zenon DEF ImportSyncBlock, FailSnapshot
    <3> QED
      BY <3>1, <3>2, AddBlockStep, Zenon DEF StoreStep
  <2>3. CASE \/ RequestSync(n) \/ ReadHead(n) \/ CompareHead(n) \/ SendBlocks(n) \/ FailRequest(n)
             \/ FailImport(n) \/ FinishSync(n) \/ EndSync(n)
    <3>1. UNCHANGED storeVars
      BY <2>3, Zenon DEF RequestSync, ReadHead, CompareHead, SendBlocks, FailRequest, FailImport, FinishSync, EndSync
    <3> QED
      BY <3>1, SameStores, Zenon
  <2> QED
    BY <1>5, <2>1, <2>2, <2>3, Zenon DEF SessionStep
<1>6. ASSUME NEW n \in Nodes, BlockStep(n) PROVE G
  <2>1. ASSUME NEW m \in gossip[n], ReceiveBlock(n, m) PROVE G
    BY <2>1, SameStores, Zenon DEF ReceiveBlock
  <2>2. CASE ImportBlock(n)
    <3>1. import[n] \in Blocks /\ AddBlock(n, import[n])
      BY <2>2, Zenon DEF ImportBlock, SyncOK, Blocks
    <3> QED
      BY <3>1, AddBlockStep, Zenon DEF StoreStep
  <2>3. CASE AddOwnBlock(n)
    <3>1. own[n] \in Blocks /\ (AddBlock(n, own[n]) \/ UNCHANGED storeVars)
      BY <2>3, Zenon DEF AddOwnBlock, SyncOK, Blocks
    <3> QED
      BY <3>1, AddBlockStep, SameStores, Zenon DEF StoreStep
  <2>4. CASE AnnounceBlock(n) \/ AnnounceOwnBlock(n)
    BY <2>4, SameStores, Zenon DEF AnnounceBlock, AnnounceOwnBlock
  <2> QED
    BY <1>6, <2>1, <2>2, <2>3, <2>4, Zenon DEF BlockStep
<1> QED
  BY <1>1, <1>2, <1>3, <1>4, <1>5, <1>6, Zenon DEF Next

\* The blocks of a response are those of the chain p with these numbers.
IsRange(b, p, from, to) ==
  LET last == IF to <= Len(p) THEN to ELSE Len(p)
  IN  /\ b \in Seq(Blocks)
      /\ Len(b) = IF last >= from THEN (last - from) + 1 ELSE 0
      /\ \A i \in 1..Len(b) : b[i] = Upto(p, (from + i) - 1)

LEMMA RangeFacts ==
  ASSUME SyncOK, NEW p \in Nodes, NEW from \in Nat, from >= 1, NEW to \in Nat
  PROVE  IsRange(BlocksInRange(p, from, to), head[p], from, to)
<1> DEFINE b == BlocksInRange(p, from, to)
           last == IF to <= Len(head[p]) THEN to ELSE Len(head[p])
           k == IF last >= from THEN (last - from) + 1 ELSE 0
           f == [i \in 1..k |-> Upto(head[p], (from + i) - 1)]
<1>1. head[p] \in Headers /\ Len(head[p]) \in Nat /\ last \in Nat /\ last <= Len(head[p]) /\ k \in Nat
  BY HeaderFacts DEF SyncOK
<1>2. b = f
  <2>1. 1..(last - from + 1) = 1..k
    BY <1>1
  <2>2. \A i \in 1..k : from + i - 1 = (from + i) - 1
    BY <1>1
  <2>3. b = [i \in 1..(last - from + 1) |-> Upto(head[p], from + i - 1)]
    BY Zenon DEF BlocksInRange, Number
  <2> QED
    BY <2>1, <2>2, <2>3, Zenon
<1>3. ASSUME NEW i \in 1..k PROVE Upto(head[p], (from + i) - 1) \in Blocks
  <2>1. (from + i) - 1 \in 0..Len(head[p]) /\ (from + i) - 1 # 0
    BY <1>1
  <2> QED
    BY <1>1, <2>1, UptoFacts, GenesisFacts DEF Blocks
<1>4. f \in Seq(Blocks) /\ Len(f) = k
  BY <1>1, <1>3, IsASeq
<1> QED
  BY <1>2, <1>4, Zenon DEF IsRange

SessionsOK ==
  /\ session \in [Nodes -> Session]
  /\ \A n \in Nodes : /\ session[n].at = "Range" => session[n].start >= 1
                      /\ session[n].at \in {"Reset", "Import"} => session[n].batch # <<>>

LEMMA OneSession ==
  ASSUME SyncOK, NEW n \in Nodes, NEW r \in Session, session' = [session EXCEPT ![n] = r],
         r.at = "Range" => r.start >= 1, r.at \in {"Reset", "Import"} => r.batch # <<>>
  PROVE  SessionsOK' /\ session'[n] = r /\ \A m \in Nodes \ {n} : session'[m] = session[m]
<1>1. session \in [Nodes -> Session]
  BY Zenon DEF SyncOK
<1>2. session'[n] = r /\ (\A m \in Nodes \ {n} : session'[m] = session[m]) /\ session' \in [Nodes -> Session]
  BY <1>1, Zenon
<1> QED
  BY <1>2, Zenon DEF SyncOK, SessionsOK

\* The sessions that a step writes.
LEMMA IdleSession ==
  ASSUME NEW n \in Nodes, NEW p \in Nodes
  PROVE  Idle(n) \in Session /\ Begin(n, p) \in Session
         /\ Idle(n).at = "Idle" /\ Begin(n, p).at = "Begin" /\ Begin(n, p).peer = p
<1>1. <<>> \in Seq(Blocks)
  OBVIOUS
<1> QED
  BY <1>1, GenesisFacts, Zenon DEF Idle, Begin, Session, Steps

LEMMA SessionMoves ==
  ASSUME SyncOK, NEW n \in Nodes,
         SessionStep(n) \/ (\E p \in want[n] : StartSync(n, p))
  PROVE  SessionsOK' /\ \A m \in Nodes \ {n} : session'[m] = session[m]
<1> DEFINE s == session[n]
           G == SessionsOK' /\ \A m \in Nodes \ {n} : session'[m] = session[m]
<1>1. /\ s \in Session /\ s.at \in Steps /\ s.peer \in Nodes /\ s.reported \in Headers
      /\ s.end \in Nat /\ s.start \in Nat /\ s.reset \in BOOLEAN /\ s.full \in BOOLEAN
      /\ s.batch \in Seq(Blocks) /\ session \in [Nodes -> Session]
      /\ s.at = "Range" => s.start >= 1
      /\ s.at \in {"Reset", "Import"} => s.batch # <<>>
  BY Zenon DEF SyncOK, Session
<1>2. head[n] \in Headers /\ head[s.peer] \in Headers
  BY <1>1, Zenon DEF SyncOK
<1>3. \A h \in Headers : Len(h) \in Nat
  BY HeaderFacts, Zenon
<1>4. ASSUME NEW p \in want[n], StartSync(n, p) PROVE G
  <2>1. p \in Nodes
    BY Zenon DEF SyncOK
  <2>2. CASE session' = session
    BY <2>2, Zenon DEF SyncOK, SessionsOK
  <2>3. CASE session' = [session EXCEPT ![n] = Begin(n, p)]
    BY <2>1, <2>3, IdleSession, OneSession, Zenon
  <2> QED
    BY <1>4, <2>2, <2>3, Zenon DEF StartSync
<1>5. CASE RequestSync(n)
  <2> DEFINE r == [s EXCEPT !.at = "Asked", !.reported = head[n]]
  <2>1. r \in Session /\ r.at = "Asked"
    BY <1>1, <1>2, Zenon DEF Session, Steps
  <2>2. session' = [session EXCEPT ![n] = r]
    BY <1>1, <1>5, Zenon DEF RequestSync
  <2> QED
    BY <2>1, <2>2, OneSession, Zenon
<1>6. CASE ReadHead(n)
  <2> DEFINE r == [s EXCEPT !.at = "Compare", !.end = Number(head[s.peer])]
  <2>1. r \in Session /\ r.at = "Compare"
    BY <1>1, <1>2, <1>3, Zenon DEF Session, Steps, Number
  <2>2. session' = [session EXCEPT ![n] = r]
    BY <1>1, <1>6, Zenon DEF ReadHead
  <2> QED
    BY <2>1, <2>2, OneSession, Zenon
<1>7. CASE CompareHead(n)
  <2> DEFINE canonical == /\ Number(s.reported) <= Number(head[s.peer])
                          /\ Upto(head[s.peer], Number(s.reported)) = s.reported
             start == IF canonical THEN Number(s.reported) + 1 ELSE 1
             r == [s EXCEPT !.at = "Range", !.reset = ~canonical, !.start = start]
  <2>1. start \in Nat /\ start >= 1
    BY <1>1, <1>3 DEF Number
  <2>2. (~canonical) \in BOOLEAN
    BY Zenon
  <2>3. session' = [session EXCEPT ![n] = r]
    BY <1>1, <1>7, Zenon DEF CompareHead
  <2> HIDE DEF canonical, start
  <2>4. r \in Session /\ r.at = "Range" /\ r.start = start
    BY <1>1, <2>1, <2>2, Zenon DEF Session, Steps
  <2> HIDE DEF r
  <2> QED
    BY <2>1, <2>3, <2>4, OneSession, Zenon
<1>8. CASE SendBlocks(n)
  <2> DEFINE to == IF s.end - s.start + 1 > MaxSyncBlocks THEN s.start + MaxSyncBlocks - 1 ELSE s.end
             batch == IF s.end < s.start THEN <<>> ELSE BlocksInRange(s.peer, s.start, to)
             at == IF batch = <<>> THEN "Finish" ELSE IF s.reset THEN "Reset" ELSE "Import"
             full == (Len(batch) = MaxSyncBlocks)
             r == [Begin(n, s.peer) EXCEPT !.at = at, !.batch = batch, !.full = full]
  <2>1. session' = [session EXCEPT ![n] = r]
    BY <1>8, Zenon DEF SendBlocks
  <2>2. to \in Nat /\ s.start >= 1
    BY <1>1, <1>8, SyncAssumption DEF SendBlocks
  <2>3. batch \in Seq(Blocks)
    <3> HIDE DEF to
    <3>1. IsRange(BlocksInRange(s.peer, s.start, to), head[s.peer], s.start, to)
      BY <1>1, <2>2, RangeFacts, Zenon
    <3> QED
      BY <3>1 DEF IsRange
  <2>4. /\ at \in Steps /\ full \in BOOLEAN /\ at # "Range"
        /\ at \in {"Reset", "Import"} => batch # <<>>
    BY Zenon DEF Steps
  <2> HIDE DEF batch, at, full
  <2>5. r \in Session /\ r.at = at /\ r.batch = batch
    BY <1>1, <2>3, <2>4, GenesisFacts, Zenon DEF Begin, Idle, Session
  <2> HIDE DEF r
  <2> QED
    BY <2>1, <2>4, <2>5, OneSession, Zenon
<1>9. CASE FailRequest(n) \/ FailImport(n) \/ FailSnapshot(n) \/ EndSync(n)
  <2>1. session' = [session EXCEPT ![n] = Idle(n)]
    BY <1>9, Zenon DEF FailRequest, FailImport, FailSnapshot, EndSync
  <2> QED
    BY <2>1, IdleSession, OneSession, Zenon
<1>10. CASE ResetChain(n)
  <2> DEFINE r == [s EXCEPT !.at = "Import"]
  <2>1. r \in Session /\ r.at = "Import" /\ r.batch = s.batch
    BY <1>1, Zenon DEF Session, Steps
  <2>2. session' = [session EXCEPT ![n] = r] /\ s.batch # <<>>
    BY <1>1, <1>10, Zenon DEF ResetChain
  <2> HIDE DEF r
  <2> QED
    BY <2>1, <2>2, OneSession, Zenon
<1>11. CASE ImportSyncBlock(n)
  <2>1. /\ Tail(s.batch) \in Seq(Blocks) /\ Len(s.batch) \in Nat
        /\ Len(Tail(s.batch)) = Len(s.batch) - 1
    BY <1>11, BatchHead, Zenon DEF ImportSyncBlock
  <2>2. CASE Len(s.batch) > 1
    <3> DEFINE r == [s EXCEPT !.batch = Tail(@)]
    <3>1. r \in Session /\ r.at = s.at /\ r.batch = Tail(s.batch)
      BY <1>1, <2>1, Zenon DEF Session
    <3>2. session' = [session EXCEPT ![n] = r] /\ s.at = "Import"
      BY <1>11, <2>2, Zenon DEF ImportSyncBlock
    <3>3. Tail(s.batch) # <<>>
      <4> DEFINE t == Tail(s.batch)
      <4>1. Len(t) = Len(s.batch) - 1 /\ Len(s.batch) \in Nat
        BY Zenon, <2>1
      <4> HIDE DEF t, s
      <4>2. t # <<>>
        BY <2>2, <4>1
      <4> QED
        BY <4>2, Zenon DEF t
    <3> HIDE DEF r
    <3> QED
      BY <3>1, <3>2, <3>3, OneSession, Zenon
  <2>3. CASE ~(Len(s.batch) > 1)
    <3> DEFINE at == IF s.full THEN "Begin" ELSE "Finish"
               r == [Begin(n, s.peer) EXCEPT !.at = at]
    <3>1. r \in Session /\ r.at = at
      <4>1. Begin(n, s.peer) \in Session /\ at \in Steps
        BY <1>1, IdleSession, Zenon DEF Steps
      <4> QED
        BY <4>1, Zenon DEF Session
    <3>2. session' = [session EXCEPT ![n] = r]
      BY <1>11, <2>3, Zenon DEF ImportSyncBlock
    <3>3. at \in {"Begin", "Finish"}
      BY Zenon
    <3> HIDE DEF r
    <3> QED
      BY <3>1, <3>2, <3>3, OneSession, Zenon
  <2> QED
    BY <2>2, <2>3, Zenon
<1>12. CASE FinishSync(n)
  <2> DEFINE r == [s EXCEPT !.at = "Status", !.end = Number(head[n])]
  <2>1. r \in Session /\ r.at = "Status"
    BY <1>1, <1>2, <1>3, Zenon DEF Session, Steps, Number
  <2>2. session' = [session EXCEPT ![n] = r]
    BY <1>1, <1>12, Zenon DEF FinishSync
  <2> QED
    BY <2>1, <2>2, OneSession, Zenon
<1> QED
  BY <1>4, <1>5, <1>6, <1>7, <1>8, <1>9, <1>10, <1>11, <1>12, Zenon DEF SessionStep

LEMMA SyncOKInit ==
  ASSUME Init
  PROVE  SyncOK /\ \A n \in Nodes : StoreOK(n)
<1>1. head \in [Nodes -> Headers]
  BY SyncAssumption, Zenon DEF Init
<1>2. known = [n \in Nodes |-> {Upto(head[n], k) : k \in 0..Len(head[n])}]
  BY Zenon DEF Init, Number
<1>3. ASSUME NEW n \in Nodes
      PROVE  StoreOK(n)
  <2> DEFINE h == head[n]
  <2>1. h \in Headers /\ Len(h) \in Nat /\ known[n] = {Upto(h, k) : k \in 0..Len(h)}
    BY <1>1, <1>2, HeaderFacts, Zenon
  <2>2. Upto(h, 0) = Genesis /\ Upto(h, Len(h)) = h /\ 0 \in 0..Len(h) /\ Len(h) \in 0..Len(h)
    BY <2>1, UptoAll
  <2>3. ASSUME NEW x \in known[n]
        PROVE  /\ x \in Headers /\ \A k \in 0..Len(x) : Upto(x, k) \in known[n]
               /\ TD(x) <= TD(h)
    <3>1. PICK j \in 0..Len(h) : x = Upto(h, j)
      BY <2>1, Zenon
    <3>2. x \in Headers /\ Len(x) = j
      BY <2>1, <3>1, UptoFacts, Zenon
    <3>3. \A k \in 0..j : Upto(x, k) = Upto(h, k) /\ k \in 0..Len(h)
      BY <2>1, <3>1, UptoUpto
    <3>4. TD(x) <= TD(h)
      BY <2>1, <3>1, TDUpto, Zenon
    <3> QED
      BY <2>1, <3>2, <3>3, <3>4, Zenon
  <2> QED
    BY <2>1, <2>2, <2>3, Zenon DEF StoreOK
<1>4. known \in [Nodes -> SUBSET Headers]
  BY <1>2, <1>3, Zenon DEF StoreOK
<1>5. /\ want \in [Nodes -> SUBSET Nodes]
      /\ gossip \in [Nodes -> SUBSET [block : Blocks, from : Nodes]]
      /\ import \in [Nodes -> Headers] /\ own \in [Nodes -> Headers]
      /\ calm \in [Nodes -> BOOLEAN]
  BY GenesisFacts, Zenon DEF Init
<1>6. \A n \in Nodes : session[n] \in Session /\ session[n].at = "Idle"
  BY IdleSession, Zenon DEF Init
<1>7. session \in [Nodes -> Session]
  BY <1>6, Zenon DEF Init
<1> QED
  BY <1>1, <1>3, <1>4, <1>5, <1>6, <1>7, Zenon DEF SyncOK

LEMMA SyncOKNext ==
  ASSUME SyncOK, \A n \in Nodes : StoreOK(n), [Next]_vars
  PROVE  SyncOK'
<1> DEFINE Stores == known \in [Nodes -> SUBSET Headers] /\ head \in [Nodes -> Headers]
           Rest == /\ want \in [Nodes -> SUBSET Nodes]
                   /\ gossip \in [Nodes -> SUBSET [block : Blocks, from : Nodes]]
                   /\ import \in [Nodes -> Headers] /\ own \in [Nodes -> Headers]
           Calm == calm \in [Nodes -> BOOLEAN]
<1>1. Stores'
  BY StoreSteps, Zenon
<1>2. SessionsOK /\ Rest /\ Calm
  BY Zenon DEF SyncOK, SessionsOK
<1>3. SessionsOK' /\ Rest' /\ Calm' => SyncOK'
  BY <1>1, Zenon DEF SyncOK, SessionsOK
<1>4. session' = session => SessionsOK'
  BY <1>2, Zenon DEF SessionsOK
<1>5. \A n, S : Disturb(n, S) => Calm'
  BY Zenon DEF Disturb
<1> HIDE DEF Calm
<1>6. calm' = calm => Calm'
  BY <1>2, Zenon DEF Calm
<1>7. CASE UNCHANGED vars
  BY <1>2, <1>3, <1>4, <1>6, <1>7, Zenon DEF vars
<1>8. ASSUME NEW l \in Links, Handshake(l) PROVE SyncOK'
  <2>1. l[1] \in Nodes /\ l[2] \in Nodes
    BY SyncAssumption, Zenon
  <2>2. session' = session /\ calm' = calm /\ UNCHANGED <<gossip, import, own>>
    BY <1>8, Zenon DEF Handshake, SendStatus, AnswerStatus, ReadStatus, FailStatus
  <2>3. want' \in [Nodes -> SUBSET Nodes]
    BY <1>2, <1>8, <2>1
    DEF Handshake, SendStatus, AnswerStatus, ReadStatus, FailStatus, HandlePeerStatus
  <2> QED
    BY <1>2, <1>3, <1>4, <1>6, <2>2, <2>3, Zenon
<1>9. ASSUME NEW n \in Nodes, NEW p \in want[n], StartSync(n, p) PROVE SyncOK'
  <2>1. SessionsOK'
    BY <1>9, SessionMoves, Zenon
  <2>2. Rest'
    BY <1>2, <1>9, Zenon DEF StartSync, SessionOnly
  <2>3. Calm'
    BY <1>2, <1>9, Zenon DEF StartSync, Calm
  <2> QED
    BY <1>3, <2>1, <2>2, <2>3, Zenon
<1>10. ASSUME NEW n \in Nodes, SessionStep(n) PROVE SyncOK'
  <2>1. SessionsOK'
    BY <1>10, SessionMoves, Zenon
  <2>2. UNCHANGED <<want, gossip, import, own>> /\ (calm' = calm \/ Disturb(n, {n}))
    BY <1>10, Zenon
    DEF SessionStep, RequestSync, ReadHead, CompareHead, SendBlocks, FailRequest, ResetChain,
        ImportSyncBlock, FailImport, FailSnapshot, FinishSync, EndSync, SessionOnly
  <2> QED
    BY <1>2, <1>3, <1>5, <1>6, <2>1, <2>2, Zenon
<1>11. ASSUME NEW n \in Nodes, NEW m \in gossip[n], ReceiveBlock(n, m) PROVE SyncOK'
  <2>1. m.block \in Headers /\ m.from \in Nodes
    BY <1>2 DEF Blocks
  <2>2. Rest'
    BY <1>2, <1>11, <2>1 DEF ReceiveBlock
  <2> QED
    BY <1>2, <1>3, <1>4, <1>6, <1>11, <2>2, Zenon DEF ReceiveBlock
<1>12. ASSUME NEW n \in Nodes, ImportBlock(n) \/ AddOwnBlock(n) PROVE SyncOK'
  <2>1. Rest' /\ session' = session /\ Disturb(n, {})
    BY <1>2, <1>12, GenesisFacts DEF ImportBlock, AddOwnBlock
  <2> QED
    BY <1>3, <1>4, <1>5, <2>1, Zenon
<1>13. ASSUME NEW n \in Nodes, AnnounceBlock(n) \/ AnnounceOwnBlock(n) PROVE SyncOK'
  <2>1. Rest' /\ session' = session /\ calm' = calm
    BY <1>2, <1>13, GenesisFacts DEF AnnounceBlock, AnnounceOwnBlock
  <2> QED
    BY <1>3, <1>4, <1>6, <2>1, Zenon
<1>14. ASSUME NEW n \in Nodes, BuildBlock(n) PROVE SyncOK'
  <2> DEFINE h == Append(head[n], IF Number(head[n]) + 1 \in InTurn[n] THEN "inturn" ELSE "noturn")
  <2>1. h \in Blocks
    <3>1. head[n] \in Seq(Seals) /\ Len(head[n]) \in Nat /\ Len(head[n]) + 1 <= MaxNumber
      BY <1>14, HeaderFacts, Zenon DEF SyncOK, BuildBlock, Number
    <3>2. h \in Seq(Seals) /\ Len(h) = Len(head[n]) + 1
      BY <3>1 DEF Seals
    <3> HIDE DEF h
    <3>3. h \in Headers /\ Len(h) # 0
      BY <3>1, <3>2, SequencesAreHeaders
    <3> QED
      BY <3>3, GenesisFacts, Zenon DEF Blocks
  <2>2. own' = [own EXCEPT ![n] = h]
        /\ gossip' = [p \in Nodes |-> IF p = n THEN gossip[p]
                                      ELSE gossip[p] \cup {[block |-> h, from |-> n]}]
        /\ UNCHANGED <<want, session, import, calm>>
    BY <1>14, Zenon DEF BuildBlock
  <2> HIDE DEF h
  <2>3. Rest'
    BY <1>2, <2>1, <2>2 DEF Blocks
  <2> QED
    BY <1>2, <1>3, <1>4, <1>6, <2>2, <2>3, Zenon
<1> QED
  BY <1>7, <1>8, <1>9, <1>10, <1>11, <1>12, <1>13, <1>14, Zenon DEF Next, BlockStep

StoresOK == SyncOK /\ \A n \in Nodes : StoreOK(n)

LEMMA StoresOKNext ==
  ASSUME StoresOK, [Next]_vars
  PROVE  StoresOK' /\ \A n \in Nodes : [Store(n)!Next]_(Store(n)!storeVars)
  BY SyncOKNext, StoreSteps, StoreStepMapped, Zenon DEF StoresOK

LEMMA StoresOKHolds == Spec => []StoresOK
<1>1. Init => StoresOK
  BY SyncOKInit, Zenon DEF StoresOK
<1>2. StoresOK /\ [Next]_vars => StoresOK'
  BY StoresOKNext, Zenon
<1> QED
  BY <1>1, <1>2, PTL DEF Spec

\* Whatever the sessions, gossiped and own blocks do to it, the store of every
\* node starts as a consistent store and changes by AddBlock and Reset only.
THEOREM StoresRefine == Spec => StoresImplementForkChoice
<1>1. StoresOK => \A n \in Nodes : Store(n)!StoreInv
  BY StoreInvMapped, Zenon DEF StoresOK
<1>2. StoresOK /\ [Next]_vars => [\A n \in Nodes : [Store(n)!Next]_(Store(n)!storeVars)]_vars
  BY StoresOKNext, Zenon
<1> QED
  BY <1>1, <1>2, StoresOKHolds, PTL DEF Spec, StoresImplementForkChoice

-----------------------------------------------------------------------------
(* A session brings over the chain of its peer *)

\* The chain p goes through h.
Below(h, p) == Len(h) <= Len(p) /\ Upto(p, Len(h)) = h

\* What is left of a response continues the chain p from block k on, up to its
\* end unless the response was full.
Serves(s, p, k) ==
  /\ k + Len(s.batch) <= Len(p)
  /\ \A i \in 1..Len(s.batch) : s.batch[i] = Upto(p, k + i)
  /\ ~s.full => k + Len(s.batch) = Len(p)

\* How far a session of a node with head h and a peer with head p has come.
Follows(s, h, p) ==
  /\ s.at \in {"Asked", "Compare"} => s.reported = h
  /\ s.at \in {"Compare", "Range"} => s.end = Len(p)
  /\ s.at = "Range" => /\ s.reset <=> ~Below(h, p)
                       /\ s.start = IF s.reset THEN 1 ELSE Len(h) + 1
  /\ s.at = "Reset" => Serves(s, p, 0)
  /\ s.at = "Import" => Below(h, p) /\ Serves(s, p, Len(h))
  /\ s.at = "Finish" => p \in {Genesis, h}

Follow(n) ==
  LET s == session[n]
  IN  calm[n] /\ s.peer # n => Follows(s, head[n], head[s.peer])

LEMMA SendFollows ==
  ASSUME StoresOK, NEW n \in Nodes, SendBlocks(n),
         Follows(session[n], head[n], head[session[n].peer])
  PROVE  /\ session'[n].peer = session[n].peer
         /\ Follows(session'[n], head[n], head[session[n].peer])
<1> DEFINE s == session[n]
           r == session'[n]
           h == head[n]
           p == head[s.peer]
           k == IF s.reset THEN 0 ELSE Len(h)
           to == IF s.end - s.start + 1 > MaxSyncBlocks THEN s.start + MaxSyncBlocks - 1 ELSE s.end
           b == BlocksInRange(s.peer, s.start, to)
           batch == IF s.end < s.start THEN <<>> ELSE b
<1>1. /\ s.peer \in Nodes /\ h \in Headers /\ p \in Headers /\ Len(h) \in Nat /\ Len(p) \in Nat
      /\ s.reset \in BOOLEAN /\ MaxSyncBlocks \in Nat \ {0}
  BY HeaderFacts, SyncAssumption, Zenon DEF StoresOK, SyncOK, Session
<1>2. s.at = "Range" /\ s.end = Len(p) /\ (s.reset <=> ~Below(h, p)) /\ s.start = k + 1
  BY <1>1 DEF SendBlocks, Follows
<1>3. /\ r.peer = s.peer /\ r.batch = batch /\ r.full = (Len(batch) = MaxSyncBlocks)
      /\ r.at = IF batch = <<>> THEN "Finish" ELSE IF s.reset THEN "Reset" ELSE "Import"
  <2>1. session \in [Nodes -> Session]
    BY Zenon DEF StoresOK, SyncOK
  <2> QED
    BY <2>1, Zenon DEF SendBlocks, Begin, Idle
<1> HIDE DEF r, s, h
<1>4. k \in Nat /\ s.start \in Nat /\ s.start >= 1 /\ (~s.reset => Below(h, p))
  BY <1>1, <1>2
<1>5. CASE s.end < s.start
  <2>1. batch = <<>> /\ r.at = "Finish"
    BY <1>3, <1>5, Zenon
  <2>2. s.reset => p = Genesis
    BY <1>1, <1>2, <1>5, ParentFacts
  <2>3. ~s.reset => p = h
    <3> HIDE DEF p
    <3>1. ~s.reset => Len(p) = Len(h)
      BY <1>1, <1>2, <1>4, <1>5 DEF Below
    <3> QED
      BY <1>1, <1>4, <3>1, UptoAll, Zenon DEF Below
  <2>4. Follows(r, h, p)
    <3> HIDE DEF p
    <3> QED
      BY <1>1, <2>1, <2>2, <2>3, Zenon DEF Follows
  <2> QED
    BY <1>3, <2>4, Zenon DEF r, s, h
<1>6. CASE ~(s.end < s.start)
  <2>1. to \in Nat
    <3> HIDE DEF p, k
    <3> QED
      BY <1>1, <1>2, <1>4
  <2> DEFINE last == IF to <= Len(p) THEN to ELSE Len(p)
  <2>2. /\ b \in Seq(Blocks) /\ Len(b) = IF last >= s.start THEN (last - s.start) + 1 ELSE 0
        /\ \A i \in 1..Len(b) : b[i] = Upto(p, (s.start + i) - 1)
    <3> HIDE DEF to
    <3>1. SyncOK
      BY Zenon DEF StoresOK
    <3>2. IsRange(b, p, s.start, to)
      BY <1>1, <1>4, <2>1, <3>1, RangeFacts, Zenon
    <3> HIDE DEF p, b
    <3> QED
      BY <3>2, Zenon DEF IsRange
  <2> HIDE DEF p, k
  <2>3. to <= Len(p) /\ to >= k + 1 /\ (to - k # MaxSyncBlocks => to = Len(p))
    BY <1>1, <1>2, <1>4, <1>6
  <2> HIDE DEF to, b
  <2>4. Len(b) = to - k /\ k + Len(b) = to /\ Len(b) \in Nat /\ Len(b) >= 1
    BY <1>1, <1>2, <1>4, <2>1, <2>2, <2>3
  <2>5. \A i \in 1..Len(b) : b[i] = Upto(p, k + i)
    <3>1. \A i \in 1..Len(b) : (s.start + i) - 1 = k + i
      BY <1>2, <1>4, <2>4
    <3> QED
      BY <2>2, <3>1, Zenon
  <2>6. batch = b /\ b # <<>>
    BY <1>6, <2>4
  <2> HIDE DEF batch
  <2>7. Serves(r, p, k)
    BY <1>3, <2>3, <2>4, <2>5, <2>6, Zenon DEF Serves
  <2>8. r.at = IF s.reset THEN "Reset" ELSE "Import"
    BY <1>3, <2>6, Zenon
  <2>9. Follows(r, h, p)
    BY <1>4, <2>7, <2>8, Zenon DEF Follows, k
  <2> QED
    BY <1>3, <2>9, Zenon DEF r, s, h, p
<1> QED
  BY <1>5, <1>6, Zenon

LEMMA ImportFollows ==
  ASSUME StoresOK, NEW n \in Nodes, ImportSyncBlock(n), session[n].peer # n,
         Follows(session[n], head[n], head[session[n].peer])
  PROVE  /\ session'[n].peer = session[n].peer
         /\ Follows(session'[n], head'[n], head'[session[n].peer])
<1> DEFINE s == session[n]
           r == session'[n]
           b == s.batch
           h == head[n]
           p == head[s.peer]
           x == Head(b)
<1>1. /\ s.peer \in Nodes /\ h \in Headers /\ p \in Headers /\ Len(h) \in Nat /\ Len(p) \in Nat
      /\ s.full \in BOOLEAN
  BY HeaderFacts, Zenon DEF StoresOK, SyncOK, Session
<1>2. /\ s.at = "Import" /\ Below(h, p) /\ Serves(s, p, Len(h))
      /\ Parent(x) \in known[n] /\ AddBlock(n, x)
  BY Zenon DEF ImportSyncBlock, Follows
<1>3. /\ x = b[1] /\ x \in Blocks /\ Len(b) \in Nat /\ Len(b) >= 1
      /\ Len(Tail(b)) = Len(b) - 1
      /\ \A i \in 1..(Len(b) - 1) : Tail(b)[i] = b[i + 1]
  BY <1>2, BatchHead, Zenon DEF StoresOK
<1>4. head'[s.peer] = p
  BY <1>1, <1>2, <1>3, AddBlockStep, Zenon DEF StoresOK, Stays
<1>5. x = Upto(p, Len(h) + 1) /\ Len(h) + 1 \in 0..Len(p)
  <2> HIDE DEF s, h, p, x
  <2>1. /\ Len(h) + Len(b) <= Len(p) /\ \A i \in 1..Len(b) : b[i] = Upto(p, Len(h) + i)
    BY <1>2, Zenon DEF Serves
  <2> HIDE DEF b
  <2> QED
    BY <1>1, <1>3, <2>1
<1>6. x \in Headers /\ x # Genesis /\ Len(x) = Len(h) + 1
  BY <1>1, <1>3, <1>5, UptoFacts DEF Blocks
<1>7. Parent(x) = h
  <2>1. Len(x) - 1 = Len(h) /\ Len(h) \in 0..(Len(h) + 1)
    BY <1>1, <1>6
  <2>2. Parent(x) = Upto(x, Len(h))
    BY <1>6, <2>1, ParentFacts, Zenon
  <2>3. Upto(Upto(p, Len(h) + 1), Len(h)) = Upto(p, Len(h))
    BY <1>1, <1>5, <2>1, UptoUpto, Zenon
  <2> QED
    BY <1>2, <1>5, <2>2, <2>3, Zenon DEF Below
<1>8. TD(x) > TD(h) /\ TD(x) \in Nat /\ TD(h) \in Nat
  BY <1>1, <1>6, <1>7, TDFacts, Zenon
<1>9. x \notin known[n]
  BY <1>8 DEF StoresOK, StoreOK
<1> HIDE DEF x
<1>10. head'[n] = x
  BY <1>2, <1>8, <1>9, Zenon DEF AddBlock, StoresOK, SyncOK
<1>11. Below(x, p)
  BY <1>1, <1>5, <1>6 DEF Below
<1>12. session' = [session EXCEPT ![n] =
                     IF Len(b) > 1 THEN [s EXCEPT !.batch = Tail(@)]
                     ELSE [Begin(n, s.peer) EXCEPT !.at = IF s.full THEN "Begin" ELSE "Finish"]]
  BY Zenon DEF ImportSyncBlock
<1>13. session \in [Nodes -> Session] /\ s \in Session
  BY Zenon DEF StoresOK, SyncOK
<1>14. CASE Len(b) > 1
  <2>1. r.at = s.at /\ r.peer = s.peer /\ r.full = s.full /\ r.batch = Tail(b)
    BY <1>12, <1>13, <1>14, Zenon DEF Session
  <2> DEFINE t == Tail(b)
  <2>2. Len(t) = Len(b) - 1 /\ \A i \in 1..(Len(b) - 1) : t[i] = b[i + 1]
    BY Zenon, <1>3
  <2> HIDE DEF t, b, s, r, h, p
  <2>3. /\ Len(x) + Len(t) <= Len(p) /\ (~s.full => Len(x) + Len(t) = Len(p))
        /\ Len(h) + Len(b) = Len(x) + Len(t)
    <3>1. Len(h) + Len(b) <= Len(p) /\ (~s.full => Len(h) + Len(b) = Len(p))
      BY <1>2, Zenon DEF Serves, b
    <3>2. Len(b) \in Nat /\ Len(t) = Len(b) - 1
      BY Zenon, <1>3, <2>2
    <3>3. Len(h) + Len(b) = Len(x) + Len(t)
      BY <1>1, <1>6, <3>2
    <3> QED
      BY Zenon, <3>1, <3>3
  <2>4. ASSUME NEW i \in 1..Len(t) PROVE t[i] = Upto(p, Len(x) + i)
    <3>1. i + 1 \in 1..Len(b) /\ i \in 1..(Len(b) - 1) /\ Len(h) + (i + 1) = Len(x) + i
      BY <1>1, <1>3, <1>6, <2>2
    <3>2. b[i + 1] = Upto(p, Len(h) + (i + 1))
      BY <1>2, <3>1, Zenon DEF Serves, b
    <3> QED
      BY <2>2, <3>1, <3>2, Zenon
  <2>5. Serves(r, p, Len(x))
    BY <2>1, <2>3, <2>4, Zenon DEF Serves, t
  <2> QED
    BY <1>2, <1>4, <1>10, <1>11, <2>1, <2>5, Zenon DEF Follows, s, r, p
<1>15. CASE ~(Len(b) > 1)
  <2>1. r.peer = s.peer /\ r.at = IF s.full THEN "Begin" ELSE "Finish"
    BY <1>12, <1>13, <1>15, Zenon DEF Begin, Idle
  <2>2. ASSUME ~s.full PROVE x = p
    <3>1. Len(x) = Len(p)
      <4> HIDE DEF s, h, p
      <4>1. Len(h) + Len(b) = Len(p)
        BY <1>2, <2>2, Zenon DEF Serves
      <4> HIDE DEF b
      <4> QED
        BY <1>1, <1>3, <1>6, <1>15, <4>1
    <3> QED
      BY <1>1, <1>11, <3>1, UptoAll, Zenon DEF Below
  <2> QED
    BY <1>4, <1>10, <2>1, <2>2, Zenon DEF Follows
<1> QED
  BY <1>14, <1>15, Zenon

\* The other steps of a session.
LEMMA SessionFollows ==
  ASSUME StoresOK, NEW n \in Nodes, SessionStep(n), session[n].peer # n, session'[n].peer # n,
         Follows(session[n], head[n], head[session[n].peer])
  PROVE  /\ session'[n].peer = session[n].peer
         /\ Follows(session'[n], head'[n], head'[session[n].peer])
<1> DEFINE s == session[n]
           r == session'[n]
           h == head[n]
           p == head[s.peer]
<1>1. /\ s \in Session /\ s.peer \in Nodes /\ session \in [Nodes -> Session]
      /\ h \in Headers /\ p \in Headers /\ Len(h) \in Nat /\ Len(p) \in Nat
  BY HeaderFacts, Zenon DEF StoresOK, SyncOK, Session
<1>2. CASE RequestSync(n)
  <2>1. r.at = "Asked" /\ r.peer = s.peer /\ r.reported = h /\ head' = head
    BY <1>1, <1>2, Zenon DEF RequestSync, storeVars, Session
  <2> QED
    BY <2>1, Zenon DEF Follows
<1>3. CASE ReadHead(n)
  <2>1. /\ r.at = "Compare" /\ r.peer = s.peer /\ r.reported = s.reported /\ r.end = Len(p)
        /\ head' = head /\ s.at = "Asked"
    BY <1>1, <1>3, Zenon DEF ReadHead, storeVars, Session, Number
  <2> QED
    BY <2>1, Zenon DEF Follows
<1>4. CASE CompareHead(n)
  <2>1. s.at = "Compare" /\ head' = head /\ s.reported = h /\ s.end = Len(p)
    BY <1>4, Zenon DEF CompareHead, storeVars, Follows
  <2>2. /\ r.at = "Range" /\ r.peer = s.peer /\ r.end = s.end
        /\ r.reset = ~Below(h, p)
        /\ r.start = IF Below(h, p) THEN Len(h) + 1 ELSE 1
    BY <1>1, <1>4, <2>1, Zenon DEF CompareHead, Session, Number, Below
  <2>3. Follows(r, h, p)
    <3> HIDE DEF r, s, h, p
    <3> QED
      BY <2>1, <2>2, Zenon DEF Follows
  <2> QED
    BY <2>1, <2>2, <2>3, Zenon
<1>5. CASE SendBlocks(n)
  <2>1. head' = head
    BY <1>5, Zenon DEF SendBlocks, storeVars
  <2> QED
    BY <1>5, <2>1, SendFollows, Zenon
<1>6. CASE FailRequest(n) \/ FailImport(n) \/ FailSnapshot(n) \/ EndSync(n)
  <2>1. r = Idle(n)
    BY <1>1, <1>6, Zenon DEF FailRequest, FailImport, FailSnapshot, EndSync
  <2> QED
    BY <2>1 DEF Idle
<1>7. CASE ResetChain(n)
  <2>1. /\ r.at = "Import" /\ r.peer = s.peer /\ r.batch = s.batch /\ r.full = s.full
        /\ s.at = "Reset"
    BY <1>1, <1>7, Zenon DEF ResetChain, Session
  <2>2. head'[n] = Genesis /\ head'[s.peer] = p
    BY <1>1, <1>7, Zenon DEF ResetChain, StoresOK, SyncOK
  <2>3. Below(Genesis, p) /\ Len(Genesis) = 0
    BY <1>1, UptoAll, GenesisFacts DEF Below
  <2>4. Serves(r, p, 0)
    BY <2>1, Zenon DEF Follows, Serves
  <2>5. Follows(r, Genesis, p)
    <3> HIDE DEF r, s, h, p
    <3> QED
      BY <2>1, <2>3, <2>4, Zenon DEF Follows
  <2> QED
    BY <2>1, <2>2, <2>5, Zenon
<1>8. CASE ImportSyncBlock(n)
  BY <1>8, ImportFollows, Zenon
<1>9. CASE FinishSync(n)
  <2>1. r.at = "Status" /\ r.peer = s.peer
    BY <1>1, <1>9, Zenon DEF FinishSync, Session
  <2> QED
    BY <2>1, Zenon DEF Follows
<1> QED
  BY <1>2, <1>3, <1>4, <1>5, <1>6, <1>7, <1>8, <1>9, Zenon DEF SessionStep

\* A session that a step neither takes further nor disturbs.
LEMMA Undisturbed ==
  ASSUME NEW m \in Nodes, Follow(m), session'[m] = session[m],
         calm'[m] => /\ calm[m] /\ head'[m] = head[m]
                     /\ head'[session[m].peer] = head[session[m].peer]
  PROVE  Follow(m)'
  BY Zenon DEF Follow

LEMMA DisturbFacts ==
  ASSUME StoresOK, NEW n \in Nodes, NEW S, Disturb(n, S), \A k \in Nodes \ {n} : head'[k] = head[k],
         NEW m \in Nodes, calm'[m]
  PROVE  /\ calm[m]
         /\ m \notin S => /\ head'[m] = head[m]
                          /\ head'[session[m].peer] = head[session[m].peer]
<1>1. session[m].peer \in Nodes
  BY Zenon DEF StoresOK, SyncOK, Session
<1>2. calm[m] /\ (m \in S \/ head'[n] = head[n] \/ (m # n /\ session[m].peer # n))
  BY Zenon DEF Disturb
<1> QED
  BY <1>1, <1>2, Zenon

LEMMA FollowNext ==
  ASSUME StoresOK, \A n \in Nodes : Follow(n), [Next]_vars
  PROVE  \A n \in Nodes : Follow(n)'
<1> DEFINE G == \A m \in Nodes : Follow(m)'
<1>1. ASSUME session' = session, calm' = calm, head' = head PROVE G
  BY <1>1, Undisturbed, Zenon
<1>2. CASE UNCHANGED vars
  BY <1>1, <1>2, Zenon DEF vars, storeVars
<1>3. ASSUME NEW l \in Links, Handshake(l) PROVE G
  BY <1>1, <1>3, Zenon DEF Handshake, SendStatus, AnswerStatus, ReadStatus, FailStatus, storeVars
<1>4. ASSUME NEW n \in Nodes, NEW p \in want[n], StartSync(n, p) PROVE G
  <2>1. CASE UNCHANGED <<session, calm>>
    BY <1>1, <1>4, <2>1, Zenon DEF StartSync, storeVars
  <2>2. CASE ~UNCHANGED <<session, calm>>
    <3>1. /\ session' = [session EXCEPT ![n] = Begin(n, p)] /\ calm' = [calm EXCEPT ![n] = TRUE]
          /\ head' = head
      BY <1>4, <2>2, Zenon DEF StartSync, storeVars
    <3>2. p \in Nodes /\ session \in [Nodes -> Session] /\ calm \in [Nodes -> BOOLEAN]
      BY Zenon DEF StoresOK, SyncOK
    <3>3. ASSUME NEW m \in Nodes, m # n PROVE Follow(m)'
      BY <3>1, <3>2, <3>3, Undisturbed, Zenon
    <3>4. Follow(n)'
      <4>1. session'[n].at = "Begin"
        BY <3>1, <3>2, IdleSession, Zenon
      <4> QED
        BY <4>1, Zenon DEF Follow, Follows
    <3> QED
      BY <3>3, <3>4, Zenon
  <2> QED
    BY <2>1, <2>2, Zenon
<1>5. ASSUME NEW n \in Nodes, SessionStep(n) PROVE G
  <2>1. \A k \in Nodes \ {n} : head'[k] = head[k]
    <3>1. CASE ResetChain(n)
      BY <3>1, Zenon DEF ResetChain, StoresOK, SyncOK
    <3>2. CASE ImportSyncBlock(n) \/ FailSnapshot(n)
      <4>1. Head(session[n].batch) \in Blocks /\ AddBlock(n, Head(session[n].batch))
        BY <3>2, BatchHead, Zenon DEF ImportSyncBlock, FailSnapshot, StoresOK
      <4> QED
        BY <4>1, AddBlockStep, Zenon DEF StoresOK, Stays
    <3>3. CASE head' = head
      BY <3>3, Zenon
    <3> QED
      BY <1>5, <3>1, <3>2, <3>3, Zenon
      DEF SessionStep, RequestSync, ReadHead, CompareHead, SendBlocks, FailRequest, FailImport,
          FinishSync, EndSync, storeVars
  <2>2. Disturb(n, {n}) \/ (calm' = calm /\ head' = head)
    BY <1>5, Zenon
    DEF SessionStep, RequestSync, ReadHead, CompareHead, SendBlocks, FailRequest, ResetChain,
        ImportSyncBlock, FailImport, FailSnapshot, FinishSync, EndSync, storeVars
  <2>3. ASSUME NEW m \in Nodes, m # n PROVE Follow(m)'
    <3>1. session'[m] = session[m]
      BY <1>5, <2>3, SessionMoves, Zenon DEF StoresOK
    <3>2. calm'[m] => /\ calm[m] /\ head'[m] = head[m]
                      /\ head'[session[m].peer] = head[session[m].peer]
      BY <2>1, <2>2, <2>3, DisturbFacts
    <3> QED
      BY <3>1, <3>2, Undisturbed, Zenon
  <2>4. Follow(n)'
    <3>1. calm'[n] => calm[n]
      BY <2>1, <2>2, DisturbFacts, Zenon
    <3>2. session'[n].peer \in {session[n].peer, n}
      <4>1. session \in [Nodes -> Session]
        BY Zenon DEF StoresOK, SyncOK
      <4>2. CASE RequestSync(n) \/ ReadHead(n) \/ ResetChain(n) \/ FinishSync(n)
        BY <4>1, <4>2 DEF RequestSync, ReadHead, ResetChain, FinishSync, Session
      <4>3. CASE CompareHead(n)
        BY <4>1, <4>3 DEF CompareHead, Session
      <4>4. CASE FailRequest(n) \/ FailImport(n) \/ FailSnapshot(n) \/ EndSync(n)
        BY <4>1, <4>4 DEF FailRequest, FailImport, FailSnapshot, EndSync, Idle
      <4>5. CASE SendBlocks(n)
        BY <4>1, <4>5, Zenon DEF SendBlocks, Begin, Idle
      <4>6. CASE ImportSyncBlock(n)
        BY <4>1, <4>6 DEF ImportSyncBlock, Begin, Idle, Session
      <4> QED
        BY <1>5, <4>2, <4>3, <4>4, <4>5, <4>6, Zenon DEF SessionStep
    <3>3. ASSUME calm'[n], session'[n].peer # n
          PROVE  Follows(session'[n], head'[n], head'[session'[n].peer])
      <4>1. session[n].peer # n /\ Follows(session[n], head[n], head[session[n].peer])
        BY <3>1, <3>2, <3>3, Zenon DEF Follow
      <4> QED
        BY <1>5, <3>3, <4>1, SessionFollows, Zenon
    <3> QED
      BY <3>3, Zenon DEF Follow
  <2> QED
    BY <2>3, <2>4, Zenon
<1>6. ASSUME NEW n \in Nodes, NEW m \in gossip[n], ReceiveBlock(n, m) PROVE G
  BY <1>1, <1>6, Zenon DEF ReceiveBlock, storeVars
<1>7. ASSUME NEW n \in Nodes, ImportBlock(n) \/ AddOwnBlock(n) PROVE G
  <2>1. session' = session /\ Disturb(n, {})
    BY <1>7, Zenon DEF ImportBlock, AddOwnBlock
  <2>2. \A k \in Nodes \ {n} : head'[k] = head[k]
    <3>1. \A h \in Blocks : AddBlock(n, h) => \A k \in Nodes \ {n} : head'[k] = head[k]
      BY AddBlockStep, Zenon DEF StoresOK, Stays
    <3>2. CASE ImportBlock(n)
      <4>1. import[n] \in Blocks /\ AddBlock(n, import[n])
        BY <3>2, Zenon DEF ImportBlock, StoresOK, SyncOK, Blocks
      <4> QED
        BY <3>1, <4>1, Zenon
    <3>3. CASE AddOwnBlock(n)
      <4>1. own[n] \in Blocks /\ (AddBlock(n, own[n]) \/ head' = head)
        BY <3>3, Zenon DEF AddOwnBlock, StoresOK, SyncOK, Blocks, storeVars
      <4> QED
        BY <3>1, <4>1, Zenon
    <3> QED
      BY <1>7, <3>2, <3>3, Zenon
  <2>3. ASSUME NEW m \in Nodes PROVE Follow(m)'
    BY <2>1, <2>2, DisturbFacts, Undisturbed
  <2> QED
    BY <2>3, Zenon
<1>8. ASSUME NEW n \in Nodes, BuildBlock(n) \/ AnnounceBlock(n) \/ AnnounceOwnBlock(n) PROVE G
  BY <1>1, <1>8, Zenon DEF BuildBlock, AnnounceBlock, AnnounceOwnBlock, storeVars
<1> QED
  BY <1>2, <1>3, <1>4, <1>5, <1>6, <1>7, <1>8, Zenon DEF Next, BlockStep

\* syncWithPeer adopts the chain of the peer, over any number of responses of
\* any size and through a reset, when nothing else changes the two heads.
THEOREM SyncCorrect == Spec => []SyncAdopts
<1> DEFINE FollowAll == \A n \in Nodes : Follow(n)
<1>1. Init => FollowAll
  <2> SUFFICES ASSUME Init, NEW n \in Nodes PROVE Follow(n)
    BY Zenon
  <2>1. session[n].at = "Idle"
    BY IdleSession, Zenon DEF Init
  <2> QED
    BY <2>1, Zenon DEF Follow, Follows
<1>2. FollowAll /\ StoresOK /\ [Next]_vars => FollowAll'
  BY FollowNext, Zenon
<1>3. FollowAll => SyncAdopts
  BY Zenon DEF Follow, Follows, SyncAdopts
<1> HIDE DEF FollowAll
<1> QED
  BY <1>1, <1>2, <1>3, StoresOKHolds, PTL DEF Spec
=============================================================================
