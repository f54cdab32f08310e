-------------------------- MODULE CliqueNodeProofs --------------------------
(***************************************************************************)
(* Proofs about a Clique node, for any signer list, any number of          *)
(* production goroutines and any epoch length.  The properties of module   *)
(* CliqueNode about the head snapshot, the snapshot cache and the timers   *)
(* hold in every clean history.                                            *)
(***************************************************************************)
EXTENDS CliqueNode, ForkChoiceProofs

-----------------------------------------------------------------------------
(* Numbers and branches *)

LEMMA LimitFacts == Limit \in Nat /\ Limit >= 1 /\ Epoch \in Nat /\ Epoch > 0 /\ MaxNumber \in Nat
<1>1. Len(SignerList) \in Nat
  BY SealsAssumption
<1>2. Len(SignerList) \div 2 \in Nat
  BY <1>1
<1> QED
  BY <1>2, SealsAssumption, HeadersAssumption DEF Limit

LEMMA EpochMultiple ==
  ASSUME NEW q \in Nat
  PROVE  (q * Epoch) % Epoch = 0
<1> DEFINE d == (q * Epoch) \div Epoch
           r == (q * Epoch) % Epoch
<1>1. Epoch \in Nat /\ Epoch > 0 /\ q * Epoch \in Nat
  BY LimitFacts
<1>2. d \in Int /\ r \in Int /\ 0 <= r /\ r < Epoch /\ q * Epoch = Epoch * d + r
  BY <1>1
<1> HIDE DEF d, r
<1>3. r = Epoch * (q - d)
  BY <1>1, <1>2
<1>4. q - d >= 1 => Epoch * (q - d) >= Epoch
  BY <1>1, <1>2
<1>5. q - d <= -1 => Epoch * (q - d) <= -Epoch
  BY <1>1, <1>2
<1>6. q - d = 0
  BY <1>1, <1>2, <1>3, <1>4, <1>5
<1>7. r = 0
  BY <1>1, <1>3, <1>6
<1> QED
  BY <1>7, Zenon DEF r

LEMMA SealFacts ==
  ASSUME NEW h \in Headers, NEW i \in 1..Len(h)
  PROVE  h[i].signer \in Signers /\ h[i] \in Seals
<1>1. h[i] \in Seals
  BY HeaderFacts, ElementOfSeq, Zenon
<1>2. h[i] \in [signer : Signers, inturn : BOOLEAN]
  BY <1>1, SealsAssumption, Zenon
<1> QED
  BY <1>1, <1>2, Zenon

LEMMA SignerFacts ==
  ASSUME NEW h \in Headers, h # Genesis
  PROVE  Signer(h) \in Signers /\ Signer(h) = h[Len(h)].signer /\ Number(h) \in 1..MaxNumber
<1>1. Len(h) \in Nat /\ Len(h) >= 1 /\ Len(h) \in 0..MaxNumber
  BY ParentFacts, HeaderFacts, Zenon
<1> QED
  BY <1>1, SealFacts, LimitFacts DEF Signer, Number

LEMMA SealedFacts ==
  ASSUME NEW parent \in Headers, NEW s \in Signers, Number(parent) < MaxNumber
  PROVE  LET h == Sealed(parent, s)
         IN  /\ h \in Headers /\ h # Genesis /\ Number(h) = Number(parent) + 1
             /\ Parent(h) = parent /\ Signer(h) = s
<1> DEFINE x == [signer |-> s, inturn |-> InTurn(Number(parent) + 1, s)]
           h == Append(parent, x)
<1>1. parent \in Seq(Seals) /\ Len(parent) \in Nat /\ Len(parent) + 1 \in 0..MaxNumber
  BY HeaderFacts, LimitFacts DEF Number
<1>2. x \in Seals /\ x.signer = s
  BY SealsAssumption, Zenon DEF InTurn
<1> HIDE DEF x
<1>3. h \in Seq(Seals) /\ Len(h) = Len(parent) + 1 /\ h[Len(h)] = x
      /\ \A i \in 1..Len(parent) : h[i] = parent[i]
  BY <1>1, <1>2
<1>4. h \in Headers
  <2>1. h \in [1..(Len(parent) + 1) -> Seals]
    BY <1>1, <1>3, LenProperties, Zenon
  <2> QED
    BY <1>1, <2>1, Zenon DEF Headers
<1>5. Parent(h) = parent
  BY <1>1, <1>2, AppendProperties DEF Parent, Upto
<1>6. h # Genesis
  BY <1>1, <1>3, GenesisFacts
<1>7. Sealed(parent, s) = h
  BY Zenon DEF Sealed, x
<1> HIDE DEF h
<1> QED
  BY <1>2, <1>3, <1>4, <1>5, <1>6, <1>7, Zenon DEF Number, Signer

LEMMA WaitsUpto ==
  ASSUME NEW h \in Headers, Waits(h), NEW k \in 0..Len(h)
  PROVE  Waits(Upto(h, k))
<1>1. Len(Upto(h, k)) = k /\ (\A i \in 1..k : Upto(h, k)[i] = h[i]) /\ Len(h) \in Nat
  BY UptoFacts, HeaderFacts, Zenon
<1>2. ASSUME NEW m \in 1..k, NEW n \in 1..k, m < n, n < m + Limit
      PROVE  Upto(h, k)[m].signer # Upto(h, k)[n].signer
  BY <1>1, <1>2 DEF Waits, Number
<1> QED
  BY <1>1, <1>2, Zenon DEF Waits, Number

-----------------------------------------------------------------------------
(* Snapshots *)

\* Who recently signed, according to a snapshot, did sign these blocks of its
\* branch, and they are recent.
Faithful(snap) ==
  \A b \in DOMAIN snap.recents :
    /\ b \in 1..Number(snap.hash) /\ b > Number(snap.hash) - Limit
    /\ snap.recents[b] = snap.hash[b].signer

LEMMA CheckpointFacts ==
  ASSUME NEW h \in Headers
  PROVE  LET snap == NewCheckpointSnapshot(h)
         IN  snap \in Snapshots /\ snap.hash = h /\ Faithful(snap)
<1> DEFINE snap == NewCheckpointSnapshot(h)
<1>1. Empty \in [{} -> Signers] /\ {} \in SUBSET (1..MaxNumber) /\ DOMAIN Empty = {}
  BY Zenon DEF Empty
<1>2. snap.hash = h /\ snap.recents = Empty /\ snap \in Snapshots
  BY <1>1, Zenon DEF NewCheckpointSnapshot, Snapshots
<1> HIDE DEF snap
<1>3. Faithful(snap)
  BY <1>1, <1>2, Zenon DEF Faithful
<1> QED
  BY <1>2, <1>3, Zenon DEF snap

LEMMA GenesisSnapFacts ==
  GenesisSnap \in Snapshots /\ GenesisSnap.hash = Genesis /\ Faithful(GenesisSnap) /\ GenesisSnap # NoSnap
  BY CheckpointFacts, GenesisFacts, NoSnapAssumption, Zenon DEF GenesisSnap

LEMMA RecentsType ==
  ASSUME NEW snap \in Snapshots
  PROVE  /\ snap.hash \in Headers
         /\ DOMAIN snap.recents \subseteq 1..MaxNumber
         /\ \A b \in DOMAIN snap.recents : snap.recents[b] \in Signers
<1>1. PICK B \in SUBSET (1..MaxNumber) : snap.recents \in [B -> Signers]
  BY Zenon DEF Snapshots
<1> QED
  BY <1>1, Zenon DEF Snapshots

\* apply returns a snapshot of the header that follows in number, or nothing.
LEMMA ApplyType ==
  ASSUME NEW snap \in Snapshots, NEW h \in Headers, ApplyHeader(snap, h) # NoSnap
  PROVE  /\ ApplyHeader(snap, h) \in Snapshots /\ ApplyHeader(snap, h).hash = h
         /\ Number(h) = Number(snap.hash) + 1
<1> DEFINE kept == DOMAIN snap.recents \ {Number(h) - Limit}
           r == [b \in kept \cup {Number(h)} |-> IF b = Number(h) THEN Signer(h) ELSE snap.recents[b]]
<1>1. Number(h) = Number(snap.hash) + 1 /\ ApplyHeader(snap, h) = [hash |-> h, recents |-> r]
  BY Zenon DEF ApplyHeader
<1>2. h # Genesis
  BY <1>1, RecentsType, HeaderFacts, GenesisFacts DEF Number
<1>3. Signer(h) \in Signers /\ Number(h) \in 1..MaxNumber
  BY <1>2, SignerFacts, Zenon
<1>4. kept \cup {Number(h)} \in SUBSET (1..MaxNumber)
  BY <1>3, RecentsType, Zenon
<1>5. r \in [kept \cup {Number(h)} -> Signers]
  BY <1>3, RecentsType, Zenon
<1> HIDE DEF kept, r
<1>6. [hash |-> h, recents |-> r] \in Snapshots
  BY <1>4, <1>5, Zenon DEF Snapshots
<1> QED
  BY <1>1, <1>6

\* Applied to the child of its block, by a signer who has not signed recently,
\* a faithful snapshot yields a faithful one.
LEMMA ApplyFaithful ==
  ASSUME NEW snap \in Snapshots, Faithful(snap), NEW h \in Headers, h # Genesis,
         Parent(h) = snap.hash, ~HasRecentlySigned(snap, Number(h), Signer(h))
  PROVE  LET new == ApplyHeader(snap, h)
         IN  new # NoSnap /\ new \in Snapshots /\ new.hash = h /\ Faithful(new)
<1> DEFINE kept == DOMAIN snap.recents \ {Number(h) - Limit}
           r == [b \in kept \cup {Number(h)} |-> IF b = Number(h) THEN Signer(h) ELSE snap.recents[b]]
           n == Len(h)
<1>1. /\ n \in Nat /\ n >= 1 /\ Len(snap.hash) = n - 1 /\ Limit \in Nat /\ Limit >= 1
      /\ snap.hash = Upto(h, n - 1) /\ h \in Seq(Seals)
  BY ParentFacts, LimitFacts, HeaderFacts, Zenon DEF Parent
<1>2. \A b \in 1..(n - 1) : snap.hash[b] = h[b]
  <2>1. n - 1 \in 0..Len(h)
    BY <1>1
  <2> QED
    BY <1>1, <2>1, UptoFacts, Zenon
<1>3. \A b \in kept : /\ b \in 1..(n - 1) /\ b > n - Limit /\ b + Limit > n
                      /\ snap.recents[b] = h[b].signer
  <2> TAKE b \in kept
  <2>1. b \in 1..(n - 1) /\ b > (n - 1) - Limit /\ b # n - Limit /\ snap.recents[b] = snap.hash[b].signer
    BY <1>1, Zenon DEF Faithful, Number
  <2> QED
    BY <1>1, <1>2, <2>1
<1>4. \A b \in kept : snap.recents[b] # Signer(h)
  BY <1>3, Zenon DEF HasRecentlySigned, Number
<1>5. Number(h) = Number(snap.hash) + 1
  BY <1>1 DEF Number
<1>6. ApplyHeader(snap, h) = [hash |-> h, recents |-> r]
  BY <1>4, <1>5, Zenon DEF ApplyHeader
<1>7. \A b \in kept \cup {n} : b \in 1..n /\ b > n - Limit /\ r[b] = h[b].signer
  BY <1>1, <1>3 DEF Signer, Number
<1>8. DOMAIN r = kept \cup {n}
  BY Zenon DEF Number
<1> HIDE DEF kept, r
<1> DEFINE new == [hash |-> h, recents |-> r]
<1>9. new.hash = h /\ new.recents = r
  BY Zenon
<1>10. Faithful(new)
  BY <1>7, <1>8, <1>9, Zenon DEF Faithful, Number
<1>11. new \in Snapshots
  <2>1. n \in 0..MaxNumber /\ \A b \in 1..n : h[b].signer \in Signers
    BY HeaderFacts, SealFacts, Zenon
  <2>2. DOMAIN r \in SUBSET (1..MaxNumber)
    BY <1>1, <1>7, <1>8, <2>1, LimitFacts
  <2>3. r \in [DOMAIN r -> Signers]
    BY <1>7, <1>8, <2>1, Zenon DEF r
  <2> QED
    BY <2>2, <2>3, Zenon DEF Snapshots
<1> QED
  BY <1>6, <1>9, <1>10, <1>11, NoSnapAssumption, Zenon

LEMMA WaitsRecently ==
  ASSUME NEW snap \in Snapshots, Faithful(snap), NEW h \in Headers, h # Genesis,
         Parent(h) = snap.hash, Waits(h)
  PROVE  ~HasRecentlySigned(snap, Number(h), Signer(h))
<1> DEFINE n == Len(h)
<1>1. /\ n \in Nat /\ n >= 1 /\ Len(snap.hash) = n - 1 /\ Limit \in Nat
      /\ snap.hash = Upto(h, n - 1) /\ h \in Seq(Seals)
  BY ParentFacts, LimitFacts, HeaderFacts, Zenon DEF Parent
<1>2. \A b \in 1..(n - 1) : snap.hash[b] = h[b]
  <2>1. n - 1 \in 0..Len(h)
    BY <1>1
  <2> QED
    BY <1>1, <2>1, UptoFacts, Zenon
<1>3. ASSUME NEW b \in DOMAIN snap.recents, b + Limit > n PROVE snap.recents[b] # Signer(h)
  <2>1. b \in 1..(n - 1) /\ snap.recents[b] = h[b].signer
    BY <1>1, <1>2, Zenon DEF Faithful, Number
  <2>2. b \in 1..n /\ n \in 1..n /\ b < n /\ n < b + Limit
    BY <1>1, <1>3, <2>1
  <2> QED
    BY <2>1, <2>2, Zenon DEF Waits, Number, Signer
<1> QED
  BY <1>3, Zenon DEF HasRecentlySigned, Number

-----------------------------------------------------------------------------
(* The store *)

LEMMA StoreFacts ==
  ASSUME StoreInv
  PROVE  /\ Known \subseteq Headers /\ Genesis \in Known /\ head \in Known /\ head \in Headers
         /\ Len(head) \in Nat
         /\ DOMAIN numbers = 0..Len(head)
         /\ \A k \in 0..Len(head) : /\ numbers[k] = Upto(head, k) /\ numbers[k] \in Known
                                   /\ numbers[k] \in Headers /\ Len(numbers[k]) = k
<1>1. Known \subseteq Headers /\ Genesis \in Known /\ head \in Known
  BY Zenon DEF StoreInv, TypeOK
<1>2. head \in Seq(Seals) /\ Len(head) \in Nat /\ head \in Headers
  BY <1>1, HeaderFacts, Zenon
<1>3. DOMAIN numbers = 0..Len(head) /\ \A k \in 0..Len(head) : numbers[k] = Upto(head, k)
  BY Zenon DEF StoreInv, CanonicalIndex, Number
<1>4. \A k \in 0..Len(head) : Upto(head, k) \in Known /\ Len(Upto(head, k)) = k
  BY <1>1, <1>2, UptoFacts, Zenon DEF StoreInv, BranchesKnown, Number
<1> QED
  BY <1>1, <1>2, <1>3, <1>4, Zenon

LEMMA SameStore ==
  ASSUME StoreInv, UNCHANGED storeVars
  PROVE  StoreInv' /\ Known' = Known /\ head' = head /\ numbers' = numbers
  BY StoreInvNext, Zenon DEF storeVars, Known

LEMMA AddFacts ==
  ASSUME StoreInv, NEW h \in Headers, AddBlock(h)
  PROVE  /\ StoreInv' /\ Known' = Known \cup {h} /\ h \notin Known /\ h # Genesis
         /\ Parent(h) \in Known /\ head' \in {head, h}
         /\ Parent(h) = head => head' = h
<1>1. StoreInv' /\ Known' = Known \cup {h} /\ h \notin Known /\ h # Genesis /\ Parent(h) \in Known
  BY AddBlockInv, Zenon DEF AddBlock, Known
<1>2. head' = IF ChildTD(h) > td[head] THEN h ELSE head
  BY Zenon DEF AddBlock, SetHead
<1>3. ASSUME Parent(h) = head PROVE ChildTD(h) > td[head]
  <2>1. h[Len(h)] \in Seals
    BY <1>1, ParentFacts, Zenon
  <2>2. Difficulty[h[Len(h)]] \in {1, 2}
    BY <2>1, SealsAssumption, Zenon
  <2>3. td[head] \in Int
    BY Zenon DEF StoreInv, TypeOK
  <2> QED
    BY <1>3, <2>2, <2>3 DEF ChildTD
<1> QED
  BY <1>1, <1>2, <1>3, Zenon

\* No known block is built on the head.
LEMMA HeadIsTip ==
  ASSUME StoreInv, NEW h \in Known, h # Genesis
  PROVE  Parent(h) # head
<1> SUFFICES ASSUME Parent(h) = head PROVE FALSE
  BY Zenon
<1>1. h \in Headers /\ h[Len(h)] \in Seals
  BY StoreFacts, ParentFacts, Zenon
<1>2. Difficulty[h[Len(h)]] \in {1, 2}
  BY <1>1, SealsAssumption, Zenon
<1>3. td[head] \in Int /\ td[h] <= td[head] /\ td[h] = td[head] + Difficulty[h[Len(h)]]
  BY Zenon DEF StoreInv, TypeOK, HeaviestHead, ChildTD
<1> QED
  BY <1>2, <1>3

LEMMA AncestorKept ==
  ASSUME NEW x \in Headers, NEW h \in Headers, h # Genesis, IsAncestor(x, Parent(h))
  PROVE  IsAncestor(x, h)
<1>1. /\ Len(h) \in Nat /\ Len(Parent(h)) = Len(h) - 1 /\ Len(x) \in Nat
      /\ \A n \in 0..(Len(h) - 1) : Upto(Parent(h), n) = Upto(h, n)
  BY ParentFacts, HeaderFacts, Zenon
<1>2. Len(x) <= Len(Parent(h)) /\ Upto(Parent(h), Len(x)) = x
  BY Zenon DEF IsAncestor
<1>3. Len(x) \in 0..(Len(h) - 1) /\ Len(x) <= Len(h)
  BY <1>1, <1>2
<1> QED
  BY <1>1, <1>2, <1>3, Zenon DEF IsAncestor

-----------------------------------------------------------------------------
(* Types, and what a goroutine knows at each of its steps *)

GossipSteps ==
  {"Idle", "At", "Compute", "Base", "Checkpoint", "Cache", "Collect", "Add", "Clear",
   "Deliver", "Set", "Schedule"}

ProducerSteps == {"Off", "Armed", "Late", "Head", "Build", "Add", "Snap", "Next"}

\* A production between reading the head snapshot and setting its own.
Working == {"Head", "Build", "Add", "Snap"}

Handler == [at : GossipSteps, block : Headers, target : Headers, snap : Snapshots \cup {NoSnap}]

Producer == [at : ProducerSteps, snap : Snapshots \cup {NoSnap}, parent : Headers]

\* K is the set of known blocks.
SnapOK(s, K) == s \in Snapshots /\ s.hash \in K

CacheOK(C, K) ==
  \A e \in DOMAIN C : e % Epoch = 0 /\ SnapOK(C[e], K) /\ Number(C[e].hash) = e

HandlerOK(g, K) ==
  /\ g \in Handler /\ g.target \in K
  /\ g.at \in {"Cache", "Collect", "Add", "Set"} => SnapOK(g.snap, K)
  /\ g.at \notin {"Idle", "Schedule"} =>
       g.block # Genesis /\ Waits(g.block) /\ Signer(g.block) # Me
  /\ g.at = "At" => g.target # g.block
  /\ g.at = "Set" => g.target = g.block
  /\ g.at \in {"Clear", "Deliver"} => g.block \in K
  /\ g.at = "Cache" => Number(g.snap.hash) = (Number(g.target) \div Epoch) * Epoch

ProducerOK(q, K) ==
  /\ q \in Producer
  /\ q.at \in Working => SnapOK(q.snap, K)
  /\ q.at \in {"Build", "Add", "Snap"} =>
       /\ q.parent \in K /\ Number(q.parent) < MaxNumber
       /\ ~HasRecentlySigned(q.snap, Number(q.parent) + 1, Me)
  /\ q.at = "Snap" => Sealed(q.parent, Me) \in K

NodeOK ==
  /\ StoreInv
  /\ SnapOK(headSnap, Known) /\ CacheOK(epochSnaps, Known)
  /\ HandlerOK(gossip, Known)
  /\ producers \in [Producers -> Producer] /\ \A p \in Producers : ProducerOK(producers[p], Known)
  /\ clean \in BOOLEAN /\ stalled \in BOOLEAN

\* Blocks stay known.
LEMMA KnownGrows ==
  ASSUME NEW K, NEW L, K \subseteq L
  PROVE  /\ \A s : SnapOK(s, K) => SnapOK(s, L)
         /\ \A C : CacheOK(C, K) => CacheOK(C, L)
         /\ \A g : HandlerOK(g, K) => HandlerOK(g, L)
         /\ \A q : ProducerOK(q, K) => ProducerOK(q, L)
<1>1. \A s : SnapOK(s, K) => SnapOK(s, L)
  BY Zenon DEF SnapOK
<1>2. \A C : CacheOK(C, K) => CacheOK(C, L)
  BY <1>1, Zenon DEF CacheOK
<1>3. \A g : HandlerOK(g, K) => HandlerOK(g, L)
  BY <1>1, Zenon DEF HandlerOK
<1>4. \A q : ProducerOK(q, K) => ProducerOK(q, L)
  BY <1>1, Zenon DEF ProducerOK
<1> QED
  BY <1>1, <1>2, <1>3, <1>4, Zenon

LEMMA OffFacts ==
  /\ Off \in Producer /\ Armed \in Producer /\ Late \in Producer
  /\ Off.at = "Off" /\ Armed.at = "Armed" /\ Late.at = "Late"
  /\ \A K : ProducerOK(Off, K) /\ ProducerOK(Armed, K) /\ ProducerOK(Late, K)
<1>1. /\ Off \in Producer /\ Armed \in Producer /\ Late \in Producer
      /\ Off.at = "Off" /\ Armed.at = "Armed" /\ Late.at = "Late"
  BY GenesisFacts, Zenon DEF Off, Armed, Late, Producer, ProducerSteps
<1> QED
  BY <1>1, Zenon DEF ProducerOK, Working

LEMMA IdleFacts ==
  ASSUME NEW K, Genesis \in K
  PROVE  HandlerOK(Idle, K) /\ Idle.at = "Idle"
<1>1. Idle \in Handler /\ Idle.at = "Idle" /\ Idle.target = Genesis
  BY GenesisFacts, Zenon DEF Idle, Handler, GossipSteps
<1> QED
  BY <1>1, Zenon DEF HandlerOK

\* After scheduleBlockProduction one goroutine has a timer, and no other one is
\* still before its last engine call.
LEMMA ScheduleFacts ==
  ASSUME NEW P \in [Producers -> Producer], Schedule(P)
  PROVE  /\ producers' \in [Producers -> Producer] /\ stalled' = FALSE
         /\ \E p \in Producers : producers'[p] = Armed
         /\ \A q \in Producers :
              \/ producers'[q] \in {Armed, Off, Late}
              \/ producers'[q] = P[q] /\ P[q].at \notin {"Armed", "Head", "Build"}
         /\ \A q \in Producers : P[q].at \in {"Add", "Snap", "Next"} => producers'[q] = P[q]
<1>1. PICK late \in SUBSET Pending(P), p \in Producers :
        Cancelled(P, late)[p] = Off /\ producers' = [Cancelled(P, late) EXCEPT ![p] = Armed]
  BY Zenon DEF Schedule
<1>2. \A q \in Producers :
        \/ Cancelled(P, late)[q] \in {Off, Late}
        \/ Cancelled(P, late)[q] = P[q] /\ P[q].at \notin {"Armed", "Head", "Build"}
  BY Zenon DEF Cancelled, Pending
<1>3. Cancelled(P, late) \in [Producers -> Producer]
  BY <1>2, OffFacts, Zenon DEF Cancelled
<1>4. ASSUME NEW q \in Producers, P[q].at \in {"Add", "Snap", "Next"}
      PROVE  producers'[q] = P[q]
  <2>1. Cancelled(P, late)[q] = P[q]
    BY <1>1, <1>4, Zenon DEF Cancelled, Pending
  <2>2. q # p
    BY <1>1, <1>4, <2>1, OffFacts, Zenon
  <2> QED
    BY <1>1, <1>3, <2>1, <2>2, Zenon
<1> QED
  BY <1>1, <1>2, <1>3, <1>4, OffFacts, Zenon DEF Schedule

LEMMA NodeFrame ==
  ASSUME NodeOK, StoreInv', Known \subseteq Known',
         headSnap' = headSnap \/ SnapOK(headSnap', Known'),
         epochSnaps' = epochSnaps \/ CacheOK(epochSnaps', Known'),
         gossip' = gossip \/ HandlerOK(gossip', Known'),
         \/ producers' = producers
         \/ producers' \in [Producers -> Producer] /\ \A p \in Producers : ProducerOK(producers'[p], Known'),
         clean' \in BOOLEAN, stalled' \in BOOLEAN
  PROVE  NodeOK'
<1>1. SnapOK(headSnap', Known') /\ CacheOK(epochSnaps', Known') /\ HandlerOK(gossip', Known')
  BY KnownGrows, Zenon DEF NodeOK
<1>2. producers' \in [Producers -> Producer] /\ \A p \in Producers : ProducerOK(producers'[p], Known')
  BY KnownGrows, Zenon DEF NodeOK
<1> QED
  BY <1>1, <1>2, Zenon DEF NodeOK

LEMMA SetHeadSnapshotFacts ==
  ASSUME NEW K, NEW snap, SnapOK(snap, K), CacheOK(epochSnaps, K), SetHeadSnapshot(snap)
  PROVE  /\ headSnap' = snap /\ CacheOK(epochSnaps', K)
         /\ \A e \in DOMAIN epochSnaps' :
              epochSnaps'[e] = snap \/ (e \in DOMAIN epochSnaps /\ epochSnaps'[e] = epochSnaps[e])
  BY Zenon DEF SetHeadSnapshot, CacheOK

LEMMA ScheduleOK ==
  ASSUME NEW P \in [Producers -> Producer], Schedule(P), NEW K,
         \A q \in Producers : ProducerOK(P[q], K)
  PROVE  /\ producers' \in [Producers -> Producer] /\ stalled' \in BOOLEAN
         /\ \A q \in Producers : ProducerOK(producers'[q], K)
<1>1. producers' \in [Producers -> Producer] /\ stalled' \in BOOLEAN
  BY ScheduleFacts, Zenon
<1>2. ASSUME NEW q \in Producers PROVE ProducerOK(producers'[q], K)
  <2>1. producers'[q] \in {Armed, Off, Late} \/ producers'[q] = P[q]
    BY ScheduleFacts, Zenon
  <2> QED
    BY <2>1, OffFacts, Zenon
<1> QED
  BY <1>1, <1>2, Zenon

\* What Computed leaves behind.
LEMMA ComputedFacts ==
  ASSUME NEW K, HandlerOK(gossip, K), Genesis \in K, gossip.at \in {"At", "Compute", "Collect"},
         NEW snap, snap = NoSnap \/ SnapOK(snap, K), Computed(snap)
  PROVE  /\ HandlerOK(gossip', K)
         /\ snap = NoSnap => gossip' = Idle
         /\ snap # NoSnap => /\ gossip'.snap = snap /\ gossip'.block = gossip.block
                             /\ gossip'.target = gossip.target
                             /\ gossip'.at = IF gossip.target = gossip.block THEN "Set" ELSE "Add"
<1>1. CASE snap = NoSnap
  BY <1>1, IdleFacts, Zenon DEF Computed
<1>2. CASE snap # NoSnap
  <2> DEFINE at == IF gossip.target = gossip.block THEN "Set" ELSE "Add"
  <2>1. gossip \in Handler /\ snap \in Snapshots /\ at \in {"Set", "Add"}
    BY <1>2, Zenon DEF HandlerOK, SnapOK
  <2>2. gossip' = [gossip EXCEPT !.snap = snap, !.at = at]
    BY <1>2, Zenon DEF Computed
  <2>3. /\ gossip'.snap = snap /\ gossip'.block = gossip.block /\ gossip'.target = gossip.target
        /\ gossip'.at = at /\ gossip' \in Handler
    <3> HIDE DEF at
    <3> QED
      BY <2>1, <2>2, Zenon DEF Handler, GossipSteps
  <2>4. HandlerOK(gossip', K)
    BY <1>2, <2>1, <2>3, Zenon DEF HandlerOK
  <2> QED
    BY <1>2, <2>3, <2>4, Zenon
<1> QED
  BY <1>1, <1>2, Zenon

\* A step of handleBlock that only changes its own state.
LEMMA HandlerMoves ==
  ASSUME NodeOK, \/ \E parent \in Known, s \in Signers \ {Me} : Receive(parent, s)
                 \/ ComputeSnapshotAt \/ ComputeSnapshot \/ FindBase \/ BuildCheckpoint
                 \/ CollectHeader
  PROVE  HandlerOK(gossip', Known)
<1> DEFINE g == gossip
           K == Known
<1>1. /\ g \in Handler /\ g.block \in Headers /\ g.target \in Headers /\ g.target \in K
      /\ K \subseteq Headers /\ Genesis \in K /\ HandlerOK(g, K)
  BY StoreFacts, Zenon DEF NodeOK, HandlerOK, Handler
<1>2. SnapOK(headSnap, K) /\ SnapOK(GenesisSnap, K)
  BY <1>1, GenesisSnapFacts, Zenon DEF NodeOK, SnapOK
<1>3. \A snap \in Snapshots : \A h \in K :
        ApplyHeader(snap, h) = NoSnap \/ SnapOK(ApplyHeader(snap, h), K)
  BY <1>1, ApplyType, Zenon DEF SnapOK
<1>4. ASSUME NEW parent \in Known, NEW s \in Signers \ {Me}, Receive(parent, s)
      PROVE  HandlerOK(gossip', K)
  <2> DEFINE h == Sealed(parent, s)
  <2>1. parent \in Headers /\ Len(parent) \in Nat
    BY <1>1, HeaderFacts, Zenon
  <2>2. Number(parent) < MaxNumber
    <3>1. Len(h) = Len(parent) + 1 /\ Len(h) <= MaxNumber
      BY <1>4, <2>1, HeaderFacts DEF Receive, Sealed, Number
    <3> HIDE DEF h
    <3> QED
      BY <2>1, <3>1, LimitFacts DEF Number
  <2>3. /\ h \in Headers /\ h # Genesis /\ Parent(h) = parent /\ Signer(h) = s
        /\ Waits(h) /\ gossip' = [at |-> "At", block |-> h, target |-> parent, snap |-> NoSnap]
    BY <1>4, <2>1, <2>2, SealedFacts, Zenon DEF Receive
  <2> HIDE DEF h
  <2>4. h # parent
    BY <2>3, ParentFacts, Zenon
  <2>5. gossip' \in Handler
    BY <2>1, <2>3, Zenon DEF Handler, GossipSteps
  <2> QED
    BY <2>3, <2>4, <2>5, Zenon DEF HandlerOK
<1>5. CASE ComputeSnapshotAt
  <2>1. CASE Computed(GenesisSnap) \/ Computed(headSnap)
    BY <1>1, <1>2, <1>5, <2>1, ComputedFacts, Zenon DEF ComputeSnapshotAt
  <2>2. CASE gossip' = [g EXCEPT !.at = "Compute"]
    <3>1. /\ gossip' \in Handler /\ gossip'.at = "Compute" /\ gossip'.block = g.block
          /\ gossip'.target = g.target
      BY <1>1, <2>2, Zenon DEF Handler, GossipSteps
    <3> QED
      BY <1>1, <1>5, <3>1, Zenon DEF HandlerOK, ComputeSnapshotAt
  <2> QED
    BY <1>5, <2>1, <2>2, Zenon DEF ComputeSnapshotAt
<1>6. CASE ComputeSnapshot
  <2>1. CASE Computed(ApplyHeader(headSnap, g.target))
    <3>1. ApplyHeader(headSnap, g.target) = NoSnap \/ SnapOK(ApplyHeader(headSnap, g.target), K)
      BY <1>1, <1>2, <1>3, Zenon DEF SnapOK
    <3> QED
      BY <1>1, <1>6, <2>1, <3>1, ComputedFacts, Zenon DEF ComputeSnapshot
  <2>2. CASE gossip' = [g EXCEPT !.at = "Base"]
    <3>1. /\ gossip' \in Handler /\ gossip'.at = "Base" /\ gossip'.block = g.block
          /\ gossip'.target = g.target
      BY <1>1, <2>2, Zenon DEF Handler, GossipSteps
    <3> QED
      BY <1>1, <1>6, <3>1, Zenon DEF HandlerOK, ComputeSnapshot
  <2> QED
    BY <1>6, <2>1, <2>2, Zenon DEF ComputeSnapshot
<1>7. CASE FindBase
  <2>1. ASSUME NEW snap, SnapOK(snap, K), gossip' = [g EXCEPT !.at = "Collect", !.snap = snap]
        PROVE  HandlerOK(gossip', K)
    <3>1. /\ gossip' \in Handler /\ gossip'.at = "Collect" /\ gossip'.block = g.block
          /\ gossip'.target = g.target /\ gossip'.snap = snap
      BY <1>1, <2>1, Zenon DEF Handler, GossipSteps, SnapOK
    <3> QED
      BY <1>1, <1>7, <2>1, <3>1, Zenon DEF HandlerOK, FindBase
  <2>2. CASE EpochStart \in DOMAIN epochSnaps
    BY <1>7, <2>1, <2>2, Zenon DEF FindBase, NodeOK, CacheOK
  <2>3. CASE EpochStart \notin DOMAIN epochSnaps /\ EpochStart = 0
    BY <1>2, <1>7, <2>1, <2>3, Zenon DEF FindBase
  <2>4. CASE EpochStart \notin DOMAIN epochSnaps /\ EpochStart # 0
    <3>1. gossip' = [g EXCEPT !.at = "Checkpoint"]
      BY <1>7, <2>4, Zenon DEF FindBase
    <3>2. /\ gossip' \in Handler /\ gossip'.at = "Checkpoint" /\ gossip'.block = g.block
          /\ gossip'.target = g.target
      BY <1>1, <3>1, Zenon DEF Handler, GossipSteps
    <3> QED
      BY <1>1, <1>7, <3>2, Zenon DEF HandlerOK, FindBase
  <2> QED
    BY <2>2, <2>3, <2>4, Zenon
<1>8. CASE BuildCheckpoint
  <2>1. CASE EpochStart \in DOMAIN numbers
    <3> DEFINE snap == NewCheckpointSnapshot(numbers[EpochStart])
    <3>1. numbers[EpochStart] \in K /\ Len(numbers[EpochStart]) = EpochStart
      BY <2>1, StoreFacts, Zenon DEF NodeOK
    <3>2. snap \in Snapshots /\ snap.hash = numbers[EpochStart]
      BY <1>1, <3>1, CheckpointFacts, Zenon
    <3>3. gossip' = [g EXCEPT !.at = "Cache", !.snap = snap]
      BY <1>8, <2>1, Zenon DEF BuildCheckpoint
    <3> HIDE DEF snap
    <3>4. /\ gossip' \in Handler /\ gossip'.at = "Cache" /\ gossip'.block = g.block
          /\ gossip'.target = g.target /\ gossip'.snap = snap
      BY <1>1, <3>2, <3>3, Zenon DEF Handler, GossipSteps
    <3> QED
      BY <1>1, <1>8, <3>1, <3>2, <3>4, Zenon DEF HandlerOK, BuildCheckpoint, SnapOK, EpochStart, Number
  <2>2. CASE EpochStart \notin DOMAIN numbers
    BY <1>1, <1>8, <2>2, IdleFacts, Zenon DEF BuildCheckpoint
  <2> QED
    BY <2>1, <2>2, Zenon
<1>9. CASE CollectHeader
  <2> DEFINE n == Number(g.snap.hash) + 1
             next == IF n \in DOMAIN numbers THEN ApplyHeader(g.snap, numbers[n]) ELSE NoSnap
  <2>1. g.at = "Collect" /\ SnapOK(g.snap, K)
    BY <1>1, <1>9, Zenon DEF CollectHeader, HandlerOK
  <2>2. CASE Computed(g.snap)
    BY <1>1, <2>1, <2>2, ComputedFacts, Zenon
  <2>3. CASE gossip' = Idle
    BY <1>1, <2>3, IdleFacts, Zenon
  <2>4. CASE next # NoSnap /\ gossip' = [g EXCEPT !.snap = next]
    <3>1. n \in DOMAIN numbers /\ next = ApplyHeader(g.snap, numbers[n])
      BY <2>4, Zenon
    <3>2. numbers[n] \in K
      BY <3>1, StoreFacts, Zenon DEF NodeOK
    <3>3. SnapOK(next, K)
      BY <1>3, <2>1, <2>4, <3>1, <3>2, Zenon DEF SnapOK
    <3> HIDE DEF next
    <3>4. /\ gossip' \in Handler /\ gossip'.at = g.at /\ gossip'.block = g.block
          /\ gossip'.target = g.target /\ gossip'.snap = next
      BY <1>1, <2>4, <3>3, Zenon DEF Handler, SnapOK
    <3> QED
      BY <1>1, <2>1, <3>3, <3>4, Zenon DEF HandlerOK
  <2> QED
    BY <1>9, <2>2, <2>3, <2>4, Zenon DEF CollectHeader
<1> QED
  BY <1>4, <1>5, <1>6, <1>7, <1>8, <1>9, Zenon

LEMMA NodeOKInit == NodeInit => NodeOK
<1> SUFFICES ASSUME NodeInit PROVE NodeOK
  BY Zenon
<1>1. StoreInv /\ Genesis \in Known
  BY StoreInvInit, StoreFacts, Zenon DEF NodeInit
<1>2. SnapOK(headSnap, Known) /\ CacheOK(epochSnaps, Known) /\ HandlerOK(gossip, Known)
  BY <1>1, GenesisSnapFacts, IdleFacts, Zenon DEF NodeInit, SnapOK, CacheOK
<1>3. producers \in [Producers -> Producer] /\ \A p \in Producers : ProducerOK(producers[p], Known)
  BY OffFacts, Zenon DEF NodeInit
<1> QED
  BY <1>1, <1>2, <1>3, Zenon DEF NodeInit, NodeOK

LEMMA HandleBlockOK ==
  ASSUME NodeOK, HandleBlock
  PROVE  NodeOK'
<1>1. /\ StoreInv /\ Known \subseteq Headers /\ Genesis \in Known
      /\ gossip \in Handler /\ gossip.block \in Headers /\ HandlerOK(gossip, Known)
      /\ clean \in BOOLEAN /\ stalled \in BOOLEAN
  BY StoreFacts, Zenon DEF NodeOK, HandlerOK, Handler
<1>2. CASE \/ \E parent \in Known, s \in Signers \ {Me} : Receive(parent, s)
           \/ ComputeSnapshotAt \/ ComputeSnapshot \/ FindBase \/ BuildCheckpoint \/ CollectHeader
  <2>1. HandlerOK(gossip', Known)
    BY <1>2, HandlerMoves, Zenon
  <2>2. UNCHANGED <<storeVars, headSnap, epochSnaps, producers, clean, stalled>>
    BY <1>2, Zenon DEF Receive, ComputeSnapshotAt, ComputeSnapshot, FindBase, BuildCheckpoint, CollectHeader
  <2> QED
    BY <1>1, <2>1, <2>2, SameStore, NodeFrame, Zenon
<1>3. CASE CacheCheckpoint
  <2>1. /\ gossip.at = "Cache" /\ SnapOK(gossip.snap, Known) /\ Number(gossip.snap.hash) = EpochStart
        /\ gossip.target \in Headers
    BY <1>1, <1>3, Zenon DEF CacheCheckpoint, HandlerOK, EpochStart, Handler
  <2>2. EpochStart % Epoch = 0
    <3>1. Number(gossip.target) \in Nat /\ Epoch # 0
      BY <2>1, HeaderFacts, LimitFacts DEF Number
    <3>2. Number(gossip.target) \div Epoch \in Nat
      BY <3>1, EpochNumbers, Zenon
    <3> QED
      BY <3>2, EpochMultiple, Zenon DEF EpochStart
  <2>3. CacheOK(epochSnaps', Known)
    BY <1>3, <2>1, <2>2, Zenon DEF CacheCheckpoint, CacheOK, NodeOK
  <2>4. HandlerOK(gossip', Known)
    <3>1. /\ gossip' \in Handler /\ gossip'.at = "Collect" /\ gossip'.block = gossip.block
          /\ gossip'.target = gossip.target /\ gossip'.snap = gossip.snap
      BY <1>1, <1>3, Zenon DEF CacheCheckpoint, Handler, GossipSteps
    <3> QED
      BY <1>1, <2>1, <3>1, Zenon DEF HandlerOK
  <2>5. UNCHANGED <<storeVars, headSnap, producers, clean, stalled>>
    BY <1>3, Zenon DEF CacheCheckpoint
  <2> QED
    BY <1>1, <2>3, <2>4, <2>5, SameStore, NodeFrame, Zenon
<1>4. CASE DropBlock
  <2>1. UNCHANGED storeVars \/ AddBlock(gossip.block)
    BY <1>4, Zenon DEF DropBlock
  <2>2. StoreInv' /\ Known \subseteq Known'
    BY <1>1, <2>1, SameStore, AddFacts, Zenon
  <2>3. Genesis \in Known'
    BY <1>1, <2>2, Zenon
  <2>4. HandlerOK(gossip', Known') /\ UNCHANGED <<headSnap, epochSnaps, producers, clean, stalled>>
    BY <1>4, <2>3, IdleFacts, Zenon DEF DropBlock
  <2> QED
    BY <1>1, <2>2, <2>4, NodeFrame, Zenon
<1>5. CASE ImportBlock
  <2>1. AddBlock(gossip.block) /\ gossip.at = "Add"
    BY <1>5, Zenon DEF ImportBlock
  <2>2. StoreInv' /\ Known' = Known \cup {gossip.block} /\ gossip.block # Genesis
    BY <1>1, <2>1, AddFacts, Zenon
  <2>3. /\ gossip' \in Handler /\ gossip'.at \in {"Deliver", "Clear"} /\ gossip'.block = gossip.block
        /\ gossip'.target = Genesis
    BY <1>1, <1>5, GenesisFacts, Zenon DEF ImportBlock, Idle, Handler, GossipSteps
  <2>4. HandlerOK(gossip', Known')
    BY <1>1, <2>1, <2>2, <2>3, Zenon DEF HandlerOK
  <2>5. UNCHANGED <<headSnap, epochSnaps, producers, clean, stalled>>
    BY <1>5, Zenon DEF ImportBlock
  <2>6. Known \subseteq Known'
    BY <2>2, Zenon
  <2> QED
    BY <1>1, <2>2, <2>4, <2>5, <2>6, NodeFrame, Zenon
<1>6. CASE ClearCache
  <2>1. /\ gossip' \in Handler /\ gossip'.at = "Deliver" /\ gossip'.block = gossip.block
        /\ gossip'.target = gossip.target /\ gossip.at = "Clear"
    BY <1>1, <1>6, Zenon DEF ClearCache, Handler, GossipSteps
  <2>2. HandlerOK(gossip', Known)
    BY <1>1, <2>1, Zenon DEF HandlerOK
  <2>3. CacheOK(epochSnaps', Known) /\ UNCHANGED <<storeVars, headSnap, producers, clean, stalled>>
    BY <1>6, Zenon DEF ClearCache, CacheOK
  <2> QED
    BY <1>1, <2>2, <2>3, SameStore, NodeFrame, Zenon
<1>7. CASE Deliver
  <2>1. HandlerOK(gossip', Known)
    <3>1. CASE gossip' = Idle
      BY <1>1, <3>1, IdleFacts, Zenon
    <3>2. CASE gossip' = [gossip EXCEPT !.at = "Compute", !.target = gossip.block]
      <4>1. /\ gossip' \in Handler /\ gossip'.at = "Compute" /\ gossip'.block = gossip.block
            /\ gossip'.target = gossip.block /\ gossip.at = "Deliver"
        BY <1>1, <1>7, <3>2, Zenon DEF Deliver, Handler, GossipSteps
      <4> QED
        BY <1>1, <4>1, Zenon DEF HandlerOK
    <3> QED
      BY <1>7, <3>1, <3>2, Zenon DEF Deliver
  <2>2. UNCHANGED <<storeVars, headSnap, epochSnaps, producers, stalled>> /\ clean' \in BOOLEAN
    BY <1>1, <1>7, Zenon DEF Deliver
  <2> QED
    BY <1>1, <2>1, <2>2, SameStore, NodeFrame, Zenon
<1>8. CASE AdvanceSnapshot
  <2>1. gossip.at = "Set" /\ SnapOK(gossip.snap, Known) /\ SetHeadSnapshot(gossip.snap)
    BY <1>1, <1>8, Zenon DEF AdvanceSnapshot, HandlerOK
  <2>2. headSnap' = gossip.snap /\ CacheOK(epochSnaps', Known)
    BY <2>1, SetHeadSnapshotFacts, Zenon DEF NodeOK
  <2>3. gossip' \in Handler /\ gossip'.at = "Schedule" /\ gossip'.target = Genesis
    BY <1>8, GenesisFacts, Zenon DEF AdvanceSnapshot, Idle, Handler, GossipSteps
  <2>4. HandlerOK(gossip', Known)
    BY <1>1, <2>3, Zenon DEF HandlerOK
  <2>5. UNCHANGED <<storeVars, producers, stalled>>
    BY <1>8, Zenon DEF AdvanceSnapshot
  <2>6. clean' \in BOOLEAN
    BY <1>8, Zenon DEF AdvanceSnapshot
  <2> QED
    BY <1>1, <2>1, <2>2, <2>4, <2>5, <2>6, SameStore, NodeFrame, Zenon
<1>9. CASE Reschedule
  <2>1. HandlerOK(gossip', Known) /\ UNCHANGED <<storeVars, headSnap, epochSnaps, clean>>
    BY <1>1, <1>9, IdleFacts, Zenon DEF Reschedule
  <2>2. /\ producers' \in [Producers -> Producer] /\ stalled' \in BOOLEAN
        /\ \A q \in Producers : ProducerOK(producers'[q], Known)
    BY <1>9, ScheduleOK, Zenon DEF Reschedule, NodeOK
  <2> QED
    BY <1>1, <2>1, <2>2, SameStore, NodeFrame, Zenon
<1> QED
  BY <1>2, <1>3, <1>4, <1>5, <1>6, <1>7, <1>8, <1>9, Zenon DEF HandleBlock

LEMMA ProduceBlockOK ==
  ASSUME NodeOK, NEW p \in Producers, ProduceBlock(p)
  PROVE  NodeOK'
<1> DEFINE q == producers[p]
<1>1. /\ StoreInv /\ Known \subseteq Headers /\ Genesis \in Known /\ head \in Known /\ head \in Headers
      /\ q \in Producer /\ ProducerOK(q, Known) /\ producers \in [Producers -> Producer]
      /\ \A r \in Producers : ProducerOK(producers[r], Known)
      /\ clean \in BOOLEAN /\ stalled \in BOOLEAN
  BY StoreFacts, Zenon DEF NodeOK
<1>2. ASSUME NEW r, ProducerOK(r, Known), producers' = [producers EXCEPT ![p] = r]
      PROVE  producers' \in [Producers -> Producer] /\ \A x \in Producers : ProducerOK(producers'[x], Known)
  <2>1. r \in Producer
    BY <1>2, Zenon DEF ProducerOK
  <2> QED
    BY <1>1, <1>2, <2>1, Zenon
<1>3. ASSUME Schedule([producers EXCEPT ![p] = Off]) \/ Schedule(producers)
      PROVE  /\ producers' \in [Producers -> Producer] /\ stalled' \in BOOLEAN
             /\ \A x \in Producers : ProducerOK(producers'[x], Known)
  <2>1. /\ [producers EXCEPT ![p] = Off] \in [Producers -> Producer]
        /\ \A x \in Producers : ProducerOK([producers EXCEPT ![p] = Off][x], Known)
    BY <1>1, OffFacts, Zenon
  <2>2. CASE Schedule(producers)
    BY <1>1, <2>2, ScheduleOK, Zenon
  <2>3. CASE Schedule([producers EXCEPT ![p] = Off])
    BY <2>1, <2>3, ScheduleOK, Zenon
  <2> QED
    BY <1>3, <2>2, <2>3, Zenon
<1>4. CASE ReadSnapshot(p)
  <2> DEFINE r == [q EXCEPT !.at = "Head", !.snap = headSnap]
  <2>1. SnapOK(headSnap, Known) /\ headSnap \in Snapshots
    BY Zenon DEF NodeOK, SnapOK
  <2>2. r \in Producer /\ r.at = "Head" /\ r.snap = headSnap
    BY <1>1, <2>1, Zenon DEF Producer, ProducerSteps
  <2>3. producers' = [producers EXCEPT ![p] = r]
    BY <1>1, <1>4, Zenon DEF ReadSnapshot
  <2> HIDE DEF r
  <2>4. ProducerOK(r, Known)
    BY <2>1, <2>2, Zenon DEF ProducerOK
  <2>5. UNCHANGED <<storeVars, headSnap, epochSnaps, gossip, clean, stalled>>
    BY <1>4, Zenon DEF ReadSnapshot
  <2> QED
    BY <1>1, <1>2, <2>3, <2>4, <2>5, SameStore, NodeFrame, Zenon
<1>5. CASE ReadHead(p)
  <2>1. /\ producers' \in [Producers -> Producer] /\ stalled' \in BOOLEAN
        /\ \A x \in Producers : ProducerOK(producers'[x], Known)
    <3>1. CASE producers' = [producers EXCEPT ![p] = Off] /\ UNCHANGED stalled
      BY <1>1, <1>2, <3>1, OffFacts, Zenon
    <3>2. CASE Schedule(producers)
      BY <1>3, <3>2, Zenon
    <3>3. CASE /\ ~HasRecentlySigned(q.snap, Number(head) + 1, Me) /\ Number(head) < MaxNumber
               /\ producers' = [producers EXCEPT ![p].at = "Build", ![p].parent = head]
               /\ UNCHANGED stalled
      <4> DEFINE r == [q EXCEPT !.at = "Build", !.parent = head]
      <4>1. r \in Producer /\ r.at = "Build" /\ r.snap = q.snap /\ r.parent = head
        BY <1>1, Zenon DEF Producer, ProducerSteps
      <4>2. producers' = [producers EXCEPT ![p] = r]
        BY <1>1, <3>3, Zenon
      <4>3. q.at \in Working
        BY <1>5, Zenon DEF ReadHead, Working
      <4> HIDE DEF r
      <4>4. ProducerOK(r, Known)
        BY <1>1, <3>3, <4>1, <4>3, Zenon DEF ProducerOK
      <4> QED
        BY <1>1, <1>2, <3>3, <4>2, <4>4, Zenon
    <3> QED
      BY <1>5, <3>1, <3>2, <3>3, Zenon DEF ReadHead
  <2>2. UNCHANGED <<storeVars, headSnap, epochSnaps, gossip, clean>>
    BY <1>5, Zenon DEF ReadHead
  <2> QED
    BY <1>1, <2>1, <2>2, SameStore, NodeFrame, Zenon
<1>6. CASE Build(p)
  <2>1. /\ producers' \in [Producers -> Producer] /\ stalled' \in BOOLEAN
        /\ \A x \in Producers : ProducerOK(producers'[x], Known)
    <3>1. CASE producers' = [producers EXCEPT ![p] = Off] /\ stalled' = TRUE
      BY <1>1, <1>2, <3>1, OffFacts, Zenon
    <3>2. CASE Schedule(producers)
      BY <1>3, <3>2, Zenon
    <3>3. CASE producers' = [producers EXCEPT ![p].at = "Add"] /\ UNCHANGED stalled
      <4> DEFINE r == [q EXCEPT !.at = "Add"]
      <4>1. r \in Producer /\ r.at = "Add" /\ r.snap = q.snap /\ r.parent = q.parent
        BY <1>1, Zenon DEF Producer, ProducerSteps
      <4>2. producers' = [producers EXCEPT ![p] = r]
        BY <1>1, <3>3, Zenon
      <4>3. q.at = "Build"
        BY <1>6, Zenon DEF Build
      <4> HIDE DEF r
      <4>4. ProducerOK(r, Known)
        BY <1>1, <4>1, <4>3, Zenon DEF ProducerOK, Working
      <4> QED
        BY <1>1, <1>2, <3>3, <4>2, <4>4, Zenon
    <3> QED
      BY <1>6, <3>1, <3>2, <3>3, Zenon DEF Build
  <2>2. UNCHANGED <<storeVars, headSnap, epochSnaps, gossip, clean>>
    BY <1>6, Zenon DEF Build
  <2> QED
    BY <1>1, <2>1, <2>2, SameStore, NodeFrame, Zenon
<1>7. CASE AddOwn(p)
  <2> DEFINE h == Sealed(q.parent, Me)
             r == [q EXCEPT !.at = "Snap"]
  <2>1. q.at = "Add" /\ q.parent \in Known /\ q.parent \in Headers /\ Number(q.parent) < MaxNumber
    BY <1>1, <1>7, Zenon DEF AddOwn, ProducerOK
  <2>2. h \in Headers
    BY <2>1, SealedFacts, SealsAssumption, Zenon
  <2>3. AddBlock(h) \/ (h \in Known /\ UNCHANGED storeVars)
    BY <1>7, Zenon DEF AddOwn, OwnBlock
  <2> HIDE DEF h
  <2>4. StoreInv' /\ Known \subseteq Known' /\ h \in Known'
    BY <1>1, <2>2, <2>3, SameStore, AddFacts, Zenon
  <2>5. r \in Producer /\ r.at = "Snap" /\ r.snap = q.snap /\ r.parent = q.parent
    BY <1>1, Zenon DEF Producer, ProducerSteps
  <2>6. producers' = [producers EXCEPT ![p] = r]
    BY <1>1, <1>7, Zenon DEF AddOwn
  <2> HIDE DEF r
  <2>7. \A x \in Producers : ProducerOK(producers[x], Known')
    BY <1>1, <2>4, KnownGrows, Zenon
  <2>8. ProducerOK(r, Known')
    BY <2>1, <2>4, <2>5, <2>7, Zenon DEF ProducerOK, Working, h
  <2>9. producers' \in [Producers -> Producer] /\ \A x \in Producers : ProducerOK(producers'[x], Known')
    BY <1>1, <2>5, <2>6, <2>7, <2>8, Zenon
  <2>10. UNCHANGED <<headSnap, epochSnaps, gossip, stalled>> /\ clean' \in BOOLEAN
    BY <1>1, <1>7, Zenon DEF AddOwn
  <2> QED
    BY <1>1, <2>4, <2>9, <2>10, NodeFrame, Zenon
<1>8. CASE AdvanceOwn(p)
  <2> DEFINE h == Sealed(q.parent, Me)
             r == [Off EXCEPT !.at = "Next"]
             snap == ApplyHeader(q.snap, h)
  <2>1. q.at = "Snap" /\ h \in Known /\ h \in Headers /\ q.snap \in Snapshots
    BY <1>1, <1>8, Zenon DEF AdvanceOwn, ProducerOK, SnapOK, Working
  <2>2. r \in Producer /\ r.at = "Next"
    BY OffFacts, Zenon DEF Producer, ProducerSteps
  <2>3. producers' = [producers EXCEPT ![p] = r]
    BY <1>8, Zenon DEF AdvanceOwn
  <2> HIDE DEF r, h
  <2>4. ProducerOK(r, Known)
    BY <2>2, Zenon DEF ProducerOK, Working
  <2>5. snap # NoSnap => SnapOK(snap, Known)
    BY <2>1, ApplyType, Zenon DEF SnapOK
  <2>6. IF snap = NoSnap THEN UNCHANGED <<headSnap, epochSnaps>> ELSE SetHeadSnapshot(snap)
    BY <1>8, Zenon DEF AdvanceOwn, OwnBlock, h
  <2> HIDE DEF snap
  <2>7. \/ headSnap' = headSnap /\ epochSnaps' = epochSnaps
        \/ SnapOK(headSnap', Known) /\ CacheOK(epochSnaps', Known)
    BY <2>5, <2>6, SetHeadSnapshotFacts, Zenon DEF NodeOK
  <2>8. UNCHANGED <<storeVars, gossip, stalled>> /\ clean' \in BOOLEAN
    BY <1>1, <1>8, Zenon DEF AdvanceOwn
  <2> QED
    BY <1>1, <1>2, <2>3, <2>4, <2>7, <2>8, SameStore, NodeFrame, Zenon
<1>9. CASE ScheduleNext(p) \/ LateSchedule(p)
  <2>1. UNCHANGED <<storeVars, headSnap, epochSnaps, gossip, clean>>
    BY <1>9, Zenon DEF ScheduleNext, LateSchedule
  <2>2. Schedule([producers EXCEPT ![p] = Off])
    BY <1>9, Zenon DEF ScheduleNext, LateSchedule
  <2> QED
    BY <1>1, <1>3, <2>1, <2>2, SameStore, NodeFrame, Zenon
<1> QED
  BY <1>4, <1>5, <1>6, <1>7, <1>8, <1>9, Zenon DEF ProduceBlock

LEMMA NodeOKNext == NodeOK /\ [NodeNext]_nodeVars => NodeOK'
<1> SUFFICES ASSUME NodeOK, [NodeNext]_nodeVars PROVE NodeOK'
  BY Zenon
<1>1. CASE UNCHANGED nodeVars
  BY <1>1, SameStore, NodeFrame, Zenon DEF nodeVars, NodeOK
<1> QED
  BY <1>1, HandleBlockOK, ProduceBlockOK, Zenon DEF NodeNext

LEMMA NodeOKHolds == NodeSpec => []NodeOK
  BY NodeOKInit, NodeOKNext, PTL DEF NodeSpec

\* Every snapshot in the node is one, the cache has entries at epoch boundaries
\* only, and each goroutine is at a step of handleBlock or produceBlock.
THEOREM NodeTypeCorrect == NodeSpec => []NodeTypeOK
<1>1. NodeOK => NodeTypeOK
  BY Zenon DEF NodeOK, NodeTypeOK, SnapOK, CacheOK, HandlerOK, Handler, GossipSteps, Producer, ProducerSteps
<1> QED
  BY <1>1, NodeOKHolds, PTL

-----------------------------------------------------------------------------
(* Clean histories *)

\* handleBlock is between making a block the head and setting its snapshot.
Flying(g) ==
  \/ g.at \in {"Clear", "Deliver"}
  \/ /\ g.at \in {"Compute", "Base", "Checkpoint", "Cache", "Collect", "Set"}
     /\ g.target = g.block

\* h is the head.
CleanCache(C, h) == \A e \in DOMAIN C : IsAncestor(C[e].hash, h) /\ Faithful(C[e])

CleanProducer(q) ==
  /\ q.at \in Working => Faithful(q.snap)
  /\ q.at = "Snap" => q.snap.hash = q.parent

CleanHandler(g, h) ==
  /\ g.at = "Cache" => IsAncestor(g.snap.hash, h) /\ Faithful(g.snap)
  /\ Flying(g) =>
       /\ g.block = h
       /\ g.at \in {"Cache", "Collect", "Set"} => IsAncestor(g.snap.hash, h) /\ Faithful(g.snap)
       /\ g.at = "Set" => g.snap.hash = h

\* While handleBlock has not set the snapshot of the head, nobody has it, so an
\* own block that is added meanwhile ends the clean history.
NobodyHas(h) ==
  /\ headSnap.hash # h
  /\ \A p \in Producers : producers[p].at \in Working => producers[p].snap.hash # h

CleanInv ==
  /\ Faithful(headSnap)
  /\ gossip.at # "Clear" => CleanCache(epochSnaps, head)
  /\ \A p \in Producers : CleanProducer(producers[p])
  /\ CleanHandler(gossip, head)
  /\ Flying(gossip) => NobodyHas(head)
  /\ (~Flying(gossip) /\ \A p \in Producers : producers[p].at # "Snap") => headSnap.hash = head

LEMMA SettledFacts ==
  ASSUME NodeOK
  PROVE  Settled <=> (~Flying(gossip) /\ \A p \in Producers : producers[p].at # "Snap")
<1>1. gossip.at \in GossipSteps
  BY Zenon DEF NodeOK, HandlerOK, Handler
<1> QED
  BY <1>1, Zenon DEF Settled, Flying, GossipSteps

LEMMA AncestorSelf ==
  ASSUME NEW h \in Headers
  PROVE  IsAncestor(h, h) /\ IsAncestor(Genesis, h)
         /\ \A k \in 0..Len(h) : IsAncestor(Upto(h, k), h)
<1>1. h \in Seq(Seals) /\ Len(h) \in Nat
  BY HeaderFacts, Zenon
<1>2. IsAncestor(h, h) /\ IsAncestor(Genesis, h)
  BY <1>1, UptoAll, GenesisFacts DEF IsAncestor
<1>3. ASSUME NEW k \in 0..Len(h) PROVE IsAncestor(Upto(h, k), h)
  BY <1>1, UptoFacts DEF IsAncestor
<1> QED
  BY <1>2, <1>3, Zenon

\* Steps of handleBlock before the cache is used: nothing is known yet.
LEMMA StartClean ==
  ASSUME NodeOK, CleanInv,
         (\E parent \in Known, s \in Signers \ {Me} : Receive(parent, s)) \/ ComputeSnapshotAt
  PROVE  /\ CleanHandler(gossip', head) /\ gossip.at # "Clear" /\ gossip'.at # "Clear"
         /\ Flying(gossip') <=> Flying(gossip)
<1>1. gossip \in Handler /\ HandlerOK(gossip, Known) /\ Genesis \in Known
  BY StoreFacts, Zenon DEF NodeOK, HandlerOK
<1>2. CASE \E parent \in Known, s \in Signers \ {Me} : Receive(parent, s)
  <2>1. gossip = Idle /\ gossip'.at = "At"
    BY <1>2 DEF Receive
  <2>2. gossip.at = "Idle"
    BY <1>1, <2>1, IdleFacts, Zenon
  <2> QED
    BY <2>1, <2>2, Zenon DEF Flying, CleanHandler
<1>3. CASE ComputeSnapshotAt
  <2>1. gossip.at = "At" /\ gossip.target # gossip.block
    BY <1>1, <1>3, Zenon DEF ComputeSnapshotAt, HandlerOK
  <2>2. CASE Computed(GenesisSnap) \/ Computed(headSnap)
    <3>1. gossip'.at \in {"Idle", "Add"}
      <4>1. SnapOK(GenesisSnap, Known) /\ SnapOK(headSnap, Known)
        BY <1>1, GenesisSnapFacts, Zenon DEF NodeOK, SnapOK
      <4> QED
        BY <1>1, <2>1, <2>2, <4>1, ComputedFacts, IdleFacts, Zenon
    <3> QED
      BY <2>1, <3>1, Zenon DEF Flying, CleanHandler
  <2>3. CASE gossip' = [gossip EXCEPT !.at = "Compute"]
    <3>1. gossip'.at = "Compute" /\ gossip'.target # gossip'.block
      BY <1>1, <2>1, <2>3, Zenon DEF Handler
    <3> QED
      BY <2>1, <3>1, Zenon DEF Flying, CleanHandler
  <2> QED
    BY <1>3, <2>2, <2>3, Zenon DEF ComputeSnapshotAt
<1> QED
  BY <1>2, <1>3, Zenon

\* computeSnapshot for a block that is not the head: the result only serves to
\* verify the next block.
LEMMA SideClean ==
  ASSUME NodeOK, CleanInv, gossip.target # gossip.block,
         ComputeSnapshot \/ FindBase \/ BuildCheckpoint \/ CollectHeader
  PROVE  /\ CleanHandler(gossip', head) /\ gossip.at # "Clear" /\ gossip'.at # "Clear"
         /\ ~Flying(gossip') /\ ~Flying(gossip)
<1>1. /\ gossip \in Handler /\ HandlerOK(gossip, Known) /\ HandlerOK(gossip', Known)
      /\ Genesis \in Known /\ SnapOK(headSnap, Known) /\ gossip.target \in Known
  BY StoreFacts, HandlerMoves, Zenon DEF NodeOK, HandlerOK
<1>2. gossip.at \in {"Compute", "Base", "Checkpoint", "Collect"}
  BY Zenon DEF ComputeSnapshot, FindBase, BuildCheckpoint, CollectHeader
<1>3. \/ gossip'.at \in {"Idle", "Add"}
      \/ /\ gossip'.at \in {"Base", "Collect", "Checkpoint"}
         /\ gossip'.target # gossip'.block
      \/ /\ gossip'.at = "Cache" /\ gossip'.target # gossip'.block
         /\ IsAncestor(gossip'.snap.hash, head) /\ Faithful(gossip'.snap)
  <2>1. ASSUME NEW snap, Computed(snap), gossip.at \in {"Compute", "Collect"}
        PROVE  gossip'.at \in {"Idle", "Add"}
    <3>1. CASE snap = NoSnap
      BY <1>1, <2>1, <3>1, IdleFacts, Zenon DEF Computed
    <3>2. CASE snap # NoSnap
      <4>1. gossip' = [gossip EXCEPT !.snap = snap, !.at = "Add"]
        BY <2>1, <3>2, Zenon DEF Computed
      <4> QED
        BY <1>1, <4>1, Zenon DEF Handler
    <3> QED
      BY <3>1, <3>2, Zenon
  <2>2. CASE ComputeSnapshot
    <3>1. CASE Computed(ApplyHeader(headSnap, gossip.target))
      BY <2>1, <2>2, <3>1, Zenon DEF ComputeSnapshot
    <3>2. CASE gossip' = [gossip EXCEPT !.at = "Base"]
      BY <1>1, <3>2, Zenon DEF Handler
    <3> QED
      BY <2>2, <3>1, <3>2, Zenon DEF ComputeSnapshot
  <2>3. CASE FindBase
    BY <1>1, <2>3, Zenon DEF FindBase, Handler
  <2>4. CASE BuildCheckpoint
    <3>1. CASE EpochStart \in DOMAIN numbers
      <4> DEFINE snap == NewCheckpointSnapshot(numbers[EpochStart])
      <4>1. numbers[EpochStart] \in Headers /\ IsAncestor(numbers[EpochStart], head)
        BY <3>1, StoreFacts, AncestorSelf DEF NodeOK
      <4>2. snap.hash = numbers[EpochStart] /\ Faithful(snap)
        BY <4>1, CheckpointFacts, Zenon
      <4>3. gossip' = [gossip EXCEPT !.at = "Cache", !.snap = snap]
        BY <2>4, <3>1, Zenon DEF BuildCheckpoint
      <4> HIDE DEF snap
      <4>4. gossip'.at = "Cache" /\ gossip'.target # gossip'.block /\ gossip'.snap = snap
        BY <1>1, <4>3, Zenon DEF Handler
      <4> QED
        BY <4>1, <4>2, <4>4, Zenon
    <3>2. CASE EpochStart \notin DOMAIN numbers
      BY <1>1, <2>4, <3>2, IdleFacts, Zenon DEF BuildCheckpoint
    <3> QED
      BY <3>1, <3>2, Zenon
  <2>5. CASE CollectHeader
    <3>1. CASE Computed(gossip.snap)
      BY <2>1, <2>5, <3>1, Zenon DEF CollectHeader
    <3>2. CASE gossip' = Idle
      BY <1>1, <3>2, IdleFacts, Zenon
    <3>3. ASSUME NEW snap, gossip' = [gossip EXCEPT !.snap = snap]
          PROVE  gossip'.at = "Collect" /\ gossip'.target # gossip'.block
      BY <1>1, <2>5, <3>3, Zenon DEF Handler, CollectHeader
    <3> QED
      BY <2>5, <3>1, <3>2, <3>3, Zenon DEF CollectHeader
  <2> QED
    BY <2>2, <2>3, <2>4, <2>5, Zenon
<1>4. ~Flying(gossip') /\ gossip'.at # "Clear"
  BY <1>3, Zenon DEF Flying
<1>5. CleanHandler(gossip', head)
  BY <1>3, <1>4, Zenon DEF CleanHandler
<1>6. gossip.at # "Clear" /\ ~Flying(gossip)
  BY <1>2, Zenon DEF Flying
<1> QED
  BY <1>4, <1>5, <1>6, Zenon

\* computeSnapshot for the new head: its branch is the canonical one and keeps
\* the waiting rule, so that every header applies.
LEMMA FlyingClean ==
  ASSUME NodeOK, CleanInv, gossip.target = gossip.block,
         ComputeSnapshot \/ FindBase \/ BuildCheckpoint \/ CollectHeader
  PROVE  /\ CleanHandler(gossip', head) /\ gossip.at # "Clear" /\ gossip'.at # "Clear"
         /\ Flying(gossip') /\ Flying(gossip)
<1>1. /\ gossip \in Handler /\ HandlerOK(gossip, Known) /\ HandlerOK(gossip', Known)
      /\ Genesis \in Known /\ SnapOK(headSnap, Known) /\ gossip.target \in Known
  BY StoreFacts, HandlerMoves, Zenon DEF NodeOK, HandlerOK
<1>2. gossip.at \in {"Compute", "Base", "Checkpoint", "Collect"}
  BY Zenon DEF ComputeSnapshot, FindBase, BuildCheckpoint, CollectHeader
<1>3. Flying(gossip) /\ gossip.block = head /\ gossip.target = head /\ gossip.at # "Clear"
  BY <1>2, Zenon DEF Flying, CleanInv, CleanHandler
<1>4. /\ head \in Headers /\ head # Genesis /\ Waits(head)
      /\ Len(head) \in Nat /\ head \in Seq(Seals)
      /\ Known \subseteq Headers
  BY <1>1, <1>2, <1>3, StoreFacts, HeaderFacts, Zenon DEF NodeOK, HandlerOK
<1>5. /\ DOMAIN numbers = 0..Len(head)
      /\ \A k \in 0..Len(head) : /\ numbers[k] = Upto(head, k) /\ numbers[k] \in Headers
                                /\ Len(numbers[k]) = k /\ IsAncestor(numbers[k], head)
  BY <1>4, StoreFacts, AncestorSelf, Zenon DEF NodeOK
\* What a step may do.
<1> DEFINE Good(snap) == SnapOK(snap, Known) /\ IsAncestor(snap.hash, head) /\ Faithful(snap)
<1>6. SUFFICES /\ gossip'.target = head /\ gossip'.block = head
               /\ \/ gossip'.at \in {"Base", "Checkpoint"}
                  \/ gossip'.at \in {"Cache", "Collect"} /\ Good(gossip'.snap)
                  \/ gossip'.at = "Set" /\ Good(gossip'.snap) /\ gossip'.snap.hash = head
  BY <1>3, <1>6, Zenon DEF Flying, CleanHandler
<1>7. ASSUME NEW snap, Computed(snap), snap # NoSnap, Good(snap), snap.hash = head,
             gossip.at \in {"Compute", "Collect"}
      PROVE  /\ gossip'.target = head /\ gossip'.block = head
             /\ gossip'.at = "Set" /\ Good(gossip'.snap) /\ gossip'.snap.hash = head
  <2>1. gossip' = [gossip EXCEPT !.snap = snap, !.at = "Set"]
    BY <1>7, Zenon DEF Computed
  <2>2. gossip'.target = head /\ gossip'.block = head /\ gossip'.at = "Set" /\ gossip'.snap = snap
    BY <1>1, <1>3, <2>1, Zenon DEF Handler
  <2> QED
    BY <1>7, <2>2, Zenon
<1>8. CASE ComputeSnapshot
  <2>1. CASE headSnap.hash = Parent(gossip.target)
    <3> DEFINE snap == ApplyHeader(headSnap, head)
    <3>1. headSnap \in Snapshots /\ Faithful(headSnap) /\ headSnap.hash = Parent(head)
      BY <1>1, <1>3, <2>1, Zenon DEF SnapOK, CleanInv
    <3>2. ~HasRecentlySigned(headSnap, Number(head), Signer(head))
      BY <3>1, <1>4, WaitsRecently, Zenon
    <3>3. snap # NoSnap /\ snap \in Snapshots /\ snap.hash = head /\ Faithful(snap)
      BY <3>1, <3>2, <1>4, ApplyFaithful, Zenon
    <3>4. Good(snap)
      BY <3>3, <1>1, <1>3, <1>4, AncestorSelf, Zenon DEF SnapOK
    <3>5. Computed(snap) /\ gossip.at = "Compute"
      BY <1>3, <1>8, <2>1, Zenon DEF ComputeSnapshot
    <3> HIDE DEF snap, Good
    <3> QED
      BY <1>7, <3>3, <3>4, <3>5, Zenon
  <2>2. CASE headSnap.hash # Parent(gossip.target)
    <3>1. gossip' = [gossip EXCEPT !.at = "Base"]
      BY <1>8, <2>2, Zenon DEF ComputeSnapshot
    <3> QED
      BY <1>1, <1>3, <3>1, Zenon DEF Handler
  <2> QED
    BY <2>1, <2>2, Zenon
<1>9. CASE FindBase
  <2>1. CASE EpochStart \in DOMAIN epochSnaps
    <3>1. gossip' = [gossip EXCEPT !.at = "Collect", !.snap = epochSnaps[EpochStart]]
      BY <1>9, <2>1, Zenon DEF FindBase
    <3>2. Good(epochSnaps[EpochStart])
      BY <1>3, <2>1, Zenon DEF NodeOK, CacheOK, CleanInv, CleanCache
    <3>3. /\ gossip'.target = head /\ gossip'.block = head /\ gossip'.at = "Collect"
          /\ gossip'.snap = epochSnaps[EpochStart]
      BY <1>1, <1>3, <3>1, Zenon DEF Handler
    <3> QED
      BY <3>2, <3>3, Zenon
  <2>2. CASE EpochStart \notin DOMAIN epochSnaps /\ EpochStart = 0
    <3>1. gossip' = [gossip EXCEPT !.at = "Collect", !.snap = GenesisSnap]
      BY <1>9, <2>2, Zenon DEF FindBase
    <3>2. Good(GenesisSnap)
      BY <1>1, <1>4, GenesisSnapFacts, AncestorSelf, Zenon DEF SnapOK
    <3>3. /\ gossip'.target = head /\ gossip'.block = head /\ gossip'.at = "Collect"
          /\ gossip'.snap = GenesisSnap
      BY <1>1, <1>3, <3>1, Zenon DEF Handler
    <3> QED
      BY <3>2, <3>3, Zenon
  <2>3. CASE EpochStart \notin DOMAIN epochSnaps /\ EpochStart # 0
    <3>1. gossip' = [gossip EXCEPT !.at = "Checkpoint"]
      BY <1>9, <2>3, Zenon DEF FindBase
    <3> QED
      BY <1>1, <1>3, <3>1, Zenon DEF Handler
  <2> QED
    BY <2>1, <2>2, <2>3, Zenon
<1>10. CASE BuildCheckpoint
  <2>1. EpochStart \in DOMAIN numbers
    <3>1. EpochStart \in 0..Len(head)
      <4>1. Number(gossip.target) = Len(head)
        BY <1>3, Zenon DEF Number
      <4> QED
        BY <1>4, <4>1, EpochNumbers, LimitFacts DEF EpochStart
    <3> QED
      BY <1>5, <3>1, Zenon
  <2> DEFINE snap == NewCheckpointSnapshot(numbers[EpochStart])
  <2>2. numbers[EpochStart] \in Headers /\ IsAncestor(numbers[EpochStart], head)
    BY <2>1, <1>5, Zenon
  <2>3. snap.hash = numbers[EpochStart] /\ Faithful(snap)
    BY <2>2, CheckpointFacts, Zenon
  <2>4. gossip' = [gossip EXCEPT !.at = "Cache", !.snap = snap]
    BY <1>10, <2>1, Zenon DEF BuildCheckpoint
  <2> HIDE DEF snap
  <2>5. /\ gossip'.at = "Cache" /\ gossip'.target = head /\ gossip'.block = head
        /\ gossip'.snap = snap
    BY <1>1, <1>3, <2>4, Zenon DEF Handler
  <2>6. SnapOK(gossip'.snap, Known)
    BY <1>1, <2>5, Zenon DEF HandlerOK
  <2> QED
    BY <2>2, <2>3, <2>5, <2>6, Zenon
<1>11. CASE CollectHeader
  <2> DEFINE n == Number(gossip.snap.hash) + 1
             next == ApplyHeader(gossip.snap, numbers[n])
  <2>1. Good(gossip.snap) /\ gossip.at = "Collect"
    BY <1>1, <1>3, <1>11, Zenon DEF CollectHeader, CleanInv, CleanHandler, HandlerOK
  <2>2. /\ gossip.snap \in Snapshots /\ gossip.snap.hash \in Headers
        /\ Number(gossip.snap.hash) \in 0..Len(head)
        /\ gossip.snap.hash = Upto(head, Number(gossip.snap.hash))
    <3>1. gossip.snap \in Snapshots /\ gossip.snap.hash \in Headers
      BY <2>1, <1>4, Zenon DEF SnapOK
    <3>2. Len(gossip.snap.hash) \in Nat
      BY <3>1, HeaderFacts, Zenon
    <3> QED
      BY <2>1, <3>1, <3>2, <1>4 DEF IsAncestor, Number
  <2>3. Number(gossip.target) = Len(head)
    BY <1>3, Zenon DEF Number
  <2>4. CASE n > Len(head)
    <3>1. Number(gossip.snap.hash) = Len(head)
      BY <2>2, <2>4, <1>4
    <3>2. gossip.snap.hash = head
      BY <2>2, <3>1, <1>4, UptoAll, Zenon
    <3>3. gossip.snap # NoSnap
      BY <2>2, NoSnapAssumption, Zenon
    <3>4. Computed(gossip.snap)
      BY <1>11, <2>3, <2>4, Zenon DEF CollectHeader
    <3> HIDE DEF Good
    <3> QED
      BY <1>7, <2>1, <3>2, <3>3, <3>4, Zenon
  <2>5. CASE ~(n > Len(head))
    <3>1. n \in 1..Len(head) /\ n - 1 = Number(gossip.snap.hash)
      BY <2>2, <2>5, <1>4
    <3>2. /\ numbers[n] = Upto(head, n) /\ numbers[n] \in Headers /\ Len(numbers[n]) = n
          /\ IsAncestor(numbers[n], head) /\ n \in DOMAIN numbers /\ numbers[n] \in Known
      <4>1. n \in 0..Len(head)
        BY <3>1, <1>4
      <4>2. \A k \in 0..Len(head) : numbers[k] \in Known
        BY StoreFacts, Zenon DEF NodeOK
      <4> HIDE DEF n
      <4> QED
        BY <1>5, <4>1, <4>2, Zenon
    <3>3. Parent(numbers[n]) = gossip.snap.hash /\ numbers[n] # Genesis
      <4>1. numbers[n] # Genesis
        BY <3>1, <3>2, GenesisFacts
      <4>2. Parent(Upto(head, n)) = Upto(head, n - 1)
        <5>1. n \in 0..Len(head) /\ n - 1 \in 0..n
          BY <3>1, <1>4
        <5> HIDE DEF n
        <5>2. Len(Upto(head, n)) = n /\ Upto(Upto(head, n), n - 1) = Upto(head, n - 1)
          BY <5>1, <1>4, UptoFacts, UptoUpto, Zenon
        <5> QED
          BY <5>2, Zenon DEF Parent, Number
      <4> QED
        BY <2>2, <3>1, <3>2, <4>1, <4>2, Zenon
    <3>4. Waits(numbers[n])
      BY <1>4, <3>1, <3>2, WaitsUpto
    <3>5. ~HasRecentlySigned(gossip.snap, Number(numbers[n]), Signer(numbers[n]))
      BY <2>1, <2>2, <3>2, <3>3, <3>4, WaitsRecently, Zenon
    <3>6. next # NoSnap /\ next \in Snapshots /\ next.hash = numbers[n] /\ Faithful(next)
      BY <2>1, <2>2, <3>2, <3>3, <3>5, ApplyFaithful, Zenon
    <3>7. Good(next)
      BY <3>2, <3>6, Zenon DEF SnapOK
    <3>8. gossip' = [gossip EXCEPT !.snap = next]
      BY <1>11, <2>3, <2>5, <3>2, <3>6, Zenon DEF CollectHeader
    <3> HIDE DEF next, Good, n
    <3>9. /\ gossip'.at = "Collect" /\ gossip'.target = head /\ gossip'.block = head
          /\ gossip'.snap = next
      BY <1>1, <1>3, <2>1, <3>8, Zenon DEF Handler
    <3> QED
      BY <3>7, <3>9, Zenon
  <2> QED
    BY <2>4, <2>5, Zenon
<1> QED
  BY <1>8, <1>9, <1>10, <1>11, Zenon

\* Rescheduling leaves the productions past their last engine call alone.
LEMMA ScheduleClean ==
  ASSUME NodeOK, CleanInv, NEW P \in [Producers -> Producer], Schedule(P),
         \A q \in Producers : P[q] = producers[q] \/ (P[q] = Off /\ producers[q].at # "Snap")
  PROVE  \A q \in Producers :
           /\ CleanProducer(producers'[q])
           /\ producers'[q].at \in Working => producers'[q] = producers[q]
           /\ producers[q].at = "Snap" => producers'[q].at = "Snap"
<1> TAKE q \in Producers
<1>1. /\ producers'[q] \in {Armed, Off, Late} \/ producers'[q] = P[q]
      /\ P[q].at \in {"Add", "Snap", "Next"} => producers'[q] = P[q]
  <2>1. Schedule(P)
    BY Zenon
  <2> QED
    BY <2>1, ScheduleFacts, Zenon
<1>2. producers'[q] \in {Armed, Off, Late} \/ producers'[q] = producers[q]
  BY <1>1, Zenon
<1>3. producers'[q].at \in Working => producers'[q] = producers[q]
  BY <1>2, OffFacts, Zenon DEF Working
<1>4. CleanProducer(producers'[q])
  BY <1>2, OffFacts, Zenon DEF CleanInv, CleanProducer, Working
<1>5. producers[q].at = "Snap" => producers'[q].at = "Snap"
  BY <1>1, Zenon
<1> QED
  BY <1>3, <1>4, <1>5, Zenon

\* A step that changes no more than the handler.
LEMMA CleanMove ==
  ASSUME CleanInv, CleanHandler(gossip', head), gossip.at # "Clear" \/ epochSnaps' = [n \in {} |-> GenesisSnap],
         Flying(gossip') <=> Flying(gossip), head' = head, headSnap' = headSnap,
         producers' = producers,
         CleanCache(epochSnaps, head) => CleanCache(epochSnaps', head)
  PROVE  CleanInv'
<1>1. CleanCache(epochSnaps', head)
  BY Zenon DEF CleanInv, CleanCache
<1>2. NobodyHas(head) => NobodyHas(head)'
  BY Zenon DEF NobodyHas
<1> QED
  BY <1>1, <1>2, Zenon DEF CleanInv

LEMMA CleanHandleBlock ==
  ASSUME NodeOK, NodeOK', CleanInv, HandleBlock, clean, clean'
  PROVE  CleanInv'
<1>1. /\ gossip \in Handler /\ HandlerOK(gossip, Known) /\ StoreInv
      /\ Genesis \in Known /\ SnapOK(headSnap, Known) /\ CacheOK(epochSnaps, Known)
      /\ producers \in [Producers -> Producer]
      /\ \A p \in Producers : ProducerOK(producers[p], Known)
      /\ Known \subseteq Headers /\ head \in Known
  BY StoreFacts, Zenon DEF NodeOK, HandlerOK
<1>2. Idle.at = "Idle" /\ ~Flying(Idle) /\ \A h : CleanHandler(Idle, h)
  <2>1. Idle.at = "Idle"
    BY <1>1, IdleFacts, Zenon
  <2> QED
    BY <2>1, Zenon DEF Flying, CleanHandler
<1>3. CASE (\E parent \in Known, s \in Signers \ {Me} : Receive(parent, s)) \/ ComputeSnapshotAt
  <2>1. UNCHANGED <<storeVars, headSnap, epochSnaps, producers>>
    BY <1>3, Zenon DEF Receive, ComputeSnapshotAt
  <2>2. head' = head /\ headSnap' = headSnap /\ epochSnaps' = epochSnaps /\ producers' = producers
    BY <1>1, <2>1, SameStore, Zenon
  <2> QED
    BY <1>3, <2>2, StartClean, CleanMove, Zenon
<1>4. CASE ComputeSnapshot \/ FindBase \/ BuildCheckpoint \/ CollectHeader
  <2>1. UNCHANGED <<storeVars, headSnap, epochSnaps, producers>>
    BY <1>4, Zenon DEF ComputeSnapshot, FindBase, BuildCheckpoint, CollectHeader
  <2>2. head' = head /\ headSnap' = headSnap /\ epochSnaps' = epochSnaps /\ producers' = producers
    BY <1>1, <2>1, SameStore, Zenon
  <2>3. CleanHandler(gossip', head) /\ gossip.at # "Clear" /\ (Flying(gossip') <=> Flying(gossip))
    BY <1>4, SideClean, FlyingClean, Zenon
  <2> QED
    BY <2>2, <2>3, CleanMove, Zenon
<1>5. CASE CacheCheckpoint
  <2>1. head' = head /\ headSnap' = headSnap /\ producers' = producers
    BY <1>1, <1>5, SameStore, Zenon DEF CacheCheckpoint
  <2>2. /\ gossip.at = "Cache" /\ gossip'.at = "Collect" /\ gossip'.block = gossip.block
        /\ gossip'.target = gossip.target /\ gossip'.snap = gossip.snap
    BY <1>1, <1>5, Zenon DEF CacheCheckpoint, Handler
  <2>3. IsAncestor(gossip.snap.hash, head) /\ Faithful(gossip.snap)
    BY <2>2, Zenon DEF CleanInv, CleanHandler
  <2>4. Flying(gossip') <=> Flying(gossip)
    BY <2>2, Zenon DEF Flying
  <2>5. CleanHandler(gossip', head)
    BY <2>2, <2>3, <2>4, Zenon DEF CleanInv, CleanHandler
  <2>6. CleanCache(epochSnaps, head) => CleanCache(epochSnaps', head)
    BY <1>5, <2>3, Zenon DEF CacheCheckpoint, CleanCache
  <2> QED
    BY <2>1, <2>2, <2>4, <2>5, <2>6, CleanMove, Zenon
<1>6. CASE DropBlock
  <2>1. /\ head' = head /\ headSnap' = headSnap /\ producers' = producers /\ epochSnaps' = epochSnaps
        /\ gossip.at = "Add" /\ gossip' = Idle
    BY <1>1, <1>6, SameStore, Zenon DEF DropBlock
  <2>2. ~Flying(gossip)
    BY <2>1, Zenon DEF Flying
  <2> QED
    BY <1>2, <2>1, <2>2, CleanMove, Zenon
<1>7. CASE ImportBlock
  <2> DEFINE h == gossip.block
  <2>1. /\ headSnap' = headSnap /\ producers' = producers /\ epochSnaps' = epochSnaps
        /\ gossip.at = "Add" /\ AddBlock(h) /\ head' # head
    BY <1>7, Zenon DEF ImportBlock
  <2>2. h \in Headers
    BY <1>1, Zenon DEF Handler
  <2>3. h \notin Known /\ h # Genesis /\ head' = h
    BY <1>1, <2>1, <2>2, AddFacts, Zenon
  <2>4. /\ gossip'.at = IF Parent(h) = head THEN "Deliver" ELSE "Clear"
        /\ gossip'.block = h
    BY <1>1, <1>7, Zenon DEF ImportBlock, Idle
  <2> HIDE DEF h
  <2>5. gossip'.at \in {"Clear", "Deliver"}
    BY <2>4, Zenon
  <2>6. Flying(gossip') /\ CleanHandler(gossip', h)
    BY <2>4, <2>5, Zenon DEF Flying, CleanHandler
  <2>7. NobodyHas(head)'
    BY <1>1, <2>1, <2>3, Zenon DEF NobodyHas, SnapOK, ProducerOK
  <2>8. ASSUME gossip'.at # "Clear" PROVE CleanCache(epochSnaps', h)
    <3>1. Parent(h) = head /\ CleanCache(epochSnaps, head)
      BY <2>1, <2>4, <2>8, Zenon DEF CleanInv
    <3>2. \A e \in DOMAIN epochSnaps : epochSnaps[e].hash \in Headers
      BY <1>1, Zenon DEF CacheOK, SnapOK
    <3> QED
      BY <2>1, <2>2, <2>3, <3>1, <3>2, AncestorKept, Zenon DEF CleanCache
  <2>9. Faithful(headSnap)' /\ \A p \in Producers : CleanProducer(producers[p])'
    BY <2>1, Zenon DEF CleanInv
  <2> QED
    BY <2>3, <2>6, <2>7, <2>8, <2>9, Zenon DEF CleanInv
<1>8. CASE ClearCache
  <2>1. /\ head' = head /\ headSnap' = headSnap /\ producers' = producers
        /\ epochSnaps' = [n \in {} |-> GenesisSnap]
    BY <1>1, <1>8, SameStore, Zenon DEF ClearCache
  <2>2. gossip.at = "Clear" /\ gossip'.at = "Deliver" /\ gossip'.block = gossip.block
    BY <1>1, <1>8, Zenon DEF ClearCache, Handler
  <2>3. Flying(gossip') /\ Flying(gossip)
    BY <2>2, Zenon DEF Flying
  <2>4. CleanHandler(gossip', head)
    BY <2>2, <2>3, Zenon DEF CleanInv, CleanHandler
  <2>5. CleanCache(epochSnaps', head)
    BY <2>1, Zenon DEF CleanCache
  <2> QED
    BY <2>1, <2>3, <2>4, <2>5, CleanMove, Zenon
<1>9. CASE Deliver
  <2>1. /\ head' = head /\ headSnap' = headSnap /\ producers' = producers
        /\ epochSnaps' = epochSnaps
        /\ gossip' = [gossip EXCEPT !.at = "Compute", !.target = gossip.block]
    BY <1>1, <1>9, SameStore, Zenon DEF Deliver
  <2>2. /\ gossip.at = "Deliver" /\ gossip'.at = "Compute" /\ gossip'.block = gossip.block
        /\ gossip'.target = gossip.block
    BY <1>1, <1>9, <2>1, Zenon DEF Deliver, Handler
  <2>3. Flying(gossip') /\ Flying(gossip)
    BY <2>2, Zenon DEF Flying
  <2>4. CleanHandler(gossip', head)
    BY <2>2, <2>3, Zenon DEF CleanInv, CleanHandler
  <2> QED
    BY <2>1, <2>2, <2>3, <2>4, CleanMove, Zenon
<1>10. CASE AdvanceSnapshot
  <2>1. /\ head' = head /\ producers' = producers /\ gossip.at = "Set"
        /\ SetHeadSnapshot(gossip.snap)
    BY <1>1, <1>10, SameStore, Zenon DEF AdvanceSnapshot
  <2>2. gossip'.at = "Schedule"
    BY <1>10, Zenon DEF AdvanceSnapshot, Idle
  <2>3. Flying(gossip) /\ ~Flying(gossip') /\ CleanHandler(gossip', head)
    BY <1>1, <2>1, <2>2, Zenon DEF Flying, CleanHandler, HandlerOK
  <2>4. gossip.snap.hash = head /\ Faithful(gossip.snap) /\ IsAncestor(gossip.snap.hash, head)
    BY <2>1, <2>3, Zenon DEF CleanInv, CleanHandler
  <2>5. /\ headSnap' = gossip.snap
        /\ \A e \in DOMAIN epochSnaps' :
             \/ epochSnaps'[e] = gossip.snap
             \/ e \in DOMAIN epochSnaps /\ epochSnaps'[e] = epochSnaps[e]
    BY <2>1, Zenon DEF SetHeadSnapshot
  <2>6. CleanCache(epochSnaps, head)
    BY <2>1, Zenon DEF CleanInv
  <2>7. CleanCache(epochSnaps', head)
    BY <2>4, <2>5, <2>6, Zenon DEF CleanCache
  <2>8. Faithful(headSnap') /\ headSnap'.hash = head
    BY <2>4, <2>5, Zenon
  <2> QED
    BY <2>1, <2>3, <2>7, <2>8, Zenon DEF CleanInv
<1>11. CASE Reschedule
  <2>1. /\ head' = head /\ headSnap' = headSnap /\ epochSnaps' = epochSnaps
        /\ gossip.at = "Schedule" /\ gossip' = Idle /\ Schedule(producers)
    BY <1>1, <1>11, SameStore, Zenon DEF Reschedule
  <2>2. ~Flying(gossip) /\ gossip.at # "Clear"
    BY <2>1, Zenon DEF Flying
  <2>3. \A q \in Producers : /\ CleanProducer(producers'[q])
                             /\ producers[q].at = "Snap" => producers'[q].at = "Snap"
    BY <1>1, <2>1, ScheduleClean, Zenon
  <2>4. Faithful(headSnap') /\ CleanCache(epochSnaps', head')
    BY <2>1, <2>2, Zenon DEF CleanInv
  <2>5. (\A q \in Producers : producers'[q].at # "Snap") => headSnap'.hash = head'
    BY <2>1, <2>2, <2>3, Zenon DEF CleanInv
  <2> QED
    BY <1>2, <2>1, <2>3, <2>4, <2>5, Zenon DEF CleanInv
<1> QED
  BY <1>3, <1>4, <1>5, <1>6, <1>7, <1>8, <1>9, <1>10, <1>11, Zenon DEF HandleBlock

\* A step of the productions that changes nothing else and ends no AddBlock.
LEMMA CleanProducers ==
  ASSUME CleanInv, head' = head, headSnap' = headSnap, epochSnaps' = epochSnaps, gossip' = gossip,
         \A q \in Producers :
           /\ CleanProducer(producers'[q])
           /\ producers'[q].at \in Working => \/ producers'[q].snap = headSnap
                                             \/ /\ producers[q].at \in Working
                                                /\ producers'[q].snap = producers[q].snap
           /\ producers[q].at = "Snap" => producers'[q].at = "Snap"
  PROVE  CleanInv'
<1>1. NobodyHas(head) => NobodyHas(head)'
  BY Zenon DEF NobodyHas
<1>2. (\A q \in Producers : producers'[q].at # "Snap") => \A q \in Producers : producers[q].at # "Snap"
  BY Zenon
<1>3. /\ Faithful(headSnap)' /\ (gossip.at # "Clear" => CleanCache(epochSnaps, head))'
      /\ CleanHandler(gossip, head)' /\ (Flying(gossip) => NobodyHas(head))'
  BY <1>1, Zenon DEF CleanInv
<1>4. (~Flying(gossip) /\ \A q \in Producers : producers'[q].at # "Snap") => headSnap'.hash = head
  BY <1>2, Zenon DEF CleanInv
<1>5. ((~Flying(gossip) /\ \A q \in Producers : producers[q].at # "Snap") => headSnap.hash = head)'
  BY <1>4, Zenon
<1> QED
  BY <1>3, <1>5, Zenon DEF CleanInv

LEMMA CleanProduceBlock ==
  ASSUME NodeOK, NodeOK', CleanInv, NEW p \in Producers, ProduceBlock(p), clean, clean'
  PROVE  CleanInv'
<1> DEFINE q == producers[p]
           h == OwnBlock(p)
<1>1. /\ gossip \in Handler /\ HandlerOK(gossip, Known) /\ StoreInv
      /\ Genesis \in Known /\ SnapOK(headSnap, Known) /\ CacheOK(epochSnaps, Known)
      /\ producers \in [Producers -> Producer] /\ q \in Producer
      /\ ProducerOK(q, Known)
      /\ Known \subseteq Headers /\ head \in Known
  <2>1. /\ HandlerOK(gossip, Known) /\ StoreInv
        /\ SnapOK(headSnap, Known) /\ CacheOK(epochSnaps, Known)
        /\ producers \in [Producers -> Producer] /\ ProducerOK(q, Known)
    BY Zenon DEF NodeOK
  <2>2. gossip \in Handler /\ q \in Producer
    BY <2>1, Zenon DEF HandlerOK, ProducerOK
  <2> QED
    BY <2>1, <2>2, StoreFacts, Zenon
<1>2. /\ \A r \in Producers : CleanProducer(producers[r])
      /\ Faithful(headSnap)
  BY Zenon DEF CleanInv
<1>3. ASSUME NEW P \in [Producers -> Producer], Schedule(P),
             \A r \in Producers : P[r] = producers[r] \/ (P[r] = Off /\ producers[r].at # "Snap"),
             head' = head, headSnap' = headSnap, epochSnaps' = epochSnaps, gossip' = gossip
      PROVE  CleanInv'
  <2>1. \A r \in Producers :
           /\ CleanProducer(producers'[r])
           /\ producers'[r].at \in Working => producers'[r] = producers[r]
           /\ producers[r].at = "Snap" => producers'[r].at = "Snap"
    BY <1>3, ScheduleClean, Zenon
  <2> QED
    BY <1>3, <2>1, CleanProducers, Zenon
<1>4. ASSUME \A r \in Producers \ {p} : producers'[r] = producers[r],
             q.at # "Snap", CleanProducer(producers'[p]),
             producers'[p].at \in Working => \/ producers'[p].snap = headSnap
                                             \/ q.at \in Working /\ producers'[p].snap = q.snap,
             head' = head, headSnap' = headSnap, epochSnaps' = epochSnaps, gossip' = gossip
      PROVE  CleanInv'
  <2>2. \A r \in Producers :
           /\ CleanProducer(producers'[r])
           /\ producers'[r].at \in Working => \/ producers'[r].snap = headSnap
                                             \/ /\ producers[r].at \in Working
                                                /\ producers'[r].snap = producers[r].snap
           /\ producers[r].at = "Snap" => producers'[r].at = "Snap"
    BY <1>2, <1>4, Zenon
  <2> QED
    BY <1>4, <2>2, CleanProducers, Zenon
<1>5. CleanProducer(Off) /\ Off.at \notin Working
  BY OffFacts, Zenon DEF CleanProducer, Working
<1>6. CASE ReadSnapshot(p)
  <2>1. producers'[p].at = "Head" /\ producers'[p].snap = headSnap
    BY <1>1, <1>6, Zenon DEF Producer, ReadSnapshot
  <2>2. \A r \in Producers \ {p} : producers'[r] = producers[r]
    BY <1>1, <1>6, Zenon DEF ReadSnapshot
  <2>3. /\ head' = head /\ headSnap' = headSnap /\ epochSnaps' = epochSnaps /\ gossip' = gossip
        /\ q.at # "Snap"
    BY <1>1, <1>6, SameStore, OffFacts, Zenon DEF ReadSnapshot
  <2>4. CleanProducer(producers'[p])
    BY <1>2, <2>1, Zenon DEF CleanProducer
  <2> QED
    BY <1>4, <2>1, <2>2, <2>3, <2>4, Zenon
<1>7. CASE ReadHead(p)
  <2>1. /\ head' = head /\ headSnap' = headSnap /\ epochSnaps' = epochSnaps /\ gossip' = gossip
        /\ q.at = "Head"
    BY <1>1, <1>7, SameStore, Zenon DEF ReadHead
  <2>2. CASE producers' = [producers EXCEPT ![p] = Off]
    <3>1. producers'[p] = Off /\ \A r \in Producers \ {p} : producers'[r] = producers[r]
      BY <1>1, <2>2, Zenon
    <3> QED
      BY <1>4, <1>5, <2>1, <3>1, Zenon
  <2>3. CASE producers' = [producers EXCEPT ![p].at = "Build", ![p].parent = head]
    <3>1. producers'[p].at = "Build" /\ producers'[p].snap = q.snap
      BY <1>1, <2>3, Zenon DEF Producer
    <3>2. \A r \in Producers \ {p} : producers'[r] = producers[r]
      BY <1>1, <2>3, Zenon
    <3>3. q.at \in Working
      BY <2>1, Zenon DEF Working
    <3>4. CleanProducer(producers'[p])
      BY <1>2, <3>1, <3>3, Zenon DEF CleanProducer
    <3> QED
      BY <1>4, <2>1, <3>1, <3>2, <3>3, <3>4, Zenon
  <2>4. CASE Schedule(producers)
    BY <1>1, <1>3, <2>1, <2>4, Zenon
  <2> QED
    BY <1>7, <2>2, <2>3, <2>4, Zenon DEF ReadHead
<1>8. CASE Build(p)
  <2>1. /\ head' = head /\ headSnap' = headSnap /\ epochSnaps' = epochSnaps /\ gossip' = gossip
        /\ q.at = "Build"
    BY <1>1, <1>8, SameStore, Zenon DEF Build
  <2>2. CASE producers' = [producers EXCEPT ![p] = Off]
    <3>1. producers'[p] = Off /\ \A r \in Producers \ {p} : producers'[r] = producers[r]
      BY <1>1, <2>2, Zenon
    <3> QED
      BY <1>4, <1>5, <2>1, <3>1, Zenon
  <2>3. CASE producers' = [producers EXCEPT ![p].at = "Add"]
    <3>1. producers'[p].at = "Add" /\ producers'[p].snap = q.snap
      BY <1>1, <2>3, Zenon DEF Producer
    <3>2. \A r \in Producers \ {p} : producers'[r] = producers[r]
      BY <1>1, <2>3, Zenon
    <3>3. q.at \in Working
      BY <2>1, Zenon DEF Working
    <3>4. CleanProducer(producers'[p])
      BY <1>2, <3>1, <3>3, Zenon DEF CleanProducer
    <3> QED
      BY <1>4, <2>1, <3>1, <3>2, <3>3, <3>4, Zenon
  <2>4. CASE Schedule(producers)
    BY <1>1, <1>3, <2>1, <2>4, Zenon
  <2> QED
    BY <1>8, <2>2, <2>3, <2>4, Zenon DEF Build
<1>9. CASE AddOwn(p)
  \* A clean addition is on top of the head, of which this node has the
  \* snapshot: handleBlock is not in between.
  <2>1. /\ headSnap' = headSnap /\ epochSnaps' = epochSnaps /\ gossip' = gossip
        /\ q.at = "Add" /\ q.parent = head /\ q.snap.hash = head
        /\ producers' = [producers EXCEPT ![p].at = "Snap"]
    <3>1. q.parent = head /\ q.snap.hash = head
      BY <1>9, Zenon DEF AddOwn
    <3> QED
      BY <1>9, <3>1, Zenon DEF AddOwn
  <2>2. /\ h \in Headers /\ h # Genesis /\ Parent(h) = head
    <3>1. q.parent \in Headers /\ Number(q.parent) < MaxNumber
      BY <1>1, <2>1, Zenon DEF ProducerOK
    <3>2. h = Sealed(q.parent, Me)
      BY Zenon DEF OwnBlock
    <3> QED
      BY <2>1, <3>1, <3>2, SealedFacts, SealsAssumption, Zenon
  <2>3. head' = h
    <3>1. h \notin Known
      BY <1>1, <2>2, HeadIsTip, Zenon
    <3>2. AddBlock(h)
      BY <1>9, <3>1, Zenon DEF AddOwn
    <3> HIDE DEF h
    <3> QED
      BY <1>1, <2>2, <3>2, AddFacts, Zenon
  <2>4. ~Flying(gossip) /\ gossip.at # "Clear"
    BY <2>1, Zenon DEF CleanInv, NobodyHas, Flying, Working
  <2>5. CleanCache(epochSnaps, head) /\ CleanHandler(gossip, head)
    BY <2>4, Zenon DEF CleanInv
  <2> DEFINE new == [q EXCEPT !.at = "Snap"]
  <2>6. new.at = "Snap" /\ new.snap = q.snap /\ new.parent = q.parent
    BY <1>1, Zenon DEF Producer
  <2>7. producers'[p] = new /\ \A r \in Producers \ {p} : producers'[r] = producers[r]
    BY <1>1, <2>1, Zenon
  <2> HIDE DEF new, h
  <2>8. CleanCache(epochSnaps, h)
    <3>1. \A e \in DOMAIN epochSnaps : epochSnaps[e].hash \in Headers
      BY <1>1, Zenon DEF CacheOK, SnapOK
    <3> QED
      BY <2>2, <2>5, <3>1, AncestorKept, Zenon DEF CleanCache
  <2>9. CleanHandler(gossip, h)
    <3>1. ASSUME gossip.at = "Cache"
          PROVE  IsAncestor(gossip.snap.hash, h) /\ Faithful(gossip.snap)
      <4>1. gossip.snap.hash \in Headers
        BY <1>1, <3>1, Zenon DEF HandlerOK, SnapOK
      <4>2. IsAncestor(gossip.snap.hash, head) /\ Faithful(gossip.snap)
        BY <2>5, <3>1, Zenon DEF CleanHandler
      <4> QED
        BY <2>2, <4>1, <4>2, AncestorKept, Zenon
    <3> QED
      BY <2>4, <3>1, Zenon DEF CleanHandler
  <2>10. CleanProducer(new)
    <3>1. Faithful(q.snap)
      BY <1>2, <2>1, Zenon DEF CleanProducer, Working
    <3> QED
      BY <2>1, <2>6, <3>1, Zenon DEF CleanProducer
  <2>11. \A r \in Producers : CleanProducer(producers'[r])
    BY <1>2, <2>7, <2>10, Zenon
  <2>12. producers'[p].at = "Snap"
    BY <2>6, <2>7, Zenon
  <2> QED
    BY <1>2, <2>1, <2>3, <2>4, <2>8, <2>9, <2>11, <2>12, Zenon DEF CleanInv
<1>10. CASE AdvanceOwn(p)
  <2> DEFINE snap == ApplyHeader(q.snap, h)
  <2>1. /\ head' = head /\ gossip' = gossip /\ q.at = "Snap" /\ head = h
        /\ producers' = [producers EXCEPT ![p] = [Off EXCEPT !.at = "Next"]]
    <3>1. head = h
      BY <1>10, Zenon DEF AdvanceOwn
    <3> QED
      BY <1>1, <1>10, <3>1, SameStore, Zenon DEF AdvanceOwn
  <2>2. /\ q.parent \in Headers /\ Number(q.parent) < MaxNumber
        /\ q.snap \in Snapshots /\ Faithful(q.snap) /\ q.snap.hash = q.parent
        /\ ~HasRecentlySigned(q.snap, Number(q.parent) + 1, Me)
    BY <1>1, <1>2, <2>1, Zenon DEF ProducerOK, CleanProducer, Working, SnapOK
  <2>3. /\ h \in Headers /\ h # Genesis /\ Parent(h) = q.parent /\ Signer(h) = Me
        /\ Number(h) = Number(q.parent) + 1
    <3>1. h = Sealed(q.parent, Me)
      BY Zenon DEF OwnBlock
    <3> QED
      BY <2>2, <3>1, SealedFacts, SealsAssumption, Zenon
  <2>4. ~Flying(gossip) /\ gossip.at # "Clear"
    <3>1. ASSUME Flying(gossip) PROVE FALSE
      <4>1. gossip.block = h /\ gossip.at \notin {"Idle", "Schedule"}
        BY <2>1, <3>1, Zenon DEF CleanInv, CleanHandler, Flying
      <4> QED
        BY <1>1, <2>3, <4>1, Zenon DEF HandlerOK
    <3> QED
      BY <3>1, Zenon DEF Flying
  <2>5. CleanCache(epochSnaps, head) /\ CleanHandler(gossip, head)
    BY <2>4, Zenon DEF CleanInv
  <2> HIDE DEF h
  <2>6. snap # NoSnap /\ snap \in Snapshots /\ snap.hash = h /\ Faithful(snap)
    BY <2>2, <2>3, ApplyFaithful, Zenon
  <2>7. SetHeadSnapshot(snap)
    BY <1>10, <2>6, Zenon DEF AdvanceOwn, h
  <2> HIDE DEF snap
  <2>8. SnapOK(snap, Known) /\ IsAncestor(snap.hash, head)
    BY <1>1, <2>1, <2>3, <2>6, AncestorSelf, Zenon DEF SnapOK
  <2>9. /\ headSnap' = snap
        /\ \A e \in DOMAIN epochSnaps' :
             \/ epochSnaps'[e] = snap
             \/ e \in DOMAIN epochSnaps /\ epochSnaps'[e] = epochSnaps[e]
    BY <2>7, Zenon DEF SetHeadSnapshot
  <2>10. CleanCache(epochSnaps', head)
    BY <2>5, <2>6, <2>8, <2>9, Zenon DEF CleanCache
  <2>11. \A r \in Producers : CleanProducer(producers'[r])
    <3>1. [Off EXCEPT !.at = "Next"].at = "Next"
      BY OffFacts, Zenon DEF Producer
    <3>2. CleanProducer([Off EXCEPT !.at = "Next"])
      BY <3>1, Zenon DEF CleanProducer, Working
    <3>3. \A r \in Producers : producers'[r] \in {producers[r], [Off EXCEPT !.at = "Next"]}
      BY <1>1, <2>1, Zenon
    <3> QED
      BY <1>2, <3>2, <3>3, Zenon
  <2>12. Faithful(headSnap') /\ headSnap'.hash = head
    BY <2>1, <2>6, <2>9, Zenon
  <2> QED
    BY <2>1, <2>4, <2>5, <2>10, <2>11, <2>12, Zenon DEF CleanInv
<1>11. CASE ScheduleNext(p) \/ LateSchedule(p)
  <2> DEFINE P == [producers EXCEPT ![p] = Off]
  <2>1. /\ head' = head /\ headSnap' = headSnap /\ epochSnaps' = epochSnaps /\ gossip' = gossip
        /\ Schedule(P) /\ q.at # "Snap"
    BY <1>1, <1>11, SameStore, OffFacts, Zenon DEF ScheduleNext, LateSchedule
  <2>2. /\ P \in [Producers -> Producer]
        /\ \A r \in Producers : P[r] = producers[r] \/ (P[r] = Off /\ producers[r].at # "Snap")
    BY <1>1, <2>1, OffFacts, Zenon
  <2> HIDE DEF P
  <2> QED
    BY <1>3, <2>1, <2>2, Zenon
<1> QED
  BY <1>6, <1>7, <1>8, <1>9, <1>10, <1>11, Zenon DEF ProduceBlock

CleanOK == clean => CleanInv

LEMMA CleanInit == NodeInit => CleanOK
<1> SUFFICES ASSUME NodeInit PROVE CleanInv
  BY Zenon DEF CleanOK
<1>1. /\ head = Genesis /\ headSnap = GenesisSnap /\ epochSnaps = [n \in {} |-> GenesisSnap]
      /\ gossip = Idle
  BY Zenon DEF NodeInit, Init
<1>2. gossip.at = "Idle" /\ ~Flying(gossip) /\ CleanHandler(gossip, head)
  <2>1. gossip.at = "Idle"
    BY <1>1, Zenon DEF Idle
  <2> QED
    BY <2>1, Zenon DEF Flying, CleanHandler
<1>3. Faithful(headSnap) /\ headSnap.hash = head /\ CleanCache(epochSnaps, head)
  BY <1>1, GenesisSnapFacts, Zenon DEF CleanCache
<1>4. \A q \in Producers : producers[q] \in {Armed, Off}
  BY Zenon DEF NodeInit
<1>5. \A q \in Producers : CleanProducer(producers[q])
  BY <1>4, OffFacts, Zenon DEF CleanProducer, Working
<1> QED
  BY <1>2, <1>3, <1>5, Zenon DEF CleanInv

\* A history does not become clean again.
LEMMA CleanBefore ==
  ASSUME NodeNext, clean'
  PROVE  clean
<1>1. CASE HandleBlock
  BY <1>1, Zenon DEF HandleBlock, Receive, ComputeSnapshotAt, ComputeSnapshot, FindBase,
     BuildCheckpoint, CacheCheckpoint, CollectHeader, DropBlock, ImportBlock, ClearCache,
     Deliver, AdvanceSnapshot, Reschedule
<1>2. ASSUME NEW p \in Producers, ProduceBlock(p) PROVE clean
  BY <1>2, Zenon DEF ProduceBlock, ReadSnapshot, ReadHead, Build, AddOwn, AdvanceOwn,
     ScheduleNext, LateSchedule
<1> QED
  BY <1>1, <1>2, Zenon DEF NodeNext

LEMMA CleanNext == NodeOK /\ NodeOK' /\ CleanOK /\ [NodeNext]_nodeVars => CleanOK'
<1> SUFFICES ASSUME NodeOK, NodeOK', CleanOK, [NodeNext]_nodeVars, clean'
             PROVE  CleanInv'
  BY Zenon DEF CleanOK
<1>1. CASE NodeNext
  <2>1. clean /\ CleanInv
    BY <1>1, CleanBefore, Zenon DEF CleanOK
  <2>2. CASE HandleBlock
    BY <2>1, <2>2, CleanHandleBlock, Zenon
  <2>3. ASSUME NEW p \in Producers, ProduceBlock(p) PROVE CleanInv'
    BY <2>1, <2>3, CleanProduceBlock, Zenon
  <2> QED
    BY <1>1, <2>2, <2>3, Zenon DEF NodeNext
<1>2. CASE UNCHANGED nodeVars
  <2>1. /\ head' = head /\ headSnap' = headSnap /\ epochSnaps' = epochSnaps /\ gossip' = gossip
        /\ producers' = producers
    <3>1. UNCHANGED storeVars
      BY <1>2, Zenon DEF nodeVars
    <3>2. head' = head
      BY <3>1, SameStore, Zenon DEF NodeOK
    <3> QED
      BY <1>2, <3>2, Zenon DEF nodeVars
  <2>2. CleanInv
    BY <1>2, Zenon DEF CleanOK, nodeVars
  <2>3. NobodyHas(head) => NobodyHas(head)'
    BY <2>1, Zenon DEF NobodyHas
  <2> QED
    BY <2>1, <2>2, <2>3, Zenon DEF CleanInv
<1> QED
  BY <1>1, <1>2, Zenon

LEMMA CleanHolds == NodeSpec => []CleanOK
  BY CleanInit, CleanNext, NodeOKHolds, PTL DEF NodeSpec

\* In a clean history the snapshot that computeSnapshot, setHeadSnapshot and
\* produceBlock leave is the one of the head, with the signers of its last
\* blocks, for any signers, epoch length and number of goroutines.
THEOREM HeadSnapshotCorrect == NodeSpec => []HeadSnapCurrent
<1>1. NodeOK /\ CleanOK => HeadSnapCurrent
  <2> SUFFICES ASSUME NodeOK, CleanOK, clean, Settled
               PROVE  /\ headSnap.hash = head
                      /\ \A b \in DOMAIN headSnap.recents :
                           b > Number(head) - Limit /\ headSnap.recents[b] = head[b].signer
    BY Zenon DEF HeadSnapCurrent
  <2>1. Faithful(headSnap) /\ headSnap.hash = head
    BY SettledFacts, Zenon DEF CleanOK, CleanInv
  <2> QED
    BY <2>1, Zenon DEF Faithful
<1> QED
  BY <1>1, NodeOKHolds, CleanHolds, PTL

\* In a clean history every cached epoch snapshot is the one of the canonical
\* block with its number, unless handleBlock is about to clear the cache.
THEOREM CacheCorrect == NodeSpec => []CacheCurrent
<1>1. NodeOK /\ CleanOK => CacheCurrent
  <2> SUFFICES ASSUME NodeOK, CleanOK, clean, gossip.at # "Clear", NEW e \in DOMAIN epochSnaps
               PROVE  e \in DOMAIN numbers /\ epochSnaps[e].hash = numbers[e]
    BY Zenon DEF CacheCurrent
  <2> DEFINE x == epochSnaps[e].hash
  <2>1. IsAncestor(x, head)
    BY Zenon DEF CleanOK, CleanInv, CleanCache
  <2>2. x \in Known /\ Number(x) = e
    BY Zenon DEF NodeOK, CacheOK, SnapOK
  <2>3. x \in Headers /\ StoreInv
    BY <2>2, StoreFacts, Zenon DEF NodeOK
  <2> HIDE DEF x
  <2>4. Len(x) \in Nat /\ Len(x) = e
    BY <2>2, <2>3, HeaderFacts, Zenon DEF Number
  <2>5. e \in 0..Len(head) /\ Upto(head, e) = x
    BY <2>1, <2>3, <2>4, StoreFacts DEF IsAncestor
  <2> QED
    BY <2>3, <2>5, StoreFacts, Zenon DEF x
<1> QED
  BY <1>1, NodeOKHolds, CleanHolds, PTL

-----------------------------------------------------------------------------
(* Production does not stop *)

\* Somebody is on the way to scheduleBlockProduction.
Busy ==
  \/ Flying(gossip) \/ gossip.at = "Schedule"
  \/ \E p \in Producers : producers[p].at \in {"Add", "Snap", "Next"}

\* A production that is about to ask whether this node may sign asks the
\* current snapshot; with no production left, that one says no.
PendingInv ==
  /\ \A p \in Producers : producers[p].at = "Head" => producers[p].snap = headSnap \/ Busy
  /\ (~stalled /\ \A p \in Producers : producers[p] \in {Off, Late}) =>
       \/ Flying(gossip) \/ gossip.at = "Schedule"
       \/ HasRecentlySigned(headSnap, Number(head) + 1, Me)

PendingOK == clean => PendingInv

LEMMA PendingHandler ==
  ASSUME Flying(gossip') \/ gossip'.at = "Schedule"
  PROVE  PendingInv'
<1>1. Busy'
  BY Zenon DEF Busy
<1> QED
  BY <1>1, Zenon DEF PendingInv

LEMMA PendingProducer ==
  ASSUME NEW p \in Producers, producers'[p].at \in {"Add", "Snap", "Next"}
  PROVE  PendingInv'
<1>1. Busy'
  BY Zenon DEF Busy
<1>2. producers'[p] \notin {Off, Late}
  BY OffFacts, Zenon
<1> QED
  BY <1>1, <1>2, Zenon DEF PendingInv

LEMMA PendingSchedule ==
  ASSUME NEW P \in [Producers -> Producer], Schedule(P)
  PROVE  PendingInv'
<1>0. /\ \E p \in Producers : producers'[p] = Armed
      /\ \A q \in Producers :
           \/ producers'[q] \in {Armed, Off, Late}
           \/ producers'[q] = P[q] /\ P[q].at \notin {"Armed", "Head", "Build"}
  BY ScheduleFacts, Zenon
<1>1. \A q \in Producers : producers'[q].at # "Head"
  BY <1>0, OffFacts, Zenon
<1>2. \E p \in Producers : producers'[p] \notin {Off, Late}
  BY <1>0, OffFacts, Zenon
<1> QED
  BY <1>1, <1>2, Zenon DEF PendingInv

LEMMA PendingMove ==
  ASSUME PendingInv, head' = head, headSnap' = headSnap, producers' = producers,
         UNCHANGED stalled,
         (Flying(gossip) \/ gossip.at = "Schedule") => (Flying(gossip') \/ gossip'.at = "Schedule")
  PROVE  PendingInv'
<1>1. Busy => Busy'
  BY Zenon DEF Busy
<1>2. \A p \in Producers : (producers[p].at = "Head" => producers[p].snap = headSnap \/ Busy)'
  BY <1>1, Zenon DEF PendingInv
<1>3. HasRecentlySigned(headSnap, Number(head) + 1, Me)
        => HasRecentlySigned(headSnap, Number(head) + 1, Me)'
  BY Zenon DEF HasRecentlySigned, Number
<1>4. ((~stalled /\ \A p \in Producers : producers[p] \in {Off, Late}) =>
         \/ Flying(gossip) \/ gossip.at = "Schedule"
         \/ HasRecentlySigned(headSnap, Number(head) + 1, Me))'
  BY <1>3, Zenon DEF PendingInv
<1> QED
  BY <1>2, <1>4, Zenon DEF PendingInv

LEMMA PendingHandleBlock ==
  ASSUME NodeOK, CleanInv, PendingInv, HandleBlock, clean'
  PROVE  PendingInv'
<1>1. /\ gossip \in Handler /\ HandlerOK(gossip, Known) /\ StoreInv
      /\ Genesis \in Known /\ producers \in [Producers -> Producer]
  BY StoreFacts, Zenon DEF NodeOK, HandlerOK
<1>2. CASE \/ (\E parent \in Known, s \in Signers \ {Me} : Receive(parent, s)) \/ ComputeSnapshotAt
           \/ ComputeSnapshot \/ FindBase \/ BuildCheckpoint \/ CollectHeader
  <2>1. UNCHANGED <<storeVars, headSnap, producers, stalled>>
    <3>1. CASE \E parent \in Known, s \in Signers \ {Me} : Receive(parent, s)
      BY <3>1, Zenon DEF Receive
    <3>2. CASE ComputeSnapshotAt
      BY <3>2, Zenon DEF ComputeSnapshotAt
    <3>3. CASE ComputeSnapshot
      BY <3>3, Zenon DEF ComputeSnapshot
    <3>4. CASE FindBase
      BY <3>4, Zenon DEF FindBase
    <3>5. CASE BuildCheckpoint
      BY <3>5, Zenon DEF BuildCheckpoint
    <3>6. CASE CollectHeader
      BY <3>6, Zenon DEF CollectHeader
    <3> QED
      BY <1>2, <3>1, <3>2, <3>3, <3>4, <3>5, <3>6, Zenon
  <2>2. gossip.at # "Schedule"
    <3>1. CASE \E parent \in Known, s \in Signers \ {Me} : Receive(parent, s)
      <4>1. gossip = Idle
        BY <3>1, Zenon DEF Receive
      <4> QED
        BY <1>1, <4>1, IdleFacts, Zenon
    <3>2. CASE ComputeSnapshotAt
      BY <3>2, Zenon DEF ComputeSnapshotAt
    <3>3. CASE ComputeSnapshot
      BY <3>3, Zenon DEF ComputeSnapshot
    <3>4. CASE FindBase
      BY <3>4, Zenon DEF FindBase
    <3>5. CASE BuildCheckpoint
      BY <3>5, Zenon DEF BuildCheckpoint
    <3>6. CASE CollectHeader
      BY <3>6, Zenon DEF CollectHeader
    <3> QED
      BY <1>2, <3>1, <3>2, <3>3, <3>4, <3>5, <3>6, Zenon
  <2>3. Flying(gossip) => Flying(gossip')
    BY <1>2, StartClean, SideClean, FlyingClean, Zenon
  <2>4. head' = head
    BY <1>1, <2>1, SameStore, Zenon
  <2> QED
    BY <2>1, <2>2, <2>3, <2>4, PendingMove, Zenon
<1>3. CASE CacheCheckpoint
  <2>1. UNCHANGED <<storeVars, headSnap, producers, stalled>>
    BY <1>3, Zenon DEF CacheCheckpoint
  <2>2. /\ gossip.at = "Cache" /\ gossip'.at = "Collect" /\ gossip'.block = gossip.block
        /\ gossip'.target = gossip.target
    BY <1>1, <1>3, Zenon DEF CacheCheckpoint, Handler
  <2>3. Flying(gossip) => Flying(gossip')
    BY <2>2, Zenon DEF Flying
  <2>4. head' = head
    BY <1>1, <2>1, SameStore, Zenon
  <2> QED
    BY <2>1, <2>2, <2>3, <2>4, PendingMove, Zenon
<1>4. CASE DropBlock
  <2>1. UNCHANGED <<headSnap, producers, stalled>> /\ gossip.at = "Add"
    BY <1>4, Zenon DEF DropBlock
  <2>2. ~Flying(gossip) /\ gossip.at # "Schedule"
    BY <2>1, Zenon DEF Flying
  <2>3. head' = head
    BY <1>1, <1>4, SameStore, Zenon DEF DropBlock
  <2> QED
    BY <2>1, <2>2, <2>3, PendingMove, Zenon
<1>5. CASE ImportBlock
  <2>1. gossip'.at \in {"Deliver", "Clear"}
    BY <1>5, Zenon DEF ImportBlock, Idle
  <2> QED
    BY <2>1, PendingHandler, Zenon DEF Flying
<1>6. CASE ClearCache
  <2>1. gossip'.at = "Deliver"
    BY <1>1, <1>6, Zenon DEF ClearCache, Handler
  <2> QED
    BY <2>1, PendingHandler, Zenon DEF Flying
<1>7. CASE Deliver
  <2>1. gossip' = [gossip EXCEPT !.at = "Compute", !.target = gossip.block]
    BY <1>7, Zenon DEF Deliver
  <2>2. gossip'.at = "Compute" /\ gossip'.target = gossip'.block
    BY <1>1, <2>1, Zenon DEF Handler
  <2> QED
    BY <2>2, PendingHandler, Zenon DEF Flying
<1>8. CASE AdvanceSnapshot
  <2>1. gossip'.at = "Schedule"
    BY <1>8, Zenon DEF AdvanceSnapshot, Idle
  <2> QED
    BY <2>1, PendingHandler, Zenon
<1>9. CASE Reschedule
  BY <1>1, <1>9, PendingSchedule, Zenon DEF Reschedule
<1> QED
  BY <1>2, <1>3, <1>4, <1>5, <1>6, <1>7, <1>8, <1>9, Zenon DEF HandleBlock

LEMMA PendingProduceBlock ==
  ASSUME NodeOK, PendingInv, NEW p \in Producers, ProduceBlock(p)
  PROVE  PendingInv'
<1> DEFINE q == producers[p]
<1>1. producers \in [Producers -> Producer] /\ q \in Producer /\ StoreInv
  BY Zenon DEF NodeOK
\* Steps that keep the production.
<1>2. ASSUME q.at \notin {"Add", "Snap", "Next"}, UNCHANGED <<headSnap, gossip>>,
             \A r \in Producers \ {p} : producers'[r] = producers[r],
             producers'[p].at = "Head" => producers'[p].snap = headSnap
      PROVE  \A r \in Producers : (producers[r].at = "Head" => producers[r].snap = headSnap \/ Busy)'
  <2>1. Busy => Busy'
    BY <1>2, Zenon DEF Busy
  <2>2. \A r \in Producers \ {p} : (producers[r].at = "Head" => producers[r].snap = headSnap \/ Busy)'
    BY <1>2, <2>1, Zenon DEF PendingInv
  <2> QED
    BY <1>2, <2>2, Zenon
<1>3. ASSUME q.at \notin {"Add", "Snap", "Next"}, UNCHANGED <<headSnap, gossip>>,
             \A r \in Producers \ {p} : producers'[r] = producers[r],
             producers'[p].at = "Head" => producers'[p].snap = headSnap,
             producers'[p] \notin {Off, Late}
      PROVE  PendingInv'
  BY <1>2, <1>3, Zenon DEF PendingInv
<1>4. CASE ReadSnapshot(p)
  <2>1. producers'[p].at = "Head" /\ producers'[p].snap = headSnap
    BY <1>1, <1>4, Zenon DEF Producer, ReadSnapshot
  <2>2. /\ \A r \in Producers \ {p} : producers'[r] = producers[r]
        /\ UNCHANGED <<headSnap, gossip>> /\ q.at = "Armed"
    BY <1>1, <1>4, OffFacts, Zenon DEF ReadSnapshot
  <2>3. producers'[p] \notin {Off, Late}
    BY <2>1, OffFacts, Zenon
  <2> QED
    BY <1>3, <2>1, <2>2, <2>3, Zenon
<1>5. CASE ReadHead(p)
  <2>1. UNCHANGED <<storeVars, headSnap, gossip>> /\ q.at = "Head"
    BY <1>5, Zenon DEF ReadHead
  <2>2. CASE /\ HasRecentlySigned(q.snap, Number(head) + 1, Me)
             /\ producers' = [producers EXCEPT ![p] = Off] /\ UNCHANGED stalled
    \* The snapshot that was asked is the current one, or a block is under way.
    <3>1. producers'[p] = Off /\ \A r \in Producers \ {p} : producers'[r] = producers[r]
      BY <1>1, <2>2, Zenon
    <3>2. \A r \in Producers : (producers[r].at = "Head" => producers[r].snap = headSnap \/ Busy)'
      BY <1>2, <2>1, <3>1, OffFacts, Zenon
    <3>3. ASSUME \A r \in Producers : producers'[r] \in {Off, Late},
                 ~Flying(gossip), gossip.at # "Schedule"
          PROVE  HasRecentlySigned(headSnap, Number(head) + 1, Me)
      <4>1. ~Busy
        <5>1. \A r \in Producers : producers[r].at \notin {"Add", "Snap", "Next"}
          BY <2>1, <3>1, <3>3, OffFacts, Zenon
        <5> QED
          BY <3>3, <5>1, Zenon DEF Busy
      <4>2. q.snap = headSnap
        BY <2>1, <4>1, Zenon DEF PendingInv
      <4> QED
        BY <2>2, <4>2, Zenon
    <3>4. headSnap' = headSnap /\ head' = head /\ gossip' = gossip
      BY <1>1, <2>1, SameStore, Zenon
    <3>5. HasRecentlySigned(headSnap, Number(head) + 1, Me)
            => HasRecentlySigned(headSnap, Number(head) + 1, Me)'
      BY <3>4, Zenon DEF HasRecentlySigned, Number
    <3>6. ((~stalled /\ \A r \in Producers : producers[r] \in {Off, Late}) =>
             \/ Flying(gossip) \/ gossip.at = "Schedule"
             \/ HasRecentlySigned(headSnap, Number(head) + 1, Me))'
      BY <3>3, <3>4, <3>5, Zenon
    <3> QED
      BY <3>2, <3>6, Zenon DEF PendingInv
  <2>3. CASE producers' = [producers EXCEPT ![p].at = "Build", ![p].parent = head]
    <3>1. producers'[p].at = "Build" /\ \A r \in Producers \ {p} : producers'[r] = producers[r]
      BY <1>1, <2>3, Zenon DEF Producer
    <3>2. producers'[p] \notin {Off, Late}
      BY <3>1, OffFacts, Zenon
    <3> QED
      BY <1>3, <2>1, <3>1, <3>2, Zenon
  <2>4. CASE Schedule(producers)
    BY <1>1, <2>4, PendingSchedule, Zenon
  <2> QED
    BY <1>5, <2>2, <2>3, <2>4, Zenon DEF ReadHead
<1>6. CASE Build(p)
  <2>1. UNCHANGED <<headSnap, gossip>> /\ q.at = "Build"
    BY <1>6, Zenon DEF Build
  <2>2. CASE producers' = [producers EXCEPT ![p].at = "Add"]
    <3>1. producers'[p].at = "Add"
      BY <1>1, <2>2, Zenon DEF Producer
    <3> QED
      BY <3>1, PendingProducer, Zenon
  <2>3. CASE producers' = [producers EXCEPT ![p] = Off] /\ stalled' = TRUE
    <3>1. producers'[p] = Off /\ \A r \in Producers \ {p} : producers'[r] = producers[r]
      BY <1>1, <2>3, Zenon
    <3>2. \A r \in Producers : (producers[r].at = "Head" => producers[r].snap = headSnap \/ Busy)'
      BY <1>2, <2>1, <3>1, OffFacts, Zenon
    <3>3. stalled'
      BY <2>3, Zenon
    <3> QED
      BY <3>2, <3>3, Zenon DEF PendingInv
  <2>4. CASE Schedule(producers)
    BY <1>1, <2>4, PendingSchedule, Zenon
  <2> QED
    BY <1>6, <2>2, <2>3, <2>4, Zenon DEF Build
<1>7. CASE AddOwn(p)
  <2>1. producers'[p].at = "Snap"
    BY <1>1, <1>7, Zenon DEF Producer, AddOwn
  <2> QED
    BY <2>1, PendingProducer, Zenon
<1>8. CASE AdvanceOwn(p)
  <2>1. producers'[p].at = "Next"
    BY <1>1, <1>8, Zenon DEF AdvanceOwn, Off
  <2> QED
    BY <2>1, PendingProducer, Zenon
<1>9. CASE ScheduleNext(p) \/ LateSchedule(p)
  <2> DEFINE P == [producers EXCEPT ![p] = Off]
  <2>1. P \in [Producers -> Producer] /\ Schedule(P)
    BY <1>1, <1>9, OffFacts, Zenon DEF ScheduleNext, LateSchedule
  <2> HIDE DEF P
  <2> QED
    BY <2>1, PendingSchedule, Zenon
<1> QED
  BY <1>4, <1>5, <1>6, <1>7, <1>8, <1>9, Zenon DEF ProduceBlock

LEMMA PendingInit == NodeInit => PendingOK
<1> SUFFICES ASSUME NodeInit PROVE PendingInv
  BY Zenon DEF PendingOK
<1>1. PICK p \in Producers : producers = [q \in Producers |-> IF q = p THEN Armed ELSE Off]
  BY Zenon DEF NodeInit
<1>2. producers[p] \notin {Off, Late} /\ \A q \in Producers : producers[q].at # "Head"
  BY <1>1, OffFacts, Zenon
<1> QED
  BY <1>2, Zenon DEF PendingInv

LEMMA PendingNext == NodeOK /\ CleanOK /\ PendingOK /\ [NodeNext]_nodeVars => PendingOK'
<1> SUFFICES ASSUME NodeOK, CleanOK, PendingOK, [NodeNext]_nodeVars, clean'
             PROVE  PendingInv'
  BY Zenon DEF PendingOK
<1>1. CASE NodeNext
  <2>1. clean /\ CleanInv /\ PendingInv
    BY <1>1, CleanBefore, Zenon DEF CleanOK, PendingOK
  <2>2. CASE HandleBlock
    BY <2>1, <2>2, PendingHandleBlock, Zenon
  <2>3. ASSUME NEW p \in Producers, ProduceBlock(p) PROVE PendingInv'
    BY <2>1, <2>3, PendingProduceBlock, Zenon
  <2> QED
    BY <1>1, <2>2, <2>3, Zenon DEF NodeNext
<1>2. CASE UNCHANGED nodeVars
  <2>1. UNCHANGED <<storeVars, headSnap, gossip, producers, stalled>>
    BY <1>2, Zenon DEF nodeVars
  <2>2. head' = head
    BY <2>1, SameStore, Zenon DEF NodeOK
  <2>3. PendingInv
    BY <1>2, Zenon DEF PendingOK, nodeVars
  <2> QED
    BY <2>1, <2>2, <2>3, PendingMove, Zenon
<1> QED
  BY <1>1, <1>2, Zenon

\* In a clean history a signer that may sign the next block has a timer or is
\* producing, however handleBlock, cancelled productions and rescheduling
\* interleave (scheduleBlockProduction).
THEOREM ProductionGoesOn == NodeSpec => []ProductionPending
<1>1. NodeOK /\ PendingOK => ProductionPending
  <2> SUFFICES ASSUME NodeOK, PendingOK, clean, ~stalled, gossip = Idle,
                      ~HasRecentlySigned(headSnap, Number(head) + 1, Me)
               PROVE  \E p \in Producers : producers[p] \notin {Off, Late}
    BY Zenon DEF ProductionPending
  <2>1. gossip.at = "Idle"
    BY Zenon DEF Idle
  <2>2. ~Flying(gossip)
    BY <2>1, Zenon DEF Flying
  <2> QED
    BY <2>1, <2>2, Zenon DEF PendingOK, PendingInv
<1> QED
  BY <1>1, NodeOKHolds, CleanHolds, PendingInit, PendingNext, PTL DEF NodeSpec
=============================================================================
