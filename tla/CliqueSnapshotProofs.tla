------------------------ MODULE CliqueSnapshotProofs ------------------------
(***************************************************************************)
(* Proofs about the votes of a Clique snapshot, for any set of addresses,  *)
(* any epoch length and any number of blocks.  The argument: the tally is  *)
(* always the one that counting the pending votes from scratch would give, *)
(* cast and uncast being the steps of that count; every pending vote is by *)
(* a signer and asks for a change.  A majority in the tally is therefore a *)
(* majority of signers.  An address that is voted out cannot return before *)
(* its wait is over, so that a signer waits whatever happens to the set,   *)
(* short of an epoch block whose list admits an address without a vote.    *)
(***************************************************************************)
EXTENDS CliqueSnapshot, FiniteSetTheorems, TLAPS

\* The votes of V on address a.
On(V, a) == {v \in V : v.address = a}

\* The tally of the votes V under the signers S, counted from scratch.
Counted(S, V) ==
  [a \in {v.address : v \in V} |->
     [authorize |-> (a \notin S), votes |-> Cardinality(On(V, a))]]

\* VotesAreLive, of any signers and votes.
Live(S, V) ==
  /\ \A v \in V : v.signer \in S /\ (v.authorize <=> v.address \notin S)
  /\ \A v, w \in V : (v.signer = w.signer /\ v.address = w.address) => v = w

SnapshotInv ==
  /\ TypeOK
  /\ IsFiniteSet(votes)
  /\ Live(signers, votes)
  /\ tally = Counted(signers, votes)

-----------------------------------------------------------------------------
(* cast, uncast and the discarding loops are steps of the count *)

LEMMA OnFacts ==
  ASSUME NEW V, IsFiniteSet(V), NEW a
  PROVE  /\ IsFiniteSet(On(V, a)) /\ Cardinality(On(V, a)) \in Nat
         /\ (a \in {v.address : v \in V}) <=> (Cardinality(On(V, a)) > 0)
<1>1. On(V, a) \in SUBSET V
  BY DEF On
<1>2. IsFiniteSet(On(V, a)) /\ Cardinality(On(V, a)) \in Nat
  BY <1>1, FS_Subset, FS_CardinalityType
<1>3. (a \in {v.address : v \in V}) <=> (On(V, a) # {})
  BY DEF On
<1>4. (Cardinality(On(V, a)) = 0) <=> (On(V, a) = {})
  BY <1>2, FS_EmptySet
<1> QED
  BY <1>2, <1>3, <1>4

LEMMA UncastCounted ==
  ASSUME NEW S, NEW V \in SUBSET Votes, IsFiniteSet(V), Live(S, V), NEW D \in SUBSET V
  PROVE  Uncast(Counted(S, V), D) = Counted(S, V \ D)
<1> DEFINE t == Counted(S, V)
           matching(a) == {v \in D : v.address = a /\ v.authorize = t[a].authorize}
           left(a) == t[a].votes - Cardinality(matching(a))
           dom == {x \in DOMAIN t : matching(x) = {} \/ left(x) > 0}
<1>1. IsFiniteSet(D) /\ IsFiniteSet(V \ D)
  BY FS_Subset
<1>2. ASSUME NEW a \in DOMAIN t
      PROVE  /\ t[a].authorize = (a \notin S)
             /\ matching(a) = On(D, a)
             /\ left(a) = Cardinality(On(V \ D, a))
             /\ a \in dom <=> a \in {v.address : v \in V \ D}
  <2>1. t[a].authorize = (a \notin S) /\ t[a].votes = Cardinality(On(V, a))
    BY DEF Counted
  <2>2. ASSUME NEW v \in D, v.address = a PROVE v.authorize = t[a].authorize
    <3>1. v.authorize \in BOOLEAN /\ (v.authorize <=> a \notin S)
      BY <2>2 DEF Votes, Live
    <3> QED
      BY <2>1, <3>1
  <2>3. matching(a) = On(D, a)
    BY <2>2 DEF On
  <2>4. /\ On(V \ D, a) = On(V, a) \ On(D, a)
        /\ On(D, a) \in SUBSET On(V, a)
    BY DEF On
  <2>5. Cardinality(On(V \ D, a)) = Cardinality(On(V, a)) - Cardinality(On(D, a))
    <3>1. On(V, a) \cap On(D, a) = On(D, a)
      BY <2>4
    <3>2. IsFiniteSet(On(V, a))
      BY OnFacts
    <3>3. Cardinality(On(V, a) \ On(D, a)) = Cardinality(On(V, a)) - Cardinality(On(V, a) \cap On(D, a))
      BY <3>2, FS_Difference
    <3> QED
      BY <2>4, <3>1, <3>3
  <2>6. left(a) = Cardinality(On(V \ D, a))
    BY <2>1, <2>3, <2>5
  <2>7. a \in {v.address : v \in V \ D} <=> Cardinality(On(V \ D, a)) > 0
    BY <1>1, OnFacts
  <2>8. matching(a) = {} => On(V \ D, a) = On(V, a)
    BY <2>3, <2>4
  <2>9. Cardinality(On(V, a)) > 0
    BY OnFacts DEF Counted
  <2> QED
    BY <2>1, <2>3, <2>6, <2>7, <2>8, <2>9
<1>3. dom = {v.address : v \in V \ D}
  <2>1. {v.address : v \in V \ D} \subseteq DOMAIN t
    BY DEF Counted
  <2> QED
    BY <1>2, <2>1
<1>4. Uncast(t, D) = [a \in dom |-> [authorize |-> t[a].authorize, votes |-> left(a)]]
  BY DEF Uncast
<1> QED
  BY <1>2, <1>3, <1>4 DEF Counted

LEMMA CastCounted ==
  ASSUME NEW S, NEW V \in SUBSET Votes, IsFiniteSet(V),
         NEW v \in Votes, v \notin V, v.authorize = (v.address \notin S)
  PROVE  Cast(Counted(S, V), v.address, v.authorize) = Counted(S, V \cup {v})
<1> DEFINE c == v.address
           t == Counted(S, V)
           U == V \cup {v}
           x == [authorize |-> v.authorize,
                 votes |-> IF c \in DOMAIN t /\ t[c].authorize = v.authorize
                           THEN t[c].votes + 1 ELSE 1]
<1>1. Cast(t, c, v.authorize) = [y \in DOMAIN t \cup {c} |-> IF y = c THEN x ELSE t[y]]
  BY DEF Cast, Including
<1>2. DOMAIN t = {w.address : w \in V} /\ DOMAIN t \cup {c} = {w.address : w \in U}
  BY DEF Counted
<1>3. ASSUME NEW y \in DOMAIN t, y # c
      PROVE  t[y] = [authorize |-> (y \notin S), votes |-> Cardinality(On(U, y))]
  <2>1. On(U, y) = On(V, y)
    BY <1>3 DEF On
  <2> QED
    BY <2>1 DEF Counted
<1>4. Cardinality(On(U, c)) = Cardinality(On(V, c)) + 1
  <2>1. On(U, c) = On(V, c) \cup {v} /\ v \notin On(V, c)
    BY DEF On
  <2>2. IsFiniteSet(On(V, c))
    BY OnFacts
  <2> QED
    BY <2>1, <2>2, FS_AddElement
<1>5. x.votes = Cardinality(On(U, c))
  <2>1. CASE c \in DOMAIN t
    <3>1. t[c].authorize = v.authorize /\ t[c].votes = Cardinality(On(V, c))
      BY <2>1 DEF Counted
    <3> QED
      BY <1>4, <2>1, <3>1
  <2>2. CASE c \notin DOMAIN t
    <3>1. Cardinality(On(V, c)) \in Nat /\ ~(Cardinality(On(V, c)) > 0)
      BY <1>2, <2>2, OnFacts
    <3> QED
      BY <1>4, <2>2, <3>1
  <2> QED
    BY <2>1, <2>2
<1>6. x = [authorize |-> (c \notin S), votes |-> Cardinality(On(U, c))]
  BY <1>5
<1>7. Counted(S, U) = [y \in DOMAIN t \cup {c} |->
                         [authorize |-> (y \notin S), votes |-> Cardinality(On(U, y))]]
  BY <1>2 DEF Counted
<1> HIDE DEF t, x, U, c
<1>8. Cast(t, c, v.authorize) = Counted(S, U)
  BY <1>1, <1>3, <1>6, <1>7
<1> QED
  BY <1>8 DEF t, U, c

Off(V, c) == {v \in V : v.address # c}

SameBut(c, S, T) == \A a : a # c => (a \in S <=> a \in T)

\* When c is resolved the count for the others is the same under both sets.
LEMMA WithoutCounted ==
  ASSUME NEW S, NEW T, NEW V, NEW c, SameBut(c, S, T)
  PROVE  Without(Counted(S, V), {c}) = Counted(T, Off(V, c))
<1> DEFINE W == Off(V, c)
<1>1. {v.address : v \in W} = {v.address : v \in V} \ {c}
  BY DEF Off
<1>2. ASSUME NEW a, a # c PROVE On(W, a) = On(V, a) /\ (a \notin S) = (a \notin T)
  BY <1>2 DEF On, Off, SameBut
<1> HIDE DEF W
<1> QED
  <2>1. Without(Counted(S, V), {c}) =
          [a \in {v.address : v \in V} \ {c} |->
             [authorize |-> (a \notin S), votes |-> Cardinality(On(V, a))]]
    BY DEF Without, Counted
  <2>2. Counted(T, W) =
          [a \in {v.address : v \in V} \ {c} |->
             [authorize |-> (a \notin T), votes |-> Cardinality(On(W, a))]]
    BY <1>1 DEF Counted
  <2>3. Without(Counted(S, V), {c}) = Counted(T, W)
    BY <1>2, <2>1, <2>2
  <2> QED
    BY <2>3 DEF W

-----------------------------------------------------------------------------
(* One vote *)

\* The votes without the one of s on c that the block replaces, and with the new one.
Kept(s, c) == votes \ {v \in votes : v.signer = s /\ v.address = c}

NewVote(s, c, authorize) == [signer |-> s, address |-> c, authorize |-> authorize]

\* After the old vote is taken back the tally counts the votes that are left;
\* a valid vote then joins them as one more live vote.
LEMMA VoteCounted ==
  ASSUME SnapshotInv, NEW s \in signers, NEW c \in Addresses, NEW authorize \in BOOLEAN
  PROVE  /\ Kept(s, c) \in SUBSET Votes /\ IsFiniteSet(Kept(s, c)) /\ Live(signers, Kept(s, c))
         /\ Uncast(tally, {v \in votes : v.signer = s /\ v.address = c})
              = Counted(signers, Kept(s, c))
         /\ ValidVote(c, authorize) =>
              LET U == Kept(s, c) \cup {NewVote(s, c, authorize)}
              IN  /\ U \in SUBSET Votes /\ IsFiniteSet(U) /\ Live(signers, U)
                  /\ Cast(Counted(signers, Kept(s, c)), c, authorize) = Counted(signers, U)
<1> DEFINE V == Kept(s, c)
           new == NewVote(s, c, authorize)
           U == V \cup {new}
<1>1. votes \in SUBSET Votes /\ IsFiniteSet(votes) /\ Live(signers, votes)
  BY DEF SnapshotInv, TypeOK
<1>2. V \in SUBSET votes
  BY DEF Kept
<1>3. V \in SUBSET Votes /\ IsFiniteSet(V)
  BY <1>1, <1>2, FS_Subset
<1>4. Live(signers, V)
  BY <1>1, <1>2 DEF Live
<1>5. Uncast(tally, {v \in votes : v.signer = s /\ v.address = c}) = Counted(signers, V)
  <2> DEFINE old == {v \in votes : v.signer = s /\ v.address = c}
  <2>1. old \in SUBSET votes /\ V = votes \ old
    BY DEF Kept
  <2> HIDE DEF old
  <2>2. Uncast(Counted(signers, votes), old) = Counted(signers, votes \ old)
    BY <1>1, <2>1, UncastCounted
  <2> QED
    BY <2>1, <2>2 DEF old, SnapshotInv
<1>6. ASSUME ValidVote(c, authorize)
      PROVE  /\ U \in SUBSET Votes /\ IsFiniteSet(U) /\ Live(signers, U)
             /\ Cast(Counted(signers, V), c, authorize) = Counted(signers, U)
  <2>1. /\ new \in Votes /\ new.signer = s /\ new.address = c /\ new.authorize = authorize
        /\ authorize = (c \notin signers)
    BY <1>6 DEF NewVote, Votes, ValidVote, SnapshotInv, TypeOK
  <2>2. \A v \in V : ~(v.signer = s /\ v.address = c)
    BY DEF Kept
  <2> HIDE DEF V, new
  <2>3. new \notin V
    BY <2>1, <2>2
  <2>4. U \in SUBSET Votes /\ IsFiniteSet(U)
    BY <1>3, <2>1, FS_AddElement
  <2>5. Live(signers, U)
    BY <1>4, <2>1, <2>2 DEF Live
  <2>6. Cast(Counted(signers, V), new.address, new.authorize) = Counted(signers, V \cup {new})
    BY <1>3, <2>1, <2>3, CastCounted
  <2> QED
    BY <2>1, <2>4, <2>5, <2>6
<1> QED
  BY <1>3, <1>4, <1>5, <1>6

\* What apply leaves of a vote, whether it is dropped, counted or resolved.
LEMMA VoteStep ==
  ASSUME SnapshotInv, NEW s \in signers, NEW c \in Addresses, NEW authorize \in BOOLEAN,
         VoteBlock(s, c, authorize)
  PROVE  /\ signers' \in SUBSET Addresses /\ votes' \in SUBSET Votes /\ IsFiniteSet(votes')
         /\ Live(signers', votes') /\ tally' = Counted(signers', votes')
<1> DEFINE old == {v \in votes : v.signer = s /\ v.address = c}
           V == Kept(s, c)
           t == Uncast(tally, old)
           U == V \cup {NewVote(s, c, authorize)}
<1>1. /\ V \in SUBSET Votes /\ IsFiniteSet(V) /\ Live(signers, V) /\ t = Counted(signers, V)
      /\ ValidVote(c, authorize) =>
           /\ U \in SUBSET Votes /\ IsFiniteSet(U) /\ Live(signers, U)
           /\ Cast(t, c, authorize) = Counted(signers, U)
  BY VoteCounted
<1>2. signers \in SUBSET Addresses
  BY DEF SnapshotInv, TypeOK
<1>3. CountVote(s, c, authorize, V, t) \/ ResolveVote(s, c, authorize, V, t)
  BY DEF VoteBlock, Kept
<1> HIDE DEF V, t
<1>4. CASE CountVote(s, c, authorize, V, t)
  BY <1>1, <1>2, <1>4 DEF CountVote, NewVote
<1>5. CASE ResolveVote(s, c, authorize, V, t)
  <2> DEFINE own == IF authorize THEN {} ELSE {v \in U : v.signer = c}
             W == U \ own
  <2>1. /\ ValidVote(c, authorize)
        /\ signers' = IF authorize THEN signers \cup {c} ELSE signers \ {c}
        /\ votes' = {v \in W : v.address # c}
        /\ tally' = Without(Uncast(Cast(t, c, authorize), own), {c})
    BY <1>5 DEF ResolveVote, NewVote
  <2>2. /\ U \in SUBSET Votes /\ IsFiniteSet(U) /\ Live(signers, U)
        /\ Cast(t, c, authorize) = Counted(signers, U)
    BY <1>1, <2>1
  <2>3. own \in SUBSET U /\ votes' \in SUBSET U /\ signers' \in SUBSET Addresses
    BY <1>2, <2>1
  <2>4. votes' \in SUBSET Votes /\ IsFiniteSet(votes')
    BY <2>2, <2>3, FS_Subset
  <2>5. SameBut(c, signers, signers')
    BY <2>1 DEF SameBut
  <2>6. \A v \in votes' : v \in U /\ v.address # c /\ (~authorize => v.signer # c)
    BY <2>1
  <2> HIDE DEF own, U
  <2>7. Live(signers', votes')
    BY <2>1, <2>2, <2>5, <2>6 DEF Live, SameBut
  <2>8. Uncast(Counted(signers, U), own) = Counted(signers, W)
    BY <2>2, <2>3, UncastCounted
  <2> HIDE DEF W
  <2>9. Without(Counted(signers, W), {c}) = Counted(signers', Off(W, c))
    BY <2>5, WithoutCounted
  <2> QED
    BY <2>1, <2>2, <2>3, <2>4, <2>7, <2>8, <2>9 DEF Off
<1> QED
  BY <1>3, <1>4, <1>5

-----------------------------------------------------------------------------
(* The invariant *)

LEMMA CountedType ==
  ASSUME NEW S, NEW V \in SUBSET Votes, IsFiniteSet(V)
  PROVE  /\ DOMAIN Counted(S, V) \subseteq Addresses
         /\ Counted(S, V) \in [DOMAIN Counted(S, V) -> Tallies]
  BY OnFacts DEF Counted, Votes, Tallies

\* apply keeps in Recents only blocks up to this one.
LEMMA RecentsStep ==
  ASSUME TypeOK, NEW s \in Addresses, NEW S, RecordSigner(number + 1, s, S)
  PROVE  /\ DOMAIN recents' \subseteq 1..(number + 1)
         /\ recents' \in [DOMAIN recents' -> Addresses]
<1> DEFINE n == number + 1
           kept == Evict(n, S)
           entries == Including(kept, n, s)
<1>1. /\ DOMAIN recents \subseteq 1..number /\ recents \in [DOMAIN recents -> Addresses]
      /\ number \in Nat
  BY AddressesAssumption DEF TypeOK
<1>2. DOMAIN kept \subseteq DOMAIN recents /\ \A b \in DOMAIN kept : kept[b] = recents[b]
  BY DEF Evict, Without
<1> HIDE DEF kept
<1>3. /\ DOMAIN entries \subseteq 1..n
      /\ \A b \in DOMAIN entries : entries[b] \in Addresses
  BY <1>1, <1>2 DEF Including
<1>4. recents' = Without(entries, {b \in DOMAIN entries :
                                     entries[b] \in S /\ entries[b] \notin signers'})
  BY DEF RecordSigner, kept
<1> HIDE DEF entries
<1>5. /\ DOMAIN recents' \subseteq DOMAIN entries
      /\ \A b \in DOMAIN recents' : recents'[b] = entries[b]
      /\ recents' = [b \in DOMAIN recents' |-> recents'[b]]
  BY <1>3, <1>4 DEF Without
<1> QED
  BY <1>3, <1>5

LEMMA SnapshotInvInit == Init => SnapshotInv
<1> SUFFICES ASSUME Init PROVE SnapshotInv
  OBVIOUS
<1>1. votes = {} /\ IsFiniteSet(votes) /\ votes \in SUBSET Votes
  BY FS_EmptySet DEF Init
<1>2. tally = Counted(signers, votes)
  BY <1>1 DEF Init, Counted
<1>3. /\ DOMAIN recents = {} /\ recents \in [DOMAIN recents -> Addresses]
      /\ number \in 0..MaxNumber /\ signers \subseteq Addresses
  BY AddressesAssumption DEF Init
<1>4. DOMAIN tally \subseteq Addresses /\ tally \in [DOMAIN tally -> Tallies]
  BY <1>1, <1>2, CountedType
<1>5. admitted \in BOOLEAN
  BY Zenon DEF Init
<1> QED
  BY <1>1, <1>2, <1>3, <1>4, <1>5 DEF SnapshotInv, TypeOK, Live

LEMMA SnapshotInvNext == SnapshotInv /\ [Next]_vars => SnapshotInv'
<1> SUFFICES ASSUME SnapshotInv, [Next]_vars PROVE SnapshotInv'
  OBVIOUS
<1>1. CASE UNCHANGED vars
  BY <1>1 DEF vars, snapshotVars, SnapshotInv, TypeOK
<1>2. ASSUME NEW s \in Addresses, NEW c \in Addresses \cup {NoAddress},
             NEW authorize \in BOOLEAN, NEW list \in SUBSET Addresses,
             Apply(s, c, authorize, list)
      PROVE  SnapshotInv'
  <2>1. /\ s \in signers /\ number + 1 <= MaxNumber /\ number' = number + 1
        /\ RecordSigner(number + 1, s, Authorized(list)) /\ admitted' \in BOOLEAN
    BY <1>2 DEF Apply, VerifyHeader
  <2>2. /\ signers' \in SUBSET Addresses /\ votes' \in SUBSET Votes /\ IsFiniteSet(votes')
        /\ Live(signers', votes') /\ tally' = Counted(signers', votes')
    <3>1. CASE EpochBlock(list)
      <4>1. votes' = {} /\ signers' \in SUBSET Addresses
        BY <3>1 DEF EpochBlock
      <4>2. tally' = Counted(signers', votes')
        BY <3>1, <4>1 DEF EpochBlock, Counted
      <4> QED
        BY <4>1, <4>2, FS_EmptySet DEF Live
    <3>2. CASE UNCHANGED <<signers, votes, tally>>
      BY <3>2 DEF SnapshotInv, TypeOK
    <3>3. CASE c \in Addresses /\ VoteBlock(s, c, authorize)
      BY <2>1, <3>3, VoteStep
    <3> QED
      BY <1>2, <3>1, <3>2, <3>3 DEF Apply, IsVote
  <2>3. DOMAIN tally' \subseteq Addresses /\ tally' \in [DOMAIN tally' -> Tallies]
    BY <2>2, CountedType
  <2>4. /\ DOMAIN recents' \subseteq 1..(number + 1)
        /\ recents' \in [DOMAIN recents' -> Addresses]
    BY <2>1, RecentsStep DEF SnapshotInv
  <2>5. number' \in 0..MaxNumber
    BY <2>1, AddressesAssumption DEF SnapshotInv, TypeOK
  <2> QED
    BY <2>1, <2>2, <2>3, <2>4, <2>5 DEF SnapshotInv, TypeOK
<1> QED
  BY <1>1, <1>2 DEF Next

\* The invariant of this module: types, live votes, and a tally that is the
\* count of the votes from scratch.
THEOREM SnapshotCorrect == Spec => []SnapshotInv
  BY SnapshotInvInit, SnapshotInvNext, PTL DEF Spec

\* The snapshot's maps hold addresses and counts, and no vote is on the zero
\* address (apply).
THEOREM SnapshotTypeCorrect == Spec => []TypeOK
<1>1. SnapshotInv => TypeOK
  BY DEF SnapshotInv
<1> QED
  BY <1>1, SnapshotCorrect, PTL

\* The tally that cast and uncast maintain is the count of the pending votes.
THEOREM TallyCorrect == Spec => []TallyCountsVotes
<1>1. SnapshotInv => TallyCountsVotes
  <2> SUFFICES ASSUME SnapshotInv PROVE TallyCountsVotes
    OBVIOUS
  <2>1. /\ tally = Counted(signers, votes) /\ votes \in SUBSET Votes /\ Live(signers, votes)
        /\ DOMAIN tally = {v.address : v \in votes}
    BY DEF SnapshotInv, TypeOK, Counted
  <2>2. ASSUME NEW a \in DOMAIN tally
        PROVE  tally[a].votes = Cardinality({v \in votes : v.address = a
                                               /\ v.authorize = tally[a].authorize})
    <3>1. tally[a].authorize = (a \notin signers) /\ tally[a].votes = Cardinality(On(votes, a))
      BY <2>1 DEF Counted
    <3>2. ASSUME NEW v \in votes, v.address = a PROVE v.authorize = tally[a].authorize
      <4>1. v.authorize \in BOOLEAN /\ (v.authorize <=> a \notin signers)
        BY <2>1, <3>2 DEF Votes, Live
      <4> QED
        BY <3>1, <4>1
    <3>3. On(votes, a) = {v \in votes : v.address = a /\ v.authorize = tally[a].authorize}
      BY <3>2 DEF On
    <3> QED
      BY <3>1, <3>3
  <2> QED
    BY <2>1, <2>2 DEF TallyCountsVotes
<1> QED
  BY <1>1, SnapshotCorrect, PTL

\* Pending votes are by signers, one per signer and address, and ask for a
\* change of the signer set, through every vote, removal and epoch (apply).
THEOREM VotesLive == Spec => []VotesAreLive
<1>1. SnapshotInv => VotesAreLive
  BY DEF SnapshotInv, Live, VotesAreLive
<1> QED
  BY <1>1, SnapshotCorrect, PTL

-----------------------------------------------------------------------------
(* Majorities *)

\* Live votes on one address are as many as their signers.
LEMMA OneVoteEach ==
  ASSUME NEW S, NEW V, IsFiniteSet(V), Live(S, V), NEW a
  PROVE  /\ {v.signer : v \in On(V, a)} \in SUBSET S
         /\ Cardinality({v.signer : v \in On(V, a)}) = Cardinality(On(V, a))
<1> DEFINE A == On(V, a)
           X == {v.signer : v \in A}
           f == [v \in A |-> v.signer]
<1>1. IsFiniteSet(A)
  BY OnFacts
<1>2. f \in Surjection(A, X)
  BY DEF Surjection
<1>3. f \in Injection(A, X)
  BY DEF Injection, IsInjective, On, Live
<1>4. X \in SUBSET S
  BY DEF On, Live
<1> HIDE DEF A, X, f
<1>5. Cardinality(X) = Cardinality(A)
  BY <1>1, <1>2, <1>3, FS_Surjection
<1> QED
  BY <1>4, <1>5 DEF A, X

\* A resolved vote and the pending ones on the candidate are more than half of
\* the signers.
LEMMA ResolvedVotes ==
  ASSUME SnapshotInv, NEW s \in signers, NEW c \in Addresses, NEW authorize \in BOOLEAN,
         ResolveVote(s, c, authorize, Kept(s, c),
                     Uncast(tally, {v \in votes : v.signer = s /\ v.address = c}))
  PROVE  LET U == Kept(s, c) \cup {NewVote(s, c, authorize)}
         IN  /\ ValidVote(c, authorize) /\ IsFiniteSet(U) /\ Live(signers, U)
             /\ Cardinality(On(U, c)) > Cardinality(signers) \div 2
<1> DEFINE U == Kept(s, c) \cup {NewVote(s, c, authorize)}
<1>1. /\ ValidVote(c, authorize)
      /\ IsMajority(Cast(Counted(signers, Kept(s, c)), c, authorize)[c].votes)
  BY VoteCounted DEF ResolveVote
<1>2. /\ IsFiniteSet(U) /\ Live(signers, U)
      /\ Cast(Counted(signers, Kept(s, c)), c, authorize) = Counted(signers, U)
  BY <1>1, VoteCounted
<1>3. Counted(signers, U)[c].votes = Cardinality(On(U, c))
  <2>1. c \in {v.address : v \in U}
    <3>1. NewVote(s, c, authorize) \in U /\ NewVote(s, c, authorize).address = c
      BY DEF NewVote
    <3> QED
      BY <3>1
  <2> HIDE DEF U
  <2> QED
    BY <2>1 DEF Counted
<1> QED
  BY <1>1, <1>2, <1>3 DEF IsMajority

LEMMA SignersFinite ==
  ASSUME SnapshotInv
  PROVE  IsFiniteSet(signers) /\ Cardinality(signers) \in Nat /\ Limit(signers) \in Nat
<1>1. signers \in SUBSET Addresses
  BY DEF SnapshotInv, TypeOK
<1>2. IsFiniteSet(signers)
  BY <1>1, AddressesAssumption, FS_Subset
<1>3. Cardinality(signers) \in Nat
  BY <1>2, FS_CardinalityType
<1> QED
  BY <1>2, <1>3 DEF Limit

LEMMA ResolveIsMajority ==
  ASSUME SnapshotInv, NEW s \in signers, NEW c \in Addresses, NEW authorize \in BOOLEAN,
         ResolveVote(s, c, authorize, Kept(s, c),
                     Uncast(tally, {v \in votes : v.signer = s /\ v.address = c})),
         NEW Y, s \in Y
  PROVE  2 * Cardinality(({v.signer : v \in {w \in votes : w.address = c}} \cup Y) \cap signers)
           > Cardinality(signers)
<1> DEFINE U == Kept(s, c) \cup {NewVote(s, c, authorize)}
           X == {v.signer : v \in On(U, c)}
           Z == ({v.signer : v \in {w \in votes : w.address = c}} \cup Y) \cap signers
<1>1. /\ IsFiniteSet(U) /\ Live(signers, U)
      /\ Cardinality(On(U, c)) > Cardinality(signers) \div 2
  BY ResolvedVotes
<1>2. X \in SUBSET Z
  <2>1. X \in SUBSET signers
    BY <1>1, OneVoteEach
  <2>2. \A v \in On(U, c) : v = NewVote(s, c, authorize) \/ (v \in votes /\ v.address = c)
    BY DEF On, Kept
  <2>3. NewVote(s, c, authorize).signer = s
    BY DEF NewVote
  <2> QED
    BY <2>1, <2>2, <2>3
<1>3. Z \in SUBSET signers
  OBVIOUS
<1> HIDE DEF X, Z, U
<1>4. IsFiniteSet(Z) /\ Cardinality(signers) \in Nat
  BY <1>3, SignersFinite, FS_Subset
<1>5. /\ Cardinality(X) <= Cardinality(Z)
      /\ Cardinality(X) \in Nat /\ Cardinality(Z) \in Nat
  BY <1>2, <1>4, FS_Subset, FS_CardinalityType
<1>6. Cardinality(X) > Cardinality(signers) \div 2
  BY <1>1, OneVoteEach DEF X
<1>7. 2 * Cardinality(Z) > Cardinality(signers)
  BY <1>4, <1>5, <1>6
<1> QED
  BY <1>7 DEF Z

LEMMA ChangeStep == SnapshotInv /\ [Next]_vars => [SignerChange]_vars
<1> SUFFICES ASSUME SnapshotInv, Next PROVE SignerChange
  OBVIOUS
<1> SUFFICES ASSUME signers' # signers PROVE SignerChange
  BY DEF SignerChange
<1>1. PICK s \in Addresses, c \in Addresses \cup {NoAddress}, authorize \in BOOLEAN,
           list \in SUBSET Addresses : Apply(s, c, authorize, list)
  BY DEF Next
<1>2. /\ s \in signers /\ number' = number + 1 /\ last' = Including(last, s, number + 1)
      /\ list # {} <=> number' % Epoch = 0
  BY <1>1 DEF Apply, VerifyHeader
<1>3. s \in DOMAIN last' /\ last'[s] = number'
  BY <1>2 DEF Including
<1>4. CASE list # {}
  <2>1. s \in signers'
    BY <1>1, <1>4 DEF Apply, EpochBlock, Applicable, Authorized
  <2> QED
    BY <1>2, <1>3, <1>4, <2>1 DEF SignerChange
<1>5. CASE list = {}
  <2>1. c \in Addresses /\ VoteBlock(s, c, authorize)
    BY <1>1, <1>5 DEF Apply, IsVote
  <2>2. ResolveVote(s, c, authorize, Kept(s, c),
                    Uncast(tally, {v \in votes : v.signer = s /\ v.address = c}))
    BY <2>1 DEF VoteBlock, CountVote, Kept
  <2>3. signers' \in {signers \cup {c}, signers \ {c}}
    BY <2>2 DEF ResolveVote
  <2> DEFINE Y == {x \in DOMAIN last' : last'[x] = number'}
  <2>4. s \in Y
    BY <1>3
  <2> HIDE DEF Y
  <2>5. 2 * Cardinality(({v.signer : v \in {w \in votes : w.address = c}} \cup Y) \cap signers)
          > Cardinality(signers)
    BY <1>2, <2>1, <2>2, <2>4, ResolveIsMajority
  <2>6. MajorityOn(c)
    BY <2>5 DEF MajorityOn, Y
  <2> QED
    BY <1>2, <1>5, <2>1, <2>3, <2>6 DEF SignerChange
<1> QED
  BY <1>4, <1>5

\* No sequence of votes, changed votes, removals and epochs changes the signer
\* set within an epoch unless more than half of the signers ask for it; the list
\* of an epoch block replaces it, but the block's signer is in the set before and
\* after (apply, VerifyHeader).
THEOREM ChangeRules == Spec => SignerChanges
  BY SnapshotCorrect, ChangeStep, PTL DEF Spec, SignerChanges

-----------------------------------------------------------------------------
(* Waiting *)

\* Who signed before waits: because the block is still in Recents, because
\* enough blocks have passed, or because it is no signer, and the votes that it
\* needs to become one again take a block each.
Waiting(s) ==
  \/ last[s] \in DOMAIN recents /\ recents[last[s]] = s
  \/ last[s] + Limit(signers) <= number + 1
  \/ s \notin signers /\ Cardinality(On(votes, s)) <= number - last[s]

WaitInv ==
  \A s \in DOMAIN last : /\ s \in Addresses /\ last[s] \in 1..number
                         /\ ~admitted => Waiting(s)

LEMMA LimitGrows ==
  ASSUME NEW S, IsFiniteSet(S), NEW c, NEW T, T \in {S, S \cup {c}, S \ {c}}
  PROVE  Limit(T) \in Nat /\ Limit(T) <= Limit(S) + 1
<1>1. Cardinality(S) \in Nat
  BY FS_CardinalityType
<1>2. /\ Cardinality(S \cup {c}) \in {Cardinality(S), Cardinality(S) + 1}
      /\ Cardinality(S \ {c}) \in {Cardinality(S), Cardinality(S) - 1}
      /\ Cardinality(S \ {c}) \in Nat
  <2>1. IsFiniteSet(S \ {c})
    BY FS_RemoveElement
  <2> QED
    BY <2>1, FS_AddElement, FS_RemoveElement, FS_CardinalityType
<1>3. /\ Cardinality(T) \in {Cardinality(S), Cardinality(S) + 1, Cardinality(S) - 1}
      /\ Cardinality(T) \in Nat
  <2>1. CASE T = S
    BY <1>1, <2>1
  <2>2. CASE T = S \cup {c}
    BY <1>1, <1>2, <2>2
  <2>3. CASE T = S \ {c}
    BY <1>1, <1>2, <2>3
  <2> QED
    BY <2>1, <2>2, <2>3
<1> QED
  BY <1>1, <1>3 DEF Limit

LEMMA OnGrows ==
  ASSUME NEW V, IsFiniteSet(V), NEW w, NEW W, W \in SUBSET (V \cup {w}), NEW a
  PROVE  /\ Cardinality(On(W, a)) \in Nat /\ Cardinality(On(V, a)) \in Nat
         /\ Cardinality(On(W, a)) <= Cardinality(On(V, a)) + 1
<1>1. IsFiniteSet(On(V, a)) /\ Cardinality(On(V, a)) \in Nat
  BY OnFacts
<1>2. IsFiniteSet(On(V, a) \cup {w}) /\ Cardinality(On(V, a) \cup {w}) <= Cardinality(On(V, a)) + 1
  BY <1>1, FS_AddElement
<1>3. On(W, a) \in SUBSET (On(V, a) \cup {w})
  BY DEF On
<1>4. Cardinality(On(V, a) \cup {w}) \in Nat
  BY <1>2, FS_CardinalityType
<1>5. /\ Cardinality(On(W, a)) <= Cardinality(On(V, a) \cup {w}) /\ Cardinality(On(W, a)) \in Nat
  BY <1>2, <1>3, FS_Subset, FS_CardinalityType
<1> QED
  BY <1>1, <1>2, <1>4, <1>5

\* What a block does to the votes on an address, by what becomes of the address.
VotesOn(x) ==
  /\ Cardinality(On(votes, x)) \in Nat /\ Cardinality(On(votes', x)) \in Nat
  /\ x \in signers /\ x \notin signers' => Cardinality(On(votes', x)) = 0
  /\ x \notin signers /\ x \notin signers' =>
       Cardinality(On(votes', x)) <= Cardinality(On(votes, x)) + 1
  /\ x \notin signers /\ x \in signers' => Cardinality(On(votes, x)) + 1 >= Limit(signers)

LEMMA VotesOnStep ==
  ASSUME SnapshotInv, NEW s \in signers, NEW c \in Addresses, NEW authorize \in BOOLEAN,
         VoteBlock(s, c, authorize), NEW x
  PROVE  VotesOn(x) /\ signers' \in {signers, signers \cup {c}, signers \ {c}}
<1> DEFINE V == Kept(s, c)
           t == Uncast(tally, {v \in votes : v.signer = s /\ v.address = c})
           new == NewVote(s, c, authorize)
           U == V \cup {new}
<1>1. IsFiniteSet(votes) /\ U \in SUBSET (votes \cup {new}) /\ V \in SUBSET (votes \cup {new})
  BY DEF SnapshotInv, Kept
<1>2. CountVote(s, c, authorize, V, t) \/ ResolveVote(s, c, authorize, V, t)
  BY DEF VoteBlock, Kept
<1> HIDE DEF V, t
<1>3. CASE CountVote(s, c, authorize, V, t)
  <2>1. signers' = signers /\ votes' \in SUBSET (votes \cup {new})
    BY <1>1, <1>3 DEF CountVote, NewVote
  <2> HIDE DEF new
  <2>2. /\ Cardinality(On(votes', x)) \in Nat /\ Cardinality(On(votes, x)) \in Nat
        /\ Cardinality(On(votes', x)) <= Cardinality(On(votes, x)) + 1
    BY <1>1, <2>1, OnGrows
  <2> QED
    BY <2>1, <2>2 DEF VotesOn
<1>4. CASE ResolveVote(s, c, authorize, V, t)
  <2>1. /\ signers' = IF authorize THEN signers \cup {c} ELSE signers \ {c}
        /\ votes' \in SUBSET U /\ \A v \in votes' : v.address # c
        /\ ValidVote(c, authorize)
    BY <1>4 DEF ResolveVote, NewVote
  <2>2. Cardinality(On(U, c)) > Cardinality(signers) \div 2
    BY <1>4, ResolvedVotes DEF V, t
  <2> HIDE DEF new, U
  <2>3. /\ Cardinality(On(votes', x)) \in Nat /\ Cardinality(On(votes, x)) \in Nat
        /\ Cardinality(On(votes', x)) <= Cardinality(On(votes, x)) + 1
    BY <1>1, <2>1, OnGrows
  <2>4. /\ Cardinality(On(U, c)) \in Nat
        /\ Cardinality(On(U, c)) <= Cardinality(On(votes, c)) + 1
    BY <1>1, OnGrows
  <2>5. On(votes', c) = {} /\ Cardinality({}) = 0
    BY <2>1, FS_EmptySet DEF On
  <2>6. x # c => (x \in signers <=> x \in signers')
    BY <2>1
  <2>7. x \in signers /\ x \notin signers' => Cardinality(On(votes', x)) = 0
    BY <2>5, <2>6
  <2>8. ASSUME x \notin signers, x \in signers' PROVE Cardinality(On(votes, x)) + 1 >= Limit(signers)
    <3>1. x = c
      BY <2>6, <2>8
    <3> QED
      BY <2>2, <2>3, <2>4, <3>1, SignersFinite DEF Limit
  <2> QED
    BY <2>1, <2>3, <2>7, <2>8 DEF VotesOn
<1> QED
  BY <1>2, <1>3, <1>4

\* apply drops an entry of Recents only when its window ends or its signer is
\* voted out, and records the signer of the block.
LEMMA RecentsKept ==
  ASSUME TypeOK, NEW s, NEW S, RecordSigner(number + 1, s, S)
  PROVE  /\ s \in signers' => number + 1 \in DOMAIN recents' /\ recents'[number + 1] = s
         /\ \A b \in DOMAIN recents :
              (recents[b] \in S => recents[b] \in signers') /\ b # (number + 1) - Limit(S)
                => b \in DOMAIN recents' /\ recents'[b] = recents[b]
<1> DEFINE n == number + 1
           kept == Evict(n, S)
           entries == Including(kept, n, s)
           gone == {b \in DOMAIN entries : entries[b] \in S /\ entries[b] \notin signers'}
<1>1. DOMAIN recents \subseteq 1..number /\ number \in Nat
  BY AddressesAssumption DEF TypeOK
<1>2. recents' = [b \in DOMAIN entries \ gone |-> entries[b]]
  BY DEF RecordSigner, Without
<1>3. /\ DOMAIN kept = DOMAIN recents \ {n - Limit(S)}
      /\ \A b \in DOMAIN kept : kept[b] = recents[b]
  BY DEF Evict, Without
<1> HIDE DEF kept
<1>4. /\ n \in DOMAIN entries /\ entries[n] = s
      /\ \A b \in DOMAIN kept : b \in DOMAIN entries /\ (b # n => entries[b] = kept[b])
  BY DEF Including
<1> HIDE DEF entries
<1>5. \A b \in DOMAIN recents : b # n
  BY <1>1
<1> HIDE DEF n
<1>6. \A b \in DOMAIN entries :
        (entries[b] \in S => entries[b] \in signers')
          => b \in DOMAIN recents' /\ recents'[b] = entries[b]
  BY <1>2
<1>7. s \in signers' => n \in DOMAIN recents' /\ recents'[n] = s
  BY <1>4, <1>6
<1>8. ASSUME NEW b \in DOMAIN recents, recents[b] \in S => recents[b] \in signers',
             b # n - Limit(S)
      PROVE  b \in DOMAIN recents' /\ recents'[b] = recents[b]
  BY <1>3, <1>4, <1>5, <1>6, <1>8
<1> QED
  BY <1>7, <1>8 DEF n

LEMMA LimitMonotone ==
  ASSUME NEW S, IsFiniteSet(S), NEW T \in SUBSET S
  PROVE  Limit(T) \in Nat /\ Limit(S) \in Nat /\ Limit(T) <= Limit(S)
<1>1. Cardinality(S) \in Nat /\ Cardinality(T) \in Nat /\ Cardinality(T) <= Cardinality(S)
  BY FS_Subset, FS_CardinalityType
<1> QED
  BY <1>1 DEF Limit

\* What a block does to the signers and to the votes, if its list admits nobody.
LEMMA ApplyFacts ==
  ASSUME SnapshotInv, NEW s \in Addresses, NEW c \in Addresses \cup {NoAddress},
         NEW authorize \in BOOLEAN, NEW list \in SUBSET signers,
         Apply(s, c, authorize, list), NEW x
  PROVE  LET S == Authorized(list)
         IN  /\ VotesOn(x) /\ S \in SUBSET signers
             /\ Limit(signers) \in Nat /\ Limit(S) \in Nat /\ Limit(signers') \in Nat
             /\ Limit(S) <= Limit(signers) /\ Limit(signers') <= Limit(S) + 1
<1> DEFINE S == Authorized(list)
<1>1. s \in signers /\ IsFiniteSet(signers) /\ S \in SUBSET signers
  BY SignersFinite DEF Apply, VerifyHeader, Authorized
<1>2. IsFiniteSet(votes) /\ Cardinality(On(votes, x)) \in Nat
  BY OnFacts DEF SnapshotInv
<1>3. VotesOn(x) /\ signers' \in {S, S \cup {c}, S \ {c}}
  <2>1. CASE list # {}
    <3>1. signers' = list /\ On(votes', x) = {} /\ Cardinality({}) = 0
      BY <2>1, FS_EmptySet DEF Apply, EpochBlock, On
    <3> QED
      BY <1>2, <2>1, <3>1 DEF VotesOn, Authorized
  <2>2. CASE list = {} /\ UNCHANGED <<signers, votes, tally>>
    BY <1>2, <2>2 DEF VotesOn, Authorized
  <2>3. CASE list = {} /\ c \in Addresses /\ VoteBlock(s, c, authorize)
    BY <1>1, <2>3, VotesOnStep DEF Authorized
  <2> QED
    BY <2>1, <2>2, <2>3 DEF Apply, IsVote
<1> HIDE DEF S
<1>4. IsFiniteSet(S)
  BY <1>1, FS_Subset
<1>5. Limit(signers') \in Nat /\ Limit(signers') <= Limit(S) + 1
  BY <1>3, <1>4, LimitGrows
<1>6. Limit(signers) \in Nat /\ Limit(S) \in Nat /\ Limit(S) <= Limit(signers)
  BY <1>1, LimitMonotone
<1> QED
  BY <1>1, <1>3, <1>5, <1>6 DEF S

LEMMA WaitStep ==
  ASSUME SnapshotInv, WaitInv, [Next]_vars
  PROVE  WaitInv'
<1>1. CASE UNCHANGED vars
  BY <1>1 DEF vars, snapshotVars, WaitInv, Waiting
<1>2. ASSUME NEW s \in Addresses, NEW c \in Addresses \cup {NoAddress},
             NEW authorize \in BOOLEAN, NEW list \in SUBSET Addresses,
             Apply(s, c, authorize, list)
      PROVE  WaitInv'
  <2> DEFINE S == Authorized(list)
  <2>1. /\ s \in signers /\ number' = number + 1 /\ RecordSigner(number + 1, s, S)
        /\ last' = Including(last, s, number + 1) /\ number \in Nat
        /\ admitted' = (admitted \/ ~(list \subseteq signers))
    BY <1>2, AddressesAssumption DEF Apply, VerifyHeader, SnapshotInv, TypeOK
  <2>a. SUFFICES ASSUME NEW x \in DOMAIN last'
                 PROVE  /\ x \in Addresses /\ last'[x] \in 1..number'
                        /\ ~admitted' => Waiting(x)'
    BY DEF WaitInv
  <2>b. x \in Addresses /\ last'[x] \in 1..number'
    BY <2>1 DEF Including, WaitInv
  <2>2. SUFFICES ASSUME ~admitted' PROVE Waiting(x)'
    BY <2>b
  <2>c. ~admitted /\ list \in SUBSET signers
    BY <2>1, <2>2
  <2>3. /\ VotesOn(x) /\ S \in SUBSET signers
        /\ Limit(signers) \in Nat /\ Limit(S) \in Nat /\ Limit(signers') \in Nat
        /\ Limit(S) <= Limit(signers) /\ Limit(signers') <= Limit(S) + 1
    BY <1>2, <2>c, ApplyFacts
  <2>4. /\ s \in signers' => number + 1 \in DOMAIN recents' /\ recents'[number + 1] = s
        /\ \A b \in DOMAIN recents :
             (recents[b] \in S => recents[b] \in signers') /\ b # (number + 1) - Limit(S)
               => b \in DOMAIN recents' /\ recents'[b] = recents[b]
    BY <2>1, RecentsKept DEF SnapshotInv
  <2> HIDE DEF S
  <2>5. CASE x = s
    <3>1. last'[x] = number + 1
      BY <2>1, <2>5 DEF Including
    <3>2. CASE s \in signers'
      BY <2>1, <2>4, <2>5, <3>1, <3>2 DEF Waiting
    <3>3. CASE s \notin signers'
      BY <2>1, <2>3, <2>5, <3>1, <3>3 DEF Waiting, VotesOn
    <3> QED
      BY <3>2, <3>3
  <2>6. CASE x # s
    <3>1. x \in DOMAIN last /\ last'[x] = last[x]
      BY <2>1, <2>6 DEF Including
    <3>2. x \in Addresses /\ last[x] \in 1..number /\ Waiting(x)
      BY <2>c, <3>1 DEF WaitInv
    <3>3. ASSUME last[x] \in DOMAIN recents, recents[last[x]] = x
          PROVE  Waiting(x)'
      <4>1. CASE last[x] = (number + 1) - Limit(S)
        BY <2>1, <2>3, <3>1, <3>2, <4>1 DEF Waiting
      <4>2. CASE (x \in S => x \in signers') /\ last[x] # (number + 1) - Limit(S)
        BY <2>4, <3>1, <3>3, <4>2 DEF Waiting
      <4>3. CASE x \in S /\ x \notin signers'
        BY <2>1, <2>3, <3>1, <3>2, <4>3 DEF Waiting, VotesOn
      <4> QED
        BY <4>1, <4>2, <4>3
    <3>4. ASSUME last[x] + Limit(signers) <= number + 1 PROVE Waiting(x)'
      BY <2>1, <2>3, <3>1, <3>2, <3>4 DEF Waiting
    <3>5. ASSUME x \notin signers, Cardinality(On(votes, x)) <= number - last[x]
          PROVE  Waiting(x)'
      <4>1. CASE x \in signers'
        <5>1. Cardinality(On(votes, x)) + 1 >= Limit(signers) /\ Cardinality(On(votes, x)) \in Nat
          BY <2>3, <3>5, <4>1 DEF VotesOn
        <5> QED
          BY <2>1, <2>3, <3>1, <3>2, <3>5, <5>1 DEF Waiting
      <4>2. CASE x \notin signers'
        <5>1. /\ Cardinality(On(votes', x)) <= Cardinality(On(votes, x)) + 1
              /\ Cardinality(On(votes, x)) \in Nat /\ Cardinality(On(votes', x)) \in Nat
          BY <2>3, <3>5, <4>2 DEF VotesOn
        <5> QED
          BY <2>1, <3>1, <3>2, <3>5, <4>2, <5>1 DEF Waiting
      <4> QED
        BY <4>1, <4>2
    <3>6. Waiting(x)'
      BY <3>2, <3>3, <3>4, <3>5 DEF Waiting
    <3> QED
      BY <3>6
  <2> QED
    BY <2>5, <2>6
<1> QED
  BY <1>1, <1>2 DEF Next

\* As long as no epoch block lists an address that is no signer, no sequence of
\* votes, removals, readmissions and epochs lets a signer sign again before Limit
\* blocks have passed (VerifyHeader, apply).
THEOREM WaitingRules == Spec => SignersWait
<1>1. Init => WaitInv
  BY DEF Init, WaitInv
<1>2. SnapshotInv /\ WaitInv /\ [Next]_vars => WaitInv'
  BY WaitStep
<1>3. SnapshotInv /\ WaitInv /\ [Next]_vars => [SignerWaits]_vars
  <2> SUFFICES ASSUME SnapshotInv, WaitInv, Next, ~admitted,
                      NEW x \in DOMAIN last, last'[x] # last[x]
               PROVE  last'[x] >= last[x] + Limit(signers)
    BY DEF SignerWaits
  <2>1. PICK s \in Addresses, c \in Addresses \cup {NoAddress}, authorize \in BOOLEAN,
             list \in SUBSET Addresses : Apply(s, c, authorize, list)
    BY DEF Next
  <2>2. /\ s \in signers /\ ~HasRecentlySigned(number + 1, s)
        /\ last' = Including(last, s, number + 1)
    BY <2>1 DEF Apply, VerifyHeader
  <2>3. x = s /\ last'[x] = number + 1
    BY <2>2 DEF Including
  <2>4. Limit(signers) \in Nat /\ number \in Nat /\ last[x] \in 1..number
    BY SignersFinite, AddressesAssumption DEF SnapshotInv, TypeOK, WaitInv
  <2>5. last[x] + Limit(signers) <= number + 1
    BY <2>2, <2>3, <2>4 DEF WaitInv, Waiting, HasRecentlySigned
  <2> QED
    BY <2>3, <2>4, <2>5
<1> QED
  BY <1>1, <1>2, <1>3, SnapshotCorrect, PTL DEF Spec, SignersWait
=============================================================================
