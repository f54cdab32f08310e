--------------------------- MODULE QBFTLoopProofs ---------------------------
(***************************************************************************)
(* Proofs about the validators' loops, for any number of validators,       *)
(* heights and rounds, any size of the channel, and messages that arrive   *)
(* in any order or not at all.  Canonical chains hold committed blocks     *)
(* only: the production that handleBlock schedules, which Next leaves out  *)
(* and ProdNext adds, is the only way for another block to get there.  A   *)
(* quorum is never more than a block behind a validator.  Own votes are    *)
(* not lost between the core that casts and the core that counts them.     *)
(***************************************************************************)
EXTENDS QBFTLoop, FiniteSetTheorems, TLAPS

Entries == [builder : Validators, payload : Nat, round : Nat, seals : SUBSET Validators]

Branches == Seq(Entries)

\* Headers above genesis.
Proposed == {h \in Branches : Len(h) > 0}

Types == {"PROPOSAL", "PREPARE", "COMMIT", "ROUND_CHANGE"}

\* A PROPOSAL and a vote carry a header; a ROUND_CHANGE may.
Messages ==
  {m \in [type : Types, from : Validators, number : Nat, round : Nat,
          header : Proposed \cup {NoHeader}] :
     m.type # "ROUND_CHANGE" => m.header \in Proposed}

Cores ==
  [parent : Branches, round : Nat,
   state : {"New", "Prepared", "CommitSent", "Committed", "RoundChange"},
   proposal : Proposed \cup {NoHeader}, prepares : SUBSET Validators,
   commits : SUBSET Validators, roundChanges : SUBSET Messages, backlog : SUBSET Messages]

LoopTypeOK ==
  /\ core \in [Validators -> Cores]
  /\ pc \in [Validators -> {"Start", "Select", "Echo", "Commit"}]
  /\ out \in [Validators -> Seq(Messages)]
  /\ chan \in [Validators -> Seq(Messages)]
  /\ known \in [Validators -> SUBSET Branches]
  /\ head \in [Validators -> Branches]
  /\ net \in [Validators -> SUBSET Messages]
  /\ blocks \in [Validators -> SUBSET Proposed]
  /\ \A v \in Validators : \A m \in core[v].backlog : m.type = "PROPOSAL"

\* Every block of the branch h has the commit seals of a quorum.
Sealed(h) == \A i \in DOMAIN h : Cardinality(h[i].seals) >= Quorum

\* Where the loop of v is: there is a message to echo, a block to commit.
LoopAt(v) ==
  /\ pc[v] = "Echo" => out[v] # <<>>
  /\ pc[v] = "Commit" =>
       core[v].proposal \in Proposed /\ Cardinality(core[v].commits) >= Quorum

StoreSealed(v) == Sealed(head[v]) /\ \A h \in known[v] : Sealed(h)

LoopInv == LoopTypeOK /\ \A v \in Validators : LoopAt(v) /\ StoreSealed(v)

-----------------------------------------------------------------------------
(* Headers *)

LEMMA FreshProposed ==
  ASSUME NEW v \in Validators, NEW h \in Branches, NEW r \in Nat
  PROVE  FreshHeader(v, h, r) \in Proposed /\ Len(FreshHeader(v, h, r)) = Len(h) + 1
<1>1. [builder |-> v, payload |-> r, round |-> 0, seals |-> {}] \in Entries
  BY Zenon DEF Entries
<1> QED
  BY <1>1 DEF FreshHeader, Proposed, Branches

LEMMA ReusedProposed ==
  ASSUME NEW h \in Proposed, NEW r \in Nat
  PROVE  ReusedHeader(h, r) \in Proposed /\ Len(ReusedHeader(h, r)) = Len(h)
<1> DEFINE n == Len(h)
           e == [[h[n] EXCEPT !.round = r] EXCEPT !.seals = {}]
<1>1. n \in Nat /\ n > 0 /\ n \in DOMAIN h /\ h \in Seq(Entries) /\ h[n] \in Entries
  BY DEF Proposed, Branches
<1>2. e \in Entries
  BY <1>1, Zenon DEF Entries
<1>3. ReusedHeader(h, r) = [h EXCEPT ![n] = e]
  BY <1>1, Zenon DEF ReusedHeader, Entries
<1> HIDE DEF n, e
<1>4. [h EXCEPT ![n] = e] \in Seq(Entries) /\ Len([h EXCEPT ![n] = e]) = Len(h)
  BY <1>1, <1>2
<1> QED
  BY <1>1, <1>3, <1>4, Zenon DEF Proposed, Branches, n

\* CommitBlock leaves the branch below alone.
LEMMA SealedFacts ==
  ASSUME NEW h \in Proposed, NEW S \in SUBSET Validators
  PROVE  /\ SealedHeader(h, S) \in Proposed /\ Len(SealedHeader(h, S)) = Len(h)
         /\ SealedHeader(h, S)[Len(SealedHeader(h, S))].seals = S
<1> DEFINE n == Len(h)
           e == [h[n] EXCEPT !.seals = S]
<1>1. n \in Nat /\ n > 0 /\ n \in DOMAIN h /\ h \in Seq(Entries) /\ h[n] \in Entries
  BY DEF Proposed, Branches
<1>2. e \in Entries /\ e.seals = S
  BY <1>1, Zenon DEF Entries
<1>3. SealedHeader(h, S) = [h EXCEPT ![n] = e]
  BY Zenon DEF SealedHeader
<1> HIDE DEF n, e
<1>4. /\ [h EXCEPT ![n] = e] \in Seq(Entries) /\ Len([h EXCEPT ![n] = e]) = Len(h)
      /\ [h EXCEPT ![n] = e][n] = e
  BY <1>1, <1>2
<1> QED
  BY <1>1, <1>2, <1>3, <1>4, Zenon DEF Proposed, Branches, n

-----------------------------------------------------------------------------
(* Messages *)

LEMMA MessageTyped ==
  ASSUME NEW type \in Types, NEW v \in Validators, NEW n \in Nat, NEW r \in Nat,
         NEW h \in Proposed \cup {NoHeader}, type # "ROUND_CHANGE" => h \in Proposed
  PROVE  Message(type, v, n, r, h) \in Messages
BY Zenon DEF Message, Messages

-----------------------------------------------------------------------------
(* What a message read from the channel does *)

-----------------------------------------------------------------------------
(* The invariant *)

LEMMA LoopInvInit == Init => LoopInv
<1> SUFFICES ASSUME Init PROVE LoopInv
  BY Zenon
<1>1. Genesis \in Branches /\ Sealed(Genesis)
  BY DEF Genesis, Branches, Sealed
<1>2. NewCore(Genesis, 0) \in Cores /\ NewCore(Genesis, 0).backlog = {}
  BY <1>1, Zenon DEF NewCore, Cores
<1>3. <<>> \in Seq(Messages)
  OBVIOUS
<1>4. LoopTypeOK
  BY <1>1, <1>2, <1>3, Zenon DEF Init, LoopTypeOK
<1>5. ASSUME NEW v \in Validators PROVE LoopAt(v) /\ StoreSealed(v)
  BY <1>1, Zenon DEF Init, LoopAt, StoreSealed
<1> QED
  BY <1>4, <1>5, Zenon DEF LoopInv

LEMMA LoopInvNext == LoopInv /\ [Next]_vars => LoopInv'
<1>SealedOnSealed.
    ASSUME NEW h \in Proposed, Sealed(Parent(h)), Cardinality(h[Len(h)].seals) >= Quorum
    PROVE  Sealed(h)
  <2> USE <1>SealedOnSealed
  <2>1. h \in Seq(Entries) /\ Len(h) \in Nat /\ Len(h) > 0
    BY DEF Proposed, Branches
  <2>2. /\ Parent(h) \in Seq(Entries) /\ Len(Parent(h)) = Len(h) - 1
        /\ \A i \in 1..(Len(h) - 1) : Parent(h)[i] = h[i]
    <3>1. \A i \in 1..(Len(h) - 1) : h[i] \in Entries
      BY <2>1
    <3>2. /\ Parent(h) \in Seq(Entries)
          /\ Len(Parent(h)) = IF 1 <= Len(h) - 1 THEN (Len(h) - 1) - 1 + 1 ELSE 0
          /\ \A i \in 1..((Len(h) - 1) - 1 + 1) : Parent(h)[i] = h[1 + i - 1]
      BY <2>1, <3>1 DEF Parent
    <3>3. \A i \in 1..(Len(h) - 1) : i \in 1..((Len(h) - 1) - 1 + 1) /\ 1 + i - 1 = i
      BY <2>1
    <3>4. Len(Parent(h)) = Len(h) - 1
      <4>1. \A k \in Nat : k > 0 => (IF 1 <= k - 1 THEN (k - 1) - 1 + 1 ELSE 0) = k - 1
        OBVIOUS
      <4> QED
        BY <2>1, <3>2, <4>1, Zenon
    <3>5. ASSUME NEW i \in 1..(Len(h) - 1) PROVE Parent(h)[i] = h[i]
      BY <3>2, <3>3, Zenon
    <3> QED
      BY <3>2, <3>4, <3>5, Zenon
  <2>3. ASSUME NEW i \in 1..Len(h) PROVE Cardinality(h[i].seals) >= Quorum
    <3>1. CASE i = Len(h)
      BY <3>1, Zenon
    <3>2. CASE i # Len(h)
      <4>1. i \in 1..(Len(h) - 1) /\ i \in DOMAIN Parent(h)
        BY <2>1, <2>2, <3>2
      <4> QED
        BY <2>2, <4>1, Zenon DEF Sealed
    <3> QED
      BY <3>1, <3>2, Zenon
  <2> QED
    BY <2>1, <2>3 DEF Sealed
\* A well-formed core and broadcasts keep the loop of v and the network so.
<1>ContinueKeeps.
    ASSUME LoopTypeOK, \A u \in Validators : LoopAt(u),
           NEW v \in Validators, NEW c \in Cores, NEW msgs \in Seq(Messages),
           \A m \in c.backlog : m.type = "PROPOSAL",
           Continue(v, c, msgs),
           chan' \in [Validators -> Seq(Messages)], UNCHANGED <<storeVars, blocks>>
    PROVE  LoopTypeOK' /\ \A u \in Validators : LoopAt(u)'
  <2> USE <1>ContinueKeeps
  <2>1. core' \in [Validators -> Cores] /\ core' = [core EXCEPT ![v] = c]
    BY Zenon DEF LoopTypeOK, Continue
  <2>2. out' \in [Validators -> Seq(Messages)] /\ out' = [out EXCEPT ![v] = msgs]
    BY Zenon DEF LoopTypeOK, Continue, Dispatch
  <2>3. /\ pc' \in [Validators -> {"Start", "Select", "Echo", "Commit"}]
        /\ pc' = [pc EXCEPT ![v] = IF msgs = <<>> THEN "Select" ELSE "Echo"]
    BY Zenon DEF LoopTypeOK, Continue, Dispatch
  <2>4. net' \in [Validators -> SUBSET Messages]
    <3>1. CASE msgs = <<>>
      BY <3>1, Zenon DEF LoopTypeOK, Continue, Dispatch
    <3>2. CASE msgs # <<>>
      <4>1. Head(msgs) \in Messages
        BY <3>2
      <4> QED
        BY <3>2, <4>1, Zenon DEF LoopTypeOK, Continue, Dispatch, Publish
    <3> QED
      BY <3>1, <3>2, Zenon
  <2>5. \A u \in Validators : \A m \in core'[u].backlog : m.type = "PROPOSAL"
    BY <2>1, Zenon DEF LoopTypeOK
  <2>6. LoopTypeOK'
    BY <2>1, <2>2, <2>3, <2>4, <2>5, Zenon DEF LoopTypeOK, storeVars
  <2>7. ASSUME NEW u \in Validators PROVE LoopAt(u)'
    <3>1. CASE u = v
      BY <3>1, <2>2, <2>3, Zenon DEF LoopAt, LoopTypeOK
    <3>2. CASE u # v
      <4>1. pc'[u] = pc[u] /\ out'[u] = out[u] /\ core'[u] = core[u]
        BY <3>2, <2>1, <2>2, <2>3, Zenon DEF LoopTypeOK
      <4> QED
        BY <4>1, Zenon DEF LoopAt
    <3> QED
      BY <3>1, <3>2, Zenon
  <2> QED
    BY <2>6, <2>7, Zenon
<1>EnterRoundKeeps.
    ASSUME LoopTypeOK, \A u \in Validators : LoopAt(u),
           NEW v \in Validators, NEW parent \in Branches, NEW r \in Nat,
           NEW prepared \in Proposed \cup {NoHeader}, NEW early \in SUBSET Messages,
           \A m \in early : m.type = "PROPOSAL",
           EnterRound(v, parent, r, prepared, early),
           chan' \in [Validators -> Seq(Messages)], UNCHANGED <<storeVars, blocks>>
    PROVE  LoopTypeOK' /\ \A u \in Validators : LoopAt(u)'
  <2> USE <1>EnterRoundKeeps
  <2> DEFINE number == Len(parent) + 1
             h == IF prepared = NoHeader THEN FreshHeader(v, parent, r) ELSE ReusedHeader(prepared, r)
             c == NewCore(parent, r)
             With(b) == [c EXCEPT !.state = "Prepared", !.proposal = b]
             msgs == <<Message("PROPOSAL", v, number, r, h), Message("PREPARE", v, number, r, h)>>
  <2>1. c \in Cores /\ c.backlog = {}
    BY Zenon DEF NewCore, Cores
  <2>2. ASSUME NEW b \in Proposed PROVE With(b) \in Cores /\ With(b).backlog = {}
    BY <2>2, <2>1, Zenon DEF Cores
  <2>3. number \in Nat
    BY DEF Branches
  <2>4. h \in Proposed
    BY FreshProposed, ReusedProposed, Zenon
  <2>5. msgs \in Seq(Messages)
    <3>1. Message("PROPOSAL", v, number, r, h) \in Messages
      BY <2>3, <2>4, MessageTyped, Zenon DEF Types
    <3>2. Message("PREPARE", v, number, r, h) \in Messages
      BY <2>3, <2>4, MessageTyped, Zenon DEF Types
    <3> QED
      BY <3>1, <3>2
  <2>6. <<>> \in Seq(Messages)
    OBVIOUS
  <2>7. \/ Continue(v, With(h), msgs)
        \/ \E m \in early : Continue(v, With(m.header), <<>>)
        \/ Continue(v, c, <<>>)
    BY Zenon DEF EnterRound
  <2> HIDE DEF number, h, c, With, msgs
  <2>8. CASE Continue(v, With(h), msgs)
    BY <2>8, <2>2, <2>4, <2>5, <1>ContinueKeeps, Zenon
  <2>9. CASE \E m \in early : Continue(v, With(m.header), <<>>)
    <3>1. PICK m \in early : Continue(v, With(m.header), <<>>)
      BY <2>9, Zenon
    <3>2. m.header \in Proposed
      BY Zenon DEF Messages
    <3> QED
      BY <3>1, <3>2, <2>2, <2>6, <1>ContinueKeeps, Zenon
  <2>10. CASE Continue(v, c, <<>>)
    BY <2>10, <2>1, <2>6, <1>ContinueKeeps, Zenon
  <2> QED
    BY <2>7, <2>8, <2>9, <2>10, Zenon
<1>HandleMsgKeeps.
    ASSUME LoopTypeOK, \A u \in Validators : LoopAt(u),
           NEW v \in Validators, NEW m \in Messages,
           \/ HandleProposal(v, m) \/ HandlePrepare(v, m)
           \/ HandleCommit(v, m) \/ HandleRoundChange(v, m),
           chan' \in [Validators -> Seq(Messages)], UNCHANGED <<storeVars, blocks>>
    PROVE  LoopTypeOK' /\ \A u \in Validators : LoopAt(u)'
  <2> USE <1>HandleMsgKeeps
  <2> DEFINE c == core[v]
  <2>1. c \in Cores /\ \A x \in c.backlog : x.type = "PROPOSAL"
    BY Zenon DEF LoopTypeOK
  <2>2. /\ m.type \in Types /\ m.from \in Validators /\ m.number \in Nat /\ m.round \in Nat
        /\ m.header \in Proposed \cup {NoHeader}
        /\ m.type # "ROUND_CHANGE" => m.header \in Proposed
    BY Zenon DEF Messages
  <2>3. <<>> \in Seq(Messages)
    OBVIOUS
  <2>4. ASSUME NEW d \in Cores, d.backlog = c.backlog, Continue(v, d, <<>>)
        PROVE  LoopTypeOK' /\ \A u \in Validators : LoopAt(u)'
    BY <2>1, <2>3, <2>4, <1>ContinueKeeps, Zenon
  <2>5. ASSUME NEW d \in Cores, d.backlog = c.backlog, NEW x \in Messages, Continue(v, d, <<x>>)
        PROVE  LoopTypeOK' /\ \A u \in Validators : LoopAt(u)'
    <3>1. <<x>> \in Seq(Messages)
      OBVIOUS
    <3> QED
      BY <2>1, <2>5, <3>1, <1>ContinueKeeps, Zenon
  <2>6. CASE HandleProposal(v, m)
    <3> DEFINE d == [c EXCEPT !.state = "Prepared", !.proposal = m.header]
               e == [c EXCEPT !.backlog = @ \cup {m}]
               x == Message("PREPARE", v, m.number, m.round, m.header)
    <3>1. m.type = "PROPOSAL" /\ m.header \in Proposed
      BY <2>2, <2>6, Zenon DEF HandleProposal
    <3>2. d \in Cores /\ d.backlog = c.backlog
      BY <2>1, <3>1, Zenon DEF Cores
    <3>3. e \in Cores /\ \A y \in e.backlog : y.type = "PROPOSAL"
      BY <2>1, <3>1, Zenon DEF Cores
    <3>4. x \in Messages
      BY <2>2, <3>1, MessageTyped, Zenon DEF Types
    <3>5. Continue(v, d, <<x>>) \/ Continue(v, e, <<>>) \/ Continue(v, c, <<>>)
      BY <2>6, Zenon DEF HandleProposal
    <3> HIDE DEF d, e, x, c
    <3> QED
      BY <2>1, <2>3, <2>4, <2>5, <3>2, <3>3, <3>4, <3>5, <1>ContinueKeeps, Zenon
  <2>7. CASE HandlePrepare(v, m)
    <3> DEFINE P == c.prepares \cup {m.from}
               d == [c EXCEPT !.prepares = P, !.state = "CommitSent"]
               e == [c EXCEPT !.prepares = P]
               x == Message("COMMIT", v, m.number, m.round, m.header)
    <3>1. m.type = "PREPARE" /\ m.header \in Proposed
      BY <2>2, <2>7, Zenon DEF HandlePrepare
    <3>2. P \in SUBSET Validators
      BY <2>1, <2>2, Zenon DEF Cores
    <3>3. d \in Cores /\ d.backlog = c.backlog /\ e \in Cores /\ e.backlog = c.backlog
      BY <2>1, <3>2, Zenon DEF Cores
    <3>4. x \in Messages
      BY <2>2, <3>1, MessageTyped, Zenon DEF Types
    <3>5. Continue(v, d, <<x>>) \/ Continue(v, e, <<>>) \/ Continue(v, c, <<>>)
      BY <2>7, Zenon DEF HandlePrepare
    <3> HIDE DEF d, e, x, c
    <3> QED
      BY <2>1, <2>4, <2>5, <3>3, <3>4, <3>5, Zenon
  <2>8. CASE HandleCommit(v, m)
    <3> DEFINE C == c.commits \cup {m.from}
               d == [[c EXCEPT !.commits = C] EXCEPT !.state = "Committed"]
               e == [c EXCEPT !.commits = C]
    <3>1. C \in SUBSET Validators
      BY <2>1, <2>2, Zenon DEF Cores
    <3>2. /\ d \in Cores /\ d.backlog = c.backlog /\ d.commits = C /\ d.proposal = c.proposal
          /\ e \in Cores /\ e.backlog = c.backlog
      BY <2>1, <3>1, Zenon DEF Cores
    <3>3. \/ /\ Counts(v, m) /\ Cardinality(C) >= Quorum
             /\ core' = [core EXCEPT ![v].commits = C, ![v].state = "Committed"]
             /\ pc' = [pc EXCEPT ![v] = "Commit"]
             /\ UNCHANGED <<out, net>>
          \/ Continue(v, e, <<>>)
          \/ Continue(v, c, <<>>)
      BY <2>8, Zenon DEF HandleCommit
    <3>4. ASSUME Counts(v, m), Cardinality(C) >= Quorum,
                 core' = [core EXCEPT ![v].commits = C, ![v].state = "Committed"],
                 pc' = [pc EXCEPT ![v] = "Commit"], UNCHANGED <<out, net>>
          PROVE  LoopTypeOK' /\ \A u \in Validators : LoopAt(u)'
      <4>1. core' = [core EXCEPT ![v] = d]
        BY <3>4, <2>1, Zenon DEF LoopTypeOK, Cores
      <4>2. d.proposal \in Proposed
        BY <2>2, <2>8, <3>2, <3>4, Zenon DEF Counts, HandleCommit
      <4> HIDE DEF C, d
      <4>3. core' \in [Validators -> Cores] /\ core'[v] = d
        BY <4>1, <3>2, Zenon DEF LoopTypeOK
      <4>4. LoopTypeOK'
        BY <2>1, <3>2, <3>4, <4>1, <4>3, Zenon DEF LoopTypeOK, storeVars
      <4>5. ASSUME NEW u \in Validators PROVE LoopAt(u)'
        <5>1. CASE u = v
          BY <5>1, <3>2, <3>4, <4>2, <4>3, Zenon DEF LoopAt, LoopTypeOK
        <5>2. CASE u # v
          <6>1. pc'[u] = pc[u] /\ out'[u] = out[u] /\ core'[u] = core[u]
            BY <5>2, <3>4, <4>1, Zenon DEF LoopTypeOK
          <6> QED
            BY <6>1, Zenon DEF LoopAt
        <5> QED
          BY <5>1, <5>2, Zenon
      <4> QED
        BY <4>4, <4>5, Zenon
    <3> HIDE DEF d, e, c, C
    <3> QED
      BY <2>1, <2>4, <3>2, <3>3, <3>4, Zenon
  <2>9. CASE HandleRoundChange(v, m)
    <3> DEFINE records == {x \in c.roundChanges : x.from # m.from} \cup {m}
               R == {x \in records : x.round = m.round}
               prepared == {x.header : x \in R} \ {NoHeader}
               early == {x \in c.backlog : x.number = m.number /\ x.round = m.round}
               e == [c EXCEPT !.roundChanges = records]
    <3>1. records \in SUBSET Messages /\ c.parent \in Branches
      BY <2>1, Zenon DEF Cores
    <3>2. e \in Cores /\ e.backlog = c.backlog
      BY <2>1, <3>1, Zenon DEF Cores
    <3>3. early \in SUBSET Messages /\ \A x \in early : x.type = "PROPOSAL"
      BY <2>1, Zenon DEF Cores
    <3>4. \A h \in IF prepared = {} THEN {NoHeader} ELSE prepared :
            h \in Proposed \cup {NoHeader}
      BY <3>1, Zenon DEF Messages
    <3>5. \/ Continue(v, c, <<>>)
          \/ Continue(v, e, <<>>)
          \/ \E h \in IF prepared = {} THEN {NoHeader} ELSE prepared :
               EnterRound(v, c.parent, m.round, h, early)
      BY <2>9, Zenon DEF HandleRoundChange
    <3>6. CASE \E h \in IF prepared = {} THEN {NoHeader} ELSE prepared :
                 EnterRound(v, c.parent, m.round, h, early)
      <4>1. PICK h \in IF prepared = {} THEN {NoHeader} ELSE prepared :
              EnterRound(v, c.parent, m.round, h, early)
        BY <3>6, Zenon
      <4> HIDE DEF prepared, early, c
      <4> QED
        BY <2>2, <3>1, <3>3, <3>4, <4>1, <1>EnterRoundKeeps, Zenon
    <3> HIDE DEF e, c, prepared, early
    <3> QED
      BY <2>1, <2>4, <3>2, <3>5, <3>6, Zenon
  <2> QED
    BY <2>6, <2>7, <2>8, <2>9, Zenon
\* A sealed block on top of a known one keeps the store sealed.
<1>AddBlockKeeps.
    ASSUME LoopInv, NEW v \in Validators, NEW h \in Proposed, Parent(h) \in known[v],
           Cardinality(h[Len(h)].seals) >= Quorum, AddBlock(v, h)
    PROVE  /\ known' \in [Validators -> SUBSET Branches]
           /\ head' \in [Validators -> Branches]
           /\ \A u \in Validators : StoreSealed(u)'
  <2> USE <1>AddBlockKeeps
  <2>1. h \in Branches
    BY Zenon DEF Proposed
  <2>2. Sealed(h)
    BY <1>SealedOnSealed, Zenon DEF LoopInv, StoreSealed
  <2>3. /\ known \in [Validators -> SUBSET Branches] /\ head \in [Validators -> Branches]
        /\ \A u \in Validators : Sealed(head[u]) /\ \A g \in known[u] : Sealed(g)
    BY Zenon DEF LoopInv, LoopTypeOK, StoreSealed
  <2>4. /\ known' = [known EXCEPT ![v] = @ \cup {h}]
        /\ head' = [head EXCEPT ![v] = h] \/ head' = head
    BY Zenon DEF AddBlock
  <2>5. known' \in [Validators -> SUBSET Branches] /\ head' \in [Validators -> Branches]
    BY <2>1, <2>3, <2>4, Zenon
  <2>6. ASSUME NEW u \in Validators
        PROVE  Sealed(head'[u]) /\ \A g \in known'[u] : Sealed(g)
    BY <2>2, <2>3, <2>4, Zenon
  <2>7. ASSUME NEW u \in Validators PROVE StoreSealed(u)'
    BY <2>6, Zenon DEF StoreSealed, Sealed
  <2> QED
    BY <2>5, <2>7, Zenon
<1>StoreFrame.
    ASSUME LoopInv, UNCHANGED storeVars
    PROVE  /\ known' \in [Validators -> SUBSET Branches]
           /\ head' \in [Validators -> Branches]
           /\ \A u \in Validators : StoreSealed(u)'
  BY <1>StoreFrame, Zenon DEF LoopInv, LoopTypeOK, StoreSealed, storeVars, Sealed
<1> SUFFICES ASSUME LoopInv, [Next]_vars PROVE LoopInv'
  BY Zenon
<1> USE DEF LoopInv
<1>1. CASE UNCHANGED vars
  BY <1>1, Zenon DEF vars, loopVars, storeVars, LoopTypeOK, LoopAt, StoreSealed, Sealed
<1>2. ASSUME NEW v \in Validators, StartInstance(v) PROVE LoopInv'
  <2>1. /\ EnterRound(v, head[v], 0, NoHeader, {}) /\ UNCHANGED <<chan, storeVars, blocks>>
        /\ head[v] \in Branches /\ chan' \in [Validators -> Seq(Messages)]
    BY <1>2, Zenon DEF StartInstance, LoopTypeOK
  <2>2. /\ 0 \in Nat /\ NoHeader \in Proposed \cup {NoHeader} /\ {} \in SUBSET Messages
        /\ \A m \in {} : m.type = "PROPOSAL"
    BY Zenon
  <2>3. LoopTypeOK /\ \A u \in Validators : LoopAt(u)
    BY Zenon
  <2>4. LoopTypeOK' /\ \A u \in Validators : LoopAt(u)'
    BY <2>1, <2>2, <2>3, <1>EnterRoundKeeps, Zenon
  <2> QED
    BY <2>1, <2>4, <1>StoreFrame, Zenon
<1>3. ASSUME NEW v \in Validators, Timeout(v) PROVE LoopInv'
  <2> DEFINE c == core[v]
             prepared == IF c.state = "New" THEN NoHeader ELSE c.proposal
             d == [c EXCEPT !.state = "RoundChange"]
             x == Message("ROUND_CHANGE", v, Height(v), c.round + 1, prepared)
  <2>1. Continue(v, d, <<x>>) /\ UNCHANGED <<chan, storeVars, blocks>>
    BY <1>3, Zenon DEF Timeout
  <2>2. c \in Cores /\ \A m \in c.backlog : m.type = "PROPOSAL"
    BY Zenon DEF LoopTypeOK
  <2>3. d \in Cores /\ \A m \in d.backlog : m.type = "PROPOSAL"
    BY <2>2, Zenon DEF Cores
  <2>4. x \in Messages
    <3>1. Height(v) \in Nat /\ c.round + 1 \in Nat /\ prepared \in Proposed \cup {NoHeader}
      BY <2>2 DEF Height, Cores, Branches
    <3> QED
      BY <3>1, MessageTyped, Zenon DEF Types
  <2>5. <<x>> \in Seq(Messages) /\ chan' \in [Validators -> Seq(Messages)]
    BY <2>1, <2>4 DEF LoopTypeOK
  <2> HIDE DEF c, d, x
  <2>6. LoopTypeOK' /\ \A u \in Validators : LoopAt(u)'
    BY <2>1, <2>3, <2>5, <1>ContinueKeeps, Zenon
  <2> QED
    BY <2>1, <2>6, <1>StoreFrame, Zenon
<1>4. ASSUME NEW v \in Validators, Read(v) PROVE LoopInv'
  <2>1. /\ chan[v] \in Seq(Messages) /\ chan[v] # <<>>
        /\ chan' = [chan EXCEPT ![v] = Tail(@)] /\ UNCHANGED <<storeVars, blocks>>
    BY <1>4, Zenon DEF Read, LoopTypeOK
  <2>2. Head(chan[v]) \in Messages /\ Tail(chan[v]) \in Seq(Messages)
    BY <2>1
  <2>3. chan' \in [Validators -> Seq(Messages)]
    BY <2>1, <2>2, Zenon DEF LoopTypeOK
  <2>4. LoopTypeOK' /\ \A u \in Validators : LoopAt(u)'
    BY <1>4, <2>1, <2>2, <2>3, <1>HandleMsgKeeps, Zenon DEF Read
  <2> QED
    BY <2>1, <2>4, <1>StoreFrame, Zenon
<1>5. ASSUME NEW v \in Validators, Echo(v) PROVE LoopInv'
  <2>1. /\ out[v] \in Seq(Messages) /\ out[v] # <<>> /\ chan[v] \in Seq(Messages)
        /\ chan' = [chan EXCEPT ![v] = Append(@, Head(out[v]))]
        /\ Dispatch(v, Tail(out[v])) /\ UNCHANGED <<core, storeVars, blocks>>
    BY <1>5, Zenon DEF Echo, LoopTypeOK, LoopAt
  <2>2. Head(out[v]) \in Messages /\ Tail(out[v]) \in Seq(Messages)
    BY <2>1
  <2>3. Append(chan[v], Head(out[v])) \in Seq(Messages)
    BY <2>1, <2>2
  <2>4. chan' \in [Validators -> Seq(Messages)]
    BY <2>1, <2>3, Zenon DEF LoopTypeOK
  <2>5. core[v] \in Cores /\ (\A m \in core[v].backlog : m.type = "PROPOSAL")
    BY Zenon DEF LoopTypeOK
  <2>6. Continue(v, core[v], Tail(out[v]))
    BY <2>1, Zenon DEF Continue, LoopTypeOK
  <2>7. LoopTypeOK' /\ \A u \in Validators : LoopAt(u)'
    BY <2>1, <2>2, <2>4, <2>5, <2>6, <1>ContinueKeeps, Zenon
  <2> QED
    BY <2>1, <2>7, <1>StoreFrame, Zenon
<1>6. ASSUME NEW v \in Validators, CommitBlock(v) PROVE LoopInv'
  <2> DEFINE h == SealedHeader(core[v].proposal, core[v].commits)
  <2>1. /\ core[v].proposal \in Proposed /\ core[v].commits \in SUBSET Validators
        /\ Cardinality(core[v].commits) >= Quorum
    BY <1>6, Zenon DEF CommitBlock, LoopAt, LoopTypeOK, Cores
  <2>2. h \in Proposed /\ Cardinality(h[Len(h)].seals) >= Quorum
    BY <2>1, SealedFacts, Zenon
  <2>3. /\ pc' = [pc EXCEPT ![v] = "Start"] /\ UNCHANGED <<core, out, chan, net>>
        /\ \/ Parent(h) \in known[v] /\ AddBlock(v, h) /\ blocks' = Publish(blocks, v, h)
           \/ UNCHANGED <<storeVars, blocks>>
    BY <1>6, Zenon DEF CommitBlock
  <2> HIDE DEF h
  <2>4. /\ known' \in [Validators -> SUBSET Branches] /\ head' \in [Validators -> Branches]
        /\ \A u \in Validators : StoreSealed(u)'
    BY <2>2, <2>3, <1>AddBlockKeeps, <1>StoreFrame, Zenon
  <2>5. blocks' \in [Validators -> SUBSET Proposed]
    <3>1. CASE blocks' = Publish(blocks, v, h)
      BY <2>2, <3>1, Zenon DEF LoopTypeOK, Publish
    <3>2. CASE blocks' = blocks
      BY <3>2, Zenon DEF LoopTypeOK
    <3> QED
      BY <2>3, <3>1, <3>2, Zenon
  <2>6. LoopTypeOK'
    BY <2>3, <2>4, <2>5, Zenon DEF LoopTypeOK
  <2>7. \A u \in Validators : LoopAt(u)'
    BY <2>3, Zenon DEF LoopTypeOK, LoopAt
  <2> QED
    BY <2>4, <2>6, <2>7, Zenon
<1>7. ASSUME NEW v \in Validators, NEW m \in net[v], HandleQBFTMsg(v, m) PROVE LoopInv'
  <2>1. /\ net' = [net EXCEPT ![v] = @ \ {m}]
        /\ chan' = [chan EXCEPT ![v] = Append(@, m)] \/ chan' = chan
        /\ UNCHANGED <<core, pc, out, storeVars, blocks>>
    BY <1>7, Zenon DEF HandleQBFTMsg
  <2>2. m \in Messages /\ chan[v] \in Seq(Messages)
    BY Zenon DEF LoopTypeOK
  <2>3. Append(chan[v], m) \in Seq(Messages)
    BY <2>2
  <2>4. chan' \in [Validators -> Seq(Messages)] /\ net' \in [Validators -> SUBSET Messages]
    BY <2>1, <2>3, Zenon DEF LoopTypeOK
  <2>5. LoopTypeOK'
    BY <2>1, <2>4, Zenon DEF LoopTypeOK, storeVars
  <2>6. \A u \in Validators : LoopAt(u)'
    BY <2>1, Zenon DEF LoopAt
  <2> QED
    BY <2>1, <2>5, <2>6, <1>StoreFrame, Zenon
<1>8. ASSUME NEW v \in Validators, NEW h \in blocks[v], HandleBlock(v, h) PROVE LoopInv'
  <2>1. /\ blocks' = [blocks EXCEPT ![v] = @ \ {h}] /\ UNCHANGED <<loopVars, net>>
        /\ \/ Parent(h) \in known[v] /\ VerifyHeader(h) /\ AddBlock(v, h)
           \/ UNCHANGED storeVars
    BY <1>8, Zenon DEF HandleBlock
  <2>2. h \in Proposed /\ blocks' \in [Validators -> SUBSET Proposed]
    BY <2>1, Zenon DEF LoopTypeOK
  <2>3. /\ known' \in [Validators -> SUBSET Branches] /\ head' \in [Validators -> Branches]
        /\ \A u \in Validators : StoreSealed(u)'
    BY <2>1, <2>2, <1>AddBlockKeeps, <1>StoreFrame, Zenon DEF VerifyHeader
  <2>4. LoopTypeOK'
    BY <2>1, <2>2, <2>3, Zenon DEF LoopTypeOK, loopVars
  <2>5. \A u \in Validators : LoopAt(u)'
    BY <2>1, Zenon DEF LoopAt, loopVars
  <2> QED
    BY <2>3, <2>4, <2>5, Zenon
<1> QED
  BY <1>1, <1>2, <1>3, <1>4, <1>5, <1>6, <1>7, <1>8, Zenon DEF Next, LoopStep, Deliver

-----------------------------------------------------------------------------
\* For any number of validators, size of the channel and order of delivery, the
\* loops and the gossip handlers (runQBFTLoop, dispatchQBFTDecisions,
\* handleQBFTMsg, handleBlock) put only blocks with a quorum of commit seals into
\* the canonical chain of a validator.
THEOREM LoopCommits == LoopSpec => []CommittedChain
<1>1. LoopInv => CommittedChain
  BY Zenon DEF LoopInv, StoreSealed, Sealed, CommittedChain
<1> QED
  BY <1>1, LoopInvInit, LoopInvNext, PTL DEF LoopSpec

-----------------------------------------------------------------------------
(* How far the validators are apart *)

\* H is the heads.  A header is as high as its message says, and who sends a
\* COMMIT for a height has the block below.
MsgBehind(m, H) ==
  /\ (m.type # "ROUND_CHANGE" \/ m.header # NoHeader) => Len(m.header) = m.number
  /\ m.type = "COMMIT" => m.number <= Len(H[m.from]) + 1

CoreBehind(v, c, H) ==
  /\ Len(c.parent) <= Len(H[v])
  /\ c.state \in {"Prepared", "CommitSent"} => Len(c.proposal) = Len(c.parent) + 1
  /\ \A w \in c.commits : Len(c.parent) <= Len(H[w])
  /\ \A m \in c.roundChanges : MsgBehind(m, H) /\ m.number = Len(c.parent) + 1
  /\ \A m \in c.backlog : MsgBehind(m, H)

\* Whose commit seal is in a block has the block below.
BlockBehind(h, H) == Len(h) > 0 => \A w \in h[Len(h)].seals : Len(h) <= Len(H[w]) + 1

QueueBehind(q, H) == \A i \in DOMAIN q : MsgBehind(q[i], H)

QueuesBehind(Q, H) == \A v \in Validators : QueueBehind(Q[v], H)

Behind(v) ==
  /\ \A m \in net[v] : MsgBehind(m, head)
  /\ QueueBehind(chan[v], head) /\ QueueBehind(out[v], head)
  /\ CoreBehind(v, core[v], head)
  /\ pc[v] = "Commit" => Len(core[v].proposal) = Len(core[v].parent) + 1
  /\ BlockBehind(head[v], head)
  /\ \A h \in blocks[v] : BlockBehind(h, head)

BehindInv == \A v \in Validators : Behind(v)

LEMMA PreparedCore ==
  ASSUME NEW c \in Cores, NEW b \in Proposed
  PROVE  LET d == [c EXCEPT !.state = "Prepared", !.proposal = b]
         IN  /\ d \in Cores
             /\ d.parent = c.parent /\ d.proposal = b /\ d.commits = c.commits
             /\ d.roundChanges = c.roundChanges /\ d.backlog = c.backlog
             /\ d.state = "Prepared" /\ d.round = c.round /\ d.prepares = c.prepares
<1> DEFINE e == [c EXCEPT !.state = "Prepared"]
           d == [e EXCEPT !.proposal = b]
<1>1. /\ e \in Cores /\ e.state = "Prepared" /\ e.parent = c.parent /\ e.round = c.round
      /\ e.prepares = c.prepares /\ e.commits = c.commits
      /\ e.roundChanges = c.roundChanges /\ e.backlog = c.backlog
  BY Zenon DEF Cores
<1> HIDE DEF e
<1>2. /\ d \in Cores /\ d.proposal = b /\ d.state = e.state /\ d.parent = e.parent
      /\ d.round = e.round /\ d.prepares = e.prepares /\ d.commits = e.commits
      /\ d.roundChanges = e.roundChanges /\ d.backlog = e.backlog
  BY <1>1, Zenon DEF Cores
<1> QED
  BY <1>1, <1>2, Zenon DEF e

LEMMA BranchLength == \A b \in Branches : Len(b) \in Nat
  BY DEF Branches

LEMMA BehindInit == Init => BehindInv
<1> SUFFICES ASSUME Init, NEW v \in Validators PROVE Behind(v)
  BY Zenon DEF BehindInv
<1>1. /\ net[v] = {} /\ chan[v] = <<>> /\ out[v] = <<>> /\ head[v] = <<>> /\ blocks[v] = {}
      /\ pc[v] = "Start" /\ core[v] = NewCore(<<>>, 0)
  BY Zenon DEF Init, Genesis
<1>2. QueueBehind(chan[v], head) /\ QueueBehind(out[v], head) /\ BlockBehind(head[v], head)
  BY <1>1 DEF QueueBehind, BlockBehind
<1>3. CoreBehind(v, core[v], head)
  BY <1>1 DEF CoreBehind, NewCore
<1> QED
  BY <1>1, <1>2, <1>3, Zenon DEF Behind

LEMMA BehindNext == LoopInv /\ BehindInv /\ [Next]_vars => BehindInv'
<1>ContinueBehind.
    ASSUME LoopTypeOK, BehindInv,
           NEW v \in Validators, NEW c \in Cores, NEW msgs \in Seq(Messages),
           CoreBehind(v, c, head), QueueBehind(msgs, head), Continue(v, c, msgs),
           QueuesBehind(chan', head), UNCHANGED <<storeVars, blocks>>
    PROVE  BehindInv'
  <2> USE <1>ContinueBehind
  <2>1. core' = [core EXCEPT ![v] = c] /\ core \in [Validators -> Cores]
    BY Zenon DEF Continue, LoopTypeOK
  <2>2. out' = [out EXCEPT ![v] = msgs] /\ out \in [Validators -> Seq(Messages)]
    BY Zenon DEF Continue, Dispatch, LoopTypeOK
  <2>3. /\ pc' = [pc EXCEPT ![v] = IF msgs = <<>> THEN "Select" ELSE "Echo"]
        /\ pc \in [Validators -> {"Start", "Select", "Echo", "Commit"}]
    BY Zenon DEF Continue, Dispatch, LoopTypeOK
  <2>4. head' = head /\ blocks' = blocks
    BY Zenon DEF storeVars
  <2>5. ASSUME NEW u \in Validators PROVE \A m \in net'[u] : MsgBehind(m, head)
    <3>1. CASE msgs = <<>>
      BY <3>1, Zenon DEF Continue, Dispatch, BehindInv, Behind
    <3>2. CASE msgs # <<>>
      <4>1. MsgBehind(Head(msgs), head)
        BY <3>2 DEF QueueBehind
      <4>2. net'[u] \subseteq net[u] \cup {Head(msgs)}
        BY <3>2, Zenon DEF Continue, Dispatch, Publish
      <4> QED
        BY <4>1, <4>2, Zenon DEF BehindInv, Behind
    <3> QED
      BY <3>1, <3>2, Zenon
  <2>6. ASSUME NEW u \in Validators PROVE Behind(u)'
    <3>1. /\ \A m \in net'[u] : MsgBehind(m, head')
          /\ QueueBehind(chan'[u], head')
          /\ BlockBehind(head'[u], head') /\ \A h \in blocks'[u] : BlockBehind(h, head')
      BY <2>4, <2>5, Zenon DEF BehindInv, Behind, QueuesBehind
    <3>2. CASE u = v
      <4>1. core'[u] = c /\ out'[u] = msgs /\ pc'[u] # "Commit"
        BY <2>1, <2>2, <2>3, <3>2, Zenon
      <4>2. CoreBehind(u, core'[u], head') /\ QueueBehind(out'[u], head')
        BY <2>4, <3>2, <4>1, Zenon
      <4> QED
        BY <3>1, <4>1, <4>2, Zenon DEF Behind
    <3>3. CASE u # v
      <4>1. core'[u] = core[u] /\ out'[u] = out[u] /\ pc'[u] = pc[u]
        BY <2>1, <2>2, <2>3, <3>3, Zenon
      <4>2. /\ CoreBehind(u, core'[u], head') /\ QueueBehind(out'[u], head')
            /\ pc'[u] = "Commit" => Len(core'[u].proposal) = Len(core'[u].parent) + 1
        BY <2>4, <4>1, Zenon DEF BehindInv, Behind
      <4> QED
        BY <3>1, <4>2, Zenon DEF Behind
    <3> QED
      BY <3>2, <3>3, Zenon
  <2> QED
    BY <2>6, Zenon DEF BehindInv
<1>EnterRoundBehind.
    ASSUME LoopTypeOK, BehindInv,
           NEW v \in Validators, NEW parent \in Branches, NEW r \in Nat,
           NEW prepared \in Proposed \cup {NoHeader}, NEW early \in SUBSET Messages,
           Len(parent) <= Len(head[v]),
           prepared # NoHeader => Len(prepared) = Len(parent) + 1,
           \A m \in early : /\ m.type = "PROPOSAL" /\ MsgBehind(m, head)
                            /\ m.number = Len(parent) + 1,
           EnterRound(v, parent, r, prepared, early),
           QueuesBehind(chan', head), UNCHANGED <<storeVars, blocks>>
    PROVE  BehindInv'
  <2> USE <1>EnterRoundBehind
  <2> DEFINE number == Len(parent) + 1
             h == IF prepared = NoHeader THEN FreshHeader(v, parent, r) ELSE ReusedHeader(prepared, r)
             c == NewCore(parent, r)
             With(b) == [c EXCEPT !.state = "Prepared", !.proposal = b]
             p1 == Message("PROPOSAL", v, number, r, h)
             p2 == Message("PREPARE", v, number, r, h)
  <2>1. c \in Cores /\ CoreBehind(v, c, head)
    BY Zenon DEF NewCore, Cores, CoreBehind
  <2>2. ASSUME NEW b \in Proposed, Len(b) = number
        PROVE  With(b) \in Cores /\ CoreBehind(v, With(b), head)
    <3>1. /\ With(b) \in Cores /\ With(b).parent = parent /\ With(b).proposal = b
          /\ With(b).commits = {} /\ With(b).roundChanges = {} /\ With(b).backlog = {}
      <4>1. /\ c.parent = parent /\ c.commits = {} /\ c.roundChanges = {} /\ c.backlog = {}
        BY Zenon DEF NewCore
      <4>3. /\ With(b) \in Cores
            /\ With(b).parent = c.parent /\ With(b).proposal = b /\ With(b).commits = c.commits
            /\ With(b).roundChanges = c.roundChanges /\ With(b).backlog = c.backlog
        BY <2>1, <2>2, PreparedCore, Zenon
      <4> QED
        BY <4>1, <4>3, Zenon
    <3> QED
      BY <2>2, <3>1, Zenon DEF CoreBehind
  <2>3. number \in Nat
    BY DEF Branches
  <2>4. h \in Proposed /\ Len(h) = number
    BY FreshProposed, ReusedProposed, Zenon
  <2>6. \/ Continue(v, With(h), <<p1, p2>>)
        \/ \E m \in early : Continue(v, With(m.header), <<>>)
        \/ Continue(v, c, <<>>)
    BY Zenon DEF EnterRound
  <2> HIDE DEF number, h
  <2>5. /\ p1 \in Messages /\ MsgBehind(p1, head)
        /\ p2 \in Messages /\ MsgBehind(p2, head)
    <3>1. p1 \in Messages /\ p2 \in Messages
      BY <2>3, <2>4, MessageTyped, Zenon DEF Types
    <3> QED
      BY <2>4, <3>1, Zenon DEF MsgBehind, Message
  <2> HIDE DEF c, With, p1, p2
  <2>7. <<>> \in Seq(Messages) /\ QueueBehind(<<>>, head)
    BY DEF QueueBehind
  <2>8. <<p1, p2>> \in Seq(Messages) /\ QueueBehind(<<p1, p2>>, head)
    BY <2>5 DEF QueueBehind
  <2>9. CASE Continue(v, With(h), <<p1, p2>>)
    BY <2>2, <2>4, <2>8, <2>9, <1>ContinueBehind, Zenon
  <2>10. CASE \E m \in early : Continue(v, With(m.header), <<>>)
    <3>1. PICK m \in early : Continue(v, With(m.header), <<>>)
      BY <2>10, Zenon
    <3>2. m.header \in Proposed /\ Len(m.header) = number
      BY Zenon DEF Messages, MsgBehind, number
    <3>3. With(m.header) \in Cores /\ CoreBehind(v, With(m.header), head)
      BY <2>2, <3>2, Zenon
    <3> QED
      BY <2>7, <3>1, <3>3, <1>ContinueBehind, Zenon
  <2>11. CASE Continue(v, c, <<>>)
    BY <2>1, <2>7, <2>11, <1>ContinueBehind, Zenon
  <2> QED
    BY <2>6, <2>9, <2>10, <2>11, Zenon
<1>HandleMsgBehind.
    ASSUME LoopTypeOK, BehindInv, NEW v \in Validators, NEW m \in Messages, MsgBehind(m, head),
           \/ HandleProposal(v, m) \/ HandlePrepare(v, m)
           \/ HandleCommit(v, m) \/ HandleRoundChange(v, m),
           QueuesBehind(chan', head), UNCHANGED <<storeVars, blocks>>
    PROVE  BehindInv'
  <2> USE <1>HandleMsgBehind
  <2> DEFINE c == core[v]
  <2>1. c \in Cores /\ CoreBehind(v, c, head) /\ Height(v) = Len(c.parent) + 1
    BY Zenon DEF LoopTypeOK, BehindInv, Behind, Height
  <2>2. /\ m.type \in Types /\ m.from \in Validators /\ m.number \in Nat /\ m.round \in Nat
        /\ m.header \in Proposed \cup {NoHeader}
        /\ m.type # "ROUND_CHANGE" => m.header \in Proposed
    BY Zenon DEF Messages
  <2>3. /\ Len(c.parent) \in Nat /\ \A w \in Validators : Len(head[w]) \in Nat
        /\ c.commits \in SUBSET Validators
    <3>1. c.parent \in Branches /\ c.commits \in SUBSET Validators
      BY <2>1, Zenon DEF Cores
    <3>2. \A w \in Validators : head[w] \in Branches
      BY Zenon DEF LoopTypeOK
    <3> HIDE DEF c
    <3> QED
      BY <3>1, <3>2, BranchLength, Zenon
  <2>4. ASSUME NEW d \in Cores, CoreBehind(v, d, head), Continue(v, d, <<>>)
        PROVE  BehindInv'
    <3>1. <<>> \in Seq(Messages) /\ QueueBehind(<<>>, head)
      BY DEF QueueBehind
    <3> QED
      BY <2>4, <3>1, <1>ContinueBehind, Zenon
  <2>5. ASSUME NEW d \in Cores, CoreBehind(v, d, head), NEW x \in Messages, MsgBehind(x, head),
               Continue(v, d, <<x>>)
        PROVE  BehindInv'
    <3>1. <<x>> \in Seq(Messages) /\ QueueBehind(<<x>>, head)
      BY <2>5 DEF QueueBehind
    <3> QED
      BY <2>5, <3>1, <1>ContinueBehind, Zenon
  <2>6. CASE HandleProposal(v, m)
    <3> DEFINE d == [c EXCEPT !.state = "Prepared", !.proposal = m.header]
               e == [c EXCEPT !.backlog = @ \cup {m}]
               x == Message("PREPARE", v, m.number, m.round, m.header)
    <3>1. m.type = "PROPOSAL" /\ m.header \in Proposed /\ Len(m.header) = m.number
      BY <2>2, <2>6, Zenon DEF HandleProposal, MsgBehind
    <3>2. \/ m.number = Height(v) /\ Continue(v, d, <<x>>)
          \/ Continue(v, e, <<>>)
          \/ Continue(v, c, <<>>)
      BY <2>6, Zenon DEF HandleProposal, Current
    <3>3. /\ d \in Cores /\ d.parent = c.parent /\ d.proposal = m.header /\ d.commits = c.commits
          /\ d.roundChanges = c.roundChanges /\ d.backlog = c.backlog
      BY <2>1, <3>1, PreparedCore, Zenon
    <3>4. /\ e \in Cores /\ e.parent = c.parent /\ e.proposal = c.proposal /\ e.commits = c.commits
          /\ e.roundChanges = c.roundChanges /\ e.backlog = c.backlog \cup {m}
          /\ e.state = c.state
      BY <2>1, Zenon DEF Cores
    <3>5. x \in Messages
      BY <2>2, <3>1, MessageTyped, Zenon DEF Types
    <3>6. MsgBehind(x, head)
      BY <3>1, Zenon DEF MsgBehind, Message
    <3> HIDE DEF c, d, e, x
    <3>7. m.number = Height(v) => CoreBehind(v, d, head)
      BY <2>1, <3>1, <3>3, Zenon DEF CoreBehind
    <3>8. CoreBehind(v, e, head)
      BY <2>1, <3>4, Zenon DEF CoreBehind
    <3>9. CASE m.number = Height(v) /\ Continue(v, d, <<x>>)
      BY <2>5, <3>3, <3>5, <3>6, <3>7, <3>9, Zenon
    <3>10. CASE Continue(v, e, <<>>)
      BY <2>4, <3>4, <3>8, <3>10, Zenon
    <3>11. CASE Continue(v, c, <<>>)
      BY <2>1, <2>4, <3>11, Zenon
    <3> QED
      BY <3>2, <3>9, <3>10, <3>11, Zenon
  <2>7. CASE HandlePrepare(v, m)
    <3> DEFINE P == c.prepares \cup {m.from}
               e == [c EXCEPT !.prepares = P]
               d == [e EXCEPT !.state = "CommitSent"]
               x == Message("COMMIT", v, m.number, m.round, m.header)
    <3>1. m.type = "PREPARE" /\ m.header \in Proposed /\ Len(m.header) = m.number
      BY <2>2, <2>7, Zenon DEF HandlePrepare, MsgBehind
    <3>2. \/ m.number = Height(v) /\ c.state = "Prepared" /\ Continue(v, d, <<x>>)
          \/ Continue(v, e, <<>>)
          \/ Continue(v, c, <<>>)
      BY <2>7, Zenon DEF HandlePrepare, Counts, Current
    <3>3. P \in SUBSET Validators
      BY <2>1, <2>2, Zenon DEF Cores
    <3>4. /\ e \in Cores /\ e.parent = c.parent /\ e.proposal = c.proposal /\ e.commits = c.commits
          /\ e.roundChanges = c.roundChanges /\ e.backlog = c.backlog
          /\ e.state = c.state
      BY <2>1, <3>3, Zenon DEF Cores
    <3> HIDE DEF c, e
    <3>5. /\ d \in Cores /\ d.parent = e.parent /\ d.proposal = e.proposal /\ d.commits = e.commits
          /\ d.roundChanges = e.roundChanges /\ d.backlog = e.backlog
      BY <3>4, Zenon DEF Cores
    <3>6. x \in Messages
      BY <2>2, <3>1, MessageTyped, Zenon DEF Types
    <3>7. m.number = Height(v) => MsgBehind(x, head)
      BY <2>1, <2>3, <3>1 DEF MsgBehind, Message, CoreBehind
    <3> HIDE DEF d, x
    <3>8. CoreBehind(v, e, head)
      BY <2>1, <3>4, Zenon DEF CoreBehind
    <3>9. c.state = "Prepared" => CoreBehind(v, d, head)
      BY <2>1, <3>4, <3>5, Zenon DEF CoreBehind
    <3>10. CASE m.number = Height(v) /\ c.state = "Prepared" /\ Continue(v, d, <<x>>)
      BY <2>5, <3>5, <3>6, <3>7, <3>9, <3>10, Zenon
    <3>11. CASE Continue(v, e, <<>>)
      BY <2>4, <3>4, <3>8, <3>11, Zenon
    <3>12. CASE Continue(v, c, <<>>)
      BY <2>1, <2>4, <3>12, Zenon
    <3> QED
      BY <3>2, <3>10, <3>11, <3>12, Zenon
  <2>8. CASE HandleCommit(v, m)
    <3> DEFINE C == c.commits \cup {m.from}
               e == [c EXCEPT !.commits = C]
               d == [e EXCEPT !.state = "Committed"]
    <3>1. m.type = "COMMIT" /\ m.header \in Proposed /\ Len(m.header) = m.number
      BY <2>2, <2>8, Zenon DEF HandleCommit, MsgBehind
    <3>2. \/ /\ Counts(v, m)
             /\ core' = [core EXCEPT ![v].commits = C, ![v].state = "Committed"]
             /\ pc' = [pc EXCEPT ![v] = "Commit"]
             /\ UNCHANGED <<out, net>>
          \/ Counts(v, m) /\ Continue(v, e, <<>>)
          \/ Continue(v, c, <<>>)
      <4>1. CASE ~Counts(v, m)
        BY <2>8, <4>1, Zenon DEF HandleCommit
      <4>2. CASE Counts(v, m)
        BY <2>8, <4>2, Zenon DEF HandleCommit
      <4> QED
        BY <4>1, <4>2, Zenon
    <3>3. C \in SUBSET Validators
      BY <2>1, <2>2, Zenon DEF Cores
    <3>4. /\ e \in Cores /\ e.parent = c.parent /\ e.proposal = c.proposal /\ e.commits = C
          /\ e.roundChanges = c.roundChanges /\ e.backlog = c.backlog
          /\ e.state = c.state
      BY <2>1, <3>3, Zenon DEF Cores
    <3>5. Counts(v, m) => \A w \in C : Len(c.parent) <= Len(head[w])
      <4>1. Counts(v, m) => m.number = Len(c.parent) + 1 /\ m.number <= Len(head[m.from]) + 1
        BY <2>1, <3>1, Zenon DEF Counts, Current, MsgBehind
      <4>2. Counts(v, m) => Len(c.parent) <= Len(head[m.from])
        BY <2>2, <2>3, <4>1
      <4> QED
        BY <2>1, <4>2, Zenon DEF CoreBehind
    <3>6. Counts(v, m) => Len(c.proposal) = Len(c.parent) + 1
      BY <2>1, <3>1, Zenon DEF Counts, Current
    <3>7. ASSUME Counts(v, m),
                 core' = [core EXCEPT ![v].commits = C, ![v].state = "Committed"],
                 pc' = [pc EXCEPT ![v] = "Commit"], UNCHANGED <<out, net>>
          PROVE  BehindInv'
      <4>1. core' = [core EXCEPT ![v] = d]
        <5> DEFINE k == [core EXCEPT ![v] = e]
        <5>1. core' = [k EXCEPT ![v] = [k[v] EXCEPT !.state = "Committed"]]
          BY <3>7, Zenon
        <5>2. k[v] = e
          BY Zenon DEF LoopTypeOK
        <5>3. core' = [k EXCEPT ![v] = d]
          BY <5>1, <5>2, Zenon
        <5> HIDE DEF d, e
        <5> QED
          BY <5>3, Zenon DEF LoopTypeOK
      <4> HIDE DEF e, c, C
      <4>2. /\ d \in Cores /\ d.parent = e.parent /\ d.proposal = e.proposal
            /\ d.commits = e.commits /\ d.roundChanges = e.roundChanges /\ d.backlog = e.backlog
            /\ d.state = "Committed"
        BY <3>4, Zenon DEF Cores
      <4> HIDE DEF d
      <4>3. CoreBehind(v, d, head)
        BY <2>1, <3>4, <3>5, <3>7, <4>2, Zenon DEF CoreBehind
      <4>4. Len(d.proposal) = Len(d.parent) + 1
        BY <3>4, <3>6, <3>7, <4>2, Zenon
      <4>5. head' = head /\ blocks' = blocks /\ net' = net /\ out' = out
        BY <3>7, Zenon DEF storeVars
      <4>6. ASSUME NEW u \in Validators PROVE Behind(u)'
        <5>1. core'[u] = IF u = v THEN d ELSE core[u]
          BY <4>1, Zenon DEF LoopTypeOK
        <5>2. pc'[u] = IF u = v THEN "Commit" ELSE pc[u]
          BY <3>7, Zenon DEF LoopTypeOK
        <5>3. Behind(u) /\ QueueBehind(chan'[u], head)
          BY Zenon DEF BehindInv, QueuesBehind
        <5>4. /\ CoreBehind(u, core'[u], head)
              /\ pc'[u] = "Commit" => Len(core'[u].proposal) = Len(core'[u].parent) + 1
          BY <4>3, <4>4, <5>1, <5>2, <5>3, Zenon DEF Behind
        <5> QED
          BY <4>5, <5>3, <5>4, Zenon DEF Behind
      <4> QED
        BY <4>6, Zenon DEF BehindInv
    <3> HIDE DEF d, e, c, C
    <3>8. Counts(v, m) => CoreBehind(v, e, head)
      BY <2>1, <3>4, <3>5, Zenon DEF CoreBehind
    <3>9. CASE Counts(v, m) /\ Continue(v, e, <<>>)
      BY <2>4, <3>4, <3>8, <3>9, Zenon
    <3>10. CASE Continue(v, c, <<>>)
      BY <2>1, <2>4, <3>10, Zenon
    <3> QED
      BY <3>2, <3>7, <3>9, <3>10, Zenon
  <2>9. CASE HandleRoundChange(v, m)
    <3> DEFINE records == {x \in c.roundChanges : x.from # m.from} \cup {m}
               R == {x \in records : x.round = m.round}
               prepared == {x.header : x \in R} \ {NoHeader}
               early == {x \in c.backlog : x.number = m.number /\ x.round = m.round}
               e == [c EXCEPT !.roundChanges = records]
    <3>1. \/ Continue(v, c, <<>>)
          \/ m.number = Height(v) /\ Continue(v, e, <<>>)
          \/ /\ m.number = Height(v)
             /\ \E h \in IF prepared = {} THEN {NoHeader} ELSE prepared :
                  EnterRound(v, c.parent, m.round, h, early)
      <4>1. CASE m.number # Height(v)
        BY <2>9, <4>1, Zenon DEF HandleRoundChange
      <4>2. CASE m.number = Height(v)
        <5>1. \/ Continue(v, c, <<>>)
              \/ Continue(v, e, <<>>)
              \/ \E h \in IF prepared = {} THEN {NoHeader} ELSE prepared :
                   EnterRound(v, c.parent, m.round, h, early)
          BY <2>9, Zenon DEF HandleRoundChange
        <5> QED
          BY <4>2, <5>1, Zenon
      <4> QED
        BY <4>1, <4>2, Zenon
    <3>2. records \in SUBSET Messages /\ c.parent \in Branches
      BY <2>1, Zenon DEF Cores
    <3>3. /\ e \in Cores /\ e.parent = c.parent /\ e.proposal = c.proposal /\ e.commits = c.commits
          /\ e.roundChanges = records /\ e.backlog = c.backlog /\ e.state = c.state
      BY <2>1, <3>2, Zenon DEF Cores
    <3>4. m.number = Height(v) => \A x \in records : MsgBehind(x, head) /\ x.number = Len(c.parent) + 1
      BY <2>1, Zenon DEF CoreBehind
    <3>5. /\ early \in SUBSET Messages
          /\ \A x \in early : x.type = "PROPOSAL" /\ MsgBehind(x, head) /\ x.number = m.number
      BY <2>1, Zenon DEF Cores, LoopTypeOK, CoreBehind
    <3>6. ASSUME m.number = Height(v), NEW h \in IF prepared = {} THEN {NoHeader} ELSE prepared
          PROVE  /\ h \in Proposed \cup {NoHeader}
                 /\ h # NoHeader => Len(h) = Len(c.parent) + 1
      <4>1. CASE h = NoHeader
        BY <4>1, Zenon
      <4>2. CASE h # NoHeader
        <5>1. PICK x \in R : h = x.header
          BY <4>2, Zenon
        <5>2. x \in Messages /\ MsgBehind(x, head) /\ x.number = Len(c.parent) + 1
          BY <3>2, <3>4, <3>6, Zenon
        <5> HIDE DEF R, c, prepared
        <5> QED
          BY <4>2, <5>1, <5>2, Zenon DEF Messages, MsgBehind
      <4> QED
        BY <4>1, <4>2, Zenon
    <3> HIDE DEF e, c, prepared, early, records, R
    <3>7. CASE /\ m.number = Height(v)
               /\ \E h \in IF prepared = {} THEN {NoHeader} ELSE prepared :
                    EnterRound(v, c.parent, m.round, h, early)
      <4>1. PICK h \in IF prepared = {} THEN {NoHeader} ELSE prepared :
              EnterRound(v, c.parent, m.round, h, early)
        BY <3>7, Zenon
      <4>2. h \in Proposed \cup {NoHeader} /\ (h # NoHeader => Len(h) = Len(c.parent) + 1)
        BY <3>6, <3>7, Zenon
      <4>3. \A x \in early : x.type = "PROPOSAL" /\ MsgBehind(x, head) /\ x.number = Len(c.parent) + 1
        BY <2>1, <3>5, <3>7, Zenon
      <4>4. Len(c.parent) <= Len(head[v])
        BY <2>1, Zenon DEF CoreBehind
      <4> QED
        BY <2>2, <3>2, <3>5, <4>1, <4>2, <4>3, <4>4, <1>EnterRoundBehind, Zenon
    <3>8. m.number = Height(v) => CoreBehind(v, e, head)
      BY <2>1, <3>3, <3>4, Zenon DEF CoreBehind
    <3>9. CASE m.number = Height(v) /\ Continue(v, e, <<>>)
      BY <2>4, <3>3, <3>8, <3>9, Zenon
    <3>10. CASE Continue(v, c, <<>>)
      BY <2>1, <2>4, <3>10, Zenon
    <3> QED
      BY <3>1, <3>7, <3>9, <3>10, Zenon
  <2> QED
    BY <2>6, <2>7, <2>8, <2>9, Zenon
\* Heads only get higher.
<1>HigherBehind.
    ASSUME NEW H \in [Validators -> Branches], NEW G \in [Validators -> Branches],
           \A w \in Validators : Len(H[w]) <= Len(G[w])
    PROVE  /\ \A m \in Messages : MsgBehind(m, H) => MsgBehind(m, G)
           /\ \A v \in Validators, c \in Cores : CoreBehind(v, c, H) => CoreBehind(v, c, G)
           /\ \A h \in Branches : BlockBehind(h, H) => BlockBehind(h, G)
  <2> USE <1>HigherBehind
  <2>1. \A w \in Validators : Len(H[w]) \in Nat /\ Len(G[w]) \in Nat
    BY DEF Branches
  <2>2. ASSUME NEW m \in Messages, MsgBehind(m, H) PROVE MsgBehind(m, G)
    <3>1. m.from \in Validators /\ m.number \in Nat
      BY Zenon DEF Messages
    <3> QED
      BY <2>1, <2>2, <3>1 DEF MsgBehind
  <2>3. ASSUME NEW v \in Validators, NEW c \in Cores, CoreBehind(v, c, H)
        PROVE  CoreBehind(v, c, G)
    <3>1. /\ Len(c.parent) \in Nat /\ c.commits \subseteq Validators
          /\ c.roundChanges \subseteq Messages /\ c.backlog \subseteq Messages
      BY DEF Cores, Branches
    <3>2. Len(c.parent) <= Len(G[v]) /\ \A w \in c.commits : Len(c.parent) <= Len(G[w])
      BY <2>1, <2>3, <3>1 DEF CoreBehind
    <3> QED
      BY <2>2, <2>3, <3>1, <3>2, Zenon DEF CoreBehind
  <2>4. ASSUME NEW h \in Branches, BlockBehind(h, H), Len(h) > 0, NEW w \in h[Len(h)].seals
        PROVE  Len(h) <= Len(G[w]) + 1
    <3>1. Len(h) \in Nat /\ h[Len(h)] \in Entries
      BY <2>4 DEF Branches
    <3>2. w \in Validators
      BY <3>1, <2>4, Zenon DEF Entries
    <3>3. Len(h) <= Len(H[w]) + 1
      BY <2>4, Zenon DEF BlockBehind
    <3> QED
      BY <2>1, <3>1, <3>2, <3>3
  <2> QED
    BY <2>2, <2>3, <2>4, Zenon DEF BlockBehind
\* Steps that add a block, or take one from the topic.
<1>StoreBehind.
    ASSUME LoopTypeOK, BehindInv, head' \in [Validators -> Branches],
           \A w \in Validators : Len(head[w]) <= Len(head'[w]),
           UNCHANGED <<core, out, chan, net>>,
           \A u \in Validators : pc'[u] = "Commit" => pc[u] = "Commit",
           \A u \in Validators : BlockBehind(head'[u], head'),
           \A u \in Validators : \A h \in blocks'[u] : BlockBehind(h, head')
    PROVE  BehindInv'
  <2> USE <1>StoreBehind
  <2>1. /\ head \in [Validators -> Branches] /\ core \in [Validators -> Cores]
        /\ out \in [Validators -> Seq(Messages)] /\ chan \in [Validators -> Seq(Messages)]
        /\ net \in [Validators -> SUBSET Messages]
    BY Zenon DEF LoopTypeOK
  <2>2. /\ \A m \in Messages : MsgBehind(m, head) => MsgBehind(m, head')
        /\ \A v \in Validators, c \in Cores : CoreBehind(v, c, head) => CoreBehind(v, c, head')
    BY <2>1, <1>HigherBehind, Zenon
  <2>3. ASSUME NEW u \in Validators PROVE Behind(u)'
    <3>1. Behind(u) /\ net[u] \subseteq Messages
      BY <2>1, Zenon DEF BehindInv
    <3>2. \A m \in net'[u] : MsgBehind(m, head')
      BY <2>2, <3>1, Zenon DEF Behind
    <3>3. ASSUME NEW q \in Seq(Messages), QueueBehind(q, head) PROVE QueueBehind(q, head')
      BY <2>2, <3>3 DEF QueueBehind
    <3>4. QueueBehind(chan'[u], head') /\ QueueBehind(out'[u], head')
      BY <2>1, <3>1, <3>3, Zenon DEF Behind
    <3>5. /\ CoreBehind(u, core'[u], head')
          /\ pc'[u] = "Commit" => Len(core'[u].proposal) = Len(core'[u].parent) + 1
      BY <2>1, <2>2, <3>1, Zenon DEF Behind
    <3>6. BlockBehind(head'[u], head') /\ \A h \in blocks'[u] : BlockBehind(h, head')
      BY Zenon
    <3> QED
      BY <3>2, <3>4, <3>5, <3>6, Zenon DEF Behind
  <2> QED
    BY <2>3, Zenon DEF BehindInv
<1>AddBlockBehind.
    ASSUME LoopTypeOK, BehindInv, NEW v \in Validators, NEW h \in Proposed, BlockBehind(h, head),
           AddBlock(v, h)
    PROVE  /\ head' \in [Validators -> Branches]
           /\ \A w \in Validators : Len(head[w]) <= Len(head'[w])
           /\ \A u \in Validators : BlockBehind(head'[u], head')
           /\ \A b \in Branches : BlockBehind(b, head) => BlockBehind(b, head')
  <2> USE <1>AddBlockBehind
  <2>1. head \in [Validators -> Branches] /\ h \in Branches /\ Len(h) \in Nat
    <3>1. head \in [Validators -> Branches] /\ h \in Branches
      BY Zenon DEF LoopTypeOK, Proposed
    <3> QED
      BY <3>1, BranchLength, Zenon
  <2>2. \/ head' = head
        \/ head' = [head EXCEPT ![v] = h] /\ Len(h) > Len(head[v])
    BY Zenon DEF AddBlock
  <2>3. head' \in [Validators -> Branches]
    BY <2>1, <2>2, Zenon
  <2>4. \A w \in Validators : Len(head[w]) \in Nat
    BY <2>1 DEF Branches
  <2>5. \A w \in Validators : Len(head[w]) <= Len(head'[w])
    BY <2>1, <2>2, <2>4
  <2>6. \A b \in Branches : BlockBehind(b, head) => BlockBehind(b, head')
    BY <2>1, <2>3, <2>5, <1>HigherBehind, Zenon
  <2>7. ASSUME NEW u \in Validators PROVE BlockBehind(head'[u], head')
    <3>1. head'[u] \in {head[u], h}
      BY <2>1, <2>2, Zenon
    <3>2. BlockBehind(head[u], head) /\ head[u] \in Branches
      BY <2>1, Zenon DEF BehindInv, Behind
    <3> QED
      BY <2>1, <2>6, <3>1, <3>2, Zenon
  <2> QED
    BY <2>3, <2>5, <2>6, <2>7, Zenon
<1> SUFFICES ASSUME LoopInv, BehindInv, [Next]_vars PROVE BehindInv'
  BY Zenon
<1>0. /\ LoopTypeOK /\ \A u \in Validators : LoopAt(u)
      /\ chan \in [Validators -> Seq(Messages)]
      /\ QueuesBehind(chan, head)
      /\ \A u \in Validators : head[u] \in Branches /\ Len(head[u]) \in Nat
  <2>1. LoopTypeOK /\ \A u \in Validators : LoopAt(u)
    BY Zenon DEF LoopInv
  <2>2. chan \in [Validators -> Seq(Messages)] /\ \A u \in Validators : head[u] \in Branches
    BY <2>1, Zenon DEF LoopTypeOK
  <2>3. QueuesBehind(chan, head)
    BY Zenon DEF BehindInv, Behind, QueuesBehind
  <2> QED
    BY <2>1, <2>2, <2>3, BranchLength, Zenon
<1>1. CASE UNCHANGED vars
  <2>1. UNCHANGED <<core, out, chan, net, head, blocks, pc>>
    BY <1>1, Zenon DEF vars, loopVars, storeVars
  <2> QED
    BY <2>1, Zenon DEF BehindInv, Behind
<1>2. ASSUME NEW v \in Validators, StartInstance(v) PROVE BehindInv'
  <2>1. /\ EnterRound(v, head[v], 0, NoHeader, {}) /\ UNCHANGED <<chan, storeVars, blocks>>
        /\ QueuesBehind(chan', head)
    BY <1>0, <1>2, Zenon DEF StartInstance
  <2>2. /\ 0 \in Nat /\ NoHeader \in Proposed \cup {NoHeader} /\ {} \in SUBSET Messages
        /\ Len(head[v]) <= Len(head[v])
        /\ \A m \in {} : /\ m.type = "PROPOSAL" /\ MsgBehind(m, head)
                         /\ m.number = Len(head[v]) + 1
    BY <1>0
  <2> QED
    BY <1>0, <2>1, <2>2, <1>EnterRoundBehind, Zenon
<1>3. ASSUME NEW v \in Validators, Timeout(v) PROVE BehindInv'
  <2> DEFINE c == core[v]
             prepared == IF c.state = "New" THEN NoHeader ELSE c.proposal
             d == [c EXCEPT !.state = "RoundChange"]
             x == Message("ROUND_CHANGE", v, Height(v), c.round + 1, prepared)
  <2>1. /\ Continue(v, d, <<x>>) /\ UNCHANGED <<chan, storeVars, blocks>>
        /\ QueuesBehind(chan', head) /\ c.state \in {"New", "Prepared", "CommitSent"}
    BY <1>0, <1>3, Zenon DEF Timeout
  <2>2. c \in Cores /\ CoreBehind(v, c, head)
    BY <1>0, Zenon DEF LoopTypeOK, BehindInv, Behind
  <2>3. /\ d \in Cores /\ d.parent = c.parent /\ d.commits = c.commits
        /\ d.roundChanges = c.roundChanges /\ d.backlog = c.backlog /\ d.state = "RoundChange"
    BY <2>2, Zenon DEF Cores
  <2>4. x \in Messages
    <3>1. Height(v) \in Nat /\ c.round + 1 \in Nat /\ prepared \in Proposed \cup {NoHeader}
      BY <2>2 DEF Height, Cores, Branches
    <3> QED
      BY <3>1, MessageTyped, Zenon DEF Types
  <2>5. MsgBehind(x, head)
    <3>1. prepared # NoHeader => Len(prepared) = Height(v)
      BY <2>1, <2>2, Zenon DEF CoreBehind, Height
    <3> HIDE DEF prepared
    <3> QED
      BY <3>1, Zenon DEF MsgBehind, Message
  <2> HIDE DEF c, d, x
  <2>6. CoreBehind(v, d, head)
    BY <2>2, <2>3, Zenon DEF CoreBehind
  <2>7. <<x>> \in Seq(Messages) /\ QueueBehind(<<x>>, head)
    BY <2>4, <2>5 DEF QueueBehind
  <2> QED
    BY <1>0, <2>1, <2>3, <2>6, <2>7, <1>ContinueBehind, Zenon
<1>4. ASSUME NEW v \in Validators, Read(v) PROVE BehindInv'
  <2>1. /\ chan[v] \in Seq(Messages) /\ chan[v] # <<>> /\ QueueBehind(chan[v], head)
        /\ chan' = [chan EXCEPT ![v] = Tail(@)] /\ UNCHANGED <<storeVars, blocks>>
    BY <1>0, <1>4, Zenon DEF Read, QueuesBehind
  <2>2. Head(chan[v]) \in Messages /\ MsgBehind(Head(chan[v]), head)
    BY <2>1 DEF QueueBehind
  <2>3. QueueBehind(Tail(chan[v]), head)
    BY <2>1 DEF QueueBehind
  <2>4. QueuesBehind(chan', head)
    BY <1>0, <2>1, <2>3, Zenon DEF QueuesBehind
  <2>5. LET m == Head(chan[v])
        IN  \/ HandleProposal(v, m) \/ HandlePrepare(v, m)
            \/ HandleCommit(v, m) \/ HandleRoundChange(v, m)
    BY <1>4, Zenon DEF Read
  <2> QED
    BY <1>0, <2>1, <2>2, <2>4, <2>5, <1>HandleMsgBehind, Zenon
<1>5. ASSUME NEW v \in Validators, Echo(v) PROVE BehindInv'
  <2>1. /\ out[v] \in Seq(Messages) /\ out[v] # <<>> /\ QueueBehind(out[v], head)
        /\ chan[v] \in Seq(Messages) /\ QueueBehind(chan[v], head)
        /\ chan' = [chan EXCEPT ![v] = Append(@, Head(out[v]))]
        /\ Dispatch(v, Tail(out[v])) /\ UNCHANGED <<core, storeVars, blocks>>
    BY <1>0, <1>5, Zenon DEF Echo, LoopTypeOK, LoopAt, BehindInv, Behind
  <2>2. /\ Head(out[v]) \in Messages /\ Tail(out[v]) \in Seq(Messages)
        /\ MsgBehind(Head(out[v]), head) /\ QueueBehind(Tail(out[v]), head)
    <3> DEFINE o == out[v]
    <3>1. o \in Seq(Messages) /\ o # <<>> /\ QueueBehind(o, head)
      BY <2>1, Zenon
    <3> HIDE DEF o
    <3>2. Head(o) \in Messages /\ Tail(o) \in Seq(Messages)
      BY <3>1
    <3>3. Head(o) = o[1] /\ 1 \in DOMAIN o
      BY <3>1
    <3>4. \A i \in DOMAIN Tail(o) : i + 1 \in DOMAIN o /\ Tail(o)[i] = o[i + 1]
      BY <3>1
    <3>5. MsgBehind(Head(o), head) /\ QueueBehind(Tail(o), head)
      BY <3>1, <3>3, <3>4, Zenon DEF QueueBehind
    <3> QED
      BY <3>2, <3>5, Zenon DEF o
  <2>3. QueueBehind(Append(chan[v], Head(out[v])), head)
    BY <2>1, <2>2 DEF QueueBehind
  <2>4. QueuesBehind(chan', head)
    BY <1>0, <2>1, <2>3, Zenon DEF QueuesBehind
  <2>5. core[v] \in Cores /\ CoreBehind(v, core[v], head)
    BY <1>0, Zenon DEF LoopTypeOK, BehindInv, Behind
  <2>6. Continue(v, core[v], Tail(out[v]))
    BY <1>0, <2>1, Zenon DEF Continue, LoopTypeOK
  <2> QED
    BY <1>0, <2>1, <2>2, <2>4, <2>5, <2>6, <1>ContinueBehind, Zenon
<1>6. ASSUME NEW v \in Validators, CommitBlock(v) PROVE BehindInv'
  <2> DEFINE h == SealedHeader(core[v].proposal, core[v].commits)
  <2>1. /\ core[v].proposal \in Proposed /\ core[v].commits \in SUBSET Validators
        /\ Len(core[v].proposal) = Len(core[v].parent) + 1 /\ Len(core[v].parent) \in Nat
        /\ \A w \in core[v].commits : Len(core[v].parent) <= Len(head[w])
    <3>1. pc[v] = "Commit" /\ LoopAt(v) /\ Behind(v)
      BY <1>0, <1>6, Zenon DEF CommitBlock, BehindInv
    <3>2. core[v] \in Cores
      BY <1>0, Zenon DEF LoopTypeOK
    <3>3. /\ core[v].commits \in SUBSET Validators /\ core[v].parent \in Branches
          /\ core[v].proposal \in Proposed \cup {NoHeader}
      BY <3>2, Zenon DEF Cores
    <3>4. core[v].proposal \in Proposed
      BY <3>1, <3>3, Zenon DEF LoopAt
    <3>5. /\ Len(core[v].proposal) = Len(core[v].parent) + 1
          /\ \A w \in core[v].commits : Len(core[v].parent) <= Len(head[w])
      BY <3>1, Zenon DEF Behind, CoreBehind
    <3> QED
      BY <3>3, <3>4, <3>5, BranchLength, Zenon
  <2>2. h \in Proposed /\ h[Len(h)].seals = core[v].commits /\ Len(h) = Len(core[v].parent) + 1
    BY <2>1, SealedFacts, Zenon
  <2>3. /\ pc' = [pc EXCEPT ![v] = "Start"] /\ UNCHANGED <<core, out, chan, net>>
        /\ \/ AddBlock(v, h) /\ blocks' = Publish(blocks, v, h)
           \/ UNCHANGED <<storeVars, blocks>>
    BY <1>6, Zenon DEF CommitBlock
  <2> HIDE DEF h
  <2>4. BlockBehind(h, head)
    BY <1>0, <2>1, <2>2 DEF BlockBehind
  <2>5. \A u \in Validators : pc'[u] = "Commit" => pc[u] = "Commit"
    BY <1>0, <2>3, Zenon DEF LoopTypeOK
  <2>6. CASE AddBlock(v, h) /\ blocks' = Publish(blocks, v, h)
    <3>1. /\ head' \in [Validators -> Branches]
          /\ \A w \in Validators : Len(head[w]) <= Len(head'[w])
          /\ \A u \in Validators : BlockBehind(head'[u], head')
          /\ \A b \in Branches : BlockBehind(b, head) => BlockBehind(b, head')
      BY <1>0, <2>2, <2>4, <2>6, <1>AddBlockBehind, Zenon
    <3>2. ASSUME NEW u \in Validators, NEW b \in blocks'[u] PROVE BlockBehind(b, head')
      <4>1. b \in blocks[u] \cup {h}
        BY <2>6, <3>2, Zenon DEF Publish
      <4>2. \A g \in blocks[u] \cup {h} : g \in Branches /\ BlockBehind(g, head)
        BY <1>0, <2>2, <2>4, Zenon DEF LoopTypeOK, Proposed, BehindInv, Behind
      <4> QED
        BY <3>1, <4>1, <4>2, Zenon
    <3> QED
      BY <1>0, <2>3, <2>5, <3>1, <3>2, <1>StoreBehind, Zenon
  <2>7. CASE UNCHANGED <<storeVars, blocks>>
    <3>1. head' = head /\ blocks' = blocks /\ head' \in [Validators -> Branches]
      BY <1>0, <2>7, Zenon DEF storeVars, LoopTypeOK
    <3>2. /\ \A u \in Validators : BlockBehind(head'[u], head')
          /\ \A u \in Validators : \A g \in blocks'[u] : BlockBehind(g, head')
          /\ \A w \in Validators : Len(head[w]) <= Len(head'[w])
      <4>1. \A u \in Validators : /\ BlockBehind(head[u], head)
                                  /\ \A g \in blocks[u] : BlockBehind(g, head)
        BY Zenon DEF BehindInv, Behind
      <4> QED
        BY <1>0, <3>1, <4>1
    <3> QED
      BY <1>0, <2>3, <2>5, <3>1, <3>2, <1>StoreBehind, Zenon
  <2> QED
    BY <2>3, <2>6, <2>7, Zenon
<1>7. ASSUME NEW v \in Validators, NEW m \in net[v], HandleQBFTMsg(v, m) PROVE BehindInv'
  <2>1. /\ net' = [net EXCEPT ![v] = @ \ {m}]
        /\ chan' = [chan EXCEPT ![v] = Append(@, m)] \/ chan' = chan
        /\ UNCHANGED <<core, pc, out, storeVars, blocks>>
    BY <1>7, Zenon DEF HandleQBFTMsg
  <2>2. /\ m \in Messages /\ MsgBehind(m, head)
        /\ chan[v] \in Seq(Messages) /\ QueueBehind(chan[v], head)
    <3>1. m \in Messages /\ chan[v] \in Seq(Messages)
      BY <1>0, Zenon DEF LoopTypeOK
    <3>2. Behind(v)
      BY Zenon DEF BehindInv
    <3> QED
      BY <3>1, <3>2, Zenon DEF Behind
  <2>3. QueueBehind(Append(chan[v], m), head)
    <3> DEFINE q == chan[v]
    <3>1. q \in Seq(Messages) /\ QueueBehind(q, head)
      BY <2>2, Zenon
    <3> HIDE DEF q
    <3>2. QueueBehind(Append(q, m), head)
      BY <2>2, <3>1 DEF QueueBehind
    <3> QED
      BY <3>2, Zenon DEF q
  <2>4. \A u \in Validators : QueueBehind(chan'[u], head)
    BY <1>0, <2>1, <2>3, Zenon DEF QueuesBehind
  <2>5. \A u \in Validators : net'[u] \subseteq net[u]
    BY <1>0, <2>1, Zenon DEF LoopTypeOK
  <2>6. core' = core /\ pc' = pc /\ out' = out /\ head' = head /\ blocks' = blocks
    BY <2>1, Zenon DEF storeVars
  <2>7. ASSUME NEW u \in Validators PROVE Behind(u)'
    <3>1. Behind(u)
      BY Zenon DEF BehindInv
    <3>2. \A x \in net'[u] : MsgBehind(x, head')
      BY <2>5, <2>6, <3>1, Zenon DEF Behind
    <3>3. QueueBehind(chan'[u], head')
      BY <2>4, <2>6, Zenon
    <3> QED
      BY <2>6, <3>1, <3>2, <3>3, Zenon DEF Behind
  <2> QED
    BY <2>7, Zenon DEF BehindInv
<1>8. ASSUME NEW v \in Validators, NEW h \in blocks[v], HandleBlock(v, h) PROVE BehindInv'
  <2>1. /\ blocks' = [blocks EXCEPT ![v] = @ \ {h}] /\ UNCHANGED <<core, pc, out, chan, net>>
        /\ AddBlock(v, h) \/ UNCHANGED storeVars
    BY <1>8, Zenon DEF HandleBlock, loopVars
  <2>2. /\ h \in Proposed /\ BlockBehind(h, head)
        /\ \A u \in Validators : \A b \in blocks[u] : b \in Branches /\ BlockBehind(b, head)
    BY <1>0, Zenon DEF LoopTypeOK, Proposed, BehindInv, Behind
  <2>3. \A u \in Validators : blocks'[u] \subseteq blocks[u]
    BY <1>0, <2>1, Zenon DEF LoopTypeOK
  <2>4. /\ head' \in [Validators -> Branches]
        /\ \A w \in Validators : Len(head[w]) <= Len(head'[w])
        /\ \A u \in Validators : BlockBehind(head'[u], head')
        /\ \A b \in Branches : BlockBehind(b, head) => BlockBehind(b, head')
    <3>1. CASE AddBlock(v, h)
      BY <1>0, <2>2, <3>1, <1>AddBlockBehind, Zenon
    <3>2. CASE UNCHANGED storeVars
      <4>1. head' = head
        BY <3>2, Zenon DEF storeVars
      <4> QED
        <5>1. head \in [Validators -> Branches]
          BY <1>0, Zenon DEF LoopTypeOK
        <5>2. \A u \in Validators : BlockBehind(head[u], head)
          BY Zenon DEF BehindInv, Behind
        <5> QED
          BY <1>0, <4>1, <5>1, <5>2
    <3> QED
      BY <2>1, <3>1, <3>2, Zenon
  <2>5. \A u \in Validators : \A b \in blocks'[u] : BlockBehind(b, head')
    BY <2>2, <2>3, <2>4, Zenon
  <2> QED
    BY <1>0, <2>1, <2>4, <2>5, <1>StoreBehind, Zenon
<1> QED
  BY <1>1, <1>2, <1>3, <1>4, <1>5, <1>6, <1>7, <1>8, Zenon DEF Next, LoopStep, Deliver

LEMMA QuorumFacts ==
  /\ N \in Nat
  /\ N <= 3 => Quorum >= N
  /\ N >= 1 => Quorum <= N
<1>1. N \in Nat
  BY LoopAssumption, FS_CardinalityType, Zenon DEF N
<1>2. \A n \in Nat : n <= 3 => ((2 * n) \div 3) + 1 >= n
  OBVIOUS
<1>3. \A n \in Nat : n >= 1 => ((2 * n) \div 3) + 1 <= n
  OBVIOUS
<1> QED
  BY <1>1, <1>2, <1>3, Zenon DEF Quorum

\* A quorum of the validators has all blocks of u but the last.
QuorumClose(u) ==
  \E Q \in SUBSET Validators :
    Cardinality(Q) >= Quorum /\ \A w \in Q : Len(head[u]) <= Len(head[w]) + 1

LEMMA QuorumIsClose ==
  ASSUME LoopInv, BehindInv, NEW u \in Validators
  PROVE  QuorumClose(u)
<1>1. head[u] \in Seq(Entries) /\ \A w \in Validators : Len(head[w]) \in Nat
  BY DEF LoopInv, LoopTypeOK, Branches
<1>2. CASE Len(head[u]) > 0
  <2> DEFINE Q == head[u][Len(head[u])].seals
  <2>1. Len(head[u]) \in DOMAIN head[u] /\ head[u][Len(head[u])] \in Entries
    BY <1>1, <1>2
  <2>2. Q \in SUBSET Validators
    BY <2>1, Zenon DEF Entries
  <2>3. Cardinality(Q) >= Quorum
    BY <2>1, Zenon DEF LoopInv, StoreSealed, Sealed
  <2>4. \A w \in Q : Len(head[u]) <= Len(head[w]) + 1
    BY <1>2, Zenon DEF BehindInv, Behind, BlockBehind
  <2> HIDE DEF Q
  <2> QED
    BY <2>2, <2>3, <2>4, Zenon DEF QuorumClose
<1>3. CASE Len(head[u]) = 0
  <2>1. N >= 1
    <3>1. N # 0
      BY LoopAssumption, FS_EmptySet, Zenon DEF N
    <3> QED
      BY <3>1, QuorumFacts
  <2>2. Cardinality(Validators) >= Quorum
    BY <2>1, QuorumFacts, Zenon DEF N, Quorum
  <2>3. \A w \in Validators : Len(head[u]) <= Len(head[w]) + 1
    BY <1>1, <1>3
  <2> QED
    BY <2>2, <2>3, Zenon DEF QuorumClose
<1> QED
  BY <1>1, <1>2, <1>3

\* For any number of validators, size of the channel and order of delivery: at
\* any time a quorum of the validators has every canonical block of any given
\* one but the last, since a COMMIT is only sent on top of the block below
\* (runQBFTLoop starts an instance on the head, VerifyHeader and CommitBlock
\* want the seals of a quorum).
THEOREM QuorumStaysClose == LoopSpec => [](\A u \in Validators : QuorumClose(u))
<1>1. LoopInv /\ BehindInv => \A u \in Validators : QuorumClose(u)
  BY QuorumIsClose, Zenon
<1> QED
  BY <1>1, LoopInvInit, LoopInvNext, BehindInit, BehindNext, PTL DEF LoopSpec

\* Up to three validators are never more than one block apart.
THEOREM LoopsTogether == LoopSpec => []AtMostOneBehind
<1>1. LoopInv /\ BehindInv => AtMostOneBehind
  <2> SUFFICES ASSUME LoopInv, BehindInv, N <= 3, NEW u \in Validators, NEW v \in Validators
               PROVE  Len(head[u]) <= Len(head[v]) + 1
    BY Zenon DEF AtMostOneBehind
  <2>1. PICK Q \in SUBSET Validators :
          Cardinality(Q) >= Quorum /\ \A w \in Q : Len(head[u]) <= Len(head[w]) + 1
    BY QuorumIsClose, Zenon DEF QuorumClose
  <2>2. Cardinality(Q) \in Nat /\ Cardinality(Q) <= Cardinality(Validators)
        /\ (Cardinality(Q) = Cardinality(Validators) => Q = Validators)
    <3>1. IsFiniteSet(Validators)
      BY LoopAssumption, Zenon
    <3> QED
      BY <3>1, FS_Subset, FS_CardinalityType, Zenon
  <2>3. Quorum \in Int
    BY QuorumFacts DEF Quorum
  <2>4. Cardinality(Q) = Cardinality(Validators)
    BY <2>1, <2>2, <2>3, QuorumFacts DEF N
  <2> QED
    BY <2>1, <2>2, <2>4, Zenon
<1> QED
  BY <1>1, LoopInvInit, LoopInvNext, BehindInit, BehindNext, PTL DEF LoopSpec

-----------------------------------------------------------------------------
(* Own votes *)

OwnVote(type, v, c) == Message(type, v, Len(c.parent) + 1, c.round, c.proposal)

\* q is the channel and o what is still to be dispatched.
Queued(m, q, o) == (\E i \in DOMAIN q : q[i] = m) \/ (\E i \in DOMAIN o : o[i] = m)

\* A proposal that is replayed at the start of a round gets no PREPARE; that
\* happens neither in round 0 nor to the proposer.
OwnKept(v, c, q, o) ==
  /\ (/\ c.state \in {"Prepared", "CommitSent"}
      /\ c.round = 0 \/ v = Proposer(Len(c.parent) + 1, c.round))
       => v \in c.prepares \/ Queued(OwnVote("PREPARE", v, c), q, o)
  /\ c.state = "CommitSent" => v \in c.commits \/ Queued(OwnVote("COMMIT", v, c), q, o)

OwnAt(v) ==
  /\ pc[v] # "Echo" => out[v] = <<>>
  /\ OwnKept(v, core[v], chan[v], out[v])

OwnInv == \A v \in Validators : OwnAt(v)

\* Reading the channel drops no more than the message that is handled.
LEMMA TailQueued ==
  ASSUME NEW q \in Seq(Messages), q # <<>>, NEW x, x # Head(q), Queued(x, q, <<>>), NEW o
  PROVE  Queued(x, Tail(q), o)
<1>1. PICK i \in DOMAIN q : q[i] = x
  BY DEF Queued
<1>2. i \in 1..Len(q) /\ i # 1 /\ Len(q) \in Nat
  BY <1>1
<1>3. i - 1 \in DOMAIN Tail(q) /\ Tail(q)[i - 1] = q[i]
  BY <1>2
<1> QED
  BY <1>1, <1>3, Zenon DEF Queued

LEMMA AppendQueued ==
  ASSUME NEW q \in Seq(Messages), NEW m \in Messages, NEW x, NEW o
  PROVE  /\ Queued(x, q, o) => Queued(x, Append(q, m), o)
         /\ Queued(m, Append(q, m), o)
<1>1. /\ \A i \in DOMAIN q : i \in DOMAIN Append(q, m) /\ Append(q, m)[i] = q[i]
      /\ Len(q) + 1 \in DOMAIN Append(q, m) /\ Append(q, m)[Len(q) + 1] = m
  OBVIOUS
<1> QED
  BY <1>1, Zenon DEF Queued

LEMMA OwnInit == Init => OwnInv
<1> SUFFICES ASSUME Init, NEW v \in Validators PROVE OwnAt(v)
  BY Zenon DEF OwnInv
<1>1. out[v] = <<>> /\ core[v] = NewCore(<<>>, 0)
  BY Zenon DEF Init, Genesis
<1>2. core[v].state = "New"
  BY <1>1 DEF NewCore
<1>3. OwnKept(v, core[v], chan[v], out[v])
  BY <1>2, Zenon DEF OwnKept
<1> QED
  BY <1>1, <1>3, Zenon DEF OwnAt

LEMMA OwnNext == LoopInv /\ BehindInv /\ OwnInv /\ [Next]_vars => OwnInv'
<1>ContinueOwn.
    ASSUME LoopTypeOK, OwnInv, NEW v \in Validators, NEW c \in Cores, NEW msgs \in Seq(Messages),
           Continue(v, c, msgs), OwnKept(v, c, chan'[v], msgs),
           \A u \in Validators \ {v} : chan'[u] = chan[u]
    PROVE  OwnInv'
  <2> USE <1>ContinueOwn
  <2>1. /\ core' = [core EXCEPT ![v] = c] /\ out' = [out EXCEPT ![v] = msgs]
        /\ pc' = [pc EXCEPT ![v] = IF msgs = <<>> THEN "Select" ELSE "Echo"]
        /\ core \in [Validators -> Cores] /\ out \in [Validators -> Seq(Messages)]
        /\ pc \in [Validators -> {"Start", "Select", "Echo", "Commit"}]
    BY Zenon DEF Continue, Dispatch, LoopTypeOK
  <2>2. ASSUME NEW u \in Validators PROVE OwnAt(u)'
    <3>1. CASE u = v
      <4>1. core'[u] = c /\ out'[u] = msgs /\ (pc'[u] # "Echo" => msgs = <<>>)
        BY <2>1, <3>1, Zenon
      <4> QED
        BY <3>1, <4>1, Zenon DEF OwnAt
    <3>2. CASE u # v
      <4>1. core'[u] = core[u] /\ out'[u] = out[u] /\ pc'[u] = pc[u] /\ chan'[u] = chan[u]
        BY <2>1, <3>2, Zenon
      <4>2. OwnAt(u)
        BY Zenon DEF OwnInv
      <4> QED
        BY <4>1, <4>2, Zenon DEF OwnAt
    <3> QED
      BY <3>1, <3>2, Zenon
  <2> QED
    BY <2>2, Zenon DEF OwnInv
<1>EnterRoundOwn.
    ASSUME LoopTypeOK, OwnInv, NEW v \in Validators, NEW parent \in Branches, NEW r \in Nat,
           NEW prepared \in Proposed \cup {NoHeader}, NEW early \in SUBSET Messages,
           \A m \in early : m.type = "PROPOSAL", r = 0 => early = {},
           EnterRound(v, parent, r, prepared, early),
           \A u \in Validators \ {v} : chan'[u] = chan[u]
    PROVE  OwnInv'
  <2> USE <1>EnterRoundOwn
  <2> DEFINE number == Len(parent) + 1
             h == IF prepared = NoHeader THEN FreshHeader(v, parent, r) ELSE ReusedHeader(prepared, r)
             c == NewCore(parent, r)
             With(b) == [c EXCEPT !.state = "Prepared", !.proposal = b]
             p1 == Message("PROPOSAL", v, number, r, h)
             p2 == Message("PREPARE", v, number, r, h)
  <2>1. c \in Cores /\ c.state = "New" /\ c.parent = parent /\ c.round = r
    BY Zenon DEF NewCore, Cores
  <2>2. ASSUME NEW b \in Proposed
        PROVE  /\ With(b) \in Cores /\ With(b).state = "Prepared" /\ With(b).parent = parent
               /\ With(b).round = r /\ With(b).proposal = b
    <3>1. /\ With(b) \in Cores /\ With(b).state = "Prepared" /\ With(b).parent = c.parent
          /\ With(b).round = c.round /\ With(b).proposal = b
      BY <2>1, PreparedCore, Zenon
    <3> QED
      BY <2>1, <3>1, Zenon
  <2>3. number \in Nat
    BY DEF Branches
  <2>4. h \in Proposed
    BY FreshProposed, ReusedProposed, Zenon
  <2>5. \/ Continue(v, With(h), <<p1, p2>>)
        \/ /\ v # Proposer(number, r)
           /\ \E m \in early : Continue(v, With(m.header), <<>>)
        \/ Continue(v, c, <<>>)
    BY Zenon DEF EnterRound
  <2> HIDE DEF number, h
  <2>6. <<p1, p2>> \in Seq(Messages) /\ <<>> \in Seq(Messages)
    <3>1. p1 \in Messages /\ p2 \in Messages
      BY <2>3, <2>4, MessageTyped, Zenon DEF Types
    <3> HIDE DEF p1, p2
    <3> QED
      BY <3>1
  <2>7. p2 = OwnVote("PREPARE", v, With(h))
    <3>1. With(h).parent = parent /\ With(h).round = r /\ With(h).proposal = h
      BY <2>2, <2>4, Zenon
    <3> QED
      BY <3>1, Zenon DEF OwnVote, number
  <2> HIDE DEF c, With, p1, p2
  <2>8. Queued(p2, chan'[v], <<p1, p2>>)
    <3>1. 2 \in DOMAIN <<p1, p2>> /\ <<p1, p2>>[2] = p2
      OBVIOUS
    <3> QED
      BY <3>1, Zenon DEF Queued
  <2>9. CASE Continue(v, With(h), <<p1, p2>>)
    <3>1. With(h) \in Cores /\ OwnKept(v, With(h), chan'[v], <<p1, p2>>)
      BY <2>2, <2>4, <2>7, <2>8, Zenon DEF OwnKept
    <3> QED
      BY <2>6, <2>9, <3>1, <1>ContinueOwn, Zenon
  <2>10. CASE v # Proposer(number, r) /\ \E m \in early : Continue(v, With(m.header), <<>>)
    <3>1. PICK m \in early : Continue(v, With(m.header), <<>>)
      BY <2>10, Zenon
    <3>2. m.header \in Proposed /\ r # 0
      BY Zenon DEF Messages
    <3>3. With(m.header) \in Cores /\ OwnKept(v, With(m.header), chan'[v], <<>>)
      BY <2>2, <2>10, <3>2, Zenon DEF OwnKept, number
    <3> QED
      BY <2>6, <3>1, <3>3, <1>ContinueOwn, Zenon
  <2>11. CASE Continue(v, c, <<>>)
    <3>1. c \in Cores /\ OwnKept(v, c, chan'[v], <<>>)
      BY <2>1, Zenon DEF OwnKept
    <3> QED
      BY <2>6, <2>11, <3>1, <1>ContinueOwn, Zenon
  <2> QED
    BY <2>5, <2>9, <2>10, <2>11, Zenon
<1>HandleMsgOwn.
    ASSUME LoopTypeOK, BehindInv, OwnInv, NEW v \in Validators, NEW m \in Messages,
           pc[v] = "Select", chan[v] # <<>>, m = Head(chan[v]),
           \/ HandleProposal(v, m) \/ HandlePrepare(v, m)
           \/ HandleCommit(v, m) \/ HandleRoundChange(v, m),
           chan' = [chan EXCEPT ![v] = Tail(@)]
    PROVE  OwnInv'
  <2> USE <1>HandleMsgOwn
  <2> DEFINE c == core[v]
  <2>1. c \in Cores /\ CoreBehind(v, c, head) /\ Height(v) = Len(c.parent) + 1
    BY Zenon DEF LoopTypeOK, BehindInv, Behind, Height
  <2>2. /\ m.from \in Validators /\ m.number \in Nat /\ m.round \in Nat
        /\ m.header \in Proposed \cup {NoHeader}
        /\ m.type # "ROUND_CHANGE" => m.header \in Proposed
    BY Zenon DEF Messages
  <2>3. OwnKept(v, c, chan[v], <<>>) /\ out[v] = <<>>
    <3>1. OwnAt(v)
      BY Zenon DEF OwnInv
    <3>2. out[v] = <<>>
      BY <3>1, Zenon DEF OwnAt
    <3> QED
      BY <3>1, <3>2, Zenon DEF OwnAt
  <2>4. /\ chan'[v] = Tail(chan[v]) /\ \A u \in Validators \ {v} : chan'[u] = chan[u]
        /\ chan[v] \in Seq(Messages)
    BY Zenon DEF LoopTypeOK
  <2>5. ASSUME NEW x, x # m, Queued(x, chan[v], <<>>), NEW o PROVE Queued(x, chan'[v], o)
    BY <2>4, <2>5, TailQueued, Zenon
  <2>6. \A type : /\ OwnVote(type, v, c).type = type /\ OwnVote(type, v, c).from = v
                  /\ OwnVote(type, v, c).number = Len(c.parent) + 1
                  /\ OwnVote(type, v, c).round = c.round
                  /\ OwnVote(type, v, c).header = c.proposal
    BY Zenon DEF OwnVote, Message
  <2>7. ASSUME NEW d \in Cores, OwnKept(v, d, chan'[v], <<>>), Continue(v, d, <<>>)
        PROVE  OwnInv'
    <3>1. <<>> \in Seq(Messages)
      OBVIOUS
    <3> QED
      BY <2>4, <2>7, <3>1, <1>ContinueOwn, Zenon
  <2>8. ASSUME NEW d \in Cores, NEW x \in Messages, OwnKept(v, d, chan'[v], <<x>>),
               Continue(v, d, <<x>>)
        PROVE  OwnInv'
    <3>1. <<x>> \in Seq(Messages)
      OBVIOUS
    <3> QED
      BY <2>4, <2>8, <3>1, <1>ContinueOwn, Zenon
  \* A message that is not the core's own vote for its proposal leaves the votes.
  <2>9. ASSUME NEW d, d.state = c.state, d.round = c.round, d.parent = c.parent,
               d.proposal = c.proposal, c.prepares \subseteq d.prepares,
               c.commits \subseteq d.commits,
               m = OwnVote("PREPARE", v, c) /\ c.state # "New" => v \in d.prepares,
               m = OwnVote("COMMIT", v, c) /\ c.state # "New" => v \in d.commits
        PROVE  OwnKept(v, d, chan'[v], <<>>)
    <3>1. \A type : OwnVote(type, v, d) = OwnVote(type, v, c)
      BY <2>9, Zenon DEF OwnVote
    <3> HIDE DEF c
    <3> QED
      BY <2>3, <2>5, <2>9, <3>1, Zenon DEF OwnKept
  <2>10. CASE HandleProposal(v, m)
    <3> DEFINE d == [c EXCEPT !.state = "Prepared", !.proposal = m.header]
               e == [c EXCEPT !.backlog = @ \cup {m}]
               x == Message("PREPARE", v, m.number, m.round, m.header)
    <3>1. m.type = "PROPOSAL" /\ m.header \in Proposed
      BY <2>2, <2>10, Zenon DEF HandleProposal
    <3>2. \/ m.number = Height(v) /\ m.round = c.round /\ Continue(v, d, <<x>>)
          \/ Continue(v, e, <<>>)
          \/ Continue(v, c, <<>>)
      BY <2>10, Zenon DEF HandleProposal, Current
    <3>3. /\ d \in Cores /\ d.state = "Prepared" /\ d.parent = c.parent /\ d.round = c.round
          /\ d.proposal = m.header
      BY <2>1, <3>1, PreparedCore, Zenon
    <3>4. /\ e \in Cores /\ e.parent = c.parent /\ e.proposal = c.proposal /\ e.commits = c.commits
          /\ e.prepares = c.prepares /\ e.round = c.round /\ e.state = c.state
      BY <2>1, Zenon DEF Cores
    <3>5. x \in Messages
      BY <2>2, <3>1, MessageTyped, Zenon DEF Types
    <3>6. \A type \in {"PREPARE", "COMMIT"} : m # OwnVote(type, v, c)
      BY <2>6, <3>1, Zenon
    <3>7. m.number = Height(v) /\ m.round = c.round => x = OwnVote("PREPARE", v, d)
      BY <2>1, <3>3, Zenon DEF OwnVote
    <3> HIDE DEF c, d, e, x
    <3>8. OwnKept(v, e, chan'[v], <<>>) /\ OwnKept(v, c, chan'[v], <<>>)
      <4>1. OwnKept(v, e, chan'[v], <<>>)
        BY <2>9, <3>4, <3>6, Zenon
      <4>2. OwnKept(v, c, chan'[v], <<>>)
        BY <2>9, <3>6, Zenon
      <4> QED
        BY <4>1, <4>2, Zenon
    <3>9. Queued(x, chan'[v], <<x>>)
      BY DEF Queued
    <3>10. CASE m.number = Height(v) /\ m.round = c.round /\ Continue(v, d, <<x>>)
      <4>1. OwnKept(v, d, chan'[v], <<x>>)
        BY <3>3, <3>7, <3>9, <3>10, Zenon DEF OwnKept
      <4> QED
        BY <2>8, <3>3, <3>5, <3>10, <4>1, Zenon
    <3>11. CASE Continue(v, e, <<>>)
      BY <2>7, <3>4, <3>8, <3>11, Zenon
    <3>12. CASE Continue(v, c, <<>>)
      BY <2>1, <2>7, <3>8, <3>12, Zenon
    <3> QED
      BY <3>2, <3>10, <3>11, <3>12, Zenon
  <2>11. CASE HandlePrepare(v, m)
    <3> DEFINE P == c.prepares \cup {m.from}
               e == [c EXCEPT !.prepares = P]
               d == [e EXCEPT !.state = "CommitSent"]
               x == Message("COMMIT", v, m.number, m.round, m.header)
    <3>1. m.type = "PREPARE" /\ m.header \in Proposed
      BY <2>2, <2>11, Zenon DEF HandlePrepare
    <3>2. \/ Counts(v, m) /\ c.state = "Prepared" /\ Continue(v, d, <<x>>)
          \/ Counts(v, m) /\ Continue(v, e, <<>>)
          \/ ~Counts(v, m) /\ Continue(v, c, <<>>)
      <4>1. CASE ~Counts(v, m)
        BY <2>11, <4>1, Zenon DEF HandlePrepare
      <4>2. CASE Counts(v, m)
        BY <2>11, <4>2, Zenon DEF HandlePrepare
      <4> QED
        BY <4>1, <4>2, Zenon
    <3>3. P \in SUBSET Validators
      BY <2>1, <2>2, Zenon DEF Cores
    <3>4. /\ e \in Cores /\ e.parent = c.parent /\ e.proposal = c.proposal /\ e.commits = c.commits
          /\ e.prepares = P /\ e.round = c.round /\ e.state = c.state
      BY <2>1, <3>3, Zenon DEF Cores
    <3>5. m = OwnVote("PREPARE", v, c) /\ c.state # "New" => Counts(v, m)
      BY <2>1, <2>6 DEF Counts, Current
    <3>6. Counts(v, m) => /\ m.number = Len(c.parent) + 1 /\ m.round = c.round
                          /\ m.header = c.proposal
      BY <2>1, Zenon DEF Counts, Current
    <3>7. m # OwnVote("COMMIT", v, c) /\ (m = OwnVote("PREPARE", v, c) => m.from = v)
      BY <2>6, <3>1, Zenon
    <3> HIDE DEF c, e
    <3>8. /\ d \in Cores /\ d.parent = e.parent /\ d.proposal = e.proposal
          /\ d.prepares = e.prepares /\ d.round = e.round /\ d.state = "CommitSent"
      BY <3>4, Zenon DEF Cores
    <3>9. x \in Messages
      BY <2>2, <3>1, MessageTyped, Zenon DEF Types
    <3> HIDE DEF d
    <3>10. Counts(v, m) => x = OwnVote("COMMIT", v, d)
      BY <3>4, <3>6, <3>8, Zenon DEF OwnVote
    <3>11. OwnVote("PREPARE", v, d) = OwnVote("PREPARE", v, c)
      BY <3>4, <3>8, Zenon DEF OwnVote
    <3> HIDE DEF x
    <3>12. Queued(x, chan'[v], <<x>>)
      BY DEF Queued
    <3>13. CASE Counts(v, m) /\ c.state = "Prepared" /\ Continue(v, d, <<x>>)
      <4>1. /\ d.round = 0 \/ v = Proposer(Len(d.parent) + 1, d.round)
            => v \in d.prepares \/ Queued(OwnVote("PREPARE", v, d), chan'[v], <<x>>)
        BY <2>3, <2>5, <3>4, <3>7, <3>8, <3>11, <3>13, Zenon DEF OwnKept
      <4>2. OwnKept(v, d, chan'[v], <<x>>)
        BY <3>8, <3>10, <3>12, <3>13, <4>1, Zenon DEF OwnKept
      <4> QED
        BY <2>8, <3>8, <3>9, <3>13, <4>2, Zenon
    <3>14. CASE Counts(v, m) /\ Continue(v, e, <<>>)
      <4>1. OwnKept(v, e, chan'[v], <<>>)
        BY <2>9, <3>4, <3>7, Zenon
      <4> QED
        BY <2>7, <3>4, <3>14, <4>1, Zenon
    <3>15. CASE ~Counts(v, m) /\ Continue(v, c, <<>>)
      <4>1. OwnKept(v, c, chan'[v], <<>>)
        BY <2>9, <3>5, <3>7, <3>15, Zenon
      <4> QED
        BY <2>1, <2>7, <3>15, <4>1, Zenon
    <3> QED
      BY <3>2, <3>13, <3>14, <3>15, Zenon
  <2>12. CASE HandleCommit(v, m)
    <3> DEFINE C == c.commits \cup {m.from}
               e == [c EXCEPT !.commits = C]
    <3>1. m.type = "COMMIT"
      BY <2>12, Zenon DEF HandleCommit
    <3>2. C \in SUBSET Validators
      BY <2>1, <2>2, Zenon DEF Cores
    <3>3. \/ /\ Counts(v, m)
             /\ core' = [core EXCEPT ![v].commits = C, ![v].state = "Committed"]
             /\ pc' = [pc EXCEPT ![v] = "Commit"]
             /\ UNCHANGED <<out, net>>
          \/ Counts(v, m) /\ Continue(v, e, <<>>)
          \/ ~Counts(v, m) /\ Continue(v, c, <<>>)
      <4>1. CASE ~Counts(v, m)
        BY <2>12, <4>1, Zenon DEF HandleCommit
      <4>2. CASE Counts(v, m) /\ Cardinality(C) >= Quorum
        BY <2>12, <4>2, Zenon DEF HandleCommit
      <4>3. CASE Counts(v, m) /\ Cardinality(C) < Quorum
        BY <2>12, <4>3, Zenon DEF HandleCommit
      <4>4. Cardinality(C) \in Nat /\ Quorum \in Int
        <5>1. IsFiniteSet(C)
          BY <3>2, LoopAssumption, FS_Subset, Zenon
        <5>2. Cardinality(C) \in Nat
          BY <5>1, FS_CardinalityType, Zenon
        <5>3. Quorum \in Int
          BY QuorumFacts DEF Quorum
        <5> QED
          BY <5>2, <5>3, Zenon
      <4>5. Cardinality(C) >= Quorum \/ Cardinality(C) < Quorum
        BY <4>4
      <4> QED
        BY <4>1, <4>2, <4>3, <4>5, Zenon
    <3>4. /\ e \in Cores /\ e.parent = c.parent /\ e.proposal = c.proposal /\ e.commits = C
          /\ e.prepares = c.prepares /\ e.round = c.round /\ e.state = c.state
      BY <2>1, <3>2, Zenon DEF Cores
    <3>5. m = OwnVote("COMMIT", v, c) /\ c.state # "New" => Counts(v, m)
      BY <2>1, <2>6 DEF Counts, Current
    <3>6. m # OwnVote("PREPARE", v, c) /\ (m = OwnVote("COMMIT", v, c) => m.from = v)
      BY <2>6, <3>1, Zenon
    <3>7. ASSUME core' = [core EXCEPT ![v].commits = C, ![v].state = "Committed"],
                 pc' = [pc EXCEPT ![v] = "Commit"], UNCHANGED <<out, net>>
          PROVE  OwnInv'
      <4> DEFINE k == [core EXCEPT ![v] = e]
      <4>1. core' = [k EXCEPT ![v] = [k[v] EXCEPT !.state = "Committed"]]
        BY <3>7, Zenon
      <4>2. k[v] = e /\ k \in [Validators -> Cores] /\ \A u \in Validators \ {v} : k[u] = core[u]
        BY <3>4, Zenon DEF LoopTypeOK
      <4> HIDE DEF k, e, c
      <4>3. core'[v] = [e EXCEPT !.state = "Committed"]
            /\ \A u \in Validators \ {v} : core'[u] = core[u]
        BY <4>1, <4>2, Zenon
      <4>4. core'[v].state = "Committed"
        BY <3>4, <4>3, Zenon DEF Cores
      <4>5. ASSUME NEW u \in Validators PROVE OwnAt(u)'
        <5>1. CASE u = v
          <6>1. out'[u] = <<>> /\ OwnKept(u, core'[u], chan'[u], out'[u])
            BY <2>3, <3>7, <4>4, <5>1, Zenon DEF OwnKept
          <6> QED
            BY <6>1, Zenon DEF OwnAt
        <5>2. CASE u # v
          <6>1. core'[u] = core[u] /\ out'[u] = out[u] /\ pc'[u] = pc[u] /\ chan'[u] = chan[u]
            BY <2>4, <3>7, <4>3, <5>2, Zenon DEF LoopTypeOK
          <6>2. OwnAt(u)
            BY Zenon DEF OwnInv
          <6> QED
            BY <6>1, <6>2, Zenon DEF OwnAt
        <5> QED
          BY <5>1, <5>2, Zenon
      <4> QED
        BY <4>5, Zenon DEF OwnInv
    <3> HIDE DEF c, e
    <3>8. CASE Counts(v, m) /\ Continue(v, e, <<>>)
      <4>1. OwnKept(v, e, chan'[v], <<>>)
        BY <2>9, <3>4, <3>6, Zenon
      <4> QED
        BY <2>7, <3>4, <3>8, <4>1, Zenon
    <3>9. CASE ~Counts(v, m) /\ Continue(v, c, <<>>)
      <4>1. OwnKept(v, c, chan'[v], <<>>)
        BY <2>9, <3>5, <3>6, <3>9, Zenon
      <4> QED
        BY <2>1, <2>7, <3>9, <4>1, Zenon
    <3> QED
      BY <3>3, <3>7, <3>8, <3>9, Zenon
  <2>13. CASE HandleRoundChange(v, m)
    <3> DEFINE records == {x \in c.roundChanges : x.from # m.from} \cup {m}
               R == {x \in records : x.round = m.round}
               prepared == {x.header : x \in R} \ {NoHeader}
               early == {x \in c.backlog : x.number = m.number /\ x.round = m.round}
               e == [c EXCEPT !.roundChanges = records]
    <3>1. \/ Continue(v, c, <<>>)
          \/ Continue(v, e, <<>>)
          \/ /\ m.round > c.round
             /\ \E h \in IF prepared = {} THEN {NoHeader} ELSE prepared :
                  EnterRound(v, c.parent, m.round, h, early)
      <4>1. CASE m.round <= c.round
        BY <2>13, <4>1, Zenon DEF HandleRoundChange
      <4>2. CASE ~(m.round <= c.round)
        <5>1. m.round > c.round
          <6>1. c.round \in Nat
            BY <2>1, Zenon DEF Cores
          <6> HIDE DEF c
          <6> QED
            BY <2>2, <4>2, <6>1
        <5>2. \/ Continue(v, c, <<>>)
              \/ Continue(v, e, <<>>)
              \/ \E h \in IF prepared = {} THEN {NoHeader} ELSE prepared :
                   EnterRound(v, c.parent, m.round, h, early)
          BY <2>13, Zenon DEF HandleRoundChange
        <5> QED
          BY <5>1, <5>2, Zenon
      <4> QED
        BY <4>1, <4>2, Zenon
    <3>2. m.type = "ROUND_CHANGE"
      BY <2>13, Zenon DEF HandleRoundChange
    <3>3. records \in SUBSET Messages
      BY <2>1, Zenon DEF Cores
    <3>4. /\ e \in Cores /\ e.parent = c.parent /\ e.proposal = c.proposal /\ e.commits = c.commits
          /\ e.prepares = c.prepares /\ e.round = c.round /\ e.state = c.state
      <4> HIDE DEF records
      <4> QED
        BY <2>1, <3>3, Zenon DEF Cores
    <3>5. \A type \in {"PREPARE", "COMMIT"} : m # OwnVote(type, v, c)
      BY <2>6, <3>2, Zenon
    <3>6. /\ c.parent \in Branches /\ early \in SUBSET Messages /\ c.round \in Nat
          /\ \A x \in early : x.type = "PROPOSAL"
      BY <2>1, Zenon DEF Cores, LoopTypeOK
    <3>7. \A h \in prepared : h \in Proposed \cup {NoHeader}
      <4>1. \A x \in records : x.header \in Proposed \cup {NoHeader}
        BY <3>3, Zenon DEF Messages
      <4> HIDE DEF records
      <4> QED
        BY <4>1, Zenon
    <3> HIDE DEF c, e, records, prepared, early
    <3>8. CASE Continue(v, e, <<>>)
      <4>1. OwnKept(v, e, chan'[v], <<>>)
        BY <2>9, <3>4, <3>5, Zenon
      <4> QED
        BY <2>7, <3>4, <3>8, <4>1, Zenon
    <3>9. CASE Continue(v, c, <<>>)
      <4>1. OwnKept(v, c, chan'[v], <<>>)
        BY <2>9, <3>5, Zenon
      <4> QED
        BY <2>1, <2>7, <3>9, <4>1, Zenon
    <3>10. ASSUME m.round > c.round,
                  NEW h \in IF prepared = {} THEN {NoHeader} ELSE prepared,
                  EnterRound(v, c.parent, m.round, h, early)
           PROVE  OwnInv'
      <4>1. h \in Proposed \cup {NoHeader}
        BY <3>7, <3>10, Zenon
      <4>2. m.round # 0
        BY <2>2, <3>6, <3>10
      <4> QED
        BY <2>2, <2>4, <3>6, <3>10, <4>1, <4>2, <1>EnterRoundOwn, Zenon
    <3> QED
      BY <3>1, <3>8, <3>9, <3>10, Zenon
  <2> QED
    BY <2>10, <2>11, <2>12, <2>13, Zenon
<1> SUFFICES ASSUME LoopInv, BehindInv, OwnInv, [Next]_vars PROVE OwnInv'
  BY Zenon
<1>0. /\ LoopTypeOK /\ \A u \in Validators : LoopAt(u)
      /\ chan \in [Validators -> Seq(Messages)] /\ out \in [Validators -> Seq(Messages)]
      /\ \A u \in Validators : core[u] \in Cores /\ head[u] \in Branches
  BY Zenon DEF LoopInv, LoopTypeOK
\* A step that leaves the core and the dispatch alone, and the channel but for
\* what it appends.
<1>1. ASSUME UNCHANGED <<core, out>>,
             \A u \in Validators : pc'[u] # pc[u] => pc[u] = "Commit",
             \A u \in Validators : \/ chan'[u] = chan[u]
                                   \/ \E m \in Messages : chan'[u] = Append(chan[u], m)
      PROVE  OwnInv'
  <2> SUFFICES ASSUME NEW u \in Validators PROVE OwnAt(u)'
    BY Zenon DEF OwnInv
  <2>1. OwnAt(u) /\ chan[u] \in Seq(Messages)
    BY <1>0, Zenon DEF OwnInv
  <2>2. \A x : Queued(x, chan[u], out[u]) => Queued(x, chan'[u], out[u])
    BY <1>1, <2>1, AppendQueued, Zenon
  <2>3. OwnKept(u, core[u], chan'[u], out[u])
    BY <2>1, <2>2, Zenon DEF OwnAt, OwnKept
  <2>4. pc'[u] # "Echo" => out[u] = <<>>
    BY <1>1, <2>1, Zenon DEF OwnAt
  <2> QED
    BY <1>1, <2>3, <2>4, Zenon DEF OwnAt
<1>2. CASE UNCHANGED vars
  BY <1>1, <1>2, Zenon DEF vars, loopVars
<1>3. ASSUME NEW v \in Validators, StartInstance(v) PROVE OwnInv'
  <2>1. EnterRound(v, head[v], 0, NoHeader, {}) /\ chan' = chan
    BY <1>3, Zenon DEF StartInstance
  <2>2. /\ 0 \in Nat /\ NoHeader \in Proposed \cup {NoHeader} /\ {} \in SUBSET Messages
        /\ \A m \in {} : m.type = "PROPOSAL"
    BY Zenon
  <2> QED
    BY <1>0, <2>1, <2>2, <1>EnterRoundOwn, Zenon
<1>4. ASSUME NEW v \in Validators, Timeout(v) PROVE OwnInv'
  <2> DEFINE c == core[v]
             prepared == IF c.state = "New" THEN NoHeader ELSE c.proposal
             d == [c EXCEPT !.state = "RoundChange"]
             x == Message("ROUND_CHANGE", v, Height(v), c.round + 1, prepared)
  <2>1. Continue(v, d, <<x>>) /\ chan' = chan
    BY <1>4, Zenon DEF Timeout
  <2>2. d \in Cores /\ d.state = "RoundChange"
    <3>1. c \in Cores
      BY <1>0, Zenon
    <3> HIDE DEF c
    <3> QED
      BY <3>1, Zenon DEF Cores
  <2>3. x \in Messages
    <3>1. Height(v) \in Nat /\ c.round + 1 \in Nat /\ prepared \in Proposed \cup {NoHeader}
      BY <1>0 DEF Height, Cores, Branches
    <3> QED
      BY <3>1, MessageTyped, Zenon DEF Types
  <2> HIDE DEF d, x
  <2>4. <<x>> \in Seq(Messages) /\ OwnKept(v, d, chan'[v], <<x>>)
    BY <2>2, <2>3 DEF OwnKept
  <2> QED
    BY <1>0, <2>1, <2>2, <2>4, <1>ContinueOwn, Zenon
<1>5. ASSUME NEW v \in Validators, Read(v) PROVE OwnInv'
  <2> DEFINE m == Head(chan[v])
  <2>1. /\ pc[v] = "Select" /\ chan[v] # <<>> /\ chan' = [chan EXCEPT ![v] = Tail(@)]
        /\ \/ HandleProposal(v, m) \/ HandlePrepare(v, m)
           \/ HandleCommit(v, m) \/ HandleRoundChange(v, m)
    BY <1>5, Zenon DEF Read
  <2>2. m \in Messages
    <3>1. chan[v] \in Seq(Messages) /\ chan[v] # <<>>
      BY <1>0, <2>1, Zenon
    <3> QED
      BY <3>1
  <2> QED
    BY <1>0, <2>1, <2>2, <1>HandleMsgOwn, Zenon
<1>6. ASSUME NEW v \in Validators, Echo(v) PROVE OwnInv'
  <2> DEFINE m == Head(out[v])
             rest == Tail(out[v])
  <2>1. /\ out[v] # <<>> /\ chan' = [chan EXCEPT ![v] = Append(@, m)]
        /\ Dispatch(v, rest) /\ UNCHANGED core
    BY <1>0, <1>6, Zenon DEF Echo, LoopAt
  <2>2. m \in Messages /\ rest \in Seq(Messages) /\ chan[v] \in Seq(Messages)
    BY <1>0, <2>1
  <2>3. chan'[v] = Append(chan[v], m) /\ \A u \in Validators \ {v} : chan'[u] = chan[u]
    BY <1>0, <2>1, Zenon
  <2>4. ASSUME NEW x, Queued(x, chan[v], out[v]) PROVE Queued(x, chan'[v], rest)
    <3>1. CASE x = m
      BY <2>2, <2>3, <3>1, AppendQueued, Zenon
    <3>2. CASE x # m /\ Queued(x, chan[v], <<>>)
      <4>1. Queued(x, chan[v], rest)
        BY <3>2 DEF Queued
      <4> HIDE DEF m, rest
      <4> QED
        BY <2>2, <2>3, <4>1, AppendQueued, Zenon
    <3>3. CASE x # m /\ Queued(x, out[v], <<>>)
      <4>1. Queued(x, rest, <<>>)
        BY <1>0, <2>1, <3>3, TailQueued, Zenon
      <4> HIDE DEF rest
      <4> QED
        BY <4>1 DEF Queued
    <3> QED
      BY <2>4, <3>1, <3>2, <3>3, Zenon DEF Queued
  <2> HIDE DEF m, rest
  <2>5. OwnKept(v, core[v], chan'[v], rest)
    <3>1. OwnKept(v, core[v], chan[v], out[v])
      BY Zenon DEF OwnInv, OwnAt
    <3> QED
      BY <2>4, <3>1, Zenon DEF OwnKept
  <2>6. Continue(v, core[v], rest)
    BY <1>0, <2>1, Zenon DEF Continue, LoopTypeOK
  <2> QED
    BY <1>0, <2>2, <2>3, <2>5, <2>6, <1>ContinueOwn, Zenon
<1>7. ASSUME NEW v \in Validators, CommitBlock(v) PROVE OwnInv'
  <2>1. /\ pc[v] = "Commit" /\ pc' = [pc EXCEPT ![v] = "Start"]
        /\ UNCHANGED <<core, out, chan>>
    BY <1>7, Zenon DEF CommitBlock
  <2>2. \A u \in Validators : pc'[u] # pc[u] => pc[u] = "Commit"
    BY <1>0, <2>1, Zenon DEF LoopTypeOK
  <2> QED
    BY <1>1, <2>1, <2>2, Zenon
<1>8. ASSUME NEW v \in Validators, NEW m \in net[v], HandleQBFTMsg(v, m) PROVE OwnInv'
  <2>1. /\ chan' = [chan EXCEPT ![v] = Append(@, m)] \/ chan' = chan
        /\ UNCHANGED <<core, pc, out>> /\ m \in Messages
    BY <1>0, <1>8, Zenon DEF HandleQBFTMsg, LoopTypeOK
  <2>2. \A u \in Validators : chan'[u] = chan[u] \/ chan'[u] = Append(chan[u], m)
    BY <1>0, <2>1, Zenon
  <2> QED
    BY <1>1, <2>1, <2>2, Zenon
<1>9. ASSUME NEW v \in Validators, NEW h \in blocks[v], HandleBlock(v, h) PROVE OwnInv'
  BY <1>1, <1>9, Zenon DEF HandleBlock, loopVars
<1> QED
  BY <1>2, <1>3, <1>4, <1>5, <1>6, <1>7, <1>8, <1>9, Zenon DEF Next, LoopStep, Deliver

\* The own votes of a validator are counted by its core or on their way to it:
\* the COMMIT in every round, the PREPARE in round 0 and where the validator is
\* the proposer, for any number of validators, size of the channel and order of
\* delivery (dispatchQBFTDecisions echoes by a blocking send, qbftRoundLoop
\* reads only while nothing is left to dispatch).  In the other rounds a
\* proposal may come from the backlog, and runQBFTInstance drops the decisions
\* of the call that replays it, its PREPARE among them.
THEOREM OwnVotesReachCore ==
  LoopSpec => [](\A v \in Validators : OwnKept(v, core[v], chan[v], out[v]))
<1>1. OwnInv => \A v \in Validators : OwnKept(v, core[v], chan[v], out[v])
  BY Zenon DEF OwnInv, OwnAt
<1> QED
  BY <1>1, LoopInvInit, LoopInvNext, BehindInit, BehindNext, OwnInit, OwnNext, PTL DEF LoopSpec
=============================================================================
