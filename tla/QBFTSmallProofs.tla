-------------------------- MODULE QBFTSmallProofs --------------------------
(***************************************************************************)
(* Proofs about networks of up to three validators, in which every         *)
(* validator is needed for a quorum: their chains agree, the block that a  *)
(* core decides on is never refused by the store, and no own vote is lost. *)
(* With four validators a round may commit without one of them, and the    *)
(* chains need not agree.                                                  *)
(*                                                                         *)
(* The argument follows the position of each validator, its height, round  *)
(* and state, which never goes back: a message tells how far its sender    *)
(* has come, and a block of the chain how far everybody has.               *)
(***************************************************************************)
EXTENDS QBFTLoopProofs

Prepping == {"Prepared", "CommitSent", "Committed", "RoundChange"}

Committing == {"CommitSent", "Committed", "RoundChange"}

\* The core c is beyond round r of height k.
Past(c, k, r) == Len(c.parent) >= k \/ (Len(c.parent) + 1 = k /\ c.round > r)

\* ... or in that round, with proposal b and in one of the states S.
Voted(c, k, r, b, S) ==
  Past(c, k, r) \/ (/\ Len(c.parent) + 1 = k /\ c.round = r
                    /\ c.state \in S /\ c.proposal = b)

\* The core c has asked for round r of height k, or has gone further.
Asked(c, k, r) ==
  \/ Len(c.parent) >= k
  \/ Len(c.parent) + 1 = k /\ c.round >= r
  \/ Len(c.parent) + 1 = k /\ c.round + 1 = r /\ c.state \in {"RoundChange", "Committed"}

\* The core c has committed height k, in round r if it is still there.
Done(c, k, r) ==
  Len(c.parent) >= k \/ (Len(c.parent) + 1 = k /\ c.round = r /\ c.state = "Committed")

\* The states that may follow s within a round.
After(s) ==
  CASE s = "New" -> Prepping \cup {"New"}
    [] s = "Prepared" -> Prepping
    [] s = "CommitSent" -> Committing
    [] s = "RoundChange" -> {"RoundChange", "Committed"}
    [] s = "Committed" -> {"Committed"}

\* A core goes forward from c to d.
Advances(c, d) ==
  \/ Len(d.parent) > Len(c.parent)
  \/ Len(d.parent) = Len(c.parent) /\ d.round > c.round /\ c.state # "Committed"
  \/ /\ Len(d.parent) = Len(c.parent) /\ d.round = c.round /\ d.state \in After(c.state)
     /\ c.state # "New" => d.proposal = c.proposal

\* C is the cores.  Everybody sent a COMMIT for b in round r.
AllCommitted(C, r, b) == \A x \in Validators : Voted(C[x], Len(b), r, b, Committing)

\* K is the known blocks of all validators.  Who sent a COMMIT in round r of
\* height k, and has gone on to a later height, committed in no earlier round.
CommitKept(w, k, r, C, K) ==
  Len(C[w].parent) >= k =>
    \E s \in Nat, b \in Proposed :
      /\ s >= r /\ Len(b) = k /\ SealedHeader(b, Validators) \in K
      /\ AllCommitted(C, s, b)

\* What a message tells of its sender.
MsgOK(m, C, K) ==
  /\ m.type # "ROUND_CHANGE" \/ m.header # NoHeader => Parent(m.header) \in K
  /\ m.type \in {"PROPOSAL", "PREPARE"} =>
       Voted(C[m.from], m.number, m.round, m.header, Prepping)
  /\ m.type = "COMMIT" => /\ Voted(C[m.from], m.number, m.round, m.header, Committing)
                          /\ CommitKept(m.from, m.number, m.round, C, K)
  /\ m.type = "ROUND_CHANGE" => m.round > 0 /\ Asked(C[m.from], m.number, m.round)
  /\ m.type = "PROPOSAL" /\ m.round > 0 =>
       \A w \in Validators : Asked(C[w], m.number, m.round)

HasProposal(c, K) ==
  /\ c.proposal \in Proposed /\ Len(c.proposal) = Len(c.parent) + 1
  /\ Parent(c.proposal) \in K

CoreOK(c, C, K) ==
  /\ c.state \in {"Prepared", "CommitSent", "Committed"} => HasProposal(c, K)
  /\ c.state = "RoundChange" => c.proposal = NoHeader \/ HasProposal(c, K)
  /\ c.state = "New" => c.commits = {} /\ c.proposal = NoHeader
  /\ \A w \in c.commits :
       /\ Voted(C[w], Len(c.parent) + 1, c.round, c.proposal, Committing)
       /\ CommitKept(w, Len(c.parent) + 1, c.round, C, K)
  /\ \A x \in c.roundChanges : x.type = "ROUND_CHANGE" /\ x.number = Len(c.parent) + 1
  /\ \A x, y \in c.roundChanges : x.from = y.from => x = y
  /\ \A x \in c.backlog : x.number # Len(c.parent) + 1

\* Where the loop of v is, with what its core has done.
PlaceOK(v) ==
  /\ core[v].state = "Committed" => pc[v] \in {"Commit", "Start"} /\ core[v].commits = Validators
  /\ pc[v] = "Commit" => core[v].state = "Committed"
  /\ pc[v] = "Start" =>
       \/ core[v].state = "New" /\ core[v].round = 0
       \/ core[v].state = "Committed" /\ SealedHeader(core[v].proposal, Validators) \in known[v]

\* The messages around v.
Pool(v) ==
  net[v] \cup {chan[v][i] : i \in DOMAIN chan[v]} \cup {out[v][i] : i \in DOMAIN out[v]}
    \cup core[v].roundChanges \cup core[v].backlog

Known == UNION {known[v] : v \in Validators}

StoreOK(v) ==
  /\ head[v] \in known[v] /\ core[v].parent \in known[v]
  /\ \A h \in known[v] : Len(h) <= Len(head[v])
  /\ blocks[v] \subseteq Known

\* Somebody committed the block g, with the votes of everybody.
BlockOK(g, C) ==
  Len(g) > 0 =>
    \E u \in Validators, r \in Nat, b \in Proposed :
      /\ g = SealedHeader(b, Validators) /\ Len(b) = Len(g)
      /\ AllCommitted(C, r, b) /\ Done(C[u], Len(g), r)

\* One block per height, with the branch below it.
OneBranch(K) ==
  /\ \A g, h \in K : Len(g) = Len(h) => g = h
  /\ \A h \in K : \A i \in 0..Len(h) : SubSeq(h, 1, i) \in K

SmallInv ==
  /\ \A v \in Validators : \A m \in Pool(v) : MsgOK(m, core, Known)
  /\ \A v \in Validators : CoreOK(core[v], core, Known) /\ PlaceOK(v) /\ StoreOK(v)
  /\ \A g \in Known : BlockOK(g, core)
  /\ OneBranch(Known)
-----------------------------------------------------------------------------
(* Going forward *)

\* The cores go forward from C to D, and the known blocks grow from K to L.  A
\* core that goes to another height has committed.
Forward(C, D, K, L) ==
  /\ C \in [Validators -> Cores] /\ D \in [Validators -> Cores] /\ K \subseteq L
  /\ \A w \in Validators : Advances(C[w], D[w])
  /\ \A w \in Validators : Len(D[w].parent) > Len(C[w].parent) =>
       \/ C[w].state = "New" /\ C[w].round = 0
       \/ /\ Len(C[w].proposal) = Len(C[w].parent) + 1 /\ C[w].proposal \in Proposed
          /\ SealedHeader(C[w].proposal, Validators) \in L
          /\ AllCommitted(C, C[w].round, C[w].proposal)

LEMMA CoreFacts ==
  ASSUME NEW c \in Cores
  PROVE  /\ c.parent \in Branches /\ Len(c.parent) \in Nat /\ c.round \in Nat
         /\ c.state \in {"New", "Prepared", "CommitSent", "Committed", "RoundChange"}
         /\ c.proposal \in Proposed \cup {NoHeader} /\ c.commits \in SUBSET Validators
         /\ c.prepares \in SUBSET Validators
         /\ c.roundChanges \in SUBSET Messages /\ c.backlog \in SUBSET Messages
<1>1. c.parent \in Branches
  BY Zenon DEF Cores
<1> QED
  BY <1>1, BranchLength, Zenon DEF Cores

LEMMA MessageFacts ==
  ASSUME NEW m \in Messages
  PROVE  /\ m.type \in Types /\ m.from \in Validators /\ m.number \in Nat /\ m.round \in Nat
         /\ m.header \in Proposed \cup {NoHeader}
         /\ m.type # "ROUND_CHANGE" => m.header \in Proposed
BY Zenon DEF Messages

LEMMA ProposedFacts ==
  ASSUME NEW h \in Proposed
  PROVE  h \in Branches /\ Len(h) \in Nat /\ Len(h) > 0
BY BranchLength, Zenon DEF Proposed

LEMMA AfterFacts ==
  /\ \A s : s \in {"New", "Prepared", "CommitSent", "Committed", "RoundChange"} => s \in After(s)
  /\ \A s, t : s \in Prepping /\ t \in After(s) => t \in Prepping
  /\ \A s, t : s \in Committing /\ t \in After(s) => t \in Committing
  /\ \A s, t : s \in {"RoundChange", "Committed"} /\ t \in After(s) => t \in {"RoundChange", "Committed"}
  /\ \A t : t \in After("Committed") => t = "Committed"
BY Zenon DEF After, Prepping, Committing

LEMMA AdvancesSelf == \A c \in Cores : Advances(c, c)
  BY CoreFacts, AfterFacts, Zenon DEF Advances

LEMMA PositionForward ==
  ASSUME NEW c \in Cores, NEW d \in Cores, Advances(c, d), NEW k \in Nat, NEW r \in Nat, NEW b
  PROVE  /\ Voted(c, k, r, b, Prepping) => Voted(d, k, r, b, Prepping)
         /\ Voted(c, k, r, b, Committing) => Voted(d, k, r, b, Committing)
         /\ Asked(c, k, r) => Asked(d, k, r)
         /\ Done(c, k, r) => Done(d, k, r)
<1>1. /\ Len(c.parent) \in Nat /\ c.round \in Nat /\ Len(d.parent) \in Nat /\ d.round \in Nat
  BY CoreFacts, Zenon
<1>2. CASE Len(d.parent) > Len(c.parent)
  BY <1>1, <1>2 DEF Voted, Past, Asked, Done
<1>3. CASE Len(d.parent) = Len(c.parent) /\ d.round > c.round /\ c.state # "Committed"
  BY <1>1, <1>3 DEF Voted, Past, Asked, Done
<1>4. CASE /\ Len(d.parent) = Len(c.parent) /\ d.round = c.round /\ d.state \in After(c.state)
           /\ c.state # "New" => d.proposal = c.proposal
  <2>1. /\ "New" \notin Prepping /\ "New" \notin Committing
    BY Zenon DEF Prepping, Committing
  <2> QED
    BY <1>4, <2>1, AfterFacts, Zenon DEF Voted, Past, Asked, Done
<1> QED
  BY <1>2, <1>3, <1>4, Zenon DEF Advances

LEMMA AllCommittedForward ==
  ASSUME NEW C, NEW D, NEW K, NEW L, Forward(C, D, K, L), NEW r \in Nat, NEW b \in Proposed,
         AllCommitted(C, r, b)
  PROVE  AllCommitted(D, r, b)
<1>1. Len(b) \in Nat
  BY ProposedFacts, Zenon
<1>2. \A x \in Validators : C[x] \in Cores /\ D[x] \in Cores /\ Advances(C[x], D[x])
  BY Zenon DEF Forward
<1> QED
  BY <1>1, <1>2, PositionForward, Zenon DEF AllCommitted

LEMMA CommitKeptForward ==
  ASSUME NEW C, NEW D, NEW K, NEW L, Forward(C, D, K, L),
         NEW w \in Validators, NEW k \in Nat, NEW r \in Nat, NEW b,
         Voted(C[w], k, r, b, Committing), CommitKept(w, k, r, C, K)
  PROVE  CommitKept(w, k, r, D, L)
<1> SUFFICES ASSUME Len(D[w].parent) >= k
             PROVE  \E s \in Nat, a \in Proposed :
                      /\ s >= r /\ Len(a) = k /\ SealedHeader(a, Validators) \in L
                      /\ AllCommitted(D, s, a)
  BY Zenon DEF CommitKept
<1>1. C[w] \in Cores /\ D[w] \in Cores /\ Advances(C[w], D[w]) /\ K \subseteq L
  BY Zenon DEF Forward
<1>2. /\ Len(C[w].parent) \in Nat /\ C[w].round \in Nat /\ Len(D[w].parent) \in Nat
  BY <1>1, CoreFacts, Zenon
<1>3. CASE Len(C[w].parent) >= k
  <2>1. PICK s \in Nat, a \in Proposed :
          /\ s >= r /\ Len(a) = k /\ SealedHeader(a, Validators) \in K
          /\ AllCommitted(C, s, a)
    BY <1>3, Zenon DEF CommitKept
  <2>2. AllCommitted(D, s, a)
    BY <2>1, AllCommittedForward, Zenon
  <2> QED
    BY <1>1, <2>1, <2>2, Zenon
<1>4. CASE ~(Len(C[w].parent) >= k)
  <2>1. Len(C[w].parent) + 1 = k /\ Len(D[w].parent) > Len(C[w].parent)
    BY <1>2, <1>4 DEF Voted, Past
  <2>2. C[w].round >= r /\ (C[w].round = r => C[w].state \in Committing)
    BY <1>2, <1>4 DEF Voted, Past
  <2>3. ~(C[w].state = "New" /\ C[w].round = 0)
    BY <1>2, <2>2 DEF Committing
  <2>4. /\ Len(C[w].proposal) = k /\ C[w].proposal \in Proposed
        /\ SealedHeader(C[w].proposal, Validators) \in L
        /\ AllCommitted(C, C[w].round, C[w].proposal)
    BY <2>1, <2>3, Zenon DEF Forward
  <2>5. AllCommitted(D, C[w].round, C[w].proposal)
    BY <1>2, <2>4, AllCommittedForward, Zenon
  <2> QED
    BY <1>2, <2>2, <2>4, <2>5, Zenon
<1> QED
  BY <1>3, <1>4, Zenon
LEMMA MsgForward ==
  ASSUME NEW C, NEW D, NEW K, NEW L, Forward(C, D, K, L), NEW m \in Messages, MsgOK(m, C, K)
  PROVE  MsgOK(m, D, L)
<1>1. /\ m.from \in Validators /\ m.number \in Nat /\ m.round \in Nat
  BY MessageFacts, Zenon
<1>2. /\ \A x \in Validators : C[x] \in Cores /\ D[x] \in Cores /\ Advances(C[x], D[x])
      /\ K \subseteq L
  BY Zenon DEF Forward
<1>3. (m.type # "ROUND_CHANGE" \/ m.header # NoHeader) => Parent(m.header) \in L
  BY <1>2, Zenon DEF MsgOK
<1>4. m.type \in {"PROPOSAL", "PREPARE"} =>
        Voted(D[m.from], m.number, m.round, m.header, Prepping)
  BY <1>1, <1>2, PositionForward, Zenon DEF MsgOK
<1>5. m.type = "COMMIT" => /\ Voted(D[m.from], m.number, m.round, m.header, Committing)
                           /\ CommitKept(m.from, m.number, m.round, D, L)
  BY <1>1, <1>2, PositionForward, CommitKeptForward, Zenon DEF MsgOK
<1>6. m.type = "ROUND_CHANGE" => m.round > 0 /\ Asked(D[m.from], m.number, m.round)
  BY <1>1, <1>2, PositionForward, Zenon DEF MsgOK
<1>7. m.type = "PROPOSAL" /\ m.round > 0 =>
        \A w \in Validators : Asked(D[w], m.number, m.round)
  BY <1>1, <1>2, PositionForward, Zenon DEF MsgOK
<1> QED
  BY <1>3, <1>4, <1>5, <1>6, <1>7, Zenon DEF MsgOK

LEMMA CoreForward ==
  ASSUME NEW C, NEW D, NEW K, NEW L, Forward(C, D, K, L), NEW c \in Cores, CoreOK(c, C, K)
  PROVE  CoreOK(c, D, L)
<1>1. /\ Len(c.parent) + 1 \in Nat /\ c.round \in Nat /\ c.commits \in SUBSET Validators
  <2>1. Len(c.parent) \in Nat /\ c.round \in Nat /\ c.commits \in SUBSET Validators
    BY CoreFacts, Zenon
  <2> QED
    BY <2>1
<1>2. /\ \A x \in Validators : C[x] \in Cores /\ D[x] \in Cores /\ Advances(C[x], D[x])
      /\ K \subseteq L
  BY Zenon DEF Forward
<1>3. HasProposal(c, K) => HasProposal(c, L)
  BY <1>2, Zenon DEF HasProposal
<1>4. ASSUME NEW w \in c.commits
      PROVE  /\ Voted(D[w], Len(c.parent) + 1, c.round, c.proposal, Committing)
             /\ CommitKept(w, Len(c.parent) + 1, c.round, D, L)
  <2>1. /\ w \in Validators /\ Voted(C[w], Len(c.parent) + 1, c.round, c.proposal, Committing)
        /\ CommitKept(w, Len(c.parent) + 1, c.round, C, K)
    BY <1>1, Zenon DEF CoreOK
  <2> DEFINE k == Len(c.parent) + 1
  <2>2. /\ k \in Nat /\ Voted(C[w], k, c.round, c.proposal, Committing)
        /\ CommitKept(w, k, c.round, C, K)
    BY <1>1, <2>1, Zenon
  <2> HIDE DEF k
  <2>3. Voted(D[w], k, c.round, c.proposal, Committing)
    BY <1>1, <1>2, <2>1, <2>2, PositionForward, Zenon
  <2>4. CommitKept(w, k, c.round, D, L)
    BY <1>1, <2>1, <2>2, CommitKeptForward, Zenon
  <2> QED
    BY <2>3, <2>4, Zenon DEF k
<1> QED
  BY <1>3, <1>4, Zenon DEF CoreOK

LEMMA BlockForward ==
  ASSUME NEW C, NEW D, NEW K, NEW L, Forward(C, D, K, L), NEW g \in Branches, BlockOK(g, C)
  PROVE  BlockOK(g, D)
<1> SUFFICES ASSUME Len(g) > 0
             PROVE  \E u \in Validators, r \in Nat, b \in Proposed :
                      /\ g = SealedHeader(b, Validators) /\ Len(b) = Len(g)
                      /\ AllCommitted(D, r, b) /\ Done(D[u], Len(g), r)
  BY Zenon DEF BlockOK
<1>1. PICK u \in Validators, r \in Nat, b \in Proposed :
        /\ g = SealedHeader(b, Validators) /\ Len(b) = Len(g)
        /\ AllCommitted(C, r, b) /\ Done(C[u], Len(g), r)
  BY Zenon DEF BlockOK
<1>2. C[u] \in Cores /\ D[u] \in Cores /\ Advances(C[u], D[u]) /\ Len(g) \in Nat
  BY BranchLength, Zenon DEF Forward
<1>3. Done(D[u], Len(g), r)
  BY <1>1, <1>2, PositionForward, Zenon
<1> QED
  BY <1>1, <1>3, AllCommittedForward, Zenon

LEMMA PoolTyped ==
  ASSUME LoopTypeOK, NEW v \in Validators
  PROVE  Pool(v) \subseteq Messages
<1>1. /\ \A q \in Seq(Messages) : \A i \in DOMAIN q : q[i] \in Messages
  OBVIOUS
<1>2. /\ core[v] \in Cores /\ out[v] \in Seq(Messages) /\ chan[v] \in Seq(Messages)
      /\ net[v] \in SUBSET Messages
  BY Zenon DEF LoopTypeOK
<1> QED
  BY <1>1, <1>2, CoreFacts, Zenon DEF Pool

LEMMA KnownTyped == LoopTypeOK => Known \subseteq Branches
  BY Zenon DEF LoopTypeOK, Known

\* Only a loop that has committed, or not begun, goes to another height.
LEMMA StepForward ==
  ASSUME LoopInv, SmallInv, NEW v \in Validators, NEW d \in Cores,
         core' = [core EXCEPT ![v] = d], Advances(core[v], d),
         Len(d.parent) > Len(core[v].parent) => pc[v] = "Start"
  PROVE  Forward(core, core', Known, Known)
<1>1. /\ core \in [Validators -> Cores] /\ core' \in [Validators -> Cores] /\ core'[v] = d
      /\ \A u \in Validators \ {v} : core'[u] = core[u]
  BY Zenon DEF LoopInv, LoopTypeOK
<1>2. \A w \in Validators : Advances(core[w], core'[w])
  BY <1>1, AdvancesSelf, Zenon
<1>3. ASSUME NEW w \in Validators, Len(core'[w].parent) > Len(core[w].parent)
      PROVE  \/ core[w].state = "New" /\ core[w].round = 0
             \/ /\ Len(core[w].proposal) = Len(core[w].parent) + 1 /\ core[w].proposal \in Proposed
                /\ SealedHeader(core[w].proposal, Validators) \in Known
                /\ AllCommitted(core, core[w].round, core[w].proposal)
  <2>1. w = v
    <3>1. Len(core[w].parent) \in Nat
      BY <1>1, CoreFacts, Zenon
    <3>2. core'[w] # core[w]
      BY <1>3, <3>1
    <3> QED
      BY <1>1, <3>2, Zenon
  <2>2. PlaceOK(v) /\ CoreOK(core[v], core, Known) /\ pc[v] = "Start"
    BY <1>1, <1>3, <2>1, Zenon DEF SmallInv
  <2>3. CASE ~(core[v].state = "New" /\ core[v].round = 0)
    <3>1. /\ core[v].state = "Committed" /\ core[v].commits = Validators
          /\ SealedHeader(core[v].proposal, Validators) \in Known
      BY <2>2, <2>3, Zenon DEF PlaceOK, Known
    <3>2. HasProposal(core[v], Known)
      BY <2>2, <3>1, Zenon DEF CoreOK
    <3> QED
      BY <2>1, <2>2, <3>1, <3>2, Zenon DEF CoreOK, HasProposal, AllCommitted
  <2> QED
    BY <2>1, <2>3, Zenon
<1> QED
  BY <1>1, <1>2, <1>3, Zenon DEF Forward

\* A step of the loop of v, whose new core is d, and which sends the messages M.
LEMMA SmallStep ==
  ASSUME LoopInv, SmallInv, LoopInv', NEW v \in Validators, NEW d \in Cores,
         core' = [core EXCEPT ![v] = d], Advances(core[v], d),
         Len(d.parent) > Len(core[v].parent) => pc[v] = "Start",
         UNCHANGED <<known, head, blocks>>,
         NEW M, \A m \in M : MsgOK(m, core', Known),
         \A u \in Validators : Pool(u)' \subseteq Pool(u) \cup M,
         CoreOK(d, core', Known), d.parent \in known[v],
         PlaceOK(v)', \A u \in Validators \ {v} : pc'[u] = pc[u]
  PROVE  SmallInv' /\ Forward(core, core', Known, Known)
<1>1. /\ core \in [Validators -> Cores] /\ core' \in [Validators -> Cores] /\ core'[v] = d
      /\ \A u \in Validators \ {v} : core'[u] = core[u]
  BY Zenon DEF LoopInv, LoopTypeOK
<1>2. Known' = Known
  BY Zenon DEF Known
<1>3. Forward(core, core', Known, Known)
  BY StepForward, Zenon
<1>4. ASSUME NEW u \in Validators, NEW m \in Pool(u)' PROVE MsgOK(m, core', Known')
  <2>1. CASE m \in M
    BY <1>2, <2>1, Zenon
  <2>2. CASE m \in Pool(u)
    <3>1. m \in Messages /\ MsgOK(m, core, Known)
      BY <2>2, PoolTyped, Zenon DEF SmallInv, LoopInv
    <3> QED
      BY <1>2, <1>3, <3>1, MsgForward, Zenon
  <2> QED
    BY <1>4, <2>1, <2>2, Zenon
<1>5. ASSUME NEW u \in Validators PROVE CoreOK(core'[u], core', Known') /\ PlaceOK(u)' /\ StoreOK(u)'
  <2>1. CoreOK(core[u], core, Known) /\ PlaceOK(u) /\ StoreOK(u) /\ core[u] \in Cores
    BY <1>1, Zenon DEF SmallInv
  <2>2. CASE u = v
    <3>1. StoreOK(u)'
      BY <1>1, <1>2, <2>1, <2>2, Zenon DEF StoreOK
    <3> QED
      BY <1>1, <1>2, <2>2, <3>1, Zenon
  <2>3. CASE u # v
    <3>1. core'[u] = core[u] /\ pc'[u] = pc[u]
      BY <1>1, <2>3, Zenon
    <3>2. CoreOK(core[u], core', Known)
      BY <1>3, <2>1, CoreForward, Zenon
    <3>3. PlaceOK(u)' /\ StoreOK(u)'
      BY <1>2, <2>1, <3>1, Zenon DEF PlaceOK, StoreOK
    <3> QED
      BY <1>2, <3>1, <3>2, <3>3, Zenon
  <2> QED
    BY <2>2, <2>3, Zenon
<1>6. ASSUME NEW g \in Known' PROVE BlockOK(g, core')
  <2>1. g \in Known /\ g \in Branches
    BY <1>2, <1>6, KnownTyped, Zenon DEF LoopInv
  <2> QED
    BY <1>3, <2>1, BlockForward, Zenon DEF SmallInv
<1>7. OneBranch(Known')
  BY <1>2, Zenon DEF SmallInv
<1> QED
  BY <1>3, <1>4, <1>5, <1>6, <1>7, Zenon DEF SmallInv
-----------------------------------------------------------------------------
(* What a message does to a core *)

\* HandleMsg counts the message, keeps it or ignores it.
Quiet(v, m, d) ==
  LET c == core[v]
  IN  /\ d \in Cores /\ d.parent = c.parent /\ d.round = c.round
      /\ d.state = c.state /\ d.proposal = c.proposal
      /\ d.prepares = IF m.type = "PREPARE" /\ Counts(v, m)
                      THEN c.prepares \cup {m.from} ELSE c.prepares
      /\ d.commits = IF m.type = "COMMIT" /\ Counts(v, m)
                     THEN c.commits \cup {m.from} ELSE c.commits
      /\ \/ d.roundChanges = c.roundChanges
         \/ /\ m.type = "ROUND_CHANGE" /\ m.number = Height(v)
            /\ d.roundChanges = {x \in c.roundChanges : x.from # m.from} \cup {m}
      /\ \/ d.backlog = c.backlog
         \/ /\ m.type = "PROPOSAL" /\ c.state = "New" /\ m.round > c.round
            /\ d.backlog = c.backlog \cup {m}

\* The rest of the core that handlers leave alone.
SameRest(c, d) == d.parent = c.parent /\ d.round = c.round /\
                  d.roundChanges = c.roundChanges /\ d.backlog = c.backlog

\* handleProposal accepts the proposal m.
Accepts(v, m, d) ==
  LET c == core[v]
  IN  /\ m.type = "PROPOSAL" /\ c.state = "New" /\ Current(v, m)
      /\ d \in Cores /\ SameRest(c, d) /\ d.state = "Prepared" /\ d.proposal = m.header
      /\ d.prepares = c.prepares /\ d.commits = c.commits

\* handlePrepare has its quorum.
Locks(v, m, d) ==
  LET c == core[v]
  IN  /\ m.type = "PREPARE" /\ c.state = "Prepared" /\ Counts(v, m)
      /\ d \in Cores /\ SameRest(c, d) /\ d.state = "CommitSent" /\ d.proposal = c.proposal
      /\ d.prepares = c.prepares \cup {m.from} /\ d.commits = c.commits

\* handleCommit has its quorum.
Decides(v, m, d) ==
  LET c == core[v]
  IN  /\ m.type = "COMMIT" /\ Counts(v, m) /\ Cardinality(d.commits) >= Quorum
      /\ d \in Cores /\ SameRest(c, d) /\ d.state = "Committed" /\ d.proposal = c.proposal
      /\ d.prepares = c.prepares /\ d.commits = c.commits \cup {m.from}

\* handleRoundChange has its quorum, from the senders of R.
Moves(v, m, R, h) ==
  LET c == core[v]
      early == {x \in c.backlog : x.number = m.number /\ x.round = m.round}
  IN  /\ m.type = "ROUND_CHANGE" /\ m.number = Height(v) /\ m.round > c.round
      /\ R = {x \in {y \in c.roundChanges : y.from # m.from} \cup {m} : x.round = m.round}
      /\ Cardinality(R) >= Quorum
      /\ h = NoHeader \/ \E x \in R : h = x.header
      /\ EnterRound(v, c.parent, m.round, h, early)

\* Records with distinct senders are no more than the senders.
LEMMA OnePerSender ==
  ASSUME NEW R \in SUBSET Messages, \A x, y \in R : x.from = y.from => x = y
  PROVE  IsFiniteSet(R) /\ Cardinality(R) <= Cardinality({x.from : x \in R})
<1> DEFINE T == {x.from : x \in R}
           f == [x \in R |-> x.from]
<1>1. IsFiniteSet(T)
  <2>1. T \in SUBSET Validators
    BY MessageFacts, Zenon
  <2> HIDE DEF T
  <2> QED
    BY <2>1, LoopAssumption, FS_Subset, Zenon
<1>2. f \in Injection(R, T)
  BY Zenon DEF Injection, IsInjective
<1> HIDE DEF T, f
<1>3. IsFiniteSet(R) /\ Cardinality(R) <= Cardinality(T)
  BY <1>1, <1>2, FS_Injection, Zenon
<1> QED
  BY <1>3 DEF T

\* With up to three validators a quorum is everybody.
LEMMA QuorumIsAll ==
  ASSUME N <= 3, NEW S \in SUBSET Validators, Cardinality(S) >= Quorum
  PROVE  S = Validators
<1>1. /\ Cardinality(S) \in Nat /\ Cardinality(S) <= Cardinality(Validators)
      /\ Cardinality(S) = Cardinality(Validators) => S = Validators
  <2>1. IsFiniteSet(Validators)
    BY LoopAssumption, Zenon
  <2> QED
    BY <2>1, FS_Subset, FS_CardinalityType, Zenon
<1>2. Quorum \in Int
  BY QuorumFacts DEF Quorum
<1> QED
  BY <1>1, <1>2, QuorumFacts DEF N

LEMMA ReadCases ==
  ASSUME LoopTypeOK, NEW v \in Validators, NEW m \in Messages,
         \A x, y \in core[v].roundChanges : x.from = y.from => x = y,
         \/ HandleProposal(v, m) \/ HandlePrepare(v, m)
         \/ HandleCommit(v, m) \/ HandleRoundChange(v, m)
  PROVE  \/ \E d : Quiet(v, m, d) /\ Continue(v, d, <<>>)
         \/ \E d : /\ Accepts(v, m, d)
                   /\ Continue(v, d, <<Message("PREPARE", v, m.number, m.round, m.header)>>)
         \/ \E d : /\ Locks(v, m, d)
                   /\ Continue(v, d, <<Message("COMMIT", v, m.number, m.round, m.header)>>)
         \/ \E d : /\ Decides(v, m, d) /\ core' = [core EXCEPT ![v] = d]
                   /\ pc' = [pc EXCEPT ![v] = "Commit"] /\ UNCHANGED <<out, net>>
         \/ \E R, h : Moves(v, m, R, h)
<1> DEFINE c == core[v]
           Goal == \/ \E d : Quiet(v, m, d) /\ Continue(v, d, <<>>)
                   \/ \E d : /\ Accepts(v, m, d)
                             /\ Continue(v, d, <<Message("PREPARE", v, m.number, m.round, m.header)>>)
                   \/ \E d : /\ Locks(v, m, d)
                             /\ Continue(v, d, <<Message("COMMIT", v, m.number, m.round, m.header)>>)
                   \/ \E d : /\ Decides(v, m, d) /\ core' = [core EXCEPT ![v] = d]
                             /\ pc' = [pc EXCEPT ![v] = "Commit"] /\ UNCHANGED <<out, net>>
                   \/ \E R, h : Moves(v, m, R, h)
<1> SUFFICES Goal
  OBVIOUS
<1>1. c \in Cores /\ core \in [Validators -> Cores]
  BY Zenon DEF LoopTypeOK
<1>2. /\ m.type \in Types /\ m.from \in Validators /\ m.number \in Nat /\ m.round \in Nat
      /\ m.header \in Proposed \cup {NoHeader}
      /\ m.type # "ROUND_CHANGE" => m.header \in Proposed
  BY MessageFacts, Zenon
<1>3. ASSUME ~Counts(v, m) \/ m.type \notin {"PREPARE", "COMMIT"}, Continue(v, c, <<>>) PROVE Goal
  <2>1. Quiet(v, m, c)
    BY <1>1, <1>3, Zenon DEF Quiet
  <2> QED
    BY <1>3, <2>1, Zenon
<1>4. CASE HandleProposal(v, m)
  <2> DEFINE d == [c EXCEPT !.state = "Prepared", !.proposal = m.header]
             e == [c EXCEPT !.backlog = @ \cup {m}]
  <2>1. m.type = "PROPOSAL"
    BY <1>4, Zenon DEF HandleProposal
  <2>2. \/ /\ c.state = "New" /\ Current(v, m)
           /\ Continue(v, d, <<Message("PREPARE", v, m.number, m.round, m.header)>>)
        \/ c.state = "New" /\ m.round > c.round /\ Continue(v, e, <<>>)
        \/ Continue(v, c, <<>>)
    BY <1>4, Zenon DEF HandleProposal
  <2>3. /\ d \in Cores /\ d.parent = c.parent /\ d.round = c.round
        /\ d.roundChanges = c.roundChanges /\ d.backlog = c.backlog
        /\ d.state = "Prepared" /\ d.proposal = m.header
        /\ d.prepares = c.prepares /\ d.commits = c.commits
    <3> DEFINE a == [c EXCEPT !.state = "Prepared"]
    <3>1. /\ a \in Cores /\ a.parent = c.parent /\ a.round = c.round
          /\ a.state = "Prepared" /\ a.prepares = c.prepares /\ a.commits = c.commits
          /\ a.roundChanges = c.roundChanges /\ a.backlog = c.backlog
      BY <1>1, Zenon DEF Cores
    <3>2. d = [a EXCEPT !.proposal = m.header] /\ m.header \in Proposed
      BY <1>2, <2>1, Zenon
    <3> HIDE DEF a, d
    <3>3. /\ d \in Cores /\ d.parent = a.parent /\ d.round = a.round
          /\ d.state = a.state /\ d.proposal = m.header
          /\ d.prepares = a.prepares /\ d.commits = a.commits
          /\ d.roundChanges = a.roundChanges /\ d.backlog = a.backlog
      BY <3>1, <3>2, Zenon DEF Cores
    <3> QED
      BY <3>1, <3>3, Zenon
  <2>4. /\ e \in Cores /\ e.parent = c.parent /\ e.round = c.round /\ e.state = c.state
        /\ e.proposal = c.proposal /\ e.prepares = c.prepares /\ e.commits = c.commits
        /\ e.roundChanges = c.roundChanges /\ e.backlog = c.backlog \cup {m}
    BY <1>1, Zenon DEF Cores
  <2> HIDE DEF d, e
  <2>5. c.state = "New" /\ Current(v, m) => Accepts(v, m, d)
    BY <2>1, <2>3, Zenon DEF Accepts, SameRest
  <2>6. c.state = "New" /\ m.round > c.round => Quiet(v, m, e)
    BY <2>1, <2>4, Zenon DEF Quiet
  <2> QED
    BY <1>3, <2>1, <2>2, <2>5, <2>6, Zenon
<1>5. CASE HandlePrepare(v, m)
  <2> DEFINE P == c.prepares \cup {m.from}
             e == [c EXCEPT !.prepares = P]
             d == [e EXCEPT !.state = "CommitSent"]
  <2>1. m.type = "PREPARE"
    BY <1>5, Zenon DEF HandlePrepare
  <2>2. \/ /\ c.state = "Prepared" /\ Counts(v, m)
           /\ Continue(v, d, <<Message("COMMIT", v, m.number, m.round, m.header)>>)
        \/ Counts(v, m) /\ Continue(v, e, <<>>)
        \/ ~Counts(v, m) /\ Continue(v, c, <<>>)
    <3>1. CASE ~Counts(v, m)
      BY <1>5, <3>1, Zenon DEF HandlePrepare
    <3>2. CASE Counts(v, m)
      BY <1>5, <3>2, Zenon DEF HandlePrepare
    <3> QED
      BY <3>1, <3>2, Zenon
  <2>3. P \in SUBSET Validators
    BY <1>1, <1>2, CoreFacts, Zenon
  <2>4. /\ e \in Cores /\ e.parent = c.parent /\ e.round = c.round /\ e.state = c.state
        /\ e.proposal = c.proposal /\ e.prepares = P /\ e.commits = c.commits
        /\ e.roundChanges = c.roundChanges /\ e.backlog = c.backlog
    BY <1>1, <2>3, Zenon DEF Cores
  <2> HIDE DEF e
  <2>5. /\ d \in Cores /\ d.parent = e.parent /\ d.round = e.round /\ d.state = "CommitSent"
        /\ d.proposal = e.proposal /\ d.prepares = e.prepares /\ d.commits = e.commits
        /\ d.roundChanges = e.roundChanges /\ d.backlog = e.backlog
    BY <2>4, Zenon DEF Cores
  <2> HIDE DEF d
  <2>6. c.state = "Prepared" /\ Counts(v, m) => Locks(v, m, d)
    BY <2>1, <2>4, <2>5, Zenon DEF Locks, SameRest
  <2>7. Counts(v, m) => Quiet(v, m, e)
    BY <2>1, <2>4, Zenon DEF Quiet
  <2> QED
    BY <1>3, <2>2, <2>6, <2>7, Zenon
<1>6. CASE HandleCommit(v, m)
  <2> DEFINE P == c.commits \cup {m.from}
             e == [c EXCEPT !.commits = P]
             d == [e EXCEPT !.state = "Committed"]
  <2>1. m.type = "COMMIT"
    BY <1>6, Zenon DEF HandleCommit
  <2>2. \/ /\ Counts(v, m) /\ Cardinality(P) >= Quorum
           /\ core' = [core EXCEPT ![v].commits = P, ![v].state = "Committed"]
           /\ pc' = [pc EXCEPT ![v] = "Commit"]
           /\ UNCHANGED <<out, net>>
        \/ Counts(v, m) /\ Continue(v, e, <<>>)
        \/ ~Counts(v, m) /\ Continue(v, c, <<>>)
    <3>1. CASE ~Counts(v, m)
      BY <1>6, <3>1, Zenon DEF HandleCommit
    <3>2. CASE Counts(v, m) /\ Cardinality(P) >= Quorum
      BY <1>6, <3>2, Zenon DEF HandleCommit
    <3>3. CASE Counts(v, m) /\ ~(Cardinality(P) >= Quorum)
      <4>1. Continue(v, e, <<>>) \/ Continue(v, c, <<>>)
        BY <1>6, <3>3, Zenon DEF HandleCommit
      <4>2. Cardinality(P) < Quorum
        <5>1. P \in SUBSET Validators
          BY <1>1, <1>2, CoreFacts, Zenon
        <5>2. Cardinality(P) \in Nat
          BY <5>1, LoopAssumption, FS_Subset, FS_CardinalityType, Zenon
        <5>3. Quorum \in Int
          BY QuorumFacts DEF Quorum
        <5> HIDE DEF P
        <5> QED
          BY <3>3, <5>2, <5>3
      <4> QED
        BY <1>6, <3>3, <4>2, Zenon DEF HandleCommit
    <3> QED
      BY <3>1, <3>2, <3>3, Zenon
  <2>3. P \in SUBSET Validators
    BY <1>1, <1>2, CoreFacts, Zenon
  <2>4. /\ e \in Cores /\ e.parent = c.parent /\ e.round = c.round /\ e.state = c.state
        /\ e.proposal = c.proposal /\ e.prepares = c.prepares /\ e.commits = P
        /\ e.roundChanges = c.roundChanges /\ e.backlog = c.backlog
    BY <1>1, <2>3, Zenon DEF Cores
  <2>5. core' = [core EXCEPT ![v].commits = P, ![v].state = "Committed"]
          => core' = [core EXCEPT ![v] = d]
    <3> DEFINE k == [core EXCEPT ![v] = e]
    <3> SUFFICES ASSUME core' = [core EXCEPT ![v].commits = P, ![v].state = "Committed"]
                 PROVE  core' = [core EXCEPT ![v] = d]
      BY Zenon
    <3>1. core' = [k EXCEPT ![v] = [k[v] EXCEPT !.state = "Committed"]]
      BY Zenon
    <3>2. k[v] = e
      BY <1>1, Zenon
    <3>3. core' = [k EXCEPT ![v] = d]
      BY <3>1, <3>2, Zenon
    <3> HIDE DEF d, e
    <3> QED
      BY <1>1, <3>3, Zenon
  <2> HIDE DEF e
  <2>6. /\ d \in Cores /\ d.parent = e.parent /\ d.round = e.round /\ d.state = "Committed"
        /\ d.proposal = e.proposal /\ d.prepares = e.prepares /\ d.commits = e.commits
        /\ d.roundChanges = e.roundChanges /\ d.backlog = e.backlog
    BY <2>4, Zenon DEF Cores
  <2> HIDE DEF d
  <2>7. Counts(v, m) /\ Cardinality(P) >= Quorum => Decides(v, m, d)
    BY <2>1, <2>4, <2>6, Zenon DEF Decides, SameRest
  <2>8. Counts(v, m) => Quiet(v, m, e)
    BY <2>1, <2>4, Zenon DEF Quiet
  <2> HIDE DEF P
  <2> QED
    BY <1>3, <2>2, <2>5, <2>7, <2>8, Zenon
<1>7. CASE HandleRoundChange(v, m)
  <2> DEFINE records == {x \in c.roundChanges : x.from # m.from} \cup {m}
             R == {x \in records : x.round = m.round}
             prepared == {x.header : x \in R} \ {NoHeader}
             early == {x \in c.backlog : x.number = m.number /\ x.round = m.round}
             e == [c EXCEPT !.roundChanges = records]
  <2>1. m.type = "ROUND_CHANGE"
    BY <1>7, Zenon DEF HandleRoundChange
  <2>2. \/ Continue(v, c, <<>>)
        \/ m.number = Height(v) /\ Continue(v, e, <<>>)
        \/ /\ m.number = Height(v) /\ ~(m.round <= c.round) /\ ~(Cardinality(R) < Quorum)
           /\ \E h \in IF prepared = {} THEN {NoHeader} ELSE prepared :
                EnterRound(v, c.parent, m.round, h, early)
    <3>1. CASE m.number # Height(v) \/ m.round <= c.round
      BY <1>7, <3>1, Zenon DEF HandleRoundChange
    <3>2. CASE m.number = Height(v) /\ ~(m.round <= c.round)
      <4>1. m.round > c.round
        BY <1>1, <1>2, <3>2, CoreFacts
      <4> QED
        BY <1>7, <3>2, <4>1, Zenon DEF HandleRoundChange
    <3> QED
      BY <3>1, <3>2, Zenon
  <2>3. records \in SUBSET Messages
    BY <1>1, CoreFacts, Zenon
  <2>4. /\ e \in Cores /\ e.parent = c.parent /\ e.round = c.round /\ e.state = c.state
        /\ e.proposal = c.proposal /\ e.prepares = c.prepares /\ e.commits = c.commits
        /\ e.roundChanges = records /\ e.backlog = c.backlog
    BY <1>1, <2>3, Zenon DEF Cores
  <2> HIDE DEF e
  <2>5. m.number = Height(v) => Quiet(v, m, e)
    BY <2>1, <2>4, Zenon DEF Quiet
  <2>6. ASSUME m.number = Height(v), ~(m.round <= c.round), ~(Cardinality(R) < Quorum),
               NEW h \in IF prepared = {} THEN {NoHeader} ELSE prepared,
               EnterRound(v, c.parent, m.round, h, early)
        PROVE  Moves(v, m, R, h)
    <3>1. m.round > c.round
      BY <1>1, <1>2, <2>6, CoreFacts
    <3>2. Cardinality(R) >= Quorum
      <4>1. Quorum \in Int
        BY QuorumFacts DEF Quorum
      <4>2. IsFiniteSet(R)
        <5>1. R \in SUBSET Messages
          BY <2>3, Zenon
        <5>2. \A x, y \in R : x.from = y.from => x = y
          BY Zenon
        <5> QED
          BY <5>1, <5>2, OnePerSender, Zenon
      <4>3. Cardinality(R) \in Nat
        BY <4>2, FS_CardinalityType, Zenon
      <4> HIDE DEF R
      <4> QED
        BY <2>6, <4>1, <4>3
    <3>3. h = NoHeader \/ \E x \in R : h = x.header
      BY Zenon
    <3> QED
      BY <2>1, <2>6, <3>1, <3>2, <3>3, Zenon DEF Moves
  <2>7. CASE /\ m.number = Height(v) /\ ~(m.round <= c.round) /\ ~(Cardinality(R) < Quorum)
             /\ \E h \in IF prepared = {} THEN {NoHeader} ELSE prepared :
                  EnterRound(v, c.parent, m.round, h, early)
    BY <2>6, <2>7, Zenon
  <2> HIDE DEF records, R, prepared, early
  <2> QED
    BY <1>3, <2>1, <2>2, <2>5, <2>7, Zenon
<1> HIDE DEF Goal
<1> QED
  BY <1>4, <1>5, <1>6, <1>7, Zenon
-----------------------------------------------------------------------------
(* Branches *)

LEMMA PrefixFacts ==
  ASSUME NEW h \in Branches, NEW i \in 0..Len(h)
  PROVE  /\ SubSeq(h, 1, i) \in Branches /\ Len(SubSeq(h, 1, i)) = i
         /\ \A j \in 1..i : SubSeq(h, 1, i)[j] = h[j]
<1>1. h \in Seq(Entries) /\ Len(h) \in Nat /\ i \in Nat /\ i <= Len(h)
  BY DEF Branches
<1>2. \A j \in 1..i : h[j] \in Entries
  BY <1>1
<1>3. /\ SubSeq(h, 1, i) \in Seq(Entries)
      /\ Len(SubSeq(h, 1, i)) = IF 1 <= i THEN i - 1 + 1 ELSE 0
      /\ \A j \in 1..(i - 1 + 1) : SubSeq(h, 1, i)[j] = h[1 + j - 1]
  BY <1>1, <1>2
<1>4. (IF 1 <= i THEN i - 1 + 1 ELSE 0) = i /\ i - 1 + 1 = i /\ \A j \in 1..i : 1 + j - 1 = j
  BY <1>1
<1>5. ASSUME NEW j \in 1..i PROVE SubSeq(h, 1, i)[j] = h[j]
  BY <1>3, <1>4, Zenon
<1> QED
  BY <1>3, <1>4, <1>5, Zenon DEF Branches

LEMMA PrefixEqual ==
  ASSUME NEW g \in Branches, NEW h \in Branches, NEW i \in 0..Len(h), i <= Len(g),
         \A j \in 1..i : g[j] = h[j]
  PROVE  SubSeq(g, 1, i) = SubSeq(h, 1, i)
<1>1. i \in 0..Len(g)
  BY DEF Branches
<1> DEFINE a == SubSeq(g, 1, i)
           b == SubSeq(h, 1, i)
<1>2. a \in Branches /\ Len(a) = i /\ \A j \in 1..i : a[j] = g[j]
  BY <1>1, PrefixFacts, Zenon
<1>3. b \in Branches /\ Len(b) = i /\ \A j \in 1..i : b[j] = h[j]
  BY PrefixFacts, Zenon
<1> HIDE DEF a, b
<1>4. a = b
  BY <1>2, <1>3 DEF Branches
<1> QED
  BY <1>4 DEF a, b

LEMMA PrefixWhole ==
  ASSUME NEW h \in Branches
  PROVE  SubSeq(h, 1, Len(h)) = h /\ SubSeq(h, 1, 0) = <<>> /\ <<>> \in Branches
<1>1. Len(h) \in 0..Len(h) /\ 0 \in 0..Len(h)
  BY BranchLength
<1> DEFINE a == SubSeq(h, 1, Len(h))
           b == SubSeq(h, 1, 0)
<1>2. a \in Branches /\ Len(a) = Len(h) /\ \A j \in 1..Len(h) : a[j] = h[j]
  BY <1>1, PrefixFacts, Zenon
<1>3. b \in Branches /\ Len(b) = 0
  BY <1>1, PrefixFacts, Zenon
<1> HIDE DEF a, b
<1>4. a = h /\ b = <<>>
  BY <1>2, <1>3 DEF Branches
<1> QED
  BY <1>4 DEF a, b, Branches

LEMMA ParentFacts ==
  ASSUME NEW h \in Proposed
  PROVE  /\ Parent(h) \in Branches /\ Len(Parent(h)) = Len(h) - 1 /\ Len(Parent(h)) + 1 = Len(h)
         /\ \A i \in 0..(Len(h) - 1) : SubSeq(Parent(h), 1, i) = SubSeq(h, 1, i)
<1>1. h \in Branches /\ Len(h) \in Nat /\ Len(h) > 0
  BY ProposedFacts, Zenon
<1> DEFINE n == Len(h) - 1
<1>2. n \in 0..Len(h) /\ n + 1 = Len(h) /\ n \in Nat
  BY <1>1
<1> HIDE DEF n
<1>3. /\ SubSeq(h, 1, n) \in Branches /\ Len(SubSeq(h, 1, n)) = n
      /\ \A j \in 1..n : SubSeq(h, 1, n)[j] = h[j]
  BY <1>1, <1>2, PrefixFacts, Zenon
<1>4. Parent(h) = SubSeq(h, 1, n)
  BY DEF Parent, n
<1>5. ASSUME NEW i \in 0..n PROVE SubSeq(Parent(h), 1, i) = SubSeq(h, 1, i)
  <2>1. i \in 0..Len(h) /\ i <= Len(Parent(h)) /\ \A j \in 1..i : j \in 1..n
    BY <1>2, <1>3, <1>4
  <2> QED
    BY <1>1, <1>3, <1>4, <2>1, PrefixEqual, Zenon
<1> QED
  BY <1>2, <1>3, <1>4, <1>5 DEF n

LEMMA SameParent ==
  ASSUME NEW g \in Proposed, NEW h \in Proposed, Len(g) = Len(h),
         \A j \in 1..(Len(h) - 1) : g[j] = h[j]
  PROVE  Parent(g) = Parent(h)
<1>1. g \in Branches /\ h \in Branches /\ Len(h) \in Nat /\ Len(h) > 0
  BY ProposedFacts, Zenon
<1> DEFINE n == Len(h) - 1
<1>2. n \in 0..Len(h) /\ n <= Len(g)
  BY <1>1
<1> HIDE DEF n
<1>3. SubSeq(g, 1, n) = SubSeq(h, 1, n)
  BY <1>1, <1>2, PrefixEqual, Zenon DEF n
<1> QED
  BY <1>3, Zenon DEF Parent, n

\* A proposal builds on its parent, and neither a later round nor the commit
\* seals change that.
LEMMA HeaderParents ==
  /\ \A v \in Validators, p \in Branches, r \in Nat : Parent(FreshHeader(v, p, r)) = p
  /\ \A h \in Proposed, r \in Nat : Parent(ReusedHeader(h, r)) = Parent(h)
  /\ \A h \in Proposed, S \in SUBSET Validators : Parent(SealedHeader(h, S)) = Parent(h)
<1>1. ASSUME NEW v \in Validators, NEW p \in Branches, NEW r \in Nat
      PROVE  Parent(FreshHeader(v, p, r)) = p
  <2> DEFINE g == FreshHeader(v, p, r)
  <2>1. g \in Proposed /\ Len(g) = Len(p) + 1 /\ Len(p) \in Nat
    BY FreshProposed, BranchLength, Zenon
  <2>2. \A j \in 1..Len(p) : g[j] = p[j]
    BY DEF FreshHeader, Branches
  <2> HIDE DEF g
  <2>3. Len(p) \in 0..Len(p) /\ Len(p) <= Len(g) /\ Len(g) - 1 = Len(p) /\ g \in Branches
    BY <2>1, ProposedFacts
  <2>4. SubSeq(g, 1, Len(p)) = SubSeq(p, 1, Len(p))
    BY <2>2, <2>3, PrefixEqual, Zenon
  <2>5. Parent(g) = p
    BY <2>3, <2>4, PrefixWhole, Zenon DEF Parent
  <2> QED
    BY <2>5 DEF g
<1>2. ASSUME NEW h \in Proposed, NEW r \in Nat PROVE Parent(ReusedHeader(h, r)) = Parent(h)
  <2> DEFINE g == ReusedHeader(h, r)
  <2>1. g \in Proposed /\ Len(g) = Len(h)
    BY ReusedProposed, Zenon
  <2>2. h \in Seq(Entries) /\ Len(h) \in Nat
    BY DEF Proposed, Branches
  <2>3. \A j \in 1..(Len(h) - 1) : j \in DOMAIN h /\ j # Len(h)
    BY <2>2
  <2>4. \A j \in 1..(Len(h) - 1) : g[j] = h[j]
    BY <2>3, Zenon DEF ReusedHeader
  <2> HIDE DEF g
  <2>5. Parent(g) = Parent(h)
    BY <2>1, <2>4, SameParent, Zenon
  <2> QED
    BY <2>5 DEF g
<1>3. ASSUME NEW h \in Proposed, NEW S \in SUBSET Validators
      PROVE  Parent(SealedHeader(h, S)) = Parent(h)
  <2> DEFINE g == SealedHeader(h, S)
  <2>1. g \in Proposed /\ Len(g) = Len(h)
    BY SealedFacts, Zenon
  <2>2. h \in Seq(Entries) /\ Len(h) \in Nat
    BY DEF Proposed, Branches
  <2>3. \A j \in 1..(Len(h) - 1) : j \in DOMAIN h /\ j # Len(h)
    BY <2>2
  <2>4. \A j \in 1..(Len(h) - 1) : g[j] = h[j]
    BY <2>3, Zenon DEF SealedHeader
  <2> HIDE DEF g
  <2>5. Parent(g) = Parent(h)
    BY <2>1, <2>4, SameParent, Zenon
  <2> QED
    BY <2>5 DEF g
<1> QED
  BY <1>1, <1>2, <1>3, Zenon
-----------------------------------------------------------------------------
(* The steps of the loop *)

\* c is the core of a round that begins.
NewAt(c, p, r) ==
  /\ c \in Cores /\ c.parent = p /\ c.round = r /\ c.state = "New"
  /\ c.proposal = NoHeader /\ c.prepares = {} /\ c.commits = {}
  /\ c.roundChanges = {} /\ c.backlog = {}

\* d is the core c with the proposal h.
Proposes(d, c, h) ==
  /\ d \in Cores /\ SameRest(c, d) /\ d.state = "Prepared" /\ d.proposal = h
  /\ d.prepares = c.prepares /\ d.commits = c.commits

LEMMA NewCoreFacts ==
  ASSUME NEW p \in Branches, NEW r \in Nat
  PROVE  NewAt(NewCore(p, r), p, r)
BY Zenon DEF NewCore, NewAt, Cores

LEMMA PreparedFacts ==
  ASSUME NEW c \in Cores, NEW h \in Proposed
  PROVE  Proposes([c EXCEPT !.state = "Prepared", !.proposal = h], c, h)
<1> DEFINE a == [c EXCEPT !.state = "Prepared"]
           d == [c EXCEPT !.state = "Prepared", !.proposal = h]
<1>1. /\ a \in Cores /\ a.parent = c.parent /\ a.round = c.round
      /\ a.state = "Prepared" /\ a.prepares = c.prepares /\ a.commits = c.commits
      /\ a.roundChanges = c.roundChanges /\ a.backlog = c.backlog
  BY Zenon DEF Cores
<1>2. d = [a EXCEPT !.proposal = h]
  BY Zenon
<1> HIDE DEF a, d
<1>3. /\ d \in Cores /\ d.parent = a.parent /\ d.round = a.round
      /\ d.state = a.state /\ d.proposal = h
      /\ d.prepares = a.prepares /\ d.commits = a.commits
      /\ d.roundChanges = a.roundChanges /\ d.backlog = a.backlog
  BY <1>1, <1>2, Zenon DEF Cores
<1>4. Proposes(d, c, h)
  BY <1>1, <1>3, Zenon DEF Proposes, SameRest
<1> QED
  BY <1>4 DEF d

\* The header that the proposer of a round proposes.
RoundHeader(v, p, r, prepared) ==
  IF prepared = NoHeader THEN FreshHeader(v, p, r) ELSE ReusedHeader(prepared, r)

\* Round r of the height on p begins, with no early proposal.
LEMMA EnterCases ==
  ASSUME NEW v \in Validators, NEW p \in Branches, NEW r \in Nat,
         NEW prepared \in Proposed \cup {NoHeader}, EnterRound(v, p, r, prepared, {})
  PROVE  LET h == RoundHeader(v, p, r, prepared)
             n == Len(p) + 1
             c == NewCore(p, r)
         IN  /\ h \in Proposed
             /\ \/ /\ v = Proposer(n, r)
                   /\ Continue(v, [c EXCEPT !.state = "Prepared", !.proposal = h],
                               <<Message("PROPOSAL", v, n, r, h), Message("PREPARE", v, n, r, h)>>)
                \/ v # Proposer(n, r) /\ Continue(v, c, <<>>)
<1>1. RoundHeader(v, p, r, prepared) \in Proposed
  BY FreshProposed, ReusedProposed, Zenon DEF RoundHeader
<1> QED
  BY <1>1, Zenon DEF EnterRound, RoundHeader

\* The header h that a ROUND_CHANGE carries, if any, is for the height on p.
Carried(h, p) ==
  /\ h \in Proposed \cup {NoHeader}
  /\ h # NoHeader => Parent(h) \in Known /\ Len(h) = Len(p) + 1

\* The loop goes from the core c to round r of the height on p.
Leaves(c, at, p, r) ==
  \/ Len(p) > Len(c.parent) /\ at = "Start"
  \/ Len(p) = Len(c.parent) /\ r > c.round /\ c.state # "Committed"
  \/ Len(p) = Len(c.parent) /\ r = c.round /\ c.state = "New"

LEMMA PoolBehind ==
  ASSUME BehindInv, NEW v \in Validators, NEW m \in Pool(v)
  PROVE  (m.type # "ROUND_CHANGE" \/ m.header # NoHeader) => Len(m.header) = m.number
<1>1. MsgBehind(m, head)
  BY Zenon DEF BehindInv, Behind, QueueBehind, CoreBehind, Pool
<1> QED
  BY <1>1, Zenon DEF MsgBehind

\* Everybody asked for the round that v enters, which keeps no early proposal.
Entered(v, m, R, h) ==
  LET k == Len(core[v].parent) + 1
  IN  /\ EnterRound(v, core[v].parent, m.round, h, {}) /\ m.round > core[v].round
      /\ \A w \in Validators : Asked(core[w], k, m.round)
      /\ Carried(h, core[v].parent)
      /\ \A w \in Validators : \E x \in R :
           /\ x.from = w /\ x \in Pool(v) /\ x.type = "ROUND_CHANGE"
           /\ x.round = m.round /\ x.number = k

LEMMA MovesFacts ==
  ASSUME N <= 3, LoopInv, SmallInv, BehindInv, NEW v \in Validators, NEW m \in Pool(v),
         m \in Messages, NEW R, NEW h, Moves(v, m, R, h)
  PROVE  Entered(v, m, R, h)
<1> DEFINE c == core[v]
           records == {y \in c.roundChanges : y.from # m.from} \cup {m}
           early == {x \in c.backlog : x.number = m.number /\ x.round = m.round}
<1>1. /\ c \in Cores /\ CoreOK(c, core, Known) /\ \A x \in Pool(v) : MsgOK(x, core, Known)
  BY Zenon DEF LoopInv, LoopTypeOK, SmallInv
<1>2. /\ m.type = "ROUND_CHANGE" /\ m.number = Len(c.parent) + 1 /\ m.round > c.round
      /\ R = {x \in records : x.round = m.round}
      /\ Cardinality(R) >= Quorum /\ (h = NoHeader \/ \E x \in R : h = x.header)
      /\ EnterRound(v, c.parent, m.round, h, early)
  BY Zenon DEF Moves, Height
<1>3. early = {}
  BY <1>1, <1>2, Zenon DEF CoreOK
<1>4. EnterRound(v, c.parent, m.round, h, {})
  BY <1>2, <1>3, Zenon
<1> HIDE DEF early
<1>5. /\ \A x \in c.roundChanges : x.type = "ROUND_CHANGE" /\ x.number = Len(c.parent) + 1
      /\ \A x, y \in c.roundChanges : x.from = y.from => x = y
      /\ c.roundChanges \subseteq Pool(v)
  BY <1>1, Zenon DEF CoreOK, Pool
<1>6. /\ \A x \in R : /\ x \in Pool(v) /\ x.type = "ROUND_CHANGE" /\ x.round = m.round
                      /\ x.number = Len(c.parent) + 1
      /\ \A x, y \in R : x.from = y.from => x = y
  BY <1>2, <1>5, Zenon
<1>7. R \in SUBSET Messages
  BY <1>6, PoolTyped, Zenon DEF LoopInv
<1> DEFINE S == {x.from : x \in R}
<1>8. S \in SUBSET Validators
  BY <1>7, MessageFacts, Zenon
<1>9. Cardinality(R) \in Nat /\ Cardinality(R) <= Cardinality(S) /\ Cardinality(S) \in Nat
  BY <1>6, <1>7, <1>8, OnePerSender, FS_Subset, FS_CardinalityType, LoopAssumption, Zenon
<1>10. S = Validators
  <2> HIDE DEF S
  <2>1. Cardinality(S) >= Quorum
    <3>1. Quorum \in Int
      BY QuorumFacts DEF Quorum
    <3> QED
      BY <1>2, <1>9, <3>1
  <2> QED
    BY <1>8, <2>1, QuorumIsAll, Zenon
<1>11. ASSUME NEW w \in Validators
       PROVE  \E x \in R : /\ x.from = w /\ x \in Pool(v) /\ x.type = "ROUND_CHANGE"
                           /\ x.round = m.round /\ x.number = Len(c.parent) + 1
  BY <1>6, <1>10, Zenon
<1>12. ASSUME NEW w \in Validators PROVE Asked(core[w], Len(c.parent) + 1, m.round)
  <2>1. PICK x \in R : /\ x.from = w /\ x \in Pool(v) /\ x.type = "ROUND_CHANGE"
                       /\ x.round = m.round /\ x.number = Len(c.parent) + 1
    BY <1>11, Zenon
  <2>2. Asked(core[x.from], x.number, x.round)
    BY <1>1, <2>1, Zenon DEF MsgOK
  <2> QED
    BY <2>1, <2>2, Zenon
<1>13. ASSUME h # NoHeader
       PROVE  h \in Proposed \cup {NoHeader} /\ Parent(h) \in Known /\ Len(h) = Len(c.parent) + 1
  <2>1. PICK x \in R : h = x.header
    BY <1>2, <1>13, Zenon
  <2>2. x \in Pool(v) /\ x \in Messages /\ x.number = Len(c.parent) + 1 /\ x.header # NoHeader
    BY <1>6, <1>7, <1>13, <2>1, Zenon
  <2>3. x.header \in Proposed \cup {NoHeader} /\ Len(x.header) = x.number
    BY <2>2, MessageFacts, PoolBehind, Zenon
  <2>4. Parent(x.header) \in Known
    BY <1>1, <2>2, Zenon DEF MsgOK
  <2> QED
    BY <2>1, <2>2, <2>3, <2>4, Zenon
<1>14. Carried(h, c.parent)
  BY <1>13, Zenon DEF Carried
<1> QED
  BY <1>2, <1>4, <1>11, <1>12, <1>14, Zenon DEF Entered

LEMMA TailFacts ==
  ASSUME NEW q \in Seq(Messages), q # <<>>, NEW i \in DOMAIN Tail(q)
  PROVE  i + 1 \in DOMAIN q /\ Tail(q)[i] = q[i + 1]
OBVIOUS

LEMMA StartLeaves ==
  ASSUME LoopInv, SmallInv, NEW v \in Validators, pc[v] = "Start"
  PROVE  Leaves(core[v], pc[v], head[v], 0)
<1> DEFINE c == core[v]
           p == head[v]
<1>1. /\ c \in Cores /\ CoreOK(c, core, Known) /\ PlaceOK(v) /\ StoreOK(v)
  BY Zenon DEF LoopInv, LoopTypeOK, SmallInv
<1>2. p \in known[v] /\ c.parent \in known[v] /\ \A h \in known[v] : Len(h) <= Len(p)
  BY <1>1, Zenon DEF StoreOK
<1>3. Len(c.parent) \in Nat /\ Len(p) \in Nat
  BY <1>1, CoreFacts, BranchLength, Zenon DEF LoopInv, LoopTypeOK
<1>4. CASE c.state = "New" /\ c.round = 0
  <2>1. Len(p) = Len(c.parent) \/ Len(p) > Len(c.parent)
    BY <1>2, <1>3
  <2> QED
    BY <1>4, <2>1, Zenon DEF Leaves
<1>5. CASE c.state = "Committed" /\ SealedHeader(c.proposal, Validators) \in known[v]
  <2>1. c.proposal \in Proposed /\ Len(c.proposal) = Len(c.parent) + 1
    BY <1>1, <1>5, Zenon DEF CoreOK, HasProposal
  <2>2. Len(SealedHeader(c.proposal, Validators)) = Len(c.proposal)
    BY <2>1, SealedFacts, Zenon
  <2>3. Len(c.proposal) <= Len(p)
    BY <1>2, <1>5, <2>2, Zenon
  <2>4. Len(p) > Len(c.parent)
    BY <1>3, <2>1, <2>3
  <2> QED
    BY <2>4, Zenon DEF Leaves
<1> QED
  BY <1>1, <1>4, <1>5, Zenon DEF PlaceOK

\* The block that v has decided on builds on a block of its store.
LEMMA DecidedFits ==
  ASSUME LoopInv, SmallInv, NEW v \in Validators, core[v].state = "Committed"
  PROVE  LET h == SealedHeader(core[v].proposal, core[v].commits)
         IN  /\ core[v].commits = Validators /\ core[v].proposal \in Proposed
             /\ h \in Proposed /\ Len(h) = Len(core[v].parent) + 1
             /\ Len(core[v].proposal) = Len(core[v].parent) + 1
             /\ Parent(h) \in known[v]
<1> DEFINE c == core[v]
           b == c.proposal
           h == SealedHeader(b, c.commits)
<1>1. /\ c \in Cores /\ CoreOK(c, core, Known) /\ PlaceOK(v) /\ StoreOK(v) /\ OneBranch(Known)
  BY Zenon DEF SmallInv, LoopInv, LoopTypeOK
<1>2. c.commits = Validators /\ HasProposal(c, Known)
  BY <1>1, Zenon DEF PlaceOK, CoreOK
<1>3. b \in Proposed /\ Len(b) = Len(c.parent) + 1 /\ Parent(b) \in Known
  BY <1>2, Zenon DEF HasProposal
<1>4. h \in Proposed /\ Len(h) = Len(b) /\ Parent(h) = Parent(b)
  BY <1>2, <1>3, SealedFacts, HeaderParents, Zenon
<1>5. Parent(b) = c.parent
  <2>1. c.parent \in Known
    BY <1>1, Zenon DEF StoreOK, Known
  <2>2. Len(Parent(b)) = Len(c.parent)
    <3>1. Len(Parent(b)) = Len(b) - 1 /\ Len(c.parent) \in Nat
      BY <1>1, <1>3, ParentFacts, CoreFacts, Zenon
    <3> QED
      BY <1>3, <3>1
  <2> QED
    BY <1>1, <1>3, <2>1, <2>2, Zenon DEF OneBranch
<1>6. Parent(h) \in known[v]
  BY <1>1, <1>4, <1>5, Zenon DEF StoreOK
<1> QED
  BY <1>2, <1>3, <1>4, <1>6, Zenon

LEMMA SmallInit == Init => SmallInv
<1> SUFFICES ASSUME Init PROVE SmallInv
  BY Zenon
<1>1. <<>> \in Branches /\ Len(<<>>) = 0 /\ 0 \in Nat /\ DOMAIN <<>> = {}
      /\ ~(Len(<<>>) > 0) /\ Len(<<>>) <= Len(<<>>)
  BY DEF Branches
<1> DEFINE c == NewCore(<<>>, 0)
<1>2. NewAt(c, <<>>, 0)
  BY <1>1, NewCoreFacts, Zenon
<1> HIDE DEF c
<1>3. ASSUME NEW v \in Validators
      PROVE  /\ core[v] = c /\ pc[v] = "Start" /\ out[v] = <<>> /\ chan[v] = <<>>
             /\ known[v] = {<<>>} /\ head[v] = <<>> /\ net[v] = {} /\ blocks[v] = {}
  <2>1. Genesis = <<>>
    BY Zenon DEF Genesis
  <2>2. core[v] = NewCore(Genesis, 0)
    BY Zenon DEF Init
  <2>3. /\ pc[v] = "Start" /\ out[v] = <<>> /\ chan[v] = <<>>
        /\ known[v] = {Genesis} /\ head[v] = Genesis /\ net[v] = {} /\ blocks[v] = {}
    BY Zenon DEF Init
  <2> QED
    BY <2>1, <2>2, <2>3, Zenon DEF c
<1>4. ASSUME NEW g \in Known PROVE g = <<>>
  <2>1. PICK v \in Validators : g \in known[v]
    BY Zenon DEF Known
  <2>2. known[v] = {<<>>}
    BY <1>3, Zenon
  <2> QED
    BY <2>1, <2>2, Zenon
<1>5. ASSUME NEW v \in Validators PROVE Pool(v) = {}
  <2>1. core[v].roundChanges = {} /\ core[v].backlog = {}
    BY <1>2, <1>3, Zenon DEF NewAt
  <2> QED
    BY <1>1, <1>3, <2>1, Zenon DEF Pool
<1>6. ASSUME NEW v \in Validators PROVE CoreOK(core[v], core, Known) /\ PlaceOK(v) /\ StoreOK(v)
  <2>1. CoreOK(core[v], core, Known)
    BY <1>2, <1>3, Zenon DEF CoreOK, NewAt
  <2>2. PlaceOK(v)
    BY <1>2, <1>3, Zenon DEF PlaceOK, NewAt
  <2>3. StoreOK(v)
    BY <1>1, <1>2, <1>3, Zenon DEF StoreOK, NewAt
  <2> QED
    BY <2>1, <2>2, <2>3, Zenon
<1>7. \A g \in Known : BlockOK(g, core)
  BY <1>1, <1>4, Zenon DEF BlockOK
<1>8. OneBranch(Known)
  <2>1. \A i \in 0..Len(<<>>) : i = 0
    BY <1>1
  <2>2. SubSeq(<<>>, 1, 0) = <<>>
    BY <1>1, PrefixWhole, Zenon
  <2> QED
    BY <1>4, <2>1, <2>2, Zenon DEF OneBranch
<1> QED
  BY <1>5, <1>6, <1>7, <1>8, Zenon DEF SmallInv

LEMMA SmallNext ==
  N <= 3 /\ LoopInv /\ BehindInv /\ SmallInv /\ LoopInv' /\ [Next]_vars => SmallInv'
\* The loop of v goes on with core d and broadcasts msgs.
<1>ContinueSmall.
    ASSUME LoopInv, SmallInv, LoopInv', NEW v \in Validators, NEW d \in Cores,
           NEW msgs \in Seq(Messages), Continue(v, d, msgs),
           UNCHANGED <<known, head, blocks>>,
           \A u \in Validators : \A i \in DOMAIN chan'[u] : chan'[u][i] \in Pool(u),
           Advances(core[v], d), Len(d.parent) > Len(core[v].parent) => pc[v] = "Start",
           d.state # "Committed", d.parent \in known[v],
           d.roundChanges \subseteq Pool(v), d.backlog \subseteq Pool(v),
           \A i \in DOMAIN msgs : MsgOK(msgs[i], core', Known), CoreOK(d, core', Known)
    PROVE  SmallInv' /\ Forward(core, core', Known, Known)
  <2> USE <1>ContinueSmall
  <2> DEFINE M == {msgs[i] : i \in DOMAIN msgs}
  <2>1. /\ core' = [core EXCEPT ![v] = d] /\ out' = [out EXCEPT ![v] = msgs]
        /\ pc' = [pc EXCEPT ![v] = IF msgs = <<>> THEN "Select" ELSE "Echo"]
        /\ net' = IF msgs = <<>> THEN net ELSE Publish(net, v, Head(msgs))
        /\ core \in [Validators -> Cores] /\ out \in [Validators -> Seq(Messages)]
        /\ pc \in [Validators -> {"Start", "Select", "Echo", "Commit"}]
        /\ net \in [Validators -> SUBSET Messages]
    BY Zenon DEF Continue, Dispatch, LoopInv, LoopTypeOK
  <2>2. ASSUME NEW u \in Validators PROVE Pool(u)' \subseteq Pool(u) \cup M
    <3>1. net'[u] \subseteq net[u] \cup M
      <4>1. CASE msgs = <<>>
        BY <2>1, <4>1, Zenon
      <4>2. CASE msgs # <<>>
        <5>1. Head(msgs) = msgs[1] /\ 1 \in DOMAIN msgs
          BY <4>2
        <5> QED
          BY <2>1, <4>2, <5>1, Zenon DEF Publish
      <4> QED
        BY <4>1, <4>2, Zenon
    <3>2. CASE u = v
      <4>1. core'[u] = d /\ out'[u] = msgs
        BY <2>1, <3>2, Zenon
      <4>2. net[u] \subseteq Pool(u)
        BY Zenon DEF Pool
      <4>3. Pool(u)' = net'[u] \cup {chan'[u][i] : i \in DOMAIN chan'[u]}
                         \cup M \cup d.roundChanges \cup d.backlog
        BY <4>1, Zenon DEF Pool
      <4>4. {chan'[u][i] : i \in DOMAIN chan'[u]} \subseteq Pool(u)
        BY Zenon
      <4> HIDE DEF M
      <4> QED
        BY <3>1, <3>2, <4>2, <4>3, <4>4, Zenon
    <3>3. CASE u # v
      <4>1. core'[u] = core[u] /\ out'[u] = out[u]
        BY <2>1, <3>3, Zenon
      <4>2. /\ net[u] \subseteq Pool(u) /\ {out[u][i] : i \in DOMAIN out[u]} \subseteq Pool(u)
            /\ core[u].roundChanges \subseteq Pool(u) /\ core[u].backlog \subseteq Pool(u)
        BY Zenon DEF Pool
      <4>3. Pool(u)' = net'[u] \cup {chan'[u][i] : i \in DOMAIN chan'[u]}
                         \cup {out[u][i] : i \in DOMAIN out[u]}
                         \cup core[u].roundChanges \cup core[u].backlog
        BY <4>1, Zenon DEF Pool
      <4>4. {chan'[u][i] : i \in DOMAIN chan'[u]} \subseteq Pool(u)
        BY Zenon
      <4> HIDE DEF M
      <4> QED
        BY <3>1, <4>2, <4>3, <4>4, Zenon
    <3> QED
      BY <3>2, <3>3, Zenon
  <2>3. PlaceOK(v)'
    <3>1. core'[v] = d /\ pc'[v] \in {"Select", "Echo"}
      BY <2>1, Zenon
    <3> QED
      BY <3>1, Zenon DEF PlaceOK
  <2>4. \A u \in Validators \ {v} : pc'[u] = pc[u]
    BY <2>1, Zenon
  <2>5. \A m \in M : MsgOK(m, core', Known)
    BY Zenon
  <2> HIDE DEF M
  <2> QED
    BY <2>1, <2>2, <2>3, <2>4, <2>5, SmallStep, Zenon
<1>PairFacts.
    ASSUME NEW a \in Messages, NEW b \in Messages
    PROVE  /\ <<a, b>> \in Seq(Messages) /\ <<a>> \in Seq(Messages) /\ <<>> \in Seq(Messages)
           /\ \A i \in DOMAIN <<a, b>> : <<a, b>>[i] \in {a, b}
           /\ \A i \in DOMAIN <<a>> : <<a>>[i] = a
           /\ DOMAIN <<>> = {} /\ <<a, b>> # <<>> /\ <<a>> # <<>>
  OBVIOUS
<1>EnterSmall.
    ASSUME LoopInv, SmallInv, LoopInv', NEW v \in Validators, NEW p \in known[v], NEW r \in Nat,
           NEW prepared, Carried(prepared, p), UNCHANGED <<known, head, blocks>>,
           \A u \in Validators : \A i \in DOMAIN chan'[u] : chan'[u][i] \in Pool(u),
           EnterRound(v, p, r, prepared, {}),
           Leaves(core[v], pc[v], p, r),
           r > 0 => \A w \in Validators : Asked(core[w], Len(p) + 1, r)
    PROVE  SmallInv' /\ Forward(core, core', Known, Known)
  <2> USE <1>EnterSmall
  <2> DEFINE h == RoundHeader(v, p, r, prepared)
             n == Len(p) + 1
             c == NewCore(p, r)
             d == [c EXCEPT !.state = "Prepared", !.proposal = h]
  <2>1. /\ p \in Branches /\ p \in Known /\ core \in [Validators -> Cores] /\ core[v] \in Cores
    BY Zenon DEF Known, LoopInv, LoopTypeOK
  <2>2. Len(p) \in Nat /\ n \in Nat /\ Len(core[v].parent) \in Nat /\ core[v].round \in Nat
        /\ core[v].state \in {"New", "Prepared", "CommitSent", "Committed", "RoundChange"}
    <3>1. Len(p) \in Nat /\ Len(core[v].parent) \in Nat /\ core[v].round \in Nat
          /\ core[v].state \in {"New", "Prepared", "CommitSent", "Committed", "RoundChange"}
      BY <2>1, BranchLength, CoreFacts, Zenon
    <3> QED
      BY <3>1
  <2>3. /\ h \in Proposed /\ Len(h) = n /\ Parent(h) \in Known
    <3>1. CASE prepared = NoHeader
      BY <2>1, <3>1, FreshProposed, HeaderParents, Zenon DEF RoundHeader, Carried
    <3>2. CASE prepared # NoHeader
      BY <2>1, <3>2, ReusedProposed, HeaderParents, Zenon DEF RoundHeader, Carried
    <3> QED
      BY <3>1, <3>2, Zenon
  <2>4. /\ c \in Cores /\ c.parent = p /\ c.round = r /\ c.state = "New"
        /\ c.proposal = NoHeader /\ c.commits = {} /\ c.roundChanges = {} /\ c.backlog = {}
        /\ d \in Cores /\ d.parent = p /\ d.round = r /\ d.state = "Prepared"
        /\ d.proposal = h /\ d.commits = {} /\ d.roundChanges = {} /\ d.backlog = {}
    <3> HIDE DEF h
    <3>1. NewAt(c, p, r)
      BY <2>1, NewCoreFacts, Zenon
    <3> HIDE DEF c
    <3>2. c \in Cores
      BY <3>1, Zenon DEF NewAt
    <3>3. Proposes(d, c, h)
      BY <2>3, <3>2, PreparedFacts, Zenon
    <3> HIDE DEF d
    <3> QED
      BY <3>1, <3>3, Zenon DEF NewAt, Proposes, SameRest
  <2>5. \/ Continue(v, d, <<Message("PROPOSAL", v, n, r, h), Message("PREPARE", v, n, r, h)>>)
        \/ Continue(v, c, <<>>)
    BY <2>1, EnterCases, Zenon DEF Carried
  <2> HIDE DEF h, n, c, d
  <2>6. Len(p) > Len(core[v].parent) => pc[v] = "Start"
    BY <2>2 DEF Leaves
  <2>7. /\ "New" \in After("New") /\ "Prepared" \in After("New")
    BY Zenon DEF After, Prepping
  <2>8. Advances(core[v], c) /\ Advances(core[v], d)
    <3>1. CASE Len(p) = Len(core[v].parent) /\ r = core[v].round /\ core[v].state = "New"
      BY <2>4, <2>7, <3>1, Zenon DEF Advances
    <3>2. CASE Len(p) > Len(core[v].parent)
      BY <2>4, <3>2, Zenon DEF Advances
    <3>3. CASE Len(p) = Len(core[v].parent) /\ r > core[v].round /\ core[v].state # "Committed"
      BY <2>4, <3>3, Zenon DEF Advances
    <3> QED
      BY <3>1, <3>2, <3>3, Zenon DEF Leaves
  <2>9. CASE Continue(v, c, <<>>)
    <3>1. <<>> \in Seq(Messages) /\ \A i \in DOMAIN <<>> : MsgOK(<<>>[i], core', Known)
      OBVIOUS
    <3>2. CoreOK(c, core', Known)
      BY <2>4, Zenon DEF CoreOK
    <3> QED
      BY <2>4, <2>6, <2>8, <2>9, <3>1, <3>2, <1>ContinueSmall, Zenon
  <2>10. CASE Continue(v, d, <<Message("PROPOSAL", v, n, r, h), Message("PREPARE", v, n, r, h)>>)
    <3> DEFINE a == Message("PROPOSAL", v, n, r, h)
               b == Message("PREPARE", v, n, r, h)
               msgs == <<a, b>>
    <3>1. a \in Messages /\ b \in Messages
      BY <2>2, <2>3, MessageTyped, Zenon DEF Types
    <3>2. msgs \in Seq(Messages) /\ \A i \in DOMAIN msgs : msgs[i] \in {a, b}
      BY <3>1, <1>PairFacts, Zenon
    <3>3. core'[v] = d /\ \A w \in Validators \ {v} : core'[w] = core[w]
      BY <2>1, <2>10, Zenon DEF Continue
    <3>4. Voted(d, n, r, h, Prepping) /\ (r > 0 => Asked(d, n, r))
      <4>1. "Prepared" \in Prepping /\ Len(d.parent) + 1 = n /\ r >= r
        BY <2>4 DEF Prepping, n
      <4> QED
        BY <2>4, <4>1, Zenon DEF Voted, Asked
    <3>5. /\ a.type = "PROPOSAL" /\ a.from = v /\ a.number = n /\ a.round = r /\ a.header = h
          /\ b.type = "PREPARE" /\ b.from = v /\ b.number = n /\ b.round = r /\ b.header = h
      BY Zenon DEF Message
    <3> HIDE DEF a, b
    <3>6. r > 0 => \A w \in Validators : Asked(core'[w], n, r)
      BY <3>3, <3>4, Zenon DEF n
    <3>7. MsgOK(a, core', Known) /\ MsgOK(b, core', Known)
      BY <2>3, <3>3, <3>4, <3>5, <3>6, Zenon DEF MsgOK
    <3>8. \A i \in DOMAIN msgs : MsgOK(msgs[i], core', Known)
      BY <3>2, <3>7, Zenon
    <3>9. CoreOK(d, core', Known)
      <4>1. HasProposal(d, Known)
        BY <2>3, <2>4, Zenon DEF HasProposal, n
      <4> QED
        BY <2>4, <4>1, Zenon DEF CoreOK
    <3>10. Continue(v, d, msgs)
      BY <2>10, Zenon DEF a, b
    <3> HIDE DEF msgs
    <3> QED
      BY <2>4, <2>6, <2>8, <3>2, <3>8, <3>9, <3>10, <1>ContinueSmall, Zenon
  <2> QED
    BY <2>5, <2>9, <2>10, Zenon
\* The votes and records of a core count as well after the message m of its
\* channel, when that is a COMMIT for its proposal or a ROUND_CHANGE.
<1>CountedOK.
    ASSUME LoopInv, SmallInv, NEW v \in Validators, NEW m \in Messages, MsgOK(m, core, Known),
           NEW d \in Cores, d.parent = core[v].parent, d.round = core[v].round,
           d.proposal = core[v].proposal,
           \/ d.commits = core[v].commits
           \/ m.type = "COMMIT" /\ Counts(v, m) /\ d.commits = core[v].commits \cup {m.from}
    PROVE  \A w \in d.commits :
             /\ Voted(core[w], Len(d.parent) + 1, d.round, d.proposal, Committing)
             /\ CommitKept(w, Len(d.parent) + 1, d.round, core, Known)
  <2> USE <1>CountedOK
  <2>1. CoreOK(core[v], core, Known)
    BY Zenon DEF SmallInv
  <2>2. ASSUME NEW w \in core[v].commits
        PROVE  /\ Voted(core[w], Len(d.parent) + 1, d.round, d.proposal, Committing)
               /\ CommitKept(w, Len(d.parent) + 1, d.round, core, Known)
    BY <2>1, Zenon DEF CoreOK
  <2>3. CASE m.type = "COMMIT" /\ Counts(v, m) /\ d.commits = core[v].commits \cup {m.from}
    <3>1. /\ m.number = Len(d.parent) + 1 /\ m.round = d.round /\ m.header = d.proposal
      BY <2>3, Zenon DEF Counts, Current, Height
    <3>2. /\ Voted(core[m.from], m.number, m.round, m.header, Committing)
          /\ CommitKept(m.from, m.number, m.round, core, Known)
      BY <2>3, Zenon DEF MsgOK
    <3>3. /\ Voted(core[m.from], Len(d.parent) + 1, d.round, d.proposal, Committing)
          /\ CommitKept(m.from, Len(d.parent) + 1, d.round, core, Known)
      BY <3>1, <3>2, Zenon
    <3> QED
      BY <2>2, <2>3, <3>3, Zenon
  <2> QED
    BY <2>2, <2>3, Zenon
\* A message that only changes what is counted or kept.
<1>QuietSmall.
    ASSUME LoopInv, SmallInv, LoopInv', NEW v \in Validators, NEW m \in Pool(v), m \in Messages,
           MsgOK(m, core, Known), NEW d, Quiet(v, m, d), Continue(v, d, <<>>), pc[v] = "Select",
           \A u \in Validators : \A i \in DOMAIN chan'[u] : chan'[u][i] \in Pool(u),
           UNCHANGED <<known, head, blocks>>
    PROVE  SmallInv' /\ Forward(core, core', Known, Known)
  <2> USE <1>QuietSmall
  <2> DEFINE c == core[v]
  <2>1. /\ c \in Cores /\ CoreOK(c, core, Known) /\ PlaceOK(v) /\ StoreOK(v)
        /\ core' = [core EXCEPT ![v] = d]
    BY Zenon DEF LoopInv, LoopTypeOK, SmallInv, Continue
  <2>2. /\ d \in Cores /\ d.parent = c.parent /\ d.round = c.round
        /\ d.state = c.state /\ d.proposal = c.proposal
    BY Zenon DEF Quiet
  <2>3. Advances(c, d)
    BY <2>1, <2>2, CoreFacts, AfterFacts, Zenon DEF Advances
  <2>4. ~(Len(d.parent) > Len(c.parent)) /\ Len(c.parent) \in Nat /\ c.round \in Nat
    BY <2>1, <2>2, CoreFacts
  <2>5. Forward(core, core', Known, Known)
    BY <2>1, <2>2, <2>3, <2>4, StepForward, Zenon
  <2>6. \/ d.commits = c.commits
        \/ m.type = "COMMIT" /\ Counts(v, m) /\ d.commits = c.commits \cup {m.from}
    BY Zenon DEF Quiet
  <2>7. \A w \in d.commits :
          /\ Voted(core[w], Len(d.parent) + 1, d.round, d.proposal, Committing)
          /\ CommitKept(w, Len(d.parent) + 1, d.round, core, Known)
    BY <2>2, <2>6, <1>CountedOK, Zenon
  <2>8. /\ \A x \in d.roundChanges : x.type = "ROUND_CHANGE" /\ x.number = Len(d.parent) + 1
        /\ \A x, y \in d.roundChanges : x.from = y.from => x = y
        /\ d.roundChanges \subseteq Pool(v)
    <3>1. /\ \A x \in c.roundChanges : x.type = "ROUND_CHANGE" /\ x.number = Len(c.parent) + 1
          /\ \A x, y \in c.roundChanges : x.from = y.from => x = y
          /\ c.roundChanges \subseteq Pool(v)
      BY <2>1, Zenon DEF CoreOK, Pool
    <3>2. CASE d.roundChanges = c.roundChanges
      BY <2>2, <3>1, <3>2, Zenon
    <3>3. CASE /\ m.type = "ROUND_CHANGE" /\ m.number = Height(v)
               /\ d.roundChanges = {x \in c.roundChanges : x.from # m.from} \cup {m}
      BY <2>2, <3>1, <3>3, Zenon DEF Height
    <3> QED
      BY <3>2, <3>3, Zenon DEF Quiet
  <2>9. (\A x \in d.backlog : x.number # Len(d.parent) + 1) /\ d.backlog \subseteq Pool(v)
    <3>1. (\A x \in c.backlog : x.number # Len(c.parent) + 1) /\ c.backlog \subseteq Pool(v)
      BY <2>1, Zenon DEF CoreOK, Pool
    <3>2. CASE d.backlog = c.backlog
      BY <2>2, <3>1, <3>2, Zenon
    <3>3. CASE /\ m.type = "PROPOSAL" /\ c.state = "New" /\ m.round > c.round
               /\ d.backlog = c.backlog \cup {m}
      <4>1. m.number # Len(c.parent) + 1
        <5>1. m.round \in Nat /\ m.number \in Nat
          BY MessageFacts, Zenon
        <5>2. m.round > 0
          BY <2>4, <3>3, <5>1
        <5>3. Asked(c, m.number, m.round)
          BY <3>3, <5>2, Zenon DEF MsgOK
        <5> QED
          BY <2>4, <3>3, <5>1, <5>3 DEF Asked
      <4> QED
        BY <2>2, <3>1, <3>3, <4>1, Zenon
    <3> QED
      BY <3>2, <3>3, Zenon DEF Quiet
  <2>10. CoreOK(d, core, Known)
    <3>1. d.state = "New" => d.commits = {} /\ d.proposal = NoHeader
      BY <2>1, <2>2, <2>6, Zenon DEF CoreOK, Counts
    <3>2. HasProposal(c, Known) => HasProposal(d, Known)
      BY <2>2, Zenon DEF HasProposal
    <3>3. /\ d.state \in {"Prepared", "CommitSent", "Committed"} => HasProposal(d, Known)
          /\ d.state = "RoundChange" => d.proposal = NoHeader \/ HasProposal(d, Known)
      BY <2>1, <2>2, <3>2, Zenon DEF CoreOK
    <3> QED
      BY <2>7, <2>8, <2>9, <3>1, <3>3, Zenon DEF CoreOK
  <2>11. CoreOK(d, core', Known)
    BY <2>2, <2>5, <2>10, CoreForward, Zenon
  <2>12. d.state # "Committed" /\ d.parent \in known[v]
    BY <2>1, <2>2, Zenon DEF PlaceOK, StoreOK
  <2>13. <<>> \in Seq(Messages) /\ \A i \in DOMAIN <<>> : MsgOK(<<>>[i], core', Known)
    OBVIOUS
  <2> QED
    BY <2>2, <2>3, <2>4, <2>8, <2>9, <2>11, <2>12, <2>13, <1>ContinueSmall, Zenon
\* A message on which the core sends a vote.
<1>VoteSmall.
    ASSUME LoopInv, SmallInv, LoopInv', NEW v \in Validators, NEW d \in Cores, NEW type, NEW h \in Proposed,
           SameRest(core[v], d), core[v].state # "Committed", d.commits = core[v].commits,
           d.proposal = h, Len(h) = Len(d.parent) + 1, Parent(h) \in Known,
           \/ type = "PREPARE" /\ core[v].state = "New" /\ d.state = "Prepared"
           \/ type = "COMMIT" /\ core[v].state = "Prepared" /\ d.state = "CommitSent" /\ core[v].proposal = h,
           Continue(v, d, <<Message(type, v, Len(d.parent) + 1, d.round, h)>>),
           \A u \in Validators : \A i \in DOMAIN chan'[u] : chan'[u][i] \in Pool(u),
           UNCHANGED <<known, head, blocks>>
    PROVE  SmallInv' /\ Forward(core, core', Known, Known)
  <2> USE <1>VoteSmall
  <2> DEFINE c == core[v]
             k == Len(d.parent) + 1
             x == Message(type, v, k, d.round, h)
             msgs == <<x>>
  <2>1. /\ c \in Cores /\ CoreOK(c, core, Known) /\ StoreOK(v) /\ core' = [core EXCEPT ![v] = d]
        /\ core \in [Validators -> Cores]
    BY Zenon DEF LoopInv, LoopTypeOK, SmallInv, Continue
  <2>2. /\ d.parent = c.parent /\ d.round = c.round /\ d.roundChanges = c.roundChanges
        /\ d.backlog = c.backlog
    BY Zenon DEF SameRest
  <2>3. /\ Len(d.parent) \in Nat /\ d.round \in Nat /\ k \in Nat /\ ~(Len(d.parent) >= k)
        /\ ~(Len(d.parent) > Len(c.parent))
    <3>1. Len(d.parent) \in Nat /\ d.round \in Nat
      BY CoreFacts, Zenon
    <3> QED
      BY <2>2, <3>1
  <2>4. Advances(c, d)
    <3>1. "Prepared" \in After("New") /\ "CommitSent" \in After("Prepared")
      BY Zenon DEF After, Prepping
    <3> QED
      BY <2>2, <3>1, Zenon DEF Advances
  <2>5. Forward(core, core', Known, Known)
    BY <2>1, <2>3, <2>4, StepForward, Zenon
  <2>6. CoreOK(d, core, Known)
    <3>1. HasProposal(d, Known) /\ d.state \in {"Prepared", "CommitSent"}
      BY Zenon DEF HasProposal
    <3>2. c.state = "New" => d.commits = {}
      BY <2>1, Zenon DEF CoreOK
    <3>3. ASSUME NEW w \in d.commits
          PROVE  /\ Voted(core[w], Len(d.parent) + 1, d.round, d.proposal, Committing)
                 /\ CommitKept(w, Len(d.parent) + 1, d.round, core, Known)
      <4>1. c.proposal = d.proposal /\ w \in c.commits
        BY <3>2, Zenon
      <4> QED
        BY <2>1, <2>2, <4>1, Zenon DEF CoreOK
    <3> QED
      BY <2>1, <2>2, <3>1, <3>3, Zenon DEF CoreOK
  <2>7. CoreOK(d, core', Known)
    BY <2>5, <2>6, CoreForward, Zenon
  <2>8. x \in Messages
    BY <2>3, MessageTyped, Zenon DEF Types
  <2>9. /\ x.type = type /\ x.from = v /\ x.number = k /\ x.round = d.round /\ x.header = h
    BY Zenon DEF Message
  <2>10. Continue(v, d, msgs)
    OBVIOUS
  <2> HIDE DEF x
  <2>11. MsgOK(x, core', Known)
    <3>1. core'[v] = d
      BY <2>1, Zenon
    <3>2. type = "PREPARE" => Voted(d, k, d.round, h, Prepping)
      BY Zenon DEF Voted, Prepping
    <3>3. type = "COMMIT" => Voted(d, k, d.round, h, Committing)
      BY Zenon DEF Voted, Committing
    <3>4. CommitKept(v, k, d.round, core', Known)
      BY <2>3, <3>1, Zenon DEF CommitKept
    <3> HIDE DEF k
    <3> QED
      BY <2>9, <3>1, <3>2, <3>3, <3>4, Zenon DEF MsgOK
  <2>12. msgs \in Seq(Messages) /\ \A i \in DOMAIN msgs : MsgOK(msgs[i], core', Known)
    BY <2>8, <2>11, <1>PairFacts, Zenon
  <2>13. /\ d.roundChanges \subseteq Pool(v) /\ d.backlog \subseteq Pool(v)
         /\ d.state # "Committed" /\ d.parent \in known[v]
    BY <2>1, <2>2, Zenon DEF Pool, StoreOK
  <2> HIDE DEF msgs
  <2> QED
    BY <2>3, <2>4, <2>7, <2>10, <2>12, <2>13, <1>ContinueSmall, Zenon
\* The quorum of COMMITs is everybody.
<1>DecidesSmall.
    ASSUME N <= 3, LoopInv, SmallInv, BehindInv, LoopInv',
           NEW v \in Validators, NEW m \in Pool(v), m \in Messages,
           MsgOK(m, core, Known), NEW d, Decides(v, m, d), pc[v] = "Select",
           core' = [core EXCEPT ![v] = d], pc' = [pc EXCEPT ![v] = "Commit"], UNCHANGED <<out, net>>,
           \A u \in Validators : \A i \in DOMAIN chan'[u] : chan'[u][i] \in Pool(u),
           UNCHANGED <<known, head, blocks>>
    PROVE  SmallInv' /\ Forward(core, core', Known, Known)
  <2> USE <1>DecidesSmall
  <2> DEFINE c == core[v]
  <2>1. /\ c \in Cores /\ CoreOK(c, core, Known) /\ StoreOK(v) /\ PlaceOK(v)
        /\ core \in [Validators -> Cores]
        /\ pc \in [Validators -> {"Start", "Select", "Echo", "Commit"}]
    BY Zenon DEF LoopInv, LoopTypeOK, SmallInv, Continue
  <2>2. /\ d \in Cores /\ d.parent = c.parent /\ d.round = c.round /\ d.roundChanges = c.roundChanges
        /\ d.backlog = c.backlog /\ d.proposal = c.proposal /\ d.state = "Committed"
        /\ d.commits = c.commits \cup {m.from} /\ m.type = "COMMIT" /\ Counts(v, m)
        /\ Cardinality(d.commits) >= Quorum
    BY Zenon DEF Decides, SameRest
  <2>3. ~(Len(d.parent) > Len(c.parent)) /\ d.commits \in SUBSET Validators
        /\ c.state \in {"New", "Prepared", "CommitSent", "Committed", "RoundChange"}
    BY <2>1, <2>2, CoreFacts
  <2>4. d.commits = Validators
    BY <2>2, <2>3, QuorumIsAll, Zenon
  <2>5. Advances(c, d)
    <3>1. "Committed" \in After(c.state)
      BY <2>3, Zenon DEF After, Prepping, Committing
    <3> QED
      BY <2>2, <3>1, Zenon DEF Advances
  <2>6. Forward(core, core', Known, Known)
    BY <2>2, <2>3, <2>5, StepForward, Zenon
  <2>7. HasProposal(d, Known)
    <3>1. m.header = d.proposal /\ m.number = Len(d.parent) + 1
      BY <2>2, Zenon DEF Counts, Current, Height
    <3>2. m.header \in Proposed /\ Len(m.header) = m.number
      BY <2>2, MessageFacts, PoolBehind, Zenon
    <3>3. Parent(m.header) \in Known
      BY <2>2, Zenon DEF MsgOK
    <3> QED
      BY <3>1, <3>2, <3>3, Zenon DEF HasProposal
  <2>8. \A w \in d.commits :
          /\ Voted(core[w], Len(d.parent) + 1, d.round, d.proposal, Committing)
          /\ CommitKept(w, Len(d.parent) + 1, d.round, core, Known)
    BY <2>2, <1>CountedOK, Zenon
  <2>9. CoreOK(d, core, Known)
    BY <2>1, <2>2, <2>7, <2>8, Zenon DEF CoreOK
  <2>10. CoreOK(d, core', Known)
    BY <2>2, <2>6, <2>9, CoreForward, Zenon
  <2> DEFINE M == {}
  <2>11. ASSUME NEW u \in Validators PROVE Pool(u)' \subseteq Pool(u) \cup M
    <3>1. /\ core'[u].roundChanges = core[u].roundChanges /\ core'[u].backlog = core[u].backlog
          /\ net' = net /\ out' = out
      BY <2>1, <2>2, Zenon
    <3>2. {chan'[u][i] : i \in DOMAIN chan'[u]} \subseteq Pool(u)
      BY Zenon
    <3>3. Pool(u)' = net[u] \cup {chan'[u][i] : i \in DOMAIN chan'[u]}
                       \cup {out[u][i] : i \in DOMAIN out[u]}
                       \cup core[u].roundChanges \cup core[u].backlog
      BY <3>1, Zenon DEF Pool
    <3>4. /\ net[u] \subseteq Pool(u) /\ {out[u][i] : i \in DOMAIN out[u]} \subseteq Pool(u)
          /\ core[u].roundChanges \subseteq Pool(u) /\ core[u].backlog \subseteq Pool(u)
      BY Zenon DEF Pool
    <3> QED
      BY <3>2, <3>3, <3>4, Zenon
  <2>12. PlaceOK(v)'
    <3>1. core'[v] = d /\ pc'[v] = "Commit"
      BY <2>1, Zenon
    <3> QED
      BY <2>2, <2>4, <3>1, Zenon DEF PlaceOK
  <2>13. d.parent \in known[v] /\ \A u \in Validators \ {v} : pc'[u] = pc[u]
    BY <2>1, <2>2, Zenon DEF StoreOK
  <2>14. \A x \in M : MsgOK(x, core', Known)
    BY Zenon
  <2> HIDE DEF M
  <2> QED
    BY <2>2, <2>3, <2>5, <2>10, <2>11, <2>12, <2>13, <2>14, SmallStep, Zenon
<1>ReadSmall.
    ASSUME N <= 3, LoopInv, SmallInv, BehindInv, LoopInv', NEW v \in Validators, Read(v)
    PROVE  SmallInv' /\ Forward(core, core', Known, Known)
  <2> USE <1>ReadSmall
  <2> DEFINE m == Head(chan[v])
             c == core[v]
  <2>1. /\ pc[v] = "Select" /\ chan[v] # <<>> /\ chan' = [chan EXCEPT ![v] = Tail(@)]
        /\ HandleProposal(v, m) \/ HandlePrepare(v, m) \/ HandleCommit(v, m) \/ HandleRoundChange(v, m)
        /\ UNCHANGED <<known, head, blocks>>
    BY Zenon DEF Read, storeVars
  <2>2. /\ c \in Cores /\ LoopTypeOK /\ chan \in [Validators -> Seq(Messages)]
        /\ CoreOK(c, core, Known) /\ PlaceOK(v) /\ StoreOK(v)
    BY Zenon DEF LoopInv, LoopTypeOK, SmallInv
  <2>3. chan[v] \in Seq(Messages)
    BY <2>2, Zenon
  <2>4. m \in Messages /\ 1 \in DOMAIN chan[v] /\ m = chan[v][1]
    BY <2>1, <2>3
  <2>5. m \in Pool(v) /\ MsgOK(m, core, Known)
    BY <2>4, Zenon DEF Pool, SmallInv
  <2>6. ASSUME NEW u \in Validators, NEW i \in DOMAIN chan'[u] PROVE chan'[u][i] \in Pool(u)
    <3>1. CASE u = v
      <4>1. chan'[u] = Tail(chan[v])
        BY <2>1, <2>2, <3>1, Zenon
      <4>2. i + 1 \in DOMAIN chan[v] /\ Tail(chan[v])[i] = chan[v][i + 1]
        BY <2>1, <2>3, <2>6, <4>1, TailFacts, Zenon
      <4> QED
        BY <3>1, <4>1, <4>2, Zenon DEF Pool
    <3>2. CASE u # v
      <4>1. chan'[u] = chan[u]
        BY <2>1, <2>2, <3>2, Zenon
      <4> QED
        BY <2>6, <4>1, Zenon DEF Pool
    <3> QED
      BY <3>1, <3>2, Zenon
  <2>7. \A x, y \in c.roundChanges : x.from = y.from => x = y
    BY <2>2, Zenon DEF CoreOK
  <2> HIDE DEF m
  <2>8. \/ \E d : Quiet(v, m, d) /\ Continue(v, d, <<>>)
        \/ \E d : /\ Accepts(v, m, d)
                  /\ Continue(v, d, <<Message("PREPARE", v, m.number, m.round, m.header)>>)
        \/ \E d : /\ Locks(v, m, d)
                  /\ Continue(v, d, <<Message("COMMIT", v, m.number, m.round, m.header)>>)
        \/ \E d : /\ Decides(v, m, d) /\ core' = [core EXCEPT ![v] = d]
                  /\ pc' = [pc EXCEPT ![v] = "Commit"] /\ UNCHANGED <<out, net>>
        \/ \E R, h : Moves(v, m, R, h)
    BY <2>1, <2>2, <2>4, <2>7, ReadCases, Zenon
  <2>9. c.state # "Committed" /\ c.parent \in known[v] /\ m.header \in Proposed \cup {NoHeader}
        /\ (m.type # "ROUND_CHANGE" => m.header \in Proposed) /\ m.round \in Nat
    BY <2>1, <2>2, <2>4, MessageFacts, Zenon DEF PlaceOK, StoreOK
  <2>10. ASSUME NEW d, Quiet(v, m, d), Continue(v, d, <<>>)
         PROVE  SmallInv' /\ Forward(core, core', Known, Known)
    BY <2>1, <2>4, <2>5, <2>6, <2>10, <1>QuietSmall, Zenon
  <2>11. ASSUME NEW d, Accepts(v, m, d),
                Continue(v, d, <<Message("PREPARE", v, m.number, m.round, m.header)>>)
         PROVE  SmallInv' /\ Forward(core, core', Known, Known)
    <3>1. /\ m.type = "PROPOSAL" /\ c.state = "New" /\ d \in Cores /\ SameRest(c, d)
          /\ d.state = "Prepared" /\ d.proposal = m.header /\ d.commits = c.commits
          /\ m.number = Len(d.parent) + 1 /\ m.round = d.round
      BY <2>11, Zenon DEF Accepts, SameRest, Current, Height
    <3>2. Len(m.header) = m.number /\ Parent(m.header) \in Known /\ m.header \in Proposed
      BY <2>5, <2>9, <3>1, PoolBehind, Zenon DEF MsgOK
    <3>3. Continue(v, d, <<Message("PREPARE", v, Len(d.parent) + 1, d.round, m.header)>>)
      BY <2>11, <3>1, Zenon
    <3> QED
      BY <2>1, <2>6, <2>9, <3>1, <3>2, <3>3, <1>VoteSmall, Zenon
  <2>12. ASSUME NEW d, Locks(v, m, d),
                Continue(v, d, <<Message("COMMIT", v, m.number, m.round, m.header)>>)
         PROVE  SmallInv' /\ Forward(core, core', Known, Known)
    <3>1. /\ m.type = "PREPARE" /\ c.state = "Prepared" /\ d \in Cores /\ SameRest(c, d)
          /\ d.state = "CommitSent" /\ d.proposal = m.header /\ d.commits = c.commits
          /\ m.number = Len(d.parent) + 1 /\ m.round = d.round /\ c.proposal = m.header
      BY <2>12, Zenon DEF Locks, SameRest, Current, Counts, Height
    <3>2. Len(m.header) = m.number /\ Parent(m.header) \in Known /\ m.header \in Proposed
      BY <2>5, <2>9, <3>1, PoolBehind, Zenon DEF MsgOK
    <3>3. Continue(v, d, <<Message("COMMIT", v, Len(d.parent) + 1, d.round, m.header)>>)
      BY <2>12, <3>1, Zenon
    <3> QED
      BY <2>1, <2>6, <2>9, <3>1, <3>2, <3>3, <1>VoteSmall, Zenon
  <2>13. ASSUME NEW d, Decides(v, m, d), core' = [core EXCEPT ![v] = d],
                pc' = [pc EXCEPT ![v] = "Commit"], UNCHANGED <<out, net>>
         PROVE  SmallInv' /\ Forward(core, core', Known, Known)
    BY <2>1, <2>4, <2>5, <2>6, <2>13, <1>DecidesSmall, Zenon
  <2>14. ASSUME NEW R, NEW h, Moves(v, m, R, h)
         PROVE  SmallInv' /\ Forward(core, core', Known, Known)
    <3> DEFINE p == c.parent
               r == m.round
    <3>0. Entered(v, m, R, h)
      BY <2>4, <2>5, <2>14, MovesFacts, Zenon
    <3>1. /\ EnterRound(v, p, r, h, {}) /\ r > c.round /\ Carried(h, p)
          /\ \A w \in Validators : Asked(core[w], Len(p) + 1, r)
      BY <3>0, Zenon DEF Entered
    <3>2. p \in known[v] /\ r \in Nat /\ Leaves(core[v], pc[v], p, r) /\ Carried(h, p)
      BY <2>9, <3>1, Zenon DEF Leaves
    <3>3. r > 0 => \A w \in Validators : Asked(core[w], Len(p) + 1, r)
      BY <3>1, Zenon
    <3>4. UNCHANGED <<known, head, blocks>> /\ EnterRound(v, p, r, h, {})
      BY <2>1, <3>1, Zenon
    <3> HIDE DEF p, r
    <3> QED
      BY <2>6, <3>2, <3>3, <3>4, <1>EnterSmall, Zenon
  <2> QED
    BY <2>8, <2>10, <2>11, <2>12, <2>13, <2>14, Zenon
<1>StartSmall.
    ASSUME LoopInv, SmallInv, LoopInv', NEW v \in Validators, StartInstance(v)
    PROVE  SmallInv' /\ Forward(core, core', Known, Known)
  <2> USE <1>StartSmall
  <2> DEFINE c == core[v]
             p == head[v]
  <2>1. /\ pc[v] = "Start" /\ EnterRound(v, p, 0, NoHeader, {})
        /\ UNCHANGED <<known, head, blocks>> /\ chan' = chan
    BY Zenon DEF StartInstance, storeVars
  <2>2. /\ c \in Cores /\ CoreOK(c, core, Known) /\ PlaceOK(v) /\ StoreOK(v)
    BY Zenon DEF LoopInv, LoopTypeOK, SmallInv
  <2>3. p \in known[v] /\ c.parent \in known[v] /\ \A h \in known[v] : Len(h) <= Len(p)
    BY <2>2, Zenon DEF StoreOK
  <2>4. Leaves(c, pc[v], p, 0)
    BY <2>1, StartLeaves, Zenon
  <2>5. \A u \in Validators : \A i \in DOMAIN chan'[u] : chan'[u][i] \in Pool(u)
    BY <2>1, Zenon DEF Pool
  <2>6. Carried(NoHeader, p)
    BY Zenon DEF Carried
  <2>7. 0 \in Nat /\ (0 > 0 => \A w \in Validators : Asked(core[w], Len(p) + 1, 0))
    OBVIOUS
  <2> HIDE DEF p
  <2> QED
    BY <2>1, <2>3, <2>4, <2>5, <2>6, <2>7, <1>EnterSmall, Zenon
<1>TimeoutSmall.
    ASSUME LoopInv, SmallInv, LoopInv', NEW v \in Validators, Timeout(v)
    PROVE  SmallInv' /\ Forward(core, core', Known, Known)
  <2> USE <1>TimeoutSmall
  <2> DEFINE c == core[v]
             k == Len(c.parent) + 1
             r == c.round + 1
             h == IF c.state = "New" THEN NoHeader ELSE c.proposal
             d == [c EXCEPT !.state = "RoundChange"]
             x == Message("ROUND_CHANGE", v, k, r, h)
             msgs == <<x>>
  <2>1. /\ c.state \in {"New", "Prepared", "CommitSent"} /\ Continue(v, d, msgs) /\ chan' = chan
        /\ UNCHANGED <<known, head, blocks>>
    BY Zenon DEF Timeout, Height, storeVars
  <2>2. /\ c \in Cores /\ CoreOK(c, core, Known) /\ StoreOK(v)
    BY Zenon DEF LoopInv, LoopTypeOK, SmallInv
  <2>3. /\ d \in Cores /\ d.parent = c.parent /\ d.round = c.round /\ d.state = "RoundChange"
        /\ d.proposal = c.proposal /\ d.commits = c.commits /\ d.prepares = c.prepares
        /\ d.roundChanges = c.roundChanges /\ d.backlog = c.backlog
    BY <2>2, Zenon DEF Cores
  <2> HIDE DEF d
  <2>4. /\ Len(c.parent) \in Nat /\ c.round \in Nat /\ k \in Nat /\ r \in Nat /\ r > 0
        /\ ~(Len(d.parent) > Len(c.parent)) /\ c.proposal \in Proposed \cup {NoHeader}
    <3>1. Len(c.parent) \in Nat /\ c.round \in Nat /\ c.proposal \in Proposed \cup {NoHeader}
      BY <2>2, CoreFacts, Zenon
    <3> QED
      BY <2>3, <3>1
  <2>5. Advances(c, d)
    <3>1. "RoundChange" \in After(c.state)
      BY <2>1, Zenon DEF After, Prepping, Committing
    <3> QED
      BY <2>3, <3>1, Zenon DEF Advances
  <2>6. core' = [core EXCEPT ![v] = d] /\ core \in [Validators -> Cores]
    BY <2>1, Zenon DEF Continue, LoopInv, LoopTypeOK
  <2>7. Forward(core, core', Known, Known)
    BY <2>3, <2>4, <2>5, <2>6, StepForward, Zenon
  <2>8. HasProposal(c, Known) => HasProposal(d, Known)
    BY <2>3, Zenon DEF HasProposal
  <2>9. CoreOK(d, core, Known)
    <3>1. d.proposal = NoHeader \/ HasProposal(d, Known)
      BY <2>1, <2>2, <2>3, <2>8, Zenon DEF CoreOK
    <3> QED
      BY <2>2, <2>3, <3>1, Zenon DEF CoreOK
  <2>10. CoreOK(d, core', Known)
    BY <2>3, <2>7, <2>9, CoreForward, Zenon
  <2>11. h \in Proposed \cup {NoHeader} /\ (h # NoHeader => Parent(h) \in Known)
    BY <2>1, <2>2, <2>4, Zenon DEF CoreOK, HasProposal
  <2>12. Asked(d, k, r)
    <3>1. Len(d.parent) + 1 = k /\ d.round + 1 = r
      BY <2>3, Zenon
    <3> QED
      BY <2>3, <3>1, Zenon DEF Asked
  <2> HIDE DEF k, r, h
  <2>13. x \in Messages
    BY <2>4, <2>11, MessageTyped, Zenon DEF Types
  <2>14. /\ x.type = "ROUND_CHANGE" /\ x.from = v /\ x.number = k /\ x.round = r /\ x.header = h
    BY Zenon DEF Message
  <2> HIDE DEF x
  <2>15. MsgOK(x, core', Known)
    <3>1. core'[v] = d
      BY <2>6, Zenon
    <3> QED
      BY <2>4, <2>11, <2>12, <2>14, <3>1, Zenon DEF MsgOK
  <2>16. msgs \in Seq(Messages) /\ \A i \in DOMAIN msgs : MsgOK(msgs[i], core', Known)
    BY <2>13, <2>15, <1>PairFacts, Zenon
  <2>17. /\ d.roundChanges \subseteq Pool(v) /\ d.backlog \subseteq Pool(v)
         /\ d.state # "Committed" /\ d.parent \in known[v]
    BY <2>2, <2>3, Zenon DEF Pool, StoreOK
  <2>18. \A u \in Validators : \A i \in DOMAIN chan'[u] : chan'[u][i] \in Pool(u)
    BY <2>1, Zenon DEF Pool
  <2> HIDE DEF msgs
  <2> QED
    BY <2>1, <2>3, <2>4, <2>5, <2>10, <2>16, <2>17, <2>18, <1>ContinueSmall, Zenon
\* A step that leaves the cores alone: the messages M move.
<1>MoveSmall.
    ASSUME LoopInv, SmallInv, LoopInv', NEW v \in Validators, core' = core,
           UNCHANGED <<known, head, blocks>>, NEW M, \A m \in M : MsgOK(m, core, Known),
           \A u \in Validators : Pool(u)' \subseteq Pool(u) \cup M,
           PlaceOK(v)', \A u \in Validators \ {v} : pc'[u] = pc[u]
    PROVE  SmallInv' /\ Forward(core, core', Known, Known)
  <2> USE <1>MoveSmall
  <2>1. /\ core[v] \in Cores /\ core \in [Validators -> Cores]
        /\ CoreOK(core[v], core, Known) /\ StoreOK(v)
    BY Zenon DEF SmallInv, LoopInv, LoopTypeOK
  <2> DEFINE d == core[v]
  <2>2. core' = [core EXCEPT ![v] = d]
    BY <2>1, Zenon
  <2>3. d \in Cores /\ Advances(core[v], d) /\ ~(Len(d.parent) > Len(core[v].parent))
    <3>1. Len(d.parent) \in Nat
      BY <2>1, CoreFacts, Zenon
    <3>2. ~(Len(d.parent) > Len(core[v].parent))
      BY <3>1
    <3> QED
      BY <2>1, <3>2, AdvancesSelf, Zenon
  <2>4. /\ CoreOK(d, core', Known) /\ d.parent \in known[v] /\ \A m \in M : MsgOK(m, core', Known)
    BY <2>1, Zenon DEF StoreOK
  <2> HIDE DEF d
  <2> QED
    BY <2>2, <2>3, <2>4, SmallStep, Zenon
<1>EchoSmall.
    ASSUME LoopInv, SmallInv, LoopInv', NEW v \in Validators, Echo(v)
    PROVE  SmallInv' /\ Forward(core, core', Known, Known)
  <2> USE <1>EchoSmall
  <2> DEFINE M == {out[v][i] : i \in DOMAIN out[v]}
             t == Tail(out[v])
  <2>1. /\ pc[v] = "Echo" /\ chan' = [chan EXCEPT ![v] = Append(@, Head(out[v]))]
        /\ out' = [out EXCEPT ![v] = t]
        /\ pc' = [pc EXCEPT ![v] = IF t = <<>> THEN "Select" ELSE "Echo"]
        /\ net' = IF t = <<>> THEN net ELSE Publish(net, v, Head(t))
        /\ UNCHANGED <<known, head, blocks>> /\ core' = core
    BY Zenon DEF Echo, Dispatch, storeVars
  <2>2. /\ core[v] \in Cores /\ PlaceOK(v) /\ LoopAt(v)
        /\ chan \in [Validators -> Seq(Messages)] /\ out \in [Validators -> Seq(Messages)]
        /\ net \in [Validators -> SUBSET Messages]
        /\ pc \in [Validators -> {"Start", "Select", "Echo", "Commit"}]
    BY Zenon DEF LoopInv, LoopTypeOK, SmallInv
  <2>3. out[v] # <<>> /\ out[v] \in Seq(Messages) /\ chan[v] \in Seq(Messages)
    BY <2>1, <2>2, Zenon DEF LoopAt
  <2>4. Head(out[v]) \in M /\ Head(out[v]) \in Messages /\ t \in Seq(Messages)
    BY <2>3
  <2>5. ASSUME NEW i \in DOMAIN t PROVE t[i] \in M
    BY <2>3, TailFacts, Zenon
  <2>6. t # <<>> => Head(t) \in M
    <3> HIDE DEF t, M
    <3>1. t # <<>> => 1 \in DOMAIN t /\ Head(t) = t[1]
      BY <2>4
    <3> QED
      BY <2>5, <3>1, Zenon
  <2>7. ASSUME NEW i \in DOMAIN Append(chan[v], Head(out[v]))
        PROVE  Append(chan[v], Head(out[v]))[i] \in {chan[v][j] : j \in DOMAIN chan[v]} \cup M
    <3> HIDE DEF M
    <3>1. \/ i \in DOMAIN chan[v] /\ Append(chan[v], Head(out[v]))[i] = chan[v][i]
          \/ Append(chan[v], Head(out[v]))[i] = Head(out[v])
      BY <2>3, <2>4
    <3> QED
      BY <2>4, <3>1, Zenon
  <2> HIDE DEF t, M
  <2>8. ASSUME NEW u \in Validators PROVE Pool(u)' \subseteq Pool(u) \cup M
    <3>1. net'[u] \subseteq net[u] \cup M
      BY <2>1, <2>2, <2>6, Zenon DEF Publish
    <3>2. /\ {out'[u][i] : i \in DOMAIN out'[u]} \subseteq Pool(u) \cup M
          /\ {chan'[u][i] : i \in DOMAIN chan'[u]} \subseteq Pool(u) \cup M
      <4>1. CASE u = v
        <5>1. out'[u] = t /\ chan'[u] = Append(chan[v], Head(out[v]))
          BY <2>1, <2>2, <4>1, Zenon
        <5>2. {chan[v][j] : j \in DOMAIN chan[v]} \subseteq Pool(u)
          BY <4>1, Zenon DEF Pool
        <5> QED
          BY <2>5, <2>7, <5>1, <5>2, Zenon
      <4>2. CASE u # v
        <5>1. out'[u] = out[u] /\ chan'[u] = chan[u]
          BY <2>1, <2>2, <4>2, Zenon
        <5> QED
          BY <5>1, Zenon DEF Pool
      <4> QED
        BY <4>1, <4>2, Zenon
    <3>3. /\ net[u] \subseteq Pool(u) /\ core[u].roundChanges \subseteq Pool(u)
          /\ core[u].backlog \subseteq Pool(u)
      BY Zenon DEF Pool
    <3>4. Pool(u)' = net'[u] \cup {chan'[u][i] : i \in DOMAIN chan'[u]}
                       \cup {out'[u][i] : i \in DOMAIN out'[u]}
                       \cup core[u].roundChanges \cup core[u].backlog
      BY <2>1, Zenon DEF Pool
    <3> QED
      BY <3>1, <3>2, <3>3, <3>4, Zenon
  <2>9. PlaceOK(v)'
    <3>1. pc'[v] \in {"Select", "Echo"} /\ core'[v].state # "Committed"
      BY <2>1, <2>2, Zenon DEF PlaceOK
    <3> QED
      BY <3>1, Zenon DEF PlaceOK
  <2>10. \A u \in Validators \ {v} : pc'[u] = pc[u]
    BY <2>1, <2>2, Zenon
  <2>11. \A m \in M : MsgOK(m, core, Known)
    BY Zenon DEF SmallInv, Pool, M
  <2> QED
    BY <2>1, <2>8, <2>9, <2>10, <2>11, <1>MoveSmall, Zenon
<1>ArriveSmall.
    ASSUME LoopInv, SmallInv, LoopInv', NEW v \in Validators, NEW m \in net[v], HandleQBFTMsg(v, m)
    PROVE  SmallInv' /\ Forward(core, core', Known, Known)
  <2> USE <1>ArriveSmall
  <2> DEFINE M == {}
  <2>1. /\ net' = [net EXCEPT ![v] = @ \ {m}] /\ core' = core /\ pc' = pc /\ out' = out
        /\ chan' = chan \/ chan' = [chan EXCEPT ![v] = Append(@, m)]
        /\ UNCHANGED <<known, head, blocks>>
    BY Zenon DEF HandleQBFTMsg, storeVars
  <2>2. /\ PlaceOK(v) /\ chan \in [Validators -> Seq(Messages)] /\ net \in [Validators -> SUBSET Messages]
    BY Zenon DEF LoopInv, LoopTypeOK, SmallInv
  <2>3. chan[v] \in Seq(Messages) /\ m \in Messages
    BY <2>2, Zenon
  <2>4. ASSUME NEW i \in DOMAIN Append(chan[v], m)
        PROVE  Append(chan[v], m)[i] \in {chan[v][j] : j \in DOMAIN chan[v]} \cup {m}
    <3>1. \/ i \in DOMAIN chan[v] /\ Append(chan[v], m)[i] = chan[v][i]
          \/ Append(chan[v], m)[i] = m
      BY <2>3
    <3> QED
      BY <3>1, Zenon
  <2>5. ASSUME NEW u \in Validators PROVE Pool(u)' \subseteq Pool(u) \cup M
    <3>1. net'[u] \subseteq net[u]
      BY <2>1, <2>2, Zenon
    <3>2. {chan'[u][i] : i \in DOMAIN chan'[u]} \subseteq Pool(u)
      <4>1. CASE chan'[u] = chan[u]
        BY <4>1, Zenon DEF Pool
      <4>2. CASE u = v /\ chan'[u] = Append(chan[v], m)
        <5>1. {chan[v][j] : j \in DOMAIN chan[v]} \subseteq Pool(v) /\ m \in Pool(v)
          BY Zenon DEF Pool
        <5> QED
          BY <2>4, <4>2, <5>1, Zenon
      <4> QED
        BY <2>1, <2>2, <4>1, <4>2, Zenon
    <3>3. /\ net[u] \subseteq Pool(u) /\ core[u].roundChanges \subseteq Pool(u)
          /\ core[u].backlog \subseteq Pool(u) /\ {out[u][i] : i \in DOMAIN out[u]} \subseteq Pool(u)
      BY Zenon DEF Pool
    <3>4. Pool(u)' = net'[u] \cup {chan'[u][i] : i \in DOMAIN chan'[u]}
                       \cup {out[u][i] : i \in DOMAIN out[u]}
                       \cup core[u].roundChanges \cup core[u].backlog
      BY <2>1, Zenon DEF Pool
    <3> QED
      BY <3>1, <3>2, <3>3, <3>4, Zenon
  <2>6. PlaceOK(v)' /\ \A u \in Validators \ {v} : pc'[u] = pc[u]
    BY <2>1, <2>2, Zenon DEF PlaceOK
  <2>7. \A x \in M : MsgOK(x, core, Known)
    BY Zenon
  <2> HIDE DEF M
  <2> QED
    BY <2>1, <2>5, <2>6, <2>7, <1>MoveSmall, Zenon
<1>AddBlockFacts.
    ASSUME LoopInv, NEW v \in Validators, NEW h \in Branches, StoreOK(v), AddBlock(v, h)
    PROVE  /\ known'[v] = known[v] \cup {h} /\ Known' = Known \cup {h}
           /\ \A u \in Validators \ {v} : known'[u] = known[u] /\ head'[u] = head[u]
           /\ head'[v] \in known'[v] /\ \A g \in known'[v] : Len(g) <= Len(head'[v])
  <2> USE <1>AddBlockFacts
  <2>1. /\ known \in [Validators -> SUBSET Branches] /\ head \in [Validators -> Branches]
        /\ known' = [known EXCEPT ![v] = @ \cup {h}]
        /\ head' = IF Len(h) > Len(head[v]) THEN [head EXCEPT ![v] = h] ELSE head
        /\ head[v] \in known[v] /\ \A g \in known[v] : Len(g) <= Len(head[v])
    BY Zenon DEF LoopInv, LoopTypeOK, AddBlock, StoreOK
  <2>2. /\ known'[v] = known[v] \cup {h} /\ \A u \in Validators \ {v} : known'[u] = known[u]
    BY <2>1, Zenon
  <2>3. Known' = Known \cup {h}
    <3>1. ASSUME NEW g \in Known' PROVE g \in Known \cup {h}
      <4>1. PICK u \in Validators : g \in known'[u]
        BY <3>1, Zenon DEF Known
      <4> QED
        BY <2>2, <4>1, Zenon DEF Known
    <3>2. ASSUME NEW g \in Known \cup {h} PROVE g \in Known'
      <4>1. CASE g = h
        BY <2>2, <4>1, Zenon DEF Known
      <4>2. CASE g \in Known
        <5>1. PICK u \in Validators : g \in known[u]
          BY <4>2, Zenon DEF Known
        <5>2. g \in known'[u]
          BY <2>2, <5>1, Zenon
        <5> QED
          BY <5>2, Zenon DEF Known
      <4> QED
        BY <3>2, <4>1, <4>2, Zenon
    <3> QED
      BY <3>1, <3>2, Zenon
  <2>4. /\ Len(h) \in Nat /\ Len(head[v]) \in Nat /\ \A g \in known[v] : Len(g) \in Nat
    BY <2>1, BranchLength, Zenon
  <2>5. \A u \in Validators \ {v} : head'[u] = head[u]
    BY <2>1, Zenon
  <2>6. CASE Len(h) > Len(head[v])
    <3>1. head'[v] = h
      BY <2>1, <2>6, Zenon
    <3>2. \A g \in known[v] : Len(g) <= Len(h)
      BY <2>1, <2>4, <2>6
    <3>3. Len(h) <= Len(h)
      BY <2>4
    <3> QED
      BY <2>2, <2>3, <2>5, <3>1, <3>2, <3>3, Zenon
  <2>7. CASE ~(Len(h) > Len(head[v]))
    <3>1. head' = head
      BY <2>1, <2>7, Zenon
    <3>2. Len(h) <= Len(head[v])
      BY <2>4, <2>7
    <3> QED
      BY <2>1, <2>2, <2>3, <2>5, <3>1, <3>2, Zenon
  <2> QED
    BY <2>6, <2>7, Zenon
<1>BlockSmall.
    ASSUME LoopInv, SmallInv, NEW v \in Validators, NEW h \in blocks[v], HandleBlock(v, h)
    PROVE  SmallInv'
  <2> USE <1>BlockSmall
  <2>1. /\ UNCHANGED <<core, pc, out, chan, net>>
        /\ blocks' = [blocks EXCEPT ![v] = @ \ {h}]
        /\ AddBlock(v, h) \/ UNCHANGED <<known, head>>
    BY Zenon DEF HandleBlock, loopVars, storeVars
  <2>2. /\ \A u \in Validators : CoreOK(core[u], core, Known) /\ PlaceOK(u) /\ StoreOK(u)
        /\ blocks \in [Validators -> SUBSET Proposed]
    BY Zenon DEF SmallInv, LoopInv, LoopTypeOK
  <2>3. h \in Known /\ h \in Branches
    BY <2>2, Zenon DEF StoreOK, Proposed
  <2>4. /\ Known' = Known /\ known[v] \subseteq known'[v]
        /\ \A u \in Validators \ {v} : known'[u] = known[u] /\ head'[u] = head[u]
        /\ head'[v] \in known'[v] /\ \A g \in known'[v] : Len(g) <= Len(head'[v])
    <3>1. CASE AddBlock(v, h)
      <4>1. /\ known'[v] = known[v] \cup {h} /\ Known' = Known \cup {h}
            /\ \A u \in Validators \ {v} : known'[u] = known[u] /\ head'[u] = head[u]
            /\ head'[v] \in known'[v] /\ \A g \in known'[v] : Len(g) <= Len(head'[v])
        BY <2>2, <2>3, <3>1, <1>AddBlockFacts, Zenon
      <4>2. Known \cup {h} = Known /\ known[v] \subseteq known[v] \cup {h}
        BY <2>3, Zenon
      <4> QED
        BY <4>1, <4>2, Zenon
    <3>2. CASE UNCHANGED <<known, head>>
      <4>1. Known' = Known
        BY <3>2, Zenon DEF Known
      <4> QED
        BY <2>2, <3>2, <4>1, Zenon DEF StoreOK
    <3> QED
      BY <2>1, <3>1, <3>2, Zenon
  <2>5. ASSUME NEW u \in Validators PROVE Pool(u)' = Pool(u)
    BY <2>1, Zenon DEF Pool
  <2>6. ASSUME NEW u \in Validators PROVE CoreOK(core'[u], core', Known') /\ PlaceOK(u)' /\ StoreOK(u)'
    <3>1. CoreOK(core'[u], core', Known')
      BY <2>1, <2>2, <2>4, Zenon
    <3>2. known[u] \subseteq known'[u] /\ blocks'[u] \subseteq blocks[u]
      BY <2>1, <2>2, <2>4, Zenon
    <3>3. PlaceOK(u)'
      BY <2>1, <2>2, <3>2, Zenon DEF PlaceOK
    <3>4. head'[u] \in known'[u] /\ \A g \in known'[u] : Len(g) <= Len(head'[u])
      BY <2>2, <2>4, Zenon DEF StoreOK
    <3>5. StoreOK(u)'
      BY <2>1, <2>2, <2>4, <3>2, <3>4, Zenon DEF StoreOK
    <3> QED
      BY <3>1, <3>3, <3>5, Zenon
  <2>7. \A u \in Validators : \A m \in Pool(u)' : MsgOK(m, core', Known')
    BY <2>1, <2>4, <2>5, Zenon DEF SmallInv
  <2>8. (\A g \in Known' : BlockOK(g, core')) /\ OneBranch(Known')
    BY <2>1, <2>4, Zenon DEF SmallInv
  <2> QED
    BY <2>6, <2>7, <2>8, Zenon DEF SmallInv
\* A block of the height that v has decided on is the block of v.
<1>OneBlock.
    ASSUME LoopInv, SmallInv, NEW v \in Validators, core[v].state = "Committed", NEW g \in Known,
           Len(g) = Len(core[v].parent) + 1
    PROVE  g = SealedHeader(core[v].proposal, Validators)
  <2> USE <1>OneBlock
  <2> DEFINE c == core[v]
             k == Len(g)
             s == c.round
             b == c.proposal
  <2>1. /\ c \in Cores /\ CoreOK(c, core, Known) /\ PlaceOK(v) /\ core \in [Validators -> Cores]
        /\ BlockOK(g, core) /\ OneBranch(Known)
    BY Zenon DEF SmallInv, LoopInv, LoopTypeOK
  <2>2. /\ Len(c.parent) \in Nat /\ s \in Nat /\ c.commits = Validators /\ k \in Nat /\ k > 0
        /\ Len(c.parent) + 1 = k
    <3>1. Len(c.parent) \in Nat /\ s \in Nat /\ c.commits = Validators
      BY <2>1, CoreFacts, Zenon DEF PlaceOK
    <3> QED
      BY <3>1
  <2>3. PICK u \in Validators, r \in Nat, a \in Proposed :
          /\ g = SealedHeader(a, Validators) /\ Len(a) = k
          /\ AllCommitted(core, r, a) /\ Done(core[u], k, r)
    BY <2>1, <2>2, Zenon DEF BlockOK
  <2>4. Voted(c, k, r, a, Committing)
    BY <2>3, Zenon DEF AllCommitted
  <2>5. s > r \/ (s = r /\ b = a)
    BY <2>2, <2>4 DEF Voted, Past
  <2>6. CASE s > r
    <3>1. Voted(core[u], k, s, b, Committing) /\ CommitKept(u, k, s, core, Known)
      BY <2>1, <2>2, Zenon DEF CoreOK
    <3>2. Len(core[u].parent) \in Nat /\ core[u].round \in Nat
      BY <2>1, CoreFacts, Zenon
    <3>3. Len(core[u].parent) >= k
      BY <2>2, <2>3, <2>6, <3>1, <3>2 DEF Voted, Past, Done
    <3>4. PICK q \in Nat, e \in Proposed :
            /\ q >= s /\ Len(e) = k /\ SealedHeader(e, Validators) \in Known
            /\ AllCommitted(core, q, e)
      BY <3>1, <3>3, Zenon DEF CommitKept
    <3>5. Voted(c, k, q, e, Committing)
      BY <3>4, Zenon DEF AllCommitted
    <3>6. e = b
      BY <2>2, <3>4, <3>5 DEF Voted, Past
    <3>7. Len(SealedHeader(e, Validators)) = k
      BY <3>4, SealedFacts, Zenon
    <3> QED
      BY <2>1, <3>4, <3>6, <3>7, Zenon DEF OneBranch
  <2> QED
    BY <2>3, <2>5, <2>6, Zenon
<1>CommitSmall.
    ASSUME LoopInv, SmallInv, NEW v \in Validators, CommitBlock(v)
    PROVE  SmallInv' /\ Forward(core, core', Known, Known')
  <2> USE <1>CommitSmall
  <2> DEFINE c == core[v]
             b == c.proposal
             k == Len(c.parent) + 1
             h == SealedHeader(b, c.commits)
  <2>1. /\ pc[v] = "Commit" /\ pc' = [pc EXCEPT ![v] = "Start"]
        /\ core' = core /\ out' = out /\ chan' = chan /\ net' = net
        /\ Parent(h) \in known[v] => AddBlock(v, h) /\ blocks' = Publish(blocks, v, h)
    BY Zenon DEF CommitBlock
  <2>2. /\ c \in Cores /\ CoreOK(c, core, Known) /\ PlaceOK(v) /\ OneBranch(Known)
        /\ \A u \in Validators : CoreOK(core[u], core, Known) /\ PlaceOK(u) /\ StoreOK(u)
        /\ core \in [Validators -> Cores]
        /\ pc \in [Validators -> {"Start", "Select", "Echo", "Commit"}]
    BY Zenon DEF SmallInv, LoopInv, LoopTypeOK
  <2>3. c.state = "Committed"
    BY <2>1, <2>2, Zenon DEF PlaceOK
  <2>4. /\ c.commits = Validators /\ b \in Proposed /\ h \in Proposed /\ Len(h) = k /\ Len(b) = k
        /\ Parent(h) \in known[v] /\ h = SealedHeader(b, Validators)
    BY <2>3, DecidedFits, Zenon
  <2>5. h \in Branches
    BY <2>4, ProposedFacts, Zenon
  <2> HIDE DEF h
  <2>6. /\ known'[v] = known[v] \cup {h} /\ Known' = Known \cup {h}
        /\ \A u \in Validators \ {v} : known'[u] = known[u] /\ head'[u] = head[u]
        /\ head'[v] \in known'[v] /\ \A g \in known'[v] : Len(g) <= Len(head'[v])
    BY <2>1, <2>2, <2>4, <2>5, <1>AddBlockFacts, Zenon
  <2>7. Forward(core, core', Known, Known')
    <3>1. \A w \in Validators : ~(Len(core'[w].parent) > Len(core[w].parent))
      <4>1. ASSUME NEW w \in Validators PROVE ~(Len(core'[w].parent) > Len(core[w].parent))
        <5>1. Len(core[w].parent) \in Nat
          BY <2>2, CoreFacts, Zenon
        <5> QED
          BY <2>1, <5>1
      <4> QED
        BY <4>1, Zenon
    <3>2. Known \subseteq Known'
      BY <2>6, Zenon
    <3> QED
      BY <2>1, <2>2, <3>1, <3>2, AdvancesSelf, Zenon DEF Forward
  <2>8. ASSUME NEW u \in Validators, NEW m \in Pool(u)' PROVE MsgOK(m, core', Known')
    <3>1. m \in Pool(u)
      BY <2>1, <2>8, Zenon DEF Pool
    <3>2. m \in Messages /\ MsgOK(m, core, Known)
      BY <3>1, PoolTyped, Zenon DEF SmallInv, LoopInv
    <3> QED
      BY <2>7, <3>2, MsgForward, Zenon
  <2>9. ASSUME NEW u \in Validators PROVE CoreOK(core'[u], core', Known') /\ PlaceOK(u)' /\ StoreOK(u)'
    <3>1. core[u] \in Cores /\ CoreOK(core[u], core, Known)
      BY <2>2, Zenon
    <3>2. CoreOK(core[u], core', Known')
      BY <2>7, <3>1, CoreForward, Zenon
    <3>3. known[u] \subseteq known'[u] /\ blocks'[u] \subseteq blocks[u] \cup {h}
      BY <2>1, <2>4, <2>6, Zenon DEF Publish
    <3>4. head'[u] \in known'[u] /\ \A g \in known'[u] : Len(g) <= Len(head'[u])
      BY <2>2, <2>6, Zenon DEF StoreOK
    <3>5. StoreOK(u)'
      BY <2>1, <2>2, <2>6, <3>3, <3>4, Zenon DEF StoreOK
    <3>6. PlaceOK(u)'
      <4>1. CASE u = v
        <5>1. pc'[u] = "Start" /\ core'[u] = c /\ SealedHeader(b, Validators) \in known'[u]
          BY <2>1, <2>2, <2>4, <2>6, <4>1, Zenon
        <5> QED
          BY <2>3, <2>4, <5>1, Zenon DEF PlaceOK
      <4>2. CASE u # v
        <5>1. pc'[u] = pc[u] /\ known'[u] = known[u]
          BY <2>1, <2>2, <2>6, <4>2, Zenon
        <5> QED
          BY <2>1, <2>2, <5>1, Zenon DEF PlaceOK
      <4> QED
        BY <4>1, <4>2, Zenon
    <3> QED
      BY <2>1, <3>2, <3>5, <3>6, Zenon
  <2>10. BlockOK(h, core)
    <3>1. AllCommitted(core, c.round, b)
      BY <2>2, <2>4, Zenon DEF CoreOK, AllCommitted
    <3>2. Done(c, Len(h), c.round)
      BY <2>3, <2>4, Zenon DEF Done
    <3>3. c.round \in Nat /\ Len(b) = Len(h)
      BY <2>2, <2>4, CoreFacts, Zenon
    <3> QED
      BY <2>4, <3>1, <3>2, <3>3, Zenon DEF BlockOK
  <2>11. \A g \in Known' : BlockOK(g, core')
    BY <2>1, <2>6, <2>10, Zenon DEF SmallInv
  <2>12. OneBranch(Known')
    <3>1. ASSUME NEW g \in Known, Len(g) = Len(h) PROVE g = h
      BY <2>3, <2>4, <3>1, <1>OneBlock, Zenon
    <3>2. ASSUME NEW i \in 0..Len(h) PROVE SubSeq(h, 1, i) \in Known'
      <4>1. CASE i = Len(h)
        BY <2>5, <2>6, <4>1, PrefixWhole, Zenon
      <4>2. CASE i # Len(h)
        <5>1. Parent(h) \in Known /\ Len(Parent(h)) = Len(h) - 1 /\ Len(h) \in Nat
              /\ \A j \in 0..(Len(h) - 1) : SubSeq(Parent(h), 1, j) = SubSeq(h, 1, j)
          BY <2>4, ParentFacts, ProposedFacts, Zenon DEF Known
        <5>2. i \in 0..(Len(h) - 1)
          BY <4>2, <5>1
        <5>3. SubSeq(Parent(h), 1, i) \in Known
          BY <2>2, <5>1, <5>2, Zenon DEF OneBranch
        <5> QED
          BY <2>6, <5>1, <5>2, <5>3, Zenon
      <4> QED
        BY <4>1, <4>2, Zenon
    <3>3. ASSUME NEW g \in Known', NEW e \in Known', Len(g) = Len(e) PROVE g = e
      <4>1. g \in Known \cup {h} /\ e \in Known \cup {h}
        BY <2>6, <3>3, Zenon
      <4>2. g \in Known /\ e \in Known => g = e
        BY <2>2, <3>3, Zenon DEF OneBranch
      <4> QED
        BY <3>1, <3>3, <4>1, <4>2, Zenon
    <3>4. ASSUME NEW g \in Known', NEW i \in 0..Len(g) PROVE SubSeq(g, 1, i) \in Known'
      <4>1. CASE g = h
        BY <3>2, <3>4, <4>1, Zenon
      <4>2. CASE g \in Known
        BY <2>2, <2>6, <3>4, <4>2, Zenon DEF OneBranch
      <4> QED
        BY <2>6, <3>4, <4>1, <4>2, Zenon
    <3> QED
      BY <3>3, <3>4, Zenon DEF OneBranch
  <2> QED
    BY <2>7, <2>8, <2>9, <2>11, <2>12, Zenon DEF SmallInv
<1> SUFFICES ASSUME N <= 3, LoopInv, BehindInv, SmallInv, LoopInv', [Next]_vars PROVE SmallInv'
  BY Zenon
<1>1. CASE UNCHANGED vars
  <2>1. UNCHANGED <<core, pc, out, chan, known, head, net, blocks>>
    BY <1>1, Zenon DEF vars, loopVars, storeVars
  <2>2. Known' = Known
    BY <2>1, Zenon DEF Known
  <2>3. ASSUME NEW v \in Validators PROVE Pool(v)' = Pool(v) /\ (PlaceOK(v) => PlaceOK(v)')
    <3>1. Pool(v)' = Pool(v)
      BY <2>1, Zenon DEF Pool
    <3> QED
      BY <2>1, <3>1, Zenon DEF PlaceOK
  <2>4. \A v \in Validators : StoreOK(v) => StoreOK(v)'
    BY <2>1, <2>2, Zenon DEF StoreOK
  <2> QED
    BY <2>1, <2>2, <2>3, <2>4, Zenon DEF SmallInv
<1>2. ASSUME NEW v \in Validators, LoopStep(v) \/ Timeout(v) \/ Deliver(v) PROVE SmallInv'
  <2>1. CASE StartInstance(v)
    BY <2>1, <1>StartSmall, Zenon
  <2>2. CASE Read(v)
    BY <2>2, <1>ReadSmall, Zenon
  <2>3. CASE Echo(v)
    BY <2>3, <1>EchoSmall, Zenon
  <2>4. CASE CommitBlock(v)
    BY <2>4, <1>CommitSmall, Zenon
  <2>5. CASE Timeout(v)
    BY <2>5, <1>TimeoutSmall, Zenon
  <2>6. ASSUME NEW m \in net[v], HandleQBFTMsg(v, m) PROVE SmallInv'
    BY <2>6, <1>ArriveSmall, Zenon
  <2>7. ASSUME NEW h \in blocks[v], HandleBlock(v, h) PROVE SmallInv'
    BY <2>7, <1>BlockSmall, Zenon
  <2> QED
    BY <1>2, <2>1, <2>2, <2>3, <2>4, <2>5, <2>6, <2>7, Zenon DEF LoopStep, Deliver
<1> QED
  BY <1>1, <1>2, Zenon DEF Next
-----------------------------------------------------------------------------
(* Chains *)

Small == N <= 3 => SmallInv

LEMMA SmallHolds == LoopSpec => [](LoopInv /\ BehindInv /\ Small)
<1>1. Init => Small
  BY SmallInit, Zenon DEF Small
<1>2. LoopInv /\ BehindInv /\ Small /\ LoopInv' /\ [Next]_vars => Small'
  BY SmallNext, Zenon DEF Small, N
<1> QED
  BY <1>1, <1>2, LoopInvInit, LoopInvNext, BehindInit, BehindNext, PTL DEF LoopSpec

\* The canonical chains of up to three validators agree wherever both have a
\* block, for any number of rounds and heights, any size of the channel and any
\* order of delivery: a later round only starts once everybody has asked for it
\* (handleRoundChange), and who asked for it has not committed (Timeout).
THEOREM ChainsNeverFork == LoopSpec => []ChainsAgree
<1>1. LoopInv /\ BehindInv /\ Small => ChainsAgree
  <2> SUFFICES ASSUME LoopInv, SmallInv, NEW u \in Validators, NEW v \in Validators,
                      NEW i \in DOMAIN head[u] \cap DOMAIN head[v]
               PROVE  head[u][i] = head[v][i]
    BY Zenon DEF Small, ChainsAgree
  <2> DEFINE a == head[u]
             b == head[v]
  <2>1. a \in Known /\ b \in Known /\ a \in Branches /\ b \in Branches
    BY Zenon DEF SmallInv, StoreOK, Known, LoopInv, LoopTypeOK
  <2> HIDE DEF a, b
  <2>2. i \in 0..Len(a) /\ i \in 0..Len(b) /\ i \in 1..i
    <3>1. i \in DOMAIN a /\ i \in DOMAIN b
      BY Zenon DEF a, b
    <3> QED
      BY <2>1, <3>1 DEF Branches
  <2>3. SubSeq(a, 1, i) \in Known /\ SubSeq(b, 1, i) \in Known
    BY <2>1, <2>2, Zenon DEF SmallInv, OneBranch
  <2>4. Len(SubSeq(a, 1, i)) = i /\ Len(SubSeq(b, 1, i)) = i
    BY <2>1, <2>2, PrefixFacts, Zenon
  <2>5. SubSeq(a, 1, i) = SubSeq(b, 1, i)
    BY <2>3, <2>4, Zenon DEF SmallInv, OneBranch
  <2>6. SubSeq(a, 1, i)[i] = a[i] /\ SubSeq(b, 1, i)[i] = b[i]
    BY <2>1, <2>2, PrefixFacts, Zenon
  <2>7. a[i] = b[i]
    BY <2>5, <2>6, Zenon
  <2> QED
    BY <2>7 DEF a, b
<1> QED
  BY <1>1, SmallHolds, PTL

\* The block that a core decides on has its parent in the store and the COMMITs of
\* everybody.
DecisionFits ==
  N <= 3 => \A v \in Validators : pc[v] = "Commit" =>
              /\ Parent(SealedHeader(core[v].proposal, core[v].commits)) \in known[v]
              /\ core[v].commits = Validators

\* AddBlock never refuses the block that a core decided on when there are up to
\* three validators, so CommitBlock does not end an instance without a block.
THEOREM DecisionsAccepted == LoopSpec => []DecisionFits
<1>1. LoopInv /\ BehindInv /\ Small => DecisionFits
  <2> SUFFICES ASSUME LoopInv, SmallInv, NEW v \in Validators, pc[v] = "Commit"
               PROVE  /\ Parent(SealedHeader(core[v].proposal, core[v].commits)) \in known[v]
                      /\ core[v].commits = Validators
    BY Zenon DEF Small, DecisionFits
  <2>1. core[v].state = "Committed"
    BY Zenon DEF SmallInv, PlaceOK
  <2> QED
    BY <2>1, DecidedFits, Zenon
<1> QED
  BY <1>1, SmallHolds, PTL
-----------------------------------------------------------------------------
(* Own votes *)

\* c is the core of v, q its channel and o what is still to be dispatched.
PrepareKept(v, c, q, o) ==
  c.state \in {"Prepared", "CommitSent"} =>
    v \in c.prepares \/ Queued(OwnVote("PREPARE", v, c), q, o)

PreparesInv == \A v \in Validators : PrepareKept(v, core[v], chan[v], out[v])

LEMMA PreparesInit == Init => PreparesInv
<1> SUFFICES ASSUME Init, NEW v \in Validators PROVE PrepareKept(v, core[v], chan[v], out[v])
  BY Zenon DEF PreparesInv
<1>1. core[v] = NewCore(<<>>, 0)
  BY Zenon DEF Init, Genesis
<1>2. NewCore(<<>>, 0).state = "New"
  BY DEF NewCore
<1> QED
  BY <1>1, <1>2 DEF PrepareKept

LEMMA PreparesNext ==
  N <= 3 /\ LoopInv /\ SmallInv /\ BehindInv /\ OwnInv /\ PreparesInv /\ [Next]_vars => PreparesInv'
<1>KeptStep.
    ASSUME PreparesInv, NEW v \in Validators, PrepareKept(v, core[v], chan[v], out[v])',
           \A u \in Validators \ {v} : core'[u] = core[u] /\ out'[u] = out[u]
                                       /\ chan'[u] = chan[u]
    PROVE  PreparesInv'
  <2> USE <1>KeptStep
  <2> SUFFICES ASSUME NEW u \in Validators PROVE PrepareKept(u, core[u], chan[u], out[u])'
    BY Zenon DEF PreparesInv
  <2>1. CASE u # v
    <3>1. PrepareKept(u, core[u], chan[u], out[u]) /\ core'[u] = core[u] /\ out'[u] = out[u]
          /\ chan'[u] = chan[u]
      BY <2>1, Zenon DEF PreparesInv
    <3> QED
      BY <3>1, Zenon DEF PrepareKept, Queued, OwnVote, Message
  <2> QED
    BY <2>1, Zenon
\* The loop of v goes on with the core d and broadcasts msgs.
<1>ContinueKept.
    ASSUME LoopTypeOK, PreparesInv, NEW v \in Validators, NEW d \in Cores, NEW msgs \in Seq(Messages),
           Continue(v, d, msgs), PrepareKept(v, d, chan'[v], msgs),
           \A u \in Validators \ {v} : chan'[u] = chan[u]
    PROVE  PreparesInv'
  <2> USE <1>ContinueKept
  <2>1. /\ core' = [core EXCEPT ![v] = d] /\ out' = [out EXCEPT ![v] = msgs]
        /\ core \in [Validators -> Cores] /\ out \in [Validators -> Seq(Messages)]
    BY Zenon DEF Continue, Dispatch, LoopTypeOK
  <2>2. core'[v] = d /\ out'[v] = msgs
    BY <2>1, Zenon
  <2>3. PrepareKept(v, core'[v], chan'[v], out'[v])
    BY <2>2, Zenon
  <2>4. PrepareKept(v, core[v], chan[v], out[v])'
    BY <2>3, Zenon DEF PrepareKept, Queued, OwnVote, Message
  <2>5. \A u \in Validators \ {v} : core'[u] = core[u] /\ out'[u] = out[u] /\ chan'[u] = chan[u]
    BY <2>1, Zenon
  <2> QED
    BY <2>4, <2>5, <1>KeptStep, Zenon
<1>EnterKept.
    ASSUME LoopTypeOK, PreparesInv, NEW v \in Validators, NEW p \in Branches, NEW r \in Nat,
           NEW prepared \in Proposed \cup {NoHeader}, EnterRound(v, p, r, prepared, {}),
           \A u \in Validators \ {v} : chan'[u] = chan[u]
    PROVE  PreparesInv'
  <2> USE <1>EnterKept
  <2> DEFINE h == RoundHeader(v, p, r, prepared)
             n == Len(p) + 1
             c == NewCore(p, r)
             d == [c EXCEPT !.state = "Prepared", !.proposal = h]
             a == Message("PROPOSAL", v, n, r, h)
             b == Message("PREPARE", v, n, r, h)
  <2>1. h \in Proposed /\ (Continue(v, d, <<a, b>>) \/ Continue(v, c, <<>>))
    BY EnterCases, Zenon
  <2> HIDE DEF h
  <2>2. NewAt(c, p, r)
    BY NewCoreFacts, Zenon
  <2> HIDE DEF c
  <2>3. c \in Cores /\ c.state = "New" /\ c.parent = p /\ c.round = r
    BY <2>2, Zenon DEF NewAt
  <2>4. Proposes(d, c, h)
    BY <2>1, <2>3, PreparedFacts, Zenon
  <2> HIDE DEF d
  <2>5. d \in Cores /\ d.parent = p /\ d.round = r /\ d.proposal = h
    BY <2>3, <2>4, Zenon DEF Proposes, SameRest
  <2>6. CASE Continue(v, c, <<>>)
    <3>1. <<>> \in Seq(Messages) /\ PrepareKept(v, c, chan'[v], <<>>)
      BY <2>3 DEF PrepareKept
    <3> QED
      BY <2>3, <2>6, <3>1, <1>ContinueKept, Zenon
  <2>7. CASE Continue(v, d, <<a, b>>)
    <3>1. a \in Messages /\ b \in Messages /\ b = OwnVote("PREPARE", v, d)
      <4>1. n \in Nat
        BY BranchLength
      <4>2. b = OwnVote("PREPARE", v, d)
        BY <2>5, Zenon DEF OwnVote
      <4> HIDE DEF n
      <4> QED
        BY <2>1, <4>1, <4>2, MessageTyped, Zenon DEF Types
    <3> HIDE DEF a, b
    <3>2. <<a, b>> \in Seq(Messages) /\ 2 \in DOMAIN <<a, b>> /\ <<a, b>>[2] = b
      BY <3>1
    <3>3. PrepareKept(v, d, chan'[v], <<a, b>>)
      BY <3>1, <3>2, Zenon DEF PrepareKept, Queued
    <3> QED
      BY <2>5, <2>7, <3>2, <3>3, <1>ContinueKept, Zenon
  <2> QED
    BY <2>1, <2>6, <2>7, Zenon
\* Reading the message m keeps the own PREPARE, which is counted if it is m.
<1>ReadVote.
    ASSUME NEW v \in Validators, NEW q \in Seq(Messages), q # <<>>, NEW c \in Cores, NEW d, NEW o,
           PrepareKept(v, c, q, <<>>), c.state \in {"Prepared", "CommitSent"},
           d.parent = c.parent, d.round = c.round, d.proposal = c.proposal,
           c.prepares \subseteq d.prepares,
           Head(q) = OwnVote("PREPARE", v, c) => v \in d.prepares
    PROVE  PrepareKept(v, d, Tail(q), o)
  <2> USE <1>ReadVote
  <2> DEFINE x == OwnVote("PREPARE", v, c)
  <2>1. x = OwnVote("PREPARE", v, d)
    BY Zenon DEF OwnVote
  <2>2. v \in c.prepares \/ Queued(x, q, <<>>)
    BY Zenon DEF PrepareKept
  <2>3. CASE Queued(x, q, <<>>) /\ x # Head(q)
    <3> HIDE DEF x
    <3>1. Queued(x, Tail(q), o)
      BY <2>3, TailQueued, Zenon
    <3> QED
      BY <2>1, <3>1, Zenon DEF PrepareKept
  <2> QED
    BY <2>2, <2>3, Zenon DEF PrepareKept
<1>ReadKept.
    ASSUME N <= 3, LoopInv, SmallInv, BehindInv, OwnInv, PreparesInv, NEW v \in Validators, Read(v)
    PROVE  PreparesInv'
  <2> USE <1>ReadKept
  <2> DEFINE m == Head(chan[v])
             c == core[v]
             q == chan[v]
  <2>1. /\ pc[v] = "Select" /\ q # <<>> /\ chan' = [chan EXCEPT ![v] = Tail(@)]
        /\ HandleProposal(v, m) \/ HandlePrepare(v, m) \/ HandleCommit(v, m) \/ HandleRoundChange(v, m)
    BY Zenon DEF Read
  <2>2. /\ c \in Cores /\ LoopTypeOK /\ chan \in [Validators -> Seq(Messages)]
        /\ core \in [Validators -> Cores] /\ out \in [Validators -> Seq(Messages)]
        /\ CoreOK(c, core, Known) /\ OwnAt(v) /\ PrepareKept(v, c, q, out[v])
    BY Zenon DEF LoopInv, LoopTypeOK, SmallInv, OwnInv, PreparesInv
  <2>3. q \in Seq(Messages)
    BY <2>2, Zenon
  <2>4. m \in Messages /\ 1 \in DOMAIN q /\ m = q[1]
    BY <2>1, <2>3
  <2>5. m \in Pool(v)
    BY <2>4, Zenon DEF Pool
  <2>6. PrepareKept(v, c, q, <<>>)
    BY <2>1, <2>2, Zenon DEF OwnAt
  <2>7. chan'[v] = Tail(q) /\ \A u \in Validators \ {v} : chan'[u] = chan[u]
    BY <2>1, <2>2, Zenon
  <2>8. \A x, y \in c.roundChanges : x.from = y.from => x = y
    BY <2>2, Zenon DEF CoreOK
  <2>9. m = OwnVote("PREPARE", v, c) =>
          m.type = "PREPARE" /\ m.from = v /\ (c.state # "New" => Counts(v, m))
    <3> DEFINE y == OwnVote("PREPARE", v, c)
    <3>1. /\ y.type = "PREPARE" /\ y.from = v /\ y.number = Len(c.parent) + 1
          /\ y.round = c.round /\ y.header = c.proposal
      BY DEF OwnVote, Message
    <3> HIDE DEF y, m
    <3>2. m = y => m.type = "PREPARE" /\ m.from = v /\ (c.state # "New" => Counts(v, m))
      BY <3>1, Zenon DEF Counts, Current, Height
    <3> QED
      BY <3>2 DEF y
  <2>10. <<>> \in Seq(Messages)
    OBVIOUS
  <2> HIDE DEF m
  <2>11. \/ \E d : Quiet(v, m, d) /\ Continue(v, d, <<>>)
         \/ \E d : /\ Accepts(v, m, d)
                   /\ Continue(v, d, <<Message("PREPARE", v, m.number, m.round, m.header)>>)
         \/ \E d : /\ Locks(v, m, d)
                   /\ Continue(v, d, <<Message("COMMIT", v, m.number, m.round, m.header)>>)
         \/ \E d : /\ Decides(v, m, d) /\ core' = [core EXCEPT ![v] = d]
                   /\ pc' = [pc EXCEPT ![v] = "Commit"] /\ UNCHANGED <<out, net>>
         \/ \E R, h : Moves(v, m, R, h)
    BY <2>1, <2>2, <2>4, <2>8, ReadCases, Zenon
  <2>12. ASSUME NEW d, Quiet(v, m, d), Continue(v, d, <<>>) PROVE PreparesInv'
    <3>1. /\ d \in Cores /\ d.parent = c.parent /\ d.round = c.round /\ d.state = c.state
          /\ d.proposal = c.proposal
          /\ d.prepares = IF m.type = "PREPARE" /\ Counts(v, m)
                          THEN c.prepares \cup {m.from} ELSE c.prepares
      BY <2>12, Zenon DEF Quiet
    <3>2. c.prepares \subseteq d.prepares
          /\ (c.state # "New" /\ m = OwnVote("PREPARE", v, c) => v \in d.prepares)
      BY <2>9, <3>1, Zenon
    <3>3. CASE c.state \in {"Prepared", "CommitSent"}
      <4>1. c.state # "New" /\ Head(q) = m
        BY <3>3, Zenon DEF m
      <4>2. PrepareKept(v, d, Tail(q), <<>>)
        BY <2>1, <2>2, <2>3, <2>6, <3>1, <3>2, <3>3, <4>1, <1>ReadVote, Zenon
      <4> QED
        BY <2>2, <2>7, <2>10, <2>12, <3>1, <4>2, <1>ContinueKept, Zenon
    <3>4. CASE c.state \notin {"Prepared", "CommitSent"}
      <4>1. PrepareKept(v, d, chan'[v], <<>>)
        BY <3>1, <3>4, Zenon DEF PrepareKept
      <4> QED
        BY <2>2, <2>7, <2>10, <2>12, <3>1, <4>1, <1>ContinueKept, Zenon
    <3> QED
      BY <3>3, <3>4, Zenon
  <2>13. ASSUME NEW d, Accepts(v, m, d),
                Continue(v, d, <<Message("PREPARE", v, m.number, m.round, m.header)>>)
         PROVE  PreparesInv'
    <3> DEFINE x == Message("PREPARE", v, m.number, m.round, m.header)
    <3>1. d \in Cores /\ x = OwnVote("PREPARE", v, d) /\ m.type = "PROPOSAL"
      BY <2>13, Zenon DEF Accepts, SameRest, Current, Height, OwnVote
    <3>2. x \in Messages
      BY <2>4, <3>1, MessageFacts, MessageTyped, Zenon DEF Types
    <3> HIDE DEF x
    <3>3. <<x>> \in Seq(Messages) /\ 1 \in DOMAIN <<x>> /\ <<x>>[1] = x
      BY <3>2
    <3>4. PrepareKept(v, d, chan'[v], <<x>>)
      BY <3>1, <3>3, Zenon DEF PrepareKept, Queued
    <3>5. Continue(v, d, <<x>>)
      BY <2>13 DEF x
    <3> QED
      BY <2>2, <2>7, <3>1, <3>3, <3>4, <3>5, <1>ContinueKept, Zenon
  <2>14. ASSUME NEW d, Locks(v, m, d),
                Continue(v, d, <<Message("COMMIT", v, m.number, m.round, m.header)>>)
         PROVE  PreparesInv'
    <3> DEFINE x == Message("COMMIT", v, m.number, m.round, m.header)
    <3>1. /\ d \in Cores /\ m.type = "PREPARE" /\ c.state = "Prepared" /\ d.parent = c.parent
          /\ d.round = c.round /\ d.proposal = c.proposal /\ d.prepares = c.prepares \cup {m.from}
      BY <2>14, Zenon DEF Locks, SameRest
    <3>2. x \in Messages
      BY <2>4, <3>1, MessageFacts, MessageTyped, Zenon DEF Types
    <3>3. Continue(v, d, <<x>>)
      BY <2>14
    <3> HIDE DEF x
    <3>4. <<x>> \in Seq(Messages)
      BY <3>2
    <3>5. c.prepares \subseteq d.prepares /\ (Head(q) = OwnVote("PREPARE", v, c) => v \in d.prepares)
          /\ c.state \in {"Prepared", "CommitSent"}
      BY <2>9, <3>1, Zenon DEF m
    <3>6. PrepareKept(v, d, Tail(q), <<x>>)
      BY <2>1, <2>2, <2>3, <2>6, <3>1, <3>5, <1>ReadVote, Zenon
    <3> QED
      BY <2>2, <2>7, <3>1, <3>3, <3>4, <3>6, <1>ContinueKept, Zenon
  <2>15. ASSUME NEW d, Decides(v, m, d), core' = [core EXCEPT ![v] = d], UNCHANGED <<out, net>>
         PROVE  PreparesInv'
    <3>1. core'[v] = d /\ d.state = "Committed"
      BY <2>2, <2>15, Zenon DEF Decides
    <3>2. PrepareKept(v, core[v], chan[v], out[v])'
      BY <3>1, Zenon DEF PrepareKept
    <3>3. \A u \in Validators \ {v} : core'[u] = core[u] /\ out'[u] = out[u] /\ chan'[u] = chan[u]
      BY <2>2, <2>7, <2>15, Zenon
    <3> QED
      BY <3>2, <3>3, <1>KeptStep, Zenon
  <2>16. ASSUME NEW R, NEW h, Moves(v, m, R, h) PROVE PreparesInv'
    <3>1. Entered(v, m, R, h)
      BY <2>4, <2>5, <2>16, MovesFacts, Zenon
    <3>2. EnterRound(v, c.parent, m.round, h, {}) /\ h \in Proposed \cup {NoHeader}
      BY <3>1, Zenon DEF Entered, Carried
    <3>3. c.parent \in Branches /\ m.round \in Nat
      BY <2>2, <2>4, CoreFacts, MessageFacts, Zenon
    <3> QED
      BY <2>2, <2>7, <3>2, <3>3, <1>EnterKept, Zenon
  <2> QED
    BY <2>11, <2>12, <2>13, <2>14, <2>15, <2>16, Zenon
\* Steps that leave the core and the dispatch alone.
<1>AppendKept.
    ASSUME LoopTypeOK, PreparesInv, UNCHANGED <<core, out>>,
           \A u \in Validators : \/ chan'[u] = chan[u]
                                 \/ \E m \in Messages : chan'[u] = Append(chan[u], m)
    PROVE  PreparesInv'
  <2> USE <1>AppendKept
  <2> SUFFICES ASSUME NEW u \in Validators PROVE PrepareKept(u, core[u], chan[u], out[u])'
    BY Zenon DEF PreparesInv
  <2>1. PrepareKept(u, core[u], chan[u], out[u]) /\ chan[u] \in Seq(Messages)
    BY Zenon DEF PreparesInv, LoopTypeOK
  <2>2. \A x : Queued(x, chan[u], out[u]) => Queued(x, chan'[u], out[u])
    BY <2>1, AppendQueued, Zenon
  <2>3. PrepareKept(u, core[u], chan'[u], out[u])
    BY <2>1, <2>2, Zenon DEF PrepareKept
  <2> QED
    BY <2>3, Zenon DEF PrepareKept, Queued, OwnVote, Message
<1>EchoKept.
    ASSUME LoopInv, PreparesInv, NEW v \in Validators, Echo(v)
    PROVE  PreparesInv'
  <2> USE <1>EchoKept
  <2> DEFINE m == Head(out[v])
             rest == Tail(out[v])
  <2>0. /\ LoopTypeOK /\ LoopAt(v) /\ out[v] \in Seq(Messages) /\ chan[v] \in Seq(Messages)
        /\ chan \in [Validators -> Seq(Messages)] /\ core[v] \in Cores
    BY Zenon DEF LoopInv, LoopTypeOK
  <2>1. /\ out[v] # <<>> /\ chan' = [chan EXCEPT ![v] = Append(@, m)]
        /\ Dispatch(v, rest) /\ UNCHANGED core
    BY <2>0, Zenon DEF Echo, LoopAt
  <2>2. m \in Messages /\ rest \in Seq(Messages)
    BY <2>0, <2>1
  <2>3. chan'[v] = Append(chan[v], m) /\ \A u \in Validators \ {v} : chan'[u] = chan[u]
    BY <2>0, <2>1, Zenon
  <2>4. ASSUME NEW x, Queued(x, chan[v], out[v]) PROVE Queued(x, chan'[v], rest)
    <3>1. CASE x = m
      BY <2>0, <2>2, <2>3, <3>1, AppendQueued, Zenon
    <3>2. CASE x # m /\ Queued(x, chan[v], <<>>)
      <4>1. Queued(x, chan[v], rest)
        BY <3>2 DEF Queued
      <4> HIDE DEF m, rest
      <4> QED
        BY <2>0, <2>2, <2>3, <4>1, AppendQueued, Zenon
    <3>3. CASE x # m /\ Queued(x, out[v], <<>>)
      <4>1. Queued(x, rest, <<>>)
        BY <2>0, <2>1, <3>3, TailQueued, Zenon
      <4> HIDE DEF rest
      <4> QED
        BY <4>1 DEF Queued
    <3> QED
      BY <2>4, <3>1, <3>2, <3>3, Zenon DEF Queued
  <2> HIDE DEF m, rest
  <2>5. PrepareKept(v, core[v], chan'[v], rest)
    BY <2>4, Zenon DEF PreparesInv, PrepareKept
  <2>6. Continue(v, core[v], rest)
    BY <2>0, <2>1, Zenon DEF Continue, LoopTypeOK
  <2> QED
    BY <2>0, <2>2, <2>3, <2>5, <2>6, <1>ContinueKept, Zenon
<1>TimeoutKept.
    ASSUME LoopInv, PreparesInv, NEW v \in Validators, Timeout(v)
    PROVE  PreparesInv'
  <2> USE <1>TimeoutKept
  <2> DEFINE c == core[v]
             prepared == IF c.state = "New" THEN NoHeader ELSE c.proposal
             d == [c EXCEPT !.state = "RoundChange"]
             x == Message("ROUND_CHANGE", v, Height(v), c.round + 1, prepared)
  <2>0. LoopTypeOK /\ c \in Cores
    BY Zenon DEF LoopInv, LoopTypeOK
  <2>1. Continue(v, d, <<x>>) /\ chan' = chan
    BY Zenon DEF Timeout
  <2>2. x \in Messages
    <3>1. Height(v) \in Nat /\ c.round + 1 \in Nat /\ prepared \in Proposed \cup {NoHeader}
      BY <2>0 DEF Height, Cores, Branches
    <3> QED
      BY <3>1, MessageTyped, Zenon DEF Types
  <2>3. d \in Cores /\ d.state = "RoundChange"
    <3> HIDE DEF c
    <3> QED
      BY <2>0, Zenon DEF Cores
  <2> HIDE DEF d, x
  <2>4. <<x>> \in Seq(Messages) /\ PrepareKept(v, d, chan'[v], <<x>>)
    BY <2>2, <2>3 DEF PrepareKept
  <2> QED
    BY <2>0, <2>1, <2>3, <2>4, <1>ContinueKept, Zenon
<1> SUFFICES ASSUME N <= 3, LoopInv, SmallInv, BehindInv, OwnInv, PreparesInv, [Next]_vars
             PROVE  PreparesInv'
  BY Zenon
<1>0. LoopTypeOK /\ chan \in [Validators -> Seq(Messages)]
  BY Zenon DEF LoopInv, LoopTypeOK
<1>1. CASE UNCHANGED vars
  BY <1>0, <1>1, <1>AppendKept, Zenon DEF vars, loopVars
<1>2. ASSUME NEW v \in Validators, StartInstance(v) PROVE PreparesInv'
  <2>1. EnterRound(v, head[v], 0, NoHeader, {}) /\ chan' = chan /\ head[v] \in Branches
    BY <1>0, <1>2, Zenon DEF StartInstance, LoopTypeOK
  <2>2. 0 \in Nat /\ NoHeader \in Proposed \cup {NoHeader}
    BY Zenon
  <2> QED
    BY <1>0, <2>1, <2>2, <1>EnterKept, Zenon
<1>3. ASSUME NEW v \in Validators, CommitBlock(v) PROVE PreparesInv'
  <2>1. UNCHANGED <<core, out, chan>>
    BY <1>3, Zenon DEF CommitBlock
  <2> QED
    BY <1>0, <2>1, <1>AppendKept, Zenon
<1>4. ASSUME NEW v \in Validators, NEW m \in net[v], HandleQBFTMsg(v, m) PROVE PreparesInv'
  <2>1. /\ chan' = [chan EXCEPT ![v] = Append(@, m)] \/ chan' = chan
        /\ UNCHANGED <<core, pc, out>> /\ m \in Messages
    BY <1>0, <1>4, Zenon DEF HandleQBFTMsg, LoopTypeOK
  <2>2. \A u \in Validators : chan'[u] = chan[u] \/ chan'[u] = Append(chan[u], m)
    BY <1>0, <2>1, Zenon
  <2> QED
    BY <1>0, <2>1, <2>2, <1>AppendKept, Zenon
<1>5. ASSUME NEW v \in Validators, NEW h \in blocks[v], HandleBlock(v, h) PROVE PreparesInv'
  <2>1. UNCHANGED <<core, out, chan>>
    BY <1>5, Zenon DEF HandleBlock, loopVars
  <2> QED
    BY <1>0, <2>1, <1>AppendKept, Zenon
<1> QED
  BY <1>1, <1>2, <1>3, <1>4, <1>5, <1>ReadKept, <1>EchoKept, <1>TimeoutKept, Zenon
     DEF Next, LoopStep, Deliver

Prepares == N <= 3 => PreparesInv

\* Where everybody's vote is needed, the own votes of a validator are counted by
\* its core or on their way to it, in every round: with up to three validators
\* no proposal ever waits in the backlog for the round it is replayed in, so
\* that runQBFTInstance drops no PREPARE.  For any number of rounds and heights,
\* size of the channel and order of delivery.
THEOREM OwnVotesNeverLost ==
  ASSUME N <= 3
  PROVE  LoopSpec => []OwnVotesKept
<1>1. Init => Prepares
  BY PreparesInit, Zenon DEF Prepares
<1>2. LoopInv /\ BehindInv /\ Small /\ OwnInv /\ Prepares /\ [Next]_vars => Prepares'
  BY PreparesNext, Zenon DEF Small, Prepares
<1>3. OwnInv /\ Prepares => OwnVotesKept
  <2> SUFFICES ASSUME OwnInv, PreparesInv PROVE OwnVotesKept
    BY Zenon DEF Prepares
  <2> SUFFICES ASSUME NEW v \in Validators
               PROVE  LET c == core[v]
                          pending == {chan[v][i] : i \in DOMAIN chan[v]}
                                       \cup {out[v][i] : i \in DOMAIN out[v]}
                          Kept(type, counted) ==
                            \/ v \in counted
                            \/ Message(type, v, Height(v), c.round, c.proposal) \in pending
                      IN  /\ c.state \in {"Prepared", "CommitSent"} => Kept("PREPARE", c.prepares)
                          /\ c.state = "CommitSent" => Kept("COMMIT", c.commits)
    BY Zenon DEF OwnVotesKept
  <2>1. PrepareKept(v, core[v], chan[v], out[v]) /\ OwnKept(v, core[v], chan[v], out[v])
    BY Zenon DEF PreparesInv, OwnInv, OwnAt
  <2> DEFINE a == Message("PREPARE", v, Height(v), core[v].round, core[v].proposal)
             b == Message("COMMIT", v, Height(v), core[v].round, core[v].proposal)
  <2>2. a = OwnVote("PREPARE", v, core[v]) /\ b = OwnVote("COMMIT", v, core[v])
    BY Zenon DEF OwnVote, Height
  <2> HIDE DEF a, b
  <2>3. \A x : Queued(x, chan[v], out[v]) =>
                 x \in {chan[v][i] : i \in DOMAIN chan[v]} \cup {out[v][i] : i \in DOMAIN out[v]}
    BY Zenon DEF Queued
  <2> DEFINE pending == {chan[v][i] : i \in DOMAIN chan[v]}
                          \cup {out[v][i] : i \in DOMAIN out[v]}
  <2>4. /\ core[v].state \in {"Prepared", "CommitSent"} => v \in core[v].prepares \/ a \in pending
        /\ core[v].state = "CommitSent" => v \in core[v].commits \/ b \in pending
    BY <2>1, <2>2, <2>3, Zenon DEF PrepareKept, OwnKept
  <2> QED
    BY <2>4, Zenon DEF a, b
<1> QED
  BY <1>1, <1>2, <1>3, SmallHolds, OwnInit, OwnNext, PTL DEF LoopSpec
=============================================================================
