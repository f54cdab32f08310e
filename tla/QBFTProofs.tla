----------------------------- MODULE QBFTProofs -----------------------------
(***************************************************************************)
(* Safety of the QBFT protocol for every set of validators, every height,  *)
(* every number of rounds and every set of payloads: validators that       *)
(* commit in the same round commit the same block, and a committed block   *)
(* is the only one that is proposed in the next round.                     *)
(*                                                                         *)
(* The second half proves that the core with its maps, QBFTCore, does what *)
(* the protocol does, for every choice of the detailed cores, every bound  *)
(* on rounds and on the backlog, with and without redelivery.  What was    *)
(* proved about the protocol then holds of the core.                       *)
(***************************************************************************)
EXTENDS QBFTCore, FiniteSetTheorems, TLAPS

-----------------------------------------------------------------------------
(* Quorums *)

LEMMA QuorumFacts ==
  /\ N \in Nat /\ N > 0
  /\ Quorum \in Nat
  /\ IsFiniteSet(Unreliable) /\ Cardinality(Unreliable) \in Nat
<1>1. N \in Nat /\ N > 0
  BY ValidatorsAssumption, FS_CardinalityType, FS_EmptySet DEF N
<1>2. IsFiniteSet(Unreliable) /\ Cardinality(Unreliable) \in Nat
  BY ValidatorsAssumption, FS_Subset, FS_CardinalityType, Zenon
<1> QED
  BY <1>1, <1>2 DEF Quorum

\* Two quorums of Engine.Quorum validators share one that is not interrupted.
LEMMA QuorumsShareReliable ==
  ASSUME NEW A \in SUBSET Validators, NEW B \in SUBSET Validators,
         Cardinality(A) >= Quorum, Cardinality(B) >= Quorum
  PROVE  \E w \in Reliable : w \in A /\ w \in B
<1>1. IsFiniteSet(A) /\ IsFiniteSet(B) /\ IsFiniteSet(A \cap B)
  BY ValidatorsAssumption, FS_Subset, FS_Intersection, Zenon
<1>2. /\ Cardinality(A) \in Nat /\ Cardinality(B) \in Nat
      /\ Cardinality(A \cap B) \in Nat
  BY <1>1, FS_CardinalityType, Zenon
<1>3. Cardinality(A \cup B) = Cardinality(A) + Cardinality(B) - Cardinality(A \cap B)
  BY <1>1, FS_Union, Zenon
<1>4. Cardinality(A \cup B) <= N
  <2>1. A \cup B \in SUBSET Validators
    BY Zenon
  <2> QED
    BY <2>1, ValidatorsAssumption, FS_Subset, Zenon DEF N
<1>5. Cardinality(A \cap B) > Cardinality(Unreliable)
  BY <1>2, <1>3, <1>4, QuorumFacts, FaultAssumption
<1>6. ~(A \cap B \subseteq Unreliable)
  <2> SUFFICES ASSUME A \cap B \in SUBSET Unreliable PROVE FALSE
    BY Zenon
  <2>1. Cardinality(A \cap B) <= Cardinality(Unreliable)
    BY QuorumFacts, FS_Subset, Zenon
  <2> QED
    BY <2>1, <1>2, <1>5, QuorumFacts
<1> QED
  BY <1>6, Zenon DEF Reliable

-----------------------------------------------------------------------------
(* Blocks *)

LEMMA ZeroRound == 0 \in Rounds /\ Rounds \subseteq Nat
  BY BoundsAssumption DEF Rounds

LEMMA BlocksAreBlocks == NoBlock \notin Blocks
  BY BoundsAssumption, Zenon

LEMMA ProposalBlocksType ==
  ASSUME NEW v \in Validators, NEW r \in Rounds, NEW prep \in Blocks \cup {NoBlock},
         NEW b \in ProposalBlocks(v, r, prep)
  PROVE  /\ b \in Blocks
         /\ prep # NoBlock => Body(b) = Body(prep)
<1>1. CASE prep = NoBlock
  BY <1>1, ZeroRound DEF ProposalBlocks, FreshBlock, Blocks
<1>2. CASE prep # NoBlock
  <2>1. b = ReusedBlock(prep, r, v) /\ prep \in Blocks
    BY <1>2, Zenon DEF ProposalBlocks
  <2> QED
    BY <2>1, Zenon DEF ReusedBlock, Blocks, Body
<1> QED
  BY <1>1, <1>2, Zenon

LEMMA HighestPreparedType ==
  ASSUME NEW R \in SUBSET RoundChanges, NEW prep \in HighestPrepared(R)
  PROVE  prep \in Blocks \cup {NoBlock}
  BY Zenon DEF HighestPrepared, PreparedIn, RoundChanges

LEMMA CertificatesType ==
  ASSUME TypeOK, NEW r, NEW R \in Certificates(r)
  PROVE  /\ R \in SUBSET RoundChanges
         /\ \A m \in R : m \in sent /\ m.type = "ROUND_CHANGE" /\ m.round = r
         /\ {m.from : m \in R} \in SUBSET Validators
         /\ Cardinality({m.from : m \in R}) = Quorum
<1>1. \A m \in R : m \in sent /\ m.type = "ROUND_CHANGE" /\ m.round = r
  BY Zenon DEF Certificates, Sent
<1>2. R \in SUBSET RoundChanges
  BY <1>1, Zenon DEF TypeOK, Proposals, Votes
<1>3. {m.from : m \in R} \in SUBSET Validators
  BY <1>2, Zenon DEF RoundChanges
<1> QED
  BY <1>1, <1>2, <1>3, Zenon DEF Certificates

LEMMA ProposerValid ==
  ASSUME NEW r \in Rounds
  PROVE  Proposer(r) \in Validators
<1>1. (Height + r) % N \in 0..(N - 1)
  BY QuorumFacts, BoundsAssumption, ZeroRound
<1>2. ((Height + r) % N) + 1 \in 1..N
  BY <1>1, QuorumFacts
<1> QED
  BY <1>2, ValidatorsAssumption, Zenon DEF Proposer

-----------------------------------------------------------------------------
(* The steps of a validator, by their effect on the state *)

\* When the round loop creates a Core for round r: at the start of an instance,
\* or in a round above the current one.
Moves(v, r) ==
  \/ state[v] = "Idle" /\ r = 0
  \/ Running(v) /\ round[v] < r

Justified(v, r, b) ==
  \E R \in Certificates(r) : \E prep \in HighestPrepared(R) :
    b \in ProposalBlocks(v, r, prep)

Proposes(v, r, b) ==
  /\ Moves(v, r) /\ v = Proposer(r)
  /\ r > 0 => Justified(v, r, b)
  /\ StartProposer(v, r, b)

Awaits(v, r) == Moves(v, r) /\ AwaitProposal(v, r)

Replays(v, m) == Moves(v, m.round) /\ ReplayBacklog(v, m)

Stops(v) == state[v] # "Committed" /\ Abandon(v)

\* Every step of the protocol has one of eight effects.
LEMMA StepEffects ==
  ASSUME TypeOK, NEW v \in Validators, Step(v)
  PROVE  \/ \E r \in Rounds, b \in Blocks : Proposes(v, r, b)
         \/ \E r \in Rounds : Awaits(v, r)
         \/ \E m \in sent : m.type = "PROPOSAL" /\ Replays(v, m)
         \/ \E m \in sent : m.type = "PROPOSAL" /\ m.round = round[v] /\ HandleProposal(v, m)
         \/ SendCommit(v)
         \/ CommitBlock(v)
         \/ Timeout(v)
         \/ Stops(v)
<1>1. CASE StartInstance(v)
  <2>1. state[v] = "Idle" /\ EnterRound(v, 0, NoBlock)
    BY <1>1, Zenon DEF StartInstance
  <2>2. Moves(v, 0)
    BY <2>1, Zenon DEF Moves
  <2>3. CASE v = Proposer(0)
    <3>1. PICK b \in ProposalBlocks(v, 0, NoBlock) : StartProposer(v, 0, b)
      BY <2>1, <2>3, Zenon DEF EnterRound
    <3>2. b \in Blocks
      BY <3>1, ZeroRound, ProposalBlocksType, Zenon
    <3>3. Proposes(v, 0, b)
      BY <2>2, <2>3, <3>1 DEF Proposes
    <3> QED
      BY <3>2, <3>3, ZeroRound, Zenon
  <2>4. CASE v # Proposer(0)
    BY <2>1, <2>2, <2>4, ZeroRound DEF EnterRound, Awaits
  <2> QED
    BY <2>3, <2>4, Zenon
<1>2. CASE \E r \in Rounds : StartRound(v, r)
  <2>1. PICK r \in Rounds : StartRound(v, r)
    BY <1>2, Zenon
  <2>2. PICK R \in Certificates(r) : \E prep \in HighestPrepared(R) :
               \/ EnterRound(v, r, prep)
               \/ v = Proposer(r) /\ prep = NoBlock /\ Abandon(v)
    BY <2>1, Zenon DEF StartRound
  <2>3. PICK prep \in HighestPrepared(R) :
               \/ EnterRound(v, r, prep)
               \/ v = Proposer(r) /\ prep = NoBlock /\ Abandon(v)
    BY <2>2, Zenon
  <2>4. prep \in Blocks \cup {NoBlock}
    BY CertificatesType, HighestPreparedType, Zenon
  <2>5. Moves(v, r) /\ state[v] # "Committed"
    BY <2>1, Zenon DEF StartRound, Moves, Running
  <2>6. CASE EnterRound(v, r, prep) /\ v = Proposer(r)
    <3>1. PICK b \in ProposalBlocks(v, r, prep) : StartProposer(v, r, b)
      BY <2>6, Zenon DEF EnterRound
    <3>2. b \in Blocks
      BY <2>4, ProposalBlocksType, Zenon
    <3>3. Proposes(v, r, b)
      BY <2>5, <2>6, <3>1, Zenon DEF Proposes, Justified
    <3> QED
      BY <3>2, <3>3, Zenon
  <2>7. CASE EnterRound(v, r, prep) /\ v # Proposer(r) /\ AwaitProposal(v, r)
    BY <2>5, <2>7, Zenon DEF Awaits
  <2>8. CASE \E m \in Sent("PROPOSAL", r) : ReplayBacklog(v, m)
    BY <2>5, <2>8, Zenon DEF Replays, Sent
  <2>9. CASE Abandon(v)
    BY <2>5, <2>9, Zenon DEF Stops
  <2> QED
    BY <2>3, <2>6, <2>7, <2>8, <2>9, Zenon DEF EnterRound
<1>3. CASE Crash(v)
  BY <1>3, Zenon DEF Crash, Running, Stops
<1>4. CASE \E m \in Sent("PROPOSAL", round[v]) : HandleProposal(v, m)
  BY <1>4, Zenon DEF Sent
<1> QED
  BY <1>1, <1>2, <1>3, <1>4, Zenon DEF Step

-----------------------------------------------------------------------------
(* Type correctness *)

LEMMA MessageTypes ==
  ASSUME TypeOK, NEW m \in sent
  PROVE  /\ m.type = "PROPOSAL" => m \in Proposals
         /\ m.type \in {"PREPARE", "COMMIT"} => m \in Votes
         /\ m.type = "ROUND_CHANGE" => m \in RoundChanges
  BY Zenon DEF TypeOK, Proposals, Votes, RoundChanges

\* The messages that the constructors build are of the declared types.
LEMMA MessageConstructors ==
  ASSUME NEW v \in Validators, NEW r \in Rounds
  PROVE  /\ \A b \in Blocks : /\ Proposal(v, r, b) \in Proposals
                            /\ Prepare(v, r, b) \in Votes
                            /\ Commit(v, r, b) \in Votes
         /\ \A b \in Blocks \cup {NoBlock}, pr \in Rounds :
              RoundChange(v, r + 1, pr, b) \in RoundChanges
<1>1. r + 1 \in 1..(MaxRound + 1)
  BY BoundsAssumption DEF Rounds
<1> QED
  BY <1>1, ZeroRound, Zenon
     DEF Proposal, Prepare, Commit, RoundChange, Proposals, Votes, RoundChanges

\* A quorum is not empty: a block that was voted for is a block.
LEMMA VotedBlock ==
  ASSUME TypeOK, NEW t \in {"PREPARE", "COMMIT"}, NEW r, NEW b, Voted(t, r, b)
  PROVE  b \in Blocks
<1>1. Quorum > 0
  BY QuorumFacts DEF Quorum
<1>2. Voters(t, r, b) # {}
  BY <1>1, QuorumFacts, FS_EmptySet DEF Voted
<1>3. PICK w \in Validators : [type |-> t, from |-> w, round |-> r, block |-> b] \in sent
  BY <1>2, Zenon DEF Voters
<1> QED
  BY <1>3, MessageTypes, Zenon DEF Votes

LEMMA TypeInit == Init => TypeOK
  BY ZeroRound, Zenon DEF Init, TypeOK, States

LEMMA TypeNext == TypeOK /\ [Next]_vars => TypeOK'
<1> SUFFICES ASSUME TypeOK, [Next]_vars PROVE TypeOK'
  BY Zenon
<1>1. CASE UNCHANGED vars
  BY <1>1, Zenon DEF vars, TypeOK
<1>2. ASSUME NEW v \in Validators, Step(v) PROVE TypeOK'
  <2>1. ASSUME NEW r \in Rounds, NEW b \in Blocks, Proposes(v, r, b) PROVE TypeOK'
    BY <2>1, MessageConstructors DEF Proposes, StartProposer, TypeOK, States
  <2>2. ASSUME NEW r \in Rounds, Awaits(v, r) PROVE TypeOK'
    BY <2>2, Zenon DEF Awaits, AwaitProposal, TypeOK, States
  <2>3. ASSUME NEW m \in sent, m.type = "PROPOSAL", Replays(v, m) PROVE TypeOK'
    <3>1. m.round \in Rounds /\ m.block \in Blocks
      BY <2>3, MessageTypes, Zenon DEF Proposals
    <3> QED
      BY <2>3, <3>1, Zenon DEF Replays, ReplayBacklog, TypeOK, States
  <2>4. ASSUME NEW m \in sent, m.type = "PROPOSAL", HandleProposal(v, m) PROVE TypeOK'
    <3>1. m.block \in Blocks
      BY <2>4, MessageTypes, Zenon DEF Proposals
    <3>2. Prepare(v, round[v], m.block) \in Votes
      BY <3>1, MessageConstructors, Zenon DEF TypeOK
    <3> QED
      BY <2>4, <3>1, <3>2, Zenon DEF HandleProposal, TypeOK, States
  <2>5. CASE SendCommit(v)
    <3>1. proposal[v] \in Blocks
      BY <2>5, VotedBlock, Zenon DEF SendCommit
    <3>2. Commit(v, round[v], proposal[v]) \in Votes
      BY <3>1, MessageConstructors, Zenon DEF TypeOK
    <3> QED
      BY <2>5, <3>2, Zenon DEF SendCommit, TypeOK, States
  <2>6. CASE CommitBlock(v)
    BY <2>6, Zenon DEF CommitBlock, TypeOK, States
  <2>7. CASE Timeout(v)
    <3> DEFINE pr == IF state[v] # "New" THEN round[v] ELSE 0
               b == IF state[v] # "New" THEN proposal[v] ELSE NoBlock
    <3>1. round[v] \in Rounds /\ pr \in Rounds /\ b \in Blocks \cup {NoBlock}
      BY ZeroRound, Zenon DEF TypeOK
    <3>2. RoundChange(v, round[v] + 1, pr, b) \in RoundChanges
      BY <3>1, MessageConstructors, Zenon
    <3>3. sent' = sent \cup {RoundChange(v, round[v] + 1, pr, b)}
      BY <2>7, Zenon DEF Timeout
    <3> QED
      BY <2>7, <3>2, <3>3, Zenon DEF Timeout, TypeOK, States
  <2>8. CASE Stops(v)
    BY <2>8, ZeroRound, Zenon DEF Stops, Abandon, TypeOK, States
  <2> QED
    BY <1>2, <2>1, <2>2, <2>3, <2>4, <2>5, <2>6, <2>7, <2>8, StepEffects, Zenon
<1> QED
  BY <1>1, <1>2, Zenon DEF Next

\* Every variable keeps its type: the rounds, states and proposals that the
\* round loop and the core assign, and the messages that they broadcast.
THEOREM TypeCorrect == Spec => []TypeOK
  BY TypeInit, TypeNext, PTL DEF Spec

-----------------------------------------------------------------------------
(* The parts of the inductive invariant *)

LEMMA SentGrows ==
  ASSUME TypeOK, NEW v \in Validators, Step(v)
  PROVE  sent \subseteq sent'
  BY StepEffects, Zenon
     DEF Proposes, StartProposer, Awaits, AwaitProposal, Replays, ReplayBacklog,
         HandleProposal, SendCommit, CommitBlock, Timeout, Stops, Abandon

LEMMA VotedGrows ==
  ASSUME sent \subseteq sent', NEW CONSTANT t, NEW CONSTANT r, NEW CONSTANT b,
         Voted(t, r, b)
  PROVE  Voted(t, r, b)'
<1>1. Voters(t, r, b) \in SUBSET Voters(t, r, b)'
  BY Zenon DEF Voters
<1>2. Voters(t, r, b)' \in SUBSET Validators
  BY Zenon DEF Voters
<1>3. /\ IsFiniteSet(Voters(t, r, b)')
      /\ IsFiniteSet(Voters(t, r, b))
  BY <1>1, <1>2, ValidatorsAssumption, FS_Subset, Zenon
<1>4. Cardinality(Voters(t, r, b)) <= Cardinality(Voters(t, r, b)')
  BY <1>1, <1>3, FS_Subset, Zenon
<1>5. /\ Cardinality(Voters(t, r, b)) \in Nat
      /\ Cardinality(Voters(t, r, b)') \in Nat
  BY <1>3, FS_CardinalityType, Zenon
<1> QED
  BY <1>4, <1>5, QuorumFacts DEF Voted

\* The rounds of messages and of validators are numbers.
LEMMA RoundsAreNumbers ==
  ASSUME TypeOK
  PROVE  /\ \A v \in Validators : round[v] \in Nat
         /\ \A m \in sent : m.round \in Nat /\ m.from \in Validators
<1>1. \A v \in Validators : round[v] \in Nat
  BY ZeroRound, Zenon DEF TypeOK
<1>2. ASSUME NEW m \in sent
      PROVE  m.round \in Nat /\ m.from \in Validators
  <2>1. CASE m \in Proposals
    BY <2>1, ZeroRound, Zenon DEF Proposals
  <2>2. CASE m \in Votes
    BY <2>2, ZeroRound, Zenon DEF Votes
  <2>3. CASE m \in RoundChanges
    BY <2>3, BoundsAssumption DEF RoundChanges
  <2> QED
    BY <2>1, <2>2, <2>3, Zenon DEF TypeOK
<1> QED
  BY <1>1, <1>2, Zenon

\* The effect of a step of v on v, and on nobody else.
After(v, r, s, b, out) ==
  /\ round'[v] = r /\ state'[v] = s /\ proposal'[v] = b
  /\ sent' = sent \cup out

LEMMA Frame ==
  ASSUME TypeOK, NEW v \in Validators, Step(v), NEW u \in Validators, u # v
  PROVE  round'[u] = round[u] /\ state'[u] = state[u] /\ proposal'[u] = proposal[u]
  BY StepEffects
     DEF TypeOK, Proposes, StartProposer, Awaits, AwaitProposal, Replays, ReplayBacklog,
         HandleProposal, SendCommit, CommitBlock, Timeout, Stops, Abandon

LEMMA LocalEffects ==
  ASSUME TypeOK, NEW v \in Validators, Step(v)
  PROVE  \/ \E r \in Rounds, b \in Blocks :
              /\ Moves(v, r) /\ v = Proposer(r) /\ (r > 0 => Justified(v, r, b))
              /\ After(v, r, "Prepared", b, {Proposal(v, r, b), Prepare(v, r, b)})
         \/ \E r \in Rounds : Moves(v, r) /\ After(v, r, "New", NoBlock, {})
         \/ \E m \in sent : /\ m.type = "PROPOSAL" /\ Moves(v, m.round)
                            /\ After(v, m.round, "Prepared", m.block, {})
         \/ \E m \in sent : /\ m.type = "PROPOSAL" /\ m.round = round[v] /\ state[v] = "New"
                            /\ After(v, round[v], "Prepared", m.block,
                                     {Prepare(v, round[v], m.block)})
         \/ /\ state[v] = "Prepared" /\ Voted("PREPARE", round[v], proposal[v])
            /\ After(v, round[v], "CommitSent", proposal[v],
                     {Commit(v, round[v], proposal[v])})
         \/ /\ state[v] \in {"Prepared", "CommitSent", "RoundChange"}
            /\ Voted("COMMIT", round[v], proposal[v])
            /\ After(v, round[v], "Committed", proposal[v], {})
         \/ /\ state[v] = "New"
            /\ After(v, round[v], "RoundChange", proposal[v],
                     {RoundChange(v, round[v] + 1, 0, NoBlock)})
         \/ /\ state[v] \in {"Prepared", "CommitSent"}
            /\ After(v, round[v], "RoundChange", proposal[v],
                     {RoundChange(v, round[v] + 1, round[v], proposal[v])})
         \/ /\ v \in Unreliable /\ state[v] # "Committed"
            /\ After(v, 0, "Idle", NoBlock, {})
<1> USE DEF After
<1>1. CASE \E r \in Rounds, b \in Blocks : Proposes(v, r, b)
  BY <1>1, Zenon DEF Proposes, StartProposer, TypeOK
<1>2. CASE \E r \in Rounds : Awaits(v, r)
  BY <1>2, Zenon DEF Awaits, AwaitProposal, TypeOK
<1>3. CASE \E m \in sent : m.type = "PROPOSAL" /\ Replays(v, m)
  BY <1>3, Zenon DEF Replays, ReplayBacklog, TypeOK
<1>4. CASE \E m \in sent : m.type = "PROPOSAL" /\ m.round = round[v] /\ HandleProposal(v, m)
  BY <1>4, Zenon DEF HandleProposal, TypeOK
<1>5. CASE SendCommit(v)
  BY <1>5, Zenon DEF SendCommit, TypeOK
<1>6. CASE CommitBlock(v)
  BY <1>6, Zenon DEF CommitBlock, TypeOK
<1>7. CASE Timeout(v) /\ state[v] = "New"
  BY <1>7, Zenon DEF Timeout, TypeOK
<1>8. CASE Timeout(v) /\ state[v] # "New"
  BY <1>8, Zenon DEF Timeout, TypeOK
<1>9. CASE Stops(v)
  BY <1>9, Zenon DEF Stops, Abandon, TypeOK
<1> QED
  BY <1>1, <1>2, <1>3, <1>4, <1>5, <1>6, <1>7, <1>8, <1>9, StepEffects, Zenon

\* A step enters a later round, goes on in the round, or stops.
LEMMA Transition ==
  ASSUME TypeOK, NEW v \in Validators, Step(v)
  PROVE  /\ round'[v] \in Nat
         /\ \/ Moves(v, round'[v]) /\ state'[v] \in {"New", "Prepared"}
            \/ /\ round'[v] = round[v]
               /\ state[v] # "New" => proposal'[v] = proposal[v]
               /\ <<state[v], state'[v]>> \in
                    {<<"New", "Prepared">>, <<"Prepared", "CommitSent">>,
                     <<"Prepared", "Committed">>, <<"CommitSent", "Committed">>,
                     <<"RoundChange", "Committed">>, <<"New", "RoundChange">>,
                     <<"Prepared", "RoundChange">>, <<"CommitSent", "RoundChange">>}
            \/ v \in Unreliable /\ round'[v] = 0 /\ state'[v] = "Idle"
               /\ proposal'[v] = NoBlock
  BY LocalEffects, RoundsAreNumbers, ZeroRound, Zenon DEF After

\* What a step broadcasts, it broadcasts in the name of its validator.
LEMMA NewMessages ==
  ASSUME TypeOK, NEW v \in Validators, Step(v), NEW m \in sent', m \notin sent
  PROVE  /\ m.from = v
         /\ m.type = "COMMIT" =>
              /\ state[v] = "Prepared" /\ Voted("PREPARE", round[v], proposal[v])
              /\ After(v, round[v], "CommitSent", proposal[v], {m})
              /\ m = Commit(v, round[v], proposal[v])
         /\ m.type = "ROUND_CHANGE" =>
              /\ After(v, round[v], "RoundChange", proposal[v], {m})
              /\ \/ /\ state[v] = "New"
                    /\ m = RoundChange(v, round[v] + 1, 0, NoBlock)
                 \/ /\ state[v] \in {"Prepared", "CommitSent"}
                    /\ m = RoundChange(v, round[v] + 1, round[v], proposal[v])
         /\ m.type = "PROPOSAL" =>
              \E r \in Rounds, b \in Blocks :
                /\ Moves(v, r) /\ v = Proposer(r) /\ (r > 0 => Justified(v, r, b))
                /\ After(v, r, "Prepared", b, {Proposal(v, r, b), Prepare(v, r, b)})
                /\ m = Proposal(v, r, b)
  BY LocalEffects DEF After, Proposal, Prepare, Commit, RoundChange

LEMMA NewCommit ==
  ASSUME TypeOK, NEW v \in Validators, Step(v), NEW m \in sent', m \notin sent,
         m.type = "COMMIT"
  PROVE  /\ m.from = v /\ m.round = round[v] /\ m.block = proposal[v]
         /\ state[v] = "Prepared" /\ Voted("PREPARE", round[v], proposal[v])
         /\ After(v, round[v], "CommitSent", proposal[v], {m})
<1>1. /\ state[v] = "Prepared" /\ Voted("PREPARE", round[v], proposal[v])
      /\ After(v, round[v], "CommitSent", proposal[v], {m})
      /\ m = Commit(v, round[v], proposal[v])
  BY NewMessages, Zenon
<1> QED
  BY <1>1, Zenon DEF Commit

LEMMA NewRoundChange ==
  ASSUME TypeOK, NEW v \in Validators, Step(v), NEW m \in sent', m \notin sent,
         m.type = "ROUND_CHANGE"
  PROVE  /\ m.from = v /\ m.round = round[v] + 1
         /\ \/ state[v] = "New" /\ m.prep = NoBlock
            \/ /\ state[v] \in {"Prepared", "CommitSent"}
               /\ m.prep = proposal[v] /\ m.prepRound = round[v]
         /\ After(v, round[v], "RoundChange", proposal[v], {m})
<1>1. /\ After(v, round[v], "RoundChange", proposal[v], {m})
      /\ \/ /\ state[v] = "New"
            /\ m = RoundChange(v, round[v] + 1, 0, NoBlock)
         \/ /\ state[v] \in {"Prepared", "CommitSent"}
            /\ m = RoundChange(v, round[v] + 1, round[v], proposal[v])
  BY NewMessages, Zenon
<1> QED
  BY <1>1 DEF RoundChange

LEMMA NewProposal ==
  ASSUME TypeOK, NEW v \in Validators, Step(v), NEW m \in sent', m \notin sent,
         m.type = "PROPOSAL"
  PROVE  /\ m.from = v /\ v = Proposer(m.round) /\ Moves(v, m.round)
         /\ m.round \in Rounds /\ (m.round > 0 => Justified(v, m.round, m.block))
         /\ round'[v] = m.round /\ state'[v] = "Prepared" /\ proposal'[v] = m.block
         /\ sent' = sent \cup {m, Prepare(v, m.round, m.block)}
<1>1. PICK r \in Rounds, b \in Blocks :
        /\ Moves(v, r) /\ v = Proposer(r) /\ (r > 0 => Justified(v, r, b))
        /\ After(v, r, "Prepared", b, {Proposal(v, r, b), Prepare(v, r, b)})
        /\ m = Proposal(v, r, b)
  BY NewMessages, Zenon
<1>2. m.from = v /\ m.round = r /\ m.block = b
  BY <1>1, Zenon DEF Proposal
<1> QED
  BY <1>1, <1>2, Zenon DEF After

LEMMA CommitKeptStep ==
  ASSUME TypeOK, CommitKept, NEW v \in Validators, Step(v)
  PROVE  CommitKept'
<1> SUFFICES ASSUME NEW m \in sent', m.type = "COMMIT", m.from \in Reliable
             PROVE  /\ state'[m.from] # "Idle"
                    /\ m.round <= round'[m.from]
                    /\ m.round = round'[m.from] =>
                         /\ proposal'[m.from] = m.block
                         /\ state'[m.from] \in {"CommitSent", "Committed", "RoundChange"}
  BY Zenon DEF CommitKept, Reliable
<1>1. CASE m \notin sent
  <2>1. /\ After(v, round[v], "CommitSent", proposal[v], {m})
        /\ m = Commit(v, round[v], proposal[v])
    BY <1>1, NewMessages, Zenon
  <2> QED
    BY <2>1, RoundsAreNumbers DEF After, Commit
<1>2. CASE m \in sent
  <2>1. /\ m.from \in Validators /\ m.from \notin Unreliable
        /\ m.round \in Nat /\ round[m.from] \in Nat
        /\ state[m.from] # "Idle"
        /\ m.round <= round[m.from]
        /\ m.round = round[m.from] =>
             /\ proposal[m.from] = m.block
             /\ state[m.from] \in {"CommitSent", "Committed", "RoundChange"}
    BY <1>2, RoundsAreNumbers, Zenon DEF CommitKept, Reliable
  <2>2. CASE m.from # v
    BY <2>1, <2>2, Frame, Zenon
  <2>3. CASE m.from = v
    BY <2>1, <2>3, LocalEffects, RoundsAreNumbers, ZeroRound DEF After, Moves, Running
  <2> QED
    BY <2>2, <2>3, Zenon
<1> QED
  BY <1>1, <1>2, Zenon

LEMMA OneCommitStep ==
  ASSUME TypeOK, CommitKept, OneCommit, NEW v \in Validators, Step(v)
  PROVE  OneCommit'
<1>1. ASSUME NEW c \in sent', NEW d \in sent, c.type = "COMMIT", d.type = "COMMIT",
             c.from = d.from, c.from \in Reliable, c.round = d.round
      PROVE  c.block = d.block
  <2>1. CASE c \in sent
    BY <1>1, <2>1, Zenon DEF OneCommit
  <2>2. CASE c \notin sent
    <3>1. c.from = v /\ c.round = round[v] /\ state[v] = "Prepared"
      BY <1>1, <2>2, NewCommit, Zenon
    <3>2. state[v] \in {"CommitSent", "Committed", "RoundChange"}
      BY <1>1, <3>1, Zenon DEF CommitKept
    <3> QED
      BY <3>1, <3>2, Zenon
  <2> QED
    BY <2>1, <2>2, Zenon
<1>2. ASSUME NEW c \in sent', NEW d \in sent', c.type = "COMMIT", d.type = "COMMIT",
             c.from = d.from, c.from \in Reliable, c.round = d.round
      PROVE  c.block = d.block
  <2>1. CASE d \in sent
    BY <1>1, <1>2, <2>1, Zenon
  <2>2. CASE c \in sent
    BY <1>1, <1>2, <2>2, Zenon
  <2>3. CASE c \notin sent /\ d \notin sent
    BY <1>2, <2>3, NewCommit, Zenon
  <2> QED
    BY <2>1, <2>2, <2>3, Zenon
<1> QED
  BY <1>2, Zenon DEF OneCommit, Reliable

LEMMA RoundChangeKeptStep ==
  ASSUME TypeOK, RoundChangeKept, NEW v \in Validators, Step(v)
  PROVE  RoundChangeKept'
<1> SUFFICES ASSUME NEW m \in sent', m.type = "ROUND_CHANGE", m.from \in Reliable
             PROVE  /\ state'[m.from] # "Idle"
                    /\ \/ m.round <= round'[m.from]
                       \/ /\ m.round = round'[m.from] + 1
                          /\ state'[m.from] \in {"Committed", "RoundChange"}
  BY Zenon DEF RoundChangeKept, Reliable
<1>1. CASE m \notin sent
  <2>1. /\ After(v, round[v], "RoundChange", proposal[v], {m})
        /\ m.from = v /\ m.round = round[v] + 1
    BY <1>1, NewRoundChange, Zenon
  <2> QED
    BY <2>1, Zenon DEF After
<1>2. CASE m \in sent
  <2>1. /\ m.from \in Validators /\ m.from \notin Unreliable
        /\ m.round \in Nat /\ round[m.from] \in Nat
        /\ state[m.from] # "Idle"
        /\ \/ m.round <= round[m.from]
           \/ /\ m.round = round[m.from] + 1
              /\ state[m.from] \in {"Committed", "RoundChange"}
    BY <1>2, RoundsAreNumbers, Zenon DEF RoundChangeKept, Reliable
  <2>2. CASE m.from # v
    BY <2>1, <2>2, Frame, Zenon
  <2>3. CASE m.from = v
    BY <2>1, <2>3, Transition DEF Moves, Running
  <2> QED
    BY <2>2, <2>3, Zenon
<1> QED
  BY <1>1, <1>2, Zenon

LEMMA CommittedByQuorumStep ==
  ASSUME TypeOK, CommittedByQuorum, NEW v \in Validators, Step(v)
  PROVE  CommittedByQuorum'
<1> SUFFICES ASSUME NEW u \in Validators, state'[u] = "Committed"
             PROVE  Voted("COMMIT", round[u], proposal[u])'
  BY Zenon DEF CommittedByQuorum
<1>1. /\ Voted("COMMIT", round[u], proposal[u])
      /\ round'[u] = round[u] /\ proposal'[u] = proposal[u]
  <2>1. CASE u # v
    BY <2>1, Frame, Zenon DEF CommittedByQuorum
  <2>2. CASE u = v
    BY <2>2, LocalEffects, Zenon DEF After
  <2> QED
    BY <2>1, <2>2, Zenon
<1> DEFINE r == round'[u]
           b == proposal'[u]
<1>2. ASSUME NEW CONSTANT cr, NEW CONSTANT cb, cr = r, cb = b
      PROVE  Voted("COMMIT", cr, cb)'
  BY <1>1, <1>2, SentGrows, VotedGrows, Zenon
<1> QED
  BY <1>2, Zenon DEF Voted, Voters

LEMMA ProposedGrows ==
  ASSUME sent \subseteq sent', NEW CONSTANT r, NEW CONSTANT b, Proposed(r, b)
  PROVE  Proposed(r, b)'
  BY Zenon DEF Proposed, Sent

LEMMA BlocksProposedStep ==
  ASSUME TypeOK, BlocksProposed, NEW v \in Validators, Step(v)
  PROVE  BlocksProposed'
<1> USE DEF Proposed, Sent
<1>1. \A r, b : (\E m \in sent : m.type = "PROPOSAL" /\ m.round = r /\ m.block = b)
              => (\E m \in sent' : m.type = "PROPOSAL" /\ m.round = r /\ m.block = b)
  BY SentGrows, Zenon
<1>2. ASSUME NEW u \in Validators, proposal'[u] # NoBlock
      PROVE  \E m \in sent' : m.type = "PROPOSAL" /\ m.round = round'[u] /\ m.block = proposal'[u]
  <2>1. CASE u # v
    BY <1>1, <1>2, <2>1, Frame, SMTT(20) DEF BlocksProposed
  <2>2. CASE u = v
    <3>1. CASE \E r \in Rounds, b \in Blocks :
                 After(v, r, "Prepared", b, {Proposal(v, r, b), Prepare(v, r, b)})
      <4>1. PICK r \in Rounds, b \in Blocks :
              After(v, r, "Prepared", b, {Proposal(v, r, b), Prepare(v, r, b)})
        BY <3>1, Zenon
      <4>2. /\ Proposal(v, r, b).type = "PROPOSAL" /\ Proposal(v, r, b).round = r
            /\ Proposal(v, r, b).block = b
        BY Zenon DEF Proposal
      <4> QED
        BY <2>2, <4>1, <4>2, Zenon DEF After
    <3>2. CASE \E m \in sent : /\ m.type = "PROPOSAL"
                              /\ round'[v] = m.round /\ proposal'[v] = m.block
      BY <1>1, <2>2, <3>2
    <3>3. CASE round'[v] = round[v] /\ proposal'[v] = proposal[v]
      BY <1>1, <1>2, <2>2, <3>3 DEF BlocksProposed
    <3>4. CASE proposal'[v] = NoBlock
      BY <1>2, <2>2, <3>4, Zenon
    <3> QED
      BY <3>1, <3>2, <3>3, <3>4, LocalEffects, Zenon DEF After
  <2> QED
    BY <2>1, <2>2, Zenon
<1>3. ASSUME NEW m \in sent', m.type = "COMMIT"
      PROVE  \E p \in sent' : p.type = "PROPOSAL" /\ p.round = m.round /\ p.block = m.block
  <2>1. CASE m \in sent
    BY <1>1, <1>3, <2>1 DEF BlocksProposed
  <2>2. CASE m \notin sent
    <3>1. m.round = round[v] /\ m.block = proposal[v] /\ Voted("PREPARE", round[v], proposal[v])
      BY <1>3, <2>2, NewCommit, Zenon
    <3>2. proposal[v] # NoBlock
      BY <3>1, VotedBlock, BlocksAreBlocks, Zenon
    <3> QED
      BY <1>1, <3>1, <3>2 DEF BlocksProposed
  <2> QED
    BY <2>1, <2>2, Zenon
<1>4. ASSUME NEW m \in sent', m.type = "ROUND_CHANGE", m.prep # NoBlock
      PROVE  /\ m.round = m.prepRound + 1
             /\ \E p \in sent' : p.type = "PROPOSAL" /\ p.round = m.prepRound /\ p.block = m.prep
  <2>1. CASE m \in sent
    <3>1. m.round = m.prepRound + 1 /\ Proposed(m.prepRound, m.prep)
      BY <1>4, <2>1, Zenon DEF BlocksProposed
    <3> QED
      BY <1>1, <3>1
  <2>2. CASE m \notin sent
    <3>1. /\ m.round = round[v] + 1 /\ m.prepRound = round[v]
          /\ m.prep = proposal[v]
      BY <1>4, <2>2, NewRoundChange, Zenon
    <3> QED
      BY <1>1, <1>4, <3>1 DEF BlocksProposed
  <2> QED
    BY <2>1, <2>2, Zenon
<1> QED
  BY <1>2, <1>3, <1>4 DEF BlocksProposed

LEMMA OneProposalStep ==
  ASSUME TypeOK, OneProposal, NEW v \in Validators, Step(v)
  PROVE  OneProposal'
<1>1. ASSUME NEW m \in sent', m.type = "PROPOSAL"
      PROVE  /\ m.from = Proposer(m.round)
             /\ m.from \in Reliable => state'[m.from] # "Idle" /\ m.round <= round'[m.from]
  <2>1. CASE m \notin sent
    <3>1. /\ m.from = v /\ v = Proposer(m.round) /\ m.round \in Rounds
          /\ round'[v] = m.round /\ state'[v] = "Prepared"
      BY <1>1, <2>1, NewProposal
    <3>2. m.round \in Nat
      BY <3>1, ZeroRound, Zenon
    <3> QED
      BY <3>1, <3>2
  <2>2. CASE m \in sent
    <3>1. /\ m.from = Proposer(m.round) /\ m.from \in Validators
          /\ m.round \in Nat /\ round[m.from] \in Nat
          /\ m.from \in Reliable => state[m.from] # "Idle" /\ m.round <= round[m.from]
      BY <1>1, <2>2, RoundsAreNumbers, Zenon DEF OneProposal
    <3>2. CASE m.from # v
      BY <3>1, <3>2, Frame, Zenon
    <3>3. CASE m.from = v
      <4>1. SUFFICES ASSUME v \in Reliable
                     PROVE  state'[v] # "Idle" /\ m.round <= round'[v]
        BY <3>1, <3>3, Zenon
      <4>2. /\ m.round \in Nat /\ round[v] \in Nat /\ v \notin Unreliable
            /\ state[v] # "Idle" /\ m.round <= round[v]
        BY <3>1, <3>3, <4>1, Zenon DEF Reliable
      <4> QED
        BY <4>2, Transition DEF Moves, Running
    <3> QED
      BY <3>2, <3>3, Zenon
  <2> QED
    BY <2>1, <2>2, Zenon
<1>2. ASSUME NEW m \in sent', NEW n \in sent, m.type = "PROPOSAL", n.type = "PROPOSAL",
             m.round = n.round, Proposer(m.round) \in Reliable
      PROVE  m.block = n.block
  <2>1. CASE m \in sent
    BY <1>2, <2>1, Zenon DEF OneProposal
  <2>2. CASE m \notin sent
    <3>1. v = Proposer(m.round) /\ Moves(v, m.round) /\ m.round \in Nat
      BY <1>2, <2>2, NewProposal, ZeroRound, Zenon
    <3>2. state[v] # "Idle" /\ m.round <= round[v] /\ round[v] \in Nat
      BY <1>2, <3>1, RoundsAreNumbers, Zenon DEF OneProposal
    <3> QED
      BY <3>1, <3>2 DEF Moves
  <2> QED
    BY <2>1, <2>2, Zenon
<1>3. ASSUME NEW m \in sent', NEW n \in sent', m.type = "PROPOSAL", n.type = "PROPOSAL",
             m.round = n.round, Proposer(m.round) \in Reliable
      PROVE  m.block = n.block
  <2>1. CASE n \in sent
    BY <1>2, <1>3, <2>1, Zenon
  <2>2. CASE m \in sent
    BY <1>2, <1>3, <2>2, Zenon
  <2>3. CASE m \notin sent /\ n \notin sent
    BY <1>3, <2>3, NewProposal, Zenon
  <2> QED
    BY <2>1, <2>2, <2>3, Zenon
<1> QED
  BY <1>1, <1>3, Zenon DEF OneProposal, Reliable, Proposer

LEMMA CertificatesGrow ==
  ASSUME sent \subseteq sent', NEW CONSTANT r, NEW CONSTANT R, R \in Certificates(r)
  PROVE  R \in Certificates(r)'
  BY Zenon DEF Certificates, Sent

LEMMA ProposalJustifiedStep ==
  ASSUME TypeOK, ProposalJustified, NEW v \in Validators, Step(v)
  PROVE  ProposalJustified'
<1> SUFFICES ASSUME NEW m \in sent', m.type = "PROPOSAL", m.round > 0
             PROVE  \E R \in Certificates(m.round)' : \E prep \in HighestPrepared(R) :
                      m.block \in ProposalBlocks(m.from, m.round, prep)
  BY Zenon DEF ProposalJustified, HighestPrepared, PreparedIn, ProposalBlocks, Certificates
<1>1. PICK R \in Certificates(m.round) : \E prep \in HighestPrepared(R) :
        m.block \in ProposalBlocks(m.from, m.round, prep)
  <2>1. CASE m \in sent
    BY <2>1, Zenon DEF ProposalJustified
  <2>2. CASE m \notin sent
    BY <2>2, NewProposal, Zenon DEF Justified
  <2> QED
    BY <2>1, <2>2, Zenon
<1>2. R \in Certificates(m.round)'
  BY <1>1, CertificatesGrow, SentGrows, Zenon
<1> QED
  BY <1>1, <1>2, Zenon

LEMMA RoundChangeCarriesCommitStep ==
  ASSUME TypeOK, CommitKept, RoundChangeKept, RoundChangeCarriesCommit,
         NEW v \in Validators, Step(v)
  PROVE  RoundChangeCarriesCommit'
<1> SUFFICES ASSUME NEW c \in sent', NEW m \in sent', c.type = "COMMIT", m.type = "ROUND_CHANGE",
                    c.round \in Rounds, m.round = c.round + 1,
                    c.from = m.from, c.from \notin Unreliable
             PROVE  m.prep = c.block /\ m.prepRound = c.round
  BY DEF RoundChangeCarriesCommit, Sent
<1>1. CASE c \in sent /\ m \in sent
  BY <1>1, Zenon DEF RoundChangeCarriesCommit, Sent
<1>2. CASE c \in sent /\ m \notin sent
  <2>1. /\ m.from = v /\ m.round = round[v] + 1 /\ round[v] \in Nat /\ c.round \in Nat
        /\ \/ state[v] = "New"
           \/ m.prep = proposal[v] /\ m.prepRound = round[v]
    BY <1>2, NewRoundChange, RoundsAreNumbers, ZeroRound, Zenon
  <2>2. c.round = round[v] =>
          proposal[v] = c.block /\ state[v] \in {"CommitSent", "Committed", "RoundChange"}
    BY <1>2, <2>1, Zenon DEF CommitKept, Reliable
  <2> QED
    BY <2>1, <2>2
<1>3. CASE c \notin sent /\ m \in sent
  <2>1. c.from = v /\ c.round = round[v] /\ state[v] = "Prepared" /\ round[v] \in Nat
    BY <1>3, NewCommit, RoundsAreNumbers, Zenon
  <2>2. \/ m.round <= round[v]
        \/ state[v] \in {"Committed", "RoundChange"}
    BY <1>3, <2>1, Zenon DEF RoundChangeKept, Reliable
  <2> QED
    BY <2>1, <2>2
<1>4. CASE c \notin sent /\ m \notin sent
  BY <1>4, NewCommit, NewRoundChange DEF After
<1> QED
  BY <1>1, <1>2, <1>3, <1>4, Zenon

-----------------------------------------------------------------------------
(* The inductive invariant and the safety theorems *)

LEMMA IndInvInit == Init => IndInv
  BY TypeInit, Zenon DEF Init, IndInv, CommitKept, OneCommit, RoundChangeKept, CommittedByQuorum,
     BlocksProposed, OneProposal, ProposalJustified, RoundChangeCarriesCommit, Sent

LEMMA IndInvNext == IndInv /\ [Next]_vars => IndInv'
<1> SUFFICES ASSUME IndInv, [Next]_vars PROVE IndInv'
  BY Zenon
<1>1. CASE UNCHANGED vars
  <2>1. TypeOK' /\ CommitKept' /\ OneCommit' /\ RoundChangeKept'
    BY <1>1, Zenon DEF vars, IndInv, TypeOK, CommitKept, OneCommit, RoundChangeKept
  <2>2. CommittedByQuorum' /\ RoundChangeCarriesCommit'
    BY <1>1, Zenon DEF vars, IndInv, CommittedByQuorum, Voted, Voters, RoundChangeCarriesCommit, Sent
  <2>3. BlocksProposed' /\ OneProposal'
    BY <1>1 DEF vars, IndInv, BlocksProposed, Proposed, Sent, OneProposal
  <2>4. ProposalJustified'
    BY <1>1, Zenon DEF vars, IndInv, ProposalJustified, Certificates, Sent
  <2> QED
    BY <2>1, <2>2, <2>3, <2>4, Zenon DEF IndInv
<1>2. ASSUME NEW v \in Validators, Step(v) PROVE IndInv'
  <2>1. TypeOK'
    BY <1>2, TypeNext, Zenon DEF IndInv, Next
  <2>2. CommitKept' /\ OneCommit' /\ RoundChangeKept' /\ RoundChangeCarriesCommit'
    BY <1>2, CommitKeptStep, OneCommitStep, RoundChangeKeptStep, RoundChangeCarriesCommitStep, Zenon DEF IndInv
  <2>3. CommittedByQuorum' /\ BlocksProposed'
    BY <1>2, CommittedByQuorumStep, BlocksProposedStep, Zenon DEF IndInv
  <2>4. OneProposal' /\ ProposalJustified'
    BY <1>2, OneProposalStep, ProposalJustifiedStep, Zenon DEF IndInv
  <2> QED
    BY <2>1, <2>2, <2>3, <2>4, Zenon DEF IndInv
<1> QED
  BY <1>1, <1>2, Zenon DEF Next

\* Spec keeps the inductive invariant: what Core remembers of the votes it
\* sent, and where the blocks it holds come from.
THEOREM Inductive == Spec => []IndInv
  BY IndInvInit, IndInvNext, PTL DEF Spec

LEMMA IndInvRoundAgreement == IndInv => RoundAgreement
<1> SUFFICES ASSUME IndInv, NEW u \in Validators, NEW v \in Validators,
                    state[u] = "Committed", state[v] = "Committed", round[u] = round[v]
             PROVE  proposal[u] = proposal[v]
  BY Zenon DEF RoundAgreement
<1>1. /\ Cardinality(Voters("COMMIT", round[u], proposal[u])) >= Quorum
      /\ Cardinality(Voters("COMMIT", round[v], proposal[v])) >= Quorum
  BY Zenon DEF IndInv, CommittedByQuorum, Voted
<1>2. PICK w \in Reliable : /\ w \in Voters("COMMIT", round[u], proposal[u])
                            /\ w \in Voters("COMMIT", round[v], proposal[v])
  <2>1. /\ Voters("COMMIT", round[u], proposal[u]) \in SUBSET Validators
        /\ Voters("COMMIT", round[v], proposal[v]) \in SUBSET Validators
    BY Zenon DEF Voters
  <2> QED
    BY <1>1, <2>1, QuorumsShareReliable, Zenon
<1>3. Commit(w, round[u], proposal[u]) \in sent /\ Commit(w, round[v], proposal[v]) \in sent
  BY <1>2, Zenon DEF Voters, Commit
<1>4. /\ Commit(w, round[u], proposal[u]).type = "COMMIT"
      /\ Commit(w, round[v], proposal[v]).type = "COMMIT"
      /\ Commit(w, round[u], proposal[u]).from = w
      /\ Commit(w, round[v], proposal[v]).from = w
      /\ Commit(w, round[u], proposal[u]).round = round[u]
      /\ Commit(w, round[v], proposal[v]).round = round[v]
      /\ Commit(w, round[u], proposal[u]).block = proposal[u]
      /\ Commit(w, round[v], proposal[v]).block = proposal[v]
  BY Zenon DEF Commit
<1>5. Commit(w, round[u], proposal[u]).block = Commit(w, round[v], proposal[v]).block
  BY <1>2, <1>3, <1>4, Zenon DEF IndInv, OneCommit
<1> QED
  BY <1>4, <1>5, Zenon

\* Two validators never commit different blocks in the same round, for every
\* number of validators and rounds (handlePrepare, handleCommit, Quorum).
THEOREM Agreement == Spec => []RoundAgreement
  BY Inductive, IndInvRoundAgreement, PTL

\* A reliable validator's ROUND_CHANGE carries the block it sent COMMIT for
\* in the round before (Timeout).
THEOREM CarriesCommit == Spec => []RoundChangeCarriesCommit
<1>1. IndInv => RoundChangeCarriesCommit
  BY Zenon DEF IndInv
<1> QED
  BY <1>1, Inductive, PTL

LEMMA IndInvNextRound == IndInv => NextRoundKeepsCommitted
<1> SUFFICES ASSUME IndInv, NEW v \in Validators, state[v] = "Committed",
                    Proposer(round[v]) \notin Unreliable,
                    NEW m \in sent, m.type = "PROPOSAL", m.round = round[v] + 1
             PROVE  Body(m.block) = Body(proposal[v])
  BY Zenon DEF NextRoundKeepsCommitted, Sent
<1> DEFINE r == round[v]
           b == proposal[v]
<1>1. TypeOK /\ r \in Rounds /\ r \in Nat /\ r + 1 > 0 /\ Proposer(r) \in Reliable
  BY RoundsAreNumbers, ProposerValid DEF IndInv, TypeOK, Reliable
<1>2. Voted("COMMIT", r, b) /\ b \in Blocks /\ b # NoBlock
  BY <1>1, VotedBlock, BlocksAreBlocks, Zenon DEF IndInv, CommittedByQuorum
<1>3. PICK R \in Certificates(r + 1) : \E prep \in HighestPrepared(R) :
        m.block \in ProposalBlocks(m.from, r + 1, prep)
  BY <1>1, Zenon DEF IndInv, ProposalJustified
<1>4. PICK prep \in HighestPrepared(R) : m.block \in ProposalBlocks(m.from, r + 1, prep)
  BY <1>3, Zenon
<1>5. /\ \A x \in R : x \in sent /\ x.type = "ROUND_CHANGE" /\ x.round = r + 1
      /\ Cardinality({x.from : x \in R}) = Quorum
  BY <1>3, Zenon DEF Certificates, Sent
<1>6. PICK w \in Reliable : w \in Voters("COMMIT", r, b) /\ w \in {x.from : x \in R}
  <2>1. {x.from : x \in R} \in SUBSET Validators
    BY <1>1, <1>5, RoundsAreNumbers, Zenon
  <2>2. Voters("COMMIT", r, b) \in SUBSET Validators
    BY Zenon DEF Voters
  <2> QED
    BY <1>2, <1>5, <2>1, <2>2, QuorumsShareReliable, QuorumFacts DEF Voted
<1>7. PICK x \in R : x.from = w
  BY <1>6, Zenon
<1>8. PICK c \in sent : c.type = "COMMIT" /\ c.from = w /\ c.round = r /\ c.block = b
  BY <1>6, Zenon DEF Voters
<1>9. x.prep = b
  BY <1>1, <1>5, <1>7, <1>8 DEF IndInv, RoundChangeCarriesCommit, Sent, Reliable
<1>10. PICK y \in R : y.prep # NoBlock /\ y.prep = prep
  BY <1>2, <1>4, <1>7, <1>9, Zenon DEF HighestPrepared, PreparedIn
<1>11. Proposed(r, y.prep)
  <2>1. y.round = y.prepRound + 1 /\ Proposed(y.prepRound, y.prep)
    BY <1>5, <1>10, Zenon DEF IndInv, BlocksProposed
  <2>2. y.prepRound \in Nat
    BY <1>1, <1>5, MessageTypes, ZeroRound, Zenon DEF RoundChanges
  <2>3. y.prepRound = r
    BY <1>1, <1>5, <2>1, <2>2
  <2> QED
    BY <2>1, <2>3, Zenon
<1>12. Proposed(r, b)
  BY <1>8, Zenon DEF IndInv, BlocksProposed
<1>13. prep = b
  BY <1>1, <1>10, <1>11, <1>12 DEF IndInv, OneProposal, Proposed, Sent
<1>14. m.from \in Validators /\ r + 1 \in Rounds
  BY <1>1, MessageTypes, Zenon DEF Proposals
<1> QED
  BY <1>2, <1>4, <1>13, <1>14, ProposalBlocksType

\* A block that some validator committed is the block of every proposal of the
\* next round, if its proposer was not restarted (handleRoundChange,
\* reuseQBFTPreparedHeader).
THEOREM NextRoundKeeps == Spec => []NextRoundKeepsCommitted
  BY Inductive, IndInvNextRound, PTL

-----------------------------------------------------------------------------
(* The core with its maps *)

\* The inductive invariant: types, and that the maps are backed by messages.
CoreInv == CoreTypeOK /\ MapsBacked

-----------------------------------------------------------------------------
(* The ROUND_CHANGE records *)

LEMMA OnePerSender ==
  ASSUME NEW R \in SUBSET RoundChanges,
         \A x, y \in R : x.from = y.from => x = y
  PROVE  /\ IsFiniteSet(R)
         /\ Cardinality({m.from : m \in R}) = Cardinality(R)
<1> DEFINE F == {m.from : m \in R}
           f == [x \in R |-> x.from]
<1>1. F \in SUBSET Validators
  BY Zenon DEF RoundChanges
<1>2. IsFiniteSet(F)
  BY <1>1, ValidatorsAssumption, FS_Subset, Zenon
<1>3. f \in Injection(R, F)
  BY Zenon DEF Injection, IsInjective
<1>4. f \in Surjection(R, F)
  BY Zenon DEF Surjection
<1> HIDE DEF F, f
<1>5. IsFiniteSet(R) /\ Cardinality(R) = Cardinality(F)
  BY <1>2, <1>3, <1>4, FS_Injection, Zenon
<1> QED
  BY <1>5, Zenon DEF F

Records(v, m) == {x \in roundChanges[v] : x.from # m.from} \cup {m}

ForRound(S, r) == {x \in S : x.round = r}

\* The record of m joins those of the other senders; no other round gets one
\* more, and the round of m at most one.
LEMMA RecordsFacts ==
  ASSUME CoreInv, NEW v \in Detailed, NEW m \in sent, m.type = "ROUND_CHANGE"
  PROVE  /\ Records(v, m) \in SUBSET RoundChanges
         /\ Records(v, m) \subseteq sent
         /\ \A x, y \in Records(v, m) : x.from = y.from => x = y
         /\ \A r \in Rounds : r # m.round => Cardinality(ForRound(Records(v, m), r)) < Quorum
         /\ m.round \in Rounds => Cardinality(ForRound(Records(v, m), m.round)) <= Quorum
<1>1. /\ TypeOK /\ m \in RoundChanges
      /\ roundChanges[v] \in SUBSET RoundChanges
      /\ roundChanges[v] \subseteq sent
      /\ \A x, y \in roundChanges[v] : x.from = y.from => x = y
      /\ \A r \in Rounds : Cardinality(ForRound(roundChanges[v], r)) < Quorum
  BY MessageTypes, Zenon DEF CoreInv, CoreTypeOK, MapsBacked, Backed, ForRound
<1>2. IsFiniteSet(roundChanges[v])
  BY <1>1, OnePerSender, Zenon
<1>3. ASSUME NEW r \in Rounds
      PROVE  /\ IsFiniteSet(ForRound(roundChanges[v], r))
             /\ Cardinality(ForRound(roundChanges[v], r)) \in Nat
             /\ Cardinality(ForRound(roundChanges[v], r)) < Quorum
  <2>1. ForRound(roundChanges[v], r) \in SUBSET roundChanges[v]
    BY Zenon DEF ForRound
  <2> QED
    BY <1>1, <1>2, <2>1, FS_Subset, FS_CardinalityType, Zenon
<1>4. ASSUME NEW r \in Rounds, r # m.round
      PROVE  Cardinality(ForRound(Records(v, m), r)) < Quorum
  <2>1. ForRound(Records(v, m), r) \in SUBSET ForRound(roundChanges[v], r)
    BY <1>4, Zenon DEF ForRound, Records
  <2>2. /\ IsFiniteSet(ForRound(Records(v, m), r))
        /\ Cardinality(ForRound(Records(v, m), r)) <= Cardinality(ForRound(roundChanges[v], r))
    BY <1>3, <2>1, FS_Subset, Zenon
  <2> QED
    BY <1>3, <2>2, QuorumFacts, FS_CardinalityType
<1>5. ASSUME m.round \in Rounds
      PROVE  Cardinality(ForRound(Records(v, m), m.round)) <= Quorum
  <2> DEFINE old == ForRound(roundChanges[v], m.round)
  <2>1. ForRound(Records(v, m), m.round) \in SUBSET (old \cup {m})
    BY Zenon DEF ForRound, Records
  <2>2. IsFiniteSet(old) /\ Cardinality(old) \in Nat /\ Cardinality(old) < Quorum
    BY <1>3, <1>5, Zenon
  <2> HIDE DEF old
  <2>3. /\ IsFiniteSet(old \cup {m}) /\ Cardinality(old \cup {m}) \in Nat
        /\ Cardinality(old \cup {m}) <= Cardinality(old) + 1
    <3>1. /\ IsFiniteSet(old \cup {m})
          /\ Cardinality(old \cup {m}) = IF m \in old THEN Cardinality(old) ELSE Cardinality(old) + 1
      BY <2>2, FS_AddElement, Zenon
    <3> QED
      BY <2>2, <3>1
  <2>4. /\ IsFiniteSet(ForRound(Records(v, m), m.round))
        /\ Cardinality(ForRound(Records(v, m), m.round)) <= Cardinality(old \cup {m})
    BY <2>1, <2>3, FS_Subset, Zenon
  <2>5. Cardinality(ForRound(Records(v, m), m.round)) \in Nat
    BY <2>4, FS_CardinalityType, Zenon
  <2> QED
    BY <2>2, <2>3, <2>4, <2>5, QuorumFacts
<1> QED
  BY <1>1, <1>4, <1>5, Zenon DEF Records

\* A complete set of records is a certificate.
LEMMA RecordsCertify ==
  ASSUME CoreInv, NEW v \in Detailed, NEW m \in sent, m.type = "ROUND_CHANGE",
         m.round \in Rounds, Cardinality(ForRound(Records(v, m), m.round)) >= Quorum
  PROVE  ForRound(Records(v, m), m.round) \in Certificates(m.round)
<1> DEFINE R == ForRound(Records(v, m), m.round)
<1>1. /\ R \in SUBSET RoundChanges /\ R \subseteq sent
      /\ \A x, y \in R : x.from = y.from => x = y
      /\ Cardinality(R) <= Quorum
  BY RecordsFacts, Zenon DEF ForRound
<1>2. \A x \in R : x.round = m.round /\ x.type = "ROUND_CHANGE"
  BY <1>1, Zenon DEF ForRound, RoundChanges
<1> HIDE DEF R
<1>3. IsFiniteSet(R) /\ Cardinality({x.from : x \in R}) = Cardinality(R)
  BY <1>1, OnePerSender, Zenon
<1>4. Cardinality(R) = Quorum
  BY <1>1, <1>3, QuorumFacts, FS_CardinalityType DEF R
<1> QED
  BY <1>1, <1>2, <1>3, <1>4, Zenon DEF Certificates, Sent, R

-----------------------------------------------------------------------------
(* Every step of the core is a step of the protocol, or changes only maps *)

LEMMA CoreTypes ==
  ASSUME CoreInv, NEW v \in Detailed
  PROVE  /\ TypeOK /\ v \in Validators /\ state[v] \in States /\ round[v] \in Nat
         /\ prepares[v] \in SUBSET Validators /\ commits[v] \in SUBSET Validators
         /\ inbox[v] \subseteq sent
         /\ \A m \in sent : m.round \in Nat /\ m.from \in Validators
         /\ Backed(v)
  BY RoundsAreNumbers, CoreAssumption, Zenon DEF CoreInv, CoreTypeOK, TypeOK, MapsBacked

LEMMA EnterRoundImplements ==
  ASSUME CoreInv, NEW v \in Detailed, NEW r \in Rounds, NEW prep, CoreEnterRound(v, r, prep)
  PROVE  EnterRound(v, r, prep)
<1>1. \A m \in backlog[v] : /\ m \in sent /\ m.type = "PROPOSAL" /\ m.round > 0
  BY DEF CoreInv, CoreTypeOK, MapsBacked, Backed, Proposals
<1>2. CASE v = Proposer(r)
  BY <1>2, Zenon DEF CoreEnterRound, EnterRound
<1>3. CASE v # Proposer(r)
  BY <1>1, <1>3, Zenon DEF CoreEnterRound, EnterRound, Sent
<1> QED
  BY <1>2, <1>3, Zenon

\* More votes than a quorum in the map are a quorum of votes sent.
LEMMA CountedVotes ==
  ASSUME NEW t, NEW r, NEW b, NEW S \in SUBSET Voters(t, r, b), Cardinality(S) >= Quorum
  PROVE  Voted(t, r, b)
<1>1. Voters(t, r, b) \in SUBSET Validators
  BY Zenon DEF Voters
<1>2. IsFiniteSet(Voters(t, r, b))
  BY <1>1, ValidatorsAssumption, FS_Subset, Zenon
<1>3. /\ IsFiniteSet(S) /\ Cardinality(S) <= Cardinality(Voters(t, r, b))
      /\ Cardinality(S) \in Nat /\ Cardinality(Voters(t, r, b)) \in Nat
  BY <1>2, FS_Subset, FS_CardinalityType, Zenon
<1> QED
  BY <1>3, QuorumFacts DEF Voted

\* A vote that counts is a vote for the round and the proposal of v.
LEMMA CountedIsBacked ==
  ASSUME CoreInv, NEW v \in Detailed, NEW m \in sent, Counts(v, m),
         m.type \in {"PREPARE", "COMMIT"}
  PROVE  m.from \in Voters(m.type, round[v], proposal[v])
<1>1. m \in Votes /\ m.from \in Validators
  BY MessageTypes, CoreTypes, Zenon
<1>2. m = [type |-> m.type, from |-> m.from, round |-> m.round, block |-> m.block]
  BY <1>1, Zenon DEF Votes
<1> QED
  BY <1>1, <1>2, Zenon DEF Voters, Counts

LEMMA CoreStepImplements ==
  ASSUME CoreInv, NEW v \in Detailed, CoreStep(v)
  PROVE  Step(v) \/ UNCHANGED vars
<1> USE DEF Step
<1>1. CASE CoreStartInstance(v)
  BY <1>1, EnterRoundImplements, ZeroRound, Zenon DEF CoreStartInstance, StartInstance
<1>2. CASE CoreTimeout(v)
  BY <1>2, Zenon DEF CoreTimeout
<1>3. CASE CoreCrash(v)
  BY <1>3, Zenon DEF CoreCrash
<1>4. ASSUME NEW m \in inbox[v], HandleMsg(v, m) PROVE Step(v) \/ UNCHANGED vars
  <2>1. m \in sent /\ Running(v) /\ Backed(v) /\ state[v] \in States
    BY <1>4, CoreTypes, Zenon DEF HandleMsg
  <2>2. CASE CoreHandleProposal(v, m)
    BY <2>1, <2>2, Zenon DEF CoreHandleProposal, Sent
  <2>3. CASE HandlePrepare(v, m)
    <3>1. m.from \in Voters("PREPARE", round[v], proposal[v])
      BY <2>1, <2>3, CountedIsBacked, Zenon DEF HandlePrepare
    <3>2. prepares[v] \cup {m.from} \in SUBSET Voters("PREPARE", round[v], proposal[v])
      BY <2>1, <3>1, Zenon DEF Backed
    <3>3. CASE state[v] = "Prepared" /\ Cardinality(prepares[v] \cup {m.from}) >= Quorum
      <4>1. Voted("PREPARE", round[v], proposal[v])
        BY <3>2, <3>3, CountedVotes, Zenon
      <4> QED
        BY <2>3, <3>3, <4>1, Zenon DEF HandlePrepare, SendCommit
    <3>4. CASE ~(state[v] = "Prepared" /\ Cardinality(prepares[v] \cup {m.from}) >= Quorum)
      BY <2>3, <3>4, Zenon DEF HandlePrepare, vars
    <3> QED
      BY <3>3, <3>4, Zenon
  <2>4. CASE HandleCommit(v, m)
    <3>1. m.from \in Voters("COMMIT", round[v], proposal[v])
      BY <2>1, <2>4, CountedIsBacked, Zenon DEF HandleCommit
    <3>2. commits[v] \cup {m.from} \in SUBSET Voters("COMMIT", round[v], proposal[v])
      BY <2>1, <3>1, Zenon DEF Backed
    <3>3. CASE Cardinality(commits[v] \cup {m.from}) >= Quorum
      <4>1. Voted("COMMIT", round[v], proposal[v])
        BY <3>2, <3>3, CountedVotes, Zenon
      <4>2. state[v] \in {"Prepared", "CommitSent", "RoundChange"}
        BY <2>1, <2>4, Zenon DEF HandleCommit, Counts, Running, States
      <4> QED
        BY <2>4, <3>3, <4>1, <4>2, Zenon DEF HandleCommit, CommitBlock
    <3>4. CASE ~(Cardinality(commits[v] \cup {m.from}) >= Quorum)
      BY <2>4, <3>4, Zenon DEF HandleCommit, vars
    <3> QED
      BY <3>3, <3>4, Zenon
  <2>5. CASE IgnoreVote(v, m)
    BY <2>5, Zenon DEF IgnoreVote
  <2>6. CASE HandleRoundChange(v, m)
    <3>1. CASE UNCHANGED vars
      BY <3>1, Zenon
    <3>2. CASE ~UNCHANGED vars
      <4> DEFINE R == ForRound(Records(v, m), m.round)
      <4>1. /\ m.type = "ROUND_CHANGE" /\ m.round > round[v] /\ m.round <= MaxRound
            /\ Cardinality(R) >= Quorum
            /\ \E prep \in HighestPrepared(R) :
                 \/ CoreEnterRound(v, m.round, prep)
                 \/ v = Proposer(m.round) /\ prep = NoBlock /\ Abandon(v)
        BY <2>6, <3>2, Zenon DEF HandleRoundChange, Records, ForRound
      <4>2. m.round \in Rounds /\ round[v] < m.round
        BY <2>1, <4>1, CoreTypes, BoundsAssumption DEF Rounds
      <4>3. R \in Certificates(m.round)
        BY <2>1, <4>1, <4>2, RecordsCertify, Zenon
      <4> HIDE DEF R
      <4>4. StartRound(v, m.round)
        BY <2>1, <4>1, <4>2, <4>3, EnterRoundImplements, Zenon DEF StartRound
      <4> QED
        BY <4>2, <4>4, Zenon
    <3> QED
      BY <3>1, <3>2, Zenon
  <2> QED
    BY <1>4, <2>2, <2>3, <2>4, <2>5, <2>6, Zenon DEF HandleMsg
<1> QED
  BY <1>1, <1>2, <1>3, <1>4, Zenon DEF CoreStep

-----------------------------------------------------------------------------
(* The maps stay backed *)

LEMMA InboxStep ==
  ASSUME CoreInv, NEW v, NEW S, sent \subseteq sent', Read(v, S)
  PROVE  inbox' \in [Detailed -> SUBSET sent']
  BY Zenon DEF CoreInv, CoreTypeOK, Read

\* A validator of which nothing changed.
LEMMA BackedFrame ==
  ASSUME sent \subseteq sent', NEW u \in Detailed, Backed(u),
         round'[u] = round[u], state'[u] = state[u], proposal'[u] = proposal[u],
         prepares'[u] = prepares[u], commits'[u] = commits[u],
         roundChanges'[u] = roundChanges[u], backlog'[u] = backlog[u]
  PROVE  Backed(u)'
<1>1. /\ Voters("PREPARE", round[u], proposal[u]) \subseteq Voters("PREPARE", round[u], proposal[u])'
      /\ Voters("COMMIT", round[u], proposal[u]) \subseteq Voters("COMMIT", round[u], proposal[u])'
  BY Zenon DEF Voters
<1> QED
  BY <1>1, Zenon DEF Backed

MapTypes ==
  /\ prepares \in [Detailed -> SUBSET Validators]
  /\ commits \in [Detailed -> SUBSET Validators]
  /\ roundChanges \in [Detailed -> SUBSET RoundChanges]
  /\ backlog \in [Detailed -> SUBSET Proposals]

\* The maps of the validators other than v are not touched.
Elsewhere(v) ==
  \A u \in Detailed \ {v} :
    /\ prepares'[u] = prepares[u] /\ commits'[u] = commits[u]
    /\ roundChanges'[u] = roundChanges[u] /\ backlog'[u] = backlog[u]

\* A new Core: there is nothing to back.
LEMMA NewCoreBacked ==
  ASSUME CoreInv, NEW v \in Detailed, NewCore(v)
  PROVE  MapTypes' /\ Backed(v)' /\ Elsewhere(v)
<1>1. /\ prepares'[v] = {} /\ commits'[v] = {} /\ roundChanges'[v] = {} /\ backlog'[v] = {}
      /\ MapTypes' /\ Elsewhere(v)
  BY Zenon DEF CoreInv, CoreTypeOK, NewCore, MapTypes, Elsewhere
<1>2. Cardinality({}) < Quorum
  BY QuorumFacts, FS_EmptySet DEF Quorum
<1>3. \A r \in Rounds : {x \in roundChanges'[v] : x.round = r} = {}
  BY <1>1, Zenon
<1> QED
  BY <1>1, <1>2, <1>3, Zenon DEF Backed

\* A step that leaves the round, the proposal and the maps of v alone.
LEMMA SameMapsBacked ==
  ASSUME CoreInv, NEW v \in Detailed, sent \subseteq sent', UNCHANGED mapVars,
         round'[v] = round[v],
         (prepares[v] = {} /\ commits[v] = {}) \/ proposal'[v] = proposal[v],
         state'[v] = "New" => state[v] = "New"
  PROVE  MapTypes' /\ Backed(v)' /\ Elsewhere(v)
<1>1. MapTypes' /\ Elsewhere(v)
  BY Zenon DEF CoreInv, CoreTypeOK, mapVars, MapTypes, Elsewhere
<1>2. Backed(v)
  BY CoreTypes, Zenon
<1>3. proposal'[v] = proposal[v] =>
        /\ Voters("PREPARE", round[v], proposal[v]) \subseteq Voters("PREPARE", round[v], proposal[v])'
        /\ Voters("COMMIT", round[v], proposal[v]) \subseteq Voters("COMMIT", round[v], proposal[v])'
  BY Zenon DEF Voters
<1> QED
  BY <1>1, <1>2, <1>3, Zenon DEF Backed, mapVars

LEMMA ProposalBacked ==
  ASSUME CoreInv, NEW v \in Detailed, NEW m \in sent, sent \subseteq sent',
         CoreHandleProposal(v, m)
  PROVE  MapTypes' /\ Backed(v)' /\ Elsewhere(v)
<1>1. Backed(v) /\ TypeOK /\ v \in Validators
  BY CoreTypes, Zenon
<1>2. CASE UNCHANGED mapVars /\ HandleProposal(v, m)
  <2>1. /\ prepares[v] = {} /\ commits[v] = {}
        /\ round'[v] = round[v] /\ state'[v] # "New"
    BY <1>1, <1>2, Zenon DEF HandleProposal, Backed, TypeOK
  <2> QED
    BY <1>2, <2>1, SameMapsBacked, Zenon
<1>3. CASE UNCHANGED <<vars, mapVars>>
  BY <1>3, SameMapsBacked, Zenon DEF vars
<1>4. CASE /\ m.type = "PROPOSAL" /\ m.round > round[v]
           /\ backlog' = [backlog EXCEPT ![v] = @ \cup {m}]
           /\ UNCHANGED <<vars, prepares, commits, roundChanges>>
  <2>1. m \in Proposals /\ m.round > 0
    BY <1>1, <1>4, MessageTypes, CoreTypes
  <2>2. MapTypes' /\ Elsewhere(v) /\ backlog'[v] = backlog[v] \cup {m}
    BY <1>4, <2>1, Zenon DEF CoreInv, CoreTypeOK, MapTypes, Elsewhere
  <2> QED
    BY <1>1, <1>4, <2>1, <2>2, Zenon DEF Backed, Voters, vars
<1> QED
  BY <1>2, <1>3, <1>4, Zenon DEF CoreHandleProposal

LEMMA PrepareBacked ==
  ASSUME CoreInv, NEW v \in Detailed, NEW m \in sent, sent \subseteq sent',
         HandlePrepare(v, m)
  PROVE  MapTypes' /\ Backed(v)' /\ Elsewhere(v)
<1>1. Backed(v) /\ TypeOK /\ v \in Validators /\ m.from \in Validators
  BY CoreTypes, Zenon
<1>2. m.from \in Voters("PREPARE", round[v], proposal[v])
  BY CountedIsBacked, Zenon DEF HandlePrepare
<1>3. MapTypes' /\ Elsewhere(v) /\ prepares'[v] = prepares[v] \cup {m.from}
  BY <1>1, Zenon DEF HandlePrepare, CoreInv, CoreTypeOK, MapTypes, Elsewhere
<1>4. state[v] # "New" /\ state'[v] # "New"
  BY <1>1, Zenon DEF HandlePrepare, Counts, TypeOK
<1> QED
  BY <1>1, <1>2, <1>3, <1>4, Zenon DEF Backed, Voters, HandlePrepare

LEMMA CommitBacked ==
  ASSUME CoreInv, NEW v \in Detailed, NEW m \in sent, sent \subseteq sent',
         HandleCommit(v, m)
  PROVE  MapTypes' /\ Backed(v)' /\ Elsewhere(v)
<1>1. Backed(v) /\ TypeOK /\ v \in Validators /\ m.from \in Validators
  BY CoreTypes, Zenon
<1>2. m.from \in Voters("COMMIT", round[v], proposal[v])
  BY CountedIsBacked, Zenon DEF HandleCommit
<1>3. MapTypes' /\ Elsewhere(v) /\ commits'[v] = commits[v] \cup {m.from}
  BY <1>1, Zenon DEF HandleCommit, CoreInv, CoreTypeOK, MapTypes, Elsewhere
<1>4. state[v] # "New" /\ state'[v] # "New"
  BY <1>1, Zenon DEF HandleCommit, Counts, TypeOK
<1> QED
  BY <1>1, <1>2, <1>3, <1>4, Zenon DEF Backed, Voters, HandleCommit

LEMMA RoundChangeBacked ==
  ASSUME CoreInv, NEW v \in Detailed, NEW m \in sent, sent \subseteq sent',
         HandleRoundChange(v, m)
  PROVE  MapTypes' /\ Backed(v)' /\ Elsewhere(v)
<1>1. CASE UNCHANGED <<vars, mapVars>>
  BY <1>1, SameMapsBacked, Zenon DEF vars
<1>2. CASE NewCore(v)
  BY <1>2, NewCoreBacked, Zenon
<1>3. CASE /\ m.type = "ROUND_CHANGE"
           /\ Cardinality(ForRound(Records(v, m), m.round)) < Quorum
           /\ roundChanges' = [roundChanges EXCEPT ![v] = Records(v, m)]
           /\ UNCHANGED <<vars, prepares, commits, backlog>>
  <2>1. Backed(v)
    BY CoreTypes, Zenon
  <2>2. /\ Records(v, m) \in SUBSET RoundChanges
        /\ Records(v, m) \subseteq sent
        /\ \A x, y \in Records(v, m) : x.from = y.from => x = y
        /\ \A r \in Rounds : Cardinality(ForRound(Records(v, m), r)) < Quorum
    BY <1>3, RecordsFacts, Zenon
  <2>3. MapTypes' /\ Elsewhere(v) /\ roundChanges'[v] = Records(v, m)
    BY <1>3, <2>2, Zenon DEF CoreInv, CoreTypeOK, MapTypes, Elsewhere
  <2> QED
    BY <1>3, <2>1, <2>2, <2>3 DEF Backed, Voters, ForRound, vars
<1> QED
  BY <1>1, <1>2, <1>3, Zenon DEF HandleRoundChange, CoreEnterRound, Records, ForRound

LEMMA CoreStepBacked ==
  ASSUME CoreInv, NEW v \in Detailed, CoreStep(v), sent \subseteq sent'
  PROVE  MapTypes' /\ Backed(v)' /\ Elsewhere(v)
<1>1. CASE CoreStartInstance(v) \/ CoreCrash(v)
  BY <1>1, NewCoreBacked, Zenon DEF CoreStartInstance, CoreEnterRound, CoreCrash
<1>2. CASE CoreTimeout(v)
  <2>1. /\ UNCHANGED mapVars /\ round'[v] = round[v] /\ proposal'[v] = proposal[v]
        /\ state'[v] # "New"
    BY <1>2, CoreTypes, Zenon DEF CoreTimeout, Timeout, TypeOK
  <2> QED
    BY <2>1, SameMapsBacked, Zenon
<1>3. ASSUME NEW m \in inbox[v], HandleMsg(v, m)
      PROVE  MapTypes' /\ Backed(v)' /\ Elsewhere(v)
  <2>1. m \in sent
    BY CoreTypes, Zenon
  <2>2. CASE IgnoreVote(v, m)
    BY <2>2, SameMapsBacked, Zenon DEF IgnoreVote, vars
  <2> QED
    BY <1>3, <2>1, <2>2, ProposalBacked, PrepareBacked, CommitBacked, RoundChangeBacked, Zenon
       DEF HandleMsg
<1> QED
  BY <1>1, <1>2, <1>3, Zenon DEF CoreStep

-----------------------------------------------------------------------------
(* The theorems about the core *)

LEMMA CoreInvInit == CoreInit => CoreInv
<1> SUFFICES ASSUME CoreInit PROVE CoreInv
  BY Zenon
<1>1. CoreTypeOK
  BY TypeInit, Zenon DEF CoreInit, CoreTypeOK
<1>2. Cardinality({}) < Quorum
  BY QuorumFacts, FS_EmptySet DEF Quorum
<1>3. ASSUME NEW v \in Detailed PROVE Backed(v)
  <2>1. prepares[v] = {} /\ commits[v] = {} /\ roundChanges[v] = {} /\ backlog[v] = {}
    BY Zenon DEF CoreInit
  <2>2. \A r \in Rounds : {x \in roundChanges[v] : x.round = r} = {}
    BY <2>1, Zenon
  <2> QED
    BY <1>2, <2>1, <2>2, Zenon DEF Backed
<1> QED
  BY <1>1, <1>3, Zenon DEF CoreInv, MapsBacked

LEMMA CoreNextImplements ==
  ASSUME CoreInv, [CoreNext]_coreVars
  PROVE  [Next]_vars
<1>1. ASSUME NEW v \in Detailed, CoreStep(v) PROVE [Next]_vars
  BY <1>1, CoreStepImplements, CoreTypes, Zenon DEF Next
<1>2. ASSUME NEW v \in Validators \ Detailed, ProtocolStep(v) PROVE [Next]_vars
  BY <1>2, Zenon DEF Next, ProtocolStep
<1> QED
  BY <1>1, <1>2, Zenon DEF CoreNext, coreVars

LEMMA CoreInvNext == CoreInv /\ [CoreNext]_coreVars => CoreInv'
<1> SUFFICES ASSUME CoreInv, [CoreNext]_coreVars PROVE CoreInv'
  BY Zenon
<1>1. TypeOK /\ TypeOK'
  BY CoreNextImplements, TypeNext, Zenon DEF CoreInv, CoreTypeOK
<1>2. CASE UNCHANGED coreVars
  BY <1>2 DEF coreVars, vars, mapVars, CoreInv, CoreTypeOK, MapsBacked, Backed, TypeOK, Voters
<1>3. ASSUME NEW v \in Detailed, CoreStep(v) PROVE CoreInv'
  <2>1. v \in Validators /\ (Step(v) \/ UNCHANGED vars)
    BY <1>3, CoreStepImplements, CoreTypes, Zenon
  <2>2. sent \subseteq sent'
    BY <1>1, <2>1, SentGrows, Zenon DEF vars
  <2>3. MapTypes' /\ Backed(v)' /\ Elsewhere(v)
    BY <1>3, <2>2, CoreStepBacked, Zenon
  <2>4. inbox' \in [Detailed -> SUBSET sent']
    BY <1>3, <2>2, InboxStep, Zenon
       DEF CoreStep, CoreStartInstance, HandleMsg, CoreTimeout, CoreCrash
  <2>5. ASSUME NEW u \in Detailed, u # v PROVE Backed(u)'
    <3>1. round'[u] = round[u] /\ state'[u] = state[u] /\ proposal'[u] = proposal[u]
      BY <1>1, <2>1, <2>5, Frame, CoreTypes, Zenon DEF vars
    <3> QED
      BY <2>2, <2>3, <2>5, <3>1, BackedFrame, CoreTypes, Zenon DEF Elsewhere
  <2> QED
    BY <1>1, <2>3, <2>4, <2>5, Zenon DEF CoreInv, CoreTypeOK, MapsBacked, MapTypes
<1>4. ASSUME NEW v \in Validators \ Detailed, ProtocolStep(v) PROVE CoreInv'
  <2>1. sent \subseteq sent'
    BY <1>1, <1>4, SentGrows, Zenon DEF ProtocolStep
  <2>2. inbox' \in [Detailed -> SUBSET sent']
    BY <1>4, <2>1, InboxStep, Zenon DEF ProtocolStep
  <2>3. ASSUME NEW u \in Detailed PROVE Backed(u)'
    <3>1. round'[u] = round[u] /\ state'[u] = state[u] /\ proposal'[u] = proposal[u]
      BY <1>1, <1>4, Frame, CoreTypes, Zenon DEF ProtocolStep
    <3> QED
      BY <1>4, <2>1, <3>1, BackedFrame, CoreTypes, Zenon DEF ProtocolStep, mapVars
  <2> QED
    BY <1>1, <1>4, <2>2, <2>3, Zenon DEF CoreInv, CoreTypeOK, MapsBacked, ProtocolStep, mapVars
<1> QED
  BY <1>2, <1>3, <1>4, Zenon DEF CoreNext

LEMMA CoreInvHolds == CoreSpec => []CoreInv
  BY CoreInvInit, CoreInvNext, PTL DEF CoreSpec

\* Every core is in a state of its state machine, its maps hold votes of
\* validators, and what is on its way to it was sent (core.New, HandleMsg).
THEOREM CoreTypeCorrect == CoreSpec => []CoreTypeOK
<1>1. CoreInv => CoreTypeOK
  BY Zenon DEF CoreInv
<1> QED
  BY <1>1, CoreInvHolds, PTL

\* What the maps of every core count was really sent, in its round and for its
\* proposal, once per sender (core.New, handlePrepare, handleCommit,
\* handleRoundChange).
THEOREM CoreMapsBacked == CoreSpec => []MapsBacked
<1>1. CoreInv => MapsBacked
  BY Zenon DEF CoreInv
<1> QED
  BY <1>1, CoreInvHolds, PTL

\* The core that keeps maps and handles one message at a time, with messages
\* lost, repeated and reordered and with restarts, implements the protocol.
THEOREM CoreImplementsProtocol == CoreSpec => Spec
<1>1. CoreInit => Init
  BY Zenon DEF CoreInit
<1>2. CoreInv /\ [CoreNext]_coreVars => [Next]_vars
  BY CoreNextImplements, Zenon
<1> QED
  BY <1>1, <1>2, CoreInvHolds, PTL DEF CoreSpec, Spec

\* Two cores that commit in the same round commit the same block: the safety
\* of the protocol holds of the handlers of core.go.
THEOREM CoreAgreement == CoreSpec => []RoundAgreement
  BY CoreImplementsProtocol, Agreement, PTL
=============================================================================
