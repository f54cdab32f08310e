-------------------------------- MODULE QBFT --------------------------------
(***************************************************************************)
(* The QBFT protocol that the validators run together to agree on the      *)
(* block of one height: what internal/consensus/qbft/core/core.go promises *)
(* once it is driven by internal/node/qbft_loop.go on every validator.     *)
(*                                                                         *)
(* This is the protocol level.  A validator acts on what has been sent: it *)
(* sends COMMIT when a quorum of PREPAREs exists, and so on.  Reading any  *)
(* subset of what was sent, in any order, covers delay, loss, reordering   *)
(* and duplication by gossip.  Module QBFTCore keeps one map per validator *)
(* and one handler per message, and implements this module.                *)
(*                                                                         *)
(* A block is abstracted to what its hash tells apart: the payload, who    *)
(* had it built, and the round and proposer seal in its Extra field.  The  *)
(* certificate that a proposal carries is abstracted to its existence: a   *)
(* proposal of round r is only sent by a validator that holds one.         *)
(***************************************************************************)
EXTENDS Integers, FiniteSets

CONSTANTS Validators,  \* the validator set of the parent's snapshot
          SignerList,  \* the same set, in the order of Snapshot.SignerList
          Height,      \* the block number being agreed on
          MaxRound,    \* bound on the rounds that are entered
          Payloads,    \* what the execution layer may return from GetPayload
          Unreliable,  \* validators whose instance may be interrupted
          NoBlock      \* no block: Go's nil header

N == Cardinality(Validators)

Rounds == 0..MaxRound

Blocks == [payload : Payloads, builder : Validators,
           round : Rounds, sealer : Validators]

\* Engine.Quorum
Quorum == ((2 * N) \div 3) + 1

ASSUME ValidatorsAssumption ==
  /\ IsFiniteSet(Validators)
  /\ Validators # {}
  /\ SignerList \in [1..N -> Validators]
  /\ Unreliable \subseteq Validators

ASSUME BoundsAssumption ==
  /\ Height \in Nat
  /\ MaxRound \in Nat
  /\ NoBlock \notin Blocks

\* Two quorums share more validators than may be interrupted.
ASSUME FaultAssumption == Cardinality(Unreliable) + N < 2 * Quorum

\* isQBFTProposerForRound
Proposer(r) == SignerList[((Height + r) % N) + 1]

-----------------------------------------------------------------------------
(* Messages *)

Proposals == [type : {"PROPOSAL"}, from : Validators, round : Rounds, block : Blocks]

Votes == [type : {"PREPARE", "COMMIT"}, from : Validators, round : Rounds, block : Blocks]

RoundChanges == [type : {"ROUND_CHANGE"}, from : Validators, round : 1..(MaxRound + 1),
                 prepRound : Rounds, prep : Blocks \cup {NoBlock}]

Proposal(v, r, b) == [type |-> "PROPOSAL", from |-> v, round |-> r, block |-> b]

Prepare(v, r, b) == [type |-> "PREPARE", from |-> v, round |-> r, block |-> b]

Commit(v, r, b) == [type |-> "COMMIT", from |-> v, round |-> r, block |-> b]

RoundChange(v, r, pr, b) ==
  [type |-> "ROUND_CHANGE", from |-> v, round |-> r, prepRound |-> pr, prep |-> b]

\* The state constants of the core; "Idle" when no instance runs.
States == {"Idle", "New", "Prepared", "CommitSent", "Committed", "RoundChange"}

-----------------------------------------------------------------------------
(* The block of a proposal *)

PreparedIn(R) == {m \in R : m.prep # NoBlock}

\* Mutant of HighestPrepared: the prepared blocks of a certificate are ignored.
HighestPreparedIgnored(R) == {NoBlock}

\* The block a new proposer must reuse.  The records are scanned in map order
\* with >=, so any of the highest ones may be the one that is kept.
HighestPrepared(R) ==
  IF PreparedIn(R) = {}
  THEN {NoBlock}
  ELSE {m.prep : m \in {x \in PreparedIn(R) :
                          \A y \in PreparedIn(R) : y.prepRound <= x.prepRound}}

\* buildQBFTProposal: BuildExtra writes round 0 into Extra whatever the round.
FreshBlock(v, p) == [payload |-> p, builder |-> v, round |-> 0, sealer |-> v]

\* reuseQBFTPreparedHeader: same payload, new round, new proposer seal.
ReusedBlock(b, r, v) ==
  [payload |-> b.payload, builder |-> b.builder, round |-> r, sealer |-> v]

ProposalBlocks(v, r, prep) ==
  IF prep = NoBlock THEN {FreshBlock(v, p) : p \in Payloads}
                    ELSE {ReusedBlock(prep, r, v)}

-----------------------------------------------------------------------------
VARIABLES round,     \* Core.round of the current instance
          state,     \* Core.state; "Idle" when no instance runs
          proposal,  \* Core.proposalHeader
          sent       \* every message ever broadcast

vars == <<round, state, proposal, sent>>

Running(v) == state[v] \notin {"Idle", "Committed"}

Init ==
  /\ round = [v \in Validators |-> 0]
  /\ state = [v \in Validators |-> "Idle"]
  /\ proposal = [v \in Validators |-> NoBlock]
  /\ sent = {}

\* Those who sent the given vote for block b in round r, and whether they are
\* a quorum.
Voters(t, r, b) ==
  {v \in Validators : [type |-> t, from |-> v, round |-> r, block |-> b] \in sent}

\* Mutant of Voted: the own vote counts twice.
VotedOneShort(t, r, b) == Cardinality(Voters(t, r, b)) >= Quorum - 1

Voted(t, r, b) == Cardinality(Voters(t, r, b)) >= Quorum

-----------------------------------------------------------------------------
(* Round-change certificates *)

Sent(t, r) == {m \in sent : m.type = t /\ m.round = r}

\* The round-change certificates for round r: one ROUND_CHANGE each from a
\* quorum of validators.
Certificates(r) ==
  {R \in SUBSET Sent("ROUND_CHANGE", r) :
     Cardinality(R) = Quorum /\ Cardinality({m.from : m \in R}) = Quorum}

-----------------------------------------------------------------------------
(* Actions *)

\* StartProposer: record the own proposal, broadcast PROPOSAL and PREPARE.
StartProposer(v, r, b) ==
  /\ round' = [round EXCEPT ![v] = r]
  /\ state' = [state EXCEPT ![v] = "Prepared"]
  /\ proposal' = [proposal EXCEPT ![v] = b]
  /\ sent' = sent \cup {Proposal(v, r, b), Prepare(v, r, b)}

\* A new Core waits for the round's proposal.
AwaitProposal(v, r) ==
  /\ round' = [round EXCEPT ![v] = r]
  /\ state' = [state EXCEPT ![v] = "New"]
  /\ proposal' = [proposal EXCEPT ![v] = NoBlock]
  /\ UNCHANGED sent

\* Backlog replay: the early proposal is accepted, but the decisions that
\* HandleMsg returns are discarded, so no PREPARE is broadcast.
ReplayBacklog(v, m) ==
  /\ round' = [round EXCEPT ![v] = m.round]
  /\ state' = [state EXCEPT ![v] = "Prepared"]
  /\ proposal' = [proposal EXCEPT ![v] = m.block]
  /\ UNCHANGED sent

\* The instance is abandoned and will start again at round 0: the process
\* crashed, or the proposer's execution layer did not return a payload.
Abandon(v) ==
  /\ v \in Unreliable
  /\ round' = [round EXCEPT ![v] = 0]
  /\ state' = [state EXCEPT ![v] = "Idle"]
  /\ proposal' = [proposal EXCEPT ![v] = NoBlock]
  /\ UNCHANGED sent

\* One iteration of the round loop of runQBFTInstance, up to its event loop.
EnterRound(v, r, prep) ==
  IF v = Proposer(r)
  THEN \E b \in ProposalBlocks(v, r, prep) : StartProposer(v, r, b)
  ELSE \/ AwaitProposal(v, r)
       \/ r > 0 /\ \E m \in Sent("PROPOSAL", r) : ReplayBacklog(v, m)

\* runQBFTLoop starts an instance for this height.
StartInstance(v) ==
  /\ state[v] = "Idle"
  /\ EnterRound(v, 0, NoBlock)

\* handleProposal
HandleProposal(v, m) ==
  /\ state[v] = "New"
  /\ state' = [state EXCEPT ![v] = "Prepared"]
  /\ proposal' = [proposal EXCEPT ![v] = m.block]
  /\ sent' = sent \cup {Prepare(v, round[v], m.block)}
  /\ UNCHANGED round

\* Mutant of SendCommit: it does not look at the state of the core.
SendCommitLate(v) ==
  /\ state[v] \in {"Prepared", "RoundChange"}
  /\ Voted("PREPARE", round[v], proposal[v])
  /\ state' = [state EXCEPT ![v] = "CommitSent"]
  /\ sent' = sent \cup {Commit(v, round[v], proposal[v])}
  /\ UNCHANGED <<round, proposal>>

\* handlePrepare, when the quorum is complete.
SendCommit(v) ==
  /\ state[v] = "Prepared"
  /\ Voted("PREPARE", round[v], proposal[v])
  /\ state' = [state EXCEPT ![v] = "CommitSent"]
  /\ sent' = sent \cup {Commit(v, round[v], proposal[v])}
  /\ UNCHANGED <<round, proposal>>

\* handleCommit, when the quorum is complete.  A validator commits on the
\* COMMITs of others before it sent its own, and after it timed out.
CommitBlock(v) ==
  /\ state[v] \in {"Prepared", "CommitSent", "RoundChange"}
  /\ Voted("COMMIT", round[v], proposal[v])
  /\ state' = [state EXCEPT ![v] = "Committed"]
  /\ UNCHANGED <<round, proposal, sent>>

\* Mutant of Timeout: only the state Prepared counts as prepared.
TimeoutForgets(v) ==
  /\ state[v] \in {"New", "Prepared", "CommitSent"}
  /\ LET prepared == state[v] = "Prepared"
     IN  sent' = sent \cup {RoundChange(v, round[v] + 1,
                                        IF prepared THEN round[v] ELSE 0,
                                        IF prepared THEN proposal[v] ELSE NoBlock)}
  /\ state' = [state EXCEPT ![v] = "RoundChange"]
  /\ UNCHANGED <<round, proposal>>

\* Timeout: the timer of a round fires once.
Timeout(v) ==
  /\ state[v] \in {"New", "Prepared", "CommitSent"}
  /\ LET prepared == state[v] # "New"
     IN  sent' = sent \cup {RoundChange(v, round[v] + 1,
                                        IF prepared THEN round[v] ELSE 0,
                                        IF prepared THEN proposal[v] ELSE NoBlock)}
  /\ state' = [state EXCEPT ![v] = "RoundChange"]
  /\ UNCHANGED <<round, proposal>>

\* handleRoundChange, when the quorum for round r is complete.
StartRound(v, r) ==
  /\ Running(v)
  /\ round[v] < r
  /\ \E R \in Certificates(r) : \E prep \in HighestPrepared(R) :
       \/ EnterRound(v, r, prep)
       \/ v = Proposer(r) /\ prep = NoBlock /\ Abandon(v)

\* The process stops; it restarts from its chain database.
Crash(v) ==
  /\ Running(v)
  /\ Abandon(v)

\* One step of validator v.
Step(v) ==
  \/ StartInstance(v)
  \/ \E m \in Sent("PROPOSAL", round[v]) : HandleProposal(v, m)
  \/ SendCommit(v)
  \/ CommitBlock(v)
  \/ Timeout(v)
  \/ \E r \in Rounds : StartRound(v, r)
  \/ Crash(v)

Next == \E v \in Validators : Step(v)

Spec == Init /\ [][Next]_vars

-----------------------------------------------------------------------------
(* Properties *)

\* Every variable keeps to the values Core and the round loop can give it.
TypeOK ==
  /\ round \in [Validators -> Rounds]
  /\ state \in [Validators -> States]
  /\ proposal \in [Validators -> Blocks \cup {NoBlock}]
  /\ sent \subseteq Proposals \cup Votes \cup RoundChanges

Body(b) == <<b.builder, b.payload>>

\* Two validators that commit in the same round commit the same block, even
\* if a minority of validators forgot its votes and voted again (handlePrepare
\* and handleCommit count distinct senders up to Engine.Quorum).
RoundAgreement ==
  \A u, v \in Validators :
    (state[u] = "Committed" /\ state[v] = "Committed" /\ round[u] = round[v])
      => proposal[u] = proposal[v]

\* A block committed in a round is the one proposed in the next round, with
\* the same payload: every certificate for that round holds a ROUND_CHANGE of
\* a validator that had sent COMMIT (Timeout, handleRoundChange), provided the
\* proposer of the committed round was not itself restarted.
NextRoundKeepsCommitted ==
  \A v \in Validators :
    (state[v] = "Committed" /\ Proposer(round[v]) \notin Unreliable)
      => \A m \in Sent("PROPOSAL", round[v] + 1) : Body(m.block) = Body(proposal[v])

\* A validator that was never interrupted takes its COMMIT of a round along
\* when it asks for the next one, and sends no COMMIT afterwards (Timeout,
\* handlePrepare).
RoundChangeCarriesCommit ==
  \A r \in Rounds : \A c \in Sent("COMMIT", r), m \in Sent("ROUND_CHANGE", r + 1) :
    (c.from = m.from /\ c.from \notin Unreliable)
      => m.prep = c.block /\ m.prepRound = r

-----------------------------------------------------------------------------
(* Why they hold: the parts of an inductive invariant.  A validator outside  *)
(* Unreliable never goes back to an earlier round of its instance.           *)

Reliable == Validators \ Unreliable

\* A reliable validator that sent COMMIT has left the round, or still holds
\* the block and will not send another COMMIT in it.
CommitKept ==
  \A m \in sent : (m.type = "COMMIT" /\ m.from \in Reliable) =>
    /\ state[m.from] # "Idle"
    /\ m.round <= round[m.from]
    /\ m.round = round[m.from] =>
         /\ proposal[m.from] = m.block
         /\ state[m.from] \in {"CommitSent", "Committed", "RoundChange"}

\* A reliable validator sends COMMIT for one block in a round.
OneCommit ==
  \A c, d \in sent :
    (/\ c.type = "COMMIT" /\ d.type = "COMMIT" /\ c.round = d.round
     /\ c.from = d.from /\ c.from \in Reliable) => c.block = d.block

\* A reliable validator that asked for a round is there, or waits for it.
RoundChangeKept ==
  \A m \in sent : (m.type = "ROUND_CHANGE" /\ m.from \in Reliable) =>
    /\ state[m.from] # "Idle"
    /\ \/ m.round <= round[m.from]
       \/ /\ m.round = round[m.from] + 1
          /\ state[m.from] \in {"Committed", "RoundChange"}

CommittedByQuorum ==
  \A v \in Validators :
    state[v] = "Committed" => Voted("COMMIT", round[v], proposal[v])

Proposed(r, b) == \E m \in Sent("PROPOSAL", r) : m.block = b

\* Every block that is held, voted for or carried to the next round was
\* proposed in its round.
BlocksProposed ==
  /\ \A v \in Validators : proposal[v] # NoBlock => Proposed(round[v], proposal[v])
  /\ \A m \in sent : m.type = "COMMIT" => Proposed(m.round, m.block)
  /\ \A m \in sent : (m.type = "ROUND_CHANGE" /\ m.prep # NoBlock) =>
       m.round = m.prepRound + 1 /\ Proposed(m.prepRound, m.prep)

\* A reliable proposer proposes once in a round.
OneProposal ==
  /\ \A m \in sent : m.type = "PROPOSAL" =>
       /\ m.from = Proposer(m.round)
       /\ m.from \in Reliable => state[m.from] # "Idle" /\ m.round <= round[m.from]
  /\ \A m, n \in sent :
       (/\ m.type = "PROPOSAL" /\ n.type = "PROPOSAL" /\ m.round = n.round
        /\ Proposer(m.round) \in Reliable) => m.block = n.block

\* The block of a later round follows from a certificate.
ProposalJustified ==
  \A m \in sent : (m.type = "PROPOSAL" /\ m.round > 0) =>
    \E R \in Certificates(m.round) : \E prep \in HighestPrepared(R) :
      m.block \in ProposalBlocks(m.from, m.round, prep)

IndInv ==
  /\ TypeOK
  /\ CommitKept
  /\ OneCommit
  /\ RoundChangeKept
  /\ CommittedByQuorum
  /\ BlocksProposed
  /\ OneProposal
  /\ ProposalJustified
  /\ RoundChangeCarriesCommit

-----------------------------------------------------------------------------
(* What the documentation says *)

\* "once a block is committed it can never be reverted, so there is never a
\* competing fork to resolve" (docs/qbft.md): one payload per height.
Finality ==
  \A u, v \in Validators :
    (state[u] = "Committed" /\ state[v] = "Committed")
      => Body(proposal[u]) = Body(proposal[v])
=============================================================================
