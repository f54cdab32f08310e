------------------------------ MODULE QBFTCore ------------------------------
(***************************************************************************)
(* The QBFT core of internal/consensus/qbft/core/core.go with its maps,    *)
(* one action per call that internal/node/qbft_loop.go makes on it: a      *)
(* message taken from the channel, the round timer, the start of an        *)
(* instance.  A round change replaces the Core by a new one, so that the   *)
(* maps of the old round, and what they held for later rounds, are gone.   *)
(*                                                                         *)
(* The validators in Detailed run this core; the others act as module QBFT *)
(* lets them.  The state of the protocol level is the same for both, so    *)
(* that the refinement mapping is the identity.                            *)
(*                                                                         *)
(* inbox[v] holds the messages that may still be delivered to v.  It is a  *)
(* set, since gossip delivers in any order; a message that is never read   *)
(* stands for one that was lost.  With Redelivery, gossip may deliver a    *)
(* message again after it was read; without, a message is read once.       *)
(***************************************************************************)
EXTENDS QBFT

CONSTANTS Detailed,    \* the validators whose core is modelled in detail
          MaxBacklog,  \* distinct rounds in the backlog, 16 in the code
          Redelivery   \* whether gossip may deliver a message twice

ASSUME CoreAssumption ==
  Detailed \subseteq Validators /\ MaxBacklog \in Nat /\ Redelivery \in BOOLEAN

VARIABLES prepares,      \* Core.prepares: whose PREPARE for the proposal was read
          commits,       \* Core.commits: whose COMMIT for the proposal was read
          roundChanges,  \* Core.roundChanges: the last ROUND_CHANGE of each sender
          backlog,       \* Core.backlog: proposals for later rounds
          inbox          \* what qbftMsgCh and gossip may still deliver

mapVars == <<prepares, commits, roundChanges, backlog>>

coreVars == <<vars, mapVars, inbox>>

CoreInit ==
  /\ Init
  /\ prepares = [v \in Detailed |-> {}]
  /\ commits = [v \in Detailed |-> {}]
  /\ roundChanges = [v \in Detailed |-> {}]
  /\ backlog = [v \in Detailed |-> {}]
  /\ inbox = [v \in Detailed |-> {}]

-----------------------------------------------------------------------------
(* The channel and the maps *)

\* v took the messages of read from its channel.  What the step broadcasts goes
\* to the peers and is echoed to v itself (dispatchQBFTDecisions).
Read(v, read) ==
  inbox' = [u \in Detailed |->
              (IF u = v /\ ~Redelivery THEN inbox[u] \ read ELSE inbox[u])
                 \cup (sent' \ sent)]

\* Mutant of NewCore: the votes of the old round are kept.
NewCoreKeepsVotes(v) ==
  /\ roundChanges' = [roundChanges EXCEPT ![v] = {}]
  /\ backlog' = [backlog EXCEPT ![v] = {}]
  /\ UNCHANGED <<prepares, commits>>

\* core.New: empty maps.
NewCore(v) ==
  /\ prepares' = [prepares EXCEPT ![v] = {}]
  /\ commits' = [commits EXCEPT ![v] = {}]
  /\ roundChanges' = [roundChanges EXCEPT ![v] = {}]
  /\ backlog' = [backlog EXCEPT ![v] = {}]

\* verifyRCC: the certificate of a proposal for a round above 0 is valid.
VerifyRCC(m) == m.round > 0 => Certificates(m.round) # {}

-----------------------------------------------------------------------------
(* Rounds *)

\* One iteration of the round loop of runQBFTInstance.  Another validator than
\* the proposer replays the backlog of the old Core for this round.
CoreEnterRound(v, r, prep) ==
  LET early == {m \in backlog[v] : m.round = r /\ VerifyRCC(m)}
  IN  /\ NewCore(v)
      /\ \/ /\ v = Proposer(r)
            /\ \E b \in ProposalBlocks(v, r, prep) : StartProposer(v, r, b)
         \/ /\ v # Proposer(r)
            /\ \E m \in early : ReplayBacklog(v, m)
         \/ /\ v # Proposer(r) /\ early = {}
            /\ AwaitProposal(v, r)

\* runQBFTLoop starts an instance; there is no old Core to replay from.
CoreStartInstance(v) ==
  /\ state[v] = "Idle"
  /\ CoreEnterRound(v, 0, NoBlock)
  /\ Read(v, {})

\* The process restarts: nothing of the height is on disk.
CoreCrash(v) ==
  /\ Crash(v)
  /\ NewCore(v)
  /\ Read(v, inbox[v])

\* Timeout, which the timer of a round calls at most once.
CoreTimeout(v) ==
  /\ Timeout(v)
  /\ Read(v, {})
  /\ UNCHANGED mapVars

-----------------------------------------------------------------------------
(* HandleMsg *)

BacklogFull(v) == Cardinality({m.round : m \in backlog[v]}) >= MaxBacklog

\* Mutant of CoreHandleProposal: any message of a later round is put off.
CoreHandleProposalAnyType(v, m) ==
  /\ state[v] = "New" /\ m.round > round[v] /\ ~BacklogFull(v)
  /\ backlog' = [backlog EXCEPT ![v] = @ \cup {m}]
  /\ UNCHANGED <<vars, prepares, commits, roundChanges>>

\* handleProposal
CoreHandleProposal(v, m) ==
  /\ m.type = "PROPOSAL"
  /\ \/ /\ m.round = round[v] /\ VerifyRCC(m)
        /\ HandleProposal(v, m)
        /\ UNCHANGED mapVars
     \/ /\ state[v] = "New" /\ m.round > round[v] /\ ~BacklogFull(v)
        /\ backlog' = [backlog EXCEPT ![v] = @ \cup {m}]
        /\ UNCHANGED <<vars, prepares, commits, roundChanges>>
     \/ /\ \/ state[v] # "New"
           \/ m.round < round[v]
           \/ m.round = round[v] /\ ~VerifyRCC(m)
           \/ m.round > round[v] /\ BacklogFull(v)
        /\ UNCHANGED <<vars, mapVars>>

\* A vote counts if it is for the round and the proposal of this Core.
Counts(v, m) ==
  state[v] # "New" /\ m.round = round[v] /\ m.block = proposal[v]

HandlePrepare(v, m) ==
  LET P == prepares[v] \cup {m.from}
      complete == state[v] = "Prepared" /\ Cardinality(P) >= Quorum
  IN  /\ m.type = "PREPARE"
      /\ Counts(v, m)
      /\ prepares' = [prepares EXCEPT ![v] = P]
      /\ state' = IF complete THEN [state EXCEPT ![v] = "CommitSent"] ELSE state
      /\ sent' = IF complete THEN sent \cup {Commit(v, round[v], proposal[v])} ELSE sent
      /\ UNCHANGED <<round, proposal, commits, roundChanges, backlog>>

\* The final header takes its seals from commits[v] when the quorum is there.
HandleCommit(v, m) ==
  LET C == commits[v] \cup {m.from}
  IN  /\ m.type = "COMMIT"
      /\ Counts(v, m)
      /\ commits' = [commits EXCEPT ![v] = C]
      /\ state' = IF Cardinality(C) >= Quorum
                  THEN [state EXCEPT ![v] = "Committed"] ELSE state
      /\ UNCHANGED <<round, proposal, sent, prepares, roundChanges, backlog>>

IgnoreVote(v, m) ==
  /\ m.type \in {"PREPARE", "COMMIT"}
  /\ ~Counts(v, m)
  /\ UNCHANGED <<vars, mapVars>>

\* Mutant of HandleRoundChange: one record less than a quorum starts the round.
HandleRoundChangeOneShort(v, m) ==
  LET records == {x \in roundChanges[v] : x.from # m.from} \cup {m}
      R == {x \in records : x.round = m.round}
  IN  /\ m.type = "ROUND_CHANGE"
      /\ m.round > round[v]
      /\ \/ /\ Cardinality(R) < Quorum - 1
            /\ roundChanges' = [roundChanges EXCEPT ![v] = records]
            /\ UNCHANGED <<vars, prepares, commits, backlog>>
         \/ /\ Cardinality(R) >= Quorum - 1 /\ m.round <= MaxRound
            /\ \E prep \in HighestPrepared(R) : CoreEnterRound(v, m.round, prep)

\* The ROUND_CHANGE replaces the sender's earlier one, whatever round that one
\* asked for.  A quorum for a round starts it.
HandleRoundChange(v, m) ==
  LET records == {x \in roundChanges[v] : x.from # m.from} \cup {m}
      R == {x \in records : x.round = m.round}
  IN  /\ m.type = "ROUND_CHANGE"
      /\ \/ /\ m.round <= round[v]
            /\ UNCHANGED <<vars, mapVars>>
         \/ /\ m.round > round[v]
            /\ Cardinality(R) < Quorum
            /\ roundChanges' = [roundChanges EXCEPT ![v] = records]
            /\ UNCHANGED <<vars, prepares, commits, backlog>>
         \/ /\ m.round > round[v] /\ m.round <= MaxRound
            /\ Cardinality(R) >= Quorum
            /\ \E prep \in HighestPrepared(R) :
                 \/ CoreEnterRound(v, m.round, prep)
                 \/ v = Proposer(m.round) /\ prep = NoBlock /\ Abandon(v) /\ NewCore(v)

HandleMsg(v, m) ==
  /\ Running(v)
  /\ \/ CoreHandleProposal(v, m)
     \/ HandlePrepare(v, m)
     \/ HandleCommit(v, m)
     \/ IgnoreVote(v, m)
     \/ HandleRoundChange(v, m)
  /\ Read(v, {m})

CoreStep(v) ==
  \/ CoreStartInstance(v)
  \/ \E m \in inbox[v] : HandleMsg(v, m)
  \/ CoreTimeout(v)
  \/ CoreCrash(v)

ProtocolStep(v) == Step(v) /\ Read(v, {}) /\ UNCHANGED mapVars

CoreNext ==
  \/ \E v \in Detailed : CoreStep(v)
  \/ \E v \in Validators \ Detailed : ProtocolStep(v)

CoreSpec == CoreInit /\ [][CoreNext]_coreVars

-----------------------------------------------------------------------------
(* Properties *)

\* The maps hold what HandleMsg may put into them.
CoreTypeOK ==
  /\ TypeOK
  /\ prepares \in [Detailed -> SUBSET Validators]
  /\ commits \in [Detailed -> SUBSET Validators]
  /\ roundChanges \in [Detailed -> SUBSET RoundChanges]
  /\ backlog \in [Detailed -> SUBSET Proposals]
  /\ inbox \in [Detailed -> SUBSET sent]

\* What the maps of v count is real: the votes were sent in this round and for
\* this proposal, a ROUND_CHANGE counts once for its sender and never makes a
\* quorum that was not acted on, and only proposals of later rounds are put off.
Backed(v) ==
  /\ prepares[v] \subseteq Voters("PREPARE", round[v], proposal[v])
  /\ commits[v] \subseteq Voters("COMMIT", round[v], proposal[v])
  /\ state[v] = "New" => prepares[v] = {} /\ commits[v] = {}
  /\ roundChanges[v] \subseteq sent
  /\ \A x, y \in roundChanges[v] : x.from = y.from => x = y
  /\ \A r \in Rounds : Cardinality({x \in roundChanges[v] : x.round = r}) < Quorum
  /\ \A m \in backlog[v] : m \in sent /\ m.round > 0

\* Votes, records and put-off proposals are backed at every validator, however
\* rounds change and messages repeat: a new Core starts with empty maps
\* (core.New), and handlePrepare and handleCommit skip what is not for its
\* round and proposal.
MapsBacked == \A v \in Detailed : Backed(v)

\* "All validators produce an identical finalised header" (docs/qbft.md:34, and
\* the comment in handleCommit): two validators that commit the same proposal
\* put the same seals into the header.
IdenticalHeaders ==
  \A u, v \in Detailed :
    (state[u] = "Committed" /\ state[v] = "Committed" /\ proposal[u] = proposal[v])
      => commits[u] = commits[v]
=============================================================================
