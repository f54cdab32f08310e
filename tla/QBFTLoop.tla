------------------------------ MODULE QBFTLoop ------------------------------
(***************************************************************************)
(* The goroutines of a QBFT validator over several heights: runQBFTLoop    *)
(* with its round loop and its bounded message channel, the two gossip     *)
(* subscriptions of the P2P host, and the block production that            *)
(* handleBlock schedules (internal/node/qbft_loop.go, block_processor.go,  *)
(* block_producer.go, internal/p2p/host.go).                               *)
(*                                                                         *)
(* QBFT and QBFTCore look at the votes of one height.  Here the votes are  *)
(* as simple as the code of the validators allows (nobody deviates or      *)
(* restarts), and what surrounds them is in detail: the order in which     *)
(* messages reach a validator, what a full channel does, where a height    *)
(* begins and ends, and what else writes to the store.                     *)
(*                                                                         *)
(* A header is the branch it commits to, as in ForkChoice, without the     *)
(* total difficulty: a QBFT block weighs 1, so the longest branch is the   *)
(* heaviest.  Messages arrive in any order, and at any point of the loop.  *)
(* Rounds from MaxRound on, and those of QuietHeights, are long enough for *)
(* their messages; the timer of any other round may fire at any time.      *)
(***************************************************************************)
EXTENDS Integers, Sequences, FiniteSets

CONSTANTS Validators,   \* the validator set, which no epoch block changes
          SignerList,   \* the same set, in the order of Snapshot.SignerList
          ChannelSize,  \* capacity of qbftMsgCh, 64 in the code
          Lag,          \* by how many heights a message may arrive late
          MaxHeight,    \* bound on the heights that are started
          MaxRound,     \* the first round that no timer ends
          QuietHeights, \* heights in which no timer ends a round
          NoHeader      \* Go's nil header

ASSUME LoopAssumption ==
  /\ IsFiniteSet(Validators)
  /\ SignerList \in [1..Cardinality(Validators) -> Validators]
  /\ ChannelSize \in Nat /\ MaxHeight \in Nat /\ MaxRound \in Nat
  /\ Lag \in Nat /\ QuietHeights \subseteq Nat

-----------------------------------------------------------------------------
(* Headers and messages *)

N == Cardinality(Validators)

\* Mutant of Quorum: two thirds, rounded down.
QuorumTwoThirds == (2 * N) \div 3

\* Engine.Quorum
Quorum == ((2 * N) \div 3) + 1

\* isQBFTProposerForRound
Proposer(number, r) == SignerList[((number + r) % N) + 1]

Genesis == <<>>

Parent(h) == SubSeq(h, 1, Len(h) - 1)

\* buildQBFTProposal.  The payload is asked for anew in each round r, but
\* BuildExtra writes round 0 into the header, whatever the round.
FreshHeader(v, parent, r) ==
  Append(parent, [builder |-> v, payload |-> r, round |-> 0, seals |-> {}])

\* reuseQBFTPreparedHeader: new round and proposer seal, no commit seals.
ReusedHeader(h, r) == [h EXCEPT ![Len(h)].round = r, ![Len(h)].seals = {}]

\* Engine.CommitBlock
SealedHeader(h, seals) == [h EXCEPT ![Len(h)].seals = seals]

\* Engine.VerifyHeader: commit seals of a quorum of distinct validators.
VerifyHeader(h) ==
  /\ h[Len(h)].seals \subseteq Validators
  /\ Cardinality(h[Len(h)].seals) >= Quorum

\* A ROUND_CHANGE carries the prepared header, a PROPOSAL or vote its block.
Message(type, v, number, r, h) ==
  [type |-> type, from |-> v, number |-> number, round |-> r, header |-> h]

-----------------------------------------------------------------------------
VARIABLES core,     \* the Core of the running instance, with its parent block
          pc,       \* where the loop goroutine is: at the top of runQBFTLoop
                    \* ("Start"), in qbftRoundLoop ("Select"), before the send
                    \* to its channel ("Echo"), at a CommitBlock decision
          out,      \* decisions to broadcast that are not dispatched yet
          chan,     \* qbftMsgCh
          known,    \* Store.blocks
          head,     \* Store.head
          prod,     \* whether scheduleBlockProduction has started a timer
          net,      \* QBFT messages on their way to a validator
          blocks    \* gossiped blocks on their way to a validator

loopVars == <<core, pc, out, chan>>

storeVars == <<known, head>>

vars == <<loopVars, storeVars, prod, net, blocks>>

\* core.New
NewCore(parent, r) ==
  [parent |-> parent, round |-> r, state |-> "New", proposal |-> NoHeader,
   prepares |-> {}, commits |-> {}, roundChanges |-> {}, backlog |-> {}]

Init ==
  /\ core = [v \in Validators |-> NewCore(Genesis, 0)]
  /\ pc = [v \in Validators |-> "Start"]
  /\ out = [v \in Validators |-> <<>>]
  /\ chan = [v \in Validators |-> <<>>]
  /\ known = [v \in Validators |-> {Genesis}]
  /\ head = [v \in Validators |-> Genesis]
  /\ prod = [v \in Validators |-> FALSE]
  /\ net = [v \in Validators |-> {}]
  /\ blocks = [v \in Validators |-> {}]

Height(v) == Len(core[v].parent) + 1

\* Store.AddBlock, for a header whose parent is known.
AddBlock(v, h) ==
  /\ known' = [known EXCEPT ![v] = @ \cup {h}]
  /\ head' = IF Len(h) > Len(head[v]) THEN [head EXCEPT ![v] = h] ELSE head

\* Publish to a gossip topic: everybody else receives it.
Publish(topic, v, m) ==
  [u \in Validators |-> IF u = v THEN topic[u] ELSE topic[u] \cup {m}]

-----------------------------------------------------------------------------
(* Instances and rounds *)

\* A Broadcast decision is published and then echoed, one after the other.
Dispatch(v, msgs) ==
  /\ out' = [out EXCEPT ![v] = msgs]
  /\ pc' = [pc EXCEPT ![v] = IF msgs = <<>> THEN "Select" ELSE "Echo"]
  /\ net' = IF msgs = <<>> THEN net ELSE Publish(net, v, Head(msgs))

\* The loop goroutine of v goes on with core c and the given broadcasts.
Continue(v, c, msgs) ==
  /\ core' = [core EXCEPT ![v] = c]
  /\ Dispatch(v, msgs)

\* One iteration of the round loop of runQBFTInstance.  The proposer reuses a
\* prepared header.  Another validator replays the early proposals of the old
\* core; the PREPARE that HandleMsg decides on is discarded.
EnterRound(v, parent, r, prepared, early) ==
  LET number == Len(parent) + 1
      h == IF prepared = NoHeader THEN FreshHeader(v, parent, r) ELSE ReusedHeader(prepared, r)
      c == NewCore(parent, r)
      With(b) == [c EXCEPT !.state = "Prepared", !.proposal = b]
  IN  \/ /\ v = Proposer(number, r)
         /\ Continue(v, With(h), <<Message("PROPOSAL", v, number, r, h),
                                   Message("PREPARE", v, number, r, h)>>)
      \/ /\ v # Proposer(number, r)
         /\ \E m \in early : Continue(v, With(m.header), <<>>)
      \/ /\ v # Proposer(number, r) /\ early = {}
         /\ Continue(v, c, <<>>)

\* runQBFTLoop: the next instance builds on the head of the store.
StartInstance(v) ==
  /\ pc[v] = "Start"
  /\ Len(head[v]) < MaxHeight
  /\ EnterRound(v, head[v], 0, NoHeader, {})
  /\ UNCHANGED <<chan, storeVars, prod, blocks>>

\* Mutant of Timeout: the timer of a round is periodic.
TimeoutRepeats(v) ==
  LET c == core[v]
      prepared == IF c.state \in {"New", "RoundChange"} THEN NoHeader ELSE c.proposal
  IN  /\ pc[v] = "Select"
      /\ c.round < MaxRound /\ Height(v) \notin QuietHeights
      /\ Continue(v, [c EXCEPT !.state = "RoundChange"],
                  <<Message("ROUND_CHANGE", v, Height(v), c.round + 1, prepared)>>)
      /\ UNCHANGED <<chan, storeVars, prod, blocks>>

\* Timeout of the core; the timer of a round fires once.
Timeout(v) ==
  LET c == core[v]
      prepared == IF c.state = "New" THEN NoHeader ELSE c.proposal
  IN  /\ pc[v] = "Select"
      /\ c.state \in {"New", "Prepared", "CommitSent"}
      /\ c.round < MaxRound /\ Height(v) \notin QuietHeights
      /\ Continue(v, [c EXCEPT !.state = "RoundChange"],
                  <<Message("ROUND_CHANGE", v, Height(v), c.round + 1, prepared)>>)
      /\ UNCHANGED <<chan, storeVars, prod, blocks>>

-----------------------------------------------------------------------------
(* HandleMsg *)

\* The message is for the height and the round of the core.
Current(v, m) == m.number = Height(v) /\ m.round = core[v].round

\* handleProposal.  A proposal for a later round is kept, whatever its height,
\* as long as there are proposals for less than 16 rounds.
HandleProposal(v, m) ==
  LET c == core[v]
  IN  /\ m.type = "PROPOSAL"
      /\ CASE c.state = "New" /\ Current(v, m) ->
                Continue(v, [c EXCEPT !.state = "Prepared", !.proposal = m.header],
                         <<Message("PREPARE", v, m.number, m.round, m.header)>>)
           [] /\ c.state = "New" /\ m.round > c.round
              /\ Cardinality({x.round : x \in c.backlog}) < 16 ->
                Continue(v, [c EXCEPT !.backlog = @ \cup {m}], <<>>)
           [] OTHER -> Continue(v, c, <<>>)

Counts(v, m) == core[v].state # "New" /\ Current(v, m) /\ m.header = core[v].proposal

\* handlePrepare
HandlePrepare(v, m) ==
  LET c == core[v]
      P == c.prepares \cup {m.from}
  IN  /\ m.type = "PREPARE"
      /\ CASE Counts(v, m) /\ c.state = "Prepared" /\ Cardinality(P) >= Quorum ->
                Continue(v, [c EXCEPT !.prepares = P, !.state = "CommitSent"],
                         <<Message("COMMIT", v, m.number, m.round, m.header)>>)
           [] Counts(v, m) /\ ~(c.state = "Prepared" /\ Cardinality(P) >= Quorum) ->
                Continue(v, [c EXCEPT !.prepares = P], <<>>)
           [] OTHER -> Continue(v, c, <<>>)

\* Mutant of HandleCommit: one COMMIT less than a quorum is enough.
HandleCommitOneShort(v, m) ==
  LET c == core[v]
      C == c.commits \cup {m.from}
  IN  /\ m.type = "COMMIT"
      /\ CASE Counts(v, m) /\ Cardinality(C) >= Quorum - 1 ->
                /\ core' = [core EXCEPT ![v].commits = C, ![v].state = "Committed"]
                /\ pc' = [pc EXCEPT ![v] = "Commit"]
                /\ UNCHANGED <<out, net>>
           [] OTHER -> Continue(v, c, <<>>)

\* handleCommit.  At the quorum the core decides to commit.
HandleCommit(v, m) ==
  LET c == core[v]
      C == c.commits \cup {m.from}
  IN  /\ m.type = "COMMIT"
      /\ CASE Counts(v, m) /\ Cardinality(C) >= Quorum ->
                /\ core' = [core EXCEPT ![v].commits = C, ![v].state = "Committed"]
                /\ pc' = [pc EXCEPT ![v] = "Commit"]
                /\ UNCHANGED <<out, net>>
           [] Counts(v, m) /\ Cardinality(C) < Quorum ->
                Continue(v, [c EXCEPT !.commits = C], <<>>)
           [] OTHER -> Continue(v, c, <<>>)

\* handleRoundChange.  At the quorum for a round the loop enters it.
HandleRoundChange(v, m) ==
  LET c == core[v]
      records == {x \in c.roundChanges : x.from # m.from} \cup {m}
      R == {x \in records : x.round = m.round}
      prepared == {x.header : x \in R} \ {NoHeader}
      early == {x \in c.backlog : x.number = m.number /\ x.round = m.round}
  IN  /\ m.type = "ROUND_CHANGE"
      /\ CASE m.number # Height(v) \/ m.round <= c.round -> Continue(v, c, <<>>)
           [] m.number = Height(v) /\ m.round > c.round /\ Cardinality(R) < Quorum ->
                Continue(v, [c EXCEPT !.roundChanges = records], <<>>)
           [] OTHER ->
                \E h \in IF prepared = {} THEN {NoHeader} ELSE prepared :
                  EnterRound(v, c.parent, m.round, h, early)

\* Mutant of Read: the channel is drained where a round begins, the mistake that
\* a comment in runQBFTInstance warns of.
ReadAndDrain(v) ==
  /\ pc[v] = "Select"
  /\ chan[v] # <<>>
  /\ LET m == Head(chan[v])
     IN  \/ HandleProposal(v, m)
         \/ HandlePrepare(v, m)
         \/ HandleCommit(v, m)
         \/ HandleRoundChange(v, m)
  /\ chan' = [chan EXCEPT ![v] = IF core'[v].round = core[v].round THEN Tail(@) ELSE <<>>]
  /\ UNCHANGED <<storeVars, prod, blocks>>

\* qbftRoundLoop takes a message from the channel.
Read(v) ==
  /\ pc[v] = "Select"
  /\ chan[v] # <<>>
  /\ LET m == Head(chan[v])
     IN  \/ HandleProposal(v, m)
         \/ HandlePrepare(v, m)
         \/ HandleCommit(v, m)
         \/ HandleRoundChange(v, m)
  /\ chan' = [chan EXCEPT ![v] = Tail(@)]
  /\ UNCHANGED <<storeVars, prod, blocks>>

-----------------------------------------------------------------------------
(* dispatchQBFTDecisions *)

\* Mutant of Echo: the own message is not sent to the channel.
EchoNot(v) ==
  /\ pc[v] = "Echo"
  /\ Dispatch(v, Tail(out[v]))
  /\ UNCHANGED <<core, chan, storeVars, prod, blocks>>

\* The blocking send to the own channel, and the next broadcast.
Echo(v) ==
  /\ pc[v] = "Echo"
  /\ Len(chan[v]) < ChannelSize
  /\ chan' = [chan EXCEPT ![v] = Append(@, Head(out[v]))]
  /\ Dispatch(v, Tail(out[v]))
  /\ UNCHANGED <<core, storeVars, prod, blocks>>

\* A CommitBlock decision: the sealed header goes to the store and to the
\* peers.  A header with an unknown parent is refused by AddBlock, which ends
\* the instance.  Both ways the loop starts again from the head.
CommitBlock(v) ==
  LET h == SealedHeader(core[v].proposal, core[v].commits)
  IN  /\ pc[v] = "Commit"
      /\ pc' = [pc EXCEPT ![v] = "Start"]
      /\ IF Parent(h) \in known[v]
         THEN AddBlock(v, h) /\ blocks' = Publish(blocks, v, h)
         ELSE UNCHANGED <<storeVars, blocks>>
      /\ UNCHANGED <<core, out, chan, prod, net>>

-----------------------------------------------------------------------------
(* The gossip subscriptions *)

\* Gossip keeps no order.  A message that is more than Lag heights late is given
\* up; with Lag = MaxHeight none is.
Arrives(v, m) == m.number + Lag >= Height(v)

\* subscribeQBFT and handleQBFTMsg: the message is dropped if the channel is full.
HandleQBFTMsg(v, m) ==
  /\ Arrives(v, m)
  /\ net' = [net EXCEPT ![v] = @ \ {m}]
  /\ chan' = IF Len(chan[v]) < ChannelSize THEN [chan EXCEPT ![v] = Append(@, m)] ELSE chan
  /\ UNCHANGED <<core, pc, out, storeVars, prod, blocks>>

\* subscribeBlocks and handleBlock, as one step.  A new head does not end the
\* running instance, and schedules block production, in QBFT as well.  A block
\* with an unknown parent starts a sync, which is not part of this module, as if
\* the sync failed.
HandleBlock(v, h) ==
  /\ blocks' = [blocks EXCEPT ![v] = @ \ {h}]
  /\ IF Parent(h) \in known[v] /\ VerifyHeader(h)
     THEN AddBlock(v, h) /\ prod' = [prod EXCEPT ![v] = @ \/ head'[v] # head[v]]
     ELSE UNCHANGED <<storeVars, prod>>
  /\ UNCHANGED <<loopVars, net>>

\* produceBlock, as one step: a header sealed by its proposer only is added to
\* the store and broadcast, and the next production is scheduled.
ProduceBlock(v) ==
  LET h == FreshHeader(v, head[v], 0)
  IN  /\ prod[v]
      /\ Len(head[v]) < MaxHeight
      /\ AddBlock(v, h)
      /\ blocks' = Publish(blocks, v, h)
      /\ UNCHANGED <<loopVars, prod, net>>

-----------------------------------------------------------------------------
(* The specification *)

LoopStep(v) ==
  \/ StartInstance(v)
  \/ Read(v)
  \/ Echo(v)
  \/ CommitBlock(v)

Deliver(v) ==
  \/ \E m \in net[v] : HandleQBFTMsg(v, m)
  \/ \E h \in blocks[v] : HandleBlock(v, h)

Next == \E v \in Validators : LoopStep(v) \/ Timeout(v) \/ Deliver(v)

\* The loops and gossip, as if every scheduled production failed at the execution
\* client.
LoopSpec == Init /\ [][Next]_vars

\* With the production that handleBlock schedules.
ProdNext == Next \/ \E v \in Validators : ProduceBlock(v)

ProdSpec == Init /\ [][ProdNext]_vars

-----------------------------------------------------------------------------
(* Properties *)

\* The loop never waits for room in the channel that only it empties: "so this
\* does not deadlock" (the comment on the echo in dispatchQBFTDecisions).
EchoHasRoom == \A v \in Validators : pc[v] = "Echo" => Len(chan[v]) < ChannelSize

\* The own votes for the proposal of a round are counted, or still on their
\* way to the core: "This must not be dropped: in a minimum-quorum network the
\* node's own vote is required to reach consensus" (dispatchQBFTDecisions).
OwnVotesKept ==
  \A v \in Validators :
    LET c == core[v]
        pending == {chan[v][i] : i \in DOMAIN chan[v]} \cup {out[v][i] : i \in DOMAIN out[v]}
        Kept(type, counted) ==
          v \in counted \/ Message(type, v, Height(v), c.round, c.proposal) \in pending
    IN  /\ c.state \in {"Prepared", "CommitSent"} => Kept("PREPARE", c.prepares)
        /\ c.state = "CommitSent" => Kept("COMMIT", c.commits)

\* "QBFT requires a quorum of validators to explicitly prepare and commit each
\* block before it is final" (README.md): the canonical chain of a validator
\* consists of blocks with the commit seals of a quorum.
CommittedChain ==
  \A v \in Validators : \A i \in DOMAIN head[v] : Cardinality(head[v][i].seals) >= Quorum

\* Up to three validators are all needed for a quorum, so nobody falls behind by
\* more than the block that is being committed.
AtMostOneBehind ==
  N <= 3 => \A u, v \in Validators : Len(head[u]) <= Len(head[v]) + 1

\* Up to three validators have the same block at every height that both have,
\* whatever rounds they went through: QBFT blocks "are immediately final so there
\* is never a competing fork" (CalcDifficulty).
ChainsAgree ==
  N <= 3 => \A u, v \in Validators : \A i \in DOMAIN head[u] \cap DOMAIN head[v] :
              head[u][i] = head[v][i]
=============================================================================
