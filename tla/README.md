# A TLA+ model of consensus-client-vibe

The repository is a consensus client for private Ethereum networks. It drives an
execution client through the Engine API and runs one of two consensus protocols:
Clique (proof of authority, EIP-225) or QBFT (three-phase voting). This directory
models the parts whose correctness depends on the order of events, checks them
with TLC on small instances, and proves the most important invariants with TLAPS
for all values of the constants.

## The system

| Part | Source | Module |
| --- | --- | --- |
| QBFT core state machine | `consensus/qbft/core/` | `QBFT` (protocol), `QBFTCore` (maps and handlers) |
| QBFT round loop, message channel | `node/qbft_loop.go` | `QBFT`, `QBFTCore` (one height), `QBFTLoop`, `QBFTProgress` (over heights) |
| QBFT engine, extra data | `consensus/qbft/engine.go`, `extra.go` | quorum and header identity in `QBFT`, seals in `QBFTLoop` |
| Fork-choice store | `forkchoice/store.go` | `ForkChoice` |
| Chain database, replay, reset | `forkchoice/db.go`, `node/sync.go` | `ChainStore` |
| Clique snapshot, signer rules | `consensus/clique/` | `CliqueSnapshot` |
| Block sync between peers, status handshake | `node/sync.go`, `p2p/sync.go`, `p2p/host.go` | `Sync` |
| Clique block production and processing, snapshot cache | `node/block_producer.go`, `block_processor.go`, `node.go` | `CliqueNode` |
| Gossip subscriptions and broadcasts | `p2p/host.go` | `QBFTLoop` |
| libp2p, execution-layer client, RPC, configuration | `p2p/`, `engine/`, `rpc/`, `config/`, `cmd/` | environment; see below |

(Paths are below `src/internal/`.) A node keeps one fork-choice store. With
Clique, a timer per node produces blocks, gossip delivers those of the others,
and each block is verified against the snapshot of its parent before it enters
the store. With QBFT, one goroutine runs an instance per height: it creates a
`Core` per round, feeds it messages from a channel, and stores the block that the
core commits. In both modes every block that enters the store is appended to a
file, which is replayed at the next start; a node that diverged from a peer
truncates the file, resets the store and imports the peer's chain. Peers compare
head numbers when they connect, and the one that is behind starts such a sync.

## Modules

**QBFT** is one height of the protocol, for all validators together. `round`,
`state` and `proposal` are the fields of the same name in each validator's
current `Core`; `sent` is every message ever broadcast. A validator acts when the
messages it needs exist, so delay, loss, reordering and duplication are all
covered. Actions: `StartInstance`, `HandleProposal`, `SendCommit` (handlePrepare
at its quorum), `CommitBlock` (handleCommit at its quorum, and the import),
`Timeout`, `StartRound` (handleRoundChange at its quorum, and the next iteration
of the round loop), `Crash`. A block is what its hash tells apart: payload,
builder, and the round and proposer seal in its extra data, which
`reuseQBFTPreparedHeader` rewrites. Validators follow the code; those in
`Unreliable` may also lose their instance (a crash, or a proposer whose execution
layer returns no payload) and start again at round 0 without memory. Storing a
committed block is part of the commit: a crash between the two is not modelled.

**QBFTCore** gives the validators in `Detailed` the maps of `Core` (`prepares`,
`commits`, `roundChanges`, `backlog`) and an inbox, with one action per handler,
early returns included. The other validators act as in `QBFT`. Its refinement
mapping is the identity, so that the run's property is `QBFT`'s own `Spec`.

**ForkChoice** is the store: total difficulties, the canonical index, head, safe
and finalized. A header hash is modelled by the branch it commits to, a sequence
of seals. Each operation holds the store's lock and is one action.

**ChainStore** adds the file. `AddAndAppend` is AddBlock with its append, which
may fail or be torn; `Truncate` and `ResetStore` are the two steps of resetChain,
between which other goroutines may add blocks; `Crash`, `Restart` (open, repair),
`ReplayRecord` and `SetDB` are a restart. The other variables are history: the
store at the crash (`before`), whether an append failed (`logged`), the blocks that
were appended before any failure (`durable`), and those appended between `Truncate`
and `ResetStore` (`slipped`).

**CliqueSnapshot** applies block after block to a snapshot: signers, recents,
votes and tally. `Apply` is VerifyHeader's signer checks followed by `apply`. An
epoch block carries any nonempty list, which replaces the signers: VerifyHeader
checks only the length of the list, and produceBlock takes it from a snapshot that
it reads before the head. `admitted` is history: such a list held an address that
was no signer.

**CliqueNode** runs the two kinds of goroutine of a Clique node on top of
`ForkChoice`. `gossip` is where handleBlock is, with its local variables: one
action per part of it that reads or writes shared state under a lock, from
`Receive` over computeSnapshotAt and computeSnapshot (`ComputeSnapshotAt` to
`CollectHeader`), AddBlock (`DropBlock`, `ImportBlock`), `ClearCache` and the
engine calls (`Deliver`) to `AdvanceSnapshot` and `Reschedule`. The P2P host calls
the handler for one block at a time, so there is one such goroutine. `producers`
are the goroutines of scheduleBlockProduction in the same way; several overlap
because cancelling a context stops one only at its next engine call (`Cancelled`,
`LateSchedule`). `headSnap` and `epochSnaps` are the snapshot cache. The signer set
is fixed here, since `CliqueSnapshot` has the votes. Two history variables describe
the behaviours a property is about: `clean`, that the execution layer took every
new head, no own block was added beside a head that had changed meanwhile, and no
snapshot was set for a block that had ceased to be the head; and `stalled`, that a
production ended on an execution-layer error.

**QBFTLoop** is what surrounds the votes: the loop goroutine of each validator over
several heights (`pc` says where it is), `qbftMsgCh` with its bound (`chan`), the
decisions that are not dispatched yet (`out`), the store, and gossip (`net`,
`blocks`). `Read` and `Timeout` are the two arms of qbftRoundLoop with the handler
they call, `Echo` is the blocking send to the own channel, `CommitBlock` the
import of a decided block, `HandleQBFTMsg` and `HandleBlock` are the callbacks of
the host, `ProduceBlock` is the production that handleBlock schedules. Nobody
deviates or restarts. Messages and blocks arrive in any order and at any point of
the loop, also while it is sending; `Lag` bounds by how many heights a message may
be late. A timer may fire at any time in the rounds below `MaxRound` of a height
outside `QuietHeights`; the other rounds are long enough for their messages.

**QBFTProgress** adds to `QBFTLoop` the history variable `missed`: a message was
lost for good, because the channel was full or because the core that read it had
no use for it yet, and no timer makes up for the loss. Its property says when the
loops may come to rest.

**Sync** is a set of nodes with their stores. `SendStatus`, `AnswerStatus` and
`ReadStatus` are the handshake of a connection. `session` is where syncWithPeer is,
with the responder's local variables: `RequestSync`, `ReadHead`, `CompareHead` and
`SendBlocks` (handleSyncRequest, between whose reads the responder's head may
change), `ResetChain`, `ImportSyncBlock`, `FinishSync`, `EndSync`, and the failures
of streams and imports, among them a snapshot that fails after its block was added
(`FailSnapshot`). Meanwhile blocks arrive (`ReceiveBlock`, `ImportBlock`: the lock is
only tested in between, and `StartSync` gives up if it meets the test) and one's
own are built and added; the status follows in a step of its own (`AnnounceBlock`,
`AnnounceOwnBlock`), and `added` says for which block it is due. The store of a
node is its known blocks and its head; `Store(n)` maps it to `ForkChoice`. `calm`
and `lost` are history: nothing but the session changed the two heads, and
something failed or was dropped.

Each module holds, before a definition, the mutants of it that show that the
properties are not vacuous.

## What the runs check

| Run | Instance | Result |
| --- | --- | --- |
| `qbft_rounds` | 3 validators, rounds 0 and 1, 2 payloads, the first proposer may restart | No two blocks commit in a round; an uninterrupted validator carries its COMMIT into its ROUND_CHANGE; the inductive invariant of the proofs holds. |
| `core_restart` | 2 validators, one in detail and unreliable, 2 rounds, redelivery | The core implements the protocol through round changes and restarts; its maps hold what was sent; a committed block is what the next round proposes. |
| `qbft_loop` | 2 validators, 2 heights, any order of messages, early timers in round 0 of height 2, a channel of 8 | The loop never waits for its own channel; own votes are kept; chains are committed and agree; nobody is two blocks behind; the loops come to rest before the last height only if a message was lost that no timer makes up for. |
| `chain_store` | trees of 5 blocks up to number 3, torn and failed writes, crashes anywhere | Index, head, branches and epoch pointers; a restart brings back every block appended before the first failure, nothing that the store did not have but what slipped into a reset, and the head if its block came back; it rebuilds the store exactly if nothing failed or slipped. |
| `sync` | 2 nodes with any chains up to number 2, responses of 2 blocks, one block produced | An undisturbed session adopts the chain of the peer; a session can last only while its peer has sessions too; nodes left alone reach the same height; stores implement `ForkChoice`. |
| `clique_node` | 3 signers, 4 blocks up to number 3, epoch 2, 2 producing goroutines | In clean behaviours the head snapshot is that of the head and its recents are the signers of the head's branch; the cache holds canonical snapshots only; a signer that may sign has a production pending. |
| `clique_snapshot` | 3 signers and a candidate, 10 blocks, epoch 6, any list in the epoch block | Tally equals votes; votes are live; within an epoch a majority changes the set by one address, at its end the signer of the epoch block, which stays in the set, may replace it; signers wait, as long as no list adds an address. |

Five runs check what a document or comment says and find that the code differs:

- `finality`: `src/docs/qbft.md` says that a committed block is never reverted. What a
  validator prepared is forgotten when a new `Core` is made. A block commits in
  round 0 at one validator, round 1 passes without a proposal, and round 2
  commits another block at the same height.
- `identical_headers`: the commit seals are those of the quorum that was read
  first, so that validators store the same block under different hashes.
- `qbft_production`: `src/README.md` says that a quorum commits each block. After a
  block from gossip, handleBlock schedules the production that Clique uses, and
  the validator puts a block with its own seal only into its canonical chain.
- `clique_node_wait`: `src/docs/Architecture.md` says that a signer waits
  `floor(N/2)+1` blocks. A reorg at an epoch block empties the cache, the snapshot
  is rebuilt from the epoch header with nobody in `Recents`, and the node signs
  two blocks after its last one although four signers have to wait three.
- `clique_recents`: when the signer set shrinks, one entry of `Recents` is skipped
  by the eviction and never leaves; `apply` refuses its signer for good although
  `HasRecentlySigned` clears it.

A sixth difference has no run of its own, because the model takes it as it is:
`src/scripts/demo/README.md` line 201 says that a majority must vote to change the
signer set, while `apply` adopts the list of an epoch block unseen. `SignerChanges`
states what the code does guarantee.

### Bounds

Two rounds are the first instance in which a certificate decides what is
proposed. Three validators with one of them unreliable meet the assumption of the
proofs (two quorums of 3 share three validators); `finality` has four, the first
number with a quorum that is not everybody, needs round 2, and `MCProposerLeft`
directs its search to the behaviours in which round 1 has no proposer left. In
the passing run of `QBFTCore` one core is in detail, the other at protocol level,
because the maps of a core are read by itself only; the backlog is replayed
after a restart. `QBFTLoop` has two heights, so that messages of one height meet
the loop at the next, and two validators, who both are needed for a quorum. Its
channel has 8 places: with 7 the loop blocks on its own send, and with 8 nothing is
on its way to a full channel, so that no message is dropped for want of room. What
such a drop cannot break is proved for every size of the channel. The timers of height 2 may fire
at any time in round 0; round `MaxRound = 1` and height 1 are long enough, and
`Lag = 2` means that no message is given up. The replay of an early proposal takes
four validators or a restart, so that here it is left to `core_restart`. `Sync` has
responses of two blocks for chains up to three, so that sessions of one and of
several requests occur, with and without a reset. In `ChainStore`, `MaxRecords = 5`
blocks up to number 3 with weights 1 and 2 are the least for a reorg to a shorter
branch (two in-turn blocks against three others), beside those to longer and
equally long ones; a torn record takes the place of one. With epoch 1 the pointers
move at every block and the two-epoch distance is reached, but dividing by the
epoch is the identity, and a branch that falls below an epoch boundary is left to
the proof. Ten blocks with epoch 6 let a signer be added and removed, its votes
expire, and blocks follow an epoch block with another list. In `CliqueNode`,
`MaxKnown = 4` blocks up to number 3 with epoch 2 have a reorg below, at and above
an epoch block, to branches that are longer or as long, and two `Producers` a
production that outlives its cancellation; `clique_node_wait` needs four signers
for a limit of 3 and has one producer, so that its trace is a sequence of complete
calls rather than a race. Blocks and rounds are bounded, so deadlock is not checked where
the bound ends every behaviour (`QBFT`, `QBFTCore`, `CliqueSnapshot`, `QBFTLoop`,
`Sync`); the others check it. `NoStall` and the liveness properties of `Sync` say in
which states a behaviour may end.

### Fairness

`Sync` assumes weak fairness of the goroutines of a node (`SessionStep`, `BlockStep`,
the goroutine that a handshake starts), which Go's scheduler gives; of delivery,
since a connected peer's subscription receives what is published; and of streams,
which have deadlines, so that `Handshake` and `SessionStep` include their failure.
No node has to produce a block. The other modules assume no fairness. For the QBFT
loops every step is progress within the bounds, since no message is sent twice, so
that `NoStall` is an invariant: where nothing can happen any more, the loops are
through or something was missed. Gossip guarantees no order, and the code repeats
no message; a vote without a timer behind it that is read before its proposal, or
a ROUND_CHANGE that reaches a core of an older height, does stop a height.

## What is proved

`QBFTProofs`, from the assumptions named in `QBFT`: the validators are a finite
set, and `FaultAssumption`: two quorums share more validators than may be
interrupted.

- `TypeCorrect`, and `Inductive`: `IndInv` is an invariant. Agreement alone is not
  inductive. The invariant adds what ties messages to the state of their sender:
  a reliable validator that sent COMMIT still holds the block or has left the
  round (`CommitKept`), has sent no other (`OneCommit`), and carries it in its
  ROUND_CHANGE (`RoundChangeCarriesCommit`, `RoundChangeKept`); every block was
  proposed (`BlocksProposed`), once per reliable proposer (`OneProposal`), and in
  later rounds on a certificate (`ProposalJustified`).
- `Agreement`: two committed blocks of one round each have a quorum of COMMITs;
  the quorums share a reliable validator, which sent only one.
- `CarriesCommit`, and `NextRoundKeeps`: a certificate and the committing quorum
  share a reliable validator, whose ROUND_CHANGE carries the committed block.

Its second half is about `QBFTCore`: `CoreImplementsProtocol`, every call on a detailed core is a step
of `QBFT` or leaves it alone, hence `CoreAgreement`. The invariant is
`CoreMapsBacked`: the votes in the maps were sent in the round and for the
proposal of the core, so that a map with a quorum of entries shows a quorum of
messages; a sender has one ROUND_CHANGE record, so that a quorum of records is a
certificate; and no quorum of records is left unused. `CoreTypeCorrect`: the maps,
the backlog and the inbox keep their types.

`QBFTLoopProofs`, for any number of validators, channel size and order of
delivery:

- `LoopCommits`: the canonical chains hold committed blocks only, unless block
  production is scheduled (the run `qbft_production` shows that it is). The
  invariant `LoopInv` ties a loop that is about to commit to a proposal and a
  quorum of commits, and says that every known block, not only the head, has its
  seals.
- `QuorumStaysClose`: a quorum has every canonical block of any given validator but
  the last; hence `LoopsTogether`, up to three validators are never more than one
  block apart. The invariant `BehindInv` follows a COMMIT through gossip, channel,
  core, seals and store: wherever it is, its sender has the block below.
- `OwnVotesReachCore`: an own COMMIT, and an own PREPARE in round 0 or of the
  proposer, is counted or on its way from the dispatch over the channel to the
  core, since the loop reads its channel only when nothing is left to dispatch
  (`OwnInv`).

`QBFTSmallProofs`, for up to three validators, where a quorum is everybody, with any
number of heights and rounds and any order of delivery:

- `ChainsNeverFork`: two canonical chains have the same block at every height that
  both have. (With four validators they need not: run `finality`.) The invariant
  `SmallInv` follows the position of a validator, which is its height, round and
  state and never goes back. A message tells how far its sender has come at least
  (`MsgOK`), a counted COMMIT also that its sender has stayed with that block
  (`CommitKept`), and a known block that everybody committed it, somebody to the
  end (`BlockOK`). A round is proposed in only after everybody asked for it, and
  who asked for it has not committed before; so there is one block per height
  (`OneBranch`), whose seals are those of everybody.
- `DecisionsAccepted`: the block that a core decides on has its parent in the store,
  so that AddBlock takes it and the instance does not end without a block.
- `OwnVotesNeverLost`: every own PREPARE and COMMIT is counted by the own core or on
  its way to it, in every round. A PREPARE would be lost if the proposal of a round
  were replayed from the backlog when the round begins; `PreparesInv` excludes it,
  because the proposer waits for the ROUND_CHANGE of everybody.

`QBFTRoomProofs`, for the same networks and any order of delivery: `EchoNeverWaits`,
the blocking echo finds room, if the channel has a place for each validator and each
of the `4 * MaxRound + 3` messages that a height of rounds up to `MaxRound` can have
from it, over `Lag + 3` heights (or over all heights, if these are fewer). For three
validators the 64 places of the code are enough with one round change per height
and nothing that is a height late, or without round changes and with messages up to
four heights late. `RoomInv` says that no two messages in the channel of a validator
and on their way to it are alike in sender, height and phase, and that a channel
spans from `Lag` heights below its reader to one above; `RoomCount` counts them. The
bound is sufficient and not the least one: the instance of the run needs 8 places.

`CliqueSnapshotProofs`: `SnapshotTypeCorrect`, and `SnapshotCorrect`: the tally which
`cast` and `uncast` maintain equals the count of the pending votes taken from
scratch, which `apply` keeps live; hence `TallyCorrect` and `VotesLive`, and with
them `ChangeRules`: the count that `apply` compares with half of the signers is that
of signers who asked for the change, and only an epoch block changes the set
otherwise. `WaitingRules` is the waiting rule under any votes, and under epoch lists
that add nobody. Its invariant `WaitInv` has three cases for who signed before: the
block is still in `Recents`; enough blocks have passed; or the address is no signer,
and the votes it needs to return take a block each, which is at least the wait. A
vote moves the limit by one at most, and a shorter list only lowers it
(`LimitMonotone`). A list that adds an address may raise the limit past an entry
that is gone already; TLC finds the early signer if the condition is dropped.

`ForkChoiceProofs`: `StoreTypeCorrect`, and `StoreCorrect` proves `StoreInv`, for any
weights, epoch and order of blocks; `IndexCorrect`, `HeadCorrect`, `PointersCorrect`
and `BranchesComplete` are its parts. The invariant needs `BranchesKnown`, so that
the walk to the common ancestor cannot miss a parent.

For the store and its file the same module proves `ChainStoreCorrect`, the store
keeps its invariants through crashes and replay (by way of `ChainImplementsStore`:
each step of the store is one of `ForkChoice`), `ChainTypeCorrect`, and what a restart
restores. `RestartCorrect`: every block that was appended before the first failure
is there again, nothing comes that was not there except what slipped into a reset,
and a head whose block came back is the head again. `ReplayCorrect`: without failures
the store is rebuilt exactly. What the records of a file make is a recursive notion;
the invariant `ReplayInv` states it without recursion, by a sequence of stores
(`IsRun`) that starts with the new store and of which each follows from the one
before by a record. `AddAndAppend` extends the sequence, `Restart` keeps the part that
repair keeps, and `ReplayRecord` moves along it.

`SyncProofs`, for any nodes, links, chains on disk and size of a response:

- `StoresRefine`: under sessions, resets, gossip and own blocks the store of each
  node, completed by `Store(n)` to all variables of `ForkChoice`, satisfies
  `StoreInv` and changes by `AddBlock` and `Reset` only. Each action either leaves a
  store alone, empties it, or adds a block whose parent is known (`StoreStep`), and
  a head that AddBlock leaves is a heaviest known block (`StoreOK`).
- `SyncCorrect`: an undisturbed session ends with the head of the peer. `Follow` says
  at each step of syncWithPeer how the head, the blocks still to be imported and
  the chain of the peer fit together: a response continues the own chain along
  that of the peer, from genesis after a reset, to its end unless it was full.

`CliqueNodeProofs`, for any signer list, epoch and number of production goroutines:

- `NodeTypeCorrect`.
- `HeadSnapshotCorrect` and `CacheCorrect`: in clean behaviours the head snapshot is
  that of the head and the cache is canonical. `CleanInv` says what each goroutine
  holds at each step: every snapshot in flight is faithful to the branch of its
  block, and while handleBlock has a new head without its snapshot (`Flying`) nobody
  else has a snapshot of that head (`NobodyHas`), so that an own block added
  meanwhile is one added beside a changed head, which ends the clean history.
- `ProductionGoesOn`: with no production left either somebody is on the way to
  scheduleBlockProduction or the current snapshot refuses this signer
  (`PendingInv`). It holds because a production that gives up asked the current
  snapshot, or somebody is about to schedule again.

The assumptions on constants are those that the modules name: finite or sequence
types; for `QBFT` the fault bound; for `Sync` that the chains on disk are
headers; for `CliqueNode` that the signer list is a sequence of signers, that a
seal weighs 2 in turn and 1 out of turn, and that "no snapshot" is not a snapshot.
TLC evaluates them in the runs.

Only model-checked:

- liveness (`SessionsEnd`, `Converges`) and `NoStall`, whose ENABLED is, like fairness,
  out of the prover's reach;
- `EchoHasRoom` in the channel of 8 places that the run has, fewer than
  `EchoNeverWaits` asks for.

For four validators and more `EchoHasRoom` and `OwnVotesKept` are neither checked nor
proved. A proposal that is replayed from the backlog then puts the core into a
round without a PREPARE of its own (a hazard in `PROJECT.json`), and what holds
for every number of validators is `OwnVotesReachCore`.

## Not modelled

- Messages of validators that deviate from the code, and cryptography: a message
  carries its sender.
- Transport (libp2p), HTTP and JWT, RPC views, configuration and logging: I/O
  without a protocol of their own.
- The execution layer: its answers are nondeterministic where they change what
  the node does.
- Header fields that no modelled check reads.
- Changes of the signer set in `CliqueNode`: the set is fixed there, and what votes
  and epoch lists do to it is `CliqueSnapshot`'s, along one chain.
- What `clean` and `lost` leave out: the head snapshot after a failure of the
  execution layer or after an own block beside another head, and convergence
  after a failed sync. The steps are in the models, and no property is claimed of
  the states they lead to but those of the store.
- Changes of the QBFT validator set: an epoch block lists the validators of its
  parent (BuildExtra), so an instance never sees another set.
- Sync between QBFT validators with running instances: `Sync` has the sessions
  and `QBFTLoop` the instances, each with its own goroutines only.
- A crash between the two parts of a commit (vote counted, block stored), and
  restarts in `QBFTLoop`.
