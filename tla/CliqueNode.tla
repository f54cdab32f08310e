----------------------------- MODULE CliqueNode -----------------------------
(***************************************************************************)
(* One Clique node: the goroutine that processes gossiped blocks           *)
(* (internal/node/block_processor.go), the goroutines that produce blocks  *)
(* (block_producer.go), and the snapshot cache that both use (node.go), on *)
(* top of the fork-choice store of module ForkChoice.                      *)
(*                                                                         *)
(* The signer set is fixed (module CliqueSnapshot has the votes), so that  *)
(* a snapshot is the block it was taken at and Recents.  The seal of a     *)
(* block is its signer and whether it claims to be in turn.  A step is     *)
(* what happens under one lock; the goroutines interleave between steps.   *)
(* The blocks of other nodes follow the rules on their own branch, and the *)
(* blocks of one signer on one parent are not told apart.  Sync sessions   *)
(* are not part of this module: a block whose parent is unknown is dropped.*)
(***************************************************************************)
EXTENDS ForkChoice, FiniteSets

CONSTANTS SignerList,  \* Snapshot.SignerList
          Me,          \* Node.signerAddr
          Producers,   \* bound: goroutines of scheduleBlockProduction at a time
          MaxKnown,    \* bound on the blocks in the store
          NoSnap       \* no snapshot: an error of apply

Signers == {SignerList[i] : i \in 1..Len(SignerList)}

ASSUME SealsAssumption ==
  /\ Me \in Signers /\ SignerList \in Seq(Signers)
  /\ Seals = [signer : Signers, inturn : BOOLEAN]
  /\ Difficulty = [s \in Seals |-> IF s.inturn THEN 2 ELSE 1]
  /\ Epoch > 0

-----------------------------------------------------------------------------
(* Snapshots *)

Snapshots == [hash : Headers, recents : UNION {[B -> Signers] : B \in SUBSET (1..MaxNumber)}]

ASSUME NoSnapAssumption == NoSnap \notin Snapshots

Limit == (Len(SignerList) \div 2) + 1

InTurn(n, s) == SignerList[(n % Len(SignerList)) + 1] = s

Signer(h) == h[Len(h)].signer

Empty == [n \in {} |-> Me]

\* NewGenesisSnapshot and NewCheckpointSnapshot: the signers listed in the
\* header, and nobody has signed.
NewCheckpointSnapshot(h) == [hash |-> h, recents |-> Empty]

GenesisSnap == NewCheckpointSnapshot(Genesis)

HasRecentlySigned(snap, n, s) ==
  \E b \in DOMAIN snap.recents : snap.recents[b] = s /\ b + Limit > n

\* VerifyHeader: the signer may sign, and its claim to be in turn is true.
VerifyHeader(snap, h) ==
  /\ ~HasRecentlySigned(snap, Number(h), Signer(h))
  /\ h[Len(h)].inturn = InTurn(Number(h), Signer(h))

\* apply, for one header.
ApplyHeader(snap, h) ==
  LET kept == DOMAIN snap.recents \ {Number(h) - Limit}
  IN  IF Number(h) # Number(snap.hash) + 1 \/ \E b \in kept : snap.recents[b] = Signer(h)
      THEN NoSnap
      ELSE [hash |-> h,
            recents |-> [b \in kept \cup {Number(h)} |->
                           IF b = Number(h) THEN Signer(h) ELSE snap.recents[b]]]

\* The block of signer s on a parent: CalcDifficulty and SealHeader.
Sealed(parent, s) ==
  Append(parent, [signer |-> s, inturn |-> InTurn(Number(parent) + 1, s)])

\* The waiting rule along a whole branch: nobody signs again within Limit
\* blocks.
Waits(h) ==
  \A m, n \in 1..Number(h) : (m < n /\ n < m + Limit) => h[m].signer # h[n].signer

-----------------------------------------------------------------------------
VARIABLES headSnap,    \* Node.headSnap
          epochSnaps,  \* Node.epochSnaps: block number to snapshot
          gossip,      \* the goroutine in handleBlock
          producers,   \* the goroutines of scheduleBlockProduction
          clean,       \* history: see CliqueNode's properties
          stalled      \* history: production ended on an execution-layer error

nodeVars == <<storeVars, headSnap, epochSnaps, gossip, producers, clean, stalled>>

\* A goroutine is at a step, with the local variables that it still needs.  In
\* handleBlock: the block, the header whose snapshot is being computed, and
\* that snapshot.
Idle == [at |-> "Idle", block |-> Genesis, target |-> Genesis, snap |-> NoSnap]

Off == [at |-> "Off", snap |-> NoSnap, parent |-> Genesis]

Armed == [Off EXCEPT !.at = "Armed"]

Late == [Off EXCEPT !.at = "Late"]

NodeInit ==
  /\ Init
  /\ headSnap = GenesisSnap
  /\ epochSnaps = [n \in {} |-> GenesisSnap]
  /\ gossip = Idle
  /\ \E p \in Producers : producers = [q \in Producers |-> IF q = p THEN Armed ELSE Off]
  /\ clean = TRUE
  /\ stalled = FALSE

\* Mutant of SetHeadSnapshot: every snapshot is cached.
SetHeadSnapshotCached(snap) ==
  LET n == Number(snap.hash)
  IN  /\ headSnap' = snap
      /\ epochSnaps' = [e \in DOMAIN epochSnaps \cup {n} |-> IF e = n THEN snap ELSE epochSnaps[e]]

\* setHeadSnapshot
SetHeadSnapshot(snap) ==
  LET n == Number(snap.hash)
  IN  /\ headSnap' = snap
      /\ epochSnaps' = IF n % Epoch = 0
                       THEN [e \in DOMAIN epochSnaps \cup {n} |->
                               IF e = n THEN snap ELSE epochSnaps[e]]
                       ELSE epochSnaps

\* The context of the previous production is cancelled.  The engine calls of a
\* goroutine that is still building fail, except that it may be about to
\* reschedule; after the last engine call it goes on.
Pending(P) == {p \in Producers : P[p].at \in {"Armed", "Head", "Build"}}

Cancelled(P, late) ==
  [p \in Producers |-> IF p \in late THEN Late ELSE IF p \in Pending(P) THEN Off ELSE P[p]]

\* scheduleBlockProduction: cancel, then start a goroutine with a new timer.
Schedule(P) ==
  /\ \E late \in SUBSET Pending(P), p \in Producers :
       /\ Cancelled(P, late)[p] = Off
       /\ producers' = [Cancelled(P, late) EXCEPT ![p] = Armed]
  /\ stalled' = FALSE

-----------------------------------------------------------------------------
(* handleBlock *)

\* A block by another signer arrives, and its parent is in the store.
Receive(parent, s) ==
  LET h == Sealed(parent, s)
  IN  /\ gossip = Idle
      /\ h \in Known \/ Cardinality(Known) <= MaxKnown
      /\ Number(h) <= MaxNumber
      /\ Waits(h)
      /\ gossip' = [at |-> "At", block |-> h, target |-> parent, snap |-> NoSnap]
      /\ UNCHANGED <<storeVars, headSnap, epochSnaps, producers, clean, stalled>>

EpochStart == (Number(gossip.target) \div Epoch) * Epoch

\* The snapshot is there: of the parent, to verify the block, or of the block
\* itself, to become the head snapshot.
Computed(snap) ==
  gossip' = IF snap = NoSnap THEN Idle
            ELSE [gossip EXCEPT !.snap = snap,
                                !.at = IF gossip.target = gossip.block THEN "Set" ELSE "Add"]

\* computeSnapshotAt
ComputeSnapshotAt ==
  /\ gossip.at = "At"
  /\ IF gossip.target = Genesis THEN Computed(GenesisSnap)
     ELSE IF headSnap.hash = gossip.target THEN Computed(headSnap)
     ELSE gossip' = [gossip EXCEPT !.at = "Compute"]
  /\ UNCHANGED <<storeVars, headSnap, epochSnaps, producers, clean, stalled>>

\* computeSnapshot, fast path: one block on top of the head snapshot.
ComputeSnapshot ==
  /\ gossip.at = "Compute"
  /\ IF headSnap.hash = Parent(gossip.target)
     THEN Computed(ApplyHeader(headSnap, gossip.target))
     ELSE gossip' = [gossip EXCEPT !.at = "Base"]
  /\ UNCHANGED <<storeVars, headSnap, epochSnaps, producers, clean, stalled>>

\* General path: the base is a cached snapshot, genesis or, failing these, ...
FindBase ==
  /\ gossip.at = "Base"
  /\ gossip' =
       IF EpochStart \in DOMAIN epochSnaps
       THEN [gossip EXCEPT !.at = "Collect", !.snap = epochSnaps[EpochStart]]
       ELSE IF EpochStart = 0
       THEN [gossip EXCEPT !.at = "Collect", !.snap = GenesisSnap]
       ELSE [gossip EXCEPT !.at = "Checkpoint"]
  /\ UNCHANGED <<storeVars, headSnap, epochSnaps, producers, clean, stalled>>

\* ... a new snapshot from the canonical epoch block, ...
BuildCheckpoint ==
  /\ gossip.at = "Checkpoint"
  /\ gossip' = IF EpochStart \in DOMAIN numbers
               THEN [gossip EXCEPT !.at = "Cache",
                                   !.snap = NewCheckpointSnapshot(numbers[EpochStart])]
               ELSE Idle
  /\ UNCHANGED <<storeVars, headSnap, epochSnaps, producers, clean, stalled>>

\* ... which is cached.
CacheCheckpoint ==
  /\ gossip.at = "Cache"
  /\ epochSnaps' = [e \in DOMAIN epochSnaps \cup {EpochStart} |->
                      IF e = EpochStart THEN gossip.snap ELSE epochSnaps[e]]
  /\ gossip' = [gossip EXCEPT !.at = "Collect"]
  /\ UNCHANGED <<storeVars, headSnap, producers, clean, stalled>>

\* The headers up to the target's number are read one by one from the
\* canonical index, and applied to the base.
CollectHeader ==
  /\ gossip.at = "Collect"
  /\ LET n == Number(gossip.snap.hash) + 1
         next == IF n \in DOMAIN numbers THEN ApplyHeader(gossip.snap, numbers[n]) ELSE NoSnap
     IN  IF n > Number(gossip.target) THEN Computed(gossip.snap)
         ELSE IF next = NoSnap THEN gossip' = Idle
         ELSE gossip' = [gossip EXCEPT !.snap = next]
  /\ UNCHANGED <<storeVars, headSnap, epochSnaps, producers, clean, stalled>>

\* The header is refused, or known, or on a branch that does not win.
DropBlock ==
  /\ gossip.at = "Add"
  /\ \/ ~VerifyHeader(gossip.snap, gossip.block) /\ UNCHANGED storeVars
     \/ VerifyHeader(gossip.snap, gossip.block) /\ gossip.block \in Known /\ UNCHANGED storeVars
     \/ VerifyHeader(gossip.snap, gossip.block) /\ AddBlock(gossip.block) /\ head' = head
  /\ gossip' = Idle
  /\ UNCHANGED <<headSnap, epochSnaps, producers, clean, stalled>>

\* The block becomes the head; a reorg is followed by clearing the cache.
ImportBlock ==
  /\ gossip.at = "Add"
  /\ VerifyHeader(gossip.snap, gossip.block)
  /\ AddBlock(gossip.block)
  /\ head' # head
  /\ gossip' = [Idle EXCEPT !.at = IF Parent(gossip.block) = head THEN "Deliver" ELSE "Clear",
                            !.block = gossip.block]
  /\ UNCHANGED <<headSnap, epochSnaps, producers, clean, stalled>>

\* Mutant of ClearCache: the snapshots of the old branch stay.
ClearCacheKeeps ==
  /\ gossip.at = "Clear"
  /\ gossip' = [gossip EXCEPT !.at = "Deliver"]
  /\ UNCHANGED <<storeVars, headSnap, epochSnaps, producers, clean, stalled>>

ClearCache ==
  /\ gossip.at = "Clear"
  /\ epochSnaps' = [n \in {} |-> GenesisSnap]
  /\ gossip' = [gossip EXCEPT !.at = "Deliver"]
  /\ UNCHANGED <<storeVars, headSnap, producers, clean, stalled>>

\* NewPayloadV3 and ForkchoiceUpdatedV3 succeed, or handleBlock gives up.
Deliver ==
  /\ gossip.at = "Deliver"
  /\ \/ gossip' = [gossip EXCEPT !.at = "Compute", !.target = gossip.block] /\ UNCHANGED clean
     \/ gossip' = Idle /\ clean' = FALSE
  /\ UNCHANGED <<storeVars, headSnap, epochSnaps, producers, stalled>>

AdvanceSnapshot ==
  /\ gossip.at = "Set"
  /\ SetHeadSnapshot(gossip.snap)
  /\ gossip' = [Idle EXCEPT !.at = "Schedule"]
  /\ clean' = (clean /\ head = gossip.block)
  /\ UNCHANGED <<storeVars, producers, stalled>>

\* Mutant of Reschedule: it is left to produceBlock.
RescheduleNot ==
  /\ gossip.at = "Schedule"
  /\ gossip' = Idle
  /\ UNCHANGED <<storeVars, headSnap, epochSnaps, producers, clean, stalled>>

Reschedule ==
  /\ gossip.at = "Schedule"
  /\ Schedule(producers)
  /\ gossip' = Idle
  /\ UNCHANGED <<storeVars, headSnap, epochSnaps, clean>>

HandleBlock ==
  \/ \E parent \in Known, s \in Signers \ {Me} : Receive(parent, s)
  \/ ComputeSnapshotAt
  \/ ComputeSnapshot
  \/ FindBase
  \/ BuildCheckpoint
  \/ CacheCheckpoint
  \/ CollectHeader
  \/ DropBlock
  \/ ImportBlock
  \/ ClearCache
  \/ Deliver
  \/ AdvanceSnapshot
  \/ Reschedule

-----------------------------------------------------------------------------
(* produceBlock *)

\* The timer fires, and the head snapshot is read.
ReadSnapshot(p) ==
  /\ producers[p] = Armed
  /\ producers' = [producers EXCEPT ![p].at = "Head", ![p].snap = headSnap]
  /\ UNCHANGED <<storeVars, headSnap, epochSnaps, gossip, clean, stalled>>

\* The head is read and the snapshot asked whether this node may sign.
ReadHead(p) ==
  /\ producers[p].at = "Head"
  /\ IF HasRecentlySigned(producers[p].snap, Number(head) + 1, Me)
     THEN producers' = [producers EXCEPT ![p] = Off] /\ UNCHANGED stalled
     ELSE \/ /\ Number(head) < MaxNumber /\ Cardinality(Known) <= MaxKnown
             /\ producers' = [producers EXCEPT ![p].at = "Build", ![p].parent = head]
             /\ UNCHANGED stalled
          \/ Schedule(producers)  \* too early
  /\ UNCHANGED <<storeVars, headSnap, epochSnaps, gossip, clean>>

\* The execution layer builds the payload; the block is sealed, broadcast and
\* its payload imported.  A failing call ends the production, an execution
\* layer that keeps syncing postpones it.
Build(p) ==
  /\ producers[p].at = "Build"
  /\ \/ producers' = [producers EXCEPT ![p].at = "Add"] /\ UNCHANGED stalled
     \/ producers' = [producers EXCEPT ![p] = Off] /\ stalled' = TRUE
     \/ Schedule(producers)
  /\ UNCHANGED <<storeVars, headSnap, epochSnaps, gossip, clean>>

OwnBlock(p) == Sealed(producers[p].parent, Me)

\* AddBlock; its header is not verified.
AddOwn(p) ==
  /\ producers[p].at = "Add"
  /\ \/ AddBlock(OwnBlock(p))
     \/ OwnBlock(p) \in Known /\ UNCHANGED storeVars
  /\ producers' = [producers EXCEPT ![p].at = "Snap"]
  /\ clean' = (clean /\ producers[p].parent = head /\ producers[p].snap.hash = head)
  /\ UNCHANGED <<headSnap, epochSnaps, gossip, stalled>>

\* Mutant of AdvanceOwn: the snapshot that was read stays the head snapshot.
AdvanceOwnNot(p) ==
  /\ producers[p].at = "Snap"
  /\ producers' = [producers EXCEPT ![p] = [Off EXCEPT !.at = "Next"]]
  /\ clean' = (clean /\ head = OwnBlock(p))
  /\ UNCHANGED <<storeVars, headSnap, epochSnaps, gossip, stalled>>

\* The snapshot that was read, advanced by the own block, becomes the head
\* snapshot, whether or not AddBlock made the block the head.
AdvanceOwn(p) ==
  /\ producers[p].at = "Snap"
  /\ LET snap == ApplyHeader(producers[p].snap, OwnBlock(p))
     IN  IF snap = NoSnap THEN UNCHANGED <<headSnap, epochSnaps>> ELSE SetHeadSnapshot(snap)
  /\ producers' = [producers EXCEPT ![p] = [Off EXCEPT !.at = "Next"]]
  /\ clean' = (clean /\ head = OwnBlock(p))
  /\ UNCHANGED <<storeVars, gossip, stalled>>

ScheduleNext(p) ==
  /\ producers[p].at = "Next"
  /\ Schedule([producers EXCEPT ![p] = Off])
  /\ UNCHANGED <<storeVars, headSnap, epochSnaps, gossip, clean>>

\* A cancelled production finds that it is too early, or that the execution
\* layer kept syncing, and reschedules without looking at its context.
LateSchedule(p) ==
  /\ producers[p] = Late
  /\ Schedule([producers EXCEPT ![p] = Off])
  /\ UNCHANGED <<storeVars, headSnap, epochSnaps, gossip, clean>>

ProduceBlock(p) ==
  \/ ReadSnapshot(p)
  \/ ReadHead(p)
  \/ Build(p)
  \/ AddOwn(p)
  \/ AdvanceOwn(p)
  \/ ScheduleNext(p)
  \/ LateSchedule(p)

NodeNext ==
  \/ HandleBlock
  \/ \E p \in Producers : ProduceBlock(p)

NodeSpec == NodeInit /\ [][NodeNext]_nodeVars

-----------------------------------------------------------------------------
(* Properties.  A history is clean as long as the execution layer took every *)
(* new head, no own block was added next to a head that changed while it was *)
(* built, and no snapshot was set for a block that is no longer the head.    *)

\* The cache holds snapshots, at epoch boundaries, and each goroutine is at a
\* step of its function.
NodeTypeOK ==
  /\ headSnap \in Snapshots
  /\ \A e \in DOMAIN epochSnaps : e % Epoch = 0 /\ epochSnaps[e] \in Snapshots
  /\ gossip.at \in {"Idle", "At", "Compute", "Base", "Checkpoint", "Cache", "Collect",
                    "Add", "Clear", "Deliver", "Set", "Schedule"}
  /\ gossip.snap \in Snapshots \cup {NoSnap}
  /\ \A p \in Producers : producers[p].at \in {"Off", "Armed", "Late", "Head", "Build", "Add", "Snap", "Next"}

\* No goroutine is between making a block the head and setting its snapshot.
Settled ==
  /\ gossip.at \in {"Idle", "At", "Add", "Schedule"} \/ gossip.target # gossip.block
  /\ gossip.at \notin {"Clear", "Deliver"}
  /\ \A p \in Producers : producers[p].at # "Snap"

\* The head snapshot is the one of the head, and who it says signed recently
\* did sign those blocks of the head's branch: after every reorg, across
\* epochs, and whatever the cache held (computeSnapshot, setHeadSnapshot).
HeadSnapCurrent ==
  (clean /\ Settled) =>
    /\ headSnap.hash = head
    /\ \A b \in DOMAIN headSnap.recents :
         b > Number(head) - Limit /\ headSnap.recents[b] = head[b].signer

\* The cached snapshots are those of the canonical epoch blocks: none of an
\* abandoned branch survives the clearing in handleBlock.
CacheCurrent ==
  (clean /\ gossip.at # "Clear") =>
    \A e \in DOMAIN epochSnaps : e \in DOMAIN numbers /\ epochSnaps[e].hash = numbers[e]

\* A signer that may sign the next block has a timer or is producing: neither
\* side-chain blocks, nor refused blocks, nor a production that was given up
\* leave it waiting for nothing (scheduleBlockProduction).
ProductionPending ==
  (/\ clean /\ ~stalled /\ gossip = Idle
   /\ ~HasRecentlySigned(headSnap, Number(head) + 1, Me))
    => \E p \in Producers : producers[p] \notin {Off, Late}

-----------------------------------------------------------------------------
(* What the documentation says *)

\* "a signer cannot sign again within floor(len(signers)/2)+1 blocks"
\* (docs/Architecture.md): so for all blocks that the node takes or produces.
KnownBlocksWait == clean => \A h \in Known : Waits(h)
=============================================================================
