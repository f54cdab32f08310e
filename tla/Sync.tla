-------------------------------- MODULE Sync --------------------------------
(***************************************************************************)
(* How nodes catch up with each other: the status handshake of a new       *)
(* connection (internal/p2p/host.go), the sync sessions that it or a       *)
(* gossiped block triggers, on the requester's and on the responder's side *)
(* (internal/node/sync.go, internal/p2p/sync.go), and what goes on in a    *)
(* node meanwhile: gossiped blocks that are imported (block_processor.go)  *)
(* and own blocks (block_producer.go).                                     *)
(*                                                                         *)
(* A header is the branch it commits to, as in ForkChoice, and the store   *)
(* of a node is its known headers and its head; the rest of the store      *)
(* follows from these, and the mapping at the end of the module shows that *)
(* every node's store is one of ForkChoice.  A step is what happens under  *)
(* one lock.  All blocks are valid, nodes are on the same network, and     *)
(* the file of the store is left to ChainStore.                            *)
(***************************************************************************)
EXTENDS Integers, Sequences, FiniteSets

CONSTANTS Nodes,          \* the nodes, who are signers
          Links,          \* connections: pairs of dialer and listener
          InTurn,         \* InTurn[n]: block numbers for which n is in turn
          Chains,         \* the chains that nodes may have on disk when they start
          MaxNumber,      \* bound on block numbers
          MaxSyncBlocks,  \* blocks in a response, 2048 in the code
          MaxOwn          \* MaxOwn[n]: bound on the blocks that n produces

\* What tells two children of a block apart: whether it was signed in turn.
Seals == {"inturn", "noturn"}

Headers == UNION {[1..n -> Seals] : n \in 0..MaxNumber}

ASSUME SyncAssumption ==
  /\ Links \subseteq Nodes \X Nodes
  /\ InTurn \in [Nodes -> SUBSET Nat]
  /\ Chains \subseteq Headers
  /\ MaxNumber \in Nat /\ MaxSyncBlocks \in Nat \ {0}
  /\ MaxOwn \in [Nodes -> Nat]

Difficulty == [s \in Seals |-> IF s = "inturn" THEN 2 ELSE 1]

Genesis == <<>>

Number(h) == Len(h)

Upto(h, n) == SubSeq(h, 1, n)

Parent(h) == Upto(h, Len(h) - 1)

\* The total difficulty of a branch; genesis counts 1.
TD(h) == 1 + Len(h) + Cardinality({i \in DOMAIN h : h[i] = "inturn"})

-----------------------------------------------------------------------------
VARIABLES known,    \* Store.blocks
          head,     \* Store.head
          status,   \* Host.localStatus: the head number in it
          shake,    \* the status stream of a connection
          want,     \* goroutines about to call syncWithPeer, by peer
          session,  \* the sync session of a node; not "Idle" means syncMu is held
          gossip,   \* blocks on their way to a node, with their sender
          import,   \* the block that handleBlock is about to add
          own,      \* the block that produceBlock is about to add
          added,    \* which of the two were added and have only the status left to set
          made,     \* number of blocks produced
          calm,     \* history: nothing else changed the heads of this session
          lost      \* history: a stream or an import failed, or something was dropped

storeVars == <<known, head>>

vars == <<storeVars, status, shake, want, session, gossip, import, own, added, made, calm, lost>>

\* A session is at a step, with its peer, the head it reported, the reads of the
\* responder, and what is left of the blocks of the response.
Idle(n) ==
  [at |-> "Idle", peer |-> n, reported |-> Genesis, end |-> 0, start |-> 0,
   reset |-> FALSE, batch |-> <<>>, full |-> FALSE]

Begin(n, p) == [Idle(n) EXCEPT !.at = "Begin", !.peer = p]

\* After replayChain, which also sets the status.
Init ==
  /\ head \in [Nodes -> Chains]
  /\ known = [n \in Nodes |-> {Upto(head[n], k) : k \in 0..Number(head[n])}]
  /\ status = [n \in Nodes |-> Number(head[n])]
  /\ shake = [l \in Links |-> [at |-> "None", number |-> 0]]
  /\ want = [n \in Nodes |-> {}]
  /\ session = [n \in Nodes |-> Idle(n)]
  /\ gossip = [n \in Nodes |-> {}]
  /\ import = [n \in Nodes |-> Genesis]
  /\ own = [n \in Nodes |-> Genesis]
  /\ added = [n \in Nodes |-> {}]
  /\ made = [n \in Nodes |-> 0]
  /\ calm = [n \in Nodes |-> TRUE]
  /\ lost = FALSE

\* Store.AddBlock.  A block that is known, or whose parent is not, is left out.
AddBlock(n, h) ==
  IF Parent(h) \in known[n]
  THEN /\ known' = [known EXCEPT ![n] = @ \cup {h}]
       /\ head' = IF h \notin known[n] /\ TD(h) > TD(head[n]) THEN [head EXCEPT ![n] = h] ELSE head
  ELSE UNCHANGED storeVars

\* The head of n may change, and with it what the sessions of others compare
\* with; the ones in S expect it.
Disturb(n, S) ==
  calm' = [m \in Nodes |-> calm[m] /\ (m \in S \/ head'[n] = head[n] \/ (m # n /\ session[m].peer # n))]

-----------------------------------------------------------------------------
(* The status handshake *)

\* handlePeerStatus, with the number in the peer's status.
HandlePeerStatus(n, p, number) ==
  want' = IF number > status[n] THEN [want EXCEPT ![n] = @ \cup {p}] ELSE want

\* doStatusHandshake sends the status of the dialer ...
SendStatus(l) ==
  /\ shake[l].at = "None"
  /\ shake' = [shake EXCEPT ![l] = [at |-> "Sent", number |-> status[l[1]]]]
  /\ UNCHANGED <<storeVars, status, want, session, gossip, import, own, added, made, calm, lost>>

\* ... handleStatusStream answers with the one of the listener ...
AnswerStatus(l) ==
  /\ shake[l].at = "Sent"
  /\ shake' = [shake EXCEPT ![l] = [at |-> "Answered", number |-> status[l[2]]]]
  /\ HandlePeerStatus(l[2], l[1], shake[l].number)
  /\ UNCHANGED <<storeVars, status, session, gossip, import, own, added, made, calm, lost>>

\* Mutant of ReadStatus: the dialer only logs the status of the listener.
ReadStatusLogs(l) ==
  /\ shake[l].at = "Answered"
  /\ shake' = [shake EXCEPT ![l] = [at |-> "Done", number |-> 0]]
  /\ UNCHANGED <<storeVars, status, want, session, gossip, import, own, added, made, calm, lost>>

\* ... which the dialer reads.
ReadStatus(l) ==
  /\ shake[l].at = "Answered"
  /\ shake' = [shake EXCEPT ![l] = [at |-> "Done", number |-> 0]]
  /\ HandlePeerStatus(l[1], l[2], shake[l].number)
  /\ UNCHANGED <<storeVars, status, session, gossip, import, own, added, made, calm, lost>>

\* An error of the stream, or its deadline.
FailStatus(l) ==
  /\ shake[l].at \in {"Sent", "Answered"}
  /\ shake' = [shake EXCEPT ![l] = [at |-> "Done", number |-> 0]]
  /\ lost' = TRUE
  /\ UNCHANGED <<storeVars, status, want, session, gossip, import, own, added, made, calm>>

Handshake(l) == SendStatus(l) \/ AnswerStatus(l) \/ ReadStatus(l) \/ FailStatus(l)

-----------------------------------------------------------------------------
(* syncWithPeer *)

\* Nothing but the session of n, and the store if the step says so, changes.
SessionOnly == UNCHANGED <<shake, gossip, import, own, added, made>>

\* TryLock, which fails during a session, and also in the moment in which
\* handleBlock tries the lock.
StartSync(n, p) ==
  /\ p \in want[n]
  /\ want' = [want EXCEPT ![n] = @ \ {p}]
  /\ \/ /\ session[n].at = "Idle"
        /\ session' = [session EXCEPT ![n] = Begin(n, p)]
        /\ calm' = [calm EXCEPT ![n] = TRUE]
        /\ UNCHANGED lost
     \/ /\ session[n].at # "Idle" \/ gossip[n] # {}
        /\ lost' = TRUE
        /\ UNCHANGED <<session, calm>>
  /\ SessionOnly /\ UNCHANGED <<storeVars, status>>

\* Mutant of RequestSync: the head in the status is reported, which stays the
\* same between two responses.
RequestSyncStatus(n) ==
  /\ session[n].at = "Begin"
  /\ session' = [session EXCEPT ![n].at = "Asked",
                                ![n].reported = IF status[n] <= Number(head[n])
                                                THEN Upto(head[n], status[n]) ELSE head[n]]
  /\ SessionOnly /\ UNCHANGED <<storeVars, status, want, calm, lost>>

\* The head is read and reported to the peer.
RequestSync(n) ==
  /\ session[n].at = "Begin"
  /\ session' = [session EXCEPT ![n].at = "Asked", ![n].reported = head[n]]
  /\ SessionOnly /\ UNCHANGED <<storeVars, status, want, calm, lost>>

\* handleSyncRequest of the peer: it reads its head ...
ReadHead(n) ==
  /\ session[n].at = "Asked"
  /\ session' = [session EXCEPT ![n].at = "Compare", ![n].end = Number(head[session[n].peer])]
  /\ SessionOnly /\ UNCHANGED <<storeVars, status, want, calm, lost>>

\* Mutant of CompareHead: the hash at the reported number is not compared.
CompareHeadNumber(n) ==
  LET s == session[n]
      canonical == Number(s.reported) <= Number(head[s.peer])
  IN  /\ s.at = "Compare"
      /\ session' = [session EXCEPT ![n].at = "Range", ![n].reset = ~canonical,
                                    ![n].start = IF canonical THEN Number(s.reported) + 1 ELSE 1]
      /\ SessionOnly /\ UNCHANGED <<storeVars, status, want, calm, lost>>

\* ... compares the reported head with its canonical block of that number ...
CompareHead(n) ==
  LET s == session[n]
      p == head[s.peer]
      canonical == Number(s.reported) <= Number(p) /\ Upto(p, Number(s.reported)) = s.reported
  IN  /\ s.at = "Compare"
      /\ session' = [session EXCEPT ![n].at = "Range", ![n].reset = ~canonical,
                                    ![n].start = IF canonical THEN Number(s.reported) + 1 ELSE 1]
      /\ SessionOnly /\ UNCHANGED <<storeVars, status, want, calm, lost>>

\* BlocksInRange: the canonical blocks of these numbers that there are.
BlocksInRange(p, from, to) ==
  LET last == IF to <= Number(head[p]) THEN to ELSE Number(head[p])
  IN  [i \in 1..(last - from + 1) |-> Upto(head[p], from + i - 1)]

\* ... and sends blocks.  An empty response ends the session, a reset or not.
SendBlocks(n) ==
  LET s == session[n]
      to == IF s.end - s.start + 1 > MaxSyncBlocks THEN s.start + MaxSyncBlocks - 1 ELSE s.end
      batch == IF s.end < s.start THEN <<>> ELSE BlocksInRange(s.peer, s.start, to)
  IN  /\ s.at = "Range"
      /\ session' = [session EXCEPT ![n] =
                       [Begin(n, s.peer) EXCEPT
                          !.at = IF batch = <<>> THEN "Finish" ELSE IF s.reset THEN "Reset" ELSE "Import",
                          !.batch = batch,
                          !.full = (Len(batch) = MaxSyncBlocks)]]
      /\ SessionOnly /\ UNCHANGED <<storeVars, status, want, calm, lost>>

\* An error of the stream, or its deadline, ends the session.
FailRequest(n) ==
  /\ session[n].at \in {"Asked", "Compare", "Range"}
  /\ session' = [session EXCEPT ![n] = Idle(n)]
  /\ lost' = TRUE
  /\ SessionOnly /\ UNCHANGED <<storeVars, status, want, calm>>

\* Mutant of ResetChain: the blocks stay in the store.
ResetChainHead(n) ==
  /\ session[n].at = "Reset"
  /\ head' = [head EXCEPT ![n] = Genesis]
  /\ session' = [session EXCEPT ![n].at = "Import"]
  /\ Disturb(n, {n})
  /\ SessionOnly /\ UNCHANGED <<known, status, want, lost>>

\* resetChain
ResetChain(n) ==
  /\ session[n].at = "Reset"
  /\ known' = [known EXCEPT ![n] = {Genesis}]
  /\ head' = [head EXCEPT ![n] = Genesis]
  /\ session' = [session EXCEPT ![n].at = "Import"]
  /\ Disturb(n, {n})
  /\ SessionOnly /\ UNCHANGED <<status, want, lost>>

\* One block of importSyncBlocks.  After the last one of a full batch the
\* session asks for more.
ImportSyncBlock(n) ==
  LET s == session[n]
      h == Head(s.batch)
      rest == IF Len(s.batch) > 1 THEN [s EXCEPT !.batch = Tail(@)]
              ELSE [Begin(n, s.peer) EXCEPT !.at = IF s.full THEN "Begin" ELSE "Finish"]
  IN  /\ s.at = "Import"
      /\ Parent(h) \in known[n]
      /\ AddBlock(n, h)
      /\ session' = [session EXCEPT ![n] = rest]
      /\ Disturb(n, {n})
      /\ SessionOnly /\ UNCHANGED <<status, want, lost>>

\* The chain file cannot be truncated, the parent is unknown or the execution
\* client refuses: the session ends, and the status stays what it was.
FailImport(n) ==
  /\ session[n].at \in {"Reset", "Import"}
  /\ session' = [session EXCEPT ![n] = Idle(n)]
  /\ lost' = TRUE
  /\ SessionOnly /\ UNCHANGED <<storeVars, status, want, calm>>

\* A block is added, but the snapshot after it cannot be computed: the session
\* ends with the block in the store.
FailSnapshot(n) ==
  /\ session[n].at = "Import"
  /\ Parent(Head(session[n].batch)) \in known[n]
  /\ AddBlock(n, Head(session[n].batch))
  /\ session' = [session EXCEPT ![n] = Idle(n)]
  /\ lost' = TRUE
  /\ Disturb(n, {n})
  /\ SessionOnly /\ UNCHANGED <<status, want>>

\* The head is read, and the execution client told.
FinishSync(n) ==
  /\ session[n].at = "Finish"
  /\ session' = [session EXCEPT ![n].at = "Status", ![n].end = Number(head[n])]
  /\ SessionOnly /\ UNCHANGED <<storeVars, status, want, calm, lost>>

\* SetStatus and the unlock.
EndSync(n) ==
  /\ session[n].at = "Status"
  /\ status' = [status EXCEPT ![n] = session[n].end]
  /\ session' = [session EXCEPT ![n] = Idle(n)]
  /\ SessionOnly /\ UNCHANGED <<storeVars, want, calm, lost>>

SessionStep(n) ==
  \/ RequestSync(n)
  \/ ReadHead(n)
  \/ CompareHead(n)
  \/ SendBlocks(n)
  \/ FailRequest(n)
  \/ ResetChain(n)
  \/ ImportSyncBlock(n)
  \/ FailImport(n)
  \/ FailSnapshot(n)
  \/ FinishSync(n)
  \/ EndSync(n)

-----------------------------------------------------------------------------
(* Blocks that arrive and blocks that are produced *)

\* handleBlock up to AddBlock: a block is dropped while a session holds the
\* lock; a block with an unknown parent triggers a session.
ReceiveBlock(n, m) ==
  /\ import[n] = Genesis
  /\ gossip' = [gossip EXCEPT ![n] = @ \ {m}]
  /\ IF session[n].at # "Idle"
     THEN lost' = TRUE /\ UNCHANGED <<want, import>>
     ELSE IF Parent(m.block) \in known[n]
     THEN import' = [import EXCEPT ![n] = m.block] /\ UNCHANGED <<want, lost>>
     ELSE want' = [want EXCEPT ![n] = @ \cup {m.from}] /\ UNCHANGED <<import, lost>>
  /\ UNCHANGED <<storeVars, status, shake, session, own, added, made, calm>>

\* AddBlock of handleBlock: a session may have started, and reset the store,
\* meanwhile.  A block that is not the new head is done with.
ImportBlock(n) ==
  LET h == import[n]
  IN  /\ h # Genesis /\ "import" \notin added[n]
      /\ AddBlock(n, h)
      /\ IF head'[n] # head[n]
         THEN added' = [added EXCEPT ![n] = @ \cup {"import"}] /\ UNCHANGED import
         ELSE import' = [import EXCEPT ![n] = Genesis] /\ UNCHANGED added
      /\ lost' = (lost \/ Parent(h) \notin known[n])
      /\ Disturb(n, {})
      /\ UNCHANGED <<status, shake, want, session, gossip, own, made>>

\* The rest of handleBlock: SetStatus with that block, whatever the head is by
\* now, unless the execution client or the snapshot failed.
AnnounceBlock(n) ==
  /\ "import" \in added[n]
  /\ added' = [added EXCEPT ![n] = @ \ {"import"}]
  /\ import' = [import EXCEPT ![n] = Genesis]
  /\ \/ status' = [status EXCEPT ![n] = Number(import[n])] /\ UNCHANGED lost
     \/ lost' = TRUE /\ UNCHANGED status
  /\ UNCHANGED <<storeVars, shake, want, session, gossip, own, made, calm>>

\* produceBlock up to the broadcast, which comes before the own AddBlock.
BuildBlock(n) ==
  LET number == Number(head[n]) + 1
      h == Append(head[n], IF number \in InTurn[n] THEN "inturn" ELSE "noturn")
  IN  /\ own[n] = Genesis
      /\ made[n] < MaxOwn[n] /\ number <= MaxNumber
      /\ h \notin known[n]
      /\ own' = [own EXCEPT ![n] = h]
      /\ made' = [made EXCEPT ![n] = @ + 1]
      /\ gossip' = [p \in Nodes |-> IF p = n THEN gossip[p]
                                    ELSE gossip[p] \cup {[block |-> h, from |-> n]}]
      /\ UNCHANGED <<storeVars, status, shake, want, session, import, added, calm, lost>>

\* AddBlock of produceBlock; the execution client may refuse the block before.
AddOwnBlock(n) ==
  LET h == own[n]
  IN  /\ h # Genesis /\ "own" \notin added[n]
      /\ \/ /\ Parent(h) \in known[n]
            /\ AddBlock(n, h)
            /\ added' = [added EXCEPT ![n] = @ \cup {"own"}]
            /\ UNCHANGED <<own, lost>>
         \/ /\ own' = [own EXCEPT ![n] = Genesis]
            /\ lost' = TRUE
            /\ UNCHANGED <<storeVars, added>>
      /\ Disturb(n, {})
      /\ UNCHANGED <<status, shake, want, session, gossip, import, made>>

\* The rest of produceBlock: SetStatus with the own block, head or not.
AnnounceOwnBlock(n) ==
  /\ "own" \in added[n]
  /\ added' = [added EXCEPT ![n] = @ \ {"own"}]
  /\ own' = [own EXCEPT ![n] = Genesis]
  /\ status' = [status EXCEPT ![n] = Number(own[n])]
  /\ UNCHANGED <<storeVars, shake, want, session, gossip, import, made, calm, lost>>

BlockStep(n) ==
  \/ \E m \in gossip[n] : ReceiveBlock(n, m)
  \/ ImportBlock(n)
  \/ AnnounceBlock(n)
  \/ AddOwnBlock(n)
  \/ AnnounceOwnBlock(n)

-----------------------------------------------------------------------------
(* The specification *)

Next ==
  \/ \E l \in Links : Handshake(l)
  \/ \E n \in Nodes : \/ \E p \in want[n] : StartSync(n, p)
                      \/ SessionStep(n)
                      \/ BlockStep(n)
                      \/ BuildBlock(n)

\* The goroutines of a running node get scheduled, and a stream that makes no
\* progress is ended by its deadline.  No node has to produce a block.
Fairness ==
  /\ \A l \in Links : WF_vars(Handshake(l))
  /\ \A n \in Nodes :
       /\ WF_vars(\E p \in want[n] : StartSync(n, p))
       /\ WF_vars(SessionStep(n))
       /\ WF_vars(BlockStep(n))

Spec == Init /\ [][Next]_vars

LiveSpec == Spec /\ Fairness

-----------------------------------------------------------------------------
(* Properties *)

\* The store of node n, as a store of ForkChoice.
Store(n) ==
  INSTANCE ForkChoice WITH
    GenesisDifficulty <- 0,
    Epoch <- 1,
    td <- [h \in known[n] |-> TD(h)],
    numbers <- [k \in 0..Number(head[n]) |-> Upto(head[n], k)],
    head <- head[n],
    safe <- head[n],
    finalized <- Upto(head[n], IF Number(head[n]) >= 2 THEN Number(head[n]) - 2 ELSE 0)

\* Whatever sessions, gossiped and own blocks do at the same time, the store of
\* each node implements ForkChoice from the chain on disk on: it only ever adds
\* a block, as AddBlock does, or is reset as a whole.
StoresImplementForkChoice ==
  /\ \A n \in Nodes : Store(n)!StoreInv
  /\ [][\A n \in Nodes : [Store(n)!Next]_(Store(n)!storeVars)]_vars

\* A session that nothing disturbed leaves the node with the chain of its peer,
\* over any number of responses and through a reset (syncWithPeer).
SyncAdopts ==
  \A n \in Nodes :
    LET p == session[n].peer
    IN  (session[n].at = "Finish" /\ calm[n] /\ head[p] # Genesis) => head[n] = head[p]

\* syncMu is not held for ever, over any number of responses: a session can go
\* on only while its peer, too, is again and again in a session (syncWithPeer:
\* "It loops until the peer has no more blocks to give us").
SessionsEnd ==
  \A n \in Nodes :
    []<>(session[n].at = "Idle" \/ session[session[n].peer].at # "Idle")

\* If nobody produces a block and nothing fails, nodes that connect reach the
\* same height (handlePeerStatus, syncWithPeer).
Converges ==
  <>[](\/ lost
       \/ \E n \in Nodes : made[n] > 0
       \/ \A l \in Links : Number(head[l[1]]) = Number(head[l[2]]))
=============================================================================
