----------------------------- MODULE ForkChoice -----------------------------
(***************************************************************************)
(* The fork-choice store of one node (internal/forkchoice/store.go): the   *)
(* known headers with their total difficulty, the canonical index from     *)
(* block number to hash, and the head, safe and finalized pointers.        *)
(*                                                                         *)
(* A header hash commits to the whole branch below it, so a hash is        *)
(* modelled as that branch: the sequence of the seals from block 1 on.     *)
(* Genesis is the empty sequence, the number of a block its length, and    *)
(* the parent the sequence without its last seal.  Every operation holds   *)
(* the store's mutex, so each is one action.  The maps elHashes and        *)
(* payloads have an entry for a block exactly when it is known; their      *)
(* contents are left out.                                                  *)
(***************************************************************************)
EXTENDS Integers, Sequences

CONSTANTS Seals,              \* what tells two children of a block apart
          Difficulty,         \* Header.Difficulty of a block with this seal
          GenesisDifficulty,  \* Header.Difficulty of genesis; 0 for nil
          Epoch,              \* Store.epoch
          MaxNumber           \* bound on block numbers

ASSUME HeadersAssumption ==
  /\ Difficulty \in [Seals -> Nat]
  /\ GenesisDifficulty \in Int
  /\ Epoch \in Nat
  /\ MaxNumber \in Nat

Headers == UNION {[1..n -> Seals] : n \in 0..MaxNumber}

Genesis == <<>>

Number(h) == Len(h)

Upto(h, n) == SubSeq(h, 1, n)

Parent(h) == Upto(h, Len(h) - 1)

\* c is h or one of the blocks below it.
IsAncestor(c, h) == Len(c) <= Len(h) /\ Upto(h, Len(c)) = c

GenesisTD == IF GenesisDifficulty <= 0 THEN 1 ELSE GenesisDifficulty

-----------------------------------------------------------------------------
VARIABLES td,         \* Store.blocks: the known blocks and their TD
          numbers,    \* Store.numbers: block number to canonical hash
          head,       \* Store.head
          safe,       \* Store.safe
          finalized   \* Store.finalized

storeVars == <<td, numbers, head, safe, finalized>>

Known == DOMAIN td

\* New
Init ==
  /\ td = [h \in {Genesis} |-> GenesisTD]
  /\ numbers = [n \in {0} |-> Genesis]
  /\ head = Genesis
  /\ safe = Genesis
  /\ finalized = Genesis

\* findCommonAncestor: the highest known block below both.
FindCommonAncestor(a, b) ==
  CHOOSE c \in Known :
    /\ IsAncestor(c, a) /\ IsAncestor(c, b)
    /\ \A d \in Known : IsAncestor(d, a) /\ IsAncestor(d, b) => Len(d) <= Len(c)

\* Mutant of Reindex: a reorg writes the entry of the new head only.
ReindexHeadOnly(h) ==
  [n \in (DOMAIN numbers \ Number(h)..Number(head)) \cup {Number(h)} |->
     IF n = Number(h) THEN h ELSE numbers[n]]

\* setHead: a direct extension adds one entry to the index.  A reorg first
\* deletes the old branch down to the common ancestor, then adds the new one.
Reindex(h) ==
  IF Parent(h) = head
  THEN [n \in DOMAIN numbers \cup {Number(h)} |-> IF n = Number(h) THEN h ELSE numbers[n]]
  ELSE LET a == Number(FindCommonAncestor(head, h))
           new == (a + 1)..Number(h)
       IN  [n \in (DOMAIN numbers \ ((a + 1)..Number(head))) \cup new |->
              IF n \in new THEN Upto(h, n) ELSE numbers[n]]

\* A lookup in the index that falls back to genesis.
CanonicalAt(idx, n) == IF n \in DOMAIN idx THEN idx[n] ELSE Genesis

\* Mutant of UpdateSafeFinalized: finalized is one epoch behind safe.
UpdateSafeFinalizedEarly(h, idx) ==
  LET i == Number(h) \div Epoch
  IN  /\ safe' = CanonicalAt(idx, i * Epoch)
      /\ finalized' = IF i >= 1 THEN CanonicalAt(idx, (i - 1) * Epoch) ELSE Genesis

\* updateSafeFinalized, for the head h and the index idx.
UpdateSafeFinalized(h, idx) ==
  IF Epoch = 0
  THEN UNCHANGED <<safe, finalized>>
  ELSE LET i == Number(h) \div Epoch
       IN  /\ safe' = CanonicalAt(idx, i * Epoch)
           /\ finalized' = IF i >= 2 THEN CanonicalAt(idx, (i - 2) * Epoch) ELSE Genesis

SetHead(h) ==
  /\ head' = h
  /\ numbers' = Reindex(h)
  /\ UpdateSafeFinalized(h, Reindex(h))

\* The total difficulty that AddBlock stores with a new block.
ChildTD(h) == td[Parent(h)] + Difficulty[h[Len(h)]]

\* Mutant of AddBlock: the longest branch wins.
AddBlockLongest(h) ==
  /\ h \notin Known
  /\ h # Genesis /\ Parent(h) \in Known
  /\ td' = [x \in Known \cup {h} |-> IF x = h THEN ChildTD(h) ELSE td[x]]
  /\ IF Number(h) > Number(head) THEN SetHead(h)
                                 ELSE UNCHANGED <<numbers, head, safe, finalized>>

\* Mutant of AddBlock: an unknown parent has total difficulty 0.
AddBlockOrphan(h) ==
  /\ h \notin Known
  /\ h # Genesis
  /\ LET t == IF Parent(h) \in Known THEN ChildTD(h) ELSE Difficulty[h[Len(h)]]
     IN  /\ td' = [x \in Known \cup {h} |-> IF x = h THEN t ELSE td[x]]
         /\ IF t > td[head] THEN SetHead(h)
                            ELSE UNCHANGED <<numbers, head, safe, finalized>>

\* AddBlock, for a block that is not known and whose parent is.  The other
\* calls return early and change nothing.
AddBlock(h) ==
  /\ h \notin Known
  /\ h # Genesis /\ Parent(h) \in Known
  /\ td' = [x \in Known \cup {h} |-> IF x = h THEN ChildTD(h) ELSE td[x]]
  /\ IF ChildTD(h) > td[head] THEN SetHead(h)
                              ELSE UNCHANGED <<numbers, head, safe, finalized>>

\* Reset
Reset ==
  /\ td' = [h \in {Genesis} |-> GenesisTD]
  /\ numbers' = [n \in {0} |-> Genesis]
  /\ head' = Genesis
  /\ safe' = Genesis
  /\ finalized' = Genesis

Next ==
  \/ \E h \in Headers : AddBlock(h)
  \/ Reset

Spec == Init /\ [][Next]_storeVars

-----------------------------------------------------------------------------
(* Properties *)

\* The store's maps and pointers hold headers.
TypeOK ==
  /\ Known \subseteq Headers /\ Genesis \in Known
  /\ td \in [Known -> Int]
  /\ head \in Known /\ safe \in Known /\ finalized \in Known

\* The canonical index is the branch of the head, without gaps or leftovers of
\* an old branch, whatever reorgs setHead went through.
CanonicalIndex == numbers = [n \in 0..Number(head) |-> Upto(head, n)]

\* The whole branch of a known block is known, so the walks of setHead and
\* findCommonAncestor never miss a parent (ErrUnknownParent).
BranchesKnown == \A h \in Known : \A n \in 0..Number(h) : Upto(h, n) \in Known

\* The heaviest-chain rule: no known block has a higher total difficulty than
\* the head (AddBlock), and the totals are those of the whole branch.
HeaviestHead ==
  /\ \A h \in Known : td[h] <= td[head]
  /\ \A h \in Known \ {Genesis} : td[h] = ChildTD(h)

\* Safe and finalized are the blocks of the head's branch at the last epoch
\* boundary and two epochs before it (updateSafeFinalized).
EpochPointers ==
  LET i == IF Epoch = 0 THEN 0 ELSE Number(head) \div Epoch
  IN  /\ safe = Upto(head, i * Epoch)
      /\ finalized = Upto(head, IF i >= 2 THEN (i - 2) * Epoch ELSE 0)

\* The parts together are inductive.
StoreInv == TypeOK /\ CanonicalIndex /\ BranchesKnown /\ HeaviestHead /\ EpochPointers
=============================================================================
