--------------------------- MODULE CliqueSnapshot ---------------------------
(***************************************************************************)
(* The Clique authorization snapshot along one chain of blocks             *)
(* (internal/consensus/clique/snapshot.go): who may sign, who signed       *)
(* recently, and the votes on the signer set.  One step appends one block  *)
(* that VerifyHeader accepts and applies it to the snapshot.               *)
(*                                                                         *)
(* Any block may carry a vote.  An epoch block carries a list of signers,  *)
(* which apply takes over whatever it says: VerifyHeader checks only its   *)
(* length, and produceBlock reads the snapshot that it lists (BuildExtra)  *)
(* before it reads the head that it builds on.  The list of votes is a     *)
(* set: neither the position nor the block of a vote is ever read.         *)
(***************************************************************************)
EXTENDS Integers, FiniteSets

CONSTANTS Addresses,       \* accounts that are signers or may be voted on
          GenesisSigners,  \* the signers listed by genesis
          Epoch,           \* blocks per epoch
          MaxNumber,       \* bound on the block number
          NoAddress        \* the zero address: no vote

ASSUME AddressesAssumption ==
  /\ IsFiniteSet(Addresses)
  /\ GenesisSigners \subseteq Addresses /\ GenesisSigners # {}
  /\ NoAddress \notin Addresses
  /\ Epoch \in Nat \ {0}
  /\ MaxNumber \in Nat

Votes == [signer : Addresses, address : Addresses, authorize : BOOLEAN]

Tallies == [authorize : BOOLEAN, votes : Nat]

VARIABLES number,   \* Snapshot.Number
          signers,  \* Snapshot.Signers
          recents,  \* Snapshot.Recents: block number to signer
          votes,    \* Snapshot.Votes
          tally,    \* Snapshot.Tally: candidate to vote count
          last,     \* history: the last block each address signed
          admitted  \* history: an epoch block listed an address that was no signer

snapshotVars == <<number, signers, recents, votes, tally>>

vars == <<snapshotVars, last, admitted>>

\* NewGenesisSnapshot
Init ==
  /\ number = 0
  /\ signers = GenesisSigners
  /\ recents = [n \in {} |-> NoAddress]
  /\ votes = {}
  /\ tally = [a \in {} |-> [authorize |-> TRUE, votes |-> 0]]
  /\ last = [a \in {} |-> 0]
  /\ admitted = FALSE

-----------------------------------------------------------------------------
(* The rules on who may sign *)

Limit(S) == (Cardinality(S) \div 2) + 1

Without(f, D) == [x \in DOMAIN f \ D |-> f[x]]

Including(f, k, x) == [y \in DOMAIN f \cup {k} |-> IF y = k THEN x ELSE f[y]]

\* HasRecentlySigned: the check of VerifyHeader and produceBlock.
HasRecentlySigned(n, s) ==
  \E b \in DOMAIN recents : recents[b] = s /\ b + Limit(signers) > n

\* VerifyHeader, on a header that is well formed: the epoch blocks and no others
\* have a list of signers.  The checks are against the parent's snapshot.
VerifyHeader(n, s, list) ==
  /\ list # {} <=> n % Epoch = 0
  /\ s \in signers /\ ~HasRecentlySigned(n, s)

\* The signer set that apply works with: it reads the list before all else.
Authorized(list) == IF list # {} THEN list ELSE signers

\* apply evicts one entry of Recents before it looks at the signer.
Evict(n, S) == Without(recents, {n - Limit(S)})

\* The checks of apply on the signer.
Applicable(n, s, S) ==
  /\ s \in S
  /\ \A b \in DOMAIN Evict(n, S) : Evict(n, S)[b] # s

-----------------------------------------------------------------------------
(* Counting votes *)

\* validVote
ValidVote(a, authorize) == authorize <=> a \notin signers

\* Mutant of IsMajority: half of the signers are enough.
IsHalf(n) == n >= Cardinality(signers) \div 2

IsMajority(n) == n > Cardinality(signers) \div 2

\* cast
Cast(t, a, authorize) ==
  Including(t, a, [authorize |-> authorize,
                   votes |-> IF a \in DOMAIN t /\ t[a].authorize = authorize
                             THEN t[a].votes + 1 ELSE 1])

\* Mutant of Uncast: entries that reach zero stay.
UncastKeepsEmpty(t, V) ==
  [a \in DOMAIN t |->
     [authorize |-> t[a].authorize,
      votes |-> t[a].votes
                  - Cardinality({v \in V : v.address = a /\ v.authorize = t[a].authorize})]]

\* uncast, for each of the votes V: entries that reach zero are deleted.
Uncast(t, V) ==
  LET matching(a) == {v \in V : v.address = a /\ v.authorize = t[a].authorize}
      left(a) == t[a].votes - Cardinality(matching(a))
  IN  [a \in {x \in DOMAIN t : matching(x) = {} \/ left(x) > 0} |->
         [authorize |-> t[a].authorize, votes |-> left(a)]]

\* The vote of signer s on candidate c does not change the signer set: it is
\* dropped if it is not meaningful, or counted.
CountVote(s, c, authorize, V, t) ==
  /\ UNCHANGED signers
  /\ \/ ~ValidVote(c, authorize) /\ votes' = V /\ tally' = t
     \/ /\ ValidVote(c, authorize)
        /\ votes' = V \cup {[signer |-> s, address |-> c, authorize |-> authorize]}
        /\ tally' = Cast(t, c, authorize)
        /\ ~IsMajority(tally'[c].votes)

\* Mutant of ResolveVote: the votes cast by a removed signer stay.
ResolveVoteKeeps(s, c, authorize, V, t) ==
  LET counted == V \cup {[signer |-> s, address |-> c, authorize |-> authorize]}
      cast == Cast(t, c, authorize)
  IN  /\ ValidVote(c, authorize)
      /\ IsMajority(cast[c].votes)
      /\ signers' = IF authorize THEN signers \cup {c} ELSE signers \ {c}
      /\ votes' = {v \in counted : v.address # c}
      /\ tally' = Without(cast, {c})

\* The vote makes a majority: the candidate is added or removed, a removed
\* signer's own votes are discarded, and so are all votes for the candidate.
ResolveVote(s, c, authorize, V, t) ==
  LET counted == V \cup {[signer |-> s, address |-> c, authorize |-> authorize]}
      cast == Cast(t, c, authorize)
      own == IF authorize THEN {} ELSE {v \in counted : v.signer = c}
  IN  /\ ValidVote(c, authorize)
      /\ IsMajority(cast[c].votes)
      /\ signers' = IF authorize THEN signers \cup {c} ELSE signers \ {c}
      /\ votes' = {v \in counted \ own : v.address # c}
      /\ tally' = Without(Uncast(cast, own), {c})

-----------------------------------------------------------------------------
(* apply, for the next block: signed by s, voting on c or on nothing, and *)
(* with a list of signers if it is an epoch block                          *)

\* Mutant of RecordSigner: the list is emptied when a vote removes a signer.
RecordSignerClears(n, s, S) ==
  recents' = IF S \subseteq signers' THEN Including(Evict(n, S), n, s)
                                     ELSE [b \in {} |-> NoAddress]

\* Record the signer of block n; a signer that a vote removes loses its entries,
\* one that an epoch list omits does not.
RecordSigner(n, s, S) ==
  LET entries == Including(Evict(n, S), n, s)
  IN  recents' = Without(entries, {b \in DOMAIN entries :
                                     entries[b] \in S /\ entries[b] \notin signers'})

\* An epoch block puts its list in place of the signers and discards all votes,
\* its own included.
EpochBlock(list) ==
  /\ signers' = list
  /\ votes' = {}
  /\ tally' = [a \in {} |-> [authorize |-> TRUE, votes |-> 0]]

\* Mutant of IsVote: the zero address is not excluded.
IsVoteAlways(c) == TRUE

\* isVote, of a block that is no epoch block
IsVote(c) == c # NoAddress

\* A vote replaces the signer's earlier vote on the candidate.
VoteBlock(s, c, authorize) ==
  LET old == {v \in votes : v.signer = s /\ v.address = c}
      V == votes \ old
      t == Uncast(tally, old)
  IN  \/ CountVote(s, c, authorize, V, t)
      \/ ResolveVote(s, c, authorize, V, t)

Apply(s, c, authorize, list) ==
  LET n == number + 1
      S == Authorized(list)
  IN  /\ n <= MaxNumber
      /\ VerifyHeader(n, s, list)
      /\ Applicable(n, s, S)
      /\ IF list # {} THEN EpochBlock(list)
         ELSE IF IsVote(c) THEN VoteBlock(s, c, authorize)
         ELSE UNCHANGED <<signers, votes, tally>>
      /\ RecordSigner(n, s, S)
      /\ number' = n
      /\ last' = Including(last, s, n)
      /\ admitted' = (admitted \/ ~(list \subseteq signers))

Next ==
  \E s \in Addresses, c \in Addresses \cup {NoAddress}, authorize \in BOOLEAN,
     list \in SUBSET Addresses :
    Apply(s, c, authorize, list)

Spec == Init /\ [][Next]_vars

-----------------------------------------------------------------------------
(* Properties *)

\* The snapshot's maps hold addresses and counts.
TypeOK ==
  /\ number \in 0..MaxNumber
  /\ signers \subseteq Addresses
  /\ DOMAIN recents \subseteq 1..number
  /\ recents \in [DOMAIN recents -> Addresses]
  /\ votes \subseteq Votes
  /\ DOMAIN tally \subseteq Addresses
  /\ tally \in [DOMAIN tally -> Tallies]
  /\ admitted \in BOOLEAN

\* The tally is the count of the votes, after every change of mind, removal of
\* a voter and epoch (cast, uncast and the discarding loops of apply).
TallyCountsVotes ==
  /\ DOMAIN tally = {v.address : v \in votes}
  /\ \A a \in DOMAIN tally :
       tally[a].votes = Cardinality({v \in votes : v.address = a
                                       /\ v.authorize = tally[a].authorize})

\* A pending vote is by a current signer, who has no other vote on the same
\* address, and asks for a change: votes of removed signers, votes on resolved
\* candidates and votes in both directions are gone.
VotesAreLive ==
  /\ \A v \in votes : v.signer \in signers /\ (v.authorize <=> v.address \notin signers)
  /\ \A v, w \in votes : (v.signer = w.signer /\ v.address = w.address) => v = w

\* More than half of the signers voted on a, the last of them in this block.
MajorityOn(a) ==
  LET voters == {v.signer : v \in {w \in votes : w.address = a}}
                  \cup {s \in DOMAIN last' : last'[s] = number'}
  IN  2 * Cardinality(voters \cap signers) > Cardinality(signers)

SignerChange ==
  signers' # signers =>
    \/ /\ number' % Epoch = 0
       /\ \E s \in DOMAIN last' : last'[s] = number' /\ s \in signers /\ s \in signers'
    \/ /\ number' % Epoch # 0
       /\ \E a \in Addresses : signers' \in {signers \cup {a}, signers \ {a}} /\ MajorityOn(a)

\* Within an epoch the signer set changes by one address at a time, and only
\* when more than half of the signers at that block voted for it since the epoch
\* began (the majority test of apply, on counts that cast and uncast maintained).
\* An epoch block changes it without votes, to a list that its own signer wrote
\* and is on, having been a signer before (VerifyHeader and apply).
SignerChanges == [][SignerChange]_vars

SignerWaits ==
  ~admitted =>
    \A s \in DOMAIN last : last'[s] # last[s] => last'[s] >= last[s] + Limit(signers)

\* A signer waits for Limit blocks before it signs again: as long as the lists of
\* epoch blocks admit nobody, no sequence of votes, of shorter lists and of
\* removals and readmissions lets it sign twice in a window (EIP-225, apply and
\* VerifyHeader).
SignersWait == [][SignerWaits]_vars

-----------------------------------------------------------------------------
(* What the comments say *)

\* "HasRecentlySigned reports whether signer has signed too recently to be
\* permitted to sign the block at number" (snapshot.go): a signer that it
\* clears is not refused by apply.
ClearedSignersApply ==
  \A s \in signers : ~HasRecentlySigned(number + 1, s) => Applicable(number + 1, s, signers)
=============================================================================
