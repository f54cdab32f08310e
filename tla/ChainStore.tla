----------------------------- MODULE ChainStore -----------------------------
(***************************************************************************)
(* The fork-choice store together with the append-only file that makes it  *)
(* survive a restart: internal/forkchoice/db.go, the append in AddBlock,   *)
(* and the two users of the file, replayChain and resetChain of            *)
(* internal/node/sync.go.  Without its file variables this is ForkChoice.  *)
(*                                                                         *)
(* A record of the file is the header it holds.  A write that stopped      *)
(* halfway leaves Torn: bytes that no scan gets past.  AddBlock appends    *)
(* under the store's mutex, so one append is one step; Truncate and Reset  *)
(* of resetChain are two, and a block that another goroutine produces or   *)
(* receives may be added in between.                                       *)
(***************************************************************************)
EXTENDS ForkChoice, FiniteSets

CONSTANTS Torn,        \* an incomplete record
          DiskErrors,  \* whether a write to the file may fail
          MaxRecords,  \* bound on the records in the file and the blocks in the store
          NoStore      \* no store to compare with

ASSUME FileAssumption ==
  /\ Torn \notin Headers
  /\ DiskErrors \in BOOLEAN
  /\ MaxRecords \in Nat

VARIABLES file,     \* the records on disk, in file order
          mode,     \* what the process does: see Modes
          pos,      \* replayChain: number of records replayed
          before,   \* history: the store when the process stopped
          logged,   \* history: no append failed since the file was emptied or replayed
          durable,  \* history: known blocks that were appended before any failure
          slipped   \* history: blocks appended between Truncate and Reset

fileVars == <<file, mode, pos, before, logged, durable, slipped>>

chainVars == <<storeVars, fileVars>>

\* "Resetting": between Truncate and Reset of resetChain.  "Replaying": in
\* replayChain, where the file is not yet attached to the store.
Modes == {"Up", "Resetting", "Down", "Replaying"}

ChainInit ==
  /\ Init
  /\ file = <<>>
  /\ mode = "Up"
  /\ pos = 0
  /\ before = NoStore
  /\ logged = TRUE
  /\ durable = {Genesis}
  /\ slipped = {}

\* Mutants of Readable: a torn record is kept; the last good record is lost.
ReadableAll(f) == f

ReadableOneShort(f) ==
  LET good == {n \in 0..Len(f) : \A i \in 1..n : f[i] # Torn}
      end == CHOOSE n \in good : \A k \in good : k <= n
  IN  SubSeq(f, 1, IF end = Len(f) THEN end ELSE end - 1)

\* The scan of repair and ReadAll: the records before the first torn one.
Readable(f) ==
  LET good == {n \in 0..Len(f) : \A i \in 1..n : f[i] # Torn}
  IN  SubSeq(f, 1, CHOOSE n \in good : \A k \in good : k <= n)

\* AddBlock with its append.  A failed append is reported and ignored; it may
\* have written a part of the record.  One failure before the next restart
\* is enough: nothing after it is promised.
AddAndAppend(h) ==
  /\ mode \in {"Up", "Resetting"}
  /\ Len(file) < MaxRecords /\ Cardinality(Known) <= MaxRecords
  /\ AddBlock(h)
  /\ \/ /\ file' = Append(file, h)
        /\ durable' = durable \cup (IF mode = "Up" /\ logged THEN {h} ELSE {})
        /\ slipped' = slipped \cup (IF mode = "Resetting" THEN {h} ELSE {})
        /\ UNCHANGED logged
     \/ /\ DiskErrors /\ logged
        /\ file' \in {file, Append(file, Torn)}
        /\ logged' = FALSE
        /\ UNCHANGED <<durable, slipped>>
  /\ UNCHANGED <<mode, pos, before>>

\* resetChain, first step: ChainDB.Truncate.  A peer only answers a request
\* from a node beyond genesis with a reset.
Truncate ==
  /\ mode = "Up"
  /\ head # Genesis
  /\ mode' = "Resetting"
  /\ file' = <<>>
  /\ logged' = TRUE
  /\ durable' = {Genesis}
  /\ slipped' = {}
  /\ UNCHANGED <<storeVars, pos, before>>

\* resetChain, second step: Store.Reset.
ResetStore ==
  /\ mode = "Resetting"
  /\ mode' = "Up"
  /\ Reset
  /\ UNCHANGED <<file, pos, before, logged, durable, slipped>>

\* The process stops, possibly inside the append of a block that nobody has
\* seen in the store yet.
Crash ==
  /\ mode # "Down"
  /\ mode' = "Down"
  /\ \/ UNCHANGED file
     \/ mode \in {"Up", "Resetting"} /\ Len(file) < MaxRecords /\ file' = Append(file, Torn)
  /\ pos' = 0
  /\ before' = IF mode = "Replaying" THEN before ELSE storeVars
  /\ UNCHANGED <<storeVars, logged, durable, slipped>>

\* OpenChainDB with its repair, and a new store.
Restart ==
  /\ mode = "Down"
  /\ mode' = "Replaying"
  /\ file' = Readable(file)
  /\ pos' = 0
  /\ Reset
  /\ UNCHANGED <<before, logged, durable, slipped>>

\* Mutant of ReplayRecord: the replay gives up at a record that is refused.
ReplayRecordStops ==
  /\ mode = "Replaying"
  /\ pos < Len(file)
  /\ LET h == file[pos + 1]
     IN  IF h \notin Known /\ h # Genesis /\ Parent(h) \in Known
         THEN AddBlock(h) /\ pos' = pos + 1
         ELSE UNCHANGED storeVars /\ pos' = Len(file)
  /\ UNCHANGED <<file, mode, before, logged, durable, slipped>>

\* One record of replayChain; a record that AddBlock refuses is skipped.
ReplayRecord ==
  /\ mode = "Replaying"
  /\ pos < Len(file)
  /\ pos' = pos + 1
  /\ LET h == file[pos + 1]
     IN  IF h \notin Known /\ h # Genesis /\ Parent(h) \in Known
         THEN AddBlock(h)
         ELSE UNCHANGED storeVars
  /\ UNCHANGED <<file, mode, before, logged, durable, slipped>>

\* SetDB ends the replay.
SetDB ==
  /\ mode = "Replaying"
  /\ pos = Len(file)
  /\ mode' = "Up"
  /\ pos' = 0
  /\ logged' = TRUE
  /\ durable' = Known
  /\ slipped' = {}
  /\ before' = NoStore
  /\ UNCHANGED <<storeVars, file>>

ChainNext ==
  \/ \E h \in Headers : AddAndAppend(h)
  \/ Truncate
  \/ ResetStore
  \/ Crash
  \/ Restart
  \/ ReplayRecord
  \/ SetDB

ChainSpec == ChainInit /\ [][ChainNext]_chainVars

-----------------------------------------------------------------------------
(* Properties *)

\* The file holds headers and torn records; a torn record never survives
\* repair.
ChainTypeOK ==
  /\ TypeOK
  /\ file \in Seq(Headers \cup {Torn})
  /\ mode \in Modes
  /\ pos \in 0..MaxRecords
  /\ logged \in BOOLEAN
  /\ durable \subseteq Headers /\ slipped \subseteq Headers
  /\ mode = "Replaying" => pos <= Len(file) /\ \A i \in 1..Len(file) : file[i] # Torn

Replayed == mode = "Replaying" /\ pos = Len(file)

\* A restart brings back every block that was appended before the first failed
\* append, and no block that the store did not have, but for those that were
\* appended between Truncate and Reset.  The head is the same if its block came
\* back: later blocks of the same weight, or a branch that lost a block in the
\* middle, do not take its place (AddBlock, resetChain, replayChain, repair).
RestartRestores ==
  Replayed =>
    /\ durable \subseteq Known
    /\ Known \subseteq DOMAIN before[1] \cup slipped
    /\ slipped = {} /\ before[3] \in Known => head = before[3]

\* Where every block was appended and none slipped in between, a restart
\* rebuilds the store exactly, ties between heads included, wherever the process
\* stopped (replayChain, repair, AddBlock).
ReplayRebuilds ==
  Replayed /\ durable = DOMAIN before[1] /\ slipped = {} => storeVars = before
==============================================================================
