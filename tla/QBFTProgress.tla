---------------------------- MODULE QBFTProgress ----------------------------
(***************************************************************************)
(* When the loops of QBFTLoop come to rest.  No message is sent twice: a   *)
(* validator that has no use for one when it reads it, or no room for it   *)
(* when it arrives, never sees it again, and a round that lacks a message  *)
(* only ends by its timer.  The history variable missed records the losses *)
(* that no timer makes up for.                                             *)
(***************************************************************************)
EXTENDS QBFTLoop

VARIABLE missed   \* history: a message was dropped that no timer makes up for

progressVars == <<vars, missed>>

\* The round of m is not ended by a timer.  Its length is a bound of the model.
Untimed(m) == m.round >= MaxRound \/ m.number \in QuietHeights

\* HandleMsg of v has no use for m yet: it is for a later height, or a later
\* round, or a vote for a proposal that v has not read.
Early(v, m) ==
  LET c == core[v]
  IN  \/ m.number > Height(v)
      \/ /\ m.number = Height(v)
         /\ \/ m.type \in {"PREPARE", "COMMIT"} /\ m.round >= c.round /\ ~Counts(v, m)
            \/ m.type = "PROPOSAL" /\ m.round > c.round /\ c.state # "New"

\* The vote m, which others may have committed the height with, is for a round
\* that v has left.
Overtaken(v, m) == m.type = "COMMIT" /\ m.number = Height(v) /\ m.round < core[v].round

\* A ROUND_CHANGE is sent once per round, and its sender waits for the others.
Misses(v, m) ==
  \/ Overtaken(v, m)
  \/ Early(v, m) /\ (m.type = "ROUND_CHANGE" \/ Untimed(m))

-----------------------------------------------------------------------------
ProgressInit == Init /\ missed = FALSE

ProgressStep(v) ==
  \/ /\ Read(v)
     /\ missed' = (missed \/ Misses(v, Head(chan[v])))
  \/ \E m \in net[v] :
       /\ HandleQBFTMsg(v, m)
       /\ missed' = (missed \/ Len(chan[v]) >= ChannelSize)
  \/ /\ \/ StartInstance(v) \/ Echo(v) \/ CommitBlock(v) \/ Timeout(v)
        \/ \E h \in blocks[v] : HandleBlock(v, h)
     /\ UNCHANGED missed

ProgressNext == \E v \in Validators : ProgressStep(v)

ProgressSpec == ProgressInit /\ [][ProgressNext]_progressVars

-----------------------------------------------------------------------------
(* Properties *)

\* The loops come to rest only where each is through with every height, or a
\* message was missed.  A proposal for the next height that is read before the
\* own COMMIT, a vote that is read before its proposal, a timer that fires while
\* the votes of its round are on their way, and a gossiped block that advances
\* the head under a running instance cost at most a round (runQBFTInstance,
\* qbftRoundLoop).
NoStall ==
  \/ missed
  \/ \A v \in Validators : pc[v] = "Start" /\ Len(head[v]) = MaxHeight
  \/ ENABLED Next
=============================================================================
