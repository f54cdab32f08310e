--------------------------- MODULE QBFTRoomProofs ---------------------------
(***************************************************************************)
(* In a network of up to three validators the message channel of a         *)
(* validator always has room for the votes that its own loop writes to it. *)
(*                                                                         *)
(* The argument counts: every message on its way to a validator differs    *)
(* from the others in its sender, its height or its place in the protocol, *)
(* and the positions of the validators and the delay of gossip bound the   *)
(* heights.                                                                *)
(***************************************************************************)
EXTENDS QBFTSmallProofs

\* The place of m in the protocol of its height.
Phase(m) ==
  4 * m.round + CASE m.type = "ROUND_CHANGE" -> 0
                  [] m.type = "PROPOSAL" -> 1
                  [] m.type = "PREPARE" -> 2
                  [] m.type = "COMMIT" -> 3

\* The sender of a message and its place in the protocol tell it apart.
Key(m) == <<m.from, m.number, Phase(m)>>

Apart(x, m) == Key(x) # Key(m)

\* The messages that have been sent to v, with q the channel and S the network.
\* What follows an own message in the channel is at most Lag heights below it.
BoxOK(v, q, S) ==
  /\ \A i, j \in DOMAIN q : i < j => Apart(q[j], q[i])
  /\ \A i, j \in DOMAIN q : i < j /\ q[i].from = v => q[i].number <= q[j].number + Lag
  /\ \A m \in S : m.from # v /\ \A i \in DOMAIN q : Apart(m, q[i])
  /\ \A m, x \in S : Key(m) = Key(x) => m = x

Box(v) == net[v] \cup {chan[v][i] : i \in DOMAIN chan[v]}

\* The core c of v is at most Lag heights above m, which it has not read, and less
\* when it has counted its own COMMIT.
Low(m, v, c) ==
  /\ m.number + Lag >= Len(c.parent)
  /\ v \in c.commits => m.number + Lag > Len(c.parent)

Within(m) == m.number \in 1..MaxHeight /\ Phase(m) \in 1..(4 * MaxRound + 3)

\* What v has not dispatched is new to it, and but for the first, which is
\* published already, to everybody.
OutOK(v) ==
  /\ \A i \in DOMAIN out[v] :
       /\ out[v][i].from = v /\ out[v][i].number = Height(v) /\ Within(out[v][i])
       /\ \A j \in DOMAIN chan[v] : Apart(out[v][i], chan[v][j])
       /\ i > 1 => \A u \in Validators : \A x \in Box(u) : Apart(out[v][i], x)
  /\ \A i, j \in DOMAIN out[v] : i < j => Apart(out[v][j], out[v][i])

BoundOK(v) == core[v].round <= MaxRound /\ (pc[v] # "Start" => Height(v) <= MaxHeight)

RoomInv ==
  \A v \in Validators :
    /\ BoxOK(v, chan[v], net[v]) /\ OutOK(v) /\ BoundOK(v)
    /\ \A m \in Box(v) : Within(m)
    /\ \A i \in DOMAIN chan[v] : Low(chan[v][i], v, core[v])

\* How far the core c has come in its height, as a phase.
Reached(c) ==
  4 * c.round + CASE c.state = "New" -> 0
                  [] c.state = "Prepared" -> 2
                  [] c.state = "CommitSent" -> 3
                  [] OTHER -> 4

\* The message m is ahead of the core c of its sender.
Ahead(m, c) ==
  \/ m.number > Len(c.parent) + 1
  \/ m.number = Len(c.parent) + 1 /\ Phase(m) > Reached(c)

LEMMA PhaseFacts ==
  ASSUME NEW m \in Messages
  PROVE  /\ Phase(m) \in Nat /\ Phase(m) <= 4 * m.round + 3
         /\ m.type = "ROUND_CHANGE" => Phase(m) = 4 * m.round
         /\ m.type = "PROPOSAL" => Phase(m) = 4 * m.round + 1
         /\ m.type = "PREPARE" => Phase(m) = 4 * m.round + 2
         /\ m.type = "COMMIT" => Phase(m) = 4 * m.round + 3
<1>1. m.type \in Types /\ m.round \in Nat
  BY MessageFacts, Zenon
<1> QED
  BY <1>1 DEF Phase, Types

LEMMA ReachedFacts ==
  ASSUME NEW c \in Cores
  PROVE  /\ Reached(c) \in Nat /\ Reached(c) >= 4 * c.round /\ Reached(c) <= 4 * c.round + 4
         /\ c.state = "New" => Reached(c) = 4 * c.round
         /\ c.state = "Prepared" => Reached(c) = 4 * c.round + 2
         /\ c.state = "CommitSent" => Reached(c) = 4 * c.round + 3
         /\ c.state \in {"RoundChange", "Committed"} => Reached(c) = 4 * c.round + 4
<1>1. c.round \in Nat /\ c.state \in {"New", "Prepared", "CommitSent", "Committed", "RoundChange"}
  BY CoreFacts, Zenon
<1> QED
  BY <1>1 DEF Reached

LEMMA KeyFacts ==
  ASSUME NEW x, NEW m
  PROVE  Key(x) = Key(m) <=> x.from = m.from /\ x.number = m.number /\ Phase(x) = Phase(m)
BY DEF Key

LEMMA ApartOther == \A x, m : x.from # m.from => Apart(x, m)
  BY KeyFacts, Zenon DEF Apart

\* What is sent in round r of height k is no later than phase e of round s of
\* the height after n.
LEMMA PhaseOrder ==
  /\ \A k, n, r, s, p, e \in Nat :
       /\ n >= k \/ (n + 1 = k /\ s > r)
       /\ p <= 4 * r + 3 /\ e >= 4 * s
       => k < n + 1 \/ (k = n + 1 /\ p <= e)
  /\ \A k, n, r, s, e \in Nat :
       /\ n >= k \/ (n + 1 = k /\ s >= r)
       /\ e >= 4 * s
       => k < n + 1 \/ (k = n + 1 /\ 4 * r <= e)
  OBVIOUS

\* A message ahead of its sender's core differs from all that it has sent.
LEMMA AheadApart ==
  ASSUME NEW C \in [Validators -> Cores], NEW K, NEW m \in Messages, NEW x \in Messages,
         MsgOK(x, C, K), Ahead(m, C[m.from])
  PROVE  Apart(m, x)
<1> SUFFICES ASSUME x.from = m.from PROVE Apart(m, x)
  BY ApartOther, Zenon
<1> DEFINE c == C[m.from]
<1>1. /\ m.from \in Validators /\ m.number \in Nat /\ m.round \in Nat /\ c \in Cores
      /\ x.number \in Nat /\ x.round \in Nat /\ x.type \in Types
  BY MessageFacts, Zenon
<1> HIDE DEF c
<1>2. /\ Len(c.parent) \in Nat /\ c.round \in Nat
  BY <1>1, CoreFacts, Zenon
<1> DEFINE n == Len(c.parent) + 1
           p == Phase(x)
           e == Reached(c)
<1>3. x.number < n \/ (x.number = n /\ p <= e)
  <2>0. /\ p \in Nat /\ p <= 4 * x.round + 3 /\ e \in Nat /\ e >= 4 * c.round
        /\ c.state = "Prepared" => e = 4 * c.round + 2
        /\ c.state = "CommitSent" => e = 4 * c.round + 3
        /\ c.state \in {"RoundChange", "Committed"} => e = 4 * c.round + 4
    BY <1>1, ReachedFacts, PhaseFacts, Zenon
  <2> HIDE DEF e
  <2>1. CASE x.type \in {"PROPOSAL", "PREPARE"}
    <3>1. Voted(c, x.number, x.round, x.header, Prepping)
      BY <2>1, Zenon DEF MsgOK, c
    <3>2. p = 4 * x.round + 1 \/ p = 4 * x.round + 2
      BY <2>1, PhaseFacts, Zenon
    <3> HIDE DEF p
    <3>3. CASE Past(c, x.number, x.round)
      BY <1>1, <1>2, <2>0, <3>3, PhaseOrder, Zenon DEF Past
    <3>4. CASE /\ Len(c.parent) + 1 = x.number /\ c.round = x.round /\ c.state \in Prepping
      <4>1. e = 4 * c.round + 2 \/ e = 4 * c.round + 3 \/ e = 4 * c.round + 4
        BY <2>0, <3>4, Zenon DEF Prepping
      <4> QED
        BY <1>1, <1>2, <3>2, <3>4, <4>1
    <3> QED
      BY <3>1, <3>3, <3>4, Zenon DEF Voted
  <2>2. CASE x.type = "COMMIT"
    <3>1. Voted(c, x.number, x.round, x.header, Committing)
      BY <2>2, Zenon DEF MsgOK, c
    <3>2. p = 4 * x.round + 3
      BY <2>2, PhaseFacts, Zenon
    <3> HIDE DEF p
    <3>3. CASE Past(c, x.number, x.round)
      BY <1>1, <1>2, <2>0, <3>3, PhaseOrder, Zenon DEF Past
    <3>4. CASE /\ Len(c.parent) + 1 = x.number /\ c.round = x.round /\ c.state \in Committing
      <4>1. e = 4 * c.round + 3 \/ e = 4 * c.round + 4
        BY <2>0, <3>4, Zenon DEF Committing
      <4> QED
        BY <1>1, <1>2, <3>2, <3>4, <4>1
    <3> QED
      BY <3>1, <3>3, <3>4, Zenon DEF Voted
  <2>3. CASE x.type = "ROUND_CHANGE"
    <3>1. Asked(c, x.number, x.round)
      BY <2>3, Zenon DEF MsgOK, c
    <3>2. p = 4 * x.round
      BY <2>3, PhaseFacts, Zenon
    <3> HIDE DEF p
    <3>3. CASE Len(c.parent) >= x.number \/ (Len(c.parent) + 1 = x.number /\ c.round >= x.round)
      <4>1. x.number < n \/ (x.number = n /\ 4 * x.round <= e)
        BY <1>1, <1>2, <2>0, <3>3, PhaseOrder, Zenon
      <4> QED
        BY <3>2, <4>1, Zenon
    <3>4. CASE /\ Len(c.parent) + 1 = x.number /\ c.round + 1 = x.round
               /\ c.state \in {"RoundChange", "Committed"}
      <4>1. e = 4 * c.round + 4
        BY <2>0, <3>4, Zenon
      <4> QED
        BY <1>1, <1>2, <3>2, <3>4, <4>1
    <3> QED
      BY <3>1, <3>3, <3>4, Zenon DEF Asked
  <2> QED
    BY <1>1, <2>1, <2>2, <2>3, Zenon DEF Types
<1>4. m.number > n \/ (m.number = n /\ Phase(m) > e)
  BY Zenon DEF Ahead, c
<1>5. Reached(c) \in Nat /\ Phase(m) \in Nat /\ Phase(x) \in Nat
  BY <1>1, ReachedFacts, PhaseFacts, Zenon
<1>6. ~(x.number = m.number /\ Phase(x) = Phase(m))
  BY <1>1, <1>2, <1>3, <1>4, <1>5
<1> QED
  BY <1>6, KeyFacts, Zenon DEF Apart

LEMMA BoxTail ==
  ASSUME NEW v, NEW q \in Seq(Messages), q # <<>>, NEW S, BoxOK(v, q, S)
  PROVE  BoxOK(v, Tail(q), S)
<1> DEFINE t == Tail(q)
<1>1. \A i \in DOMAIN t : i + 1 \in DOMAIN q /\ t[i] = q[i + 1]
  BY TailFacts, Zenon
<1>2. \A i, j \in DOMAIN t : i < j => i + 1 < j + 1
  OBVIOUS
<1> HIDE DEF t
<1>3. /\ \A i, j \in DOMAIN t : i < j => Apart(t[j], t[i])
      /\ \A i, j \in DOMAIN t : i < j /\ t[i].from = v => t[i].number <= t[j].number + Lag
      /\ \A m \in S : \A i \in DOMAIN t : Apart(m, t[i])
  BY <1>1, <1>2, Zenon DEF BoxOK
<1>4. BoxOK(v, t, S)
  BY <1>3, Zenon DEF BoxOK
<1> QED
  BY <1>4 DEF t

LEMMA AppendFacts ==
  ASSUME NEW q \in Seq(Messages), NEW m \in Messages, NEW i \in DOMAIN Append(q, m)
  PROVE  \/ i \in DOMAIN q /\ Append(q, m)[i] = q[i]
         \/ Append(q, m)[i] = m /\ \A j \in DOMAIN Append(q, m) : j <= i
OBVIOUS

LEMMA BoxAppend ==
  ASSUME NEW v, NEW q \in Seq(Messages), NEW m \in Messages, NEW S, BoxOK(v, q, S),
         \A i \in DOMAIN q : Apart(m, q[i]), \A x \in S : Apart(x, m),
         \A i \in DOMAIN q : q[i].from = v => q[i].number <= m.number + Lag
  PROVE  BoxOK(v, Append(q, m), S)
<1> DEFINE t == Append(q, m)
<1>1. \A i \in DOMAIN t : \/ i \in DOMAIN q /\ t[i] = q[i]
                          \/ t[i] = m /\ \A j \in DOMAIN t : j <= i
  BY AppendFacts, Zenon
<1>2. \A i, j \in DOMAIN t : i < j => ~(j <= i)
  OBVIOUS
<1> HIDE DEF t
<1>3. \A i, j \in DOMAIN t :
        i < j => Apart(t[j], t[i]) /\ (t[i].from = v => t[i].number <= t[j].number + Lag)
  <2> SUFFICES ASSUME NEW i \in DOMAIN t, NEW j \in DOMAIN t, i < j
               PROVE  Apart(t[j], t[i]) /\ (t[i].from = v => t[i].number <= t[j].number + Lag)
    BY Zenon
  <2>1. i \in DOMAIN q /\ t[i] = q[i]
    BY <1>1, <1>2, Zenon
  <2> QED
    BY <1>1, <2>1, Zenon DEF BoxOK
<1>4. \A x \in S : \A i \in DOMAIN t : Apart(x, t[i])
  BY <1>1, Zenon DEF BoxOK
<1>5. BoxOK(v, t, S)
  BY <1>3, <1>4, Zenon DEF BoxOK
<1> QED
  BY <1>5 DEF t

LEMMA BoxRemove ==
  ASSUME NEW v, NEW q, NEW S, NEW m, BoxOK(v, q, S)
  PROVE  BoxOK(v, q, S \ {m})
BY Zenon DEF BoxOK

LEMMA BoxPublish ==
  ASSUME NEW v, NEW q, NEW S, NEW m, BoxOK(v, q, S), m.from # v,
         \A i \in DOMAIN q : Apart(m, q[i]), \A x \in S : Apart(m, x)
  PROVE  BoxOK(v, q, S \cup {m})
<1>1. \A x \in S : Key(m) # Key(x)
  BY Zenon DEF Apart
<1>2. \A x, y \in S \cup {m} : Key(x) = Key(y) => x = y
  BY <1>1, Zenon DEF BoxOK
<1> QED
  BY <1>2, Zenon DEF BoxOK

\* The broadcasts msgs of v, which goes on with core c, are new to everybody.
Fits(v, msgs, c) ==
  /\ \A i \in DOMAIN msgs :
       /\ msgs[i].from = v /\ msgs[i].number = Len(c.parent) + 1 /\ Within(msgs[i])
       /\ \A u \in Validators : \A x \in Box(u) : Apart(msgs[i], x)
  /\ \A i, j \in DOMAIN msgs : i < j => Apart(msgs[j], msgs[i])

\* The channel of v stays or loses its first message.
Taken(v) == chan'[v] = chan[v] \/ (chan[v] # <<>> /\ chan'[v] = Tail(chan[v]))

\* The first of msgs is published by v, to u.
Posted(u, v, msgs) ==
  \/ net'[u] = net[u]
  \/ u # v /\ 1 \in DOMAIN msgs /\ net'[u] = net[u] \cup {msgs[1]}

LEMMA PostedFacts ==
  ASSUME LoopTypeOK, NEW v \in Validators, NEW msgs \in Seq(Messages),
         net' = IF msgs = <<>> THEN net ELSE Publish(net, v, Head(msgs)), NEW u \in Validators
  PROVE  Posted(u, v, msgs)
<1>1. CASE msgs = <<>>
  BY <1>1, Zenon DEF Posted
<1>2. CASE msgs # <<>>
  <2>1. 1 \in DOMAIN msgs /\ msgs[1] = Head(msgs)
    BY <1>2
  <2>2. net'[u] = IF u = v THEN net[u] ELSE net[u] \cup {Head(msgs)}
    BY <1>2, Zenon DEF Publish
  <2> QED
    BY <2>1, <2>2, Zenon DEF Posted
<1> QED
  BY <1>1, <1>2, Zenon

LEMMA TakenBox ==
  ASSUME LoopTypeOK, NEW v \in Validators, Taken(v), BoxOK(v, chan[v], net[v])
  PROVE  /\ BoxOK(v, chan'[v], net[v])
         /\ \A i \in DOMAIN chan'[v] : \E j \in DOMAIN chan[v] : chan'[v][i] = chan[v][j]
<1>1. chan[v] \in Seq(Messages)
  BY Zenon DEF LoopTypeOK
<1>2. CASE chan'[v] = chan[v]
  BY <1>2, Zenon
<1>3. CASE chan[v] # <<>> /\ chan'[v] = Tail(chan[v])
  <2>1. \A i \in DOMAIN Tail(chan[v]) : \E j \in DOMAIN chan[v] : Tail(chan[v])[i] = chan[v][j]
    BY <1>1, <1>3, TailFacts, Zenon
  <2> QED
    BY <1>1, <1>3, <2>1, BoxTail, Zenon
<1> QED
  BY <1>2, <1>3, Zenon DEF Taken

\* The loop of v goes on with core d and the broadcasts msgs.
Sends(v, d, msgs) ==
  /\ core' = [core EXCEPT ![v] = d] /\ out' = [out EXCEPT ![v] = msgs]
  /\ net' = IF msgs = <<>> THEN net ELSE Publish(net, v, Head(msgs))
  /\ \A u \in Validators \ {v} : chan'[u] = chan[u] /\ pc'[u] = pc[u]

\* What the core d will read is not low.
Clear(v, d) == \A i \in DOMAIN chan'[v] : Low(chan'[v][i], v, d)

LEMMA SendRoom ==
  ASSUME LoopTypeOK, RoomInv, NEW v \in Validators, NEW d,
         NEW msgs \in Seq(Messages), Sends(v, d, msgs), Taken(v), Fits(v, msgs, d),
         BoundOK(v)', Clear(v, d)
  PROVE  RoomInv'
<1>0. \A u \in Validators \ {v} : chan'[u] = chan[u] /\ pc'[u] = pc[u]
  BY Zenon DEF Sends
<1>a. \A u, x : x \in Box(u) <=> x \in net[u] \/ \E i \in DOMAIN chan[u] : x = chan[u][i]
  BY Zenon DEF Box
<1>b. \A u, x : x \in Box(u)' <=> x \in net'[u] \/ \E i \in DOMAIN chan'[u] : x = chan'[u][i]
  BY Zenon DEF Box
<1>1. /\ core'[v] = d /\ out'[v] = msgs
      /\ \A u \in Validators \ {v} : core'[u] = core[u] /\ out'[u] = out[u]
  BY Zenon DEF LoopTypeOK, Sends
<1>2. \A u \in Validators : Posted(u, v, msgs)
  BY PostedFacts, Zenon DEF Sends
<1>3. ASSUME NEW u \in Validators
      PROVE  /\ BoxOK(u, chan'[u], net[u])
             /\ \A i \in DOMAIN chan'[u] : \E j \in DOMAIN chan[u] : chan'[u][i] = chan[u][j]
  <2>1. BoxOK(u, chan[u], net[u])
    BY Zenon DEF RoomInv
  <2> QED
    BY <1>0, <2>1, TakenBox, Zenon
<1>4. ASSUME NEW u \in Validators, NEW x \in Box(u)'
      PROVE  x \in Box(u) \/ (u # v /\ 1 \in DOMAIN msgs /\ x = msgs[1])
  <2>1. CASE x \in net'[u]
    <3>1. x \in net[u] \/ (u # v /\ 1 \in DOMAIN msgs /\ x = msgs[1])
      BY <1>2, <2>1 DEF Posted
    <3>2. x \in net[u] => x \in Box(u)
      BY Zenon DEF Box
    <3> QED
      BY <3>1, <3>2, Zenon
  <2>2. CASE x \notin net'[u]
    <3>1. PICK i \in DOMAIN chan'[u] : x = chan'[u][i]
      BY <1>b, <1>4, <2>2, Zenon
    <3> QED
      BY <1>a, <1>3, <3>1, Zenon
  <2> QED
    BY <2>1, <2>2, Zenon
<1>5. ASSUME NEW u \in Validators PROVE BoxOK(u, chan'[u], net'[u])
  <2>1. CASE net'[u] = net[u]
    BY <1>3, <2>1, Zenon
  <2>2. CASE u # v /\ 1 \in DOMAIN msgs /\ net'[u] = net[u] \cup {msgs[1]}
    <3>1. msgs[1].from # u /\ \A x \in Box(u) : Apart(msgs[1], x)
      <4>1. msgs[1].from = v /\ \A x \in Box(u) : Apart(msgs[1], x)
        BY <2>2, Zenon DEF Fits
      <4> QED
        BY <2>2, <4>1, Zenon
    <3>2. /\ \A i \in DOMAIN chan'[u] : Apart(msgs[1], chan'[u][i])
          /\ \A x \in net[u] : Apart(msgs[1], x)
      BY <1>a, <1>3, <3>1, Zenon
    <3> DEFINE m == msgs[1]
               q == chan'[u]
               S == net[u]
    <3>3. /\ BoxOK(u, q, S) /\ m.from # u /\ net'[u] = S \cup {m}
          /\ \A i \in DOMAIN q : Apart(m, q[i])
          /\ \A x \in S : Apart(m, x)
      BY <1>3, <2>2, <3>1, <3>2, Zenon
    <3> HIDE DEF m, S, q
    <3>4. BoxOK(u, q, S \cup {m})
      BY <3>3, BoxPublish, Zenon
    <3> QED
      BY <3>3, <3>4, Zenon DEF q
  <2> QED
    BY <1>2, <2>1, <2>2, Zenon DEF Posted
<1>6. OutOK(v)'
  <2>1. \A u \in Validators : \A x \in Box(u)' : \A i \in DOMAIN msgs : i > 1 => Apart(msgs[i], x)
    <3> SUFFICES ASSUME NEW u \in Validators, NEW x \in Box(u)', NEW i \in DOMAIN msgs, i > 1
                 PROVE  Apart(msgs[i], x)
      BY Zenon
    <3>1. CASE x \in Box(u)
      BY <3>1, Zenon DEF Fits
    <3>2. CASE 1 \in DOMAIN msgs /\ x = msgs[1]
      <4>1. 1 < i
        BY Zenon
      <4> QED
        BY <3>2, <4>1, Zenon DEF Fits
    <3> QED
      BY <1>4, <3>1, <3>2, Zenon
  <2>2. \A i \in DOMAIN msgs : \A j \in DOMAIN chan'[v] : Apart(msgs[i], chan'[v][j])
    <3>1. \A i \in DOMAIN msgs : \A x \in Box(v) : Apart(msgs[i], x)
      BY Zenon DEF Fits
    <3> QED
      BY <1>a, <1>3, <3>1, Zenon
  <2>3. \A i \in DOMAIN msgs : msgs[i].from = v /\ msgs[i].number = Height(v)' /\ Within(msgs[i])
    BY <1>1, Zenon DEF Fits, Height
  <2>4. \A i, j \in DOMAIN msgs : i < j => Apart(msgs[j], msgs[i])
    BY Zenon DEF Fits
  <2> QED
    BY <1>1, <2>1, <2>2, <2>3, <2>4, Zenon DEF OutOK
<1>7. ASSUME NEW w \in Validators \ {v} PROVE OutOK(w)'
  <2>1. OutOK(w) /\ out'[w] = out[w] /\ Height(w)' = Height(w) /\ chan'[w] = chan[w]
    BY <1>0, <1>1, Zenon DEF RoomInv, Height
  <2>2. \A i \in DOMAIN out[w] : i > 1 => \A u \in Validators : \A x \in Box(u)' : Apart(out[w][i], x)
    <3> SUFFICES ASSUME NEW i \in DOMAIN out[w], i > 1, NEW u \in Validators, NEW x \in Box(u)'
                 PROVE  Apart(out[w][i], x)
      BY Zenon
    <3>1. CASE x \in Box(u)
      BY <2>1, <3>1, Zenon DEF OutOK
    <3>2. CASE 1 \in DOMAIN msgs /\ x = msgs[1]
      <4>1. x.from = v /\ out[w][i].from = w /\ w # v
        BY <2>1, <3>2, Zenon DEF OutOK, Fits
      <4> QED
        BY <4>1, ApartOther, Zenon
    <3> QED
      BY <1>4, <3>1, <3>2, Zenon
  <2> QED
    BY <2>1, <2>2, Zenon DEF OutOK
<1>8. ASSUME NEW u \in Validators PROVE BoundOK(u)'
  <2>1. CASE u # v
    <3>1. BoundOK(u) /\ core'[u] = core[u] /\ pc'[u] = pc[u]
      BY <1>0, <1>1, <2>1, Zenon DEF RoomInv
    <3> QED
      BY <3>1, Zenon DEF BoundOK, Height
  <2> QED
    BY <2>1, Zenon
<1>9. ASSUME NEW u \in Validators, NEW x \in Box(u)' PROVE Within(x)
  <2>1. x \in Box(u) => Within(x)
    BY Zenon DEF RoomInv
  <2>2. 1 \in DOMAIN msgs /\ x = msgs[1] => Within(x)
    BY Zenon DEF Fits
  <2> QED
    BY <1>4, <1>9, <2>1, <2>2, Zenon
<1>10. ASSUME NEW u \in Validators PROVE \A i \in DOMAIN chan'[u] : Low(chan'[u][i], u, core'[u])
  <2>1. CASE u # v
    BY <1>0, <1>1, <2>1, Zenon DEF RoomInv
  <2>2. CASE u = v
    BY <1>1, <2>2, Zenon DEF Clear
  <2> QED
    BY <2>1, <2>2, Zenon
<1> QED
  <2>1. \A u \in Validators : OutOK(u)'
    BY <1>6, <1>7, Zenon
  <2> QED
    BY <1>5, <1>8, <1>9, <1>10, <2>1, Zenon DEF RoomInv

LEMMA AheadAll ==
  ASSUME LoopTypeOK, SmallInv, NEW m \in Messages, Ahead(m, core[m.from]),
         NEW u \in Validators, NEW x \in Box(u)
  PROVE  Apart(m, x)
<1>1. x \in Pool(u) /\ x \in Messages
  BY PoolTyped, Zenon DEF Box, Pool
<1>2. MsgOK(x, core, Known) /\ core \in [Validators -> Cores]
  BY <1>1, Zenon DEF SmallInv, LoopTypeOK
<1> QED
  BY <1>1, <1>2, AheadApart, Zenon

\* The message m of v fits the core c that v goes on with.
Written(m, v, c) ==
  /\ m \in Messages /\ m.from = v /\ m.number = Len(c.parent) + 1 /\ Within(m)
  /\ Ahead(m, core[v])

LEMMA FitsNone == \A v, c : Fits(v, <<>>, c)
<1>1. DOMAIN <<>> = {}
  OBVIOUS
<1> QED
  BY <1>1, Zenon DEF Fits

LEMMA FitsOne ==
  ASSUME LoopTypeOK, SmallInv, NEW v, NEW c, NEW m, Written(m, v, c)
  PROVE  Fits(v, <<m>>, c)
<1>1. \A i \in DOMAIN <<m>> : <<m>>[i] = m
  OBVIOUS
<1>2. \A i, j \in DOMAIN <<m>> : ~(i < j)
  OBVIOUS
<1>3. \A u \in Validators : \A x \in Box(u) : Apart(m, x)
  BY AheadAll, Zenon DEF Written
<1> DEFINE s == <<m>>
<1> HIDE DEF s
<1>4. Fits(v, s, c)
  BY <1>1, <1>2, <1>3, Zenon DEF Fits, Written, s
<1> QED
  BY <1>4 DEF s

LEMMA FitsTwo ==
  ASSUME LoopTypeOK, SmallInv, NEW v, NEW c, NEW a, NEW b, Written(a, v, c), Written(b, v, c),
         Apart(b, a)
  PROVE  Fits(v, <<a, b>>, c)
<1> DEFINE s == <<a, b>>
<1>1. /\ \A i \in DOMAIN s : s[i] = a \/ s[i] = b
      /\ \A i, j \in DOMAIN s : i < j => s[i] = a /\ s[j] = b
  OBVIOUS
<1> HIDE DEF s
<1>2. /\ \A u \in Validators : \A x \in Box(u) : Apart(a, x)
      /\ \A u \in Validators : \A x \in Box(u) : Apart(b, x)
  BY AheadAll, Zenon DEF Written
<1>3. \A i \in DOMAIN s :
        /\ s[i].from = v /\ s[i].number = Len(c.parent) + 1 /\ Within(s[i])
        /\ \A u \in Validators : \A x \in Box(u) : Apart(s[i], x)
  BY <1>1, <1>2, Zenon DEF Written
<1>4. \A i, j \in DOMAIN s : i < j => Apart(s[j], s[i])
  BY <1>1, Zenon
<1>5. Fits(v, s, c)
  BY <1>3, <1>4, Zenon DEF Fits
<1> QED
  BY <1>5 DEF s

\* The channel of v has nothing more than Lag heights below the one on p.
Above(v, p) == \A i \in DOMAIN chan'[v] : chan'[v][i].number + Lag >= Len(p)

LEMMA EnterRoom ==
  ASSUME LoopTypeOK, SmallInv, RoomInv, NEW v \in Validators,
         NEW p \in Branches, NEW r \in Nat, NEW prepared \in Proposed \cup {NoHeader},
         EnterRound(v, p, r, prepared, {}), Leaves(core[v], pc[v], p, r),
         Len(p) < MaxHeight, r <= MaxRound, Taken(v),
         \A u \in Validators \ {v} : chan'[u] = chan[u], Above(v, p)
  PROVE  RoomInv'
<1> DEFINE h == RoundHeader(v, p, r, prepared)
           n == Len(p) + 1
           c == NewCore(p, r)
           d == [c EXCEPT !.state = "Prepared", !.proposal = h]
           a == Message("PROPOSAL", v, n, r, h)
           b == Message("PREPARE", v, n, r, h)
<1>1. h \in Proposed /\ (Continue(v, d, <<a, b>>) \/ Continue(v, c, <<>>))
  BY EnterCases, Zenon
<1>2. n \in Nat /\ n \in 1..MaxHeight /\ Len(p) \in Nat
  BY BranchLength, LoopAssumption
<1> HIDE DEF h
<1>3. NewAt(c, p, r)
  BY NewCoreFacts, Zenon
<1> HIDE DEF c
<1>4. c \in Cores /\ c.parent = p /\ c.round = r /\ c.commits = {}
  BY <1>3, Zenon DEF NewAt
<1>5. Proposes(d, c, h)
  BY <1>1, <1>4, PreparedFacts, Zenon
<1> HIDE DEF d
<1>6. d \in Cores /\ d.parent = p /\ d.round = r /\ d.commits = {}
  BY <1>4, <1>5, Zenon DEF Proposes, SameRest
<1>7. /\ a \in Messages /\ a.type = "PROPOSAL" /\ a.from = v /\ a.number = n /\ a.round = r
      /\ b \in Messages /\ b.type = "PREPARE" /\ b.from = v /\ b.number = n /\ b.round = r
  <2> HIDE DEF n
  <2>1. a \in Messages /\ b \in Messages
    BY <1>1, <1>2, MessageTyped, Zenon DEF Types
  <2>2. /\ a.type = "PROPOSAL" /\ a.from = v /\ a.number = n /\ a.round = r
        /\ b.type = "PREPARE" /\ b.from = v /\ b.number = n /\ b.round = r
    BY DEF Message
  <2> QED
    BY <2>1, <2>2, Zenon
<1> HIDE DEF a, b
<1>8. Phase(a) = 4 * r + 1 /\ Phase(b) = 4 * r + 2
  BY <1>7, PhaseFacts
<1>9. Ahead(a, core[v]) /\ Ahead(b, core[v])
  <2> DEFINE e == Reached(core[v])
             k == Len(core[v].parent)
             t == core[v].round
  <2>1. core[v] \in Cores /\ k \in Nat /\ t \in Nat
    BY CoreFacts, Zenon DEF LoopTypeOK
  <2>2. e \in Nat /\ e <= 4 * t + 4 /\ (core[v].state = "New" => e = 4 * t)
    BY <2>1, ReachedFacts, Zenon
  <2>3. Len(p) > k \/ (Len(p) = k /\ r > t) \/ (Len(p) = k /\ r = t /\ core[v].state = "New")
    BY Zenon DEF Leaves
  <2> HIDE DEF e, k, t
  <2>4. n > k + 1 \/ (n = k + 1 /\ 4 * r + 1 > e)
    BY <1>2, <2>1, <2>2, <2>3
  <2>5. n > k + 1 \/ (n = k + 1 /\ 4 * r + 2 > e)
    BY <2>2, <2>4
  <2> HIDE DEF n
  <2> QED
    BY <1>7, <1>8, <2>4, <2>5, Zenon DEF Ahead, e, k
<1>10. Within(a) /\ Within(b)
  <2>1. 4 * r + 1 \in 1..(4 * MaxRound + 3) /\ 4 * r + 2 \in 1..(4 * MaxRound + 3)
    BY LoopAssumption
  <2> HIDE DEF n
  <2> QED
    BY <1>2, <1>7, <1>8, <2>1, Zenon DEF Within
<1>11. Apart(b, a)
  <2>1. Phase(b) # Phase(a)
    BY <1>8
  <2> QED
    BY <2>1, KeyFacts, Zenon DEF Apart
<1>12. Clear(v, c) /\ Clear(v, d)
  BY <1>4, <1>6, Zenon DEF Clear, Above, Low
<1>13. ASSUME NEW e, e \in {c, d}, core' = [core EXCEPT ![v] = e] PROVE BoundOK(v)'
  <2>1. core'[v].parent = p /\ core'[v].round = r
    BY <1>4, <1>6, <1>13, Zenon DEF LoopTypeOK
  <2>2. Len(p) + 1 <= MaxHeight
    BY <1>2
  <2> QED
    BY <2>1, <2>2, Zenon DEF BoundOK, Height
<1>14. CASE Continue(v, c, <<>>)
  <2> DEFINE msgs == <<>>
  <2>1. msgs \in Seq(Messages) /\ Fits(v, msgs, c)
    BY FitsNone
  <2>2. Sends(v, c, msgs) /\ core' = [core EXCEPT ![v] = c]
    BY <1>14, Zenon DEF Continue, Dispatch, Sends, LoopTypeOK
  <2> HIDE DEF msgs
  <2> QED
    BY <1>12, <1>13, <2>1, <2>2, SendRoom, Zenon
<1>15. CASE Continue(v, d, <<a, b>>)
  <2> DEFINE msgs == <<a, b>>
  <2>1. msgs \in Seq(Messages)
    BY <1>7
  <2>2. Sends(v, d, msgs) /\ core' = [core EXCEPT ![v] = d]
    BY <1>15, Zenon DEF Continue, Dispatch, Sends, LoopTypeOK
  <2>3. Written(a, v, d) /\ Written(b, v, d)
    BY <1>6, <1>7, <1>9, <1>10, Zenon DEF Written
  <2>4. Fits(v, msgs, d)
    BY <1>11, <2>3, FitsTwo, Zenon
  <2> HIDE DEF msgs
  <2> QED
    BY <1>12, <1>13, <2>1, <2>2, <2>4, SendRoom, Zenon
<1> QED
  BY <1>1, <1>14, <1>15, Zenon

\* The head of a store is not above the height of any core.
LEMMA HeadHeight ==
  ASSUME LoopInv, SmallInv, NEW v \in Validators, NEW h \in Known, Len(h) > 0
  PROVE  \/ Len(core[v].parent) >= Len(h)
         \/ /\ Len(core[v].parent) + 1 = Len(h)
            /\ core[v].round > 0 \/ core[v].state \in Committing
<1>1. PICK r \in Nat, b \in Proposed : Len(b) = Len(h) /\ AllCommitted(core, r, b)
  BY Zenon DEF SmallInv, BlockOK
<1>2. Voted(core[v], Len(h), r, b, Committing)
  BY <1>1, Zenon DEF AllCommitted
<1>3. core[v] \in Cores /\ core[v].round \in Nat
  BY CoreFacts, Zenon DEF LoopInv, LoopTypeOK
<1>4. core[v].round > r => core[v].round > 0
  BY <1>3
<1> QED
  BY <1>2, <1>4, Zenon DEF Voted, Past

LEMMA StartRoom ==
  ASSUME LoopInv, SmallInv, RoomInv, NEW v \in Validators, StartInstance(v)
  PROVE  RoomInv'
<1> DEFINE c == core[v]
           p == head[v]
<1>1. /\ pc[v] = "Start" /\ EnterRound(v, p, 0, NoHeader, {}) /\ Len(p) < MaxHeight
      /\ chan' = chan
  BY Zenon DEF StartInstance
<1>2. /\ c \in Cores /\ PlaceOK(v) /\ StoreOK(v) /\ LoopTypeOK /\ p \in Branches
  BY Zenon DEF LoopInv, LoopTypeOK, SmallInv
<1>3. Len(c.parent) \in Nat /\ Len(p) \in Nat /\ c.round \in Nat /\ p \in Known
  BY <1>2, CoreFacts, BranchLength, Zenon DEF StoreOK, Known
<1>4. Leaves(c, pc[v], p, 0)
  BY <1>1, StartLeaves, Zenon
<1>5. Above(v, p)
  <2> SUFFICES ASSUME NEW i \in DOMAIN chan[v] PROVE chan[v][i].number + Lag >= Len(p)
    BY <1>1, Zenon DEF Above
  <2> DEFINE m == chan[v][i]
             a == m.number + Lag
  <2>1. /\ Low(m, v, c) /\ m \in Messages
    BY <1>2, PoolTyped, Zenon DEF RoomInv, Pool
  <2>2. a \in Nat
    <3>1. m.number \in Nat
      BY <2>1, MessageFacts, Zenon
    <3> QED
      BY <3>1, LoopAssumption
  <2>3. a >= Len(c.parent) /\ (v \in c.commits => a > Len(c.parent))
    BY <2>1, Zenon DEF Low
  <2> HIDE DEF a
  <2>4. Len(p) > 0 => \/ Len(c.parent) >= Len(p)
                      \/ /\ Len(c.parent) + 1 = Len(p)
                         /\ c.round > 0 \/ c.state \in Committing
    BY <1>3, HeadHeight, Zenon
  <2>5. ASSUME c.state = "New", c.round = 0 PROVE a >= Len(p)
    <3>1. c.state \notin Committing
      BY <2>5 DEF Committing
    <3> QED
      BY <1>3, <2>2, <2>3, <2>4, <2>5, <3>1
  <2>6. ASSUME c.state = "Committed" PROVE a >= Len(p)
    <3>1. c.commits = Validators
      BY <1>2, <2>6, Zenon DEF PlaceOK
    <3>2. a > Len(c.parent)
      BY <2>3, <3>1, Zenon
    <3> QED
      BY <1>3, <2>2, <2>4, <3>2
  <2> QED
    BY <1>1, <1>2, <2>5, <2>6, Zenon DEF PlaceOK, a
<1>6. /\ 0 \in Nat /\ 0 <= MaxRound /\ NoHeader \in Proposed \cup {NoHeader}
  BY LoopAssumption
<1>7. Taken(v) /\ \A u \in Validators \ {v} : chan'[u] = chan[u]
  BY <1>1, Zenon DEF Taken
<1> HIDE DEF c, p
<1> QED
  BY <1>1, <1>2, <1>4, <1>5, <1>6, <1>7, EnterRoom, Zenon DEF c

\* Going on with the same height and no more commits.
LEMMA SameClear ==
  ASSUME RoomInv, NEW v \in Validators, LoopTypeOK, Taken(v), NEW d,
         d.parent = core[v].parent, d.commits \subseteq core[v].commits
  PROVE  Clear(v, d)
<1>1. BoxOK(v, chan[v], net[v]) /\ \A i \in DOMAIN chan[v] : Low(chan[v][i], v, core[v])
  BY Zenon DEF RoomInv
<1>2. \A i \in DOMAIN chan'[v] : \E j \in DOMAIN chan[v] : chan'[v][i] = chan[v][j]
  BY <1>1, TakenBox, Zenon
<1>3. \A m : Low(m, v, core[v]) => Low(m, v, d)
  BY Zenon DEF Low
<1> QED
  BY <1>1, <1>2, <1>3, Zenon DEF Clear

LEMMA TimeoutRoom ==
  ASSUME LoopInv, SmallInv, RoomInv, NEW v \in Validators, Timeout(v)
  PROVE  RoomInv'
<1> DEFINE c == core[v]
           n == Len(c.parent) + 1
           r == c.round + 1
           h == IF c.state = "New" THEN NoHeader ELSE c.proposal
           d == [c EXCEPT !.state = "RoundChange"]
           x == Message("ROUND_CHANGE", v, n, r, h)
           msgs == <<x>>
<1>1. /\ c.state \in {"New", "Prepared", "CommitSent"} /\ Continue(v, d, msgs) /\ chan' = chan
      /\ c.round < MaxRound /\ pc[v] = "Select"
  BY Zenon DEF Timeout, Height
<1>2. /\ c \in Cores /\ LoopTypeOK
  BY Zenon DEF LoopInv, LoopTypeOK
<1>3. /\ Len(c.parent) \in Nat /\ c.round \in Nat /\ h \in Proposed \cup {NoHeader}
  BY <1>2, CoreFacts, Zenon
<1>4. Len(c.parent) + 1 <= MaxHeight
  BY <1>1, Zenon DEF RoomInv, BoundOK, Height
<1>5. d \in Cores /\ d.parent = c.parent /\ d.round = c.round /\ d.commits = c.commits
  <2> HIDE DEF c
  <2> QED
    BY <1>2, Zenon DEF Cores
<1>6. n \in Nat /\ n \in 1..MaxHeight /\ r \in Nat /\ r <= MaxRound
  <2> DEFINE a == Len(c.parent)
             b == c.round
  <2>1. /\ a \in Nat /\ b \in Nat /\ a + 1 <= MaxHeight /\ b < MaxRound
        /\ MaxHeight \in Nat /\ MaxRound \in Nat
    BY <1>1, <1>3, <1>4, LoopAssumption, Zenon
  <2> HIDE DEF a, b
  <2>2. a + 1 \in Nat /\ a + 1 \in 1..MaxHeight /\ b + 1 \in Nat /\ b + 1 <= MaxRound
    BY <2>1
  <2> QED
    BY <2>2, Zenon DEF a, b
<1>7. x \in Messages /\ x.type = "ROUND_CHANGE" /\ x.from = v /\ x.number = n /\ x.round = r
  <2> HIDE DEF n, r, h
  <2>1. x \in Messages
    BY <1>3, <1>6, MessageTyped, Zenon DEF Types
  <2> QED
    BY <2>1 DEF Message
<1> HIDE DEF x, d, h
<1>8. Phase(x) = 4 * r
  BY <1>7, PhaseFacts, Zenon
<1>9. Reached(c) \in Nat /\ Reached(c) <= 4 * c.round + 3
  <2>1. /\ Reached(c) \in Nat
        /\ \/ Reached(c) = 4 * c.round \/ Reached(c) = 4 * c.round + 2
           \/ Reached(c) = 4 * c.round + 3
    BY <1>1, <1>2, ReachedFacts, Zenon
  <2> DEFINE e == Reached(c)
             t == c.round
  <2> HIDE DEF e, t
  <2> QED
    BY <1>3, <2>1 DEF e, t
<1>10. 4 * r > Reached(c) /\ 4 * r \in 1..(4 * MaxRound + 3)
  <2> DEFINE e == Reached(c)
             t == c.round
  <2>1. e \in Nat /\ e <= 4 * t + 3 /\ t \in Nat /\ r = t + 1 /\ r <= MaxRound /\ MaxRound \in Nat
    BY <1>3, <1>6, <1>9, LoopAssumption, Zenon
  <2> HIDE DEF e, t, r
  <2>2. 4 * r > e /\ 4 * r \in 1..(4 * MaxRound + 3)
    BY <2>1
  <2> QED
    BY <2>2, Zenon DEF e
<1>11. Ahead(x, c) /\ Within(x)
  <2> HIDE DEF r
  <2> QED
    BY <1>6, <1>7, <1>8, <1>10, Zenon DEF Ahead, Within
<1>12. Written(x, v, d)
  BY <1>5, <1>7, <1>11, Zenon DEF Written
<1>13. Fits(v, msgs, d)
  BY <1>2, <1>12, FitsOne, Zenon
<1>14. msgs \in Seq(Messages)
  BY <1>7
<1>15. Sends(v, d, msgs) /\ Taken(v) /\ core'[v] = d
  BY <1>1, <1>2, Zenon DEF Continue, Dispatch, Sends, LoopTypeOK, Taken
<1>16. BoundOK(v)'
  <2>1. BoundOK(v) /\ pc[v] # "Start"
    BY <1>1, Zenon DEF RoomInv
  <2> QED
    BY <1>5, <1>15, <2>1, Zenon DEF BoundOK, Height
<1>17. Clear(v, d)
  BY <1>2, <1>5, <1>15, SameClear, Zenon
<1> HIDE DEF msgs
<1> QED
  BY <1>2, <1>13, <1>14, <1>15, <1>16, <1>17, SendRoom, Zenon

\* v has read the message m, the first of its channel.
Reads(v, m) ==
  /\ pc[v] = "Select" /\ chan[v] # <<>> /\ m = chan[v][1] /\ m \in Messages
  /\ chan'[v] = Tail(chan[v]) /\ \A u \in Validators \ {v} : chan'[u] = chan[u]

\* The core d may have counted a COMMIT of the height, if that is what m is.
LEMMA ReadClear ==
  ASSUME LoopTypeOK, RoomInv, NEW v \in Validators, NEW m, Reads(v, m), NEW d,
         d.parent = core[v].parent,
         d.commits \subseteq core[v].commits \/ (/\ d.commits = core[v].commits \cup {m.from}
                                                /\ m.number = Height(v))
  PROVE  Clear(v, d)
<1> DEFINE q == chan[v]
           c == core[v]
<1>1. q \in Seq(Messages) /\ q # <<>> /\ m = q[1] /\ m \in Messages /\ chan'[v] = Tail(q)
  BY Zenon DEF LoopTypeOK, Reads
<1>2. Taken(v)
  BY <1>1, Zenon DEF Taken
<1>3. CASE d.commits \subseteq c.commits
  BY <1>2, <1>3, SameClear, Zenon
<1>4. CASE d.commits = c.commits \cup {m.from} /\ m.number = Height(v)
  <2> SUFFICES ASSUME NEW i \in DOMAIN Tail(q) PROVE Low(Tail(q)[i], v, d)
    BY <1>1, Zenon DEF Clear
  <2> DEFINE j == i + 1
             x == q[j]
             a == x.number + Lag
             k == Len(c.parent)
  <2>1. j \in DOMAIN q /\ Tail(q)[i] = x /\ 1 \in DOMAIN q /\ 1 < j
    <3>1. j \in DOMAIN q /\ Tail(q)[i] = x
      BY <1>1, TailFacts, Zenon
    <3>2. 1 \in DOMAIN q /\ 1 < j
      BY <1>1
    <3> QED
      BY <3>1, <3>2, Zenon
  <2> HIDE DEF j
  <2>2. a >= k /\ (v \in c.commits => a > k)
    BY <2>1, Zenon DEF RoomInv, Low
  <2>3. m.from = v => k + 1 <= a
    <3>1. BoxOK(v, q, net[v])
      BY Zenon DEF RoomInv
    <3>2. m.from = v => m.number <= a
      BY <1>1, <2>1, <3>1, Zenon DEF BoxOK
    <3> QED
      BY <1>4, <3>2, Zenon DEF Height
  <2>4. a \in Nat /\ k \in Nat
    <3>1. c \in Cores /\ x \in Messages
      BY <1>1, <2>1, PoolTyped, Zenon DEF LoopTypeOK, Pool
    <3>2. x.number \in Nat /\ k \in Nat
      BY <3>1, CoreFacts, MessageFacts, Zenon
    <3> QED
      BY <3>2, LoopAssumption
  <2> HIDE DEF a, k
  <2>5. m.from = v => a > k
    BY <2>3, <2>4
  <2>6. v \in d.commits => a > k
    BY <1>4, <2>2, <2>5, Zenon
  <2> QED
    BY <2>1, <2>2, <2>6, Zenon DEF Low, a, k
<1> QED
  BY <1>3, <1>4, Zenon

LEMMA SameBound ==
  ASSUME NEW v \in Validators, RoomInv, pc[v] # "Start", core'[v].parent = core[v].parent,
         core'[v].round = core[v].round
  PROVE  BoundOK(v)'
<1>1. BoundOK(v)
  BY Zenon DEF RoomInv
<1> QED
  BY <1>1, Zenon DEF BoundOK, Height

\* Reading m, v goes on in the same round, with the broadcasts msgs.
LEMMA ReadSends ==
  ASSUME LoopTypeOK, RoomInv, NEW v \in Validators, NEW m, Reads(v, m),
         NEW d \in Cores, NEW msgs \in Seq(Messages), Sends(v, d, msgs), Fits(v, msgs, d),
         d.parent = core[v].parent, d.round = core[v].round,
         d.commits \subseteq core[v].commits \/ (/\ d.commits = core[v].commits \cup {m.from}
                                                /\ m.number = Height(v))
  PROVE  RoomInv'
<1>1. Taken(v) /\ pc[v] # "Start"
  BY Zenon DEF Reads, Taken
<1>2. core'[v] = d
  BY Zenon DEF Sends, LoopTypeOK
<1>3. BoundOK(v)'
  BY <1>1, <1>2, SameBound, Zenon
<1>4. Clear(v, d)
  BY ReadClear, Zenon
<1> QED
  BY <1>1, <1>3, <1>4, SendRoom, Zenon

\* A vote of the round of v's core is written once.
LEMMA VoteWritten ==
  ASSUME LoopInv, RoomInv, NEW v \in Validators, pc[v] # "Start", NEW type, NEW h \in Proposed,
         \/ type = "PREPARE" /\ core[v].state = "New"
         \/ type = "COMMIT" /\ core[v].state = "Prepared",
         NEW d, d.parent = core[v].parent
  PROVE  Written(Message(type, v, Height(v), core[v].round, h), v, d)
<1> DEFINE c == core[v]
           n == Height(v)
           r == c.round
           x == Message(type, v, n, r, h)
<1>1. c \in Cores /\ BoundOK(v)
  BY Zenon DEF LoopInv, LoopTypeOK, RoomInv
<1>2. Len(c.parent) \in Nat /\ r \in Nat
  BY <1>1, CoreFacts, Zenon
<1>3. r <= MaxRound /\ n <= MaxHeight /\ n = Len(c.parent) + 1
  BY <1>1, Zenon DEF BoundOK, Height
<1> HIDE DEF n
<1>4. n \in Nat /\ n \in 1..MaxHeight
  BY <1>2, <1>3, LoopAssumption
<1>5. x \in Messages
  BY <1>2, <1>4, MessageTyped, Zenon DEF Types
<1>6. x.type = type /\ x.from = v /\ x.number = n /\ x.round = r
  BY DEF Message
<1> HIDE DEF x, r
<1>7. /\ Phase(x) \in 1..(4 * MaxRound + 3) /\ Phase(x) > Reached(c)
  <2>1. /\ type = "PREPARE" => Phase(x) = 4 * r + 2
        /\ type = "COMMIT" => Phase(x) = 4 * r + 3
    BY <1>5, <1>6, PhaseFacts, Zenon
  <2>2. /\ c.state = "New" => Reached(c) = 4 * r
        /\ c.state = "Prepared" => Reached(c) = 4 * r + 2
    BY <1>1, ReachedFacts, Zenon DEF r
  <2>3. CASE Phase(x) = 4 * r + 2 /\ Reached(c) = 4 * r
    BY <1>2, <1>3, <2>3, LoopAssumption
  <2>4. CASE Phase(x) = 4 * r + 3 /\ Reached(c) = 4 * r + 2
    BY <1>2, <1>3, <2>4, LoopAssumption
  <2> QED
    BY <2>1, <2>2, <2>3, <2>4, Zenon
<1>8. Written(x, v, d)
  BY <1>3, <1>4, <1>5, <1>6, <1>7, Zenon DEF Written, Within, Ahead
<1> QED
  BY <1>8 DEF x, n, r

LEMMA ReadRoom ==
  ASSUME N <= 3, LoopInv, SmallInv, BehindInv, OwnInv, RoomInv,
         NEW v \in Validators, Read(v)
  PROVE  RoomInv'
<1> DEFINE m == Head(chan[v])
           c == core[v]
<1>1. /\ pc[v] = "Select" /\ chan[v] # <<>> /\ chan' = [chan EXCEPT ![v] = Tail(@)]
      /\ HandleProposal(v, m) \/ HandlePrepare(v, m) \/ HandleCommit(v, m) \/ HandleRoundChange(v, m)
  BY Zenon DEF Read
<1>2. /\ c \in Cores /\ LoopTypeOK /\ chan \in [Validators -> Seq(Messages)]
      /\ chan[v] \in Seq(Messages) /\ core \in [Validators -> Cores]
      /\ CoreOK(c, core, Known) /\ OwnAt(v)
  BY Zenon DEF LoopInv, LoopTypeOK, SmallInv, OwnInv
<1>3. m \in Messages /\ 1 \in DOMAIN chan[v] /\ m = chan[v][1]
  BY <1>1, <1>2
<1>4. m \in Pool(v) /\ m \in Box(v)
  BY <1>3, Zenon DEF Pool, Box
<1>5. Reads(v, m)
  BY <1>1, <1>2, <1>3, Zenon DEF Reads
<1>6. \A x, y \in c.roundChanges : x.from = y.from => x = y
  BY <1>2, Zenon DEF CoreOK
<1> HIDE DEF m
<1>7. \/ \E d : Quiet(v, m, d) /\ Continue(v, d, <<>>)
      \/ \E d : /\ Accepts(v, m, d)
                /\ Continue(v, d, <<Message("PREPARE", v, m.number, m.round, m.header)>>)
      \/ \E d : /\ Locks(v, m, d)
                /\ Continue(v, d, <<Message("COMMIT", v, m.number, m.round, m.header)>>)
      \/ \E d : /\ Decides(v, m, d) /\ core' = [core EXCEPT ![v] = d]
                /\ pc' = [pc EXCEPT ![v] = "Commit"] /\ UNCHANGED <<out, net>>
      \/ \E R, h : Moves(v, m, R, h)
  BY <1>1, <1>2, <1>3, <1>6, ReadCases, Zenon
<1>8. ASSUME NEW d, NEW msgs, Continue(v, d, msgs) PROVE Sends(v, d, msgs)
  <2>1. /\ core' = [core EXCEPT ![v] = d] /\ out' = [out EXCEPT ![v] = msgs]
        /\ net' = IF msgs = <<>> THEN net ELSE Publish(net, v, Head(msgs))
        /\ \A u \in Validators \ {v} : pc'[u] = pc[u]
    BY <1>2, <1>8, Zenon DEF Continue, Dispatch, LoopTypeOK
  <2> QED
    BY <1>5, <2>1, Zenon DEF Sends, Reads
<1> DEFINE none == <<>>
<1>9. none \in Seq(Messages) /\ \A d : Fits(v, none, d)
  BY FitsNone
<1>10. ASSUME NEW d, Quiet(v, m, d), Continue(v, d, none) PROVE RoomInv'
  <2>1. d \in Cores /\ d.parent = c.parent /\ d.round = c.round
    BY <1>10, Zenon DEF Quiet
  <2>2. d.commits \subseteq c.commits \/ (d.commits = c.commits \cup {m.from} /\ m.number = Height(v))
    BY <1>10, Zenon DEF Quiet, Counts, Current
  <2> HIDE DEF none
  <2>3. Sends(v, d, none)
    BY <1>8, <1>10, Zenon
  <2> QED
    BY <1>2, <1>5, <1>9, <2>1, <2>2, <2>3, ReadSends, Zenon
<1>11. ASSUME NEW d, Decides(v, m, d), core' = [core EXCEPT ![v] = d],
              pc' = [pc EXCEPT ![v] = "Commit"], UNCHANGED <<out, net>>
       PROVE  RoomInv'
  <2>1. /\ d \in Cores /\ d.parent = c.parent /\ d.round = c.round
        /\ d.commits = c.commits \cup {m.from} /\ m.number = Height(v)
    BY <1>11, Zenon DEF Decides, SameRest, Counts, Current
  <2>2. out[v] = <<>>
    BY <1>1, <1>2, Zenon DEF OwnAt
  <2>3. out' = [out EXCEPT ![v] = <<>>] /\ net' = net
        /\ \A u \in Validators \ {v} : pc'[u] = pc[u]
    <3>1. out' = out /\ out \in [Validators -> Seq(Messages)] /\ net' = net
      BY <1>2, <1>11, Zenon DEF LoopTypeOK
    <3>2. out' = [out EXCEPT ![v] = <<>>]
      BY <2>2, <3>1
    <3>3. \A u \in Validators \ {v} : pc'[u] = pc[u]
      BY <1>2, <1>11, Zenon DEF LoopTypeOK
    <3> QED
      BY <3>1, <3>2, <3>3, Zenon
  <2>4. Sends(v, d, none)
    BY <1>5, <1>11, <2>3, Zenon DEF Sends, Reads
  <2> HIDE DEF none
  <2> QED
    BY <1>2, <1>5, <1>9, <2>1, <2>4, ReadSends, Zenon
<1>12. ASSUME NEW d, Accepts(v, m, d),
              Continue(v, d, <<Message("PREPARE", v, m.number, m.round, m.header)>>)
       PROVE  RoomInv'
  <2>1. /\ d \in Cores /\ d.parent = c.parent /\ d.round = c.round /\ d.commits \subseteq c.commits
        /\ m.number = Height(v) /\ m.round = c.round /\ c.state = "New" /\ m.type = "PROPOSAL"
    BY <1>12, Zenon DEF Accepts, SameRest, Current
  <2>2. m.header \in Proposed
    BY <1>3, <2>1, MessageFacts, Zenon
  <2> DEFINE x == Message("PREPARE", v, Height(v), c.round, m.header)
             msgs == <<x>>
  <2>3. Continue(v, d, msgs)
    BY <1>12, <2>1, Zenon
  <2>4. Written(x, v, d)
    BY <1>1, <2>1, <2>2, VoteWritten, Zenon
  <2> HIDE DEF x
  <2>5. msgs \in Seq(Messages)
    <3>1. x \in Messages
      BY <2>4, Zenon DEF Written
    <3> QED
      BY <3>1
  <2>6. Fits(v, msgs, d)
    BY <1>2, <2>4, FitsOne, Zenon
  <2> HIDE DEF msgs
  <2>7. Sends(v, d, msgs)
    BY <1>8, <2>3, Zenon
  <2> QED
    BY <1>2, <1>5, <2>1, <2>5, <2>6, <2>7, ReadSends, Zenon
<1>13. ASSUME NEW d, Locks(v, m, d),
              Continue(v, d, <<Message("COMMIT", v, m.number, m.round, m.header)>>)
       PROVE  RoomInv'
  <2>1. /\ d \in Cores /\ d.parent = c.parent /\ d.round = c.round /\ d.commits \subseteq c.commits
        /\ m.number = Height(v) /\ m.round = c.round /\ c.state = "Prepared" /\ m.type = "PREPARE"
    BY <1>13, Zenon DEF Locks, SameRest, Counts, Current
  <2>2. m.header \in Proposed
    BY <1>3, <2>1, MessageFacts, Zenon
  <2> DEFINE x == Message("COMMIT", v, Height(v), c.round, m.header)
             msgs == <<x>>
  <2>3. Continue(v, d, msgs)
    BY <1>13, <2>1, Zenon
  <2>4. Written(x, v, d)
    BY <1>1, <2>1, <2>2, VoteWritten, Zenon
  <2> HIDE DEF x
  <2>5. msgs \in Seq(Messages)
    <3>1. x \in Messages
      BY <2>4, Zenon DEF Written
    <3> QED
      BY <3>1
  <2>6. Fits(v, msgs, d)
    BY <1>2, <2>4, FitsOne, Zenon
  <2> HIDE DEF msgs
  <2>7. Sends(v, d, msgs)
    BY <1>8, <2>3, Zenon
  <2> QED
    BY <1>2, <1>5, <2>1, <2>5, <2>6, <2>7, ReadSends, Zenon
<1>14. ASSUME NEW R, NEW h, Moves(v, m, R, h) PROVE RoomInv'
  <2>1. Entered(v, m, R, h) /\ m.type = "ROUND_CHANGE"
    BY <1>3, <1>4, <1>14, MovesFacts, Zenon DEF Moves
  <2>2. /\ EnterRound(v, c.parent, m.round, h, {}) /\ h \in Proposed \cup {NoHeader}
        /\ m.round > c.round
    BY <2>1, Zenon DEF Entered, Carried
  <2>3. /\ c.parent \in Branches /\ Len(c.parent) \in Nat /\ m.round \in Nat
        /\ Phase(m) = 4 * m.round
    BY <1>2, <1>3, <2>1, CoreFacts, MessageFacts, PhaseFacts, Zenon
  <2>4. Within(m) /\ BoundOK(v)
    BY <1>4, Zenon DEF RoomInv
  <2>5. 4 * m.round \in 1..(4 * MaxRound + 3)
    BY <2>3, <2>4, Zenon DEF Within
  <2>6. m.round <= MaxRound
    BY <2>3, <2>5, LoopAssumption
  <2>7. Len(c.parent) + 1 <= MaxHeight
    BY <1>1, <2>4, Zenon DEF BoundOK, Height
  <2>8. Len(c.parent) < MaxHeight
    BY <2>3, <2>7, LoopAssumption
  <2>9. Leaves(c, pc[v], c.parent, m.round)
    <3>1. c.state # "Committed"
      BY <1>1, Zenon DEF SmallInv, PlaceOK
    <3> QED
      BY <2>2, <3>1, Zenon DEF Leaves
  <2>10. Taken(v) /\ \A u \in Validators \ {v} : chan'[u] = chan[u]
    BY <1>5, Zenon DEF Reads, Taken
  <2>11. Above(v, c.parent)
    <3>1. Clear(v, c)
      BY <1>2, <2>10, SameClear, Zenon
    <3> QED
      BY <3>1, Zenon DEF Clear, Above, Low
  <2> QED
    BY <1>2, <2>2, <2>3, <2>6, <2>8, <2>9, <2>10, <2>11, EnterRoom, Zenon
<1> QED
  BY <1>7, <1>10, <1>11, <1>12, <1>13, <1>14, Zenon

\* Nobody has sent a message above its height.
LEMMA SentBelow ==
  ASSUME LoopTypeOK, SmallInv, NEW u \in Validators, NEW m \in Pool(u)
  PROVE  /\ m \in Messages /\ m.from \in Validators
         /\ Len(core[m.from].parent) >= m.number \/ Len(core[m.from].parent) + 1 = m.number
<1>1. m \in Messages /\ MsgOK(m, core, Known)
  BY PoolTyped, Zenon DEF SmallInv
<1>2. m.type \in Types /\ m.from \in Validators
  BY <1>1, MessageFacts, Zenon
<1>3. CASE m.type = "ROUND_CHANGE"
  BY <1>1, <1>2, <1>3, Zenon DEF MsgOK, Asked
<1>4. CASE m.type \in {"PROPOSAL", "PREPARE"}
  BY <1>1, <1>2, <1>4, Zenon DEF MsgOK, Voted, Past
<1>5. CASE m.type = "COMMIT"
  BY <1>1, <1>2, <1>5, Zenon DEF MsgOK, Voted, Past
<1> QED
  BY <1>2, <1>3, <1>4, <1>5, Zenon DEF Types

LEMMA LagAbove ==
  ASSUME LoopTypeOK, NEW m \in Messages, NEW v \in Validators, m.number >= Height(v)
  PROVE  m.number + Lag >= Height(v)
<1> DEFINE n == m.number
           k == Len(core[v].parent)
<1>1. core[v] \in Cores
  BY Zenon DEF LoopTypeOK
<1>2. n \in Nat /\ k \in Nat /\ n >= k + 1
  BY <1>1, MessageFacts, CoreFacts, Zenon DEF Height
<1> HIDE DEF n, k
<1>3. n + Lag >= k + 1
  BY <1>2, LoopAssumption
<1> QED
  BY <1>3, Zenon DEF n, k, Height

\* What gets to the channel of v is not low,
LEMMA NearLow ==
  ASSUME LoopTypeOK, NEW m \in Messages, NEW v \in Validators, m.number + Lag >= Height(v)
  PROVE  Low(m, v, core[v])
<1> DEFINE n == m.number
           k == Len(core[v].parent)
<1>1. core[v] \in Cores
  BY Zenon DEF LoopTypeOK
<1>2. n \in Nat /\ k \in Nat /\ n + Lag >= k + 1
  BY <1>1, MessageFacts, CoreFacts, Zenon DEF Height
<1> HIDE DEF n, k
<1>3. n + Lag >= k /\ n + Lag > k
  BY <1>2, LoopAssumption
<1> QED
  BY <1>3, Zenon DEF n, k, Low

\* nor far below an own message in it.
LEMMA OwnBelow ==
  ASSUME LoopInv, SmallInv, NEW m \in Messages, NEW v \in Validators,
         m.number + Lag >= Height(v), NEW i \in DOMAIN chan[v], chan[v][i].from = v
  PROVE  chan[v][i].number <= m.number + Lag
<1> DEFINE a == m.number + Lag
           k == Len(core[v].parent)
           x == chan[v][i]
           n == x.number
<1>1. LoopTypeOK /\ core[v] \in Cores /\ x \in Pool(v)
  BY Zenon DEF LoopInv, LoopTypeOK, Pool
<1>2. x \in Messages /\ (k >= n \/ k + 1 = n)
  BY <1>1, SentBelow, Zenon
<1>3. m.number \in Nat /\ n \in Nat /\ k \in Nat
  BY <1>1, <1>2, MessageFacts, CoreFacts, Zenon
<1>4. a \in Nat /\ a >= k + 1
  BY <1>3, LoopAssumption DEF Height
<1> HIDE DEF a, k, n
<1>5. n <= a
  BY <1>2, <1>3, <1>4
<1> QED
  BY <1>5, Zenon DEF n, a

\* The own message x is appended to the channel of v, and the next one of the
\* dispatch is published.
LEMMA EchoRoom ==
  ASSUME LoopInv, SmallInv, RoomInv, NEW v \in Validators, Echo(v)
  PROVE  RoomInv'
<1> DEFINE o == out[v]
           x == Head(o)
           rest == Tail(o)
<1>0. /\ LoopTypeOK /\ LoopAt(v) /\ o \in Seq(Messages) /\ chan[v] \in Seq(Messages)
      /\ chan \in [Validators -> Seq(Messages)] /\ out \in [Validators -> Seq(Messages)]
      /\ pc \in [Validators -> {"Start", "Select", "Echo", "Commit"}]
  BY Zenon DEF LoopInv, LoopTypeOK
<1>1. /\ pc[v] = "Echo" /\ o # <<>> /\ chan' = [chan EXCEPT ![v] = Append(@, x)]
      /\ out' = [out EXCEPT ![v] = rest]
      /\ pc' = [pc EXCEPT ![v] = IF rest = <<>> THEN "Select" ELSE "Echo"]
      /\ net' = IF rest = <<>> THEN net ELSE Publish(net, v, Head(rest))
      /\ UNCHANGED core
  BY <1>0, Zenon DEF Echo, Dispatch, LoopAt
<1>2. x \in Messages /\ rest \in Seq(Messages) /\ 1 \in DOMAIN o /\ x = o[1]
  BY <1>0, <1>1
<1>3. /\ chan'[v] = Append(chan[v], x) /\ out'[v] = rest
      /\ \A u \in Validators \ {v} : chan'[u] = chan[u] /\ out'[u] = out[u] /\ pc'[u] = pc[u]
  BY <1>0, <1>1, Zenon
<1>4. \A u \in Validators : Posted(u, v, rest)
  BY <1>0, <1>1, <1>2, PostedFacts, Zenon
<1>5. ASSUME NEW i \in DOMAIN rest PROVE i + 1 \in DOMAIN o /\ rest[i] = o[i + 1] /\ i + 1 > 1
  <2>1. i + 1 \in DOMAIN o /\ rest[i] = o[i + 1]
    BY <1>0, <1>1, TailFacts, Zenon
  <2>2. i + 1 > 1
    BY <1>2
  <2> QED
    BY <2>1, <2>2, Zenon
<1>6. /\ BoxOK(v, chan[v], net[v]) /\ OutOK(v)
  BY Zenon DEF RoomInv
\* What is left to dispatch is new to everybody.
<1>7. ASSUME NEW i \in DOMAIN rest
      PROVE  /\ rest[i].from = v /\ rest[i].number = Height(v) /\ Within(rest[i])
             /\ \A u \in Validators : \A y \in Box(u) : Apart(rest[i], y)
             /\ Apart(rest[i], x) /\ \A j \in DOMAIN rest : j < i => Apart(rest[i], rest[j])
  <2> DEFINE k == i + 1
  <2>1. k \in DOMAIN o /\ rest[i] = o[k] /\ k > 1 /\ 1 < k
    BY <1>5, Zenon
  <2>2. ASSUME NEW j \in DOMAIN rest, j < i PROVE Apart(rest[i], rest[j])
    <3> DEFINE l == j + 1
    <3>1. l \in DOMAIN o /\ rest[j] = o[l]
      BY <1>5, Zenon
    <3>2. l < k
      BY <1>2, <2>2
    <3> HIDE DEF k, l
    <3> QED
      BY <1>6, <2>1, <3>1, <3>2, Zenon DEF OutOK
  <2> HIDE DEF k
  <2>3. /\ o[k].from = v /\ o[k].number = Height(v) /\ Within(o[k])
        /\ \A u \in Validators : \A y \in Box(u) : Apart(o[k], y)
    BY <1>6, <2>1, Zenon DEF OutOK
  <2>4. Apart(o[k], o[1])
    BY <1>2, <1>6, <2>1, Zenon DEF OutOK
  <2> QED
    BY <1>2, <2>1, <2>2, <2>3, <2>4, Zenon
<1>8. /\ x.from = v /\ x.number = Height(v) /\ Within(x)
      /\ \A j \in DOMAIN chan[v] : Apart(x, chan[v][j])
  BY <1>2, <1>6, Zenon DEF OutOK
<1> HIDE DEF x, rest
<1>a. \A u, y : y \in Box(u) <=> y \in net[u] \/ \E i \in DOMAIN chan[u] : y = chan[u][i]
  BY Zenon DEF Box
<1>b. \A u, y : y \in Box(u)' <=> y \in net'[u] \/ \E i \in DOMAIN chan'[u] : y = chan'[u][i]
  BY Zenon DEF Box
\* What has been sent to u is as before, but for x and the first of rest.
<1>9. ASSUME NEW u \in Validators, NEW y \in Box(u)'
      PROVE  y \in Box(u) \/ (u = v /\ y = x) \/ (u # v /\ 1 \in DOMAIN rest /\ y = rest[1])
  <2>1. CASE y \in net'[u]
    <3>1. y \in net[u] \/ (u # v /\ 1 \in DOMAIN rest /\ y = rest[1])
      BY <1>4, <2>1 DEF Posted
    <3>2. y \in net[u] => y \in Box(u)
      BY Zenon DEF Box
    <3> QED
      BY <3>1, <3>2, Zenon
  <2>2. ASSUME NEW i \in DOMAIN chan'[u], y = chan'[u][i]
        PROVE  y \in Box(u) \/ (u = v /\ y = x)
    <3>1. CASE u # v
      BY <1>a, <1>3, <2>2, <3>1, Zenon
    <3>2. CASE u = v
      <4>1. i \in DOMAIN Append(chan[v], x) /\ y = Append(chan[v], x)[i]
        BY <1>3, <2>2, <3>2, Zenon
      <4>2. (i \in DOMAIN chan[v] /\ y = chan[v][i]) \/ y = x
        BY <1>0, <1>2, <4>1, AppendFacts
      <4> QED
        BY <1>a, <3>2, <4>2, Zenon
    <3> QED
      BY <3>1, <3>2, Zenon
  <2> QED
    BY <1>b, <1>9, <2>1, <2>2, Zenon
<1>c. x.number + Lag >= Height(v)
  <2>1. core[v] \in Cores
    BY <1>0, Zenon DEF LoopTypeOK
  <2>2. Height(v) \in Nat
    BY <2>1, CoreFacts DEF Height
  <2>3. x.number >= Height(v)
    BY <1>8, <2>2
  <2> QED
    BY <1>0, <1>2, <2>3, LagAbove, Zenon
<1>10. ASSUME NEW u \in Validators PROVE BoxOK(u, chan'[u], net'[u])
  <2>1. CASE u = v
    <3>1. \A y \in net[v] : Apart(y, x)
      <4>1. \A y \in net[v] : y.from # x.from
        BY <1>6, <1>8, Zenon DEF BoxOK
      <4> QED
        BY <4>1, ApartOther, Zenon
    <3>2. \A i \in DOMAIN chan[v] : chan[v][i].from = v => chan[v][i].number <= x.number + Lag
      BY <1>2, <1>c, OwnBelow, Zenon
    <3>4. BoxOK(v, Append(chan[v], x), net[v])
      BY <1>0, <1>2, <1>6, <1>8, <3>1, <3>2, BoxAppend, Zenon
    <3>3. net'[v] = net[v]
      BY <1>4, Zenon DEF Posted
    <3> QED
      BY <1>3, <2>1, <3>3, <3>4, Zenon
  <2>2. CASE u # v /\ net'[u] = net[u]
    <3>1. BoxOK(u, chan[u], net[u])
      BY Zenon DEF RoomInv
    <3> QED
      BY <1>3, <2>2, <3>1, Zenon
  <2>3. CASE u # v /\ 1 \in DOMAIN rest /\ net'[u] = net[u] \cup {rest[1]}
    <3> DEFINE m == rest[1]
               q == chan[u]
               S == net[u]
    <3>1. m.from = v /\ \A y \in Box(u) : Apart(m, y)
      BY <1>7, <2>3, Zenon
    <3>2. (\A i \in DOMAIN q : Apart(m, q[i])) /\ \A y \in S : Apart(m, y)
      BY <1>a, <3>1, Zenon
    <3>3. /\ BoxOK(u, q, S) /\ m.from # u /\ net'[u] = S \cup {m} /\ chan'[u] = q
      BY <1>3, <2>3, <3>1, Zenon DEF RoomInv
    <3> HIDE DEF m, q, S
    <3>4. BoxOK(u, q, S \cup {m})
      BY <3>2, <3>3, BoxPublish, Zenon
    <3> QED
      BY <3>3, <3>4, Zenon
  <2> QED
    BY <1>4, <2>1, <2>2, <2>3, Zenon DEF Posted
<1>11. OutOK(v)'
  <2>1. \A i \in DOMAIN rest : \A j \in DOMAIN chan'[v] : Apart(rest[i], chan'[v][j])
    <3> SUFFICES ASSUME NEW i \in DOMAIN rest, NEW j \in DOMAIN chan'[v]
                 PROVE  Apart(rest[i], chan'[v][j])
      BY Zenon
    <3>1. chan'[v][j] \in Box(v) \/ chan'[v][j] = x
      <4>1. chan'[v][j] \in Box(v)'
        BY <1>b, Zenon
      <4> QED
        BY <1>9, <4>1, Zenon
    <3> QED
      BY <1>7, <3>1, Zenon
  <2>2. \A i \in DOMAIN rest : i > 1 => \A u \in Validators : \A y \in Box(u)' : Apart(rest[i], y)
    <3> SUFFICES ASSUME NEW i \in DOMAIN rest, i > 1, NEW u \in Validators, NEW y \in Box(u)'
                 PROVE  Apart(rest[i], y)
      BY Zenon
    <3>1. 1 < i
      BY Zenon
    <3>2. CASE y \in Box(u)
      BY <1>7, <3>2, Zenon
    <3>3. CASE y = x
      BY <1>7, <3>3, Zenon
    <3>4. CASE 1 \in DOMAIN rest /\ y = rest[1]
      BY <1>7, <3>1, <3>4, Zenon
    <3> QED
      BY <1>9, <3>2, <3>3, <3>4, Zenon
  <2>3. Height(v)' = Height(v)
    BY <1>1, Zenon DEF Height
  <2>4. \A i \in DOMAIN rest : rest[i].from = v /\ rest[i].number = Height(v)' /\ Within(rest[i])
    BY <1>7, <2>3, Zenon
  <2>5. \A i, j \in DOMAIN rest : i < j => Apart(rest[j], rest[i])
    BY <1>7, Zenon
  <2> QED
    BY <1>3, <2>1, <2>2, <2>4, <2>5, Zenon DEF OutOK
<1>12. ASSUME NEW w \in Validators \ {v} PROVE OutOK(w)'
  <2>1. OutOK(w) /\ out'[w] = out[w] /\ Height(w)' = Height(w) /\ chan'[w] = chan[w]
    BY <1>1, <1>3, Zenon DEF RoomInv, Height
  <2>2. \A i \in DOMAIN out[w] : i > 1 => \A u \in Validators : \A y \in Box(u)' : Apart(out[w][i], y)
    <3> SUFFICES ASSUME NEW i \in DOMAIN out[w], i > 1, NEW u \in Validators, NEW y \in Box(u)'
                 PROVE  Apart(out[w][i], y)
      BY Zenon
    <3>1. CASE y \in Box(u)
      BY <2>1, <3>1, Zenon DEF OutOK
    <3>2. CASE y.from = v
      <4>1. out[w][i].from = w /\ w # v
        BY <2>1, Zenon DEF OutOK
      <4> QED
        BY <3>2, <4>1, ApartOther, Zenon
    <3> QED
      BY <1>7, <1>8, <1>9, <3>1, <3>2, Zenon
  <2> QED
    BY <2>1, <2>2, Zenon DEF OutOK
<1>13. ASSUME NEW u \in Validators PROVE BoundOK(u)'
  <2>1. BoundOK(u) /\ core'[u] = core[u] /\ (pc'[u] # "Start" => pc[u] # "Start")
    BY <1>0, <1>1, <1>3, Zenon DEF RoomInv
  <2> QED
    BY <2>1, Zenon DEF BoundOK, Height
<1>14. ASSUME NEW u \in Validators, NEW y \in Box(u)' PROVE Within(y)
  <2>1. y \in Box(u) => Within(y)
    BY Zenon DEF RoomInv
  <2> QED
    BY <1>7, <1>8, <1>9, <1>14, <2>1, Zenon
<1>15. ASSUME NEW u \in Validators, NEW i \in DOMAIN chan'[u] PROVE Low(chan'[u][i], u, core'[u])
  <2>1. CASE i \in DOMAIN chan[u] /\ chan'[u][i] = chan[u][i]
    BY <1>1, <2>1, Zenon DEF RoomInv
  <2>2. CASE u = v /\ chan'[u][i] = x
    BY <1>0, <1>1, <1>2, <1>c, <2>2, NearLow, Zenon
  <2>3. \/ i \in DOMAIN chan[u] /\ chan'[u][i] = chan[u][i]
        \/ u = v /\ chan'[u][i] = x
    <3>1. \A j \in DOMAIN Append(chan[v], x) :
            \/ j \in DOMAIN chan[v] /\ Append(chan[v], x)[j] = chan[v][j]
            \/ Append(chan[v], x)[j] = x
      BY <1>0, <1>2, AppendFacts
    <3>2. CASE u = v
      <4> DEFINE t == Append(chan[v], x)
      <4>1. i \in DOMAIN t /\ chan'[u][i] = t[i]
        BY <1>3, <1>15, <3>2, Zenon
      <4> HIDE DEF t
      <4> QED
        BY <3>1, <3>2, <4>1 DEF t
    <3>3. CASE u # v
      BY <1>3, <1>15, <3>3, Zenon
    <3> QED
      BY <3>2, <3>3, Zenon
  <2> QED
    BY <2>1, <2>2, <2>3, Zenon
<1> QED
  <2>1. \A u \in Validators : OutOK(u)'
    BY <1>11, <1>12, Zenon
  <2> QED
    BY <1>10, <1>13, <1>14, <1>15, <2>1, Zenon DEF RoomInv

LEMMA ArriveRoom ==
  ASSUME LoopInv, SmallInv, RoomInv, NEW v \in Validators, NEW m \in net[v], HandleQBFTMsg(v, m)
  PROVE  RoomInv'
<1>1. /\ net' = [net EXCEPT ![v] = @ \ {m}] /\ UNCHANGED <<core, pc, out>>
      /\ chan' = [chan EXCEPT ![v] = Append(@, m)] \/ chan' = chan
      /\ m.number + Lag >= Height(v)
  BY Zenon DEF HandleQBFTMsg, Arrives
<1>2. /\ LoopTypeOK /\ net \in [Validators -> SUBSET Messages] /\ chan \in [Validators -> Seq(Messages)]
      /\ chan[v] \in Seq(Messages) /\ m \in Messages
  BY Zenon DEF LoopInv, LoopTypeOK
<1>3. /\ net'[v] = net[v] \ {m} /\ (chan'[v] = Append(chan[v], m) \/ chan'[v] = chan[v])
      /\ \A u \in Validators \ {v} : net'[u] = net[u] /\ chan'[u] = chan[u]
  BY <1>1, <1>2, Zenon
<1>4. BoxOK(v, chan[v], net[v]) /\ OutOK(v)
  BY Zenon DEF RoomInv
<1>5. /\ \A x \in net[v] \ {m} : Apart(x, m)
      /\ \A i \in DOMAIN chan[v] : chan[v][i].from = v => chan[v][i].number <= m.number + Lag
  <2>1. \A x \in net[v] \ {m} : Apart(x, m)
    BY <1>4, Zenon DEF BoxOK, Apart
  <2> QED
    BY <1>1, <1>2, <2>1, OwnBelow, Zenon
<1>6. BoxOK(v, chan'[v], net'[v])
  <2> DEFINE S == net[v] \ {m}
  <2>1. BoxOK(v, chan[v], S)
    BY <1>4, BoxRemove, Zenon
  <2>2. (\A i \in DOMAIN chan[v] : Apart(m, chan[v][i])) /\ \A x \in S : Apart(x, m)
    BY <1>4, <1>5, Zenon DEF BoxOK
  <2> HIDE DEF S
  <2>3. BoxOK(v, Append(chan[v], m), S)
    BY <1>2, <1>5, <2>1, <2>2, BoxAppend, Zenon
  <2>4. net'[v] = S
    BY <1>3 DEF S
  <2> QED
    BY <1>3, <2>1, <2>3, <2>4, Zenon
<1>7. \A j \in DOMAIN chan'[v] : \/ j \in DOMAIN chan[v] /\ chan'[v][j] = chan[v][j]
                                 \/ chan'[v][j] = m
  <2>1. CASE chan'[v] = chan[v]
    BY <2>1, Zenon
  <2>2. CASE chan'[v] = Append(chan[v], m)
    <3>1. \A j \in DOMAIN Append(chan[v], m) :
            \/ j \in DOMAIN chan[v] /\ Append(chan[v], m)[j] = chan[v][j]
            \/ Append(chan[v], m)[j] = m
      BY <1>2, AppendFacts, Zenon
    <3> QED
      BY <2>2, <3>1, Zenon
  <2> QED
    BY <1>3, <2>1, <2>2, Zenon
<1>a. \A u, y : y \in Box(u) <=> y \in net[u] \/ \E i \in DOMAIN chan[u] : y = chan[u][i]
  BY Zenon DEF Box
<1>b. \A u, y : y \in Box(u)' <=> y \in net'[u] \/ \E i \in DOMAIN chan'[u] : y = chan'[u][i]
  BY Zenon DEF Box
<1>8. ASSUME NEW u \in Validators, NEW y \in Box(u)' PROVE y \in Box(u)
  <2>1. CASE u # v
    <3>1. net'[u] = net[u] /\ chan'[u] = chan[u]
      BY <1>3, <2>1, Zenon
    <3> QED
      BY <1>8, <3>1, Zenon DEF Box
  <2>2. CASE u = v
    <3>1. CASE y \in net'[v]
      BY <1>a, <1>3, <2>2, <3>1, Zenon
    <3>2. ASSUME NEW j \in DOMAIN chan'[v], y = chan'[v][j] PROVE y \in Box(v)
      BY <1>a, <1>7, <3>2, Zenon
    <3> QED
      BY <1>b, <1>8, <2>2, <3>1, <3>2, Zenon
  <2> QED
    BY <2>1, <2>2, Zenon
<1>9. ASSUME NEW w \in Validators PROVE OutOK(w)'
  <2>1. OutOK(w) /\ out'[w] = out[w] /\ Height(w)' = Height(w)
    BY <1>1, Zenon DEF RoomInv, Height
  <2>2. \A i \in DOMAIN out[w] : \A j \in DOMAIN chan'[w] : Apart(out[w][i], chan'[w][j])
    <3> SUFFICES ASSUME NEW i \in DOMAIN out[w], NEW j \in DOMAIN chan'[w]
                 PROVE  Apart(out[w][i], chan'[w][j])
      BY Zenon
    <3>1. CASE j \in DOMAIN chan[w] /\ chan'[w][j] = chan[w][j]
      BY <2>1, <3>1, Zenon DEF OutOK
    <3>2. CASE w = v /\ chan'[w][j] = m
      <4>1. out[w][i].from = v /\ m.from # v
        BY <1>4, <3>2, Zenon DEF OutOK, BoxOK
      <4> QED
        BY <3>2, <4>1, ApartOther, Zenon
    <3> QED
      BY <1>3, <1>7, <3>1, <3>2, Zenon
  <2>3. \A i \in DOMAIN out[w] : i > 1 => \A u \in Validators : \A y \in Box(u)' : Apart(out[w][i], y)
    BY <1>8, <2>1, Zenon DEF OutOK
  <2> QED
    BY <2>1, <2>2, <2>3, Zenon DEF OutOK
<1>10. ASSUME NEW u \in Validators
       PROVE  /\ BoxOK(u, chan'[u], net'[u]) /\ BoundOK(u)'
              /\ \A y \in Box(u)' : Within(y)
              /\ \A i \in DOMAIN chan'[u] : Low(chan'[u][i], u, core'[u])
  <2>1. /\ BoxOK(u, chan[u], net[u]) /\ BoundOK(u) /\ \A y \in Box(u) : Within(y)
        /\ \A i \in DOMAIN chan[u] : Low(chan[u][i], u, core[u])
    BY Zenon DEF RoomInv
  <2>2. BoxOK(u, chan'[u], net'[u])
    BY <1>3, <1>6, <2>1, Zenon
  <2>3. BoundOK(u)'
    BY <1>1, <2>1, Zenon DEF BoundOK, Height
  <2>4. \A i \in DOMAIN chan'[u] : Low(chan'[u][i], u, core'[u])
    <3>1. Low(m, v, core[v])
      BY <1>1, <1>2, NearLow, Zenon
    <3> QED
      BY <1>1, <1>3, <1>7, <2>1, <3>1, Zenon
  <2> QED
    BY <1>8, <2>1, <2>2, <2>3, <2>4, Zenon
<1> QED
  BY <1>9, <1>10, Zenon DEF RoomInv

\* Steps that send, read and dispatch nothing.
LEMMA StillRoom ==
  ASSUME RoomInv, UNCHANGED <<core, out, chan, net>>,
         \A u \in Validators : pc'[u] # "Start" => pc[u] # "Start"
  PROVE  RoomInv'
<1>1. \A u : Box(u)' = Box(u) /\ Height(u)' = Height(u)
  BY Zenon DEF Box, Height
<1>2. ASSUME NEW v \in Validators PROVE OutOK(v)' /\ BoundOK(v)'
  <2>1. OutOK(v) /\ BoundOK(v)
    BY Zenon DEF RoomInv
  <2>2. OutOK(v)'
    BY <1>1, <2>1, Zenon DEF OutOK
  <2>3. BoundOK(v)'
    BY <1>1, <2>1, Zenon DEF BoundOK
  <2> QED
    BY <2>2, <2>3, Zenon
<1> QED
  BY <1>1, <1>2, Zenon DEF RoomInv

LEMMA RoomInit == Init => RoomInv
<1> SUFFICES ASSUME Init, NEW v \in Validators
             PROVE  /\ BoxOK(v, chan[v], net[v]) /\ OutOK(v) /\ BoundOK(v)
                    /\ \A m \in Box(v) : Within(m)
                    /\ \A i \in DOMAIN chan[v] : Low(chan[v][i], v, core[v])
  BY Zenon DEF RoomInv
<1>1. /\ chan[v] = <<>> /\ net[v] = {} /\ out[v] = <<>> /\ pc[v] = "Start"
      /\ core[v] = NewCore(<<>>, 0)
  BY Zenon DEF Init, Genesis
<1>2. DOMAIN chan[v] = {} /\ DOMAIN out[v] = {}
  BY <1>1
<1>3. BoxOK(v, chan[v], net[v]) /\ OutOK(v)
  BY <1>1, <1>2, Zenon DEF BoxOK, OutOK
<1>4. BoundOK(v)
  <2>1. core[v].round = 0
    BY <1>1 DEF NewCore
  <2> QED
    BY <1>1, <2>1, LoopAssumption DEF BoundOK
<1>5. Box(v) = {}
  BY <1>1, <1>2, Zenon DEF Box
<1> QED
  BY <1>2, <1>3, <1>4, <1>5, Zenon

LEMMA RoomNext ==
  /\ N <= 3 /\ LoopInv /\ BehindInv /\ SmallInv /\ OwnInv /\ RoomInv
  /\ [Next]_vars
  => RoomInv'
<1> SUFFICES ASSUME N <= 3, LoopInv, BehindInv, SmallInv, OwnInv, RoomInv,
                    [Next]_vars
             PROVE  RoomInv'
  BY Zenon
<1>0. LoopTypeOK /\ pc \in [Validators -> {"Start", "Select", "Echo", "Commit"}]
  BY Zenon DEF LoopInv, LoopTypeOK
<1>1. CASE UNCHANGED vars
  <2>1. UNCHANGED <<core, out, chan, net, pc>>
    BY <1>1, Zenon DEF vars, loopVars
  <2> QED
    BY <2>1, StillRoom, Zenon
<1>2. ASSUME NEW v \in Validators, CommitBlock(v) PROVE RoomInv'
  <2>1. UNCHANGED <<core, out, chan, net>> /\ pc[v] = "Commit" /\ pc' = [pc EXCEPT ![v] = "Start"]
    BY <1>2, Zenon DEF CommitBlock
  <2>2. \A u \in Validators : pc'[u] # "Start" => pc[u] # "Start"
    BY <1>0, <2>1, Zenon
  <2> QED
    BY <2>1, <2>2, StillRoom, Zenon
<1>3. ASSUME NEW v \in Validators, NEW h \in blocks[v], HandleBlock(v, h) PROVE RoomInv'
  <2>1. UNCHANGED <<core, out, chan, net, pc>>
    BY <1>3, Zenon DEF HandleBlock, loopVars
  <2> QED
    BY <2>1, StillRoom, Zenon
<1>4. ASSUME NEW v \in Validators, LoopStep(v) \/ Timeout(v) \/ Deliver(v) PROVE RoomInv'
  <2>1. CASE StartInstance(v)
    BY <2>1, StartRoom, Zenon
  <2>2. CASE Read(v)
    BY <2>2, ReadRoom, Zenon
  <2>3. CASE Echo(v)
    BY <2>3, EchoRoom, Zenon
  <2>4. CASE Timeout(v)
    BY <2>4, TimeoutRoom, Zenon
  <2>5. ASSUME NEW m \in net[v], HandleQBFTMsg(v, m) PROVE RoomInv'
    BY <1>0, <2>5, ArriveRoom, Zenon
  <2> QED
    BY <1>2, <1>3, <1>4, <2>1, <2>2, <2>3, <2>4, <2>5, Zenon DEF LoopStep, Deliver
<1> QED
  BY <1>1, <1>4, Zenon DEF Next

Phases == 4 * MaxRound + 3

\* Nothing on its way is more than a height above any core.
LEMMA NumberBound ==
  ASSUME LoopInv, SmallInv, NEW u \in Validators, NEW m \in Pool(u), NEW v \in Validators
  PROVE  m.number <= Len(core[v].parent) + 2
<1> DEFINE w == m.from
           n == m.number
           k == Len(core[v].parent)
           l == Len(core[w].parent)
<1>1. m \in Messages /\ MsgOK(m, core, Known)
  BY PoolTyped, Zenon DEF LoopInv, SmallInv
<1>2. w \in Validators /\ n \in Nat /\ m.type \in Types
  BY <1>1, MessageFacts, Zenon
<1>3. core[v] \in Cores /\ core[w] \in Cores /\ core[w].parent \in Known
  <2>1. StoreOK(w) /\ core \in [Validators -> Cores]
    BY <1>2, Zenon DEF LoopInv, LoopTypeOK, SmallInv
  <2> HIDE DEF w
  <2> QED
    BY <1>2, <2>1, Zenon DEF StoreOK, Known
<1>4. k \in Nat /\ l \in Nat
  BY <1>3, CoreFacts, Zenon
<1>5. l >= n \/ l + 1 = n
  BY SentBelow, Zenon DEF LoopInv
<1>6. l > 0 => k >= l \/ k + 1 = l
  BY <1>3, HeadHeight, Zenon
<1>7. n <= k + 2
  <2> HIDE DEF n, k, l
  <2> QED
    BY <1>2, <1>4, <1>5, <1>6
<1> QED
  BY <1>7, Zenon

\* What is in the channel of v or about to be sent to it by v.
Lined(v) == {chan[v][i] : i \in DOMAIN chan[v]} \cup {out[v][i] : i \in DOMAIN out[v]}

\* The messages in the channel and the one to be sent to it differ in height,
\* sender or phase.
LEMMA RoomCount ==
  ASSUME LoopInv, RoomInv, NEW v \in Validators, pc[v] = "Echo", NEW H, IsFiniteSet(H),
         \A m \in Lined(v) : m.number \in H
  PROVE  Len(chan[v]) + 1 <= Cardinality(H) * (N * Phases)
<1> DEFINE q == chan[v]
           x == Head(out[v])
           t == Append(q, x)
           P == 1..Phases
           V == Validators \X P
           K == H \X V
           f == [i \in 1..(Len(q) + 1) |-> <<t[i].number, <<t[i].from, Phase(t[i])>>>>]
<1>1. /\ LoopAt(v) /\ q \in Seq(Messages) /\ out[v] \in Seq(Messages) /\ LoopTypeOK
  BY Zenon DEF LoopInv, LoopTypeOK
<1>2. out[v] # <<>>
  BY <1>1, Zenon DEF LoopAt
<1>3. x \in Messages /\ 1 \in DOMAIN out[v] /\ x = out[v][1]
  BY <1>1, <1>2
<1>4. /\ OutOK(v) /\ BoxOK(v, q, net[v]) /\ \A m \in Box(v) : Within(m)
  BY Zenon DEF RoomInv
<1>5. Within(x) /\ \A j \in DOMAIN q : Apart(x, q[j])
  BY <1>3, <1>4, Zenon DEF OutOK
<1> HIDE DEF x
<1>6. DOMAIN t = 1..(Len(q) + 1) /\ Len(q) \in Nat /\ \A i \in DOMAIN t : t[i] \in Messages
  BY <1>1, <1>3
<1>7. \A i, j \in DOMAIN t : i < j => Apart(t[j], t[i])
  <2>1. \A i \in DOMAIN t : \/ i \in DOMAIN q /\ t[i] = q[i]
                            \/ t[i] = x /\ \A j \in DOMAIN t : j <= i
    BY <1>1, <1>3, AppendFacts, Zenon
  <2>2. \A i, j \in DOMAIN t : i < j => ~(j <= i)
    BY <1>6
  <2> HIDE DEF t
  <2> SUFFICES ASSUME NEW i \in DOMAIN t, NEW j \in DOMAIN t, i < j PROVE Apart(t[j], t[i])
    BY Zenon
  <2>3. i \in DOMAIN q /\ t[i] = q[i]
    BY <2>1, <2>2, Zenon
  <2>4. CASE t[j] = x
    BY <1>5, <2>3, <2>4, Zenon
  <2>5. CASE j \in DOMAIN q /\ t[j] = q[j]
    BY <1>4, <2>3, <2>5, Zenon DEF BoxOK
  <2> QED
    BY <2>1, <2>4, <2>5, Zenon
<1>8. ASSUME NEW i \in DOMAIN t PROVE Within(t[i]) /\ t[i].number \in H
  <2>1. (i \in DOMAIN q /\ t[i] = q[i]) \/ t[i] = x
    <3> HIDE DEF q
    <3> QED
      BY <1>1, <1>3, AppendFacts
  <2>2. x \in Lined(v)
    BY <1>3, Zenon DEF Lined
  <2>3. \A j \in DOMAIN q : q[j] \in Box(v) /\ q[j] \in Lined(v)
    BY Zenon DEF Box, Lined
  <2> HIDE DEF t
  <2> QED
    BY <1>4, <1>5, <2>1, <2>2, <2>3, Zenon
<1> HIDE DEF t, q
<1>9. ASSUME NEW i \in DOMAIN t PROVE <<t[i].number, <<t[i].from, Phase(t[i])>>>> \in K
  <2>1. t[i].number \in H /\ t[i].from \in Validators /\ Phase(t[i]) \in P
    BY <1>6, <1>8, MessageFacts, Zenon DEF Within, Phases
  <2> HIDE DEF P
  <2> QED
    BY <2>1
<1>10. ASSUME NEW i \in DOMAIN t, NEW j \in DOMAIN t,
              <<t[i].number, <<t[i].from, Phase(t[i])>>>> = <<t[j].number, <<t[j].from, Phase(t[j])>>>>
       PROVE  i = j
  <2>1. t[i].number = t[j].number /\ t[i].from = t[j].from /\ Phase(t[i]) = Phase(t[j])
    BY <1>10
  <2>2. Key(t[i]) = Key(t[j]) /\ Key(t[j]) = Key(t[i])
    BY <2>1, KeyFacts, Zenon
  <2>3. ~(i < j) /\ ~(j < i)
    BY <1>7, <2>2, Zenon DEF Apart
  <2> QED
    BY <1>6, <2>3
<1> HIDE DEF K
<1>11. f \in Injection(1..(Len(q) + 1), K)
  <2>1. f \in [1..(Len(q) + 1) -> K]
    BY <1>6, <1>9, Zenon
  <2>2. \A i, j \in 1..(Len(q) + 1) : f[i] = f[j] => i = j
    BY <1>6, <1>10, Zenon
  <2> QED
    BY <2>1, <2>2, Zenon DEF Injection, IsInjective
<1> HIDE DEF f
<1>12. IsFiniteSet(K) /\ Cardinality(K) = Cardinality(H) * (N * Phases)
  <2>1. Phases \in Nat /\ IsFiniteSet(P) /\ Cardinality(P) = Phases
    <3>1. Phases \in Nat /\ 1 \in Int /\ Phases \in Int /\ Phases > 0
      BY LoopAssumption DEF Phases
    <3>2. IsFiniteSet(P) /\ Cardinality(P) = IF 1 > Phases THEN 0 ELSE Phases - 1 + 1
      BY <3>1, FS_Interval, Zenon
    <3> QED
      BY <3>1, <3>2
  <2> HIDE DEF P
  <2>2. IsFiniteSet(V) /\ Cardinality(V) = N * Phases
    BY <2>1, LoopAssumption, FS_Product, Zenon DEF N
  <2> HIDE DEF V
  <2> QED
    BY <2>2, FS_Product, Zenon DEF K
<1>13. Cardinality(1..(Len(q) + 1)) = Len(q) + 1
  <2> DEFINE n == Len(q) + 1
  <2>1. n \in Int /\ 1 \in Int /\ n > 0
    BY <1>6
  <2> HIDE DEF n
  <2>2. Cardinality(1..n) = IF 1 > n THEN 0 ELSE n - 1 + 1
    BY <2>1, FS_Interval, Zenon
  <2>3. Cardinality(1..n) = n
    BY <2>1, <2>2
  <2> QED
    BY <2>3, Zenon DEF n
<1>14. Cardinality(1..(Len(q) + 1)) <= Cardinality(K)
  BY <1>11, <1>12, FS_Injection, Zenon
<1>15. Len(q) + 1 <= Cardinality(H) * (N * Phases)
  BY <1>12, <1>13, <1>14, Zenon
<1> QED
  BY <1>15 DEF q

\* The channel has a place for each phase of the rounds up to MaxRound and each
\* validator, over all heights or over the Lag + 3 that a core may meet.
Roomy ==
  \/ ChannelSize >= MaxHeight * (N * Phases)
  \/ ChannelSize >= (Lag + 3) * (N * Phases)

LEMMA LinedFacts ==
  ASSUME LoopInv, SmallInv, RoomInv, NEW v \in Validators, NEW m \in Lined(v)
  PROVE  /\ m.number \in 1..MaxHeight
         /\ m.number \in (Len(core[v].parent) - Lag)..(Len(core[v].parent) + 2)
<1> DEFINE k == Len(core[v].parent)
<1>1. core[v] \in Cores /\ LoopTypeOK
  BY Zenon DEF LoopInv, LoopTypeOK
<1>2. k \in Nat
  BY <1>1, CoreFacts, Zenon
<1>3. m \in Pool(v) /\ m \in Messages
  <2>1. m \in Pool(v)
    BY Zenon DEF Lined, Box, Pool
  <2> QED
    BY <1>1, <2>1, PoolTyped, Zenon
<1>4. m.number \in Nat /\ m.number <= k + 2
  BY <1>3, MessageFacts, NumberBound, Zenon
<1>5. Within(m) /\ m.number + Lag >= k
  <2>1. ASSUME NEW i \in DOMAIN chan[v], m = chan[v][i] PROVE Within(m) /\ m.number + Lag >= k
    <3>1. m \in Box(v)
      BY <2>1, Zenon DEF Box
    <3> QED
      BY <2>1, <3>1, Zenon DEF RoomInv, Low
  <2>2. ASSUME NEW i \in DOMAIN out[v], m = out[v][i] PROVE Within(m) /\ m.number + Lag >= k
    <3>1. Within(m) /\ m.number = k + 1
      BY <2>2, Zenon DEF RoomInv, OutOK, Height
    <3> HIDE DEF k
    <3>2. m.number + Lag >= k
      BY <1>2, <3>1, LoopAssumption
    <3> QED
      BY <3>1, <3>2, Zenon
  <2> QED
    BY <2>1, <2>2, Zenon DEF Lined
<1>6. m.number \in (k - Lag)..(k + 2)
  <2> DEFINE n == m.number
  <2>1. n \in Nat /\ n <= k + 2 /\ n + Lag >= k
    BY <1>4, <1>5, Zenon
  <2> HIDE DEF n, k
  <2>2. n \in (k - Lag)..(k + 2)
    BY <1>2, <2>1, LoopAssumption
  <2> QED
    BY <2>2, Zenon DEF n
<1> QED
  BY <1>5, <1>6, Zenon DEF Within

LEMMA RoomEnough == Roomy /\ LoopInv /\ SmallInv /\ RoomInv => EchoHasRoom
<1> SUFFICES ASSUME Roomy, LoopInv, SmallInv, RoomInv, NEW v \in Validators, pc[v] = "Echo"
             PROVE  Len(chan[v]) < ChannelSize
  BY Zenon DEF EchoHasRoom
<1> DEFINE n == Len(chan[v])
           k == Len(core[v].parent)
           s == N * Phases
<1>1. n \in Nat /\ k \in Nat
  <2>1. chan[v] \in Seq(Messages) /\ core[v] \in Cores
    BY Zenon DEF LoopInv, LoopTypeOK
  <2>2. n \in Nat
    BY <2>1
  <2> QED
    BY <2>1, <2>2, CoreFacts, Zenon
<1>2. s \in Nat /\ ChannelSize \in Nat /\ MaxHeight \in Nat
  <2>1. N \in Nat
    BY LoopAssumption, FS_CardinalityType, Zenon DEF N
  <2>2. Phases \in Nat
    BY LoopAssumption DEF Phases
  <2> QED
    BY <2>1, <2>2, LoopAssumption
<1>3. CASE ChannelSize >= MaxHeight * s
  <2> DEFINE H == 1..MaxHeight
  <2>1. 1 \in Int /\ MaxHeight \in Int
    BY <1>2
  <2>2. IsFiniteSet(H) /\ Cardinality(H) = IF 1 > MaxHeight THEN 0 ELSE MaxHeight - 1 + 1
    BY <2>1, FS_Interval, Zenon
  <2>3. Cardinality(H) = MaxHeight
    BY <1>2, <2>2
  <2>4. \A m \in Lined(v) : m.number \in H
    BY LinedFacts, Zenon
  <2> HIDE DEF H
  <2>5. n + 1 <= MaxHeight * s
    BY <2>2, <2>3, <2>4, RoomCount, Zenon
  <2> DEFINE p == MaxHeight * s
  <2>6. p \in Nat
    BY <1>2
  <2>7. n + 1 <= p /\ ChannelSize >= p
    BY <1>3, <2>5, Zenon
  <2> HIDE DEF p, n
  <2>8. n < ChannelSize
    BY <1>1, <1>2, <2>6, <2>7
  <2> QED
    BY <2>8, Zenon DEF n
<1>4. CASE ChannelSize >= (Lag + 3) * s
  <2> DEFINE a == k - Lag
             b == k + 2
             H == a..b
  <2>1. a \in Int /\ b \in Int /\ ~(a > b) /\ b - a + 1 = Lag + 3 /\ Lag + 3 \in Nat
    <3> HIDE DEF k
    <3> QED
      BY <1>1, LoopAssumption
  <2>2. \A m \in Lined(v) : m.number \in H
    BY LinedFacts, Zenon
  <2> HIDE DEF a, b
  <2>3. IsFiniteSet(H) /\ Cardinality(H) = IF a > b THEN 0 ELSE b - a + 1
    BY <2>1, FS_Interval, Zenon
  <2>4. Cardinality(H) = Lag + 3
    BY <2>1, <2>3, Zenon
  <2> HIDE DEF H
  <2>5. n + 1 <= (Lag + 3) * s
    BY <2>2, <2>3, <2>4, RoomCount, Zenon
  <2> DEFINE p == (Lag + 3) * s
  <2>6. p \in Nat
    BY <1>2, <2>1
  <2>7. n + 1 <= p /\ ChannelSize >= p
    BY <1>4, <2>5, Zenon
  <2> HIDE DEF p, n
  <2>8. n < ChannelSize
    BY <1>1, <1>2, <2>6, <2>7
  <2> QED
    BY <2>8, Zenon DEF n
<1> QED
  BY <1>3, <1>4, Zenon DEF Roomy

Room == N <= 3 => RoomInv

\* With up to three validators the loop of a validator never waits for room in
\* the channel that only it empties (dispatchQBFTDecisions), for any number of
\* heights.  Messages may overtake each other and arrive at any point of the
\* loop, while it sends its own votes included; what the channel holds is at most
\* two heights above the parent of the core and Lag below, when gossip delivers
\* nothing more than Lag heights late.  The 64 places of qbftMsgCh are enough for
\* three validators when no height takes more than two rounds and nothing
\* arrives in a later height, or when no timer ends a round and messages are up
\* to four heights late.
THEOREM EchoNeverWaits ==
  ASSUME N <= 3, Roomy
  PROVE  LoopSpec => []EchoHasRoom
<1>1. Init => Room
  BY RoomInit, Zenon DEF Room
<1>2. /\ LoopInv /\ BehindInv /\ Small /\ OwnInv /\ Room
      /\ [Next]_vars
      => Room'
  BY RoomNext, Zenon DEF Small, Room, N
<1>3. LoopInv /\ Small /\ Room => EchoHasRoom
  BY RoomEnough, Zenon DEF Small, Room
<1> QED
  BY <1>1, <1>2, <1>3, SmallHolds, OwnInit, OwnNext, PTL DEF LoopSpec
=============================================================================
