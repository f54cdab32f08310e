------------------------------- MODULE MCSync -------------------------------
(* Two nodes with any chains that the bound allows. *)
EXTENDS Sync

CONSTANTS n1, n2

MCLinks == {<<n1, n2>>}

\* n1 signs in turn at odd numbers, n2 at even ones.
MCInTurn == [n \in Nodes |-> {k \in 1..MaxNumber : (k % 2 = 1) <=> (n = n1)}]

MCMaxOwn == [n \in Nodes |-> IF n = n1 THEN 1 ELSE 0]

MCChains == UNION {[1..k -> Seals] : k \in 0..(MaxNumber - 1)}
=============================================================================
