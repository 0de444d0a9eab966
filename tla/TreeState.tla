----------------------------- MODULE TreeState -----------------------------
(***************************************************************************)
(* The data that the ExEx moves between its stores, and the operators on   *)
(* it that the handlers are built from.                                    *)
(*                                                                         *)
(* The unified binary tree is a map from a 31-byte stem to a node of 256   *)
(* leaves.  Writing the zero value to a leaf removes it, so a leaf that is *)
(* absent and a leaf that is Zero are the same leaf.  Only the set of      *)
(* leaves enters the root hash; a root is therefore modelled as the State  *)
(* it commits to (hash collisions are left out).                           *)
(***************************************************************************)
EXTENDS FiniteSets

CONSTANTS
    Stem,       \* stems: 31-byte prefixes derived from an address
    SubIndex,   \* positions of a leaf below its stem
    Value,      \* the values of a leaf other than zero
    Zero,       \* B256::ZERO
    NoNode,     \* no StemNode stored (or cached) for the stem
    NoWrite     \* a patch leaves this leaf alone

Leaf == Value \cup {Zero}
Node == [SubIndex -> Leaf]

\* What the whole tree holds, by leaf.
State == [Stem -> Node]

\* Stems that have a StemNode: the ubt_stems table, and the dirty overlay.
\* A StemNode whose leaves were all removed is kept, and is not NoNode.
Table == [Stem -> Node \cup {NoNode}]

\* Leaves to set: the writes of a block, and the undo record of a block.
Patch == [Stem -> [SubIndex -> Leaf \cup {NoWrite}]]

ASSUME TreeAssumption ==
    /\ IsFiniteSet(Stem)
    /\ Zero \notin Value
    /\ NoWrite \notin Leaf
    /\ NoNode \notin Node

EmptyNode  == [i \in SubIndex |-> Zero]
EmptyState == [s \in Stem |-> EmptyNode]
EmptyTable == [s \in Stem |-> NoNode]
EmptyPatch == [s \in Stem |-> [i \in SubIndex |-> NoWrite]]

NodeOf(n) == IF n = NoNode THEN EmptyNode ELSE n

\* The leaves a table holds; its root hash, as a root is modelled.
StateOf(T) == [s \in Stem |-> NodeOf(T[s])]

\* The nodes of "over" in front of those of "base".
Overlaid(over, base) ==
    [s \in Stem |-> IF over[s] = NoNode THEN base[s] ELSE over[s]]

TouchedStems(P) == {s \in Stem : \E i \in SubIndex : P[s][i] # NoWrite}

PatchNode(n, p) == [i \in SubIndex |-> IF p[i] = NoWrite THEN n[i] ELSE p[i]]

Patched(S, P) == [s \in Stem |-> PatchNode(S[s], P[s])]

\* StemNodes in the overlay after the writes of P: a stem that is not in the
\* overlay yet is first read from the table below, or starts empty.
SeedFromBaseMutant(over, base, P) ==
    [s \in Stem |->
        IF s \in TouchedStems(P) THEN PatchNode(NodeOf(base[s]), P[s])
                                 ELSE over[s]]
WriteThrough(over, base, P) ==
    [s \in Stem |->
        IF s \in TouchedStems(P)
        THEN PatchNode(NodeOf(Overlaid(over, base)[s]), P[s])
        ELSE over[s]]

\* The undo record of writing P on S: the old value of every leaf that changes.
Undo(S, P) ==
    [s \in Stem |-> [i \in SubIndex |->
        IF P[s][i] \notin {NoWrite, S[s][i]} THEN S[s][i] ELSE NoWrite]]
=============================================================================
