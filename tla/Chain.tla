------------------------------- MODULE Chain -------------------------------
(***************************************************************************)
(* The tree of mainchain blocks that the extractor reads about.            *)
(*                                                                         *)
(* A block stands for its hash.  A hash commits to the header, so a block  *)
(* has one parent and one height; what a source says about a block beyond  *)
(* its header (the "fact") is the business of the modules that extend this *)
(* one.                                                                    *)
(***************************************************************************)
EXTENDS Integers, FiniteSets

CONSTANTS
    Block,        \* the blocks of every branch
    NoBlock,      \* the absent block (SQL NULL, Rust None)
    Parent,       \* previous_hash of a block; NoBlock for genesis
    Height,       \* height of a block
    Ancestors     \* a block and every block below it on its branch

(***************************************************************************)
(* What makes it a tree of hash-linked blocks.  Ancestors is given by its  *)
(* unfolding along Parent; that it holds one block per height is the usual *)
(* consequence, assumed here because it needs an induction.                *)
(***************************************************************************)
ASSUME ChainAssumption ==
    /\ NoBlock \notin Block
    /\ Height \in [Block -> Nat]
    /\ Parent \in [Block -> Block \cup {NoBlock}]
    /\ Ancestors \in [Block -> SUBSET Block]
    /\ \A b \in Block : Height[b] = 0 <=> Parent[b] = NoBlock
    /\ \A b \in Block : Parent[b] # NoBlock => Height[Parent[b]] = Height[b] - 1
    /\ \A b \in Block :
          Ancestors[b] =
             {b} \cup (IF Parent[b] = NoBlock THEN {} ELSE Ancestors[Parent[b]])
    /\ \A b \in Block : \A x \in Ancestors[b] : Ancestors[x] \subseteq Ancestors[b]
    /\ \A b \in Block : \A x, y \in Ancestors[b] : Height[x] = Height[y] => x = y
    /\ \A b \in Block : \A x \in Ancestors[b] : Height[x] <= Height[b]
=============================================================================
