----------------------------- MODULE BlockTree ------------------------------
(***************************************************************************)
(* The blocks that may exist, as a tree: the chain, the number and the     *)
(* total difficulty of a block, and what two chains have in common         *)
(* (core/types/block.go; core/blockchain.go, reorg).                       *)
(***************************************************************************)
EXTENDS Integers, FiniteSets, Sequences, FiniteSetsExt, Functions

CONSTANTS
  Block,          \* every block that may arrive or be mined
  Genesis,        \* the first of them
  Parent,         \* the parent of each block but Genesis
  Difficulty,     \* the difficulty of each block
  Tx,             \* transactions
  Txs,            \* the set of transactions in each block
  Bad,            \* blocks that ValidateState refuses
  None

\* Going from block to parent ends at Genesis.
ASSUME TreeAssumption ==
  /\ Genesis \in Block /\ None \notin Block
  /\ Parent \in [Block \ {Genesis} -> Block]
  /\ Difficulty \in [Block -> Nat \ {0}]
  /\ Txs \in [Block -> SUBSET Tx]
  /\ \A S \in SUBSET Block : S # {} => \E b \in S : b = Genesis \/ Parent[b] \notin S

\* The blocks from the first after Genesis up to b.
Chain[b \in Block] == IF b = Genesis THEN <<>> ELSE Append(Chain[Parent[b]], b)
Number(b) == Len(Chain[b])
Td[b \in Block] == IF b = Genesis THEN Difficulty[b] ELSE Td[Parent[b]] + Difficulty[b]
Ancestor(b, n) == IF n = 0 THEN Genesis ELSE Chain[b][n]
Numbers == {Number(b) : b \in Block}

\* Execution refuses a transaction whose nonce is used up, so that a chain of
\* accepted blocks has no transaction twice.
ASSUME TxsAssumption ==
  \A b \in Block : Range(Chain[b]) \cap Bad = {} =>
    \A x, y \in Range(Chain[b]) : x # y => Txs[x] \cap Txs[y] = {}

\* The number of the youngest block that two chains have in common.
Fork(old, new) ==
  Max({0} \cup {n \in (1..Number(old)) \cap (1..Number(new)) : Chain[old][n] = Chain[new][n]})

\* The blocks that a reorg from block old to block new drops and adds.
Dropped(old, new) == SubSeq(Chain[old], Fork(old, new) + 1, Number(old))
Added(old, new) == Dropped(new, old)

=============================================================================
