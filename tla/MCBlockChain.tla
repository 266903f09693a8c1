---------------------------- MODULE MCBlockChain ----------------------------
(***************************************************************************)
(* Block trees for model checking BlockChain.                              *)
(***************************************************************************)
EXTENDS BlockChain

\* Of a clique of three signers, with difficulties 2 and 3: a long branch A, a
\* branch B of fewer and heavier blocks whose end ties with A3, and a branch C
\* that leaves A after A1's trie is collected.
MCBlock == {"G", "A1", "A2", "A3", "B1", "B2", "C2", "C3"}
MCParent ==
  [b \in MCBlock \ {"G"} |->
     CASE b \in {"A1", "B1"} -> "G"
       [] b \in {"A2", "C2"} -> "A1"
       [] b = "A3" -> "A2"
       [] b = "B2" -> "B1"
       [] b = "C3" -> "C2"]
MCDifficulty == [b \in MCBlock |-> IF b \in {"B1", "B2", "C3"} THEN 3 ELSE 2]
MCTx == {"s", "t"}
MCTxs == [b \in MCBlock |-> CASE b \in {"A1", "B2"} -> {"s"}
                              [] b \in {"A3", "C2"} -> {"t"}
                              [] OTHER -> {}]

\* Two branches of a clique of seven signers, whose difficulties are 4 to 7: D is
\* longer than E by one and lighter.
SmallBlock == {"G", "D1", "D2", "D3", "E1", "E2"}
SmallParent ==
  [b \in SmallBlock \ {"G"} |->
     CASE b \in {"D1", "E1"} -> "G" [] b = "D2" -> "D1" [] b = "D3" -> "D2" [] b = "E2" -> "E1"]
SmallDifficulty == [b \in SmallBlock |-> IF b \in {"E1", "E2"} THEN 7 ELSE 4]
SmallTxs == [b \in SmallBlock |-> {}]
=============================================================================
