------------------------------- MODULE MCMiner -------------------------------
(* Instances of Miner.                                                      *)
EXTENDS Miner, TLC
MCProposals == [hasVote : {TRUE}, candidate : {2}, voterElection : {TRUE}, authorize : BOOLEAN,
                lists : {"same"}]
Budget(starts, stops, syncs, blocks, txs) ==
  [starts |-> starts, stops |-> stops, syncs |-> syncs, blocks |-> blocks, txs |-> txs]
ChainBudget == {Budget(1, 1, 0, 3, 1)}
EpochBudget == {Budget(1, 0, 0, 3, 2)}
RestartBudget == {Budget(2, 1, 0, 1, 1)}
MCBudgets ==
  ChainBudget \cup RestartBudget \cup {Budget(1, 0, 1, 1, 1), Budget(1, 1, 1, 0, 1)}
=============================================================================
