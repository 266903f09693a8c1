------------------------------ MODULE MCFetcher ------------------------------
(* Instances of Fetcher: a chain of two blocks and a fork.                  *)
EXTENDS Fetcher, TLC
MCBlock == {"G", "A1", "A2", "B1"}
MCParent == [A1 |-> "G", A2 |-> "A1", B1 |-> "G"]
MCNumber == [G |-> 0, A1 |-> 1, A2 |-> 2, B1 |-> 1]
MCBody == [G |-> "empty", A1 |-> "x", A2 |-> "empty", B1 |-> "y"]
=============================================================================
