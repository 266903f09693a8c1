------------------------------ MODULE MCTxPool ------------------------------
(***************************************************************************)
(* Small chains and sets of transactions for TxPool.                       *)
(***************************************************************************)
EXTENDS TxPool

T(a, n, price, cost) == [from |-> a, nonce |-> n, price |-> price, cost |-> cost, gas |-> n + 1]

\* Two accounts; the first transaction of one has a replacement.
AddTx == {T("a", 0, 10, 1), T("a", 0, 11, 1), T("a", 1, 11, 1), T("a", 2, 11, 1),
          T("b", 0, 10, 1), T("b", 1, 11, 1), T("b", 2, 10, 1)}

\* A chain that does not move.
OneBlock == {"g"}
NoParent == [b \in {} |-> "g"]
OneTd == [b \in OneBlock |-> 0]
NothingIncluded == [b \in OneBlock |-> {}]
OneBalance == [b \in OneBlock |-> [a \in {"a", "b"} |-> 1]]
OneGasLimit == [b \in OneBlock |-> 4]

\* Two branches, the heavier the longer but for y2, which outweighs x1 and is
\* outweighed by x2, a block of the same number.  Each takes transactions that
\* the other leaves out, and on y2 and y3 account a cannot pay a cost of 2.
Fork == {"g", "x1", "x2", "y1", "y2", "y3"}
ForkParent == "x1" :> "g" @@ "x2" :> "x1" @@ "y1" :> "g" @@ "y2" :> "y1" @@ "y3" :> "y2"
ForkTd == "g" :> 0 @@ "x1" :> 2 @@ "x2" :> 4 @@ "y1" :> 1 @@ "y2" :> 3 @@ "y3" :> 5
ForkTx == {T("a", 0, 10, 1), T("a", 1, 10, 1), T("a", 1, 11, 1), T("a", 2, 10, 2),
           T("b", 0, 10, 1), T("b", 1, 10, 1)}
ForkIncluded ==
  "g" :> {} @@ "x1" :> {T("a", 0, 10, 1)} @@ "x2" :> {T("a", 1, 10, 1)} @@
  "y1" :> {T("b", 0, 10, 1)} @@ "y2" :> {} @@ "y3" :> {T("a", 0, 10, 1)}
ForkBalance ==
  [b \in Fork |-> "a" :> (IF b \in {"y2", "y3"} THEN 1 ELSE 2) @@ "b" :> 1]
ForkGasLimit == [b \in Fork |-> 4]

\* The same chain, but x1 and y1 share a transaction, the branch of y3 takes
\* nothing from account a, and all balances suffice.
SharedIncluded ==
  [ForkIncluded EXCEPT !["x1"] = {T("a", 0, 10, 1), T("b", 0, 10, 1)}, !["y3"] = {}]
SharedBalance == [b \in Fork |-> "a" :> 2 @@ "b" :> 1]

\* The same chain with fewer transactions: account a can pay none on y2, and the
\* second does not fit into y3.
FewTx == {T("a", 0, 10, 1), T("a", 1, 10, 1), T("b", 0, 10, 1)}
FewBalance == [b \in Fork |-> "a" :> (IF b = "y2" THEN 0 ELSE 1) @@ "b" :> 1]
FewGasLimit == [b \in Fork |-> IF b = "y3" THEN 1 ELSE 2]

\* Six transactions of one price, four and two of an account.
UnevenTx == {T("a", n, 10, 1) : n \in 0..3} \cup {T("b", n, 10, 1) : n \in 0..1}

=============================================================================
