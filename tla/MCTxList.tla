------------------------------ MODULE MCTxList ------------------------------
(* An instance of TxList.                                                  *)
EXTENDS TxList
\* For every nonce two transactions of each of two prices; some cost more than
\* others and some take more gas.
MCTx ==
  [nonce : Nonce, price : {10}, cost : {1, 2}, gas : {1}]
    \cup [nonce : Nonce, price : {11}, cost : {1}, gas : {1, 2}]
=============================================================================
