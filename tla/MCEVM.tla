------------------------------- MODULE MCEVM -------------------------------
(* Instances of EVM: a sender "s", a contract "c", the addresses "d" to    *)
(* "g" of contracts that they create, a signer "k", and the precompiled    *)
(* contract "r" at the address of RIPEMD160.                               *)
EXTENDS EVM

MCAddress == {"s", "c", "d", "e", "f", "g", "k", "r"}

\* No two creations within the bounds have the same address.
MCCreateAddress(a, n) ==
  CASE a = "s" -> "e" [] a = "c" /\ n = 1 -> "d" [] a # "c" /\ n = 1 -> "g" [] OTHER -> "f"

Storage == [k \in Slot |-> 1]

MCGenesis ==
  [a \in MCAddress |->
     CASE a = "s" -> Account(0, 30, NoStorage, EmptyCode)
       [] a = "c" -> Account(1, 1, Storage, "code")
       [] OTHER -> None]

\* Accounts without anything, which a genesis block may have.
EmptyGenesis ==
  [MCGenesis EXCEPT !["d"] = Account(0, 0, NoStorage, EmptyCode),
                    !["r"] = Account(0, 0, NoStorage, EmptyCode)]

Msg(to, nonce, value, gas, data) ==
  [from |-> "s", to |-> to, nonce |-> nonce, value |-> value, gas |-> gas, gasPrice |-> 1,
   data |-> data]

MCMessage ==
  {Msg("c", 0, 0, 12, 0), Msg("c", 1, 0, 12, 0), Msg(None, 0, 1, 12, 1), Msg("d", 0, 1, 2, 0),
   Msg("d", 0, 29, 2, 0)}

Budget(txs, ops, blocks, copies) == [txs |-> txs, ops |-> ops, blocks |-> blocks, copies |-> copies]

MCBudgets == {Budget(2, 2, 1, 1), Budget(2, 3, 0, 0)}
=============================================================================
