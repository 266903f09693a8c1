------------------------------- MODULE TxMap -------------------------------
(***************************************************************************)
(* What core/tx_list.go promises: the transactions of one account, at most *)
(* one per nonce, and what every method hands to its callbacks or returns. *)
(* Nothing is cached and nothing indexed.  TxList implements it.           *)
(***************************************************************************)
EXTENDS TxSets

CONSTANTS
  Nonce,   \* nonces
  Cost,    \* costs, and the balances they are compared with
  Gas,     \* gas limits, of transactions and of blocks
  Tx       \* transactions: nonce, price, cost and gas

ASSUME ListAssumption ==
  /\ Nonce \subseteq Nat /\ Cost \subseteq Nat /\ Gas \subseteq Nat
  /\ Tx \subseteq [nonce : Nonce, price : Nat, cost : Cost, gas : Gas]

VARIABLES
  strict, \* set for the list of pending transactions, not for that of queued ones
  items,  \* the transactions
  out     \* the last call: its name and argument, whether it found or took
          \* something, and the transactions that it handed out, in a set or in order

mapVars == <<strict, items, out>>

Out(call, ok, set, seq) == [call |-> call, ok |-> ok, set |-> set, seq |-> seq]

Sorted(txs) == SetToSortSeq(txs, LAMBDA s, t : s.nonce < t.nonce)

MapAdd(tx) ==
  LET old == At(items, tx.nonce)
      ok  == \A o \in old : Outbids(tx, o)
  IN  /\ items' = IF ok THEN (items \ old) \cup {tx} ELSE items
      /\ out' = Out(<<"Add", tx>>, ok, IF ok THEN old ELSE {}, <<>>)

MapPut(tx) ==
  /\ items' = (items \ At(items, tx.nonce)) \cup {tx}
  /\ out' = Out(<<"Put", tx>>, TRUE, {}, <<>>)

MapForward(threshold) ==
  /\ items' = items \ Below(items, threshold)
  /\ out' = Out(<<"Forward", threshold>>, TRUE, {}, Sorted(Below(items, threshold)))

MapFilter(cost, gas) ==
  LET match == Unpayable(items, cost, gas)
      tail  == IF strict THEN Following(items, match) ELSE {}
      gone  == IF strict THEN FirstOf(match) ELSE match
  IN  /\ items' = (items \ gone) \ tail
      /\ out' = Out(<<"Filter", cost, gas>>, TRUE, gone, Sorted(tail))

\* The highest nonces go first.
MapCap(n) ==
  /\ items' = items \ Excess(items, n)
  /\ out' = Out(<<"Cap", n>>, TRUE, {}, Reverse(Sorted(Excess(items, n))))

MapRemove(nonce) ==
  LET tail == IF strict /\ At(items, nonce) # {} THEN Above(items, nonce) ELSE {}
  IN  /\ items' = (items \ At(items, nonce)) \ tail
      /\ out' = Out(<<"Remove", nonce>>, At(items, nonce) # {}, {}, Sorted(tail))

MapReady(start) ==
  /\ items' = items \ Run(items, start)
  /\ out' = Out(<<"Ready", start>>, TRUE, {}, Sorted(Run(items, start)))

MapForLast(n) ==
  /\ items' = items \ LastOf(items, n)
  /\ out' = Out(<<"ForLast", n>>, TRUE, {}, Sorted(LastOf(items, n)))

MapFlatten == out' = Out(<<"Flatten">>, TRUE, {}, Sorted(items)) /\ UNCHANGED items

MapLast ==
  /\ items # {}
  /\ out' = Out(<<"Last">>, TRUE, {t \in items : Above(items, t.nonce) = {}}, <<>>)
  /\ UNCHANGED items

MapInit == strict \in BOOLEAN /\ items = {} /\ out = Out(<<"new">>, TRUE, {}, <<>>)

MapNext ==
  /\ \/ \E t \in Tx : MapAdd(t) \/ MapPut(t)
     \/ \E n \in Nonce : MapForward(n) \/ MapCap(n) \/ MapRemove(n) \/ MapReady(n) \/ MapForLast(n)
     \/ \E c \in Cost, g \in Gas : MapFilter(c, g)
     \/ MapFlatten \/ MapLast
  /\ UNCHANGED strict

MapSpec == MapInit /\ [][MapNext]_mapVars

=============================================================================
