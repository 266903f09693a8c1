------------------------------- MODULE TxSets -------------------------------
(***************************************************************************)
(* The methods of core/tx_list.go as operators on the set of transactions  *)
(* of one account, at most one per nonce: what each of them removes.       *)
(***************************************************************************)
EXTENDS Integers, FiniteSets, Sequences, SequencesExt

CONSTANT PriceBump  \* the percentage that a replacement has to add

ASSUME BumpAssumption == PriceBump \in Nat

At(txs, n) == {t \in txs : t.nonce = n}
Below(txs, n) == {t \in txs : t.nonce < n}
Above(txs, n) == {t \in txs : t.nonce > n}

\* Add: whether tx may replace old.
Outbids(tx, old) ==
  /\ tx.price > old.price
  /\ tx.price >= (old.price * (100 + PriceBump)) \div 100

\* Filter: what costs more than the balance or the gas limit allows.
Unpayable(txs, cost, gas) == {t \in txs : t.cost > cost \/ t.gas > gas}

\* Filter of a strict list: only the first of those is removed, all that follow
\* it are invalid.
FirstOf(txs) == {t \in txs : Below(txs, t.nonce) = {}}
Following(txs, match) == {t \in txs : \E m \in FirstOf(match) : t.nonce > m.nonce}

\* Cap: all but the n lowest nonces.
Excess(txs, n) == {t \in txs : Cardinality(Below(txs, t.nonce)) >= n}

\* ForLast: the n highest nonces.
LastOf(txs, n) == {t \in txs : Cardinality(Above(txs, t.nonce)) < n}

\* Mutant: only the first is ready.
RunOne(txs, start) == {t \in FirstOf(txs) : t.nonce <= start}

\* Ready: the consecutive run from the lowest nonce, if that is not after start.
Run(txs, start) ==
  {t \in txs : \E s \in FirstOf(txs) : /\ s.nonce <= start
                                       /\ \A n \in s.nonce..t.nonce : At(txs, n) # {}}

=============================================================================
