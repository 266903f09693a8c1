------------------------------- MODULE TxList -------------------------------
(***************************************************************************)
(* core/tx_list.go: txSortedMap and txList as they are kept, with a heap   *)
(* of nonces beside the map, a cached sorting that most methods patch, and *)
(* upper bounds on cost and gas that let Filter return at once.            *)
(*                                                                         *)
(* The heap is the sorted sequence of its nonces: only its first element   *)
(* and its sorting are ever looked at.                                     *)
(***************************************************************************)
EXTENDS TxMap

CONSTANT Nil

VARIABLES
  index,    \* the heap
  cache,    \* the sorted transactions, or Nil
  costcap,  \* at least the cost of every transaction
  gascap    \* at least the gas limit of every transaction

vars == <<strict, items, out, index, cache, costcap, gascap>>

Sorting(nonces) == SetToSortSeq(nonces, <)
Nonces(txs) == {t.nonce : t \in txs}

\* The transaction of a nonce in the map.
Get(n) == CHOOSE t \in items : t.nonce = n

\* The sorting, cached or made now.
ensureCache == IF cache = Nil THEN Sorted(items) ELSE cache

\* The heap is rebuilt from what is left in the map.
Rebuild == index' = Sorting(Nonces(items'))

KeepCaps == UNCHANGED <<costcap, gascap>>

-----------------------------------------------------------------------------
(* The methods.                                                            *)

\* txList.add and txSortedMap.Put.
add(tx) ==
  /\ items' = (items \ At(items, tx.nonce)) \cup {tx}
  /\ index' = IF At(items, tx.nonce) = {} THEN SortSeq(Append(index, tx.nonce), <) ELSE index
  /\ cache' = Nil
  /\ costcap' = IF costcap < tx.cost THEN tx.cost ELSE costcap
  /\ gascap' = IF gascap < tx.gas THEN tx.gas ELSE gascap

\* A demoted transaction is put into the queue.
Put(tx) == ~strict /\ add(tx) /\ out' = Out(<<"Put", tx>>, TRUE, {}, <<>>)

Add(tx) ==
  LET old == At(items, tx.nonce)
      worse(o) == \/ o.price >= tx.price
                  \/ tx.price < (o.price * (100 + PriceBump)) \div 100
  IN  IF \E o \in old : worse(o)
      THEN /\ out' = Out(<<"Add", tx>>, FALSE, {}, <<>>)
           /\ UNCHANGED <<items, index, cache, costcap, gascap>>
      ELSE add(tx) /\ out' = Out(<<"Add", tx>>, TRUE, old, <<>>)

\* Mutant of Forward: the sorting is kept.
ForwardKeepsCache(threshold) ==
  LET popped == SelectSeq(index, LAMBDA n : n < threshold)
  IN  /\ items' = {t \in items : ~Contains(popped, t.nonce)}
      /\ index' = SubSeq(index, Len(popped) + 1, Len(index))
      /\ out' = Out(<<"Forward", threshold>>, TRUE, {}, [i \in DOMAIN popped |-> Get(popped[i])])
      /\ UNCHANGED cache /\ KeepCaps

\* Nonces below the threshold are popped off the heap.
Forward(threshold) ==
  LET popped == SelectSeq(index, LAMBDA n : n < threshold)
  IN  /\ items' = {t \in items : ~Contains(popped, t.nonce)}
      /\ index' = SubSeq(index, Len(popped) + 1, Len(index))
      /\ cache' = IF cache = Nil THEN Nil ELSE SubSeq(cache, Len(popped) + 1, Len(cache))
      /\ out' = Out(<<"Forward", threshold>>, TRUE, {}, [i \in DOMAIN popped |-> Get(popped[i])])
      /\ KeepCaps

\* A transaction beyond the caps.
Beyond(t, cost, gas) == t.cost > cost \/ t.gas > gas

\* The first transaction in order that is beyond the caps, and all after it.
FilterStrict(cost, gas) ==
  LET call   == <<"Filter", cost, gas>>
      sorted == ensureCache
      i      == SelectInSeq(sorted, LAMBDA t : Beyond(t, cost, gas))
  IN  IF i = 0
      THEN cache' = sorted /\ out' = Out(call, TRUE, {}, <<>>) /\ UNCHANGED <<items, index>>
      ELSE /\ items' = items \ ToSet(SubSeq(sorted, i, Len(sorted)))
           /\ cache' = SubSeq(sorted, 1, i - 1)
           /\ out' = Out(call, TRUE, {sorted[i]}, SubSeq(sorted, i + 1, Len(sorted)))
           /\ Rebuild

FilterAny(cost, gas) ==
  LET gone == {t \in items : Beyond(t, cost, gas)}
  IN  /\ items' = items \ gone
      /\ out' = Out(<<"Filter", cost, gas>>, TRUE, gone, <<>>)
      /\ IF gone = {} THEN UNCHANGED <<index, cache>> ELSE Rebuild /\ cache' = Nil

Filter(cost, gas) ==
  IF costcap <= cost /\ gascap <= gas
  THEN /\ out' = Out(<<"Filter", cost, gas>>, TRUE, {}, <<>>)
       /\ UNCHANGED <<items, index, cache, costcap, gascap>>
  ELSE /\ costcap' = cost /\ gascap' = gas
       /\ IF strict THEN FilterStrict(cost, gas) ELSE FilterAny(cost, gas)

\* The last nonces of the sorted heap are dropped.
Cap(threshold) ==
  LET size    == Cardinality(items)
      dropped == Reverse(SubSeq(index, threshold + 1, size))
  IN  /\ KeepCaps
      /\ IF size <= threshold
         THEN out' = Out(<<"Cap", threshold>>, TRUE, {}, <<>>) /\ UNCHANGED <<items, index, cache>>
         ELSE /\ items' = {t \in items : ~Contains(dropped, t.nonce)}
              /\ out' = Out(<<"Cap", threshold>>, TRUE, {}, [i \in DOMAIN dropped |-> Get(dropped[i])])
              /\ index' = SubSeq(index, 1, threshold)
              /\ cache' = IF cache = Nil THEN Nil
                          ELSE SubSeq(cache, 1, Len(cache) - Len(dropped))

\* With a strict list, all higher nonces go too.
RemoveTx(nonce) ==
  LET sorted == ensureCache
      i      == SelectInSeq(sorted, LAMBDA t : t.nonce >= nonce)
      tail   == SubSeq(sorted, i + 1, Len(sorted))
  IN  /\ KeepCaps
      /\ IF At(items, nonce) = {}
         THEN out' = Out(<<"Remove", nonce>>, FALSE, {}, <<>>) /\ UNCHANGED <<items, index, cache>>
         ELSE IF strict
         THEN /\ items' = (items \ At(items, nonce)) \ ToSet(tail)
              /\ out' = Out(<<"Remove", nonce>>, TRUE, {}, tail)
              /\ cache' = SubSeq(sorted, 1, i - 1)
              /\ Rebuild
         ELSE /\ items' = items \ At(items, nonce)
              /\ out' = Out(<<"Remove", nonce>>, TRUE, {}, <<>>)
              /\ cache' = SubSeq(sorted, 1, i - 1) \o tail
              /\ index' = RemoveFirst(index, nonce)

\* How many of a sequence of nonces are consecutive from its first.
Consecutive(nonces) ==
  Max({k \in 0..Len(nonces) : \A i \in 1..k : nonces[i] = nonces[1] + i - 1})

\* The consecutive transactions from the lowest nonce, as heap or sorting has them.
ReadyTxs(start) ==
  IF index = <<>> \/ index[1] > start THEN <<>>
  ELSE IF cache = Nil THEN [i \in 1..Consecutive(index) |-> Get(index[i])]
  ELSE SubSeq(cache, 1, Consecutive([i \in DOMAIN cache |-> cache[i].nonce]))

\* They leave the map, and the sorting only if another transaction follows them.
Ready(start) ==
  LET txs == ReadyTxs(start)
  IN  /\ items' = {t \in items : t.nonce \notin Nonces(ToSet(txs))}
      /\ out' = Out(<<"Ready", start>>, TRUE, {}, txs)
      /\ cache' = IF cache = Nil \/ Len(txs) = Len(cache) THEN cache
                  ELSE SubSeq(cache, Len(txs) + 1, Len(cache))
      /\ Rebuild /\ KeepCaps

\* Mutant of PromoteReady: an empty queue is kept.
PromoteReadyKeeps(start) == ~strict /\ Ready(start)

\* promoteExecutable drops a queue that Ready has emptied; the next transaction
\* gets a new one.
PromoteReady(start) ==
  /\ ~strict
  /\ IF Len(ReadyTxs(start)) = Cardinality(items)
     THEN /\ out' = Out(<<"Ready", start>>, TRUE, {}, ReadyTxs(start))
          /\ items' = {} /\ index' = <<>> /\ cache' = Nil /\ costcap' = 0 /\ gascap' = 0
     ELSE Ready(start)

\* The last n transactions in order.
ForLast(n) ==
  LET sorted == ensureCache
      i      == Max({Len(sorted) - n, 0})
  IN  /\ items' = items \ ToSet(SubSeq(sorted, i + 1, Len(sorted)))
      /\ out' = Out(<<"ForLast", n>>, TRUE, {}, SubSeq(sorted, i + 1, Len(sorted)))
      /\ cache' = SubSeq(sorted, 1, i)
      /\ Rebuild /\ KeepCaps

Flatten ==
  /\ out' = Out(<<"Flatten">>, TRUE, {}, ensureCache) /\ cache' = ensureCache
  /\ UNCHANGED <<items, index, costcap, gascap>>

LastTx ==
  /\ items # {}
  /\ out' = Out(<<"Last">>, TRUE, {ensureCache[Len(ensureCache)]}, <<>>) /\ cache' = ensureCache
  /\ UNCHANGED <<items, index, costcap, gascap>>

-----------------------------------------------------------------------------
(* The specification.                                                      *)

\* newTxList.
Init ==
  /\ strict \in BOOLEAN
  /\ items = {} /\ index = <<>> /\ cache = Nil /\ costcap = 0 /\ gascap = 0
  /\ out = Out(<<"new">>, TRUE, {}, <<>>)

\* What the pool does with a list of pending or of queued transactions.
Use ==
  \/ \E t \in Tx : Add(t) \/ Put(t)
  \/ \E n \in Nonce : Forward(n) \/ Cap(n) \/ RemoveTx(n) \/ ForLast(n)
  \/ \E c \in Cost, g \in Gas : Filter(c, g)
  \/ Flatten \/ LastTx

Next == (Use \/ \E n \in Nonce : PromoteReady(n)) /\ UNCHANGED strict

Spec == Init /\ [][Next]_vars

\* Any order of calls, with no list dropped.
MethodSpec == Init /\ [][(Use \/ \E n \in Nonce : Ready(n)) /\ UNCHANGED strict]_vars

-----------------------------------------------------------------------------
(* Properties.                                                             *)

\* The fields keep their types.
TypeOK ==
  /\ strict \in BOOLEAN /\ items \subseteq Tx
  /\ index \in Seq(Nonce) /\ cache \in Seq(Tx) \cup {Nil}
  /\ costcap \in Nat /\ gascap \in Nat

\* Map, heap, sorting and bounds describe the same transactions, one per nonce:
\* the methods patch each of them in a way of its own.
Coherent ==
  /\ TypeOK
  /\ \A s, t \in items : s.nonce = t.nonce => s = t
  /\ index = Sorting(Nonces(items))
  /\ cache = Nil \/ cache = Sorted(items)
  /\ \A t \in items : t.cost <= costcap /\ t.gas <= gascap

\* The list does what a plain map of transactions would: heap, cached sorting
\* and bounds never show in what a method removes or returns.
Implements == MapSpec

\* "The result of the sorting is cached in case it's requested again before any
\* modifications are made to the contents": it is a sorting of the contents.
CacheCurrent == cache = Nil \/ cache = Sorted(items)

=============================================================================
