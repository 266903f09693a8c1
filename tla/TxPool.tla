------------------------------- MODULE TxPool -------------------------------
(***************************************************************************)
(* core/tx_pool.go: how transactions enter the pool, become executable,    *)
(* are replaced, capped, evicted, and follow the head of the chain through *)
(* reorganizations and restarts.                                           *)
(*                                                                         *)
(* All operations hold pool.mu, so each is one step on the record pool.    *)
(* The lists of an account are the sets of TxSets, which TxList shows its  *)
(* lists to implement.  Maps are iterated in any order, so an operation    *)
(* may have several results.  Transactions are well-formed: size, value,   *)
(* signature and intrinsic gas are checked once, against nothing here.     *)
(***************************************************************************)
EXTENDS TxSets

CONSTANTS
  Account,        \* senders
  Tx,             \* transactions: from, nonce, price, cost and gas
  Block,          \* blocks of the chain
  Genesis,
  Parent,         \* the parent of each block but Genesis
  Td,             \* total difficulties
  Included,       \* the transactions of each block
  Balance,        \* balances of the accounts after each block
  GasLimit,       \* the gas limit of each block
  Stateless,      \* blocks whose state StateAt cannot open
  AccountSlots, GlobalSlots, AccountQueue, GlobalQueue, PriceLimit,  \* the TxPoolConfig
  NoLocals, Journaling,  \* whether local handling is off, whether a Journal is configured
  maxReorgDepth,
  Thresholds,     \* the prices given to SetGasPrice
  MaxBatch,       \* bound: the transactions of one call
  MaxRestarts,    \* bound: how often the node restarts
  None

ASSUME PoolAssumption ==
  /\ \A t \in Tx : t.from \in Account /\ {t.nonce, t.price, t.cost, t.gas} \subseteq Nat
  /\ Genesis \in Block /\ Parent \in [Block \ {Genesis} -> Block] /\ None \notin Block
  /\ Included \in [Block -> SUBSET Tx] /\ Td \in [Block -> Nat]
  /\ {AccountSlots, GlobalSlots, AccountQueue, GlobalQueue} \subseteq Nat \ {0}

VARIABLES
  pool,      \* the fields that pool.mu protects, the journal and the sent events
  current,   \* blocks.current, None while loop has not started
  latest,    \* blocks.latest
  heads,     \* ChainHeadEvents in chainHeadCh
  head,      \* the head of the chain
  mine,      \* those pooled transactions that AddLocal accepted
  restarts   \* how often the node restarted

vars == <<pool, current, latest, heads, head, mine, restarts>>

-----------------------------------------------------------------------------
(* The chain.                                                              *)

Chain[b \in Block] == IF b = Genesis THEN <<>> ELSE Append(Chain[Parent[b]], b)
Number(b) == Len(Chain[b])

\* The transactions of the blocks after the common ancestor of b and other.
TxsSince(b, other) ==
  UNION {Included[x] : x \in ToSet(Chain[b]) \ ToSet(Chain[other])}

\* The state of an account after a block.
Nonce(b, a) == Cardinality({t \in UNION {Included[x] : x \in ToSet(Chain[b])} : t.from = a})

-----------------------------------------------------------------------------
(* Adding.                                                                 *)

Of(txs, a) == {t \in txs : t.from = a}
Remaining(seq, a) == SelectSeq(seq, LAMBDA x : x # a)

validateTx(p, t, local) ==
  /\ t.gas <= GasLimit[p.root]
  /\ local \/ t.from \in p.locals \/ t.price >= p.gasPrice
  /\ Nonce(p.root, t.from) <= t.nonce
  /\ t.cost <= Balance[p.root][t.from]

\* The pooled transactions that t has to outbid.
Rivals(txs, t) == At(Of(txs, t.from), t.nonce)

Accepts(p, t, local) ==
  /\ t \notin p.all /\ validateTx(p, t, local)
  /\ Cardinality(p.all) < GlobalSlots + GlobalQueue
  /\ LET pending == Rivals(p.pending, t)
     IN  \A o \in IF pending # {} THEN pending ELSE Rivals(p.queue, t) : Outbids(t, o)

journalTx(p, t) ==
  IF Journaling /\ ~NoLocals /\ t.from \in p.locals THEN [p EXCEPT !.journal = @ \cup {t}] ELSE p

\* Mutant: the replaced transaction stays in the lookup table.
ReplaceLeaks(p, t) ==
  journalTx([p EXCEPT !.pending = (@ \ Rivals(@, t)) \cup {t},
                      !.all = @ \cup {t}, !.fed = @ \cup {t}], t)

\* A replacement of a pending transaction.
Replace(p, t) ==
  LET old == Rivals(p.pending, t)
  IN  journalTx([p EXCEPT !.pending = (@ \ old) \cup {t},
                          !.all = (@ \ old) \cup {t},
                          !.fed = @ \cup {t}], t)

\* Mutant: the transaction is journaled before its account is marked local.
EnqueueJournalsFirst(p, t, local) ==
  LET old == Rivals(p.queue, t)
      q   == journalTx([p EXCEPT !.queue = (@ \ old) \cup {t}, !.all = (@ \ old) \cup {t}], t)
  IN  [q EXCEPT !.locals = IF local THEN @ \cup {t.from} ELSE @]

\* enqueueTx, for a transaction that add accepted.
Enqueue(p, t, local) ==
  LET old == Rivals(p.queue, t)
  IN  journalTx([p EXCEPT !.queue = (@ \ old) \cup {t},
                          !.all = (@ \ old) \cup {t},
                          !.locals = IF local THEN @ \cup {t.from} ELSE @], t)

add(p, t, local) ==
  IF ~Accepts(p, t, local) THEN p
  ELSE IF Rivals(p.pending, t) # {} THEN Replace(p, t)
  ELSE Enqueue(p, t, local)

\* Whether add has neither refused nor replaced, so that t may be executable.
Fresh(p, t, local) == Accepts(p, t, local) /\ Rivals(p.pending \cup p.queue, t) = {}

-----------------------------------------------------------------------------
(* Promotion.                                                              *)

\* The lists of account a after stale and unpayable transactions are dropped
\* from its queue and the executable ones are promoted; promoteTx for each.
promoteExecutable(p, a) ==
  LET queued   == Of(p.queue, a)
      old      == Below(queued, Nonce(p.root, a))
      unpaid   == Unpayable(queued \ old, Balance[p.root][a], GasLimit[p.root])
      valid    == (queued \ old) \ unpaid
      ready    == Run(valid, p.nonce[a])
      inserted == {t \in ready : \A o \in Rivals(p.pending, t) : Outbids(t, o)}
      replaced == UNION {Rivals(p.pending, t) : t \in inserted}
      over     == IF a \in p.locals THEN {} ELSE Excess(valid \ ready, AccountQueue)
  IN  [p EXCEPT
         !.queue   = ((@ \ queued) \cup (valid \ ready)) \ over,
         !.pending = (@ \ replaced) \cup inserted,
         !.all     = (@ \ (old \cup unpaid \cup (ready \ inserted) \cup replaced \cup over)) \cup inserted,
         !.nonce   = IF inserted = {} THEN @
                     ELSE [@ EXCEPT ![a] = Max({t.nonce : t \in inserted}) + 1],
         !.beats   = IF inserted = {} THEN @ ELSE Append(Remaining(@, a), a),
         !.fed     = @ \cup inserted]

\* Accounts are taken in any order.
Promote(p, accounts) ==
  {FoldLeft(promoteExecutable, p, order) : order \in SetToSeqs(accounts)}

-----------------------------------------------------------------------------
(* The limits that finishPromotion enforces.                               *)

Queued(p) == {t.from : t \in p.queue}
Pending(p, a) == Cardinality(Of(p.pending, a))

\* The order in which a priority queue yields the accounts with more than
\* AccountSlots pending transactions.
SpamOrders(p) ==
  {s \in SetToSeqs({a \in Account \ p.locals : Pending(p, a) > AccountSlots}) :
     \A i \in 2..Len(s) : Pending(p, s[i - 1]) >= Pending(p, s[i])}

\* limitOffenders, called while pending is above GlobalSlots, at most n times:
\* each call takes one transaction from every offender.
limitOffenders(acc, n) ==
  LET offenders == Len(acc.lens)
      needed    == (acc.pending - GlobalSlots + offenders - 1) \div offenders
      rounds    == Max({0, Min({n, needed})})
  IN  [lens    |-> [i \in 1..offenders |-> acc.lens[i] - rounds],
       pending |-> acc.pending - rounds * offenders]

\* The next offender is popped, and all are cut until the one before it is
\* down to its length.
PopOffender(acc, len) ==
  LET lens == Append(acc.lens, len)
  IN  IF acc.pending <= GlobalSlots THEN acc
      ELSE IF Len(lens) = 1 THEN [acc EXCEPT !.lens = lens]
      ELSE limitOffenders([acc EXCEPT !.lens = lens], lens[Len(lens) - 1] - len)

\* The lengths that the offenders are cut to.  A negative one stands for a list
\* that was cut when it was empty.
Allowances(p, order) ==
  LET popped == FoldLeft(PopOffender, [lens |-> <<>>, pending |-> Cardinality(p.pending)],
                         [i \in DOMAIN order |-> Pending(p, order[i])])
  IN  IF popped.lens = <<>> THEN <<>>
      ELSE limitOffenders(popped, Last(popped.lens) - AccountSlots).lens

\* Transactions of the offenders beyond their allowances are dropped.
CapPending(p, order, lens) ==
  LET over == UNION {Excess(Of(p.pending, order[i]), lens[i]) : i \in DOMAIN lens}
  IN  [p EXCEPT !.pending = @ \ over, !.all = @ \ over,
                !.nonce = [a \in Account |-> Min({@[a]} \cup {t.nonce : t \in Of(over, a)})]]

\* The order in which accounts lose queued transactions: the last heartbeat
\* first, accounts without one at the end.
DropOrders(p) ==
  LET beat(a) == SelectInSeq(p.beats, LAMBDA x : x = a)
  IN  {s \in SetToSeqs(Queued(p) \ p.locals) : \A i \in 2..Len(s) : beat(s[i - 1]) >= beat(s[i])}

\* Mutant: the excess is counted without the last transaction.
DropQueuedLess(p, a) ==
  LET over == LastOf(Of(p.queue, a), Max({0, Cardinality(p.queue) - GlobalQueue - 1}))
  IN  [p EXCEPT !.queue = @ \ over, !.all = @ \ over]

\* The last transactions of an account are dropped, as long as there is an excess.
DropQueued(p, a) ==
  LET over == LastOf(Of(p.queue, a), Max({0, Cardinality(p.queue) - GlobalQueue}))
  IN  [p EXCEPT !.queue = @ \ over, !.all = @ \ over]

\* The results of finishPromotion.  Cutting an empty list is an index out of
\* range: the model goes on from there only with a restart.
finishPromotion(p) ==
  UNION {LET lens == Allowances(p, spammers)
             q    == CapPending(p, spammers, lens)
         IN  IF \E i \in DOMAIN lens : lens[i] < 0 THEN {[p EXCEPT !.panicked = TRUE]}
             ELSE {FoldLeft(DropQueued, q, order) : order \in DropOrders(q)} :
           spammers \in SpamOrders(p)}

promoteExecutables(p, accounts) ==
  UNION {finishPromotion(q) : q \in Promote(p, accounts)}

\* addTxsLocked and reinject: every transaction is added, then the accounts
\* that gained one are promoted.
AddNext(acc, t, local) ==
  [pool |-> add(acc.pool, t, local),
   dirty |-> IF Fresh(acc.pool, t, local) THEN acc.dirty \cup {t.from} ELSE acc.dirty]

addTxsLocked(p, txs, local) ==
  LET added == FoldLeft(LAMBDA acc, t : AddNext(acc, t, local), [pool |-> p, dirty |-> {}], txs)
  IN  IF added.dirty = {} THEN {added.pool}
      ELSE promoteExecutables(added.pool, added.dirty)

-----------------------------------------------------------------------------
(* Following the chain.                                                    *)

\* One account's turn in demoteUnexecutables.
Demote(p, a) ==
  LET pending == Of(p.pending, a)
      nonce   == Nonce(p.root, a)
      old     == Below(pending, nonce)
      unpaid  == Unpayable(pending \ old, Balance[p.root][a], GasLimit[p.root])
      invalid == Following(pending \ old, unpaid)
      valid   == (pending \ old) \ (FirstOf(unpaid) \cup invalid)
      demoted == IF At(valid, nonce) = {} THEN invalid \cup valid ELSE invalid
  IN  [p EXCEPT
         !.pending = (@ \ pending) \cup (valid \ demoted),
         !.queue   = (@ \ UNION {Rivals(@, t) : t \in demoted}) \cup demoted,
         !.all     = @ \ (old \cup FirstOf(unpaid)),
         !.beats   = IF valid \ demoted = {} THEN Remaining(@, a) ELSE @]

demoteUnexecutables(p) == FoldLeft(Demote, p, SetToSeq(Account))

\* Mutant: only the last block of the abandoned branch is looked at.
DiscardedLast(old, new) ==
  IF old = None \/ Number(new) > Number(old) + maxReorgDepth THEN {}
  ELSE (Included[old] \cap TxsSince(old, new)) \ TxsSince(new, old)

\* The transactions that a reorganization from old to new takes out of the chain.
Discarded(old, new) ==
  IF old = None \/ Number(new) > Number(old) + maxReorgDepth THEN {}
  ELSE TxsSince(old, new) \ TxsSince(new, old)

\* Mutant: the nonces stay at those of the state.
SettleNoNonces(p) == p

\* After the demotion: the nonces follow the pending lists.
SettleNonces(p) ==
  [p EXCEPT !.nonce = [a \in Account |->
     IF Pending(p, a) = 0 THEN @[a] ELSE Max({t.nonce : t \in Of(p.pending, a)}) + 1]]

reset(p, old, new) ==
  LET fresh    == [p EXCEPT !.root = new, !.nonce = [a \in Account |-> Nonce(new, a)]]
      injected == UNION {addTxsLocked(fresh, order, FALSE) : order \in SetToSeqs(Discarded(old, new))}
      settled  == {SettleNonces(demoteUnexecutables(q)) : q \in injected}
  IN  IF new \in Stateless THEN {p}
      ELSE UNION {promoteExecutables(q, Queued(q)) : q \in settled}

-----------------------------------------------------------------------------
(* Restarting.                                                             *)

EmptyPool(b, journal) ==
  [all |-> {}, pending |-> {}, queue |-> {}, nonce |-> [a \in Account |-> Nonce(b, a)],
   beats |-> <<>>, locals |-> {}, gasPrice |-> PriceLimit, root |-> b,
   fed |-> {}, journal |-> journal, panicked |-> FALSE]

\* rotate(local()): the journal is rewritten with what the local accounts have.
rotate(p) ==
  IF Journaling /\ ~NoLocals THEN [p EXCEPT !.journal = {t \in p.all : t.from \in p.locals}]
  ELSE p

\* load, in the order of the file.
load(p) ==
  IF Journaling /\ ~NoLocals
  THEN UNION {addTxsLocked(p, order, TRUE) : order \in SetToSeqs(p.journal)}
  ELSE {p}

NewTxPool(b, journal) == {rotate(p) : p \in load(EmptyPool(b, journal))}

-----------------------------------------------------------------------------
(* The steps.                                                              *)

Init ==
  /\ pool = EmptyPool(Genesis, {})
  /\ current = None /\ latest = None
  /\ heads = <<>> /\ head = Genesis
  /\ mine = {} /\ restarts = 0

\* AddLocal(s) and AddRemote(s).
AddTxs(txs, local) ==
  LET asLocal == local /\ ~NoLocals
  IN  /\ ~pool.panicked
      /\ pool' \in addTxsLocked(pool, txs, asLocal)
      /\ mine' = (mine \cup (IF asLocal THEN ToSet(txs) \ pool.all ELSE {})) \cap pool'.all
      /\ UNCHANGED <<current, latest, heads, head, restarts>>

\* removeTx for every transaction below the threshold, in any order.
SetGasPrice(price) ==
  LET cheap    == {t \in pool.all : t.price < price /\ t.from \notin pool.locals}
      first(a) == FirstOf(Of(cheap \cap pool.pending, a))
      behind   == {t \in pool.pending : \E f \in first(t.from) : t.nonce > f.nonce}
      cut      == {a \in Account : first(a) # {}}
      pending  == (pool.pending \ cheap) \ behind
  IN  /\ ~pool.panicked
      /\ pool' = [pool EXCEPT
           !.gasPrice = price,
           !.all      = @ \ cheap,
           !.pending  = pending,
           !.queue    = (@ \cup behind) \ cheap,
           !.nonce    = [a \in Account |-> Min({@[a]} \cup {f.nonce : f \in first(a)})],
           !.beats    = SelectSeq(@, LAMBDA a : a \notin cut \/ Of(pending, a) # {})]
      /\ mine' = mine \cap pool'.all
      /\ UNCHANGED <<current, latest, heads, head, restarts>>

\* Mutant: the queues of local accounts expire, too.
EvictLocals(expired) ==
  LET lively == ToSet(SubSeq(pool.beats, expired + 1, Len(pool.beats)))
      gone   == {t \in pool.queue : t.from \notin lively}
  IN  /\ ~pool.panicked /\ current # None
      /\ pool' = [pool EXCEPT !.queue = @ \ gone, !.all = @ \ gone]
      /\ mine' = mine \cap pool'.all
      /\ UNCHANGED <<current, latest, heads, head, restarts>>

\* loop's eviction ticker: the heartbeats of the first expired accounts are
\* older than Lifetime, and so is the zero time of accounts without one.
Evict(expired) ==
  LET lively == ToSet(SubSeq(pool.beats, expired + 1, Len(pool.beats)))
      gone   == {t \in pool.queue : t.from \notin lively \cup pool.locals}
  IN  /\ ~pool.panicked /\ current # None
      /\ pool' = [pool EXCEPT !.queue = @ \ gone, !.all = @ \ gone]
      /\ mine' = mine \cap pool'.all
      /\ UNCHANGED <<current, latest, heads, head, restarts>>

\* loop's journal ticker.
Rotate ==
  /\ ~pool.panicked /\ current # None
  /\ pool' = rotate(pool)
  /\ UNCHANGED <<current, latest, heads, head, mine, restarts>>

\* loop starts: it takes the head of that moment for both blocks.
LoopStart ==
  /\ ~pool.panicked /\ current = None
  /\ current' = head /\ latest' = head
  /\ UNCHANGED <<pool, heads, head, mine, restarts>>

\* Mutant: an event is dropped while a reset is due.
HeadEventDrops ==
  /\ ~pool.panicked /\ current # None /\ heads # <<>>
  /\ latest' = IF latest = current /\ Number(Head(heads)) > Number(latest) THEN Head(heads)
               ELSE latest
  /\ heads' = Tail(heads)
  /\ UNCHANGED <<pool, current, head, mine, restarts>>

\* The goroutine that handles ChainHeadEvents.
HeadEvent ==
  /\ ~pool.panicked /\ current # None /\ heads # <<>>
  /\ latest' = IF Number(Head(heads)) > Number(latest) THEN Head(heads) ELSE latest
  /\ heads' = Tail(heads)
  /\ UNCHANGED <<pool, current, head, mine, restarts>>

\* loop's reset ticker.
Advance ==
  /\ ~pool.panicked /\ current # None /\ Number(latest) > Number(current)
  /\ current' = latest

ResetTick ==
  /\ Advance
  /\ pool' \in reset(pool, current, latest)
  /\ mine' = mine \cap pool'.all
  /\ UNCHANGED <<latest, heads, head, restarts>>

\* The chain adopts a heavier block.  Its ChainHeadEvent reaches chainHeadCh or is
\* lost: insertChain returns without its events when a later block of the batch
\* fails, and the feed gives up a channel that stays full for too long.
SetHead(b) ==
  /\ Td[b] > Td[head]
  /\ head' = b /\ heads' \in {heads, Append(heads, b)}
  /\ UNCHANGED <<pool, current, latest, mine, restarts>>

\* The node stops, or crashes, and starts again.  The chain starts from a head
\* whose state it has.
Restart ==
  /\ restarts < MaxRestarts /\ head \notin Stateless
  /\ pool' \in NewTxPool(head, pool.journal)
  /\ current' = None /\ latest' = None /\ heads' = <<>>
  /\ mine' = mine \cap pool'.all
  /\ restarts' = restarts + 1
  /\ UNCHANGED head

Batches == UNION {SetToSeqs(s) : s \in {x \in SUBSET Tx : Cardinality(x) \in 1..MaxBatch}}

Next ==
  \/ \E txs \in Batches, local \in BOOLEAN : AddTxs(txs, local)
  \/ \E price \in Thresholds : SetGasPrice(price)
  \/ \E expired \in 0..Len(pool.beats) : Evict(expired)
  \/ Rotate
  \/ LoopStart
  \/ HeadEvent
  \/ ResetTick
  \/ \E b \in Block : SetHead(b)
  \/ Restart

Spec == Init /\ [][Next]_vars

\* The goroutines of the pool run and the reset ticker fires: ResetTick is the
\* only step that can Advance.
FairSpec == Spec /\ WF_vars(LoopStart) /\ WF_vars(HeadEvent) /\ WF_current(Advance)

-----------------------------------------------------------------------------
(* What the pool promises.                                                 *)

TypeOK ==
  /\ {pool.all, pool.pending, pool.queue, pool.fed, pool.journal, mine} \subseteq SUBSET Tx
  /\ pool.nonce \in [Account -> Nat] /\ pool.locals \subseteq Account
  /\ ToSet(pool.beats) \subseteq Account /\ IsInjective(pool.beats)
  /\ pool.gasPrice \in Nat /\ pool.root \in Block /\ pool.panicked \in BOOLEAN
  /\ {current, latest} \subseteq Block \cup {None} /\ head \in Block
  /\ heads \in Seq(Block) /\ restarts \in 0..MaxRestarts

\* The lookup table all has exactly what the lists of the accounts have, and
\* pending and queue together have one transaction for a nonce: no replacement,
\* demotion or eviction leaks an entry of all or leaves two rivals behind.
Tracked ==
  /\ TypeOK
  /\ pool.all = pool.pending \cup pool.queue
  /\ pool.pending \cap pool.queue = {}
  /\ \A t, u \in pool.all : t.from = u.from /\ t.nonce = u.nonce => t = u

\* The pending transactions of an account follow on from its nonce in the
\* state without a gap.
Continuous ==
  \A a \in Account :
    LET n == Nonce(pool.root, a)
    IN  {t.nonce : t \in Of(pool.pending, a)} = n..(n + Pending(pool, a) - 1)

\* Moreover the managed nonce of an account, which callers use for its next
\* transaction, is the one after its pending transactions.
Executable ==
  Continuous /\ \A a \in Account : pool.nonce[a] = Nonce(pool.root, a) + Pending(pool, a)

\* No transaction waits in the queue although all before it are pending.
NoneStuck ==
  \A t \in pool.queue : \E n \in Nonce(pool.root, t.from)..(t.nonce - 1) :
    At(Of(pool.pending, t.from), n) = {}

\* Each pending transaction was given to feedSend.
Announced == pool.pending \subseteq pool.fed

\* What can be pending is pending, nothing else is, and it was all announced.
Promoted == Executable /\ NoneStuck /\ Announced

\* Whatever the chain did to balances, nonces and the gas limit, each pooled
\* transaction is one that the state the pool last reset to could still execute.
Valid ==
  \A t \in pool.all : /\ t.nonce >= Nonce(pool.root, t.from)
                      /\ t.cost <= Balance[pool.root][t.from] /\ t.gas <= GasLimit[pool.root]

\* An account that is not local queues at most AccountQueue transactions, and
\* all queues together have at most GlobalQueue, unless only locals have any.
QueueBounded ==
  /\ \A a \in Account \ pool.locals : Cardinality(Of(pool.queue, a)) <= AccountQueue
  /\ Cardinality(pool.queue) > GlobalQueue => Queued(pool) \subseteq pool.locals

\* The queues keep within their limits until the price threshold is raised, which
\* moves transactions to the queues and enforces no limit.
QueuesCapped == pool.gasPrice = PriceLimit => QueueBounded

\* After every head, missed head and restart the pool fits the state it last
\* reset to.
FitsState == Tracked /\ Executable /\ Valid

\* While the state stays the same, a transaction of a local account leaves the
\* pool only for one that outbids it.
LocalsKept ==
  [][pool'.root = pool.root /\ restarts' = restarts =>
       \A t \in pool.all : t.from \in pool.locals =>
         t \in pool'.all \/ \E r \in Rivals(pool'.all, t) : Outbids(r, t)]_vars

\* A reset after a reorganization returns the transactions of the abandoned
\* blocks to the pool, if they can still be executed and are not outbid.
Reinjected ==
  [][\A t \in Tx :
       /\ current # None /\ current' # current /\ pool'.root = current'
       /\ Number(current') - Number(current) <= maxReorgDepth
       /\ \E b \in ToSet(Chain[current]) : t \in Included[b]
       /\ \A b \in ToSet(Chain[current']) : t \notin Included[b]
       /\ t.nonce >= Nonce(current', t.from) /\ t.cost <= Balance[current'][t.from]
       /\ t.gas <= GasLimit[current']
       => \E r \in Rivals(pool'.all, t) : r = t \/ r.price >= t.price]_vars

\* A transaction that AddLocal accepted and that can still be executed is in
\* the pool again after a restart.
Survives ==
  [][restarts' # restarts =>
       \A t \in mine : /\ t.nonce >= Nonce(head, t.from) /\ t.cost <= Balance[head][t.from]
                       /\ t.gas <= GasLimit[head]
                       => t \in pool'.all]_vars

\* Of the heads whose events arrive, and whatever others were lost before, one
\* above every block that loop knows or has yet to hear of is followed, unless a
\* higher one overtakes it.
FollowsHighest ==
  \A b \in Block \ Stateless :
    (/\ current # None /\ latest # b /\ b \in ToSet(heads)
     /\ \A x \in {latest} \cup ToSet(heads) : x = b \/ Number(x) < Number(b))
      ~> (\/ pool.root = b \/ current = None
          \/ Number(latest) > Number(b))

\* A pool that has reset to the block loop tracks follows each head that stays.
FollowsHead ==
  \A b \in Block : (head = b /\ pool.root = current) ~> (pool.root = b \/ head # b)

\* Adding transactions takes no account below the slots it is guaranteed.
GuaranteedSlots ==
  [][pool'.root = pool.root /\ pool'.gasPrice = pool.gasPrice /\ restarts' = restarts =>
       \A a \in Account : Pending(pool', a) >= Min({AccountSlots, Pending(pool, a)})]_vars

=============================================================================
