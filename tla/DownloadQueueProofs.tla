------------------------- MODULE DownloadQueueProofs -------------------------
(***************************************************************************)
(* For any number of blocks, parts and peers, whatever expires, is lost or *)
(* comes late: the queue loses no part of a block and fetches none twice,  *)
(* and a synchronisation imports the blocks in order, once and complete.   *)
(***************************************************************************)
EXTENDS DownloadQueue, FiniteSetTheorems, SequenceTheorems, TLAPS

Result == [number : Nat, parts : SUBSET Parts]

\* The part of the type invariant that the proofs use.
Types ==
  /\ scheduled \in 0..N /\ resultOffset \in Nat \ {0}
  /\ taskPool \in [Parts -> SUBSET Blocks] /\ taskQueue \in [Parts -> SUBSET Blocks]
  /\ donePool \in [Parts -> SUBSET Blocks] /\ pendPool \in [Parts -> [Peer -> SUBSET Blocks]]
  /\ DOMAIN resultCache \subseteq 1..scheduled
  /\ resultCache \in [DOMAIN resultCache -> [pending : Int, has : SUBSET Parts]]
  /\ taken \in Seq(Result) /\ imported \in Seq(Result)
  /\ consumer \in {"take", "asleep", "import", "off"}

\* The results that were taken off the cache and not yet imported follow those that
\* were, and are complete; after a failed import the cache is ahead of the chain.
Handed ==
  /\ Len(imported) + Len(taken) < resultOffset /\ resultOffset <= scheduled + 1
  /\ consumer # "off" => resultOffset = Len(imported) + Len(taken) + 1
  /\ \A i \in 1..Len(taken) : taken[i] = [number |-> Len(imported) + i, parts |-> Parts]
  /\ consumer # "import" => taken = <<>>

IInv == Types /\ Conserved /\ Handed

\* Completing part k of the blocks in got, after creating results for those in more,
\* keeps the counters of missing parts exact.
LEMMA Completing ==
  ASSUME Types, Conserved, NEW k \in Parts, NEW got, NEW more,
         got \subseteq taskPool[k], more \subseteq taskPool[k],
         got \subseteq DOMAIN resultCache \cup more,
         taskPool' = [taskPool EXCEPT ![k] = @ \ got],
         donePool' = [donePool EXCEPT ![k] = @ \cup got],
         resultCache' = [n \in DOMAIN resultCache \cup more |->
                           IF n \in got THEN Completed(Slot(n), k) ELSE Slot(n)]
  PROVE  /\ resultCache' \in [DOMAIN resultCache' -> [pending : Int, has : SUBSET Parts]]
         /\ \A n \in DOMAIN resultCache' :
              /\ resultCache'[n].pending = Cardinality({j \in Parts : n \in taskPool'[j]})
              /\ resultCache'[n].has = {j \in Parts : n \in donePool'[j]}
<1> DEFINE lacks(n) == {j \in Parts : n \in taskPool[j]}
           lacksNext(n) == {j \in Parts : n \in taskPool'[j]}
           D == DOMAIN resultCache \cup more
<1>fin. \A n : IsFiniteSet(lacks(n)) /\ IsFiniteSet(lacksNext(n))
  <2> SUFFICES ASSUME NEW n PROVE IsFiniteSet(lacks(n)) /\ IsFiniteSet(lacksNext(n))
    BY Zenon
  <2> IsFiniteSet(Parts) /\ lacks(n) \subseteq Parts /\ lacksNext(n) \subseteq Parts
    BY QueueConstants
  <2> QED BY FS_Subset
<1>dom. DOMAIN resultCache' = D OBVIOUS
<1>slot. ASSUME NEW n \in D
         PROVE  /\ Slot(n) \in [pending : Int, has : SUBSET Parts]
                /\ Slot(n).pending = Cardinality(lacks(n))
                /\ Slot(n).has = {j \in Parts : n \in donePool[j]}
  <2>1. CASE n \in DOMAIN resultCache
    BY <2>1, Zenon DEF Slot, Types, Conserved
  <2>2. CASE n \notin DOMAIN resultCache
    <3>1. n \in resultOffset..scheduled
      BY <2>2 DEF Conserved
    <3>2. \A j \in Parts : n \notin donePool[j]
      BY <2>2 DEF Conserved
    <3>3. lacks(n) = Parts
      BY <3>1, <3>2 DEF Conserved
    <3>4. Cardinality(Parts) \in Int
      BY FS_CardinalityType, QueueConstants
    <3> QED BY <2>2, <3>2, <3>3, <3>4, Zenon DEF Slot
  <2> QED BY <2>1, <2>2
<1>next. ASSUME NEW n \in D
         PROVE  /\ resultCache'[n] \in [pending : Int, has : SUBSET Parts]
                /\ resultCache'[n].pending = Cardinality(lacksNext(n))
                /\ resultCache'[n].has = {j \in Parts : n \in donePool'[j]}
  <2>1. CASE n \in got
    <3>1. lacksNext(n) = lacks(n) \ {k} /\ k \in lacks(n)
      BY <2>1 DEF Types
    <3>2. Cardinality(lacksNext(n)) = Cardinality(lacks(n)) - 1
      <4> HIDE DEF lacks, lacksNext
      <4> IsFiniteSet(lacks(n)) BY <1>fin
      <4> QED BY <3>1, FS_RemoveElement, Zenon
    <3>3. {j \in Parts : n \in donePool'[j]} = {j \in Parts : n \in donePool[j]} \cup {k}
      BY <2>1 DEF Types
    <3>4. resultCache'[n] = [pending |-> Slot(n).pending - 1, has |-> Slot(n).has \cup {k}]
      BY <2>1 DEF Completed
    <3> QED BY <1>slot, <3>2, <3>3, <3>4
  <2>2. CASE n \notin got
    <3>1. lacksNext(n) = lacks(n)
      BY <2>2 DEF Types
    <3>2. {j \in Parts : n \in donePool'[j]} = {j \in Parts : n \in donePool[j]}
      BY <2>2 DEF Types
    <3>3. resultCache'[n] = Slot(n)
      BY <2>2
    <3> QED BY <1>slot, <3>1, <3>2, <3>3, Zenon
  <2> QED BY <2>1, <2>2, Zenon
<1> QED BY <1>dom, <1>next, Zenon

\* The results that countProcessableItems counts are complete, and start the cache.
LEMMA Processable ==
  ASSUME Types, Conserved
  PROVE  /\ countProcessableItems \in Nat
         /\ \A n \in resultOffset..(resultOffset + countProcessableItems - 1) :
              /\ n \in DOMAIN resultCache /\ resultCache[n].has = Parts
              /\ \A k \in Parts : n \in donePool[k] /\ n \notin taskPool[k]
<1> DEFINE ready(n) == n \in DOMAIN resultCache /\ resultCache[n].pending <= 0
           prefix == {n \in resultOffset..N : \A m \in resultOffset..n : InWindow(m) /\ ready(m)}
           c == Cardinality(prefix)
<1>1. countProcessableItems = c
  BY DEF countProcessableItems
<1>2. N \in Nat /\ resultOffset \in Nat
  BY QueueConstants DEF Types
<1>3. IsFiniteSet(prefix) /\ c \in Nat
  <2>1. IsFiniteSet(resultOffset..N) BY <1>2, FS_Interval
  <2>2. prefix \in SUBSET (resultOffset..N) OBVIOUS
  <2> HIDE DEF prefix
  <2> QED BY <2>1, <2>2, FS_Subset, FS_CardinalityType, Zenon
<1>4. ASSUME NEW n \in resultOffset..(resultOffset + c - 1) PROVE n \in prefix
  <2>1. SUFFICES ASSUME n \notin prefix PROVE FALSE
    OBVIOUS
  <2>2. n \in Int /\ n - 1 \in Int /\ resultOffset \in Int
    BY <1>2, <1>3
  <2>3. prefix \in SUBSET (resultOffset..(n - 1))
    <3> SUFFICES ASSUME NEW m \in prefix, m >= n PROVE FALSE
      BY <1>2, <2>2
    <3> n \in resultOffset..N /\ \A l \in resultOffset..n : l \in resultOffset..m
      BY <1>2, <2>2
    <3> QED BY <2>1
  <2>4. /\ IsFiniteSet(resultOffset..(n - 1))
        /\ Cardinality(resultOffset..(n - 1)) = IF resultOffset > n - 1 THEN 0 ELSE n - 1 - resultOffset + 1
    BY <2>2, FS_Interval
  <2>5. c <= Cardinality(resultOffset..(n - 1))
    <3> HIDE DEF prefix
    <3> QED BY <2>3, <2>4, FS_Subset, Zenon
  <2> HIDE DEF c
  <2> QED BY <1>2, <1>3, <2>2, <2>4, <2>5
<1>5. ASSUME NEW n \in prefix
      PROVE  /\ n \in DOMAIN resultCache /\ resultCache[n].has = Parts
             /\ \A k \in Parts : n \in donePool[k] /\ n \notin taskPool[k]
  <2> DEFINE lacks == {k \in Parts : n \in taskPool[k]}
  <2>1. n \in DOMAIN resultCache /\ resultCache[n].pending <= 0 /\ n \in resultOffset..scheduled
    BY <1>2, QueueConstants DEF Types
  <2>2. IsFiniteSet(lacks)
    <3> lacks \in SUBSET Parts /\ IsFiniteSet(Parts) BY QueueConstants
    <3> HIDE DEF lacks
    <3> QED BY FS_Subset
  <2>3. Cardinality(lacks) <= 0
    BY <2>1 DEF Conserved
  <2>4. lacks = {}
    <3> HIDE DEF lacks
    <3> QED BY <2>2, <2>3, FS_CardinalityType, FS_EmptySet
  <2>5. \A k \in Parts : n \in donePool[k] /\ n \notin taskPool[k]
    BY <2>1, <2>4 DEF Conserved
  <2>6. resultCache[n].has = {k \in Parts : n \in donePool[k]}
    BY <2>1, Zenon DEF Conserved
  <2>7. {k \in Parts : n \in donePool[k]} = Parts
    BY <2>5
  <2> QED BY <2>1, <2>5, <2>6, <2>7
<1> QED
  <2> HIDE DEF c, prefix
  <2> QED BY <1>1, <1>3, <1>4, <1>5

\* Conserved speaks of the pools and of the cache only.
LEMMA ConservedFrame ==
  ASSUME Conserved, UNCHANGED <<tasks, resultCache, resultOffset, scheduled>>
  PROVE  Conserved'
BY SMTT(60) DEF Conserved, tasks

\* The steps that leave the queue, the cache and the importer's results alone.
LEMMA Quiet ==
  ASSUME IInv, UNCHANGED <<tasks, resultCache, resultOffset, taken, imported, scheduled>>,
         consumer' = consumer \/ {consumer, consumer'} \subseteq {"take", "asleep"}
  PROVE  IInv'
<1> USE DEF IInv, tasks
<1>1. Types' BY DEF Types
<1>2. Conserved' BY ConservedFrame
<1>3. Handed' BY DEF Handed
<1> QED BY <1>1, <1>2, <1>3

\* Returning requests to the queue, as expire and Revoke do, moves their tasks.
LEMMA Returning ==
  ASSUME IInv, NEW k, NEW expired \in SUBSET Peer, NEW gone \in SUBSET Peer,
         Returned(k, expired, gone),
         UNCHANGED <<taskPool, donePool, resultCache, resultOffset, importing, scheduled>>
  PROVE  IInv'
<1> USE DEF IInv, importing
<1> DEFINE back(j) == gone \cup (IF j = k THEN expired ELSE {})
<1>1. \A j \in Parts : /\ taskQueue'[j] = taskQueue[j] \cup UNION {pendPool[j][p] : p \in back(j)}
                       /\ \A p \in Peer : pendPool'[j][p] = IF p \in back(j) THEN {} ELSE pendPool[j][p]
  BY DEF Returned
<1>2. \A j \in Parts : back(j) \subseteq Peer
  OBVIOUS
<1> HIDE DEF back
<1>3. Types'
  <2>1. taskQueue' \in [Parts -> SUBSET Blocks]
    <3> SUFFICES ASSUME NEW j \in Parts PROVE taskQueue'[j] \subseteq Blocks
      BY DEF Returned
    <3> QED BY <1>1, <1>2 DEF Types
  <2>2. pendPool' \in [Parts -> [Peer -> SUBSET Blocks]]
    BY DEF Returned, Types
  <2> QED BY <2>1, <2>2 DEF Types
<1>4. Conserved'
  <2>1. ASSUME NEW j \in Parts
        PROVE  /\ taskPool[j] = taskQueue'[j] \cup UNION {pendPool'[j][p] : p \in Peer}
               /\ \A p \in Peer : taskQueue'[j] \cap pendPool'[j][p] = {}
               /\ \A p, q \in Peer : p # q => pendPool'[j][p] \cap pendPool'[j][q] = {}
               /\ taskQueue[j] \subseteq taskQueue'[j]
    BY <1>1, <1>2 DEF Conserved
  <2>2. ASSUME NEW j \in Parts
        PROVE  donePool[j] \cup (taskPool[j] \ taskQueue'[j]) \subseteq DOMAIN resultCache
    BY <2>1 DEF Conserved
  <2>3. \A n \in DOMAIN resultCache :
          /\ resultCache[n].pending = Cardinality({j \in Parts : n \in taskPool[j]})
          /\ resultCache[n].has = {j \in Parts : n \in donePool[j]}
    BY DEF Conserved
  <2>4. \A j \in Parts : /\ taskPool[j] \cap donePool[j] = {}
                         /\ taskPool[j] \cup donePool[j] = resultOffset..scheduled
    BY Zenon DEF Conserved
  <2>5. /\ taskPool' = taskPool /\ donePool' = donePool /\ resultCache' = resultCache
        /\ resultOffset' = resultOffset /\ scheduled' = scheduled
    OBVIOUS
  <2>6. ASSUME NEW j \in Parts
        PROVE  /\ taskPool'[j] \cap donePool'[j] = {}
               /\ taskPool'[j] \cup donePool'[j] = resultOffset'..scheduled'
               /\ taskPool'[j] = taskQueue'[j] \cup UNION {pendPool'[j][q] : q \in Peer}
               /\ \A q \in Peer : taskQueue'[j] \cap pendPool'[j][q] = {}
               /\ \A q, r \in Peer : q # r => pendPool'[j][q] \cap pendPool'[j][r] = {}
               /\ donePool'[j] \cup (taskPool'[j] \ taskQueue'[j]) \subseteq DOMAIN resultCache'
    BY <2>1, <2>2, <2>4, <2>5, SMTT(60)
  <2>7. \A n \in DOMAIN resultCache' :
          /\ resultCache'[n].pending = Cardinality({j \in Parts : n \in taskPool'[j]})
          /\ resultCache'[n].has = {j \in Parts : n \in donePool'[j]}
    BY <2>3, <2>5
  <2> QED BY <2>6, <2>7, Zenon DEF Conserved
<1>5. Handed' BY DEF Handed
<1> QED BY <1>3, <1>4, <1>5

\* What becomes of the request of peer p and of tasks in the queue: those in got are
\* complete, those in open are what p is asked for, the rest are in the queue.
Move(k, p, got, more, open) ==
  /\ got \cup more \cup open \subseteq taskPool[k] /\ got \cap open = {}
  /\ got \cup open \subseteq DOMAIN resultCache \cup more
  /\ got \cup open \subseteq taskQueue[k] \cup pendPool[k][p]
  /\ taskPool' = [taskPool EXCEPT ![k] = @ \ got]
  /\ donePool' = [donePool EXCEPT ![k] = @ \cup got]
  /\ pendPool' = [pendPool EXCEPT ![k][p] = open]
  /\ taskQueue' = [taskQueue EXCEPT ![k] = (@ \cup pendPool[k][p]) \ (got \cup open)]
  /\ resultCache' = [n \in DOMAIN resultCache \cup more |->
                       IF n \in got THEN Completed(Slot(n), k) ELSE Slot(n)]
  /\ Signal(got # {})
  /\ UNCHANGED <<resultOffset, taken, imported, scheduled>>

\* Such a move keeps the invariant.
LEMMA Moving ==
  ASSUME IInv, NEW k \in Parts, NEW p \in Peer, NEW got, NEW more, NEW open,
         Move(k, p, got, more, open)
  PROVE  IInv'
<1> USE DEF IInv, Move
<1>1. /\ resultCache' \in [DOMAIN resultCache' -> [pending : Int, has : SUBSET Parts]]
      /\ \A n \in DOMAIN resultCache' :
           /\ resultCache'[n].pending = Cardinality({j \in Parts : n \in taskPool'[j]})
           /\ resultCache'[n].has = {j \in Parts : n \in donePool'[j]}
  BY Completing, Zenon
<1>2. DOMAIN resultCache' = DOMAIN resultCache \cup more OBVIOUS
<1>3. /\ taskPool'[k] = taskPool[k] \ got /\ donePool'[k] = donePool[k] \cup got
      /\ taskQueue'[k] = (taskQueue[k] \cup pendPool[k][p]) \ (got \cup open)
      /\ pendPool'[k][p] = open /\ \A q \in Peer \ {p} : pendPool'[k][q] = pendPool[k][q]
      /\ \A j \in Parts \ {k} : /\ taskPool'[j] = taskPool[j] /\ donePool'[j] = donePool[j]
                                /\ taskQueue'[j] = taskQueue[j] /\ pendPool'[j] = pendPool[j]
  BY DEF Types
<1>4. Types'
  <2>1. taskPool[k] \subseteq 1..scheduled /\ taskPool[k] \subseteq Blocks
    BY QueueConstants, SMTT(60) DEF Types, Conserved, Blocks
  <2>2. consumer' \in {"take", "asleep", "import", "off"}
    BY DEF Types, Signal
  <2>3. taskPool' \in [Parts -> SUBSET Blocks] /\ donePool' \in [Parts -> SUBSET Blocks]
    BY <2>1 DEF Types
  <2>4. pendPool[k][p] \subseteq taskPool[k]
    BY SMTT(60) DEF Conserved
  <2>5. taskQueue' \in [Parts -> SUBSET Blocks]
    BY <2>1, <2>4, Zenon DEF Types
  <2>6. pendPool' \in [Parts -> [Peer -> SUBSET Blocks]]
    BY <2>1 DEF Types
  <2>7. DOMAIN resultCache' \subseteq 1..scheduled
    BY <2>1, <1>2 DEF Types
  <2> QED BY <1>1, <2>2, <2>3, <2>5, <2>6, <2>7, Zenon DEF Types
<1>5. Conserved'
  <2>1. ASSUME NEW j \in Parts, j # k
        PROVE  /\ taskPool'[j] = taskPool[j] /\ donePool'[j] = donePool[j]
               /\ taskQueue'[j] = taskQueue[j] /\ pendPool'[j] = pendPool[j]
    BY <1>3, <2>1, Zenon
  <2>2. /\ taskPool'[k] \cap donePool'[k] = {}
        /\ taskPool'[k] \cup donePool'[k] = resultOffset..scheduled
    BY <1>3, Zenon DEF Conserved
  <2>3. \A q \in Peer : taskQueue'[k] \cap pendPool'[k][q] = {}
    BY <1>3, SMTT(60) DEF Conserved
  <2>4. \A q, r \in Peer : q # r => pendPool'[k][q] \cap pendPool'[k][r] = {}
    BY <1>3, SMTT(60) DEF Conserved
  <2>5. taskPool'[k] = taskQueue'[k] \cup UNION {pendPool'[k][q] : q \in Peer}
    <3>1. \A q \in Peer : pendPool[k][q] \subseteq taskPool[k] /\ taskQueue[k] \subseteq taskPool[k]
      BY SMTT(60) DEF Conserved
    <3>2. \A q \in Peer \ {p} : pendPool[k][q] \cap got = {}
      BY Zenon DEF Conserved
    <3>3. taskQueue'[k] \cup UNION {pendPool'[k][q] : q \in Peer} \subseteq taskPool'[k]
      BY <1>3, <3>1, <3>2, SMTT(60)
    <3>4. ASSUME NEW n \in taskPool'[k] PROVE n \in taskQueue'[k] \/ \E q \in Peer : n \in pendPool'[k][q]
      <4>1. n \in taskPool[k] /\ n \notin got BY <1>3, Zenon
      <4>2. n \in taskQueue[k] \/ \E q \in Peer : n \in pendPool[k][q]
        BY <4>1 DEF Conserved
      <4> QED BY <1>3, <4>1, <4>2, Zenon
    <3> QED BY <3>3, <3>4
  <2>6. donePool'[k] \cup (taskPool'[k] \ taskQueue'[k]) \subseteq DOMAIN resultCache'
    BY <1>2, <1>3, Zenon DEF Conserved
  <2>7. ASSUME NEW j \in Parts
        PROVE  /\ taskPool'[j] \cap donePool'[j] = {}
               /\ taskPool'[j] \cup donePool'[j] = resultOffset'..scheduled'
               /\ taskPool'[j] = taskQueue'[j] \cup UNION {pendPool'[j][q] : q \in Peer}
               /\ \A q \in Peer : taskQueue'[j] \cap pendPool'[j][q] = {}
               /\ \A q, r \in Peer : q # r => pendPool'[j][q] \cap pendPool'[j][r] = {}
               /\ donePool'[j] \cup (taskPool'[j] \ taskQueue'[j]) \subseteq DOMAIN resultCache'
    <3>1. CASE j = k
      BY <3>1, <2>2, <2>3, <2>4, <2>5, <2>6, SMTT(60)
    <3>2. CASE j # k
      BY <3>2, <1>2, <2>1, SMTT(60) DEF Conserved
    <3> QED BY <3>1, <3>2, Zenon
  <2> HIDE DEF IInv, Move
  <2> QED BY <1>1, <2>7, Zenon DEF Conserved
<1>6. Handed'
  BY DEF Handed, Signal
<1> QED BY <1>4, <1>5, <1>6, Zenon

\* Scheduling headers adds tasks above all others.
LEMMA Scheduling ==
  ASSUME IInv, NEW n \in 1..N, NEW good \in 0..N, Schedule(n, good)
  PROVE  IInv'
<1> USE DEF IInv, Schedule, cache, importing
<1> DEFINE new == (scheduled + 1)..(scheduled + good)
<1>1. /\ scheduled \in Nat /\ good \in Nat /\ N \in Nat /\ scheduled' = scheduled + good
      /\ scheduled + good <= N /\ resultOffset \in Nat \ {0} /\ resultOffset <= scheduled + 1
  BY QueueConstants, SMTT(60) DEF Types, Handed
<1>2. /\ new \cap 1..scheduled = {} /\ new \subseteq 1..(scheduled + good) /\ new \subseteq Blocks
      /\ (resultOffset..scheduled) \cup new = resultOffset..(scheduled + good)
      /\ resultOffset..scheduled \subseteq 1..scheduled
  BY <1>1 DEF Blocks
<1>3. /\ \A k \in Parts : taskPool'[k] = taskPool[k] \cup new /\ taskQueue'[k] = taskQueue[k] \cup new
      /\ taskPool' = [k \in Parts |-> taskPool[k] \cup new]
      /\ taskQueue' = [k \in Parts |-> taskQueue[k] \cup new]
  OBVIOUS
<1>4. /\ pendPool' = pendPool /\ donePool' = donePool /\ resultCache' = resultCache
      /\ resultOffset' = resultOffset /\ UNCHANGED <<consumer, taken, imported>>
  OBVIOUS
<1> HIDE DEF new
<1>5. Types'
  <2>1. taskPool' \in [Parts -> SUBSET Blocks] /\ taskQueue' \in [Parts -> SUBSET Blocks]
    BY <1>2, <1>3, SMTT(60) DEF Types
  <2>2. scheduled' \in 0..N
    <3> HIDE DEF IInv, Schedule
    <3> QED BY <1>1
  <2>3. DOMAIN resultCache' \subseteq 1..scheduled'
    BY <1>1, <1>4 DEF Types
  <2> QED BY <1>4, <2>1, <2>2, <2>3 DEF Types
<1>6. Conserved'
  <2>1. ASSUME NEW k \in Parts
        PROVE  /\ taskPool[k] \cup donePool[k] \cup taskQueue[k] \subseteq 1..scheduled
               /\ \A p \in Peer : pendPool[k][p] \subseteq 1..scheduled
    BY <1>2, SMTT(60) DEF Conserved
  <2>2. ASSUME NEW k \in Parts
        PROVE  /\ taskPool'[k] \cap donePool'[k] = {}
               /\ taskPool'[k] \cup donePool'[k] = resultOffset'..scheduled'
               /\ taskPool'[k] = taskQueue'[k] \cup UNION {pendPool'[k][p] : p \in Peer}
               /\ \A p \in Peer : taskQueue'[k] \cap pendPool'[k][p] = {}
               /\ \A p, q \in Peer : p # q => pendPool'[k][p] \cap pendPool'[k][q] = {}
               /\ donePool'[k] \cup (taskPool'[k] \ taskQueue'[k]) \subseteq DOMAIN resultCache'
    <3>1. taskPool'[k] \cap donePool'[k] = {}
      BY <1>2, <1>3, <1>4, <2>1, SMTT(60) DEF Conserved
    <3>2. taskPool'[k] \cup donePool'[k] = resultOffset'..scheduled'
      BY <1>1, <1>2, <1>3, <1>4, SMTT(60) DEF Conserved
    <3>3. /\ taskPool'[k] = taskQueue'[k] \cup UNION {pendPool'[k][p] : p \in Peer}
          /\ \A p, q \in Peer : p # q => pendPool'[k][p] \cap pendPool'[k][q] = {}
          /\ donePool'[k] \cup (taskPool'[k] \ taskQueue'[k]) \subseteq DOMAIN resultCache'
      BY <1>3, <1>4, SMTT(60) DEF Conserved
    <3>4. \A p \in Peer : taskQueue'[k] \cap pendPool'[k][p] = {}
      BY <1>2, <1>3, <1>4, <2>1, Zenon DEF Conserved
    <3> QED BY <3>1, <3>2, <3>3, <3>4, Zenon
  <2>3. ASSUME NEW m \in DOMAIN resultCache'
        PROVE  /\ resultCache'[m].pending = Cardinality({k \in Parts : m \in taskPool'[k]})
               /\ resultCache'[m].has = {k \in Parts : m \in donePool'[k]}
    <3>1. m \in 1..scheduled BY <1>4 DEF Types
    <3>2. {k \in Parts : m \in taskPool'[k]} = {k \in Parts : m \in taskPool[k]}
      BY <1>2, <1>3, <3>1
    <3>3. /\ resultCache[m].pending = Cardinality({k \in Parts : m \in taskPool[k]})
          /\ resultCache[m].has = {k \in Parts : m \in donePool[k]}
      BY <1>4, Zenon DEF Conserved
    <3> QED BY <1>4, <3>2, <3>3, Zenon
  <2> QED BY <2>2, <2>3, Zenon DEF Conserved
<1>7. Handed'
  BY <1>1, <1>4, SMTT(60) DEF Handed, Types
<1> QED BY <1>5, <1>6, <1>7

\* Taking results off the cache.
LEMMA Taking ==
  ASSUME IInv, Results
  PROVE  IInv'
<1> USE DEF IInv
<1> DEFINE nproc == Least(countProcessableItems, maxResultsProcess)
           results == resultOffset..(resultOffset + nproc - 1)
<1>1. nproc \in Nat /\ nproc <= countProcessableItems /\ resultOffset \in Nat \ {0} /\ scheduled \in Nat
  <2>1. countProcessableItems \in Nat
    BY Processable
  <2>2. maxResultsProcess \in Nat
    BY QueueConstants
  <2>3. resultOffset \in Nat \ {0} /\ scheduled \in Nat
    BY QueueConstants DEF Types
  <2> HIDE DEF IInv
  <2>4. nproc \in Nat /\ nproc <= countProcessableItems
    BY <2>1, <2>2 DEF Least
  <2> QED BY <2>3, <2>4
<1>2. \A n \in results : /\ n \in DOMAIN resultCache /\ resultCache[n].has = Parts
                         /\ \A k \in Parts : n \in donePool[k] /\ n \notin taskPool[k]
  <2> countProcessableItems \in Nat BY Processable
  <2> \A n \in results : n \in resultOffset..(resultOffset + countProcessableItems - 1)
    BY <1>1
  <2> QED BY Processable
<1>3. /\ taken' = [i \in 1..nproc |-> [number |-> resultOffset + i - 1,
                                        parts |-> resultCache[resultOffset + i - 1].has]]
      /\ consumer = "take" /\ consumer' = IF nproc = 0 THEN "off" ELSE "import"
      /\ donePool' = [k \in Parts |-> donePool[k] \ results]
      /\ resultCache' = [n \in DOMAIN resultCache \ results |-> resultCache[n]]
      /\ resultOffset' = resultOffset + nproc
      /\ UNCHANGED <<taskPool, taskQueue, pendPool, imported, scheduled>>
  BY DEF Results, session
<1> HIDE DEF nproc
<1>4. \A i \in 1..nproc : taken'[i] = [number |-> resultOffset + i - 1, parts |-> Parts]
  <2> SUFFICES ASSUME NEW i \in 1..nproc
               PROVE taken'[i] = [number |-> resultOffset + i - 1, parts |-> Parts]
    OBVIOUS
  <2> resultOffset + i - 1 \in results BY <1>1
  <2> QED BY <1>2, <1>3, Zenon
<1>5. taken' = [i \in 1..nproc |-> [number |-> resultOffset + i - 1, parts |-> Parts]]
  BY <1>3, <1>4
<1>6. taken' \in Seq(Result) /\ Len(taken') = nproc
  <2>1. \A i \in 1..nproc : [number |-> resultOffset + i - 1, parts |-> Parts] \in Result
    BY <1>1 DEF Result
  <2>2. taken' \in [1..nproc -> Result] BY <1>5, <2>1
  <2> QED BY <1>1, <2>2
<1>7. resultOffset + nproc <= scheduled + 1
  <2>1. CASE nproc = 0 BY <1>1, <2>1 DEF Handed
  <2>2. CASE nproc # 0
    <3> resultOffset + nproc - 1 \in results BY <1>1, <2>2
    <3> resultOffset + nproc - 1 \in 1..scheduled BY <1>2 DEF Types
    <3> QED BY <1>1
  <2> QED BY <2>1, <2>2
<1>8. Types'
  <2>1. donePool' \in [Parts -> SUBSET Blocks] BY <1>3 DEF Types
  <2>2. /\ DOMAIN resultCache' \subseteq 1..scheduled
        /\ resultCache' \in [DOMAIN resultCache' -> [pending : Int, has : SUBSET Parts]]
    BY <1>3 DEF Types
  <2>3. resultOffset' \in Nat \ {0} /\ consumer' \in {"take", "asleep", "import", "off"}
    BY <1>1, <1>3
  <2> QED BY <1>3, <1>6, <2>1, <2>2, <2>3, Zenon DEF Types
<1>9. Conserved'
  <2>0. /\ taskPool' = taskPool /\ taskQueue' = taskQueue /\ pendPool' = pendPool
        /\ scheduled' = scheduled /\ DOMAIN resultCache' = DOMAIN resultCache \ results
        /\ \A k \in Parts : donePool'[k] = donePool[k] \ results
    BY <1>3
  <2>1. (resultOffset..scheduled) \ results = resultOffset'..scheduled'
    BY <1>1, <1>3, <1>7
  <2>2. ASSUME NEW k \in Parts
        PROVE  /\ taskPool'[k] \cap donePool'[k] = {}
               /\ taskPool'[k] \cup donePool'[k] = resultOffset'..scheduled'
               /\ taskPool'[k] = taskQueue'[k] \cup UNION {pendPool'[k][p] : p \in Peer}
               /\ \A p \in Peer : taskQueue'[k] \cap pendPool'[k][p] = {}
               /\ \A p, q \in Peer : p # q => pendPool'[k][p] \cap pendPool'[k][q] = {}
               /\ donePool'[k] \cup (taskPool'[k] \ taskQueue'[k]) \subseteq DOMAIN resultCache'
    <3> HIDE DEF results
    <3>1. taskPool[k] \cap results = {} BY <1>2
    <3>2. taskPool'[k] \cap donePool'[k] = {}
      BY <2>0, Zenon DEF Conserved
    <3>3. taskPool'[k] \cup donePool'[k] = resultOffset'..scheduled'
      BY <2>0, <2>1, <3>1 DEF Conserved
    <3>4. donePool'[k] \cup (taskPool'[k] \ taskQueue'[k]) \subseteq DOMAIN resultCache'
      BY <2>0, <3>1, SMTT(60) DEF Conserved
    <3> QED BY <2>0, <3>2, <3>3, <3>4, SMTT(60) DEF Conserved
  <2>3. ASSUME NEW n \in DOMAIN resultCache'
        PROVE  /\ resultCache'[n].pending = Cardinality({k \in Parts : n \in taskPool'[k]})
               /\ resultCache'[n].has = {k \in Parts : n \in donePool'[k]}
    <3> HIDE DEF results
    <3>1. n \in DOMAIN resultCache /\ n \notin results /\ resultCache'[n] = resultCache[n]
      BY <1>3, <2>0, Zenon
    <3>2. {k \in Parts : n \in donePool'[k]} = {k \in Parts : n \in donePool[k]}
      BY <2>0, <3>1
    <3> QED BY <2>0, <3>1, <3>2, SMTT(60) DEF Conserved
  <2> QED BY <2>2, <2>3, Zenon DEF Conserved
<1>10. Handed'
  <2>1. taken = <<>> /\ Len(taken) = 0 /\ resultOffset = Len(imported) + 1 /\ Len(imported) \in Nat
    BY <1>3 DEF Handed, Types
  <2>2. \A i \in 1..Len(taken') : taken'[i] = [number |-> Len(imported') + i, parts |-> Parts]
    <3>1. Len(taken') = nproc /\ imported' = imported BY <1>3, <1>6, Zenon
    <3>2. \A i \in 1..nproc : resultOffset + i - 1 = Len(imported) + i BY <1>1, <2>1
    <3> QED BY <1>4, <3>1, <3>2
  <2>3. consumer' # "import" => taken' = <<>>
    BY <1>3, <1>5, <1>6
  <2>4. imported' = imported /\ scheduled' = scheduled BY <1>3
  <2>5. /\ Len(imported) + nproc < resultOffset + nproc
        /\ resultOffset + nproc = Len(imported) + nproc + 1
    BY <1>1, <2>1
  <2>6. Len(taken') = nproc /\ resultOffset' = resultOffset + nproc BY <1>3, <1>6, Zenon
  <2> QED BY <1>7, <2>2, <2>3, <2>4, <2>5, <2>6 DEF Handed
<1> QED BY <1>8, <1>9, <1>10

\* Importing blocks.
LEMMA Importing ==
  ASSUME IInv, NEW n \in 0..N, Import(n)
  PROVE  /\ IInv'
         /\ n \in 0..(scheduled - Len(imported))
         /\ imported' = imported \o [i \in 1..n |-> [number |-> Len(imported) + i, parts |-> Parts]]
<1> USE DEF IInv
<1>1. /\ consumer = "import" /\ n <= Len(taken) /\ n \in Nat
      /\ imported' = imported \o [i \in 1..n |-> taken[i]] /\ taken' = <<>>
      /\ consumer' = IF n = Len(taken) THEN "take" ELSE "off"
      /\ UNCHANGED <<tasks, resultCache, resultOffset, scheduled>>
  BY DEF Import, cache
<1>2. /\ Len(taken) \in Nat /\ Len(imported) \in Nat /\ resultOffset \in Nat /\ scheduled \in Nat
      /\ taken \in Seq(Result) /\ imported \in Seq(Result)
  BY DEF Types
<1>3. [i \in 1..n |-> taken[i]] = [i \in 1..n |-> [number |-> Len(imported) + i, parts |-> Parts]]
  <2> \A i \in 1..n : i \in 1..Len(taken) BY <1>1, <1>2
  <2> QED BY DEF Handed
<1>4. n \in 0..(scheduled - Len(imported))
  BY <1>1, <1>2 DEF Handed
<1>5. imported' \in Seq(Result) /\ Len(imported') = Len(imported) + n
  <2>1. [i \in 1..n |-> taken[i]] \in Seq(Result) /\ Len([i \in 1..n |-> taken[i]]) = n
    <3>1. \A i \in 1..n : taken[i] \in Result BY <1>1, <1>2
    <3>2. [i \in 1..n |-> taken[i]] \in [1..n -> Result] BY <3>1
    <3> QED BY <1>1, <3>2
  <2> DEFINE batch == [i \in 1..n |-> taken[i]]
  <2>2. batch \in Seq(Result) /\ Len(batch) = n /\ imported' = imported \o batch
    BY <1>1, <2>1
  <2> HIDE DEF batch
  <2> QED BY <1>2, <2>2, ConcatProperties, Zenon
<1>6. Types'
  BY <1>1, <1>5 DEF Types, tasks
<1>7. Conserved'
  BY <1>1, ConservedFrame
<1>8. Handed'
  <2>1. Len(taken') = 0 BY <1>1
  <2>2. /\ Len(imported) + n + 0 < resultOffset
        /\ n = Len(taken) => resultOffset = Len(imported) + n + 0 + 1
    <3>1. /\ Len(imported) + Len(taken) < resultOffset
          /\ resultOffset = Len(imported) + Len(taken) + 1
      BY <1>1 DEF Handed
    <3>2. n <= Len(taken) /\ n \in Nat BY <1>1
    <3> QED BY <1>2, <3>1, <3>2
  <2> QED BY <1>1, <1>2, <1>5, <2>1, <2>2 DEF Handed
<1> QED BY <1>1, <1>3, <1>4, <1>6, <1>7, <1>8

\* A new synchronisation starts after the last block that was imported.
LEMMA Restarting ==
  ASSUME IInv, NEW p \in Peer, Synchronise(p)
  PROVE  IInv'
<1> USE DEF IInv
<1>1. /\ taskPool' = [k \in Parts |-> {}] /\ taskQueue' = [k \in Parts |-> {}]
      /\ pendPool' = [k \in Parts |-> [q \in Peer |-> {}]] /\ donePool' = [k \in Parts |-> {}]
      /\ resultCache' = <<>> /\ resultOffset' = Len(imported) + 1 /\ scheduled' = Len(imported)
      /\ consumer = "off" /\ consumer' = "take" /\ taken' = taken /\ imported' = imported
  BY DEF Synchronise, Origin, IInv, Types
<1>2. taken = <<>> /\ Len(taken) = 0 /\ Len(imported) \in Nat /\ Len(imported) <= scheduled
  BY <1>1 DEF Handed, Types
<1>3. DOMAIN resultCache' = {} BY <1>1
<1>4. Types'
  <2>1. scheduled' \in 0..N /\ resultOffset' \in Nat \ {0}
    BY <1>1, <1>2, QueueConstants DEF Types
  <2> QED BY <1>1, <1>3, <2>1 DEF Types
<1>5. Conserved'
  <2>1. resultOffset'..scheduled' = {} BY <1>1, <1>2
  <2> QED BY <1>1, <1>3, <2>1 DEF Conserved
<1>6. Handed'
  BY <1>1, <1>2 DEF Handed
<1> QED BY <1>4, <1>5, <1>6

-----------------------------------------------------------------------------
LEMMA InitInv == Init => IInv
<1> SUFFICES ASSUME Init PROVE IInv
  OBVIOUS
<1>1. DOMAIN resultCache = {} /\ resultOffset..scheduled = {}
  BY DEF Init
<1>2. Types
  BY <1>1, QueueConstants DEF Init, Types
<1>3. Conserved
  BY <1>1 DEF Init, Conserved
<1>4. Handed
  BY DEF Init, Handed
<1> QED BY <1>2, <1>3, <1>4 DEF IInv

\* A peer is asked: the empty parts are done at once, the request goes to the peer.
LEMMA Reserving ==
  ASSUME IInv, NEW k \in Parts, NEW p \in Peer, NEW c \in Capacity, Reserve(k, p, c)
  PROVE  IInv'
<1> USE DEF IInv
<1>1. UNCHANGED <<resultOffset, taken, imported, scheduled>>
  BY DEF Reserve
<1>2. CASE UNCHANGED <<tasks, resultCache, consumer>>
  BY <1>1, <1>2, Quiet DEF tasks
<1>3. CASE pendPool[k][p] = {} /\ Reserved(k, p, Popped(k, p, c))
  <2> DEFINE popped == Popped(k, p, c)
             noop == popped \cap Noop[k]
             send == (popped \ noop) \ lacking[p]
  <2>1. popped \subseteq taskQueue[k] /\ taskQueue[k] \subseteq taskPool[k]
    BY DEF Popped, Smallest, Conserved
  <2> HIDE DEF popped
  <2>2. /\ resultCache' = [n \in DOMAIN resultCache \cup popped |->
                             IF n \in noop THEN Completed(Slot(n), k) ELSE Slot(n)]
        /\ donePool' = [donePool EXCEPT ![k] = @ \cup noop]
        /\ taskPool' = [taskPool EXCEPT ![k] = @ \ noop]
        /\ taskQueue' = [taskQueue EXCEPT ![k] = @ \ (noop \cup send)]
        /\ Signal(noop # {})
        /\ pendPool' = [pendPool EXCEPT ![k][p] = send]
    BY <1>3, Zenon DEF Reserved, popped
  <2>3. /\ noop \subseteq popped /\ send \subseteq popped /\ noop \cap send = {}
    OBVIOUS
  <2> HIDE DEF noop, send
  <2>4. taskQueue' = [taskQueue EXCEPT ![k] = (@ \cup pendPool[k][p]) \ (noop \cup send)]
    BY <1>3, <2>2
  <2>5. /\ noop \subseteq taskPool[k] /\ popped \subseteq taskPool[k] /\ send \subseteq taskPool[k]
        /\ noop \cup send \subseteq DOMAIN resultCache \cup popped
        /\ noop \cup send \subseteq taskQueue[k] \cup pendPool[k][p]
    BY <2>1, <2>3
  <2>6. Move(k, p, noop, popped, send)
    BY <1>1, <2>2, <2>3, <2>4, <2>5, Zenon DEF Move
  <2> QED BY <2>6, Moving
<1> QED BY <1>2, <1>3, Zenon DEF Reserve

\* An answer: what it completes is done, the rest of the request returns to the queue.
LEMMA Delivering ==
  ASSUME IInv, NEW k \in Parts, NEW p \in Peer, NEW r \in 0..N, NEW junk \in {0, 1},
         Deliver(k, p, r, junk)
  PROVE  IInv'
<1> USE DEF IInv
<1>1. UNCHANGED <<resultOffset, taken, imported, scheduled>>
  BY DEF Deliver
<1>2. CASE UNCHANGED <<tasks, resultCache, consumer>>
  BY <1>1, <1>2, Quiet DEF tasks
<1>3. CASE Delivered(k, p, r, junk)
  <2> DEFINE request == pendPool[k][p]
             accepted == Accepted(request, Smallest(Head(net[k][p]), r))
             none == {}
  <2>1. accepted \subseteq request BY DEF Accepted
  <2> HIDE DEF accepted
  <2>2. /\ pendPool' = [pendPool EXCEPT ![k][p] = none]
        /\ taskPool' = [taskPool EXCEPT ![k] = @ \ accepted]
        /\ taskQueue' = [taskQueue EXCEPT ![k] = @ \cup (request \ accepted)]
        /\ donePool' = [donePool EXCEPT ![k] = @ \cup accepted]
        /\ resultCache' = [n \in DOMAIN resultCache |->
                             IF n \in accepted THEN Completed(resultCache[n], k) ELSE resultCache[n]]
        /\ Signal(accepted # {})
    BY <1>3, Zenon DEF Delivered, accepted
  <2>3. request \subseteq taskPool[k] /\ request \cap taskQueue[k] = {} /\ request \subseteq DOMAIN resultCache
    BY DEF Conserved
  <2>4. taskQueue' = [taskQueue EXCEPT ![k] = (@ \cup pendPool[k][p]) \ (accepted \cup none)]
    <3> taskQueue[k] \cup (request \ accepted) = (taskQueue[k] \cup pendPool[k][p]) \ (accepted \cup none)
      BY <2>1, <2>3
    <3> QED BY <2>2, Zenon
  <2>5. resultCache' = [n \in DOMAIN resultCache \cup none |->
                          IF n \in accepted THEN Completed(Slot(n), k) ELSE Slot(n)]
    BY <2>2 DEF Slot
  <2>6. /\ accepted \subseteq taskPool[k] /\ none \subseteq taskPool[k] /\ accepted \cap none = {}
        /\ accepted \cup none \subseteq DOMAIN resultCache \cup none
        /\ accepted \cup none \subseteq taskQueue[k] \cup pendPool[k][p]
    BY <2>1, <2>3
  <2>7. Move(k, p, accepted, none, none)
    BY <1>1, <2>2, <2>4, <2>5, <2>6, Zenon DEF Move
  <2> QED BY <2>7, Moving
<1> QED BY <1>2, <1>3 DEF Deliver

\* Every step keeps the invariant.
LEMMA NextInv == IInv /\ [Next]_vars => IInv'
<1> SUFFICES ASSUME IInv, [Next]_vars PROVE IInv'
  OBVIOUS
<1> USE DEF importing, cache, session, connections
<1>1. ASSUME NEW n \in 1..N, NEW good \in 0..N, Schedule(n, good) PROVE IInv'
  BY <1>1, Scheduling
<1>2. ASSUME NEW n \in 0..N, Import(n) PROVE IInv'
  BY <1>2, Importing
<1>3. CASE Finish
  BY <1>3, Quiet DEF Finish
<1>4. CASE Sleep
  BY <1>4, Quiet DEF Sleep
<1>5. CASE Results
  BY <1>5, Taking
<1>6. CASE Close
  BY <1>6, Quiet DEF Close, Signal
<1>7. ASSUME NEW k \in Parts, Exit(k) \/ EndUpdate(k) PROVE IInv'
  BY <1>7, Quiet, Zenon DEF Exit, EndUpdate
<1>8. ASSUME NEW k \in Parts, NEW expired \in SUBSET Peer, Update(k, expired) PROVE IInv'
  <2> DEFINE gone == {p \in expired \cap peers : Cardinality(pendPool[k][p]) <= minFails}
  <2>1. Returned(k, expired, gone)
    BY <1>8, Zenon DEF Update, Drop
  <2>2. UNCHANGED <<taskPool, donePool, resultCache, resultOffset, importing, scheduled>>
    BY <1>8 DEF Update
  <2>3. gone \in SUBSET Peer OBVIOUS
  <2> HIDE DEF gone
  <2> QED BY <2>1, <2>2, <2>3, Returning
<1>9. ASSUME NEW k \in Parts, NEW p \in Peer, Content(k, p) PROVE IInv'
  <2>1. ASSUME NEW c \in Capacity, Reserve(k, p, c) PROVE IInv'
    BY <2>1, Reserving
  <2>2. ASSUME NEW r \in 0..N, NEW junk \in {0, 1}, Deliver(k, p, r, junk) PROVE IInv'
    BY <2>2, Delivering
  <2>3. CASE Lose(k, p)
    BY <2>3, Quiet DEF Lose
  <2> QED BY <1>9, <2>1, <2>2, <2>3 DEF Content
<1>10. ASSUME NEW p \in Peer, UnregisterPeer(p) PROVE IInv'
  <2>1. Returned("", {}, {p})
    BY <1>10, Zenon DEF UnregisterPeer, Drop
  <2>2. UNCHANGED <<taskPool, donePool, resultCache, resultOffset, importing, scheduled>>
    BY <1>10, Zenon DEF UnregisterPeer
  <2> QED BY <2>1, <2>2, Returning, Zenon
<1>11. ASSUME NEW p \in Peer, RegisterPeer(p) PROVE IInv'
  BY <1>11, Quiet DEF RegisterPeer
<1>12. ASSUME NEW p \in Peer, Synchronise(p) PROVE IInv'
  BY <1>12, Restarting
<1>13. CASE UNCHANGED vars
  BY <1>13, Quiet DEF vars
<1> QED BY <1>1, <1>2, <1>3, <1>4, <1>5, <1>6, <1>7, <1>8, <1>9, <1>10, <1>11, <1>12, <1>13 DEF Next

\* The pools, the requests and the cache account for every part of every scheduled
\* block exactly once (queue.go's deliver, expire, Revoke and reserveHeaders), for any
\* number of peers, parts and blocks, any faults and any size of the cache.
THEOREM PartsConserved == Spec => []Conserved
<1>1. IInv => Conserved BY DEF IInv
<1> QED BY InitInv, NextInv, <1>1, PTL DEF Spec

\* What the queue hands to the importer, and the importer to the chain, are the
\* scheduled blocks in order, once and with all their parts: queue, loops and peers
\* together implement OrderedSync.
THEOREM QueueImplements == Spec => Implements
<1>1. Init => Ordered!Init
  BY DEF Init, Ordered!Init
<1>2. IInv /\ [Next]_vars => [Ordered!Next]_(Ordered!vars)
  <2> SUFFICES ASSUME IInv, [Next]_vars PROVE Ordered!Next \/ UNCHANGED <<scheduled, imported>>
    BY DEF Ordered!vars
  <2> USE DEF importing, session
  <2>1. ASSUME NEW n \in 1..N, NEW good \in 0..N, Schedule(n, good)
        PROVE  Ordered!Next \/ UNCHANGED <<scheduled, imported>>
    <3>1. /\ scheduled \in Nat /\ N \in Nat /\ good <= N - scheduled
          /\ scheduled' = scheduled + good /\ imported' = imported
      BY <2>1, QueueConstants, SMTT(60) DEF Schedule, IInv, Types
    <3>2. CASE good = 0 BY <3>1, <3>2
    <3>3. CASE good # 0
      <4> good \in 1..(N - scheduled) BY <3>1, <3>3
      <4> QED BY <3>1 DEF Ordered!Next, Ordered!Schedule
    <3> QED BY <3>2, <3>3
  <2>2. ASSUME NEW n \in 0..N, Import(n)
        PROVE  Ordered!Next \/ UNCHANGED <<scheduled, imported>>
    <3>1. /\ n \in 0..(scheduled - Len(imported)) /\ scheduled' = scheduled
          /\ imported' = imported \o Ordered!Following(n)
      BY <2>2, Importing, Zenon DEF Import, Ordered!Following
    <3>2. CASE n = 0
      <4>1. Ordered!Following(n) = <<>> BY <3>2 DEF Ordered!Following
      <4>2. imported \in Seq(Result) BY Zenon DEF IInv, Types
      <4> QED BY <3>1, <4>1, <4>2, ConcatEmptySeq
    <3>3. CASE n # 0
      <4> n \in 1..(scheduled - Len(imported)) BY <3>1, <3>3
      <4> QED BY <3>1 DEF Ordered!Next, Ordered!Import
    <3> QED BY <3>2, <3>3
  <2>3. ASSUME NEW p \in Peer, Synchronise(p)
        PROVE  Ordered!Next \/ UNCHANGED <<scheduled, imported>>
    BY <2>3, SMTT(60) DEF Synchronise, Origin, IInv, Types, Ordered!Next, Ordered!Restart
  <2>4. CASE Finish \/ Sleep \/ Results \/ Close
    BY <2>4, Zenon DEF Finish, Sleep, Results, Close
  <2>5. ASSUME NEW k \in Parts, Exit(k) \/ EndUpdate(k)
        PROVE  UNCHANGED <<scheduled, imported>>
    BY <2>5, Zenon DEF Exit, EndUpdate
  <2>6. ASSUME NEW k \in Parts, NEW expired \in SUBSET Peer, Update(k, expired)
        PROVE  UNCHANGED <<scheduled, imported>>
    BY <2>6 DEF Update
  <2>7. ASSUME NEW k \in Parts, NEW p \in Peer, Content(k, p)
        PROVE  UNCHANGED <<scheduled, imported>>
    BY <2>7, Zenon DEF Content, Reserve, Deliver, Lose
  <2>8. ASSUME NEW p \in Peer, UnregisterPeer(p) \/ RegisterPeer(p)
        PROVE  UNCHANGED <<scheduled, imported>>
    BY <2>8, Zenon DEF UnregisterPeer, RegisterPeer
  <2>9. CASE UNCHANGED vars
    BY <2>9 DEF vars
  <2> QED BY <2>1, <2>2, <2>3, <2>4, <2>5, <2>6, <2>7, <2>8, <2>9, Zenon DEF Next
<1> QED BY <1>1, <1>2, InitInv, NextInv, PTL DEF Spec, Implements, Ordered!Spec

-----------------------------------------------------------------------------
(* The throttling.                                                         *)

\* The cache has no gap, and none of its results lies beyond its end.
Window ==
  /\ limit \in 1..blockCacheItems
  /\ \A n \in DOMAIN resultCache :
       /\ n \in resultOffset..(resultOffset + blockCacheItems - 1)
       /\ resultOffset..n \subseteq DOMAIN resultCache
  /\ InCache

\* If c members of a set of numbers are below b, the c smallest are; and so they are
\* if all members are.
LEMMA SmallestBelow ==
  ASSUME NEW S \in SUBSET Nat, IsFiniteSet(S), NEW c \in Int, NEW b \in Int,
         (\A m \in S : m < b) \/ Cardinality({m \in S : m < b}) >= c
  PROVE  \A n \in Smallest(S, c) : n < b
<1> SUFFICES ASSUME NEW n \in Smallest(S, c), ~(n < b) PROVE FALSE
  OBVIOUS
<1> DEFINE below == {m \in S : m < b}
           before == {m \in S : m < n}
<1>1. n \in S /\ n \in Nat /\ Cardinality(before) < c
  BY DEF Smallest
<1>2. below \in SUBSET before /\ before \in SUBSET S
  <2> \A m \in S : m \in Int OBVIOUS
  <2> \A m \in Int : m < b => m < n BY <1>1
  <2> QED BY Zenon
<1>3. Cardinality(below) >= c
  BY <1>1
<1> HIDE DEF below, before
<1>4. IsFiniteSet(before) /\ IsFiniteSet(below)
  BY <1>2, FS_Subset, Zenon
<1>5. Cardinality(below) <= Cardinality(before) /\ Cardinality(below) \in Nat /\ Cardinality(before) \in Nat
  BY <1>2, <1>4, FS_Subset, FS_CardinalityType, Zenon
<1> QED BY <1>1, <1>3, <1>5

\* Fewer members of a set precede a smaller one.
LEMMA Preceding ==
  ASSUME NEW S \in SUBSET Nat, IsFiniteSet(S), NEW T \in SUBSET S, NEW n \in Nat, NEW m \in Nat, m <= n
  PROVE  /\ Cardinality({l \in T : l < m}) \in Nat /\ Cardinality({l \in T : l < n}) \in Nat
         /\ Cardinality({l \in T : l < m}) <= Cardinality({l \in T : l < n})
<1> DEFINE A == {l \in T : l < m}
           B == {l \in T : l < n}
<1>1. A \in SUBSET B /\ B \in SUBSET S
  <2> \A l \in T : l \in Int OBVIOUS
  <2> \A l \in Int : l < m => l < n OBVIOUS
  <2> QED BY Zenon
<1> HIDE DEF A, B
<1>2. IsFiniteSet(B) /\ IsFiniteSet(A)
  BY <1>1, FS_Subset, Zenon
<1>3. Cardinality(A) <= Cardinality(B) /\ Cardinality(A) \in Nat /\ Cardinality(B) \in Nat
  BY <1>1, <1>2, FS_Subset, FS_CardinalityType, Zenon
<1> QED BY <1>3 DEF A, B

\* resultSlots leaves room: the blocks that a reservation takes off the queue lie
\* below the limit, although it counts the blocks of its own part only.
LEMMA SlotsFit ==
  ASSUME IInv, Window, NEW k \in Parts
  PROVE  /\ resultSlots(k) \in Int
         /\ \A n \in Smallest(taskQueue[k], resultSlots(k)) : n < resultOffset + limit
<1> DEFINE b == resultOffset + limit
           reached(n) == n < b /\ resultOffset..n \subseteq DOMAIN resultCache
           finished == {n \in resultOffset..N : reached(n) /\ n \in donePool[k]}
           pending == {q \in Peer \X Blocks : q[2] \in pendPool[k][q[1]] /\ q[2] < b}
           waiting == {n \in taskQueue[k] : n < b}
           open == {n \in UNION {pendPool[k][p] : p \in Peer} : n < b}
<1>1. /\ resultSlots(k) = limit - Cardinality(finished) - Cardinality(pending)
      /\ N \in Nat /\ resultOffset \in Nat \ {0} /\ limit \in Nat \ {0} /\ scheduled \in 0..N /\ b \in Nat
  BY QueueConstants DEF resultSlots, IInv, Types, Window
<1>2. /\ taskPool[k] \cup donePool[k] = resultOffset..scheduled
      /\ taskPool[k] = taskQueue[k] \cup UNION {pendPool[k][p] : p \in Peer}
      /\ donePool[k] \subseteq DOMAIN resultCache
  BY DEF IInv, Conserved
<1>3. /\ taskQueue[k] \in SUBSET (1..N) /\ donePool[k] \in SUBSET (1..N)
      /\ \A p \in Peer : pendPool[k][p] \in SUBSET Blocks
  BY DEF IInv, Types, Blocks
<1>4. IsFiniteSet(1..N) /\ IsFiniteSet(Blocks) /\ IsFiniteSet(Peer) /\ IsFiniteSet(Peer \X Blocks)
  <2>1. IsFiniteSet(1..N) BY <1>1, FS_Interval
  <2>2. IsFiniteSet(Blocks) BY <2>1 DEF Blocks
  <2> QED BY <2>1, <2>2, QueueConstants, FS_Product
<1>5. /\ finished \in SUBSET (1..N) /\ waiting \in SUBSET (1..N) /\ open \in SUBSET (1..N)
      /\ pending \in SUBSET (Peer \X Blocks)
  BY <1>1, <1>3, Zenon DEF Blocks
<1>6. /\ IsFiniteSet(finished) /\ IsFiniteSet(waiting) /\ IsFiniteSet(open) /\ IsFiniteSet(pending)
      /\ IsFiniteSet(taskQueue[k])
  <2> HIDE DEF finished, waiting, open, pending
  <2> QED BY <1>3, <1>4, <1>5, FS_Subset, Zenon
<1>7. Cardinality(open) <= Cardinality(pending)
  <2> DEFINE f == [q \in pending |-> q[2]]
  <2>1. ASSUME NEW q \in pending PROVE q[2] \in open
    OBVIOUS
  <2>2. ASSUME NEW n \in open PROVE \E q \in pending : q[2] = n
    <3>1. PICK p \in Peer : n \in pendPool[k][p] /\ n < b OBVIOUS
    <3>2. <<p, n>> \in pending BY <1>3, <3>1
    <3> QED BY <3>2
  <2> HIDE DEF pending, open
  <2>3. f \in Surjection(pending, open)
    BY <2>1, <2>2 DEF Surjection
  <2> HIDE DEF f
  <2> QED BY <1>6, <2>3, FS_Surjection
<1>8. ASSUME scheduled < b
      PROVE  \A m \in taskQueue[k] : m < b
  <2>1. \A m \in taskQueue[k] : m < b BY <1>1, <1>2, <1>8
  <2> QED BY <2>1
<1>9. ASSUME scheduled >= b
      PROVE  Cardinality(waiting) >= resultSlots(k)
  <2>1. resultOffset..(b - 1) \subseteq (waiting \cup open) \cup finished
    <3> SUFFICES ASSUME NEW n \in resultOffset..(b - 1), n \notin waiting, n \notin open PROVE n \in finished
      OBVIOUS
    <3>1. n \in resultOffset..scheduled /\ n < b BY <1>1, <1>9
    <3>2. n \in donePool[k] BY <1>2, <3>1
    <3>3. resultOffset..n \subseteq DOMAIN resultCache BY <1>2, <3>2 DEF Window
    <3> QED BY <1>1, <3>1, <3>2, <3>3
  <2>2. Cardinality(resultOffset..(b - 1)) = limit
    BY <1>1, FS_Interval
  <2> HIDE DEF waiting, open, finished, pending
  <2>3. /\ IsFiniteSet(waiting \cup open) /\ IsFiniteSet((waiting \cup open) \cup finished)
        /\ Cardinality(waiting \cup open) <= Cardinality(waiting) + Cardinality(open)
        /\ Cardinality((waiting \cup open) \cup finished) <= Cardinality(waiting \cup open) + Cardinality(finished)
    <3>1. /\ IsFiniteSet(waiting \cup open)
          /\ Cardinality(waiting \cup open) = Cardinality(waiting) + Cardinality(open) - Cardinality(waiting \cap open)
      BY <1>6, FS_Union
    <3>2. /\ IsFiniteSet((waiting \cup open) \cup finished)
          /\ Cardinality((waiting \cup open) \cup finished)
               = Cardinality(waiting \cup open) + Cardinality(finished) - Cardinality((waiting \cup open) \cap finished)
      BY <1>6, <3>1, FS_Union
    <3>3. IsFiniteSet(waiting \cap open) /\ IsFiniteSet((waiting \cup open) \cap finished)
      BY <1>6, <3>1, FS_Intersection
    <3>4. /\ Cardinality(waiting \cap open) \in Nat /\ Cardinality((waiting \cup open) \cap finished) \in Nat
          /\ Cardinality(waiting) \in Nat /\ Cardinality(open) \in Nat /\ Cardinality(finished) \in Nat
      BY <1>6, <3>3, FS_CardinalityType
    <3> QED BY <3>1, <3>2, <3>4
  <2>4. limit <= Cardinality((waiting \cup open) \cup finished)
    <3> DEFINE slots == resultOffset..(b - 1)
               all == (waiting \cup open) \cup finished
    <3>1. slots \in SUBSET all /\ IsFiniteSet(all) /\ Cardinality(slots) = limit
      BY <2>1, <2>2, <2>3
    <3> HIDE DEF slots, all
    <3>2. Cardinality(slots) <= Cardinality(all)
      BY <3>1, FS_Subset
    <3> QED BY <3>1, <3>2 DEF all
  <2>5. /\ Cardinality(waiting) \in Nat /\ Cardinality(open) \in Nat /\ Cardinality(finished) \in Nat
        /\ Cardinality(pending) \in Nat /\ Cardinality(waiting \cup open) \in Nat
        /\ Cardinality((waiting \cup open) \cup finished) \in Nat
    BY <1>6, <2>3, FS_CardinalityType
  <2>6. Cardinality(waiting) >= resultSlots(k)
    BY <1>1, <1>7, <2>3, <2>4, <2>5
  <2> QED BY <2>6
<1> HIDE DEF waiting, open, finished, pending
<1>10. resultSlots(k) \in Int
  BY <1>1, <1>6, FS_CardinalityType
<1>11. scheduled < b \/ scheduled >= b
  BY <1>1
<1>12. taskQueue[k] \in SUBSET Nat
  BY <1>3
<1> HIDE DEF b
<1>13. (\A m \in taskQueue[k] : m < b) \/ Cardinality({m \in taskQueue[k] : m < b}) >= resultSlots(k)
  BY <1>8, <1>9, <1>11 DEF waiting
<1>14. \A n \in Smallest(taskQueue[k], resultSlots(k)) : n < b
  <2> DEFINE S == taskQueue[k]
             c == resultSlots(k)
  <2>1. /\ S \in SUBSET Nat /\ IsFiniteSet(S) /\ c \in Int /\ b \in Int
        /\ (\A m \in S : m < b) \/ Cardinality({m \in S : m < b}) >= c
    BY <1>1, <1>6, <1>10, <1>12, <1>13
  <2> HIDE DEF S, c
  <2>2. \A n \in Smallest(S, c) : n < b
    BY <2>1, SmallestBelow, Zenon
  <2> QED BY <2>2 DEF S, c
<1> QED BY <1>10, <1>14 DEF b

\* Reserving keeps the cache without gaps: the blocks below a reserved one were
\* reserved before or are reserved with it.
LEMMA ReservedInWindow ==
  ASSUME IInv, Window, NEW k \in Parts, NEW p \in Peer, NEW c \in Capacity
  PROVE  /\ \A n \in Popped(k, p, c) : n \in resultOffset..(resultOffset + blockCacheItems - 1)
         /\ \A n \in Popped(k, p, c) : resultOffset..n \subseteq DOMAIN resultCache \cup Popped(k, p, c)
<1> DEFINE sent == {m \in taskQueue[k] : m \notin Noop[k] /\ m \notin lacking[p]}
           s == resultSlots(k)
<1>1. Popped(k, p, c) = {n \in Smallest(taskQueue[k], s) : Cardinality({m \in sent : m < n}) < c}
  <2>1. \A n : {m \in taskQueue[k] : m < n /\ m \notin Noop[k] /\ m \notin lacking[p]} = {m \in sent : m < n}
    OBVIOUS
  <2> QED BY <2>1 DEF Popped
<1>2. /\ N \in Nat /\ resultOffset \in Nat /\ limit \in 1..blockCacheItems /\ blockCacheItems \in Nat
      /\ taskQueue[k] \in SUBSET (1..N) /\ scheduled \in 0..N /\ c \in Nat
  BY QueueConstants DEF IInv, Types, Window, Blocks
<1>3. IsFiniteSet(taskQueue[k]) /\ taskQueue[k] \in SUBSET Nat /\ sent \in SUBSET taskQueue[k]
  <2>1. IsFiniteSet(1..N) BY <1>2, FS_Interval
  <2>2. IsFiniteSet(taskQueue[k]) BY <1>2, <2>1, FS_Subset
  <2>3. taskQueue[k] \in SUBSET Nat BY <1>2
  <2> QED BY <2>2, <2>3
<1>4. /\ taskPool[k] \cup donePool[k] = resultOffset..scheduled /\ taskQueue[k] \subseteq taskPool[k]
      /\ donePool[k] \cup (taskPool[k] \ taskQueue[k]) \subseteq DOMAIN resultCache
  BY DEF IInv, Conserved
<1> HIDE DEF sent
<1>5. ASSUME NEW n \in Popped(k, p, c)
      PROVE  n \in resultOffset..(resultOffset + blockCacheItems - 1)
  <2>1. n \in taskQueue[k] /\ n \in Smallest(taskQueue[k], s) BY <1>1 DEF Smallest
  <2>2. n < resultOffset + limit BY <2>1, SlotsFit
  <2>3. n \in resultOffset..scheduled BY <1>4, <2>1
  <2> QED BY <1>2, <2>2, <2>3
<1>6. ASSUME NEW n \in Popped(k, p, c), NEW m \in resultOffset..n, m \notin DOMAIN resultCache
      PROVE  m \in Popped(k, p, c)
  <2>1. /\ n \in taskQueue[k] /\ Cardinality({l \in taskQueue[k] : l < n}) < s
        /\ Cardinality({l \in sent : l < n}) < c
    BY <1>1 DEF Smallest
  <2>2. n \in resultOffset..scheduled /\ n \in Nat BY <1>2, <1>4, <2>1
  <2>3. m \in resultOffset..scheduled /\ m \in Nat /\ m <= n BY <1>2, <2>2
  <2>4. m \in taskQueue[k] BY <1>4, <1>6, <2>3
  <2>5. s \in Int BY SlotsFit
  <2>6. /\ Cardinality({l \in taskQueue[k] : l < m}) <= Cardinality({l \in taskQueue[k] : l < n})
        /\ Cardinality({l \in taskQueue[k] : l < m}) \in Nat /\ Cardinality({l \in taskQueue[k] : l < n}) \in Nat
    BY <1>3, <2>2, <2>3, Preceding, Zenon
  <2>7. /\ Cardinality({l \in sent : l < m}) <= Cardinality({l \in sent : l < n})
        /\ Cardinality({l \in sent : l < m}) \in Nat /\ Cardinality({l \in sent : l < n}) \in Nat
    BY <1>3, <2>2, <2>3, Preceding, Zenon
  <2>8. Cardinality({l \in taskQueue[k] : l < m}) < s /\ Cardinality({l \in sent : l < m}) < c
    BY <1>2, <2>1, <2>5, <2>6, <2>7
  <2> QED BY <1>1, <2>4, <2>8 DEF Smallest
<1> QED BY <1>5, <1>6

\* The window speaks of the cache and of the error only.
LEMMA WindowFrame ==
  ASSUME IInv, Window, UNCHANGED <<resultOffset, limit>>, DOMAIN resultCache' = DOMAIN resultCache,
         err' # "invalid"
  PROVE  Window'
BY DEF Window, InCache

LEMMA WindowInit == Init => Window
<1> SUFFICES ASSUME Init PROVE Window
  OBVIOUS
<1>1. DOMAIN resultCache = {} BY DEF Init
<1>2. blockCacheItems \in Nat \ {0} BY QueueConstants
<1> QED BY <1>1, <1>2 DEF Init, Window, InCache

\* A reservation fits into the cache.
LEMMA WindowReserve ==
  ASSUME IInv, Window, NEW k \in Parts, NEW p \in Peer, NEW c \in Capacity, Reserve(k, p, c)
  PROVE  Window'
<1>1. UNCHANGED <<resultOffset, limit>> /\ err # "invalid"
  BY Zenon DEF Reserve, Window, InCache
<1>2. CASE UNCHANGED <<resultCache, err>>
  BY <1>1, <1>2, WindowFrame
<1>3. CASE ~\A n \in Popped(k, p, c) : InWindow(n)
  <2>1. PICK n \in Popped(k, p, c) : ~InWindow(n) BY <1>3
  <2>2. n \in resultOffset..(resultOffset + blockCacheItems - 1) BY ReservedInWindow
  <2>3. resultOffset \in Nat /\ blockCacheItems \in Nat BY QueueConstants DEF IInv, Types
  <2> QED BY <2>1, <2>2, <2>3 DEF InWindow
<1>4. CASE Reserved(k, p, Popped(k, p, c)) /\ UNCHANGED err
  <2> DEFINE popped == Popped(k, p, c)
  <2>1. DOMAIN resultCache' = DOMAIN resultCache \cup popped
    BY <1>4, Zenon DEF Reserved
  <2>2. ASSUME NEW n \in DOMAIN resultCache'
        PROVE  /\ n \in resultOffset..(resultOffset + blockCacheItems - 1)
               /\ resultOffset..n \subseteq DOMAIN resultCache'
    <3>1. CASE n \in popped BY <2>1, <3>1, ReservedInWindow
    <3>2. CASE n \in DOMAIN resultCache BY <2>1, <3>2 DEF Window
    <3> QED BY <2>1, <3>1, <3>2
  <2> HIDE DEF popped
  <2> QED BY <1>1, <1>4, <2>2 DEF Window, InCache
<1> QED BY <1>2, <1>3, <1>4, Zenon DEF Reserve, tasks

\* What is delivered was reserved, and its place is still in the cache.
LEMMA WindowDeliver ==
  ASSUME IInv, Window, NEW k \in Parts, NEW p \in Peer, NEW r \in 0..N, NEW junk \in {0, 1},
         Deliver(k, p, r, junk)
  PROVE  Window'
<1>1. UNCHANGED <<resultOffset, limit>> /\ err # "invalid"
  BY DEF Deliver, Window, InCache
<1>2. CASE UNCHANGED <<resultCache, err>>
  BY <1>1, <1>2, WindowFrame
<1>3. CASE Delivered(k, p, r, junk)
  <2>1. DOMAIN resultCache' = DOMAIN resultCache
    BY <1>3, Zenon DEF Delivered
  <2>2. ASSUME NEW c, NEW n \in Smallest(pendPool[k][p], c) PROVE InWindow(n) /\ n \in DOMAIN resultCache
    <3>1. n \in pendPool[k][p] BY DEF Smallest
    <3>2. n \in DOMAIN resultCache
      <4>1. /\ taskPool[k] = taskQueue[k] \cup UNION {pendPool[k][q] : q \in Peer}
            /\ taskQueue[k] \cap pendPool[k][p] = {}
            /\ donePool[k] \cup (taskPool[k] \ taskQueue[k]) \subseteq DOMAIN resultCache
        BY Zenon DEF IInv, Conserved
      <4>2. n \in taskPool[k] \ taskQueue[k] BY <3>1, <4>1, Zenon
      <4> QED BY <4>1, <4>2, Zenon
    <3>3. n \in resultOffset..(resultOffset + blockCacheItems - 1) BY <3>2 DEF Window
    <3>4. resultOffset \in Nat /\ blockCacheItems \in Nat BY QueueConstants DEF IInv, Types
    <3> QED BY <3>2, <3>3, <3>4 DEF InWindow
  <2>3. err' = err
    BY <1>3, <2>2, Zenon DEF Delivered
  <2> QED BY <1>1, <2>1, <2>3, WindowFrame
<1> QED BY <1>2, <1>3 DEF Deliver, tasks

\* Results moves the start of the cache by what it takes off it.
LEMMA WindowResults ==
  ASSUME IInv, Window, Results
  PROVE  Window'
<1> DEFINE nproc == Least(countProcessableItems, maxResultsProcess)
           results == resultOffset..(resultOffset + nproc - 1)
<1>1. /\ resultOffset' = resultOffset + nproc /\ DOMAIN resultCache' = DOMAIN resultCache \ results
      /\ err' = err /\ (limit' = limit \/ limit' \in 1..blockCacheItems)
  BY DEF Results, session
<1>2. nproc \in Nat /\ resultOffset \in Nat /\ blockCacheItems \in Nat
  <2>1. countProcessableItems \in Nat BY Processable DEF IInv
  <2> QED BY <2>1, QueueConstants DEF Least, IInv, Types
<1> HIDE DEF nproc
<1>3. ASSUME NEW n \in DOMAIN resultCache'
      PROVE  /\ n \in resultOffset'..(resultOffset' + blockCacheItems - 1)
             /\ resultOffset'..n \subseteq DOMAIN resultCache'
  <2>1. /\ n \in resultOffset..(resultOffset + blockCacheItems - 1) /\ n \notin results
        /\ resultOffset..n \subseteq DOMAIN resultCache
    BY <1>1 DEF Window
  <2>2. n \in resultOffset'..(resultOffset' + blockCacheItems - 1)
    BY <1>1, <1>2, <2>1
  <2>3. \A m \in resultOffset'..n : m \in resultOffset..n /\ m \notin results
    BY <1>1, <1>2, <2>1
  <2> QED BY <1>1, <2>1, <2>2, <2>3
<1> QED BY <1>1, <1>3 DEF Window, InCache

\* Every step keeps the window.
LEMMA WindowStep == IInv /\ Window /\ [Next]_vars => Window'
<1> SUFFICES ASSUME IInv, Window, [Next]_vars PROVE Window'
  OBVIOUS
<1>0. err # "invalid" BY DEF Window, InCache
<1> USE DEF importing, cache, session, connections
<1>1. ASSUME NEW n \in 1..N, NEW good \in 0..N, Schedule(n, good) PROVE Window'
  BY <1>0, <1>1, WindowFrame DEF Schedule
<1>2. ASSUME NEW n \in 0..N, Import(n) PROVE Window'
  BY <1>0, <1>2, WindowFrame DEF Import
<1>3. CASE Finish \/ Sleep
  BY <1>0, <1>3, WindowFrame DEF Finish, Sleep
<1>4. CASE Results
  BY <1>4, WindowResults
<1>5. CASE Close
  BY <1>0, <1>5, WindowFrame DEF Close
<1>6. ASSUME NEW k \in Parts, Exit(k) \/ EndUpdate(k) PROVE Window'
  BY <1>0, <1>6, WindowFrame, Zenon DEF Exit, EndUpdate
<1>7. ASSUME NEW k \in Parts, NEW expired \in SUBSET Peer, Update(k, expired) PROVE Window'
  BY <1>0, <1>7, WindowFrame, Zenon DEF Update, Drop
<1>8. ASSUME NEW k \in Parts, NEW p \in Peer, Content(k, p) PROVE Window'
  <2>1. ASSUME NEW c \in Capacity, Reserve(k, p, c) PROVE Window'
    BY <2>1, WindowReserve
  <2>2. ASSUME NEW r \in 0..N, NEW junk \in {0, 1}, Deliver(k, p, r, junk) PROVE Window'
    BY <2>2, WindowDeliver
  <2>3. CASE Lose(k, p)
    BY <1>0, <2>3, WindowFrame DEF Lose
  <2> QED BY <1>8, <2>1, <2>2, <2>3 DEF Content
<1>9. ASSUME NEW p \in Peer, UnregisterPeer(p) PROVE Window'
  BY <1>0, <1>9, WindowFrame, Zenon DEF UnregisterPeer, Drop
<1>10. ASSUME NEW p \in Peer, RegisterPeer(p) PROVE Window'
  BY <1>0, <1>10, WindowFrame DEF RegisterPeer
<1>11. ASSUME NEW p \in Peer, Synchronise(p) PROVE Window'
  <2>1. DOMAIN resultCache' = {} /\ err' = "none" /\ limit' = limit
    BY <1>11 DEF Synchronise
  <2> QED BY <2>1 DEF Window, InCache
<1>12. CASE UNCHANGED vars
  BY <1>0, <1>12, WindowFrame DEF vars
<1> QED BY <1>1, <1>2, <1>3, <1>4, <1>5, <1>6, <1>7, <1>8, <1>9, <1>10, <1>11, <1>12 DEF Next

\* The error "index allocation went beyond available resultCache space" of
\* queue.go's reserveHeaders, and the one of deliver on a result that is not there,
\* never happen, for any sizes of the cache, numbers of parts and memory limits.
THEOREM CacheNeverOverrun == Spec => []InCache
<1>1. Window => InCache BY DEF Window
<1> QED BY InitInv, NextInv, WindowInit, WindowStep, <1>1, PTL DEF Spec

-----------------------------------------------------------------------------
(* The requests.                                                           *)

\* The state of a loop.
LoopState ==
  [pc : {"select", "reserve", "off"}, idles : SUBSET Peer, ghosts : SUBSET Peer, progressed : BOOLEAN,
   throttled : BOOLEAN, running : BOOLEAN, all : BOOLEAN, finished : BOOLEAN]

\* The peers that a loop has yet to try in an update are idle, except for those that
\* left meanwhile: the loop took the list of them when the update began.
Reservable ==
  /\ loop \in [Parts -> LoopState] /\ idle \in [Parts -> SUBSET Peer] /\ peers \in SUBSET Peer
  /\ net \in [Parts -> [Peer -> Seq(SUBSET Blocks)]]
  /\ \A k \in Parts : loop[k].idles \ loop[k].ghosts \subseteq idle[k]

\* What a step asks of the requests on their way.
Asks == \A k \in Parts, p \in Peer : Len(net'[k][p]) > Len(net[k][p]) => p \in idle[k]

LEMMA NetSame ==
  ASSUME Reservable, net' = net
  PROVE  Asks
BY SMTT(60) DEF Asks, Reservable

\* A request or an answer leaves the net.
LEMMA NetTail ==
  ASSUME Reservable, NEW k \in Parts, NEW p \in Peer, net[k][p] # <<>>,
         net' = [net EXCEPT ![k][p] = Tail(@)]
  PROVE  net' \in [Parts -> [Peer -> Seq(SUBSET Blocks)]] /\ Asks
<1>1. net[k][p] \in Seq(SUBSET Blocks) BY DEF Reservable
<1>2. Tail(net[k][p]) \in Seq(SUBSET Blocks) /\ Len(Tail(net[k][p])) = Len(net[k][p]) - 1 /\ Len(net[k][p]) \in Nat
  BY <1>1
<1>3. net' \in [Parts -> [Peer -> Seq(SUBSET Blocks)]]
  BY <1>2 DEF Reservable
<1>4. ASSUME NEW j \in Parts, NEW q \in Peer PROVE ~(Len(net'[j][q]) > Len(net[j][q]))
  <2>1. Len(net[j][q]) \in Nat BY DEF Reservable
  <2>2. CASE j = k /\ q = p BY <1>2, <2>2 DEF Reservable
  <2>3. CASE ~(j = k /\ q = p)
    <3>1. net'[j][q] = net[j][q] BY <2>3 DEF Reservable
    <3> QED BY <2>1, <3>1
  <2> QED BY <2>2, <2>3, Zenon
<1> QED BY <1>3, <1>4 DEF Asks

\* A peer that leaves has answered at most one of its requests.
LEMMA NetCut ==
  ASSUME Reservable, NEW gone, NEW kept \in {0, 1},
         net' = [j \in Parts |-> [p \in Peer |->
                   IF p \in gone /\ Len(net[j][p]) > kept THEN SubSeq(net[j][p], 1, kept) ELSE net[j][p]]]
  PROVE  net' \in [Parts -> [Peer -> Seq(SUBSET Blocks)]] /\ Asks
<1>1. ASSUME NEW j \in Parts, NEW p \in Peer
      PROVE  net'[j][p] \in Seq(SUBSET Blocks) /\ ~(Len(net'[j][p]) > Len(net[j][p]))
  <2>1. net[j][p] \in Seq(SUBSET Blocks) /\ Len(net[j][p]) \in Nat BY DEF Reservable
  <2>2. CASE p \in gone /\ Len(net[j][p]) > kept
    <3>1. net'[j][p] = SubSeq(net[j][p], 1, kept) BY <2>2
    <3>2. SubSeq(net[j][p], 1, kept) \in Seq(SUBSET Blocks) /\ Len(SubSeq(net[j][p], 1, kept)) = kept
      BY <2>1, <2>2, SubSeqProperties
    <3> QED BY <2>1, <2>2, <3>1, <3>2, SMTT(60)
  <2>3. CASE ~(p \in gone /\ Len(net[j][p]) > kept)
    <3>1. net'[j][p] = net[j][p] BY <2>3
    <3> QED BY <2>1, <3>1
  <2> QED BY <2>2, <2>3
<1>2. net' \in [Parts -> [Peer -> Seq(SUBSET Blocks)]]
  <2> DEFINE row(j) == [p \in Peer |->
                 IF p \in gone /\ Len(net[j][p]) > kept THEN SubSeq(net[j][p], 1, kept) ELSE net[j][p]]
  <2>1. ASSUME NEW j \in Parts PROVE row(j) \in [Peer -> Seq(SUBSET Blocks)]
    BY <1>1
  <2>2. net' = [j \in Parts |-> row(j)] OBVIOUS
  <2> HIDE DEF row
  <2> QED BY <2>1, <2>2
<1> QED BY <1>1, <1>2 DEF Asks

\* The loops that hear of peers that left.
LEMMA Haunting ==
  ASSUME Reservable, NEW k, NEW gone, NEW j \in Parts, j # k
  PROVE  /\ Haunted(k, gone)[j] \in LoopState
         /\ Haunted(k, gone)[j].idles = loop[j].idles
         /\ loop[j].ghosts \subseteq Haunted(k, gone)[j].ghosts
<1>1. loop[j] \in LoopState BY DEF Reservable
<1>2. Haunted(k, gone)[j] = [loop[j] EXCEPT !.ghosts = @ \cup (gone \cap loop[j].idles)]
  BY DEF Haunted
<1>3. loop[j].ghosts \cup (gone \cap loop[j].idles) \in SUBSET Peer BY <1>1 DEF LoopState
<1> QED BY <1>1, <1>2, <1>3 DEF LoopState

\* An update of loop k.
LEMMA ReservableUpdate ==
  ASSUME IInv, Reservable, NEW k \in Parts, NEW expired \in SUBSET Peer, Update(k, expired)
  PROVE  Reservable' /\ Asks
<1> DEFINE gone == {p \in expired \cap peers : Cardinality(pendPool[k][p]) <= minFails}
           free == (idle[k] \cup (expired \cap peers)) \ gone
           left == taskQueue'[k] # {}
           ends == ~left /\ loop[k].finished /\ \A p \in Peer : pendPool'[k][p] = {}
           busy == left /\ \E p \in Peer : pendPool'[k][p] # {}
           all == left /\ peers' \subseteq free
           pc == IF left THEN "reserve" ELSE IF ends THEN "off" ELSE "select"
           idles == IF left THEN idlePeers(peers', free) ELSE {}
           next == [Loop(pc, idles) EXCEPT !.finished = loop[k].finished, !.running = busy, !.all = all]
<1>1. /\ Drop(k, expired, gone) /\ idle' = [idle EXCEPT ![k] = free]
      /\ loop' = [Haunted(k, gone) EXCEPT ![k] = next]
  BY DEF Update
<1>2. peers' = peers \ gone
  BY <1>1 DEF Drop
<1>3. net' \in [Parts -> [Peer -> Seq(SUBSET Blocks)]] /\ Asks
  <2>1. PICK kept \in {0, 1} :
          net' = [j \in Parts |-> [p \in Peer |->
                   IF p \in gone /\ Len(net[j][p]) > kept THEN SubSeq(net[j][p], 1, kept) ELSE net[j][p]]]
    BY <1>1, Zenon DEF Drop
  <2> HIDE DEF gone
  <2> QED BY <2>1, NetCut, Zenon
<1>4. free \in SUBSET Peer /\ idles \in SUBSET free /\ peers' \in SUBSET Peer
  BY <1>2 DEF Reservable, idlePeers
<1>5. /\ pc \in {"select", "reserve", "off"} /\ busy \in BOOLEAN /\ all \in BOOLEAN
  OBVIOUS
<1>6. loop[k].finished \in BOOLEAN BY DEF Reservable, LoopState
<1> HIDE DEF gone, free, left, ends, busy, all, pc, idles
<1>7. Loop(pc, idles) \in LoopState /\ Loop(pc, idles).idles = idles /\ Loop(pc, idles).ghosts = {}
  BY <1>4, <1>5 DEF Loop, LoopState
<1>8. next \in LoopState /\ next.idles = idles /\ next.ghosts = {}
  <2> DEFINE l == Loop(pc, idles)
  <2> HIDE DEF l
  <2>1. l \in LoopState /\ l.idles = idles /\ l.ghosts = {} BY <1>7 DEF l
  <2>2. next = [l EXCEPT !.finished = loop[k].finished, !.running = busy, !.all = all] BY DEF l
  <2> HIDE DEF next
  <2> QED BY <1>5, <1>6, <2>1, <2>2, Zenon DEF LoopState
<1> HIDE DEF next
<1>9. loop' = [j \in Parts |-> IF j = k THEN next ELSE Haunted(k, gone)[j]]
  BY <1>1, Zenon DEF Haunted
<1>10. loop' \in [Parts -> LoopState]
  BY <1>8, <1>9, Haunting
<1>11. idle' \in [Parts -> SUBSET Peer] /\ idle'[k] = free /\ \A j \in Parts \ {k} : idle'[j] = idle[j]
  BY <1>1, <1>4 DEF Reservable
<1>12. ASSUME NEW j \in Parts PROVE loop'[j].idles \ loop'[j].ghosts \subseteq idle'[j]
  <2>1. CASE j = k BY <1>4, <1>8, <1>9, <1>11, <2>1
  <2>2. CASE j # k
    <3>1. loop'[j] = Haunted(k, gone)[j] BY <1>9, <2>2
    <3>2. loop[j].idles \ loop[j].ghosts \subseteq idle[j] BY DEF Reservable
    <3> QED BY <1>11, <2>2, <3>1, <3>2, Haunting
  <2> QED BY <2>1, <2>2
<1> QED BY <1>3, <1>4, <1>10, <1>11, <1>12 DEF Reservable

\* A loop goes on without new peers to try.
LEMMA LoopPatch ==
  ASSUME Reservable, NEW k \in Parts, NEW l \in LoopState, l.idles \subseteq loop[k].idles,
         l.ghosts = loop[k].ghosts, loop' = [loop EXCEPT ![k] = l],
         idle' = idle, net' = net, peers' = peers
  PROVE  Reservable' /\ Asks
<1>1. loop' \in [Parts -> LoopState] /\ loop'[k] = l /\ \A j \in Parts \ {k} : loop'[j] = loop[j]
  BY DEF Reservable
<1>2. ASSUME NEW j \in Parts PROVE loop'[j].idles \ loop'[j].ghosts \subseteq idle'[j]
  <2>1. loop[j].idles \ loop[j].ghosts \subseteq idle[j] BY DEF Reservable
  <2> QED BY <1>1, <2>1
<1>3. Asks BY NetSame
<1>4. /\ idle' \in [Parts -> SUBSET Peer] /\ peers' \in SUBSET Peer
      /\ net' \in [Parts -> [Peer -> Seq(SUBSET Blocks)]]
  BY DEF Reservable
<1> QED BY <1>1, <1>2, <1>3, <1>4 DEF Reservable

\* A peer that is asked was idle, and is tried once.
LEMMA ReservableReserve ==
  ASSUME IInv, Reservable, NEW k \in Parts, NEW p \in Peer, NEW c \in Capacity, Reserve(k, p, c)
  PROVE  Reservable' /\ Asks
<1>0. peers' = peers /\ p \in loop[k].idles /\ loop[k] \in LoopState
  BY Zenon DEF Reserve, Reservable
<1>1. CASE idle' = idle /\ net' = net /\ \/ loop' = [loop EXCEPT ![k].throttled = TRUE, ![k].idles = {}]
                                         \/ loop' = [loop EXCEPT ![k].idles = {}]
                                         \/ loop' = [loop EXCEPT ![k].idles = @ \ {p}]
                                         \/ loop' = [loop EXCEPT ![k].pc = "off"]
  <2> DEFINE l1 == [loop[k] EXCEPT !.throttled = TRUE, !.idles = {}]
             l2 == [loop[k] EXCEPT !.idles = {}]
             l3 == [loop[k] EXCEPT !.idles = @ \ {p}]
             l4 == [loop[k] EXCEPT !.pc = "off"]
  <2>0. idle' = idle /\ net' = net /\ peers' = peers
    <3>1. idle' = idle /\ net' = net BY <1>1, Zenon
    <3> QED BY <1>0, <3>1
  <2>1. CASE loop' = [loop EXCEPT ![k].throttled = TRUE, ![k].idles = {}]
    <3>1. loop' = [loop EXCEPT ![k] = l1] BY <2>1, Zenon DEF Reservable
    <3>2. l1 \in LoopState /\ l1.idles \subseteq loop[k].idles /\ l1.ghosts = loop[k].ghosts
      BY <1>0, Zenon DEF LoopState
    <3> HIDE DEF l1
    <3> QED BY <2>0, <3>1, <3>2, LoopPatch, Zenon
  <2>2. CASE loop' = [loop EXCEPT ![k].idles = {}]
    <3>1. loop' = [loop EXCEPT ![k] = l2] BY <2>2 DEF Reservable
    <3>2. l2 \in LoopState /\ l2.idles \subseteq loop[k].idles /\ l2.ghosts = loop[k].ghosts
      BY <1>0 DEF LoopState
    <3> HIDE DEF l2
    <3> QED BY <2>0, <3>1, <3>2, LoopPatch, Zenon
  <2>3. CASE loop' = [loop EXCEPT ![k].idles = @ \ {p}]
    <3>1. loop' = [loop EXCEPT ![k] = l3] BY <2>3 DEF Reservable
    <3>2. l3 \in LoopState /\ l3.idles \subseteq loop[k].idles /\ l3.ghosts = loop[k].ghosts
      BY <1>0 DEF LoopState
    <3> HIDE DEF l3
    <3> QED BY <2>0, <3>1, <3>2, LoopPatch, Zenon
  <2>4. CASE loop' = [loop EXCEPT ![k].pc = "off"]
    <3>1. loop' = [loop EXCEPT ![k] = l4] BY <2>4 DEF Reservable
    <3>2. l4 \in LoopState /\ l4.idles \subseteq loop[k].idles /\ l4.ghosts = loop[k].ghosts
      BY <1>0 DEF LoopState
    <3> HIDE DEF l4
    <3> QED BY <2>0, <3>1, <3>2, LoopPatch, Zenon
  <2> QED BY <1>1, <2>1, <2>2, <2>3, <2>4, Zenon
<1>2. CASE Reserved(k, p, Popped(k, p, c))
  <2> DEFINE popped == Popped(k, p, c)
             noop == popped \cap Noop[k]
             send == (popped \ noop) \ lacking[p]
             ns == noop # {}
             ss == send # {}
  <2>1. send \in SUBSET Blocks
    BY Zenon DEF Popped, Smallest, IInv, Types
  <2>2. /\ IF send = {} \/ p \in loop[k].ghosts THEN UNCHANGED <<idle, net>>
           ELSE /\ idle' = [idle EXCEPT ![k] = @ \ {p}]
                /\ net' = [net EXCEPT ![k][p] = Append(@, send)]
        /\ loop' = [loop EXCEPT ![k].idles = @ \ {p},
                                ![k].progressed = @ \/ ns,
                                ![k].running = @ \/ ss]
    BY <1>2, Zenon DEF Reserved
  <2>3. ns \in BOOLEAN /\ ss \in BOOLEAN OBVIOUS
  <2> HIDE DEF send, ns, ss
  <2>4. /\ loop'[k] \in LoopState /\ loop'[k].idles = loop[k].idles \ {p} /\ loop'[k].ghosts = loop[k].ghosts
        /\ loop' \in [Parts -> LoopState] /\ \A j \in Parts \ {k} : loop'[j] = loop[j]
    <3> DEFINE l == [loop[k] EXCEPT !.idles = @ \ {p}, !.progressed = @ \/ ns, !.running = @ \/ ss]
    <3>1. loop' = [loop EXCEPT ![k] = l] BY <1>0, <2>2, Zenon DEF Reservable
    <3>2. loop[k].progressed \in BOOLEAN /\ loop[k].running \in BOOLEAN BY <1>0 DEF LoopState
    <3>3. (loop[k].progressed \/ ns) \in BOOLEAN /\ (loop[k].running \/ ss) \in BOOLEAN OBVIOUS
    <3>4. l \in LoopState /\ l.idles = loop[k].idles \ {p} /\ l.ghosts = loop[k].ghosts
      BY <1>0, <3>3, Zenon DEF LoopState
    <3> HIDE DEF l
    <3> QED BY <3>1, <3>4 DEF Reservable
  <2>5. CASE send = {} \/ p \in loop[k].ghosts
    <3>1. UNCHANGED <<idle, net>> BY <2>2, <2>5, Zenon
    <3>2. ASSUME NEW j \in Parts PROVE loop'[j].idles \ loop'[j].ghosts \subseteq idle'[j]
      BY <2>4, <3>1, Zenon DEF Reservable
    <3> QED BY <1>0, <2>4, <3>1, <3>2, NetSame, Zenon DEF Reservable
  <2>6. CASE ~(send = {} \/ p \in loop[k].ghosts)
    <3>1. /\ idle' = [idle EXCEPT ![k] = @ \ {p}] /\ net' = [net EXCEPT ![k][p] = Append(@, send)]
          /\ p \in idle[k]
      BY <1>0, <2>2, <2>6, Zenon DEF Reservable
    <3>2. net' \in [Parts -> [Peer -> Seq(SUBSET Blocks)]]
      <4>1. Append(net[k][p], send) \in Seq(SUBSET Blocks) BY <2>1 DEF Reservable
      <4> QED BY <3>1, <4>1 DEF Reservable
    <3>3. ASSUME NEW j \in Parts, NEW q \in Peer, Len(net'[j][q]) > Len(net[j][q]) PROVE q \in idle[j]
      <4>1. Len(net[j][q]) \in Nat BY DEF Reservable
      <4>2. CASE j = k /\ q = p BY <3>1, <4>2
      <4>3. CASE ~(j = k /\ q = p)
        <5>1. net'[j][q] = net[j][q] BY <3>1, <4>3, Zenon DEF Reservable
        <5> QED BY <3>3, <4>1, <5>1
      <4> QED BY <4>2, <4>3
    <3>4. /\ idle' \in [Parts -> SUBSET Peer] /\ idle'[k] = idle[k] \ {p}
          /\ \A j \in Parts \ {k} : idle'[j] = idle[j]
      BY <3>1, Zenon DEF Reservable
    <3>5. ASSUME NEW j \in Parts PROVE loop'[j].idles \ loop'[j].ghosts \subseteq idle'[j]
      BY <2>4, <3>4, Zenon DEF Reservable
    <3>6. Asks BY <3>3 DEF Asks
    <3> QED BY <1>0, <2>4, <3>2, <3>4, <3>5, <3>6 DEF Reservable
  <2> QED BY <2>5, <2>6
<1> QED BY <1>1, <1>2, Zenon DEF Reserve

\* Answers make peers idle, and a loop may end.
LEMMA ReservableDeliver ==
  ASSUME IInv, Reservable, NEW k \in Parts, NEW p \in Peer, NEW r \in 0..N, NEW junk \in {0, 1},
         Deliver(k, p, r, junk)
  PROVE  Reservable' /\ Asks
<1>1. /\ net[k][p] # <<>> /\ net' = [net EXCEPT ![k][p] = Tail(@)] /\ peers' = peers
  BY DEF Deliver
<1>2. net' \in [Parts -> [Peer -> Seq(SUBSET Blocks)]] /\ Asks
  BY <1>1, NetTail, Zenon
<1>3. /\ idle' = idle \/ idle' = [idle EXCEPT ![k] = @ \cup {p}]
      /\ loop' = loop \/ loop' = [loop EXCEPT ![k].pc = "off"]
  <2>1. CASE p \notin peers BY <2>1 DEF Deliver
  <2>2. CASE p \in peers
    <3>1. Delivered(k, p, r, junk) BY <2>2 DEF Deliver
    <3> DEFINE request == pendPool[k][p]
               accepted == Accepted(request, Smallest(Head(net[k][p]), r))
               failure == Cardinality(accepted) < Least(r + junk, Cardinality(request))
               cond == failure /\ accepted = {}
    <3>2. idle' = [idle EXCEPT ![k] = IF cond THEN @ ELSE @ \cup {p}]
      BY <3>1, Zenon DEF Delivered
    <3>3. loop' = loop \/ loop' = [loop EXCEPT ![k].pc = "off"]
      BY <3>1, Zenon DEF Delivered
    <3> HIDE DEF cond
    <3>4. idle' = idle \/ idle' = [idle EXCEPT ![k] = @ \cup {p}]
      BY <3>2, Zenon DEF Reservable
    <3> QED BY <3>3, <3>4
  <2> QED BY <2>1, <2>2
<1>4. idle' \in [Parts -> SUBSET Peer] /\ \A j \in Parts : idle[j] \subseteq idle'[j]
  <2>0. idle \in [Parts -> SUBSET Peer] BY DEF Reservable
  <2>1. CASE idle' = idle BY <2>0, <2>1
  <2>2. CASE idle' = [idle EXCEPT ![k] = @ \cup {p}] BY <2>0, <2>2
  <2> QED BY <1>3, <2>1, <2>2
<1>5. loop' \in [Parts -> LoopState] /\ \A j \in Parts : /\ loop'[j].idles = loop[j].idles
                                                        /\ loop'[j].ghosts = loop[j].ghosts
  <2>1. CASE loop' = loop BY <2>1 DEF Reservable
  <2>2. CASE loop' = [loop EXCEPT ![k].pc = "off"]
    <3> DEFINE l == [loop[k] EXCEPT !.pc = "off"]
    <3>1. loop' = [loop EXCEPT ![k] = l] BY <2>2 DEF Reservable
    <3>2. l \in LoopState /\ l.idles = loop[k].idles /\ l.ghosts = loop[k].ghosts
      <4> loop[k] \in LoopState BY DEF Reservable
      <4> QED BY DEF LoopState
    <3> HIDE DEF l
    <3> QED BY <3>1, <3>2 DEF Reservable
  <2> QED BY <1>3, <2>1, <2>2
<1>6. ASSUME NEW j \in Parts PROVE loop'[j].idles \ loop'[j].ghosts \subseteq idle'[j]
  <2>1. loop[j].idles \ loop[j].ghosts \subseteq idle[j] BY DEF Reservable
  <2> QED BY <1>4, <1>5, <2>1
<1> QED BY <1>1, <1>2, <1>4, <1>5, <1>6, Zenon DEF Reservable

LEMMA ReservableInit == Init => Reservable
<1> SUFFICES ASSUME Init PROVE Reservable
  OBVIOUS
<1>1. Loop("select", {}) \in LoopState /\ Loop("select", {}).idles = {}
  BY DEF Loop, LoopState
<1>2. <<>> \in Seq(SUBSET Blocks) OBVIOUS
<1>3. net \in [Parts -> [Peer -> Seq(SUBSET Blocks)]] BY <1>2 DEF Init
<1> QED BY <1>1, <1>3 DEF Init, Reservable

\* No step asks a peer that is not idle, and every one keeps the list of the peers to
\* try right.
LEMMA ReservableStep == IInv /\ Reservable /\ [Next]_vars => Reservable' /\ Asks
<1> SUFFICES ASSUME IInv, Reservable, [Next]_vars PROVE Reservable' /\ Asks
  OBVIOUS
<1> USE DEF importing, cache, session, connections
<1>frame. ASSUME UNCHANGED <<loop, idle, net, peers>> PROVE Reservable' /\ Asks
  <2>1. Reservable' BY <1>frame DEF Reservable
  <2> QED BY <1>frame, <2>1, NetSame
<1>1. ASSUME NEW n \in 1..N, NEW good \in 0..N, Schedule(n, good) PROVE Reservable' /\ Asks
  BY <1>1, <1>frame DEF Schedule
<1>2. ASSUME NEW n \in 0..N, Import(n) PROVE Reservable' /\ Asks
  BY <1>2, <1>frame DEF Import
<1>3. CASE Sleep \/ Results \/ Close
  BY <1>3, <1>frame, Zenon DEF Sleep, Results, Close
<1>4. CASE Finish
  <2>1. UNCHANGED <<idle, net, peers>> BY <1>4 DEF Finish
  <2>2. CASE loop' = loop BY <2>1, <2>2, <1>frame
  <2>3. CASE loop' = [k \in Parts |-> [loop[k] EXCEPT !.finished = TRUE]]
    <3>1. ASSUME NEW k \in Parts
          PROVE  /\ loop'[k] \in LoopState /\ loop'[k].idles = loop[k].idles
                 /\ loop'[k].ghosts = loop[k].ghosts
      <4>1. loop'[k] = [loop[k] EXCEPT !.finished = TRUE] BY <2>3
      <4>2. loop[k] \in LoopState BY DEF Reservable
      <4> QED BY <4>1, <4>2, Zenon DEF LoopState
    <3>2. loop' \in [Parts -> LoopState] BY <2>3, <3>1
    <3>3. ASSUME NEW k \in Parts PROVE loop'[k].idles \ loop'[k].ghosts \subseteq idle'[k]
      <4>1. loop[k].idles \ loop[k].ghosts \subseteq idle[k] BY DEF Reservable
      <4> QED BY <2>1, <3>1, <4>1
    <3>4. Reservable' BY <2>1, <3>2, <3>3 DEF Reservable
    <3> QED BY <2>1, <3>4, NetSame
  <2> QED BY <1>4, <2>2, <2>3 DEF Finish
<1>5. ASSUME NEW k \in Parts, Exit(k) PROVE Reservable' /\ Asks
  <2> DEFINE l == [loop[k] EXCEPT !.pc = "off"]
  <2>1. idle' = idle /\ net' = net /\ peers' = peers /\ loop' = [loop EXCEPT ![k] = l]
    BY <1>5 DEF Exit, Reservable
  <2>2. l \in LoopState /\ l.idles = loop[k].idles /\ l.ghosts = loop[k].ghosts
    <3> loop[k] \in LoopState BY DEF Reservable
    <3> QED BY DEF LoopState
  <2> HIDE DEF l
  <2> QED BY <2>1, <2>2, LoopPatch, Zenon
<1>6. ASSUME NEW k \in Parts, EndUpdate(k) PROVE Reservable' /\ Asks
  <2>1. UNCHANGED <<idle, net, peers>> BY <1>6 DEF EndUpdate
  <2>2. PICK pc \in {"off", "select"} :
          loop' = [loop EXCEPT ![k] = [Loop(pc, {}) EXCEPT !.finished = loop[k].finished]]
    BY <1>6, Zenon DEF EndUpdate
  <2> DEFINE l == [Loop(pc, {}) EXCEPT !.finished = loop[k].finished]
  <2>3. l \in LoopState /\ l.idles = {}
    <3>1. loop[k].finished \in BOOLEAN BY DEF Reservable, LoopState
    <3>2. Loop(pc, {}) \in LoopState /\ Loop(pc, {}).idles = {} BY DEF Loop, LoopState
    <3> QED BY <3>1, <3>2 DEF LoopState
  <2> HIDE DEF l
  <2>4. loop' = [loop EXCEPT ![k] = l] BY <2>2 DEF l
  <2>5. loop' \in [Parts -> LoopState] /\ loop'[k] = l /\ \A j \in Parts \ {k} : loop'[j] = loop[j]
    BY <2>3, <2>4, Zenon DEF Reservable
  <2>6. ASSUME NEW j \in Parts PROVE loop'[j].idles \ loop'[j].ghosts \subseteq idle'[j]
    <3>1. loop[j].idles \ loop[j].ghosts \subseteq idle[j] BY DEF Reservable
    <3> QED BY <2>1, <2>3, <2>5, <3>1
  <2>7. Reservable' BY <2>1, <2>5, <2>6 DEF Reservable
  <2> QED BY <2>1, <2>7, NetSame
<1>7. ASSUME NEW k \in Parts, NEW expired \in SUBSET Peer, Update(k, expired) PROVE Reservable' /\ Asks
  BY <1>7, ReservableUpdate
<1>8. ASSUME NEW k \in Parts, NEW p \in Peer, Content(k, p) PROVE Reservable' /\ Asks
  <2>1. ASSUME NEW c \in Capacity, Reserve(k, p, c) PROVE Reservable' /\ Asks
    BY <2>1, ReservableReserve
  <2>2. ASSUME NEW r \in 0..N, NEW junk \in {0, 1}, Deliver(k, p, r, junk) PROVE Reservable' /\ Asks
    BY <2>2, ReservableDeliver
  <2>3. CASE Lose(k, p)
    <3>1. net[k][p] # <<>> /\ net' = [net EXCEPT ![k][p] = Tail(@)] /\ UNCHANGED <<loop, idle, peers>>
      BY <2>3 DEF Lose
    <3>2. net' \in [Parts -> [Peer -> Seq(SUBSET Blocks)]] /\ Asks BY <3>1, NetTail, Zenon
    <3>3. Reservable' BY <3>1, <3>2, Zenon DEF Reservable
    <3> QED BY <3>2, <3>3
  <2> QED BY <1>8, <2>1, <2>2, <2>3 DEF Content
<1>9. ASSUME NEW p \in Peer, UnregisterPeer(p) PROVE Reservable' /\ Asks
  <2>1. PICK kept \in {0, 1} :
          net' = [j \in Parts |-> [q \in Peer |->
                   IF q \in {p} /\ Len(net[j][q]) > kept THEN SubSeq(net[j][q], 1, kept) ELSE net[j][q]]]
    BY <1>9, Zenon DEF UnregisterPeer, Drop
  <2>2. net' \in [Parts -> [Peer -> Seq(SUBSET Blocks)]] /\ Asks
    BY <2>1, NetCut, Zenon
  <2>3. idle' = idle /\ peers' = peers \ {p} /\ loop' = Haunted("", {p})
    BY <1>9, Zenon DEF UnregisterPeer, Drop
  <2>4. ASSUME NEW j \in Parts
        PROVE  loop'[j] \in LoopState /\ loop'[j].idles \ loop'[j].ghosts \subseteq idle'[j]
    <3>1. loop'[j] = [loop[j] EXCEPT !.ghosts = IF j = "" THEN {} ELSE @ \cup ({p} \cap loop[j].idles)]
      BY <2>3, Zenon DEF Haunted
    <3>2. j # "" BY PartNames, Zenon
    <3>3. loop'[j] = Haunted("", {p})[j] BY <2>3, Zenon
    <3>4. loop[j].idles \ loop[j].ghosts \subseteq idle[j] BY DEF Reservable
    <3> QED BY <2>3, <3>2, <3>3, <3>4, Haunting, Zenon
  <2>5. loop' = [j \in Parts |-> loop'[j]] BY <2>3, Zenon DEF Haunted
  <2>6. loop' \in [Parts -> LoopState] BY <2>4, <2>5
  <2>7. peers' \in SUBSET Peer BY <2>3, Zenon DEF Reservable
  <2>8. idle' \in [Parts -> SUBSET Peer] BY <2>3, Zenon DEF Reservable
  <2> QED BY <2>2, <2>4, <2>6, <2>7, <2>8 DEF Reservable
<1>10. ASSUME NEW p \in Peer, RegisterPeer(p) PROVE Reservable' /\ Asks
  <2>1. /\ loop' = loop /\ net' = net /\ peers' = peers \cup {p} /\ idle' = [k \in Parts |-> idle[k] \cup {p}]
    BY <1>10 DEF RegisterPeer
  <2>2. Reservable' BY <2>1 DEF Reservable
  <2> QED BY <2>1, <2>2, NetSame
<1>11. ASSUME NEW p \in Peer, Synchronise(p) PROVE Reservable' /\ Asks
  <2>1. /\ loop' = [k \in Parts |-> Loop("select", {})] /\ idle' = [k \in Parts |-> peers]
        /\ net' = net /\ peers' = peers
    BY <1>11, Zenon DEF Synchronise
  <2>2. Loop("select", {}) \in LoopState /\ Loop("select", {}).idles = {}
    BY DEF Loop, LoopState
  <2>3. Reservable' BY <2>1, <2>2, Zenon DEF Reservable
  <2> QED BY <2>1, <2>3, NetSame
<1>12. CASE UNCHANGED vars
  BY <1>12, <1>frame DEF vars
<1> QED BY <1>1, <1>2, <1>3, <1>4, <1>5, <1>6, <1>7, <1>8, <1>9, <1>10, <1>11, <1>12 DEF Next

\* No request is sent to a peer that has one open: fetchParts' panic, "the internal
\* state of the downloader and the queue is very wrong", is never reached.
THEOREM NeverFetchesTwice == Spec => NoDoubleFetch
<1>1. IInv /\ Reservable /\ [Next]_vars
        => [\A k \in Parts, p \in Peer : Len(net'[k][p]) > Len(net[k][p]) => p \in idle[k]]_vars
  BY ReservableStep DEF Asks
<1> QED BY InitInv, NextInv, ReservableInit, ReservableStep, <1>1, PTL DEF Spec, NoDoubleFetch

=============================================================================
