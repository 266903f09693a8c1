---------------------------- MODULE DownloadQueue ----------------------------
(***************************************************************************)
(* The content half of a synchronisation (eth/downloader): the queue of    *)
(* queue.go, the fetchParts loops of downloader.go that reserve its tasks  *)
(* for peers and deliver what they answer, the goroutine that schedules    *)
(* headers, the one that imports results, and the peers.  A block is its   *)
(* number.  The peers answer in order, late, in part or wrongly.           *)
(***************************************************************************)
EXTENDS Integers, Sequences, FiniteSets

CONSTANTS
  Peer,
  N,                 \* the length of the chain of the peers
  Parts,             \* "body", and "receipt" in fast sync
  Noop,              \* for each part, the blocks in which it is empty
  blockCacheItems, maxResultsProcess, maxQueuedHeaders,
  minFails,          \* a peer whose expired request is not longer is dropped
  Capacity,          \* the numbers of items that a peer may be asked for
  MaxFaults          \* bound: requests that expire, answers that are lost or wrong,
                     \* peers that disconnect, and synchronisations after the first

ASSUME QueueConstants ==
  /\ {N, MaxFaults, minFails} \subseteq Nat
  /\ {blockCacheItems, maxResultsProcess, maxQueuedHeaders} \subseteq Nat \ {0}
  /\ Capacity \subseteq Nat \ {0} /\ IsFiniteSet(Peer) /\ Peer # {} /\ IsFiniteSet(Parts)
  /\ Noop \in [Parts -> SUBSET (1..N)]

\* The empty string stands for no part.
ASSUME PartNames == "" \notin Parts

VARIABLES
  scheduled,         \* the highest block whose header was scheduled
  scheduling,        \* whether the goroutine that schedules headers runs
  taskPool,          \* for each part, the blocks that still need it
  taskQueue,         \* of these, the ones that no peer was asked for
  pendPool,          \* what a peer was asked for
  donePool,          \* the blocks in the cache that have the part
  resultCache,       \* for each block in the cache, what it has and how much it lacks
  resultOffset,      \* the first block of the cache
  limit,             \* how much of the cache the memory allows
  closed,
  consumer,          \* the goroutine that imports: "take", "asleep", "import", "off"
  taken,             \* the results it is importing
  imported,
  loop,              \* the state of the fetchParts loop of a part
  peers,             \* the registered peers
  idle,              \* the peers that a loop may use
  lacking,           \* the blocks a peer is known not to have
  cancelPeer,        \* the peer the synchronisation depends on
  net,               \* the requests a peer has yet to answer
  err,               \* why the synchronisation is being cancelled
  faults             \* how many more of them may happen

tasks == <<taskPool, taskQueue, pendPool, donePool>>
cache == <<resultCache, resultOffset, limit>>
importing == <<consumer, taken, imported>>
connections == <<peers, idle, lacking, net>>
session == <<scheduled, scheduling, closed, cancelPeer, err>>
vars == <<tasks, cache, importing, loop, connections, session, faults>>

Blocks == 1..N
InWindow(n) == n - resultOffset \in 0..(blockCacheItems - 1)
Least(m, n) == IF m < n THEN m ELSE n
Smallest(S, c) == {n \in S : Cardinality({m \in S : m < n}) < c}

Loop(pc, idles) == [pc |-> pc, idles |-> idles, ghosts |-> {}, progressed |-> FALSE, throttled |-> FALSE,
                    running |-> FALSE, all |-> FALSE, finished |-> FALSE]

\* The first synchronisation is with any one of the peers, which are all alike.
Init ==
  /\ scheduled = 0 /\ scheduling = TRUE /\ taskPool = [k \in Parts |-> {}] /\ taskQueue = [k \in Parts |-> {}]
  /\ pendPool = [k \in Parts |-> [p \in Peer |-> {}]] /\ donePool = [k \in Parts |-> {}]
  /\ resultCache = <<>> /\ resultOffset = 1 /\ limit = blockCacheItems
  /\ closed = FALSE /\ consumer = "take" /\ taken = <<>> /\ imported = <<>>
  /\ loop = [k \in Parts |-> Loop("select", {})]
  /\ peers = Peer /\ idle = [k \in Parts |-> Peer] /\ lacking = [p \in Peer |-> {}]
  /\ cancelPeer = (CHOOSE p \in Peer : TRUE) /\ net = [k \in Parts |-> [p \in Peer |-> <<>>]]
  /\ err = "none"
  /\ faults = MaxFaults

-----------------------------------------------------------------------------
(* Scheduling headers and handing out results.                             *)

\* processHeaders schedules a chunk of n headers, of which only the first ones
\* continue the chain if the master peer sent bad ones.
Schedule(n, good) ==
  /\ scheduling /\ good <= n /\ n <= N - scheduled
  /\ \A k \in Parts : Cardinality(taskQueue[k]) < maxQueuedHeaders
  /\ LET new == (scheduled + 1)..(scheduled + good)
     IN  /\ taskPool' = [k \in Parts |-> taskPool[k] \cup new]
         /\ taskQueue' = [k \in Parts |-> taskQueue[k] \cup new]
  /\ scheduled' = scheduled + good
  /\ scheduling' = (good = n)
  /\ err' = IF err = "none" /\ good < n THEN "peer" ELSE err
  /\ UNCHANGED <<pendPool, donePool, cache, importing, loop, connections, closed, cancelPeer, faults>>

\* After the last header, processHeaders tells the loops and returns.  Cancelled, it
\* returns without.
Finish ==
  /\ scheduling /\ scheduling' = FALSE
  /\ \/ scheduled = N /\ loop' = [k \in Parts |-> [loop[k] EXCEPT !.finished = TRUE]]
     \/ closed /\ UNCHANGED loop
  /\ UNCHANGED <<tasks, cache, importing, connections, scheduled, closed, cancelPeer, err, faults>>

\* Mutant of countProcessableItems: what is being downloaded is handed out.
countStartedItems ==
  Cardinality({n \in resultOffset..N : resultOffset..n \subseteq DOMAIN resultCache})

\* countProcessableItems.
countProcessableItems ==
  LET ready(n) == n \in DOMAIN resultCache /\ resultCache[n].pending <= 0
  IN  Cardinality({n \in resultOffset..N : \A m \in resultOffset..n : InWindow(m) /\ ready(m)})

\* Mutant of Signal: the importer is not woken.
SignalNobody(news) == UNCHANGED consumer

\* The importer is woken if there is news.
Signal(news) == consumer' = IF consumer = "asleep" /\ news THEN "take" ELSE consumer

\* Results finds nothing and waits for a signal.
Sleep ==
  /\ consumer = "take" /\ countProcessableItems = 0 /\ ~closed
  /\ consumer' = "asleep"
  /\ UNCHANGED <<tasks, cache, taken, imported, loop, connections, session, faults>>

\* Results takes a batch off the cache.  The size of its blocks changes how much
\* of the cache the memory allows.  An empty batch ends the goroutine.
Results ==
  /\ consumer = "take" /\ (countProcessableItems > 0 \/ closed)
  /\ LET nproc   == Least(countProcessableItems, maxResultsProcess)
         results == resultOffset..(resultOffset + nproc - 1)
     IN  /\ taken' = [i \in 1..nproc |-> [number |-> resultOffset + i - 1,
                                          parts  |-> resultCache[resultOffset + i - 1].has]]
         /\ consumer' = IF nproc = 0 THEN "off" ELSE "import"
         /\ donePool' = [k \in Parts |-> donePool[k] \ results]
         /\ resultCache' = [n \in DOMAIN resultCache \ results |-> resultCache[n]]
         /\ resultOffset' = resultOffset + nproc
         /\ IF nproc = 0 THEN UNCHANGED limit ELSE limit' \in 1..blockCacheItems
  /\ UNCHANGED <<taskPool, taskQueue, pendPool, imported, loop, connections, session, faults>>

\* InsertChain accepts the first n of the blocks taken, and fails if n is less.
Import(n) ==
  /\ consumer = "import" /\ n <= Len(taken)
  /\ imported' = imported \o [i \in 1..n |-> taken[i]]
  /\ taken' = <<>>
  /\ IF n = Len(taken) THEN consumer' = "take" /\ UNCHANGED err
                       ELSE consumer' = "off" /\ err' = IF err = "none" THEN "import" ELSE err
  /\ UNCHANGED <<tasks, cache, loop, connections, scheduled, scheduling, closed, cancelPeer, faults>>

\* spawnSync closes the queue after an error, or when only the importer is left.
Close ==
  /\ ~closed /\ (err # "none" \/ (~scheduling /\ \A k \in Parts : loop[k].pc = "off"))
  /\ closed' = TRUE /\ Signal(TRUE)
  /\ UNCHANGED <<tasks, cache, taken, imported, loop, connections, scheduled, scheduling, cancelPeer, err, faults>>

-----------------------------------------------------------------------------
(* The loops of fetchParts.                                                *)

\* Mutant of resultSlots: what is being downloaded takes no slot.
resultSlotsFinished(k) ==
  limit - Cardinality({n \in donePool[k] : n < resultOffset + limit})

\* The slots of the cache left for requests of part k.  The count of finished ones
\* stops at the first slot never used.
resultSlots(k) ==
  LET reached(n) == n < resultOffset + limit /\ resultOffset..n \subseteq DOMAIN resultCache
      finished   == {n \in resultOffset..N : reached(n) /\ n \in donePool[k]}
      pending    == {q \in Peer \X Blocks : q[2] \in pendPool[k][q[1]] /\ q[2] < resultOffset + limit}
  IN  limit - Cardinality(finished) - Cardinality(pending)

\* Mutant of Returned: the tasks are forgotten with the request.
ReturnedForgotten(k, expired, gone) ==
  /\ UNCHANGED taskQueue
  /\ pendPool' = [j \in Parts |-> [p \in Peer |->
                    IF p \in gone \/ (j = k /\ p \in expired) THEN {} ELSE pendPool[j][p]]]

\* What is left in the pools when the peers in gone are unregistered, after the
\* requests of the peers in expired were returned to the queue of part k.
Returned(k, expired, gone) ==
  /\ taskQueue' = [j \in Parts |-> taskQueue[j] \cup
                     UNION {pendPool[j][p] : p \in gone \cup (IF j = k THEN expired ELSE {})}]
  /\ pendPool' = [j \in Parts |-> [p \in Peer |->
                    IF p \in gone \/ (j = k /\ p \in expired) THEN {} ELSE pendPool[j][p]]]

\* UnregisterPeer of the peers in gone, after expire.  Of each an answer may have
\* been received already; the loops may still try their connections.
Drop(k, expired, gone) ==
  /\ Returned(k, expired, gone)
  /\ peers' = peers \ gone
  /\ \E kept \in {0, 1} :
       net' = [j \in Parts |-> [p \in Peer |->
                 IF p \in gone /\ Len(net[j][p]) > kept THEN SubSeq(net[j][p], 1, kept) ELSE net[j][p]]]
  /\ err' = IF err = "none" /\ cancelPeer \in gone THEN "peer" ELSE err

\* The loops other than that of part k after gone were unregistered.
Haunted(k, gone) ==
  [j \in Parts |-> [loop[j] EXCEPT !.ghosts = IF j = k THEN {} ELSE @ \cup (gone \cap loop[j].idles)]]

\* Mutant of idlePeers: all of them.
anyPeers(registered, free) == registered

\* The peers that are tried in an update.
idlePeers(registered, free) == registered \cap free

\* An update: requests that expired are returned, their peers are idle again, or
\* dropped if they were asked for little.  With tasks left, the idle peers are
\* tried next; without any, the loop ends after the last header.
Update(k, expired) ==
  LET gone == {p \in expired \cap peers : Cardinality(pendPool[k][p]) <= minFails}
      late == Cardinality({p \in expired : net[k][p] # <<>>})
      free == (idle[k] \cup (expired \cap peers)) \ gone
      left == taskQueue'[k] # {}
      ends == ~left /\ loop[k].finished /\ \A p \in Peer : pendPool'[k][p] = {}
  IN  /\ loop[k].pc = "select" /\ peers # {}
      /\ \A p \in expired : pendPool[k][p] # {}
      /\ late <= faults /\ faults' = faults - late
      /\ Drop(k, expired, gone)
      /\ idle' = [idle EXCEPT ![k] = free]
      /\ loop' = [Haunted(k, gone) EXCEPT ![k] =
                    [Loop(IF left THEN "reserve" ELSE IF ends THEN "off" ELSE "select",
                          IF left THEN idlePeers(peers', free) ELSE {})
                     EXCEPT !.finished = loop[k].finished,
                            !.running  = left /\ \E p \in Peer : pendPool'[k][p] # {},
                            !.all      = left /\ peers' \subseteq free]]
      /\ UNCHANGED <<taskPool, donePool, cache, importing, lacking, scheduled, scheduling, closed, cancelPeer>>

\* A loop that has lost all peers, or finds the synchronisation cancelled, returns.
Exit(k) ==
  /\ loop[k].pc = "select" /\ (closed \/ peers = {})
  /\ loop' = [loop EXCEPT ![k].pc = "off"]
  /\ err' = IF err = "none" THEN "peer" ELSE err
  /\ UNCHANGED <<tasks, cache, importing, connections, scheduled, scheduling, closed, cancelPeer, faults>>

\* The tasks that reserveHeaders takes off the queue for peer p and c items: in
\* order, as long as there are slots and the request is not full.
Popped(k, p, c) ==
  LET sent(m) == m \notin Noop[k] /\ m \notin lacking[p]
  IN  {n \in Smallest(taskQueue[k], resultSlots(k)) :
         Cardinality({m \in taskQueue[k] : m < n /\ sent(m)}) < c}

\* The result of block n, created if it is asked for first, and one that got part k.
Slot(n) ==
  IF n \in DOMAIN resultCache THEN resultCache[n] ELSE [pending |-> Cardinality(Parts), has |-> {}]
Completed(slot, k) == [pending |-> slot.pending - 1, has |-> slot.has \cup {k}]

\* reserveHeaders and the request: empty parts are done at once, what the peer
\* lacks stays in the queue, and the peer is asked for the rest.
Reserved(k, p, popped) ==
  LET noop == popped \cap Noop[k]
      send == (popped \ noop) \ lacking[p]
  IN  /\ resultCache' = [n \in DOMAIN resultCache \cup popped |->
                            IF n \in noop THEN Completed(Slot(n), k) ELSE Slot(n)]
      /\ donePool' = [donePool EXCEPT ![k] = @ \cup noop]
      /\ taskPool' = [taskPool EXCEPT ![k] = @ \ noop]
      /\ taskQueue' = [taskQueue EXCEPT ![k] = @ \ (noop \cup send)]
      /\ Signal(noop # {})
      /\ pendPool' = [pendPool EXCEPT ![k][p] = send]
      /\ IF send = {} \/ p \in loop[k].ghosts THEN UNCHANGED <<idle, net>>
         ELSE /\ idle' = [idle EXCEPT ![k] = @ \ {p}]
              /\ net' = [net EXCEPT ![k][p] = Append(@, send)]
      /\ loop' = [loop EXCEPT ![k].idles = @ \ {p},
                              ![k].progressed = @ \/ noop # {},
                              ![k].running = @ \/ send # {}]

\* The next of the idle peers is tried.
Reserve(k, p, c) ==
  /\ loop[k].pc = "reserve" /\ p \in loop[k].idles
  /\ UNCHANGED <<resultOffset, limit, taken, imported, peers, lacking, scheduled, scheduling, closed, cancelPeer, faults>>
  /\ \/ /\ resultSlots(k) <= 0
        /\ loop' = [loop EXCEPT ![k].throttled = TRUE, ![k].idles = {}]
        /\ UNCHANGED <<tasks, resultCache, consumer, idle, net, err>>
     \/ /\ resultSlots(k) > 0 /\ taskQueue[k] = {}
        /\ loop' = [loop EXCEPT ![k].idles = {}]
        /\ UNCHANGED <<tasks, resultCache, consumer, idle, net, err>>
     \/ /\ resultSlots(k) > 0 /\ taskQueue[k] # {} /\ pendPool[k][p] # {}
        /\ loop' = [loop EXCEPT ![k].idles = @ \ {p}]
        /\ UNCHANGED <<tasks, resultCache, consumer, idle, net, err>>
     \/ /\ resultSlots(k) > 0 /\ taskQueue[k] # {} /\ pendPool[k][p] = {}
        /\ IF \A n \in Popped(k, p, c) : InWindow(n)
           THEN Reserved(k, p, Popped(k, p, c)) /\ UNCHANGED err
           ELSE /\ loop' = [loop EXCEPT ![k].pc = "off"] /\ err' = "invalid"
                /\ UNCHANGED <<tasks, resultCache, consumer, idle, net>>

\* All idle peers were tried.  It is an error that none of the connected peers can
\* be asked for what is left.
EndUpdate(k) ==
  /\ loop[k].pc = "reserve" /\ loop[k].idles = {}
  /\ LET useless == /\ ~loop[k].progressed /\ ~loop[k].throttled /\ ~loop[k].running
                    /\ loop[k].all /\ taskQueue[k] # {}
     IN  /\ loop' = [loop EXCEPT ![k] = [Loop(IF useless THEN "off" ELSE "select", {})
                                         EXCEPT !.finished = loop[k].finished]]
         /\ err' = IF err = "none" /\ useless THEN "peer" ELSE err
  /\ UNCHANGED <<tasks, cache, importing, connections, scheduled, scheduling, closed, cancelPeer, faults>>

-----------------------------------------------------------------------------
(* The peers.                                                              *)

\* The blocks of a request that an answer completes: the items are compared with
\* the request one by one up to the first that differs.
Accepted(request, reply) ==
  {n \in request \cap reply : \A m \in 1..n : m \in request <=> m \in reply}

\* deliver: peer p's answer has the first r items of the oldest request, and a
\* wrong one more if junk is 1.  It is matched with what p was asked for last.
Delivered(k, p, r, junk) ==
  LET request  == pendPool[k][p]
      accepted == Accepted(request, Smallest(Head(net[k][p]), r))
      compared == Least(r + junk, Cardinality(request))
      failure  == Cardinality(accepted) < compared
      invalid  == \E n \in Smallest(request, Least(compared, Cardinality(accepted) + 1)) :
                     ~InWindow(n) \/ n \notin DOMAIN resultCache
  IN  /\ pendPool' = [pendPool EXCEPT ![k][p] = {}]
      /\ taskPool' = [taskPool EXCEPT ![k] = @ \ accepted]
      /\ taskQueue' = [taskQueue EXCEPT ![k] = @ \cup (request \ accepted)]
      /\ donePool' = [donePool EXCEPT ![k] = @ \cup accepted]
      /\ resultCache' = [n \in DOMAIN resultCache |->
                            IF n \in accepted THEN Completed(resultCache[n], k) ELSE resultCache[n]]
      /\ Signal(accepted # {})
      /\ lacking' = [lacking EXCEPT ![p] = IF r + junk = 0 THEN @ \cup request ELSE @]
      /\ idle' = [idle EXCEPT ![k] = IF failure /\ accepted = {} THEN @ ELSE @ \cup {p}]
      /\ IF invalid THEN err' = "invalid" /\ loop' = [loop EXCEPT ![k].pc = "off"]
                    ELSE UNCHANGED <<err, loop>>

\* A loop receives an answer.  One of a peer that left is ignored.
Deliver(k, p, r, junk) ==
  /\ loop[k].pc = "select" /\ net[k][p] # <<>>
  /\ r <= Cardinality(Head(net[k][p]))
  /\ junk <= faults /\ faults' = faults - junk
  /\ net' = [net EXCEPT ![k][p] = Tail(@)]
  /\ IF p \in peers THEN Delivered(k, p, r, junk)
     ELSE UNCHANGED <<tasks, resultCache, consumer, lacking, idle, err, loop>>
  /\ UNCHANGED <<resultOffset, limit, taken, imported, peers, scheduled, scheduling, closed, cancelPeer>>

\* A request or its answer is lost.
Lose(k, p) ==
  /\ net[k][p] # <<>> /\ faults > 0 /\ faults' = faults - 1
  /\ net' = [net EXCEPT ![k][p] = Tail(@)]
  /\ UNCHANGED <<tasks, cache, importing, loop, peers, idle, lacking, session>>

\* A peer disconnects.
UnregisterPeer(p) ==
  /\ p \in peers /\ faults > 0 /\ faults' = faults - 1
  /\ Drop("", {}, {p})
  /\ loop' = Haunted("", {p})
  /\ UNCHANGED <<taskPool, donePool, cache, importing, idle, lacking, scheduled, scheduling, closed, cancelPeer>>

\* It comes back with a new connection.
RegisterPeer(p) ==
  /\ p \notin peers /\ peers' = peers \cup {p}
  /\ idle' = [k \in Parts |-> idle[k] \cup {p}]
  /\ lacking' = [lacking EXCEPT ![p] = {}]
  /\ UNCHANGED <<tasks, cache, importing, loop, net, session, faults>>

\* The block that the download starts at: the one after the common ancestor.
Origin == Len(imported) + 1

\* synchronise: the queue and the peers are reset and the download starts at the
\* block after the common ancestor.  Answers to earlier requests may still come.
Synchronise(p) ==
  /\ closed /\ ~scheduling /\ consumer = "off" /\ \A k \in Parts : loop[k].pc = "off"
  /\ p \in peers /\ faults > 0 /\ faults' = faults - 1
  /\ taskPool' = [k \in Parts |-> {}] /\ taskQueue' = [k \in Parts |-> {}]
  /\ pendPool' = [k \in Parts |-> [q \in Peer |-> {}]] /\ donePool' = [k \in Parts |-> {}]
  /\ resultCache' = <<>>
  /\ resultOffset' = Origin /\ scheduled' = Origin - 1 /\ scheduling' = TRUE
  /\ closed' = FALSE /\ consumer' = "take" /\ loop' = [k \in Parts |-> Loop("select", {})]
  /\ idle' = [k \in Parts |-> peers] /\ lacking' = [q \in Peer |-> {}]
  /\ cancelPeer' = p /\ err' = "none"
  /\ UNCHANGED <<limit, taken, imported, peers, net>>

-----------------------------------------------------------------------------
Content(k, p) ==
  \/ \E c \in Capacity : Reserve(k, p, c)
  \/ \E r \in 0..N, junk \in {0, 1} : Deliver(k, p, r, junk)
  \/ Lose(k, p)

Next ==
  \/ \E n \in 1..N, good \in 0..N : Schedule(n, good)
  \/ \E n \in 0..N : Import(n)
  \/ Finish \/ Sleep \/ Results \/ Close
  \/ \E k \in Parts : Exit(k) \/ EndUpdate(k)
  \/ \E k \in Parts, expired \in SUBSET Peer : Update(k, expired)
  \/ \E k \in Parts, p \in Peer : Content(k, p)
  \/ \E p \in Peer : UnregisterPeer(p) \/ RegisterPeer(p) \/ Synchronise(p)

Spec == Init /\ [][Next]_vars

\* The goroutines run, and select passes none of the ready cases over for ever; so
\* the headers come, requests are answered, and those that will not be expire.
Fairness ==
  /\ WF_vars((\E n \in 1..N, good \in 0..N : Schedule(n, good)) \/ Finish)
  /\ WF_vars(Sleep \/ Results \/ (\E n \in 0..N : Import(n)))
  /\ WF_vars(Close)
  /\ \A k \in Parts :
       /\ WF_vars(EndUpdate(k) \/ \E p \in Peer, c \in Capacity : Reserve(k, p, c))
       /\ SF_vars(Exit(k))
       /\ SF_vars(Update(k, {p \in Peer : pendPool[k][p] # {} /\ net[k][p] = <<>>}))
       /\ SF_vars(\E p \in peers, r \in 0..N : Deliver(k, p, r, 0))

FairSpec == Spec /\ Fairness

-----------------------------------------------------------------------------
(* Properties.                                                             *)

TypeOK ==
  /\ scheduled \in 0..N /\ resultOffset \in 1..(N + 1) /\ limit \in 1..blockCacheItems
  /\ {taskPool, taskQueue, donePool} \subseteq [Parts -> SUBSET Blocks]
  /\ pendPool \in [Parts -> [Peer -> SUBSET Blocks]]
  /\ DOMAIN resultCache \subseteq Blocks
  /\ \A n \in DOMAIN resultCache : resultCache[n] \in [pending : Int, has : SUBSET Parts]
  /\ {taken, imported} \subseteq Seq([number : Nat, parts : SUBSET Parts])
  /\ closed \in BOOLEAN /\ scheduling \in BOOLEAN /\ consumer \in {"take", "asleep", "import", "off"}
  /\ peers \subseteq Peer /\ idle \in [Parts -> SUBSET Peer] /\ lacking \in [Peer -> SUBSET Blocks]
  /\ cancelPeer \in Peer /\ err \in {"none", "peer", "import", "invalid"}

\* Between Schedule and Results every part of a block is in one place: in the task
\* queue, in the request to one peer, or done, whatever expires, is revoked or comes
\* late.  So no part is lost or fetched twice, and Pending counts the missing ones.
Conserved ==
  /\ \A k \in Parts :
       /\ taskPool[k] \cap donePool[k] = {}
       /\ taskPool[k] \cup donePool[k] = resultOffset..scheduled
       /\ taskPool[k] = taskQueue[k] \cup UNION {pendPool[k][p] : p \in Peer}
       /\ \A p \in Peer : taskQueue[k] \cap pendPool[k][p] = {}
       /\ \A p, q \in Peer : p # q => pendPool[k][p] \cap pendPool[k][q] = {}
       /\ donePool[k] \cup (taskPool[k] \ taskQueue[k]) \subseteq DOMAIN resultCache
  /\ \A n \in DOMAIN resultCache :
       /\ resultCache[n].pending = Cardinality({k \in Parts : n \in taskPool[k]})
       /\ resultCache[n].has = {k \in Parts : n \in donePool[k]}

\* "index allocation went beyond available resultCache space": the throttling by
\* resultSlots keeps every reserved and delivered block inside the cache, although
\* the memory limit moves and the slots are counted for each part separately.
InCache == err # "invalid"

\* fetchParts panics if a peer is asked while its previous request is open: that
\* "the internal state of the downloader and the queue is very wrong".
NoDoubleFetch ==
  [][\A k \in Parts, p \in Peer : Len(net'[k][p]) > Len(net[k][p]) => p \in idle[k]]_vars

\* A synchronisation hands the blocks to the chain in order, once and complete.
Ordered == INSTANCE OrderedSync WITH known <- scheduled, chain <- imported
Implements == Ordered!Spec

\* "If the delivery's stale, the peer should have already been idled": a peer is idle,
\* or it was asked for something, or an answer of it is still to come.
NoneStranded ==
  \A k \in Parts, p \in peers : p \in idle[k] \/ pendPool[k][p] # {} \/ net[k][p] # <<>>

\* As long as no peer is stranded, a synchronisation ends: all loops and the importer
\* return, so none of them waits for a signal, a slot or a peer for ever.
Ends ==
  []NoneStranded => []<>(consumer = "off" /\ \A k \in Parts : loop[k].pc = "off")

=============================================================================
