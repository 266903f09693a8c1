------------------------------- MODULE Fetcher -------------------------------
(***************************************************************************)
(* The block fetcher (eth/fetcher/fetcher.go): one loop that owns all      *)
(* tables, the goroutines that insert blocks, and the peers that announce, *)
(* propagate and answer.  Time is abstract: an announcement may be old     *)
(* enough, and a fetch may have expired, whenever the loop looks at it.    *)
(***************************************************************************)
EXTENDS Integers, Sequences, SequencesExt, FiniteSets, FiniteSetsExt

CONSTANTS
  Peer,
  Block,         \* the blocks, each standing for its hash, too
  Genesis,
  Parent,        \* the parent of every block but Genesis
  Number,
  Body,          \* the transactions and uncles of a block
  Empty,         \* the body without any
  Invalid,       \* blocks whose header verification fails
  hashLimit, blockLimit, maxUncleDist, maxQueueDist,
  MaxNotify,     \* bound: the number of announcements
  MaxPropagated, \* bound: the number of blocks propagated by peers
  Synced,        \* the blocks the downloader may import meanwhile
  None

ASSUME FetcherConstants ==
  /\ Genesis \in Block /\ Number[Genesis] = 0
  /\ \A b \in Block \ {Genesis} : Number[b] = Number[Parent[b]] + 1
  /\ IsFiniteSet(Block) /\ None \notin Peer /\ \A b \in Block : Number[b] \in Nat
  /\ {hashLimit, blockLimit, maxUncleDist, maxQueueDist, MaxNotify, MaxPropagated} \subseteq Nat

VARIABLES
  pc,            \* the loop is at its "top" or waits in "select"
  peers,         \* the connected peers
  announces,     \* number of outstanding announcements of a peer
  announced,     \* the announcements of a block, in order of arrival
  fetching,      \* the announcement whose header was asked for
  fetched,       \* announcements with a header, waiting for the body request
  completing,    \* the announcement whose body was asked for
  timer,         \* which of the timers "fetch" and "complete" are armed
  asked,         \* the blocks being completed whose announcer was asked for the body
  queue,         \* the blocks waiting for import
  queued,        \* the origin of a block that waits or is being imported
  queues,        \* number of such blocks of a peer
  inserting,     \* the stage of the goroutine that inserts a block
  chain,         \* the blocks of the local chain
  budget         \* announcements and propagations left

tables == <<announces, announced, fetching, fetched, completing>>
imports == <<queue, queued, queues>>
env == <<peers, chain, budget>>
vars == <<pc, tables, timer, asked, imports, inserting, env>>

Announce == [origin : Peer, number : Nat]

\* The current height.  The head is the highest block.
chainHeight == Max({Number[b] : b \in chain})
Known(b) == b \in chain
TooFar(b) == Number[b] - chainHeight \notin -maxUncleDist..maxQueueDist

Announced == {h \in Block : announced[h] # <<>>}
Fetching == {h \in Block : fetching[h] # None}
Fetched == {h \in Block : fetched[h] # <<>>}
Completing == {h \in Block : completing[h] # None}
Queued == {b \in Block : queued[b] # None}

\* The announcements of peer p that a table with a list, or with one announcement,
\* of each block holds for the blocks hs.
Listed(f, p, hs) == UNION {{h} \X {i \in DOMAIN f[h] : f[h][i].origin = p} : h \in hs}
Single(f, p, hs) == {h \in hs : f[h] # None /\ f[h].origin = p}

\* How many announcements of peer p the tables hold for the blocks hs.
Held(p, hs) ==
  Cardinality(Listed(announced, p, hs)) + Cardinality(Single(fetching, p, hs))
    + Cardinality(Listed(fetched, p, hs)) + Cardinality(Single(completing, p, hs))

\* The counters after forgetHash of every block in hs.  A counter that reaches
\* zero is deleted, which is the same as zero; a negative one stays.
Released(hs) == [p \in Peer |-> announces[p] - Held(p, hs)]

Without(f, hs, nothing) == [h \in Block |-> IF h \in hs THEN nothing ELSE f[h]]

\* forgetHash of every block in hs.
forgetHash(hs) ==
  /\ announces' = Released(hs)
  /\ announced' = Without(announced, hs, <<>>)
  /\ fetching' = Without(fetching, hs, None)
  /\ fetched' = Without(fetched, hs, <<>>)
  /\ completing' = Without(completing, hs, None)

\* Mutant of forgetBlock: the count of the peer is not released.
forgetBlockLeaks(bs) ==
  /\ queued' = Without(queued, bs, None)
  /\ UNCHANGED queues

\* forgetBlock of every block in bs.
forgetBlock(bs) ==
  /\ queues' = [p \in Peer |-> queues[p] - Cardinality({b \in bs : queued[b] = p})]
  /\ queued' = Without(queued, bs, None)

Init ==
  /\ pc = "top" /\ peers = Peer /\ chain = {Genesis}
  /\ announces = [p \in Peer |-> 0]
  /\ announced = [h \in Block |-> <<>>] /\ fetched = [h \in Block |-> <<>>]
  /\ fetching = [h \in Block |-> None] /\ completing = [h \in Block |-> None]
  /\ timer = {"fetch", "complete"} /\ asked = {}
  /\ queue = {} /\ queued = [b \in Block |-> None] /\ queues = [p \in Peer |-> 0]
  /\ inserting = [b \in Block |-> "no"]
  /\ budget = [notify |-> MaxNotify, propagate |-> MaxPropagated]

-----------------------------------------------------------------------------
(* The loop.                                                               *)

\* The top of an iteration: fetches that expired are forgotten, and the blocks
\* that fit are taken off the queue, which is ordered by number.
LoopTop ==
  /\ pc = "top" /\ pc' = "select"
  /\ \E expired \in SUBSET Fetching : forgetHash(expired)
  /\ LET due   == {b \in queue : Number[b] <= chainHeight + 1}
         stale == {b \in due : Number[b] + maxUncleDist < chainHeight \/ Known(b)}
     IN  /\ queue' = queue \ due
         /\ forgetBlock(stale)
         /\ inserting' = [b \in Block |-> IF b \in due \ stale THEN "verify" ELSE inserting[b]]
  /\ UNCHANGED <<timer, asked, env>>

Selected == pc = "select" /\ pc' = "top"

\* Mutant of notify: the timer is never armed again.
notifyUntimed(p, h, n) ==
  /\ announces' = [announces EXCEPT ![p] = @ + 1]
  /\ announced' = [announced EXCEPT ![h] = Append(@, [origin |-> p, number |-> n])]
  /\ UNCHANGED <<timer, fetching, fetched, completing>>

\* An announcement that passes the checks is scheduled.
notify(p, h, n) ==
  /\ announces' = [announces EXCEPT ![p] = @ + 1]
  /\ announced' = [announced EXCEPT ![h] = Append(@, [origin |-> p, number |-> n])]
  /\ timer' = IF Announced \subseteq {h} THEN timer \cup {"fetch"} ELSE timer
  /\ UNCHANGED <<fetching, fetched, completing>>

\* Peer p announces block h with a number, which is 0 in the old protocol.
Notify(p, h, n) ==
  /\ Selected /\ p \in peers /\ budget.notify > 0
  /\ budget' = [budget EXCEPT !.notify = @ - 1]
  /\ IF \/ announces[p] + 1 > hashLimit
        \/ n > 0 /\ n - chainHeight \notin -maxUncleDist..maxQueueDist
        \/ h \in Fetching \cup Completing
     THEN UNCHANGED <<tables, timer>>
     ELSE notify(p, h, n)
  /\ UNCHANGED <<asked, imports, inserting, peers, chain>>

\* enqueue of the blocks bs, all delivered by peer p, of which acc are accepted:
\* as many as the allowance of p admits.
enqueue(p, bs, acc) ==
  LET near == {b \in bs : ~TooFar(b) /\ b \notin Queued}
      room == IF queues[p] < blockLimit THEN blockLimit - queues[p] ELSE 0
  IN  /\ acc \subseteq near
      /\ Cardinality(acc) = IF Cardinality(near) < room THEN Cardinality(near) ELSE room
      /\ queue' = queue \cup acc
      /\ queued' = [b \in Block |-> IF b \in acc THEN p ELSE queued[b]]
      /\ queues' = [queues EXCEPT ![p] = @ + Cardinality(acc)]

\* The blocks of bs that enqueue does not accept and forgets.
Discarded(p, bs, acc) ==
  {b \in bs \ acc : TooFar(b) \/ b \notin Queued \/ queues[p] + 1 > blockLimit}

\* Peer p propagates the whole block b.
Enqueue(p, b) ==
  /\ Selected /\ p \in peers /\ budget.propagate > 0
  /\ budget' = [budget EXCEPT !.propagate = @ - 1]
  /\ \E acc \in SUBSET {b} : enqueue(p, {b}, acc) /\ forgetHash(Discarded(p, {b}, acc))
  /\ UNCHANGED <<timer, asked, inserting, peers, chain>>

\* Mutant of Done: the loop waits on without looking at the queue.
DoneWaits(b) ==
  /\ pc = "select" /\ pc' = "select" /\ inserting[b] = "done"
  /\ inserting' = [inserting EXCEPT ![b] = "no"]
  /\ forgetHash({b}) /\ forgetBlock({b})
  /\ UNCHANGED <<queue, timer, asked, env>>

\* A goroutine that inserted b, or failed to, is received from the channel done.
Done(b) ==
  /\ Selected /\ inserting[b] = "done"
  /\ inserting' = [inserting EXCEPT ![b] = "no"]
  /\ forgetHash({b}) /\ forgetBlock({b})
  /\ UNCHANGED <<queue, timer, asked, env>>

\* rescheduleFetch after the blocks hs were taken from announced.
rescheduleFetch(hs) ==
  timer' = IF Announced \ hs = {} THEN timer \ {"fetch"} ELSE timer

\* One announcement of each block in hs.
Picks(f, hs) ==
  {pick \in [hs -> UNION {ToSet(f[h]) : h \in hs}] : \A h \in hs : pick[h] \in ToSet(f[h])}

\* The fetch timer fires and finds the announcements of hs old enough (none after
\* a tick that Reset left in the channel): one announcer of each is asked for the
\* header, the others are forgotten.
FetchTimer(hs) ==
  /\ Selected /\ "fetch" \in timer
  /\ rescheduleFetch(hs)
  /\ announces' = Released(hs)
  /\ announced' = Without(announced, hs, <<>>)
  /\ fetched' = Without(fetched, hs, <<>>)
  /\ completing' = Without(completing, hs, None)
  /\ \E pick \in Picks(announced, hs) :
       fetching' = [h \in Block |-> IF h \notin hs THEN fetching[h]
                                    ELSE IF Known(h) THEN None ELSE pick[h]]
  /\ UNCHANGED <<asked, imports, inserting, env>>

\* Which of the blocks the goroutines of a round of body requests ask their peers
\* for.  They share the loop variable hashes: each reads the list of its own
\* iteration or of a later one, so that only the last is sure to ask for its own.
BodyRequests(origin) ==
  LET asks == {origin[h] : h \in DOMAIN origin}
  IN  {{h \in DOMAIN origin : origin[h] \in right} : right \in {r \in SUBSET asks : r = {} => asks = {}}}

\* The complete timer fires: the body of every fetched block is asked for.
CompleteTimer ==
  /\ Selected /\ "complete" \in timer
  /\ timer' = timer \ {"complete"}
  /\ announces' = Released(Fetched)
  /\ announced' = Without(announced, Fetched, <<>>)
  /\ fetching' = Without(fetching, Fetched, None)
  /\ fetched' = [h \in Block |-> <<>>]
  /\ \E pick \in Picks(fetched, Fetched) :
       /\ completing' = [h \in Block |-> IF h \notin Fetched THEN completing[h]
                                         ELSE IF Known(h) THEN None ELSE pick[h]]
       /\ \E sent \in BodyRequests([h \in Fetched \ chain |-> pick[h].origin]) :
            asked' = ((asked \cap Completing) \ Fetched) \cup sent
  /\ UNCHANGED <<imports, inserting, env>>

\* forgetHash of block h, whose announcement is in completing, too.
forgetHeader(h) ==
  /\ announces' = [Released({h}) EXCEPT ![fetching[h].origin] = @ - 1]
  /\ announced' = Without(announced, {h}, <<>>)
  /\ fetching' = Without(fetching, {h}, None)
  /\ UNCHANGED <<fetched, completing>>

\* A header that the fetcher asked peer p for, and has no use for otherwise.
Requested(p, h) ==
  /\ fetching[h] # None /\ fetching[h].origin = p
  /\ fetched[h] = <<>> /\ completing[h] = None /\ queued[h] = None

\* rescheduleComplete, if h is the only block that waits for its body.
ArmComplete(h) == timer' = IF Fetched \subseteq {h} THEN timer \cup {"complete"} ELSE timer

\* Peer p delivers the header of h.  One that was not asked for goes elsewhere.
FilterHeaders(p, h) ==
  /\ Selected /\ p \in peers
  /\ UNCHANGED <<asked, inserting, chain, budget>>
  /\ \/ ~Requested(p, h) /\ UNCHANGED <<tables, timer, imports, peers>>
     \/ /\ Requested(p, h) /\ fetching[h].number # Number[h]
        /\ peers' = peers \ {p} /\ forgetHash({h}) /\ UNCHANGED <<timer, imports>>
     \/ /\ Requested(p, h) /\ fetching[h].number = Number[h] /\ Known(h)
        /\ forgetHash({h}) /\ UNCHANGED <<timer, imports, peers>>
     \/ /\ Requested(p, h) /\ fetching[h].number = Number[h] /\ ~Known(h) /\ Body[h] = Empty
        /\ \E acc \in SUBSET {h} :
             /\ enqueue(p, {h}, acc)
             /\ IF acc = {} THEN forgetHeader(h)
                ELSE /\ completing' = [completing EXCEPT ![h] = fetching[h]]
                     /\ UNCHANGED <<announces, announced, fetching, fetched>>
        /\ UNCHANGED <<timer, peers>>
     \/ /\ Requested(p, h) /\ fetching[h].number = Number[h] /\ ~Known(h) /\ Body[h] # Empty
        /\ fetched' = [fetched EXCEPT ![h] = <<fetching[h]>>]
        /\ ArmComplete(h)
        /\ UNCHANGED <<announces, announced, fetching, completing, imports, peers>>

\* Peer p delivers bodies.  Each is matched with the blocks that are completed by
\* p and have it; those still unknown are assembled and enqueued.
FilterBodies(p, bodies) ==
  LET matched == {h \in Completing : queued[h] = None /\ Body[h] \in bodies /\ completing[h].origin = p}
  IN  /\ Selected /\ p \in peers
      /\ \E acc \in SUBSET (matched \ chain) :
           /\ enqueue(p, matched \ chain, acc)
           /\ forgetHash((matched \cap chain) \cup Discarded(p, matched \ chain, acc))
      /\ UNCHANGED <<timer, asked, inserting, env>>

-----------------------------------------------------------------------------
(* The goroutines that insert, and the rest of the node.                   *)

Stage(b, stage) == inserting' = [inserting EXCEPT ![b] = stage]

\* The first half of insert: the parent must be known and the header valid.
Verify(b) ==
  /\ inserting[b] = "verify"
  /\ Stage(b, IF Known(Parent[b]) /\ b \notin Invalid THEN "import" ELSE "done")
  /\ peers' = IF Known(Parent[b]) /\ b \in Invalid THEN peers \ {queued[b]} ELSE peers
  /\ UNCHANGED <<pc, tables, timer, asked, imports, chain, budget>>

\* The second half: insertChain.
Import(b) ==
  /\ inserting[b] = "import" /\ Stage(b, "done")
  /\ chain' = chain \cup {b}
  /\ UNCHANGED <<pc, tables, timer, asked, imports, peers, budget>>

\* The downloader imports a block on its own.
Sync(b) ==
  /\ b \in Synced \ chain /\ Known(Parent[b])
  /\ chain' = chain \cup {b}
  /\ UNCHANGED <<pc, tables, timer, asked, imports, inserting, peers, budget>>

insert(b) == Verify(b) \/ Import(b)

Next ==
  \/ LoopTop
  \/ \E p \in Peer, h \in Block \ {Genesis} :
       \/ \E n \in {0, Number[h]} : Notify(p, h, n)
       \/ Enqueue(p, h)
       \/ FilterHeaders(p, h)
  \/ \E p \in Peer, bodies \in SUBSET {Body[b] : b \in Block} : FilterBodies(p, bodies)
  \/ \E hs \in SUBSET Announced : FetchTimer(hs)
  \/ CompleteTimer
  \/ \E b \in Block : Done(b) \/ Sync(b)
  \/ \E b \in Block : insert(b)

Spec == Init /\ [][Next]_vars

\* The goroutines run; of the ready cases select takes one at random, so that none
\* is passed over for ever; and the peers answer what they are asked for.
Fairness ==
  /\ WF_vars(LoopTop)
  /\ WF_vars(\E b \in Block : insert(b))
  /\ SF_vars(\E b \in Block : Done(b))
  /\ SF_vars(\E hs \in SUBSET Announced \ {{}} : FetchTimer(hs))
  /\ SF_vars(CompleteTimer)
  /\ SF_vars(\E p \in Peer, h \in Block : Requested(p, h) /\ FilterHeaders(p, h))
  /\ SF_vars(\E h \in Completing :
               /\ h \in asked /\ queued[h] = None
               /\ FilterBodies(completing[h].origin, {Body[h]}))

FairSpec == Spec /\ Fairness

-----------------------------------------------------------------------------
(* Properties.                                                             *)

TypeOK ==
  /\ pc \in {"top", "select"} /\ peers \subseteq Peer
  /\ announces \in [Peer -> Int] /\ queues \in [Peer -> Nat]
  /\ {announced, fetched} \subseteq [Block -> Seq(Announce)]
  /\ {fetching, completing} \subseteq [Block -> Announce \cup {None}]
  /\ timer \subseteq {"fetch", "complete"} /\ asked \subseteq Block
  /\ queue \subseteq Block /\ queued \in [Block -> Peer \cup {None}]
  /\ inserting \in [Block -> {"no", "verify", "import", "done"}]
  /\ chain \subseteq Block

\* A block is in at most one import, from the moment it is queued until the loop
\* has received its end, and the counters of the peers tell exactly how many each
\* has delivered: the allowance blockLimit holds and is always given back.
ImportsExact ==
  /\ Queued = queue \cup {b \in Block : inserting[b] # "no"}
  /\ \A b \in queue : inserting[b] = "no"
  /\ \A p \in Peer :
       /\ queues[p] = Cardinality({b \in Block : queued[b] = p})
       /\ queues[p] <= blockLimit

\* A peer is never refused for announcements that are no longer held: the counter
\* does not exceed the announcements in the tables.
NoAnnounceLeak ==
  \A p \in Peer : announces[p] <= Cardinality(Listed(announced, p, Block))

\* What waits for a timer has an armed one, whatever was added and forgotten in
\* the meantime: rescheduling only for the first entry loses no wake-up.
TimersArmed ==
  /\ Announced # {} => "fetch" \in timer
  /\ Fetched # {} => "complete" \in timer

\* The tables of the loop, its counters and its timers agree.
TablesExact == TypeOK /\ ImportsExact /\ NoAnnounceLeak /\ TimersArmed

\* "Send out all block body requests": a block that waits for its body has been
\* asked for at the peer that the body must come from.
BodiesAsked ==
  \A h \in Completing : Body[h] # Empty => h \in asked

\* As long as the peers stay and body requests reach them, whatever is announced is
\* either given up and forgotten, or obtained and queued: no table keeps it for ever.
Resolves ==
  [](peers = Peer /\ BodiesAsked) =>
    \A h \in Block \ {Genesis} : (\E p \in Peer : Held(p, {h}) > 0) ~>
      (h \in Queued \/ \A p \in Peer : Held(p, {h}) = 0)

\* A valid block that waits for its parent is imported after the parent: the end
\* of the parent's import wakes the loop up once the height has changed.
ChildFollows ==
  \A b \in {c \in Block \ Invalid : Number[c] > 1} :
    (b \in queue /\ Known(Parent[b]) /\ inserting[Parent[b]] = "done") ~>
    (Known(b) \/ Number[b] + maxUncleDist < chainHeight)

\* What the constant hashLimit says: "Maximum number of unique blocks a peer may
\* have announced".  The counters go below zero, and the limit is lost.
AnnounceLimit ==
  \A p \in Peer : Cardinality({h \in Block : Held(p, {h}) > 0}) <= hashLimit

=============================================================================
