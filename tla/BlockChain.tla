------------------------------ MODULE BlockChain ------------------------------
(***************************************************************************)
(* core/blockchain.go: how one node imports blocks, chooses its head,      *)
(* rewrites the canonical numbering, collects old state tries, and what of *)
(* that survives a crash.                                                  *)
(*                                                                         *)
(* A WriteBlockWithState is computed at once, as it holds bc.mu, but its   *)
(* database writes happen one by one: a crash keeps those already done.    *)
(* Blocks are the nodes of a given tree; every block has a state root of   *)
(* its own.  The importer (fetcher and downloader), the future block timer *)
(* and the miner run concurrently.  insertChain holds chainmu, except      *)
(* around the nested insertChain of a pruned side chain that won; the      *)
(* miner only takes mu.                                                    *)
(***************************************************************************)
EXTENDS BlockTree

CONSTANTS
  Early,          \* blocks whose time is initially ahead of the clock
  Far,            \* those that are ahead by more than maxTimeFutureBlocks
  Mined,          \* blocks of the local miner
  Archive,        \* cacheConfig.Disabled
  TriesInMemory,  \* triesInMemory
  MaxBatch,       \* bound: the length of an imported chain
  MaxStops        \* bound: how many times the node goes down

ASSUME NodeAssumption ==
  Far \subseteq Early /\ Early \subseteq Block /\ TriesInMemory \in Nat \ {0} /\ MaxStops \in Nat

VARIABLES
  db,         \* the database
  mem,        \* the fields of the BlockChain struct
  writes,     \* the database writes that the holder of mu has still to do
  jobs,       \* the nested insertChain calls of each goroutine, innermost first
  chainmu,    \* who holds chainmu
  due,        \* what procFutureBlocks has still to insert
  early,      \* how far a block is from the future: 0, 1 or, beyond the limit, 2
  sealed,     \* the blocks that the miner has sealed and not yet written
  posts,      \* the ChainHeadEvents that each goroutine is about to post
  announced,  \* the block of the last ChainHeadEvent
  up,         \* whether the process runs
  stops,      \* how often it stopped
  panicked    \* whether it ever dereferenced nil

vars == <<db, mem, writes, jobs, chainmu, due, early, sealed, posts, announced, up,
          stops, panicked>>

Actor == {"importer", "future", "miner"}
Inserter == Actor \ {"miner"}

\* A call of insertChain: the blocks still to insert, its last canonical block,
\* the head events so far, and whether the next block has been validated.
Frame(chain) == [chain |-> chain, lastCanon |-> None, events |-> <<>>, validated |-> FALSE]

-----------------------------------------------------------------------------
(* The database and its writes.                                            *)

Put(key, b) == [key |-> key, block |-> b]
PutStates(blocks) == [key |-> "state", blocks |-> blocks]

WithLookup(lookup, txs, value) == [t \in Tx |-> IF t \in txs THEN value ELSE lookup[t]]

\* What one write does.  "block" is WriteBlock and WriteBlockReceipts,
\* "canonBlock" the batch that also has the block's lookup entries, "unlookup"
\* the deletion of the lookup entries of a set of transactions.
Apply(d, w) ==
  CASE w.key = "td"         -> [d EXCEPT !.td = @ \cup {w.block}]
    [] w.key = "block"      -> [d EXCEPT !.block = @ \cup {w.block}]
    [] w.key = "canonBlock" -> [d EXCEPT !.block = @ \cup {w.block},
                                         !.lookup = WithLookup(@, Txs[w.block], w.block)]
    [] w.key = "state"      -> [d EXCEPT !.disk = @ \cup w.blocks]
    [] w.key = "canon"      -> [d EXCEPT !.canon = [@ EXCEPT ![Number(w.block)] = w.block]]
    [] w.key = "headBlock"  -> [d EXCEPT !.headBlock = w.block]
    [] w.key = "headHeader" -> [d EXCEPT !.headHeader = w.block]
    [] w.key = "headFast"   -> [d EXCEPT !.headFast = w.block]
    [] w.key = "lookup"     -> [d EXCEPT !.lookup = WithLookup(@, Txs[w.block], w.block)]
    [] w.key = "unlookup"   -> [d EXCEPT !.lookup = WithLookup(@, w.txs, None)]

HasBlock(b) == b \in db.block

\* The root of the trie is found; nodes below it may be missing (mem.partial).
HasState(b) == b \in mem.tries \cup db.disk
HasWholeState(b) == HasState(b) /\ b \notin mem.partial

-----------------------------------------------------------------------------
(* The head.                                                               *)

\* Whether insert(b) moves the head header and the head fast block too.
updateHeads(b) == db.canon[Number(b)] # b

\* The writes of insert(b).
insert(b, update) ==
  <<Put("canon", b), Put("headBlock", b)>>
    \o IF update THEN <<Put("headHeader", b), Put("headFast", b)>> ELSE <<>>

\* reorg gives up if it does not find a block on the way to the common ancestor.
reorgFinds(old, new) ==
  LET added == Added(old, new)
      base  == Ancestor(new, Number(new) - Len(added))
  IN  (Range(Dropped(old, new)) \cup Range(added) \cup {base}) \ {old, new} \subseteq db.block

\* The writes for a block that reorg adds.
insertOne(b) == insert(b, updateHeads(b)) \o <<Put("lookup", b)>>

\* The writes for all the blocks it adds, one block after the other.
insertAll(added) ==
  LET upTo[i \in 0..Len(added)] == IF i = 0 THEN <<>> ELSE upTo[i - 1] \o insertOne(added[i])
  IN  upTo[Len(added)]

\* Mutant of reorg: lost transactions keep their lookup entries.
reorgKeepsLookups(old, new) == insertAll(Added(old, new))

\* The writes of reorg: every added block is inserted, oldest first and new
\* included, then the lookup entries of lost transactions are deleted.
reorg(old, new) ==
  LET txs(chain) == UNION {Txs[b] : b \in Range(chain)}
  IN  insertAll(Added(old, new))
        \o <<[key |-> "unlookup", txs |-> txs(Dropped(old, new)) \ txs(Added(old, new))]>>

\* Mutant of Preferred: ties are broken by the coin alone.
PreferredByCoin(b, coin) ==
  Td[b] > Td[mem.currentBlock] \/ (Td[b] = Td[mem.currentBlock] /\ coin)

\* The fork choice: higher total difficulty, then lower number, then a coin.
Preferred(b, coin) ==
  LET cur == mem.currentBlock
  IN  \/ Td[b] > Td[cur]
      \/ Td[b] = Td[cur] /\ Number(b) < Number(cur)
      \/ Td[b] = Td[cur] /\ Number(b) = Number(cur) /\ coin

-----------------------------------------------------------------------------
(* WriteBlockWithState.                                                    *)

\* The number of the canonical block whose trie, with all older ones, b retires.
chosen(b) == Number(b) - TriesInMemory
Collects(b) == ~Archive /\ chosen(b) > 0

\* WriteBlockWithState fails half-way, or dereferences a missing header or td:
\* a number may have no canonical hash, or the hash of a block not stored.
WriteFails(b, canonical) ==
  \/ Parent[b] \notin db.td
  \/ canonical /\ Parent[b] # mem.currentBlock /\ ~reorgFinds(mem.currentBlock, b)
WritePanics(b) ==
  /\ Parent[b] \in db.td
  /\ \/ mem.currentBlock \notin db.td
     \/ Collects(b) /\ db.canon[chosen(b)] \notin db.block

\* The tries that b may push out to disk: the oldest ones, which Cap takes when
\* they use too much memory, and the one of the canonical block at the chosen
\* number when the time allowance is used up.  Lower blocks count as older.
Flushable(b) ==
  LET oldest(n) == {x \in mem.tries : Number(x) <= n}
      retired   == mem.tries \cap {db.canon[chosen(b)]}
  IN  IF Archive THEN {{b}}
      ELSE IF ~Collects(b) THEN {{}}
      ELSE {oldest(n) \cup c : n \in Numbers, c \in {{}, retired}}

\* The writes up to the fork choice.
StateWrites(b, flushed) ==
  <<Put("td", b)>> \o IF flushed = {} THEN <<>> ELSE <<PutStates(flushed)>>

\* The writes of the fork choice and of the new head.
HeadWrites(b) ==
  IF Parent[b] # mem.currentBlock
  THEN reorg(mem.currentBlock, b) \o <<Put("canonBlock", b)>> \o insert(b, FALSE)
  ELSE <<Put("canonBlock", b)>> \o insert(b, updateHeads(b))

\* The tries in memory after Commit and the garbage collection.
Tries(b) ==
  IF Archive THEN mem.tries
  ELSE {x \in mem.tries \cup {b} : ~Collects(b) \/ Number(x) > chosen(b)}

\* Commit adds the nodes that b changed: on top of a parent whose trie is gone or
\* lacks nodes, the trie of b lacks nodes too.
Partial(b) == IF HasWholeState(Parent[b]) THEN mem.partial \ {b} ELSE mem.partial \cup {b}

\* The block that the head header and the fast block end up at.
HeadOf(b, old) ==
  LET moved == {x \in Range(Added(mem.currentBlock, b)) : updateHeads(x)}
  IN  IF moved = {} THEN old ELSE CHOOSE x \in moved : \A y \in moved : Number(y) <= Number(x)

\* The step of a goroutine that writes block b with the fork choice it gets.
WriteBlockWithState(b, canonical, flushed) ==
  /\ writes' = StateWrites(b, flushed)
                 \o IF canonical THEN HeadWrites(b) ELSE <<Put("block", b)>>
  /\ mem' = [mem EXCEPT
               !.tries            = Tries(b),
               !.partial          = Partial(b),
               !.future           = @ \ {b},
               !.currentBlock     = IF canonical THEN b ELSE @,
               !.currentHeader    = IF canonical THEN HeadOf(b, @) ELSE @,
               !.currentFastBlock = IF canonical THEN HeadOf(b, @) ELSE @]

\* It fails: before any write, or in reorg, after the td and the trie.
FailToWrite(b, flushed) ==
  IF Parent[b] \notin db.td
  THEN UNCHANGED <<writes, mem>>
  ELSE /\ writes' = StateWrites(b, flushed)
       /\ mem' = [mem EXCEPT !.tries = Tries(b), !.partial = Partial(b)]

\* The process dies, by a crash or a panic; the database stays.
Die ==
  /\ up' = FALSE
  /\ writes' = <<>> /\ due' = {} /\ sealed' = {}
  /\ jobs' = [a \in Inserter |-> <<>>] /\ chainmu' = None
  /\ posts' = [a \in Actor |-> <<>>]
  /\ mem' = [currentBlock |-> Genesis, currentHeader |-> Genesis,
             currentFastBlock |-> Genesis, tries |-> {}, partial |-> mem.partial,
             future |-> {}]
  /\ UNCHANGED <<early, announced>>

\* A panic, with what had been written before it.
Panic(written) == panicked' = TRUE /\ db' = written /\ Die /\ UNCHANGED stops

-----------------------------------------------------------------------------
(* insertChain.                                                            *)

Free == up /\ writes = <<>>

StartJob(actor, chain) ==
  /\ Free /\ chainmu = None /\ jobs[actor] = <<>> /\ posts[actor] = <<>>
  /\ jobs' = [jobs EXCEPT ![actor] = <<Frame(chain)>>]
  /\ chainmu' = actor

\* A goroutine takes chainmu before and after a nested insertChain.
Lock(a) ==
  /\ up /\ chainmu = None /\ jobs[a] # <<>>
  /\ chainmu' = a
  /\ UNCHANGED <<db, mem, writes, jobs, due, early, sealed, posts, announced, up, stops, panicked>>

\* The fetcher or the downloader hands over a contiguous chain; peers have a
\* block of the local miner from this node only.
InsertChain(chain) ==
  /\ StartJob("importer", chain)
  /\ Range(chain) \cap Mined \subseteq db.block
  /\ UNCHANGED <<db, mem, writes, due, early, sealed, posts, announced, up, stops, panicked>>

\* Mutant of procFutureBlocks: a single block is not worth a round.
procSeveralFuture ==
  /\ Free /\ due = {} /\ Cardinality(mem.future) > 1
  /\ due' = mem.future
  /\ UNCHANGED <<db, mem, writes, jobs, chainmu, early, sealed, posts, announced, up, stops, panicked>>

\* The timer fires: procFutureBlocks takes the future blocks.
procFutureBlocks ==
  /\ Free /\ due = {} /\ mem.future # {}
  /\ due' = mem.future
  /\ UNCHANGED <<db, mem, writes, jobs, chainmu, early, sealed, posts, announced, up, stops, panicked>>

\* And inserts them one by one, the lowest first.
InsertFuture ==
  \E b \in due :
    /\ \A c \in due : Number(b) <= Number(c)
    /\ StartJob("future", <<b>>)
    /\ due' = due \ {b}
    /\ UNCHANGED <<db, mem, writes, early, sealed, posts, announced, up, stops, panicked>>

\* The running call, and its next block.
top == Head(jobs[chainmu])
Processing(b) == Free /\ chainmu # None /\ top.chain # <<>> /\ b = Head(top.chain)
Validating(b) == Processing(b) /\ ~top.validated
Goto(frames) == jobs' = [jobs EXCEPT ![chainmu] = frames \o Tail(@)]
Continue == Goto(<<[top EXCEPT !.chain = Tail(@)]>>) /\ UNCHANGED <<chainmu, posts>>

\* An error returns from all nested calls, with the events of the innermost.
Abort ==
  /\ jobs' = [jobs EXCEPT ![chainmu] = <<>>]
  /\ posts' = [posts EXCEPT ![chainmu] = top.events]
  /\ chainmu' = None

Unknown(b) == early[b] = 0 /\ ~HasBlock(Parent[b])
Known(b) == early[b] = 0 /\ HasBlock(Parent[b]) /\ HasBlock(b) /\ HasState(b)
Pruned(b) == early[b] = 0 /\ HasBlock(Parent[b]) /\ ~(HasBlock(b) /\ HasState(b))
               /\ ~HasState(Parent[b])
Linked(b) == early[b] = 0 /\ HasBlock(Parent[b]) /\ ~Pruned(b)
               /\ (Known(b) => Number(mem.currentBlock) < Number(b))

\* ErrFutureBlock within the limit, or ErrUnknownAncestor on top of a queued block.
QueueFuture(b) ==
  /\ Validating(b)
  /\ early[b] = 1 \/ (Unknown(b) /\ Parent[b] \in mem.future)
  /\ mem' = [mem EXCEPT !.future = @ \cup {b}]
  /\ Continue
  /\ UNCHANGED <<db, writes, due, early, sealed, announced, up, stops, panicked>>

\* Mutant of SkipKnown: a stored block is known even without its state.
SkipEveryStored(b) ==
  /\ Validating(b) /\ HasBlock(b)
  /\ Continue
  /\ UNCHANGED <<db, mem, writes, due, early, sealed, announced, up, stops, panicked>>

\* ErrKnownBlock, not above the head.
SkipKnown(b) ==
  /\ Validating(b) /\ Known(b)
  /\ Number(mem.currentBlock) >= Number(b)
  /\ Continue
  /\ UNCHANGED <<db, mem, writes, due, early, sealed, announced, up, stops, panicked>>

\* ErrPrunedAncestor on a chain that does not beat the canonical one.
WriteBlockWithoutState(b) ==
  /\ Validating(b) /\ Pruned(b)
  /\ Parent[b] \in db.td
  /\ Td[mem.currentBlock] > Td[b]
  /\ writes' = <<Put("td", b), Put("block", b)>>
  /\ Continue
  /\ UNCHANGED <<db, mem, due, early, sealed, announced, up, stops, panicked>>

\* The ancestors of b without state, oldest first.
winner(b) ==
  LET stateless(i) == \A j \in i..Number(b) - 1 : ~HasState(Chain[b][j])
      first == CHOOSE i \in 1..Number(b) : stateless(i) /\ (i = 1 \/ ~stateless(i - 1))
  IN  SubSeq(Chain[b], first, Number(b) - 1)

\* The walk to the youngest ancestor with state finds every block.
WinnerStored(b) ==
  /\ Range(winner(b)) \subseteq db.block
  /\ HasBlock(Ancestor(b, Number(b) - Len(winner(b)) - 1))

\* ErrPrunedAncestor on a chain that does: its blocks are inserted first.
ImportWinner(b) ==
  /\ Validating(b) /\ Pruned(b)
  /\ Parent[b] \in db.td => Td[mem.currentBlock] <= Td[b]
  /\ IF Parent[b] \notin db.td \/ ~WinnerStored(b) THEN Panic(db)
     ELSE /\ Goto(<<Frame(winner(b)), [top EXCEPT !.validated = TRUE]>>)
          /\ chainmu' = None
          /\ UNCHANGED <<db, mem, writes, due, early, sealed, posts, announced, up, stops, panicked>>

\* A block that is neither skipped nor stored without state is processed.
Executable(b) == Processing(b) /\ (top.validated \/ Linked(b))

\* Any error ends the insertion, without a ChainHeadEvent of its own: a block
\* too far from the future, an unknown ancestor, an execution that fails, which
\* it may for lack of nodes.
Refuse(b) ==
  /\ \/ Validating(b) /\ early[b] = 2
     \/ Validating(b) /\ Unknown(b) /\ Parent[b] \notin mem.future
     \/ Executable(b) /\ (b \in Bad \/ ~HasWholeState(Parent[b]))
  /\ Abort
  /\ UNCHANGED <<db, mem, writes, due, early, sealed, announced, up, stops, panicked>>

\* A block on top of a block with state is executed and written.
Import(b) ==
  /\ Executable(b) /\ b \notin Bad /\ HasState(Parent[b])
  /\ IF WritePanics(b) THEN Panic(Apply(db, Put("td", b)))
     ELSE /\ \E coin \in BOOLEAN, flushed \in Flushable(b) :
               LET canonical == Preferred(b, coin)
               IN  IF WriteFails(b, canonical)
                   THEN Abort /\ FailToWrite(b, flushed)
                   ELSE /\ WriteBlockWithState(b, canonical, flushed)
                        /\ Goto(<<[top EXCEPT !.chain = Tail(@), !.validated = FALSE,
                                              !.lastCanon = IF canonical THEN b ELSE @]>>)
                        /\ UNCHANGED <<chainmu, posts>>
          /\ UNCHANGED <<db, due, early, sealed, announced, up, stops, panicked>>

\* The end of insertChain: one ChainHeadEvent if the head is its last block.
\* The events of a nested call replace those of its caller.
FinishInsert ==
  /\ Free /\ chainmu # None /\ top.chain = <<>>
  /\ LET events  == top.events \o IF top.lastCanon = mem.currentBlock THEN <<top.lastCanon>> ELSE <<>>
         callers == Tail(jobs[chainmu])
     IN  IF callers = <<>>
         THEN /\ jobs' = [jobs EXCEPT ![chainmu] = <<>>]
              /\ posts' = [posts EXCEPT ![chainmu] = events]
         ELSE /\ jobs' = [jobs EXCEPT ![chainmu] =
                            <<[Head(callers) EXCEPT !.events = events]>> \o Tail(callers)]
              /\ UNCHANGED posts
  /\ chainmu' = None
  /\ UNCHANGED <<db, mem, writes, due, early, sealed, announced, up, stops, panicked>>

-----------------------------------------------------------------------------
(* The miner, the clock, the event feed, the disk.                         *)

\* commitNewWork executes a block on the head, and the engine seals it.
MinerSeal(b) ==
  /\ up /\ b \in Mined \ (Bad \cup sealed \cup db.block)
  /\ Parent[b] = mem.currentBlock /\ HasWholeState(Parent[b])
  /\ sealed' = sealed \cup {b}
  /\ UNCHANGED <<db, mem, writes, jobs, chainmu, due, early, posts, announced, up, stops, panicked>>

\* worker.wait writes it when its time has come, whatever the head is by then,
\* and posts a ChainHeadEvent if it became the head.
MinerWrite(b) ==
  /\ Free /\ posts["miner"] = <<>>
  /\ b \in sealed /\ early[b] = 0
  /\ IF WritePanics(b) THEN Panic(Apply(db, Put("td", b)))
     ELSE /\ sealed' = sealed \ {b}
          /\ \E coin \in BOOLEAN, flushed \in Flushable(b) :
               LET canonical == Preferred(b, coin)
               IN  IF WriteFails(b, canonical)
                   THEN FailToWrite(b, flushed) /\ UNCHANGED posts
                   ELSE /\ WriteBlockWithState(b, canonical, flushed)
                        /\ posts' = [posts EXCEPT !["miner"] = IF canonical THEN <<b>> ELSE <<>>]
          /\ UNCHANGED <<db, jobs, chainmu, due, early, announced, up, stops, panicked>>

\* The next write reaches the database.
WriteNext ==
  /\ writes # <<>>
  /\ db' = Apply(db, Head(writes))
  /\ writes' = Tail(writes)
  /\ UNCHANGED <<mem, jobs, chainmu, due, early, sealed, posts, announced, up, stops, panicked>>

\* PostChainEvents, outside of all locks.
PostChainEvents(a) ==
  /\ up /\ posts[a] # <<>>
  /\ announced' = Head(posts[a])
  /\ posts' = [posts EXCEPT ![a] = Tail(@)]
  /\ UNCHANGED <<db, mem, writes, jobs, chainmu, due, early, sealed, up, stops, panicked>>

\* The clock gets to the time of a block, or near it, after its parent's.
Tick(b) ==
  /\ early[b] > 0 /\ early[Parent[b]] < early[b]
  /\ early' = [early EXCEPT ![b] = @ - 1]
  /\ UNCHANGED <<db, mem, writes, jobs, chainmu, due, sealed, posts, announced, up, stops, panicked>>

Crash ==
  /\ up /\ stops < MaxStops
  /\ stops' = stops + 1
  /\ Die
  /\ UNCHANGED <<db, panicked>>

\* No insertChain is running.
Idle == \A a \in Inserter : jobs[a] = <<>>

\* Stop waits for insertions and commits the tries of three recent blocks.
Stop ==
  /\ Free /\ Idle /\ due = {} /\ stops < MaxStops
  /\ stops' = stops + 1
  /\ LET cur     == Number(mem.currentBlock)
         numbers == {cur - o : o \in {p \in {0, 1, TriesInMemory - 1} : ~Archive /\ cur > p}}
     IN  IF \E n \in numbers : db.canon[n] \notin db.block
         THEN panicked' = TRUE /\ UNCHANGED db
         ELSE /\ db' = [db EXCEPT !.disk = @ \cup (mem.tries \cap {db.canon[n] : n \in numbers})]
              /\ UNCHANGED panicked
  /\ Die

\* Mutant of repair: the head is taken as it is.
repairNothing(b) == b

\* The youngest ancestor-or-self of b whose state is on disk.
repair(b) ==
  CHOOSE x \in {Genesis} \cup Range(Chain[b]) :
    /\ x \in db.disk
    /\ \A y \in Range(Chain[b]) : Number(y) > Number(x) => y \notin db.disk

\* loadLastState.  A missing head block resets the chain: as the header chain
\* starts from that head too, it is at Genesis and SetHead(0) deletes nothing.
Restart ==
  /\ ~up
  /\ LET found   == HasBlock(db.headBlock)
         current == IF found THEN repair(db.headBlock) ELSE Genesis
         orElse(b) == IF found /\ HasBlock(b) THEN b ELSE current
     IN  /\ up' = TRUE
         /\ mem' = [mem EXCEPT !.currentBlock = current,
                               !.currentHeader = orElse(db.headHeader),
                               !.currentFastBlock = orElse(db.headFast)]
         /\ db' = [db EXCEPT !.headHeader = orElse(@),
                             !.headBlock = IF found THEN @ ELSE Genesis,
                             !.headFast = IF found THEN @ ELSE Genesis]
         /\ announced' = current
         /\ panicked' = (panicked \/ (found /\ ~(Range(Chain[db.headBlock]) \subseteq db.block
                                                  \/ db.headBlock \in db.disk)))
  /\ UNCHANGED <<writes, jobs, chainmu, due, early, sealed, posts, stops>>

-----------------------------------------------------------------------------
(* The specification.                                                      *)

Init ==
  /\ db = [td |-> {Genesis}, block |-> {Genesis}, disk |-> {Genesis},
           canon |-> [n \in Numbers |-> IF n = 0 THEN Genesis ELSE None],
           headBlock |-> Genesis, headHeader |-> Genesis, headFast |-> Genesis,
           lookup |-> [t \in Tx |-> None]]
  /\ mem = [currentBlock |-> Genesis, currentHeader |-> Genesis,
            currentFastBlock |-> Genesis, tries |-> {}, partial |-> {}, future |-> {}]
  /\ writes = <<>> /\ due = {} /\ sealed = {}
  /\ jobs = [a \in Inserter |-> <<>>] /\ chainmu = None
  /\ early = [b \in Block |-> IF b \in Far THEN 2 ELSE IF b \in Early THEN 1 ELSE 0]
  /\ posts = [a \in Actor |-> <<>>]
  /\ announced = Genesis
  /\ up = TRUE /\ stops = 0 /\ panicked = FALSE

\* The contiguous chains of up to MaxBatch blocks.
Segments == {SubSeq(Chain[b], i, Number(b)) : b \in Block \ {Genesis}, i \in Numbers \ {0}}
Batches == {c \in Segments : Len(c) \in 1..MaxBatch}

Step(b) ==
  \/ QueueFuture(b) \/ SkipKnown(b) \/ WriteBlockWithoutState(b) \/ ImportWinner(b)
  \/ Refuse(b) \/ Import(b)

Next ==
  \/ \E c \in Batches : InsertChain(c)
  \/ \E b \in Block \ {Genesis} : Step(b) \/ MinerSeal(b) \/ MinerWrite(b) \/ Tick(b)
  \/ procFutureBlocks \/ InsertFuture \/ FinishInsert \/ WriteNext
  \/ \E a \in Inserter : Lock(a)
  \/ \E a \in Actor : PostChainEvents(a)
  \/ Crash \/ Stop \/ Restart

Spec == Init /\ [][Next]_vars

\* Goroutines go on and time passes.
Progress ==
  /\ WF_vars(WriteNext) /\ WF_vars(FinishInsert)
  /\ WF_vars(\E b \in Block \ {Genesis} : Step(b))
  /\ WF_vars(\E b \in Block \ {Genesis} : Tick(b))
  /\ \A a \in Actor : WF_vars(PostChainEvents(a))
  /\ \A a \in Inserter : WF_vars(Lock(a))
  /\ SF_vars(procFutureBlocks) /\ SF_vars(InsertFuture)

\* Moreover the supervisor restarts the node, and peers keep offering every
\* block that the node may lack.
Redelivery ==
  /\ WF_vars(Restart)
  /\ \A b \in Block \ {Genesis} : SF_vars(InsertChain(<<b>>))

\* A sync.Mutex hands over to a goroutine that has waited for a millisecond.
MutexFair == \A a \in Inserter : SF_vars(Lock(a))

ProgressSpec == Spec /\ Progress /\ MutexFair
FairSpec == Spec /\ Progress /\ Redelivery

-----------------------------------------------------------------------------
(* Properties.                                                             *)

Database ==
  [td : SUBSET Block, block : SUBSET Block, disk : SUBSET Block,
   canon : [Numbers -> Block \cup {None}],
   headBlock : Block, headHeader : Block, headFast : Block,
   lookup : [Tx -> Block \cup {None}]]
Memory ==
  [currentBlock : Block, currentHeader : Block, currentFastBlock : Block,
   tries : SUBSET Block, partial : SUBSET Block, future : SUBSET Block]

\* The fields keep their types.
TypeOK ==
  /\ db \in Database /\ mem \in Memory
  /\ jobs \in [Inserter -> Seq([chain : Seq(Block), lastCanon : Block \cup {None},
                                events : Seq(Block), validated : BOOLEAN])]
  /\ chainmu \in Inserter \cup {None}
  /\ due \subseteq Block /\ early \in [Block -> 0..2] /\ sealed \subseteq Mined
  /\ posts \in [Actor -> Seq(Block)]
  /\ announced \in Block
  /\ up \in BOOLEAN /\ panicked \in BOOLEAN /\ stops \in 0..MaxStops

\* Nobody holds mu.
Unlocked == up /\ writes = <<>>

\* The head is the block that the fork choice of WriteBlockWithState prefers
\* among all that were stored, also when blocks of other branches were stored
\* without state or the tries of the branch had been collected.
HeadIsBest ==
  Unlocked =>
    \A b \in db.block :
      \/ Td[b] < Td[mem.currentBlock]
      \/ Td[b] = Td[mem.currentBlock] /\ Number(mem.currentBlock) <= Number(b)

\* Up to the head, the canonical numbering is the chain of the head: the
\* rewriting done by reorg and insert leaves no block of the old branch.
CanonicalLinked ==
  Unlocked => \A n \in 0..Number(mem.currentBlock) : db.canon[n] = Ancestor(mem.currentBlock, n)

\* The lookup entry of a transaction is its block on the canonical chain, if
\* there is one, although reorg writes and deletes entries outside the batch.
LookupExact ==
  Unlocked =>
    \A t \in Tx :
      LET holders == {b \in Range(Chain[mem.currentBlock]) : t \in Txs[b]}
      IN  IF holders = {} THEN db.lookup[t] = None ELSE db.lookup[t] \in holders

\* Head header, head fast block and head block agree, in memory and on disk.
HeadsAgree ==
  Unlocked =>
    /\ mem.currentHeader = mem.currentBlock /\ mem.currentFastBlock = mem.currentBlock
    /\ db.headBlock = mem.currentBlock
    /\ db.headHeader = mem.currentBlock /\ db.headFast = mem.currentBlock

\* What is stored beside the blocks describes the chain of the head.
IndexesExact == TypeOK /\ CanonicalLinked /\ LookupExact /\ HeadsAgree

\* The head can be built on: it, its total difficulty and all its ancestors are
\* stored, and garbage collection has not taken its state.
HeadUsable ==
  Unlocked =>
    /\ HasWholeState(mem.currentBlock)
    /\ mem.currentBlock \in db.td
    /\ Range(Chain[mem.currentBlock]) \subseteq db.block

\* No chain is TriesInMemory blocks longer than one that outweighs it.  The
\* collection in WriteBlockWithState counts from the block being written, not
\* from the head, and takes a canonical block at the chosen number for granted.
ForksShort == \A b, c \in Block : Td[b] <= Td[c] => Number(b) < Number(c) + TriesInMemory

\* As long as forks are that short, a node that does not mine has a head to
\* build on after any collection, stop or crash, and no step of an import or of
\* the restart dereferences a header, block or difficulty that is missing.
HeadSound == ForksShort /\ Mined = {} => HeadUsable /\ ~panicked

\* The same without the premise.
HeadAlwaysSound == HeadUsable /\ ~panicked

\* Whatever a crash interrupted, once blocks are offered again the node ends up
\* with a head of the highest total difficulty, and stays there.
Recovers == <>[](\A b \in Block : Td[b] <= Td[mem.currentBlock])

\* A block queued for the future on top of a stored one is stored once its time
\* has come, although nobody sends it again: the timer of update retries.
FutureImported ==
  \A b \in Block \ {Genesis} :
    b \in mem.future /\ HasBlock(Parent[b]) ~> HasBlock(b)

\* "GetBlockByNumber always represents the canonical chain": above the head
\* there is no block by number.
NumbersEndAtHead ==
  Unlocked => \A n \in Numbers : n > Number(mem.currentBlock) => db.canon[n] = None

\* The same for the blocks up to the head of a node that may have crashed.
NumbersLeadToHead ==
  Unlocked => \A n \in 0..Number(mem.currentBlock) : db.canon[n] = Ancestor(mem.currentBlock, n)

\* "Append a single chain head event if we've progressed the chain":
\* once all insertions and posts
\* are done, the last ChainHeadEvent is about the head.
HeadAnnounced ==
  Unlocked /\ Idle /\ (\A a \in Actor : posts[a] = <<>>) => announced = mem.currentBlock

\* The doc of repair: incomplete writes caused by crashes are fixed by "rolling
\* back the current block until one with associated state is found".
RestartRollsBack == [][~up /\ up' => mem'.currentBlock = repair(db.headBlock)]_vars

=============================================================================
