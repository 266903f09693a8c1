---------------------------- MODULE FetcherProofs ----------------------------
(***************************************************************************)
(* The tables of Fetcher, for any blocks, peers and limits: the books on   *)
(* imports are exact, no peer is counted more announcements than are held, *)
(* and no timer that something waits for is disarmed.                      *)
(***************************************************************************)
EXTENDS Fetcher, FiniteSetTheorems, TLAPS

\* The blocks of peer p that are queued or being imported.
Of(p) == {b \in Block : queued[b] = p}

\* ImportsExact is inductive once its tables have their types.
ImportsInv ==
  /\ queue \subseteq Block
  /\ queued \in [Block -> Peer \cup {None}]
  /\ queues \in [Peer -> Nat]
  /\ inserting \in [Block -> {"no", "verify", "import", "done"}]
  /\ ImportsExact

\* What ImportsInv says of the counters.
CountersExact ==
  /\ queued \in [Block -> Peer \cup {None}]
  /\ queues \in [Peer -> Nat]
  /\ \A p \in Peer : queues[p] = Cardinality(Of(p)) /\ queues[p] <= blockLimit

-----------------------------------------------------------------------------
(* The two ways of changing the books on imports.                          *)

\* forgetBlock releases what it forgets, once.
LEMMA ForgetBlockExact ==
  ASSUME CountersExact, NEW bs \in SUBSET Block, forgetBlock(bs)
  PROVE  CountersExact' /\ Queued' = Queued \ bs
<1>1. queued' = [b \in Block |-> IF b \in bs THEN None ELSE queued[b]]
  BY DEF forgetBlock, Without
<1>2. queued' \in [Block -> Peer \cup {None}] /\ Queued' = Queued \ bs
  BY <1>1 DEF CountersExact, Queued
<1>3. ASSUME NEW p \in Peer
      PROVE  queues'[p] \in Nat /\ queues'[p] = Cardinality(Of(p)') /\ queues'[p] <= blockLimit
  <2> DEFINE gone == {b \in bs : queued[b] = p}
  <2>1. queues'[p] = queues[p] - Cardinality(gone)
    BY DEF forgetBlock
  <2>2. queues[p] = Cardinality(Of(p)) /\ queues[p] <= blockLimit /\ queues[p] \in Nat /\ blockLimit \in Nat
    BY FetcherConstants DEF CountersExact
  <2>3. IsFiniteSet(Of(p)) /\ gone \subseteq Of(p)
    BY FS_Subset, FetcherConstants DEF Of
  <2>4. Of(p)' = Of(p) \ gone
    BY <1>1, FetcherConstants DEF Of
  <2>5. /\ Cardinality(Of(p) \ gone) = Cardinality(Of(p)) - Cardinality(Of(p) \cap gone)
        /\ Of(p) \cap gone = gone
    BY <2>3, FS_Difference, Zenon
  <2>6. Cardinality(Of(p) \ gone) \in Nat /\ Cardinality(gone) \in Nat
    BY <2>3, FS_Subset, FS_CardinalityType
  <2> HIDE DEF gone
  <2>7. Cardinality(Of(p)') = Cardinality(Of(p)) - Cardinality(gone)
    BY <2>4, <2>5
  <2>8. Cardinality(Of(p)') \in Nat
    BY <2>4, <2>6
  <2> QED BY <2>1, <2>2, <2>6, <2>7, <2>8
<1>4. queues' \in [Peer -> Nat]
  BY <1>3 DEF forgetBlock
<1> QED BY <1>2, <1>3, <1>4 DEF CountersExact

\* enqueue counts what it accepts, and accepts no more than the allowance.
LEMMA EnqueueExact ==
  ASSUME CountersExact, NEW p \in Peer, NEW bs \in SUBSET Block, NEW acc, enqueue(p, bs, acc)
  PROVE  /\ CountersExact' /\ Queued' = Queued \cup acc
         /\ queue' = queue \cup acc /\ acc \cap Queued = {} /\ acc \subseteq Block
<1> DEFINE near == {b \in bs : ~TooFar(b) /\ b \notin Queued}
           room == IF queues[p] < blockLimit THEN blockLimit - queues[p] ELSE 0
<1>1. /\ acc \subseteq near
      /\ Cardinality(acc) = IF Cardinality(near) < room THEN Cardinality(near) ELSE room
      /\ queue' = queue \cup acc
      /\ queued' = [b \in Block |-> IF b \in acc THEN p ELSE queued[b]]
      /\ queues' = [queues EXCEPT ![p] = @ + Cardinality(acc)]
  BY DEF enqueue
<1>2. acc \cap Queued = {} /\ acc \subseteq Block
  BY <1>1
<1>3. /\ IsFiniteSet(near) /\ Cardinality(near) \in Nat
      /\ IsFiniteSet(acc) /\ Cardinality(acc) \in Nat
  <2>1. near \subseteq Block /\ acc \subseteq Block
    BY <1>2
  <2> QED BY <2>1, FS_Subset, FS_CardinalityType, FetcherConstants
<1>4. \A q \in Peer : queues[q] = Cardinality(Of(q)) /\ queues[q] \in Nat /\ queues[q] <= blockLimit
  BY DEF CountersExact
<1> HIDE DEF near
<1>5. queued' \in [Block -> Peer \cup {None}] /\ Queued' = Queued \cup acc
  BY <1>1, <1>2, FetcherConstants DEF CountersExact, Queued
<1>6. ASSUME NEW q \in Peer
      PROVE  queues'[q] \in Nat /\ queues'[q] = Cardinality(Of(q)') /\ queues'[q] <= blockLimit
  <2>1. CASE q # p
    <3>1. Of(q)' = Of(q)
      BY <1>1, <1>2, <2>1, FetcherConstants, Zenon DEF Of, Queued, CountersExact
    <3>2. queues'[q] = queues[q]
      BY <1>1, <2>1 DEF CountersExact
    <3> QED BY <1>4, <3>1, <3>2
  <2>2. CASE q = p
    <3>1. Of(p)' = Of(p) \cup acc /\ Of(p) \cap acc = {}
      BY <1>1, <1>2, FetcherConstants DEF Of, Queued, CountersExact
    <3>2. IsFiniteSet(Of(p))
      BY FS_Subset, FetcherConstants DEF Of
    <3>3. Cardinality(Of(p)') = Cardinality(Of(p)) + Cardinality(acc)
      <4>1. Cardinality(Of(p) \cup acc) =
              Cardinality(Of(p)) + Cardinality(acc) - Cardinality(Of(p) \cap acc)
        BY <1>3, <3>2, FS_Union
      <4>2. Cardinality(Of(p) \cap acc) = 0
        BY <3>1, FS_EmptySet
      <4> QED BY <1>3, <1>4, <3>1, <4>1, <4>2
    <3>4. queues'[p] = queues[p] + Cardinality(acc)
      BY <1>1 DEF CountersExact
    <3>5. queues[p] + Cardinality(acc) <= blockLimit
      <4>1. queues[p] \in Nat /\ queues[p] <= blockLimit /\ blockLimit \in Nat
        BY <1>4, FetcherConstants
      <4>2. Cardinality(acc) <= room
        BY <1>1, <1>3, <4>1
      <4> QED BY <1>3, <4>1, <4>2
    <3> QED BY <1>3, <1>4, <2>2, <3>3, <3>4, <3>5
  <2> QED BY <2>1, <2>2
<1>7. queues' \in [Peer -> Nat]
  BY <1>1, <1>6, Zenon DEF CountersExact
<1> QED BY <1>1, <1>2, <1>5, <1>6, <1>7, Zenon DEF CountersExact

\* Blocks that were enqueued are in the queue and in no import.
LEMMA EnqueueKeeps ==
  ASSUME ImportsInv, NEW p \in Peer, NEW bs \in SUBSET Block, NEW acc, enqueue(p, bs, acc),
         UNCHANGED inserting
  PROVE  ImportsInv'
<1>1. CountersExact
  BY DEF ImportsInv, ImportsExact, CountersExact, Of
<1>2. /\ CountersExact' /\ Queued' = Queued \cup acc
      /\ queue' = queue \cup acc /\ acc \cap Queued = {} /\ acc \subseteq Block
  BY <1>1, EnqueueExact
<1>3. \A b \in acc : inserting[b] = "no"
  BY <1>2 DEF ImportsInv, ImportsExact
<1>4. Queued' = queue' \cup {b \in Block : inserting'[b] # "no"}
  BY <1>2 DEF ImportsInv, ImportsExact
<1>5. \A b \in queue' : inserting'[b] = "no"
  BY <1>2, <1>3 DEF ImportsInv, ImportsExact
<1> QED BY <1>2, <1>4, <1>5 DEF ImportsInv, ImportsExact, CountersExact, Of

\* Every step of the fetcher keeps the books on imports.
LEMMA ImportsStep == ImportsInv /\ [Next]_vars => ImportsInv'
<1> SUFFICES ASSUME ImportsInv, [Next]_vars PROVE ImportsInv'
  OBVIOUS
<1>0. CountersExact
  BY DEF ImportsInv, ImportsExact, CountersExact, Of
<1>1. ASSUME UNCHANGED <<imports, inserting>> PROVE ImportsInv'
  BY <1>1 DEF imports, ImportsInv, ImportsExact, Queued
<1>2. CASE LoopTop
  <2> DEFINE due   == {b \in queue : Number[b] <= chainHeight + 1}
             stale == {b \in due : Number[b] + maxUncleDist < chainHeight \/ Known(b)}
  <2>1. /\ queue' = queue \ due /\ forgetBlock(stale)
        /\ inserting' = [b \in Block |-> IF b \in due \ stale THEN "verify" ELSE inserting[b]]
    BY <1>2 DEF LoopTop
  <2>2. stale \subseteq due /\ due \subseteq queue /\ queue \subseteq Block
    BY DEF ImportsInv
  <2> HIDE DEF due, stale
  <2>3. CountersExact' /\ Queued' = Queued \ stale
    BY <1>0, <2>1, <2>2, ForgetBlockExact
  <2>4. /\ queue' \subseteq Block
        /\ inserting' \in [Block -> {"no", "verify", "import", "done"}]
    BY <2>1, <2>2 DEF ImportsInv
  <2>5. \A b \in queue' : inserting'[b] = "no"
    BY <2>1, <2>2 DEF ImportsInv, ImportsExact
  <2>6. Queued' = queue' \cup {b \in Block : inserting'[b] # "no"}
    BY <2>1, <2>2, <2>3 DEF ImportsInv, ImportsExact
  <2> QED BY <2>3, <2>4, <2>5, <2>6 DEF ImportsInv, ImportsExact, CountersExact, Of
<1>3. ASSUME NEW p \in Peer, NEW h \in Block, NEW n, Notify(p, h, n) PROVE ImportsInv'
  BY <1>1, <1>3 DEF Notify
<1>4. ASSUME NEW p \in Peer, NEW h \in Block, Enqueue(p, h) PROVE ImportsInv'
  <2>1. PICK acc \in SUBSET {h} : enqueue(p, {h}, acc)
    BY <1>4 DEF Enqueue
  <2>2. UNCHANGED inserting
    BY <1>4 DEF Enqueue
  <2> QED BY <2>1, <2>2, EnqueueKeeps
<1>5. ASSUME NEW p \in Peer, NEW h \in Block, FilterHeaders(p, h) PROVE ImportsInv'
  <2>1. UNCHANGED inserting
    BY <1>5, Zenon DEF FilterHeaders
  <2>2. UNCHANGED imports \/ \E acc \in SUBSET {h} : enqueue(p, {h}, acc)
    BY <1>5, Zenon DEF FilterHeaders
  <2>3. CASE \E acc \in SUBSET {h} : enqueue(p, {h}, acc)
    <3>1. PICK acc \in SUBSET {h} : enqueue(p, {h}, acc)
      BY <2>3
    <3> QED BY <2>1, <3>1, EnqueueKeeps
  <2> QED BY <1>1, <2>1, <2>2, <2>3
<1>6. ASSUME NEW p \in Peer, NEW bodies, FilterBodies(p, bodies) PROVE ImportsInv'
  <2> DEFINE matched == {h \in Completing : /\ queued[h] = None /\ Body[h] \in bodies
                                            /\ completing[h].origin = p}
  <2>1. PICK acc \in SUBSET (matched \ chain) : enqueue(p, matched \ chain, acc)
    BY <1>6, Zenon DEF FilterBodies
  <2>2. UNCHANGED inserting /\ matched \ chain \in SUBSET Block
    BY <1>6, Zenon DEF FilterBodies, Completing
  <2> QED BY <2>1, <2>2, EnqueueKeeps
<1>7. ASSUME NEW hs, FetchTimer(hs) PROVE ImportsInv'
  BY <1>1, <1>7 DEF FetchTimer
<1>8. CASE CompleteTimer
  BY <1>1, <1>8 DEF CompleteTimer
<1>9. ASSUME NEW b \in Block, Done(b) PROVE ImportsInv'
  <2>1. /\ inserting[b] = "done" /\ inserting' = [inserting EXCEPT ![b] = "no"]
        /\ forgetBlock({b}) /\ queue' = queue
    BY <1>9 DEF Done
  <2>2. CountersExact' /\ Queued' = Queued \ {b}
    BY <1>0, <2>1, ForgetBlockExact
  <2>3. b \notin queue
    BY <2>1 DEF ImportsInv, ImportsExact
  <2>4. Queued' = queue' \cup {c \in Block : inserting'[c] # "no"}
    BY <2>1, <2>2, <2>3 DEF ImportsInv, ImportsExact
  <2>5. \A c \in queue' : inserting'[c] = "no"
    BY <2>1, <2>3 DEF ImportsInv, ImportsExact
  <2> QED BY <2>1, <2>2, <2>4, <2>5, Zenon DEF ImportsInv, ImportsExact, CountersExact, Of
<1>10. ASSUME NEW b \in Block, Sync(b) PROVE ImportsInv'
  BY <1>1, <1>10 DEF Sync
<1>11. ASSUME NEW b \in Block, insert(b) PROVE ImportsInv'
  <2>1. /\ inserting[b] # "no" /\ UNCHANGED imports
        /\ \E stage \in {"import", "done"} : inserting' = [inserting EXCEPT ![b] = stage]
    BY <1>11 DEF insert, Verify, Import, Stage
  <2>2. PICK stage \in {"import", "done"} : inserting' = [inserting EXCEPT ![b] = stage]
    BY <2>1, Zenon
  <2>3. {c \in Block : inserting'[c] # "no"} = {c \in Block : inserting[c] # "no"}
    BY <2>1, <2>2 DEF ImportsInv
  <2>4. b \notin queue
    BY <2>1 DEF ImportsInv, ImportsExact
  <2>5. \A c \in queue : inserting'[c] = "no"
    BY <2>2, <2>4 DEF ImportsInv, ImportsExact
  <2>6. inserting' \in [Block -> {"no", "verify", "import", "done"}]
    BY <2>2 DEF ImportsInv
  <2> QED BY <2>1, <2>3, <2>5, <2>6 DEF imports, ImportsInv, ImportsExact, Queued
<1>12. CASE UNCHANGED vars
  BY <1>1, <1>12 DEF vars
<1> QED BY <1>2, <1>3, <1>4, <1>5, <1>6, <1>7, <1>8, <1>9, <1>10, <1>11, <1>12, Zenon DEF Next

\* The books are empty at first.
LEMMA ImportsInit == Init => ImportsInv
<1> SUFFICES ASSUME Init PROVE ImportsInv
  OBVIOUS
<1>1. /\ queue = {} /\ queued = [b \in Block |-> None] /\ queues = [p \in Peer |-> 0]
      /\ inserting = [b \in Block |-> "no"]
  BY DEF Init
<1>2. \A p \in Peer : {b \in Block : queued[b] = p} = {}
  BY <1>1, FetcherConstants
<1>3. Cardinality({}) = 0 /\ 0 <= blockLimit
  BY FS_EmptySet, FetcherConstants
<1>4. \A p \in Peer : queues[p] = Cardinality({b \in Block : queued[b] = p}) /\ queues[p] <= blockLimit
  BY <1>1, <1>2, <1>3
<1> QED BY <1>1, <1>4 DEF ImportsInv, ImportsExact, Queued

-----------------------------------------------------------------------------
(* The timers.                                                             *)

\* TimersArmed is inductive once the tables are functions of the blocks.
TimersInv ==
  /\ announced = [h \in Block |-> announced[h]]
  /\ fetched = [h \in Block |-> fetched[h]]
  /\ TimersArmed

\* Forgetting never leaves anything behind without a timer.
LEMMA ForgetHashArmed ==
  ASSUME TimersInv, NEW hs, forgetHash(hs), UNCHANGED timer
  PROVE  TimersInv'
<1>1. Announced' \subseteq Announced /\ Fetched' \subseteq Fetched
  BY DEF forgetHash, Without, Announced, Fetched
<1>2. TimersArmed'
  BY <1>1 DEF TimersInv, TimersArmed
<1>3. announced' = [h \in Block |-> announced'[h]] /\ fetched' = [h \in Block |-> fetched'[h]]
  BY DEF forgetHash, Without
<1> QED BY <1>2, <1>3 DEF TimersInv

\* Every step of the fetcher keeps the timers that are needed armed.  The code arms
\* a timer only for the first entry of a table, and forgets entries at any time.
LEMMA TimersStep == TimersInv /\ [Next]_vars => TimersInv'
<1> SUFFICES ASSUME TimersInv, [Next]_vars PROVE TimersInv'
  OBVIOUS
<1>1. ASSUME UNCHANGED <<announced, fetched, timer>> PROVE TimersInv'
  BY <1>1 DEF TimersInv, TimersArmed, Announced, Fetched
<1>2. CASE LoopTop
  BY <1>2, ForgetHashArmed DEF LoopTop
<1>3. ASSUME NEW p \in Peer, NEW h \in Block, NEW n, Notify(p, h, n) PROVE TimersInv'
  <2>1. CASE UNCHANGED <<tables, timer>>
    BY <1>1, <2>1 DEF tables
  <2>2. CASE notify(p, h, n)
    <3>1. /\ announced' = [announced EXCEPT ![h] = announced'[h]] /\ fetched' = fetched
          /\ timer' = IF Announced \subseteq {h} THEN timer \cup {"fetch"} ELSE timer
      BY <2>2 DEF notify, TimersInv
    <3>2. "fetch" \in timer'
      BY <3>1 DEF TimersInv, TimersArmed
    <3>3. Fetched' = Fetched /\ timer \subseteq timer'
      BY <3>1 DEF Fetched
    <3>4. announced' = [k \in Block |-> announced'[k]]
      BY <3>1 DEF TimersInv
    <3> QED BY <3>1, <3>2, <3>3, <3>4 DEF TimersInv, TimersArmed
  <2> QED BY <1>3, <2>1, <2>2 DEF Notify
<1>4. ASSUME NEW p \in Peer, NEW h \in Block, Enqueue(p, h) PROVE TimersInv'
  BY <1>4, ForgetHashArmed DEF Enqueue
<1>5. ASSUME NEW p \in Peer, NEW h \in Block, FilterHeaders(p, h) PROVE TimersInv'
  <2>1. CASE UNCHANGED <<tables, timer>>
    BY <1>1, <2>1 DEF tables
  <2>2. CASE forgetHash({h}) /\ UNCHANGED timer
    BY <2>2, ForgetHashArmed
  <2>3. CASE UNCHANGED <<announced, fetched, timer>>
    BY <1>1, <2>3
  <2>4. CASE forgetHeader(h) /\ UNCHANGED timer
    <3>1. Announced' \subseteq Announced /\ Fetched' = Fetched
      BY <2>4 DEF forgetHeader, Without, Announced, Fetched
    <3>2. announced' = [k \in Block |-> announced'[k]] /\ fetched' = fetched
      BY <2>4 DEF forgetHeader, Without
    <3> QED BY <2>4, <3>1, <3>2 DEF TimersInv, TimersArmed
  <2>5. CASE /\ fetched' = [fetched EXCEPT ![h] = <<fetching[h]>>]
             /\ ArmComplete(h) /\ UNCHANGED announced
    <3>1. "complete" \in timer' /\ timer \subseteq timer'
      BY <2>5 DEF ArmComplete, TimersInv, TimersArmed
    <3>2. Announced' = Announced
      BY <2>5 DEF Announced
    <3>3. fetched' = [k \in Block |-> fetched'[k]]
      BY <2>5 DEF TimersInv
    <3> QED BY <2>5, <3>1, <3>2, <3>3 DEF TimersInv, TimersArmed
  <2> QED BY <1>5, <2>1, <2>2, <2>3, <2>4, <2>5, Zenon DEF FilterHeaders
<1>6. ASSUME NEW p \in Peer, NEW bodies, FilterBodies(p, bodies) PROVE TimersInv'
  BY <1>6, ForgetHashArmed DEF FilterBodies
<1>7. ASSUME NEW hs \in SUBSET Announced, FetchTimer(hs) PROVE TimersInv'
  <2>1. /\ timer' = IF Announced \ hs = {} THEN timer \ {"fetch"} ELSE timer
        /\ announced' = [k \in Block |-> IF k \in hs THEN <<>> ELSE announced[k]]
        /\ fetched' = [k \in Block |-> IF k \in hs THEN <<>> ELSE fetched[k]]
    BY <1>7 DEF FetchTimer, rescheduleFetch, Without
  <2>2. Announced' = Announced \ hs /\ Fetched' \subseteq Fetched
    BY <2>1 DEF Announced, Fetched
  <2>3. announced' = [k \in Block |-> announced'[k]] /\ fetched' = [k \in Block |-> fetched'[k]]
    BY <2>1
  <2>4. TimersArmed'
    BY <2>1, <2>2 DEF TimersInv, TimersArmed
  <2> QED BY <2>3, <2>4 DEF TimersInv
<1>8. CASE CompleteTimer
  <2>1. /\ timer' = timer \ {"complete"} /\ fetched' = [h \in Block |-> <<>>]
        /\ announced' = [h \in Block |-> IF h \in Fetched THEN <<>> ELSE announced[h]]
    BY <1>8 DEF CompleteTimer, Without
  <2>2. Announced' \subseteq Announced /\ Fetched' = {}
    BY <2>1 DEF Announced, Fetched
  <2>3. announced' = [k \in Block |-> announced'[k]] /\ fetched' = [k \in Block |-> fetched'[k]]
    BY <2>1
  <2>4. TimersArmed'
    BY <2>1, <2>2 DEF TimersInv, TimersArmed
  <2> QED BY <2>3, <2>4 DEF TimersInv
<1>9. ASSUME NEW b \in Block, Done(b) PROVE TimersInv'
  BY <1>9, ForgetHashArmed DEF Done
<1>10. ASSUME NEW b \in Block, Sync(b) \/ insert(b) PROVE TimersInv'
  BY <1>1, <1>10, Zenon DEF Sync, insert, Verify, Import, tables
<1>11. CASE UNCHANGED vars
  BY <1>1, <1>11 DEF vars, tables
<1> QED BY <1>2, <1>3, <1>4, <1>5, <1>6, <1>7, <1>8, <1>9, <1>10, <1>11, Zenon DEF Next

-----------------------------------------------------------------------------
(* The announcements.                                                      *)

\* The tables of announcements with their types.  NoAnnounceLeak needs no more.
Announcements ==
  /\ announces \in [Peer -> Int]
  /\ announced \in [Block -> Seq(Announce)] /\ fetched \in [Block -> Seq(Announce)]
  /\ fetching \in [Block -> Announce \cup {None}] /\ completing \in [Block -> Announce \cup {None}]
  /\ NoAnnounceLeak

\* The entries of a list, one by one.
LEMMA InListed ==
  ASSUME NEW f, NEW p, NEW hs
  PROVE  \A e : e \in Listed(f, p, hs)
                  <=> \E h \in hs : \E i \in DOMAIN f[h] : f[h][i].origin = p /\ e = <<h, i>>
BY DEF Listed

\* What the tables hold of a peer can be counted.
LEMMA HeldFinite ==
  ASSUME NEW f \in [Block -> Seq(Announce)], NEW p, NEW hs \in SUBSET Block
  PROVE  IsFiniteSet(Listed(f, p, hs)) /\ Cardinality(Listed(f, p, hs)) \in Nat
<1> DEFINE part(h) == {h} \X {i \in DOMAIN f[h] : f[h][i].origin = p}
           parts   == {part(h) : h \in hs}
           F       == [h \in hs |-> part(h)]
<1>1. IsFiniteSet(hs)
  BY FS_Subset, FetcherConstants
<1>2. F \in Surjection(hs, parts)
  BY Zenon DEF Surjection
<1>3. IsFiniteSet(parts)
  <2> HIDE DEF F, parts
  <2> QED BY <1>1, <1>2, FS_Surjection
<1>4. ASSUME NEW h \in hs PROVE IsFiniteSet(part(h))
  <2> DEFINE I == {i \in DOMAIN f[h] : f[h][i].origin = p}
  <2>1. f[h] \in Seq(Announce)
    OBVIOUS
  <2>2. I \subseteq 1..Len(f[h]) /\ Len(f[h]) \in Nat
    BY <2>1
  <2> HIDE DEF I
  <2>3. IsFiniteSet(1..Len(f[h]))
    BY <2>2, FS_Interval
  <2>4. IsFiniteSet(I)
    BY <2>2, <2>3, FS_Subset, Zenon
  <2>5. IsFiniteSet({h} \X I)
    BY <2>4, FS_Singleton, FS_Product, Zenon
  <2> QED BY <2>5 DEF I
<1>5. \A T \in parts : IsFiniteSet(T)
  BY <1>4
<1>6. Listed(f, p, hs) = UNION parts
  BY DEF Listed
<1> HIDE DEF parts
<1>7. IsFiniteSet(UNION parts)
  BY <1>3, <1>5, FS_UNION
<1> QED BY <1>6, <1>7, FS_CardinalityType

\* Whoever takes the announcements of hs from the tables and gives back what the
\* tables held of them keeps the counters below the announcements.
LEMMA ReleaseKeeps ==
  ASSUME Announcements, NEW hs \in SUBSET Block,
         announces' \in [Peer -> Int], \A p \in Peer : announces'[p] <= Released(hs)[p],
         announced' = Without(announced, hs, <<>>),
         fetched' \in [Block -> Seq(Announce)],
         fetching' \in [Block -> Announce \cup {None}], completing' \in [Block -> Announce \cup {None}]
  PROVE  Announcements'
<1>1. announced \in [Block -> Seq(Announce)] /\ fetched \in [Block -> Seq(Announce)]
  BY DEF Announcements
<1>2. announced' \in [Block -> Seq(Announce)]
  BY <1>1 DEF Without
<1>3. ASSUME NEW p \in Peer
      PROVE  announces'[p] <= Cardinality(Listed(announced', p, Block))
  <2> DEFINE all  == Listed(announced, p, Block)
             gone == Listed(announced, p, hs)
  <2>1. Listed(announced', p, Block) = all \ gone /\ gone \subseteq all
    <3>1. \A h \in hs : announced'[h] = <<>>
      BY DEF Without
    <3>2. \A h \in Block \ hs : announced'[h] = announced[h]
      BY DEF Without
    <3> QED BY <3>1, <3>2, SMTT(60) DEF Listed
  <2>2. IsFiniteSet(all) /\ Cardinality(all) \in Nat /\ Cardinality(gone) \in Nat
    BY <1>1, HeldFinite, Zenon
  <2>3. Cardinality(all \ gone) = Cardinality(all) - Cardinality(gone)
    <3>1. all \cap gone = gone
      BY <2>1
    <3> HIDE DEF all, gone
    <3> QED BY <2>2, <3>1, FS_Difference, Zenon
  <2>4. Cardinality(Listed(fetched, p, hs)) \in Nat
    BY <1>1, HeldFinite
  <2>5. /\ Cardinality(Single(fetching, p, hs)) \in Nat
        /\ Cardinality(Single(completing, p, hs)) \in Nat
    <3>1. Single(fetching, p, hs) \subseteq Block /\ Single(completing, p, hs) \subseteq Block
      BY DEF Single
    <3> QED BY <3>1, FetcherConstants, FS_Subset, FS_CardinalityType
  <2>6. announces[p] \in Int /\ announces[p] <= Cardinality(all) /\ announces'[p] \in Int
    BY DEF Announcements, NoAnnounceLeak
  <2>7. /\ announces'[p] <= announces[p] - Held(p, hs)
        /\ Held(p, hs) = Cardinality(gone) + Cardinality(Single(fetching, p, hs))
             + Cardinality(Listed(fetched, p, hs)) + Cardinality(Single(completing, p, hs))
    BY Zenon DEF Released, Held
  <2> HIDE DEF all, gone
  <2>8. announces'[p] <= Cardinality(all) - Cardinality(gone)
    BY <2>2, <2>4, <2>5, <2>6, <2>7, SMTT(60)
  <2> QED BY <2>1, <2>3, <2>8, Zenon
<1> QED BY <1>2, <1>3 DEF Announcements, NoAnnounceLeak

\* The counters that forgetHash leaves are integers.
LEMMA ReleasedType ==
  ASSUME Announcements, NEW hs \in SUBSET Block
  PROVE  Released(hs) \in [Peer -> Int]
<1>1. ASSUME NEW p \in Peer PROVE announces[p] - Held(p, hs) \in Int
  <2>1. Cardinality(Listed(announced, p, hs)) \in Nat /\ Cardinality(Listed(fetched, p, hs)) \in Nat
    BY HeldFinite, Zenon DEF Announcements
  <2>2. Single(fetching, p, hs) \subseteq Block /\ Single(completing, p, hs) \subseteq Block
    BY DEF Single
  <2>3. /\ Cardinality(Single(fetching, p, hs)) \in Nat
        /\ Cardinality(Single(completing, p, hs)) \in Nat
    BY <2>2, FetcherConstants, FS_Subset, FS_CardinalityType
  <2>4. announces[p] \in Int
    BY DEF Announcements
  <2> QED BY <2>1, <2>3, <2>4 DEF Held
<1> QED BY <1>1 DEF Released

\* forgetHash, in particular.
LEMMA ForgetHashKeeps ==
  ASSUME Announcements, NEW hs \in SUBSET Block, forgetHash(hs)
  PROVE  Announcements'
<1>1. announces' = Released(hs) /\ Released(hs) \in [Peer -> Int]
  BY ReleasedType DEF forgetHash
<1>2. \A p \in Peer : announces'[p] <= Released(hs)[p]
  BY <1>1
<1>3. fetched' \in [Block -> Seq(Announce)]
  BY DEF forgetHash, Without, Announcements
<1>4. fetching' \in [Block -> Announce \cup {None}] /\ completing' \in [Block -> Announce \cup {None}]
  BY DEF forgetHash, Without, Announcements
<1>5. announced' = Without(announced, hs, <<>>)
  BY DEF forgetHash
<1> QED BY <1>1, <1>2, <1>3, <1>4, <1>5, ReleaseKeeps

\* A scheduled announcement is counted once and listed once.
LEMMA NotifyKeeps ==
  ASSUME Announcements, NEW p \in Peer, NEW h \in Block, NEW n \in Nat, notify(p, h, n)
  PROVE  Announcements'
<1> DEFINE ann == [origin |-> p, number |-> n]
<1>1. /\ announces \in [Peer -> Int] /\ announced \in [Block -> Seq(Announce)] /\ ann \in Announce
      /\ announces' = [announces EXCEPT ![p] = @ + 1]
      /\ announced' = [announced EXCEPT ![h] = Append(@, ann)]
  BY DEF Announcements, notify, Announce
<1>2. fetching' = fetching /\ fetched' = fetched /\ completing' = completing
  BY DEF notify
<1>3. announces' \in [Peer -> Int] /\ announced' \in [Block -> Seq(Announce)]
  BY <1>1
<1>4. ASSUME NEW q \in Peer
      PROVE  announces'[q] <= Cardinality(Listed(announced', q, Block))
  <2> DEFINE old == Listed(announced, q, Block)
             e   == <<h, Len(announced[h]) + 1>>
  <2>1. IsFiniteSet(old) /\ Cardinality(old) \in Nat
    BY <1>1, HeldFinite, Zenon
  <2>2. announces[q] \in Int /\ announces[q] <= Cardinality(old)
    BY DEF Announcements, NoAnnounceLeak
  <2>3. /\ \A k \in Block \ {h} : announced'[k] = announced[k]
        /\ DOMAIN announced'[h] = 1..(Len(announced[h]) + 1)
        /\ DOMAIN announced[h] = 1..Len(announced[h]) /\ Len(announced[h]) \in Nat
        /\ \A i \in 1..Len(announced[h]) : announced'[h][i] = announced[h][i]
        /\ announced'[h][Len(announced[h]) + 1] = ann
    BY <1>1
  <2>4. CASE q = p
    <3>1. ann.origin = q
      BY <2>4
    <3>2. Listed(announced', q, Block) = old \cup {e} /\ e \notin old
      <4> DEFINE new == {i \in DOMAIN announced'[h] : announced'[h][i].origin = q}
                 prev == {i \in DOMAIN announced[h] : announced[h][i].origin = q}
      <4>1. new = prev \cup {Len(announced[h]) + 1} /\ Len(announced[h]) + 1 \notin prev
        <5> HIDE DEF ann
        <5> QED BY <2>3, <3>1, SMTT(60)
      <4> HIDE DEF new, prev
      <4>2. ASSUME NEW k \in Block \ {h}, NEW i
            PROVE  (i \in DOMAIN announced'[k] /\ announced'[k][i].origin = q)
                     <=> (i \in DOMAIN announced[k] /\ announced[k][i].origin = q)
        BY <2>3
      <4>3. \A x : x \in Listed(announced', q, Block) <=> x \in old \/ x = e
        <5>1. \A x : x \in old <=> \E k \in Block : \E i \in DOMAIN announced[k] :
                       announced[k][i].origin = q /\ x = <<k, i>>
          BY InListed
        <5>2. \A x : x \in Listed(announced', q, Block) <=> \E k \in Block : \E i \in DOMAIN announced'[k] :
                       announced'[k][i].origin = q /\ x = <<k, i>>
          BY InListed
        <5> HIDE DEF old, ann
        <5>3. \A i : i \in new <=> i \in DOMAIN announced'[h] /\ announced'[h][i].origin = q
          BY DEF new
        <5>4. \A i : i \in prev <=> i \in DOMAIN announced[h] /\ announced[h][i].origin = q
          BY DEF prev
        <5> QED BY <4>1, <4>2, <5>1, <5>2, <5>3, <5>4, SMTT(60)
      <4>4. e \notin old
        <5>1. \A x : x \in old <=> \E k \in Block : \E i \in DOMAIN announced[k] :
                       announced[k][i].origin = q /\ x = <<k, i>>
          BY InListed
        <5> HIDE DEF old
        <5> QED BY <2>3, <5>1
      <4> QED BY <4>3, <4>4
    <3>3. announces'[q] = announces[q] + 1
      BY <1>1, <2>4
    <3> HIDE DEF old, e
    <3>4. Cardinality(old \cup {e}) = Cardinality(old) + 1
      BY <2>1, <3>2, FS_AddElement
    <3> QED BY <2>1, <2>2, <3>2, <3>3, <3>4
  <2>5. CASE q # p
    <3>1. ann.origin # q
      BY <2>5
    <3>2. {i \in DOMAIN announced'[h] : announced'[h][i].origin = q}
            = {i \in DOMAIN announced[h] : announced[h][i].origin = q}
      <4> HIDE DEF ann
      <4> QED BY <2>3, <3>1
    <3>3. Listed(announced', q, Block) = old
      <4>1. \A k \in Block : {i \in DOMAIN announced'[k] : announced'[k][i].origin = q}
                               = {i \in DOMAIN announced[k] : announced[k][i].origin = q}
        BY <2>3, <3>2, SMTT(60)
      <4>2. \A k \in Block : \A i : (i \in DOMAIN announced'[k] /\ announced'[k][i].origin = q)
                                     <=> (i \in DOMAIN announced[k] /\ announced[k][i].origin = q)
        BY <4>1
      <4>3. \A x : x \in old <=> \E k \in Block : \E i \in DOMAIN announced[k] :
                     announced[k][i].origin = q /\ x = <<k, i>>
        BY InListed
      <4>4. \A x : x \in Listed(announced', q, Block) <=> \E k \in Block : \E i \in DOMAIN announced'[k] :
                     announced'[k][i].origin = q /\ x = <<k, i>>
        BY InListed
      <4> HIDE DEF old
      <4>5. \A x : x \in Listed(announced', q, Block) <=> x \in old
        BY <4>2, <4>3, <4>4
      <4> QED BY <4>5, Zenon
    <3>4. announces'[q] = announces[q]
      BY <1>1, <2>5
    <3> QED BY <2>2, <3>3, <3>4
  <2> QED BY <2>4, <2>5
<1> QED BY <1>2, <1>3, <1>4 DEF Announcements, NoAnnounceLeak

\* A block picks one of its announcements.
LEMMA PicksType ==
  ASSUME NEW f \in [Block -> Seq(Announce)], NEW hs \in SUBSET Block, NEW pick \in Picks(f, hs)
  PROVE  \A h \in hs : pick[h] \in Announce
<1> SUFFICES ASSUME NEW h \in hs PROVE pick[h] \in Announce
  OBVIOUS
<1>1. pick[h] \in ToSet(f[h]) /\ f[h] \in Seq(Announce)
  BY DEF Picks
<1> QED BY <1>1 DEF ToSet

\* Every step of the fetcher keeps the counters below the announcements.
LEMMA AnnouncementsStep == Announcements /\ [Next]_vars => Announcements'
<1> SUFFICES ASSUME Announcements, [Next]_vars PROVE Announcements'
  OBVIOUS
<1>0. /\ announces \in [Peer -> Int] /\ announced \in [Block -> Seq(Announce)]
      /\ fetched \in [Block -> Seq(Announce)]
      /\ fetching \in [Block -> Announce \cup {None}] /\ completing \in [Block -> Announce \cup {None}]
  BY DEF Announcements
<1>1. ASSUME UNCHANGED tables PROVE Announcements'
  BY <1>1 DEF tables, Announcements, NoAnnounceLeak
<1>2. CASE LoopTop
  <2>1. PICK hs \in SUBSET Fetching : forgetHash(hs)
    BY <1>2, Zenon DEF LoopTop
  <2>2. hs \in SUBSET Block
    BY DEF Fetching
  <2> QED BY <2>1, <2>2, ForgetHashKeeps
<1>3. ASSUME NEW p \in Peer, NEW h \in Block, NEW n \in {0, Number[h]}, Notify(p, h, n)
      PROVE  Announcements'
  <2>1. n \in Nat
    BY FetcherConstants
  <2>2. UNCHANGED tables \/ notify(p, h, n)
    BY <1>3 DEF Notify
  <2> QED BY <1>1, <2>1, <2>2, NotifyKeeps
<1>4. ASSUME NEW p \in Peer, NEW h \in Block, Enqueue(p, h) PROVE Announcements'
  <2>1. PICK acc \in SUBSET {h} : forgetHash(Discarded(p, {h}, acc))
    BY <1>4 DEF Enqueue
  <2>2. Discarded(p, {h}, acc) \in SUBSET Block
    BY DEF Discarded
  <2> QED BY <2>1, <2>2, ForgetHashKeeps
<1>5. ASSUME NEW p \in Peer, NEW h \in Block, FilterHeaders(p, h) PROVE Announcements'
  <2>1. CASE UNCHANGED tables
    BY <1>1, <2>1
  <2>2. CASE forgetHash({h})
    BY <2>2, ForgetHashKeeps
  <2>3. CASE Requested(p, h) /\ forgetHeader(h)
    <3>1. /\ announces' = [Released({h}) EXCEPT ![fetching[h].origin] = @ - 1]
          /\ announced' = Without(announced, {h}, <<>>)
          /\ fetching' = Without(fetching, {h}, None) /\ fetched' = fetched /\ completing' = completing
      BY <2>3 DEF forgetHeader
    <3>2. Released({h}) \in [Peer -> Int]
      BY ReleasedType
    <3>3. announces' \in [Peer -> Int] /\ \A q \in Peer : announces'[q] <= Released({h})[q]
      <4> DEFINE R == Released({h})
                 o == fetching[h].origin
      <4>1. R \in [Peer -> Int] /\ announces' = [R EXCEPT ![o] = R[o] - 1]
        BY <3>1, <3>2, Zenon
      <4>2. o \in Peer
        BY <1>0, <2>3 DEF Requested, Announce
      <4> HIDE DEF R, o
      <4>3. announces' \in [Peer -> Int] /\ \A q \in Peer : announces'[q] <= R[q]
        BY <4>1, <4>2
      <4> QED BY <4>3 DEF R
    <3>4. fetching' \in [Block -> Announce \cup {None}]
      BY <1>0, <3>1 DEF Without
    <3> QED BY <1>0, <3>1, <3>3, <3>4, ReleaseKeeps, Zenon
  <2>4. CASE /\ completing' = [completing EXCEPT ![h] = fetching[h]]
             /\ UNCHANGED <<announces, announced, fetching, fetched>>
    <3>1. completing' \in [Block -> Announce \cup {None}]
      BY <1>0, <2>4
    <3> QED BY <2>4, <3>1 DEF Announcements, NoAnnounceLeak
  <2>5. CASE /\ Requested(p, h) /\ fetched' = [fetched EXCEPT ![h] = <<fetching[h]>>]
             /\ UNCHANGED <<announces, announced, fetching, completing>>
    <3>1. fetching[h] \in Announce
      BY <1>0, <2>5 DEF Requested
    <3>2. fetched' \in [Block -> Seq(Announce)]
      BY <1>0, <2>5, <3>1
    <3> QED BY <2>5, <3>2 DEF Announcements, NoAnnounceLeak
  <2> QED BY <1>5, <2>1, <2>2, <2>3, <2>4, <2>5, Zenon DEF FilterHeaders
<1>6. ASSUME NEW p \in Peer, NEW bodies, FilterBodies(p, bodies) PROVE Announcements'
  <2> DEFINE matched == {h \in Completing : /\ queued[h] = None /\ Body[h] \in bodies
                                            /\ completing[h].origin = p}
  <2>1. PICK acc \in SUBSET (matched \ chain) :
          forgetHash((matched \cap chain) \cup Discarded(p, matched \ chain, acc))
    BY <1>6, Zenon DEF FilterBodies
  <2>2. (matched \cap chain) \cup Discarded(p, matched \ chain, acc) \in SUBSET Block
    BY DEF Discarded, Completing
  <2> QED BY <2>1, <2>2, ForgetHashKeeps, Zenon
<1>7. ASSUME NEW hs \in SUBSET Announced, FetchTimer(hs) PROVE Announcements'
  <2>0. hs \in SUBSET Block
    BY DEF Announced
  <2>1. /\ announces' = Released(hs) /\ announced' = Without(announced, hs, <<>>)
        /\ fetched' = Without(fetched, hs, <<>>) /\ completing' = Without(completing, hs, None)
    BY <1>7 DEF FetchTimer
  <2>2. PICK pick \in Picks(announced, hs) :
          fetching' = [h \in Block |-> IF h \notin hs THEN fetching[h]
                                       ELSE IF Known(h) THEN None ELSE pick[h]]
    BY <1>7 DEF FetchTimer
  <2>3. \A h \in hs : pick[h] \in Announce
    BY <1>0, <2>0, PicksType, Zenon
  <2>4. fetching' \in [Block -> Announce \cup {None}]
    BY <1>0, <2>2, <2>3
  <2>5. fetched' \in [Block -> Seq(Announce)] /\ completing' \in [Block -> Announce \cup {None}]
    BY <1>0, <2>1 DEF Without
  <2>6. announces' \in [Peer -> Int] /\ \A p \in Peer : announces'[p] <= Released(hs)[p]
    BY <2>0, <2>1, ReleasedType
  <2> QED BY <2>0, <2>1, <2>4, <2>5, <2>6, ReleaseKeeps
<1>8. CASE CompleteTimer
  <2>0. Fetched \in SUBSET Block
    BY DEF Fetched
  <2>1. /\ announces' = Released(Fetched) /\ announced' = Without(announced, Fetched, <<>>)
        /\ fetched' = [h \in Block |-> <<>>] /\ fetching' = Without(fetching, Fetched, None)
    BY <1>8, Zenon DEF CompleteTimer
  <2>2. PICK pick \in Picks(fetched, Fetched) :
          completing' = [h \in Block |-> IF h \notin Fetched THEN completing[h]
                                         ELSE IF Known(h) THEN None ELSE pick[h]]
    BY <1>8 DEF CompleteTimer
  <2>3. \A h \in Fetched : pick[h] \in Announce
    BY <1>0, <2>0, PicksType, Zenon
  <2>4. completing' \in [Block -> Announce \cup {None}]
    BY <1>0, <2>2, <2>3
  <2>5. fetched' \in [Block -> Seq(Announce)] /\ fetching' \in [Block -> Announce \cup {None}]
    BY <1>0, <2>1 DEF Without
  <2>6. announces' \in [Peer -> Int] /\ \A p \in Peer : announces'[p] <= Released(Fetched)[p]
    BY <2>0, <2>1, ReleasedType
  <2> QED BY <2>0, <2>1, <2>4, <2>5, <2>6, ReleaseKeeps
<1>9. ASSUME NEW b \in Block, Done(b) PROVE Announcements'
  BY <1>9, ForgetHashKeeps DEF Done
<1>10. ASSUME NEW b \in Block, Sync(b) \/ insert(b) PROVE Announcements'
  BY <1>1, <1>10 DEF Sync, insert, Verify, Import
<1>11. CASE UNCHANGED vars
  BY <1>1, <1>11 DEF vars
<1> QED BY <1>2, <1>3, <1>4, <1>5, <1>6, <1>7, <1>8, <1>9, <1>10, <1>11 DEF Next

\* The rest of the types.
LoopTypes ==
  /\ pc \in {"top", "select"} /\ peers \subseteq Peer
  /\ timer \subseteq {"fetch", "complete"} /\ asked \subseteq Block /\ chain \subseteq Block

\* They are kept without more.
LEMMA LoopTypesStep == LoopTypes /\ [Next]_vars => LoopTypes'
<1> SUFFICES ASSUME LoopTypes, [Next]_vars PROVE LoopTypes'
  OBVIOUS
<1>1. CASE LoopTop
  BY <1>1 DEF LoopTop, LoopTypes, env
<1>2. ASSUME NEW p, NEW h, NEW n, Notify(p, h, n) PROVE LoopTypes'
  BY <1>2 DEF Notify, notify, Selected, LoopTypes
<1>3. ASSUME NEW p, NEW h, Enqueue(p, h) PROVE LoopTypes'
  BY <1>3 DEF Enqueue, Selected, LoopTypes
<1>4. ASSUME NEW p, NEW h, FilterHeaders(p, h) PROVE LoopTypes'
  <2>1. pc' = "top" /\ UNCHANGED <<asked, chain>>
    BY <1>4, Zenon DEF FilterHeaders, Selected
  <2>2. peers' = peers \/ peers' = peers \ {p}
    BY <1>4, Zenon DEF FilterHeaders
  <2>3. timer' = timer \/ timer' = timer \cup {"complete"}
    BY <1>4, Zenon DEF FilterHeaders, ArmComplete
  <2> QED BY <2>1, <2>2, <2>3, Zenon DEF LoopTypes
<1>5. ASSUME NEW p, NEW bodies, FilterBodies(p, bodies) PROVE LoopTypes'
  BY <1>5 DEF FilterBodies, Selected, LoopTypes, env
<1>6. ASSUME NEW hs, FetchTimer(hs) PROVE LoopTypes'
  BY <1>6 DEF FetchTimer, rescheduleFetch, Selected, LoopTypes, env
<1>7. CASE CompleteTimer
  <2>1. pc' = "top" /\ timer' = timer \ {"complete"} /\ UNCHANGED <<peers, chain>>
    BY <1>7 DEF CompleteTimer, Selected, env
  <2>2. PICK pick \in Picks(fetched, Fetched) :
          \E sent \in BodyRequests([h \in Fetched \ chain |-> pick[h].origin]) :
            asked' = ((asked \cap Completing) \ Fetched) \cup sent
    BY <1>7, Zenon DEF CompleteTimer
  <2>3. PICK sent \in BodyRequests([h \in Fetched \ chain |-> pick[h].origin]) :
          asked' = ((asked \cap Completing) \ Fetched) \cup sent
    BY <2>2
  <2>4. sent \subseteq Block
    BY Zenon DEF BodyRequests, Fetched
  <2> QED BY <2>1, <2>3, <2>4 DEF LoopTypes
<1>8. ASSUME NEW b \in Block, Done(b) \/ Sync(b) \/ insert(b) PROVE LoopTypes'
  BY <1>8, Zenon DEF Done, Sync, insert, Verify, Import, Selected, LoopTypes, env
<1>9. CASE UNCHANGED vars
  BY <1>9 DEF vars, env, LoopTypes
<1> QED BY <1>1, <1>2, <1>3, <1>4, <1>5, <1>6, <1>7, <1>8, <1>9 DEF Next

\* The tables of the loop, its counters and its timers agree at every moment: the
\* books on imports are exact, no announcement is counted that is not held, and
\* what waits for a timer has an armed one.
THEOREM TablesAlwaysExact == Spec => []TablesExact
<1>1. Init => Announcements
  <2> SUFFICES ASSUME Init PROVE Announcements
    OBVIOUS
  <2>1. /\ announces = [p \in Peer |-> 0]
        /\ announced = [h \in Block |-> <<>>] /\ fetched = [h \in Block |-> <<>>]
        /\ fetching = [h \in Block |-> None] /\ completing = [h \in Block |-> None]
    BY DEF Init
  <2>2. announced \in [Block -> Seq(Announce)] /\ fetched \in [Block -> Seq(Announce)]
    BY <2>1
  <2>3. \A p \in Peer : Cardinality(Listed(announced, p, Block)) \in Nat
    BY <2>2, HeldFinite
  <2>4. \A p \in Peer : announces[p] <= Cardinality(Listed(announced, p, Block))
    BY <2>1, <2>3
  <2> QED BY <2>1, <2>2, <2>4 DEF Announcements, NoAnnounceLeak
<1>2. Init => LoopTypes
  BY FetcherConstants, Zenon DEF Init, LoopTypes
<1>3. Init => TimersInv
  BY DEF Init, TimersInv, TimersArmed, Announced, Fetched
<1>4. Init => ImportsInv
  BY ImportsInit
<1>5. ImportsInv /\ TimersInv /\ Announcements /\ LoopTypes => TablesExact
  BY DEF ImportsInv, TimersInv, Announcements, LoopTypes, TablesExact, TypeOK
<1> QED
  BY <1>1, <1>2, <1>3, <1>4, <1>5, ImportsStep, TimersStep, AnnouncementsStep, LoopTypesStep, PTL DEF Spec

=============================================================================
