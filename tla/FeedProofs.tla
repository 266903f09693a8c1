----------------------------- MODULE FeedProofs -----------------------------
(***************************************************************************)
(* The completeness of the delivery in Feed, for any number of channels    *)
(* and calls.                                                              *)
(***************************************************************************)
EXTENDS Feed, SequenceTheorems, WellFoundedInduction, TLAPS

-----------------------------------------------------------------------------
(* Slices.                                                                 *)

\* A set of numbers that has 0 and is closed under successor has them all.
LEMMA Numerals ==
  ASSUME NEW S, 0 \in S, \A n \in Nat : n \in S => n + 1 \in S
  PROVE  \A n \in Nat : n \in S
<1> DEFINE T == {n \in Nat : n \notin S}
           R == OpToRel(<, Nat)
<1> SUFFICES ASSUME T # {} PROVE FALSE
  OBVIOUS
<1>1. \E x \in T : \A y \in T : ~(<<y, x>> \in R)
  <2>1. T \subseteq Nat /\ T # {}
    OBVIOUS
  <2> HIDE DEF T, R
  <2>2. IsWellFoundedOn(R, Nat)
    BY NatLessThanWellFounded, Zenon DEF R
  <2> QED BY <2>1, <2>2, WFMin, Zenon
<1>2. PICK x \in T : \A y \in T : ~(<<y, x>> \in R)
  BY <1>1, Zenon
<1>3. x \in Nat /\ x # 0 /\ x - 1 \in Nat
  OBVIOUS
<1>4. x - 1 \in T
  <2>1. x - 1 \in S => x - 1 + 1 \in S
    BY <1>3
  <2>2. x - 1 + 1 = x
    BY <1>3
  <2> QED BY <1>3, <2>1, <2>2
<1>5. <<x - 1, x>> \in R
  BY <1>3 DEF OpToRel
<1> QED BY <1>2, <1>4, <1>5, Zenon

\* What is in a sequence is at one of its places.
LEMMA Members ==
  ASSUME NEW S, NEW s \in Seq(S), NEW x
  PROVE  x \in Range(s) <=> \E i \in 1..Len(s) : s[i] = x
BY DEF Range

\* find gives a place of the channel, and 0 only if there is none.
LEMMA Finds ==
  ASSUME NEW S, NEW s \in Seq(S), IsInjective(s), NEW c
  PROVE  IF c \in Range(s) THEN find(s, c) \in 1..Len(s) /\ s[find(s, c)] = c ELSE find(s, c) = 0
<1> DEFINE I == {i \in 1..Len(s) : s[i] = c}
<1>1. find(s, c) = IF I # {} THEN Min(I) ELSE 0
  BY DEF find, SelectInSeq
<1>2. CASE I = {}
  BY <1>1, <1>2 DEF Range
<1>3. CASE I # {}
  <2>1. PICK i \in 1..Len(s) : s[i] = c
    BY <1>3
  <2>2. I = {i}
    BY <2>1 DEF IsInjective
  <2>3. Min(I) = i
    <3> HIDE DEF I
    <3> QED BY <2>1, <2>2 DEF Min
  <2> QED BY <1>1, <1>3, <2>1, <2>3 DEF Range
<1> QED BY <1>2, <1>3

\* RemoveFirst takes the channel out of a list that has each channel once.
LEMMA RemovesOne ==
  ASSUME NEW S, NEW s \in Seq(S), IsInjective(s), NEW c
  PROVE  LET r == RemoveFirst(s, c)
         IN  r \in Seq(S) /\ IsInjective(r) /\ Range(r) = Range(s) \ {c}
<1>1. CASE \E i \in 1..Len(s) : s[i] = c
  <2> DEFINE k == find(s, c)
             r == RemoveAt(s, k)
  <2>1. k \in 1..Len(s) /\ s[k] = c
    BY <1>1, Finds, Members
  <2>2. RemoveFirst(s, c) = r
    BY <1>1 DEF RemoveFirst, find
  <2> HIDE DEF k
  <2>3. /\ r \in Seq(S) /\ Len(r) = Len(s) - 1
        /\ \A i \in 1..Len(r) : r[i] = s[IF i < k THEN i ELSE i + 1]
    <3> DEFINE p == SubSeq(s, 1, k - 1)
               q == SubSeq(s, k + 1, Len(s))
    <3>1. p \in Seq(S) /\ Len(p) = k - 1 /\ \A i \in 1..k - 1 : p[i] = s[i]
      BY <2>1
    <3>2. q \in Seq(S) /\ Len(q) = Len(s) - k /\ \A i \in 1..Len(s) - k : q[i] = s[k + i]
      BY <2>1
    <3>3. r = p \o q
      BY DEF RemoveAt
    <3> HIDE DEF p, q, r
    <3>4. r \in Seq(S) /\ Len(r) = Len(s) - 1
      BY <2>1, <3>1, <3>2, <3>3
    <3>5. ASSUME NEW i \in 1..Len(r) PROVE r[i] = s[IF i < k THEN i ELSE i + 1]
      <4>1. CASE i < k
        BY <2>1, <3>1, <3>2, <3>3, <3>4, <4>1
      <4>2. CASE i >= k
        <5>1. i - Len(p) \in 1..Len(s) - k /\ k + (i - Len(p)) = i + 1
          BY <2>1, <3>1, <3>4, <4>2
        <5>2. r[i] = q[i - Len(p)]
          BY <2>1, <3>1, <3>2, <3>3, <3>4, <4>2
        <5>3. q[i - Len(p)] = s[k + (i - Len(p))]
          BY <3>2, <5>1
        <5> QED BY <2>1, <4>2, <5>1, <5>2, <5>3
      <4> QED BY <2>1, <4>1, <4>2
    <3> QED BY <3>4, <3>5
  <2> HIDE DEF r
  <2>4. IsInjective(r)
    <3> SUFFICES ASSUME NEW i \in 1..Len(r), NEW j \in 1..Len(r), r[i] = r[j] PROVE i = j
      BY <2>3 DEF IsInjective
    <3> DEFINE a == IF i < k THEN i ELSE i + 1
               b == IF j < k THEN j ELSE j + 1
    <3>1. a \in 1..Len(s) /\ b \in 1..Len(s) /\ (a = b => i = j)
      BY <2>1, <2>3
    <3>2. s[a] = s[b]
      BY <2>3, Zenon
    <3> HIDE DEF a, b
    <3> QED BY <3>1, <3>2 DEF IsInjective
  <2>5. ASSUME NEW x PROVE x \in Range(r) <=> x \in Range(s) \ {c}
    <3>1. ASSUME NEW i \in 1..Len(r), r[i] = x PROVE x \in Range(s) \ {c}
      <4> DEFINE j == IF i < k THEN i ELSE i + 1
      <4>1. j \in 1..Len(s) /\ j # k
        BY <2>1, <2>3
      <4>2. s[j] = x
        BY <2>3, <3>1, Zenon
      <4> HIDE DEF j
      <4> QED BY <2>1, <4>1, <4>2, Members DEF IsInjective
    <3>2. ASSUME NEW j \in 1..Len(s), s[j] = x, x # c PROVE \E i \in 1..Len(r) : r[i] = x
      <4>1. CASE j < k
        BY <2>1, <2>3, <3>2, <4>1
      <4>2. CASE j > k
        <5>1. j - 1 \in 1..Len(r) /\ r[j - 1] = x
          BY <2>1, <2>3, <3>2, <4>2
        <5> QED BY <5>1
      <4> QED BY <2>1, <3>2, <4>1, <4>2
    <3> QED BY <2>3, <3>1, <3>2, Members
  <2> QED BY <2>2, <2>3, <2>4, <2>5
<1>2. CASE ~\E i \in 1..Len(s) : s[i] = c
  <2>1. RemoveFirst(s, c) = s /\ c \notin Range(s)
    BY <1>2, Members DEF RemoveFirst
  <2> QED BY <2>1
<1> QED BY <1>1, <1>2

\* removeAll takes out exactly the pending ones.
LEMMA RemovesAll ==
  ASSUME NEW S, NEW list \in Seq(S), IsInjective(list), NEW T, NEW pending \in Seq(T)
  PROVE  LET r == removeAll(list, pending)
         IN  r \in Seq(S) /\ IsInjective(r) /\ Range(r) = Range(list) \ Range(pending)
<1> DEFINE n == Len(pending)
           Eq(f, k) == f = [i \in 0..k |-> IF i = 0 THEN list ELSE RemoveFirst(f[i - 1], pending[i])]
           left == CHOOSE f : Eq(f, n)
           A == {k \in Nat : \E f : Eq(f, k)}
           Out(k) == {pending[j] : j \in 1..k}
           Good(s, k) == s \in Seq(S) /\ IsInjective(s) /\ Range(s) = Range(list) \ Out(k)
           B == {k \in Nat : k <= n => Good(left[k], k)}
<1>1. removeAll(list, pending) = left[n] /\ n \in Nat
  BY DEF removeAll
<1> HIDE DEF n
<1>2. 0 \in A
  <2> DEFINE f == [i \in 0..0 |-> list]
  <2>1. Eq(f, 0)
    OBVIOUS
  <2> HIDE DEF f, Eq
  <2> QED BY <2>1
<1>3. ASSUME NEW k \in Nat, k \in A PROVE k + 1 \in A
  <2> DEFINE l == k + 1
  <2>1. PICK f : Eq(f, k)
    BY <1>3
  <2> DEFINE g == [i \in 0..l |-> IF i = l THEN RemoveFirst(f[k], pending[l]) ELSE f[i]]
  <2>2. l \in Nat /\ l # 0 /\ l - 1 = k /\ l \in 0..l /\ k \in 0..l /\ k # l
    OBVIOUS
  <2>3. \A i \in 0..l : i = l \/ (i \in 0..k /\ i # l /\ (i = 0 \/ i - 1 \in 0..k) /\ (i - 1 \in 0..k => i - 1 \in 0..l /\ i - 1 # l))
    OBVIOUS
  <2> HIDE DEF l
  <2>4. ASSUME NEW i \in 0..l PROVE g[i] = IF i = 0 THEN list ELSE RemoveFirst(g[i - 1], pending[i])
    <3>1. CASE i = l
      <4>1. g[k] = f[k] /\ g[l] = RemoveFirst(f[k], pending[l])
        BY <2>2, Zenon
      <4> QED BY <2>2, <3>1, <4>1, Zenon
    <3>2. CASE i # l /\ i = 0
      <4>1. f[0] = list
        BY <2>1, <2>3, <3>2, Zenon
      <4> QED BY <3>2, <4>1, Zenon
    <3>3. CASE i # l /\ i # 0
      <4>1. i \in 0..k /\ i - 1 \in 0..l /\ i - 1 # l
        BY <2>3, <3>3, Zenon
      <4>2. f[i] = RemoveFirst(f[i - 1], pending[i])
        BY <2>1, <3>3, <4>1, Zenon
      <4>3. g[i] = f[i] /\ g[i - 1] = f[i - 1]
        BY <3>3, <4>1, Zenon
      <4> HIDE DEF g
      <4> QED BY <3>3, <4>2, <4>3, Zenon
    <3> QED BY <3>1, <3>2, <3>3, Zenon
  <2>5. Eq(g, l)
    BY <2>4, Zenon
  <2> HIDE DEF g, Eq
  <2> QED BY <2>2, <2>5 DEF l
<1>4. Eq(left, n)
  <2>1. n \in A
    <3> HIDE DEF A
    <3> QED BY <1>1, <1>2, <1>3, Numerals, Zenon
  <2> HIDE DEF Eq
  <2> QED BY <2>1
<1> HIDE DEF left, A
<1>5. \A i \in 0..n : left[i] = IF i = 0 THEN list ELSE RemoveFirst(left[i - 1], pending[i])
  BY <1>4, Zenon
<1>6. 0 \in B
  <2>1. left[0] = list
    BY <1>1, <1>5
  <2>2. Out(0) = {}
    OBVIOUS
  <2> HIDE DEF Out
  <2> QED BY <2>1, <2>2
<1>7. ASSUME NEW k \in Nat, k \in B PROVE k + 1 \in B
  <2> SUFFICES ASSUME k + 1 <= n PROVE Good(left[k + 1], k + 1)
    OBVIOUS
  <2> DEFINE l == k + 1
  <2>1. l \in 0..n /\ l # 0 /\ l - 1 = k /\ k <= n
    BY <1>1
  <2>2. Out(l) = Out(k) \cup {pending[l]}
    <3>1. 1..l = (1..k) \cup {l}
      OBVIOUS
    <3> HIDE DEF l
    <3> QED BY <3>1
  <2> HIDE DEF l
  <2>3. left[l] = RemoveFirst(left[k], pending[l])
    BY <1>5, <2>1, Zenon
  <2>4. Good(left[k], k)
    BY <1>7, <2>1
  <2> HIDE DEF Out
  <2>5. Good(left[l], l)
    BY <2>2, <2>3, <2>4, RemovesOne
  <2> QED BY <2>5 DEF l
<1>8. n \in B
  <2> HIDE DEF B
  <2> QED BY <1>1, <1>6, <1>7, Numerals, Zenon
<1>9. Out(n) = Range(pending)
  BY DEF n, Range
<1> HIDE DEF Out
<1> QED BY <1>1, <1>8, <1>9

-----------------------------------------------------------------------------
(* No value is lost, none comes twice.                                     *)

\* Unsubscribe has returned for a channel that had got a value.
Left == \E c \in Channel : sub[c] = "canceled" /\ got[c] # <<>>

\* What the channels have got are sequences, whatever is in them.
Lists == got = [c \in Channel |-> got[c]] /\ \A c \in Channel : \E S : got[c] \in Seq(S)

\* The states of the subscriptions.
Subs == sub \in [Channel -> {"new", "subscribed", "leaving", "canceled"}]

\* The value of the current Send is in the channel, or the one before is.
Delivered(c) == got[c] # <<>> /\ Last(got[c]) = send.value
Behind(c) == got[c] = <<>> \/ Last(got[c]) = send.value - 1

\* A call of Send whose cases are a copy.
Call ==
  [pc : {"idle", "try", "select"}, value : Nat, own : Seq(Channel \cup {Timer}),
   aliased : {FALSE}, active : Nat, next : Nat \ {0}]

\* Types, of what Deliver and Subscribe read.
Shapes ==
  /\ sub \in [Channel -> {"new", "subscribed", "leaving", "canceled"}]
  /\ buffer \in [Channel -> Nat] /\ got \in [Channel -> Seq(Nat)]
  /\ inbox \in Seq(Channel) /\ backing \in Seq(Channel) /\ size = Len(backing)
  /\ send \in Call

\* Where a channel is, and what it has got by then.
Account(c) ==
  /\ buffer[c] <= Len(got[c])
  /\ \A i \in 2..Len(got[c]) : got[c][i] = got[c][i - 1] + 1
  /\ c \in Range(inbox) => sub[c] = "subscribed" /\ got[c] = <<>> /\ c \notin Range(backing)
  /\ sub[c] = "new" => got[c] = <<>> /\ c \notin Range(backing)
  /\ sub[c] \in {"subscribed", "leaving"} => c \in Range(inbox) \/ c \in Range(backing) \/ got[c] # <<>>
  /\ send.pc = "idle" /\ c \in Range(backing) => Delivered(c)

\* A case of the Send in progress is the timer, or waits for the value, and
\* was full if the fast path has passed it, or has the value.
Case(i) ==
  IF send.own[i] = Timer
  THEN i <= send.active
  ELSE IF i <= send.active
       THEN /\ Behind(send.own[i])
            /\ i < send.next \/ send.pc = "select" => got[send.own[i]] # <<>>
       ELSE Delivered(send.own[i])

\* The cases of the Send in progress are those of the feed, and the timer.
InProgress ==
  /\ IsInjective(send.own) /\ Range(send.own) = Range(backing) \cup {Timer}
  /\ send.active <= Len(send.own)
  /\ \A i \in 1..Len(send.own) : Case(i)

\* What holds as long as no channel that a Send had taken has left.
Clean ==
  /\ Shapes
  /\ IsInjective(inbox) /\ IsInjective(backing)
  /\ \A c \in Channel : Account(c)
  /\ send.pc # "idle" => InProgress

\* Then every value is there, once.
LEMMA CleanOnce == Clean => EveryValueOnce
<1> SUFFICES ASSUME Clean PROVE EveryValueOnce
  OBVIOUS
<1>1. backing \in Seq(Channel) /\ sendCases = backing
  BY DEF Clean, Shapes, Call, sendCases
<1>2. ASSUME NEW c \in Channel, Contains(backing, c) PROVE c \in Range(backing)
  BY <1>1, <1>2, Members DEF Contains
<1>3. \A c \in Channel : Account(c)
  BY DEF Clean
<1> QED BY <1>1, <1>2, <1>3 DEF EveryValueOnce, Account, Delivered

\* Whoever leaves now, has got a value.
LEMMA RemoveLeft ==
  ASSUME Clean, NEW c \in Channel, RemoveIdle(c) \/ RemoveDuring(c)
  PROVE  Left'
<1>1. sub[c] = "leaving" /\ sub'[c] = "canceled" /\ got' = got /\ send.pc \in {"idle", "select"}
  BY DEF RemoveIdle, RemoveDuring, Clean, Shapes, Call
<1>2. Account(c) /\ got[c] \in Seq(Nat)
  BY DEF Clean, Shapes, Call
<1>3. got[c] # <<>>
  <2>1. CASE c \in Range(backing) /\ send.pc = "select"
    <3>1. InProgress /\ send.own \in Seq(Channel \cup {Timer})
      BY <2>1 DEF Clean, Shapes, Call
    <3>2. PICK i \in 1..Len(send.own) : send.own[i] = c
      BY <2>1, <3>1, Members DEF InProgress
    <3>3. Case(i) /\ c # Timer
      BY <3>1, FeedAssumption DEF InProgress
    <3> QED BY <2>1, <3>2, <3>3 DEF Case, Delivered
  <2> QED BY <1>1, <1>2, <2>1 DEF Account, Delivered
<1> QED BY <1>1, <1>3 DEF Left

\* A step that changes no case and no delivery keeps the Send in progress.
LEMMA SameInProgress ==
  ASSUME send.pc # "idle" => InProgress, UNCHANGED <<backing, send, got>>
  PROVE  (send.pc # "idle" => InProgress)'
BY Zenon DEF InProgress, Case, Behind, Delivered

\* Its active cases are the first ones of the copy it made.
LEMMA OwnCases ==
  ASSUME Clean, send.pc # "idle"
  PROVE  /\ cases \in Seq(Channel \cup {Timer}) /\ Len(cases) = send.active
         /\ \A i \in 1..send.active : cases[i] = send.own[i]
<1> DEFINE own == send.own
           a   == send.active
<1>1. own \in Seq(Channel \cup {Timer}) /\ a \in Nat /\ a <= Len(own)
  BY DEF Clean, Shapes, Call, InProgress
<1>2. cases = SubSeq(own, 1, a)
  BY Zenon DEF cases, Clean, Shapes, Call
<1> HIDE DEF own, a
<1>3. SubSeq(own, 1, a) \in Seq(Channel \cup {Timer}) /\ Len(SubSeq(own, 1, a)) = a
  BY <1>1
<1>4. \A i \in 1..a : SubSeq(own, 1, a)[i] = own[i]
  BY <1>1
<1> QED BY <1>2, <1>3, <1>4 DEF own, a

\* Subscribers that come, read, and leave before a Send has seen them.
LEMMA SubscriberClean ==
  ASSUME Clean, NEW c \in Channel, Subscribe(c) \/ Receive(c) \/ Unsubscribe(c)
  PROVE  Clean'
<1> USE DEF Clean
<1>0. UNCHANGED <<backing, size, send, got>>
  BY DEF Subscribe, Receive, Unsubscribe
<1>1. (send.pc # "idle" => InProgress)' /\ IsInjective(backing)'
  BY <1>0, SameInProgress
<1>2. CASE Subscribe(c)
  <2>1. inbox \in Seq(Channel) /\ inbox' = Append(inbox, c) /\ c \notin Range(inbox)
    BY <1>2 DEF Subscribe, Account, Shapes, Call
  <2>2. inbox' \in Seq(Channel) /\ IsInjective(inbox')
    BY <2>1, Members DEF IsInjective
  <2>3. \A d \in Channel : d \in Range(inbox') <=> d \in Range(inbox) \/ d = c
    <3>1. Len(inbox) \in Nat /\ Len(inbox') = Len(inbox) + 1
      BY <2>1
    <3>2. inbox'[Len(inbox) + 1] = c /\ \A i \in 1..Len(inbox) : inbox'[i] = inbox[i]
      BY <2>1
    <3>3. ASSUME NEW d \in Channel
          PROVE  (\E i \in 1..Len(inbox') : inbox'[i] = d) <=> (\E i \in 1..Len(inbox) : inbox[i] = d) \/ d = c
      BY <3>1, <3>2
    <3>4. ASSUME NEW d \in Channel
          PROVE  /\ d \in Range(inbox) <=> \E i \in 1..Len(inbox) : inbox[i] = d
                 /\ d \in Range(inbox') <=> \E i \in 1..Len(inbox') : inbox'[i] = d
      BY <2>1, <2>2, Members, Zenon
    <3> QED BY <3>3, <3>4, Zenon
  <2>4. Shapes'
    BY <1>0, <1>2, <2>2, Zenon DEF Subscribe, Shapes, Call
  <2>5. ASSUME NEW d \in Channel PROVE Account(d)'
    BY <1>0, <1>2, <2>3, SMTT(60) DEF Subscribe, Account, Shapes, Call, Delivered
  <2> QED BY <1>1, <2>2, <2>4, <2>5
<1>3. CASE Receive(c)
  <2>0. /\ UNCHANGED <<inbox, sub>> /\ buffer' = [buffer EXCEPT ![c] = buffer[c] - 1]
        /\ buffer \in [Channel -> Nat] /\ buffer[c] > 0 /\ got[c] \in Seq(Nat)
    BY <1>3 DEF Receive, Shapes, Call
  <2>1. buffer' \in [Channel -> Nat] /\ \A d \in Channel : buffer'[d] <= buffer[d]
    BY <2>0
  <2>2. Shapes'
    BY <1>0, <2>0, <2>1, Zenon DEF Shapes, Call
  <2>3. ASSUME NEW d \in Channel PROVE Account(d)'
    <3>1. buffer'[d] <= Len(got[d])
      BY <2>0, <2>1 DEF Account, Shapes, Call
    <3> QED BY <1>0, <2>0, <3>1 DEF Account, Delivered
  <2> QED BY <1>1, <2>0, <2>2, <2>3
<1>4. CASE Unsubscribe(c)
  <2>1. inbox \in Seq(Channel) /\ IsInjective(inbox)
    BY DEF Shapes, Call
  <2>2. CASE find(inbox, c) # 0
    <3>1. inbox' = RemoveFirst(inbox, c) /\ sub' = [sub EXCEPT ![c] = "canceled"] /\ UNCHANGED buffer
      BY <1>4, <2>2 DEF Unsubscribe
    <3>2. inbox' \in Seq(Channel) /\ IsInjective(inbox') /\ Range(inbox') = Range(inbox) \ {c}
      BY <2>1, <3>1, RemovesOne
    <3>3. Shapes'
      BY <1>0, <3>1, <3>2, Zenon DEF Shapes, Call
    <3>4. ASSUME NEW d \in Channel PROVE Account(d)'
      BY <1>0, <3>1, <3>2 DEF Account, Shapes, Call, Delivered
    <3> QED BY <1>1, <3>2, <3>3, <3>4
  <2>3. CASE find(inbox, c) = 0
    <3>1. UNCHANGED inbox /\ sub' = [sub EXCEPT ![c] = "leaving"] /\ UNCHANGED buffer /\ sub[c] = "subscribed"
      BY <1>4, <2>3 DEF Unsubscribe
    <3>2. c \notin Range(inbox)
      BY <2>1, <2>3, Finds
    <3>3. Shapes'
      BY <1>0, <3>1, Zenon DEF Shapes, Call
    <3>4. ASSUME NEW d \in Channel PROVE Account(d)'
      BY <1>0, <3>1, <3>2 DEF Account, Shapes, Call, Delivered
    <3> QED BY <1>1, <3>1, <3>3, <3>4
  <2> QED BY <2>2, <2>3
<1> QED BY <1>2, <1>3, <1>4

\* A Send takes the inbox, and everybody is one value behind.
LEMMA SendClean ==
  ASSUME Clean, Send
  PROVE  Clean'
<1> DEFINE all == backing \o inbox
           own == Append(all, Timer)
<1>0. inbox \in Seq(Channel) /\ backing \in Seq(Channel) /\ IsInjective(inbox) /\ IsInjective(backing)
  BY DEF Clean, Shapes, Call
<1>1. sendCases = backing
  BY DEF Clean, Shapes, Call, sendCases
<1>2. /\ backing' = all /\ size' = Len(all) /\ inbox' = <<>> /\ UNCHANGED <<sub, buffer, got>>
      /\ send' = [pc |-> "try", value |-> send.value + 1, own |-> own,
                  aliased |-> FALSE, active |-> Len(all) + 1, next |-> 1]
      /\ send.pc = "idle"
  BY <1>1 DEF Send
<1>3. \A c \in Channel : Account(c)
  BY DEF Clean
<1>4. \A i \in 1..Len(inbox) : inbox[i] \in Channel /\ got[inbox[i]] = <<>> /\ inbox[i] \notin Range(backing)
  <2>1. ASSUME NEW i \in 1..Len(inbox) PROVE inbox[i] \in Channel /\ inbox[i] \in Range(inbox)
    BY <1>0, Members
  <2> QED BY <1>3, <2>1 DEF Account
<1>5. \A i \in 1..Len(backing) : backing[i] \in Channel /\ Delivered(backing[i]) /\ backing[i] \in Range(backing)
  <2>1. ASSUME NEW i \in 1..Len(backing) PROVE backing[i] \in Channel /\ backing[i] \in Range(backing)
    BY <1>0, Members
  <2> QED BY <1>2, <1>3, <2>1 DEF Account
<1>6. all \in Seq(Channel) /\ Len(all) = Len(backing) + Len(inbox) /\ Len(all) \in Nat
  BY <1>0
<1>7. \A i \in 1..Len(all) : all[i] = IF i <= Len(backing) THEN backing[i] ELSE inbox[i - Len(backing)]
  BY <1>0
<1>8. \A i \in 1..Len(all) : i <= Len(backing) \/ i - Len(backing) \in 1..Len(inbox)
  BY <1>0, <1>6
<1> HIDE DEF all
<1>8a. ASSUME NEW i \in 1..Len(all)
       PROVE  \/ i \in 1..Len(backing) /\ all[i] = backing[i]
              \/ i - Len(backing) \in 1..Len(inbox) /\ all[i] = inbox[i - Len(backing)] /\ ~(i <= Len(backing))
  BY <1>0, <1>6, <1>7, <1>8
<1>9. IsInjective(all)
  <2> SUFFICES ASSUME NEW i \in 1..Len(all), NEW j \in 1..Len(all), all[i] = all[j] PROVE i = j
    BY <1>6 DEF IsInjective
  <2> DEFINE n == Len(backing)
  <2>0. n \in Nat
    BY <1>0
  <2>1. CASE i \in 1..n /\ j \in 1..n
    BY <1>0, <1>7, <2>1 DEF IsInjective
  <2> HIDE DEF n
  <2>2. CASE i - n \in 1..Len(inbox) /\ all[i] = inbox[i - n] /\ j - n \in 1..Len(inbox) /\ all[j] = inbox[j - n]
    <3> DEFINE a == i - n
               b == j - n
    <3>1. a = b => i = j
      BY <2>0
    <3>2. a \in 1..Len(inbox) /\ b \in 1..Len(inbox) /\ inbox[a] = inbox[b]
      BY <2>2, Zenon
    <3> HIDE DEF a, b
    <3> QED BY <1>0, <3>1, <3>2 DEF IsInjective
  <2>3. ASSUME NEW k \in 1..n, NEW l \in 1..Len(inbox) PROVE backing[k] # inbox[l]
    BY <1>4, <1>5 DEF n
  <2> QED BY <1>8a, <2>1, <2>2, <2>3 DEF n
<1>10. ASSUME NEW c PROVE c \in Range(all) <=> c \in Range(backing) \/ c \in Range(inbox)
  <2>1. ASSUME NEW i \in 1..Len(backing) PROVE \E j \in 1..Len(all) : all[j] = backing[i]
    BY <1>0, <1>6, <1>7
  <2>2. ASSUME NEW i \in 1..Len(inbox) PROVE \E j \in 1..Len(all) : all[j] = inbox[i]
    <3> DEFINE j == Len(backing) + i
    <3>1. j \in 1..Len(all) /\ ~(j <= Len(backing)) /\ j - Len(backing) = i
      BY <1>0, <1>6
    <3> HIDE DEF j
    <3>2. all[j] = inbox[i]
      BY <1>7, <3>1, Zenon
    <3> QED BY <3>1, <3>2
  <2>3. ASSUME NEW j \in 1..Len(all)
        PROVE  (\E i \in 1..Len(backing) : all[j] = backing[i]) \/ \E i \in 1..Len(inbox) : all[j] = inbox[i]
    BY <1>8a
  <2>4. /\ c \in Range(all) <=> \E j \in 1..Len(all) : all[j] = c
        /\ c \in Range(backing) <=> \E i \in 1..Len(backing) : backing[i] = c
        /\ c \in Range(inbox) <=> \E i \in 1..Len(inbox) : inbox[i] = c
    BY <1>0, <1>6, Members, Zenon
  <2> QED BY <2>1, <2>2, <2>3, <2>4, Zenon
<1>11. /\ own \in Seq(Channel \cup {Timer}) /\ Len(own) = Len(all) + 1
       /\ own[Len(all) + 1] = Timer /\ \A i \in 1..Len(all) : own[i] = all[i] /\ own[i] \in Channel
  BY <1>6
<1> HIDE DEF own
<1>12. IsInjective(own)
  BY <1>6, <1>9, <1>11, FeedAssumption DEF IsInjective
<1>13. Range(own) = Range(all) \cup {Timer}
  <2>1. ASSUME NEW c PROVE c \in Range(own) <=> c \in Range(all) \/ c = Timer
    BY <1>6, <1>11, Members
  <2> QED BY <2>1
<1>14. Shapes'
  BY <1>2, <1>6, <1>11 DEF Clean, Shapes, Call
<1>15. ASSUME NEW c \in Channel PROVE Account(c)'
  <2>1. c \notin Range(<<>>)
    BY DEF Range
  <2> QED BY <1>2, <1>3, <1>10, <2>1 DEF Account
<1>16. ASSUME NEW i \in 1..Len(own) PROVE Case(i)'
  <2>1. send'.own = own /\ send'.active = Len(own) /\ send'.next = 1 /\ send'.pc = "try" /\ send'.value = send.value + 1
    BY <1>2, <1>11
  <2>2. i <= Len(own) /\ ~(i < 1)
    BY <1>6, <1>11
  <2>3. ASSUME own[i] # Timer PROVE got'[own[i]] = <<>> \/ Last(got'[own[i]]) = send'.value - 1
    <3>1. i \in 1..Len(all) /\ own[i] = all[i]
      BY <1>6, <1>11, <2>3
    <3>2. Delivered(own[i]) \/ got[own[i]] = <<>>
      <4>1. \/ i \in 1..Len(backing) /\ all[i] = backing[i]
            \/ i - Len(backing) \in 1..Len(inbox) /\ all[i] = inbox[i - Len(backing)]
        BY <1>8a, <3>1, Zenon
      <4>2. CASE i \in 1..Len(backing) /\ all[i] = backing[i]
        BY <1>5, <3>1, <4>2, Zenon
      <4>3. CASE i - Len(backing) \in 1..Len(inbox) /\ all[i] = inbox[i - Len(backing)]
        BY <1>4, <3>1, <4>3, Zenon
      <4> QED BY <4>1, <4>2, <4>3, Zenon
    <3>3. send'.value - 1 = send.value
      BY <2>1 DEF Clean, Shapes, Call
    <3>4. got' = got
      BY <1>2
    <3> QED BY <3>2, <3>3, <3>4 DEF Delivered
  <2> QED BY <2>1, <2>2, <2>3, Zenon DEF Case, Behind
<1>17. InProgress'
  <2>1. send'.own = own /\ send'.active = Len(own)
    BY <1>2, <1>11
  <2> QED BY <1>2, <1>6, <1>11, <1>12, <1>13, <1>16, <2>1 DEF InProgress
<1>18. IsInjective(inbox')
  BY <1>2 DEF IsInjective
<1> QED BY <1>2, <1>9, <1>14, <1>15, <1>17, <1>18 DEF Clean

\* The value goes to case i, which the Send in progress then loses; the places
\* before next stay as they are.
LEMMA DeliverClean ==
  ASSUME Clean, send.pc # "idle", NEW i \in 1..send.active, send.own[i] # Timer,
         Deliver(send.own[i], send.value), NEW next \in 1..i, next <= send.next, Deactivate(i, next),
         UNCHANGED <<inbox, size, sub>>
  PROVE  Clean'
<1> DEFINE own == send.own
           c   == own[i]
           a   == send.active
<1>0. /\ own \in Seq(Channel \cup {Timer}) /\ a \in Nat /\ Len(own) \in Nat /\ a <= Len(own) /\ InProgress
      /\ \A d \in Channel : Account(d)
      /\ got \in [Channel -> Seq(Nat)] /\ buffer \in [Channel -> Nat] /\ send.value \in Nat
  BY DEF Clean, Shapes, Call, InProgress
<1>1. i \in 1..Len(own) /\ a \in 1..Len(own) /\ c \in Channel
  BY <1>0
<1>2. /\ send' = [send EXCEPT !.pc = "try", !.next = next, !.active = a - 1, !.own = Swap(own, i, a)]
      /\ UNCHANGED backing
  BY Zenon DEF Deactivate, Clean, Shapes, Call
<1>3. buffer' = [buffer EXCEPT ![c] = buffer[c] + 1] /\ got' = [got EXCEPT ![c] = Append(got[c], send.value)]
  BY DEF Deliver
<1> DEFINE new == Swap(own, i, a)
           at  == [j \in 1..Len(own) |-> IF j = i THEN a ELSE IF j = a THEN i ELSE j]
<1>4. new \in Seq(Channel \cup {Timer}) /\ Len(new) = Len(own)
  BY <1>0, <1>1 DEF Swap
<1>5. \A j \in 1..Len(own) : new[j] = own[at[j]] /\ at[j] \in 1..Len(own) /\ at[at[j]] = j
  BY <1>0, <1>1 DEF Swap
<1>6. at[a] = i /\ \A j \in 1..Len(own) : j # a => at[j] # i
  BY <1>0, <1>1
<1>7. \A j \in 1..Len(own) : (j > a => at[j] = j) /\ (j < i => at[j] = j) /\ (j < a => at[j] <= a)
  BY <1>0, <1>1
<1>8. send'.own = new /\ send'.active = a - 1 /\ send'.next = next /\ send'.pc = "try" /\ send'.value = send.value
  BY <1>2 DEF Clean, Shapes, Call
<1> HIDE DEF new, at
<1>9. IsInjective(new)
  <2> SUFFICES ASSUME NEW j \in 1..Len(own), NEW l \in 1..Len(own), new[j] = new[l] PROVE j = l
    BY <1>4 DEF IsInjective
  <2>1. at[j] = at[l]
    <3>1. IsInjective(own)
      BY <1>0 DEF InProgress
    <3> HIDE DEF own
    <3>2. at[j] \in DOMAIN own /\ at[l] \in DOMAIN own /\ own[at[j]] = own[at[l]]
      BY <1>0, <1>5
    <3> QED BY <3>1, <3>2, Zenon DEF IsInjective
  <2> QED BY <1>5, <2>1
<1>10. Range(new) = Range(own)
  <2>1. ASSUME NEW x PROVE (\E j \in 1..Len(new) : new[j] = x) <=> \E j \in 1..Len(own) : own[j] = x
    <3> HIDE DEF own
    <3>1. ASSUME NEW j \in 1..Len(own) PROVE new[j] = own[at[j]] /\ new[at[j]] = own[j] /\ at[j] \in 1..Len(own)
      BY <1>5, Zenon
    <3>2. ASSUME NEW j \in 1..Len(new), new[j] = x PROVE \E l \in 1..Len(own) : own[l] = x
      BY <1>4, <3>1, <3>2
    <3>3. ASSUME NEW l \in 1..Len(own), own[l] = x PROVE \E j \in 1..Len(new) : new[j] = x
      BY <1>4, <3>1, <3>3
    <3> QED BY <3>2, <3>3, Zenon
  <2> HIDE DEF own
  <2>2. ASSUME NEW x PROVE x \in Range(new) <=> x \in Range(own)
    <3>1. x \in Range(new) <=> \E j \in 1..Len(new) : new[j] = x
      BY <1>4, Members
    <3>2. x \in Range(own) <=> \E j \in 1..Len(own) : own[j] = x
      BY <1>0, Members
    <3> QED BY <2>1, <3>1, <3>2, Zenon
  <2> QED BY <2>2, Zenon
<1>11. Behind(c) /\ got[c] \in Seq(Nat)
  BY <1>0, <1>1 DEF InProgress, Case
<1>12. got' \in [Channel -> Seq(Nat)] /\ buffer' \in [Channel -> Nat]
  BY <1>0, <1>1, <1>3, SMTT(60)
<1>13. got'[c] = Append(got[c], send.value) /\ \A d \in Channel : d # c => got'[d] = got[d]
  BY <1>0, <1>1, <1>3, Zenon
<1>14. got'[c] # <<>> /\ Last(got'[c]) = send.value
  <2> DEFINE s == got[c]
             t == got'[c]
             v == send.value
  <2>1. s \in Seq(Nat) /\ v \in Nat /\ t = Append(s, v)
    BY <1>0, <1>11, <1>13, Zenon
  <2> HIDE DEF s, t, v
  <2>2. t # <<>> /\ t[Len(t)] = v
    BY <2>1
  <2> QED BY <2>2 DEF s, t, v, Last
<1>15. \A j \in 2..Len(got'[c]) : got'[c][j] = got'[c][j - 1] + 1
  <2>1. Account(c)
    BY <1>0, <1>1
  <2> DEFINE s == got[c]
  <2>2. s \in Seq(Nat) /\ (s = <<>> \/ s[Len(s)] = send.value - 1) /\ \A j \in 2..Len(s) : s[j] = s[j - 1] + 1
    BY <1>11, <2>1, Zenon DEF Behind, Last, Account
  <2> DEFINE t == got'[c]
             v == send.value
  <2>3. v \in Nat /\ t = Append(s, v) /\ (s = <<>> \/ s[Len(s)] = v - 1)
    BY <1>0, <1>13, <2>2, Zenon
  <2> HIDE DEF s, t, v
  <2>4. /\ Len(s) \in Nat /\ Len(t) = Len(s) + 1 /\ t[Len(s) + 1] = v
        /\ \A j \in 1..Len(s) : t[j] = s[j]
    BY <2>2, <2>3
  <2>5. ASSUME NEW j \in 2..Len(t) PROVE t[j] = t[j - 1] + 1
    <3>1. CASE j = Len(s) + 1
      <4>1. s[Len(s)] = v - 1 /\ Len(s) \in 1..Len(s) /\ j - 1 = Len(s)
        BY <2>2, <2>3, <2>4, <3>1
      <4> QED BY <2>3, <2>4, <3>1, <4>1
    <3>2. CASE j # Len(s) + 1
      <4>1. j \in 2..Len(s) /\ j \in 1..Len(s) /\ j - 1 \in 1..Len(s)
        BY <2>4, <3>2
      <4>2. t[j] = s[j] /\ t[j - 1] = s[j - 1] /\ s[j] = s[j - 1] + 1
        BY <2>2, <2>4, <4>1, Zenon
      <4> QED BY <4>2
    <3> QED BY <3>1, <3>2
  <2> QED BY <2>5 DEF t
<1>16. Shapes'
  <2>1. a - 1 \in Nat /\ next \in Nat \ {0}
    BY <1>0, <1>1
  <2>2. /\ sub \in [Channel -> {"new", "subscribed", "leaving", "canceled"}]
        /\ inbox \in Seq(Channel) /\ backing \in Seq(Channel) /\ size = Len(backing)
        /\ send \in Call
    BY Zenon DEF Clean, Shapes, Call
  <2>3. send' = [send EXCEPT !.pc = "try", !.next = next, !.active = a - 1, !.own = new]
    BY <1>2 DEF new
  <2> DEFINE b == a - 1
  <2> HIDE DEF own, c, a, b
  <2>4. send' \in Call
    BY <1>4, <2>1, <2>2, <2>3, Zenon DEF b, Call
  <2> QED BY <1>2, <1>12, <2>2, <2>4, Zenon DEF Shapes, Call
<1> HIDE DEF own, c, a
<1>17. ASSUME NEW d \in Channel PROVE Account(d)'
  <2>1. Account(d) /\ UNCHANGED <<inbox, backing, sub>> /\ send'.pc # "idle"
    BY <1>0, <1>2, <1>8
  <2>2. CASE d = c
    <3>1. buffer'[c] <= Len(got'[c])
      <4>1. buffer'[c] = buffer[c] + 1 /\ Len(got'[c]) = Len(got[c]) + 1 /\ buffer[c] <= Len(got[c])
        BY <1>0, <1>1, <1>3, <1>13, <2>1, <2>2, SMTT(60) DEF Account
      <4> QED BY <1>0, <1>1, <1>11, <4>1
    <3>2. c \in Range(backing)
      <4>1. c \in Range(own) /\ c # Timer
        BY <1>0, <1>1, Members, FeedAssumption DEF c
      <4> QED BY <1>0, <4>1 DEF InProgress, own
    <3> QED BY <1>14, <1>15, <2>1, <2>2, <3>1, <3>2 DEF Account
  <2>3. CASE d # c
    <3>1. got'[d] = got[d] /\ buffer'[d] = buffer[d]
      BY <1>0, <1>3, <1>13, <2>3
    <3> QED BY <2>1, <3>1, Zenon DEF Account
  <2> QED BY <2>2, <2>3
<1>18. ASSUME NEW j \in 1..Len(new) PROVE Case(j)'
  <2> DEFINE l == at[j]
  <2>1. j \in 1..Len(own) /\ l \in 1..Len(own) /\ new[j] = own[l] /\ (j = a => l = i) /\ (j # a => l # i)
    BY <1>4, <1>5, <1>6
  <2>2. (j > a => l = j) /\ (j < i => l = j) /\ (j < a => l <= a)
    BY <1>7, <2>1
  <2> HIDE DEF l
  <2>3. CASE j = a
    <3>1. new[j] = c /\ c # Timer /\ ~(j <= a - 1)
      BY <1>0, <1>1, <2>1, <2>3, FeedAssumption DEF c
    <3>2. got'[new[j]] # <<>> /\ Last(got'[new[j]]) = send'.value
      BY <1>8, <1>14, <3>1
    <3> QED BY <1>8, <3>1, <3>2, Zenon DEF Case, Delivered
  <2>4. CASE j # a
    <3>1. Case(l)
      BY <1>0, <2>1, Zenon DEF InProgress, own
    <3>2. own[l] # c
      BY <1>0, <1>1, <2>1, <2>4, SMTT(60) DEF InProgress, IsInjective, own, c
    <3>3. own[l] # Timer => got'[own[l]] = got[own[l]]
      BY <1>0, <1>13, <2>1, <3>2, SMTT(60)
    <3>4. CASE own[l] = Timer
      <4>1. l <= a
        BY <3>1, <3>4 DEF Case, own, a
      <4>2. j <= a - 1
        BY <1>0, <2>1, <2>2, <2>4, <4>1
      <4> QED BY <1>8, <2>1, <3>4, <4>2, Zenon DEF Case
    <3>5. CASE own[l] # Timer /\ j < a
      <4>1. j <= a - 1 /\ l <= a
        BY <1>0, <2>1, <2>2, <3>5
      <4>2. /\ got'[own[l]] = <<>> \/ Last(got'[own[l]]) = send'.value - 1
            /\ l < send.next => got'[own[l]] # <<>>
        BY <1>8, <3>1, <3>3, <3>5, <4>1 DEF Case, Behind, own, a
      <4>3. j < next => got'[own[l]] # <<>>
        BY <1>0, <2>1, <2>2, <4>2 DEF Clean, Shapes, Call
      <4> QED BY <1>8, <2>1, <3>5, <4>1, <4>2, <4>3, Zenon DEF Case, Behind
    <3>6. CASE own[l] # Timer /\ j > a
      <4>1. ~(j <= a - 1) /\ ~(l <= a)
        BY <1>0, <2>1, <2>2, <3>6
      <4>2. got'[own[l]] # <<>> /\ Last(got'[own[l]]) = send'.value
        BY <1>8, <3>1, <3>3, <3>6, <4>1 DEF Case, Delivered, own, a
      <4> QED BY <1>8, <2>1, <3>6, <4>1, <4>2, Zenon DEF Case, Delivered
    <3> QED BY <1>0, <2>1, <2>4, <3>4, <3>5, <3>6
  <2> QED BY <2>3, <2>4
<1>19. InProgress'
  BY <1>0, <1>2, <1>4, <1>8, <1>9, <1>10, <1>18 DEF InProgress, own, a
<1> QED BY <1>2, <1>16, <1>17, <1>19 DEF Clean

\* The fast path puts the value into a channel, or passes one that is full.
LEMMA TryClean ==
  ASSUME Clean, TrySend
  PROVE  Clean'
<1> DEFINE i == send.next
           c == send.own[i]
<1>1. /\ send.pc = "try" /\ InProgress /\ send.own \in Seq(Channel \cup {Timer})
      /\ i \in 1..send.active /\ i \in 1..Len(send.own) /\ i \in Nat
  BY DEF TrySend, Clean, Shapes, Call, InProgress
<1>2. cases[i] = c
  BY <1>1, OwnCases
<1>3. UNCHANGED <<inbox, size, sub>>
  BY DEF TrySend
<1>4. CASE c # Timer /\ buffer[c] < Capacity
  <2>1. Deliver(c, send.value) /\ Deactivate(i, i)
    BY <1>2, <1>4 DEF TrySend
  <2> QED BY <1>1, <1>3, <1>4, <2>1, DeliverClean
<1>5. CASE ~(c # Timer /\ buffer[c] < Capacity)
  <2>1. send' = [send EXCEPT !.next = i + 1] /\ UNCHANGED <<backing, buffer, got>>
    BY <1>2, <1>5 DEF TrySend
  <2>2. Shapes'
    <3>1. send' \in Call
      <4> DEFINE k == i + 1
      <4>1. k \in Nat \ {0} /\ send \in Call /\ send' = [send EXCEPT !.next = k]
        BY <1>1, <2>1 DEF Clean, Shapes
      <4> HIDE DEF k
      <4> QED BY <4>1, Zenon DEF Call
    <3> QED BY <1>3, <2>1, <3>1 DEF Clean, Shapes
  <2>3. send'.own = send.own /\ send'.active = send.active /\ send'.pc = "try" /\ send'.value = send.value /\ send'.next = i + 1
    BY <1>1, <2>1 DEF Clean, Shapes, Call
  <2>4. \A d \in Channel : Account(d)'
    BY <1>1, <1>3, <2>1, <2>3 DEF Clean, Account, Delivered
  <2>5. c # Timer => got[c] # <<>>
    <3>1. ASSUME c # Timer PROVE got[c] # <<>>
      <4>1. c \in Channel /\ Account(c) /\ buffer[c] \in Nat /\ got[c] \in Seq(Nat)
        BY <1>1, <3>1 DEF Clean, Shapes, Call
      <4>2. ~(buffer[c] < Capacity) /\ buffer[c] <= Len(got[c]) /\ Capacity \in Nat \ {0}
        BY <1>5, <3>1, <4>1, FeedAssumption, Zenon DEF Account
      <4> HIDE DEF c
      <4> QED BY <4>1, <4>2
    <3> QED BY <3>1
  <2>6. ASSUME NEW j \in 1..Len(send.own) PROVE Case(j)'
    <3>1. Case(j) /\ (j < i + 1 => j < i \/ j = i)
      BY <1>1 DEF InProgress
    <3>2. send.own[j] # Timer /\ j <= send.active /\ j < i + 1 => got[send.own[j]] # <<>>
      BY <2>5, <3>1 DEF Case
    <3> QED BY <1>1, <2>1, <2>3, <3>1, <3>2 DEF Case, Behind, Delivered
  <2>7. InProgress'
    BY <1>1, <2>1, <2>3, <2>6 DEF InProgress
  <2> QED BY <1>3, <2>1, <2>2, <2>4, <2>7 DEF Clean
<1> QED BY <1>4, <1>5

\* A channel that gets room while Send selects.
LEMMA SelectClean ==
  ASSUME Clean, NEW i \in 1..send.active, SelectSend(i)
  PROVE  Clean'
<1>0. send.aliased = FALSE
  BY DEF Clean, Shapes, Call
<1>1. /\ send.pc = "select" /\ cases[i] # Timer /\ Deliver(cases[i], send.value) /\ Deactivate(i, 1)
      /\ UNCHANGED <<inbox, size, sub>>
  BY <1>0 DEF SelectSend, field
<1>2. cases[i] = send.own[i] /\ 1 \in 1..i /\ 1 <= send.next
  <2>1. cases[i] = send.own[i]
    BY <1>1, OwnCases
  <2>2. send.active \in Nat /\ send.next \in Nat \ {0}
    BY DEF Clean, Shapes, Call
  <2> QED BY <2>1, <2>2
<1> QED BY <1>1, <1>2, DeliverClean

\* Only the timer is left and all have the value, or all that are left are full.
LEMMA FinishClean ==
  ASSUME Clean, FinishSend
  PROVE  Clean'
<1> DEFINE last == send.active = 1
<1>1. /\ send.pc = "try" /\ send.next > send.active /\ UNCHANGED <<inbox, backing, size, sub, buffer, got>>
      /\ send' = [send EXCEPT !.pc = IF last THEN "idle" ELSE "select", !.own = IF last THEN <<>> ELSE @]
  BY DEF FinishSend
<1>2. InProgress /\ send.own \in Seq(Channel \cup {Timer}) /\ send.active \in Nat /\ send.next \in Nat
  BY <1>1 DEF Clean, Shapes, Call
<1>3. Shapes'
  <2> DEFINE pc  == IF last THEN "idle" ELSE "select"
             own == IF last THEN <<>> ELSE send.own
  <2>1. send' = [send EXCEPT !.pc = pc, !.own = own] /\ pc \in {"idle", "select"} /\ own \in Seq(Channel \cup {Timer})
    BY <1>1, <1>2
  <2> HIDE DEF pc, own
  <2>2. send' \in Call
    BY <2>1, Zenon DEF Clean, Shapes, Call
  <2> QED BY <1>1, <2>2 DEF Clean, Shapes
<1>4. CASE last
  <2>1. send'.pc = "idle" /\ send'.value = send.value
    BY <1>1, <1>4 DEF Clean, Shapes, Call
  <2>2. PICK t \in 1..Len(send.own) : send.own[t] = Timer
    BY <1>2, Members, Zenon DEF InProgress
  <2>3. t = 1
    BY <1>2, <1>4, <2>2 DEF InProgress, Case
  <2>4. ASSUME NEW d \in Channel, d \in Range(backing) PROVE Delivered(d)
    <3>1. PICK i \in 1..Len(send.own) : send.own[i] = d
      BY <1>2, <2>4, Members DEF InProgress
    <3>2. Case(i) /\ d # Timer /\ i # 1
      BY <1>2, <2>2, <2>3, <3>1, FeedAssumption DEF InProgress
    <3> QED BY <1>2, <1>4, <3>1, <3>2 DEF Case
  <2>5. ASSUME NEW d \in Channel PROVE Account(d)'
    BY <1>1, <2>1, <2>4 DEF Clean, Account, Delivered
  <2> QED BY <1>1, <1>3, <2>1, <2>5 DEF Clean
<1>5. CASE ~last
  <2>1. /\ send'.pc = "select" /\ send'.value = send.value /\ send'.own = send.own
        /\ send'.active = send.active /\ send'.next = send.next
    BY <1>1, <1>5 DEF Clean, Shapes, Call
  <2>2. ASSUME NEW d \in Channel PROVE Account(d)'
    BY <1>1, <2>1 DEF Clean, Account, Delivered
  <2>3. ASSUME NEW j \in 1..Len(send.own) PROVE Case(j)'
    <3>1. Case(j) /\ (j <= send.active => j < send.next)
      BY <1>1, <1>2 DEF InProgress
    <3> QED BY <1>1, <2>1, <3>1 DEF Case, Behind, Delivered
  <2>4. InProgress'
    BY <1>1, <1>2, <2>1, <2>3 DEF InProgress
  <2> QED BY <1>1, <1>3, <2>2, <2>4 DEF Clean
<1> QED BY <1>4, <1>5

\* A timeout drops those that do not have the value, and only those.
LEMMA TimeoutClean ==
  ASSUME Clean, Timeout
  PROVE  Clean'
<1>1. /\ send.pc = "select" /\ backing' = removeAll(sendCases, cases) /\ size' = Len(backing')
      /\ send' = [send EXCEPT !.pc = "idle", !.own = <<>>] /\ UNCHANGED <<inbox, sub, buffer, got>>
  BY DEF Timeout
<1>2. InProgress /\ send.own \in Seq(Channel \cup {Timer}) /\ send.active \in Nat /\ send.active <= Len(send.own)
  BY <1>1 DEF Clean, Shapes, Call, InProgress
<1>3. sendCases = backing /\ backing \in Seq(Channel) /\ IsInjective(backing)
  BY DEF Clean, Shapes, Call, sendCases
<1>4. /\ cases \in Seq(Channel \cup {Timer}) /\ Len(cases) = send.active
      /\ \A i \in 1..send.active : cases[i] = send.own[i]
  BY <1>1, OwnCases
<1>5. /\ backing' \in Seq(Channel) /\ IsInjective(backing')
      /\ Range(backing') = Range(backing) \ Range(cases)
  <2> DEFINE pending == cases
             list == backing
  <2>1. list \in Seq(Channel) /\ IsInjective(list) /\ pending \in Seq(Channel \cup {Timer})
    BY <1>3, <1>4
  <2>2. backing' = removeAll(list, pending)
    BY <1>1, <1>3
  <2> HIDE DEF pending, list
  <2>3. /\ removeAll(list, pending) \in Seq(Channel) /\ IsInjective(removeAll(list, pending))
        /\ Range(removeAll(list, pending)) = Range(list) \ Range(pending)
    BY <2>1, RemovesAll
  <2> QED BY <2>2, <2>3 DEF pending, list
<1>6. ASSUME NEW d \in Channel, d \in Range(backing), d \notin Range(cases) PROVE Delivered(d)
  <2>1. PICK i \in 1..Len(send.own) : send.own[i] = d
    BY <1>2, <1>6, Members DEF InProgress
  <2>2. ~(i <= send.active)
    BY <1>2, <1>4, <1>6, <2>1, Members
  <2>3. Case(i) /\ d # Timer
    BY <1>2, FeedAssumption DEF InProgress
  <2> QED BY <2>1, <2>2, <2>3 DEF Case
<1>7. ASSUME NEW d \in Channel, d \in Range(backing), d \in Range(cases) PROVE got[d] # <<>>
  <2>1. PICK i \in 1..send.active : send.own[i] = d
    BY <1>4, <1>7, Members
  <2>2. Case(i) /\ d # Timer
    BY <1>2, <2>1, FeedAssumption DEF InProgress
  <2> QED BY <1>1, <1>2, <2>1, <2>2 DEF Case
<1>8. send'.pc = "idle" /\ send'.value = send.value /\ Shapes'
  <2>1. send' \in Call /\ send'.pc = "idle" /\ send'.value = send.value
    <3> DEFINE none == <<>>
    <3>1. none \in Seq(Channel \cup {Timer}) /\ send \in Call /\ send' = [send EXCEPT !.pc = "idle", !.own = none]
      BY <1>1 DEF Clean, Shapes
    <3> HIDE DEF none
    <3> QED BY <3>1, Zenon DEF Call
  <2> QED BY <1>1, <1>5, <2>1 DEF Clean, Shapes
<1>9. ASSUME NEW d \in Channel PROVE Account(d)'
  <2>1. Account(d)
    BY DEF Clean
  <2>2. d \in Range(backing') => Delivered(d)'
    BY <1>1, <1>5, <1>6, <1>8 DEF Delivered
  <2>3. d \in Range(backing') => d \in Range(backing)
    BY <1>5
  <2>4. d \in Range(backing) => d \in Range(backing') \/ got[d] # <<>>
    BY <1>5, <1>7
  <2> QED BY <1>1, <2>1, <2>2, <2>3, <2>4 DEF Account
<1> QED BY <1>1, <1>5, <1>8, <1>9 DEF Clean

\* A step delivers nothing, or one value.
LEMMA OneDelivery == [Next]_vars => UNCHANGED got \/ \E c, v : Deliver(c, v)
BY Zenon DEF Next, vars, Subscribe, Receive, Unsubscribe, RemoveIdle, RemoveDuring, Send, SendStep,
       TrySend, FinishSend, SelectSend, Timeout

\* A delivery makes a sequence longer.
LEMMA Appended ==
  ASSUME NEW S, NEW s \in Seq(S), NEW v
  PROVE  Append(s, v) \in Seq(S \cup {v}) /\ Append(s, v) # <<>>
<1>1. s \in Seq(S \cup {v})
  OBVIOUS
<1> QED BY <1>1

\* Sequences stay sequences, and one that has a value keeps it.
LEMMA ListsStay ==
  ASSUME Lists, [Next]_vars
  PROVE  Lists' /\ \A c \in Channel : got[c] # <<>> => got'[c] # <<>>
<1>1. CASE UNCHANGED got
  BY <1>1 DEF Lists
<1>2. ASSUME NEW d, NEW v, Deliver(d, v) PROVE Lists' /\ \A c \in Channel : got[c] # <<>> => got'[c] # <<>>
  <2>1. got' = [got EXCEPT ![d] = Append(@, v)]
    BY <1>2 DEF Deliver
  <2>2. got' = [c \in Channel |-> got'[c]]
    BY <2>1, Zenon DEF Lists
  <2>3. ASSUME NEW c \in Channel PROVE got'[c] = IF c = d THEN Append(got[c], v) ELSE got[c]
    BY <2>1, <2>3, Zenon DEF Lists
  <2>4. ASSUME NEW c \in Channel PROVE (\E S : got'[c] \in Seq(S)) /\ (got[c] # <<>> => got'[c] # <<>>)
    <3>1. PICK S : got[c] \in Seq(S)
      BY DEF Lists
    <3>2. Append(got[c], v) \in Seq(S \cup {v}) /\ Append(got[c], v) # <<>>
      BY <3>1, Appended
    <3> QED BY <2>3, <3>1, <3>2, Zenon
  <2> QED BY <2>2, <2>4, Zenon DEF Lists
<1> QED BY <1>1, <1>2, OneDelivery

\* Who has left after a value, has left for good.
LEMMA LeftStays ==
  ASSUME Lists, Subs, Left, [Next]_vars
  PROVE  Left'
<1>1. PICK c \in Channel : sub[c] = "canceled" /\ got[c] # <<>>
  BY DEF Left
<1>2. sub'[c] = "canceled"
  BY <1>1, Zenon DEF Subs, Next, vars, Subscribe, Receive, Unsubscribe, RemoveIdle, RemoveDuring, Send, SendStep,
              TrySend, FinishSend, SelectSend, Timeout
<1>3. got'[c] # <<>>
  BY <1>1, ListsStay
<1> QED BY <1>2, <1>3 DEF Left

\* The states of the subscriptions stay states.
LEMMA SubsStay == Subs /\ [Next]_vars => Subs'
BY Zenon DEF Subs, Next, vars, Subscribe, Receive, Unsubscribe, RemoveIdle, RemoveDuring, Send, SendStep,
       TrySend, FinishSend, SelectSend, Timeout

\* Every step keeps the feed clean until such a channel has left.
LEMMA CleanStep ==
  ASSUME Clean, [Next]_vars
  PROVE  Clean' \/ Left'
<1>1. ASSUME NEW c \in Channel, Subscribe(c) \/ Receive(c) \/ Unsubscribe(c) PROVE Clean'
  BY <1>1, SubscriberClean
<1>2. ASSUME NEW c \in Channel, RemoveIdle(c) \/ RemoveDuring(c) PROVE Left'
  BY <1>2, RemoveLeft
<1>3. CASE Send
  BY <1>3, SendClean
<1>4. CASE TrySend
  BY <1>4, TryClean
<1>5. CASE FinishSend
  BY <1>5, FinishClean
<1>6. ASSUME NEW i \in 1..send.active, SelectSend(i) PROVE Clean'
  BY <1>6, SelectClean
<1>7. CASE Timeout
  BY <1>7, TimeoutClean
<1>8. CASE UNCHANGED vars
  <2>1. (send.pc # "idle" => InProgress)'
    BY <1>8, SameInProgress DEF vars, Clean
  <2> QED BY <1>8, <2>1 DEF vars, Clean, Shapes, Account, Delivered
<1> QED BY <1>1, <1>2, <1>3, <1>4, <1>5, <1>6, <1>7, <1>8 DEF Next, SendStep

\* Until a channel that a Send had taken unsubscribes, every channel in the feed
\* gets every value from its first one on, each once, for any number of channels,
\* of buffer places and of calls of Send.
THEOREM NoValueLost == Spec => []EveryValueOnce
<1> DEFINE IInv == Lists /\ Subs /\ (Clean \/ Left)
<1>1. Init => IInv
  <2> SUFFICES ASSUME Init PROVE IInv
    OBVIOUS
  <2>0. Lists
    <3>1. \A c \in Channel : got[c] = <<>> /\ got[c] \in Seq({})
      BY DEF Init
    <3> QED BY <3>1, Zenon DEF Init, Lists
  <2>1. Lists /\ Subs
    BY <2>0 DEF Init, Subs
  <2>2. Shapes
    BY DEF Init, Shapes, Call
  <2>3. \A c \in Channel : Account(c)
    BY DEF Init, Account, Range
  <2> QED BY <2>1, <2>2, <2>3 DEF Init, Clean, IsInjective
<1>2. IInv /\ [Next]_vars => IInv'
  BY ListsStay, SubsStay, LeftStays, CleanStep
<1>3. IInv => EveryValueOnce
  <2>1. Left => EveryValueOnce
    BY DEF Left, EveryValueOnce, Undisturbed
  <2> QED BY <2>1, CleanOnce
<1> HIDE DEF IInv
<1> QED BY <1>1, <1>2, <1>3, PTL DEF Spec

=============================================================================
