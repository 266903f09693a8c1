--------------------------- MODULE StateDBProofs ----------------------------
(***************************************************************************)
(* The journal of a StateDB brings back what could be seen.                *)
(***************************************************************************)
EXTENDS StateDB, WellFoundedInduction, TLAPS

\* Time for the steps that take the solver longer.
USE SMTT(60)

\* The records of the journal.
Entry ==
  [type : {"createObject"}, account : Address]
  \cup [type : {"resetObject"}, account : Address, prev : Object]
  \cup [type : {"suicide"}, account : Address, prev : BOOLEAN, prevbalance : Int]
  \cup [type : {"touch"}, account : Address, prev : BOOLEAN, prevDirty : BOOLEAN]
  \cup [type : {"balance"}, account : Address, prev : Int]
  \cup [type : {"nonce"}, account : Address, prev : Nat]
  \cup [type : {"code"}, account : Address, prev : Code]
  \cup [type : {"storage"}, account : Address, key : Slot, prev : Int]
  \cup [type : {"refund"}, prev : Int]
  \cup [type : {"addLog"}]

Revision == [id : Nat, journalIndex : Nat, view : Sight]

Database ==
  [trie : [Address -> AccountData \cup {None}], codes : SUBSET Code,
   objects : UNION {[D -> Object] : D \in SUBSET Address}, dirty : SUBSET Address,
   refund : Int, logs : Seq(Address), journal : Seq(Entry), revisions : Seq(Revision),
   nextRevisionId : Nat]

\* An object as the getters show it.
Show(o) ==
  [nonce |-> o.nonce, balance |-> o.balance, code |-> o.code, storage |-> o.storage,
   suicided |-> o.suicided]

-----------------------------------------------------------------------------
(* Fields.                                                                 *)

\* The fields of a database.
LEMMA Fields ==
  ASSUME NEW s \in Database
  PROVE  /\ s.trie \in [Address -> AccountData \cup {None}] /\ s.codes \in SUBSET Code
         /\ DOMAIN s.objects \subseteq Address /\ \A a \in DOMAIN s.objects : s.objects[a] \in Object
         /\ s.dirty \subseteq Address /\ s.refund \in Int /\ s.logs \in Seq(Address)
         /\ s.journal \in Seq(Entry) /\ s.revisions \in Seq(Revision) /\ s.nextRevisionId \in Nat
BY DEF Database

\* What getStateObject returns.
LEMMA GotObject ==
  ASSUME NEW s \in Database, NEW a \in Address
  PROVE  /\ getStateObject(s, a) \in Object \cup {None}
         /\ Exist(s, a) <=> getStateObject(s, a) \in Object
<1>1. ASSUME NEW d \in AccountData PROVE newObject(d) \in Object
  BY DEF AccountData, Object, newObject
<1> QED BY <1>1, Fields, NoneAssumption DEF getStateObject, Exist

\* An object in the place of another.
LEMMA SetObject ==
  ASSUME NEW s \in Database, NEW a \in Address, NEW o \in Object
  PROVE  LET t == setStateObject(s, a, o)
         IN /\ t \in Database
            /\ t.objects = [b \in DOMAIN s.objects \cup {a} |-> IF b = a THEN o ELSE s.objects[b]]
            /\ t.trie = s.trie /\ t.codes = s.codes /\ t.dirty = s.dirty /\ t.refund = s.refund
            /\ t.logs = s.logs /\ t.journal = s.journal /\ t.revisions = s.revisions
            /\ t.nextRevisionId = s.nextRevisionId
<1> DEFINE new == [b \in DOMAIN s.objects \cup {a} |-> IF b = a THEN o ELSE s.objects[b]]
<1>1. setStateObject(s, a, o) = [s EXCEPT !.objects = new]
  BY DEF setStateObject
<1>2. new \in UNION {[D -> Object] : D \in SUBSET Address}
  <2>1. new \in [DOMAIN s.objects \cup {a} -> Object]
    BY Fields
  <2> HIDE DEF new
  <2> QED BY <2>1, Fields, ZenonT(60)
<1> HIDE DEF new
<1>3. /\ [s EXCEPT !.objects = new] \in Database /\ [s EXCEPT !.objects = new].objects = new
  BY <1>2, ZenonT(60) DEF Database
<1> QED BY <1>1, <1>3, ZenonT(60) DEF new, Database

\* getStateObject after that.
LEMMA GotAfterSet ==
  ASSUME NEW s \in Database, NEW a \in Address, NEW o \in Object, NEW b \in Address
  PROVE  getStateObject(setStateObject(s, a, o), b) =
           IF b # a THEN getStateObject(s, b) ELSE IF o.deleted THEN None ELSE o
<1> DEFINE t == setStateObject(s, a, o)
<1>1. /\ t.objects = [c \in DOMAIN s.objects \cup {a} |-> IF c = a THEN o ELSE s.objects[c]]
      /\ t.trie = s.trie
  BY SetObject
<1> HIDE DEF t
<1> QED BY <1>1 DEF getStateObject, t

\* What t keeps of s while a transaction runs.
Kept(s, t) ==
  t.trie = s.trie /\ t.codes = s.codes /\ t.revisions = s.revisions
  /\ t.nextRevisionId = s.nextRevisionId

\* An object entered among the dirty ones.
Entered(o) == [o EXCEPT !.onDirty = FALSE]

\* Its fields.
LEMMA Enters ==
  ASSUME NEW o \in Object
  PROVE  /\ Entered(o) \in Object /\ ~Entered(o).onDirty /\ Entered(o).deleted = o.deleted
         /\ Entered(o).nonce = o.nonce /\ Entered(o).balance = o.balance /\ Entered(o).code = o.code
         /\ Entered(o).storage = o.storage /\ Entered(o).suicided = o.suicided
         /\ Entered(o).touched = o.touched /\ Show(Entered(o)) = Show(o)
BY ZenonT(60) DEF Entered, Object, Show

\* A changed object: it is shown, and the other accounts as before.
LEMMA ChangedObject ==
  ASSUME NEW s \in Database, NEW a \in Address, NEW o \in Object, ~o.deleted
  PROVE  LET t == Changed(s, a, o)
         IN /\ t \in Database /\ Kept(s, t) /\ t.journal = s.journal
            /\ t.refund = s.refund /\ t.logs = s.logs
            /\ t.dirty = IF o.onDirty THEN s.dirty \cup {a} ELSE s.dirty
            /\ DOMAIN t.objects = DOMAIN s.objects \cup {a}
            /\ \A b \in DOMAIN t.objects :
                 t.objects[b] = IF b = a THEN Entered(o) ELSE s.objects[b]
            /\ \A b \in Address :
                 getStateObject(t, b) = IF b = a THEN Entered(o) ELSE getStateObject(s, b)
<1> DEFINE p == Entered(o)
           u == setStateObject(s, a, p)
           d == IF o.onDirty THEN u.dirty \cup {a} ELSE u.dirty
           t == [u EXCEPT !.dirty = d]
<1>1. Changed(s, a, o) = t
  BY DEF Changed, Entered
<1>2. p \in Object /\ ~p.deleted
  BY Enters
<1> HIDE DEF p
<1>3. /\ u \in Database
      /\ u.objects = [b \in DOMAIN s.objects \cup {a} |-> IF b = a THEN p ELSE s.objects[b]]
      /\ u.dirty = s.dirty /\ u.refund = s.refund /\ u.logs = s.logs /\ u.journal = s.journal
      /\ Kept(s, u)
  BY <1>2, SetObject DEF Kept
<1>4. \A b \in Address : getStateObject(u, b) = IF b = a THEN p ELSE getStateObject(s, b)
  BY <1>2, GotAfterSet
<1> HIDE DEF u
<1>5. d \in SUBSET Address
  BY <1>3, Fields
<1> HIDE DEF d
<1>6. /\ t \in Database /\ t.dirty = d /\ t.objects = u.objects /\ t.trie = u.trie /\ t.codes = u.codes
      /\ t.revisions = u.revisions /\ t.nextRevisionId = u.nextRevisionId /\ t.journal = u.journal
      /\ t.refund = u.refund /\ t.logs = u.logs
  BY <1>3, <1>5, ZenonT(60) DEF Database
<1> HIDE DEF t
<1>7. \A b \in Address : getStateObject(t, b) = getStateObject(u, b)
  BY <1>6 DEF getStateObject
<1>8. t.dirty = IF o.onDirty THEN s.dirty \cup {a} ELSE s.dirty
  BY <1>3, <1>6 DEF d
<1>9. DOMAIN t.objects = DOMAIN s.objects \cup {a}
      /\ \A b \in DOMAIN t.objects : t.objects[b] = IF b = a THEN p ELSE s.objects[b]
  BY <1>3, <1>6
<1> QED BY <1>1, <1>3, <1>4, <1>6, <1>7, <1>8, <1>9, ZenonT(60) DEF Kept, p

\* An entry at the end of the journal.
LEMMA Journals ==
  ASSUME NEW s \in Database, NEW e \in Entry
  PROVE  LET t == Journal(s, e)
         IN /\ t \in Database /\ Kept(s, t) /\ t.journal = Append(s.journal, e)
            /\ t.refund = s.refund /\ t.logs = s.logs /\ t.dirty = s.dirty /\ t.objects = s.objects
            /\ \A b \in Address : getStateObject(t, b) = getStateObject(s, b)
<1> DEFINE j == Append(s.journal, e)
           t == [s EXCEPT !.journal = j]
<1>1. Journal(s, e) = t
  BY DEF Journal
<1>2. j \in Seq(Entry)
  BY Fields
<1> HIDE DEF j
<1>3. /\ t \in Database /\ t.journal = j /\ t.refund = s.refund /\ t.logs = s.logs
      /\ t.dirty = s.dirty /\ t.objects = s.objects /\ Kept(s, t)
  BY <1>2, ZenonT(60) DEF Database, Kept
<1> HIDE DEF t
<1>4. \A b \in Address : getStateObject(t, b) = getStateObject(s, b)
  BY <1>3 DEF getStateObject, Kept
<1> QED BY <1>1, <1>3, <1>4 DEF j

-----------------------------------------------------------------------------
(* What can be seen.                                                       *)

\* An account seen with another value.
With(v, a, x) == [v EXCEPT !.accounts = [@ EXCEPT ![a] = x]]

\* What can be seen of a database.
LEMMA Sights ==
  ASSUME NEW s \in Database
  PROVE  /\ View(s) \in Sight /\ View(s).refund = s.refund /\ View(s).logs = s.logs
         /\ \A a \in Address : /\ View(s).accounts[a] = Visible(s, a)
                               /\ Visible(s, a) \in Shown \cup {None}
                               /\ Exist(s, a) => Visible(s, a) = Show(getStateObject(s, a))
                               /\ Exist(s, a) <=> Visible(s, a) # None
<1>1. ASSUME NEW o \in Object PROVE Show(o) \in Shown
  BY DEF Object, Shown, Show
<1>2. ASSUME NEW a \in Address
      PROVE  /\ Visible(s, a) \in Shown \cup {None}
             /\ Exist(s, a) => Visible(s, a) = Show(getStateObject(s, a))
             /\ Exist(s, a) <=> Visible(s, a) # None
  <2>1. CASE getStateObject(s, a) = None
    BY <2>1 DEF Visible, Exist
  <2>2. CASE getStateObject(s, a) \in Object
    <3>1. Visible(s, a) = Show(getStateObject(s, a))
      BY <2>2, NoneAssumption DEF Visible, Show
    <3> QED BY <1>1, <2>2, <3>1, NoneAssumption DEF Exist
  <2> QED BY <2>1, <2>2, GotObject
<1>3. View(s) \in Sight /\ View(s).refund = s.refund /\ View(s).logs = s.logs
      /\ \A a \in Address : View(s).accounts[a] = Visible(s, a)
  <2> DEFINE accounts == [a \in Address |-> Visible(s, a)]
  <2>1. accounts \in [Address -> Shown \cup {None}] /\ \A a \in Address : accounts[a] = Visible(s, a)
    BY <1>2
  <2> HIDE DEF accounts
  <2>2. s.refund \in Int /\ s.logs \in Seq(Address)
    BY Fields
  <2>3. View(s) = [accounts |-> accounts, refund |-> s.refund, logs |-> s.logs]
    BY DEF View, accounts
  <2> QED BY <2>1, <2>2, <2>3 DEF Sight
<1> QED BY <1>2, <1>3

\* Two databases in which the same is seen.
LEMMA SameSight ==
  ASSUME NEW s \in Database, NEW t \in Database, t.refund = s.refund, t.logs = s.logs,
         \A b \in Address : getStateObject(t, b) = getStateObject(s, b)
  PROVE  View(t) = View(s)
<1>1. ASSUME NEW b \in Address
      PROVE  Visible(t, b) = Visible(s, b)
  <2>1. getStateObject(t, b) = getStateObject(s, b)
    OBVIOUS
  <2> QED BY <2>1, ZenonT(60) DEF Visible
<1> QED BY <1>1 DEF View

\* The fields of a view with another account.
LEMMA Withs ==
  ASSUME NEW v \in Sight, NEW a \in Address, NEW x \in Shown \cup {None}
  PROVE  /\ With(v, a, x) \in Sight
         /\ With(v, a, x).refund = v.refund /\ With(v, a, x).logs = v.logs
         /\ \A b \in Address : With(v, a, x).accounts[b] = IF b = a THEN x ELSE v.accounts[b]
BY DEF With, Sight

\* Two views are the same.
LEMMA SightsEqual ==
  ASSUME NEW v \in Sight, NEW w \in Sight, v.refund = w.refund, v.logs = w.logs,
         \A b \in Address : v.accounts[b] = w.accounts[b]
  PROVE  v = w
BY DEF Sight

\* Another object of one account is seen.
LEMMA OtherObject ==
  ASSUME NEW s \in Database, NEW t \in Database, NEW a \in Address, NEW p \in Object,
         t.refund = s.refund, t.logs = s.logs,
         \A b \in Address : getStateObject(t, b) = IF b = a THEN p ELSE getStateObject(s, b)
  PROVE  View(t) = With(View(s), a, Show(p))
<1>1. Show(p) \in Shown
  BY DEF Object, Shown, Show
<1>2. \A b \in Address : Visible(t, b) = IF b = a THEN Show(p) ELSE Visible(s, b)
  BY NoneAssumption, ZenonT(60) DEF Visible, Show
<1>3. View(s) \in Sight /\ View(t) \in Sight
  BY Sights
<1>4. With(View(s), a, Show(p)) \in Sight
  BY <1>1, <1>3, Withs
<1>5. ASSUME NEW b \in Address
      PROVE  View(t).accounts[b] = With(View(s), a, Show(p)).accounts[b]
  <2>1. View(t).accounts[b] = Visible(t, b) /\ View(s).accounts[b] = Visible(s, b)
    BY Sights
  <2>2. With(View(s), a, Show(p)).accounts[b] = IF b = a THEN Show(p) ELSE View(s).accounts[b]
    BY <1>1, <1>3, Withs
  <2> QED BY <1>2, <2>1, <2>2
<1>6. /\ View(t).refund = With(View(s), a, Show(p)).refund
      /\ View(t).logs = With(View(s), a, Show(p)).logs
  BY <1>1, <1>3, Sights, Withs
<1> QED BY <1>3, <1>4, <1>5, <1>6, SightsEqual

-----------------------------------------------------------------------------
(* Undoing an entry of the journal.                                        *)

\* Before the entry the account was there.
Applies(v, e) ==
  e.type \in {"touch", "balance", "nonce", "code", "storage"} => v.accounts[e.account] # None

\* An object, or what is seen of it, that is or is not destroyed.
Fated(o, suicided, balance) == [o EXCEPT !.suicided = suicided, !.balance = balance]

\* An object, or what is seen of it, with another value in a slot.
Stores(o, k, x) == [o EXCEPT !.storage[k] = x, !.dirtyStorage = @ \cup {k}]
SlotSeen(o, k, x) == [o EXCEPT !.storage = [@ EXCEPT ![k] = x]]

\* What can be seen after an entry is undone.
Undone(v, e) ==
  LET x == v.accounts[e.account]
  IN CASE e.type = "createObject" -> With(v, e.account, None)
       [] e.type = "resetObject" -> With(v, e.account, Show(e.prev))
       [] e.type = "suicide" ->
            IF x = None THEN v
            ELSE With(v, e.account, Fated(x, e.prev, e.prevbalance))
       [] e.type = "touch" -> v
       [] e.type = "balance" -> With(v, e.account, [x EXCEPT !.balance = e.prev])
       [] e.type = "nonce" -> With(v, e.account, [x EXCEPT !.nonce = e.prev])
       [] e.type = "code" -> With(v, e.account, [x EXCEPT !.code = e.prev])
       [] e.type = "storage" -> With(v, e.account, SlotSeen(x, e.key, e.prev))
       [] e.type = "refund" -> [v EXCEPT !.refund = e.prev]
       [] e.type = "addLog" -> [v EXCEPT !.logs = SubSeq(@, 1, Len(@) - 1)]

\* An object was created only for an account that the trie does not have, and no
\* deleted object was reset.
Fits(trie, e) ==
  /\ e.type = "createObject" => trie[e.account] = None
  /\ e.type = "resetObject" => ~e.prev.deleted

\* The dirty objects are there, and a deleted object is not in the trie.
Consistent(s) ==
  /\ s.dirty \subseteq DOMAIN s.objects
  /\ \A a \in DOMAIN s.objects :
       s.objects[a].deleted => /\ s.trie[a] = None
                               /\ s.objects[a].suicided \/ empty(s.objects[a])
  /\ \A i \in 1..Len(s.journal) : Fits(s.trie, s.journal[i])

\* A changed object leaves the database consistent.
LEMMA ChangeConsistent ==
  ASSUME NEW s \in Database, Consistent(s), NEW a \in Address, NEW o \in Object, ~o.deleted
  PROVE  Consistent(Changed(s, a, o))
<1> DEFINE t == Changed(s, a, o)
<1>1. /\ Kept(s, t) /\ t.journal = s.journal
      /\ t.dirty = IF o.onDirty THEN s.dirty \cup {a} ELSE s.dirty
      /\ DOMAIN t.objects = DOMAIN s.objects \cup {a}
      /\ \A b \in DOMAIN t.objects :
           t.objects[b] = IF b = a THEN Entered(o) ELSE s.objects[b]
  BY ChangedObject, ZenonT(60)
<1> HIDE DEF t
<1>2. ~Entered(o).deleted
  BY Enters
<1>3. \A b \in DOMAIN t.objects : t.objects[b].deleted =>
         t.trie[b] = None /\ (t.objects[b].suicided \/ empty(t.objects[b]))
  <2> SUFFICES ASSUME NEW b \in DOMAIN t.objects, t.objects[b].deleted
               PROVE  t.trie[b] = None /\ (t.objects[b].suicided \/ empty(t.objects[b]))
    OBVIOUS
  <2>1. b # a /\ t.objects[b] = s.objects[b] /\ b \in DOMAIN s.objects
    BY <1>1, <1>2
  <2> QED BY <1>1, <2>1 DEF Consistent, Kept
<1>4. t.dirty \subseteq DOMAIN t.objects
  BY <1>1 DEF Consistent
<1>5. \A i \in 1..Len(t.journal) : Fits(t.trie, t.journal[i])
  BY <1>1 DEF Consistent, Kept
<1> QED BY <1>3, <1>4, <1>5 DEF Consistent, t

\* What is seen with a changed object.
LEMMA ChangeSight ==
  ASSUME NEW s \in Database, NEW a \in Address, NEW o \in Object, ~o.deleted
  PROVE  View(Changed(s, a, o)) = With(View(s), a, Show(o))
<1> DEFINE t == Changed(s, a, o)
<1>1. /\ t \in Database /\ t.refund = s.refund /\ t.logs = s.logs
      /\ \A b \in Address : getStateObject(t, b) = IF b = a THEN Entered(o) ELSE getStateObject(s, b)
  BY ChangedObject, ZenonT(60)
<1>2. Entered(o) \in Object /\ Show(Entered(o)) = Show(o)
  BY Enters
<1> HIDE DEF t
<1>3. View(t) = With(View(s), a, Show(Entered(o)))
  BY <1>1, <1>2, OtherObject
<1> QED BY <1>2, <1>3 DEF t

\* t is s with an entry undone.
Undoes(s, e, t) ==
  /\ t \in Database /\ Consistent(t) /\ Kept(s, t) /\ t.journal = s.journal
  /\ View(t) = Undone(View(s), e)

\* An object that exists.
LEMMA Existing ==
  ASSUME NEW s \in Database, NEW a \in Address, Exist(s, a)
  PROVE  /\ getStateObject(s, a) \in Object /\ ~getStateObject(s, a).deleted
         /\ View(s).accounts[a] = Show(getStateObject(s, a)) /\ View(s).accounts[a] # None
<1>1. getStateObject(s, a) \in Object
  BY GotObject
<1>2. ~getStateObject(s, a).deleted
  BY <1>1, Fields, NoneAssumption, ZenonT(60) DEF getStateObject, newObject
<1> QED BY <1>1, <1>2, Sights

\* Objects with other fields.
LEMMA OtherFields ==
  ASSUME NEW o \in Object
  PROVE  /\ \A n \in Nat : LET p == [o EXCEPT !.nonce = n]
                           IN p \in Object /\ p.deleted = o.deleted /\ Show(p) = [Show(o) EXCEPT !.nonce = n]
         /\ \A x \in Int : LET p == [o EXCEPT !.balance = x]
                           IN p \in Object /\ p.deleted = o.deleted /\ Show(p) = [Show(o) EXCEPT !.balance = x]
BY DEF Object, Show

\* The same for the code of a contract.
LEMMA OtherCode ==
  ASSUME NEW o \in Object, NEW c \in Code
  PROVE  LET p == [o EXCEPT !.code = c, !.dirtyCode = TRUE]
         IN p \in Object /\ p.deleted = o.deleted /\ Show(p) = [Show(o) EXCEPT !.code = c]
<1> DEFINE q == [o EXCEPT !.code = c]
           p == [q EXCEPT !.dirtyCode = TRUE]
<1>1. q \in Object /\ q.deleted = o.deleted /\ Show(q) = [Show(o) EXCEPT !.code = c]
  BY DEF Object, Show
<1>2. [o EXCEPT !.code = c, !.dirtyCode = TRUE] = p
  BY DEF Object
<1> HIDE DEF q
<1>3. p \in Object /\ p.deleted = q.deleted /\ Show(p) = Show(q)
  BY <1>1, ZenonT(60) DEF Object, Show
<1> HIDE DEF p
<1> QED BY <1>1, <1>2, <1>3

\* The same for a slot of its storage.
LEMMA OtherSlot ==
  ASSUME NEW o \in Object, NEW k \in Slot, NEW x \in Int
  PROVE  /\ Stores(o, k, x) \in Object /\ Stores(o, k, x).deleted = o.deleted
         /\ Show(Stores(o, k, x)) = SlotSeen(Show(o), k, x)
<1> DEFINE st == [o.storage EXCEPT ![k] = x]
           d == o.dirtyStorage \cup {k}
           q == [o EXCEPT !.storage = st]
           p == [q EXCEPT !.dirtyStorage = d]
<1>1. Stores(o, k, x) = p
  BY DEF Object, Stores
<1>2. SlotSeen(Show(o), k, x) = [Show(o) EXCEPT !.storage = st]
  BY DEF Show, SlotSeen
<1>3. st \in [Slot -> Int] /\ d \subseteq Slot
  BY DEF Object
<1> HIDE DEF st, d
<1>4. q \in Object /\ q.deleted = o.deleted /\ Show(q) = [Show(o) EXCEPT !.storage = st]
  BY <1>3 DEF Object, Show
<1> HIDE DEF q
<1>5. p \in Object /\ p.deleted = q.deleted /\ Show(p) = Show(q)
  BY <1>3, <1>4 DEF Object, Show
<1> HIDE DEF p
<1> QED BY <1>1, <1>2, <1>4, <1>5

\* And for a contract that is destroyed.
LEMMA OtherFate ==
  ASSUME NEW o \in Object, NEW y \in BOOLEAN, NEW x \in Int
  PROVE  /\ Fated(o, y, x) \in Object /\ Fated(o, y, x).deleted = o.deleted
         /\ Show(Fated(o, y, x)) = Fated(Show(o), y, x)
<1> DEFINE q == [o EXCEPT !.suicided = y]
           p == [q EXCEPT !.balance = x]
           w == [Show(o) EXCEPT !.suicided = y]
<1>1. q \in Object /\ q.deleted = o.deleted /\ Show(q) = w
  BY DEF Object, Show
<1>2. Fated(o, y, x) = p
  BY DEF Object, Fated
<1>3. Fated(Show(o), y, x) = [w EXCEPT !.balance = x]
  BY DEF Show, Fated
<1> HIDE DEF q, w
<1>4. p \in Object /\ p.deleted = q.deleted /\ Show(p) = [w EXCEPT !.balance = x]
  <2>1. p \in Object /\ p.deleted = q.deleted /\ Show(p) = [Show(q) EXCEPT !.balance = x]
    BY <1>1, OtherFields
  <2> QED BY <1>1, <2>1
<1> HIDE DEF p
<1> QED BY <1>1, <1>2, <1>3, <1>4

\* A view with what it has.
LEMMA WithSame ==
  ASSUME NEW v \in Sight, NEW a \in Address
  PROVE  With(v, a, v.accounts[a]) = v
<1>1. v.accounts[a] \in Shown \cup {None}
  BY DEF Sight
<1>2. \A b \in Address : With(v, a, v.accounts[a]).accounts[b] = v.accounts[b]
  BY <1>1, Withs
<1> QED BY <1>1, <1>2, Withs, SightsEqual

-----------------------------------------------------------------------------
(* Reverting to a snapshot.                                                *)

\* The views that undoing the journal goes through; each revision has one of them.
History(s, h) ==
  /\ h[Len(s.journal)] = View(s)
  /\ \A i \in 1..Len(s.journal) : Applies(h[i], s.journal[i]) /\ h[i - 1] = Undone(h[i], s.journal[i])
  /\ \A r \in DOMAIN s.revisions : h[s.revisions[r].journalIndex] = s.revisions[r].view

\* The revisions are nested.
Nested(s) ==
  /\ \A r \in DOMAIN s.revisions : /\ s.revisions[r].journalIndex <= Len(s.journal)
                                   /\ s.revisions[r].id < s.nextRevisionId
  /\ \A q, r \in DOMAIN s.revisions :
       q < r => /\ s.revisions[q].id < s.revisions[r].id
                /\ s.revisions[q].journalIndex <= s.revisions[r].journalIndex

\* A database whose journal and revisions are right.
Sound(s) == s \in Database /\ Consistent(s) /\ Nested(s) /\ \E h : History(s, h)

\* RevertToSnapshot brings back what could be seen, and the database stays sound.
LEMMA Reverted ==
  \A s : Sound(s) =>
    \A i \in DOMAIN s.revisions :
      LET t == RevertToSnapshot(s, s.revisions[i].id)
      IN /\ Sound(t) /\ View(t) = s.revisions[i].view
         /\ t.revisions = SubSeq(s.revisions, 1, i - 1) /\ t.nextRevisionId = s.nextRevisionId
\* The fields of the entries.
<1>Entries.
  ASSUME NEW e \in Entry
  PROVE  /\ e.type \in {"createObject", "resetObject", "suicide", "touch", "balance", "nonce", "code",
                        "storage", "refund", "addLog"}
         /\ e.type \notin {"refund", "addLog"} => e.account \in Address
         /\ e.type = "resetObject" => e.prev \in Object
         /\ e.type = "suicide" => e.prev \in BOOLEAN /\ e.prevbalance \in Int
         /\ e.type = "touch" => e.prev \in BOOLEAN /\ e.prevDirty \in BOOLEAN
         /\ e.type = "balance" => e.prev \in Int
         /\ e.type = "nonce" => e.prev \in Nat
         /\ e.type = "code" => e.prev \in Code
         /\ e.type = "storage" => e.key \in Slot /\ e.prev \in Int
         /\ e.type = "refund" => e.prev \in Int
  BY DEF Entry
\* An entry whose undo changes one object.
<1>UndoChange.
  ASSUME NEW s \in Database, Consistent(s), NEW e, NEW a \in Address, NEW o \in Object, ~o.deleted,
         Undone(View(s), e) = With(View(s), a, Show(o))
  PROVE  Undoes(s, e, Changed(s, a, o))
  <2> USE <1>UndoChange
  <2> DEFINE t == Changed(s, a, o)
  <2>1. t \in Database /\ Kept(s, t) /\ t.journal = s.journal
    BY ChangedObject, ZenonT(60)
  <2>2. Consistent(t)
    BY ChangeConsistent
  <2>3. View(t) = With(View(s), a, Show(o))
    BY ChangeSight
  <2> HIDE DEF t
  <2>4. Undoes(s, e, t)
    BY <2>1, <2>2, <2>3 DEF Undoes
  <2> QED BY <2>4 DEF t
\* An object that is gone is seen as None.
<1>GoneObject.
  ASSUME NEW s \in Database, NEW t \in Database, NEW a \in Address,
         t.refund = s.refund, t.logs = s.logs,
         \A b \in Address : getStateObject(t, b) = IF b = a THEN None ELSE getStateObject(s, b)
  PROVE  View(t) = With(View(s), a, None)
  <2> USE <1>GoneObject
  <2>1. ASSUME NEW b \in Address
        PROVE  Visible(t, b) = IF b = a THEN None ELSE Visible(s, b)
    <3>1. getStateObject(t, b) = IF b = a THEN None ELSE getStateObject(s, b)
      OBVIOUS
    <3> QED BY <3>1, ZenonT(60) DEF Visible
  <2>2. View(s) \in Sight /\ View(t) \in Sight
    BY Sights
  <2>3. With(View(s), a, None) \in Sight
    BY <2>2, Withs
  <2>4. ASSUME NEW b \in Address
        PROVE  View(t).accounts[b] = With(View(s), a, None).accounts[b]
    <3>1. View(t).accounts[b] = Visible(t, b) /\ View(s).accounts[b] = Visible(s, b)
      BY Sights
    <3>2. With(View(s), a, None).accounts[b] = IF b = a THEN None ELSE View(s).accounts[b]
      BY <2>2, Withs
    <3> QED BY <2>1, <3>1, <3>2
  <2>5. /\ View(t).refund = With(View(s), a, None).refund /\ View(t).logs = With(View(s), a, None).logs
    BY <2>2, Sights, Withs
  <2> QED BY <2>2, <2>3, <2>4, <2>5, SightsEqual
\* Undoing the creation of an object.
<1>UndoCreate.
  ASSUME NEW s \in Database, Consistent(s), NEW e \in Entry, Fits(s.trie, e), e.type = "createObject"
  PROVE  Undoes(s, e, undo(s, e))
  <2> USE <1>UndoCreate
  <2> DEFINE a == e.account
             o == [b \in DOMAIN s.objects \ {a} |-> s.objects[b]]
             d == s.dirty \ {a}
             u == [s EXCEPT !.objects = o]
             t == [u EXCEPT !.dirty = d]
  <2>0. a \in Address /\ s.trie[a] = None
    BY <1>Entries DEF Fits
  <2>1. undo(s, e) = t
    <3>1. undo(s, e) = [s EXCEPT !.objects = o, !.dirty = d]
      BY DEF undo
    <3> HIDE DEF o, d
    <3> QED BY <3>1 DEF Database
  <2>2. o \in UNION {[D -> Object] : D \in SUBSET Address} /\ d \in SUBSET Address
    <3>1. o \in [DOMAIN s.objects \ {a} -> Object]
      BY Fields
    <3> HIDE DEF o
    <3> QED BY <3>1, Fields, ZenonT(60)
  <2>3. DOMAIN o = DOMAIN s.objects \ {a} /\ \A b \in DOMAIN o : o[b] = s.objects[b]
    OBVIOUS
  <2> HIDE DEF a, o, d
  <2>4. /\ u \in Database /\ Kept(s, u) /\ u.objects = o /\ u.journal = s.journal
        /\ u.refund = s.refund /\ u.logs = s.logs
    BY <2>2, ZenonT(60) DEF Database, Kept
  <2> HIDE DEF u
  <2>5. /\ t \in Database /\ Kept(u, t) /\ t.objects = o /\ t.dirty = d /\ t.journal = s.journal
        /\ t.refund = s.refund /\ t.logs = s.logs
    BY <2>2, <2>4, ZenonT(60) DEF Database, Kept
  <2> HIDE DEF t
  <2>6. Kept(s, t)
    BY <2>4, <2>5 DEF Kept
  <2>7. \A b \in Address : getStateObject(t, b) = IF b = a THEN None ELSE getStateObject(s, b)
    BY <2>0, <2>3, <2>5, <2>6, ZenonT(60) DEF getStateObject, Kept
  <2>8. View(t) = With(View(s), a, None)
    BY <2>0, <2>5, <2>7, <1>GoneObject, ZenonT(60)
  <2>9. Undone(View(s), e) = With(View(s), a, None)
    BY DEF Undone, a
  <2>10. Consistent(t)
    <3>1. t.dirty \subseteq DOMAIN t.objects
      BY <2>3, <2>5, ZenonT(60) DEF Consistent, d
    <3> QED BY <2>3, <2>5, <2>6, <3>1 DEF Consistent, Kept
  <2> QED BY <2>1, <2>5, <2>6, <2>8, <2>9, <2>10 DEF Undoes
\* Undoing the reset of an object.
<1>UndoReset.
  ASSUME NEW s \in Database, Consistent(s), NEW e \in Entry, Fits(s.trie, e), e.type = "resetObject"
  PROVE  Undoes(s, e, undo(s, e))
  <2> USE <1>UndoReset
  <2> DEFINE a == e.account
             p == e.prev
             t == setStateObject(s, a, p)
  <2>0. a \in Address /\ p \in Object /\ ~p.deleted
    BY <1>Entries DEF Fits
  <2>1. undo(s, e) = t
    BY DEF undo
  <2>2. Undone(View(s), e) = With(View(s), a, Show(p))
    BY DEF Undone
  <2> HIDE DEF a, p
  <2>3. /\ t \in Database /\ Kept(s, t) /\ t.journal = s.journal /\ t.dirty = s.dirty
        /\ t.refund = s.refund /\ t.logs = s.logs
        /\ t.objects = [b \in DOMAIN s.objects \cup {a} |-> IF b = a THEN p ELSE s.objects[b]]
    BY <2>0, SetObject DEF Kept
  <2>4. \A b \in Address : getStateObject(t, b) = IF b = a THEN p ELSE getStateObject(s, b)
    BY <2>0, GotAfterSet
  <2> HIDE DEF t
  <2>5. View(t) = With(View(s), a, Show(p))
    BY <2>0, <2>3, <2>4, OtherObject, ZenonT(60)
  <2>6. Consistent(t)
    BY <2>0, <2>3 DEF Consistent, Kept
  <2> QED BY <2>1, <2>2, <2>3, <2>5, <2>6, ZenonT(60) DEF Undoes
\* Undoing a touch.
<1>UndoTouch.
  ASSUME NEW s \in Database, Consistent(s), NEW e \in Entry, Applies(View(s), e), e.type = "touch"
  PROVE  Undoes(s, e, undo(s, e))
  <2> USE <1>UndoTouch
  <2> DEFINE a == e.account
             g == getStateObject(s, a)
             p == [g EXCEPT !.touched = FALSE]
             u == setStateObject(s, a, p)
             d == IF e.prevDirty THEN u.dirty ELSE u.dirty \ {a}
             t == [u EXCEPT !.dirty = d]
  <2>0. a \in Address /\ View(s).accounts[a] # None
    BY <1>Entries DEF Applies
  <2>1. undo(s, e) = s \/ undo(s, e) = t
    BY DEF undo
  <2>2. Undone(View(s), e) = View(s)
    BY DEF Undone
  <2> HIDE DEF a
  <2>3. g \in Object /\ ~g.deleted /\ View(s).accounts[a] = Show(g)
    BY <2>0, Sights, Existing
  <2> HIDE DEF g
  <2>4. p \in Object /\ ~p.deleted /\ Show(p) = Show(g)
    BY <2>3, ZenonT(60) DEF Object, Show
  <2> HIDE DEF p
  <2>5. /\ u \in Database /\ Kept(s, u) /\ u.journal = s.journal /\ u.dirty = s.dirty
        /\ u.refund = s.refund /\ u.logs = s.logs
        /\ u.objects = [b \in DOMAIN s.objects \cup {a} |-> IF b = a THEN p ELSE s.objects[b]]
    BY <2>0, <2>4, SetObject DEF Kept
  <2>6. \A b \in Address : getStateObject(u, b) = IF b = a THEN p ELSE getStateObject(s, b)
    BY <2>0, <2>4, GotAfterSet
  <2> HIDE DEF u
  <2>7. d \in SUBSET Address /\ d \subseteq s.dirty
    BY <2>5, Fields
  <2> HIDE DEF d
  <2>8. /\ t \in Database /\ Kept(u, t) /\ t.objects = u.objects /\ t.dirty = d /\ t.journal = u.journal
        /\ t.refund = u.refund /\ t.logs = u.logs
    BY <2>5, <2>7, ZenonT(60) DEF Database, Kept
  <2> HIDE DEF t
  <2>9. Kept(s, t)
    BY <2>5, <2>8 DEF Kept
  <2>10. \A b \in Address : getStateObject(t, b) = getStateObject(u, b)
    BY <2>8 DEF getStateObject, Kept
  <2>11. View(t) = With(View(s), a, Show(p))
    BY <2>0, <2>4, <2>5, <2>6, <2>8, <2>10, OtherObject
  <2>12. View(t) = View(s)
    BY <2>0, <2>3, <2>4, <2>11, Sights, WithSame
  <2>13. Consistent(t)
    BY <2>4, <2>5, <2>7, <2>8, <2>9 DEF Consistent, Kept
  <2>14. Undoes(s, e, t)
    BY <2>2, <2>5, <2>8, <2>9, <2>12, <2>13, ZenonT(60) DEF Undoes
  <2>15. Undoes(s, e, s)
    BY <2>2 DEF Undoes, Kept
  <2> QED BY <2>1, <2>14, <2>15
\* Undoing a refund or a log.
<1>UndoCount.
  ASSUME NEW s \in Database, Consistent(s), NEW e \in Entry, e.type \in {"refund", "addLog"}
  PROVE  Undoes(s, e, undo(s, e))
  <2> USE <1>UndoCount
  <2>1. ASSUME NEW t \in Database, Kept(s, t), t.journal = s.journal, t.objects = s.objects, t.dirty = s.dirty
        PROVE  Consistent(t) /\ \A a \in Address : Visible(t, a) = Visible(s, a)
    BY <2>1 DEF Consistent, Kept, Visible, getStateObject
  <2>2. CASE e.type = "refund"
    <3> DEFINE t == [s EXCEPT !.refund = e.prev]
    <3>1. undo(s, e) = t /\ e.prev \in Int
      BY <2>2, <1>Entries DEF undo
    <3>2. /\ t \in Database /\ Kept(s, t) /\ t.objects = s.objects /\ t.dirty = s.dirty
          /\ t.journal = s.journal /\ t.refund = e.prev /\ t.logs = s.logs
      BY <3>1, ZenonT(60) DEF Database, Kept
    <3> HIDE DEF t
    <3>3. Consistent(t) /\ \A a \in Address : Visible(t, a) = Visible(s, a)
      BY <2>1, <3>2, ZenonT(60)
    <3>4. View(t) = [View(s) EXCEPT !.refund = e.prev]
      <4> DEFINE x == [a \in Address |-> Visible(s, a)]
      <4>1. [a \in Address |-> Visible(t, a)] = x
        BY <3>3
      <4>2. View(t) = [accounts |-> x, refund |-> e.prev, logs |-> s.logs]
        BY <3>2, <4>1, ZenonT(60) DEF View
      <4>3. View(s) = [accounts |-> x, refund |-> s.refund, logs |-> s.logs]
        BY DEF View
      <4> HIDE DEF x
      <4> QED BY <4>2, <4>3
    <3>5. Undone(View(s), e) = [View(s) EXCEPT !.refund = e.prev]
      BY <2>2 DEF Undone
    <3> QED BY <3>1, <3>2, <3>3, <3>4, <3>5 DEF Undoes
  <2>3. CASE e.type = "addLog"
    <3> DEFINE l == SubSeq(s.logs, 1, Len(s.logs) - 1)
               t == [s EXCEPT !.logs = l]
    <3>1. undo(s, e) = t
      BY <2>3 DEF undo
    <3>2. l \in Seq(Address)
      BY Fields
    <3>3. View(s).logs = s.logs
      BY Sights, ZenonT(60)
    <3>4. Undone(View(s), e) = [View(s) EXCEPT !.logs = l]
      BY <2>3, <3>3 DEF Undone
    <3> HIDE DEF l
    <3>5. /\ t \in Database /\ Kept(s, t) /\ t.objects = s.objects /\ t.dirty = s.dirty
          /\ t.journal = s.journal /\ t.refund = s.refund /\ t.logs = l
      BY <3>2, ZenonT(60) DEF Database, Kept
    <3> HIDE DEF t
    <3>6. Consistent(t) /\ \A a \in Address : Visible(t, a) = Visible(s, a)
      BY <2>1, <3>5
    <3>7. View(t) = [View(s) EXCEPT !.logs = l]
      <4> DEFINE x == [a \in Address |-> Visible(s, a)]
      <4>1. [a \in Address |-> Visible(t, a)] = x
        BY <3>6
      <4>2. View(t) = [accounts |-> x, refund |-> s.refund, logs |-> l]
        BY <3>5, <4>1 DEF View
      <4>3. View(s) = [accounts |-> x, refund |-> s.refund, logs |-> s.logs]
        BY DEF View
      <4> HIDE DEF x
      <4> QED BY <4>2, <4>3
    <3> QED BY <3>1, <3>4, <3>5, <3>6, <3>7 DEF Undoes
  <2> QED BY <2>2, <2>3
\* Undoing an entry takes the view back as Undone says.
<1>UndoEntry.
  ASSUME NEW s \in Database, Consistent(s), NEW e \in Entry, Fits(s.trie, e), Applies(View(s), e)
  PROVE  Undoes(s, e, undo(s, e))
  <2> USE <1>UndoEntry
  <2> DEFINE a == e.account
             g == getStateObject(s, a)
             v == View(s)
  <2>0. e.type \notin {"refund", "addLog"} => a \in Address
    BY <1>Entries
  <2>1. ASSUME a \in Address, v.accounts[a] # None
        PROVE  Exist(s, a) /\ g \in Object /\ ~g.deleted /\ v.accounts[a] = Show(g)
    BY <2>1, Sights, Existing
  <2> HIDE DEF g, v
  <2>2. CASE e.type = "balance"
    <3> DEFINE o == [g EXCEPT !.balance = e.prev]
    <3>1. a \in Address /\ v.accounts[a] # None /\ e.prev \in Int
      BY <2>0, <2>2, <1>Entries, ZenonT(60) DEF Applies, v
    <3>2. g \in Object /\ ~g.deleted /\ v.accounts[a] = Show(g)
      BY <2>1, <3>1, ZenonT(60)
    <3>3. o \in Object /\ ~o.deleted /\ Show(o) = [Show(g) EXCEPT !.balance = e.prev]
      BY <3>1, <3>2, OtherFields
    <3>4. Undone(v, e) = With(v, a, Show(o))
      BY <2>2, <3>2, <3>3 DEF Undone
    <3>5. undo(s, e) = Changed(s, a, o)
      BY <2>2 DEF undo, setBalance, g
    <3> HIDE DEF o, a
    <3> QED BY <3>1, <3>3, <3>4, <3>5, <1>UndoChange DEF v
  <2>3. CASE e.type = "nonce"
    <3> DEFINE o == [g EXCEPT !.nonce = e.prev]
    <3>1. a \in Address /\ v.accounts[a] # None /\ e.prev \in Nat
      BY <2>0, <2>3, <1>Entries DEF Applies, v
    <3>2. g \in Object /\ ~g.deleted /\ v.accounts[a] = Show(g)
      BY <2>1, <3>1
    <3>3. o \in Object /\ ~o.deleted /\ Show(o) = [Show(g) EXCEPT !.nonce = e.prev]
      BY <3>1, <3>2, OtherFields
    <3>4. Undone(v, e) = With(v, a, Show(o))
      BY <2>3, <3>2, <3>3 DEF Undone
    <3>5. undo(s, e) = Changed(s, a, o)
      BY <2>3 DEF undo, setNonce, g
    <3> HIDE DEF o, a
    <3> QED BY <3>1, <3>3, <3>4, <3>5, <1>UndoChange DEF v
  <2>4. CASE e.type = "code"
    <3> DEFINE o == [g EXCEPT !.code = e.prev, !.dirtyCode = TRUE]
    <3>1. a \in Address /\ v.accounts[a] # None /\ e.prev \in Code
      BY <2>0, <2>4, <1>Entries, ZenonT(60) DEF Applies, v
    <3>2. g \in Object /\ ~g.deleted /\ v.accounts[a] = Show(g)
      BY <2>1, <3>1, ZenonT(60)
    <3>3. o \in Object /\ ~o.deleted /\ Show(o) = [Show(g) EXCEPT !.code = e.prev]
      BY <3>1, <3>2, OtherCode, ZenonT(60)
    <3>4. Undone(v, e) = With(v, a, Show(o))
      BY <2>4, <3>2, <3>3 DEF Undone
    <3>5. undo(s, e) = Changed(s, a, o)
      BY <2>4 DEF undo, setCode, g
    <3> HIDE DEF o, a
    <3> QED BY <3>1, <3>3, <3>4, <3>5, <1>UndoChange DEF v
  <2>5. CASE e.type = "storage"
    <3> DEFINE o == Stores(g, e.key, e.prev)
    <3>1. a \in Address /\ v.accounts[a] # None /\ e.key \in Slot /\ e.prev \in Int
      BY <2>0, <2>5, <1>Entries DEF Applies, v
    <3>2. g \in Object /\ ~g.deleted /\ v.accounts[a] = Show(g)
      BY <2>1, <3>1
    <3>3. o \in Object /\ ~o.deleted /\ Show(o) = SlotSeen(Show(g), e.key, e.prev)
      BY <3>1, <3>2, OtherSlot, ZenonT(60)
    <3>4. Undone(v, e) = With(v, a, Show(o))
      BY <2>5, <3>2, <3>3 DEF Undone
    <3>5. undo(s, e) = Changed(s, a, o)
      BY <2>5 DEF undo, setState, Stores, g
    <3> HIDE DEF o, a
    <3> QED BY <3>1, <3>3, <3>4, <3>5, <1>UndoChange DEF v
  <2>6. CASE e.type = "suicide"
    <3>1. a \in Address /\ e.prev \in BOOLEAN /\ e.prevbalance \in Int
      BY <2>0, <2>6, <1>Entries
    <3>2. CASE v.accounts[a] = None
      <4>1. ~Exist(s, a)
        BY <3>1, <3>2, Sights DEF v
      <4>2. undo(s, e) = s /\ Undone(v, e) = v
        BY <2>6, <3>2, <4>1 DEF undo, Undone
      <4> QED BY <4>2 DEF Undoes, Kept, v
    <3>3. CASE v.accounts[a] # None
      <4> DEFINE o == Fated(g, e.prev, e.prevbalance)
      <4>1. Exist(s, a) /\ g \in Object /\ ~g.deleted /\ v.accounts[a] = Show(g)
        BY <2>1, <3>1, <3>3
      <4>2. o \in Object /\ ~o.deleted /\ Show(o) = Fated(Show(g), e.prev, e.prevbalance)
        BY <3>1, <4>1, OtherFate
      <4>3. Undone(v, e) = With(v, a, Show(o))
        BY <2>6, <3>3, <4>1, <4>2 DEF Undone
      <4>4. undo(s, e) = Changed(s, a, o)
        BY <2>6, <4>1 DEF undo, Fated, g
      <4> HIDE DEF o, a
      <4> QED BY <3>1, <4>2, <4>3, <4>4, <1>UndoChange DEF v
    <3> QED BY <3>2, <3>3
  <2> QED BY <2>2, <2>3, <2>4, <2>5, <2>6, <1>Entries, <1>UndoCreate, <1>UndoReset, <1>UndoTouch, <1>UndoCount
\* A set of numbers that has 0 and is closed under successor has them all.
<1>Numerals.
  ASSUME NEW S, 0 \in S, \A n \in Nat : n \in S => n + 1 \in S
  PROVE  \A n \in Nat : n \in S
  <2> USE <1>Numerals
  <2> DEFINE T == {n \in Nat : n \notin S}
             R == OpToRel(<, Nat)
  <2> SUFFICES ASSUME T # {} PROVE FALSE
    OBVIOUS
  <2>1. \E x \in T : \A y \in T : ~(<<y, x>> \in R)
    <3>1. T \subseteq Nat /\ T # {}
      OBVIOUS
    <3> HIDE DEF T, R
    <3>2. IsWellFoundedOn(R, Nat)
      BY NatLessThanWellFounded, ZenonT(60) DEF R
    <3> QED BY <3>1, <3>2, WFMin, ZenonT(60)
  <2>2. PICK x \in T : \A y \in T : ~(<<y, x>> \in R)
    BY <2>1, ZenonT(60)
  <2>3. x \in Nat /\ x # 0 /\ x - 1 \in Nat
    OBVIOUS
  <2>4. x - 1 \in T
    <3>1. x - 1 \in S => x - 1 + 1 \in S
      BY <2>3
    <3>2. x - 1 + 1 = x
      BY <2>3
    <3> QED BY <2>3, <3>1, <3>2
  <2>5. <<x - 1, x>> \in R
    BY <2>3 DEF OpToRel
  <2> QED BY <2>2, <2>4, <2>5, ZenonT(60)
\* The function that UndoLast is defined with.
<1>UndoSteps.
  ASSUME NEW s, NEW count \in Nat
  PROVE  \E f : f = [n \in 0..count |-> IF n = 0 THEN s ELSE undo(f[n - 1], s.journal[Len(s.journal) - n + 1])]
  <2> DEFINE J(n) == s.journal[Len(s.journal) - n + 1]
             Eq(f, k) == f = [n \in 0..k |-> IF n = 0 THEN s ELSE undo(f[n - 1], J(n))]
             A == {k \in Nat : \E f : Eq(f, k)}
  <2> HIDE DEF J
  <2>1. 0 \in A
    <3> DEFINE f == [n \in 0..0 |-> s]
    <3>1. Eq(f, 0)
      OBVIOUS
    <3> HIDE DEF f, Eq
    <3> QED BY <3>1
  <2>2. ASSUME NEW k \in Nat, k \in A PROVE k + 1 \in A
    <3> HIDE DEF Eq
    <3>1. PICK f : Eq(f, k)
      BY <2>2
    <3> DEFINE g == [n \in 0..(k + 1) |-> IF n = k + 1 THEN undo(f[k], J(k + 1)) ELSE f[n]]
    <3>2. \A n \in 0..k : f[n] = IF n = 0 THEN s ELSE undo(f[n - 1], J(n))
      BY <3>1, ZenonT(60) DEF Eq
    <3>3. ASSUME NEW n \in 0..(k + 1) PROVE g[n] = IF n = 0 THEN s ELSE undo(g[n - 1], J(n))
      <4>1. CASE n = k + 1
        <5>1. g[k] = f[k] /\ n - 1 = k /\ n # 0
          BY <4>1
        <5>2. g[k + 1] = undo(f[k], J(k + 1))
          <6>1. k + 1 \in 0..(k + 1)
            OBVIOUS
          <6> QED BY <6>1, ZenonT(60)
        <5> HIDE DEF g
        <5> QED BY <4>1, <5>1, <5>2, ZenonT(60)
      <4>2. CASE n \in 1..k
        <5>1. g[n] = f[n] /\ g[n - 1] = f[n - 1] /\ n # 0 /\ n \in 0..k
          BY <4>2
        <5> HIDE DEF g
        <5> QED BY <3>2, <5>1, ZenonT(60)
      <4>3. CASE n = 0
        BY <3>2, <4>3
      <4> QED BY <4>1, <4>2, <4>3
    <3>4. Eq(g, k + 1)
      <4>1. g = [n \in 0..(k + 1) |-> g[n]]
        OBVIOUS
      <4> HIDE DEF g
      <4> QED BY <3>3, <4>1, ZenonT(60) DEF Eq
    <3> HIDE DEF g
    <3> QED BY <3>4
  <2>3. count \in A
    <3> HIDE DEF A
    <3> QED BY <2>1, <2>2, <1>Numerals, ZenonT(60)
  <2> HIDE DEF Eq
  <2>4. PICK f : Eq(f, count)
    BY <2>3
  <2> QED BY <2>4, ZenonT(60) DEF Eq, J
\* Undoing the last entries leads back along the history.
<1>Undoing.
  ASSUME NEW s \in Database, Consistent(s), NEW h, History(s, h), NEW count \in 0..Len(s.journal)
  PROVE  LET t == UndoLast(s, count)
         IN /\ t \in Database /\ Consistent(t) /\ Kept(s, t) /\ t.journal = s.journal
            /\ View(t) = h[Len(s.journal) - count]
  <2> USE <1>Undoing
  <2> DEFINE len == Len(s.journal)
             Eq(f) == f = [n \in 0..count |-> IF n = 0 THEN s ELSE undo(f[n - 1], s.journal[len - n + 1])]
             f == CHOOSE f : Eq(f)
             P(n, t) == /\ t \in Database /\ Consistent(t) /\ Kept(s, t) /\ t.journal = s.journal
                        /\ View(t) = h[len - n]
             A == {n \in Nat : n <= count => P(n, f[n])}
  <2>0. len \in Nat /\ count \in Nat /\ count <= len /\ \A i \in 1..len : s.journal[i] \in Entry
    BY Fields
  <2>1. UndoLast(s, count) = f[count]
    BY DEF UndoLast
  <2>2. Eq(f)
    <3>1. \E g : Eq(g)
      BY <2>0, <1>UndoSteps, ZenonT(60)
    <3> HIDE DEF Eq
    <3> QED BY <3>1, ZenonT(60)
  <2> HIDE DEF f, len
  <2>3. \A n \in 0..count : f[n] = IF n = 0 THEN s ELSE undo(f[n - 1], s.journal[len - n + 1])
    BY <2>2, ZenonT(60)
  <2>4. 0 \in A
    <3>1. f[0] = s
      <4>1. 0 \in 0..count
        BY <2>0
      <4> QED BY <2>3, <4>1, ZenonT(60)
    <3>2. P(0, s)
      BY <2>0 DEF Kept, History, len
    <3> QED BY <3>1, <3>2
  <2>5. ASSUME NEW n \in Nat, n \in A PROVE n + 1 \in A
    <3> SUFFICES ASSUME n + 1 <= count PROVE P(n + 1, f[n + 1])
      OBVIOUS
    <3> DEFINE i == len - n
               e == s.journal[i]
               t == f[n]
    <3>1. n + 1 \in 0..count /\ n + 1 # 0 /\ n + 1 - 1 = n /\ len - (n + 1) + 1 = i /\ i \in 1..len
          /\ len - (n + 1) = i - 1
      BY <2>0
    <3>2. f[n + 1] = undo(t, e)
      <4> DEFINE m == n + 1
      <4> HIDE DEF m, i
      <4>1. m \in 0..count /\ m # 0 /\ m - 1 = n /\ len - m + 1 = i
        BY <3>1 DEF m
      <4>2. f[m] = undo(f[m - 1], s.journal[len - m + 1])
        BY <2>3, <4>1, ZenonT(60)
      <4> QED BY <4>1, <4>2, ZenonT(60) DEF m
    <3>3. P(n, t)
      BY <2>0, <2>5, <3>1
    <3>4. e \in Entry /\ Fits(s.trie, e) /\ Applies(h[i], e) /\ h[i - 1] = Undone(h[i], e)
      BY <2>0, <3>1, ZenonT(60) DEF Consistent, History, len
    <3> HIDE DEF t, e, i
    <3>5. t \in Database /\ Consistent(t) /\ Kept(s, t) /\ t.journal = s.journal /\ View(t) = h[i]
      BY <3>3 DEF i
    <3>6. Fits(t.trie, e) /\ Applies(View(t), e)
      BY <3>4, <3>5 DEF Kept
    <3>7. Undoes(t, e, undo(t, e))
      BY <3>4, <3>5, <3>6, <1>UndoEntry
    <3>8. Kept(s, undo(t, e)) /\ undo(t, e).journal = s.journal /\ View(undo(t, e)) = h[i - 1]
      BY <3>4, <3>5, <3>7 DEF Undoes, Kept
    <3> QED BY <3>1, <3>2, <3>7, <3>8, ZenonT(60) DEF Undoes
  <2>6. count \in A
    <3> HIDE DEF A
    <3> QED BY <2>0, <2>4, <2>5, <1>Numerals, ZenonT(60)
  <2>7. P(count, f[count])
    BY <2>0, <2>6
  <2> QED BY <2>1, <2>7 DEF len
\* A revision that is valid.
<1>RevisionOf.
  ASSUME NEW s, Nested(s), s \in Database, NEW i \in DOMAIN s.revisions
  PROVE  (CHOOSE j \in DOMAIN s.revisions : s.revisions[j].id = s.revisions[i].id) = i
  <2> USE <1>RevisionOf
  <2> DEFINE idx == CHOOSE j \in DOMAIN s.revisions : s.revisions[j].id = s.revisions[i].id
  <2>1. idx \in DOMAIN s.revisions /\ s.revisions[idx].id = s.revisions[i].id
    BY ZenonT(60)
  <2> HIDE DEF idx
  <2>2. idx \in Nat /\ i \in Nat /\ s.revisions[idx].id \in Nat
    <3>1. s.revisions \in Seq(Revision)
      BY Fields
    <3>2. idx \in Nat /\ i \in Nat /\ s.revisions[idx] \in Revision
      BY <2>1, <3>1
    <3> QED BY <3>2 DEF Revision
  <2>3. ~(idx < i) /\ ~(i < idx)
    BY <2>1, <2>2 DEF Nested
  <2> QED BY <2>2, <2>3 DEF idx
\* The snapshot i.
<1> SUFFICES ASSUME NEW s, Sound(s), NEW i \in DOMAIN s.revisions
             PROVE  LET t == RevertToSnapshot(s, s.revisions[i].id)
                    IN /\ Sound(t) /\ View(t) = s.revisions[i].view
                       /\ t.revisions = SubSeq(s.revisions, 1, i - 1) /\ t.nextRevisionId = s.nextRevisionId
  OBVIOUS
<1> DEFINE r == s.revisions[i]
           index == r.journalIndex
           len == Len(s.journal)
           u == UndoLast(s, len - index)
           j == SubSeq(s.journal, 1, index)
           q == SubSeq(s.revisions, 1, i - 1)
           w == [u EXCEPT !.journal = j]
           t == [w EXCEPT !.revisions = q]
<1>0. s \in Database /\ Consistent(s) /\ Nested(s)
  BY DEF Sound
<1>1. PICK h : History(s, h)
  BY DEF Sound
<1>2. /\ len \in Nat /\ index \in Nat /\ index <= len /\ i \in Nat \ {0} /\ i <= Len(s.revisions)
      /\ s.journal \in Seq(Entry) /\ s.revisions \in Seq(Revision) /\ h[index] = r.view
  <2>1. s.journal \in Seq(Entry) /\ s.revisions \in Seq(Revision)
    BY <1>0, Fields
  <2>2. r \in Revision /\ i \in Nat \ {0} /\ i <= Len(s.revisions) /\ len \in Nat
    BY <2>1
  <2>3. index \in Nat
    BY <2>2 DEF Revision
  <2>4. index <= len /\ h[index] = r.view
    BY <1>0, <1>1, ZenonT(60) DEF Nested, History
  <2> QED BY <2>1, <2>2, <2>3, <2>4
<1>3. (CHOOSE k \in DOMAIN s.revisions : s.revisions[k].id = r.id) = i
  BY <1>0, <1>RevisionOf
<1>4. /\ u \in Database /\ Consistent(u) /\ Kept(s, u) /\ u.journal = s.journal
      /\ View(u) = h[index]
  <2>1. len - index \in 0..len /\ len - (len - index) = index
    BY <1>2
  <2> QED BY <1>0, <1>1, <2>1, <1>Undoing, ZenonT(60)
<1>5. RevertToSnapshot(s, r.id) = t
  <2>1. RevertToSnapshot(s, r.id) = [u EXCEPT !.journal = SubSeq(@, 1, index), !.revisions = SubSeq(@, 1, i - 1)]
    BY <1>3, ZenonT(60) DEF RevertToSnapshot
  <2> HIDE DEF u, r, index
  <2>2. RevertToSnapshot(s, r.id) = [u EXCEPT !.journal = j, !.revisions = q]
    BY <1>4, <2>1 DEF Kept
  <2> HIDE DEF j, q
  <2>3. [u EXCEPT !.journal = j, !.revisions = q] = t
    BY <1>4 DEF Database
  <2> QED BY <2>2, <2>3
<1> HIDE DEF u, r, index
<1>6. j \in Seq(Entry) /\ Len(j) = index /\ \A k \in 1..index : j[k] = s.journal[k]
  BY <1>2
<1>7. q \in Seq(Revision) /\ Len(q) = i - 1 /\ \A k \in 1..(i - 1) : q[k] = s.revisions[k]
  BY <1>2
<1> HIDE DEF j, q
<1>8. /\ w \in Database /\ w.journal = j /\ w.revisions = u.revisions /\ w.trie = u.trie /\ w.codes = u.codes
      /\ w.objects = u.objects /\ w.dirty = u.dirty /\ w.refund = u.refund /\ w.logs = u.logs
      /\ w.nextRevisionId = u.nextRevisionId
  BY <1>4, <1>6, ZenonT(60) DEF Database
<1> HIDE DEF w
<1>9. /\ t \in Database /\ t.journal = j /\ t.revisions = q /\ t.trie = u.trie /\ t.codes = u.codes
      /\ t.objects = u.objects /\ t.dirty = u.dirty /\ t.refund = u.refund /\ t.logs = u.logs
      /\ t.nextRevisionId = u.nextRevisionId
  BY <1>7, <1>8, ZenonT(60) DEF Database
<1> HIDE DEF t
<1>10. View(t) = View(u)
  <2>1. \A b \in Address : getStateObject(t, b) = getStateObject(u, b)
    BY <1>9 DEF getStateObject
  <2> QED BY <1>4, <1>9, <2>1, SameSight
<1>11. Consistent(t)
  <2>1. \A k \in 1..Len(t.journal) : Fits(t.trie, t.journal[k])
    BY <1>0, <1>2, <1>4, <1>6, <1>9 DEF Consistent, Kept
  <2> QED BY <1>4, <1>9, <2>1 DEF Consistent
<1>12. Nested(t)
  <2>0. DOMAIN s.revisions = 1..Len(s.revisions) /\ DOMAIN q = 1..(i - 1)
    BY <1>2, <1>7
  <2>1. ASSUME NEW k \in DOMAIN q
        PROVE  k \in DOMAIN s.revisions /\ q[k] = s.revisions[k] /\ k < i /\ q[k].journalIndex <= index
    <3>1. k \in DOMAIN s.revisions /\ q[k] = s.revisions[k] /\ k < i
      BY <1>2, <1>7, <2>0
    <3> QED BY <1>0, <3>1 DEF Nested, index, r
  <2>2. t.nextRevisionId = s.nextRevisionId
    BY <1>4, <1>9 DEF Kept
  <2> QED BY <1>0, <1>6, <1>9, <2>1, <2>2 DEF Nested
<1>13. History(t, h)
  <2>1. h[Len(t.journal)] = View(t)
    BY <1>4, <1>6, <1>9, <1>10
  <2>2. \A k \in 1..Len(t.journal) : Applies(h[k], t.journal[k]) /\ h[k - 1] = Undone(h[k], t.journal[k])
    BY <1>1, <1>2, <1>6, <1>9 DEF History
  <2>3. \A k \in DOMAIN t.revisions : h[t.revisions[k].journalIndex] = t.revisions[k].view
    <3>1. \A k \in DOMAIN q : k \in DOMAIN s.revisions /\ q[k] = s.revisions[k]
      BY <1>2, <1>7
    <3> QED BY <1>1, <1>9, <3>1, ZenonT(60) DEF History
  <2> QED BY <2>1, <2>2, <2>3 DEF History
<1>14. Sound(t)
  BY <1>9, <1>11, <1>12, <1>13 DEF Sound
<1> QED BY <1>2, <1>4, <1>5, <1>9, <1>10, <1>14 DEF Kept, q, r

-----------------------------------------------------------------------------
(* The setters keep a database sound.                                      *)

\* A sound database with the same revisions.
Grows(s, t) == Sound(t) /\ Kept(s, t)

\* A new object.
NewObject == newObject(Account(0, 0, NoStorage, EmptyCode))

\* The entry of createObject.
CreateEntry(s, a) ==
  LET prev == getStateObject(s, a)
  IN IF prev = None THEN [type |-> "createObject", account |-> a]
     ELSE [type |-> "resetObject", account |-> a, prev |-> prev]

\* Growing goes on.
LEMMA GrowsOn ==
  ASSUME NEW s, NEW t, NEW u, Grows(s, t), Grows(t, u)
  PROVE  Grows(s, u)
BY DEF Grows, Kept

\* Balances and nonces are numbers, codes are strings, and so are the values of slots.
LEMMA Getters ==
  ASSUME NEW s \in Database, NEW a \in Address
  PROVE  /\ GetBalance(s, a) \in Int /\ GetNonce(s, a) \in Nat /\ GetCode(s, a) \in Code
         /\ \A k \in Slot : GetState(s, a, k) \in Int
<1>1. CASE ~Exist(s, a)
  <2>1. \A k \in Slot : NoStorage[k] = 0
    BY DEF NoStorage
  <2> QED BY <1>1, <2>1 DEF Exist, GetBalance, GetNonce, GetCode, GetState, Get, Code
<1>2. CASE Exist(s, a)
  <2>1. getStateObject(s, a) \in Object
    BY <1>2, Existing
  <2> QED BY <1>2, <2>1 DEF Exist, GetBalance, GetNonce, GetCode, GetState, Get, Object
<1> QED BY <1>1, <1>2

\* The setters.
LEMMA SettersGrow ==
  \A s : Sound(s) =>
    /\ \A gas \in Int : Grows(s, AddRefund(s, gas))
    /\ \A a \in Address :
         /\ Grows(s, CreateAccount(s, a)) /\ Exist(CreateAccount(s, a), a)
         /\ Grows(s, Suicide(s, a)) /\ Grows(s, AddLog(s, a))
         /\ \A x \in Int : Grows(s, AddBalance(s, a, x)) /\ Grows(s, SubBalance(s, a, x))
         /\ \A n \in Nat : Grows(s, SetNonce(s, a, n))
         /\ \A c \in Code : Grows(s, SetCode(s, a, c))
         /\ \A k \in Slot, x \in Int : Grows(s, SetState(s, a, k, x))
\* A journaled change is sound when undoing its entry would bring back what could
\* be seen before.
<1>Journaled.
  ASSUME NEW s, Sound(s), NEW t \in Database, Consistent(t), Kept(s, t), NEW e \in Entry,
         t.journal = Append(s.journal, e), Applies(View(t), e), View(s) = Undone(View(t), e)
  PROVE  Sound(t)
  <2> USE <1>Journaled
  <2> DEFINE len == Len(s.journal)
  <2>0. s \in Database /\ Nested(s) /\ s.journal \in Seq(Entry) /\ len \in Nat
    BY Fields DEF Sound
  <2>1. PICK h : History(s, h)
    BY DEF Sound
  <2> DEFINE k == [i \in 0..(len + 1) |-> IF i = len + 1 THEN View(t) ELSE h[i]]
  <2>2. Len(t.journal) = len + 1 /\ t.journal[len + 1] = e /\ \A i \in 1..len : t.journal[i] = s.journal[i]
    BY <2>0
  <2> HIDE DEF len
  <2>3. k[len + 1] = View(t) /\ \A i \in 0..len : k[i] = h[i]
    BY <2>0
  <2> HIDE DEF k
  <2>4. ASSUME NEW i \in 1..(len + 1)
        PROVE  Applies(k[i], t.journal[i]) /\ k[i - 1] = Undone(k[i], t.journal[i])
    <3>1. CASE i = len + 1
      <4>1. k[i] = View(t) /\ t.journal[i] = e
        BY <2>2, <2>3, <3>1, ZenonT(60)
      <4>2. i - 1 = len /\ len \in 0..len
        BY <2>0, <3>1
      <4>3. k[i - 1] = View(s)
        BY <2>1, <2>3, <4>2, ZenonT(60) DEF History, len
      <4> QED BY <4>1, <4>3
    <3>2. CASE i \in 1..len
      <4>1. i \in 0..len /\ i - 1 \in 0..len
        BY <2>0, <3>2
      <4>2. k[i] = h[i] /\ k[i - 1] = h[i - 1] /\ t.journal[i] = s.journal[i]
        BY <2>2, <2>3, <3>2, <4>1, ZenonT(60)
      <4> QED BY <2>1, <3>2, <4>2, ZenonT(60) DEF History, len
    <3>3. i = len + 1 \/ i \in 1..len
      BY <2>0
    <3> QED BY <3>1, <3>2, <3>3, ZenonT(60)
  <2>5. ASSUME NEW r \in DOMAIN t.revisions
        PROVE  /\ t.revisions[r].journalIndex \in 0..len
               /\ k[t.revisions[r].journalIndex] = t.revisions[r].view
    <3>1. t.revisions = s.revisions /\ s.revisions \in Seq(Revision)
      BY <2>0, Fields, ZenonT(60) DEF Kept
    <3>2. s.revisions[r] \in Revision /\ s.revisions[r].journalIndex <= len
      <4>1. r \in DOMAIN s.revisions
        BY <3>1
      <4>2. s.revisions[r] \in Revision
        BY <3>1, <4>1
      <4> QED BY <2>0, <4>1, <4>2, ZenonT(60) DEF Nested, len
    <3>3. s.revisions[r].journalIndex \in 0..len
      BY <2>0, <3>2 DEF Revision
    <3> QED BY <2>1, <2>3, <3>1, <3>3, ZenonT(60) DEF History
  <2>6. History(t, k)
    <3>1. k[Len(t.journal)] = View(t)
      BY <2>2, <2>3
    <3> QED BY <2>2, <2>4, <2>5, <3>1, ZenonT(60) DEF History
  <2>7. Nested(t)
    <3>1. \A r \in DOMAIN t.revisions : t.revisions[r].journalIndex <= Len(t.journal)
      BY <2>0, <2>2, <2>5
    <3> QED BY <2>0, <3>1, ZenonT(60) DEF Nested, Kept
  <2> QED BY <2>6, <2>7 DEF Sound
\* The entry is consistent, too.
<1>JournalConsistent.
  ASSUME NEW s \in Database, Consistent(s), NEW e \in Entry, Fits(s.trie, e)
  PROVE  Consistent(Journal(s, e))
  <2> USE <1>JournalConsistent
  <2> DEFINE t == Journal(s, e)
  <2>1. Kept(s, t) /\ t.journal = Append(s.journal, e) /\ t.dirty = s.dirty /\ t.objects = s.objects
    BY Journals
  <2> HIDE DEF t
  <2>2. \A i \in 1..Len(t.journal) : Fits(t.trie, t.journal[i])
    <3>1. s.journal \in Seq(Entry) /\ t.trie = s.trie
      BY <2>1, Fields DEF Kept
    <3> QED BY <2>1, <3>1 DEF Consistent
  <2> QED BY <2>1, <2>2 DEF Consistent, Kept, t
\* A setter journals an entry and changes an object.
<1>Setter.
  ASSUME NEW s, Sound(s), NEW a \in Address, NEW o \in Object, ~o.deleted, NEW e \in Entry,
         Fits(s.trie, e), Applies(With(View(s), a, Show(o)), e),
         View(s) = Undone(With(View(s), a, Show(o)), e)
  PROVE  LET t == Changed(Journal(s, e), a, o)
         IN /\ Grows(s, t) /\ t.journal = Append(s.journal, e) /\ View(t) = With(View(s), a, Show(o))
            /\ getStateObject(t, a) = Entered(o) /\ Exist(t, a)
  <2> USE <1>Setter
  <2> DEFINE j == Journal(s, e)
             t == Changed(j, a, o)
  <2>0. s \in Database /\ Consistent(s)
    BY DEF Sound
  <2>1. /\ j \in Database /\ Kept(s, j) /\ j.journal = Append(s.journal, e) /\ Consistent(j)
        /\ \A b \in Address : getStateObject(j, b) = getStateObject(s, b)
    BY <2>0, Journals, <1>JournalConsistent
  <2>2. View(j) = View(s)
    BY <2>0, Journals, SameSight
  <2> HIDE DEF j
  <2>3. /\ t \in Database /\ Kept(j, t) /\ t.journal = j.journal
        /\ \A b \in Address : getStateObject(t, b) = IF b = a THEN Entered(o) ELSE getStateObject(j, b)
    BY <2>1, ChangedObject, ZenonT(60)
  <2>4. Consistent(t) /\ View(t) = With(View(s), a, Show(o))
    BY <2>1, <2>2, ChangeConsistent, ChangeSight
  <2> HIDE DEF t
  <2>5. Kept(s, t) /\ t.journal = Append(s.journal, e)
    BY <2>1, <2>3 DEF Kept
  <2>6. Sound(t)
    BY <2>3, <2>4, <2>5, <1>Journaled
  <2>7. getStateObject(t, a) = Entered(o) /\ Exist(t, a)
    BY <2>1, <2>3, Enters, NoneAssumption DEF Exist
  <2> QED BY <2>4, <2>5, <2>6, <2>7 DEF Grows, t, j
\* Undoing one change of a view.
<1>UndoneWith.
  ASSUME NEW v \in Sight, NEW a \in Address, NEW x \in Shown \cup {None}, NEW y \in Shown \cup {None}
  PROVE  With(With(v, a, x), a, y) = With(v, a, y)
  <2> DEFINE w == With(v, a, x)
  <2>1. /\ w \in Sight /\ w.refund = v.refund /\ w.logs = v.logs
        /\ \A b \in Address : b # a => w.accounts[b] = v.accounts[b]
    BY Withs
  <2> HIDE DEF w
  <2>2. /\ With(w, a, y) \in Sight /\ With(w, a, y).refund = v.refund /\ With(w, a, y).logs = v.logs
        /\ \A b \in Address : With(w, a, y).accounts[b] = IF b = a THEN y ELSE v.accounts[b]
    BY <2>1, Withs
  <2>3. /\ With(v, a, y) \in Sight /\ With(v, a, y).refund = v.refund /\ With(v, a, y).logs = v.logs
        /\ \A b \in Address : With(v, a, y).accounts[b] = IF b = a THEN y ELSE v.accounts[b]
    BY Withs
  <2> QED BY <2>2, <2>3, SightsEqual DEF w
\* A change is undone by an entry that gives the account back what was seen of it.
<1>Backs.
  ASSUME NEW s \in Database, NEW a \in Address, NEW o \in Object, NEW e,
         Undone(With(View(s), a, Show(o)), e) = With(With(View(s), a, Show(o)), a, View(s).accounts[a])
  PROVE  View(s) = Undone(With(View(s), a, Show(o)), e)
  <2> USE <1>Backs
  <2>1. View(s) \in Sight /\ View(s).accounts[a] \in Shown \cup {None}
    BY Sights
  <2>2. Show(o) \in Shown
    BY ZenonT(60) DEF Object, Shown, Show
  <2> QED BY <2>1, <2>2, <1>UndoneWith, WithSame
\* setBalance with its entry.
<1>BalanceSet.
  ASSUME NEW s, Sound(s), NEW a \in Address, Exist(s, a), NEW x \in Int
  PROVE  Grows(s, SetBalance(s, a, x))
  <2> USE <1>BalanceSet
  <2> DEFINE g == getStateObject(s, a)
             o == [g EXCEPT !.balance = x]
             e == [type |-> "balance", account |-> a, prev |-> g.balance]
             w == With(View(s), a, Show(o))
  <2>0. s \in Database
    BY DEF Sound
  <2>1. g \in Object /\ ~g.deleted /\ View(s).accounts[a] = Show(g)
    BY <2>0, Existing
  <2>2. GetBalance(s, a) = g.balance
    BY DEF GetBalance, Get, Exist
  <2>3. e \in Entry
    <3>1. g.balance \in Int
      BY <2>1 DEF Object
    <3> QED BY <3>1, ZenonT(60) DEF Entry
  <2>4. getStateObject(Journal(s, e), a) = g
    BY <2>0, <2>3, Journals
  <2>5. SetBalance(s, a, x) = Changed(Journal(s, e), a, o)
    BY <2>2, <2>4 DEF SetBalance, setBalance
  <2> HIDE DEF g
  <2>6. o \in Object /\ ~o.deleted /\ Show(o) = [Show(g) EXCEPT !.balance = x]
    BY <2>1, OtherFields
  <2>7. w.accounts[a] = Show(o) /\ Show(o) \in Shown
    <3>1. Show(o) \in Shown
      BY <2>6 DEF Object, Shown, Show
    <3> QED BY <2>0, <3>1, Sights, Withs
  <2>8. [Show(o) EXCEPT !.balance = g.balance] = Show(g)
    BY <2>6 DEF Show
  <2> HIDE DEF o
  <2>9. Undone(w, e) = With(w, a, View(s).accounts[a])
    <3>1. Undone(w, e) = With(w, a, [Show(o) EXCEPT !.balance = g.balance])
      BY <2>7 DEF Undone
    <3> QED BY <2>1, <2>8, <3>1
  <2>10. Applies(w, e) /\ Fits(s.trie, e)
    BY <2>7, NoneAssumption DEF Applies, Fits
  <2>11. View(s) = Undone(w, e)
    BY <2>0, <2>6, <2>9, <1>Backs
  <2> HIDE DEF e
  <2> QED BY <2>3, <2>5, <2>6, <2>10, <2>11, <1>Setter
\* setNonce with its entry.
<1>NonceSet.
  ASSUME NEW s, Sound(s), NEW a \in Address, Exist(s, a), NEW n \in Nat
  PROVE  Grows(s, setNonce(Journal(s, [type |-> "nonce", account |-> a, prev |-> GetNonce(s, a)]), a, n))
  <2> USE <1>NonceSet
  <2> DEFINE g == getStateObject(s, a)
             o == [g EXCEPT !.nonce = n]
             e == [type |-> "nonce", account |-> a, prev |-> g.nonce]
             w == With(View(s), a, Show(o))
  <2>0. s \in Database
    BY DEF Sound
  <2>1. g \in Object /\ ~g.deleted /\ View(s).accounts[a] = Show(g)
    BY <2>0, Existing
  <2>2. GetNonce(s, a) = g.nonce
    BY DEF GetNonce, Get, Exist
  <2>3. e \in Entry
    <3>1. g.nonce \in Nat
      BY <2>1 DEF Object
    <3> QED BY <3>1 DEF Entry
  <2>4. getStateObject(Journal(s, e), a) = g
    BY <2>0, <2>3, Journals
  <2>5. setNonce(Journal(s, [type |-> "nonce", account |-> a, prev |-> GetNonce(s, a)]), a, n) = Changed(Journal(s, e), a, o)
    BY <2>2, <2>4 DEF setNonce
  <2> HIDE DEF g
  <2>6. o \in Object /\ ~o.deleted /\ Show(o) = [Show(g) EXCEPT !.nonce = n]
    BY <2>1, OtherFields
  <2>7. w.accounts[a] = Show(o) /\ Show(o) \in Shown
    <3>1. Show(o) \in Shown
      BY <2>6 DEF Object, Shown, Show
    <3> QED BY <2>0, <3>1, Sights, Withs
  <2>8. [Show(o) EXCEPT !.nonce = g.nonce] = Show(g)
    BY <2>6 DEF Show
  <2> HIDE DEF o
  <2>9. Undone(w, e) = With(w, a, View(s).accounts[a])
    <3>1. Undone(w, e) = With(w, a, [Show(o) EXCEPT !.nonce = g.nonce])
      BY <2>7 DEF Undone
    <3> QED BY <2>1, <2>8, <3>1
  <2>10. Applies(w, e) /\ Fits(s.trie, e)
    BY <2>7, NoneAssumption DEF Applies, Fits
  <2>11. View(s) = Undone(w, e)
    BY <2>0, <2>6, <2>9, <1>Backs
  <2> HIDE DEF e
  <2> QED BY <2>3, <2>5, <2>6, <2>10, <2>11, <1>Setter
\* setCode with its entry.
<1>CodeSet.
  ASSUME NEW s, Sound(s), NEW a \in Address, Exist(s, a), NEW c \in Code
  PROVE  Grows(s, setCode(Journal(s, [type |-> "code", account |-> a, prev |-> GetCode(s, a)]), a, c))
  <2> USE <1>CodeSet
  <2> DEFINE g == getStateObject(s, a)
             o == [g EXCEPT !.code = c, !.dirtyCode = TRUE]
             e == [type |-> "code", account |-> a, prev |-> g.code]
             w == With(View(s), a, Show(o))
  <2>0. s \in Database
    BY DEF Sound
  <2>1. g \in Object /\ ~g.deleted /\ View(s).accounts[a] = Show(g)
    BY <2>0, Existing
  <2>2. GetCode(s, a) = g.code
    BY DEF GetCode, Get, Exist
  <2>3. e \in Entry
    <3>1. g.code \in Code
      BY <2>1 DEF Object
    <3> QED BY <3>1 DEF Entry
  <2>4. getStateObject(Journal(s, e), a) = g
    BY <2>0, <2>3, Journals
  <2>5. setCode(Journal(s, [type |-> "code", account |-> a, prev |-> GetCode(s, a)]), a, c) = Changed(Journal(s, e), a, o)
    BY <2>2, <2>4, ZenonT(60) DEF setCode
  <2> HIDE DEF g
  <2>6. o \in Object /\ ~o.deleted /\ Show(o) = [Show(g) EXCEPT !.code = c]
    BY <2>1, OtherCode, ZenonT(60)
  <2>7. w.accounts[a] = Show(o) /\ Show(o) \in Shown
    <3>1. Show(o) \in Shown
      BY <2>6, ZenonT(60) DEF Object, Shown, Show
    <3> QED BY <2>0, <3>1, Sights, Withs
  <2>8. [Show(o) EXCEPT !.code = g.code] = Show(g)
    BY <2>6 DEF Show
  <2> HIDE DEF o
  <2>9. Undone(w, e) = With(w, a, View(s).accounts[a])
    <3>1. Undone(w, e) = With(w, a, [Show(o) EXCEPT !.code = g.code])
      BY <2>7 DEF Undone
    <3> QED BY <2>1, <2>8, <3>1
  <2>10. Applies(w, e) /\ Fits(s.trie, e)
    BY <2>7, NoneAssumption DEF Applies, Fits
  <2>11. View(s) = Undone(w, e)
    BY <2>0, <2>6, <2>9, <1>Backs
  <2> HIDE DEF e
  <2> QED BY <2>3, <2>5, <2>6, <2>10, <2>11, <1>Setter
\* setState with its entry.
<1>SlotSet.
  ASSUME NEW s, Sound(s), NEW a \in Address, Exist(s, a), NEW k \in Slot, NEW x \in Int
  PROVE  Grows(s, setState(Journal(s, [type |-> "storage", account |-> a, key |-> k, prev |-> GetState(s, a, k)]), a, k, x))
  <2> USE <1>SlotSet
  <2> DEFINE g == getStateObject(s, a)
             o == Stores(g, k, x)
             e == [type |-> "storage", account |-> a, key |-> k, prev |-> g.storage[k]]
             w == With(View(s), a, Show(o))
  <2>0. s \in Database
    BY DEF Sound
  <2>1. g \in Object /\ ~g.deleted /\ View(s).accounts[a] = Show(g)
    BY <2>0, Existing
  <2>2. GetState(s, a, k) = g.storage[k]
    BY DEF GetState, Get, Exist
  <2>3. e \in Entry
    <3>1. g.storage[k] \in Int
      BY <2>1 DEF Object
    <3> QED BY <3>1, ZenonT(60) DEF Entry
  <2>4. getStateObject(Journal(s, e), a) = g
    BY <2>0, <2>3, Journals, ZenonT(60)
  <2>5. setState(Journal(s, [type |-> "storage", account |-> a, key |-> k, prev |-> GetState(s, a, k)]), a, k, x) = Changed(Journal(s, e), a, o)
    BY <2>2, <2>4, ZenonT(60) DEF setState, Stores
  <2> HIDE DEF g
  <2>6. o \in Object /\ ~o.deleted /\ Show(o) = SlotSeen(Show(g), k, x)
    BY <2>1, OtherSlot
  <2>7. w.accounts[a] = Show(o) /\ Show(o) \in Shown
    <3>1. Show(o) \in Shown
      BY <2>6, ZenonT(60) DEF Object, Shown, Show
    <3> QED BY <2>0, <3>1, Sights, Withs
  <2>8. SlotSeen(Show(o), k, g.storage[k]) = Show(g)
    BY <2>1, <2>6 DEF Object, Show, SlotSeen
  <2> HIDE DEF o
  <2>9. Undone(w, e) = With(w, a, View(s).accounts[a])
    <3>1. Undone(w, e) = With(w, a, SlotSeen(Show(o), k, g.storage[k]))
      BY <2>7 DEF Undone
    <3> QED BY <2>1, <2>8, <3>1, ZenonT(60)
  <2>10. Applies(w, e) /\ Fits(s.trie, e)
    BY <2>7, NoneAssumption, ZenonT(60) DEF Applies, Fits
  <2>11. View(s) = Undone(w, e)
    BY <2>0, <2>6, <2>9, <1>Backs, ZenonT(60)
  <2> HIDE DEF e
  <2> QED BY <2>3, <2>5, <2>6, <2>10, <2>11, <1>Setter, ZenonT(60)
\* touch.
<1>Touched.
  ASSUME NEW s, Sound(s), NEW a \in Address, Exist(s, a)
  PROVE  Grows(s, touch(s, a)) /\ View(touch(s, a)) = View(s)
  <2> USE <1>Touched
  <2> DEFINE g == getStateObject(s, a)
             o == [g EXCEPT !.touched = TRUE]
             e == [type |-> "touch", account |-> a, prev |-> g.touched, prevDirty |-> ~g.onDirty]
             w == With(View(s), a, Show(o))
  <2>0. s \in Database
    BY DEF Sound
  <2>1. g \in Object /\ ~g.deleted /\ View(s).accounts[a] = Show(g) /\ View(s).accounts[a] # None
    BY <2>0, Existing
  <2>2. touch(s, a) = Changed(Journal(s, e), a, o)
    BY DEF touch
  <2> HIDE DEF g
  <2>3. e \in Entry
    <3>1. g.touched \in BOOLEAN /\ (~g.onDirty) \in BOOLEAN
      BY <2>1 DEF Object
    <3> QED BY <3>1 DEF Entry
  <2>4. o \in Object /\ ~o.deleted /\ Show(o) = Show(g)
    BY <2>1, ZenonT(60) DEF Object, Show
  <2> HIDE DEF o
  <2>5. w = View(s)
    BY <2>0, <2>1, <2>4, Sights, WithSame
  <2>6. Undone(w, e) = w /\ Applies(w, e) /\ Fits(s.trie, e)
    BY <2>1, <2>5 DEF Undone, Applies, Fits
  <2> HIDE DEF e
  <2> QED BY <2>2, <2>3, <2>4, <2>5, <2>6, <1>Setter
\* An object that is no longer destroyed.
<1>FateBack.
  ASSUME NEW o \in Object, NEW y \in BOOLEAN, NEW x \in Int
  PROVE  Fated(Fated(Show(o), y, x), o.suicided, o.balance) = Show(o)
  <2> DEFINE w == Fated(Show(o), y, x)
             q == [w EXCEPT !.suicided = o.suicided]
             p == [q EXCEPT !.balance = o.balance]
  <2>1. /\ w \in Shown /\ w.nonce = o.nonce /\ w.code = o.code /\ w.storage = o.storage
    <3>1. Show(Fated(o, y, x)) = w /\ Fated(o, y, x) \in Object
      BY OtherFate
    <3>2. /\ Fated(o, y, x).nonce = o.nonce /\ Fated(o, y, x).code = o.code
          /\ Fated(o, y, x).storage = o.storage
      BY DEF Fated, Object
    <3>3. Show(Fated(o, y, x)) \in Shown
      BY <3>1 DEF Object, Shown, Show
    <3> QED BY <3>1, <3>2, <3>3 DEF Show
  <2> HIDE DEF w
  <2>2. Fated(w, o.suicided, o.balance) = p
    BY <2>1 DEF Fated, Shown
  <2>3. o.suicided \in BOOLEAN /\ o.balance \in Int /\ Show(o) \in Shown
    BY DEF Object, Shown, Show
  <2>4. /\ q \in Shown /\ q.nonce = o.nonce /\ q.code = o.code /\ q.storage = o.storage
        /\ q.suicided = o.suicided
    BY <2>1, <2>3 DEF Shown
  <2> HIDE DEF q
  <2>5. /\ p \in Shown /\ p.nonce = o.nonce /\ p.code = o.code /\ p.storage = o.storage
        /\ p.suicided = o.suicided /\ p.balance = o.balance
    BY <2>3, <2>4 DEF Shown
  <2> HIDE DEF p
  <2>6. /\ Show(o).nonce = o.nonce /\ Show(o).code = o.code /\ Show(o).storage = o.storage
        /\ Show(o).suicided = o.suicided /\ Show(o).balance = o.balance
    BY DEF Show
  <2>7. p = Show(o)
    BY <2>3, <2>5, <2>6 DEF Shown
  <2> QED BY <2>2, <2>7 DEF w
\* Suicide.
<1>Suicided.
  ASSUME NEW s, Sound(s), NEW a \in Address
  PROVE  Grows(s, Suicide(s, a))
  <2> USE <1>Suicided
  <2> DEFINE g == getStateObject(s, a)
             o == Fated(g, TRUE, 0)
             e == [type |-> "suicide", account |-> a, prev |-> g.suicided, prevbalance |-> g.balance]
             w == With(View(s), a, Show(o))
  <2>0. s \in Database
    BY DEF Sound
  <2>1. CASE ~Exist(s, a)
    BY <2>1 DEF Suicide, Exist, Grows, Kept
  <2>2. CASE Exist(s, a)
    <3>1. g \in Object /\ ~g.deleted /\ View(s).accounts[a] = Show(g)
      BY <2>0, <2>2, Existing
    <3>2. Suicide(s, a) = Changed(Journal(s, e), a, o)
      BY <2>2 DEF Suicide, Exist, Fated
    <3> HIDE DEF g
    <3>3. e \in Entry /\ g.suicided \in BOOLEAN /\ g.balance \in Int
      <4>1. g.suicided \in BOOLEAN /\ g.balance \in Int
        BY <3>1 DEF Object
      <4> QED BY <4>1 DEF Entry
    <3>4. o \in Object /\ ~o.deleted /\ Show(o) = Fated(Show(g), TRUE, 0)
      <4>1. TRUE \in BOOLEAN /\ 0 \in Int
        OBVIOUS
      <4> QED BY <3>1, <4>1, OtherFate, ZenonT(60)
    <3> HIDE DEF o
    <3>5. Fated(Show(o), g.suicided, g.balance) = Show(g)
      <4>1. TRUE \in BOOLEAN /\ 0 \in Int
        OBVIOUS
      <4>2. Fated(Fated(Show(g), TRUE, 0), g.suicided, g.balance) = Show(g)
        BY <3>1, <4>1, <1>FateBack, ZenonT(60)
      <4> QED BY <3>4, <4>2, ZenonT(60)
    <3>6. w.accounts[a] = Show(o) /\ Show(o) # None
      <4>1. Show(o) \in Shown
        BY <3>4 DEF Object, Shown, Show
      <4>2. View(s) \in Sight
        BY <2>0, Sights
      <4>3. w.accounts[a] = Show(o)
        BY <4>1, <4>2, Withs
      <4> QED BY <4>1, <4>3, NoneAssumption
    <3>7. Undone(w, e) = With(w, a, View(s).accounts[a])
      <4>1. Undone(w, e) = With(w, a, Fated(Show(o), g.suicided, g.balance))
        BY <3>6 DEF Undone
      <4> QED BY <3>1, <3>5, <4>1
    <3>8. View(s) = Undone(w, e)
      BY <2>0, <3>4, <3>7, <1>Backs, ZenonT(60)
    <3>9. Applies(w, e) /\ Fits(s.trie, e)
      BY DEF Applies, Fits
    <3> HIDE DEF e
    <3> QED BY <3>2, <3>3, <3>4, <3>8, <3>9, <1>Setter, ZenonT(60)
  <2> QED BY <2>1, <2>2
\* Undoing it gives the account back, whatever was seen of it.
<1>CreateBacks.
  ASSUME NEW s, Sound(s), NEW a \in Address, NEW o \in Object
  PROVE  LET e == CreateEntry(s, a)
             w == With(View(s), a, Show(o))
         IN e \in Entry /\ Fits(s.trie, e) /\ Applies(w, e) /\ View(s) = Undone(w, e)
  <2> USE <1>CreateBacks
  <2> DEFINE g == getStateObject(s, a)
             e == CreateEntry(s, a)
             w == With(View(s), a, Show(o))
  <2>0. s \in Database /\ Consistent(s)
    BY DEF Sound
  <2>1. CASE g = None
    <3>1. e = [type |-> "createObject", account |-> a] /\ View(s).accounts[a] = None
      BY <2>0, <2>1, Sights DEF CreateEntry, Exist
    <3>2. s.trie[a] = None
      <4>1. CASE a \in DOMAIN s.objects
        BY <2>0, <2>1, <4>1, Fields, NoneAssumption DEF getStateObject, Consistent
      <4>2. CASE a \notin DOMAIN s.objects
        <5>1. ASSUME NEW d \in AccountData PROVE newObject(d) # None
          <6>1. newObject(d) \in Object
            BY DEF AccountData, Object, newObject
          <6> QED BY <6>1, NoneAssumption
        <5> QED BY <2>0, <2>1, <4>2, <5>1, Fields DEF getStateObject
      <4> QED BY <4>1, <4>2
    <3> HIDE DEF e
    <3>3. e \in Entry /\ Fits(s.trie, e) /\ Applies(w, e)
      BY <3>1, <3>2 DEF Entry, Fits, Applies
    <3>4. Undone(w, e) = With(w, a, View(s).accounts[a])
      BY <3>1 DEF Undone
    <3> QED BY <2>0, <3>3, <3>4, <1>Backs DEF e
  <2>2. CASE g # None
    <3>1. g \in Object /\ ~g.deleted /\ View(s).accounts[a] = Show(g)
      BY <2>0, <2>2, Existing DEF Exist
    <3>2. e = [type |-> "resetObject", account |-> a, prev |-> g]
      BY <2>2 DEF CreateEntry
    <3> HIDE DEF e, g
    <3>3. e \in Entry /\ Fits(s.trie, e) /\ Applies(w, e)
      BY <3>1, <3>2 DEF Entry, Fits, Applies
    <3>4. Undone(w, e) = With(w, a, View(s).accounts[a])
      BY <3>1, <3>2 DEF Undone
    <3> QED BY <2>0, <3>3, <3>4, <1>Backs DEF e
  <2> QED BY <2>1, <2>2
\* The new object has the fields of an object.
<1>NewObjects.
  NewObject \in Object /\ ~NewObject.deleted
  <2> DEFINE d == Account(0, 0, NoStorage, EmptyCode)
  <2>1. d \in AccountData
    BY DEF Account, AccountData, NoStorage, Code
  <2> HIDE DEF d
  <2>2. newObject(d) \in Object /\ ~newObject(d).deleted
    BY <2>1 DEF AccountData, Object, newObject
  <2> QED BY <2>2 DEF d, NewObject
\* createObject.
<1>ObjectCreated.
  ASSUME NEW s, Sound(s), NEW a \in Address
  PROVE  LET t == createObject(s, a)
         IN /\ Grows(s, t) /\ Exist(t, a) /\ t.journal = Append(s.journal, CreateEntry(s, a))
            /\ View(t) = With(View(s), a, Show(NewObject)) /\ getStateObject(t, a) = Entered(NewObject)
  <2> USE <1>ObjectCreated
  <2> DEFINE e == CreateEntry(s, a)
  <2>1. createObject(s, a) = Changed(Journal(s, e), a, NewObject)
    BY DEF createObject, CreateEntry, NewObject
  <2>2. NewObject \in Object /\ ~NewObject.deleted
    BY <1>NewObjects
  <2>3. /\ e \in Entry /\ Fits(s.trie, e) /\ Applies(With(View(s), a, Show(NewObject)), e)
        /\ View(s) = Undone(With(View(s), a, Show(NewObject)), e)
    BY <2>2, <1>CreateBacks
  <2> HIDE DEF e
  <2>4. LET t == Changed(Journal(s, e), a, NewObject)
        IN /\ Grows(s, t) /\ t.journal = Append(s.journal, e) /\ View(t) = With(View(s), a, Show(NewObject))
           /\ getStateObject(t, a) = Entered(NewObject) /\ Exist(t, a)
    BY <2>2, <2>3, <1>Setter
  <2> QED BY <2>1, <2>4 DEF e
\* CreateAccount, which leaves an account its balance.
<1>AccountCreated.
  ASSUME NEW s, Sound(s), NEW a \in Address
  PROVE  Grows(s, CreateAccount(s, a)) /\ Exist(CreateAccount(s, a), a)
  <2> USE <1>AccountCreated
  <2> DEFINE new == createObject(s, a)
             b == GetBalance(s, a)
             n == Entered(NewObject)
             o == [n EXCEPT !.balance = b]
             t == Changed(new, a, o)
             e == CreateEntry(s, a)
  <2>0. s \in Database
    BY DEF Sound
  <2>1. /\ Grows(s, new) /\ Exist(new, a) /\ new.journal = Append(s.journal, e)
        /\ View(new) = With(View(s), a, Show(NewObject)) /\ getStateObject(new, a) = n
    BY <1>ObjectCreated
  <2>2. CASE ~Exist(s, a)
    BY <2>1, <2>2 DEF CreateAccount
  <2>3. CASE Exist(s, a)
    <3>1. b \in Int
      BY <2>0, <2>3, Existing DEF GetBalance, Get, Exist, Object
    <3>2. CreateAccount(s, a) = t
      BY <2>1, <2>3 DEF CreateAccount, setBalance
    <3>3. n \in Object /\ ~n.deleted
      BY <1>NewObjects, Enters
    <3> HIDE DEF n, b
    <3>4. o \in Object /\ ~o.deleted
      BY <3>1, <3>3, OtherFields, ZenonT(60)
    <3> HIDE DEF o, new
    <3>5. new \in Database /\ Consistent(new) /\ Kept(s, new)
      BY <2>1 DEF Grows, Sound
    <3>6. /\ t \in Database /\ Kept(new, t) /\ t.journal = new.journal
          /\ getStateObject(t, a) = Entered(o)
      BY <3>4, <3>5, ChangedObject, ZenonT(60)
    <3>7. Consistent(t) /\ View(t) = With(View(new), a, Show(o))
      BY <3>4, <3>5, ChangeConsistent, ChangeSight
    <3> HIDE DEF t
    <3>8. View(t) = With(View(s), a, Show(o))
      <4>1. View(s) \in Sight /\ Show(NewObject) \in Shown /\ Show(o) \in Shown
        BY <2>0, <3>4, <1>NewObjects, Sights, ZenonT(60) DEF Object, Shown, Show
      <4> QED BY <2>1, <3>7, <4>1, <1>UndoneWith
    <3>9. e \in Entry /\ Applies(View(t), e) /\ View(s) = Undone(View(t), e)
      BY <3>4, <3>8, <1>CreateBacks
    <3>10. Kept(s, t) /\ t.journal = Append(s.journal, e)
      BY <2>1, <3>5, <3>6, ZenonT(60) DEF Kept
    <3> HIDE DEF e
    <3>11. Sound(t)
      BY <3>6, <3>7, <3>9, <3>10, <1>Journaled
    <3>12. Exist(t, a)
      BY <3>4, <3>6, Enters, NoneAssumption DEF Exist
    <3> QED BY <3>2, <3>10, <3>11, <3>12 DEF Grows
  <2> QED BY <2>2, <2>3
\* GetOrNewStateObject.
<1>GotOrNew.
  ASSUME NEW s, Sound(s), NEW a \in Address
  PROVE  Grows(s, GetOrNewStateObject(s, a)) /\ Exist(GetOrNewStateObject(s, a), a)
  BY <1>GotOrNew, <1>ObjectCreated DEF GetOrNewStateObject, Grows, Kept
\* AddBalance.
<1>BalanceAdded.
  ASSUME NEW s, Sound(s), NEW a \in Address, NEW x \in Int
  PROVE  Grows(s, AddBalance(s, a, x))
  <2> USE <1>BalanceAdded
  <2> DEFINE t == GetOrNewStateObject(s, a)
             u == AddBalance(s, a, x)
  <2>1. Grows(s, t) /\ Exist(t, a) /\ Sound(t) /\ t \in Database
    BY <1>GotOrNew DEF Grows, Sound
  <2>2. u = IF x # 0 THEN SetBalance(t, a, GetBalance(t, a) + x)
            ELSE IF Empty(t, a) THEN touch(t, a) ELSE t
    BY DEF AddBalance
  <2> HIDE DEF t, u
  <2>3. GetBalance(t, a) + x \in Int
    BY <2>1, Getters
  <2>4. Grows(t, SetBalance(t, a, GetBalance(t, a) + x)) /\ Grows(t, touch(t, a)) /\ Grows(t, t)
    BY <2>1, <2>3, <1>BalanceSet, <1>Touched DEF Grows, Kept
  <2>5. Grows(t, u)
    BY <2>2, <2>4
  <2> QED BY <2>1, <2>5, GrowsOn DEF u
\* SubBalance.
<1>BalanceTaken.
  ASSUME NEW s, Sound(s), NEW a \in Address, NEW x \in Int
  PROVE  Grows(s, SubBalance(s, a, x))
  <2> USE <1>BalanceTaken
  <2> DEFINE t == GetOrNewStateObject(s, a)
             u == SubBalance(s, a, x)
  <2>1. Grows(s, t) /\ Exist(t, a) /\ Sound(t) /\ t \in Database
    BY <1>GotOrNew DEF Grows, Sound
  <2>2. u = IF x = 0 THEN t ELSE SetBalance(t, a, GetBalance(t, a) - x)
    BY DEF SubBalance
  <2> HIDE DEF t, u
  <2>3. GetBalance(t, a) - x \in Int
    BY <2>1, Getters
  <2>4. Grows(t, SetBalance(t, a, GetBalance(t, a) - x)) /\ Grows(t, t)
    BY <2>1, <2>3, <1>BalanceSet DEF Grows, Kept
  <2>5. Grows(t, u)
    BY <2>2, <2>4
  <2> QED BY <2>1, <2>5, GrowsOn DEF u
\* SetNonce.
<1>NonceGrows.
  ASSUME NEW s, Sound(s), NEW a \in Address, NEW n \in Nat
  PROVE  Grows(s, SetNonce(s, a, n))
  <2> USE <1>NonceGrows
  <2> DEFINE t == GetOrNewStateObject(s, a)
             u == setNonce(Journal(t, [type |-> "nonce", account |-> a, prev |-> GetNonce(t, a)]), a, n)
  <2>1. Grows(s, t) /\ Exist(t, a) /\ Sound(t)
    BY <1>GotOrNew DEF Grows
  <2>2. SetNonce(s, a, n) = u
    BY DEF SetNonce
  <2> HIDE DEF t
  <2>3. Grows(t, u)
    BY <2>1, <1>NonceSet
  <2> HIDE DEF u
  <2> QED BY <2>1, <2>2, <2>3, GrowsOn
\* SetCode.
<1>CodeGrows.
  ASSUME NEW s, Sound(s), NEW a \in Address, NEW c \in Code
  PROVE  Grows(s, SetCode(s, a, c))
  <2> USE <1>CodeGrows
  <2> DEFINE t == GetOrNewStateObject(s, a)
             u == setCode(Journal(t, [type |-> "code", account |-> a, prev |-> GetCode(t, a)]), a, c)
  <2>1. Grows(s, t) /\ Exist(t, a) /\ Sound(t)
    BY <1>GotOrNew DEF Grows
  <2>2. SetCode(s, a, c) = u
    BY DEF SetCode
  <2> HIDE DEF t
  <2>3. Grows(t, u)
    BY <2>1, <1>CodeSet
  <2> HIDE DEF u
  <2> QED BY <2>1, <2>2, <2>3, GrowsOn
\* SetState.
<1>StateGrows.
  ASSUME NEW s, Sound(s), NEW a \in Address, NEW k \in Slot, NEW x \in Int
  PROVE  Grows(s, SetState(s, a, k, x))
  <2> USE <1>StateGrows
  <2> DEFINE t == GetOrNewStateObject(s, a)
             u == setState(Journal(t, [type |-> "storage", account |-> a, key |-> k,
                                       prev |-> GetState(t, a, k)]), a, k, x)
  <2>1. Grows(s, t) /\ Exist(t, a) /\ Sound(t)
    BY <1>GotOrNew DEF Grows
  <2>2. SetState(s, a, k, x) = u
    BY DEF SetState
  <2> HIDE DEF t
  <2>3. Grows(t, u)
    BY <2>1, <1>SlotSet
  <2> HIDE DEF u
  <2> QED BY <2>1, <2>2, <2>3, GrowsOn
\* A journaled change of the refund or of the logs.
<1>CountGrows.
  ASSUME NEW s, Sound(s), NEW t \in Database, Kept(s, t), NEW e \in Entry,
         e.type \in {"refund", "addLog"}, t.journal = Append(s.journal, e),
         t.objects = s.objects, t.dirty = s.dirty, View(s) = Undone(View(t), e)
  PROVE  Grows(s, t)
  <2> USE <1>CountGrows
  <2> DEFINE j == Journal(s, e)
  <2>0. s \in Database /\ Consistent(s)
    BY DEF Sound
  <2>1. Fits(s.trie, e) /\ Applies(View(t), e)
    BY DEF Fits, Applies
  <2>2. /\ Consistent(j) /\ Kept(s, j) /\ j.journal = Append(s.journal, e)
        /\ j.objects = s.objects /\ j.dirty = s.dirty
    BY <2>0, <2>1, <1>JournalConsistent, Journals
  <2> HIDE DEF j
  <2>3. Consistent(t)
    BY <2>2 DEF Consistent, Kept
  <2> QED BY <2>1, <2>3, <1>Journaled DEF Grows
\* AddRefund.
<1>RefundGrows.
  ASSUME NEW s, Sound(s), NEW gas \in Int
  PROVE  Grows(s, AddRefund(s, gas))
  <2> USE <1>RefundGrows
  <2> DEFINE e == [type |-> "refund", prev |-> s.refund]
             j == Journal(s, e)
             n == s.refund + gas
             t == [j EXCEPT !.refund = n]
             x == [a \in Address |-> Visible(s, a)]
  <2>0. s \in Database /\ s.refund \in Int /\ n \in Int
    BY Fields DEF Sound
  <2>1. e \in Entry /\ e.type = "refund" /\ e.prev = s.refund
    BY <2>0 DEF Entry
  <2> HIDE DEF e
  <2>2. /\ j \in Database /\ Kept(s, j) /\ j.journal = Append(s.journal, e) /\ j.refund = s.refund
        /\ j.logs = s.logs /\ j.dirty = s.dirty /\ j.objects = s.objects
    BY <2>0, <2>1, Journals
  <2>3. AddRefund(s, gas) = t
    BY <2>2 DEF AddRefund, e
  <2> HIDE DEF j, n
  <2>4. /\ t \in Database /\ Kept(s, t) /\ t.journal = j.journal /\ t.refund = n
        /\ t.logs = j.logs /\ t.dirty = j.dirty /\ t.objects = j.objects
    BY <2>0, <2>2, ZenonT(60) DEF Database, Kept
  <2> HIDE DEF t
  <2>5. View(t) = [accounts |-> x, refund |-> n, logs |-> s.logs]
    <3>1. \A a \in Address : Visible(t, a) = Visible(s, a)
      BY <2>2, <2>4 DEF Visible, getStateObject, Kept
    <3>2. [a \in Address |-> Visible(t, a)] = x
      BY <3>1
    <3> HIDE DEF x
    <3> QED BY <2>2, <2>4, <3>2, ZenonT(60) DEF View
  <2>6. View(s) = [accounts |-> x, refund |-> s.refund, logs |-> s.logs]
    BY DEF View
  <2> HIDE DEF x
  <2>7. View(s) = Undone(View(t), e)
    <3>1. Undone(View(t), e) = [View(t) EXCEPT !.refund = e.prev]
      BY <2>1 DEF Undone
    <3> QED BY <2>1, <2>5, <2>6, <3>1
  <2>8. t.journal = Append(s.journal, e) /\ t.objects = s.objects /\ t.dirty = s.dirty
    BY <2>2, <2>4
  <2> QED BY <2>1, <2>3, <2>4, <2>7, <2>8, <1>CountGrows
\* AddLog.
<1>LogGrows.
  ASSUME NEW s, Sound(s), NEW a \in Address
  PROVE  Grows(s, AddLog(s, a))
  <2> USE <1>LogGrows
  <2> DEFINE e == [type |-> "addLog"]
             j == Journal(s, e)
             l == Append(s.logs, a)
             t == [j EXCEPT !.logs = l]
             x == [b \in Address |-> Visible(s, b)]
  <2>0. s \in Database /\ s.logs \in Seq(Address) /\ l \in Seq(Address) /\ SubSeq(l, 1, Len(l) - 1) = s.logs
    <3>1. s \in Database /\ s.logs \in Seq(Address)
      BY Fields DEF Sound
    <3> DEFINE q == s.logs
    <3> HIDE DEF q
    <3>2. q \in Seq(Address) => Append(q, a) \in Seq(Address) /\ SubSeq(Append(q, a), 1, Len(Append(q, a)) - 1) = q
      OBVIOUS
    <3> QED BY <3>1, <3>2 DEF q
  <2>1. e \in Entry /\ e.type = "addLog"
    BY DEF Entry
  <2> HIDE DEF e
  <2>2. /\ j \in Database /\ Kept(s, j) /\ j.journal = Append(s.journal, e) /\ j.refund = s.refund
        /\ j.logs = s.logs /\ j.dirty = s.dirty /\ j.objects = s.objects
    BY <2>0, <2>1, Journals
  <2>3. AddLog(s, a) = t
    BY <2>2, ZenonT(60) DEF AddLog, e
  <2> HIDE DEF j, l
  <2>4. /\ t \in Database /\ Kept(s, t) /\ t.journal = j.journal /\ t.refund = j.refund
        /\ t.logs = l /\ t.dirty = j.dirty /\ t.objects = j.objects
    BY <2>0, <2>2, ZenonT(60) DEF Database, Kept
  <2> HIDE DEF t
  <2>5. View(t) = [accounts |-> x, refund |-> s.refund, logs |-> l]
    <3>1. \A b \in Address : Visible(t, b) = Visible(s, b)
      BY <2>2, <2>4 DEF Visible, getStateObject, Kept
    <3>2. [b \in Address |-> Visible(t, b)] = x
      BY <3>1
    <3> HIDE DEF x
    <3> QED BY <2>2, <2>4, <3>2 DEF View
  <2>6. View(s) = [accounts |-> x, refund |-> s.refund, logs |-> s.logs]
    BY DEF View
  <2> HIDE DEF x
  <2>7. View(s) = Undone(View(t), e)
    <3> DEFINE q == SubSeq(l, 1, Len(l) - 1)
    <3>1. Undone(View(t), e) = [View(t) EXCEPT !.logs = SubSeq(@, 1, Len(@) - 1)]
      BY <2>1 DEF Undone
    <3>2. View(t).logs = l
      BY <2>5
    <3>3. Undone(View(t), e) = [View(t) EXCEPT !.logs = q]
      BY <3>1, <3>2
    <3>4. q = s.logs
      BY <2>0
    <3> HIDE DEF q
    <3> QED BY <2>5, <2>6, <3>3, <3>4
  <2>8. t.journal = Append(s.journal, e) /\ t.objects = s.objects /\ t.dirty = s.dirty
    BY <2>2, <2>4
  <2> QED BY <2>1, <2>3, <2>4, <2>7, <2>8, <1>CountGrows, ZenonT(60)
<1> QED BY <1>RefundGrows, <1>AccountCreated, <1>Suicided, <1>LogGrows, <1>BalanceAdded, <1>BalanceTaken,
           <1>NonceGrows, <1>CodeGrows, <1>StateGrows

\* CreateAccount, which leaves an account its balance.
LEMMA AccountCreated ==
  ASSUME NEW s, Sound(s), NEW a \in Address
  PROVE  Grows(s, CreateAccount(s, a)) /\ Exist(CreateAccount(s, a), a)
BY SettersGrow, ZenonT(60)

\* Suicide.
LEMMA Suicided ==
  ASSUME NEW s, Sound(s), NEW a \in Address
  PROVE  Grows(s, Suicide(s, a))
BY SettersGrow, ZenonT(60)

\* AddBalance.
LEMMA BalanceAdded ==
  ASSUME NEW s, Sound(s), NEW a \in Address, NEW x \in Int
  PROVE  Grows(s, AddBalance(s, a, x))
BY SettersGrow, ZenonT(60)

\* SubBalance.
LEMMA BalanceTaken ==
  ASSUME NEW s, Sound(s), NEW a \in Address, NEW x \in Int
  PROVE  Grows(s, SubBalance(s, a, x))
BY SettersGrow, ZenonT(60)

\* SetNonce.
LEMMA NonceGrows ==
  ASSUME NEW s, Sound(s), NEW a \in Address, NEW n \in Nat
  PROVE  Grows(s, SetNonce(s, a, n))
BY SettersGrow, ZenonT(60)

\* SetCode.
LEMMA CodeGrows ==
  ASSUME NEW s, Sound(s), NEW a \in Address, NEW c \in Code
  PROVE  Grows(s, SetCode(s, a, c))
BY SettersGrow, ZenonT(60)

\* SetState.
LEMMA StateGrows ==
  ASSUME NEW s, Sound(s), NEW a \in Address, NEW k \in Slot, NEW x \in Int
  PROVE  Grows(s, SetState(s, a, k, x))
BY SettersGrow, ZenonT(60)

\* AddRefund.
LEMMA RefundGrows ==
  ASSUME NEW s, Sound(s), NEW gas \in Int
  PROVE  Grows(s, AddRefund(s, gas))
BY SettersGrow, ZenonT(60)

\* AddLog.
LEMMA LogGrows ==
  ASSUME NEW s, Sound(s), NEW a \in Address
  PROVE  Grows(s, AddLog(s, a))
BY SettersGrow, ZenonT(60)

-----------------------------------------------------------------------------
(* Snapshots, and writing back.                                            *)

\* An object that was written to the trie, or deleted from it.
Written(o) == [o EXCEPT !.root = updateTrie(o), !.dirtyStorage = {}]
Removed(o) == [o EXCEPT !.deleted = TRUE]

\* What writing back does.
Wrote(s, written, Deleted, t) ==
  /\ t \in Database /\ t.dirty = s.dirty /\ DOMAIN t.objects = DOMAIN s.objects
  /\ t.codes = s.codes
  /\ \A a \in Address : /\ a \notin written => t.trie[a] = s.trie[a]
                        /\ a \in Deleted => t.trie[a] = None
  /\ \A a \in DOMAIN s.objects :
       /\ a \notin written => t.objects[a] = s.objects[a]
       /\ a \in Deleted => t.objects[a] = Removed(s.objects[a])
       /\ a \in written \ Deleted => t.objects[a] = Written(s.objects[a])

\* New, Finalise, Commit and Copy.
LEMMA WrittenBack ==
  /\ \A trie \in [Address -> AccountData \cup {None}], codes \in SUBSET Code :
       Sound(New(trie, codes)) /\ New(trie, codes).revisions = <<>>
  /\ \A s : Sound(s) => Sound(Finalise(s)) /\ Finalise(s).revisions = <<>> /\ Sound(Copy(s))
  /\ \A s \in Database :
       Commit(s).trie \in [Address -> AccountData \cup {None}] /\ Commit(s).codes \in SUBSET Code
\* A database without a journal.
<1>Fresh.
  ASSUME NEW t \in Database, t.journal = <<>>, t.revisions = <<>>, t.dirty \subseteq DOMAIN t.objects,
         \A a \in DOMAIN t.objects :
           t.objects[a].deleted => t.trie[a] = None /\ (t.objects[a].suicided \/ empty(t.objects[a]))
  PROVE  Sound(t)
  <2> USE <1>Fresh
  <2>1. Consistent(t) /\ Nested(t)
    BY DEF Consistent, Nested
  <2> DEFINE h == [i \in 0..0 |-> View(t)]
  <2>2. Len(t.journal) = 0 /\ DOMAIN t.revisions = {}
    OBVIOUS
  <2>3. h[0] = View(t)
    OBVIOUS
  <2> HIDE DEF h
  <2>4. History(t, h)
    BY <2>2, <2>3 DEF History
  <2> QED BY <2>1, <2>4 DEF Sound
\* A new database.
<1>NewSound.
  ASSUME NEW trie \in [Address -> AccountData \cup {None}], NEW codes \in SUBSET Code
  PROVE  Sound(New(trie, codes)) /\ New(trie, codes).revisions = <<>>
  <2> DEFINE t == New(trie, codes)
  <2>1. <<>> \in UNION {[D -> Object] : D \in SUBSET Address}
    <3>1. <<>> \in [{} -> Object] /\ {} \in SUBSET Address
      OBVIOUS
    <3> QED BY <3>1
  <2>2. /\ t.journal = <<>> /\ t.revisions = <<>> /\ t.dirty = {} /\ t.objects = <<>>
    BY DEF New
  <2>3. t \in Database
    <3>1. <<>> \in Seq(Address) /\ <<>> \in Seq(Entry) /\ <<>> \in Seq(Revision)
      OBVIOUS
    <3> QED BY <2>1, <3>1 DEF New, Database
  <2>4. DOMAIN t.objects = {}
    BY <2>2
  <2> HIDE DEF t
  <2> QED BY <2>2, <2>3, <2>4, <1>Fresh DEF t
\* Their fields.
<1>WrittenFields.
  ASSUME NEW o \in Object
  PROVE  /\ updateTrie(o) \in [Slot -> Int]
         /\ Written(o) \in Object /\ Written(o).deleted = o.deleted /\ Written(o).suicided = o.suicided
         /\ Written(o).nonce = o.nonce /\ Written(o).balance = o.balance /\ Written(o).code = o.code
         /\ Removed(o) \in Object /\ Removed(o).suicided = o.suicided
         /\ Removed(o).nonce = o.nonce /\ Removed(o).balance = o.balance /\ Removed(o).code = o.code
  <2> DEFINE r == updateTrie(o)
             q == [o EXCEPT !.root = r]
             p == [q EXCEPT !.dirtyStorage = {}]
  <2>1. r \in [Slot -> Int]
    BY DEF updateTrie, Object
  <2>2. Written(o) = p
    BY DEF Written, Object
  <2> HIDE DEF r
  <2>3. /\ q \in Object /\ q.deleted = o.deleted /\ q.suicided = o.suicided
        /\ q.nonce = o.nonce /\ q.balance = o.balance /\ q.code = o.code
    BY <2>1 DEF Object
  <2> HIDE DEF q
  <2>4. /\ p \in Object /\ p.deleted = q.deleted /\ p.suicided = q.suicided
        /\ p.nonce = q.nonce /\ p.balance = q.balance /\ p.code = q.code
    BY <2>3 DEF Object
  <2> HIDE DEF p
  <2>5. /\ Removed(o) \in Object /\ Removed(o).suicided = o.suicided
        /\ Removed(o).nonce = o.nonce /\ Removed(o).balance = o.balance /\ Removed(o).code = o.code
    BY ZenonT(60) DEF Removed, Object
  <2> QED BY <2>1, <2>2, <2>3, <2>4, <2>5 DEF r
\* WriteBack does it.
<1>WroteBack.
  ASSUME NEW s \in Database, NEW written \in SUBSET DOMAIN s.objects, NEW Deleted \in SUBSET written
  PROVE  Wrote(s, written, Deleted, WriteBack(s, written, Deleted))
  <2> DEFINE trie == [a \in Address |->
                        IF a \notin written THEN s.trie[a]
                        ELSE IF a \in Deleted THEN None
                        ELSE Account(s.objects[a].nonce, s.objects[a].balance, updateTrie(s.objects[a]),
                                     s.objects[a].code)]
             objects == [a \in DOMAIN s.objects |->
                           IF a \notin written THEN s.objects[a]
                           ELSE IF a \in Deleted THEN Removed(s.objects[a])
                           ELSE Written(s.objects[a])]
             u == [s EXCEPT !.trie = trie]
             w == [u EXCEPT !.objects = objects]
  <2>1. WriteBack(s, written, Deleted) = w
    BY DEF WriteBack, Removed, Written, Database
  <2>2. /\ s.trie \in [Address -> AccountData \cup {None}]
        /\ DOMAIN s.objects \subseteq Address /\ \A a \in DOMAIN s.objects : s.objects[a] \in Object
    BY Fields
  <2>3. trie \in [Address -> AccountData \cup {None}]
    <3>1. ASSUME NEW o \in Object PROVE Account(o.nonce, o.balance, updateTrie(o), o.code) \in AccountData
      <4>1. updateTrie(o) \in [Slot -> Int]
        BY <1>WrittenFields
      <4> QED BY <4>1 DEF Account, AccountData, Object
    <3>2. ASSUME NEW a \in Address
          PROVE  (IF a \notin written THEN s.trie[a]
                  ELSE IF a \in Deleted THEN None
                  ELSE Account(s.objects[a].nonce, s.objects[a].balance, updateTrie(s.objects[a]),
                               s.objects[a].code)) \in AccountData \cup {None}
      BY <2>2, <3>1
    <3> QED BY <3>2
  <2>4. objects \in UNION {[D -> Object] : D \in SUBSET Address}
    <3>1. ASSUME NEW o \in Object PROVE Removed(o) \in Object /\ Written(o) \in Object
      BY <1>WrittenFields
    <3>2. objects \in [DOMAIN s.objects -> Object]
      BY <2>2, <3>1
    <3> HIDE DEF objects
    <3> QED BY <2>2, <3>2
  <2>5. /\ \A a \in Address : /\ a \notin written => trie[a] = s.trie[a]
                              /\ a \in Deleted => trie[a] = None
        /\ DOMAIN objects = DOMAIN s.objects
        /\ \A a \in DOMAIN s.objects :
             /\ a \notin written => objects[a] = s.objects[a]
             /\ a \in Deleted => objects[a] = Removed(s.objects[a])
             /\ a \in written \ Deleted => objects[a] = Written(s.objects[a])
    OBVIOUS
  <2> HIDE DEF trie, objects
  <2>6. u \in Database /\ u.trie = trie /\ u.dirty = s.dirty /\ u.codes = s.codes
    BY <2>3, ZenonT(60) DEF Database
  <2> HIDE DEF u
  <2>7. w \in Database /\ w.trie = u.trie /\ w.objects = objects /\ w.dirty = u.dirty /\ w.codes = u.codes
    BY <2>4, <2>6, ZenonT(60) DEF Database
  <2> HIDE DEF w
  <2> QED BY <2>1, <2>5, <2>6, <2>7 DEF Wrote
\* Clearing the journal.
<1>Cleared.
  ASSUME NEW s \in Database
  PROVE  LET t == clearJournalAndRefund(s)
         IN /\ t \in Database /\ t.journal = <<>> /\ t.revisions = <<>> /\ t.trie = s.trie
            /\ t.codes = s.codes /\ t.objects = s.objects /\ t.dirty = s.dirty
  <2> DEFINE u == [s EXCEPT !.journal = <<>>]
             v == [u EXCEPT !.revisions = <<>>]
             zero == 0
             t == [v EXCEPT !.refund = zero]
  <2>1. clearJournalAndRefund(s) = t /\ zero \in Int
    BY DEF clearJournalAndRefund, Database
  <2> HIDE DEF zero
  <2>2. <<>> \in Seq(Entry) /\ <<>> \in Seq(Revision)
    OBVIOUS
  <2>3. /\ u \in Database /\ u.journal = <<>> /\ u.trie = s.trie
        /\ u.codes = s.codes /\ u.objects = s.objects /\ u.dirty = s.dirty
    BY <2>2, ZenonT(60) DEF Database
  <2> HIDE DEF u
  <2>4. /\ v \in Database /\ v.journal = <<>> /\ v.revisions = <<>> /\ v.trie = s.trie
        /\ v.codes = s.codes /\ v.objects = s.objects /\ v.dirty = s.dirty
    BY <2>2, <2>3, ZenonT(60) DEF Database
  <2> HIDE DEF v
  <2>5. /\ t \in Database /\ t.journal = <<>> /\ t.revisions = <<>> /\ t.trie = s.trie
        /\ t.codes = s.codes /\ t.objects = s.objects /\ t.dirty = s.dirty
    <3>1. t \in Database
      BY <2>1, <2>4, ZenonT(60) DEF Database
    <3>2. /\ t.journal = v.journal /\ t.revisions = v.revisions /\ t.trie = v.trie
          /\ t.codes = v.codes /\ t.objects = v.objects /\ t.dirty = v.dirty
      BY <2>4 DEF Database
    <3> HIDE DEF t
    <3> QED BY <2>4, <3>1, <3>2
  <2> HIDE DEF t
  <2> QED BY <2>1, <2>5
\* Finalise.
<1>Finalised.
  ASSUME NEW s, Sound(s)
  PROVE  Sound(Finalise(s)) /\ Finalise(s).revisions = <<>>
  <2> USE <1>Finalised
  <2> DEFINE D == {a \in s.dirty : s.objects[a].suicided \/ empty(s.objects[a])}
             w == WriteBack(s, s.dirty, D)
             t == clearJournalAndRefund(w)
  <2>0. s \in Database /\ Consistent(s) /\ s.dirty \subseteq DOMAIN s.objects
    BY ZenonT(60) DEF Sound, Consistent
  <2>1. Finalise(s) = t
    BY DEF Finalise
  <2>2. /\ w \in Database /\ w.dirty = s.dirty /\ DOMAIN w.objects = DOMAIN s.objects
        /\ w.codes = s.codes
        /\ \A a \in Address : /\ a \notin s.dirty => w.trie[a] = s.trie[a]
                              /\ a \in D => w.trie[a] = None
        /\ \A a \in DOMAIN s.objects :
             /\ a \notin s.dirty => w.objects[a] = s.objects[a]
             /\ a \in D => w.objects[a] = Removed(s.objects[a])
             /\ a \in s.dirty \ D => w.objects[a] = Written(s.objects[a])
    <3>1. s.dirty \in SUBSET DOMAIN s.objects /\ D \in SUBSET s.dirty
      BY <2>0, ZenonT(60)
    <3>2. w = WriteBack(s, s.dirty, D)
      OBVIOUS
    <3> HIDE DEF D, w
    <3>3. Wrote(s, s.dirty, D, w)
      BY <2>0, <3>1, <3>2, <1>WroteBack, ZenonT(60)
    <3> QED BY <3>3, ZenonT(60) DEF Wrote
  <2> HIDE DEF w
  <2>3. /\ t \in Database /\ t.journal = <<>> /\ t.revisions = <<>> /\ t.trie = w.trie
        /\ t.objects = w.objects /\ t.dirty = w.dirty
    BY <2>2, <1>Cleared, ZenonT(60)
  <2> HIDE DEF t
  <2>4. ASSUME NEW a \in DOMAIN w.objects, w.objects[a].deleted
        PROVE  w.trie[a] = None /\ (w.objects[a].suicided \/ empty(w.objects[a]))
    <3> DEFINE o == s.objects[a]
    <3>1. a \in Address /\ a \in DOMAIN s.objects /\ o \in Object
      BY <2>0, <2>2, Fields, ZenonT(60)
    <3>2. o.deleted => s.trie[a] = None /\ (o.suicided \/ empty(o))
      BY <2>0, <3>1, ZenonT(60) DEF Consistent
    <3>3. CASE a \notin s.dirty
      BY <2>2, <2>4, <3>1, <3>2, <3>3, ZenonT(60)
    <3>4. CASE a \in D
      <4>1. w.objects[a] = Removed(o) /\ w.trie[a] = None /\ (o.suicided \/ empty(o))
        BY <2>2, <3>1, <3>4, ZenonT(60)
      <4> HIDE DEF o
      <4> QED BY <3>1, <4>1, <1>WrittenFields DEF empty
    <3>5. CASE a \in s.dirty /\ a \notin D
      <4>1. w.objects[a] = Written(o) /\ ~(o.suicided \/ empty(o))
        BY <2>2, <3>1, <3>5, ZenonT(60)
      <4> HIDE DEF o
      <4> QED BY <2>4, <3>1, <3>2, <4>1, <1>WrittenFields
    <3> QED BY <3>3, <3>4, <3>5, ZenonT(60)
  <2>5. Sound(t)
    BY <2>0, <2>2, <2>3, <2>4, <1>Fresh
  <2> QED BY <2>1, <2>3, <2>5
\* What Commit leaves in the trie and among the codes.
<1>Committed.
  ASSUME NEW s \in Database
  PROVE  /\ Commit(s).trie \in [Address -> AccountData \cup {None}]
         /\ Commit(s).codes \in SUBSET Code
  <2> DEFINE live == DOMAIN s.objects
             D == {a \in live : s.objects[a].suicided \/ (a \in s.dirty /\ empty(s.objects[a]))}
             written == (s.dirty \cap live) \ D
             newCode == {a \in written : s.objects[a].dirtyCode}
             all == written \cup D
             w == WriteBack(s, all, D)
             t == clearJournalAndRefund(w)
             c == t.codes \cup {s.objects[a].code : a \in newCode}
             u == [t EXCEPT !.codes = @ \cup {s.objects[a].code : a \in newCode},
                            !.objects = [a \in live |-> [@[a] EXCEPT !.dirtyCode = @ /\ a \notin newCode]],
                            !.dirty = @ \ live]
  <2>0. all \in SUBSET live /\ D \in SUBSET all /\ newCode \subseteq live
    BY ZenonT(60)
  <2>1. Commit(s) = u
    BY ZenonT(60) DEF Commit
  <2>2. \A a \in live : s.objects[a].code \in Code
    BY Fields, ZenonT(60) DEF Object
  <2> HIDE DEF D, all, newCode, live
  <2>3. w \in Database
    <3>1. Wrote(s, all, D, w)
      BY <2>0, <1>WroteBack DEF live
    <3> QED BY <3>1, ZenonT(60) DEF Wrote
  <2> HIDE DEF w
  <2>4. t \in Database
    BY <2>3, <1>Cleared
  <2> HIDE DEF t
  <2>5. c \in SUBSET Code
    BY <2>0, <2>2, <2>4, Fields
  <2>6. u.trie = t.trie /\ u.codes = c
    BY <2>4 DEF Database
  <2> QED BY <2>1, <2>4, <2>5, <2>6, Fields, ZenonT(60)
\* The fields of a copied object.
<1>DeepCopied.
  ASSUME NEW o \in Object
  PROVE  /\ deepCopy(o) \in Object /\ deepCopy(o).deleted = o.deleted
         /\ deepCopy(o).suicided = o.suicided /\ deepCopy(o).nonce = o.nonce
         /\ deepCopy(o).balance = o.balance /\ deepCopy(o).code = o.code
  <2> DEFINE r == updateTrie(o)
             q == [o EXCEPT !.storage = r]
             p == [q EXCEPT !.touched = FALSE]
             n == [p EXCEPT !.onDirty = TRUE]
  <2>1. r \in [Slot -> Int]
    BY <1>WrittenFields
  <2>2. deepCopy(o) = n
    BY DEF deepCopy, Object
  <2> HIDE DEF r
  <2>3. /\ q \in Object /\ q.deleted = o.deleted /\ q.suicided = o.suicided
        /\ q.nonce = o.nonce /\ q.balance = o.balance /\ q.code = o.code
    BY <2>1 DEF Object
  <2> HIDE DEF q
  <2>4. /\ p \in Object /\ p.deleted = q.deleted /\ p.suicided = q.suicided
        /\ p.nonce = q.nonce /\ p.balance = q.balance /\ p.code = q.code
    BY <2>3, ZenonT(60) DEF Object
  <2> HIDE DEF p
  <2>5. /\ n \in Object /\ n.deleted = p.deleted /\ n.suicided = p.suicided
        /\ n.nonce = p.nonce /\ n.balance = p.balance /\ n.code = p.code
    BY <2>4, ZenonT(60) DEF Object
  <2> HIDE DEF n
  <2> QED BY <2>2, <2>3, <2>4, <2>5
\* Copy.
<1>Copied.
  ASSUME NEW s, Sound(s)
  PROVE  Sound(Copy(s))
  <2> USE <1>Copied
  <2> DEFINE n == New(s.trie, s.codes)
             objects == [a \in s.dirty |-> deepCopy(s.objects[a])]
             c1 == [n EXCEPT !.objects = objects]
             c2 == [c1 EXCEPT !.dirty = s.dirty]
             c3 == [c2 EXCEPT !.refund = s.refund]
             c4 == [c3 EXCEPT !.logs = s.logs]
             t == Copy(s)
  <2>0. s \in Database /\ Consistent(s) /\ s.dirty \subseteq DOMAIN s.objects
    BY ZenonT(60) DEF Sound, Consistent
  <2>1. \A a \in s.dirty : s.objects[a] \in Object /\ deepCopy(s.objects[a]) \in Object
    BY <2>0, Fields, <1>DeepCopied
  <2>2. objects \in UNION {[D -> Object] : D \in SUBSET Address}
    <3>1. objects \in [s.dirty -> Object]
      BY <2>1
    <3> HIDE DEF objects
    <3> QED BY <2>0, <3>1, Fields
  <2>3. t = c4
    BY ZenonT(60) DEF Copy
  <2>4. ASSUME NEW a \in s.dirty, objects[a].deleted
        PROVE  s.trie[a] = None /\ (objects[a].suicided \/ empty(objects[a]))
    <3> DEFINE o == s.objects[a]
    <3>1. o \in Object /\ objects[a] = deepCopy(o)
      BY <2>1
    <3>2. o.deleted => s.trie[a] = None /\ (o.suicided \/ empty(o))
      BY <2>0, ZenonT(60) DEF Consistent
    <3> HIDE DEF o, objects
    <3> QED BY <2>4, <3>1, <3>2, <1>DeepCopied DEF empty
  <2>5. DOMAIN objects = s.dirty
    OBVIOUS
  <2> HIDE DEF t, objects
  <2>6. n \in Database /\ n.trie = s.trie /\ n.journal = <<>> /\ n.revisions = <<>>
    <3>1. s.trie \in [Address -> AccountData \cup {None}] /\ s.codes \in SUBSET Code
      BY <2>0, Fields
    <3> QED BY <3>1, <1>NewSound, ZenonT(60) DEF Sound, New
  <2> HIDE DEF n
  <2>7. /\ t \in Database /\ t.trie = s.trie /\ t.objects = objects /\ t.dirty = s.dirty
        /\ t.journal = <<>> /\ t.revisions = <<>>
    <3>1. /\ c1 \in Database /\ c1.trie = n.trie /\ c1.objects = objects
          /\ c1.journal = n.journal /\ c1.revisions = n.revisions
      BY <2>2, <2>6, ZenonT(60) DEF Database
    <3> HIDE DEF c1
    <3>2. /\ c2 \in Database /\ c2.trie = c1.trie /\ c2.objects = objects /\ c2.dirty = s.dirty
          /\ c2.journal = c1.journal /\ c2.revisions = c1.revisions
      BY <2>0, <3>1, ZenonT(60) DEF Database
    <3> HIDE DEF c2
    <3>3. /\ c3 \in Database /\ c3.trie = c2.trie /\ c3.objects = objects /\ c3.dirty = s.dirty
          /\ c3.journal = c2.journal /\ c3.revisions = c2.revisions
      BY <2>0, <3>2, ZenonT(60) DEF Database
    <3> HIDE DEF c3
    <3>4. /\ c4 \in Database /\ c4.trie = c3.trie /\ c4.objects = objects /\ c4.dirty = s.dirty
          /\ c4.journal = c3.journal /\ c4.revisions = c3.revisions
      BY <2>0, <3>3, ZenonT(60) DEF Database
    <3> HIDE DEF c4
    <3> QED BY <2>3, <2>6, <3>1, <3>2, <3>3, <3>4
  <2>8. Sound(t)
    BY <2>4, <2>5, <2>7, <1>Fresh
  <2> QED BY <2>8 DEF t
<1> QED BY <1>NewSound, <1>Finalised, <1>Committed, <1>Copied

\* A new database.
LEMMA NewSound ==
  ASSUME NEW trie \in [Address -> AccountData \cup {None}], NEW codes \in SUBSET Code
  PROVE  Sound(New(trie, codes)) /\ New(trie, codes).revisions = <<>>
BY WrittenBack, ZenonT(60)

\* Finalise.
LEMMA Finalised ==
  ASSUME NEW s, Sound(s)
  PROVE  Sound(Finalise(s)) /\ Finalise(s).revisions = <<>>
BY WrittenBack, ZenonT(60)

\* What Commit leaves in the trie and among the codes.
LEMMA Committed ==
  ASSUME NEW s \in Database
  PROVE  /\ Commit(s).trie \in [Address -> AccountData \cup {None}]
         /\ Commit(s).codes \in SUBSET Code
BY WrittenBack, ZenonT(60)

\* Copy.
LEMMA Copied ==
  ASSUME NEW s, Sound(s)
  PROVE  Sound(Copy(s))
BY WrittenBack, ZenonT(60)

-----------------------------------------------------------------------------
(* The ids of the revisions that are valid.                                *)

Ids(s) == {s.revisions[i].id : i \in DOMAIN s.revisions}

\* They are below the next one.
LEMMA IdsBelow ==
  ASSUME NEW s, Sound(s)
  PROVE  s.nextRevisionId \in Nat /\ \A id \in Ids(s) : id \in Nat /\ id < s.nextRevisionId
<1>1. s.revisions \in Seq(Revision) /\ s.nextRevisionId \in Nat
  BY Fields DEF Sound
<1>2. \A i \in DOMAIN s.revisions : s.revisions[i].id \in Nat
  <2>1. \A i \in DOMAIN s.revisions : s.revisions[i] \in Revision
    BY <1>1
  <2> QED BY <2>1 DEF Revision
<1> QED BY <1>1, <1>2 DEF Sound, Nested, Ids

\* Setters keep them.
LEMMA GrowIds ==
  ASSUME NEW s, NEW t, Grows(s, t)
  PROVE  Ids(t) = Ids(s) /\ t.nextRevisionId = s.nextRevisionId /\ Sound(t)
BY DEF Grows, Kept, Ids

\* A snapshot adds one.
LEMMA SnapIds ==
  \A s : Sound(s) =>
    LET t == Snapshot(s)
    IN /\ Sound(t) /\ Ids(t) = Ids(s) \cup {s.nextRevisionId}
       /\ t.nextRevisionId = s.nextRevisionId + 1
\* A snapshot is a revision with what can be seen.
<1>Snapped.
  ASSUME NEW s, Sound(s)
  PROVE  LET t == Snapshot(s)
             r == [id |-> s.nextRevisionId, journalIndex |-> Len(s.journal), view |-> View(s)]
         IN /\ Sound(t) /\ t.revisions = Append(s.revisions, r)
            /\ t.nextRevisionId = s.nextRevisionId + 1
            /\ \A a \in Address : getStateObject(t, a) = getStateObject(s, a)
  <2> USE <1>Snapped
  <2> DEFINE r == [id |-> s.nextRevisionId, journalIndex |-> Len(s.journal), view |-> View(s)]
             q == Append(s.revisions, r)
             n == s.nextRevisionId + 1
             u == [s EXCEPT !.nextRevisionId = n]
             t == [u EXCEPT !.revisions = q]
  <2>0. /\ s \in Database /\ Consistent(s) /\ Nested(s) /\ s.nextRevisionId \in Nat /\ n \in Nat
        /\ s.revisions \in Seq(Revision) /\ s.journal \in Seq(Entry)
    BY Fields DEF Sound
  <2>1. PICK h : History(s, h)
    BY DEF Sound
  <2>2. Snapshot(s) = t
    BY <2>0 DEF Snapshot, Database
  <2>3. r \in Revision /\ r.id = s.nextRevisionId /\ r.journalIndex = Len(s.journal) /\ r.view = View(s)
    BY <2>0, Sights DEF Revision
  <2> HIDE DEF r
  <2>4. /\ q \in Seq(Revision) /\ Len(q) = Len(s.revisions) + 1 /\ q[Len(s.revisions) + 1] = r
        /\ DOMAIN q = 1..(Len(s.revisions) + 1) /\ DOMAIN s.revisions = 1..Len(s.revisions)
        /\ \A i \in 1..Len(s.revisions) : q[i] = s.revisions[i]
    BY <2>0, <2>3
  <2> HIDE DEF q
  <2>5. /\ u \in Database /\ u.nextRevisionId = n /\ u.revisions = s.revisions /\ u.trie = s.trie
        /\ u.objects = s.objects /\ u.dirty = s.dirty /\ u.journal = s.journal
        /\ u.refund = s.refund /\ u.logs = s.logs
    BY <2>0, ZenonT(60) DEF Database
  <2> HIDE DEF u
  <2>6. /\ t \in Database /\ t.nextRevisionId = n /\ t.revisions = q /\ t.trie = u.trie
        /\ t.objects = u.objects /\ t.dirty = u.dirty /\ t.journal = u.journal
        /\ t.refund = u.refund /\ t.logs = u.logs
    BY <2>4, <2>5, ZenonT(60) DEF Database
  <2> HIDE DEF t
  <2>7. Consistent(t) /\ \A a \in Address : getStateObject(t, a) = getStateObject(s, a)
    BY <2>0, <2>5, <2>6 DEF Consistent, getStateObject
  <2>8. View(t) = View(s)
    BY <2>0, <2>5, <2>6, <2>7, SameSight, ZenonT(60)
  <2>9. ASSUME NEW i \in DOMAIN q
        PROVE  \/ i \in DOMAIN s.revisions /\ q[i] = s.revisions[i]
               \/ i = Len(s.revisions) + 1 /\ q[i] = r
    BY <2>0, <2>4
  <2>10. History(t, h)
    <3>1. \A i \in DOMAIN q : h[q[i].journalIndex] = q[i].view
      BY <2>1, <2>3, <2>9, ZenonT(60) DEF History
    <3>2. /\ h[Len(t.journal)] = View(t)
          /\ \A i \in 1..Len(t.journal) :
               Applies(h[i], t.journal[i]) /\ h[i - 1] = Undone(h[i], t.journal[i])
      <4>1. t.journal = s.journal
        BY <2>5, <2>6, Zenon
      <4>2. /\ h[Len(s.journal)] = View(s)
            /\ \A i \in 1..Len(s.journal) :
                 Applies(h[i], s.journal[i]) /\ h[i - 1] = Undone(h[i], s.journal[i])
        BY <2>1, Zenon DEF History
      <4> QED BY <2>8, <4>1, <4>2, Zenon
    <3> QED BY <2>6, <3>1, <3>2, ZenonT(60) DEF History
  <2>11. Nested(t)
    <3>1. ASSUME NEW i \in DOMAIN q
          PROVE  q[i].journalIndex <= Len(t.journal) /\ q[i].id < t.nextRevisionId
      <4>1. Len(s.journal) \in Nat /\ t.journal = s.journal /\ t.nextRevisionId = s.nextRevisionId + 1
        BY <2>0, <2>5, <2>6
      <4>2. CASE i \in DOMAIN s.revisions /\ q[i] = s.revisions[i]
        <5>1. s.revisions[i].journalIndex <= Len(s.journal) /\ s.revisions[i].id < s.nextRevisionId
          BY <2>0, <4>2, Zenon DEF Nested
        <5>2. s.revisions[i] \in Revision
          <6>1. s.revisions \in Seq(Revision) /\ i \in DOMAIN s.revisions BY <2>0, <4>2, Zenon
          <6> QED BY ONLY <6>1
        <5>3. s.revisions[i].id \in Nat /\ s.nextRevisionId \in Nat
          BY ONLY <2>0, <5>2 DEF Revision
        <5>4. s.revisions[i].id < s.nextRevisionId + 1
          BY ONLY <5>1, <5>3
        <5> QED BY <4>1, <4>2, <5>1, <5>4, Zenon
      <4>3. CASE q[i] = r
        BY <2>0, <2>3, <4>1, <4>3
      <4> QED BY <2>9, <4>2, <4>3
    <3>2. ASSUME NEW i \in DOMAIN q, NEW j \in DOMAIN q, i < j
          PROVE  q[i].id < q[j].id /\ q[i].journalIndex <= q[j].journalIndex
      <4>1. i \in DOMAIN s.revisions /\ q[i] = s.revisions[i]
        BY <2>0, <2>4, <3>2
      <4>2. CASE j \in DOMAIN s.revisions /\ q[j] = s.revisions[j]
        BY <2>0, <3>2, <4>1, <4>2, ZenonT(60) DEF Nested
      <4>3. CASE q[j] = r
        BY <2>0, <2>3, <4>1, <4>3, ZenonT(60) DEF Nested
      <4> QED BY <2>9, <4>2, <4>3, ZenonT(60)
    <3> QED BY <2>6, <3>1, <3>2, ZenonT(60) DEF Nested
  <2>12. Sound(t)
    BY <2>6, <2>7, <2>10, <2>11, ZenonT(60) DEF Sound
  <2> QED BY <2>2, <2>6, <2>7, <2>12 DEF q, r
<1> SUFFICES ASSUME NEW s, Sound(s)
             PROVE  LET t == Snapshot(s)
                    IN /\ Sound(t) /\ Ids(t) = Ids(s) \cup {s.nextRevisionId}
                       /\ t.nextRevisionId = s.nextRevisionId + 1
  OBVIOUS
<1> DEFINE t == Snapshot(s)
           r == [id |-> s.nextRevisionId, journalIndex |-> Len(s.journal), view |-> View(s)]
<1>1. Sound(t) /\ t.revisions = Append(s.revisions, r) /\ t.nextRevisionId = s.nextRevisionId + 1
  BY <1>Snapped
<1>2. s.revisions \in Seq(Revision) /\ r.id = s.nextRevisionId
  BY Fields DEF Sound
<1> HIDE DEF t, r
<1> DEFINE q == s.revisions
           n == Len(q)
<1>3. q \in Seq(Revision) /\ t.revisions = Append(q, r)
  BY <1>1, <1>2
<1> HIDE DEF q
<1>4. /\ DOMAIN Append(q, r) = 1..(n + 1) /\ DOMAIN q = 1..n /\ n \in Nat
      /\ Append(q, r)[n + 1] = r /\ \A i \in 1..n : Append(q, r)[i] = q[i]
  BY <1>3
<1> HIDE DEF n
<1>5. Ids(t) = Ids(s) \cup {s.nextRevisionId}
  <2>1. ASSUME NEW x \in Ids(t) PROVE x \in Ids(s) \cup {s.nextRevisionId}
    <3>1. PICK i \in 1..(n + 1) : x = Append(q, r)[i].id
      BY <1>3, <1>4 DEF Ids
    <3>2. CASE i = n + 1
      BY <1>2, <1>4, <3>1, <3>2
    <3>3. CASE i \in 1..n
      BY <1>4, <3>1, <3>3, ZenonT(60) DEF Ids, q
    <3>4. i = n + 1 \/ i \in 1..n
      BY <1>4
    <3> QED BY <3>2, <3>3, <3>4
  <2>2. ASSUME NEW x \in Ids(s) PROVE x \in Ids(t)
    <3>1. PICK i \in 1..n : x = q[i].id
      BY <1>4 DEF Ids, q
    <3>2. i \in 1..(n + 1) /\ x = Append(q, r)[i].id
      BY <1>4, <3>1
    <3> QED BY <1>3, <1>4, <3>2, ZenonT(60) DEF Ids
  <2>3. s.nextRevisionId \in Ids(t)
    <3>1. n + 1 \in 1..(n + 1)
      BY <1>4
    <3>2. Append(q, r)[n + 1].id = s.nextRevisionId
      BY <1>2, <1>4
    <3>3. n + 1 \in DOMAIN t.revisions /\ t.revisions[n + 1].id = s.nextRevisionId
      BY <1>3, <1>4, <3>1, <3>2
    <3> DEFINE m == n + 1
    <3> HIDE DEF m
    <3>4. m \in DOMAIN t.revisions /\ t.revisions[m].id = s.nextRevisionId
      BY <3>3 DEF m
    <3> QED BY <3>4, ZenonT(60) DEF Ids
  <2> QED BY <2>1, <2>2, <2>3
<1> QED BY <1>1, <1>5 DEF t

\* Reverting to one leaves those below it.
LEMMA RevertIds ==
  ASSUME NEW s, Sound(s), NEW id \in Ids(s)
  PROVE  LET t == RevertToSnapshot(s, id)
         IN /\ Sound(t) /\ t.nextRevisionId = s.nextRevisionId
            /\ Ids(t) = {x \in Ids(s) : x < id}
<1> DEFINE q == s.revisions
           t == RevertToSnapshot(s, id)
<1>1. PICK i \in DOMAIN q : id = q[i].id
  BY DEF Ids
<1>2. Sound(t) /\ t.nextRevisionId = s.nextRevisionId /\ t.revisions = SubSeq(q, 1, i - 1)
  BY <1>1, Reverted, ZenonT(60)
<1>3. q \in Seq(Revision) /\ DOMAIN q = 1..Len(q) /\ i \in 1..Len(q)
  BY Fields DEF Sound
<1>4. DOMAIN t.revisions = 1..(i - 1) /\ \A j \in 1..(i - 1) : t.revisions[j] = q[j] /\ j \in DOMAIN q
  <2> HIDE DEF q, t
  <2> QED BY <1>2, <1>3
<1>5. \A j, k \in DOMAIN q : /\ q[j].id \in Nat
                             /\ j < k => q[j].id < q[k].id
  <2>1. \A j \in DOMAIN q : q[j].id \in Nat
    <3>1. \A j \in DOMAIN q : q[j] \in Revision
      BY <1>3
    <3> QED BY <3>1 DEF Revision
  <2> QED BY <2>1 DEF Sound, Nested
<1> HIDE DEF t
<1>6. ASSUME NEW x \in Ids(t) PROVE x \in Ids(s) /\ x < id
  <2>1. PICK j \in 1..(i - 1) : x = q[j].id
    BY <1>4 DEF Ids
  <2>2. j \in DOMAIN q /\ j < i
    BY <1>3, <1>4
  <2> QED BY <1>1, <1>5, <2>1, <2>2, ZenonT(60) DEF Ids
<1>7. ASSUME NEW x \in Ids(s), x < id PROVE x \in Ids(t)
  <2>1. PICK j \in DOMAIN q : x = q[j].id
    BY DEF Ids
  <2>2. j < i
    <3>1. q[j].id \in Nat /\ q[i].id \in Nat /\ q[j].id < q[i].id
      BY <1>1, <1>5, <1>7, <2>1
    <3>2. i < j => q[i].id < q[j].id
      BY <1>1, <1>5, <2>1
    <3> QED BY <1>3, <2>1, <3>1, <3>2
  <2>3. j \in 1..(i - 1)
    BY <1>3, <2>1, <2>2
  <2> QED BY <1>4, <2>1, <2>3, ZenonT(60) DEF Ids
<1>8. Ids(t) = {x \in Ids(s) : x < id}
  BY <1>6, <1>7
<1> QED BY <1>2, <1>8 DEF t

=============================================================================
