------------------------------ MODULE StateDB ------------------------------
(***************************************************************************)
(* core/state: the accounts that transactions work on. A StateDB caches    *)
(* the accounts of a trie as objects, keeps a journal from which changes   *)
(* are undone, and remembers in a set which objects have to be written     *)
(* back. The operations are functions from one database to the next;       *)
(* module EVM calls them.                                                  *)
(*                                                                         *)
(* Reading an account also caches it. A cached object that nobody changed  *)
(* equals the account in the trie, so the model caches when it changes.    *)
(***************************************************************************)
EXTENDS Integers, Sequences

CONSTANTS
  Address,  \* accounts
  Slot,     \* keys of the storage of an account
  Ripemd,   \* the precompiled contract whose touch is never undone
  None      \* no account

\* Code of a contract: what it does is open, so it is there or it is empty.
EmptyCode == ""
Code == {EmptyCode, "code"}

\* The value of a missing entry of a storage trie is zero.
NoStorage == [k \in Slot |-> 0]

\* What the trie has of an account; root stands for the storage trie.
Account(nonce, balance, root, code) ==
  [nonce |-> nonce, balance |-> balance, root |-> root, code |-> code]

\* onDirty is TRUE until the object is entered among the dirty ones. storage is
\* what GetState returns, dirtyStorage has the keys not yet in the storage trie.
newObject(data) ==
  [nonce |-> data.nonce, balance |-> data.balance, root |-> data.root, code |-> data.code,
   storage |-> data.root, dirtyStorage |-> {}, dirtyCode |-> FALSE,
   suicided |-> FALSE, touched |-> FALSE, deleted |-> FALSE, onDirty |-> TRUE]

\* What the fields hold: accounts in the trie, objects, accounts as the getters show
\* them, and all that can be seen.
AccountData == [nonce : Nat, balance : Int, root : [Slot -> Int], code : Code]
Object ==
  [nonce : Nat, balance : Int, root : [Slot -> Int], code : Code, storage : [Slot -> Int],
   dirtyStorage : SUBSET Slot, dirtyCode : BOOLEAN, suicided : BOOLEAN, touched : BOOLEAN,
   deleted : BOOLEAN, onDirty : BOOLEAN]
Shown ==
  [nonce : Nat, balance : Int, code : Code, storage : [Slot -> Int], suicided : BOOLEAN]
Sight == [accounts : [Address -> Shown \cup {None}], refund : Int, logs : Seq(Address)]

ASSUME NoneAssumption == None \notin AccountData /\ None \notin Object /\ None \notin Shown

empty(o) == o.nonce = 0 /\ o.balance = 0 /\ o.code = EmptyCode

\* A database over a trie. codes is what the trie database has of contract code.
New(trie, codes) ==
  [trie |-> trie, codes |-> codes, objects |-> <<>>, dirty |-> {}, refund |-> 0,
   logs |-> <<>>, journal |-> <<>>, revisions |-> <<>>, nextRevisionId |-> 0]

getStateObject(s, a) ==
  IF a \in DOMAIN s.objects
  THEN IF s.objects[a].deleted THEN None ELSE s.objects[a]
  ELSE IF s.trie[a] = None THEN None ELSE newObject(s.trie[a])

Exist(s, a) == getStateObject(s, a) # None

Empty(s, a) == Exist(s, a) => empty(getStateObject(s, a))

Get(s, a, field, none) ==
  LET o == getStateObject(s, a) IN IF o = None THEN none ELSE o[field]

GetBalance(s, a) == Get(s, a, "balance", 0)
GetNonce(s, a) == Get(s, a, "nonce", 0)
GetCode(s, a) == Get(s, a, "code", EmptyCode)
GetState(s, a, k) == Get(s, a, "storage", NoStorage)[k]
HasSuicided(s, a) == Get(s, a, "suicided", FALSE)

-----------------------------------------------------------------------------
(* Setters and their journal.                                              *)

setStateObject(s, a, o) ==
  [s EXCEPT !.objects = [b \in DOMAIN @ \cup {a} |-> IF b = a THEN o ELSE @[b]]]

\* The object as changed, and entered among the dirty ones unless it was before.
Changed(s, a, o) ==
  [setStateObject(s, a, [o EXCEPT !.onDirty = FALSE])
     EXCEPT !.dirty = IF o.onDirty THEN @ \cup {a} ELSE @]

setBalance(s, a, v) == Changed(s, a, [getStateObject(s, a) EXCEPT !.balance = v])
setNonce(s, a, n) == Changed(s, a, [getStateObject(s, a) EXCEPT !.nonce = n])
setCode(s, a, c) == Changed(s, a, [getStateObject(s, a) EXCEPT !.code = c, !.dirtyCode = TRUE])
setState(s, a, k, v) ==
  Changed(s, a, [getStateObject(s, a) EXCEPT !.storage[k] = v, !.dirtyStorage = @ \cup {k}])

Journal(s, entry) == [s EXCEPT !.journal = Append(@, entry)]

\* A new object in the place of prev.
createObject(s, a) ==
  LET prev == getStateObject(s, a)
      entry == IF prev = None THEN [type |-> "createObject", account |-> a]
                              ELSE [type |-> "resetObject", account |-> a, prev |-> prev]
  IN Changed(Journal(s, entry), a, newObject(Account(0, 0, NoStorage, EmptyCode)))

CreateAccount(s, a) ==
  LET new == createObject(s, a)
  IN IF Exist(s, a) THEN setBalance(new, a, GetBalance(s, a)) ELSE new

GetOrNewStateObject(s, a) == IF Exist(s, a) THEN s ELSE createObject(s, a)

SetBalance(s, a, v) ==
  setBalance(Journal(s, [type |-> "balance", account |-> a, prev |-> GetBalance(s, a)]), a, v)

touch(s, a) ==
  LET o == getStateObject(s, a)
      entry == [type |-> "touch", account |-> a, prev |-> o.touched, prevDirty |-> ~o.onDirty]
  IN Changed(Journal(s, entry), a, [o EXCEPT !.touched = TRUE])

AddBalance(s, a, v) ==
  LET t == GetOrNewStateObject(s, a)
  IN IF v # 0 THEN SetBalance(t, a, GetBalance(t, a) + v)
     ELSE IF Empty(t, a) THEN touch(t, a) ELSE t

SubBalance(s, a, v) ==
  LET t == GetOrNewStateObject(s, a)
  IN IF v = 0 THEN t ELSE SetBalance(t, a, GetBalance(t, a) - v)

SetNonce(s, a, n) ==
  LET t == GetOrNewStateObject(s, a)
  IN setNonce(Journal(t, [type |-> "nonce", account |-> a, prev |-> GetNonce(t, a)]), a, n)

SetCode(s, a, c) ==
  LET t == GetOrNewStateObject(s, a)
  IN setCode(Journal(t, [type |-> "code", account |-> a, prev |-> GetCode(t, a)]), a, c)

SetState(s, a, k, v) ==
  LET t == GetOrNewStateObject(s, a)
      entry == [type |-> "storage", account |-> a, key |-> k, prev |-> GetState(t, a, k)]
  IN setState(Journal(t, entry), a, k, v)

\* The mutant leaves the destroyed contract its balance.
SuicideKeeps(s, a) ==
  LET o == getStateObject(s, a)
      entry == [type |-> "suicide", account |-> a, prev |-> o.suicided, prevbalance |-> o.balance]
  IN IF o = None THEN s ELSE Changed(Journal(s, entry), a, [o EXCEPT !.suicided = TRUE])

\* The mutant clears the balance before it is journaled.
SuicideJournalsLate(s, a) ==
  LET o == getStateObject(s, a)
      entry == [type |-> "suicide", account |-> a, prev |-> o.suicided, prevbalance |-> 0]
  IN IF o = None THEN s
     ELSE Changed(Journal(s, entry), a, [o EXCEPT !.suicided = TRUE, !.balance = 0])

Suicide(s, a) ==
  LET o == getStateObject(s, a)
      entry == [type |-> "suicide", account |-> a, prev |-> o.suicided, prevbalance |-> o.balance]
  IN IF o = None THEN s
     ELSE Changed(Journal(s, entry), a, [o EXCEPT !.suicided = TRUE, !.balance = 0])

AddRefund(s, gas) ==
  [Journal(s, [type |-> "refund", prev |-> s.refund]) EXCEPT !.refund = @ + gas]

\* A log has its index in the block, which is the number of logs before it.
AddLog(s, a) ==
  [Journal(s, [type |-> "addLog"]) EXCEPT !.logs = Append(@, a)]

\* What undo does with an entry of the journal.
undo(s, e) ==
  CASE e.type = "createObject" ->
         [s EXCEPT !.objects = [a \in DOMAIN @ \ {e.account} |-> @[a]], !.dirty = @ \ {e.account}]
    [] e.type = "resetObject" -> setStateObject(s, e.account, e.prev)
    [] e.type = "suicide" ->
         IF Exist(s, e.account)
         THEN Changed(s, e.account, [getStateObject(s, e.account) EXCEPT
                                       !.suicided = e.prev, !.balance = e.prevbalance])
         ELSE s
    [] e.type = "touch" ->
         IF e.prev \/ e.account = Ripemd THEN s
         ELSE [setStateObject(s, e.account, [getStateObject(s, e.account) EXCEPT !.touched = FALSE])
                 EXCEPT !.dirty = IF e.prevDirty THEN @ ELSE @ \ {e.account}]
    [] e.type = "balance" -> setBalance(s, e.account, e.prev)
    [] e.type = "nonce" -> setNonce(s, e.account, e.prev)
    [] e.type = "code" -> setCode(s, e.account, e.prev)
    [] e.type = "storage" -> setState(s, e.account, e.key, e.prev)
    [] e.type = "refund" -> [s EXCEPT !.refund = e.prev]
    [] e.type = "addLog" -> [s EXCEPT !.logs = SubSeq(@, 1, Len(@) - 1)]

-----------------------------------------------------------------------------
(* What callers can see of a database.                                     *)

\* An account as the getters show it.
Visible(s, a) ==
  LET o == getStateObject(s, a)
  IN IF o = None THEN None
     ELSE [nonce |-> o.nonce, balance |-> o.balance, code |-> o.code,
           storage |-> o.storage, suicided |-> o.suicided]

View(s) ==
  [accounts |-> [a \in Address |-> Visible(s, a)], refund |-> s.refund, logs |-> s.logs]

-----------------------------------------------------------------------------
(* Snapshots, and writing back.                                            *)

\* The revision also has, for the properties, what could be seen at this moment.
Snapshot(s) ==
  [s EXCEPT !.nextRevisionId = @ + 1,
            !.revisions = Append(@, [id |-> s.nextRevisionId, journalIndex |-> Len(s.journal),
                                     view |-> View(s)])]

\* The last entries of the journal are undone, in reverse order.
UndoLast(s, count) ==
  LET undone[n \in 0..count] ==
        IF n = 0 THEN s ELSE undo(undone[n - 1], s.journal[Len(s.journal) - n + 1])
  IN undone[count]

\* The callers revert to revisions that they have taken and not reverted since.
RevertToSnapshot(s, id) ==
  LET idx == CHOOSE i \in DOMAIN s.revisions : s.revisions[i].id = id
      snapshot == s.revisions[idx].journalIndex
  IN [UndoLast(s, Len(s.journal) - snapshot) EXCEPT
        !.journal = SubSeq(@, 1, snapshot), !.revisions = SubSeq(@, 1, idx - 1)]

clearJournalAndRefund(s) == [s EXCEPT !.journal = <<>>, !.revisions = <<>>, !.refund = 0]

\* The storage trie after updateTrie.
updateTrie(o) == [k \in Slot |-> IF k \in o.dirtyStorage THEN o.storage[k] ELSE o.root[k]]

\* The objects in the set are written to the trie, or deleted from it.
WriteBack(s, written, Deleted) ==
  [s EXCEPT
     !.trie = [a \in Address |->
                 IF a \notin written THEN @[a]
                 ELSE LET o == s.objects[a]
                      IN IF a \in Deleted THEN None
                         ELSE Account(o.nonce, o.balance, updateTrie(o), o.code)],
     !.objects = [a \in DOMAIN @ |->
                    IF a \notin written THEN @[a]
                    ELSE IF a \in Deleted THEN [@[a] EXCEPT !.deleted = TRUE]
                    ELSE [@[a] EXCEPT !.root = updateTrie(s.objects[a]), !.dirtyStorage = {}]]]

\* The mutant also clears the set of dirty objects.
FinaliseForgets(s) ==
  [clearJournalAndRefund(
     WriteBack(s, s.dirty, {a \in s.dirty : s.objects[a].suicided \/ empty(s.objects[a])}))
   EXCEPT !.dirty = {}]

\* Finalise(true), after each transaction. The objects stay dirty.
Finalise(s) ==
  clearJournalAndRefund(
    WriteBack(s, s.dirty, {a \in s.dirty : s.objects[a].suicided \/ empty(s.objects[a])}))

\* Commit(true), which also writes new code, and after which no object is dirty.
Commit(s) ==
  LET live == DOMAIN s.objects
      Deleted == {a \in live : s.objects[a].suicided \/ (a \in s.dirty /\ empty(s.objects[a]))}
      written == (s.dirty \cap live) \ Deleted
      newCode == {a \in written : s.objects[a].dirtyCode}
      t == clearJournalAndRefund(WriteBack(s, written \cup Deleted, Deleted))
  IN [t EXCEPT !.codes = @ \cup {s.objects[a].code : a \in newCode},
               !.objects = [a \in live |-> [@[a] EXCEPT !.dirtyCode = @ /\ a \notin newCode]],
               !.dirty = @ \ live]

\* The copy has the dirty objects only, and reads the others from its trie.
deepCopy(o) == [o EXCEPT !.storage = updateTrie(o), !.touched = FALSE, !.onDirty = TRUE]

Copy(s) ==
  [New(s.trie, s.codes) EXCEPT
     !.objects = [a \in s.dirty |-> deepCopy(s.objects[a])],
     !.dirty = s.dirty, !.refund = s.refund, !.logs = s.logs]

=============================================================================
