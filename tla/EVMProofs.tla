----------------------------- MODULE EVMProofs ------------------------------
(***************************************************************************)
(* Whatever contracts do, reverting is exact.                              *)
(***************************************************************************)
EXTENDS EVM, StateDBProofs

\* Time for the steps that take the solver longer.
USE SMTT(60)

\* Contracts are created at addresses.
Creates == \A a \in Address, n \in Nat : CreateAddress(a, n) \in Address

-----------------------------------------------------------------------------
(* Calls.                                                                  *)

\* What is known of the result r of a call that began with the database s.
Result(s, r) ==
  /\ Sound(r.db) /\ r.gas \in Int /\ Ids(s) \subseteq Ids(r.db)
  /\ r.frame # None =>
       r.frame \in Frame /\ r.frame.id \in Ids(r.db) /\ s.nextRevisionId <= r.frame.id

\* A call with nothing to run.
LEMMA Overs ==
  ASSUME NEW s, NEW t, Sound(t), Ids(s) \subseteq Ids(t), NEW gas \in Int, NEW err
  PROVE  Result(s, Over(t, gas, err))
BY DEF Result, Over

\* Transfer.
LEMMA Transferred ==
  ASSUME NEW s, Sound(s), NEW a \in Address, NEW b \in Address, NEW v \in Int
  PROVE  Grows(s, Transfer(s, a, b, v))
<1> DEFINE t == SubBalance(s, a, v)
<1>1. Grows(s, t) /\ Sound(t)
  BY BalanceTaken DEF Grows
<1>2. Transfer(s, a, b, v) = AddBalance(t, b, v)
  BY DEF Transfer
<1> HIDE DEF t
<1>3. Grows(t, AddBalance(t, b, v))
  BY <1>1, BalanceAdded
<1> QED BY <1>1, <1>2, <1>3, GrowsOn

\* t is s with a snapshot, and changes since.
Within(s, t) ==
  /\ Sound(t) /\ Ids(t) = Ids(s) \cup {s.nextRevisionId}
  /\ t.nextRevisionId = s.nextRevisionId + 1

\* Changes keep it so.
LEMMA StaysWithin ==
  ASSUME NEW s, NEW t, NEW u, Within(s, t), Grows(t, u)
  PROVE  Within(s, u)
<1>1. Ids(u) = Ids(t) /\ u.nextRevisionId = t.nextRevisionId /\ Sound(u)
  BY GrowIds
<1> QED BY <1>1 DEF Within

\* run.
LEMMA Ran ==
  ASSUME NEW s, Sound(s), NEW t, Within(s, t), NEW kind \in {"call", "callcode", "delegate", "static", "create"},
         NEW self \in Address, NEW at, NEW code, NEW gas \in Int, NEW fails
  PROVE  Result(s, run(t, kind, self, at, code, gas, fails))
<1> DEFINE id == t.nextRevisionId - 1
           rest == kind = "static" /\ ~readOnly
           f == [kind |-> kind, self |-> self, gas |-> gas, id |-> id, restores |-> rest]
           r == run(t, kind, self, at, code, gas, fails)
<1>1. id = s.nextRevisionId /\ s.nextRevisionId \in Nat /\ id \in Ids(t) /\ Ids(s) \subseteq Ids(t)
  BY IdsBelow DEF Within
<1>2. Sound(t)
  BY DEF Within
<1>3. PrecompileGas \in Int
  BY ParamsAssumption
<1>4. CASE at \in Precompiles /\ (gas < PrecompileGas \/ fails)
  <2> DEFINE u == RevertToSnapshot(t, id)
  <2>1. r = Over(u, 0, "fault")
    BY <1>4 DEF run, Failed
  <2>2. Sound(u) /\ Ids(u) = {x \in Ids(t) : x < id}
    BY <1>1, <1>2, RevertIds
  <2>3. Ids(s) \subseteq Ids(u)
    BY <1>1, <2>2, IdsBelow
  <2> HIDE DEF u, r, id
  <2> QED BY <2>1, <2>2, <2>3, Overs DEF r
<1>5. CASE at \in Precompiles /\ ~(gas < PrecompileGas \/ fails)
  <2>1. r = Over(t, gas - PrecompileGas, "none") /\ gas - PrecompileGas \in Int
    BY <1>3, <1>5 DEF run
  <2> HIDE DEF r
  <2> QED BY <1>1, <1>2, <2>1, Overs DEF r
<1>6. CASE at \notin Precompiles /\ code = EmptyCode
  <2>1. r = Over(t, gas, "none")
    BY <1>6 DEF run
  <2> HIDE DEF r
  <2> QED BY <1>1, <1>2, <2>1, Overs DEF r
<1>7. CASE at \notin Precompiles /\ code # EmptyCode
  <2>1. r = [Over(t, gas, "none") EXCEPT !.frame = f]
    BY <1>7 DEF run
  <2>2. rest \in BOOLEAN
    OBVIOUS
  <2> HIDE DEF rest
  <2>3. f \in Frame /\ f.id = id
    BY <1>1, <2>2 DEF Frame
  <2> HIDE DEF f, r, id
  <2>4. r.db = t /\ r.gas = gas /\ r.frame = f
    BY <2>1 DEF Over
  <2>5. s.nextRevisionId <= id
    BY <1>1
  <2> QED BY <1>1, <1>2, <2>3, <2>4, <2>5 DEF Result, r
<1> QED BY <1>4, <1>5, <1>6, <1>7

\* Call.
LEMMA Called ==
  ASSUME NEW s, Sound(s), NEW caller \in Address, NEW a \in Address, NEW gas \in Int, NEW v \in Int, NEW fails
  PROVE  Result(s, Call(s, caller, a, gas, v, fails))
<1> DEFINE snapped == Snapshot(s)
           there == IF Exist(s, a) THEN snapped ELSE CreateAccount(snapped, a)
           moved == Transfer(there, caller, a, v)
           ran == run(moved, "call", a, a, GetCode(moved, a), gas, fails)
           r == Call(s, caller, a, gas, v, fails)
<1>1. Within(s, snapped) /\ Sound(snapped) /\ Ids(s) \subseteq Ids(snapped)
  BY SnapIds DEF Within
<1>2. Within(s, there) /\ Sound(there)
  <2> HIDE DEF snapped
  <2>1. Grows(snapped, CreateAccount(snapped, a))
    BY <1>1, AccountCreated
  <2>2. Within(s, CreateAccount(snapped, a))
    BY <1>1, <2>1, StaysWithin
  <2> QED BY <1>1, <2>2 DEF Within
<1>3. r = IF Len(frames) > CallCreateDepth THEN Over(s, gas, "depth")
          ELSE IF ~CanTransfer(s, caller, v) THEN Over(s, gas, "balance")
          ELSE IF ~Exist(s, a) /\ a \notin Precompiles /\ v = 0 THEN Over(snapped, gas, "none")
          ELSE ran
  BY DEF Call
<1> HIDE DEF there, snapped, r
<1>4. Within(s, moved)
  BY <1>2, StaysWithin, Transferred
<1> HIDE DEF moved
<1>5. Result(s, ran)
  BY <1>4, Ran
<1> HIDE DEF ran
<1>6. Result(s, Over(s, gas, "depth")) /\ Result(s, Over(s, gas, "balance")) /\ Result(s, Over(snapped, gas, "none"))
  BY <1>1, Overs
<1> QED BY <1>3, <1>5, <1>6 DEF r

\* CallCode, DelegateCall and StaticCall.
LEMMA OthersCalled ==
  ASSUME NEW s, Sound(s), NEW caller \in Address, NEW a \in Address, NEW gas \in Int, NEW v \in Int, NEW fails
  PROVE  /\ Result(s, CallCode(s, caller, a, gas, v, fails))
         /\ Result(s, DelegateCall(s, caller, a, gas, fails))
         /\ Result(s, StaticCall(s, a, gas, fails))
<1>1. Within(s, Snapshot(s))
  BY SnapIds DEF Within
<1>2. Result(s, Over(s, gas, "depth")) /\ Result(s, Over(s, gas, "balance"))
  BY Overs
<1>3. /\ Result(s, run(Snapshot(s), "callcode", caller, a, GetCode(s, a), gas, fails))
      /\ Result(s, run(Snapshot(s), "delegate", caller, a, GetCode(s, a), gas, fails))
      /\ Result(s, run(Snapshot(s), "static", a, a, GetCode(s, a), gas, fails))
  BY <1>1, Ran
<1> QED BY <1>2, <1>3 DEF CallCode, DelegateCall, StaticCall

\* Create.
LEMMA Created ==
  ASSUME Creates, NEW s, Sound(s), NEW caller \in Address, NEW code, NEW gas \in Int, NEW v \in Int
  PROVE  Result(s, Create(s, caller, code, gas, v))
<1> DEFINE nonce == GetNonce(s, caller)
           counted == SetNonce(s, caller, nonce + 1)
           a == CreateAddress(caller, nonce)
           snapped == Snapshot(counted)
           born == CreateAccount(snapped, a)
           fresh == SetNonce(born, a, 1)
           moved == Transfer(fresh, caller, a, v)
           ran == run(moved, "create", a, a, code, gas, FALSE)
           coded == [ran EXCEPT !.db = SetCode(@, a, EmptyCode)]
           r == Create(s, caller, code, gas, v)
<1>1. nonce \in Nat /\ nonce + 1 \in Nat /\ a \in Address
  <2>1. nonce \in Nat
    BY Getters DEF Sound
  <2> QED BY <2>1 DEF Creates
<1>2. r = IF Len(frames) > CallCreateDepth THEN Over(s, gas, "depth")
          ELSE IF ~CanTransfer(s, caller, v) THEN Over(s, gas, "balance")
          ELSE IF GetNonce(counted, a) # 0 \/ GetCode(counted, a) # EmptyCode
          THEN Over(counted, 0, "collision")
          ELSE IF ran.frame = None THEN coded ELSE ran
  BY DEF Create
<1> HIDE DEF nonce, a, r
<1>3. Grows(s, counted) /\ Sound(counted) /\ Ids(counted) = Ids(s)
      /\ counted.nextRevisionId = s.nextRevisionId
  BY <1>1, NonceGrows, GrowIds
<1> HIDE DEF counted
<1>4. Within(s, snapped) /\ Sound(snapped)
  BY <1>3, SnapIds DEF Within
<1> HIDE DEF snapped
<1>5. Within(s, born) /\ Sound(born)
  BY <1>1, <1>4, AccountCreated, StaysWithin DEF Within
<1> HIDE DEF born
<1>6. Within(s, fresh) /\ Sound(fresh)
  <2>1. Grows(born, fresh)
    BY <1>1, <1>5, NonceGrows
  <2> QED BY <1>5, <2>1, StaysWithin DEF Within
<1> HIDE DEF fresh
<1>7. Within(s, moved)
  BY <1>1, <1>6, Transferred, StaysWithin
<1> HIDE DEF moved
<1>8. Result(s, ran)
  BY <1>1, <1>7, Ran, ZenonT(60)
<1>9. ran.frame = None => Result(s, coded)
  <2> SUFFICES ASSUME ran.frame = None PROVE Result(s, coded)
    BY ZenonT(60)
  <2> DEFINE t == SetCode(ran.db, a, EmptyCode)
  <2>1. Sound(t) /\ Ids(t) = Ids(ran.db)
    <3>1. EmptyCode \in Code
      BY DEF Code
    <3> QED BY <1>1, <1>8, <3>1, CodeGrows, GrowIds, ZenonT(60) DEF Result
  <2>2. coded = [ran EXCEPT !.db = t]
    BY DEF Result
  <2>3. coded.gas = ran.gas /\ coded.frame = ran.frame /\ coded.db = t
    <3>1. \E d, g, e : ran = [db |-> d, frame |-> None, gas |-> g, err |-> e]
      BY ZenonT(60) DEF run, Over, Failed
    <3> HIDE DEF ran, t
    <3> QED BY <2>2, <3>1
  <2> HIDE DEF t, coded, ran
  <2> QED BY <1>8, <2>1, <2>3 DEF Result
<1> HIDE DEF ran, coded
<1>10. /\ Result(s, Over(s, gas, "depth")) /\ Result(s, Over(s, gas, "balance"))
       /\ Result(s, Over(counted, 0, "collision"))
  BY <1>3, Overs
<1> QED BY <1>2, <1>8, <1>9, <1>10 DEF r

\* A contract that ends.
LEMMA Halts ==
  ASSUME NEW s, Sound(s), NEW f \in Frame, f.id \in Ids(s), NEW err, NEW code \in Code
  PROVE  LET r == Halted(s, f, err, code)
         IN Sound(r.db) /\ r.gas \in Int /\ {x \in Ids(s) : x < f.id} \subseteq Ids(r.db)
<1> DEFINE dataGas == IF code = EmptyCode THEN 0 ELSE CreateDataGas
           r == Halted(s, f, err, code)
           t == RevertToSnapshot(s, f.id)
           u == SetCode(s, f.self, code)
<1>1. dataGas \in Int /\ f.gas \in Int /\ f.gas - dataGas \in Int /\ f.self \in Address
  BY ParamsAssumption DEF Frame
<1>2. r = IF err # "none" THEN Over(t, IF err = "reverted" THEN f.gas ELSE 0, err)
          ELSE IF f.kind # "create" THEN Over(s, f.gas, "none")
          ELSE IF f.gas < dataGas THEN Over(t, 0, "codeStore")
          ELSE Over(u, f.gas - dataGas, "none")
  BY DEF Halted, Failed
<1>3. Sound(t) /\ Ids(t) = {x \in Ids(s) : x < f.id}
  BY RevertIds
<1>4. Sound(u) /\ Ids(u) = Ids(s)
  BY <1>1, CodeGrows, GrowIds
<1> HIDE DEF r, t, u, dataGas
<1>5. r.db \in {s, t, u} /\ r.gas \in Int
  BY <1>1, <1>2 DEF Over
<1> QED BY <1>3, <1>4, <1>5 DEF r

-----------------------------------------------------------------------------
(* The invariant.                                                          *)

\* The databases are sound; the running contracts have snapshots that are valid, the
\* inner ones later ones.
Running ==
  /\ Sound(db) /\ Sound(parent)
  /\ frames \in Seq(Frame)
  /\ \A i \in DOMAIN frames : frames[i].id \in Ids(db)
  /\ \A i, j \in DOMAIN frames : i < j => frames[i].id < frames[j].id
  /\ frames # <<>> => st \in StateTransition

\* It holds between transactions whenever the databases are sound.
LEMMA Idle ==
  ASSUME Sound(db'), Sound(parent'), frames' = <<>>
  PROVE  Running'
<1>1. DOMAIN frames' = {} /\ frames' \in Seq(Frame)
  OBVIOUS
<1> QED BY <1>1 DEF Running

\* Initially.
LEMMA InitRunning == Init => Running
<1> SUFFICES ASSUME Init PROVE Running
  OBVIOUS
<1> DEFINE codes == {Genesis[a].code : a \in {b \in Address : Genesis[b] # None}}
<1>1. codes \in SUBSET Code
  <2>1. \A a \in Address : Genesis[a] # None => Genesis[a] \in AccountData
    BY ParamsAssumption
  <2> QED BY <2>1 DEF AccountData
<1>2. db = New(Genesis, codes) /\ parent = db /\ frames = <<>>
  BY DEF Init
<1> HIDE DEF codes
<1>3. Sound(db)
  BY <1>1, <1>2, NewSound, ParamsAssumption, ZenonT(60)
<1>4. DOMAIN frames = {} /\ frames \in Seq(Frame)
  BY <1>2
<1> QED BY <1>2, <1>3, <1>4 DEF Running

\* The end of a transaction.
LEMMA AppliedRuns ==
  ASSUME Sound(parent), NEW s, Sound(s), NEW m \in Message, NEW before, NEW pool, NEW r, r.gas \in Int,
         Applied(s, m, before, pool, r), UNCHANGED parent
  PROVE  Running'
<1> DEFINE refund == (m.gas - r.gas) \div 2
           gas == r.gas + IF refund > s.refund THEN s.refund ELSE refund
           back == AddBalance(s, m.from, gas * m.gasPrice)
           paid == AddBalance(back, Coinbase, (m.gas - gas) * m.gasPrice)
<1>1. m.from \in Address /\ m.gas \in Int /\ m.gasPrice \in Int /\ Coinbase \in Address
  BY MessageAssumption, ParamsAssumption
<1>2. gas \in Int
  <2>1. refund \in Int /\ s.refund \in Int
    BY <1>1, Fields DEF Sound
  <2> QED BY <2>1
<1>3. db' = Finalise(paid) /\ frames' = <<>>
  BY DEF Applied
<1> HIDE DEF gas, refund
<1>4. gas * m.gasPrice \in Int /\ (m.gas - gas) * m.gasPrice \in Int
  BY <1>1, <1>2
<1>5. Sound(back)
  BY <1>1, <1>4, BalanceAdded DEF Grows
<1> HIDE DEF back
<1>6. Sound(paid)
  BY <1>1, <1>4, <1>5, BalanceAdded DEF Grows
<1> HIDE DEF paid
<1>7. Sound(db')
  BY <1>3, <1>6, Finalised
<1>8. Sound(parent')
  OBVIOUS
<1> QED BY <1>3, <1>7, <1>8, Idle

\* A refused transaction. Its snapshot is the one that the worker took.
LEMMA RefusedRuns ==
  ASSUME Running, frames = <<>>, NEW s, NEW snap, NEW pool, mining => Sound(s) /\ snap \in Ids(s),
         Refused(s, snap, pool), UNCHANGED parent
  PROVE  Running'
<1>1. CASE mining
  <2>1. db' = RevertToSnapshot(s, snap) /\ frames' = frames
    BY <1>1 DEF Refused
  <2>2. Sound(db')
    BY <1>1, <2>1, RevertIds
  <2>3. Sound(parent')
    BY DEF Running
  <2> QED BY <2>1, <2>2, <2>3, Idle
<1>2. CASE ~mining
  <2>1. db' = parent /\ frames' = frames
    BY <1>2 DEF Refused
  <2>2. Sound(parent') /\ Sound(db')
    BY <2>1 DEF Running
  <2> QED BY <2>1, <2>2, Idle
<1> QED BY <1>1, <1>2

\* Between transactions no contract runs.
LEMMA NothingRuns ==
  ASSUME Running, st = None
  PROVE  frames = <<>>
BY MessageAssumption DEF Running

\* ApplyTransaction.
LEMMA TransactionRuns ==
  ASSUME Creates, Running, NEW m \in Message, NEW fails \in BOOLEAN, ApplyTransaction(m, fails)
  PROVE  Running'
<1> DEFINE snapped == IF mining THEN Snapshot(db) ELSE db
           mgval == m.gas * m.gasPrice
           bought == SubBalance(snapped, m.from, mgval)
           counted == SetNonce(bought, m.from, GetNonce(bought, m.from) + 1)
           gas == m.gas - IntrinsicGas(m)
           code == IF m.data = 0 THEN EmptyCode ELSE "code"
           r == IF m.to = None THEN Create(bought, m.from, code, gas, m.value)
                ELSE Call(counted, m.from, m.to, gas, m.value, fails)
           id == db.nextRevisionId
<1>0. /\ frames = <<>> /\ UNCHANGED parent
      /\ IF \/ GetNonce(db, m.from) # m.nonce
            \/ GetBalance(db, m.from) < mgval
            \/ gp < m.gas
         THEN Refused(snapped, id, gp)
         ELSE IF gas < 0 THEN Refused(bought, id, gp - m.gas)
         ELSE IF r.err = "balance" THEN Refused(r.db, id, gp - m.gas)
         ELSE IF r.frame = None THEN Applied(r.db, m, View(db), gp - m.gas, r)
         ELSE /\ db' = r.db /\ frames' = <<r.frame>> /\ st' = [msg |-> m, before |-> View(db)]
  BY NothingRuns, ZenonT(60) DEF ApplyTransaction
<1>1. /\ m.from \in Address /\ m.to \in Address \cup {None} /\ m.gas \in Nat /\ m.gasPrice \in Nat
      /\ m.data \in Nat /\ m.value \in Int /\ mgval \in Int /\ gas \in Int
  <2>1. /\ m.from \in Address /\ m.to \in Address \cup {None} /\ m.gas \in Nat /\ m.gasPrice \in Nat
        /\ m.data \in Nat /\ m.value \in Nat
    BY MessageAssumption
  <2>2. IntrinsicGas(m) \in Int
    BY <2>1, ParamsAssumption DEF IntrinsicGas
  <2> QED BY <2>1, <2>2
<1>2. Sound(snapped) /\ (mining => id \in Ids(snapped))
  BY SnapIds DEF Running
<1> HIDE DEF snapped, mgval, gas, id
<1>3. Sound(bought) /\ (mining => id \in Ids(bought)) /\ GetNonce(bought, m.from) + 1 \in Nat
  <2>1. Grows(snapped, bought) /\ Sound(bought) /\ Ids(bought) = Ids(snapped)
    BY <1>1, <1>2, BalanceTaken, GrowIds
  <2> HIDE DEF bought
  <2>2. GetNonce(bought, m.from) \in Nat
    BY <1>1, <2>1, Getters DEF Sound
  <2> QED BY <1>2, <2>1, <2>2
<1> HIDE DEF bought
<1>4. Sound(counted) /\ (mining => id \in Ids(counted))
  BY <1>1, <1>3, NonceGrows, GrowIds
<1> HIDE DEF counted
<1>5. /\ Sound(r.db) /\ r.gas \in Int /\ (mining => id \in Ids(r.db))
      /\ r.frame # None => r.frame \in Frame /\ r.frame.id \in Ids(r.db)
  <2>1. CASE m.to = None
    <3>1. Result(bought, r)
      BY <1>1, <1>3, <2>1, Created
    <3> HIDE DEF r
    <3> QED BY <1>3, <3>1 DEF Result
  <2>2. CASE m.to # None
    <3>1. Result(counted, r)
      BY <1>1, <1>4, <2>2, Called
    <3> HIDE DEF r
    <3> QED BY <1>4, <3>1 DEF Result
  <2> QED BY <2>1, <2>2, ZenonT(60)
<1> HIDE DEF r
<1>6. ASSUME NEW s, NEW pool, mining => Sound(s) /\ id \in Ids(s), Refused(s, id, pool) PROVE Running'
  BY <1>0, <1>6, RefusedRuns
<1>7. ASSUME Applied(r.db, m, View(db), gp - m.gas, r) PROVE Running'
  BY <1>0, <1>5, <1>7, AppliedRuns, ZenonT(60) DEF Running
<1>8. ASSUME db' = r.db, frames' = <<r.frame>>, st' = [msg |-> m, before |-> View(db)], r.frame # None
      PROVE  Running'
  <2>1. r.frame \in Frame /\ r.frame.id \in Ids(db') /\ Sound(db') /\ Sound(parent')
    BY <1>0, <1>5, <1>8, ZenonT(60) DEF Running
  <2>2. DOMAIN frames' = {1} /\ frames'[1] = r.frame /\ frames' \in Seq(Frame)
    BY <1>8, <2>1
  <2>3. st' \in StateTransition
    BY <1>8, Sights, ZenonT(60) DEF StateTransition, Running, Sound
  <2> QED BY <2>1, <2>2, <2>3 DEF Running
<1> QED BY <1>0, <1>2, <1>3, <1>5, <1>6, <1>7, <1>8

\* The running contract.
LEMMA CallerRuns ==
  ASSUME Running, frames # <<>>
  PROVE  /\ Len(frames) \in Nat \ {0} /\ Len(frames) \in DOMAIN frames /\ Caller \in Frame
         /\ Caller.id \in Ids(db) /\ Caller.self \in Address /\ Caller.gas \in Int
         /\ st.msg \in Message
<1>1. frames \in Seq(Frame) /\ st \in StateTransition
  BY DEF Running
<1>2. Len(frames) \in Nat \ {0} /\ Len(frames) \in DOMAIN frames /\ Caller \in Frame
  BY <1>1 DEF Caller
<1> QED BY <1>1, <1>2 DEF Running, Frame, StateTransition, Caller

\* The frames after a call: those before, and the one that it pushed.
LEMMA PushedFrames ==
  ASSUME Running, frames # <<>>, NEW s, NEW gas \in Int, NEW callee, callee # None => callee \in Frame,
         Continues(s, gas, callee)
  PROVE  LET n == Len(frames)
         IN /\ frames' \in Seq(Frame) /\ \A i \in 1..n : frames'[i].id = frames[i].id
            /\ callee = None => DOMAIN frames' = 1..n
            /\ callee # None => DOMAIN frames' = 1..(n + 1) /\ frames'[n + 1] = callee
<1> DEFINE n == Len(frames)
           resumed == [frames EXCEPT ![n].gas = gas]
<1>1. frames \in Seq(Frame) /\ n \in Nat \ {0} /\ n \in DOMAIN frames /\ DOMAIN frames = 1..n
  BY CallerRuns DEF Running
<1>2. frames' = IF callee = None THEN resumed ELSE Append(resumed, callee)
  BY DEF Continues
<1> HIDE DEF n
<1>3. /\ resumed \in Seq(Frame) /\ Len(resumed) = n /\ DOMAIN resumed = 1..n
      /\ \A i \in 1..n : resumed[i].id = frames[i].id
  <2> DEFINE f == [frames[n] EXCEPT !.gas = gas]
  <2>1. f \in Frame /\ f.id = frames[n].id
    <3>1. frames[n] \in Frame
      BY <1>1
    <3> QED BY <3>1 DEF Frame
  <2>2. resumed = [frames EXCEPT ![n] = f]
    BY <1>1
  <2> HIDE DEF f, resumed
  <2>3. resumed \in Seq(Frame) /\ Len(resumed) = Len(frames) /\ DOMAIN resumed = DOMAIN frames
    BY <1>1, <2>1, <2>2
  <2>4. resumed[n] = f /\ \A i \in 1..n : i # n => resumed[i] = frames[i]
    BY <1>1, <2>2
  <2> QED BY <1>1, <2>1, <2>3, <2>4, ZenonT(60) DEF n
<1> HIDE DEF resumed
<1>4. CASE callee = None
  BY <1>2, <1>3, <1>4 DEF n
<1>5. CASE callee # None
  <2>1. frames' = Append(resumed, callee) /\ callee \in Frame
    BY <1>2, <1>5
  <2>2. /\ frames' \in Seq(Frame) /\ DOMAIN frames' = 1..(n + 1) /\ frames'[n + 1] = callee
        /\ \A i \in 1..n : frames'[i] = resumed[i]
    BY <1>1, <1>3, <2>1
  <2> QED BY <1>3, <1>5, <2>2, ZenonT(60) DEF n
<1> QED BY <1>4, <1>5

\* A contract that goes on.
LEMMA ContinuesRuns ==
  ASSUME Running, frames # <<>>, NEW s, NEW gas \in Int, NEW callee, Sound(s), Ids(db) \subseteq Ids(s),
         callee # None => callee \in Frame /\ callee.id \in Ids(s) /\ db.nextRevisionId <= callee.id,
         Continues(s, gas, callee), UNCHANGED parent
  PROVE  Running'
<1> DEFINE n == Len(frames)
<1>1. n \in Nat \ {0} /\ DOMAIN frames = 1..n
  BY CallerRuns DEF Running
<1>2. db' = s /\ st' = st /\ parent' = parent
  BY DEF Continues
<1>3. /\ frames' \in Seq(Frame) /\ \A i \in 1..n : frames'[i].id = frames[i].id
      /\ callee = None => DOMAIN frames' = 1..n
      /\ callee # None => DOMAIN frames' = 1..(n + 1) /\ frames'[n + 1] = callee
  BY PushedFrames, ZenonT(60)
<1> HIDE DEF n
<1>4. \A i \in 1..n : frames'[i].id = frames[i].id /\ frames'[i].id \in Ids(db)
  BY <1>1, <1>3 DEF Running
<1>5. \A i, j \in 1..n : i < j => frames'[i].id < frames'[j].id
  BY <1>1, <1>4 DEF Running
<1>6. st' \in StateTransition /\ Sound(db') /\ Sound(parent')
  BY <1>2 DEF Running
<1>7. CASE callee = None
  BY <1>2, <1>3, <1>4, <1>5, <1>6, <1>7 DEF Running
<1>8. CASE callee # None
  <2>1. DOMAIN frames' = 1..(n + 1) /\ frames'[n + 1] = callee /\ callee \in Frame
    BY <1>3, <1>8
  <2>2. ASSUME NEW i \in 1..(n + 1) PROVE i \in 1..n \/ i = n + 1
    BY <1>1
  <2>3. \A i \in 1..(n + 1) : frames'[i].id \in Ids(db')
    <3>1. \A i \in 1..n : frames'[i].id \in Ids(db')
      BY <1>2, <1>4
    <3>2. frames'[n + 1].id \in Ids(db')
      BY <1>2, <1>8, <2>1
    <3> QED BY <2>2, <3>1, <3>2
  <2>4. ASSUME NEW i \in 1..(n + 1), NEW j \in 1..(n + 1), i < j PROVE frames'[i].id < frames'[j].id
    <3>1. i \in 1..n
      BY <1>1, <2>4
    <3>2. CASE j \in 1..n
      BY <1>5, <2>4, <3>1, <3>2
    <3>3. CASE j = n + 1
      <4>1. frames'[j] = callee
        BY <2>1, <3>3
      <4>2. /\ frames'[i].id \in Nat /\ frames'[i].id < db.nextRevisionId /\ db.nextRevisionId \in Nat
        BY <1>4, <3>1, IdsBelow DEF Running
      <4>3. callee.id \in Nat /\ db.nextRevisionId <= callee.id
        BY <1>8, <2>1 DEF Frame
      <4> QED BY <4>1, <4>2, <4>3
    <3> QED BY <2>2, <3>2, <3>3
  <2> QED BY <1>3, <1>6, <2>1, <2>3, <2>4 DEF Running
<1> QED BY <1>7, <1>8

\* The frames after the innermost contract, when others wait for it.
LEMMA PoppedFrames ==
  ASSUME Running, frames # <<>>, Len(frames) # 1, NEW r, r.gas \in Int, Ends(r)
  PROVE  LET n == Len(frames)
         IN /\ frames' \in Seq(Frame) /\ DOMAIN frames' = 1..(n - 1)
            /\ \A i \in 1..(n - 1) : frames'[i].id = frames[i].id /\ i \in DOMAIN frames /\ i < n
<1> DEFINE n == Len(frames)
           outer == SubSeq(frames, 1, n - 1)
           g == outer[n - 1].gas + r.gas
           f == [outer EXCEPT ![n - 1].gas = @ + r.gas]
<1>1. frames \in Seq(Frame) /\ n \in Nat \ {0} /\ DOMAIN frames = 1..n /\ n # 1
  BY CallerRuns DEF Running
<1>2. frames' = f
  BY <1>1 DEF Ends
<1> HIDE DEF n
<1>3. n - 1 \in Nat \ {0} /\ n - 1 \in 1..(n - 1) /\ n \in 1..n /\ \A i \in 1..(n - 1) : i \in 1..n /\ i < n
  BY <1>1
<1>4. /\ outer \in Seq(Frame) /\ Len(outer) = n - 1 /\ DOMAIN outer = 1..(n - 1)
      /\ \A i \in 1..(n - 1) : outer[i] = frames[i]
  BY <1>1, <1>3 DEF n
<1> HIDE DEF outer
<1> DEFINE k == n - 1
           h == [outer[k] EXCEPT !.gas = g]
<1>5. k \in 1..k /\ outer[k] \in Frame /\ DOMAIN outer = 1..k
  BY <1>3, <1>4
<1>6. f = [outer EXCEPT ![k] = h]
  BY <1>5
<1>7. h \in Frame /\ h.id = outer[k].id
  <2>1. g \in Int
    BY <1>5 DEF Frame
  <2> HIDE DEF g, k
  <2> QED BY <1>5, <2>1 DEF Frame
<1> HIDE DEF f, h, k
<1>8. f \in Seq(Frame) /\ DOMAIN f = 1..k /\ \A i \in 1..k : f[i].id = outer[i].id
  <2>1. f \in Seq(Frame) /\ DOMAIN f = DOMAIN outer
    BY <1>4, <1>5, <1>6, <1>7
  <2>2. f[k] = h /\ \A i \in 1..k : i # k => f[i] = outer[i]
    BY <1>5, <1>6
  <2> QED BY <1>5, <1>7, <2>1, <2>2
<1> QED BY <1>1, <1>2, <1>3, <1>4, <1>8 DEF k, n

\* A contract that ends.
LEMMA EndsRuns ==
  ASSUME Running, frames # <<>>, NEW r, Sound(r.db), r.gas \in Int,
         {x \in Ids(db) : x < Caller.id} \subseteq Ids(r.db), Ends(r), UNCHANGED parent
  PROVE  Running'
<1> DEFINE n == Len(frames)
<1>1. n \in Nat \ {0} /\ n \in DOMAIN frames /\ st.msg \in Message
  BY CallerRuns
<1>2. CASE n = 1
  <2>1. Applied(r.db, st.msg, st.before, gp, r)
    BY <1>2 DEF Ends
  <2> QED BY <1>1, <2>1, AppliedRuns DEF Running
<1>3. CASE n # 1
  <2>1. db' = r.db /\ st' = st
    BY <1>3 DEF Ends
  <2>2. /\ frames' \in Seq(Frame) /\ DOMAIN frames' = 1..(n - 1)
        /\ \A i \in 1..(n - 1) : frames'[i].id = frames[i].id /\ i \in DOMAIN frames /\ i < n
    BY <1>3, PoppedFrames
  <2> HIDE DEF n
  <2>3. \A i \in 1..(n - 1) : frames'[i].id \in Ids(r.db)
    <3>1. \A i \in 1..(n - 1) : frames'[i].id \in Ids(db) /\ frames'[i].id < frames[n].id
      BY <1>1, <2>2 DEF Running
    <3> QED BY <3>1 DEF Caller, n
  <2>4. \A i, j \in 1..(n - 1) : i < j => frames'[i].id < frames'[j].id
    BY <2>2 DEF Running
  <2>5. Sound(db') /\ Sound(parent') /\ st' \in StateTransition
    BY <2>1 DEF Running
  <2> QED BY <2>1, <2>2, <2>3, <2>4, <2>5 DEF Running
<1> QED BY <1>2, <1>3

-----------------------------------------------------------------------------
(* Steps.                                                                  *)

\* A contract runs.
LEMMA OpcodeRuns ==
  ASSUME Running, Opcode
  PROVE  /\ frames # <<>> /\ UNCHANGED parent /\ Sound(db)
         /\ Caller \in Frame /\ Caller.id \in Ids(db) /\ Caller.self \in Address /\ Caller.gas \in Int
<1>1. frames # <<>> /\ UNCHANGED parent /\ Sound(db)
  BY DEF Opcode, Running
<1> QED BY <1>1, CallerRuns

\* opReturn, opRevert and Fault.
LEMMA HaltRuns ==
  ASSUME Running, Opcode, NEW err, NEW code \in Code, Ends(Halted(db, Caller, err, code))
  PROVE  Running'
<1>1. frames # <<>> /\ UNCHANGED parent /\ Sound(db) /\ Caller \in Frame /\ Caller.id \in Ids(db)
  BY OpcodeRuns
<1> DEFINE r == Halted(db, Caller, err, code)
<1>2. Sound(r.db) /\ r.gas \in Int /\ {x \in Ids(db) : x < Caller.id} \subseteq Ids(r.db)
  BY <1>1, Halts
<1> HIDE DEF r
<1>3. Ends(r)
  BY DEF r
<1> QED BY <1>1, <1>2, <1>3, EndsRuns

\* opSstore.
LEMMA SstoreRuns ==
  ASSUME Running, NEW k \in Slot, NEW v \in 0..1, opSstore(k, v)
  PROVE  Running'
<1>1. Opcode
  BY DEF opSstore
<1>2. frames # <<>> /\ UNCHANGED parent /\ Sound(db) /\ Caller.self \in Address /\ Caller.gas \in Int
  BY <1>1, OpcodeRuns
<1> DEFINE old == GetState(db, Caller.self, k)
           cost == IF old = 0 /\ v # 0 THEN SstoreSetGas
                   ELSE IF old # 0 /\ v = 0 THEN SstoreClearGas ELSE SstoreResetGas
           refunded == IF old # 0 /\ v = 0 THEN AddRefund(db, SstoreRefundGas) ELSE db
           s == SetState(refunded, Caller.self, k, v)
<1>3. Continues(s, Caller.gas - cost, None)
  BY DEF opSstore
<1> HIDE DEF old
<1>4. cost \in Int /\ SstoreRefundGas \in Int /\ v \in Int
  BY ParamsAssumption
<1> HIDE DEF cost
<1>5. Grows(db, refunded)
  BY <1>2, <1>4, RefundGrows DEF Grows, Kept
<1> HIDE DEF refunded
<1>6. Sound(refunded) /\ Ids(refunded) = Ids(db)
  BY <1>5, GrowIds
<1>7. Sound(s) /\ Ids(s) = Ids(db)
  BY <1>2, <1>4, <1>6, StateGrows, GrowIds
<1> HIDE DEF s
<1> QED BY <1>2, <1>3, <1>4, <1>7, ContinuesRuns

\* opLog.
LEMMA LogRuns ==
  ASSUME Running, opLog
  PROVE  Running'
<1>1. Opcode /\ Continues(AddLog(db, Caller.self), Caller.gas - LogGas, None)
  BY DEF opLog
<1>2. frames # <<>> /\ UNCHANGED parent /\ Sound(db) /\ Caller.self \in Address /\ Caller.gas \in Int
  BY <1>1, OpcodeRuns
<1> DEFINE s == AddLog(db, Caller.self)
<1>3. Sound(s) /\ Ids(s) = Ids(db)
  BY <1>2, LogGrows, GrowIds
<1>4. Continues(s, Caller.gas - LogGas, None)
  BY <1>1
<1> HIDE DEF s
<1>5. LogGas \in Int
  BY ParamsAssumption
<1> QED BY <1>2, <1>3, <1>4, <1>5, ContinuesRuns

\* The gas of a call.
LEMMA CallGases ==
  ASSUME NEW available \in Int, NEW base \in Int, NEW request \in Nat
  PROVE  callGas(available, base, request) \in Int
<1> DEFINE left == (available - base) % Word
<1>1. left \in Int
  BY ParamsAssumption
<1>2. left \div Fraction \in Int
  BY <1>1, ParamsAssumption
<1>3. left - left \div Fraction \in Int
  BY <1>1, <1>2
<1> QED BY <1>3 DEF callGas

\* opCall.
LEMMA CallRuns ==
  ASSUME Running, NEW kind \in {"call", "callcode", "delegate", "static"}, NEW a \in Operand, NEW v \in Amount,
         NEW request \in Request, NEW fails \in BOOLEAN, opCall(kind, a, v, request, fails)
  PROVE  Running'
<1>1. Opcode
  BY ZenonT(60) DEF opCall
<1>2. frames # <<>> /\ UNCHANGED parent /\ Sound(db) /\ Caller.self \in Address /\ Caller.gas \in Int
  BY <1>1, OpcodeRuns
<1>3. a \in Address /\ v \in Nat /\ request \in Nat /\ CallStipend \in Int
  BY ParamsAssumption
<1> DEFINE base == CallsGas + (IF kind = "call" /\ v # 0 /\ Empty(db, a) THEN CallNewAccountGas ELSE 0)
                            + (IF v # 0 THEN CallValueTransferGas ELSE 0)
           temp == callGas(Caller.gas, base, request)
           gas == temp + (IF v # 0 THEN CallStipend ELSE 0)
           r == CASE kind = "call" -> Call(db, Caller.self, a, gas, v, fails)
                  [] kind = "callcode" -> CallCode(db, Caller.self, a, gas, v, fails)
                  [] kind = "delegate" -> DelegateCall(db, Caller.self, a, gas, fails)
                  [] kind = "static" -> StaticCall(db, a, gas, fails)
           left == Caller.gas - (base + temp) + (IF r.frame = None THEN r.gas ELSE 0)
<1>4. Continues(r.db, left, r.frame)
  BY ZenonT(60) DEF opCall
<1>5. base \in Int
  BY ParamsAssumption
<1> HIDE DEF base
<1>6. temp \in Int
  BY <1>2, <1>3, <1>5, CallGases, ZenonT(60)
<1> HIDE DEF temp
<1>7. gas \in Int
  BY <1>3, <1>6
<1> HIDE DEF gas
<1>8. Result(db, r)
  <2>1. /\ Result(db, CallCode(db, Caller.self, a, gas, v, fails))
        /\ Result(db, DelegateCall(db, Caller.self, a, gas, fails))
        /\ Result(db, StaticCall(db, a, gas, fails))
    BY <1>2, <1>3, <1>7, OthersCalled
  <2>2. Result(db, Call(db, Caller.self, a, gas, v, fails))
    BY <1>2, <1>3, <1>7, Called
  <2> QED BY <2>1, <2>2
<1> HIDE DEF r
<1>9. /\ Sound(r.db) /\ Ids(db) \subseteq Ids(r.db) /\ r.gas \in Int
      /\ r.frame # None => r.frame \in Frame /\ r.frame.id \in Ids(r.db) /\ db.nextRevisionId <= r.frame.id
  BY <1>8 DEF Result
<1>10. left \in Int
  BY <1>2, <1>5, <1>6, <1>9
<1> HIDE DEF left
<1> QED BY <1>2, <1>4, <1>9, <1>10, ContinuesRuns

\* opCreate.
LEMMA CreateRuns ==
  ASSUME Creates, Running, NEW v \in Amount, opCreate(v)
  PROVE  Running'
<1>1. Opcode
  BY ZenonT(60) DEF opCreate
<1>2. frames # <<>> /\ UNCHANGED parent /\ Sound(db) /\ Caller.self \in Address /\ Caller.gas \in Int
  BY <1>1, OpcodeRuns
<1> DEFINE left == Caller.gas - CreateGas
           gas == left - left \div Fraction
           r == Create(db, Caller.self, "code", gas, v)
           after == left - gas + (IF r.frame = None THEN r.gas ELSE 0)
<1>3. Continues(r.db, after, r.frame)
  BY ZenonT(60) DEF opCreate
<1> HIDE DEF after, r, gas
<1>4. left \in Int /\ v \in Int
  <2>1. CreateGas \in Int /\ v \in Int
    BY ParamsAssumption
  <2> QED BY <1>2, <2>1
<1> HIDE DEF left
<1>5. gas \in Int
  <2>1. left \div Fraction \in Int
    BY <1>4, ParamsAssumption
  <2> QED BY <1>4, <2>1 DEF gas
<1>6. Result(db, r)
  BY <1>2, <1>4, <1>5, Created DEF r
<1>7. /\ Sound(r.db) /\ Ids(db) \subseteq Ids(r.db) /\ r.gas \in Int
      /\ r.frame # None => r.frame \in Frame /\ r.frame.id \in Ids(r.db) /\ db.nextRevisionId <= r.frame.id
  BY <1>6 DEF Result
<1>8. after \in Int
  BY <1>4, <1>5, <1>7 DEF after
<1> DEFINE s == r.db
           callee == r.frame
<1>9. /\ Continues(s, after, callee) /\ Sound(s) /\ Ids(db) \subseteq Ids(s)
      /\ callee # None => callee \in Frame /\ callee.id \in Ids(s) /\ db.nextRevisionId <= callee.id
  BY <1>3, <1>7, Zenon
<1> HIDE DEF s, callee
<1> QED BY <1>2, <1>8, <1>9, ContinuesRuns, Zenon

\* opSuicide.
LEMMA SuicideRuns ==
  ASSUME Running, NEW a \in Operand, opSuicide(a)
  PROVE  Running'
<1>1. Opcode
  BY DEF opSuicide
<1>2. /\ frames # <<>> /\ UNCHANGED parent /\ Sound(db)
      /\ Caller \in Frame /\ Caller.id \in Ids(db) /\ Caller.self \in Address /\ Caller.gas \in Int
  BY <1>1, OpcodeRuns
<1> DEFINE balance == GetBalance(db, Caller.self)
           cost == SuicideGas + (IF Empty(db, a) /\ balance # 0 THEN CreateBySuicideGas ELSE 0)
           refunded == IF HasSuicided(db, Caller.self) THEN db ELSE AddRefund(db, SuicideRefundGas)
           added == AddBalance(refunded, a, balance)
           gone == Suicide(added, Caller.self)
           g == Caller.gas - cost
           f == [Caller EXCEPT !.gas = g]
           r == Halted(gone, f, "none", EmptyCode)
<1>3. Ends(r)
  BY DEF opSuicide
<1> HIDE DEF balance, refunded, added, gone, g, f, r
<1>4. balance \in Int
  BY <1>2, Getters DEF Sound, balance
<1>5. SuicideRefundGas \in Int /\ a \in Address /\ cost \in Int
  BY ParamsAssumption
<1> HIDE DEF cost
<1>6. f \in Frame /\ f.id = Caller.id
  <2> DEFINE c == Caller
  <2> HIDE DEF c
  <2>1. g \in Int
    BY <1>2, <1>5 DEF g
  <2>2. c \in Frame => [c EXCEPT !.gas = g] \in Frame /\ [c EXCEPT !.gas = g].id = c.id
    BY <2>1 DEF Frame
  <2> QED BY <1>2, <2>2 DEF c, f
<1>7. Grows(db, refunded)
  BY <1>2, <1>5, RefundGrows DEF Grows, Kept, refunded
<1>8. Sound(refunded) /\ Ids(refunded) = Ids(db)
  BY <1>7, GrowIds
<1>9. Sound(added) /\ Ids(added) = Ids(db)
  BY <1>4, <1>5, <1>8, BalanceAdded, GrowIds DEF added
<1>10. Sound(gone) /\ Ids(gone) = Ids(db)
  BY <1>2, <1>9, Suicided, GrowIds DEF gone
<1>11. Sound(r.db) /\ r.gas \in Int /\ {x \in Ids(db) : x < Caller.id} \subseteq Ids(r.db)
  <2>1. EmptyCode \in Code
    BY DEF Code
  <2>2. Sound(r.db) /\ r.gas \in Int /\ {x \in Ids(gone) : x < f.id} \subseteq Ids(r.db)
    BY <1>2, <1>6, <1>10, <2>1, Halts DEF r
  <2> QED BY <1>6, <1>10, <2>2
<1> QED BY <1>2, <1>3, <1>11, EndsRuns

\* NextBlock.
LEMMA BlockRuns ==
  ASSUME Running, NextBlock
  PROVE  Running'
<1> DEFINE paid == AddBalance(db, Coinbase, BlockReward)
           final == Finalise(paid)
           s == Commit(final)
<1>1. st = None /\ db' = New(s.trie, s.codes) /\ parent' = db' /\ frames' = frames
  BY DEF NextBlock
<1> HIDE DEF paid, final, s
<1>2. Sound(paid)
  <2>1. Coinbase \in Address /\ BlockReward \in Int /\ Sound(db)
    BY ParamsAssumption DEF Running
  <2> QED BY <2>1, BalanceAdded DEF Grows, paid
<1>3. Sound(final) /\ final \in Database
  BY <1>2, Finalised DEF Sound, final
<1>4. s.trie \in [Address -> AccountData \cup {None}] /\ s.codes \in SUBSET Code
  BY <1>3, Committed DEF s
<1>5. Sound(db')
  BY <1>1, <1>4, NewSound
<1> QED BY <1>1, <1>5, NothingRuns, Idle

\* GoOnWithCopy.
LEMMA CopyRuns ==
  ASSUME Running, GoOnWithCopy
  PROVE  Running'
<1>1. st = None /\ db' = Copy(db) /\ parent' = parent /\ frames' = frames
  BY DEF GoOnWithCopy
<1>2. Sound(db') /\ Sound(parent')
  BY <1>1, Copied DEF Running
<1> QED BY <1>1, <1>2, NothingRuns, Idle

\* Every step keeps the invariant.
LEMMA NextRunning ==
  ASSUME Creates, Running, [Next]_vars
  PROVE  Running'
<1>1. ASSUME NEW m \in Message, NEW fails \in BOOLEAN, ApplyTransaction(m, fails) PROVE Running'
  BY <1>1, TransactionRuns
<1>2. ASSUME NEW code \in Code, opReturn(code) PROVE Running'
  BY <1>2, HaltRuns DEF opReturn
<1>3. CASE opRevert \/ Fault
  <2>1. EmptyCode \in Code
    BY DEF Code
  <2> QED BY <1>3, <2>1, HaltRuns DEF opRevert, Fault
<1>4. CASE opLog
  BY <1>4, LogRuns
<1>5. ASSUME NEW k \in Slot, NEW v \in 0..1, opSstore(k, v) PROVE Running'
  BY <1>5, SstoreRuns
<1>6. ASSUME NEW kind \in {"call", "callcode", "delegate", "static"}, NEW a \in Operand, NEW v \in Amount,
             NEW request \in Request, NEW fails \in BOOLEAN, opCall(kind, a, v, request, fails)
      PROVE  Running'
  BY <1>6, CallRuns
<1>7. ASSUME NEW v \in Amount, opCreate(v) PROVE Running'
  BY <1>7, CreateRuns
<1>8. ASSUME NEW a \in Operand, opSuicide(a) PROVE Running'
  BY <1>8, SuicideRuns
<1>9. CASE NextBlock \/ GoOnWithCopy
  BY <1>9, BlockRuns, CopyRuns
<1>10. CASE UNCHANGED vars
  BY <1>10 DEF vars, Running
<1> QED BY <1>1, <1>2, <1>3, <1>4, <1>5, <1>6, <1>7, <1>8, <1>9, <1>10 DEF Next

\* Where contracts are created at addresses, the invariant always holds.
LEMMA AlwaysRunning ==
  ASSUME Creates
  PROVE  Spec => []Running
<1>1. Init => Running
  BY InitRunning
<1>2. Running /\ [Next]_vars => Running'
  BY NextRunning
<1> QED BY <1>1, <1>2, PTL DEF Spec

\* The journal (core/state/journal.go) undoes everything: whatever transactions and
\* contracts did, to any depth of calls, with contracts created, destroyed and
\* reverted in between, RevertToSnapshot brings back exactly what could be seen when
\* the snapshot was taken.
THEOREM RevertsExactly ==
  ASSUME Creates
  PROVE  Spec => []RevertExact
<1>1. Running => RevertExact
  BY Reverted DEF Running, RevertExact
<1> QED BY <1>1, AlwaysRunning, PTL

\* The snapshots that running contracts return to are valid revisions.
CanRevert == \A i \in DOMAIN frames : \E r \in DOMAIN db.revisions : db.revisions[r].id = frames[i].id

\* RevertToSnapshot never panics (core/state/statedb.go: "revision id %v cannot be
\* reverted"): the snapshot of every running contract stays valid, whatever the
\* contracts that it calls revert.
THEOREM AlwaysCanRevert ==
  ASSUME Creates
  PROVE  Spec => []CanRevert
<1>1. Running => CanRevert
  BY DEF Running, CanRevert, Ids
<1> QED BY <1>1, AlwaysRunning, PTL

=============================================================================
