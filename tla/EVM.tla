-------------------------------- MODULE EVM --------------------------------
(***************************************************************************)
(* Execution of the transactions of a block: core/state_transition.go,     *)
(* core/state_processor.go, core/vm/evm.go and the opcodes of core/vm that *)
(* read or change accounts or call other contracts. The rules are those of *)
(* the Byzantium fork, which this chain has from its genesis.              *)
(*                                                                         *)
(* A contract may do anything: each step is one opcode of the innermost    *)
(* running contract, with operands of its choice. Opcodes that only work   *)
(* on the stack and the memory are left out; that a contract can fail at   *)
(* any time (Fault) stands for their errors and for the lack of gas.       *)
(***************************************************************************)
EXTENDS StateDB, Folds

CONSTANTS
  CreateAddress(_, _),  \* the address of a contract, from its creator and nonce
  Precompiles,          \* addresses of precompiled contracts
  Coinbase, BlockReward, GasLimit,
  Message,              \* transactions: from, to (None to create), nonce, value, gas, gasPrice, data
  Genesis,              \* the accounts of the genesis block
  Operand, Amount, Request,  \* operands of opcodes: addresses, values, gas requested for a call
  Word,                 \* number of values of a uint64, scaled down
  Fraction,             \* the caller keeps one of so many parts of its gas: 64, scaled down
  CallCreateDepth,
  TxGas, TxGasContractCreation, CallsGas, CallNewAccountGas, CallValueTransferGas, CallStipend,
  SstoreSetGas, SstoreClearGas, SstoreResetGas, SstoreRefundGas, LogGas, CreateGas, CreateDataGas,
  SuicideGas, CreateBySuicideGas, SuicideRefundGas, PrecompileGas,
  Budgets               \* bounds: how many transactions, opcodes, blocks and copies

VARIABLES
  db,         \* the StateDB
  gp,         \* GasPool
  parent,     \* the database as of the parent block
  usedGas,    \* gas used by the transactions of the block
  mining,     \* whether a worker fills the block, or an imported block is processed
  st,         \* StateTransition in progress, or None
  frames,     \* running contracts, the innermost one last
  readOnly,   \* Interpreter.readOnly
  receipt,    \* of the transaction that ended in the last step, or None
  supply,     \* what the balances were at genesis, and the rewards since
  destroyed,  \* whether a contract was destroyed
  budget

vars == <<db, gp, parent, usedGas, mining, st, frames, readOnly, receipt, supply, destroyed, budget>>

\* Why a call that carries value is no source of gas (9000 and 2300 in params).
ASSUME StipendAssumption == CallStipend <= CallValueTransferGas

\* Records of running contracts and of the transaction in progress.
Frame ==
  [kind : {"call", "callcode", "delegate", "static", "create"}, self : Address, gas : Int, id : Nat,
   restores : BOOLEAN]
StateTransition == [msg : Message, before : Sight]

ASSUME MessageAssumption ==
  /\ Message \subseteq [from : Address, to : Address \cup {None}, nonce : Nat, value : Nat, gas : Nat,
                        gasPrice : Nat, data : Nat]
  /\ None \notin Frame /\ None \notin StateTransition

ASSUME ParamsAssumption ==
  /\ Genesis \in [Address -> AccountData \cup {None}]
  /\ Coinbase \in Address /\ Operand \subseteq Address /\ Amount \subseteq Nat /\ Request \subseteq Nat
  /\ Word \in Nat \ {0} /\ Fraction \in Nat \ {0}
  /\ {BlockReward, TxGas, TxGasContractCreation, CallsGas, CallNewAccountGas, CallValueTransferGas,
      CallStipend, SstoreSetGas, SstoreClearGas, SstoreResetGas, SstoreRefundGas, LogGas, CreateGas,
      CreateDataGas, SuicideGas, CreateBySuicideGas, SuicideRefundGas, PrecompileGas} \subseteq Nat

Caller == frames[Len(frames)]

\* The sum of the values of f.
Total(f) == MapThenFoldSet(+, 0, LAMBDA x : f[x], LAMBDA S : CHOOSE x \in S : TRUE, DOMAIN f)

Balances(s) == Total([a \in Address |-> GetBalance(s, a)])

Init ==
  /\ db = New(Genesis, {Genesis[a].code : a \in {b \in Address : Genesis[b] # None}})
  /\ parent = db /\ gp = GasLimit /\ usedGas = 0 /\ mining \in BOOLEAN
  /\ st = None /\ frames = <<>> /\ readOnly = FALSE /\ receipt = None
  /\ supply = Balances(db) /\ destroyed = FALSE /\ budget \in Budgets

-----------------------------------------------------------------------------
(* Calls. Each gives a database and either a frame to run or, when there   *)
(* is nothing to run, the gas left and the error.                          *)

Over(s, gas, err) == [db |-> s, frame |-> None, gas |-> gas, err |-> err]

\* All gas of a failed call is used, unless the contract reverted it itself.
Failed(s, id, gas, err) ==
  Over(RevertToSnapshot(s, id), IF err = "reverted" THEN gas ELSE 0, err)

CanTransfer(s, a, v) == GetBalance(s, a) >= v

Transfer(s, from, to, v) == AddBalance(SubBalance(s, from, v), to, v)

\* The frame of a call whose snapshot is the last revision of the database. It
\* runs the code at an address, which may be a precompiled contract or empty.
run(s, kind, self, at, code, gas, fails) ==
  LET id == s.nextRevisionId - 1
  IN IF at \in Precompiles
     THEN IF gas < PrecompileGas \/ fails THEN Failed(s, id, gas, "fault")
          ELSE Over(s, gas - PrecompileGas, "none")
     ELSE IF code = EmptyCode THEN Over(s, gas, "none")
     ELSE [Over(s, gas, "none") EXCEPT
             !.frame = [kind |-> kind, self |-> self, gas |-> gas, id |-> id,
                        restores |-> kind = "static" /\ ~readOnly]]

Call(s, caller, a, gas, v, fails) ==
  LET snapped == Snapshot(s)
      there == IF Exist(s, a) THEN snapped ELSE CreateAccount(snapped, a)
      moved == Transfer(there, caller, a, v)
  IN IF Len(frames) > CallCreateDepth THEN Over(s, gas, "depth")
     ELSE IF ~CanTransfer(s, caller, v) THEN Over(s, gas, "balance")
     ELSE IF ~Exist(s, a) /\ a \notin Precompiles /\ v = 0 THEN Over(snapped, gas, "none")
     ELSE run(moved, "call", a, a, GetCode(moved, a), gas, fails)

\* CallCode, DelegateCall and StaticCall move no value: the first two run the code
\* for the caller itself, the last one may change nothing.
CallCode(s, caller, a, gas, v, fails) ==
  IF Len(frames) > CallCreateDepth THEN Over(s, gas, "depth")
  ELSE IF ~CanTransfer(s, caller, v) THEN Over(s, gas, "balance")
  ELSE run(Snapshot(s), "callcode", caller, a, GetCode(s, a), gas, fails)

DelegateCall(s, caller, a, gas, fails) ==
  IF Len(frames) > CallCreateDepth THEN Over(s, gas, "depth")
  ELSE run(Snapshot(s), "delegate", caller, a, GetCode(s, a), gas, fails)

StaticCall(s, a, gas, fails) ==
  IF Len(frames) > CallCreateDepth THEN Over(s, gas, "depth")
  ELSE run(Snapshot(s), "static", a, a, GetCode(s, a), gas, fails)

\* The mutant takes the snapshot when the account is there.
CreateLate(s, caller, code, gas, v) ==
  LET nonce == GetNonce(s, caller)
      counted == SetNonce(s, caller, nonce + 1)
      a == CreateAddress(caller, nonce)
      fresh == SetNonce(CreateAccount(counted, a), a, 1)
  IN IF ~CanTransfer(s, caller, v) THEN Over(s, gas, "balance")
     ELSE run(Snapshot(Transfer(fresh, caller, a, v)), "create", a, a, code, gas, FALSE)

\* The nonce of the creator is not reverted with a failed creation.
Create(s, caller, code, gas, v) ==
  LET nonce == GetNonce(s, caller)
      counted == SetNonce(s, caller, nonce + 1)
      a == CreateAddress(caller, nonce)
      fresh == SetNonce(CreateAccount(Snapshot(counted), a), a, 1)
  IN IF Len(frames) > CallCreateDepth THEN Over(s, gas, "depth")
     ELSE IF ~CanTransfer(s, caller, v) THEN Over(s, gas, "balance")
     ELSE IF GetNonce(counted, a) # 0 \/ GetCode(counted, a) # EmptyCode
     THEN Over(counted, 0, "collision")
     ELSE LET r == run(Transfer(fresh, caller, a, v), "create", a, a, code, gas, FALSE)
          IN IF r.frame = None THEN [r EXCEPT !.db = SetCode(@, a, EmptyCode)] ELSE r

\* How a running contract ends: a creation also stores what its code returned.
Halted(s, f, err, code) ==
  LET createDataGas == IF code = EmptyCode THEN 0 ELSE CreateDataGas
  IN IF err # "none" THEN Failed(s, f.id, f.gas, err)
     ELSE IF f.kind # "create" THEN Over(s, f.gas, "none")
     ELSE IF f.gas < createDataGas THEN Failed(s, f.id, f.gas, "codeStore")
     ELSE Over(SetCode(s, f.self, code), f.gas - createDataGas, "none")

-----------------------------------------------------------------------------
(* Transactions.                                                           *)

IntrinsicGas(m) == (IF m.to = None THEN TxGasContractCreation ELSE TxGas) + m.data

Spend(b) == budget[b] > 0 /\ budget' = [budget EXCEPT ![b] = @ - 1]

\* The worker takes back what a refused transaction did to the accounts, and goes
\* on without it. An imported block with such a transaction is dropped.
Refused(s, snap, pool) ==
  /\ IF mining THEN db' = RevertToSnapshot(s, snap) /\ gp' = pool /\ UNCHANGED usedGas
               ELSE db' = parent /\ gp' = GasLimit /\ usedGas' = 0
  /\ receipt' = None /\ UNCHANGED <<st, frames>>

\* The end of TransitionDb and of ApplyTransaction, with the gas left.
Applied(s, m, before, pool, r) ==
  LET refund == (m.gas - r.gas) \div 2
      gas == r.gas + IF refund > s.refund THEN s.refund ELSE refund
      gasUsed == m.gas - gas
      returned == AddBalance(s, m.from, gas * m.gasPrice)
  IN /\ db' = Finalise(AddBalance(returned, Coinbase, gasUsed * m.gasPrice))
     /\ gp' = pool + gas /\ usedGas' = usedGas + gasUsed
     /\ receipt' = [msg |-> m, gas |-> gasUsed, failed |-> r.err # "none", before |-> before]
     /\ st' = None /\ frames' = <<>>

ApplyTransaction(m, fails) ==
  LET snapped == IF mining THEN Snapshot(db) ELSE db
      mgval == m.gas * m.gasPrice
      bought == SubBalance(snapped, m.from, mgval)
      counted == SetNonce(bought, m.from, GetNonce(bought, m.from) + 1)
      gas == m.gas - IntrinsicGas(m)
      r == IF m.to = None
           THEN Create(bought, m.from, IF m.data = 0 THEN EmptyCode ELSE "code", gas, m.value)
           ELSE Call(counted, m.from, m.to, gas, m.value, fails)
  IN /\ st = None /\ Spend("txs")
     /\ fails => m.to \in Precompiles
     /\ IF \/ GetNonce(db, m.from) # m.nonce
           \/ GetBalance(db, m.from) < mgval
           \/ gp < m.gas
        THEN Refused(snapped, db.nextRevisionId, gp)
        ELSE IF gas < 0 THEN Refused(bought, db.nextRevisionId, gp - m.gas)
        ELSE IF r.err = "balance" THEN Refused(r.db, db.nextRevisionId, gp - m.gas)
        ELSE IF r.frame = None THEN Applied(r.db, m, View(db), gp - m.gas, r)
        ELSE /\ db' = r.db /\ gp' = gp - m.gas /\ frames' = <<r.frame>>
             /\ st' = [msg |-> m, before |-> View(db)] /\ receipt' = None
             /\ UNCHANGED usedGas
     /\ UNCHANGED <<mining, readOnly, supply, destroyed, parent>>

-----------------------------------------------------------------------------
(* Opcodes of the innermost contract.                                      *)

\* The mutant checks the operations that write, not the value of a call.
enforceRestrictionsWrites(op, v) == readOnly => op \notin {"sstore", "log", "create", "suicide"}

\* A static call forbids the operations that write, and calls that carry value.
enforceRestrictions(op, v) ==
  readOnly => op \notin {"sstore", "log", "create", "suicide"} /\ ~(op = "call" /\ v # 0)

Opcode == frames # <<>> /\ Spend("ops") /\ UNCHANGED <<mining, supply, parent>>

\* The contract goes on, after a call that may have pushed another one.
Continues(s, gas, callee) ==
  LET resumed == [frames EXCEPT ![Len(frames)].gas = gas]
  IN /\ db' = s /\ frames' = IF callee = None THEN resumed ELSE Append(resumed, callee)
     /\ readOnly' = (readOnly \/ (callee # None /\ callee.restores))
     /\ UNCHANGED <<gp, usedGas, st, receipt, destroyed>>

\* The contract ends, and with the outermost one the transaction.
Ends(r) ==
  /\ readOnly' = (readOnly /\ ~Caller.restores)
  /\ IF Len(frames) = 1 THEN Applied(r.db, st.msg, st.before, gp, r)
     ELSE /\ db' = r.db
          /\ frames' = [SubSeq(frames, 1, Len(frames) - 1) EXCEPT ![Len(frames) - 1].gas = @ + r.gas]
          /\ UNCHANGED <<gp, usedGas, st, receipt>>

\* STOP and RETURN, REVERT, and all errors.
opReturn(code) == Opcode /\ Ends(Halted(db, Caller, "none", code)) /\ UNCHANGED destroyed
opRevert == Opcode /\ Ends(Halted(db, Caller, "reverted", EmptyCode)) /\ UNCHANGED destroyed
Fault == Opcode /\ Ends(Halted(db, Caller, "fault", EmptyCode)) /\ UNCHANGED destroyed

opSstore(k, v) ==
  LET old == GetState(db, Caller.self, k)
      cost == IF old = 0 /\ v # 0 THEN SstoreSetGas
              ELSE IF old # 0 /\ v = 0 THEN SstoreClearGas ELSE SstoreResetGas
      refunded == IF old # 0 /\ v = 0 THEN AddRefund(db, SstoreRefundGas) ELSE db
  IN /\ Opcode /\ enforceRestrictions("sstore", 0) /\ Caller.gas >= cost
     /\ Continues(SetState(refunded, Caller.self, k, v), Caller.gas - cost, None)

opLog ==
  /\ Opcode /\ enforceRestrictions("log", 0) /\ Caller.gas >= LogGas
  /\ Continues(AddLog(db, Caller.self), Caller.gas - LogGas, None)

\* Gas for a call: what is requested, or all but one part of what is left. The
\* subtraction wraps around when not even the base is left.
callGas(available, base, request) ==
  LET left == (available - base) % Word
      gas == left - left \div Fraction
  IN IF gas < request THEN gas ELSE request

opCall(kind, a, v, request, fails) ==
  LET base == CallsGas + (IF kind = "call" /\ v # 0 /\ Empty(db, a) THEN CallNewAccountGas ELSE 0)
                       + (IF v # 0 THEN CallValueTransferGas ELSE 0)
      callGasTemp == callGas(Caller.gas, base, request)
      cost == base + callGasTemp
      gas == callGasTemp + (IF v # 0 THEN CallStipend ELSE 0)
      r == CASE kind = "call" -> Call(db, Caller.self, a, gas, v, fails)
             [] kind = "callcode" -> CallCode(db, Caller.self, a, gas, v, fails)
             [] kind = "delegate" -> DelegateCall(db, Caller.self, a, gas, fails)
             [] kind = "static" -> StaticCall(db, a, gas, fails)
  IN /\ v # 0 => kind \in {"call", "callcode"}
     /\ fails => a \in Precompiles
     /\ Opcode /\ enforceRestrictions(kind, v)
     /\ cost < Word /\ Caller.gas >= cost
     /\ Continues(r.db, Caller.gas - cost + (IF r.frame = None THEN r.gas ELSE 0), r.frame)

opCreate(v) ==
  LET left == Caller.gas - CreateGas
      gas == left - left \div Fraction
      r == Create(db, Caller.self, "code", gas, v)
  IN /\ Opcode /\ enforceRestrictions("create", v) /\ left >= 0
     /\ Continues(r.db, left - gas + (IF r.frame = None THEN r.gas ELSE 0), r.frame)

opSuicide(a) ==
  LET balance == GetBalance(db, Caller.self)
      cost == SuicideGas + (IF Empty(db, a) /\ balance # 0 THEN CreateBySuicideGas ELSE 0)
      refunded == IF HasSuicided(db, Caller.self) THEN db ELSE AddRefund(db, SuicideRefundGas)
      gone == Suicide(AddBalance(refunded, a, balance), Caller.self)
  IN /\ Opcode /\ enforceRestrictions("suicide", 0) /\ Caller.gas >= cost
     /\ Ends(Halted(gone, [Caller EXCEPT !.gas = @ - cost], "none", EmptyCode))
     /\ destroyed' = TRUE

-----------------------------------------------------------------------------
(* Blocks.                                                                 *)

\* Engine.Finalize rewards the signer, the block is written with its state, and
\* the next block starts from there.
NextBlock ==
  LET s == Commit(Finalise(AddBalance(db, Coinbase, BlockReward)))
  IN /\ st = None /\ Spend("blocks")
     /\ db' = New(s.trie, s.codes) /\ parent' = db'
     /\ gp' = GasLimit /\ usedGas' = 0 /\ receipt' = None /\ mining' \in BOOLEAN
     /\ supply' = supply + BlockReward
     /\ UNCHANGED <<st, frames, readOnly, destroyed>>

\* Work goes on with a copy: the pending state, and the tracing of a block.
GoOnWithCopy ==
  /\ st = None /\ Spend("copies")
  /\ db' = Copy(db) /\ receipt' = None
  /\ UNCHANGED <<gp, parent, usedGas, mining, st, frames, readOnly, supply, destroyed>>

Next ==
  \/ \E m \in Message, fails \in BOOLEAN : ApplyTransaction(m, fails)
  \/ \E code \in Code : opReturn(code)
  \/ opRevert \/ Fault \/ opLog
  \/ \E k \in Slot, v \in 0..1 : opSstore(k, v)
  \/ \E kind \in {"call", "callcode", "delegate", "static"}, a \in Operand, v \in Amount,
        request \in Request, fails \in BOOLEAN : opCall(kind, a, v, request, fails)
  \/ \E v \in Amount : opCreate(v)
  \/ \E a \in Operand : opSuicide(a)
  \/ NextBlock \/ GoOnWithCopy

Spec == Init /\ [][Next]_vars

-----------------------------------------------------------------------------
(* Properties.                                                             *)

\* Whatever was done since any snapshot that is still valid, RevertToSnapshot
\* brings back exactly what could be seen when it was taken: balances, nonces, code,
\* storage, destroyed contracts, refund and logs.
RevertExact ==
  \A i \in DOMAIN db.revisions :
    View(RevertToSnapshot(db, db.revisions[i].id)) = db.revisions[i].view

\* What is in the trie of an account, as the getters would show it.
Stored(a) == Visible(New(db.trie, db.codes), a)

\* Between transactions the trie has all that can be seen, whatever was created,
\* reverted, destroyed or touched: the set of dirty objects lacks none. A copy
\* shows the same, and all code of a committed block can be loaded.
Persisted ==
  st = None =>
    /\ \A a \in Address : Stored(a) = Visible(db, a)
    /\ View(Copy(db)) = View(db)
    /\ \A a \in Address : parent.trie[a] # None => parent.trie[a].code \in parent.codes

\* No gas and no value come into being: the balances, and during a transaction the
\* gas that its sender bought, are what they were at genesis and the rewards since;
\* the contracts have no more gas than was bought. The balances are less only when
\* a contract was destroyed that had value, or got some later.
Conserved ==
  LET value == Balances(db) + (IF st = None THEN 0 ELSE st.msg.gas * st.msg.gasPrice)
      gas == Total([i \in DOMAIN frames |-> frames[i].gas])
  IN /\ value <= supply /\ (~destroyed => value = supply)
     /\ \A a \in Address : GetBalance(db, a) >= 0
     /\ st # None => gas <= st.msg.gas

Nonempty(account) == IF account = None \/ empty(account) THEN None ELSE account

\* A failed transaction leaves nothing behind but its nonce and its fee.
FailedOnlyPays ==
  receipt # None /\ receipt.failed =>
    LET fee == receipt.gas * receipt.msg.gasPrice
        paid == [a \in Address |->
                   LET was == receipt.before.accounts[a]
                       base == IF was = None THEN newObject(Account(0, 0, NoStorage, EmptyCode)) ELSE was
                   IN [nonce |-> base.nonce + (IF a = receipt.msg.from THEN 1 ELSE 0),
                       balance |-> base.balance + (IF a = Coinbase THEN fee ELSE 0)
                                                - (IF a = receipt.msg.from THEN fee ELSE 0),
                       code |-> base.code, storage |-> base.storage, suicided |-> FALSE]]
    IN /\ \A a \in Address : Nonempty(Visible(db, a)) = Nonempty(paid[a])
       /\ db.logs = receipt.before.logs

\* While a static call runs, however deep, no account, log or refund is other than
\* when it began.
StaticPure ==
  \A i \in DOMAIN frames, j \in DOMAIN db.revisions :
    frames[i].kind = "static" /\ db.revisions[j].id = frames[i].id =>
      LET began == db.revisions[j].view
      IN /\ \A a \in Address : Nonempty(Visible(db, a)) = Nonempty(began.accounts[a])
         /\ db.logs = began.logs /\ db.refund = began.refund

\* "tracks the amount of gas available during execution of the transactions in a
\* block" (core/gaspool.go): what is not used is available.
PoolExact == st = None => gp = GasLimit - usedGas

=============================================================================
