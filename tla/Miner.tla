-------------------------------- MODULE Miner --------------------------------
(***************************************************************************)
(* Block production: the goroutines of miner/worker.go, miner/agent.go and *)
(* miner/miner.go, with Prepare, Authorize and Seal of the clique engine   *)
(* (consensus/clique/clique.go) and the calls eth/backend.go makes.        *)
(*                                                                         *)
(* A thread is a goroutine at one of its pcs: update and wait (the loops   *)
(* of the worker), sync (the one-shot loop of Miner.update), starter (the  *)
(* goroutine that StartMining spawns) and stopper (a call of StopMining).  *)
(* The loops of the agent are a number, the goroutines in mine a set.      *)
(* Steps end where another goroutine can see or change what comes next: at *)
(* an atomic load or store, a lock, a channel operation or a chain write.  *)
(*                                                                         *)
(* Work is shared by pointer (worker.current, the channels, the goroutines *)
(* in mine), so works holds the structs and everything else their index.   *)
(* A work's state is known by the transactions applied to it, a block's by *)
(* the transactions in the block.  Time is left out: Seal may wait for the *)
(* block's slot as long as it likes, or not at all.                        *)
(***************************************************************************)
EXTENDS CliqueSnapshot, Sequences

CONSTANTS
  Account,          \* the accounts StartMining may authorize
  Proposals,        \* what Prepare may vote on (ballots of Clique.proposals)
  Period,           \* params.CliqueConfig.Period
  resultQueueSize,  \* the capacity of worker.recv
  Serial,           \* whether a call waits until the one before has been carried out
  Budgets,          \* bound: how many calls, synchronisations, blocks and transactions there may be
  MaxWorks          \* bound: the Work structs in use at once

ASSUME MinerAssumption ==
  /\ Account \subseteq Address \ {0}
  /\ Period \in Nat
  /\ Serial \in BOOLEAN
  /\ {resultQueueSize, MaxWorks} \subseteq Nat \ {0}
  /\ Budgets \subseteq [starts : Nat, stops : Nat, syncs : Nat, blocks : Nat, txs : Nat]

VARIABLES
  chain,    \* the blocks written, in the order of their writing
  head,     \* BlockChain.currentBlock, an index of chain
  heads,    \* the ChainHeadEvents sent or about to be sent to worker.chainHeadCh
  known,    \* the transactions that ever entered the pool
  txsCh,    \* the transactions of the events in worker.txsCh
  signer,   \* Clique.signer; 0 before the first Authorize
  miner,    \* the atomic flags of Miner
  worker,   \* mining, current, mustCommitNewWork, and the event update handles
  mu,       \* the holder of worker.mu between two steps, or "none"
  works,    \* the Work structs in use
  agent,    \* CpuAgent: isMining, the two channels, and its running loops
  mines,    \* the goroutines in mine
  recv,     \* worker.recv
  pc,       \* the program counter of each thread
  budget,   \* what is left of one of the Budgets
  wanted    \* history: whether the last call was StartMining

vars == <<chain, head, heads, known, txsCh, signer, miner, worker, mu,
          works, agent, mines, recv, pc, budget, wanted>>
chainVars == <<chain, head, known, budget>>
userVars == <<signer, wanted>>

Thread == {"update", "wait", "sync", "starter", "stopper"}
NoWork == [parent |-> 0]
NoResult == [work |-> 0, signer |-> 0]
Goto(t, label) == pc' = [pc EXCEPT ![t] = label]

\* Where a thread continues once Miner.Start or commitNewWork returns.
Returned(t) == IF t = "sync" THEN "over" ELSE "idle"

-----------------------------------------------------------------------------
(* The chain, as WriteBlockWithState and insertChain leave it.             *)

Number(i) == chain[i].snap.Number

\* The fork choice of WriteBlockWithState, at random between equals.
Canonical(td, number) ==
  IF td # chain[head].td THEN {td > chain[head].td}
  ELSE IF number # Number(head) THEN {number < Number(head)}
  ELSE BOOLEAN

\* A block of header h on chain[p] is written, and a ChainHeadEvent posted if
\* it is canonical.  It is usable if the state written with it is the one its
\* header names.
WriteBlock(p, h, txs, applied, canon) ==
  LET b == [parent |-> p, header |-> h, txs |-> chain[p].txs \cup txs,
            td     |-> chain[p].td + h.difficulty,
            snap   |-> applyHeader(chain[p].snap, h),
            usable |-> applied = txs]
  IN  /\ budget.blocks > 0
      /\ budget' = [budget EXCEPT !.blocks = @ - 1]
      /\ canon \in Canonical(b.td, b.snap.Number)
      /\ chain' = Append(chain, b)
      /\ head' = IF canon THEN Len(chain') ELSE head
      /\ heads' = IF canon THEN heads + 1 ELSE heads

\* Another signer's block arrives and verifies.
Import(p, a, canon) ==
  LET s == chain[p].snap
      h == NewHeader(a, CalcDifficulty(s, a), NoBallot)
  IN  /\ chain[p].usable
      /\ VerifyHeader(s, h)
      /\ WriteBlock(p, h, {}, {}, canon)
      /\ UNCHANGED <<known, txsCh, miner, worker, mu, works, agent, mines, recv, pc, userVars>>

\* A transaction becomes pending in the pool.  They are numbered as they come.
NewTx ==
  LET t == Cardinality(known) + 1
  IN  /\ budget.txs > 0
      /\ budget' = [budget EXCEPT !.txs = @ - 1]
      /\ known' = known \cup {t}
      /\ txsCh' = txsCh \cup {t}
      /\ UNCHANGED <<chain, head, heads, miner, worker, mu, works, agent, mines, recv, pc, userVars>>

-----------------------------------------------------------------------------
(* commitNewWork: called by update, by wait and by Miner.Start.            *)

\* Prepare refuses if the authorized account may not sign the next block.
PrepareFails(s) ==
  signer # 0 /\ (signer \notin s.Signers \/ CalcDifficulty(s, signer) = 0)

\* Prepare votes on one of the proposals that make sense, at random.
Ballots(s) ==
  LET meaningful == {b \in Proposals : validVote(s, b.candidate, b.authorize, b.voterElection)}
  IN  IF (s.Number + 1) % Epoch # 0 /\ meaningful # {} THEN meaningful ELSE {NoBallot}

\* Mutant of NewWork: a fixed difficulty.
NewWorkFixed(p, ballot) ==
  LET txs == known \ chain[p].txs
  IN  [parent |-> p, difficulty |-> 1, ballot |-> ballot, txs |-> txs, applied |-> txs]

\* The work Prepare, makeCurrent, commitTransactions and Finalize put together.
NewWork(p, ballot) ==
  LET txs == known \ chain[p].txs
  IN  [parent |-> p, difficulty |-> CalcDifficulty(chain[p].snap, signer),
       ballot |-> ballot, txs |-> txs, applied |-> txs]

InUse == {w \in 1..MaxWorks : \/ agent.work = <<w>>
                              \/ \E m \in mines : m.work = w
                              \/ \E i \in 1..Len(recv) : recv[i].work = w}

\* worker.mu and currentMu are held until push has sent the work.
commitNewWork(t) ==
  /\ mu = "none"
  /\ IF PrepareFails(chain[head].snap) \/ ~chain[head].usable
     THEN /\ Goto(t, Returned(t))
          /\ UNCHANGED <<works, worker, mu>>
     ELSE LET id == CHOOSE w \in (1..MaxWorks) \ InUse : \A v \in (1..MaxWorks) \ InUse : w <= v
          IN  /\ \E b \in Ballots(chain[head].snap) :
                   works' = [w \in 1..MaxWorks |-> IF w = id THEN NewWork(head, b)
                                                   ELSE IF w \in InUse THEN works[w]
                                                   ELSE NoWork]
              /\ worker' = [worker EXCEPT !.current = id]
              /\ IF worker.mining THEN mu' = t /\ Goto(t, "push")
                                  ELSE UNCHANGED mu /\ Goto(t, Returned(t))
  /\ UNCHANGED <<chainVars, txsCh, miner, agent, mines, recv, userVars>>

\* A thread that has yet to call commitNewWork.
commit(t) ==
  /\ pc[t] = "commit"
  /\ commitNewWork(t)
  /\ UNCHANGED heads

\* The send on the agent's channel of capacity one.
push(t) ==
  /\ pc[t] = "push"
  /\ agent.work = <<>>
  /\ agent' = [agent EXCEPT !.work = <<worker.current>>]
  /\ mu' = "none"
  /\ Goto(t, Returned(t))
  /\ UNCHANGED <<chainVars, heads, txsCh, miner, worker, works, mines, recv, userVars>>

-----------------------------------------------------------------------------
(* worker.update.                                                          *)

updateHead ==
  /\ pc["update"] = "idle"
  /\ heads > 0
  /\ heads' = heads - 1
  /\ commitNewWork("update")


\* A mining worker only reacts to transactions if nothing else would wake it.
updateTxs(t) ==
  /\ pc["update"] = "idle"
  /\ t \in txsCh
  /\ txsCh' = txsCh \ {t}
  /\ worker' = [worker EXCEPT !.ev = IF worker.mining THEN {} ELSE {t}]
  /\ Goto("update", CASE ~worker.mining -> "apply"
                      [] worker.mining /\ Period = 0 -> "commit"
                      [] OTHER -> "idle")
  /\ UNCHANGED <<chainVars, heads, miner, mu, works, agent, mines, recv, userVars>>

\* The event's transactions go to the state of the current work, under
\* currentMu, which commitNewWork holds while it pushes.
updateApply ==
  LET w == works[worker.current]
  IN  /\ pc["update"] = "apply"
      /\ \A t \in Thread : pc[t] # "push"
      /\ works' = [works EXCEPT ![worker.current].applied = @ \cup (worker.ev \ chain[w.parent].txs)]
      /\ worker' = [worker EXCEPT !.ev = {}]
      /\ Goto("update", "idle")
      /\ UNCHANGED <<chainVars, heads, txsCh, miner, mu, agent, mines, recv, userVars>>

-----------------------------------------------------------------------------
(* worker.wait.                                                            *)

\* A sealed block is written, unverified, with the state its work has now.
\* mustCommitNewWork is never set again once a block was canonical.
waitResult(canon) ==
  LET r == Head(recv)
      w == works[r.work]
  IN  /\ pc["wait"] = "idle"
      /\ recv # <<>>
      /\ recv' = Tail(recv)
      /\ IF r = NoResult
         THEN ~canon /\ UNCHANGED <<chain, head, heads, budget, worker, pc>>
         ELSE /\ WriteBlock(w.parent, NewHeader(r.signer, w.difficulty, w.ballot),
                            w.txs, w.applied, canon)
              /\ worker' = [worker EXCEPT !.must = @ /\ ~canon]
              /\ Goto("wait", IF worker'.must THEN "commit" ELSE "idle")
      /\ UNCHANGED <<known, txsCh, miner, mu, works, agent, mines, userVars>>

-----------------------------------------------------------------------------
(* CpuAgent.                                                               *)

\* What Seal does with a work: it refuses, waits for the block's slot, or
\* waits to be stopped because the others have to sign first.
Seal(w) ==
  LET s == chain[w.parent].snap
  IN  CASE (Period = 0 /\ w.txs = {}) \/ signer \notin s.Signers -> "refused"
        [] signer \in s.Signers /\ ~MaySign(s, signer) -> "recent"
        [] OTHER -> "slot"

\* A loop of the agent takes a work.  Every earlier quitCurrentOp is closed.
agentWork ==
  LET w == Head(agent.work)
  IN  /\ agent.loops > 0
      /\ agent.work # <<>>
      /\ agent' = [agent EXCEPT !.work = <<>>]
      /\ mines' = {[m EXCEPT !.stopped = TRUE] : m \in mines} \cup
                   {[work |-> w, stage |-> Seal(works[w]), signer |-> signer, stopped |-> FALSE]}
      /\ UNCHANGED <<chainVars, heads, txsCh, miner, worker, mu, works, recv, pc, userVars>>

\* A loop of the agent takes a stop signal: not always the loop it was meant for.
agentStop ==
  /\ agent.loops > 0
  /\ agent.stop > 0
  /\ agent' = [agent EXCEPT !.stop = @ - 1, !.loops = @ - 1]
  /\ mines' = {[m EXCEPT !.stopped = TRUE] : m \in mines}
  /\ UNCHANGED <<chainVars, heads, txsCh, miner, worker, mu, works, recv, pc, userVars>>

\* mine sends what Seal returned.
Deliver(m, r) ==
  /\ Len(recv) < resultQueueSize
  /\ recv' = Append(recv, r)
  /\ mines' = mines \ {m}

\* The delay of Seal, in units of wiggleTime, for a signer out of turn.
\* header.Signers is empty but at checkpoints.
sealDelay(w) ==
  LET s == chain[w.parent].snap
      n == IF (s.Number + 1) % Epoch = 0 THEN Cardinality(s.Signers) ELSE 0
  IN  IF w.difficulty < n THEN n - w.difficulty ELSE 0

\* The slot has come: Seal signs.
sealSigned(m) ==
  /\ m.stage = "slot"
  /\ Deliver(m, [work |-> m.work, signer |-> m.signer])
  /\ UNCHANGED <<chainVars, heads, txsCh, miner, worker, mu, works, agent, pc, userVars>>

\* Seal returns no block.
sealFailed(m) ==
  /\ m.stage = "refused" \/ m.stopped
  /\ Deliver(m, NoResult)
  /\ UNCHANGED <<chainVars, heads, txsCh, miner, worker, mu, works, agent, pc, userVars>>

-----------------------------------------------------------------------------
(* Miner.Start and Miner.Stop, by the thread t.                            *)

minerVars == <<chainVars, heads, txsCh, works, mines, recv, userVars>>

\* Mutant of StartShould: the wish is not recorded.
StartUnrecorded(t) ==
  /\ pc[t] = "should"
  /\ Goto(t, "etherbase")
  /\ UNCHANGED <<minerVars, miner, worker, mu, agent>>

StartShould(t) ==
  /\ pc[t] = "should"
  /\ miner' = [miner EXCEPT !.shouldStart = TRUE]
  /\ Goto(t, "etherbase")
  /\ UNCHANGED <<minerVars, worker, mu, agent>>

\* setEtherbase takes worker.mu.
StartEtherbase(t) ==
  /\ pc[t] = "etherbase"
  /\ mu = "none"
  /\ Goto(t, "can")
  /\ UNCHANGED <<minerVars, miner, worker, mu, agent>>

StartCan(t) ==
  /\ pc[t] = "can"
  /\ Goto(t, IF miner.canStart THEN "mining" ELSE Returned(t))
  /\ UNCHANGED <<minerVars, miner, worker, mu, agent>>

StartMining(t) ==
  /\ pc[t] = "mining"
  /\ miner' = [miner EXCEPT !.mining = TRUE]
  /\ Goto(t, "start")
  /\ UNCHANGED <<minerVars, worker, mu, agent>>

\* worker.start and CpuAgent.Start.
workerStart(t) ==
  /\ pc[t] = "start"
  /\ mu = "none"
  /\ worker' = [worker EXCEPT !.mining = TRUE]
  /\ agent' = IF agent.isMining THEN agent
              ELSE [agent EXCEPT !.isMining = TRUE, !.loops = @ + 1]
  /\ Goto(t, "commit")
  /\ UNCHANGED <<minerVars, miner, mu>>

\* worker.stop and CpuAgent.Stop, up to its send on the channel stop.
workerStop(t) ==
  /\ pc[t] = "stop"
  /\ mu = "none"
  /\ IF worker.mining /\ agent.isMining
     THEN /\ agent' = [agent EXCEPT !.isMining = FALSE]
          /\ mu' = t
          /\ Goto(t, "signal")
          /\ UNCHANGED worker
     ELSE /\ worker' = [worker EXCEPT !.mining = FALSE]
          /\ Goto(t, "unmining")
          /\ UNCHANGED <<agent, mu>>
  /\ UNCHANGED <<minerVars, miner>>

\* Mutant of workerStopped: worker.mining stays set.
workerStoppedMining(t) ==
  /\ pc[t] = "signal"
  /\ agent.stop = 0
  /\ agent' = [agent EXCEPT !.stop = 1, !.work = <<>>]
  /\ mu' = "none"
  /\ Goto(t, "unmining")
  /\ UNCHANGED <<minerVars, worker, miner>>

\* The signal is sent, the work channel is drained, the mutex is released.
workerStopped(t) ==
  /\ pc[t] = "signal"
  /\ agent.stop = 0
  /\ agent' = [agent EXCEPT !.stop = 1, !.work = <<>>]
  /\ worker' = [worker EXCEPT !.mining = FALSE]
  /\ mu' = "none"
  /\ Goto(t, "unmining")
  /\ UNCHANGED <<minerVars, miner>>

StopMining(t) ==
  /\ pc[t] = "unmining"
  /\ miner' = [miner EXCEPT !.mining = FALSE]
  /\ Goto(t, "unshould")
  /\ UNCHANGED <<minerVars, worker, mu, agent>>

StopShould(t) ==
  /\ pc[t] = "unshould"
  /\ miner' = [miner EXCEPT !.shouldStart = FALSE]
  /\ Goto(t, IF t = "sync" THEN "reshould" ELSE "idle")
  /\ UNCHANGED <<minerVars, worker, mu, agent>>

-----------------------------------------------------------------------------
(* Miner.update: the events of the downloader's first synchronisation.     *)

\* StartEvent.
syncStart ==
  /\ pc["sync"] = "before"
  /\ budget.syncs > 0
  /\ budget' = [budget EXCEPT !.syncs = @ - 1]
  /\ miner' = [miner EXCEPT !.canStart = FALSE]
  /\ Goto("sync", "check")
  /\ UNCHANGED <<chain, head, known, heads, txsCh, worker, mu, works, agent, mines, recv, userVars>>

syncCheck ==
  /\ pc["sync"] = "check"
  /\ Goto("sync", IF miner.mining THEN "stop" ELSE "syncing")
  /\ UNCHANGED <<minerVars, miner, worker, mu, agent>>

syncReshould ==
  /\ pc["sync"] = "reshould"
  /\ miner' = [miner EXCEPT !.shouldStart = TRUE]
  /\ Goto("sync", "syncing")
  /\ UNCHANGED <<minerVars, worker, mu, agent>>

\* DoneEvent or FailedEvent: shouldStart is read, then canStart and shouldStart are written.
syncDone ==
  /\ pc["sync"] = "syncing"
  /\ Goto("sync", IF miner.shouldStart THEN "restart" ELSE "finish")
  /\ UNCHANGED <<minerVars, miner, worker, mu, agent>>

syncCan ==
  /\ pc["sync"] \in {"restart", "finish"}
  /\ miner' = [miner EXCEPT !.canStart = TRUE]
  /\ Goto("sync", IF pc["sync"] = "restart" THEN "restart2" ELSE "finish2")
  /\ UNCHANGED <<minerVars, worker, mu, agent>>

syncClear ==
  /\ pc["sync"] \in {"restart2", "finish2"}
  /\ miner' = [miner EXCEPT !.shouldStart = FALSE]
  /\ Goto("sync", IF pc["sync"] = "restart2" THEN "should" ELSE "over")
  /\ UNCHANGED <<minerVars, worker, mu, agent>>

-----------------------------------------------------------------------------
(* The calls of the user.                                                  *)

\* StartMining authorizes the account and leaves Miner.Start to a goroutine.
CallStartMining(a) ==
  /\ budget.starts > 0
  /\ pc["starter"] = "idle"
  /\ Serial => pc["stopper"] = "idle"
  /\ signer' = a
  /\ budget' = [budget EXCEPT !.starts = @ - 1]
  /\ wanted' = TRUE
  /\ Goto("starter", "should")
  /\ UNCHANGED <<chain, head, known, heads, txsCh, miner, worker, mu, works, agent, mines, recv>>

CallStopMining ==
  /\ budget.stops > 0
  /\ pc["stopper"] = "idle"
  /\ Serial => pc["starter"] = "idle"
  /\ budget' = [budget EXCEPT !.stops = @ - 1]
  /\ wanted' = FALSE
  /\ Goto("stopper", "stop")
  /\ UNCHANGED <<chain, head, known, heads, txsCh, signer, miner, worker, mu, works, agent, mines, recv>>

-----------------------------------------------------------------------------

\* newWorker has committed a work that nobody seals.
Init ==
  /\ chain = <<[parent |-> 0, header |-> NewHeader(0, 0, NoBallot), txs |-> {}, td |-> 0,
                snap |-> newGenesisSnapshot, usable |-> TRUE]>>
  /\ head = 1
  /\ heads = 0
  /\ known = {}
  /\ txsCh = {}
  /\ signer = 0
  /\ miner = [mining |-> FALSE, canStart |-> TRUE, shouldStart |-> FALSE]
  /\ worker = [mining |-> FALSE, current |-> 1, must |-> TRUE, ev |-> {}]
  /\ mu = "none"
  /\ works \in {[w \in 1..MaxWorks |-> IF w = 1 THEN NewWork(1, b) ELSE NoWork] :
                 b \in Ballots(newGenesisSnapshot)}
  /\ agent = [isMining |-> FALSE, stop |-> 0, work |-> <<>>, loops |-> 0]
  /\ mines = {}
  /\ recv = <<>>
  /\ pc = [t \in Thread |-> IF t = "sync" THEN "before" ELSE "idle"]
  /\ budget \in Budgets
  /\ wanted = FALSE

Start(t) == StartShould(t) \/ StartEtherbase(t) \/ StartCan(t) \/ StartMining(t) \/ workerStart(t)
Stop(t) == workerStop(t) \/ workerStopped(t) \/ StopMining(t) \/ StopShould(t)
update == updateHead \/ (\E t \in txsCh : updateTxs(t)) \/ updateApply \/ commit("update") \/ push("update")
wait == (\E canon \in BOOLEAN : waitResult(canon)) \/ commit("wait") \/ push("wait")
sync == \/ syncCheck \/ syncReshould \/ syncDone \/ syncCan \/ syncClear
        \/ Start("sync") \/ Stop("sync") \/ commit("sync") \/ push("sync")
starter == Start("starter") \/ commit("starter") \/ push("starter")
stopper == Stop("stopper")
loop == agentWork \/ agentStop
mine == \E m \in mines : sealSigned(m) \/ sealFailed(m)
user == CallStopMining \/ \E a \in Account : CallStartMining(a)
network ==
  \/ \E p \in 1..Len(chain), a \in Address \ Account, canon \in BOOLEAN : Import(p, a, canon)
  \/ NewTx

Next ==
  \/ update \/ wait \/ sync \/ starter \/ stopper \/ loop \/ mine
  \/ syncStart \/ user \/ network

Spec == Init /\ [][Next]_vars

\* Every goroutine runs, a slot comes, and a synchronisation ends; nobody
\* has to call, to synchronise or to send blocks and transactions.
Fairness ==
  /\ WF_vars(update)
  /\ WF_vars(wait)
  /\ WF_vars(sync)
  /\ WF_vars(starter)
  /\ WF_vars(stopper)
  /\ WF_vars(loop)
  /\ WF_vars(mine)

FairSpec == Spec /\ Fairness

-----------------------------------------------------------------------------
(* Properties.                                                             *)

\* Every block the node writes verifies: what commitNewWork prepared on the
\* head it saw, and Seal signed later, is a block the other signers accept
\* (wait writes the blocks the node sealed itself without verifying them).
BlocksValid ==
  \A i \in 2..Len(chain) : VerifyHeader(chain[chain[i].parent].snap, chain[i].header)

\* commitNewWork sends on the agent's channel, and Stop on its stop channel,
\* while they hold worker.mu: neither waits forever, so that heads, results
\* and calls are still served.
MuReleased == (mu # "none") ~> (mu = "none")

\* The authorized account may sign the next block, and the block is not refused as empty.
CanSeal ==
  /\ worker.mining
  /\ budget.blocks > 0
  /\ chain[head].usable
  /\ ~PrepareFails(chain[head].snap)
  /\ Period = 0 => known \ chain[head].txs # {}


\* No two of StartMining's goroutine, StopMining and Miner.update run at once.
Alone == \A t, u \in {"starter", "stopper", "sync"} :
           pc[t] \notin {"idle", "before", "syncing", "over"} /\
           pc[u] \notin {"idle", "before", "syncing", "over"} => t = u

\* In the end the node mines iff the last call asked for it, whether it came
\* before, during or after the synchronisation, if the calls and the
\* downloader's events are handled one at a time.
Honoured == []Alone => <>[](miner.mining = wanted /\ worker.mining = wanted)

\* WriteBlockWithState "writes the block and all associated state".
StateWritten == \A i \in 1..Len(chain) : chain[i].usable

\* Seal: "Out-of-turn to sign, delay it a bit."
OutOfTurnDelayed ==
  \A m \in mines : m.stage = "slot" =>
    LET w == works[m.work]
    IN  w.difficulty < Cardinality(chain[w.parent].snap.Signers) => sealDelay(w) > 0

\* Miner.Start: "Network syncing, will start miner afterwards".
StartsAfterwards == <>[](wanted => miner.mining)

\* Seals, without waiting for the loop of an earlier start to end.
SealsRestarted == CanSeal ~> ~CanSeal

=============================================================================
