-------------------------- MODULE BestChain_proofs --------------------------
(***************************************************************************)
(* What the node's own chain is worth, for every tree of blocks.           *)
(*                                                                         *)
(* For any number of connection threads, miners and restarts: a block is   *)
(* worked on once.                                                         *)
(*                                                                         *)
(* For one connection thread beside the persist worker and the shutdown:   *)
(* the chain implements the abstract best-chain ledger, the UTXO set is    *)
(* its replay, a reorganisation stays within its limit, and what the node  *)
(* calls seen it has judged.  With two connections the unlocked add_block  *)
(* refutes the first of these, as the runs double_spend, unchecked_block   *)
(* and worse_tip show.                                                     *)
(*                                                                         *)
(* For one connection thread and any number of kills and restarts, after   *)
(* which the store may have holes: a running node only moves to a chain it *)
(* prefers, every block of the chain was validated, and no two of them lie *)
(* on different branches.                                                  *)
(***************************************************************************)
EXTENDS ChainNode_proofs, FiniteSetTheorems

-----------------------------------------------------------------------------
(* The changes of the chain *)

\* The chain changes in five places only: add_block, the replacement of the
\* tip, that by a synchronised branch, a miner's reload, and a start.
LEMMA ChainChange ==
  ASSUME [Next]_vars, chain' # chain
  PROVE  \/ \E t \in Ingest : AddAppend(t) \/ SwapCommit(t) \/ ReplaceCommit(t)
         \/ \E m \in Miners : ReloadAssign(m)
         \/ Crash \/ Restart
<1>1. Next BY DEF vars, memory
<1>2. ASSUME NEW t \in Net, Input(t) PROVE FALSE
  BY <1>2 DEF Input, ReceiveBlock, ReplaceBuild, memory
<1>3. ASSUME NEW t \in Ingest, IngestStep(t)
      PROVE  AddAppend(t) \/ SwapCommit(t) \/ ReplaceCommit(t)
  BY <1>3 DEF IngestStep, Classify, ValidateContext, ValidateInputs, ValidateRecheck,
     AddCheck, AddMark, AddApply, AddSchedule, Accept, ForkPrecheck, SwapCheck, ReplaceCheck,
     Announce, memory
<1>4. ASSUME NEW t \in Thread, SaveStep(t) PROVE FALSE
  BY <1>4 DEF SaveStep, SaveBegin, SaveClear, SavePut, SaveEnd, SaveAbort, RebuildUtxo,
     UtxoClear, UtxoPut, CountBlocks, SaveState, memory
<1>5. ASSUME NEW m \in Miners, MineStep(m) PROVE ReloadAssign(m)
  BY <1>5 DEF MineStep, ReloadRead, ReloadWipe, ReloadHeight, ReloadClean, ReloadVerify,
     MineFound, MineStop, MineBuild, memory
<1>6. ~(PersistTake \/ Stop \/ Join)
  BY DEF PersistTake, Stop, Join, memory
<1>7. CASE \E t \in Net : Input(t) BY <1>2, <1>7
<1>8. CASE \E t \in Ingest : IngestStep(t) BY <1>3, <1>8
<1>9. CASE \E t \in Thread : SaveStep(t) BY <1>4, <1>9
<1>10. CASE \E m \in Miners : MineStep(m) BY <1>5, <1>10
<1> QED BY <1>1, <1>6, <1>7, <1>8, <1>9, <1>10 DEF Next

\* The live chain is a chain of entries before and after a step, and the
\* block of an append is a block.
LEMMA AppendedBlock ==
  ASSUME TypeInv, NEW t \in Ingest, AddAppend(t)
  PROVE  chain \in Seq(Entry) /\ blk[t] \in Block
BY DEF TypeInv, Typed, TypeOK, MemoryType, InHand, Planning, Reloading, AddAppend, Ingest

\* One connection thread beside the persist worker and the shutdown; the node
\* may be killed and started again at any point.
OneReader == Miners = {} /\ \E t : Net = {t}

\* What was compared with the chain still wins the comparison: add_block takes
\* no lock, but the one thread that calls it is here.
Proposed ==
  \A t \in Net :
    /\ pc[t] = "commit" => BetterTip(blk[t])
    /\ pc[t] \in Planning => \E s \in Branches : ForksAt(s) /\ plan[t] = Candidate(s)
    /\ pc[t] = "adopt" => Replaces(plan[t])

\* The two reorganisations as the comparison has left them.
Swaps(t) == SwapCommit(t) /\ BetterTip(blk[t])
Adopts(t, s) ==
  /\ ReplaceCommit(t) /\ ForksAt(s)
  /\ plan[t] = Candidate(s) /\ Replaces(Candidate(s))

\* A swap that won the comparison finds the block below the tip.
LEMMA SwapsFacts ==
  ASSUME chain \in Seq(Entry), NEW t, Swaps(t)
  PROVE  /\ chain' = SwappedFor(blk[t]) /\ Competes(blk[t]) /\ Len(chain) >= 2
         /\ CompleteChainValid(chain') /\ Preferred(chain', chain)
         /\ args' = [args EXCEPT ![t] = Call(FALSE, FALSE, TRUE, "accept")]
         /\ Goto(t, "save") /\ UNCHANGED <<lock, gossip, utxo>>
<1>1. BetterTip(blk[t]) /\ SwapCommit(t) BY DEF Swaps
<1>2. Len(chain) >= 2 /\ Competes(blk[t]) BY <1>1 DEF BetterTip, Competes
<1>3. UNCHANGED utxo BY <1>1 DEF SwapCommit
<1> QED BY <1>1, <1>2, <1>3, SwapEnds DEF BetterTip

\* The adoption of a branch that won it.
LEMMA AdoptsFacts ==
  ASSUME NEW t, NEW s, Adopts(t, s)
  PROVE  /\ chain' = Candidate(s) /\ ForksAt(s) /\ Replaces(Candidate(s))
         /\ CompleteChainValid(chain') /\ Preferred(chain', chain)
BY DEF Adopts, ReplaceCommit, Replaces

\* The one connection does nothing else while it is about to reorganise.
LEMMA ChainStands ==
  ASSUME OneReader, TypeInv, [Next]_vars, ~(Crash \/ Restart),
         NEW u \in Net, pc'[u] \in {"commit"} \cup Planning
  PROVE  chain' = chain
<1>0. /\ Net = {u} /\ Ingest = Net /\ Miners = {} /\ u \in Thread
      /\ pc \in [Thread -> Step]
  BY DEF OneReader, Ingest, Thread, TypeInv, Typed, TypeOK
<1>1. ASSUME AddAppend(u) \/ SwapCommit(u) \/ ReplaceCommit(u) PROVE FALSE
  <2>1. PICK s \in {"apply", "mark", "save", "idle"} : Goto(u, s)
    BY <1>1 DEF AddAppend, SwapCommit, ReplaceCommit, Reject
  <2>2. pc'[u] = s BY <1>0, <2>1 DEF Goto
  <2> QED BY <2>1, <2>2 DEF Planning
<1> QED BY <1>0, <1>1, ChainChange

LEMMA ProposedStep ==
  ASSUME OneReader, TypeInv, Proposed, [Next]_vars
  PROVE  Proposed'
<1>0. Net \subseteq Thread BY DEF Thread, Ingest
<1>1. CASE Crash \/ Restart
  <2>1. \A u \in Net : pc'[u] = "idle" BY <1>0, <1>1 DEF Crash, Restart, Boot
  <2> QED BY <2>1 DEF Proposed, Planning
<1>2. CASE ~(Crash \/ Restart)
  <2> SUFFICES ASSUME NEW u \in Net, pc'[u] \in {"commit"} \cup Planning
               PROVE  /\ pc'[u] = "commit" => BetterTip(blk[u])'
                      /\ pc'[u] \in Planning =>
                           \E s \in Branches : ForksAt(s)' /\ plan'[u] = Candidate(s)'
                      /\ pc'[u] = "adopt" => Replaces(plan[u])'
    BY DEF Proposed, Planning
  <2>1. chain' = chain BY <1>2, ChainStands
  <2>2. /\ \A b : /\ Competes(b)' <=> Competes(b)
                  /\ SwappedFor(b)' = SwappedFor(b)
        /\ \A s : (ForksAt(s)' <=> ForksAt(s)) /\ Candidate(s)' = Candidate(s)
        /\ \A c : Replaces(c)' <=> Replaces(c)
    BY <2>1 DEF Competes, SwappedFor, TipHash, ForksAt, Candidate, Replaces
  <2>3. CASE pc'[u] = pc[u] /\ blk'[u] = blk[u] /\ plan'[u] = plan[u]
    <3>1. pc[u] = "commit" => BetterTip(blk[u])'
      BY <2>1, <2>3 DEF Proposed, BetterTip, Competes, SwappedFor
    <3>2. pc[u] = "adopt" => Replaces(plan[u])'
      BY <2>1, <2>3 DEF Proposed, Replaces
    <3>3. pc[u] \in Planning =>
            \E s \in Branches : ForksAt(s)' /\ plan'[u] = Candidate(s)'
      BY <2>2, <2>3 DEF Proposed
    <3> QED BY <2>3, <3>1, <3>2, <3>3
  <2>4. CASE UNCHANGED vars
    <3>1. pc'[u] = pc[u] /\ blk'[u] = blk[u] /\ plan'[u] = plan[u]
      BY <2>4 DEF vars, gossip, locals
    <3> QED BY <2>3, <3>1
  <2>a. u \in Thread /\ pc \in [Thread -> Step]
    BY <1>0 DEF TypeInv, Typed, TypeOK
  <2>b. plan \in [Thread -> Seq(Entry)] /\ blk \in [Thread -> Block \cup {NoBlock}]
    BY DEF TypeInv, Typed, TypeOK, LocalsType, GossipType
  <2>5. CASE SwapCheck(u)
    <3>1. \/ pc'[u] = "commit" /\ BetterTip(blk[u]) /\ blk' = blk
          \/ pc'[u] = "idle"
      BY <2>a, <2>5 DEF SwapCheck, Reject, Goto, gossip
    <3>2. pc'[u] = "commit" /\ BetterTip(blk[u]) /\ blk' = blk BY <3>1 DEF Planning
    <3>3. BetterTip(blk[u])' BY <2>1, <3>2 DEF BetterTip, Competes, SwappedFor
    <3> QED BY <3>2, <3>3 DEF Planning
  <2>6. CASE ReplaceCheck(u)
    <3>1. \/ pc[u] = "replace" /\ pc'[u] = "adopt" /\ Replaces(plan[u]) /\ plan' = plan
          \/ pc'[u] = "idle"
      BY <2>a, <2>6 DEF ReplaceCheck, Goto
    <3>2. pc[u] = "replace" /\ pc'[u] = "adopt" /\ Replaces(plan[u]) /\ plan' = plan
      BY <3>1 DEF Planning
    <3>3. Replaces(plan[u])' BY <2>1, <3>2 DEF Replaces
    <3>4. \E s \in Branches : ForksAt(s)' /\ plan'[u] = Candidate(s)'
      BY <2>2, <3>2 DEF Proposed, Planning
    <3> QED BY <3>2, <3>3, <3>4
  <2>7. ASSUME NEW s \in Branches, ReplaceBuild(u, s)
        PROVE  \E r \in Branches : ForksAt(r)' /\ plan'[u] = Candidate(r)'
    <3>1. ForksAt(s) /\ plan'[u] = Candidate(s)
      BY <2>a, <2>b, <2>7 DEF ReplaceBuild
    <3> QED BY <2>2, <3>1
  <2>8. ASSUME NEW s \in Branches, ReplaceBuild(u, s) PROVE pc'[u] = "replace"
    BY <2>a, <2>8 DEF ReplaceBuild, Goto
  <2>9. CASE Next
    <3>1. \/ pc'[u] = pc[u] /\ blk'[u] = blk[u] /\ plan'[u] = plan[u]
          \/ SwapCheck(u) \/ ReplaceCheck(u)
          \/ \E s \in Branches : ReplaceBuild(u, s)
      BY <1>2, <2>9, <2>a, ReorgSteps
    <3> QED BY <2>3, <2>5, <2>6, <2>7, <2>8, <3>1
  <2> QED BY <2>4, <2>9
<1> QED BY <1>1, <1>2

\* Between two starts the chain of the one connection changes in three ways:
\* by an append, and by a reorganisation that wins the comparison as it ends.
LEMMA ChainChangeNet ==
  ASSUME OneReader, TypeInv, Proposed, [Next]_vars, chain' # chain
  PROVE  \/ \E t \in Net :
              AddAppend(t) \/ Swaps(t) \/ \E s \in Branches : Adopts(t, s)
         \/ Crash \/ Restart
<1>1. Miners = {} /\ Ingest = Net BY DEF OneReader, Ingest
<1>2. ASSUME NEW t \in Net, SwapCommit(t) PROVE Swaps(t)
  BY <1>2 DEF Swaps, SwapCommit, Proposed
<1>3. ASSUME NEW t \in Net, ReplaceCommit(t) PROVE \E s \in Branches : Adopts(t, s)
  <2>1. pc[t] = "adopt" BY <1>3 DEF ReplaceCommit
  <2>2. PICK s \in Branches : ForksAt(s) /\ plan[t] = Candidate(s)
    BY <2>1 DEF Proposed, Planning
  <2>3. Replaces(plan[t]) BY <2>1 DEF Proposed
  <2> QED BY <1>3, <2>2, <2>3 DEF Adopts
<1> QED BY <1>1, <1>2, <1>3, ChainChange

\* One connection: while the process runs, a chain gives way to a preferred
\* one only.
LEMMA ChainChoice ==
  ASSUME OneReader, TypeInv, Proposed, [Next]_vars, chain' # chain, restarts' = restarts
  PROVE  Preferred(chain', chain)
<1>0. chain \in Seq(Entry) BY DEF TypeInv, Typed, TypeOK, MemoryType
<1>1. ASSUME NEW t \in Net, AddAppend(t) PROVE Preferred(chain', chain)
  <2>1. blk[t] \in Block BY <1>1, AppendedBlock DEF Ingest
  <2>2. chain' = Append(chain, Fresh(blk[t])) BY <1>1 DEF AddAppend
  <2> QED BY <1>0, <2>1, <2>2, LongerIsPreferred
<1>2. ASSUME NEW t \in Net, Swaps(t) PROVE Preferred(chain', chain)
  BY <1>0, <1>2, SwapsFacts
<1>3. ASSUME NEW t \in Net, NEW s \in Branches, Adopts(t, s)
      PROVE  Preferred(chain', chain)
  BY <1>3, AdoptsFacts
<1>4. ~(Crash \/ Restart)
  <2>1. restarts \in Nat BY BoundAssumption DEF TypeInv, Typed, TypeOK, LifeType
  <2> QED BY <2>1 DEF Crash, Restart
<1> QED BY <1>1, <1>2, <1>3, <1>4, ChainChangeNet

\* One connection thread beside the persist worker and the shutdown, and any
\* number of kills and restarts: a running node moves from a chain only to a
\* preferred one.  The chain of the comparison is the one that is replaced,
\* because nobody appends in between; the run worse_tip shows two connections
\* where somebody does.
THEOREM TipOnlyImproves == OneReader => (Spec => TipNeverWorsens)
<1> SUFFICES ASSUME OneReader PROVE Spec => TipNeverWorsens
  OBVIOUS
<1>1. Init => TypeInv /\ Proposed
  <2>1. Init => Proposed BY DEF Init, Proposed, Planning, Thread, Ingest
  <2> QED BY <2>1, TypesInit
<1>2. TypeInv /\ Proposed /\ [Next]_vars => TypeInv' /\ Proposed'
  BY TypesStep, ProposedStep
<1>3. TypeInv /\ Proposed /\ [Next]_vars
        => [chain' # chain /\ restarts' = restarts => Preferred(chain', chain)]_vars
  BY ChainChoice
<1> QED BY <1>1, <1>2, <1>3, PTL DEF Spec, TipNeverWorsens

-----------------------------------------------------------------------------
(* A block is worked on once *)

\* The control state of every thread, which restarts and mining keep.
ControlTyped ==
  /\ pc \in [Thread -> Step]
  /\ blk \in [Thread -> Block \cup {NoBlock}]
  /\ args \in [Thread -> CallType]

\* A miner is never in the steps of receive_block that mine_block does not
\* call.
NotMining == {"classify", "resolve", "swap", "commit"}
MinersElsewhere == \A m \in Miners : pc[m] \notin NotMining

ControlType == TypeInv /\ ControlTyped /\ MinersElsewhere

\* A block that a connection took from a peer stays in process while it is in
\* the thread's hand; the tip a reorganisation announces is not in process,
\* and its save carries the request with the lock held.
Tracked(t) ==
  /\ blk[t] # NoBlock => Reorganised(t) \/ blk[t] \in processing
  /\ args[t].next = "announce" => args[t].held /\ pc[t] \in SaveSteps

OnceInv == ControlType /\ ProcessedOnce /\ \A t \in Net : Tracked(t)

\* A step that takes no block in hand, lets none go, and neither starts nor
\* ends a reorganisation.
LEMMA OnceFrame ==
  ASSUME OnceInv, ControlType', UNCHANGED <<blk, processing>>,
         \A u \in Net : /\ Reorganised(u)' <=> Reorganised(u)
                        /\ args'[u].next = "announce" => args'[u].held /\ pc'[u] \in SaveSteps
  PROVE  OnceInv'
<1>1. ProcessedOnce' BY DEF OnceInv, ProcessedOnce
<1>2. ASSUME NEW u \in Net PROVE Tracked(u)' BY DEF OnceInv, Tracked
<1> QED BY <1>1, <1>2 DEF OnceInv

\* A thread that lets its block go: the block leaves the hand, and may leave
\* the blocks in process if the thread was not announcing a reorganisation.
LEMMA OnceLetGo ==
  ASSUME OnceInv, ControlType', NEW t \in Thread,
         blk' = [blk EXCEPT ![t] = NoBlock],
         \/ processing' = processing
         \/ t \in Net /\ ~Reorganised(t) /\ processing' = processing \ {blk[t]},
         \A u \in Net \ {t} : pc'[u] = pc[u] /\ args'[u] = args[u],
         t \in Net => args'[t].next # "announce"
  PROVE  OnceInv'
<1>1. \A u \in Thread : blk'[u] = IF u = t THEN NoBlock ELSE blk[u]
  BY DEF OnceInv, ControlType, ControlTyped
<1>2. Net \subseteq Thread BY DEF Thread, Ingest
<1>3. \A u \in Net \ {t} : Reorganised(u)' <=> Reorganised(u) BY DEF Reorganised
<1>4. ProcessedOnce' BY <1>1, <1>2, <1>3 DEF OnceInv, ProcessedOnce
<1>5. ASSUME NEW u \in Net PROVE Tracked(u)'
  <2>1. CASE u = t BY <1>1, <1>2, <2>1 DEF Tracked
  <2>2. CASE u # t
    <3>1. blk'[u] = blk[u] /\ (Reorganised(u)' <=> Reorganised(u)) BY <1>1, <1>2, <1>3, <2>2
    <3>2. args'[u].next = "announce" => args'[u].held /\ pc'[u] \in SaveSteps
      BY <2>2 DEF OnceInv, Tracked
    <3>3. ASSUME blk[u] # NoBlock, ~Reorganised(u) PROVE blk[u] \in processing'
      BY <2>2, <3>3 DEF OnceInv, Tracked, ProcessedOnce
    <3> QED BY <3>1, <3>2, <3>3 DEF Tracked
  <2> QED BY <2>1, <2>2
<1> QED BY <1>4, <1>5 DEF OnceInv

\* A thread in a step outside save_chain is not in a reorganisation.
LEMMA NotReorganised ==
  ASSUME OnceInv, NEW t \in Net, pc[t] \notin SaveSteps, pc[t] # "announce"
  PROVE  ~Reorganised(t) /\ args[t].next # "announce"
BY DEF OnceInv, Tracked, Reorganised

\* A thread's own step leaves the others where they are.
LEMMA OthersRemain ==
  ASSUME ControlType, NEW t \in Thread, NEW s,
         Goto(t, s), UNCHANGED args \/ \E c : args' = [args EXCEPT ![t] = c]
  PROVE  /\ \A u \in Thread \ {t} : pc'[u] = pc[u] /\ args'[u] = args[u]
         /\ pc'[t] = s
BY DEF ControlType, ControlTyped, Goto

\* Where save_chain, an exception or a request may send a thread.
LEMMA Destinations ==
  /\ \A t : AfterSave(t) \in {"rebuild", "uclear", "count"}
  /\ {"rebuild", "uclear", "count"} \subseteq SaveSteps
  /\ SaveSteps \subseteq Step
  /\ {"idle", "accept", "mark", "announce", "exit"} \subseteq Step \ SaveSteps
  /\ NoCall \in CallType /\ NoCall.next = "idle"
BY DEF AfterSave, SaveSteps, Step, NoCall, Call, CallType

\* No step sends a miner to where only a connection goes.
LEMMA MinersStep ==
  ASSUME ControlType, [Next]_vars
  PROVE  MinersElsewhere'
<1> USE Destinations DEF memory, locals, gossip, locks, disk, life
<1> DEFINE Moves(t) == \E s \in Step : Goto(t, s) /\ (t \in Miners => s \notin NotMining)
<1>0. /\ Worker \in Thread \ Miners /\ Main \in Thread \ Miners
      /\ Net \subseteq Thread \ Miners /\ Miners \subseteq Thread
  BY ThreadAssumption DEF Thread, Ingest
<1>1. ASSUME NEW t \in Thread, Moves(t) PROVE MinersElsewhere'
  <2>1. PICK s \in Step : Goto(t, s) /\ (t \in Miners => s \notin NotMining) BY <1>1
  <2>2. \A u \in Thread : pc'[u] = IF u = t THEN s ELSE pc[u]
    BY <2>1 DEF Goto, ControlType, ControlTyped
  <2> QED BY <1>0, <2>1, <2>2 DEF ControlType, MinersElsewhere
<1>2. CASE UNCHANGED vars BY <1>2 DEF vars, ControlType, MinersElsewhere
<1>3. ASSUME NEW t \in Net, Input(t) PROVE Moves(t)
  BY <1>0, <1>3 DEF Input, ReceiveBlock, ReplaceBuild, Step
<1>4. ASSUME NEW t \in Ingest, IngestStep(t) PROVE Moves(t)
  <2>1. t \in Miners => pc[t] \notin NotMining BY DEF ControlType, MinersElsewhere
  <2>2. {"idle", "check", "context", "inputs", "recheck", "append", "mark", "apply",
         "schedule", "accept", "save", "adopt"} \subseteq Step \ NotMining
        /\ {"resolve", "swap", "commit"} \subseteq Step
    BY DEF Step, NotMining
  <2>3. CASE AddSchedule(t) BY <2>2, <2>3 DEF AddSchedule
  <2>4. CASE Classify(t) BY <2>2, <2>4 DEF Classify, Reject
  <2>5. CASE ValidateContext(t) \/ ValidateInputs(t) \/ ValidateRecheck(t)
    BY <2>2, <2>5 DEF ValidateContext, ValidateInputs, ValidateRecheck, Fail, Reject
  <2>6. CASE AddCheck(t) BY <1>0, <2>2, <2>6 DEF AddCheck, Fail, Reject
  <2>7. CASE AddAppend(t) \/ AddMark(t) \/ AddApply(t) \/ Accept(t) \/ Announce(t)
    BY <2>2, <2>7 DEF AddAppend, AddMark, AddApply, Accept, Announce
  <2>8. CASE ForkPrecheck(t) BY <2>1, <2>2, <2>8 DEF ForkPrecheck, Reject, NotMining
  <2>9. CASE SwapCheck(t) BY <2>1, <2>2, <2>9 DEF SwapCheck, Reject, NotMining
  <2>10. CASE SwapCommit(t) BY <2>2, <2>10 DEF SwapCommit, Reject
  <2>11. CASE ReplaceCheck(t) BY <2>2, <2>11 DEF ReplaceCheck
  <2>12. CASE ReplaceCommit(t) BY <2>2, <2>12 DEF ReplaceCommit
  <2> QED BY <1>4, <2>3, <2>4, <2>5, <2>6, <2>7, <2>8, <2>9, <2>10, <2>11, <2>12 DEF IngestStep
<1>5. ASSUME NEW t \in Thread, SaveStep(t) PROVE Moves(t)
  <2>1. /\ {"idle", "exit", "accept", "mark", "announce", "clear", "put", "saved",
            "rebuild", "uclear", "uput", "count", "state"} \subseteq Step \ NotMining
        /\ "resolve" \in Step
    BY DEF Step, NotMining
  <2>2. args[t].next \in {"idle", "accept", "mark", "announce", "exit"}
    BY DEF ControlType, ControlTyped, CallType
  <2>3. CASE SaveAbort(t) BY <1>0, <2>1, <2>3 DEF SaveAbort, Reject, Fail
  <2>4. CASE SaveBegin(t) BY <2>1, <2>4 DEF SaveBegin
  <2>5. CASE ~SaveAbort(t) /\ ~SaveBegin(t)
    BY <1>5, <2>1, <2>2, <2>5 DEF SaveStep, SaveClear, SavePut, SaveEnd, RebuildUtxo,
       UtxoClear, UtxoPut, CountBlocks, SaveState
  <2> QED BY <2>3, <2>4, <2>5
<1>6. ASSUME NEW m \in Miners, MineStep(m) PROVE Moves(m)
  BY <1>0, <1>6 DEF MineStep, ReloadRead, ReloadWipe, ReloadAssign, ReloadHeight, ReloadClean,
     ReloadVerify, MineFound, MineStop, MineBuild, Fail, Reject, Step, NotMining
<1>7. PersistTake => Moves(Worker) BY <1>0 DEF PersistTake, Step
<1>8. Stop \/ Join => Moves(Main) BY <1>0 DEF Stop, Join, Step
<1>9. CASE Crash \/ Restart
  BY <1>0, <1>9 DEF Crash, Restart, Boot, MinersElsewhere, NotMining
<1> HIDE DEF Moves
<1>10. Ingest \subseteq Thread BY DEF Thread
<1> QED BY <1>0, <1>1, <1>2, <1>3, <1>4, <1>5, <1>6, <1>7, <1>8, <1>9, <1>10 DEF Next

\* Every step keeps the control state well formed.
LEMMA ControlStep ==
  ASSUME ControlType, [Next]_vars
  PROVE  ControlType'
<1>1. TypeInv' BY TypesStep DEF ControlType
<1>2. ControlTyped'
  BY <1>1 DEF ControlTyped, TypeInv, Typed, TypeOK, LocalsType, GossipType
<1> QED BY <1>1, <1>2, MinersStep DEF ControlType

\* An incoming block is in no other connection's hand; a branch is in none.
LEMMA InputOnce ==
  ASSUME OnceInv, ControlType', NEW t \in Net, Input(t)
  PROVE  OnceInv'
<1> USE DEF memory, locals, gossip, locks, disk, life
<1>0. t \in Thread /\ Net \subseteq Thread /\ ControlType BY DEF Thread, Ingest, OnceInv
<1>1. ASSUME NEW b \in Block, ReceiveBlock(t, b) PROVE OnceInv'
  <2>1. /\ pc[t] = "idle" /\ b \notin processing /\ args' = args
        /\ processing' = processing \cup {b} /\ Goto(t, "classify")
        /\ blk' = [blk EXCEPT ![t] = b]
    BY <1>1 DEF ReceiveBlock
  <2>2. ~Reorganised(t) /\ args[t].next # "announce"
    BY <2>1, NotReorganised DEF SaveSteps
  <2>3. /\ \A u \in Thread \ {t} : pc'[u] = pc[u]
        /\ pc'[t] = "classify"
    BY <1>0, <2>1, OthersRemain
  <2>4. \A u \in Net : Reorganised(u)' <=> Reorganised(u)
    BY <1>0, <2>1, <2>2, <2>3 DEF Reorganised
  <2>5. \A u \in Thread : blk'[u] = IF u = t THEN b ELSE blk[u]
    BY <1>0, <2>1 DEF ControlType, ControlTyped
  <2>6. ProcessedOnce'
    <3>1. \A u \in Net \ {t} : blk[u] = b => Reorganised(u)
      BY <2>1, GenesisAssumption DEF OnceInv, Tracked
    <3> QED BY <1>0, <2>4, <2>5, <3>1 DEF OnceInv, ProcessedOnce
  <2>7. ASSUME NEW u \in Net PROVE Tracked(u)'
    BY <1>0, <2>1, <2>2, <2>3, <2>4, <2>5 DEF OnceInv, Tracked
  <2> QED BY <2>6, <2>7 DEF OnceInv
<1>2. ASSUME NEW s \in Branches, ReplaceBuild(t, s) PROVE OnceInv'
  <2>1. /\ pc[t] = "idle" /\ Goto(t, "replace") /\ UNCHANGED <<args, blk, processing>>
    BY <1>2 DEF ReplaceBuild
  <2>2. ~Reorganised(t) /\ args[t].next # "announce"
    BY <2>1, NotReorganised DEF SaveSteps
  <2>3. /\ \A u \in Thread \ {t} : pc'[u] = pc[u]
        /\ pc'[t] = "replace"
    BY <1>0, <2>1, OthersRemain
  <2>4. \A u \in Net : Reorganised(u)' <=> Reorganised(u)
    BY <1>0, <2>1, <2>2, <2>3 DEF Reorganised
  <2>5. \A u \in Net : args'[u].next = "announce" => args'[u].held /\ pc'[u] \in SaveSteps
    BY <1>0, <2>1, <2>2, <2>3 DEF OnceInv, Tracked
  <2> QED BY <2>1, <2>4, <2>5, OnceFrame
<1> QED BY <1>1, <1>2 DEF Input

\* A thread on its way through validation and add_block keeps its block or
\* lets it go; a branch that replaces the chain is announced by the thread
\* that built it.
LEMMA IngestOnce ==
  ASSUME OnceInv, ControlType', NEW t \in Ingest, IngestStep(t)
  PROVE  OnceInv'
<1> USE DEF memory, locals, gossip, locks, disk, life
<1>0. t \in Thread /\ Net \subseteq Thread /\ ControlType BY DEF Thread, Ingest, OnceInv
<1>1. t \in Net /\ pc[t] # "announce" => ~Reorganised(t) /\ args[t].next # "announce"
  <2>1. pc[t] \notin SaveSteps
    BY DEF IngestStep, Classify, ValidateContext, ValidateInputs, ValidateRecheck,
       AddCheck, AddAppend, AddMark, AddApply, AddSchedule, Accept, ForkPrecheck, SwapCheck,
       SwapCommit, ReplaceCheck, ReplaceCommit, Announce, SaveSteps
  <2> QED BY <2>1, NotReorganised
<1>2. ASSUME Fail(t) \/ (t \in Net /\ Reject(t)), args' = args, pc[t] # "announce"
      PROVE  OnceInv'
  <2>1. /\ blk' = [blk EXCEPT ![t] = NoBlock] /\ Goto(t, "idle")
        /\ \/ processing' = processing
           \/ t \in Net /\ processing' = processing \ {blk[t]}
    BY <1>2 DEF Reject, Fail
  <2>2. \A u \in Thread \ {t} : pc'[u] = pc[u] /\ args'[u] = args[u]
    BY <1>0, <1>2, <2>1, OthersRemain
  <2>3. t \in Net => ~Reorganised(t) /\ args'[t].next # "announce" BY <1>1, <1>2
  <2> QED BY <1>0, <2>1, <2>2, <2>3, OnceLetGo
<1>3. ASSUME NEW s \in Step, s # "announce", Goto(t, s), args' = args, pc[t] # "announce",
             UNCHANGED <<blk, processing>>
      PROVE  OnceInv'
  <2>1. /\ \A u \in Thread \ {t} : pc'[u] = pc[u]
        /\ pc'[t] = s
    BY <1>0, <1>3, OthersRemain
  <2>2. \A u \in Net : Reorganised(u)' <=> Reorganised(u)
    BY <1>0, <1>1, <1>3, <2>1 DEF Reorganised
  <2>3. \A u \in Net : args'[u].next = "announce" => args'[u].held /\ pc'[u] \in SaveSteps
    BY <1>0, <1>1, <1>3, <2>1 DEF OnceInv, Tracked
  <2> QED BY <1>3, <2>2, <2>3, OnceFrame
<1>a. {"idle", "check", "context", "inputs", "recheck", "append", "mark", "apply",
       "schedule", "accept", "resolve", "swap", "commit", "adopt", "save"} \subseteq Step
  BY DEF Step
<1>b. t \notin Net => t \in Miners BY DEF Ingest
<1>c. pc[t] \in {"classify", "resolve", "swap", "commit"} => t \in Net
  BY <1>0, <1>b DEF ControlType, MinersElsewhere, NotMining
<1>d. pc[t] = "adopt" => t \in Net BY <1>0 DEF ControlType, TypeInv, Planned, Planning
<1>4. CASE Classify(t)
  BY <1>2, <1>3, <1>4, <1>a, <1>c DEF Classify
<1>5. CASE ValidateContext(t) \/ ValidateInputs(t) \/ ValidateRecheck(t)
  BY <1>2, <1>3, <1>5, <1>a DEF ValidateContext, ValidateInputs, ValidateRecheck
<1>6. CASE AddCheck(t)
  BY <1>2, <1>3, <1>6, <1>a DEF AddCheck
<1>7. CASE AddAppend(t) \/ AddMark(t) \/ AddApply(t)
  BY <1>3, <1>7, <1>a DEF AddAppend, AddMark, AddApply
<1>8. CASE AddSchedule(t)
  <2>1. CASE phase # "final" BY <1>3, <1>8, <1>a, <2>1 DEF AddSchedule
  <2>2. CASE phase = "final"
    <3> DEFINE next == IF blk[t] = Genesis THEN "mark" ELSE "accept"
               c == Call(blk[t] = Genesis, blk[t] = Genesis, FALSE, next)
    <3>1. /\ Goto(t, "save") /\ args' = [args EXCEPT ![t] = c] /\ pc[t] = "schedule"
          /\ UNCHANGED <<blk, processing>>
      BY <1>8, <2>2 DEF AddSchedule
    <3>2. c.next # "announce" BY DEF Call
    <3>3. /\ \A u \in Thread \ {t} : pc'[u] = pc[u] /\ args'[u] = args[u]
          /\ pc'[t] = "save"
      BY <1>0, <3>1, OthersRemain
    <3>4. args'[t].next # "announce" BY <1>0, <3>1, <3>2 DEF ControlType, ControlTyped
    <3>5. \A u \in Net : Reorganised(u)' <=> Reorganised(u)
      BY <1>0, <1>1, <3>1, <3>3, <3>4 DEF Reorganised
    <3>6. \A u \in Net : args'[u].next = "announce" => args'[u].held /\ pc'[u] \in SaveSteps
      BY <1>0, <3>3, <3>4 DEF OnceInv, Tracked
    <3> QED BY <3>1, <3>5, <3>6, OnceFrame
  <2> QED BY <2>1, <2>2
<1>9. CASE Accept(t)
  <2>1. /\ blk' = [blk EXCEPT ![t] = NoBlock] /\ Goto(t, "idle") /\ args' = args
        /\ \/ processing' = processing
           \/ t \in Net /\ processing' = processing \ {blk[t]}
        /\ pc[t] = "accept"
    BY <1>9 DEF Accept
  <2>2. \A u \in Thread \ {t} : pc'[u] = pc[u] /\ args'[u] = args[u]
    BY <1>0, <2>1, OthersRemain
  <2>3. t \in Net => ~Reorganised(t) /\ args'[t].next # "announce" BY <1>1, <2>1
  <2> QED BY <1>0, <2>1, <2>2, <2>3, OnceLetGo
<1>10. CASE ForkPrecheck(t)
  BY <1>2, <1>3, <1>10, <1>a, <1>c DEF ForkPrecheck
<1>11. CASE SwapCheck(t)
  BY <1>2, <1>3, <1>11, <1>a, <1>c DEF SwapCheck
<1>12. CASE SwapCommit(t)
  <2> DEFINE c == Call(FALSE, FALSE, TRUE, "accept")
  <2>1. CASE Reject(t) /\ UNCHANGED args
    BY <1>2, <1>12, <1>c, <2>1 DEF SwapCommit
  <2>2. CASE ~(Reject(t) /\ UNCHANGED args)
    <3>1. /\ Goto(t, "save") /\ args' = [args EXCEPT ![t] = c] /\ pc[t] = "commit"
          /\ UNCHANGED <<blk, processing>>
      BY <1>12, <2>2 DEF SwapCommit
    <3>2. c.next # "announce" BY DEF Call
    <3>3. /\ \A u \in Thread \ {t} : pc'[u] = pc[u] /\ args'[u] = args[u]
          /\ pc'[t] = "save"
      BY <1>0, <3>1, OthersRemain
    <3>4. args'[t].next # "announce" BY <1>0, <3>1, <3>2 DEF ControlType, ControlTyped
    <3>5. \A u \in Net : Reorganised(u)' <=> Reorganised(u)
      BY <1>0, <1>1, <3>1, <3>3, <3>4 DEF Reorganised
    <3>6. \A u \in Net : args'[u].next = "announce" => args'[u].held /\ pc'[u] \in SaveSteps
      BY <1>0, <3>3, <3>4 DEF OnceInv, Tracked
    <3> QED BY <3>1, <3>5, <3>6, OnceFrame
  <2> QED BY <2>1, <2>2
<1>14. CASE ReplaceCheck(t)
  BY <1>3, <1>14, <1>a DEF ReplaceCheck
<1>15. CASE ReplaceCommit(t)
  <2> DEFINE c == Call(TRUE, FALSE, TRUE, "announce")
  <2>1. /\ pc[t] = "adopt" /\ processing' = processing /\ Goto(t, "save")
        /\ args' = [args EXCEPT ![t] = c] /\ blk' = [blk EXCEPT ![t] = Last(plan[t]).blk]
    BY <1>15 DEF ReplaceCommit
  <2>2. c \in CallType /\ c.next = "announce" /\ c.held BY DEF Call, CallType
  <2>3. /\ \A u \in Thread \ {t} : pc'[u] = pc[u] /\ args'[u] = args[u]
        /\ pc'[t] = "save"
    BY <1>0, <2>1, OthersRemain
  <2>4. args'[t] = c BY <1>0, <2>1 DEF ControlType, ControlTyped
  <2>5. \A u \in Thread \ {t} : blk'[u] = blk[u] BY <1>0, <2>1 DEF ControlType, ControlTyped
  <2>6. Reorganised(t)' /\ \A u \in Net \ {t} : Reorganised(u)' <=> Reorganised(u)
    BY <1>0, <2>2, <2>3, <2>4 DEF Reorganised
  <2>7. ProcessedOnce' BY <1>0, <2>5, <2>6 DEF OnceInv, ProcessedOnce
  <2>8. ASSUME NEW u \in Net PROVE Tracked(u)'
    <3>1. CASE u = t BY <2>2, <2>3, <2>4, <2>6, <3>1 DEF Tracked, SaveSteps
    <3>2. CASE u # t BY <1>0, <2>1, <2>3, <2>5, <2>6, <3>2 DEF OnceInv, Tracked
    <3> QED BY <3>1, <3>2
  <2> QED BY <2>7, <2>8 DEF OnceInv
<1>13. CASE Announce(t)
  <2>1. /\ blk' = [blk EXCEPT ![t] = NoBlock] /\ Goto(t, "idle") /\ args' = args
        /\ processing' = processing /\ pc[t] = "announce"
    BY <1>13 DEF Announce
  <2>2. \A u \in Thread \ {t} : pc'[u] = pc[u] /\ args'[u] = args[u]
    BY <1>0, <2>1, OthersRemain
  <2>3. t \in Net => args[t].next # "announce"
    BY <2>1 DEF OnceInv, Tracked, SaveSteps
  <2> QED BY <1>0, <2>1, <2>2, <2>3, OnceLetGo
<1> QED BY <1>4, <1>5, <1>6, <1>7, <1>8, <1>9, <1>10, <1>11, <1>12, <1>13, <1>14, <1>15
        DEF IngestStep

\* A save brings its caller to its next step; only that of a reorganisation
\* leads to the announcement.
LEMMA SaveOnce ==
  ASSUME OnceInv, ControlType', NEW t \in Thread, SaveStep(t)
  PROVE  OnceInv'
<1> USE DEF memory, locals, gossip, locks, disk, life
<1>0. Net \subseteq Thread /\ ControlType BY DEF Thread, Ingest, OnceInv
<1>a. pc[t] \in SaveSteps
  BY DEF SaveStep, SaveBegin, SaveClear, SavePut, SaveEnd, SaveAbort, RebuildUtxo,
     UtxoClear, UtxoPut, CountBlocks, SaveState, SaveSteps
<1>b. pc[t] # "announce" BY <1>a DEF SaveSteps
<1>1. ASSUME NEW s \in SaveSteps, Goto(t, s), args' = args, UNCHANGED <<blk, processing>>
      PROVE  OnceInv'
  <2>1. /\ \A u \in Thread \ {t} : pc'[u] = pc[u]
        /\ pc'[t] = s
    BY <1>0, <1>1, OthersRemain
  <2>2. s # "announce" BY DEF SaveSteps
  <2>3. \A u \in Net : Reorganised(u)' <=> Reorganised(u)
    BY <1>0, <1>1, <1>b, <2>1, <2>2 DEF Reorganised
  <2>4. \A u \in Net : args'[u].next = "announce" => args'[u].held /\ pc'[u] \in SaveSteps
    BY <1>0, <1>1, <2>1 DEF OnceInv, Tracked
  <2> QED BY <1>1, <2>3, <2>4, OnceFrame
<1>c. {"rebuild", "uclear", "uput", "count", "state", "put", "clear", "saved"} \subseteq SaveSteps
  BY DEF SaveSteps
<1>2. CASE SaveBegin(t)
  BY <1>1, <1>2, <1>c, Destinations DEF SaveBegin
<1>3. CASE SaveClear(t) \/ SavePut(t) \/ SaveEnd(t)
  BY <1>1, <1>3, <1>c, Destinations DEF SaveClear, SavePut, SaveEnd
<1>4. CASE RebuildUtxo(t) \/ UtxoClear(t) \/ UtxoPut(t) \/ CountBlocks(t)
  BY <1>1, <1>4, <1>c DEF RebuildUtxo, UtxoClear, UtxoPut, CountBlocks
<1>5. CASE SaveState(t)
  <2>1. Goto(t, args[t].next) /\ args' = [args EXCEPT ![t] = NoCall]
        /\ UNCHANGED <<blk, processing>>
    BY <1>5 DEF SaveState
  <2>2. /\ \A u \in Thread \ {t} : pc'[u] = pc[u] /\ args'[u] = args[u]
        /\ pc'[t] = args[t].next
    BY <1>0, <2>1, OthersRemain
  <2>3. args'[t].next = "idle" BY <1>0, <2>1, Destinations DEF ControlType, ControlTyped
  <2>4. \A u \in Net : Reorganised(u)' <=> Reorganised(u)
    BY <1>0, <1>b, <2>2, <2>3 DEF Reorganised
  <2>5. \A u \in Net : args'[u].next = "announce" => args'[u].held /\ pc'[u] \in SaveSteps
    BY <1>0, <2>2, <2>3 DEF OnceInv, Tracked
  <2> QED BY <2>1, <2>4, <2>5, OnceFrame
<1>6. CASE SaveAbort(t)
  <2>1. args' = [args EXCEPT ![t] = NoCall] /\ \E s : Goto(t, s)
    BY <1>6 DEF SaveAbort, Reject, Fail
  <2>2. \A u \in Thread \ {t} : pc'[u] = pc[u] /\ args'[u] = args[u]
    BY <1>0, <2>1, OthersRemain
  <2>3. args'[t].next = "idle" BY <1>0, <2>1, Destinations DEF ControlType, ControlTyped
  <2>4. CASE /\ blk' = [blk EXCEPT ![t] = NoBlock]
             /\ \/ processing' = processing
                \/ t \in Net /\ args[t].next = "accept" /\ processing' = processing \ {blk[t]}
    <3>1. args[t].next = "accept" => ~Reorganised(t) BY <1>b DEF Reorganised
    <3> QED BY <1>0, <2>2, <2>3, <2>4, <3>1, OnceLetGo
  <2>5. CASE /\ UNCHANGED <<blk, processing>>
             /\ t \in Net => ~args[t].held /\ Goto(t, "resolve")
    <3>1. t \in Net => args[t].next # "announce" /\ pc'[t] # "announce"
      BY <1>0, <2>5 DEF OnceInv, Tracked, Goto, ControlType, ControlTyped
    <3>2. \A u \in Net : Reorganised(u)' <=> Reorganised(u)
      BY <1>0, <1>b, <2>2, <2>3, <3>1 DEF Reorganised
    <3>3. \A u \in Net : args'[u].next = "announce" => args'[u].held /\ pc'[u] \in SaveSteps
      BY <1>0, <2>2, <2>3 DEF OnceInv, Tracked
    <3> QED BY <2>5, <3>2, <3>3, OnceFrame
  <2>6. Worker \notin Net /\ Main \notin Net /\ Net \cap Miners = {}
    BY ThreadAssumption
  <2> QED BY <1>6, <2>4, <2>5, <2>6 DEF SaveAbort, Reject, Fail
<1> QED BY <1>2, <1>3, <1>4, <1>5, <1>6 DEF SaveStep

\* Miners, the worker and the shutdown take no block from a peer.
LEMMA BesideOnce ==
  ASSUME OnceInv, ControlType', NEW t \in Thread \ Net,
         \/ t \in Miners /\ MineStep(t)
         \/ t = Worker /\ PersistTake
         \/ t = Main /\ (Stop \/ Join)
  PROVE  OnceInv'
<1> USE DEF memory, locals, gossip, locks, disk, life
<1>0. Net \subseteq Thread /\ ControlType BY DEF Thread, Ingest, OnceInv
<1>1. \E s : Goto(t, s)
  BY DEF MineStep, ReloadRead, ReloadWipe, ReloadAssign, ReloadHeight, ReloadClean,
     ReloadVerify, MineFound, MineStop, MineBuild, Fail, Reject, PersistTake, Stop,
     Join
<1>2. args' = args \/ \E c : args' = [args EXCEPT ![t] = c]
  BY DEF MineStep, ReloadRead, ReloadWipe, ReloadAssign, ReloadHeight, ReloadClean,
     ReloadVerify, MineFound, MineStop, MineBuild, Fail, PersistTake, Stop, Join
<1>3. blk' = blk \/ \E b : blk' = [blk EXCEPT ![t] = b]
  BY DEF MineStep, ReloadRead, ReloadWipe, ReloadAssign, ReloadHeight, ReloadClean,
     ReloadVerify, MineFound, MineStop, MineBuild, Fail, PersistTake, Stop, Join,
     Reject
<1>4. processing' = processing
  BY DEF MineStep, ReloadRead, ReloadWipe, ReloadAssign, ReloadHeight, ReloadClean,
     ReloadVerify, MineFound, MineStop, MineBuild, Fail, PersistTake, Stop, Join
<1>5. \A u \in Net : pc'[u] = pc[u] /\ args'[u] = args[u] /\ blk'[u] = blk[u]
  <2>1. \A u \in Net : pc'[u] = pc[u] /\ args'[u] = args[u]
    BY <1>0, <1>1, <1>2, OthersRemain
  <2>2. \A u \in Net : blk'[u] = blk[u]
    BY <1>0, <1>3 DEF ControlType, ControlTyped
  <2> QED BY <2>1, <2>2
<1>6. \A u \in Net : Reorganised(u)' <=> Reorganised(u) BY <1>5 DEF Reorganised
<1> QED BY <1>4, <1>5, <1>6 DEF OnceInv, ProcessedOnce, Tracked

\* The invariant is kept by every step, a restart and mining included.
LEMMA OnceStep == OnceInv /\ [Next]_vars => OnceInv'
<1> SUFFICES ASSUME OnceInv, [Next]_vars PROVE OnceInv'
  OBVIOUS
<1>1. ControlType' BY ControlStep DEF OnceInv
<1>2. CASE UNCHANGED vars
  <2>1. \A u \in Net : Reorganised(u)' <=> Reorganised(u)
    BY <1>2 DEF Reorganised, vars, locals
  <2> QED BY <1>1, <1>2, <2>1, OnceFrame DEF vars, gossip, locals, OnceInv, Tracked
<1>3. CASE Crash \/ Restart
  <2>1. /\ blk' = [u \in Thread |-> NoBlock] /\ args' = [u \in Thread |-> NoCall]
    BY <1>3 DEF Crash, Restart, Boot
  <2>2. Net \subseteq Thread BY DEF Thread, Ingest
  <2>3. \A u \in Net : blk'[u] = NoBlock /\ args'[u].next = "idle"
    BY <2>1, <2>2, Destinations
  <2> QED BY <1>1, <2>3 DEF OnceInv, ProcessedOnce, Tracked
<1>4. /\ Worker \in Thread \ Net /\ Main \in Thread \ Net /\ Miners \subseteq Thread \ Net
  BY ThreadAssumption DEF Thread, Ingest
<1> QED BY <1>1, <1>2, <1>3, <1>4, InputOnce, IngestOnce, SaveOnce, BesideOnce DEF Next

\* Two connections never work on the same block at once, for any number of
\* connections and miners, and through restarts.
THEOREM NoBlockTwice == Spec => []ProcessedOnce
<1>1. Init => OnceInv
  <2> SUFFICES ASSUME Init PROVE OnceInv
    OBVIOUS
  <2>0. Net \subseteq Thread /\ Miners \subseteq Thread BY DEF Thread, Ingest
  <2>1. ControlType
    BY <2>0, Destinations, TypesInit
       DEF Init, ControlType, ControlTyped, MinersElsewhere, NotMining, NoOpts, Step
  <2>2. \A u \in Net : blk[u] = NoBlock /\ args[u].next = "idle"
    BY <2>0, Destinations DEF Init
  <2> QED BY <2>1, <2>2 DEF OnceInv, ProcessedOnce, Tracked
<1>2. OnceInv => ProcessedOnce BY DEF OnceInv
<1> QED BY <1>1, <1>2, OnceStep, PTL DEF Spec

-----------------------------------------------------------------------------
(* One connection: the invariant *)

\* One connection thread beside the persist worker and the shutdown, on a data
\* directory that is empty or holds a sound chain.
OneConnection == NoReload /\ \E t : Net = {t}
StartsSound == Best!Acceptable(FreshSeq(Stored))

\* The steps of add_block, and of what follows it, after the chain changed.
AfterChange == {"mark", "apply", "schedule", "accept", "announce"} \cup SaveSteps

\* The block b extends, or may fork, the chain c: ContextValid and
\* PotentialFork on a given chain.
Extends(b, c) ==
  /\ b \in FullValid
  /\ Height[b] = Len(c)
  /\ Parent[b] = TipHash(c)
  /\ c = <<>> => b = Genesis
Forks(b, c) ==
  /\ c # <<>>
  /\ ~(Height[b] > Height[Last(c).blk] + 1)
  /\ Parent[b] # TipHash(c)

\* What a thread knows at step s of the block b in its hand, when the chain is
\* c and the UTXO set is u: what its validation has established still holds;
\* add_block is reached by a validated block, or by one that cannot attach.
Validated(s, b, c, u) ==
  /\ s \in {"inputs", "recheck", "append"} => Extends(b, c)
  /\ s \in {"recheck", "append"} => Spends[b] \subseteq u
  /\ s = "check" => (Extends(b, c) /\ Spends[b] \subseteq u) \/ Forks(b, c)

\* The UTXO set is one block behind the chain before UTXODB.update, anything
\* in a reorganisation up to its rebuild, and the chain's replay otherwise.
Settled(s, b, a, c, u) ==
  IF s = "apply" \/ (s = "mark" /\ b # Genesis)
    THEN Replay(c) = ApplyBlock(u, b)
    ELSE \/ a.held /\ s \in {"save", "clear", "put", "saved", "rebuild"}
         \/ u = Replay(c)

\* After a change of the chain its tip is in hand, and a save returns to the
\* steps of add_block only where it was called from them.
TipInHand(s, b, c) == s \in AfterChange => c # <<>> /\ b = Last(c).blk
Returns(s, b, a) ==
  /\ a.next # "idle" => s \in SaveSteps
  /\ a.next = "mark" => b = Genesis
  /\ s = "rebuild" => a.held

Working(s, b, a, c, u) ==
  /\ Validated(s, b, c, u)
  /\ Settled(s, b, a, c, u)
  /\ TipInHand(s, b, c)
  /\ Returns(s, b, a)

\* The worker and the shutdown save without a reorganisation.
Aside == \A u \in {Worker, Main} : pc[u] # "rebuild" /\ ~args[u].held

ChainInv ==
  /\ Sound(chain) /\ AllFresh(chain)
  /\ \A b \in seen : JudgedBy(b, chain)
WorkInv == \A t \in Net : Working(pc[t], blk[t], args[t], chain, utxo)

OneInv == TypeInv /\ Proposed /\ Locked /\ Aside /\ ChainInv /\ WorkInv

\* What BestChain calls acceptable is what the lemmas call sound.
LEMMA AcceptableIsSound == \A c \in Seq(Entry) : Best!Acceptable(c) <=> Sound(c)
<1> SUFFICES ASSUME NEW c \in Seq(Entry) PROVE Best!Acceptable(c) <=> Sound(c)
  OBVIOUS
<1>1. Best!SpendsUnspent(c) <=> SpendsUnspent(c)
  BY DEF Best!SpendsUnspent, SpendsUnspent, Best!Unspent, Unspent, Best!ApplyBlock, ApplyBlock
<1>2. Best!Rooted(c) <=> (c # <<>> => c[1] = Fresh(Genesis))
  BY DEF Best!Rooted, Best!Fresh, Fresh
<1>3. Best!Linked(c) <=> \A i \in 2..Len(c) : LinkedAt(c, i)
  BY DEF Best!Linked, Best!LinkedAt, LinkedAt
<1>4. Best!Validated(c) <=> Blocks(c) \subseteq FullValid \cup ReorgValid
  BY DEF Best!Validated, Best!Blocks, Blocks
<1> QED BY <1>1, <1>2, <1>3, <1>4 DEF Best!Acceptable, Sound

\* Its preference is the node's.
LEMMA SamePreference == \A c, d : Best!Preferred(c, d) <=> Preferred(c, d)
BY DEF Best!Preferred, Preferred, Best!ChainWork, ChainWork, Best!WorkOf, WorkOf,
       Best!TipHash, TipHash

-----------------------------------------------------------------------------
(* One connection: the changes of the chain *)

\* An append of a block whose validation still holds.
LEMMA AppendSound ==
  ASSUME OneInv, NEW t \in Net, AddAppend(t)
  PROVE  /\ Sound(chain') /\ AllFresh(chain') /\ Preferred(chain', chain)
         /\ Replay(chain') = ApplyBlock(utxo, blk[t])
         /\ chain' # <<>> /\ Last(chain').blk = blk[t]
<1> DEFINE b == blk[t]
<1>0. chain \in Seq(Entry) /\ b \in Block /\ chain' = Append(chain, Fresh(b)) /\ pc[t] = "append"
  BY AppendedBlock DEF OneInv, AddAppend, Ingest
<1>1. Extends(b, chain) /\ Spends[b] \subseteq utxo
  BY <1>0 DEF OneInv, WorkInv, Working, Validated
<1>2. utxo = Replay(chain)
  BY <1>0 DEF OneInv, WorkInv, Working, Settled
<1>3. Sound(chain) /\ AllFresh(chain) BY DEF OneInv, ChainInv
<1>4. Fresh(b) \in Entry /\ Fresh(b).blk = b BY <1>0, FreshIsEntry
<1> HIDE DEF b
<1>5. Sound(chain') /\ AllFresh(chain')
  BY <1>0, <1>1, <1>2, <1>3, SoundAppend DEF Extends
<1>6. Preferred(chain', chain) BY <1>0, LongerIsPreferred
<1>7. Replay(chain') = ApplyBlock(utxo, b) BY <1>0, <1>2, ReplayAppend
<1>8. chain' # <<>> /\ Last(chain').blk = b BY <1>0, <1>4 DEF Last
<1> QED BY <1>5, <1>6, <1>7, <1>8 DEF b

\* The swap of the tip keeps all but the tip.
LEMMA SwapSound ==
  ASSUME OneInv, NEW t \in Net, Swaps(t)
  PROVE  /\ Sound(chain') /\ AllFresh(chain') /\ Preferred(chain', chain)
         /\ chain' # <<>> /\ Last(chain').blk = blk[t]
<1> DEFINE b == blk[t]
           n == Len(chain)
<1>0. chain \in Seq(Entry) /\ b \in Block
  BY DEF OneInv, TypeInv, Typed, TypeOK, MemoryType, InHand, Planning, Swaps, SwapCommit
<1>1. chain' = SwappedFor(b) /\ Competes(b) /\ CompleteChainValid(chain')
      /\ Preferred(chain', chain)
  BY <1>0, SwapsFacts
<1>2. Sound(chain) /\ AllFresh(chain) BY DEF OneInv, ChainInv
<1>3. /\ chain' \in Seq(Entry) /\ Len(chain') = n /\ n >= 2
      /\ chain'[n] = Fresh(b) /\ \A i \in 1..n : i # n => chain'[i] = chain[i]
  BY <1>0, <1>1, SwappedType DEF SwappedFor, Competes
<1>4. Fresh(b).blk = b BY <1>0, FreshIsEntry
<1> HIDE DEF b
<1>5. chain'[1] = chain[1] /\ chain # <<>> /\ chain' # <<>> BY <1>0, <1>3
<1>6. Sound(chain') BY <1>0, <1>1, <1>2, <1>3, <1>5, SoundReplaced
<1>7. AllFresh(chain') BY <1>0, <1>2, <1>3, <1>4 DEF AllFresh
<1>8. Last(chain').blk = b BY <1>3, <1>4 DEF Last
<1> QED BY <1>1, <1>5, <1>6, <1>7, <1>8 DEF b

\* The replacement by a branch keeps the genesis.
LEMMA ReplaceSound ==
  ASSUME OneInv, NEW t \in Net, NEW s \in Branches, Adopts(t, s)
  PROVE  /\ Sound(chain') /\ AllFresh(chain') /\ Preferred(chain', chain)
         /\ chain' # <<>> /\ Last(chain').blk = Last(s)
<1> DEFINE k == Height[Head(s)]
<1>0. chain \in Seq(Entry) /\ s \in Seq(Block) /\ s # <<>>
  BY BranchAssumption DEF OneInv, TypeInv, Typed, TypeOK, MemoryType
<1>1. /\ chain' = Candidate(s) /\ ForksAt(s) /\ CompleteChainValid(chain')
      /\ Preferred(chain', chain)
  BY AdoptsFacts
<1>2. Sound(chain) /\ AllFresh(chain) BY DEF OneInv, ChainInv
<1>3. k \in 1..Len(chain) BY <1>1 DEF ForksAt
<1>7. /\ chain' \in Seq(Entry) /\ Len(chain') = k + Len(s)
      /\ \A i \in 1..k : chain'[i] = chain[i]
      /\ \A i \in 1..Len(s) : chain'[k + i] = Fresh(s[i])
  BY <1>0, <1>1, CandidateType
<1> HIDE DEF k
<1>8. chain'[1] = chain[1] /\ chain # <<>> /\ chain' # <<>> BY <1>0, <1>3, <1>7
<1>9. Sound(chain') BY <1>0, <1>1, <1>2, <1>7, <1>8, SoundReplaced
<1>10. \A i \in 1..Len(s) : s[i] \in Block /\ Fresh(s[i]).blk = s[i] BY <1>0, FreshIsEntry
<1>11. AllFresh(chain')
  <2> SUFFICES ASSUME NEW i \in 1..Len(chain') PROVE chain'[i] = Fresh(chain'[i].blk)
    BY DEF AllFresh
  <2>1. CASE i \in 1..k BY <1>2, <1>3, <1>7, <2>1 DEF AllFresh
  <2>2. CASE i \notin 1..k
    <3>1. i - k \in 1..Len(s) /\ k + (i - k) = i BY <1>0, <1>3, <1>7, <2>2
    <3>2. chain'[i] = Fresh(s[i - k]) BY <1>7, <3>1
    <3> QED BY <1>10, <3>1, <3>2
  <2> QED BY <2>1, <2>2
<1>12. Last(chain').blk = Last(s)
  <2>1. Len(s) \in 1..Len(s) BY <1>0
  <2> QED BY <1>7, <1>10, <2>1 DEF Last
<1> QED BY <1>1, <1>8, <1>9, <1>11, <1>12

\* One connection without restarts: the three changes are all.
LEMMA OneChange ==
  ASSUME OneConnection, TypeInv, Proposed, [Next]_vars, chain' # chain
  PROVE  \E t \in Net : AddAppend(t) \/ Swaps(t) \/ \E s \in Branches : Adopts(t, s)
<1>1. OneReader /\ NoReload BY DEF OneConnection, OneReader, NoReload
<1>2. ~(Crash \/ Restart) BY <1>1, NoStart DEF TypeInv, Typed
<1> QED BY <1>1, <1>2, ChainChangeNet

\* Every change of the chain is to a sound and preferred one.
LEMMA ChangeSound ==
  ASSUME OneConnection, OneInv, [Next]_vars, chain' # chain
  PROVE  Sound(chain') /\ AllFresh(chain') /\ Preferred(chain', chain)
<1>1. PICK t \in Net : \/ AddAppend(t) \/ Swaps(t)
                       \/ \E s \in Branches : Adopts(t, s)
  BY OneChange DEF OneInv
<1> QED BY <1>1, AppendSound, SwapSound, ReplaceSound

-----------------------------------------------------------------------------
(* One connection: the steps *)

\* The worker and the shutdown leave the chain, the coins and the connection
\* alone.
LEMMA BesideStep ==
  ASSUME OneInv, NEW u \in {Worker, Main},
         \/ SaveStep(u)
         \/ u = Worker /\ PersistTake
         \/ u = Main /\ (Stop \/ Join)
  PROVE  /\ UNCHANGED <<chain, utxo, blk>> /\ seen' \subseteq seen
         /\ \A t \in Net : pc'[t] = pc[t] /\ args'[t] = args[t]
         /\ Aside'
<1> USE DEF memory, locals, gossip, locks, disk, life
<1>0. /\ {Worker, Main} \subseteq Thread /\ {Worker, Main} \cap (Net \cup Miners) = {}
      /\ Net \subseteq Thread
      /\ pc \in [Thread -> Step] /\ args \in [Thread -> CallType]
  BY ThreadAssumption DEF Thread, Ingest, OneInv, TypeInv, Typed, TypeOK, LocalsType
<1>1. pc[u] # "rebuild" /\ ~args[u].held BY DEF OneInv, Aside
<1>2. ~SaveAbort(u)
  <2>1. pc[u] = "put" => save.tip < Len(chain) BY <1>0 DEF OneInv, Locked
  <2>2. save.tip \in Int /\ Len(chain) \in Nat
    BY DEF OneInv, TypeInv, Typed, TypeOK, LocalsType, MemoryType
  <2> QED BY <2>1, <2>2 DEF SaveAbort
<1>3. ~RebuildUtxo(u) BY <1>1 DEF RebuildUtxo
<1>4. UNCHANGED <<chain, utxo, blk>> /\ seen' \subseteq seen
  BY <1>2, <1>3 DEF SaveStep, SaveBegin, SaveClear, SavePut, SaveEnd, UtxoClear, UtxoPut,
     CountBlocks, SaveState, PersistTake, Stop, Join
<1>5. PICK s : Goto(u, s) /\ s # "rebuild"
  <2>1. AfterSave(u) # "rebuild" BY <1>1 DEF AfterSave
  <2>2. args[u].next # "rebuild" BY <1>0 DEF CallType
  <2>3. CASE SaveStep(u)
    <3>1. CASE SaveBegin(u) BY <2>1, <3>1 DEF SaveBegin
    <3>2. CASE SaveEnd(u) \/ SaveState(u) BY <2>1, <2>2, <3>2 DEF SaveEnd, SaveState
    <3>3. CASE SaveClear(u) \/ SavePut(u) \/ UtxoClear(u) \/ UtxoPut(u) \/ CountBlocks(u)
      BY <3>3 DEF SaveClear, SavePut, UtxoClear, UtxoPut, CountBlocks
    <3> QED BY <1>2, <1>3, <2>3, <3>1, <3>2, <3>3 DEF SaveStep
  <2>4. CASE u = Worker /\ PersistTake BY <2>4 DEF PersistTake
  <2>5. CASE u = Main /\ (Stop \/ Join)
    <3>1. Goto(u, "join") \/ Goto(u, "exit") \/ Goto(u, "save") BY <2>5 DEF Stop, Join
    <3> QED BY <3>1
  <2> QED BY <2>3, <2>4, <2>5
<1>6. args' = args \/ \E c \in CallType : ~c.held /\ args' = [args EXCEPT ![u] = c]
  <2>1. NoCall \in CallType /\ ~NoCall.held BY DEF NoCall, Call, CallType
  <2>2. /\ Call(opts.force, opts.flush, FALSE, "idle") \in CallType
        /\ ~Call(opts.force, opts.flush, FALSE, "idle").held
    BY CallTypes DEF OneInv, TypeInv, Typed, TypeOK, MemoryType
  <2>3. /\ Call(TRUE, TRUE, FALSE, "exit") \in CallType
        /\ ~Call(TRUE, TRUE, FALSE, "exit").held
    BY CallTypes
  <2>4. PersistTake => args' = [args EXCEPT ![Worker] = Call(opts.force, opts.flush, FALSE, "idle")]
    BY DEF PersistTake
  <2> QED BY <1>2, <1>3, <2>1, <2>2, <2>3, <2>4 DEF SaveStep, SaveBegin, SaveClear, SavePut,
        SaveEnd, UtxoClear, UtxoPut, CountBlocks, SaveState, Stop, Join
<1>7. \A v \in Thread : pc'[v] = (IF v = u THEN s ELSE pc[v])
  BY <1>0, <1>5 DEF Goto
<1>8. \A v \in Thread : v # u => args'[v] = args[v]
  BY <1>0, <1>6
<1>9. ~args'[u].held BY <1>0, <1>1, <1>6
<1>10. Aside' BY <1>0, <1>5, <1>7, <1>8, <1>9 DEF OneInv, Aside
<1> QED BY <1>0, <1>4, <1>7, <1>8, <1>10

\* A rejected block is in no hand and no longer seen.
LEMMA RejectWorks ==
  ASSUME OneInv, NEW t \in Net, Reject(t), UNCHANGED <<chain, utxo, args>>,
         pc[t] \notin SaveSteps, utxo = Replay(chain)
  PROVE  Working(pc'[t], blk'[t], args'[t], chain', utxo') /\ seen' \subseteq seen
<1>0. t \in Thread /\ pc \in [Thread -> Step] /\ blk \in [Thread -> Block \cup {NoBlock}]
  BY DEF Thread, Ingest, OneInv, TypeInv, Typed, TypeOK, GossipType
<1>1. pc'[t] = "idle" /\ blk'[t] = NoBlock /\ seen' \subseteq seen
  BY <1>0 DEF Reject, Goto
<1>2. args[t].next = "idle"
  BY DEF OneInv, WorkInv, Working, Returns
<1>3. "idle" \notin AfterChange BY DEF AfterChange, SaveSteps
<1> QED BY <1>1, <1>2, <1>3 DEF Working, Validated, Settled, TipInHand, Returns

\* The steps from the receipt of a block up to add_block, and the comparisons
\* before a reorganisation, leave chain and coins alone; what they check holds
\* for the next step.
LEMMA ReceiveWorks ==
  ASSUME OneInv, NEW t \in Net, t \notin Miners,
         \/ \E b \in Block : ReceiveBlock(t, b)
         \/ Classify(t) \/ ValidateContext(t) \/ ValidateInputs(t) \/ ValidateRecheck(t)
         \/ AddCheck(t) \/ ForkPrecheck(t) \/ SwapCheck(t) \/ ReplaceCheck(t)
         \/ \E s \in Branches : ReplaceBuild(t, s)
  PROVE  /\ UNCHANGED <<chain, utxo>> /\ seen' \subseteq seen
         /\ Working(pc'[t], blk'[t], args'[t], chain', utxo')
<1> USE DEF memory, locals, gossip, locks, disk, life
<1>0. /\ t \in Thread /\ pc \in [Thread -> Step] /\ blk \in [Thread -> Block \cup {NoBlock}]
      /\ chain \in Seq(Entry) /\ (pc[t] \notin {"idle"} \cup Planning => blk[t] \in Block)
  BY DEF Thread, Ingest, OneInv, TypeInv, Typed, TypeOK, GossipType, MemoryType, InHand, Planning
<1>1. UNCHANGED <<chain, utxo, args>>
  BY DEF ReceiveBlock, Classify, ValidateContext, ValidateInputs, ValidateRecheck, AddCheck,
     ForkPrecheck, SwapCheck, ReplaceCheck, ReplaceBuild, Reject, Fail
<1>2. pc[t] \in {"idle", "classify", "context", "inputs", "recheck", "check", "resolve", "swap",
                "replace"}
  BY DEF ReceiveBlock, Classify, ValidateContext, ValidateInputs, ValidateRecheck, AddCheck,
     ForkPrecheck, SwapCheck, ReplaceCheck, ReplaceBuild
<1>3. pc[t] \notin SaveSteps /\ pc[t] \notin {"apply", "mark"} BY <1>2 DEF SaveSteps
<1>4. utxo = Replay(chain) /\ args[t].next = "idle"
  BY <1>2, <1>3 DEF OneInv, WorkInv, Working, Settled, Returns
<1>5. ASSUME Reject(t)
      PROVE  seen' \subseteq seen /\ Working(pc'[t], blk'[t], args'[t], chain', utxo')
  BY <1>1, <1>3, <1>4, <1>5, RejectWorks
<1>6. ASSUME NEW s \in {"classify", "context", "inputs", "recheck", "check", "append", "resolve",
                        "swap", "commit", "replace", "adopt", "idle"},
             Goto(t, s), Validated(s, blk'[t], chain, utxo)
      PROVE  Working(pc'[t], blk'[t], args'[t], chain', utxo')
  <2>1. pc'[t] = s /\ s \notin AfterChange /\ s \notin {"apply", "mark", "rebuild"}
    BY <1>0, <1>6 DEF Goto, AfterChange, SaveSteps
  <2> QED BY <1>1, <1>4, <1>6, <2>1 DEF Working, Settled, TipInHand, Returns
<1>7. ASSUME NEW b \in Block, ReceiveBlock(t, b)
      PROVE  seen' \subseteq seen /\ Working(pc'[t], blk'[t], args'[t], chain', utxo')
  BY <1>6, <1>7 DEF ReceiveBlock, Validated
<1>8. CASE Classify(t)
  <2>1. PotentialFork(blk[t]) => Forks(blk[t], chain)
    BY <1>0, <1>8 DEF PotentialFork, Gap, TipHeight, Forks
  <2> QED BY <1>1, <1>5, <1>6, <1>8, <2>1 DEF Classify, Validated
<1>9. CASE ValidateContext(t)
  <2>1. ContextValid(blk[t]) => Extends(blk[t], chain)
    BY DEF ContextValid, Extends
  <2> QED BY <1>1, <1>5, <1>6, <1>9, <2>1 DEF ValidateContext, Validated, Fail
<1>10. Validated(pc[t], blk[t], chain, utxo) BY DEF OneInv, WorkInv, Working
<1>11. CASE ValidateInputs(t)
  BY <1>1, <1>5, <1>6, <1>10, <1>11 DEF ValidateInputs, PrevoutsFound, Validated, Fail
<1>12. CASE ValidateRecheck(t)
  BY <1>1, <1>5, <1>6, <1>10, <1>12 DEF ValidateRecheck, Validated, Fail
<1>13. CASE AddCheck(t)
  <2>1. Attaches(blk[t]) => ~Forks(blk[t], chain) BY DEF Attaches, Forks
  <2> QED BY <1>1, <1>5, <1>6, <1>10, <1>13, <2>1 DEF AddCheck, Validated, Fail
<1>14. CASE ForkPrecheck(t)
  BY <1>1, <1>5, <1>6, <1>14 DEF ForkPrecheck, Validated
<1>15. CASE SwapCheck(t)
  BY <1>1, <1>5, <1>6, <1>15 DEF SwapCheck, Validated
<1>16. CASE ReplaceCheck(t)
  BY <1>1, <1>6, <1>16 DEF ReplaceCheck, Validated
<1>17. ASSUME NEW s \in Branches, ReplaceBuild(t, s)
       PROVE  seen' \subseteq seen /\ Working(pc'[t], blk'[t], args'[t], chain', utxo')
  BY <1>1, <1>6, <1>17 DEF ReplaceBuild, Validated
<1> QED BY <1>1, <1>7, <1>8, <1>9, <1>11, <1>12, <1>13, <1>14, <1>15, <1>16, <1>17

\* The steps of add_block and of the two reorganisations, up to the point where
\* the block is accepted or the new tip announced.
LEMMA AddWorks ==
  ASSUME OneInv, NEW t \in Net, t \notin Miners,
         \/ AddAppend(t) \/ AddMark(t) \/ AddApply(t) \/ AddSchedule(t)
         \/ Swaps(t) \/ \E s \in Branches : Adopts(t, s)
  PROVE  /\ seen' = seen
         /\ Working(pc'[t], blk'[t], args'[t], chain', utxo')
<1> USE DEF memory, locals, gossip, locks, disk, life
<1>0. /\ t \in Thread /\ pc \in [Thread -> Step] /\ blk \in [Thread -> Block \cup {NoBlock}]
      /\ args \in [Thread -> CallType]
      /\ chain \in Seq(Entry) /\ (pc[t] \notin {"idle"} \cup Planning => blk[t] \in Block)
  BY DEF Thread, Ingest, OneInv, TypeInv, Typed, TypeOK, GossipType, MemoryType, LocalsType, InHand, Planning
<1>1. Working(pc[t], blk[t], args[t], chain, utxo) BY DEF OneInv, WorkInv
<1>a. args[t].held => pc[t] \in SaveSteps BY <1>0 DEF OneInv, Locked
<1>2. CASE AddAppend(t)
  <2>1. /\ pc[t] = "append" /\ UNCHANGED <<utxo, args, blk, seen>>
        /\ pc'[t] = (IF blk[t] = Genesis THEN "apply" ELSE "mark")
    BY <1>0, <1>2 DEF AddAppend, Goto
  <2>2. /\ Replay(chain') = ApplyBlock(utxo, blk[t])
        /\ chain' # <<>> /\ Last(chain').blk = blk[t]
    BY <1>2, AppendSound
  <2>3. args[t].next = "idle" BY <1>1, <2>1 DEF Working, Returns, SaveSteps
  <2> QED BY <2>1, <2>2, <2>3 DEF Working, Validated, Settled, TipInHand, Returns
<1>3. CASE AddMark(t)
  <2>1. /\ pc[t] = "mark" /\ UNCHANGED <<chain, utxo, args, blk, seen>>
        /\ pc'[t] = (IF blk[t] = Genesis THEN "accept" ELSE "apply")
    BY <1>0, <1>3 DEF AddMark, Goto
  <2>2. args[t].next = "idle" BY <1>1, <2>1 DEF Working, Returns, SaveSteps
  <2>3. "mark" \in AfterChange BY DEF AfterChange
  <2>4. Settled(pc'[t], blk'[t], args'[t], chain', utxo')
    BY <1>1, <2>1 DEF Working, Settled
  <2> QED BY <1>1, <2>1, <2>2, <2>3, <2>4 DEF Working, Validated, TipInHand, Returns
<1>4. CASE AddApply(t)
  <2>1. /\ pc[t] = "apply" /\ UNCHANGED <<chain, args, blk, seen>>
        /\ pc'[t] = "schedule" /\ utxo' = ApplyBlock(utxo, blk[t])
    BY <1>0, <1>4 DEF AddApply, Goto
  <2>2. args[t].next = "idle" BY <1>1, <2>1 DEF Working, Returns, SaveSteps
  <2>3. "apply" \in AfterChange BY DEF AfterChange
  <2>4. utxo' = Replay(chain) BY <1>1, <2>1 DEF Working, Settled
  <2> QED BY <1>1, <2>1, <2>2, <2>3, <2>4 DEF Working, Validated, Settled, TipInHand, Returns
<1>5. CASE AddSchedule(t)
  <2> DEFINE next == IF blk[t] = Genesis THEN "mark" ELSE "accept"
  <2>1. pc[t] = "schedule" /\ UNCHANGED <<chain, utxo, blk, seen>>
    BY <1>5 DEF AddSchedule
  <2>2. args[t].next = "idle" /\ ~args[t].held
    BY <1>1, <1>a, <2>1 DEF Working, Returns, SaveSteps
  <2>3. utxo = Replay(chain) BY <1>1, <2>1, <2>2 DEF Working, Settled
  <2>4. chain # <<>> /\ blk[t] = Last(chain).blk
    BY <1>1, <2>1 DEF Working, TipInHand, AfterChange
  <2>5. CASE phase # "final"
    <3>1. pc'[t] = next /\ args' = args BY <1>0, <1>5, <2>5 DEF AddSchedule, Goto
    <3> QED BY <2>1, <2>2, <2>3, <2>4, <3>1 DEF Working, Validated, Settled, TipInHand, Returns
  <2>6. CASE phase = "final"
    <3> DEFINE c == Call(blk[t] = Genesis, blk[t] = Genesis, FALSE, next)
    <3>1. pc'[t] = "save" /\ args'[t] = c
      BY <1>0, <1>5, <2>6 DEF AddSchedule, Goto
    <3>2. c.next = next /\ "save" \in SaveSteps BY DEF Call, SaveSteps
    <3> HIDE DEF c
    <3>3. Settled(pc'[t], blk'[t], args'[t], chain', utxo')
      BY <2>1, <2>3, <3>1 DEF Settled
    <3>4. Returns(pc'[t], blk'[t], args'[t])
      BY <2>1, <3>1, <3>2 DEF Returns
    <3> QED BY <2>1, <2>4, <3>1, <3>3, <3>4 DEF Working, Validated, TipInHand
  <2> QED BY <2>5, <2>6
<1>6. CASE Swaps(t)
  <2> DEFINE c == Call(FALSE, FALSE, TRUE, "accept")
  <2>1. /\ UNCHANGED <<utxo, blk, seen>> /\ pc'[t] = "save" /\ args'[t] = c
    BY <1>0, <1>6, SwapsFacts DEF Goto
  <2>2. c.held /\ c.next = "accept" /\ "save" \in SaveSteps BY DEF Call, SaveSteps
  <2>3. chain' # <<>> /\ Last(chain').blk = blk[t] BY <1>6, SwapSound
  <2> HIDE DEF c
  <2> QED BY <2>1, <2>2, <2>3 DEF Working, Validated, Settled, TipInHand, Returns
<1>7. ASSUME NEW s \in Branches, Adopts(t, s)
      PROVE  /\ seen' = seen
             /\ Working(pc'[t], blk'[t], args'[t], chain', utxo')
  <2> DEFINE c == Call(TRUE, FALSE, TRUE, "announce")
  <2>1. /\ UNCHANGED <<utxo, seen>> /\ pc'[t] = "save" /\ args'[t] = c /\ blk'[t] = Last(s)
    <3>1. blk'[t] = Last(Candidate(s)).blk /\ plan[t] = Candidate(s)
      BY <1>0, <1>7 DEF Adopts, ReplaceCommit
    <3>2. chain' = Candidate(s) /\ Last(chain').blk = Last(s) BY <1>7, AdoptsFacts, ReplaceSound
    <3> QED BY <1>0, <1>7, <3>1, <3>2 DEF Adopts, ReplaceCommit, Goto
  <2>2. c.held /\ c.next = "announce" /\ "save" \in SaveSteps BY DEF Call, SaveSteps
  <2>3. chain' # <<>> /\ Last(chain').blk = Last(s) BY <1>7, ReplaceSound
  <2> HIDE DEF c
  <2> QED BY <2>1, <2>2, <2>3 DEF Working, Validated, Settled, TipInHand, Returns
<1> QED BY <1>2, <1>3, <1>4, <1>5, <1>6, <1>7

\* The save of a connection, with the rebuild of the coins that follows a
\* reorganisation, and the return to its caller.
LEMMA SaveWorks ==
  ASSUME OneInv, NEW t \in Net, t \notin Miners, SaveStep(t)
  PROVE  /\ UNCHANGED <<chain, seen>>
         /\ Working(pc'[t], blk'[t], args'[t], chain', utxo')
<1> USE DEF memory, locals, gossip, locks, disk, life
<1>0. /\ t \in Thread /\ pc \in [Thread -> Step] /\ args \in [Thread -> CallType]
  BY DEF Thread, Ingest, OneInv, TypeInv, Typed, TypeOK, LocalsType
<1>1. Working(pc[t], blk[t], args[t], chain, utxo) BY DEF OneInv, WorkInv
<1>2. pc[t] \in SaveSteps
  BY DEF SaveStep, SaveBegin, SaveClear, SavePut, SaveEnd, SaveAbort, RebuildUtxo,
     UtxoClear, UtxoPut, CountBlocks, SaveState, SaveSteps
<1>3. ~SaveAbort(t)
  <2>1. pc[t] = "put" => save.tip < Len(chain) BY <1>0 DEF OneInv, Locked
  <2>2. save.tip \in Int /\ Len(chain) \in Nat
    BY DEF OneInv, TypeInv, Typed, TypeOK, LocalsType, MemoryType
  <2> QED BY <2>1, <2>2 DEF SaveAbort
<1>4. chain # <<>> /\ blk[t] = Last(chain).blk
  BY <1>1, <1>2 DEF Working, TipInHand, AfterChange
<1>5. ASSUME NEW s \in SaveSteps, Goto(t, s), UNCHANGED <<chain, args, blk>>,
             Settled(s, blk[t], args[t], chain, utxo'), s = "rebuild" => args[t].held
      PROVE  Working(pc'[t], blk'[t], args'[t], chain', utxo')
  <2>1. pc'[t] = s BY <1>0, <1>5 DEF Goto
  <2>2. s \notin {"inputs", "recheck", "append", "check"} BY DEF SaveSteps
  <2> QED BY <1>1, <1>2, <1>4, <1>5, <2>1, <2>2 DEF Working, Validated, TipInHand, Returns
<1>6. {"rebuild", "uclear", "uput", "count", "state", "put", "clear", "saved"} \subseteq SaveSteps
  BY DEF SaveSteps
<1>7. Settled(pc[t], blk[t], args[t], chain, utxo) BY <1>1 DEF Working
<1>8. CASE SaveBegin(t)
  BY <1>4, <1>5, <1>6, <1>7, <1>8 DEF SaveBegin, Settled
<1>9. CASE SaveClear(t) \/ SavePut(t)
  BY <1>5, <1>6, <1>7, <1>9 DEF SaveClear, SavePut, Settled
<1>10. CASE SaveEnd(t)
  <2>1. AfterSave(t) \in SaveSteps /\ (AfterSave(t) = "rebuild" <=> args[t].held)
        /\ AfterSave(t) \in {"rebuild", "uclear", "count"}
    BY <1>6 DEF AfterSave
  <2>2. Settled(AfterSave(t), blk[t], args[t], chain, utxo)
    BY <1>7, <1>10, <2>1 DEF SaveEnd, Settled
  <2> QED BY <1>5, <1>10, <2>1, <2>2 DEF SaveEnd
<1>11. CASE RebuildUtxo(t)
  BY <1>5, <1>6, <1>11 DEF RebuildUtxo, Settled
<1>12. CASE UtxoClear(t) \/ UtxoPut(t) \/ CountBlocks(t)
  BY <1>5, <1>6, <1>7, <1>12 DEF UtxoClear, UtxoPut, CountBlocks, Settled
<1>13. CASE SaveState(t)
  <2>1. /\ pc[t] = "state" /\ UNCHANGED <<chain, utxo, blk, seen>>
        /\ pc'[t] = args[t].next /\ args'[t] = NoCall
    BY <1>0, <1>13 DEF SaveState, Goto
  <2>2. args[t].next \in {"idle", "accept", "mark", "announce", "exit"} /\ NoCall.next = "idle"
    BY <1>0 DEF CallType, NoCall, Call
  <2>3. utxo = Replay(chain) BY <1>7, <2>1 DEF Settled
  <2>4. args[t].next = "mark" => blk[t] = Genesis BY <1>1 DEF Working, Returns
  <2> QED BY <1>4, <2>1, <2>2, <2>3, <2>4 DEF Working, Validated, Settled, TipInHand, Returns
<1>14. UNCHANGED <<chain, seen>>
  BY <1>3 DEF SaveStep, SaveBegin, SaveClear, SavePut, SaveEnd, RebuildUtxo, UtxoClear, UtxoPut,
     CountBlocks, SaveState
<1> QED BY <1>3, <1>8, <1>9, <1>10, <1>11, <1>12, <1>13, <1>14 DEF SaveStep

\* When the tip is accepted or announced it is on the chain, so judged.
LEMMA AcceptWorks ==
  ASSUME OneInv, NEW t \in Net, t \notin Miners, Accept(t) \/ Announce(t)
  PROVE  /\ UNCHANGED <<chain, utxo>>
         /\ \A b \in seen' : JudgedBy(b, chain)
         /\ Working(pc'[t], blk'[t], args'[t], chain', utxo')
<1> USE DEF memory, locals, gossip, locks, disk, life
<1>0. /\ t \in Thread /\ pc \in [Thread -> Step] /\ blk \in [Thread -> Block \cup {NoBlock}]
      /\ chain \in Seq(Entry)
  BY DEF Thread, Ingest, OneInv, TypeInv, Typed, TypeOK, GossipType, MemoryType
<1>1. /\ pc[t] \in {"accept", "announce"} /\ UNCHANGED <<chain, utxo, args>>
      /\ pc'[t] = "idle" /\ seen' = seen \cup {blk[t]}
  BY <1>0 DEF Accept, Announce, Goto
<1>2. Working(pc[t], blk[t], args[t], chain, utxo) BY DEF OneInv, WorkInv
<1>3. args[t].next = "idle" /\ ~args[t].held
  <2>1. pc[t] \notin SaveSteps BY <1>1 DEF SaveSteps
  <2> QED BY <1>0, <1>2, <2>1 DEF Working, Returns, OneInv, Locked
<1>4. utxo = Replay(chain) BY <1>1, <1>2, <1>3 DEF Working, Settled
<1>5. chain # <<>> /\ blk[t] = Last(chain).blk
  BY <1>1, <1>2 DEF Working, TipInHand, AfterChange
<1>6. JudgedBy(blk[t], chain)
  <2>1. Len(chain) \in 1..Len(chain) BY <1>0, <1>5
  <2> QED BY <1>0, <1>5, <2>1, JudgedOnChain DEF OneInv, ChainInv, Last
<1>7. "idle" \notin AfterChange BY DEF AfterChange, SaveSteps
<1> QED BY <1>1, <1>3, <1>4, <1>6, <1>7
        DEF OneInv, ChainInv, Working, Validated, Settled, TipInHand, Returns

\* The invariant is kept by every step.
LEMMA OneStep == OneConnection /\ OneInv /\ [Next]_vars => OneInv'
<1> SUFFICES ASSUME OneConnection, OneInv, [Next]_vars PROVE OneInv'
  OBVIOUS
<1>1. PICK t : Net = {t} BY DEF OneConnection
<1>2. NoReload /\ Miners = {} BY DEF OneConnection, NoReload
<1>3. TypeInv' /\ Proposed' /\ Locked'
  <2>1. OneReader BY DEF OneConnection, OneReader, NoReload
  <2> QED BY <1>2, <2>1, TypesStep, ProposedStep, LockedStep DEF OneInv
<1>4. chain \in Seq(Entry) /\ chain' \in Seq(Entry) /\ seen \in SUBSET Block
  BY <1>3 DEF OneInv, TypeInv, Typed, TypeOK, MemoryType, GossipType
<1>5. Sound(chain') /\ AllFresh(chain')
  <2>1. CASE chain' = chain BY <2>1 DEF OneInv, ChainInv
  <2>2. CASE chain' # chain BY <1>2, <2>2, ChangeSound
  <2> QED BY <2>1, <2>2
<1>6. \A b \in seen : JudgedBy(b, chain')
  <2>1. CASE chain' = chain BY <2>1 DEF OneInv, ChainInv
  <2>2. CASE chain' # chain
    <3>1. Preferred(chain', chain) BY <1>2, <2>2, ChangeSound
    <3> QED BY <1>4, <1>5, <3>1, JudgedByBetter DEF OneInv, ChainInv
  <2> QED BY <2>1, <2>2
<1>7. /\ {Worker, Main} \subseteq Thread /\ {Worker, Main} \cap Net = {}
      /\ t \in Net /\ t \in Thread /\ Thread = {t, Worker, Main}
  BY <1>1, <1>2, ThreadAssumption DEF Thread, Ingest
<1>8. CASE UNCHANGED vars
  BY <1>3, <1>5, <1>6, <1>8
     DEF vars, memory, gossip, locals, OneInv, ChainInv, WorkInv, Aside
<1>9. CASE \E u \in {Worker, Main} : \/ SaveStep(u)
                                     \/ u = Worker /\ PersistTake
                                     \/ u = Main /\ (Stop \/ Join)
  <2>1. /\ UNCHANGED <<chain, utxo, blk>> /\ seen' \subseteq seen
        /\ pc'[t] = pc[t] /\ args'[t] = args[t]
        /\ Aside'
    BY <1>7, <1>9, BesideStep
  <2>2. WorkInv' BY <1>1, <2>1 DEF OneInv, WorkInv
  <2> QED BY <1>3, <1>5, <1>6, <2>1, <2>2 DEF OneInv, ChainInv
<1>10. CASE Input(t) \/ IngestStep(t) \/ SaveStep(t)
  <2>1. /\ \A b \in seen' : JudgedBy(b, chain')
        /\ Working(pc'[t], blk'[t], args'[t], chain', utxo')
    <3>1. t \notin Miners BY <1>2
    <3>2. CASE Accept(t) \/ Announce(t) BY <1>7, <3>1, <3>2, AcceptWorks
    <3>3. CASE SaveStep(t) BY <1>6, <1>7, <3>1, <3>3, SaveWorks
    <3>4. CASE \/ AddAppend(t) \/ AddMark(t) \/ AddApply(t) \/ AddSchedule(t)
               \/ Swaps(t) \/ \E s \in Branches : Adopts(t, s)
      BY <1>6, <1>7, <3>1, <3>4, AddWorks
    <3>5. CASE \/ \E b \in Block : ReceiveBlock(t, b)
               \/ Classify(t) \/ ValidateContext(t) \/ ValidateInputs(t) \/ ValidateRecheck(t)
               \/ AddCheck(t) \/ ForkPrecheck(t) \/ SwapCheck(t) \/ ReplaceCheck(t)
               \/ \E s \in Branches : ReplaceBuild(t, s)
      BY <1>6, <1>7, <3>1, <3>5, ReceiveWorks
    <3>6. CASE SwapCommit(t) \/ ReplaceCommit(t)
      <4>1. SwapCommit(t) => Swaps(t)
        BY <1>7 DEF OneInv, Proposed, Swaps, SwapCommit
      <4>2. ReplaceCommit(t) => \E s \in Branches : Adopts(t, s)
        <5>1. pc[t] = "adopt" => Replaces(plan[t]) BY <1>7 DEF OneInv, Proposed
        <5>2. pc[t] = "adopt" => \E s \in Branches : ForksAt(s) /\ plan[t] = Candidate(s)
          BY <1>7 DEF OneInv, Proposed, Planning
        <5> QED BY <5>1, <5>2 DEF Adopts, ReplaceCommit
      <4> QED BY <3>4, <3>6, <4>1, <4>2
    <3> QED BY <1>10, <3>2, <3>3, <3>4, <3>5, <3>6 DEF Input, IngestStep
  <2>2. \A u \in {Worker, Main} : pc'[u] = pc[u] /\ args'[u] = args[u]
    <3> USE DEF memory, locals, gossip, locks, disk, life
    <3>0. pc \in [Thread -> Step] /\ args \in [Thread -> CallType]
      BY DEF OneInv, TypeInv, Typed, TypeOK, LocalsType
    <3>1. \E s : Goto(t, s)
      <4>1. CASE Input(t) BY <4>1 DEF Input, ReceiveBlock, ReplaceBuild
      <4>2. CASE IngestStep(t)
        BY <4>2 DEF IngestStep, Classify, ValidateContext, ValidateInputs, ValidateRecheck,
           AddCheck, AddAppend, AddMark, AddApply, AddSchedule, Accept, ForkPrecheck, SwapCheck, SwapCommit,
           ReplaceCheck, ReplaceCommit, Announce, Fail, Reject
      <4>3. CASE SaveStep(t)
        BY <4>3 DEF SaveStep, SaveBegin, SaveClear, SavePut, SaveEnd, SaveAbort, RebuildUtxo,
           UtxoClear, UtxoPut, CountBlocks, SaveState, Fail, Reject
      <4> QED BY <1>10, <4>1, <4>2, <4>3
    <3>2. args' = args \/ \E c : args' = [args EXCEPT ![t] = c]
      <4>1. CASE Input(t) BY <4>1 DEF Input, ReceiveBlock, ReplaceBuild
      <4>2. CASE IngestStep(t)
        BY <4>2 DEF IngestStep, Classify, ValidateContext, ValidateInputs, ValidateRecheck,
           AddCheck, AddAppend, AddMark, AddApply, AddSchedule, Accept, ForkPrecheck, SwapCheck, SwapCommit,
           ReplaceCheck, ReplaceCommit, Announce
      <4>3. CASE SaveStep(t)
        BY <4>3 DEF SaveStep, SaveBegin, SaveClear, SavePut, SaveEnd, SaveAbort, RebuildUtxo,
           UtxoClear, UtxoPut, CountBlocks, SaveState
      <4> QED BY <1>10, <4>1, <4>2, <4>3
    <3> QED BY <1>7, <3>0, <3>1, <3>2 DEF Goto
  <2>3. Aside' BY <2>2 DEF OneInv, Aside
  <2> QED BY <1>1, <1>3, <1>5, <2>1, <2>3 DEF OneInv, ChainInv, WorkInv
<1> QED
  <2>1. CASE Next
    <3>1. \/ Input(t) \/ IngestStep(t) \/ \E u \in Thread : SaveStep(u)
          \/ PersistTake \/ Stop \/ Join
      BY <1>1, <1>2, <2>1, NoStart, NextWithoutMiners DEF OneInv, TypeInv, Typed
    <3> QED BY <1>7, <1>9, <1>10, <3>1
  <2> QED BY <1>8, <2>1

LEMMA OneInit == OneConnection /\ StartsSound /\ Init => OneInv
<1> SUFFICES ASSUME OneConnection, StartsSound, Init PROVE OneInv
  OBVIOUS
<1>1. TypeInv /\ Locked BY TypesInit, LockedInit
<1>2. chain \in Seq(Entry) /\ chain = FreshSeq(Stored) /\ Stored \in Seq(Block)
  BY <1>1, BranchAssumption DEF TypeInv, Typed, TypeOK, MemoryType, Init
<1>3. Sound(chain) BY <1>2, AcceptableIsSound DEF StartsSound
<1>4. AllFresh(chain)
  <2>1. DOMAIN FreshSeq(Stored) = 1..Len(Stored) BY <1>2 DEF FreshSeq
  <2>2. Len(chain) = Len(Stored) BY <1>2, <2>1
  <2>3. \A i \in 1..Len(Stored) : chain[i] = Fresh(Stored[i]) /\ Fresh(Stored[i]).blk = Stored[i]
    BY <1>2, FreshIsEntry DEF FreshSeq
  <2> QED BY <2>2, <2>3 DEF AllFresh
<1>5. ~NoCall.held /\ NoCall.next = "idle" BY DEF NoCall, Call
<1>6. Net \subseteq Thread /\ {Worker, Main} \subseteq Thread BY DEF Thread, Ingest
<1>7. Aside BY <1>5, <1>6 DEF Init, Aside
<1>8. ChainInv BY <1>3, <1>4 DEF ChainInv, Init
<1>9. WorkInv
  <2>1. "idle" \notin AfterChange BY DEF AfterChange, SaveSteps
  <2> QED BY <1>5, <1>6, <2>1
          DEF Init, WorkInv, Working, Validated, Settled, TipInHand, Returns
<1>10. Proposed BY <1>6 DEF Init, Proposed, Planning
<1> QED BY <1>1, <1>7, <1>8, <1>9, <1>10 DEF OneInv

-----------------------------------------------------------------------------
(* One connection: the theorems *)

LEMMA OneInvariant == OneConnection /\ StartsSound => (Spec => []OneInv)
<1> SUFFICES ASSUME OneConnection, StartsSound PROVE Spec => []OneInv
  OBVIOUS
<1>1. Init => OneInv BY OneInit
<1>2. OneInv /\ [Next]_vars => OneInv' BY OneStep
<1> QED BY <1>1, <1>2, PTL DEF Spec

\* The live chain implements the abstract best-chain ledger: it starts as an
\* acceptable chain, and every step either leaves it or adopts an acceptable
\* chain that the node prefers, whatever the order in which ingest, swaps,
\* replacements, background saves and the shutdown interleave.
THEOREM LedgerImplementsBestChain ==
  OneConnection /\ StartsSound => (Spec => ImplementsBestChain)
<1> SUFFICES ASSUME OneConnection, StartsSound PROVE Spec => ImplementsBestChain
  OBVIOUS
<1>1. Init => Best!BestInit BY DEF Init, Best!BestInit, StartsSound
<1>2. OneInv /\ OneInv' /\ [Next]_vars => [Best!Adopt]_chain
  <2> SUFFICES ASSUME OneInv, OneInv', [Next]_vars, chain' # chain PROVE Best!Adopt
    OBVIOUS
  <2>1. Sound(chain') /\ Preferred(chain', chain)
    BY ChangeSound
  <2>2. chain' \in Seq(Entry) BY DEF OneInv, TypeInv, Typed, TypeOK, MemoryType
  <2> QED BY <2>1, <2>2, AcceptableIsSound, SamePreference DEF Best!Adopt
<1>3. Spec => []OneInv BY OneInvariant
<1> QED BY <1>1, <1>2, <1>3, PTL DEF Spec, ImplementsBestChain, Best!BestSpec

\* The chain never spends a coin twice or one that was never made.
THEOREM NoDoubleSpend == OneConnection /\ StartsSound => (Spec => []LedgerSound)
<1> SUFFICES ASSUME OneConnection, StartsSound PROVE Spec => []LedgerSound
  OBVIOUS
<1>1. OneInv => LedgerSound BY DEF OneInv, ChainInv, Sound, LedgerSound
<1> QED BY <1>1, OneInvariant, PTL

\* The UTXO set is the replay of the chain outside the windows in which a step
\* owes it a change, and the stored set equals it while its lock is free.
THEOREM CoinsFollowChain == OneConnection /\ StartsSound => (Spec => []UtxoFollowsChain)
<1> SUFFICES ASSUME OneConnection, StartsSound PROVE Spec => []UtxoFollowsChain
  OBVIOUS
<1>1. OneInv /\ CoinsStored => UtxoFollowsChain
  <2> SUFFICES ASSUME OneInv, CoinsStored, \A t \in Ingest : ~Settling(t)
               PROVE  utxo = Replay(chain)
    BY DEF CoinsStored, UtxoFollowsChain
  <2>1. PICK t : t \in Net BY DEF OneConnection
  <2>2. Settled(pc[t], blk[t], args[t], chain, utxo) BY <2>1 DEF OneInv, WorkInv, Working
  <2>3. ~Settling(t) BY <2>1 DEF Ingest
  <2> QED BY <2>2, <2>3 DEF Settled, Settling
<1> QED BY <1>1, OneInvariant, CoinsAlwaysStored, PTL

\* Every block the node calls seen is on its chain or on a path it prefers its
\* chain to.
THEOREM SeenBlocksJudged == OneConnection /\ StartsSound => (Spec => []SeenIsJudged)
<1> SUFFICES ASSUME OneConnection, StartsSound PROVE Spec => []SeenIsJudged
  OBVIOUS
<1>1. OneInv => SeenIsJudged BY DEF OneInv, ChainInv, JudgedBy, SeenIsJudged
<1> QED BY <1>1, OneInvariant, PTL

-----------------------------------------------------------------------------
(* One connection: the depth of a reorganisation *)

\* What a chain loses to another that starts with its genesis lies above the
\* common ancestor that _common_ancestor_height finds.
LEMMA AbandonedAbove ==
  ASSUME NEW c \in Seq(Entry), NEW d \in Seq(Entry), Sound(c), AllFresh(c),
         Sound(d), AllFresh(d), c # <<>>, d # <<>>
  PROVE  /\ CommonHeight(c, d) \in 0..(Len(c) - 1)
         /\ Cardinality(Abandoned(c, d)) <= Len(c) - 1 - CommonHeight(c, d)
<1> DEFINE shared == {i \in DOMAIN c : \E j \in DOMAIN d : d[j].hash = c[i].hash}
           M == Max(shared)
           lost == (M + 1)..Len(c)
<1>0. /\ DOMAIN c = 1..Len(c) /\ DOMAIN d = 1..Len(d) /\ Len(c) \in Nat /\ Len(d) \in Nat
      /\ 1 \in 1..Len(c) /\ 1 \in 1..Len(d)
  OBVIOUS
<1>1. c[1] = d[1] BY DEF Sound
<1>2. shared \in SUBSET (0..Len(c)) /\ shared # {} BY <1>0, <1>1
<1>3. M \in shared
  <2> HIDE DEF shared
  <2> QED BY <1>0, <1>2, MaxOf
<1>4. PICK j \in 1..Len(d) : d[j].hash = c[M].hash BY <1>0, <1>3
<1>5. M \in 1..Len(c) BY <1>0, <1>3
<1>6. CommonHeight(c, d) = M - 1
  <2>1. shared # {} BY <1>2
  <2> QED BY <2>1 DEF CommonHeight
<1> HIDE DEF M
<1>7. c[M].blk = d[j].blk
  <2> DEFINE x == c[M].blk
             y == d[j].blk
  <2>1. c[M] = Fresh(x) /\ d[j] = Fresh(y) BY <1>4, <1>5 DEF AllFresh
  <2>2. x \in Block /\ y \in Block BY <1>4, <1>5, EntryFields
  <2> HIDE DEF x, y
  <2>3. Fresh(x).hash = x /\ Fresh(y).hash = y BY <2>2, FreshIsEntry
  <2>4. x = y BY <1>4, <2>1, <2>3
  <2> QED BY <2>4 DEF x, y
<1>8. M = j /\ \A i \in 1..M : c[i] = d[i] BY <1>4, <1>5, <1>7, SharedPrefix
<1>9. Abandoned(c, d) \subseteq lost
  BY <1>0, <1>4, <1>5, <1>8 DEF Abandoned
<1>10. IsFiniteSet(lost) /\ Cardinality(lost) = Len(c) - M
  <2>0. M \in Int /\ Len(c) \in Int /\ M <= Len(c) BY <1>0, <1>5
  <2>1. M + 1 \in Int /\ Len(c) \in Int BY <2>0
  <2>2. M + 1 <= Len(c) \/ M = Len(c) BY <2>0
  <2>3. CASE M = Len(c)
    <3>1. lost = {} BY <1>0, <2>3
    <3> QED BY <1>0, <2>3, <3>1, FS_EmptySet
  <2>4. CASE M + 1 <= Len(c)
    <3>1. IsFiniteSet(lost) /\ Cardinality(lost) = (IF M + 1 > Len(c) THEN 0 ELSE Len(c) - (M + 1) + 1)
      BY <2>1, FS_Interval
    <3> QED BY <1>0, <1>5, <2>4, <3>1
  <2> QED BY <2>2, <2>3, <2>4
<1>11. Cardinality(Abandoned(c, d)) <= Len(c) - M
  <2> HIDE DEF lost
  <2> QED BY <1>9, <1>10, FS_Subset
<1> QED BY <1>0, <1>5, <1>6, <1>11

\* The limit of a reorganisation, or the single tip of a swap.
LEMMA LimitOf == Max({1, ReorgLimit}) \in Nat /\ Max({1, ReorgLimit}) >= 1
                 /\ Max({1, ReorgLimit}) >= ReorgLimit
<1>1. ReorgLimit \in Nat BY BoundAssumption
<1>2. PICK n \in Nat : n >= 1 /\ n >= ReorgLimit
  <2>1. CASE ReorgLimit >= 1 BY <1>1, <2>1
  <2>2. CASE ~(ReorgLimit >= 1)
    <3>1. 1 \in Nat /\ 1 >= ReorgLimit BY <1>1, <2>2
    <3> QED BY <3>1
  <2> QED BY <2>1, <2>2
<1>3. {1, ReorgLimit} \in SUBSET (0..n) /\ {1, ReorgLimit} # {} BY <1>1, <1>2
<1>4. /\ Max({1, ReorgLimit}) \in {1, ReorgLimit}
      /\ \A y \in {1, ReorgLimit} : Max({1, ReorgLimit}) >= y
  BY <1>3, MaxOf
<1> QED BY <1>1, <1>4

\* The node never abandons more blocks at once than CFG.REORG_LIMIT, except
\* the tip that a swap replaces.
THEOREM ReorgWithinLimit == OneConnection /\ StartsSound => (Spec => ReorgDepthBounded)
<1> SUFFICES ASSUME OneConnection, StartsSound PROVE Spec => ReorgDepthBounded
  OBVIOUS
<1> DEFINE limit == Max({1, ReorgLimit})
<1>1. ASSUME OneInv, OneInv', [Next]_vars
      PROVE  Cardinality(Abandoned(chain, chain')) <= limit
  <2>0. /\ chain \in Seq(Entry) /\ chain' \in Seq(Entry) /\ ReorgLimit \in Nat
        /\ Sound(chain) /\ AllFresh(chain) /\ Sound(chain') /\ AllFresh(chain')
        /\ limit \in Nat /\ limit >= 1 /\ limit >= ReorgLimit
    BY <1>1, LimitOf, BoundAssumption
       DEF OneInv, TypeInv, Typed, TypeOK, MemoryType, ChainInv
  <2> HIDE DEF limit
  <2>1. ASSUME Abandoned(chain, chain') = {}
        PROVE  Cardinality(Abandoned(chain, chain')) <= limit
    BY <2>0, <2>1, FS_EmptySet
  <2>2. CASE chain' = chain
    <3>1. Abandoned(chain, chain') = {} BY <2>0, <2>2 DEF Abandoned
    <3> QED BY <2>1, <3>1
  <2>3. CASE chain' # chain
    <3>1. PICK t \in Net : \/ AddAppend(t) \/ Swaps(t)
                           \/ \E s \in Branches : Adopts(t, s)
      BY <1>1, <2>3, OneChange DEF OneInv
    <3>2. CASE AddAppend(t)
      <4>1. /\ \A i \in 1..Len(chain) : chain'[i] = chain[i]
            /\ Len(chain') = Len(chain) + 1
        <5>1. chain' = Append(chain, Fresh(blk[t])) /\ Fresh(blk[t]) \in Entry
          BY <1>1, <3>2, AppendedBlock, FreshIsEntry DEF AddAppend, OneInv, Ingest
        <5> QED BY <2>0, <5>1
      <4>2. Abandoned(chain, chain') = {} BY <2>0, <4>1 DEF Abandoned
      <4> QED BY <2>1, <4>2
    <3>3. CASE Swaps(t)
      <4>0. blk[t] \in Block
        BY <1>1, <3>3 DEF OneInv, TypeInv, Typed, InHand, Planning, Swaps, SwapCommit
      <4>1. blk[t] \in Block /\ Len(chain) >= 2 /\ chain' = SwappedFor(blk[t])
        BY <2>0, <3>3, <4>0, SwapsFacts
      <4>2. /\ Len(chain') = Len(chain)
            /\ \A i \in 1..Len(chain) : i # Len(chain) => chain'[i] = chain[i]
        BY <2>0, <4>1, SwappedType
      <4>3. Abandoned(chain, chain') \subseteq {Len(chain)} BY <2>0, <4>2 DEF Abandoned
      <4>4. /\ Cardinality(Abandoned(chain, chain')) <= 1
            /\ Cardinality(Abandoned(chain, chain')) \in Nat
        <5>1. IsFiniteSet({Len(chain)}) /\ Cardinality({Len(chain)}) = 1 BY FS_Singleton
        <5>2. IsFiniteSet(Abandoned(chain, chain')) BY <4>3, <5>1, FS_Subset
        <5> QED BY <4>3, <5>1, <5>2, FS_Subset, FS_CardinalityType
      <4> QED BY <2>0, <4>4
    <3>4. ASSUME NEW s \in Branches, Adopts(t, s)
          PROVE  Cardinality(Abandoned(chain, chain')) <= limit
      <4>1. /\ chain' = Candidate(s) /\ Replaces(Candidate(s)) /\ ForksAt(s)
        BY <3>4, AdoptsFacts
      <4>2. chain # <<>> BY <2>0, <4>1 DEF ForksAt
      <4>3. chain' # <<>> BY <4>1 DEF Replaces, CompleteChainValid
      <4>4. /\ CommonHeight(chain, chain') \in 0..(Len(chain) - 1)
            /\ Cardinality(Abandoned(chain, chain'))
                 <= Len(chain) - 1 - CommonHeight(chain, chain')
        BY <2>0, <4>2, <4>3, AbandonedAbove
      <4>5. (Len(chain) - 1) - CommonHeight(chain, chain') <= ReorgLimit
        BY <4>1, <4>4 DEF Replaces
      <4>6. IsFiniteSet(Abandoned(chain, chain'))
        <5>1. IsFiniteSet(1..Len(chain)) BY <2>0, FS_Interval
        <5>2. Abandoned(chain, chain') \subseteq 1..Len(chain) BY <2>0 DEF Abandoned
        <5> QED BY <5>1, <5>2, FS_Subset
      <4>7. Cardinality(Abandoned(chain, chain')) \in Nat BY <4>6, FS_CardinalityType
      <4> QED BY <2>0, <4>4, <4>5, <4>7
    <3> QED BY <3>1, <3>2, <3>3, <3>4
  <2> QED BY <2>2, <2>3
<1>2. Spec => []OneInv BY OneInvariant
<1>3. OneInv /\ OneInv' /\ [Next]_vars
        => [restarts' = restarts => Cardinality(Abandoned(chain, chain')) <= Max({1, ReorgLimit})]_vars
  BY <1>1
<1> QED BY <1>2, <1>3, PTL DEF Spec, ReorgDepthBounded

-----------------------------------------------------------------------------
(* One connection and restarts: every block is validated *)

\* The steps between the validation of a block and its append, and what is
\* known there of the block b when the chain is c: whatever was in the store
\* at the last start, nobody else changes the chain of a running node.
Deciding == {"inputs", "recheck", "check", "append"}
Ready(s, b, c) ==
  /\ s \in {"inputs", "recheck", "append"} => Extends(b, c)
  /\ s = "check" => Extends(b, c) \/ Forks(b, c)
ReadyInv == \A t \in Net : Ready(pc[t], blk[t], chain)

Valid == FullValid \cup ReorgValid
ValidInv ==
  /\ ReadyInv
  /\ Blocks(chain) \subseteq Valid
  /\ \A h \in DOMAIN kvChain : kvChain[h] \in Valid

\* A step after which the thread decides nothing, or nothing it knows changed.
LEMMA ReadyKept ==
  ASSUME NEW t, Net = {t}, ReadyInv,
         \/ pc'[t] \notin Deciding
         \/ pc'[t] = pc[t] /\ blk'[t] = blk[t] /\ chain' = chain
  PROVE  ReadyInv'
BY DEF ReadyInv, Ready, Deciding

\* The steps that decide.
LEMMA IngestReady ==
  ASSUME NEW t, Net = {t}, TypeInv, ReadyInv, IngestStep(t)
  PROVE  ReadyInv'
<1>0. t \in Thread /\ pc \in [Thread -> Step] BY DEF TypeInv, Typed, TypeOK, Thread, Ingest
<1>1. CASE Classify(t)
  <2>1. PotentialFork(blk[t]) => Forks(blk[t], chain)
    BY DEF PotentialFork, Gap, Forks, TipHeight
  <2>2. CASE PotentialFork(blk[t]) /\ pc'[t] = "check" /\ UNCHANGED <<blk, chain>>
    BY <2>1, <2>2 DEF ReadyInv, Ready
  <2>3. CASE pc'[t] \in {"idle", "context"} BY <2>3, ReadyKept DEF Deciding
  <2> QED BY <1>0, <1>1, <2>2, <2>3 DEF Classify, Goto, Reject, gossip, memory
<1>2. CASE ValidateContext(t)
  <2>1. CASE ContextValid(blk[t])
    <3>1. pc'[t] = "inputs" /\ UNCHANGED <<blk, chain>>
      BY <1>0, <1>2, <2>1 DEF ValidateContext, Goto, gossip, memory
    <3>2. Extends(blk[t], chain) BY <2>1 DEF ContextValid, Extends
    <3> QED BY <3>1, <3>2 DEF ReadyInv, Ready
  <2>2. CASE ~ContextValid(blk[t])
    <3>1. pc'[t] = "idle" BY <1>0, <1>2, <2>2 DEF ValidateContext, Fail, Reject, Goto
    <3> QED BY <3>1, ReadyKept DEF Deciding
  <2> QED BY <2>1, <2>2
<1>3. CASE ValidateInputs(t)
  <2>1. Extends(blk[t], chain) BY <1>3 DEF ReadyInv, Ready, ValidateInputs
  <2>2. CASE pc'[t] = "recheck" /\ UNCHANGED <<blk, chain>>
    BY <2>1, <2>2 DEF ReadyInv, Ready
  <2>3. CASE pc'[t] = "idle" BY <2>3, ReadyKept DEF Deciding
  <2> QED BY <1>0, <1>3, <2>2, <2>3 DEF ValidateInputs, Fail, Reject, Goto, gossip, memory
<1>4. CASE ValidateRecheck(t)
  <2>1. Extends(blk[t], chain) BY <1>4 DEF ReadyInv, Ready, ValidateRecheck
  <2>2. CASE pc'[t] = "check" /\ UNCHANGED <<blk, chain>>
    BY <2>1, <2>2 DEF ReadyInv, Ready
  <2>3. CASE pc'[t] = "idle" BY <2>3, ReadyKept DEF Deciding
  <2> QED BY <1>0, <1>4, <2>2, <2>3 DEF ValidateRecheck, Fail, Reject, Goto, gossip, memory
<1>5. CASE AddCheck(t)
  <2>1. Extends(blk[t], chain) \/ Forks(blk[t], chain)
    BY <1>5 DEF ReadyInv, Ready, AddCheck
  <2>2. Attaches(blk[t]) => ~Forks(blk[t], chain) BY DEF Attaches, Forks
  <2>3. CASE Attaches(blk[t]) /\ pc'[t] = "append" /\ UNCHANGED <<blk, chain>>
    BY <2>1, <2>2, <2>3 DEF ReadyInv, Ready
  <2>4. CASE pc'[t] \in {"idle", "resolve"} BY <2>4, ReadyKept DEF Deciding
  <2> QED BY <1>0, <1>5, <2>3, <2>4 DEF AddCheck, Fail, Reject, Goto, gossip, memory
<1>6. CASE AddAppend(t) \/ AddMark(t) \/ AddApply(t) \/ AddSchedule(t) \/ Accept(t)
  <2>1. pc'[t] \in {"mark", "apply", "schedule", "accept", "save", "idle"}
    BY <1>0, <1>6 DEF AddAppend, AddMark, AddApply, AddSchedule, Accept, Goto
  <2> QED BY <2>1, ReadyKept DEF Deciding
<1>7. CASE \/ ForkPrecheck(t) \/ SwapCheck(t) \/ SwapCommit(t)
           \/ ReplaceCheck(t) \/ ReplaceCommit(t) \/ Announce(t)
  <2>1. pc'[t] \in {"swap", "commit", "adopt", "save", "idle"}
    BY <1>0, <1>7 DEF ForkPrecheck, SwapCheck, SwapCommit, ReplaceCheck, ReplaceCommit,
       Announce, Reject, Goto
  <2> QED BY <2>1, ReadyKept DEF Deciding
<1> QED BY <1>1, <1>2, <1>3, <1>4, <1>5, <1>6, <1>7 DEF IngestStep

\* No save decides anything.
LEMMA SaveReady ==
  ASSUME NEW t, Net = {t}, TypeInv, ReadyInv, NEW u \in Thread, SaveStep(u)
  PROVE  ReadyInv'
<1>0. t \in Thread /\ pc \in [Thread -> Step] /\ args \in [Thread -> CallType]
      /\ blk \in [Thread -> Block \cup {NoBlock}]
  BY DEF TypeInv, Typed, TypeOK, LocalsType, GossipType, Thread, Ingest
<1>1. chain' = chain
  BY DEF SaveStep, SaveBegin, SaveClear, SavePut, SaveEnd, SaveAbort, RebuildUtxo,
     UtxoClear, UtxoPut, CountBlocks, SaveState, memory
<1> DEFINE Next1 == SaveSteps \cup {"idle", "accept", "mark", "announce", "exit", "resolve"}
<1>2. Next1 \cap Deciding = {} BY DEF SaveSteps, Deciding
<1>3. \E s \in Next1 : pc' = [pc EXCEPT ![u] = s]
  <2>1. AfterSave(u) \in Next1 BY DEF AfterSave, SaveSteps
  <2>2. args[u].next \in Next1 BY <1>0 DEF CallType
  <2>3. {"clear", "put", "saved", "uclear", "uput", "count", "state"} \subseteq Next1
    BY DEF SaveSteps
  <2>4. CASE SaveAbort(u)
    BY <2>4 DEF SaveAbort, Reject, Fail, Goto
  <2>5. CASE SaveState(u) BY <2>2, <2>5 DEF SaveState, Goto
  <2>6. CASE SaveBegin(u) \/ SaveEnd(u)
    BY <2>1, <2>3, <2>6 DEF SaveBegin, SaveEnd, Goto
  <2>7. CASE SaveClear(u) \/ SavePut(u) \/ RebuildUtxo(u) \/ UtxoClear(u) \/ UtxoPut(u)
             \/ CountBlocks(u)
    BY <2>3, <2>7 DEF SaveClear, SavePut, RebuildUtxo, UtxoClear, UtxoPut, CountBlocks,
       Goto
  <2> QED BY <2>4, <2>5, <2>6, <2>7 DEF SaveStep
<1> HIDE DEF Next1
<1>4. CASE u = t
  <2>1. pc'[t] \notin Deciding BY <1>0, <1>2, <1>3, <1>4
  <2> QED BY <2>1, ReadyKept
<1>5. CASE u # t
  <2>1. pc'[t] = pc[t] BY <1>0, <1>3, <1>5
  <2>2. blk'[t] = blk[t]
    <3>1. u \notin Net BY <1>5
    <3>2. CASE SaveAbort(u)
      BY <1>0, <1>5, <3>1, <3>2 DEF SaveAbort, Fail, gossip
    <3>3. CASE ~SaveAbort(u)
      BY <3>3 DEF SaveStep, SaveBegin, SaveClear, SavePut, SaveEnd, RebuildUtxo,
         UtxoClear, UtxoPut, CountBlocks, SaveState, gossip
    <3> QED BY <3>2, <3>3
  <2> QED BY <1>1, <2>1, <2>2, ReadyKept
<1> QED BY <1>4, <1>5

\* What a thread knows of its block is kept by every step.
LEMMA ReadyStep ==
  ASSUME OneReader, TypeInv, ReadyInv, [Next]_vars
  PROVE  ReadyInv'
<1>1. PICK t : Net = {t} BY DEF OneReader
<1>0. Miners = {} /\ t \in Thread /\ pc \in [Thread -> Step] /\ t \notin {Worker, Main}
  BY <1>1, ThreadAssumption DEF OneReader, TypeInv, Typed, TypeOK, Thread, Ingest
<1>2. CASE UNCHANGED vars
  BY <1>1, <1>2, ReadyKept DEF vars, memory, gossip
<1>3. CASE Input(t)
  <2>1. pc'[t] \in {"classify", "replace"}
    BY <1>0, <1>3 DEF Input, ReceiveBlock, ReplaceBuild, Goto
  <2> QED BY <1>1, <2>1, ReadyKept DEF Deciding
<1>4. CASE PersistTake \/ Stop \/ Join
  <2>1. /\ pc'[t] = pc[t] /\ blk'[t] = blk[t] /\ chain' = chain
    BY <1>0, <1>4 DEF PersistTake, Stop, Join, Goto, gossip, memory
  <2> QED BY <1>1, <2>1, ReadyKept
<1>5. CASE Crash \/ Restart
  <2>1. pc'[t] = "idle" BY <1>0, <1>5 DEF Crash, Restart, Boot
  <2> QED BY <1>1, <2>1, ReadyKept DEF Deciding
<1>6. CASE Next
  <2>1. \/ Input(t) \/ IngestStep(t) \/ \E u \in Thread : SaveStep(u)
        \/ PersistTake \/ Stop \/ Join \/ Crash \/ Restart
    BY <1>0, <1>1, <1>6, NextWithoutMiners
  <2> QED BY <1>1, <1>3, <1>4, <1>5, <2>1, IngestReady, SaveReady
<1> QED BY <1>2, <1>6

\* The store changes in four places only: the two transactions of a save, a
\* miner's reload, and a start.
LEMMA StoreChange ==
  ASSUME [Next]_vars, kvChain' # kvChain
  PROVE  \/ \E t \in Thread : SaveClear(t) \/ SavePut(t)
         \/ \E m \in Miners : ReloadWipe(m)
         \/ Crash \/ Restart
<1>1. Next BY DEF vars, disk
<1>2. ASSUME NEW t \in Net, Input(t) PROVE FALSE
  BY <1>2 DEF Input, ReceiveBlock, ReplaceBuild, disk
<1>3. ASSUME NEW t \in Ingest, IngestStep(t) PROVE FALSE
  BY <1>3 DEF IngestStep, Classify, ValidateContext, ValidateInputs, ValidateRecheck,
     AddCheck, AddAppend, AddMark, AddApply, AddSchedule, Accept, ForkPrecheck, SwapCheck, SwapCommit,
     ReplaceCheck, ReplaceCommit, Announce, disk
<1>4. ASSUME NEW t \in Thread, SaveStep(t) PROVE SaveClear(t) \/ SavePut(t)
  BY <1>4 DEF SaveStep, SaveBegin, SaveEnd, SaveAbort, RebuildUtxo, UtxoClear, UtxoPut,
     CountBlocks, SaveState, disk
<1>5. ASSUME NEW m \in Miners, MineStep(m) PROVE ReloadWipe(m)
  BY <1>5 DEF MineStep, ReloadRead, ReloadAssign, ReloadHeight, ReloadClean, ReloadVerify,
     MineFound, MineStop, MineBuild, disk
<1>6. ~(PersistTake \/ Stop \/ Join)
  BY DEF PersistTake, Stop, Join, disk
<1>7. CASE \E t \in Thread : SaveStep(t) BY <1>4, <1>7
<1>8. CASE \E m \in Miners : MineStep(m) BY <1>5, <1>8
<1> QED BY <1>1, <1>2, <1>3, <1>6, <1>7, <1>8 DEF Next

\* What a start reads back are blocks of the store.
LEMMA LoadedFromStore ==
  ASSUME DiskType
  PROVE  /\ LoadedChain \in Seq(Entry)
         /\ \A i \in 1..Len(LoadedChain) :
              \E h \in DOMAIN kvChain : LoadedChain[i].blk = kvChain[h]
<1>1. DOMAIN kvChain \in SUBSET Nat /\ IsFiniteSet(DOMAIN kvChain) BY DEF DiskType, IsStore
<1>2. /\ StoredChain \in Seq(Entry)
      /\ Len(StoredChain) = Cardinality(DOMAIN kvChain)
      /\ \A i \in 1..Len(StoredChain) : StoredChain[i] = LoadedEntry(i)
  BY StoredEntries
<1>3. ASSUME NEW i \in 1..Len(StoredChain)
      PROVE  \E h \in DOMAIN kvChain : StoredChain[i].blk = kvChain[h]
  <2>1. KeyAt(DOMAIN kvChain, i) \in DOMAIN kvChain BY <1>1, <1>2, KeyIsNth
  <2>2. StoredChain[i].blk = kvChain[KeyAt(DOMAIN kvChain, i)] BY <1>2 DEF LoadedEntry
  <2> QED BY <2>1, <2>2
<1>4. CASE LoadedChain = StoredChain BY <1>2, <1>3, <1>4
<1>5. CASE LoadedChain = <<>> BY <1>5
<1> QED BY <1>4, <1>5 DEF LoadedChain

\* Every place that changes the chain puts validated blocks there.
LEMMA ChainValid ==
  ASSUME OneReader, TypeInv, Proposed, ValidInv, [Next]_vars
  PROVE  Blocks(chain') \subseteq Valid
<1>0. chain \in Seq(Entry) /\ DiskType /\ Miners = {} /\ Ingest = Net
  BY DEF TypeInv, Typed, TypeOK, MemoryType, OneReader, Ingest
<1>1. \A i \in 1..Len(chain) : chain[i].blk \in Valid BY <1>0 DEF ValidInv, Blocks
<1>2. ASSUME NEW t \in Net, AddAppend(t) PROVE Blocks(chain') \subseteq Valid
  <2>1. blk[t] \in Block /\ chain' = Append(chain, Fresh(blk[t]))
    BY <1>0, <1>2, AppendedBlock DEF AddAppend
  <2>2. blk[t] \in FullValid
    BY <1>2 DEF ValidInv, ReadyInv, Ready, Extends, AddAppend
  <2>3. Fresh(blk[t]) \in Entry /\ Fresh(blk[t]).blk = blk[t] BY <2>1, FreshIsEntry
  <2>4. \A i \in 1..Len(chain') : chain'[i].blk \in Valid
    BY <1>0, <1>1, <2>1, <2>2, <2>3 DEF Valid
  <2>5. DOMAIN chain' = 1..Len(chain') BY <1>0, <2>1, <2>3
  <2> QED BY <2>4, <2>5 DEF Blocks
<1>3. ASSUME NEW t \in Net, Swaps(t) PROVE Blocks(chain') \subseteq Valid
  <2>0. blk[t] \in Block BY <1>3 DEF TypeInv, Typed, InHand, Planning, Swaps, SwapCommit
  <2>1. /\ blk[t] \in Block /\ chain' = SwappedFor(blk[t])
        /\ CompleteChainValid(chain') /\ Len(chain) >= 2
    BY <1>0, <1>3, <2>0, SwapsFacts
  <2>2. /\ chain' \in Seq(Entry) /\ Len(chain') = Len(chain) /\ Len(chain) >= 2
        /\ \A i \in 1..Len(chain) : i # Len(chain) => chain'[i] = chain[i]
    BY <1>0, <2>1, SwappedType
  <2>3. \A i \in 2..Len(chain') : chain'[i].blk \in Valid
    BY <2>1 DEF CompleteChainValid, Valid
  <2>4. chain'[1] = chain[1] /\ 1 \in 1..Len(chain) BY <1>0, <2>2
  <2>5. \A i \in 1..Len(chain') : chain'[i].blk \in Valid BY <1>0, <1>1, <2>2, <2>3, <2>4
  <2> QED BY <2>2, <2>5 DEF Blocks
<1>4. ASSUME NEW t \in Net, NEW s \in Branches, Adopts(t, s)
      PROVE  Blocks(chain') \subseteq Valid
  <2>1. /\ ForksAt(s) /\ chain' = Candidate(s) /\ CompleteChainValid(chain')
    BY <1>4, AdoptsFacts
  <2>2. /\ chain' \in Seq(Entry)
        /\ \A i \in 1..Height[Head(s)] : chain'[i] = chain[i]
    BY <1>0, <2>1, CandidateType
  <2>3. Height[Head(s)] \in 1..Len(chain) BY <2>1 DEF ForksAt
  <2>4. chain'[1] = chain[1] /\ 1 \in 1..Len(chain) BY <1>0, <2>2, <2>3
  <2>5. \A i \in 2..Len(chain') : chain'[i].blk \in Valid
    BY <2>1 DEF CompleteChainValid, Valid
  <2>6. \A i \in 1..Len(chain') : chain'[i].blk \in Valid BY <1>1, <2>2, <2>4, <2>5
  <2> QED BY <2>2, <2>6 DEF Blocks
<1>5. CASE Crash \/ Restart
  <2>1. chain' = LoadedChain BY <1>5 DEF Crash, Restart, Boot
  <2>2. /\ chain' \in Seq(Entry)
        /\ \A i \in 1..Len(chain') : \E h \in DOMAIN kvChain : chain'[i].blk = kvChain[h]
    BY <1>0, <2>1, LoadedFromStore
  <2>3. \A h \in DOMAIN kvChain : kvChain[h] \in Valid BY DEF ValidInv
  <2> QED BY <2>2, <2>3 DEF Blocks
<1>6. CASE chain' = chain BY <1>6 DEF ValidInv
<1>7. CASE chain' # chain
  <2>1. \/ \E t \in Net : AddAppend(t) \/ Swaps(t) \/ \E s \in Branches : Adopts(t, s)
        \/ Crash \/ Restart
    BY <1>7, ChainChangeNet
  <2> QED BY <1>2, <1>3, <1>4, <1>5, <2>1
<1> QED BY <1>6, <1>7

\* Every place that changes the store puts blocks of the chain there.
LEMMA StoreValid ==
  ASSUME OneReader, TypeInv, ValidInv, [Next]_vars
  PROVE  \A h \in DOMAIN kvChain' : kvChain'[h] \in Valid
<1>0. /\ chain \in Seq(Entry) /\ Miners = {} /\ save.tip \in Nat \cup {-1}
      /\ save.from \in Nat \cup {NoHeight}
  BY DEF TypeInv, Typed, TypeOK, MemoryType, LocalsType, OneReader
<1>1. \A i \in 1..Len(chain) : chain[i].blk \in Valid BY <1>0 DEF ValidInv, Blocks
<1>2. \A h \in DOMAIN kvChain : kvChain[h] \in Valid BY DEF ValidInv
<1>3. ASSUME NEW t \in Thread, SavePut(t), NEW h \in DOMAIN kvChain'
      PROVE  kvChain'[h] \in Valid
  <2>1. CASE h \in SaveHeights
    <3>1. h + 1 \in 1..Len(chain) BY <1>0, <1>3, <2>1 DEF SavePut, SaveHeights
    <3>2. kvChain'[h] = chain[h + 1].blk BY <1>3, <2>1 DEF SavePut
    <3> QED BY <1>1, <3>1, <3>2
  <2>2. CASE h \notin SaveHeights
    BY <1>2, <1>3, <2>2 DEF SavePut
  <2> QED BY <2>1, <2>2
<1>4. CASE DOMAIN kvChain' = {} BY <1>4
<1>5. CASE kvChain' = kvChain BY <1>2, <1>5
<1>6. CASE kvChain' # kvChain
  <2>1. \/ \E t \in Thread : SaveClear(t) \/ SavePut(t)
        \/ Crash \/ Restart
    BY <1>0, <1>6, StoreChange
  <2>2. CASE Crash \/ Restart
    BY <1>4, <1>5, <2>2 DEF Crash, Restart, Boot
  <2>3. ASSUME NEW t \in Thread, SaveClear(t) PROVE DOMAIN kvChain' = {}
    BY <2>3 DEF SaveClear
  <2> QED BY <1>3, <1>4, <2>1, <2>2, <2>3
<1> QED BY <1>5, <1>6

\* Every block of the chain met the rules of validate_block or those of the
\* complete-chain check, although a kill may lose blocks, the store may keep
\* holes, and a start checks nothing but the genesis of what it reads back.
THEOREM EveryBlockValidated == OneReader /\ StartsSound => (Spec => []OnlyValidated)
<1> SUFFICES ASSUME OneReader, StartsSound PROVE Spec => []OnlyValidated
  OBVIOUS
<1>1. Init => TypeInv /\ Proposed /\ ValidInv
  <2> SUFFICES ASSUME Init PROVE TypeInv /\ Proposed /\ ValidInv
    OBVIOUS
  <2>a. Proposed BY DEF Init, Proposed, Planning, Thread, Ingest
  <2>1. TypeInv /\ chain = FreshSeq(Stored) BY TypesInit DEF Init
  <2>2. chain \in Seq(Entry) BY <2>1 DEF TypeInv, Typed, TypeOK, MemoryType
  <2>3. Blocks(chain) \subseteq Valid
    BY <2>1, <2>2, AcceptableIsSound DEF StartsSound, Sound, Valid
  <2>4. ReadyInv BY DEF Init, ReadyInv, Ready, Thread, Ingest
  <2>5. \A h \in DOMAIN kvChain : kvChain[h] \in Valid
    <3>1. Stored \in Seq(Block) BY BranchAssumption
    <3> SUFFICES ASSUME NEW h \in 0..(Len(Stored) - 1) PROVE Stored[h + 1] \in Valid
      BY DEF Init
    <3>2. h + 1 \in 1..Len(Stored) BY <3>1
    <3>3. h + 1 \in DOMAIN chain /\ chain[h + 1] = Fresh(Stored[h + 1])
      BY <2>1, <3>1, <3>2 DEF FreshSeq
    <3>4. Stored[h + 1] \in Block BY <3>1, <3>2
    <3>5. chain[h + 1].blk = Stored[h + 1] BY <3>3, <3>4, FreshIsEntry
    <3> QED BY <2>3, <3>3, <3>5 DEF Blocks
  <2> QED BY <2>a, <2>1, <2>3, <2>4, <2>5 DEF ValidInv
<1>2. TypeInv /\ Proposed /\ ValidInv /\ [Next]_vars => TypeInv' /\ Proposed' /\ ValidInv'
  BY TypesStep, ProposedStep, ReadyStep, ChainValid, StoreValid DEF ValidInv
<1>3. ValidInv => OnlyValidated BY DEF ValidInv, OnlyValidated, Valid
<1> QED BY <1>1, <1>2, <1>3, PTL DEF Spec

-----------------------------------------------------------------------------
(* One connection and restarts: two branches are never joined *)

\* The keys of the store follow one path upwards, none above the height its
\* block names, and the meta record names the block of the last key.
PathStore ==
  /\ \A h \in DOMAIN kvChain : h <= Height[kvChain[h]]
  /\ \A h, k \in DOMAIN kvChain : h < k => Below(kvChain[h], kvChain[k])
  /\ \A h \in DOMAIN kvChain :
       (\A k \in DOMAIN kvChain : k <= h) => kvTip = kvChain[h]

\* What save_chain is about to write is the tip it has read, and nothing of
\* the store lies above it.
Saving ==
  \A u \in Thread :
    /\ pc[u] \in {"clear", "put"} => save.tip >= 0 /\ save.hash = chain[save.tip + 1].blk
    /\ pc[u] = "put" =>
         persisted <= save.tip /\ (persisted = -1 => DOMAIN kvChain = {})

\* A replacement by a synchronised branch is about to clear the store.
Renewing == \E t \in Net : args[t].held /\ args[t].force /\ pc[t] = "save"

\* No key lies above _persisted_height, where the store is not to be cleared.
Keys ==
  \/ Renewing \/ persisted = -1
  \/ persisted < Len(chain) /\ \A h \in DOMAIN kvChain : h <= persisted

\* A start that met a hole in the store: no block can be appended, the tip
\* cannot be swapped, and the next save, if any, clears the store.
Frozen ==
  /\ chain # <<>> /\ TipHeight # Len(chain) - 1
  /\ ~pending /\ pc[Worker] = "idle"
  /\ \A t \in Net : pc[t] \notin AfterChange \cup {"append"}
  /\ pc[Main] \in {"idle", "join", "save", "clear", "exit"}
  /\ pc[Main] = "save" => args[Main].force

\* Otherwise the store follows the chain.
Following == StoreInv /\ Keys

BranchInv ==
  /\ TypeInv /\ Proposed /\ Locked /\ Chosen /\ ReadyInv
  /\ Path(chain) /\ PathStore /\ Saving
  /\ Frozen \/ Following

\* Whose step it is, and that it moves no other thread.
Acts(v) ==
  \/ v \in Net /\ (Input(v) \/ IngestStep(v))
  \/ SaveStep(v)
  \/ v = Worker /\ PersistTake
  \/ v = Main /\ (Stop \/ Join)

LEMMA Actor ==
  ASSUME Miners = {}, TypeInv, Next, ~(Crash \/ Restart)
  PROVE  \E v \in Thread : Acts(v) /\ OthersStay(v)
<1>0. /\ pc \in [Thread -> Step] /\ args \in [Thread -> CallType]
      /\ Worker \in Thread /\ Main \in Thread /\ Net \subseteq Thread
  BY DEF TypeInv, Typed, TypeOK, LocalsType, Thread, Ingest
<1>1. PICK v \in Thread : Acts(v)
  <2>1. \/ \E t \in Net : Input(t) \/ IngestStep(t)
        \/ \E t \in Thread : SaveStep(t)
        \/ PersistTake \/ Stop \/ Join
    BY NextWithoutMiners
  <2> QED BY <1>0, <2>1 DEF Acts
<1> USE DEF memory, locals, gossip, locks, disk, life
<1>2. \E s : Goto(v, s)
  <2>1. CASE Input(v) BY <2>1 DEF Input, ReceiveBlock, ReplaceBuild
  <2>2. CASE IngestStep(v)
    BY <2>2 DEF IngestStep, Classify, ValidateContext, ValidateInputs, ValidateRecheck,
       AddCheck, AddAppend, AddMark, AddApply, AddSchedule, Accept, ForkPrecheck, SwapCheck, SwapCommit,
       ReplaceCheck, ReplaceCommit, Announce, Fail, Reject
  <2>3. CASE SaveStep(v)
    BY <2>3 DEF SaveStep, SaveBegin, SaveClear, SavePut, SaveEnd, SaveAbort, RebuildUtxo,
       UtxoClear, UtxoPut, CountBlocks, SaveState, Fail, Reject
  <2>4. CASE v = Worker /\ PersistTake BY <2>4 DEF PersistTake
  <2>5. CASE v = Main /\ (Stop \/ Join) BY <2>5 DEF Stop, Join
  <2> QED BY <1>1, <2>1, <2>2, <2>3, <2>4, <2>5 DEF Acts
<1>3. args' = args \/ \E c : args' = [args EXCEPT ![v] = c]
  <2>1. CASE Input(v) BY <2>1 DEF Input, ReceiveBlock, ReplaceBuild
  <2>2. CASE IngestStep(v)
    BY <2>2 DEF IngestStep, Classify, ValidateContext, ValidateInputs, ValidateRecheck,
       AddCheck, AddAppend, AddMark, AddApply, AddSchedule, Accept, ForkPrecheck, SwapCheck, SwapCommit,
       ReplaceCheck, ReplaceCommit, Announce
  <2>3. CASE SaveStep(v)
    BY <2>3 DEF SaveStep, SaveBegin, SaveClear, SavePut, SaveEnd, SaveAbort, RebuildUtxo,
       UtxoClear, UtxoPut, CountBlocks, SaveState
  <2>4. CASE v = Worker /\ PersistTake BY <2>4 DEF PersistTake
  <2>5. CASE v = Main /\ (Stop \/ Join) BY <2>5 DEF Stop, Join
  <2> QED BY <1>1, <2>1, <2>2, <2>3, <2>4, <2>5 DEF Acts
<1>4. OthersStay(v) BY <1>0, <1>2, <1>3 DEF Goto, OthersStay
<1> QED BY <1>1, <1>4

\* Every place that changes the chain leaves its blocks on one path.
LEMMA PathKept ==
  ASSUME OneReader, TreeHeights, BranchInv, [Next]_vars, ~(Crash \/ Restart)
  PROVE  Path(chain')
<1>0. chain \in Seq(Entry) /\ Miners = {} /\ Ingest = Net /\ Path(chain)
  BY DEF BranchInv, TypeInv, Typed, TypeOK, MemoryType, OneReader, Ingest
<1>1. ASSUME NEW t \in Net, AddAppend(t) PROVE Path(chain')
  <2> DEFINE b == blk[t]
             e == Fresh(b)
  <2>1. b \in Block /\ chain' = Append(chain, e)
    BY <1>0, <1>1, AppendedBlock DEF AddAppend, BranchInv
  <2>2. Extends(b, chain)
    BY <1>1 DEF BranchInv, ReadyInv, Ready, AddAppend
  <2>3. e \in Entry /\ e.blk = b /\ e.hash = b /\ e = Fresh(e.blk) BY <2>1, FreshIsEntry
  <2> HIDE DEF b, e
  <2>4. /\ chain' \in Seq(Entry) /\ Len(chain') = Len(chain) + 1
        /\ \A i \in 1..Len(chain) : chain'[i] = chain[i]
        /\ chain'[Len(chain) + 1] = e
    BY <1>0, <2>1, <2>3
  <2>5. CASE chain = <<>>
    <3>1. Len(chain') = 1 /\ chain'[1] = e /\ b = Genesis
      BY <1>0, <2>2, <2>4, <2>5 DEF Extends
    <3> QED BY <2>3, <3>1 DEF Path
  <2>6. CASE chain # <<>>
    <3>1. Parent[b] = chain[Len(chain)].hash /\ Len(chain) \in 1..Len(chain)
      BY <1>0, <2>2, <2>6 DEF Extends, TipHash
    <3>2. ASSUME NEW i \in (Len(chain) + 1)..Len(chain')
          PROVE  chain'[i] = Fresh(chain'[i].blk) /\ Parent[chain'[i].blk] = chain'[i - 1].hash
      <4>1. i = Len(chain) + 1 /\ i - 1 = Len(chain) BY <1>0, <2>4
      <4> QED BY <2>3, <2>4, <3>1, <4>1
    <3>3. Len(chain') > Len(chain) BY <1>0, <2>4
    <3> QED BY <1>0, <2>4, <3>1, <3>2, <3>3, PathGoesOn
  <2> QED BY <2>5, <2>6
<1>2. ASSUME NEW t \in Net, Swaps(t) PROVE Path(chain')
  <2>0. blk[t] \in Block
    BY <1>2 DEF BranchInv, TypeInv, Typed, InHand, Planning, Swaps, SwapCommit
  <2>1. /\ blk[t] \in Block /\ Len(chain) >= 2 /\ chain' = SwappedFor(blk[t])
        /\ CompleteChainValid(chain')
    BY <1>0, <1>2, <2>0, SwapsFacts
  <2>2. /\ chain' \in Seq(Entry) /\ Len(chain') = Len(chain) /\ Len(chain) >= 2
        /\ chain'[Len(chain)] = Fresh(blk[t])
        /\ \A i \in 1..Len(chain) : i # Len(chain) => chain'[i] = chain[i]
    BY <1>0, <2>1, SwappedType DEF SwappedFor
  <2> DEFINE k == Len(chain) - 1
  <2>3. k \in 1..Len(chain) /\ Len(chain') > k /\ \A i \in 1..k : chain'[i] = chain[i]
    BY <1>0, <2>2
  <2>4. ASSUME NEW i \in (k + 1)..Len(chain')
        PROVE  chain'[i] = Fresh(chain'[i].blk) /\ Parent[chain'[i].blk] = chain'[i - 1].hash
    <3>1. i = Len(chain) /\ i \in 2..Len(chain') BY <1>0, <2>2
    <3>2. LinkedAt(chain', i) BY <2>1, <3>1 DEF CompleteChainValid
    <3> QED BY <2>1, <2>2, <3>1, <3>2, FreshIsEntry DEF LinkedAt
  <2> HIDE DEF k
  <2> QED BY <1>0, <2>2, <2>3, <2>4, PathGoesOn
<1>3. ASSUME NEW t \in Net, NEW s \in Branches, Adopts(t, s) PROVE Path(chain')
  <2>1. /\ ForksAt(s) /\ chain' = Candidate(s) /\ CompleteChainValid(chain')
    BY <1>3, AdoptsFacts
  <2> DEFINE k == Height[Head(s)]
  <2>2. /\ chain' \in Seq(Entry) /\ Len(chain') = k + Len(s)
        /\ \A i \in 1..k : chain'[i] = chain[i]
        /\ \A i \in 1..Len(s) : chain'[k + i] = Fresh(s[i])
    BY <1>0, <2>1, CandidateType
  <2>3. k \in 1..Len(chain) BY <2>1 DEF ForksAt
  <2> HIDE DEF k
  <2>4. s \in Seq(Block) /\ Len(s) > 0
    <3>1. s \in Seq(Block) /\ s # <<>> BY BranchAssumption
    <3> QED BY <3>1
  <2>5. Len(chain') > k BY <2>2, <2>3, <2>4
  <2>6. ASSUME NEW i \in (k + 1)..Len(chain')
        PROVE  chain'[i] = Fresh(chain'[i].blk) /\ Parent[chain'[i].blk] = chain'[i - 1].hash
    <3>1. i - k \in 1..Len(s) /\ k + (i - k) = i /\ i \in 2..Len(chain')
      BY <2>2, <2>3, <2>4
    <3>2. chain'[i] = Fresh(s[i - k]) /\ s[i - k] \in Block BY <2>2, <2>4, <3>1
    <3>3. LinkedAt(chain', i) BY <2>1, <3>1 DEF CompleteChainValid
    <3> QED BY <3>2, <3>3, FreshIsEntry DEF LinkedAt
  <2> QED BY <1>0, <2>2, <2>3, <2>5, <2>6, PathGoesOn
<1>4. CASE chain' = chain BY <1>0, <1>4
<1>5. CASE chain' # chain
  <2>1. \E t \in Net : AddAppend(t) \/ Swaps(t) \/ \E s \in Branches : Adopts(t, s)
    BY <1>5, ChainChangeNet DEF BranchInv
  <2> QED BY <1>1, <1>2, <1>3, <2>1
<1> QED BY <1>4, <1>5

\* A step that may not take the lock writes nothing of the store or of the
\* save, and at most appends to the chain.
LEMMA WithoutLock ==
  ASSUME TypeInv, Locked, Miners = {}, NEW v \in Thread, Acts(v), ~Free(lock, v)
  PROVE  /\ UNCHANGED <<save, persisted, kvChain, kvTip>>
         /\ chain' = chain \/ (v \in Net /\ AddAppend(v))
<1> USE DEF memory, locals, gossip, locks, disk, life
<1>0. pc[v] \notin {"clear", "put", "saved", "commit", "adopt"} BY DEF Locked, Critical, Free
<1>1. CASE v \in Net /\ Input(v)
  BY <1>1 DEF Input, ReceiveBlock, ReplaceBuild
<1>2. CASE v \in Net /\ IngestStep(v)
  BY <1>0, <1>2 DEF IngestStep, Classify, ValidateContext, ValidateInputs, ValidateRecheck,
     AddCheck, AddAppend, AddMark, AddApply, AddSchedule, Accept, ForkPrecheck, SwapCheck, SwapCommit,
     ReplaceCheck, ReplaceCommit, Announce
<1>3. CASE SaveStep(v)
  BY <1>0, <1>3 DEF SaveStep, SaveBegin, SaveClear, SavePut, SaveEnd, SaveAbort,
     RebuildUtxo, UtxoClear, UtxoPut, CountBlocks, SaveState
<1>4. CASE (v = Worker /\ PersistTake) \/ (v = Main /\ (Stop \/ Join))
  BY <1>4 DEF PersistTake, Stop, Join
<1> QED BY <1>1, <1>2, <1>3, <1>4 DEF Acts

\* Only the begin of a save, the clearing and the batch touch the persisted
\* height or lead to the batch, and only a replacement shortens the chain.
LEMMA OutsideSave ==
  ASSUME TypeInv, Locked, Miners = {}, NEW v \in Thread, Acts(v),
         ~(SaveBegin(v) \/ SaveClear(v) \/ SavePut(v))
  PROVE  /\ UNCHANGED <<persisted, kvChain, kvTip>>
         /\ pc'[v] \notin {"clear", "put"} /\ pc[v] # "save"
         /\ \/ Len(chain') >= Len(chain)
            \/ v \in Net /\ ReplaceCommit(v)
<1> USE DEF memory, locals, gossip, locks, disk, life
<1>0. /\ chain \in Seq(Entry) /\ pc \in [Thread -> Step] /\ args \in [Thread -> CallType]
      /\ Worker \in Thread /\ Main \in Thread /\ Net \subseteq Thread
      /\ blk \in [Thread -> Block \cup {NoBlock}]
  BY DEF TypeInv, Typed, TypeOK, MemoryType, LocalsType, GossipType, Thread, Ingest
<1>1. CASE v \in Net /\ Input(v)
  <2>1. pc'[v] \in {"classify", "replace"} /\ pc[v] = "idle"
    BY <1>0, <1>1 DEF Input, ReceiveBlock, ReplaceBuild, Goto
  <2>2. UNCHANGED <<persisted, kvChain, kvTip>>
        /\ chain' = chain
    BY <1>1 DEF Input, ReceiveBlock, ReplaceBuild
  <2>3. chain' = chain => Len(chain') >= Len(chain) BY <1>0
  <2> QED BY <1>1, <2>1, <2>2, <2>3
<1>2. CASE v \in Net /\ IngestStep(v)
  <2>1. UNCHANGED <<persisted, kvChain, kvTip>>
    BY <1>2 DEF IngestStep, Classify, ValidateContext, ValidateInputs, ValidateRecheck,
       AddCheck, AddAppend, AddMark, AddApply, AddSchedule, Accept, ForkPrecheck, SwapCheck, SwapCommit,
       ReplaceCheck, ReplaceCommit, Announce
  <2>2. pc'[v] \notin {"clear", "put"} /\ pc[v] # "save"
    BY <1>0, <1>2 DEF IngestStep, Classify, ValidateContext, ValidateInputs, ValidateRecheck,
       AddCheck, AddAppend, AddMark, AddApply, AddSchedule, Accept, ForkPrecheck, SwapCheck, SwapCommit,
       ReplaceCheck, ReplaceCommit, Announce, Fail, Reject, Goto
  <2>3. Len(chain') >= Len(chain) \/ ReplaceCommit(v)
    <3>1. CASE AddAppend(v)
      <4>1. chain' = Append(chain, Fresh(blk[v])) /\ Fresh(blk[v]) \in Entry
        BY <1>2, <3>1, AppendedBlock, FreshIsEntry DEF AddAppend, Ingest
      <4> QED BY <1>0, <4>1
    <3>2. CASE SwapCommit(v)
      <4>1. blk[v] \in Block BY <1>2, <3>2 DEF TypeInv, Typed, InHand, Planning, SwapCommit
      <4>2. (Len(chain) >= 2 /\ chain' = SwappedFor(blk[v])) \/ chain' = chain
        BY <1>0, <3>2, SwapEnds
      <4>3. Len(chain') = Len(chain) BY <1>0, <4>1, <4>2, SwappedType
      <4> QED BY <1>0, <4>3
    <3>3. CASE ~AddAppend(v) /\ ~SwapCommit(v) /\ ~ReplaceCommit(v)
      <4>1. chain' = chain
        BY <1>2, <3>3 DEF IngestStep, Classify, ValidateContext, ValidateInputs,
           ValidateRecheck, AddCheck, AddMark, AddApply, AddSchedule, Accept, ForkPrecheck,
           SwapCheck, ReplaceCheck, Announce
      <4> QED BY <1>0, <4>1
    <3> QED BY <3>1, <3>2, <3>3
  <2> QED BY <1>2, <2>1, <2>2, <2>3
<1>3. CASE SaveStep(v)
  <2>1. /\ UNCHANGED <<persisted, kvChain, kvTip, chain>>
        /\ pc[v] # "save"
    BY <1>3 DEF SaveStep, SaveEnd, SaveAbort, RebuildUtxo, UtxoClear, UtxoPut, CountBlocks,
       SaveState
  <2>2. pc'[v] \notin {"clear", "put"}
    <3>1. AfterSave(v) \notin {"clear", "put"} BY DEF AfterSave
    <3>2. args[v].next \notin {"clear", "put"} BY <1>0 DEF CallType
    <3> QED BY <1>0, <1>3, <3>1, <3>2
            DEF SaveStep, SaveEnd, SaveAbort, RebuildUtxo, UtxoClear, UtxoPut, CountBlocks,
                SaveState, Fail, Reject, Goto
  <2> QED BY <1>0, <2>1, <2>2
<1>4. CASE (v = Worker /\ PersistTake) \/ (v = Main /\ (Stop \/ Join))
  <2>1. UNCHANGED <<persisted, kvChain, kvTip, chain>>
    BY <1>4 DEF PersistTake, Stop, Join
  <2>2. pc[v] # "save" /\ \E s \in {"save", "join", "exit"} : Goto(v, s)
    BY <1>4 DEF PersistTake, Stop, Join
  <2>3. pc'[v] \notin {"clear", "put"} BY <1>0, <2>2 DEF Goto
  <2>4. Len(chain') >= Len(chain) BY <1>0, <2>1
  <2> QED BY <2>1, <2>2, <2>3, <2>4
<1> QED BY <1>1, <1>2, <1>3, <1>4 DEF Acts

\* In a frozen state nobody but the main thread is in a save, and its save
\* clears the store.
LEMMA FrozenSave ==
  ASSUME TypeInv, Frozen, Miners = {}, NEW v \in Thread, SaveStep(v)
  PROVE  v = Main /\ (SaveClear(v) \/ (SaveBegin(v) /\ args[v].force))
<1>1. pc[v] \in SaveSteps
  BY DEF SaveStep, SaveBegin, SaveClear, SavePut, SaveEnd, SaveAbort, RebuildUtxo,
     UtxoClear, UtxoPut, CountBlocks, SaveState, SaveSteps
<1>2. v = Main BY <1>1 DEF Frozen, Thread, Ingest, AfterChange, SaveSteps
<1> QED BY <1>2 DEF Frozen, SaveStep, SaveBegin, SaveClear, SavePut, SaveEnd, SaveAbort,
           RebuildUtxo, UtxoClear, UtxoPut, CountBlocks, SaveState

\* Whoever may take the lock is not overtaken by a replacement.
LEMMA NoRenewal ==
  ASSUME TypeOK, Locked, NEW v \in Thread, Free(lock, v),
         pc[v] = "save" => ~args[v].force
  PROVE  ~Renewing
<1>1. SUFFICES ASSUME NEW u \in Net, args[u].held /\ args[u].force, pc[u] = "save"
               PROVE  FALSE
  BY DEF Renewing
<1>2. u \in Thread BY DEF Thread, Ingest
<1> QED BY <1>1, <1>2, OnlyHolder

\* A save that leaves the store as it is has something to add to it.
LEMMA BeginKnowsKeys ==
  ASSUME BranchInv, Miners = {}, NEW v \in Thread, SaveBegin(v), chain # <<>>,
         ~args[v].force, persisted # -1
  PROVE  persisted < Len(chain) /\ \A h \in DOMAIN kvChain : h <= persisted
<1>0. TypeOK /\ Locked /\ TypeInv BY DEF BranchInv, TypeInv, Typed
<1>1. Free(lock, v) /\ SaveStep(v) BY DEF SaveBegin, SaveStep
<1>2. ~Frozen
  <2>1. ~SaveClear(v) BY DEF SaveBegin, SaveClear
  <2> QED BY <1>0, <1>1, <2>1, FrozenSave
<1>3. ~Renewing BY <1>0, <1>1, NoRenewal
<1> QED BY <1>2, <1>3 DEF BranchInv, Following, Keys

\* What is about to be written stays the tip that was read.
LEMMA SavingKept ==
  ASSUME BranchInv, Miners = {}, NEW v \in Thread, Acts(v), OthersStay(v)
  PROVE  Saving'
<1>0. /\ TypeOK /\ Locked /\ TypeInv /\ chain \in Seq(Entry) /\ Saving
      /\ save.tip \in Nat \cup {-1} /\ persisted \in Nat \cup {-1} /\ Len(chain) \in Nat
      /\ pc \in [Thread -> Step]
  BY DEF BranchInv, TypeInv, Typed, TypeOK, MemoryType, LocalsType
<1> DEFINE Ok(u) ==
      /\ pc[u] \in {"clear", "put"} => save.tip >= 0 /\ save.hash = chain[save.tip + 1].blk
      /\ pc[u] = "put" =>
           persisted <= save.tip /\ (persisted = -1 => DOMAIN kvChain = {})
<1>1. ASSUME NEW u \in Thread, u # v PROVE Ok(u)'
  <2>1. pc'[u] = pc[u] BY <1>1 DEF OthersStay
  <2>2. CASE Free(lock, v)
    BY <1>0, <1>1, <2>1, <2>2, OnlyHolder DEF Critical
  <2>3. CASE ~Free(lock, v)
    <3>1. /\ UNCHANGED <<save, persisted, kvChain>>
          /\ chain' = chain \/ (v \in Net /\ AddAppend(v))
      BY <1>0, <2>3, WithoutLock
    <3>2. CASE pc[u] \in {"clear", "put"}
      <4>1. save.tip >= 0 /\ save.tip < Len(chain) BY <1>0, <3>2 DEF Saving, Locked
      <4>2. save.tip + 1 \in 1..Len(chain) BY <1>0, <4>1
      <4>3. chain'[save.tip + 1] = chain[save.tip + 1]
        <5>1. CASE v \in Net /\ AddAppend(v)
          <6>1. chain' = Append(chain, Fresh(blk[v])) /\ Fresh(blk[v]) \in Entry
            BY <1>0, <5>1, AppendedBlock, FreshIsEntry DEF AddAppend, Ingest
          <6> QED BY <1>0, <4>2, <6>1
        <5> QED BY <3>1, <5>1
      <4> QED BY <1>0, <2>1, <3>1, <4>3 DEF Saving
    <3>3. CASE pc[u] \notin {"clear", "put"} BY <2>1, <3>3
    <3> QED BY <3>2, <3>3
  <2> QED BY <2>2, <2>3
<1>2. Ok(v)'
  <2>1. CASE SaveBegin(v)
    <3>1. CASE chain = <<>>
      <4>1. pc'[v] = AfterSave(v) BY <1>0, <2>1, <3>1 DEF SaveBegin, Goto
      <4> QED BY <4>1 DEF AfterSave
    <3>2. CASE chain # <<>>
      <4>1. /\ save' = [tip |-> Len(chain) - 1, from |-> SaveStart(args[v].force),
                        hash |-> TipHash(chain)]
            /\ persisted' = (IF args[v].force THEN -1 ELSE persisted)
            /\ pc'[v] = (IF persisted' < 0 THEN "clear" ELSE "put")
            /\ chain' = chain /\ kvChain' = kvChain
        BY <1>0, <2>1, <3>2 DEF SaveBegin, Goto, disk
      <4>2. save'.tip = Len(chain) - 1 /\ save'.hash = TipHash(chain) BY <4>1
      <4>3. save'.tip >= 0 /\ save'.tip + 1 = Len(chain) BY <1>0, <3>2, <4>2
      <4>4. TipHash(chain) = chain[Len(chain)].blk
        BY <3>2 DEF BranchInv, Path, TipHash
      <4>5. pc'[v] = "put" => persisted' <= save'.tip /\ persisted' # -1
        <5>1. CASE ~args[v].force /\ persisted # -1
          <6>1. persisted < Len(chain) BY <2>1, <3>2, <5>1, BeginKnowsKeys
          <6> QED BY <1>0, <4>1, <4>2, <5>1, <6>1
        <5>2. CASE args[v].force \/ persisted = -1
          BY <4>1, <5>2
        <5> QED BY <5>1, <5>2
      <4> QED BY <4>1, <4>2, <4>3, <4>4, <4>5
    <3> QED BY <3>1, <3>2
  <2>2. CASE SaveClear(v)
    <3>1. /\ pc[v] = "clear" /\ save' = save /\ chain' = chain /\ persisted' = -1
          /\ DOMAIN kvChain' = {}
      BY <2>2 DEF SaveClear, locals
    <3>2. save.tip >= 0 /\ save.hash = chain[save.tip + 1].blk BY <1>0, <3>1 DEF Saving
    <3> QED BY <1>0, <3>1, <3>2
  <2>3. CASE SavePut(v)
    <3>1. pc'[v] = "saved" BY <1>0, <2>3 DEF SavePut, Goto
    <3> QED BY <3>1
  <2>4. CASE ~(SaveBegin(v) \/ SaveClear(v) \/ SavePut(v))
    <3>1. pc'[v] \notin {"clear", "put"} BY <1>0, <2>4, OutsideSave
    <3> QED BY <3>1
  <2> QED BY <2>1, <2>2, <2>3, <2>4
<1> QED BY <1>1, <1>2 DEF Saving

\* Nor does its batch put anything below a key that is there.
LEMMA PutKnowsKeys ==
  ASSUME BranchInv, Miners = {}, NEW v \in Thread, SavePut(v)
  PROVE  /\ Following /\ save.tip \in Nat /\ save.tip < Len(chain)
         /\ persisted <= save.tip /\ save.hash = chain[save.tip + 1].blk
         /\ \A h \in DOMAIN kvChain : h <= save.tip /\ persisted # -1 /\ h <= persisted
         /\ DOMAIN kvChain' = DOMAIN kvChain \cup SaveHeights
         /\ \A h \in DOMAIN kvChain' :
              kvChain'[h] = IF h \in SaveHeights THEN chain[h + 1].blk ELSE kvChain[h]
<1>0. /\ TypeOK /\ Locked /\ TypeInv /\ Saving
      /\ save.tip \in Nat \cup {-1} /\ persisted \in Nat \cup {-1} /\ DOMAIN kvChain \subseteq Nat
  BY DEF BranchInv, TypeInv, Typed, TypeOK, MemoryType, LocalsType, DiskType, IsStore
<1>1. pc[v] = "put" BY DEF SavePut
<1>2. ~Frozen
  <2>1. SaveStep(v) /\ ~SaveClear(v) /\ ~SaveBegin(v)
    BY <1>1 DEF SaveStep, SaveClear, SaveBegin
  <2> QED BY <1>0, <2>1, FrozenSave
<1>3. ~Renewing
  <2>1. Free(lock, v) BY <1>0, <1>1 DEF Locked, Critical, Free
  <2> QED BY <1>0, <1>1, <2>1, NoRenewal
<1>4. Following BY <1>2 DEF BranchInv
<1>5. /\ save.tip \in Nat /\ save.tip < Len(chain) /\ save.hash = chain[save.tip + 1].blk
      /\ persisted <= save.tip /\ (persisted = -1 => DOMAIN kvChain = {})
  BY <1>0, <1>1 DEF Saving, Locked
<1>6. ASSUME NEW h \in DOMAIN kvChain PROVE h <= save.tip /\ persisted # -1 /\ h <= persisted
  <2>1. persisted # -1 /\ h <= persisted BY <1>3, <1>4, <1>5 DEF Following, Keys
  <2>2. h \in Nat /\ persisted \in Nat BY <1>0, <2>1
  <2> QED BY <1>5, <2>1, <2>2
<1>7. {h \in DOMAIN kvChain : save.tip < persisted => h <= save.tip} = DOMAIN kvChain
  BY <1>6
<1>8. kvChain' = [h \in DOMAIN kvChain \cup SaveHeights |->
                    IF h \in SaveHeights THEN chain[h + 1].blk ELSE kvChain[h]]
  BY <1>7 DEF SavePut
<1> QED BY <1>4, <1>5, <1>6, <1>8

\* The store keeps to one path, whatever save writes to it.
LEMMA PathStoreKept ==
  ASSUME TreeHeights, BranchInv, Miners = {}, NEW v \in Thread, Acts(v)
  PROVE  PathStore'
<1>0. /\ TypeOK /\ TypeInv /\ Locked /\ Path(chain) /\ PathStore /\ chain \in Seq(Entry)
      /\ Len(chain) \in Nat /\ save.from \in Nat \cup {NoHeight}
      /\ kvChain \in [DOMAIN kvChain -> Block] /\ DOMAIN kvChain \subseteq Nat
  BY DEF BranchInv, TypeInv, Typed, TypeOK, MemoryType, LocalsType, DiskType, IsStore
<1>1. CASE UNCHANGED <<kvChain, kvTip>> BY <1>0, <1>1 DEF PathStore
<1>2. CASE SaveBegin(v) BY <1>1, <1>2 DEF SaveBegin, disk
<1>3. CASE SaveClear(v)
  <2>1. DOMAIN kvChain' = {} BY <1>3 DEF SaveClear
  <2> QED BY <2>1 DEF PathStore
<1>4. CASE SavePut(v)
  <2>1. /\ Following /\ save.tip \in Nat /\ save.tip < Len(chain)
        /\ save.hash = chain[save.tip + 1].blk
        /\ \A h \in DOMAIN kvChain : h <= save.tip
        /\ DOMAIN kvChain' = DOMAIN kvChain \cup SaveHeights
        /\ \A h \in DOMAIN kvChain' :
             kvChain'[h] = IF h \in SaveHeights THEN chain[h + 1].blk ELSE kvChain[h]
    BY <1>4, PutKnowsKeys
  <2>2. SaveHeights \subseteq Nat /\ \A h \in SaveHeights : h <= save.tip
    BY <1>0, <2>1 DEF SaveHeights
  <2>3. chain' = chain BY <1>4 DEF SavePut, memory
  <2>4. Stale' = {} BY <1>0, <1>4, <2>1, SavePutClean DEF Following
  <2>5. ASSUME NEW h \in DOMAIN kvChain'
        PROVE  h \in Nat /\ h + 1 \in 1..Len(chain) /\ kvChain'[h] = chain[h + 1].blk
               /\ h <= save.tip
    <3>1. h < Len(chain) /\ kvChain'[h] = chain[h + 1].blk BY <2>3, <2>4 DEF Stale
    <3> QED BY <1>0, <2>1, <2>2, <3>1
  <2>6. \A h \in DOMAIN kvChain' : h <= Height[kvChain'[h]]
    <3> SUFFICES ASSUME NEW h \in DOMAIN kvChain' PROVE h <= Height[kvChain'[h]]
      OBVIOUS
    <3>1. h + 1 - 1 <= Height[chain[h + 1].blk] BY <1>0, <2>5, PathHeights
    <3> QED BY <2>5, <3>1
  <2>7. \A h, k \in DOMAIN kvChain' : h < k => Below(kvChain'[h], kvChain'[k])
    <3> SUFFICES ASSUME NEW h \in DOMAIN kvChain', NEW k \in DOMAIN kvChain', h < k
                 PROVE  Below(kvChain'[h], kvChain'[k])
      OBVIOUS
    <3>1. h + 1 < k + 1 BY <2>5
    <3>2. Below(chain[h + 1].blk, chain[k + 1].blk) BY <1>0, <2>5, <3>1, PathPairs
    <3> QED BY <2>5, <3>2
  <2>8. ASSUME NEW h \in DOMAIN kvChain', \A k \in DOMAIN kvChain' : k <= h
        PROVE  kvTip' = kvChain'[h]
    <3>1. CASE SaveHeights = {}
      <4>1. kvTip' = kvTip /\ DOMAIN kvChain' = DOMAIN kvChain BY <1>4, <2>1, <3>1 DEF SavePut
      <4>2. kvChain'[h] = kvChain[h] BY <2>1, <3>1
      <4> QED BY <1>0, <2>8, <4>1, <4>2 DEF PathStore
    <3>2. CASE SaveHeights # {}
      <4>1. kvTip' = save.hash BY <1>4, <3>2 DEF SavePut
      <4>2. save.tip \in SaveHeights BY <1>0, <2>1, <3>2 DEF SaveHeights
      <4>3. save.tip \in DOMAIN kvChain' BY <2>1, <4>2
      <4>4. h = save.tip BY <2>1, <2>5, <2>8, <4>3
      <4> QED BY <2>1, <2>5, <4>1, <4>4
    <3> QED BY <3>1, <3>2
  <2> QED BY <2>6, <2>7, <2>8 DEF PathStore
<1>5. CASE ~(SaveBegin(v) \/ SaveClear(v) \/ SavePut(v))
  BY <1>0, <1>1, <1>5, OutsideSave
<1> QED BY <1>2, <1>3, <1>4, <1>5

\* No key rises above the persisted height of a node that follows its chain.
LEMMA KeysKept ==
  ASSUME BranchInv, Following, TypeOK', Miners = {}, NEW v \in Thread, Acts(v), OthersStay(v)
  PROVE  Keys'
<1>0. /\ TypeOK /\ TypeInv /\ Locked /\ Keys /\ chain \in Seq(Entry)
      /\ Len(chain) \in Nat /\ Net \subseteq Thread /\ persisted \in Nat \cup {-1}
      /\ save.from \in Nat \cup {NoHeight}
      /\ pc \in [Thread -> Step] /\ args \in [Thread -> CallType]
  BY DEF BranchInv, TypeInv, Typed, TypeOK, MemoryType, LocalsType, Following, Thread, Ingest
<1>1. CASE persisted' = -1 BY <1>1 DEF Keys
<1>2. CASE SaveBegin(v)
  <2>1. CASE chain = <<>> BY <1>1, <1>2, <2>1 DEF SaveBegin
  <2>2. CASE chain # <<>>
    <3>1. persisted' = (IF args[v].force THEN -1 ELSE persisted)
          /\ chain' = chain /\ kvChain' = kvChain
      BY <1>2, <2>2 DEF SaveBegin, disk
    <3>2. CASE ~args[v].force /\ persisted # -1
      <4>1. persisted < Len(chain) /\ \A h \in DOMAIN kvChain : h <= persisted
        BY <1>2, <2>2, <3>2, BeginKnowsKeys
      <4> QED BY <3>1, <3>2, <4>1 DEF Keys
    <3>3. CASE args[v].force \/ persisted = -1 BY <1>1, <3>1, <3>3
    <3> QED BY <3>2, <3>3
  <2> QED BY <2>1, <2>2
<1>3. CASE SaveClear(v) BY <1>1, <1>3 DEF SaveClear
<1>4. CASE SavePut(v)
  <2>1. /\ save.tip \in Nat /\ save.tip < Len(chain) /\ persisted <= save.tip
        /\ \A h \in DOMAIN kvChain : h <= save.tip /\ persisted # -1 /\ h <= persisted
        /\ DOMAIN kvChain' = DOMAIN kvChain \cup SaveHeights
    BY <1>4, PutKnowsKeys
  <2>2. chain' = chain BY <1>4 DEF SavePut
  <2>3. CASE SaveHeights # {}
    <3>1. persisted' = save.tip BY <1>4, <2>3 DEF SavePut
    <3>2. \A h \in SaveHeights : h <= save.tip BY <1>0, <2>1 DEF SaveHeights
    <3> QED BY <2>1, <2>2, <3>1, <3>2 DEF Keys
  <2>4. CASE SaveHeights = {}
    <3>1. ~(save.tip < persisted) BY <1>0, <2>1
    <3>2. persisted' = persisted BY <1>4, <2>4, <3>1 DEF SavePut
    <3>3. persisted # -1 => persisted < Len(chain) BY <1>0, <2>1
    <3> QED BY <1>1, <2>1, <2>2, <2>4, <3>2, <3>3 DEF Keys
  <2> QED BY <2>3, <2>4
<1>5. CASE ~(SaveBegin(v) \/ SaveClear(v) \/ SavePut(v))
  <2>1. /\ UNCHANGED <<persisted, kvChain>> /\ pc[v] # "save"
        /\ \/ Len(chain') >= Len(chain)
           \/ v \in Net /\ ReplaceCommit(v)
    BY <1>0, <1>5, OutsideSave
  <2>2. ASSUME v \in Net, ReplaceCommit(v) PROVE Renewing'
    <3>1. /\ args'[v] = Call(TRUE, FALSE, TRUE, "announce") /\ pc'[v] = "save"
      BY <1>0, <2>2 DEF ReplaceCommit, Goto
    <3>2. args'[v].held /\ args'[v].force BY <3>1 DEF Call
    <3> QED BY <2>2, <3>1, <3>2 DEF Renewing
  <2>3. CASE Len(chain') >= Len(chain)
    <3>1. Renewing => Renewing'
      <4> SUFFICES ASSUME NEW w \in Net, args[w].held /\ args[w].force /\ pc[w] = "save"
                   PROVE  Renewing'
        BY DEF Renewing
      <4>1. w \in Thread /\ w # v BY <1>0, <2>1
      <4>2. pc'[w] = pc[w] /\ args'[w] = args[w] BY <4>1 DEF OthersStay
      <4> QED BY <4>2 DEF Renewing
    <3>2. persisted < Len(chain) => persisted' < Len(chain')
      <4>2. Len(chain') \in Nat BY DEF TypeOK, MemoryType
      <4> QED BY <1>0, <2>1, <2>3, <4>2
    <3> QED BY <1>0, <2>1, <3>1, <3>2 DEF Keys
  <2> QED BY <2>1, <2>2, <2>3 DEF Keys
<1> QED BY <1>2, <1>3, <1>4, <1>5

\* A start that met a hole takes no block as an extension and swaps no tip.
LEMMA FrozenStays ==
  ASSUME TreeHeights, BranchInv, Frozen
  PROVE  /\ \A t \in Net : pc[t] = "check" => ~Attaches(blk[t])
         /\ \A b \in Block : ~BetterTip(b)
<1>0. /\ chain \in Seq(Entry) /\ Len(chain) \in Nat /\ chain # <<>> /\ Path(chain)
      /\ TipHeight = Height[chain[Len(chain)].blk] /\ TipHeight # Len(chain) - 1
  BY DEF BranchInv, TypeInv, Typed, TypeOK, MemoryType, Frozen, TipHeight, Last
<1>1. ASSUME NEW t \in Net, pc[t] = "check", Attaches(blk[t]) PROVE FALSE
  <2>1. Height[blk[t]] = TipHeight + 1 /\ Parent[blk[t]] = TipHash(chain)
    BY <1>0, <1>1 DEF Attaches
  <2>2. Extends(blk[t], chain) BY <1>1, <2>1 DEF BranchInv, ReadyInv, Ready, Forks
  <2>3. chain[Len(chain)].blk \in Block BY <1>0, EntryFields
  <2>4. TipHeight \in Nat BY <1>0, <2>3, HeaderAssumption
  <2> QED BY <1>0, <2>1, <2>2, <2>4 DEF Extends
<1>2. ASSUME NEW b \in Block, BetterTip(b) PROVE FALSE
  <2> DEFINE n == Len(chain)
             tip == chain[n].blk
             last == chain[n - 1]
  <2>1. /\ n >= 2 /\ Height[b] = Height[last.blk] + 1 /\ Parent[b] = last.hash
        /\ CompleteChainValid(SwappedFor(b)) /\ Competes(b)
    BY <1>2 DEF BetterTip, Competes
  <2>2. /\ SwappedFor(b) \in Seq(Entry) /\ Len(SwappedFor(b)) = n
        /\ SwappedFor(b)[n].blk = b
    BY <1>0, <2>1, SwappedType
  <2>3. Height[b] = n - 1
    <3>1. n \in 1..Len(SwappedFor(b)) BY <1>0, <2>1, <2>2
    <3> HIDE DEF n
    <3> QED BY <2>1, <2>2, <3>1, HeightsOfValid
  <2>4. Below(last.blk, tip) /\ last.hash = Parent[tip]
    <3>1. n - 1 \in 1..(Len(chain) - 1) /\ n - 1 + 1 = n BY <1>0, <2>1
    <3> HIDE DEF n
    <3> QED BY <1>0, <3>1 DEF Path
  <2>5. tip \in Block BY <1>0, EntryFields
  <2>6. Parent[tip] \in Block BY <2>4 DEF Below
  <2>7. Height[tip] = Height[Parent[tip]] + 1 /\ Height[b] = Height[Parent[b]] + 1
    <3> HIDE DEF tip, last
    <3> QED BY <1>2, <2>1, <2>4, <2>5, <2>6 DEF TreeHeights
  <2>8. Height[tip] = n - 1
    <3> HIDE DEF tip, last, n
    <3> QED BY <2>1, <2>3, <2>4, <2>7
  <2> QED BY <1>0, <2>8
<1> QED BY <1>1, <1>2

\* It is left by a replacement, by the clearing of the store, or by a start.
LEMMA FrozenStep ==
  ASSUME OneReader, TreeHeights, BranchInv, Frozen, NEW v \in Thread, Acts(v), OthersStay(v)
  PROVE  Frozen' \/ Following'
<1>0. /\ TypeOK /\ TypeInv /\ Locked /\ Miners = {} /\ Ingest = Net
      /\ chain \in Seq(Entry) /\ Len(chain) \in Nat /\ Net \subseteq Thread
      /\ Worker \in Thread /\ Main \in Thread /\ Worker # Main /\ {Worker, Main} \cap Net = {}
      /\ pc \in [Thread -> Step] /\ args \in [Thread -> CallType]
      /\ blk \in [Thread -> Block \cup {NoBlock}]
  BY ThreadAssumption DEF BranchInv, TypeInv, Typed, TypeOK, MemoryType, LocalsType, GossipType,
     OneReader, Thread, Ingest
<1> USE DEF memory, locals, gossip, locks, disk, life
<1>1. PICK t : Net = {t} BY DEF OneReader
<1>2. pc[t] \notin AfterChange \cup {"append"} BY <1>1 DEF Frozen
<1>3. ASSUME v = t, UNCHANGED <<chain, pending>>, pc'[t] \notin AfterChange \cup {"append"}
      PROVE  Frozen'
  <2>1. pc'[Worker] = pc[Worker] /\ pc'[Main] = pc[Main] /\ args'[Main] = args[Main]
    BY <1>0, <1>1, <1>3 DEF OthersStay
  <2> QED BY <1>1, <1>3, <2>1 DEF Frozen, TipHeight
<1>4. ASSUME v = Main, UNCHANGED <<chain, pending>>,
             pc'[Main] \in {"idle", "join", "save", "clear", "exit"},
             pc'[Main] = "save" => args'[Main].force
      PROVE  Frozen'
  <2>1. /\ pc'[Worker] = pc[Worker] /\ pc'[t] = pc[t]
    BY <1>0, <1>1, <1>4 DEF OthersStay
  <2> QED BY <1>1, <1>4, <2>1 DEF Frozen, TipHeight
<1>5. CASE v \in Net /\ Input(v)
  <2>1. ASSUME NEW b \in Block, ReceiveBlock(v, b) PROVE Frozen'
    <3>1. v = t /\ UNCHANGED <<chain, pending>> /\ pc'[t] = "classify"
      BY <1>0, <1>1, <1>5, <2>1 DEF ReceiveBlock, Goto
    <3> QED BY <1>3, <3>1 DEF AfterChange, SaveSteps
  <2>2. ASSUME NEW s \in Branches, ReplaceBuild(v, s) PROVE Frozen'
    <3>1. v = t /\ UNCHANGED <<chain, pending>> /\ pc'[t] = "replace"
      BY <1>0, <1>1, <1>5, <2>2 DEF ReplaceBuild, Goto
    <3> QED BY <1>3, <3>1 DEF AfterChange, SaveSteps
  <2> QED BY <1>5, <2>1, <2>2 DEF Input
<1>6. CASE v \in Net /\ IngestStep(v)
  <2>1. v = t BY <1>1, <1>6
  <2>2. ~Attaches(blk[t]) \/ pc[t] # "check" BY <1>1, FrozenStays
  <2>3. /\ SwapCheck(t) => ~BetterTip(blk[t])
        /\ ~SwapCommit(t)
    <3>1. pc[t] \in {"swap", "commit"} => blk[t] \in Block
      BY <1>0, <1>1 DEF TypeInv, Typed, InHand, Planning
    <3>2. pc[t] = "commit" => BetterTip(blk[t]) BY <1>1 DEF BranchInv, Proposed
    <3> QED BY <3>1, <3>2, FrozenStays DEF SwapCheck, SwapCommit
  <2>a. CASE ReplaceCommit(t)
    <3>1. StoreInv' BY <1>0, <1>1, <2>a, ReplaceStore DEF TypeInv
    <3>2. args'[t] = Call(TRUE, FALSE, TRUE, "announce") /\ pc'[t] = "save"
      BY <1>0, <1>1, <2>a DEF ReplaceCommit, Goto
    <3>3. args'[t].held /\ args'[t].force BY <3>2 DEF Call
    <3>4. Renewing' BY <1>1, <3>2, <3>3 DEF Renewing
    <3> QED BY <3>1, <3>4 DEF Following, Keys
  <2>4. ~(AddAppend(t) \/ AddMark(t) \/ AddApply(t) \/ AddSchedule(t) \/ Accept(t) \/ Announce(t))
    BY <1>2 DEF AfterChange, AddAppend, AddMark, AddApply, AddSchedule, Accept, Announce
  <2>5. \/ Classify(t) \/ ValidateContext(t) \/ ValidateInputs(t) \/ ValidateRecheck(t)
        \/ AddCheck(t) \/ ForkPrecheck(t) \/ SwapCheck(t) \/ ReplaceCheck(t)
        \/ ReplaceCommit(t)
    BY <1>6, <2>1, <2>3, <2>4 DEF IngestStep
  <2>b. CASE ~ReplaceCommit(t)
    <3>1. UNCHANGED <<chain, pending>>
      BY <2>3, <2>5, <2>b DEF Classify, ValidateContext, ValidateInputs, ValidateRecheck,
         AddCheck, ForkPrecheck, SwapCheck, ReplaceCheck
    <3>2. \E s \in {"idle", "check", "context", "inputs", "recheck", "resolve", "swap", "adopt"} :
            Goto(t, s)
      BY <2>2, <2>3, <2>5, <2>b DEF Classify, ValidateContext, ValidateInputs, ValidateRecheck,
         AddCheck, ForkPrecheck, SwapCheck, ReplaceCheck, Fail, Reject
    <3>3. pc'[t] \notin AfterChange \cup {"append"}
      BY <1>0, <1>1, <3>2 DEF Goto, AfterChange, SaveSteps
    <3> QED BY <1>3, <2>1, <3>1, <3>3
  <2> QED BY <2>a, <2>b
<1>7. CASE SaveStep(v)
  <2>1. v = Main /\ (SaveClear(v) \/ (SaveBegin(v) /\ args[v].force))
    BY <1>0, <1>7, FrozenSave
  <2>2. CASE SaveBegin(v) /\ args[v].force
    <3>1. chain # <<>> BY DEF Frozen
    <3>2. /\ UNCHANGED <<chain, pending>> /\ persisted' = -1
          /\ Goto(v, IF persisted' < 0 THEN "clear" ELSE "put")
      BY <2>2, <3>1 DEF SaveBegin
    <3>3. pc'[Main] = "clear" BY <1>0, <2>1, <3>2 DEF Goto
    <3> QED BY <1>4, <2>1, <3>2, <3>3
  <2>3. CASE SaveClear(v)
    <3>1. Stale' = {} /\ persisted' = -1 BY <2>3 DEF SaveClear, Stale
    <3>2. \A u \in Net : pc'[u] # "save"
      <4>1. pc'[t] = pc[t] BY <1>0, <1>1, <2>1 DEF OthersStay
      <4> QED BY <1>1, <1>2, <4>1 DEF AfterChange, SaveSteps
    <3>3. StoreInv' BY <3>1, <3>2, StoreClean
    <3> QED BY <3>1, <3>3 DEF Following, Keys
  <2> QED BY <2>1, <2>2, <2>3
<1>8. CASE v = Worker /\ PersistTake
  BY <1>8 DEF PersistTake, Frozen
<1>9. CASE v = Main /\ Stop
  <2>1. UNCHANGED <<chain, pending>> /\ pc'[Main] = "join" BY <1>0, <1>9 DEF Stop, Goto
  <2> QED BY <1>4, <1>9, <2>1
<1>10. CASE v = Main /\ Join
  <2>1. chain # <<>> BY DEF Frozen
  <2>2. /\ UNCHANGED <<chain, pending>> /\ pc'[Main] = "save"
        /\ args'[Main] = Call(TRUE, TRUE, FALSE, "exit")
    BY <1>0, <1>10, <2>1 DEF Join, Goto
  <2>3. args'[Main].force BY <2>2 DEF Call
  <2> QED BY <1>4, <1>10, <2>2, <2>3
<1> QED BY <1>5, <1>6, <1>7, <1>8, <1>9, <1>10 DEF Acts

\* What load_chain reads from a store that keeps to one path is a path; where
\* its tip has the height of its place, the store has no gap.
LEMMA LoadedPath ==
  ASSUME TreeHeights, TypeInv, PathStore, Loadable(StoredChain)
  PROVE  /\ Path(StoredChain)
         /\ Height[Last(StoredChain).blk] = Len(StoredChain) - 1 =>
              /\ DOMAIN kvChain \subseteq 0..(Len(StoredChain) - 1)
              /\ \A h \in DOMAIN kvChain : kvChain[h] = StoredChain[h + 1].blk
<1> DEFINE S == DOMAIN kvChain
           c == StoredChain
           n == Cardinality(S)
           key(i) == KeyAt(S, i)
<1>0. DiskType BY DEF TypeInv, Typed, TypeOK
<1>1. S \in SUBSET Nat /\ IsFiniteSet(S) /\ kvChain \in [S -> Block]
  BY <1>0 DEF DiskType, IsStore
<1>2. c \in Seq(Entry) /\ Len(c) = n /\ \A i \in 1..n : c[i] = LoadedEntry(i)
  BY <1>0, StoredEntries
<1>3. c # <<>> /\ Height[c[1].blk] = 0 /\ c[1].hash = Genesis BY DEF Loadable
<1>4. ASSUME NEW i \in 1..n
      PROVE  /\ key(i) \in S /\ c[i].blk = kvChain[key(i)]
             /\ c[i].hash = IF i < n THEN Parent[kvChain[key(i + 1)]] ELSE kvTip
  <2>1. key(i) \in S BY <1>1, KeyIsNth
  <2>2. c[i] = LoadedEntry(i) BY <1>2
  <2> QED BY <2>1, <2>2 DEF LoadedEntry
<1>5. ASSUME NEW i \in 1..n, NEW j \in 1..n, i < j PROVE key(i) < key(j)
  BY <1>1, <1>5, KeyOrder
<1>6. n \in Nat /\ n >= 1 /\ n \in 1..n
  <2>1. Len(c) \in Nat /\ Len(c) # 0 BY <1>2, <1>3
  <2> QED BY <1>2, <2>1
<1>7. \A k \in S : k <= key(n) BY <1>1, <1>6, KeyOrder
<1> HIDE DEF S, c, n, key
<1>8. c[n].hash = c[n].blk
  <2>1. key(n) \in S /\ c[n].blk = kvChain[key(n)] /\ c[n].hash = kvTip BY <1>4, <1>6
  <2>2. kvTip = kvChain[key(n)] BY <1>7, <2>1 DEF PathStore, S
  <2> QED BY <2>1, <2>2
<1>9. ASSUME NEW i \in 1..(n - 1)
      PROVE  Below(c[i].blk, c[i + 1].blk) /\ c[i].hash = Parent[c[i + 1].blk]
  <2>1. i \in 1..n /\ i + 1 \in 1..n /\ i < n /\ i < i + 1 BY <1>6
  <2>2. key(i) \in S /\ key(i + 1) \in S /\ key(i) < key(i + 1) BY <1>4, <1>5, <2>1
  <2>3. Below(kvChain[key(i)], kvChain[key(i + 1)]) BY <2>2 DEF PathStore, S
  <2>4. /\ c[i].blk = kvChain[key(i)] /\ c[i + 1].blk = kvChain[key(i + 1)]
        /\ c[i].hash = Parent[kvChain[key(i + 1)]]
    BY <1>4, <2>1
  <2> QED BY <2>3, <2>4
<1>10. c[1].blk = Genesis
  <2>1. CASE n = 1 BY <1>3, <1>8, <2>1
  <2>2. CASE n # 1
    <3>1. 1 \in 1..(n - 1) /\ 1 + 1 = 2 BY <1>6, <2>2
    <3>2. Below(c[1].blk, c[2].blk) /\ c[1].hash = Parent[c[2].blk] BY <1>9, <3>1
    <3>3. c[1].blk \in AncestorsOf[Genesis] BY <1>3, <3>2 DEF Below
    <3> QED BY <3>3, GenesisAlone
  <2> QED BY <2>1, <2>2
<1>11. Path(c) BY <1>2, <1>8, <1>9, <1>10 DEF Path
<1>12. ASSUME Height[Last(c).blk] = Len(c) - 1
       PROVE  S \subseteq 0..(Len(c) - 1) /\ \A h \in S : kvChain[h] = c[h + 1].blk
  <2>1. key(n) \in S /\ c[n].blk = kvChain[key(n)] BY <1>4, <1>6
  <2>2. key(n) <= n - 1
    <3>1. key(n) <= Height[kvChain[key(n)]] BY <2>1 DEF PathStore, S
    <3> QED BY <1>2, <1>12, <2>1, <3>1 DEF Last
  <2>3. ASSUME NEW k \in S PROVE k \in 0..(n - 1)
    <3>1. k \in Nat /\ key(n) \in Nat BY <1>1, <2>1
    <3> QED BY <1>6, <1>7, <2>2, <3>1
  <2>4. \A i \in 1..n : key(i) = i - 1
    <3>1. \A k \in S : k < Cardinality(S) BY <1>6, <2>3 DEF n
    <3> QED BY <1>1, <3>1, KeysDense DEF key, n
  <2>5. ASSUME NEW h \in S PROVE kvChain[h] = c[h + 1].blk
    <3>1. PICK i \in 1..n : i = h + 1 BY <1>6, <2>3
    <3>2. i - 1 = h BY <1>6, <2>3, <3>1
    <3>3. key(i) = h BY <2>4, <3>2
    <3>4. c[i].blk = kvChain[h] BY <1>4, <3>3
    <3> QED BY <3>1, <3>4
  <2> QED BY <1>2, <2>3, <2>5
<1> QED BY <1>11, <1>12 DEF S, c

\* A start finds one path, and either a store without gaps or a hole.
LEMMA BootBranch ==
  ASSUME TreeHeights, TypeInv, PathStore, Crash \/ Restart
  PROVE  Path(chain') /\ PathStore' /\ Saving' /\ (Frozen' \/ Following')
<1>0. /\ chain' = LoadedChain /\ persisted' = Len(chain') - 1 /\ pending' = FALSE
      /\ kvChain' = (IF Resets THEN <<>> ELSE kvChain)
      /\ kvTip' = (IF Resets THEN NoBlock ELSE kvTip)
      /\ pc' = [t \in Thread |-> "idle"]
  BY DEF Crash, Restart, Boot
<1>1. /\ Net \subseteq Thread /\ Worker \in Thread /\ Main \in Thread /\ DiskType
  BY DEF Thread, Ingest, TypeInv, Typed, TypeOK
<1>2. \A t \in Thread : pc'[t] = "idle" BY <1>0
<1>3. Saving' BY <1>2 DEF Saving
<1>4. PathStore'
  <2>1. CASE Resets
    <3>1. DOMAIN kvChain' = {} BY <1>0, <2>1
    <3> QED BY <3>1 DEF PathStore
  <2>2. CASE ~Resets BY <1>0, <2>2 DEF PathStore
  <2> QED BY <2>1, <2>2
<1>5. ASSUME Stale' = {} PROVE StoreInv'
  BY <1>1, <1>2, <1>5, StoreClean
<1>6. CASE Loadable(StoredChain)
  <2> DEFINE c == StoredChain
  <2>1. chain' = c /\ kvChain' = kvChain /\ c # <<>> /\ c \in Seq(Entry)
    BY <1>0, <1>1, <1>6, StoredEntries DEF LoadedChain, Resets, Loadable
  <2>2. /\ Path(c)
        /\ Height[Last(c).blk] = Len(c) - 1 =>
             /\ DOMAIN kvChain \subseteq 0..(Len(c) - 1)
             /\ \A h \in DOMAIN kvChain : kvChain[h] = c[h + 1].blk
    BY <1>6, LoadedPath
  <2> HIDE DEF c
  <2>3. CASE Height[Last(c).blk] = Len(c) - 1
    <3>1. Stale' = {} BY <2>1, <2>2, <2>3 DEF Stale
    <3>2. persisted' < Len(chain') /\ \A h \in DOMAIN kvChain' : h <= persisted'
      BY <1>0, <2>1, <2>2, <2>3
    <3> QED BY <1>3, <1>4, <1>5, <2>1, <2>2, <3>1, <3>2 DEF Following, Keys
  <2>4. CASE Height[Last(c).blk] # Len(c) - 1
    <3>1. TipHeight' # Len(chain') - 1 /\ chain' # <<>> BY <2>1, <2>4 DEF TipHeight
    <3>2. "idle" \notin AfterChange \cup {"append"} BY DEF AfterChange, SaveSteps
    <3>3. Frozen' BY <1>0, <1>1, <1>2, <3>1, <3>2 DEF Frozen
    <3> QED BY <1>3, <1>4, <2>1, <2>2, <3>3
  <2> QED BY <2>3, <2>4
<1>7. CASE ~Loadable(StoredChain)
  <2>1. chain' = <<>> /\ persisted' = -1 BY <1>0, <1>7 DEF LoadedChain
  <2>2. DOMAIN kvChain' = {}
    <3>1. CASE Resets BY <1>0, <3>1
    <3>2. CASE ~Resets
      <4>1. StoredChain = <<>> BY <1>7, <3>2 DEF Resets
      <4>2. Cardinality(DOMAIN kvChain) = 0 BY <1>1, <4>1, StoredEntries
      <4>3. IsFiniteSet(DOMAIN kvChain) BY <1>1 DEF DiskType, IsStore
      <4> QED BY <1>0, <3>2, <4>2, <4>3, FS_EmptySet
    <3> QED BY <3>1, <3>2
  <2>3. Stale' = {} BY <2>2 DEF Stale
  <2>4. Path(chain') BY <2>1 DEF Path
  <2> QED BY <1>3, <1>4, <1>5, <2>1, <2>3, <2>4 DEF Following, Keys
<1> QED BY <1>6, <1>7

\* Nothing that the node does, and no kill, leaves the path.
LEMMA BranchStep == OneReader /\ TreeHeights /\ BranchInv /\ [Next]_vars => BranchInv'
<1> SUFFICES ASSUME OneReader, TreeHeights, BranchInv, [Next]_vars PROVE BranchInv'
  OBVIOUS
<1>0. Miners = {} /\ TypeInv /\ Locked BY DEF OneReader, BranchInv
<1>1. TypeInv' /\ Proposed' /\ Locked' /\ Chosen' /\ ReadyInv'
  <2>1. CASE UNCHANGED vars
    <3>1. Chosen' BY <2>1 DEF BranchInv, Chosen, vars, memory, gossip
    <3> QED BY <1>0, <3>1, TypesStep, ProposedStep, LockedStep, ReadyStep DEF BranchInv
  <2>2. CASE Crash \/ Restart
    <3>1. Chosen' BY <2>2 DEF Crash, Restart, Boot, Chosen, Thread, Ingest
    <3> QED BY <1>0, <3>1, TypesStep, ProposedStep, LockedStep, ReadyStep DEF BranchInv
  <2>3. CASE Next /\ ~(Crash \/ Restart)
    <3>1. Chosen' BY <1>0, <2>3, ChosenStep DEF BranchInv
    <3> QED BY <1>0, <3>1, TypesStep, ProposedStep, LockedStep, ReadyStep DEF BranchInv
  <2> QED BY <2>1, <2>2, <2>3
<1>2. CASE UNCHANGED vars
  <2>1. UNCHANGED <<chain, kvChain, kvTip, pc, args, save, persisted, dirtyFrom, pending>>
    BY <1>2 DEF vars, memory, locals, disk
  <2>2. Path(chain') /\ PathStore' /\ Saving'
    BY <2>1 DEF BranchInv, PathStore, Saving
  <2>3. Frozen => Frozen' BY <2>1 DEF Frozen, TipHeight
  <2>4. Following => Following'
    BY <2>1 DEF Following, Keys, Renewing, StoreInv, Repairs, Reorganising, SaveHeights, Stale
  <2> QED BY <1>1, <2>2, <2>3, <2>4 DEF BranchInv
<1>3. CASE Crash \/ Restart
  <2>1. Path(chain') /\ PathStore' /\ Saving' /\ (Frozen' \/ Following')
    BY <1>0, <1>3, BootBranch DEF BranchInv
  <2> QED BY <1>1, <2>1 DEF BranchInv
<1>4. CASE Next /\ ~(Crash \/ Restart)
  <2>1. PICK v \in Thread : Acts(v) /\ OthersStay(v) BY <1>0, <1>4, Actor
  <2>2. Path(chain') BY <1>4, PathKept
  <2>3. PathStore' BY <1>0, <2>1, PathStoreKept
  <2>4. Saving' BY <1>0, <2>1, SavingKept
  <2>5. CASE Frozen
    <3>1. Frozen' \/ Following' BY <2>1, <2>5, FrozenStep
    <3> QED BY <1>1, <2>2, <2>3, <2>4, <3>1 DEF BranchInv
  <2>6. CASE Following
    <3>1. StoreInv' BY <1>0, <1>4, <2>6, StoreStep DEF Following, BranchInv
    <3>2. Keys'
      <4>1. TypeOK' BY <1>1 DEF TypeInv, Typed
      <4> QED BY <1>0, <2>1, <2>6, <4>1, KeysKept
    <3> QED BY <1>1, <2>2, <2>3, <2>4, <3>1, <3>2 DEF BranchInv, Following
  <2> QED BY <2>5, <2>6 DEF BranchInv
<1> QED BY <1>2, <1>3, <1>4

\* The first start reads a sound chain.
LEMMA BranchInit == OneReader /\ TreeHeights /\ StartsSound /\ Init => BranchInv
<1> SUFFICES ASSUME OneReader, TreeHeights, StartsSound, Init PROVE BranchInv
  OBVIOUS
<1>1. TypeInv /\ Locked /\ StoreInv BY TypesInit, LockedInit, StoreInit
<1>2. /\ chain \in Seq(Entry) /\ chain = FreshSeq(Stored) /\ Stored \in Seq(Block)
      /\ kvChain = [h \in 0..(Len(Stored) - 1) |-> Stored[h + 1]] /\ kvTip = TipHash(chain)
      /\ persisted = Len(Stored) - 1 /\ \A t \in Thread : pc[t] = "idle"
  BY <1>1, BranchAssumption DEF TypeInv, Typed, TypeOK, MemoryType, Init
<1>3. Sound(chain) BY <1>2, AcceptableIsSound DEF StartsSound
<1>4. /\ Len(chain) = Len(Stored)
      /\ \A i \in 1..Len(Stored) :
           chain[i] = Fresh(Stored[i]) /\ Fresh(Stored[i]).blk = Stored[i]
  <2>1. DOMAIN FreshSeq(Stored) = 1..Len(Stored) BY <1>2 DEF FreshSeq
  <2>2. Len(chain) = Len(Stored) BY <1>2, <2>1
  <2>3. \A i \in 1..Len(Stored) : chain[i] = Fresh(Stored[i]) /\ Fresh(Stored[i]).blk = Stored[i]
    BY <1>2, FreshIsEntry DEF FreshSeq
  <2> QED BY <2>2, <2>3
<1>5. AllFresh(chain) BY <1>4 DEF AllFresh
<1>6. Path(chain) BY <1>2, <1>3, <1>5, PathOfSound
<1>7. Len(Stored) \in Nat BY <1>2
<1>8. ASSUME NEW h \in DOMAIN kvChain
      PROVE  h \in Nat /\ h + 1 \in 1..Len(chain) /\ kvChain[h] = chain[h + 1].blk
             /\ h < Len(Stored)
  <2>1. h \in 0..(Len(Stored) - 1) /\ kvChain[h] = Stored[h + 1] BY <1>2
  <2>2. h + 1 \in 1..Len(Stored) BY <1>7, <2>1
  <2>3. chain[h + 1].blk = Stored[h + 1] BY <1>4, <2>2
  <2> QED BY <1>4, <1>7, <2>1, <2>2, <2>3
<1>9. PathStore
  <2>1. ASSUME NEW h \in DOMAIN kvChain PROVE h <= Height[kvChain[h]]
    <3>1. Height[chain[h + 1].blk] = h + 1 - 1 BY <1>2, <1>3, <1>8, HeightsOfSound
    <3> QED BY <1>8, <3>1
  <2>2. ASSUME NEW h \in DOMAIN kvChain, NEW k \in DOMAIN kvChain, h < k
        PROVE  Below(kvChain[h], kvChain[k])
    <3>1. h + 1 < k + 1 BY <1>8, <2>2
    <3>2. Below(chain[h + 1].blk, chain[k + 1].blk) BY <1>2, <1>6, <1>8, <3>1, PathPairs
    <3> QED BY <1>8, <3>2
  <2>3. ASSUME NEW h \in DOMAIN kvChain, \A k \in DOMAIN kvChain : k <= h
        PROVE  kvTip = kvChain[h]
    <3>1. Len(Stored) - 1 \in DOMAIN kvChain
      <4>1. h \in Nat /\ h < Len(Stored) BY <1>8
      <4>2. Len(Stored) - 1 \in 0..(Len(Stored) - 1) BY <1>7, <4>1
      <4> QED BY <1>2, <4>2
    <3>2. h + 1 = Len(chain)
      <4>1. Len(Stored) - 1 <= h /\ h \in Nat /\ h < Len(Stored) BY <1>8, <2>3, <3>1
      <4> QED BY <1>4, <1>7, <4>1
    <3>3. chain # <<>> /\ kvTip = chain[Len(chain)].hash
      <4>1. h + 1 \in 1..Len(chain) BY <1>8
      <4>2. chain # <<>> BY <4>1
      <4> QED BY <1>2, <4>2 DEF TipHash
    <3>4. chain[Len(chain)].hash = chain[Len(chain)].blk BY <1>6, <3>3 DEF Path
    <3> QED BY <1>8, <3>2, <3>3, <3>4
  <2> QED BY <2>1, <2>2, <2>3 DEF PathStore
<1>10. Saving BY <1>2 DEF Saving
<1>11. Keys
  <2>1. persisted < Len(chain) BY <1>2, <1>4, <1>7
  <2>2. ASSUME NEW h \in DOMAIN kvChain PROVE h <= persisted
    <3>1. h \in Nat /\ h < Len(Stored) BY <1>8
    <3> QED BY <1>2, <1>7, <3>1
  <2> QED BY <2>1, <2>2 DEF Keys
<1>12. ReadyInv
  BY <1>2 DEF ReadyInv, Ready, Thread, Ingest
<1>13. Proposed /\ Chosen
  BY <1>2 DEF Proposed, Planning, Chosen, Thread, Ingest
<1> QED BY <1>1, <1>6, <1>9, <1>10, <1>11, <1>12, <1>13 DEF BranchInv, Following

\* The live chain never joins two branches: its blocks lie on one path from
\* the genesis, although a save may die between its two transactions, a start
\* may find holes and takes what it finds, and saves, appends, swaps and
\* replacements go on from there.  A chain with a hole is kept as it is until
\* a synchronised branch replaces it, a save rewrites the store whole, or the
\* next start reads it again.
THEOREM BranchesNeverJoined ==
  OneReader /\ StartsSound /\ TreeHeights => (Spec => []OneBranch)
<1> SUFFICES ASSUME OneReader, StartsSound, TreeHeights PROVE Spec => []OneBranch
  OBVIOUS
<1>1. Init => BranchInv BY BranchInit
<1>2. BranchInv /\ [Next]_vars => BranchInv' BY BranchStep
<1>3. BranchInv => OneBranch
  <2> SUFFICES ASSUME BranchInv PROVE OneBranch
    OBVIOUS
  <2>1. chain \in Seq(Entry) /\ Path(chain)
    BY DEF BranchInv, TypeInv, Typed, TypeOK, MemoryType
  <2>2. ASSUME NEW i \in DOMAIN chain, NEW j \in DOMAIN chain, i < j
        PROVE  chain[i].blk \in AncestorsOf[chain[j].blk]
    <3>1. i \in 1..Len(chain) /\ j \in 1..Len(chain) BY <2>1
    <3>2. Below(chain[i].blk, chain[j].blk) BY <2>1, <2>2, <3>1, PathPairs
    <3>3. chain[j].blk \in Block BY <2>1, <3>1, EntryFields
    <3> QED BY <3>2, <3>3, BelowFacts
  <2>3. chain # <<>> => chain[1].blk = Genesis BY <2>1 DEF Path
  <2> QED BY <2>2, <2>3 DEF OneBranch
<1> QED BY <1>1, <1>2, <1>3, PTL DEF Spec

=============================================================================
