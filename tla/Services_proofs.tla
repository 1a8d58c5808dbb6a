--------------------------- MODULE Services_proofs ---------------------------
(***************************************************************************)
(* The services that stand each on their own, for every value of the       *)
(* constants: the miner's abort event, the start of a node, the payout     *)
(* guard of a storage node, the sessions of calls, the channels that the   *)
(* threads of a node open to a peer, and the relay of chat messages.       *)
(***************************************************************************)
EXTENDS Archivist, Miner, Calls, Bootstrap, RpcChannel, ChatRelay, Recursion

-----------------------------------------------------------------------------
(* The mining loop.  A worker lives only while the loop watches it, so that *)
(* the loop never clears the event in front of a worker's start or check.   *)

WorkerState == [at : {"none", "starting", "hashing", "added", "over"}, on : Int,
                cancel : BOOLEAN, block : Int]

MinerInv ==
    /\ worker \in WorkerState /\ tip \in Int /\ newest \in Int
    /\ loop # "watch" => worker = NoWorker
    /\ StaleIsAborted

\* The loop starts without a worker.
LEMMA MinerInitInv == MinerInit => MinerInv
  BY DEF MinerInit, MinerInv, WorkerState, NoWorker, StaleIsAborted

\* Every step of the loop, of its worker and of the node keeps the invariant.
LEMMA MinerStepInv == MinerInv /\ [MinerNext]_minerVars => MinerInv'
<1> SUFFICES ASSUME MinerInv, [MinerNext]_minerVars PROVE MinerInv'
    OBVIOUS
<1> USE DEF MinerInv, WorkerState, NoWorker, StaleIsAborted
<1>1. CASE TipChanges
    BY <1>1 DEF TipChanges
<1>2. CASE Notified
    BY <1>2 DEF Notified
<1>3. CASE ConnectionsChange
    BY <1>3 DEF ConnectionsChange
<1>4. CASE SeedMoves
    BY <1>4 DEF SeedMoves
<1>5. CASE Check
    BY <1>5 DEF Check
<1>6. CASE ClearAbort
    BY <1>6 DEF ClearAbort
<1>7. CASE StartWorker
    BY <1>7 DEF StartWorker
<1>8. CASE Cancel
    BY <1>8 DEF Cancel
<1>9. CASE Reap
    BY <1>9 DEF Reap
<1>10. CASE WorkerBuilds
  <2>1. CASE worker' = [worker EXCEPT !.at = "hashing", !.on = tip]
    <3>1. worker' = [at |-> "hashing", on |-> tip, cancel |-> worker.cancel,
                     block |-> worker.block]
        BY <2>1
    <3> QED
        BY <1>10, <3>1 DEF WorkerBuilds
  <2>2. CASE worker' = [worker EXCEPT !.at = "over"]
    BY <1>10, <2>2 DEF WorkerBuilds
  <2> QED
    BY <1>10, <2>1, <2>2 DEF WorkerBuilds
<1>11. CASE WorkerStops
    BY <1>11 DEF WorkerStops
<1>12. CASE WorkerFinds
  <2>1. CASE worker' = [worker EXCEPT !.at = "added", !.block = newest']
    <3>1. worker' = [at |-> "added", on |-> worker.on, cancel |-> worker.cancel,
                     block |-> newest']
        BY <2>1
    <3> QED
        BY <1>12, <3>1 DEF WorkerFinds
  <2>2. CASE worker' = [worker EXCEPT !.at = "over"]
    BY <1>12, <2>2 DEF WorkerFinds
  <2> QED
    BY <1>12, <2>1, <2>2 DEF WorkerFinds
<1>13. CASE WorkerNotifies
    BY <1>13 DEF WorkerNotifies
<1>14. CASE UNCHANGED minerVars
    BY <1>14 DEF minerVars
<1> QED
    BY <1>1, <1>2, <1>3, <1>4, <1>5, <1>6, <1>7, <1>8, <1>9, <1>10, <1>11, <1>12,
       <1>13, <1>14 DEF MinerNext

\* start_mining and _on_tip_changed: however often the loop clears the event
\* while threads of the node set it, no search on a tip that is gone is left
\* without a word.
THEOREM NoStaleSearch == MinerSpec => []StaleIsAborted
<1>1. MinerInv => StaleIsAborted
    BY DEF MinerInv
<1> QED
    BY <1>1, MinerInitInv, MinerStepInv, PTL DEF MinerSpec

-----------------------------------------------------------------------------
(* The start of a node.  From the moment its directory is moved aside until *)
(* the snapshot is validated, what was good is among the ones moved aside.  *)

BootInv ==
    /\ lastMade \in Nat /\ trusted # NoDb
    /\ at \in {"extracted", "aside"} => staging # NoDb
    /\ at = "installed" => node # NoDb
    /\ at = "aside" => node = NoDb
    /\ at \in {"aside", "installed", "undo", "restore"} => misread \/ trusted \in aside
    /\ at = "validated" => misread \/ trusted = node
    /\ GoodIsKept

\* A node starts on the database it has.
LEMMA BootInitInv == BootInit => BootInv
  BY DEF BootInit, BootInv, NoDb, GoodIsKept

\* Every step of the bootstrap, a kill among them, keeps the invariant.
LEMMA BootStepInv == BootInv /\ [BootNext]_bootVars => BootInv'
<1> SUFFICES ASSUME BootInv, [BootNext]_bootVars PROVE BootInv'
    OBVIOUS
<1> USE DEF BootInv, NoDb, GoodIsKept, verdict
<1>1. CASE StartUp
    BY <1>1 DEF StartUp
<1>2. CASE MoveAside
    BY <1>2 DEF MoveAside
<1>3. CASE MoveFails
    BY <1>3 DEF MoveFails
<1>4. CASE Install
    BY <1>4 DEF Install
<1>5. CASE InstallFails
    BY <1>5 DEF InstallFails
<1>6. CASE Validate
    BY <1>6 DEF Validate, Validation
<1>7. CASE Cleanup
    BY <1>7 DEF Cleanup
<1>8. CASE Discard
    BY <1>8 DEF Discard
<1>9. CASE Restore
    BY <1>9 DEF Restore
<1>10. CASE Run
    BY <1>10 DEF Run
<1>11. CASE Stop
    BY <1>11 DEF Stop
<1>12. CASE UNCHANGED bootVars
    BY <1>12 DEF bootVars
<1> QED
    BY <1>1, <1>2, <1>3, <1>4, <1>5, <1>6, <1>7, <1>8, <1>9, <1>10, <1>11, <1>12
       DEF BootNext

\* maybe_bootstrap_snapshot: wherever the process is killed, whatever step fails,
\* and however often it starts, the database last known to be good is on the disk
\* unless the validation read another one than was installed.
THEOREM KeptThroughKills == BootSpec => []GoodIsKept
<1>1. BootInv => GoodIsKept
    BY DEF BootInv
<1> QED
    BY <1>1, BootInitInv, BootStepInv, PTL DEF BootSpec

-----------------------------------------------------------------------------
(* Calls.  Registration ends the calls of the caller and refuses a callee   *)
(* that still has one, and nothing else adds a call.                        *)

\* No call at the start.
LEMMA CallsInitInv == CallsInit => OneCall
  BY DEF CallsInit, OneCall

\* Every step of a handler, of the watchdog or of a clean-up keeps the calls apart.
LEMMA CallsStepInv == OneCall /\ [CallsNext]_callVars => OneCall'
<1> SUFFICES ASSUME OneCall, [CallsNext]_callVars PROVE OneCall'
    OBVIOUS
<1> USE DEF OneCall, Become
<1>1. ASSUME calls' \subseteq calls PROVE OneCall'
    BY <1>1
<1>2. ASSUME NEW s \in Socket, NEW a \in Client, Authenticate(s, a) PROVE OneCall'
    BY <1>1, <1>2 DEF Authenticate
<1>3. ASSUME NEW s \in Socket, Disconnect(s) PROVE OneCall'
    BY <1>1, <1>3 DEF Disconnect
<1>4. ASSUME NEW s \in Socket, CleanupClient(s) PROVE OneCall'
    BY <1>1, <1>4 DEF CleanupClient
<1>5. ASSUME NEW c \in CallId, OfferArrives(c) PROVE OneCall'
    BY <1>1, <1>5 DEF OfferArrives
<1>6. ASSUME NEW c \in CallId, Register(c) PROVE OneCall'
  <2> DEFINE stale == CallsOf(CallerOf[c])
  <2>1. \/ calls' \subseteq calls
        \/ calls' = (calls \ stale) \cup {c} /\ CallsOf(CalleeOf[c]) \ stale = {}
    BY <1>6 DEF Register
  <2>2. ASSUME calls' = (calls \ stale) \cup {c}, CallsOf(CalleeOf[c]) \ stale = {}
        PROVE OneCall'
    <3>1. \A d \in calls \ stale : Party(d) \cap Party(c) = {}
        BY <2>2 DEF CallsOf, Party
    <3> QED
        BY <2>2, <3>1
  <2> QED
    BY <1>1, <2>1, <2>2
<1>7. ASSUME NEW c \in CallId, Ringing(c) PROVE OneCall'
    BY <1>1, <1>7 DEF Ringing
<1>8. ASSUME NEW c \in CallId, Answered(c) PROVE OneCall'
    BY <1>1, <1>8 DEF Answered
<1>9. ASSUME NEW c \in CallId, Hangup(c) PROVE OneCall'
    BY <1>1, <1>9 DEF Hangup
<1>10. ASSUME NEW c \in CallId, TimeoutOf(c) PROVE OneCall'
    BY <1>1, <1>10 DEF TimeoutOf
<1>11. CASE UNCHANGED callVars
    BY <1>1, <1>11 DEF callVars
<1> QED
    BY <1>2, <1>3, <1>4, <1>5, <1>6, <1>7, <1>8, <1>9, <1>10, <1>11 DEF CallsNext

\* _handle_call_offer: no client is ever in two calls, for any number of
\* clients, connections and calls.
THEOREM OneCallAtATime == CallsSpec => []OneCall
  BY CallsInitInv, CallsStepInv, PTL DEF CallsSpec

-----------------------------------------------------------------------------
(* The payout guard of a storage node.  A payout that was built and heard   *)
(* of is below what the guard remembers, or at it with the guard saying     *)
(* "ok", or its answer is on the way.                                       *)

FileState == [state : {"none", "receiving", "appending", "pending_confirm", "stored"},
              paid : BOOLEAN, art : BOOLEAN, root : BOOLEAN, deadline : BOOLEAN,
              proof : Int]
GuardState == [epoch : Int, status : {"", "attempt", "ok", "error"}, cooled : BOOLEAN]
AskState == [art : Artwork, epoch : Int, at : {"sent", "built", "refused"},
             again : BOOLEAN]

ArchTypeOK ==
    /\ file \in [Artwork -> FileState] /\ epoch \in Int
    /\ guard \in [Artwork -> GuardState]
    /\ built \in [Artwork -> SUBSET Int] /\ twice \in [Artwork -> SUBSET Int]
    /\ unheard \in [Artwork -> SUBSET Int] /\ late \subseteq [art : Artwork, epoch : Int]
    /\ asking = NoAsk \/ asking \in AskState
    /\ proving = NoProof \/ proving \in [art : Artwork, epoch : Int, was : Int]

\* The guard knows of the payout of that epoch, or will when the answer arrives.
Guarded(a, e) == \/ e < guard[a].epoch
                 \/ e = guard[a].epoch /\ guard[a].status = "ok"
                 \/ asking.at = "built" /\ asking.art = a /\ asking.epoch = e

HeardIsGuarded == \A a \in Artwork : \A e \in built[a] : e \in unheard[a] \/ Guarded(a, e)
AskIsGuarded == asking # NoAsk => guard[asking.art].epoch = asking.epoch
AskIsNew == asking.at \in {"sent", "refused"} /\ asking.epoch \in built[asking.art]
               => asking.epoch \in unheard[asking.art]
GuardHolds == AskedOnce /\ HeardIsGuarded /\ AskIsGuarded /\ AskIsNew

ArchInv == ArchTypeOK /\ GuardHolds

\* No payout is built at the start.
LEMMA ArchInitInv == ArchInit => ArchInv
<1> SUFFICES ASSUME ArchInit PROVE ArchInv
    OBVIOUS
<1>1. NoFile \in FileState /\ None \in Int
    BY DEF NoFile, FileState, None
<1>2. [epoch |-> None, status |-> "", cooled |-> TRUE] \in GuardState
    BY <1>1 DEF GuardState
<1>3. ArchTypeOK
  <2>1. file \in [Artwork -> FileState]
    BY <1>1 DEF ArchInit
  <2>2. guard \in [Artwork -> GuardState]
    BY <1>2 DEF ArchInit
  <2>3. /\ built \in [Artwork -> SUBSET Int] /\ twice \in [Artwork -> SUBSET Int]
        /\ unheard \in [Artwork -> SUBSET Int] /\ late = {}
    BY DEF ArchInit
  <2>4. asking = NoAsk /\ proving = NoProof /\ epoch = 0
    BY DEF ArchInit
  <2> QED
    BY <2>1, <2>2, <2>3, <2>4 DEF ArchTypeOK
<1>4. GuardHolds
  <2>1. \A a \in Artwork : built[a] = {} /\ twice[a] = {}
    BY DEF ArchInit
  <2>2. asking = NoAsk /\ asking.at = "none"
    BY DEF ArchInit, NoAsk
  <2> QED
    BY <2>1, <2>2 DEF GuardHolds, AskedOnce, HeardIsGuarded, AskIsGuarded, AskIsNew
<1> QED
    BY <1>3, <1>4 DEF ArchInv

\* What is neither the payout's nor a restart keeps the invariant: of what the
\* invariant speaks of, it changes only the files and the proof on its way.
LEMMA ArchAside ==
  ASSUME ArchInv,
         file' \in [Artwork -> FileState], epoch' \in Int,
         proving' = NoProof \/ proving' \in [art : Artwork, epoch : Int, was : Int],
         UNCHANGED << guard, payouts, asking >>
  PROVE  ArchInv'
<1>1. ArchTypeOK'
    BY DEF ArchInv, ArchTypeOK, payouts
<1>2. GuardHolds'
    BY DEF ArchInv, GuardHolds, AskedOnce, HeardIsGuarded, Guarded, AskIsGuarded, AskIsNew,
           payouts
<1> QED
    BY <1>1, <1>2 DEF ArchInv

\* The fields of an entry that handlers and threads change may be changed.
LEMMA EntryChanges ==
  ASSUME NEW f \in FileState
  PROVE  /\ [f EXCEPT !.deadline = TRUE] \in FileState
         /\ [f EXCEPT !.state = "stored", !.paid = TRUE, !.art = TRUE,
                      !.deadline = FALSE] \in FileState
<1>1. [f EXCEPT !.deadline = TRUE] \in FileState
    BY DEF FileState
<1>2. [f EXCEPT !.state = "stored", !.paid = TRUE, !.art = TRUE,
                !.deadline = FALSE] \in FileState
    BY DEF FileState
<1> QED
    BY <1>1, <1>2

\* When the node builds a payout and either the archivist is still to hear of it or
\* never will, what was built twice is unheard of and the types are kept.
LEMMA BuildKept ==
  ASSUME ArchInv, NEW a \in Artwork, NEW e \in Int, NodeBuilds(a, e),
         \/ unheard' = unheard /\ (e \in built[a] => e \in unheard[a])
         \/ unheard' = [unheard EXCEPT ![a] = @ \cup {e}]
  PROVE  /\ built' \in [Artwork -> SUBSET Int] /\ twice' \in [Artwork -> SUBSET Int]
         /\ unheard' \in [Artwork -> SUBSET Int]
         /\ built' = [built EXCEPT ![a] = @ \cup {e}]
         /\ AskedOnce'
<1>1. /\ built \in [Artwork -> SUBSET Int] /\ twice \in [Artwork -> SUBSET Int]
      /\ unheard \in [Artwork -> SUBSET Int]
      /\ \A b \in Artwork : twice[b] \subseteq unheard[b]
    BY DEF ArchInv, ArchTypeOK, GuardHolds, AskedOnce
<1>2. built' = [built EXCEPT ![a] = @ \cup {e}]
    BY DEF NodeBuilds
<1>3. \/ twice' = twice
      \/ e \in built[a] /\ twice' = [twice EXCEPT ![a] = @ \cup {e}]
    BY DEF NodeBuilds
<1>4. built' \in [Artwork -> SUBSET Int] /\ twice' \in [Artwork -> SUBSET Int]
    BY <1>1, <1>2, <1>3
<1>5. unheard' \in [Artwork -> SUBSET Int]
    BY <1>1
<1>6. \A b \in Artwork : twice'[b] \subseteq unheard'[b]
    BY <1>1, <1>3
<1> QED
    BY <1>2, <1>4, <1>5, <1>6 DEF AskedOnce

\* Every step of a wallet, a thread or the chain, and a restart, keeps it.
LEMMA ArchStepInv == ArchInv /\ [ArchNext]_archVars => ArchInv'
<1> SUFFICES ASSUME ArchInv, [ArchNext]_archVars PROVE ArchInv'
    OBVIOUS
<1>0. /\ NoFile \in FileState /\ file \in [Artwork -> FileState] /\ epoch \in Int
      /\ proving = NoProof \/ proving \in [art : Artwork, epoch : Int, was : Int]
    BY DEF ArchInv, ArchTypeOK, NoFile, FileState, None
<1>1. ASSUME NEW a \in Artwork, StorInit(a) PROVE ArchInv'
  <2>1. file' \in [Artwork -> FileState]
    BY <1>0, <1>1 DEF StorInit, FileState
  <2> QED
    BY <1>0, <1>1, <2>1, ArchAside DEF StorInit
<1>2. ASSUME NEW a \in Artwork, StorPut(a) PROVE ArchInv'
  <2>1. file' \in [Artwork -> FileState]
    BY <1>0, <1>2 DEF StorPut, FileState
  <2> QED
    BY <1>0, <1>2, <2>1, ArchAside DEF StorPut
<1>3. ASSUME NEW a \in Artwork, StorCommit(a) PROVE ArchInv'
  <2>1. \/ file' = [file EXCEPT ![a].state = "pending_confirm",
                                ![a].deadline = @ \/ ~ file[a].paid]
        \/ file' = [file EXCEPT ![a] = NoFile]
    BY <1>3 DEF StorCommit
  <2>2. file' \in [Artwork -> FileState]
    BY <1>0, <2>1 DEF FileState
  <2> QED
    BY <1>0, <1>3, <2>2, ArchAside DEF StorCommit
<1>4. ASSUME NEW a \in Artwork, PruneStaleIncoming(a) PROVE ArchInv'
    BY <1>0, <1>4, ArchAside DEF PruneStaleIncoming
<1>5. ASSUME NEW a \in Artwork, RunGc(a) PROVE ArchInv'
  <2>1. \/ file' = [file EXCEPT ![a].deadline = TRUE]
        \/ file' = [file EXCEPT ![a] = NoFile]
    BY <1>5 DEF RunGc
  <2>2. file' \in [Artwork -> FileState]
    <3>1. [file[a] EXCEPT !.deadline = TRUE] \in FileState
      BY <1>0, EntryChanges
    <3> QED
      BY <1>0, <2>1, <3>1
  <2> QED
    BY <1>0, <1>5, <2>2, ArchAside DEF RunGc
<1>6. ASSUME NEW a \in Artwork, RefreshOnce(a) PROVE ArchInv'
  <2>1. \/ file' = [file EXCEPT ![a].state = "stored", ![a].paid = TRUE,
                                ![a].art = TRUE, ![a].deadline = FALSE]
        \/ file' = file
    BY <1>6 DEF RefreshOnce
  <2> DEFINE kept == [file[a] EXCEPT !.state = "stored", !.paid = TRUE, !.art = TRUE,
                                     !.deadline = FALSE]
  <2>3. kept \in FileState
    BY <1>0, EntryChanges
  <2>4. file' = [file EXCEPT ![a] = kept] \/ file' = file
    BY <2>1, Zenon
  <2> HIDE DEF kept
  <2>2. file' \in [Artwork -> FileState]
    BY <1>0, <2>3, <2>4
  <2> QED
    BY <1>0, <1>6, <2>2, ArchAside DEF RefreshOnce
<1>a. /\ guard \in [Artwork -> GuardState]
      /\ built \in [Artwork -> SUBSET Int] /\ twice \in [Artwork -> SUBSET Int]
      /\ unheard \in [Artwork -> SUBSET Int]
      /\ late \subseteq [art : Artwork, epoch : Int]
      /\ asking = NoAsk \/ asking \in AskState
    BY DEF ArchInv, ArchTypeOK
<1>b. /\ \A a \in Artwork : twice[a] \subseteq unheard[a]
      /\ \A a \in Artwork : \A e \in built[a] :
             \/ e \in unheard[a] \/ e < guard[a].epoch
             \/ e = guard[a].epoch /\ guard[a].status = "ok"
             \/ asking.at = "built" /\ asking.art = a /\ asking.epoch = e
      /\ asking # NoAsk => guard[asking.art].epoch = asking.epoch
      /\ asking.at \in {"sent", "refused"} /\ asking.epoch \in built[asking.art]
            => asking.epoch \in unheard[asking.art]
    BY DEF ArchInv, GuardHolds, AskedOnce, HeardIsGuarded, Guarded, AskIsGuarded, AskIsNew
<1>c. NoAsk.at = "none"
    BY DEF NoAsk
<1>7. ASSUME NEW a \in Artwork, AskPayout(a) PROVE ArchInv'
  <2>1. /\ file[a].proof \in Int
        /\ guard[a].epoch <= file[a].proof
        /\ guard[a].epoch = file[a].proof => guard[a].status # "ok"
    BY <1>0, <1>7 DEF AskPayout, Unguarded, FileState
  <2>2. PICK g \in GuardState : /\ g.epoch = file[a].proof
                                /\ guard' = [guard EXCEPT ![a] = g]
    <3>1. [epoch |-> file[a].proof, status |-> "attempt", cooled |-> FALSE] \in GuardState
        BY <2>1 DEF GuardState
    <3> QED
        BY <1>7, <3>1 DEF AskPayout
  <2>3. /\ asking = NoAsk
        /\ asking' = [art |-> a, epoch |-> file[a].proof, at |-> "sent", again |-> FALSE]
        /\ UNCHANGED << file, epoch, built, twice, unheard, late, proving >>
    BY <1>7 DEF AskPayout, payouts
  <2>4. /\ guard' \in [Artwork -> GuardState] /\ guard'[a] = g
        /\ \A b \in Artwork : b # a => guard'[b] = guard[b]
    BY <1>a, <2>2
  <2>5. \A e \in built[a] : e \in unheard[a] \/ e < file[a].proof
    <3>1. \A e \in built[a] : e \in Int
        BY <1>a
    <3>3. \A e \in built[a] :
            \/ e \in unheard[a] \/ e < guard[a].epoch
            \/ e = guard[a].epoch /\ guard[a].status = "ok"
        BY <1>b, <1>c, <2>3
    <3>2. guard[a].epoch \in Int
        BY <1>a DEF GuardState
    <3> QED
        BY <2>1, <3>1, <3>2, <3>3
  <2>6. ArchTypeOK'
    <3>1. asking' \in AskState
        BY <2>1, <2>3 DEF AskState
    <3> QED
        BY <1>0, <1>a, <2>3, <2>4, <3>1 DEF ArchTypeOK
  <2>7. HeardIsGuarded'
    <3> SUFFICES ASSUME NEW b \in Artwork, NEW e \in built[b], e \notin unheard[b]
                 PROVE  \/ e < guard'[b].epoch
                        \/ e = guard'[b].epoch /\ guard'[b].status = "ok"
        BY <2>3 DEF HeardIsGuarded, Guarded
    <3>1. CASE b = a
        BY <2>2, <2>4, <2>5, <3>1
    <3>2. CASE b # a
        BY <1>b, <1>c, <2>3, <2>4, <3>2
    <3> QED
        BY <3>1, <3>2
  <2>8. AskIsGuarded'
    BY <2>2, <2>3, <2>4 DEF AskIsGuarded
  <2>9. AskIsNew'
    <3>1. file[a].proof \in built[a] => file[a].proof \in unheard[a]
        BY <2>1, <2>5
    <3> QED
        BY <2>3, <3>1 DEF AskIsNew
  <2> QED
    BY <1>b, <2>3, <2>6, <2>7, <2>8, <2>9 DEF ArchInv, GuardHolds, AskedOnce
<1>8. CASE PayoutBuilt
  <2>1. PICK a \in Artwork, e \in Int : a = asking.art /\ e = asking.epoch
    BY <1>8, <1>a, <1>c DEF PayoutBuilt, AskState
  <2>2. /\ asking \in AskState /\ asking # NoAsk /\ asking.at = "sent"
        /\ NodeBuilds(a, e) /\ asking' = [asking EXCEPT !.at = "built"]
        /\ UNCHANGED << file, epoch, proving, guard, unheard, late >>
    BY <1>8, <1>a, <1>c, <2>1 DEF PayoutBuilt
  <2>3. /\ built' \in [Artwork -> SUBSET Int] /\ twice' \in [Artwork -> SUBSET Int]
        /\ unheard' \in [Artwork -> SUBSET Int]
        /\ built' = [built EXCEPT ![a] = @ \cup {e}]
        /\ AskedOnce'
    BY <1>b, <2>1, <2>2, BuildKept
  <2>4. /\ asking' \in AskState /\ asking'.at = "built" /\ asking'.art = a
        /\ asking'.epoch = e
    BY <2>1, <2>2 DEF AskState
  <2>5. ArchTypeOK'
    BY <1>0, <1>a, <2>2, <2>3, <2>4 DEF ArchTypeOK
  <2>6. HeardIsGuarded'
    <3> SUFFICES ASSUME NEW b \in Artwork, NEW d \in built'[b], d \notin unheard[b]
                 PROVE  \/ d < guard[b].epoch
                        \/ d = guard[b].epoch /\ guard[b].status = "ok"
                        \/ a = b /\ e = d
        BY <2>2, <2>4 DEF HeardIsGuarded, Guarded
    <3>1. d \in built[b] \/ (b = a /\ d = e)
        BY <1>a, <2>3
    <3> QED
        BY <1>b, <2>2, <3>1
  <2>7. AskIsGuarded'
    BY <1>b, <2>1, <2>2, <2>4 DEF AskIsGuarded
  <2>8. AskIsNew'
    BY <2>4 DEF AskIsNew
  <2> QED
    BY <2>3, <2>5, <2>6, <2>7, <2>8 DEF ArchInv, GuardHolds
<1>9. CASE PayoutRefused
  <2>1. /\ asking \in AskState /\ asking # NoAsk /\ asking.at = "sent"
        /\ asking' = [asking EXCEPT !.at = "refused"]
        /\ UNCHANGED << file, epoch, proving, guard, built, twice, unheard, late >>
    BY <1>9, <1>a, <1>c DEF PayoutRefused, payouts
  <2>2. /\ asking' \in AskState /\ asking'.at = "refused" /\ asking'.art = asking.art
        /\ asking'.epoch = asking.epoch
    BY <2>1 DEF AskState
  <2>3. ArchTypeOK'
    BY <1>0, <1>a, <2>1, <2>2 DEF ArchTypeOK
  <2>4. HeardIsGuarded'
    BY <1>b, <2>1 DEF HeardIsGuarded, Guarded
  <2>5. AskIsGuarded' /\ AskIsNew' /\ AskedOnce'
    BY <1>b, <2>1, <2>2 DEF AskIsGuarded, AskIsNew, AskedOnce
  <2> QED
    BY <2>3, <2>4, <2>5 DEF ArchInv, GuardHolds
<1>10. CASE PayoutUnanswered
  <2>1. /\ asking # NoAsk /\ asking \in AskState
        /\ UNCHANGED << file, epoch, proving, guard, built, twice >>
    BY <1>10, <1>a DEF PayoutUnanswered
  <2>2. PICK a \in Artwork, e \in Int : a = asking.art /\ e = asking.epoch
    BY <2>1 DEF AskState
  <2>3. late' \subseteq [art : Artwork, epoch : Int]
    BY <1>10, <1>a, <2>1, <2>2 DEF PayoutUnanswered, GivenUp, AskState
  <2>4. /\ unheard' \in [Artwork -> SUBSET Int]
        /\ \A b \in Artwork : unheard[b] \subseteq unheard'[b]
        /\ asking.at = "built" => e \in unheard'[a]
    BY <1>10, <1>a, <2>2 DEF PayoutUnanswered, Unheard
  <2>5. \/ asking' = NoAsk
        \/ asking.at = "sent" /\ asking' = [asking EXCEPT !.again = TRUE]
        \/ asking' = [asking EXCEPT !.again = TRUE, !.at = "refused"]
    BY <1>10 DEF PayoutUnanswered
  <2>6. \/ asking' = NoAsk
        \/ /\ asking' \in AskState /\ asking'.art = a /\ asking'.epoch = e
           /\ asking'.at \in {"sent", "refused"}
    <3>1. CASE asking' = [asking EXCEPT !.again = TRUE] /\ asking.at = "sent"
        BY <2>1, <2>2, <3>1 DEF AskState
    <3>2. CASE asking' = [asking EXCEPT !.again = TRUE, !.at = "refused"]
        BY <2>1, <2>2, <3>2 DEF AskState
    <3> QED
        BY <2>5, <3>1, <3>2
  <2>7. ArchTypeOK'
    BY <1>0, <1>a, <2>1, <2>3, <2>4, <2>6 DEF ArchTypeOK
  <2>8. AskedOnce'
    BY <1>b, <2>1, <2>4 DEF AskedOnce
  <2>9. HeardIsGuarded'
    <3> SUFFICES ASSUME NEW b \in Artwork, NEW d \in built[b], d \notin unheard'[b]
                 PROVE  \/ d < guard[b].epoch
                        \/ d = guard[b].epoch /\ guard[b].status = "ok"
        BY <2>1 DEF HeardIsGuarded, Guarded
    <3> QED
        BY <1>b, <2>2, <2>4
  <2>10. AskIsGuarded'
    BY <1>b, <2>1, <2>2, <2>6 DEF AskIsGuarded
  <2>11. AskIsNew'
    <3>1. e \in built[a] => e \in unheard'[a]
        <4>1. asking.at \in {"sent", "built", "refused"}
            BY <2>1 DEF AskState
        <4> QED
            BY <1>b, <2>2, <2>4, <4>1
    <3> QED
        BY <1>c, <2>1, <2>6, <3>1 DEF AskIsNew
  <2> QED
    BY <2>7, <2>8, <2>9, <2>10, <2>11 DEF ArchInv, GuardHolds
<1>11. ASSUME NEW a \in Artwork, PayoutCooled(a) PROVE ArchInv'
  <2>1. PICK cold \in GuardState : /\ cold.epoch = guard[a].epoch
                                   /\ cold.status = guard[a].status
                                   /\ guard' = [guard EXCEPT ![a] = cold]
    <3>1. guard[a] \in GuardState
        BY <1>a
    <3>2. [guard[a] EXCEPT !.cooled = TRUE] \in GuardState
        BY <3>1 DEF GuardState
    <3> QED
        BY <1>11, <3>1, <3>2 DEF PayoutCooled, GuardState
  <2>2. UNCHANGED << file, epoch, built, twice, unheard, late, proving, asking >>
    BY <1>11 DEF PayoutCooled, payouts
  <2>3. /\ guard' \in [Artwork -> GuardState]
        /\ \A b \in Artwork : /\ guard'[b].epoch = guard[b].epoch
                              /\ guard'[b].status = guard[b].status
    BY <1>a, <2>1
  <2>4. ArchTypeOK'
    BY <1>0, <1>a, <2>2, <2>3 DEF ArchTypeOK
  <2>5. AskIsGuarded'
    BY <1>a, <1>b, <2>2, <2>3 DEF AskIsGuarded, AskState
  <2>6. HeardIsGuarded'
    BY <1>b, <2>2, <2>3 DEF HeardIsGuarded, Guarded
  <2>7. AskIsNew' /\ AskedOnce'
    BY <1>b, <2>2 DEF AskIsNew, AskedOnce
  <2> QED
    BY <2>4, <2>5, <2>6, <2>7 DEF ArchInv, GuardHolds
<1>21. CASE LateBuilt
  <2>1. PICK r \in late : /\ NodeBuilds(r.art, r.epoch)
                          /\ unheard' = [unheard EXCEPT ![r.art] = @ \cup {r.epoch}]
                          /\ late' \in {late, late \ {r}}
                          /\ UNCHANGED << file, epoch, proving, asking, guard >>
    BY <1>21 DEF LateBuilt
  <2>2. PICK a \in Artwork, e \in Int : a = r.art /\ e = r.epoch
    BY <1>a
  <2>3. /\ built' \in [Artwork -> SUBSET Int] /\ twice' \in [Artwork -> SUBSET Int]
        /\ unheard' \in [Artwork -> SUBSET Int]
        /\ built' = [built EXCEPT ![a] = @ \cup {e}]
        /\ AskedOnce'
    BY <2>1, <2>2, BuildKept
  <2>4. ArchTypeOK'
    BY <1>0, <1>a, <2>1, <2>3 DEF ArchTypeOK
  <2>5. \A b \in Artwork : \A d \in built'[b] : d \in unheard'[b] \/ d \in built[b]
    BY <1>a, <2>1, <2>2, <2>3
  <2>6. \A b \in Artwork : unheard[b] \subseteq unheard'[b]
    BY <1>a, <2>1
  <2>7. HeardIsGuarded'
    BY <1>b, <2>1, <2>5, <2>6 DEF HeardIsGuarded, Guarded
  <2>8. AskIsGuarded'
    BY <1>b, <2>1 DEF AskIsGuarded
  <2>9. AskIsNew'
    <3>1. asking.at \in {"sent", "refused"} => asking.art \in Artwork
        BY <1>a, <1>c DEF AskState
    <3> QED
        BY <1>b, <2>1, <2>5, <2>6, <3>1 DEF AskIsNew
  <2> QED
    BY <2>3, <2>4, <2>7, <2>8, <2>9 DEF ArchInv, GuardHolds
<1>22. CASE PayoutAnswered
  <2>1. /\ asking # NoAsk /\ asking \in AskState /\ asking.at \in {"built", "refused"}
    BY <1>22, <1>a, <1>c DEF PayoutAnswered
  <2>2. PICK a \in Artwork, e \in Int : a = asking.art /\ e = asking.epoch
    BY <2>1 DEF AskState
  <2>3. PICK g \in GuardState : /\ g.epoch = e /\ (asking.at = "built" => g.status = "ok")
                                /\ guard' = [guard EXCEPT ![a] = g]
    <3>1. [epoch |-> e, cooled |-> FALSE,
           status |-> IF asking.at = "built" THEN "ok" ELSE "error"] \in GuardState
        BY DEF GuardState
    <3> QED
        BY <1>22, <2>2, <3>1 DEF PayoutAnswered
  <2>4. /\ asking' = NoAsk
        /\ UNCHANGED << file, epoch, proving, built, twice, unheard, late >>
    BY <1>22 DEF PayoutAnswered, payouts
  <2>5. /\ guard' \in [Artwork -> GuardState] /\ guard'[a] = g
        /\ \A b \in Artwork : b # a => guard'[b] = guard[b]
    BY <1>a, <2>3
  <2>6. ArchTypeOK'
    BY <1>0, <1>a, <2>4, <2>5 DEF ArchTypeOK
  <2>7. HeardIsGuarded'
    <3> SUFFICES ASSUME NEW b \in Artwork, NEW d \in built[b], d \notin unheard[b]
                 PROVE  \/ d < guard'[b].epoch
                        \/ d = guard'[b].epoch /\ guard'[b].status = "ok"
        BY <2>4 DEF HeardIsGuarded, Guarded
    <3>1. CASE b = a /\ asking.at = "built"
        BY <1>b, <2>1, <2>2, <2>3, <2>5, <3>1
    <3>2. CASE b = a /\ asking.at = "refused"
        BY <1>b, <2>1, <2>2, <2>3, <2>5, <3>2
    <3>3. CASE b # a
        BY <1>b, <2>2, <2>5, <3>3
    <3> QED
        BY <2>1, <3>1, <3>2, <3>3
  <2>8. AskIsGuarded' /\ AskIsNew' /\ AskedOnce'
    BY <1>b, <1>c, <2>4 DEF AskIsGuarded, AskIsNew, AskedOnce
  <2> QED
    BY <2>6, <2>7, <2>8 DEF ArchInv, GuardHolds
<1>12. ASSUME NEW a \in Artwork, GenerateProof(a) PROVE ArchInv'
  <2>1. file' \in [Artwork -> FileState] /\ file[a].proof \in Int
    BY <1>0, <1>12 DEF GenerateProof, FileState
  <2> QED
    BY <1>0, <1>12, <2>1, ArchAside DEF GenerateProof
<1>13. CASE ProofSubmitted
    BY <1>0, <1>13, ArchAside DEF ProofSubmitted
<1>14. CASE ProofFails
  <2>1. proving.art \in Artwork /\ proving.was \in Int
    BY <1>0, <1>14 DEF ProofFails
  <2>2. \/ file' = [file EXCEPT ![proving.art].proof = proving.was]
        \/ file' = file
    BY <1>14 DEF ProofFails
  <2>3. file' \in [Artwork -> FileState]
    BY <1>0, <2>1, <2>2 DEF FileState
  <2> QED
    BY <1>0, <1>14, <2>3, ArchAside DEF ProofFails
<1>15. ASSUME NEW a \in Artwork, PostConfirmed(a) PROVE ArchInv'
    BY <1>0, <1>15, ArchAside DEF PostConfirmed
<1>16. CASE NextEpoch
    BY <1>0, <1>16, ArchAside DEF NextEpoch
<1>17. ASSUME NEW a \in Artwork, PayoutMined(a) PROVE ArchInv'
    BY <1>0, <1>17, ArchAside DEF PayoutMined
<1>18. CASE RestartArchivist
  <2>1. PICK whole \in BOOLEAN :
          file' = Reconciled([a \in Artwork |->
                    IF ~ whole THEN NoFile
                    ELSE IF file[a].state = "appending"
                         THEN [file[a] EXCEPT !.state = "receiving"] ELSE file[a]])
    BY <1>18 DEF RestartArchivist
  <2>2. file' \in [Artwork -> FileState]
    <3> DEFINE read(a) == IF ~ whole THEN NoFile
                          ELSE IF file[a].state = "appending"
                               THEN [file[a] EXCEPT !.state = "receiving"] ELSE file[a]
               again == [NoFile EXCEPT !.state = "stored", !.paid = TRUE]
    <3>1. NoFile \in FileState /\ again \in FileState
      <4>1. NoFile \in FileState
        BY <1>0
      <4>2. again \in FileState
        BY <4>1 DEF FileState
      <4> QED
        BY <4>1, <4>2
    <3>2. ASSUME NEW a \in Artwork PROVE read(a) \in FileState
      <4>1. file[a] \in FileState
        BY <1>0
      <4>2. [file[a] EXCEPT !.state = "receiving"] \in FileState
        BY <4>1 DEF FileState
      <4> QED
        BY <3>1, <4>1, <4>2
    <3> HIDE DEF again
    <3>3. \A a \in Artwork : file'[a] \in {again, read(a)}
      BY <2>1 DEF Reconciled, again
    <3>4. file' = [a \in Artwork |-> file'[a]]
      BY <2>1 DEF Reconciled
    <3> HIDE DEF read
    <3> QED
      BY <3>1, <3>2, <3>3, <3>4
  <2>3. /\ asking' = NoAsk /\ proving' = NoProof
        /\ UNCHANGED << epoch, guard, built, twice >>
    BY <1>18 DEF RestartArchivist
  <2>4. late' \subseteq [art : Artwork, epoch : Int]
    <3>1. asking.at = "sent" => asking \in AskState
        BY <1>a, <1>c
    <3> QED
        BY <1>18, <1>a, <3>1 DEF RestartArchivist, GivenUp, AskState
  <2>5. /\ unheard' \in [Artwork -> SUBSET Int]
        /\ \A b \in Artwork : unheard[b] \subseteq unheard'[b]
        /\ asking.at = "built" => asking.epoch \in unheard'[asking.art]
    <3>1. asking.at = "built" => asking \in AskState
        BY <1>a, <1>c
    <3> QED
        BY <1>18, <1>a, <3>1 DEF RestartArchivist, Unheard, AskState
  <2>6. ArchTypeOK'
    BY <1>0, <1>a, <2>2, <2>3, <2>4, <2>5 DEF ArchTypeOK
  <2>7. HeardIsGuarded'
    BY <1>b, <2>3, <2>5 DEF HeardIsGuarded, Guarded
  <2>8. AskIsGuarded' /\ AskIsNew' /\ AskedOnce'
    BY <1>b, <1>c, <2>3, <2>5 DEF AskIsGuarded, AskIsNew, AskedOnce
  <2> QED
    BY <2>6, <2>7, <2>8 DEF ArchInv, GuardHolds
<1>19. CASE UNCHANGED archVars
    BY <1>0, <1>19, ArchAside DEF archVars, payouts
<1> QED
    BY <1>1, <1>2, <1>3, <1>4, <1>5, <1>6, <1>7, <1>8, <1>9, <1>10, <1>11, <1>12,
       <1>13, <1>14, <1>15, <1>16, <1>17, <1>18, <1>19, <1>21, <1>22 DEF ArchNext

\* _process_auto_payout_for_art and RPC.call: for any number of artworks, epochs,
\* failures, restarts, resent requests and lost answers, the node builds a second
\* payout of an epoch only when the archivist did not hear of one of them.
THEOREM HeardNotBuiltAgain == ArchSpec => []AskedOnce
<1>1. ArchInv => AskedOnce
    BY DEF ArchInv, GuardHolds
<1> QED
    BY <1>1, ArchInitInv, ArchStepInv, PTL DEF ArchSpec

-----------------------------------------------------------------------------
(* The channels of a peer.  A thread has a channel exactly while its request *)
(* is out, which makes their exclusive use inductive.                        *)

\* A thread with a request out has a channel, and only such a thread has one.
Engaged ==
  \A c \in Caller : using[c] # NoWire <=> stage[c] \in {"cached", "fresh"}

RpcInv == RpcTypeOK /\ Engaged /\ ChannelExclusive

\* The invariant holds at the start.
LEMMA RpcInitInv == RpcInit => RpcInv
  BY DEF RpcInit, RpcInv, RpcTypeOK, Engaged, ChannelExclusive

\* Every step of a thread or of a prefetch keeps the invariant.
LEMMA RpcStepInv == RpcInv /\ [RpcNext]_rpcVars => RpcInv'
<1> SUFFICES ASSUME RpcInv, [RpcNext]_rpcVars PROVE RpcInv'
    OBVIOUS
<1> USE NoWireIsNone DEF RpcInv, RpcTypeOK, Engaged, ChannelExclusive, Spare, Taken
<1>1. ASSUME NEW c \in Caller, Take(c) PROVE RpcInv'
    BY <1>1 DEF Take
<1>2. ASSUME NEW c \in Caller, Expire(c) PROVE RpcInv'
    BY <1>2 DEF Expire
<1>3. ASSUME NEW c \in Caller, OpenFails(c) PROVE RpcInv'
    BY <1>3 DEF OpenFails
<1>4. ASSUME NEW c \in Caller, Reads(c) PROVE RpcInv'
    BY <1>4 DEF Reads
<1>5. ASSUME NEW c \in Caller, TimesOut(c) PROVE RpcInv'
    BY <1>5 DEF TimesOut
<1>6. ASSUME NEW c \in Caller, Breaks(c) PROVE RpcInv'
    BY <1>6 DEF Breaks
<1>7. ASSUME NEW c \in Caller, NEW w \in Wire, Open(c, w) PROVE RpcInv'
    BY <1>7 DEF Open
<1>8. ASSUME NEW w \in Wire, Prefetch(w) PROVE RpcInv'
    BY <1>8 DEF Prefetch
<1>9. CASE UNCHANGED rpcVars
    BY <1>9 DEF rpcVars
<1> QED
    BY <1>1, <1>2, <1>3, <1>4, <1>5, <1>6, <1>7, <1>8, <1>9 DEF RpcNext

\* rpc_request: however threads, timeouts and new dials interleave, no channel
\* is used by two threads or taken while it is in the cache.
THEOREM RpcExclusive == RpcSpec => []ChannelExclusive
<1>1. RpcInv => ChannelExclusive
    BY DEF RpcInv
<1> QED
    BY <1>1, RpcInitInv, RpcStepInv, PTL DEF RpcSpec

-----------------------------------------------------------------------------
(* The chat relay.  A prekey that is still in a bundle has been put there   *)
(* once more often than it was handed out, and it is in the bundle of its   *)
(* owner only.  A message is in one place at a time, with a request, in its *)
(* mailbox once or handed over, and what is in one is remembered, as long   *)
(* as its sender stays.                                                     *)

OpkTypeOK ==
  /\ opkList \in [Address -> SUBSET Opk]
  /\ published \in [Opk -> Nat]
  /\ handed \in [Opk -> Nat]

\* What is in a bundle is its owner's, and was published once more.
ListedIsFresh ==
  \A a \in Address : \A o \in opkList[a] :
    OpkOf[o] = a /\ handed[o] < published[o]

OpkInv == OpkTypeOK /\ ListedIsFresh /\ OpkOnce

\* The invariant holds at the start.
LEMMA OpkInitInv == MailInit => OpkInv
  BY DEF MailInit, OpkInv, OpkTypeOK, ListedIsFresh, OpkOnce

\* The locked part of a registration keeps the invariant.
LEMMA PutBundleKeeps ==
  ASSUME OpkInv, NEW o \in Opk, NEW kind, PutBundle(kind, o)
  PROVE  OpkInv'
<1> DEFINE a == OpkOf[o]
<1>1. a \in Address
    BY OpkAssumption
<1>2. handed' = handed
    BY DEF PutBundle
<1>3. CASE opkList' = opkList /\ published' = published
    BY <1>2, <1>3 DEF OpkInv, OpkTypeOK, ListedIsFresh, OpkOnce
<1>4. CASE /\ opkList' = [opkList EXCEPT ![a] = @ \cup {o}]
           /\ published' = [published EXCEPT ![o] = @ + 1]
  <2>1. OpkTypeOK'
      BY <1>1, <1>2, <1>4 DEF OpkInv, OpkTypeOK
  <2>2. \A x \in Opk : published'[x] >= published[x] /\ published'[o] = published[o] + 1
      BY <1>4 DEF OpkInv, OpkTypeOK
  <2>3. OpkOnce'
      BY <1>2, <2>1, <2>2 DEF OpkInv, OpkTypeOK, OpkOnce
  <2>4. ListedIsFresh'
    <3> SUFFICES ASSUME NEW b \in Address, NEW x \in opkList'[b]
                 PROVE  OpkOf[x] = b /\ handed'[x] < published'[x]
        BY DEF ListedIsFresh
    <3>1. x \in Opk
        BY <2>1 DEF OpkTypeOK
    <3>2. CASE x \in opkList[b]
        BY <1>2, <2>1, <2>2, <3>1, <3>2 DEF OpkInv, OpkTypeOK, ListedIsFresh
    <3>3. CASE x \notin opkList[b]
      <4>1. x = o /\ b = a
          BY <1>1, <1>4, <3>3 DEF OpkInv, OpkTypeOK
      <4>2. handed[o] <= published[o]
          BY DEF OpkInv, OpkOnce
      <4> QED
          BY <1>2, <2>1, <2>2, <4>1, <4>2 DEF OpkInv, OpkTypeOK
    <3> QED
        BY <3>2, <3>3
  <2> QED
      BY <2>1, <2>3, <2>4 DEF OpkInv
<1> QED
    BY <1>3, <1>4 DEF PutBundle

\* Handing out a prekey keeps the invariant, for it leaves the only list it is in.
LEMMA GetPrekeyKeeps ==
  ASSUME OpkInv, NEW a \in Address, GetPrekey(a)
  PROVE  OpkInv'
<1>1. PICK o \in opkList[a] : /\ opkList' = [opkList EXCEPT ![a] = @ \ {o}]
                              /\ handed' = [handed EXCEPT ![o] = @ + 1]
                              /\ published' = published
    BY DEF GetPrekey
<1>2. o \in Opk /\ OpkOf[o] = a /\ handed[o] < published[o]
    BY <1>1 DEF OpkInv, OpkTypeOK, ListedIsFresh
<1>3. OpkTypeOK'
    BY <1>1, <1>2 DEF OpkInv, OpkTypeOK
<1>4. OpkOnce'
    BY <1>1, <1>2, <1>3 DEF OpkInv, OpkTypeOK, OpkOnce
<1>5. ListedIsFresh'
  <2> SUFFICES ASSUME NEW b \in Address, NEW x \in opkList'[b]
               PROVE  OpkOf[x] = b /\ handed'[x] < published'[x]
      BY DEF ListedIsFresh
  <2>1. x \in opkList[b]
      BY <1>1 DEF OpkInv, OpkTypeOK
  <2>2. OpkOf[x] = b /\ handed[x] < published[x]
      BY <2>1 DEF OpkInv, ListedIsFresh
  <2>3. x # o
      BY <1>1, <1>2, <2>2 DEF OpkInv, OpkTypeOK
  <2> QED
      BY <1>1, <2>2, <2>3 DEF OpkInv, OpkTypeOK
<1> QED
    BY <1>3, <1>4, <1>5 DEF OpkInv

\* A deactivation empties a list, which keeps the invariant.
LEMMA DeleteBundleKeeps ==
  ASSUME OpkInv, NEW a \in Address, DeleteBundle(a)
  PROVE  OpkInv'
  BY DEF DeleteBundle, OpkInv, OpkTypeOK, ListedIsFresh, OpkOnce

\* Every step keeps the invariant.
LEMMA OpkStepInv == OpkInv /\ [MailNext]_mailVars => OpkInv'
<1> SUFFICES ASSUME OpkInv, [MailNext]_mailVars PROVE OpkInv'
    OBVIOUS
<1>1. CASE UNCHANGED bundles
    BY <1>1 DEF bundles, OpkInv, OpkTypeOK, ListedIsFresh, OpkOnce
<1>2. ASSUME NEW o \in Opk, NEW kind, PutBundle(kind, o) PROVE OpkInv'
    BY <1>2, PutBundleKeeps
<1>3. ASSUME NEW a \in Address, GetPrekey(a) PROVE OpkInv'
    BY <1>3, GetPrekeyKeeps
<1>4. ASSUME NEW a \in Address, DeleteBundle(a) PROVE OpkInv'
    BY <1>4, DeleteBundleKeeps
<1>5. ASSUME NEW o \in Opk, NEW kind, Prepare(kind, o) PROVE UNCHANGED bundles
    BY <1>5 DEF Prepare
<1>6. ASSUME NEW a \in Address, ClearRam(a) \/ CooldownOver(a) \/ Expires(a)
      PROVE  UNCHANGED bundles
    BY <1>6 DEF ClearRam, CooldownOver, Expires
<1>7. ASSUME NEW a \in Address, NEW n \in 1..2, ChatPull(a, n) PROVE UNCHANGED bundles
    BY <1>7 DEF ChatPull
<1>8. ASSUME NEW m \in Mid, \/ DedupMid(m) \/ Accept(m) \/ Reject(m) \/ Queue(m)
                            \/ EnqueueRcpt(m) \/ ChatRead(m)
      PROVE  UNCHANGED bundles
    BY <1>8 DEF DedupMid, Accept, Reject, Queue, EnqueueRcpt, ChatRead
<1>9. CASE GcMailboxes \/ RestartNode
    BY <1>1, <1>9 DEF GcMailboxes, RestartNode
<1>10. CASE UNCHANGED mailVars
    BY <1>1, <1>10 DEF mailVars, bundles
<1> QED
    BY <1>1, <1>2, <1>3, <1>4, <1>5, <1>6, <1>7, <1>8, <1>9, <1>10 DEF MailNext

\* chat_get_prekey: however requests interleave, a one-time prekey is handed out
\* no more often than its wallet published it.
THEOREM OpkHandedOnce == MailSpec => []OpkOnce
<1>1. OpkInv => OpkOnce
    BY DEF OpkInv
<1> QED
    BY <1>1, OpkInitInv, OpkStepInv, PTL DEF MailSpec
-----------------------------------------------------------------------------
(* Mailboxes *)

Item == [what : Mid \cup {"rcpt"}, expired : BOOLEAN]
MailTypeOK ==
  /\ mailbox \in [Address -> Seq(Item)]
  /\ pulled \in [Mid -> Nat]
  /\ requests \in [leavers : SUBSET Address, prepare : Nat, get : Nat,
                   deactivate : Nat, send : Nat, read : Nat, expire : Nat,
                   restart : Nat]
  /\ seenMid \in [Address -> Seq(Mid)]
  /\ sending \in [Mid -> Nat] /\ accepted \in [Mid -> Nat]

\* A message is put in the mailbox of its recipient and in no other.
AtHome ==
  \A a \in Address : \A i \in 1..Len(mailbox[a]) :
    mailbox[a][i].what \in Mid => Dest[mailbox[a][i].what] = a

\* A message that is not forgotten is in one place, and remembered there.
Boxed(m) == \E i \in 1..Len(mailbox[Dest[m]]) : mailbox[Dest[m]][i].what = m
BoxedOnce(m) ==
  \A i, j \in 1..Len(mailbox[Dest[m]]) :
    mailbox[Dest[m]][i].what = m /\ mailbox[Dest[m]][j].what = m => i = j
InOnePlace(m) ==
  /\ ~Seen(m) => sending[m] = 0
  /\ ~Seen(m) \/ sending[m] > 0 => accepted[m] = 0
  /\ ~Seen(m) \/ sending[m] > 0 \/ accepted[m] > 0 => ~Boxed(m)
  /\ ~Seen(m) \/ sending[m] > 0 \/ accepted[m] > 0 \/ Boxed(m) => pulled[m] = 0
  /\ BoxedOnce(m)
  /\ sending[m] <= 1 /\ accepted[m] <= 1 /\ pulled[m] <= 1

OneDelivery == \A m \in Mid : m \notin forgotten => InOnePlace(m)
DeliveryInv == MailTypeOK /\ AtHome /\ OneDelivery

\* What is left of a queue when entries are taken from its front.
Keeps(p, q) ==
  \E k \in 0..Len(q) :
    /\ Len(p) = Len(q) - k
    /\ \A i \in 1..Len(p) : p[i].what = q[i + k].what

\* The queue from its entry k + 1 on.
LEMMA TailKeeps ==
  ASSUME NEW q \in Seq(Item), NEW k \in 0..Len(q)
  PROVE  LET p == SubSeq(q, k + 1, Len(q)) IN
         /\ p \in Seq(Item) /\ Len(p) = Len(q) - k /\ Keeps(p, q)
         /\ \A i \in 1..Len(p) : p[i] = q[i + k]
<1> DEFINE p == SubSeq(q, k + 1, Len(q))
<1>1. p \in Seq(Item) OBVIOUS
<1>2. Len(p) = Len(q) - k OBVIOUS
<1>3. \A i \in 1..Len(p) : p[i] = q[i + k]
  <2>1. \A i \in 1..Len(p) : p[i] = q[(k + 1) + i - 1] BY <1>2
  <2>2. \A i \in 1..Len(p) : (k + 1) + i - 1 = i + k BY <1>2
  <2> QED BY <2>1, <2>2
<1> HIDE DEF p
<1>4. Keeps(p, q) BY <1>2, <1>3 DEF Keeps
<1> QED BY <1>1, <1>2, <1>3, <1>4 DEF p

\* Pruning takes entries from the front, and none that lives.
LEMMA PrunedIsTail ==
  ASSUME NEW q \in Seq(Item)
  PROVE  \E k \in 0..Len(q) : Pruned(q) = SubSeq(q, k + 1, Len(q))
<1> DEFINE S == Live(q) \cup {Len(q) + 1}
<1>1. S \in SUBSET Nat /\ S # {} BY DEF Live
<1>2. PICK m \in S : \A n \in S : m <= n
  <2> HIDE DEF S
  <2> QED BY <1>1, LeastElement
<1>3. Min(S) \in S /\ \A n \in S : Min(S) <= n
  <2> HIDE DEF S
  <2> QED BY <1>2 DEF Min
<1>4. Min(S) \in 1..(Len(q) + 1) BY <1>3 DEF Live
<1>5. PICK x \in 1..(Len(q) + 1) : x = Min(S) BY <1>4
<1>6. Pruned(q) = SubSeq(q, x, Len(q)) BY <1>5 DEF Pruned
<1>7. x - 1 \in 0..Len(q) /\ x = (x - 1) + 1 BY <1>5
<1> QED BY <1>6, <1>7

\* A pruned queue is a queue, and keeps what is behind.
LEMMA PrunedKeeps ==
  ASSUME NEW q \in Seq(Item)
  PROVE  Pruned(q) \in Seq(Item) /\ Keeps(Pruned(q), q)
BY PrunedIsTail, TailKeeps

\* A mailbox from whose front entries are taken holds no other messages.
LEMMA BoxShrinks ==
  ASSUME MailTypeOK, NEW a \in Address, NEW p \in Seq(Item), Keeps(p, mailbox[a]),
         mailbox' = [mailbox EXCEPT ![a] = p]
  PROVE  /\ mailbox' \in [Address -> Seq(Item)]
         /\ AtHome => AtHome'
         /\ \A m \in Mid : /\ Boxed(m)' => Boxed(m)
                           /\ BoxedOnce(m) => BoxedOnce(m)'
<1>1. mailbox \in [Address -> Seq(Item)] BY DEF MailTypeOK
<1>2. mailbox' \in [Address -> Seq(Item)] BY <1>1
<1>3. mailbox'[a] = p /\ \A b \in Address : b # a => mailbox'[b] = mailbox[b]
  BY <1>1
<1>4. PICK k \in 0..Len(mailbox[a]) :
        /\ Len(p) = Len(mailbox[a]) - k
        /\ \A i \in 1..Len(p) : p[i].what = mailbox[a][i + k].what
  BY DEF Keeps
<1>5. Len(mailbox[a]) \in Nat /\ Len(p) \in Nat BY <1>1
<1>6. \A i \in 1..Len(p) : i + k \in 1..Len(mailbox[a]) BY <1>4, <1>5
<1>7. ASSUME AtHome PROVE AtHome'
  <2> SUFFICES ASSUME NEW b \in Address, NEW i \in 1..Len(mailbox'[b]),
                      mailbox'[b][i].what \in Mid
               PROVE  Dest[mailbox'[b][i].what] = b
    BY DEF AtHome
  <2>1. CASE b # a BY <1>3, <1>7, <2>1 DEF AtHome
  <2>2. CASE b = a
    <3>1. i \in 1..Len(p) /\ mailbox'[b][i].what = mailbox[a][i + k].what
      BY <1>3, <1>4, <2>2
    <3> QED BY <1>6, <1>7, <2>2, <3>1 DEF AtHome
  <2> QED BY <2>1, <2>2
<1>8. ASSUME NEW m \in Mid PROVE Boxed(m)' => Boxed(m)
  <2>1. Dest[m] \in Address BY MailAssumption
  <2>2. CASE Dest[m] # a BY <1>3, <2>1, <2>2 DEF Boxed
  <2>3. ASSUME Dest[m] = a, Boxed(m)' PROVE Boxed(m)
    <3>1. PICK i \in 1..Len(p) : p[i].what = m BY <1>3, <2>3 DEF Boxed
    <3>2. mailbox[a][i + k].what = m /\ i + k \in 1..Len(mailbox[a])
      BY <1>4, <1>6, <3>1
    <3> QED BY <2>3, <3>2 DEF Boxed
  <2> QED BY <2>2, <2>3
<1>9. ASSUME NEW m \in Mid, BoxedOnce(m) PROVE BoxedOnce(m)'
  <2>1. Dest[m] \in Address BY MailAssumption
  <2>2. CASE Dest[m] # a BY <1>3, <1>9, <2>1, <2>2 DEF BoxedOnce
  <2>3. CASE Dest[m] = a
    <3> SUFFICES ASSUME NEW i \in 1..Len(p), NEW j \in 1..Len(p),
                        p[i].what = m, p[j].what = m
                 PROVE  i = j
      BY <1>3, <2>3 DEF BoxedOnce
    <3>1. i + k = j + k BY <1>4, <1>6, <1>9, <2>3 DEF BoxedOnce
    <3> QED BY <3>1
  <2> QED BY <2>2, <2>3
<1> QED BY <1>2, <1>7, <1>8, <1>9

\* mailbox_put prunes the mailbox and adds the entry, if there is room.
LEMMA PutParts ==
  ASSUME MailTypeOK, NEW a \in Address, NEW what \in Mid \cup {"rcpt"},
         MailboxPut(a, what)
  PROVE  LET q == Pruned(mailbox[a])
             e == [what |-> what, expired |-> FALSE] IN
         /\ q \in Seq(Item) /\ Keeps(q, mailbox[a]) /\ e \in Item
         /\ \/ mailbox' = [mailbox EXCEPT ![a] = q]
            \/ HasRoom(a) /\ mailbox' = [mailbox EXCEPT ![a] = Append(q, e)]
<1>1. mailbox[a] \in Seq(Item) BY DEF MailTypeOK
<1>2. [what |-> what, expired |-> FALSE] \in Item BY DEF Item
<1>3. \/ mailbox' = [mailbox EXCEPT ![a] = Pruned(mailbox[a])]
      \/ /\ HasRoom(a)
         /\ mailbox' = [mailbox EXCEPT ![a] =
              Append(Pruned(mailbox[a]), [what |-> what, expired |-> FALSE])]
  BY DEF MailboxPut
<1> QED BY <1>1, <1>2, <1>3, PrunedKeeps

\* What a put changes: the mailboxes are still typed, what they hold is at home,
\* and no message is in a mailbox that was not, but the one that was put.
LEMMA PutKeeps ==
  ASSUME MailTypeOK, NEW a \in Address, NEW what \in Mid \cup {"rcpt"},
         what \in Mid => Dest[what] = a, MailboxPut(a, what)
  PROVE  /\ mailbox' \in [Address -> Seq(Item)]
         /\ AtHome => AtHome'
         /\ \A m \in Mid : m # what => /\ Boxed(m)' => Boxed(m)
                                       /\ BoxedOnce(m) => BoxedOnce(m)'
         /\ what \in Mid /\ BoxedOnce(what) /\ ~Boxed(what) => BoxedOnce(what)'
<1> DEFINE q == Pruned(mailbox[a])
           e == [what |-> what, expired |-> FALSE]
<1>1. q \in Seq(Item) /\ Keeps(q, mailbox[a]) /\ e \in Item /\ e.what = what
  BY PutParts
<1>2. \/ mailbox' = [mailbox EXCEPT ![a] = q]
      \/ mailbox' = [mailbox EXCEPT ![a] = Append(q, e)]
  BY PutParts
<1>3. mailbox \in [Address -> Seq(Item)] BY DEF MailTypeOK
<1> HIDE DEF q, e
<1>4. CASE mailbox' = [mailbox EXCEPT ![a] = q]
  BY <1>1, <1>4, BoxShrinks
<1>5. CASE mailbox' = [mailbox EXCEPT ![a] = Append(q, e)]
  <2> DEFINE p == Append(q, e)
             old == mailbox[a]
  <2>1. /\ Len(q) \in Nat /\ Len(p) = Len(q) + 1 /\ p \in Seq(Item)
        /\ \A i \in 1..Len(q) : p[i] = q[i]
        /\ p[Len(q) + 1] = e
        /\ \A i \in 1..Len(p) : i \in 1..Len(q) \/ i = Len(q) + 1
    BY <1>1
  <2>2. mailbox'[a] = p /\ \A b \in Address : b # a => mailbox'[b] = mailbox[b]
    BY <1>3, <1>5
  <2>3. mailbox' \in [Address -> Seq(Item)] BY <1>3, <1>5, <2>1
  <2>4. PICK k \in 0..Len(old) :
          /\ Len(q) = Len(old) - k
          /\ \A i \in 1..Len(q) : q[i].what = old[i + k].what
    BY <1>1 DEF Keeps
  <2>5. Len(old) \in Nat BY <1>3
  <2> HIDE DEF p, old
  <2>6. \A i \in 1..Len(q) : i + k \in 1..Len(old) /\ p[i].what = old[i + k].what
    <3>1. \A i \in 1..Len(q) : i + k \in 1..Len(old) BY <2>1, <2>4, <2>5
    <3>2. \A i \in 1..Len(q) : p[i].what = old[i + k].what BY <2>1, <2>4
    <3> QED BY <3>1, <3>2
  <2>7. ASSUME AtHome PROVE AtHome'
    <3> SUFFICES ASSUME NEW b \in Address, NEW i \in 1..Len(mailbox'[b]),
                        mailbox'[b][i].what \in Mid
                 PROVE  Dest[mailbox'[b][i].what] = b
      BY DEF AtHome
    <3>1. CASE b # a BY <2>2, <2>7, <3>1 DEF AtHome
    <3>2. CASE b = a
      <4>1. i \in 1..Len(p) BY <2>2, <3>2
      <4>2. CASE i \in 1..Len(q)
        <5>1. mailbox'[b][i].what = old[i + k].what /\ i + k \in 1..Len(old)
          BY <2>2, <2>6, <3>2, <4>2
        <5>2. \A x \in 1..Len(old) : old[x].what \in Mid => Dest[old[x].what] = a
          BY <2>7 DEF AtHome, old
        <5> QED BY <3>2, <5>1, <5>2
      <4>3. CASE i = Len(q) + 1 BY <1>1, <2>1, <2>2, <3>2, <4>3
      <4> QED BY <2>1, <4>1, <4>2, <4>3
    <3> QED BY <3>1, <3>2
  <2>8. ASSUME NEW m \in Mid, NEW i \in 1..Len(p), p[i].what = m, Dest[m] = a,
               m # what \/ ~Boxed(m)
        PROVE  \/ i \in 1..Len(q) /\ i + k \in 1..Len(old) /\ old[i + k].what = m
               \/ m = what /\ i = Len(q) + 1
    BY <1>1, <2>1, <2>6, <2>8
  <2>9. ASSUME NEW m \in Mid, m # what PROVE Boxed(m)' => Boxed(m)
    <3>1. Dest[m] \in Address BY MailAssumption
    <3>2. CASE Dest[m] # a BY <2>2, <3>1, <3>2 DEF Boxed
    <3>3. ASSUME Dest[m] = a, Boxed(m)' PROVE Boxed(m)
      <4>1. PICK i \in 1..Len(p) : p[i].what = m BY <2>2, <3>3 DEF Boxed
      <4>2. i + k \in 1..Len(old) /\ old[i + k].what = m BY <2>8, <2>9, <3>3, <4>1
      <4> QED BY <3>3, <4>2 DEF Boxed, old
    <3> QED BY <3>2, <3>3
  <2>10. ASSUME NEW m \in Mid, m # what \/ ~Boxed(m), BoxedOnce(m) PROVE BoxedOnce(m)'
    <3>1. Dest[m] \in Address BY MailAssumption
    <3>2. CASE Dest[m] # a BY <2>2, <2>10, <3>1, <3>2 DEF BoxedOnce
    <3>3. CASE Dest[m] = a
      <4> SUFFICES ASSUME NEW i \in 1..Len(p), NEW j \in 1..Len(p),
                          p[i].what = m, p[j].what = m
                   PROVE  i = j
        BY <2>2, <3>3 DEF BoxedOnce
      <4>1. \A x \in 1..Len(old) : old[x].what = m => m # what
        BY <2>10, <3>3 DEF Boxed, old
      <4>2. CASE m # what
        <5>1. i + k \in 1..Len(old) /\ old[i + k].what = m BY <2>8, <3>3, <4>2
        <5>2. j + k \in 1..Len(old) /\ old[j + k].what = m BY <2>8, <3>3, <4>2
        <5>3. i + k = j + k BY <2>10, <3>3, <5>1, <5>2 DEF BoxedOnce, old
        <5> QED BY <5>3
      <4>3. CASE m = what
        <5>1. i = Len(q) + 1 BY <2>8, <2>10, <3>3, <4>1, <4>3
        <5>2. j = Len(q) + 1 BY <2>8, <2>10, <3>3, <4>1, <4>3
        <5> QED BY <5>1, <5>2
      <4> QED BY <4>2, <4>3
    <3> QED BY <3>2, <3>3
  <2> QED BY <2>3, <2>7, <2>9, <2>10
<1> QED BY <1>2, <1>4, <1>5


\* How a message that stays in one place moves on: what an action must do to keep
\* it there, for a message m of which it says how the mailbox changes.
LEMMA OnePlaceKept ==
  ASSUME NEW m \in Mid, InOnePlace(m), Boxed(m)' => Boxed(m), BoxedOnce(m)',
         MailTypeOK, MailTypeOK', Seen(m) => Seen(m)',
         sending'[m] <= sending[m], accepted'[m] <= accepted[m], pulled'[m] = pulled[m]
  PROVE  InOnePlace(m)'
<1>1. /\ sending[m] \in Nat /\ accepted[m] \in Nat /\ pulled[m] \in Nat
      /\ sending'[m] \in Nat /\ accepted'[m] \in Nat
  BY DEF MailTypeOK
<1>2. sending'[m] > 0 => sending[m] > 0 BY <1>1
<1>3. accepted'[m] > 0 => accepted[m] > 0 BY <1>1
<1>4. sending'[m] <= 1 /\ accepted'[m] <= 1 /\ pulled'[m] <= 1
  BY <1>1 DEF InOnePlace
<1>5. /\ sending[m] = 0 => sending'[m] = 0
      /\ accepted[m] = 0 => accepted'[m] = 0
  BY <1>1
<1> QED BY <1>2, <1>3, <1>4, <1>5 DEF InOnePlace

\* What is not forgotten after a step of the table of messages seen is remembered.
LEMMA NotForgotten ==
  ASSUME Forgets, NEW m \in Mid, m \notin forgotten'
  PROVE  m \notin forgotten /\ (Seen(m) => Seen(m)')
BY DEF Forgets

\* A queue of a sender stays a queue when its oldest message goes.
LEMMA TailIsQueue ==
  ASSUME NEW q \in Seq(Mid), ~(Len(q) < SeenMax)
  PROVE  Tail(q) \in Seq(Mid)
<1>1. SeenMax \in Nat \ {0} BY MailAssumption
<1>2. q # <<>>
  <2>1. Len(q) \in Nat /\ Len(q) # 0 BY <1>1
  <2> QED BY <2>1
<1> QED BY <1>2

\* dedup_mid remembers the message it lets through.
LEMMA NoteKeeps ==
  ASSUME MailTypeOK, NEW n \in Mid, Note(n)
  PROVE  seenMid' \in [Address -> Seq(Mid)] /\ Seen(n)' /\ Forgets
<1> DEFINE a == From[n]
           full == Len(seenOrder) > SeenSenders /\ a \notin Range(seenOrder)
           table == IF full THEN [seenMid EXCEPT ![Head(seenOrder)] = <<>>] ELSE seenMid
           ids == IF Len(table[a]) < SeenMax THEN table[a] ELSE Tail(table[a])
<1>1. a \in Address BY MailAssumption
<1>2. seenMid' = [table EXCEPT ![a] = Append(ids, n)] /\ Forgets BY DEF Note
<1>3. table \in [Address -> Seq(Mid)]
  <2>1. seenMid \in [Address -> Seq(Mid)] BY DEF MailTypeOK
  <2>2. <<>> \in Seq(Mid) OBVIOUS
  <2> QED BY <2>1, <2>2
<1> HIDE DEF table, a
<1>4. ids \in Seq(Mid) BY <1>1, <1>3, TailIsQueue
<1> HIDE DEF ids
<1>5. /\ Append(ids, n) \in Seq(Mid)
      /\ Len(ids) + 1 \in 1..Len(Append(ids, n))
      /\ Append(ids, n)[Len(ids) + 1] = n
  BY <1>4
<1>6. seenMid' \in [Address -> Seq(Mid)] /\ seenMid'[a] = Append(ids, n)
  BY <1>1, <1>2, <1>3, <1>5
<1>7. n \in Range(seenMid'[a])
  <2>1. DOMAIN seenMid'[a] = 1..Len(seenMid'[a]) BY <1>5, <1>6
  <2> QED BY <1>5, <1>6, <2>1 DEF Range
<1>8. Seen(n)' BY <1>7 DEF Seen, a
<1> QED BY <1>2, <1>6, <1>8

\* Steps that change no mailbox and hand nothing over.
LEMMA QuietKeeps ==
  ASSUME DeliveryInv, UNCHANGED <<mailbox, seen, sending, accepted, pulled>>,
         MailTypeOK'
  PROVE  DeliveryInv'
<1>1. AtHome' BY DEF DeliveryInv, AtHome
<1>2. ASSUME NEW m \in Mid, m \notin forgotten' PROVE InOnePlace(m)'
  <2>1. InOnePlace(m) BY <1>2 DEF DeliveryInv, OneDelivery, seen
  <2> QED BY <2>1 DEF InOnePlace, Boxed, BoxedOnce, Seen, seen
<1> QED BY <1>1, <1>2 DEF DeliveryInv, OneDelivery

\* A request counts down its bound.
Kind == {"prepare", "get", "deactivate", "send", "read", "expire", "restart"}
LEMMA RequestKeeps ==
  ASSUME MailTypeOK, NEW kind \in Kind, Request(kind)
  PROVE     requests' \in [leavers : SUBSET Address, prepare : Nat, get : Nat,
                           deactivate : Nat, send : Nat, read : Nat, expire : Nat,
                           restart : Nat]
<1>1. requests \in [leavers : SUBSET Address, prepare : Nat, get : Nat,
                    deactivate : Nat, send : Nat, read : Nat, expire : Nat,
                    restart : Nat]
  BY DEF MailTypeOK
<1>2. requests[kind] > 0 /\ requests' = [requests EXCEPT ![kind] = @ - 1]
  BY DEF Request
<1>3. requests[kind] \in Nat BY <1>1 DEF Kind
<1>4. PICK n \in Nat : n = requests[kind] - 1 BY <1>2, <1>3
<1>5. requests' = [requests EXCEPT ![kind] = n] BY <1>2, <1>4
<1>6. kind # "leavers" BY DEF Kind
<1> QED BY <1>1, <1>5, <1>6 DEF Kind

LEMMA DeliveryInit == MailInit => DeliveryInv
<1> SUFFICES ASSUME MailInit PROVE DeliveryInv
  OBVIOUS
<1> USE DEF MailInit
<1>1. requests \in [leavers : SUBSET Address, prepare : Nat, get : Nat,
                    deactivate : Nat, send : Nat, read : Nat, expire : Nat,
                    restart : Nat]
  BY MailAssumption
<1>2. MailTypeOK BY <1>1 DEF MailTypeOK
<1>3. \A a \in Address : mailbox[a] = <<>> /\ Len(mailbox[a]) = 0 OBVIOUS
<1>4. AtHome BY <1>3 DEF AtHome
<1>5. ASSUME NEW m \in Mid PROVE InOnePlace(m)
  <2>1. Dest[m] \in Address BY MailAssumption
  <2>2. ~Boxed(m) /\ BoxedOnce(m) BY <1>3, <2>1 DEF Boxed, BoxedOnce
  <2>3. sending[m] = 0 /\ accepted[m] = 0 /\ pulled[m] = 0 OBVIOUS
  <2> HIDE DEF MailInit
  <2> QED BY <2>2, <2>3 DEF InOnePlace
<1> QED BY <1>2, <1>4, <1>5 DEF DeliveryInv, OneDelivery


-----------------------------------------------------------------------------
(* The steps of the relay *)

\* Requests about bundles and presence touch no message.
LEMMA BundleStepsKeep ==
  ASSUME DeliveryInv,
         \/ \E o \in Opk, kind \in {"register", "publish", "presence"} :
              Prepare(kind, o) \/ PutBundle(kind, o)
         \/ \E a \in Address : GetPrekey(a) \/ DeleteBundle(a) \/ CooldownOver(a)
  PROVE  DeliveryInv'
<1> USE DEF bundles, boxes, threads, senders, marks
<1>0. MailTypeOK BY DEF DeliveryInv
<1>1. ASSUME NEW o \in Opk, NEW kind, Prepare(kind, o) PROVE DeliveryInv'
  <2>1. /\ UNCHANGED <<mailbox, seen, sending, accepted, pulled>>
        /\ Request("prepare")
    BY <1>1 DEF Prepare
  <2>2. "prepare" \in Kind BY DEF Kind
  <2> QED BY <1>0, <2>1, <2>2, RequestKeeps, QuietKeeps DEF MailTypeOK, seen
<1>2. ASSUME NEW o \in Opk, NEW kind, PutBundle(kind, o) PROVE DeliveryInv'
  <2>1. UNCHANGED <<mailbox, seen, sending, accepted, pulled, requests>>
    BY <1>2 DEF PutBundle
  <2> QED BY <1>0, <2>1, QuietKeeps DEF MailTypeOK, seen
<1>3. ASSUME NEW a \in Address, GetPrekey(a) PROVE DeliveryInv'
  <2>1. /\ UNCHANGED <<mailbox, seen, sending, accepted, pulled>>
        /\ Request("get")
    BY <1>3 DEF GetPrekey
  <2>2. "get" \in Kind BY DEF Kind
  <2> QED BY <1>0, <2>1, <2>2, RequestKeeps, QuietKeeps DEF MailTypeOK, seen
<1>4. ASSUME NEW a \in Address, DeleteBundle(a) PROVE DeliveryInv'
  <2>1. /\ UNCHANGED <<mailbox, seen, sending, accepted, pulled>>
        /\ Request("deactivate")
    BY <1>4 DEF DeleteBundle
  <2>2. "deactivate" \in Kind BY DEF Kind
  <2> QED BY <1>0, <2>1, <2>2, RequestKeeps, QuietKeeps DEF MailTypeOK, seen
<1>5. ASSUME NEW a \in Address, CooldownOver(a) PROVE DeliveryInv'
  <2>1. UNCHANGED <<mailbox, seen, sending, accepted, pulled, requests>>
    BY <1>5 DEF CooldownOver
  <2> QED BY <1>0, <2>1, QuietKeeps DEF MailTypeOK, seen
<1> QED BY <1>1, <1>2, <1>3, <1>4, <1>5

\* A deactivation forgets the messages of its sender.
LEMMA ClearRamKeeps ==
  ASSUME DeliveryInv, NEW a \in Address, ClearRam(a)
  PROVE  DeliveryInv'
<1>1. MailTypeOK /\ AtHome BY DEF DeliveryInv
<1>2. /\ seenMid' = [seenMid EXCEPT ![a] = <<>>] /\ Forgets
      /\ mailbox' = [mailbox EXCEPT ![a] = <<>>]
      /\ UNCHANGED <<sending, accepted, pulled, requests>>
  BY DEF ClearRam, senders
<1>3. mailbox[a] \in Seq(Item) BY <1>1 DEF MailTypeOK
<1>4. <<>> \in Seq(Item) /\ Keeps(<<>>, mailbox[a])
  <2>1. Len(mailbox[a]) \in Nat BY <1>3
  <2> QED BY <2>1 DEF Keeps
<1>5. /\ mailbox' \in [Address -> Seq(Item)] /\ AtHome'
      /\ \A m \in Mid : (Boxed(m)' => Boxed(m)) /\ (BoxedOnce(m) => BoxedOnce(m)')
  BY <1>1, <1>2, <1>4, BoxShrinks
<1>6. MailTypeOK'
  <2>1. seenMid' \in [Address -> Seq(Mid)]
    <3>1. seenMid \in [Address -> Seq(Mid)] /\ <<>> \in Seq(Mid) BY <1>1 DEF MailTypeOK
    <3> QED BY <1>2, <3>1
  <2> QED BY <1>1, <1>2, <1>5, <2>1 DEF MailTypeOK
<1>7. ASSUME NEW m \in Mid, m \notin forgotten' PROVE InOnePlace(m)'
  <2>1. m \notin forgotten /\ (Seen(m) => Seen(m)') BY <1>2, <1>7, NotForgotten
  <2>2. InOnePlace(m) BY <2>1 DEF DeliveryInv, OneDelivery
  <2>3. BoxedOnce(m)' BY <1>5, <2>2 DEF InOnePlace
  <2>4. sending'[m] <= sending[m] /\ accepted'[m] <= accepted[m] /\ pulled'[m] = pulled[m]
    BY <1>1, <1>2 DEF MailTypeOK
  <2> QED BY <1>1, <1>5, <1>6, <2>1, <2>2, <2>3, <2>4, OnePlaceKept
<1> QED BY <1>5, <1>6, <1>7 DEF DeliveryInv, OneDelivery

\* What a request for message m does to the other messages is nothing.
LEMMA SendStepsKeep ==
  ASSUME DeliveryInv, NEW n \in Mid, DedupMid(n) \/ Accept(n) \/ Reject(n)
  PROVE  DeliveryInv'
<1>1. MailTypeOK /\ AtHome BY DEF DeliveryInv
<1>2. /\ UNCHANGED <<mailbox, pulled>>
      /\ Request("send") \/ UNCHANGED requests
  BY DEF DedupMid, Accept, Reject, boxes
<1>3. /\ requests' \in [leavers : SUBSET Address, prepare : Nat, get : Nat,
                         deactivate : Nat, send : Nat, read : Nat, expire : Nat,
                         restart : Nat]
      /\ mailbox' \in [Address -> Seq(Item)] /\ pulled' \in [Mid -> Nat]
  <2>1. "send" \in Kind BY DEF Kind
  <2> QED BY <1>1, <1>2, <2>1, RequestKeeps DEF MailTypeOK
<1>4. AtHome' BY <1>1, <1>2 DEF AtHome
<1>5. sending \in [Mid -> Nat] /\ accepted \in [Mid -> Nat] BY <1>1 DEF MailTypeOK
<1>6. \A m \in Mid : (Boxed(m)' <=> Boxed(m)) /\ (BoxedOnce(m)' <=> BoxedOnce(m))
  BY <1>2 DEF Boxed, BoxedOnce
<1>7. CASE DedupMid(n)
  <2>1. /\ ~Seen(n) /\ Note(n) /\ accepted' = accepted
        /\ sending' = [sending EXCEPT ![n] = @ + 1]
    BY <1>7 DEF DedupMid
  <2>2. seenMid' \in [Address -> Seq(Mid)] /\ Seen(n)' /\ Forgets
    BY <1>1, <2>1, NoteKeeps
  <2>3. sending' \in [Mid -> Nat] BY <1>5, <2>1
  <2>4. MailTypeOK' BY <1>3, <1>5, <2>1, <2>2, <2>3 DEF MailTypeOK
  <2>5. ASSUME NEW m \in Mid, m \notin forgotten' PROVE InOnePlace(m)'
    <3>1. m \notin forgotten /\ (Seen(m) => Seen(m)') BY <2>2, <2>5, NotForgotten
    <3>2. InOnePlace(m) BY <3>1 DEF DeliveryInv, OneDelivery
    <3>3. CASE m # n
      <4>1. sending'[m] <= sending[m] /\ accepted'[m] <= accepted[m]
        BY <1>5, <2>1, <3>3
      <4>2. BoxedOnce(m)' /\ pulled'[m] = pulled[m] /\ (Boxed(m)' => Boxed(m))
        BY <1>2, <1>6, <3>2 DEF InOnePlace
      <4> QED BY <1>1, <2>4, <3>1, <3>2, <4>1, <4>2, OnePlaceKept
    <3>4. CASE m = n
      <4>1. /\ sending[n] = 0 /\ accepted[n] = 0 /\ ~Boxed(n) /\ pulled[n] = 0
            /\ BoxedOnce(n)
        BY <2>1, <3>2, <3>4 DEF InOnePlace
      <4>2. /\ sending'[n] = 1 /\ accepted'[n] = 0 /\ ~Boxed(n)' /\ pulled'[n] = 0
            /\ BoxedOnce(n)'
        BY <1>2, <1>5, <1>6, <2>1, <4>1
      <4> QED BY <2>2, <3>4, <4>2 DEF InOnePlace
    <3> QED BY <3>3, <3>4
  <2> QED BY <1>4, <2>4, <2>5 DEF DeliveryInv, OneDelivery
<1>8. CASE Accept(n) \/ Reject(n)
  <2>1. /\ sending[n] > 0 /\ sending' = [sending EXCEPT ![n] = @ - 1]
        /\ UNCHANGED seen
        /\ \/ accepted' = [accepted EXCEPT ![n] = @ + 1]
           \/ accepted' = accepted
    BY <1>8 DEF Accept, Reject, marks
  <2>2. sending[n] \in Nat /\ sending[n] - 1 \in Nat
    <3>1. sending[n] \in Nat BY <1>5
    <3> QED BY <2>1, <3>1
  <2>3. sending' \in [Mid -> Nat] /\ sending'[n] = sending[n] - 1 BY <1>5, <2>1, <2>2
  <2>4. accepted' \in [Mid -> Nat] BY <1>5, <2>1
  <2>5. MailTypeOK' BY <1>1, <1>3, <2>1, <2>3, <2>4 DEF MailTypeOK, seen
  <2>6. ASSUME NEW m \in Mid, m \notin forgotten' PROVE InOnePlace(m)'
    <3>1. m \notin forgotten /\ (Seen(m)' <=> Seen(m)) BY <2>1, <2>6 DEF seen, Seen
    <3>2. InOnePlace(m) BY <3>1 DEF DeliveryInv, OneDelivery
    <3>3. CASE m # n
      <4>1. sending'[m] <= sending[m] /\ accepted'[m] <= accepted[m]
        BY <1>5, <2>1, <3>3
      <4>2. BoxedOnce(m)' /\ pulled'[m] = pulled[m] /\ (Boxed(m)' => Boxed(m))
        BY <1>2, <1>6, <3>2 DEF InOnePlace
      <4> QED BY <1>1, <2>5, <3>1, <3>2, <4>1, <4>2, OnePlaceKept
    <3>4. CASE m = n
      <4>1. sending[n] = 1
        BY <2>1, <2>2, <3>2, <3>4 DEF InOnePlace
      <4>2. /\ Seen(n) /\ accepted[n] = 0 /\ ~Boxed(n) /\ pulled[n] = 0
            /\ BoxedOnce(n)
        BY <2>1, <3>2, <3>4 DEF InOnePlace
      <4>3. /\ sending'[n] = 0 /\ accepted'[n] \in {0, 1} /\ ~Boxed(n)'
            /\ pulled'[n] = 0 /\ BoxedOnce(n)' /\ Seen(n)'
        BY <1>2, <1>5, <1>6, <2>1, <2>3, <3>1, <3>4, <4>1, <4>2
      <4> QED BY <3>4, <4>3 DEF InOnePlace
    <3> QED BY <3>3, <3>4
  <2> QED BY <1>4, <2>5, <2>6 DEF DeliveryInv, OneDelivery
<1> QED BY <1>7, <1>8

\* An accepted message is put in its mailbox, where it is not yet.
LEMMA QueueKeeps ==
  ASSUME DeliveryInv, NEW n \in Mid, Queue(n)
  PROVE  DeliveryInv'
<1>1. MailTypeOK /\ AtHome BY DEF DeliveryInv
<1>2. /\ accepted[n] > 0 /\ accepted' = [accepted EXCEPT ![n] = @ - 1]
      /\ MailboxPut(Dest[n], n)
      /\ UNCHANGED <<seen, sending, pulled, requests>>
  BY DEF Queue, marks
<1>3. Dest[n] \in Address BY MailAssumption
<1>4. /\ mailbox' \in [Address -> Seq(Item)] /\ AtHome'
      /\ \A m \in Mid : m # n => /\ Boxed(m)' => Boxed(m)
                                 /\ BoxedOnce(m) => BoxedOnce(m)'
      /\ BoxedOnce(n) /\ ~Boxed(n) => BoxedOnce(n)'
  BY <1>1, <1>2, <1>3, PutKeeps
<1>5. /\ accepted \in [Mid -> Nat] /\ accepted[n] \in Nat /\ accepted[n] - 1 \in Nat
  <2>1. accepted \in [Mid -> Nat] /\ accepted[n] \in Nat BY <1>1 DEF MailTypeOK
  <2> QED BY <1>2, <2>1
<1>6. accepted' \in [Mid -> Nat] /\ accepted'[n] = accepted[n] - 1 BY <1>2, <1>5
<1>7. MailTypeOK' BY <1>1, <1>2, <1>4, <1>6 DEF MailTypeOK, seen
<1>8. ASSUME NEW m \in Mid, m \notin forgotten' PROVE InOnePlace(m)'
  <2>1. m \notin forgotten /\ (Seen(m)' <=> Seen(m)) BY <1>2, <1>8 DEF seen, Seen
  <2>2. InOnePlace(m) BY <2>1 DEF DeliveryInv, OneDelivery
  <2>3. CASE m # n
    <3>1. BoxedOnce(m)' /\ (Boxed(m)' => Boxed(m)) BY <1>4, <2>2, <2>3 DEF InOnePlace
    <3>2. /\ sending'[m] <= sending[m] /\ accepted'[m] <= accepted[m]
          /\ pulled'[m] = pulled[m]
      BY <1>1, <1>2, <1>5, <2>3 DEF MailTypeOK
    <3> QED BY <1>1, <1>7, <2>1, <2>2, <3>1, <3>2, OnePlaceKept
  <2>4. CASE m = n
    <3>1. sending[n] \in Nat BY <1>1 DEF MailTypeOK
    <3>2. /\ Seen(n) /\ sending[n] = 0 /\ accepted[n] = 1 /\ ~Boxed(n)
          /\ pulled[n] = 0 /\ BoxedOnce(n)
      BY <1>2, <1>5, <2>2, <2>4, <3>1 DEF InOnePlace
    <3>3. /\ Seen(n)' /\ sending'[n] = 0 /\ accepted'[n] = 0 /\ pulled'[n] = 0
          /\ BoxedOnce(n)'
      BY <1>2, <1>4, <1>6, <2>1, <2>4, <3>2
    <3> QED BY <2>4, <3>3 DEF InOnePlace
  <2> QED BY <2>3, <2>4
<1> QED BY <1>4, <1>7, <1>8 DEF DeliveryInv, OneDelivery

\* Receipts take room, and no message's place.
LEMMA ReceiptStepsKeep ==
  ASSUME DeliveryInv, NEW n \in Mid, EnqueueRcpt(n) \/ ChatRead(n)
  PROVE  DeliveryInv'
<1>1. MailTypeOK /\ AtHome BY DEF DeliveryInv
<1>2. /\ MailboxPut(From[n], "rcpt")
      /\ UNCHANGED <<seen, sending, accepted, pulled>>
      /\ Request("read") \/ UNCHANGED requests
  BY DEF EnqueueRcpt, ChatRead, marks, threads, senders
<1>3. From[n] \in Address /\ "rcpt" \notin Mid BY MailAssumption
<1>4. /\ mailbox' \in [Address -> Seq(Item)] /\ AtHome'
      /\ \A m \in Mid : (Boxed(m)' => Boxed(m)) /\ (BoxedOnce(m) => BoxedOnce(m)')
  BY <1>1, <1>2, <1>3, PutKeeps
<1>5. MailTypeOK'
  <2>1. "read" \in Kind BY DEF Kind
  <2> QED BY <1>1, <1>2, <1>4, <2>1, RequestKeeps DEF MailTypeOK, seen
<1>6. ASSUME NEW m \in Mid, m \notin forgotten' PROVE InOnePlace(m)'
  <2>1. m \notin forgotten /\ (Seen(m)' <=> Seen(m)) BY <1>2, <1>6 DEF seen, Seen
  <2>2. InOnePlace(m) BY <2>1 DEF DeliveryInv, OneDelivery
  <2>3. BoxedOnce(m)' /\ (Boxed(m)' => Boxed(m)) BY <1>4, <2>2 DEF InOnePlace
  <2>4. sending'[m] <= sending[m] /\ accepted'[m] <= accepted[m] /\ pulled'[m] = pulled[m]
    BY <1>1, <1>2 DEF MailTypeOK
  <2> QED BY <1>1, <1>5, <2>1, <2>2, <2>3, <2>4, OnePlaceKept
<1> QED BY <1>4, <1>5, <1>6 DEF DeliveryInv, OneDelivery

\* Mailboxes from whose fronts entries are taken hold no other messages.
LEMMA BoxesShrink ==
  ASSUME MailTypeOK, mailbox' \in [Address -> Seq(Item)],
         \A a \in Address : Keeps(mailbox'[a], mailbox[a])
  PROVE  /\ AtHome => AtHome'
         /\ \A m \in Mid : /\ Boxed(m)' => Boxed(m)
                           /\ BoxedOnce(m) => BoxedOnce(m)'
<1>1. ASSUME NEW a \in Address
      PROVE  \E k \in Nat : \A i \in 1..Len(mailbox'[a]) :
                /\ i + k \in 1..Len(mailbox[a])
                /\ mailbox'[a][i].what = mailbox[a][i + k].what
  <2>1. PICK k \in 0..Len(mailbox[a]) :
          /\ Len(mailbox'[a]) = Len(mailbox[a]) - k
          /\ \A i \in 1..Len(mailbox'[a]) : mailbox'[a][i].what = mailbox[a][i + k].what
    BY DEF Keeps
  <2>2. Len(mailbox[a]) \in Nat BY DEF MailTypeOK
  <2>3. \A i \in 1..Len(mailbox'[a]) : i + k \in 1..Len(mailbox[a]) BY <2>1, <2>2
  <2>4. k \in Nat BY <2>1, <2>2
  <2> QED BY <2>1, <2>3, <2>4
<1>2. ASSUME AtHome PROVE AtHome'
  <2> SUFFICES ASSUME NEW b \in Address, NEW i \in 1..Len(mailbox'[b]),
                      mailbox'[b][i].what \in Mid
               PROVE  Dest[mailbox'[b][i].what] = b
    BY DEF AtHome
  <2>1. PICK k \in Nat : /\ i + k \in 1..Len(mailbox[b])
                         /\ mailbox'[b][i].what = mailbox[b][i + k].what
    BY <1>1
  <2> QED BY <1>2, <2>1 DEF AtHome
<1>3. ASSUME NEW m \in Mid PROVE Boxed(m)' => Boxed(m)
  <2>1. Dest[m] \in Address BY MailAssumption
  <2> SUFFICES ASSUME Boxed(m)' PROVE Boxed(m)
    OBVIOUS
  <2>2. PICK i \in 1..Len(mailbox'[Dest[m]]) : mailbox'[Dest[m]][i].what = m
    BY DEF Boxed
  <2>3. PICK k \in Nat : /\ i + k \in 1..Len(mailbox[Dest[m]])
                         /\ mailbox'[Dest[m]][i].what = mailbox[Dest[m]][i + k].what
    BY <1>1, <2>1
  <2> QED BY <2>2, <2>3 DEF Boxed
<1>4. ASSUME NEW m \in Mid, BoxedOnce(m) PROVE BoxedOnce(m)'
  <2>1. Dest[m] \in Address BY MailAssumption
  <2> SUFFICES ASSUME NEW i \in 1..Len(mailbox'[Dest[m]]),
                      NEW j \in 1..Len(mailbox'[Dest[m]]),
                      mailbox'[Dest[m]][i].what = m, mailbox'[Dest[m]][j].what = m
               PROVE  i = j
    BY DEF BoxedOnce
  <2>2. PICK k \in Nat : \A x \in 1..Len(mailbox'[Dest[m]]) :
                /\ x + k \in 1..Len(mailbox[Dest[m]])
                /\ mailbox'[Dest[m]][x].what = mailbox[Dest[m]][x + k].what
    BY <1>1, <2>1
  <2>3. i + k = j + k BY <1>4, <2>2 DEF BoxedOnce
  <2>4. mailbox'[Dest[m]] \in Seq(Item) BY <2>1
  <2>5. i \in Int /\ j \in Int BY <2>4
  <2> QED BY <2>3, <2>5
<1> QED BY <1>2, <1>3, <1>4

\* A collection takes entries from the front of every mailbox, and its cut of the
\* table of messages seen forgets what it drops.
LEMMA GcKeeps == DeliveryInv /\ GcMailboxes => DeliveryInv'
<1> SUFFICES ASSUME DeliveryInv, GcMailboxes PROVE DeliveryInv'
  OBVIOUS
<1>1. MailTypeOK /\ AtHome BY DEF DeliveryInv
<1>2. /\ mailbox' = [a \in Address |-> Pruned(mailbox[a])]
      /\ TrimSeen /\ Forgets
      /\ UNCHANGED <<sending, accepted, pulled, requests>>
  BY DEF GcMailboxes, TrimSeen, threads, senders
<1>3. \A a \in Address : mailbox[a] \in Seq(Item) BY <1>1 DEF MailTypeOK
<1>4. \A a \in Address : /\ mailbox'[a] \in Seq(Item)
                         /\ Keeps(mailbox'[a], mailbox[a])
  BY <1>2, <1>3, PrunedKeeps
<1>5. mailbox' \in [Address -> Seq(Item)]
  <2>1. mailbox' = [a \in Address |-> mailbox'[a]] BY <1>2
  <2> QED BY <1>4, <2>1
<1>6. /\ AtHome'
      /\ \A m \in Mid : (Boxed(m)' => Boxed(m)) /\ (BoxedOnce(m) => BoxedOnce(m)')
  BY <1>1, <1>4, <1>5, BoxesShrink
<1>7. seenMid' \in [Address -> Seq(Mid)]
  <2>1. seenMid \in [Address -> Seq(Mid)] /\ <<>> \in Seq(Mid) BY <1>1 DEF MailTypeOK
  <2> QED BY <1>2, <2>1 DEF TrimSeen
<1>8. MailTypeOK' BY <1>1, <1>2, <1>5, <1>7 DEF MailTypeOK
<1>9. ASSUME NEW m \in Mid, m \notin forgotten' PROVE InOnePlace(m)'
  <2>1. m \notin forgotten /\ (Seen(m) => Seen(m)') BY <1>2, <1>9, NotForgotten
  <2>2. InOnePlace(m) BY <2>1 DEF DeliveryInv, OneDelivery
  <2>3. BoxedOnce(m)' /\ (Boxed(m)' => Boxed(m)) BY <1>6, <2>2 DEF InOnePlace
  <2>4. sending'[m] <= sending[m] /\ accepted'[m] <= accepted[m] /\ pulled'[m] = pulled[m]
    BY <1>1, <1>2 DEF MailTypeOK
  <2> QED BY <1>1, <1>8, <2>1, <2>2, <2>3, <2>4, OnePlaceKept
<1> QED BY <1>6, <1>8, <1>9 DEF DeliveryInv, OneDelivery


\* An entry that expires stays where it is.
LEMMA ExpiresKeeps ==
  ASSUME DeliveryInv, NEW a \in Address, Expires(a)
  PROVE  DeliveryInv'
<1>1. MailTypeOK /\ AtHome BY DEF DeliveryInv
<1>2. /\ UNCHANGED <<seen, sending, accepted, pulled>>
      /\ Request("expire")
  BY DEF Expires, marks, threads, senders
<1>3. mailbox \in [Address -> Seq(Item)] BY <1>1 DEF MailTypeOK
<1> DEFINE q == mailbox[a]
<1>4. PICK i \in 1..Len(q) : mailbox' = [mailbox EXCEPT ![a][i].expired = TRUE]
  BY DEF Expires
<1> DEFINE p == [q EXCEPT ![i].expired = TRUE]
<1>5. mailbox' = [mailbox EXCEPT ![a] = p] BY <1>3, <1>4
<1>6. q \in Seq(Item) BY <1>3
<1>7. p \in Seq(Item) /\ Len(p) = Len(q) /\ \A j \in 1..Len(q) : p[j].what = q[j].what
  <2>1. q[i] \in Item BY <1>6
  <2>2. [q[i] EXCEPT !.expired = TRUE] \in Item /\
        [q[i] EXCEPT !.expired = TRUE].what = q[i].what
    BY <2>1 DEF Item
  <2> DEFINE e == [q[i] EXCEPT !.expired = TRUE]
  <2>3. p = [q EXCEPT ![i] = e] OBVIOUS
  <2>4. e \in Item /\ e.what = q[i].what BY <2>2
  <2> HIDE DEF p, q, e
  <2>5. p \in Seq(Item) /\ Len(p) = Len(q) BY <1>6, <2>3, <2>4
  <2>6. \A j \in 1..Len(q) : p[j] = IF j = i THEN e ELSE q[j] BY <1>6, <2>3
  <2> QED BY <2>4, <2>5, <2>6
<1> HIDE DEF p, q
<1>8. Keeps(p, q)
  <2>1. Len(q) \in Nat BY <1>6
  <2>2. 0 \in 0..Len(q) /\ Len(p) = Len(q) - 0 BY <1>7, <2>1
  <2>3. \A j \in 1..Len(p) : p[j].what = q[j + 0].what BY <1>7, <2>1
  <2> QED BY <2>2, <2>3 DEF Keeps
<1>9. /\ mailbox' \in [Address -> Seq(Item)] /\ AtHome'
      /\ \A m \in Mid : (Boxed(m)' => Boxed(m)) /\ (BoxedOnce(m) => BoxedOnce(m)')
  BY <1>1, <1>5, <1>7, <1>8, BoxShrinks DEF q
<1>10. MailTypeOK'
  <2>1. "expire" \in Kind BY DEF Kind
  <2> QED BY <1>1, <1>2, <1>9, <2>1, RequestKeeps DEF MailTypeOK, seen
<1>11. ASSUME NEW m \in Mid, m \notin forgotten' PROVE InOnePlace(m)'
  <2>1. m \notin forgotten /\ (Seen(m)' <=> Seen(m)) BY <1>2, <1>11 DEF seen, Seen
  <2>2. InOnePlace(m) BY <2>1 DEF DeliveryInv, OneDelivery
  <2>3. BoxedOnce(m)' /\ (Boxed(m)' => Boxed(m)) BY <1>9, <2>2 DEF InOnePlace
  <2>4. sending'[m] <= sending[m] /\ accepted'[m] <= accepted[m] /\ pulled'[m] = pulled[m]
    BY <1>1, <1>2 DEF MailTypeOK
  <2> QED BY <1>1, <1>10, <2>1, <2>2, <2>3, <2>4, OnePlaceKept
<1> QED BY <1>9, <1>10, <1>11 DEF DeliveryInv, OneDelivery

\* A pull takes the first entries of a mailbox, so a message that is handed over was
\* in it, and is not in it any more.
LEMMA PullKeeps ==
  ASSUME DeliveryInv, NEW a \in Address, NEW n \in 1..2, ChatPull(a, n)
  PROVE  DeliveryInv'
<1>1. MailTypeOK /\ AtHome BY DEF DeliveryInv
<1>2. mailbox \in [Address -> Seq(Item)] /\ pulled \in [Mid -> Nat]
  BY <1>1 DEF MailTypeOK
<1> DEFINE old == mailbox[a]
           q == Pruned(old)
           k == IF Len(q) < n THEN Len(q) ELSE n
           out == {q[i].what : i \in {j \in 1..k : ~q[j].expired}}
           p == SubSeq(q, k + 1, Len(q))
<1>3. /\ mailbox' = [mailbox EXCEPT ![a] = p]
      /\ pulled' = [m \in Mid |-> IF m \in out THEN pulled[m] + 1 ELSE pulled[m]]
      /\ UNCHANGED <<seen, sending, accepted, requests>>
  BY DEF ChatPull, threads, senders
<1>4. old \in Seq(Item) BY <1>2
<1> HIDE DEF old
<1>5. q \in Seq(Item) /\ Keeps(q, old) BY <1>4, PrunedKeeps
<1> HIDE DEF q
<1>6. Len(q) \in Nat /\ Len(old) \in Nat BY <1>4, <1>5
<1>7. k \in 0..Len(q) BY <1>6
<1> HIDE DEF k
<1>8. /\ p \in Seq(Item) /\ Len(p) = Len(q) - k
      /\ \A i \in 1..Len(p) : p[i] = q[i + k]
  BY <1>5, <1>7, TailKeeps
<1> HIDE DEF p
<1>9. PICK s \in 0..Len(old) :
        /\ Len(q) = Len(old) - s
        /\ \A i \in 1..Len(q) : q[i].what = old[i + s].what
  BY <1>5 DEF Keeps
<1>10. \A i \in 1..Len(q) : i + s \in 1..Len(old) BY <1>6, <1>9
<1>11. \A i \in 1..Len(p) : i + k \in 1..Len(q) /\ (i + k) + s \in 1..Len(old)
  BY <1>6, <1>7, <1>8, <1>10
<1>12. \A i \in 1..Len(p) : p[i].what = old[(i + k) + s].what
  BY <1>8, <1>9, <1>11
<1>13. Keeps(p, old)
  <2>1. k + s \in 0..Len(old) /\ Len(p) = Len(old) - (k + s) BY <1>6, <1>7, <1>8, <1>9
  <2>2. \A i \in 1..Len(p) : (i + k) + s = i + (k + s) BY <1>6, <1>7, <1>8
  <2>3. \A i \in 1..Len(p) : p[i].what = old[i + (k + s)].what BY <1>12, <2>2
  <2> HIDE DEF Item
  <2>4. PICK x \in 0..Len(old) : x = k + s BY <2>1
  <2> QED BY <2>1, <2>3, <2>4 DEF Keeps
<1>14. /\ mailbox' \in [Address -> Seq(Item)] /\ AtHome'
       /\ \A m \in Mid : (Boxed(m)' => Boxed(m)) /\ (BoxedOnce(m) => BoxedOnce(m)')
  BY <1>1, <1>3, <1>8, <1>13, BoxShrinks DEF old
<1>15. pulled' \in [Mid -> Nat]
  <2> HIDE DEF out
  <2> QED BY <1>2, <1>3
<1>16. MailTypeOK' BY <1>1, <1>3, <1>14, <1>15 DEF MailTypeOK, seen
<1>17. ASSUME NEW m \in Mid, m \notin forgotten' PROVE InOnePlace(m)'
  <2>0. m \notin forgotten /\ (Seen(m)' <=> Seen(m)) BY <1>3, <1>17 DEF seen, Seen
  <2>1. InOnePlace(m) BY <2>0 DEF DeliveryInv, OneDelivery
  <2>2. BoxedOnce(m)' /\ (Boxed(m)' => Boxed(m)) BY <1>14, <2>1 DEF InOnePlace
  <2>3. CASE m \notin out
    <3>1. pulled'[m] = pulled[m] BY <1>3, <2>3
    <3>2. sending'[m] <= sending[m] /\ accepted'[m] <= accepted[m]
      BY <1>1, <1>3 DEF MailTypeOK
    <3> QED BY <1>1, <1>16, <2>0, <2>1, <2>2, <3>1, <3>2, OnePlaceKept
  <2>4. CASE m \in out
    <3>1. PICK i \in 1..k : q[i].what = m BY <2>4
    <3>2. i \in 1..Len(q) BY <1>6, <1>7
    <3>3. i + s \in 1..Len(old) /\ old[i + s].what = m BY <1>9, <1>10, <3>1, <3>2
    <3>4. Dest[m] = a BY <1>1, <3>3 DEF AtHome, old
    <3>5. Boxed(m) BY <3>3, <3>4 DEF Boxed, old
    <3>6. pulled'[m] = pulled[m] + 1 /\ pulled[m] = 0
      BY <1>3, <2>1, <2>4, <3>5 DEF InOnePlace
    <3>7. ~Boxed(m)'
      <4>1. SUFFICES ASSUME NEW j \in 1..Len(p), p[j].what = m PROVE FALSE
        BY <1>2, <1>3, <3>4 DEF Boxed
      <4>2. (j + k) + s \in 1..Len(old) /\ old[(j + k) + s].what = m
        BY <1>11, <1>12, <4>1
      <4>3. (j + k) + s = i + s BY <2>1, <3>3, <3>4, <4>2 DEF InOnePlace, BoxedOnce, old
      <4> QED BY <1>6, <1>7, <1>8, <1>9, <4>3
    <3>8. /\ Seen(m)' /\ sending'[m] = sending[m] /\ accepted'[m] = accepted[m]
          /\ ~(sending[m] > 0) /\ ~(accepted[m] > 0)
      BY <1>3, <2>0, <2>1, <3>5 DEF InOnePlace
    <3>9. pulled'[m] <= 1 BY <3>6
    <3> QED BY <2>1, <2>2, <3>7, <3>8, <3>9 DEF InOnePlace
  <2> QED BY <2>3, <2>4
<1> QED BY <1>3, <1>14, <1>16, <1>17 DEF DeliveryInv, OneDelivery

\* A restart forgets every message, with what it was handed over.
LEMMA RestartKeeps == DeliveryInv /\ RestartNode => DeliveryInv'
<1> SUFFICES ASSUME DeliveryInv, RestartNode PROVE DeliveryInv'
  OBVIOUS
<1>1. MailTypeOK BY DEF DeliveryInv
<1>2. /\ mailbox' = [a \in Address |-> <<>>] /\ pulled' = [m \in Mid |-> 0]
      /\ sending' = [m \in Mid |-> 0] /\ accepted' = [m \in Mid |-> 0]
      /\ seenMid' = [a \in Address |-> <<>>] /\ Request("restart")
  BY DEF RestartNode
<1>3. MailTypeOK'
  <2>1. "restart" \in Kind BY DEF Kind
  <2> QED BY <1>1, <1>2, <2>1, RequestKeeps DEF MailTypeOK
<1>4. \A a \in Address : mailbox'[a] = <<>> /\ Len(mailbox'[a]) = 0 BY <1>2
<1>5. AtHome' BY <1>4 DEF AtHome
<1>6. ASSUME NEW m \in Mid PROVE InOnePlace(m)'
  <2>1. Dest[m] \in Address BY MailAssumption
  <2>2. ~Boxed(m)' /\ BoxedOnce(m)' BY <1>4, <2>1 DEF Boxed, BoxedOnce
  <2>3. sending'[m] = 0 /\ accepted'[m] = 0 /\ pulled'[m] = 0 BY <1>2
  <2> QED BY <2>2, <2>3 DEF InOnePlace
<1> QED BY <1>3, <1>5, <1>6 DEF DeliveryInv, OneDelivery

\* Every step keeps each message in one place.
LEMMA DeliveryStep == DeliveryInv /\ [MailNext]_mailVars => DeliveryInv'
<1> SUFFICES ASSUME DeliveryInv, [MailNext]_mailVars PROVE DeliveryInv'
  OBVIOUS
<1>1. CASE UNCHANGED mailVars
  <2>1. UNCHANGED <<mailbox, seen, sending, accepted, pulled, requests>>
    BY <1>1 DEF mailVars, seen
  <2>2. MailTypeOK' BY <2>1 DEF DeliveryInv, MailTypeOK, seen
  <2> QED BY <2>1, <2>2, QuietKeeps
<1>2. CASE MailNext
  BY <1>2, BundleStepsKeep, ClearRamKeeps, SendStepsKeep, QueueKeeps, ReceiptStepsKeep,
     GcKeeps, ExpiresKeeps, PullKeeps, RestartKeeps DEF MailNext
<1> QED BY <1>1, <1>2

\* chat_send, dedup_mid: however often a wallet sends a message again, and whatever
\* other requests go on, the message is handed over once by a run of the node, unless
\* the table of messages seen has dropped it: for a deactivation of its sender, for a
\* newer message of its sender, for another sender, or in a collection.
THEOREM DeliveredOnlyOnce == MailSpec => []DeliveredOnce
<1>1. DeliveryInv => DeliveredOnce
  BY DEF DeliveryInv, OneDelivery, DeliveredOnce, InOnePlace
<1> QED BY <1>1, DeliveryInit, DeliveryStep, PTL DEF MailSpec


-----------------------------------------------------------------------------
(* The count of entries *)

Lens == [a \in Address |-> Len(mailbox[a])]
CountInv == mailbox \in [Address -> Seq(Item)] /\ MailCount

\* The number of entries in all mailboxes.
LEMMA CountIsSum == SumFunction(Lens) = SumOver(Lens, Address)
BY DEF SumFunction, SumOver, Lens

\* Empty mailboxes count nothing.
LEMMA CountAtStart ==
  mailbox = [a \in Address |-> <<>>] /\ globalCount = 0 => CountInv
<1> SUFFICES ASSUME mailbox = [a \in Address |-> <<>>], globalCount = 0 PROVE CountInv
  OBVIOUS
<1>1. mailbox \in [Address -> Seq(Item)] OBVIOUS
<1> DEFINE zero == [a \in Address |-> 0]
<1>2. Lens = zero BY DEF Lens
<1>3. SumOver(zero, Address) = 0
  <2> DEFINE I == {n \in Nat : \A s \in SUBSET Address :
                                 Cardinality(s) = n => SumOver(zero, s) = 0}
  <2>1. 0 \in I
    <3>1. ASSUME NEW s \in SUBSET Address, Cardinality(s) = 0 PROVE s = {}
      BY <3>1, MailAssumption, FS_Subset, FS_EmptySet
    <3> QED BY <3>1, SumEmpty
  <2>2. ASSUME NEW n \in Nat, n \in I PROVE n + 1 \in I
    <3>1. ASSUME NEW s \in SUBSET Address, Cardinality(s) = n + 1
          PROVE  SumOver(zero, s) = 0
      <4>1. Cardinality(s) # 0 BY <3>1
      <4>2. PICK x \in s : TRUE BY <4>1, FS_EmptySet
      <4>3. IsFiniteSet(s) BY MailAssumption, FS_Subset
      <4>4. s \ {x} \in SUBSET Address /\ Cardinality(s \ {x}) = n
        <5>1. /\ s \ {x} \in SUBSET Address
              /\ Cardinality(s \ {x}) = Cardinality(s) - 1
          BY <4>2, MailAssumption, SmallerSubset
        <5> QED BY <3>1, <5>1
      <4>5. \A y \in s : zero[y] = 0 OBVIOUS
      <4>6. SumOver(zero, s \ {x}) = 0
        <5> HIDE DEF zero
        <5> QED BY <2>2, <4>4
      <4> HIDE DEF zero
      <4>7. \A y \in s : zero[y] \in Int BY <4>5
      <4>8. SumOver(zero, s) = zero[x] + SumOver(zero, s \ {x})
        BY <4>2, <4>3, <4>7, SumPick
      <4> QED BY <4>2, <4>5, <4>6, <4>8
    <3> QED BY <3>1
  <2> HIDE DEF I, zero
  <2>3. Nat \subseteq I BY <2>1, <2>2, SetInduction
  <2>4. Cardinality(Address) \in I /\ Address \in SUBSET Address
    BY <2>3, MailAssumption, FS_CardinalityType
  <2> QED BY <2>4 DEF I
<1>4. SumFunction(Lens) = 0 BY <1>2, <1>3, CountIsSum
<1> QED BY <1>1, <1>4 DEF CountInv, MailCount, Lens

\* One mailbox is no larger than all.
LEMMA OneOfAll ==
  ASSUME mailbox \in [Address -> Seq(Item)], NEW a \in Address
  PROVE  /\ SumFunction(Lens) \in Int
         /\ Len(mailbox[a]) \in Nat
         /\ Len(mailbox[a]) <= SumFunction(Lens)
<1>1. \A b \in Address : Lens[b] = Len(mailbox[b]) /\ Lens[b] \in Nat BY DEF Lens
<1>2. IsFiniteSet(Address) /\ IsFiniteSet(Address \ {a})
  BY MailAssumption, FS_RemoveElement
<1>3. \A b \in Address : Lens[b] \in Int BY <1>1
<1>4. /\ SumOver(Lens, Address) \in Int
      /\ SumOver(Lens, Address \ {a}) \in Int
      /\ SumOver(Lens, Address) = Lens[a] + SumOver(Lens, Address \ {a})
  BY <1>2, <1>3, SumPick
<1>5. SumOver(Lens, Address \ {a}) >= 0
  <2>1. \A b \in Address \ {a} : Lens[b] \in Int /\ Lens[b] = Lens[b] /\ Lens[b] >= 0
    BY <1>1
  <2> QED BY <1>2, <2>1, SumSame
<1>6. Lens[a] = Len(mailbox[a]) /\ Lens[a] \in Nat BY <1>1
<1> QED BY <1>4, <1>5, <1>6, CountIsSum

\* When one mailbox changes, the number changes as its length does.
LEMMA CountChanges ==
  ASSUME mailbox \in [Address -> Seq(Item)], NEW a \in Address, NEW p \in Seq(Item),
         mailbox' = [mailbox EXCEPT ![a] = p]
  PROVE  /\ mailbox' \in [Address -> Seq(Item)]
         /\ SumFunction(Lens)' = SumFunction(Lens) - Len(mailbox[a]) + Len(p)
<1>1. mailbox' \in [Address -> Seq(Item)] OBVIOUS
<1>2. mailbox'[a] = p /\ \A b \in Address : b # a => mailbox'[b] = mailbox[b] OBVIOUS
<1>3. \A b \in Address : Lens[b] = Len(mailbox[b]) /\ Lens[b] \in Int BY DEF Lens
<1>4. \A b \in Address : Lens'[b] = Len(mailbox'[b]) /\ Lens'[b] \in Int
  BY <1>1 DEF Lens
<1>5. \A b \in Address \ {a} : Lens'[b] = Lens[b] BY <1>2, <1>3, <1>4
<1>6. \A b \in Address : Lens[b] \in Int /\ Lens'[b] \in Int BY <1>3, <1>4
<1>7. SumOver(Lens', Address) = SumOver(Lens, Address) - Lens[a] + Lens'[a]
  BY <1>5, <1>6, MailAssumption, SumChange
<1>8. SumFunction(Lens)' = SumOver(Lens', Address)
  BY DEF SumFunction, SumOver, Lens
<1>9. Lens[a] = Len(mailbox[a]) /\ Lens'[a] = Len(p) BY <1>2, <1>3, <1>4
<1> QED BY <1>1, <1>7, <1>8, <1>9, CountIsSum

\* A step that changes one mailbox, and the count by as much, keeps the count.
LEMMA CountFollows ==
  ASSUME CountInv, NEW a \in Address, NEW p \in Seq(Item),
         mailbox' = [mailbox EXCEPT ![a] = p],
         globalCount' = globalCount - Len(mailbox[a]) + Len(p)
  PROVE  CountInv'
<1>1. mailbox \in [Address -> Seq(Item)] /\ globalCount = SumFunction(Lens)
  BY DEF CountInv, MailCount, Lens
<1>2. /\ mailbox' \in [Address -> Seq(Item)]
      /\ SumFunction(Lens)' = SumFunction(Lens) - Len(mailbox[a]) + Len(p)
  BY <1>1, CountChanges
<1>3. globalCount' = SumFunction(Lens)' BY <1>1, <1>2
<1> QED BY <1>2, <1>3 DEF CountInv, MailCount, Lens

\* A put counts what it adds and what it prunes.
LEMMA CountPut ==
  ASSUME CountInv, NEW a \in Address, NEW what \in Mid \cup {"rcpt"},
         MailboxPut(a, what)
  PROVE  CountInv'
<1> DEFINE q == Pruned(mailbox[a])
           e == [what |-> what, expired |-> FALSE]
           new == IF HasRoom(a) THEN Append(q, e) ELSE q
<1>1. mailbox[a] \in Seq(Item) BY DEF CountInv
<1>2. q \in Seq(Item) BY <1>1, PrunedKeeps
<1>3. e \in Item BY DEF Item
<1>4. new \in Seq(Item)
  <2> HIDE DEF q, e
  <2> QED BY <1>2, <1>3
<1>5. /\ mailbox' = [mailbox EXCEPT ![a] = new]
      /\ globalCount' = globalCount - Len(mailbox[a]) + Len(new)
  BY DEF MailboxPut
<1> HIDE DEF new
<1> QED BY <1>4, <1>5, CountFollows

\* A pull counts what it prunes and what it hands over.
LEMMA CountPull ==
  ASSUME CountInv, NEW a \in Address, NEW n \in 1..2, ChatPull(a, n)
  PROVE  CountInv'
<1> DEFINE old == mailbox[a]
           q == Pruned(old)
           k == IF Len(q) < n THEN Len(q) ELSE n
           p == SubSeq(q, k + 1, Len(q))
<1>1. /\ mailbox' = [mailbox EXCEPT ![a] = p]
      /\ globalCount' = globalCount - Len(old) + Len(q) - k
  BY DEF ChatPull
<1>2. old \in Seq(Item) BY DEF CountInv
<1> HIDE DEF old
<1>3. q \in Seq(Item) BY <1>2, PrunedKeeps
<1> HIDE DEF q
<1>4. Len(q) \in Nat /\ k \in 0..Len(q) BY <1>3
<1> HIDE DEF k
<1>5. p \in Seq(Item) /\ Len(p) = Len(q) - k BY <1>3, <1>4, TailKeeps
<1> HIDE DEF p
<1>6. globalCount \in Int /\ Len(old) \in Nat
  BY <1>2, OneOfAll DEF CountInv, MailCount, Lens
<1>7. globalCount - Len(old) + Len(q) - k = globalCount - Len(old) + Len(p)
  BY <1>4, <1>5, <1>6
<1> QED BY <1>1, <1>5, <1>7, CountFollows DEF old

\* A deactivation takes its mailbox out of the count, which is never below it: the
\* maximum with 0 in the code is idle.
LEMMA CountClear ==
  ASSUME CountInv, NEW a \in Address, ClearRam(a)
  PROVE  CountInv'
<1>1. /\ mailbox' = [mailbox EXCEPT ![a] = <<>>]
      /\ globalCount' = IF globalCount < Len(mailbox[a]) THEN 0
                        ELSE globalCount - Len(mailbox[a])
  BY DEF ClearRam
<1>2. /\ globalCount \in Int /\ Len(mailbox[a]) \in Nat
      /\ Len(mailbox[a]) <= globalCount
  BY OneOfAll DEF CountInv, MailCount, Lens
<1>3. globalCount' = globalCount - Len(mailbox[a]) + Len(<<>>)
  <2>1. globalCount' = globalCount - Len(mailbox[a])
    <3>1. ~(globalCount < Len(mailbox[a])) BY <1>2
    <3> QED BY <1>1, <3>1
  <2>2. Len(<<>>) = 0 OBVIOUS
  <2> QED BY <1>2, <2>1, <2>2
<1>4. <<>> \in Seq(Item) OBVIOUS
<1> QED BY <1>1, <1>3, <1>4, CountFollows

\* An entry that expires is still counted.
LEMMA CountExpires ==
  ASSUME CountInv, NEW a \in Address, Expires(a)
  PROVE  CountInv'
<1>1. mailbox \in [Address -> Seq(Item)] BY DEF CountInv
<1> DEFINE q == mailbox[a]
<1>2. PICK i \in 1..Len(q) : mailbox' = [mailbox EXCEPT ![a][i].expired = TRUE]
  BY DEF Expires
<1> DEFINE e == [q[i] EXCEPT !.expired = TRUE]
           p == [q EXCEPT ![i] = e]
<1>3. mailbox' = [mailbox EXCEPT ![a] = p] BY <1>1, <1>2
<1>4. q \in Seq(Item) BY <1>1
<1>5. e \in Item
  <2>1. q[i] \in Item BY <1>4
  <2> QED BY <2>1 DEF Item
<1>6. globalCount' = globalCount BY DEF Expires
<1>7. globalCount \in Int /\ Len(q) \in Nat
  BY OneOfAll DEF CountInv, MailCount, Lens
<1> HIDE DEF e, q
<1>8. p \in Seq(Item) /\ Len(p) = Len(q) BY <1>4, <1>5
<1> HIDE DEF p
<1>9. globalCount' = globalCount - Len(q) + Len(p) BY <1>6, <1>7, <1>8
<1> QED BY <1>3, <1>8, <1>9, CountFollows DEF q

\* The sum of differences is the difference of the sums.
LEMMA SumMinus ==
  ASSUME NEW S, IsFiniteSet(S), NEW f, NEW d, NEW h,
         \A x \in S : f[x] \in Int /\ d[x] \in Int /\ h[x] = f[x] - d[x]
  PROVE  SumOver(h, S) = SumOver(f, S) - SumOver(d, S)
<1> DEFINE Splits(s) == SumOver(h, s) = SumOver(f, s) - SumOver(d, s)
           I == {n \in Nat : \A s \in SUBSET S : Cardinality(s) = n => Splits(s)}
<1>1. \A x \in S : h[x] \in Int OBVIOUS
<1>2. 0 \in I
  <2>1. ASSUME NEW s \in SUBSET S, Cardinality(s) = 0 PROVE Splits(s)
    <3>1. s = {} BY <2>1, FS_Subset, FS_EmptySet
    <3> QED BY <3>1, SumEmpty
  <2> HIDE DEF Splits
  <2> QED BY <2>1
<1>3. ASSUME NEW n \in Nat, n \in I PROVE n + 1 \in I
  <2>1. ASSUME NEW s \in SUBSET S, Cardinality(s) = n + 1 PROVE Splits(s)
    <3>1. Cardinality(s) # 0 BY <2>1
    <3>2. PICK x \in s : TRUE BY <3>1, FS_EmptySet
    <3>3. IsFiniteSet(s) BY FS_Subset
    <3>4. s \ {x} \in SUBSET S /\ Cardinality(s \ {x}) = n
      <4>1. s \ {x} \in SUBSET S /\ Cardinality(s \ {x}) = Cardinality(s) - 1
        BY <3>2, SmallerSubset
      <4> QED BY <2>1, <4>1
    <3>5. Splits(s \ {x})
      <4> HIDE DEF Splits
      <4> QED BY <1>3, <3>4
    <3>6. \A y \in s : f[y] \in Int /\ d[y] \in Int /\ h[y] \in Int BY <1>1
    <3>7. /\ SumOver(f, s) = f[x] + SumOver(f, s \ {x}) /\ SumOver(f, s \ {x}) \in Int
      BY <3>2, <3>3, <3>6, SumPick
    <3>8. /\ SumOver(d, s) = d[x] + SumOver(d, s \ {x}) /\ SumOver(d, s \ {x}) \in Int
      BY <3>2, <3>3, <3>6, SumPick
    <3>9. SumOver(h, s) = h[x] + SumOver(h, s \ {x})
      BY <3>2, <3>3, <3>6, SumPick
    <3>10. h[x] = f[x] - d[x] /\ f[x] \in Int /\ d[x] \in Int BY <3>2
    <3> QED BY <3>5, <3>7, <3>8, <3>9, <3>10
  <2> HIDE DEF Splits
  <2> QED BY <2>1
<1> HIDE DEF I, Splits
<1>4. Nat \subseteq I BY <1>2, <1>3, SetInduction
<1>5. Cardinality(S) \in I /\ S \in SUBSET S BY <1>4, FS_CardinalityType
<1> QED BY <1>5 DEF I, Splits

\* A collection takes out of the count what it takes out of all mailboxes.
LEMMA CountGc ==
  ASSUME CountInv, GcMailboxes
  PROVE  CountInv'
<1> DEFINE gone == [a \in Address |-> Len(mailbox[a]) - Len(Pruned(mailbox[a]))]
<1>1. /\ mailbox' = [a \in Address |-> Pruned(mailbox[a])]
      /\ globalCount' = globalCount - SumFunction(gone)
  BY DEF GcMailboxes
<1>2. \A a \in Address : mailbox[a] \in Seq(Item) /\ Pruned(mailbox[a]) \in Seq(Item)
  BY PrunedKeeps DEF CountInv
<1>3. mailbox' \in [Address -> Seq(Item)] BY <1>1, <1>2
<1>4. SumFunction(gone) = SumOver(gone, Address) BY DEF SumFunction, SumOver
<1>5. \A a \in Address : /\ Lens[a] = Len(mailbox[a]) /\ Lens[a] \in Int
                         /\ Lens'[a] = Len(Pruned(mailbox[a])) /\ Lens'[a] \in Int
  BY <1>1, <1>2 DEF Lens
<1>6. \A a \in Address : gone[a] = Lens[a] - Lens'[a] /\ gone[a] \in Int
  <2> SUFFICES ASSUME NEW a \in Address
               PROVE  gone[a] = Lens[a] - Lens'[a] /\ gone[a] \in Int
    OBVIOUS
  <2>1. gone[a] = Len(mailbox[a]) - Len(Pruned(mailbox[a])) OBVIOUS
  <2>2. PICK x \in Int, y \in Int : /\ x = Lens[a] /\ y = Lens'[a]
                                   /\ x = Len(mailbox[a])
                                   /\ y = Len(Pruned(mailbox[a]))
    BY <1>5
  <2> HIDE DEF gone
  <2>3. gone[a] = x - y BY <2>1, <2>2
  <2> QED BY <2>2, <2>3
<1> HIDE DEF gone
<1>7. \A a \in Address : Lens'[a] = Lens[a] - gone[a] BY <1>5, <1>6
<1>8. SumOver(Lens', Address) = SumOver(Lens, Address) - SumOver(gone, Address)
  BY <1>5, <1>6, <1>7, MailAssumption, SumMinus
<1>9. SumFunction(Lens)' = SumOver(Lens', Address)
  BY DEF SumFunction, SumOver, Lens
<1>10. globalCount = SumFunction(Lens) BY DEF CountInv, MailCount, Lens
<1>11. globalCount' = SumFunction(Lens)' BY <1>1, <1>4, <1>8, <1>9, <1>10, CountIsSum
<1> QED BY <1>3, <1>11 DEF CountInv, MailCount, Lens

\* Every step keeps the count.
LEMMA CountStep == CountInv /\ [MailNext]_mailVars => CountInv'
<1> SUFFICES ASSUME CountInv, [MailNext]_mailVars PROVE CountInv'
  OBVIOUS
<1>1. CASE UNCHANGED boxes BY <1>1 DEF boxes, CountInv, MailCount
<1>2. ASSUME NEW o \in Opk, NEW kind, Prepare(kind, o) \/ PutBundle(kind, o)
      PROVE  UNCHANGED boxes
  BY <1>2 DEF Prepare, PutBundle, boxes
<1>3. ASSUME NEW a \in Address, GetPrekey(a) \/ DeleteBundle(a) \/ CooldownOver(a)
      PROVE  UNCHANGED boxes
  BY <1>3 DEF GetPrekey, DeleteBundle, CooldownOver, boxes
<1>4. ASSUME NEW m \in Mid, DedupMid(m) \/ Accept(m) \/ Reject(m)
      PROVE  UNCHANGED boxes
  BY <1>4 DEF DedupMid, Accept, Reject, boxes
<1>5. ASSUME NEW m \in Mid, Queue(m) \/ EnqueueRcpt(m) \/ ChatRead(m) PROVE CountInv'
  <2>1. From[m] \in Address /\ Dest[m] \in Address BY MailAssumption
  <2>2. MailboxPut(Dest[m], m) \/ MailboxPut(From[m], "rcpt")
    BY <1>5 DEF Queue, EnqueueRcpt, ChatRead
  <2> QED BY <2>1, <2>2, CountPut
<1>6. CASE GcMailboxes BY <1>6, CountGc
<1>7. CASE RestartNode
  <2>1. mailbox' = [a \in Address |-> <<>>] /\ globalCount' = 0
    BY <1>7 DEF RestartNode
  <2>2. (mailbox = [a \in Address |-> <<>>] /\ globalCount = 0 => CountInv)'
    BY CountAtStart, PTL
  <2> QED BY <2>1, <2>2
<1>8. CASE UNCHANGED mailVars BY <1>1, <1>8 DEF mailVars, boxes
<1> QED
  BY <1>1, <1>2, <1>3, <1>4, <1>5, <1>6, <1>7, <1>8, CountPull, CountClear, CountExpires
  DEF MailNext

\* mailbox_put, mailbox_pull, gc_mailboxes, chat_deactivate: the count each of them
\* adjusts by itself is the number of entries in all mailboxes, so the bound on all
\* queues is neither passed nor shut by a count that is off.
THEOREM CountIsRight == MailSpec => []MailCount
<1>1. MailInit => CountInv
  <2>1. MailInit => mailbox = [a \in Address |-> <<>>] /\ globalCount = 0
    BY DEF MailInit
  <2> QED BY <2>1, CountAtStart
<1>2. CountInv => MailCount BY DEF CountInv
<1> QED BY <1>1, <1>2, CountStep, PTL DEF MailSpec
=============================================================================
