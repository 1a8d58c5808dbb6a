------------------------------ MODULE Archivist ------------------------------
(***************************************************************************)
(* A storage node: the uploads wallets make (wallet_route.py), the index   *)
(* and the blobs of the files it holds (server_archivist.py,               *)
(* database_archivist.py), and the threads of its orchestrator, which mark *)
(* files paid, prove every epoch that it still holds them and ask the node *)
(* it is connected to for their payouts.                                   *)
(*                                                                         *)
(* An artwork is uploaded under one graffiti_id, so entries are kept under *)
(* the artwork.  Every handler ends by saving the index, which clears it   *)
(* and writes it again: a restart finds it whole or, when the process died *)
(* in between, empty.  Chunks, sizes, quotas and the rate limits are left  *)
(* out; pools are taken to be funded.                                      *)
(***************************************************************************)
EXTENDS Integers

CONSTANTS Artwork,      \* the artworks wallets upload
          ArchBounds    \* how far behaviours go: records with the fields
                        \*   epochs     how many proof epochs the chain enters
                        \*   uploads    how many uploads wallets start
                        \*   restarts   how often the archivist restarts
                        \*   failures   how many proofs are not submitted
                        \*   losses     how many payout answers do not arrive

VARIABLES file,         \* the index: what it says of each artwork
          blob,         \* the files on disk: [part, bin, final]
          posted,       \* the artworks posted on chain
          epoch,        \* the proof epoch of the node's tip
          paidEpoch,    \* per artwork: the last epoch the ledger paid
          listed,       \* per artwork: paidEpoch as last listed, NotListed before
          proving,      \* the proof on its way to the node
          proven,       \* per artwork: the latest proof the node recorded
          asking,       \* the payout request on its way to the node
          guard,        \* per artwork: the payout guard, as saved
          built,        \* per artwork: the epochs whose payout the node built
          twice,        \* per artwork: those it built more than once
          unheard,      \* per artwork: those whose payout was built and whose
                        \* answer the archivist did not get
          late,         \* what was asked in requests given up (not how often)
                        \* that the node may still handle
          archLeft      \* what remains of the bounds

archVars == << file, blob, posted, epoch, paidEpoch, listed, proving, proven,
               asking, guard, built, twice, unheard, late, archLeft >>
payouts == << built, twice, unheard, late >>

None == -1                      \* no epoch
NotListed == -2
NoFile == [state |-> "none", paid |-> FALSE, art |-> FALSE, root |-> FALSE,
           deadline |-> FALSE, proof |-> None]
NoBlob == [part |-> "none", bin |-> FALSE, final |-> "none"]
NoProof == [art |-> "none", epoch |-> None, was |-> None]
NoAsk == [art |-> "none", epoch |-> None, at |-> "none", again |-> FALSE]

\* One unit of a bound is used up.
Spend(b) == archLeft[b] > 0 /\ archLeft' = [archLeft EXCEPT ![b] = @ - 1]

----------------------------------------------------------------------------
(* Uploads.                                                                *)

\* The artwork is held for good under the same hash and Merkle root.
PermanentDuplicate(a) ==
    /\ file[a].art /\ file[a].root
    /\ file[a].state = "stored" \/ file[a].paid \/ blob[a].final # "none"

\* STOR_INIT: the entry is made anew and its part file emptied.
StorInit(a) ==
    /\ ~ PermanentDuplicate(a)
    /\ Spend("uploads")
    /\ file' = [file EXCEPT ![a] = [NoFile EXCEPT !.state = "receiving",
                                                  !.art = TRUE, !.root = TRUE]]
    /\ blob' = [blob EXCEPT ![a].part = "some"]
    /\ UNCHANGED << posted, epoch, paidEpoch, listed, proving, proven, asking,
                    guard, payouts >>

\* STOR_PUT: the last chunk completes the part file.
StorPut(a) ==
    /\ file[a].state \in {"receiving", "appending"}
    /\ blob[a].part = "some"
    /\ file' = [file EXCEPT ![a].state = "appending"]
    /\ blob' = [blob EXCEPT ![a].part = "whole"]
    /\ UNCHANGED << posted, epoch, paidEpoch, listed, proving, proven, asking,
                    guard, payouts, archLeft >>

\* The file the entry points at, or else what is found under "incoming".
Committed(a) ==
    CASE file[a].state \in {"receiving", "appending"} /\ blob[a].part # "none"
                                                              -> "part"
      [] file[a].state = "stored" /\ blob[a].final # "none"   -> "final"
      [] OTHER -> IF blob[a].bin THEN "bin"
                  ELSE IF blob[a].part # "none" THEN "part" ELSE "none"

Whole(a, which) == \/ which = "bin"
                   \/ which = "part" /\ blob[a].part = "whole"
                   \/ which = "final" /\ blob[a].final = "whole"

\* STOR_COMMIT: the file is verified and moved to incoming/<gid>.bin; what
\* does not verify is deleted with its entry.  A commit repeated after the
\* file was stored moves it out of the blobs again.
StorCommit(a) ==
    /\ file[a].state # "none"
    /\ LET which == Committed(a)
           moved == [blob[a] EXCEPT !.part = IF which = "part" THEN "none" ELSE @,
                                    !.final = IF which = "final" THEN "none" ELSE @]
       IN  IF Whole(a, which)
           THEN /\ blob' = [blob EXCEPT ![a] = [moved EXCEPT !.bin = TRUE]]
                /\ file' = [file EXCEPT ![a].state = "pending_confirm",
                                        ![a].deadline = @ \/ ~ file[a].paid]
           ELSE /\ blob' = [blob EXCEPT ![a] = moved]
                /\ file' = [file EXCEPT ![a] = NoFile]
    /\ UNCHANGED << posted, epoch, paidEpoch, listed, proving, proven, asking,
                    guard, payouts, archLeft >>

\* prune_stale_incoming, and cleanup_expired_incoming at a start: an upload
\* that was not completed in time is dropped.
PruneStaleIncoming(a) ==
    /\ file[a].state \in {"receiving", "appending"} /\ ~ file[a].paid
    /\ file' = [file EXCEPT ![a] = NoFile]
    /\ blob' = [blob EXCEPT ![a].part = "none"]
    /\ UNCHANGED << posted, epoch, paidEpoch, listed, proving, proven, asking,
                    guard, payouts, archLeft >>

----------------------------------------------------------------------------
(* The refresh and heartbeat threads: the posts are listed, the files of   *)
(* posts confirmed on chain are marked paid, and payouts are asked for.    *)

\* mark_paid: the file is moved to the blobs, whatever state its upload is in.
Finalized(a) ==
    LET b == blob[a]
    IN  IF b.final # "none" THEN [NoBlob EXCEPT !.final = b.final]
        ELSE IF b.bin THEN [b EXCEPT !.bin = FALSE, !.part = "none", !.final = "whole"]
        ELSE [NoBlob EXCEPT !.final = b.part]

RefreshOnce(a) ==
    /\ a \in posted /\ file[a].state # "none"
    /\ listed' = [listed EXCEPT ![a] = paidEpoch[a]]
    /\ IF ~ (file[a].paid /\ file[a].art) /\ Finalized(a).final # "none"
       THEN /\ blob' = [blob EXCEPT ![a] = Finalized(a)]
            /\ file' = [file EXCEPT ![a].state = "stored", ![a].paid = TRUE,
                                    ![a].art = TRUE, ![a].deadline = FALSE]
       ELSE UNCHANGED << file, blob >>
    /\ UNCHANGED << posted, epoch, paidEpoch, proving, proven, asking, guard,
                    payouts, archLeft >>

\* Mutant: whatever was answered, the cooldown is all that counts.
Unguarded_AnyStatus(a) ==
    /\ guard[a].epoch <= file[a].proof
    /\ guard[a].epoch = file[a].proof => guard[a].cooled

\* _process_auto_payout_for_art up to the request: the proof is newer than
\* what the ledger paid, and than what the guard remembers, except that a
\* failed attempt is repeated after its cooldown.
Unguarded(a) ==
    /\ guard[a].epoch <= file[a].proof
    /\ guard[a].epoch = file[a].proof => guard[a].status # "ok" /\ guard[a].cooled

AskPayout(a) ==
    /\ asking = NoAsk
    /\ listed[a] # NotListed
    /\ file[a].paid /\ file[a].state = "stored"
    /\ file[a].proof >= 0 /\ file[a].proof <= epoch /\ listed[a] < file[a].proof
    /\ Unguarded(a)
    /\ guard' = [guard EXCEPT ![a] = [epoch |-> file[a].proof, status |-> "attempt",
                                      cooled |-> FALSE]]
    /\ asking' = [art |-> a, epoch |-> file[a].proof, at |-> "sent", again |-> FALSE]
    /\ UNCHANGED << file, blob, posted, epoch, paidEpoch, listed, proving, proven,
                    payouts, archLeft >>

\* The node builds a payout when its latest proof is of that epoch.
NodeBuilds(a, e) ==
    /\ proven[a] = e
    /\ built' = [built EXCEPT ![a] = @ \cup {e}]
    /\ twice' = IF e \in built[a] THEN [twice EXCEPT ![a] = @ \cup {e}] ELSE twice

PayoutBuilt ==
    /\ asking.at = "sent"
    /\ NodeBuilds(asking.art, asking.epoch)
    /\ asking' = [asking EXCEPT !.at = "built"]
    /\ UNCHANGED << file, blob, posted, epoch, paidEpoch, listed, proving, proven,
                    guard, unheard, late, archLeft >>

\* It refuses (no such proof, its own cooldown, a conflict in the mempool).
PayoutRefused ==
    /\ asking.at = "sent"
    /\ asking' = [asking EXCEPT !.at = "refused"]
    /\ UNCHANGED << file, blob, posted, epoch, paidEpoch, listed, proving, proven,
                    guard, payouts, archLeft >>

\* A request that was given up, or a second one of the same epoch, may still be
\* handled: nobody hears of its payout.
LateBuilt ==
    \E r \in late :
        /\ NodeBuilds(r.art, r.epoch)
        /\ unheard' = [unheard EXCEPT ![r.art] = @ \cup {r.epoch}]
        /\ late' \in {late, late \ {r}}
        /\ UNCHANGED << file, blob, posted, epoch, paidEpoch, listed, proving, proven,
                        asking, guard, archLeft >>

\* The answer arrives.
PayoutAnswered ==
    /\ asking.at \in {"built", "refused"}
    /\ guard' = [guard EXCEPT ![asking.art] =
                    [epoch |-> asking.epoch, cooled |-> FALSE,
                     status |-> IF asking.at = "built" THEN "ok" ELSE "error"]]
    /\ asking' = NoAsk
    /\ UNCHANGED << file, blob, posted, epoch, paidEpoch, listed, proving, proven,
                    payouts, archLeft >>

\* What an answer that is not received leaves behind.
Unheard == unheard' = IF asking.at = "built"
                      THEN [unheard EXCEPT ![asking.art] = @ \cup {asking.epoch}]
                      ELSE unheard
GivenUp == late' = IF asking.at = "sent"
                   THEN late \cup {[art |-> asking.art, epoch |-> asking.epoch]}
                   ELSE late

\* No answer.  RPC.call sends the same envelope a second time, which the node refuses
\* (its nonce is known) unless the first never arrived.  After that it gives up, and
\* the guard stays at the attempt.
PayoutUnanswered ==
    /\ asking # NoAsk /\ Spend("losses")
    /\ Unheard
    /\ \/ /\ ~ asking.again /\ asking.at = "sent"
          /\ asking' = [asking EXCEPT !.again = TRUE] /\ UNCHANGED late
       \/ /\ ~ asking.again /\ GivenUp
          /\ asking' = [asking EXCEPT !.again = TRUE, !.at = "refused"]
       \/ asking.again /\ GivenUp /\ asking' = NoAsk
    /\ UNCHANGED << file, blob, posted, epoch, paidEpoch, listed, proving, proven,
                    guard, built, twice >>

PayoutCooled(a) ==
    /\ ~ guard[a].cooled
    /\ guard' = [guard EXCEPT ![a].cooled = TRUE]
    /\ UNCHANGED << file, blob, posted, epoch, paidEpoch, listed, proving, proven,
                    asking, payouts, archLeft >>

----------------------------------------------------------------------------
(* The retention thread.                                                   *)

\* run_gc: an unpaid entry gets its deadline, and goes when it has passed.
RunGc(a) ==
    /\ file[a].state # "none" /\ ~ file[a].paid
    /\ \/ /\ ~ file[a].deadline
          /\ file' = [file EXCEPT ![a].deadline = TRUE]
          /\ UNCHANGED blob
       \/ /\ file[a].deadline
          /\ file' = [file EXCEPT ![a] = NoFile]
          /\ blob' = [blob EXCEPT ![a] = NoBlob]
    /\ UNCHANGED << posted, epoch, paidEpoch, listed, proving, proven, asking,
                    guard, payouts, archLeft >>

\* A proof of the epoch is generated, and noted as the last before it is sent.
GenerateProof(a) ==
    /\ proving = NoProof
    /\ file[a].paid /\ file[a].state = "stored" /\ file[a].art
    /\ file[a].proof < epoch
    /\ blob[a] # NoBlob
    /\ proving' = [art |-> a, epoch |-> epoch, was |-> file[a].proof]
    /\ file' = [file EXCEPT ![a].proof = epoch]
    /\ UNCHANGED << blob, posted, epoch, paidEpoch, listed, proven, asking, guard,
                    payouts, archLeft >>

\* The node records it.
ProofSubmitted ==
    /\ proving # NoProof
    /\ proving' = NoProof
    /\ proven' = [proven EXCEPT ![proving.art] = proving.epoch]
    /\ UNCHANGED << file, blob, posted, epoch, paidEpoch, listed, asking, guard,
                    payouts, archLeft >>

\* It is refused, or its answer is lost: the epoch noted before is restored.
\* When the connection was found closed before sending, it is not.
ProofFails ==
    /\ proving # NoProof /\ Spend("failures")
    /\ proving' = NoProof
    /\ LET a == proving.art
       IN  \E restored, recorded \in BOOLEAN :
             /\ recorded => restored
             /\ file' = IF restored /\ file[a].state # "none"
                        THEN [file EXCEPT ![a].proof = proving.was] ELSE file
             /\ proven' = IF recorded THEN [proven EXCEPT ![a] = proving.epoch]
                          ELSE proven
    /\ UNCHANGED << blob, posted, epoch, paidEpoch, listed, asking, guard, payouts >>

----------------------------------------------------------------------------
(* The chain, and restarts.                                                *)

PostConfirmed(a) ==
    /\ a \notin posted /\ file[a].state = "pending_confirm"
    /\ posted' = posted \cup {a}
    /\ UNCHANGED << file, blob, epoch, paidEpoch, listed, proving, proven, asking,
                    guard, payouts, archLeft >>

NextEpoch ==
    /\ Spend("epochs") /\ epoch' = epoch + 1
    /\ UNCHANGED << file, blob, posted, paidEpoch, listed, proving, proven, asking,
                    guard, payouts >>

PayoutMined(a) ==
    /\ \E e \in built[a] : /\ paidEpoch[a] < e
                           /\ paidEpoch' = [paidEpoch EXCEPT ![a] = e]
    /\ UNCHANGED << file, blob, posted, epoch, listed, proving, proven, asking,
                    guard, payouts, archLeft >>

\* _reconcile_blobs: a blob without an entry is taken as stored and paid.
Reconciled(f) ==
    [a \in Artwork |-> IF f[a].state = "none" /\ blob[a].final # "none"
                   THEN [NoFile EXCEPT !.state = "stored", !.paid = TRUE]
                   ELSE f[a]]

\* What is loaded is the index as last saved, which says nothing of chunks
\* received, or an empty one.  The payout guard is loaded as saved.
RestartArchivist ==
    /\ Spend("restarts")
    /\ \E whole \in BOOLEAN :
         file' = Reconciled([a \in Artwork |->
                    IF ~ whole THEN NoFile
                    ELSE IF file[a].state = "appending"
                         THEN [file[a] EXCEPT !.state = "receiving"] ELSE file[a]])
    /\ listed' = [a \in Artwork |-> NotListed]
    /\ proving' = NoProof /\ asking' = NoAsk /\ Unheard /\ GivenUp
    /\ UNCHANGED << blob, posted, epoch, paidEpoch, proven, guard, built, twice >>

----------------------------------------------------------------------------
ArchInit ==
    /\ file = [a \in Artwork |-> NoFile] /\ blob = [a \in Artwork |-> NoBlob]
    /\ posted = {} /\ epoch = 0
    /\ paidEpoch = [a \in Artwork |-> None] /\ listed = [a \in Artwork |-> NotListed]
    /\ proving = NoProof /\ proven = [a \in Artwork |-> None]
    /\ asking = NoAsk
    /\ guard = [a \in Artwork |-> [epoch |-> None, status |-> "", cooled |-> TRUE]]
    /\ built = [a \in Artwork |-> {}] /\ twice = [a \in Artwork |-> {}]
    /\ unheard = [a \in Artwork |-> {}] /\ late = {}
    /\ archLeft \in ArchBounds

ArchNext ==
    \/ \E a \in Artwork : \/ StorInit(a) \/ StorPut(a) \/ StorCommit(a)
                      \/ PruneStaleIncoming(a) \/ RunGc(a)
                      \/ RefreshOnce(a) \/ AskPayout(a) \/ PayoutCooled(a)
                      \/ GenerateProof(a)
                      \/ PostConfirmed(a) \/ PayoutMined(a)
    \/ PayoutBuilt \/ PayoutRefused \/ LateBuilt \/ PayoutAnswered \/ PayoutUnanswered
    \/ ProofSubmitted \/ ProofFails
    \/ NextEpoch \/ RestartArchivist

ArchSpec == ArchInit /\ [][ArchNext]_archVars

\* A second payout of an epoch is built only when the archivist did not hear of one:
\* not because another thread asks, a proof that failed took the last proof back, the
\* archivist was restarted or the index was lost and rebuilt from the blobs (the
\* payout guard in archivist_orchestrator.py).
AskedOnce == \A a \in Artwork : twice[a] \subseteq unheard[a]
=============================================================================
