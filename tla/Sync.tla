---------------------------------- MODULE Sync ----------------------------------
(***************************************************************************)
(* How two nodes bring their chains together: the sync thread asks a peer  *)
(* for headers behind a locator, works out which heights it lacks, and     *)
(* downloads them in chunks, while both chains go on changing.  A handler  *)
(* that meets a block with a gap below it downloads on its own, next to    *)
(* the sync thread.                                                        *)
(*                                                                         *)
(* A chain is a sequence of labels and a block is the path that leads to   *)
(* it: two blocks have the same hash exactly when their paths are equal.   *)
(* Chain[1] is genesis, at height 0.                                       *)
(***************************************************************************)
EXTENDS Integers, Sequences, FiniteSets, FiniteSetsExt, SequencesExt, Functions

CONSTANTS
  Member,          \* nodes
  Other,           \* Other[n]: the peer n syncs with
  Brand, Effort,   \* Brand[n]: the label n mines with, Effort[l]: the work of a label
  Dense,           \* entries of a locator before its steps double
  HeadersBatchMax, BlockDownloadBatchMax, ReorgLimit, GapSpan,
  SyncBounds       \* bounds, one chosen at the start: [mine : [Member -> Nat],
                   \* fails, gaps : Nat] blocks mined, requests lost, gap downloads

Job == Member \X {"sync", "gap"}
Idle == [phase |-> "idle"]

VARIABLES
  chainOf,   \* blockchain.chain of each node
  job,       \* per thread: where its round is
  spare      \* what is left of the bounds
syncVars == <<chainOf, job, spare>>

Height(c) == Len(c) - 1
Block(c, h) == SubSeq(c, 1, h + 1)
Parent(b) == SubSeq(b, 1, Len(b) - 1)
ChainEffort(c) == FoldFunction(LAMBDA l, sum : Effort[l] + sum, 0, c)

\* Hashes are in an order of their own; this is one.
HashLess(b, c) ==
  \E i \in DOMAIN b : b[i] < c[i] /\ \A j \in i + 1 .. Len(b) : b[j] = c[j]

-----------------------------------------------------------------------------
(* Headers *)

\* _build_locator: the tip and what lies under it, in steps that double after
\* the first entries.
Locator(c) ==
  LET Depth(i) == IF i <= Dense THEN i - 1 ELSE Dense - 1 + (2 ^ (i - Dense + 1) - 2)
  IN {Block(c, Height(c) - Depth(i)) : i \in {i \in 1 .. Len(c) : Depth(i) <= Height(c)}}

\* handle_get_headers: what the peer has above the highest block it knows.
Headers(c, locator) ==
  LET start == Max({0} \cup {h + 1 : h \in {h \in 0 .. Height(c) : Block(c, h) \in locator}})
  IN {Block(c, h) : h \in start .. Min({start + HeadersBatchMax - 1, Height(c)})}

\* _determine_missing_blocks: what is new, and all that is above the lowest
\* block that differs.
Missing(c, headers) ==
  LET differ == {h \in 0 .. Height(c) :
                   \E b \in headers : Height(b) = h /\ b # Block(c, h)}
      new == {Height(b) : b \in {b \in headers : Height(b) > Height(c)}}
      top == Max({Height(b) : b \in headers} \cup {Height(c)})
  IN new \cup (IF differ = {} THEN {} ELSE Min(differ) .. top)

\* sync_with_peers, _sync_peer.
Ask(n) ==
  /\ job[<<n, "sync">>] = Idle
  /\ job' = [job EXCEPT ![<<n, "sync">>] =
               [phase |-> "asked", locator |-> Locator(chainOf[n])]]
  /\ UNCHANGED <<chainOf, spare>>

Answered(n) ==
  LET t == <<n, "sync">>
      headers == Headers(chainOf[Other[n]], job[t].locator)
      missing == IF headers = {} THEN {} ELSE Missing(chainOf[n], headers)
  IN /\ job[t].phase = "asked"
     /\ job' = [job EXCEPT ![t] =
                  IF missing = {} THEN Idle
                  ELSE [phase |-> "missing", heights |-> missing]]
     /\ UNCHANGED <<chainOf, spare>>

\* handle_block_gap, for a block of the peer whose parent is not known here.
Gap(n) ==
  LET t == <<n, "gap">>
      tip == chainOf[Other[n]]
  IN /\ job[t] = Idle /\ spare.gaps > 0
     /\ Height(tip) > 0 /\ ~IsPrefix(Parent(tip), chainOf[n])
     /\ job' = [job EXCEPT ![t] =
                  [phase |-> "missing",
                   heights |-> Max({0, Height(tip) - GapSpan}) .. Height(tip)]]
     /\ spare' = [spare EXCEPT !.gaps = @ - 1]
     /\ UNCHANGED chainOf

-----------------------------------------------------------------------------
(* Blocks *)

\* Mutant: the tip itself does not count as held.
StartsInside_BelowTip(heights, c) == Min(heights) < Len(c) - 1

StartsInside(heights, c) == Min(heights) < Len(c)

\* _download_blocks decides once whether this is a reorganisation.
Begin(t) ==
  /\ job[t].phase = "missing"
  /\ job' = [job EXCEPT ![t] =
               [phase |-> "fetch", heights |-> job[t].heights, blocks |-> {},
                reorg |-> StartsInside(job[t].heights, chainOf[t[1]])]]
  /\ UNCHANGED <<chainOf, spare>>

FirstOf(heights) ==
  {h \in heights : Cardinality({g \in heights : g < h}) < BlockDownloadBatchMax}

\* handle_get_blocks.
Blocks(c, heights) == {Block(c, h) : h \in {h \in heights : h <= Height(c)}}

\* _process_downloaded_blocks: what is held is skipped, what extends the chain
\* is added, and anything else ends the download.
Extended(c, blocks) ==
  LET Step(acc, b) ==
        IF acc.stop \/ IsPrefix(b, acc.chain) THEN acc
        ELSE IF Parent(b) = acc.chain THEN [acc EXCEPT !.chain = b]
        ELSE [acc EXCEPT !.stop = TRUE]
  IN FoldLeft(Step, [chain |-> c, stop |-> FALSE],
              SetToSortSeq(blocks, LAMBDA b, d : Len(b) < Len(d)))

Fetch(t) ==
  LET n == t[1]
      chunk == FirstOf(job[t].heights)
      rest == job[t].heights \ chunk
      blocks == Blocks(chainOf[Other[n]], chunk)
      extended == Extended(chainOf[n], blocks)
  IN /\ job[t].phase = "fetch" /\ chunk # {}
     /\ IF job[t].reorg
        THEN /\ job' = [job EXCEPT ![t].heights = rest, ![t].blocks = @ \cup blocks]
             /\ UNCHANGED chainOf
        ELSE /\ chainOf' = [chainOf EXCEPT ![n] = extended.chain]
             /\ job' = [job EXCEPT ![t] =
                          IF rest = {} \/ extended.stop THEN Idle
                          ELSE [@ EXCEPT !.heights = rest]]
     /\ UNCHANGED spare

\* replace_with: more work; then more blocks; then the smaller hash; and not
\* too deep.
Prevails(b, c) ==
  /\ \/ ChainEffort(b) > ChainEffort(c)
     \/ ChainEffort(b) = ChainEffort(c) /\ Len(b) > Len(c)
     \/ ChainEffort(b) = ChainEffort(c) /\ Len(b) = Len(c) /\ HashLess(b, c)
  /\ Len(c) - Len(LongestCommonPrefix({b, c})) <= ReorgLimit

\* _apply_reorg_from_sync: the blocks fetched continue this chain somewhere
\* above genesis, one after the other.
Continues(blocks, c) ==
  LET top == CHOOSE b \in blocks : \A d \in blocks : Len(d) <= Len(b)
      fork == Min({Height(b) : b \in blocks})
  IN /\ fork \in 1 .. Len(c) /\ IsPrefix(SubSeq(top, 1, fork), c)
     /\ blocks = {Block(top, h) : h \in fork .. Height(top)}

ApplyReorg(t) ==
  LET n == t[1]
      blocks == job[t].blocks
      top == CHOOSE b \in blocks : \A d \in blocks : Len(d) <= Len(b)
  IN /\ job[t].phase = "fetch" /\ job[t].heights = {}
     /\ chainOf' = IF blocks # {} /\ Continues(blocks, chainOf[n])
                      /\ Prevails(top, chainOf[n])
                   THEN [chainOf EXCEPT ![n] = top] ELSE chainOf
     /\ job' = [job EXCEPT ![t] = Idle]
     /\ UNCHANGED spare

\* No answer, or one that asks to retry later: a reorganisation goes on with
\* what it has.
Lost(t) ==
  /\ spare.fails > 0 /\ job[t].phase \in {"asked", "fetch"}
  /\ job[t].phase = "fetch" => job[t].heights # {}
  /\ job' = [job EXCEPT ![t] = IF job[t].phase = "fetch" /\ job[t].reorg
                               THEN [job[t] EXCEPT !.heights = {}] ELSE Idle]
  /\ spare' = [spare EXCEPT !.fails = @ - 1]
  /\ UNCHANGED chainOf

MineOn(n) ==
  /\ spare.mine[n] > 0
  /\ chainOf' = [chainOf EXCEPT ![n] = Append(@, Brand[n])]
  /\ spare' = [spare EXCEPT !.mine[n] = @ - 1]
  /\ UNCHANGED job

-----------------------------------------------------------------------------
(* The specification *)

SyncInit ==
  /\ chainOf = [n \in Member |-> <<0>>]
  /\ job = [t \in Job |-> Idle]
  /\ spare \in SyncBounds

Progress(t) == Begin(t) \/ Fetch(t) \/ ApplyReorg(t)

SyncNext ==
  \/ \E n \in Member : Ask(n) \/ Answered(n) \/ Gap(n) \/ MineOn(n)
  \/ \E t \in Job : Progress(t) \/ Lost(t)

\* The sync loop wakes up again and again, and requests that are not lost are
\* answered.
SyncFairness ==
  /\ \A n \in Member : WF_syncVars(Ask(n) \/ Answered(n))
  /\ \A t \in Job : WF_syncVars(Progress(t))

SyncSpec == SyncInit /\ [][SyncNext]_syncVars /\ SyncFairness

-----------------------------------------------------------------------------
(* Properties *)

\* Once no more blocks are found, two nodes that sync with each other end on
\* one chain, whatever was lost, overtaken or replaced while they downloaded.
Converges ==
  <>[](\A m, n \in Member : chainOf[m] = chainOf[n])
=============================================================================
