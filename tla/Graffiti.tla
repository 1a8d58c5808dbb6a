-------------------------------- MODULE Graffiti --------------------------------
(***************************************************************************)
(* Graffiti on one node: the events that transactions carry (a POST opens  *)
(* the pool of an artwork, a COMMENT pays into it, a PAYOUT pays a storer  *)
(* out of it for an epoch), the rules a block is held to, the registry     *)
(* that records events as blocks are applied and replayed, and the two     *)
(* requests of a storer: submit a proof, build a payout.                   *)
(*                                                                         *)
(* A transaction has at most one output of an artwork's pool and stands    *)
(* for it: Coin is the set of transactions, Owner the artwork, Amount what *)
(* goes into the pool.                                                     *)
(***************************************************************************)
EXTENDS AddressIndex, Sequences, SequencesExt

CONSTANTS
  Event,       \* Event[x]: "POST", "COMMENT" or "PAYOUT"
  Takes,       \* Takes[x]: the pool outputs x spends
  Content,     \* Content[x]: sha256 and Merkle root of a POST
  Epoch,       \* Epoch[x]: the epoch a PAYOUT is for, -1 for none
  Claim,       \* Claim[x]: the epoch of the proof it carries, -1 for none
  Storer,      \* Storer[x]: whom it pays and who made the proof
  Pays,        \* Pays[x]: what it pays to the storer
  MinFee,      \* the upload fee
  EpochBlocks, \* CFG.GRAFFITI_PROOF_EPOCH_BLOCKS
  Drift,       \* CFG.GRAFFITI_PROOF_EPOCH_DRIFT
  BlockRoom,   \* bound: events of a block
  GraffitiBounds \* bound: a set of [height, reorgs, kills, requests]

Tx == Coin
Art == Owners

NoPost == [by |-> "none"]

\* What the constants are: amounts are not negative, a payout without an epoch
\* or a proof has -1 in its place, and no transaction is the "none" of NoPost.
ASSUME GraffitiAssumption ==
  /\ IsFiniteSet(Coin) /\ NoPost.by \notin Tx
  /\ \A x \in Tx : /\ Amount[x] \in Nat /\ Pays[x] \in Nat
                   /\ Event[x] \in {"POST", "COMMENT", "PAYOUT"}
                   /\ Takes[x] \subseteq Tx
                   /\ Epoch[x] \in Int /\ Claim[x] \in Int
  /\ MinFee \in Nat /\ EpochBlocks \in Nat \ {0} /\ Drift \in Nat
  /\ BlockRoom \in Nat

VARIABLES
  chain,     \* per block, its transactions in order
  utxos,     \* the pool outputs that are unspent
  index,     \* the address index over them
  reg,       \* the registry: [posts, comments, payouts, proofs]
  todo,      \* events of the last block not yet recorded
  pool,      \* payouts in the mempool
  cooling,   \* _payout_guard: artwork and storer, within the cooldown
  moves,     \* [reorgs, kills]: how many there have been
  limit      \* the member of GraffitiBounds explored

gvars == <<chain, utxos, index, reg, todo, pool, cooling, moves, limit>>

-----------------------------------------------------------------------------
(* Coins and epochs *)

Range2(c) == UNION {{c[i][j] : j \in DOMAIN c[i]} : i \in DOMAIN c}
Members(b) == {b[i] : i \in DOMAIN b}
TakenBy(S) == UNION {Takes[x] : x \in S}
FundedBy(S) == {x \in S : Amount[x] > 0}
CoinsAfter(S) == FundedBy(S) \ TakenBy(S)

\* compute_proof_epoch, at the tip.
EpochOf(height) == height \div EpochBlocks
TipEpoch == EpochOf(Max({0, Len(chain) - 1}))

EmptyRegistry ==
  [posts |-> [a \in Art |-> NoPost], comments |-> [a \in Art |-> {}],
   payouts |-> [a \in Art |-> {}], proofs |-> [a \in Art |-> {}]]

\* get_latest_proof_epoch, of one storer or of all.
Latest(S) == Max({p.epoch : p \in S} \cup {-1})

-----------------------------------------------------------------------------
(* Recording events: a registry r, and the balance the index answers *)

\* Mutant: the same transaction replayed makes a new entry.
RecordPost_Again(r, x, balance) ==
  LET a == Owner[x]
  IN  IF Amount[x] < MinFee THEN r
      ELSE [r EXCEPT !.posts[a] = [by |-> x, balance |-> balance, last |-> -1]]

\* _handle_graffiti_post and record_post: another POST of an artwork takes
\* the place of the first, the same one replayed only gets its balance.
RecordPost(r, x, balance) ==
  LET a == Owner[x]
  IN  IF Amount[x] < MinFee THEN r
      ELSE IF r.posts[a].by = x
           THEN [r EXCEPT !.posts[a].balance = balance]
           ELSE [r EXCEPT !.posts[a] = [by |-> x, balance |-> balance, last |-> -1]]

\* _handle_graffiti_comment and record_comment.
RecordComment(r, x, balance) ==
  LET a == Owner[x]
  IN  IF r.posts[a] = NoPost THEN r
      ELSE [r EXCEPT !.comments[a] = @ \cup {x}, !.posts[a].balance = balance]

\* The epoch has been paid: 0 <= epoch <= last_paid_epoch.
Rewinds(r, x) == Epoch[x] >= 0 /\ Epoch[x] <= r.posts[Owner[x]].last

\* The artwork after a payout.
Paid(post, x, balance) ==
  [post EXCEPT !.balance = balance, !.last = Max({@, Epoch[x]})]

\* Mutant: the epoch is not compared.
RecordPayout_Rewinds(r, x, balance) ==
  LET a == Owner[x]
  IN  IF r.posts[a] = NoPost \/ Pays[x] > r.posts[a].balance THEN r
      ELSE [r EXCEPT !.payouts[a] = @ \cup {x}, !.posts[a] = Paid(@, x, balance)]

\* _handle_graffiti_payout, record_proof and record_payout: nothing but the
\* balance for a payout that is known, nothing at all for a rewound epoch.
RecordPayout(r, x, balance) ==
  LET a == Owner[x]
  IN  IF r.posts[a] = NoPost THEN r
      ELSE IF Rewinds(r, x)
      THEN IF x \in r.payouts[a] THEN [r EXCEPT !.posts[a].balance = balance] ELSE r
      ELSE IF Pays[x] > r.posts[a].balance THEN r
      ELSE LET proved == IF Claim[x] < 0 THEN r
                         ELSE [r EXCEPT !.proofs[a] =
                                 @ \cup {[storer |-> Storer[x], epoch |-> Claim[x]]}]
           IN  IF x \in r.payouts[a]
               THEN [proved EXCEPT !.posts[a].balance = balance]
               ELSE [proved EXCEPT !.payouts[a] = @ \cup {x},
                                   !.posts[a] = Paid(@, x, balance)]

\* _record_graffiti_event.
Recorded(r, x, balance) ==
  CASE Event[x] = "POST" -> RecordPost(r, x, balance)
    [] Event[x] = "COMMENT" -> RecordComment(r, x, balance)
    [] Event[x] = "PAYOUT" -> RecordPayout(r, x, balance)

-----------------------------------------------------------------------------
(* The rules *)

\* _validate_graffiti_posts: one POST that pays, and not the registered one.
PostsValid(b) ==
  LET posts == {x \in Members(b) : Event[x] = "POST"}
  IN  /\ Cardinality({x \in posts : Amount[x] >= MinFee}) <= 1
      /\ \A x \in posts :
           reg.posts[Owner[x]] # NoPost =>
             Content[reg.posts[Owner[x]].by] # Content[x]

\* _validate_single_payout and its twin of the mempool, against the registry
\* as it stands before the block.
PayoutValid(x) ==
  LET post == reg.posts[Owner[x]]
  IN  /\ post # NoPost
      /\ ~Rewinds(reg, x)
      /\ Epoch[x] < 0 \/ Latest(reg.proofs[Owner[x]]) >= Epoch[x] \/ Claim[x] >= Epoch[x]
      /\ Pays[x] <= post.balance

\* _validate_payout_tx: the inputs are coins of the pool and cover the outputs.
Admissible(x) ==
  /\ PayoutValid(x)
  /\ Takes[x] # {} /\ Takes[x] \subseteq OwnedBy(Owner[x], utxos)
  /\ Pays[x] + Amount[x] <= Worth(Takes[x])

\* Every output exists when it is spent, and is spent once.
SpendsOnce(b, coins) ==
  /\ \A i \in DOMAIN b :
       Takes[b[i]] \subseteq coins \cup FundedBy({b[j] : j \in 1..(i - 1)})
  /\ \A x, y \in Members(b) : x # y => Takes[x] \cap Takes[y] = {}

\* _validate_graffiti_rules, after the rules for coins.
BlockValid(b) ==
  /\ SpendsOnce(b, utxos)
  /\ PostsValid(b)
  /\ \A x \in Members(b) : Event[x] = "PAYOUT" => PayoutValid(x)

-----------------------------------------------------------------------------
(* Blocks *)

Blocks(S) == {b \in BoundedSeq(S, BlockRoom) : IsInjective(b)}

\* add_block: the coins of the block are applied, then its events recorded.
Connect(b) ==
  /\ todo = <<>> /\ Len(chain) < limit.height
  /\ Members(b) \cap Range2(chain) = {}
  /\ BlockValid(b)
  /\ chain' = Append(chain, b)
  /\ utxos' = (utxos \cup FundedBy(Members(b))) \ TakenBy(Members(b))
  /\ index' = DroppedAll(IndexedAll(index, FundedBy(Members(b))),
                         TakenBy(Members(b)))
  /\ todo' = b
  /\ pool' = pool \ Members(b)
  /\ UNCHANGED <<reg, cooling, moves, limit>>

\* Mutant: the loop stops at the first event.
Record_First ==
  /\ todo # <<>>
  /\ LET x == Head(todo)
         ix == Ensured(index, utxos)
     IN  /\ reg' = Recorded(reg, x, ix.total[Owner[x]])
         /\ index' = ix
  /\ todo' = <<>>
  /\ UNCHANGED <<chain, utxos, pool, cooling, moves, limit>>

\* _process_graffiti_for_txs: the balance is asked of the index.
Record ==
  /\ todo # <<>>
  /\ LET x == Head(todo)
         ix == Ensured(index, utxos)
     IN  /\ reg' = Recorded(reg, x, ix.total[Owner[x]])
         /\ index' = ix
  /\ todo' = Tail(todo)
  /\ UNCHANGED <<chain, utxos, pool, cooling, moves, limit>>

\* One transaction of _rebuild_tx: spend, add, record.
Replayed(st, x) ==
  LET coins == (st.utxos \ Takes[x]) \cup FundedBy({x})
      ix == IndexedAll(DroppedAll(st.index, Takes[x] \cap st.utxos), FundedBy({x}))
      asked == Ensured(ix, coins)
  IN  [utxos |-> coins, index |-> asked,
       reg |-> Recorded(st.reg, x, asked.total[Owner[x]])]

\* rebuild_from_chain: the set is cleared, the index and the registry are not.
Rebuilt(c, ix, r) ==
  FoldLeft(Replayed, [utxos |-> {}, index |-> ix, reg |-> r], FlattenSeq(c))

\* swap_tip_if_better and replace_with: the rules for events are not asked.
Reorganise(k, b) ==
  /\ todo = <<>> /\ chain # <<>> /\ moves.reorgs < limit.reorgs
  /\ b # Last(chain)
  /\ LET kept == SubSeq(chain, 1, k)
         new == Append(kept, b)
         st == Rebuilt(new, index, reg)
     IN  /\ Members(b) \cap Range2(kept) = {}
         /\ SpendsOnce(b, CoinsAfter(Range2(kept)))
         /\ chain' = new
         /\ utxos' = st.utxos /\ index' = st.index /\ reg' = st.reg
         /\ pool' = pool \ Members(b)
  /\ moves' = [moves EXCEPT !.reorgs = @ + 1]
  /\ UNCHANGED <<todo, cooling, limit>>

\* A kill, also between the coins of a block and its events; the registry
\* has been written with every event.
Kill ==
  /\ moves.kills < limit.kills
  /\ moves' = [moves EXCEPT !.kills = @ + 1]
  /\ index' = NoIndex
  /\ todo' = <<>> /\ pool' = {} /\ cooling' = {}
  /\ UNCHANGED <<chain, utxos, reg, limit>>

-----------------------------------------------------------------------------
(* Requests *)

\* get_balance of any address, and _load, which drops the index.
Ask ==
  /\ limit.requests /\ ~index.live
  /\ index' = Ensured(index, utxos)
  /\ UNCHANGED <<chain, utxos, reg, todo, pool, cooling, moves, limit>>
Reload ==
  /\ limit.requests /\ index.live
  /\ index' = NoIndex
  /\ UNCHANGED <<chain, utxos, reg, todo, pool, cooling, moves, limit>>

\* _handle_storage_proof_submit, of a chunk that the Merkle root confirms.
SubmitProof(a, s, e) ==
  /\ reg.posts[a] # NoPost
  /\ e >= Max({0, TipEpoch - Drift}) /\ e <= TipEpoch + Drift
  /\ reg' = [reg EXCEPT !.proofs[a] = @ \cup {[storer |-> s, epoch |-> e]}]
  /\ UNCHANGED <<chain, utxos, index, todo, pool, cooling, moves, limit>>

\* _handle_storage_build_payout: the cooldown starts before the transaction
\* is built and offered, so a payout that fails has to wait as well.
BuildPayout(x) ==
  /\ limit.requests /\ Event[x] = "PAYOUT" /\ <<Owner[x], Storer[x]>> \notin cooling
  /\ LET mine == {p \in reg.proofs[Owner[x]] : p.storer = Storer[x]}
     IN  /\ mine # {} /\ Latest(mine) <= TipEpoch
         /\ Epoch[x] = Latest(mine) /\ Claim[x] = Epoch[x]
  /\ cooling' = cooling \cup {<<Owner[x], Storer[x]>>}
  /\ index' = Ensured(NoIndex, utxos)
  /\ pool' = IF Admissible(x) THEN pool \cup {x} ELSE pool
  /\ UNCHANGED <<chain, utxos, reg, todo, moves, limit>>

\* _check_payout_cooldown: the cooldown of a storer is over.
Cool(g) ==
  /\ g \in cooling
  /\ cooling' = cooling \ {g}
  /\ UNCHANGED <<chain, utxos, index, reg, todo, pool, moves, limit>>

\* receive_tx, of a payout built elsewhere.
Offer(x) ==
  /\ limit.requests /\ Event[x] = "PAYOUT" /\ x \notin pool /\ Admissible(x)
  /\ pool' = pool \cup {x}
  /\ UNCHANGED <<chain, utxos, index, reg, todo, cooling, moves, limit>>

-----------------------------------------------------------------------------
(* The specification *)

GInit ==
  /\ chain = <<>> /\ utxos = {} /\ index = NoIndex
  /\ reg = EmptyRegistry
  /\ todo = <<>> /\ pool = {} /\ cooling = {}
  /\ moves = [reorgs |-> 0, kills |-> 0]
  /\ limit \in GraffitiBounds

GNext ==
  \/ \E b \in Blocks(Tx) :
       \/ Connect(b)
       \/ \E k \in (Len(chain) - 2)..(Len(chain) - 1) : k >= 0 /\ Reorganise(k, b)
  \/ Record \/ Kill \/ Ask \/ Reload
  \/ \E a \in Art, s \in {Storer[x] : x \in Tx}, e \in 0..(TipEpoch + Drift) :
       SubmitProof(a, s, e)
  \/ \E x \in Tx : BuildPayout(x) \/ Offer(x)
  \/ \E g \in cooling : Cool(g)

GSpec == GInit /\ [][GNext]_gvars

-----------------------------------------------------------------------------
(* Properties *)

\* The paid POSTs of an artwork among events, by their places.
PostsIn(events, a) ==
  {i \in DOMAIN events : /\ Event[events[i]] = "POST" /\ Owner[events[i]] = a
                         /\ Amount[events[i]] >= MinFee}

\* The comments on it after the first of them.
CommentsIn(events, a) ==
  {events[i] : i \in {j \in DOMAIN events :
     /\ Event[events[j]] = "COMMENT" /\ Owner[events[j]] = a
     /\ \E k \in PostsIn(events, a) : k < j}}

Knows(r, events) ==
  \A a \in Art :
    LET posts == PostsIn(events, a)
    IN  /\ posts = {} <=> r.posts[a] = NoPost
        /\ posts # {} => r.posts[a].by = events[Max(posts)]
        /\ r.comments[a] = CommentsIn(events, a)

\* While no chain has been abandoned and no kill has cut a block short, the
\* registry at rest knows the comments and the last paid POST of its chain.
KnowsItsChain ==
  moves = [reorgs |-> 0, kills |-> 0] /\ todo = <<>> => Knows(reg, FlattenSeq(chain))

\* An artwork that is posted once is recorded as paid once per epoch, across
\* replays, reorganisations and kills.
EpochRecordedOnce ==
  \A a \in Art :
    Cardinality({x \in Tx : Event[x] = "POST" /\ Owner[x] = a}) = 1 =>
      \A x, y \in reg.payouts[a] :
        x # y => Epoch[x] # Epoch[y] \/ Epoch[x] < 0

\* The recorded POST of an artwork has no rival on a chain.
NoOtherPost(a, c) ==
  \A x \in Range2(c) : Event[x] = "POST" /\ Owner[x] = a => x = reg.posts[a].by

\* Nothing sets the last paid epoch back but another POST of the artwork on
\* the chain: neither a replay nor a restart opens paid epochs again.
PaidEpochKept ==
  [][\A a \in Art :
       reg.posts[a] # NoPost /\ NoOtherPost(a, chain') =>
         reg'.posts[a].last >= reg.posts[a].last]_gvars

\* The index never hides a coin and never answers less than an address owns,
\* although a replay may count an output again.
BalanceNeverShort ==
  index.live =>
    \A a \in Art : /\ Listed(index, utxos, a) = OwnedBy(a, utxos)
                   /\ index.total[a] >= Worth(OwnedBy(a, utxos))
=============================================================================
