--------------------------- MODULE Graffiti_proofs ---------------------------
(***************************************************************************)
(* What Graffiti keeps for any transactions and blocks: the address index  *)
(* never answers short, an epoch is recorded as paid once, the last paid   *)
(* epoch is not set back, and the registry knows its chain.                *)
(***************************************************************************)
EXTENDS Graffiti, Recursion

-----------------------------------------------------------------------------
(* What the state is made of *)

Index == [live : BOOLEAN, keys : SUBSET Tx, total : [Art -> Int]]
Posted == [by : Tx, balance : Int, last : Int]
Proof == [storer : {Storer[x] : x \in Tx}, epoch : Int]
Registry == [posts : [Art -> {NoPost} \cup Posted], comments : [Art -> SUBSET Tx],
             payouts : [Art -> SUBSET Tx], proofs : [Art -> SUBSET Proof]]
Replay == [utxos : SUBSET Tx, index : Index, reg : Registry]

GTypeOK ==
  /\ chain \in Seq(Seq(Tx)) /\ todo \in Seq(Tx)
  /\ utxos \in SUBSET Tx /\ index \in Index /\ reg \in Registry
  /\ moves \in [reorgs : Nat, kills : Nat]

\* No entry is the absence of one.
LEMMA PostedIsOne == \A p \in Posted : p # NoPost
<1> SUFFICES ASSUME NEW p \in Posted PROVE p # NoPost
  OBVIOUS
<1>1. DOMAIN p = {"by", "balance", "last"} BY DEF Posted
<1>2. DOMAIN NoPost = {"by"} BY DEF NoPost
<1>3. "last" \in {"by", "balance", "last"} /\ "last" \notin {"by"} OBVIOUS
<1> QED BY <1>1, <1>2, <1>3

\* The greater of two integers.
LEMMA MaxOfTwo ==
  ASSUME NEW a \in Int, NEW b \in Int
  PROVE  Max({a, b}) \in {a, b} /\ Max({a, b}) >= a /\ Max({a, b}) >= b
<1>1. \E x \in {a, b} : \A y \in {a, b} : x >= y
  <2>1. CASE a >= b BY <2>1
  <2>2. CASE b >= a BY <2>2
  <2> QED BY <2>1, <2>2
<1> QED BY <1>1 DEF Max

-----------------------------------------------------------------------------
(* Amounts *)

\* What some coins are worth is a sum of amounts, and not negative.
LEMMA WorthIsSum ==
  ASSUME NEW S \in SUBSET Tx
  PROVE  /\ IsFiniteSet(S) /\ \A x \in S : Amount[x] \in Int
         /\ Worth(S) = SumOver(Amount, S)
         /\ Worth(S) \in Int /\ Worth(S) >= 0
<1>1. IsFiniteSet(S) BY GraffitiAssumption, FS_Subset DEF Tx
<1>2. \A x \in S : Amount[x] \in Int /\ Amount[x] >= 0 /\ Amount[x] = Amount[x]
  BY GraffitiAssumption DEF Tx
<1>3. Worth(S) = SumOver(Amount, S)
  BY DEF Worth, MapThenSumSet, SumOver, SumFunctionOnSet, FoldFunctionOnSet
<1>4. SumOver(Amount, S) \in Int /\ SumOver(Amount, S) >= 0
  BY <1>1, <1>2, SumSame
<1> QED BY <1>1, <1>2, <1>3, <1>4

\* Coins are worth what a part of them and the rest are.
LEMMA WorthParts ==
  ASSUME NEW S \in SUBSET Tx, NEW T \in SUBSET S
  PROVE  Worth(S) = Worth(T) + Worth(S \ T)
<1>1. T \in SUBSET Tx /\ S \ T \in SUBSET Tx OBVIOUS
<1>2. SumOver(Amount, S) = SumOver(Amount, T) + SumOver(Amount, S \ T)
  BY WorthIsSum, SumParts
<1>3. /\ Worth(S) = SumOver(Amount, S) /\ Worth(T) = SumOver(Amount, T)
      /\ Worth(S \ T) = SumOver(Amount, S \ T)
  BY <1>1, WorthIsSum
<1> QED BY <1>2, <1>3

\* More coins are not worth less, and two sets together no more than each.
LEMMA WorthBounds ==
  ASSUME NEW S \in SUBSET Tx, NEW T \in SUBSET Tx
  PROVE  /\ T \subseteq S => Worth(T) <= Worth(S)
         /\ Worth(S \cup T) <= Worth(S) + Worth(T)
<1>1. ASSUME T \subseteq S PROVE Worth(T) <= Worth(S)
  <2>1. Worth(S) = Worth(T) + Worth(S \ T) BY <1>1, WorthParts
  <2>2. S \ T \in SUBSET Tx OBVIOUS
  <2>3. Worth(S \ T) \in Int /\ Worth(S \ T) >= 0 BY <2>2, WorthIsSum
  <2>4. Worth(T) \in Int BY WorthIsSum
  <2> QED BY <2>1, <2>3, <2>4
<1>2. Worth(S \cup T) <= Worth(S) + Worth(T)
  <2>1. /\ S \cup T \in SUBSET Tx /\ S \in SUBSET (S \cup T) /\ T \ S \in SUBSET T
        /\ (S \cup T) \ S = T \ S /\ T \ (T \ S) \in SUBSET Tx /\ T \ S \in SUBSET Tx
    OBVIOUS
  <2>2. Worth(S \cup T) = Worth(S) + Worth(T \ S) BY <2>1, WorthParts
  <2>3. Worth(T) = Worth(T \ S) + Worth(T \ (T \ S)) BY <2>1, WorthParts
  <2>4. Worth(T \ (T \ S)) \in Int /\ Worth(T \ (T \ S)) >= 0 /\ Worth(T \ S) \in Int
    BY <2>1, WorthIsSum
  <2>5. Worth(S) \in Int BY WorthIsSum
  <2> QED BY <2>2, <2>3, <2>4, <2>5
<1> QED BY <1>1, <1>2

-----------------------------------------------------------------------------
(* The address index *)

\* A live index lists every coin, and answers for an address no less than what
\* it lists is worth; it may list coins that are gone.
Covers(ix, coins) ==
  ix.live => /\ coins \subseteq ix.keys
             /\ \A a \in Art : ix.total[a] >= Worth(OwnedBy(a, ix.keys))

\* What an address owns among coins is among them.
LEMMA OwnedIn ==
  ASSUME NEW S \in SUBSET Tx, NEW a
  PROVE  /\ OwnedBy(a, S) \in SUBSET S /\ OwnedBy(a, S) \in SUBSET Tx
         /\ Worth(OwnedBy(a, S)) \in Int
<1>1. OwnedBy(a, S) \in SUBSET S /\ OwnedBy(a, S) \in SUBSET Tx BY DEF OwnedBy
<1> QED BY <1>1, WorthIsSum

\* The three changes of an index keep that, each with the change of the coins
\* it follows.
LEMMA EnsuredCovers ==
  ASSUME NEW ix \in Index, NEW coins \in SUBSET Tx, Covers(ix, coins)
  PROVE  /\ Ensured(ix, coins) \in Index /\ Covers(Ensured(ix, coins), coins)
         /\ Ensured(ix, coins).live
<1>1. CASE ix.live BY <1>1 DEF Ensured
<1>2. CASE ~ix.live
  <2> DEFINE worth == [a \in Art |-> Worth(OwnedBy(a, coins))]
  <2>1. \A a \in Art : Worth(OwnedBy(a, coins)) \in Int BY OwnedIn
  <2>2. worth \in [Art -> Int] BY <2>1
  <2>3. Ensured(ix, coins) = [live |-> TRUE, keys |-> coins, total |-> worth]
    BY <1>2 DEF Ensured, Art
  <2>4. \A a \in Art : worth[a] >= Worth(OwnedBy(a, coins)) BY <2>1
  <2> HIDE DEF worth
  <2> QED BY <2>2, <2>3, <2>4 DEF Index, Covers
<1> QED BY <1>1, <1>2

LEMMA IndexedCovers ==
  ASSUME NEW ix \in Index, NEW coins \in SUBSET Tx, Covers(ix, coins),
         NEW S \in SUBSET Tx
  PROVE  /\ IndexedAll(ix, S) \in Index /\ Covers(IndexedAll(ix, S), coins \cup S)
         /\ IndexedAll(ix, S).live = ix.live
<1>1. CASE ~ix.live BY <1>1 DEF IndexedAll, Covers
<1>2. CASE ix.live
  <2> DEFINE keys == ix.keys \cup S
             more == [a \in Art |-> ix.total[a] + Worth(OwnedBy(a, S))]
  <2>0. ix.keys \in SUBSET Tx /\ ix.total \in [Art -> Int] /\ keys \in SUBSET Tx
    BY DEF Index
  <2>1. \A a \in Art : Worth(OwnedBy(a, S)) \in Int BY OwnedIn
  <2>2. more \in [Art -> Int] BY <2>0, <2>1
  <2>3. IndexedAll(ix, S) = [live |-> TRUE, keys |-> keys, total |-> more]
    BY <1>2 DEF IndexedAll, Index, Art
  <2>4. ASSUME NEW a \in Art PROVE more[a] >= Worth(OwnedBy(a, keys))
    <3>1. OwnedBy(a, keys) = OwnedBy(a, ix.keys) \cup OwnedBy(a, S) BY DEF OwnedBy
    <3>2. /\ OwnedBy(a, ix.keys) \in SUBSET Tx /\ OwnedBy(a, S) \in SUBSET Tx
          /\ Worth(OwnedBy(a, ix.keys)) \in Int /\ Worth(OwnedBy(a, S)) \in Int
      BY <2>0, OwnedIn
    <3>3. Worth(OwnedBy(a, keys)) <= Worth(OwnedBy(a, ix.keys)) + Worth(OwnedBy(a, S))
      <4> HIDE DEF keys
      <4> QED BY <3>1, <3>2, WorthBounds
    <3>4. ix.total[a] >= Worth(OwnedBy(a, ix.keys)) /\ ix.total[a] \in Int
      BY <1>2, <2>0 DEF Covers
    <3>5. more[a] = ix.total[a] + Worth(OwnedBy(a, S)) OBVIOUS
    <3>6. Worth(OwnedBy(a, keys)) \in Int BY <2>0, OwnedIn
    <3> HIDE DEF more, keys
    <3> QED BY <3>2, <3>3, <3>4, <3>5, <3>6
  <2>5. coins \cup S \subseteq keys BY <1>2 DEF Covers
  <2> HIDE DEF keys, more
  <2> QED BY <1>2, <2>0, <2>2, <2>3, <2>4, <2>5 DEF Index, Covers
<1> QED BY <1>1, <1>2 DEF Index

LEMMA DroppedCovers ==
  ASSUME NEW ix \in Index, NEW coins \in SUBSET Tx, Covers(ix, coins),
         NEW S \in SUBSET Tx
  PROVE  /\ DroppedAll(ix, S) \in Index /\ Covers(DroppedAll(ix, S), coins \ S)
         /\ DroppedAll(ix, S).live = ix.live
<1>1. CASE ~ix.live BY <1>1 DEF DroppedAll, Covers
<1>2. CASE ix.live
  <2> DEFINE keys == ix.keys \ S
             off(a) == Worth(OwnedBy(a, S \cap ix.keys))
             less == [a \in Art |-> Max({0, ix.total[a] - off(a)})]
  <2>0. /\ ix.keys \in SUBSET Tx /\ ix.total \in [Art -> Int] /\ keys \in SUBSET Tx
        /\ S \cap ix.keys \in SUBSET Tx
    BY DEF Index
  <2>1. \A a \in Art : off(a) \in Int BY <2>0, OwnedIn
  <2>2. ASSUME NEW a \in Art
        PROVE  less[a] \in Int /\ less[a] >= ix.total[a] - off(a)
    <3> DEFINE d == ix.total[a] - off(a)
    <3>1. d \in Int BY <2>0, <2>1
    <3>2. less[a] = Max({0, d}) OBVIOUS
    <3> HIDE DEF less, d
    <3>3. Max({0, d}) \in {0, d} /\ Max({0, d}) >= d BY <3>1, MaxOfTwo
    <3> QED BY <3>1, <3>2, <3>3 DEF d
  <2>3. less \in [Art -> Int] BY <2>2
  <2>4. DroppedAll(ix, S) = [live |-> TRUE, keys |-> keys, total |-> less]
    BY <1>2 DEF DroppedAll, Index, Art
  <2>5. ASSUME NEW a \in Art PROVE less[a] >= Worth(OwnedBy(a, keys))
    <3> DEFINE all == OwnedBy(a, ix.keys)  out == OwnedBy(a, S \cap ix.keys)
    <3>1. /\ all \in SUBSET Tx /\ out \in SUBSET all /\ all \ out = OwnedBy(a, keys)
          /\ out \in SUBSET Tx
      BY <2>0 DEF OwnedBy
    <3>2. Worth(all) = Worth(out) + Worth(OwnedBy(a, keys))
      <4> HIDE DEF all, out, keys
      <4> QED BY <3>1, WorthParts
    <3>3. ix.total[a] >= Worth(all) /\ ix.total[a] \in Int
      BY <1>2, <2>0 DEF Covers
    <3>4. Worth(OwnedBy(a, keys)) \in Int /\ Worth(out) \in Int /\ Worth(all) \in Int
      <4> HIDE DEF keys
      <4> QED BY <2>0, OwnedIn
    <3>5. less[a] >= ix.total[a] - Worth(out) /\ less[a] \in Int
      <4> HIDE DEF less
      <4> QED BY <2>2
    <3> HIDE DEF less, keys, all, out
    <3> QED BY <3>2, <3>3, <3>4, <3>5
  <2>6. coins \ S \subseteq keys BY <1>2 DEF Covers
  <2> HIDE DEF keys, less
  <2> QED BY <1>2, <2>0, <2>3, <2>4, <2>5, <2>6 DEF Index, Covers
<1> QED BY <1>1, <1>2 DEF Index

-----------------------------------------------------------------------------
(* The registry *)

\* A POST transaction of an artwork, and an artwork that has at most one.
IsPost(x, a) == Event[x] = "POST" /\ Owner[x] = a
OnePost(a) == \A x, y \in Tx : IsPost(x, a) /\ IsPost(y, a) => x = y

\* The record of an artwork is one of its POSTs, nothing is paid out before it,
\* and of an artwork with one POST what is paid is at most the last paid epoch.
PaidInOrder(r) ==
  \A a \in Art :
    /\ r.posts[a] # NoPost => IsPost(r.posts[a].by, a)
    /\ r.payouts[a] # {} => r.posts[a] # NoPost
    /\ OnePost(a) =>
         /\ \A x \in r.payouts[a] : Epoch[x] <= r.posts[a].last
         /\ \A x, y \in r.payouts[a] : x # y => Epoch[x] # Epoch[y] \/ Epoch[x] < 0

\* A set with one element more.
With(S, x) == S \cup {x}

\* The same entry with another balance.
LEMMA Rebalanced ==
  ASSUME NEW p \in Posted, NEW balance \in Int
  PROVE  LET n == [p EXCEPT !.balance = balance]
         IN  n \in Posted /\ n # NoPost /\ n.by = p.by /\ n.last = p.last
<1>1. [p EXCEPT !.balance = balance] \in Posted BY DEF Posted
<1> QED BY <1>1, PostedIsOne DEF Posted

\* Nothing of the other artworks changes.
OthersKept(r, q, a) ==
  \A b \in Art \ {a} : /\ q.posts[b] = r.posts[b] /\ q.comments[b] = r.comments[b]
                       /\ q.payouts[b] = r.payouts[b]

\* A POST that pays is the record from then on.
LEMMA PostRecorded ==
  ASSUME NEW r \in Registry, NEW x \in Tx, NEW balance \in Int,
         NEW a, a = Owner[x], NEW q, q = RecordPost(r, x, balance)
  PROVE  /\ q \in Registry /\ OthersKept(r, q, a)
         /\ q.payouts = r.payouts /\ q.comments = r.comments
         /\ Amount[x] < MinFee => q = r
         /\ Amount[x] >= MinFee =>
              /\ q.posts[a] \in Posted /\ q.posts[a].by = x
              /\ r.posts[a].by = x => q.posts[a].last = r.posts[a].last
<1>0. /\ a \in Art /\ Amount[x] \in Int /\ MinFee \in Int /\ NoPost.by # x
  BY GraffitiAssumption DEF Art, Owners, Tx
<1>1. r.posts \in [Art -> {NoPost} \cup Posted] /\ r.posts[a] \in {NoPost} \cup Posted
  BY <1>0 DEF Registry
<1>2. CASE Amount[x] < MinFee
  <2>1. q = r BY <1>2 DEF RecordPost
  <2> QED BY <1>0, <1>2, <2>1 DEF OthersKept
<1>3. CASE Amount[x] >= MinFee
  <2>1. ASSUME NEW p \in Posted, q = [r EXCEPT !.posts[a] = p]
        PROVE  /\ q \in Registry /\ OthersKept(r, q, a) /\ q.posts[a] = p
               /\ q.payouts = r.payouts /\ q.comments = r.comments
    <3>1. q.posts = [r.posts EXCEPT ![a] = p] BY <2>1 DEF Registry
    <3>2. q.posts \in [Art -> {NoPost} \cup Posted] BY <1>0, <1>1, <3>1
    <3> QED BY <1>0, <1>1, <2>1, <3>1, <3>2 DEF Registry, OthersKept
  <2>2. CASE r.posts[a].by = x
    <3> DEFINE p == [r.posts[a] EXCEPT !.balance = balance]
    <3>1. r.posts[a] \in Posted BY <1>0, <1>1, <2>2
    <3>2. p \in Posted /\ p.by = x /\ p.last = r.posts[a].last
      BY <2>2, <3>1, Rebalanced
    <3>3. q = [r EXCEPT !.posts[a] = p] BY <1>0, <1>3, <2>2 DEF RecordPost
    <3> HIDE DEF p
    <3> QED BY <1>0, <1>3, <2>1, <3>2, <3>3
  <2>3. CASE r.posts[a].by # x
    <3> DEFINE p == [by |-> x, balance |-> balance, last |-> -1]
    <3>1. p \in Posted /\ p.by = x BY DEF Posted
    <3>2. q = [r EXCEPT !.posts[a] = p] BY <1>0, <1>3, <2>3 DEF RecordPost
    <3> HIDE DEF p
    <3> QED BY <1>0, <1>3, <2>1, <2>3, <3>1, <3>2
  <2> QED BY <2>2, <2>3
<1> QED BY <1>0, <1>2, <1>3

\* A comment joins those of a recorded artwork.
LEMMA CommentRecorded ==
  ASSUME NEW r \in Registry, NEW x \in Tx, NEW balance \in Int,
         NEW a, a = Owner[x], NEW q, q = RecordComment(r, x, balance)
  PROVE  /\ q \in Registry /\ OthersKept(r, q, a) /\ q.payouts = r.payouts
         /\ r.posts[a] = NoPost => q = r
         /\ r.posts[a] # NoPost =>
              /\ r.posts[a] \in Posted /\ q.posts[a] \in Posted
              /\ q.posts[a].by = r.posts[a].by /\ q.posts[a].last = r.posts[a].last
              /\ q.comments[a] = With(r.comments[a], x)
<1>0. a \in Art BY DEF Art, Owners, Tx
<1>1. /\ r.posts \in [Art -> {NoPost} \cup Posted] /\ r.posts[a] \in {NoPost} \cup Posted
      /\ r.comments \in [Art -> SUBSET Tx]
  BY <1>0 DEF Registry
<1>2. CASE r.posts[a] = NoPost
  <2>1. q = r BY <1>2 DEF RecordComment
  <2> QED BY <1>0, <1>2, <2>1 DEF OthersKept
<1>3. CASE r.posts[a] # NoPost
  <2> DEFINE p == [r.posts[a] EXCEPT !.balance = balance]
             c == r.comments[a] \cup {x}
  <2>1. r.posts[a] \in Posted BY <1>1, <1>3
  <2>2. p \in Posted /\ p.by = r.posts[a].by /\ p.last = r.posts[a].last
    BY <2>1, Rebalanced
  <2>3. q = [r EXCEPT !.comments[a] = c, !.posts[a] = p] BY <1>3 DEF RecordComment
  <2>4. c \in SUBSET Tx BY <1>0, <1>1
  <2>5. q.posts = [r.posts EXCEPT ![a] = p] /\ q.comments = [r.comments EXCEPT ![a] = c]
    <3> HIDE DEF p, c
    <3> QED BY <2>3 DEF Registry
  <2>6. q.posts \in [Art -> {NoPost} \cup Posted] /\ q.comments \in [Art -> SUBSET Tx]
    <3> HIDE DEF p, c
    <3> QED BY <1>0, <1>1, <2>2, <2>4, <2>5
  <2>7. q.posts[a] = p /\ q.comments[a] = c
    <3> HIDE DEF p, c
    <3> QED BY <1>0, <1>1, <2>5
  <2>8. q \in Registry /\ OthersKept(r, q, a) /\ q.payouts = r.payouts
    <3> HIDE DEF p, c
    <3> QED BY <1>0, <1>1, <2>3, <2>5, <2>6 DEF Registry, OthersKept
  <2> QED BY <1>3, <2>1, <2>2, <2>7, <2>8 DEF With
<1> QED BY <1>2, <1>3

\* The entry of a payout.
Enters(r, q, x, a) ==
  /\ q.payouts[a] = r.payouts[a] \cup {x}
  /\ q.posts[a].last >= r.posts[a].last /\ q.posts[a].last >= Epoch[x]
  /\ Epoch[x] < 0 \/ Epoch[x] > r.posts[a].last

\* A payout of a recorded artwork is entered if its epoch is not paid, and the
\* epoch is the last paid then.
LEMMA PayoutRecorded ==
  ASSUME NEW r \in Registry, NEW x \in Tx, NEW balance \in Int,
         NEW a, a = Owner[x], NEW q, q = RecordPayout(r, x, balance)
  PROVE  /\ q \in Registry /\ OthersKept(r, q, a) /\ q.comments = r.comments
         /\ r.posts[a] = NoPost => q = r
         /\ r.posts[a] # NoPost =>
              /\ r.posts[a] \in Posted /\ q.posts[a] \in Posted
              /\ q.posts[a].by = r.posts[a].by
              /\ \/ q.payouts[a] = r.payouts[a] /\ q.posts[a].last = r.posts[a].last
                 \/ Enters(r, q, x, a)
<1>0. a \in Art /\ Epoch[x] \in Int /\ Claim[x] \in Int
  BY GraffitiAssumption DEF Art, Owners, Tx
<1>1. /\ r.posts \in [Art -> {NoPost} \cup Posted] /\ r.posts[a] \in {NoPost} \cup Posted
      /\ r.payouts \in [Art -> SUBSET Tx] /\ r.proofs \in [Art -> SUBSET Proof]
  BY <1>0 DEF Registry
<1>2. CASE r.posts[a] = NoPost
  <2>1. q = r BY <1>2 DEF RecordPayout
  <2> QED BY <1>0, <1>2, <2>1 DEF OthersKept
<1>3. CASE r.posts[a] # NoPost
  <2>1. r.posts[a] \in Posted BY <1>1, <1>3
  <2>2. r.posts[a].last \in Int BY <2>1 DEF Posted
  <2> DEFINE Form(p, P, F) ==
        [posts |-> [r.posts EXCEPT ![a] = p], comments |-> r.comments,
         payouts |-> [r.payouts EXCEPT ![a] = P], proofs |-> [r.proofs EXCEPT ![a] = F]]
  \* The form all outcomes have.
  <2>3. ASSUME NEW p \in Posted, NEW P \in SUBSET Tx, NEW F \in SUBSET Proof,
               q = Form(p, P, F)
        PROVE  /\ q \in Registry /\ OthersKept(r, q, a) /\ q.comments = r.comments
               /\ q.posts[a] = p /\ q.payouts[a] = P
    <3>1. /\ q.posts = [r.posts EXCEPT ![a] = p] /\ q.comments = r.comments
          /\ q.payouts = [r.payouts EXCEPT ![a] = P]
          /\ q.proofs = [r.proofs EXCEPT ![a] = F]
      BY <2>3
    <3>2. /\ q.posts \in [Art -> {NoPost} \cup Posted]
          /\ q.payouts \in [Art -> SUBSET Tx] /\ q.proofs \in [Art -> SUBSET Proof]
          /\ q.posts[a] = p /\ q.payouts[a] = P
      BY <1>0, <1>1, <3>1
    <3>3. q \in Registry BY <2>3, <3>1, <3>2 DEF Registry
    <3>4. OthersKept(r, q, a) BY <1>0, <1>1, <3>1 DEF OthersKept
    <3> QED BY <3>1, <3>2, <3>3, <3>4
  <2> DEFINE asked == [r.posts[a] EXCEPT !.balance = balance]
             paid == [by |-> r.posts[a].by, balance |-> balance,
                      last |-> Max({r.posts[a].last, Epoch[x]})]
             F == r.proofs[a]
             new == IF Claim[x] < 0 THEN F
                    ELSE F \cup {[storer |-> Storer[x], epoch |-> Claim[x]]}
             P == r.payouts[a]
             proved == IF Claim[x] < 0 THEN r
                       ELSE [r EXCEPT !.proofs[a] =
                               @ \cup {[storer |-> Storer[x], epoch |-> Claim[x]]}]
  <2>4. /\ asked \in Posted /\ asked.by = r.posts[a].by /\ asked.last = r.posts[a].last
    BY <2>1, Rebalanced
  <2>5. /\ paid \in Posted /\ paid.by = r.posts[a].by
        /\ paid.last >= r.posts[a].last /\ paid.last >= Epoch[x]
    <3> DEFINE m == Max({r.posts[a].last, Epoch[x]})
    <3>1. m \in Int /\ m >= r.posts[a].last /\ m >= Epoch[x] BY <1>0, <2>2, MaxOfTwo
    <3>2. paid.last = m /\ paid.by = r.posts[a].by OBVIOUS
    <3>3. paid \in Posted BY <2>1, <3>1 DEF Posted
    <3> HIDE DEF paid, m
    <3> QED BY <3>1, <3>2, <3>3
  <2>6. F \in SUBSET Proof /\ new \in SUBSET Proof /\ P \in SUBSET Tx
        /\ P \cup {x} \in SUBSET Tx
    <3>1. F \in SUBSET Proof /\ P \in SUBSET Tx BY <1>0, <1>1
    <3>2. [storer |-> Storer[x], epoch |-> Claim[x]] \in Proof BY <1>0 DEF Proof
    <3> QED BY <3>1, <3>2
  <2>7. /\ [r.posts EXCEPT ![a] = r.posts[a]] = r.posts
        /\ [r.payouts EXCEPT ![a] = P] = r.payouts
        /\ [r.proofs EXCEPT ![a] = F] = r.proofs
    BY <1>1
  <2>8. CASE q = r
    <3>1. r = [posts |-> r.posts, comments |-> r.comments, payouts |-> r.payouts,
               proofs |-> r.proofs]
      BY DEF Registry
    <3>2. q = Form(r.posts[a], P, F)
      <4> HIDE DEF P, F
      <4> QED BY <2>7, <2>8, <3>1
    <3> HIDE DEF Form, P, F
    <3>3. q \in Registry /\ OthersKept(r, q, a) /\ q.comments = r.comments
      BY <2>1, <2>3, <2>6, <3>2
    <3> QED BY <1>3, <2>1, <2>8, <3>3
  <2>9. CASE Rewinds(r, x) /\ x \in P
    <3>1. q = [r EXCEPT !.posts[a].balance = balance] BY <1>3, <2>9 DEF RecordPayout
    <3>2. q = [posts |-> [r.posts EXCEPT ![a] = asked], comments |-> r.comments,
               payouts |-> r.payouts, proofs |-> r.proofs]
      BY <3>1 DEF Registry
    <3>3. q = Form(asked, P, F)
      <4> HIDE DEF asked, P, F
      <4> QED BY <2>7, <3>2
    <3> HIDE DEF Form, asked, P, F
    <3>4. /\ q \in Registry /\ OthersKept(r, q, a) /\ q.comments = r.comments
          /\ q.posts[a] = asked /\ q.payouts[a] = P
      BY <2>3, <2>4, <2>6, <3>3
    <3> QED BY <1>3, <2>1, <2>4, <3>4 DEF P
  <2>10. CASE ~Rewinds(r, x) /\ ~(Pays[x] > r.posts[a].balance)
    <3>1. proved = [posts |-> r.posts, comments |-> r.comments, payouts |-> r.payouts,
                    proofs |-> [r.proofs EXCEPT ![a] = new]]
      <4>1. CASE Claim[x] < 0 BY <2>7, <4>1 DEF Registry
      <4>2. CASE ~(Claim[x] < 0) BY <4>2 DEF Registry
      <4> QED BY <4>1, <4>2
    <3>2. CASE x \in P
      <4>1. q = [proved EXCEPT !.posts[a].balance = balance]
        BY <1>3, <2>10, <3>2 DEF RecordPayout
      <4>2. q = [posts |-> [r.posts EXCEPT ![a] = asked], comments |-> r.comments,
                 payouts |-> r.payouts, proofs |-> [r.proofs EXCEPT ![a] = new]]
        <5> HIDE DEF proved, new
        <5> QED BY <3>1, <4>1
      <4>3. q = Form(asked, P, new)
        <5> HIDE DEF asked, P, new
        <5> QED BY <2>7, <4>2
      <4> HIDE DEF Form, asked, P, new
      <4>4. /\ q \in Registry /\ OthersKept(r, q, a) /\ q.comments = r.comments
            /\ q.posts[a] = asked /\ q.payouts[a] = P
        BY <2>3, <2>4, <2>6, <4>3
      <4> QED BY <1>3, <2>1, <2>4, <4>4 DEF P
    <3>3. CASE x \notin P
      <4>1. q = [proved EXCEPT !.payouts[a] = @ \cup {x},
                               !.posts[a] = Paid(@, x, balance)]
        BY <1>3, <2>10, <3>3 DEF RecordPayout
      <4>2. Paid(r.posts[a], x, balance) = paid
        <5> DEFINE m == Max({r.posts[a].last, Epoch[x]})
        <5>1. r.posts[a] = [by |-> r.posts[a].by, balance |-> r.posts[a].balance,
                            last |-> r.posts[a].last]
          BY <2>1 DEF Posted
        <5>2. Paid(r.posts[a], x, balance) = [r.posts[a] EXCEPT !.balance = balance, !.last = m]
          BY DEF Paid
        <5>3. paid = [by |-> r.posts[a].by, balance |-> balance, last |-> m] OBVIOUS
        <5> HIDE DEF paid, m
        <5> QED BY <5>1, <5>2, <5>3
      <4>3. q = [posts |-> [r.posts EXCEPT ![a] = paid], comments |-> r.comments,
                 payouts |-> [r.payouts EXCEPT ![a] = P \cup {x}],
                 proofs |-> [r.proofs EXCEPT ![a] = new]]
        <5>1. q = [proved EXCEPT !.payouts = [proved.payouts EXCEPT ![a] = proved.payouts[a] \cup {x}],
                                 !.posts = [proved.posts EXCEPT ![a] = Paid(proved.posts[a], x, balance)]]
          BY <4>1
        <5>2. proved.payouts = r.payouts /\ proved.posts = r.posts
          <6> HIDE DEF proved, new
          <6> QED BY <3>1
        <5>3. q = [proved EXCEPT !.payouts = [r.payouts EXCEPT ![a] = P \cup {x}],
                                 !.posts = [r.posts EXCEPT ![a] = paid]]
          <6> HIDE DEF proved, paid
          <6> QED BY <5>1, <5>2, <4>2
        <5> HIDE DEF proved, new, paid, P
        <5> QED BY <5>3, <3>1
      <4>4. q = Form(paid, P \cup {x}, new)
        <5> HIDE DEF paid, P, new
        <5> QED BY <4>3
      <4>5. Epoch[x] < 0 \/ Epoch[x] > r.posts[a].last
        BY <1>0, <2>2, <2>10 DEF Rewinds
      <4> HIDE DEF Form, paid, P, new
      <4>6. /\ q \in Registry /\ OthersKept(r, q, a) /\ q.comments = r.comments
            /\ q.posts[a] = paid /\ q.payouts[a] = P \cup {x}
        BY <2>3, <2>5, <2>6, <4>4
      <4>7. Enters(r, q, x, a) BY <2>5, <4>5, <4>6 DEF Enters, P
      <4> QED BY <1>3, <2>1, <2>5, <4>6, <4>7
    <3> QED BY <3>2, <3>3
  <2>11. q = r \/ (Rewinds(r, x) /\ x \in P)
              \/ (~Rewinds(r, x) /\ ~(Pays[x] > r.posts[a].balance))
    BY <1>3 DEF RecordPayout
  <2> QED BY <2>8, <2>9, <2>10, <2>11
<1> QED BY <1>2, <1>3

\* A transaction is recorded by its event.
LEMMA RecordedCases ==
  ASSUME NEW r, NEW x \in Tx, NEW balance
  PROVE  /\ Event[x] = "POST" => Recorded(r, x, balance) = RecordPost(r, x, balance)
         /\ Event[x] = "COMMENT" => Recorded(r, x, balance) = RecordComment(r, x, balance)
         /\ Event[x] = "PAYOUT" => Recorded(r, x, balance) = RecordPayout(r, x, balance)
         /\ Event[x] \in {"POST", "COMMENT", "PAYOUT"}
  BY GraffitiAssumption DEF Recorded

\* Recording keeps what is paid in order.
LEMMA RecordedInOrder ==
  ASSUME NEW r \in Registry, NEW x \in Tx, NEW balance \in Int
  PROVE  /\ Recorded(r, x, balance) \in Registry
         /\ PaidInOrder(r) => PaidInOrder(Recorded(r, x, balance))
<1> DEFINE a == Owner[x]
           q == Recorded(r, x, balance)
<1>0. a \in Art BY DEF Art, Owners, Tx
<1>1. r.posts[a] \in {NoPost} \cup Posted /\ r.payouts \in [Art -> SUBSET Tx]
  BY <1>0 DEF Registry
<1>2. NoPost.by \notin Tx /\ Epoch[x] \in Int /\ Amount[x] \in Int /\ MinFee \in Int
  BY GraffitiAssumption DEF Tx
\* The others of an artwork's entries are as they were.
<1>3. ASSUME OthersKept(r, q, a), PaidInOrder(r),
             q.posts[a] # NoPost => IsPost(q.posts[a].by, a),
             q.payouts[a] # {} => q.posts[a] # NoPost,
             OnePost(a) =>
               /\ \A y \in q.payouts[a] : Epoch[y] <= q.posts[a].last
               /\ \A y, z \in q.payouts[a] : y # z => Epoch[y] # Epoch[z] \/ Epoch[y] < 0
      PROVE  PaidInOrder(q)
  <2> SUFFICES ASSUME NEW b \in Art
               PROVE  /\ q.posts[b] # NoPost => IsPost(q.posts[b].by, b)
                      /\ q.payouts[b] # {} => q.posts[b] # NoPost
                      /\ OnePost(b) =>
                           /\ \A y \in q.payouts[b] : Epoch[y] <= q.posts[b].last
                           /\ \A y, z \in q.payouts[b] :
                                y # z => Epoch[y] # Epoch[z] \/ Epoch[y] < 0
    BY DEF PaidInOrder
  <2> HIDE DEF q, a
  <2>1. CASE b = a BY <1>3, <2>1
  <2>2. CASE b # a
    <3>1. q.posts[b] = r.posts[b] /\ q.payouts[b] = r.payouts[b]
      BY <1>3, <2>2 DEF OthersKept
    <3> QED BY <1>3, <3>1 DEF PaidInOrder
  <2> QED BY <2>1, <2>2
<1>4. CASE Event[x] = "POST"
  <2>1. q = RecordPost(r, x, balance) BY <1>4, RecordedCases
  <2>2. /\ q \in Registry /\ OthersKept(r, q, a) /\ q.payouts = r.payouts
        /\ Amount[x] < MinFee => q = r
        /\ Amount[x] >= MinFee =>
              /\ q.posts[a] \in Posted /\ q.posts[a].by = x
              /\ r.posts[a].by = x => q.posts[a].last = r.posts[a].last
    <3> HIDE DEF q
    <3> QED BY <2>1, PostRecorded
  <2>3. ASSUME PaidInOrder(r) PROVE PaidInOrder(q)
    <3> HIDE DEF q, a
    <3>1. CASE Amount[x] < MinFee BY <2>2, <2>3, <3>1
    <3>2. CASE Amount[x] >= MinFee
      <4>1. IsPost(q.posts[a].by, a) BY <1>4, <2>2, <3>2 DEF IsPost, a
      <4>2. q.posts[a] # NoPost BY <2>2, <3>2, PostedIsOne
      <4>3. ASSUME OnePost(a), q.payouts[a] # {} PROVE q.posts[a].last = r.posts[a].last
        <5>1. r.posts[a] # NoPost /\ IsPost(r.posts[a].by, a)
          BY <1>0, <2>2, <2>3, <4>3 DEF PaidInOrder
        <5>2. r.posts[a].by \in Tx BY <1>1, <5>1 DEF Posted
        <5>3. r.posts[a].by = x BY <4>1, <2>2, <3>2, <4>3, <5>1, <5>2 DEF OnePost
        <5> QED BY <2>2, <3>2, <5>3
      <4>4. OnePost(a) =>
              /\ \A y \in q.payouts[a] : Epoch[y] <= q.posts[a].last
              /\ \A y, z \in q.payouts[a] : y # z => Epoch[y] # Epoch[z] \/ Epoch[y] < 0
        <5> SUFFICES ASSUME OnePost(a), q.payouts[a] # {}
                     PROVE  /\ \A y \in q.payouts[a] : Epoch[y] <= q.posts[a].last
                            /\ \A y, z \in q.payouts[a] :
                                 y # z => Epoch[y] # Epoch[z] \/ Epoch[y] < 0
          OBVIOUS
        <5>1. q.posts[a].last = r.posts[a].last BY <4>3
        <5> QED BY <1>0, <2>2, <2>3, <5>1 DEF PaidInOrder
      <4> QED BY <1>3, <2>2, <2>3, <4>1, <4>2, <4>4
    <3> QED BY <1>2, <3>1, <3>2
  <2> QED BY <2>2, <2>3
<1>5. CASE Event[x] = "COMMENT"
  <2>1. q = RecordComment(r, x, balance) BY <1>5, RecordedCases
  <2>2. /\ q \in Registry /\ OthersKept(r, q, a) /\ q.payouts = r.payouts
        /\ r.posts[a] = NoPost => q = r
        /\ r.posts[a] # NoPost =>
              /\ q.posts[a] \in Posted
              /\ q.posts[a].by = r.posts[a].by /\ q.posts[a].last = r.posts[a].last
    <3> HIDE DEF q
    <3> QED BY <2>1, CommentRecorded
  <2>3. ASSUME PaidInOrder(r) PROVE PaidInOrder(q)
    <3> HIDE DEF q, a
    <3>1. CASE r.posts[a] = NoPost BY <2>2, <2>3, <3>1
    <3>2. CASE r.posts[a] # NoPost
      <4>1. q.posts[a] # NoPost BY <2>2, <3>2, PostedIsOne
      <4> QED BY <1>0, <1>3, <2>2, <2>3, <3>2, <4>1 DEF PaidInOrder
    <3> QED BY <3>1, <3>2
  <2> QED BY <2>2, <2>3
<1>6. CASE Event[x] = "PAYOUT"
  <2>1. q = RecordPayout(r, x, balance) BY <1>6, RecordedCases
  <2>2. /\ q \in Registry /\ OthersKept(r, q, a)
        /\ r.posts[a] = NoPost => q = r
        /\ r.posts[a] # NoPost =>
              /\ r.posts[a] \in Posted /\ q.posts[a] \in Posted
              /\ q.posts[a].by = r.posts[a].by
              /\ \/ q.payouts[a] = r.payouts[a] /\ q.posts[a].last = r.posts[a].last
                 \/ Enters(r, q, x, a)
    <3>1. a = Owner[x] OBVIOUS
    <3> HIDE DEF q, a
    <3> QED BY <2>1, <3>1, PayoutRecorded
  <2>3. ASSUME PaidInOrder(r) PROVE PaidInOrder(q)
    <3> HIDE DEF q, a
    <3>1. CASE r.posts[a] = NoPost BY <2>2, <2>3, <3>1
    <3>2. CASE r.posts[a] # NoPost
      <4>1. q.posts[a] # NoPost BY <2>2, <3>2, PostedIsOne
      <4>2. CASE q.payouts[a] = r.payouts[a] /\ q.posts[a].last = r.posts[a].last
        BY <1>0, <1>3, <2>2, <2>3, <3>2, <4>1, <4>2 DEF PaidInOrder
      <4>3. CASE Enters(r, q, x, a)
        <5>1. r.posts[a].last \in Int BY <2>2, <3>2 DEF Posted
        <5>2. q.posts[a].last >= r.posts[a].last /\ q.posts[a].last >= Epoch[x]
              /\ q.posts[a].last \in Int
          BY <2>2, <3>2, <4>3 DEF Posted, Enters
        <5>3. IsPost(q.posts[a].by, a) BY <1>0, <2>2, <2>3, <3>2 DEF PaidInOrder
        <5>4. \A y \in r.payouts[a] : Epoch[y] \in Int
          BY <1>0, <1>1, GraffitiAssumption DEF Tx
        <5>5. OnePost(a) => \A y \in q.payouts[a] : Epoch[y] <= q.posts[a].last
          BY <1>0, <1>2, <2>3, <4>3, <5>1, <5>2, <5>4 DEF PaidInOrder, Enters
        <5>6. OnePost(a) => \A y, z \in q.payouts[a] :
                               y # z => Epoch[y] # Epoch[z] \/ Epoch[y] < 0
          <6> SUFFICES ASSUME OnePost(a), NEW y \in q.payouts[a], NEW z \in q.payouts[a],
                              y # z, Epoch[y] = Epoch[z], ~(Epoch[y] < 0)
                       PROVE  FALSE
            OBVIOUS
          <6>1. \A u \in r.payouts[a] : Epoch[u] <= r.posts[a].last
            BY <1>0, <2>3 DEF PaidInOrder
          <6>2. CASE y = x \/ z = x
            <7>1. PICK u \in r.payouts[a] : Epoch[u] = Epoch[x] BY <4>3, <6>2 DEF Enters
            <7>2. Epoch[u] <= r.posts[a].last BY <6>1
            <7>3. ~(Epoch[x] < 0) BY <6>2
            <7> QED BY <1>2, <4>3, <5>1, <7>1, <7>2, <7>3 DEF Enters
          <6>3. CASE y # x /\ z # x
            <7>1. y \in r.payouts[a] /\ z \in r.payouts[a] BY <4>3, <6>3 DEF Enters
            <7> QED BY <1>0, <2>3, <7>1 DEF PaidInOrder
          <6> QED BY <6>2, <6>3
        <5> QED BY <1>3, <2>2, <2>3, <4>1, <5>3, <5>5, <5>6
      <4> QED BY <2>2, <3>2, <4>2, <4>3
    <3> QED BY <3>1, <3>2
  <2> QED BY <2>2, <2>3
<1> QED BY <1>4, <1>5, <1>6, RecordedCases

\* Only another POST of an artwork sets its last paid epoch back.
LEMMA RecordedKeepsEpoch ==
  ASSUME NEW r \in Registry, NEW x \in Tx, NEW balance \in Int, NEW b \in Art,
         r.posts[b] # NoPost, IsPost(x, b) => x = r.posts[b].by,
         NEW q, q = Recorded(r, x, balance)
  PROVE  /\ q \in Registry
         /\ q.posts[b] # NoPost /\ q.posts[b].by = r.posts[b].by
         /\ q.posts[b].last >= r.posts[b].last
<1> DEFINE a == Owner[x]
<1>0. /\ a \in Art /\ Amount[x] \in Int /\ MinFee \in Int /\ Epoch[x] \in Int
  BY GraffitiAssumption DEF Art, Owners, Tx
<1>1. r.posts[b] \in Posted /\ r.posts[b].last \in Int BY DEF Registry, Posted
<1>2. q \in Registry BY RecordedInOrder
<1>3. CASE b # a
  <2>1. OthersKept(r, q, a)
    <3>1. a = Owner[x] OBVIOUS
    <3> HIDE DEF a
    <3>2. CASE Event[x] = "POST" BY <3>1, <3>2, RecordedCases, PostRecorded
    <3>3. CASE Event[x] = "COMMENT" BY <3>1, <3>3, RecordedCases, CommentRecorded
    <3>4. CASE Event[x] = "PAYOUT" BY <3>1, <3>4, RecordedCases, PayoutRecorded
    <3> QED BY <3>2, <3>3, <3>4, RecordedCases
  <2>2. q.posts[b] = r.posts[b] BY <1>3, <2>1 DEF OthersKept
  <2> QED BY <1>1, <1>2, <2>2
<1>4. CASE b = a /\ Event[x] = "POST"
  <2>1. x = r.posts[a].by BY <1>4 DEF IsPost
  <2>2. /\ Amount[x] < MinFee => q = r
        /\ Amount[x] >= MinFee =>
              /\ q.posts[a] \in Posted /\ q.posts[a].by = x
              /\ r.posts[a].by = x => q.posts[a].last = r.posts[a].last
    BY <1>4, RecordedCases, PostRecorded
  <2>3. CASE Amount[x] < MinFee BY <1>1, <1>2, <2>2, <2>3
  <2>4. CASE Amount[x] >= MinFee
    BY <1>1, <1>2, <1>4, <2>1, <2>2, <2>4, PostedIsOne
  <2> QED BY <1>0, <2>3, <2>4
<1>5. CASE b = a /\ Event[x] = "COMMENT"
  <2>1. /\ q.posts[a] \in Posted
        /\ q.posts[a].by = r.posts[a].by /\ q.posts[a].last = r.posts[a].last
    BY <1>5, RecordedCases, CommentRecorded
  <2> QED BY <1>1, <1>2, <1>5, <2>1, PostedIsOne
<1>6. CASE b = a /\ Event[x] = "PAYOUT"
  <2>1. /\ q.posts[a] \in Posted /\ q.posts[a].by = r.posts[a].by
        /\ \/ q.posts[a].last = r.posts[a].last
           \/ Enters(r, q, x, a)
    <3>1. a = Owner[x] /\ r.posts[a] # NoPost BY <1>6
    <3> HIDE DEF a
    <3> QED BY <1>6, <3>1, RecordedCases, PayoutRecorded
  <2>2. q.posts[a].last >= r.posts[a].last BY <1>1, <1>6, <2>1 DEF Enters
  <2> QED BY <1>2, <1>6, <2>1, <2>2, PostedIsOne
<1> QED BY <1>3, <1>4, <1>5, <1>6, RecordedCases

\* With one event more, in place n, a paid POST is the last, and a comment
\* counts if a paid POST was there.
OneMore(events, x, more, n, b) ==
  /\ PostsIn(events, b) \in SUBSET (1..(n - 1))
  /\ \A i \in PostsIn(events, b) : more[i] = events[i]
  /\ PostsIn(more, b) = IF IsPost(x, b) /\ Amount[x] >= MinFee
                        THEN With(PostsIn(events, b), n) ELSE PostsIn(events, b)
  /\ CommentsIn(more, b) =
       IF Event[x] = "COMMENT" /\ Owner[x] = b /\ PostsIn(events, b) # {}
       THEN With(CommentsIn(events, b), x) ELSE CommentsIn(events, b)
  /\ more[n] = x

\* That is what appending an event does.
LEMMA EventsAppend ==
  ASSUME NEW events \in Seq(Tx), NEW x \in Tx, NEW b
  PROVE  OneMore(events, x, Append(events, x), Len(events) + 1, b)
<1> DEFINE more == Append(events, x)
           n == Len(events) + 1
<1>0. /\ Len(events) \in Nat /\ DOMAIN events = 1..(n - 1) /\ DOMAIN more = 1..n
      /\ n \in Nat \ {0} /\ more[n] = x
      /\ \A i \in 1..(n - 1) : more[i] = events[i] /\ i \in 1..n /\ i # n /\ i < n
      /\ \A i \in 1..n : i = n \/ i \in 1..(n - 1)
  OBVIOUS
<1> DEFINE Paid1(i, e) == Event[e[i]] = "POST" /\ Owner[e[i]] = b /\ Amount[e[i]] >= MinFee
           paid == IsPost(x, b) /\ Amount[x] >= MinFee
           posts == PostsIn(events, b)
           later == PostsIn(more, b)
<1>1. /\ posts = {i \in 1..(n - 1) : Paid1(i, events)}
      /\ later = {i \in 1..n : Paid1(i, more)}
      /\ Paid1(n, more) <=> paid
  BY <1>0 DEF PostsIn, IsPost
<1>2. later = IF paid THEN posts \cup {n} ELSE posts
  <2>1. \A i \in 1..(n - 1) : Paid1(i, more) <=> Paid1(i, events) BY <1>0
  <2> HIDE DEF Paid1, paid, posts, later
  <2> QED BY <1>0, <1>1, <2>1
<1>3. posts \in SUBSET (1..(n - 1)) /\ \A i \in posts : more[i] = events[i]
  <2> HIDE DEF Paid1, posts
  <2> QED BY <1>0, <1>1
<1> DEFINE Said(i, e) == Event[e[i]] = "COMMENT" /\ Owner[e[i]] = b
           said == Event[x] = "COMMENT" /\ Owner[x] = b
           K == {j \in 1..(n - 1) : Said(j, events) /\ \E k \in posts : k < j}
           L == {j \in 1..n : Said(j, more) /\ \E k \in later : k < j}
<1>4. /\ CommentsIn(events, b) = {events[j] : j \in K}
      /\ CommentsIn(more, b) = {more[j] : j \in L}
      /\ Said(n, more) <=> said
  BY <1>0 DEF CommentsIn
<1>5. ASSUME NEW j \in 1..n
      PROVE  (\E k \in later : k < j) <=> (\E k \in posts : k < j)
  <2> HIDE DEF posts, later, paid
  <2> QED BY <1>0, <1>2, <1>3
<1>6. L = IF said /\ posts # {} THEN K \cup {n} ELSE K
  <2>1. \A j \in 1..(n - 1) : Said(j, more) <=> Said(j, events) BY <1>0
  <2>2. (\E k \in posts : k < n) <=> posts # {}
    <3> HIDE DEF posts
    <3> QED BY <1>0, <1>3
  <2>3. \A j \in 1..(n - 1) : j \in L <=> j \in K
    <3> HIDE DEF Said, posts, later
    <3> QED BY <1>0, <1>5, <2>1
  <2>4. n \in L <=> said /\ posts # {}
    <3>1. n \in 1..n BY <1>0
    <3> HIDE DEF Said, posts, later, said
    <3> QED BY <1>4, <1>5, <2>2, <3>1
  <2>5. L \in SUBSET (1..n) /\ K \in SUBSET (1..(n - 1)) OBVIOUS
  <2> HIDE DEF L, K, said, posts
  <2>6. \A j \in L : j = n \/ j \in K BY <1>0, <2>3, <2>5
  <2>7. n \notin K BY <1>0, <2>5
  <2>8. K \subseteq L BY <1>0, <2>3, <2>5
  <2>9. CASE said /\ posts # {} BY <2>4, <2>6, <2>8, <2>9
  <2>10. CASE ~(said /\ posts # {})
    <3>1. n \notin L BY <2>4, <2>10
    <3>2. L = K BY <2>6, <2>8, <3>1
    <3> QED BY <2>10, <3>2
  <2> QED BY <2>9, <2>10
<1>7. CommentsIn(more, b) = IF said /\ posts # {} THEN CommentsIn(events, b) \cup {x}
                            ELSE CommentsIn(events, b)
  <2>1. K \in SUBSET (1..(n - 1)) OBVIOUS
  <2> HIDE DEF K, L, said, posts
  <2>2. \A j \in K : more[j] = events[j] BY <1>0, <2>1
  <2> HIDE DEF Said
  <2>3. {more[j] : j \in K} = CommentsIn(events, b) BY <1>4, <2>2
  <2>4. {more[j] : j \in K \cup {n}} = {more[j] : j \in K} \cup {more[n]} OBVIOUS
  <2>5. CASE said /\ posts # {}
    <3>1. L = K \cup {n} BY <1>6, <2>5
    <3>2. CommentsIn(more, b) = {more[j] : j \in K \cup {n}} BY <1>4, <3>1
    <3> QED BY <1>0, <2>3, <2>4, <2>5, <3>2
  <2>6. CASE ~(said /\ posts # {})
    <3>1. L = K BY <1>6, <2>6
    <3> QED BY <1>4, <2>3, <2>6, <3>1
  <2> QED BY <2>5, <2>6
<1> HIDE DEF posts, later
<1> QED BY <1>0, <1>2, <1>3, <1>7 DEF posts, later, With, OneMore

\* Recording the next event of a chain makes the registry know it.
LEMMA RecordedKnows ==
  ASSUME NEW r \in Registry, NEW events \in Seq(Tx), NEW x \in Tx, NEW balance \in Int,
         Knows(r, events)
  PROVE  Knows(Recorded(r, x, balance), Append(events, x))
<1> DEFINE a == Owner[x]
           q == Recorded(r, x, balance)
           more == Append(events, x)
           n == Len(events) + 1
           Known(s, e, b) == /\ PostsIn(e, b) = {} <=> s.posts[b] = NoPost
                             /\ PostsIn(e, b) # {} => s.posts[b].by = e[Max(PostsIn(e, b))]
                             /\ s.comments[b] = CommentsIn(e, b)
<1>0. a \in Art /\ n \in Nat /\ Amount[x] \in Int /\ MinFee \in Int
  BY GraffitiAssumption DEF Art, Owners, Tx
<1>1. \A b \in Art : Known(r, events, b) BY DEF Knows
<1>2. SUFFICES ASSUME NEW b \in Art PROVE Known(q, more, b)
  BY DEF Knows
<1> DEFINE posts == PostsIn(events, b)
           paid == IsPost(x, b) /\ Amount[x] >= MinFee
           said == Event[x] = "COMMENT" /\ Owner[x] = b
<1>3. /\ posts \in SUBSET (1..(n - 1))
      /\ \A i \in posts : more[i] = events[i]
      /\ PostsIn(more, b) = IF paid THEN With(posts, n) ELSE posts
      /\ CommentsIn(more, b) = IF said /\ posts # {} THEN With(CommentsIn(events, b), x)
                               ELSE CommentsIn(events, b)
      /\ more[n] = x
  BY EventsAppend DEF OneMore
\* The greatest of the places is the one before, or the new one.
<1>4. posts # {} => Max(posts) \in posts
  <2> HIDE DEF posts, n
  <2>1. n - 1 \in Int /\ posts \in SUBSET (0..n) BY <1>0, <1>3
  <2> QED BY <1>0, <2>1, MaxOf
<1>5. Max(posts \cup {n}) = n
  <2> DEFINE S == posts \cup {n}
  <2>1. \A y \in S : n >= y
    <3> HIDE DEF posts, n
    <3> QED BY <1>0, <1>3
  <2>2. S \in SUBSET (0..n) /\ S # {} /\ n \in S
    <3> HIDE DEF posts, n
    <3> QED BY <1>0, <1>3
  <2>3. Max(S) \in S /\ \A y \in S : Max(S) >= y
    <3> HIDE DEF S, n, posts
    <3> QED BY <1>0, <2>2, MaxOf
  <2>4. Max(S) \in Int BY <2>2, <2>3
  <2> HIDE DEF S, n, posts
  <2>5. n >= Max(S) /\ Max(S) >= n BY <2>1, <2>2, <2>3
  <2>6. Max(S) = n BY <1>0, <2>4, <2>5
  <2> QED BY <2>6 DEF S
<1>6. Known(r, events, b) BY <1>1
<1>7. q \in Registry BY RecordedInOrder
\* What changes nothing for b keeps what is known of it.
<1>8. ASSUME ~paid, ~(said /\ posts # {}), q.posts[b] # NoPost <=> r.posts[b] # NoPost,
             q.posts[b] # NoPost => q.posts[b].by = r.posts[b].by,
             q.comments[b] = r.comments[b]
      PROVE  Known(q, more, b)
  <2>1. PostsIn(more, b) = posts /\ CommentsIn(more, b) = CommentsIn(events, b)
    <3> HIDE DEF posts, paid, said, n, more
    <3> QED BY <1>3, <1>8
  <2>2. posts # {} => more[Max(posts)] = events[Max(posts)]
    <3> HIDE DEF posts, more
    <3> QED BY <1>3, <1>4
  <2> HIDE DEF q, more, n, paid, said
  <2> QED BY <1>6, <1>8, <2>1, <2>2
<1>9. CASE b # a
  <2>1. OthersKept(r, q, a)
    <3>1. a = Owner[x] /\ q = Recorded(r, x, balance) OBVIOUS
    <3> HIDE DEF a, q
    <3>2. CASE Event[x] = "POST" BY <3>1, <3>2, RecordedCases, PostRecorded
    <3>3. CASE Event[x] = "COMMENT" BY <3>1, <3>3, RecordedCases, CommentRecorded
    <3>4. CASE Event[x] = "PAYOUT" BY <3>1, <3>4, RecordedCases, PayoutRecorded
    <3> QED BY <3>2, <3>3, <3>4, RecordedCases
  <2>2. q.posts[b] = r.posts[b] /\ q.comments[b] = r.comments[b]
    BY <1>9, <2>1 DEF OthersKept
  <2>3. ~paid /\ ~said BY <1>9 DEF IsPost
  <2> HIDE DEF q, paid, said, Known
  <2> QED BY <1>8, <2>2, <2>3
<1>10. CASE b = a /\ Event[x] = "POST"
  <2>1. /\ q.comments = r.comments
        /\ Amount[x] < MinFee => q = r
        /\ Amount[x] >= MinFee => q.posts[b] \in Posted /\ q.posts[b].by = x
    <3>1. b = Owner[x] /\ q = Recorded(r, x, balance) BY <1>10
    <3> HIDE DEF a, q
    <3> QED BY <1>10, <3>1, RecordedCases, PostRecorded
  <2>2. ~said /\ (paid <=> Amount[x] >= MinFee) BY <1>10 DEF IsPost
  <2>3. CASE Amount[x] < MinFee
    <3>1. ~paid BY <1>0, <2>2, <2>3
    <3> HIDE DEF q, paid, said, Known
    <3> QED BY <1>8, <2>1, <2>2, <2>3, <3>1
  <2>4. CASE Amount[x] >= MinFee
    <3>1. paid /\ q.posts[b] # NoPost /\ q.posts[b].by = x
      BY <2>1, <2>2, <2>4, PostedIsOne
    <3>2. PostsIn(more, b) = posts \cup {n} /\ CommentsIn(more, b) = CommentsIn(events, b)
      <4> HIDE DEF posts, paid, said, n, more
      <4> QED BY <1>3, <2>2, <3>1 DEF With
    <3>3. more[Max(PostsIn(more, b))] = x
      <4> HIDE DEF posts, n, more
      <4> QED BY <1>3, <1>5, <3>2
    <3> HIDE DEF q, more, n, paid, said
    <3> QED BY <1>6, <2>1, <3>1, <3>2, <3>3
  <2>5. Amount[x] < MinFee \/ Amount[x] >= MinFee BY <1>0
  <2> QED BY <2>3, <2>4, <2>5
<1>11. CASE b = a /\ Event[x] = "COMMENT"
  <2>1. /\ r.posts[b] = NoPost => q = r
        /\ r.posts[b] # NoPost =>
              /\ q.posts[b] \in Posted /\ q.posts[b].by = r.posts[b].by
              /\ q.comments[b] = With(r.comments[b], x)
    <3>1. b = Owner[x] /\ q = Recorded(r, x, balance) BY <1>11
    <3> HIDE DEF a, q
    <3>2. q = RecordComment(r, x, balance) BY <1>11, <3>1, RecordedCases
    <3> QED BY <3>1, <3>2, CommentRecorded
  <2>2. said /\ ~paid BY <1>11 DEF IsPost
  <2>3. CASE r.posts[b] = NoPost
    <3>1. posts = {} BY <1>6, <2>3
    <3> HIDE DEF q, paid, said, Known, posts
    <3> QED BY <1>8, <2>1, <2>2, <2>3, <3>1
  <2>4. CASE r.posts[b] # NoPost
    <3>1. posts # {} BY <1>6, <2>4
    <3>2. PostsIn(more, b) = posts /\ CommentsIn(more, b) = CommentsIn(events, b) \cup {x}
      <4> HIDE DEF posts, paid, said, n, more
      <4> QED BY <1>3, <2>2, <3>1 DEF With
    <3>3. more[Max(posts)] = events[Max(posts)]
      <4> HIDE DEF posts, more
      <4> QED BY <1>3, <1>4, <3>1
    <3>4. q.posts[b] # NoPost BY <2>1, <2>4, PostedIsOne
    <3> HIDE DEF q, more, n, paid, said
    <3> QED BY <1>6, <2>1, <2>4, <3>1, <3>2, <3>3, <3>4 DEF With
  <2> QED BY <2>3, <2>4
<1>12. CASE b = a /\ Event[x] = "PAYOUT"
  <2>1. /\ q.comments = r.comments
        /\ r.posts[b] = NoPost => q = r
        /\ r.posts[b] # NoPost => q.posts[b] \in Posted /\ q.posts[b].by = r.posts[b].by
    <3>1. b = Owner[x] /\ q = Recorded(r, x, balance) BY <1>12
    <3> HIDE DEF a, q
    <3> QED BY <1>12, <3>1, RecordedCases, PayoutRecorded
  <2>2. ~said /\ ~paid BY <1>12 DEF IsPost
  <2>3. q.posts[b] # NoPost <=> r.posts[b] # NoPost BY <2>1, PostedIsOne
  <2> HIDE DEF q, paid, said, Known
  <2> QED BY <1>8, <2>1, <2>2, <2>3
<1> QED BY <1>9, <1>10, <1>11, <1>12, RecordedCases

-----------------------------------------------------------------------------
(* The events of a chain, in order *)

\* f[i] is what the first i blocks of c carry.
Flat(f, c) ==
  /\ f \in [0..Len(c) -> Seq(Tx)] /\ f[0] = <<>>
  /\ \A i \in 1..Len(c) : f[i] = f[i - 1] \o c[i]

\* FlattenSeq computes such an f.
LEMMA FlattenIs ==
  ASSUME NEW c \in Seq(Seq(Tx))
  PROVE  \E f : Flat(f, c) /\ FlattenSeq(c) = f[Len(c)]
<1> DEFINE N == Len(c)
           step == [n \in 1..N |-> [q \in Seq(Tx) |-> q \o c[n]]]
<1>0. N \in Nat /\ <<>> \in Seq(Tx) /\ \A n \in 1..N : c[n] \in Seq(Tx) OBVIOUS
<1>1. step \in [1..N -> [Seq(Tx) -> Seq(Tx)]]
  <2>1. \A n \in 1..N : \A q \in Seq(Tx) : q \o c[n] \in Seq(Tx) BY <1>0
  <2> QED BY <2>1
<1>2. PICK f \in [0..N -> Seq(Tx)] : Iterates(f, N, <<>>, step)
  <2> HIDE DEF step, N
  <2> QED BY <1>0, <1>1, IterationExists
<1>3. Flat(f, c)
  <2>1. ASSUME NEW i \in 1..N PROVE f[i] = f[i - 1] \o c[i]
    <3>1. f[i] = step[i][f[i - 1]] BY <1>2 DEF Iterates
    <3>2. f[i - 1] \in Seq(Tx)
      <4>1. i - 1 \in 0..N BY <1>0
      <4> HIDE DEF N
      <4> QED BY <1>2, <4>1
    <3>3. step[i][f[i - 1]] = f[i - 1] \o c[i] BY <3>2
    <3> QED BY <3>1, <3>3
  <2>2. f[0] = <<>> BY <1>2 DEF Iterates
  <2> QED BY <1>2, <2>1, <2>2 DEF Flat
<1>4. CASE N = 0
  <2>1. c = <<>> BY <1>4
  <2>2. FlattenSeq(c) = <<>> BY <1>4, <2>1 DEF FlattenSeq
  <2> QED BY <1>3, <1>4, <2>2 DEF Flat
<1>5. CASE N # 0
  <2> DEFINE Unrolls(g) == g = [i \in 1..N |-> IF i = 1 THEN c[i] ELSE g[i - 1] \o c[i]]
             h == CHOOSE g : Unrolls(g)
  <2>1. FlattenSeq(c) = h[N] BY <1>5 DEF FlattenSeq
  <2>2. Unrolls([i \in 1..N |-> f[i]])
    <3> DEFINE u == [i \in 1..N |-> f[i]]
    <3>1. ASSUME NEW i \in 1..N
          PROVE  u[i] = IF i = 1 THEN c[i] ELSE u[i - 1] \o c[i]
      <4>1. u[i] = f[i - 1] \o c[i] BY <1>3 DEF Flat
      <4>2. CASE i = 1
        <5>1. f[0] = <<>> BY <1>3 DEF Flat
        <5>2. f[i - 1] = <<>> BY <4>2, <5>1
        <5>3. c[i] \in Seq(Tx) BY <1>0
        <5>4. <<>> \o c[i] = c[i] BY <5>3
        <5> QED BY <4>1, <4>2, <5>2, <5>4
      <4>3. CASE i # 1
        <5>1. i - 1 \in 1..N BY <1>0, <4>3
        <5>2. u[i - 1] = f[i - 1] BY <5>1
        <5> QED BY <4>1, <4>3, <5>2
      <4> QED BY <4>2, <4>3
    <3>2. u = [i \in 1..N |-> u[i]] OBVIOUS
    <3> HIDE DEF u
    <3>3. Unrolls(u) BY <3>1, <3>2
    <3> QED BY <3>3 DEF u
  <2>3. Unrolls(h)
    <3> HIDE DEF Unrolls
    <3> QED BY <2>2
  <2> DEFINE I == {n \in Nat : n + 1 \in 1..N => h[n + 1] = f[n + 1]}
  <2>4. 0 \in I
    <3>1. 1 \in 1..N BY <1>0, <1>5
    <3> HIDE DEF h
    <3>2. h[1] = c[1] BY <2>3, <3>1
    <3>3. f[1] = f[0] \o c[1] /\ f[0] = <<>>
      <4>1. \A i \in 1..N : f[i] = f[i - 1] \o c[i] BY <1>3 DEF Flat
      <4>2. f[1] = f[1 - 1] \o c[1] BY <3>1, <4>1
      <4>3. 1 - 1 = 0 OBVIOUS
      <4> QED BY <1>3, <4>2, <4>3 DEF Flat
    <3>4. c[1] \in Seq(Tx) BY <1>0, <3>1
    <3>5. h[0 + 1] = f[0 + 1] BY <3>2, <3>3, <3>4
    <3> QED BY <3>5
  <2>5. ASSUME NEW n \in Nat, n \in I PROVE n + 1 \in I
    <3> SUFFICES ASSUME (n + 1) + 1 \in 1..N PROVE h[(n + 1) + 1] = f[(n + 1) + 1]
      OBVIOUS
    <3> DEFINE m == (n + 1) + 1
    <3>1. n + 1 \in 1..N /\ m - 1 = n + 1 /\ m # 1 /\ m \in 1..N BY <1>0
    <3> HIDE DEF h, m
    <3>2. h[m] = h[m - 1] \o c[m] BY <2>3, <3>1
    <3>3. f[m] = f[m - 1] \o c[m] BY <1>3, <3>1 DEF Flat
    <3>4. h[n + 1] = f[n + 1] BY <2>5, <3>1
    <3>5. h[m] = f[m] BY <3>1, <3>2, <3>3, <3>4
    <3> QED BY <3>5 DEF m
  <2> HIDE DEF I
  <2>6. Nat \subseteq I BY <2>4, <2>5, SetInduction
  <2>7. N - 1 \in I /\ (N - 1) + 1 = N /\ N \in 1..N BY <1>0, <1>5, <2>6
  <2>8. h[N] = f[N]
    <3> HIDE DEF h
    <3>1. (N - 1) + 1 \in 1..N => h[(N - 1) + 1] = f[(N - 1) + 1] BY <2>7 DEF I
    <3> QED BY <2>7, <3>1
  <2> QED BY <1>3, <2>1, <2>8
<1> QED BY <1>4, <1>5

\* A block's events come after those of the blocks before it.
LEMMA FlattenAppend ==
  ASSUME NEW c \in Seq(Seq(Tx)), NEW b \in Seq(Tx)
  PROVE  /\ FlattenSeq(c) \in Seq(Tx)
         /\ FlattenSeq(Append(c, b)) = FlattenSeq(c) \o b
<1> DEFINE d == Append(c, b)  N == Len(c)
<1>0. /\ N \in Nat /\ d \in Seq(Seq(Tx)) /\ Len(d) = N + 1 /\ d[N + 1] = b
      /\ \A i \in 1..N : d[i] = c[i] /\ i \in 1..(N + 1)
  OBVIOUS
<1>1. PICK f : Flat(f, c) /\ FlattenSeq(c) = f[N] BY FlattenIs
<1>2. PICK h : Flat(h, d) /\ FlattenSeq(d) = h[N + 1]
  <2> HIDE DEF d, N
  <2>1. \E h : Flat(h, d) /\ FlattenSeq(d) = h[Len(d)] BY <1>0, FlattenIs
  <2> QED BY <1>0, <2>1
<1> HIDE DEF d
<1> DEFINE I == {n \in Nat : n <= N => h[n] = f[n]}
<1>3. 0 \in I BY <1>1, <1>2 DEF Flat
<1>4. ASSUME NEW n \in Nat, n \in I PROVE n + 1 \in I
  <2> SUFFICES ASSUME n + 1 <= N PROVE h[n + 1] = f[n + 1]
    OBVIOUS
  <2> DEFINE m == n + 1
  <2>1. m \in 1..N /\ m \in 1..Len(d) /\ m - 1 = n /\ n <= N BY <1>0
  <2>2. h[n] = f[n] BY <1>4, <2>1
  <2> HIDE DEF m
  <2>3. h[m] = h[m - 1] \o d[m] /\ f[m] = f[m - 1] \o c[m] /\ d[m] = c[m]
    BY <1>0, <1>1, <1>2, <2>1 DEF Flat
  <2>4. h[m] = f[m] BY <2>1, <2>2, <2>3
  <2> QED BY <2>4 DEF m
<1> HIDE DEF I
<1>5. Nat \subseteq I BY <1>3, <1>4, SetInduction
<1>6. N \in I BY <1>0, <1>5
<1>7. h[N] = f[N] BY <1>0, <1>6 DEF I
<1>8. h[N + 1] = h[N] \o b
  <2> DEFINE m == N + 1
  <2>1. m \in 1..Len(d) /\ m - 1 = N /\ d[m] = b BY <1>0
  <2> HIDE DEF m
  <2>2. h[m] = h[m - 1] \o d[m] BY <1>2, <2>1 DEF Flat
  <2>3. h[m] = h[N] \o b BY <2>1, <2>2
  <2> QED BY <2>3 DEF m
<1>9. f[N] \in Seq(Tx) BY <1>0, <1>1 DEF Flat
<1> QED BY <1>1, <1>2, <1>7, <1>8, <1>9 DEF d

\* Every event of a chain is one of a block's.
LEMMA FlattenMembers ==
  ASSUME NEW c \in Seq(Seq(Tx))
  PROVE  /\ FlattenSeq(c) \in Seq(Tx)
         /\ \A i \in 1..Len(FlattenSeq(c)) :
              FlattenSeq(c)[i] \in Tx /\ FlattenSeq(c)[i] \in Range2(c)
<1>0. Len(c) \in Nat /\ DOMAIN c = 1..Len(c) /\ \A n \in 1..Len(c) : c[n] \in Seq(Tx)
  OBVIOUS
<1>1. PICK f : Flat(f, c) /\ FlattenSeq(c) = f[Len(c)] BY FlattenIs
<1> DEFINE I == {n \in Nat : n <= Len(c) => \A j \in 1..Len(f[n]) : f[n][j] \in Range2(c)}
<1>2. 0 \in I BY <1>1 DEF Flat
<1>3. ASSUME NEW n \in Nat, n \in I PROVE n + 1 \in I
  <2> SUFFICES ASSUME n + 1 <= Len(c)
               PROVE  \A j \in 1..Len(f[n + 1]) : f[n + 1][j] \in Range2(c)
    OBVIOUS
  <2> DEFINE m == n + 1
  <2>1. m \in 1..Len(c) /\ m - 1 = n /\ n <= Len(c) /\ n \in 0..Len(c) BY <1>0
  <2>2. \A j \in 1..Len(f[n]) : f[n][j] \in Range2(c) BY <1>3, <2>1
  <2> HIDE DEF m
  <2>3. f[m] = f[n] \o c[m] /\ f[n] \in Seq(Tx) BY <1>1, <2>1 DEF Flat
  <2>4. \A j \in 1..Len(c[m]) : c[m][j] \in Range2(c)
    <3>1. c[m] \in Seq(Tx) BY <1>0, <2>1
    <3>2. DOMAIN c[m] = 1..Len(c[m]) BY <3>1
    <3>3. m \in DOMAIN c BY <1>0, <2>1
    <3> QED BY <3>2, <3>3 DEF Range2
  <2>5. ASSUME NEW j \in 1..Len(f[m]) PROVE f[m][j] \in Range2(c)
    <3> DEFINE q == f[n]  e == c[m]
    <3>1. q \in Seq(Tx) /\ e \in Seq(Tx) /\ f[m] = q \o e BY <1>0, <2>1, <2>3
    <3>2. /\ \A k \in 1..Len(q) : q[k] \in Range2(c)
          /\ \A k \in 1..Len(e) : e[k] \in Range2(c)
      BY <2>2, <2>4
    <3> HIDE DEF q, e
    <3>3. /\ Len(f[m]) = Len(q) + Len(e) /\ Len(q) \in Nat /\ Len(e) \in Nat
          /\ f[m][j] = IF j <= Len(q) THEN q[j] ELSE e[j - Len(q)]
      BY <3>1
    <3>4. CASE j <= Len(q)
      <4>1. j \in 1..Len(q) BY <3>3, <3>4
      <4> QED BY <3>2, <3>3, <3>4, <4>1
    <3>5. CASE ~(j <= Len(q))
      <4>1. j - Len(q) \in 1..Len(e) BY <3>3, <3>5
      <4> QED BY <3>2, <3>3, <3>5, <4>1
    <3> QED BY <3>4, <3>5
  <2> QED BY <2>5 DEF m
<1> HIDE DEF I
<1>4. Nat \subseteq I BY <1>2, <1>3, SetInduction
<1>5. Len(c) \in I BY <1>0, <1>4
<1>6. \A j \in 1..Len(f[Len(c)]) : f[Len(c)][j] \in Range2(c) BY <1>0, <1>5 DEF I
<1>7. f[Len(c)] \in Seq(Tx) BY <1>0, <1>1 DEF Flat
<1>8. \A j \in 1..Len(f[Len(c)]) : f[Len(c)][j] \in Tx BY <1>7
<1> QED BY <1>1, <1>6, <1>7, <1>8

-----------------------------------------------------------------------------
(* A rebuild *)

\* The states of a rebuild: the index follows the coins that are replayed.
Following == {st \in Replay : Covers(st.index, st.utxos)}

\* A replayed transaction is recorded with the balance that the index answers.
LEMMA ReplayedFollows ==
  ASSUME NEW st \in Following, NEW x \in Tx
  PROVE  /\ Replayed(st, x) \in Following
         /\ \E balance \in Int : Replayed(st, x).reg = Recorded(st.reg, x, balance)
<1> DEFINE spent == st.utxos \ Takes[x]
           coins == spent \cup FundedBy({x})
           dropped == DroppedAll(st.index, Takes[x] \cap st.utxos)
           ix == IndexedAll(dropped, FundedBy({x}))
           asked == Ensured(ix, coins)
           balance == asked.total[Owner[x]]
           reg1 == Recorded(st.reg, x, balance)
<1>0. /\ st.utxos \in SUBSET Tx /\ st.index \in Index /\ st.reg \in Registry
      /\ Covers(st.index, st.utxos) /\ Owner[x] \in Art
      /\ FundedBy({x}) \in SUBSET Tx /\ Takes[x] \cap st.utxos \in SUBSET Tx
      /\ spent \in SUBSET Tx /\ coins \in SUBSET Tx
      /\ st.utxos \ (Takes[x] \cap st.utxos) = spent
  BY DEF Following, Replay, FundedBy, Art, Owners, Tx
<1>1. dropped \in Index /\ Covers(dropped, spent)
  <2> HIDE DEF spent
  <2> QED BY <1>0, DroppedCovers
<1>2. ix \in Index /\ Covers(ix, coins)
  <2> HIDE DEF spent, dropped
  <2> QED BY <1>0, <1>1, IndexedCovers
<1>3. asked \in Index /\ Covers(asked, coins)
  <2> HIDE DEF coins, ix
  <2> QED BY <1>0, <1>2, EnsuredCovers
<1>4. balance \in Int BY <1>0, <1>3 DEF Index
<1>5. reg1 \in Registry
  <2> HIDE DEF balance
  <2> QED BY <1>0, <1>4, RecordedInOrder
<1>6. Replayed(st, x) = [utxos |-> coins, index |-> asked, reg |-> reg1]
  BY DEF Replayed
<1>7. Replayed(st, x).reg = Recorded(st.reg, x, balance) BY <1>6
<1> HIDE DEF coins, asked, reg1, balance
<1> QED BY <1>0, <1>3, <1>4, <1>5, <1>6, <1>7 DEF Following, Replay

\* g[i] is what the first i events make of base.
Replays(g, events, base) ==
  /\ g \in [0..Len(events) -> Following] /\ g[0] = base
  /\ \A i \in 1..Len(events) : g[i] = Replayed(g[i - 1], events[i])

\* What rebuild_from_chain starts from: no coins, the index and the registry
\* as they are.
Start(ix, r) == [utxos |-> {}, index |-> ix, reg |-> r]

\* FoldLeft computes such a g.
LEMMA RebuiltIs ==
  ASSUME NEW c \in Seq(Seq(Tx)), NEW ix \in Index, NEW r \in Registry,
         Start(ix, r) \in Following
  PROVE  \E g : Replays(g, FlattenSeq(c), Start(ix, r))
                /\ Rebuilt(c, ix, r) = g[Len(FlattenSeq(c))]
<1> DEFINE e == FlattenSeq(c)
           n == Len(e)
           base == Start(ix, r)
           step == [i \in 1..n |-> [st \in Following |-> Replayed(st, e[i])]]
           Folds(g) == g = [s \in SUBSET DOMAIN e |->
                              IF s = {} THEN base
                              ELSE LET i == Max(s) IN Replayed(g[s \ {i}], e[i])]
           h == CHOOSE g : Folds(g)
<1>0. e \in Seq(Tx) /\ n \in Nat /\ DOMAIN e = 1..n /\ \A i \in 1..n : e[i] \in Tx
  <2>1. e \in Seq(Tx) BY FlattenMembers
  <2> HIDE DEF e
  <2> QED BY <2>1
<1>1. Rebuilt(c, ix, r) = h[DOMAIN e]
  BY DEF Rebuilt, FoldLeft, MapThenFoldSet, Start
<1> HIDE DEF e, base
<1>2. step \in [1..n -> [Following -> Following]]
  <2>1. \A i \in 1..n : \A st \in Following : Replayed(st, e[i]) \in Following
    BY <1>0, ReplayedFollows
  <2> QED BY <2>1
<1>3. base \in Following BY DEF base
<1>4. PICK u \in [SUBSET (1..n) -> Following] : FoldsUp(u, n, base, step)
  <2> HIDE DEF step, n
  <2> QED BY <1>0, <1>2, <1>3, FoldExists
<1>5. Folds(u)
  <2>1. u = [s \in SUBSET (1..n) |->
               IF s = {} THEN base ELSE LET i == Max(s) IN step[i][u[s \ {i}]]]
    BY <1>4 DEF FoldsUp
  <2>2. ASSUME NEW s \in SUBSET (1..n), s # {}
        PROVE  step[Max(s)][u[s \ {Max(s)}]] = Replayed(u[s \ {Max(s)}], e[Max(s)])
    <3> DEFINE i == Max(s)
    <3>1. i \in 1..n
      <4>1. s \in SUBSET (0..n) BY <1>0
      <4> HIDE DEF n
      <4> QED BY <1>0, <2>2, <4>1, MaxOf
    <3>2. u[s \ {i}] \in Following
      <4>1. s \ {i} \in SUBSET (1..n) OBVIOUS
      <4> HIDE DEF i, n
      <4> QED BY <1>4, <4>1
    <3> HIDE DEF i
    <3>3. step[i][u[s \ {i}]] = Replayed(u[s \ {i}], e[i]) BY <3>1, <3>2
    <3> QED BY <3>3 DEF i
  <2>3. ASSUME NEW s \in SUBSET (1..n)
        PROVE  u[s] = IF s = {} THEN base
                      ELSE LET i == Max(s) IN Replayed(u[s \ {i}], e[i])
    <3> HIDE DEF step, n
    <3>1. u[s] = IF s = {} THEN base ELSE step[Max(s)][u[s \ {Max(s)}]] BY <2>1
    <3>2. CASE s = {} BY <3>1, <3>2
    <3>3. CASE s # {} BY <2>2, <3>1, <3>3
    <3> QED BY <3>2, <3>3
  <2>4. u = [s \in SUBSET (1..n) |-> u[s]] BY <1>4
  <2> HIDE DEF step, n
  <2>5. u = [s \in SUBSET (1..n) |->
               IF s = {} THEN base
               ELSE LET i == Max(s) IN Replayed(u[s \ {i}], e[i])]
    BY <2>3, <2>4
  <2> QED BY <1>0, <2>5
<1>6. Folds(h)
  <2> HIDE DEF Folds
  <2> QED BY <1>5
<1> HIDE DEF h, step
<1>7. h[1..0] = base
  <2>1. {} \in SUBSET DOMAIN e /\ 1..0 = {} OBVIOUS
  <2>2. h[{}] = base BY <1>6, <2>1
  <2> QED BY <2>1, <2>2
<1>8. ASSUME NEW i \in 1..n PROVE h[1..i] = Replayed(h[1..(i - 1)], e[i])
  <2>1. Max(1..i) = i /\ (1..i) \ {i} = 1..(i - 1) BY MaxOfFirst
  <2> DEFINE s == 1..i
  <2>2. s \in SUBSET DOMAIN e /\ s # {}
    <3>1. \A j \in 1..i : j \in 1..n BY <1>0
    <3>2. i \in 1..i BY <1>0
    <3> HIDE DEF n
    <3> QED BY <1>0, <3>1, <3>2
  <2> HIDE DEF s
  <2>3. h[s] = Replayed(h[s \ {Max(s)}], e[Max(s)]) BY <1>6, <2>2
  <2> QED BY <2>1, <2>3 DEF s
<1> HIDE DEF Folds
<1> DEFINE g == [i \in 0..n |-> h[1..i]]
           I == {k \in Nat : k \in 0..n => h[1..k] \in Following}
<1>9. 0 \in I BY <1>3, <1>7
<1>10. ASSUME NEW k \in Nat, k \in I PROVE k + 1 \in I
  <2> SUFFICES ASSUME k + 1 \in 0..n PROVE h[1..(k + 1)] \in Following
    OBVIOUS
  <2> DEFINE m == k + 1
  <2>1. m \in 1..n /\ m - 1 = k /\ k \in 0..n BY <1>0
  <2>2. h[1..k] \in Following BY <1>10, <2>1
  <2> HIDE DEF m, n
  <2>3. h[1..m] = Replayed(h[1..(m - 1)], e[m]) BY <1>8, <2>1
  <2>4. h[1..m] = Replayed(h[1..k], e[m]) BY <2>1, <2>3
  <2>5. e[m] \in Tx BY <1>0, <2>1
  <2>6. Replayed(h[1..k], e[m]) \in Following BY <2>2, <2>5, ReplayedFollows
  <2>7. h[1..m] \in Following BY <2>4, <2>6
  <2> QED BY <2>7 DEF m
<1> HIDE DEF I
<1>11. Nat \subseteq I BY <1>9, <1>10, SetInduction
<1>12. \A i \in 0..n : h[1..i] \in Following BY <1>0, <1>11 DEF I
<1>13. Replays(g, e, base)
  <2>1. g \in [0..n -> Following] BY <1>12
  <2>2. g[0] = base BY <1>0, <1>7
  <2>3. ASSUME NEW i \in 1..n PROVE g[i] = Replayed(g[i - 1], e[i])
    <3>1. i \in 0..n /\ i - 1 \in 0..n BY <1>0
    <3>2. g[i] = h[1..i] /\ g[i - 1] = h[1..(i - 1)] BY <3>1
    <3> HIDE DEF g
    <3> QED BY <1>8, <3>2
  <2> HIDE DEF g
  <2> QED BY <2>1, <2>2, <2>3 DEF Replays
<1>14. Rebuilt(c, ix, r) = g[n]
  <2>1. n \in 0..n BY <1>0
  <2> QED BY <1>0, <1>1, <2>1
<1> HIDE DEF g
<1> QED BY <1>13, <1>14 DEF e, base

\* What a rebuild keeps, whatever chain it replays.
LEMMA RebuiltKeeps ==
  ASSUME NEW c \in Seq(Seq(Tx)), NEW ix \in Index, NEW r \in Registry, NEW coins,
         Covers(ix, coins)
  PROVE  /\ Rebuilt(c, ix, r) \in Following
         /\ PaidInOrder(r) => PaidInOrder(Rebuilt(c, ix, r).reg)
         /\ \A a \in Art :
              r.posts[a] # NoPost /\ (\A x \in Range2(c) : IsPost(x, a) => x = r.posts[a].by)
                => Rebuilt(c, ix, r).reg.posts[a].last >= r.posts[a].last
<1> DEFINE e == FlattenSeq(c)
           n == Len(e)
           base == Start(ix, r)
<1>0. e \in Seq(Tx) /\ \A i \in 1..n : e[i] \in Tx /\ e[i] \in Range2(c)
  <2> HIDE DEF n
  <2>1. e \in Seq(Tx) BY FlattenMembers
  <2>2. \A i \in 1..Len(e) : e[i] \in Tx /\ e[i] \in Range2(c) BY FlattenMembers
  <2> QED BY <2>1, <2>2 DEF n
<1>1. base \in Following
  <2>1. Covers(ix, {}) BY DEF Covers
  <2> QED BY <2>1 DEF Following, Replay, Start
<1>2. PICK g : Replays(g, e, base) /\ Rebuilt(c, ix, r) = g[n] BY <1>1, RebuiltIs
<1>3. n \in Nat BY <1>0
<1>4. base.reg = r BY DEF Start
<1> HIDE DEF e, n, base
<1>5. /\ g \in [0..n -> Following] /\ g[0] = base
      /\ \A i \in 1..n : g[i] = Replayed(g[i - 1], e[i])
  BY <1>2 DEF Replays, n
<1>6. ASSUME NEW k \in Nat, k + 1 <= n
      PROVE  /\ k \in 0..n /\ k + 1 \in 0..n /\ e[k + 1] \in Tx /\ e[k + 1] \in Range2(c)
             /\ g[k].reg \in Registry
             /\ \E balance \in Int : g[k + 1].reg = Recorded(g[k].reg, e[k + 1], balance)
  <2> DEFINE m == k + 1
  <2>1. m \in 1..n /\ m - 1 = k /\ k \in 0..n /\ m \in 0..n BY <1>3, <1>6
  <2> HIDE DEF m
  <2>2. g[m] = Replayed(g[m - 1], e[m]) BY <1>5, <2>1
  <2>3. g[m] = Replayed(g[k], e[m]) BY <2>1, <2>2
  <2>4. g[k] \in Following /\ e[m] \in Tx /\ e[m] \in Range2(c) BY <1>0, <1>5, <2>1
  <2>5. \E balance \in Int : g[m].reg = Recorded(g[k].reg, e[m], balance)
    BY <2>3, <2>4, ReplayedFollows
  <2>6. g[k].reg \in Registry BY <2>4 DEF Following, Replay
  <2> QED BY <2>1, <2>4, <2>5, <2>6 DEF m
<1>7. g[n] \in Following BY <1>3, <1>5
<1>8. ASSUME PaidInOrder(r) PROVE PaidInOrder(g[n].reg)
  <2> DEFINE I == {k \in Nat : k <= n => PaidInOrder(g[k].reg)}
  <2>1. 0 \in I BY <1>4, <1>5, <1>8
  <2>2. ASSUME NEW k \in Nat, k \in I PROVE k + 1 \in I
    <3> SUFFICES ASSUME k + 1 <= n PROVE PaidInOrder(g[k + 1].reg)
      OBVIOUS
    <3>1. PaidInOrder(g[k].reg) BY <1>3, <2>2
    <3>2. PICK balance \in Int : g[k + 1].reg = Recorded(g[k].reg, e[k + 1], balance)
      BY <1>6
    <3>3. g[k].reg \in Registry /\ e[k + 1] \in Tx BY <1>6
    <3> QED BY <3>1, <3>2, <3>3, RecordedInOrder
  <2> HIDE DEF I
  <2>3. Nat \subseteq I BY <2>1, <2>2, SetInduction
  <2>4. n \in I BY <1>3, <2>3
  <2> QED BY <1>3, <2>4 DEF I
<1>9. ASSUME NEW a \in Art, r.posts[a] # NoPost,
             \A x \in Range2(c) : IsPost(x, a) => x = r.posts[a].by
      PROVE  g[n].reg.posts[a].last >= r.posts[a].last
  <2> DEFINE Kept(q) == /\ q.posts[a] # NoPost /\ q.posts[a].by = r.posts[a].by
                        /\ q.posts[a].last >= r.posts[a].last
             I == {k \in Nat : k <= n => Kept(g[k].reg)}
  <2>0. r.posts[a].last \in Int BY <1>9 DEF Registry, Posted
  <2>1. 0 \in I BY <1>4, <1>5, <1>9, <2>0
  <2>2. ASSUME NEW k \in Nat, k \in I PROVE k + 1 \in I
    <3> SUFFICES ASSUME k + 1 <= n PROVE Kept(g[k + 1].reg)
      OBVIOUS
    <3> DEFINE old == g[k].reg  new == g[k + 1].reg  x == e[k + 1]
    <3>1. Kept(old) BY <1>3, <2>2
    <3>2. PICK balance \in Int : new = Recorded(old, x, balance)
      BY <1>6
    <3>3. old \in Registry /\ x \in Tx /\ x \in Range2(c) BY <1>6
    <3> HIDE DEF old, new, x
    <3>4. IsPost(x, a) => x = old.posts[a].by BY <1>9, <3>1, <3>3
    <3>5. /\ new \in Registry /\ new.posts[a] # NoPost /\ new.posts[a].by = old.posts[a].by
          /\ new.posts[a].last >= old.posts[a].last
      BY <3>1, <3>2, <3>3, <3>4, RecordedKeepsEpoch
    <3>6. new.posts[a].last \in Int /\ old.posts[a].last \in Int
      BY <3>1, <3>3, <3>5 DEF Registry, Posted
    <3>7. Kept(new) BY <2>0, <3>1, <3>5, <3>6
    <3> QED BY <3>7 DEF new
  <2> HIDE DEF I, Kept
  <2>3. Nat \subseteq I BY <2>1, <2>2, SetInduction
  <2>4. n \in I BY <1>3, <2>3
  <2>5. Kept(g[n].reg) BY <1>3, <2>4 DEF I
  <2> QED BY <2>5 DEF Kept
<1> QED BY <1>2, <1>7, <1>8, <1>9

-----------------------------------------------------------------------------
(* The specification *)

\* What is still to be recorded is on the chain.
TodoOnChain == \A i \in 1..Len(todo) : todo[i] \in Range2(chain)

\* Until the first reorganisation or kill the registry knows what has been
\* recorded, and the rest of the chain's events is still to be.
KnowsSoFar ==
  moves = [reorgs |-> 0, kills |-> 0] =>
    \E done \in Seq(Tx) : done \o todo = FlattenSeq(chain) /\ Knows(reg, done)

GInv == /\ GTypeOK /\ TodoOnChain
        /\ Covers(index, utxos) /\ PaidInOrder(reg) /\ KnowsSoFar

\* A node starts with nothing.
LEMMA GInitInv == GInit => GInv
<1> SUFFICES ASSUME GInit PROVE GInv
  OBVIOUS
<1> USE DEF GInit
<1>1. EmptyRegistry \in Registry BY DEF EmptyRegistry, Registry
<1>2. NoIndex \in Index BY DEF NoIndex, Index, Art
<1>3. GTypeOK BY <1>1, <1>2 DEF GTypeOK
<1>4. Covers(index, utxos) BY DEF Covers, NoIndex
<1>5. PaidInOrder(reg) BY DEF PaidInOrder, EmptyRegistry
<1>6. FlattenSeq(<<>>) = <<>> BY DEF FlattenSeq
<1>7. Knows(EmptyRegistry, <<>>)
  <2>1. \A a : PostsIn(<<>>, a) = {} /\ CommentsIn(<<>>, a) = {}
    BY DEF PostsIn, CommentsIn
  <2> QED BY <2>1 DEF Knows, EmptyRegistry
<1>8. KnowsSoFar
  <2>1. <<>> \in Seq(Tx) /\ <<>> \o <<>> = <<>> OBVIOUS
  <2> QED BY <1>6, <1>7, <2>1 DEF KnowsSoFar
<1> QED BY <1>3, <1>4, <1>5, <1>8 DEF GInv, TodoOnChain

\* A block is a sequence of transactions.
LEMMA BlocksAreSeqs == \A b \in Blocks(Tx) : b \in Seq(Tx)
  BY GraffitiAssumption DEF Blocks, BoundedSeq, SeqOf

\* The coins of a block come and go with the index.
LEMMA ConnectInv ==
  ASSUME GInv, NEW b \in Blocks(Tx), Connect(b)
  PROVE  GInv'
<1> USE DEF GInv, GTypeOK
<1>0. b \in Seq(Tx) BY BlocksAreSeqs
<1> DEFINE F == FundedBy(Members(b))  T == TakenBy(Members(b))
<1>1. F \in SUBSET Tx /\ T \in SUBSET Tx
  <2>1. Members(b) \in SUBSET Tx BY <1>0 DEF Members
  <2>2. \A x \in Tx : Takes[x] \subseteq Tx BY GraffitiAssumption
  <2> QED BY <2>1, <2>2 DEF FundedBy, TakenBy
<1>2. index' \in Index /\ Covers(index', utxos')
  <2> DEFINE ix == IndexedAll(index, F)
  <2>1. ix \in Index /\ Covers(ix, utxos \cup F) /\ utxos \cup F \in SUBSET Tx
    <3> HIDE DEF F
    <3> QED BY <1>1, IndexedCovers
  <2>2. index' = DroppedAll(ix, T) /\ utxos' = (utxos \cup F) \ T BY DEF Connect
  <2> HIDE DEF ix, F, T
  <2> QED BY <1>1, <2>1, <2>2, DroppedCovers
<1>3. chain' = Append(chain, b) /\ todo = <<>> /\ todo' = b /\ reg' = reg /\ moves' = moves
  BY DEF Connect
<1>4. GTypeOK'
  <2>1. chain' \in Seq(Seq(Tx)) BY <1>0, <1>3
  <2>2. utxos' \in SUBSET Tx BY <1>1 DEF Connect
  <2> QED BY <1>0, <1>2, <1>3, <2>1, <2>2
<1>5. TodoOnChain'
  <2>1. /\ Len(chain) + 1 \in DOMAIN chain' /\ chain'[Len(chain) + 1] = b
        /\ DOMAIN b = 1..Len(b)
    BY <1>0, <1>3
  <2> QED BY <1>3, <2>1 DEF TodoOnChain, Range2
<1>6. KnowsSoFar'
  <2> SUFFICES ASSUME moves = [reorgs |-> 0, kills |-> 0]
               PROVE  \E done \in Seq(Tx) : done \o b = FlattenSeq(chain') /\ Knows(reg, done)
    BY <1>3 DEF KnowsSoFar
  <2>1. PICK done \in Seq(Tx) : done \o todo = FlattenSeq(chain) /\ Knows(reg, done)
    BY DEF KnowsSoFar
  <2>2. done \o <<>> = done OBVIOUS
  <2>3. FlattenSeq(chain) = done BY <1>3, <2>1, <2>2
  <2>4. FlattenSeq(chain') = done \o b BY <1>0, <1>3, <2>3, FlattenAppend
  <2> QED BY <2>1, <2>4
<1> QED BY <1>2, <1>3, <1>4, <1>5, <1>6

\* The next event is recorded with an integer for a balance.
LEMMA RecordStep ==
  ASSUME GInv, Record
  PROVE  /\ todo \in Seq(Tx) /\ todo # <<>> /\ Head(todo) \in Tx
         /\ Head(todo) \in Range2(chain)
         /\ index' \in Index /\ Covers(index', utxos)
         /\ \E balance \in Int : reg' = Recorded(reg, Head(todo), balance)
<1> USE DEF GInv, GTypeOK
<1>1. todo \in Seq(Tx) /\ todo # <<>> /\ Head(todo) \in Tx /\ Head(todo) = todo[1]
      /\ 1 \in 1..Len(todo)
  BY DEF Record
<1>2. Head(todo) \in Range2(chain) BY <1>1 DEF TodoOnChain
<1> DEFINE ix == Ensured(index, utxos)  x == Head(todo)
<1>3. ix \in Index /\ Covers(ix, utxos) BY EnsuredCovers
<1>4. index' = ix /\ reg' = Recorded(reg, x, ix.total[Owner[x]]) BY DEF Record
<1>5. ix.total[Owner[x]] \in Int
  <2>1. Owner[x] \in Art BY <1>1 DEF Art, Owners, Tx
  <2> HIDE DEF ix, x
  <2> QED BY <1>3, <2>1 DEF Index
<1> QED BY <1>1, <1>2, <1>3, <1>4, <1>5

LEMMA RecordInv == ASSUME GInv, Record PROVE GInv'
<1> USE DEF GInv, GTypeOK
<1>1. PICK balance \in Int : reg' = Recorded(reg, Head(todo), balance) BY RecordStep
<1>2. /\ todo \in Seq(Tx) /\ todo # <<>> /\ Head(todo) \in Tx
      /\ index' \in Index /\ Covers(index', utxos)
  BY RecordStep
<1>3. reg' \in Registry /\ PaidInOrder(reg') BY <1>1, <1>2, RecordedInOrder
<1>4. todo' = Tail(todo) /\ chain' = chain /\ utxos' = utxos /\ moves' = moves
  BY DEF Record
<1>5. Tail(todo) \in Seq(Tx) /\ \A i \in 1..Len(Tail(todo)) :
        Tail(todo)[i] = todo[i + 1] /\ i + 1 \in 1..Len(todo)
  BY <1>2
<1>6. TodoOnChain' BY <1>4, <1>5 DEF TodoOnChain
<1>7. KnowsSoFar'
  <2> SUFFICES ASSUME moves = [reorgs |-> 0, kills |-> 0]
               PROVE  \E done \in Seq(Tx) :
                        done \o Tail(todo) = FlattenSeq(chain) /\ Knows(reg', done)
    BY <1>4 DEF KnowsSoFar
  <2>1. PICK done \in Seq(Tx) : done \o todo = FlattenSeq(chain) /\ Knows(reg, done)
    BY DEF KnowsSoFar
  <2> DEFINE next == Append(done, Head(todo))
  <2>2. Knows(reg', next) BY <1>1, <1>2, <2>1, RecordedKnows
  <2>3. next \in Seq(Tx) /\ next \o Tail(todo) = done \o todo BY <1>2
  <2> HIDE DEF next
  <2> QED BY <2>1, <2>2, <2>3
<1> QED BY <1>2, <1>3, <1>4, <1>5, <1>6, <1>7

\* A reorganisation replays a chain.
LEMMA ReorganiseStep ==
  ASSUME GInv, NEW b \in Blocks(Tx),
         NEW k \in (Len(chain) - 2)..(Len(chain) - 1), k >= 0, Reorganise(k, b)
  PROVE  /\ chain' \in Seq(Seq(Tx))
         /\ LET st == Rebuilt(chain', index, reg)
            IN  utxos' = st.utxos /\ index' = st.index /\ reg' = st.reg
         /\ todo = <<>> /\ todo' = todo /\ moves'.reorgs = moves.reorgs + 1
         /\ moves' \in [reorgs : Nat, kills : Nat]
<1> USE DEF GInv, GTypeOK
<1>0. b \in Seq(Tx) BY BlocksAreSeqs
<1>1. SubSeq(chain, 1, k) \in Seq(Seq(Tx)) OBVIOUS
<1>2. chain' = Append(SubSeq(chain, 1, k), b) BY DEF Reorganise
<1>3. chain' \in Seq(Seq(Tx)) BY <1>0, <1>1, <1>2
<1>4. LET st == Rebuilt(chain', index, reg)
      IN  utxos' = st.utxos /\ index' = st.index /\ reg' = st.reg
  BY <1>2 DEF Reorganise
<1>5. moves' = [moves EXCEPT !.reorgs = @ + 1] /\ todo = <<>> /\ todo' = todo
  BY DEF Reorganise
<1>6. moves'.reorgs = moves.reorgs + 1 /\ moves' \in [reorgs : Nat, kills : Nat]
  <2>1. moves \in [reorgs : Nat, kills : Nat] OBVIOUS
  <2>2. PICK r \in Nat, k2 \in Nat : moves = [reorgs |-> r, kills |-> k2] BY <2>1
  <2> HIDE DEF GInv, GTypeOK
  <2>3. moves' = [reorgs |-> r + 1, kills |-> k2] BY <1>5, <2>2
  <2> QED BY <2>2, <2>3
<1>7. todo = <<>> /\ todo' = todo BY <1>5
<1> HIDE DEF GInv, GTypeOK
<1> QED BY <1>3, <1>4, <1>6, <1>7

LEMMA ReorganiseInv ==
  ASSUME GInv, NEW b \in Blocks(Tx),
         NEW k \in (Len(chain) - 2)..(Len(chain) - 1), k >= 0, Reorganise(k, b)
  PROVE  GInv'
<1> USE DEF GInv, GTypeOK
<1> DEFINE st == Rebuilt(chain', index, reg)
<1>1. /\ chain' \in Seq(Seq(Tx)) /\ todo = <<>> /\ todo' = todo
      /\ utxos' = st.utxos /\ index' = st.index /\ reg' = st.reg
      /\ moves'.reorgs = moves.reorgs + 1 /\ moves' \in [reorgs : Nat, kills : Nat]
  BY ReorganiseStep
<1>2. st \in Following /\ PaidInOrder(st.reg) BY <1>1, RebuiltKeeps
<1> HIDE DEF st
<1>3. /\ utxos' \in SUBSET Tx /\ index' \in Index /\ reg' \in Registry
      /\ Covers(index', utxos') /\ PaidInOrder(reg')
  BY <1>1, <1>2 DEF Following, Replay
<1>4. KnowsSoFar'
  <2>1. moves'.reorgs # 0 BY <1>1
  <2>2. moves' # [reorgs |-> 0, kills |-> 0] BY <2>1
  <2> QED BY <2>2 DEF KnowsSoFar
<1>5. TodoOnChain' BY <1>1 DEF TodoOnChain
<1> QED BY <1>1, <1>3, <1>4, <1>5

\* A proof changes neither records nor comments nor payouts.
LEMMA SubmitProofInv ==
  ASSUME GInv, NEW a \in Art, NEW s \in {Storer[x] : x \in Tx}, NEW e \in Int,
         SubmitProof(a, s, e)
  PROVE  GInv' /\ reg'.posts = reg.posts
<1> USE DEF GInv, GTypeOK
<1> DEFINE P == reg.proofs[a] \cup {[storer |-> s, epoch |-> e]}
<1>1. reg' = [reg EXCEPT !.proofs[a] = P] BY DEF SubmitProof
<1>2. P \in SUBSET Proof
  <2>1. reg.proofs[a] \in SUBSET Proof BY DEF Registry
  <2> QED BY <2>1 DEF Proof
<1> HIDE DEF P
<1>3. /\ reg'.posts = reg.posts /\ reg'.comments = reg.comments
      /\ reg'.payouts = reg.payouts /\ reg'.proofs = [reg.proofs EXCEPT ![a] = P]
  BY <1>1 DEF Registry
<1>4. reg' \in Registry
  <2>1. reg'.proofs \in [Art -> SUBSET Proof] BY <1>2, <1>3 DEF Registry
  <2> QED BY <1>1, <1>3, <2>1 DEF Registry
<1>5. PaidInOrder(reg') BY <1>3 DEF PaidInOrder
<1>6. \A d : Knows(reg, d) => Knows(reg', d) BY <1>3 DEF Knows
<1>7. UNCHANGED <<chain, utxos, index, todo, moves>> BY DEF SubmitProof
<1>8. KnowsSoFar' BY <1>6, <1>7 DEF KnowsSoFar
<1> QED BY <1>3, <1>4, <1>5, <1>7, <1>8 DEF TodoOnChain

\* The steps that leave chain, coins and registry alone.
LEMMA IdleInv ==
  ASSUME GInv, UNCHANGED <<chain, utxos, reg, todo, moves>>,
         index' = index \/ index' = NoIndex \/ index' = Ensured(index, utxos)
           \/ index' = Ensured(NoIndex, utxos)
  PROVE  GInv'
<1> USE DEF GInv, GTypeOK
<1>1. NoIndex \in Index /\ Covers(NoIndex, utxos)
  BY DEF NoIndex, Index, Art, Covers
<1>2. index' \in Index /\ Covers(index', utxos) BY <1>1, EnsuredCovers
<1>3. KnowsSoFar' /\ TodoOnChain' BY DEF KnowsSoFar, TodoOnChain
<1> QED BY <1>2, <1>3

\* A kill forgets what is still to be recorded.
LEMMA KillInv == ASSUME GInv, Kill PROVE GInv'
<1> USE DEF GInv, GTypeOK
<1>1. NoIndex \in Index /\ Covers(NoIndex, utxos)
  BY DEF NoIndex, Index, Art, Covers
<1>2. /\ UNCHANGED <<chain, utxos, reg>> /\ index' = NoIndex /\ todo' = <<>>
      /\ moves' = [moves EXCEPT !.kills = @ + 1]
  BY DEF Kill
<1>3. moves'.kills = moves.kills + 1 /\ moves' \in [reorgs : Nat, kills : Nat]
  <2>1. moves \in [reorgs : Nat, kills : Nat] OBVIOUS
  <2>2. moves' = [moves EXCEPT !.kills = @ + 1] BY <1>2
  <2> HIDE DEF GInv, GTypeOK
  <2> QED BY <2>1, <2>2
<1>4. KnowsSoFar'
  <2>1. moves \in [reorgs : Nat, kills : Nat] OBVIOUS
  <2>2. moves'.kills # 0 BY <1>3, <2>1
  <2>3. moves' # [reorgs |-> 0, kills |-> 0] BY <2>2
  <2> QED BY <2>3 DEF KnowsSoFar
<1>5. TodoOnChain' BY <1>2 DEF TodoOnChain
<1> QED BY <1>1, <1>2, <1>3, <1>4, <1>5

\* Every step keeps the invariant; the registry is changed by a record, a
\* reorganisation and a proof.
LEMMA GStepInv == GInv /\ [GNext]_gvars => GInv'
<1> SUFFICES ASSUME GInv, [GNext]_gvars PROVE GInv'
  OBVIOUS
<1>1. ASSUME NEW b \in Blocks(Tx), Connect(b) PROVE GInv'
  BY <1>1, ConnectInv
<1>2. ASSUME NEW b \in Blocks(Tx), NEW k \in (Len(chain) - 2)..(Len(chain) - 1),
             k >= 0, Reorganise(k, b)
      PROVE  GInv'
  BY <1>2, ReorganiseInv
<1>3. CASE Record BY <1>3, RecordInv
<1>4. CASE Kill BY <1>4, KillInv
<1>5. CASE Ask BY <1>5, IdleInv DEF Ask
<1>6. CASE Reload BY <1>6, IdleInv DEF Reload
<1>7. ASSUME NEW a \in Art, NEW s \in {Storer[x] : x \in Tx},
             NEW e \in 0..(TipEpoch + Drift), SubmitProof(a, s, e)
      PROVE  GInv'
  <2>1. e \in Int OBVIOUS
  <2> QED BY <1>7, <2>1, SubmitProofInv
<1>8. ASSUME NEW x \in Tx, BuildPayout(x) PROVE GInv'
  BY <1>8, IdleInv DEF BuildPayout
<1>9. ASSUME NEW x \in Tx, Offer(x) PROVE GInv'
  BY <1>9, IdleInv DEF Offer
<1>10. ASSUME NEW g \in cooling, Cool(g) PROVE GInv'
  BY <1>10, IdleInv DEF Cool
<1>11. CASE UNCHANGED gvars BY <1>11, IdleInv DEF gvars
<1> QED BY <1>1, <1>2, <1>3, <1>4, <1>5, <1>6, <1>7, <1>8, <1>9, <1>10, <1>11 DEF GNext

LEMMA GInvariant == GSpec => []GInv
<1> QED BY GInitInv, GStepInv, PTL DEF GSpec

\* The index never hides a coin and never answers less than an address owns.
THEOREM IndexNeverShort == GSpec => []BalanceNeverShort
<1>1. GInv => BalanceNeverShort
  <2> SUFFICES ASSUME GInv, index.live, NEW a \in Art
               PROVE  /\ Listed(index, utxos, a) = OwnedBy(a, utxos)
                      /\ index.total[a] >= Worth(OwnedBy(a, utxos))
    BY DEF BalanceNeverShort
  <2>0. /\ utxos \in SUBSET Tx /\ index \in Index /\ index.keys \in SUBSET Tx
        /\ index.total[a] \in Int
    BY DEF GInv, GTypeOK, Index
  <2>1. utxos \subseteq index.keys /\ index.total[a] >= Worth(OwnedBy(a, index.keys))
    BY DEF GInv, Covers
  <2>2. Listed(index, utxos, a) = OwnedBy(a, utxos)
    <3>1. index.keys \cap utxos = utxos BY <2>1
    <3> QED BY <3>1 DEF Listed
  <2>3. /\ OwnedBy(a, utxos) \subseteq OwnedBy(a, index.keys)
        /\ OwnedBy(a, utxos) \in SUBSET Tx /\ OwnedBy(a, index.keys) \in SUBSET Tx
    BY <2>0, <2>1 DEF OwnedBy
  <2>4. Worth(OwnedBy(a, utxos)) <= Worth(OwnedBy(a, index.keys))
    BY <2>3, WorthBounds
  <2>5. Worth(OwnedBy(a, utxos)) \in Int /\ Worth(OwnedBy(a, index.keys)) \in Int
    BY <2>3, WorthIsSum
  <2> QED BY <2>0, <2>1, <2>2, <2>4, <2>5
<1> QED BY <1>1, GInvariant, PTL

\* An artwork that is posted once is recorded as paid once per epoch.
THEOREM EpochPaidOnce == GSpec => []EpochRecordedOnce
<1>1. GInv => EpochRecordedOnce
  <2> SUFFICES ASSUME GInv, NEW a \in Art,
                      Cardinality({x \in Tx : Event[x] = "POST" /\ Owner[x] = a}) = 1
               PROVE  \A x, y \in reg.payouts[a] :
                        x # y => Epoch[x] # Epoch[y] \/ Epoch[x] < 0
    BY DEF EpochRecordedOnce
  <2> DEFINE S == {x \in Tx : Event[x] = "POST" /\ Owner[x] = a}
  <2>1. IsFiniteSet(S)
    <3>1. S \in SUBSET Coin BY DEF Tx
    <3> HIDE DEF S
    <3> QED BY <3>1, GraffitiAssumption, FS_Subset
  <2>2. \A x, y \in S : x = y
    <3> SUFFICES ASSUME NEW x \in S, NEW y \in S, x # y PROVE FALSE
      OBVIOUS
    <3>1. Cardinality(S) = 1 OBVIOUS
    <3> HIDE DEF S
    <3>2. IsFiniteSet(S \ {x}) /\ Cardinality(S \ {x}) = 0 BY <2>1, <3>1, FS_RemoveElement
    <3>3. S \ {x} = {} BY <3>2, FS_EmptySet
    <3> QED BY <3>3
  <2>3. OnePost(a) BY <2>2 DEF OnePost, IsPost
  <2> QED BY <2>3 DEF GInv, PaidInOrder
<1> QED BY <1>1, GInvariant, PTL

\* Until the first reorganisation or kill, a registry with nothing left to
\* record knows the comments and the last paid POST of its chain.
THEOREM RegistryKnowsChain == GSpec => []KnowsItsChain
<1>1. GInv => KnowsItsChain
  <2> SUFFICES ASSUME GInv, moves = [reorgs |-> 0, kills |-> 0], todo = <<>>
               PROVE  Knows(reg, FlattenSeq(chain))
    BY DEF KnowsItsChain
  <2>1. PICK done \in Seq(Tx) : done \o todo = FlattenSeq(chain) /\ Knows(reg, done)
    BY DEF GInv, KnowsSoFar
  <2>2. done \o <<>> = done OBVIOUS
  <2> QED BY <2>1, <2>2
<1> QED BY <1>1, GInvariant, PTL

\* A step sets the last paid epoch back only if another POST of the artwork is
\* on the chain.
LEMMA EpochStep ==
  ASSUME GInv, [GNext]_gvars, NEW a \in Art, reg.posts[a] # NoPost, NoOtherPost(a, chain')
  PROVE  reg'.posts[a].last >= reg.posts[a].last
<1> USE DEF GInv, GTypeOK
<1>0. reg.posts[a].last \in Int BY DEF Registry, Posted
<1>1. CASE reg'.posts = reg.posts BY <1>0, <1>1
<1>2. CASE Record
  <2>1. PICK balance \in Int : reg' = Recorded(reg, Head(todo), balance)
    BY <1>2, RecordStep
  <2>2. Head(todo) \in Tx /\ Head(todo) \in Range2(chain) BY <1>2, RecordStep
  <2>3. chain' = chain BY <1>2 DEF Record
  <2>4. IsPost(Head(todo), a) => Head(todo) = reg.posts[a].by
    BY <2>2, <2>3 DEF NoOtherPost, IsPost
  <2> QED BY <2>1, <2>2, <2>4, RecordedKeepsEpoch
<1>3. ASSUME NEW b \in Blocks(Tx), NEW k \in (Len(chain) - 2)..(Len(chain) - 1),
             k >= 0, Reorganise(k, b)
      PROVE  reg'.posts[a].last >= reg.posts[a].last
  <2>1. chain' \in Seq(Seq(Tx)) /\ reg' = Rebuilt(chain', index, reg).reg
    BY <1>3, ReorganiseStep
  <2>2. \A x \in Range2(chain') : IsPost(x, a) => x = reg.posts[a].by
    BY DEF NoOtherPost, IsPost
  <2> QED BY <2>1, <2>2, RebuiltKeeps
<1>4. ASSUME NEW d \in Art, NEW s \in {Storer[x] : x \in Tx},
             NEW e \in 0..(TipEpoch + Drift), SubmitProof(d, s, e)
      PROVE  reg'.posts = reg.posts
  <2>1. e \in Int OBVIOUS
  <2> QED BY <1>4, <2>1, SubmitProofInv
<1>5. CASE reg' = reg BY <1>0, <1>5
<1>6. \/ reg' = reg \/ Record
      \/ \E b \in Blocks(Tx) : \E k \in (Len(chain) - 2)..(Len(chain) - 1) :
           k >= 0 /\ Reorganise(k, b)
      \/ \E d \in Art, s \in {Storer[x] : x \in Tx}, e \in 0..(TipEpoch + Drift) :
           SubmitProof(d, s, e)
  BY DEF GNext, gvars, Connect, Kill, Ask, Reload, BuildPayout, Offer, Cool
<1> QED BY <1>1, <1>2, <1>3, <1>4, <1>5, <1>6

\* Neither a replay of the chain nor a restart opens a paid epoch again.
THEOREM PaidStaysPaid == GSpec => PaidEpochKept
<1>1. GInv /\ [GNext]_gvars
        => [\A a \in Art :
              reg.posts[a] # NoPost /\ NoOtherPost(a, chain') =>
                reg'.posts[a].last >= reg.posts[a].last]_gvars
  BY EpochStep
<1> QED BY <1>1, GInvariant, PTL DEF GSpec, PaidEpochKept

=============================================================================
