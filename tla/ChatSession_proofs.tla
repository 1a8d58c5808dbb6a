------------------------- MODULE ChatSession_proofs -------------------------
(***************************************************************************)
(* Two wallets stay in step, for any number of messages up to the number   *)
(* of keys a session keeps: proofs about ChatSession.  The invariant says  *)
(* of two sessions which of them leads, that is whose ratchet has been     *)
(* turned last, and of every message on its way how it will be read: with  *)
(* a key that was skipped, in the chain that is received, or by a turn of  *)
(* the ratchet to the chain of the leader.  Reading such a message makes   *)
(* the other one the leader.                                               *)
(***************************************************************************)
EXTENDS ChatSession, Recursion, SequenceTheorems

-----------------------------------------------------------------------------
(* What it takes for two wallets to be in step *)

\* What the bounds of a behaviour must be for the theorem: one wallet at most opens
\* sessions, and none sends more messages than keys can be kept for.
OneOpener ==
  \A b \in ChatBounds :
    /\ \E a \in User : b.opens \subseteq {a}
    /\ \A u \in User : b.texts[u] <= MaxSkip

Message == [from : User, eph : PublicKey, pn : Nat, n : Nat, opk : BOOLEAN, chain : ChainKey]

\* The messages that have been sent to u and that u has not worked through.
Waiting(u) == mail[u] \cup Range(inbox[u])

\* A ratchet key that has been generated.
Known(key) == key[2] <= made[key[1]]

\* No two messages in a mailbox and the answer to a poll have the same id, and none is
\* there twice.
Sorted(box, list) ==
  /\ box \subseteq Message /\ list \in Seq(Message) /\ Range(list) \cap box = {}
  /\ \A i, j \in DOMAIN list : list[i] = list[j] => i = j
  /\ \A x, y \in box \cup Range(list) : x.eph = y.eph /\ x.n = y.n => x = y

MailSound ==
  /\ mail \in [User -> SUBSET Message] /\ inbox \in [User -> Seq(Message)]
  /\ \A u \in User : Sorted(mail[u], inbox[u])
  /\ \A u \in User : \A m \in Waiting(u) : Known(m.eph)

WalletsSound ==
  /\ ram \in [User -> Session \cup {NoSession}]
  /\ disk \in [User -> Session \cup {NoSession}]
  /\ \A u \in User : ram[u] \in {disk[u], NoSession}
  /\ made \in [User -> Nat]
  /\ pendingOpk \in [User -> BOOLEAN]
  /\ asks \in [User -> [BOOLEAN -> Nat]]
  /\ budget \in [texts : [User -> Nat], opens : {budget.opens},
                 restarts : {budget.restarts}, losses : {budget.losses}]

\* The ids of the keys that a session keeps name one key each.
OneKeyPerId(s) == \A x, y \in Range(s.skipped) : x.dh = y.dh /\ x.n = y.n => x = y

\* No key that is kept is of an index still to come.
NoneToCome(s) == \A k \in Range(s.skipped) : k.dh = s.dhr => k.n < s.nr

\* All the keys that a session names have been generated.
KnownSession(s) ==
  /\ Known(s.dhs) /\ Known(s.dhr)
  /\ \A k \in Range(s.skipped) : Known(k.dh)

\* A message is read with a skipped key, in the chain that is received, or by a turn
\* of the ratchet to the chain that session t sends.
Kept(s, m) == \E k \in Range(s.skipped) : k.dh = m.eph /\ k.n = m.n /\ k.chain = m.chain
Current(s, m) == m.eph = s.dhr /\ m.chain = s.ckr /\ m.n >= s.nr
Ahead(t, m) == m.eph = t.dhs /\ m.chain = t.cks /\ m.pn = t.pn

\* Session l has turned its ratchet to the key of f, and f has not yet turned its own;
\* or neither ratchet has turned, and l turns its own when it sends.
Leads(l, f) ==
  /\ l.dhr = f.dhs /\ l.ckr = f.cks /\ ~f.rotate
  /\ \/ /\ l.rotate /\ l.rk = f.rk /\ l.ns = 0 /\ l.pn = 0
     \/ /\ ~l.rotate
        /\ l.rk = Append(f.rk, Dh(l.dhs, f.dhs)) /\ l.cks = Chain(l.rk, "next")
        /\ l.dhs # f.dhr /\ \A k \in Range(f.skipped) : k.dh # l.dhs

\* The keys that the messages sent and still to be sent can skip fit with those kept:
\* for the leader, in the chain of the other; for the other, in the chain that the
\* leader has ended and in the one it goes on with.
LeaderFits(l, f, texts) == l.nr <= f.ns /\ Len(l.skipped) + (f.ns - l.nr) + texts <= MaxSkip
OtherFits(l, f, texts) ==
  f.nr <= l.pn /\ Len(f.skipped) + (l.pn - f.nr) + l.ns + texts <= MaxSkip

\* Sessions l and f are in step, l leading: every message on its way to one of them
\* will be read.
Together(l, f, toL, toF, textsL, textsF) ==
  /\ l \in Session /\ f \in Session /\ Leads(l, f)
  /\ OneKeyPerId(l) /\ OneKeyPerId(f) /\ NoneToCome(l) /\ NoneToCome(f)
  /\ LeaderFits(l, f, textsF) /\ OtherFits(l, f, textsL)
  /\ \A m \in toL : (m.eph = f.dhs => m.n < f.ns) /\ (Kept(l, m) \/ Current(l, m))
  /\ l.rotate => toF = {}
  /\ \A m \in toF : /\ m.eph = l.dhs => m.n < l.ns
                    /\ Kept(f, m) \/ Ahead(l, m) \/ (Current(f, m) /\ m.n < l.pn)

\* No session yet.
Apart ==
  /\ \A u \in User : disk[u] = NoSession /\ Waiting(u) = {}
  /\ joined = FALSE /\ \A u \in User : budget.texts[u] <= MaxSkip

\* a has opened a session, and the other has read nothing.
Opened(a) ==
  LET b == Peer(a)
      s == disk[a]
  IN  /\ s \in Session /\ KnownSession(s)
      /\ disk[b] = NoSession /\ Waiting(a) = {} /\ joined = FALSE
      /\ s.cks.root = s.rk /\ s.nr = 0 /\ s.pn = 0 /\ s.skipped = <<>> /\ ~s.rotate
      /\ s.ns + budget.texts[a] <= MaxSkip /\ budget.texts[b] <= MaxSkip
      /\ \A m \in Waiting(b) : Ahead(s, m) /\ m.n < s.ns

\* Both have a session, and that of x leads.
Paired(x) ==
  LET y == Peer(x)
  IN  /\ KnownSession(disk[x]) /\ KnownSession(disk[y])
      /\ Together(disk[x], disk[y], Waiting(x), Waiting(y), budget.texts[x], budget.texts[y])

\* What the theorem excuses: a session is replaced, or a handshake is not understood.
Excused == replaced \/ \E f \in missed : ~f.joined

\* No answer is on its way to u.
NoAsks(u) == \A opk \in BOOLEAN : asks[u][opk] = 0

\* a is the only one that opens a session, and every message so far has been read.
InOrder(a) ==
  /\ WalletsSound /\ MailSound /\ missed = {}
  /\ budget.opens \subseteq {a} /\ NoAsks(Peer(a))
  /\ Apart \/ Opened(a) \/ \E x \in User : Paired(x)

ChatInv == Excused \/ \E a \in User : InOrder(a)

-----------------------------------------------------------------------------
(* Sequences of keys that are skipped *)

\* The other of the two wallets.
LEMMA PeerIs ==
  ASSUME NEW u \in User
  PROVE  /\ Peer(u) \in User /\ Peer(u) # u /\ Peer(Peer(u)) = u
         /\ \A v \in User : v = u \/ v = Peer(u)
<1>1. PICK a \in User, b \in User : a # b /\ User = {a, b} BY ChatAssumption
<1>2. \A x \in User : \E v \in User : v # x BY <1>1
<1>3. \A x \in User : Peer(x) \in User /\ Peer(x) # x BY <1>2 DEF Peer
<1> QED BY <1>1, <1>3

\* A key of a new id is put behind the others while there is room.
LEMMA StoredBehind ==
  ASSUME NEW skipped \in Seq(MessageKey), NEW key \in MessageKey
  PROVE  /\ StoreSkipped(skipped, key) \in Seq(MessageKey)
         /\ /\ Len(skipped) < MaxSkip
            /\ \A i \in DOMAIN skipped : skipped[i].dh # key.dh \/ skipped[i].n # key.n
            => StoreSkipped(skipped, key) = Append(skipped, key)
<1> DEFINE left == IF Len(skipped) >= MaxSkip THEN Tail(skipped) ELSE skipped
           at == {i \in DOMAIN left : left[i].dh = key.dh /\ left[i].n = key.n}
           over == [i \in DOMAIN left |-> IF i \in at THEN key ELSE left[i]]
<1>0. MaxSkip \in Nat \ {0} BY ChatAssumption
<1>1. left \in Seq(MessageKey)
  <2>1. Len(skipped) >= MaxSkip => skipped # <<>> BY <1>0
  <2> QED BY <2>1
<1>2. over \in Seq(MessageKey)
  <2> HIDE DEF left
  <2>1. DOMAIN left = 1..Len(left) /\ Len(left) \in Nat BY <1>1
  <2>2. \A i \in 1..Len(left) : left[i] \in MessageKey BY <1>1
  <2> HIDE DEF at
  <2>3. over \in [1..Len(left) -> MessageKey] BY <2>1, <2>2
  <2> QED BY <2>1, <2>3, SeqDef
<1>3. StoreSkipped(skipped, key) = IF at = {} THEN Append(left, key) ELSE over
  BY DEF StoreSkipped
<1>4. StoreSkipped(skipped, key) \in Seq(MessageKey)
  <2> HIDE DEF left, at, over
  <2> QED BY <1>1, <1>2, <1>3
<1>5. ASSUME Len(skipped) < MaxSkip,
             \A i \in DOMAIN skipped : skipped[i].dh # key.dh \/ skipped[i].n # key.n
      PROVE  StoreSkipped(skipped, key) = Append(skipped, key)
  <2>1. left = skipped BY <1>0, <1>5
  <2> HIDE DEF left
  <2>2. at = {} BY <1>5, <2>1
  <2> QED BY <1>3, <2>1, <2>2
<1> QED BY <1>4, <1>5

\* Keys of new ids are put behind the others in their order while there is room.
LEMMA AllStoredBehind ==
  ASSUME NEW skipped \in Seq(MessageKey), NEW added \in Seq(MessageKey),
         Len(skipped) + Len(added) <= MaxSkip,
         \A j \in DOMAIN added : \A i \in DOMAIN skipped :
           skipped[i].dh # added[j].dh \/ skipped[i].n # added[j].n,
         \A i, j \in DOMAIN added : i # j => added[i].dh # added[j].dh \/ added[i].n # added[j].n
  PROVE  FoldLeft(StoreSkipped, skipped, added) = skipped \o added
<1> DEFINE n == Len(added)
           St == Seq(MessageKey)
           step == [i \in 1..n |-> [st \in St |-> StoreSkipped(st, added[i])]]
           Folds(g) == g = [s \in SUBSET DOMAIN added |->
                              IF s = {} THEN skipped
                              ELSE LET i == Max(s) IN StoreSkipped(g[s \ {i}], added[i])]
           h == CHOOSE g : Folds(g)
<1>0. n \in Nat /\ DOMAIN added = 1..n /\ \A i \in 1..n : added[i] \in MessageKey
  OBVIOUS
<1>1. FoldLeft(StoreSkipped, skipped, added) = h[DOMAIN added]
  BY DEF FoldLeft, MapThenFoldSet
<1>2. step \in [1..n -> [St -> St]]
  <2>1. \A i \in 1..n : \A st \in St : StoreSkipped(st, added[i]) \in St
    <3> HIDE DEF n
    <3> QED BY <1>0, StoredBehind
  <2> HIDE DEF St
  <2> QED BY <2>1
<1>4. PICK u \in [SUBSET (1..n) -> St] : FoldsUp(u, n, skipped, step)
  <2>1. skipped \in St OBVIOUS
  <2> HIDE DEF step, n, St
  <2> QED BY <1>0, <1>2, <2>1, FoldExists
<1> HIDE DEF St
<1>5. Folds(u)
  <2>1. u = [s \in SUBSET (1..n) |->
               IF s = {} THEN skipped ELSE LET i == Max(s) IN step[i][u[s \ {i}]]]
    BY <1>4 DEF FoldsUp
  <2>2. ASSUME NEW s \in SUBSET (1..n), s # {}
        PROVE  step[Max(s)][u[s \ {Max(s)}]] = StoreSkipped(u[s \ {Max(s)}], added[Max(s)])
    <3> DEFINE i == Max(s)
    <3>1. i \in 1..n
      <4>1. s \in SUBSET (0..n) BY <1>0
      <4> HIDE DEF n
      <4> QED BY <1>0, <2>2, <4>1, MaxOf
    <3>2. u[s \ {i}] \in St
      <4>1. s \ {i} \in SUBSET (1..n) OBVIOUS
      <4> HIDE DEF i, n
      <4> QED BY <1>4, <4>1
    <3> HIDE DEF i
    <3>3. step[i][u[s \ {i}]] = StoreSkipped(u[s \ {i}], added[i]) BY <3>1, <3>2
    <3> QED BY <3>3 DEF i
  <2>3. ASSUME NEW s \in SUBSET (1..n)
        PROVE  u[s] = IF s = {} THEN skipped
                      ELSE LET i == Max(s) IN StoreSkipped(u[s \ {i}], added[i])
    <3> HIDE DEF step, n
    <3>1. u[s] = IF s = {} THEN skipped ELSE step[Max(s)][u[s \ {Max(s)}]] BY <2>1
    <3>2. CASE s = {} BY <3>1, <3>2
    <3>3. CASE s # {} BY <2>2, <3>1, <3>3
    <3> QED BY <3>2, <3>3
  <2>4. u = [s \in SUBSET (1..n) |-> u[s]] BY <1>4
  <2> HIDE DEF step, n
  <2>5. u = [s \in SUBSET (1..n) |->
               IF s = {} THEN skipped
               ELSE LET i == Max(s) IN StoreSkipped(u[s \ {i}], added[i])]
    BY <2>3, <2>4
  <2> QED BY <1>0, <2>5
<1>6. Folds(h)
  <2> HIDE DEF Folds
  <2> QED BY <1>5
<1> HIDE DEF h, step
<1>7. h[1..0] = skipped
  <2>1. {} \in SUBSET DOMAIN added /\ 1..0 = {} OBVIOUS
  <2>2. h[{}] = skipped BY <1>6, <2>1
  <2> QED BY <2>1, <2>2
<1>8. ASSUME NEW i \in 1..n PROVE h[1..i] = StoreSkipped(h[1..(i - 1)], added[i])
  <2>1. Max(1..i) = i /\ (1..i) \ {i} = 1..(i - 1) BY MaxOfFirst
  <2> DEFINE s == 1..i
  <2>2. s \in SUBSET DOMAIN added /\ s # {}
    <3>1. \A j \in 1..i : j \in 1..n BY <1>0
    <3>2. i \in 1..i BY <1>0
    <3> HIDE DEF n
    <3> QED BY <1>0, <3>1, <3>2
  <2> HIDE DEF s
  <2>3. h[s] = StoreSkipped(h[s \ {Max(s)}], added[Max(s)]) BY <1>6, <2>2
  <2> QED BY <2>1, <2>3 DEF s
<1> HIDE DEF Folds
<1> DEFINE I == {k \in Nat : k \in 0..n => h[1..k] = skipped \o SubSeq(added, 1, k)}
<1>9. 0 \in I
  <2>1. SubSeq(added, 1, 0) = <<>> BY SubSeqEmpty
  <2>2. skipped \o <<>> = skipped OBVIOUS
  <2> QED BY <1>7, <2>1, <2>2
<1>10. ASSUME NEW k \in Nat, k \in I PROVE k + 1 \in I
  <2> SUFFICES ASSUME k + 1 \in 0..n PROVE h[1..(k + 1)] = skipped \o SubSeq(added, 1, k + 1)
    OBVIOUS
  <2> DEFINE m == k + 1
             st == skipped \o SubSeq(added, 1, k)
  <2>1. m \in 1..n /\ m - 1 = k /\ k \in 0..n /\ k < n BY <1>0
  <2>2. h[1..k] = st BY <1>10, <2>1
  <2>3. h[1..m] = StoreSkipped(st, added[m])
    <3> HIDE DEF m, st, n
    <3> QED BY <1>8, <2>1, <2>2
  <2>4. /\ SubSeq(added, 1, k) \in Seq(MessageKey) /\ Len(SubSeq(added, 1, k)) = k
        /\ \A j \in 1..k : SubSeq(added, 1, k)[j] = added[j]
    <3>1. \A j \in 1..k : added[j] \in MessageKey BY <1>0, <2>1
    <3> HIDE DEF n
    <3>2. /\ SubSeq(added, 1, k) \in Seq(MessageKey)
          /\ Len(SubSeq(added, 1, k)) = IF 1 <= k THEN k - 1 + 1 ELSE 0
          /\ \A j \in 1..(k - 1 + 1) : SubSeq(added, 1, k)[j] = added[1 + j - 1]
      BY <3>1, SubSeqProperties
    <3> QED BY <3>2
  <2>5. /\ st \in Seq(MessageKey) /\ Len(st) = Len(skipped) + k
        /\ \A i \in 1..Len(st) :
             st[i] = IF i <= Len(skipped) THEN skipped[i] ELSE added[i - Len(skipped)]
    <3> DEFINE t == SubSeq(added, 1, k)
    <3> HIDE DEF t, n
    <3>1. t \in Seq(MessageKey) /\ Len(t) = k /\ \A j \in 1..k : t[j] = added[j]
      BY <2>4 DEF t
    <3>2. /\ skipped \o t \in Seq(MessageKey) /\ Len(skipped \o t) = Len(skipped) + k
          /\ \A i \in 1..(Len(skipped) + k) :
               (skipped \o t)[i] = IF i <= Len(skipped) THEN skipped[i] ELSE t[i - Len(skipped)]
      <4>1. skipped \in Seq(MessageKey) /\ t \in Seq(MessageKey) BY <3>1
      <4>2. /\ skipped \o t \in Seq(MessageKey)
            /\ Len(skipped \o t) = Len(skipped) + Len(t)
            /\ \A i \in 1..(Len(skipped) + Len(t)) :
                 (skipped \o t)[i]
                   = IF i <= Len(skipped) THEN skipped[i] ELSE t[i - Len(skipped)]
        BY <4>1, ConcatProperties
      <4> QED BY <3>1, <4>2
    <3>3. \A i \in 1..(Len(skipped) + k) : i <= Len(skipped) \/ i - Len(skipped) \in 1..k
      OBVIOUS
    <3>4. \A i \in 1..(Len(skipped) + k) :
            (skipped \o t)[i] = IF i <= Len(skipped) THEN skipped[i] ELSE added[i - Len(skipped)]
      BY <3>1, <3>2, <3>3
    <3> QED BY <3>2, <3>4 DEF t
  <2>6. Len(st) < MaxSkip BY <2>1, <2>5, ChatAssumption
  <2>7. \A i \in DOMAIN st : st[i].dh # added[m].dh \/ st[i].n # added[m].n
    <3> SUFFICES ASSUME NEW i \in DOMAIN st
                 PROVE  st[i].dh # added[m].dh \/ st[i].n # added[m].n
      OBVIOUS
    <3>1. i \in 1..Len(st) BY <2>5
    <3>2. CASE i <= Len(skipped)
      <4>1. i \in DOMAIN skipped /\ st[i] = skipped[i] BY <2>5, <3>1, <3>2
      <4>2. m \in DOMAIN added BY <1>0, <2>1
      <4> HIDE DEF st, m
      <4> QED BY <4>1, <4>2
    <3>3. CASE ~(i <= Len(skipped))
      <4> DEFINE j == i - Len(skipped)
      <4>1. j \in 1..n /\ j # m /\ st[i] = added[j] BY <2>1, <2>5, <3>1, <3>3
      <4> HIDE DEF st, m, j, n
      <4> QED BY <1>0, <2>1, <4>1
    <3> QED BY <3>2, <3>3
  <2>8. added[m] \in MessageKey BY <1>0, <2>1
  <2> HIDE DEF m, st, n
  <2>9. StoreSkipped(st, added[m]) = Append(st, added[m])
    BY <2>5, <2>6, <2>7, <2>8, StoredBehind
  <2>10. Append(st, added[m]) = skipped \o SubSeq(added, 1, m)
    <3>1. m \in 1..Len(added) /\ m - 1 = k BY <2>1 DEF n
    <3>2. SubSeq(added, 1, m) = SubSeq(added, 1, k) \o <<added[m]>>
      <4>1. 1 \in 1..Len(added) /\ m \in 1..Len(added) BY <3>1
      <4>2. SubSeq(added, 1, m) = SubSeq(added, 1, m - 1) \o <<added[m]>>
        BY <4>1, SubSeqRecursiveSecond
      <4> QED BY <3>1, <4>2
    <3>3. <<added[m]>> \in Seq(MessageKey) BY <2>8
    <3>4. skipped \o (SubSeq(added, 1, k) \o <<added[m]>>)
            = (skipped \o SubSeq(added, 1, k)) \o <<added[m]>>
      BY <2>4, <3>3, ConcatAssociative
    <3>5. Append(st, added[m]) = st \o <<added[m]>> BY <2>5, <2>8
    <3> QED BY <3>2, <3>4, <3>5 DEF st
  <2>11. h[1..m] = skipped \o SubSeq(added, 1, m) BY <2>3, <2>9, <2>10
  <2> QED BY <2>11 DEF m
<1>11. h[1..n] = skipped \o SubSeq(added, 1, n)
  <2> HIDE DEF I
  <2>1. Nat \subseteq I BY <1>9, <1>10, SetInduction
  <2> QED BY <1>0, <2>1 DEF I
<1>12. SubSeq(added, 1, n) = added BY SubSeqFull
<1> QED BY <1>0, <1>1, <1>11, <1>12

\* The elements of a sequence.
LEMMA InRange ==
  ASSUME NEW S, NEW s \in Seq(S)
  PROVE  /\ Range(s) \in SUBSET S /\ Range(s) = {s[i] : i \in 1..Len(s)}
         /\ \A i \in 1..Len(s) : s[i] \in Range(s)
         /\ \A x \in Range(s) : \E i \in 1..Len(s) : s[i] = x
<1>1. DOMAIN s = 1..Len(s) OBVIOUS
<1>2. \A i \in 1..Len(s) : s[i] \in S OBVIOUS
<1> QED BY <1>1, <1>2 DEF Range

LEMMA RangeOfConcat ==
  ASSUME NEW S, NEW s \in Seq(S), NEW t \in Seq(S)
  PROVE  Range(s \o t) = Range(s) \cup Range(t)
<1> DEFINE c == s \o t
<1>1. /\ c \in Seq(S) /\ Len(c) = Len(s) + Len(t)
      /\ \A i \in 1..Len(s) + Len(t) : c[i] = IF i <= Len(s) THEN s[i] ELSE t[i - Len(s)]
  BY ConcatProperties
<1> HIDE DEF c
<1>2. ASSUME NEW x \in Range(c) PROVE x \in Range(s) \cup Range(t)
  <2>1. PICK i \in 1..Len(c) : c[i] = x BY <1>1, InRange
  <2>2. CASE i <= Len(s)
    <3>1. i \in 1..Len(s) /\ x = s[i] BY <1>1, <2>1, <2>2
    <3> QED BY <3>1, InRange
  <2>3. CASE ~(i <= Len(s))
    <3>1. i - Len(s) \in 1..Len(t) /\ x = t[i - Len(s)] BY <1>1, <2>1, <2>3
    <3> QED BY <3>1, InRange
  <2> QED BY <2>2, <2>3
<1>3. ASSUME NEW x \in Range(s) PROVE x \in Range(c)
  <2>1. PICK i \in 1..Len(s) : s[i] = x BY InRange
  <2>2. i \in 1..Len(c) /\ c[i] = x BY <1>1, <2>1
  <2> QED BY <1>1, <2>2, InRange
<1>4. ASSUME NEW x \in Range(t) PROVE x \in Range(c)
  <2>1. PICK i \in 1..Len(t) : t[i] = x BY InRange
  <2>2. /\ i + Len(s) \in 1..Len(c) /\ ~(i + Len(s) <= Len(s))
        /\ i + Len(s) - Len(s) = i
    BY <1>1
  <2>3. c[i + Len(s)] = x BY <1>1, <2>1, <2>2
  <2> QED BY <1>1, <2>2, <2>3, InRange
<1>5. Range(c) = Range(s) \cup Range(t) BY <1>2, <1>3, <1>4
<1> QED BY <1>5 DEF c

\* Without its i-th element a sequence holds the others.
LEMMA RemovedAt ==
  ASSUME NEW S, NEW s \in Seq(S), NEW i \in 1..Len(s)
  PROVE  /\ RemoveAt(s, i) \in Seq(S) /\ Len(RemoveAt(s, i)) = Len(s) - 1
         /\ Range(RemoveAt(s, i)) \subseteq Range(s)
         /\ \A x \in Range(s) : x # s[i] => x \in Range(RemoveAt(s, i))
<1> DEFINE a == SubSeq(s, 1, i - 1)
           b == SubSeq(s, i + 1, Len(s))
           n == Len(s)
<1>0. n \in Nat /\ i \in 1..n /\ \A j \in 1..n : s[j] \in S OBVIOUS
<1>1. /\ a \in Seq(S) /\ Len(a) = i - 1 /\ \A j \in 1..(i - 1) : a[j] = s[j]
  <2>1. \A j \in 1..(i - 1) : s[j] \in S BY <1>0
  <2> HIDE DEF n
  <2>2. /\ a \in Seq(S) /\ Len(a) = IF 1 <= i - 1 THEN i - 1 - 1 + 1 ELSE 0
        /\ \A j \in 1..(i - 1 - 1 + 1) : a[j] = s[1 + j - 1]
    BY <1>0, <2>1, SubSeqProperties
  <2> HIDE DEF a
  <2> QED BY <1>0, <2>2
<1>2. /\ b \in Seq(S) /\ Len(b) = n - i /\ \A j \in 1..(n - i) : b[j] = s[i + j]
  <2>1. \A j \in (i + 1)..n : s[j] \in S BY <1>0
  <2>2. /\ b \in Seq(S) /\ Len(b) = IF i + 1 <= n THEN n - (i + 1) + 1 ELSE 0
        /\ \A j \in 1..(n - (i + 1) + 1) : b[j] = s[i + 1 + j - 1]
    BY <1>0, <2>1, SubSeqProperties
  <2> HIDE DEF b, n
  <2> QED BY <1>0, <2>2
<1>3. RemoveAt(s, i) = a \o b BY DEF RemoveAt
<1> HIDE DEF a, b
<1>4. /\ a \o b \in Seq(S) /\ Len(a \o b) = Len(a) + Len(b)
      /\ Range(a \o b) = Range(a) \cup Range(b)
  <2>1. a \in Seq(S) /\ b \in Seq(S) BY <1>1, <1>2
  <2>2. a \o b \in Seq(S) /\ Len(a \o b) = Len(a) + Len(b) BY <2>1, ConcatProperties
  <2>3. Range(a \o b) = Range(a) \cup Range(b) BY <2>1, RangeOfConcat
  <2> QED BY <2>2, <2>3
<1>5. Range(a) \subseteq Range(s)
  <2> SUFFICES ASSUME NEW x \in Range(a) PROVE x \in Range(s) OBVIOUS
  <2>1. PICK j \in 1..Len(a) : a[j] = x BY <1>1, InRange
  <2>2. j \in 1..Len(s) /\ s[j] = x BY <1>0, <1>1, <2>1
  <2> QED BY <2>2, InRange
<1>6. Range(b) \subseteq Range(s)
  <2> SUFFICES ASSUME NEW x \in Range(b) PROVE x \in Range(s) OBVIOUS
  <2>1. PICK j \in 1..Len(b) : b[j] = x BY <1>2, InRange
  <2>2. i + j \in 1..Len(s) /\ s[i + j] = x BY <1>0, <1>2, <2>1
  <2> QED BY <2>2, InRange
<1>7. ASSUME NEW x \in Range(s), x # s[i] PROVE x \in Range(a) \cup Range(b)
  <2>1. PICK j \in 1..Len(s) : s[j] = x BY InRange
  <2>2. CASE j < i
    <3>1. j \in 1..Len(a) /\ a[j] = x BY <1>0, <1>1, <2>1, <2>2
    <3> QED BY <1>1, <3>1, InRange
  <2>3. CASE j > i
    <3>1. j - i \in 1..Len(b) /\ i + (j - i) = j BY <1>0, <1>2, <2>3
    <3>2. b[j - i] = x BY <1>2, <2>1, <3>1
    <3> QED BY <1>2, <3>1, <3>2, InRange
  <2> QED BY <1>0, <1>7, <2>1, <2>2, <2>3
<1>8. Len(a) + Len(b) = Len(s) - 1 BY <1>0, <1>1, <1>2
<1> QED BY <1>3, <1>4, <1>5, <1>6, <1>7, <1>8

-----------------------------------------------------------------------------
(* What the ratchet makes of a message *)

SkippedTo(s, until) == IF until <= s.nr THEN s.nr ELSE until
NewKeys(s, until) == {SkippedKey(s, i) : i \in s.nr..(until - 1)}

\* There is room for the keys up to an index.
Fits(s, until) == Len(s.skipped) + (SkippedTo(s, until) - s.nr) <= MaxSkip

\* The keys that are skipped are put with the others, and nothing else changes.
LEMMA SkipIs ==
  ASSUME NEW s \in Session, NEW until \in Nat, NoneToCome(s), Fits(s, until)
  PROVE  \E kept \in Seq(MessageKey) :
           /\ SkipMessageKeys(s, until)
                = [s EXCEPT !.nr = SkippedTo(s, until), !.skipped = kept]
           /\ Len(kept) = Len(s.skipped) + (SkippedTo(s, until) - s.nr)
           /\ Range(kept) = Range(s.skipped) \cup NewKeys(s, until)
<1> DEFINE added == [i \in 1..(until - s.nr) |-> SkippedKey(s, s.nr + i - 1)]
           kept == s.skipped \o added
<1>0. /\ s.nr \in Nat /\ s.skipped \in Seq(MessageKey) /\ s.dhr \in PublicKey
      /\ s.ckr \in ChainKey
  BY DEF Session
<1>1. CASE until <= s.nr
  <2>1. SkipMessageKeys(s, until) = s BY <1>1 DEF SkipMessageKeys
  <2>2. SkippedTo(s, until) = s.nr BY <1>1 DEF SkippedTo
  <2>3. s = [s EXCEPT !.nr = s.nr, !.skipped = s.skipped] BY DEF Session
  <2>4. NewKeys(s, until) = {}
    <3>1. s.nr..(until - 1) = {} BY <1>0, <1>1
    <3> QED BY <3>1 DEF NewKeys
  <2>5. Len(s.skipped) = Len(s.skipped) + (s.nr - s.nr) BY <1>0
  <2> QED BY <1>0, <2>1, <2>2, <2>3, <2>4, <2>5
<1>2. CASE ~(until <= s.nr)
  <2>1. SkippedTo(s, until) = until BY <1>2 DEF SkippedTo
  <2> DEFINE n == until - s.nr
  <2>2. n \in Nat BY <1>0, <1>2
  <2>3. /\ added \in Seq(MessageKey) /\ Len(added) = n
        /\ \A i \in 1..n : /\ added[i].dh = s.dhr /\ added[i].n = s.nr + i - 1
                           /\ added[i] = SkippedKey(s, s.nr + i - 1)
    <3>1. \A i \in 1..n : s.nr + i - 1 \in Nat BY <1>0
    <3>2. \A i \in 1..n : SkippedKey(s, s.nr + i - 1) \in MessageKey
      BY <1>0, <3>1 DEF SkippedKey, MessageKey
    <3>3. \A i \in 1..n : /\ SkippedKey(s, s.nr + i - 1).dh = s.dhr
                          /\ SkippedKey(s, s.nr + i - 1).n = s.nr + i - 1
      BY DEF SkippedKey
    <3>4. added = [i \in 1..n |-> SkippedKey(s, s.nr + i - 1)] OBVIOUS
    <3> HIDE DEF n, added
    <3>5. added \in [1..n -> MessageKey] BY <3>2, <3>4
    <3>6. added \in Seq(MessageKey) /\ Len(added) = n BY <2>2, <3>5, SeqDef
    <3> QED BY <3>3, <3>4, <3>6
  <2>4. SkipMessageKeys(s, until)
          = [s EXCEPT !.nr = until, !.skipped = FoldLeft(StoreSkipped, s.skipped, added)]
    BY <1>2 DEF SkipMessageKeys
  <2> HIDE DEF added
  <2>5. Len(s.skipped) + Len(added) <= MaxSkip BY <2>1, <2>3 DEF Fits
  <2>6. \A j \in DOMAIN added : \A i \in DOMAIN s.skipped :
          s.skipped[i].dh # added[j].dh \/ s.skipped[i].n # added[j].n
    <3> SUFFICES ASSUME NEW j \in DOMAIN added, NEW i \in DOMAIN s.skipped,
                        s.skipped[i].dh = added[j].dh
                 PROVE  s.skipped[i].n # added[j].n
      OBVIOUS
    <3>1. j \in 1..n /\ i \in 1..Len(s.skipped)
      <4>1. added \in Seq(MessageKey) /\ Len(added) = n BY <2>3
      <4>2. DOMAIN added = 1..n
        <5> HIDE DEF n
        <5> QED BY <4>1
      <4> HIDE DEF n
      <4> QED BY <1>0, <4>2
    <3>2. s.skipped[i] \in Range(s.skipped) /\ s.skipped[i] \in MessageKey
      BY <1>0, <3>1, InRange
    <3>3. s.skipped[i].n < s.nr BY <2>3, <3>1, <3>2 DEF NoneToCome
    <3>4. s.skipped[i].n \in Nat BY <3>2 DEF MessageKey
    <3> QED BY <1>0, <2>2, <2>3, <3>1, <3>3, <3>4
  <2>7. \A i, j \in DOMAIN added :
          i # j => added[i].dh # added[j].dh \/ added[i].n # added[j].n
    <3>1. DOMAIN added = 1..n BY <2>3
    <3>2. \A i, j \in 1..n : i # j => s.nr + i - 1 # s.nr + j - 1 BY <1>0
    <3> QED BY <2>3, <3>1, <3>2
  <2>8. FoldLeft(StoreSkipped, s.skipped, added) = kept
    BY <1>0, <2>3, <2>5, <2>6, <2>7, AllStoredBehind
  <2>9. kept \in Seq(MessageKey) /\ Len(kept) = Len(s.skipped) + n
        /\ Range(kept) = Range(s.skipped) \cup Range(added)
    <3>1. kept \in Seq(MessageKey) /\ Len(kept) = Len(s.skipped) + Len(added)
      BY <1>0, <2>3, ConcatProperties
    <3>2. Range(kept) = Range(s.skipped) \cup Range(added) BY <1>0, <2>3, RangeOfConcat
    <3> HIDE DEF kept
    <3> QED BY <2>3, <3>1, <3>2
  <2>10. Range(added) = NewKeys(s, until)
    <3>1. ASSUME NEW x \in Range(added) PROVE x \in NewKeys(s, until)
      <4>1. PICK i \in 1..n : added[i] = x BY <2>3, InRange
      <4>2. s.nr + i - 1 \in s.nr..(until - 1) BY <1>0
      <4>3. x = SkippedKey(s, s.nr + i - 1) BY <2>3, <4>1
      <4> QED BY <4>2, <4>3 DEF NewKeys
    <3>2. ASSUME NEW x \in NewKeys(s, until) PROVE x \in Range(added)
      <4>1. PICK i \in s.nr..(until - 1) : x = SkippedKey(s, i) BY DEF NewKeys
      <4> DEFINE j == i - s.nr + 1
      <4>2. j \in 1..n /\ s.nr + j - 1 = i BY <1>0, <4>1
      <4>3. added[j] = SkippedKey(s, s.nr + j - 1)
        <5> HIDE DEF j, n
        <5> QED BY <2>3, <4>2
      <4>4. added[j] = x BY <4>1, <4>2, <4>3
      <4> HIDE DEF j, n
      <4> QED BY <2>3, <4>2, <4>4, InRange
    <3> QED BY <3>1, <3>2
  <2> HIDE DEF kept
  <2> QED BY <2>1, <2>4, <2>8, <2>9, <2>10
<1> QED BY <1>1, <1>2

\* The message is read with a skipped key, and no other key goes.
ReadWithKept(s, m, fresh) ==
  /\ Decrypt(s, m, fresh).outcome = "read"
  /\ \E kept \in Seq(MessageKey) :
       /\ Decrypt(s, m, fresh).session = [s EXCEPT !.skipped = kept]
       /\ Len(kept) = Len(s.skipped) - 1
       /\ Range(kept) \subseteq Range(s.skipped)
       /\ \A k \in Range(s.skipped) : k.dh # m.eph \/ k.n # m.n => k \in Range(kept)

\* A message whose key was skipped is read with it, and the key is gone.
LEMMA KeptIsRead ==
  ASSUME NEW s \in Session, NEW m \in Message, NEW fresh, OneKeyPerId(s), Kept(s, m)
  PROVE  ReadWithKept(s, m, fresh)
<1> DEFINE at == CHOOSE i \in Consumable(s, m) : TRUE
           kept == RemoveAt(s.skipped, at)
<1>0. s.skipped \in Seq(MessageKey) /\ DOMAIN s.skipped = 1..Len(s.skipped)
  BY DEF Session
<1>1. PICK k \in Range(s.skipped) : k.dh = m.eph /\ k.n = m.n /\ k.chain = m.chain
  BY DEF Kept
<1>2. Consumable(s, m) # {}
  <2>1. PICK i \in 1..Len(s.skipped) : s.skipped[i] = k BY <1>0, <1>1, InRange
  <2>2. i \in Consumable(s, m) BY <1>0, <1>1, <2>1 DEF Consumable
  <2> QED BY <2>2
<1>3. at \in Consumable(s, m) BY <1>2
<1> HIDE DEF at
<1>4. at \in 1..Len(s.skipped) /\ s.skipped[at].dh = m.eph /\ s.skipped[at].n = m.n
  BY <1>0, <1>3 DEF Consumable
<1>5. s.skipped[at] = k
  <2>1. s.skipped[at] \in Range(s.skipped) BY <1>0, <1>4, InRange
  <2> QED BY <1>1, <1>4, <2>1 DEF OneKeyPerId
<1>6. Decrypt(s, m, fresh)
        = [session |-> [s EXCEPT !.skipped = kept],
           outcome |-> IF s.skipped[at].chain = m.chain THEN "read" ELSE "none"]
  <2>1. [s EXCEPT !.skipped = kept] = [s EXCEPT !.skipped = RemoveAt(@, at)] OBVIOUS
  <2> QED BY <1>2, <2>1 DEF Decrypt, DecryptSkipped, at
<1>7. /\ Decrypt(s, m, fresh).session = [s EXCEPT !.skipped = kept]
      /\ Decrypt(s, m, fresh).outcome = "read"
  <2> HIDE DEF kept
  <2> QED BY <1>1, <1>5, <1>6
<1>8. /\ kept \in Seq(MessageKey) /\ Len(kept) = Len(s.skipped) - 1
      /\ Range(kept) \subseteq Range(s.skipped)
      /\ \A x \in Range(s.skipped) : x # s.skipped[at] => x \in Range(kept)
  BY <1>0, <1>4, RemovedAt
<1> HIDE DEF kept
<1>9. \A x \in Range(s.skipped) : x.dh # m.eph \/ x.n # m.n => x \in Range(kept)
  BY <1>4, <1>8
<1> QED BY <1>7, <1>8, <1>9 DEF ReadWithKept

\* Without a key of its id, a message is not tried with a skipped key.
LEMMA NotSkipped ==
  ASSUME NEW s \in Session, NEW m,
         \A k \in Range(s.skipped) : k.dh # m.eph \/ k.n # m.n
  PROVE  Consumable(s, m) = {}
<1>0. s.skipped \in Seq(MessageKey) /\ DOMAIN s.skipped = 1..Len(s.skipped)
  BY DEF Session
<1>1. ASSUME NEW i \in Consumable(s, m) PROVE FALSE
  <2>1. i \in 1..Len(s.skipped) /\ s.skipped[i].dh = m.eph /\ s.skipped[i].n = m.n
    BY <1>0 DEF Consumable
  <2>2. s.skipped[i] \in Range(s.skipped) BY <1>0, <2>1, InRange
  <2> QED BY <2>1, <2>2
<1> QED BY <1>1

\* A session that has received up to an index.
Received(s, next, kept) == [s EXCEPT !.nr = next, !.skipped = kept]

\* A message of the chain that is received is read, and the keys before it are kept.
LEMMA CurrentIsRead ==
  ASSUME NEW s \in Session, NEW m \in Message, NEW fresh,
         Current(s, m), NoneToCome(s), Fits(s, m.n)
  PROVE  /\ Decrypt(s, m, fresh).outcome = "read"
         /\ \E kept \in Seq(MessageKey) :
              /\ Decrypt(s, m, fresh).session = Received(s, m.n + 1, kept)
              /\ Len(kept) = Len(s.skipped) + (m.n - s.nr)
              /\ Range(kept) = Range(s.skipped) \cup NewKeys(s, m.n)
<1>0. s.nr \in Nat /\ m.n \in Nat /\ s.skipped \in Seq(MessageKey) /\ m.n >= s.nr
      /\ m.eph = s.dhr /\ m.chain = s.ckr
  BY DEF Session, Message, Current
<1>1. Consumable(s, m) = {}
  <2>1. ASSUME NEW k \in Range(s.skipped), k.dh = m.eph PROVE k.n # m.n
    <3>1. k.n < s.nr BY <1>0, <2>1 DEF NoneToCome
    <3>2. k.n \in Nat
      <4>1. k \in MessageKey BY <1>0, InRange
      <4> QED BY <4>1 DEF MessageKey
    <3> QED BY <1>0, <3>1, <3>2
  <2> QED BY <2>1, NotSkipped
<1>2. SkippedTo(s, m.n) = m.n BY <1>0 DEF SkippedTo
<1>3. PICK kept \in Seq(MessageKey) :
           /\ SkipMessageKeys(s, m.n) = [s EXCEPT !.nr = SkippedTo(s, m.n), !.skipped = kept]
           /\ Len(kept) = Len(s.skipped) + (SkippedTo(s, m.n) - s.nr)
           /\ Range(kept) = Range(s.skipped) \cup NewKeys(s, m.n)
  BY <1>0, SkipIs
<1> DEFINE ready == SkipMessageKeys(s, m.n)
<1>4. ready = [s EXCEPT !.nr = m.n, !.skipped = kept] BY <1>2, <1>3
<1>5. Decrypt(s, m, fresh)
        = [session |-> [ready EXCEPT !.nr = ready.nr + 1],
           outcome |-> IF ready.ckr = m.chain /\ ready.nr = m.n THEN "read" ELSE "raised"]
  <2>1. Decrypt(s, m, fresh) = DecryptNext(s, m, fresh) BY <1>1 DEF Decrypt
  <2>2. s.dhr = m.eph BY <1>0
  <2> QED BY <2>1, <2>2 DEF DecryptNext
<1> HIDE DEF ready
<1>6. ready.nr = m.n /\ ready.ckr = s.ckr BY <1>4 DEF Session
<1> DEFINE next == m.n + 1
<1> HIDE DEF next
<1>7. [ready EXCEPT !.nr = next] = Received(s, next, kept)
  <2>1. ASSUME NEW t, t = [ready EXCEPT !.nr = next]
        PROVE  t = [s EXCEPT !.nr = next, !.skipped = kept]
    BY <1>4, <2>1 DEF Session
  <2> QED BY <2>1 DEF Received
<1>8. /\ Decrypt(s, m, fresh).session = Received(s, next, kept)
      /\ Decrypt(s, m, fresh).outcome = "read"
  <2>1. ready.nr + 1 = next BY <1>6 DEF next
  <2>2. Decrypt(s, m, fresh)
        = [session |-> [ready EXCEPT !.nr = next],
           outcome |-> IF ready.ckr = m.chain /\ ready.nr = m.n THEN "read" ELSE "raised"]
    BY <1>5, <2>1
  <2> QED BY <1>0, <1>6, <1>7, <2>2
<1> QED BY <1>2, <1>3, <1>8 DEF next

\* The keys of a chain below an index.
ChainKeys(eph, chain, n) == {[dh |-> eph, n |-> i, chain |-> chain] : i \in 0..(n - 1)}

\* The session after a turn of the ratchet to the key and the chain of a message.
Turned(s, m, fresh, kept) ==
  LET root == Append(Derive(s, s.dhs, m.eph), Dh(fresh, m.eph))
  IN  [rk |-> root, cks |-> Chain(root, "next"), ckr |-> m.chain, dhs |-> fresh,
       dhr |-> m.eph, ns |-> 0, nr |-> m.n + 1, pn |-> s.ns, rotate |-> FALSE,
       skipped |-> kept]

LEMMA DerivedRoot ==
  ASSUME NEW rk \in Seq(Secret), NEW x \in PublicKey, NEW y \in PublicKey
  PROVE  Append(rk, Dh(x, y)) \in Seq(Secret)
<1>1. {x, y} \in SUBSET PublicKey OBVIOUS
<1>2. Dh(x, y) \in Secret BY <1>1 DEF Dh, Secret
<1> QED BY <1>2

\* A message of a new ratchet key is read if its chain is the next one, and the keys
\* before it, in the chain that ends and in its own, are kept.
LEMMA AheadIsRead ==
  ASSUME NEW s \in Session, NEW m \in Message, NEW fresh \in PublicKey,
         m.eph # s.dhr, m.chain = Chain(Derive(s, s.dhs, m.eph), "next"),
         NoneToCome(s), \A k \in Range(s.skipped) : k.dh # m.eph,
         Len(s.skipped) + (SkippedTo(s, m.pn) - s.nr) + m.n <= MaxSkip
  PROVE  /\ Decrypt(s, m, fresh).outcome = "read"
         /\ \E kept \in Seq(MessageKey) :
              /\ Decrypt(s, m, fresh).session = Turned(s, m, fresh, kept)
              /\ Len(kept) = Len(s.skipped) + (SkippedTo(s, m.pn) - s.nr) + m.n
              /\ Range(kept) = Range(s.skipped) \cup NewKeys(s, m.pn)
                               \cup ChainKeys(m.eph, m.chain, m.n)
<1>0. /\ s.nr \in Nat /\ m.n \in Nat /\ m.pn \in Nat /\ s.skipped \in Seq(MessageKey)
      /\ s.ns \in Nat /\ m.eph \in PublicKey /\ s.dhs \in PublicKey /\ s.dhr \in PublicKey
      /\ m.chain \in ChainKey /\ s.rk \in Seq(Secret) /\ Len(s.skipped) \in Nat
  BY DEF Session, Message
<1>1. Consumable(s, m) = {} BY NotSkipped
<1>2. SkippedTo(s, m.pn) \in Nat /\ SkippedTo(s, m.pn) >= s.nr BY <1>0 DEF SkippedTo
<1>3. Fits(s, m.pn) BY <1>0, <1>2, ChatAssumption DEF Fits
<1>4. PICK first \in Seq(MessageKey) :
           /\ SkipMessageKeys(s, m.pn) = [s EXCEPT !.nr = SkippedTo(s, m.pn), !.skipped = first]
           /\ Len(first) = Len(s.skipped) + (SkippedTo(s, m.pn) - s.nr)
           /\ Range(first) = Range(s.skipped) \cup NewKeys(s, m.pn)
  BY <1>0, <1>3, SkipIs
<1> DEFINE skipped == SkipMessageKeys(s, m.pn)
           received == Derive(s, s.dhs, m.eph)
           root == Append(received, Dh(fresh, m.eph))
           turned == DhRatchet(skipped, m.eph, fresh)
           ready == SkipMessageKeys(turned, m.n)
<1>5. /\ skipped.rk = s.rk /\ skipped.dhs = s.dhs /\ skipped.ns = s.ns
      /\ skipped.skipped = first
      /\ DOMAIN skipped = {"rk", "cks", "ckr", "dhs", "dhr", "ns", "nr", "pn", "rotate", "skipped"}
  BY <1>4 DEF Session
<1>6. turned = [rk |-> root, cks |-> Chain(root, "next"), ckr |-> m.chain, dhs |-> fresh,
                dhr |-> m.eph, ns |-> 0, nr |-> 0, pn |-> s.ns, rotate |-> FALSE,
                skipped |-> first]
  <2>1. Derive(skipped, skipped.dhs, m.eph) = received BY <1>5 DEF Derive
  <2> HIDE DEF skipped, received
  <2>2. turned = [skipped EXCEPT !.pn = skipped.ns, !.ns = 0, !.nr = 0, !.rk = root,
                    !.dhr = m.eph, !.ckr = Chain(received, "next"), !.dhs = fresh,
                    !.cks = Chain(root, "next"), !.rotate = FALSE]
    BY <2>1 DEF DhRatchet
  <2> HIDE DEF turned, root
  <2>3. m.chain = Chain(received, "next") BY DEF received
  <2> QED BY <1>4, <1>5, <2>2, <2>3 DEF Session
<1>7. turned \in Session
  <2>1. received \in Seq(Secret) BY <1>0, DerivedRoot DEF Derive
  <2>2. root \in Seq(Secret)
    <3> HIDE DEF received
    <3> QED BY <1>0, <2>1, DerivedRoot
  <2>3. Chain(root, "next") \in ChainKey BY <2>2 DEF Chain, ChainKey
  <2> HIDE DEF turned, root
  <2> QED BY <1>0, <1>6, <2>2, <2>3 DEF Session
<1> HIDE DEF turned, skipped
<1>8. turned.nr = 0 /\ turned.dhr = m.eph /\ turned.ckr = m.chain /\ turned.skipped = first
  BY <1>6
<1>9. SkippedTo(turned, m.n) = m.n BY <1>0, <1>8 DEF SkippedTo
<1>10. Fits(turned, m.n) BY <1>0, <1>2, <1>4, <1>8, <1>9, ChatAssumption DEF Fits
<1>11. NoneToCome(turned)
  <2> SUFFICES ASSUME NEW k \in Range(first) PROVE k.dh # m.eph
    BY <1>8 DEF NoneToCome
  <2>1. CASE k \in Range(s.skipped) BY <2>1
  <2>2. CASE k \in NewKeys(s, m.pn) BY <2>2 DEF NewKeys, SkippedKey
  <2> QED BY <1>4, <2>1, <2>2
<1>12. PICK kept \in Seq(MessageKey) :
           /\ ready = [turned EXCEPT !.nr = m.n, !.skipped = kept]
           /\ Len(kept) = Len(turned.skipped) + (m.n - turned.nr)
           /\ Range(kept) = Range(turned.skipped) \cup NewKeys(turned, m.n)
  BY <1>0, <1>7, <1>9, <1>10, <1>11, SkipIs
<1>13. Decrypt(s, m, fresh)
        = [session |-> [ready EXCEPT !.nr = ready.nr + 1],
           outcome |-> IF ready.ckr = m.chain /\ ready.nr = m.n THEN "read" ELSE "raised"]
  <2>1. Decrypt(s, m, fresh) = DecryptNext(s, m, fresh) BY <1>1 DEF Decrypt
  <2>2. s.dhr # m.eph OBVIOUS
  <2> QED BY <2>1, <2>2 DEF DecryptNext, turned, skipped
<1> HIDE DEF ready, root
<1>14. /\ ready.nr = m.n /\ ready.ckr = m.chain
       /\ [ready EXCEPT !.nr = ready.nr + 1]
            = [rk |-> root, cks |-> Chain(root, "next"), ckr |-> m.chain, dhs |-> fresh,
               dhr |-> m.eph, ns |-> 0, nr |-> m.n + 1, pn |-> s.ns, rotate |-> FALSE,
               skipped |-> kept]
  <2> DEFINE at(n, held) ==
        [rk |-> root, cks |-> Chain(root, "next"), ckr |-> m.chain, dhs |-> fresh,
         dhr |-> m.eph, ns |-> 0, nr |-> n, pn |-> s.ns, rotate |-> FALSE, skipped |-> held]
  <2>1. turned = at(0, first) BY <1>6
  <2>2. ready = at(m.n, kept)
    <3>1. ready = [turned EXCEPT !.nr = m.n, !.skipped = kept] BY <1>12
    <3> QED BY <2>1, <3>1
  <2>3. ready.nr = m.n /\ ready.ckr = m.chain BY <2>2
  <2>4. [ready EXCEPT !.nr = m.n + 1] = at(m.n + 1, kept)
    <3> DEFINE j == m.n + 1
    <3> HIDE DEF j
    <3>1. ASSUME NEW t, t = [ready EXCEPT !.nr = j] PROVE t = at(j, kept)
      BY <2>2, <3>1
    <3> QED BY <3>1 DEF j
  <2> HIDE DEF at
  <2>5. [ready EXCEPT !.nr = ready.nr + 1] = at(m.n + 1, kept) BY <2>3, <2>4
  <2> QED BY <2>3, <2>5 DEF at
<1>15. /\ Decrypt(s, m, fresh).session = [ready EXCEPT !.nr = ready.nr + 1]
       /\ Decrypt(s, m, fresh).outcome = "read"
  BY <1>13, <1>14
<1>16. Decrypt(s, m, fresh).session = Turned(s, m, fresh, kept)
  BY <1>14, <1>15 DEF Turned, root
<1>17. Len(kept) = Len(s.skipped) + (SkippedTo(s, m.pn) - s.nr) + m.n
  BY <1>0, <1>2, <1>4, <1>8, <1>12
<1>18. NewKeys(turned, m.n) = ChainKeys(m.eph, m.chain, m.n)
  BY <1>8 DEF NewKeys, SkippedKey, ChainKeys
<1> QED BY <1>4, <1>8, <1>12, <1>15, <1>16, <1>17, <1>18

-----------------------------------------------------------------------------
(* Mailboxes *)

-----------------------------------------------------------------------------
(* The messages on their way *)

\* A message of a new id is put with the others.
LEMMA SortedPut ==
  ASSUME NEW box, NEW list, Sorted(box, list), NEW m \in Message,
         \A x \in box \cup Range(list) : x.eph # m.eph \/ x.n # m.n
  PROVE  Sorted(box \cup {m}, list)
<1>1. m \notin Range(list) BY DEF Sorted
<1> QED BY <1>1 DEF Sorted

\* Messages are lost from a mailbox.
LEMMA SortedLess ==
  ASSUME NEW box, NEW list, Sorted(box, list), NEW less \in SUBSET box
  PROVE  Sorted(less, list)
BY DEF Sorted

\* An answer is dropped.
LEMMA SortedNone ==
  ASSUME NEW box, NEW list, Sorted(box, list)
  PROVE  Sorted(box, <<>>) /\ Range(<<>>) = {}
BY DEF Sorted, Range

\* One or two messages are handed over in an answer.
LEMMA SortedPoll ==
  ASSUME NEW box, Sorted(box, <<>>), NEW x \in box, NEW y \in box
  PROVE  LET list == IF x = y THEN <<x>> ELSE <<x, y>>
         IN  Sorted(box \ {x, y}, list) /\ Range(list) = {x, y} /\ list \in Seq(Message)
<1>1. x \in Message /\ y \in Message BY DEF Sorted
<1>2. CASE x = y
  <2>1. <<x>> \in Seq(Message) /\ Range(<<x>>) = {x} /\ DOMAIN <<x>> = {1}
    BY <1>1 DEF Range
  <2> QED BY <1>1, <1>2, <2>1 DEF Sorted
<1>3. CASE x # y
  <2> DEFINE list == <<x, y>>
  <2>1. list \in Seq(Message) /\ DOMAIN list = 1..2 /\ list[1] = x /\ list[2] = y
    BY <1>1
  <2> HIDE DEF list
  <2>2. DOMAIN list = {1, 2} BY <2>1
  <2>3. Range(list) = {x, y} BY <2>1, <2>2 DEF Range
  <2>4. \A i, j \in DOMAIN list : list[i] = list[j] => i = j BY <1>3, <2>1, <2>2
  <2>5. Sorted(box \ {x, y}, list) BY <2>1, <2>3, <2>4 DEF Sorted
  <2> QED BY <1>3, <2>1, <2>3, <2>5 DEF list
<1> QED BY <1>2, <1>3

\* The first message of an answer is taken.
LEMMA SortedTake ==
  ASSUME NEW box, NEW list, Sorted(box, list), list # <<>>
  PROVE  /\ Sorted(box, Tail(list)) /\ Head(list) \in Range(list)
         /\ Range(Tail(list)) = Range(list) \ {Head(list)} /\ Head(list) \notin box
         /\ Head(list) \in Message /\ Tail(list) \in Seq(Message)
<1> DEFINE t == Tail(list)
           h == Head(list)
<1>0. list \in Seq(Message) /\ DOMAIN list = 1..Len(list) /\ Len(list) \in Nat
  BY DEF Sorted
<1>1. /\ h \in Message /\ t \in Seq(Message) /\ Len(t) = Len(list) - 1
      /\ \A i \in 1..Len(t) : t[i] = list[i + 1]
  BY <1>0, HeadTailProperties
<1>2. h = list[1] /\ 1 \in 1..Len(list) /\ DOMAIN t = 1..Len(t) BY <1>0
<1> HIDE DEF h, t
<1>3. h \in Range(list) BY <1>0, <1>2, InRange
<1>4. ASSUME NEW x \in Range(t) PROVE x \in Range(list) /\ x # h
  <2>1. PICK i \in 1..Len(t) : t[i] = x BY <1>1, InRange
  <2>2. i + 1 \in 1..Len(list) /\ list[i + 1] = x /\ i + 1 # 1 BY <1>0, <1>1, <2>1
  <2>3. x \in Range(list) BY <1>0, <2>2, InRange
  <2>4. x # h BY <1>0, <1>2, <2>2 DEF Sorted
  <2> QED BY <2>3, <2>4
<1>5. ASSUME NEW x \in Range(list), x # h PROVE x \in Range(t)
  <2>1. PICK i \in 1..Len(list) : list[i] = x BY <1>0, InRange
  <2>2. i # 1 BY <1>2, <1>5, <2>1
  <2>3. i - 1 \in 1..Len(t) /\ i - 1 + 1 = i BY <1>0, <1>1, <2>1, <2>2
  <2>4. t[i - 1] = x BY <1>1, <2>1, <2>3
  <2> QED BY <1>1, <2>3, <2>4, InRange
<1>6. Range(t) = Range(list) \ {h} BY <1>4, <1>5
<1>7. \A i, j \in DOMAIN t : t[i] = t[j] => i = j
  <2> SUFFICES ASSUME NEW i \in 1..Len(t), NEW j \in 1..Len(t), t[i] = t[j]
               PROVE  i = j
    BY <1>2
  <2>1. i + 1 \in 1..Len(list) /\ j + 1 \in 1..Len(list) BY <1>0, <1>1
  <2>2. list[i + 1] = list[j + 1] BY <1>1
  <2>3. i + 1 = j + 1 BY <1>0, <2>1, <2>2 DEF Sorted
  <2> QED BY <2>3
<1>8. Sorted(box, t) BY <1>1, <1>3, <1>6, <1>7 DEF Sorted
<1>9. h \notin box BY <1>3 DEF Sorted
<1> QED BY <1>1, <1>3, <1>6, <1>8, <1>9 DEF h, t

\* A wallet works through the first message of an answer.
LEMMA MailTaken ==
  ASSUME MailSound, NEW u \in User, inbox[u] # <<>>, mail' = mail,
         inbox' = [inbox EXCEPT ![u] = Tail(inbox[u])],
         \A key \in PublicKey : Known(key) => Known(key)'
  PROVE  /\ MailSound' /\ Head(inbox[u]) \in Waiting(u) /\ Head(inbox[u]) \in Message
         /\ Waiting(u)' = Waiting(u) \ {Head(inbox[u])}
         /\ \A v \in User : v # u => Waiting(v)' = Waiting(v)
<1>0. mail \in [User -> SUBSET Message] /\ inbox \in [User -> Seq(Message)]
  BY DEF MailSound
<1>1. Sorted(mail[u], inbox[u]) BY DEF MailSound
<1>2. /\ Sorted(mail[u], Tail(inbox[u])) /\ Head(inbox[u]) \in Range(inbox[u])
      /\ Range(Tail(inbox[u])) = Range(inbox[u]) \ {Head(inbox[u])}
      /\ Head(inbox[u]) \notin mail[u] /\ Head(inbox[u]) \in Message
      /\ Tail(inbox[u]) \in Seq(Message)
  BY <1>1, SortedTake
<1>3. /\ inbox'[u] = Tail(inbox[u]) /\ inbox' \in [User -> Seq(Message)]
      /\ \A v \in User : v # u => inbox'[v] = inbox[v]
  BY <1>0, <1>2
<1>4. /\ Waiting(u)' = Waiting(u) \ {Head(inbox[u])}
      /\ \A v \in User : v # u => Waiting(v)' = Waiting(v)
  BY <1>2, <1>3 DEF Waiting
<1>5. \A v \in User : Sorted(mail'[v], inbox'[v]) BY <1>2, <1>3 DEF MailSound
<1>6. \A v \in User : \A m \in Waiting(v)' : Known(m.eph)'
  <2>1. \A v \in User : \A m \in Waiting(v) : Known(m.eph) /\ m.eph \in PublicKey
    <3>1. \A v \in User : Waiting(v) \subseteq Message
      BY DEF MailSound, Waiting, Sorted, Range
    <3> QED BY <3>1 DEF MailSound, Message
  <2>2. \A v \in User : Waiting(v)' \subseteq Waiting(v) BY <1>4
  <2> QED BY <2>1, <2>2
<1>7. mail' \in [User -> SUBSET Message] BY <1>0
<1>8. MailSound' BY <1>3, <1>5, <1>6, <1>7 DEF MailSound
<1>9. Head(inbox[u]) \in Waiting(u) BY <1>2 DEF Waiting
<1> QED BY <1>2, <1>4, <1>8, <1>9

-----------------------------------------------------------------------------
(* Reading, for two sessions in step *)

-----------------------------------------------------------------------------
(* Two sessions in step, and what reading and sending make of them *)

\* The skipped keys are of known shape.
LEMMA KeysTyped ==
  ASSUME NEW s \in Session
  PROVE  /\ s.skipped \in Seq(MessageKey) /\ Len(s.skipped) \in Nat
         /\ s.ns \in Nat /\ s.nr \in Nat /\ s.pn \in Nat
         /\ \A k \in Range(s.skipped) : k \in MessageKey /\ k.n \in Nat
<1>1. s.skipped \in Seq(MessageKey) /\ s.ns \in Nat /\ s.nr \in Nat /\ s.pn \in Nat
  BY DEF Session
<1>2. \A k \in Range(s.skipped) : k \in MessageKey BY <1>1, InRange
<1> QED BY <1>1, <1>2 DEF MessageKey

\* A session that has passed over the messages of its chain before an index.
LEMMA PassedOver ==
  ASSUME NEW s \in Session, NEW until \in Nat, until >= s.nr,
         OneKeyPerId(s), NoneToCome(s), NEW kept \in Seq(MessageKey),
         Range(kept) = Range(s.skipped) \cup NewKeys(s, until),
         NEW t, t = Received(s, until + 1, kept)
  PROVE  /\ t \in Session /\ OneKeyPerId(t) /\ NoneToCome(t)
         /\ t.rk = s.rk /\ t.cks = s.cks /\ t.ckr = s.ckr /\ t.dhs = s.dhs /\ t.dhr = s.dhr
         /\ t.ns = s.ns /\ t.pn = s.pn /\ t.rotate = s.rotate /\ t.nr = until + 1
         /\ t.skipped = kept
         /\ \A k \in Range(t.skipped) : k \in Range(s.skipped) \/ k.dh = s.dhr
         /\ \A m \in Message : Kept(s, m) => Kept(t, m)
         /\ \A m \in Message : Current(s, m) /\ m.n # until => Kept(t, m) \/ Current(t, m)
<1>0. /\ s.nr \in Nat /\ \A k \in Range(s.skipped) : k.n \in Nat
  BY KeysTyped
<1>1. /\ t.rk = s.rk /\ t.cks = s.cks /\ t.ckr = s.ckr /\ t.dhs = s.dhs /\ t.dhr = s.dhr
      /\ t.ns = s.ns /\ t.pn = s.pn /\ t.rotate = s.rotate /\ t.nr = until + 1
      /\ t.skipped = kept /\ t \in Session
  <2> DEFINE j == until + 1
  <2>1. j \in Nat OBVIOUS
  <2>2. t = [s EXCEPT !.nr = j, !.skipped = kept] BY DEF Received
  <2> HIDE DEF j
  <2>3. /\ t.rk = s.rk /\ t.cks = s.cks /\ t.ckr = s.ckr /\ t.dhs = s.dhs /\ t.dhr = s.dhr
        /\ t.ns = s.ns /\ t.pn = s.pn /\ t.rotate = s.rotate /\ t.nr = j
        /\ t.skipped = kept /\ t \in Session
    BY <2>1, <2>2 DEF Session
  <2> QED BY <2>3 DEF j
<1>2. \A k \in NewKeys(s, until) : /\ k.dh = s.dhr /\ k.n \in s.nr..(until - 1)
                                   /\ k.chain = s.ckr /\ k = SkippedKey(s, k.n)
  BY DEF NewKeys, SkippedKey
<1>3. OneKeyPerId(t)
  <2> SUFFICES ASSUME NEW x \in Range(kept), NEW y \in Range(kept), x.dh = y.dh, x.n = y.n
               PROVE  x = y
    BY <1>1 DEF OneKeyPerId
  <2>1. CASE x \in NewKeys(s, until) /\ y \in NewKeys(s, until) BY <1>2, <2>1
  <2>2. CASE x \in Range(s.skipped) /\ y \in Range(s.skipped) BY <2>2 DEF OneKeyPerId
  <2>3. CASE x \in NewKeys(s, until) /\ y \in Range(s.skipped)
    BY <1>0, <1>2, <2>3 DEF NoneToCome
  <2>4. CASE y \in NewKeys(s, until) /\ x \in Range(s.skipped)
    BY <1>0, <1>2, <2>4 DEF NoneToCome
  <2> QED BY <2>1, <2>2, <2>3, <2>4
<1>4. NoneToCome(t)
  <2> SUFFICES ASSUME NEW k \in Range(kept), k.dh = s.dhr PROVE k.n < until + 1
    BY <1>1 DEF NoneToCome
  <2>1. CASE k \in Range(s.skipped) BY <1>0, <2>1 DEF NoneToCome
  <2>2. CASE k \in NewKeys(s, until) BY <1>0, <1>2, <2>2
  <2> QED BY <2>1, <2>2
<1>5. \A k \in Range(t.skipped) : k \in Range(s.skipped) \/ k.dh = s.dhr BY <1>1, <1>2
<1>6. \A m \in Message : Kept(s, m) => Kept(t, m) BY <1>1 DEF Kept
<1>7. ASSUME NEW m \in Message, Current(s, m), m.n # until PROVE Kept(t, m) \/ Current(t, m)
  <2>0. m.n \in Nat /\ m.eph = s.dhr /\ m.chain = s.ckr /\ m.n >= s.nr
    BY <1>7 DEF Current, Message
  <2>1. CASE m.n > until
    <3>1. m.n >= t.nr BY <1>1, <2>0, <2>1
    <3> QED BY <1>1, <2>0, <3>1 DEF Current
  <2>2. CASE m.n < until
    <3> DEFINE k == SkippedKey(s, m.n)
    <3>1. k \in NewKeys(s, until) BY <1>0, <2>0, <2>2 DEF NewKeys
    <3>2. k.dh = m.eph /\ k.n = m.n /\ k.chain = m.chain BY <2>0 DEF SkippedKey
    <3> HIDE DEF k
    <3>3. k \in Range(t.skipped) BY <1>1, <3>1
    <3> QED BY <3>2, <3>3 DEF Kept
  <2> QED BY <1>7, <2>0, <2>1, <2>2
<1> QED BY <1>1, <1>3, <1>4, <1>5, <1>6, <1>7

\* A session that has used a skipped key.
LEMMA UsedKey ==
  ASSUME NEW s \in Session, OneKeyPerId(s), NoneToCome(s), NEW kept \in Seq(MessageKey),
         NEW m \in Message, Range(kept) \subseteq Range(s.skipped),
         \A k \in Range(s.skipped) : k.dh # m.eph \/ k.n # m.n => k \in Range(kept),
         NEW t, t = [s EXCEPT !.skipped = kept]
  PROVE  /\ t \in Session /\ OneKeyPerId(t) /\ NoneToCome(t)
         /\ t.rk = s.rk /\ t.cks = s.cks /\ t.ckr = s.ckr /\ t.dhs = s.dhs /\ t.dhr = s.dhr
         /\ t.ns = s.ns /\ t.pn = s.pn /\ t.rotate = s.rotate /\ t.nr = s.nr
         /\ t.skipped = kept
         /\ \A x \in Message : Kept(s, x) /\ (x.eph # m.eph \/ x.n # m.n) => Kept(t, x)
         /\ \A x \in Message : Current(s, x) => Current(t, x)
<1>1. /\ t.rk = s.rk /\ t.cks = s.cks /\ t.ckr = s.ckr /\ t.dhs = s.dhs /\ t.dhr = s.dhr
      /\ t.ns = s.ns /\ t.pn = s.pn /\ t.rotate = s.rotate /\ t.nr = s.nr
      /\ t.skipped = kept /\ t \in Session
  BY DEF Session
<1>2. OneKeyPerId(t) /\ NoneToCome(t) BY <1>1 DEF OneKeyPerId, NoneToCome
<1>3. \A x \in Message : Kept(s, x) /\ (x.eph # m.eph \/ x.n # m.n) => Kept(t, x)
  BY <1>1 DEF Kept
<1>4. \A x \in Message : Current(s, x) => Current(t, x) BY <1>1 DEF Current
<1> QED BY <1>1, <1>2, <1>3, <1>4

\* No two messages of a set have the same id.
NoTwins(S) == \A x, y \in S : x.eph = y.eph /\ x.n = y.n => x = y

\* A session differs from another in its skipped keys and in what it has received.
SameSending(t, s) ==
  /\ t.rk = s.rk /\ t.cks = s.cks /\ t.ckr = s.ckr /\ t.dhs = s.dhs /\ t.dhr = s.dhr
  /\ t.ns = s.ns /\ t.pn = s.pn /\ t.rotate = s.rotate

\* The leader reads a message, and leads on.
LeadsOn(l, f, toL, toF, textsL, textsF, m, fresh) ==
  LET t == Decrypt(l, m, fresh).session
  IN  /\ Decrypt(l, m, fresh).outcome = "read"
      /\ Together(t, f, toL \ {m}, toF, textsL, textsF)
      /\ t.dhs = l.dhs /\ t.dhr = l.dhr
      /\ \A k \in Range(t.skipped) : k \in Range(l.skipped) \/ k.dh = l.dhr

\* The leader reads every message on its way to it.
LEMMA ReadByLeader ==
  ASSUME NEW l, NEW f, NEW toL \in SUBSET Message, NEW toF \in SUBSET Message,
         NEW textsL \in Nat, NEW textsF \in Nat, Together(l, f, toL, toF, textsL, textsF),
         NoTwins(toL), NEW m \in toL, NEW fresh
  PROVE  LeadsOn(l, f, toL, toF, textsL, textsF, m, fresh)
<1> DEFINE t == Decrypt(l, m, fresh).session
<1>0. /\ l \in Session /\ f \in Session /\ Leads(l, f) /\ OneKeyPerId(l) /\ NoneToCome(l)
      /\ OneKeyPerId(f) /\ NoneToCome(f)
      /\ LeaderFits(l, f, textsF) /\ OtherFits(l, f, textsL) /\ m \in Message /\ m.n \in Nat
      /\ (m.eph = f.dhs => m.n < f.ns) /\ (Kept(l, m) \/ Current(l, m))
      /\ l.rotate => toF = {}
  BY DEF Together, Message
<1>1. /\ Len(l.skipped) \in Nat /\ l.ns \in Nat /\ l.nr \in Nat /\ l.pn \in Nat
      /\ f.ns \in Nat /\ MaxSkip \in Nat
  BY <1>0, KeysTyped, ChatAssumption
<1>2. ASSUME NEW s, s \in Session, OneKeyPerId(s), NoneToCome(s), SameSending(s, l),
             LeaderFits(s, f, textsF),
             \A x \in toL \ {m} : Kept(s, x) \/ Current(s, x)
      PROVE  Together(s, f, toL \ {m}, toF, textsL, textsF)
  <2>1. Leads(s, f) BY <1>0, <1>2 DEF Leads, SameSending
  <2>2. OtherFits(s, f, textsL) BY <1>0, <1>2 DEF OtherFits, SameSending
  <2>3. \A x \in toL \ {m} : (x.eph = f.dhs => x.n < f.ns) /\ (Kept(s, x) \/ Current(s, x))
    BY <1>2 DEF Together
  <2>4. s.rotate => toF = {} BY <1>0, <1>2 DEF SameSending
  <2>5. \A x \in toF : Ahead(l, x) => Ahead(s, x) BY <1>2 DEF Ahead, SameSending
  <2>6. \A x \in toF : /\ x.eph = s.dhs => x.n < s.ns
                       /\ Kept(f, x) \/ Ahead(s, x) \/ (Current(f, x) /\ x.n < s.pn)
    BY <1>2, <2>5 DEF Together, SameSending
  <2> QED BY <1>0, <1>2, <2>1, <2>2, <2>3, <2>4, <2>6 DEF Together
<1>3. CASE Kept(l, m)
  <2>1. /\ Decrypt(l, m, fresh).outcome = "read"
        /\ \E kept \in Seq(MessageKey) :
             /\ t = [l EXCEPT !.skipped = kept]
             /\ Len(kept) = Len(l.skipped) - 1
             /\ Range(kept) \subseteq Range(l.skipped)
             /\ \A k \in Range(l.skipped) : k.dh # m.eph \/ k.n # m.n => k \in Range(kept)
    <3>1. l \in Session /\ m \in Message /\ OneKeyPerId(l) BY <1>0
    <3>2. ReadWithKept(l, m, fresh) BY <1>3, <3>1, KeptIsRead
    <3> QED BY <3>2 DEF ReadWithKept
  <2> HIDE DEF t
  <2>2. PICK kept \in Seq(MessageKey) :
             /\ t = [l EXCEPT !.skipped = kept]
             /\ Len(kept) = Len(l.skipped) - 1
             /\ Range(kept) \subseteq Range(l.skipped)
             /\ \A k \in Range(l.skipped) : k.dh # m.eph \/ k.n # m.n => k \in Range(kept)
    BY <2>1
  <2>3. /\ t \in Session /\ OneKeyPerId(t) /\ NoneToCome(t)
        /\ t.rk = l.rk /\ t.cks = l.cks /\ t.ckr = l.ckr /\ t.dhs = l.dhs /\ t.dhr = l.dhr
        /\ t.ns = l.ns /\ t.pn = l.pn /\ t.rotate = l.rotate /\ t.nr = l.nr
        /\ t.skipped = kept
        /\ \A x \in Message : Kept(l, x) /\ (x.eph # m.eph \/ x.n # m.n) => Kept(t, x)
        /\ \A x \in Message : Current(l, x) => Current(t, x)
    <3>1. l \in Session /\ OneKeyPerId(l) /\ NoneToCome(l) /\ m \in Message BY <1>0
    <3> QED BY <2>2, <3>1, UsedKey
  <2>4. LeaderFits(t, f, textsF) BY <1>0, <1>1, <2>2, <2>3 DEF LeaderFits
  <2>5. \A x \in toL \ {m} : Kept(t, x) \/ Current(t, x)
    <3> SUFFICES ASSUME NEW x \in toL, x # m PROVE Kept(t, x) \/ Current(t, x)
      OBVIOUS
    <3>1. x.eph # m.eph \/ x.n # m.n BY DEF NoTwins
    <3>2. Kept(l, x) \/ Current(l, x) BY DEF Together
    <3> QED BY <2>3, <3>1, <3>2
  <2>6. SameSending(t, l) BY <2>3 DEF SameSending
  <2>7. Together(t, f, toL \ {m}, toF, textsL, textsF) BY <1>2, <2>3, <2>4, <2>5, <2>6
  <2>8. \A k \in Range(t.skipped) : k \in Range(l.skipped) BY <2>2, <2>3
  <2> QED BY <2>1, <2>3, <2>7, <2>8 DEF t, LeadsOn
<1>4. CASE Current(l, m)
  <2>0. m.eph = l.dhr /\ m.n >= l.nr /\ m.n < f.ns
    BY <1>0, <1>4 DEF Current, Leads
  <2>1. Fits(l, m.n)
    <3>1. SkippedTo(l, m.n) = m.n BY <1>0, <1>1, <2>0 DEF SkippedTo
    <3> QED BY <1>0, <1>1, <2>0, <3>1 DEF Fits, LeaderFits
  <2>2. /\ Decrypt(l, m, fresh).outcome = "read"
        /\ \E kept \in Seq(MessageKey) :
             /\ t = Received(l, m.n + 1, kept)
             /\ Len(kept) = Len(l.skipped) + (m.n - l.nr)
             /\ Range(kept) = Range(l.skipped) \cup NewKeys(l, m.n)
    <3>1. l \in Session /\ m \in Message /\ NoneToCome(l) BY <1>0
    <3> QED BY <1>4, <2>1, <3>1, CurrentIsRead
  <2> HIDE DEF t
  <2>3. PICK kept \in Seq(MessageKey) :
             /\ t = Received(l, m.n + 1, kept)
             /\ Len(kept) = Len(l.skipped) + (m.n - l.nr)
             /\ Range(kept) = Range(l.skipped) \cup NewKeys(l, m.n)
    BY <2>2
  <2>4. /\ t \in Session /\ OneKeyPerId(t) /\ NoneToCome(t)
        /\ t.rk = l.rk /\ t.cks = l.cks /\ t.ckr = l.ckr /\ t.dhs = l.dhs /\ t.dhr = l.dhr
        /\ t.ns = l.ns /\ t.pn = l.pn /\ t.rotate = l.rotate /\ t.nr = m.n + 1
        /\ t.skipped = kept
        /\ \A k \in Range(t.skipped) : k \in Range(l.skipped) \/ k.dh = l.dhr
        /\ \A x \in Message : Kept(l, x) => Kept(t, x)
        /\ \A x \in Message : Current(l, x) /\ x.n # m.n => Kept(t, x) \/ Current(t, x)
    <3>1. l \in Session /\ OneKeyPerId(l) /\ NoneToCome(l) /\ m.n \in Nat BY <1>0
    <3>2. m.n >= l.nr BY <2>0
    <3> QED BY <2>3, <3>1, <3>2, PassedOver
  <2>5. LeaderFits(t, f, textsF)
    <3>1. Len(t.skipped) = Len(l.skipped) + (m.n - l.nr) /\ t.nr = m.n + 1 BY <2>3, <2>4
    <3>2. m.n \in Nat /\ m.n < f.ns /\ m.n >= l.nr BY <1>0, <2>0
    <3>3. l.nr <= f.ns /\ Len(l.skipped) + (f.ns - l.nr) + textsF <= MaxSkip
      BY <1>0 DEF LeaderFits
    <3> DEFINE len == Len(l.skipped)
               nr == l.nr
               n == m.n
               ns == f.ns
    <3>4. /\ len \in Nat /\ nr \in Nat /\ n \in Nat /\ ns \in Nat /\ MaxSkip \in Nat
          /\ nr <= n /\ n < ns /\ len + (ns - nr) + textsF <= MaxSkip
      BY <1>1, <3>2, <3>3
    <3> HIDE DEF len, nr, n, ns
    <3>5. n + 1 <= ns /\ (len + (n - nr)) + (ns - (n + 1)) + textsF <= MaxSkip BY <3>4
    <3> QED BY <3>1, <3>5 DEF LeaderFits, len, nr, n, ns
  <2>6. \A x \in toL \ {m} : Kept(t, x) \/ Current(t, x)
    <3> SUFFICES ASSUME NEW x \in toL, x # m PROVE Kept(t, x) \/ Current(t, x)
      OBVIOUS
    <3>1. x.eph # m.eph \/ x.n # m.n BY DEF NoTwins
    <3>2. Kept(l, x) \/ Current(l, x) BY DEF Together
    <3>3. Current(l, x) => x.eph = m.eph BY <2>0 DEF Current
    <3> QED BY <2>4, <3>1, <3>2, <3>3
  <2>7. SameSending(t, l) BY <2>4 DEF SameSending
  <2>8. Together(t, f, toL \ {m}, toF, textsL, textsF) BY <1>2, <2>4, <2>5, <2>6, <2>7
  <2> QED BY <2>2, <2>4, <2>8 DEF t, LeadsOn
<1> QED BY <1>0, <1>3, <1>4

\* The other reads a message, and the leader leads on.
FollowsOn(l, f, toL, toF, textsL, textsF, m, fresh) ==
  LET t == Decrypt(f, m, fresh).session
  IN  /\ Decrypt(f, m, fresh).outcome = "read"
      /\ Together(l, t, toL, toF \ {m}, textsL, textsF)
      /\ t.dhs = f.dhs /\ t.dhr = f.dhr
      /\ \A k \in Range(t.skipped) : k \in Range(f.skipped) \/ k.dh = f.dhr

\* A message on its way to the other that is not of the leader's chain is read, and the
\* leader goes on leading.
LEMMA ReadBehind ==
  ASSUME NEW l, NEW f, NEW toL \in SUBSET Message, NEW toF \in SUBSET Message,
         NEW textsL \in Nat, NEW textsF \in Nat, Together(l, f, toL, toF, textsL, textsF),
         NoTwins(toF), NEW m \in toF, NEW fresh, ~Ahead(l, m)
  PROVE  FollowsOn(l, f, toL, toF, textsL, textsF, m, fresh)
<1> DEFINE t == Decrypt(f, m, fresh).session
<1>0. /\ l \in Session /\ f \in Session /\ Leads(l, f) /\ OneKeyPerId(l) /\ NoneToCome(l)
      /\ OneKeyPerId(f) /\ NoneToCome(f)
      /\ LeaderFits(l, f, textsF) /\ OtherFits(l, f, textsL) /\ m \in Message /\ m.n \in Nat
      /\ (m.eph = l.dhs => m.n < l.ns)
      /\ (Kept(f, m) \/ (Current(f, m) /\ m.n < l.pn)) /\ ~l.rotate
  BY DEF Together, Message
<1>1. /\ Len(f.skipped) \in Nat /\ l.ns \in Nat /\ f.nr \in Nat /\ l.pn \in Nat
      /\ f.ns \in Nat /\ MaxSkip \in Nat
  BY <1>0, KeysTyped, ChatAssumption
<1>2. l.dhs # f.dhr /\ \A k \in Range(f.skipped) : k.dh # l.dhs BY <1>0 DEF Leads
<1>3. ASSUME NEW s, s \in Session, OneKeyPerId(s), NoneToCome(s), SameSending(s, f),
             OtherFits(l, s, textsL),
             \A k \in Range(s.skipped) : k \in Range(f.skipped) \/ k.dh = f.dhr,
             \A x \in toF \ {m} :
               Kept(s, x) \/ Ahead(l, x) \/ (Current(s, x) /\ x.n < l.pn)
      PROVE  Together(l, s, toL, toF \ {m}, textsL, textsF)
  <2>1. Leads(l, s)
    <3>1. \A k \in Range(s.skipped) : k.dh # l.dhs BY <1>2, <1>3
    <3> QED BY <1>0, <1>2, <1>3, <3>1 DEF Leads, SameSending
  <2>2. LeaderFits(l, s, textsF) BY <1>0, <1>3 DEF LeaderFits, SameSending
  <2>3. \A x \in toL : (x.eph = s.dhs => x.n < s.ns) /\ (Kept(l, x) \/ Current(l, x))
    BY <1>3 DEF Together, SameSending
  <2>4. \A x \in toF \ {m} :
          /\ x.eph = l.dhs => x.n < l.ns
          /\ Kept(s, x) \/ Ahead(l, x) \/ (Current(s, x) /\ x.n < l.pn)
    BY <1>3 DEF Together
  <2>5. ~l.rotate BY <1>0
  <2> QED BY <1>0, <1>3, <2>1, <2>2, <2>3, <2>4, <2>5 DEF Together
<1>4. CASE Kept(f, m)
  <2>1. /\ Decrypt(f, m, fresh).outcome = "read"
        /\ \E kept \in Seq(MessageKey) :
             /\ t = [f EXCEPT !.skipped = kept]
             /\ Len(kept) = Len(f.skipped) - 1
             /\ Range(kept) \subseteq Range(f.skipped)
             /\ \A k \in Range(f.skipped) : k.dh # m.eph \/ k.n # m.n => k \in Range(kept)
    <3>1. f \in Session /\ m \in Message /\ OneKeyPerId(f) BY <1>0
    <3>2. ReadWithKept(f, m, fresh) BY <1>4, <3>1, KeptIsRead
    <3> QED BY <3>2 DEF ReadWithKept
  <2> HIDE DEF t
  <2>2. PICK kept \in Seq(MessageKey) :
             /\ t = [f EXCEPT !.skipped = kept]
             /\ Len(kept) = Len(f.skipped) - 1
             /\ Range(kept) \subseteq Range(f.skipped)
             /\ \A k \in Range(f.skipped) : k.dh # m.eph \/ k.n # m.n => k \in Range(kept)
    BY <2>1
  <2>3. /\ t \in Session /\ OneKeyPerId(t) /\ NoneToCome(t)
        /\ t.rk = f.rk /\ t.cks = f.cks /\ t.ckr = f.ckr /\ t.dhs = f.dhs /\ t.dhr = f.dhr
        /\ t.ns = f.ns /\ t.pn = f.pn /\ t.rotate = f.rotate /\ t.nr = f.nr
        /\ t.skipped = kept
        /\ \A x \in Message : Kept(f, x) /\ (x.eph # m.eph \/ x.n # m.n) => Kept(t, x)
        /\ \A x \in Message : Current(f, x) => Current(t, x)
    <3>1. f \in Session /\ OneKeyPerId(f) /\ NoneToCome(f) /\ m \in Message BY <1>0
    <3> QED BY <2>2, <3>1, UsedKey
  <2>4. OtherFits(l, t, textsL)
    <3>1. /\ f.nr <= l.pn /\ t.nr = f.nr /\ Len(t.skipped) = Len(f.skipped) - 1
          /\ Len(f.skipped) + (l.pn - f.nr) + l.ns + textsL <= MaxSkip
      BY <1>0, <2>2, <2>3 DEF OtherFits
    <3> DEFINE len == Len(f.skipped)
               left == l.pn - f.nr
               ns == l.ns
    <3>2. len \in Nat /\ left \in Int /\ ns \in Nat BY <1>1
    <3>3. len + left + ns + textsL <= MaxSkip BY <3>1
    <3>4. Len(t.skipped) = len - 1 /\ l.pn - t.nr = left BY <3>1
    <3> HIDE DEF len, left, ns
    <3>5. (len - 1) + left + ns + textsL <= MaxSkip BY <1>1, <3>2, <3>3
    <3> QED BY <3>1, <3>4, <3>5 DEF OtherFits, ns
  <2>5. \A x \in toF \ {m} : Kept(t, x) \/ Ahead(l, x) \/ (Current(t, x) /\ x.n < l.pn)
    <3> SUFFICES ASSUME NEW x \in toF, x # m
                 PROVE  Kept(t, x) \/ Ahead(l, x) \/ (Current(t, x) /\ x.n < l.pn)
      OBVIOUS
    <3>1. x.eph # m.eph \/ x.n # m.n BY DEF NoTwins
    <3>2. Kept(f, x) \/ Ahead(l, x) \/ (Current(f, x) /\ x.n < l.pn) BY DEF Together
    <3> QED BY <2>3, <3>1, <3>2
  <2>6. SameSending(t, f) BY <2>3 DEF SameSending
  <2>7. \A k \in Range(t.skipped) : k \in Range(f.skipped) BY <2>2, <2>3
  <2>8. Together(l, t, toL, toF \ {m}, textsL, textsF)
    BY <1>3, <2>3, <2>4, <2>5, <2>6, <2>7
  <2> QED BY <2>1, <2>3, <2>7, <2>8 DEF t, FollowsOn
<1>5. CASE Current(f, m) /\ m.n < l.pn
  <2>0. m.eph = f.dhr /\ m.n >= f.nr /\ m.n < l.pn BY <1>5 DEF Current
  <2>1. Fits(f, m.n)
    <3>1. SkippedTo(f, m.n) = m.n BY <1>0, <1>1, <2>0 DEF SkippedTo
    <3>2. f.nr <= l.pn /\ Len(f.skipped) + (l.pn - f.nr) + l.ns + textsL <= MaxSkip
      BY <1>0 DEF OtherFits
    <3> DEFINE len == Len(f.skipped)
               nr == f.nr
               n == m.n
               pn == l.pn
               ns == l.ns
    <3>3. /\ len \in Nat /\ nr \in Nat /\ n \in Nat /\ ns \in Nat /\ MaxSkip \in Nat
          /\ pn \in Nat /\ nr <= n /\ n < pn /\ len + (pn - nr) + ns + textsL <= MaxSkip
      BY <1>0, <1>1, <2>0, <3>2
    <3> HIDE DEF len, nr, n, ns, pn
    <3>4. len + (n - nr) <= MaxSkip BY <3>3
    <3> QED BY <3>1, <3>4 DEF Fits, len, n, nr
  <2>2. /\ Decrypt(f, m, fresh).outcome = "read"
        /\ \E kept \in Seq(MessageKey) :
             /\ t = Received(f, m.n + 1, kept)
             /\ Len(kept) = Len(f.skipped) + (m.n - f.nr)
             /\ Range(kept) = Range(f.skipped) \cup NewKeys(f, m.n)
    <3>1. f \in Session /\ m \in Message /\ NoneToCome(f) BY <1>0
    <3> QED BY <1>5, <2>1, <3>1, CurrentIsRead
  <2> HIDE DEF t
  <2>3. PICK kept \in Seq(MessageKey) :
             /\ t = Received(f, m.n + 1, kept)
             /\ Len(kept) = Len(f.skipped) + (m.n - f.nr)
             /\ Range(kept) = Range(f.skipped) \cup NewKeys(f, m.n)
    BY <2>2
  <2>4. /\ t \in Session /\ OneKeyPerId(t) /\ NoneToCome(t)
        /\ t.rk = f.rk /\ t.cks = f.cks /\ t.ckr = f.ckr /\ t.dhs = f.dhs /\ t.dhr = f.dhr
        /\ t.ns = f.ns /\ t.pn = f.pn /\ t.rotate = f.rotate /\ t.nr = m.n + 1
        /\ t.skipped = kept
        /\ \A k \in Range(t.skipped) : k \in Range(f.skipped) \/ k.dh = f.dhr
        /\ \A x \in Message : Kept(f, x) => Kept(t, x)
        /\ \A x \in Message : Current(f, x) /\ x.n # m.n => Kept(t, x) \/ Current(t, x)
    <3>1. f \in Session /\ OneKeyPerId(f) /\ NoneToCome(f) /\ m.n \in Nat BY <1>0
    <3>2. m.n >= f.nr BY <2>0
    <3> QED BY <2>3, <3>1, <3>2, PassedOver
  <2>5. OtherFits(l, t, textsL)
    <3>1. Len(t.skipped) = Len(f.skipped) + (m.n - f.nr) /\ t.nr = m.n + 1 BY <2>3, <2>4
    <3>2. f.nr <= l.pn /\ Len(f.skipped) + (l.pn - f.nr) + l.ns + textsL <= MaxSkip
      BY <1>0 DEF OtherFits
    <3> DEFINE len == Len(f.skipped)
               nr == f.nr
               n == m.n
               pn == l.pn
               ns == l.ns
    <3>3. /\ len \in Nat /\ nr \in Nat /\ n \in Nat /\ ns \in Nat /\ MaxSkip \in Nat
          /\ pn \in Nat /\ nr <= n /\ n < pn /\ len + (pn - nr) + ns + textsL <= MaxSkip
      BY <1>0, <1>1, <2>0, <3>2
    <3> HIDE DEF len, nr, n, ns, pn
    <3>4. n + 1 <= pn /\ (len + (n - nr)) + (pn - (n + 1)) + ns + textsL <= MaxSkip BY <3>3
    <3> QED BY <3>1, <3>4 DEF OtherFits, len, n, nr, pn, ns
  <2>6. \A x \in toF \ {m} : Kept(t, x) \/ Ahead(l, x) \/ (Current(t, x) /\ x.n < l.pn)
    <3> SUFFICES ASSUME NEW x \in toF, x # m
                 PROVE  Kept(t, x) \/ Ahead(l, x) \/ (Current(t, x) /\ x.n < l.pn)
      OBVIOUS
    <3>1. x.eph # m.eph \/ x.n # m.n BY DEF NoTwins
    <3>2. Kept(f, x) \/ Ahead(l, x) \/ (Current(f, x) /\ x.n < l.pn) BY DEF Together
    <3>3. Current(f, x) => x.eph = m.eph BY <2>0 DEF Current
    <3> QED BY <2>4, <3>1, <3>2, <3>3
  <2>7. SameSending(t, f) BY <2>4 DEF SameSending
  <2>8. Together(l, t, toL, toF \ {m}, textsL, textsF)
    BY <1>3, <2>4, <2>5, <2>6, <2>7
  <2> QED BY <2>2, <2>4, <2>8 DEF t, FollowsOn
<1> QED BY <1>0, <1>4, <1>5

\* Both sides of an exchange have the same secret.
LEMMA DhIsShared == \A x, y : Dh(x, y) = Dh(y, x)
BY DEF Dh

\* The other reads a message, and takes the lead.
ChangesPlaces(l, f, toL, toF, textsL, textsF, m, fresh) ==
  LET t == Decrypt(f, m, fresh).session
  IN  /\ Decrypt(f, m, fresh).outcome = "read"
      /\ Together(t, l, toF \ {m}, toL, textsF, textsL)
      /\ t.dhs = fresh /\ t.dhr = l.dhs
      /\ \A k \in Range(t.skipped) :
           k \in Range(f.skipped) \/ k.dh = f.dhr \/ k.dh = l.dhs

\* The keys of a chain read up to a message, and what is left of the chain, take
\* no more room than the whole chain did.
LEMMA ReadUpTo ==
  ASSUME NEW len \in Nat, NEW pn \in Nat, NEW nr \in Nat, NEW n \in Nat, NEW ns \in Nat,
         NEW texts \in Nat, NEW max \in Nat, n < ns, len + (pn - nr) + ns + texts <= max
  PROVE  n + 1 <= ns /\ (len + (pn - nr) + n) + (ns - (n + 1)) + texts <= max
OBVIOUS

\* A message of the leader's chain is read with a turn of the ratchet, and the two
\* change places.
LEMMA ReadAhead ==
  ASSUME NEW l, NEW f, NEW toL \in SUBSET Message, NEW toF \in SUBSET Message,
         NEW textsL \in Nat, NEW textsF \in Nat, Together(l, f, toL, toF, textsL, textsF),
         NoTwins(toF), NEW m \in toF, NEW fresh \in PublicKey, Ahead(l, m),
         fresh # l.dhr, fresh # l.dhs, \A k \in Range(l.skipped) : k.dh # fresh,
         \A x \in toL : x.eph # fresh
  PROVE  ChangesPlaces(l, f, toL, toF, textsL, textsF, m, fresh)
<1> DEFINE t == Decrypt(f, m, fresh).session
<1>0. /\ l \in Session /\ f \in Session /\ Leads(l, f) /\ OneKeyPerId(l) /\ NoneToCome(l)
      /\ OneKeyPerId(f) /\ NoneToCome(f)
      /\ LeaderFits(l, f, textsF) /\ OtherFits(l, f, textsL) /\ m \in Message /\ m.n \in Nat
      /\ m.eph = l.dhs /\ m.n < l.ns /\ m.chain = l.cks /\ m.pn = l.pn /\ ~l.rotate
  BY DEF Together, Message, Ahead
<1>1. /\ Len(f.skipped) \in Nat /\ l.ns \in Nat /\ f.nr \in Nat /\ l.pn \in Nat
      /\ f.ns \in Nat /\ l.nr \in Nat /\ Len(l.skipped) \in Nat /\ MaxSkip \in Nat
      /\ \A k \in Range(f.skipped) : k.n \in Nat
  BY <1>0, KeysTyped, ChatAssumption
<1>2. /\ l.dhs # f.dhr /\ \A k \in Range(f.skipped) : k.dh # l.dhs
      /\ l.dhr = f.dhs /\ l.ckr = f.cks /\ l.rk = Append(f.rk, Dh(l.dhs, f.dhs))
      /\ l.cks = Chain(l.rk, "next")
  BY <1>0 DEF Leads
<1>3. l.rk = Derive(f, f.dhs, m.eph) BY <1>0, <1>2, DhIsShared DEF Derive
<1>4. SkippedTo(f, m.pn) = l.pn BY <1>0, <1>1 DEF SkippedTo, OtherFits
<1>5. Len(f.skipped) + (l.pn - f.nr) + l.ns + textsL <= MaxSkip BY <1>0 DEF OtherFits
<1>6. Len(f.skipped) + (l.pn - f.nr) + m.n <= MaxSkip
  <2> DEFINE len == Len(f.skipped)
             nr == f.nr
             n == m.n
             pn == l.pn
             ns == l.ns
  <2>1. /\ len \in Nat /\ nr \in Nat /\ n \in Nat /\ ns \in Nat /\ MaxSkip \in Nat
        /\ pn \in Nat /\ n < ns /\ len + (pn - nr) + ns + textsL <= MaxSkip
    BY <1>0, <1>1, <1>5
  <2> HIDE DEF len, nr, n, ns, pn
  <2>2. len + (pn - nr) + n <= MaxSkip BY <2>1
  <2> QED BY <2>2 DEF len, nr, n, pn
<1>7. /\ Decrypt(f, m, fresh).outcome = "read"
      /\ \E kept \in Seq(MessageKey) :
           /\ t = Turned(f, m, fresh, kept)
           /\ Len(kept) = Len(f.skipped) + (l.pn - f.nr) + m.n
           /\ Range(kept) = Range(f.skipped) \cup NewKeys(f, l.pn)
                            \cup ChainKeys(l.dhs, l.cks, m.n)
  <2>1. m.eph # f.dhr /\ \A k \in Range(f.skipped) : k.dh # m.eph BY <1>0, <1>2
  <2>2. m.chain = Chain(Derive(f, f.dhs, m.eph), "next") BY <1>0, <1>2, <1>3
  <2>3. Len(f.skipped) + (SkippedTo(f, m.pn) - f.nr) + m.n <= MaxSkip BY <1>4, <1>6
  <2>4. f \in Session /\ m \in Message /\ NoneToCome(f) BY <1>0
  <2>5. /\ Decrypt(f, m, fresh).outcome = "read"
        /\ \E kept \in Seq(MessageKey) :
             /\ t = Turned(f, m, fresh, kept)
             /\ Len(kept) = Len(f.skipped) + (SkippedTo(f, m.pn) - f.nr) + m.n
             /\ Range(kept) = Range(f.skipped) \cup NewKeys(f, m.pn)
                              \cup ChainKeys(m.eph, m.chain, m.n)
    BY <2>1, <2>2, <2>3, <2>4, AheadIsRead
  <2> HIDE DEF t
  <2>6. m.eph = l.dhs /\ m.chain = l.cks /\ m.pn = l.pn BY <1>0
  <2> QED BY <1>4, <2>5, <2>6
<1> HIDE DEF t
<1>8. PICK kept \in Seq(MessageKey) :
           /\ t = Turned(f, m, fresh, kept)
           /\ Len(kept) = Len(f.skipped) + (l.pn - f.nr) + m.n
           /\ Range(kept) = Range(f.skipped) \cup NewKeys(f, l.pn)
                            \cup ChainKeys(l.dhs, l.cks, m.n)
  BY <1>7
<1> DEFINE next == m.n + 1
<1>9. /\ t.rk = Append(l.rk, Dh(fresh, l.dhs)) /\ t.cks = Chain(t.rk, "next")
      /\ t.ckr = l.cks /\ t.dhs = fresh /\ t.dhr = l.dhs /\ t.ns = 0 /\ t.nr = next
      /\ t.pn = f.ns /\ t.rotate = FALSE /\ t.skipped = kept
  BY <1>0, <1>3, <1>8 DEF Turned
<1>10. t \in Session
  <2>1. /\ l.rk \in Seq(Secret) /\ l.dhs \in PublicKey /\ l.cks \in ChainKey
    BY <1>0 DEF Session
  <2> DEFINE root == Append(l.rk, Dh(fresh, l.dhs))
  <2>2. root \in Seq(Secret) BY <2>1, DerivedRoot
  <2>3. Chain(root, "next") \in ChainKey BY <2>2 DEF Chain, ChainKey
  <2>4. next \in Nat BY <1>0
  <2> HIDE DEF root, next
  <2>5. t = [rk |-> root, cks |-> Chain(root, "next"), ckr |-> l.cks, dhs |-> fresh,
             dhr |-> l.dhs, ns |-> 0, nr |-> next, pn |-> f.ns, rotate |-> FALSE,
             skipped |-> kept]
    BY <1>0, <1>3, <1>8 DEF Turned, root, next
  <2> QED BY <1>1, <2>1, <2>2, <2>3, <2>4, <2>5 DEF Session
<1>11. \A k \in NewKeys(f, l.pn) : /\ k.dh = f.dhr /\ k.n \in f.nr..(l.pn - 1)
                                   /\ k.chain = f.ckr /\ k = SkippedKey(f, k.n)
  BY DEF NewKeys, SkippedKey
<1>12. \A k \in ChainKeys(l.dhs, l.cks, m.n) :
         /\ k.dh = l.dhs /\ k.n \in 0..(m.n - 1) /\ k.chain = l.cks
         /\ k = [dh |-> l.dhs, n |-> k.n, chain |-> l.cks]
  BY DEF ChainKeys
<1>13. OneKeyPerId(t)
  <2> SUFFICES ASSUME NEW x \in Range(kept), NEW y \in Range(kept), x.dh = y.dh, x.n = y.n
               PROVE  x = y
    BY <1>9 DEF OneKeyPerId
  <2>1. CASE x.dh = l.dhs
    <3>1. x \in ChainKeys(l.dhs, l.cks, m.n) /\ y \in ChainKeys(l.dhs, l.cks, m.n)
      BY <1>2, <1>8, <1>11, <2>1
    <3> QED BY <1>12, <3>1
  <2>2. CASE x.dh # l.dhs
    <3>1. /\ x \in Range(f.skipped) \cup NewKeys(f, l.pn)
          /\ y \in Range(f.skipped) \cup NewKeys(f, l.pn)
      BY <1>8, <1>12, <2>2
    <3>2. CASE x \in NewKeys(f, l.pn) /\ y \in NewKeys(f, l.pn) BY <1>11, <3>2
    <3>3. CASE x \in Range(f.skipped) /\ y \in Range(f.skipped)
      BY <1>0, <3>3 DEF OneKeyPerId
    <3>4. CASE x \in NewKeys(f, l.pn) /\ y \in Range(f.skipped)
      BY <1>0, <1>1, <1>11, <3>4 DEF NoneToCome
    <3>5. CASE y \in NewKeys(f, l.pn) /\ x \in Range(f.skipped)
      BY <1>0, <1>1, <1>11, <3>5 DEF NoneToCome
    <3> QED BY <3>1, <3>2, <3>3, <3>4, <3>5
  <2> QED BY <2>1, <2>2
<1>14. NoneToCome(t)
  <2> SUFFICES ASSUME NEW k \in Range(kept), k.dh = l.dhs PROVE k.n < m.n + 1
    BY <1>9 DEF NoneToCome
  <2>1. k \in ChainKeys(l.dhs, l.cks, m.n) BY <1>2, <1>8, <1>11
  <2> QED BY <1>0, <1>12, <2>1
<1>15. Leads(t, l) BY <1>0, <1>2, <1>9 DEF Leads
<1>16. LeaderFits(t, l, textsL)
  <2> DEFINE len == Len(f.skipped)
             nr == f.nr
             n == m.n
             pn == l.pn
             ns == l.ns
  <2>1. /\ len \in Nat /\ nr \in Nat /\ n \in Nat /\ ns \in Nat /\ MaxSkip \in Nat
        /\ pn \in Nat /\ n < ns /\ len + (pn - nr) + ns + textsL <= MaxSkip
    BY <1>0, <1>1, <1>5
  <2>2. t.nr = n + 1 /\ Len(t.skipped) = len + (pn - nr) + n BY <1>8, <1>9
  <2> HIDE DEF len, nr, n, ns, pn
  <2>3. n + 1 <= ns /\ (len + (pn - nr) + n) + (ns - (n + 1)) + textsL <= MaxSkip
    BY <2>1, ReadUpTo
  <2> QED BY <2>2, <2>3 DEF LeaderFits, ns
<1>17. OtherFits(t, l, textsF)
  <2>1. l.nr <= f.ns /\ Len(l.skipped) + (f.ns - l.nr) + textsF <= MaxSkip
    BY <1>0 DEF LeaderFits
  <2> DEFINE len == Len(l.skipped)
             nr == l.nr
             ns == f.ns
  <2>2. len \in Nat /\ nr \in Nat /\ ns \in Nat /\ MaxSkip \in Nat /\ nr <= ns
        /\ len + (ns - nr) + textsF <= MaxSkip
    BY <1>1, <2>1
  <2> HIDE DEF len, nr, ns
  <2>3. len + (ns - nr) + 0 + textsF <= MaxSkip BY <2>2
  <2> QED BY <1>9, <2>2, <2>3 DEF OtherFits, len, nr, ns
<1>18. \A x \in toF \ {m} : /\ x.eph = l.dhs => x.n < l.ns
                            /\ Kept(t, x) \/ Current(t, x)
  <2> SUFFICES ASSUME NEW x \in toF, x # m
               PROVE  (x.eph = l.dhs => x.n < l.ns) /\ (Kept(t, x) \/ Current(t, x))
    OBVIOUS
  <2>1. x.eph # m.eph \/ x.n # m.n BY DEF NoTwins
  <2>2. /\ x.eph = l.dhs => x.n < l.ns
        /\ Kept(f, x) \/ Ahead(l, x) \/ (Current(f, x) /\ x.n < l.pn)
    BY DEF Together
  <2>3. x.n \in Nat BY DEF Message
  <2>4. CASE Kept(f, x) BY <1>8, <1>9, <2>2, <2>4 DEF Kept
  <2>5. CASE Ahead(l, x)
    <3>1. x.eph = l.dhs /\ x.chain = l.cks /\ x.n # m.n
      BY <1>0, <2>1, <2>5 DEF Ahead
    <3>2. CASE x.n > m.n
      <4>1. x.n >= t.nr BY <1>0, <1>9, <2>3, <3>2
      <4> QED BY <1>9, <2>2, <3>1, <4>1 DEF Current
    <3>3. CASE x.n < m.n
      <4> DEFINE k == [dh |-> l.dhs, n |-> x.n, chain |-> l.cks]
      <4>1. x.n \in 0..(m.n - 1) BY <1>0, <2>3, <3>3
      <4>2. k \in ChainKeys(l.dhs, l.cks, m.n) BY <4>1 DEF ChainKeys
      <4>3. k.dh = x.eph /\ k.n = x.n /\ k.chain = x.chain BY <3>1
      <4> HIDE DEF k
      <4>4. k \in Range(t.skipped) BY <1>8, <1>9, <4>2
      <4> QED BY <2>2, <4>3, <4>4 DEF Kept
    <3> QED BY <1>0, <2>3, <3>1, <3>2, <3>3
  <2>6. CASE Current(f, x) /\ x.n < l.pn
    <3> DEFINE k == SkippedKey(f, x.n)
    <3>1. x.eph = f.dhr /\ x.chain = f.ckr /\ x.n >= f.nr BY <2>6 DEF Current
    <3>2. x.n \in f.nr..(l.pn - 1) BY <1>1, <2>3, <2>6, <3>1
    <3>3. k \in NewKeys(f, l.pn) BY <3>2 DEF NewKeys
    <3>4. k.dh = x.eph /\ k.n = x.n /\ k.chain = x.chain BY <3>1 DEF SkippedKey
    <3> HIDE DEF k
    <3>5. k \in Range(t.skipped) BY <1>8, <1>9, <3>3
    <3> QED BY <2>2, <3>4, <3>5 DEF Kept
  <2> QED BY <2>2, <2>4, <2>5, <2>6
<1>19. \A x \in toL : /\ x.eph = t.dhs => x.n < t.ns
                      /\ Kept(l, x) \/ Ahead(t, x) \/ (Current(l, x) /\ x.n < t.pn)
  <2> SUFFICES ASSUME NEW x \in toL
               PROVE  /\ x.eph # fresh
                      /\ Kept(l, x) \/ (Current(l, x) /\ x.n < f.ns)
    BY <1>9
  <2>1. (x.eph = f.dhs => x.n < f.ns) /\ (Kept(l, x) \/ Current(l, x)) BY DEF Together
  <2>2. Current(l, x) => x.eph = f.dhs BY <1>2 DEF Current
  <2> QED BY <2>1, <2>2
<1>20. Together(t, l, toF \ {m}, toL, textsF, textsL)
  BY <1>0, <1>9, <1>10, <1>13, <1>14, <1>15, <1>16, <1>17, <1>18, <1>19 DEF Together
<1>21. \A k \in Range(t.skipped) : k \in Range(f.skipped) \/ k.dh = f.dhr \/ k.dh = l.dhs
  BY <1>8, <1>9, <1>11, <1>12
<1> QED BY <1>7, <1>9, <1>20, <1>21 DEF t, ChangesPlaces

-----------------------------------------------------------------------------
(* Sending, for two sessions in step *)

\* A session that has sent a message.
Sent(s) == [s EXCEPT !.ns = @ + 1]

\* A message takes the next index of the chain that is sent.
LEMMA SentIs ==
  ASSUME NEW s \in Session, NEW t, t = Sent(s)
  PROVE  /\ t \in Session /\ t.ns = s.ns + 1
         /\ t.rk = s.rk /\ t.cks = s.cks /\ t.ckr = s.ckr /\ t.dhs = s.dhs /\ t.dhr = s.dhr
         /\ t.nr = s.nr /\ t.pn = s.pn /\ t.rotate = s.rotate /\ t.skipped = s.skipped
<1> DEFINE next == s.ns + 1
<1>1. t = [s EXCEPT !.ns = next] BY DEF Sent
<1>2. next \in Nat BY KeysTyped
<1> HIDE DEF next
<1> QED BY <1>1, <1>2 DEF Session, next

\* The leader sends in its chain.
LEMMA SentAhead ==
  ASSUME NEW l, NEW f, NEW toL \in SUBSET Message, NEW toF \in SUBSET Message,
         NEW textsL \in Nat, NEW textsF \in Nat, Together(l, f, toL, toF, textsL, textsF),
         textsL > 0, ~l.rotate, NEW u \in User, NEW opk \in BOOLEAN,
         NEW t, t = Sent(l)
  PROVE  /\ MessageOf(l, u, opk) \in Message
         /\ Together(t, f, toL, toF \cup {MessageOf(l, u, opk)}, textsL - 1, textsF)
<1> DEFINE m == MessageOf(l, u, opk)
<1>0. /\ l \in Session /\ f \in Session /\ Leads(l, f) /\ OneKeyPerId(l) /\ NoneToCome(l)
      /\ OneKeyPerId(f) /\ NoneToCome(f)
      /\ LeaderFits(l, f, textsF) /\ OtherFits(l, f, textsL)
      /\ \A x \in toL : (x.eph = f.dhs => x.n < f.ns) /\ (Kept(l, x) \/ Current(l, x))
      /\ \A x \in toF : /\ x.eph = l.dhs => x.n < l.ns
                        /\ Kept(f, x) \/ Ahead(l, x) \/ (Current(f, x) /\ x.n < l.pn)
  BY DEF Together
<1>1. /\ Len(f.skipped) \in Nat /\ l.ns \in Nat /\ f.nr \in Nat /\ l.pn \in Nat
      /\ MaxSkip \in Nat
  BY <1>0, KeysTyped, ChatAssumption
<1>2. /\ t \in Session /\ t.ns = l.ns + 1
      /\ t.rk = l.rk /\ t.cks = l.cks /\ t.ckr = l.ckr /\ t.dhs = l.dhs /\ t.dhr = l.dhr
      /\ t.nr = l.nr /\ t.pn = l.pn /\ t.rotate = l.rotate /\ t.skipped = l.skipped
  BY <1>0, SentIs
<1>3. m \in Message /\ m.eph = l.dhs /\ m.n = l.ns /\ m.pn = l.pn /\ m.chain = l.cks
  <2>1. l.dhs \in PublicKey /\ l.cks \in ChainKey BY <1>0 DEF Session
  <2> QED BY <1>1, <2>1 DEF MessageOf, Message
<1> HIDE DEF m
<1>4. Leads(t, f) BY <1>0, <1>2 DEF Leads
<1>5. OneKeyPerId(t) /\ NoneToCome(t) BY <1>0, <1>2 DEF OneKeyPerId, NoneToCome
<1>6. LeaderFits(t, f, textsF) BY <1>0, <1>2 DEF LeaderFits
<1>7. OtherFits(t, f, textsL - 1)
  <2>1. f.nr <= l.pn /\ Len(f.skipped) + (l.pn - f.nr) + l.ns + textsL <= MaxSkip
    BY <1>0 DEF OtherFits
  <2> DEFINE len == Len(f.skipped)
             nr == f.nr
             pn == l.pn
             ns == l.ns
  <2>2. /\ len \in Nat /\ nr \in Nat /\ ns \in Nat /\ MaxSkip \in Nat /\ pn \in Nat
        /\ len + (pn - nr) + ns + textsL <= MaxSkip
    BY <1>1, <2>1
  <2> HIDE DEF len, nr, ns, pn
  <2>3. len + (pn - nr) + (ns + 1) + (textsL - 1) <= MaxSkip BY <2>2
  <2> QED BY <1>2, <2>1, <2>3 DEF OtherFits, len, nr, pn, ns
<1>8. \A x \in toL : (x.eph = f.dhs => x.n < f.ns) /\ (Kept(t, x) \/ Current(t, x))
  BY <1>0, <1>2 DEF Kept, Current
<1>9. \A x \in toF \cup {m} :
         /\ x.eph = t.dhs => x.n < t.ns
         /\ Kept(f, x) \/ Ahead(t, x) \/ (Current(f, x) /\ x.n < t.pn)
  <2>1. ASSUME NEW x \in toF
        PROVE  /\ x.eph = t.dhs => x.n < t.ns
               /\ Kept(f, x) \/ Ahead(t, x) \/ (Current(f, x) /\ x.n < t.pn)
    <3>1. Ahead(l, x) => Ahead(t, x) BY <1>2 DEF Ahead
    <3>2. x.n \in Nat BY DEF Message
    <3> QED BY <1>0, <1>1, <1>2, <3>1, <3>2
  <2>2. m.n < t.ns /\ Ahead(t, m) BY <1>1, <1>2, <1>3 DEF Ahead
  <2> QED BY <2>1, <2>2
<1>10. Together(t, f, toL, toF \cup {m}, textsL - 1, textsF)
  BY <1>0, <1>2, <1>4, <1>5, <1>6, <1>7, <1>8, <1>9 DEF Together
<1> QED BY <1>3, <1>10 DEF m

\* The other sends in its chain, which the leader receives.
LEMMA SentBehind ==
  ASSUME NEW l, NEW f, NEW toL \in SUBSET Message, NEW toF \in SUBSET Message,
         NEW textsL \in Nat, NEW textsF \in Nat, Together(l, f, toL, toF, textsL, textsF),
         textsF > 0, NEW u \in User, NEW opk \in BOOLEAN,
         NEW t, t = Sent(f)
  PROVE  /\ MessageOf(f, u, opk) \in Message /\ ~f.rotate
         /\ Together(l, t, toL \cup {MessageOf(f, u, opk)}, toF, textsL, textsF - 1)
<1> DEFINE m == MessageOf(f, u, opk)
<1>0. /\ l \in Session /\ f \in Session /\ Leads(l, f) /\ OneKeyPerId(l) /\ NoneToCome(l)
      /\ OneKeyPerId(f) /\ NoneToCome(f)
      /\ LeaderFits(l, f, textsF) /\ OtherFits(l, f, textsL) /\ (l.rotate => toF = {})
      /\ \A x \in toL : (x.eph = f.dhs => x.n < f.ns) /\ (Kept(l, x) \/ Current(l, x))
      /\ \A x \in toF : /\ x.eph = l.dhs => x.n < l.ns
                        /\ Kept(f, x) \/ Ahead(l, x) \/ (Current(f, x) /\ x.n < l.pn)
  BY DEF Together
<1>1. /\ Len(l.skipped) \in Nat /\ f.ns \in Nat /\ l.nr \in Nat /\ f.pn \in Nat
      /\ MaxSkip \in Nat
  BY <1>0, KeysTyped, ChatAssumption
<1>2. /\ t \in Session /\ t.ns = f.ns + 1
      /\ t.rk = f.rk /\ t.cks = f.cks /\ t.ckr = f.ckr /\ t.dhs = f.dhs /\ t.dhr = f.dhr
      /\ t.nr = f.nr /\ t.pn = f.pn /\ t.rotate = f.rotate /\ t.skipped = f.skipped
  BY <1>0, SentIs
<1>3. m \in Message /\ m.eph = f.dhs /\ m.n = f.ns /\ m.chain = f.cks
  <2>1. f.dhs \in PublicKey /\ f.cks \in ChainKey BY <1>0 DEF Session
  <2> QED BY <1>1, <2>1 DEF MessageOf, Message
<1> HIDE DEF m
<1>5. Leads(l, t) BY <1>0, <1>2 DEF Leads
<1>6. OneKeyPerId(t) /\ NoneToCome(t) BY <1>0, <1>2 DEF OneKeyPerId, NoneToCome
<1>7. OtherFits(l, t, textsL) BY <1>0, <1>2 DEF OtherFits
<1>8. l.nr <= f.ns /\ LeaderFits(l, t, textsF - 1)
  <2>1. l.nr <= f.ns /\ Len(l.skipped) + (f.ns - l.nr) + textsF <= MaxSkip
    BY <1>0 DEF LeaderFits
  <2> DEFINE len == Len(l.skipped)
             nr == l.nr
             ns == f.ns
  <2>2. /\ len \in Nat /\ nr \in Nat /\ ns \in Nat /\ MaxSkip \in Nat /\ nr <= ns
        /\ len + (ns - nr) + textsF <= MaxSkip
    BY <1>1, <2>1
  <2> HIDE DEF len, nr, ns
  <2>3. nr <= ns + 1 /\ len + ((ns + 1) - nr) + (textsF - 1) <= MaxSkip BY <2>2
  <2> QED BY <1>2, <2>1, <2>3 DEF LeaderFits, len, nr, ns
<1>9. \A x \in toF : /\ x.eph = l.dhs => x.n < l.ns
                     /\ Kept(t, x) \/ Ahead(l, x) \/ (Current(t, x) /\ x.n < l.pn)
  BY <1>0, <1>2 DEF Kept, Current
<1>10. \A x \in toL \cup {m} :
         (x.eph = t.dhs => x.n < t.ns) /\ (Kept(l, x) \/ Current(l, x))
  <2>1. ASSUME NEW x \in toL
        PROVE  (x.eph = t.dhs => x.n < t.ns) /\ (Kept(l, x) \/ Current(l, x))
    <3>1. x.n \in Nat BY DEF Message
    <3> QED BY <1>0, <1>1, <1>2, <3>1
  <2>2. m.n < t.ns /\ Current(l, m) BY <1>0, <1>1, <1>2, <1>3, <1>8 DEF Current, Leads
  <2> QED BY <2>1, <2>2
<1>11. Together(l, t, toL \cup {m}, toF, textsL, textsF - 1)
  BY <1>0, <1>2, <1>5, <1>6, <1>7, <1>8, <1>9, <1>10 DEF Together
<1>12. ~f.rotate BY <1>0 DEF Leads
<1> QED BY <1>3, <1>11, <1>12 DEF m

\* What a session becomes when its sending chain turns to a key.
TurnedTo(t, s, fresh) ==
  /\ t \in Session /\ t.rk = Append(s.rk, Dh(fresh, s.dhr))
  /\ t.cks = Chain(t.rk, "next") /\ t.ckr = s.ckr /\ t.dhs = fresh
  /\ t.dhr = s.dhr /\ t.ns = 0 /\ t.nr = s.nr /\ t.pn = s.ns /\ t.rotate = FALSE
  /\ t.skipped = s.skipped

\* A session that has turned its sending chain.
LEMMA RotatedIs ==
  ASSUME NEW s \in Session, NEW fresh \in PublicKey
  PROVE  TurnedTo(RotateSendChain(s, fresh), s, fresh)
<1> PICK t : t = RotateSendChain(s, fresh) OBVIOUS
<1> DEFINE root == Append(s.rk, Dh(fresh, s.dhr))
<1>1. s.rk \in Seq(Secret) /\ s.dhr \in PublicKey BY DEF Session
<1>2. root \in Seq(Secret) BY <1>1, DerivedRoot
<1>3. Chain(root, "next") \in ChainKey BY <1>2 DEF Chain, ChainKey
<1>4. t = [s EXCEPT !.dhs = fresh, !.pn = s.ns, !.ns = 0, !.rk = root,
                    !.cks = Chain(root, "next"), !.rotate = FALSE]
  BY DEF RotateSendChain, Derive
<1>5. root = Append(s.rk, Dh(fresh, s.dhr)) OBVIOUS
<1> HIDE DEF root
<1>6. t = [rk |-> root, cks |-> Chain(root, "next"), ckr |-> s.ckr, dhs |-> fresh,
           dhr |-> s.dhr, ns |-> 0, nr |-> s.nr, pn |-> s.ns, rotate |-> FALSE,
           skipped |-> s.skipped]
  BY <1>4 DEF Session
<1>7. /\ s.ckr \in ChainKey /\ s.dhr \in PublicKey /\ s.nr \in Nat /\ s.ns \in Nat
      /\ s.skipped \in Seq(MessageKey)
  BY DEF Session
<1>8. t \in Session BY <1>2, <1>3, <1>6, <1>7 DEF Session
<1>9. TurnedTo(t, s, fresh) BY <1>5, <1>6, <1>8 DEF TurnedTo
<1> QED BY <1>9

\* The responder turns its ratchet before it sends, and leads on.
LEMMA RotatedLeads ==
  ASSUME NEW l, NEW f, NEW toL \in SUBSET Message, NEW toF \in SUBSET Message,
         NEW textsL \in Nat, NEW textsF \in Nat, Together(l, f, toL, toF, textsL, textsF),
         l.rotate, NEW fresh \in PublicKey, fresh # f.dhr,
         \A k \in Range(f.skipped) : k.dh # fresh
  PROVE  Together(RotateSendChain(l, fresh), f, toL, toF, textsL, textsF)
<1>0. /\ l \in Session /\ f \in Session /\ Leads(l, f) /\ OneKeyPerId(l) /\ NoneToCome(l)
      /\ OneKeyPerId(f) /\ NoneToCome(f)
      /\ LeaderFits(l, f, textsF) /\ OtherFits(l, f, textsL) /\ toF = {}
      /\ \A x \in toL : (x.eph = f.dhs => x.n < f.ns) /\ (Kept(l, x) \/ Current(l, x))
  BY DEF Together
<1>1. /\ l.dhr = f.dhs /\ l.ckr = f.cks /\ ~f.rotate /\ l.rk = f.rk /\ l.ns = 0 /\ l.pn = 0
  BY <1>0 DEF Leads
<1>2. PICK t : t = RotateSendChain(l, fresh) OBVIOUS
<1>3. /\ t \in Session /\ t.rk = Append(l.rk, Dh(fresh, l.dhr))
      /\ t.cks = Chain(t.rk, "next") /\ t.ckr = l.ckr /\ t.dhs = fresh
      /\ t.dhr = l.dhr /\ t.ns = 0 /\ t.nr = l.nr /\ t.pn = 0 /\ ~t.rotate
      /\ t.skipped = l.skipped
  <2>1. l \in Session BY <1>0
  <2>2. TurnedTo(RotateSendChain(l, fresh), l, fresh) BY <2>1, RotatedIs
  <2>3. TurnedTo(t, l, fresh) BY <1>2, <2>2
  <2> QED BY <1>1, <2>3 DEF TurnedTo
<1>4. Leads(t, f) BY <1>1, <1>3 DEF Leads
<1>5. OneKeyPerId(t) /\ NoneToCome(t) BY <1>0, <1>3 DEF OneKeyPerId, NoneToCome
<1>6. LeaderFits(t, f, textsF) BY <1>0, <1>3 DEF LeaderFits
<1>7. OtherFits(t, f, textsL) BY <1>0, <1>1, <1>3 DEF OtherFits
<1>8. \A x \in toL : (x.eph = f.dhs => x.n < f.ns) /\ (Kept(t, x) \/ Current(t, x))
  BY <1>0, <1>3 DEF Kept, Current
<1>9. Together(t, f, toL, toF, textsL, textsF)
  BY <1>0, <1>3, <1>4, <1>5, <1>6, <1>7, <1>8 DEF Together
<1> QED BY <1>2, <1>9

-----------------------------------------------------------------------------
(* The state of the two wallets *)

\* All the messages on their way to a wallet are messages of generated keys, no two of
\* one id.
LEMMA WaitingIs ==
  ASSUME MailSound
  PROVE  \A u \in User : /\ Waiting(u) \in SUBSET Message /\ NoTwins(Waiting(u))
                         /\ \A m \in Waiting(u) : Known(m.eph) /\ m.eph \in PublicKey
<1>1. \A u \in User : Sorted(mail[u], inbox[u]) BY DEF MailSound
<1>2. \A u \in User : Waiting(u) \in SUBSET Message
  BY <1>1 DEF Waiting, Sorted, Range
<1>3. \A u \in User : NoTwins(Waiting(u)) BY <1>1 DEF Waiting, Sorted, NoTwins
<1> QED BY <1>2, <1>3 DEF MailSound, Message

\* What changes is what is on its way to one wallet, and nothing is there that was not.
LEMMA MailKept ==
  ASSUME MailSound, NEW u \in User, NEW box, NEW list \in Seq(Message),
         mail' = [mail EXCEPT ![u] = box], inbox' = [inbox EXCEPT ![u] = list],
         Sorted(box, list), box \cup Range(list) \subseteq Waiting(u), made' = made
  PROVE  /\ MailSound' /\ \A v \in User : Waiting(v)' \subseteq Waiting(v)
<1>0. mail \in [User -> SUBSET Message] /\ inbox \in [User -> Seq(Message)]
  BY DEF MailSound
<1>1. box \in SUBSET Message BY DEF Sorted
<1>2. /\ mail' \in [User -> SUBSET Message] /\ inbox' \in [User -> Seq(Message)]
      /\ mail'[u] = box /\ inbox'[u] = list
      /\ \A v \in User : v # u => mail'[v] = mail[v] /\ inbox'[v] = inbox[v]
  BY <1>0, <1>1
<1>3. \A v \in User : Waiting(v)' \subseteq Waiting(v) BY <1>2 DEF Waiting
<1>4. \A v \in User : Sorted(mail'[v], inbox'[v]) BY <1>2 DEF MailSound
<1>5. \A v \in User : \A m \in Waiting(v)' : Known(m.eph)'
  BY <1>3, WaitingIs DEF Known
<1>6. MailSound' BY <1>2, <1>4, <1>5 DEF MailSound
<1> QED BY <1>3, <1>6

\* A message of a new id is sent.
LEMMA MailSent ==
  ASSUME MailSound, NEW u \in User, NEW m \in Message,
         mail' = [mail EXCEPT ![u] = @ \cup {m}], inbox' = inbox,
         \A x \in Waiting(u) : x.eph # m.eph \/ x.n # m.n, Known(m.eph)',
         \A key \in PublicKey : Known(key) => Known(key)'
  PROVE  /\ MailSound' /\ Waiting(u)' = Waiting(u) \cup {m}
         /\ \A v \in User : v # u => Waiting(v)' = Waiting(v)
<1>0. mail \in [User -> SUBSET Message] /\ inbox \in [User -> Seq(Message)]
  BY DEF MailSound
<1>1. /\ mail' \in [User -> SUBSET Message] /\ inbox' \in [User -> Seq(Message)]
      /\ mail'[u] = mail[u] \cup {m} /\ inbox'[u] = inbox[u]
      /\ \A v \in User : v # u => mail'[v] = mail[v] /\ inbox'[v] = inbox[v]
  BY <1>0
<1>2. /\ Waiting(u)' = Waiting(u) \cup {m}
      /\ \A v \in User : v # u => Waiting(v)' = Waiting(v)
  BY <1>1 DEF Waiting
<1>3. Sorted(mail[u] \cup {m}, inbox[u])
  <2>1. Sorted(mail[u], inbox[u]) BY DEF MailSound
  <2>2. \A x \in mail[u] \cup Range(inbox[u]) : x.eph # m.eph \/ x.n # m.n BY DEF Waiting
  <2> QED BY <2>1, <2>2, SortedPut
<1>4. \A v \in User : Sorted(mail'[v], inbox'[v]) BY <1>1, <1>3 DEF MailSound
<1>5. \A v \in User : \A x \in Waiting(v)' : Known(x.eph)' BY <1>2, WaitingIs
<1>6. MailSound' BY <1>1, <1>4, <1>5 DEF MailSound
<1> QED BY <1>2, <1>6

\* A wallet has the session that is stored.
LEMMA GetSessionIs ==
  ASSUME WalletsSound, NEW u \in User
  PROVE  GetSession(u) = disk[u] /\ disk[u] \in Session \cup {NoSession}
BY DEF WalletsSound, GetSession

\* A fresh key is none that has been generated.
LEMMA FreshIsNew ==
  ASSUME WalletsSound, NEW u \in User
  PROVE  /\ Fresh(u) \in PublicKey /\ Fresh(u) = <<u, made[u] + 1>>
         /\ \A key \in PublicKey : Known(key) => key # Fresh(u)
<1>1. made[u] \in Nat BY DEF WalletsSound
<1>2. Fresh(u) \in PublicKey BY <1>1 DEF Fresh, PublicKey
<1>3. ~Known(Fresh(u)) BY <1>1 DEF Fresh, Known
<1> QED BY <1>2, <1>3 DEF Fresh

\* A wallet keeps the keys it has generated and may generate one.
LEMMA KnownGrows ==
  ASSUME WalletsSound, NEW u \in User,
         made' = made \/ made' = [made EXCEPT ![u] = @ + 1]
  PROVE  /\ made' \in [User -> Nat] /\ \A key \in PublicKey : Known(key) => Known(key)'
         /\ made' # made => \A key \in PublicKey : key = Fresh(u) => Known(key)'
<1>0. made \in [User -> Nat] BY DEF WalletsSound
<1>1. \A v \in User : made'[v] \in Nat /\ made'[v] >= made[v] BY <1>0
<1>2. made' \in [User -> Nat] BY <1>0
<1>3. \A key \in PublicKey : Known(key) => Known(key)'
  <2> SUFFICES ASSUME NEW v \in User, NEW n \in Nat, Known(<<v, n>>) PROVE Known(<<v, n>>)'
    BY DEF PublicKey
  <2> QED BY <1>0, <1>1 DEF Known
<1>4. ASSUME made' # made, NEW key \in PublicKey, key = Fresh(u) PROVE Known(key)'
  <2>1. made'[u] = made[u] + 1 BY <1>0, <1>4
  <2>2. key[1] = u /\ key[2] = made[u] + 1 BY <1>4 DEF Fresh
  <2> QED BY <1>0, <2>1, <2>2 DEF Known
<1> QED BY <1>2, <1>3, <1>4

\* The session of one wallet changes, or only what is in memory is gone.
LEMMA WalletsNext ==
  ASSUME WalletsSound, NEW u \in User, NEW s \in Session \cup {NoSession},
         NEW d, d = s \/ s = NoSession, d \in Session \cup {NoSession},
         ram' = [ram EXCEPT ![u] = s], disk' = [disk EXCEPT ![u] = d],
         made' \in [User -> Nat], pendingOpk' \in [User -> BOOLEAN],
         asks' \in [User -> [BOOLEAN -> Nat]],
         budget' \in [texts : [User -> Nat], opens : {budget'.opens},
                      restarts : {budget'.restarts}, losses : {budget'.losses}]
  PROVE  WalletsSound' /\ disk'[u] = d /\ \A v \in User : v # u => disk'[v] = disk[v]
<1>1. /\ ram \in [User -> Session \cup {NoSession}]
      /\ disk \in [User -> Session \cup {NoSession}]
      /\ \A v \in User : ram[v] \in {disk[v], NoSession}
  BY DEF WalletsSound
<1>2. /\ ram' \in [User -> Session \cup {NoSession}]
      /\ disk' \in [User -> Session \cup {NoSession}]
      /\ \A v \in User : ram'[v] \in {disk'[v], NoSession}
      /\ disk'[u] = d /\ \A v \in User : v # u => disk'[v] = disk[v]
  BY <1>1
<1> QED BY <1>2 DEF WalletsSound

\* A wallet has a new session, in memory and stored.
LEMMA SessionStored ==
  ASSUME WalletsSound, NEW u \in User, NEW t \in Session,
         ram' = [ram EXCEPT ![u] = t], disk' = [disk EXCEPT ![u] = t],
         made' \in [User -> Nat], pendingOpk' \in [User -> BOOLEAN],
         asks' \in [User -> [BOOLEAN -> Nat]],
         budget' \in [texts : [User -> Nat], opens : {budget'.opens},
                      restarts : {budget'.restarts}, losses : {budget'.losses}]
  PROVE  WalletsSound' /\ disk'[u] = t /\ \A v \in User : v # u => disk'[v] = disk[v]
<1>1. t \in Session \cup {NoSession} OBVIOUS
<1> QED BY <1>1, WalletsNext

-----------------------------------------------------------------------------
(* Every action keeps the wallets in order *)

\* Sessions stay in step when messages are lost.
LEMMA TogetherLess ==
  ASSUME NEW l, NEW f, NEW toL, NEW toF, NEW textsL, NEW textsF,
         Together(l, f, toL, toF, textsL, textsF),
         NEW lessL \in SUBSET toL, NEW lessF \in SUBSET toF
  PROVE  Together(l, f, lessL, lessF, textsL, textsF)
BY DEF Together

\* A step that changes no session and sends no message keeps everything in order.
LEMMA QuietStep ==
  ASSUME NEW a \in User, InOrder(a), WalletsSound', MailSound', missed' = missed,
         disk' = disk, made' = made, joined' = joined,
         budget'.texts = budget.texts, budget'.opens = budget.opens,
         \A v \in User : Waiting(v)' \subseteq Waiting(v),
         \A v \in User : NoAsks(v) => NoAsks(v)'
  PROVE  InOrder(a)'
<1>0. /\ missed = {} /\ budget.opens \subseteq {a} /\ NoAsks(Peer(a))
      /\ Apart \/ Opened(a) \/ \E x \in User : Paired(x)
  BY DEF InOrder
<1>1. Peer(a) \in User BY PeerIs
<1>2. missed' = {} /\ budget'.opens \subseteq {a} /\ NoAsks(Peer(a))'
  BY <1>0, <1>1
<1>3. CASE Apart
  <2>1. Apart' BY <1>3 DEF Apart
  <2> QED BY <1>2, <2>1 DEF InOrder
<1>4. CASE Opened(a)
  <2>1. Waiting(a)' = {} /\ Waiting(Peer(a))' \subseteq Waiting(Peer(a))
    BY <1>1, <1>4 DEF Opened
  <2>2. Opened(a)' BY <1>4, <2>1 DEF Opened, KnownSession, Known
  <2> QED BY <1>2, <2>2 DEF InOrder
<1>5. ASSUME NEW x \in User, Paired(x) PROVE InOrder(a)'
  <2>1. Peer(x) \in User BY PeerIs
  <2>2. /\ KnownSession(disk[x]) /\ KnownSession(disk[Peer(x)])
        /\ Together(disk[x], disk[Peer(x)], Waiting(x), Waiting(Peer(x)),
                    budget.texts[x], budget.texts[Peer(x)])
    BY <1>5 DEF Paired
  <2>3. Together(disk[x], disk[Peer(x)], Waiting(x)', Waiting(Peer(x))',
                 budget.texts[x], budget.texts[Peer(x)])
    BY <2>1, <2>2, TogetherLess
  <2>4. (KnownSession(disk[x]) /\ KnownSession(disk[Peer(x)]))'
    BY <2>2 DEF KnownSession, Known
  <2>5. Together(disk[x], disk[Peer(x)], Waiting(x), Waiting(Peer(x)),
                 budget.texts[x], budget.texts[Peer(x)])'
    BY <2>3
  <2>6. Paired(x)' BY <2>4, <2>5 DEF Paired
  <2> QED BY <1>2, <2>6 DEF InOrder
<1> QED BY <1>0, <1>3, <1>4, <1>5

\* Nothing changes.
LEMMA ChatStutters ==
  ASSUME NEW a \in User, InOrder(a), UNCHANGED chatVars PROVE InOrder(a)'
BY DEF InOrder, chatVars, keys, WalletsSound, MailSound, Apart, Opened, Paired,
       KnownSession, Known, Waiting, NoAsks

\* A message is lost.
LEMMA LostStep ==
  ASSUME NEW a \in User, InOrder(a), NEW u \in User, Lost(u) PROVE InOrder(a)'
<1>0. WalletsSound /\ MailSound BY DEF InOrder
<1>1. PICK m \in mail[u] :
        /\ mail' = [mail EXCEPT ![u] = @ \ {m}]
        /\ budget' = [budget EXCEPT !.losses = @ - 1]
        /\ UNCHANGED <<ram, disk, keys, stage, made, inbox, joined, missed>>
  BY DEF Lost
<1>2. /\ budget' \in [texts : [User -> Nat], opens : {budget'.opens},
                      restarts : {budget'.restarts}, losses : {budget'.losses}]
      /\ budget'.texts = budget.texts /\ budget'.opens = budget.opens
  BY <1>0, <1>1 DEF WalletsSound
<1>3. WalletsSound' BY <1>0, <1>1, <1>2 DEF WalletsSound, keys
<1>4. /\ inbox \in [User -> Seq(Message)] /\ mail \in [User -> SUBSET Message]
      /\ Sorted(mail[u], inbox[u])
    BY <1>0 DEF MailSound
<1>5. inbox' = [inbox EXCEPT ![u] = inbox[u]] BY <1>1, <1>4
<1>6. Sorted(mail[u] \ {m}, inbox[u]) BY <1>4, SortedLess
<1>7. (mail[u] \ {m}) \cup Range(inbox[u]) \subseteq Waiting(u) BY DEF Waiting
<1>8. MailSound' /\ \A v \in User : Waiting(v)' \subseteq Waiting(v)
  BY <1>0, <1>1, <1>4, <1>5, <1>6, <1>7, MailKept
<1>9. \A v \in User : NoAsks(v) => NoAsks(v)' BY <1>1 DEF NoAsks, keys
<1> QED BY <1>1, <1>2, <1>3, <1>8, <1>9, QuietStep

\* A wallet polls.
LEMMA PollStep ==
  ASSUME NEW a \in User, InOrder(a), NEW u \in User, Poll(u) PROVE InOrder(a)'
<1>0. WalletsSound /\ MailSound BY DEF InOrder
<1>1. PICK m1 \in mail[u], m2 \in mail[u] :
        /\ inbox[u] = <<>>
        /\ inbox' = [inbox EXCEPT ![u] = IF m1 = m2 THEN <<m1>> ELSE <<m1, m2>>]
        /\ mail' = [mail EXCEPT ![u] = @ \ {m1, m2}]
        /\ UNCHANGED <<ram, disk, keys, stage, made, joined, missed, budget>>
  BY DEF Poll
<1>2. WalletsSound' BY <1>0, <1>1 DEF WalletsSound, keys
<1>3. Sorted(mail[u], <<>>) BY <1>0, <1>1 DEF MailSound
<1> DEFINE list == IF m1 = m2 THEN <<m1>> ELSE <<m1, m2>>
<1>4. Sorted(mail[u] \ {m1, m2}, list) /\ Range(list) = {m1, m2} /\ list \in Seq(Message)
  BY <1>3, SortedPoll
<1>5. inbox' = [inbox EXCEPT ![u] = list] BY <1>1
<1> HIDE DEF list
<1>6. (mail[u] \ {m1, m2}) \cup Range(list) \subseteq Waiting(u) BY <1>4 DEF Waiting
<1>7. MailSound' /\ \A v \in User : Waiting(v)' \subseteq Waiting(v)
  BY <1>0, <1>1, <1>4, <1>5, <1>6, MailKept
<1>8. \A v \in User : NoAsks(v) => NoAsks(v)' BY <1>1 DEF NoAsks, keys
<1> QED BY <1>1, <1>2, <1>7, <1>8, QuietStep

\* A wallet is closed and opened again.
LEMMA RestartStep ==
  ASSUME NEW a \in User, InOrder(a), NEW u \in User, RestartWallet(u) PROVE InOrder(a)'
<1>0. WalletsSound /\ MailSound BY DEF InOrder
<1>1. /\ budget' = [budget EXCEPT !.restarts = @ - 1]
      /\ ram' = [ram EXCEPT ![u] = NoSession]
      /\ asks' = [asks EXCEPT ![u] = [opk \in BOOLEAN |-> 0]]
      /\ inbox' = [inbox EXCEPT ![u] = <<>>]
      /\ pendingOpk' = [pendingOpk EXCEPT ![u] = FALSE]
      /\ UNCHANGED <<disk, bundleOpk, opkUnused, made, mail, joined, missed>>
  BY DEF RestartWallet
<1>2. /\ budget' \in [texts : [User -> Nat], opens : {budget'.opens},
                      restarts : {budget'.restarts}, losses : {budget'.losses}]
      /\ budget'.texts = budget.texts /\ budget'.opens = budget.opens
  BY <1>0, <1>1 DEF WalletsSound
<1>3. WalletsSound' BY <1>0, <1>1, <1>2 DEF WalletsSound
<1>4. mail \in [User -> SUBSET Message] /\ Sorted(mail[u], inbox[u]) BY <1>0 DEF MailSound
<1>5. mail' = [mail EXCEPT ![u] = mail[u]] BY <1>1, <1>4
<1>6. Sorted(mail[u], <<>>) /\ Range(<<>>) = {} BY <1>4, SortedNone
<1>7. mail[u] \cup Range(<<>>) \subseteq Waiting(u) BY <1>6 DEF Waiting
<1>8. <<>> \in Seq(Message) OBVIOUS
<1>9. MailSound' /\ \A v \in User : Waiting(v)' \subseteq Waiting(v)
  BY <1>0, <1>1, <1>5, <1>6, <1>7, <1>8, MailKept
<1>10. \A v \in User : NoAsks(v) => NoAsks(v)' BY <1>0, <1>1 DEF WalletsSound, NoAsks
<1> QED BY <1>1, <1>2, <1>3, <1>9, <1>10, QuietStep

\* A wallet with a session has nobody to ask for one: a session is asked for as long as
\* there is none.
LEMMA EnsureStep ==
  ASSUME NEW a \in User, InOrder(a), NEW u \in User, EnsureSession(u) PROVE InOrder(a)'
<1>0. /\ WalletsSound /\ MailSound /\ missed = {} /\ budget.opens \subseteq {a}
      /\ NoAsks(Peer(a))
      /\ Apart \/ Opened(a) \/ \E x \in User : Paired(x)
  BY DEF InOrder
<1>1. u = a /\ disk[a] = NoSession BY <1>0, GetSessionIs DEF EnsureSession
<1>2. Peer(a) \in User /\ Peer(a) # a /\ \A v \in User : v = a \/ v = Peer(a) BY PeerIs
<1>3. Apart
  <2>1. ~Opened(a) BY <1>1, ChatAssumption DEF Opened
  <2>2. \A x \in User : ~Paired(x)
    <3> SUFFICES ASSUME NEW x \in User, Paired(x) PROVE FALSE OBVIOUS
    <3>1. disk[x] \in Session /\ disk[Peer(x)] \in Session BY DEF Paired, Together
    <3>2. a = x \/ a = Peer(x) BY PeerIs
    <3> QED BY <1>1, <3>1, <3>2, ChatAssumption
  <2> QED BY <1>0, <2>1, <2>2
<1>4. UNCHANGED <<ram, disk, pendingOpk, made, mail, inbox, joined, missed, budget>>
  BY DEF EnsureSession
<1>5. asks' \in [User -> [BOOLEAN -> Nat]] /\ NoAsks(Peer(a))'
  <2> PICK opk : opk = bundleOpk[Peer(a)] OBVIOUS
  <2>1. asks \in [User -> [BOOLEAN -> Nat]] BY <1>0 DEF WalletsSound
  <2>2. asks' = [asks EXCEPT ![a][opk] = @ + 1] BY <1>1 DEF EnsureSession
  <2>3. asks' \in [User -> [BOOLEAN -> Nat]] /\ asks'[Peer(a)] = asks[Peer(a)]
    <3> PICK row : row = [asks[a] EXCEPT ![opk] = @ + 1] OBVIOUS
    <3>1. asks[a] \in [BOOLEAN -> Nat] BY <2>1
    <3>2. row \in [BOOLEAN -> Nat]
      <4>1. CASE opk \in BOOLEAN BY <3>1, <4>1
      <4>2. CASE opk \notin BOOLEAN
        <5>1. row = asks[a] BY <3>1, <4>2
        <5> QED BY <3>1, <5>1
      <4> QED BY <4>1, <4>2
    <3>3. asks' = [asks EXCEPT ![a] = row] BY <2>1, <2>2
    <3> QED BY <1>2, <2>1, <3>2, <3>3
  <2> QED BY <1>0, <2>3 DEF NoAsks
<1>6. WalletsSound' BY <1>0, <1>4, <1>5 DEF WalletsSound
<1>7. MailSound' BY <1>0, <1>4 DEF MailSound, Waiting, Known
<1>8. Apart' BY <1>3, <1>4 DEF Apart, Waiting
<1> QED BY <1>0, <1>4, <1>5, <1>6, <1>7, <1>8 DEF InOrder

\* The session that an opener makes is of known shape.
LEMMA InitiatorIs ==
  ASSUME NEW u \in User, NEW eph \in PublicKey, NEW opk \in BOOLEAN, NEW spk \in PublicKey,
         NEW s, s = InitAsInitiator(X3dh(u, eph, opk), eph, spk)
  PROVE  /\ s \in Session /\ s.rk = <<X3dh(u, eph, opk)>> /\ s.cks.root = s.rk
         /\ s.dhs = eph /\ s.dhr = spk /\ s.ns = 0 /\ s.nr = 0 /\ s.pn = 0
         /\ s.skipped = <<>> /\ ~s.rotate
<1> DEFINE root == <<X3dh(u, eph, opk)>>
<1>1. X3dh(u, eph, opk) \in Secret BY DEF X3dh, Secret
<1>2. root \in Seq(Secret) BY <1>1
<1>3. Chain(root, "send") \in ChainKey /\ Chain(root, "recv") \in ChainKey
      /\ Chain(root, "send").root = root
  BY <1>2 DEF Chain, ChainKey
<1>4. s = [rk |-> root, cks |-> Chain(root, "send"), ckr |-> Chain(root, "recv"),
           dhs |-> eph, dhr |-> spk, ns |-> 0, nr |-> 0, pn |-> 0, skipped |-> <<>>,
           rotate |-> FALSE]
  BY DEF InitAsInitiator
<1>5. <<>> \in Seq(MessageKey) OBVIOUS
<1>6. root = <<X3dh(u, eph, opk)>> OBVIOUS
<1> HIDE DEF root
<1> QED BY <1>2, <1>3, <1>4, <1>5, <1>6 DEF Session

\* The answer is there, and the session opened.
LEMMA ProcessStep ==
  ASSUME NEW a \in User, InOrder(a), NEW u \in User, ProcessPrekeyBundle(u)
  PROVE  Excused' \/ InOrder(a)'
<1>0. /\ WalletsSound /\ MailSound /\ missed = {} /\ budget.opens \subseteq {a}
      /\ NoAsks(Peer(a))
      /\ Apart \/ Opened(a) \/ \E x \in User : Paired(x)
  BY DEF InOrder
<1>1. Peer(a) \in User /\ Peer(a) # a /\ \A v \in User : v = a \/ v = Peer(a) BY PeerIs
<1>2. u = a
  <2>1. PICK opk \in BOOLEAN : asks[u][opk] > 0 BY DEF ProcessPrekeyBundle
  <2>2. u # Peer(a) BY <1>0, <2>1 DEF NoAsks
  <2> QED BY <1>1, <2>2
<1> SUFFICES ASSUME ~replaced' PROVE InOrder(a)' BY DEF Excused
<1>3. disk[a] = NoSession BY <1>0, <1>2, GetSessionIs DEF ProcessPrekeyBundle
<1>4. Apart
  <2>1. ~Opened(a) BY <1>3, ChatAssumption DEF Opened
  <2>2. \A x \in User : ~Paired(x)
    <3> SUFFICES ASSUME NEW x \in User, Paired(x) PROVE FALSE OBVIOUS
    <3>1. disk[x] \in Session /\ disk[Peer(x)] \in Session BY DEF Paired, Together
    <3>2. a = x \/ a = Peer(x) BY PeerIs
    <3> QED BY <1>3, <3>1, <3>2, ChatAssumption
  <2> QED BY <1>0, <2>1, <2>2
<1> PICK opk \in BOOLEAN :
      /\ asks' = [asks EXCEPT ![a][opk] = @ - 1] /\ asks[a][opk] > 0
      /\ made' = [made EXCEPT ![a] = @ + 1]
      /\ Persisted(a, InitAsInitiator(X3dh(a, Fresh(a), opk), Fresh(a), <<Peer(a), 0>>))
      /\ pendingOpk' = [pendingOpk EXCEPT ![a] = IF opk THEN TRUE ELSE @]
      /\ UNCHANGED <<mail, inbox, joined, missed, budget>>
  BY <1>2 DEF ProcessPrekeyBundle
<1> DEFINE s == InitAsInitiator(X3dh(a, Fresh(a), opk), Fresh(a), <<Peer(a), 0>>)
<1>5. /\ asks' = [asks EXCEPT ![a][opk] = @ - 1] /\ asks[a][opk] > 0
      /\ made' = [made EXCEPT ![a] = @ + 1]
      /\ ram' = [ram EXCEPT ![a] = s] /\ disk' = [disk EXCEPT ![a] = s]
      /\ pendingOpk' = [pendingOpk EXCEPT ![a] = IF opk THEN TRUE ELSE @]
      /\ UNCHANGED <<mail, inbox, joined, missed, budget>>
  BY DEF Persisted
<1>6. /\ s \in Session /\ s.cks.root = s.rk /\ s.dhs = Fresh(a) /\ s.dhr = <<Peer(a), 0>>
      /\ s.ns = 0 /\ s.nr = 0 /\ s.pn = 0 /\ s.skipped = <<>> /\ ~s.rotate
  <2>1. Fresh(a) \in PublicKey BY <1>0, FreshIsNew
  <2>2. <<Peer(a), 0>> \in PublicKey BY <1>1 DEF PublicKey
  <2> QED BY <2>1, <2>2, InitiatorIs
<1>7. /\ made' \in [User -> Nat] /\ \A key \in PublicKey : Known(key) => Known(key)'
      /\ \A key \in PublicKey : key = Fresh(a) => Known(key)'
  <2>1. made' # made BY <1>0, <1>5 DEF WalletsSound
  <2> QED BY <1>0, <1>5, <2>1, KnownGrows
<1>8. pendingOpk' \in [User -> BOOLEAN] BY <1>0, <1>5 DEF WalletsSound
<1> HIDE DEF s
<1>9. asks' \in [User -> [BOOLEAN -> Nat]] /\ NoAsks(Peer(a))'
  <2>1. asks \in [User -> [BOOLEAN -> Nat]] BY <1>0 DEF WalletsSound
  <2>2. asks[a][opk] - 1 \in Nat BY <1>5, <2>1
  <2>3. asks' \in [User -> [BOOLEAN -> Nat]] /\ asks'[Peer(a)] = asks[Peer(a)]
    BY <1>1, <1>5, <2>1, <2>2
  <2> QED BY <1>0, <2>3 DEF NoAsks
<1>10. /\ budget' = budget
       /\ budget' \in [texts : [User -> Nat], opens : {budget'.opens},
                       restarts : {budget'.restarts}, losses : {budget'.losses}]
  BY <1>0, <1>5 DEF WalletsSound
<1>11. WalletsSound' /\ disk'[a] = s /\ disk'[Peer(a)] = NoSession
  <2>1. WalletsSound' /\ disk'[a] = s /\ \A v \in User : v # a => disk'[v] = disk[v]
    BY <1>0, <1>5, <1>6, <1>7, <1>8, <1>9, <1>10, WalletsNext
  <2> QED BY <1>1, <1>4, <2>1 DEF Apart
<1>12. \A v \in User : Waiting(v)' = {} BY <1>4, <1>5 DEF Apart, Waiting
<1>13. MailSound' BY <1>0, <1>5, <1>12 DEF MailSound
<1>14. KnownSession(disk[a])'
  <2>1. Known(disk[a].dhs)'
    <3>1. \A key \in PublicKey : key = disk'[a].dhs => Known(key)'
      BY <1>6, <1>7, <1>11
    <3>2. disk'[a].dhs \in PublicKey BY <1>6, <1>11 DEF Session
    <3> QED BY <3>1, <3>2 DEF Known
  <2>2. Known(disk[a].dhr)'
    <3>1. disk'[a].dhr = <<Peer(a), 0>> BY <1>6, <1>11
    <3>2. made'[Peer(a)] \in Nat BY <1>1, <1>7
    <3> QED BY <3>1, <3>2 DEF Known
  <2>3. Range(disk'[a].skipped) = {} BY <1>6, <1>11 DEF Range
  <2> QED BY <2>1, <2>2, <2>3 DEF KnownSession
<1>15. budget.texts[a] <= MaxSkip /\ budget.texts[Peer(a)] <= MaxSkip
       /\ budget.texts[a] \in Nat
  BY <1>0, <1>1, <1>4 DEF Apart, WalletsSound
<1>16. Opened(a)'
  <2>1. joined' = FALSE BY <1>4, <1>5 DEF Apart
  <2>2. s.ns + budget.texts[a] <= MaxSkip BY <1>6, <1>15
  <2>3. \A m \in Waiting(Peer(a))' : Ahead(s, m) /\ m.n < s.ns BY <1>1, <1>12
  <2> QED BY <1>1, <1>6, <1>10, <1>11, <1>12, <1>14, <1>15, <2>1, <2>2, <2>3
       DEF Opened
<1> QED BY <1>0, <1>5, <1>9, <1>10, <1>11, <1>13, <1>16 DEF InOrder

\* A session whose keys are generated still has only generated keys.
LEMMA KnownStays ==
  ASSUME NEW s \in Session, KnownSession(s), NEW t \in Session,
         \A key \in PublicKey : Known(key) => Known(key)',
         t.dhs = s.dhs \/ Known(t.dhs)', t.dhr = s.dhr \/ Known(t.dhr)',
         \A k \in Range(t.skipped) : k \in Range(s.skipped) \/ Known(k.dh)'
  PROVE  /\ Known(t.dhs)' /\ Known(t.dhr)' /\ \A k \in Range(t.skipped) : Known(k.dh)'
         /\ KnownSession(t)'
<1>1. s.dhs \in PublicKey /\ s.dhr \in PublicKey BY DEF Session
<1>2. \A k \in Range(s.skipped) : k.dh \in PublicKey BY KeysTyped DEF MessageKey
<1>3. Known(s.dhs)' /\ Known(s.dhr)' /\ \A k \in Range(s.skipped) : Known(k.dh)'
  BY <1>1, <1>2 DEF KnownSession
<1>4. Known(t.dhs)'
  <2>1. CASE t.dhs = s.dhs BY <1>3, <2>1 DEF Known
  <2> QED BY <2>1
<1>5. Known(t.dhr)'
  <2>1. CASE t.dhr = s.dhr BY <1>3, <2>1 DEF Known
  <2> QED BY <2>1
<1>6. \A k \in Range(t.skipped) : Known(k.dh)' BY <1>3
<1> QED BY <1>4, <1>5, <1>6 DEF KnownSession

\* A message is sent, and takes one of the messages of its sender.
LEMMA SentIsOneLess ==
  ASSUME WalletsSound, NEW u \in User, budget.texts[u] > 0,
         budget' = [budget EXCEPT !.texts[u] = @ - 1]
  PROVE  /\ budget' \in [texts : [User -> Nat], opens : {budget'.opens},
                         restarts : {budget'.restarts}, losses : {budget'.losses}]
         /\ budget'.opens = budget.opens /\ budget'.texts[u] = budget.texts[u] - 1
         /\ \A v \in User : budget.texts[v] \in Nat
         /\ \A v \in User : v # u => budget'.texts[v] = budget.texts[v]
<1>1. budget \in [texts : [User -> Nat], opens : {budget.opens},
                  restarts : {budget.restarts}, losses : {budget.losses}]
  BY DEF WalletsSound
<1>2. budget.texts \in [User -> Nat] BY <1>1
<1> DEFINE texts == [budget.texts EXCEPT ![u] = @ - 1]
<1>3. texts \in [User -> Nat] /\ texts[u] = budget.texts[u] - 1
      /\ \A v \in User : v # u => texts[v] = budget.texts[v]
  BY <1>2
<1>4. budget' = [budget EXCEPT !.texts = texts] OBVIOUS
<1> HIDE DEF texts
<1>5. budget'.texts = texts /\ budget'.opens = budget.opens BY <1>1, <1>4
<1>6. budget' \in [texts : [User -> Nat], opens : {budget'.opens},
                   restarts : {budget'.restarts}, losses : {budget'.losses}]
  BY <1>1, <1>3, <1>4
<1> QED BY <1>2, <1>3, <1>5, <1>6

\* What a wallet that sends changes, apart from its session.
LEMMA SendKeeps ==
  ASSUME NEW a \in User, InOrder(a), NEW u \in User, SendMessage(u),
         NEW t \in Session, t = Sent(Rotated(disk[u], Fresh(u)))
  PROVE  /\ WalletsSound' /\ disk'[u] = t /\ \A v \in User : v # u => disk'[v] = disk[v]
         /\ disk[u] # NoSession /\ joined' = joined /\ missed' = {}
         /\ budget'.opens \subseteq {a} /\ NoAsks(Peer(a))'
         /\ \A v \in User : NoAsks(v) => NoAsks(v)'
         /\ budget.texts[u] > 0 /\ budget'.texts[u] = budget.texts[u] - 1
         /\ \A v \in User : budget.texts[v] \in Nat
         /\ \A v \in User : v # u => budget'.texts[v] = budget.texts[v]
         /\ inbox' = inbox /\ pendingOpk[u] \in BOOLEAN
         /\ mail' = [mail EXCEPT ![Peer(u)] =
                       @ \cup {MessageOf(Rotated(disk[u], Fresh(u)), u, pendingOpk[u])}]
         /\ \A key \in PublicKey : Known(key) => Known(key)'
         /\ disk[u].rotate => \A key \in PublicKey : key = Fresh(u) => Known(key)'
<1>0. /\ WalletsSound /\ missed = {} /\ budget.opens \subseteq {a}
      /\ NoAsks(Peer(a))
  BY DEF InOrder
<1>1. GetSession(u) = disk[u] BY <1>0, GetSessionIs
<1>2. /\ budget.texts[u] > 0 /\ disk[u] # NoSession
      /\ asks' = asks
      /\ made' = IF disk[u].rotate THEN [made EXCEPT ![u] = @ + 1] ELSE made
      /\ ram' = [ram EXCEPT ![u] = t] /\ disk' = [disk EXCEPT ![u] = t]
      /\ mail' = [mail EXCEPT ![Peer(u)] =
                    @ \cup {MessageOf(Rotated(disk[u], Fresh(u)), u, pendingOpk[u])}]
      /\ pendingOpk' = [pendingOpk EXCEPT ![u] = FALSE]
      /\ budget' = [budget EXCEPT !.texts[u] = @ - 1]
      /\ inbox' = inbox /\ joined' = joined /\ missed' = missed
  BY <1>1 DEF SendMessage, Persisted, Sent
<1>3. /\ budget' \in [texts : [User -> Nat], opens : {budget'.opens},
                      restarts : {budget'.restarts}, losses : {budget'.losses}]
      /\ budget'.opens = budget.opens /\ budget'.texts[u] = budget.texts[u] - 1
      /\ \A v \in User : budget.texts[v] \in Nat
      /\ \A v \in User : v # u => budget'.texts[v] = budget.texts[v]
  BY <1>0, <1>2, SentIsOneLess
<1>4. /\ made' \in [User -> Nat] /\ \A key \in PublicKey : Known(key) => Known(key)'
      /\ made' # made => \A key \in PublicKey : key = Fresh(u) => Known(key)'
  BY <1>0, <1>2, KnownGrows
<1>5. disk[u].rotate => made' # made BY <1>0, <1>2 DEF WalletsSound
<1>6. /\ asks' \in [User -> [BOOLEAN -> Nat]] /\ NoAsks(Peer(a))'
      /\ \A v \in User : NoAsks(v) => NoAsks(v)'
  BY <1>0, <1>2 DEF WalletsSound, NoAsks
<1>7. pendingOpk' \in [User -> BOOLEAN] /\ pendingOpk[u] \in BOOLEAN
  BY <1>0, <1>2 DEF WalletsSound
<1>8. WalletsSound' /\ disk'[u] = t /\ \A v \in User : v # u => disk'[v] = disk[v]
  <2>1. ram' = [ram EXCEPT ![u] = t] /\ disk' = [disk EXCEPT ![u] = t] BY <1>2
  <2>2. WalletsSound BY <1>0
  <2>3. made' \in [User -> Nat] /\ pendingOpk' \in [User -> BOOLEAN] BY <1>4, <1>7
  <2>4. asks' \in [User -> [BOOLEAN -> Nat]] BY <1>6
  <2>5. budget' \in [texts : [User -> Nat], opens : {budget'.opens},
                     restarts : {budget'.restarts}, losses : {budget'.losses}]
    BY <1>3
  <2> QED BY <2>1, <2>2, <2>3, <2>4, <2>5, SessionStored
<1>9. budget'.opens \subseteq {a} BY <1>0, <1>3
<1> QED BY <1>0, <1>2, <1>3, <1>4, <1>5, <1>6, <1>7, <1>8, <1>9

\* The opener sends before the other has read anything.
LEMMA SendOpened ==
  ASSUME NEW a \in User, InOrder(a), SendMessage(a), Opened(a) PROVE InOrder(a)'
<1> PICK b : b = Peer(a) OBVIOUS
<1>a. PICK s : s = disk[a] OBVIOUS
<1>b. PICK t : t = Sent(s) OBVIOUS
<1>c. PICK m : m = MessageOf(s, a, pendingOpk[a]) OBVIOUS
<1>0. b \in User /\ b # a /\ \A v \in User : v = a \/ v = b BY PeerIs
<1>1. /\ s \in Session /\ KnownSession(s) /\ disk[b] = NoSession /\ Waiting(a) = {}
      /\ joined = FALSE /\ s.cks.root = s.rk /\ s.nr = 0 /\ s.pn = 0 /\ s.skipped = <<>>
      /\ ~s.rotate /\ s.ns + budget.texts[a] <= MaxSkip /\ budget.texts[b] <= MaxSkip
      /\ \A x \in Waiting(b) : Ahead(s, x) /\ x.n < s.ns
  BY <1>a DEF Opened
<1>2. /\ t \in Session /\ t.ns = s.ns + 1
      /\ t.rk = s.rk /\ t.cks = s.cks /\ t.ckr = s.ckr /\ t.dhs = s.dhs /\ t.dhr = s.dhr
      /\ t.nr = s.nr /\ t.pn = s.pn /\ t.rotate = s.rotate /\ t.skipped = s.skipped
  BY <1>1, <1>b, SentIs
<1>3. Rotated(disk[a], Fresh(a)) = s BY <1>a, <1>1 DEF Rotated
<1>4. /\ WalletsSound' /\ disk'[a] = t /\ \A v \in User : v # a => disk'[v] = disk[v]
      /\ joined' = joined /\ missed' = {}
      /\ budget'.opens \subseteq {a} /\ NoAsks(b)'
      /\ \A v \in User : NoAsks(v) => NoAsks(v)'
      /\ budget.texts[a] > 0 /\ budget'.texts[a] = budget.texts[a] - 1
      /\ \A v \in User : budget.texts[v] \in Nat
      /\ \A v \in User : v # a => budget'.texts[v] = budget.texts[v]
      /\ inbox' = inbox /\ pendingOpk[a] \in BOOLEAN
      /\ mail' = [mail EXCEPT ![b] = @ \cup {m}]
      /\ \A key \in PublicKey : Known(key) => Known(key)'
  <2>1. t = Sent(Rotated(disk[a], Fresh(a))) BY <1>b, <1>3
  <2>2. m = MessageOf(Rotated(disk[a], Fresh(a)), a, pendingOpk[a]) BY <1>c, <1>3
  <2> QED BY <1>2, <2>1, <2>2, SendKeeps
<1>5. m \in Message /\ m.eph = s.dhs /\ m.n = s.ns /\ m.pn = s.pn /\ m.chain = s.cks
  <2>1. s.dhs \in PublicKey /\ s.cks \in ChainKey /\ s.ns \in Nat /\ s.pn \in Nat
    BY <1>1 DEF Session
  <2> QED BY <1>c, <1>4, <2>1 DEF MessageOf, Message
<1>6. MailSound BY DEF InOrder
<1>7. \A x \in Waiting(b) : x \in Message /\ x.n \in Nat
  BY <1>0, <1>6, WaitingIs DEF Message
<1>8. s.ns \in Nat BY <1>1, KeysTyped
<1>9. \A x \in Waiting(b) : x.eph # m.eph \/ x.n # m.n BY <1>1, <1>5, <1>7, <1>8
<1>10. Known(t.dhs)' /\ Known(t.dhr)' /\ KnownSession(t)'
  BY <1>1, <1>2, <1>4, KnownStays
<1>11. Known(m.eph)' BY <1>2, <1>5, <1>10 DEF Known
<1>12. /\ MailSound' /\ Waiting(b)' = Waiting(b) \cup {m}
       /\ \A v \in User : v # b => Waiting(v)' = Waiting(v)
  BY <1>0, <1>4, <1>5, <1>6, <1>9, <1>11, MailSent
<1>13. \A x \in Waiting(b)' : Ahead(t, x) /\ x.n < t.ns
  <2>1. ASSUME NEW x \in Waiting(b) PROVE Ahead(t, x) /\ x.n < t.ns
    <3>1. Ahead(s, x) /\ x.n < s.ns /\ x.n \in Nat BY <1>1, <1>7
    <3> QED BY <1>2, <1>8, <3>1 DEF Ahead
  <2>2. Ahead(t, m) /\ m.n < t.ns BY <1>2, <1>5, <1>8 DEF Ahead
  <2> QED BY <1>12, <2>1, <2>2
<1>14. t.ns + budget'.texts[a] <= MaxSkip
  <2>1. MaxSkip \in Nat /\ budget.texts[a] \in Nat BY <1>0, <1>4, ChatAssumption
  <2> QED BY <1>1, <1>2, <1>4, <1>8, <2>1
<1>16. KnownSession(disk[a])' BY <1>4, <1>10 DEF KnownSession, Known
<1>17. /\ disk'[a] \in Session /\ disk'[b] = NoSession /\ Waiting(a)' = {}
       /\ joined' = FALSE /\ t.cks.root = t.rk /\ t.nr = 0 /\ t.pn = 0 /\ t.skipped = <<>>
       /\ ~t.rotate /\ budget'.texts[b] <= MaxSkip
  BY <1>0, <1>1, <1>2, <1>4, <1>12
<1>18. Opened(a)' BY <1>4, <1>13, <1>14, <1>16, <1>17 DEF Opened
<1> QED BY <1>4, <1>12, <1>18 DEF InOrder

\* In step, the one that leads or the other sends.
LEMMA SendPaired ==
  ASSUME NEW a \in User, InOrder(a), NEW u \in User, SendMessage(u),
         NEW x \in User, Paired(x)
  PROVE  InOrder(a)'
<1> PICK y : y = Peer(x) OBVIOUS
<1>a. PICK l : l = disk[x] OBVIOUS
<1>b. PICK f : f = disk[y] OBVIOUS
<1>0. y \in User /\ y # x /\ Peer(y) = x /\ \A v \in User : v = x \/ v = y BY PeerIs
<1>1. /\ KnownSession(l) /\ KnownSession(f) /\ l \in Session /\ f \in Session
      /\ Together(l, f, Waiting(x), Waiting(y), budget.texts[x], budget.texts[y])
  BY <1>a, <1>b DEF Paired, Together
<1>2. WalletsSound /\ MailSound BY DEF InOrder
<1>3. budget.texts[x] \in Nat /\ budget.texts[y] \in Nat
  BY <1>0, <1>2 DEF WalletsSound
<1>4. Waiting(x) \in SUBSET Message /\ Waiting(y) \in SUBSET Message
  BY <1>0, <1>2, WaitingIs
<1>5. CASE u = x
  <2>a. PICK r : r = Rotated(l, Fresh(x)) OBVIOUS
  <2>b. PICK t : t = Sent(r) OBVIOUS
  <2>c. PICK m : m = MessageOf(r, x, pendingOpk[x]) OBVIOUS
  <2>1. /\ Together(r, f, Waiting(x), Waiting(y), budget.texts[x], budget.texts[y])
        /\ ~r.rotate /\ r.dhr = l.dhr /\ r.skipped = l.skipped /\ r \in Session
        /\ r.dhs = l.dhs \/ (l.rotate /\ r.dhs = Fresh(x))
    <3>1. CASE l.rotate
      <4>1. /\ Fresh(x) \in PublicKey
            /\ \A key \in PublicKey : Known(key) => key # Fresh(x)
        BY <1>2, FreshIsNew
      <4>2. f.dhr # Fresh(x) /\ \A k \in Range(f.skipped) : k.dh # Fresh(x)
        <5>1. f.dhr \in PublicKey BY <1>1 DEF Session
        <5>2. \A k \in Range(f.skipped) : k.dh \in PublicKey
          BY <1>1, KeysTyped DEF MessageKey
        <5> QED BY <1>1, <4>1, <5>1, <5>2 DEF KnownSession
      <4>3. r = RotateSendChain(l, Fresh(x)) BY <2>a, <3>1 DEF Rotated
      <4>4. Together(r, f, Waiting(x), Waiting(y), budget.texts[x], budget.texts[y])
        <5>1. Together(l, f, Waiting(x), Waiting(y), budget.texts[x], budget.texts[y])
          BY <1>1
        <5> QED BY <1>3, <1>4, <3>1, <4>1, <4>2, <4>3, <5>1, RotatedLeads
      <4>5. /\ ~r.rotate /\ r.dhs = Fresh(x) /\ r.dhr = l.dhr /\ r.skipped = l.skipped
            /\ r \in Session
        <5>1. l \in Session /\ Fresh(x) \in PublicKey BY <1>1, <4>1
        <5>2. TurnedTo(RotateSendChain(l, Fresh(x)), l, Fresh(x)) BY <5>1, RotatedIs
        <5>3. TurnedTo(r, l, Fresh(x)) BY <4>3, <5>2
        <5> QED BY <5>3 DEF TurnedTo
      <4> QED BY <3>1, <4>4, <4>5
    <3>2. CASE ~l.rotate
      <4>1. r = l BY <2>a, <3>2 DEF Rotated
      <4> QED BY <1>1, <3>2, <4>1
    <3> QED BY <3>1, <3>2
  <2>2. pendingOpk[x] \in BOOLEAN /\ budget.texts[x] > 0
    BY <1>2, <1>5 DEF WalletsSound, SendMessage
  <2>3. /\ m \in Message /\ \A z \in Waiting(y) : z.eph # r.dhs \/ z.n # r.ns
        /\ Together(t, f, Waiting(x), Waiting(y) \cup {m}, budget.texts[x] - 1,
                    budget.texts[y])
        /\ t.dhs = r.dhs /\ t.dhr = r.dhr /\ t.skipped = r.skipped
    <3>1. Together(r, f, Waiting(x), Waiting(y), budget.texts[x], budget.texts[y])
      BY <2>1
    <3>2. ~r.rotate /\ pendingOpk[x] \in BOOLEAN /\ budget.texts[x] > 0 BY <2>1, <2>2
    <3>3. /\ m \in Message
          /\ Together(t, f, Waiting(x), Waiting(y) \cup {m}, budget.texts[x] - 1,
                      budget.texts[y])
      BY <1>3, <1>4, <2>b, <2>c, <3>1, <3>2, SentAhead
    <3>4. \A z \in Waiting(y) : z.eph # r.dhs \/ z.n # r.ns
      <4> SUFFICES ASSUME NEW z \in Waiting(y), z.eph = r.dhs PROVE z.n # r.ns OBVIOUS
      <4>1. z.n < r.ns BY <3>1 DEF Together
      <4>2. z.n \in Nat BY <1>4 DEF Message
      <4>3. r.ns \in Nat BY <2>1, KeysTyped
      <4> QED BY <4>1, <4>2, <4>3
    <3>5. t.dhs = r.dhs /\ t.dhr = r.dhr /\ t.skipped = r.skipped
      BY <2>1, <2>b, SentIs
    <3> QED BY <3>3, <3>4, <3>5
  <2>4. t \in Session BY <2>3 DEF Together
  <2>5. m.eph = r.dhs /\ m.n = r.ns BY <2>c DEF MessageOf
  <2>6. /\ WalletsSound' /\ disk'[x] = t /\ \A v \in User : v # x => disk'[v] = disk[v]
        /\ missed' = {}
        /\ budget'.opens \subseteq {a} /\ NoAsks(Peer(a))'
        /\ \A v \in User : NoAsks(v) => NoAsks(v)'
        /\ budget'.texts[x] = budget.texts[x] - 1
        /\ \A v \in User : v # x => budget'.texts[v] = budget.texts[v]
        /\ inbox' = inbox /\ mail' = [mail EXCEPT ![y] = @ \cup {m}]
        /\ \A key \in PublicKey : Known(key) => Known(key)'
        /\ l.rotate => \A key \in PublicKey : key = Fresh(x) => Known(key)'
    <3>1. t = Sent(Rotated(disk[x], Fresh(x))) BY <1>a, <2>a, <2>b
    <3>2. m = MessageOf(Rotated(disk[x], Fresh(x)), x, pendingOpk[x]) BY <1>a, <2>a, <2>c
    <3> QED BY <1>a, <1>5, <2>4, <3>1, <3>2, SendKeeps
  <2>7. t.dhs = l.dhs \/ Known(t.dhs)'
    <3>1. t.dhs \in PublicKey BY <2>4 DEF Session
    <3>2. CASE l.rotate /\ r.dhs = Fresh(x)
      <4>1. \A key \in PublicKey : key = Fresh(x) => Known(key)' BY <2>6, <3>2
      <4>2. t.dhs = Fresh(x) BY <2>3, <3>2
      <4> QED BY <3>1, <4>1, <4>2
    <3> QED BY <2>1, <2>3, <3>2
  <2>8. KnownSession(t)' /\ Known(t.dhs)'
    BY <1>1, <2>1, <2>3, <2>4, <2>6, <2>7, KnownStays
  <2>9. KnownSession(f)' BY <1>1, <2>6, KnownStays
  <2>10. Known(m.eph)' BY <2>3, <2>5, <2>8 DEF Known
  <2>11. \A z \in Waiting(y) : z.eph # m.eph \/ z.n # m.n BY <2>3, <2>5
  <2>12. /\ MailSound' /\ Waiting(y)' = Waiting(y) \cup {m}
         /\ \A v \in User : v # y => Waiting(v)' = Waiting(v)
    BY <1>0, <1>2, <2>3, <2>6, <2>10, <2>11, MailSent
  <2>13. /\ disk'[x] = t /\ disk'[y] = f /\ Waiting(x)' = Waiting(x)
         /\ budget'.texts[x] = budget.texts[x] - 1 /\ budget'.texts[y] = budget.texts[y]
    BY <1>0, <1>b, <2>6, <2>12
  <2>14. (KnownSession(disk[x]) /\ KnownSession(disk[y]))'
    BY <2>8, <2>9, <2>13 DEF KnownSession, Known
  <2>15. Together(disk[x], disk[y], Waiting(x), Waiting(y),
                  budget.texts[x], budget.texts[y])'
    BY <2>3, <2>12, <2>13
  <2>16. Paired(x)' BY <2>14, <2>15 DEF Paired
  <2> QED BY <2>6, <2>12, <2>16 DEF InOrder
<1>6. CASE u = y
  <2>a. PICK t : t = Sent(f) OBVIOUS
  <2>b. PICK m : m = MessageOf(f, y, pendingOpk[y]) OBVIOUS
  <2>1. pendingOpk[y] \in BOOLEAN /\ budget.texts[y] > 0
    BY <1>0, <1>2, <1>6 DEF WalletsSound, SendMessage
  <2>2. /\ m \in Message /\ ~f.rotate
        /\ Together(l, t, Waiting(x) \cup {m}, Waiting(y), budget.texts[x],
                    budget.texts[y] - 1)
    <3>1. Together(l, f, Waiting(x), Waiting(y), budget.texts[x], budget.texts[y])
      BY <1>1
    <3> QED BY <1>0, <1>3, <1>4, <2>1, <2>a, <2>b, <3>1, SentBehind
  <2>3. t \in Session /\ t.dhs = f.dhs /\ t.dhr = f.dhr /\ t.skipped = f.skipped
    BY <1>1, <2>a, SentIs
  <2>4. m.eph = f.dhs /\ m.n = f.ns BY <2>b DEF MessageOf
  <2>5. Rotated(disk[y], Fresh(y)) = f BY <1>b, <2>2 DEF Rotated
  <2>6. /\ WalletsSound' /\ disk'[y] = t /\ \A v \in User : v # y => disk'[v] = disk[v]
        /\ missed' = {}
        /\ budget'.opens \subseteq {a} /\ NoAsks(Peer(a))'
        /\ \A v \in User : NoAsks(v) => NoAsks(v)'
        /\ budget'.texts[y] = budget.texts[y] - 1
        /\ \A v \in User : v # y => budget'.texts[v] = budget.texts[v]
        /\ inbox' = inbox /\ mail' = [mail EXCEPT ![x] = @ \cup {m}]
        /\ \A key \in PublicKey : Known(key) => Known(key)'
    <3>1. t = Sent(Rotated(disk[y], Fresh(y))) BY <2>5, <2>a
    <3>2. m = MessageOf(Rotated(disk[y], Fresh(y)), y, pendingOpk[y]) BY <2>5, <2>b
    <3> QED BY <1>0, <1>6, <2>3, <3>1, <3>2, SendKeeps
  <2>7. KnownSession(t)' /\ Known(t.dhs)' BY <1>1, <2>3, <2>6, KnownStays
  <2>8. KnownSession(l)' BY <1>1, <2>6, KnownStays
  <2>9. Known(m.eph)' BY <2>3, <2>4, <2>7 DEF Known
  <2>10. \A z \in Waiting(x) : z.eph # m.eph \/ z.n # m.n
    <3> SUFFICES ASSUME NEW z \in Waiting(x), z.eph = f.dhs PROVE z.n # f.ns BY <2>4
    <3>1. z.n < f.ns BY <1>1 DEF Together
    <3>2. z.n \in Nat /\ f.ns \in Nat BY <1>1, <1>4, KeysTyped DEF Message
    <3> QED BY <3>1, <3>2
  <2>11. /\ MailSound' /\ Waiting(x)' = Waiting(x) \cup {m}
         /\ \A v \in User : v # x => Waiting(v)' = Waiting(v)
    BY <1>2, <2>2, <2>6, <2>9, <2>10, MailSent
  <2>12. /\ disk'[x] = l /\ disk'[y] = t /\ Waiting(y)' = Waiting(y)
         /\ budget'.texts[x] = budget.texts[x] /\ budget'.texts[y] = budget.texts[y] - 1
    BY <1>0, <1>a, <2>6, <2>11
  <2>13. (KnownSession(disk[x]) /\ KnownSession(disk[y]))'
    BY <2>7, <2>8, <2>12 DEF KnownSession, Known
  <2>14. Together(disk[x], disk[y], Waiting(x), Waiting(y),
                  budget.texts[x], budget.texts[y])'
    BY <2>2, <2>11, <2>12
  <2>15. Paired(x)' BY <2>13, <2>14 DEF Paired
  <2> QED BY <2>6, <2>11, <2>15 DEF InOrder
<1> QED BY <1>0, <1>5, <1>6

\* A wallet sends only in a session.
LEMMA SendStep ==
  ASSUME NEW a \in User, InOrder(a), NEW u \in User, SendMessage(u) PROVE InOrder(a)'
<1>1. WalletsSound /\ (Apart \/ Opened(a) \/ \E x \in User : Paired(x)) BY DEF InOrder
<1>2. disk[u] # NoSession BY <1>1, GetSessionIs DEF SendMessage
<1>3. ~Apart BY <1>2 DEF Apart
<1>4. CASE Opened(a)
  <2>1. disk[Peer(a)] = NoSession BY <1>4 DEF Opened
  <2>2. u = a BY <1>2, <2>1, PeerIs
  <2> QED BY <1>4, <2>2, SendOpened
<1>5. CASE \E x \in User : Paired(x) BY <1>5, SendPaired
<1> QED BY <1>1, <1>3, <1>4, <1>5

\* What a wallet that reads a message changes, apart from its session.
LEMMA ReadKeeps ==
  ASSUME NEW a \in User, InOrder(a), NEW u \in User, ReadInSession(u),
         NEW m, m = Head(inbox[u]), NEW result, result = Decrypt(disk[u], m, Fresh(u)),
         result.outcome = "read", NEW t \in Session, t = result.session
  PROVE  /\ WalletsSound' /\ disk'[u] = t /\ \A v \in User : v # u => disk'[v] = disk[v]
         /\ MailSound' /\ Waiting(u)' = Waiting(u) \ {m}
         /\ \A v \in User : v # u => Waiting(v)' = Waiting(v)
         /\ missed' = {} /\ budget' = budget /\ asks' = asks
         /\ \A key \in PublicKey : Known(key) => Known(key)'
         /\ t.dhs = Fresh(u) => Known(t.dhs)'
<1>0. WalletsSound /\ MailSound /\ missed = {} BY DEF InOrder
<1>1. GetSession(u) = disk[u] BY <1>0, GetSessionIs
<1>2. /\ inbox[u] # <<>> /\ ram' = [ram EXCEPT ![u] = t] /\ disk' = [disk EXCEPT ![u] = t]
      /\ inbox' = [inbox EXCEPT ![u] = Tail(inbox[u])]
      /\ made' = [made EXCEPT ![u] = IF t.dhs = Fresh(u) THEN @ + 1 ELSE @]
      /\ missed' = missed
      /\ UNCHANGED <<pendingOpk, asks, mail, budget>>
  BY <1>1 DEF ReadInSession, Ended, keys
<1>3. made' = IF t.dhs = Fresh(u) THEN [made EXCEPT ![u] = @ + 1] ELSE made
  BY <1>0, <1>2 DEF WalletsSound
<1>4. /\ made' \in [User -> Nat] /\ \A key \in PublicKey : Known(key) => Known(key)'
      /\ made' # made => \A key \in PublicKey : key = Fresh(u) => Known(key)'
  BY <1>0, <1>3, KnownGrows
<1>5. t.dhs = Fresh(u) => Known(t.dhs)'
  <2> SUFFICES ASSUME t.dhs = Fresh(u) PROVE Known(t.dhs)' OBVIOUS
  <2>1. made' # made BY <1>0, <1>3 DEF WalletsSound
  <2>2. t.dhs \in PublicKey BY DEF Session
  <2> QED BY <1>4, <2>1, <2>2
<1>6. /\ MailSound' /\ Waiting(u)' = Waiting(u) \ {m}
      /\ \A v \in User : v # u => Waiting(v)' = Waiting(v)
  BY <1>0, <1>2, <1>4, MailTaken
<1>7. WalletsSound' /\ disk'[u] = t /\ \A v \in User : v # u => disk'[v] = disk[v]
  <2>1. pendingOpk' \in [User -> BOOLEAN] BY <1>0, <1>2 DEF WalletsSound
  <2>2. asks' \in [User -> [BOOLEAN -> Nat]]
    BY <1>0, <1>2 DEF WalletsSound
  <2>3. budget' \in [texts : [User -> Nat], opens : {budget'.opens},
                     restarts : {budget'.restarts}, losses : {budget'.losses}]
    BY <1>0, <1>2 DEF WalletsSound
  <2> QED BY <1>0, <1>2, <1>4, <2>1, <2>2, <2>3, SessionStored
<1> QED BY <1>0, <1>2, <1>4, <1>5, <1>6, <1>7

\* The first message of an answer is on its way to the wallet.
LEMMA HeadWaits ==
  ASSUME MailSound, NEW u \in User, inbox[u] # <<>>
  PROVE  Head(inbox[u]) \in Waiting(u)
<1>1. Sorted(mail[u], inbox[u]) BY DEF MailSound
<1> QED BY <1>1, SortedTake DEF Waiting

\* In step, whatever message is next is read: by the leader, by the other in its place,
\* or by the other that takes the lead.
LEMMA ReadsInStep ==
  ASSUME WalletsSound, MailSound, NEW x \in User, Paired(x)
  PROVE  LET y == Peer(x)
             l == disk[x]
             f == disk[y]
         IN  /\ \A m \in Waiting(x) :
                  LeadsOn(l, f, Waiting(x), Waiting(y), budget.texts[x], budget.texts[y],
                          m, Fresh(x))
             /\ \A m \in Waiting(y) :
                  \/ FollowsOn(l, f, Waiting(x), Waiting(y), budget.texts[x],
                               budget.texts[y], m, Fresh(y))
                  \/ ChangesPlaces(l, f, Waiting(x), Waiting(y), budget.texts[x],
                                   budget.texts[y], m, Fresh(y))
<1> PICK y : y = Peer(x) OBVIOUS
<1>a. PICK l : l = disk[x] OBVIOUS
<1>b. PICK f : f = disk[y] OBVIOUS
<1>0. y \in User BY PeerIs
<1>1. /\ KnownSession(l) /\ l \in Session
      /\ Together(l, f, Waiting(x), Waiting(y), budget.texts[x], budget.texts[y])
  BY <1>a, <1>b DEF Paired, Together
<1>2. Together(l, f, Waiting(x), Waiting(y), budget.texts[x], budget.texts[y]) BY <1>1
<1>3. budget.texts[x] \in Nat /\ budget.texts[y] \in Nat BY <1>0 DEF WalletsSound
<1>4. /\ Waiting(x) \in SUBSET Message /\ Waiting(y) \in SUBSET Message
      /\ NoTwins(Waiting(x)) /\ NoTwins(Waiting(y))
  BY <1>0, WaitingIs
<1>5. ASSUME NEW m \in Waiting(x)
      PROVE  LeadsOn(l, f, Waiting(x), Waiting(y), budget.texts[x], budget.texts[y], m,
                     Fresh(x))
  BY <1>2, <1>3, <1>4, ReadByLeader
<1>6. /\ Fresh(y) \in PublicKey /\ Fresh(y) # l.dhr /\ Fresh(y) # l.dhs
      /\ \A k \in Range(l.skipped) : k.dh # Fresh(y)
      /\ \A z \in Waiting(x) : z.eph # Fresh(y)
  <2>1. /\ Fresh(y) \in PublicKey
        /\ \A key \in PublicKey : Known(key) => key # Fresh(y)
    BY <1>0, FreshIsNew
  <2>2. \A k \in Range(l.skipped) : k.dh \in PublicKey /\ Known(k.dh)
    BY <1>1, KeysTyped DEF MessageKey, KnownSession
  <2>3. \A z \in Waiting(x) : Known(z.eph) /\ z.eph \in PublicKey BY WaitingIs
  <2>4. l.dhs \in PublicKey /\ l.dhr \in PublicKey /\ Known(l.dhs) /\ Known(l.dhr)
    BY <1>1 DEF Session, KnownSession
  <2> QED BY <2>1, <2>2, <2>3, <2>4
<1>7. ASSUME NEW m \in Waiting(y), ~Ahead(l, m)
      PROVE  FollowsOn(l, f, Waiting(x), Waiting(y), budget.texts[x], budget.texts[y], m,
                       Fresh(y))
  BY <1>2, <1>3, <1>4, <1>7, ReadBehind
<1>8. ASSUME NEW m \in Waiting(y), Ahead(l, m)
      PROVE  ChangesPlaces(l, f, Waiting(x), Waiting(y), budget.texts[x], budget.texts[y],
                           m, Fresh(y))
  BY <1>2, <1>3, <1>4, <1>6, <1>8, ReadAhead
<1> QED BY <1>5, <1>7, <1>8, <1>a, <1>b

\* In step, whatever message is next is read, and the two wallets stay in step.
LEMMA ReadPaired ==
  ASSUME NEW a \in User, InOrder(a), NEW u \in User, ReadInSession(u),
         NEW x \in User, Paired(x)
  PROVE  InOrder(a)'
<1> PICK y : y = Peer(x) OBVIOUS
<1>a. PICK l : l = disk[x] OBVIOUS
<1>b. PICK f : f = disk[y] OBVIOUS
<1>c. PICK m : m = Head(inbox[u]) OBVIOUS
<1>0. y \in User /\ y # x /\ Peer(y) = x /\ \A v \in User : v = x \/ v = y BY PeerIs
<1>1. /\ KnownSession(l) /\ KnownSession(f) /\ l \in Session /\ f \in Session
      /\ Together(l, f, Waiting(x), Waiting(y), budget.texts[x], budget.texts[y])
  BY <1>a, <1>b DEF Paired, Together
<1>2. /\ WalletsSound /\ MailSound
      /\ budget.opens \subseteq {a} /\ NoAsks(Peer(a))
  BY DEF InOrder
<1>5. m \in Waiting(u)
  <2>1. inbox[u] # <<>> BY DEF ReadInSession
  <2> QED BY <1>2, <1>c, <2>1, HeadWaits
<1>6. /\ l.dhs \in PublicKey /\ l.dhr \in PublicKey /\ f.dhs \in PublicKey
      /\ f.dhr \in PublicKey /\ Known(l.dhs) /\ Known(l.dhr) /\ Known(f.dhs)
      /\ Known(f.dhr)
  BY <1>1 DEF Session, KnownSession
<1>7. CASE u = x
  <2>1. PICK result : result = Decrypt(l, m, Fresh(x)) OBVIOUS
  <2>2. PICK t : t = result.session OBVIOUS
  <2>3. /\ result.outcome = "read"
        /\ Together(t, f, Waiting(x) \ {m}, Waiting(y), budget.texts[x], budget.texts[y])
        /\ t.dhs = l.dhs /\ t.dhr = l.dhr
        /\ \A k \in Range(t.skipped) : k \in Range(l.skipped) \/ k.dh = l.dhr
    <3>1. LeadsOn(l, f, Waiting(x), Waiting(y), budget.texts[x], budget.texts[y], m,
                  Fresh(x))
      BY <1>2, <1>a, <1>b, <1>5, <1>7, ReadsInStep
    <3> QED BY <2>1, <2>2, <3>1 DEF LeadsOn
  <2>4. t \in Session BY <2>3 DEF Together
  <2>5. /\ WalletsSound' /\ disk'[x] = t /\ \A v \in User : v # x => disk'[v] = disk[v]
        /\ MailSound' /\ Waiting(x)' = Waiting(x) \ {m}
        /\ \A v \in User : v # x => Waiting(v)' = Waiting(v)
        /\ missed' = {} /\ budget' = budget /\ asks' = asks
        /\ \A key \in PublicKey : Known(key) => Known(key)'
    BY <1>a, <1>c, <1>7, <2>1, <2>2, <2>3, <2>4, ReadKeeps
  <2>6. Known(l.dhr)' BY <1>6, <2>5
  <2>7. \A k \in Range(t.skipped) : k \in Range(l.skipped) \/ Known(k.dh)'
    BY <2>3, <2>6 DEF Known
  <2>8. KnownSession(t)' BY <1>1, <2>3, <2>4, <2>5, <2>7, KnownStays
  <2>9. KnownSession(f)' BY <1>1, <2>5, KnownStays
  <2>10. disk'[x] = t /\ disk'[y] = f /\ Waiting(y)' = Waiting(y)
    BY <1>0, <1>b, <2>5
  <2>11. (KnownSession(disk[x]) /\ KnownSession(disk[y]))'
    BY <2>8, <2>9, <2>10 DEF KnownSession, Known
  <2>12. Together(disk[x], disk[y], Waiting(x), Waiting(y),
                  budget.texts[x], budget.texts[y])'
    BY <2>3, <2>5, <2>10
  <2>13. Paired(x)' BY <1>1, <2>5, <2>11, <2>12 DEF Paired
  <2> QED BY <1>2, <2>5, <2>13 DEF InOrder, NoAsks
<1>8. CASE u = y
  <2>1. PICK result : result = Decrypt(f, m, Fresh(y)) OBVIOUS
  <2>2. PICK t : t = result.session OBVIOUS
  <2>3. ASSUME result.outcome = "read", t \in Session
        PROVE  /\ WalletsSound' /\ disk'[y] = t
               /\ \A v \in User : v # y => disk'[v] = disk[v]
               /\ MailSound' /\ Waiting(y)' = Waiting(y) \ {m}
               /\ \A v \in User : v # y => Waiting(v)' = Waiting(v)
               /\ missed' = {} /\ budget' = budget /\ asks' = asks
               /\ \A key \in PublicKey : Known(key) => Known(key)'
               /\ t.dhs = Fresh(y) => Known(t.dhs)'
    BY <1>0, <1>b, <1>c, <1>8, <2>1, <2>2, <2>3, ReadKeeps
  <2>4. CASE FollowsOn(l, f, Waiting(x), Waiting(y), budget.texts[x], budget.texts[y], m,
                       Fresh(y))
    <3>1. /\ result.outcome = "read"
          /\ Together(l, t, Waiting(x), Waiting(y) \ {m},
                      budget.texts[x], budget.texts[y])
          /\ t.dhs = f.dhs /\ t.dhr = f.dhr
          /\ \A k \in Range(t.skipped) : k \in Range(f.skipped) \/ k.dh = f.dhr
      BY <2>1, <2>2, <2>4 DEF FollowsOn
    <3>2. t \in Session BY <3>1 DEF Together
    <3>3. /\ WalletsSound' /\ disk'[y] = t
          /\ \A v \in User : v # y => disk'[v] = disk[v]
          /\ MailSound' /\ Waiting(y)' = Waiting(y) \ {m}
          /\ \A v \in User : v # y => Waiting(v)' = Waiting(v)
          /\ missed' = {} /\ budget' = budget /\ asks' = asks
          /\ \A key \in PublicKey : Known(key) => Known(key)'
      BY <2>3, <3>1, <3>2
    <3>4. Known(f.dhr)' BY <1>6, <3>3
    <3>5. \A k \in Range(t.skipped) : k \in Range(f.skipped) \/ Known(k.dh)'
      BY <3>1, <3>4 DEF Known
    <3>6. KnownSession(t)' BY <1>1, <3>1, <3>2, <3>3, <3>5, KnownStays
    <3>7. KnownSession(l)' BY <1>1, <3>3, KnownStays
    <3>8. disk'[x] = l /\ disk'[y] = t /\ Waiting(x)' = Waiting(x)
      BY <1>0, <1>a, <3>3
    <3>9. (KnownSession(disk[x]) /\ KnownSession(disk[y]))'
      BY <3>6, <3>7, <3>8 DEF KnownSession, Known
    <3>10. Together(disk[x], disk[y], Waiting(x), Waiting(y),
                    budget.texts[x], budget.texts[y])'
      BY <3>1, <3>3, <3>8
    <3>11. Paired(x)' BY <1>1, <3>3, <3>9, <3>10 DEF Paired
    <3> QED BY <1>2, <3>3, <3>11 DEF InOrder, NoAsks
  <2>5. CASE ChangesPlaces(l, f, Waiting(x), Waiting(y), budget.texts[x],
                           budget.texts[y], m, Fresh(y))
    <3>2. /\ result.outcome = "read"
          /\ Together(t, l, Waiting(y) \ {m}, Waiting(x),
                      budget.texts[y], budget.texts[x])
          /\ t.dhs = Fresh(y) /\ t.dhr = l.dhs
          /\ \A k \in Range(t.skipped) :
               k \in Range(f.skipped) \/ k.dh = f.dhr \/ k.dh = l.dhs
      BY <2>1, <2>2, <2>5 DEF ChangesPlaces
    <3>3. t \in Session BY <3>2 DEF Together
    <3>4. /\ WalletsSound' /\ disk'[y] = t
          /\ \A v \in User : v # y => disk'[v] = disk[v]
          /\ MailSound' /\ Waiting(y)' = Waiting(y) \ {m}
          /\ \A v \in User : v # y => Waiting(v)' = Waiting(v)
          /\ missed' = {} /\ budget' = budget /\ asks' = asks
          /\ \A key \in PublicKey : Known(key) => Known(key)'
          /\ t.dhs = Fresh(y) => Known(t.dhs)'
      BY <2>3, <3>2, <3>3
    <3>5. Known(f.dhr)' /\ Known(l.dhs)' BY <1>6, <3>4
    <3>6. \A k \in Range(t.skipped) : k \in Range(f.skipped) \/ Known(k.dh)'
      BY <3>2, <3>5 DEF Known
    <3>7. Known(t.dhs)' BY <3>2, <3>4
    <3>8. Known(t.dhr)' BY <3>2, <3>5 DEF Known
    <3>9. KnownSession(t)' BY <1>1, <3>3, <3>4, <3>6, <3>7, <3>8, KnownStays
    <3>10. KnownSession(l)' BY <1>1, <3>4, KnownStays
    <3>11. disk'[x] = l /\ disk'[y] = t /\ Waiting(x)' = Waiting(x)
      BY <1>0, <1>a, <3>4
    <3>12. (KnownSession(disk[x]) /\ KnownSession(disk[y]))'
      BY <3>9, <3>10, <3>11 DEF KnownSession, Known
    <3>13. Together(disk[y], disk[x], Waiting(y), Waiting(x),
                    budget.texts[y], budget.texts[x])'
      BY <3>2, <3>4, <3>11
    <3>14. Paired(y)' BY <1>0, <1>1, <3>4, <3>12, <3>13 DEF Paired
    <3> QED BY <1>0, <1>2, <3>4, <3>14 DEF InOrder, NoAsks
  <2>6. \/ FollowsOn(l, f, Waiting(x), Waiting(y), budget.texts[x], budget.texts[y], m,
                     Fresh(y))
        \/ ChangesPlaces(l, f, Waiting(x), Waiting(y), budget.texts[x],
                         budget.texts[y], m, Fresh(y))
    BY <1>2, <1>a, <1>b, <1>5, <1>8, ReadsInStep
  <2> QED BY <2>4, <2>5, <2>6
<1> QED BY <1>0, <1>7, <1>8

\* In step, decrypt never comes back with None.
LEMMA AlwaysRead ==
  ASSUME WalletsSound, MailSound, NEW x \in User, Paired(x), NEW u \in User,
         inbox[u] # <<>>
  PROVE  Decrypt(disk[u], Head(inbox[u]), Fresh(u)).outcome = "read"
<1>1. Head(inbox[u]) \in Waiting(u) BY HeadWaits
<1>2. u = x \/ u = Peer(x) BY PeerIs
<1>3. CASE u = x BY <1>1, <1>3, ReadsInStep DEF LeadsOn
<1>4. CASE u = Peer(x) BY <1>1, <1>4, ReadsInStep DEF FollowsOn, ChangesPlaces
<1> QED BY <1>2, <1>3, <1>4

\* A message is not tried again in a new session.
LEMMA AgainStep ==
  ASSUME NEW a \in User, InOrder(a), NEW u \in User, ReadAgain(u) PROVE FALSE
<1>1. /\ WalletsSound /\ MailSound
      /\ Apart \/ Opened(a) \/ \E x \in User : Paired(x)
  BY DEF InOrder
<1>2. /\ inbox[u] # <<>> /\ disk[u] # NoSession
      /\ Decrypt(disk[u], Head(inbox[u]), Fresh(u)).outcome = "none"
  BY <1>1, GetSessionIs DEF ReadAgain
<1>3. Head(inbox[u]) \in Waiting(u) BY <1>1, <1>2, HeadWaits
<1>4. ~Apart BY <1>2 DEF Apart
<1>5. ~Opened(a)
  <2> SUFFICES ASSUME Opened(a) PROVE FALSE OBVIOUS
  <2>1. disk[Peer(a)] = NoSession /\ Waiting(a) = {} BY DEF Opened
  <2>2. u = a BY <1>2, <2>1, PeerIs
  <2> QED BY <1>3, <2>1, <2>2
<1>6. \A x \in User : ~Paired(x) BY <1>1, <1>2, AlwaysRead
<1> QED BY <1>1, <1>4, <1>5, <1>6

\* A session as the responder is of known shape.
LEMMA ResponderIs ==
  ASSUME NEW from \in User, NEW eph \in PublicKey, NEW opk \in BOOLEAN,
         NEW spk \in PublicKey, NEW s, s = InitAsResponder(X3dh(from, eph, opk), eph, spk)
  PROVE  /\ s \in Session /\ s.ckr.root = s.rk /\ s.dhs = spk /\ s.dhr = eph
         /\ s.ns = 0 /\ s.nr = 0 /\ s.pn = 0 /\ s.skipped = <<>> /\ s.rotate
<1> DEFINE root == <<X3dh(from, eph, opk)>>
<1>1. X3dh(from, eph, opk) \in Secret BY DEF X3dh, Secret
<1>2. root \in Seq(Secret) BY <1>1
<1>3. Chain(root, "send") \in ChainKey /\ Chain(root, "recv") \in ChainKey
      /\ Chain(root, "send").root = root
  BY <1>2 DEF Chain, ChainKey
<1>4. s = [rk |-> root, cks |-> Chain(root, "recv"), ckr |-> Chain(root, "send"),
           dhs |-> spk, dhr |-> eph, ns |-> 0, nr |-> 0, pn |-> 0, skipped |-> <<>>,
           rotate |-> TRUE]
  BY DEF InitAsInitiator, InitAsResponder
<1>5. <<>> \in Seq(MessageKey) OBVIOUS
<1> HIDE DEF root
<1> QED BY <1>2, <1>3, <1>4, <1>5 DEF Session

\* The responder reads the first message that reaches it, and leads from then on.
TakesTheLead(new, s, toB, textsA, textsB, m, fresh) ==
  LET t == Decrypt(new, m, fresh).session
  IN  /\ Together(t, s, toB \ {m}, {}, textsB, textsA)
      /\ t.dhs = new.dhs /\ t.dhr = s.dhs /\ \A k \in Range(t.skipped) : k.dh = s.dhs

\* If the responder can read the first message that reaches it, its session leads.
LEMMA ReadFirst ==
  ASSUME NEW s \in Session, s.cks.root = s.rk, s.nr = 0, s.pn = 0, s.skipped = <<>>,
         ~s.rotate, NEW toB \in SUBSET Message, NoTwins(toB),
         NEW textsA \in Nat, NEW textsB \in Nat, s.ns + textsA <= MaxSkip,
         textsB <= MaxSkip, \A x \in toB : Ahead(s, x) /\ x.n < s.ns,
         NEW m \in toB, NEW fresh, NEW new \in Session, new.ckr.root = new.rk,
         new.dhr = m.eph, new.ns = 0, new.nr = 0, new.pn = 0, new.skipped = <<>>,
         new.rotate = TRUE, Decrypt(new, m, fresh).outcome = "read"
  PROVE  TakesTheLead(new, s, toB, textsA, textsB, m, fresh)
<1>a. PICK result : result = Decrypt(new, m, fresh) OBVIOUS
<1>b. PICK t : t = result.session OBVIOUS
<1>0. /\ m.eph = s.dhs /\ m.chain = s.cks /\ m.n < s.ns /\ m.n \in Nat
      /\ m \in Message
  BY DEF Ahead, Message
<1>1. /\ new \in Session /\ new.ckr.root = new.rk /\ new.dhr = s.dhs
      /\ new.ns = 0 /\ new.nr = 0 /\ new.pn = 0 /\ new.skipped = <<>> /\ new.rotate = TRUE
  BY <1>0
<1>2. Range(new.skipped) = {} /\ Len(new.skipped) = 0 /\ Range(s.skipped) = {}
      /\ Len(s.skipped) = 0
  BY <1>1 DEF Range
<1>3. s.ns \in Nat /\ MaxSkip \in Nat BY KeysTyped, ChatAssumption
<1>4. OneKeyPerId(new) /\ NoneToCome(new) /\ OneKeyPerId(s) /\ NoneToCome(s)
  BY <1>2 DEF OneKeyPerId, NoneToCome
<1>5. Fits(new, m.n)
  <2>1. SkippedTo(new, m.n) = m.n BY <1>0, <1>1 DEF SkippedTo
  <2>2. 0 + (m.n - 0) <= MaxSkip BY <1>0, <1>3
  <2> QED BY <1>1, <1>2, <2>1, <2>2 DEF Fits
<1>6. new.ckr = m.chain
  <2>1. Consumable(new, m) = {} BY <1>1, <1>2, NotSkipped
  <2>2. PICK ready : ready = SkipMessageKeys(new, m.n) OBVIOUS
  <2>3. ready.ckr = m.chain
    <3>1. result = DecryptNext(new, m, fresh) BY <1>a, <2>1 DEF Decrypt
    <3>2. result.outcome = IF ready.ckr = m.chain /\ ready.nr = m.n
                           THEN "read" ELSE "raised"
      BY <1>0, <1>1, <2>2, <3>1 DEF DecryptNext
    <3> QED BY <1>a, <3>2
  <2>4. PICK kept \in Seq(MessageKey) :
          SkipMessageKeys(new, m.n) = [new EXCEPT !.nr = SkippedTo(new, m.n),
                                                  !.skipped = kept]
    <3>1. m.n \in Nat /\ NoneToCome(new) BY <1>0, <1>4
    <3>2. \E kept \in Seq(MessageKey) :
            /\ SkipMessageKeys(new, m.n)
                 = [new EXCEPT !.nr = SkippedTo(new, m.n), !.skipped = kept]
            /\ Len(kept) = Len(new.skipped) + (SkippedTo(new, m.n) - new.nr)
            /\ Range(kept) = Range(new.skipped) \cup NewKeys(new, m.n)
      BY <1>5, <3>1, SkipIs
    <3> QED BY <3>2
  <2>5. ready.ckr = new.ckr BY <1>1, <2>2, <2>4 DEF Session
  <2> QED BY <2>3, <2>5
<1>7. new.rk = s.rk /\ new.ckr = s.cks BY <1>0, <1>1, <1>6
<1>8. Current(new, m) BY <1>0, <1>1, <1>6 DEF Current
<1>9. PICK kept \in Seq(MessageKey) :
        /\ t = Received(new, m.n + 1, kept)
        /\ Len(kept) = Len(new.skipped) + (m.n - new.nr)
        /\ Range(kept) = Range(new.skipped) \cup NewKeys(new, m.n)
  BY <1>0, <1>a, <1>b, <1>4, <1>5, <1>8, CurrentIsRead
<1>10. /\ t \in Session /\ OneKeyPerId(t) /\ NoneToCome(t)
       /\ t.rk = new.rk /\ t.cks = new.cks /\ t.ckr = new.ckr /\ t.dhs = new.dhs
       /\ t.dhr = new.dhr /\ t.ns = new.ns /\ t.pn = new.pn /\ t.rotate = new.rotate
       /\ t.nr = m.n + 1 /\ t.skipped = kept
       /\ \A k \in Range(t.skipped) : k \in Range(new.skipped) \/ k.dh = new.dhr
       /\ \A x \in Message : Kept(new, x) => Kept(t, x)
       /\ \A x \in Message : Current(new, x) /\ x.n # m.n => Kept(t, x) \/ Current(t, x)
  <2>1. m.n \in Nat /\ m.n >= new.nr BY <1>0, <1>1
  <2>2. OneKeyPerId(new) /\ NoneToCome(new) BY <1>4
  <2>3. /\ t = Received(new, m.n + 1, kept)
        /\ Range(kept) = Range(new.skipped) \cup NewKeys(new, m.n)
    BY <1>9
  <2> QED BY <2>1, <2>2, <2>3, PassedOver
<1>11. Leads(t, s) BY <1>1, <1>7, <1>10 DEF Leads
<1>12. LeaderFits(t, s, textsA)
  <2>1. t.nr = m.n + 1 /\ Len(t.skipped) = m.n BY <1>0, <1>1, <1>2, <1>9, <1>10
  <2>2. m.n + 1 <= s.ns /\ m.n + (s.ns - (m.n + 1)) + textsA <= MaxSkip BY <1>0, <1>3
  <2> QED BY <2>1, <2>2 DEF LeaderFits
<1>13. OtherFits(t, s, textsB) BY <1>1, <1>2, <1>3, <1>10 DEF OtherFits
<1>14. \A x \in toB \ {m} :
         (x.eph = s.dhs => x.n < s.ns) /\ (Kept(t, x) \/ Current(t, x))
  <2> SUFFICES ASSUME NEW x \in toB, x # m
               PROVE  x.n < s.ns /\ (Kept(t, x) \/ Current(t, x))
    OBVIOUS
  <2>1. x.eph = s.dhs /\ x.chain = s.cks /\ x.n < s.ns /\ x.n \in Nat
    BY DEF Ahead, Message
  <2>2. x.n # m.n BY <1>0, <2>1 DEF NoTwins
  <2>3. Current(new, x) BY <1>1, <1>7, <2>1 DEF Current
  <2> QED BY <1>10, <2>1, <2>2, <2>3
<1>15. Together(t, s, toB \ {m}, {}, textsB, textsA)
  BY <1>4, <1>10, <1>11, <1>12, <1>13, <1>14 DEF Together
<1>16. \A k \in Range(t.skipped) : k.dh = s.dhs BY <1>1, <1>2, <1>10
<1> QED BY <1>1, <1>10, <1>15, <1>16, <1>a, <1>b DEF TakesTheLead

\* The first message that the responder gets makes its session; or it cannot be read.
LEMMA ResponderStep ==
  ASSUME NEW a \in User, InOrder(a), NEW u \in User, ReadAsResponder(u)
  PROVE  Excused' \/ InOrder(a)'
<1>1. /\ WalletsSound /\ MailSound /\ missed = {} /\ budget.opens \subseteq {a}
      /\ NoAsks(Peer(a))
      /\ Apart \/ Opened(a) \/ \E x \in User : Paired(x)
  BY DEF InOrder
<1>2. inbox[u] # <<>> /\ disk[u] = NoSession BY <1>1, GetSessionIs DEF ReadAsResponder
<1>3. Head(inbox[u]) \in Waiting(u) BY <1>1, <1>2, HeadWaits
<1>4. PICK b : b = Peer(a) OBVIOUS
<1>5. b \in User /\ b # a /\ Peer(b) = a /\ \A v \in User : v = a \/ v = b BY <1>4, PeerIs
<1>6. Opened(a)
  <2>1. ~Apart BY <1>3 DEF Apart
  <2>2. \A x \in User : ~Paired(x)
    <3> SUFFICES ASSUME NEW x \in User, Paired(x) PROVE FALSE OBVIOUS
    <3>1. disk[x] \in Session /\ disk[Peer(x)] \in Session BY DEF Paired, Together
    <3>2. u = x \/ u = Peer(x) BY PeerIs
    <3> QED BY <1>2, <3>1, <3>2, ChatAssumption
  <2> QED BY <1>1, <2>1, <2>2
<1>7. PICK s : s = disk[a] OBVIOUS
<1>8. /\ s \in Session /\ KnownSession(s) /\ Waiting(a) = {} /\ joined = FALSE
      /\ s.cks.root = s.rk /\ s.nr = 0 /\ s.pn = 0 /\ s.skipped = <<>> /\ ~s.rotate
      /\ s.ns + budget.texts[a] <= MaxSkip /\ budget.texts[b] <= MaxSkip
      /\ \A x \in Waiting(b) : Ahead(s, x) /\ x.n < s.ns
  BY <1>4, <1>6, <1>7 DEF Opened
<1>9. u = b BY <1>3, <1>5, <1>8
<1>10. PICK m : m = Head(inbox[b]) OBVIOUS
<1>11. PICK new : new = Responder(b, m) OBVIOUS
<1>12. PICK result : result = Decrypt(new, m, Fresh(b)) OBVIOUS
<1>13. PICK t : t = result.session OBVIOUS
<1>14. /\ ram' = [ram EXCEPT ![b] = t]
       /\ disk' = [disk EXCEPT ![b] = IF result.outcome = "read" THEN t ELSE new]
       /\ Ended(b, m, result, IF result.outcome = "read" THEN Tail(inbox[b]) ELSE <<>>)
       /\ UNCHANGED <<pendingOpk, asks, mail, budget>>
  BY <1>9, <1>10, <1>11, <1>12, <1>13 DEF ReadAsResponder
<1>15. CASE result.outcome # "read"
  <2>1. missed' = missed \cup {[m |-> m, joined |-> joined]} BY <1>14, <1>15 DEF Ended
  <2>2. [m |-> m, joined |-> joined] \in missed' /\ ~[m |-> m, joined |-> joined].joined
    BY <1>8, <2>1
  <2> QED BY <2>2 DEF Excused
<1>16. CASE result.outcome = "read"
  <2>1. m \in Waiting(b) BY <1>3, <1>9, <1>10
  <2>2. /\ Waiting(b) \in SUBSET Message /\ NoTwins(Waiting(b)) BY <1>1, <1>5, WaitingIs
  <2>3. budget.texts[a] \in Nat /\ budget.texts[b] \in Nat
    BY <1>1, <1>5 DEF WalletsSound
  <2>4. PICK opk \in BOOLEAN :
          new = InitAsResponder(X3dh(m.from, m.eph, opk), m.eph, <<b, 0>>)
    <3>1. (m.opk /\ opkUnused[b]) \in BOOLEAN OBVIOUS
    <3> QED BY <1>11, <3>1 DEF Responder
  <2>5. <<b, 0>> \in PublicKey BY <1>5 DEF PublicKey
  <2>6. /\ Together(t, s, Waiting(b) \ {m}, {}, budget.texts[b], budget.texts[a])
        /\ t.dhs = <<b, 0>> /\ t.dhr = s.dhs /\ \A k \in Range(t.skipped) : k.dh = s.dhs
    <3>1. m.from \in User /\ m.eph \in PublicKey BY <2>1, <2>2 DEF Message
    <3>2. /\ new \in Session /\ new.ckr.root = new.rk /\ new.dhs = <<b, 0>>
          /\ new.dhr = m.eph /\ new.ns = 0 /\ new.nr = 0 /\ new.pn = 0
          /\ new.skipped = <<>> /\ new.rotate = TRUE
      BY <2>4, <2>5, <3>1, ResponderIs
    <3>3. Decrypt(new, m, Fresh(b)).outcome = "read" BY <1>12, <1>16
    <3>4. TakesTheLead(new, s, Waiting(b), budget.texts[a], budget.texts[b], m, Fresh(b))
      BY <1>8, <2>1, <2>2, <2>3, <3>2, <3>3, ReadFirst
    <3> QED BY <1>12, <1>13, <3>2, <3>4 DEF TakesTheLead
  <2>7. t \in Session BY <2>6 DEF Together
  <2>8. /\ ram' = [ram EXCEPT ![b] = t] /\ disk' = [disk EXCEPT ![b] = t]
        /\ inbox' = [inbox EXCEPT ![b] = Tail(inbox[b])]
        /\ made' = [made EXCEPT ![b] = IF t.dhs = Fresh(b) THEN @ + 1 ELSE @]
        /\ missed' = missed /\ budget' = budget /\ asks' = asks
        /\ UNCHANGED <<pendingOpk, mail>>
    BY <1>13, <1>14, <1>16 DEF Ended
  <2>9. made' = made \/ made' = [made EXCEPT ![b] = @ + 1]
    BY <1>1, <2>8 DEF WalletsSound
  <2>10. made' \in [User -> Nat] /\ \A key \in PublicKey : Known(key) => Known(key)'
    BY <1>1, <1>5, <2>9, KnownGrows
  <2>11. /\ MailSound' /\ Waiting(b)' = Waiting(b) \ {m}
         /\ \A v \in User : v # b => Waiting(v)' = Waiting(v)
    BY <1>1, <1>2, <1>5, <1>9, <1>10, <2>8, <2>10, MailTaken
  <2>12. WalletsSound' /\ disk'[b] = t /\ \A v \in User : v # b => disk'[v] = disk[v]
    <3>1. pendingOpk' \in [User -> BOOLEAN] BY <1>1, <2>8 DEF WalletsSound
    <3>2. asks' \in [User -> [BOOLEAN -> Nat]]
      BY <1>1, <2>8 DEF WalletsSound
    <3>3. budget' \in [texts : [User -> Nat], opens : {budget'.opens},
                       restarts : {budget'.restarts}, losses : {budget'.losses}]
      BY <1>1, <2>8 DEF WalletsSound
    <3> QED BY <1>1, <1>5, <2>7, <2>8, <2>10, <3>1, <3>2, <3>3, SessionStored
  <2>13. disk'[a] = s /\ Waiting(a)' = {} BY <1>5, <1>7, <1>8, <2>11, <2>12
  <2>14. KnownSession(s)' BY <1>8, <2>10, KnownStays
  <2>15. KnownSession(t)'
    <3>1. Known(s.dhs)' BY <2>14 DEF KnownSession
    <3>2. Known(t.dhs)'
      <4>1. made'[b] \in Nat BY <1>5, <2>10
      <4> QED BY <2>6, <4>1 DEF Known
    <3>3. Known(t.dhr)' BY <2>6, <3>1 DEF Known
    <3>4. \A k \in Range(t.skipped) : Known(k.dh)' BY <2>6, <3>1 DEF Known
    <3> QED BY <3>2, <3>3, <3>4 DEF KnownSession
  <2>16. (KnownSession(disk[b]) /\ KnownSession(disk[a]))'
    BY <2>12, <2>13, <2>14, <2>15 DEF KnownSession, Known
  <2>17. Together(disk[b], disk[a], Waiting(b), Waiting(a),
                  budget.texts[b], budget.texts[a])'
    BY <2>6, <2>8, <2>11, <2>12, <2>13
  <2>18. Paired(b)' BY <1>5, <2>16, <2>17 DEF Paired
  <2>19. NoAsks(Peer(a))' BY <1>1, <2>8 DEF NoAsks
  <2> QED BY <1>1, <1>5, <2>8, <2>11, <2>12, <2>18, <2>19 DEF InOrder
<1> QED BY <1>15, <1>16

\* A message of a user there is a session with.
LEMMA ReadStep ==
  ASSUME NEW a \in User, InOrder(a), NEW u \in User, ReadInSession(u) PROVE InOrder(a)'
<1>1. /\ WalletsSound /\ MailSound
      /\ Apart \/ Opened(a) \/ \E x \in User : Paired(x)
  BY DEF InOrder
<1>2. inbox[u] # <<>> /\ disk[u] # NoSession BY <1>1, GetSessionIs DEF ReadInSession
<1>3. Head(inbox[u]) \in Waiting(u) BY <1>1, <1>2, HeadWaits
<1>4. ~Apart BY <1>2 DEF Apart
<1>5. ~Opened(a)
  <2> SUFFICES ASSUME Opened(a) PROVE FALSE OBVIOUS
  <2>1. disk[Peer(a)] = NoSession /\ Waiting(a) = {} BY DEF Opened
  <2>2. u = a BY <1>2, <2>1, PeerIs
  <2> QED BY <1>3, <2>1, <2>2
<1> QED BY <1>1, <1>4, <1>5, ReadPaired

\* A message that nobody can read is never forgotten, nor that a session was replaced.
LEMMA MissedGrows == ASSUME ChatNext PROVE missed \subseteq missed' /\ (replaced => replaced')
<1>1. PICK u \in User :
        \/ EnsureSession(u) \/ ProcessPrekeyBundle(u) \/ SendMessage(u)
        \/ Lost(u) \/ Poll(u) \/ ReadInSession(u) \/ ReadAsResponder(u)
        \/ ReadAgain(u) \/ RestartWallet(u)
  BY DEF ChatNext
<1>2. CASE EnsureSession(u) BY <1>2 DEF EnsureSession
<1>3. CASE ProcessPrekeyBundle(u) BY <1>3 DEF ProcessPrekeyBundle
<1>4. CASE SendMessage(u) BY <1>4 DEF SendMessage
<1>5. CASE Lost(u) \/ Poll(u) BY <1>5 DEF Lost, Poll, keys
<1>6. CASE ReadInSession(u) BY <1>6 DEF ReadInSession, Ended, keys
<1>7. CASE ReadAsResponder(u) BY <1>7 DEF ReadAsResponder, Ended
<1>8. CASE ReadAgain(u) BY <1>8 DEF ReadAgain, Ended
<1>9. CASE RestartWallet(u) BY <1>9 DEF RestartWallet
<1> QED BY <1>1, <1>2, <1>3, <1>4, <1>5, <1>6, <1>7, <1>8, <1>9

\* Every behaviour starts in order.
LEMMA ChatStarts == ASSUME OneOpener, ChatInit PROVE ChatInv
<1>1. /\ ram = [u \in User |-> NoSession] /\ disk = [u \in User |-> NoSession]
      /\ pendingOpk = [u \in User |-> FALSE]
      /\ asks = [u \in User |-> [opk \in BOOLEAN |-> 0]]
      /\ made = [u \in User |-> 0] /\ mail = [u \in User |-> {}]
      /\ inbox = [u \in User |-> <<>>] /\ joined = FALSE /\ missed = {}
      /\ budget \in ChatBounds
  BY DEF ChatInit
<1>2. PICK a \in User : budget.opens \subseteq {a} BY <1>1 DEF OneOpener
<1>3. Peer(a) \in User BY PeerIs
<1>4. /\ \A u \in User : budget.texts[u] <= MaxSkip
      /\ budget \in [texts : [User -> Nat], opens : SUBSET User, restarts : Nat,
                     losses : Nat]
  BY <1>1, ChatAssumption DEF OneOpener
<1>5. \A u \in User : Waiting(u) = {} /\ Sorted(mail[u], inbox[u])
  BY <1>1 DEF Waiting, Sorted, Range
<1>6. MailSound
  <2>1. mail \in [User -> SUBSET Message] BY <1>1
  <2>2. inbox \in [User -> Seq(Message)]
    <3>1. <<>> \in Seq(Message) OBVIOUS
    <3> QED BY <1>1, <3>1
  <2> QED BY <1>5, <2>1, <2>2 DEF MailSound
<1>7. Apart BY <1>1, <1>4, <1>5 DEF Apart
<1>8. WalletsSound
  <2>1. budget \in [texts : [User -> Nat], opens : {budget.opens},
                    restarts : {budget.restarts}, losses : {budget.losses}]
    BY <1>4
  <2> QED BY <1>1, <2>1 DEF WalletsSound
<1>9. InOrder(a) BY <1>1, <1>2, <1>3, <1>6, <1>7, <1>8 DEF InOrder, NoAsks
<1> QED BY <1>9 DEF ChatInv

\* Every step keeps everything in order, unless it replaces a session or it is the
\* handshake that fails.
LEMMA ChatStep == ASSUME ChatInv, [ChatNext]_chatVars PROVE ChatInv'
<1>1. CASE Excused
  <2>1. missed \subseteq missed' /\ (replaced => replaced')
    <3>1. CASE ChatNext BY <3>1, MissedGrows
    <3>2. CASE UNCHANGED chatVars BY <3>2 DEF chatVars
    <3> QED BY <3>1, <3>2
  <2>2. Excused' BY <1>1, <2>1 DEF Excused
  <2> QED BY <2>2 DEF ChatInv
<1>2. ASSUME NEW a \in User, InOrder(a) PROVE ChatInv'
  <2>1. Excused' \/ InOrder(a)'
    <3>1. CASE UNCHANGED chatVars BY <1>2, <3>1, ChatStutters
    <3>2. ASSUME NEW u \in User,
                 \/ EnsureSession(u) \/ ProcessPrekeyBundle(u) \/ SendMessage(u)
                 \/ Lost(u) \/ Poll(u) \/ ReadInSession(u) \/ ReadAsResponder(u)
                 \/ ReadAgain(u) \/ RestartWallet(u)
          PROVE  Excused' \/ InOrder(a)'
      <4>1. CASE EnsureSession(u) BY <1>2, <4>1, EnsureStep
      <4>2. CASE ProcessPrekeyBundle(u) BY <1>2, <4>2, ProcessStep
      <4>3. CASE SendMessage(u) BY <1>2, <4>3, SendStep
      <4>4. CASE Lost(u) BY <1>2, <4>4, LostStep
      <4>5. CASE Poll(u) BY <1>2, <4>5, PollStep
      <4>6. CASE ReadInSession(u) BY <1>2, <4>6, ReadStep
      <4>7. CASE ReadAsResponder(u) BY <1>2, <4>7, ResponderStep
      <4>8. CASE ReadAgain(u) BY <1>2, <4>8, AgainStep
      <4>9. CASE RestartWallet(u) BY <1>2, <4>9, RestartStep
      <4> QED BY <3>2, <4>1, <4>2, <4>3, <4>4, <4>5, <4>6, <4>7, <4>8, <4>9
    <3> QED BY <3>1, <3>2 DEF ChatNext
  <2> QED BY <2>1 DEF ChatInv
<1> QED BY <1>1, <1>2 DEF ChatInv

\* The two ratchets stay in step as long as no session is replaced.
THEOREM RatchetsInStep == ASSUME OneOpener PROVE ChatSpec => []InStep
<1>1. ChatInit => ChatInv BY ChatStarts
<1>2. ChatInv /\ [ChatNext]_chatVars => ChatInv' BY ChatStep
<1>3. ChatInv => InStep BY DEF ChatInv, InOrder, Excused, InStep
<1> QED BY <1>1, <1>2, <1>3, PTL DEF ChatSpec
=============================================================================
