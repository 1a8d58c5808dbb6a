------------------------------- MODULE ChatSession -------------------------------
(***************************************************************************)
(* The chat of two wallets: how ChatManager opens a session with X3DH, and *)
(* what its double ratchet makes of messages that the relay hands over in  *)
(* any order, or not at all.                                               *)
(*                                                                         *)
(* Keys are what they were derived from.  A public key is <<user, number>>,*)
(* number 0 being the signed prekey; a root key is the sequence of secrets *)
(* it was derived from, first the X3DH secret and then the Diffie-Hellman  *)
(* secrets, each given by the two public keys; a chain is a root with the  *)
(* direction that tells the two first chains apart; a message key is a     *)
(* chain and an index.  A ciphertext opens under the key it was made with. *)
(***************************************************************************)
EXTENDS Naturals, Sequences, SequencesExt

CONSTANTS
  User,          \* the two wallets
  NoSession,     \* stands for the absence of a session
  MaxSkip,       \* CFG.CHAT_RATCHET_MAX_SKIP
  ChatBounds     \* bounds, one chosen at the start: [texts |-> per user how many
                 \* messages it sends, opens |-> the users that open a session,
                 \* restarts |-> restarts of a wallet, losses |-> lost messages]

VARIABLES
  ram,        \* per user: _sessions, for the other user
  disk,       \* per user: the session stored with the keystore
  pendingOpk, \* per user: _pending_used_opk
  bundleOpk,  \* per user: the relay holds a one-time prekey of it
  opkUnused,  \* per user: the private part of that prekey is not used yet
  asks,       \* per user: CHAT_GET_PREKEYs not answered, with and without a prekey
  stage,      \* per user: "send" within the callback that opened a session
  made,       \* per user: ratchet keys generated so far
  mail,       \* per user: the messages on their way to it
  inbox,      \* per user: the rest of the answer to CHAT_PULL it works through
  replaced,   \* an answer has replaced a session by another
  joined,     \* a message of the first session has been read by the other side
  missed,     \* messages read by nobody, and whether "joined" held by then
  budget      \* what is left of the bounds

chatVars == <<ram, disk, pendingOpk, bundleOpk, opkUnused, asks, stage, made, mail,
              inbox, replaced, joined, missed, budget>>
keys == <<pendingOpk, bundleOpk, opkUnused, asks, replaced>>

Peer(u) == CHOOSE v \in User : v # u

-----------------------------------------------------------------------------
(* RatchetSession *)

PublicKey == User \X Nat
Secret == [opener : User, eph : PublicKey, opk : BOOLEAN]
          \cup [exchanged : SUBSET PublicKey]
ChainKey == [root : Seq(Secret), way : {"send", "recv", "next"}]
MessageKey == [dh : PublicKey, n : Nat, chain : ChainKey]
Session ==
  [rk : Seq(Secret), cks : ChainKey, ckr : ChainKey, dhs : PublicKey, dhr : PublicKey,
   ns : Nat, nr : Nat, pn : Nat, rotate : BOOLEAN,
   skipped : Seq(MessageKey)]

ASSUME ChatAssumption ==
  /\ \E a, b \in User : a # b /\ User = {a, b}
  /\ MaxSkip \in Nat \ {0}
  /\ NoSession \notin Session
  /\ ChatBounds \subseteq [texts : [User -> Nat], opens : SUBSET User, restarts : Nat,
                           losses : Nat]

Chain(root, way) == [root |-> root, way |-> way]

\* The secret of an X3DH handshake: who opened it, its ephemeral key, and
\* whether a one-time prekey of the other side went into it.
X3dh(opener, eph, opk) == [opener |-> opener, eph |-> eph, opk |-> opk]

InitAsInitiator(secret, eph, spk) ==
  [rk |-> <<secret>>, cks |-> Chain(<<secret>>, "send"),
   ckr |-> Chain(<<secret>>, "recv"), dhs |-> eph, dhr |-> spk,
   ns |-> 0, nr |-> 0, pn |-> 0, skipped |-> <<>>, rotate |-> FALSE]

InitAsResponder(secret, eph, spk) ==
  [InitAsInitiator(secret, spk, eph) EXCEPT
     !.cks = Chain(<<secret>>, "recv"), !.ckr = Chain(<<secret>>, "send"),
     !.rotate = TRUE]

\* The secret of a Diffie-Hellman exchange, the same for both sides.
Dh(mine, theirs) == [exchanged |-> {mine, theirs}]

Derive(s, mine, theirs) == Append(s.rk, Dh(mine, theirs))

RotateSendChain(s, fresh) ==
  LET root == Derive(s, fresh, s.dhr)
  IN  [s EXCEPT !.dhs = fresh, !.pn = s.ns, !.ns = 0, !.rk = root,
                !.cks = Chain(root, "next"), !.rotate = FALSE]

\* _store_skipped: the oldest key makes room for a new one, which takes the place
\* of a key of the same id.
StoreSkipped(skipped, key) ==
  LET left == IF Len(skipped) >= MaxSkip THEN Tail(skipped) ELSE skipped
      at == {i \in DOMAIN left : left[i].dh = key.dh /\ left[i].n = key.n}
  IN  IF at = {} THEN Append(left, key)
      ELSE [i \in DOMAIN left |-> IF i \in at THEN key ELSE left[i]]

\* Mutant: stored under the index after the key was taken.
SkippedKey_OffByOne(s, i) == [dh |-> s.dhr, n |-> i + 1, chain |-> s.ckr]
SkippedKey(s, i) == [dh |-> s.dhr, n |-> i, chain |-> s.ckr]

SkipMessageKeys(s, until) ==
  LET added == [i \in 1..(until - s.nr) |-> SkippedKey(s, s.nr + i - 1)]
  IN  IF until <= s.nr THEN s
      ELSE [s EXCEPT !.nr = until, !.skipped = FoldLeft(StoreSkipped, s.skipped, added)]

DhRatchet(s, eph, fresh) ==
  LET received == Derive(s, s.dhs, eph)
      root == Append(received, Dh(fresh, eph))
  IN  [s EXCEPT !.pn = s.ns, !.ns = 0, !.nr = 0, !.rk = root, !.dhr = eph,
                !.ckr = Chain(received, "next"), !.dhs = fresh,
                !.cks = Chain(root, "next"), !.rotate = FALSE]

\* encrypt, on a session whose send chain has been rotated if that was due.
Rotated(s, fresh) == IF s.rotate THEN RotateSendChain(s, fresh) ELSE s
MessageOf(s, u, opk) ==
  [from |-> u, eph |-> s.dhs, pn |-> s.pn, n |-> s.ns, opk |-> opk,
   chain |-> s.cks]

Consumable(s, m) ==
  {i \in DOMAIN s.skipped : s.skipped[i].dh = m.eph /\ s.skipped[i].n = m.n}

\* decrypt with a skipped key: a wrong one is gone, and None comes back.
DecryptSkipped(s, m) ==
  LET at == CHOOSE i \in Consumable(s, m) : TRUE
  IN  [session |-> [s EXCEPT !.skipped = RemoveAt(@, at)],
       outcome |-> IF s.skipped[at].chain = m.chain THEN "read" ELSE "none"]

\* decrypt otherwise: a wrong key makes AESGCM raise, after the chains moved.
DecryptNext(s, m, fresh) ==
  LET turned == IF s.dhr = m.eph THEN s
                ELSE DhRatchet(SkipMessageKeys(s, m.pn), m.eph, fresh)
      ready == SkipMessageKeys(turned, m.n)
  IN  [session |-> [ready EXCEPT !.nr = @ + 1],
       outcome |-> IF ready.ckr = m.chain /\ ready.nr = m.n THEN "read" ELSE "raised"]

Decrypt(s, m, fresh) ==
  IF Consumable(s, m) # {} THEN DecryptSkipped(s, m) ELSE DecryptNext(s, m, fresh)

-----------------------------------------------------------------------------
(* ChatManager *)

Fresh(u) == <<u, made[u] + 1>>

\* _get_session: from memory, else from disk.
GetSession(u) == IF ram[u] # NoSession THEN ram[u] ELSE disk[u]

Persisted(u, s) ==
  /\ ram' = [ram EXCEPT ![u] = s]
  /\ disk' = [disk EXCEPT ![u] = s]

\* send_message of a user without a session: CHAT_GET_PREKEY hands out the one-time
\* prekey of the other, if there is one left.  Nothing remembers that the question has
\* been asked, so another message asks again.  (A user asks for no more sessions than
\* it has messages left.)
EnsureSession(u) ==
  LET opk == bundleOpk[Peer(u)]
  IN  /\ stage[u] = "idle" /\ inbox[u] = <<>>
      /\ u \in budget.opens /\ asks[u][TRUE] + asks[u][FALSE] < budget.texts[u]
      /\ GetSession(u) = NoSession
      /\ asks' = [asks EXCEPT ![u][opk] = @ + 1]
      /\ bundleOpk' = [bundleOpk EXCEPT ![Peer(u)] = FALSE]
      /\ UNCHANGED <<ram, disk, pendingOpk, opkUnused, stage, made, mail, inbox,
                     replaced, joined, missed, budget>>

\* _process_prekey_bundle when an answer is there; the message follows in the same
\* callback, which the window's thread runs to its end.  The session replaces one
\* that an earlier answer, or a poll, has made meanwhile.
ProcessPrekeyBundle(u) ==
  \E opk \in BOOLEAN :
    /\ stage[u] = "idle" /\ inbox[u] = <<>>
    /\ asks[u][opk] > 0 /\ budget.texts[u] > 0
    /\ asks' = [asks EXCEPT ![u][opk] = @ - 1]
    /\ stage' = [stage EXCEPT ![u] = "send"]
    /\ made' = [made EXCEPT ![u] = @ + 1]
    /\ replaced' = (replaced \/ GetSession(u) # NoSession)
    /\ Persisted(u, InitAsInitiator(X3dh(u, Fresh(u), opk), Fresh(u), <<Peer(u), 0>>))
    /\ pendingOpk' = [pendingOpk EXCEPT ![u] = IF opk THEN TRUE ELSE @]
    /\ UNCHANGED <<bundleOpk, opkUnused, mail, inbox, joined, missed, budget>>

\* _do_send_after_session, at once when there is a session already: encrypt, persist,
\* and off it goes.
SendMessage(u) ==
  LET s == Rotated(GetSession(u), Fresh(u))
  IN  /\ inbox[u] = <<>>
      /\ budget.texts[u] > 0
      /\ GetSession(u) # NoSession
      /\ stage' = [stage EXCEPT ![u] = "idle"]
      /\ made' = IF GetSession(u).rotate THEN [made EXCEPT ![u] = @ + 1] ELSE made
      /\ Persisted(u, [s EXCEPT !.ns = @ + 1])
      /\ mail' = [mail EXCEPT ![Peer(u)] = @ \cup {MessageOf(s, u, pendingOpk[u])}]
      /\ pendingOpk' = [pendingOpk EXCEPT ![u] = FALSE]
      /\ budget' = [budget EXCEPT !.texts[u] = @ - 1]
      /\ UNCHANGED <<bundleOpk, opkUnused, asks, inbox, replaced, joined, missed>>

\* A full mailbox, an expiry, an answer that does not arrive.
Lost(u) ==
  \E m \in mail[u] :
    /\ budget.losses > 0
    /\ mail' = [mail EXCEPT ![u] = @ \ {m}]
    /\ budget' = [budget EXCEPT !.losses = @ - 1]
    /\ UNCHANGED <<ram, disk, keys, stage, made, inbox, joined, missed>>

\* poll: the relay hands over one or two messages and forgets them.
Poll(u) ==
  \E m1, m2 \in mail[u] :
    /\ stage[u] # "send" /\ inbox[u] = <<>>
    /\ inbox' = [inbox EXCEPT ![u] = IF m1 = m2 THEN <<m1>> ELSE <<m1, m2>>]
    /\ mail' = [mail EXCEPT ![u] = @ \ {m1, m2}]
    /\ UNCHANGED <<ram, disk, keys, stage, made, joined, missed, budget>>

\* _init_responder_session: the one-time prekey counts if it is there unused.
Responder(u, m) ==
  InitAsResponder(X3dh(m.from, m.eph, m.opk /\ opkUnused[u]), m.eph, <<u, 0>>)

Consumed(u, m) == opkUnused' = [opkUnused EXCEPT ![u] = @ /\ ~m.opk]

\* What to do with the rest of the answer, once decrypt has come to an end.
Ended(u, m, result, rest) ==
  /\ inbox' = [inbox EXCEPT ![u] = rest]
  /\ made' = [made EXCEPT ![u] = IF result.session.dhs = Fresh(u) THEN @ + 1 ELSE @]
  /\ joined' = (joined \/ result.outcome = "read")
  /\ missed' = IF result.outcome = "read" THEN missed
               ELSE missed \cup {[m |-> m, joined |-> joined]}

\* _process_chat_items, a message of a user there is a session with.  Read, the
\* session is stored; raised, nothing is, and the rest of the answer goes with
\* the exception.
ReadInSession(u) ==
  LET m == Head(inbox[u])
      result == Decrypt(GetSession(u), m, Fresh(u))
  IN  /\ inbox[u] # <<>> /\ GetSession(u) # NoSession
      /\ result.outcome \in {"read", "raised"}
      /\ ram' = [ram EXCEPT ![u] = result.session]
      /\ disk' = IF result.outcome = "read" THEN [disk EXCEPT ![u] = result.session] ELSE disk
      /\ Ended(u, m, result, IF result.outcome = "read" THEN Tail(inbox[u]) ELSE <<>>)
      /\ UNCHANGED <<keys, stage, mail, budget>>

\* The first message of a user: a session as the responder, stored before the
\* message is tried.
ReadAsResponder(u) ==
  LET m == Head(inbox[u])
      new == Responder(u, m)
      result == Decrypt(new, m, Fresh(u))
  IN  /\ inbox[u] # <<>> /\ GetSession(u) = NoSession
      /\ Consumed(u, m)
      /\ ram' = [ram EXCEPT ![u] = result.session]
      /\ disk' = [disk EXCEPT ![u] = IF result.outcome = "read" THEN result.session ELSE new]
      /\ Ended(u, m, result, IF result.outcome = "read" THEN Tail(inbox[u]) ELSE <<>>)
      /\ UNCHANGED <<pendingOpk, bundleOpk, asks, stage, mail, replaced, budget>>

\* decrypt has come back with None.  A message that looks like a handshake is
\* tried in a new session as the responder; else it is left and the session in
\* memory only has lost a key.
ReadAgain(u) ==
  LET m == Head(inbox[u])
      first == Decrypt(GetSession(u), m, Fresh(u))
      again == m.opk \/ (m.pn = 0 /\ m.n = 0)
      new == Responder(u, m)
      result == IF again THEN Decrypt(new, m, Fresh(u)) ELSE first
  IN  /\ inbox[u] # <<>> /\ GetSession(u) # NoSession
      /\ first.outcome = "none"
      /\ IF again THEN Consumed(u, m) ELSE UNCHANGED opkUnused
      /\ ram' = [ram EXCEPT ![u] = result.session]
      /\ disk' = [disk EXCEPT ![u] = CASE result.outcome = "read" -> result.session
                                       [] result.outcome # "read" /\ again -> new
                                       [] OTHER -> @]
      /\ Ended(u, m, result, IF result.outcome = "raised" THEN <<>> ELSE Tail(inbox[u]))
      /\ UNCHANGED <<pendingOpk, bundleOpk, asks, stage, mail, replaced, budget>>

\* A wallet is closed and opened again: what was only in memory is gone.
RestartWallet(u) ==
  /\ budget.restarts > 0
  /\ budget' = [budget EXCEPT !.restarts = @ - 1]
  /\ ram' = [ram EXCEPT ![u] = NoSession]
  /\ asks' = [asks EXCEPT ![u] = [opk \in BOOLEAN |-> 0]]
  /\ stage' = [stage EXCEPT ![u] = "idle"]
  /\ inbox' = [inbox EXCEPT ![u] = <<>>]
  /\ pendingOpk' = [pendingOpk EXCEPT ![u] = FALSE]
  /\ UNCHANGED <<disk, bundleOpk, opkUnused, made, mail, replaced, joined, missed>>

-----------------------------------------------------------------------------
ChatInit ==
  /\ ram = [u \in User |-> NoSession]
  /\ disk = [u \in User |-> NoSession]
  /\ pendingOpk = [u \in User |-> FALSE]
  /\ bundleOpk \in {[u \in User |-> left] : left \in BOOLEAN}
  /\ opkUnused = bundleOpk
  /\ asks = [u \in User |-> [opk \in BOOLEAN |-> 0]]
  /\ stage = [u \in User |-> "idle"]
  /\ made = [u \in User |-> 0]
  /\ mail = [u \in User |-> {}]
  /\ inbox = [u \in User |-> <<>>]
  /\ replaced = FALSE
  /\ joined = FALSE
  /\ missed = {}
  /\ budget \in ChatBounds

ChatNext ==
  \E u \in User :
    \/ EnsureSession(u) \/ ProcessPrekeyBundle(u) \/ SendMessage(u)
    \/ Lost(u) \/ Poll(u) \/ ReadInSession(u) \/ ReadAsResponder(u)
    \/ ReadAgain(u) \/ RestartWallet(u)

ChatSpec == ChatInit /\ [][ChatNext]_chatVars

\* As long as no session is replaced by another, and if the first message that
\* reaches the responder can be read, the two ratchets stay in step: no message is
\* ever unreadable, in whatever order the relay hands them over, whichever of them are
\* lost, and whenever the wallets are restarted (with one side that opens the session,
\* and no more than MaxSkip messages outstanding).  What can go wrong is the
\* handshake: its one-time prekey is named by the first message only, and two messages
\* sent before the first answer is there open two sessions.
InStep ==
  (\E f \in missed : f.joined) => replaced \/ \E f \in missed : ~f.joined

\* A message that opens a session anew is read (triple_xdh.py:685,
\* "Self-healing: if decryption fails and message appears to be a new
\* handshake").
HandshakeHeals == \A f \in missed : f.m.pn # 0 \/ f.m.n # 0
==================================================================================
