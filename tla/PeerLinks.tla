------------------------------- MODULE PeerLinks -------------------------------
(***************************************************************************)
(* How nodes greet each other.  A node's discovery thread dials a peer,    *)
(* says HELLO and offers its mempool; the peer's handler answers the HELLO *)
(* and offers its own mempool back, dialling while it holds the lock of    *)
(* its Network.  The accept loop and the first frame of every connection   *)
(* need that same lock, so two nodes that greet each other wait for each   *)
(* other until a timeout ends it.                                          *)
(*                                                                         *)
(* A connection is [from, kind]: "hello" and "offer" are dialled by the    *)
(* discovery thread of from, "push" by a handler of from.  It goes to      *)
(* Dials[from].                                                            *)
(***************************************************************************)
EXTENDS Integers, FiniteSets

CONSTANTS
  Node,          \* nodes
  Dials,         \* Dials[n]: the peer n knows
  MaxPerIp,      \* CFG.MAX_INBOUND_PER_IP
  LinkBounds     \* bounds, one chosen at the start: [rounds, pool : [Node -> Nat]
                 \* discovery rounds, changes of a mempool, hangs : diallers that
                 \* fall silent]

Link == [from : Node, kind : {"hello", "offer", "push"}]
NoLink == [from |-> "none", kind |-> "none"]
To(c) == Dials[c.from]
HelloOf(n) == [from |-> n, kind |-> "hello"]
OfferOf(n) == [from |-> n, kind |-> "offer"]
PushOf(n) == [from |-> n, kind |-> "push"]

VARIABLES
  client,     \* per link: "idle", "waiting" (for HS2) or "asking" (a HELLO)
  server,     \* per link: "none", "backlog", "admitted", "reading", "counted",
              \* "asked" (a HELLO is on its way), "open", "serving", "pushing"
  silent,     \* links whose dialler has fallen silent
  netLock,    \* per node: the link whose handler holds Network.lock
  inbound,    \* per node: the connections counted of its peer's address
  left,       \* what is left of the bound
  poolSeq,    \* per node: mempool.change_seq
  pushedSeq   \* per node: _last_mempool_seq of its peer

linkVars == <<client, server, silent, netLock, inbound, left,
              poolSeq, pushedSeq>>
tables == <<inbound, left, poolSeq, pushedSeq>>

Free(n) == netLock[n] = NoLink
PushDue(n) == pushedSeq[n] # poolSeq[n]

-----------------------------------------------------------------------------
(* The dialling side *)

\* A socket connects to the backlog of a listening peer, and HS1 is sent.
Connects(c) ==
  /\ client' = [client EXCEPT ![c] = "waiting"]
  /\ server' = [server EXCEPT ![c] = "backlog"]

\* _attempt_hello, of a discovery round.
Dial(n) ==
  LET c == HelloOf(n) IN
  /\ client[c] = "idle" /\ client[OfferOf(n)] = "idle" /\ server[c] = "none"
  /\ left.rounds[n] > 0 /\ left' = [left EXCEPT !.rounds[n] = @ - 1]
  /\ Connects(c)
  /\ UNCHANGED <<silent, netLock, inbound, poolSeq, pushedSeq>>

\* send_mempool_to_peer, after a HELLO that was let through: what has been
\* pushed is noted however the push ends.
Offer(n) ==
  LET c == OfferOf(n) IN
  IF PushDue(n) /\ server[c] = "none"
  THEN /\ client' = [client EXCEPT ![HelloOf(n)] = "idle", ![c] = "waiting"]
       /\ server' = [server EXCEPT ![c] = "backlog"]
  ELSE /\ client' = [client EXCEPT ![HelloOf(n)] = "idle"]
       /\ UNCHANGED server

\* recv(1): an answer to HELLO, or none within a second; both count as found.
HelloDone(n) ==
  /\ client[HelloOf(n)] = "asking"
  /\ Offer(n)
  /\ UNCHANGED <<silent, netLock, inbound, left, poolSeq, pushedSeq>>

\* Mutant: the socket of a push has no timeout.
HandshakeFails_NotOfAPush(c) ==
  /\ client[c] = "waiting" /\ c.kind # "push"
  /\ client' = [client EXCEPT ![c] = "idle"]
  /\ UNCHANGED <<server, silent, netLock, inbound, left, poolSeq>>
  /\ pushedSeq' = IF c.kind = "hello" THEN pushedSeq
                  ELSE [pushedSeq EXCEPT ![c.from] = poolSeq[c.from]]

\* No HS2 within HANDSHAKE_TIMEOUT, or the connection was refused.
HandshakeFails(c) ==
  /\ client[c] = "waiting"
  /\ client' = [client EXCEPT ![c] = "idle"]
  /\ UNCHANGED <<server, silent, netLock, inbound, left, poolSeq>>
  /\ pushedSeq' = IF c.kind = "hello" THEN pushedSeq
                  ELSE [pushedSeq EXCEPT ![c.from] = poolSeq[c.from]]

\* The host of a dialler stops in the middle, and HS1 never comes.
FallSilent(c) ==
  /\ client[c] = "waiting" /\ server[c] = "backlog"
  /\ left.hangs > 0 /\ left' = [left EXCEPT !.hangs = @ - 1]
  /\ silent' = silent \cup {c}
  /\ UNCHANGED <<client, server, netLock, inbound, poolSeq, pushedSeq>>

-----------------------------------------------------------------------------
(* The answering side *)

\* start_server: the accept loop counts under the lock, of the connections
\* whose handler has got that far, and refuses what is too much.
Accept(c) ==
  /\ server[c] = "backlog" /\ Free(To(c))
  /\ server' = [server EXCEPT ![c] =
                  IF inbound[To(c)] >= MaxPerIp THEN "none" ELSE "admitted"]
  /\ UNCHANGED <<client, silent, netLock, tables>>

\* _setup_connection: the peer is counted, and its first frame read with the
\* lock held.
Setup(c) ==
  /\ server[c] = "admitted" /\ Free(To(c))
  /\ server' = [server EXCEPT ![c] = "reading"]
  /\ netLock' = [netLock EXCEPT ![To(c)] = c]
  /\ inbound' = [inbound EXCEPT ![To(c)] = @ + 1]
  /\ UNCHANGED <<client, silent, left, poolSeq, pushedSeq>>

FirstFrame(c) ==
  /\ server[c] = "reading" /\ c \notin silent
  /\ server' = [server EXCEPT ![c] = "counted"]
  /\ netLock' = [netLock EXCEPT ![To(c)] = NoLink]
  /\ UNCHANGED <<client, silent, tables>>

\* _teardown_connection takes the lock once more.
TornDown(c) ==
  /\ inbound' = [inbound EXCEPT ![To(c)] = @ - 1]
  /\ server' = [server EXCEPT ![c] = "none"]

\* sniff_first_json_frame gives up after HANDSHAKE_TIMEOUT.
NoFirstFrame(c) ==
  /\ server[c] = "reading" /\ c \in silent
  /\ TornDown(c)
  /\ netLock' = [netLock EXCEPT ![To(c)] = NoLink]
  /\ silent' = silent \ {c}
  /\ UNCHANGED <<client, left, poolSeq, pushedSeq>>

\* hs_server_from_obj; the dialler goes on if it still waits.  A push is over
\* once its message is sent, for nobody reads an answer.
Handshake(c) ==
  /\ server[c] = "counted"
  /\ server' = [server EXCEPT ![c] = IF c.kind = "hello" /\ client[c] = "waiting"
                                    THEN "asked" ELSE "open"]
  /\ IF client[c] = "waiting"
     THEN /\ client' = [client EXCEPT ![c] = IF c.kind = "hello" THEN "asking" ELSE "idle"]
          /\ pushedSeq' = IF c.kind = "hello" THEN pushedSeq
                          ELSE [pushedSeq EXCEPT ![c.from] = poolSeq[c.from]]
     ELSE UNCHANGED <<client, pushedSeq>>
  /\ UNCHANGED <<silent, netLock, inbound, left, poolSeq>>

\* handle_hello: with the lock held, the peer is entered and the mempool is
\* pushed to it over a connection of its own.
Serve(c) ==
  LET n == To(c) IN
  /\ server[c] = "asked" /\ Free(n)
  /\ netLock' = [netLock EXCEPT ![n] = c]
  /\ IF PushDue(n) /\ client[PushOf(n)] = "idle" /\ server[PushOf(n)] = "none"
     THEN /\ client' = [client EXCEPT ![PushOf(n)] = "waiting"]
          /\ server' = [server EXCEPT ![c] = "pushing", ![PushOf(n)] = "backlog"]
     ELSE /\ server' = [server EXCEPT ![c] = "serving"]
          /\ UNCHANGED client
  /\ UNCHANGED <<silent, tables>>

\* The push has ended, well or not: the lock is given back and the HELLO
\* answered.  The dialler may have stopped waiting for it.
Answer(c) ==
  LET n == To(c) IN
  /\ \/ server[c] = "serving"
     \/ server[c] = "pushing" /\ client[PushOf(n)] = "idle"
  /\ server' = [server EXCEPT ![c] = "open"]
  /\ netLock' = [netLock EXCEPT ![n] = NoLink]
  /\ UNCHANGED <<client, silent, tables>>

\* The dialler is done, or closes what it had kept in its cache.
Teardown(c) ==
  /\ server[c] = "open" /\ client[c] = "idle" /\ Free(To(c))
  /\ TornDown(c)
  /\ UNCHANGED <<client, silent, netLock, left, poolSeq, pushedSeq>>

PoolChanges(n) ==
  /\ left.pool[n] > 0 /\ left' = [left EXCEPT !.pool[n] = @ - 1]
  /\ poolSeq' = [poolSeq EXCEPT ![n] = @ + 1]
  /\ UNCHANGED <<client, server, silent, netLock, inbound, pushedSeq>>

-----------------------------------------------------------------------------
(* The specification *)

LinksInit ==
  /\ client = [c \in Link |-> "idle"] /\ server = [c \in Link |-> "none"]
  /\ silent = {} /\ netLock = [n \in Node |-> NoLink]
  /\ inbound = [n \in Node |-> 0]
  /\ left \in LinkBounds
  /\ poolSeq = [n \in Node |-> 0] /\ pushedSeq = [n \in Node |-> -1]

LinkSteps(c) ==
  \/ HandshakeFails(c) \/ Accept(c) \/ Setup(c) \/ FirstFrame(c)
  \/ NoFirstFrame(c) \/ Handshake(c) \/ Serve(c) \/ Answer(c) \/ Teardown(c)

LinksNext ==
  \/ \E c \in Link : LinkSteps(c) \/ FallSilent(c)
  \/ \E n \in Node : Dial(n) \/ HelloDone(n) \/ PoolChanges(n)

\* Timeouts fire and threads run; nobody is forced to dial or to answer in time.
LinksFairness ==
  /\ \A c \in Link :
       /\ WF_linkVars(HandshakeFails(c)) /\ WF_linkVars(NoFirstFrame(c))
       /\ WF_linkVars(FirstFrame(c)) /\ WF_linkVars(Answer(c))
  /\ \A n \in Node : WF_linkVars(HelloDone(n))

LinksSpec == LinksInit /\ [][LinksNext]_linkVars /\ LinksFairness

-----------------------------------------------------------------------------
(* Properties *)

\* Two nodes that greet each other, a silent dialler or a full backlog hold up
\* a dial and the lock of a node only until a timeout: time and again nobody
\* waits and no lock is held.
NobodyWaitsForever ==
  []<>(/\ \A c \in Link : client[c] = "idle"
       /\ \A n \in Node : Free(n))
=============================================================================
