-------------------------------- MODULE ChatRelay --------------------------------
(***************************************************************************)
(* What a node keeps for the chat of its wallets: prekey bundles in LMDB,  *)
(* and in memory presence, mailboxes and the messages seen.  Every request *)
(* is a thread; chat_lock covers single steps of a request, and a wallet   *)
(* sends a request again when it has seen no answer.                       *)
(***************************************************************************)
EXTENDS Integers, Sequences, FiniteSets, FiniteSetsExt

CONSTANTS
  Address,         \* addresses of wallets
  Mid,             \* messages, by msg_id
  From, Dest,      \* per message: its sender and its recipient
  Opk, OpkOf,      \* one-time prekeys, and whose they are
  MailboxMax,      \* CFG.CHAT_MAILBOX_MAX
  GlobalQueueMax,  \* CFG.CHAT_GLOBAL_QUEUE_MAX
  OpkMax,          \* keys a bundle takes (10 in the code)
  SeenSenders,     \* senders the table of messages seen is to hold (2000)
  SeenMax,         \* self.chat_seen_max, messages it holds of a sender (512)
  SeenDropped,     \* senders a collection drops from it (1000)
  MailBounds       \* bounds, one chosen at the start: how often a request may
                   \* be made, by kind, and the addresses that deactivate
                   \* their chat (leavers)

ASSUME OpkAssumption == OpkOf \in [Opk -> Address]
ASSUME MailAssumption ==
  /\ IsFiniteSet(Address)
  /\ From \in [Mid -> Address] /\ Dest \in [Mid -> Address]
  /\ "rcpt" \notin Mid
  /\ SeenSenders \in Nat /\ SeenMax \in Nat \ {0} /\ SeenDropped \in Nat
  /\ MailBounds \subseteq
       [leavers : SUBSET Address, prepare : Nat, get : Nat, deactivate : Nat,
        send : Nat, read : Nat, expire : Nat, restart : Nat]

VARIABLES
  bundled,     \* addresses with a bundle in chat_prekeys
  opkList,     \* per address: the one-time prekeys of its bundle
  known,       \* addresses in chat_presence_pub
  spend,       \* addresses in chat_spend_pub
  coolingDown,     \* addresses in chat_deactivated_cd, not older than a day
  seenMid,     \* chat_seen_mid, per sender: its messages, oldest first
  seenOrder,   \* the senders in chat_seen_mid, in the order of the dict
  forgotten,   \* messages that were dropped from chat_seen_mid
  mailbox,     \* chat_mailbox, [what |-> message or receipt, expired |-> BOOLEAN]
  globalCount, \* chat_global_count
  writing,     \* <<kind, prekey>> of the registrations, publications and presence
               \* announcements that have passed their checks
  clearing,    \* addresses whose bundle a deactivation has deleted
  sending,     \* per message: the requests past dedup_mid
  accepted,    \* per message: the requests past all checks of chat_send
  receipts,    \* per message: the requests with the receipt still to be queued
  published,   \* per prekey: how often it was put in a bundle
  handed,      \* per prekey: how often it was handed out
  pulled,      \* per message: how often this run of the node handed it over
  requests     \* what is left of the bounds

mailVars == <<bundled, opkList, known, spend, coolingDown, seenMid, seenOrder,
              forgotten, mailbox, globalCount, writing, clearing, sending, accepted,
              receipts, published, handed, pulled, requests>>
seen == <<seenMid, seenOrder, forgotten>>
boxes == <<mailbox, globalCount>>
senders == <<sending, accepted, receipts>>
threads == <<writing, clearing, senders>>
bundles == <<bundled, opkList, published, handed>>
marks == <<known, spend, coolingDown, seen>>

Request(kind) ==
  /\ requests[kind] > 0
  /\ requests' = [requests EXCEPT ![kind] = @ - 1]

-----------------------------------------------------------------------------
(* The messages seen *)

Seen(m) == m \in Range(seenMid[From[m]])

\* What a step drops from chat_seen_mid is forgotten.
Forgets == forgotten' = forgotten \cup {m \in Mid : Seen(m) /\ ~Seen(m)'}

\* A new sender makes room in a table that holds too many: the oldest goes.  A full
\* queue of a sender loses its oldest message.
Note(m) ==
  LET a == From[m]
      full == Len(seenOrder) > SeenSenders /\ a \notin Range(seenOrder)
      table == IF full THEN [seenMid EXCEPT ![Head(seenOrder)] = <<>>] ELSE seenMid
      left == IF full THEN Tail(seenOrder) ELSE seenOrder
      ids == IF Len(table[a]) < SeenMax THEN table[a] ELSE Tail(table[a])
  IN  /\ seenMid' = [table EXCEPT ![a] = Append(ids, m)]
      /\ seenOrder' = IF a \in Range(left) THEN left ELSE Append(left, a)
      /\ Forgets

\* The collection drops the oldest senders of such a table.
TrimSeen ==
  LET old == IF Len(seenOrder) > SeenSenders
             THEN {i \in 1..Len(seenOrder) : i <= SeenDropped} ELSE {}
  IN  /\ seenMid' = [a \in Address |->
                       IF \E i \in old : seenOrder[i] = a THEN <<>> ELSE seenMid[a]]
      /\ seenOrder' = SubSeq(seenOrder, Cardinality(old) + 1, Len(seenOrder))
      /\ Forgets

-----------------------------------------------------------------------------
(* Bundles and presence *)

\* get_spend_pub, which remembers in chat_spend_pub what it finds in the bundle.
HasSpendPub(a) ==
  /\ a \in spend \cup bundled
  /\ spend' = spend \cup {a}

\* chat_register, chat_publish_prekeys and chat_presence up to their checks.
Prepare(kind, o) ==
  /\ Request("prepare")
  /\ <<kind, o>> \notin writing
  /\ OpkOf[o] \notin coolingDown
  /\ IF kind = "publish" THEN HasSpendPub(OpkOf[o]) ELSE UNCHANGED spend
  /\ writing' = writing \cup {<<kind, o>>}
  /\ UNCHANGED <<bundles, known, coolingDown, seen, boxes, clearing, senders, pulled>>

\* Their locked part: the bundle, with the prekey (none comes with an
\* announcement) unless it is there or there is no room.
PutBundle(kind, o) ==
  LET a == OpkOf[o]
      fits == /\ kind # "presence" /\ o \notin opkList[a]
              /\ Cardinality(opkList[a]) < OpkMax
  IN  /\ <<kind, o>> \in writing
      /\ writing' = writing \ {<<kind, o>>}
      /\ bundled' = bundled \cup {a}
      /\ known' = IF kind = "publish" THEN known ELSE known \cup {a}
      /\ spend' = IF kind = "publish" THEN spend ELSE spend \cup {a}
      /\ opkList' = IF fits THEN [opkList EXCEPT ![a] = @ \cup {o}] ELSE opkList
      /\ published' = IF fits THEN [published EXCEPT ![o] = @ + 1] ELSE published
      /\ UNCHANGED <<coolingDown, seen, boxes, clearing, senders, handed, pulled,
                     requests>>

\* chat_get_prekey: a bundle, with a prekey that leaves the list.
\* Mutant: the bundle without the prekey is not put back.
GetPrekey_NotPutBack(a) ==
  \E o \in opkList[a] :
    /\ a \in bundled
    /\ Request("get")
    /\ handed' = [handed EXCEPT ![o] = @ + 1]
    /\ UNCHANGED <<bundled, opkList, published, marks, boxes, threads, pulled>>
GetPrekey(a) ==
  \E o \in opkList[a] :
    /\ a \in bundled
    /\ Request("get")
    /\ opkList' = [opkList EXCEPT ![a] = @ \ {o}]
    /\ handed' = [handed EXCEPT ![o] = @ + 1]
    /\ UNCHANGED <<bundled, published, marks, boxes, threads, pulled>>

\* chat_deactivate: the bundle is deleted first.
DeleteBundle(a) ==
  /\ Request("deactivate") /\ a \in requests.leavers
  /\ a \notin clearing
  /\ bundled' = bundled \ {a}
  /\ opkList' = [opkList EXCEPT ![a] = {}]
  /\ clearing' = clearing \cup {a}
  /\ UNCHANGED <<published, handed, marks, boxes, writing, senders, pulled>>

\* The locked rest of chat_deactivate.
\* Mutant: the mailbox goes, its messages stay counted.
ClearRam_CountKept(a) ==
  /\ a \in clearing
  /\ clearing' = clearing \ {a}
  /\ known' = known \ {a} /\ spend' = spend \ {a}
  /\ seenMid' = [seenMid EXCEPT ![a] = <<>>]
  /\ seenOrder' = SelectSeq(seenOrder, LAMBDA b : b # a)
  /\ Forgets
  /\ mailbox' = [mailbox EXCEPT ![a] = <<>>]
  /\ coolingDown' = coolingDown \cup {a}
  /\ UNCHANGED <<bundles, globalCount, writing, senders, pulled, requests>>
ClearRam(a) ==
  /\ a \in clearing
  /\ clearing' = clearing \ {a}
  /\ known' = known \ {a} /\ spend' = spend \ {a}
  /\ seenMid' = [seenMid EXCEPT ![a] = <<>>]
  /\ seenOrder' = SelectSeq(seenOrder, LAMBDA b : b # a)
  /\ Forgets
  /\ globalCount' = IF globalCount < Len(mailbox[a]) THEN 0
                    ELSE globalCount - Len(mailbox[a])
  /\ mailbox' = [mailbox EXCEPT ![a] = <<>>]
  /\ coolingDown' = coolingDown \cup {a}
  /\ UNCHANGED <<bundles, writing, senders, pulled, requests>>

\* A day later the next request of the address drops the entry.
CooldownOver(a) ==
  /\ a \in coolingDown
  /\ coolingDown' = coolingDown \ {a}
  /\ UNCHANGED <<bundles, known, spend, seen, boxes, threads, pulled, requests>>

-----------------------------------------------------------------------------
(* Mailboxes *)

\* The queue from its first entry that has not expired on: what has expired is
\* taken from the front until such an entry is met.
Live(q) == {i \in 1..Len(q) : ~q[i].expired}
Pruned(q) == SubSeq(q, Min(Live(q) \cup {Len(q) + 1}), Len(q))

\* mailbox_put, locked: whatever comes of it, expired entries are dropped.
HasRoom(a) ==
  /\ Len(Pruned(mailbox[a])) < MailboxMax
  /\ globalCount - Len(mailbox[a]) + Len(Pruned(mailbox[a])) < GlobalQueueMax

MailboxPut(a, what) ==
  LET q == Pruned(mailbox[a])
      new == IF HasRoom(a) THEN Append(q, [what |-> what, expired |-> FALSE]) ELSE q
  IN  /\ mailbox' = [mailbox EXCEPT ![a] = new]
      /\ globalCount' = globalCount - Len(mailbox[a]) + Len(new)

\* chat_send, new or sent again: dedup_mid lets a message through once.
\* Mutant: a message is held back only while it is being handled.
DedupMid_NotedLater(m) ==
  /\ Request("send")
  /\ ~Seen(m) /\ sending[m] = 0
  /\ sending' = [sending EXCEPT ![m] = @ + 1]
  /\ UNCHANGED <<bundles, marks, boxes, writing, clearing, accepted, receipts, pulled>>
DedupMid(m) ==
  /\ Request("send")
  /\ ~Seen(m)
  /\ Note(m)
  /\ sending' = [sending EXCEPT ![m] = @ + 1]
  /\ UNCHANGED <<bundles, known, spend, coolingDown, boxes, writing, clearing, accepted,
                 receipts, pulled>>

Accepts(m) ==
  /\ From[m] \in known /\ From[m] \in spend \cup bundled
  /\ Dest[m] \in bundled

Accept(m) ==
  /\ sending[m] > 0 /\ Accepts(m)
  /\ sending' = [sending EXCEPT ![m] = @ - 1]
  /\ accepted' = [accepted EXCEPT ![m] = @ + 1]
  /\ spend' = spend \cup {From[m]}
  /\ UNCHANGED <<bundles, known, coolingDown, seen, boxes, writing, clearing, receipts,
                 pulled, requests>>

\* no_presence, no_spend_pub, recipient_not_registered.
Reject(m) ==
  /\ sending[m] > 0 /\ ~Accepts(m)
  /\ sending' = [sending EXCEPT ![m] = @ - 1]
  /\ UNCHANGED <<bundles, marks, boxes, writing, clearing, accepted, receipts, pulled,
                 requests>>

\* The message is put in its mailbox, or the mailbox is full.
Queue(m) ==
  /\ accepted[m] > 0
  /\ accepted' = [accepted EXCEPT ![m] = @ - 1]
  /\ receipts' = IF HasRoom(Dest[m]) THEN [receipts EXCEPT ![m] = @ + 1] ELSE receipts
  /\ MailboxPut(Dest[m], m)
  /\ UNCHANGED <<bundles, marks, writing, clearing, sending, pulled, requests>>

\* enqueue_rcpt "delivered", to the sender.
EnqueueRcpt(m) ==
  /\ receipts[m] > 0
  /\ receipts' = [receipts EXCEPT ![m] = @ - 1]
  /\ MailboxPut(From[m], "rcpt")
  /\ UNCHANGED <<bundles, marks, writing, clearing, sending, accepted, pulled, requests>>

\* chat_read: a receipt "read" of a known reader.
ChatRead(m) ==
  /\ Request("read")
  /\ pulled[m] > 0
  /\ HasSpendPub(Dest[m])
  /\ MailboxPut(From[m], "rcpt")
  /\ UNCHANGED <<bundles, known, coolingDown, seen, threads, pulled>>

\* chat_pull: mailbox_pull hands over the first n entries that have not expired.
ChatPull(a, n) ==
  LET q == Pruned(mailbox[a])
      k == IF Len(q) < n THEN Len(q) ELSE n
      out == {q[i].what : i \in {j \in 1..k : ~q[j].expired}}
  IN  /\ HasSpendPub(a)
      /\ mailbox[a] # <<>>
      /\ mailbox' = [mailbox EXCEPT ![a] = SubSeq(q, k + 1, Len(q))]
      /\ globalCount' = globalCount - Len(mailbox[a]) + Len(q) - k
      /\ pulled' = [m \in Mid |-> IF m \in out THEN pulled[m] + 1 ELSE pulled[m]]
      /\ UNCHANGED <<bundles, known, coolingDown, seen, threads, requests>>

Expires(a) ==
  /\ Request("expire")
  /\ \E i \in 1..Len(mailbox[a]) :
       /\ ~mailbox[a][i].expired
       /\ \A j \in 1..(i - 1) : mailbox[a][j].expired
       /\ mailbox' = [mailbox EXCEPT ![a][i].expired = TRUE]
  /\ UNCHANGED <<bundles, marks, globalCount, threads, pulled>>

\* gc_mailboxes, which the discovery loop calls: all of it under chat_lock.
GcMailboxes ==
  LET expired == [a \in Address |-> Len(mailbox[a]) - Len(Pruned(mailbox[a]))]
  IN  /\ mailbox' = [a \in Address |-> Pruned(mailbox[a])]
      /\ globalCount' = globalCount - SumFunction(expired)
      /\ TrimSeen
      /\ UNCHANGED <<bundles, known, spend, coolingDown, threads, pulled, requests>>

\* The node is restarted: only the bundles are left.
RestartNode ==
  /\ Request("restart")
  /\ known' = {} /\ spend' = {} /\ coolingDown' = {}
  /\ seenMid' = [a \in Address |-> <<>>] /\ seenOrder' = <<>> /\ forgotten' = {}
  /\ mailbox' = [a \in Address |-> <<>>] /\ globalCount' = 0
  /\ writing' = {} /\ clearing' = {}
  /\ sending' = [m \in Mid |-> 0] /\ accepted' = [m \in Mid |-> 0]
  /\ receipts' = [m \in Mid |-> 0] /\ pulled' = [m \in Mid |-> 0]
  /\ UNCHANGED bundles

-----------------------------------------------------------------------------
MailInit ==
  /\ bundled = {} /\ known = {} /\ spend = {} /\ coolingDown = {}
  /\ seenMid = [a \in Address |-> <<>>] /\ seenOrder = <<>> /\ forgotten = {}
  /\ opkList = [a \in Address |-> {}]
  /\ mailbox = [a \in Address |-> <<>>] /\ globalCount = 0
  /\ writing = {} /\ clearing = {}
  /\ sending = [m \in Mid |-> 0] /\ accepted = [m \in Mid |-> 0]
  /\ receipts = [m \in Mid |-> 0]
  /\ published = [o \in Opk |-> 0] /\ handed = [o \in Opk |-> 0]
  /\ pulled = [m \in Mid |-> 0]
  /\ requests \in MailBounds

MailNext ==
  \/ \E o \in Opk, kind \in {"register", "publish", "presence"} :
       Prepare(kind, o) \/ PutBundle(kind, o)
  \/ \E a \in Address : \/ GetPrekey(a) \/ DeleteBundle(a) \/ ClearRam(a)
                        \/ CooldownOver(a) \/ Expires(a)
                        \/ \E n \in 1..2 : ChatPull(a, n)
  \/ \E m \in Mid : \/ DedupMid(m) \/ Accept(m) \/ Reject(m) \/ Queue(m)
                    \/ EnqueueRcpt(m) \/ ChatRead(m)
  \/ GcMailboxes
  \/ RestartNode

MailSpec == MailInit /\ [][MailNext]_mailVars

\* chat_global_count, which every put, pull, collection and deactivation adjusts
\* by itself, is the number of entries in all mailboxes.
MailCount == globalCount = SumFunction([a \in Address |-> Len(mailbox[a])])

\* A one-time prekey is handed out no more often than it was published: never
\* to two wallets that ask at the same time.
OpkOnce == \A o \in Opk : handed[o] <= published[o]

\* A message that its wallet sends again, however the requests interleave, is
\* handed over once, as long as the node runs and the message is not dropped from
\* the messages seen: by the deactivation of its sender, or by a table that is full.
DeliveredOnce == \A m \in Mid : m \notin forgotten => pulled[m] <= 1
==================================================================================
