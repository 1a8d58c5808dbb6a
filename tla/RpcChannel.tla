------------------------------- MODULE RpcChannel -------------------------------
(***************************************************************************)
(* The encrypted channels a node keeps to one peer for its requests.  One  *)
(* request is in flight on a channel at a time: a thread takes the channel *)
(* out of the cache, uses it and puts it back, late answer or not; a       *)
(* thread that finds none, or gets no answer, opens one of its own.        *)
(***************************************************************************)
CONSTANTS Caller, Wire, NoWire   \* threads, channels

ASSUME NoWireIsNone == NoWire \notin Wire

VARIABLES
  cached,   \* _rpc_conn_cache[peer]
  using,    \* per thread: the channel its request is on
  stage     \* per thread: "idle", "cached", "fresh", or "again" before a second try
rpcVars == <<cached, using, stage>>

Spare(w) == cached # w /\ \A c \in Caller : using[c] # w

\* Mutant: the entry stays in the cache while it is used.
Taken_StaysCached == cached

\* cache.pop, under the cache's lock.
Taken == NoWire

\* rpc_request with a channel young enough: the request goes out on it.
Take(c) ==
  /\ stage[c] = "idle" /\ cached # NoWire
  /\ using' = [using EXCEPT ![c] = cached]
  /\ stage' = [stage EXCEPT ![c] = "cached"]
  /\ cached' = Taken

\* A channel that is too old is closed.
Expire(c) ==
  /\ stage[c] = "idle" /\ cached # NoWire
  /\ cached' = NoWire
  /\ UNCHANGED <<using, stage>>

\* _create_new_connection: a handshake, then the request.
Open(c, w) ==
  /\ \/ stage[c] = "idle" /\ cached = NoWire
     \/ stage[c] = "again"
  /\ Spare(w)
  /\ using' = [using EXCEPT ![c] = w]
  /\ stage' = [stage EXCEPT ![c] = "fresh"]
  /\ UNCHANGED cached

\* The peer cannot be reached.
OpenFails(c) ==
  /\ stage[c] = "again"
  /\ stage' = [stage EXCEPT ![c] = "idle"]
  /\ UNCHANGED <<cached, using>>

\* Whatever is read first is the answer; the channel goes to the cache, in the
\* place of what another thread has put there.
Reads(c) ==
  /\ stage[c] \in {"cached", "fresh"}
  /\ cached' = using[c]
  /\ using' = [using EXCEPT ![c] = NoWire]
  /\ stage' = [stage EXCEPT ![c] = "idle"]

\* recv returns nothing when the time is up: the channel goes back all the
\* same.  A request on an old channel is then made again on a new one.
TimesOut(c) ==
  /\ stage[c] \in {"cached", "fresh"}
  /\ cached' = using[c]
  /\ using' = [using EXCEPT ![c] = NoWire]
  /\ stage' = [stage EXCEPT ![c] = IF stage[c] = "cached" THEN "again" ELSE "idle"]

\* Sending or decrypting fails: the channel is closed.
Breaks(c) ==
  /\ stage[c] \in {"cached", "fresh"}
  /\ using' = [using EXCEPT ![c] = NoWire]
  /\ stage' = [stage EXCEPT ![c] = IF stage[c] = "cached" THEN "again" ELSE "idle"]
  /\ UNCHANGED <<cached>>

\* prefetch_peer_channel.
Prefetch(w) ==
  /\ Spare(w)
  /\ cached' = w
  /\ UNCHANGED <<using, stage>>

RpcInit ==
  /\ cached = NoWire
  /\ using = [c \in Caller |-> NoWire] /\ stage = [c \in Caller |-> "idle"]

RpcNext ==
  \/ \E c \in Caller : Take(c) \/ Expire(c) \/ OpenFails(c) \/ Reads(c)
                       \/ TimesOut(c) \/ Breaks(c) \/ \E w \in Wire : Open(c, w)
  \/ \E w \in Wire : Prefetch(w)

RpcSpec == RpcInit /\ [][RpcNext]_rpcVars

-----------------------------------------------------------------------------
RpcTypeOK ==
  /\ cached \in Wire \cup {NoWire}
  /\ using \in [Caller -> Wire \cup {NoWire}]
  /\ stage \in [Caller -> {"idle", "again", "cached", "fresh"}]

\* Frames are numbered per channel, so no two requests of a node may share
\* one: a channel is in the cache, or with one thread, whatever times out,
\* breaks or is dialled in the meantime.
ChannelExclusive ==
  /\ \A c \in Caller : using[c] # NoWire => using[c] # cached
  /\ \A c, d \in Caller : using[c] # NoWire /\ using[c] = using[d] => c = d
=============================================================================
