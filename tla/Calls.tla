-------------------------------- MODULE Calls --------------------------------
(***************************************************************************)
(* The signalling of voice and video calls in the web backend              *)
(* (call_signaling_service.py): a connection per client, handled by a       *)
(* thread each, and the sessions of the calls, which they, the watchdog and *)
(* the heartbeat change under a lock.  What is asked of a node (is chat     *)
(* switched on there?) and what is sent to other clients happens outside    *)
(* the lock, so a handler is as many steps as it takes the lock.            *)
(*                                                                         *)
(* A call's number is chosen by its caller and used once.  Messages to the *)
(* clients, ICE candidates and the rate limits are left out, but for the    *)
(* offer: a handler that has passed its checks holds it until it registers. *)
(***************************************************************************)
EXTENDS Integers, FiniteSets

CONSTANTS Client,       \* the addresses of clients
          Socket,       \* the connections clients may open
          CallId,       \* the numbers of calls
          CallerOf,     \* per call: who makes it
          CalleeOf,     \* per call: whom
          Pushable,     \* the clients that can be woken by a push
          Nobody,       \* not a client
          NoSocket      \* not a connection

ASSUME CallAssumption ==
    /\ \A c \in CallId : CallerOf[c] \in Client /\ CalleeOf[c] \in Client
    /\ Nobody \notin Client /\ NoSocket \notin Socket

VARIABLES owner,        \* per connection: the client authenticated on it
          closed,       \* the connections closed
          client,       \* per client: its connection, NoSocket when there is none
          calls,        \* the sessions: a set of numbers (active_calls)
          phase,        \* per call: "new", "offering", "ringing", "connected", "ended"
          offered       \* the offers on their way through their handlers

callVars == << owner, closed, client, calls, phase, offered >>

Party(c) == {CallerOf[c], CalleeOf[c]}
CallsOf(a) == {c \in calls : a \in Party(c)}
Reachable(a) == client[a] # NoSocket /\ client[a] \notin closed

\* The sessions left when those of cs are removed and c is added.
Become(cs, c) ==
    /\ calls' = (calls \ cs) \cup c
    /\ phase' = [d \in CallId |-> IF d \in cs THEN "ended"
                                  ELSE IF d \in c THEN "offering" ELSE phase[d]]

----------------------------------------------------------------------------
\* AUTH_RESPONSE was verified: the connection takes the place of another.
Authenticate(s, a) ==
    /\ owner[s] = Nobody /\ s \notin closed
    /\ owner' = [owner EXCEPT ![s] = a]
    /\ client' = [client EXCEPT ![a] = s]
    /\ closed' = closed \cup ({client[a]} \ {NoSocket})
    /\ UNCHANGED << calls, phase, offered >>

\* A connection breaks, on either side.
Disconnect(s) ==
    /\ owner[s] # Nobody /\ s \notin closed
    /\ closed' = closed \cup {s}
    /\ UNCHANGED << owner, client, calls, phase, offered >>

\* The thread of a closed connection, or the heartbeat: all calls of its
\* client end, even those made on a connection that took its place.
CleanupClient(s) ==
    LET a == owner[s]
    IN  /\ a # Nobody /\ s \in closed
        /\ client' = IF client[a] = s THEN [client EXCEPT ![a] = NoSocket] ELSE client
        /\ Become(CallsOf(a), {})
        /\ UNCHANGED << owner, closed, offered >>

\* CALL_OFFER, up to the registration: no self-call, and the callee's chat is
\* switched on.
OfferArrives(c) ==
    /\ phase[c] = "new" /\ c \notin offered
    /\ CallerOf[c] # CalleeOf[c]
    /\ \E s \in Socket : owner[s] = CallerOf[c] /\ s \notin closed
    /\ offered' = offered \cup {c}
    /\ UNCHANGED << owner, closed, client, calls, phase >>

\* The registration.  A callee out of reach must have a push token, or
\* nothing is changed.  The caller's other calls are ended as stale; then a
\* callee in a call is busy.
Register_BusyFirst(c) ==
    LET b == CalleeOf[c]
    IN  /\ c \in offered /\ offered' = offered \ {c}
        /\ IF Reachable(b) \/ b \in Pushable
           THEN IF CallsOf(b) # {}
                THEN Become({}, {}) ELSE Become({}, {c})
           ELSE Become({}, {})
        /\ UNCHANGED << owner, closed, client >>

Register(c) ==
    LET b == CalleeOf[c]
        stale == CallsOf(CallerOf[c])
    IN  /\ c \in offered /\ offered' = offered \ {c}
        /\ IF Reachable(b) \/ b \in Pushable
           THEN Become(stale, IF CallsOf(b) \ stale # {} THEN {} ELSE {c})
           ELSE Become({}, {})
        /\ UNCHANGED << owner, closed, client >>

\* CALL_RINGING and CALL_ANSWER of the callee.
Ringing(c) ==
    /\ c \in calls /\ phase' = [phase EXCEPT ![c] = "ringing"]
    /\ UNCHANGED << owner, closed, client, calls, offered >>

Answered(c) ==
    /\ c \in calls /\ phase' = [phase EXCEPT ![c] = "connected"]
    /\ UNCHANGED << owner, closed, client, calls, offered >>

\* CALL_HANGUP or CALL_REJECT, of either side; the sender is not checked.
Hangup(c) ==
    /\ c \in calls /\ Become({c}, {})
    /\ UNCHANGED << owner, closed, client, offered >>

\* The watchdog: no answer in time.
TimeoutOf(c) ==
    /\ c \in calls /\ phase[c] \in {"offering", "ringing"}
    /\ Become({c}, {})
    /\ UNCHANGED << owner, closed, client, offered >>

----------------------------------------------------------------------------
CallsInit ==
    /\ owner = [s \in Socket |-> Nobody] /\ closed = {}
    /\ client = [a \in Client |-> NoSocket]
    /\ calls = {} /\ phase = [c \in CallId |-> "new"] /\ offered = {}

CallsNext ==
    \/ \E s \in Socket : \/ \E a \in Client : Authenticate(s, a)
                         \/ Disconnect(s) \/ CleanupClient(s)
    \/ \E c \in CallId : \/ OfferArrives(c) \/ Register(c)
                         \/ Ringing(c) \/ Answered(c) \/ Hangup(c) \/ TimeoutOf(c)

CallsSpec == CallsInit /\ [][CallsNext]_callVars

\* No client is in two calls at once, whoever calls, answers, hangs up,
\* reconnects or is timed out at the same time.
OneCall == \A c, d \in calls : c # d => Party(c) \cap Party(d) = {}
=============================================================================
