----------------------------- MODULE MCNetwork -----------------------------
(***************************************************************************)
(* What nodes do over their connections on small instances: greeting a     *)
(* peer, syncing with it, asking it, and relaying a transaction.  One of   *)
(* the parts named by Parts moves in a behaviour and the others stay as    *)
(* they start.                                                             *)
(***************************************************************************)
EXTENDS PeerLinks, Sync, RpcChannel, Relay, TLC

CONSTANTS Parts,                \* the parts that are checked
          n1, n2,               \* links: two nodes that know each other
          u, v,                 \* sync: two nodes with chains of their own
          r1, r2, r3            \* relay: three nodes in a row

VARIABLE moving

\* Links: both greet, one falls silent, or a mempool changes between rounds.
MCDials == (n1 :> n2) @@ (n2 :> n1)
LOCAL B(d, e, f, g, h) == [rounds |-> n1 :> d @@ n2 :> e, pool |-> n1 :> f @@ n2 :> g,
                           hangs |-> h]
MCLinkBounds == {B(1, 1, 0, 0, 0), B(1, 0, 0, 0, 1), B(2, 0, 0, 1, 0)}

\* Sync: forks with a lost request, two of them, or a download for a gap.
MCOther == (u :> v) @@ (v :> u)
MCBrand == (u :> 1) @@ (v :> 2)
MCEffort == [l \in 0 .. 2 |-> IF l = 2 THEN 2 ELSE 1]
LOCAL S(d, e, f, g) == [mine |-> u :> d @@ v :> e, fails |-> f, gaps |-> g]
MCSyncBounds == {S(2, 1, 1, 0), S(3, 2, 0, 0), S(2, 1, 0, 1)}

\* Relay: the node in the middle has peers enough for Dandelion.
MCPeersOf == (r1 :> {r2}) @@ (r2 :> {r1, r3}) @@ (r3 :> {r2})

NetworkInit == /\ moving \in Parts
               /\ LinksInit /\ SyncInit /\ RpcInit /\ RelayInit
               /\ moving # "links" => left = CHOOSE b \in LinkBounds : TRUE
               /\ moving # "sync" => spare = CHOOSE b \in SyncBounds : TRUE

NetworkNext ==
    /\ UNCHANGED moving
    /\ \/ moving = "links" /\ LinksNext /\ UNCHANGED << syncVars, rpcVars, relayVars >>
       \/ moving = "sync" /\ SyncNext /\ UNCHANGED << linkVars, rpcVars, relayVars >>
       \/ moving = "rpc" /\ RpcNext /\ UNCHANGED << linkVars, syncVars, relayVars >>
       \/ moving = "relay" /\ RelayNext /\ UNCHANGED << linkVars, syncVars, rpcVars >>

\* SyncFairness where it is the sync that moves: its loop can always take a
\* step.  What the other parts are fair to cannot happen while they stay.
MovingSyncFairness ==
    /\ \A n \in Member : WF_syncVars(moving = "sync" /\ (Ask(n) \/ Answered(n)))
    /\ \A t \in Job : WF_syncVars(moving = "sync" /\ Progress(t))

NetworkSpec ==
    /\ NetworkInit
    /\ [][NetworkNext]_<< moving, linkVars, syncVars, rpcVars, relayVars >>
    /\ LinksFairness /\ MovingSyncFairness /\ RelayFairness
=============================================================================
