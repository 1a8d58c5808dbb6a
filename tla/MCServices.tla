----------------------------- MODULE MCServices -----------------------------
(***************************************************************************)
(* The services around the chain on small instances: graffiti contracts,   *)
(* chat sessions and chat relay, storage node, mining loop, calls, the     *)
(* start of a node, and the rules over headers.  None of them reads the    *)
(* state of another, so one of the parts named by Parts moves in a         *)
(* behaviour and the others stay as they start.                            *)
(***************************************************************************)
EXTENDS Graffiti, ChatSession, ChatRelay, Archivist, Miner, Calls, Bootstrap,
        HeaderRules, TLC

CONSTANTS Parts,                        \* the parts that are checked
          tp, tc, tx, ty, tz, art, sr,  \* graffiti: transactions, artwork, storer
          wa, wb,                       \* chat: two wallets
          w1, w2, m1, m2, m3, o1, o2,   \* chat relay: wallets, messages, prekeys
          p1, p2, p3, l1, l2, l3        \* calls: clients and calls

VARIABLE moving

allVars == << gvars, chatVars, mailVars, archVars, minerVars, callVars, bootVars,
              rulesVars >>

\* Graffiti: a post tp, a comment tc, the payouts tx and ty of epoch 0, tz of
\* epoch 1, for one storer.
MCOwner == [t \in Tx |-> art]
MCAmount == [t \in Tx |-> CASE t = tp -> 3 [] t = tc -> 2 [] t = tz -> 1 [] OTHER -> 0]
MCEvent == [t \in Tx |-> CASE t = tp -> "POST" [] t = tc -> "COMMENT" [] OTHER -> "PAYOUT"]
MCTakes == [t \in Tx |-> CASE t = tx -> {tp} [] t = ty -> {tc} [] t = tz -> {tp} [] OTHER -> {}]
MCContent == [t \in Tx |-> t]
MCEpoch == [t \in Tx |-> IF t = tz THEN 1 ELSE 0]
MCClaim == [t \in Tx |-> CASE t = tx -> 0 [] t = tz -> 1 [] OTHER -> -1]
MCStorer == [t \in Tx |-> sr]
MCPays == [t \in Tx |-> CASE t = tx -> 2 [] t = ty -> 1 [] t = tz -> 2 [] OTHER -> 0]
LOCAL L(h, r, k, q) == [height |-> h, reorgs |-> r, kills |-> k, requests |-> q]
MCGraffitiBounds == {L(2, 1, 1, FALSE), L(3, 1, 0, FALSE), L(2, 1, 0, TRUE)}

\* Chat: one wallet opens sessions, or both do at once.
LOCAL W(m, n, o, r, l) == [texts |-> wa :> m @@ wb :> n, opens |-> o, restarts |-> r,
                           losses |-> l]
MCChatOne == {W(3, 1, {wa}, 1, 1), W(2, 2, {wa}, 1, 1)}
MCChatBoth == {W(1, 1, {wa, wb}, 0, 0)}

\* Chat relay: two messages of w1 to w2, one of w2 to w1, a prekey
\* of each.
MCFrom == [m \in Mid |-> IF m = m3 THEN w2 ELSE w1]
MCDest == [m \in Mid |-> IF m = m3 THEN w1 ELSE w2]
MCOpkOf == (o1 :> w1) @@ (o2 :> w2)
LOCAL R(pr, g, d, n, r, e, rs) ==
    [leavers |-> {w2}, prepare |-> pr, get |-> g, deactivate |-> d, send |-> n,
     read |-> r, expire |-> e, restart |-> rs]
MCMailBounds == {R(2, 0, 0, 3, 0, 0, 0), R(2, 0, 1, 1, 0, 1, 0), R(2, 0, 0, 1, 1, 1, 0), R(3, 2, 1, 0, 0, 0, 1)}

\* Storage node: a proof may fail, answers may be lost, or the artwork is uploaded again.
LOCAL E(e, u, r, f, l) ==
    [epochs |-> e, uploads |-> u, restarts |-> r, failures |-> f, losses |-> l]
MCArchBounds == {E(2, 1, 0, 1, 0), E(1, 1, 0, 1, 1), E(0, 1, 1, 0, 1), E(1, 1, 1, 0, 0), E(0, 2, 1, 0, 0)}

\* Calls: each of three clients calls the next.
MCCallerOf == (l1 :> p1) @@ (l2 :> p2) @@ (l3 :> p3)
MCCalleeOf == (l1 :> p2) @@ (l2 :> p3) @@ (l3 :> p1)

\* Headers: the factors and ratios of config.py, and bits with the sign bit set, as
\* MAX_BITS has it; clocks that differ, or one clock and a long chain.
MCClampUp == [num |-> 3, den |-> 2]
MCClampDown == [num |-> 2, den |-> 5]
MCEdaTrigger == [num |-> 3, den |-> 1]
MCEdaEase == [num |-> 2, den |-> 1]
MCMaxBits == [exp |-> 11, mant |-> 63]
LOCAL P(p, i, h, c) ==
    [genesis |-> p > 0, premine |-> p, initial |-> i, halving |-> h, cap |-> c]
LOCAL H(s, n, d, k) == [schedule |-> s, length |-> n, delays |-> d, skews |-> k]
MCRulesBounds == {H(P(5, 8, 2, 30), 5, {0, 26}, {-6, 0, 8}),
                  H(P(5, 8, 2, 30), 4, {0, 4, 26}, {-6, 0, 8}),
                  H(P(0, 8, 2, 100), 10, {4}, {0}), H(P(5, 8, 2, 25), 10, {4}, {0}),
                  H(P(0, 5, 3, 16), 12, {4}, {0})}

ServicesInit == /\ moving \in Parts
                /\ GInit /\ ChatInit /\ MailInit /\ ArchInit /\ MinerInit /\ CallsInit
                /\ BootInit /\ RulesInit
                /\ moving # "graffiti" => limit = CHOOSE b \in GraffitiBounds : TRUE
                /\ moving # "chat" => \A u \in User : bundleOpk[u]
                /\ moving # "mail" => requests = CHOOSE b \in MailBounds : TRUE
                /\ moving # "rules" => rules = CHOOSE b \in RulesBounds : TRUE
                /\ moving # "archivist" => archLeft = CHOOSE b \in ArchBounds : TRUE

ServicesNext ==
    /\ UNCHANGED moving
    /\ \/ /\ moving = "graffiti" /\ GNext
          /\ UNCHANGED << chatVars, mailVars, archVars, minerVars,
                          callVars, bootVars, rulesVars >>
       \/ /\ moving = "chat" /\ ChatNext
          /\ UNCHANGED << gvars, mailVars, archVars, minerVars,
                          callVars, bootVars, rulesVars >>
       \/ /\ moving = "mail" /\ MailNext
          /\ UNCHANGED << gvars, chatVars, archVars, minerVars,
                          callVars, bootVars, rulesVars >>
       \/ /\ moving = "archivist" /\ ArchNext
          /\ UNCHANGED << gvars, chatVars, mailVars, minerVars,
                          callVars, bootVars, rulesVars >>
       \/ /\ moving = "miner" /\ MinerNext
          /\ UNCHANGED << gvars, chatVars, mailVars, archVars,
                          callVars, bootVars, rulesVars >>
       \/ /\ moving = "calls" /\ CallsNext
          /\ UNCHANGED << gvars, chatVars, mailVars, archVars,
                          minerVars, bootVars, rulesVars >>
       \/ /\ moving = "boot" /\ BootNext
          /\ UNCHANGED << gvars, chatVars, mailVars, archVars,
                          minerVars, callVars, rulesVars >>
       \/ /\ moving = "rules" /\ RulesNext
          /\ UNCHANGED << gvars, chatVars, mailVars, archVars,
                          minerVars, callVars, bootVars >>

ServicesSpec == ServicesInit /\ [][ServicesNext]_<< moving, allVars >>
=============================================================================
