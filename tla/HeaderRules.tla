----------------------------- MODULE HeaderRules -----------------------------
(***************************************************************************)
(* The rules over a block's time, difficulty bits and subsidy, which the   *)
(* node applies in two ways: validate_block to one block on the tip        *)
(* (consensus/validation.py), and _validate_complete_chain to a candidate   *)
(* chain from its genesis (consensus/chain_ops.py).  The retarget is that   *)
(* of consensus/difficulty.py, the emission that of consensus/rewards.py.   *)
(*                                                                         *)
(* A header holds its time, its bits and the subsidy its coinbase takes    *)
(* (the amount without the fees).  The sizes are parameters: a byte has     *)
(* ByteBits bits and a hash HashBytes bytes, so TLC can count with small    *)
(* numbers; the compact encoding keeps its three bytes with a sign bit.     *)
(***************************************************************************)
EXTENDS Integers, Sequences, FiniteSetsExt

CONSTANTS TargetTime,   \* TARGET_BLOCK_TIME
          LwmaWindow, EdaWindow, MtpWindows, FutureDrift,
          ClampUp, ClampDown, EdaTrigger, EdaEase,  \* fractions: [num, den]
          ByteBits, HashBytes,
          MaxBits,      \* MAX_BITS and INITIAL_BITS, which are equal
          RulesBounds   \* instances: schedule, length, delays and skews of clocks

Schedule == [genesis : BOOLEAN, premine : Nat, initial : Nat,
             halving : Nat \ {0}, cap : Nat]

ASSUME RulesAssumption ==
    /\ TargetTime \in Nat \ {0} /\ FutureDrift \in Nat
    /\ LwmaWindow \in Nat \ {0, 1} /\ {EdaWindow, MtpWindows} \subseteq Nat \ {0}
    /\ \A r \in RulesBounds : /\ r.schedule \in Schedule /\ r.length \in Nat
                               /\ r.delays \subseteq Nat /\ r.skews \subseteq Int

VARIABLES headers,      \* the chain
          clock,        \* this node's time
          rules         \* the member of RulesBounds explored

rulesVars == << headers, clock, rules >>

----------------------------------------------------------------------------
(* Emission: RewardCalculator; a schedule s stands for the constants of       *)
(* config.py, with GENESIS_REWARD in genesis.                                *)

\* INITIAL_REWARD // 2 ** e.
Halved(initial) ==
    LET f[e \in 0 .. 63] == IF e = 0 THEN initial ELSE f[e - 1] \div 2 IN f

\* scheduled_reward: the premine at height 0, halvings, nothing after the 64th.
Scheduled(s, h) ==
    IF h = 0 /\ s.genesis THEN s.premine
    ELSE IF h \div s.halving >= 64 THEN 0
    ELSE Halved(s.initial)[h \div s.halving]

AtMost(x, y) == IF x < y THEN x ELSE y
AtLeast(x, y) == IF x < y THEN y ELSE x

\* Mutant: an epoch is taken to end one block late.
AddEpoch_Late(s, h, e, before) ==
    LET first  == AtLeast(1, e * s.halving)
        blocks == AtLeast(0, AtMost(h, (e + 1) * s.halving + 1) - first)
        reward == Scheduled(s, first)
    IN  IF reward <= 0 \/ before >= s.cap THEN before
        ELSE before + blocks * reward

\* The blocks of epoch e that are below height h, after the one at height 0.
AddEpoch(s, h, e, before) ==
    LET first  == AtLeast(1, e * s.halving)
        blocks == AtLeast(0, AtMost(h, (e + 1) * s.halving) - first)
        reward == Scheduled(s, first)
    IN  IF reward <= 0 \/ before >= s.cap THEN before
        ELSE before + blocks * reward

\* cumulative_supply_until: an epoch at once; no more is added when a reward is 0
\* or the cap is reached.
EpochTotals(s, h) ==
    LET f[e \in 0 .. (h - 1) \div s.halving] ==
          AddEpoch(s, h, e, IF e = 0 THEN Scheduled(s, 0) ELSE f[e - 1])
    IN  f

SupplyUntil(s, h) ==
    IF h <= 0 THEN 0
    ELSE AtMost(EpochTotals(s, h)[(h - 1) \div s.halving], s.cap)

\* get_block_reward, and what _verify_block_fees_and_rewards expects.
BlockReward(s, h) ==
    AtMost(Scheduled(s, h), AtLeast(0, s.cap - SupplyUntil(s, h)))

----------------------------------------------------------------------------
(* Bits and targets: bits_to_target and its kin in utils/helpers.py *)

SignBit == 2 ^ (3 * ByteBits - 1)
HashSpace == 2 ^ (ByteBits * HashBytes)
Shift(bytes) == 2 ^ (ByteBits * bytes)

TargetOf(bits) ==
    IF bits.exp >= 3 THEN (bits.mant % SignBit) * Shift(bits.exp - 3)
                     ELSE (bits.mant % SignBit) \div Shift(3 - bits.exp)

\* target_to_bits: three leading bytes, a fourth if the first has its sign bit.
BitsOf(target) ==
    LET t     == AtLeast(1, target)
        size  == CHOOSE k \in 1 .. HashBytes + 1 : Shift(k - 1) <= t /\ t < Shift(k)
        mant  == IF size <= 3 THEN t * Shift(3 - size) ELSE t \div Shift(size - 3)
        fourth == size > 3 /\ mant >= SignBit
    IN  [exp  |-> IF size <= 3 THEN 3 ELSE IF fourth THEN size + 1 ELSE size,
         mant |-> (IF fourth THEN mant \div Shift(1) ELSE mant) % SignBit]

Difficulty(target) == HashSpace \div AtLeast(1, target)
TargetFor(difficulty) == AtLeast(1, HashSpace \div AtLeast(1, difficulty))
DifficultyOf(header) == AtLeast(1, Difficulty(TargetOf(header.bits)))
MaxTarget == TargetOf(MaxBits)

WorkOfHeaders(s) ==
    LET work(target) == IF target = 0 THEN 0 ELSE HashSpace \div (target + 1)
    IN  MapThenSumSet(LAMBDA i : work(TargetOf(s[i].bits)), DOMAIN s)

\* The easiest target has more than three bytes; the clamp and the easing of
\* config.py are what their names say, and EDA looks back no further than LWMA.
ASSUME RetargetAssumption ==
    /\ ByteBits \in Nat \ {0} /\ HashBytes \in Nat
    /\ MaxBits.exp \in 3 .. HashBytes /\ MaxBits.mant \in Nat /\ Shift(3) <= MaxTarget
    /\ EdaWindow <= LwmaWindow
    /\ \A f \in {ClampUp, ClampDown, EdaTrigger, EdaEase} :
         f.num \in Nat \ {0} /\ f.den \in Nat \ {0}
    /\ \A f \in {ClampUp, EdaTrigger, EdaEase} : f.num >= f.den
    /\ ClampDown.num <= ClampDown.den

----------------------------------------------------------------------------
(* Retarget: DifficultyManager *)

Window(s, n) == SubSeq(s, AtLeast(1, Len(s) - n + 1), Len(s))

\* Mutant: the weighted sum is divided by the number of intervals.
LwmaTarget_Unweighted(prefix) ==
    LET w     == Window(prefix, LwmaWindow)
        gaps  == 1 .. Len(w) - 1
        solve == [i \in gaps |->
                    AtLeast(1, AtMost(w[i + 1].ts - w[i].ts, 6 * TargetTime))]
        time  == SumFunctionOnSet([i \in gaps |-> i * solve[i]], gaps) \div (Len(w) - 1)
        hard  == [i \in gaps |-> DifficultyOf(w[i + 1])]
        mean  == SumFunctionOnSet(hard, gaps) \div (Len(w) - 1)
    IN  TargetFor((mean * TargetTime) \div AtLeast(1, time))

\* _calculate_lwma_target: the later an interval, the more it weighs; each is
\* cut to 1 .. 6 * TargetTime.
LwmaTarget(prefix) ==
    LET w     == Window(prefix, LwmaWindow)
        gaps  == 1 .. Len(w) - 1
        solve == [i \in gaps |->
                    AtLeast(1, AtMost(w[i + 1].ts - w[i].ts, 6 * TargetTime))]
        weights == (Len(w) * (Len(w) - 1)) \div 2
        time  == SumFunctionOnSet([i \in gaps |-> i * solve[i]], gaps) \div weights
        hard  == [i \in gaps |-> DifficultyOf(w[i + 1])]
        mean  == SumFunctionOnSet(hard, gaps) \div (Len(w) - 1)
    IN  TargetFor((mean * TargetTime) \div AtLeast(1, time))

Exceeds(x, y, fraction) == x * fraction.den > y * fraction.num
Times(x, fraction) == (x * fraction.num) \div fraction.den

\* _apply_diff_clamp, on the target (not on the difficulty).
Clamped(prefix, target) ==
    LET last == AtLeast(1, TargetOf(prefix[Len(prefix)].bits))
    IN  AtMost(MaxTarget,
               IF Exceeds(target, last, ClampUp) THEN Times(last, ClampUp)
               ELSE IF target * ClampDown.den < last * ClampDown.num
                    THEN Times(last, ClampDown)
               ELSE target)

\* _apply_eda: blocks that were late for a whole window ease the last target.
Eased(prefix, target) ==
    LET w    == Window(prefix, EdaWindow)
        gaps == 1 .. Len(w) - 1
        late == [i \in gaps |-> AtLeast(1, w[i + 1].ts - w[i].ts)]
        time == SumFunctionOnSet(late, gaps)
    IN  IF Len(w) >= 2 /\ Exceeds(time, TargetTime * (Len(w) - 1), EdaTrigger)
        THEN AtMost(Times(TargetOf(prefix[Len(prefix)].bits), EdaEase), MaxTarget)
        ELSE target

\* _expected_bits_on_prefix, of the block after prefix.
ExpectedBits(prefix) ==
    IF prefix = << >> THEN MaxBits
    ELSE IF Len(prefix) < 2 THEN prefix[1].bits
    ELSE BitsOf(AtMost(MaxTarget, Eased(prefix, Clamped(prefix, LwmaTarget(prefix)))))

----------------------------------------------------------------------------
(* Times *)

\* sorted(times)[len(times) // 2]
Median(w) ==
    LET below(x)  == {i \in DOMAIN w : w[i].ts < x}
        upTo(x)   == {i \in DOMAIN w : w[i].ts <= x}
        middle == Len(w) \div 2
    IN  CHOOSE x \in {w[i].ts : i \in DOMAIN w} :
          Cardinality(below(x)) <= middle /\ middle < Cardinality(upTo(x))

\* median_time_past.
MedianTimePast(prefix) ==
    IF prefix = << >> THEN 0 ELSE Median(Window(prefix, MtpWindows))

----------------------------------------------------------------------------
(* The two validations *)

\* validate_block: the context and the coinbase of one block on the tip.
AcceptedAlone(prefix, b, now) ==
    /\ b.ts >= MedianTimePast(prefix)
    /\ b.ts <= now + FutureDrift
    /\ prefix # << >> => b.ts + TargetTime >= prefix[Len(prefix)].ts
    /\ prefix # << >> => b.bits = ExpectedBits(prefix)
    /\ b.coin = BlockReward(rules.schedule, Len(prefix))

\* cumulative_supply of _validate_complete_chain: what the rewards add up to.
Totals(prefix) ==
    LET f[i \in 0 .. Len(prefix)] == IF i = 0 THEN 0 ELSE f[i - 1] + prefix[i].coin IN f
Minted(prefix) == Totals(prefix)[Len(prefix)]
RunningReward(prefix) ==
    AtMost(Scheduled(rules.schedule, Len(prefix)),
           AtLeast(0, rules.schedule.cap - Minted(prefix)))

\* _validate_genesis_block and one round of _validate_subsequent_blocks.
AcceptedAfter(prefix, b, now) ==
    /\ b.coin = RunningReward(prefix)
    /\ prefix # << >> =>
         /\ b.ts <= now + FutureDrift
         /\ b.ts >= Median(Window(prefix, MtpWindows))
         /\ b.bits = ExpectedBits(prefix)

CompleteChainAccepted(s, now) ==
    \A i \in DOMAIN s : AcceptedAfter(SubSeq(s, 1, i - 1), s[i], now)

----------------------------------------------------------------------------
(* The chain grows *)

RulesInit ==
    /\ headers = << >> /\ clock = 0
    /\ rules \in RulesBounds

\* A miner, of this node or of another whose clock is off, builds on the tip; the
\* first block is the genesis.
MineOnTip ==
    /\ Len(headers) < rules.length
    /\ \E delay \in rules.delays, skew \in rules.skews :
         LET now == clock + delay
             b   == [ts |-> now + skew, bits |-> ExpectedBits(headers),
                     coin |-> BlockReward(rules.schedule, Len(headers))]
         IN  /\ AcceptedAlone(headers, b, now)
             /\ clock' = now
             /\ headers' = Append(headers, b)
    /\ UNCHANGED rules

\* A branch of other nodes, with as much work or more, replaces the tip: it is
\* judged as a whole.
Branch(prefix, ts) ==
    Append(prefix, [ts |-> ts, bits |-> ExpectedBits(prefix), coin |-> RunningReward(prefix)])

AdoptBranch ==
    /\ Len(headers) >= 2
    /\ \E first, second \in rules.skews :
         LET kept == SubSeq(headers, 1, Len(headers) - 1)
             one  == Branch(kept, clock + first)
             two  == Branch(one, clock + second)
         IN  \E new \in {one, two} :
               /\ Len(new) <= rules.length
               /\ WorkOfHeaders(new) >= WorkOfHeaders(headers)
               /\ CompleteChainAccepted(new, clock)
               /\ headers' = new
    /\ UNCHANGED << clock, rules >>

RulesNext == MineOnTip \/ AdoptBranch

RulesSpec == RulesInit /\ [][RulesNext]_rulesVars

----------------------------------------------------------------------------
(* Properties *)

\* A chain taken block by block, or in branches, passes as a whole, at any later
\* time: no node refuses, when it reorganises, what another has on its tip.  Its
\* coinbases are what cumulative_supply_until counts, and within MAX_SUPPLY.
WholeChainAgrees ==
    /\ CompleteChainAccepted(headers, clock)
    /\ Minted(headers) = SupplyUntil(rules.schedule, Len(headers))
    /\ Minted(headers) <= rules.schedule.cap

\* The retarget answers in the right direction, whatever was cut, clamped and
\* rounded: after a window of blocks none of which was late it is not easier than
\* the easiest of them, and where none was early not harder than the hardest.
RightDirection ==
    LET w    == Window(headers, LwmaWindow)
        gaps == 1 .. Len(w) - 1
        gap(i) == w[i + 1].ts - w[i].ts
        next == DifficultyOf([bits |-> ExpectedBits(headers)])
        past == {DifficultyOf(w[i + 1]) : i \in gaps}
    IN  Len(headers) >= 2 =>
          /\ (\A i \in gaps : gap(i) <= TargetTime) => \E d \in past : d <= next
          /\ (\A i \in gaps : gap(i) >= TargetTime) => \E d \in past : next <= d
=============================================================================
