----------------------------- MODULE Difficulty -----------------------------
(***************************************************************************)
(* The difficulty of a chain: compact bits, the target and the work they   *)
(* stand for, and the retarget every INTERVAL blocks from the medians of   *)
(* the timestamps around both ends of the interval (consensus.rs,          *)
(* next_bits_for_blocks and block_work in chain.rs).  A behaviour is one   *)
(* chain that grows by blocks whose timestamps the consensus accepts.      *)
(*                                                                         *)
(* Bytes and widths are constants: the code has RADIX = 256, WIDTH = 32,   *)
(* MAX_EXP = 29, INTERVAL = 2016, HALF_WINDOW = 5, TARGET_BLOCK_TIME = 194.*)
(***************************************************************************)
EXTENDS Integers, Sequences, FiniteSets

CONSTANTS
  RADIX,             \* values of a byte
  WIDTH,             \* bytes of a target
  MAX_EXP,           \* the cap on the exponent of new bits
  INTERVAL,          \* DIFFICULTY_ADJUSTMENT_INTERVAL
  TARGET_BLOCK_TIME,
  HALF_WINDOW,       \* blocks on each side of the interval's start
  GenesisBits,       \* bits the networks' genesis blocks may have
  Gap,               \* how far an offered timestamp may be above the median past time less one
  MAX_LENGTH         \* bound: blocks of the chain

MAX_MANTISSA == RADIX ^ 3 - 1

expected_time == TARGET_BLOCK_TIME * INTERVAL

Bits == [exp : 0..(RADIX - 1), mantissa : 0..MAX_MANTISSA]

VARIABLE blocks      \* the chain, genesis first: timestamp and bits of each block

-----------------------------------------------------------------------------
Least(x, y) == IF x <= y THEN x ELSE y
Greatest(x, y) == IF x >= y THEN x ELSE y

(* bits_to_target: the mantissa's three bytes start at byte WIDTH - exp, the
   ones past the end are dropped, an exponent out of range is target 0.     *)
bits_to_target(bits) ==
  CASE bits.exp \in 3..WIDTH -> bits.mantissa * RADIX ^ (bits.exp - 3)
    [] bits.exp \in 1..2     -> bits.mantissa \div RADIX ^ (3 - bits.exp)
    [] OTHER                 -> 0

(* Mutant: the low half of the target, the digits that say least. *)
target_prefix_Low(bits) == bits_to_target(bits) % RADIX ^ (WIDTH \div 2)

(* block_work divides by the upper half of the target; WORK is u128::MAX. *)
target_prefix(bits) == bits_to_target(bits) \div RADIX ^ (WIDTH \div 2)

WORK == RADIX ^ (WIDTH \div 2) - 1

block_work(bits) == IF target_prefix(bits) = 0 THEN WORK ELSE WORK \div target_prefix(bits)

-----------------------------------------------------------------------------
(* Mutant: the last timestamp stands for the window. *)
median_timestamp_Endpoint(ts) == ts[Len(ts)]

(* median_timestamp, median_past_time_for_blocks: the element at Len \div 2 of
   the sorted timestamps.                                                  *)
median_timestamp(ts) ==
  LET middle == Len(ts) \div 2
  IN CHOOSE v \in {ts[i] : i \in DOMAIN ts} :
       /\ Cardinality({i \in DOMAIN ts : ts[i] < v}) <= middle
       /\ Cardinality({i \in DOMAIN ts : ts[i] <= v}) > middle

Timestamps(chain, from, to) == [i \in 1..(to - from + 1) |-> chain[from + i - 1].timestamp]

Height(chain) == Len(chain) - 1

(* The last eleven blocks. *)
end_window(chain) ==
  Timestamps(chain, Greatest(1, Len(chain) - 2 * HALF_WINDOW), Len(chain))

median_past_time(chain) == median_timestamp(end_window(chain))

(* The blocks within HALF_WINDOW of the first block of the interval. *)
start_window(chain) ==
  LET start == Height(chain) + 1 - INTERVAL + 1
  IN Timestamps(chain, Greatest(1, start - HALF_WINDOW), Least(start + HALF_WINDOW, Len(chain)))

-----------------------------------------------------------------------------
clamp(actual) == Least(Greatest(actual, expected_time \div 4), expected_time * 4)

(* Mutant: the renormalised mantissa keeps its exponent. *)
renormalise_ExpKept(exp, m) ==
  CASE m > MAX_MANTISSA        -> [exp |-> exp, mantissa |-> m \div RADIX]
    [] m < RADIX /\ exp > 1    -> [exp |-> exp, mantissa |-> m * RADIX]
    [] OTHER                   -> [exp |-> exp, mantissa |-> m]

(* A mantissa that left its three bytes moves the exponent. *)
renormalise(exp, m) ==
  CASE m > MAX_MANTISSA        -> [exp |-> exp + 1, mantissa |-> m \div RADIX]
    [] m < RADIX /\ exp > 1    -> [exp |-> exp - 1, mantissa |-> m * RADIX]
    [] OTHER                   -> [exp |-> exp, mantissa |-> m]

scaled(m, actual) == (m * actual) \div expected_time

(* The rest of adjust_difficulty, for the time the interval took. *)
adjust(bits, actual) ==
  LET new == renormalise(bits.exp, scaled(bits.mantissa, clamp(actual)))
  IN IF bits.mantissa = 0 THEN bits
     ELSE [exp |-> Least(new.exp, MAX_EXP),
           mantissa |-> Least(Greatest(new.mantissa, 1), MAX_MANTISSA)]

actual_time(start, end) == Greatest(end - start, 0)

adjust_difficulty(bits, start_ts, end_ts) ==
  adjust(bits, actual_time(median_timestamp(start_ts), median_timestamp(end_ts)))

next_bits(chain) ==
  IF (Height(chain) + 1) % INTERVAL # 0 THEN chain[Len(chain)].bits
  ELSE adjust_difficulty(chain[Len(chain)].bits, start_window(chain), end_window(chain))

-----------------------------------------------------------------------------
(* The lower bound of validate_timestamp; the upper one, two hours past the
   clock of the node, bounds Gap.                                          *)
validate_timestamp(ts, median) == ts > median

Genesis(bits) == [timestamp |-> 3, bits |-> bits]

Init == \E bits \in GenesisBits : blocks = <<Genesis(bits)>>

AddBlock(ts) ==
  /\ Len(blocks) < MAX_LENGTH
  /\ validate_timestamp(ts, median_past_time(blocks))
  /\ blocks' = Append(blocks, [timestamp |-> ts, bits |-> next_bits(blocks)])

Next == \E g \in Gap : AddBlock(median_past_time(blocks) + g - 1)

Spec == Init /\ [][Next]_blocks

-----------------------------------------------------------------------------
Tip == blocks[Len(blocks)]

Retargets == (Height(blocks) + 1) % INTERVAL = 0

(* Every mantissa keeps at least two of its three bytes, so that scaling it
   never rounds to nothing: what the guards against a zero mantissa in
   adjust_difficulty are for, unless the exponent is exhausted.             *)
Normalised == \A i \in DOMAIN blocks :
  LET bits == blocks[i].bits
  IN bits \in Bits /\ bits.exp >= 1 /\ (bits.mantissa >= RADIX \/ bits.exp = 1)

(* The interval a retarget measures never comes out negative: the median at its
   end is at least the one at its start although single timestamps go back,
   so saturating_sub in adjust_difficulty never hides a negative time.       *)
IntervalNonNegative ==
  Retargets => median_timestamp(start_window(blocks)) <= median_timestamp(end_window(blocks))

(* One block cannot bend the measured time: whatever its timestamp, the median
   of the window stays within the two values next to the old one in sorted
   order ("an individual block's timestamp can be biased by at most ±5
   positions" in the comment of adjust_difficulty).                          *)
MedianResists ==
  LET ts == end_window(blocks)
      Rank(v) == Cardinality({i \in DOMAIN ts : ts[i] < v})
      RankUpto(v) == Cardinality({i \in DOMAIN ts : ts[i] <= v})
      lied(i, v) == median_timestamp([ts EXCEPT ![i] = v])
  IN Len(ts) = 2 * HALF_WINDOW + 1 =>
       \A i \in DOMAIN ts : \A v \in {0, 1000} :
         Rank(lied(i, v)) <= HALF_WINDOW + 1 /\ RankUpto(lied(i, v)) >= HALF_WINDOW

(* A retarget never makes the target more than four times easier, nor easier at
   all after a fast interval.  It makes it at most four times harder, one step
   of rounding aside, and not harder after a slow interval, unless the exponent
   passes its cap (FourTimesAtMost); between retargets the bits do not move
   (adjust_difficulty, next_bits_for_blocks).                               *)
RetargetBounded ==
  [][LET old == bits_to_target(Tip.bits)
         new == bits_to_target(Tip'.bits)
         actual == actual_time(median_timestamp(start_window(blocks)),
                               median_timestamp(end_window(blocks)))
         capped == renormalise(Tip.bits.exp, scaled(Tip.bits.mantissa, clamp(actual))).exp > MAX_EXP
     IN IF ~Retargets THEN Tip'.bits = Tip.bits
        ELSE /\ new <= 4 * old
             /\ actual < expected_time => new <= old
             /\ ~capped => old <= 5 * new /\ (actual > expected_time => new >= old)]_blocks

(* The work of a block is not smaller when its target is: heavier chains are
   the harder ones (block_work keeps the upper half of the target only).     *)
HarderWeighsMore ==
  \A i, j \in DOMAIN blocks :
    bits_to_target(blocks[i].bits) <= bits_to_target(blocks[j].bits)
      => block_work(blocks[i].bits) >= block_work(blocks[j].bits)

(* No block's target is more than four times harder than its parent's, the "Clamp
   to 4x increase / 4x decrease (Bitcoin's rule)" of adjust_difficulty, one step
   of rounding aside.  It fails where the exponent is cut to its cap and the
   mantissa, already divided for the greater exponent, is kept (README.md,
   section 4).                                                              *)
FourTimesAtMost ==
  \A i \in 1..(Len(blocks) - 1) :
    bits_to_target(blocks[i].bits) <= 5 * bits_to_target(blocks[i + 1].bits)
=============================================================================
