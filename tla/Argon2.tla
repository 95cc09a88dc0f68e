------------------------------- MODULE Argon2 -------------------------------
(***************************************************************************)
(* authlab/passwords/argon2.py : the order in which argon2() fills its     *)
(* memory, and the block that each step refers to.                         *)
(*                                                                         *)
(* A block is represented by the slice, counted over all passes, in which  *)
(* it was filled last; -1 stands for zeros. What is in a block, and so the *)
(* pseudo-random words j1 and j2, may be anything. Words have WordRange    *)
(* values in place of 2^32.                                                *)
(***************************************************************************)
EXTENDS Integers, FiniteSets

CONSTANTS
  WordRange,       \* number of values of j1: 2^32 in the code
  WordsPerBlock,   \* WORDS_PER_BLOCK
  MemoryCosts,     \* memory_cost arguments
  Parallelisms,    \* parallelism arguments
  TimeCosts        \* time_cost arguments

\* argon2() refuses a parallelism and a time_cost below 1. Two blocks of the first segment
\* come from H0, so that its addresses begin with the third word of a block.
ASSUME Argon2Assumption ==
  /\ WordRange \in Nat \ {0}
  /\ WordsPerBlock \in Nat /\ WordsPerBlock > 2
  /\ MemoryCosts \subseteq Nat
  /\ Parallelisms \subseteq Nat \ {0}
  /\ TimeCosts \subseteq Nat \ {0}

VARIABLES
  ctx,             \* _Context: [lanes, columns, segment, passes, variant]
  pass_number, slice_number, lane, index_in_segment,   \* the loops
  address_counter, \* of the segment in progress; 0 also when addresses is empty
  memory,          \* lane -> column -> slice of the last fill
  phase            \* "idle", "fill" or "done"

argonVars == <<ctx, pass_number, slice_number, lane, index_in_segment, address_counter, memory, phase>>

SYNC_POINTS == 4

Lane == 0..(ctx.lanes - 1)
Column == 0..(ctx.columns - 1)

\* argon2(), up to the allocation: the parameters that are not refused, and the memory
\* rounded down to slices of the same size.
Context(memory_cost, parallelism, time_cost, variant) ==
  LET blocks  == (memory_cost \div (SYNC_POINTS * parallelism)) * (SYNC_POINTS * parallelism)
      columns == blocks \div parallelism
  IN  [lanes |-> parallelism, columns |-> columns, segment |-> columns \div SYNC_POINTS,
       passes |-> time_cost, variant |-> variant]

ArgonInit ==
  /\ ctx = [lanes |-> 0, columns |-> 0, segment |-> 0, passes |-> 0, variant |-> "d"]
  /\ pass_number = 0 /\ slice_number = 0 /\ lane = 0 /\ index_in_segment = 0
  /\ address_counter = 0
  /\ memory = <<>>
  /\ phase = "idle"

----------------------------------------------------------------------------
(* _reference_index                                                        *)

\* Mutant: the block before the first one of a segment is not left out.
area_off_by_one(reference_lane) ==
  CASE reference_lane = lane /\ pass_number = 0 ->
         slice_number * ctx.segment + index_in_segment - 1
    [] reference_lane # lane /\ pass_number = 0 -> slice_number * ctx.segment
    [] reference_lane = lane /\ pass_number # 0 ->
         ctx.columns - ctx.segment + index_in_segment - 1
    [] OTHER -> ctx.columns - ctx.segment

area(reference_lane) ==
  LET first == IF index_in_segment = 0 THEN 1 ELSE 0
  IN  CASE reference_lane = lane /\ pass_number = 0 ->
             slice_number * ctx.segment + index_in_segment - 1
        [] reference_lane # lane /\ pass_number = 0 -> slice_number * ctx.segment - first
        [] reference_lane = lane /\ pass_number # 0 ->
             ctx.columns - ctx.segment + index_in_segment - 1
        [] OTHER -> ctx.columns - ctx.segment - first

relative(j1, size) == size - 1 - ((size * ((j1 * j1) \div WordRange)) \div WordRange)

start ==
  IF pass_number = 0 \/ slice_number = SYNC_POINTS - 1 THEN 0
  ELSE (slice_number + 1) * ctx.segment

\* j2 % lanes is any lane, except in the first slice of all
reference_lanes == IF pass_number = 0 /\ slice_number = 0 THEN {lane} ELSE Lane

reference_column(j1, reference_lane) == (start + relative(j1, area(reference_lane))) % ctx.columns

----------------------------------------------------------------------------
(* argon2                                                                  *)

\* The slices counted over all passes
Slice == SYNC_POINTS * pass_number + slice_number

column == slice_number * ctx.segment + index_in_segment

previous == (column - 1) % ctx.columns

First(p, s) == IF p = 0 /\ s = 0 THEN 2 ELSE 0

use_independent ==
  \/ ctx.variant = "i"
  \/ ctx.variant = "id" /\ pass_number = 0 /\ slice_number < SYNC_POINTS \div 2

\* argon2() begins; the first two blocks of every lane come from H0.
BeginFilling(memory_cost, parallelism, time_cost, variant) ==
  /\ phase = "idle"
  /\ memory_cost >= 8 * parallelism
  /\ ctx' = Context(memory_cost, parallelism, time_cost, variant)
  /\ memory' = [l \in Lane' |-> [c \in Column' |-> IF c \in {0, 1} THEN 0 ELSE -1]]
  /\ index_in_segment' = First(0, 0)
  /\ phase' = "fill"
  /\ UNCHANGED <<pass_number, slice_number, lane, address_counter>>

\* Mutant: a new block of addresses is due only at a multiple of its size.
next_counter_aligned ==
  IF use_independent /\ index_in_segment % WordsPerBlock = 0
  THEN address_counter + 1 ELSE address_counter

next_counter ==
  IF use_independent /\ (index_in_segment % WordsPerBlock = 0 \/ address_counter = 0)
  THEN address_counter + 1 ELSE address_counter

Fill ==
  /\ phase = "fill"
  /\ index_in_segment < ctx.segment
  /\ address_counter' = next_counter
  /\ memory' = [memory EXCEPT ![lane][column] = Slice]
  /\ index_in_segment' = index_in_segment + 1
  /\ UNCHANGED <<ctx, pass_number, slice_number, lane, phase>>

\* The end of a segment: the next lane, slice or pass, or the tag
EndSegment ==
  /\ phase = "fill"
  /\ index_in_segment = ctx.segment
  /\ address_counter' = 0
  /\ lane' = IF lane < ctx.lanes - 1 THEN lane + 1 ELSE 0
  /\ slice_number' = IF lane < ctx.lanes - 1 THEN slice_number
                     ELSE (slice_number + 1) % SYNC_POINTS
  /\ pass_number' = IF lane = ctx.lanes - 1 /\ slice_number = SYNC_POINTS - 1
                    THEN pass_number + 1 ELSE pass_number
  /\ phase' = IF pass_number' = ctx.passes THEN "done" ELSE "fill"
  /\ index_in_segment' = First(pass_number', slice_number')
  /\ UNCHANGED <<ctx, memory>>

ArgonNext ==
  \/ \E memory_cost \in MemoryCosts, parallelism \in Parallelisms, time_cost \in TimeCosts,
        variant \in {"d", "i", "id"} : BeginFilling(memory_cost, parallelism, time_cost, variant)
  \/ Fill
  \/ EndSegment

----------------------------------------------------------------------------
(* Properties                                                              *)

\* The blocks that RFC 9106 section 3.4 allows: those of the last three slices, and in its
\* own lane those of the segment in progress, without the block before this one. Another
\* lane's segment of the present slice is never among them, which is what would let the
\* lanes of a slice be filled at the same time.
ReferenceWindow(reference_lane) ==
  {c \in Column :
     /\ memory[reference_lane][c] >= 0
     /\ memory[reference_lane][c] >= Slice - (SYNC_POINTS - 1)
     /\ reference_lane # lane => memory[reference_lane][c] < Slice
     /\ reference_lane = lane \/ index_in_segment = 0 => c # previous}

\* How long ago a block was filled, for comparison within one lane
Older(l, c, d) ==
  \/ memory[l][c] < memory[l][d]
  \/ memory[l][c] = memory[l][d] /\ c < d

\* Whatever the words are, the block referred to is one of that window, so it holds data of
\* this computation and no other lane is writing it; the whole window is in reach, the
\* newest block for zero and, in a window of at most half as many blocks as there are
\* words, the oldest one for the largest word.
ReferencesInWindow ==
  phase = "fill" /\ index_in_segment < ctx.segment =>
    \A l \in reference_lanes :
      /\ area(l) = Cardinality(ReferenceWindow(l))
      /\ \A j1 \in 0..(WordRange - 1) : reference_column(j1, l) \in ReferenceWindow(l)
      /\ \A c \in ReferenceWindow(l) :
           /\ c = reference_column(0, l) \/ Older(l, c, reference_column(0, l))
           /\ 2 * area(l) <= WordRange =>
                c = reference_column(WordRange - 1, l) \/ Older(l, reference_column(WordRange - 1, l), c)

\* No address is used for two blocks of a segment: the word taken for a block is the one
\* with the block's own number in the stream of address blocks, also in the first
\* segment, which starts at its third block. At the end all of the memory is of the last pass.
EveryBlockItsOwn ==
  /\ phase = "fill" /\ use_independent /\ index_in_segment > First(pass_number, slice_number) =>
       (address_counter - 1) * WordsPerBlock + ((index_in_segment - 1) % WordsPerBlock)
         = index_in_segment - 1
  /\ phase = "done" => \A l \in Lane, c \in Column :
       memory[l][c] = SYNC_POINTS * (ctx.passes - 1) + c \div ctx.segment

\* Every block is computed from the right one: by its reference and by its address.
FillingExact == ReferencesInWindow /\ EveryBlockItsOwn
============================================================================
