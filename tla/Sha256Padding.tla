--------------------------- MODULE Sha256Padding ---------------------------
(***************************************************************************)
(* What sha256_hash() does before it hashes: add_padding() brings a        *)
(* message to whole blocks, split_into_512_bit_blocks() reads them as      *)
(* words.  One action per statement or loop.                               *)
(*                                                                         *)
(* In the code WordBits is 32, BlockWords 16 and CountBits 64.             *)
(***************************************************************************)
EXTENDS Integers, Sequences

CONSTANTS
  WordBits, BlockWords,  \* a block is BlockWords words of WordBits bits
  CountBits,             \* bits of the length at the end of the padding
  Messages               \* the messages to hash, as sequences of bits

Bit       == {0, 1}
BlockBits == WordBits * BlockWords
Target    == BlockBits - CountBits   \* 448

ASSUME PaddingAssumption ==
  /\ WordBits \in Nat \ {0}
  /\ BlockWords \in Nat \ {0}
  /\ CountBits \in 1..(BlockBits - 1)
  /\ Messages \subseteq Seq(Bit)

VARIABLES
  pc,
  given,    \* the message
  message,  \* with what has been appended so far
  blocks    \* the blocks read so far

vars == <<pc, given, message, blocks>>

Init ==
  /\ pc = "one"
  /\ given \in Messages
  /\ message = given
  /\ blocks = <<>>

bit_size == Len(given)

PushOneSlip ==   \* pads by octets
  /\ pc = "one"
  /\ message' = Append(message, 128)
  /\ pc' = "zeros"
  /\ UNCHANGED <<given, blocks>>

PushOne ==
  /\ pc = "one"
  /\ message' = Append(message, 1)
  /\ pc' = "zeros"
  /\ UNCHANGED <<given, blocks>>

\* One bit less, as if the one bit had not been counted.
SolutionsSlip(length) ==
  {k \in 0..(BlockBits - 1) : (length + k) % BlockBits = Target}

\* "L + 1 + K = 448 (mod 512)"
Solutions(length) ==
  {k \in 0..(BlockBits - 1) : (length + 1 + k) % BlockBits = Target}

\* find_l_k_solution() returns the first solution; it ends the program, with
\* "unreachable", when there is none.
PushZeros ==
  /\ pc = "zeros"
  /\ IF Solutions(bit_size) = {}
     THEN pc' = "abort" /\ message' = message
     ELSE LET K == CHOOSE k \in Solutions(bit_size) :
                     \A l \in Solutions(bit_size) : k <= l
          IN /\ message' = message \o [n \in 1..K |-> 0]
             /\ pc' = "count"
  /\ UNCHANGED <<given, blocks>>

\* n >> p, one bit at a time.
ShiftedRight(n, p) ==
  LET shifted[k \in 0..p] == IF k = 0 THEN n ELSE shifted[k - 1] \div 2
  IN shifted[p]

BitOf(n, p) == IF ShiftedRight(n, p) % 2 = 0 THEN 0 ELSE 1

\* The length, the most significant bit first.
CountSlip ==   \* of octets
  [n \in 1..CountBits |-> BitOf(bit_size \div 8, CountBits - n)]
Count == [n \in 1..CountBits |-> BitOf(bit_size, CountBits - n)]

PushCount ==
  /\ pc = "count"
  /\ message' = message \o Count
  /\ pc' = "split"
  /\ UNCHANGED <<given, blocks>>

\* "message malformed"
Malformed == Len(message) % BlockBits # 0 \/ message = <<>>

\* Word w of the block behind the first bits: its own bits by significance,
\* filled from the most significant one down.
Word(bits, w) ==
  [p \in 0..(WordBits - 1) |-> message[bits + (w - 1) * WordBits + (WordBits - p)]]

\* One turn of the loop over the blocks.
ReadBlock ==
  /\ pc = "split"
  /\ IF Malformed
     THEN pc' = "abort" /\ blocks' = blocks
     ELSE /\ Len(blocks) * BlockBits < Len(message)
          /\ blocks' = Append(blocks,
               [w \in 1..BlockWords |-> Word(Len(blocks) * BlockBits, w)])
          /\ pc' = pc
  /\ UNCHANGED <<given, message>>

\* The loop has gone through the message; the "programming error in prev loop"
\* would be that it has gone beyond.
Return ==
  /\ pc = "split"
  /\ ~Malformed
  /\ Len(blocks) * BlockBits >= Len(message)
  /\ pc' = IF Len(blocks) * BlockBits = Len(message) THEN "hash" ELSE "abort"
  /\ UNCHANGED <<given, message, blocks>>

Terminated == pc \in {"hash", "abort"} /\ UNCHANGED vars

Next == PushOne \/ PushZeros \/ PushCount \/ ReadBlock \/ Return \/ Terminated

Spec == Init /\ [][Next]_vars
-----------------------------------------------------------------------------
TypeOK ==
  /\ pc \in {"one", "zeros", "count", "split", "hash", "abort"}
  /\ given \in Messages
  /\ message \in Seq(Bit)
  /\ blocks \in Seq([1..BlockWords -> [0..(WordBits - 1) -> Bit]])

\* None of the three aborts is reached (SHA256.cpp:70-73, 91-94, 166-167):
\* the number of zeros is always found, the padded message is whole blocks, and
\* the loop over them ends where the message does.
NeverAborts == pc # "abort"

\* Bit n of the words hashed, the most significant of each first.
BlockBit(n) ==
  LET b == (n - 1) \div BlockBits + 1
      w == ((n - 1) % BlockBits) \div WordBits + 1
      j == ((n - 1) % WordBits) + 1
  IN blocks[b][w][WordBits - j]

\* The number in the last CountBits bits of the blocks.
CountedLength ==
  LET last == Len(blocks) * BlockBits
      sum[n \in 0..CountBits] ==
        IF n = 0 THEN 0 ELSE 2 * sum[n - 1] + BlockBit(last - CountBits + n)
  IN sum[CountBits]

\* The words hashed determine the message, so that no two messages are padded
\* to the same blocks: behind the bits of the message there is a one, then only
\* zeros up to the length, and no block more than needed (SHA256.cpp:170-186).
Recoverable ==
  pc = "hash" /\ ShiftedRight(bit_size, CountBits) = 0 =>
    /\ CountedLength = bit_size
    /\ \A n \in 1..bit_size : BlockBit(n) = given[n]
    /\ BlockBit(bit_size + 1) = 1
    /\ \A n \in (bit_size + 2)..(Len(blocks) * BlockBits - CountBits) : BlockBit(n) = 0
    /\ Len(blocks) * BlockBits < bit_size + 1 + CountBits + BlockBits
=============================================================================
