------------------------ MODULE Sha256Padding_proofs ------------------------
(***************************************************************************)
(* Proofs about Sha256Padding, for every word size, block size and set of  *)
(* messages: the three aborts of SHA256.cpp are never reached, and the     *)
(* blocks determine the message.                                           *)
(***************************************************************************)
EXTENDS Sha256Padding, TLAPS

\* Quotient and remainder make up the number.
LEMMA Division ==
  ASSUME NEW a \in Int, NEW B \in Nat \ {0}
  PROVE  /\ a = B * (a \div B) + (a % B)
         /\ a % B \in 0..(B - 1)
         /\ a \div B \in Int
  BY SMT

\* There is only one remainder.
LEMMA RemainderUnique ==
  ASSUME NEW B \in Nat \ {0}, NEW q \in Int, NEW r \in 0..(B - 1)
  PROVE  (B * q + r) % B = r
  BY SMT

\* Every remainder is reached within one period.
LEMMA RemainderReached ==
  ASSUME NEW B \in Nat \ {0}, NEW a \in Int, NEW r \in 0..(B - 1)
  PROVE  \E k \in 0..(B - 1) : (a + k) % B = r
<1> DEFINE d == r - a
           k == d % B
           q == d \div B
<1>1. d = B * q + k /\ k \in 0..(B - 1) /\ q \in Int
  <2>1. d \in Int
    OBVIOUS
  <2> HIDE DEF d
  <2> QED
    BY <2>1, Division
<1>2. a + k = B * (-q) + r
  <2> HIDE DEF k, q
  <2> QED
    BY <1>1
<1>3. (B * (-q) + r) % B = r
  <2>1. -q \in Int
    BY <1>1
  <2> DEFINE p == -q
  <2> HIDE DEF p
  <2>2. p \in Int => (B * p + r) % B = r
    BY RemainderUnique
  <2> QED
    BY <2>1, <2>2 DEF p
<1> QED
  BY <1>1, <1>2, <1>3

\* It is reached only once.
LEMMA RemainderOnce ==
  ASSUME NEW B \in Nat \ {0}, NEW a \in Int, NEW r \in 0..(B - 1),
         NEW k \in 0..(B - 1), NEW l \in 0..(B - 1),
         (a + k) % B = r, (a + l) % B = r
  PROVE  k = l
<1>1. PICK q \in Int : a + k = B * q + r
  <2> DEFINE s == a + k
  <2>1. s \in Int
    OBVIOUS
  <2>2. s % B = r
    OBVIOUS
  <2> HIDE DEF s
  <2>3. s = B * (s \div B) + r /\ s \div B \in Int
    BY <2>1, <2>2, Division
  <2> QED
    BY <2>3 DEF s
<1>2. PICK p \in Int : a + l = B * p + r
  <2> DEFINE s == a + l
  <2>1. s \in Int
    OBVIOUS
  <2>2. s % B = r
    OBVIOUS
  <2> HIDE DEF s
  <2>3. s = B * (s \div B) + r /\ s \div B \in Int
    BY <2>1, <2>2, Division
  <2> QED
    BY <2>3 DEF s
<1>3. k - l = B * (q - p)
  BY <1>1, <1>2
<1>4. k - l < B /\ -B < k - l
  OBVIOUS
<1>5. q - p < 1 /\ -1 < q - p
  BY <1>3, <1>4
<1>6. q = p
  BY <1>5
<1> QED
  BY <1>1, <1>2, <1>6

\* The next multiple of B is not beyond a multiple that is larger.
LEMMA NextMultiple ==
  ASSUME NEW B \in Nat \ {0}, NEW m \in Nat, NEW n \in Nat,
         n % B = 0, m * B < n
  PROVE  (m + 1) * B <= n
<1> DEFINE q == n \div B
<1>1. n = B * q /\ q \in Int
  BY Division
<1> HIDE DEF q
<1>2. m < q
  BY <1>1
<1>3. m + 1 <= q
  BY <1>1, <1>2
<1> QED
  BY <1>1, <1>3

\* The sizes of blocks and of the count, as the assumption gives them.
LEMMA Sizes ==
  /\ BlockBits \in Nat \ {0}
  /\ CountBits \in 1..(BlockBits - 1)
  /\ Target = BlockBits - CountBits
  /\ Target \in 0..(BlockBits - 1)
  /\ Target # 0
<1>1. BlockBits \in Nat
  BY PaddingAssumption DEF BlockBits
<1>2. CountBits \in 1..(BlockBits - 1)
  BY PaddingAssumption
<1>3. BlockBits # 0
  BY <1>1, <1>2
<1> QED
  BY <1>1, <1>2, <1>3 DEF Target

\* find_l_k_solution() finds a number of zeros for every length, so its line
\* "unreachable" (SHA256.cpp:166) is.
THEOREM SolutionExists ==
  ASSUME NEW length \in Nat
  PROVE  Solutions(length) # {}
<1> DEFINE a == length + 1
<1>1. a \in Int
  OBVIOUS
<1> HIDE DEF a
<1>2. \E k \in 0..(BlockBits - 1) : (a + k) % BlockBits = Target
  BY <1>1, Sizes, RemainderReached, Zenon
<1> QED
  BY <1>2 DEF Solutions, a

\* There is only one number of zeros, so that the first is the only choice
\* (SHA256.cpp:158-168).
THEOREM SolutionUnique ==
  ASSUME NEW length \in Nat,
         NEW k \in Solutions(length), NEW l \in Solutions(length)
  PROVE  k = l
<1> DEFINE a == length + 1
<1>1. a \in Int
  OBVIOUS
<1>2. /\ k \in 0..(BlockBits - 1) /\ (a + k) % BlockBits = Target
      /\ l \in 0..(BlockBits - 1) /\ (a + l) % BlockBits = Target
  BY DEF Solutions
<1> HIDE DEF a
<1> QED
  BY <1>1, <1>2, Sizes, RemainderOnce, Zenon

\* What PushZeros appends brings the length to Target in its block.
LEMMA ZerosChosen ==
  ASSUME NEW length \in Nat
  PROVE  LET K == CHOOSE k \in Solutions(length) :
                    \A l \in Solutions(length) : k <= l
         IN K \in Solutions(length)
<1>1. PICK k \in Solutions(length) : TRUE
  BY SolutionExists
<1>2. \A l \in Solutions(length) : k <= l
  BY SolutionUnique DEF Solutions
<1> QED
  BY <1>1, <1>2
-----------------------------------------------------------------------------
\* The length of the padded message at every step, and the blocks read within
\* it: what is needed to see that no abort is reached.
LengthInv ==
  /\ pc # "abort"
  /\ pc = "one" => message = given /\ blocks = <<>>
  /\ pc = "zeros" => Len(message) = bit_size + 1 /\ blocks = <<>>
  /\ pc = "count" => Len(message) % BlockBits = Target /\ blocks = <<>>
  /\ pc = "split" =>
       /\ Len(message) % BlockBits = 0
       /\ message # <<>>
       /\ Len(blocks) * BlockBits <= Len(message)

IInv == TypeOK /\ LengthInv

\* The bits of a word lie inside its block.
LEMMA BitInBlock ==
  ASSUME NEW W \in Nat \ {0}, NEW K \in Nat \ {0},
         NEW w \in 1..K, NEW p \in 0..(W - 1)
  PROVE  (w - 1) * W + (W - p) \in 1..(W * K)
<1>1. (w - 1) * W >= 0
  OBVIOUS
<1>2. (K - w) * W >= 0
  OBVIOUS
<1>3. (w - 1) * W + W + (K - w) * W = W * K
  OBVIOUS
<1> DEFINE below == (w - 1) * W
           above == (K - w) * W
<1>4. below \in Int /\ above \in Int /\ W * K \in Int
  OBVIOUS
<1> QED
  BY <1>1, <1>2, <1>3, <1>4

\* A word read from within the message is made of bits.
LEMMA WordType ==
  ASSUME TypeOK, NEW bits \in Nat, bits + BlockBits <= Len(message),
         NEW w \in 1..BlockWords
  PROVE  Word(bits, w) \in [0..(WordBits - 1) -> Bit]
<1> SUFFICES ASSUME NEW p \in 0..(WordBits - 1)
             PROVE  message[bits + (w - 1) * WordBits + (WordBits - p)] \in Bit
  BY DEF Word
<1> DEFINE i == (w - 1) * WordBits + (WordBits - p)
<1>1. i \in 1..(WordBits * BlockWords)
  BY PaddingAssumption, BitInBlock, Zenon
<1>2. bits + (w - 1) * WordBits + (WordBits - p) = bits + i
  BY PaddingAssumption
<1>3. i \in 1..BlockBits
  BY <1>1 DEF BlockBits
<1> HIDE DEF i
<1>4. bits + i \in 1..Len(message)
  BY <1>3, Sizes DEF TypeOK
<1> QED
  BY <1>2, <1>4 DEF TypeOK

LEMMA InitIInv == Init => IInv
  BY PaddingAssumption DEF Init, IInv, TypeOK, LengthInv

LEMMA PushOneKeeps == IInv /\ PushOne => IInv'
<1> SUFFICES ASSUME IInv, PushOne
             PROVE  IInv'
  OBVIOUS
<1>1. message' \in Seq(Bit) /\ Len(message') = bit_size + 1
  BY DEF PushOne, IInv, TypeOK, LengthInv, Bit, bit_size
<1>2. TypeOK'
  BY <1>1 DEF PushOne, IInv, TypeOK
<1>3. LengthInv'
  BY <1>1 DEF PushOne, IInv, LengthInv, bit_size
<1> QED
  BY <1>2, <1>3 DEF IInv

LEMMA PushZerosKeeps == IInv /\ PushZeros => IInv'
<1> SUFFICES ASSUME IInv, PushZeros
             PROVE  IInv'
  OBVIOUS
<1> DEFINE K == CHOOSE k \in Solutions(bit_size) :
                  \A l \in Solutions(bit_size) : k <= l
<1>1. bit_size \in Nat
  BY PaddingAssumption DEF IInv, TypeOK, bit_size
<1>2. K \in Solutions(bit_size) /\ Solutions(bit_size) # {}
  BY <1>1, ZerosChosen, SolutionExists
<1>4. /\ message' = message \o [n \in 1..K |-> 0]
      /\ pc' = "count"
      /\ UNCHANGED <<given, blocks>>
  BY <1>2 DEF PushZeros
<1>5. Len(message) = bit_size + 1 /\ message \in Seq(Bit) /\ blocks = <<>>
  BY DEF PushZeros, IInv, TypeOK, LengthInv
<1> HIDE DEF K
<1>3. K \in Nat /\ (bit_size + 1 + K) % BlockBits = Target
  BY <1>2, Sizes DEF Solutions
<1> DEFINE zeros == [n \in 1..K |-> 0]
<1>6. zeros \in Seq(Bit) /\ Len(zeros) = K /\ message' = message \o zeros
  BY <1>3, <1>4 DEF Bit
<1> HIDE DEF zeros
<1>7. message' \in Seq(Bit) /\ Len(message') = bit_size + 1 + K
  BY <1>1, <1>3, <1>5, <1>6
<1>8. TypeOK'
  BY <1>4, <1>7 DEF IInv, TypeOK
<1>9. LengthInv'
  BY <1>3, <1>4, <1>5, <1>7 DEF LengthInv
<1> QED
  BY <1>8, <1>9 DEF IInv

LEMMA PushCountKeeps == IInv /\ PushCount => IInv'
<1> SUFFICES ASSUME IInv, PushCount
             PROVE  IInv'
  OBVIOUS
<1>1. Count \in Seq(Bit) /\ Len(Count) = CountBits
  <2>1. \A n \in 1..CountBits : BitOf(bit_size, CountBits - n) \in Bit
    BY DEF BitOf, Bit
  <2>2. CountBits \in Nat
    BY Sizes
  <2> QED
    BY <2>1, <2>2 DEF Count
<1>2. /\ message \in Seq(Bit) /\ Len(message) \in Nat
      /\ Len(message) % BlockBits = Target /\ blocks = <<>>
  BY DEF PushCount, IInv, TypeOK, LengthInv
<1>3. message' \in Seq(Bit) /\ Len(message') = Len(message) + CountBits
  BY <1>1, <1>2 DEF PushCount
<1>4. Len(message') % BlockBits = 0
  <2> DEFINE n == Len(message)
             q == n \div BlockBits
  <2>1. n \in Nat /\ n % BlockBits = Target
    BY <1>2
  <2> HIDE DEF n
  <2>2. n = BlockBits * q + Target /\ q \in Int
    BY <2>1, Sizes, Division
  <2> HIDE DEF q
  <2>3. n + CountBits = BlockBits * (q + 1) + 0
    BY <2>2, Sizes
  <2>4. q + 1 \in Int /\ 0 \in 0..(BlockBits - 1)
    BY <2>2, Sizes
  <2>5. (BlockBits * (q + 1) + 0) % BlockBits = 0
    BY <2>4, Sizes, RemainderUnique, Zenon
  <2> QED
    BY <1>3, <2>3, <2>5 DEF n
<1>5. Len(message') > 0 /\ message' # <<>>
  BY <1>2, <1>3, Sizes
<1>6. TypeOK'
  BY <1>3 DEF PushCount, IInv, TypeOK
<1>7. Len(blocks) * BlockBits = 0
  BY <1>2, Sizes
<1>8. LengthInv'
  BY <1>3, <1>4, <1>5, <1>7 DEF PushCount, LengthInv
<1> QED
  BY <1>6, <1>8 DEF IInv

LEMMA ReadBlockKeeps == IInv /\ ReadBlock => IInv'
<1> SUFFICES ASSUME IInv, ReadBlock
             PROVE  IInv'
  OBVIOUS
<1>1. ~Malformed
  BY DEF ReadBlock, IInv, LengthInv, Malformed
<1> DEFINE m == Len(blocks)
           n == Len(message)
           block == [w \in 1..BlockWords |-> Word(m * BlockBits, w)]
<1>2. /\ m * BlockBits < n
      /\ blocks' = Append(blocks, block)
      /\ pc' = "split"
      /\ UNCHANGED <<given, message>>
  BY <1>1 DEF ReadBlock
<1>3. m \in Nat /\ n \in Nat /\ n % BlockBits = 0 /\ message # <<>>
  BY DEF ReadBlock, IInv, TypeOK, LengthInv
<1>4. (m + 1) * BlockBits <= n
  <2> HIDE DEF m, n
  <2> QED
    BY <1>2, <1>3, Sizes, NextMultiple
<1>5. block \in [1..BlockWords -> [0..(WordBits - 1) -> Bit]]
  <2>1. m * BlockBits \in Nat /\ m * BlockBits + BlockBits <= n
    BY <1>3, <1>4, Sizes
  <2> QED
    BY <2>1, WordType DEF IInv
<1> HIDE DEF block
<1>6. TypeOK'
  BY <1>2, <1>5 DEF IInv, TypeOK
<1>7. Len(blocks') = m + 1
  BY <1>2, <1>5 DEF IInv, TypeOK
<1>8. LengthInv'
  BY <1>2, <1>3, <1>4, <1>7 DEF LengthInv
<1> QED
  BY <1>6, <1>8 DEF IInv

LEMMA ReturnKeeps == IInv /\ Return => IInv'
<1> SUFFICES ASSUME IInv, Return
             PROVE  IInv'
  OBVIOUS
<1>1. Len(blocks) * BlockBits = Len(message)
  <2>1. Len(blocks) \in Nat /\ Len(message) \in Nat
    BY DEF IInv, TypeOK
  <2>2. Len(blocks) * BlockBits \in Int
    BY <2>1, Sizes
  <2>3. /\ Len(blocks) * BlockBits <= Len(message)
        /\ Len(blocks) * BlockBits >= Len(message)
    BY DEF Return, IInv, LengthInv
  <2> QED
    BY <2>1, <2>2, <2>3
<1>2. pc' = "hash" /\ UNCHANGED <<given, message, blocks>>
  BY <1>1 DEF Return
<1> QED
  BY <1>2 DEF IInv, TypeOK, LengthInv

\* IInv is kept by every step.
LEMMA IInvInductive == IInv /\ [Next]_vars => IInv'
<1>1. IInv /\ UNCHANGED vars => IInv'
  BY DEF vars, IInv, TypeOK, LengthInv, bit_size
<1> QED
  BY <1>1, PushOneKeeps, PushZerosKeeps, PushCountKeeps, ReadBlockKeeps, ReturnKeeps
  DEF Next, Terminated

LEMMA IInvAlways == Spec => []IInv
  BY InitIInv, IInvInductive, PTL DEF Spec

\* The types of the padding hold in every reachable state: what is appended
\* are bits, and every word is filled with bits of the message.
THEOREM TypeCorrect == Spec => []TypeOK
<1>1. IInv => TypeOK
  BY DEF IInv
<1> QED
  BY <1>1, IInvAlways, PTL

\* None of the three aborts of SHA256.cpp is reached, for any message: a number
\* of zeros is found, the padded message is whole blocks, and the loop over them
\* ends exactly where the message does.
THEOREM AbortsUnreachable == Spec => []NeverAborts
<1>1. IInv => NeverAborts
  BY DEF IInv, LengthInv, NeverAborts
<1> QED
  BY <1>1, IInvAlways, PTL
-----------------------------------------------------------------------------
\* What a turn of CountedLength does.
NextBit(c, sum, bit) == 2 * sum + bit

Counting == INSTANCE Folding WITH Op <- NextBit

\* The function by which ShiftedRight is defined.
Shifted(n, p) ==
  CHOOSE f : f = [k \in 0..p |-> IF k = 0 THEN n ELSE f[k - 1] \div 2]

LEMMA Halved ==
  ASSUME NEW n \in Nat
  PROVE  n \div 2 \in Nat /\ n % 2 \in {0, 1} /\ n = 2 * (n \div 2) + (n % 2)
  OBVIOUS

LEMMA ShiftedExists ==
  ASSUME NEW n \in Nat, NEW p \in Nat
  PROVE  /\ ShiftedRight(n, p) = Shifted(n, p)[p]
         /\ Shifted(n, p)[0] = n
         /\ \A k \in 0..p : Shifted(n, p)[k] \in Nat
         /\ \A k \in 1..p : Shifted(n, p)[k] = Shifted(n, p)[k - 1] \div 2
<1> DEFINE G == [q \in (1..p) \X Nat |-> q[2] \div 2]
           P(f) == f = [k \in 0..p |-> IF k = 0 THEN n ELSE f[k - 1] \div 2]
           f == Shifted(n, p)
<1>1. G \in [(1..p) \X Nat -> Nat]
  BY Halved
<1>2. PICK g : Counting!Recurs(g, p, Nat, n, G)
  <2> HIDE DEF G
  <2> QED
    BY <1>1, Counting!Recursive
<1>3. /\ g \in [0..p -> Nat]
      /\ g[0] = n
      /\ \A k \in 1..p : g[k] = g[k - 1] \div 2
  <2>1. ASSUME NEW k \in 1..p PROVE g[k] = G[<<k, g[k - 1]>>] /\ g[k - 1] \in Nat
    <3>1. k - 1 \in 0..p
      OBVIOUS
    <3> HIDE DEF G
    <3> QED
      BY <1>2, <3>1 DEF Counting!Recurs
  <2>2. \A k \in 1..p : g[k] = g[k - 1] \div 2
    BY <2>1
  <2> QED
    BY <1>2, <2>2 DEF Counting!Recurs
<1>4. P(g)
  BY <1>3
<1>5. P(f)
  <2>1. \E h : P(h)
    <3> HIDE DEF P
    <3> QED
      BY <1>4
  <2> QED
    BY <2>1 DEF Shifted
<1>6. ShiftedRight(n, p) = f[p]
  BY DEF ShiftedRight, Shifted
<1> DEFINE T == {k \in 0..p : f[k] = g[k]}
<1>7. \A k \in 0..p : k \in T
  <2>1. 0 \in T
    BY <1>3, <1>5
  <2>2. ASSUME NEW k \in 0..(p - 1), k \in T PROVE k + 1 \in T
    <3>1. k + 1 \in 1..p /\ (k + 1) - 1 = k
      OBVIOUS
    <3>2. f[k + 1] = f[k] \div 2 /\ g[k + 1] = g[k] \div 2
      BY <3>1, <1>3, <1>5
    <3> QED
      BY <2>2, <3>1, <3>2
  <2>3. 0 \in Int /\ p \in Int
    OBVIOUS
  <2> HIDE DEF T
  <2> QED
    BY <2>1, <2>2, <2>3, Counting!Induction
<1>8. \A k \in 0..p : f[k] = g[k]
  BY <1>7
<1>9. ASSUME NEW k \in 1..p PROVE f[k] = f[k - 1] \div 2
  <2>1. k \in 0..p /\ k - 1 \in 0..p
    OBVIOUS
  <2> HIDE DEF f
  <2> QED
    BY <1>3, <1>8, <2>1
<1> HIDE DEF f
<1> QED
  BY <1>3, <1>6, <1>8, <1>9 DEF f

\* Shifting by one bit more is one more halving (SHA256.cpp:176-180).
LEMMA ShiftStep ==
  ASSUME NEW n \in Nat, NEW p \in Nat
  PROVE  /\ ShiftedRight(n, p) \in Nat
         /\ ShiftedRight(n, 0) = n
         /\ ShiftedRight(n, p + 1) = ShiftedRight(n, p) \div 2
<1> DEFINE f == Shifted(n, p)
           h == Shifted(n, p + 1)
           T == {k \in 0..p : f[k] = h[k]}
<1>1. /\ ShiftedRight(n, p) = f[p]
      /\ f[0] = n
      /\ \A k \in 0..p : f[k] \in Nat
      /\ \A k \in 1..p : f[k] = f[k - 1] \div 2
  BY ShiftedExists
<1>2. /\ ShiftedRight(n, p + 1) = h[p + 1]
      /\ h[0] = n
      /\ \A k \in 1..(p + 1) : h[k] = h[k - 1] \div 2
  <2> DEFINE r == p + 1
  <2>1. r \in Nat
    OBVIOUS
  <2> HIDE DEF r
  <2>2. /\ ShiftedRight(n, r) = Shifted(n, r)[r]
        /\ Shifted(n, r)[0] = n
        /\ \A k \in 1..r : Shifted(n, r)[k] = Shifted(n, r)[k - 1] \div 2
    BY <2>1, ShiftedExists
  <2> QED
    BY <2>2 DEF r
<1>3. ShiftedRight(n, 0) = n
  BY ShiftedExists
<1> HIDE DEF f, h
<1>4. \A k \in 0..p : k \in T
  <2>1. 0 \in T
    BY <1>1, <1>2
  <2>2. ASSUME NEW k \in 0..(p - 1), k \in T PROVE k + 1 \in T
    <3>1. k + 1 \in 1..p /\ k + 1 \in 1..(p + 1) /\ (k + 1) - 1 = k
      OBVIOUS
    <3>2. f[k + 1] = f[k] \div 2 /\ h[k + 1] = h[k] \div 2
      BY <3>1, <1>1, <1>2
    <3> QED
      BY <2>2, <3>1, <3>2
  <2>3. 0 \in Int /\ p \in Int
    OBVIOUS
  <2> HIDE DEF T
  <2> QED
    BY <2>1, <2>2, <2>3, Counting!Induction
<1>5. f[p] = h[p] /\ f[p] \in Nat
  BY <1>1, <1>4
<1>6. h[p + 1] = h[p] \div 2
  <2>1. p + 1 \in 1..(p + 1) /\ (p + 1) - 1 = p
    OBVIOUS
  <2> QED
    BY <1>2, <2>1
<1> QED
  BY <1>1, <1>2, <1>3, <1>5, <1>6
-----------------------------------------------------------------------------
\* What has been appended, and where the bits of the words came from: with
\* IInv, what Recoverable needs.
Appended ==
  /\ pc # "one" => message[bit_size + 1] = 1
  /\ pc \in {"count", "split", "hash"} =>
       LET zeros_end == IF pc = "count" THEN Len(message)
                        ELSE Len(message) - CountBits
       IN /\ zeros_end \in (bit_size + 1)..(bit_size + BlockBits)
          /\ \A n \in (bit_size + 2)..zeros_end : message[n] = 0
  /\ pc \in {"split", "hash"} =>
       \A n \in 1..CountBits : message[Len(message) - CountBits + n] = Count[n]

BitsRead ==
  /\ \A n \in 1..bit_size : message[n] = given[n]
  /\ bit_size <= Len(message)
  /\ \A b \in 1..Len(blocks), w \in 1..BlockWords, p \in 0..(WordBits - 1) :
       blocks[b][w][p] =
         message[(b - 1) * BlockBits + (w - 1) * WordBits + (WordBits - p)]
  /\ pc \in {"one", "zeros", "count"} => blocks = <<>>
  /\ pc = "hash" => Len(blocks) * BlockBits = Len(message)

Layout == IInv /\ Appended /\ BitsRead

Concatenates(c, s, t) ==
  /\ Len(c) = Len(s) + Len(t)
  /\ \A n \in 1..Len(s) : c[n] = s[n]
  /\ \A n \in 1..Len(t) : c[Len(s) + n] = t[n]

LEMMA Concatenation ==
  ASSUME NEW s \in Seq(Bit), NEW t \in Seq(Bit), NEW c, c = s \o t
  PROVE  Concatenates(c, s, t)
  BY DEF Concatenates

LEMMA InitLayout == Init => Layout
<1> SUFFICES ASSUME Init PROVE Layout
  OBVIOUS
<1>1. IInv
  BY InitIInv
<1>2. given \in Seq(Bit) /\ bit_size \in Nat
  BY PaddingAssumption DEF Init, bit_size
<1> QED
  BY <1>1, <1>2 DEF Init, Layout, Appended, BitsRead, bit_size

LEMMA PushOneLayout == Layout /\ PushOne => Layout'
<1> SUFFICES ASSUME Layout, PushOne
             PROVE  Layout'
  OBVIOUS
<1>1. IInv'
  BY PushOneKeeps DEF Layout
<1>2. /\ message = given /\ blocks = <<>> /\ given \in Seq(Bit)
      /\ bit_size \in Nat /\ bit_size = Len(given)
  BY PaddingAssumption DEF PushOne, Layout, IInv, TypeOK, LengthInv, bit_size
<1>3. /\ message' = Append(given, 1) /\ pc' = "zeros"
      /\ given' = given /\ blocks' = blocks /\ bit_size' = bit_size
  BY <1>2 DEF PushOne, bit_size
<1>4. Appended'
  BY <1>2, <1>3 DEF Appended
<1>5. BitsRead'
  BY <1>2, <1>3 DEF BitsRead
<1> QED
  BY <1>1, <1>4, <1>5 DEF Layout

LEMMA PushZerosLayout == Layout /\ PushZeros => Layout'
<1> SUFFICES ASSUME Layout, PushZeros
             PROVE  Layout'
  OBVIOUS
<1>1. IInv'
  BY PushZerosKeeps DEF Layout
<1>2. /\ message \in Seq(Bit) /\ Len(message) = bit_size + 1 /\ bit_size \in Nat
      /\ blocks = <<>> /\ message[bit_size + 1] = 1
      /\ \A n \in 1..bit_size : message[n] = given[n]
  BY PaddingAssumption
  DEF PushZeros, Layout, Appended, BitsRead, IInv, TypeOK, LengthInv, bit_size
<1> DEFINE K == CHOOSE k \in Solutions(bit_size) :
                  \A l \in Solutions(bit_size) : k <= l
<1>3. K \in Solutions(bit_size) /\ Solutions(bit_size) # {}
  BY <1>2, ZerosChosen, SolutionExists
<1>4. /\ message' = message \o [n \in 1..K |-> 0]
      /\ pc' = "count"
      /\ given' = given /\ blocks' = blocks /\ bit_size' = bit_size
  BY <1>3 DEF PushZeros, bit_size
<1> HIDE DEF K
<1>5. K \in 0..(BlockBits - 1) /\ BlockBits \in Nat
  BY <1>3, Sizes DEF Solutions
<1> DEFINE zeros == [n \in 1..K |-> 0]
<1>6. /\ zeros \in Seq(Bit) /\ Len(zeros) = K /\ message' = message \o zeros
      /\ \A n \in 1..K : zeros[n] = 0
  BY <1>4, <1>5 DEF Bit
<1> HIDE DEF zeros
<1>7. /\ Len(message') = bit_size + 1 + K
      /\ \A n \in 1..(bit_size + 1) : message'[n] = message[n]
      /\ \A n \in 1..K : message'[bit_size + 1 + n] = 0
  <2>1. Concatenates(message', message, zeros)
    BY <1>2, <1>6, Concatenation
  <2> QED
    BY <1>2, <1>6, <2>1 DEF Concatenates
<1>8. \A n \in (bit_size + 2)..Len(message') : message'[n] = 0
  <2> SUFFICES ASSUME NEW n \in (bit_size + 2)..Len(message')
               PROVE  message'[n] = 0
    OBVIOUS
  <2> DEFINE k == n - (bit_size + 1)
  <2>1. k \in 1..K /\ n = bit_size + 1 + k
    BY <1>2, <1>5, <1>7
  <2> HIDE DEF k
  <2> QED
    BY <1>7, <2>1
<1>9. Appended'
  BY <1>2, <1>4, <1>5, <1>7, <1>8 DEF Appended
<1>10. BitsRead'
  BY <1>2, <1>4, <1>5, <1>7 DEF BitsRead
<1> QED
  BY <1>1, <1>9, <1>10 DEF Layout

LEMMA PushCountLayout == Layout /\ PushCount => Layout'
<1> SUFFICES ASSUME Layout, PushCount
             PROVE  Layout'
  OBVIOUS
<1>1. IInv'
  BY PushCountKeeps DEF Layout
<1>2. /\ message \in Seq(Bit) /\ bit_size \in Nat /\ Len(message) \in Nat
      /\ Len(message) \in (bit_size + 1)..(bit_size + BlockBits)
      /\ blocks = <<>> /\ message[bit_size + 1] = 1
      /\ \A n \in 1..bit_size : message[n] = given[n]
      /\ \A n \in (bit_size + 2)..Len(message) : message[n] = 0
  BY PaddingAssumption
  DEF PushCount, Layout, Appended, BitsRead, IInv, TypeOK, LengthInv, bit_size
<1>3. Count \in Seq(Bit) /\ Len(Count) = CountBits /\ CountBits \in Nat
  <2>1. \A n \in 1..CountBits : BitOf(bit_size, CountBits - n) \in Bit
    BY DEF BitOf, Bit
  <2>2. CountBits \in Nat
    BY Sizes
  <2> QED
    BY <2>1, <2>2 DEF Count
<1>4. /\ message' = message \o Count /\ pc' = "split"
      /\ given' = given /\ blocks' = blocks /\ bit_size' = bit_size
      /\ Count' = Count
  BY DEF PushCount, bit_size, Count
<1>5. /\ Len(message') = Len(message) + CountBits
      /\ \A n \in 1..Len(message) : message'[n] = message[n]
      /\ \A n \in 1..CountBits : message'[Len(message) + n] = Count[n]
  <2>1. Concatenates(message', message, Count)
    BY <1>2, <1>3, <1>4, Concatenation
  <2> QED
    BY <1>3, <2>1 DEF Concatenates
<1>6. Len(message') - CountBits = Len(message)
  BY <1>2, <1>3, <1>5
<1>7. Appended'
  <2>1. message'[bit_size + 1] = 1
    BY <1>2, <1>5
  <2>2. \A n \in (bit_size + 2)..Len(message) : message'[n] = 0
    BY <1>2, <1>5
  <2>3. bit_size' = bit_size /\ Count' = Count /\ BlockBits' = BlockBits /\ pc' = "split"
    BY <1>4
  <2> QED
    BY <1>2, <1>5, <1>6, <2>1, <2>2, <2>3 DEF Appended
<1>8. BitsRead'
  BY <1>2, <1>3, <1>4, <1>5 DEF BitsRead
<1> QED
  BY <1>1, <1>7, <1>8 DEF Layout

LEMMA ReadBlockLayout == Layout /\ ReadBlock => Layout'
<1> SUFFICES ASSUME Layout, ReadBlock
             PROVE  Layout'
  OBVIOUS
<1>1. IInv /\ IInv'
  BY ReadBlockKeeps DEF Layout
<1>2. ~Malformed
  BY <1>1 DEF ReadBlock, IInv, LengthInv, Malformed
<1> DEFINE m == Len(blocks)
           block == [w \in 1..BlockWords |-> Word(m * BlockBits, w)]
<1>3. /\ blocks' = Append(blocks, block)
      /\ pc' = "split" /\ pc = "split"
      /\ message' = message /\ given' = given
      /\ bit_size' = bit_size /\ Count' = Count
  BY <1>2 DEF ReadBlock, bit_size, Count
<1>4. m \in Nat /\ \E S : blocks \in Seq(S)
  BY <1>1 DEF IInv, TypeOK
<1>5. \A w \in 1..BlockWords, p \in 0..(WordBits - 1) :
        block[w][p] = message[m * BlockBits + (w - 1) * WordBits + (WordBits - p)]
  BY DEF Word
<1> HIDE DEF block
<1>6. /\ Len(blocks') = m + 1
      /\ \A b \in 1..m : blocks'[b] = blocks[b]
      /\ blocks'[m + 1] = block
  BY <1>3, <1>4
<1> HIDE DEF m
<1>7. ASSUME NEW b \in 1..(m + 1), NEW w \in 1..BlockWords, NEW p \in 0..(WordBits - 1)
      PROVE  blocks'[b][w][p] =
               message[(b - 1) * BlockBits + (w - 1) * WordBits + (WordBits - p)]
  <2>1. CASE b = m + 1
    <3>1. b - 1 = m
      BY <1>4, <2>1
    <3> QED
      BY <1>5, <1>6, <2>1, <3>1
  <2>2. CASE b # m + 1
    <3>1. b \in 1..m
      BY <1>4, <2>2
    <3> QED
      BY <1>6, <3>1 DEF Layout, BitsRead, m
  <2> QED
    BY <2>1, <2>2
<1>8. Appended'
  BY <1>3 DEF Layout, Appended
<1>9. BitsRead'
  BY <1>3, <1>6, <1>7 DEF Layout, BitsRead
<1> QED
  BY <1>1, <1>8, <1>9 DEF Layout

LEMMA ReturnLayout == Layout /\ Return => Layout'
<1> SUFFICES ASSUME Layout, Return
             PROVE  Layout'
  OBVIOUS
<1>1. IInv'
  BY ReturnKeeps DEF Layout
<1>2. /\ pc = "split" /\ pc' \in {"hash", "abort"}
      /\ pc' = "hash" => Len(blocks) * BlockBits = Len(message)
      /\ message' = message /\ given' = given /\ blocks' = blocks
      /\ bit_size' = bit_size /\ Count' = Count
  BY DEF Return, bit_size, Count
<1>3. Appended'
  BY <1>2 DEF Layout, Appended
<1>4. BitsRead'
  BY <1>2 DEF Layout, BitsRead
<1> QED
  BY <1>1, <1>3, <1>4 DEF Layout

LEMMA LayoutInductive == Layout /\ [Next]_vars => Layout'
<1>1. Layout /\ UNCHANGED vars => Layout'
  <2> SUFFICES ASSUME Layout, UNCHANGED vars PROVE Layout'
    OBVIOUS
  <2>1. IInv'
    BY IInvInductive DEF Layout
  <2>2. bit_size' = bit_size /\ Count' = Count
    BY DEF vars, bit_size, Count
  <2>3. Appended'
    BY <2>2 DEF vars, Layout, Appended
  <2>4. BitsRead'
    BY <2>2 DEF vars, Layout, BitsRead
  <2> QED
    BY <2>1, <2>3, <2>4 DEF Layout
<1> QED
  BY <1>1, PushOneLayout, PushZerosLayout, PushCountLayout, ReadBlockLayout, ReturnLayout
  DEF Next, Terminated

LEMMA LayoutAlways == Spec => []Layout
  BY InitLayout, LayoutInductive, PTL DEF Spec
-----------------------------------------------------------------------------
\* Where number a stands in L blocks of B, each of rows of W.
Placed(a, W, K, B, L) ==
  /\ a \div B \in 0..(L - 1)
  /\ (a % B) \div W \in 0..(K - 1)
  /\ a % W \in 0..(W - 1)
  /\ (a \div B) * B + ((a % B) \div W) * W + (a % W) = a

LEMMA Places ==
  ASSUME NEW W \in Nat \ {0}, NEW K \in Nat \ {0}, NEW B, B = W * K, NEW L \in Nat,
         NEW a \in Nat, a < L * B
  PROVE  Placed(a, W, K, B, L)
<1> DEFINE q == a \div B
           r == a % B
           u == r \div W
           s == r % W
           t == a % W
<1>1. B \in Nat \ {0}
  OBVIOUS
<1>2. a = B * q + r /\ r \in 0..(B - 1) /\ q \in Int
  <2>1. a \in Int /\ B \in Nat \ {0}
    BY <1>1
  <2> QED
    BY <2>1, Division, Zenon
<1> HIDE DEF q, r
<1>3. r = W * u + s /\ s \in 0..(W - 1) /\ u \in Int
  BY <1>2, Division
<1> HIDE DEF u, s
<1>4. q \in 0..(L - 1)
  <2>1. q >= 0
    <3> SUFFICES ASSUME q <= -1 PROVE FALSE
      BY <1>2
    <3>1. B * (-1 - q) >= 0
      BY <1>1, <1>2
    <3>2. B * (-1 - q) = -B - B * q
      BY <1>1, <1>2
    <3> QED
      BY <1>1, <1>2, <3>1, <3>2
  <2>2. q < L
    <3> SUFFICES ASSUME q >= L PROVE FALSE
      BY <1>2
    <3>1. B * (q - L) >= 0
      BY <1>1, <1>2
    <3>2. B * (q - L) = B * q - L * B
      BY <1>1, <1>2
    <3> QED
      BY <1>1, <1>2, <3>1, <3>2
  <2> QED
    BY <1>2, <2>1, <2>2
<1>5. u \in 0..(K - 1)
  <2>1. u >= 0
    <3> SUFFICES ASSUME u <= -1 PROVE FALSE
      BY <1>3
    <3>1. W * (-1 - u) >= 0
      BY <1>3
    <3>2. W * (-1 - u) = -W - W * u
      BY <1>3
    <3> QED
      BY <1>2, <1>3, <3>1, <3>2
  <2>2. u < K
    <3> SUFFICES ASSUME u >= K PROVE FALSE
      BY <1>3
    <3>1. W * (u - K) >= 0
      BY <1>3
    <3>2. W * (u - K) = W * u - B
      BY <1>3
    <3> QED
      BY <1>1, <1>2, <1>3, <3>1, <3>2
  <2> QED
    BY <1>3, <2>1, <2>2
<1>6. t = s
  <2>1. a = W * (K * q + u) + s
    <3>1. B * q = W * (K * q)
      BY <1>2
    <3>2. W * (K * q + u) = W * (K * q) + W * u
      BY <1>2, <1>3
    <3> QED
      BY <1>2, <1>3, <3>1, <3>2
  <2> DEFINE v == K * q + u
  <2>2. v \in Int
    BY <1>2, <1>3
  <2> HIDE DEF v
  <2>3. (W * v + s) % W = s
    BY <1>3, <2>2, RemainderUnique
  <2> QED
    BY <2>1, <2>3 DEF v
<1>7. q * B = B * q /\ u * W = W * u
  BY <1>1, <1>2, <1>3
<1> HIDE DEF t
<1>8. q * B + u * W + t = a
  <2> DEFINE x == q * B
             y == u * W
  <2>1. x = B * q /\ y = W * u
    BY <1>7
  <2>2. x \in Int /\ y \in Int
    BY <1>1, <1>2, <1>3
  <2> HIDE DEF x, y
  <2>3. a = x + r /\ r = y + s
    BY <1>2, <1>3, <2>1
  <2>4. x + y + t = a
    BY <1>3, <1>6, <2>2, <2>3
  <2> QED
    BY <2>4 DEF x, y
<1>9. t \in 0..(W - 1)
  BY <1>3, <1>6
<1> QED
  BY <1>4, <1>5, <1>8, <1>9 DEF q, r, u, t, Placed

\* The words hashed are the bits of the padded message, in its order
\* (SHA256.cpp:105-121).
LEMMA BlocksAreMessage ==
  ASSUME Layout, NEW n \in 1..(Len(blocks) * BlockBits)
  PROVE  BlockBit(n) = message[n]
<1> DEFINE a == n - 1
           L == Len(blocks)
           q == a \div BlockBits
           u == (a % BlockBits) \div WordBits
           t == a % WordBits
<1>1. L \in Nat /\ BlockBits \in Nat /\ WordBits \in Nat \ {0} /\ BlockWords \in Nat \ {0}
  BY Sizes, PaddingAssumption DEF Layout, IInv, TypeOK
<1> HIDE DEF L
<1>2. L * BlockBits \in Nat
  BY <1>1
<1>3. a \in Nat /\ a < L * BlockBits /\ n = a + 1
  BY <1>2 DEF L
<1> HIDE DEF a
<1>4. /\ q \in 0..(L - 1) /\ u \in 0..(BlockWords - 1) /\ t \in 0..(WordBits - 1)
      /\ q * BlockBits + u * WordBits + t = a
  <2>1. BlockBits = WordBits * BlockWords
    BY DEF BlockBits
  <2>2. Placed(a, WordBits, BlockWords, BlockBits, L)
    BY <1>1, <1>3, <2>1, Places
  <2> QED
    BY <2>2 DEF Placed
<1>5. BlockBit(n) = blocks[q + 1][u + 1][WordBits - (t + 1)]
  BY DEF BlockBit, a
<1> HIDE DEF q, u, t
<1> DEFINE b == q + 1
           w == u + 1
           p == WordBits - (t + 1)
<1>6. b \in 1..L /\ w \in 1..BlockWords /\ p \in 0..(WordBits - 1)
  BY <1>1, <1>4
<1>7. b - 1 = q /\ w - 1 = u /\ WordBits - p = t + 1
  BY <1>1, <1>4
<1>8. BlockBit(n) = blocks[b][w][p]
  BY <1>5
<1> HIDE DEF b, w, p
<1>9. blocks[b][w][p] =
        message[(b - 1) * BlockBits + (w - 1) * WordBits + (WordBits - p)]
  BY <1>6 DEF Layout, BitsRead, L
<1>10. q * BlockBits + u * WordBits + (t + 1) = n
  <2> DEFINE x == q * BlockBits
             y == u * WordBits
  <2>1. x \in Int /\ y \in Int /\ x + y + t = a
    BY <1>1, <1>4
  <2> HIDE DEF x, y
  <2>2. x + y + (t + 1) = n
    BY <1>3, <1>4, <2>1
  <2> QED
    BY <2>2 DEF x, y
<1> QED
  BY <1>7, <1>8, <1>9, <1>10

\* Reading the bits of a number that has no more of them gives the number
\* (SHA256.cpp:176-180).
LEMMA CountReadsBack ==
  ASSUME Layout, pc = "hash", ShiftedRight(bit_size, CountBits) = 0
  PROVE  CountedLength = bit_size
<1> DEFINE C == CountBits
           N == bit_size
           last == Len(blocks) * BlockBits
           Bits == [n \in 1..C |-> BlockBit(last - C + n)]
           P(f) == f = [n \in 0..C |-> IF n = 0 THEN 0
                                       ELSE 2 * f[n - 1] + BlockBit(last - CountBits + n)]
           f == CHOOSE h : P(h)
           g == [n \in 0..C |-> ShiftedRight(N, C - n)]
<1>1. C \in Nat /\ N \in Nat /\ last \in Nat /\ last = Len(message) /\ C <= last
  BY Sizes, PaddingAssumption DEF Layout, IInv, TypeOK, BitsRead, Appended, bit_size
<1>2. ASSUME NEW n \in 1..C
      PROVE  BlockBit(last - CountBits + n) = BitOf(N, C - n)
  <2>1. last - CountBits + n \in 1..(Len(blocks) * BlockBits)
    BY <1>1
  <2>2. BlockBit(last - CountBits + n) = message[last - CountBits + n]
    BY <2>1, BlocksAreMessage
  <2>3. message[Len(message) - CountBits + n] = Count[n]
    BY DEF Layout, Appended
  <2> QED
    BY <1>1, <2>2, <2>3 DEF Count
<1>3. ASSUME NEW n \in 1..C
      PROVE  ShiftedRight(N, C - n) = 2 * ShiftedRight(N, C - (n - 1)) + BitOf(N, C - n)
  <2> DEFINE k == C - n
  <2>1. k \in Nat /\ C - (n - 1) = k + 1
    BY <1>1
  <2> HIDE DEF k
  <2>2. ShiftedRight(N, k) \in Nat /\ ShiftedRight(N, k + 1) = ShiftedRight(N, k) \div 2
    BY <1>1, <2>1, ShiftStep
  <2> DEFINE x == ShiftedRight(N, k)
  <2>3. x = 2 * (x \div 2) + (x % 2) /\ x % 2 \in {0, 1}
    <3>1. x \in Nat
      BY <2>2
    <3> HIDE DEF x
    <3> QED
      BY <3>1, Halved
  <2>4. BitOf(N, k) = x % 2
    BY <2>3 DEF BitOf
  <2> QED
    BY <2>1, <2>2, <2>3, <2>4 DEF k
<1>4. ShiftedRight(N, C - 0) = 0 /\ ShiftedRight(N, C - C) = N
  <2>1. C - 0 = C /\ C - C = 0
    BY <1>1
  <2> QED
    BY <1>1, <2>1, ShiftStep
<1>5. P(g)
  <2>1. ASSUME NEW n \in 1..C
        PROVE  g[n] = 2 * g[n - 1] + BlockBit(last - CountBits + n)
    <3>1. n - 1 \in 0..C /\ n \in 0..C
      BY <1>1
    <3>2. g[n] = ShiftedRight(N, C - n) /\ g[n - 1] = ShiftedRight(N, C - (n - 1))
      BY <3>1
    <3> QED
      BY <1>2, <1>3, <3>2
  <2>2. g[0] = 0
    BY <1>1, <1>4
  <2>3. DOMAIN g = 0..C /\ g = [n \in 0..C |-> g[n]]
    OBVIOUS
  <2> HIDE DEF g
  <2>4. \A n \in 0..C : g[n] = IF n = 0 THEN 0
                               ELSE 2 * g[n - 1] + BlockBit(last - CountBits + n)
    BY <1>1, <2>1, <2>2
  <2> QED
    BY <2>3, <2>4
<1>6. P(f)
  <2>1. \E h : P(h)
    <3> HIDE DEF P, g
    <3> QED
      BY <1>5
  <2> QED
    BY <2>1
<1>7. CountedLength = f[C]
  BY DEF CountedLength
<1> DEFINE T == {n \in 0..C : f[n] = g[n]}
<1> HIDE DEF f, g
<1>8. \A n \in 0..C : n \in T
  <2>1. 0 \in T
    BY <1>1, <1>5, <1>6
  <2>2. ASSUME NEW n \in 0..(C - 1), n \in T PROVE n + 1 \in T
    <3>1. n + 1 \in 0..C /\ n + 1 # 0 /\ (n + 1) - 1 = n
      BY <1>1
    <3> DEFINE m == n + 1
    <3> HIDE DEF m
    <3>2. m \in 0..C /\ m # 0 /\ m - 1 = n
      BY <3>1 DEF m
    <3>3. f[m] = 2 * f[m - 1] + BlockBit(last - CountBits + m)
      BY <1>6, <3>2
    <3>4. g[m] = 2 * g[m - 1] + BlockBit(last - CountBits + m)
      BY <1>5, <3>2
    <3>5. f[n] = g[n]
      BY <2>2
    <3> QED
      BY <3>2, <3>3, <3>4, <3>5 DEF m
  <2>3. 0 \in Int /\ C \in Int
    BY <1>1
  <2> HIDE DEF T, C
  <2> QED
    BY <2>1, <2>2, <2>3, Counting!Induction
<1>9. f[C] = g[C]
  BY <1>1, <1>8
<1> QED
  BY <1>1, <1>4, <1>7, <1>9 DEF g

\* The blocks that are hashed determine the message, as long as its length can
\* be written in the bits for it: no two messages are padded to the same blocks
\* (SHA256.cpp:170-186).
THEOREM RecoverableAlways == Spec => []Recoverable
<1>1. Layout => Recoverable
  <2> SUFFICES ASSUME Layout, pc = "hash", ShiftedRight(bit_size, CountBits) = 0
               PROVE  Recoverable
    BY DEF Recoverable
  <2> DEFINE last == Len(blocks) * BlockBits
  <2>1. CountedLength = bit_size
    BY CountReadsBack
  <2>2. /\ last = Len(message) /\ last \in Nat /\ bit_size \in Nat
        /\ CountBits \in Nat /\ BlockBits \in Nat
        /\ last - CountBits \in (bit_size + 1)..(bit_size + BlockBits)
        /\ message[bit_size + 1] = 1
        /\ \A n \in 1..bit_size : message[n] = given[n]
        /\ \A n \in (bit_size + 2)..(last - CountBits) : message[n] = 0
    BY Sizes, PaddingAssumption
    DEF Layout, IInv, TypeOK, BitsRead, Appended, bit_size
  <2>3. \A n \in 1..last : BlockBit(n) = message[n]
    BY BlocksAreMessage
  <2> HIDE DEF last
  <2>4. \A n \in 1..bit_size : BlockBit(n) = given[n]
    BY <2>2, <2>3
  <2>5. BlockBit(bit_size + 1) = 1
    BY <2>2, <2>3
  <2>6. \A n \in (bit_size + 2)..(last - CountBits) : BlockBit(n) = 0
    BY <2>2, <2>3
  <2>7. last < bit_size + 1 + CountBits + BlockBits
    BY <2>2
  <2> QED
    BY <2>1, <2>4, <2>5, <2>6, <2>7 DEF Recoverable, last
<1> QED
  BY <1>1, LayoutAlways, PTL
=============================================================================
