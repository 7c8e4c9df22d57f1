------------------------ MODULE Certificates_proofs ------------------------
(***************************************************************************)
(* Proofs about the parser and about what verify_cert_chain() makes of     *)
(* what it parses, for every set of messages and every width of an octet   *)
(* and of a size.                                                          *)
(***************************************************************************)
EXTENDS Certificates, SequenceTheorems, TLAPS

-----------------------------------------------------------------------------
(* parse_impl().  The invariant says what the recursion leans on: every span *)
(* lies in the input, and every span that waits for the one inside it has    *)
(* checked the header it will go on from.                                    *)

AddOctet(c, n, o) == n * Base + o
NumberOf == INSTANCE Folding WITH Op <- AddOctet

IsSeq(q) == \E T : q \in Seq(T)

\* It is made of octets, and its size is a size_t.
InMemory(t) == t.octets \in Seq(0..(Base - 1)) /\ Len(t.octets) < SizeLimit

\* A span that lies in the input.
SpanOK(t) ==
  /\ t = [base |-> t.base, size |-> t.size, i |-> t.i, objs |-> t.objs]
  /\ {t.base, t.size, t.i} \subseteq Nat
  /\ t.i <= t.size
  /\ t.base + t.size <= Len(input.octets)
  /\ IsSeq(t.objs)

\* Its next object has passed the checks of parse_length() and subspan().
Fits(t) == t.i < t.size /\ LengthParses(t) /\ SpansFit(t)

SpansInv ==
  /\ InMemory(input)
  /\ IsSeq(stack) /\ stack # <<>>
  /\ \A k \in DOMAIN stack : SpanOK(stack[k])
  /\ \A k \in 1..(Len(stack) - 1) : Fits(stack[k])
-----------------------------------------------------------------------------
(* Sequences. *)

LEMMA BelowLast ==
  ASSUME NEW n \in Nat, NEW k \in 1..n, k # n
  PROVE  k \in 1..(n - 1)
  OBVIOUS

LEMMA SameInterval ==
  ASSUME NEW a \in Nat, NEW b \in Nat, 1..a = 1..b
  PROVE  a = b
<1>1. CASE a < b
  <2>1. b \in 1..b /\ b \notin 1..a
    BY <1>1
  <2> QED
    BY <2>1
<1>2. CASE b < a
  <2>1. a \in 1..a /\ a \notin 1..b
    BY <1>2
  <2> QED
    BY <2>1
<1> QED
  BY <1>1, <1>2

LEMMA FrontOfSeq ==
  ASSUME NEW T, NEW q \in Seq(T), q # <<>>
  PROVE  /\ Front(q) \in Seq(T)
         /\ Len(Front(q)) = Len(q) - 1
         /\ \A k \in 1..(Len(q) - 1) : Front(q)[k] = q[k]
         /\ Last(q) = q[Len(q)] /\ Len(q) \in Nat \ {0}
<1>1. Len(q) \in Nat \ {0} /\ \A k \in 1..Len(q) : q[k] \in T
  OBVIOUS
<1>2. \A k \in 1..(Len(q) - 1) : q[k] \in T
  BY <1>1
<1>3. SubSeq(q, 1, Len(q) - 1) \in Seq(T)
  BY <1>1, <1>2
<1>4. Len(SubSeq(q, 1, Len(q) - 1)) = Len(q) - 1
  <2> DEFINE m == Len(q) - 1
  <2>1. m \in Nat
    BY <1>1
  <2> HIDE DEF m
  <2>2. Len(SubSeq(q, 1, m)) = m
    BY <2>1
  <2> QED
    BY <2>2 DEF m
<1>5. \A k \in 1..(Len(q) - 1) : SubSeq(q, 1, Len(q) - 1)[k] = q[k]
  BY <1>1
<1> QED
  BY <1>1, <1>3, <1>4, <1>5 DEF Front, Last

\* The last member replaced.
LEMMA ReplaceLast ==
  ASSUME NEW T, NEW q \in Seq(T), q # <<>>, NEW x
  PROVE  /\ IsSeq(Append(Front(q), x))
         /\ Len(Append(Front(q), x)) = Len(q)
         /\ \A k \in 1..(Len(q) - 1) : Append(Front(q), x)[k] = q[k]
         /\ Append(Front(q), x)[Len(q)] = x
<1> DEFINE f == Front(q)
           U == T \cup {x}
<1>1. /\ f \in Seq(T) /\ Len(f) = Len(q) - 1 /\ Len(q) \in Nat \ {0}
      /\ \A k \in 1..(Len(q) - 1) : f[k] = q[k]
  BY FrontOfSeq
<1> HIDE DEF f
<1>2. f \in Seq(U)
  BY <1>1
<1>3. Append(f, x) \in Seq(U)
  BY <1>2
<1>4. \A k \in 1..(Len(q) - 1) : Append(f, x)[k] = q[k]
  BY <1>1, <1>2
<1>5. Append(f, x)[Len(q)] = x /\ Len(Append(f, x)) = Len(q)
  BY <1>1, <1>2
<1> QED
  BY <1>3, <1>4, <1>5 DEF IsSeq, f

LEMMA AppendAny ==
  ASSUME NEW q, IsSeq(q), NEW x
  PROVE  /\ IsSeq(Append(q, x))
         /\ Len(Append(q, x)) = Len(q) + 1 /\ Len(q) \in Nat
         /\ \A k \in 1..Len(q) : Append(q, x)[k] = q[k]
         /\ Append(q, x)[Len(q) + 1] = x
<1>1. PICK T : q \in Seq(T)
  BY DEF IsSeq
<1> DEFINE U == T \cup {x}
<1>2. q \in Seq(U)
  BY <1>1
<1>3. Append(q, x) \in Seq(U)
  BY <1>2
<1> QED
  BY <1>2, <1>3 DEF IsSeq
-----------------------------------------------------------------------------
(* The header of an object. *)

LEMMA Sizes ==
  /\ Base \in Nat \ {0} /\ High \in Nat \ {0} /\ SizeLimit \in Nat \ {0}
  /\ SizeOctets \in Nat \ {0}
  /\ Rest \in Nat
  /\ \A t \in Inputs : InMemory(t)
  /\ \A t : InMemory(t) =>
       /\ t.octets \in Seq(0..(Base - 1))
       /\ Len(t.octets) \in Nat /\ Len(t.octets) < SizeLimit
  BY DerAssumption DEF Rest, InMemory

\* A big-endian number is one.
LEMMA BigEndianType ==
  ASSUME NEW q \in Seq(0..(Base - 1))
  PROVE  BigEndian(q) \in Nat
<1> DEFINE n == Len(q)
<1>1. DOMAIN q = 1..n /\ n \in Nat
  OBVIOUS
<1>2. \A a \in Nat, k \in 1..n : AddOctet(q, a, q[k]) \in Nat
  BY Sizes DEF AddOctet
<1> HIDE DEF n
<1>3. PICK g : NumberOf!FoldSteps(g, q, n, Nat, 0, q)
  BY <1>1, <1>2, NumberOf!Fold
<1>4. BigEndian(q) = NumberOf!Folded(q, 0, q)
  BY DEF BigEndian, AddOctet, NumberOf!Folded, NumberOf!FoldLeft, FoldLeft, NumberOf!MapThenFoldSet,
         MapThenFoldSet, NumberOf!Max, Max
<1> QED
  BY <1>1, <1>3, <1>4 DEF NumberOf!FoldSteps

\* Where the contents of an object that fits are.
LEMMA Header ==
  ASSUME NEW t, InMemory(input), SpanOK(t), Fits(t)
  PROVE  /\ ContentAt(t) \in (t.i + 2)..t.size
         /\ ContentLength(t) \in Nat
         /\ ContentLength(t) = Rest \/ ContentAt(t) + ContentLength(t) <= t.size
         /\ ContentSize(t) \in 0..(t.size - ContentAt(t))
         /\ ContentLength(t) # Rest => ContentSize(t) = ContentLength(t)
         /\ t.size < SizeLimit
<1> DEFINE octets == input.octets
           B == 0..(Base - 1)
<1>1. octets \in Seq(B) /\ Len(octets) \in Nat /\ Len(octets) < SizeLimit
  BY Sizes
<1>2. /\ t.base \in Nat /\ t.size \in Nat /\ t.i \in Nat
      /\ t.base + t.size <= Len(octets)
  BY DEF SpanOK
<1>3. LengthParses(t) /\ SpansFit(t)
  BY DEF Fits
<1>4. t.base + (t.i + 1) + 1 \in 1..Len(octets)
  BY <1>1, <1>2, <1>3 DEF LengthParses, LengthCount
<1>5. LengthOctet(t) \in Nat
  <2> DEFINE k == t.base + (t.i + 1) + 1
             o == octets
  <2>1. B \subseteq Nat /\ k \in 1..Len(o) /\ o \in Seq(B)
    BY <1>1, <1>4, Sizes
  <2> HIDE DEF B, k, o
  <2>2. \A q \in Seq(B) : \A l \in 1..Len(q) : q[l] \in B
    OBVIOUS
  <2>3. o[k] \in Nat
    BY <2>1, <2>2
  <2> QED
    BY <2>3 DEF LengthOctet, OctetAt, k, o
<1>6. LengthCount(t) \in Nat
  BY <1>5, Sizes DEF LengthCount
<1>7. ContentAt(t) <= t.size /\ ContentAt(t) \in Nat /\ ContentAt(t) >= t.i + 2
  BY <1>2, <1>3, <1>6 DEF ContentAt, SpansFit, SubspanFits
<1>8. ContentLength(t) \in Nat
  <2>1. Slice(t, t.i + 2, LengthCount(t)) \in Seq(B)
    <3> DEFINE a == t.base + (t.i + 2) + 1
               b == t.base + (t.i + 2) + LengthCount(t)
    <3>1. a \in Nat /\ b \in Nat /\ 1 <= a /\ b <= Len(octets)
      <4>1. t.i + 2 + LengthCount(t) <= t.size
        BY <1>7 DEF ContentAt
      <4> DEFINE f == t.base
                 n == t.size
                 j == t.i
                 l == LengthCount(t)
                 m == Len(octets)
      <4>2. /\ f \in Nat /\ n \in Nat /\ j \in Nat /\ l \in Nat /\ m \in Nat
            /\ f + n <= m /\ j + 2 + l <= n
        BY <1>1, <1>2, <1>6, <4>1
      <4> HIDE DEF octets, f, n, j, l, m
      <4>3. /\ f + (j + 2) + 1 \in Nat /\ f + (j + 2) + l \in Nat
            /\ 1 <= f + (j + 2) + 1 /\ f + (j + 2) + l <= m
        BY <4>2
      <4> QED
        BY <4>3 DEF f, j, l, m
    <3> HIDE DEF a, b
    <3>2. SubSeq(octets, a, b) \in Seq(B)
      <4> HIDE DEF octets, B
      <4>1. \A k \in a..b : k \in 1..Len(octets)
        BY <1>1, <3>1
      <4>2. \A k \in a..b : octets[k] \in B
        BY <1>1, <4>1
      <4> QED
        BY <3>1, <4>2
    <3> QED
      BY <3>2 DEF Slice, a, b
  <2>2. BigEndian(Slice(t, t.i + 2, LengthCount(t))) \in Nat
    BY <2>1, BigEndianType
  <2> QED
    BY <2>2, <1>5 DEF ContentLength
<1>9. SubspanFits(t, ContentAt(t), ContentLength(t))
  BY <1>3 DEF SpansFit
<1>10. t.size < SizeLimit
  BY <1>1, <1>2, Sizes
<1>11. ContentLength(t) = Rest \/ ContentAt(t) + ContentLength(t) <= t.size
  BY <1>9 DEF SubspanFits
<1>12. /\ ContentSize(t) \in 0..(t.size - ContentAt(t))
       /\ ContentLength(t) # Rest => ContentSize(t) = ContentLength(t)
  <2>1. CASE ContentLength(t) = Rest
    <3>1. ContentSize(t) = t.size - ContentAt(t)
      BY <2>1 DEF ContentSize, SubspanSize
    <3> QED
      BY <2>1, <3>1, <1>2, <1>7
  <2>2. CASE ContentLength(t) # Rest
    <3>1. ContentSize(t) = ContentLength(t)
      BY <2>2 DEF ContentSize, SubspanSize
    <3> QED
      BY <2>2, <3>1, <1>2, <1>7, <1>8, <1>11
  <2> QED
    BY <2>1, <2>2
<1> QED
  BY <1>2, <1>7, <1>8, <1>10, <1>11, <1>12

LEMMA SpanExcept ==
  ASSUME NEW t, NEW i, NEW objs,
         t = [base |-> t.base, size |-> t.size, i |-> t.i, objs |-> t.objs]
  PROVE  [t EXCEPT !.i = i, !.objs = objs]
           = [base |-> t.base, size |-> t.size, i |-> i, objs |-> objs]
<1> DEFINE A == {t.base}
           B == {t.size}
           C == {t.i, i}
           D == {t.objs, objs}
           r == [t EXCEPT !.i = i, !.objs = objs]
<1>1. t \in [base : A, size : B, i : C, objs : D]
  BY Zenon
<1> HIDE DEF A, B, C, D
<1>2. i \in C /\ objs \in D
  BY DEF C, D
<1>3. /\ r \in [base : A, size : B, i : C, objs : D]
      /\ r.i = i /\ r.objs = objs /\ r.base = t.base /\ r.size = t.size
  BY <1>1, <1>2
<1> HIDE DEF r
<1>4. r = [base |-> r.base, size |-> r.size, i |-> r.i, objs |-> r.objs]
  BY <1>3
<1> QED
  BY <1>3, <1>4 DEF r

\* A sum of sizes that wraps around goes back by one.
LEMMA Wrap ==
  ASSUME NEW L \in Nat \ {0}, NEW i \in Nat, NEW size \in Nat, size < L,
         NEW c \in (i + 2)..size, NEW n \in Nat, n = L - 1 \/ c + n <= size
  PROVE  /\ (c + n) % L \in (i + 1)..size
         /\ n # L - 1 => (c + n) % L = c + n
<1>1. CASE n = L - 1
  <2>1. c + n = L * 1 + (c - 1) /\ c - 1 \in 0..(L - 1)
    BY <1>1
  <2>2. (L * 1 + (c - 1)) % L = c - 1
    BY <2>1
  <2>3. (c + n) % L = c - 1
    BY <2>1, <2>2
  <2> QED
    BY <2>3, <1>1
<1>2. CASE n # L - 1
  <2>1. c + n \in 0..(L - 1)
    BY <1>2
  <2>2. (c + n) % L = c + n
    BY <2>1
  <2> QED
    BY <2>1, <2>2, <1>2
<1> QED
  BY <1>1, <1>2

\* The next object begins behind this one, still in the span, or with the last
\* octet of the header if the length is Rest and the sum wraps around.
LEMMA AdvanceFits ==
  ASSUME NEW t, InMemory(input), SpanOK(t), Fits(t),
         NEW obj, obj.length = ContentLength(t)
  PROVE  /\ SpanOK(Advance(t, obj))
         /\ Advance(t, obj).i > t.i
         /\ Advance(t, obj).i \in Nat
         /\ ContentLength(t) # Rest => Advance(t, obj).i = ContentAt(t) + ContentLength(t)
<1> DEFINE c == ContentAt(t)
           n == ContentLength(t)
           next == (c + n) % SizeLimit
<1>1. /\ t = [base |-> t.base, size |-> t.size, i |-> t.i, objs |-> t.objs]
      /\ t.base \in Nat /\ t.size \in Nat /\ t.i \in Nat
      /\ t.base + t.size <= Len(input.octets) /\ IsSeq(t.objs)
  BY DEF SpanOK
<1>2. /\ c \in (t.i + 2)..t.size /\ n \in Nat
      /\ n = Rest \/ c + n <= t.size
      /\ t.size < SizeLimit
  BY Header
<1> HIDE DEF c, n
<1>3. next \in (t.i + 1)..t.size /\ (n # Rest => next = c + n)
  <2>1. n = SizeLimit - 1 \/ c + n <= t.size
    BY <1>2 DEF Rest
  <2>2. /\ (c + n) % SizeLimit \in (t.i + 1)..t.size
        /\ n # SizeLimit - 1 => (c + n) % SizeLimit = c + n
    BY <1>1, <1>2, <2>1, Sizes, Wrap, SMTT(30)
  <2> QED
    BY <2>2 DEF Rest
<1> HIDE DEF next
<1>4. Advance(t, obj)
        = [base |-> t.base, size |-> t.size, i |-> next, objs |-> Append(t.objs, obj)]
  <2>1. Advance(t, obj) = [t EXCEPT !.i = next, !.objs = Append(t.objs, obj)]
    BY DEF Advance, next, c, n
  <2> QED
    BY <1>1, <2>1, SpanExcept
<1>5. IsSeq(Append(t.objs, obj))
  BY <1>1, AppendAny
<1>6. next \in Nat /\ next <= t.size /\ next > t.i
  BY <1>1, <1>3
<1> QED
  BY <1>1, <1>3, <1>4, <1>5, <1>6 DEF SpanOK, c, n

\* The span of the contents is shorter and lies in the input too.
LEMMA InnerFits ==
  ASSUME NEW t, InMemory(input), SpanOK(t), Fits(t)
  PROVE  SpanOK(Inner(t)) /\ Inner(t).size < t.size
<1> DEFINE c == ContentAt(t)
           n == ContentSize(t)
<1>1. /\ t.base \in Nat /\ t.size \in Nat /\ t.i \in Nat
      /\ t.base + t.size <= Len(input.octets) /\ Len(input.octets) \in Nat
  BY Sizes DEF SpanOK
<1>2. c \in (t.i + 2)..t.size /\ n \in 0..(t.size - c)
  BY Header
<1>3. Inner(t) = [base |-> t.base + c, size |-> n, i |-> 0, objs |-> <<>>]
  BY DEF Inner, Span
<1> HIDE DEF c, n
<1>4. IsSeq(<<>>)
  BY DEF IsSeq
<1> DEFINE r == Inner(t)
<1>5. /\ r = [base |-> r.base, size |-> r.size, i |-> r.i, objs |-> r.objs]
      /\ r.base = t.base + c /\ r.size = n /\ r.i = 0 /\ r.objs = <<>>
  BY ONLY <1>3
<1>6. /\ t.base + c \in Nat /\ n \in Nat /\ 0 <= n /\ n < t.size
      /\ (t.base + c) + n <= Len(input.octets)
  <2> DEFINE b == t.base
             z == t.size
             i == t.i
             L == Len(input.octets)
  <2>1. /\ b \in Nat /\ z \in Nat /\ i \in Nat /\ L \in Nat /\ b + z <= L
        /\ c \in (i + 2)..z /\ n \in 0..(z - c)
    BY <1>1, <1>2
  <2> HIDE DEF b, z, i, L
  <2>2. b + c \in Nat /\ n \in Nat /\ 0 <= n /\ n < z /\ (b + c) + n <= L
    BY ONLY <2>1
  <2> QED
    BY <2>2 DEF b, z, i, L
<1> HIDE DEF r
<1>7. SpanOK(r) /\ r.size < t.size
  BY <1>4, <1>5, <1>6 DEF SpanOK
<1> QED
  BY <1>7 DEF r
-----------------------------------------------------------------------------
(* The spans, step by step. *)

LEMMA TopOfStack ==
  ASSUME SpansInv
  PROVE  /\ Len(stack) \in Nat \ {0} /\ DOMAIN stack = 1..Len(stack)
         /\ Top = stack[Len(stack)] /\ SpanOK(Top)
<1>1. PICK T : stack \in Seq(T)
  BY DEF SpansInv, IsSeq
<1>2. stack # <<>>
  BY DEF SpansInv
<1>3. Len(stack) \in Nat \ {0} /\ DOMAIN stack = 1..Len(stack)
  BY <1>1, <1>2
<1> QED
  BY <1>3 DEF SpansInv, Top, Last

\* Whether a span that stays fits does not change.
LEMMA SameFits ==
  ASSUME UNCHANGED input, NEW k, stack'[k] = stack[k], Fits(stack[k])
  PROVE  Fits(stack[k])'
<1>1. LengthParses(stack[k])'
  BY DEF Fits, LengthParses, LengthOctet, LengthCount, OctetAt
<1>2. SpansFit(stack[k])'
  BY DEF Fits, SpansFit, SubspanFits, LengthOctet, LengthCount, OctetAt,
         TotalLength, ContentAt, ContentLength, Slice
<1> QED
  BY <1>1, <1>2 DEF Fits

\* A step that replaces the innermost span by one that is all right.
LEMMA ReplaceTop ==
  ASSUME SpansInv, UNCHANGED input, NEW t, SpanOK(t),
         stack' = Append(Front(stack), t)
  PROVE  /\ SpansInv'
         /\ Len(stack') = Len(stack)
         /\ Top' = t
<1>1. PICK T : stack \in Seq(T)
  BY DEF SpansInv, IsSeq
<1>2. stack # <<>>
  BY DEF SpansInv
<1>3. Len(stack) \in Nat \ {0} /\ DOMAIN stack = 1..Len(stack)
  BY TopOfStack
<1>4. /\ IsSeq(stack')
      /\ Len(stack') = Len(stack)
      /\ \A k \in 1..(Len(stack) - 1) : stack'[k] = stack[k]
      /\ stack'[Len(stack)] = t
  BY <1>1, <1>2, ReplaceLast
<1>5. DOMAIN stack' = 1..Len(stack) /\ stack' # <<>>
  <2>1. PICK U : stack' \in Seq(U)
    BY <1>4 DEF IsSeq
  <2>2. Len(stack') # 0 /\ Len(<<>>) = 0
    BY <1>3, <1>4
  <2>3. DOMAIN stack' = 1..Len(stack')
    BY <2>1
  <2> QED
    BY <2>2, <2>3, <1>4
<1>6. ASSUME NEW k \in 1..Len(stack)
      PROVE  SpanOK(stack[k])'
  <2>1. CASE k = Len(stack)
    <3>1. stack'[k] = t
      BY <1>4, <2>1
    <3> QED
      BY <3>1 DEF SpanOK
  <2>2. CASE k # Len(stack)
    <3>1. k \in 1..(Len(stack) - 1)
      BY <1>3, <2>2, BelowLast
    <3>2. stack'[k] = stack[k]
      BY <1>4, <3>1
    <3>3. SpanOK(stack[k])
      BY <1>3 DEF SpansInv
    <3> QED
      BY <3>2, <3>3 DEF SpanOK
  <2> QED
    BY <2>1, <2>2
<1>7. ASSUME NEW k \in 1..(Len(stack) - 1)
      PROVE  Fits(stack[k])'
  BY <1>4, SameFits DEF SpansInv
<1>8. InMemory(input)'
  BY DEF SpansInv
<1>9. SpansInv'
  BY <1>4, <1>5, <1>6, <1>7, <1>8 DEF SpansInv
<1> QED
  BY <1>3, <1>4, <1>9 DEF Top, Last

\* A step that pushes a span on one that fits.
LEMMA PushOnTop ==
  ASSUME SpansInv, UNCHANGED input, NEW t, SpanOK(t), Fits(Top),
         stack' = Append(stack, t)
  PROVE  /\ SpansInv'
         /\ Len(stack') = Len(stack) + 1
         /\ Top' = t
<1>1. Len(stack) \in Nat \ {0} /\ DOMAIN stack = 1..Len(stack) /\ Top = stack[Len(stack)]
  BY TopOfStack
<1>2. /\ IsSeq(stack')
      /\ Len(stack') = Len(stack) + 1
      /\ \A k \in 1..Len(stack) : stack'[k] = stack[k]
      /\ stack'[Len(stack) + 1] = t
  BY AppendAny DEF SpansInv
<1>3. DOMAIN stack' = 1..(Len(stack) + 1) /\ stack' # <<>>
  <2>1. PICK U : stack' \in Seq(U)
    BY <1>2 DEF IsSeq
  <2>2. Len(stack') # 0 /\ Len(<<>>) = 0
    BY <1>1, <1>2
  <2>3. DOMAIN stack' = 1..Len(stack')
    BY <2>1
  <2> QED
    BY <2>2, <2>3, <1>2
<1>4. ASSUME NEW k \in 1..(Len(stack) + 1)
      PROVE  SpanOK(stack[k])'
  <2>1. CASE k = Len(stack) + 1
    <3>1. stack'[k] = t
      BY <1>2, <2>1
    <3> QED
      BY <3>1 DEF SpanOK
  <2>2. CASE k # Len(stack) + 1
    <3>1. k \in 1..Len(stack)
      BY <1>1, <2>2
    <3>2. stack'[k] = stack[k]
      BY <1>2, <3>1
    <3>3. SpanOK(stack[k])
      BY <1>1, <3>1 DEF SpansInv
    <3> QED
      BY <3>2, <3>3 DEF SpanOK
  <2> QED
    BY <2>1, <2>2
<1>5. ASSUME NEW k \in 1..Len(stack)
      PROVE  Fits(stack[k])'
  <2>1. stack'[k] = stack[k]
    BY <1>2
  <2>2. Fits(stack[k])
    <3>1. CASE k = Len(stack)
      BY <3>1, <1>1
    <3>2. CASE k # Len(stack)
      <4>1. k \in 1..(Len(stack) - 1)
        BY <1>1, <3>2, BelowLast
      <4> QED
        BY <4>1 DEF SpansInv
    <3> QED
      BY <3>1, <3>2
  <2> QED
    BY <2>1, <2>2, SameFits
<1>6. InMemory(input)'
  BY DEF SpansInv
<1>7. Len(stack') - 1 = Len(stack)
  BY <1>1, <1>2
<1>8. SpansInv'
  BY <1>2, <1>3, <1>4, <1>5, <1>6, <1>7 DEF SpansInv
<1> QED
  BY <1>2, <1>8 DEF Top, Last

\* A step that drops the innermost span and replaces the one around it.
LEMMA PopAndReplace ==
  ASSUME SpansInv, UNCHANGED input, NEW t, SpanOK(t), Len(stack) > 1,
         stack' = Append(Front(Front(stack)), t)
  PROVE  /\ SpansInv'
         /\ Len(stack') = Len(stack) - 1
         /\ \A k \in 1..(Len(stack) - 2) : stack'[k] = stack[k]
         /\ Top' = t
<1>1. PICK T : stack \in Seq(T)
  BY DEF SpansInv, IsSeq
<1>2. stack # <<>>
  BY DEF SpansInv
<1>3. Len(stack) \in Nat /\ DOMAIN stack = 1..Len(stack)
  BY TopOfStack
<1> DEFINE q == Front(stack)
<1>4. /\ q \in Seq(T) /\ Len(q) = Len(stack) - 1
      /\ \A k \in 1..(Len(stack) - 1) : q[k] = stack[k]
  BY <1>1, <1>2, FrontOfSeq
<1> HIDE DEF q
<1>5. q # <<>>
  <2>1. Len(<<>>) = 0 /\ Len(q) # 0
    BY <1>3, <1>4
  <2> QED
    BY <2>1
<1>6. /\ IsSeq(Append(Front(q), t))
      /\ Len(Append(Front(q), t)) = Len(q)
      /\ \A k \in 1..(Len(q) - 1) : Append(Front(q), t)[k] = q[k]
      /\ Append(Front(q), t)[Len(q)] = t
  BY <1>4, <1>5, ReplaceLast
<1>7. stack' = Append(Front(q), t)
  BY DEF q
<1> DEFINE n == Len(stack) - 1
<1>8. n \in Nat \ {0} /\ Len(q) = n
  BY <1>3, <1>4
<1> HIDE DEF n
<1>9. /\ IsSeq(stack') /\ Len(stack') = n
      /\ \A k \in 1..(n - 1) : stack'[k] = q[k]
      /\ stack'[n] = t
  BY <1>6, <1>7, <1>8
<1>10. \A k \in 1..(n - 1) : stack'[k] = stack[k] /\ k \in 1..(Len(stack) - 1)
  <2>1. \A k \in 1..(n - 1) : k \in 1..(Len(stack) - 1)
    BY <1>3, <1>8 DEF n
  <2> QED
    BY <2>1, <1>4, <1>9
<1>11. DOMAIN stack' = 1..n /\ stack' # <<>>
  <2>1. PICK U : stack' \in Seq(U)
    BY <1>9 DEF IsSeq
  <2>2. Len(stack') # 0 /\ Len(<<>>) = 0
    BY <1>8, <1>9
  <2>3. DOMAIN stack' = 1..Len(stack')
    BY <2>1
  <2> QED
    BY <2>2, <2>3, <1>9
<1>12. ASSUME NEW k \in 1..n
       PROVE  SpanOK(stack[k])'
  <2>1. CASE k = n
    <3>1. stack'[k] = t
      BY <1>9, <2>1
    <3> QED
      BY <3>1 DEF SpanOK
  <2>2. CASE k # n
    <3>1. k \in 1..(n - 1)
      BY <1>8, <2>2
    <3>2. stack'[k] = stack[k] /\ k \in 1..(Len(stack) - 1)
      BY <1>10, <3>1
    <3>4. k \in 1..Len(stack)
      BY <1>3, <3>2
    <3>3. SpanOK(stack[k])
      BY <1>3, <3>4 DEF SpansInv
    <3> QED
      BY <3>2, <3>3 DEF SpanOK
  <2> QED
    BY <2>1, <2>2
<1>13. ASSUME NEW k \in 1..(n - 1)
       PROVE  Fits(stack[k])'
  <2>1. stack'[k] = stack[k] /\ Fits(stack[k])
    BY <1>10 DEF SpansInv
  <2> QED
    BY <2>1, SameFits
<1>14. InMemory(input)'
  BY DEF SpansInv
<1>15. SpansInv'
  BY <1>9, <1>11, <1>12, <1>13, <1>14 DEF SpansInv
<1>16. n - 1 = Len(stack) - 2
  BY <1>3 DEF n
<1> QED
  BY <1>9, <1>10, <1>15, <1>16 DEF Top, Last, n

\* An object that was parsed knows the length in its header, so Advance() goes
\* behind it.
LEMMA PrimitiveAdvances ==
  ASSUME Primitive
  PROVE  /\ Fits(Top) /\ UNCHANGED <<pc, input>>
         /\ \E octets, arcs :
              stack' = Append(Front(stack),
                              Advance(Top, Object(Top, octets, arcs, <<>>)))
<1>1. Fits(Top)
  BY DEF Primitive, More, Fits
<1> QED
  BY <1>1 DEF Primitive

LEMMA PrimitiveKeepsSpans ==
  ASSUME SpansInv, Primitive
  PROVE  /\ SpansInv'
         /\ Len(stack') = Len(stack)
         /\ Top'.i > Top.i
<1>1. PICK octets, arcs :
        stack' = Append(Front(stack), Advance(Top, Object(Top, octets, arcs, <<>>)))
  BY PrimitiveAdvances
<1> DEFINE obj == Object(Top, octets, arcs, <<>>)
           t == Advance(Top, obj)
<1>2. Fits(Top) /\ SpanOK(Top) /\ InMemory(input) /\ UNCHANGED input
  BY PrimitiveAdvances, TopOfStack DEF SpansInv
<1>3. obj.length = ContentLength(Top)
  BY DEF Object
<1> HIDE DEF obj
<1>4. SpanOK(t) /\ t.i > Top.i
  BY <1>2, <1>3, AdvanceFits
<1>5. stack' = Append(Front(stack), t)
  BY <1>1 DEF obj
<1> HIDE DEF t
<1> QED
  BY <1>2, <1>4, <1>5, ReplaceTop

LEMMA BeginKeepsSpans ==
  ASSUME SpansInv, BeginConstructed
  PROVE  /\ SpansInv'
         /\ Len(stack') = Len(stack) + 1
         /\ Top'.size < Top.size
<1>1. Fits(Top)
  BY DEF BeginConstructed, More, Fits
<1>2. SpanOK(Top) /\ InMemory(input) /\ UNCHANGED input
  BY TopOfStack DEF SpansInv, BeginConstructed
<1>3. SpanOK(Inner(Top)) /\ Inner(Top).size < Top.size
  BY <1>1, <1>2, InnerFits
<1>4. stack' = Append(stack, Inner(Top))
  BY DEF BeginConstructed
<1> QED
  BY <1>1, <1>2, <1>3, <1>4, PushOnTop

\* The span around the innermost one.
LEMMA OuterSpan ==
  ASSUME SpansInv, Len(stack) > 1
  PROVE  /\ Last(Front(stack)) = stack[Len(stack) - 1]
         /\ SpanOK(stack[Len(stack) - 1]) /\ Fits(stack[Len(stack) - 1])
<1>1. PICK T : stack \in Seq(T)
  BY DEF SpansInv, IsSeq
<1>2. stack # <<>>
  BY DEF SpansInv
<1>3. Len(stack) \in Nat /\ DOMAIN stack = 1..Len(stack)
  BY TopOfStack
<1> DEFINE n == Len(stack) - 1
<1>4. n \in 1..n /\ n \in 1..Len(stack)
  BY <1>3
<1>5. Len(Front(stack)) = n /\ Front(stack)[n] = stack[n]
  BY <1>1, <1>2, <1>4, FrontOfSeq
<1>6. SpanOK(stack[n]) /\ Fits(stack[n])
  BY <1>3, <1>4 DEF SpansInv
<1> QED
  BY <1>5, <1>6 DEF Last

LEMMA EndKeepsSpans ==
  ASSUME SpansInv, EndConstructed
  PROVE  /\ SpansInv'
         /\ Len(stack') = Len(stack) - 1
         /\ \A k \in 1..(Len(stack) - 2) : stack'[k] = stack[k]
         /\ Top'.i > stack[Len(stack) - 1].i
<1> DEFINE outer == stack[Len(stack) - 1]
           obj == Object(outer, <<>>, <<>>, Top.objs)
           t == Advance(outer, obj)
<1>1. Len(stack) > 1 /\ UNCHANGED input /\ InMemory(input)
  BY DEF EndConstructed, SpansInv
<1>2. Last(Front(stack)) = outer /\ SpanOK(outer) /\ Fits(outer)
  BY <1>1, OuterSpan
<1>3. stack' = Append(Front(Front(stack)), t)
  BY <1>2 DEF EndConstructed
<1>4. obj.length = ContentLength(outer)
  BY DEF Object
<1> HIDE DEF outer, obj
<1>5. SpanOK(t) /\ t.i > outer.i
  BY <1>1, <1>2, <1>4, AdvanceFits
<1> HIDE DEF t
<1> QED
  BY <1>1, <1>3, <1>5, PopAndReplace DEF outer

\* Where parse_raw() begins.
Fresh ==
  /\ pc # "abort"
  /\ pc = "return" => input.octets = <<>>
  /\ InMemory(input)
  /\ stack = Whole(input.octets)

LEMMA InitFresh == Init => Fresh
BY Sizes DEF Init, Fresh

LEMMA FreshSpans == Fresh => SpansInv
<1> SUFFICES ASSUME Fresh PROVE SpansInv
  OBVIOUS
<1>1. InMemory(input) /\ Len(input.octets) \in Nat
  BY Sizes DEF Fresh
<1>2. stack = <<[base |-> 0, size |-> Len(input.octets), i |-> 0, objs |-> <<>>]>>
  BY DEF Fresh, Whole, Span
<1>3. IsSeq(<<>>) /\ IsSeq(stack)
  <2>1. <<>> \in Seq({}) /\ \A x : <<x>> \in Seq({x})
    OBVIOUS
  <2> QED
    BY <1>2, <2>1, Zenon DEF IsSeq
<1>4. Len(stack) = 1 /\ DOMAIN stack = {1} /\ stack # <<>>
  BY <1>2
<1>5. SpanOK(stack[1])
  BY <1>1, <1>2, <1>3 DEF SpanOK
<1> QED
  BY <1>1, <1>3, <1>4, <1>5 DEF SpansInv

LEMMA StutterKeepsSpans ==
  ASSUME SpansInv, UNCHANGED <<input, stack>>
  PROVE  SpansInv'
<1>1. input' = input /\ stack' = stack
  OBVIOUS
<1>2. \A t : SpanOK(t)' <=> SpanOK(t)
  BY <1>1 DEF SpanOK
<1>3. \A t : LengthParses(t)' <=> LengthParses(t)
  BY <1>1 DEF LengthParses, LengthOctet, LengthCount, OctetAt
<1>4. \A t : TotalLength(t)' = TotalLength(t) /\ ContentLength(t)' = ContentLength(t)
  BY <1>1 DEF TotalLength, ContentLength, ContentAt, LengthOctet, LengthCount, OctetAt, Slice
<1>5. \A t : ContentAt(t)' = ContentAt(t)
  BY <1>1 DEF ContentAt, LengthOctet, LengthCount, OctetAt
<1>6. \A t : SpansFit(t)' <=> SpansFit(t)
  BY <1>1, <1>4, <1>5 DEF SpansFit, SubspanFits
<1>7. \A t : Fits(t)' <=> Fits(t)
  BY <1>3, <1>6 DEF Fits
<1> QED
  BY <1>1, <1>2, <1>7 DEF SpansInv

LEMMA NextSpans == SpansInv /\ [Next]_vars => SpansInv'
<1> SUFFICES ASSUME SpansInv, [Next]_vars PROVE SpansInv'
  OBVIOUS
<1>1. CASE Primitive
  BY <1>1, PrimitiveKeepsSpans
<1>2. CASE BeginConstructed
  BY <1>2, BeginKeepsSpans
<1>3. CASE EndConstructed
  BY <1>3, EndKeepsSpans
<1>4. CASE Abort \/ Return \/ Terminated \/ UNCHANGED vars
  BY <1>4, StutterKeepsSpans DEF Abort, Return, Terminated, vars
<1> QED
  BY <1>1, <1>2, <1>3, <1>4 DEF Next, Step

\* Every span lies in the input, and every span but the innermost has checked the
\* header it goes on from when the call returns (certparser.cpp:258-290).
THEOREM SpansInInput == Spec => []SpansInv
  BY InitFresh, FreshSpans, NextSpans, PTL DEF Spec

GetsOn ==
  \/ pc # "parse" \/ pc' # "parse"
  \/ Len(stack') > Len(stack) /\ Last(stack').size < Top.size
  \/ Len(stack') <= Len(stack) /\ Last(stack').i > stack[Len(stack')].i

LEMMA NextGetsOn == SpansInv /\ [Next]_vars => [GetsOn]_vars
<1> SUFFICES ASSUME SpansInv, Next, pc = "parse", pc' = "parse"
             PROVE  \/ Len(stack') > Len(stack) /\ Last(stack').size < Top.size
                    \/ /\ Len(stack') <= Len(stack)
                       /\ Last(stack').i > stack[Len(stack')].i
  BY DEF GetsOn
<1>0. Len(stack) \in Nat /\ Top = stack[Len(stack)] /\ Top' = Last(stack')
  BY TopOfStack DEF Top
<1>1. CASE Primitive
  <2>1. Len(stack') = Len(stack) /\ Top'.i > Top.i
    BY <1>1, PrimitiveKeepsSpans
  <2> QED
    BY <1>0, <2>1
<1>2. CASE BeginConstructed
  <2>1. Len(stack') = Len(stack) + 1 /\ Top'.size < Top.size
    BY <1>2, BeginKeepsSpans
  <2> QED
    BY <1>0, <2>1
<1>3. CASE EndConstructed
  <2>1. Len(stack') = Len(stack) - 1 /\ Top'.i > stack[Len(stack) - 1].i
    BY <1>3, EndKeepsSpans
  <2> QED
    BY <1>0, <2>1
<1>4. CASE Abort \/ Return \/ Terminated
  BY <1>4 DEF Abort, Return, Terminated
<1> QED
  BY <1>1, <1>2, <1>3, <1>4 DEF Next, Step

\* Every turn of parse_impl() gets on, even where the sum of sizes wraps around:
\* it cannot loop on any input (certparser.cpp:260, 283-285).
THEOREM ParsesOnAlways == Spec => ParsesOn
  BY SpansInInput, NextGetsOn, PTL DEF Spec, ParsesOn, GetsOn
-----------------------------------------------------------------------------
(* The raw octets of the objects parsed. *)

BelowRest(objs) == \A j \in DOMAIN objs : objs[j].length < Rest

\* The span t as RawOctetsTile wants it, its raw octets being octets.
Tiled(t) ==
  /\ RawOctets(t.objs) \in Seq(Seq(0..(Base - 1)))
  /\ BelowRest(t.objs) => FlattenSeq(RawOctets(t.objs)) = Slice(t, 0, t.i)

TileInv == \A k \in DOMAIN stack : Tiled(stack[k])

\* Slices that lie one behind the other make up one.
LEMMA AdjacentSlices ==
  ASSUME NEW t, InMemory(input), SpanOK(t), NEW m \in t.i..t.size
  PROVE  /\ Slice(t, 0, t.i) \o Slice(t, t.i, m - t.i) = Slice(t, 0, m)
         /\ Slice(t, t.i, m - t.i) \in Seq(0..(Base - 1))
<1> DEFINE octets == input.octets
           b == t.base
           i == t.i
           n == t.size
           B == 0..(Base - 1)
<1>1. /\ octets \in Seq(B) /\ b \in Nat /\ i \in Nat /\ n \in Nat /\ i <= n
      /\ b + n <= Len(octets) /\ Len(octets) \in Nat /\ m \in i..n
  BY Sizes DEF SpanOK
<1>2. /\ Slice(t, 0, t.i) = SubSeq(octets, b + 0 + 1, b + 0 + i)
      /\ Slice(t, t.i, m - t.i) = SubSeq(octets, b + i + 1, b + i + (m - i))
      /\ Slice(t, 0, m) = SubSeq(octets, b + 0 + 1, b + 0 + m)
  BY DEF Slice
<1> HIDE DEF octets, b, i, n, B
<1>3. b + 0 = b /\ b + i + (m - i) = b + m
  BY <1>1
<1>4. /\ b + 1 \in 1..(Len(octets) + 1) /\ b + i \in ((b + 1) - 1)..Len(octets)
      /\ b + m \in (b + i)..Len(octets)
  BY <1>1
<1>5. SubSeq(octets, b + 1, b + i) \o SubSeq(octets, (b + i) + 1, b + m)
        = SubSeq(octets, b + 1, b + m)
  BY <1>1, <1>4, ConcatAdjacentSubSeq
<1>6. SubSeq(octets, b + i + 1, b + m) \in Seq(B)
  <2>1. b + i + 1 \in Int /\ b + m \in Int
    BY <1>1
  <2>2. \A k \in (b + i + 1)..(b + m) : k \in 1..Len(octets)
    BY <1>1
  <2>3. \A k \in (b + i + 1)..(b + m) : octets[k] \in B
    BY <1>1, <2>2
  <2> QED
    BY <2>1, <2>3, SubSeqProperties
<1> QED
  BY <1>2, <1>3, <1>5, <1>6 DEF B

\* The raw octets of an object of known length end where the next one begins.
LEMMA RawEndsAtNext ==
  ASSUME NEW t, InMemory(input), SpanOK(t), Fits(t)
  PROVE  /\ Raw(t) \in Seq(0..(Base - 1))
         /\ ContentLength(t) # Rest =>
              Raw(t) = Slice(t, t.i, (ContentAt(t) + ContentLength(t)) - t.i)
<1> DEFINE i == t.i
           size == t.size
           c == ContentAt(t)
           n == ContentLength(t)
           l == TotalLength(t)
           r == SubspanSize(t, t.i, l)
<1>1. /\ i \in Nat /\ size \in Nat /\ i <= size
      /\ c \in (i + 2)..size /\ n \in Nat
      /\ n = Rest \/ c + n <= size
      /\ size < SizeLimit
  BY Header DEF SpanOK
<1>2. l = (c - i + n) % SizeLimit
  BY DEF TotalLength
<1>3. r = IF l = Rest THEN size - i ELSE l
  BY DEF SubspanSize
<1>4. l = Rest \/ i + l <= size
  BY DEF Fits, SpansFit, SubspanFits
<1>5. Raw(t) = Slice(t, i, r)
  BY DEF Raw
<1> HIDE DEF i, size, c, n, l, r
<1>6. c - i + n \in Nat
  BY <1>1
<1>7. l \in Nat
  <2> DEFINE a == c - i + n
  <2>1. a \in Nat
    BY <1>6
  <2> HIDE DEF a
  <2>2. a % SizeLimit \in Nat
    BY <2>1, Sizes
  <2> QED
    BY <1>2, <2>2 DEF a
<1>8. r \in Nat /\ i + r <= size
  BY <1>1, <1>3, <1>4, <1>7
<1>9. i + r \in i..size /\ (i + r) - i = r
  BY <1>1, <1>8
<1>10. Raw(t) \in Seq(0..(Base - 1))
  BY <1>5, <1>9, AdjacentSlices DEF i, size
<1>11. ASSUME n # Rest
       PROVE  r = (c + n) - i
  <2>1. c - i + n \in 0..(SizeLimit - 1)
    BY <1>1, <1>11, Sizes
  <2>2. l = c - i + n
    <3> DEFINE a == c - i + n
    <3>1. a \in 0..(SizeLimit - 1)
      BY <2>1
    <3> HIDE DEF a
    <3>2. a % SizeLimit = a
      BY <3>1, Sizes, SMTT(30)
    <3> QED
      BY <1>2, <3>2 DEF a
  <2>3. CASE l = Rest
    <3>1. size - i >= SizeLimit - 1
      BY <1>1, <1>11, <2>2, <2>3, Sizes DEF Rest
    <3>2. i = 0 /\ size = SizeLimit - 1
      BY <1>1, <3>1, Sizes
    <3> QED
      BY <1>1, <1>3, <2>2, <2>3, <3>2, Sizes DEF Rest
  <2>4. CASE l # Rest
    BY <1>1, <1>3, <2>2, <2>4
  <2> QED
    BY <2>3, <2>4
<1> QED
  BY <1>5, <1>10, <1>11 DEF i, c, n

\* The raw octets of one more object are those before it and its own.
LEMMA FlattenOneMore ==
  ASSUME NEW E, NEW q \in Seq(Seq(E)), NEW r \in Seq(E)
  PROVE  FlattenSeq(Append(q, r)) = FlattenSeq(q) \o r
<1>1. NumberOf!FlattenSeq(Append(q, r)) = NumberOf!FlattenSeq(q) \o r
  BY NumberOf!FlattenAppend
<1>2. \A p : NumberOf!FlattenSeq(p) = FlattenSeq(p)
  BY DEF NumberOf!FlattenSeq, FlattenSeq
<1> QED
  BY <1>1, <1>2

LEMMA RawOctetsAppend ==
  ASSUME NEW objs, IsSeq(objs), NEW obj
  PROVE  /\ RawOctets(Append(objs, obj)) = Append(RawOctets(objs), obj.raw)
         /\ BelowRest(Append(objs, obj)) => BelowRest(objs) /\ obj.length < Rest
<1> DEFINE n == Len(objs)
           more == Append(objs, obj)
<1>1. PICK T : objs \in Seq(T)
  BY DEF IsSeq
<1>2. n \in Nat /\ DOMAIN objs = 1..n
  BY <1>1
<1>3. /\ DOMAIN more = 1..(n + 1)
      /\ \A k \in 1..n : more[k] = objs[k]
      /\ more[n + 1] = obj
  <2>1. PICK U : more \in Seq(U)
    BY AppendAny DEF IsSeq
  <2>2. Len(more) = n + 1 /\ DOMAIN more = 1..Len(more)
    BY <2>1, AppendAny
  <2> QED
    BY <2>2, AppendAny
<1> DEFINE q == [k \in 1..n |-> objs[k].raw]
           Q == {objs[k].raw : k \in 1..n}
<1>4. RawOctets(objs) = q
  BY <1>2 DEF RawOctets
<1>5. q \in Seq(Q) /\ Len(q) = n
  <2>1. q \in [1..n -> Q]
    OBVIOUS
  <2> HIDE DEF q, Q, n
  <2>2. q \in Seq(Q)
    BY <1>2, <2>1, SeqDef
  <2>3. Len(q) \in Nat /\ DOMAIN q = 1..Len(q) /\ DOMAIN q = 1..n
    BY <2>1, <2>2
  <2> QED
    BY <1>2, <2>2, <2>3, SameInterval
<1>6. RawOctets(more) = [k \in 1..(n + 1) |-> more[k].raw]
  BY <1>3 DEF RawOctets
<1> HIDE DEF more, n
<1>7. Append(q, obj.raw) = [k \in 1..(n + 1) |-> IF k = n + 1 THEN obj.raw ELSE q[k]]
  <2> DEFINE p == Append(q, obj.raw)
  <2> HIDE DEF q, Q
  <2>1. IsSeq(q)
    BY <1>5 DEF IsSeq
  <2>2. /\ IsSeq(p) /\ Len(p) = n + 1 /\ p[n + 1] = obj.raw
        /\ \A k \in 1..n : p[k] = q[k]
    BY <1>5, <2>1, AppendAny
  <2> HIDE DEF p
  <2>3. PICK U : p \in Seq(U)
    BY <2>2 DEF IsSeq
  <2>4. p = [k \in 1..(n + 1) |-> p[k]]
    BY <2>2, <2>3
  <2>5. \A k \in 1..(n + 1) : p[k] = IF k = n + 1 THEN obj.raw ELSE q[k]
    <3>1. \A k \in 1..(n + 1) : k # n + 1 => k \in 1..n
      BY <1>2
    <3> QED
      BY <2>2, <3>1
  <2> QED
    BY <2>4, <2>5 DEF p
<1>8. ASSUME NEW k \in 1..(n + 1)
      PROVE  more[k].raw = IF k = n + 1 THEN obj.raw ELSE q[k]
  <2>1. CASE k = n + 1
    BY <2>1, <1>3
  <2>2. CASE k # n + 1
    <3>1. k \in 1..n
      BY <1>2, <2>2
    <3> QED
      BY <2>2, <3>1, <1>3
  <2> QED
    BY <2>1, <2>2
<1>9. RawOctets(more) = Append(q, obj.raw)
  BY <1>6, <1>7, <1>8
<1>10. ASSUME BelowRest(more)
       PROVE  BelowRest(objs) /\ obj.length < Rest
  <2>1. \A k \in 1..(n + 1) : more[k].length < Rest
    BY <1>3, <1>10 DEF BelowRest
  <2>2. n + 1 \in 1..(n + 1) /\ \A k \in 1..n : k \in 1..(n + 1)
    BY <1>2
  <2> QED
    BY <1>2, <1>3, <2>1, <2>2 DEF BelowRest
<1> QED
  BY <1>4, <1>9, <1>10 DEF more

LEMMA AdvanceTiles ==
  ASSUME NEW t, InMemory(input), SpanOK(t), Fits(t), Tiled(t),
         NEW obj, obj.length = ContentLength(t), obj.raw = Raw(t)
  PROVE  Tiled(Advance(t, obj))
<1> DEFINE u == Advance(t, obj)
           B == 0..(Base - 1)
           m == ContentAt(t) + ContentLength(t)
<1>1. IsSeq(t.objs)
  BY DEF SpanOK
<1>2. u.objs = Append(t.objs, obj) /\ u.base = t.base
  <2>1. t = [base |-> t.base, size |-> t.size, i |-> t.i, objs |-> t.objs]
    BY DEF SpanOK
  <2>2. u = [t EXCEPT !.i = m % SizeLimit, !.objs = Append(t.objs, obj)]
    BY DEF Advance
  <2> DEFINE next == m % SizeLimit
             objs == Append(t.objs, obj)
  <2>3. u = [t EXCEPT !.i = next, !.objs = objs]
    BY <2>2
  <2> HIDE DEF next, objs, u
  <2>4. u = [base |-> t.base, size |-> t.size, i |-> next, objs |-> objs]
    BY <2>1, <2>3, SpanExcept
  <2> QED
    BY <2>4 DEF objs
<1>3. /\ RawOctets(u.objs) = Append(RawOctets(t.objs), Raw(t))
      /\ BelowRest(u.objs) => BelowRest(t.objs) /\ ContentLength(t) < Rest
  BY <1>1, <1>2, RawOctetsAppend
<1>4. /\ Raw(t) \in Seq(B)
      /\ ContentLength(t) # Rest => Raw(t) = Slice(t, t.i, m - t.i)
  BY RawEndsAtNext
<1>5. RawOctets(t.objs) \in Seq(Seq(B))
  BY DEF Tiled
<1>6. RawOctets(u.objs) \in Seq(Seq(B))
  <2> DEFINE q == RawOctets(t.objs)
             r == Raw(t)
             D == Seq(B)
  <2>1. q \in Seq(D) /\ r \in D
    BY <1>4, <1>5
  <2> HIDE DEF q, r, D
  <2>2. Append(q, r) \in Seq(D)
    BY <2>1
  <2> QED
    BY <1>3, <2>2 DEF q, r, D
<1>7. ASSUME BelowRest(u.objs)
      PROVE  FlattenSeq(RawOctets(u.objs)) = Slice(u, 0, u.i)
  <2>1. BelowRest(t.objs) /\ ContentLength(t) # Rest
    BY <1>3, <1>7, Header, Sizes
  <2>2. u.i = m
    BY <2>1, AdvanceFits
  <2>3. m \in t.i..t.size
    BY <2>1, Header DEF SpanOK
  <2>4. FlattenSeq(RawOctets(u.objs)) = FlattenSeq(RawOctets(t.objs)) \o Raw(t)
    BY <1>3, <1>4, <1>5, FlattenOneMore
  <2>5. FlattenSeq(RawOctets(t.objs)) = Slice(t, 0, t.i)
    BY <2>1 DEF Tiled
  <2>6. Raw(t) = Slice(t, t.i, m - t.i)
    BY <1>4, <2>1
  <2>7. Slice(t, 0, t.i) \o Slice(t, t.i, m - t.i) = Slice(t, 0, m)
    BY <2>3, AdjacentSlices
  <2>8. Slice(u, 0, u.i) = Slice(t, 0, m)
    <3> HIDE DEF u, m
    <3> QED
      BY <1>2, <2>2 DEF Slice
  <2> QED
    BY <2>4, <2>5, <2>6, <2>7, <2>8
<1> QED
  BY <1>6, <1>7 DEF Tiled

LEMMA FreshTiles ==
  ASSUME NEW b, NEW n, b \in Nat, n \in Nat
  PROVE  Tiled(Span(b, n))
<1> DEFINE t == Span(b, n)
<1>1. t.objs = <<>> /\ t.i = 0 /\ t.base = b
  BY DEF Span
<1>2. DOMAIN <<>> = {}
  OBVIOUS
<1>3. RawOctets(<<>>) = <<>>
  BY <1>2 DEF RawOctets
<1>4. FlattenSeq(<<>>) = <<>>
  BY DEF FlattenSeq
<1>5. Slice(t, 0, 0) = SubSeq(input.octets, b + 0 + 1, b + 0 + 0)
  BY <1>1 DEF Slice
<1>6. SubSeq(input.octets, b + 0 + 1, b + 0 + 0) = <<>>
  <2>1. b + 0 + 1 \in Int /\ b + 0 + 0 \in Int /\ b + 0 + 0 < b + 0 + 1
    OBVIOUS
  <2> QED
    BY <2>1, SubSeqEmpty
<1>7. <<>> \in Seq(Seq(0..(Base - 1)))
  OBVIOUS
<1> HIDE DEF t
<1> QED
  BY <1>1, <1>3, <1>4, <1>5, <1>6, <1>7 DEF Tiled, t

LEMMA SameTiled ==
  ASSUME UNCHANGED input, NEW k, NEW l, stack'[k] = stack[l], Tiled(stack[l])
  PROVE  Tiled(stack[k])'
  BY DEF Tiled, Slice, RawOctets, BelowRest

LEMMA NewTiled ==
  ASSUME UNCHANGED input, NEW k, NEW t, stack'[k] = t, Tiled(t)
  PROVE  Tiled(stack[k])'
  BY DEF Tiled, Slice, RawOctets, BelowRest

LEMMA PrimitiveTiles ==
  ASSUME SpansInv, TileInv, Primitive
  PROVE  TileInv'
<1>1. PICK octets, arcs :
        stack' = Append(Front(stack), Advance(Top, Object(Top, octets, arcs, <<>>)))
  BY PrimitiveAdvances
<1> DEFINE obj == Object(Top, octets, arcs, <<>>)
           t == Advance(Top, obj)
           n == Len(stack)
<1>2. /\ Fits(Top) /\ SpanOK(Top) /\ InMemory(input) /\ UNCHANGED input
      /\ n \in Nat \ {0} /\ DOMAIN stack = 1..n /\ Top = stack[n]
  BY PrimitiveAdvances, TopOfStack DEF SpansInv
<1>3. obj.length = ContentLength(Top) /\ obj.raw = Raw(Top)
  BY DEF Object
<1>4. Tiled(Top)
  BY <1>2 DEF TileInv
<1> HIDE DEF obj
<1>5. Tiled(t)
  BY <1>2, <1>3, <1>4, AdvanceTiles
<1> HIDE DEF t
<1>6. /\ IsSeq(stack') /\ Len(stack') = n
      /\ \A k \in 1..(n - 1) : stack'[k] = stack[k]
      /\ stack'[n] = t
  <2>1. PICK T : stack \in Seq(T)
    BY DEF SpansInv, IsSeq
  <2>2. stack' = Append(Front(stack), t) /\ stack # <<>>
    BY <1>1 DEF t, obj, SpansInv
  <2> QED
    BY <2>1, <2>2, ReplaceLast
<1>7. DOMAIN stack' = 1..n
  BY <1>6 DEF IsSeq
<1>8. ASSUME NEW k \in 1..n
      PROVE  Tiled(stack[k])'
  <2>1. CASE k = n
    BY <2>1, <1>2, <1>5, <1>6, NewTiled
  <2>2. CASE k # n
    <3>1. k \in 1..(n - 1)
      BY <1>2, <2>2, BelowLast
    <3>2. stack'[k] = stack[k] /\ Tiled(stack[k])
      BY <1>2, <1>6, <3>1 DEF TileInv
    <3> QED
      BY <3>2, <1>2, SameTiled
  <2> QED
    BY <2>1, <2>2
<1> QED
  BY <1>7, <1>8 DEF TileInv

LEMMA BeginTiles ==
  ASSUME SpansInv, TileInv, BeginConstructed
  PROVE  TileInv'
<1> DEFINE t == Inner(Top)
           n == Len(stack)
<1>1. /\ Fits(Top) /\ SpanOK(Top) /\ InMemory(input) /\ UNCHANGED input
      /\ n \in Nat \ {0} /\ DOMAIN stack = 1..n
  BY TopOfStack DEF SpansInv, BeginConstructed, More, Fits
<1>2. Tiled(t)
  <2>1. /\ ContentAt(Top) \in (Top.i + 2)..Top.size
        /\ ContentSize(Top) \in 0..(Top.size - ContentAt(Top))
    BY <1>1, Header
  <2>2. Top.base + ContentAt(Top) \in Nat /\ ContentSize(Top) \in Nat
    BY <1>1, <2>1 DEF SpanOK
  <2> QED
    BY <2>2, FreshTiles DEF Inner
<1> HIDE DEF t
<1>3. /\ IsSeq(stack') /\ Len(stack') = n + 1
      /\ \A k \in 1..n : stack'[k] = stack[k]
      /\ stack'[n + 1] = t
  BY AppendAny DEF SpansInv, BeginConstructed, t
<1>4. DOMAIN stack' = 1..(n + 1)
  BY <1>3 DEF IsSeq
<1>5. ASSUME NEW k \in 1..(n + 1)
      PROVE  Tiled(stack[k])'
  <2>1. CASE k = n + 1
    BY <2>1, <1>1, <1>2, <1>3, NewTiled
  <2>2. CASE k # n + 1
    <3>1. k \in 1..n
      BY <1>1, <2>2
    <3>2. stack'[k] = stack[k] /\ Tiled(stack[k])
      BY <1>1, <1>3, <3>1 DEF TileInv
    <3> QED
      BY <3>2, <1>1, SameTiled
  <2> QED
    BY <2>1, <2>2
<1> QED
  BY <1>4, <1>5 DEF TileInv

LEMMA EndTiles ==
  ASSUME SpansInv, TileInv, EndConstructed
  PROVE  TileInv'
<1> DEFINE n == Len(stack) - 1
           outer == stack[n]
           obj == Object(outer, <<>>, <<>>, Top.objs)
           t == Advance(outer, obj)
<1>1. /\ Len(stack) > 1 /\ UNCHANGED input /\ InMemory(input)
      /\ Len(stack) \in Nat /\ DOMAIN stack = 1..Len(stack)
  BY TopOfStack DEF EndConstructed, SpansInv
<1>2. Last(Front(stack)) = outer /\ SpanOK(outer) /\ Fits(outer)
  BY <1>1, OuterSpan
<1>3. stack' = Append(Front(Front(stack)), t)
  BY <1>2 DEF EndConstructed
<1>4. obj.length = ContentLength(outer) /\ obj.raw = Raw(outer)
  BY DEF Object
<1>5. n \in Nat \ {0} /\ \A k \in 1..n : k \in 1..Len(stack)
  BY <1>1
<1>6. Tiled(outer)
  <2>1. n \in 1..n
    <3> HIDE DEF n
    <3> QED
      BY <1>5
  <2> QED
    BY <1>1, <1>5, <2>1 DEF TileInv
<1> HIDE DEF outer, obj
<1>7. Tiled(t) /\ SpanOK(t)
  BY <1>1, <1>2, <1>4, <1>6, AdvanceTiles, AdvanceFits
<1> HIDE DEF t
<1>8. /\ SpansInv' /\ Len(stack') = n /\ Top' = t
      /\ \A k \in 1..(Len(stack) - 2) : stack'[k] = stack[k]
  BY <1>1, <1>3, <1>7, PopAndReplace
<1>9. \A k \in 1..(n - 1) : k \in 1..(Len(stack) - 2)
  BY <1>1
<1> HIDE DEF n
<1>10. DOMAIN stack' = 1..n /\ stack'[n] = t
  <2>1. IsSeq(stack')
    BY <1>8 DEF SpansInv
  <2> QED
    BY <1>8, <2>1 DEF IsSeq, Top, Last
<1>11. ASSUME NEW k \in 1..n
       PROVE  Tiled(stack[k])'
  <2>1. CASE k = n
    BY <2>1, <1>1, <1>7, <1>10, NewTiled
  <2>2. CASE k # n
    <3>1. k \in 1..(n - 1)
      BY <1>5, <2>2, BelowLast
    <3>2. stack'[k] = stack[k]
      BY <1>8, <1>9, <3>1
    <3>3. Tiled(stack[k])
      BY <1>1, <1>5 DEF TileInv
    <3> QED
      BY <3>2, <3>3, <1>1, SameTiled
  <2> QED
    BY <2>1, <2>2
<1> QED
  BY <1>10, <1>11 DEF TileInv

LEMMA FreshTileInv == Fresh => TileInv
<1> SUFFICES ASSUME Fresh PROVE TileInv
  OBVIOUS
<1>1. Len(input.octets) \in Nat
  BY Sizes DEF Fresh
<1>2. stack = <<Span(0, Len(input.octets))>>
  BY DEF Fresh, Whole
<1>3. DOMAIN stack = {1} /\ stack[1] = Span(0, Len(input.octets))
  BY <1>2
<1>4. Tiled(Span(0, Len(input.octets)))
  BY <1>1, FreshTiles
<1> QED
  BY <1>3, <1>4 DEF TileInv

LEMMA StutterTiles ==
  ASSUME TileInv, UNCHANGED <<input, stack>>
  PROVE  TileInv'
  BY DEF TileInv, Tiled, Slice, RawOctets, BelowRest

LEMMA NextTiles == SpansInv /\ TileInv /\ [Next]_vars => TileInv'
<1> SUFFICES ASSUME SpansInv, TileInv, [Next]_vars PROVE TileInv'
  OBVIOUS
<1>1. CASE Primitive
  BY <1>1, PrimitiveTiles
<1>2. CASE BeginConstructed
  BY <1>2, BeginTiles
<1>3. CASE EndConstructed
  BY <1>3, EndTiles
<1>4. CASE Abort \/ Return \/ Terminated \/ UNCHANGED vars
  BY <1>4, StutterTiles DEF Abort, Return, Terminated, vars
<1> QED
  BY <1>1, <1>2, <1>3, <1>4 DEF Next, Step

LEMMA TileInvTiles == TileInv => RawOctetsTile
BY DEF TileInv, Tiled, RawOctetsTile, RawOctets, BelowRest

\* At any depth the raw octets of the objects parsed are the octets passed over
\* (certparser.cpp:265-286).
THEOREM RawOctetsTileAlways == Spec => []RawOctetsTile
  BY InitFresh, FreshTileInv, SpansInInput, NextTiles, TileInvTiles, PTL DEF Spec
-----------------------------------------------------------------------------
(* Numbers, most significant digit first. *)

LEMMA DivisionType ==
  ASSUME NEW a \in Nat, NEW b \in Nat \ {0}
  PROVE  /\ a \div b \in Nat /\ a % b \in 0..(b - 1)
         /\ a = b * (a \div b) + (a % b)
  OBVIOUS

LEMMA DivisionIs ==
  ASSUME NEW a \in Int, NEW b \in Nat \ {0}, NEW q \in Int, NEW r \in 0..(b - 1),
         a = (b * q) + r
  PROVE  a \div b = q /\ a % b = r
  OBVIOUS

LEMMA Product ==
  ASSUME NEW a \in Int, NEW b \in Int, NEW c \in Int
  PROVE  /\ a * (b + c) = a * b + a * c
         /\ (a * b) * c = a * (b * c)
         /\ a * b \in Int
         /\ a * b = b * a
  OBVIOUS

LEMMA ProductType ==
  ASSUME NEW b \in Nat \ {0}, NEW w \in Nat \ {0}
  PROVE  b * w \in Nat \ {0}
  OBVIOUS

LEMMA BelowProduct ==
  ASSUME NEW b \in Nat \ {0}, NEW w \in Nat \ {0},
         NEW x \in 0..(b - 1), NEW r \in 0..(w - 1)
  PROVE  w * x + r \in 0..(b * w - 1)
<1>1. w * (b - 1 - x) >= 0 /\ w * x >= 0
  OBVIOUS
<1>2. w * (b - 1 - x) = w * b - w - w * x /\ w * b = b * w
  OBVIOUS
<1> DEFINE p == w * x
           q == b * w
<1>3. p \in Int /\ q \in Int /\ p >= 0 /\ q - w - p >= 0
  BY <1>1, <1>2
<1> HIDE DEF p, q
<1>4. p + r \in 0..(q - 1)
  BY <1>3
<1> QED
  BY <1>4 DEF p, q

\* One more digit of a.
LEMMA OneMoreDigit ==
  ASSUME NEW a \in Nat, NEW b \in Nat \ {0}, NEW w \in Nat \ {0}
  PROVE  (a \div (b * w)) * b + ((a \div w) % b) = a \div w
<1> DEFINE q == a \div w
           r == a % w
           y == q \div b
           x == q % b
<1>1. q \in Nat /\ r \in 0..(w - 1) /\ a = w * q + r
  BY DivisionType
<1> HIDE DEF q, r
<1>2. y \in Nat /\ x \in 0..(b - 1) /\ q = b * y + x
  BY <1>1, DivisionType
<1> HIDE DEF y, x
<1>3. w * x + r \in 0..(b * w - 1)
  BY <1>1, <1>2, BelowProduct
<1>4. a = (b * w) * y + (w * x + r)
  <2>1. w * q = w * (b * y) + w * x
    <3>1. b * y \in Int /\ x \in Int /\ w \in Int
      BY <1>2
    <3> DEFINE by == b * y
    <3> HIDE DEF by
    <3>2. w * (by + x) = w * by + w * x
      BY <3>1, Product DEF by
    <3> QED
      BY <1>2, <3>2 DEF by
  <2>2. w * (b * y) = (b * w) * y
    <3>1. (w * b) * y = w * (b * y) /\ w * b = b * w
      BY <1>2, Product
    <3> QED
      BY <3>1
  <2> DEFINE p == w * q
             wx == w * x
             z == (b * w) * y
  <2>3. p \in Int /\ wx \in Int /\ z \in Int
    <3>1. w \in Int /\ q \in Int /\ x \in Int /\ y \in Int /\ b \in Int
      BY <1>1, <1>2
    <3>2. b * w \in Int
      BY <3>1, Product
    <3> QED
      BY <3>1, <3>2, Product
  <2>4. p = z + wx /\ a = p + r
    BY <1>1, <2>1, <2>2
  <2> HIDE DEF p, wx, z
  <2>5. a = z + (wx + r)
    BY <1>1, <2>3, <2>4
  <2> QED
    BY <2>5 DEF wx, z
<1>5. a \div (b * w) = y
  <2> DEFINE u == b * w
             v == w * x + r
  <2>1. u \in Nat \ {0} /\ v \in 0..(u - 1) /\ a = (u * y) + v /\ y \in Int /\ a \in Int
    BY <1>2, <1>3, <1>4, ProductType
  <2> HIDE DEF u, v
  <2>2. a \div u = y
    BY <2>1, DivisionIs
  <2> QED
    BY <2>2 DEF u
<1>6. y * b + x = q
  BY <1>2, Product
<1> QED
  BY <1>5, <1>6 DEF q, x

\* The powers of b.
LEMMA PowerStep ==
  ASSUME NEW m \in Nat, NEW b \in Nat \ {0}, PowersUpTo(b, m)
  PROVE  /\ \A k \in 0..m : b^k \in Nat \ {0}
         /\ b^0 = 1
         /\ \A k \in 1..m : b^k = b * b^(k - 1)
<1>1. b^0 = 1 /\ \A k \in 0..(m - 1) : b^(k + 1) = b * b^k
  BY DEF PowersUpTo
<1> DEFINE T == {k \in 0..m : b^k \in Nat \ {0}}
<1>2. 0 \in T
  BY <1>1
<1>3. ASSUME NEW k \in 0..(m - 1), k \in T PROVE k + 1 \in T
  <2> DEFINE w == b^k
  <2>1. w \in Nat \ {0} /\ b^(k + 1) = b * w
    BY <1>1, <1>3
  <2> HIDE DEF w
  <2>2. b * w \in Nat \ {0}
    BY <2>1, ProductType
  <2> QED
    BY <2>1, <2>2
<1>4. 0 \in Int /\ m \in Int
  OBVIOUS
<1>5. \A k \in 0..m : k \in T
  <2> HIDE DEF T
  <2> QED
    BY <1>2, <1>3, <1>4, NumberOf!Induction
<1>6. \A k \in 1..m : b^k = b * b^(k - 1)
  <2> TAKE k \in 1..m
  <2>1. k - 1 \in 0..(m - 1) /\ (k - 1) + 1 = k
    OBVIOUS
  <2> QED
    BY <1>1, <2>1
<1> QED
  BY <1>1, <1>5, <1>6

\* The digits q of a in base b, and the quotients of a that the first of them make
\* up.
DigitsOf(q, a, b, count) ==
  /\ q \in Seq(Nat) /\ Len(q) = count
  /\ \A k \in 1..count : q[k] \in 0..(b - 1)
  /\ \A k \in 0..count : a \div b^(count - k) \in Nat
  /\ a \div b^(count - 0) = 0
  /\ a \div b^(count - count) = a
  /\ \A k \in 1..count :
       (a \div b^(count - (k - 1))) * b + q[k] = a \div b^(count - k)

LEMMA InBaseDigits ==
  ASSUME NEW m \in Nat, NEW b \in Nat \ {0}, PowersUpTo(b, m),
         NEW count \in 0..m, NEW a \in Nat, a < b^count
  PROVE  DigitsOf(InBase(a, b, count), a, b, count)
<1>1. /\ \A k \in 0..m : b^k \in Nat \ {0}
      /\ b^0 = 1
      /\ \A k \in 1..m : b^k = b * b^(k - 1)
  BY PowerStep
<1>2. \A k \in 0..count : b^(count - k) \in Nat \ {0} /\ count - k \in 0..m
  <2>1. \A k \in 0..count : count - k \in 0..m
    OBVIOUS
  <2> QED
    BY <1>1, <2>1
<1>3. \A k \in 0..count : a \div b^(count - k) \in Nat
  <2> TAKE k \in 0..count
  <2> DEFINE w == b^(count - k)
  <2>1. w \in Nat \ {0}
    BY <1>2
  <2> HIDE DEF w
  <2>2. a \div w \in Nat
    BY <2>1, DivisionType
  <2> QED
    BY <2>2 DEF w
<1>4. ASSUME NEW k \in 1..count
      PROVE  (a \div b^(count - k)) % b \in 0..(b - 1)
  <2> DEFINE q == a \div b^(count - k)
  <2>1. k \in 0..count
    OBVIOUS
  <2>2. q \in Nat
    BY <1>3, <2>1
  <2> HIDE DEF q
  <2>3. q % b \in 0..(b - 1)
    BY <2>2, DivisionType
  <2> QED
    BY <2>3 DEF q
<1> DEFINE D == InBase(a, b, count)
<1>5. D = [k \in 1..count |-> (a \div b^(count - k)) % b]
  BY DEF InBase
<1> HIDE DEF D
<1>6. \A k \in 1..count : D[k] = (a \div b^(count - k)) % b
  BY <1>5
<1>7. D \in [1..count -> 0..(b - 1)]
  BY <1>4, <1>5
<1>8. D \in Seq(Nat) /\ Len(D) = count
  <2>1. D \in [1..count -> Nat]
    BY <1>7
  <2>2. D \in Seq(Nat)
    BY <2>1, SeqDef
  <2>3. Len(D) \in Nat /\ DOMAIN D = 1..Len(D) /\ DOMAIN D = 1..count /\ count \in Nat
    BY <2>1, <2>2
  <2> QED
    BY <2>2, <2>3, SameInterval
<1>9. a \div b^(count - 0) = 0
  <2> DEFINE w == b^count
  <2>1. w \in Nat \ {0} /\ a < w /\ count - 0 = count
    BY <1>1
  <2> HIDE DEF w
  <2>2. 0 \in Int /\ a \in 0..(w - 1) /\ a = (w * 0) + a /\ a \in Int
    BY <2>1
  <2>3. a \div w = 0
    BY <2>1, <2>2, DivisionIs
  <2> QED
    BY <2>1, <2>3 DEF w
<1>10. a \div b^(count - count) = a
  <2>1. count - count = 0 /\ b^0 = 1 /\ a \div 1 = a
    BY <1>1
  <2> QED
    BY <2>1
<1>11. ASSUME NEW k \in 1..count
       PROVE  (a \div b^(count - (k - 1))) * b + D[k] = a \div b^(count - k)
  <2> DEFINE w == b^(count - k)
             l == count - (k - 1)
  <2>1. w \in Nat \ {0}
    BY <1>2
  <2>2. l \in 1..m /\ l - 1 = count - k
    OBVIOUS
  <2> HIDE DEF l
  <2>3. b^l = b * w
    BY <1>1, <2>2
  <2>4. D[k] = (a \div w) % b
    BY <1>6
  <2> HIDE DEF w
  <2>5. (a \div (b * w)) * b + ((a \div w) % b) = a \div w
    BY <2>1, OneMoreDigit
  <2>6. (a \div b^l) * b + D[k] = a \div w
    BY <2>3, <2>4, <2>5
  <2> QED
    BY <2>6 DEF l, w
<1>12. \A k \in 1..count : D[k] \in 0..(b - 1)
  BY <1>7
<1>13. DigitsOf(D, a, b, count)
  BY <1>3, <1>8, <1>9, <1>10, <1>11, <1>12 DEF DigitsOf
<1> QED
  BY <1>13 DEF D

\* Reading the octets of a number gives the number.
LEMMA ReadsNumber ==
  ASSUME NEW count \in 0..SizeOctets, NEW a \in Nat, a < Base^count
  PROVE  BigEndian(InBase(a, Base, count)) = a
<1> DEFINE q == InBase(a, Base, count)
<1>1. PowersUpTo(Base, SizeOctets) /\ SizeOctets \in Nat /\ Base \in Nat \ {0}
  BY DerAssumption
<1>0. DigitsOf(q, a, Base, count)
  BY <1>1, InBaseDigits
<1>2. /\ q \in Seq(Nat) /\ Len(q) = count
      /\ \A k \in 1..count : q[k] \in 0..(Base - 1)
      /\ a \div Base^(count - 0) = 0
      /\ a \div Base^(count - count) = a
      /\ \A k \in 1..count :
           (a \div Base^(count - (k - 1))) * Base + q[k] = a \div Base^(count - k)
  BY <1>0 DEF DigitsOf
<1> HIDE DEF q
<1>3. DOMAIN q = 1..count /\ count \in Nat
  BY <1>2
<1>4. \A n \in Nat, k \in 1..count : AddOctet(q, n, q[k]) \in Nat
  BY <1>1, <1>2 DEF AddOctet
<1>5. PICK g : NumberOf!FoldSteps(g, q, count, Nat, 0, q)
  BY <1>3, <1>4, NumberOf!Fold
<1>6. /\ g[0] = 0
      /\ \A k \in 1..count : g[k] = AddOctet(q, g[k - 1], q[k])
      /\ g[count] = NumberOf!Folded(q, 0, q)
  BY <1>5 DEF NumberOf!FoldSteps
<1> DEFINE T == {k \in 0..count : g[k] = a \div Base^(count - k)}
<1>7. 0 \in T
  BY <1>2, <1>3, <1>6
<1>8. ASSUME NEW k \in 0..(count - 1), k \in T PROVE k + 1 \in T
  <2> DEFINE l == k + 1
  <2>1. l \in 1..count /\ l - 1 = k /\ l \in 0..count
    BY <1>3
  <2> HIDE DEF l
  <2>2. g[l] = g[k] * Base + q[l]
    BY <1>6, <2>1 DEF AddOctet
  <2>3. g[k] = a \div Base^(count - (l - 1))
    BY <1>8, <2>1
  <2>4. g[l] = a \div Base^(count - l)
    BY <1>2, <2>1, <2>2, <2>3
  <2> QED
    BY <2>1, <2>4 DEF l
<1>9. \A k \in 0..count : k \in T
  <2>1. 0 \in Int /\ count \in Int
    BY <1>3
  <2> HIDE DEF T
  <2> QED
    BY <1>7, <1>8, <2>1, NumberOf!Induction
<1>10. g[count] = a
  BY <1>2, <1>3, <1>9
<1>11. BigEndian(q) = NumberOf!Folded(q, 0, q)
  BY DEF BigEndian, AddOctet, NumberOf!Folded, NumberOf!FoldLeft, FoldLeft, NumberOf!MapThenFoldSet,
         MapThenFoldSet, NumberOf!Max, Max
<1> QED
  BY <1>6, <1>10, <1>11 DEF q

-----------------------------------------------------------------------------
(* Where the parts of a flattened sequence are. *)

\* The parts q of the whole sequence, each from a place p on.
PartsAt(p, q, all) ==
  /\ p \in [0..Len(q) -> 0..Len(all)]
  /\ p[0] = 0 /\ p[Len(q)] = Len(all)
  /\ \A j \in 1..Len(q) :
       /\ p[j] = p[j - 1] + Len(q[j])
       /\ \A i \in 1..Len(q[j]) : all[p[j - 1] + i] = q[j][i]

LEMMA ConcatAt ==
  ASSUME NEW E, NEW a \in Seq(E), NEW b \in Seq(E)
  PROVE  /\ a \o b \in Seq(E) /\ Len(a \o b) = Len(a) + Len(b)
         /\ Len(a) \in Nat /\ Len(b) \in Nat
         /\ \A i \in 1..Len(a) : (a \o b)[i] = a[i]
         /\ \A i \in 1..Len(b) : (a \o b)[Len(a) + i] = b[i]
<1>1. /\ a \o b \in Seq(E) /\ Len(a \o b) = Len(a) + Len(b)
      /\ \A i \in 1..(Len(a) + Len(b)) :
           (a \o b)[i] = IF i <= Len(a) THEN a[i] ELSE b[i - Len(a)]
  BY ConcatProperties
<1> DEFINE m == Len(a)
           n == Len(b)
           c == a \o b
<1>2. m \in Nat /\ n \in Nat
  OBVIOUS
<1>3. \A i \in 1..(m + n) : c[i] = IF i <= m THEN a[i] ELSE b[i - m]
  BY <1>1
<1> HIDE DEF m, n, c
<1>4. \A i \in 1..m : i \in 1..(m + n) /\ i <= m
  BY <1>2
<1>5. \A i \in 1..n : m + i \in 1..(m + n) /\ ~(m + i <= m) /\ (m + i) - m = i
  BY <1>2
<1>6. \A i \in 1..m : c[i] = a[i]
  BY <1>3, <1>4
<1>7. \A i \in 1..n : c[m + i] = b[i]
  BY <1>3, <1>5
<1> QED
  BY <1>1, <1>2, <1>6, <1>7 DEF m, n, c

\* Flattened one after the other.
LEMMA FlattenSteps ==
  ASSUME NEW E, NEW q \in Seq(Seq(E))
  PROVE  \E f : /\ f \in [0..Len(q) -> Seq(E)]
                /\ f[0] = <<>> /\ f[Len(q)] = FlattenSeq(q)
                /\ \A j \in 1..Len(q) : f[j] = f[j - 1] \o q[j]
<1> DEFINE n == Len(q)
           S == Seq(E)
           v == NumberOf!Flat(q)
           f == [j \in 0..n |-> IF j = 0 THEN <<>> ELSE v[j]]
<1>1. n \in Nat /\ <<>> \in S /\ \A j \in 1..n : q[j] \in S
  OBVIOUS
<1>2. /\ NumberOf!FlattenSeq(q) = IF n = 0 THEN q ELSE v[n]
      /\ \A i \in 1..n : v[i] = IF i = 1 THEN q[i] ELSE v[i - 1] \o q[i]
  BY NumberOf!FlatValues
<1>3. NumberOf!FlattenSeq(q) = FlattenSeq(q)
  BY DEF NumberOf!FlattenSeq, FlattenSeq
<1>4. f[0] = <<>> /\ \A j \in 1..n : f[j] = v[j]
  BY <1>1
<1>5. n = 0 => q = <<>>
  OBVIOUS
<1>6. f[n] = FlattenSeq(q)
  <2> HIDE DEF v
  <2> QED
    BY <1>1, <1>2, <1>3, <1>4, <1>5
<1> DEFINE R(a, b) == a \o b
<1>7. \A a \in S : R(<<>>, a) = a
  BY ConcatEmptySeq
<1>8. \A a \in S, b \in S : R(a, b) \in S
  BY ConcatProperties
<1>9. \A i \in 1..n : v[i] = IF i = 1 THEN q[i] ELSE R(v[i - 1], q[i])
  BY <1>2
<1>11. DOMAIN f = 0..n
  OBVIOUS
<1>12. f = [j \in 0..n |-> f[j]]
  OBVIOUS
<1> HIDE DEF v, f, n, S, R
<1>10. \A j \in 1..n : f[j] = R(f[j - 1], q[j])
  <2> TAKE j \in 1..n
  <2>1. CASE j = 1
    <3>1. j - 1 = 0 /\ q[j] \in S
      BY <2>1, <1>1
    <3>2. R(<<>>, q[j]) = q[j]
      BY <3>1, <1>7
    <3> QED
      BY <2>1, <3>1, <3>2, <1>4, <1>9
  <2>2. CASE j # 1
    <3>1. j - 1 \in 1..n
      BY <2>2, <1>1
    <3> QED
      BY <2>2, <3>1, <1>4, <1>9
  <2> QED
    BY <2>1, <2>2
<1> DEFINE T == {j \in 0..n : f[j] \in S}
<1>13. 0 \in T
  BY <1>1, <1>4
<1>14. ASSUME NEW k \in 0..(n - 1), k \in T PROVE k + 1 \in T
  <2>1. k + 1 \in 1..n /\ (k + 1) - 1 = k /\ k + 1 \in 0..n
    BY <1>1
  <2>2. f[k + 1] = R(f[k], q[k + 1]) /\ q[k + 1] \in S
    BY <2>1, <1>1, <1>10
  <2>3. f[k + 1] \in S
    BY <1>8, <1>14, <2>2
  <2> QED
    BY <2>1, <2>3
<1>15. \A j \in 0..n : j \in T
  <2>1. 0 \in Int /\ n \in Int
    BY <1>1
  <2> HIDE DEF T
  <2> QED
    BY <1>13, <1>14, <2>1, NumberOf!Induction
<1>16. f \in [0..n -> S]
  BY <1>12, <1>15
<1> QED
  BY <1>4, <1>6, <1>10, <1>16 DEF R, n, S

LEMMA PartsOfFlattened ==
  ASSUME NEW E, NEW q \in Seq(Seq(E))
  PROVE  /\ FlattenSeq(q) \in Seq(E)
         /\ \E p : PartsAt(p, q, FlattenSeq(q))
<1> DEFINE n == Len(q)
           S == Seq(E)
<1>1. n \in Nat /\ \A j \in 1..n : q[j] \in S
  OBVIOUS
<1>2. PICK f : /\ f \in [0..n -> S]
               /\ f[0] = <<>> /\ f[n] = FlattenSeq(q)
               /\ \A j \in 1..n : f[j] = f[j - 1] \o q[j]
  BY FlattenSteps
<1> DEFINE p == [j \in 0..n |-> Len(f[j])]
           At(c, i) == c[i]
<1>3. \A a \in S : Len(a) \in Nat
  OBVIOUS
<1>4. ASSUME NEW j \in 1..n
      PROVE  /\ j - 1 \in 0..n /\ j \in 0..n
             /\ Len(f[j]) = Len(f[j - 1]) + Len(q[j])
             /\ Len(f[j - 1]) \in Nat /\ Len(q[j]) \in Nat
             /\ \A i \in 1..Len(f[j - 1]) : At(f[j], i) = At(f[j - 1], i)
             /\ \A i \in 1..Len(q[j]) : At(f[j], Len(f[j - 1]) + i) = At(q[j], i)
  <2>1. j - 1 \in 0..n /\ j \in 0..n
    BY <1>1
  <2> DEFINE a == f[j - 1]
             b == q[j]
  <2>2. a \in Seq(E) /\ b \in Seq(E) /\ f[j] = a \o b
    BY <1>1, <1>2, <2>1
  <2> HIDE DEF a, b, S
  <2>3. /\ Len(a \o b) = Len(a) + Len(b)
        /\ Len(a) \in Nat /\ Len(b) \in Nat
        /\ \A i \in 1..Len(a) : (a \o b)[i] = a[i]
        /\ \A i \in 1..Len(b) : (a \o b)[Len(a) + i] = b[i]
    BY <2>2, ConcatAt
  <2> QED
    BY <2>1, <2>2, <2>3 DEF a, b
<1> HIDE DEF S, At, n
\* What was flattened stays.
<1>5. ASSUME NEW j \in 0..n
      PROVE  /\ Len(f[j]) <= Len(f[n])
             /\ \A i \in 1..Len(f[j]) : At(f[n], i) = At(f[j], i)
  <2> DEFINE T == {k \in j..n : /\ Len(f[j]) <= Len(f[k])
                                /\ \A i \in 1..Len(f[j]) : At(f[k], i) = At(f[j], i)}
  <2>1. j \in T
    <3>1. j \in j..n /\ Len(f[j]) \in Nat
      BY <1>1, <1>2, <1>3
    <3> QED
      BY <3>1
  <2>2. ASSUME NEW k \in j..(n - 1), k \in T PROVE k + 1 \in T
    <3> DEFINE l == k + 1
    <3>1. l \in 1..n /\ l - 1 = k /\ l \in j..n /\ l \in 0..n /\ k \in 0..n
      BY <1>1
    <3> HIDE DEF l
    <3>2. /\ Len(f[l]) = Len(f[k]) + Len(q[l]) /\ Len(f[k]) \in Nat /\ Len(q[l]) \in Nat
          /\ \A i \in 1..Len(f[k]) : At(f[l], i) = At(f[k], i)
      BY <3>1, <1>4
    <3>3. Len(f[j]) \in Nat
      BY <1>2, <1>3
    <3>4. /\ Len(f[j]) <= Len(f[k])
          /\ \A i \in 1..Len(f[j]) : At(f[k], i) = At(f[j], i)
      BY <2>2
    <3> DEFINE x == Len(f[j])
               y == Len(f[k])
               z == Len(f[l])
               w == Len(q[l])
    <3>10. x \in Nat /\ y \in Nat /\ x <= y /\ w \in Nat /\ z = y + w
      BY <3>2, <3>3, <3>4
    <3> HIDE DEF x, y, z, w
    <3>5. x \in Nat /\ y \in Nat /\ x <= y /\ x <= z
      BY <3>10
    <3>6. \A i \in 1..x : i \in 1..y
      BY <3>5
    <3>7. \A i \in 1..x : At(f[l], i) = At(f[j], i)
      BY <3>2, <3>4, <3>6 DEF x, y
    <3>9. l \in T
      BY <3>1, <3>5, <3>7 DEF x, z
    <3> QED
      BY <3>9 DEF l
  <2>3. \A k \in j..n : k \in T
    <3>1. j \in Int /\ n \in Int
      BY <1>1
    <3> HIDE DEF T
    <3> QED
      BY <2>1, <2>2, <3>1, NumberOf!Induction
  <2>4. n \in j..n
    BY <1>1
  <2> QED
    BY <2>3, <2>4
<1>6. p \in [0..n -> 0..Len(f[n])]
  <2>1. n \in 0..n /\ Len(f[n]) \in Nat
    BY <1>1, <1>2, <1>3
  <2>2. \A j \in 0..n : Len(f[j]) \in Nat /\ Len(f[j]) <= Len(f[n])
    BY <1>2, <1>3, <1>5
  <2> QED
    BY <2>1, <2>2
<1>7. p[0] = 0 /\ p[n] = Len(f[n])
  <2>1. 0 \in 0..n /\ n \in 0..n /\ Len(<<>>) = 0
    BY <1>1
  <2> QED
    BY <1>2, <2>1
<1>8. ASSUME NEW j \in 1..n
      PROVE  /\ p[j] = p[j - 1] + Len(q[j])
             /\ \A i \in 1..Len(q[j]) : At(f[n], p[j - 1] + i) = At(q[j], i)
  <2>1. /\ j - 1 \in 0..n /\ j \in 0..n
        /\ Len(f[j]) = Len(f[j - 1]) + Len(q[j])
        /\ Len(f[j - 1]) \in Nat /\ Len(q[j]) \in Nat
        /\ \A i \in 1..Len(q[j]) : At(f[j], Len(f[j - 1]) + i) = At(q[j], i)
    BY <1>4
  <2>2. p[j] = Len(f[j]) /\ p[j - 1] = Len(f[j - 1])
    BY <2>1
  <2> HIDE DEF p
  <2> DEFINE x == p[j - 1]
             y == Len(q[j])
  <2>3. x \in Nat /\ y \in Nat /\ Len(f[j]) = x + y
    BY <2>1, <2>2
  <2>4. \A i \in 1..Len(f[j]) : At(f[n], i) = At(f[j], i)
    BY <2>1, <1>5
  <2>5. \A i \in 1..y : At(f[j], x + i) = At(q[j], i)
    BY <2>1, <2>2
  <2> HIDE DEF x, y
  <2>6. \A i \in 1..y : x + i \in 1..(x + y)
    BY <2>3
  <2>7. \A i \in 1..y : At(f[n], x + i) = At(q[j], i)
    BY <2>3, <2>4, <2>5, <2>6
  <2> QED
    BY <2>1, <2>2, <2>7 DEF x, y
<1> HIDE DEF p
<1>9. PartsAt(p, q, f[n])
  BY <1>6, <1>7, <1>8 DEF PartsAt, At, n
<1>10. f[n] \in S
  BY <1>1, <1>2
<1> QED
  BY <1>2, <1>9, <1>10 DEF S

-----------------------------------------------------------------------------
(* What encodes an object, read by parse_impl(). *)

\* The octets of t behind the first k begin with c.
Reads(t, k, c) ==
  /\ k + Len(c) <= t.size
  /\ \A i \in 1..Len(c) : input.octets[t.base + k + i] = c[i]

LEMMA ReadsParts ==
  ASSUME NEW t, t.base \in Nat, t.size \in Nat, NEW k \in Nat,
         NEW a \in Seq(Nat), NEW b \in Seq(Nat), Reads(t, k, a \o b)
  PROVE  Reads(t, k, a) /\ Reads(t, k + Len(a), b)
<1> DEFINE c == a \o b
           m == Len(a)
           n == Len(b)
           f == t.base
           At(i) == input.octets[i]
<1>1. /\ m \in Nat /\ n \in Nat /\ Len(c) = m + n
      /\ \A i \in 1..m : c[i] = a[i]
      /\ \A i \in 1..n : c[m + i] = b[i]
  BY ConcatAt, SMTT(20)
<1>2. k + Len(c) <= t.size /\ \A i \in 1..Len(c) : At(f + k + i) = c[i]
  BY DEF Reads
<1>0. f \in Nat /\ t.size \in Nat
  OBVIOUS
<1> HIDE DEF c, m, n, f, At
<1>3. k + m <= t.size /\ (k + m) + n <= t.size
  BY <1>0, <1>1, <1>2
<1>4. \A i \in 1..m : i \in 1..(m + n)
  BY <1>1
<1>5. \A i \in 1..n : m + i \in 1..(m + n) /\ f + (k + m) + i = f + k + (m + i)
  BY <1>0, <1>1
<1>6. \A i \in 1..m : At(f + k + i) = a[i]
  BY <1>1, <1>2, <1>4
<1>7. \A i \in 1..n : At(f + (k + m) + i) = b[i]
  BY <1>1, <1>2, <1>5
<1> QED
  BY <1>3, <1>6, <1>7 DEF Reads, m, n, f, At

LEMMA ReadsSlice ==
  ASSUME NEW t, InMemory(input), SpanOK(t), NEW k \in Nat,
         NEW c \in Seq(Nat), Reads(t, k, c)
  PROVE  Slice(t, k, Len(c)) = c
<1> DEFINE octets == input.octets
           n == Len(c)
           f == t.base
           q == SubSeq(octets, f + k + 1, f + k + n)
<1>1. /\ octets \in Seq(0..(Base - 1)) /\ Len(octets) \in Nat
      /\ f \in Nat /\ n \in Nat /\ t.size \in Nat
      /\ f + t.size <= Len(octets) /\ k + n <= t.size
  BY Sizes DEF SpanOK, Reads
<1>2. \A i \in 1..n : octets[f + k + i] = c[i]
  BY DEF Reads
<1>3. Slice(t, k, n) = q
  BY DEF Slice
<1>4. \A i \in 1..n : c[i] \in Nat
  OBVIOUS
<1>10. c \in Seq(Nat) /\ Len(c) = n
  OBVIOUS
<1> HIDE DEF octets, f, n
<1>5. \A i \in (f + k + 1)..(f + k + n) :
        i - (f + k) \in 1..n /\ f + k + (i - (f + k)) = i
  BY <1>1
<1>6. \A i \in (f + k + 1)..(f + k + n) : octets[i] \in Nat
  BY <1>2, <1>4, <1>5
<1> DEFINE a == f + k + 1
           b == f + k + n
<1>7. /\ a \in Int /\ b \in Int /\ b - a + 1 = n /\ (a <= b => b - a + 1 = n)
      /\ ~(a <= b) => n = 0
      /\ \A i \in 1..n : a + i - 1 = f + k + i
  BY <1>1
<1> HIDE DEF q
<1>8. q = SubSeq(octets, a, b)
  BY DEF q
<1>11. \A i \in a..b : octets[i] \in Nat
  BY <1>6
<1> HIDE DEF a, b
<1>9. /\ q \in Seq(Nat)
      /\ Len(q) = n
      /\ \A i \in 1..n : q[i] = octets[a + i - 1]
  <2>1. /\ SubSeq(octets, a, b) \in Seq(Nat)
        /\ Len(SubSeq(octets, a, b)) = IF a <= b THEN b - a + 1 ELSE 0
        /\ \A i \in 1..(b - a + 1) : SubSeq(octets, a, b)[i] = octets[a + i - 1]
    BY <1>7, <1>11, SubSeqProperties
  <2> QED
    BY <1>7, <1>8, <2>1
<1>12. \A i \in 1..n : q[i] = c[i]
  BY <1>2, <1>7, <1>9
<1>13. q = c
  BY <1>9, <1>10, <1>12, SeqEqual
<1> QED
  BY <1>3, <1>13 DEF n, q

\* The length octets of n are read as n.
LEMMA ReadsLength ==
  ASSUME NEW t, InMemory(input), SpanOK(t), NEW n \in Nat,
         NEW octets \in LengthOctets(n), Reads(t, t.i + 1, octets)
  PROVE  /\ octets \in Seq(Nat) /\ Len(octets) \in Nat \ {0}
         /\ LengthCount(t) = Len(octets) - 1
         /\ LengthCount(t) \in Nat
         /\ LengthCount(t) < High - 1 /\ LengthCount(t) <= SizeOctets
         /\ ContentLength(t) = n
<1>1. /\ High \in Nat /\ High > 1 /\ Base \in Nat \ {0} /\ SizeOctets \in Nat
      /\ PowersUpTo(Base, SizeOctets)
  BY DerAssumption
<1>2. t.i \in Nat /\ t.base \in Nat /\ t.size \in Nat
  BY DEF SpanOK
<1>3. \A i \in 1..Len(octets) : input.octets[t.base + (t.i + 1) + i] = octets[i]
  BY DEF Reads
<1>4. CASE octets = <<n>> /\ n < High
  <2>1. octets \in Seq(Nat) /\ Len(octets) = 1 /\ octets[1] = n
    BY <1>4
  <2>2. LengthOctet(t) = n
    BY <1>3, <2>1 DEF LengthOctet, OctetAt
  <2> QED
    BY <1>1, <1>4, <2>1, <2>2 DEF LengthCount, ContentLength
<1>5. ASSUME NEW count \in 1..SizeOctets, count < High - 1, n < Base^count,
             octets = <<High + count>> \o InBase(n, Base, count)
      PROVE  /\ octets \in Seq(Nat) /\ Len(octets) \in Nat \ {0}
             /\ LengthCount(t) = Len(octets) - 1
             /\ LengthCount(t) \in Nat
             /\ LengthCount(t) < High - 1 /\ LengthCount(t) <= SizeOctets
             /\ ContentLength(t) = n
  <2> DEFINE a == <<High + count>>
             b == InBase(n, Base, count)
  <2>1. a \in Seq(Nat) /\ Len(a) = 1 /\ a[1] = High + count
    BY <1>1
  <2>2. b \in Seq(Nat) /\ Len(b) = count /\ BigEndian(b) = n
    <3>1. count \in 0..SizeOctets
      OBVIOUS
    <3>2. DigitsOf(b, n, Base, count)
      BY <1>1, <1>5, <3>1, InBaseDigits
    <3>3. BigEndian(b) = n
      BY <1>5, <3>1, ReadsNumber
    <3> QED
      BY <3>2, <3>3 DEF DigitsOf
  <2>7. octets = a \o b
    BY <1>5
  <2> HIDE DEF a, b
  <2>3. /\ octets \in Seq(Nat) /\ Len(octets) = 1 + count
        /\ octets[1] = High + count
    <3>1. /\ a \o b \in Seq(Nat) /\ Len(a \o b) = Len(a) + Len(b)
          /\ \A i \in 1..Len(a) : (a \o b)[i] = a[i]
      BY <2>1, <2>2, ConcatAt
    <3> QED
      BY <2>1, <2>2, <2>7, <3>1
  <2>4. LengthOctet(t) = High + count
    <3>1. 1 \in 1..Len(octets)
      BY <2>3
    <3> QED
      BY <1>3, <2>3, <3>1 DEF LengthOctet, OctetAt
  <2>5. LengthCount(t) = count /\ ~(LengthOctet(t) < High)
    BY <1>1, <2>4 DEF LengthCount
  <2>6. Reads(t, t.i + 2, b)
    <3>1. t.i + 1 \in Nat /\ Reads(t, t.i + 1, a \o b)
      BY <1>2, <2>7
    <3>2. Reads(t, (t.i + 1) + Len(a), b)
      BY <1>2, <2>1, <2>2, <3>1, ReadsParts
    <3>3. (t.i + 1) + Len(a) = t.i + 2
      BY <1>2, <2>1
    <3> QED
      BY <3>2, <3>3
  <2>8. Slice(t, t.i + 2, count) = b
    <3>1. t.i + 2 \in Nat
      BY <1>2
    <3>2. Slice(t, t.i + 2, Len(b)) = b
      BY <2>2, <2>6, <3>1, ReadsSlice
    <3> QED
      BY <2>2, <3>2
  <2>9. ContentLength(t) = n
    BY <2>2, <2>5, <2>8 DEF ContentLength
  <2> QED
    BY <1>5, <2>3, <2>5, <2>9
<1>6. \/ octets = <<n>> /\ n < High
      \/ \E count \in 1..SizeOctets :
           count < High - 1 /\ n < Base^count /\ octets = <<High + count>> \o InBase(n, Base, count)
  <2>1. CASE octets \in {<<m>> : m \in {n} \cap 0..(High - 1)}
    <3>1. PICK m \in {n} \cap 0..(High - 1) : octets = <<m>>
      BY <2>1
    <3>2. m = n /\ n < High
      BY <1>1, <3>1
    <3> QED
      BY <3>1, <3>2
  <2>2. CASE octets \in {<<High + count>> \o InBase(n, Base, count) :
                        count \in {k \in 1..SizeOctets : k < High - 1 /\ n < Base^k}}
    BY <2>2, Zenon
  <2> QED
    BY <2>1, <2>2 DEF LengthOctets
<1> QED
  BY <1>4, <1>5, <1>6

LEMMA ObjectType ==
  ASSUME NEW o \in Objects
  PROVE  /\ o = [id |-> o.id, length |-> o.length, raw |-> o.raw, octets |-> o.octets,
                 arcs |-> o.arcs, objects |-> o.objects]
         /\ o.id \in Nat /\ o.length \in Nat /\ o.raw \in Seq(Nat) /\ o.octets \in Seq(Nat)
         /\ o.arcs \in Seq(Nat) /\ o.objects \in Seq(Objects)
         /\ IsEncoded(o)
<1>1. o \in [id : Nat, length : Nat, raw : Seq(Nat), octets : Seq(Nat),
             arcs : Seq(Nat), objects : Seq(Objects)]
  BY EncodingsAssumption
<1> QED
  BY <1>1, EncodingsAssumption

LEMMA ContentsType ==
  ASSUME NEW o \in Objects
  PROVE  Contents(o) \in Seq(Nat) /\ Len(Contents(o)) = o.length
<1> DEFINE n == Len(o.raw)
           l == o.length
           q == o.raw
<1>1. q \in Seq(Nat) /\ n \in Nat /\ l \in Nat /\ l <= n
  <2>1. q \in Seq(Nat) /\ l \in Nat
    BY ObjectType
  <2>2. IsEncoded(o)
    BY ObjectType
  <2>3. l <= n
    BY <2>2 DEF IsEncoded
  <2>4. n \in Nat
    BY <2>1
  <2> QED
    BY <2>1, <2>3, <2>4
<1>2. Contents(o) = SubSeq(q, n - l + 1, n)
  BY DEF Contents
<1>4. Len(q) = n
  OBVIOUS
<1> HIDE DEF n, l, q
<1>3. \A i \in (n - l + 1)..n : i \in 1..n
  BY <1>1
<1>5. \A i \in (n - l + 1)..n : q[i] \in Nat
  BY <1>1, <1>3, <1>4
<1>6. n - l + 1 \in Int /\ n \in Int
  BY <1>1
<1> DEFINE a == n - l + 1
<1>7. a \in Int /\ n - a + 1 = l /\ (~(a <= n) => l = 0)
  BY <1>1
<1> HIDE DEF a
<1>8. SubSeq(q, a, n) \in Seq(Nat) /\ Len(SubSeq(q, a, n)) = IF a <= n THEN n - a + 1 ELSE 0
  BY <1>5, <1>6, <1>7, SubSeqProperties DEF a
<1> QED
  BY <1>2, <1>7, <1>8 DEF a, l

\* What encodes an object passes the checks of its header, and its parts are found.
ReadAs(t, o) ==
  /\ Fits(t)
  /\ Id(t) = o.id /\ ContentLength(t) = o.length /\ Raw(t) = o.raw
  /\ ContentSize(t) = o.length /\ Content(t) = Contents(o)
  /\ Reads(t, ContentAt(t), Contents(o))
  /\ ContentAt(t) \in Nat
  /\ ContentAt(t) + o.length = t.i + Len(o.raw)
  /\ o.length < Rest
  /\ Len(o.raw) \in Nat \ {0}

LEMMA ReadsObject ==
  ASSUME NEW t, InMemory(input), SpanOK(t), NEW o \in Objects, Reads(t, t.i, o.raw)
  PROVE  ReadAs(t, o)
<1> DEFINE n == o.length
           c == Contents(o)
           i == t.i
           size == t.size
<1>1. /\ t.base \in Nat /\ size \in Nat /\ i \in Nat /\ i <= size
      /\ size < SizeLimit /\ SizeLimit \in Nat /\ Rest = SizeLimit - 1
  <2>1. t.base \in Nat /\ t.base + size <= Len(input.octets)
    BY DEF SpanOK
  <2>2. Len(input.octets) \in Nat /\ Len(input.octets) < SizeLimit /\ SizeLimit \in Nat
    BY Sizes
  <2> QED
    BY <2>1, <2>2 DEF SpanOK, Rest
<1>2. PICK octets \in LengthOctets(n) : o.raw = <<o.id>> \o octets \o c
  BY ObjectType DEF IsEncoded
<1>3. o.id \in Nat /\ n \in Nat /\ c \in Seq(Nat) /\ Len(c) = n /\ o.raw \in Seq(Nat)
  BY ObjectType, ContentsType
<1>13. ASSUME NEW q \in LengthOctets(n)
       PROVE  q \in Seq(Nat)
  <2>1. High \in Nat /\ Base \in Nat \ {0} /\ SizeOctets \in Nat /\ PowersUpTo(Base, SizeOctets)
    BY DerAssumption
  <2>2. CASE q = <<n>>
    BY <1>3, <2>2
  <2>3. ASSUME NEW count \in 1..SizeOctets, n < Base^count,
               q = <<High + count>> \o InBase(n, Base, count)
        PROVE  q \in Seq(Nat)
    <3>1. DigitsOf(InBase(n, Base, count), n, Base, count)
      <4>1. count \in 0..SizeOctets
        OBVIOUS
      <4> QED
        BY <1>3, <2>1, <2>3, <4>1, InBaseDigits
    <3>2. <<High + count>> \in Seq(Nat) /\ InBase(n, Base, count) \in Seq(Nat)
      BY <2>1, <3>1 DEF DigitsOf
    <3> QED
      BY <2>3, <3>2, ConcatProperties
  <2> QED
    BY <2>2, <2>3 DEF LengthOctets
<1>4. octets \in Seq(Nat)
  BY <1>2, <1>13
<1> HIDE DEF n, c
<1> DEFINE a == <<o.id>>
           b == octets
<1>5. a \in Seq(Nat) /\ Len(a) = 1 /\ a[1] = o.id /\ b \in Seq(Nat)
  BY <1>3, <1>4
<1>6. o.raw = (a \o b) \o c
  BY <1>2
<1> HIDE DEF a, b
<1> DEFINE ab == a \o b
<1>7. ab \in Seq(Nat) /\ Len(ab) = 1 + Len(b) /\ Len(b) \in Nat
  <2>1. a \o b \in Seq(Nat) /\ Len(a \o b) = Len(a) + Len(b) /\ Len(b) \in Nat
    BY <1>5, ConcatAt
  <2> QED
    BY <1>5, <2>1
<1> HIDE DEF ab
<1>8. Len(o.raw) = (1 + Len(b)) + n
  <2>1. Len(ab \o c) = Len(ab) + Len(c)
    BY <1>3, <1>7, ConcatAt
  <2> QED
    BY <1>3, <1>6, <1>7, <2>1 DEF ab
<1>9. Reads(t, i, ab) /\ Reads(t, i + (1 + Len(b)), c)
  <2>1. Reads(t, i, ab \o c)
    BY <1>6 DEF ab
  <2>2. Reads(t, i, ab) /\ Reads(t, i + Len(ab), c)
    BY <1>1, <1>3, <1>7, <2>1, ReadsParts
  <2> QED
    BY <1>7, <2>2
<1>10. Reads(t, i, a) /\ Reads(t, i + 1, b)
  <2>1. Reads(t, i, a \o b)
    BY <1>9 DEF ab
  <2>2. Reads(t, i, a) /\ Reads(t, i + Len(a), b)
    BY <1>1, <1>5, <2>1, ReadsParts
  <2> QED
    BY <1>5, <2>2
<1>11. Id(t) = o.id
  <2>1. input.octets[t.base + i + 1] = o.id
    BY <1>5, <1>10 DEF Reads
  <2> QED
    BY <2>1 DEF Id, OctetAt
<1>12. /\ Len(b) \in Nat \ {0} /\ LengthCount(t) = Len(b) - 1
       /\ LengthCount(t) < High - 1 /\ LengthCount(t) <= SizeOctets
       /\ ContentLength(t) = n
  <2>1. b \in LengthOctets(n)
    BY <1>2 DEF b
  <2>2. Reads(t, t.i + 1, b)
    BY <1>10
  <2>3. /\ Len(b) \in Nat \ {0} /\ LengthCount(t) = Len(b) - 1
        /\ LengthCount(t) < High - 1 /\ LengthCount(t) <= SizeOctets
        /\ ContentLength(t) = n
    BY <1>3, <2>1, <2>2, ReadsLength
  <2> QED
    BY <2>3
<1>14. i + Len(o.raw) <= size
  BY DEF Reads
<1> DEFINE l == Len(b)
           r == Len(o.raw)
           at0 == ContentAt(t)
<1>15. l \in Nat \ {0} /\ n \in Nat /\ r = (1 + l) + n /\ i + r <= size
  BY <1>3, <1>8, <1>12, <1>14
<1>16. at0 = i + 2 + (l - 1)
  BY <1>12 DEF ContentAt
<1>25. LengthCount(t) = l - 1
  BY <1>12
<1> HIDE DEF i, size, l, r, at0
<1>17. /\ at0 = i + (1 + l) /\ at0 + n = i + r /\ at0 + n <= size /\ at0 <= size
       /\ n < Rest /\ r \in Nat \ {0} /\ i < size /\ at0 \in Nat
       /\ i + 1 < size /\ i + 1 + (l - 1) < size /\ r < SizeLimit
       /\ (at0 - i) + n = r
  BY <1>1, <1>15, <1>16
<1>18. LengthParses(t)
  BY <1>12, <1>17, <1>25 DEF LengthParses, i, size
<1>19. TotalLength(t) = r
  <2>1. TotalLength(t) = r % SizeLimit
    BY <1>12, <1>17 DEF TotalLength, at0, i
  <2>2. r % SizeLimit = r
    BY <1>1, <1>17, SMTT(30)
  <2> QED
    BY <2>1, <2>2
<1>20. SubspanFits(t, i, r) /\ SubspanFits(t, at0, n)
  BY <1>1, <1>15, <1>17 DEF SubspanFits, size
<1>21. SpansFit(t)
  BY <1>12, <1>19, <1>20 DEF SpansFit, i, at0
<1>22. ContentSize(t) = n
  <2>1. n # Rest
    BY <1>1, <1>15, <1>17
  <2> QED
    BY <1>12, <2>1 DEF ContentSize, SubspanSize
<1>23. Content(t) = c
  <2>1. Reads(t, at0, c)
    BY <1>9, <1>17 DEF l
  <2>2. Slice(t, at0, Len(c)) = c
    BY <1>3, <1>17, <2>1, ReadsSlice
  <2> QED
    BY <1>3, <1>22, <2>2 DEF Content, at0
<1>24. Raw(t) = o.raw
  <2>1. Slice(t, i, r) = o.raw
    <3>1. Reads(t, i, o.raw)
      BY DEF i
    <3> QED
      BY <1>1, <1>3, <3>1, ReadsSlice DEF r
  <2>2. r = Rest => size - i = r
    BY <1>1, <1>15
  <2>3. SubspanSize(t, i, r) = r
    BY <2>2 DEF SubspanSize, size
  <2> QED
    BY <1>19, <2>1, <2>3 DEF Raw, i
<1>26. Fits(t)
  BY <1>17, <1>18, <1>21 DEF Fits, i, size
<1>27. Reads(t, at0, c)
  BY <1>9, <1>17 DEF l
<1> QED
  BY <1>11, <1>12, <1>17, <1>22, <1>23, <1>24, <1>26, <1>27 DEF ReadAs, n, c, i, r, at0

-----------------------------------------------------------------------------
(* parse_oid(). *)

ArcOctet(c, st, o) == NextArcOctet(st, o)
ArcFold == INSTANCE Folding WITH Op <- ArcOctet

ArcStates == [arcs : Seq(Nat), n : Nat, octets : Nat, longest : Nat]

\* These arcs are complete, and the next one has begun with so many octets.
ArcState(st, arcs, n, octets) ==
  /\ st \in ArcStates
  /\ st.arcs = arcs /\ st.n = n /\ st.octets = octets
  /\ st.longest <= SizeOctets

LEMMA LargerIs ==
  ASSUME NEW a \in Nat, NEW b \in Nat
  PROVE  Max({a, b}) \in {a, b}
<1>1. PICK m \in {a, b} : \A n \in {a, b} : m >= n
  OBVIOUS
<1> QED
  BY <1>1 DEF Max

LEMMA HighType == High \in Nat /\ High > 1 /\ SizeOctets \in Nat \ {0} /\ OidRadix \in Nat \ {0}
  BY DerAssumption

LEMMA NextArcType ==
  ASSUME NEW st \in ArcStates, NEW o \in Nat
  PROVE  NextArcOctet(st, o) \in ArcStates
<1>1. st.arcs \in Seq(Nat) /\ st.n \in Nat /\ st.octets \in Nat /\ st.longest \in Nat
  BY DEF ArcStates
<1>2. st.n * High + o \in Nat /\ (o >= High => st.n * High + (o - High) \in Nat)
  <2> DEFINE p == st.n * High
  <2>1. p \in Nat
    BY <1>1, HighType
  <2> HIDE DEF p
  <2>2. p + o \in Nat /\ (o >= High => p + (o - High) \in Nat)
    BY <2>1, HighType
  <2> QED
    BY <2>2 DEF p
<1> DEFINE w == Max({st.longest, st.octets + 1})
           x == st.n * High + o
           y == st.n * High + (o - High)
<1>3. w \in Nat
  <2>1. st.octets + 1 \in Nat
    BY <1>1
  <2> QED
    BY <1>1, <2>1, LargerIs
<1>4. CASE o < High
  <2>1. NextArcOctet(st, o) = [arcs |-> Append(st.arcs, x), n |-> 0, octets |-> 0, longest |-> w]
    BY <1>4 DEF NextArcOctet
  <2> HIDE DEF w, x
  <2>2. x \in Nat
    BY <1>2 DEF x
  <2>3. Append(st.arcs, x) \in Seq(Nat)
    BY <1>1, <2>2
  <2> QED
    BY <1>3, <2>1, <2>3 DEF ArcStates
<1>5. CASE ~(o < High)
  <2>1. NextArcOctet(st, o) = [st EXCEPT !.n = y, !.octets = st.octets + 1]
    BY <1>5 DEF NextArcOctet
  <2>2. y \in Nat
    BY <1>2, <1>5, HighType
  <2> HIDE DEF y
  <2>3. st.octets + 1 \in Nat
    BY <1>1
  <2> QED
    BY <2>1, <2>2, <2>3 DEF ArcStates
<1> QED
  BY <1>4, <1>5

\* The last octet of an arc.
LEMMA LastArcOctet ==
  ASSUME NEW o \in Nat, o < High, NEW arcs \in Seq(Nat), NEW n \in Nat,
         NEW octets \in Nat, octets < SizeOctets,
         NEW st, ArcState(st, arcs, n, octets)
  PROVE  ArcState(NextArcOctet(st, o), Append(arcs, n * High + o), 0, 0)
<1>1. st \in ArcStates /\ st.arcs = arcs /\ st.n = n /\ st.octets = octets /\ st.longest <= SizeOctets
  BY DEF ArcState
<1> DEFINE w == Max({st.longest, st.octets + 1})
           x == Append(st.arcs, st.n * High + o)
<1>2. NextArcOctet(st, o) = [arcs |-> x, n |-> 0, octets |-> 0, longest |-> w]
  BY DEF NextArcOctet
<1>3. w <= SizeOctets
  <2>1. st.longest \in Nat /\ st.octets + 1 \in Nat /\ st.octets + 1 <= SizeOctets
    BY <1>1, HighType DEF ArcStates
  <2>2. w \in {st.longest, st.octets + 1}
    BY <2>1, LargerIs
  <2> HIDE DEF w
  <2> QED
    BY <1>1, <2>1, <2>2
<1>4. x = Append(arcs, n * High + o)
  BY <1>1
<1>5. NextArcOctet(st, o) \in ArcStates
  BY <1>1, NextArcType
<1> HIDE DEF w, x
<1> QED
  BY <1>2, <1>3, <1>4, <1>5 DEF ArcState

\* Every other one.
LEMMA MoreArcOctet ==
  ASSUME NEW o \in Nat, NEW arcs \in Seq(Nat), NEW n \in Nat, NEW octets \in Nat,
         NEW st, ArcState(st, arcs, n, octets)
  PROVE  ArcState(NextArcOctet(st, o + High), arcs, n * High + o, octets + 1)
<1>1. st \in ArcStates /\ st.arcs = arcs /\ st.n = n /\ st.octets = octets /\ st.longest <= SizeOctets
  BY DEF ArcState
<1> DEFINE u == o + High
           y == st.n * High + (u - High)
<1>2. u \in Nat /\ ~(u < High) /\ u - High = o
  BY HighType
<1>3. y = n * High + o
  BY <1>1, <1>2
<1> HIDE DEF u
<1>4. NextArcOctet(st, u) = [st EXCEPT !.n = y, !.octets = st.octets + 1]
  BY <1>2 DEF NextArcOctet
<1>5. NextArcOctet(st, u) \in ArcStates
  BY <1>1, <1>2, NextArcType
<1> HIDE DEF y
<1>6. /\ NextArcOctet(st, u).arcs = st.arcs /\ NextArcOctet(st, u).n = y
      /\ NextArcOctet(st, u).octets = st.octets + 1
      /\ NextArcOctet(st, u).longest = st.longest
  BY <1>1, <1>4 DEF ArcStates
<1> QED
  BY <1>1, <1>3, <1>5, <1>6 DEF ArcState, u

\* All octets of an arc.
LEMMA ReadsArc ==
  ASSUME NEW a \in Nat, NEW c \in 1..SizeOctets, a < High^c,
         NEW arcs \in Seq(Nat), NEW f, ArcState(f[0], arcs, 0, 0),
         \A d \in 1..c : f[d] = NextArcOctet(f[d - 1], ArcOctets(a, c)[d])
  PROVE  ArcState(f[c], Append(arcs, a), 0, 0)
<1> DEFINE q == InBase(a, High, c)
           v(d) == a \div High^(c - d)
<1>1. PowersUpTo(High, SizeOctets) /\ High \in Nat \ {0} /\ SizeOctets \in Nat /\ High \in Nat
  BY DerAssumption
<1>2. c \in 0..SizeOctets /\ c \in Nat /\ c \in 1..c
  BY <1>1
<1>3. DigitsOf(q, a, High, c)
  BY <1>1, <1>2, InBaseDigits
<1>4. /\ \A k \in 1..c : q[k] \in 0..(High - 1)
      /\ \A k \in 0..c : v(k) \in Nat
      /\ v(0) = 0 /\ v(c) = a
      /\ \A k \in 1..c : v(k - 1) * High + q[k] = v(k)
  BY <1>3 DEF DigitsOf
<1>5. \A d \in 1..c : ArcOctets(a, c)[d] = q[d] + (IF d < c THEN High ELSE 0)
  BY DEF ArcOctets
<1> HIDE DEF q, v
<1>6. \A d \in 1..c : q[d] \in Nat /\ q[d] < High
  <2> TAKE d \in 1..c
  <2>1. q[d] \in 0..(High - 1)
    BY <1>4
  <2> QED
    BY <2>1, HighType
<1> DEFINE T == {d \in 0..(c - 1) : ArcState(f[d], arcs, v(d), d)}
<1>7. 0 \in T
  BY <1>2, <1>4
<1>8. ASSUME NEW d \in 0..((c - 1) - 1), d \in T PROVE d + 1 \in T
  <2> DEFINE e == d + 1
  <2>1. e \in 1..c /\ e - 1 = d /\ e < c /\ e \in 0..(c - 1) /\ d \in Nat /\ d \in 0..c
    BY <1>2
  <2>2. ArcState(f[d], arcs, v(d), d) /\ v(d) \in Nat
    BY <1>4, <1>8, <2>1
  <2>3. f[e] = NextArcOctet(f[d], q[e] + High)
    <3> HIDE DEF e
    <3>1. f[e] = NextArcOctet(f[e - 1], ArcOctets(a, c)[e])
      BY <2>1
    <3> QED
      BY <1>5, <2>1, <3>1
  <2>4. q[e] \in Nat
    BY <1>6, <2>1
  <2>5. ArcState(f[e], arcs, v(d) * High + q[e], d + 1)
    <3> HIDE DEF e
    <3> QED
      BY <2>1, <2>2, <2>3, <2>4, MoreArcOctet
  <2>6. v(d) * High + q[e] = v(e)
    <3> HIDE DEF e
    <3>1. v(e - 1) * High + q[e] = v(e)
      BY <1>4, <2>1
    <3> QED
      BY <2>1, <3>1
  <2>7. ArcState(f[e], arcs, v(e), e)
    BY <2>5, <2>6
  <2> QED
    BY <2>1, <2>7
<1>9. c - 1 \in T
  <2>1. 0 \in Int /\ c - 1 \in Int /\ c - 1 \in 0..(c - 1)
    BY <1>2
  <2> HIDE DEF T
  <2>2. \A d \in 0..(c - 1) : d \in T
    BY <1>7, <1>8, <2>1, NumberOf!Induction
  <2> QED
    BY <2>1, <2>2
<1>10. ArcState(f[c - 1], arcs, v(c - 1), c - 1) /\ c - 1 \in Nat /\ c - 1 < SizeOctets
       /\ v(c - 1) \in Nat
  <2>1. c - 1 \in 0..c /\ c - 1 \in Nat /\ c - 1 < SizeOctets
    BY <1>1, <1>2
  <2> QED
    BY <1>4, <1>9, <2>1
<1>11. f[c] = NextArcOctet(f[c - 1], q[c])
  <2>1. f[c] = NextArcOctet(f[c - 1], ArcOctets(a, c)[c])
    BY <1>2
  <2>2. ArcOctets(a, c)[c] = q[c] + 0
    BY <1>2, <1>5
  <2>3. q[c] \in Nat
    BY <1>2, <1>6
  <2> QED
    BY <2>1, <2>2, <2>3
<1>12. ArcState(f[c], Append(arcs, v(c - 1) * High + q[c]), 0, 0)
  <2>1. q[c] \in Nat /\ q[c] < High
    BY <1>2, <1>6
  <2> DEFINE m == c - 1
             x == v(m)
  <2>2. ArcState(f[m], arcs, x, m) /\ m \in Nat /\ m < SizeOctets /\ x \in Nat
        /\ f[c] = NextArcOctet(f[m], q[c])
    BY <1>10, <1>11
  <2> HIDE DEF m, x
  <2>3. ArcState(f[c], Append(arcs, x * High + q[c]), 0, 0)
    BY <2>1, <2>2, LastArcOctet
  <2> QED
    BY <2>3 DEF m, x
<1>13. v(c - 1) * High + q[c] = a
  BY <1>2, <1>4
<1> QED
  BY <1>12, <1>13

LEMMA PrefixAppend ==
  ASSUME NEW arcs \in Seq(Nat), NEW l \in 1..Len(arcs)
  PROVE  /\ Append(SubSeq(arcs, 1, l - 1), arcs[l]) = SubSeq(arcs, 1, l)
         /\ SubSeq(arcs, 1, l - 1) \in Seq(Nat)
<1> DEFINE n == Len(arcs)
           a == SubSeq(arcs, 1, l - 1)
           e == arcs[l]
<1>1. n \in Nat /\ l \in 1..n /\ 1 \in 1..n
  OBVIOUS
<1>2. \A i \in 1..(l - 1) : i \in 1..n
  OBVIOUS
<1>3. \A i \in 1..n : arcs[i] \in Nat
  OBVIOUS
<1>4. l - 1 \in Int /\ 1 \in Int /\ l \in 1..Len(arcs)
  OBVIOUS
<1>5. a \in Seq(Nat)
  BY <1>2, <1>3, <1>4, SubSeqProperties
<1>6. SubSeq(arcs, 1, l) = a \o <<e>>
  BY <1>1, SubSeqRecursiveSecond
<1>7. e \in Nat
  BY <1>1, <1>3
<1> HIDE DEF a, e
<1>8. Append(a, e) = a \o <<e>>
  BY <1>5, <1>7, AppendIsConcat
<1> QED
  BY <1>5, <1>6, <1>8 DEF a, e

LEMMA ArcOctetsType ==
  ASSUME NEW a \in Nat, NEW c \in 1..SizeOctets, a < High^c
  PROVE  ArcOctets(a, c) \in Seq(Nat) /\ Len(ArcOctets(a, c)) = c
<1> DEFINE q == InBase(a, High, c)
           r == ArcOctets(a, c)
<1>1. PowersUpTo(High, SizeOctets) /\ High \in Nat \ {0} /\ SizeOctets \in Nat
  BY DerAssumption
<1>2. c \in 0..SizeOctets /\ c \in Nat
  BY <1>1
<1>3. DigitsOf(q, a, High, c)
  BY <1>1, <1>2, InBaseDigits
<1>4. \A k \in 1..c : q[k] \in Nat
  <2> TAKE k \in 1..c
  <2>1. q[k] \in 0..(High - 1)
    BY <1>3 DEF DigitsOf
  <2> QED
    BY <2>1, HighType
<1>5. r = [k \in 1..c |-> q[k] + (IF k < c THEN High ELSE 0)]
  BY DEF ArcOctets
<1> HIDE DEF q, r
<1>6. \A k \in 1..c : q[k] + (IF k < c THEN High ELSE 0) \in Nat
  <2> TAKE k \in 1..c
  <2> DEFINE x == q[k]
             y == IF k < c THEN High ELSE 0
  <2>1. x \in Nat /\ y \in Nat
    BY <1>4, HighType
  <2> HIDE DEF x, y
  <2>2. x + y \in Nat
    BY <2>1
  <2> QED
    BY <2>2 DEF x, y
<1>7. r \in [1..c -> Nat]
  BY <1>5, <1>6
<1>8. r \in Seq(Nat)
  BY <1>2, <1>7, SeqDef
<1>9. Len(r) \in Nat /\ DOMAIN r = 1..Len(r) /\ DOMAIN r = 1..c
  BY <1>7, <1>8
<1> QED
  BY <1>2, <1>8, <1>9, SameInterval DEF r

\* The octets of an identifier are parsed into its arcs.
LEMMA ReadsArcs ==
  ASSUME NEW octets \in Seq(Nat), NEW arcs \in Seq(Nat), EncodeArcs(octets, arcs)
  PROVE  OidParses(octets) /\ Oid(octets).arcs = arcs
<1> DEFINE m == Len(arcs) - 2
           h == arcs[1] * OidRadix + arcs[2]
<1>1. Len(arcs) \in Nat /\ Len(arcs) > 1 /\ arcs[2] < OidRadix
  BY DEF EncodeArcs
<1>2. \A i \in 1..Len(arcs) : arcs[i] \in Nat
  OBVIOUS
<1>3. m \in Nat /\ 1 \in 1..Len(arcs) /\ 2 \in 1..Len(arcs)
  BY <1>1
<1>4. PICK counts \in [1..m -> 1..SizeOctets] :
        /\ \A k \in DOMAIN counts : arcs[k + 2] < High^counts[k]
        /\ octets = <<h>> \o FlattenSeq([k \in DOMAIN counts |-> ArcOctets(arcs[k + 2], counts[k])])
  BY DEF EncodeArcs
<1> DEFINE q == [k \in 1..m |-> ArcOctets(arcs[k + 2], counts[k])]
           F == FlattenSeq(q)
<1>5. octets = <<h>> \o F
  BY <1>4
<1>6. ASSUME NEW k \in 1..m
      PROVE  /\ k + 2 \in 1..Len(arcs) /\ arcs[k + 2] \in Nat
             /\ counts[k] \in 1..SizeOctets /\ arcs[k + 2] < High^counts[k]
             /\ q[k] = ArcOctets(arcs[k + 2], counts[k])
             /\ q[k] \in Seq(Nat) /\ Len(q[k]) = counts[k]
  <2>1. k + 2 \in 1..Len(arcs) /\ counts[k] \in 1..SizeOctets
    <3>1. counts[k] \in 1..SizeOctets
      BY <1>4
    <3> DEFINE L == Len(arcs)
    <3>2. L \in Nat /\ k \in 1..(L - 2)
      BY <1>1
    <3> HIDE DEF L
    <3>3. k + 2 \in 1..L
      BY <3>2
    <3> QED
      BY <3>1, <3>3 DEF L
  <2>2. arcs[k + 2] \in Nat /\ arcs[k + 2] < High^counts[k]
    BY <1>2, <1>4, <2>1
  <2>3. /\ ArcOctets(arcs[k + 2], counts[k]) \in Seq(Nat)
        /\ Len(ArcOctets(arcs[k + 2], counts[k])) = counts[k]
    BY <2>1, <2>2, ArcOctetsType
  <2> QED
    BY <2>1, <2>2, <2>3
<1>7. q \in Seq(Seq(Nat)) /\ Len(q) = m
  <2> DEFINE D == Seq(Nat)
  <2>1. \A k \in 1..m : ArcOctets(arcs[k + 2], counts[k]) \in D
    BY <1>6
  <2>2. q \in [1..m -> D]
    BY <2>1
  <2> HIDE DEF q, D, m
  <2>3. q \in Seq(D)
    BY <1>3, <2>2, SeqDef
  <2>4. Len(q) \in Nat /\ DOMAIN q = 1..Len(q) /\ DOMAIN q = 1..m
    BY <2>2, <2>3
  <2> QED
    BY <1>3, <2>3, <2>4, SameInterval DEF D
<1> HIDE DEF q, F, m
<1>8. F \in Seq(Nat) /\ \E p : PartsAt(p, q, F)
  BY <1>7, PartsOfFlattened DEF F
<1>9. PICK p : PartsAt(p, q, F)
  BY <1>8
<1> DEFINE n == Len(F)
<1>10. /\ p \in [0..m -> 0..n] /\ p[0] = 0 /\ p[m] = n
       /\ \A j \in 1..m :
            /\ p[j] = p[j - 1] + Len(q[j])
            /\ \A i \in 1..Len(q[j]) : F[p[j - 1] + i] = q[j][i]
  BY <1>7, <1>9 DEF PartsAt
<1>11. arcs[1] \in Nat /\ arcs[2] \in 0..(OidRadix - 1) /\ h \in Nat
       /\ h \div OidRadix = arcs[1] /\ h % OidRadix = arcs[2]
  <2> DEFINE x == arcs[1]
             y == arcs[2]
             R == OidRadix
  <2>1. x \in Nat /\ y \in Nat /\ y < R /\ R \in Nat \ {0}
    BY <1>1, <1>2, <1>3, HighType
  <2> HIDE DEF x, y, R
  <2>2. x * R = R * x /\ R * x \in Nat
    BY <2>1
  <2> DEFINE z == R * x
  <2>3. z \in Nat /\ y \in 0..(R - 1) /\ z + y \in Nat /\ z + y \in Int /\ x \in Int
    <3>1. z \in Nat
      BY <2>2
    <3> HIDE DEF z
    <3> QED
      BY <2>1, <3>1
  <2>4. (z + y) \div R = x /\ (z + y) % R = y
    <3> DEFINE w == z + y
    <3>1. w \in Int /\ w = (R * x) + y
      BY <2>3
    <3> HIDE DEF w, z
    <3>2. w \div R = x /\ w % R = y
      BY <2>1, <2>3, <3>1, DivisionIs
    <3> QED
      BY <3>2 DEF w
  <2>5. x * R + y = z + y
    BY <2>2
  <2> HIDE DEF z
  <2>6. (x * R + y) \div R = x /\ (x * R + y) % R = y /\ x * R + y \in Nat
    BY <2>3, <2>4, <2>5
  <2> QED
    BY <2>1, <2>3, <2>6 DEF x, y, R
<1> HIDE DEF h
<1>12. octets # <<>> /\ octets[1] = h /\ Tail(octets) = F
  <2>1. <<h>> \in Seq(Nat) /\ Len(<<h>>) = 1 /\ <<h>>[1] = h
    BY <1>11
  <2> DEFINE c == <<h>> \o F
  <2>2. /\ c \in Seq(Nat) /\ Len(c) = 1 + n
        /\ n \in Nat
        /\ \A i \in 1..1 : c[i] = h
        /\ \A i \in 1..n : c[1 + i] = F[i]
    <3>1. /\ c \in Seq(Nat) /\ Len(c) = Len(<<h>>) + Len(F)
          /\ Len(F) \in Nat
          /\ \A i \in 1..Len(<<h>>) : c[i] = <<h>>[i]
          /\ \A i \in 1..Len(F) : c[Len(<<h>>) + i] = F[i]
      BY <1>8, <2>1, ConcatAt
    <3> QED
      BY <2>1, <3>1
  <2> HIDE DEF c
  <2>3. octets = c
    BY <1>5 DEF c
  <2>4. c # <<>>
    <3>1. Len(<<>>) = 0 /\ Len(c) # 0
      BY <2>2
    <3> QED
      BY <3>1
  <2>5. /\ Tail(c) \in Seq(Nat) /\ Len(Tail(c)) = Len(c) - 1
        /\ \A i \in 1..Len(Tail(c)) : Tail(c)[i] = c[i + 1]
    BY <2>2, <2>4, HeadTailProperties
  <2> DEFINE u == Tail(c)
  <2>6. u \in Seq(Nat) /\ Len(u) = n /\ \A i \in 1..n : u[i] = c[i + 1]
    <3> HIDE DEF n
    <3>1. Len(c) - 1 = n
      BY <2>2
    <3> QED
      BY <2>5, <3>1
  <2> HIDE DEF u
  <2>7. \A i \in 1..n : i + 1 = 1 + i
    BY <2>2
  <2>8. \A i \in 1..Len(u) : u[i] = F[i]
    <3> HIDE DEF n
    <3> QED
      BY <2>2, <2>6, <2>7
  <2>9. u = F
    BY <1>8, <2>6, <2>8, SeqEqual
  <2> QED
    BY <2>2, <2>3, <2>4, <2>9 DEF u
<1> DEFINE st == [arcs |-> <<arcs[1], arcs[2]>>, n |-> 0, octets |-> 0, longest |-> 0]
<1>13. Oid(octets) = ArcFold!Folded(F, st, F)
  <2>1. Oid(octets) = FoldLeft(NextArcOctet, st, F)
    BY <1>11, <1>12 DEF Oid
  <2> HIDE DEF st
  <2> QED
    BY <2>1 DEF ArcOctet, ArcFold!Folded, ArcFold!FoldLeft, FoldLeft,
                ArcFold!MapThenFoldSet, MapThenFoldSet, ArcFold!Max, Max
<1>14. st \in ArcStates
  <2>1. <<arcs[1], arcs[2]>> \in Seq(Nat)
    BY <1>2, <1>3
  <2> QED
    BY <2>1 DEF ArcStates
<1>15. n \in Nat /\ DOMAIN F = 1..n /\ \A k \in 1..n : F[k] \in Nat
  BY <1>8
<1>16. \A s0 \in ArcStates, k \in 1..n : ArcOctet(F, s0, F[k]) \in ArcStates
  BY <1>15, NextArcType DEF ArcOctet
<1>17. PICK g : ArcFold!FoldSteps(g, F, n, ArcStates, st, F)
  <2> HIDE DEF st, n
  <2> QED
    BY <1>14, <1>15, <1>16, ArcFold!Fold
<1>18. /\ g[0] = st
       /\ \A k \in 1..n : g[k] = NextArcOctet(g[k - 1], F[k])
       /\ g[n] = Oid(octets)
  BY <1>13, <1>17 DEF ArcFold!FoldSteps, ArcOctet
<1> HIDE DEF n
<1> DEFINE A(j) == SubSeq(arcs, 1, j + 2)
           T == {j \in 0..m : ArcState(g[p[j]], A(j), 0, 0)}
<1>19. 0 \in T
  <2>1. SubSeq(arcs, 1, 2) = <<arcs[1], arcs[2]>>
    <3>1. SubSeq(arcs, 1, 1) = Append(SubSeq(arcs, 1, 0), arcs[1])
      BY <1>3, PrefixAppend
    <3>2. SubSeq(arcs, 1, 2) = Append(SubSeq(arcs, 1, 1), arcs[2])
      BY <1>3, PrefixAppend
    <3>3. SubSeq(arcs, 1, 0) = <<>>
      BY SubSeqEmpty
    <3> DEFINE x == arcs[1]
               y == arcs[2]
    <3>5. x \in Nat /\ y \in Nat
      BY <1>2, <1>3
    <3> HIDE DEF x, y
    <3>6. <<>> \in Seq(Nat) /\ <<x>> \in Seq(Nat) /\ <<x, y>> \in Seq(Nat)
      BY <3>5
    <3>7. Append(<<>>, x) = <<x>>
      BY <3>5, <3>6
    <3>8. Append(<<x>>, y) = <<x, y>>
      <4> DEFINE s1 == <<x>>
                 s2 == <<x, y>>
                 b  == Append(s1, y)
      <4>1. s1 \in Seq(Nat) /\ Len(s1) = 1 /\ s1[1] = x /\ s2 \in Seq(Nat) /\ Len(s2) = 2
            /\ s2[1] = x /\ s2[2] = y
        BY <3>6
      <4> HIDE DEF s1, s2
      <4>2. b \in Seq(Nat) /\ Len(b) = 2 /\ b[1] = x /\ b[2] = y
        <5>1. IsSeq(s1)
          BY <4>1 DEF IsSeq
        <5>2. /\ Len(b) = Len(s1) + 1 /\ b[Len(s1) + 1] = y
              /\ \A i \in 1..Len(s1) : b[i] = s1[i]
          BY <5>1, AppendAny
        <5>3. 1 \in 1..Len(s1) /\ Len(s1) + 1 = 2
          BY <4>1
        <5>4. b \in Seq(Nat)
          BY <3>5, <4>1
        <5> HIDE DEF b
        <5> QED
          BY <4>1, <5>2, <5>3, <5>4
      <4> HIDE DEF b
      <4>3. \A i \in 1..Len(b) : b[i] = s2[i]
        <5>1. \A i \in 1..2 : i = 1 \/ i = 2
          OBVIOUS
        <5> QED
          BY <4>1, <4>2, <5>1
      <4>4. b = s2
        BY <4>1, <4>2, <4>3, SeqEqual
      <4> QED
        BY <4>4 DEF b, s1, s2
    <3>4. Append(<<>>, x) = <<x>> /\ Append(<<x>>, y) = <<x, y>>
      BY <3>7, <3>8
    <3> QED
      BY <3>1, <3>2, <3>3, <3>4 DEF x, y
  <2>2. st.longest <= SizeOctets
    BY HighType
  <2>3. ArcState(st, <<arcs[1], arcs[2]>>, 0, 0)
    BY <1>14, <2>2 DEF ArcState
  <2> HIDE DEF st
  <2>4. 0 + 2 = 2 /\ 0 \in 0..m
    BY <1>3
  <2> QED
    BY <1>10, <1>18, <2>1, <2>3, <2>4
<1> HIDE DEF st
<1>20. ASSUME NEW j \in 0..(m - 1), j \in T PROVE j + 1 \in T
  <2> DEFINE l == j + 1
             x == p[j]
             a == arcs[l + 2]
             c == counts[l]
             f == [d \in 0..c |-> g[x + d]]
  <2>1. l \in 1..m /\ l - 1 = j /\ j \in 0..m /\ l \in 0..m
    BY <1>3
  <2>2. /\ l + 2 \in 1..Len(arcs) /\ a \in Nat /\ c \in 1..SizeOctets /\ a < High^c
        /\ q[l] = ArcOctets(a, c) /\ Len(q[l]) = c
    <3> HIDE DEF l
    <3> QED
      BY <1>6, <2>1
  <2>3. x \in Nat /\ p[l] \in 0..n
    <3>1. p \in [0..m -> 0..n]
      BY <1>10
    <3> HIDE DEF l
    <3>2. p[j] \in 0..n /\ p[l] \in 0..n
      BY <2>1, <3>1
    <3> QED
      BY <3>2
  <2>4. p[l] = x + c /\ \A i \in 1..c : F[x + i] = ArcOctets(a, c)[i]
    <3> HIDE DEF l, a, c
    <3> QED
      BY <1>10, <2>1, <2>2
  <2>5. c \in Nat /\ 0 \in 0..c /\ c \in 0..c
    BY <2>2, HighType
  <2> HIDE DEF a, c, x
  <2>6. f[0] = g[x]
    BY <2>3, <2>5
  <2>7. f[c] = g[x + c]
    BY <2>5
  <2>8. \A d \in 1..c : f[d] = NextArcOctet(f[d - 1], ArcOctets(a, c)[d])
    <3> TAKE d \in 1..c
    <3> DEFINE k == x + d
    <3>1. k \in 1..n /\ k - 1 = x + (d - 1) /\ d - 1 \in 0..c /\ d \in 0..c
      BY <1>15, <2>3, <2>4, <2>5
    <3>2. f[d] = g[k] /\ f[d - 1] = g[x + (d - 1)]
      BY <3>1
    <3>3. F[k] = ArcOctets(a, c)[d]
      BY <2>4
    <3> HIDE DEF k, f
    <3>4. g[k] = NextArcOctet(g[k - 1], F[k])
      BY <1>18, <3>1
    <3> QED
      BY <3>1, <3>2, <3>3, <3>4
  <2> HIDE DEF f
  <2>9. ArcState(f[0], A(j), 0, 0)
    BY <1>20, <2>6 DEF x
  <2>10. A(j) \in Seq(Nat) /\ Append(A(j), a) = A(l)
    <3> DEFINE i == l + 2
    <3>1. i \in 1..Len(arcs) /\ i - 1 = j + 2
      BY <2>1, <2>2
    <3> HIDE DEF i
    <3>2. /\ Append(SubSeq(arcs, 1, i - 1), arcs[i]) = SubSeq(arcs, 1, i)
          /\ SubSeq(arcs, 1, i - 1) \in Seq(Nat)
      BY <3>1, PrefixAppend
    <3> QED
      BY <3>1, <3>2 DEF a, i
  <2>11. ArcState(f[c], Append(A(j), a), 0, 0)
    <3> HIDE DEF A
    <3> QED
      BY <2>2, <2>8, <2>9, <2>10, ReadsArc
  <2>12. ArcState(g[p[l]], A(l), 0, 0)
    BY <2>4, <2>7, <2>10, <2>11
  <2> QED
    BY <2>1, <2>12
<1>21. m \in T
  <2>1. 0 \in Int /\ m \in Int /\ m \in 0..m
    BY <1>3
  <2> HIDE DEF T
  <2> QED
    BY <1>19, <1>20, <2>1, NumberOf!Induction
<1>22. ArcState(Oid(octets), A(m), 0, 0)
  BY <1>10, <1>18, <1>21
<1>23. A(m) = arcs
  <2>1. m + 2 = Len(arcs)
    BY <1>1 DEF m
  <2> QED
    BY <2>1, SubSeqFull
<1> QED
  BY <1>12, <1>22, <1>23 DEF ArcState, OidParses

-----------------------------------------------------------------------------
(* What encodes objects, read by parse_impl().  The invariant gives every    *)
(* span of the stack the objects it should be parsed into: those encoded to  *)
(* the outermost one, and to any other one those inside the object that the  *)
(* span around it has come to.                                               *)

\* The raw octets of the objects make up the span t, each from a place p on.
LaidOut(t, objs, p) ==
  /\ p \in [0..Len(objs) -> 0..t.size]
  /\ p[0] = 0 /\ p[Len(objs)] = t.size
  /\ \A j \in 1..Len(objs) :
       p[j] = p[j - 1] + Len(objs[j].raw) /\ Reads(t, p[j - 1], objs[j].raw)

\* The first of the objects are parsed, and the next one comes next.
Follows(t, objs) ==
  /\ objs \in Seq(Objects)
  /\ Len(t.objs) <= Len(objs)
  /\ \A j \in 1..Len(t.objs) : t.objs[j] = objs[j]
  /\ \E p : LaidOut(t, objs, p) /\ t.i = p[Len(t.objs)]

Ahead(t, objs) == objs[Len(t.objs) + 1]

WaitsFor(t, objs, inner) ==
  /\ Len(t.objs) < Len(objs)
  /\ Ahead(t, objs).id \in ConstructedIds
  /\ inner = Ahead(t, objs).objects

\* The input encodes all, and e[k] are the objects of the span stack[k].
Expects(all, e) ==
  /\ e[1] = all
  /\ \A k \in 1..Len(stack) : Follows(stack[k], e[k])
  /\ \A k \in 1..(Len(stack) - 1) : WaitsFor(stack[k], e[k], e[k + 1])

EncodedInv ==
  \A all \in Seq(Objects) : input.octets = FlattenSeq(RawOctets(all)) =>
    /\ pc # "abort"
    /\ pc = "return" => Len(stack) = 1 /\ stack[1].i >= stack[1].size
    /\ \E e : Expects(all, e)

LEMMA RawOctetsType ==
  ASSUME NEW objs \in Seq(Objects)
  PROVE  /\ RawOctets(objs) \in Seq(Seq(Nat)) /\ Len(RawOctets(objs)) = Len(objs)
         /\ Len(objs) \in Nat
         /\ \A j \in 1..Len(objs) : RawOctets(objs)[j] = objs[j].raw /\ objs[j] \in Objects
<1> DEFINE n == Len(objs)
           q == [j \in 1..n |-> objs[j].raw]
           D == Seq(Nat)
<1>1. n \in Nat /\ DOMAIN objs = 1..n /\ \A j \in 1..n : objs[j] \in Objects
  OBVIOUS
<1>2. RawOctets(objs) = q
  BY <1>1 DEF RawOctets
<1>3. \A j \in 1..n : objs[j].raw \in D
  <2> TAKE j \in 1..n
  <2>1. objs[j] \in Objects
    BY <1>1
  <2> QED
    BY <2>1, ObjectType
<1>4. q \in [1..n -> D]
  BY <1>3
<1>5. \A j \in 1..n : q[j] = objs[j].raw
  OBVIOUS
<1> HIDE DEF q, n, D
<1>6. q \in Seq(D)
  BY <1>1, <1>4, SeqDef
<1>7. Len(q) \in Nat /\ DOMAIN q = 1..Len(q) /\ DOMAIN q = 1..n
  BY <1>4, <1>6
<1>8. Len(q) = n
  BY <1>1, <1>7, SameInterval
<1> QED
  BY <1>1, <1>2, <1>5, <1>6, <1>8 DEF n, D

LEMMA LaysOut ==
  ASSUME NEW objs \in Seq(Objects), NEW t, t.base \in Nat, t.size \in Nat,
         Reads(t, 0, FlattenSeq(RawOctets(objs))),
         Len(FlattenSeq(RawOctets(objs))) = t.size
  PROVE  \E p : LaidOut(t, objs, p)
<1> DEFINE q == RawOctets(objs)
           F == FlattenSeq(q)
           n == Len(objs)
           size == t.size
           b == t.base
           At(i) == input.octets[i]
<1>1. /\ q \in Seq(Seq(Nat)) /\ Len(q) = n /\ n \in Nat
      /\ \A j \in 1..n : q[j] = objs[j].raw
  BY RawOctetsType
<1>2. F \in Seq(Nat) /\ \E p : PartsAt(p, q, F)
  BY <1>1, PartsOfFlattened
<1>3. PICK p : PartsAt(p, q, F)
  BY <1>2
<1>4. Len(F) = size
  OBVIOUS
<1>5. /\ p \in [0..n -> 0..size] /\ p[0] = 0 /\ p[n] = size
      /\ \A j \in 1..n :
           /\ p[j] = p[j - 1] + Len(q[j])
           /\ \A i \in 1..Len(q[j]) : F[p[j - 1] + i] = q[j][i]
  BY <1>1, <1>3, <1>4 DEF PartsAt
<1>6. \A i \in 1..size : At(b + 0 + i) = F[i]
  BY <1>4 DEF Reads
<1> HIDE DEF q, F, n, size, At, b
<1>7. ASSUME NEW j \in 1..n
      PROVE  p[j] = p[j - 1] + Len(objs[j].raw) /\ Reads(t, p[j - 1], objs[j].raw)
  <2> DEFINE r == objs[j].raw
             x == p[j - 1]
             l == Len(r)
  <2>1. q[j] = r /\ p[j] = x + l /\ \A i \in 1..l : F[x + i] = r[i]
    <3>1. q[j] = r
      BY <1>1
    <3>2. /\ p[j] = p[j - 1] + Len(q[j])
          /\ \A i \in 1..Len(q[j]) : F[p[j - 1] + i] = q[j][i]
      BY <1>5
    <3> QED
      BY ONLY <3>1, <3>2
  <2>2. j - 1 \in 0..n /\ j \in 0..n
    BY <1>1
  <2>3. x \in 0..size /\ p[j] \in 0..size
    BY <1>5, <2>2
  <2>4. q[j] \in Seq(Nat)
    BY <1>1
  <2>5. l \in Nat
    <3>1. \A c \in Seq(Nat) : Len(c) \in Nat
      OBVIOUS
    <3> QED
      BY <2>1, <2>4, <3>1
  <2>6. size \in Nat /\ b \in Nat
    BY DEF size, b
  <2> HIDE DEF r, x, l
  <2>7. x + l <= size /\ x \in Nat
    BY <2>1, <2>3, <2>6
  <2>8. \A i \in 1..l : x + i \in 1..size /\ b + 0 + (x + i) = b + x + i
    BY <2>5, <2>6, <2>7
  <2>9. \A i \in 1..l : At(b + x + i) = r[i]
    BY <1>6, <2>1, <2>8
  <2>10. Reads(t, x, r)
    BY <2>7, <2>9 DEF Reads, At, l, b, size
  <2> QED
    BY <2>1, <2>10 DEF r, x, l
<1> QED
  BY <1>5, <1>7 DEF LaidOut, n, size

\* The object that comes next is there.
LEMMA AheadIsRead ==
  ASSUME NEW t, InMemory(input), SpanOK(t), NEW objs, Follows(t, objs), t.i < t.size
  PROVE  /\ Len(t.objs) < Len(objs)
         /\ Ahead(t, objs) \in Objects
         /\ ReadAs(t, Ahead(t, objs))
<1> DEFINE m == Len(t.objs)
           n == Len(objs)
           k == m + 1
<1>1. m \in Nat
  <2>1. PICK T : t.objs \in Seq(T)
    BY DEF SpanOK, IsSeq
  <2> QED
    BY <2>1
<1>2. n \in Nat /\ m <= n /\ \A j \in 1..n : objs[j] \in Objects
  BY DEF Follows
<1>3. PICK p : LaidOut(t, objs, p) /\ t.i = p[m]
  BY DEF Follows
<1>4. /\ p[n] = t.size
      /\ \A j \in 1..n : Reads(t, p[j - 1], objs[j].raw)
  BY <1>3 DEF LaidOut
<1>5. t.i \in Nat /\ t.size \in Nat
  BY DEF SpanOK
<1>6. m < n
  <2> HIDE DEF m, n
  <2>1. m # n
    BY <1>3, <1>4, <1>5
  <2> QED
    BY <1>1, <1>2, <2>1
<1>7. k \in 1..n /\ k - 1 = m
  BY <1>1, <1>2, <1>6
<1>8. Ahead(t, objs) = objs[k]
  BY DEF Ahead
<1> HIDE DEF k, m, n
<1>9. objs[k] \in Objects /\ Reads(t, t.i, objs[k].raw)
  BY <1>2, <1>3, <1>4, <1>7
<1>10. ReadAs(t, objs[k])
  BY <1>9, ReadsObject
<1> QED
  BY <1>6, <1>8, <1>9, <1>10 DEF m, n

\* A span that is parsed to the end has given all its objects.
LEMMA AllAreRead ==
  ASSUME NEW t, InMemory(input), SpanOK(t), NEW objs, Follows(t, objs), t.i >= t.size
  PROVE  t.objs = objs
<1> DEFINE m == Len(t.objs)
           n == Len(objs)
           k == m + 1
<1>1. PICK T : t.objs \in Seq(T)
  BY DEF SpanOK, IsSeq
<1>2. m \in Nat
  BY <1>1
<1>3. n \in Nat /\ m <= n /\ \A j \in 1..n : objs[j] \in Objects
  BY DEF Follows
<1>4. objs \in Seq(Objects) /\ \A j \in 1..m : t.objs[j] = objs[j]
  BY DEF Follows
<1>5. PICK p : LaidOut(t, objs, p) /\ t.i = p[m]
  BY DEF Follows
<1>6. /\ p \in [0..n -> 0..t.size]
      /\ \A j \in 1..n : p[j] = p[j - 1] + Len(objs[j].raw) /\ Reads(t, p[j - 1], objs[j].raw)
  BY <1>5 DEF LaidOut
<1>7. t.i \in Nat /\ t.size \in Nat
  BY DEF SpanOK
<1>8. m = n
  <2> SUFFICES ASSUME m # n PROVE FALSE
    OBVIOUS
  <2> HIDE DEF m, n
  <2>1. k \in 1..n /\ k - 1 = m /\ k \in 0..n
    BY <1>2, <1>3
  <2> HIDE DEF k
  <2>2. /\ objs[k] \in Objects /\ p[k] = t.i + Len(objs[k].raw)
        /\ Reads(t, t.i, objs[k].raw) /\ p[k] \in 0..t.size
    BY <1>3, <1>5, <1>6, <2>1
  <2>3. ReadAs(t, objs[k])
    BY <2>2, ReadsObject
  <2> DEFINE l == Len(objs[k].raw)
  <2>4. l \in Nat \ {0} /\ t.i + l <= t.size
    BY <2>2, <2>3 DEF ReadAs
  <2> HIDE DEF l
  <2> QED
    BY <1>7, <2>4
<1> DEFINE U == T \cup Objects
<1>9. t.objs \in Seq(U) /\ objs \in Seq(U)
  BY <1>1, <1>4
<1> HIDE DEF U
<1> QED
  BY <1>4, <1>8, <1>9, SeqEqual

\* One object further.
LEMMA AdvanceFollows ==
  ASSUME NEW t, InMemory(input), SpanOK(t), NEW objs, Follows(t, objs),
         Len(t.objs) < Len(objs), ReadAs(t, Ahead(t, objs))
  PROVE  Follows(Advance(t, Ahead(t, objs)), objs)
<1> DEFINE o == Ahead(t, objs)
           u == Advance(t, o)
           m == Len(t.objs)
           n == Len(objs)
           k == m + 1
<1>1. IsSeq(t.objs) /\ t.i \in Nat /\ t.size \in Nat
  BY DEF SpanOK
<1>2. m \in Nat
  <2>1. PICK T : t.objs \in Seq(T)
    BY <1>1 DEF IsSeq
  <2> QED
    BY <2>1
<1>3. n \in Nat /\ m < n /\ objs \in Seq(Objects) /\ \A j \in 1..m : t.objs[j] = objs[j]
  BY DEF Follows
<1>4. PICK p : LaidOut(t, objs, p) /\ t.i = p[m]
  BY DEF Follows
<1>5. /\ Fits(t) /\ o.length = ContentLength(t) /\ ContentLength(t) < Rest
      /\ ContentAt(t) + o.length = t.i + Len(o.raw) /\ Len(o.raw) \in Nat
  BY DEF ReadAs
<1>6. o = objs[k]
  BY DEF Ahead
<1> DEFINE next == (ContentAt(t) + o.length) % SizeLimit
           more == Append(t.objs, o)
<1>7. u = [base |-> t.base, size |-> t.size, i |-> next, objs |-> more]
  <2>1. t = [base |-> t.base, size |-> t.size, i |-> t.i, objs |-> t.objs]
    BY DEF SpanOK
  <2>2. u = [t EXCEPT !.i = next, !.objs = more]
    BY DEF Advance
  <2> HIDE DEF next, more, u
  <2> QED
    BY <2>1, <2>2, SpanExcept
<1>8. u.i = t.i + Len(o.raw)
  <2>1. ContentLength(t) # Rest
    BY <1>5, Sizes
  <2>2. u.i = ContentAt(t) + ContentLength(t)
    <3> HIDE DEF o, u
    <3>1. Advance(t, o).i = ContentAt(t) + ContentLength(t)
      BY <1>5, <2>1, AdvanceFits
    <3> QED
      BY <3>1 DEF u
  <2> QED
    BY <1>5, <2>2
<1>9. /\ Len(more) = m + 1 /\ more[m + 1] = o
      /\ \A j \in 1..m : more[j] = t.objs[j]
  BY <1>1, AppendAny
<1>10. u.base = t.base /\ u.size = t.size /\ u.objs = more
  <2> HIDE DEF u, next, more
  <2> QED
    BY ONLY <1>7
<1> HIDE DEF u, more, o, next
<1>11. k \in 1..n /\ k - 1 = m /\ k = m + 1
  BY <1>2, <1>3
<1> HIDE DEF m, n, k
<1>12. \A j \in 1..k : more[j] = objs[j]
  <2> TAKE j \in 1..k
  <2>1. CASE j = k
    BY <2>1, <1>6, <1>9, <1>11
  <2>2. CASE j # k
    <3>1. j \in 1..m
      BY <1>2, <1>11, <2>2
    <3> QED
      BY <3>1, <1>3, <1>9
  <2> QED
    BY <2>1, <2>2
<1>13. u.i = p[k]
  <2>1. p[k] = p[k - 1] + Len(objs[k].raw)
    BY <1>4, <1>11 DEF LaidOut, n
  <2> QED
    BY <1>4, <1>6, <1>8, <1>11, <2>1
<1>14. LaidOut(u, objs, p)
  BY <1>4, <1>10 DEF LaidOut, Reads
<1>15. Len(u.objs) = k /\ k <= n
  BY <1>2, <1>3, <1>9, <1>10, <1>11
<1>16. Follows(u, objs)
  BY <1>3, <1>10, <1>12, <1>13, <1>14, <1>15 DEF Follows, n
<1> QED
  BY <1>16 DEF u, o

\* The span of the contents of a constructed object has those inside it.
LEMMA InnerFollows ==
  ASSUME NEW t, InMemory(input), SpanOK(t), NEW o \in Objects,
         o.id \in ConstructedIds, ReadAs(t, o)
  PROVE  Follows(Inner(t), o.objects)
<1> DEFINE c == Contents(o)
           x == ContentAt(t)
           r == Inner(t)
           objs == o.objects
           b == t.base
<1>1. objs \in Seq(Objects) /\ o.length \in Nat /\ IsEncoded(o)
  BY ObjectType
<1>2. ConstructedIds \cap OidIds = {}
  BY DerAssumption
<1>3. c = FlattenSeq(RawOctets(objs))
  BY <1>1, <1>2 DEF IsEncoded
<1>4. c \in Seq(Nat) /\ Len(c) = o.length
  BY ContentsType
<1>5. /\ x \in Nat /\ ContentSize(t) = o.length /\ Reads(t, x, c)
  BY DEF ReadAs
<1>6. b \in Nat
  BY DEF SpanOK
<1>7. r = [base |-> b + x, size |-> o.length, i |-> 0, objs |-> <<>>]
  BY <1>5 DEF Inner, Span
<1> HIDE DEF c, x, r, objs
<1>8. r.base = b + x /\ r.size = o.length /\ r.i = 0 /\ r.objs = <<>>
  BY ONLY <1>7
<1>9. Reads(r, 0, c)
  <2> DEFINE At(i) == input.octets[i]
             n == o.length
  <2>1. \A i \in 1..n : At(b + x + i) = c[i]
    BY <1>4, <1>5 DEF Reads
  <2>2. n \in Nat /\ Len(c) = n
    BY <1>1, <1>4
  <2> HIDE DEF At, n, b
  <2>3. \A i \in 1..n : (b + x) + 0 + i = b + x + i
    BY <1>5, <1>6, <2>2
  <2>4. \A i \in 1..n : At((b + x) + 0 + i) = c[i]
    BY <2>1, <2>3
  <2>5. r.size = n /\ 0 + n <= n
    BY <1>8, <2>2 DEF n
  <2> QED
    BY <1>8, <2>2, <2>4, <2>5 DEF Reads, At
<1>10. r.base \in Nat /\ r.size \in Nat
  BY <1>1, <1>5, <1>6, <1>8
<1>11. PICK p : LaidOut(r, objs, p)
  BY <1>1, <1>3, <1>4, <1>8, <1>9, <1>10, LaysOut
<1>12. r.i = p[0]
  BY <1>8, <1>11 DEF LaidOut
<1>13. Len(r.objs) = 0 /\ Len(objs) \in Nat
  BY <1>1, <1>8
<1>14. Follows(r, objs)
  BY <1>1, <1>11, <1>12, <1>13 DEF Follows
<1> QED
  BY <1>14 DEF r, objs

\* The object that comes next, as parse_impl() makes it.
LEMMA PrimitiveIsRead ==
  ASSUME NEW t, NEW o \in Objects, ReadAs(t, o), o.id \notin ConstructedIds
  PROVE  /\ o.id \notin OidIds => Object(t, Content(t), <<>>, <<>>) = o
         /\ o.id \in OidIds =>
              /\ OidParses(Content(t))
              /\ Object(t, <<>>, Oid(Content(t)).arcs, <<>>) = o
<1>1. /\ o = [id |-> o.id, length |-> o.length, raw |-> o.raw, octets |-> o.octets,
              arcs |-> o.arcs, objects |-> o.objects]
      /\ IsEncoded(o) /\ o.arcs \in Seq(Nat)
  BY ObjectType
<1>2. Id(t) = o.id /\ ContentLength(t) = o.length /\ Raw(t) = o.raw /\ Content(t) = Contents(o)
  BY DEF ReadAs
<1>3. ASSUME o.id \notin OidIds
      PROVE  Object(t, Content(t), <<>>, <<>>) = o
  <2>1. o.octets = Contents(o) /\ o.arcs = <<>> /\ o.objects = <<>>
    BY <1>1, <1>3 DEF IsEncoded
  <2> QED
    BY <1>1, <1>2, <2>1 DEF Object
<1>4. ASSUME o.id \in OidIds
      PROVE  OidParses(Content(t)) /\ Object(t, <<>>, Oid(Content(t)).arcs, <<>>) = o
  <2>1. EncodeArcs(Contents(o), o.arcs) /\ o.octets = <<>> /\ o.objects = <<>>
    BY <1>1, <1>4 DEF IsEncoded
  <2>2. Contents(o) \in Seq(Nat)
    BY ContentsType
  <2>3. OidParses(Contents(o)) /\ Oid(Contents(o)).arcs = o.arcs
    BY <1>1, <2>1, <2>2, ReadsArcs
  <2>4. Object(t, <<>>, o.arcs, <<>>) = o
    BY <1>1, <1>2, <2>1 DEF Object
  <2> QED
    BY <1>2, <2>3, <2>4
<1> QED
  BY <1>3, <1>4

LEMMA ConstructedIsRead ==
  ASSUME NEW t, NEW o \in Objects, ReadAs(t, o), o.id \in ConstructedIds
  PROVE  Object(t, <<>>, <<>>, o.objects) = o
<1>1. /\ o = [id |-> o.id, length |-> o.length, raw |-> o.raw, octets |-> o.octets,
              arcs |-> o.arcs, objects |-> o.objects]
      /\ IsEncoded(o)
  BY ObjectType
<1>2. Id(t) = o.id /\ ContentLength(t) = o.length /\ Raw(t) = o.raw
  BY DEF ReadAs
<1>3. ConstructedIds \cap OidIds = {}
  BY DerAssumption
<1>4. o.octets = <<>> /\ o.arcs = <<>>
  BY <1>1, <1>3 DEF IsEncoded
<1> QED
  BY <1>1, <1>2, <1>4 DEF Object

LEMMA SameFollows ==
  ASSUME UNCHANGED input, NEW k, stack'[k] = stack[k], NEW objs, Follows(stack[k], objs)
  PROVE  Follows(stack[k], objs)'
BY DEF Follows, LaidOut, Reads

LEMMA SameWaits ==
  ASSUME NEW k, stack'[k] = stack[k], NEW objs, NEW inner, WaitsFor(stack[k], objs, inner)
  PROVE  WaitsFor(stack[k], objs, inner)'
BY DEF WaitsFor, Ahead

LEMMA NewFollows ==
  ASSUME UNCHANGED input, NEW t, NEW k, stack'[k] = t, NEW objs, Follows(t, objs)
  PROVE  Follows(stack[k], objs)'
BY DEF Follows, LaidOut, Reads

\* What the innermost span comes to.
LEMMA TopIsRead ==
  ASSUME SpansInv, NEW all, NEW e, Expects(all, e), More
  PROVE  /\ Follows(Top, e[Len(stack)])
         /\ Len(Top.objs) < Len(e[Len(stack)])
         /\ Ahead(Top, e[Len(stack)]) \in Objects
         /\ ReadAs(Top, Ahead(Top, e[Len(stack)]))
<1>1. Len(stack) \in Nat \ {0} /\ Top = stack[Len(stack)] /\ SpanOK(Top) /\ InMemory(input)
  BY TopOfStack DEF SpansInv
<1>2. Follows(Top, e[Len(stack)]) /\ Top.i < Top.size
  BY <1>1 DEF Expects, More
<1> QED
  BY <1>1, <1>2, AheadIsRead

LEMMA PrimitiveReads ==
  ASSUME SpansInv, NEW all, NEW e, Expects(all, e), Primitive
  PROVE  Expects(all, e)'
<1> DEFINE n == Len(stack)
           o == Ahead(Top, e[n])
           u == Advance(Top, o)
<1>1. /\ n \in Nat \ {0} /\ Top = stack[n] /\ SpanOK(Top) /\ InMemory(input)
      /\ UNCHANGED input /\ More
  BY TopOfStack DEF SpansInv, Primitive
<1>2. /\ Follows(Top, e[n]) /\ Len(Top.objs) < Len(e[n])
      /\ o \in Objects /\ ReadAs(Top, o)
  BY <1>1, TopIsRead
<1>3. o.id = Id(Top) /\ Id(Top) \notin ConstructedIds
  BY <1>2 DEF ReadAs, Primitive
<1>4. stack' = Append(Front(stack), u)
  <2>1. /\ o.id \notin OidIds => Object(Top, Content(Top), <<>>, <<>>) = o
        /\ o.id \in OidIds => Object(Top, <<>>, Oid(Content(Top)).arcs, <<>>) = o
    <3> HIDE DEF o
    <3> QED
      BY <1>2, <1>3, PrimitiveIsRead
  <2> HIDE DEF o
  <2> QED
    BY <1>3, <2>1 DEF Primitive, u
<1>5. Follows(u, e[n])
  BY <1>1, <1>2, AdvanceFollows
<1> HIDE DEF o, u
<1>6. /\ Len(stack') = n
      /\ \A k \in 1..(n - 1) : stack'[k] = stack[k]
      /\ stack'[n] = u
  <2>1. PICK T : stack \in Seq(T)
    BY DEF SpansInv, IsSeq
  <2>2. stack # <<>>
    BY DEF SpansInv
  <2> QED
    BY <1>4, <2>1, <2>2, ReplaceLast
<1> HIDE DEF n
<1>7. /\ e[1] = all
      /\ \A k \in 1..n : Follows(stack[k], e[k])
      /\ \A k \in 1..(n - 1) : WaitsFor(stack[k], e[k], e[k + 1])
  BY DEF Expects, n
<1>8. ASSUME NEW k \in 1..n
      PROVE  Follows(stack[k], e[k])'
  <2>1. CASE k = n
    BY <1>1, <1>5, <1>6, <2>1, NewFollows
  <2>2. CASE k # n
    <3>1. k \in 1..(n - 1)
      BY <1>1, <2>2, BelowLast
    <3> QED
      BY <1>1, <1>6, <1>7, <3>1, SameFollows
  <2> QED
    BY <2>1, <2>2
<1>9. ASSUME NEW k \in 1..(n - 1)
      PROVE  WaitsFor(stack[k], e[k], e[k + 1])'
  BY <1>6, <1>7, SameWaits
<1> QED
  BY <1>1, <1>6, <1>7, <1>8, <1>9 DEF Expects

LEMMA BeginReads ==
  ASSUME SpansInv, NEW all, NEW e, Expects(all, e), BeginConstructed
  PROVE  \E f : Expects(all, f)'
<1> DEFINE n == Len(stack)
           o == Ahead(Top, e[n])
           u == Inner(Top)
           g == [k \in 1..(n + 1) |-> IF k = n + 1 THEN o.objects ELSE e[k]]
<1>1. /\ n \in Nat \ {0} /\ Top = stack[n] /\ SpanOK(Top) /\ InMemory(input)
      /\ UNCHANGED input /\ More /\ stack' = Append(stack, u)
  BY TopOfStack DEF SpansInv, BeginConstructed
<1>2. /\ Follows(Top, e[n]) /\ Len(Top.objs) < Len(e[n])
      /\ o \in Objects /\ ReadAs(Top, o)
  BY <1>1, TopIsRead
<1>3. o.id \in ConstructedIds
  BY <1>2 DEF ReadAs, BeginConstructed
<1>4. Follows(u, o.objects)
  <2> HIDE DEF o
  <2> QED
    BY <1>1, <1>2, <1>3, InnerFollows
<1>5. WaitsFor(Top, e[n], o.objects)
  BY <1>2, <1>3 DEF WaitsFor
<1>6. /\ Len(stack') = n + 1
      /\ \A k \in 1..n : stack'[k] = stack[k]
      /\ stack'[n + 1] = u
  BY <1>1, AppendAny DEF SpansInv
<1>7. /\ e[1] = all
      /\ \A k \in 1..n : Follows(stack[k], e[k])
      /\ \A k \in 1..(n - 1) : WaitsFor(stack[k], e[k], e[k + 1])
  BY DEF Expects
<1> HIDE DEF n, o, u
<1>8. PICK f : f[n + 1] = o.objects /\ \A k \in 1..n : f[k] = e[k]
  <2>1. g[n + 1] = o.objects /\ \A k \in 1..n : g[k] = e[k]
    BY <1>1
  <2> HIDE DEF g
  <2> QED
    BY <2>1
<1>9. f[1] = all
  <2>1. 1 \in 1..n
    BY <1>1
  <2> QED
    BY <1>7, <1>8, <2>1
<1> HIDE DEF g
<1>10. ASSUME NEW k \in 1..(n + 1)
       PROVE  Follows(stack[k], f[k])'
  <2>1. CASE k = n + 1
    <3>1. stack'[k] = u /\ f[k] = o.objects
      BY <1>6, <1>8, <2>1
    <3>2. Follows(u, f[k])
      BY <1>4, <3>1
    <3> QED
      BY <1>1, <3>1, <3>2, NewFollows
  <2>2. CASE k # n + 1
    <3>1. k \in 1..n
      BY <1>1, <2>2
    <3>2. stack'[k] = stack[k] /\ f[k] = e[k] /\ Follows(stack[k], f[k])
      BY <1>6, <1>7, <1>8, <3>1
    <3> QED
      BY <1>1, <3>2, SameFollows
  <2> QED
    BY <2>1, <2>2
<1>11. ASSUME NEW k \in 1..n
       PROVE  WaitsFor(stack[k], f[k], f[k + 1])'
  <2>1. stack'[k] = stack[k] /\ f[k] = e[k]
    BY <1>6, <1>8
  <2>2. WaitsFor(stack[k], f[k], f[k + 1])
    <3>1. CASE k = n
      <4>1. f[k + 1] = o.objects
        BY <1>8, <3>1
      <4> QED
        BY <1>1, <1>5, <2>1, <3>1, <4>1
    <3>2. CASE k # n
      <4>1. k \in 1..(n - 1) /\ k + 1 \in 1..n
        BY <1>1, <3>2
      <4> QED
        BY <1>7, <1>8, <2>1, <4>1
    <3> QED
      BY <3>1, <3>2
  <2> QED
    BY <2>1, <2>2, SameWaits
<1>12. Len(stack') - 1 = n
  BY <1>1, <1>6
<1> QED
  BY <1>1, <1>6, <1>9, <1>10, <1>11, <1>12 DEF Expects

LEMMA EndReads ==
  ASSUME SpansInv, NEW all, NEW e, Expects(all, e), EndConstructed
  PROVE  Expects(all, e)'
<1> DEFINE n == Len(stack)
           l == n - 1
           outer == stack[l]
           o == Ahead(outer, e[l])
           u == Advance(outer, o)
<1>1. /\ n \in Nat \ {0} /\ Top = stack[n] /\ SpanOK(Top) /\ InMemory(input)
      /\ UNCHANGED input /\ n > 1 /\ Top.i >= Top.size
  BY TopOfStack DEF SpansInv, EndConstructed
<1>2. Last(Front(stack)) = outer /\ SpanOK(outer) /\ Fits(outer)
  BY <1>1, OuterSpan
<1>3. /\ e[1] = all
      /\ \A k \in 1..n : Follows(stack[k], e[k])
      /\ \A k \in 1..(n - 1) : WaitsFor(stack[k], e[k], e[k + 1])
  BY DEF Expects
<1>4. l \in 1..n /\ l \in 1..(n - 1) /\ l + 1 = n /\ n \in 1..n
  BY <1>1
<1>5. Follows(outer, e[l]) /\ WaitsFor(outer, e[l], e[n]) /\ Follows(Top, e[n])
  <2> HIDE DEF l, n
  <2> QED
    BY <1>1, <1>3, <1>4
<1>6. outer.i < outer.size
  BY <1>2 DEF Fits
<1> HIDE DEF l, outer
<1>7. Len(outer.objs) < Len(e[l]) /\ o \in Objects /\ ReadAs(outer, o)
  BY <1>1, <1>2, <1>5, <1>6, AheadIsRead
<1>8. Top.objs = e[n]
  BY <1>1, <1>5, AllAreRead
<1>9. o.id \in ConstructedIds /\ e[n] = o.objects
  BY <1>5 DEF WaitsFor
<1>10. stack' = Append(Front(Front(stack)), u)
  <2>1. Object(outer, <<>>, <<>>, o.objects) = o
    <3> HIDE DEF o
    <3> QED
      BY <1>7, <1>9, ConstructedIsRead
  <2>2. stack' = Append(Front(Front(stack)), Advance(outer, Object(outer, <<>>, <<>>, Top.objs)))
    BY <1>2 DEF EndConstructed
  <2> QED
    BY <1>8, <1>9, <2>1, <2>2
<1>11. Follows(u, e[l])
  BY <1>1, <1>2, <1>5, <1>7, AdvanceFollows
<1>12. SpanOK(u)
  <2>1. o.length = ContentLength(outer)
    BY <1>7 DEF ReadAs
  <2> HIDE DEF o
  <2> QED
    BY <1>1, <1>2, <2>1, AdvanceFits
<1> HIDE DEF o, u
<1>13. /\ Len(stack') = l
       /\ \A k \in 1..(l - 1) : stack'[k] = stack[k]
       /\ stack'[l] = u
  <2>1. /\ Len(stack') = Len(stack) - 1
        /\ \A k \in 1..(Len(stack) - 2) : stack'[k] = stack[k]
        /\ Top' = u
    BY <1>1, <1>10, <1>12, PopAndReplace
  <2>2. Len(stack) - 2 = l - 1 /\ Len(stack) - 1 = l
    BY <1>1 DEF l
  <2> QED
    BY <2>1, <2>2 DEF Top, Last
<1> HIDE DEF n
<1>14. l \in Nat \ {0}
  BY <1>1 DEF l
<1>15. ASSUME NEW k \in 1..l
       PROVE  Follows(stack[k], e[k])'
  <2>1. CASE k = l
    BY <1>1, <1>11, <1>13, <2>1, NewFollows
  <2>2. CASE k # l
    <3>1. k \in 1..(l - 1) /\ k \in 1..n
      BY <1>1, <1>4, <1>14, <2>2
    <3> QED
      BY <1>1, <1>3, <1>13, <3>1, SameFollows
  <2> QED
    BY <2>1, <2>2
<1>16. ASSUME NEW k \in 1..(l - 1)
       PROVE  WaitsFor(stack[k], e[k], e[k + 1])'
  <2>1. k \in 1..(n - 1)
    BY <1>1, <1>4, <1>14
  <2> QED
    BY <1>3, <1>13, <2>1, SameWaits
<1> QED
  BY <1>1, <1>3, <1>13, <1>15, <1>16 DEF Expects

LEMMA NoAbort ==
  ASSUME SpansInv, NEW all, NEW e, Expects(all, e), Abort
  PROVE  FALSE
<1>1. More
  BY DEF Abort
<1> DEFINE o == Ahead(Top, e[Len(stack)])
<1>2. o \in Objects /\ ReadAs(Top, o)
  BY <1>1, TopIsRead
<1>3. LengthParses(Top) /\ SpansFit(Top) /\ Id(Top) = o.id
  BY <1>2 DEF ReadAs, Fits
<1>4. o.id \in OidIds => o.id \notin ConstructedIds
  BY DerAssumption
<1> HIDE DEF o
<1>5. o.id \in OidIds => OidParses(Content(Top))
  BY <1>2, <1>4, PrimitiveIsRead
<1> QED
  BY <1>3, <1>5 DEF Abort

LEMMA FreshReads ==
  ASSUME Fresh, NEW objs \in Seq(Objects), input.octets = FlattenSeq(RawOctets(objs))
  PROVE  \E e : Expects(objs, e)
<1> DEFINE t == Span(0, Len(input.octets))
           e == <<objs>>
           n == Len(input.octets)
<1>1. stack = <<t>> /\ n \in Nat
  BY Sizes DEF Fresh, Whole
<1>2. objs \in Seq(Objects) /\ input.octets = FlattenSeq(RawOctets(objs))
  OBVIOUS
<1>3. t.base = 0 /\ t.size = n /\ t.i = 0 /\ t.objs = <<>>
  BY DEF Span
<1>4. stack[1] = t /\ Len(stack) = 1
  BY <1>1
<1>5. e[1] = objs
  OBVIOUS
<1> HIDE DEF t
<1>6. Reads(t, 0, input.octets)
  <2>1. \A i \in 1..n : 0 + 0 + i = i
    BY <1>1
  <2> QED
    BY <1>1, <1>3, <2>1 DEF Reads
<1>7. PICK p : LaidOut(t, objs, p)
  BY <1>1, <1>2, <1>3, <1>6, LaysOut
<1>8. Len(t.objs) = 0 /\ Len(objs) \in Nat /\ t.i = p[0]
  BY <1>2, <1>3, <1>7 DEF LaidOut
<1>9. Follows(t, objs)
  BY <1>2, <1>7, <1>8 DEF Follows
<1> HIDE DEF e
<1>10. \A k \in 1..1 : k = 1
  OBVIOUS
<1>11. \A k \in 1..Len(stack) : Follows(stack[k], e[k])
  BY <1>4, <1>5, <1>9, <1>10
<1>12. \A k \in 1..(Len(stack) - 1) : FALSE
  BY <1>4
<1> QED
  BY <1>5, <1>11, <1>12 DEF Expects

LEMMA NextReads ==
  ASSUME SpansInv, EncodedInv, [Next]_vars
  PROVE  EncodedInv'
<1>1. UNCHANGED input
  BY DEF Next, Step, Primitive, BeginConstructed, EndConstructed, Abort, Return, Terminated, vars
<1> SUFFICES ASSUME NEW all \in Seq(Objects), input.octets = FlattenSeq(RawOctets(all))
             PROVE  /\ pc' # "abort"
                    /\ pc' = "return" => Len(stack') = 1 /\ stack'[1].i >= stack'[1].size
                    /\ \E e : Expects(all, e)'
  BY <1>1 DEF EncodedInv
<1>2. /\ pc # "abort"
      /\ pc = "return" => Len(stack) = 1 /\ stack[1].i >= stack[1].size
      /\ \E e : Expects(all, e)
  BY <1>1 DEF EncodedInv
<1>3. PICK e : Expects(all, e)
  BY <1>2
<1>4. ASSUME UNCHANGED stack PROVE Expects(all, e)'
  <2>1. \A k \in 1..Len(stack) : Follows(stack[k], e[k])'
    BY <1>1, <1>3, <1>4, SameFollows DEF Expects
  <2>2. \A k \in 1..(Len(stack) - 1) : WaitsFor(stack[k], e[k], e[k + 1])'
    BY <1>3, <1>4, SameWaits DEF Expects
  <2>3. e[1] = all
    BY <1>1, <1>3 DEF Expects
  <2> QED
    BY <1>4, <2>1, <2>2, <2>3 DEF Expects
<1>5. CASE Primitive
  <2>1. Expects(all, e)'
    BY <1>3, <1>5, PrimitiveReads
  <2>2. pc' = "parse"
    BY <1>5 DEF Primitive, More
  <2> QED
    BY <2>1, <2>2
<1>6. CASE BeginConstructed
  <2>1. \E f : Expects(all, f)'
    BY <1>3, <1>6, BeginReads
  <2>2. pc' = "parse"
    BY <1>6 DEF BeginConstructed, More
  <2> QED
    BY <2>1, <2>2
<1>7. CASE EndConstructed
  <2>1. Expects(all, e)'
    BY <1>3, <1>7, EndReads
  <2>2. pc' = "parse"
    BY <1>7 DEF EndConstructed
  <2> QED
    BY <2>1, <2>2
<1>8. CASE Abort
  BY <1>3, <1>8, NoAbort
<1>9. CASE Return
  <2>1. Len(stack) = 1 /\ Top = stack[Len(stack)] /\ Top.i >= Top.size
    BY <1>9, TopOfStack DEF Return
  <2> QED
    BY <1>4, <1>9, <2>1 DEF Return
<1>10. CASE Terminated \/ UNCHANGED vars
  <2>1. UNCHANGED <<pc, stack>>
    BY <1>10 DEF Terminated, vars
  <2> QED
    BY <1>2, <1>4, <2>1
<1> QED
  BY <1>5, <1>6, <1>7, <1>8, <1>9, <1>10 DEF Next, Step

LEMMA FreshEncoded == Fresh => EncodedInv
<1> SUFFICES ASSUME Fresh, NEW all \in Seq(Objects), input.octets = FlattenSeq(RawOctets(all))
             PROVE  /\ pc # "abort"
                    /\ pc = "return" => Len(stack) = 1 /\ stack[1].i >= stack[1].size
                    /\ \E e : Expects(all, e)
  BY DEF EncodedInv
<1>1. pc = "return" => Len(stack) = 1 /\ stack[1].i >= stack[1].size
  BY DEF Fresh, Whole, Span
<1> QED
  BY <1>1, FreshReads DEF Fresh

\* What is read in the end.
LEMMA ReadInTheEnd ==
  ASSUME SpansInv, EncodedInv, NEW all \in Seq(Objects),
         input.octets = FlattenSeq(RawOctets(all))
  PROVE  /\ pc # "abort"
         /\ pc = "return" => Len(stack) = 1 /\ stack[1].objs = all /\ Top.objs = all
<1> SUFFICES ASSUME pc = "return"
             PROVE  Len(stack) = 1 /\ stack[1].objs = all /\ Top.objs = all
  BY DEF EncodedInv
<1>1. Len(stack) = 1 /\ stack[1].i >= stack[1].size
  BY DEF EncodedInv
<1>2. PICK e : Expects(all, e)
  BY DEF EncodedInv
<1>3. SpanOK(stack[1]) /\ InMemory(input) /\ Top = stack[1]
  BY <1>1, TopOfStack DEF SpansInv
<1>4. Follows(stack[1], e[1]) /\ e[1] = all
  BY <1>1, <1>2 DEF Expects
<1>5. stack[1].objs = all
  BY <1>1, <1>3, <1>4, AllAreRead
<1> QED
  BY <1>1, <1>3, <1>5

LEMMA EncodedIsRead ==
  SpansInv /\ (input.encoded => input \in Inputs) /\ EncodedInv => ParsesEncodings
<1> SUFFICES ASSUME SpansInv, input \in Inputs, EncodedInv, input.encoded
             PROVE  pc # "abort" /\ (pc = "return" => stack[1].objs = input.objects)
  BY DEF ParsesEncodings
<1>1. input.objects \in Seq(Objects) /\ input.octets = FlattenSeq(RawOctets(input.objects))
  BY EncodingsAssumption
<1> QED
  BY <1>1, ReadInTheEnd

\* What encodes objects is never refused, and is parsed into exactly these objects,
\* however deep they are nested and whatever octets their lengths and arcs take
\* (certparser.cpp:229-290).
THEOREM EncodingsAreRead == Spec => []ParsesEncodings
<1>1. Init => input \in Inputs
  BY DEF Init
<1>2. input \in Inputs /\ [Next]_vars => (input \in Inputs)'
  BY DEF Next, Step, Primitive, BeginConstructed, EndConstructed, Abort, Return, Terminated, vars
<1>3. SpansInv /\ input \in Inputs /\ EncodedInv => ParsesEncodings
  BY EncodedIsRead
<1>4. SpansInv /\ EncodedInv /\ [Next]_vars => EncodedInv'
  BY NextReads
<1> QED
  BY InitFresh, FreshEncoded, SpansInInput, <1>1, <1>2, <1>3, <1>4, PTL DEF Spec

-----------------------------------------------------------------------------
(* Steps of the whole. *)

LEMMA MessageType ==
  ASSUME message \in Messages
  PROVE  /\ message \in Seq(Inputs)
         /\ Len(message) \in Nat /\ DOMAIN message = 1..Len(message)
         /\ \A k \in 1..Len(message) : message[k].meant \in MeantCert
<1>1. message \in Seq(Inputs)
  BY MessagesAssumption
<1>2. Len(message) \in Nat /\ DOMAIN message = 1..Len(message)
  BY <1>1
<1>3. \A k \in 1..Len(message) : message[k] \in Inputs
  BY <1>1
<1> QED
  BY <1>1, <1>2, <1>3, MessagesAssumption

\* No field gets lost while a certificate is read.
LEMMA ParseKeepsFields ==
  ASSUME ParseStep
  PROVE  DOMAIN v3' = DOMAIN v3
<1>1. CASE ParseRawStep \/ ParseRawAborts \/ ReadObjects \/ ReadKey
  BY <1>1 DEF ParseRawStep, ParseRawAborts, ReadObjects, ReadKey, x509Vars
<1>2. CASE ReadVersion
  BY <1>2 DEF ReadVersion, Read
<1>3. CASE ReadSignatureAlgorithm
  BY <1>3 DEF ReadSignatureAlgorithm, Read
<1>4. CASE ReadIssuer
  BY <1>4 DEF ReadIssuer, Read
<1>5. CASE ReadValidity
  BY <1>5 DEF ReadValidity, Read
<1>6. CASE ReadSubject
  BY <1>6 DEF ReadSubject
<1>7. CASE ReadModulus
  BY <1>7 DEF ReadModulus, Read
<1>8. CASE ReadSignature
  BY <1>8 DEF ReadSignature, Read
<1> QED
  BY <1>1, <1>2, <1>3, <1>4, <1>5, <1>6, <1>7, <1>8 DEF ParseStep

\* A certificate is read while one is missing.
LEMMA ParseIsBusy ==
  ASSUME ParseStep, at = "idle"
  PROVE  at' = "idle" /\ UNCHANGED <<root, s, v3>>
  BY DEF ParseStep, ParseRawStep, ParseRawAborts, ReadObjects, ReadVersion,
         ReadSignatureAlgorithm, ReadIssuer, ReadValidity, ReadSubject, ReadKey,
         ReadModulus, ReadSignature, Read, x509Vars

-----------------------------------------------------------------------------
(* What is parsed.  The objects are trees of any depth; a set that holds all  *)
(* of them, and with each one those inside it, takes the place of their type. *)

HoldsObjects(S) ==
  \A o \in S :
    /\ o.octets \in Seq(0..(Base - 1)) /\ Len(o.octets) < SizeLimit
    /\ o.objects \in Seq(S)

\* The objects of every span are in S.
ParsedInto(S) ==
  HoldsObjects(S) /\ \A k \in 1..Len(stack) : stack[k].objs \in Seq(S)

LEMMA SeqGrows ==
  ASSUME NEW S, NEW T, S \subseteq T, NEW q \in Seq(S)
  PROVE  q \in Seq(T)
  OBVIOUS

LEMMA OneMoreObject ==
  ASSUME NEW S, HoldsObjects(S),
         NEW o, o.octets \in Seq(0..(Base - 1)), Len(o.octets) < SizeLimit,
         o.objects \in Seq(S)
  PROVE  HoldsObjects(S \cup {o}) /\ \A q \in Seq(S) : q \in Seq(S \cup {o})
<1> DEFINE T == S \cup {o}
<1>1. S \subseteq T /\ o \in T /\ \A p \in T : p \in S \/ p = o
  OBVIOUS
<1> HIDE DEF T
<1>2. \A q \in Seq(S) : q \in Seq(T)
  BY <1>1, SeqGrows
<1>3. HoldsObjects(T)
  <2> SUFFICES ASSUME NEW p \in T
               PROVE  /\ p.octets \in Seq(0..(Base - 1)) /\ Len(p.octets) < SizeLimit
                      /\ p.objects \in Seq(T)
    BY DEF HoldsObjects
  <2>1. CASE p = o
    BY <1>2, <2>1
  <2>2. CASE p \in S
    <3>1. /\ p.octets \in Seq(0..(Base - 1)) /\ Len(p.octets) < SizeLimit
          /\ p.objects \in Seq(S)
      BY <2>2 DEF HoldsObjects
    <3> QED
      BY <1>2, <3>1
  <2> QED
    BY <1>1, <2>1, <2>2
<1> QED
  BY <1>2, <1>3 DEF T

LEMMA ContentOctets ==
  ASSUME NEW t, InMemory(input), SpanOK(t), Fits(t)
  PROVE  Content(t) \in Seq(0..(Base - 1)) /\ Len(Content(t)) < SizeLimit
<1> DEFINE q == input.octets
           b == t.base
           c == ContentAt(t)
           n == ContentSize(t)
           B == 0..(Base - 1)
<1>1. /\ q \in Seq(B) /\ Len(q) \in Nat /\ Len(q) < SizeLimit /\ SizeLimit \in Nat
      /\ b \in Nat /\ t.size \in Nat /\ b + t.size <= Len(q)
  BY Sizes DEF SpanOK
<1>2. c \in (t.i + 2)..t.size /\ n \in 0..(t.size - c) /\ t.i \in Nat
  BY Header DEF SpanOK
<1>3. Content(t) = SubSeq(q, b + c + 1, b + c + n)
  BY DEF Content, Slice
<1> HIDE DEF q, b, c, n, B
<1> DEFINE L == Len(q)
<1>4. b + c + 1 \in Int /\ b + c + n \in Int /\ b + c + n <= L /\ n \in Nat /\ n <= L
  <2>1. /\ L \in Nat /\ b \in Nat /\ t.size \in Nat /\ b + t.size <= L
        /\ c \in (t.i + 2)..t.size /\ n \in 0..(t.size - c) /\ t.i \in Nat
    BY <1>1, <1>2
  <2> HIDE DEF L
  <2> QED
    BY ONLY <2>1
<1>5. \A k \in (b + c + 1)..(b + c + n) : q[k] \in B
  <2>1. \A k \in (b + c + 1)..(b + c + n) : k \in 1..Len(q)
    BY <1>1, <1>2, <1>4
  <2> QED
    BY <1>1, <2>1
<1>6. /\ SubSeq(q, b + c + 1, b + c + n) \in Seq(B)
      /\ Len(SubSeq(q, b + c + 1, b + c + n))
           = IF b + c + 1 <= b + c + n THEN (b + c + n) - (b + c + 1) + 1 ELSE 0
  BY <1>4, <1>5, SubSeqProperties
<1>7. Len(SubSeq(q, b + c + 1, b + c + n)) = n
  BY <1>1, <1>2, <1>4, <1>6
<1> QED
  BY <1>1, <1>3, <1>4, <1>6, <1>7 DEF B

\* What Advance appends.
LEMMA AdvanceParses ==
  ASSUME NEW t, SpanOK(t), NEW o, NEW S, t.objs \in Seq(S), o \in S
  PROVE  Advance(t, o).objs \in Seq(S)
<1>1. t = [base |-> t.base, size |-> t.size, i |-> t.i, objs |-> t.objs]
  BY DEF SpanOK
<1> DEFINE next == (ContentAt(t) + o.length) % SizeLimit
           more == Append(t.objs, o)
<1>2. Advance(t, o) = [t EXCEPT !.i = next, !.objs = more]
  BY DEF Advance
<1>3. more \in Seq(S)
  OBVIOUS
<1> HIDE DEF next, more
<1>4. Advance(t, o) = [base |-> t.base, size |-> t.size, i |-> next, objs |-> more]
  BY <1>1, <1>2, SpanExcept
<1> QED
  BY <1>3, <1>4

LEMMA PrimitiveParses ==
  ASSUME SpansInv, Primitive, NEW S, ParsedInto(S)
  PROVE  \E T : S \subseteq T /\ ParsedInto(T)'
<1> DEFINE n == Len(stack)
<1>1. /\ Fits(Top) /\ SpanOK(Top) /\ InMemory(input)
      /\ n \in Nat \ {0} /\ Top = stack[n]
  BY PrimitiveAdvances, TopOfStack DEF SpansInv
<1>2. PICK o : /\ o.octets \in Seq(0..(Base - 1)) /\ Len(o.octets) < SizeLimit
               /\ o.objects = <<>>
               /\ stack' = Append(Front(stack), Advance(Top, o))
  <2>1. CASE Id(Top) \notin OidIds
    <3> DEFINE o == Object(Top, Content(Top), <<>>, <<>>)
    <3>1. o.octets = Content(Top) /\ o.objects = <<>>
      BY DEF Object
    <3>2. stack' = Append(Front(stack), Advance(Top, o))
      BY <2>1 DEF Primitive
    <3> HIDE DEF o
    <3> QED
      BY <1>1, <3>1, <3>2, ContentOctets
  <2>2. CASE Id(Top) \in OidIds
    <3> DEFINE o == Object(Top, <<>>, Oid(Content(Top)).arcs, <<>>)
    <3>1. o.octets = <<>> /\ o.objects = <<>>
      BY DEF Object
    <3>2. stack' = Append(Front(stack), Advance(Top, o))
      BY <2>2 DEF Primitive
    <3>3. Len(<<>>) < SizeLimit /\ <<>> \in Seq(0..(Base - 1))
      BY Sizes
    <3> HIDE DEF o
    <3> QED
      BY <3>1, <3>2, <3>3
  <2> QED
    BY <2>1, <2>2
<1> DEFINE T == S \cup {o}
           t == Advance(Top, o)
<1>3. HoldsObjects(T) /\ \A q \in Seq(S) : q \in Seq(T)
  <2>1. HoldsObjects(S)
    BY DEF ParsedInto
  <2>2. <<>> \in Seq(S)
    OBVIOUS
  <2>3. o.objects \in Seq(S)
    BY <1>2, <2>2
  <2>4. o.octets \in Seq(0..(Base - 1)) /\ Len(o.octets) < SizeLimit
    BY <1>2
  <2> QED
    BY ONLY <2>1, <2>3, <2>4, OneMoreObject
<1>4. S \subseteq T /\ o \in T
  OBVIOUS
<1> HIDE DEF T
<1>5. \A k \in 1..n : stack[k].objs \in Seq(T)
  BY <1>3 DEF ParsedInto
<1>6. t.objs \in Seq(T)
  BY <1>1, <1>4, <1>5, AdvanceParses
<1> HIDE DEF t
<1>7. /\ Len(stack') = n /\ stack'[n] = t
      /\ \A k \in 1..(n - 1) : stack'[k] = stack[k]
  <2>1. PICK U : stack \in Seq(U)
    BY DEF SpansInv, IsSeq
  <2>2. stack' = Append(Front(stack), t) /\ stack # <<>>
    BY <1>2 DEF t, SpansInv
  <2> QED
    BY <2>1, <2>2, ReplaceLast
<1> HIDE DEF n
<1>8. \A k \in 1..n : stack'[k].objs \in Seq(T)
  <2> TAKE k \in 1..n
  <2>1. CASE k = n
    BY <2>1, <1>6, <1>7
  <2>2. CASE k # n
    <3>1. k \in 1..(n - 1)
      BY <1>1, <2>2
    <3> QED
      BY <1>5, <1>7, <3>1
  <2> QED
    BY <2>1, <2>2
<1>9. ParsedInto(T)'
  BY <1>3, <1>7, <1>8 DEF ParsedInto, HoldsObjects
<1> QED
  BY <1>4, <1>9

\* The innermost span is new, and those around it stay.
LEMMA ParsesTop ==
  ASSUME NEW T, HoldsObjects(T), SpansInv', Top'.objs \in Seq(T),
         \A k \in 1..(Len(stack') - 1) : stack'[k] = stack[k] /\ stack[k].objs \in Seq(T)
  PROVE  ParsedInto(T)'
<1> DEFINE n == Len(stack')
<1>1. n \in Nat \ {0} /\ Top' = stack'[n]
  <2>1. PICK U : stack' \in Seq(U)
    BY DEF SpansInv, IsSeq
  <2>2. stack' # <<>>
    BY DEF SpansInv
  <2> QED
    BY <2>1, <2>2 DEF Top, Last
<1>2. ASSUME NEW k \in 1..n PROVE stack'[k].objs \in Seq(T)
  <2>1. CASE k = n
    BY <1>1, <2>1
  <2>2. CASE k # n
    <3>1. k \in 1..(n - 1)
      BY <1>1, <2>2, BelowLast
    <3> QED
      BY <3>1
  <2> QED
    BY <2>1, <2>2
<1>3. HoldsObjects(T)'
  BY DEF HoldsObjects
<1> QED
  BY <1>2, <1>3 DEF ParsedInto

LEMMA BeginParses ==
  ASSUME SpansInv, BeginConstructed, NEW S, ParsedInto(S)
  PROVE  ParsedInto(S)'
<1>1. Fits(Top) /\ stack' = Append(stack, Inner(Top)) /\ UNCHANGED input
  BY DEF BeginConstructed, More, Fits
<1>2. SpanOK(Top) /\ InMemory(input)
  BY TopOfStack DEF SpansInv
<1>3. SpanOK(Inner(Top))
  BY <1>1, <1>2, InnerFits
<1>4. SpansInv' /\ Len(stack') = Len(stack) + 1 /\ Top' = Inner(Top)
  BY <1>1, <1>3, PushOnTop
<1>5. /\ Len(stack) \in Nat
      /\ \A k \in 1..Len(stack) : stack'[k] = stack[k]
  BY <1>1, AppendAny DEF SpansInv
<1>6. Inner(Top).objs = <<>>
  BY DEF Inner, Span
<1>7. <<>> \in Seq(S)
  OBVIOUS
<1>8. 1..(Len(stack') - 1) = 1..Len(stack)
  BY <1>4, <1>5
<1>9. HoldsObjects(S) /\ \A k \in 1..Len(stack) : stack[k].objs \in Seq(S)
  BY DEF ParsedInto
<1>10. Top'.objs \in Seq(S)
  BY <1>4, <1>6, <1>7
<1>11. \A k \in 1..(Len(stack') - 1) : stack'[k] = stack[k] /\ stack[k].objs \in Seq(S)
  BY <1>5, <1>8, <1>9
<1> QED
  BY <1>4, <1>9, <1>10, <1>11, ParsesTop

LEMMA EndParses ==
  ASSUME SpansInv, EndConstructed, NEW S, ParsedInto(S)
  PROVE  \E T : S \subseteq T /\ ParsedInto(T)'
<1> DEFINE n == Len(stack)
           outer == stack[Len(stack) - 1]
<1>0. PICK o : o = Object(outer, <<>>, <<>>, Top.objs)
  OBVIOUS
<1>1. n > 1 /\ UNCHANGED input /\ InMemory(input)
  BY DEF EndConstructed, SpansInv
<1>2. Last(Front(stack)) = outer /\ SpanOK(outer) /\ Fits(outer)
  BY <1>1, OuterSpan
<1>3. stack' = Append(Front(Front(stack)), Advance(outer, o))
  BY <1>0, <1>2 DEF EndConstructed
<1>4. /\ o.octets = <<>> /\ o.objects = Top.objs /\ o.length = ContentLength(outer)
  BY <1>0 DEF Object
<1>5. n \in Nat /\ Top = stack[n]
  BY TopOfStack
<1>6. HoldsObjects(S) /\ \A k \in 1..n : stack[k].objs \in Seq(S)
  BY DEF ParsedInto
<1>7. Top.objs \in Seq(S) /\ outer.objs \in Seq(S)
  <2>1. n \in 1..n /\ n - 1 \in 1..n
    BY <1>1, <1>5
  <2> QED
    BY <1>5, <1>6, <2>1
<1>8. o.octets \in Seq(0..(Base - 1)) /\ Len(o.octets) < SizeLimit
  <2>1. Len(<<>>) < SizeLimit /\ <<>> \in Seq(0..(Base - 1))
    BY Sizes
  <2> QED
    BY <1>4, <2>1
<1> HIDE DEF outer
<1> DEFINE T == S \cup {o}
           t == Advance(outer, o)
<1>9. HoldsObjects(T) /\ \A q \in Seq(S) : q \in Seq(T)
  BY <1>4, <1>6, <1>7, <1>8, OneMoreObject
<1>10. SpanOK(t)
  BY <1>1, <1>2, <1>4, AdvanceFits
<1>11. S \subseteq T /\ o \in T
  OBVIOUS
<1> HIDE DEF T
<1>12. t.objs \in Seq(T)
  BY <1>2, <1>7, <1>9, <1>11, AdvanceParses
<1>13. stack' = Append(Front(Front(stack)), t)
  BY <1>3
<1> HIDE DEF t
<1>14. /\ SpansInv' /\ Len(stack') = n - 1 /\ Top' = t
       /\ \A k \in 1..(n - 2) : stack'[k] = stack[k]
  BY <1>1, <1>10, <1>13, PopAndReplace
<1>15. \A k \in 1..(n - 2) : k \in 1..n
  BY <1>5
<1>16. 1..(Len(stack') - 1) = 1..(n - 2)
  BY <1>5, <1>14
<1>17. \A k \in 1..(Len(stack') - 1) : stack'[k] = stack[k] /\ stack[k].objs \in Seq(T)
  BY <1>6, <1>9, <1>14, <1>15, <1>16
<1>18. ParsedInto(T)'
  BY <1>9, <1>12, <1>14, <1>17, ParsesTop
<1> QED
  BY <1>11, <1>18

LEMMA StepParses ==
  ASSUME SpansInv, [Next]_vars, NEW S, ParsedInto(S)
  PROVE  \E T : S \subseteq T /\ ParsedInto(T)'
<1>1. CASE Primitive
  BY <1>1, PrimitiveParses
<1>2. CASE BeginConstructed
  BY <1>2, BeginParses
<1>3. CASE EndConstructed
  BY <1>3, EndParses
<1>4. CASE Abort \/ Return \/ Terminated \/ UNCHANGED vars
  <2>1. UNCHANGED stack
    BY <1>4 DEF Abort, Return, Terminated, vars
  <2>2. HoldsObjects(S)' /\ \A k \in 1..Len(stack') : stack'[k].objs \in Seq(S)
    BY <2>1 DEF ParsedInto, HoldsObjects
  <2>3. S \subseteq S /\ ParsedInto(S)'
    BY <2>2 DEF ParsedInto
  <2> QED
    BY <2>3
<1> QED
  BY <1>1, <1>2, <1>3, <1>4 DEF Next, Step

\* Nothing is parsed yet.
LEMMA FreshParses ==
  ASSUME Fresh, NEW S, HoldsObjects(S)
  PROVE  ParsedInto(S)
<1>1. Len(stack) = 1 /\ stack[1].objs = <<>>
  BY DEF Fresh, Whole, Span
<1>2. <<>> \in Seq(S)
  OBVIOUS
<1>3. \A k \in 1..Len(stack) : stack[k].objs \in Seq(S)
  <2>1. \A k \in 1..1 : k = 1
    OBVIOUS
  <2> QED
    BY <1>1, <1>2, <2>1
<1> QED
  BY <1>3 DEF ParsedInto

-----------------------------------------------------------------------------
(* The objects that the path of a field leads to. *)

MemberOf(c, o, k) == Member(o, k)
InsideOf == INSTANCE Folding WITH Op <- MemberOf

Closed(S) == \A o \in S : o.objects \in Seq(S)

LEMMA NoIdentifier == Missing.id \notin ConstructedIds \cup OidIds /\ ~IsPrimitive(Missing)
BY DerAssumption DEF Missing, IsPrimitive

LEMMA MemberStays ==
  ASSUME NEW S, Closed(S), NEW o \in S \cup {Missing}, NEW k
  PROVE  Member(o, k) \in S \cup {Missing}
<1>1. CASE o.id \in ConstructedIds /\ k \in DOMAIN o.objects
  <2>1. o \in S
    BY <1>1, NoIdentifier
  <2>2. o.objects \in Seq(S)
    BY <2>1 DEF Closed
  <2>3. o.objects[k] \in S
    BY <1>1, <2>2
  <2> QED
    BY <1>1, <2>3 DEF Member
<1>2. CASE ~(o.id \in ConstructedIds /\ k \in DOMAIN o.objects)
  BY <1>2 DEF Member
<1> QED
  BY <1>1, <1>2

FollowsPath(g, o, path, n) ==
  /\ g[0] = o /\ Inside(o, path) = g[n]
  /\ \A k \in 1..n : g[k] = Member(g[k - 1], path[k])

LEMMA InsideFolds ==
  ASSUME NEW S, Closed(S), NEW o \in S \cup {Missing}, NEW path, NEW n \in Nat,
         DOMAIN path = 1..n
  PROVE  \E g : FollowsPath(g, o, path, n)
<1> DEFINE U == S \cup {Missing}
<1>1. \A a \in U, k \in 1..n : MemberOf(path, a, path[k]) \in U
  BY MemberStays DEF MemberOf
<1>2. o \in U
  OBVIOUS
<1> HIDE DEF U
<1>3. PICK g : InsideOf!FoldSteps(g, path, n, U, o, path)
  BY <1>1, <1>2, InsideOf!Fold
<1>4. Inside(o, path) = InsideOf!Folded(path, o, path)
  BY DEF Inside, MemberOf, InsideOf!Folded, InsideOf!FoldLeft, FoldLeft, InsideOf!MapThenFoldSet,
         MapThenFoldSet, InsideOf!Max, Max
<1> QED
  BY <1>3, <1>4 DEF InsideOf!FoldSteps, MemberOf, FollowsPath

LEMMA InsideOne ==
  ASSUME NEW S, Closed(S), NEW o \in S \cup {Missing}, NEW j
  PROVE  Inside(o, <<j>>) = Member(o, j)
<1> DEFINE path == <<j>>
<1>1. DOMAIN path = 1..1 /\ path[1] = j /\ 1 \in Nat
  OBVIOUS
<1> HIDE DEF path
<1>2. PICK g : FollowsPath(g, o, path, 1)
  BY <1>1, InsideFolds
<1>3. g[1] = Member(g[1 - 1], path[1])
  BY <1>2 DEF FollowsPath
<1> QED
  BY <1>1, <1>2, <1>3 DEF path, FollowsPath

LEMMA InsideTwo ==
  ASSUME NEW S, Closed(S), NEW o \in S \cup {Missing}, NEW j, NEW k
  PROVE  Inside(o, <<j, k>>) = Member(Member(o, j), k)
<1> DEFINE path == <<j, k>>
<1>1. DOMAIN path = 1..2 /\ path[1] = j /\ path[2] = k /\ 2 \in Nat
  OBVIOUS
<1> HIDE DEF path
<1>2. PICK g : FollowsPath(g, o, path, 2)
  BY <1>1, InsideFolds
<1>3. g[1] = Member(g[1 - 1], path[1]) /\ g[2] = Member(g[2 - 1], path[2])
  BY <1>2 DEF FollowsPath
<1> QED
  BY <1>1, <1>2, <1>3 DEF path, FollowsPath
-----------------------------------------------------------------------------
(* The parser in parse(), which calls it twice, and in try_decode(), which   *)
(* calls that for every certificate: whenever it begins it begins afresh.    *)

allVars == <<vars, x509Vars, messageVars>>

BehindKey      == {"signature", "returned"}
BehindSubject  == {"modulus"} \cup BehindKey
BehindValidity == {"subject_info"} \cup BehindSubject
BehindIssuer   == {"validity"} \cup BehindValidity
BehindVersion  == {"signature_algorithm", "issuer_info"} \cup BehindIssuer
BehindObjects  == {"version"} \cup BehindVersion

MessageInv ==
  /\ message \in Messages
  /\ IsSeq(chain) /\ Len(chain) <= Len(message)
  /\ at # "idle" => Len(chain) < Len(message)

\* It is called for the certificate and for the key in it.
CallInv ==
  /\ at \in {"idle", "objects", "refused"} \cup BehindObjects
  /\ at \notin {"objects", "modulus"} => pc # "parse"
  /\ input.encoded => input \in Inputs

\* The certificate is one of the objects parsed, and there are eight members.
ShapeInv ==
  \E S : /\ ParsedInto(S)
         /\ root \in S \cup {Missing}
         /\ at \in BehindObjects => Member(root, 1).id \in ConstructedIds /\ Len(Sequence) = 8

LEMMA CurrentType ==
  ASSUME MessageInv, Len(chain) < Len(message)
  PROVE  Current \in Inputs /\ Len(chain) + 1 \in 1..Len(message)
<1>1. message \in Seq(Inputs) /\ Len(message) \in Nat
  BY MessageType DEF MessageInv
<1>2. Len(chain) \in Nat
  BY DEF MessageInv, IsSeq
<1>3. Len(chain) + 1 \in 1..Len(message)
  BY <1>1, <1>2
<1> QED
  BY <1>1, <1>3 DEF Current

LEMMA HoldsClosed ==
  ASSUME NEW S, HoldsObjects(S)
  PROVE  Closed(S)
  BY DEF HoldsObjects, Closed

\* What is found in an object that is there.
LEMMA FoundInside ==
  ASSUME NEW S, HoldsObjects(S), NEW o \in S \cup {Missing},
         o.id \in ConstructedIds \/ IsPrimitive(o)
  PROVE  o \in S /\ o.objects \in Seq(S)
         /\ o.octets \in Seq(0..(Base - 1)) /\ Len(o.octets) < SizeLimit
<1>1. o \in S
  BY NoIdentifier
<1> QED
  BY <1>1 DEF HoldsObjects

LEMMA KeyInMemory ==
  ASSUME ShapeInv, at \in BehindObjects,
         NEW bits, bits = Member(Sequence[7], 2), IsPrimitive(bits), bits.octets # <<>>
  PROVE  Tail(bits.octets) \in Seq(0..(Base - 1)) /\ Len(Tail(bits.octets)) < SizeLimit
<1>1. PICK S : /\ ParsedInto(S) /\ root \in S \cup {Missing}
               /\ Member(root, 1).id \in ConstructedIds /\ Len(Sequence) = 8
  BY DEF ShapeInv
<1>2. HoldsObjects(S) /\ Closed(S)
  BY <1>1, HoldsClosed DEF ParsedInto
<1> DEFINE tbs == Member(root, 1)
<1>3. tbs \in S \cup {Missing}
  BY <1>1, <1>2, MemberStays
<1> HIDE DEF tbs
<1>4. tbs.objects \in Seq(S) /\ Len(tbs.objects) = 8
  BY <1>1, <1>2, <1>3, FoundInside DEF Sequence, tbs
<1>5. tbs.objects[7] \in S
  BY <1>4
<1>6. bits = Member(tbs.objects[7], 2)
  BY DEF Sequence, tbs
<1>7. bits \in S \cup {Missing}
  BY <1>2, <1>5, <1>6, MemberStays
<1>8. bits.octets \in Seq(0..(Base - 1)) /\ Len(bits.octets) < SizeLimit
  BY <1>2, <1>7, FoundInside
<1> DEFINE q == bits.octets
<1>9. q \in Seq(0..(Base - 1)) /\ Len(q) < SizeLimit /\ q # <<>>
  BY <1>8
<1> HIDE DEF q
<1>10. Tail(q) \in Seq(0..(Base - 1)) /\ Len(Tail(q)) = Len(q) - 1 /\ Len(q) \in Nat
  BY <1>9
<1> QED
  BY <1>9, <1>10, Sizes DEF q

Starts == Fresh' /\ (input'.encoded => input' \in Inputs)

LEMMA KeyStarts ==
  ASSUME ShapeInv, ReadKey
  PROVE  \/ UNCHANGED vars /\ at' = "refused" /\ UNCHANGED root
         \/ Starts /\ at' = "modulus" /\ UNCHANGED root
<1> DEFINE bits == Member(Sequence[7], 2)
<1>1. CASE UNCHANGED vars /\ at' = "refused"
  BY <1>1 DEF ReadKey
<1>2. CASE /\ IsPrimitive(bits) /\ bits.octets # <<>>
           /\ ParseRaw([octets |-> Tail(bits.octets), encoded |-> FALSE, objects |-> <<>>])
           /\ at' = "modulus"
  <2>1. at \in BehindObjects
    BY DEF ReadKey, BehindObjects, BehindVersion, BehindIssuer, BehindValidity
  <2> DEFINE q == Tail(bits.octets)
  <2>2. q \in Seq(0..(Base - 1)) /\ Len(q) < SizeLimit
    BY <1>2, <2>1, KeyInMemory
  <2>3. /\ input' = [octets |-> q, encoded |-> FALSE, objects |-> <<>>]
        /\ pc' = "parse" /\ stack' = Whole(q)
    BY <1>2 DEF ParseRaw
  <2> HIDE DEF q
  <2>4. input'.octets = q /\ input'.encoded = FALSE
    BY <2>3
  <2>5. Fresh'
    BY <2>2, <2>3, <2>4 DEF Fresh, InMemory
  <2>6. UNCHANGED root
    BY DEF ReadKey
  <2> QED
    BY <1>2, <2>4, <2>5, <2>6 DEF Starts
<1> QED
  BY <1>1, <1>2 DEF ReadKey

LEMMA BeginStarts ==
  ASSUME MessageInv, BeginCertificate
  PROVE  Starts /\ at' = "objects" /\ UNCHANGED <<root, message, chain>> /\ input' = Current
<1>1. Current \in Inputs /\ InMemory(Current)
  BY CurrentType, Sizes DEF BeginCertificate
<1>2. /\ input' = Current /\ pc' = "parse" /\ stack' = Whole(Current.octets)
      /\ at' = "objects" /\ UNCHANGED <<root, message, chain>>
  BY DEF BeginCertificate, BeginParse, ParseRaw, messageVars
<1>3. Fresh'
  BY <1>1, <1>2 DEF Fresh, InMemory
<1> QED
  BY <1>1, <1>2, <1>3 DEF Starts

\* The actions between two calls of the parser.
LEMMA BetweenCalls ==
  ASSUME \/ ParseRawAborts \/ ReadObjects \/ ReadVersion \/ ReadSignatureAlgorithm
         \/ ReadIssuer \/ ReadValidity \/ ReadSubject \/ ReadModulus \/ ReadSignature
  PROVE  /\ UNCHANGED vars
         /\ pc # "parse" \/ at \notin {"objects", "modulus"}
         /\ at' = "refused" \/ at' \in BehindObjects
<1> USE DEF BehindObjects, BehindVersion, BehindIssuer, BehindValidity, BehindSubject, BehindKey
<1>1. CASE ParseRawAborts
  BY <1>1 DEF ParseRawAborts
<1>2. CASE ReadObjects
  BY <1>2 DEF ReadObjects
<1>3. CASE ReadVersion
  BY <1>3 DEF ReadVersion, Read
<1>4. CASE ReadSignatureAlgorithm
  BY <1>4 DEF ReadSignatureAlgorithm, Read
<1>5. CASE ReadIssuer
  BY <1>5 DEF ReadIssuer, Read
<1>6. CASE ReadValidity
  BY <1>6 DEF ReadValidity, Read
<1>7. CASE ReadSubject
  BY <1>7 DEF ReadSubject
<1>8. CASE ReadModulus
  BY <1>8 DEF ReadModulus, Read
<1>9. CASE ReadSignature
  BY <1>9 DEF ReadSignature, Read
<1> QED
  BY <1>1, <1>2, <1>3, <1>4, <1>5, <1>6, <1>7, <1>8, <1>9

LEMMA StepParsing ==
  ASSUME Step
  PROVE  pc = "parse" /\ [Next]_vars /\ UNCHANGED input
  BY DEF Step, Next, Primitive, BeginConstructed, EndConstructed, Abort, Return, More

\* Every step begins to parse, parses on or leaves the parser alone.
LEMMA ParserMoves ==
  ASSUME MessageInv, CallInv, ShapeInv, [CertificatesNext]_allVars
  PROVE  /\ CallInv'
         /\ \/ Starts /\ pc # "parse"
            \/ [Next]_vars
<1>1. CASE BeginCertificate
  <2>1. at = "idle"
    BY <1>1 DEF BeginCertificate
  <2> QED
    BY <1>1, <2>1, BeginStarts DEF CallInv, Starts
<1>2. CASE ParseCertificate
  <2>1. ParseStep
    BY <1>2 DEF ParseCertificate
  <2>2. CASE ParseRawStep
    <3>1. Step /\ UNCHANGED at
      BY <2>2 DEF ParseRawStep, x509Vars
    <3> QED
      BY <3>1, StepParsing DEF CallInv
  <2>3. CASE \/ ParseRawAborts \/ ReadObjects \/ ReadVersion \/ ReadSignatureAlgorithm
             \/ ReadIssuer \/ ReadValidity \/ ReadSubject \/ ReadModulus \/ ReadSignature
    <3>1. /\ UNCHANGED <<pc, input>> /\ UNCHANGED vars
          /\ pc # "parse" \/ at \notin {"objects", "modulus"}
          /\ at' = "refused" \/ at' \in BehindObjects
      BY <2>3, BetweenCalls DEF vars
    <3> QED
      BY <3>1 DEF CallInv
  <2>4. CASE ReadKey
    <3>1. at = "subject_info"
      BY <2>4 DEF ReadKey
    <3>2. pc # "parse"
      BY <3>1 DEF CallInv
    <3>3. CASE UNCHANGED vars /\ at' = "refused"
      BY <3>2, <3>3 DEF CallInv, vars
    <3>4. CASE Starts /\ at' = "modulus"
      BY <3>2, <3>4 DEF CallInv, Starts, BehindObjects, BehindVersion, BehindIssuer,
                        BehindValidity, BehindSubject
    <3> QED
      BY <2>4, <3>3, <3>4, KeyStarts
  <2> QED
    BY <2>1, <2>2, <2>3, <2>4 DEF ParseStep
<1>3. CASE EndCertificate
  BY <1>3 DEF EndCertificate, CallInv, vars
<1>4. CASE VerifyChain \/ CertificatesTerminated \/ UNCHANGED allVars
  <2>1. UNCHANGED <<pc, input, at>> /\ UNCHANGED vars
    BY <1>4 DEF VerifyChain, CertificatesTerminated, allVars, vars, x509Vars
  <2> QED
    BY <2>1 DEF CallInv
<1> QED
  BY <1>1, <1>2, <1>3, <1>4 DEF CertificatesNext
-----------------------------------------------------------------------------
LEMMA InitCalls == CertificatesInit => MessageInv /\ CallInv /\ Fresh
<1> SUFFICES ASSUME CertificatesInit PROVE MessageInv /\ CallInv /\ Fresh
  OBVIOUS
<1>1. message \in Messages /\ chain = <<>> /\ at = "idle"
      /\ pc = "return" /\ input = NoInput /\ stack = Whole(<<>>)
  BY DEF CertificatesInit
<1>2. IsSeq(<<>>) /\ Len(<<>>) = 0
  <2>1. <<>> \in Seq({})
    OBVIOUS
  <2> QED
    BY <2>1, Zenon DEF IsSeq
<1>3. Len(message) \in Nat
  BY <1>1, MessageType
<1>4. MessageInv
  BY <1>1, <1>2, <1>3 DEF MessageInv
<1>5. input.octets = <<>> /\ input.encoded = FALSE
  BY <1>1 DEF NoInput
<1>6. CallInv
  BY <1>1, <1>5 DEF CallInv
<1>7. <<>> \in Seq(0..(Base - 1)) /\ Len(<<>>) < SizeLimit
  BY Sizes
<1>8. Fresh
  BY <1>1, <1>5, <1>7 DEF Fresh, InMemory
<1> QED
  BY <1>4, <1>6, <1>8

LEMMA InitShape == CertificatesInit => ShapeInv
<1> SUFFICES ASSUME CertificatesInit PROVE ShapeInv
  OBVIOUS
<1>1. HoldsObjects({})
  BY DEF HoldsObjects
<1>2. ParsedInto({})
  BY <1>1, InitCalls, FreshParses
<1>3. root \in {} \cup {Missing} /\ at = "idle"
  BY DEF CertificatesInit
<1>4. at \notin BehindObjects
  BY <1>3 DEF BehindObjects, BehindVersion, BehindIssuer, BehindValidity, BehindSubject,
              BehindKey
<1> QED
  BY <1>2, <1>3, <1>4 DEF ShapeInv

LEMMA NextMessage ==
  ASSUME MessageInv, [CertificatesNext]_allVars
  PROVE  MessageInv'
<1>1. /\ message \in Messages /\ Len(message) \in Nat /\ IsSeq(chain)
      /\ Len(chain) <= Len(message)
      /\ at # "idle" => Len(chain) < Len(message)
  BY MessageType DEF MessageInv
<1>2. CASE BeginCertificate
  BY <1>1, <1>2 DEF BeginCertificate, MessageInv, messageVars
<1>3. CASE ParseCertificate
  <2>1. ParseStep /\ UNCHANGED <<message, chain>>
    BY <1>3 DEF ParseCertificate, messageVars
  <2> QED
    BY <1>1, <2>1, ParseIsBusy DEF MessageInv
<1>4. CASE EndCertificate
  <2>1. /\ at = "returned" /\ at' = "idle" /\ chain' = Append(chain, v3) /\ UNCHANGED message
    BY <1>4 DEF EndCertificate
  <2>2. IsSeq(chain') /\ Len(chain') = Len(chain) + 1 /\ Len(chain) \in Nat
    BY <1>1, <2>1, AppendAny
  <2> QED
    BY <1>1, <2>1, <2>2 DEF MessageInv
<1>5. CASE VerifyChain \/ CertificatesTerminated \/ UNCHANGED allVars
  <2>1. UNCHANGED <<message, chain, at>>
    BY <1>5 DEF VerifyChain, CertificatesTerminated, allVars, x509Vars, messageVars, Verify!Step,
                Verify!MalformedSignature, Verify!HashMismatch, Verify!Verified,
                Verify!AllVerified, Verify!Verdict
  <2> QED
    BY <1>1, <2>1 DEF MessageInv
<1> QED
  BY <1>2, <1>3, <1>4, <1>5 DEF CertificatesNext

\* What ReadObjects() finds.
LEMMA ObjectsFound ==
  ASSUME ReadObjects, SpansInv, NEW S, ParsedInto(S)
  PROVE  \/ UNCHANGED root /\ at' = "refused"
         \/ root' \in S /\ at' = "version"
            /\ Member(root', 1).id \in ConstructedIds /\ Len(Member(root', 1).objects) = 8
<1>1. CASE at' = "refused" /\ root' = root
  BY <1>1
<1>2. CASE /\ Len(Top.objs) = 1
           /\ Inside(Top.objs[1], <<1>>).id \in ConstructedIds
           /\ Len(Inside(Top.objs[1], <<1>>).objects) = 8
           /\ at' = "version" /\ root' = Top.objs[1]
  <2>1. Len(stack) \in Nat \ {0} /\ Top = stack[Len(stack)]
    BY TopOfStack
  <2>2. Top.objs \in Seq(S) /\ Closed(S)
    BY <2>1, HoldsClosed DEF ParsedInto
  <2>3. Top.objs[1] \in S
    BY <1>2, <2>2
  <2> DEFINE o == Top.objs[1]
  <2>4. Inside(o, <<1>>) = Member(o, 1)
    <3> HIDE DEF o
    <3>1. o \in S \cup {Missing}
      BY <2>3 DEF o
    <3> QED
      BY ONLY <2>2, <3>1, InsideOne
  <2> QED
    BY <1>2, <2>3, <2>4
<1> QED
  BY <1>1, <1>2 DEF ReadObjects

LEMMA NextShape ==
  ASSUME MessageInv, CallInv, SpansInv, ShapeInv, [CertificatesNext]_allVars
  PROVE  ShapeInv'
<1>1. PICK S : /\ ParsedInto(S) /\ root \in S \cup {Missing}
               /\ at \in BehindObjects
                    => Member(root, 1).id \in ConstructedIds /\ Len(Sequence) = 8
  BY DEF ShapeInv
<1>2. ASSUME NEW T, S \subseteq T, ParsedInto(T)', UNCHANGED root,
             at' \in BehindObjects => at \in BehindObjects
      PROVE  ShapeInv'
  <2>1. root' \in T \cup {Missing}
    BY <1>1, <1>2
  <2>2. at' \in BehindObjects =>
          Member(root', 1).id \in ConstructedIds /\ Len(Member(root', 1).objects) = 8
    BY <1>1, <1>2 DEF Sequence
  <2>3. \E U : /\ ParsedInto(U)' /\ root' \in U \cup {Missing}
               /\ at' \in BehindObjects =>
                    Member(root', 1).id \in ConstructedIds /\ Len(Member(root', 1).objects) = 8
    BY <1>2, <2>1, <2>2
  <2> QED
    BY <2>3 DEF ShapeInv, Sequence
<1>3. ASSUME Fresh' PROVE ParsedInto(S)'
  <2>1. Len(stack') = 1 /\ stack'[1].objs = <<>>
    BY <1>3 DEF Fresh, Whole, Span
  <2>2. <<>> \in Seq(S) /\ \A k \in 1..1 : k = 1
    OBVIOUS
  <2>3. \A k \in 1..Len(stack') : stack'[k].objs \in Seq(S)
    BY <2>1, <2>2
  <2>4. HoldsObjects(S)'
    BY <1>1 DEF ParsedInto, HoldsObjects
  <2> QED
    BY <2>3, <2>4 DEF ParsedInto
<1>4. ASSUME UNCHANGED vars PROVE ParsedInto(S)'
  BY <1>1, <1>4 DEF ParsedInto, HoldsObjects, vars
<1>5. "objects" \notin BehindObjects /\ "idle" \notin BehindObjects /\ "refused" \notin BehindObjects
      /\ "subject_info" \in BehindObjects
  BY DEF BehindObjects, BehindVersion, BehindIssuer, BehindValidity, BehindSubject, BehindKey
<1>6. S \subseteq S
  OBVIOUS
<1>7. CASE BeginCertificate
  <2>1. Fresh' /\ at' = "objects" /\ UNCHANGED root
    BY <1>7, BeginStarts DEF Starts
  <2> QED
    BY <1>2, <1>3, <1>5, <1>6, <2>1
<1>8. CASE ParseCertificate
  <2>1. ParseStep
    BY <1>8 DEF ParseCertificate
  <2>2. CASE ParseRawStep
    <3>1. [Next]_vars /\ UNCHANGED <<at, root>>
      BY <2>2, StepParsing DEF ParseRawStep, x509Vars
    <3>2. PICK T : S \subseteq T /\ ParsedInto(T)'
      BY <1>1, <3>1, StepParses
    <3> QED
      BY <1>2, <3>1, <3>2
  <2>3. CASE ReadObjects
    <3>1. ParsedInto(S)'
      BY <1>4, <2>3, BetweenCalls
    <3>2. CASE UNCHANGED root /\ at' = "refused"
      BY <1>2, <1>5, <1>6, <3>1, <3>2
    <3>3. CASE root' \in S /\ at' = "version"
               /\ Member(root', 1).id \in ConstructedIds /\ Len(Member(root', 1).objects) = 8
      <4>1. \E U : /\ ParsedInto(U)' /\ root' \in U \cup {Missing}
                   /\ at' \in BehindObjects =>
                        Member(root', 1).id \in ConstructedIds /\ Len(Member(root', 1).objects) = 8
        BY <3>1, <3>3
      <4> QED
        BY <4>1 DEF ShapeInv, Sequence
    <3> QED
      BY <1>1, <2>3, <3>2, <3>3, ObjectsFound
  <2>4. CASE \/ ParseRawAborts \/ ReadVersion \/ ReadSignatureAlgorithm
             \/ ReadIssuer \/ ReadValidity \/ ReadSubject \/ ReadModulus \/ ReadSignature
    <3>1. UNCHANGED root /\ (at' = "refused" \/ at \in BehindObjects)
      <4> USE DEF BehindObjects, BehindVersion, BehindIssuer, BehindValidity, BehindSubject, BehindKey
      <4> QED
        BY <2>4 DEF ParseRawAborts, ReadVersion, ReadSignatureAlgorithm, ReadIssuer, ReadValidity,
                    ReadSubject, ReadModulus, ReadSignature, Read
    <3>2. ParsedInto(S)'
      BY <1>4, <2>4, BetweenCalls
    <3> QED
      BY <1>2, <1>5, <1>6, <3>1, <3>2
  <2>5. CASE ReadKey
    <3>1. UNCHANGED root /\ at = "subject_info"
      BY <2>5 DEF ReadKey
    <3>2. ParsedInto(S)'
      BY <1>3, <1>4, <2>5, KeyStarts DEF Starts
    <3> QED
      BY <1>2, <1>5, <1>6, <3>1, <3>2
  <2> QED
    BY <2>1, <2>2, <2>3, <2>4, <2>5 DEF ParseStep
<1>9. CASE EndCertificate \/ VerifyChain \/ CertificatesTerminated \/ UNCHANGED allVars
  <2>1. UNCHANGED vars /\ UNCHANGED root /\ (at' = at \/ at' = "idle")
    BY <1>9 DEF EndCertificate, VerifyChain, CertificatesTerminated, allVars, x509Vars
  <2> QED
    BY <1>2, <1>4, <1>5, <1>6, <2>1
<1> QED
  BY <1>7, <1>8, <1>9 DEF CertificatesNext

CertificatesInv ==
  MessageInv /\ CallInv /\ ShapeInv /\ SpansInv /\ TileInv /\ EncodedInv

LEMMA CertificatesInvAlways == CertificatesSpec => []CertificatesInv
<1>1. CertificatesInit => MessageInv /\ CallInv /\ ShapeInv /\ Fresh
  BY InitCalls, InitShape
<1>2. MessageInv /\ [CertificatesNext]_allVars => MessageInv'
  BY NextMessage
<1>3. MessageInv /\ CallInv /\ ShapeInv /\ [CertificatesNext]_allVars
        => CallInv' /\ (Fresh' \/ [Next]_vars)
  BY ParserMoves DEF Starts
<1>4. MessageInv /\ CallInv /\ SpansInv /\ ShapeInv /\ [CertificatesNext]_allVars => ShapeInv'
  BY NextShape
<1>5. SpansInv /\ EncodedInv /\ [Next]_vars => EncodedInv'
  BY NextReads
<1> QED
  BY <1>1, <1>2, <1>3, <1>4, <1>5, FreshSpans, FreshTileInv, FreshEncoded, NextSpans, NextTiles,
     PTL DEF CertificatesSpec, CertificatesInv, allVars

\* The parser keeps its promises as try_decode() uses it, which calls it for one
\* certificate after the other and for the key in each (certparser.cpp:258-302, 367,
\* http.cpp:191-212).
THEOREM ParserInCertificates ==
  CertificatesSpec => [](ParsesEncodings /\ RawOctetsTile) /\ ParsesOn
<1>1. CertificatesInv => ParsesEncodings
  BY EncodedIsRead DEF CertificatesInv, CallInv
<1>2. CertificatesInv => RawOctetsTile
  BY TileInvTiles DEF CertificatesInv
<1>3. CertificatesInv /\ [CertificatesNext]_allVars => [GetsOn]_vars
  <2> SUFFICES ASSUME CertificatesInv, [CertificatesNext]_allVars PROVE [GetsOn]_vars
    OBVIOUS
  <2>1. (Starts /\ pc # "parse") \/ [Next]_vars
    BY ParserMoves DEF CertificatesInv
  <2>2. CASE pc # "parse"
    BY <2>2 DEF GetsOn
  <2>3. CASE [Next]_vars
    BY <2>3, NextGetsOn DEF CertificatesInv
  <2> QED
    BY <2>1, <2>2, <2>3
<1> QED
  BY <1>1, <1>2, <1>3, CertificatesInvAlways, PTL
     DEF CertificatesSpec, allVars, ParsesOn, GetsOn

-----------------------------------------------------------------------------
(* What the fields of a certificate of the supported form are read as. *)

LEMMA Identifiers ==
  /\ {48, 49, 160} \subseteq ConstructedIds
  /\ \A n \in {2, 3, 6, 12, 19, 23} : n \notin ConstructedIds /\ n \in 0..255 /\ n % 32 = n
  /\ 6 \in OidIds
  /\ {2, 3, 12, 19} \cap OidIds = {}
<1>1. {48, 49, 160} \subseteq ConstructedIds
  BY X509Assumption
<1>2. \A n \in {2, 3, 6, 12, 19, 23} : n \notin ConstructedIds /\ n \in 0..255 /\ n % 32 = n
  BY X509Assumption
<1>3. 6 \in OidIds
  BY <1>2, X509Assumption
<1>4. {2, 3, 12, 19} \cap OidIds = {}
  BY X509Assumption
<1> QED
  BY <1>1, <1>2, <1>3, <1>4

LEMMA ObjectsClosed == Closed(Objects)
BY ObjectType DEF Closed

LEMMA MemberIs ==
  ASSUME NEW o \in Objects, o.id \in {48, 49, 160}, NEW k \in 1..Len(o.objects)
  PROVE  Member(o, k) = o.objects[k] /\ o.objects[k] \in Objects
<1>1. o.objects \in Seq(Objects)
  BY ObjectType
<1>2. o.id \in ConstructedIds
  BY Identifiers
<1> QED
  BY <1>1, <1>2 DEF Member

LEMMA ListMembers ==
  ASSUME NEW o \in Objects, NEW n \in Nat, IsList(o, n), NEW k \in 1..n
  PROVE  Member(o, k) = o.objects[k] /\ o.objects[k] \in Objects
BY MemberIs DEF IsList

LEMMA IntegerIsRead ==
  ASSUME NEW o, NEW n, IsInteger(o, n)
  PROVE  IsPrimitive(o) /\ Integer(o) = n
BY Identifiers DEF IsInteger, IsPrimitive, Integer, AsOctets

LEMMA AlgorithmIsRead ==
  ASSUME NEW o \in Objects, NEW arcs, IsAlgorithm(o, arcs)
  PROVE  HasType(o, arcs)
<1>1. o.id = 48 /\ Len(o.objects) \in 1..2
  BY DEF IsAlgorithm
<1>2. Member(o, 1) = o.objects[1]
  BY <1>1, MemberIs
<1>3. o.objects[1].id = 6 /\ o.objects[1].arcs = arcs
  BY DEF IsAlgorithm, IsIdentifier
<1> QED
  BY <1>2, <1>3, Identifiers DEF HasType, IsText, AsOctets, IsPrimitive, Tag

\* The type and the value of an attribute.
LEMMA AttributeIsRead ==
  ASSUME NEW o \in Objects, NEW types, IsAttribute(o, types),
         NEW pair, pair = Member(o, 1)
  PROVE  /\ HasType(pair, TypeOf(o)) /\ TypeOf(o) \in types
         /\ IsText(Value(pair)) /\ AsOctets(Value(pair)) = ValueOf(o)
<1>1. pair = o.objects[1] /\ pair \in Objects /\ IsList(pair, 2)
  BY MemberIs DEF IsAttribute
<1>2. Member(pair, 1) = pair.objects[1] /\ Member(pair, 2) = pair.objects[2]
  BY <1>1, ListMembers
<1>3. /\ pair.objects[1].id = 6 /\ pair.objects[1].arcs = TypeOf(o) /\ TypeOf(o) \in types
      /\ pair.objects[2].id \in {12, 19} /\ pair.objects[2].octets = ValueOf(o)
  BY <1>1 DEF IsAttribute, TypeOf, ValueOf
<1>4. IsText(Member(pair, 1)) /\ AsOctets(Member(pair, 1)) = Spelling(TypeOf(o))
  BY <1>2, <1>3, Identifiers DEF IsText, AsOctets, IsPrimitive, Tag
<1>5. IsText(Member(pair, 2)) /\ AsOctets(Member(pair, 2)) = ValueOf(o)
  BY <1>2, <1>3, Identifiers DEF IsText, AsOctets, IsPrimitive, Tag
<1> QED
  BY <1>3, <1>4, <1>5 DEF HasType, Value

\* A name has one type.
LEMMA SameType ==
  ASSUME NEW pair, NEW type \in SubjectTypes, NEW other \in SubjectTypes,
         HasType(pair, type), HasType(pair, other)
  PROVE  type = other
<1>1. Spelling(type) = Spelling(other)
  BY DEF HasType
<1>2. type \in KnownTypes /\ other \in KnownTypes
  BY DEF KnownTypes
<1> QED
  BY <1>1, <1>2, SpellingAssumption

\* Two digits of the year are enough to tell the century by the first of them.
LEMMA TimeIsRead ==
  ASSUME NEW o, NEW text, IsTime(o, text)
  PROVE  IsUtc(o) /\ Utc(o) = text
<1>1. IsUtc(o)
  BY Identifiers DEF IsTime, IsUtc, IsPrimitive, Tag
<1> DEFINE a == o.octets[1]
           b == o.octets[2]
           year == (a - 48) * 10 + (b - 48)
<1>2. a \in 48..57 /\ b \in 48..57
  BY DEF IsTime
<1>3. a < 53 <=> year < 50
  <2> HIDE DEF a, b
  <2> QED
    BY <1>2
<1>4. Century(o) = IF year < 50 THEN <<50, 48>> ELSE <<49, 57>>
  BY <1>3 DEF Century
<1>5. text = SubSeq(o.octets, 5, 5 + 1) \o <<46>> \o SubSeq(o.octets, 3, 3 + 1) \o <<46>>
               \o (IF year < 50 THEN <<50, 48>> ELSE <<49, 57>>) \o SubSeq(o.octets, 1, 1 + 1)
  BY DEF IsTime
<1>6. 5 + 1 = 6 /\ 3 + 1 = 4 /\ 1 + 1 = 2
  OBVIOUS
<1>7. Utc(o) = SubSeq(o.octets, 5, 6) \o <<46>> \o SubSeq(o.octets, 3, 4) \o <<46>>
                 \o (IF year < 50 THEN <<50, 48>> ELSE <<49, 57>>) \o SubSeq(o.octets, 1, 2)
  BY <1>4 DEF Utc
<1> HIDE DEF year
<1>8. Utc(o) = text
  BY ONLY <1>5, <1>6, <1>7
<1> QED
  BY <1>1, <1>8

\* An octet 0 in front does not change a number.
LEMMA LeadingZero ==
  ASSUME NEW p \in Seq(Nat), p # <<>>, p[1] = 0
  PROVE  BigEndian(p) = BigEndian(Tail(p))
<1> DEFINE q == Tail(p)
           n == Len(q)
<1>1. /\ q \in Seq(Nat) /\ n \in Nat /\ DOMAIN q = 1..n
      /\ Len(p) = n + 1 /\ DOMAIN p = 1..(n + 1)
      /\ \A k \in 1..n : q[k] = p[k + 1] /\ q[k] \in Nat
      /\ \A k \in 1..(n + 1) : p[k] \in Nat
  OBVIOUS
<1> HIDE DEF q, n
<1>2. \A r : BigEndian(r) = NumberOf!Folded(r, 0, r)
  BY DEF BigEndian, AddOctet, NumberOf!Folded, NumberOf!FoldLeft, FoldLeft, NumberOf!MapThenFoldSet,
         MapThenFoldSet, NumberOf!Max, Max
<1>3. Base \in Nat
  BY Sizes
<1>4. PICK f : NumberOf!FoldSteps(f, q, n, Nat, 0, q)
  <2>1. \A a \in Nat, k \in 1..n : AddOctet(q, a, q[k]) \in Nat
    BY <1>1, <1>3, SMTT(20) DEF AddOctet
  <2> QED
    BY <1>1, <2>1, NumberOf!Fold
<1> DEFINE m == n + 1
<1>5. PICK g : NumberOf!FoldSteps(g, p, m, Nat, 0, p)
  <2>1. \A a \in Nat, k \in 1..m : AddOctet(p, a, p[k]) \in Nat
    BY <1>1, <1>3 DEF AddOctet
  <2>2. m \in Nat /\ DOMAIN p = 1..m
    BY <1>1
  <2> HIDE DEF m
  <2> QED
    BY <2>1, <2>2, NumberOf!Fold
<1>6. /\ f[0] = 0 /\ f[n] = BigEndian(q)
      /\ \A k \in 1..n : f[k] = f[k - 1] * Base + q[k]
  BY <1>2, <1>4 DEF NumberOf!FoldSteps, AddOctet
<1>7. /\ g[0] = 0 /\ g[m] = BigEndian(p)
      /\ \A k \in 1..m : g[k] = g[k - 1] * Base + p[k]
  BY <1>2, <1>5 DEF NumberOf!FoldSteps, AddOctet
<1> DEFINE T == {k \in 0..n : g[k + 1] = f[k]}
<1>8. 0 \in T
  <2>1. 1 \in 1..m /\ 0 \in 0..n
    BY <1>1
  <2>2. g[1] = g[1 - 1] * Base + p[1]
    BY <1>7, <2>1
  <2>3. g[1] = 0
    BY <1>3, <1>7, <2>2
  <2> QED
    BY <1>6, <2>1, <2>3
<1>9. ASSUME NEW k \in 0..(n - 1), k \in T PROVE k + 1 \in T
  <2> DEFINE l == k + 1
  <2>1. l \in 1..n /\ l - 1 = k /\ l + 1 \in 1..m /\ (l + 1) - 1 = l /\ l \in 0..n
    BY <1>1
  <2>2. f[l] = f[k] * Base + q[l]
    BY <1>6, <2>1
  <2>3. g[l + 1] = g[l] * Base + p[l + 1]
    BY <1>7, <2>1
  <2>4. g[l] = f[k] /\ p[l + 1] = q[l]
    BY <1>1, <1>9, <2>1
  <2> HIDE DEF l
  <2>5. l \in T
    BY <2>1, <2>2, <2>3, <2>4
  <2> QED
    BY <2>5 DEF l
<1>10. \A k \in 0..n : k \in T
  <2>1. 0 \in Int /\ n \in Int
    BY <1>1
  <2> HIDE DEF T
  <2> QED
    BY <1>8, <1>9, <2>1, NumberOf!Induction
<1>11. g[m] = f[n]
  BY <1>1, <1>10
<1> QED
  BY <1>6, <1>7, <1>11 DEF q

LEMMA SignatureIsRead ==
  ASSUME NEW o \in Objects, HasBits(o)
  PROVE  IsPrimitive(o) /\ Integer(o) = BigEndian(Bits(o))
<1>1. o.octets \in Seq(Nat)
  BY ObjectType
<1> QED
  BY <1>1, LeadingZero, Identifiers DEF HasBits, Bits, Integer, AsOctets, IsPrimitive

LEMMA FlattenOne ==
  ASSUME NEW o \in Objects
  PROVE  FlattenSeq(RawOctets(<<o>>)) = o.raw
<1> DEFINE objs == <<o>>
<1>1. objs \in Seq(Objects) /\ Len(objs) = 1 /\ objs[1] = o
  OBVIOUS
<1> HIDE DEF objs
<1> DEFINE q == RawOctets(objs)
<1>2. q \in Seq(Seq(Nat)) /\ Len(q) = 1 /\ q[1] = o.raw
  <2>1. 1 \in 1..Len(objs)
    BY <1>1
  <2> QED
    BY <1>1, <2>1, RawOctetsType
<1> HIDE DEF q
<1>3. /\ NumberOf!FlattenSeq(q) = IF Len(q) = 0 THEN q ELSE NumberOf!Flat(q)[Len(q)]
      /\ \A i \in 1..Len(q) :
           NumberOf!Flat(q)[i] = IF i = 1 THEN q[i] ELSE NumberOf!Flat(q)[i - 1] \o q[i]
  BY <1>2, NumberOf!FlatValues
<1>4. NumberOf!FlattenSeq(q) = FlattenSeq(q)
  BY DEF NumberOf!FlattenSeq, FlattenSeq
<1>5. 1 \in 1..Len(q) /\ Len(q) # 0
  BY <1>2
<1>6. NumberOf!Flat(q)[1] = q[1]
  BY <1>3, <1>5
<1>7. NumberOf!FlattenSeq(q) = NumberOf!Flat(q)[1]
  BY <1>2, <1>3, <1>5
<1>8. FlattenSeq(q) = o.raw
  BY <1>2, <1>4, <1>6, <1>7
<1> QED
  BY <1>8 DEF q, objs

-----------------------------------------------------------------------------
(* A certificate of the supported form, field after field. *)

\* The values of the last attributes of every type among the first n.
SubjectRead(objs, n, values) ==
  \A type \in SubjectTypes :
    \/ values[type] = <<>> /\ \A k \in 1..n : TypeOf(objs[k]) # type
    \/ \E k \in 1..n :
         /\ TypeOf(objs[k]) = type /\ values[type] = ValueOf(objs[k])
         /\ \A j \in 1..n : j > k => TypeOf(objs[j]) # type

IsPair(o, key) ==
  IsList(o, 2) /\ IsInteger(o.objects[1], key.n) /\ IsInteger(o.objects[2], key.e)

\* The fields read so far are those of c, which is not refused.
IsReading(c) ==
  LET o       == c.objects[1]
      m       == c.meant
      subject == o.objects[1].objects[6].objects
  IN
    /\ at \in {"objects"} \cup BehindObjects
    /\ DOMAIN v3 = DOMAIN Empty
    /\ v3.subject_info = [type \in SubjectTypes |-> v3.subject_info[type]]
    /\ at = "objects" => input = c
    /\ at \in BehindObjects => root = o
    /\ at \in BehindVersion => v3.version = m.version /\ v3.serial_number = m.serial_number
    /\ at \in BehindIssuer => v3.issuer_info = m.issuer_info
    /\ at \in BehindValidity => /\ v3.valid_not_before = m.valid_not_before
                                /\ v3.valid_not_after = m.valid_not_after
    /\ at \notin BehindValidity => s = 0 /\ v3.subject_info = Empty.subject_info
    /\ at = "subject_info" => s \in 0..Len(subject) /\ SubjectRead(subject, s, v3.subject_info)
    /\ at \in BehindSubject => v3.subject_info = m.subject_info
    /\ at = "modulus" =>
         \E pair \in Objects : IsPair(pair, m.public_key) /\ input.octets = pair.raw
    /\ at \in BehindKey => v3.public_key = m.public_key
    /\ at = "returned" => v3.signature = m.signature /\ v3.raw_bytes = m.raw_bytes

Supported == {c \in Inputs : c.profile}

MeaningInv == at # "idle" => \A c \in Supported : c = Current => IsReading(c)

LEMMA PartsOfCertificate ==
  ASSUME NEW c \in Supported, NEW o, o = c.objects[1], NEW m, m = c.meant,
         NEW tbs, tbs = o.objects[1]
  PROVE  /\ c.encoded /\ c.objects \in Seq(Objects) /\ Len(c.objects) = 1 /\ o \in Objects
         /\ IsCertificate(o, m) /\ m \in MeantCert
         /\ Member(o, 1) = tbs /\ Member(o, 2) = o.objects[2] /\ Member(o, 3) = o.objects[3]
         /\ o.objects[2] \in Objects /\ o.objects[3] \in Objects /\ tbs \in Objects
         /\ tbs.id = 48 /\ IsList(tbs, 8) /\ IsContents(tbs, m)
         /\ \A k \in 1..8 : tbs.objects[k] \in Objects
<1>1. c.encoded /\ Len(c.objects) = 1 /\ IsCertificate(o, m)
  BY CertificatesAssumption DEF Supported
<1>2. c.objects \in Seq(Objects)
  BY <1>1, EncodingsAssumption DEF Supported
<1>3. o \in Objects
  BY <1>1, <1>2
<1>4. m \in MeantCert
  BY MessagesAssumption DEF Supported
<1>5. IsList(o, 3) /\ IsContents(tbs, m)
  BY <1>1 DEF IsCertificate
<1>6. \A k \in 1..3 : Member(o, k) = o.objects[k] /\ o.objects[k] \in Objects
  BY <1>3, <1>5, ListMembers
<1>7. IsList(tbs, 8)
  BY <1>5 DEF IsContents
<1>8. tbs \in Objects
  BY <1>6
<1>9. \A k \in 1..8 : tbs.objects[k] \in Objects
  BY <1>7, <1>8, ListMembers
<1>10. tbs.id = 48
  BY <1>7 DEF IsList
<1> QED
  <2>1. /\ Member(o, 1) = tbs /\ Member(o, 2) = o.objects[2] /\ Member(o, 3) = o.objects[3]
        /\ o.objects[2] \in Objects /\ o.objects[3] \in Objects
    BY <1>6
  <2> QED
    BY ONLY <1>1, <1>2, <1>3, <1>4, <1>5, <1>7, <1>8, <1>9, <1>10, <2>1

LEMMA CertificateParts ==
  ASSUME NEW c \in Supported
  PROVE  LET o   == c.objects[1]
             m   == c.meant
             tbs == o.objects[1]
         IN
         /\ c.encoded /\ c.objects \in Seq(Objects) /\ Len(c.objects) = 1 /\ o \in Objects
         /\ IsCertificate(o, m) /\ m \in MeantCert
         /\ Member(o, 1) = tbs /\ Member(o, 2) = o.objects[2] /\ Member(o, 3) = o.objects[3]
         /\ o.objects[2] \in Objects /\ o.objects[3] \in Objects /\ tbs \in Objects
         /\ tbs.id = 48 /\ IsList(tbs, 8) /\ IsContents(tbs, m)
         /\ \A k \in 1..8 : tbs.objects[k] \in Objects
<1>1. PICK o : o = c.objects[1]
  OBVIOUS
<1>2. PICK m : m = c.meant
  OBVIOUS
<1>3. PICK tbs : tbs = o.objects[1]
  OBVIOUS
<1> QED
  BY <1>1, <1>2, <1>3, PartsOfCertificate, SMTT(20)

LEMMA EmptyFields ==
  DOMAIN Empty = {"version", "serial_number", "issuer_info", "valid_not_before",
                  "valid_not_after", "subject_info", "public_key", "signature", "raw_bytes"}
BY DEF Empty

LEMMA BeginsReading ==
  ASSUME NEW c \in Supported, BeginParse(c)
  PROVE  IsReading(c)'
<1>1. input' = c /\ at' = "objects" /\ s' = 0 /\ v3' = Empty
  BY DEF BeginParse, ParseRaw
<1>2. Empty.subject_info = [type \in SubjectTypes |-> <<>>]
  BY DEF Empty
<1>3. v3'.subject_info = [type \in SubjectTypes |-> v3'.subject_info[type]]
  BY <1>1, <1>2
<1>4. DOMAIN v3' = DOMAIN Empty /\ v3'.subject_info = Empty.subject_info
  BY <1>1
<1>5. /\ at' \notin BehindObjects /\ at' \notin BehindVersion /\ at' \notin BehindIssuer
      /\ at' \notin BehindValidity /\ at' \notin BehindSubject /\ at' \notin BehindKey
  BY <1>1 DEF BehindObjects, BehindVersion, BehindIssuer, BehindValidity, BehindSubject,
              BehindKey
<1> QED
  BY <1>1, <1>3, <1>4, <1>5 DEF IsReading

LEMMA SameReading ==
  ASSUME NEW c, IsReading(c), UNCHANGED <<at, root, s, v3, input>>
  PROVE  IsReading(c)'
BY SMTT(20), ZenonT(60) DEF IsReading

\* The parser finds the certificate, and then its key.
LEMMA NotAborted ==
  ASSUME NEW c \in Supported, CertificatesInv, IsReading(c),
         NEW o, o = c.objects[1], at \in {"objects", "modulus"}
  PROVE  /\ pc # "abort"
         /\ at = "objects" /\ pc = "return" => Len(Top.objs) = 1 /\ Top.objs[1] = o
         /\ at = "modulus" /\ pc = "return" =>
              \E pair \in Objects : IsPair(pair, c.meant.public_key) /\ Top.objs = <<pair>>
<1>1. SpansInv /\ EncodedInv
  BY DEF CertificatesInv
<1>2. CASE at = "objects"
  <2>1. input = c
    BY <1>2 DEF IsReading
  <2>2. c.encoded /\ c.objects \in Seq(Objects) /\ Len(c.objects) = 1
    BY CertificateParts
  <2>3. input.octets = FlattenSeq(RawOctets(c.objects))
    BY <2>1, <2>2, EncodingsAssumption DEF Supported
  <2>4. pc # "abort" /\ (pc = "return" => Top.objs = c.objects)
    BY <1>1, <2>2, <2>3, ReadInTheEnd
  <2> QED
    BY <1>2, <2>2, <2>4
<1>3. CASE at = "modulus"
  <2>1. PICK pair \in Objects : IsPair(pair, c.meant.public_key) /\ input.octets = pair.raw
    BY <1>3 DEF IsReading
  <2> DEFINE objs == <<pair>>
  <2>2. objs \in Seq(Objects) /\ input.octets = FlattenSeq(RawOctets(objs))
    BY <2>1, FlattenOne
  <2> HIDE DEF objs
  <2>3. pc # "abort" /\ (pc = "return" => Top.objs = objs)
    BY <1>1, <2>2, ReadInTheEnd
  <2> QED
    BY <1>3, <2>1, <2>3 DEF objs
<1> QED
  BY <1>2, <1>3

LEMMA ObjectsAreRead ==
  ASSUME NEW c \in Supported, CertificatesInv, IsReading(c), ReadObjects
  PROVE  IsReading(c)'
<1> DEFINE o == c.objects[1]
           tbs == o.objects[1]
<1>1. at = "objects" /\ pc = "return" /\ UNCHANGED <<input, s, v3>>
  BY DEF ReadObjects, vars
<1>2. /\ o \in Objects /\ Member(o, 1) = tbs /\ tbs.id = 48 /\ IsList(tbs, 8)
  BY CertificateParts
<1>3. Len(Top.objs) = 1 /\ Top.objs[1] = o
  BY <1>1, NotAborted
<1>4. Inside(o, <<1>>) = Member(o, 1)
  <2>1. o \in Objects \cup {Missing}
    BY <1>2
  <2> HIDE DEF o
  <2> QED
    BY ONLY <2>1, ObjectsClosed, InsideOne
<1> HIDE DEF o, tbs
<1>5. Inside(o, <<1>>).id \in ConstructedIds /\ Len(Inside(o, <<1>>).objects) = 8
  BY <1>2, <1>4, Identifiers DEF IsList
<1>6. at' = "version" /\ root' = o
  BY <1>3, <1>5 DEF ReadObjects
<1>7. /\ at' \in BehindObjects /\ at' \notin BehindVersion /\ at' \notin BehindIssuer
      /\ at' \notin BehindValidity /\ at' \notin BehindSubject /\ at' \notin BehindKey
      /\ at \notin BehindValidity
  BY <1>1, <1>6 DEF BehindObjects, BehindVersion, BehindIssuer, BehindValidity, BehindSubject,
              BehindKey
<1> QED
  BY <1>1, <1>6, <1>7 DEF IsReading, o

\* What Read() leaves alone.
LEMMA ReadGoesOn ==
  ASSUME NEW field, NEW value, NEW next, NEW readable, readable, Read(field, readable, value, next)
  PROVE  at = field /\ at' = next /\ v3' = value /\ UNCHANGED <<root, s, input>>
BY DEF Read, vars

LEMMA VersionIsRead ==
  ASSUME NEW c \in Supported, IsReading(c), ReadVersion
  PROVE  IsReading(c)'
<1> DEFINE o == c.objects[1]
           m == c.meant
           tbs == o.objects[1]
           part == tbs.objects
           version == Member(part[1], 1)
           serial == Integer(part[2])
<1>1. /\ Member(o, 1) = tbs /\ IsContents(tbs, m)
      /\ \A k \in 1..8 : part[k] \in Objects
  BY CertificateParts
<1>2. at = "version"
  BY DEF ReadVersion, Read
<1>3. at \in BehindObjects /\ at \notin BehindValidity
  BY <1>2 DEF BehindObjects, BehindVersion, BehindIssuer, BehindValidity, BehindSubject, BehindKey
<1>4. root = o /\ Sequence = part
  BY <1>1, <1>3 DEF IsReading, Sequence
<1>5. /\ part[1].id = 160 /\ Len(part[1].objects) = 1
      /\ IsInteger(part[1].objects[1], 2) /\ m.version = 2
      /\ IsInteger(part[2], m.serial_number)
  BY <1>1 DEF IsContents
<1>6. version = part[1].objects[1]
  <2>5. part[1] \in Objects
    BY <1>1
  <2>1. PICK p \in Objects : p = part[1]
    BY ONLY <2>5
  <2>4. p.id = 160 /\ Len(p.objects) = 1
    BY <1>5, <2>1
  <2>2. p.id \in {48, 49, 160} /\ 1 \in 1..Len(p.objects)
    BY <2>4
  <2>3. Member(p, 1) = p.objects[1]
    BY <2>2, MemberIs
  <2> QED
    BY <2>1, <2>3
<1>7. IsPrimitive(version) /\ Integer(version) = 2 /\ IsPrimitive(part[2]) /\ serial = m.serial_number
  <2>1. IsInteger(version, 2)
    BY <1>5, <1>6
  <2>2. IsInteger(part[2], m.serial_number)
    BY <1>5
  <2> HIDE DEF version, part, m
  <2> QED
    BY <2>1, <2>2, IntegerIsRead
<1>8. Read("version",
           IsPrimitive(version) /\ Integer(version) = 2 /\ IsPrimitive(part[2]),
           [v3 EXCEPT !.version = 2, !.serial_number = serial],
           "signature_algorithm")
  BY <1>4 DEF ReadVersion
<1> HIDE DEF serial, part, version
<1>9. /\ at' = "signature_algorithm" /\ UNCHANGED <<root, s, input>>
      /\ v3' = [[v3 EXCEPT !.version = 2] EXCEPT !.serial_number = serial]
  BY <1>7, <1>8, ReadGoesOn
<1>10. DOMAIN v3 = DOMAIN Empty
  BY DEF IsReading
<1>11. /\ DOMAIN v3' = DOMAIN Empty /\ v3'.version = 2 /\ v3'.serial_number = serial
       /\ v3'.subject_info = v3.subject_info
  BY <1>9, <1>10, EmptyFields
<1>12. /\ at' \in BehindObjects /\ at' \in BehindVersion /\ at' \notin BehindIssuer
       /\ at' \notin BehindValidity /\ at' \notin BehindSubject /\ at' \notin BehindKey
  BY <1>9 DEF BehindObjects, BehindVersion, BehindIssuer, BehindValidity, BehindSubject, BehindKey
<1> QED
  BY <1>3, <1>4, <1>5, <1>7, <1>9, <1>11, <1>12 DEF IsReading

LEMMA AlgorithmStaysRead ==
  ASSUME NEW c \in Supported, IsReading(c), ReadSignatureAlgorithm
  PROVE  IsReading(c)'
<1> DEFINE o == c.objects[1]
           tbs == o.objects[1]
           part == tbs.objects
<1>1. /\ Member(o, 1) = tbs /\ IsContents(tbs, c.meant)
      /\ \A k \in 1..8 : part[k] \in Objects
  BY CertificateParts
<1>2. at = "signature_algorithm"
  BY DEF ReadSignatureAlgorithm, Read
<1>3. at \in BehindObjects /\ at \in BehindVersion /\ at \notin BehindValidity
  BY <1>2 DEF BehindObjects, BehindVersion, BehindIssuer, BehindValidity, BehindSubject, BehindKey
<1>4. root = o /\ Sequence = part
  BY <1>1, <1>3 DEF IsReading, Sequence
<1>5. HasType(part[3], SHA256WithRSAEncryption)
  <2>1. IsAlgorithm(part[3], SHA256WithRSAEncryption)
    BY <1>1 DEF IsContents
  <2>2. part[3] \in Objects
    BY <1>1
  <2> HIDE DEF part
  <2> QED
    BY <2>1, <2>2, AlgorithmIsRead
<1>6. at' = "issuer_info" /\ v3' = v3 /\ UNCHANGED <<root, s, input>>
  BY <1>4, <1>5 DEF ReadSignatureAlgorithm, Read, vars
<1>7. /\ at' \in BehindObjects /\ at' \in BehindVersion /\ at' \notin BehindIssuer
      /\ at' \notin BehindValidity /\ at' \notin BehindSubject /\ at' \notin BehindKey
  BY <1>6 DEF BehindObjects, BehindVersion, BehindIssuer, BehindValidity, BehindSubject, BehindKey
<1> QED
  BY <1>3, <1>6, <1>7 DEF IsReading

LEMMA InsideObject ==
  ASSUME NEW o \in Objects, NEW j, NEW k
  PROVE  Inside(o, <<j, k>>) = Member(Member(o, j), k)
<1>1. o \in Objects \cup {Missing}
  OBVIOUS
<1> QED
  BY <1>1, ObjectsClosed, InsideTwo

\* The attribute k of a name.
LEMMA AttributeInName ==
  ASSUME NEW name \in Objects, name.id = 48, NEW k \in 1..Len(name.objects), NEW types,
         IsAttribute(name.objects[k], types),
         NEW pair, pair = Inside(name, <<k, 1>>)
  PROVE  /\ HasType(pair, TypeOf(name.objects[k]))
         /\ TypeOf(name.objects[k]) \in types
         /\ IsText(Value(pair)) /\ AsOctets(Value(pair)) = ValueOf(name.objects[k])
<1>1. PICK j : j = k
  OBVIOUS
<1>2. Inside(name, <<j, 1>>) = Member(Member(name, j), 1)
  BY InsideObject
<1>3. Member(name, k) = name.objects[k] /\ name.objects[k] \in Objects
  BY MemberIs
<1>4. pair = Member(name.objects[k], 1)
  BY <1>1, <1>2, <1>3
<1> QED
  BY <1>3, <1>4, AttributeIsRead

LEMMA IssuerIsRead ==
  ASSUME NEW c \in Supported, IsReading(c), ReadIssuer
  PROVE  IsReading(c)'
<1> DEFINE o == c.objects[1]
           m == c.meant
           tbs == o.objects[1]
           part == tbs.objects
           Pair(k) == Inside(part[4], <<k, 1>>)
<1>1. /\ Member(o, 1) = tbs /\ IsContents(tbs, m) /\ m \in MeantCert
      /\ part[4] \in Objects
  BY CertificateParts
<1>2. at = "issuer_info"
  BY DEF ReadIssuer, Read
<1>3. at \in BehindObjects /\ at \in BehindVersion /\ at \notin BehindValidity
  BY <1>2 DEF BehindObjects, BehindVersion, BehindIssuer, BehindValidity, BehindSubject, BehindKey
<1>4. root = o /\ Sequence = part
  BY <1>1, <1>3 DEF IsReading, Sequence
<1> DEFINE values == m.issuer_info
           name == part[4]
<1>5. IsIssuer(name, values)
  BY <1>1 DEF IsContents
<1>6. values \in [1..4 -> Octets]
  <2>1. values \in Seq(Octets)
    BY <1>1 DEF MeantCert
  <2>2. Len(values) = 4
    BY <1>5 DEF IsIssuer
  <2> HIDE DEF values
  <2>3. values \in [1..Len(values) -> Octets]
    BY <2>1, LenProperties
  <2> QED
    BY <2>2, <2>3
<1>7. ASSUME NEW k \in 1..4
      PROVE  /\ HasType(Pair(k), IssuerTypes[k]) /\ IsText(Value(Pair(k)))
             /\ AsOctets(Value(Pair(k))) = values[k]
  <2>1. PICK name1 \in Objects : name1 = name
    BY <1>1
  <2>2. /\ name1.id = 48 /\ Len(name1.objects) >= 4
        /\ IsAttribute(name1.objects[k], {IssuerTypes[k]}) /\ values[k] = ValueOf(name1.objects[k])
    BY <1>5, <2>1 DEF IsIssuer
  <2>3. k \in 1..Len(name1.objects)
    <3>1. name1.objects \in Seq(Objects)
      BY ObjectType
    <3>2. Len(name1.objects) \in Nat
      BY <3>1
    <3> QED
      BY <2>2, <3>2
  <2>4. PICK pair : pair = Inside(name1, <<k, 1>>)
    OBVIOUS
  <2>5. /\ HasType(pair, TypeOf(name1.objects[k]))
        /\ TypeOf(name1.objects[k]) \in {IssuerTypes[k]}
        /\ IsText(Value(pair)) /\ AsOctets(Value(pair)) = ValueOf(name1.objects[k])
    BY <2>2, <2>3, <2>4, AttributeInName, ZenonT(30)
  <2>6. Pair(k) = pair
    BY <2>1, <2>4
  <2> QED
    BY <2>2, <2>5, <2>6
<1>8. Read("issuer_info",
           \A k \in 1..4 : HasType(Pair(k), IssuerTypes[k]) /\ IsText(Value(Pair(k))),
           [v3 EXCEPT !.issuer_info = [k \in 1..4 |-> AsOctets(Value(Pair(k)))]],
           "validity")
  <2> HIDE DEF part
  <2> QED
    BY <1>4 DEF ReadIssuer
<1> HIDE DEF Pair, values
<1>9. [k \in 1..4 |-> AsOctets(Value(Pair(k)))] = values
  <2>1. [k \in 1..4 |-> AsOctets(Value(Pair(k)))] = [k \in 1..4 |-> values[k]]
    BY <1>7
  <2>2. values = [k \in 1..4 |-> values[k]]
    BY <1>6
  <2> QED
    BY <2>1, <2>2
<1>10. /\ at' = "validity" /\ UNCHANGED <<root, s, input>>
       /\ v3' = [v3 EXCEPT !.issuer_info = values]
  BY <1>7, <1>8, <1>9, ReadGoesOn
<1>11. DOMAIN v3 = DOMAIN Empty
  BY DEF IsReading
<1>12. /\ DOMAIN v3' = DOMAIN Empty /\ v3'.issuer_info = m.issuer_info
       /\ v3'.version = v3.version /\ v3'.serial_number = v3.serial_number
       /\ v3'.subject_info = v3.subject_info
  BY <1>10, <1>11, EmptyFields DEF values
<1>13. /\ at' \in BehindObjects /\ at' \in BehindVersion /\ at' \in BehindIssuer
       /\ at' \notin BehindValidity /\ at' \notin BehindSubject /\ at' \notin BehindKey
  BY <1>10 DEF BehindObjects, BehindVersion, BehindIssuer, BehindValidity, BehindSubject, BehindKey
<1> HIDE DEF part, name
<1> QED
  BY <1>3, <1>4, <1>10, <1>12, <1>13 DEF IsReading

LEMMA ValidityIsRead ==
  ASSUME NEW c \in Supported, IsReading(c), ReadValidity
  PROVE  IsReading(c)'
<1> DEFINE o == c.objects[1]
           m == c.meant
           tbs == o.objects[1]
           part == tbs.objects
           Bound(k) == Member(part[5], k)
<1>1. /\ Member(o, 1) = tbs /\ IsContents(tbs, m) /\ m \in MeantCert
      /\ part[5] \in Objects /\ part[6] \in Objects
  BY CertificateParts, SMTT(30)
<1>2. at = "validity"
  BY DEF ReadValidity, Read
<1>3. /\ at \in BehindObjects /\ at \in BehindVersion /\ at \in BehindIssuer
      /\ at \notin BehindValidity
  BY <1>2 DEF BehindObjects, BehindVersion, BehindIssuer, BehindValidity, BehindSubject, BehindKey
<1>4. root = o /\ Sequence = part
  BY <1>1, <1>3 DEF IsReading, Sequence
<1>5. /\ IsList(part[5], 2)
      /\ IsTime(part[5].objects[1], m.valid_not_before)
      /\ IsTime(part[5].objects[2], m.valid_not_after)
      /\ part[6].id = 48
  BY <1>1 DEF IsContents, IsSubject
<1>6. Bound(1) = part[5].objects[1] /\ Bound(2) = part[5].objects[2]
  <2>1. PICK p \in Objects : p = part[5]
    BY <1>1
  <2>2. IsList(p, 2)
    BY <1>5, <2>1
  <2>3. \A k \in 1..2 : Member(p, k) = p.objects[k]
    BY <2>2, ListMembers
  <2>4. Member(p, 1) = p.objects[1] /\ Member(p, 2) = p.objects[2]
    BY <2>3
  <2> QED
    BY <2>1, <2>4
<1>7. /\ IsUtc(Bound(1)) /\ Utc(Bound(1)) = m.valid_not_before
      /\ IsUtc(Bound(2)) /\ Utc(Bound(2)) = m.valid_not_after
  <2>1. IsTime(Bound(1), m.valid_not_before) /\ IsTime(Bound(2), m.valid_not_after)
    BY <1>5, <1>6
  <2> HIDE DEF Bound, m
  <2> QED
    BY <2>1, TimeIsRead
<1>8. part[6].id \in ConstructedIds
  <2> HIDE DEF part, m, Bound
  <2>1. part[6].id = 48
    BY <1>5
  <2> QED
    BY <2>1, Identifiers
<1>9. Read("validity",
           IsUtc(Bound(1)) /\ IsUtc(Bound(2)) /\ part[6].id \in ConstructedIds,
           [v3 EXCEPT !.valid_not_before = Utc(Bound(1)), !.valid_not_after = Utc(Bound(2))],
           "subject_info")
  BY <1>4 DEF ReadValidity
<1> HIDE DEF Bound
<1>10. /\ at' = "subject_info" /\ UNCHANGED <<root, s, input>>
       /\ v3' = [[v3 EXCEPT !.valid_not_before = m.valid_not_before]
                    EXCEPT !.valid_not_after = m.valid_not_after]
  BY <1>7, <1>8, <1>9, ReadGoesOn
<1>11. DOMAIN v3 = DOMAIN Empty
  BY DEF IsReading
<1> HIDE DEF part
<1>12. /\ DOMAIN v3' = DOMAIN Empty /\ v3'.valid_not_before = m.valid_not_before
       /\ v3'.valid_not_after = m.valid_not_after
       /\ v3'.version = v3.version /\ v3'.serial_number = v3.serial_number
       /\ v3'.issuer_info = v3.issuer_info /\ v3'.subject_info = v3.subject_info
  BY <1>10, <1>11, EmptyFields
<1>13. /\ at' \in BehindObjects /\ at' \in BehindVersion /\ at' \in BehindIssuer
       /\ at' \in BehindValidity /\ at' \notin BehindSubject /\ at' \notin BehindKey
  BY <1>10 DEF BehindObjects, BehindVersion, BehindIssuer, BehindValidity, BehindSubject, BehindKey
<1> DEFINE subject == part[6].objects
<1>14. s' = 0 /\ v3'.subject_info = Empty.subject_info
  BY <1>3, <1>10, <1>12 DEF IsReading
<1>15. s' \in 0..Len(subject) /\ SubjectRead(subject, s', v3'.subject_info)
  <2>1. subject \in Seq(Objects)
    BY <1>1, ObjectType
  <2>2. Len(subject) \in Nat
    BY <2>1
  <2>3. \A type \in SubjectTypes : v3'.subject_info[type] = <<>>
    BY <1>14 DEF Empty
  <2>4. \A k \in 1..0 : FALSE
    OBVIOUS
  <2> QED
    BY <1>14, <2>2, <2>3, <2>4 DEF SubjectRead
<1>16. subject = c.objects[1].objects[1].objects[6].objects
  BY DEF part
<1> HIDE DEF subject
<1> QED
  BY <1>3, <1>4, <1>10, <1>12, <1>13, <1>15, <1>16 DEF IsReading

LEMMA OneMoreAttribute ==
  ASSUME NEW objs, NEW n \in Nat, NEW values, DOMAIN values = SubjectTypes,
         SubjectRead(objs, n, values),
         NEW type \in SubjectTypes, TypeOf(objs[n + 1]) = type,
         NEW more, more = [values EXCEPT ![type] = ValueOf(objs[n + 1])]
  PROVE  SubjectRead(objs, n + 1, more)
<1> SUFFICES ASSUME NEW t \in SubjectTypes
             PROVE  \/ more[t] = <<>> /\ \A k \in 1..(n + 1) : TypeOf(objs[k]) # t
                    \/ \E k \in 1..(n + 1) :
                         /\ TypeOf(objs[k]) = t /\ more[t] = ValueOf(objs[k])
                         /\ \A j \in 1..(n + 1) : j > k => TypeOf(objs[j]) # t
  BY DEF SubjectRead
<1>1. CASE t = type
  <2>1. more[t] = ValueOf(objs[n + 1])
    BY <1>1
  <2>2. n + 1 \in 1..(n + 1) /\ \A j \in 1..(n + 1) : ~(j > n + 1)
    OBVIOUS
  <2> QED
    BY <1>1, <2>1, <2>2
<1>2. CASE t # type
  <2>1. more[t] = values[t]
    BY <1>2
  <2>2. \A k \in 1..(n + 1) : k = n + 1 \/ k \in 1..n
    OBVIOUS
  <2>3. TypeOf(objs[n + 1]) # t
    BY <1>2
  <2>4. CASE values[t] = <<>> /\ \A k \in 1..n : TypeOf(objs[k]) # t
    BY <2>1, <2>2, <2>3, <2>4
  <2>5. CASE \E k \in 1..n :
               /\ TypeOf(objs[k]) = t /\ values[t] = ValueOf(objs[k])
               /\ \A j \in 1..n : j > k => TypeOf(objs[j]) # t
    <3>1. PICK k \in 1..n :
            /\ TypeOf(objs[k]) = t /\ values[t] = ValueOf(objs[k])
            /\ \A j \in 1..n : j > k => TypeOf(objs[j]) # t
      BY <2>5
    <3>2. k \in 1..(n + 1)
      OBVIOUS
    <3>3. \A j \in 1..(n + 1) : j > k => TypeOf(objs[j]) # t
      BY <2>2, <2>3, <3>1
    <3> QED
      BY <2>1, <3>1, <3>2, <3>3
  <2> QED
    BY <2>4, <2>5 DEF SubjectRead
<1> QED
  BY <1>1, <1>2

LEMMA SubjectIsRead ==
  ASSUME NEW c \in Supported, IsReading(c), ReadSubject
  PROVE  IsReading(c)'
<1> DEFINE o == c.objects[1]
           m == c.meant
           tbs == o.objects[1]
           part == tbs.objects
           subject == part[6].objects
<1>1. /\ Member(o, 1) = tbs /\ IsContents(tbs, m) /\ m \in MeantCert
      /\ part[6] \in Objects
  BY ONLY c \in Supported, CertificateParts, SMTT(30)
<1>2. at = "subject_info"
  BY ONLY ReadSubject DEF ReadSubject
<1>3. /\ at \in BehindObjects /\ at \in BehindVersion /\ at \in BehindIssuer
      /\ at \in BehindValidity /\ at \notin BehindSubject /\ at \notin BehindKey
  BY <1>2 DEF BehindObjects, BehindVersion, BehindIssuer, BehindValidity, BehindSubject, BehindKey
<1>4. root = o /\ Sequence = part
  BY <1>1, <1>3 DEF IsReading, Sequence
<1>5. part[6].id = 48 /\ \A k \in DOMAIN subject : IsAttribute(subject[k], SubjectTypes)
  BY <1>1 DEF IsContents, IsSubject
<1>6. PICK name \in Objects : name = part[6]
  BY <1>1
<1>7. name.objects \in Seq(Objects) /\ subject = name.objects
  BY <1>6, ObjectType
<1>8. s \in 0..Len(subject) /\ SubjectRead(subject, s, v3.subject_info)
  BY <1>2 DEF IsReading
<1> DEFINE pair == Inside(part[6], <<s + 1, 1>>)
<1>9. /\ s < Len(subject)
      /\ \/ \E type \in SubjectTypes :
              /\ HasType(pair, type) /\ IsText(Value(pair))
              /\ v3' = [v3 EXCEPT !.subject_info[type] = AsOctets(Value(pair))]
              /\ s' = s + 1
              /\ at' = at
         \/ ~(IsText(Value(pair)) /\ \E type \in SubjectTypes : HasType(pair, type))
      /\ UNCHANGED <<input, root>>
  <2> HIDE DEF part
  <2> QED
    BY <1>4 DEF ReadSubject, vars
<1> HIDE DEF subject
<1>10. s \in Nat /\ s + 1 \in 1..Len(subject) /\ DOMAIN subject = 1..Len(subject)
       /\ s + 1 \in 0..Len(subject)
  <2>1. Len(subject) \in Nat /\ DOMAIN subject = 1..Len(subject)
    BY ONLY <1>7
  <2>2. s \in 0..Len(subject) /\ s < Len(subject)
    BY ONLY <1>8, <1>9
  <2> QED
    BY ONLY <2>1, <2>2
<1> DEFINE k1 == s + 1
           type1 == TypeOf(subject[k1])
           value1 == ValueOf(subject[k1])
<1>11. /\ HasType(pair, type1) /\ type1 \in SubjectTypes
       /\ IsText(Value(pair)) /\ AsOctets(Value(pair)) = value1
  <2>1. PICK k \in 1..Len(name.objects) : k = k1
    BY <1>7, <1>10
  <2>2. name.id = 48 /\ IsAttribute(name.objects[k], SubjectTypes)
    BY <1>5, <1>6, <1>7, <1>10
  <2>3. PICK p : p = Inside(name, <<k, 1>>)
    OBVIOUS
  <2>4. /\ HasType(p, TypeOf(name.objects[k]))
        /\ TypeOf(name.objects[k]) \in SubjectTypes
        /\ IsText(Value(p)) /\ AsOctets(Value(p)) = ValueOf(name.objects[k])
    BY ONLY <1>6, <2>1, <2>2, <2>3, AttributeInName, ZenonT(90)
  <2>5. p = pair
    BY <1>6, <2>1, <2>3
  <2>6. type1 = TypeOf(name.objects[k]) /\ value1 = ValueOf(name.objects[k])
    BY <1>7, <2>1
  <2> HIDE DEF pair, type1, value1
  <2> QED
    BY <2>4, <2>5, <2>6
<1> HIDE DEF pair, part, type1, value1
<1>12. /\ v3' = [v3 EXCEPT !.subject_info = [v3.subject_info EXCEPT ![type1] = value1]]
       /\ s' = s + 1 /\ at' = "subject_info" /\ UNCHANGED <<input, root>>
  <2>1. PICK type \in SubjectTypes :
          /\ HasType(pair, type)
          /\ v3' = [v3 EXCEPT !.subject_info[type] = AsOctets(Value(pair))]
          /\ s' = s + 1
          /\ at' = at
    BY <1>9, <1>11
  <2>2. type = type1
    BY <1>11, <2>1, SameType
  <2> QED
    BY <1>2, <1>9, <1>11, <2>1, <2>2
<1>13. DOMAIN v3 = DOMAIN Empty
       /\ v3.subject_info = [type \in SubjectTypes |-> v3.subject_info[type]]
  BY DEF IsReading
<1> DEFINE values == v3.subject_info
           more == [values EXCEPT ![type1] = value1]
<1>14. DOMAIN values = SubjectTypes
  BY <1>13
<1>15. DOMAIN more = SubjectTypes /\ more = [type \in SubjectTypes |-> more[type]]
  BY <1>14
<1>16. SubjectRead(subject, s + 1, more)
  <2>1. TypeOf(subject[s + 1]) = type1
    BY DEF type1
  <2>2. more = [values EXCEPT ![type1] = ValueOf(subject[s + 1])]
    BY DEF value1
  <2>3. SubjectRead(subject, s, values)
    BY <1>8
  <2> HIDE DEF values, more
  <2> QED
    BY <1>10, <1>11, <1>14, <2>1, <2>2, <2>3, OneMoreAttribute
<1>17. /\ DOMAIN v3' = DOMAIN Empty /\ v3'.subject_info = more
       /\ v3'.version = v3.version /\ v3'.serial_number = v3.serial_number
       /\ v3'.issuer_info = v3.issuer_info
       /\ v3'.valid_not_before = v3.valid_not_before /\ v3'.valid_not_after = v3.valid_not_after
  BY <1>12, <1>13, EmptyFields
<1>18. subject = c.objects[1].objects[1].objects[6].objects
  BY DEF part, subject
<1>19. s' \in 0..Len(subject) /\ SubjectRead(subject, s', v3'.subject_info)
  BY <1>10, <1>12, <1>16, <1>17
<1>20. v3'.subject_info = [type \in SubjectTypes |-> v3'.subject_info[type]]
  BY <1>15, <1>17
<1>21. at' = at /\ root' = o
  BY <1>2, <1>4, <1>12
<1>22. /\ v3.version = m.version /\ v3.serial_number = m.serial_number
       /\ v3.issuer_info = m.issuer_info
       /\ v3.valid_not_before = m.valid_not_before /\ v3.valid_not_after = m.valid_not_after
  BY <1>3 DEF IsReading
<1> HIDE DEF values, more, subject, o
<1> QED
  BY <1>2, <1>3, <1>17, <1>18, <1>19, <1>20, <1>21, <1>22 DEF IsReading, o

\* Only one attribute of a type is the last one.
LEMMA SubjectIsWhole ==
  ASSUME NEW o, o.objects \in Seq(Objects), NEW v, IsSubject(o, v),
         NEW w, SubjectRead(o.objects, Len(o.objects), w),
         v = [type \in SubjectTypes |-> v[type]], w = [type \in SubjectTypes |-> w[type]]
  PROVE  w = v
<1> DEFINE objs == o.objects
           n == Len(objs)
<1>1. n \in Nat /\ DOMAIN objs = 1..n
  OBVIOUS
<1>2. \A type \in SubjectTypes :
        \/ v[type] = <<>> /\ \A k \in 1..n : TypeOf(objs[k]) # type
        \/ \E k \in 1..n :
             /\ TypeOf(objs[k]) = type /\ v[type] = ValueOf(objs[k])
             /\ \A j \in 1..n : j > k => TypeOf(objs[j]) # type
  BY <1>1 DEF IsSubject
<1>3. \A type \in SubjectTypes :
        \/ w[type] = <<>> /\ \A k \in 1..n : TypeOf(objs[k]) # type
        \/ \E k \in 1..n :
             /\ TypeOf(objs[k]) = type /\ w[type] = ValueOf(objs[k])
             /\ \A j \in 1..n : j > k => TypeOf(objs[j]) # type
  BY DEF SubjectRead
<1> HIDE DEF objs, n
<1>4. ASSUME NEW type \in SubjectTypes PROVE w[type] = v[type]
  <2>1. CASE \A k \in 1..n : TypeOf(objs[k]) # type
    BY <1>2, <1>3, <2>1
  <2>2. CASE \E k \in 1..n : TypeOf(objs[k]) = type
    <3>1. PICK k \in 1..n :
            /\ TypeOf(objs[k]) = type /\ v[type] = ValueOf(objs[k])
            /\ \A j \in 1..n : j > k => TypeOf(objs[j]) # type
      BY <1>2, <2>2
    <3>2. PICK j \in 1..n :
            /\ TypeOf(objs[j]) = type /\ w[type] = ValueOf(objs[j])
            /\ \A i \in 1..n : i > j => TypeOf(objs[i]) # type
      BY <1>3, <2>2
    <3>3. ~(j > k) /\ ~(k > j)
      BY <3>1, <3>2
    <3>4. j = k
      BY <1>1, <3>3
    <3> QED
      BY <3>1, <3>2, <3>4
  <2> QED
    BY <2>1, <2>2
<1> QED
  BY <1>4

LEMMA KeyIsRead ==
  ASSUME NEW c \in Supported, IsReading(c), ReadKey
  PROVE  IsReading(c)'
<1> DEFINE o == c.objects[1]
           m == c.meant
           tbs == o.objects[1]
           part == tbs.objects
           bits == Member(part[7], 2)
<1>1. /\ Member(o, 1) = tbs /\ IsContents(tbs, m) /\ m \in MeantCert
      /\ part[6] \in Objects /\ part[7] \in Objects
  BY CertificateParts
<1>2. at = "subject_info" /\ s = Len(Sequence[6].objects) /\ UNCHANGED <<root, s, v3>>
  BY DEF ReadKey
<1>3. /\ at \in BehindObjects /\ at \in BehindVersion /\ at \in BehindIssuer
      /\ at \in BehindValidity
  BY <1>2 DEF BehindObjects, BehindVersion, BehindIssuer, BehindValidity, BehindSubject, BehindKey
<1>4. root = o /\ Sequence = part
  BY <1>1, <1>3 DEF IsReading, Sequence
<1>5. IsKey(part[7], m.public_key)
  BY <1>1 DEF IsContents
<1>6. PICK key \in Objects : key = part[7]
  BY <1>1
<1>7. /\ IsList(key, 2) /\ IsAlgorithm(key.objects[1], RsaEncryption)
      /\ HasBits(key.objects[2])
  BY <1>5, <1>6 DEF IsKey
<1>8. PICK pair \in Objects : Bits(key.objects[2]) = pair.raw /\ IsPair(pair, m.public_key)
  BY <1>5, <1>6 DEF IsKey, IsPair
<1>9. \A k \in 1..2 : Member(key, k) = key.objects[k] /\ key.objects[k] \in Objects
  BY <1>7, ListMembers
<1>10. HasType(Member(part[7], 1), RsaEncryption)
  <2>1. key.objects[1] \in Objects /\ Member(key, 1) = key.objects[1]
    BY <1>9
  <2> QED
    BY <1>6, <1>7, <2>1, AlgorithmIsRead
<1>11. bits = key.objects[2] /\ key.objects[2] \in Objects
  <2>1. Member(key, 2) = key.objects[2] /\ key.objects[2] \in Objects
    BY <1>9
  <2> QED
    BY <1>6, <2>1
<1>12. /\ IsPrimitive(bits) /\ bits.octets # <<>> /\ bits.octets[1] = 0
       /\ Tail(bits.octets) = pair.raw
  BY <1>7, <1>8, <1>11, SignatureIsRead DEF HasBits, Bits
<1> HIDE DEF bits
<1>13. ParseRaw([octets |-> Tail(bits.octets), encoded |-> FALSE, objects |-> <<>>])
       /\ at' = "modulus"
  BY <1>4, <1>10, <1>12 DEF ReadKey, bits
<1>14. input'.octets = pair.raw
  BY <1>12, <1>13 DEF ParseRaw
<1>15. v3.subject_info = m.subject_info
  <2> DEFINE v == m.subject_info
             w == v3.subject_info
  <2>1. PICK name \in Objects : name = part[6]
    BY <1>1
  <2>2. name.objects \in Seq(Objects)
    BY ObjectType
  <2>3. IsSubject(name, v)
    BY <1>1, <2>1 DEF IsContents
  <2>4. SubjectRead(name.objects, Len(name.objects), w) /\ w = [type \in SubjectTypes |-> w[type]]
    BY <1>2, <1>4, <2>1 DEF IsReading
  <2>5. v = [type \in SubjectTypes |-> v[type]]
    <3>1. v \in [SubjectTypes -> Octets]
      BY <1>1 DEF MeantCert
    <3> HIDE DEF v
    <3> QED
      BY <3>1
  <2> HIDE DEF v, w
  <2>6. w = v
    BY <2>2, <2>3, <2>4, <2>5, SubjectIsWhole
  <2> QED
    BY <2>6 DEF v, w
<1>16. /\ at' \in BehindObjects /\ at' \in BehindVersion /\ at' \in BehindIssuer
       /\ at' \in BehindValidity /\ at' \in BehindSubject /\ at' \notin BehindKey
  BY <1>13 DEF BehindObjects, BehindVersion, BehindIssuer, BehindValidity, BehindSubject, BehindKey
<1>17. \E p \in Objects : IsPair(p, m.public_key) /\ input'.octets = p.raw
  BY <1>8, <1>14
<1> HIDE DEF part
<1> QED
  BY <1>2, <1>3, <1>4, <1>13, <1>15, <1>16, <1>17 DEF IsReading

LEMMA ModulusIsRead ==
  ASSUME NEW c \in Supported, CertificatesInv, IsReading(c), ReadModulus
  PROVE  IsReading(c)'
<1> DEFINE m == c.meant
           Part(k) == IF Top.objs = <<>> THEN Missing ELSE Member(Top.objs[1], k)
<1>1. m \in MeantCert
  BY CertificateParts
<1>2. at = "modulus" /\ pc = "return"
  BY DEF ReadModulus, Read
<1>3. /\ at \in BehindObjects /\ at \in BehindVersion /\ at \in BehindIssuer
      /\ at \in BehindValidity /\ at \in BehindSubject
  BY <1>2 DEF BehindObjects, BehindVersion, BehindIssuer, BehindValidity, BehindSubject, BehindKey
<1>4. PICK pair \in Objects : IsPair(pair, m.public_key) /\ Top.objs = <<pair>>
  <2>1. PICK o : o = c.objects[1]
    OBVIOUS
  <2> QED
    BY <1>2, <2>1, NotAborted
<1>5. IsList(pair, 2) /\ IsInteger(pair.objects[1], m.public_key.n)
      /\ IsInteger(pair.objects[2], m.public_key.e)
  BY <1>4 DEF IsPair
<1>6. Top.objs # <<>> /\ Top.objs[1] = pair
  BY <1>4
<1>7. Part(1) = pair.objects[1] /\ Part(2) = pair.objects[2]
  BY <1>5, <1>6, ListMembers
<1> DEFINE nn == m.public_key.n
           ee == m.public_key.e
<1>8. /\ IsPrimitive(Part(1)) /\ Integer(Part(1)) = nn
      /\ IsPrimitive(Part(2)) /\ Integer(Part(2)) = ee
  <2>1. IsInteger(Part(1), nn) /\ IsInteger(Part(2), ee)
    BY <1>5, <1>7
  <2> HIDE DEF Part, nn, ee
  <2> QED
    BY <2>1, IntegerIsRead
<1>9. Read("modulus", IsPrimitive(Part(1)) /\ IsPrimitive(Part(2)),
           [v3 EXCEPT !.public_key = [n |-> Integer(Part(1)), e |-> Integer(Part(2))]],
           "signature")
  BY DEF ReadModulus
<1> HIDE DEF Part
<1>10. m.public_key = [n |-> nn, e |-> ee]
  BY <1>1 DEF MeantCert, PublicKey
<1>11. /\ at' = "signature" /\ UNCHANGED <<root, s, input>>
       /\ v3' = [v3 EXCEPT !.public_key = m.public_key]
  <2>1. [n |-> Integer(Part(1)), e |-> Integer(Part(2))] = m.public_key
    BY <1>8, <1>10
  <2> QED
    BY <1>8, <1>9, <2>1, ReadGoesOn
<1>12. DOMAIN v3 = DOMAIN Empty
  BY DEF IsReading
<1>13. /\ DOMAIN v3' = DOMAIN Empty /\ v3'.public_key = m.public_key
       /\ v3'.version = v3.version /\ v3'.serial_number = v3.serial_number
       /\ v3'.issuer_info = v3.issuer_info /\ v3'.subject_info = v3.subject_info
       /\ v3'.valid_not_before = v3.valid_not_before /\ v3'.valid_not_after = v3.valid_not_after
  BY <1>11, <1>12, EmptyFields
<1>14. /\ at' \in BehindObjects /\ at' \in BehindVersion /\ at' \in BehindIssuer
       /\ at' \in BehindValidity /\ at' \in BehindSubject /\ at' \in BehindKey
  BY <1>11 DEF BehindObjects, BehindVersion, BehindIssuer, BehindValidity, BehindSubject, BehindKey
<1> QED
  BY <1>3, <1>11, <1>13, <1>14 DEF IsReading

LEMMA LastFieldsAreRead ==
  ASSUME NEW c \in Supported, IsReading(c), ReadSignature
  PROVE  IsReading(c)'
<1> DEFINE o == c.objects[1]
           m == c.meant
           tbs == o.objects[1]
<1>1. /\ Member(o, 1) = tbs /\ Member(o, 2) = o.objects[2] /\ Member(o, 3) = o.objects[3]
      /\ o.objects[2] \in Objects /\ o.objects[3] \in Objects
      /\ IsContents(tbs, m) /\ IsCertificate(o, m)
  BY CertificateParts
<1>2. at = "signature"
  BY DEF ReadSignature, Read
<1>3. /\ at \in BehindObjects /\ at \in BehindVersion /\ at \in BehindIssuer
      /\ at \in BehindValidity /\ at \in BehindSubject /\ at \in BehindKey
  BY <1>2 DEF BehindObjects, BehindVersion, BehindIssuer, BehindValidity, BehindSubject, BehindKey
<1>4. root = o
  BY <1>3 DEF IsReading
<1>5. HasType(Member(root, 2), SHA256WithRSAEncryption)
  <2>1. PICK p \in Objects : p = o.objects[2]
    BY <1>1
  <2>2. IsAlgorithm(p, SHA256WithRSAEncryption)
    BY <1>1, <2>1 DEF IsCertificate
  <2>3. Member(root, 2) = p
    BY <1>1, <1>4, <2>1
  <2> QED
    BY <2>2, <2>3, AlgorithmIsRead
<1>6. IsPrimitive(Member(root, 3)) /\ Integer(Member(root, 3)) = m.signature
  <2>1. PICK p \in Objects : p = o.objects[3]
    BY <1>1
  <2>2. HasBits(p) /\ m.signature = BigEndian(Bits(p))
    BY <1>1, <2>1 DEF IsCertificate
  <2>3. Member(root, 3) = p
    BY <1>1, <1>4, <2>1
  <2> HIDE DEF m
  <2> QED
    BY <2>2, <2>3, SignatureIsRead
<1>7. RawBytes = m.raw_bytes
  <2>1. m.raw_bytes = tbs.raw
    BY <1>1 DEF IsContents
  <2> QED
    BY <1>1, <1>4, <2>1 DEF RawBytes
<1> HIDE DEF o, tbs
<1>8. /\ at' = "returned" /\ UNCHANGED <<root, s, input>>
      /\ v3' = [[v3 EXCEPT !.signature = m.signature] EXCEPT !.raw_bytes = m.raw_bytes]
  <2>1. Read("signature", TRUE,
             [[v3 EXCEPT !.signature = m.signature] EXCEPT !.raw_bytes = m.raw_bytes], "returned")
    BY <1>5, <1>6, <1>7 DEF ReadSignature
  <2> QED
    BY <2>1, ReadGoesOn
<1>9. DOMAIN v3 = DOMAIN Empty
  BY DEF IsReading
<1>10. /\ DOMAIN v3' = DOMAIN Empty /\ v3'.signature = m.signature /\ v3'.raw_bytes = m.raw_bytes
       /\ v3'.version = v3.version /\ v3'.serial_number = v3.serial_number
       /\ v3'.issuer_info = v3.issuer_info /\ v3'.subject_info = v3.subject_info
       /\ v3'.valid_not_before = v3.valid_not_before /\ v3'.valid_not_after = v3.valid_not_after
       /\ v3'.public_key = v3.public_key
  BY <1>8, <1>9, EmptyFields
<1>11. /\ at' \in BehindObjects /\ at' \in BehindVersion /\ at' \in BehindIssuer
       /\ at' \in BehindValidity /\ at' \in BehindSubject /\ at' \in BehindKey
  BY <1>8 DEF BehindObjects, BehindVersion, BehindIssuer, BehindValidity, BehindSubject, BehindKey
<1> QED
  BY <1>3, <1>8, <1>10, <1>11 DEF IsReading

LEMMA InitMeaning == CertificatesInit => MeaningInv
BY DEF CertificatesInit, MeaningInv

LEMMA StepReads ==
  ASSUME NEW c \in Supported, CertificatesInv, IsReading(c), ParseStep
  PROVE  IsReading(c)'
<1>1. CASE ParseRawStep
  <2>1. UNCHANGED <<at, root, s, v3, input>>
    BY <1>1, StepParsing DEF ParseRawStep, x509Vars
  <2> QED
    BY <2>1, SameReading
<1>2. CASE ParseRawAborts
  <2>1. at \in {"objects", "modulus"} /\ pc = "abort"
    BY <1>2 DEF ParseRawAborts
  <2>2. PICK o : o = c.objects[1]
    OBVIOUS
  <2> QED
    BY <2>1, <2>2, NotAborted
<1> QED
  BY <1>1, <1>2, ObjectsAreRead, VersionIsRead, AlgorithmStaysRead, IssuerIsRead, ValidityIsRead,
     SubjectIsRead, KeyIsRead, ModulusIsRead, LastFieldsAreRead DEF ParseStep

LEMMA NextMeaning ==
  ASSUME CertificatesInv, MeaningInv, [CertificatesNext]_allVars
  PROVE  MeaningInv'
<1> SUFFICES ASSUME at' # "idle", NEW c \in Supported, c = Current'
             PROVE  IsReading(c)'
  BY DEF MeaningInv
<1>1. CASE BeginCertificate
  <2>1. Current' = Current
    BY <1>1, BeginStarts DEF CertificatesInv, Current
  <2>2. BeginParse(c)
    BY <1>1, <2>1 DEF BeginCertificate
  <2> QED
    BY <2>2, BeginsReading
<1>2. CASE ParseCertificate
  <2>1. ParseStep /\ UNCHANGED <<message, chain>>
    BY <1>2 DEF ParseCertificate, messageVars
  <2>2. Current' = Current
    BY <2>1 DEF Current
  <2>3. at # "idle"
    BY <2>1, ParseIsBusy
  <2>4. IsReading(c)
    BY <2>2, <2>3 DEF MeaningInv
  <2> QED
    BY <2>1, <2>4, StepReads
<1>3. CASE EndCertificate
  BY <1>3 DEF EndCertificate
<1>4. CASE VerifyChain \/ CertificatesTerminated \/ UNCHANGED allVars
  <2>1. at # "idle" /\ UNCHANGED <<message, chain>> /\ UNCHANGED <<at, root, s, v3, input>>
    BY <1>4 DEF VerifyChain, CertificatesTerminated, allVars, vars, x509Vars, messageVars
  <2>2. Current' = Current
    BY <2>1 DEF Current
  <2>3. IsReading(c)
    BY <2>1, <2>2 DEF MeaningInv
  <2> QED
    BY <2>1, <2>3, SameReading
<1> QED
  BY <1>1, <1>2, <1>3, <1>4 DEF CertificatesNext

LEMMA MeaningReads ==
  ASSUME CertificatesInv, MeaningInv
  PROVE  ReadsCertificate
<1> SUFFICES ASSUME at \in {"refused", "returned"}, Current.profile
             PROVE  at = "returned" /\ \A f \in DOMAIN v3 : v3[f] = Current.meant[f]
  BY DEF ReadsCertificate
<1>1. PICK c : c = Current
  OBVIOUS
<1>2. c \in Inputs
  BY <1>1, CurrentType DEF CertificatesInv, MessageInv
<1>3. IsReading(c)
  BY <1>1, <1>2 DEF MeaningInv, Supported
<1>4. at = "returned"
  BY <1>3 DEF IsReading, BehindObjects, BehindVersion, BehindIssuer, BehindValidity, BehindSubject,
              BehindKey
<1>5. /\ at \in BehindVersion /\ at \in BehindIssuer /\ at \in BehindValidity
      /\ at \in BehindSubject /\ at \in BehindKey
  BY <1>4 DEF BehindObjects, BehindVersion, BehindIssuer, BehindValidity, BehindSubject, BehindKey
<1> DEFINE m == c.meant
<1>6. /\ v3.version = m.version /\ v3.serial_number = m.serial_number
      /\ v3.issuer_info = m.issuer_info
      /\ v3.valid_not_before = m.valid_not_before /\ v3.valid_not_after = m.valid_not_after
      /\ v3.subject_info = m.subject_info /\ v3.public_key = m.public_key
      /\ v3.signature = m.signature /\ v3.raw_bytes = m.raw_bytes
      /\ DOMAIN v3 = DOMAIN Empty
  BY <1>3, <1>4, <1>5 DEF IsReading
<1> HIDE DEF m
<1>7. \A f \in DOMAIN v3 : v3[f] = m[f]
  BY <1>6, EmptyFields
<1> QED
  BY <1>1, <1>4, <1>7 DEF m

\* Whatever certificate of the supported form, and wherever in a message, it is not
\* refused and gives exactly the fields it encodes: the version and the serial
\* number, issuer and subject with the last attribute of a type, both dates with
\* their century, the key out of the encoding inside and the octets that are signed
\* (certparser.cpp:302-430, certparser.h:160-212).
THEOREM ReadsWhatIsMeant == CertificatesSpec => []ReadsCertificate
<1>1. CertificatesInv /\ MeaningInv /\ [CertificatesNext]_allVars => MeaningInv'
  BY NextMeaning
<1>2. CertificatesInv /\ MeaningInv => ReadsCertificate
  BY MeaningReads
<1> QED
  BY InitMeaning, CertificatesInvAlways, <1>1, <1>2, PTL DEF CertificatesSpec, allVars

-----------------------------------------------------------------------------
(* A certificate of the syntax, field after field: what is behind a field fits *)
(* what the code looks for in it.                                             *)

Conformant == {c \in Inputs : Conforming(c)}
TbsOf(c)   == c.objects[1].objects[1]

VersionFits(tbs) == BigEndian(tbs.objects[1].objects[1].octets) = 2
IssuerFits(name) ==
  Len(name.objects) >= 4
    /\ \A k \in 1..4 : IsAttribute(name.objects[k], {IssuerTypes[k]})
DateFits(date) == date.id = 23 /\ Len(date.octets) = 13 /\ date.octets[13] = 90
SubjectFits(name, n) == \A k \in 1..n : IsAttribute(name.objects[k], SubjectTypes)
KeyFits(o) == IsAlgorithm(o.objects[1], RsaEncryption) /\ HasBits(o.objects[2])
HasKey(o)  == \E key \in Objects : HoldsIntegers(o.objects[2], key) /\ Len(key.objects) = 2

\* The fields read so far have passed what c is refused for.
IsSifting(c) ==
  LET part == TbsOf(c).objects IN
    /\ at = "objects" => input = c
    /\ at \in BehindObjects =>
         root = c.objects[1] /\ Len(c.objects) = 1 /\ Len(part) = 8
    /\ at \in BehindVersion => VersionFits(TbsOf(c))
    /\ at \in {"issuer_info"} \cup BehindIssuer => IsAlgorithm(part[3], SHA256WithRSAEncryption)
    /\ at \in BehindIssuer => IssuerFits(part[4])
    /\ at \in BehindValidity => DateFits(part[5].objects[1]) /\ DateFits(part[5].objects[2])
    /\ at \in ({"objects"} \cup BehindObjects) \ BehindValidity => s = 0
    /\ at = "subject_info" => s \in Nat /\ SubjectFits(part[6], s)
    /\ at \in BehindSubject => SubjectFits(part[6], Len(part[6].objects)) /\ KeyFits(part[7])
    /\ at = "modulus" =>
         \E key \in Objects : HoldsIntegers(part[7].objects[2], key) /\ input.octets = key.raw
    /\ at \in BehindKey => HasKey(part[7])
    /\ at = "returned" => IsAlgorithm(c.objects[1].objects[2], SHA256WithRSAEncryption)

SiftInv == at # "idle" => \A c \in Conformant : c = Current => IsSifting(c)

LEMMA ConformingParts ==
  ASSUME NEW c \in Conformant, NEW o, o = c.objects[1]
  PROVE  /\ c.encoded /\ c.objects \in Seq(Objects) /\ o \in Objects /\ IsX509(o)
         /\ \A k \in 1..3 : Member(o, k) = o.objects[k] /\ o.objects[k] \in Objects
<1>1. c \in Inputs /\ Conforming(c)
  BY DEF Conformant
<1>2. c.encoded /\ c.objects # <<>> /\ \A k \in DOMAIN c.objects : IsX509(c.objects[k])
  BY <1>1 DEF Conforming
<1>3. c.objects \in Seq(Objects)
  BY <1>1, <1>2, EncodingsAssumption
<1>4. 1 \in DOMAIN c.objects
  BY <1>2, <1>3
<1>5. o \in Objects /\ IsX509(o)
  BY <1>2, <1>3, <1>4
<1>6. IsList(o, 3)
  BY <1>5 DEF IsX509
<1>7. \A k \in 1..3 : Member(o, k) = o.objects[k] /\ o.objects[k] \in Objects
  BY <1>5, <1>6, ListMembers
<1> QED
  BY <1>2, <1>3, <1>5, <1>7

LEMMA TbsParts ==
  ASSUME NEW tbs \in Objects, IsTbs(tbs), Len(tbs.objects) = 8,
         NEW part, part = tbs.objects
  PROVE  /\ \A k \in 1..8 : part[k] \in Objects
         /\ part[1].id = 160 /\ Len(part[1].objects) = 1 /\ part[1].objects[1].id = 2
         /\ IsAlgorithmIdentifier(part[3]) /\ IsName(part[4]) /\ IsName(part[6])
         /\ IsList(part[5], 2) /\ IsDate(part[5].objects[1]) /\ IsDate(part[5].objects[2])
         /\ IsKeyInfo(part[7])
<1>1. part \in Seq(Objects) /\ Len(part) = 8
  BY ObjectType
<1>2. \A k \in 1..8 : part[k] \in Objects
  BY <1>1
<1>3. 1 + 2 = 3 /\ 1 + 3 = 4 /\ 1 + 4 = 5 /\ 1 + 5 = 6 /\ 1 + 6 = 7 /\ 8 # 6
  OBVIOUS
<1>4. /\ part[1].id = 160 /\ Len(part[1].objects) = 1 /\ part[1].objects[1].id = 2
      /\ IsAlgorithmIdentifier(part[3]) /\ IsName(part[4]) /\ IsName(part[6])
      /\ IsList(part[5], 2) /\ IsDate(part[5].objects[1]) /\ IsDate(part[5].objects[2])
      /\ IsKeyInfo(part[7])
  BY <1>3 DEF IsTbs
<1> QED
  BY <1>2, <1>4

\* What is spelled as the identifier of an algorithm, in its place, is this identifier.
LEMMA AlgorithmFits ==
  ASSUME NEW o \in Objects, IsAlgorithmIdentifier(o), NEW type \in KnownTypes, HasType(o, type)
  PROVE  IsAlgorithm(o, type)
<1>1. o.id = 48 /\ Len(o.objects) \in 1..2 /\ o.objects[1].id = 6
  BY DEF IsAlgorithmIdentifier
<1>2. Member(o, 1) = o.objects[1] /\ o.objects[1] \in Objects
  BY <1>1, MemberIs
<1>3. Spelling(o.objects[1].arcs) = Spelling(type)
  BY <1>1, <1>2, Identifiers DEF HasType, AsOctets
<1>4. o.objects[1].arcs = type
  BY <1>1, <1>2, <1>3, Identifiers, SpellingAssumption
<1> QED
  BY <1>1, <1>4 DEF IsAlgorithm, IsIdentifier

LEMMA NoText == ~IsText(Missing) /\ \A k : Member(Missing, k) = Missing
BY NoIdentifier DEF IsText, Member

LEMMA AttributeFits ==
  ASSUME NEW name \in Objects, IsName(name), NEW k \in Nat \ {0}, NEW type \in KnownTypes,
         NEW pair, pair = Inside(name, <<k, 1>>),
         HasType(pair, type), IsText(Value(pair))
  PROVE  k \in 1..Len(name.objects) /\ IsAttribute(name.objects[k], {type})
<1>1. name.id = 48 /\ name.objects \in Seq(Objects)
  BY ObjectType DEF IsName
<1>2. pair = Member(Member(name, k), 1)
  <2>1. PICK j : j = k
    OBVIOUS
  <2>2. Inside(name, <<j, 1>>) = Member(Member(name, j), 1)
    BY InsideObject
  <2> QED
    BY <2>1, <2>2
<1>3. k \in DOMAIN name.objects
  <2> SUFFICES ASSUME k \notin DOMAIN name.objects PROVE FALSE
    OBVIOUS
  <2>1. Member(name, k) = Missing
    BY DEF Member
  <2>2. pair = Missing
    BY <1>2, <2>1, NoText
  <2> QED
    BY <2>2, NoText DEF HasType
<1>4. k \in 1..Len(name.objects)
  BY <1>1, <1>3
<1>5. PICK o \in Objects : o = name.objects[k] /\ o = Member(name, k)
  BY <1>1, <1>4, MemberIs
<1>6. /\ o.id = 49 /\ Len(o.objects) = 1
      /\ IsList(o.objects[1], 2)
      /\ o.objects[1].objects[1].id = 6
      /\ o.objects[1].objects[2].id \in StringIds
  <2>1. PICK j \in DOMAIN name.objects : name.objects[j] = o
    BY <1>3, <1>5
  <2>2. /\ name.objects[j].id = 49 /\ Len(name.objects[j].objects) = 1
        /\ IsList(name.objects[j].objects[1], 2)
        /\ name.objects[j].objects[1].objects[1].id = 6
        /\ name.objects[j].objects[1].objects[2].id \in StringIds
    BY ONLY IsName(name), <2>1 DEF IsName
  <2> QED
    BY ONLY <2>1, <2>2
<1>7. pair = o.objects[1] /\ pair \in Objects
  BY <1>2, <1>5, <1>6, MemberIs
<1>8. /\ Member(pair, 1) = pair.objects[1] /\ Member(pair, 2) = pair.objects[2]
      /\ pair.objects[1] \in Objects
  BY <1>6, <1>7, ListMembers
<1>9. TypeOf(o) = type
  <2>1. Spelling(pair.objects[1].arcs) = Spelling(type)
    BY <1>6, <1>7, <1>8, Identifiers DEF HasType, AsOctets
  <2>2. pair.objects[1].arcs = type
    BY <1>6, <1>7, <1>8, <2>1, Identifiers, SpellingAssumption
  <2> QED
    BY <1>7, <2>2 DEF TypeOf
<1>10. o.objects[1].objects[2].id \in {12, 19}
  <2> DEFINE n == pair.objects[2].id
  <2>1. n \in {12, 19, 20, 22, 28, 30} /\ n % 32 \in {6, 12, 19}
    BY <1>6, <1>7, <1>8 DEF IsText, Value, Tag, StringIds
  <2> HIDE DEF n
  <2>2. n \in {12, 19}
    BY <2>1
  <2> QED
    BY <1>7, <2>2 DEF n
<1>11. IsAttribute(o, {type})
  BY <1>6, <1>9, <1>10 DEF IsAttribute
<1> QED
  BY <1>4, <1>5, <1>11

LEMMA DateIsFit ==
  ASSUME NEW o, IsDate(o), IsUtc(o)
  PROVE  DateFits(o)
<1> DEFINE n == o.id
<1>1. n \in {23, 24} /\ n % 32 = 23
  BY DEF IsDate, IsUtc, Tag
<1> HIDE DEF n
<1>2. n = 23
  BY <1>1
<1> QED
  BY <1>2 DEF n, DateFits, IsUtc

LEMMA Known ==
  /\ SHA256WithRSAEncryption \in KnownTypes /\ RsaEncryption \in KnownTypes
  /\ \A k \in 1..4 : IssuerTypes[k] \in KnownTypes
  /\ SubjectTypes \subseteq KnownTypes
<1>1. DOMAIN IssuerTypes = 1..4
  BY DEF IssuerTypes
<1> QED
  BY <1>1 DEF KnownTypes, Range
-----------------------------------------------------------------------------
LEMMA BeginsSifting ==
  ASSUME NEW c \in Conformant, BeginParse(c)
  PROVE  IsSifting(c)'
<1>1. input' = c /\ at' = "objects" /\ s' = 0
  BY DEF BeginParse, ParseRaw
<1>2. /\ at' \notin BehindObjects /\ at' \notin BehindVersion /\ at' \notin BehindIssuer
      /\ at' \notin BehindValidity /\ at' \notin BehindSubject /\ at' \notin BehindKey
  BY <1>1 DEF BehindObjects, BehindVersion, BehindIssuer, BehindValidity, BehindSubject,
              BehindKey
<1> QED
  BY <1>1, <1>2 DEF IsSifting

LEMMA SameSifting ==
  ASSUME NEW c, IsSifting(c), UNCHANGED <<at, root, s, input>>
  PROVE  IsSifting(c)'
BY SMTT(60) DEF IsSifting

LEMMA RefusedSifting ==
  ASSUME NEW c, at' = "refused"
  PROVE  IsSifting(c)'
BY DEF IsSifting, BehindObjects, BehindVersion, BehindIssuer, BehindValidity, BehindSubject,
       BehindKey

\* What Read() does.
LEMMA ReadOrRefused ==
  ASSUME NEW field, NEW readable, NEW value, NEW next, Read(field, readable, value, next)
  PROVE  /\ at = field /\ UNCHANGED <<root, s, input>>
         /\ (readable /\ at' = next) \/ at' = "refused"
BY DEF Read, vars

\* The certificate is where the fields are looked for.
LEMMA SiftedParts ==
  ASSUME NEW c \in Conformant, IsSifting(c), at \in BehindObjects,
         NEW part, part = TbsOf(c).objects
  PROVE  /\ root = c.objects[1] /\ Sequence = part /\ TbsOf(c) \in Objects
         /\ Len(c.objects) = 1 /\ Len(part) = 8
         /\ \A k \in 1..8 : part[k] \in Objects
         /\ part[1].id = 160 /\ Len(part[1].objects) = 1 /\ part[1].objects[1].id = 2
         /\ IsAlgorithmIdentifier(part[3]) /\ IsName(part[4]) /\ IsName(part[6])
         /\ IsList(part[5], 2) /\ IsDate(part[5].objects[1]) /\ IsDate(part[5].objects[2])
         /\ IsKeyInfo(part[7])
<1>1. PICK o : o = c.objects[1]
  OBVIOUS
<1>2. PICK tbs : tbs = TbsOf(c)
  OBVIOUS
<1>3. root = o /\ Len(c.objects) = 1 /\ Len(tbs.objects) = 8
  BY <1>1, <1>2 DEF IsSifting
<1>4. IsX509(o) /\ \A k \in 1..3 : Member(o, k) = o.objects[k] /\ o.objects[k] \in Objects
  BY <1>1, ConformingParts
<1>5. tbs = o.objects[1]
  BY <1>1, <1>2 DEF TbsOf
<1>6. tbs \in Objects /\ Member(o, 1) = tbs
  BY <1>4, <1>5
<1>7. IsTbs(tbs)
  BY <1>4, <1>5 DEF IsX509
<1>8. Sequence = part
  BY <1>2, <1>3, <1>6 DEF Sequence
<1>9. part = tbs.objects
  BY <1>2
<1>10. /\ \A k \in 1..8 : part[k] \in Objects
       /\ part[1].id = 160 /\ Len(part[1].objects) = 1 /\ part[1].objects[1].id = 2
       /\ IsAlgorithmIdentifier(part[3]) /\ IsName(part[4]) /\ IsName(part[6])
       /\ IsList(part[5], 2) /\ IsDate(part[5].objects[1]) /\ IsDate(part[5].objects[2])
       /\ IsKeyInfo(part[7])
  BY <1>3, <1>6, <1>7, <1>9, TbsParts
<1> QED
  BY <1>1, <1>2, <1>3, <1>6, <1>8, <1>9, <1>10

LEMMA ObjectsSift ==
  ASSUME NEW c \in Conformant, CertificatesInv, IsSifting(c), ReadObjects
  PROVE  IsSifting(c)'
<1>1. at = "objects" /\ pc = "return" /\ UNCHANGED <<input, s>>
  BY DEF ReadObjects, vars
<1>2. input = c
  BY <1>1 DEF IsSifting
<1>3. s = 0
  BY <1>1 DEF IsSifting, BehindObjects, BehindVersion, BehindIssuer, BehindValidity,
              BehindSubject, BehindKey
<1>4. PICK o \in Objects : o = c.objects[1] /\ Member(o, 1) = o.objects[1]
  <2>1. PICK o : o = c.objects[1]
    OBVIOUS
  <2>2. o \in Objects /\ \A k \in 1..3 : Member(o, k) = o.objects[k]
    BY <2>1, ConformingParts
  <2> QED
    BY <2>1, <2>2
<1>5. c.encoded /\ c.objects \in Seq(Objects) /\ input.octets = FlattenSeq(RawOctets(c.objects))
  BY <1>2, ConformingParts, EncodingsAssumption DEF Conformant
<1>6. Top.objs = c.objects
  BY <1>1, <1>5, ReadInTheEnd DEF CertificatesInv
<1>7. Inside(o, <<1>>) = Member(o, 1)
  <2>1. o \in Objects \cup {Missing}
    BY <1>4
  <2> QED
    BY ONLY <2>1, ObjectsClosed, InsideOne
<1>8. CASE at' = "refused"
  BY <1>8, RefusedSifting
<1>9. CASE at' # "refused"
  <2>1. /\ at' = "version" /\ root' = Top.objs[1] /\ Len(Top.objs) = 1
        /\ Len(Inside(Top.objs[1], <<1>>).objects) = 8
    BY <1>9 DEF ReadObjects
  <2>2. Len(TbsOf(c).objects) = 8
    BY <1>4, <1>6, <1>7, <2>1 DEF TbsOf
  <2>3. root' = c.objects[1] /\ Len(c.objects) = 1 /\ s' = 0
    BY <1>1, <1>3, <1>6, <2>1
  <2>4. /\ at' \notin BehindVersion /\ at' \notin BehindIssuer
        /\ at' \notin BehindValidity /\ at' \notin BehindSubject /\ at' \notin BehindKey
    BY <2>1 DEF BehindVersion, BehindIssuer, BehindValidity, BehindSubject, BehindKey
  <2> QED
    BY <2>1, <2>2, <2>3, <2>4 DEF IsSifting
<1> QED
  BY <1>8, <1>9

LEMMA VersionSifts ==
  ASSUME NEW c \in Conformant, IsSifting(c), ReadVersion
  PROVE  IsSifting(c)'
<1>1. PICK part : part = TbsOf(c).objects
  OBVIOUS
<1> DEFINE version == Member(Sequence[1], 1)
<1>2. Read("version",
           IsPrimitive(version) /\ Integer(version) = 2 /\ IsPrimitive(Sequence[2]),
           [v3 EXCEPT !.version = 2, !.serial_number = Integer(Sequence[2])],
           "signature_algorithm")
  BY DEF ReadVersion
<1> HIDE DEF version
<1>3. /\ at = "version" /\ UNCHANGED <<root, s, input>>
      /\ (Integer(version) = 2 /\ at' = "signature_algorithm") \/ at' = "refused"
  BY <1>2, ReadOrRefused
<1>4. at \in BehindObjects /\ at \notin BehindValidity
  BY <1>3 DEF BehindObjects, BehindVersion, BehindIssuer, BehindValidity, BehindSubject, BehindKey
<1>5. /\ Sequence = part /\ part[1] \in Objects
      /\ part[1].id = 160 /\ Len(part[1].objects) = 1 /\ part[1].objects[1].id = 2
  BY <1>1, <1>4, SiftedParts
<1>6. version = part[1].objects[1]
  <2>1. PICK p \in Objects : p = part[1]
    BY <1>5
  <2>2. p.id \in {48, 49, 160} /\ 1 \in 1..Len(p.objects)
    BY <1>5, <2>1
  <2>3. Member(p, 1) = p.objects[1]
    BY <2>2, MemberIs
  <2> QED
    BY <1>5, <2>1, <2>3 DEF version
<1>7. Integer(version) = BigEndian(part[1].objects[1].octets)
  BY <1>5, <1>6, Identifiers DEF Integer, AsOctets
<1>8. CASE Integer(version) = 2 /\ at' = "signature_algorithm"
  <2>1. VersionFits(TbsOf(c))
    BY <1>1, <1>7, <1>8 DEF VersionFits
  <2>2. /\ at' \in BehindObjects /\ at' \in BehindVersion /\ at' \notin BehindIssuer
        /\ at' \notin BehindValidity /\ at' \notin BehindSubject /\ at' \notin BehindKey
    BY <1>8 DEF BehindObjects, BehindVersion, BehindIssuer, BehindValidity, BehindSubject,
                BehindKey
  <2> QED
    BY <1>3, <1>4, <1>8, <2>1, <2>2 DEF IsSifting
<1> QED
  BY <1>3, <1>8, RefusedSifting

LEMMA AlgorithmSifts ==
  ASSUME NEW c \in Conformant, IsSifting(c), ReadSignatureAlgorithm
  PROVE  IsSifting(c)'
<1>1. PICK part : part = TbsOf(c).objects
  OBVIOUS
<1>2. /\ at = "signature_algorithm" /\ UNCHANGED <<root, s, input>>
      /\ \/ HasType(Sequence[3], SHA256WithRSAEncryption) /\ at' = "issuer_info"
         \/ at' = "refused"
  BY ReadOrRefused DEF ReadSignatureAlgorithm
<1>3. at \in BehindObjects /\ at \in BehindVersion /\ at \notin BehindValidity
  BY <1>2 DEF BehindObjects, BehindVersion, BehindIssuer, BehindValidity, BehindSubject, BehindKey
<1>4. Sequence = part /\ part[3] \in Objects /\ IsAlgorithmIdentifier(part[3])
  BY <1>1, <1>3, SiftedParts
<1>5. CASE HasType(Sequence[3], SHA256WithRSAEncryption) /\ at' = "issuer_info"
  <2>1. IsAlgorithm(part[3], SHA256WithRSAEncryption)
    BY <1>4, <1>5, AlgorithmFits, Known
  <2>2. /\ at' \in BehindObjects /\ at' \in BehindVersion /\ at' \notin BehindIssuer
        /\ at' \notin BehindValidity /\ at' \notin BehindSubject /\ at' \notin BehindKey
    BY <1>5 DEF BehindObjects, BehindVersion, BehindIssuer, BehindValidity, BehindSubject,
                BehindKey
  <2> QED
    BY <1>1, <1>2, <1>3, <1>5, <2>1, <2>2 DEF IsSifting
<1> QED
  BY <1>2, <1>5, RefusedSifting

LEMMA IssuerSifts ==
  ASSUME NEW c \in Conformant, IsSifting(c), ReadIssuer
  PROVE  IsSifting(c)'
<1>1. PICK part : part = TbsOf(c).objects
  OBVIOUS
<1> DEFINE Pair(k) == Inside(Sequence[4], <<k, 1>>)
<1>2. Read("issuer_info",
           \A k \in 1..4 : HasType(Pair(k), IssuerTypes[k]) /\ IsText(Value(Pair(k))),
           [v3 EXCEPT !.issuer_info = [k \in 1..4 |-> AsOctets(Value(Pair(k)))]],
           "validity")
  BY DEF ReadIssuer
<1> HIDE DEF Pair
<1>3. /\ at = "issuer_info" /\ UNCHANGED <<root, s, input>>
      /\ \/ /\ \A k \in 1..4 : HasType(Pair(k), IssuerTypes[k]) /\ IsText(Value(Pair(k)))
            /\ at' = "validity"
         \/ at' = "refused"
  BY <1>2, ReadOrRefused
<1>4. at \in BehindObjects /\ at \in BehindVersion /\ at \notin BehindValidity
  BY <1>3 DEF BehindObjects, BehindVersion, BehindIssuer, BehindValidity, BehindSubject, BehindKey
<1>5. Sequence = part /\ part[4] \in Objects /\ IsName(part[4])
  BY <1>1, <1>4, SiftedParts
<1>6. CASE /\ \A k \in 1..4 : HasType(Pair(k), IssuerTypes[k]) /\ IsText(Value(Pair(k)))
           /\ at' = "validity"
  <2>1. PICK name \in Objects : name = part[4]
    BY <1>5
  <2>2. ASSUME NEW k \in 1..4
        PROVE  k \in 1..Len(name.objects) /\ IsAttribute(name.objects[k], {IssuerTypes[k]})
    <3>1. PICK type \in KnownTypes : type = IssuerTypes[k]
      BY Known
    <3>2. PICK pair : pair = Inside(name, <<k, 1>>)
      OBVIOUS
    <3>3. pair = Pair(k)
      BY <1>5, <2>1, <3>2 DEF Pair
    <3>4. HasType(pair, type) /\ IsText(Value(pair))
      BY <1>6, <3>1, <3>3
    <3>5. k \in Nat \ {0} /\ IsName(name)
      BY <1>5, <2>1
    <3> QED
      BY <3>1, <3>2, <3>4, <3>5, AttributeFits
  <2>3. Len(name.objects) >= 4
    <3>1. 4 \in 1..4
      OBVIOUS
    <3> QED
      BY <2>2, <3>1
  <2>4. IssuerFits(part[4])
    BY <2>1, <2>2, <2>3 DEF IssuerFits
  <2>5. /\ at' \in BehindObjects /\ at' \in BehindVersion /\ at' \in BehindIssuer
        /\ at' \notin BehindValidity /\ at' \notin BehindSubject /\ at' \notin BehindKey
    BY <1>6 DEF BehindObjects, BehindVersion, BehindIssuer, BehindValidity, BehindSubject,
                BehindKey
  <2> QED
    BY <1>1, <1>3, <1>4, <1>6, <2>4, <2>5 DEF IsSifting
<1> QED
  BY <1>3, <1>6, RefusedSifting

LEMMA ValiditySifts ==
  ASSUME NEW c \in Conformant, IsSifting(c), ReadValidity
  PROVE  IsSifting(c)'
<1>1. PICK part : part = TbsOf(c).objects
  OBVIOUS
<1> DEFINE Bound(k) == Member(Sequence[5], k)
<1>2. Read("validity",
           IsUtc(Bound(1)) /\ IsUtc(Bound(2)) /\ Sequence[6].id \in ConstructedIds,
           [v3 EXCEPT !.valid_not_before = Utc(Bound(1)), !.valid_not_after = Utc(Bound(2))],
           "subject_info")
  BY DEF ReadValidity
<1> HIDE DEF Bound
<1>3. /\ at = "validity" /\ UNCHANGED <<root, s, input>>
      /\ (IsUtc(Bound(1)) /\ IsUtc(Bound(2)) /\ at' = "subject_info") \/ at' = "refused"
  BY <1>2, ReadOrRefused
<1>4. /\ at \in BehindObjects /\ at \in BehindVersion /\ at \in BehindIssuer
      /\ at \notin BehindValidity
  BY <1>3 DEF BehindObjects, BehindVersion, BehindIssuer, BehindValidity, BehindSubject, BehindKey
<1>5. /\ Sequence = part /\ part[5] \in Objects /\ IsList(part[5], 2)
      /\ IsDate(part[5].objects[1]) /\ IsDate(part[5].objects[2])
  BY <1>1, <1>4, SiftedParts
<1>6. Bound(1) = part[5].objects[1] /\ Bound(2) = part[5].objects[2]
  <2>1. PICK p \in Objects : p = part[5]
    BY <1>5
  <2>2. Member(p, 1) = p.objects[1] /\ Member(p, 2) = p.objects[2]
    BY <1>5, <2>1, ListMembers
  <2> QED
    BY <1>5, <2>1, <2>2 DEF Bound
<1>7. CASE IsUtc(Bound(1)) /\ IsUtc(Bound(2)) /\ at' = "subject_info"
  <2>1. DateFits(part[5].objects[1]) /\ DateFits(part[5].objects[2])
    BY <1>5, <1>6, <1>7, DateIsFit
  <2>2. /\ at' \in BehindObjects /\ at' \in BehindVersion /\ at' \in BehindIssuer
        /\ at' \in BehindValidity /\ at' \notin BehindSubject /\ at' \notin BehindKey
    BY <1>7 DEF BehindObjects, BehindVersion, BehindIssuer, BehindValidity, BehindSubject,
                BehindKey
  <2>3. s' = 0
    BY <1>3, <1>4 DEF IsSifting
  <2>4. SubjectFits(part[6], s')
    BY <2>3 DEF SubjectFits
  <2> QED
    BY <1>1, <1>3, <1>4, <1>7, <2>1, <2>2, <2>3, <2>4 DEF IsSifting
<1> QED
  BY <1>3, <1>7, RefusedSifting

LEMMA SubjectSifts ==
  ASSUME NEW c \in Conformant, IsSifting(c), ReadSubject
  PROVE  IsSifting(c)'
<1>1. PICK part : part = TbsOf(c).objects
  OBVIOUS
<1>2. PICK pair : pair = Inside(Sequence[6], <<s + 1, 1>>)
  OBVIOUS
<1>3. /\ at = "subject_info" /\ UNCHANGED <<root, input>>
      /\ \/ /\ \E type \in SubjectTypes : HasType(pair, type) /\ IsText(Value(pair))
            /\ s' = s + 1 /\ at' = at
         \/ at' = "refused"
  BY <1>2 DEF ReadSubject, vars
<1>4. /\ at \in BehindObjects /\ at \in BehindVersion /\ at \in BehindIssuer
      /\ at \in BehindValidity /\ at \notin BehindSubject /\ at \notin BehindKey
  BY <1>3 DEF BehindObjects, BehindVersion, BehindIssuer, BehindValidity, BehindSubject, BehindKey
<1>5. Sequence = part /\ part[6] \in Objects /\ IsName(part[6])
  BY <1>1, <1>4, SiftedParts
<1>6. s \in Nat /\ SubjectFits(part[6], s)
  BY <1>1, <1>3 DEF IsSifting
<1>7. CASE /\ \E type \in SubjectTypes : HasType(pair, type) /\ IsText(Value(pair))
           /\ s' = s + 1 /\ at' = at
  <2>1. PICK name \in Objects : name = part[6]
    BY <1>5
  <2>2. PICK type \in SubjectTypes : HasType(pair, type) /\ IsText(Value(pair))
    BY <1>7
  <2>3. PICK k : k = s + 1
    OBVIOUS
  <2>4. k \in Nat \ {0} /\ pair = Inside(name, <<k, 1>>) /\ type \in KnownTypes /\ IsName(name)
    BY <1>2, <1>5, <1>6, <2>1, <2>3, Known
  <2>5. IsAttribute(name.objects[k], {type})
    BY <2>2, <2>4, AttributeFits
  <2>6. IsAttribute(name.objects[s + 1], SubjectTypes)
    BY <2>3, <2>5 DEF IsAttribute
  <2>7. SubjectFits(name, s + 1)
    <3>1. \A j \in 1..(s + 1) : j \in 1..s \/ j = s + 1
      BY <1>6
    <3>2. \A j \in 1..s : IsAttribute(name.objects[j], SubjectTypes)
      BY <1>6, <2>1 DEF SubjectFits
    <3> QED
      BY <2>6, <3>1, <3>2 DEF SubjectFits
  <2>8. s' \in Nat /\ SubjectFits(part[6], s')
    BY <1>6, <1>7, <2>1, <2>7
  <2>9. at' = "subject_info" /\ UNCHANGED <<at, root, input>>
    BY <1>3, <1>7
  <2> QED
    BY <1>1, <1>3, <1>4, <2>8, <2>9 DEF IsSifting
<1> QED
  BY <1>3, <1>7, RefusedSifting

LEMMA KeySifts ==
  ASSUME NEW c \in Conformant, IsSifting(c), ReadKey
  PROVE  IsSifting(c)'
<1>1. PICK part : part = TbsOf(c).objects
  OBVIOUS
<1>2. PICK bits : bits = Member(Sequence[7], 2)
  OBVIOUS
<1>3. /\ at = "subject_info" /\ s = Len(Sequence[6].objects) /\ UNCHANGED <<root, s>>
      /\ \/ /\ HasType(Member(Sequence[7], 1), RsaEncryption)
            /\ IsPrimitive(bits) /\ bits.octets # <<>> /\ bits.octets[1] = 0
            /\ input'.octets = Tail(bits.octets) /\ at' = "modulus"
         \/ at' = "refused"
  <2> DEFINE key == [octets |-> Tail(bits.octets), encoded |-> FALSE, objects |-> <<>>]
  <2>1. /\ at = "subject_info" /\ s = Len(Sequence[6].objects) /\ UNCHANGED <<root, s>>
        /\ \/ /\ HasType(Member(Sequence[7], 1), RsaEncryption)
              /\ IsPrimitive(bits) /\ bits.octets # <<>> /\ bits.octets[1] = 0
              /\ ParseRaw(key) /\ at' = "modulus"
           \/ at' = "refused"
    BY <1>2 DEF ReadKey
  <2>2. ParseRaw(key) => input'.octets = Tail(bits.octets)
    BY DEF ParseRaw
  <2> HIDE DEF key
  <2> QED
    BY <2>1, <2>2
<1>4. /\ at \in BehindObjects /\ at \in BehindVersion /\ at \in BehindIssuer
      /\ at \in BehindValidity
  BY <1>3 DEF BehindObjects, BehindVersion, BehindIssuer, BehindValidity, BehindSubject, BehindKey
<1>5. Sequence = part /\ part[7] \in Objects /\ IsKeyInfo(part[7])
  BY <1>1, <1>4, SiftedParts
<1>6. SubjectFits(part[6], Len(part[6].objects))
  BY <1>1, <1>3, <1>5 DEF IsSifting
<1>7. CASE /\ HasType(Member(Sequence[7], 1), RsaEncryption)
           /\ IsPrimitive(bits) /\ bits.octets # <<>> /\ bits.octets[1] = 0
           /\ input'.octets = Tail(bits.octets) /\ at' = "modulus"
  <2>1. PICK o \in Objects : o = part[7]
    BY <1>5
  <2>2. /\ IsList(o, 2) /\ IsAlgorithmIdentifier(o.objects[1])
        /\ o.objects[2].id = 3
        /\ IsAlgorithm(o.objects[1], RsaEncryption) /\ HasBits(o.objects[2]) =>
             \E key \in Objects : HoldsIntegers(o.objects[2], key)
    BY <1>5, <2>1 DEF IsKeyInfo
  <2>3. Member(o, 1) = o.objects[1] /\ o.objects[1] \in Objects /\ Member(o, 2) = o.objects[2]
    BY <2>2, ListMembers
  <2>4. IsAlgorithm(o.objects[1], RsaEncryption)
    BY <1>5, <1>7, <2>1, <2>2, <2>3, AlgorithmFits, Known
  <2>5. bits = o.objects[2]
    BY <1>2, <1>5, <2>1, <2>3
  <2>6. HasBits(o.objects[2])
    BY <1>7, <2>2, <2>5 DEF HasBits
  <2>7. PICK key \in Objects : HoldsIntegers(o.objects[2], key)
    BY <2>2, <2>4, <2>6
  <2>8. input'.octets = key.raw
    BY <1>7, <2>5, <2>7 DEF HoldsIntegers, Bits
  <2>9. KeyFits(part[7])
    BY <2>1, <2>4, <2>6 DEF KeyFits
  <2>10. /\ at' \in BehindObjects /\ at' \in BehindVersion /\ at' \in BehindIssuer
         /\ at' \in BehindValidity /\ at' \in BehindSubject /\ at' \notin BehindKey
    BY <1>7 DEF BehindObjects, BehindVersion, BehindIssuer, BehindValidity, BehindSubject,
                BehindKey
  <2>11. \E k \in Objects : HoldsIntegers(part[7].objects[2], k) /\ input'.octets = k.raw
    BY <2>1, <2>7, <2>8
  <2> QED
    BY <1>1, <1>3, <1>4, <1>6, <1>7, <2>9, <2>10, <2>11 DEF IsSifting
<1> QED
  BY <1>3, <1>7, RefusedSifting

LEMMA ModulusSifts ==
  ASSUME NEW c \in Conformant, CertificatesInv, IsSifting(c), ReadModulus
  PROVE  IsSifting(c)'
<1>1. PICK part : part = TbsOf(c).objects
  OBVIOUS
<1> DEFINE Part(k) == IF Top.objs = <<>> THEN Missing ELSE Member(Top.objs[1], k)
<1>2. /\ pc = "return"
      /\ Read("modulus", IsPrimitive(Part(1)) /\ IsPrimitive(Part(2)),
              [v3 EXCEPT !.public_key = [n |-> Integer(Part(1)), e |-> Integer(Part(2))]],
              "signature")
  BY DEF ReadModulus
<1> HIDE DEF Part
<1>3. /\ at = "modulus" /\ UNCHANGED <<root, s, input>>
      /\ (IsPrimitive(Part(2)) /\ at' = "signature") \/ at' = "refused"
  BY <1>2, ReadOrRefused
<1>4. /\ at \in BehindObjects /\ at \in BehindVersion /\ at \in BehindIssuer
      /\ at \in BehindValidity /\ at \in BehindSubject
  BY <1>3 DEF BehindObjects, BehindVersion, BehindIssuer, BehindValidity, BehindSubject, BehindKey
<1>5. PICK key \in Objects : HoldsIntegers(part[7].objects[2], key) /\ input.octets = key.raw
  BY <1>1, <1>3 DEF IsSifting
<1>6. Top.objs = <<key>>
  <2> DEFINE objs == <<key>>
  <2>1. objs \in Seq(Objects) /\ input.octets = FlattenSeq(RawOctets(objs))
    BY <1>5, FlattenOne
  <2> HIDE DEF objs
  <2>2. Top.objs = objs
    BY <1>2, <2>1, ReadInTheEnd DEF CertificatesInv
  <2> QED
    BY <2>2 DEF objs
<1>7. CASE IsPrimitive(Part(2)) /\ at' = "signature"
  <2>1. Part(2) = Member(key, 2)
    BY <1>6 DEF Part
  <2>2. 2 \in DOMAIN key.objects
    BY <1>7, <2>1, NoIdentifier DEF Member
  <2>3. key.objects \in Seq(Objects) /\ Len(key.objects) <= 2
    BY <1>5, ObjectType DEF HoldsIntegers
  <2>4. Len(key.objects) = 2
    <3> DEFINE n == Len(key.objects)
    <3>1. n \in Nat /\ DOMAIN key.objects = 1..n /\ n <= 2
      BY <2>3
    <3>2. 2 \in 1..n
      BY <2>2, <3>1
    <3> HIDE DEF n
    <3>3. n = 2
      BY <3>1, <3>2
    <3> QED
      BY <3>3 DEF n
  <2>5. HasKey(part[7])
    BY <1>5, <2>4 DEF HasKey
  <2>6. /\ at' \in BehindObjects /\ at' \in BehindVersion /\ at' \in BehindIssuer
        /\ at' \in BehindValidity /\ at' \in BehindSubject /\ at' \in BehindKey
    BY <1>7 DEF BehindObjects, BehindVersion, BehindIssuer, BehindValidity, BehindSubject,
                BehindKey
  <2> QED
    BY <1>1, <1>3, <1>4, <1>7, <2>5, <2>6 DEF IsSifting
<1> QED
  BY <1>3, <1>7, RefusedSifting

LEMMA SignatureSifts ==
  ASSUME NEW c \in Conformant, IsSifting(c), ReadSignature
  PROVE  IsSifting(c)'
<1>1. PICK o : o = c.objects[1]
  OBVIOUS
<1>2. /\ at = "signature" /\ UNCHANGED <<root, s, input>>
      /\ \/ HasType(Member(root, 2), SHA256WithRSAEncryption) /\ at' = "returned"
         \/ at' = "refused"
  BY ReadOrRefused DEF ReadSignature
<1>3. /\ at \in BehindObjects /\ at \in BehindVersion /\ at \in BehindIssuer
      /\ at \in BehindValidity /\ at \in BehindSubject /\ at \in BehindKey
  BY <1>2 DEF BehindObjects, BehindVersion, BehindIssuer, BehindValidity, BehindSubject, BehindKey
<1>4. root = o
  BY <1>1, <1>3 DEF IsSifting
<1>5. Member(o, 2) = o.objects[2] /\ o.objects[2] \in Objects /\ IsAlgorithmIdentifier(o.objects[2])
  BY <1>1, ConformingParts DEF IsX509
<1>6. CASE HasType(Member(root, 2), SHA256WithRSAEncryption) /\ at' = "returned"
  <2>1. IsAlgorithm(o.objects[2], SHA256WithRSAEncryption)
    BY <1>4, <1>5, <1>6, AlgorithmFits, Known
  <2>2. /\ at' \in BehindObjects /\ at' \in BehindVersion /\ at' \in BehindIssuer
        /\ at' \in BehindValidity /\ at' \in BehindSubject /\ at' \in BehindKey
    BY <1>6 DEF BehindObjects, BehindVersion, BehindIssuer, BehindValidity, BehindSubject,
                BehindKey
  <2> QED
    BY <1>1, <1>2, <1>3, <1>6, <2>1, <2>2 DEF IsSifting
<1> QED
  BY <1>2, <1>6, RefusedSifting

LEMMA StepSifts ==
  ASSUME NEW c \in Conformant, CertificatesInv, IsSifting(c), ParseStep
  PROVE  IsSifting(c)'
<1>1. CASE ParseRawStep
  <2>1. UNCHANGED <<at, root, s, input>>
    BY <1>1, StepParsing DEF ParseRawStep, x509Vars
  <2> QED
    BY <2>1, SameSifting
<1>2. CASE ParseRawAborts
  BY <1>2, RefusedSifting DEF ParseRawAborts
<1> QED
  BY <1>1, <1>2, ObjectsSift, VersionSifts, AlgorithmSifts, IssuerSifts, ValiditySifts,
     SubjectSifts, KeySifts, ModulusSifts, SignatureSifts DEF ParseStep

LEMMA NextSift ==
  ASSUME CertificatesInv, SiftInv, [CertificatesNext]_allVars
  PROVE  SiftInv'
<1> SUFFICES ASSUME at' # "idle", NEW c \in Conformant, c = Current'
             PROVE  IsSifting(c)'
  BY DEF SiftInv
<1>1. CASE BeginCertificate
  <2>1. Current' = Current
    BY <1>1, BeginStarts DEF CertificatesInv, Current
  <2>2. BeginParse(c)
    BY <1>1, <2>1 DEF BeginCertificate
  <2> QED
    BY <2>2, BeginsSifting
<1>2. CASE ParseCertificate
  <2>1. ParseStep /\ UNCHANGED <<message, chain>>
    BY <1>2 DEF ParseCertificate, messageVars
  <2>2. Current' = Current
    BY <2>1 DEF Current
  <2>3. at # "idle"
    BY <2>1, ParseIsBusy
  <2>4. IsSifting(c)
    BY <2>2, <2>3 DEF SiftInv
  <2> QED
    BY <2>1, <2>4, StepSifts
<1>3. CASE EndCertificate
  BY <1>3 DEF EndCertificate
<1>4. CASE VerifyChain \/ CertificatesTerminated \/ UNCHANGED allVars
  <2>1. at # "idle" /\ UNCHANGED <<message, chain>> /\ UNCHANGED <<at, root, s, input>>
    BY <1>4 DEF VerifyChain, CertificatesTerminated, allVars, vars, x509Vars, messageVars
  <2>2. Current' = Current
    BY <2>1 DEF Current
  <2>3. IsSifting(c)
    BY <2>1, <2>2 DEF SiftInv
  <2> QED
    BY <2>1, <2>3, SameSifting
<1> QED
  BY <1>1, <1>2, <1>3, <1>4 DEF CertificatesNext

LEMMA SiftRefuses ==
  ASSUME CertificatesInv, SiftInv
  PROVE  RefusesOthers
<1> SUFFICES ASSUME at = "returned", Conforming(Current) PROVE Current.profile
  BY DEF RefusesOthers
<1>1. PICK c : c = Current
  OBVIOUS
<1>2. c \in Inputs
  BY <1>1, CurrentType DEF CertificatesInv, MessageInv
<1>3. c \in Conformant /\ IsSifting(c)
  BY <1>1, <1>2 DEF SiftInv, Conformant
<1>4. PICK part : part = TbsOf(c).objects
  OBVIOUS
<1>5. /\ at \in BehindObjects /\ at \in BehindVersion /\ at \in BehindIssuer
      /\ at \in BehindValidity /\ at \in BehindSubject /\ at \in BehindKey
  BY DEF BehindObjects, BehindVersion, BehindIssuer, BehindValidity, BehindSubject, BehindKey
<1>6. /\ Len(c.objects) = 1 /\ Len(part) = 8
      /\ VersionFits(TbsOf(c))
      /\ IsAlgorithm(part[3], SHA256WithRSAEncryption)
      /\ IssuerFits(part[4])
      /\ DateFits(part[5].objects[1]) /\ DateFits(part[5].objects[2])
      /\ SubjectFits(part[6], Len(part[6].objects)) /\ KeyFits(part[7])
      /\ HasKey(part[7])
      /\ IsAlgorithm(c.objects[1].objects[2], SHA256WithRSAEncryption)
  BY <1>3, <1>4, <1>5 DEF IsSifting
<1>7. DOMAIN part[6].objects = 1..Len(part[6].objects)
  <2>1. part[6] \in Objects
    BY <1>3, <1>4, <1>5, SiftedParts
  <2>2. part[6].objects \in Seq(Objects)
    BY <2>1, ObjectType
  <2> QED
    BY <2>2
<1>8. \A k \in 1..2 : LET date == part[5].objects[k] IN
        date.id = 23 /\ Len(date.octets) = 13 /\ date.octets[13] = 90
  BY ONLY <1>6, SMTT(30) DEF DateFits
<1>9. IsSupportedTbs(TbsOf(c))
  <2>1. Len(part) = 8 /\ BigEndian(part[1].objects[1].octets) = 2
        /\ IsAlgorithm(part[3], SHA256WithRSAEncryption)
    BY ONLY <1>4, <1>6 DEF VersionFits
  <2>2. Len(part[4].objects) >= 4
        /\ \A k \in 1..4 : IsAttribute(part[4].objects[k], {IssuerTypes[k]})
    BY ONLY <1>6 DEF IssuerFits
  <2>3. \A k \in DOMAIN part[6].objects : IsAttribute(part[6].objects[k], SubjectTypes)
    BY ONLY <1>6, <1>7 DEF SubjectFits
  <2>4. /\ IsAlgorithm(part[7].objects[1], RsaEncryption) /\ HasBits(part[7].objects[2])
        /\ \E key \in Objects : HoldsIntegers(part[7].objects[2], key) /\ Len(key.objects) = 2
    BY ONLY <1>6 DEF KeyFits, HasKey
  <2> QED
    BY ONLY <1>4, <1>8, <2>1, <2>2, <2>3, <2>4, Zenon DEF IsSupportedTbs
<1>10. IsSupported(c.objects[1])
  BY <1>6, <1>9 DEF IsSupported, TbsOf
<1> QED
  BY <1>1, <1>2, <1>6, <1>10, CertificatesAssumption

\* Whatever certificate of the syntax of certificates it is that gets through, it is
\* one of the supported form: the version, the algorithms, the issuer's attributes and
\* their order, every attribute of the subject, both dates, the key and the number of
\* members have all been looked at on the way (certparser.cpp:302-430).
THEOREM RefusesUnsupported == CertificatesSpec => []RefusesOthers
<1>1. CertificatesInit => SiftInv
  BY DEF CertificatesInit, SiftInv
<1>2. CertificatesInv /\ SiftInv /\ [CertificatesNext]_allVars => SiftInv'
  BY NextSift
<1>3. CertificatesInv /\ SiftInv => RefusesOthers
  BY SiftRefuses
<1> QED
  BY CertificatesInvAlways, <1>1, <1>2, <1>3, PTL DEF CertificatesSpec, allVars

-----------------------------------------------------------------------------
(* As what is read is what is meant, the composition of the parser and       *)
(* verify_cert_chain() is verify_cert_chain() on the certificates that the   *)
(* server meant: as long as it sends certificates, of whatever form, and not *)
(* octets outside their syntax, some of which get through, too.              *)

ProperMessage == \A k \in DOMAIN message : message[k].profile \/ Conforming(message[k])

LEMMA MessageStays ==
  [CertificatesNext]_<<vars, x509Vars, messageVars>> => UNCHANGED message
BY DEF CertificatesNext, BeginCertificate, ParseCertificate, EndCertificate, VerifyChain,
       CertificatesTerminated, messageVars

LEMMA ProperAlways == CertificatesSpec /\ ProperMessage => []ProperMessage
<1>1. ProperMessage /\ UNCHANGED message => ProperMessage'
  BY DEF ProperMessage
<1> QED
  BY <1>1, MessageStays, PTL DEF CertificatesSpec

\* What gets through was meant.
LEMMA ReturnedIsMeant ==
  ASSUME ProperMessage, CertificatesInv, ReadsCertificate, RefusesOthers, at = "returned"
  PROVE  \A f \in DOMAIN v3 : v3[f] = Current.meant[f]
<1>1. message \in Messages /\ Len(chain) \in Nat /\ Len(chain) < Len(message)
  BY DEF CertificatesInv, MessageInv, IsSeq
<1>2. Len(chain) + 1 \in DOMAIN message
  BY <1>1, MessageType
<1>3. Current.profile \/ Conforming(Current)
  BY <1>2 DEF ProperMessage, Current
<1> QED
  BY <1>3 DEF ReadsCertificate, RefusesOthers

\* As far as verify_cert_chain() can tell, c is m.
Same(c, m) ==
  /\ c.public_key = m.public_key
  /\ c.signature = m.signature
  /\ c.raw_bytes = m.raw_bytes

\* The certificates parsed so far are the first ones of the message, and v3 has
\* the fields of a certificate at any time.
ChainInv ==
  /\ message \in Messages
  /\ \E T : chain \in Seq(T)
  /\ Len(chain) <= Len(message)
  /\ at # "idle" => Len(chain) < Len(message)
  /\ \A k \in 1..Len(chain) : Same(chain[k], message[k].meant)
  /\ {"public_key", "signature", "raw_bytes"} \subseteq DOMAIN v3
  /\ oi \in Nat
-----------------------------------------------------------------------------
LEMMA InitChain == CertificatesInit => ChainInv
<1> SUFFICES ASSUME CertificatesInit PROVE ChainInv
  OBVIOUS
<1>1. message \in Messages /\ chain = <<>> /\ at = "idle" /\ v3 = Empty /\ oi = 0
  BY DEF CertificatesInit
<1>2. <<>> \in Seq({}) /\ Len(<<>>) = 0 /\ Len(message) \in Nat
  BY <1>1, MessageType
<1>3. {"public_key", "signature", "raw_bytes"} \subseteq DOMAIN v3
  BY <1>1 DEF Empty
<1> QED
  BY <1>1, <1>2, <1>3 DEF ChainInv

LEMMA NextChain ==
  ASSUME ProperMessage, CertificatesInv, ChainInv, ReadsCertificate, RefusesOthers,
         [CertificatesNext]_<<vars, x509Vars, messageVars>>
  PROVE  ChainInv'
<1>1. /\ message \in Messages /\ Len(message) \in Nat /\ Len(chain) <= Len(message)
      /\ at # "idle" => Len(chain) < Len(message)
      /\ {"public_key", "signature", "raw_bytes"} \subseteq DOMAIN v3
  BY MessageType DEF ChainInv
<1>2. PICK T : chain \in Seq(T)
  BY DEF ChainInv
<1>7. oi' \in Nat
  <2>1. oi' \in {oi, oi + 1}
    BY DEF CertificatesNext, BeginCertificate, ParseCertificate, EndCertificate, VerifyChain,
           CertificatesTerminated, messageVars, Verify!Step, Verify!MalformedSignature,
           Verify!HashMismatch, Verify!Verified, Verify!AllVerified, Verify!Verdict
  <2> QED
    BY <2>1 DEF ChainInv
<1>3. CASE BeginCertificate
  <2>1. /\ UNCHANGED <<message, chain>> /\ v3' = Empty
        /\ Len(chain) < Len(message)
    BY <1>3 DEF BeginCertificate, BeginParse, messageVars
  <2>2. {"public_key", "signature", "raw_bytes"} \subseteq DOMAIN v3'
    BY <2>1 DEF Empty
  <2> QED
    BY <1>1, <1>7, <2>1, <2>2 DEF ChainInv, Same
<1>4. CASE ParseCertificate
  <2>1. ParseStep /\ UNCHANGED <<message, chain>>
    BY <1>4 DEF ParseCertificate, messageVars
  <2>2. {"public_key", "signature", "raw_bytes"} \subseteq DOMAIN v3'
    BY <1>1, <2>1, ParseKeepsFields
  <2>3. at' # "idle" => Len(chain) < Len(message)
    BY <1>1, <2>1, ParseIsBusy
  <2> QED
    BY <1>1, <1>7, <2>1, <2>2, <2>3 DEF ChainInv, Same
<1>5. CASE EndCertificate
  <2>1. /\ at = "returned" /\ at' = "idle" /\ chain' = Append(chain, v3)
        /\ UNCHANGED <<message, v3>>
    BY <1>5 DEF EndCertificate
  <2> DEFINE n == Len(chain)
             U == T \cup {v3}
  <2>2. n \in Nat /\ chain \in Seq(U) /\ n < Len(message)
    BY <1>1, <1>2, <2>1
  <2>3. /\ chain' \in Seq(U) /\ Len(chain') = n + 1 /\ chain'[n + 1] = v3
        /\ \A k \in 1..n : chain'[k] = chain[k]
    BY <2>1, <2>2
  <2>4. Same(v3, message[n + 1].meant)
    <3>1. \A f \in DOMAIN v3 : v3[f] = message[n + 1].meant[f]
      BY <2>1, ReturnedIsMeant DEF Current
    <3> QED
      BY <1>1, <3>1 DEF Same
  <2>5. ASSUME NEW k \in 1..(n + 1)
        PROVE  Same(chain[k], message[k].meant)'
    <3>1. CASE k = n + 1
      BY <3>1, <2>1, <2>3, <2>4 DEF Same
    <3>2. CASE k # n + 1
      <4>1. k \in 1..n
        BY <2>2, <3>2
      <4>2. chain'[k] = chain[k] /\ Same(chain[k], message[k].meant)
        BY <4>1, <2>3 DEF ChainInv
      <4> QED
        BY <4>2, <2>1 DEF Same
    <3> QED
      BY <3>1, <3>2
  <2>6. n + 1 <= Len(message)
    BY <1>1, <2>2
  <2> QED
    BY <1>1, <1>7, <2>1, <2>3, <2>5, <2>6 DEF ChainInv
<1>6. CASE VerifyChain \/ CertificatesTerminated
           \/ UNCHANGED <<vars, x509Vars, messageVars>>
  <2>1. UNCHANGED <<message, chain, at, v3>>
    BY <1>6 DEF VerifyChain, CertificatesTerminated, x509Vars, messageVars, Verify!Step,
                Verify!MalformedSignature, Verify!HashMismatch, Verify!Verified,
                Verify!AllVerified, Verify!Verdict
  <2> QED
    BY <1>1, <1>7, <2>1 DEF ChainInv, Same
<1> QED
  BY <1>3, <1>4, <1>5, <1>6 DEF CertificatesNext
-----------------------------------------------------------------------------
(* The operators of the two instances of CertChain are the same.           *)

LEMMA SamePower ==
  ASSUME NEW base, NEW exponent, NEW modulus
  PROVE  Verify!Power(base, exponent, modulus) = Chain!Power(base, exponent, modulus)
  BY DEF Verify!Power, Chain!Power

LEMMA SameMin ==
  ASSUME NEW S
  PROVE  Verify!Min(S) = Chain!Min(S)
  BY DEF Verify!Min, Chain!Min

LEMMA SameBlocks ==
  ASSUME NEW modulus
  PROVE  Verify!BlockAmount(modulus) = Chain!BlockAmount(modulus)
  BY DEF Verify!BlockAmount, Chain!BlockAmount, Verify!Levels, Chain!Levels,
         Verify!Cardinality, Chain!Cardinality

LEMMA SameDecrypted ==
  ASSUME NEW c, NEW m, Same(c, m), NEW key
  PROVE  Verify!Decrypted(c, key) = Chain!Decrypted(m, key)
<1>1. ASSUME NEW n, NEW amount
      PROVE  Verify!Octets(n, amount) = Chain!Octets(n, amount)
  BY DEF Verify!Octets, Chain!Octets, Verify!Levels, Chain!Levels
<1>2. c.signature = m.signature
  BY DEF Same
<1>3. Verify!DecryptedOctets(c.signature, key.e, key.n)
        = Chain!DecryptedOctets(m.signature, key.e, key.n)
  BY <1>1, <1>2, SamePower, SameBlocks DEF Verify!DecryptedOctets, Chain!DecryptedOctets
<1>4. \A q : Verify!Reverse(q) = Chain!Reverse(q)
  BY DEF Verify!Reverse, Chain!Reverse
<1> QED
  BY <1>3, <1>4 DEF Verify!Decrypted, Chain!Decrypted

LEMMA SameFindings ==
  ASSUME NEW c, NEW m, Same(c, m), NEW key
  PROVE  /\ Verify!WellFormed(c, key) <=> Chain!WellFormed(m, key)
         /\ Verify!WrongOctets(c, key) = Chain!WrongOctets(m, key)
         /\ Verify!Opens(c, key) <=> Chain!Opens(m, key)
<1> DEFINE data == Chain!Decrypted(m, key)
<1>1. Verify!Decrypted(c, key) = data
  BY SameDecrypted
<1>2. c.signature = m.signature /\ c.raw_bytes = m.raw_bytes
  BY DEF Same
<1> HIDE DEF data
<1>3. Verify!PaddingEnds(data) = Chain!PaddingEnds(data)
  BY DEF Verify!PaddingEnds, Chain!PaddingEnds
<1>4. Verify!Padded(data) <=> Chain!Padded(data)
  <2>1. \A p, q : Verify!IsPrefix(p, q) <=> Chain!IsPrefix(p, q)
    BY DEF Verify!IsPrefix, Chain!IsPrefix
  <2> QED
    BY <1>3, <2>1, SameMin DEF Verify!Padded, Chain!Padded
<1>5. Verify!Chop(data) = Chain!Chop(data)
  BY <1>3, SameMin DEF Verify!Chop, Chain!Chop
<1>6. \A p, q : Verify!Mismatches(p, q) = Chain!Mismatches(p, q)
  BY DEF Verify!Mismatches, Chain!Mismatches
<1>7. Verify!SignatureFits(c, key) <=> Chain!SignatureFits(m, key)
  BY <1>2 DEF Verify!SignatureFits, Chain!SignatureFits
<1>8. Verify!WellFormed(c, key) <=> Chain!WellFormed(m, key)
  BY <1>1, <1>4, <1>7 DEF Verify!WellFormed, Chain!WellFormed, data
<1>9. Verify!WrongOctets(c, key) = Chain!WrongOctets(m, key)
  BY <1>1, <1>2, <1>5, <1>6 DEF Verify!WrongOctets, Chain!WrongOctets, data
<1> QED
  BY <1>8, <1>9 DEF Verify!Opens, Chain!Opens
-----------------------------------------------------------------------------
(* Every step verifies what is meant, or is none of verify_cert_chain().   *)

Meant == [k \in DOMAIN message |-> message[k].meant]

LEMMA MeantType ==
  ASSUME message \in Messages
  PROVE  Meant \in Seq(MeantCert) /\ Len(Meant) = Len(message)
<1> DEFINE n == Len(message)
<1>1. n \in Nat /\ DOMAIN message = 1..n /\ \A k \in 1..n : message[k].meant \in MeantCert
  BY MessageType
<1> HIDE DEF n
<1>2. Meant = [k \in 1..n |-> message[k].meant]
  BY <1>1 DEF Meant
<1>3. [k \in 1..n |-> message[k].meant] \in Seq(MeantCert)
  BY <1>1
<1>4. Len([k \in 1..n |-> message[k].meant]) = n
  BY <1>1
<1> QED
  BY <1>2, <1>3, <1>4 DEF n

LEMMA InitChainSpec == CertificatesInit => Chain!Init
<1> SUFFICES ASSUME CertificatesInit PROVE Chain!Init
  OBVIOUS
<1>1. Meant \in Seq(MeantCert) /\ oi = 0 /\ verdict = "none"
  BY MeantType DEF CertificatesInit
<1> QED
  BY <1>1 DEF Chain!Init, Meant

\* With all certificates parsed, the next one and its key are the same.
LEMMA SameNext ==
  ASSUME ChainInv, Len(chain) = Len(message)
  PROVE  /\ Verify!current = Chain!current
         /\ Verify!Pending <=> Chain!Pending
         /\ Verify!current \in 1..Len(message) =>
              /\ Same(chain[Verify!current], Meant[Chain!current])
              /\ Verify!CaKey = Chain!CaKey
<1> DEFINE n == Len(message)
<1>1. /\ n \in Nat /\ DOMAIN message = 1..n /\ Len(chain) = n /\ Len(Meant) = n
      /\ \A k \in 1..n : Same(chain[k], message[k].meant)
  BY MessageType, MeantType DEF ChainInv
<1>2. Verify!current = Chain!current
  BY <1>1 DEF Verify!current, Chain!current, Meant
<1>3. Verify!Pending <=> Chain!Pending
  BY <1>2 DEF Verify!Pending, Chain!Pending
<1>4. \A k \in 1..n : Same(chain[k], Meant[k])
  BY <1>1 DEF Meant
<1>5. ASSUME Verify!current \in 1..n
      PROVE  Verify!CaKey = Chain!CaKey
  <2> DEFINE k == Chain!current
  <2>1. Chain!CaKey = IF k = Len(Meant) THEN Meant[k].public_key ELSE Meant[k + 1].public_key
    BY DEF Chain!CaKey, Meant
  <2>2. Verify!CaKey = IF k = Len(chain) THEN chain[k].public_key ELSE chain[k + 1].public_key
    BY <1>2 DEF Verify!CaKey
  <2>3. k \in 1..n
    BY <1>2, <1>5
  <2> HIDE DEF k, n
  <2>4. CASE k = n
    BY <1>1, <1>4, <2>1, <2>2, <2>3, <2>4 DEF Same
  <2>5. CASE k # n
    <3>1. k + 1 \in 1..n
      BY <1>1, <2>3, <2>5
    <3> QED
      BY <1>1, <1>4, <2>1, <2>2, <2>5, <3>1 DEF Same
  <2> QED
    BY <2>4, <2>5
<1> QED
  BY <1>2, <1>3, <1>4, <1>5

LEMMA VerifyStep ==
  ASSUME ChainInv, VerifyChain
  PROVE  Chain!Next
<1>1. Len(chain) = Len(message) /\ Verify!Step /\ UNCHANGED message
  BY DEF VerifyChain
<1>2. UNCHANGED Meant
  BY <1>1 DEF Meant
<1>3. /\ Len(message) \in Nat /\ \A S : Verify!Min(S) = Chain!Min(S)
      /\ Verify!current = Chain!current /\ (Verify!Pending <=> Chain!Pending)
  BY <1>1, SameNext, SameMin, MessageType DEF ChainInv
<1>4. ASSUME Verify!Pending
      PROVE  /\ Same(chain[Verify!current], Meant[Chain!current])
             /\ Verify!CaKey = Chain!CaKey
  <2>1. Verify!current \in 1..Len(message)
    <3>1. Len(message) \in Nat /\ oi \in Nat
      BY <1>3 DEF ChainInv
    <3> QED
      BY <1>1, <1>4, <3>1 DEF Verify!Pending, Verify!current
  <2> QED
    BY <1>1, <2>1, SameNext
<1>5. CASE Verify!MalformedSignature
  <2>1. Verify!Pending /\ ~Verify!WellFormed(chain[Verify!current], Verify!CaKey)
    BY <1>5 DEF Verify!MalformedSignature
  <2>2. Chain!Pending /\ ~Chain!WellFormed(Meant[Chain!current], Chain!CaKey)
    BY <1>3, <1>4, <2>1, SameFindings
  <2>3. Chain!MalformedSignature
    BY <1>2, <1>5, <2>2
       DEF Verify!MalformedSignature, Chain!MalformedSignature, Verify!Verdict, Chain!Verdict,
           Meant
  <2> QED
    BY <2>3 DEF Chain!Next, Chain!Step
<1>6. CASE Verify!HashMismatch
  <2> DEFINE k == Chain!current
             key == Chain!CaKey
  <2>1. Verify!Pending /\ Verify!WellFormed(chain[Verify!current], Verify!CaKey)
    BY <1>6 DEF Verify!HashMismatch
  <2>2. /\ Chain!Pending /\ Chain!WellFormed(Meant[k], key)
        /\ Verify!WrongOctets(chain[Verify!current], Verify!CaKey) = Chain!WrongOctets(Meant[k], key)
        /\ chain[Verify!current].raw_bytes = Meant[k].raw_bytes
    BY <1>3, <1>4, <2>1, SameFindings DEF Same
  <2> DEFINE wrong == Chain!WrongOctets(Meant[k], key)
  <2>3. /\ wrong # {} /\ UNCHANGED oi
        /\ verdict' = IF Chain!Min(wrong) > Len(Hash(Meant[k].raw_bytes))
                      THEN "abort" ELSE "false"
    BY <1>3, <1>6, <2>2 DEF Verify!HashMismatch, Verify!Verdict
  <2>4. Chain!HashMismatch
    <3> HIDE DEF wrong
    <3>1. Chain!WrongOctets(Meant[Chain!current], Chain!CaKey) = wrong
      BY DEF wrong
    <3> QED
      BY <1>2, <2>2, <2>3, <3>1 DEF Chain!HashMismatch, Chain!Verdict, Meant
  <2> QED
    BY <2>4 DEF Chain!Next, Chain!Step
<1>7. CASE Verify!Verified
  <2>1. /\ Verify!Pending /\ Verify!Opens(chain[Verify!current], Verify!CaKey)
        /\ oi' = oi + 1 /\ UNCHANGED verdict
    BY <1>7 DEF Verify!Verified
  <2>2. Chain!Pending /\ Chain!Opens(Meant[Chain!current], Chain!CaKey)
    BY <1>3, <1>4, <2>1, SameFindings
  <2>3. Chain!Verified
    BY <1>2, <2>1, <2>2 DEF Chain!Verified, Meant
  <2> QED
    BY <2>3 DEF Chain!Next, Chain!Step
<1>8. CASE Verify!AllVerified
  <2>1. Chain!AllVerified
    BY <1>2, <1>3, <1>8
       DEF Verify!AllVerified, Chain!AllVerified, Verify!Verdict, Chain!Verdict, Meant
  <2> QED
    BY <2>1 DEF Chain!Next, Chain!Step
<1> QED
  BY <1>1, <1>5, <1>6, <1>7, <1>8 DEF Verify!Step

LEMMA NextChainSpec ==
  ASSUME ChainInv, [CertificatesNext]_<<vars, x509Vars, messageVars>>
  PROVE  [Chain!Next]_Chain!vars
<1>1. CASE VerifyChain
  BY <1>1, VerifyStep
<1>2. CASE ~VerifyChain
  <2>1. UNCHANGED <<message, oi, verdict>>
    BY <1>2 DEF CertificatesNext, BeginCertificate, BeginParse, ParseCertificate,
                EndCertificate, CertificatesTerminated, messageVars
  <2> QED
    BY <2>1 DEF Chain!vars
<1> QED
  BY <1>1, <1>2

LEMMA ChainInvAlways == CertificatesSpec /\ ProperMessage => []ChainInv
<1>1. ProperMessage /\ CertificatesInv /\ ChainInv /\ ReadsCertificate /\ RefusesOthers
        /\ [CertificatesNext]_<<vars, x509Vars, messageVars>> => ChainInv'
  BY NextChain
<1> QED
  BY InitChain, ProperAlways, CertificatesInvAlways, ReadsWhatIsMeant, RefusesUnsupported,
     <1>1, PTL DEF CertificatesSpec

\* Whatever certificates a server sends, of the supported form or of another one, which
\* is refused, nothing is lost, reordered or taken for something else between the
\* octets and the verdict: every behaviour of the whole is one of verify_cert_chain()
\* on what the server meant (http.cpp:191-212, certparser.cpp:229-430).
THEOREM VerifiesWhatIsMeant == CertificatesSpec /\ ProperMessage => VerifiesMeantChain
<1>1. ChainInv /\ [CertificatesNext]_<<vars, x509Vars, messageVars>> => [Chain!Next]_Chain!vars
  BY NextChainSpec
<1> QED
  BY InitChainSpec, ChainInvAlways, <1>1, PTL DEF CertificatesSpec, VerifiesMeantChain, Chain!Spec
-----------------------------------------------------------------------------
(* From the octets of the message to the verdict.                          *)

\* Signatures that open, each under the key of the next certificate, the last one under
\* its own.
KeyFor(k) == chain[IF k = Len(chain) THEN k ELSE k + 1].public_key
OpenOnes  == {k \in DOMAIN chain : Verify!Opens(chain[k], KeyFor(k))}

\* None is looked at before all are parsed, and then they are from the last one on.
VerdictInv ==
  /\ Len(chain) < Len(message) => oi = 0 /\ verdict = "none"
  /\ oi \in 0..Len(chain)
  /\ verdict \in {"none", "true", "false", "abort"}
  /\ (Verify!current + 1)..Len(chain) \subseteq OpenOnes
  /\ verdict \in {"false", "abort"} => Verify!current \in DOMAIN chain \ OpenOnes
  /\ verdict = "true" => Verify!current = 0

LEMMA CurrentIs ==
  /\ Verify!current = Len(chain) - oi
  /\ Verify!Pending <=> verdict = "none" /\ Verify!current > 0
BY DEF Verify!current, Verify!Pending

LEMMA ChainLength ==
  ASSUME MessageInv
  PROVE  Len(chain) \in Nat /\ DOMAIN chain = 1..Len(chain)
BY DEF MessageInv, IsSeq

LEMMA InitVerdict == CertificatesInit => VerdictInv
<1> SUFFICES ASSUME CertificatesInit PROVE VerdictInv
  OBVIOUS
<1>1. chain = <<>> /\ oi = 0 /\ verdict = "none"
  BY DEF CertificatesInit
<1>2. Len(chain) = 0 /\ Verify!current = 0
  BY <1>1, CurrentIs
<1> QED
  BY <1>1, <1>2 DEF VerdictInv

\* What a step of verify_cert_chain() does to its counters.
LEMMA VerdictStep ==
  ASSUME Verify!Step
  PROVE  \/ /\ Verify!Pending /\ UNCHANGED <<chain, oi>> /\ verdict' \in {"false", "abort"}
            /\ ~Verify!Opens(chain[Verify!current], Verify!CaKey)
         \/ /\ Verify!Pending /\ oi' = oi + 1 /\ UNCHANGED <<chain, verdict>>
            /\ Verify!Opens(chain[Verify!current], Verify!CaKey)
         \/ Verify!current = 0 /\ UNCHANGED <<chain, oi>> /\ verdict' = "true"
<1>1. CASE Verify!MalformedSignature
  BY <1>1 DEF Verify!MalformedSignature, Verify!Verdict, Verify!Opens
<1>2. CASE Verify!HashMismatch
  BY <1>2 DEF Verify!HashMismatch, Verify!Verdict, Verify!Opens
<1>3. CASE Verify!Verified
  BY <1>3 DEF Verify!Verified
<1>4. CASE Verify!AllVerified
  BY <1>4 DEF Verify!AllVerified, Verify!Verdict
<1> QED
  BY <1>1, <1>2, <1>3, <1>4 DEF Verify!Step

LEMMA VerifyKeepsVerdict ==
  ASSUME MessageInv, VerdictInv, VerifyChain
  PROVE  VerdictInv'
<1> DEFINE n == Len(chain)
           k == Verify!current
           opens == Verify!Opens(chain[Verify!current], Verify!CaKey)
           S == OpenOnes
<1>1. Verify!Step /\ n = Len(message) /\ UNCHANGED message
  BY DEF VerifyChain
<1>2. /\ \/ Verify!Pending /\ UNCHANGED oi /\ verdict' \in {"false", "abort"} /\ ~opens
         \/ Verify!Pending /\ oi' = oi + 1 /\ UNCHANGED verdict /\ opens
         \/ k = 0 /\ UNCHANGED oi /\ verdict' = "true"
      /\ UNCHANGED chain
  BY <1>1, VerdictStep
<1>3. n \in Nat /\ DOMAIN chain = 1..n
  BY ChainLength
<1>4. /\ oi \in 0..n /\ k = n - oi /\ (k + 1)..n \subseteq S
      /\ verdict \in {"none", "true", "false", "abort"}
      /\ verdict \in {"false", "abort"} => k \in (1..n) \ S
      /\ verdict = "true" => k = 0
  BY <1>3, CurrentIs DEF VerdictInv
<1>5. UNCHANGED OpenOnes
  BY <1>2 DEF OpenOnes, KeyFor
<1>6. Verify!Pending => verdict = "none" /\ k \in 1..n /\ (opens <=> k \in S)
  <2> SUFFICES ASSUME Verify!Pending PROVE verdict = "none" /\ k \in 1..n /\ (opens <=> k \in S)
    OBVIOUS
  <2>1. verdict = "none" /\ k > 0
    BY CurrentIs
  <2>2. k \in 1..n
    <3> HIDE DEF k, n, S
    <3> QED
      BY <1>3, <1>4, <2>1
  <2>3. Verify!CaKey = KeyFor(k)
    BY DEF Verify!CaKey, KeyFor
  <2> QED
    BY <1>3, <2>1, <2>2, <2>3 DEF OpenOnes
<1> DEFINE k2 == k'
<1>7. /\ oi' \in 0..n /\ k2 = n - oi'
      /\ verdict' \in {"none", "true", "false", "abort"}
      /\ (k2 + 1)..n \subseteq S
      /\ verdict' \in {"false", "abort"} => k2 \in (1..n) \ S
      /\ verdict' = "true" => k2 = 0
  <2>1. k2 = n - oi'
    BY <1>2 DEF Verify!current
  <2> HIDE DEF n, k, opens, k2, S
  <2> QED
    BY <1>2, <1>3, <1>4, <1>6, <2>1
<1> QED
  BY <1>1, <1>2, <1>3, <1>5, <1>7 DEF VerdictInv

LEMMA NextVerdict ==
  ASSUME MessageInv, VerdictInv, [CertificatesNext]_allVars
  PROVE  VerdictInv'
<1>1. CASE VerifyChain
  BY <1>1, VerifyKeepsVerdict
<1>2. CASE EndCertificate
  <2>1. chain' = Append(chain, v3) /\ UNCHANGED <<message, oi, verdict>> /\ at = "returned"
    BY <1>2 DEF EndCertificate
  <2>2. IsSeq(chain) /\ Len(chain) < Len(message)
    BY <2>1 DEF MessageInv
  <2>3. oi' = 0 /\ verdict' = "none"
    BY <2>1, <2>2 DEF VerdictInv
  <2>4. Len(chain') \in Nat
    <3>1. IsSeq(chain') /\ Len(chain') = Len(chain) + 1 /\ Len(chain) \in Nat
      BY <2>1, <2>2, AppendAny
    <3> QED
      BY <3>1
  <2>5. Verify!current' = Len(chain')
    BY <2>3, <2>4 DEF Verify!current
  <2>6. (Verify!current' + 1)..Len(chain') = {}
    BY <2>4, <2>5
  <2> QED
    BY <2>3, <2>4, <2>6 DEF VerdictInv
<1>3. CASE ~VerifyChain /\ ~EndCertificate
  <2>1. UNCHANGED <<message, chain, oi, verdict>>
    BY <1>3 DEF CertificatesNext, BeginCertificate, BeginParse, ParseCertificate,
                CertificatesTerminated, messageVars, allVars
  <2>2. UNCHANGED Verify!current /\ UNCHANGED OpenOnes
    BY <2>1 DEF Verify!current, OpenOnes, KeyFor
  <2> QED
    BY <2>1, <2>2 DEF VerdictInv
<1> QED
  BY <1>1, <1>2, <1>3

LEMMA VerdictTells ==
  ASSUME MessageInv, VerdictInv, verdict # "none"
  PROVE  Len(chain) = Len(message) /\ (verdict = "true" <=> OpenOnes = DOMAIN chain)
<1> DEFINE n == Len(chain)
           k == Verify!current
           S == OpenOnes
<1>1. n \in Nat /\ DOMAIN chain = 1..n
  BY ChainLength
<1>2. n = Len(message)
  <2>1. Len(message) \in Nat /\ n <= Len(message)
    BY MessageType DEF MessageInv
  <2> QED
    BY <1>1, <2>1 DEF VerdictInv
<1>3. S \subseteq 1..n
  BY <1>1 DEF OpenOnes
<1>4. /\ (k + 1)..n \subseteq S
      /\ verdict \in {"true", "false", "abort"}
      /\ verdict \in {"false", "abort"} => k \in (1..n) \ S
      /\ verdict = "true" => k = 0
  BY <1>1 DEF VerdictInv
<1>5. verdict = "true" <=> S = 1..n
  <2> HIDE DEF n, k, S
  <2>1. CASE verdict = "true"
    <3>1. 1..n \subseteq S
      BY ONLY <1>4, <2>1
    <3> QED
      BY ONLY <1>3, <2>1, <3>1
  <2>2. CASE verdict \in {"false", "abort"}
    BY <1>4, <2>2
  <2> QED
    BY <1>4, <2>1, <2>2
<1> QED
  BY <1>1, <1>2, <1>5

\* Of any octets that parse() has made certificates of, all of them: they are accepted
\* exactly if the signature of each opens under the key read from the next one, and
\* that of the last one under its own (http.cpp:85-121, 191-212).
AcceptedIfEachOpens ==
  verdict # "none" =>
    /\ Len(chain) = Len(message)
    /\ verdict = "true" <=> \A k \in DOMAIN chain : Verify!Opens(chain[k], KeyFor(k))

THEOREM AcceptsWhatOpens == CertificatesSpec => []AcceptedIfEachOpens
<1>1. MessageInv /\ VerdictInv /\ [CertificatesNext]_allVars => VerdictInv'
  BY NextVerdict
<1>2. MessageInv /\ VerdictInv => AcceptedIfEachOpens
  BY VerdictTells DEF AcceptedIfEachOpens, OpenOnes
<1>3. CertificatesInv => MessageInv
  BY DEF CertificatesInv
<1> QED
  BY InitVerdict, CertificatesInvAlways, <1>1, <1>2, <1>3, PTL DEF CertificatesSpec, allVars

\* The same of what the server meant.
EachOpens ==
  \A k \in DOMAIN Meant :
    Chain!Opens(Meant[k], Meant[IF k = Len(Meant) THEN k ELSE k + 1].public_key)

LEMMA MeantOpens ==
  ASSUME ChainInv, Len(chain) = Len(message)
  PROVE  EachOpens <=> \A k \in DOMAIN chain : Verify!Opens(chain[k], KeyFor(k))
<1> DEFINE n == Len(chain)
<1>1. /\ n \in Nat /\ DOMAIN chain = 1..n /\ DOMAIN Meant = 1..n /\ Len(Meant) = n
      /\ DOMAIN message = 1..n
  BY MeantType, MessageType DEF ChainInv
<1>2. \A k \in 1..n : Same(chain[k], Meant[k])
  BY <1>1 DEF ChainInv, Meant
<1>3. ASSUME NEW k \in 1..n
      PROVE  Verify!Opens(chain[k], KeyFor(k))
               <=> Chain!Opens(Meant[k], Meant[IF k = Len(Meant) THEN k ELSE k + 1].public_key)
  <2> DEFINE j == IF k = n THEN k ELSE k + 1
  <2>1. j \in 1..n
    <3> HIDE DEF n
    <3> QED
      BY <1>1
  <2>2. Same(chain[j], Meant[j])
    BY <1>2, <2>1
  <2>3. KeyFor(k) = Meant[j].public_key
    BY <2>2 DEF KeyFor, Same
  <2>4. j = IF k = Len(Meant) THEN k ELSE k + 1
    BY <1>1
  <2>5. Same(chain[k], Meant[k])
    BY <1>2
  <2> HIDE DEF j
  <2>6. Verify!Opens(chain[k], KeyFor(k)) <=> Chain!Opens(Meant[k], KeyFor(k))
    BY <2>5, SameFindings
  <2> QED
    BY <2>3, <2>4, <2>6
<1> HIDE DEF n
<1> QED
  BY <1>1, <1>3 DEF EachOpens

\* Altogether, of certificates: what a server sends is accepted exactly if the signature
\* of each certificate, as it is meant, opens under the key of the next one and that of
\* the last one under its own (certparser.cpp:229-430, http.cpp:85-121, 191-212).
THEOREM AcceptsMeantIfEachOpens ==
  CertificatesSpec /\ ProperMessage => [](verdict # "none" => (verdict = "true" <=> EachOpens))
<1>1. ChainInv /\ AcceptedIfEachOpens => (verdict # "none" => (verdict = "true" <=> EachOpens))
  BY MeantOpens DEF AcceptedIfEachOpens
<1> QED
  BY AcceptsWhatOpens, ChainInvAlways, <1>1, PTL
-----------------------------------------------------------------------------
(* A chain that should pass.                                                *)

\* Every certificate of the message has the supported form.
SupportedMessage == \A k \in DOMAIN message : message[k].profile

\* Whatever its length, a chain of certificates of the supported form whose signatures
\* open gets through: no certificate is refused, no signature rejected, and the
\* program is not ended (certparser.cpp:229-430, http.cpp:85-121, 191-212).
THEOREM SupportedGetsThrough ==
  CertificatesSpec /\ SupportedMessage /\ EachOpens
    => [](at # "refused" /\ verdict \notin {"false", "abort"})
<1>1. SupportedMessage => ProperMessage
  BY DEF SupportedMessage, ProperMessage
<1>2. SupportedMessage /\ EachOpens /\ UNCHANGED message => (SupportedMessage /\ EachOpens)'
  <2> SUFFICES ASSUME EachOpens, UNCHANGED message PROVE EachOpens'
    BY DEF SupportedMessage
  <2> QED
    BY DEF EachOpens, Meant
<1>3. SupportedMessage /\ CertificatesInv /\ ReadsCertificate => at # "refused"
  <2> SUFFICES ASSUME SupportedMessage, CertificatesInv, at = "refused" PROVE Current.profile
    BY DEF ReadsCertificate
  <2>1. Len(chain) + 1 \in DOMAIN message
    <3>1. MessageInv /\ at # "idle"
      BY DEF CertificatesInv
    <3>2. Len(chain) + 1 \in 1..Len(message) /\ message \in Messages
      BY <3>1, CurrentType DEF MessageInv
    <3> QED
      BY <3>2, MessageType
  <2> QED
    BY <2>1 DEF SupportedMessage, Current
<1>4. EachOpens /\ (verdict # "none" => (verdict = "true" <=> EachOpens))
        => verdict \notin {"false", "abort"}
  OBVIOUS
<1> QED
  BY CertificatesInvAlways, ReadsWhatIsMeant, AcceptsMeantIfEachOpens, MessageStays,
     <1>1, <1>2, <1>3, <1>4, PTL DEF CertificatesSpec
=============================================================================
