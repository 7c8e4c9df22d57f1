----------------------------- MODULE DerParser -----------------------------
(***************************************************************************)
(* parse_raw() and parse_impl() of certparser.cpp: octets into a list of   *)
(* objects, constructed ones with the objects inside them.  The recursion  *)
(* is a stack of the spans being parsed.                                   *)
(*                                                                         *)
(* OctetBits is 8 in the code, SizeOctets is sizeof(size_t) and OidRadix   *)
(* is 40.  Sizes are size_t and wrap.  An access outside a span aborts, as *)
(* it does in the debug-mode build.                                        *)
(***************************************************************************)
EXTENDS Integers, Sequences, SequencesExt, Powers

CONSTANTS
  OctetBits, SizeOctets, OidRadix,
  ConstructedIds,  \* identifier octets with the bit 0010'0000
  OidIds,          \* the other ones with the tag OBJECT_IDENTIFIER
  Inputs,          \* [octets, encoded, objects]: what to parse, whether it is
                   \* the encoding of objects, and these
  Objects          \* the objects that inputs encode, at any depth

Base      == 2^OctetBits
High      == 2^(OctetBits - 1)    \* 1000'0000
SizeLimit == Base^SizeOctets
Rest      == SizeLimit - 1        \* std::dynamic_extent

ASSUME DerAssumption ==
  /\ {OctetBits, SizeOctets, OidRadix, Base, High, SizeLimit} \subseteq Nat \ {0}
  /\ High > 1
  /\ PowersUpTo(Base, SizeOctets) /\ PowersUpTo(High, SizeOctets)
  /\ ConstructedIds \cup OidIds \subseteq 0..(Base - 1)
  /\ ConstructedIds \cap OidIds = {}
  /\ \A input \in Inputs :   \* it is in memory, so its size is a size_t
       input.octets \in Seq(0..(Base - 1)) /\ Len(input.octets) < SizeLimit

VARIABLES
  pc,
  input,
  stack   \* the spans being parsed, the innermost last

vars == <<pc, input, stack>>

\* A span: size octets behind the first base ones of the input, i of them
\* parsed into objs.
Span(base, size) == [base |-> base, size |-> size, i |-> 0, objs |-> <<>>]

Whole(octets) == <<Span(0, Len(octets))>>

Init ==
  /\ pc = "parse"
  /\ input \in Inputs
  /\ stack = Whole(input.octets)

Top == Last(stack)

\* Of the span s: its octet i, and n octets of it from number i on.
OctetAt(s, i)  == input.octets[s.base + i + 1]
Slice(s, i, n) == SubSeq(input.octets, s.base + i + 1, s.base + i + n)

\* subspan(i, n): Rest stands for all that is behind i.
SubspanFits(s, i, n) == i <= s.size /\ (n = Rest \/ i + n <= s.size)
SubspanSize(s, i, n) == IF n = Rest THEN s.size - i ELSE n
-----------------------------------------------------------------------------
(* The header of the next object of s: its identifier and its length.      *)

Id(s) == OctetAt(s, s.i)

\* parse_length(): one octet, or the count of those that follow.
LengthOctet(s) == OctetAt(s, s.i + 1)
LengthCount(s) == IF LengthOctet(s) < High THEN 0 ELSE LengthOctet(s) - High

LengthParses(s) ==
  /\ s.i + 1 < s.size
  /\ LengthCount(s) < High - 1          \* not the reserved value
  /\ LengthCount(s) <= SizeOctets
  /\ s.i + 1 + LengthCount(s) < s.size

BigEndian(octets) == FoldLeft(LAMBDA n, o : n * Base + o, 0, octets)

ContentLengthSlip(s) ==   \* least significant octet first
  IF LengthOctet(s) < High THEN LengthOctet(s)
  ELSE BigEndian(Reverse(Slice(s, s.i + 2, LengthCount(s))))

ContentLength(s) ==
  IF LengthOctet(s) < High THEN LengthOctet(s)
  ELSE BigEndian(Slice(s, s.i + 2, LengthCount(s)))

ContentAt(s)   == s.i + 2 + LengthCount(s)
TotalLength(s) == (ContentAt(s) - s.i + ContentLength(s)) % SizeLimit

ContentSize(s) == SubspanSize(s, ContentAt(s), ContentLength(s))
Content(s)     == Slice(s, ContentAt(s), ContentSize(s))
Raw(s)         == Slice(s, s.i, SubspanSize(s, s.i, TotalLength(s)))

SpansFit(s) ==
  /\ SubspanFits(s, s.i, TotalLength(s))
  /\ SubspanFits(s, ContentAt(s), ContentLength(s))
-----------------------------------------------------------------------------
(* parse_oid(): the first octet holds two arcs, every other arc ends with  *)
(* an octet below High.  An arc without an end is left out.                *)

NextArcOctet(s, o) ==
  IF o < High
  THEN [arcs |-> Append(s.arcs, s.n * High + o), n |-> 0, octets |-> 0,
        longest |-> Max({s.longest, s.octets + 1})]
  ELSE [s EXCEPT !.n = s.n * High + (o - High), !.octets = s.octets + 1]

Oid(octets) ==
  FoldLeft(NextArcOctet,
           [arcs |-> <<octets[1] \div OidRadix, octets[1] % OidRadix>>,
            n |-> 0, octets |-> 0, longest |-> 0],
           Tail(octets))

OidParses(octets) == octets # <<>> /\ Oid(octets).longest <= SizeOctets
-----------------------------------------------------------------------------
(* parse_impl(): one object after the other.                               *)

More == pc = "parse" /\ Top.i < Top.size

Object(s, octets, arcs, objects) ==
  [id |-> Id(s), length |-> ContentLength(s), raw |-> Raw(s),
   octets |-> octets, arcs |-> arcs, objects |-> objects]

\* The next object is obj; what follows begins behind it.
AdvanceSlip(s, obj) ==   \* objs->emplace_back() forgotten for what has no contents
  [s EXCEPT !.i = ContentAt(s) + obj.length,
            !.objs = IF obj.length = 0 THEN s.objs ELSE Append(s.objs, obj)]

Advance(s, obj) ==
  [s EXCEPT !.i = (ContentAt(s) + obj.length) % SizeLimit,
            !.objs = Append(s.objs, obj)]

Primitive ==
  /\ More
  /\ LengthParses(Top)
  /\ SpansFit(Top)
  /\ Id(Top) \notin ConstructedIds
  /\ \/ /\ Id(Top) \notin OidIds
        /\ stack' = Append(Front(stack),
                           Advance(Top, Object(Top, Content(Top), <<>>, <<>>)))
     \/ /\ Id(Top) \in OidIds
        /\ OidParses(Content(Top))
        /\ stack' = Append(Front(stack),
                           Advance(Top, Object(Top, <<>>, Oid(Content(Top)).arcs, <<>>)))
  /\ UNCHANGED <<pc, input>>

InnerSlip(s) == Span(s.base + s.i, Len(Raw(s)))   \* total_span for span
Inner(s)     == Span(s.base + ContentAt(s), ContentSize(s))

\* content = parse_impl(span)
BeginConstructed ==
  /\ More
  /\ LengthParses(Top)
  /\ SpansFit(Top)
  /\ Id(Top) \in ConstructedIds
  /\ stack' = Append(stack, Inner(Top))
  /\ UNCHANGED <<pc, input>>

\* The call returns its objects to the one around it.
EndConstructed ==
  /\ pc = "parse"
  /\ Top.i >= Top.size
  /\ Len(stack) > 1
  /\ LET outer == Last(Front(stack)) IN
       stack' = Append(Front(Front(stack)),
                       Advance(outer, Object(outer, <<>>, <<>>, Top.objs)))
  /\ UNCHANGED <<pc, input>>

Abort ==
  /\ More
  /\ \/ ~LengthParses(Top)
     \/ /\ LengthParses(Top)
        /\ \/ ~SpansFit(Top)
           \/ SpansFit(Top) /\ Id(Top) \in OidIds /\ ~OidParses(Content(Top))
  /\ pc' = "abort"
  /\ UNCHANGED <<input, stack>>

Return ==
  /\ pc = "parse"
  /\ Top.i >= Top.size
  /\ Len(stack) = 1
  /\ pc' = "return"
  /\ UNCHANGED <<input, stack>>

Terminated == pc \in {"return", "abort"} /\ UNCHANGED vars

Step == Primitive \/ BeginConstructed \/ EndConstructed \/ Abort \/ Return
Next == Step \/ Terminated

Spec == Init /\ [][Next]_vars
-----------------------------------------------------------------------------
(* What it is to encode objects: an identifier, a length and contents, each  *)
(* number with the most significant octet, or digit, first.                  *)

InBase(n, base, count) == [k \in 1..count |-> (n \div base^(count - k)) % base]

LengthOctets(n) ==
  {<<m>> : m \in {n} \cap 0..(High - 1)} \cup
  {<<High + count>> \o InBase(n, Base, count) :
     count \in {k \in 1..SizeOctets : k < High - 1 /\ n < Base^k}}

ArcOctets(n, count) ==
  [k \in 1..count |-> InBase(n, High, count)[k] + (IF k < count THEN High ELSE 0)]

EncodeArcs(octets, arcs) ==
  /\ Len(arcs) > 1 /\ arcs[2] < OidRadix
  /\ \E counts \in [1..(Len(arcs) - 2) -> 1..SizeOctets] :
       /\ \A k \in DOMAIN counts : arcs[k + 2] < High^counts[k]
       /\ octets = <<arcs[1] * OidRadix + arcs[2]>>
                     \o FlattenSeq([k \in DOMAIN counts |-> ArcOctets(arcs[k + 2], counts[k])])

RawOctets(objs) == [k \in DOMAIN objs |-> objs[k].raw]
Contents(o)     == SubSeq(o.raw, Len(o.raw) - o.length + 1, Len(o.raw))

IsEncoded(o) ==
  /\ o.length <= Len(o.raw)
  /\ \E octets \in LengthOctets(o.length) : o.raw = <<o.id>> \o octets \o Contents(o)
  /\ \/ /\ o.id \in ConstructedIds
        /\ Contents(o) = FlattenSeq(RawOctets(o.objects))
        /\ o.octets = <<>> /\ o.arcs = <<>>
     \/ /\ o.id \in OidIds
        /\ EncodeArcs(Contents(o), o.arcs)
        /\ o.octets = <<>> /\ o.objects = <<>>
     \/ /\ o.id \notin ConstructedIds \cup OidIds
        /\ o.octets = Contents(o)
        /\ o.arcs = <<>> /\ o.objects = <<>>

ASSUME EncodingsAssumption ==
  /\ Objects \subseteq [id : Nat, length : Nat, raw : Seq(Nat), octets : Seq(Nat),
                        arcs : Seq(Nat), objects : Seq(Objects)]
  /\ \A o \in Objects : IsEncoded(o)
  /\ \A t \in Inputs :
       t.encoded => t.objects \in Seq(Objects) /\ t.octets = FlattenSeq(RawOctets(t.objects))
-----------------------------------------------------------------------------
\* What encodes objects is parsed into exactly these, however deep they are and
\* whatever octets their lengths take (certparser.cpp:258-290).
ParsesEncodings ==
  input.encoded =>
    /\ pc # "abort"
    /\ pc = "return" => stack[1].objs = input.objects

\* At any depth the raw octets of the objects parsed so far are, one after the
\* other, the octets passed over: nothing is skipped or parsed twice
\* (certparser.cpp:265-286).  An object with the largest length is left out: it
\* is taken for all the rest.  This is what hashing raw_bytes() relies on.
RawOctetsTile ==
  \A k \in DOMAIN stack :
    LET s == stack[k] IN
      (\A j \in DOMAIN s.objs : s.objs[j].length < Rest)
        => FlattenSeq(RawOctets(s.objs)) = Slice(s, 0, s.i)

\* Every turn parses on, or into a shorter span, so that any octets come to an
\* end (certparser.cpp:260, 283-285).
ParsesOn ==
  [][\/ pc # "parse" \/ pc' # "parse"
     \/ Len(stack') > Len(stack) /\ Last(stack').size < Top.size
     \/ Len(stack') <= Len(stack) /\ Last(stack').i > stack[Len(stack')].i]_vars
=============================================================================
