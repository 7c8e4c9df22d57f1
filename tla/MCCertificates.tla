--------------------------- MODULE MCCertificates ---------------------------
(* Certificates messages for Certificates: certificates encoded field by field, *)
(* with every field as it should be or not, chains of them, encodings of other  *)
(* objects and arbitrary octets.                                                *)
EXTENDS Certificates, TLC

IdsWithBit6  == {n \in 0..255 : (n \div 32) % 2 = 1}
IdsOfOids    == {6, 70, 134, 198}

\* RSA keys, hashes of two octets of two bits and their digest info.
Keys == <<[n |-> 4757, e |-> 13, d |-> 1777], [n |-> 4819, e |-> 7, d |-> 3343],
          [n |-> 4897, e |-> 3,  d |-> 3171]>>
Public(k) == [n |-> k.n, e |-> k.e]
Info == <<2>>
HashOf(octets) ==
  LET h[from, to \in DOMAIN octets] ==
        IF from = to THEN octets[from]
        ELSE LET middle == (from + to) \div 2
             IN (h[from, middle] * 5 + h[middle + 1, to] * 3) % 16
      hash == h[1, Len(octets)]
  IN <<hash \div 4, hash % 4>>
Sign(octets, k) ==
  Verify!Power(Verify!Number(Reverse(<<0, 1, 3, 0>> \o Info \o HashOf(octets))), k.d, k.n)
-----------------------------------------------------------------------------
(* The encoder. *)

Encoded(id, length, contents, octets, arcs, objects) ==
  [id |-> id, length |-> Len(contents), raw |-> <<id>> \o length \o contents,
   octets |-> octets, arcs |-> arcs, objects |-> objects]

LengthOf(n) == CASE n < 128 -> <<n>> [] n \in 128..255 -> <<129, n>>
                 [] OTHER -> <<130, n \div 256, n % 256>>
Tlv(id, c)          == Encoded(id, LengthOf(Len(c)), c, c, <<>>, <<>>)
Identifier(c, arcs) == Encoded(6, LengthOf(Len(c)), c, <<>>, arcs, <<>>)
Group(id, objs) ==
  LET c == FlattenSeq(RawOctets(objs)) IN Encoded(id, LengthOf(Len(c)), c, <<>>, <<>>, objs)
List(objs)   == Group(48, objs)
TwoOctets(n) == <<n \div 256, n % 256>>
Algorithm(n) ==
  List(<<Identifier(<<42, 134, 72, 134, 247, 13, 1, 1, n>>, <<1, 2, 840, 113549, 1, 1, n>>),
         Tlv(5, <<>>)>>)

\* The arcs in decimal with points between; behind a name, which is left out, in
\* brackets.
RECURSIVE Decimal(_)
Decimal(n) == IF n < 10 THEN <<48 + n>> ELSE Append(Decimal(n \div 10), 48 + (n % 10))
SpellingOf(arcs) ==
  LET dotted == FoldLeft(LAMBDA text, arc : text \o <<46>> \o Decimal(arc),
                         Decimal(arcs[1]), Tail(arcs))
  IN IF arcs \in KnownTypes THEN <<32, 40>> \o dotted \o <<41>> ELSE dotted

\* An attribute is a triple: type, identifier of its string, value.  With spelled, the
\* type is a string that spells it.
Attribute(a, spelled) ==
  LET type == AttributeType(a[1]) IN
    Group(49, <<List(<<IF spelled THEN Tlv(12, SpellingOf(type))
                                  ELSE Identifier(<<85, 4, a[1]>>, type),
                       Tlv(a[2], <<a[3]>>)>>)>>)
NameOf(c, as) == List([k \in DOMAIN as |-> Attribute(as[k], c.spelled)])

Digits(n) == <<48 + (n \div 10), 48 + (n % 10)>>
UTC(year) == [id |-> 23, octets |-> Digits(year % 100) \o Digits(3) \o Digits(14)
                                      \o [k \in 1..6 |-> 48] \o <<90>>,
              text |-> Digits(14) \o <<46>> \o Digits(3) \o <<46>>
                         \o Digits(year \div 100) \o Digits(year % 100)]
GeneralizedTime == [UTC(1999) EXCEPT !.id = 24]
OddTimes == {GeneralizedTime, [UTC(1999) EXCEPT !.octets[13] = 48],
             [UTC(1999) EXCEPT !.octets = SubSeq(@, 3, 13)]}

KeyOf(c) == List([k \in DOMAIN c.key |-> Tlv(2, c.key[k])])

\* Version 1, the default, is left out.
VersionOf(c) == IF c.version = 0 THEN <<>> ELSE <<Group(160, <<Tlv(c.integer, <<c.version>>)>>)>>

Tbs(c) == List(
  VersionOf(c) \o
  << Tlv(c.integer, c.serial), Algorithm(c.algorithm),
     NameOf(c, c.issuer), List(<<Tlv(c.from.id, c.from.octets), Tlv(c.to.id, c.to.octets)>>),
     NameOf(c, c.subject),
     List(<<Algorithm(c.key_algorithm),
            Tlv(3, c.pad \o KeyOf(c).raw)>>) >>
  \o c.extensions)

Der(c, signature) ==
  List(<<Tbs(c), Algorithm(c.signature_algorithm),
         Tlv(c.signature_id, <<0>> \o TwoOctets(signature))>>)

Extensions == Group(163, <<List(<<>>)>>)

\* A certificate for key k.
For(k) ==
  [version |-> 2, integer |-> 2, serial |-> <<9, 1>>, algorithm |-> 11, spelled |-> FALSE,
   issuer |-> << <<6, 19, 65>>, <<10, 12, 66>>, <<11, 19, 67>>, <<3, 12, 68>> >>,
   from |-> UTC(1999), to |-> UTC(2031),
   subject |-> << <<6, 19, 69>>, <<8, 12, 70>>, <<7, 12, 71>>, <<10, 12, 72>>,
                  <<11, 12, 73>>, <<3, 12, 74>> >>,
   key_algorithm |-> 1, pad |-> <<0>>,
   key |-> <<TwoOctets(Keys[k].n), <<Keys[k].e>>>>,
   extensions |-> <<Extensions>>, signature_algorithm |-> 11, signature_id |-> 3,
   behind |-> <<>>]

\* The form this client supports.
Profile(c) ==
  /\ c.version = 2 /\ Len(c.extensions) = 1 /\ c.behind = <<>>
  /\ c.integer = 2 /\ ~c.spelled
  /\ <<c.algorithm, c.key_algorithm, c.signature_algorithm>> = <<11, 1, 11>>
  /\ c.signature_id = 3 /\ c.pad = <<0>> /\ Len(c.key) > 1
  /\ Len(c.issuer) > 3 /\ [k \in 1..4 |-> c.issuer[k][1]] = <<6, 10, 11, 3>>
  /\ {c.from, c.to} \cap OddTimes = {}
  /\ \A k \in DOMAIN c.subject : c.subject[k][1] \in {3, 6, 7, 8, 10, 11}
  /\ \A a \in Range(c.subject) \cup Range(SubSeq(c.issuer, 1, 4)) : a[2] \in {12, 19}

LastValue(as, type) ==
  LET own == SelectSeq(as, LAMBDA a : AttributeType(a[1]) = type)
  IN IF own = <<>> THEN <<>> ELSE <<Last(own)[3]>>

Field(c, k) == IF k \in DOMAIN c.key THEN BigEndian(c.key[k]) ELSE 0

\* The certificate of contents c, signed over the given octets with a key.
Certificate(c, over, key) ==
  LET der     == Der(c, Sign(over, key))
      all     == <<der>> \o c.behind
      encoded == c.signature_id = 3
  IN
  [octets |-> FlattenSeq(RawOctets(all)), encoded |-> encoded,
   objects |-> IF encoded THEN all ELSE <<>>,
   profile |-> Profile(c), key |-> KeyOf(c),
   meant |->
     [version |-> 2, serial_number |-> BigEndian(c.serial),
      issuer_info |-> [k \in 1..Min({4, Len(c.issuer)}) |-> <<c.issuer[k][3]>>],
      valid_not_before |-> c.from.text, valid_not_after |-> c.to.text,
      subject_info |-> [type \in SubjectTypes |-> LastValue(c.subject, type)],
      public_key |-> [n |-> Field(c, 1), e |-> Field(c, 2)],
      signature |-> Sign(over, key), raw_bytes |-> Tbs(c).raw,
      signer |-> Public(key), signed |-> Info \o HashOf(over)]]

SelfSigned(c) == Certificate(c, Tbs(c).raw, Keys[1])
-----------------------------------------------------------------------------
Times == {UTC(y) : y \in {1950, 1951, 1999, 2000, 2049}} \cup OddTimes

\* One field other than usual: octet strings for integers and strings for identifiers,
\* which the code takes, among them.
Variations ==
  LET c == For(1) IN
  {c} \cup
  {[c EXCEPT !.version = 0], [c EXCEPT !.version = 1], [c EXCEPT !.integer = 4],
   [c EXCEPT !.spelled = TRUE], [c EXCEPT !.algorithm = 5], [c EXCEPT !.key_algorithm = 10],
   [c EXCEPT !.signature_algorithm = 5], [c EXCEPT !.signature_id = 35],
   [c EXCEPT !.extensions = <<>>], [c EXCEPT !.extensions = <<Extensions, Extensions>>],
   [c EXCEPT !.pad = <<>>], [c EXCEPT !.pad = <<7>>],
   [c EXCEPT !.key = SubSeq(@, 1, 1)], [c EXCEPT !.key = <<>>],
   [c EXCEPT !.key[1] = <<0>> \o @],
   [c EXCEPT !.behind = <<Tlv(5, <<>>)>>], [c EXCEPT !.behind = <<Der(c, 9)>>]} \cup
  {[c EXCEPT !.serial = o] : o \in {<<0, 200>>, <<200, 0>>, <<>>}} \cup
  {[c EXCEPT !.from = t] : t \in Times} \cup {[c EXCEPT !.to = t] : t \in Times} \cup
  {[c EXCEPT !.issuer = as] :
     as \in {SubSeq(c.issuer, 1, 3), <<c.issuer[2], c.issuer[1], c.issuer[3], c.issuer[4]>>,
             c.issuer \o <<<<8, 12, 75>>>>, [c.issuer EXCEPT ![4][2] = 22]}} \cup
  {[c EXCEPT !.subject = as] :
     as \in {<<>>, SubSeq(c.subject, 6, 6), Reverse(c.subject), c.subject \o <<<<11, 19, 75>>>>,
             c.subject \o <<<<5, 19, 75>>>>, [c.subject EXCEPT ![3][2] = 22]}}

Leaf == [For(2) EXCEPT !.serial = <<2>>]
Middle == [For(3) EXCEPT !.serial = <<3>>]
Root == Certificate(For(1), Tbs(For(1)).raw, Keys[1])
Issued(c, k) == Certificate(c, Tbs(c).raw, Keys[k])

ChainMessages ==
  {<<>>, <<Issued(Leaf, 1), Root>>, <<Issued(Leaf, 3), Issued(Middle, 1), Root>>,
   <<Root, Issued(Leaf, 1)>>, <<Issued(Leaf, 1)>>, <<Issued(Leaf, 2), Root>>,
   <<Certificate(Leaf, Tbs(Middle).raw, Keys[1]), Root>>,
   <<SelfSigned([For(1) EXCEPT !.version = 1]), Root>>,
   <<Issued(Leaf, 1), SelfSigned([For(1) EXCEPT !.to = GeneralizedTime])>>}
-----------------------------------------------------------------------------
(* Octets that are no certificates. *)

Nobody == [signer |-> Public(Keys[1]), signed |-> <<>>]
Other(octets, encoded, objects) ==
  [octets |-> octets, encoded |-> encoded, objects |-> objects, profile |-> FALSE,
   meant |-> Nobody @@ Empty]

\* Identifiers, long and short lengths, and lengths that make a sum wrap.
Arbitrary ==
  {Other(o, FALSE, <<>>) :
     o \in UNION {[1..n -> {0, 1, 2, 6, 48, 128, 129, 131, 255}] : n \in 0..4}
             \cup {<<id, 131>> \o o : id \in {2, 48}, o \in [1..4 -> {0, 1, 250, 251, 255}]}
             \cup {<<6, 5, 42, 129, 129>> \o o : o \in [1..2 -> {1, 129}]}}

Leaves ==
  UNION {{Encoded(4, l, c, c, <<>>, <<>>) : l \in LengthOctets(Len(c))} :
           c \in {<<>>, <<9>>, [n \in 1..130 |-> n], [n \in 1..260 |-> 3]}} \cup
  {Encoded(6, <<Len(c[1])>>, c[1], <<>>, c[2], <<>>) :
     c \in {<< <<42>>, <<1, 2>> >>, << <<85, 4, 3>>, <<2, 5, 4, 3>> >>,
            << <<42, 134, 72, 0>>, <<1, 2, 840, 0>> >>}}

Around(objs) ==
  LET c == FlattenSeq(RawOctets(objs))
  IN {Encoded(48, l, c, <<>>, <<>>, objs) : l \in LengthOctets(Len(c))}

Flat     == UNION {[1..n -> Leaves] : n \in 0..2}
Nested   == UNION {Around(objs) : objs \in Flat}
Small    == {n \in Nested : n.length < 4}
Outer    == UNION {Around(<<n>>) : n \in Small}
Deep     == {<<o>> : o \in Outer} \cup {<<n, m>> : n \in Small, m \in Small}

Encodings ==
  {Other(FlattenSeq(RawOctets(objs)), TRUE, objs) :
     objs \in Flat \cup {<<n>> : n \in Nested} \cup Deep}

-----------------------------------------------------------------------------
Singles     == {SelfSigned(c) : c \in Variations} \cup Arbitrary \cup Encodings
AllMessages == ChainMessages \cup {<<c>> : c \in Singles}
AllInputs   == Singles \cup UNION {Range(m) : m \in ChainMessages}

RECURSIVE Parts(_)
Parts(o) == {o} \cup UNION {Parts(p) : p \in Range(o.objects)}
SignedObjects ==
  UNION {Parts(o) : o \in UNION {Range(c.objects) \cup {c.key} :
                                  c \in AllInputs \ (Arbitrary \cup Encodings)}}
AllObjects == {o : o \in Leaves \cup Nested \cup Outer \cup SignedObjects}
=============================================================================
