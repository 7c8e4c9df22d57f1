-------------------------------- MODULE X509 --------------------------------
(***************************************************************************)
(* parse() of certparser.cpp: the fields of a certificate, one action per  *)
(* field, out of the objects parse_raw() makes of its octets; and again    *)
(* parse_raw(), on the public key.                                         *)
(*                                                                         *)
(* Every assertion, throw and access to an object that is not there ends   *)
(* the program: the certificate is refused.                                *)
(***************************************************************************)
EXTENDS DerParser

CONSTANT Spelling(_)   \* the octets as which parse_impl() keeps an identifier: its
                       \* arcs in decimal, behind a name if oid_name has one

ASSUME X509Assumption ==
  /\ OctetBits = 8 /\ OidRadix = 40
  /\ ConstructedIds = {n \in 0..255 : (n \div 32) % 2 = 1}
  /\ OidIds = {n \in (0..255) \ ConstructedIds : n % 32 = 6}

VARIABLES
  at,    \* the field to read next
  root,  \* cert_and_certSigAlg_and_certSig
  s,     \* attributes of the subject read
  v3     \* the fields read

x509Vars == <<at, root, s, v3>>
-----------------------------------------------------------------------------
(* The methods of ASNObj.                                                  *)

Missing == [id |-> -1]

\* as_ASNObjs()[k]
Member(o, k) ==
  IF o.id \in ConstructedIds /\ k \in DOMAIN o.objects THEN o.objects[k] ELSE Missing
Inside(o, path) == FoldLeft(Member, o, path)

IsPrimitive(o) == o.id \in (0..255) \ ConstructedIds
Tag(o) == o.id % 32

\* as_octets()
AsOctets(o) == IF o.id \in OidIds THEN Spelling(o.arcs) ELSE o.octets

\* as_string().  A string that spells an identifier is taken for it.
IsText(o) == IsPrimitive(o) /\ Tag(o) \in {6, 12, 19}

\* as_integer(), of any primitive object.
Integer(o) == BigEndian(AsOctets(o))

\* as_utc(): YYMMDDhhmmssZ to DD.MM.YYYY.
IsUtcSlip(o) == IsPrimitive(o) /\ Tag(o) = 23 /\ Len(o.octets) = 13   \* a Z not looked for
IsUtc(o) ==
  IsPrimitive(o) /\ Tag(o) = 23 /\ Len(o.octets) = 13 /\ o.octets[13] = 90
CenturySlip(o) == IF o.octets[1] <= 53 THEN <<50, 48>> ELSE <<49, 57>>   \* <= for <
Century(o)     == IF o.octets[1] < 53  THEN <<50, 48>> ELSE <<49, 57>>
Utc(o) ==
  SubSeq(o.octets, 5, 6) \o <<46>> \o SubSeq(o.octets, 3, 4) \o <<46>>
    \o Century(o) \o SubSeq(o.octets, 1, 2)
-----------------------------------------------------------------------------
SHA256WithRSAEncryption == <<1, 2, 840, 113549, 1, 1, 11>>
RsaEncryption           == <<1, 2, 840, 113549, 1, 1, 1>>
AttributeType(n) == <<2, 5, 4, n>>
IssuerTypes  == <<AttributeType(6), AttributeType(10), AttributeType(11), AttributeType(3)>>
SubjectTypes == {AttributeType(n) : n \in {3, 6, 7, 8, 10, 11}}
KnownTypes   == {SHA256WithRSAEncryption, RsaEncryption} \cup Range(IssuerTypes) \cup SubjectTypes

\* No two identifiers are spelled alike.
ASSUME SpellingAssumption ==
  \A type \in KnownTypes :
    /\ \A other \in KnownTypes : Spelling(other) = Spelling(type) => other = type
    /\ \A o \in Objects :
         o.id \in OidIds /\ Spelling(o.arcs) = Spelling(type) => o.arcs = type

HasType(pair, type) ==
  IsText(Member(pair, 1)) /\ AsOctets(Member(pair, 1)) = Spelling(type)
Value(pair)         == Member(pair, 2)

Sequence == Member(root, 1).objects

Empty ==
  [version |-> 0, serial_number |-> 0, issuer_info |-> <<>>, valid_not_before |-> <<>>,
   valid_not_after |-> <<>>, subject_info |-> [type \in SubjectTypes |-> <<>>],
   public_key |-> [n |-> 0, e |-> 0], signature |-> 0, raw_bytes |-> <<>>]

\* What a signature is about: the first member as it was encoded.
RawBytesSlip == root.raw   \* the signature included
RawBytes     == Member(root, 1).raw

\* The call parse_raw(octets).
ParseRaw(parsed) ==
  /\ pc' = "parse"
  /\ input' = parsed
  /\ stack' = Whole(parsed.octets)

\* The call parse(): of the given input.
BeginParse(parsed) ==
  /\ ParseRaw(parsed)
  /\ at' = "objects"
  /\ s' = 0
  /\ v3' = Empty
  /\ UNCHANGED root

ParseRawStep == Step /\ UNCHANGED x509Vars

ParseRawAborts ==
  /\ at \in {"objects", "modulus"}
  /\ pc = "abort"
  /\ at' = "refused"
  /\ UNCHANGED <<vars, root, s, v3>>

\* Reads a field, which makes v3 the given value, and goes on to another.
Read(field, readable, value, next) ==
  /\ at = field
  /\ IF readable THEN at' = next /\ v3' = value ELSE at' = "refused" /\ v3' = v3
  /\ UNCHANGED <<vars, root, s>>

ReadObjects ==
  /\ at = "objects"
  /\ pc = "return"
  /\ IF /\ Len(Top.objs) = 1
        /\ Inside(Top.objs[1], <<1>>).id \in ConstructedIds
        /\ Len(Inside(Top.objs[1], <<1>>).objects) = 8
     THEN at' = "version" /\ root' = Top.objs[1]
     ELSE at' = "refused" /\ root' = root
  /\ UNCHANGED <<vars, s, v3>>

ReadVersion ==
  LET version == Member(Sequence[1], 1) IN
    Read("version",
         IsPrimitive(version) /\ Integer(version) = 2 /\ IsPrimitive(Sequence[2]),
         [v3 EXCEPT !.version = 2, !.serial_number = Integer(Sequence[2])],
         "signature_algorithm")

ReadSignatureAlgorithm ==
  Read("signature_algorithm", HasType(Sequence[3], SHA256WithRSAEncryption), v3, "issuer_info")

\* Four attributes, in this order; those behind them are not looked at.
ReadIssuer ==
  LET Pair(k) == Inside(Sequence[4], <<k, 1>>) IN
    Read("issuer_info",
         \A k \in 1..4 : HasType(Pair(k), IssuerTypes[k]) /\ IsText(Value(Pair(k))),
         [v3 EXCEPT !.issuer_info = [k \in 1..4 |-> AsOctets(Value(Pair(k)))]],
         "validity")

ReadValidity ==
  LET Bound(k) == Member(Sequence[5], k) IN
    Read("validity",
         IsUtc(Bound(1)) /\ IsUtc(Bound(2)) /\ Sequence[6].id \in ConstructedIds,
         [v3 EXCEPT !.valid_not_before = Utc(Bound(1)), !.valid_not_after = Utc(Bound(2))],
         "subject_info")

\* One turn of the loop.  Of several attributes of a type the last one counts.
ReadSubject ==
  LET pair == Inside(Sequence[6], <<s + 1, 1>>) IN
    /\ at = "subject_info"
    /\ s < Len(Sequence[6].objects)
    /\ \/ \E type \in SubjectTypes :
            /\ HasType(pair, type) /\ IsText(Value(pair))
            /\ v3' = [v3 EXCEPT !.subject_info[type] = AsOctets(Value(pair))]
            /\ s' = s + 1
            /\ at' = at
       \/ /\ ~(IsText(Value(pair)) /\ \E type \in SubjectTypes : HasType(pair, type))
          /\ at' = "refused"
          /\ UNCHANGED <<s, v3>>
    /\ UNCHANGED <<vars, root>>

\* The key is an encoding of its own, behind an octet 0, with which no spelling of an
\* identifier begins.
ReadKey ==
  LET bits == Member(Sequence[7], 2) IN
    /\ at = "subject_info"
    /\ s = Len(Sequence[6].objects)
    /\ IF /\ HasType(Member(Sequence[7], 1), RsaEncryption)
          /\ IsPrimitive(bits)
          /\ bits.octets # <<>> /\ bits.octets[1] = 0
       THEN /\ ParseRaw([octets |-> Tail(bits.octets), encoded |-> FALSE, objects |-> <<>>])
            /\ at' = "modulus"
       ELSE at' = "refused" /\ UNCHANGED vars
    /\ UNCHANGED <<root, s, v3>>

ReadModulus ==
  LET Part(k) == IF Top.objs = <<>> THEN Missing ELSE Member(Top.objs[1], k) IN
    /\ pc = "return"
    /\ Read("modulus", IsPrimitive(Part(1)) /\ IsPrimitive(Part(2)),
            [v3 EXCEPT !.public_key = [n |-> Integer(Part(1)), e |-> Integer(Part(2))]],
            "signature")

ReadSignature ==
  Read("signature",
       HasType(Member(root, 2), SHA256WithRSAEncryption) /\ IsPrimitive(Member(root, 3)),
       [v3 EXCEPT !.signature = Integer(Member(root, 3)), !.raw_bytes = RawBytes],
       "returned")

ParseStep ==
  \/ ParseRawStep \/ ParseRawAborts
  \/ ReadObjects \/ ReadVersion \/ ReadSignatureAlgorithm \/ ReadIssuer
  \/ ReadValidity \/ ReadSubject \/ ReadKey \/ ReadModulus \/ ReadSignature
=============================================================================
