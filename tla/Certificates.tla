---------------------------- MODULE Certificates ----------------------------
(***************************************************************************)
(* The Certificates case of try_decode(), http.cpp: every certificate of   *)
(* the message is parsed (X509), and the chain of them is verified         *)
(* (CertChain).  Request cuts the certificates out of the message.         *)
(*                                                                         *)
(* A certificate is an input of DerParser.  It also carries what the code  *)
(* does not see: whether it has the form this client supports (profile),   *)
(* and what is meant: the fields it encodes, who signed it and what.       *)
(***************************************************************************)
EXTENDS X509

CONSTANTS
  Messages,       \* sequences of certificates
  SignatureBits,  \* OctetBits of CertChain
  MaxAmount, Hash(_), DigestInfo   \* see CertChain

Octets    == Seq(0..255)
PublicKey == [n : Nat, e : Nat]

\* X509v3, with the one who signed and what was signed.
MeantCert ==
  [version : Nat, serial_number : Nat, issuer_info : Seq(Octets),
   valid_not_before : Octets, valid_not_after : Octets,
   subject_info : [SubjectTypes -> Octets], public_key : PublicKey, signature : Nat,
   raw_bytes : Octets, signer : PublicKey, signed : Octets]

ASSUME MessagesAssumption ==
  /\ Messages \subseteq Seq(Inputs)
  /\ \A c \in Inputs : c.profile \in BOOLEAN /\ c.meant \in MeantCert

VARIABLES
  message,
  chain,       \* cert_chain: the certificates parsed
  oi, verdict  \* see CertChain

messageVars == <<message, chain, oi, verdict>>

Verify == INSTANCE CertChain WITH
            certs <- chain, OctetBits <- SignatureBits, Certs <- {}, Chains <- {}

NoInput == [octets |-> <<>>, encoded |-> FALSE, objects |-> <<>>]

CertificatesInit ==
  /\ message \in Messages
  /\ chain = <<>>
  /\ oi = 0
  /\ verdict = "none"
  /\ at = "idle"
  /\ pc = "return" /\ input = NoInput /\ stack = Whole(<<>>)
  /\ root = Missing /\ s = 0 /\ v3 = Empty

Current == message[Len(chain) + 1]

BeginCertificate ==
  /\ at = "idle"
  /\ Len(chain) < Len(message)
  /\ BeginParse(Current)
  /\ UNCHANGED messageVars

ParseCertificate == ParseStep /\ UNCHANGED messageVars

EndCertificateSlip ==   \* the root first
  /\ at = "returned"
  /\ at' = "idle"
  /\ chain' = <<v3>> \o chain
  /\ UNCHANGED <<vars, root, s, v3, message, oi, verdict>>

EndCertificate ==
  /\ at = "returned"
  /\ at' = "idle"
  /\ chain' = Append(chain, v3)
  /\ UNCHANGED <<vars, root, s, v3, message, oi, verdict>>

VerifyChain ==
  /\ at = "idle"
  /\ Len(chain) = Len(message)
  /\ Verify!Step
  /\ UNCHANGED <<vars, x509Vars, message>>

CertificatesTerminated ==
  /\ at = "refused" \/ verdict # "none"
  /\ UNCHANGED <<vars, x509Vars, messageVars>>

CertificatesNext ==
  \/ BeginCertificate \/ ParseCertificate \/ EndCertificate
  \/ VerifyChain \/ CertificatesTerminated

CertificatesSpec ==
  CertificatesInit /\ [][CertificatesNext]_<<vars, x509Vars, messageVars>>
-----------------------------------------------------------------------------
(* What a certificate of the supported form is: which objects it encodes, and *)
(* what they mean.                                                            *)

IsList(o, n)          == o.id = 48 /\ Len(o.objects) = n
IsIdentifier(o, arcs) == o.id = 6 /\ o.arcs = arcs
IsInteger(o, n)       == o.id = 2 /\ n = BigEndian(o.octets)

\* An identifier and its parameters, if any.
IsAlgorithm(o, arcs) ==
  o.id = 48 /\ Len(o.objects) \in 1..2 /\ IsIdentifier(o.objects[1], arcs)

\* A bit string: the number of unused bits, which is 0, and the bits.
HasBits(o) == o.id = 3 /\ o.octets # <<>> /\ o.octets[1] = 0
Bits(o)    == Tail(o.octets)

\* A set of one attribute: its type and a string.
TypeOf(o)  == o.objects[1].objects[1].arcs
ValueOf(o) == o.objects[1].objects[2].octets
IsAttribute(o, types) ==
  /\ o.id = 49 /\ Len(o.objects) = 1
  /\ IsList(o.objects[1], 2)
  /\ o.objects[1].objects[1].id = 6 /\ TypeOf(o) \in types
  /\ o.objects[1].objects[2].id \in {12, 19}

\* The issuer begins with four attributes of these types.
IsIssuer(o, values) ==
  /\ o.id = 48 /\ Len(o.objects) >= 4 /\ Len(values) = 4
  /\ \A k \in 1..4 :
       IsAttribute(o.objects[k], {IssuerTypes[k]}) /\ values[k] = ValueOf(o.objects[k])

\* The value of a type is that of the last attribute of this type, if there is one.
IsSubject(o, values) ==
  /\ o.id = 48
  /\ \A k \in DOMAIN o.objects : IsAttribute(o.objects[k], SubjectTypes)
  /\ \A type \in SubjectTypes :
       \/ values[type] = <<>> /\ \A k \in DOMAIN o.objects : TypeOf(o.objects[k]) # type
       \/ \E k \in DOMAIN o.objects :
            /\ TypeOf(o.objects[k]) = type /\ values[type] = ValueOf(o.objects[k])
            /\ \A j \in DOMAIN o.objects : j > k => TypeOf(o.objects[j]) # type

\* YYMMDDhhmmssZ, of the years 1950 to 2049 (RFC 5280, 4.1.2.5.1).
IsTime(o, text) ==
  /\ o.id = 23 /\ Len(o.octets) = 13
  /\ \A k \in 1..12 : o.octets[k] \in 48..57
  /\ o.octets[13] = 90
  /\ LET Two(k) == SubSeq(o.octets, k, k + 1)
         year   == (o.octets[1] - 48) * 10 + (o.octets[2] - 48)
     IN text = Two(5) \o <<46>> \o Two(3) \o <<46>>
                 \o (IF year < 50 THEN <<50, 48>> ELSE <<49, 57>>) \o Two(1)

\* The key is an object of its own, in a bit string.
IsKey(o, key) ==
  /\ IsList(o, 2)
  /\ IsAlgorithm(o.objects[1], RsaEncryption)
  /\ HasBits(o.objects[2])
  /\ \E pair \in Objects :
       /\ Bits(o.objects[2]) = pair.raw
       /\ IsList(pair, 2)
       /\ IsInteger(pair.objects[1], key.n) /\ IsInteger(pair.objects[2], key.e)

IsContents(tbs, m) ==
  LET part == tbs.objects IN
    /\ IsList(tbs, 8)
    /\ part[1].id = 160 /\ Len(part[1].objects) = 1
    /\ IsInteger(part[1].objects[1], 2) /\ m.version = 2
    /\ IsInteger(part[2], m.serial_number)
    /\ IsAlgorithm(part[3], SHA256WithRSAEncryption)
    /\ IsIssuer(part[4], m.issuer_info)
    /\ IsList(part[5], 2)
    /\ IsTime(part[5].objects[1], m.valid_not_before)
    /\ IsTime(part[5].objects[2], m.valid_not_after)
    /\ IsSubject(part[6], m.subject_info)
    /\ IsKey(part[7], m.public_key)
    /\ m.raw_bytes = tbs.raw

IsCertificate(o, m) ==
  /\ IsList(o, 3)
  /\ IsContents(o.objects[1], m)
  /\ IsAlgorithm(o.objects[2], SHA256WithRSAEncryption)
  /\ HasBits(o.objects[3]) /\ m.signature = BigEndian(Bits(o.objects[3]))

-----------------------------------------------------------------------------
(* The syntax of any certificate (RFC 5280, 4.1), with names of one attribute  *)
(* each, and where the supported form differs from others of this syntax.      *)

IsAlgorithmIdentifier(o) == o.id = 48 /\ Len(o.objects) \in 1..2 /\ o.objects[1].id = 6

StringIds == {12, 19, 20, 22, 28, 30}
IsName(o) ==
  /\ o.id = 48
  /\ \A k \in DOMAIN o.objects :
       /\ o.objects[k].id = 49 /\ Len(o.objects[k].objects) = 1
       /\ IsList(o.objects[k].objects[1], 2)
       /\ o.objects[k].objects[1].objects[1].id = 6
       /\ o.objects[k].objects[1].objects[2].id \in StringIds

\* UTCTime or GeneralizedTime: digits, the last of which may be a Z.
IsDate(o) ==
  /\ o.id \in {23, 24} /\ o.octets # <<>>
  /\ \A k \in DOMAIN o.octets :
       o.octets[k] \in 48..57 \/ (k = Len(o.octets) /\ o.octets[k] = 90)

\* Up to two integers in the bits of o.
HoldsIntegers(o, key) ==
  /\ Bits(o) = key.raw
  /\ key.id = 48 /\ Len(key.objects) <= 2
  /\ \A k \in DOMAIN key.objects : key.objects[k].id = 2

IsKeyInfo(o) ==
  /\ IsList(o, 2)
  /\ IsAlgorithmIdentifier(o.objects[1])
  /\ o.objects[2].id = 3 /\ o.objects[2].octets # <<>>
  /\ IsAlgorithm(o.objects[1], RsaEncryption) /\ HasBits(o.objects[2]) =>
       \E key \in Objects : HoldsIntegers(o.objects[2], key)

\* Without a version, nothing is behind the key.
IsTbs(o) ==
  LET versions == IF Len(o.objects) = 6 THEN 0 ELSE 1
      Part(k)  == o.objects[versions + k]
  IN
  /\ o.id = 48 /\ Len(o.objects) \in 6..10
  /\ versions = 1 =>
       o.objects[1].id = 160 /\ Len(o.objects[1].objects) = 1 /\ o.objects[1].objects[1].id = 2
  /\ Part(1).id = 2
  /\ IsAlgorithmIdentifier(Part(2))
  /\ IsName(Part(3)) /\ IsName(Part(5))
  /\ IsList(Part(4), 2) /\ IsDate(Part(4).objects[1]) /\ IsDate(Part(4).objects[2])
  /\ IsKeyInfo(Part(6))

IsX509(o) ==
  /\ IsList(o, 3)
  /\ IsTbs(o.objects[1])
  /\ IsAlgorithmIdentifier(o.objects[2])
  /\ HasBits(o.objects[3])

\* Certificates, of which the code wants one.
Conforming(c) ==
  c.encoded /\ c.objects # <<>> /\ \A k \in DOMAIN c.objects : IsX509(c.objects[k])

IsSupportedTbs(o) ==
  LET part == o.objects IN
    /\ Len(part) = 8
    /\ BigEndian(part[1].objects[1].octets) = 2
    /\ IsAlgorithm(part[3], SHA256WithRSAEncryption)
    /\ Len(part[4].objects) >= 4
    /\ \A k \in 1..4 : IsAttribute(part[4].objects[k], {IssuerTypes[k]})
    /\ \A k \in 1..2 : LET date == part[5].objects[k] IN
         date.id = 23 /\ Len(date.octets) = 13 /\ date.octets[13] = 90
    /\ \A k \in DOMAIN part[6].objects : IsAttribute(part[6].objects[k], SubjectTypes)
    /\ IsAlgorithm(part[7].objects[1], RsaEncryption)
    /\ HasBits(part[7].objects[2])
    /\ \E key \in Objects :
         HoldsIntegers(part[7].objects[2], key) /\ Len(key.objects) = 2

IsSupported(o) ==
  IsSupportedTbs(o.objects[1]) /\ IsAlgorithm(o.objects[2], SHA256WithRSAEncryption)

ASSUME CertificatesAssumption ==
  \A c \in Inputs :
    /\ c.profile => c.encoded /\ Len(c.objects) = 1 /\ IsCertificate(c.objects[1], c.meant)
    /\ Conforming(c) /\ Len(c.objects) = 1 /\ IsSupported(c.objects[1]) => c.profile

\* A certificate of the supported form is not refused and gives exactly the fields
\* it encodes, dates and attributes among them (certparser.cpp:302-430,
\* certparser.h:160-212).
ReadsCertificate ==
  /\ at = "refused" => ~Current.profile
  /\ at = "returned" /\ Current.profile => \A f \in DOMAIN v3 : v3[f] = Current.meant[f]

\* Of the certificates of the syntax above none gets through but those of the
\* supported form: other versions and numbers of members, algorithms, attributes or
\* an order of them, strings, dates, keys, and a second certificate behind the first
\* are all refused (certparser.cpp:302-430).  Of octets outside the syntax this is
\* not so: tags and classes are looked at only here and there.
RefusesOthers == at = "returned" /\ Conforming(Current) => Current.profile

\* The whole implements CertChain on the certificates that the server meant:
\* between the octets and the verdict nothing is lost, reordered or taken for
\* something else (http.cpp:191-212).
Chain == INSTANCE CertChain WITH
           certs <- [k \in DOMAIN message |-> message[k].meant], OctetBits <- SignatureBits,
           Certs <- MeantCert, Chains <- Seq(MeantCert)
VerifiesMeantChain == Chain!Spec

\* What the server meant is accepted exactly if every certificate of it is signed by
\* the next one and the last one by itself: from the octets of the message to the
\* verdict (http.cpp:85-121, 191-212).
AcceptsMeantChain == Chain!AcceptedIffSigned
=============================================================================
