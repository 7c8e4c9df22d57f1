------------------------------ MODULE TlsRecord ------------------------------
(***************************************************************************)
(* The wire format of tls.h, as the decoder of http.cpp reads it: sizes of *)
(* the packed structs, handshake types, big-endian length fields, and what *)
(* it means for the octets of one server flight to be well framed.         *)
(* Offsets into an octet sequence are zero-based, as in the code.          *)
(***************************************************************************)
EXTENDS Integers, Sequences

Octet == 0..255

\* sizeof of the packed structs of tls.h.
SizeofRandom      == 4 + 28
SizeofClientHello == 2 + SizeofRandom + 1 + 2 + 34 + 1 + 1 + 2
HeaderLength      == 5                                   \* TLSPlaintext
PreambleLength    == 4                                   \* Handshake
PayloadLength     == HeaderLength + PreambleLength + SizeofClientHello

\* TLSPlaintext.type and the specialisations of msg_type<T>().
HandshakeRecord     == 22
ServerHelloType     == 2
CertificatesType    == 11
ServerHelloDoneType == 14

\* The octets of ServerHello up to session_id_length, and those after session_id.
HelloHeadLength == 2 + SizeofRandom + 1
HelloTailLength == 3
MaxSessionId    == 32

\* btolEN24_u32 and the two-octet record length, at offset i of s.
U16(s, i) == s[i + 1] * 256 + s[i + 2]
U24(s, i) == s[i + 1] * 65536 + s[i + 2] * 256 + s[i + 3]
-----------------------------------------------------------------------------
(***************************************************************************)
(* A flight is what one server sends on one connection:                    *)
(*   octets   the TCP stream,                                              *)
(*   starts   the offsets at which its records begin, and where it ends,   *)
(*   entries  <<c, e>> for every offset c inside a certificate list that   *)
(*            ends at e, at which a certificate entry begins (or c = e),   *)
(*   msgs     the handshake messages the server meant,                     *)
(*   number   for every start how many of them end before it,              *)
(*   lists    for every entry the certificates of its list before it.      *)
(***************************************************************************)
RecordEnd(o, s) == s + HeaderLength + U16(o, s + 3)

\* The record at s carries exactly one handshake message.
OneMessage(o, s) ==
  /\ o[s + 1] = HandshakeRecord
  /\ U16(o, s + 3) >= PreambleLength
  /\ U24(o, s + HeaderLength + 1) = U16(o, s + 3) - PreambleLength

HandshakeType(o, s) == o[s + HeaderLength + 1]
Payload(s)          == s + HeaderLength + PreambleLength

\* A ServerHello without extensions: the client offers none.
WellFormedHello(o, s) ==
  LET e == RecordEnd(o, s) IN
    /\ e >= Payload(s) + HelloHeadLength + HelloTailLength
    /\ o[Payload(s) + HelloHeadLength] <= MaxSessionId
    /\ e = Payload(s) + HelloHeadLength + o[Payload(s) + HelloHeadLength]
             + HelloTailLength

WellFormedCertificates(f, s) ==
  /\ RecordEnd(f.octets, s) >= Payload(s) + 3
  /\ <<Payload(s) + 3, RecordEnd(f.octets, s)>> \in f.entries

WellFormedEntries(f) ==
  \A p \in f.entries :
    /\ p[1] <= p[2]
    /\ p[2] <= Len(f.octets)
    /\ p[1] < p[2] =>
         /\ p[1] + 3 <= p[2]
         /\ <<p[1] + 3 + U24(f.octets, p[1]), p[2]>> \in f.entries

\* Every record is complete, records follow one another, and the body of every
\* message the decoder opens is as long as its fields say.
WellFramed(f) ==
  /\ 0 \in f.starts
  /\ WellFormedEntries(f)
  /\ \A s \in f.starts : s < Len(f.octets) =>
       LET type == HandshakeType(f.octets, s) IN
         /\ s + HeaderLength <= Len(f.octets)
         /\ RecordEnd(f.octets, s) \in f.starts
         /\ \A t \in f.starts : s < t => RecordEnd(f.octets, s) <= t
         /\ OneMessage(f.octets, s) =>
              /\ type = ServerHelloType => WellFormedHello(f.octets, s)
              /\ type = CertificatesType => WellFormedCertificates(f, s)
              /\ type = ServerHelloDoneType => RecordEnd(f.octets, s) = Payload(s)
=============================================================================
