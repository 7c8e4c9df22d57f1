----------------------------- MODULE ClientHello -----------------------------
(***************************************************************************)
(* client_hello(): the octets of the packed structs of tls.h as they lie   *)
(* in memory, which is what request() writes; and how a server reads them, *)
(* after RFC 5246.                                                         *)
(***************************************************************************)
EXTENDS TlsRecord

\* htons() and ltobEN24(): the most significant octet first.
U16Octets(n) == <<n \div 256, n % 256>>
U24Octets(n) == <<n \div 65536, (n \div 256) % 256, n % 256>>

RandomBytes == <<0, 0, 0, 0, 5, 0, 0, 0, 0, 0, 3, 0, 0, 1>> \o [k \in 1..13 |-> 0] \o <<6>>

CipherSuitesSlip ==   \* one more, without a change of cipher_suites_length
  <<19, 1, 19, 3, 19, 2, 192, 43, 192, 47, 204, 169, 204, 168, 192, 44, 192, 48,
    192, 10, 192, 9, 192, 19, 192, 20, 0, 156, 0, 157, 0, 47, 0, 53, 0, 10>>
CipherSuites ==
  <<19, 1, 19, 3, 19, 2, 192, 43, 192, 47, 204, 169, 204, 168, 192, 44, 192, 48,
    192, 10, 192, 9, 192, 19, 192, 20, 0, 156, 0, 157, 0, 47, 0, 53>>

\* time is the uint32_t of gmt_unix_time as the host stores it: the one field
\* without an htons().
Hello(time) ==
  <<3, 3>> \o time \o RandomBytes \o <<0>>
    \o U16Octets(34) \o CipherSuites \o <<1, 0>> \o <<0, 0>>

Handshake(type, body) == <<type>> \o U24Octets(Len(body)) \o body

Plaintext(fragment) == <<HandshakeRecord, 3, 3>> \o U16Octets(Len(fragment)) \o fragment

client_hello(time) == Plaintext(Handshake(1, Hello(time)))
-----------------------------------------------------------------------------
\* The records in o are not complete: a server waits for more.
Incomplete(o) == Len(o) < HeaderLength \/ Len(o) < HeaderLength + U16(o, 3)

\* A server takes o for one record with one ClientHello, whose vectors fill it.
\* It offers no session to resume, some suites, no compression, no extensions:
\* the ServerHello will have none, either.
UnderstoodAsHello(o) ==
  LET body == HeaderLength + PreambleLength
      sid  == body + 2 + SizeofRandom
      suites == sid + 1
      methods == suites + 2 + U16(o, suites)
      extensions == methods + 1 + o[methods + 1]
  IN /\ o[1] = HandshakeRecord
     /\ HeaderLength + U16(o, 3) = Len(o)
     /\ o[HeaderLength + 1] = 1
     /\ body + U24(o, HeaderLength + 1) = Len(o)
     /\ o[sid + 1] = 0
     /\ U16(o, suites) % 2 = 0 /\ U16(o, suites) > 0
     /\ \E k \in 1..o[methods + 1] : o[methods + 1 + k] = 0
     /\ extensions + 2 = Len(o) /\ U16(o, extensions) = 0
=============================================================================
