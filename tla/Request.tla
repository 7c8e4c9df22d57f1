------------------------------- MODULE Request -------------------------------
(***************************************************************************)
(* request() and try_decode() of http.cpp: one connection on which the     *)
(* client sends its ClientHello, reads whatever TCP hands it, and decodes  *)
(* every complete record as soon as its last octet has arrived.            *)
(*                                                                         *)
(* The program is one thread.  pc names the place where it stands; the     *)
(* body of try_decode's loop is split into one action per decision.  What  *)
(* the peer does shows in the outcome of connect, write and read: how many *)
(* octets each read returns, and whether it reports an end or an error.    *)
(***************************************************************************)
EXTENDS ClientHello

CONSTANTS
  Flights,       \* what servers may send: see TlsRecord
  BufferSize,    \* sizeof(data), 4096 in request()
  NodeSize,      \* octets in one node of std::deque<uint8_t>: 512
  ParseCert(_),  \* parse() on the octets of one certificate
  VerifyChain(_) \* verify_cert_chain(): one of Verdicts

Malformed == "malformed"                 \* parse() aborts or throws
Verdicts  == {"true", "false", "abort"}  \* "abort": no result is returned

ASSUME BufferSizeAssumption == BufferSize \in Nat \ {0}
ASSUME NodeSizeAssumption   == NodeSize \in Nat \ {0}
ASSUME FlightsAssumption ==
  \A f \in Flights : /\ f.octets \in Seq(Octet)
                     /\ f.starts \subseteq 0..Len(f.octets)
                     /\ f.entries \subseteq Nat \X Nat

\* The certificate of the entry at offset c of a list, and where the next begins.
EntryCert(o, c) == ParseCert(SubSeq(o, c + 4, c + 3 + U24(o, c)))
EntryEnd(o, c)  == c + 3 + U24(o, c)

\* What the server meant by the hello, or the certificates, of the record at s.
HelloMeant(f, s) ==
  LET head == Payload(s) + HelloHeadLength
      end  == head + f.octets[head]
  IN [message |-> "ServerHello", session_id |-> SubSeq(f.octets, head + 1, end),
      cipher_suite |-> SubSeq(f.octets, end + 1, end + 2)]
ListMeant(f, e) ==
  [message |-> "Certificates", chain |-> f.lists[<<e, e>>],
   verdict |-> VerifyChain(f.lists[<<e, e>>])]
DoneMeant == [message |-> "ServerHelloDone"]

\* The octets of the flight are its messages.  A ServerHelloDone ends it.
Meaning(f) ==
  /\ f.msgs \in Seq({f.msgs[i] : i \in DOMAIN f.msgs})
  /\ f.number \in [f.starts -> 0..Len(f.msgs)]
  /\ f.number[0] = 0
  /\ \A s \in f.starts : s < Len(f.octets) /\ OneMessage(f.octets, s) =>
       LET type == HandshakeType(f.octets, s)
           e    == RecordEnd(f.octets, s)
           n    == f.number[s] + 1
       IN /\ type \in {ServerHelloType, CertificatesType, ServerHelloDoneType}
               => f.number[e] = n
          /\ type = ServerHelloType => f.msgs[n] = HelloMeant(f, s)
          /\ type = CertificatesType =>
               f.msgs[n] = ListMeant(f, e) /\ f.lists[<<Payload(s) + 3, e>>] = <<>>
          /\ type = ServerHelloDoneType => f.msgs[n] = DoneMeant /\ n = Len(f.msgs)
  /\ \A p \in f.entries :
       p[1] < p[2] /\ EntryCert(f.octets, p[1]) # Malformed
         => f.lists[<<EntryEnd(f.octets, p[1]), p[2]>>]
              = Append(f.lists[p], EntryCert(f.octets, p[1]))

ASSUME MeaningAssumption == \A f \in Flights : WellFramed(f) => Meaning(f)

VARIABLES
  pc,
  flight,       \* the flight of the server on this connection
  written,      \* octets of the ClientHello that write() passed on
  arrived,      \* octets of the flight that read() has returned
  v_data,       \* the deque of octets read and not yet decoded
  popped,       \* octets removed from v_data so far (history)
  msg,          \* the locals of one iteration of try_decode's loop
  offset, cert_chain,  \* the locals of its Certificates case
  decoded,      \* the messages handled so far (history)
  exit          \* why the process ended

decodeVars == <<popped, msg, offset, cert_chain, decoded>>
vars == <<pc, flight, written, arrived, v_data, popped, msg, offset,
          cert_chain, decoded, exit>>

NoMessage == [length |-> 0, type |-> 0, payload |-> 0]

Init ==
  /\ pc = "connect"
  /\ flight \in Flights
  /\ written = 0 /\ arrived = 0 /\ popped = 0 /\ offset = 0
  /\ v_data = <<>> /\ cert_chain = <<>> /\ decoded = <<>>
  /\ msg = NoMessage
  /\ exit = "running"

-----------------------------------------------------------------------------
(* How the process ends, and how it takes octets from the deque.           *)

Stop(label, why) ==
  /\ pc' = label
  /\ exit' = why
  /\ UNCHANGED <<flight, written, arrived, v_data>>
  /\ UNCHANGED decodeVars

Abort(why) == Stop("aborted", why)

PopSlip(n) ==  \* does not see that the deque is empty
  /\ v_data' = SubSeq(v_data, n + 1, Len(v_data))
  /\ popped' = popped + n

\* n calls of pop_front(); on an empty deque the debug-mode build aborts.
Pop(n) ==
  /\ n <= Len(v_data)
  /\ v_data' = SubSeq(v_data, n + 1, Len(v_data))
  /\ popped' = popped + n

PopFails(n) ==
  /\ n > Len(v_data)
  /\ Abort("empty deque")

-----------------------------------------------------------------------------
(* request()                                                               *)

Connect ==
  /\ pc = "connect"
  /\ pc' = "write"
  /\ UNCHANGED <<flight, written, arrived, v_data, exit>>
  /\ UNCHANGED decodeVars

ConnectFails == pc = "connect" /\ Abort("connect")

\* The result of write() is ignored: it may have passed on fewer octets.
Write ==
  /\ pc = "write"
  /\ written' \in 0..PayloadLength
  /\ pc' = "read"
  /\ UNCHANGED <<flight, arrived, v_data, exit>>
  /\ UNCHANGED decodeVars

ReadDataSlip(n) ==  \* for (i = 0; i <= n; i++)
  /\ pc = "read"
  /\ written = PayloadLength
  /\ arrived' = arrived + n
  /\ v_data' = v_data \o SubSeq(flight.octets, arrived + 1, arrived + n + 1)
  /\ pc' = "decode"
  /\ UNCHANGED <<flight, written, exit>>
  /\ UNCHANGED decodeVars

\* read() returns n octets of the flight.  The server answers a whole hello.
ReadData(n) ==
  /\ pc = "read"
  /\ written = PayloadLength
  /\ arrived' = arrived + n
  /\ v_data' = v_data \o SubSeq(flight.octets, arrived + 1, arrived + n)
  /\ pc' = "decode"
  /\ UNCHANGED <<flight, written, exit>>
  /\ UNCHANGED decodeVars

ReadEnd   == pc = "read" /\ Stop("returned", "peer closed")
ReadError == pc = "read" /\ Abort("read")

-----------------------------------------------------------------------------
(* try_decode(): the loop                                                  *)

RecordLength == U16(v_data, 3)

WholeRecordSlip ==  \* > for >=
  /\ Len(v_data) >= HeaderLength
  /\ Len(v_data) > RecordLength + HeaderLength

WholeRecord ==
  /\ Len(v_data) >= HeaderLength
  /\ Len(v_data) >= RecordLength + HeaderLength

AwaitMoreSlip ==  \* continue for return
  /\ pc = "decode"
  /\ ~WholeRecord
  /\ UNCHANGED vars

\* Both returns of the loop: no header yet, or "wait for tcp to finish".
AwaitMore ==
  /\ pc = "decode"
  /\ ~WholeRecord
  /\ Len(v_data) >= HeaderLength => v_data[1] = HandshakeRecord
  /\ pc' = "read"
  /\ UNCHANGED <<flight, written, arrived, v_data, exit>>
  /\ UNCHANGED decodeVars

UnsupportedRecord ==
  /\ pc = "decode"
  /\ Len(v_data) >= HeaderLength
  /\ v_data[1] # HandshakeRecord
  /\ Abort("unsupported record")

TakeHeader ==
  /\ pc = "decode"
  /\ WholeRecord
  /\ v_data[1] = HandshakeRecord
  /\ msg' = [length |-> RecordLength, type |-> 0, payload |-> 0]
  /\ Pop(HeaderLength)
  /\ pc' = "preamble"
  /\ UNCHANGED <<flight, written, arrived, offset, cert_chain, decoded, exit>>

\* &data[1] is the address of one element; elements 2 and 3 follow it in
\* memory only while they are in the same node of the deque.
CrossesNode == ((popped + 1) % NodeSize) + 2 >= NodeSize

IncompleteType ==
  /\ pc = "preamble"
  /\ msg.length < PreambleLength
  /\ Abort("incomplete type")

\* The read past the node is what AddressSanitizer stops.
ReadPastNode ==
  /\ pc = "preamble"
  /\ msg.length >= PreambleLength
  /\ CrossesNode
  /\ Abort("read past node")

LengthDiscrepancy ==
  /\ pc = "preamble"
  /\ msg.length >= PreambleLength
  /\ ~CrossesNode
  /\ msg.length - PreambleLength # U24(v_data, 1)
  /\ Abort("length discrepancy")

TakePreamble ==
  /\ pc = "preamble"
  /\ msg.length >= PreambleLength
  /\ ~CrossesNode
  /\ msg.length - PreambleLength = U24(v_data, 1)
  /\ msg' = [length |-> msg.length, type |-> v_data[1], payload |-> U24(v_data, 1)]
  /\ Pop(PreambleLength)
  /\ pc' = "dispatch"
  /\ UNCHANGED <<flight, written, arrived, offset, cert_chain, decoded, exit>>

-----------------------------------------------------------------------------
(* try_decode(): the cases of the switch                                   *)

HelloLengthSlip ==  \* forgets the compression method
  IF Len(v_data) < HelloHeadLength THEN HelloHeadLength
  ELSE HelloHeadLength + v_data[HelloHeadLength] + HelloTailLength - 1

HelloLength ==
  IF Len(v_data) < HelloHeadLength THEN HelloHeadLength
  ELSE HelloHeadLength + v_data[HelloHeadLength] + HelloTailLength

SessionId ==
  SubSeq(v_data, HelloHeadLength + 1, HelloHeadLength + v_data[HelloHeadLength])

CipherSuiteSlip ==  \* right behind the head, whatever the session_id_length
  SubSeq(v_data, HelloHeadLength + 1, HelloHeadLength + 2)

CipherSuite ==
  LET end == HelloHeadLength + v_data[HelloHeadLength]
  IN SubSeq(v_data, end + 1, end + 2)

\* session_id holds MaxSessionId octets, the most a conforming server sends;
\* what a longer one does to the memory behind it is not modelled.
ServerHello ==
  /\ pc = "dispatch"
  /\ msg.type = ServerHelloType
  /\ \/ /\ Pop(HelloLength)
        /\ decoded' = Append(decoded, [message |-> "ServerHello",
                                       session_id |-> SessionId,
                                       cipher_suite |-> CipherSuite])
        /\ pc' = "decode"
        /\ UNCHANGED <<flight, written, arrived, msg, offset, cert_chain, exit>>
     \/ PopFails(HelloLength)

\* The three octets of certificates.length are skipped, not read.
BeginCertificates ==
  /\ pc = "dispatch"
  /\ msg.type = CertificatesType
  /\ \/ /\ Pop(3)
        /\ offset' = 0
        /\ cert_chain' = <<>>
        /\ pc' = "certificates"
        /\ UNCHANGED <<flight, written, arrived, msg, decoded, exit>>
     \/ PopFails(3)

MoreCertificatesSlip == offset < msg.payload  \* forgets the list length

\* handshake_payload_l - 3 is a uint32_t: below 3 it wraps to a bound that
\* no offset reaches.
MoreCertificates == msg.payload < 3 \/ offset < msg.payload - 3

\* One turn of the loop: 3 octets of length, cert_len octets, parse().
EntryLength == IF Len(v_data) < 3 THEN 3 ELSE 3 + U24(v_data, 0)
CertBytesSlip == SubSeq(v_data, 4, EntryLength - 1)  \* misses the last octet
CertBytes   == SubSeq(v_data, 4, EntryLength)

NextCertificate ==
  /\ pc = "certificates"
  /\ MoreCertificates
  /\ \/ /\ Pop(EntryLength)
        /\ ParseCert(CertBytes) # Malformed
        /\ cert_chain' = Append(cert_chain, ParseCert(CertBytes))
        /\ offset' = offset + EntryLength
        /\ UNCHANGED <<pc, flight, written, arrived, msg, decoded, exit>>
     \/ PopFails(EntryLength)

MalformedCertificate ==
  /\ pc = "certificates"
  /\ MoreCertificates
  /\ EntryLength <= Len(v_data)
  /\ ParseCert(CertBytes) = Malformed
  /\ Abort("malformed certificate")

\* The verdict is printed; the handshake goes on whatever it is.
ChainChecked ==
  /\ pc = "certificates"
  /\ ~MoreCertificates
  /\ VerifyChain(cert_chain) # "abort"
  /\ decoded' = Append(decoded, [message |-> "Certificates",
                                 chain |-> cert_chain,
                                 verdict |-> VerifyChain(cert_chain)])
  /\ pc' = "decode"
  /\ UNCHANGED <<flight, written, arrived, v_data, popped, msg, offset,
                 cert_chain, exit>>

ChainAborts ==
  /\ pc = "certificates"
  /\ ~MoreCertificates
  /\ VerifyChain(cert_chain) = "abort"
  /\ Abort("chain verification")

ServerHelloDoneSlip ==  \* break for abort()
  /\ pc = "dispatch"
  /\ msg.type = ServerHelloDoneType
  /\ pc' = "decode"
  /\ decoded' = Append(decoded, DoneMeant)
  /\ UNCHANGED <<flight, written, arrived, v_data, popped, msg, offset,
                 cert_chain, exit>>

\* "we abort here so we quit faster": the successful end of the program.
ServerHelloDone ==
  /\ pc = "dispatch"
  /\ msg.type = ServerHelloDoneType
  /\ pc' = "aborted"
  /\ exit' = "server hello done"
  /\ decoded' = Append(decoded, DoneMeant)
  /\ UNCHANGED <<flight, written, arrived, v_data, popped, msg, offset,
                 cert_chain>>

UnsupportedType ==
  /\ pc = "dispatch"
  /\ msg.type \notin {ServerHelloType, CertificatesType, ServerHelloDoneType}
  /\ Abort("unsupported type")

-----------------------------------------------------------------------------
Ended == pc \in {"returned", "aborted"}

\* The process is over; stuttering here keeps the deadlock check on.
Terminated == Ended /\ UNCHANGED vars

\* read(sck, data, sizeof(data)) fills at most the whole buffer.
ReadSome ==
  \E n \in 1..BufferSize : arrived + n <= Len(flight.octets) /\ ReadData(n)

Decode ==
  \/ AwaitMore \/ UnsupportedRecord \/ TakeHeader
  \/ IncompleteType \/ ReadPastNode \/ LengthDiscrepancy \/ TakePreamble
  \/ ServerHello \/ BeginCertificates \/ NextCertificate
  \/ MalformedCertificate \/ ChainChecked \/ ChainAborts
  \/ ServerHelloDone \/ UnsupportedType

Next ==
  \/ Connect \/ ConnectFails \/ Write
  \/ ReadSome \/ ReadEnd \/ ReadError
  \/ Decode
  \/ Terminated

Spec == Init /\ [][Next]_vars

\* The thread runs whenever it is not blocked in read().
FairSpec == Spec /\ WF_vars(Connect \/ Write \/ Decode)

\* The server answers a whole hello, and TCP delivers what the server sent.
DeliverySpec == FairSpec /\ WF_vars(ReadSome)
-----------------------------------------------------------------------------
(* Properties.  The definitions named ..Slip above are the code with a     *)
(* mistake a programmer could make there; no specification uses them.      *)

Exits == {"running", "peer closed", "connect", "read", "empty deque",
          "unsupported record", "incomplete type", "read past node",
          "length discrepancy", "malformed certificate",
          "chain verification", "server hello done", "unsupported type"}

\* Every variable has its type; the counters stay inside the flight.
TypeOK ==
  /\ pc \in {"connect", "write", "read", "decode", "preamble", "dispatch",
             "certificates", "returned", "aborted"}
  /\ flight \in Flights
  /\ written \in 0..PayloadLength
  /\ arrived \in 0..Len(flight.octets)
  /\ popped \in 0..arrived
  /\ v_data \in Seq(Octet)
  /\ msg \in [length : Nat, type : Nat, payload : Nat]
  /\ offset \in Nat
  /\ exit \in Exits

\* However TCP cuts the flight into reads, the deque holds exactly the octets
\* that arrived and were not yet taken, in order (push_back at http.cpp:75,
\* every pop_front of try_decode).
BufferIsUnread == v_data = SubSeq(flight.octets, popped + 1, arrived)

\* The handlers take no octet too many and none too few: whenever try_decode
\* looks for a header, or request() waits for data, the deque begins where a
\* record of the flight begins.
RecordAligned ==
  WellFramed(flight) /\ pc \in {"read", "decode"} => popped \in flight.starts

\* A well-framed flight never makes a handler take from an empty deque.
NeverOverruns == WellFramed(flight) => exit # "empty deque"

\* The client never waits in read(), and never returns, while a record that
\* arrived in full is left undecoded.
WholeRecordsTaken ==
  WellFramed(flight) /\ pc \in {"read", "returned"} =>
    \A s \in flight.starts :
      s < Len(flight.octets) /\ RecordEnd(flight.octets, s) <= arrived
        => RecordEnd(flight.octets, s) <= popped

\* A flight in the form this client handles: one message of a known type in
\* each record, certificates that parse, a chain verification that returns.
Supported(f) ==
  /\ WellFramed(f)
  /\ \A s \in f.starts : s < Len(f.octets) =>
       /\ OneMessage(f.octets, s)
       /\ HandshakeType(f.octets, s) \in
            {ServerHelloType, CertificatesType, ServerHelloDoneType}
  /\ \A p \in f.entries : p[1] < p[2] => EntryCert(f.octets, p[1]) # Malformed
  /\ \A i \in DOMAIN f.msgs :
       f.msgs[i].message = "Certificates" => f.msgs[i].verdict # "abort"

\* On a supported flight the program ends with its own ServerHelloDone abort,
\* having handled every message, unless the connection fails, the peer closes
\* it, or a preamble crosses a node of the deque.
SupportedFlightAccepted ==
  Supported(flight) =>
    /\ exit \in {"running", "connect", "read", "peer closed",
                 "read past node", "server hello done"}
    /\ exit = "server hello done" => decoded = flight.msgs

\* At any time what write() passed on is to the server either the beginning of a
\* hello or, if it is all, a whole one: the lengths written into the structs are
\* those of their octets (tls.h:19-55, 96-109, http.cpp:58).
HelloUnderstood ==
  \A time \in {<<0, 0, 0, 0>>, <<255, 1, 44, 106>>} :
    LET heard == SubSeq(client_hello(time), 1, written) IN
      IF written < PayloadLength THEN Incomplete(heard)
      ELSE Len(heard) = Len(client_hello(time)) /\ UnderstoodAsHello(heard)

\* try_decode's while (true) always comes to an end: the process goes back to
\* read(), or is over.
DecodeReturns == pc = "decode" ~> pc = "read" \/ Ended

\* Once the whole hello is written, a supported flight is decoded to its end,
\* unless the process ends before.
HandshakeCompletes ==
  (pc = "read" /\ written = PayloadLength /\ Supported(flight)) ~> Ended

\* request() implements MessageFeed: it hands out the messages the server
\* meant, in order and each once, whatever the segmentation (http.cpp:123-226).
Feed == INSTANCE MessageFeed WITH
          msgs <- flight.msgs, handed <- decoded, open <- ~Ended
HandsOutMessages == Feed!Spec

\* The three octets after the handshake type are what the length is read from
\* (http.cpp:152-155, the expression kept as a comment): no read leaves them.
PreambleReadInPlace == exit # "read past node"

\* A server that packs several handshake messages into one record, as RFC 5246
\* lets it, is understood (README.md:4, "Implementing according to spec").
CoalescedFlightUnderstood == exit # "length discrepancy"
=============================================================================
