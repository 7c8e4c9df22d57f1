--------------------------- MODULE Request_proofs ---------------------------
(***************************************************************************)
(* Theorems about Request, for every set of flights, every segmentation,   *)
(* every buffer and node size, and every outcome of parse() and            *)
(* verify_cert_chain().  The invariants first, then what the octets of the *)
(* ClientHello are, then that Request implements MessageFeed.              *)
(***************************************************************************)
EXTENDS Request, SequenceTheorems, TLAPS

-----------------------------------------------------------------------------
(* A window of a stream: what a deque holds that octets enter at the back    *)
(* and leave at the front.                                                   *)

LEMMA WindowProperties ==
  ASSUME NEW S, NEW o \in Seq(S), NEW a \in 0..Len(o), NEW p \in 0..a
  PROVE  /\ SubSeq(o, p + 1, a) \in Seq(S)
         /\ Len(SubSeq(o, p + 1, a)) = a - p
         /\ \A i \in 1..(a - p) : SubSeq(o, p + 1, a)[i] = o[p + i]
<1>1. Len(o) \in Nat /\ \A i \in (p + 1)..a : o[i] \in S
  BY LenProperties
<1>2. /\ SubSeq(o, p + 1, a) \in Seq(S)
      /\ Len(SubSeq(o, p + 1, a)) = IF p + 1 <= a THEN a - (p + 1) + 1 ELSE 0
      /\ \A i \in 1..(a - (p + 1) + 1) : SubSeq(o, p + 1, a)[i] = o[p + 1 + i - 1]
  BY <1>1, SubSeqProperties
<1>3. QED
  BY <1>1, <1>2

\* Taking n octets from the front of a window.
LEMMA WindowPop ==
  ASSUME NEW S, NEW o \in Seq(S), NEW a \in 0..Len(o), NEW p \in 0..a,
         NEW w, w = SubSeq(o, p + 1, a), NEW n \in Nat, n <= Len(w)
  PROVE  /\ SubSeq(w, n + 1, Len(w)) = SubSeq(o, p + n + 1, a)
         /\ p + n \in 0..a
<1>1. /\ w \in Seq(S)
      /\ Len(w) = a - p
      /\ \A i \in 1..(a - p) : w[i] = o[p + i]
      /\ p + n \in 0..a
      /\ Len(o) \in Nat
  BY WindowProperties, LenProperties
<1>2. /\ SubSeq(w, n + 1, Len(w)) \in Seq(S)
      /\ Len(SubSeq(w, n + 1, Len(w))) = Len(w) - n
      /\ \A i \in 1..(Len(w) - n) : SubSeq(w, n + 1, Len(w))[i] = w[n + i]
  <2>1. Len(w) \in 0..Len(w) /\ n \in 0..Len(w)
    BY <1>1
  <2>2. QED
    BY <1>1, <2>1, WindowProperties
<1>3. /\ SubSeq(o, (p + n) + 1, a) \in Seq(S)
      /\ Len(SubSeq(o, (p + n) + 1, a)) = a - (p + n)
      /\ \A i \in 1..(a - (p + n)) : SubSeq(o, (p + n) + 1, a)[i] = o[(p + n) + i]
  BY <1>1, WindowProperties
<1>4. SubSeq(w, n + 1, Len(w)) = SubSeq(o, (p + n) + 1, a)
  <2>1. Len(SubSeq(w, n + 1, Len(w))) = Len(SubSeq(o, (p + n) + 1, a))
    BY <1>1, <1>2, <1>3
  <2>2. ASSUME NEW i \in 1..Len(SubSeq(w, n + 1, Len(w)))
        PROVE  SubSeq(w, n + 1, Len(w))[i] = SubSeq(o, (p + n) + 1, a)[i]
    <3>1. i \in 1..(Len(w) - n) /\ i \in 1..(a - (p + n)) /\ n + i \in 1..(a - p)
      BY <1>1, <1>2
    <3>2. SubSeq(w, n + 1, Len(w))[i] = o[p + (n + i)]
      BY <1>1, <1>2, <3>1
    <3>3. SubSeq(o, (p + n) + 1, a)[i] = o[(p + n) + i]
      BY <1>3, <3>1
    <3>4. p + (n + i) = (p + n) + i
      BY <3>1, <1>1
    <3>5. QED
      BY <3>2, <3>3, <3>4
  <2>3. QED
    BY <1>2, <1>3, <2>1, <2>2, SeqEqual
<1>5. QED
  BY <1>1, <1>4

\* Appending the next n octets of the stream to a window.
LEMMA WindowPush ==
  ASSUME NEW S, NEW o \in Seq(S), NEW a \in 0..Len(o), NEW p \in 0..a,
         NEW n \in Nat, a + n <= Len(o)
  PROVE  SubSeq(o, p + 1, a) \o SubSeq(o, a + 1, a + n) = SubSeq(o, p + 1, a + n)
<1>1. Len(o) \in Nat
  BY LenProperties
<1>2. /\ p + 1 \in 1..(Len(o) + 1)
      /\ a \in ((p + 1) - 1)..Len(o)
      /\ a + n \in a..Len(o)
  BY <1>1
<1>3. QED
  BY <1>2, ConcatAdjacentSubSeq

-----------------------------------------------------------------------------
(* Types, and the contents of the deque.  The invariant needs one fact more: *)
(* the payload of the record whose header was taken is in the deque.         *)

PayloadBuffered == pc = "preamble" => msg.length <= Len(v_data)

BufferInv == TypeOK /\ BufferIsUnread /\ PayloadBuffered

LEMMA FlightTyping ==
  ASSUME TypeOK
  PROVE  /\ flight.octets \in Seq(Octet)
         /\ flight.starts \subseteq 0..Len(flight.octets)
         /\ flight.entries \subseteq Nat \X Nat
         /\ Len(flight.octets) \in Nat
BY FlightsAssumption, LenProperties DEF TypeOK

LEMMA DequeTyping ==
  ASSUME TypeOK, BufferIsUnread
  PROVE  /\ Len(v_data) = arrived - popped
         /\ Len(v_data) \in Nat
         /\ \A i \in 1..Len(v_data) : /\ v_data[i] = flight.octets[popped + i]
                                      /\ v_data[i] \in Octet
<1>1. arrived \in 0..Len(flight.octets) /\ popped \in 0..arrived
  BY DEF TypeOK
<1>2. /\ v_data \in Seq(Octet)
      /\ Len(v_data) = arrived - popped
      /\ \A i \in 1..(arrived - popped) : v_data[i] = flight.octets[popped + i]
  BY <1>1, FlightTyping, WindowProperties DEF BufferIsUnread
<1>3. Len(v_data) \in Nat /\ \A i \in 1..Len(v_data) : v_data[i] \in Octet
  BY <1>2, LenProperties
<1>4. QED
  BY <1>2, <1>3

\* The length fields are natural numbers wherever their octets are in the deque.
LEMMA FieldTyping ==
  ASSUME NEW s, NEW i \in Nat, \A j \in 1..Len(s) : s[j] \in Octet, Len(s) \in Nat
  PROVE  /\ i + 2 <= Len(s) => U16(s, i) \in Nat
         /\ i + 3 <= Len(s) => U24(s, i) \in Nat
<1>1. \A x \in Octet : x \in Nat
  BY DEF Octet
<1>2. CASE i + 2 <= Len(s)
  <2>1. s[i + 1] \in Nat /\ s[i + 2] \in Nat
    BY <1>1, <1>2
  <2>2. U16(s, i) \in Nat
    BY <2>1 DEF U16
  <2>3. ASSUME i + 3 <= Len(s) PROVE U24(s, i) \in Nat
    <3>1. s[i + 3] \in Nat
      BY <1>1, <2>3
    <3>2. PICK x \in Nat, y \in Nat, z \in Nat :
            x = s[i + 1] /\ y = s[i + 2] /\ z = s[i + 3]
      BY <2>1, <3>1
    <3>3. U24(s, i) = s[i + 1] * 65536 + s[i + 2] * 256 + s[i + 3]
      BY DEF U24
    <3>4. x * 65536 + y * 256 + z \in Nat
      OBVIOUS
    <3>5. QED
      BY <3>2, <3>3, <3>4
  <2>4. QED
    BY <2>2, <2>3
<1>3. QED
  BY <1>2

LEMMA PopStep ==
  ASSUME TypeOK, BufferIsUnread, NEW n \in Nat, Pop(n),
         UNCHANGED <<flight, arrived>>
  PROVE  /\ v_data' \in Seq(Octet)
         /\ popped' \in 0..arrived'
         /\ BufferIsUnread'
         /\ Len(v_data') = Len(v_data) - n
<1>1. /\ arrived \in 0..Len(flight.octets) /\ popped \in 0..arrived
      /\ flight.octets \in Seq(Octet)
      /\ v_data = SubSeq(flight.octets, popped + 1, arrived)
      /\ n <= Len(v_data)
  BY FlightTyping DEF TypeOK, BufferIsUnread, Pop
<1>2. /\ SubSeq(v_data, n + 1, Len(v_data))
           = SubSeq(flight.octets, popped + n + 1, arrived)
      /\ popped + n \in 0..arrived
  BY <1>1, WindowPop
<1>3. /\ v_data' = SubSeq(flight.octets, (popped + n) + 1, arrived)
      /\ popped' = popped + n
      /\ flight' = flight /\ arrived' = arrived
  BY <1>2 DEF Pop
<1>4. /\ v_data' \in Seq(Octet)
      /\ Len(v_data') = arrived - (popped + n)
  BY <1>1, <1>2, <1>3, WindowProperties
<1>5. Len(v_data) = arrived - popped
  BY DequeTyping
<1>6. QED
  BY <1>1, <1>2, <1>3, <1>4, <1>5 DEF BufferIsUnread

LEMMA HelloLengthTyping ==
  ASSUME TypeOK, BufferIsUnread
  PROVE  HelloLength \in Nat
<1>1. Len(v_data) >= 35 => v_data[35] \in Nat
  <2>1. Len(v_data) \in Nat /\ \A i \in 1..Len(v_data) : v_data[i] \in Octet
    BY DequeTyping
  <2>2. \A x \in Octet : x \in Nat
    BY DEF Octet
  <2>3. QED
    BY <2>1, <2>2
<1>2. Len(v_data) \in Nat
  BY DequeTyping
<1>3. QED
  BY <1>1, <1>2 DEF HelloLength, HelloHeadLength, HelloTailLength, SizeofRandom

LEMMA EntryLengthTyping ==
  ASSUME TypeOK, BufferIsUnread
  PROVE  EntryLength \in Nat /\ EntryLength >= 3
<1>1. Len(v_data) \in Nat /\ \A j \in 1..Len(v_data) : v_data[j] \in Octet
  BY DequeTyping
<1>2. 0 + 3 <= Len(v_data) => U24(v_data, 0) \in Nat
  BY <1>1, FieldTyping
<1>3. QED
  BY <1>1, <1>2 DEF EntryLength

LEMMA StopStep ==
  ASSUME BufferInv, NEW label \in {"returned", "aborted"}, NEW why \in Exits,
         Stop(label, why)
  PROVE  BufferInv'
BY DEF BufferInv, Stop, decodeVars, TypeOK, BufferIsUnread, PayloadBuffered

LEMMA BufferInvInit == Init => BufferInv
<1> SUFFICES ASSUME Init PROVE BufferInv
  OBVIOUS
<1>1. flight.octets \in Seq(Octet) /\ Len(flight.octets) \in Nat
  BY FlightsAssumption, LenProperties DEF Init
<1>2. SubSeq(flight.octets, 0 + 1, 0) = <<>>
  BY SubSeqEmpty
<1>3. BufferIsUnread
  BY <1>2 DEF Init, BufferIsUnread
<1>4. TypeOK
  BY <1>1 DEF Init, TypeOK, NoMessage, PayloadLength, HeaderLength,
     PreambleLength, SizeofClientHello, SizeofRandom, Exits
<1>5. PayloadBuffered
  BY DEF Init, PayloadBuffered
<1>6. QED
  BY <1>3, <1>4, <1>5 DEF BufferInv

LEMMA BufferInvNext == BufferInv /\ [Next]_vars => BufferInv'
<1> SUFFICES ASSUME BufferInv, [Next]_vars PROVE BufferInv'
  OBVIOUS
<1> USE DEF BufferInv
<1>1. CASE Connect
  BY <1>1 DEF Connect, decodeVars, TypeOK, BufferIsUnread, PayloadBuffered
<1>2. CASE ConnectFails
  BY <1>2, StopStep DEF ConnectFails, Abort, Exits
<1>3. CASE Write
  BY <1>3 DEF Write, decodeVars, TypeOK, BufferIsUnread, PayloadBuffered
<1>4. CASE ReadSome
  <2>1. PICK n \in 1..BufferSize :
          arrived + n <= Len(flight.octets) /\ ReadData(n)
    BY <1>4 DEF ReadSome
  <2>2. /\ flight.octets \in Seq(Octet) /\ Len(flight.octets) \in Nat
        /\ arrived \in 0..Len(flight.octets) /\ popped \in 0..arrived /\ n \in Nat
    BY FlightTyping, BufferSizeAssumption DEF TypeOK
  <2>3. SubSeq(flight.octets, popped + 1, arrived)
          \o SubSeq(flight.octets, arrived + 1, arrived + n)
          = SubSeq(flight.octets, popped + 1, arrived + n)
    BY <2>1, <2>2, WindowPush
  <2>4. v_data' = SubSeq(flight.octets, popped + 1, arrived + n)
    BY <2>1, <2>3 DEF ReadData, BufferIsUnread
  <2>5. arrived + n \in 0..Len(flight.octets) /\ popped \in 0..(arrived + n)
    BY <2>1, <2>2
  <2>6. v_data' \in Seq(Octet)
    BY <2>2, <2>4, <2>5, WindowProperties
  <2>7. QED
    BY <2>1, <2>4, <2>5, <2>6
       DEF ReadData, decodeVars, TypeOK, BufferIsUnread, PayloadBuffered
<1>5. CASE ReadEnd
  BY <1>5, StopStep DEF ReadEnd, Exits
<1>6. CASE ReadError
  BY <1>6, StopStep DEF ReadError, Abort, Exits
<1>7. CASE Decode
  <2>1. CASE AwaitMore
    BY <2>1 DEF AwaitMore, decodeVars, TypeOK, BufferIsUnread, PayloadBuffered
  <2>2. CASE UnsupportedRecord
    BY <2>2, StopStep DEF UnsupportedRecord, Abort, Exits
  <2>3. CASE TakeHeader
    <3>1. /\ Len(v_data) >= 5 /\ Len(v_data) >= RecordLength + 5
          /\ Len(v_data) \in Nat /\ \A j \in 1..Len(v_data) : v_data[j] \in Octet
      BY <2>3, DequeTyping DEF TakeHeader, WholeRecord, HeaderLength
    <3>2. RecordLength \in Nat
      <4>1. 3 + 2 <= Len(v_data) => U16(v_data, 3) \in Nat
        BY <3>1, FieldTyping
      <4>2. QED
        BY <3>1, <4>1 DEF RecordLength
    <3>3. /\ v_data' \in Seq(Octet) /\ popped' \in 0..arrived' /\ BufferIsUnread'
          /\ Len(v_data') = Len(v_data) - 5
      BY <2>3, PopStep DEF TakeHeader, HeaderLength
    <3>4. /\ msg' \in [length : Nat, type : Nat, payload : Nat]
          /\ msg'.length = RecordLength
      BY <2>3, <3>2 DEF TakeHeader
    <3>5. PayloadBuffered'
      BY <3>1, <3>2, <3>3, <3>4 DEF PayloadBuffered
    <3>6. QED
      BY <2>3, <3>3, <3>4, <3>5 DEF TakeHeader, TypeOK
  <2>4. CASE IncompleteType
    BY <2>4, StopStep DEF IncompleteType, Abort, Exits
  <2>5. CASE ReadPastNode
    BY <2>5, StopStep DEF ReadPastNode, Abort, Exits
  <2>6. CASE LengthDiscrepancy
    BY <2>6, StopStep DEF LengthDiscrepancy, Abort, Exits
  <2>7. CASE TakePreamble
    <3>1. /\ Len(v_data) >= 4 /\ Len(v_data) \in Nat
          /\ \A j \in 1..Len(v_data) : v_data[j] \in Octet
      BY <2>7, DequeTyping
         DEF TakePreamble, PayloadBuffered, PreambleLength, TypeOK
    <3>2. U24(v_data, 1) \in Nat /\ v_data[1] \in Nat
      <4>1. 1 + 3 <= Len(v_data) => U24(v_data, 1) \in Nat
        BY <3>1, FieldTyping
      <4>2. v_data[1] \in Octet
        BY <3>1
      <4>3. v_data[1] \in Nat
        BY <4>2 DEF Octet
      <4>4. QED
        BY <3>1, <4>1, <4>3
    <3>3. /\ v_data' \in Seq(Octet) /\ popped' \in 0..arrived' /\ BufferIsUnread'
      BY <2>7, PopStep DEF TakePreamble, PreambleLength
    <3>4. msg' \in [length : Nat, type : Nat, payload : Nat]
      BY <2>7, <3>2 DEF TakePreamble, TypeOK
    <3>5. QED
      BY <2>7, <3>3, <3>4 DEF TakePreamble, TypeOK, PayloadBuffered
  <2>8. CASE ServerHello
    <3>1. CASE PopFails(HelloLength)
      BY <3>1, StopStep DEF PopFails, Abort, Exits
    <3>2. CASE ~PopFails(HelloLength)
      <4>1. /\ Pop(HelloLength) /\ pc' = "decode"
            /\ UNCHANGED <<flight, written, arrived, msg, offset, cert_chain, exit>>
        BY <2>8, <3>2 DEF ServerHello
      <4>2. v_data' \in Seq(Octet) /\ popped' \in 0..arrived' /\ BufferIsUnread'
        BY <4>1, PopStep, HelloLengthTyping
      <4>3. QED
        BY <4>1, <4>2 DEF TypeOK, PayloadBuffered
    <3>3. QED
      BY <3>1, <3>2
  <2>9. CASE BeginCertificates
    <3>1. CASE PopFails(3)
      BY <3>1, StopStep DEF PopFails, Abort, Exits
    <3>2. CASE ~PopFails(3)
      <4>1. /\ Pop(3) /\ pc' = "certificates" /\ offset' = 0
            /\ UNCHANGED <<flight, written, arrived, msg, exit>>
        BY <2>9, <3>2 DEF BeginCertificates
      <4>2. v_data' \in Seq(Octet) /\ popped' \in 0..arrived' /\ BufferIsUnread'
        BY <4>1, PopStep
      <4>3. QED
        BY <4>1, <4>2 DEF TypeOK, PayloadBuffered
    <3>3. QED
      BY <3>1, <3>2
  <2>10. CASE NextCertificate
    <3>1. CASE PopFails(EntryLength)
      BY <3>1, StopStep DEF PopFails, Abort, Exits
    <3>2. CASE ~PopFails(EntryLength)
      <4>1. /\ Pop(EntryLength) /\ offset' = offset + EntryLength
            /\ UNCHANGED <<pc, flight, written, arrived, msg, exit>>
            /\ pc = "certificates"
        BY <2>10, <3>2 DEF NextCertificate
      <4>2. v_data' \in Seq(Octet) /\ popped' \in 0..arrived' /\ BufferIsUnread'
        BY <4>1, PopStep, EntryLengthTyping
      <4>3. QED
        BY <4>1, <4>2, EntryLengthTyping DEF TypeOK, PayloadBuffered
    <3>3. QED
      BY <3>1, <3>2
  <2>11. CASE MalformedCertificate
    BY <2>11, StopStep DEF MalformedCertificate, Abort, Exits
  <2>12. CASE ChainChecked
    BY <2>12 DEF ChainChecked, TypeOK, BufferIsUnread, PayloadBuffered
  <2>13. CASE ChainAborts
    BY <2>13, StopStep DEF ChainAborts, Abort, Exits
  <2>14. CASE ServerHelloDone
    BY <2>14 DEF ServerHelloDone, TypeOK, BufferIsUnread, PayloadBuffered, Exits
  <2>15. CASE UnsupportedType
    BY <2>15, StopStep DEF UnsupportedType, Abort, Exits
  <2>16. QED
    BY <1>7, <2>1, <2>2, <2>3, <2>4, <2>5, <2>6, <2>7, <2>8, <2>9, <2>10,
       <2>11, <2>12, <2>13, <2>14, <2>15 DEF Decode
<1>8. CASE UNCHANGED vars
  BY <1>8 DEF vars, TypeOK, BufferIsUnread, PayloadBuffered
<1>9. QED
  BY <1>1, <1>2, <1>3, <1>4, <1>5, <1>6, <1>7, <1>8 DEF Next, Terminated

LEMMA BufferInvariant == Spec => []BufferInv
BY BufferInvInit, BufferInvNext, PTL DEF Spec

\* The types of Request hold in every reachable state, for every set of
\* flights and every buffer size.
THEOREM TypeCorrect == Spec => []TypeOK
BY BufferInvariant, PTL DEF BufferInv

\* The deque always holds exactly the octets read and not yet taken, in the
\* order in which the server sent them, however they were segmented.
THEOREM BufferCorrect == Spec => []BufferIsUnread
BY BufferInvariant, PTL DEF BufferInv

-----------------------------------------------------------------------------
(* Framing.  RecordAligned is not inductive: the invariant says where in the *)
(* record of the flight each handler stands, and what it remembers of it.    *)

\* The next octet is the n-th of the record at s, which arrived in full.
InRecord(s, n) ==
  /\ s < Len(flight.octets)
  /\ RecordEnd(flight.octets, s) <= arrived
  /\ popped = s + n

AtRecord ==
  pc \in {"connect", "write", "read", "decode", "returned"}
    => popped \in flight.starts

AtPreamble ==
  pc = "preamble" =>
    \E s \in flight.starts :
      /\ InRecord(s, HeaderLength)
      /\ flight.octets[s + 1] = HandshakeRecord
      /\ msg.length = U16(flight.octets, s + 3)

AtPayload ==
  pc = "dispatch" =>
    \E s \in flight.starts :
      /\ InRecord(s, HeaderLength + PreambleLength)
      /\ OneMessage(flight.octets, s)
      /\ msg.type = HandshakeType(flight.octets, s)
      /\ msg.payload = U16(flight.octets, s + 3) - PreambleLength

AtEntry ==
  pc = "certificates" =>
    \E e \in flight.starts :
      /\ <<popped, e>> \in flight.entries
      /\ e <= arrived
      /\ msg.payload >= 3
      /\ popped + (msg.payload - 3 - offset) = e

\* The client goes to read() only when no whole record is left.
NothingWhole ==
  pc \in {"connect", "write", "read", "returned"} => ~WholeRecord

Framed ==
  /\ AtRecord /\ AtPreamble /\ AtPayload /\ AtEntry
  /\ NothingWhole
  /\ exit # "empty deque"

FramingInv == WellFramed(flight) => Framed

LEMMA FlightUnchanged == [Next]_vars => flight' = flight
BY DEF Next, vars, Connect, ConnectFails, Write, ReadSome, ReadData, ReadEnd,
   ReadError, Stop, Abort, PopFails, Decode, AwaitMore, UnsupportedRecord,
   TakeHeader, IncompleteType, ReadPastNode, LengthDiscrepancy, TakePreamble,
   ServerHello, BeginCertificates, NextCertificate, MalformedCertificate,
   ChainChecked, ChainAborts, ServerHelloDone, UnsupportedType, Terminated

\* A length field in the deque is the one at the same place of the flight.
LEMMA FieldAt ==
  ASSUME TypeOK, BufferIsUnread
  PROVE  /\ Len(v_data) >= 5 =>
              /\ U16(v_data, 3) = U16(flight.octets, popped + 3)
              /\ v_data[1] = flight.octets[popped + 1]
         /\ Len(v_data) >= 3 => U24(v_data, 0) = U24(flight.octets, popped)
         /\ Len(v_data) >= 4 => /\ U24(v_data, 1) = U24(flight.octets, popped + 1)
                                /\ v_data[1] = flight.octets[popped + 1]
<1>1. /\ popped \in Nat /\ Len(v_data) \in Nat
      /\ \A i \in 1..Len(v_data) : v_data[i] = flight.octets[popped + i]
  BY DequeTyping, FlightTyping DEF TypeOK
<1>2. ASSUME Len(v_data) >= 5
      PROVE  U16(v_data, 3) = U16(flight.octets, popped + 3)
  <2>1. /\ v_data[3 + 1] = flight.octets[popped + 3 + 1]
        /\ v_data[3 + 2] = flight.octets[popped + 3 + 2]
    BY <1>1, <1>2
  <2>2. QED
    BY <2>1 DEF U16
<1>3. ASSUME Len(v_data) >= 3
      PROVE  U24(v_data, 0) = U24(flight.octets, popped)
  <2>1. /\ v_data[0 + 1] = flight.octets[popped + 1]
        /\ v_data[0 + 2] = flight.octets[popped + 2]
        /\ v_data[0 + 3] = flight.octets[popped + 3]
    BY <1>1, <1>3
  <2>2. QED
    BY <2>1 DEF U24
<1>4. ASSUME Len(v_data) >= 4
      PROVE  U24(v_data, 1) = U24(flight.octets, popped + 1)
  <2>1. /\ v_data[1 + 1] = flight.octets[popped + 1 + 1]
        /\ v_data[1 + 2] = flight.octets[popped + 1 + 2]
        /\ v_data[1 + 3] = flight.octets[popped + 1 + 3]
    BY <1>1, <1>4
  <2>2. QED
    BY <2>1 DEF U24
<1>5. Len(v_data) >= 4 => v_data[1] = flight.octets[popped + 1]
  BY <1>1
<1>6. QED
  BY <1>1, <1>2, <1>3, <1>4, <1>5

LEMMA RecordTyping ==
  ASSUME TypeOK, WellFramed(flight), NEW s \in flight.starts,
         s < Len(flight.octets)
  PROVE  /\ s \in Nat
         /\ U16(flight.octets, s + 3) \in Nat
         /\ RecordEnd(flight.octets, s) = s + 5 + U16(flight.octets, s + 3)
         /\ RecordEnd(flight.octets, s) \in flight.starts
         /\ RecordEnd(flight.octets, s) \in Nat
<1>1. /\ s \in Nat /\ Len(flight.octets) \in Nat
      /\ \A i \in 1..Len(flight.octets) : flight.octets[i] \in Octet
  BY FlightTyping, LenProperties
<1>2. s + 5 <= Len(flight.octets) /\ RecordEnd(flight.octets, s) \in flight.starts
  BY DEF WellFramed, HeaderLength
<1>3. U16(flight.octets, s + 3) \in Nat
  <2>1. (s + 3) \in Nat /\ (s + 3) + 2 <= Len(flight.octets)
    BY <1>1, <1>2
  <2>2. QED
    BY <1>1, <2>1, FieldTyping
<1>4. QED
  BY <1>1, <1>2, <1>3 DEF RecordEnd, HeaderLength

LEMMA CounterTyping ==
  ASSUME TypeOK
  PROVE  popped \in Nat /\ arrived \in Nat /\ offset \in Nat /\ msg.payload \in Nat
<1>1. popped \in Nat /\ arrived \in Nat
  BY FlightTyping DEF TypeOK
<1>2. offset \in Nat /\ msg.payload \in Nat
  BY DEF TypeOK
<1>3. QED
  BY <1>1, <1>2

LEMMA PopSucceeds ==
  ASSUME NEW n \in Nat, n <= Len(v_data), Len(v_data) \in Nat
  PROVE  ~PopFails(n)
<1>1. ~(n > Len(v_data))
  OBVIOUS
<1>2. QED
  BY <1>1, Zenon DEF PopFails

LEMMA AbortStep ==
  ASSUME NEW why, Abort(why), why # "empty deque"
  PROVE  Framed'
BY DEF Abort, Stop, Framed, AtRecord, AtPreamble, AtPayload, AtEntry, NothingWhole

LEMMA FramedInit ==
  ASSUME Init, WellFramed(flight)
  PROVE  Framed
<1>1. popped \in flight.starts
  BY DEF Init, WellFramed
<1>2. ~WholeRecord
  <2>1. Len(v_data) = 0
    BY DEF Init
  <2>2. QED
    BY <2>1 DEF WholeRecord, HeaderLength
<1>3. QED
  BY <1>1, <1>2 DEF Init, Framed, AtRecord, AtPreamble, AtPayload, AtEntry,
     NothingWhole

LEMMA TakeHeaderFramed ==
  ASSUME BufferInv, WellFramed(flight), Framed, TakeHeader
  PROVE  Framed'
<1>1. /\ popped \in flight.starts
      /\ Len(v_data) >= 5 /\ Len(v_data) >= RecordLength + 5
      /\ Len(v_data) = arrived - popped
      /\ arrived \in 0..Len(flight.octets) /\ popped \in 0..arrived
      /\ Len(flight.octets) \in Nat
  BY DequeTyping, FlightTyping
     DEF TakeHeader, WholeRecord, HeaderLength, Framed, AtRecord, BufferInv, TypeOK
<1>2. popped < Len(flight.octets)
  BY <1>1
<1>3. /\ RecordLength = U16(flight.octets, popped + 3)
      /\ v_data[1] = flight.octets[popped + 1]
  BY <1>1, FieldAt DEF RecordLength, BufferInv
<1>4. /\ RecordEnd(flight.octets, popped) = popped + 5 + RecordLength
      /\ RecordLength \in Nat
  BY <1>1, <1>2, <1>3, RecordTyping DEF BufferInv
<1>5. RecordEnd(flight.octets, popped) <= arrived
  BY <1>1, <1>4
<1>6. /\ pc' = "preamble" /\ exit' = exit /\ flight' = flight /\ arrived' = arrived
      /\ popped' = popped + 5 /\ flight.octets[popped + 1] = HandshakeRecord
      /\ msg'.length = RecordLength
  BY <1>3 DEF TakeHeader, Pop, HeaderLength
<1>7. AtPreamble'
  BY <1>1, <1>2, <1>3, <1>5, <1>6 DEF AtPreamble, InRecord, HeaderLength
<1>8. QED
  BY <1>6, <1>7 DEF Framed, AtRecord, AtPayload, AtEntry, NothingWhole

LEMMA TakePreambleFramed ==
  ASSUME BufferInv, WellFramed(flight), Framed, TakePreamble
  PROVE  Framed'
<1>1. PICK s \in flight.starts :
        /\ InRecord(s, HeaderLength)
        /\ flight.octets[s + 1] = HandshakeRecord
        /\ msg.length = U16(flight.octets, s + 3)
  BY DEF TakePreamble, Framed, AtPreamble
<1>2. /\ popped = s + 5 /\ s < Len(flight.octets)
      /\ RecordEnd(flight.octets, s) <= arrived
  BY <1>1 DEF InRecord, HeaderLength
<1>3. s \in Nat /\ U16(flight.octets, s + 3) \in Nat
  BY <1>2, RecordTyping DEF BufferInv
<1>4. Len(v_data) >= 4 /\ Len(v_data) \in Nat
  BY <1>1, <1>3, DequeTyping
     DEF TakePreamble, BufferInv, PayloadBuffered, PreambleLength
<1>5. /\ U24(v_data, 1) = U24(flight.octets, popped + 1)
      /\ v_data[1] = flight.octets[popped + 1]
  BY <1>4, FieldAt DEF BufferInv
<1>6. /\ pc' = "dispatch" /\ exit' = exit /\ flight' = flight /\ arrived' = arrived
      /\ popped' = popped + 4
      /\ msg.length >= 4 /\ msg.length - 4 = U24(v_data, 1)
      /\ msg'.type = v_data[1] /\ msg'.payload = U24(v_data, 1)
  BY DEF TakePreamble, Pop, PreambleLength
<1>7. OneMessage(flight.octets, s)
  BY <1>1, <1>2, <1>5, <1>6 DEF OneMessage, PreambleLength, HeaderLength
<1>8. /\ msg'.type = HandshakeType(flight.octets, s)
      /\ msg'.payload = U16(flight.octets, s + 3) - PreambleLength
  BY <1>1, <1>2, <1>5, <1>6 DEF HandshakeType, HeaderLength, PreambleLength
<1>9. popped' = s + (HeaderLength + PreambleLength)
  BY <1>2, <1>3, <1>6 DEF HeaderLength, PreambleLength
<1>10. AtPayload'
  BY <1>1, <1>2, <1>6, <1>7, <1>8, <1>9 DEF AtPayload, InRecord
<1>11. QED
  BY <1>6, <1>10 DEF Framed, AtRecord, AtPreamble, AtEntry, NothingWhole

\* What AtPayload says of the record whose message is dispatched.
LEMMA Dispatched ==
  ASSUME BufferInv, WellFramed(flight), Framed, pc = "dispatch"
  PROVE  \E s \in flight.starts :
           /\ s \in Nat /\ s < Len(flight.octets)
           /\ popped = s + 9
           /\ OneMessage(flight.octets, s)
           /\ msg.type = HandshakeType(flight.octets, s)
           /\ msg.payload = U16(flight.octets, s + 3) - 4
           /\ U16(flight.octets, s + 3) \in Nat
           /\ RecordEnd(flight.octets, s) = s + 5 + U16(flight.octets, s + 3)
           /\ RecordEnd(flight.octets, s) \in flight.starts
           /\ RecordEnd(flight.octets, s) <= arrived
           /\ Len(v_data) = arrived - popped
<1>1. PICK s \in flight.starts :
        /\ InRecord(s, HeaderLength + PreambleLength)
        /\ OneMessage(flight.octets, s)
        /\ msg.type = HandshakeType(flight.octets, s)
        /\ msg.payload = U16(flight.octets, s + 3) - PreambleLength
  BY DEF Framed, AtPayload
<1>2. /\ popped = s + 9 /\ s < Len(flight.octets)
      /\ RecordEnd(flight.octets, s) <= arrived
      /\ msg.payload = U16(flight.octets, s + 3) - 4
  BY <1>1 DEF InRecord, HeaderLength, PreambleLength
<1>3. QED
  BY <1>1, <1>2, RecordTyping, DequeTyping DEF BufferInv

\* A hello of a well-framed flight ends where its record ends.
LEMMA HelloFits ==
  ASSUME BufferInv, WellFramed(flight), Framed, pc = "dispatch",
         msg.type = ServerHelloType
  PROVE  /\ HelloLength <= Len(v_data)
         /\ popped + HelloLength \in flight.starts
         /\ popped + HelloLength = RecordEnd(flight.octets, popped - 9)
<1>1. PICK s \in flight.starts :
        /\ s \in Nat /\ s < Len(flight.octets)
        /\ popped = s + 9
        /\ OneMessage(flight.octets, s)
        /\ msg.type = HandshakeType(flight.octets, s)
        /\ U16(flight.octets, s + 3) \in Nat
        /\ RecordEnd(flight.octets, s) = s + 5 + U16(flight.octets, s + 3)
        /\ RecordEnd(flight.octets, s) \in flight.starts
        /\ RecordEnd(flight.octets, s) <= arrived
        /\ Len(v_data) = arrived - popped
  BY Dispatched
<1>2. WellFormedHello(flight.octets, s)
  BY <1>1 DEF WellFramed
<1>3. /\ Payload(s) = popped /\ HelloHeadLength = 35 /\ HelloTailLength = 3
  BY <1>1 DEF Payload, HeaderLength, PreambleLength, HelloHeadLength,
     HelloTailLength, SizeofRandom
<1>4. /\ RecordEnd(flight.octets, s) >= popped + 35 + 3
      /\ RecordEnd(flight.octets, s) = popped + 35 + flight.octets[popped + 35] + 3
  BY <1>2, <1>3 DEF WellFormedHello
<1>5. arrived \in Nat /\ popped \in Nat
  BY FlightTyping DEF BufferInv, TypeOK
<1>6. Len(v_data) >= 35 /\ Len(v_data) \in Nat
  BY <1>1, <1>4, <1>5
<1>7. v_data[35] = flight.octets[popped + 35] /\ v_data[35] \in Nat
  <2>1. v_data[35] = flight.octets[popped + 35] /\ v_data[35] \in Octet
    BY <1>6, DequeTyping DEF BufferInv
  <2>2. QED
    BY <2>1 DEF Octet
<1>8. HelloLength = 35 + v_data[35] + 3
  BY <1>3, <1>6, <1>7 DEF HelloLength
<1>9. popped + HelloLength = RecordEnd(flight.octets, s)
  BY <1>4, <1>5, <1>7, <1>8
<1>10. popped - 9 = s
  BY <1>1
<1>11. QED
  BY <1>1, <1>5, <1>7, <1>8, <1>9, <1>10, SMTT(30)

\* The list of a well-framed flight begins behind its own length.
LEMMA ListFits ==
  ASSUME BufferInv, WellFramed(flight), Framed, pc = "dispatch",
         msg.type = CertificatesType
  PROVE  /\ 3 <= Len(v_data)
         /\ \E e \in flight.starts :
              /\ <<popped + 3, e>> \in flight.entries
              /\ e <= arrived
              /\ msg.payload >= 3
              /\ popped + 3 + (msg.payload - 3) = e
<1>1. PICK s \in flight.starts :
        /\ s \in Nat /\ s < Len(flight.octets)
        /\ popped = s + 9
        /\ OneMessage(flight.octets, s)
        /\ msg.type = HandshakeType(flight.octets, s)
        /\ msg.payload = U16(flight.octets, s + 3) - 4
        /\ U16(flight.octets, s + 3) \in Nat
        /\ RecordEnd(flight.octets, s) = s + 5 + U16(flight.octets, s + 3)
        /\ RecordEnd(flight.octets, s) \in flight.starts
        /\ RecordEnd(flight.octets, s) <= arrived
        /\ Len(v_data) = arrived - popped
  BY Dispatched
<1>2. WellFormedCertificates(flight, s)
  BY <1>1 DEF WellFramed
<1>3. Payload(s) = popped
  BY <1>1 DEF Payload, HeaderLength, PreambleLength
<1>4. /\ RecordEnd(flight.octets, s) >= popped + 3
      /\ <<popped + 3, RecordEnd(flight.octets, s)>> \in flight.entries
  BY <1>2, <1>3 DEF WellFormedCertificates
<1>5. arrived \in Nat /\ popped \in Nat
  BY FlightTyping DEF BufferInv, TypeOK
<1>6. /\ 3 <= Len(v_data)
      /\ msg.payload >= 3
      /\ popped + 3 + (msg.payload - 3) = RecordEnd(flight.octets, s)
  BY <1>1, <1>4, <1>5, SMTT(30)
<1>7. QED
  BY <1>1, <1>4, <1>6

\* While the loop goes on, the next entry lies inside the list.
LEMMA EntryFits ==
  ASSUME BufferInv, WellFramed(flight), Framed, pc = "certificates",
         MoreCertificates
  PROVE  /\ EntryLength <= Len(v_data)
         /\ msg.payload >= 3
         /\ \E e \in flight.starts :
              /\ <<popped + EntryLength, e>> \in flight.entries
              /\ e <= arrived
              /\ popped + (msg.payload - 3 - offset) = e
<1>1. PICK e \in flight.starts :
        /\ <<popped, e>> \in flight.entries
        /\ e <= arrived
        /\ msg.payload >= 3
        /\ popped + (msg.payload - 3 - offset) = e
  BY DEF Framed, AtEntry
<1>2. /\ arrived \in Nat /\ popped \in Nat /\ offset \in Nat
      /\ msg.payload \in Nat /\ e \in Nat
      /\ Len(v_data) = arrived - popped /\ Len(v_data) \in Nat
  BY FlightTyping, DequeTyping DEF BufferInv, TypeOK
<1>3. popped < e
  BY <1>1, <1>2 DEF MoreCertificates
<1>4. WellFormedEntries(flight)
  BY DEF WellFramed
<1>5. /\ popped + 3 <= e
      /\ <<popped + 3 + U24(flight.octets, popped), e>> \in flight.entries
  BY <1>1, <1>3, <1>4 DEF WellFormedEntries
<1>6. popped + 3 + U24(flight.octets, popped) <= e
  BY <1>4, <1>5 DEF WellFormedEntries
<1>7. Len(v_data) >= 3
  BY <1>1, <1>2, <1>5
<1>8. /\ U24(v_data, 0) = U24(flight.octets, popped)
      /\ U24(v_data, 0) \in Nat
  <2>1. \A j \in 1..Len(v_data) : v_data[j] \in Octet
    BY DequeTyping DEF BufferInv
  <2>2. 0 + 3 <= Len(v_data) => U24(v_data, 0) \in Nat
    BY <1>2, <2>1, FieldTyping
  <2>3. QED
    BY <1>2, <1>7, <2>2, FieldAt DEF BufferInv
<1>9. EntryLength = 3 + U24(flight.octets, popped) /\ EntryLength \in Nat
  BY <1>2, <1>7, <1>8 DEF EntryLength
<1>10. popped + EntryLength = popped + 3 + U24(flight.octets, popped)
  BY <1>2, <1>8, <1>9
<1>11. popped + EntryLength <= arrived
  BY <1>1, <1>2, <1>6, <1>9, <1>10
<1>12. EntryLength <= Len(v_data)
  BY <1>2, <1>9, <1>11
<1>13. <<popped + EntryLength, e>> \in flight.entries
  BY <1>5, <1>10
<1>14. QED
  BY <1>1, <1>12, <1>13

LEMMA FramedNext ==
  ASSUME BufferInv, WellFramed(flight), Framed, [Next]_vars
  PROVE  Framed'
<1>1. CASE Connect
  BY <1>1 DEF Connect, decodeVars, Framed, AtRecord, AtPreamble, AtPayload, AtEntry,
     NothingWhole, WholeRecord, RecordLength
<1>2. CASE ConnectFails
  BY <1>2, AbortStep DEF ConnectFails
<1>3. CASE Write
  BY <1>3 DEF Write, decodeVars, Framed, AtRecord, AtPreamble, AtPayload, AtEntry,
     NothingWhole, WholeRecord, RecordLength
<1>4. CASE ReadSome
  BY <1>4 DEF ReadSome, ReadData, decodeVars, Framed, AtRecord, AtPreamble, AtPayload,
     AtEntry, NothingWhole
<1>5. CASE ReadEnd
  BY <1>5 DEF ReadEnd, Stop, decodeVars, Framed, AtRecord, AtPreamble, AtPayload,
     AtEntry, NothingWhole, WholeRecord, RecordLength
<1>6. CASE ReadError
  BY <1>6, AbortStep DEF ReadError
<1>7. CASE Decode
  <2>1. CASE AwaitMore
    BY <2>1 DEF AwaitMore, decodeVars, Framed, AtRecord, AtPreamble, AtPayload, AtEntry,
       NothingWhole, WholeRecord, RecordLength
  <2>2. CASE UnsupportedRecord
    BY <2>2, AbortStep DEF UnsupportedRecord
  <2>3. CASE TakeHeader
    BY <2>3, TakeHeaderFramed
  <2>4. CASE IncompleteType
    BY <2>4, AbortStep DEF IncompleteType
  <2>5. CASE ReadPastNode
    BY <2>5, AbortStep DEF ReadPastNode
  <2>6. CASE LengthDiscrepancy
    BY <2>6, AbortStep DEF LengthDiscrepancy
  <2>7. CASE TakePreamble
    BY <2>7, TakePreambleFramed
  <2>8. CASE ServerHello
    <3>1. HelloLength <= Len(v_data) /\ popped + HelloLength \in flight.starts
      BY <2>8, HelloFits DEF ServerHello
    <3>2. HelloLength \in Nat /\ Len(v_data) \in Nat
      BY HelloLengthTyping, DequeTyping DEF BufferInv
    <3>3. Pop(HelloLength) /\ pc' = "decode" /\ UNCHANGED <<flight, exit>>
      <4>1. ~PopFails(HelloLength)
        BY <3>1, <3>2, PopSucceeds
      <4>2. QED
        BY <2>8, <4>1 DEF ServerHello
    <3>4. QED
      BY <3>1, <3>3 DEF Pop, Framed, AtRecord, AtPreamble, AtPayload, AtEntry, NothingWhole
  <2>9. CASE BeginCertificates
    <3>1. PICK e \in flight.starts :
            /\ <<popped + 3, e>> \in flight.entries
            /\ e <= arrived
            /\ msg.payload >= 3
            /\ popped + 3 + (msg.payload - 3) = e
      BY <2>9, ListFits DEF BeginCertificates
    <3>2. 3 <= Len(v_data) /\ Len(v_data) \in Nat
      BY <2>9, ListFits, DequeTyping DEF BeginCertificates, BufferInv
    <3>3. /\ Pop(3) /\ pc' = "certificates" /\ offset' = 0
          /\ UNCHANGED <<flight, exit, arrived, msg>>
      <4>1. ~PopFails(3)
        BY <3>2, PopSucceeds
      <4>2. QED
        BY <2>9, <4>1 DEF BeginCertificates
    <3>4. popped' + (msg'.payload - 3 - offset') = e
      <4>1. popped' = popped + 3 /\ msg' = msg /\ offset' = 0
        BY <3>3 DEF Pop
      <4>2. QED
        BY <3>1, <4>1, CounterTyping DEF BufferInv
    <3>5. <<popped', e>> \in flight'.entries /\ e \in flight'.starts /\ e <= arrived'
      BY <3>1, <3>3 DEF Pop
    <3>6. AtEntry'
      BY <3>1, <3>3, <3>4, <3>5 DEF AtEntry
    <3>7. QED
      BY <3>3, <3>6 DEF Framed, AtRecord, AtPreamble, AtPayload, NothingWhole
  <2>10. CASE NextCertificate
    <3>1. /\ EntryLength <= Len(v_data) /\ msg.payload >= 3
          /\ EntryLength \in Nat /\ Len(v_data) \in Nat
      BY <2>10, EntryFits, EntryLengthTyping, DequeTyping
         DEF NextCertificate, BufferInv
    <3>2. PICK e \in flight.starts :
            /\ <<popped + EntryLength, e>> \in flight.entries
            /\ e <= arrived
            /\ popped + (msg.payload - 3 - offset) = e
      BY <2>10, EntryFits DEF NextCertificate
    <3>3. /\ Pop(EntryLength) /\ offset' = offset + EntryLength
          /\ pc' = "certificates" /\ UNCHANGED <<flight, exit, arrived, msg>>
      <4>1. ~PopFails(EntryLength)
        BY <3>1, PopSucceeds
      <4>2. QED
        BY <2>10, <4>1 DEF NextCertificate
    <3>4. popped' = popped + EntryLength
      BY <3>3 DEF Pop
    <3>5. popped' + (msg'.payload - 3 - offset') = e
      <4>1. popped \in Nat /\ offset \in Nat /\ msg.payload \in Nat
        BY CounterTyping DEF BufferInv
      <4>2. msg' = msg /\ offset' = offset + EntryLength
        BY <3>3
      <4>3. QED
        BY <3>1, <3>2, <3>4, <4>1, <4>2
    <3>6. <<popped', e>> \in flight'.entries /\ e \in flight'.starts /\ e <= arrived'
      BY <3>2, <3>3, <3>4
    <3>7. AtEntry'
      BY <3>1, <3>3, <3>5, <3>6 DEF Framed, AtEntry
    <3>8. QED
      BY <3>3, <3>7 DEF Framed, AtRecord, AtPreamble, AtPayload, NothingWhole
  <2>11. CASE MalformedCertificate
    BY <2>11, AbortStep DEF MalformedCertificate
  <2>12. CASE ChainChecked
    <3>1. PICK e \in flight.starts :
            /\ <<popped, e>> \in flight.entries
            /\ msg.payload >= 3
            /\ popped + (msg.payload - 3 - offset) = e
      BY <2>12 DEF ChainChecked, Framed, AtEntry
    <3>2. popped <= e
      BY <3>1 DEF WellFramed, WellFormedEntries
    <3>3. popped = e
      <4>1. popped \in Nat /\ offset \in Nat /\ msg.payload \in Nat /\ e \in Nat
        BY CounterTyping, FlightTyping DEF BufferInv
      <4>2. ~(offset < msg.payload - 3)
        BY <2>12 DEF ChainChecked, MoreCertificates
      <4>3. QED
        BY <3>1, <3>2, <4>1, <4>2
    <3>4. QED
      BY <2>12, <3>3
         DEF ChainChecked, Framed, AtRecord, AtPreamble, AtPayload, AtEntry, NothingWhole
  <2>13. CASE ChainAborts
    BY <2>13, AbortStep DEF ChainAborts
  <2>14. CASE ServerHelloDone
    BY <2>14 DEF ServerHelloDone, Framed, AtRecord, AtPreamble, AtPayload, AtEntry,
       NothingWhole
  <2>15. CASE UnsupportedType
    BY <2>15, AbortStep DEF UnsupportedType
  <2>16. QED
    BY <1>7, <2>1, <2>2, <2>3, <2>4, <2>5, <2>6, <2>7, <2>8, <2>9, <2>10,
       <2>11, <2>12, <2>13, <2>14, <2>15 DEF Decode
<1>8. CASE UNCHANGED vars
  BY <1>8 DEF vars, Framed, AtRecord, AtPreamble, AtPayload, AtEntry, InRecord,
     NothingWhole, WholeRecord, RecordLength
<1>9. QED
  BY <1>1, <1>2, <1>3, <1>4, <1>5, <1>6, <1>7, <1>8 DEF Next, Terminated

LEMMA FramingInvariant == Spec => []FramingInv
<1>1. Init => FramingInv
  BY FramedInit DEF FramingInv
<1>2. BufferInv /\ FramingInv /\ [Next]_vars => FramingInv'
  <2> SUFFICES ASSUME BufferInv, FramingInv, [Next]_vars, WellFramed(flight)'
               PROVE  Framed'
    BY DEF FramingInv
  <2>1. WellFramed(flight)
    BY FlightUnchanged
  <2>2. QED
    BY <2>1, FramedNext DEF FramingInv
<1>3. QED
  BY <1>1, <1>2, BufferInvariant, PTL DEF Spec

\* On every well-framed flight, each time the decoder looks for a header or
\* waits for data, the deque begins at a record: every handler takes exactly
\* the octets of its message.
THEOREM FramingCorrect == Spec => []RecordAligned
<1>1. FramingInv => RecordAligned
  BY DEF FramingInv, Framed, AtRecord, RecordAligned
<1>2. QED
  BY <1>1, FramingInvariant, PTL

\* No handler takes from an empty deque on a well-framed flight.
THEOREM NoOverrun == Spec => []NeverOverruns
<1>1. FramingInv => NeverOverruns
  BY DEF FramingInv, Framed, NeverOverruns
<1>2. QED
  BY <1>1, FramingInvariant, PTL

\* Whenever the client waits or has returned, every record of a well-framed
\* flight that arrived in full was taken: records do not overlap, so one that
\* was missed would be the one at the front of the deque, or behind it.
THEOREM NothingMissed == Spec => []WholeRecordsTaken
<1>1. BufferInv /\ FramingInv => WholeRecordsTaken
  <2> SUFFICES ASSUME BufferInv, FramingInv, WellFramed(flight),
                      pc \in {"read", "returned"},
                      NEW s \in flight.starts, s < Len(flight.octets),
                      RecordEnd(flight.octets, s) <= arrived
               PROVE  RecordEnd(flight.octets, s) <= popped
    BY DEF WholeRecordsTaken
  <2>1. popped \in flight.starts /\ ~WholeRecord
    BY DEF FramingInv, Framed, AtRecord, NothingWhole
  <2>2. /\ s \in Nat /\ RecordEnd(flight.octets, s) \in Nat
        /\ U16(flight.octets, s + 3) \in Nat
        /\ RecordEnd(flight.octets, s) = s + 5 + U16(flight.octets, s + 3)
        /\ popped \in Nat /\ arrived \in Nat /\ Len(flight.octets) \in Nat
        /\ arrived <= Len(flight.octets)
    BY RecordTyping, FlightTyping DEF BufferInv, TypeOK
  <2>3. CASE s < popped
    BY <2>1, <2>3 DEF WellFramed
  <2>4. CASE popped <= s
    <3>1. popped < Len(flight.octets)
      BY <2>2, <2>4
    <3>2. /\ RecordEnd(flight.octets, popped) = popped + 5 + U16(flight.octets, popped + 3)
          /\ U16(flight.octets, popped + 3) \in Nat
      BY <2>1, <3>1, RecordTyping DEF BufferInv
    <3>3. RecordEnd(flight.octets, popped) <= arrived
      <4>1. CASE popped = s
        BY <4>1
      <4>2. CASE popped < s
        <5>1. RecordEnd(flight.octets, popped) <= s
          BY <2>1, <3>1, <4>2 DEF WellFramed
        <5>2. QED
          BY <2>2, <3>2, <5>1
      <4>3. QED
        BY <2>2, <2>4, <4>1, <4>2
    <3>4. /\ Len(v_data) >= 5
          /\ Len(v_data) >= U16(flight.octets, popped + 3) + 5
      BY <2>2, <3>2, <3>3, DequeTyping, SMTT(30) DEF BufferInv
    <3>5. RecordLength = U16(flight.octets, popped + 3)
      BY <3>4, FieldAt DEF BufferInv, RecordLength
    <3>6. QED
      BY <2>1, <3>4, <3>5 DEF WholeRecord, HeaderLength
  <2>5. QED
    BY <2>2, <2>3, <2>4
<1>2. QED
  BY <1>1, BufferInvariant, FramingInvariant, PTL
-----------------------------------------------------------------------------
(* The octets of the ClientHello. *)

OfLength(s, n) == s \in Seq(Int) /\ Len(s) = n
Then(a, b) == a \o b

\* Where the octets of a and of b are in a \o b.
LEMMA Concatenation ==
  ASSUME NEW a, NEW b, NEW n \in Nat, NEW m \in Nat, OfLength(a, n), OfLength(b, m)
  PROVE  /\ OfLength(Then(a, b), n + m)
         /\ \A k \in 1..n : Then(a, b)[k] = a[k]
         /\ \A k \in 1..m : Then(a, b)[n + k] = b[k]
<1>1. a \in Seq(Int) /\ b \in Seq(Int) /\ Len(a) = n /\ Len(b) = m
  BY DEF OfLength
<1>2. Then(a, b) \in Seq(Int) /\ Len(Then(a, b)) = n + m
  BY <1>1, SMTT(30) DEF Then
<1>3. \A k \in 1..n : Then(a, b)[k] = a[k]
  BY <1>1 DEF Then
<1>4. \A k \in 1..m : Then(a, b)[n + k] = b[k]
  <2> TAKE k \in 1..m
  <2> DEFINE l == n + k
  <2>1. l \in 1..(n + m) /\ l > n /\ l - n = k
    OBVIOUS
  <2> HIDE DEF l
  <2>2. Then(a, b)[l] = b[l - n]
    BY <1>1, <2>1 DEF Then
  <2> QED
    BY <2>1, <2>2 DEF l
<1> QED
  BY <1>2, <1>3, <1>4 DEF OfLength

\* The body: the lengths of the session id, of the suites and of the methods.
LEMMA HelloBody ==
  ASSUME NEW time, OfLength(time, 4)
  PROVE  /\ OfLength(Hello(time), 75)
         /\ Hello(time)[35] = 0
         /\ Hello(time)[36] = 0 /\ Hello(time)[37] = 34
         /\ Hello(time)[72] = 1 /\ Hello(time)[73] = 0
         /\ Hello(time)[74] = 0 /\ Hello(time)[75] = 0
<1> DEFINE zeros == [k \in 1..13 |-> 0]
           first == <<0, 0, 0, 0, 5, 0, 0, 0, 0, 0, 3, 0, 0, 1>>
<1>1. OfLength(RandomBytes, 28)
  <2>1. OfLength(first, 14) /\ OfLength(zeros, 13) /\ OfLength(<<6>>, 1)
    BY DEF OfLength
  <2>2. RandomBytes = Then(Then(first, zeros), <<6>>)
    BY DEF RandomBytes, Then
  <2> HIDE DEF first, zeros
  <2>3. OfLength(Then(first, zeros), 27)
    BY <2>1, 14 + 13 = 27, Concatenation
  <2> QED
    BY <2>1, <2>2, <2>3, 27 + 1 = 28, Concatenation
<1>2. OfLength(CipherSuites, 34)
  BY DEF CipherSuites, OfLength
<1>3. U16Octets(34) = <<0, 34>>
  BY DEF U16Octets
<1> DEFINE h1 == Then(<<3, 3>>, time)
           h2 == Then(h1, RandomBytes)
           h3 == Then(h2, <<0>>)
           h4 == Then(h3, <<0, 34>>)
           h5 == Then(h4, CipherSuites)
           h6 == Then(h5, <<1, 0>>)
           h7 == Then(h6, <<0, 0>>)
<1>4. Hello(time) = h7
  BY <1>3 DEF Hello, Then
<1>5. /\ OfLength(<<3, 3>>, 2) /\ OfLength(<<0>>, 1) /\ OfLength(<<0, 34>>, 2)
      /\ OfLength(<<1, 0>>, 2) /\ OfLength(<<0, 0>>, 2)
      /\ <<0>>[1] = 0 /\ <<0, 34>>[1] = 0 /\ <<0, 34>>[2] = 34
      /\ <<1, 0>>[1] = 1 /\ <<1, 0>>[2] = 0 /\ <<0, 0>>[1] = 0 /\ <<0, 0>>[2] = 0
  BY DEF OfLength
<1>6. 1 \in 1..1 /\ 1 \in 1..2 /\ 2 \in 1..2
  OBVIOUS
<1>7. OfLength(h1, 6)
  BY <1>5, 2 + 4 = 6, Concatenation
<1> HIDE DEF h1
<1>8. OfLength(h2, 34)
  BY <1>1, <1>7, 6 + 28 = 34, Concatenation
<1> HIDE DEF h2
<1>9. OfLength(h3, 35) /\ h3[35] = 0
  BY <1>5, <1>6, <1>8, 34 + 1 = 35, Concatenation
<1> HIDE DEF h3
<1>10. OfLength(h4, 37) /\ h4[35] = 0 /\ h4[36] = 0 /\ h4[37] = 34
  BY <1>5, <1>6, <1>9, 35 + 1 = 36, 35 + 2 = 37, 35 \in 1..35, Concatenation
<1> HIDE DEF h4
<1>11. OfLength(h5, 71) /\ h5[35] = 0 /\ h5[36] = 0 /\ h5[37] = 34
  BY <1>2, <1>10, 37 + 34 = 71, 35 \in 1..37, 36 \in 1..37, 37 \in 1..37, Concatenation
<1> HIDE DEF h5
<1>12. /\ OfLength(h6, 73)
       /\ h6[35] = 0 /\ h6[36] = 0 /\ h6[37] = 34 /\ h6[72] = 1 /\ h6[73] = 0
  BY <1>5, <1>6, <1>11, 71 + 1 = 72, 71 + 2 = 73, 35 \in 1..71, 36 \in 1..71,
     37 \in 1..71, Concatenation
<1> HIDE DEF h6
<1>13. /\ OfLength(h7, 75)
       /\ h7[35] = 0 /\ h7[36] = 0 /\ h7[37] = 34 /\ h7[72] = 1 /\ h7[73] = 0
       /\ h7[74] = 0 /\ h7[75] = 0
  BY <1>5, <1>6, <1>12, 73 + 1 = 74, 73 + 2 = 75, 35 \in 1..73, 36 \in 1..73,
     37 \in 1..73, 72 \in 1..73, 73 \in 1..73, Concatenation
<1> HIDE DEF h7
<1> QED
  BY <1>4, <1>13

\* The record: its length and that of the message are those of the octets.
LEMMA HelloOctets ==
  ASSUME NEW time, OfLength(time, 4)
  PROVE  /\ OfLength(client_hello(time), 84)
         /\ client_hello(time)[1] = 22
         /\ client_hello(time)[4] = 0 /\ client_hello(time)[5] = 79
         /\ client_hello(time)[6] = 1
         /\ client_hello(time)[7] = 0 /\ client_hello(time)[8] = 0
         /\ client_hello(time)[9] = 75
         /\ \A k \in 1..75 : client_hello(time)[9 + k] = Hello(time)[k]
<1> DEFINE body == Hello(time)
           head == Then(<<1>>, <<0, 0, 75>>)
           message == Then(head, body)
           start == Then(<<22, 3, 3>>, <<0, 79>>)
           record == Then(start, message)
<1>1. OfLength(body, 75)
  BY HelloBody
<1>2. U24Octets(75) = <<0, 0, 75>> /\ U16Octets(79) = <<0, 79>>
  BY DEF U24Octets, U16Octets
<1>3. Handshake(1, body) = message
  <2> HIDE DEF body
  <2> QED
    BY <1>1, <1>2 DEF Handshake, Then, OfLength
<1>4. client_hello(time) = Plaintext(message)
  BY <1>3 DEF client_hello
<1> HIDE DEF body
<1>5. OfLength(head, 4) /\ head[1] = 1 /\ head[2] = 0 /\ head[3] = 0 /\ head[4] = 75
  BY DEF OfLength, Then
<1> HIDE DEF head
<1>6. /\ OfLength(message, 79)
      /\ message[1] = 1 /\ message[2] = 0 /\ message[3] = 0 /\ message[4] = 75
      /\ \A k \in 1..75 : message[4 + k] = body[k]
  BY <1>1, <1>5, 4 + 75 = 79, 1 \in 1..4, 2 \in 1..4, 3 \in 1..4, 4 \in 1..4,
     Concatenation
<1> HIDE DEF message
<1>7. Plaintext(message) = record
  BY <1>2, <1>6 DEF Plaintext, OfLength, HandshakeRecord, Then
<1>8. OfLength(start, 5) /\ start[1] = 22 /\ start[4] = 0 /\ start[5] = 79
  BY DEF OfLength, Then
<1> HIDE DEF start
<1>9. /\ OfLength(record, 84)
      /\ record[1] = 22 /\ record[4] = 0 /\ record[5] = 79
      /\ \A k \in 1..79 : record[5 + k] = message[k]
  BY <1>6, <1>8, 5 + 79 = 84, 1 \in 1..5, 4 \in 1..5, 5 \in 1..5, Concatenation
<1> HIDE DEF record
<1>10. record[6] = 1 /\ record[7] = 0 /\ record[8] = 0 /\ record[9] = 75
  BY <1>6, <1>9, 1 \in 1..79, 2 \in 1..79, 3 \in 1..79, 4 \in 1..79,
     5 + 1 = 6, 5 + 2 = 7, 5 + 3 = 8, 5 + 4 = 9
<1>11. ASSUME NEW k \in 1..75
       PROVE  record[9 + k] = body[k]
  <2>1. 4 + k \in 1..79 /\ 5 + (4 + k) = 9 + k
    OBVIOUS
  <2>2. record[9 + k] = message[4 + k]
    BY <1>9, <2>1
  <2> QED
    BY <1>6, <2>2
<1>12. \A k \in 1..75 : record[9 + k] = body[k]
  BY <1>11
<1> QED
  BY <1>4, <1>7, <1>9, <1>10, <1>12 DEF body

\* The octets of a beginning of s.
LEMMA Beginning ==
  ASSUME NEW s \in Seq(Int), NEW n \in 0..Len(s)
  PROVE  /\ SubSeq(s, 1, n) \in Seq(Int) /\ Len(SubSeq(s, 1, n)) = n
         /\ \A k \in 1..n : SubSeq(s, 1, n)[k] = s[k]
<1>1. 1..n \subseteq 1..Len(s)
  OBVIOUS
<1> QED
  BY <1>1

\* Any beginning of the record is waited for to be completed, the whole is a hello.
LEMMA HelloHeard ==
  ASSUME NEW time, OfLength(time, 4), NEW n \in 0..84
  PROVE  LET heard == SubSeq(client_hello(time), 1, n) IN
           IF n < 84 THEN Incomplete(heard)
           ELSE Len(heard) = Len(client_hello(time)) /\ UnderstoodAsHello(heard)
<1> DEFINE o == client_hello(time)
           heard == SubSeq(o, 1, n)
<1>1. /\ OfLength(o, 84) /\ o[1] = 22 /\ o[4] = 0 /\ o[5] = 79
      /\ o[6] = 1 /\ o[7] = 0 /\ o[8] = 0 /\ o[9] = 75
      /\ \A k \in 1..75 : o[9 + k] = Hello(time)[k]
  BY HelloOctets
<1> HIDE DEF o
<1>2. /\ o[44] = 0 /\ o[45] = 0 /\ o[46] = 34 /\ o[81] = 1 /\ o[82] = 0
      /\ o[83] = 0 /\ o[84] = 0
  <2>1. /\ 35 \in 1..75 /\ 36 \in 1..75 /\ 37 \in 1..75 /\ 72 \in 1..75
        /\ 73 \in 1..75 /\ 74 \in 1..75 /\ 75 \in 1..75
        /\ 9 + 35 = 44 /\ 9 + 36 = 45 /\ 9 + 37 = 46 /\ 9 + 72 = 81
        /\ 9 + 73 = 82 /\ 9 + 74 = 83 /\ 9 + 75 = 84
    OBVIOUS
  <2> QED
    BY <1>1, <2>1, HelloBody
<1>3. heard \in Seq(Int) /\ Len(heard) = n /\ \A k \in 1..n : heard[k] = o[k]
  <2>1. o \in Seq(Int) /\ n \in 0..Len(o)
    BY <1>1 DEF OfLength
  <2> QED
    BY <2>1, Beginning
<1>4. HeaderLength = 5 /\ PreambleLength = 4 /\ SizeofRandom = 32 /\ HandshakeRecord = 22
  BY DEF HeaderLength, PreambleLength, SizeofRandom, HandshakeRecord
<1>5. ASSUME n < 84
      PROVE  Incomplete(heard)
  <2> HIDE DEF heard
  <2>1. CASE n < 5
    BY <1>3, <1>4, <2>1 DEF Incomplete
  <2>2. CASE n >= 5
    <3>0. 4 \in 1..n /\ 5 \in 1..n
      BY <2>2
    <3>1. heard[4] = 0 /\ heard[5] = 79
      BY <1>1, <1>3, <3>0
    <3>2. U16(heard, 3) = 79
      BY <3>1, 3 + 1 = 4, 3 + 2 = 5 DEF U16
    <3> QED
      BY <1>3, <1>4, <1>5, <3>2 DEF Incomplete
  <2> QED
    BY <2>1, <2>2
<1>6. ASSUME n = 84
      PROVE  Len(heard) = Len(o) /\ UnderstoodAsHello(heard)
  <2>1. heard[1] = 22 /\ heard[4] = 0 /\ heard[5] = 79 /\ heard[6] = 1
    BY <1>1, <1>3, <1>6
  <2>2. heard[7] = 0 /\ heard[8] = 0 /\ heard[9] = 75
    BY <1>1, <1>3, <1>6
  <2>3. heard[44] = 0 /\ heard[45] = 0 /\ heard[46] = 34
    BY <1>2, <1>3, <1>6
  <2>4. heard[81] = 1 /\ heard[82] = 0 /\ heard[83] = 0 /\ heard[84] = 0
    BY <1>2, <1>3, <1>6
  <2>5. Len(heard) = 84 /\ Len(o) = 84
    BY <1>1, <1>3, <1>6 DEF OfLength
  <2> HIDE DEF heard
  <2>6. U16(heard, 3) = 79
    BY <2>1, 3 + 1 = 4, 3 + 2 = 5 DEF U16
  <2>7. U24(heard, 6) = 75
    BY <2>2, 6 + 1 = 7, 6 + 2 = 8, 6 + 3 = 9 DEF U24
  <2>8. U16(heard, 44) = 34
    BY <2>3, 44 + 1 = 45, 44 + 2 = 46 DEF U16
  <2>9. U16(heard, 82) = 0
    BY <2>4, 82 + 1 = 83, 82 + 2 = 84 DEF U16
  <2>10. 5 + 1 = 6 /\ 43 + 1 = 44 /\ 80 + 1 = 81 /\ 80 + 1 + 1 = 82 /\ 44 + 2 + 34 = 80
    OBVIOUS
  <2>11. \E k \in 1..heard[80 + 1] : heard[80 + 1 + k] = 0
    BY <2>4, <2>10, 1 \in 1..1
  <2> QED
    BY <1>4, <2>1, <2>3, <2>4, <2>5, <2>6, <2>7, <2>8, <2>9, <2>10, <2>11
       DEF UnderstoodAsHello
<1> QED
  BY <1>5, <1>6 DEF o

\* However much write() passed on, the server waits for the rest or understands a
\* hello, for both clocks (tls.h:19-55, 96-109, http.cpp:58).
THEOREM HelloAlwaysUnderstood == Spec => []HelloUnderstood
<1>1. TypeOK => HelloUnderstood
  <2> SUFFICES ASSUME TypeOK, NEW time \in {<<0, 0, 0, 0>>, <<255, 1, 44, 106>>}
               PROVE  LET heard == SubSeq(client_hello(time), 1, written) IN
                        IF written < PayloadLength THEN Incomplete(heard)
                        ELSE /\ Len(heard) = Len(client_hello(time))
                             /\ UnderstoodAsHello(heard)
    BY DEF HelloUnderstood
  <2>1. OfLength(time, 4)
    <3>1. OfLength(<<0, 0, 0, 0>>, 4) /\ OfLength(<<255, 1, 44, 106>>, 4)
      BY DEF OfLength
    <3> QED
      BY <3>1
  <2>2. PayloadLength = 84
    BY DEF PayloadLength, HeaderLength, PreambleLength, SizeofClientHello, SizeofRandom
  <2>3. written \in 0..84
    BY <2>2 DEF TypeOK
  <2> QED
    BY <2>1, <2>2, <2>3, HelloHeard
<1> QED
  BY <1>1, TypeCorrect, PTL

-----------------------------------------------------------------------------
(* request() hands out the messages of the server: on well-framed flights    *)
(* Request implements MessageFeed, and what it has handed out is counted by  *)
(* the record at which it stands.                                            *)

\* Servers whose records and lists are as long as their fields say.
Conforming == \A f \in Flights : WellFramed(f)

Msg == {flight.msgs[i] : i \in DOMAIN flight.msgs}
Known == {ServerHelloType, CertificatesType, ServerHelloDoneType}

\* As many messages were handed out as end before the record at s.
Counted(s) == Len(decoded) = flight.number[s]

CountedAtRecord ==
  pc \in {"connect", "write", "read", "decode"} => Counted(popped)

CountedAtPreamble ==
  pc = "preamble" => popped - HeaderLength \in flight.starts /\ Counted(popped - HeaderLength)

CountedAtPayload ==
  pc = "dispatch" =>
    LET s == popped - (HeaderLength + PreambleLength)
    IN s \in flight.starts /\ Counted(s)

\* The chain is that of the entries taken, and the whole list is the next message.
ChainSoFar ==
  pc = "certificates" =>
    LET e == popped + (msg.payload - 3 - offset) IN
      /\ cert_chain = flight.lists[<<popped, e>>]
      /\ e \in flight.starts
      /\ flight.number[e] = Len(decoded) + 1
      /\ flight.msgs[Len(decoded) + 1] = ListMeant(flight, e)

\* What was handed out are the first messages of the flight.
Prefix ==
  /\ decoded \in Seq(Msg)
  /\ Len(decoded) <= Len(flight.msgs)
  /\ \A i \in 1..Len(decoded) : decoded[i] = flight.msgs[i]

HandedInv ==
  /\ Prefix
  /\ CountedAtRecord /\ CountedAtPreamble /\ CountedAtPayload
  /\ ChainSoFar
  /\ exit = "server hello done" => pc = "aborted" /\ Len(decoded) = Len(flight.msgs)

IInv == BufferInv /\ WellFramed(flight) /\ Framed /\ HandedInv
-----------------------------------------------------------------------------
\* A piece of a window is the piece of the stream that many octets further on.
LEMMA WindowSlice ==
  ASSUME NEW S, NEW o \in Seq(S), NEW a \in 0..Len(o), NEW p \in 0..a,
         NEW w, w = SubSeq(o, p + 1, a),
         NEW i \in Nat, NEW j \in Nat, i <= j, j <= Len(w)
  PROVE  SubSeq(w, i + 1, j) = SubSeq(o, p + i + 1, p + j)
<1>1. /\ w \in Seq(S)
      /\ Len(w) = a - p
      /\ \A k \in 1..(a - p) : w[k] = o[p + k]
      /\ Len(o) \in Nat
  BY WindowProperties, LenProperties
<1>2. /\ SubSeq(w, i + 1, j) \in Seq(S)
      /\ Len(SubSeq(w, i + 1, j)) = j - i
      /\ \A k \in 1..(j - i) : SubSeq(w, i + 1, j)[k] = w[i + k]
  <2>1. j \in 0..Len(w) /\ i \in 0..j
    BY <1>1
  <2>2. QED
    BY <1>1, <2>1, WindowProperties
<1>3. /\ SubSeq(o, (p + i) + 1, p + j) \in Seq(S)
      /\ Len(SubSeq(o, (p + i) + 1, p + j)) = (p + j) - (p + i)
      /\ \A k \in 1..((p + j) - (p + i)) :
           SubSeq(o, (p + i) + 1, p + j)[k] = o[(p + i) + k]
  <2>1. p + j \in 0..Len(o) /\ p + i \in 0..(p + j)
    BY <1>1
  <2>2. QED
    BY <2>1, WindowProperties
<1>4. SubSeq(w, i + 1, j) = SubSeq(o, (p + i) + 1, p + j)
  <2>1. Len(SubSeq(w, i + 1, j)) = Len(SubSeq(o, (p + i) + 1, p + j))
    BY <1>1, <1>2, <1>3
  <2>2. ASSUME NEW k \in 1..Len(SubSeq(w, i + 1, j))
        PROVE  SubSeq(w, i + 1, j)[k] = SubSeq(o, (p + i) + 1, p + j)[k]
    <3>1. k \in 1..(j - i) /\ k \in 1..((p + j) - (p + i)) /\ i + k \in 1..(a - p)
      BY <1>1, <1>2
    <3>2. SubSeq(w, i + 1, j)[k] = o[p + (i + k)]
      BY <1>1, <1>2, <3>1
    <3>3. p + (i + k) = (p + i) + k
      BY <3>1, <1>1
    <3>4. QED
      BY <1>3, <3>1, <3>2, <3>3
  <2>3. QED
    BY <1>2, <1>3, <2>1, <2>2, SeqEqual
<1>5. QED
  BY <1>1, <1>4

\* In particular a piece of the deque is a piece of the flight.
LEMMA SliceAt ==
  ASSUME TypeOK, BufferIsUnread, NEW i \in Nat, NEW j \in Nat,
         i <= j, j <= Len(v_data)
  PROVE  SubSeq(v_data, i + 1, j) = SubSeq(flight.octets, popped + i + 1, popped + j)
<1>1. /\ flight.octets \in Seq(Octet)
      /\ arrived \in 0..Len(flight.octets) /\ popped \in 0..arrived
      /\ v_data = SubSeq(flight.octets, popped + 1, arrived)
  BY FlightTyping DEF TypeOK, BufferIsUnread
<1>2. QED
  BY <1>1, WindowSlice

\* What the fields of the flight say.
LEMMA FlightMeaning ==
  ASSUME TypeOK, WellFramed(flight)
  PROVE  /\ Meaning(flight)
         /\ flight.msgs \in Seq(Msg) /\ Len(flight.msgs) \in Nat
         /\ \A s \in flight.starts : flight.number[s] \in 0..Len(flight.msgs)
<1>1. Meaning(flight)
  BY MeaningAssumption DEF TypeOK
<1>2. flight.msgs \in Seq(Msg)
  BY <1>1 DEF Meaning, Msg
<1>3. Len(flight.msgs) \in Nat
  BY <1>2, LenProperties
<1>4. QED
  BY <1>1, <1>2, <1>3 DEF Meaning

\* Handing out the next message keeps the messages in order.
LEMMA PrefixAppend ==
  ASSUME Prefix, flight.msgs \in Seq(Msg), Len(decoded) < Len(flight.msgs),
         decoded' = Append(decoded, flight.msgs[Len(decoded) + 1]), flight' = flight
  PROVE  Prefix' /\ Len(decoded') = Len(decoded) + 1
<1> DEFINE next == flight.msgs[Len(decoded) + 1]
<1>1. Len(decoded) \in Nat /\ Len(flight.msgs) \in Nat
  BY LenProperties DEF Prefix
<1>2. next \in Msg
  BY <1>1, ElementOfSeq
<1>3. /\ decoded' \in Seq(Msg)
      /\ Len(decoded') = Len(decoded) + 1
      /\ \A i \in 1..Len(decoded) : decoded'[i] = decoded[i]
      /\ decoded'[Len(decoded) + 1] = next
  BY <1>1, <1>2, AppendProperties DEF Prefix
<1>4. Msg' = Msg
  BY DEF Msg
<1>5. \A i \in 1..Len(decoded') : decoded'[i] = flight.msgs[i]
  <2> SUFFICES ASSUME NEW i \in 1..Len(decoded') PROVE decoded'[i] = flight.msgs[i]
    OBVIOUS
  <2>1. CASE i \in 1..Len(decoded)
    BY <1>3, <2>1 DEF Prefix
  <2>2. CASE i = Len(decoded) + 1
    BY <1>3, <2>2
  <2> QED
    BY <1>1, <1>3, <2>1, <2>2
<1> HIDE DEF next
<1> QED
  BY <1>1, <1>3, <1>4, <1>5 DEF Prefix

-----------------------------------------------------------------------------
\* The next message of the flight is handed out.
HandsNext ==
  /\ Len(decoded) < Len(flight.msgs)
  /\ decoded' = Append(decoded, flight.msgs[Len(decoded) + 1])
  /\ flight' = flight

\* The record that is dispatched, and the message it carries.
LEMMA DispatchedMessage ==
  ASSUME IInv, pc = "dispatch", msg.type \in Known
  PROVE  \E s \in flight.starts :
           /\ s = popped - 9
           /\ RecordEnd(flight.octets, s) = popped + msg.payload
           /\ RecordEnd(flight.octets, s) \in flight.starts
           /\ Len(decoded) < Len(flight.msgs)
           /\ flight.number[RecordEnd(flight.octets, s)] = Len(decoded) + 1
           /\ Payload(s) = popped
           /\ msg.type = ServerHelloType =>
                flight.msgs[Len(decoded) + 1] = HelloMeant(flight, s)
           /\ msg.type = CertificatesType =>
                /\ flight.msgs[Len(decoded) + 1]
                     = ListMeant(flight, RecordEnd(flight.octets, s))
                /\ flight.lists[<<popped + 3, RecordEnd(flight.octets, s)>>] = <<>>
           /\ msg.type = ServerHelloDoneType =>
                /\ flight.msgs[Len(decoded) + 1] = DoneMeant
                /\ Len(decoded) + 1 = Len(flight.msgs)
<1>1. PICK s \in flight.starts :
        /\ s \in Nat /\ s < Len(flight.octets)
        /\ popped = s + 9
        /\ OneMessage(flight.octets, s)
        /\ msg.type = HandshakeType(flight.octets, s)
        /\ msg.payload = U16(flight.octets, s + 3) - 4
        /\ U16(flight.octets, s + 3) \in Nat
        /\ RecordEnd(flight.octets, s) = s + 5 + U16(flight.octets, s + 3)
        /\ RecordEnd(flight.octets, s) \in flight.starts
  BY Dispatched DEF IInv
<1>2. /\ s = popped - 9
      /\ RecordEnd(flight.octets, s) = popped + msg.payload
      /\ Payload(s) = popped
  BY <1>1 DEF Payload, HeaderLength, PreambleLength
<1>3. Len(decoded) = flight.number[s]
  <2>1. popped - (HeaderLength + PreambleLength) = s
    BY <1>1 DEF HeaderLength, PreambleLength
  <2>2. CountedAtPayload
    BY DEF IInv, HandedInv
  <2>3. QED
    BY <2>1, <2>2 DEF CountedAtPayload, Counted
<1>4. Meaning(flight) /\ Len(flight.msgs) \in Nat
      /\ flight.number[RecordEnd(flight.octets, s)] \in 0..Len(flight.msgs)
      /\ Len(decoded) \in Nat
  BY <1>1, <1>3, FlightMeaning, SMTT(30) DEF IInv, BufferInv
<1>5. /\ flight.number[RecordEnd(flight.octets, s)] = flight.number[s] + 1
      /\ msg.type = ServerHelloType =>
           flight.msgs[flight.number[s] + 1] = HelloMeant(flight, s)
      /\ msg.type = CertificatesType =>
           /\ flight.msgs[flight.number[s] + 1]
                = ListMeant(flight, RecordEnd(flight.octets, s))
           /\ flight.lists[<<Payload(s) + 3, RecordEnd(flight.octets, s)>>] = <<>>
      /\ msg.type = ServerHelloDoneType =>
           /\ flight.msgs[flight.number[s] + 1] = DoneMeant
           /\ flight.number[s] + 1 = Len(flight.msgs)
  BY <1>1, <1>4 DEF Meaning, Known
<1>6. Len(decoded) < Len(flight.msgs)
  BY <1>3, <1>4, <1>5
<1>7. QED
  BY <1>1, <1>2, <1>3, <1>5, <1>6, Zenon

LEMMA HelloStep ==
  ASSUME IInv, ServerHello
  PROVE  /\ HandsNext /\ pc' = "decode" /\ exit' = exit
         /\ flight.number[popped'] = Len(decoded) + 1
<1>1. pc = "dispatch" /\ msg.type = ServerHelloType
  BY DEF ServerHello
<1>2. PICK s \in flight.starts :
        /\ s = popped - 9
        /\ Len(decoded) < Len(flight.msgs)
        /\ flight.number[RecordEnd(flight.octets, s)] = Len(decoded) + 1
        /\ flight.msgs[Len(decoded) + 1] = HelloMeant(flight, s)
        /\ Payload(s) = popped
  BY <1>1, DispatchedMessage DEF Known
<1>3. /\ HelloLength <= Len(v_data)
      /\ popped + HelloLength = RecordEnd(flight.octets, s)
      /\ HelloLength \in Nat /\ Len(v_data) \in Nat
  BY <1>1, <1>2, HelloFits, HelloLengthTyping, DequeTyping DEF IInv, BufferInv
<1>4. /\ Pop(HelloLength) /\ pc' = "decode" /\ UNCHANGED <<flight, exit>>
      /\ decoded' = Append(decoded, [message |-> "ServerHello",
                                     session_id |-> SessionId,
                                     cipher_suite |-> CipherSuite])
  <2>1. ~PopFails(HelloLength)
    BY <1>3, PopSucceeds
  <2>2. QED
    BY <2>1 DEF ServerHello
<1>5. HelloHeadLength = 35 /\ HelloTailLength = 3
  BY DEF HelloHeadLength, HelloTailLength, SizeofRandom
<1>6. Len(v_data) >= 35 /\ v_data[35] \in Nat /\ v_data[35] = flight.octets[popped + 35]
      /\ 35 + v_data[35] + 3 <= Len(v_data)
  <2>1. Len(v_data) >= 35
    BY <1>3, <1>5 DEF HelloLength
  <2>2. v_data[35] \in Octet /\ v_data[35] = flight.octets[popped + 35]
    BY <1>3, <2>1, DequeTyping DEF IInv, BufferInv
  <2>3. v_data[35] \in Nat
    BY <2>2 DEF Octet
  <2>4. HelloLength = 35 + v_data[35] + 3
    BY <1>5, <2>1, <1>3 DEF HelloLength
  <2>5. QED
    BY <1>3, <2>1, <2>2, <2>3, <2>4
<1> DEFINE n == v_data[35]
<1> HIDE DEF n
<1>n. n \in Nat /\ n = v_data[35] /\ 35 + n + 3 <= Len(v_data)
  BY <1>6 DEF n
<1>k. /\ 35 \in Nat /\ 35 + n \in Nat /\ (35 + n) + 2 \in Nat
      /\ 35 <= 35 + n /\ 35 + n <= Len(v_data)
      /\ 35 + n <= (35 + n) + 2 /\ (35 + n) + 2 <= Len(v_data)
  BY <1>3, <1>n, SMTT(30)
<1>7. popped \in Nat
  BY CounterTyping DEF IInv, BufferInv
<1>8. SessionId = SubSeq(flight.octets, popped + 35 + 1, popped + 35 + n)
  <2>1. SubSeq(v_data, 35 + 1, 35 + n)
          = SubSeq(flight.octets, popped + 35 + 1, popped + (35 + n))
    BY <1>k, SliceAt, Zenon DEF IInv, BufferInv
  <2>2. popped + (35 + n) = popped + 35 + n
    BY <1>n, <1>7, SMTT(30)
  <2>3. QED
    BY <1>5, <1>n, <2>1, <2>2 DEF SessionId
<1>9. CipherSuite = SubSeq(flight.octets, popped + 35 + n + 1, popped + 35 + n + 2)
  <2>1. SubSeq(v_data, (35 + n) + 1, (35 + n) + 2)
          = SubSeq(flight.octets, popped + (35 + n) + 1, popped + ((35 + n) + 2))
    BY <1>k, SliceAt, Zenon DEF IInv, BufferInv
  <2>2. /\ popped + (35 + n) + 1 = popped + 35 + n + 1
        /\ popped + ((35 + n) + 2) = popped + 35 + n + 2
    BY <1>n, <1>7, SMTT(30)
  <2>3. QED
    BY <1>5, <1>n, <2>1, <2>2 DEF CipherSuite
<1>10. HelloMeant(flight, s)
         = [message |-> "ServerHello", session_id |-> SessionId,
            cipher_suite |-> CipherSuite]
  <2> DEFINE head == Payload(s) + HelloHeadLength
             end  == head + flight.octets[head]
  <2>1. HelloMeant(flight, s)
          = [message |-> "ServerHello",
             session_id |-> SubSeq(flight.octets, head + 1, end),
             cipher_suite |-> SubSeq(flight.octets, end + 1, end + 2)]
    BY DEF HelloMeant
  <2>2. head = popped + 35 /\ end = popped + 35 + n
    BY <1>2, <1>5, <1>6, <1>n
  <2> HIDE DEF head, end
  <2>3. QED
    BY <1>8, <1>9, <2>1, <2>2
<1>11. popped' = RecordEnd(flight.octets, s)
  BY <1>3, <1>4 DEF Pop
<1>12. QED
  BY <1>2, <1>4, <1>10, <1>11 DEF HandsNext

LEMMA DoneStep ==
  ASSUME IInv, ServerHelloDone
  PROVE  /\ HandsNext /\ pc' = "aborted" /\ exit' = "server hello done"
         /\ Len(decoded) + 1 = Len(flight.msgs)
<1>1. pc = "dispatch" /\ msg.type = ServerHelloDoneType
  BY DEF ServerHelloDone
<1>2. PICK s \in flight.starts :
        /\ Len(decoded) < Len(flight.msgs)
        /\ flight.msgs[Len(decoded) + 1] = DoneMeant
        /\ Len(decoded) + 1 = Len(flight.msgs)
  BY <1>1, DispatchedMessage DEF Known
<1>3. QED
  BY <1>2 DEF ServerHelloDone, HandsNext

\* Behind the last entry the chain is the whole list, which is the next message.
LEMMA ListDone ==
  ASSUME IInv, pc = "certificates", ~MoreCertificates
  PROVE  /\ popped \in flight.starts
         /\ flight.number[popped] = Len(decoded) + 1
         /\ flight.msgs[Len(decoded) + 1] = ListMeant(flight, popped)
         /\ cert_chain = flight.lists[<<popped, popped>>]
<1> DEFINE e == popped + (msg.payload - 3 - offset)
<1>1. /\ cert_chain = flight.lists[<<popped, e>>]
      /\ e \in flight.starts
      /\ flight.number[e] = Len(decoded) + 1
      /\ flight.msgs[Len(decoded) + 1] = ListMeant(flight, e)
  BY DEF IInv, HandedInv, ChainSoFar
<1>2. popped = e
  <2>1. PICK d \in flight.starts :
          <<popped, d>> \in flight.entries /\ d = e /\ msg.payload >= 3
    BY DEF IInv, Framed, AtEntry
  <2>2. popped <= e
    BY <2>1 DEF IInv, WellFramed, WellFormedEntries
  <2>3. popped \in Nat /\ offset \in Nat /\ msg.payload \in Nat
    BY CounterTyping DEF IInv, BufferInv
  <2>4. ~(offset < msg.payload - 3)
    BY DEF MoreCertificates
  <2>5. QED
    BY <2>2, <2>3, <2>4
<1> HIDE DEF e
<1>3. QED
  BY <1>1, <1>2

LEMMA ChainStep ==
  ASSUME IInv, ChainChecked
  PROVE  /\ HandsNext /\ pc' = "decode" /\ exit' = exit
         /\ flight.number[popped'] = Len(decoded) + 1
<1>1. /\ popped \in flight.starts
      /\ flight.number[popped] = Len(decoded) + 1
      /\ flight.msgs[Len(decoded) + 1] = ListMeant(flight, popped)
      /\ cert_chain = flight.lists[<<popped, popped>>]
  BY ListDone DEF ChainChecked
<1>2. Len(decoded) < Len(flight.msgs)
  <2>1. flight.number[popped] \in 0..Len(flight.msgs) /\ Len(flight.msgs) \in Nat
    BY <1>1, FlightMeaning DEF IInv, BufferInv
  <2>2. Len(decoded) \in Nat
    BY LenProperties DEF IInv, HandedInv, Prefix
  <2>3. QED
    BY <1>1, <2>1, <2>2
<1>3. decoded' = Append(decoded, [message |-> "Certificates", chain |-> cert_chain,
                                  verdict |-> VerifyChain(cert_chain)])
      /\ popped' = popped /\ pc' = "decode" /\ exit' = exit /\ flight' = flight
  BY DEF ChainChecked
<1>4. QED
  BY <1>1, <1>2, <1>3 DEF HandsNext, ListMeant
-----------------------------------------------------------------------------
\* A step that hands out nothing and keeps the place of what it has handed out.
LEMMA Quiet ==
  ASSUME Prefix, UNCHANGED <<flight, decoded>>
  PROVE  Prefix'
BY DEF Prefix, Msg

\* Running out, in any way but after the last message.
LEMMA StopHanded ==
  ASSUME HandedInv, exit # "server hello done",
         NEW label \in {"returned", "aborted"},
         NEW why, why # "server hello done", Stop(label, why)
  PROVE  HandedInv'
BY Quiet DEF Stop, decodeVars, HandedInv, CountedAtRecord, CountedAtPreamble,
   CountedAtPayload, ChainSoFar

LEMMA HandedInit ==
  ASSUME Init, WellFramed(flight)
  PROVE  HandedInv
<1>1. /\ flight.msgs \in Seq(Msg) /\ Len(flight.msgs) \in Nat
      /\ flight.number[0] = 0
  <2>1. Meaning(flight)
    BY MeaningAssumption DEF Init
  <2>2. flight.msgs \in Seq(Msg)
    BY <2>1 DEF Meaning, Msg
  <2>3. QED
    BY <2>1, <2>2, LenProperties DEF Meaning
<1>2. Prefix
  BY <1>1, EmptySeq DEF Init, Prefix
<1>3. CountedAtRecord
  BY <1>1 DEF Init, CountedAtRecord, Counted
<1>4. QED
  BY <1>2, <1>3 DEF Init, HandedInv, CountedAtPreamble, CountedAtPayload, ChainSoFar

\* The list begins: no certificate yet.
LEMMA BeginListHanded ==
  ASSUME IInv, BeginCertificates
  PROVE  HandedInv'
<1>1. pc = "dispatch" /\ msg.type = CertificatesType
  BY DEF BeginCertificates
<1>2. PICK s \in flight.starts :
        /\ RecordEnd(flight.octets, s) = popped + msg.payload
        /\ RecordEnd(flight.octets, s) \in flight.starts
        /\ flight.number[RecordEnd(flight.octets, s)] = Len(decoded) + 1
        /\ flight.msgs[Len(decoded) + 1] = ListMeant(flight, RecordEnd(flight.octets, s))
        /\ flight.lists[<<popped + 3, RecordEnd(flight.octets, s)>>] = <<>>
  BY <1>1, DispatchedMessage DEF Known
<1>3. /\ Pop(3) /\ pc' = "certificates" /\ offset' = 0 /\ cert_chain' = <<>>
      /\ UNCHANGED <<flight, exit, msg, decoded>>
  <2>1. 3 <= Len(v_data) /\ Len(v_data) \in Nat
    BY <1>1, ListFits, DequeTyping DEF IInv, BufferInv
  <2>2. ~PopFails(3)
    BY <2>1, PopSucceeds
  <2>3. QED
    BY <2>2 DEF BeginCertificates
<1>4. popped' + (msg'.payload - 3 - offset') = RecordEnd(flight.octets, s)
  <2>1. popped' = popped + 3 /\ msg' = msg /\ offset' = 0
    BY <1>3 DEF Pop
  <2>2. popped \in Nat /\ msg.payload \in Nat
    BY CounterTyping DEF IInv, BufferInv
  <2>3. QED
    BY <1>2, <2>1, <2>2
<1>5. ChainSoFar'
  BY <1>2, <1>3, <1>4 DEF ChainSoFar, Pop, ListMeant
<1>6. Prefix'
  BY <1>3, Quiet DEF IInv, HandedInv
<1>7. exit # "server hello done"
  BY <1>1 DEF IInv, HandedInv
<1>8. QED
  BY <1>3, <1>5, <1>6, <1>7
     DEF HandedInv, CountedAtRecord, CountedAtPreamble, CountedAtPayload

\* The next entry of the list, in the deque and in the flight.
LEMMA NextEntry ==
  ASSUME IInv, pc = "certificates", MoreCertificates
  PROVE  /\ EntryLength <= Len(v_data) /\ EntryLength \in Nat /\ Len(v_data) \in Nat
         /\ popped \in Nat /\ offset \in Nat /\ msg.payload \in Nat
         /\ <<popped, popped + (msg.payload - 3 - offset)>> \in flight.entries
         /\ popped < popped + (msg.payload - 3 - offset)
         /\ ParseCert(CertBytes) = EntryCert(flight.octets, popped)
         /\ EntryEnd(flight.octets, popped) = popped + EntryLength
<1> DEFINE e == popped + (msg.payload - 3 - offset)
<1>1. /\ EntryLength <= Len(v_data) /\ EntryLength \in Nat /\ EntryLength >= 3
      /\ Len(v_data) \in Nat
      /\ popped \in Nat /\ offset \in Nat /\ msg.payload \in Nat
  BY EntryFits, EntryLengthTyping, DequeTyping, CounterTyping DEF IInv, BufferInv
<1>2. <<popped, e>> \in flight.entries /\ popped < e
  <2>1. <<popped, e>> \in flight.entries /\ msg.payload >= 3
    BY DEF IInv, Framed, AtEntry
  <2>2. offset < msg.payload - 3
    BY <1>1, <2>1 DEF MoreCertificates
  <2>3. QED
    BY <1>1, <2>1, <2>2
<1>3. EntryLength = 3 + U24(flight.octets, popped) /\ U24(flight.octets, popped) \in Nat
  <2>1. Len(v_data) >= 3
    BY <1>1
  <2>2. U24(v_data, 0) = U24(flight.octets, popped)
    BY <2>1, FieldAt DEF IInv, BufferInv
  <2>3. EntryLength = 3 + U24(flight.octets, popped)
    BY <1>1, <2>1, <2>2 DEF EntryLength
  <2>4. 0 + 3 <= Len(v_data) => U24(v_data, 0) \in Nat
    <3>1. \A j \in 1..Len(v_data) : v_data[j] \in Octet
      BY DequeTyping DEF IInv, BufferInv
    <3>2. QED
      BY <1>1, <3>1, FieldTyping
  <2>5. QED
    BY <1>1, <2>1, <2>2, <2>3, <2>4
<1>4. ParseCert(CertBytes) = EntryCert(flight.octets, popped)
  <2>1. 3 \in Nat /\ EntryLength \in Nat /\ 3 <= EntryLength /\ EntryLength <= Len(v_data)
    BY <1>1
  <2>2. SubSeq(v_data, 3 + 1, EntryLength)
          = SubSeq(flight.octets, popped + 3 + 1, popped + EntryLength)
    BY <2>1, SliceAt, Zenon DEF IInv, BufferInv
  <2>3. popped + 3 + 1 = popped + 4
        /\ popped + EntryLength = popped + 3 + U24(flight.octets, popped)
    BY <1>1, <1>3
  <2>4. CertBytes = SubSeq(flight.octets, popped + 4,
                           popped + 3 + U24(flight.octets, popped))
    <3>1. CertBytes = SubSeq(v_data, 3 + 1, EntryLength)
      BY DEF CertBytes
    <3>2. QED
      BY <2>2, <2>3, <3>1, Zenon
  <2>5. QED
    BY <2>4 DEF EntryCert
<1>5. EntryEnd(flight.octets, popped) = popped + EntryLength
  BY <1>1, <1>3 DEF EntryEnd
<1>6. QED
  BY <1>1, <1>2, <1>4, <1>5

\* Another certificate of the list.
LEMMA NextCertificateHanded ==
  ASSUME IInv, NextCertificate
  PROVE  HandedInv'
<1> DEFINE e == popped + (msg.payload - 3 - offset)
<1>1. pc = "certificates" /\ MoreCertificates
  BY DEF NextCertificate
<1>2. /\ EntryLength <= Len(v_data) /\ EntryLength \in Nat /\ Len(v_data) \in Nat
      /\ popped \in Nat /\ offset \in Nat /\ msg.payload \in Nat
      /\ <<popped, e>> \in flight.entries /\ popped < e
      /\ ParseCert(CertBytes) = EntryCert(flight.octets, popped)
      /\ EntryEnd(flight.octets, popped) = popped + EntryLength
  BY <1>1, NextEntry
<1>3. /\ Pop(EntryLength) /\ offset' = offset + EntryLength
      /\ ParseCert(CertBytes) # Malformed
      /\ cert_chain' = Append(cert_chain, ParseCert(CertBytes))
      /\ pc' = pc /\ UNCHANGED <<flight, exit, msg, decoded>>
  <2>1. ~PopFails(EntryLength)
    BY <1>2, PopSucceeds
  <2>2. QED
    BY <2>1 DEF NextCertificate
<1>4. popped' = popped + EntryLength
  BY <1>3 DEF Pop
<1>5. popped' + (msg'.payload - 3 - offset') = e
  <2>1. msg' = msg /\ offset' = offset + EntryLength
    BY <1>3
  <2>2. QED
    BY <1>2, <1>4, <2>1
<1> HIDE DEF e
<1>6. flight.lists[<<popped', e>>]
        = Append(flight.lists[<<popped, e>>], EntryCert(flight.octets, popped))
  <2>1. \A p \in flight.entries :
          p[1] < p[2] /\ EntryCert(flight.octets, p[1]) # Malformed
            => flight.lists[<<EntryEnd(flight.octets, p[1]), p[2]>>]
                 = Append(flight.lists[p], EntryCert(flight.octets, p[1]))
    BY FlightMeaning DEF IInv, BufferInv, Meaning
  <2>2. EntryCert(flight.octets, popped) # Malformed
    BY <1>2, <1>3
  <2>3. <<popped, e>>[1] = popped /\ <<popped, e>>[2] = e
    OBVIOUS
  <2>4. QED
    BY <1>2, <1>4, <2>1, <2>2, <2>3
<1>7. /\ cert_chain = flight.lists[<<popped, e>>]
      /\ e \in flight.starts
      /\ flight.number[e] = Len(decoded) + 1
      /\ flight.msgs[Len(decoded) + 1] = ListMeant(flight, e)
  BY <1>1 DEF IInv, HandedInv, ChainSoFar, e
<1>8. ChainSoFar'
  BY <1>2, <1>3, <1>5, <1>6, <1>7 DEF ChainSoFar, ListMeant
<1>9. Prefix' /\ exit # "server hello done"
  BY <1>1, <1>3, Quiet DEF IInv, HandedInv
<1>10. QED
  BY <1>1, <1>3, <1>8, <1>9
     DEF HandedInv, CountedAtRecord, CountedAtPreamble, CountedAtPayload

\* Handing out a message, with the client back at a record.
LEMMA HandedOn ==
  ASSUME IInv, HandsNext, pc' = "decode", exit' = exit, exit # "server hello done",
         flight.number[popped'] = Len(decoded) + 1
  PROVE  HandedInv'
<1>1. Prefix' /\ Len(decoded') = Len(decoded) + 1
  BY FlightMeaning, PrefixAppend DEF IInv, BufferInv, HandedInv, HandsNext
<1>2. QED
  BY <1>1 DEF HandsNext, HandedInv, CountedAtRecord, CountedAtPreamble,
     CountedAtPayload, ChainSoFar, Counted

LEMMA HandedNext ==
  ASSUME IInv, [Next]_vars
  PROVE  HandedInv'
<1>0. HandedInv /\ Prefix
  BY DEF IInv, HandedInv
<1>1. CASE Connect
  BY <1>0, <1>1, Quiet DEF Connect, decodeVars, HandedInv, CountedAtRecord,
     CountedAtPreamble, CountedAtPayload, ChainSoFar, Counted
<1>2. CASE ConnectFails
  BY <1>0, <1>2, StopHanded DEF ConnectFails, Abort, HandedInv
<1>3. CASE Write
  BY <1>0, <1>3, Quiet DEF Write, decodeVars, HandedInv, CountedAtRecord,
     CountedAtPreamble, CountedAtPayload, ChainSoFar, Counted
<1>4. CASE ReadSome
  BY <1>0, <1>4, Quiet DEF ReadSome, ReadData, decodeVars, HandedInv, CountedAtRecord,
     CountedAtPreamble, CountedAtPayload, ChainSoFar, Counted
<1>5. CASE ReadEnd
  BY <1>0, <1>5, StopHanded DEF ReadEnd, HandedInv
<1>6. CASE ReadError
  BY <1>0, <1>6, StopHanded DEF ReadError, Abort, HandedInv
<1>7. CASE Decode
  <2>1. CASE AwaitMore
    BY <1>0, <2>1, Quiet DEF AwaitMore, decodeVars, HandedInv, CountedAtRecord,
       CountedAtPreamble, CountedAtPayload, ChainSoFar, Counted
  <2>2. CASE UnsupportedRecord
    BY <1>0, <2>2, StopHanded DEF UnsupportedRecord, Abort, HandedInv
  <2>3. CASE TakeHeader
    <3>1. popped' - HeaderLength = popped
      BY <2>3, CounterTyping DEF TakeHeader, Pop, HeaderLength, IInv, BufferInv
    <3>2. popped \in flight.starts /\ Counted(popped)
      BY <1>0, <2>3 DEF IInv, Framed, AtRecord, HandedInv, CountedAtRecord, TakeHeader
    <3>3. Prefix' /\ exit # "server hello done"
      BY <1>0, <2>3, Quiet DEF TakeHeader, HandedInv
    <3>4. QED
      BY <2>3, <3>1, <3>2, <3>3 DEF TakeHeader, HandedInv, CountedAtRecord,
         CountedAtPreamble, CountedAtPayload, ChainSoFar, Counted
  <2>4. CASE IncompleteType
    BY <1>0, <2>4, StopHanded DEF IncompleteType, Abort, HandedInv
  <2>5. CASE ReadPastNode
    BY <1>0, <2>5, StopHanded DEF ReadPastNode, Abort, HandedInv
  <2>6. CASE LengthDiscrepancy
    BY <1>0, <2>6, StopHanded DEF LengthDiscrepancy, Abort, HandedInv
  <2>7. CASE TakePreamble
    <3>1. popped' - (HeaderLength + PreambleLength) = popped - HeaderLength
      BY <2>7, CounterTyping
         DEF TakePreamble, Pop, HeaderLength, PreambleLength, IInv, BufferInv
    <3>2. popped - HeaderLength \in flight.starts /\ Counted(popped - HeaderLength)
      BY <1>0, <2>7 DEF HandedInv, CountedAtPreamble, TakePreamble
    <3>3. Prefix' /\ exit # "server hello done"
      BY <1>0, <2>7, Quiet DEF TakePreamble, HandedInv
    <3>4. QED
      BY <2>7, <3>1, <3>2, <3>3 DEF TakePreamble, HandedInv, CountedAtRecord,
         CountedAtPreamble, CountedAtPayload, ChainSoFar, Counted
  <2>8. CASE ServerHello
    BY <1>0, <2>8, HelloStep, HandedOn DEF ServerHello, HandedInv
  <2>9. CASE BeginCertificates
    BY <2>9, BeginListHanded
  <2>10. CASE NextCertificate
    BY <2>10, NextCertificateHanded
  <2>11. CASE MalformedCertificate
    BY <1>0, <2>11, StopHanded DEF MalformedCertificate, Abort, HandedInv
  <2>12. CASE ChainChecked
    BY <1>0, <2>12, ChainStep, HandedOn DEF ChainChecked, HandedInv
  <2>13. CASE ChainAborts
    BY <1>0, <2>13, StopHanded DEF ChainAborts, Abort, HandedInv
  <2>14. CASE ServerHelloDone
    <3>1. HandsNext /\ pc' = "aborted" /\ Len(decoded) + 1 = Len(flight.msgs)
      BY <2>14, DoneStep
    <3>2. Prefix' /\ Len(decoded') = Len(decoded) + 1
      BY <1>0, <3>1, FlightMeaning, PrefixAppend DEF IInv, BufferInv, HandsNext
    <3>3. QED
      BY <3>1, <3>2 DEF HandsNext, HandedInv, CountedAtRecord, CountedAtPreamble,
         CountedAtPayload, ChainSoFar
  <2>15. CASE UnsupportedType
    BY <1>0, <2>15, StopHanded DEF UnsupportedType, Abort, HandedInv
  <2>16. QED
    BY <1>7, <2>1, <2>2, <2>3, <2>4, <2>5, <2>6, <2>7, <2>8, <2>9, <2>10,
       <2>11, <2>12, <2>13, <2>14, <2>15 DEF Decode
<1>8. CASE UNCHANGED vars
  BY <1>0, <1>8, Quiet DEF vars, HandedInv, CountedAtRecord,
     CountedAtPreamble, CountedAtPayload, ChainSoFar, Counted
<1>9. QED
  BY <1>1, <1>2, <1>3, <1>4, <1>5, <1>6, <1>7, <1>8 DEF Next, Terminated

HandingInv == WellFramed(flight) => Framed /\ HandedInv

LEMMA HandingInvariant == Spec => [](BufferInv /\ HandingInv)
<1>1. Init => HandingInv
  BY FramedInit, HandedInit DEF HandingInv
<1>2. BufferInv /\ HandingInv /\ [Next]_vars => HandingInv'
  <2> SUFFICES ASSUME BufferInv, HandingInv, [Next]_vars, WellFramed(flight)'
               PROVE  Framed' /\ HandedInv'
    BY DEF HandingInv
  <2>1. WellFramed(flight)
    BY FlightUnchanged
  <2>2. QED
    BY <2>1, FramedNext, HandedNext DEF HandingInv, IInv
<1>3. QED
  BY <1>1, <1>2, BufferInvariant, PTL DEF Spec
-----------------------------------------------------------------------------
\* With conforming servers request() implements MessageFeed: whatever the reads,
\* the buffer, the node size and the outcome of parse() and verify_cert_chain(),
\* the messages handed out are those the servers meant, each once and in order
\* (http.cpp:123-226).
THEOREM Implements == Conforming => (Spec => HandsOutMessages)
<1> SUFFICES ASSUME Conforming PROVE Spec => HandsOutMessages
  OBVIOUS
<1>1. Init => Feed!Init
  BY DEF Init, Feed!Init, Ended
<1>2. ASSUME BufferInv, HandingInv, [Next]_vars
      PROVE  [Feed!Next]_<<flight.msgs, decoded, ~Ended>>
  <2>1. IInv
    BY <1>2 DEF Conforming, HandingInv, IInv, BufferInv, TypeOK
  <2>2. CASE HandsNext /\ ~Ended
    BY <2>2 DEF HandsNext, Feed!Next, Feed!Hand
  <2>3. CASE UNCHANGED <<flight, decoded>> /\ (Ended => UNCHANGED pc)
    BY <2>3 DEF Ended, Feed!Next, Feed!Close
  <2>4. CASE ServerHello \/ ChainChecked \/ ServerHelloDone
    <3>1. HandsNext
      BY <2>1, <2>4, HelloStep, ChainStep, DoneStep
    <3>2. ~Ended
      BY <2>4 DEF ServerHello, ChainChecked, ServerHelloDone, Ended
    <3>3. QED
      BY <2>2, <3>1, <3>2
  <2>5. CASE ~(ServerHello \/ ChainChecked \/ ServerHelloDone)
    <3>1. UNCHANGED <<flight, decoded>> /\ (Ended => UNCHANGED pc)
      BY <1>2, <2>5 DEF Next, vars, Connect, ConnectFails, Write, ReadSome, ReadData,
         ReadEnd, ReadError, Stop, Abort, PopFails, Decode, AwaitMore,
         UnsupportedRecord, TakeHeader, IncompleteType, ReadPastNode,
         LengthDiscrepancy, TakePreamble, BeginCertificates, NextCertificate,
         MalformedCertificate, ChainAborts, UnsupportedType, Terminated, Ended,
         decodeVars
    <3>2. QED
      BY <2>3, <3>1
  <2>6. QED
    BY <2>4, <2>5
<1>3. QED
  BY <1>1, <1>2, HandingInvariant, PTL DEF Spec, HandsOutMessages, Feed!Spec
-----------------------------------------------------------------------------
\* How the client may end on a supported flight.
FairExits ==
  {"running", "connect", "read", "peer closed", "read past node", "server hello done"}

\* No abort of the decoder is enabled on a supported flight.
LEMMA NoRefusal ==
  ASSUME IInv, Supported(flight)
  PROVE  /\ ~UnsupportedRecord /\ ~IncompleteType /\ ~LengthDiscrepancy
         /\ ~UnsupportedType /\ ~MalformedCertificate /\ ~ChainAborts
<1>1. /\ BufferInv /\ WellFramed(flight) /\ Framed /\ HandedInv /\ TypeOK
      /\ \A s \in flight.starts : s < Len(flight.octets) =>
           OneMessage(flight.octets, s) /\ HandshakeType(flight.octets, s) \in Known
  BY DEF IInv, BufferInv, Supported, Known
<1>2. ASSUME UnsupportedRecord PROVE FALSE
  <2>1. popped \in flight.starts /\ Len(v_data) >= 5 /\ v_data[1] # HandshakeRecord
    BY <1>1, <1>2 DEF UnsupportedRecord, Framed, AtRecord, HeaderLength
  <2>2. v_data[1] = flight.octets[popped + 1]
    BY <1>1, <2>1, FieldAt DEF BufferInv
  <2>3. popped < Len(flight.octets)
    BY <1>1, <2>1, DequeTyping, FlightTyping DEF BufferInv, TypeOK
  <2>4. QED
    BY <1>1, <2>1, <2>2, <2>3 DEF OneMessage
<1>3. ASSUME pc = "preamble"
      PROVE  /\ msg.length >= 4
             /\ msg.length - 4 = U24(v_data, 1)
  <2>1. PICK s \in flight.starts :
          /\ popped = s + 5 /\ s < Len(flight.octets)
          /\ msg.length = U16(flight.octets, s + 3)
    BY <1>1, <1>3 DEF Framed, AtPreamble, InRecord, HeaderLength
  <2>2. /\ msg.length >= 4
        /\ U24(flight.octets, popped + 1) = msg.length - 4
    BY <1>1, <2>1 DEF OneMessage, HeaderLength, PreambleLength
  <2>3. Len(v_data) >= 4
    BY <1>1, <1>3, <2>2, DequeTyping DEF BufferInv, PayloadBuffered, TypeOK
  <2>4. QED
    BY <1>1, <2>2, <2>3, FieldAt DEF BufferInv
<1>4. ASSUME pc = "dispatch" PROVE msg.type \in Known
  <2>1. \E s \in flight.starts :
          s < Len(flight.octets) /\ msg.type = HandshakeType(flight.octets, s)
    BY <1>1, <1>4, Dispatched
  <2>2. QED
    BY <1>1, <2>1
<1>5. ASSUME MalformedCertificate PROVE FALSE
  <2> DEFINE e == popped + (msg.payload - 3 - offset)
  <2>1. /\ <<popped, e>> \in flight.entries /\ popped < e
        /\ ParseCert(CertBytes) = EntryCert(flight.octets, popped)
    BY <1>5, NextEntry DEF MalformedCertificate
  <2> HIDE DEF e
  <2>2. \A p \in flight.entries :
          p[1] < p[2] => EntryCert(flight.octets, p[1]) # Malformed
    BY DEF Supported
  <2>3. EntryCert(flight.octets, popped) # Malformed
    <3>1. <<popped, e>>[1] = popped /\ <<popped, e>>[2] = e
      OBVIOUS
    <3>2. QED
      BY <2>1, <2>2, <3>1
  <2>4. QED
    BY <1>5, <2>1, <2>3 DEF MalformedCertificate
<1>6. ASSUME ChainAborts PROVE FALSE
  <2>1. VerifyChain(cert_chain) = "abort" /\ pc = "certificates" /\ ~MoreCertificates
    BY <1>6 DEF ChainAborts
  <2>2. /\ popped \in flight.starts
        /\ flight.number[popped] = Len(decoded) + 1
        /\ flight.msgs[Len(decoded) + 1] = ListMeant(flight, popped)
        /\ cert_chain = flight.lists[<<popped, popped>>]
    BY <2>1, ListDone
  <2>3. Len(decoded) + 1 \in DOMAIN flight.msgs
    <3>1. /\ flight.msgs \in Seq(Msg) /\ Len(flight.msgs) \in Nat
          /\ flight.number[popped] \in 0..Len(flight.msgs)
      BY <1>1, <2>2, FlightMeaning
    <3>2. Len(decoded) \in Nat
      BY <1>1, LenProperties DEF HandedInv, Prefix
    <3>3. DOMAIN flight.msgs = 1..Len(flight.msgs)
      BY <3>1, LenProperties
    <3>4. QED
      BY <2>2, <3>1, <3>2, <3>3
  <2>4. flight.msgs[Len(decoded) + 1].verdict # "abort"
    BY <2>2, <2>3 DEF Supported, ListMeant
  <2>5. QED
    BY <2>1, <2>2, <2>4 DEF ListMeant
<1>7. ~IncompleteType /\ ~LengthDiscrepancy
  <2>1. msg.length \in Nat
    BY <1>1 DEF TypeOK
  <2>2. ASSUME IncompleteType PROVE FALSE
    <3>1. pc = "preamble" /\ msg.length < 4
      BY <2>2 DEF IncompleteType, PreambleLength
    <3>2. QED
      BY <1>3, <2>1, <3>1
  <2>3. ASSUME LengthDiscrepancy PROVE FALSE
    <3>1. pc = "preamble" /\ msg.length - 4 # U24(v_data, 1)
      BY <2>3 DEF LengthDiscrepancy, PreambleLength
    <3>2. QED
      BY <1>3, <3>1
  <2>4. QED
    BY <2>2, <2>3
<1>8. ~UnsupportedType
  BY <1>4 DEF UnsupportedType, Known
<1>9. QED
  BY <1>2, <1>5, <1>6, <1>7, <1>8

\* The decoder hands every message of a supported flight on, or the connection, the
\* peer or a preamble across two nodes ends it before (http.cpp:36-226).
THEOREM SupportedAccepted == Spec => []SupportedFlightAccepted
<1> DEFINE Fair == Supported(flight) => exit \in FairExits
<1>1. Init => Fair
  BY DEF Init, FairExits
<1>2. BufferInv /\ HandingInv /\ (BufferInv /\ HandingInv)' /\ Fair /\ [Next]_vars => Fair'
  <2> SUFFICES ASSUME BufferInv, HandingInv, HandingInv', Fair, [Next]_vars,
                      Supported(flight)'
               PROVE  exit' \in FairExits
    OBVIOUS
  <2>1. flight' = flight /\ Supported(flight)
    BY FlightUnchanged
  <2>2. IInv /\ exit' # "empty deque" /\ exit \in FairExits
    BY <2>1 DEF HandingInv, IInv, Supported, Framed
  <2>3. CASE UNCHANGED exit
    BY <2>2, <2>3
  <2>4. CASE ConnectFails \/ ReadEnd \/ ReadError \/ ReadPastNode \/ ServerHelloDone
    BY <2>4 DEF ConnectFails, ReadEnd, ReadError, ReadPastNode, ServerHelloDone,
       Abort, Stop, FairExits
  <2>5. CASE \E n : PopFails(n)
    BY <2>2, <2>5 DEF PopFails, Abort, Stop
  <2>6. /\ ~UnsupportedRecord /\ ~IncompleteType /\ ~LengthDiscrepancy
        /\ ~UnsupportedType /\ ~MalformedCertificate /\ ~ChainAborts
    BY <2>1, <2>2, NoRefusal
  <2>7. CASE Decode
    <3>1. CASE AwaitMore \/ TakeHeader \/ TakePreamble \/ ChainChecked
      BY <2>3, <3>1 DEF AwaitMore, TakeHeader, TakePreamble, ChainChecked
    <3>2. CASE ServerHello
      BY <2>3, <2>5, <3>2 DEF ServerHello
    <3>3. CASE BeginCertificates
      BY <2>3, <2>5, <3>3 DEF BeginCertificates
    <3>4. CASE NextCertificate
      BY <2>3, <2>5, <3>4 DEF NextCertificate
    <3>5. QED
      BY <2>4, <2>6, <2>7, <3>1, <3>2, <3>3, <3>4 DEF Decode
  <2>8. CASE Connect \/ Write \/ ReadSome \/ Terminated \/ UNCHANGED vars
    BY <2>3, <2>8 DEF Connect, Write, ReadSome, ReadData, Terminated, vars
  <2>9. QED
    BY <2>4, <2>7, <2>8 DEF Next
<1>3. BufferInv /\ HandingInv /\ Fair => SupportedFlightAccepted
  <2> SUFFICES ASSUME BufferInv, HandingInv, Fair, Supported(flight)
               PROVE  /\ exit \in FairExits
                      /\ exit = "server hello done" => decoded = flight.msgs
    BY DEF SupportedFlightAccepted, FairExits
  <2>1. HandedInv /\ WellFramed(flight) /\ TypeOK
    BY DEF HandingInv, Supported, BufferInv
  <2>2. flight.msgs \in Seq(Msg)
    BY <2>1, FlightMeaning
  <2>3. ASSUME exit = "server hello done" PROVE decoded = flight.msgs
    <3>1. /\ decoded \in Seq(Msg) /\ Len(decoded) = Len(flight.msgs)
          /\ \A i \in 1..Len(decoded) : decoded[i] = flight.msgs[i]
      BY <2>1, <2>3 DEF HandedInv, Prefix
    <3>2. QED
      BY <2>2, <3>1, SeqEqual
  <2>4. QED
    BY <2>3
<1> HIDE DEF Fair
<1>4. QED
  BY <1>1, <1>2, <1>3, HandingInvariant, PTL DEF Spec
=============================================================================
