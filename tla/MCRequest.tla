------------------------------ MODULE MCRequest ------------------------------
(* Flights of small messages for Request, built the way a server builds them. *)
EXTENDS Request, SequencesExt, TLC

\* A certificate is one octet that names it: 1 is a self-signed root, 2 was
\* issued by 1, 3 claims to be; 0 does not parse, and neither does no octet.
MCParseCert(octets) ==
  IF octets = <<>> \/ octets[1] = 0 THEN Malformed ELSE octets
Names(chain) == [i \in DOMAIN chain |-> chain[i][1]]
MCVerifyChain(chain) ==
  CASE Names(chain) = <<>>     -> "true"
    [] Names(chain) = <<2, 1>> -> "true"
    [] Names(chain) = <<1>>    -> "true"
    [] Names(chain) = <<3, 1>> -> "false"
    [] OTHER                   -> "abort"

-----------------------------------------------------------------------------
(* A part is a handshake message: its octets, what the server meant by it,   *)
(* and its list: a function from where, counted from the first octet, an     *)
(* entry begins and the list ends, to the certificates before the entry.     *)

NoList == [p \in {} |-> <<>>]
Part(octets, meant, list) == [octets |-> octets, msgs |-> <<meant>>, list |-> list]

HelloBody(sid) ==
  <<3, 3>> \o [i \in 1..32 |-> 7] \o <<Len(sid)>> \o sid \o <<0, 47, 0>>

HelloPart(sid) ==
  Part(Handshake(2, HelloBody(sid)),
       [message |-> "ServerHello", session_id |-> sid, cipher_suite |-> <<0, 47>>],
       NoList)

ListOctets(certs) ==
  FoldLeft(LAMBDA acc, c : acc \o U24Octets(Len(c)) \o c, <<>>, certs)

\* 7 octets precede the first entry: the preamble and the list length.
Certificates(certs) ==
  LET list == ListOctets(certs)
      From(i) == 7 + Len(ListOctets(SubSeq(certs, 1, i)))
  IN Part(Handshake(11, U24Octets(Len(list)) \o list),
          [message |-> "Certificates", chain |-> certs,
           verdict |-> MCVerifyChain(certs)],
          [p \in {<<From(i), From(Len(certs))>> : i \in 0..Len(certs)} |->
             SubSeq(certs, 1, CHOOSE i \in 0..Len(certs) : From(i) = p[1])])

Done == Part(Handshake(14, <<>>), [message |-> "ServerHelloDone"], NoList)
KeyExchange ==
  Part(Handshake(12, <<3, 0>>), [message |-> "ServerKeyExchange"], NoList)

-----------------------------------------------------------------------------
(* A record carries a part, several parts in a row, or a piece of one.        *)

Record(type, part) == [type |-> type, part |-> part]
Coalesce(p, q) ==
  [octets  |-> p.octets \o q.octets, msgs |-> p.msgs \o q.msgs, list |-> NoList]
Piece(part, from, to) ==
  [octets |-> SubSeq(part.octets, from, to), list |-> NoList,
   msgs |-> IF to = Len(part.octets) THEN part.msgs ELSE <<>>]

NoOctets ==
  [octets |-> <<>>, starts |-> {0}, entries |-> {}, msgs |-> <<>>,
   number |-> 0 :> 0, lists |-> NoList]

AddRecord(f, r) ==
  LET base   == Len(f.octets) + HeaderLength
      octets == f.octets \o <<r.type, 3, 3>> \o U16Octets(Len(r.part.octets))
                  \o r.part.octets
      msgs   == f.msgs \o r.part.msgs
      list   == [p \in {<<base + q[1], base + q[2]>> : q \in DOMAIN r.part.list} |->
                   r.part.list[<<p[1] - base, p[2] - base>>]]
  IN [octets  |-> octets,
      starts  |-> f.starts \cup {Len(octets)},
      entries |-> f.entries \cup DOMAIN list,
      msgs    |-> msgs,
      number  |-> f.number @@ (Len(octets) :> Len(msgs)),
      lists   |-> f.lists @@ list]

Flight(records) == FoldLeft(AddRecord, NoOctets, records)
Plain(parts) == Flight([i \in DOMAIN parts |-> Record(22, parts[i])])

Sid(n) == [i \in 1..n |-> i]
Leaf == <<2>>
Root == <<1, 9>>
Stranger == <<3>>

\* With nodes of 64 octets the preamble after a hello with 9 octets of
\* session_id crosses a node; the other flights stay clear of it.
SupportedFlights ==
  {Plain(<<HelloPart(Sid(n)), Certificates(certs), Done>>) :
     n \in {0, 2}, certs \in {<<>>, <<Root>>, <<Leaf, Root>>, <<Stranger, Root>>}}

CrossingFlights == {Plain(<<HelloPart(Sid(9)), Certificates(<<Leaf, Root>>), Done>>)}

CoalescedFlights == {Flight(<<Record(22, Coalesce(HelloPart(Sid(0)), Done))>>)}

\* Well framed, but not in the form the client handles.
OtherFlights ==
  CoalescedFlights \cup
  {Plain(<<HelloPart(Sid(0)), Certificates(<<Leaf>>), Done>>),
   Plain(<<HelloPart(Sid(0)), Certificates(<<Leaf, <<0>>>>), Done>>),
   Plain(<<HelloPart(Sid(0)), KeyExchange, Done>>),
   Flight(<<Record(22, HelloPart(Sid(0))), Record(21, Piece(Done, 1, 2))>>),
   Flight(<<Record(22, Piece(HelloPart(Sid(0)), 1, 20)),
            Record(22, Piece(HelloPart(Sid(0)), 21, 42))>>),
   Flight(<<Record(22, Piece(Done, 1, 3)), Record(22, Piece(Done, 4, 4))>>)}

WellFramedFlights == SupportedFlights \cup CrossingFlights \cup OtherFlights

-----------------------------------------------------------------------------
(* Bodies that disagree with their own length fields: a hello with an         *)
(* extension block, a hello cut short, a list whose last entry is too long,   *)
(* a list without its length.                                                 *)

Faulty(type, body) == Part(Handshake(type, body), [message |-> "faulty"], NoList)

FaultyFlights ==
  {Plain(<<Faulty(2, HelloBody(Sid(0)) \o <<0, 0>>), Done>>),
   Plain(<<Faulty(2, SubSeq(HelloBody(Sid(0)), 1, 36))>>),
   Plain(<<Faulty(2, SubSeq(HelloBody(Sid(0)), 1, 20))>>),
   Plain(<<Faulty(11, <<0, 0, 4, 0, 0, 9, 2>>)>>),
   Plain(<<Faulty(11, <<0, 0>>)>>),
   Plain(<<Faulty(11, <<0, 0>>), Certificates(<<Leaf>>)>>)}

AllFlights == WellFramedFlights \cup FaultyFlights
=============================================================================
