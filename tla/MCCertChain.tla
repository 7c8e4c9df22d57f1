---------------------------- MODULE MCCertChain ----------------------------
(* Real RSA keys of seven octets of two bits, and chains of certificates with *)
(* their signatures, by any key: three with signatures as they should be, over *)
(* either contents or with another digest info, and two with any.              *)
EXTENDS CertChain

CONSTANTS MaxChain, tbs1, tbs2

Keys == {[n |-> 4757, e |-> 13, d |-> 1777], [n |-> 4819, e |-> 7, d |-> 3343],
         [n |-> 4897, e |-> 3,  d |-> 3171]}
Public(k) == [n |-> k.n, e |-> k.e]

\* One hash begins with a zero octet, as the end of the padding.
HashOf(tbs) == IF tbs = tbs1 THEN <<0, 3>> ELSE <<2, 1>>
Info        == <<2>>

\* What is signed: octets, and the octet that the padding in front consists of.
Prescribed == {[octets |-> octets, padding |-> Levels - 1] :
                 octets \in {Info \o HashOf(tbs1), Info \o HashOf(tbs2), <<1>> \o HashOf(tbs2)}}

\* A beginning of a hash, no hash, a hash and more, and another padding.
Odd == {[octets |-> Info \o hash, padding |-> Levels - 1] :
          hash \in {<<2>>, <<>>, HashOf(tbs1) \o <<3>>}} \cup
       {[octets |-> Info \o HashOf(tbs2), padding |-> 2]}

\* The block that is signed, the most significant octet first.
Encoded(over) ==
  <<0, 1>> \o [k \in 1..(4 - Len(over.octets)) |-> over.padding] \o <<0>> \o over.octets

Sign(over, k) == Power(Number(Reverse(Encoded(over))), k.d, k.n)

SignedOver(overs) ==
  {[raw_bytes |-> tbs, public_key |-> Public(k), signature |-> Sign(over, by),
    signer |-> Public(by), signed |-> over.octets] :
     tbs \in {tbs1, tbs2}, k \in Keys, over \in overs, by \in Keys}

AllCerts  == SignedOver(Prescribed \cup Odd)
AllChains == UNION {[1..n -> AllCerts] : n \in 0..2} \cup [1..MaxChain -> SignedOver(Prescribed)]
=============================================================================
