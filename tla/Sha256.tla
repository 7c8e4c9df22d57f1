------------------------------- MODULE Sha256 -------------------------------
(***************************************************************************)
(* sha256_hash(): what follows padding and splitting.  One action per      *)
(* round of the compression function.                                      *)
(*                                                                         *)
(* A word is the set of the positions of its ones, so that & is            *)
(* intersection, ~ the complement and ^ the symmetric difference.          *)
(***************************************************************************)
EXTENDS Sha256Padding, FiniteSets, SequencesExt

CONSTANT Vectors   \* messages with their hashes, as records of octets and digest

ASSUME SizesAssumption == WordBits = 32 /\ BlockWords = 16 /\ CountBits = 64

VARIABLES
  prev_hash,
  hashed,     \* blocks hashed so far
  W,          \* the message schedule of the current block, or empty
  work,       \* a, b, c, d, e, f, g, h
  t           \* rounds done

hashVars == <<prev_hash, hashed, W, work, t>>
allVars  == <<vars, hashVars>>

\* sha256_hash(std::vector<uint8_t>): the most significant bit of an octet first.
BitsOf(data) == [n \in 1..(8 * Len(data)) |->
  BitOf(data[(n - 1) \div 8 + 1], 7 - ((n - 1) % 8))]
-----------------------------------------------------------------------------
(* Words.                                                                  *)

Positions == 0..31
FromHalves(high, low) ==
  {p \in Positions : BitOf(IF p < 16 THEN low ELSE high, p % 16) = 1}
Words(halves) ==
  [k \in 1..(Len(halves) \div 2) |-> FromHalves(halves[2 * k - 1], halves[2 * k])]

Xor(x, y)  == (x \ y) \cup (y \ x)
rotr(x, n) == {(p - n) % 32 : p \in x}
Shr(x, n)  == {p - n : p \in {q \in x : q >= n}}

\* The sum of some words, which wraps.
Plus(words) ==
  LET ColumnSum(s, p) == s.carry + Cardinality({k \in DOMAIN words : p \in words[k]})
  IN FoldLeft(LAMBDA s, p : [ones  |-> s.ones \cup (IF ColumnSum(s, p) % 2 = 1 THEN {p} ELSE {}),
                             carry |-> ColumnSum(s, p) \div 2],
              [ones |-> {}, carry |-> 0], [n \in 1..32 |-> n - 1]).ones

Ch(x, y, z)  == Xor(x \cap y, (Positions \ x) \cap z)
Maj(x, y, z) == Xor(Xor(x \cap y, x \cap z), y \cap z)
bsig0(x) == Xor(Xor(rotr(x, 2), rotr(x, 13)), rotr(x, 22))
bsig1(x) == Xor(Xor(rotr(x, 6), rotr(x, 11)), rotr(x, 25))
ssig0(x) == Xor(Xor(rotr(x, 7), rotr(x, 18)), Shr(x, 3))
ssig1(x) == Xor(Xor(rotr(x, 17), rotr(x, 19)), Shr(x, 10))

K == Words(<<
  \h428a, \h2f98, \h7137, \h4491, \hb5c0, \hfbcf, \he9b5, \hdba5,
  \h3956, \hc25b, \h59f1, \h11f1, \h923f, \h82a4, \hab1c, \h5ed5,
  \hd807, \haa98, \h1283, \h5b01, \h2431, \h85be, \h550c, \h7dc3,
  \h72be, \h5d74, \h80de, \hb1fe, \h9bdc, \h06a7, \hc19b, \hf174,
  \he49b, \h69c1, \hefbe, \h4786, \h0fc1, \h9dc6, \h240c, \ha1cc,
  \h2de9, \h2c6f, \h4a74, \h84aa, \h5cb0, \ha9dc, \h76f9, \h88da,
  \h983e, \h5152, \ha831, \hc66d, \hb003, \h27c8, \hbf59, \h7fc7,
  \hc6e0, \h0bf3, \hd5a7, \h9147, \h06ca, \h6351, \h1429, \h2967,
  \h27b7, \h0a85, \h2e1b, \h2138, \h4d2c, \h6dfc, \h5338, \h0d13,
  \h650a, \h7354, \h766a, \h0abb, \h81c2, \hc92e, \h9272, \h2c85,
  \ha2bf, \he8a1, \ha81a, \h664b, \hc24b, \h8b70, \hc76c, \h51a3,
  \hd192, \he819, \hd699, \h0624, \hf40e, \h3585, \h106a, \ha070,
  \h19a4, \hc116, \h1e37, \h6c08, \h2748, \h774c, \h34b0, \hbcb5,
  \h391c, \h0cb3, \h4ed8, \haa4a, \h5b9c, \hca4f, \h682e, \h6ff3,
  \h748f, \h82ee, \h78a5, \h636f, \h84c8, \h7814, \h8cc7, \h0208,
  \h90be, \hfffa, \ha450, \h6ceb, \hbef9, \ha3f7, \hc671, \h78f2 >>)

InitialHash == Words(<<
  \h6a09, \he667, \hbb67, \hae85, \h3c6e, \hf372, \ha54f, \hf53a,
  \h510e, \h527f, \h9b05, \h688c, \h1f83, \hd9ab, \h5be0, \hcd19 >>)
-----------------------------------------------------------------------------
HashInit ==
  /\ Init
  /\ prev_hash = InitialHash
  /\ hashed = 0
  /\ W = <<>> /\ work = <<>> /\ t = 0

\* W[t] of the code is w[t + 1] here.
Schedule(M) ==
  FoldLeft(LAMBDA w, n :
             Append(w, Plus(<<ssig1(w[n - 1]), w[n - 6], ssig0(w[n - 14]), w[n - 15]>>)),
           M, [n \in 1..48 |-> n + 15])

BeginBlock ==
  /\ pc = "hash"
  /\ W = <<>>
  /\ hashed < Len(blocks)
  /\ W' = Schedule([w \in 1..16 |->
            {p \in Positions : blocks[hashed + 1][w][p] = 1}])
  /\ work' = prev_hash
  /\ t' = 0
  /\ UNCHANGED <<vars, prev_hash, hashed>>

Round ==
  /\ W # <<>>
  /\ t < 64
  /\ LET a == work[1]  b == work[2]  c == work[3]  d == work[4]
         e == work[5]  f == work[6]  g == work[7]  h == work[8]
         t1 == Plus(<<h, bsig1(e), Ch(e, f, g), K[t + 1], W[t + 1]>>)
         t2 == Plus(<<bsig0(a), Maj(a, b, c)>>)
     IN work' = <<Plus(<<t1, t2>>), a, b, c, Plus(<<d, t1>>), e, f, g>>
  /\ t' = t + 1
  /\ UNCHANGED <<vars, prev_hash, hashed, W>>

EndBlockSlip ==   \* = for +=
  /\ W # <<>>
  /\ t = 64
  /\ prev_hash' = work
  /\ hashed' = hashed + 1
  /\ W' = <<>>
  /\ UNCHANGED <<vars, work, t>>

EndBlock ==
  /\ W # <<>>
  /\ t = 64
  /\ prev_hash' = [k \in 1..8 |-> Plus(<<prev_hash[k], work[k]>>)]
  /\ hashed' = hashed + 1
  /\ W' = <<>>
  /\ UNCHANGED <<vars, work, t>>

HashNext ==
  \/ Next /\ UNCHANGED hashVars
  \/ BeginBlock \/ Round \/ EndBlock

HashSpec == HashInit /\ [][HashNext]_allVars
-----------------------------------------------------------------------------
Hashed == pc = "hash" /\ hashed = Len(blocks)

\* hash_as_octets of verify_cert_chain(): octet 3 of every word first.
HashAsOctets ==
  [n \in 1..32 |->
    LET word == prev_hash[(n - 1) \div 4 + 1]
        low  == 8 * (3 - ((n - 1) % 4))
    IN FoldLeft(LAMBDA o, p : 2 * o + (IF low + p \in word THEN 1 ELSE 0), 0,
                <<7, 6, 5, 4, 3, 2, 1, 0>>)]

\* Every message of the vectors, of one block and of several, has the hash that
\* the standard gives it (SHA256.cpp:9-17, 98-155, http.cpp:109-112).
KnownAnswers ==
  Hashed => \A v \in Vectors : given = BitsOf(v.octets) => HashAsOctets = v.digest
=============================================================================
