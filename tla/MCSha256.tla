------------------------------ MODULE MCSha256 ------------------------------
(* Messages with their hashes: the empty one and "abc" of FIPS 180-4, and ones *)
(* whose lengths lie on both sides of where another block is needed.           *)
EXTENDS Sha256

Octets(halves) ==
  [n \in 1..(2 * Len(halves)) |->
    LET half == halves[(n + 1) \div 2] IN IF n % 2 = 1 THEN half \div 256 ELSE half % 256]

Vector(octets, halves) == [octets |-> octets, digest |-> Octets(halves)]

Counted(length) == [n \in 1..length |-> (7 * n * n + n) % 256]

TestVectors == {
  Vector(<<>>,
    <<\he3b0, \hc442, \h98fc, \h1c14, \h9afb, \hf4c8, \h996f, \hb924,
      \h27ae, \h41e4, \h649b, \h934c, \ha495, \h991b, \h7852, \hb855>>),
  Vector(<<97, 98, 99>>,
    <<\hba78, \h16bf, \h8f01, \hcfea, \h4141, \h40de, \h5dae, \h2223,
      \hb003, \h61a3, \h9617, \h7a9c, \hb410, \hff61, \hf200, \h15ad>>),
  Vector(Counted(55),
    <<\hb5d0, \hba07, \h9253, \hb062, \h106a, \h9e73, \hb6f5, \hb216,
      \he6ea, \h2374, \hfc57, \hb962, \hb59f, \he431, \hc488, \hc612>>),
  Vector(Counted(56),
    <<\h6af0, \h6e72, \h13f2, \hb736, \h8080, \h35bf, \haad7, \hbe95,
      \hbf96, \he0bf, \h5919, \h56d8, \hdd80, \h3c3d, \h881d, \hdec8>>),
  Vector(Counted(63),
    <<\h06cf, \h177a, \h489b, \h54ec, \h1e20, \h3aa7, \h0b99, \h9d59,
      \hd61c, \hb645, \h4809, \h8f20, \hd9c6, \h2c0c, \h5367, \h112d>>),
  Vector(Counted(64),
    <<\h1bdf, \hb617, \h675f, \h5df1, \hd107, \h726f, \h75f5, \hd4d1,
      \h835b, \hb2ad, \h7866, \hcd7a, \h1ffa, \h1ff4, \hfc92, \haa23>>),
  Vector(Counted(119),
    <<\hd3d0, \h3035, \h5123, \h72ad, \h39f3, \h46a6, \hc5bc, \h0af6,
      \hc25e, \hd12e, \h6ba9, \hccfa, \h9f63, \h321b, \h628d, \h4d8a>>),
  Vector(Counted(120),
    <<\hb544, \hece7, \he6d5, \h2a4b, \h9f02, \h669e, \h18c5, \h6b24,
      \h76ed, \h8507, \h734c, \hedfc, \hbe0e, \h0e34, \haf0e, \ha43e>>)}

\* Messages that are no octets: the one without a zero among them.
Bits(length) == [n \in 1..length |-> (n \div 3) % 2]

TestMessages ==
  {BitsOf(v.octets) : v \in TestVectors} \cup {Bits(n) : n \in {1, 446, 447, 448, 511, 512}}
=============================================================================
