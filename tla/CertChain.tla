----------------------------- MODULE CertChain -----------------------------
(***************************************************************************)
(* verify_cert_chain(): from the last certificate to the first, every      *)
(* signature is decrypted with the key of the certificate behind it, and   *)
(* its last octets are compared with the hash of the certificate.          *)
(*                                                                         *)
(* A certificate is a record of its raw_bytes, public key and signature.   *)
(* Certificates also carry what the code does not see: who signed, and     *)
(* which octets behind the padding.                                        *)
(***************************************************************************)
EXTENDS RsaBlocks

CONSTANTS
  Certs,       \* the certificates there are
  Chains,      \* the chains a server may send, the leaf first
  Hash(_),     \* the octets of sha256_hash(raw_bytes)
  DigestInfo   \* sha256_digest_info

ASSUME ChainsAssumption == Chains \subseteq Seq(Certs)

VARIABLES
  certs,
  oi,        \* certificates verified, from the last one
  verdict

vars == <<certs, oi, verdict>>

Init ==
  /\ certs \in Chains
  /\ oi = 0
  /\ verdict = "none"

current == Len(certs) - oi   \* the next certificate to verify, from 1

CaKeySlip == certs[current].public_key   \* always its own

\* The last one is checked against its own key.
CaKey == IF current = Len(certs)
           THEN certs[current].public_key
           ELSE certs[current + 1].public_key

\* decrypt() aborts when the signature does not fit the modulus.
SignatureFits(cert, key) == cert.signature < key.n

\* "TODO: this is reversed somehow": the most significant octet first.
Decrypted(cert, key) == Reverse(DecryptedOctets(cert.signature, key.e, key.n))

\* chop_decrypted_signature().  The padding ends at the first zero octet, the
\* first octet apart.
PaddingEnds(data) == {j \in 2..Len(data) : data[j] = 0}
ChopSlip(data) ==   \* keeps the digest info
  SubSeq(data, Min(PaddingEnds(data)) + 1, Len(data))
Padded(data) ==
  /\ PaddingEnds(data) # {}
  /\ IsPrefix(DigestInfo, SubSeq(data, Min(PaddingEnds(data)) + 1, Len(data)))
Chop(data) ==
  SubSeq(data, Min(PaddingEnds(data)) + Len(DigestInfo) + 1, Len(data))

\* The first octet in which the chopped signature is not the hash.  Behind the
\* end of the hash, reading it ends the program.
Mismatches(chopped, hash) ==
  {p \in DOMAIN chopped : p > Len(hash) \/ chopped[p] # hash[p]}

\* What one turn of the loop finds.
WellFormed(cert, key) == SignatureFits(cert, key) /\ Padded(Decrypted(cert, key))
WrongOctets(cert, key) ==
  Mismatches(Chop(Decrypted(cert, key)), Hash(cert.raw_bytes))
Opens(cert, key) == WellFormed(cert, key) /\ WrongOctets(cert, key) = {}

Verdict(v) == verdict' = v /\ UNCHANGED <<certs, oi>>

Pending == verdict = "none" /\ current > 0

MalformedSignature ==
  /\ Pending
  /\ ~WellFormed(certs[current], CaKey)
  /\ Verdict("abort")

HashMismatch ==
  /\ Pending
  /\ WellFormed(certs[current], CaKey)
  /\ LET wrong == WrongOctets(certs[current], CaKey) IN
       /\ wrong # {}
       /\ Verdict(IF Min(wrong) > Len(Hash(certs[current].raw_bytes)) THEN "abort" ELSE "false")

VerifiedSlip ==   \* oi incremented once more in the body
  /\ Pending
  /\ Opens(certs[current], CaKey)
  /\ oi' = Min({oi + 2, Len(certs)})
  /\ UNCHANGED <<certs, verdict>>

Verified ==
  /\ Pending
  /\ Opens(certs[current], CaKey)
  /\ oi' = oi + 1
  /\ UNCHANGED <<certs, verdict>>

\* An empty chain is verified, too.
AllVerified ==
  /\ verdict = "none"
  /\ current = 0
  /\ Verdict("true")

Terminated == verdict # "none" /\ UNCHANGED vars

Step == MalformedSignature \/ HashMismatch \/ Verified \/ AllVerified
Next == Step \/ Terminated

Spec == Init /\ [][Next]_vars
-----------------------------------------------------------------------------
\* The owner of the key signed the digest info, and behind it the hash of these
\* contents or only a beginning of it: the comparison is over as much as is left
\* of the signature (http.cpp:114), so that no octet at all is enough.
SignedBy(cert, key) ==
  /\ cert.signer = key
  /\ IsPrefix(DigestInfo, cert.signed)
  /\ IsPrefix(cert.signed, DigestInfo \o Hash(cert.raw_bytes))

\* A signature opens under a key exactly if its owner signed the digest info and
\* what there is, if anything, of the hash of these contents: octets that are
\* dropped, reversed, chopped and compared neither lose nor add a way
\* (rsa.cpp:53-82, certparser.cpp:14-32, http.cpp:101-118).  That a whole hash is
\* behind the digest info, or what the padding is, is not looked at.
SignaturesBind ==
  \A cert \in Range(certs), other \in Range(certs) :
    Opens(cert, other.public_key) <=> SignedBy(cert, other.public_key)

\* Certificate k is signed by the one behind it, the last one by itself.
SignedByNext(k) ==
  SignedBy(certs[k], certs[IF k = Len(certs) THEN k ELSE k + 1].public_key)

\* The chain is accepted exactly if every certificate is signed by the next one, and
\* the last one by itself, over the digest info and its hash as far as it goes
\* (http.cpp:85-121, certparser.cpp:14-32).  For signatures with a whole hash, as
\* the prescribed ones, this is: signed as it is.
AcceptedIffSigned ==
  verdict # "none" =>
    (verdict = "true" <=> \A k \in DOMAIN certs : SignedByNext(k))

\* At any time the certificates verified are those at the end, each signed by the
\* next one, and a refusal is about the first one that is not (http.cpp:86-87,
\* 114-118).
VerifiedSuffix ==
  /\ \A k \in (current + 1)..Len(certs) : SignedByNext(k)
  /\ verdict \in {"false", "abort"} => ~SignedByNext(current)
=============================================================================
