# http-tls in TLA+

http-tls is the beginning of a TLS 1.2 client written from the RFCs: it connects
to a server, sends one ClientHello, decodes the flight the server answers with,
parses the certificates in it and verifies their chain with an RSA, a SHA-256 and
a big integer of its own. This directory holds its specification: TLA+ modules of
the algorithms and of the protocol code, the configurations TLC checks them
with, and theorems whose proofs TLAPS checks.

Paths such as `http.cpp:152` are below `src/src/`.

## 1. The system

| Component | Source | Modules | State |
|---|---|---|---|
| request and try_decode | http.cpp, tls.h | TlsRecord, Request, MessageFeed, Request_proofs | modelled |
| client_hello | tls.cpp, tls.h, test.cpp | TlsRecord, ClientHello | modelled |
| verify_cert_chain | http.cpp, certparser.cpp | CertChain, RsaBlocks, RsaBlocks_proofs | modelled |
| DER parser and certificates | certparser.cpp/.h, cert.h, http.cpp | DerParser, X509, Certificates, Certificates_proofs | modelled |
| RSA | rsa.cpp | RsaBlocks, Rsa, RsaBlocks_proofs | modelled |
| UnsignedBigInt | nu_unsigned_big_int.cpp/.h | Powers, UnsignedBigInt, NatRegisters, BigIntRegisters, MachineWords, Decimal, ExpMod, UnsignedBigInt_proofs, UnsignedBigIntLoops_proofs | modelled |
| BigInt | nu_big_int.cpp/.h | IntRegisters, SignedRegisters, SignedRegisters_proofs | modelled |
| SHA-256 | SHA256.cpp | Sha256Padding, Sha256, Sha256Padding_proofs | modelled |
| hexutils | hexutils.cpp | - | not modelled: formatting for the log |
| Build | Makefile | - | not modelled; its flags are in the guards |

**How they interact.** `main` (test.cpp) builds the hello and calls `request()`.
There is one thread and everything is a call: `request()` reads, appends what it
read to a `std::deque<uint8_t>` and calls `try_decode()`, which takes from the
front of the deque one record after the other. For a Certificates message it cuts
out every certificate and calls `parse()`, which calls the DER parser
`parse_raw()`; then `verify_cert_chain()`, which calls `sha256_hash()` on the
octets the parser kept as `raw_bytes`, `decrypt()` of rsa.cpp on the signature
and `chop_decrypted_signature()` on what comes out. `decrypt()` is one call of
`UnsignedBigInt::expmod()`, which uses all of the arithmetic below it. The only
state that survives a call is the deque; nothing is persisted.

**What is hard.** The concurrency is with the peer: the stream may be cut into
reads anywhere and end anywhere, and what the server puts into it is its choice.
Within the program the hard part is agreement about octets: each handler decides
by its own length fields how many octets it takes; several components fix an
order of octets (big integers least significant first, DER and SHA-256 most
significant first, RSA blocks from the end of a message) and must agree on it.
Loops run until a computed quantity reaches its end (a division, a decimal
conversion, an exponentiation, a block cipher, a recursive parser). The build has
`-fsanitize=address,undefined` and `-D_GLIBCXX_DEBUG`, so that an access outside
a container ends the process; the models therefore have an abort there.

**What makes each component correct.**

- *request and try_decode*: the deque is exactly what was read and not yet taken;
  headers are looked for only where records begin; no handler runs out of octets;
  a record that is complete is decoded before the client waits again; messages
  are handled once, in order; the loop returns.
- *verify_cert_chain*: accepted if and only if each certificate is signed by the
  next and the last by itself, as far as the code compares; at any time what was
  verified is signed.
- *DER parser and certificates*: the parser inverts the encoding; the raw octets of
  the objects tile the input, as the hash over `raw_bytes` needs; it ends on any
  input; a certificate gives the fields it encodes, and what is verified is the
  chain that was sent.
- *client_hello*: the lengths in the hello are those of what they stand before.
- *RSA*: blocks are below the modulus; decryption returns the message, in a
  definite arrangement of blocks; the loop consumes the message.
- *UnsignedBigInt*, *BigInt*: no most significant zero, ever, and the arithmetic of
  the naturals, or of the integers as far as BigInt has it; reading inverts
  writing; loops have a measure.
- *SHA-256*: the three aborts are unreachable; the blocks determine the message;
  known messages have the hashes the standard gives them.

PROJECT.json lists under "hazards" every place of this code where one of these is
easy to lose and hard to test, with the properties that watch it.

## 2. The modules

Names are the source's where TLA+ allows. Sequences start at 1; offsets into a
stream start at 0, as in the code. A definition named `..Slip` is the code with a
mistake a programmer could make at that place. No specification uses one: they
are there to show that the property next to them does fail when the code is
wrong.

### TlsRecord, Request, MessageFeed, MCRequest

TlsRecord has the wire format: the sizes of the packed structs, the handshake
types, the length fields, and `WellFramed(f)`, what it means that the octets of a
flight are as long as their fields say. A flight carries what the code does not
see: where records (`starts`) and certificate entries (`entries`) begin and which
messages the server meant (`msgs`).

Request is `request()` and `try_decode()`.

| Variable | Code |
|---|---|
| `pc` | the place the thread is at: connect, write, read, the head of the decode loop, behind the header, in the switch, in the certificate loop, the two ends |
| `flight`, `written`, `arrived` | what the server sends; the octets `write()` passed on; those `read()` returned |
| `v_data` | the deque |
| `popped` | history: octets taken so far |
| `msg`, `offset`, `cert_chain` | locals of one iteration |
| `decoded` | history: messages handled |
| `exit` | why the process ended |

Actions follow the code one decision each: `Connect`/`ConnectFails`, `Write` (its
result is ignored, so it may have been short: the server then never answers),
`ReadData(n)`/`ReadEnd`/`ReadError`, the early returns `AwaitMore`, the aborts
(`UnsupportedRecord`, `IncompleteType`, `LengthDiscrepancy`, `UnsupportedType`),
`TakeHeader`, `TakePreamble`, and the cases `ServerHello`, `BeginCertificates`,
`NextCertificate`, `ChainChecked`, `ServerHelloDone` with their failures. `Pop(n)`
is n calls of `pop_front()`; on an empty deque the process ends. The loop bound
`handshake_payload_l - 3` is unsigned, hence `MoreCertificates`.

`CrossesNode` is about `btolEN24_u32(&data[1])`: it takes the address of one
element of the deque and reads the two octets behind it in memory. They are the
next elements only inside one node of the deque (`NodeSize`, 512 in libstdc++).
As octets are appended at the end and taken from the front only, where a node ends
is a function of `popped`.

`ParseCert` and `VerifyChain` are operator parameters here: Certificates is what
stands behind them. The octets cut out of the list (`CertBytes`) are its inputs.

A flight also carries how many of its messages end before a record (`number`) and
which certificates of a list come before an entry (`lists`). The assumption
`MeaningAssumption` ties them, and `msgs`, to the octets: it says what it is for a
server to mean a message (`HelloMeant`, `ListMeant`, `DoneMeant`). TLC evaluates it
for every flight of the instance.

ClientHello is the packed structs of tls.h as octets, and how a server reads them;
`Write` sends any part of them.

MessageFeed is the abstract specification: the messages the server meant are
handed out, each once and in order, and at some point the client stops. `Feed` in
Request is the refinement mapping (`handed <- decoded`).

MCRequest builds flights the way a server does, from messages put into records:
supported ones, ones with an unknown message, a certificate that does not parse
or a chain that does not verify, several messages in a record, one message in
several records, and ones whose bodies disagree with their lengths.

### Powers, UnsignedBigInt, NatRegisters, BigIntRegisters, IntRegisters, SignedRegisters, MachineWords, Decimal, ExpMod

UnsignedBigInt has the operators of the class on octet sequences, least
significant first, in the way the code computes them: the shift in place from the
most significant octet down, addition and subtraction column by column with carry
and borrow, multiplication by shifted addends, division by trying the divisor at
every shift, the comparison that looks at sizes first. `Minimum` is
`ensure_minimum_data_size()`, called where the code calls it.

BigIntRegisters has two objects and any sequence of operators on them;
NatRegisters has two naturals. That the first implements the second under
`x <- Value(x), y <- Value(y)` is what the rest of the project uses when it takes
numbers for naturals (RsaBlocks).

SignedRegisters extends BigIntRegisters: the two objects are BigInts, or
UnsignedBigInts without a sign. IntRegisters has two integers and what BigInt keeps
of their arithmetic: products, quotients and remainders in full; sums and
differences where the absolute values are to be added; the order of all but two
zeros. Where BigInt computes something else (section 6) it promises nothing of the
result but that it is a number.

Decimal is `as_decimal()` and the constructor from a text, ExpMod is `expmod()`,
one action per turn of their loops. The two loops of expmod are two places of `pc`:
`Enter` is the test of the outer one, and `Square` has no other guard than the inner
one's, so that it would run on zero for ever if it were let in. Decimal's `phase` says which of the two runs;
a text is either the one that was written or a given one. The arguments of expmod
are any numbers without a most significant zero. `FromWord` of MachineWords is the
constructor from a `size_t`, which both use for their small constants.

Powers is what the provers have to be told about `^`.

### RsaBlocks, Rsa, CertChain

RsaBlocks has what both uses of rsa.cpp share: `BlockAmount` (how many octets are
sure to be below the modulus), octets to numbers and back, `DecryptedOctets`
(which drops what does not fit into a block). Rsa is `encrypt()` of a message and
`decrypt()` of the result, or `decrypt()` of any numbers, one action per block.

CertChain is `verify_cert_chain()`: `oi` counts as in the code, `current` is the
certificate the turn is about (`i` in the code, from 1 here), `CaKey` is the key
of the certificate behind, the last one's own for the last. The signature is
decrypted, reversed ("TODO: this is reversed somehow"), and `Padded`/`Chop` are
`chop_decrypted_signature()`; `Mismatches` is the comparison, which runs over the
chopped signature: it ends the program when that is longer than the hash, and finds
nothing wrong when that is shorter. Certificates also carry who signed them
(`signer`) and which octets, behind the padding (`signed`), which only the properties
look at. `SignedBy` is what such a signature is to the code: the digest info, and then
the hash of the contents or a beginning of it, the empty one included. `Step` is one turn of the loop: `Opens` says that the signature of a
certificate, decrypted with a key and chopped, is its hash.

### DerParser

`parse_raw()` and `parse_impl()`. The recursion is a `stack` of spans, each with
its index and the objects parsed so far. `BeginConstructed`/`EndConstructed` are
the recursive call and its return, `Primitive` any other object, `Abort` every
failed assertion and every access outside a span. Sizes are `size_t` and wrap
(`SizeLimit`), and the largest length is the `std::dynamic_extent` of
`subspan()`, which stands for all the rest.

What it is to encode objects is defined next to it and without it, from X.690:
`IsEncoded(o)` says which octets an object may have, with its length in the short
form or any long one (`LengthOctets`) and its arcs in base 128 (`EncodeArcs`).
`Objects` is the set of the objects that the inputs encode, at any depth, and
`EncodingsAssumption` says that each of them is encoded, and each input that claims
to be an encoding is one. TLC evaluates it on every object of the instance.

### X509, Certificates

X509 extends DerParser with `parse()`: one action per field, in the order of the
code. `at` is the field to read next, `root` the object of the whole certificate,
`v3` the fields read, `s` the place in the loop over the subject. `ReadKey` calls
`parse_raw()` a second time, on the octets of the BIT STRING; its steps are those of
DerParser again. `Member`, `AsOctets`, `Integer` and `Utc` are the methods of ASNObj.
parse_impl() keeps the spelling of an object identifier in place of its octets, so
that `as_string()` and `as_integer()` cannot tell it from octets that spell it:
`Spelling` gives it. An assertion, a throw and an access to an object that is not
there all end the process (`refused`).

Certificates is the Certificates case of `try_decode()`: `BeginCertificate`,
`ParseCertificate` (any step of X509) and `EndCertificate` for each certificate of
the message, then `VerifyChain`, which is a step of CertChain on what was parsed.
The abstract specification is CertChain itself, on the certificates the server
meant: `Chain` is the refinement mapping. All the parsing maps to stuttering.
`AcceptsMeantChain` is what comes out of it in the end: the verdict on the message
says whether what the server meant is signed.

An input carries whether it is a certificate of the form this client supports
(`profile`) and what it means (`meant`). `IsCertificate(o, m)` says what that is, in
terms of the objects alone: which objects a certificate of the supported form
consists of, and how the fields of `m` stand in them. It is written from RFC 5280 and
names no operator of X509 but the object identifiers and the big-endian number.
`IsX509(o)` is the syntax of any certificate of RFC 5280, with names whose sets have
one attribute each, and `IsSupported(o)` says which of them have the supported form.
`CertificatesAssumption` ties `profile` and `meant` to these; TLC evaluates it for every
certificate of the run.

### Sha256Padding, Sha256

Sha256Padding is `add_padding()` with `find_l_k_solution()`, and
`split_into_512_bit_blocks()`, on bits, for any word size, block size and size of
the length field. Sha256 extends it with the message schedule and the rounds, one
action per round, for the sizes of the code. A word is the set of the positions of
its ones, so that the operators of C++ are set operators; only the sum needs a
carry. `HashAsOctets` is how `verify_cert_chain()` lays out the words.

## 3. The runs

| Run | Checks | Distinct states |
|---|---|---|
| request | TypeOK, BufferIsUnread, RecordAligned, NeverOverruns, WholeRecordsTaken, SupportedFlightAccepted, HelloUnderstood | 12 155 |
| request_feed | HandsOutMessages, DecodeReturns, HandshakeCompletes | 9 380 |
| request_crossing | PreambleReadInPlace: violated | - |
| request_coalesced | CoalescedFlightUnderstood: violated | - |
| certificates | ParsesEncodings, RawOctetsTile, ReadsCertificate, RefusesOthers, AcceptsMeantChain, ParsesOn, VerifiesMeantChain | 58 625 |
| cert_chain | SignaturesBind, AcceptedIffSigned, VerifiedSuffix | 369 200 |
| sha256 | TypeOK, NeverAborts, Recoverable, KnownAnswers | 1 611 |
| rsa | BlocksFromTheEnd, BlocksFitModulus, EveryBlockConsumes | 39 159 |
| rsa_tiny | SmallModulusIsAnError: violated | - |
| bigint_registers | AlwaysCanonical, ComputesNaturals, ComputesIntegers | 78 804 |
| decimal | ReadsBack, NothingLost, DivGetsSmaller | 2 314 |
| expmod | PowerPreserved, LocalsStaySmall, CalculatesPower, EveryTurnShrinks | 11 400 |

**request, request_feed.** Octets have 8 bits here, as framing is about real
lengths. A ServerHello record has at least 47 octets. Buffers of 40 and 16 octets
instead of 4096 make every record longer than a read in some segmentations, and
put several short records into one read in others; as a read may return any
number of octets up to that, all cuts occur. Nodes of 64 octets instead of 512 let
one of the flights cross a node in a preamble and keep the others clear of it.
`HelloUnderstood` sees
every length a `write()` may stop at, and two clocks. Larger values add
segmentations of the same kinds. The theorems of section 5 cover
every flight, buffer and node size.

**bigint_registers.** Octets of two bits, numbers up to three octets: there is a
carry and a borrow through an octet in the middle, a shift by whole octets and by
parts, numbers of different lengths, and zero. Results that are longer are not
explored (`MaxOctets`, the guard in `Assign`). BigInts begin with up to two octets
and any sign, negative zeros included, and grow to three; a `ssize_t` has two
octets, so that all of its values are constructed.

**decimal, expmod.** A digit is written as an octet, so ten must be one: decimal has
octets of four bits. All numbers of two octets (0..255: up to three digits, zeros
inside and at the end) and all texts of up to two characters. expmod has octets of two
bits, bases 0..9, exponents 0..12 and moduli 0..11, zero included; `PowerModulo` is the definition by
repeated multiplication. `EveryTurnShrinks` also says that the inner loop is never
entered with zero.

**rsa.** Real key pairs over octets of two bits, whose moduli hold one, two and
three octets, some of them just above a power of the base, where `BlockAmount` is
easily wrong. Messages of up to four octets need up to four blocks, short ones
included.

**cert_chain.** Three real RSA keys of 13 bits (n = 4757, 4819, 4897), i.e. seven
octets of two bits, of which six are a block: padding, digest info and a hash of
two octets. Every certificate has one of two contents and a signature by any key
over the digest info and either hash, or another digest info; chains of up to three of
them. One of the two hashes begins with a zero octet, like the end of the padding.
Chains of up to two have odd signatures as well: over half a hash, over none, over a
hash and an octet more, and behind padding octets that are not the prescribed ones.
`SignaturesBind` holds of these too, and that is what it says: code that compares
as much as is left of the signature accepts no more and no less than `SignedBy`.

**certificates.** Octets of 8 bits. A certificate with all its fields, and variations
of each: another version, algorithm, kind of string, order or number of attributes,
years on both sides of 50, other forms of time, no extensions, a key in parts, another
padding, octets behind the end; and two that are no certificates at all and get
through: octet strings where integers belong, and strings that spell the identifiers
of attributes. Chains of none to three certificates over the three
RSA keys of cert_chain: signed by the right key, by another, over other contents, in
the wrong order, without the root. For the parser alone: encodings of up to three
levels with every length in short form and in all long forms that hold it, up to
260 octets; and strings of up to seven octets of the values that matter (`Arbitrary`).
`ReadsCertificate` says that what has the supported form is read as it is meant,
`RefusesOthers` that no other certificate gets through: of all octet strings it takes
those that have the syntax of certificates (`Conforming`).
`VerifiesMeantChain` compares two runs of the same verification; `AcceptsMeantChain`
says of their verdict that it is the right one.
Sizes have three octets, so that lengths that wrap and the `dynamic_extent` are
reached by three length octets instead of eight.

**sha256.** The sizes of the code. Messages of octets on both sides of each boundary of
the padding (0, 3, 55, 56, 63, 64, 119 and 120 octets), with hashes computed
independently of this code, and messages of bits, among them the one length in 512
that needs no zeros. The theorems about the padding hold for all lengths.

Deadlock is checked in every passing run: the ends of the programs stutter
(`Terminated`). Only rsa_tiny, whose loop is cut off by its bound, turns the check
off.

## 4. Fairness

Only the runs about progress use it. `FairSpec` is weak fairness of
`Connect \/ Write \/ Decode`: there is a single thread, it never blocks between
these, and each of them is a few instructions or a call that returns. `read()` is
the only place where the thread waits for somebody. `DeliverySpec` adds weak
fairness of `ReadSome`: the server has answered and TCP delivers what was sent, for
the program has no timeout of its own and can promise nothing otherwise.
`DecodeReturns` holds for every well-framed flight; `HandshakeCompletes` is only
stated for a hello that was written completely, as after a short `write()` nobody
answers.

All other loops are sequential. That they end is stated without fairness, as an
action property with a decreasing measure: `EveryTurnShrinks` (expmod),
`EveryBlockConsumes` (encrypt), `ParsesOn` (parse_impl), `DivGetsSmaller`
(as_decimal).

## 5. The proofs

They hold for all values of the constants that satisfy the named assumptions. Of
the 28 invariants and 9 action or temporal properties of the passing runs, 32 are
stated by a theorem.

*Folding* is what the other proofs stand on wherever something is counted, folded
or defined by recursion. The induction theorems of the library take an operator,
which the provers cannot instantiate; those of Folding take a set of naturals or a
function instead. `Induction`: a set with m that has k + 1 with every k has all of
m..n. `Recursive`: the function that a recursive definition chooses satisfies its
equation, once a function is known that does. `Fold` and `FlattenAppend`: the folds
and FlattenSeq of the community modules, one member at a time. Each use fixes the
operator by `INSTANCE Folding WITH Op <- ...`.

The assumptions about powers (`PowersAssumption`, `BoundAssumption`,
`SizeAssumption`, `WordAssumption`, the last lines of `RsaAssumption`) all say the
same: `b^0 = 1` and `b^(k+1) = b * b^k` up to some bound (`PowersUpTo`). The prover
knows `^` as a name only, and TLC evaluates the assumptions for the bases of each
instance.

**Request_proofs** (assumptions: the buffer and the node have at least one octet,
flights consist of octets, `starts` and `entries` are offsets; nothing is assumed
of ParseCert and VerifyChain but, for the refinement, that they give the meaning
of the flight as `MeaningAssumption` says).

1. `TypeCorrect`, `BufferCorrect`. The invariant is
   `BufferInv == TypeOK /\ BufferIsUnread /\ PayloadBuffered`. The last part is
   what makes it inductive: between header and preamble the whole payload is in
   the deque, so that the fields read are octets. The lemmas on windows of a
   sequence (`WindowPop`, `WindowPush`) say what taking from the front and
   appending at the end do to `SubSeq(octets, popped + 1, arrived)`.
2. `FramingCorrect`, `NoOverrun`, `NothingMissed`, under `WellFramed(flight)`.
   "At a record boundary" is not inductive, as the handlers stand inside a record
   most of the time. `Framed` says for each place of the program where in which
   record it stands and what `msg` remembers of it: `AtRecord`, `AtPreamble`,
   `AtPayload`, `AtEntry` (the octets left of the certificate list are
   `payload - 3 - offset`), `NothingWhole` (the client waits only if no whole
   record is left). `HelloFits`, `ListFits` and `EntryFits` show that what a
   handler takes is what the record holds; `PopSucceeds` then rules out the empty
   deque. The proof of `FramedNext` has one step per action.
3. `Implements` (with `MeaningAssumption`): if all flights are well framed
   (`Conforming`), `Spec` implies `HandsOutMessages`, the whole of MessageFeed.
   `Framed` says in which record the decoder stands; `HandedInv` adds what it has
   handed out by then. `Counted(s)`: as many messages as end before the record at
   `s`; `ChainSoFar`: in a certificate list the chain is that of the entries taken,
   and the whole list is the next message; `Prefix`: what was handed out are the
   first messages of the flight. Each step that handles a message then hands out the
   next one, each other step stutters, and the process ends once.
4. `SupportedAccepted`, from the same invariants: a supported flight offers none of
   the aborts but those of the connection, of the peer and of a preamble across two
   nodes.
5. `HelloAlwaysUnderstood`: wherever `write()` stopped, what it passed on is to the
   server the beginning of a hello or a whole one. `HelloHeard` follows the packed
   structs to the places of the length fields, for any value of the clock.

**UnsignedBigInt_proofs** (assumption: octets have at least one bit). What each
operator of the class returns, for canonical operands of any length and octets of
any width: `Normal`, that is octets without a most significant zero, and its `Value`.
`Value` is a fold; the lemmas give it octet by octet and bit by bit. The addition and
the subtraction go by induction over the columns, with carry or borrow in the
invariant; the shift in place by induction from the top down: the octets above are
done, those below are still the old ones (what the hazard of `<<=` is about). The
product is an induction over the bits of the first factor. For the division the
invariant is the schoolbook one, value = quotient * divisor + remainder, and the
remainder is less than the divisor shifted by the bits still to try. The
comparison, which looks at sizes first, is right because both sides are `Normal`,
which is why the other theorems have to conclude it.

**SignedRegisters_proofs** (the same, the bounds are numbers). `CanonicalAlways`,
`RefinesNaturals` and `RefinesIntegers`: any sequence of operators and assignments
leaves the registers `Normal`, and every step is one of NatRegisters or
IntRegisters, by the theorems above. The run has the same three properties.

**UnsignedBigIntLoops_proofs** (assumptions: a `size_t` holds the 2 of the code; ten
is an octet; arguments are canonical). For expmod the invariant is `PowerPreserved`
with `LocalsStaySmall` and that all numbers are `Normal`; a turn keeps it because
squaring the base halves the exponent (`PowerSquare`), and `ExpModCalculates` is the
invariant at the end. `TurnsShrink` is the measure of the loop, for the modulus
zero too. `ExpModIsPower` says that what is returned is `Power` of RsaBlocks: it
is why RsaBlocks may take expmod for a power and octets for naturals. For Decimal the
invariant is `NothingLost` while writing, then that the text has the value of the
number (`Written`), and that what was read is the value of the digits so far
(`ReadSoFar`); `AlwaysReadsBack` gives back the same octets because canonical
octets of the same value are the same.

**RsaBlocks_proofs** (assumptions: keys have a modulus that is not zero and exponents
that undo each other below it; chains are sequences of certificates). The first is
what RSA promises of a key; TLC evaluates it for the keys of the runs.

1. `BlocksConsume`: under the hypothesis that the moduli hold an octet, every turn
   of `encrypt()` consumes octets. rsa_tiny is what happens without the hypothesis.
2. `BlocksFit`: the number of any block is below the modulus. The loop of the code
   counts the powers of the base below the modulus; as they grow, the largest of
   them is the one of `BlockAmount`, and a block of so many octets is below it.
3. `BlocksReturned`: `BlocksInv` says which octets of the message each number in
   `encrypted` is made of, and what of them is in `ret`. That the octets of the
   number of some octets are these octets is an induction over them.
4. `AcceptedExactlyIfOpens`: a chain of any length and of any signatures is accepted if
   and only if each opens under the key of the certificate behind, the last one under
   its own. The loop asks the right pairs, from the last to the first (`ChainInv`:
   the counters, what has opened so far, and where a refusal stands).
5. `OpensExactlyIf` is what opening comes to, for any octets: the number to the public
   exponent is a first octet, any octets that are not zero, a zero, the digest info
   and a beginning of the hash. Neither the padding nor the length of the hash is
   looked at.
6. `SuffixSigned` and `AcceptedExactlyIfSigned` put the owners of the keys in place of
   the numbers, and need `[]SignaturesBind` for it. cert_chain checks that on real
   keys; that nobody else has a number that opens is no fact about this code.
7. `PrescribedOpens` and `PrescribedIsAccepted` are the half that needs no such
   hypothesis. `SignedAsPrescribed`: the signature is the number of a padded hash
   (PKCS #1) to a private exponent which the public one undoes. Such a signature
   opens: its number is below the modulus (`BlockFits`), so that the power comes back
   whole; the octets of the number, reversed, are the padded hash (`OctetsBack`,
   `ReverseType`); and the first zero behind the first octet is the end of the
   padding, whatever the digest info and the hash contain (`BlockIsPadded`). A chain
   that is signed so throughout is never refused.

**Certificates_proofs** (assumptions: inputs are octets whose number is a `size_t`;
`EncodingsAssumption`; messages are sequences of inputs and carry a meaning;
`X509Assumption`: octets have 8 bits, and which identifiers are constructed or object
identifiers is what their bits say; `CertificatesAssumption`). The first four are about
the parser alone (DerParser's `Spec`).

1. `SpansInInput`: every span, on every level of the recursion, lies in the input.
   `SpansInv` adds that each span which waits for a recursive call has passed the
   checks for the object it is at, so that its index stays inside when the call
   returns. The sizes wrap; that is why the length of an object has to be compared
   before it is added.
2. `ParsesOnAlways`: every turn gets behind an object or into a shorter span.
3. `RawOctetsTileAlways`: on every level the raw octets of the objects so far are
   those of the span up to its index. The hash over `raw_bytes` leans on it.
4. `EncodingsAreRead`: what encodes objects is not refused and is parsed into exactly
   these. No induction over the trees is needed: `EncodedInv` follows the stack. Each
   span of it is the contents of an object that is encoded, and has the first ones of
   the objects inside it (`Follows`); if another span is above, that one is about the
   next of them (`WaitsFor`). A step reads one header; `ReadsObject` says
   that identifier, length and contents come out of it as they went in, from
   `ReadsNumber` (base 256, induction over the digits) and, for the arcs, `ReadsArcs`.
   At the end of a span all of its objects are there, since the octets of those
   missing would be left.
5. `ParserInCertificates`: the same properties hold of the parser as it is used, called
   for each certificate and again for the key in it. All that the invariants need of a
   beginning is `Fresh`: one span over an input in memory. `ParsedInto`
   makes the key one: the contents of every object found, at any depth, are octets
   whose number is a `size_t`.
6. `ReadsWhatIsMeant`: a certificate of the supported form is never refused, and every
   field is read as it is meant: `[]ReadsCertificate`. `MeaningInv` says of each place of
   `parse()` which fields have their values by then (`IsReading`). At the objects
   and the modulus it is `EncodedIsRead` that says what was parsed; the other steps
   follow the path to their field (`FollowsPath`) and read it (`IntegerIsRead`,
   `AttributeIsRead`, `TimeIsRead`, ...). The loop over the subject has an invariant of
   its own: for each type, `SubjectRead` has the last value among the first `s`
   attributes. The octet in front of a signature is left in and does not matter
   (`LeadingZero`).
7. `RefusesUnsupported`: `[]RefusesOthers`, without a hypothesis. It is the converse: a
   certificate that got through had each property of the supported form looked at on
   the way. `SiftInv` says for each place of `parse()` which of them are known by then
   (`IsSifting`), of whatever certificate was given; at the end they are all of
   `IsSupported`.
8. `VerifiesWhatIsMeant`: for messages of certificates, supported or not
   (`ProperMessage`), the loop over the certificates and the verification implement
   CertChain on the chain the server meant. Those of another form are refused, by the
   theorem before, and `ChainInv` says that the chain so far is the meant one as far
   as the verification looks at it.
9. `AcceptsWhatOpens` is about any octets at all: when there is a verdict, all of the
   message was parsed, and it is accepted if and only if each signature that was read
   opens under the key that was read from the next certificate, the last one under its
   own. `AcceptsMeantIfEachOpens` says the same of what was meant, for the messages of
   `ProperMessage`; `OpensExactlyIf` of RsaBlocks_proofs says what opens.
10. `SupportedGetsThrough`: a chain of supported certificates whose signatures open is
   neither refused nor rejected. `PrescribedOpens` of RsaBlocks_proofs says which
   signatures do.

**Sha256Padding_proofs** (assumption: the length field is shorter than a block).
`SolutionExists` and `SolutionUnique`: for every length exactly one number of zeros
brings the message to `Target` modulo the block size, from a lemma on remainders
(`NextMultiple`). `TypeCorrect` and `AbortsUnreachable` from
`IInv == TypeOK /\ LengthInv`, where `LengthInv` gives the length of the message at every step and says
that the blocks read lie within it. `RecoverableAlways`: the blocks determine the
message, as long as the length field can hold its length. Its invariant (`Layout`)
says which bit of the message stands at which place of which word; the length is
read from the last bits, and the message from the first that many.

**Only model-checked**: liveness (`DecodeReturns`, `HandshakeCompletes`), which is
out of the prover's reach; `KnownAnswers`, which is about single messages;
`SignaturesBind`, which no theorem can give in full, as it says that nobody else
happens to have a number that opens; and with it `AcceptsMeantChain`, whose part
about this code is `AcceptsMeantIfEachOpens`.

## 6. What the checks found

Three places where the code does not do what it says, each with a run.

- `http.cpp:152`. The length of a handshake message is read from foreign memory
  when its three octets lie in two nodes of the deque. In request_crossing a
  conforming flight, with a session id of nine octets, places it there. The
  comment kept at that line (`data[1] << 16 | data[2] << 8 | data[3]`) would be
  right.
- `http.cpp:156`. A record with two handshake messages ends the client; README.md
  says "Implementing according to spec.", and RFC 5246, 6.2.1 allows it.
- `rsa.cpp:39`. For a modulus that holds no octet `encrypt()` prints an error and
  goes on; its loop then appends encrypted empty blocks without end. (The message
  says "less than 256"; a modulus of 256 itself is too small as well.)

Smaller observations, which the properties leave out on purpose and say so:

- `expmod` returns 1 for the exponent 0 modulo 1 (`CalculatesPower` leaves the
  moduli zero and one out; no key has them).
- Division by zero is not refused. The remainder is the dividend; NatRegisters
  promises nothing of the quotient.
- `operator+` and `operator-` of BigInt add the absolute values whatever the signs, so
  that 5 + (-3) is 8; equal absolute values give a result without a sign
  ((-3) + (-3) = 6). The comparison has -0 < 0. The constructor from a text
  ends with `m_is_negative = false`, and without a sign reads nothing; the one from
  a negative `ssize_t` only clears the sign bit. IntRegisters leaves these out. The
  program does not use the class.
- `gmt_unix_time` is the one field of the hello without an `htonl()` (tls.cpp:13):
  servers read another time.
- The issuer is read by position and the subject by type; a certificate
  without extensions, or with an attribute or a string type the parser does not
  know, ends the client. `Profile` of MCCertificates says exactly which ones do not.
- The comparison with the hash is over what is left of the signature, and the padding
  is only looked through for its end (`OpensExactlyIf`). A signature that has less
  than a whole hash behind the digest info, or none, is accepted for any contents that
  agree with it so far; `SignedBy` says so.
- What is no certificate may be read as one, since tags and classes are looked at only
  here and there: a string that spells an object identifier, an octet string or
  anything else that is not constructed for an integer (the check at certparser.h:199
  is commented out), a set for a sequence, objects behind those that are read of an
  attribute, an identifier of another class, bits left unused in a signature or
  another object in its place. `RefusesOthers` is about the syntax of certificates for
  this reason, and names with several attributes in a set, which RFC 5280 allows and of
  which `parse()` reads the first, are outside of `IsName`.
- The indefinite length 0x80 is parsed as a length of zero.
- An object with the largest length stands for all the rest, so that its raw octets
  are more than its length says; `RawOctetsTile` leaves it out.
- The last certificate of a chain must be self-signed: a chain without its root
  is not accepted. `AcceptedIffSigned` states it so.
- The verdict on the chain is printed and the handshake goes on. `ChainChecked`
  records it and changes nothing else.

One fault of the models themselves came out as a proof that would not go through:
in the comparison of two signs (SignedRegisters) the arms of a CASE overlapped,
where TLC takes the first and TLA+ leaves the choice open. They exclude each other now.

## 7. What is not modelled, and why

- *A session id of more than 32 octets*. What lies behind the array is the
  compiler's choice. Flights with one are not well framed.
- *hexutils*, `as_binary()`, `to_string()` and `sha256_as_hex()`, which format for the
  log, and the sign in BigInt's `as_decimal()`; the Makefile.
- *The contents of extensions*: the code does not read them.
- *Object identifiers of the arc 2* whose second number is 40 or more: the first octet
  is split by `/ 40` and `% 40` (certparser.cpp:225), where X.690 has 2 and the rest.
  `EncodeArcs` leaves them out, so `ParsesEncodings` does not speak of them.
- *A server that talks before it was talked to*: in Request the octets arrive after the
  whole hello was written.
- *The aborts inside of divmod() and operator-* (nu_unsigned_big_int.cpp:107, 288, 305):
  no caller reaches them, and the definitions say why. The one of a negative
  difference is `MinusAborts`.
- *Memory exhaustion* and the depth of the recursion of parse_impl.
- *A timeout*: the program has none.
- *Octets of 8 bits* in the arithmetic, RSA and chain runs: the algorithms take their
  base from `OctetBits`, and carries, borrows and boundaries already occur with two
  to four bits. Certificates therefore verifies small keys and hashes of two octets,
  inside certificates of real octets; Sha256 has the real hash on its own.

## 8. The plan

The order was the protocol loop first, since everything else is reached through it,
then what it calls, from the top of the trust decision (chain, certificates, parser,
RSA) to its bottom (arithmetic, hash). All components with state of their own are
modelled. What would add most from here:

1. *What else gets through*: the set of octets that `parse()` does not refuse, certificates
   or not, as a definition beside `IsCertificate`; `RefusesUnsupported` is the part of it
   that is about certificates.
2. *The schedule and the rounds of Sha256* against a definition of the standard's on
   words as numbers.
3. *Larger instances*: a flight whose certificates are those of Certificates, once
   the product of segmentations and parsing is made small by parsing in one step.

Large values stay out of TLC's reach and are left to the proofs: real buffer
sizes, chains of any length, real keys.
