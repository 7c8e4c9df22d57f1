-------------------------------- MODULE Rsa --------------------------------
(***************************************************************************)
(* encrypt() of a message and decrypt() of what comes out, one action per  *)
(* block; or decrypt() of any given numbers.                               *)
(***************************************************************************)
EXTENDS RsaBlocks

CONSTANTS
  Keys,        \* key pairs, as records of n, e and d
  MaxMessage,  \* bound: octets of a message
  MaxBlocks,   \* bound: numbers encrypted
  MaxGiven     \* bound: numbers given to decrypt()

\* The exponents of a pair undo each other.
ASSUME KeysAssumption ==
  \A k \in Keys :
    /\ k.n \in Nat \ {0} /\ k.e \in Nat /\ k.d \in Nat
    /\ \A m \in 0..(k.n - 1) : Power(Power(m, k.e, k.n), k.d, k.n) = m

VARIABLES
  pc,
  key,
  message,
  msg_i,      \* octets of the message consumed, from its end
  encrypted,  \* what encrypt() returns and decrypt() takes
  done,       \* blocks decrypted
  ret         \* what decrypt() returns

rsaVars == <<pc, key, message, msg_i, encrypted, done, ret>>

RsaInit ==
  /\ key \in Keys
  /\ \/ /\ pc = "encrypt"
        /\ message \in UNION {[1..n -> Octet] : n \in 0..MaxMessage}
        /\ encrypted = <<>>
     \/ /\ pc = "decrypt"
        /\ message = <<>>
        /\ encrypted \in UNION {[1..n -> 0..key.n] : n \in 1..MaxGiven}
  /\ msg_i = 0
  /\ done = 0
  /\ ret = <<>>

\* From the head of the message.
BlockSlip(last, amount) == SubSeq(message, msg_i + 1, msg_i + amount)

\* The octets of the next block: the last ones not consumed yet.
Block(last, amount) == SubSeq(message, last - amount + 1, last)

\* One turn of the outer loop.  With a modulus that holds no octet, the turn
\* consumes none.
EncryptBlock ==
  /\ pc = "encrypt"
  /\ msg_i < Len(message)
  /\ Len(encrypted) < MaxBlocks
  /\ LET last   == Len(message) - msg_i
         amount == Min({BlockAmount(key.n), last})
         msg    == Number(Block(last, amount))
     IN IF msg < key.n
        THEN /\ encrypted' = Append(encrypted, Power(msg, key.e, key.n))
             /\ msg_i' = msg_i + amount
             /\ pc' = pc
        ELSE pc' = "abort" /\ UNCHANGED <<msg_i, encrypted>>
  /\ UNCHANGED <<key, message, done, ret>>

EncryptReturns ==
  /\ pc = "encrypt"
  /\ msg_i >= Len(message)
  /\ pc' = "decrypt"
  /\ UNCHANGED <<key, message, msg_i, encrypted, done, ret>>

DecryptBlock ==
  /\ pc = "decrypt"
  /\ done < Len(encrypted)
  /\ encrypted[done + 1] < key.n
  /\ ret' = ret \o DecryptedOctets(encrypted[done + 1], key.d, key.n)
  /\ done' = done + 1
  /\ UNCHANGED <<pc, key, message, msg_i, encrypted>>

\* "Encrypted message was bigger than the modulus"
DecryptAborts ==
  /\ pc = "decrypt"
  /\ done < Len(encrypted)
  /\ encrypted[done + 1] >= key.n
  /\ pc' = "abort"
  /\ UNCHANGED <<key, message, msg_i, encrypted, done, ret>>

DecryptReturns ==
  /\ pc = "decrypt"
  /\ done = Len(encrypted)
  /\ pc' = "return"
  /\ UNCHANGED <<key, message, msg_i, encrypted, done, ret>>

Finished == pc \in {"abort", "return"} /\ UNCHANGED rsaVars

RsaNext ==
  \/ EncryptBlock \/ EncryptReturns
  \/ DecryptBlock \/ DecryptAborts \/ DecryptReturns
  \/ Finished

RsaSpec == RsaInit /\ [][RsaNext]_rsaVars
-----------------------------------------------------------------------------
\* What decrypt() returns of an encrypted message (rsa.cpp:37-50, 67-81): the
\* blocks from the end of the message to its head, each in the order of the
\* message, the head filled up with zeros behind its octets.
BlocksFromTheEnd ==
  LET size  == BlockAmount(key.n)
      blocks == (Len(message) + size - 1) \div size
      From(b) == Max({0, Len(message) - b * size})
  IN pc = "return" /\ message # <<>> =>
       ret = FlattenSeq([b \in 1..blocks |->
               [i \in 1..size |->
                 IF From(b) + i <= Len(message) - (b - 1) * size
                 THEN message[From(b) + i] ELSE 0]])

\* A message can always be encrypted, and what comes out decrypted: no block
\* reaches the modulus (rsa.cpp:6-9, 14-17, 44-46).
BlocksFitModulus == message # <<>> => pc # "abort"

\* Every block consumes octets, so that encrypt() comes to the end of every
\* message (rsa.cpp:39-41).
EveryBlockConsumes == [][encrypted' # encrypted => msg_i' > msg_i]_rsaVars

\* "ERROR: Modulus is to small (less than 256)" (rsa.cpp:33-35): such a modulus
\* is an error, nothing is encrypted with it.
SmallModulusIsAnError == key.n < Levels /\ message # <<>> => encrypted = <<>>
=============================================================================
