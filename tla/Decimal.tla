------------------------------ MODULE Decimal ------------------------------
(***************************************************************************)
(* as_decimal() and the constructor from a decimal text.  A number is      *)
(* written and what was written is read again, or a given text is read.    *)
(* A text is the sequence of its digits; Letter is any other character.    *)
(***************************************************************************)
EXTENDS MachineWords

CONSTANTS
  MaxOctets,  \* bound: the longest number written
  MaxText     \* bound: the longest text given

\* as_decimal() writes an octet where it means a digit: ten must be an octet.
ASSUME TenAssumption == Base > 10 /\ MaxOctets \in Nat /\ MaxText \in Nat

VARIABLES
  phase,
  given,  \* the text is given, not written
  data,   \* the number written
  cache,  \* what is left to write
  s,      \* the text
  temp,   \* the number read so far
  i       \* digits read so far

decimalVars == <<phase, given, data, cache, s, temp, i>>

Letter == 10
Ten    == FromWord(10)

\* The number a text of digits stands for.
Meaning(text) ==
  LET number[k \in 0..Len(text)] == IF k = 0 THEN 0 ELSE number[k - 1] * 10 + text[k]
  IN number[Len(text)]

DecimalInit ==
  /\ \/ /\ phase = "write"
        /\ given = FALSE
        /\ \E d \in UNION {Data(n) : n \in 0..MaxOctets} : data = Minimum(d)
        /\ cache = data
        /\ s = <<>>
     \/ /\ phase = "read"
        /\ given = TRUE
        /\ s \in UNION {[1..n -> 0..Letter] : n \in 0..MaxText}
        /\ data = Zero /\ cache = Zero
  /\ temp = Zero
  /\ i = 0

\* while (cache >= ten)
More == ~Less(cache, Ten)

\* The octet that is written as a digit.
Digits(d) == <<At(d, 0)>>

PrependSlip(text, digits) == text \o digits   \* least significant first
Prepend(text, digits) == digits \o text

\* The program ends if "div didn't get smaller. (why??)".
WriteDigit ==
  /\ phase = "write"
  /\ More
  /\ LET r == DivMod(cache, Ten) IN
       IF Less(r.div, cache)
       THEN /\ cache' = r.div
            /\ s' = Prepend(s, Digits(r.mod))
            /\ phase' = "write"
       ELSE phase' = "not smaller" /\ UNCHANGED <<cache, s>>
  /\ UNCHANGED <<given, data, temp, i>>

WriteLast ==
  /\ phase = "write"
  /\ ~More
  /\ s' = Prepend(s, Digits(cache))
  /\ phase' = "read"
  /\ UNCHANGED <<given, data, cache, temp, i>>

ReadDigit ==
  /\ phase = "read"
  /\ i < Len(s)
  /\ s[i + 1] # Letter
  /\ temp' = Add(Multiply(temp, Ten), FromWord(s[i + 1]))
  /\ i' = i + 1
  /\ UNCHANGED <<phase, given, data, cache, s>>

MalformedInput ==
  /\ phase = "read"
  /\ i < Len(s)
  /\ s[i + 1] = Letter
  /\ phase' = "malformed"
  /\ UNCHANGED <<given, data, cache, s, temp, i>>

ReadEnds ==
  /\ phase = "read"
  /\ i = Len(s)
  /\ phase' = "done"
  /\ UNCHANGED <<given, data, cache, s, temp, i>>

Stopped == phase \in {"done", "malformed", "not smaller"} /\ UNCHANGED decimalVars

DecimalNext ==
  \/ WriteDigit \/ WriteLast
  \/ ReadDigit \/ MalformedInput \/ ReadEnds
  \/ Stopped

DecimalSpec == DecimalInit /\ [][DecimalNext]_decimalVars
-----------------------------------------------------------------------------
TenTo[k \in Nat] == IF k = 0 THEN 1 ELSE 10 * TenTo[k - 1]

\* as_decimal() and the constructor are inverse: what was written is read
\* again as the same octets, and a given text of digits as its number
\* (nu_unsigned_big_int.cpp:185-212, nu_unsigned_big_int.h:17-30).
ReadsBack ==
  /\ phase = "done" => IF given THEN Value(temp) = Meaning(s) ELSE temp = data
  /\ phase = "malformed" => given /\ Letter \in Range(s)

\* In every turn of as_decimal() the text and what is left to write make up
\* the number (nu_unsigned_big_int.cpp:190-205).
NothingLost ==
  phase = "write" => Value(data) = Value(cache) * TenTo[Len(s)] + Meaning(s)

\* The quotient by ten is smaller, so the branch that asks "why??"
\* (nu_unsigned_big_int.cpp:194-198) is never taken.
DivGetsSmaller == phase # "not smaller"
=============================================================================
