------------------------------- MODULE Strto -------------------------------
(***************************************************************************)
(* strtol, strtoul and their C23 forms: the runner's scanner, and the      *)
(* subject sequence of the C standard.  Words have Width bits.             *)
(***************************************************************************)
EXTENDS Integers, FiniteSetsExt, SequencesExt

CONSTANT Width     \* 64 in the code

Spaces == {9, 32}
Plus == 43
Minus == 45
Zero == 48
Hex == {88, 120}    \* X x
Bin == {66, 98}     \* B b
Erange == 34
Einval == 22

Digit(c) ==
  CASE c \in 48..57 -> c - 48
    [] c \in 65..90 -> c - 55
    [] c \in 97..122 -> c - 87
    [] OTHER -> 99

\* The value of digits in a base.
Number(digits, base) == FoldLeft(LAMBDA n, c : n * base + Digit(c), 0, digits)

\* What a sign and a magnitude become in a word: [value, errno].
Clamped(negative, magnitude, signed) ==
  LET limit == CASE signed /\ negative -> 2^(Width - 1)
                 [] signed /\ ~negative -> 2^(Width - 1) - 1
                 [] OTHER -> 2^Width - 1
      size == Min({magnitude, limit})
  IN [value |-> (IF negative /\ (signed \/ magnitude <= limit) THEN -size ELSE size) % 2^Width,
      errno |-> IF magnitude > limit THEN Erange ELSE 0]

-----------------------------------------------------------------------------
(* The scanner.  Places count from 1.                                      *)

Scan(text, from, Test(_)) ==
  Min({i \in from..Len(text) : ~Test(text[i])} \cup {Max({from, Len(text) + 1})})

PrefixBare(text, i, letters, base) == \* mutant
  i + 1 <= Len(text) /\ text[i] = Zero /\ text[i + 1] \in letters
Prefix(text, i, letters, base) ==
  /\ i + 2 <= Len(text) /\ text[i] = Zero /\ text[i + 1] \in letters
  /\ Digit(text[i + 2]) < base

\* The base, and where the digits start.
Radix(text, i, base, c23) ==
  CASE base \in {0, 16} /\ Prefix(text, i, Hex, 16) -> <<16, i + 2>>
    [] c23 /\ base \in {0, 2} /\ Prefix(text, i, Bin, 2) -> <<2, i + 2>>
    [] OTHER -> <<IF base # 0 THEN base
                  ELSE IF i <= Len(text) /\ text[i] = Zero THEN 8 ELSE 10, i>>

\* The value, the number of characters used, and errno.
Strto(text, base, c23, signed) ==
  LET first == Scan(text, 1, LAMBDA c : c \in Spaces)
      sign == first <= Len(text) /\ text[first] \in {Plus, Minus}
      radix == Radix(text, IF sign THEN first + 1 ELSE first, base, c23)
      start == radix[2]
      stop == Scan(text, start, LAMBDA c : Digit(c) < radix[1])
      word == Clamped(sign /\ text[first] = Minus,
                        Number(SubSeq(text, start, stop - 1), radix[1]), signed)
  IN CASE base # 0 /\ base \notin 2..36 -> [value |-> 0, used |-> 0, errno |-> Einval]
       [] (base = 0 \/ base \in 2..36) /\ stop = start -> [value |-> 0, used |-> 0, errno |-> 0]
       [] OTHER -> [value |-> word.value, used |-> stop - 1, errno |-> word.errno]

-----------------------------------------------------------------------------
(* The reference: the forms of a number in C, and the longest start of the *)
(* text, after white space, that is one.                                   *)

Digits(s, base) == s # << >> /\ \A i \in DOMAIN s : Digit(s[i]) < base
Prefixed(s, letters, base) ==
  Len(s) > 2 /\ s[1] = Zero /\ s[2] \in letters /\ Digits(SubSeq(s, 3, Len(s)), base)

\* The values of an unsigned form: none or one.
Values(s, base, c23) ==
  UNION {
    {Number(s, b) : b \in {x \in {base} \ {0} : Digits(s, x)}},
    {Number(s, 10) : x \in {y \in {base} : y = 0 /\ Digits(s, 10) /\ s[1] # Zero}},
    {Number(s, 8) : x \in {y \in {base} : y = 0 /\ Digits(s, 8) /\ s[1] = Zero}},
    {Number(SubSeq(s, 3, Len(s)), 16) : x \in {y \in {base} : y \in {0, 16} /\ Prefixed(s, Hex, 16)}},
    {Number(SubSeq(s, 3, Len(s)), 2) :
       x \in {y \in {base} : c23 /\ y \in {0, 2} /\ Prefixed(s, Bin, 2)}}}

\* The number in a word, or the nearest end of the range and ERANGE.
Converted(negative, n, signed) ==
  LET v == IF negative THEN -n ELSE n
      low == IF signed THEN -(2^(Width - 1)) ELSE 1 - 2^Width
      high == IF signed THEN 2^(Width - 1) - 1 ELSE 2^Width - 1
      nearest == IF v < low /\ signed THEN low ELSE high
  IN IF v \in low..high THEN [value |-> v % 2^Width, errno |-> 0]
     ELSE [value |-> nearest % 2^Width, errno |-> Erange]

Subject(text, base, c23, signed) ==
  LET lead == Max({i \in 0..Len(text) : \A k \in 1..i : text[k] \in Spaces})
      unsigned(e) == LET s == SubSeq(text, lead + 1, e)
                     IN IF s # << >> /\ s[1] \in {Plus, Minus} THEN Tail(s) ELSE s
      ends == {e \in lead..Len(text) : Values(unsigned(e), base, c23) # {}}
      end == Max(ends)
      word == Converted(text[lead + 1] = Minus,
                        CHOOSE v \in Values(unsigned(end), base, c23) : TRUE, signed)
  IN IF ends = {} THEN [value |-> 0, used |-> 0, errno |-> 0]
     ELSE [value |-> word.value, used |-> end, errno |-> word.errno]
=============================================================================
