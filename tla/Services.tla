-------------------------------- MODULE Services --------------------------------
(***************************************************************************)
(* The helper library of runtime.py: what the machine has no instruction   *)
(* for is a call of a host service, named after the operation and its      *)
(* width.  Its arguments are words, whose bits above the width of the      *)
(* operand may be anything.  Trapped is the VMError a service raises.      *)
(*                                                                         *)
(* A value wider than a word is passed as the address of a fresh block of  *)
(* bytes that nothing writes again; it is modelled by what the bytes hold. *)
(***************************************************************************)
EXTENDS Words

LOCAL INSTANCE SequencesExt

Trapped == -1

Decode(word, bits) == Low(word, bits)
Encode(bits, v) == Low(v, bits)

Magnitude(v) == IF v < 0 THEN -v ELSE v
BitLength(v) == CHOOSE n \in 0..2 * WordBits : v < 2^n /\ (n = 0 \/ v >= 2^(n - 1))

Bits2(op, bits, a, b) ==
  LET x == Ones(a, bits)
      y == Ones(b, bits)
  IN  FromOnes(CASE op = "and" -> x \cap y [] op = "or" -> x \cup y [] op = "xor" -> (x \ y) \cup (y \ x))

\* Poison is made concrete: an oversized shift is zero, and so is a division
\* that has no quotient.
Shift(op, bits, a, b) ==
  IF b >= bits THEN 0
  ELSE CASE op = "shl" -> Low(a * 2^b, bits)
         [] op = "lshr" -> a \div 2^b
         [] op = "ashr" -> Low(Signed(a, bits) \div 2^b, bits)

UnsignedDivision(op, a, b) == IF b = 0 THEN 0 ELSE IF op = "udiv" THEN a \div b ELSE a % b

SignedDivisionFloor(op, bits, a, b) ==                                 \* mutant
  LET q == IF Signed(b, bits) > 0 THEN Signed(a, bits) \div Signed(b, bits)
           ELSE (-Signed(a, bits)) \div (-Signed(b, bits))
  IN  IF b = 0 THEN 0 ELSE Low(IF op = "sdiv" THEN q ELSE Signed(a, bits) - q * Signed(b, bits), bits)

SignedDivision(op, bits, a, b) ==
  LET sa == Signed(a, bits)
      sb == Signed(b, bits)
      n == Magnitude(sa) \div Magnitude(sb)
      q == IF (sa < 0) # (sb < 0) THEN -n ELSE n
  IN  IF b = 0 \/ (sa = -(2^(bits - 1)) /\ sb = -1) THEN 0
      ELSE Low(IF op = "sdiv" THEN q ELSE sa - q * sb, bits)

BinaryInteger(op, bits, wa, wb) ==
  LET a == Low(wa, bits)
      b == Low(wb, bits)
  IN  CASE op \in {"and", "or", "xor"} -> Bits2(op, bits, a, b)
        [] op = "mul" -> Low(a * b, bits)
        [] op \in {"shl", "lshr", "ashr"} -> Shift(op, bits, a, b)
        [] op \in {"udiv", "urem"} -> UnsignedDivision(op, a, b)
        [] op \in {"sdiv", "srem"} -> SignedDivision(op, bits, a, b)

IcmpOnes(pred, bits, wa, wb) ==                                        \* mutant
  IF pred = "eq" /\ Low(wa, bits) = Low(wb, bits) THEN 2^WordBits - 1 ELSE 0
Icmp(pred, bits, wa, wb) ==
  LET ua == Low(wa, bits)
      ub == Low(wb, bits)
      sa == Signed(wa, bits)
      sb == Signed(wb, bits)
      table == [eq |-> ua = ub, ne |-> ua # ub,
                ult |-> ua < ub, ule |-> ua <= ub, ugt |-> ua > ub, uge |-> ua >= ub,
                slt |-> sa < sb, sle |-> sa <= sb, sgt |-> sa > sb, sge |-> sa >= sb]
  IN  IF table[pred] THEN 1 ELSE 0

binary(op, bits, wa, wb) ==
  LET v == BinaryInteger(op, bits, Decode(wa, bits), Decode(wb, bits))
  IN  IF v = Trapped THEN Trapped ELSE Encode(bits, v)
add(bits, wa, wb) == Encode(bits, Decode(wa, bits) + Decode(wb, bits))
compare(pred, bits, wa, wb) == Icmp(pred, bits, Decode(wa, bits), Decode(wb, bits))

cast(op, m, n, word) ==
  Encode(n, IF op = "sext" THEN Signed(Decode(word, m), m) ELSE Decode(word, m))
freeze(bits, word) == Encode(bits, Decode(word, bits))
select(c, t, f) == IF c % 2 = 1 THEN t ELSE f
wide_const(bits, v) == Encode(bits, v)
ptr_add(scale, base, index) == Low(base + index * scale, WordBits)

bitcount(op, bits, word, flag) ==
  LET v == Low(word, bits)
  IN  CASE op = "ctpop" -> Cardinality(Ones(v, bits))
        [] op \in {"cttz", "ctlz"} ->
             IF v = 0 THEN IF flag THEN Trapped ELSE bits
             ELSE IF op = "cttz" THEN BitLength(FromOnes(Ones(v, WordBits) \cap Ones(-v, WordBits))) - 1
             ELSE bits - BitLength(v)

llvm_abs(bits, word, flag) ==
  LET v == Signed(word, bits)
  IN  IF v = -(2^(bits - 1)) /\ flag THEN Trapped ELSE Low(Magnitude(v), bits)

bswap(bits, word) ==
  LET n == Bytes(bits) IN FromBytes([i \in 0..n - 1 |-> ByteOf(Low(word, bits), n - 1 - i)], n)

\* The bits go out at the low end of one word and in at the low end of another.
bitreverse(bits, word) ==
  FoldLeft(LAMBDA out, i : out * 2 + ((word \div 2^(i - 1)) % 2), 0, [i \in 1..bits |-> i])

minmax(op, bits, wa, wb) ==
  LET signed == op \in {"smin", "smax"}
      a == IF signed THEN Signed(wa, bits) ELSE Low(wa, bits)
      b == IF signed THEN Signed(wb, bits) ELSE Low(wb, bits)
  IN  Low(IF op \in {"umax", "smax"} THEN Max({a, b}) ELSE Min({a, b}), bits)

saturating(op, bits, wa, wb) ==
  LET a == IF op \in {"uadd_sat", "usub_sat"} THEN Low(wa, bits) ELSE Signed(wa, bits)
      b == IF op \in {"uadd_sat", "usub_sat"} THEN Low(wb, bits) ELSE Signed(wb, bits)
  IN  CASE op = "uadd_sat" -> Min({a + b, 2^bits - 1})
        [] op = "usub_sat" -> Max({a - b, 0})
        [] op = "sadd_sat" -> Low(Min({Max({a + b, -(2^(bits - 1))}), 2^(bits - 1) - 1}), bits)
        [] op = "ssub_sat" -> Low(Min({Max({a - b, -(2^(bits - 1))}), 2^(bits - 1) - 1}), bits)

funnel(op, bits, wa, wb, shift) ==
  LET a == Low(wa, bits)
      b == Low(wb, bits)
      n == shift % bits
      high == IF op = "fshl" THEN n ELSE bits - n
  IN  IF n = 0 THEN IF op = "fshl" THEN a ELSE b
      ELSE FromOnes(Ones(Low(a * 2^high, bits), bits) \cup Ones(b \div 2^(bits - high), bits))

\* A pair {iN, i1} is a block of bytes: the value, then the flag.
OverflowBlob(bits, v, overflow) ==
  Low(v, bits) + (IF overflow THEN 2^(ByteBits * Bytes(bits)) ELSE 0)
with_overflow(signed, op, bits, wa, wb) ==
  LET a == IF signed THEN Signed(wa, bits) ELSE Low(wa, bits)
      b == IF signed THEN Signed(wb, bits) ELSE Low(wb, bits)
      raw == CASE op = "add" -> a + b [] op = "sub" -> a - b [] op = "mul" -> a * b
      overflow == IF signed THEN raw < -(2^(bits - 1)) \/ raw > 2^(bits - 1) - 1
                  ELSE IF op = "sub" THEN a < b ELSE raw > 2^bits - 1
  IN  OverflowBlob(bits, raw, overflow)

\* Integers the machine cannot move, and aggregates, go byte by byte.
integer_store(bits, word) == FromBytes([i \in 0..Bytes(bits) - 1 |-> ByteOf(Decode(word, bits), i)], Bytes(bits))
integer_load(bits, bytes) == Encode(bits, bytes)
extractvalue(blob, offset, size) ==
  FromBytes([i \in 0..size - 1 |-> ByteOf(blob, offset + i)], size)
insertvalue(blob, total, offset, word, size) ==
  FromBytes([i \in 0..total - 1 |->
               IF i \in offset..offset + size - 1 THEN ByteOf(word, i - offset) ELSE ByteOf(blob, i)], total)
================================================================================
