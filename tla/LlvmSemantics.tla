----------------------------- MODULE LlvmSemantics -----------------------------
(***************************************************************************)
(* What the instructions and intrinsics of LLVM mean, as its language      *)
(* reference defines them: the specification the lowering is held to.  A   *)
(* value of iN is a number below 2^N, or poison.                           *)
(***************************************************************************)
EXTENDS Words

Poison == -1

Clamp(v, lo, hi) == IF v < lo THEN lo ELSE IF v > hi THEN hi ELSE v
SignedMin(n) == 0 - 2^(n - 1)
SignedMax(n) == 2^(n - 1) - 1

\* Quotient and remainder of a division that truncates toward zero.
Quotient(s, t) ==
  CHOOSE q \in -2^WordBits - 1 .. 2^WordBits :
    LET r == s - q * t
    IN  /\ r * s >= 0
        /\ r < t \/ r < -t
        /\ r > -t \/ r > t

\* Executing the instruction is undefined, whatever is done with the result.
Undefined(op, n, x, y) ==
  /\ op \in {"udiv", "urem", "sdiv", "srem"}
  /\ \/ y \in {0, Poison}
     \/ op \in {"sdiv", "srem"} /\ x = 2^(n - 1) /\ y = 2^n - 1

Shifted(op, n, x, y) ==
  LET from(i) == CASE op = "shl" -> i - y [] op = "lshr" -> i + y [] op = "ashr" -> Min({i + y, n - 1})
  IN  IF y >= n THEN Poison ELSE FromOnes({i \in 0..n - 1 : from(i) \in Ones(x, n)})

Arithmetic(op, n, x, y) ==
  LET s == Signed(x, n)
      t == Signed(y, n)
  IN  CASE op = "add" -> Low(x + y, n)
        [] op = "sub" -> Low(x - y, n)
        [] op = "mul" -> Low(x * y, n)
        [] op = "and" -> FromOnes(Ones(x, n) \cap Ones(y, n))
        [] op = "or" -> FromOnes(Ones(x, n) \cup Ones(y, n))
        [] op = "xor" -> FromOnes({i \in 0..n - 1 : (i \in Ones(x, n)) # (i \in Ones(y, n))})
        [] op \in {"shl", "lshr", "ashr"} -> Shifted(op, n, x, y)
        [] op = "udiv" -> x \div y
        [] op = "urem" -> x % y
        [] op = "sdiv" -> Low(Quotient(s, t), n)
        [] op = "srem" -> Low(s - Quotient(s, t) * t, n)

Compare(pred, n, x, y) ==
  LET s == Signed(x, n)
      t == Signed(y, n)
  IN  CASE pred = "eq" -> x = y [] pred = "ne" -> x # y
        [] pred = "ult" -> x < y [] pred = "ule" -> x <= y
        [] pred = "ugt" -> x > y [] pred = "uge" -> x >= y
        [] pred = "slt" -> s < t [] pred = "sle" -> s <= t
        [] pred = "sgt" -> s > t [] pred = "sge" -> s >= t

Cast(op, m, n, x) ==
  CASE op = "zext" -> x
    [] op = "sext" -> Low(Signed(x, m), n)
    [] op = "trunc" -> Low(x, n)

\* llvm.{u,s}{add,sub,mul}.with.overflow: the exact result, and whether it fits.
Exact(signed, op, n, x, y) ==
  LET a == IF signed THEN Signed(x, n) ELSE x
      b == IF signed THEN Signed(y, n) ELSE y
  IN  CASE op = "add" -> a + b [] op = "sub" -> a - b [] op = "mul" -> a * b
Fits(signed, n, v) ==
  IF signed THEN v \in SignedMin(n) .. SignedMax(n) ELSE v \in 0 .. 2^n - 1

Intrinsic(op, n, x, flag) ==
  CASE op = "bswap" -> FromBytes([i \in 0..Bytes(n) - 1 |-> ByteOf(x, Bytes(n) - 1 - i)], Bytes(n))
    [] op = "bitreverse" -> FromOnes({n - 1 - i : i \in Ones(x, n)})
    [] op = "ctpop" -> Cardinality(Ones(x, n))
    [] op = "cttz" -> IF x = 0 THEN (IF flag THEN Poison ELSE Low(n, n)) ELSE Min(Ones(x, n))
    [] op = "ctlz" -> IF x = 0 THEN (IF flag THEN Poison ELSE Low(n, n)) ELSE n - 1 - Max(Ones(x, n))
    [] op = "abs" -> IF x = 2^(n - 1) /\ flag THEN Poison ELSE IF Signed(x, n) < 0 THEN 2^n - x ELSE x

Intrinsic2(op, n, x, y) ==
  LET s == Signed(x, n)
      t == Signed(y, n)
  IN  CASE op = "umin" -> Min({x, y}) [] op = "umax" -> Max({x, y})
        [] op = "smin" -> Low(Min({s, t}), n) [] op = "smax" -> Low(Max({s, t}), n)
        [] op = "uadd_sat" -> Clamp(x + y, 0, 2^n - 1)
        [] op = "usub_sat" -> Clamp(x - y, 0, 2^n - 1)
        [] op = "sadd_sat" -> Low(Clamp(s + t, SignedMin(n), SignedMax(n)), n)
        [] op = "ssub_sat" -> Low(Clamp(s - t, SignedMin(n), SignedMax(n)), n)

\* The two operands side by side, shifted; the high or the low half is kept.
Funnel(op, n, x, y, z) ==
  LET joined == x * 2^n + y
  IN  IF op = "fshl" THEN Low((joined * 2^(z % n)) \div 2^n, n)
      ELSE Low(joined \div 2^(z % n), n)
================================================================================
