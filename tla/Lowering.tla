-------------------------------- MODULE Lowering --------------------------------
(***************************************************************************)
(* The lowering of LLVM's scalar instructions (legalize.py) to moves,      *)
(* subtractions, branches and helper calls, run by either engine (vm.py,   *)
(* p3vm.c) with the helpers of runtime.py, next to what LLVM means by them.*)
(*                                                                         *)
(* Two values are live; every instruction makes a new one in the place of  *)
(* one of them.  A value has its LLVM type and value, and what the machine *)
(* holds for it: a frame slot, which is a whole word whatever the type, or *)
(* bytes of memory.                                                        *)
(***************************************************************************)
EXTENDS Services, LlvmSemantics, Sequences

CONSTANTS
  Places,   \* the live values
  Widths,   \* widths of the integer types; those above WordBits are wide
  Forms     \* of OddForms: what else the program contains

OddForms == {"trunc to i1", "signed compare of i1", "negative case of an odd switch", "counts of poison"}

ASSUME LoweringAssumption ==
  /\ {1, ByteBits, WordBits} \subseteq Widths /\ Widths \subseteq Nat \ {0}
  /\ Forms \subseteq OddForms

VARIABLES
  live,     \* the live values
  agree,    \* every branch taken so far went where LLVM goes
  trapped   \* a service has raised VMError

vars == <<live, agree, trapped>>

Scalars == {n \in Widths : n <= WordBits}
Engines == {"vm", "p3vm"}

Slot(n, v, word) == [kind |-> "slot", n |-> n, val |-> v, raw |-> word]
Stored(n, v, bytes) == [kind |-> "stored", n |-> n, val |-> v, raw |-> bytes]
\* {iN, i1}
Pair(n, v, f, blob) == [kind |-> "pair", n |-> n, val |-> <<v, f>>, raw |-> blob]

\* An integer is a negative number in the text of a module when its top bit is set;
\* the immediate is that number modulo the word.
Immediates(n) == IF n = 1 THEN {0, 1} ELSE {-1, 0 - 2^(n - 1)}
ImmWord(n, i) == IF n > WordBits THEN wide_const(n, i) ELSE Low(i, WordBits)
Constants(n) == {Slot(n, Low(i, n), ImmWord(n, i)) : i \in Immediates(n)}
Registers(n) == {r \in {live[p] : p \in Places} : r.kind = "slot" /\ r.n = n}
Operands(n) == Registers(n) \cup Constants(n)

\* The operands of an instruction that computes: LLVM makes poison of poison,
\* so what the slot then holds is of no account.
Computed(n) == {r \in Registers(n) : r.val # Poison}
Second(n) == Computed(n) \cup Constants(n)

\* An immediate in an argument list stays a bare word, which for a wide integer is
\* no block of bytes: what is passed as an argument is then a register.
Passed(n) == IF n > WordBits THEN Registers(n) ELSE Operands(n)

\* An error of a service ends the machine.
Define(p, value) ==
  /\ ~trapped
  /\ \/ value.raw = Trapped /\ trapped' = TRUE /\ UNCHANGED <<live, agree>>
     \/ value.raw # Trapped /\ live' = [live EXCEPT ![p] = value] /\ UNCHANGED <<agree, trapped>>
-----------------------------------------------------------------------------
(***************************************************************************)
(* The three operations, on each engine.                                   *)
(***************************************************************************)
Width(n) == IF n = 1 THEN ByteBits ELSE n
StorageWidth(n) == IF n <= ByteBits THEN ByteBits ELSE WordBits

\* p3vm.c flips the sign bit and subtracts it.
Sext64(v, n) == Low(v + 2^(n - 1), n) - 2^(n - 1)
SignExtended(engine, v, n) == IF engine = "vm" THEN Signed(v, n) ELSE Sext64(v, n)

Mov(width, word) == Low(word, width)
MovExtend(engine, op, m, width, word) ==
  Low(IF op = "sext" THEN SignExtended(engine, Low(word, m), m) ELSE Low(word, m), width)
Sub(width, a, b) == Low(a - b, width)

Taken(engine, cond, width, a, b) ==
  LET x == Low(a, width)
      y == Low(b, width)
  IN  CASE cond = "eq" -> x = y
        [] cond = "ult" -> x < y
        [] cond = "slt" -> SignExtended(engine, x, width) < SignExtended(engine, y, width)
-----------------------------------------------------------------------------
(***************************************************************************)
(* Arithmetic.                                                             *)
(***************************************************************************)
\* a + b is a - (0 - b); the negative of an immediate is taken while compiling.
AddWord(n, p, q) ==
  IF n \in {ByteBits, WordBits} THEN Sub(n, p.raw, Sub(n, 0, q.raw)) ELSE add(n, p.raw, q.raw)

Add(d) == \E n \in Widths : \E p \in Computed(n), q \in Second(n) :
  Define(d, Slot(n, Arithmetic("add", n, p.val, q.val), AddWord(n, p, q)))

Subtract(d) == \E n \in {ByteBits, WordBits} : \E p \in Computed(n), q \in Second(n) :
  Define(d, Slot(n, Arithmetic("sub", n, p.val, q.val), Sub(n, p.raw, q.raw)))

HelperOps == {"and", "or", "xor", "shl", "lshr", "ashr", "mul", "udiv", "sdiv", "urem", "srem"}

HelperOperation(d) == \E n \in Widths, op \in HelperOps : \E p \in Computed(n), q \in Second(n) :
  /\ ~Undefined(op, n, p.val, q.val)
  /\ Define(d, Slot(n, Arithmetic(op, n, p.val, q.val), binary(op, n, p.raw, q.raw)))

\* Widths of the moves, and i1, are moves; the rest goes to a helper.  Casts of
\* constants are folded in a module, so is freeze.
CastWord(engine, op, m, n, word) ==
  IF {m, n} \subseteq {1, ByteBits, WordBits} THEN MovExtend(engine, op, m, Width(n), word)
  ELSE cast(op, m, n, word)

Convert(d, engine) == \E op \in {"zext", "sext", "trunc"}, m, n \in Widths :
  /\ IF op = "trunc" THEN n < m ELSE m < n
  /\ op = "trunc" /\ n = 1 => "trunc to i1" \in Forms
  /\ \E p \in Computed(m) : Define(d, Slot(n, Cast(op, m, n, p.val), CastWord(engine, op, m, n, p.raw)))

Choose(d) == \E n \in Widths : \E c \in Computed(1), p \in Registers(n), q \in Operands(n) :
  \/ Define(d, Slot(n, IF c.val = 1 THEN p.val ELSE q.val, select(c.raw, p.raw, q.raw)))
  \/ Define(d, Slot(n, IF c.val = 1 THEN q.val ELSE p.val, select(c.raw, q.raw, p.raw)))

\* The lowering's choice of a value for poison is whatever the slot holds.
Fix(d) == \E n \in Widths : \E p \in Registers(n) :
  LET word == IF n \in {1, ByteBits, WordBits} THEN Mov(StorageWidth(n), p.raw) ELSE freeze(n, p.raw)
  IN  Define(d, Slot(n, IF p.val = Poison THEN Low(word, n) ELSE p.val, word))

\* The copy of a PHI, and the casts that keep the bits.
Copy(d) == \E n \in Scalars : \E p \in Operands(n) :
  Define(d, Slot(n, p.val, Mov(StorageWidth(n), p.raw)))

\* An argument or a result crosses a call as a word.
Argument(d) == \E n \in Widths : \E p \in Passed(n) : Define(d, p)

\* A constant part first, then each index: negate and subtract, or a helper.
GepWord(base, offset, index, scale) ==
  LET start == IF offset = 0 THEN base ELSE Sub(WordBits, base, Low(-offset, WordBits))
  IN  IF scale = 1 THEN Sub(WordBits, start, Sub(WordBits, 0, index)) ELSE ptr_add(scale, start, index)

Gep(d) == \E offset \in {0, 1, -2}, scale \in {1, 3} : \E p \in Computed(WordBits), i \in Second(WordBits) :
  Define(d, Slot(WordBits, Low(p.val + offset + i.val * scale, WordBits), GepWord(p.raw, offset, i.raw, scale)))
-----------------------------------------------------------------------------
(***************************************************************************)
(* Comparisons and branches.                                               *)
(***************************************************************************)
Predicates == {"eq", "ne", "ult", "ule", "ugt", "uge", "slt", "sle", "sgt", "sge"}

Materialise(d) == \E n \in Widths, pred \in Predicates : \E p \in Computed(n), q \in Second(n) :
  Define(d, Slot(1, IF Compare(pred, n, p.val, q.val) THEN 1 ELSE 0, compare(pred, n, p.raw, q.raw)))

\* One of three conditions, its operands and its targets in either order.
BasisUnswapped(engine, pred, width, a, b) ==                              \* mutant
  CASE pred \in {"eq", "ne"} -> Taken(engine, "eq", width, a, b) = (pred = "eq")
    [] pred \in {"ult", "uge", "ugt", "ule"} ->
         Taken(engine, "ult", width, a, b) = (pred \in {"ult", "ule"})
    [] pred \in {"slt", "sge", "sgt", "sle"} ->
         Taken(engine, "slt", width, a, b) = (pred \in {"slt", "sle"})
Basis(engine, pred, width, a, b) ==
  CASE pred = "eq" -> Taken(engine, "eq", width, a, b)
    [] pred = "ne" -> ~Taken(engine, "eq", width, a, b)
    [] pred = "slt" -> Taken(engine, "slt", width, a, b)
    [] pred = "sgt" -> Taken(engine, "slt", width, b, a)
    [] pred = "sle" -> ~Taken(engine, "slt", width, b, a)
    [] pred = "sge" -> ~Taken(engine, "slt", width, a, b)
    [] pred = "ult" -> Taken(engine, "ult", width, a, b)
    [] pred = "ugt" -> Taken(engine, "ult", width, b, a)
    [] pred = "ule" -> ~Taken(engine, "ult", width, b, a)
    [] pred = "uge" -> ~Taken(engine, "ult", width, a, b)

\* br i1: zero goes to the false target.
BranchWord(engine, word) == ~Taken(engine, "eq", ByteBits, word, 0)

Went(machine, llvm) == ~trapped /\ agree' = (agree /\ machine = llvm) /\ UNCHANGED <<live, trapped>>

Branch(engine) == \E c \in Computed(1) : Went(BranchWord(engine, c.raw), c.val = 1)

\* A compare whose only use is the branch keeps the width of its operands.
CompareAndBranch(engine) == \E n \in Widths, pred \in Predicates : \E p \in Computed(n), q \in Second(n) :
  /\ n = 1 /\ pred \in {"slt", "sle", "sgt", "sge"} => "signed compare of i1" \in Forms
  /\ Went(IF n \in {1, ByteBits, WordBits} THEN Basis(engine, pred, Width(n), p.raw, q.raw)
          ELSE BranchWord(engine, compare(pred, n, p.raw, q.raw)),
          Compare(pred, n, p.val, q.val))

\* The cases are tried in turn, the default is last.
SwitchTarget(engine, width, word, cases) ==
  LET hits == {i \in DOMAIN cases : Taken(engine, "eq", width, word, Low(cases[i], WordBits))}
  IN  IF hits = {} THEN 0 ELSE Min(hits)
Switch(engine) == \E n \in Scalars \ {1} : \E p \in Computed(n), i, j \in Immediates(n) \cup {1} :
  LET hits == {k \in {1, 2} : Low(<<i, j>>[k], n) = p.val}
  IN  /\ i # j
      /\ ~Native(n) /\ Min({i, j}) < 0 => "negative case of an odd switch" \in Forms
      /\ Went(SwitchTarget(engine, StorageWidth(n), p.raw, <<i, j>>), IF hits = {} THEN 0 ELSE Min(hits))
-----------------------------------------------------------------------------
(***************************************************************************)
(* Memory and aggregates.                                                  *)
(***************************************************************************)
Store(d) ==
  /\ live[d].kind = "slot"
  /\ LET n == live[d].n
         bytes == IF n \in {1, ByteBits, WordBits} THEN Mov(StorageWidth(n), live[d].raw)
                  ELSE integer_store(n, live[d].raw)
     IN  Define(d, Stored(n, live[d].val, bytes))

Load(d) ==
  /\ live[d].kind = "stored"
  /\ LET n == live[d].n
         word == IF n \in {1, ByteBits, WordBits} THEN Mov(StorageWidth(n), live[d].raw)
                 ELSE integer_load(n, live[d].raw)
     IN  Define(d, Slot(n, live[d].val, word))

WithOverflow(d) == \E n \in Widths \ {1}, signed \in BOOLEAN, op \in {"add", "sub", "mul"} :
  \E p \in Computed(n), q \in Second(n) \cap Passed(n) :
    LET v == Exact(signed, op, n, p.val, q.val)
    IN  Define(d, Pair(n, Low(v, n), IF Fits(signed, n, v) THEN 0 ELSE 1,
                       with_overflow(signed, op, n, p.raw, q.raw)))

\* The layout of {iN, i1}: where a field is, how many bytes it has.
FieldOffset(n, i) == IF i = 1 THEN 0 ELSE Bytes(n)
FieldBits(n, i) == IF i = 1 THEN n ELSE 1

Extract(d) == \E p \in Places, i \in {1, 2} :
  /\ live[p].kind = "pair"
  /\ LET n == live[p].n
     IN  Define(d, Slot(FieldBits(n, i), live[p].val[i],
                        extractvalue(live[p].raw, FieldOffset(n, i), Bytes(FieldBits(n, i)))))

Insert(d) == \E p \in Places, i \in {1, 2} :
  /\ live[p].kind = "pair"
  /\ LET n == live[p].n
         m == FieldBits(n, i)
     IN  \E q \in Passed(m) :
           Define(d, [live[p] EXCEPT !.val[i] = q.val,
                                     !.raw = insertvalue(@, Bytes(n) + 1, FieldOffset(n, i), q.raw, Bytes(m))])
-----------------------------------------------------------------------------
(***************************************************************************)
(* Intrinsics.                                                             *)
(***************************************************************************)
BitIntrinsic(d) == \E op \in {"bswap", "bitreverse", "cttz", "ctlz", "ctpop", "abs"}, n \in Scalars, flag \in BOOLEAN :
  /\ op = "bswap" => n = WordBits
  /\ op # "bitreverse" => Native(n)
  /\ flag => op \in {"cttz", "ctlz", "abs"} /\ "counts of poison" \in Forms
  /\ \E p \in Computed(n) :
       Define(d, Slot(n, Intrinsic(op, n, p.val, flag),
         CASE op = "bswap" -> bswap(n, p.raw)
           [] op = "bitreverse" -> bitreverse(n, p.raw)
           [] op = "abs" -> llvm_abs(n, p.raw, flag)
           [] OTHER -> bitcount(op, n, p.raw, flag)))

MinMaxOps == {"umin", "umax", "smin", "smax"}
SaturatingOps == {"uadd_sat", "usub_sat", "sadd_sat", "ssub_sat"}

PairIntrinsic(d) == \E op \in MinMaxOps \cup SaturatingOps, n \in {ByteBits, WordBits} : \E p \in Computed(n), q \in Second(n) :
  Define(d, Slot(n, Intrinsic2(op, n, p.val, q.val),
                 IF op \in MinMaxOps THEN minmax(op, n, p.raw, q.raw) ELSE saturating(op, n, p.raw, q.raw)))

FunnelShift(d) == \E op \in {"fshl", "fshr"}, n \in {ByteBits, WordBits} : \E p \in Computed(n), q, z \in Second(n) :
  Define(d, Slot(n, Funnel(op, n, p.val, q.val, z.val), funnel(op, n, p.raw, q.raw, z.raw)))
-----------------------------------------------------------------------------
Init ==
  /\ live \in [Places -> {Slot(n, v, v) : n \in {ByteBits, WordBits}, v \in {1}}]
  /\ agree = TRUE
  /\ trapped = FALSE

Next ==
  \/ \E d \in Places :
       \/ Add(d) \/ Subtract(d) \/ HelperOperation(d) \/ Choose(d) \/ Fix(d) \/ Copy(d) \/ Argument(d)
       \/ Gep(d) \/ Materialise(d) \/ Store(d) \/ Load(d) \/ WithOverflow(d) \/ Extract(d) \/ Insert(d)
       \/ BitIntrinsic(d) \/ PairIntrinsic(d) \/ FunnelShift(d)
       \/ \E engine \in Engines : Convert(d, engine)
  \/ \E engine \in Engines : Branch(engine) \/ CompareAndBranch(engine) \/ Switch(engine)

Spec == Init /\ [][Next]_vars
-----------------------------------------------------------------------------
Refines(n, v, word) == v = Poison \/ Low(word, n) = v

\* What a slot or memory holds for a value is the value LLVM gives it, whatever
\* was stored, loaded, converted, passed, put into an aggregate or taken out of it
\* before, and unless the value is poison.
SlotsRefine == \A p \in Places :
  LET r == live[p]
  IN  IF r.kind = "pair"
      THEN \A i \in {1, 2} : Refines(FieldBits(r.n, i), r.val[i],
             extractvalue(r.raw, FieldOffset(r.n, i), Bytes(FieldBits(r.n, i))))
      ELSE Refines(r.n, r.val, r.raw)

\* Materialized i1 values are represented as 0/1 bytes (legalize.py:127).
BooleansMaterialised == \A p \in Places :
  live[p].kind = "slot" /\ live[p].n = 1 /\ live[p].val # Poison =>
    Low(live[p].raw, ByteBits) = live[p].val

\* Every branch and switch on a value that is not poison goes where LLVM goes, on
\* both engines.
SameControl == agree
================================================================================
