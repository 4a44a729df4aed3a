--------------------------------- MODULE Words ---------------------------------
(***************************************************************************)
(* Machine words.  The machine has 64-bit words, 8-bit bytes and moves of  *)
(* 8, 16, 32 and 64 bits; here a word has WordBits bits and a byte         *)
(* ByteBits, so that every value of every width can be tried.              *)
(***************************************************************************)
EXTENDS Integers, FiniteSets, FiniteSetsExt

CONSTANTS ByteBits, WordBits

ASSUME WordsAssumption ==
  /\ ByteBits \in Nat \ {0, 1}
  /\ WordBits \in Nat \ {0} /\ WordBits % ByteBits = 0

Low(v, bits) == v % 2^bits
Signed(v, bits) == IF Low(v, bits) >= 2^(bits - 1) THEN Low(v, bits) - 2^bits ELSE Low(v, bits)

\* A word as the set of the places of its ones.
Ones(v, bits) == {i \in 0..bits - 1 : (v \div 2^i) % 2 = 1}
FromOnes(S) == MapThenSumSet(LAMBDA i : 2^i, S)

Bytes(bits) == (bits + ByteBits - 1) \div ByteBits
ByteOf(v, i) == (v \div 2^(ByteBits * i)) % 2^ByteBits
FromBytes(f, n) == MapThenSumSet(LAMBDA i : f[i] * 2^(ByteBits * i), 0..n - 1)

\* Widths the machine has instructions for.
Native(bits) == bits \in {ByteBits, WordBits}
================================================================================
