---------------------------- MODULE Stdio_proofs ----------------------------
(***************************************************************************)
(* The streams for any bytes, any data, any buffers and any behaviour of   *)
(* the kernel: what fwrite reports is what has been taken (Taking), the    *)
(* line of a getline ends in a NUL, and every call that reads does what C  *)
(* says (StdioInv).  A getline makes one system call per byte, so the      *)
(* invariant ties its buffer and the descriptor's place to the stream as   *)
(* it was when the call was made (LineOK).                                 *)
(***************************************************************************)
EXTENDS Stdio, SequenceTheorems, FiniteSetTheorems, WellFoundedInduction, TLAPS

\* What the calls other than fwrite are.
Others == {"fopen", "fclose", "getc", "fread", "ungetc", "fseeko", "ftello", "clearerr",
           "fputs", "putc", "printf", "getline"}

\* The kernel has taken a prefix of the data: while the call is in progress it
\* is what `done` counts, afterwards it is what fwrite has counted.
Taking ==
  call.op = "fwrite" =>
    /\ call.data \in Seq(Bytes) /\ call.size \in {1, 2}
    /\ Len(sent.bytes) \in 0..Len(call.data)
    /\ sent.bytes = SubSeq(call.data, 1, Len(sent.bytes))
    /\ ~Idle => done = Len(sent.bytes)
    /\ Idle => /\ answer.value = Len(sent.bytes) \div call.size
               /\ Len(sent.bytes) < Len(call.data) => sent.last <= 0

\* The larger of a number and 0.
LEMMA MaxZero == ASSUME NEW n \in Int PROVE Max({n, 0}) = IF n > 0 THEN n ELSE 0
<1> DEFINE m == IF n > 0 THEN n ELSE 0
<1>1. m \in {n, 0} /\ \A y \in {n, 0} : m >= y
  OBVIOUS
<1>2. Max({n, 0}) \in {n, 0} /\ \A y \in {n, 0} : Max({n, 0}) >= y
  BY <1>1 DEF Max
<1> QED
  BY <1>1, <1>2

\* What one write of an fwrite leaves: the kernel takes the next bytes.
LEMMA OneWrite ==
  ASSUME NEW data \in Seq(Bytes), NEW d \in 0..Len(data), NEW m \in 0..(Len(data) - d)
  PROVE  /\ SubSeq(data, 1, d) \o SubSeq(SubSeq(data, d + 1, Len(data)), 1, m)
              = SubSeq(data, 1, d + m)
         /\ Len(SubSeq(data, 1, d + m)) = d + m
         /\ Len(SubSeq(data, d + 1, Len(data))) = Len(data) - d
<1>0. Len(data) \in Nat
  BY LenProperties
<1>1. Len(SubSeq(data, 1, d + m)) = d + m
  BY <1>0, SubSeqProperties
<1>2. Len(SubSeq(data, d + 1, Len(data))) = Len(data) - d
  BY <1>0, SubSeqProperties
<1>3. CASE m = 0
  <2>1. SubSeq(SubSeq(data, d + 1, Len(data)), 1, m) = << >>
    BY <1>3, SubSeqEmpty
  <2>2. SubSeq(data, 1, d) \in Seq(Bytes)
    BY <1>0, SubSeqProperties
  <2> QED
    BY <1>0, <1>1, <1>2, <1>3, <2>1, <2>2, ConcatEmptySeq
<1>4. CASE m > 0
  <2>1. SubSeq(SubSeq(data, d + 1, Len(data)), 1, m) = SubSeq(data, d + 1, d + m)
    BY <1>0, <1>4, SubSeqOfSubSeq
  <2>2. SubSeq(data, 1, d) \o SubSeq(data, d + 1, d + m) = SubSeq(data, 1, d + m)
    BY <1>0, <1>4, ConcatAdjacentSubSeq
  <2> QED
    BY <1>1, <1>2, <2>1, <2>2
<1> QED
  BY <1>0, <1>3, <1>4

\* A step that neither belongs to an fwrite nor begins one is about another call.
LEMMA OtherCalls ==
  ASSUME Taking, [Next]_vars, ~FwriteStep, \A h \in Handles : ~Fwrite(h)
  PROVE  Taking'
<1>1. ASSUME NEW h \in Handles,
             \/ Fopen(h) \/ Fclose(h) \/ Getc(h) \/ Fread(h) \/ Ungetc(h) \/ Fseeko(h)
             \/ Ftello(h) \/ Clearerr(h) \/ Getline(h) \/ Fputs(h)
      PROVE  call'.op \in Others
  <2>1. Fopen(h) => call'.op = "fopen"
    BY DEF Fopen, Calls
  <2>2. Fclose(h) => call'.op = "fclose"
    BY DEF Fclose, Calls
  <2>3. Getc(h) => call'.op = "getc"
    BY DEF Getc, Calls
  <2>4. Fread(h) => call'.op = "fread"
    BY DEF Fread, Calls
  <2>5. Ungetc(h) => call'.op = "ungetc"
    BY DEF Ungetc, Calls
  <2>6. Fseeko(h) => call'.op = "fseeko"
    BY DEF Fseeko, Calls
  <2>7. Ftello(h) => call'.op = "ftello"
    BY DEF Ftello, Calls
  <2>8. Clearerr(h) => call'.op = "clearerr"
    BY DEF Clearerr, Calls
  <2>9. Getline(h) => call'.op = "getline"
    BY DEF Getline, Calls
  <2>10. Fputs(h) => call'.op \in {"fputs", "putc", "printf"}
    BY DEF Fputs, Calls
  <2> QED
    BY <1>1, <2>1, <2>2, <2>3, <2>4, <2>5, <2>6, <2>7, <2>8, <2>9, <2>10 DEF Others
<1>2. ASSUME GetlineByte PROVE call'.op # "fwrite"
  BY <1>2 DEF GetlineByte
<1>3. ASSUME UNCHANGED <<call, sent, done, answer>> PROVE Taking'
  BY <1>3 DEF Taking, Idle
<1>4. ASSUME NEW byte \in Bytes, Appends(byte) PROVE Taking'
  BY <1>3, <1>4 DEF Appends
<1>5. CASE UNCHANGED vars
  BY <1>3, <1>5 DEF vars
<1>6. ASSUME call'.op \in Others PROVE Taking'
  <2>1. call'.op # "fwrite"
    BY <1>6 DEF Others
  <2> QED
    BY <2>1 DEF Taking
<1>7. ASSUME call'.op # "fwrite" PROVE Taking'
  BY <1>7 DEF Taking
<1>8. CASE Next
  <2>1. \/ \E h \in Handles :
             \/ Fopen(h) \/ Fclose(h) \/ Getc(h) \/ Fread(h) \/ Ungetc(h) \/ Fseeko(h)
             \/ Ftello(h) \/ Clearerr(h) \/ Getline(h) \/ Fputs(h)
        \/ GetlineByte
        \/ \E byte \in Bytes : Appends(byte)
    BY <1>8 DEF Next
  <2> QED
    BY <2>1, <1>1, <1>2, <1>4, <1>6, <1>7
<1> QED
  BY <1>5, <1>8

\* Each write of an fwrite takes the next bytes, and the last one ends it.
LEMMA FwriteStepTakes == ASSUME Taking, FwriteStep PROVE Taking'
<1>1. /\ ~Idle /\ call.op = "fwrite" /\ call' = call
      /\ call.data \in Seq(Bytes) /\ call.size \in {1, 2}
      /\ done \in 0..Len(call.data) /\ Len(sent.bytes) = done
      /\ sent.bytes = SubSeq(call.data, 1, done)
  BY DEF FwriteStep, Taking
<1>2. PICK n \in Taken(Len(Unwritten)) :
        /\ sent' = [bytes |-> sent.bytes \o SubSeq(Unwritten, 1, Max({n, 0})), last |-> n]
        /\ IF n <= 0 \/ done + n = Len(call.data) THEN FwriteEnds(done + Max({n, 0}))
           ELSE done' = done + n /\ UNCHANGED answer
  BY DEF FwriteStep
<1> DEFINE m == IF n > 0 THEN n ELSE 0
<1>3. Len(call.data) \in Nat /\ Len(Unwritten) = Len(call.data) - done
  BY <1>1, LenProperties, SubSeqProperties DEF Unwritten
<1>4. n \in Int /\ m \in 0..(Len(call.data) - done) /\ Max({n, 0}) = m
  BY <1>1, <1>2, <1>3, MaxZero DEF Taken
<1>5. /\ sent'.bytes = SubSeq(call.data, 1, done + m) /\ sent'.last = n
      /\ Len(sent'.bytes) = done + m
  <2>1. /\ sent'.bytes = sent.bytes \o SubSeq(Unwritten, 1, m)
        /\ sent'.last = n
    BY <1>2, <1>4
  <2>2. /\ SubSeq(call.data, 1, done) \o SubSeq(SubSeq(call.data, done + 1, Len(call.data)), 1, m)
             = SubSeq(call.data, 1, done + m)
        /\ Len(SubSeq(call.data, 1, done + m)) = done + m
    BY <1>1, <1>4, OneWrite
  <2> QED
    BY <1>1, <2>1, <2>2 DEF Unwritten
<1>6. CASE n <= 0 \/ done + n = Len(call.data)
  <2>1. done' = None /\ answer'.value = (done + m) \div call.size
    BY <1>2, <1>4, <1>6 DEF FwriteEnds
  <2>2. done + m < Len(call.data) => n <= 0
    BY <1>1, <1>3, <1>4, <1>6
  <2> QED
    BY <1>1, <1>3, <1>4, <1>5, <2>1, <2>2 DEF Taking, Idle
<1>7. CASE ~(n <= 0 \/ done + n = Len(call.data))
  <2>1. done' = done + m /\ done' \in Nat
    BY <1>1, <1>2, <1>3, <1>4, <1>7
  <2>2. ~Idle'
    BY <2>1, StdioAssumption DEF Idle
  <2> QED
    BY <1>1, <1>3, <1>4, <1>5, <2>1, <2>2 DEF Taking
<1> QED
  BY <1>6, <1>7

\* An fwrite begins with nothing taken.
LEMMA FwriteBegins == ASSUME NEW h \in Handles, Fwrite(h) PROVE Taking'
<1>1. PICK data \in Data, size \in 1..2 :
        /\ call' = [op |-> "fwrite", stream |-> h, data |-> data, size |-> size]
        /\ done' = 0 /\ sent' = [bytes |-> << >>, last |-> 0]
  BY DEF Fwrite, Calls, Nothing
<1>2. data \in Seq(Bytes) /\ Len(data) \in Nat
  BY StdioAssumption, LenProperties
<1>3. ~Idle'
  BY <1>1, StdioAssumption DEF Idle
<1>4. Len(<< >>) = 0 /\ << >> = SubSeq(data, 1, 0)
  BY <1>2, SubSeqEmpty, EmptySeq
<1> QED
  BY <1>1, <1>2, <1>3, <1>4 DEF Taking

\* Whatever part of it the kernel takes at a time, an fwrite that ends has had
\* its data taken in order, each byte once, and counts the items so taken; it
\* counts fewer only after an error or an empty write: for any data.
THEOREM FwriteTruthfulHolds == Spec => []FwriteTruthful
<1>1. Init => Taking
  BY DEF Init, Taking
<1>2. Taking /\ [Next]_vars => Taking'
  BY OtherCalls, FwriteStepTakes, FwriteBegins
<1>3. Taking => FwriteTruthful
  BY LenProperties DEF Taking, FwriteTruthful, IsPrefix, Idle
<1> QED
  BY <1>1, <1>2, <1>3, PTL DEF Spec
-----------------------------------------------------------------------------
(* Numbers: induction as a fact about sets, and what doubling reaches.     *)

\* A set of numbers that has 0 and the successor of each of its elements has all.
LEMMA NatSets ==
  ASSUME NEW T, 0 \in T, \A n \in Nat : n \in T => n + 1 \in T
  PROVE  Nat \subseteq T
<1> SUFFICES ASSUME Nat \ T # {} PROVE FALSE
  OBVIOUS
<1>1. PICK x \in Nat \ T : \A y \in Nat \ T : ~ (<<y, x>> \in OpToRel(<, Nat))
  <2>1. Nat \ T \subseteq Nat
    OBVIOUS
  <2>2. IsWellFoundedOn(OpToRel(<, Nat), Nat)
    BY NatLessThanWellFounded
  <2> HIDE DEF OpToRel
  <2> QED BY <2>1, <2>2, WFMin, Zenon
<1>2. \A y \in Nat \ T : ~ (y < x)
  BY <1>1 DEF OpToRel
<1>3. x # 0 /\ x - 1 \in Nat /\ x - 1 < x
  OBVIOUS
<1>4. x - 1 \in T
  BY <1>2, <1>3
<1>5. (x - 1) + 1 \in T
  BY <1>3, <1>4
<1> QED BY <1>5

\* Recursion on numbers defines a function.
LEMMA NatRecursion ==
  ASSUME NEW S, NEW a \in S, NEW step \in [S -> S]
  PROVE  \E f \in [Nat -> S] : f[0] = a /\ \A n \in Nat \ {0} : f[n] = step[f[n - 1]]
<1> DEFINE Approx(g, n) == g \in [0..n -> S] /\ g[0] = a /\ \A i \in 1..n : g[i] = step[g[i - 1]]
           Reached == {n \in Nat : \E g : Approx(g, n)}
           Agreed == {i \in Nat : \A n, m \in Nat : i <= n /\ i <= m =>
                                    \A g, h : Approx(g, n) /\ Approx(h, m) => g[i] = h[i]}
<1>1. Nat \subseteq Reached
  <2>1. 0 \in Reached
    <3>1. Approx([i \in 0..0 |-> a], 0)
      OBVIOUS
    <3> QED BY <3>1
  <2>2. ASSUME NEW n \in Nat, n \in Reached PROVE n + 1 \in Reached
    <3>1. PICK g : Approx(g, n)
      BY <2>2
    <3> DEFINE h == [i \in 0..(n + 1) |-> IF i = n + 1 THEN step[g[n]] ELSE g[i]]
    <3>2. h \in [0..(n + 1) -> S] /\ h[0] = a
      BY <3>1
    <3>3. ASSUME NEW i \in 1..(n + 1) PROVE h[i] = step[h[i - 1]]
      <4>1. CASE i = n + 1
        BY <4>1
      <4>2. CASE i # n + 1
        <5>1. i \in 1..n /\ h[i] = g[i] /\ h[i - 1] = g[i - 1]
          BY <4>2
        <5> QED BY <3>1, <5>1
      <4> QED BY <4>1, <4>2
    <3>4. Approx(h, n + 1)
      BY <3>2, <3>3
    <3> QED BY <3>4
  <2> HIDE DEF Reached
  <2> QED BY <2>1, <2>2, NatSets
<1>2. Nat \subseteq Agreed
  <2>1. 0 \in Agreed
    <3> SUFFICES ASSUME NEW n \in Nat, NEW m \in Nat, NEW g, NEW h, Approx(g, n), Approx(h, m)
                 PROVE  g[0] = h[0]
      BY Zenon
    <3> QED OBVIOUS
  <2>2. ASSUME NEW i \in Nat, i \in Agreed PROVE i + 1 \in Agreed
    <3> SUFFICES ASSUME NEW n \in Nat, NEW m \in Nat, i + 1 <= n, i + 1 <= m, NEW g, NEW h,
                        Approx(g, n), Approx(h, m)
                 PROVE  g[i + 1] = h[i + 1]
      <4>1. i + 1 \in Nat
        OBVIOUS
      <4> HIDE DEF Approx
      <4> QED BY <4>1, Zenon
    <3>1. g[i] = h[i]
      <4>1. i <= n /\ i <= m
        OBVIOUS
      <4> HIDE DEF Approx
      <4> QED BY <2>2, <4>1
    <3>2. i + 1 \in 1..n /\ i + 1 \in 1..m /\ (i + 1) - 1 = i
      OBVIOUS
    <3>3. g[i + 1] = step[g[(i + 1) - 1]] /\ h[i + 1] = step[h[(i + 1) - 1]]
      BY <3>2
    <3> QED BY <3>1, <3>2, <3>3
  <2> HIDE DEF Agreed
  <2> QED BY <2>1, <2>2, NatSets
<1> DEFINE G(n) == CHOOSE g : Approx(g, n)
           f == [n \in Nat |-> G(n)[n]]
<1>3. \A n \in Nat : Approx(G(n), n)
  <2>1. \A n \in Nat : \E g : Approx(g, n)
    BY <1>1
  <2> HIDE DEF Approx
  <2> QED BY <2>1
<1>4. f \in [Nat -> S]
  <2> HIDE DEF G
  <2>1. ASSUME NEW n \in Nat PROVE G(n)[n] \in S
    <3>1. G(n) \in [0..n -> S]
      BY <1>3
    <3> QED BY <3>1
  <2> QED BY <2>1
<1>5. f[0] = a
  <2> HIDE DEF G
  <2> QED BY <1>3
<1>6. ASSUME NEW n \in Nat, n # 0 PROVE f[n] = step[f[n - 1]]
  <2> HIDE DEF G
  <2>1. n - 1 \in Nat /\ n \in 1..n /\ n - 1 <= n
    BY <1>6
  <2>2. Approx(G(n), n) /\ Approx(G(n - 1), n - 1)
    BY <1>3, <2>1
  <2>3. G(n)[n] = step[G(n)[n - 1]]
    BY <2>1, <2>2
  <2>4. n - 1 \in Agreed
    BY <1>2, <2>1
  <2>5. G(n)[n - 1] = G(n - 1)[n - 1]
    BY <2>1, <2>2, <2>4
  <2> QED BY <2>1, <2>3, <2>5
<1> HIDE DEF f
<1> QED BY <1>4, <1>5, <1>6

\* A set of numbers has a least element.
LEMMA LeastNumber ==
  ASSUME NEW T, T \subseteq Nat, T # {}
  PROVE  Min(T) \in T /\ \A y \in T : Min(T) <= y
<1>1. PICK x \in T : \A y \in T : ~ (<<y, x>> \in OpToRel(<, Nat))
  <2>1. IsWellFoundedOn(OpToRel(<, Nat), Nat)
    BY NatLessThanWellFounded
  <2> HIDE DEF OpToRel
  <2> QED BY <2>1, WFMin, Zenon
<1>2. \A y \in T : ~ (y < x)
  BY <1>1 DEF OpToRel
<1>3. \A y \in T : x <= y
  BY <1>2
<1> QED BY <1>3 DEF Min

\* The smaller and the larger of two numbers.
LEMMA SmallerOf == \A x, y \in Int : Min({x, y}) = IF x <= y THEN x ELSE y
<1> SUFFICES ASSUME NEW x \in Int, NEW y \in Int PROVE Min({x, y}) = IF x <= y THEN x ELSE y
  OBVIOUS
<1> DEFINE m == IF x <= y THEN x ELSE y
<1>1. m \in {x, y} /\ \A z \in {x, y} : m <= z
  OBVIOUS
<1>2. Min({x, y}) \in {x, y} /\ \A z \in {x, y} : Min({x, y}) <= z
  BY <1>1 DEF Min
<1> QED BY <1>1, <1>2

\* The larger of two numbers.
LEMMA LargerOf == \A x, y \in Int : Max({x, y}) = IF x >= y THEN x ELSE y
<1> SUFFICES ASSUME NEW x \in Int, NEW y \in Int PROVE Max({x, y}) = IF x >= y THEN x ELSE y
  OBVIOUS
<1> DEFINE m == IF x >= y THEN x ELSE y
<1>1. m \in {x, y} /\ \A z \in {x, y} : m >= z
  OBVIOUS
<1>2. Max({x, y}) \in {x, y} /\ \A z \in {x, y} : Max({x, y}) >= z
  BY <1>1 DEF Max
<1> QED BY <1>1, <1>2

\* Doubling often enough passes every number.
LEMMA Powers == /\ PowerOfTwo \in [Nat -> Nat] /\ PowerOfTwo[0] = 1
                /\ \A n \in Nat : PowerOfTwo[n + 1] = 2 * PowerOfTwo[n] /\ PowerOfTwo[n] >= n + 1
<1> DEFINE twice == [x \in Nat |-> 2 * x]
           Rec(f) == f = [i \in Nat |-> IF i = 0 THEN 1 ELSE 2 * f[i - 1]]
<1>0. PICK T : T = Nat
  OBVIOUS
<1>1. PICK f \in [Nat -> T] : f[0] = 1 /\ \A n \in Nat \ {0} : f[n] = twice[f[n - 1]]
  <2>1. twice \in [T -> T] /\ 1 \in T
    BY <1>0
  <2> HIDE DEF twice
  <2> QED BY <2>1, NatRecursion
<1>2. \A i \in Nat : f[i] = IF i = 0 THEN 1 ELSE 2 * f[i - 1]
  <2>1. \A i \in Nat : f[i] \in Nat
    BY <1>0, <1>1
  <2>2. \A x \in Nat : twice[x] = 2 * x
    OBVIOUS
  <2> HIDE DEF twice
  <2>3. \A i \in Nat \ {0} : i - 1 \in Nat /\ f[i] = twice[f[i - 1]]
    BY <1>1
  <2> QED BY <1>1, <2>1, <2>2, <2>3
<1>3. Rec(f)
  <2>1. f = [i \in Nat |-> f[i]]
    OBVIOUS
  <2> QED BY <1>2, <2>1, Zenon
<1>4. Rec(PowerOfTwo)
  <2>1. PowerOfTwo = CHOOSE g : Rec(g)
    BY DEF PowerOfTwo
  <2> HIDE DEF Rec
  <2> QED BY <1>3, <2>1, Zenon
<1> DEFINE Typed == {n \in Nat : PowerOfTwo[n] \in Nat /\ PowerOfTwo[n] >= n + 1}
<1>5. /\ DOMAIN PowerOfTwo = Nat
      /\ \A i \in Nat : PowerOfTwo[i] = IF i = 0 THEN 1 ELSE 2 * PowerOfTwo[i - 1]
  BY <1>4, Zenon
<1>6. \A n \in Nat : PowerOfTwo[n + 1] = 2 * PowerOfTwo[n]
  <2> TAKE n \in Nat
  <2>1. n + 1 \in Nat /\ n + 1 # 0 /\ (n + 1) - 1 = n
    OBVIOUS
  <2> HIDE DEF Rec
  <2>2. PowerOfTwo[n + 1] = 2 * PowerOfTwo[(n + 1) - 1]
    BY <1>5, <2>1
  <2> QED BY <2>1, <2>2
<1>7. Nat \subseteq Typed
  <2>1. 0 \in Typed
    BY <1>5
  <2>2. ASSUME NEW n \in Nat, n \in Typed PROVE n + 1 \in Typed
    BY <1>6, <2>2
  <2> HIDE DEF Typed
  <2> QED BY <2>1, <2>2, NatSets
<1>8. PowerOfTwo \in [Nat -> Nat]
  <2>1. PowerOfTwo = [i \in Nat |-> PowerOfTwo[i]]
    BY <1>4, <1>5
  <2> QED BY <1>7, <2>1
<1> QED BY <1>5, <1>6, <1>7, <1>8

\* The capacity that getline asks for is large enough.
LEMMA DoubledEnough ==
  ASSUME NEW from \in Nat \ {0}, NEW required \in Nat \ {0}
  PROVE  Doubled(from, required) \in Nat /\ Doubled(from, required) >= required
<1> DEFINE T == {from * PowerOfTwo[i] : i \in 0..required} \ 0..(required - 1)
<1>1. ASSUME NEW i \in 0..required PROVE from * PowerOfTwo[i] \in Nat
  <2>1. PowerOfTwo[i] \in Nat
    BY Powers
  <2> QED BY <2>1
<1>2. from * PowerOfTwo[required] >= required
  <2>1. PowerOfTwo[required] \in Nat /\ PowerOfTwo[required] >= required + 1
    BY Powers
  <2>2. \A p \in Nat : from * p >= p
    OBVIOUS
  <2> QED BY <1>1, <2>1, <2>2
<1>3. T \subseteq Nat /\ from * PowerOfTwo[required] \in T /\ \A y \in T : y >= required
  BY <1>1, <1>2
<1> HIDE DEF T
<1>4. Min(T) \in T
  BY <1>3, LeastNumber
<1> QED BY <1>3, <1>4 DEF T, Doubled
-----------------------------------------------------------------------------
(* The streams and the buffer of getline.                                  *)

Stream == [fd : Nat, mode : {"r", "w", "a"}, eof : BOOLEAN, error : BOOLEAN,
           ungetc : Bytes \cup {None}]
View == [at : Int, back : Seq(Bytes), eof : BOOLEAN, error : BOOLEAN]

\* Every stream has a descriptor of its own, and a byte that is pushed back takes
\* the end-of-file mark away.
StreamsOK ==
  /\ file \in Seq(Content)
  /\ DOMAIN offset \subseteq Nat /\ offset \in [DOMAIN offset -> Nat]
  /\ streams \in [DOMAIN streams -> Stream]
  /\ \A h \in DOMAIN streams : /\ streams[h].fd \in DOMAIN offset
                               /\ streams[h].ungetc # None => ~streams[h].eof
  /\ \A g, h \in DOMAIN streams : streams[g].fd = streams[h].fd => g = h

\* What stream `before` had still to deliver when the call was made, as far as the
\* file goes now.
AheadOf(before) ==
  before.back \o SubSeq(file, before.at + Len(before.back) + 1, Len(file))

\* The view C has of a stream whose descriptor is at a place.
ViewAt(s, place) ==
  [at   |-> IF s.ungetc = None THEN place ELSE place - 1,
   back |-> IF s.ungetc = None THEN << >> ELSE <<s.ungetc>>,
   eof  |-> s.eof, error |-> s.error]

\* A getline in progress has the next bytes of the stream in its buffer.
LineOK ==
  (~Idle /\ call.op = "getline") =>
    LET h == call.stream
        s == streams[h]
        before == call.before
    IN /\ call = [op |-> "getline", stream |-> h, before |-> before]
       /\ h \in Readers /\ done \in Nat
       /\ before \in View /\ Len(before.back) \in {0, 1} /\ before.at + Len(before.back) \in Nat
       /\ done = 0 => before = ViewAt(s, offset[s.fd])
       /\ done > 0 =>
            /\ s.ungetc = None /\ s.eof = before.eof /\ s.error = before.error
            /\ offset[s.fd] = before.at + done /\ Len(before.back) <= done
            /\ line.allocated /\ done <= line.capacity
            /\ done <= Len(AheadOf(before))
            /\ \A i \in 1..done : line.text[i] = AheadOf(before)[i] /\ line.text[i] # Newline

\* fwrite has the stream it writes to.
WriterOK == (~Idle /\ call.op = "fwrite") => call.stream \in Writers

\* What holds of the calls in progress, and of the line of the last getline.
Quiet == line \in Buffers /\ LineOK /\ WriterOK /\ LineTerminated

StdioInv == StreamsOK /\ Quiet /\ Taking

\* A buffer that grows keeps what is written and has the room that is asked for.
LEMMA EnsuredBuffer ==
  ASSUME NEW l \in Buffers, NEW required \in Nat \ {0}
  PROVE  /\ Ensured(l, required) \in Buffers /\ Ensured(l, required).allocated
         /\ Ensured(l, required).capacity >= required
         /\ \A i \in 1..(required - 1) :
              l.allocated /\ i <= l.capacity => Ensured(l, required).text[i] = l.text[i]
<1>1. CASE Enough(l, required)
  BY <1>1 DEF Ensured, Enough, Buffers
<1>2. CASE ~Enough(l, required)
  <2> DEFINE from == Max({MinCapacity, l.capacity})
             capacity == Doubled(from, required)
             kept == IF l.allocated THEN Min({l.capacity, required - 1}) ELSE 0
             text == [i \in 1..capacity |-> IF i <= kept THEN l.text[i] ELSE Garbage]
  <2>0. l.capacity \in Nat /\ l.text \in Seq(Content \cup {Garbage})
        /\ (l.allocated => Len(l.text) = l.capacity)
    BY DEF Buffers
  <2>1. from \in Nat \ {0}
    <3>1. \A x, y \in Nat : Max({x, y}) = IF x >= y THEN x ELSE y
      BY LargerOf
    <3> QED BY <2>0, <3>1, StdioAssumption
  <2> HIDE DEF from
  <2>2. capacity \in Nat /\ capacity >= required
    BY <2>1, DoubledEnough
  <2>3. kept \in 0..(required - 1) /\ kept <= Len(l.text)
        /\ \A i \in 1..(required - 1) : l.allocated /\ i <= l.capacity => i <= kept
    <3>1. \A x, y \in Nat : Min({x, y}) = IF x <= y THEN x ELSE y
      BY SmallerOf
    <3>2. required - 1 \in Nat /\ Len(l.text) \in Nat
      BY <2>0
    <3> QED BY <2>0, <3>1, <3>2
  <2> HIDE DEF capacity, kept
  <2>4. Ensured(l, required) = [allocated |-> TRUE, capacity |-> capacity, text |-> text]
    BY <1>2 DEF Ensured, from, capacity, kept
  <2>5. text \in Seq(Content \cup {Garbage}) /\ Len(text) = capacity
    <3>1. ASSUME NEW i \in 1..capacity, i <= kept PROVE l.text[i] \in Content \cup {Garbage}
      BY <2>0, <2>3, <3>1
    <3>2. text \in [1..capacity -> Content \cup {Garbage}]
      BY <3>1
    <3> HIDE DEF text
    <3> QED BY <2>2, <3>2
  <2>6. \A i \in 1..(required - 1) : l.allocated /\ i <= l.capacity => text[i] = l.text[i]
    BY <2>2, <2>3
  <2> HIDE DEF text
  <2>7. /\ Ensured(l, required) \in Buffers
        /\ Ensured(l, required).capacity = capacity /\ Ensured(l, required).text = text
    BY <2>2, <2>4, <2>5 DEF Buffers
  <2>8. Ensured(l, required).allocated
    BY <2>4
  <2> QED BY <2>2, <2>6, <2>7, <2>8
<1> QED BY <1>1, <1>2

\* Storing a byte changes that byte.
LEMMA StoredBuffer ==
  ASSUME NEW l \in Buffers, l.allocated, NEW place \in 1..l.capacity,
         NEW byte \in Content \cup {Garbage}
  PROVE  /\ Stored(l, place, byte) \in Buffers /\ Stored(l, place, byte).allocated
         /\ Stored(l, place, byte).capacity = l.capacity
         /\ \A i \in 1..l.capacity :
              Stored(l, place, byte).text[i] = IF i = place THEN byte ELSE l.text[i]
<1> DEFINE text == [i \in 1..l.capacity |-> IF i = place THEN byte ELSE l.text[i]]
<1>1. l.capacity \in Nat /\ l.text \in Seq(Content \cup {Garbage}) /\ Len(l.text) = l.capacity
  BY DEF Buffers
<1>2. text \in [1..l.capacity -> Content \cup {Garbage}]
  BY <1>1
<1>3. Stored(l, place, byte) = [l EXCEPT !.text = text]
  BY DEF Stored
<1> HIDE DEF text
<1>4. text \in Seq(Content \cup {Garbage}) /\ Len(text) = l.capacity
  BY <1>1, <1>2
<1>5. /\ Stored(l, place, byte) \in Buffers /\ Stored(l, place, byte).allocated
      /\ Stored(l, place, byte).capacity = l.capacity /\ Stored(l, place, byte).text = text
  BY <1>1, <1>3, <1>4 DEF Buffers
<1> QED BY <1>5 DEF text

\* What C says of a stream is what the stream and its descriptor say.
LEMMA ViewOfStream ==
  ASSUME StreamsOK, NEW h \in DOMAIN streams
  PROVE  /\ streams[h] \in Stream /\ streams[h].fd \in DOMAIN offset
         /\ offset[streams[h].fd] \in Nat
         /\ Logical(streams[h]) = ViewAt(streams[h], offset[streams[h].fd])
         /\ Logical(streams[h]) \in View
         /\ streams[h].ungetc # None => streams[h].ungetc \in Bytes /\ ~streams[h].eof
<1>1. streams[h] \in Stream /\ streams[h].fd \in DOMAIN offset /\ offset[streams[h].fd] \in Nat
  BY DEF StreamsOK
<1>2. Logical(streams[h]) = ViewAt(streams[h], offset[streams[h].fd])
  BY DEF Logical, ViewAt
<1>3. streams[h].ungetc # None => streams[h].ungetc \in Bytes /\ ~streams[h].eof
  BY <1>1 DEF StreamsOK, Stream
<1>4. (IF streams[h].ungetc = None THEN << >> ELSE <<streams[h].ungetc>>) \in Seq(Bytes)
  BY <1>3
<1>5. streams[h].eof \in BOOLEAN /\ streams[h].error \in BOOLEAN
  BY <1>1 DEF Stream
<1>6. ViewAt(streams[h], offset[streams[h].fd]) \in View
  BY <1>1, <1>4, <1>5 DEF ViewAt, View
<1> QED BY <1>1, <1>2, <1>3, <1>6

\* What a call changes: one stream, its descriptor's place and perhaps the file.
Changes(h, s, place) ==
  /\ h \in DOMAIN streams /\ s \in Stream /\ place \in Nat
  /\ s.fd = streams[h].fd /\ s.mode = streams[h].mode /\ (s.ungetc # None => ~s.eof)
  /\ streams' = [streams EXCEPT ![h] = s]
  /\ offset' = [offset EXCEPT ![s.fd] = place]
  /\ file' \in Seq(Content)

\* Such a call keeps the streams in order and the other streams as they were.
LEMMA ChangesKeep ==
  ASSUME StreamsOK, NEW h, NEW s, NEW place, Changes(h, s, place)
  PROVE  /\ StreamsOK' /\ DOMAIN streams' = DOMAIN streams /\ DOMAIN offset' = DOMAIN offset
         /\ streams'[h] = s /\ offset'[s.fd] = place
         /\ \A g \in DOMAIN streams \ {h} :
              streams'[g] = streams[g] /\ offset'[streams'[g].fd] = offset[streams[g].fd]
         /\ Readers' = Readers
<1>1. s.fd \in DOMAIN offset /\ DOMAIN offset \subseteq Nat /\ offset \in [DOMAIN offset -> Nat]
      /\ streams \in [DOMAIN streams -> Stream] /\ h \in DOMAIN streams /\ s \in Stream
  BY DEF StreamsOK, Changes
<1>2. /\ DOMAIN streams' = DOMAIN streams /\ DOMAIN offset' = DOMAIN offset
      /\ streams'[h] = s /\ offset'[s.fd] = place
      /\ \A g \in DOMAIN streams \ {h} : streams'[g] = streams[g]
      /\ \A fd \in DOMAIN offset \ {s.fd} : offset'[fd] = offset[fd]
  BY <1>1 DEF Changes
<1>3. \A g \in DOMAIN streams \ {h} : streams[g].fd # s.fd /\ streams[g].fd \in DOMAIN offset
  BY DEF StreamsOK, Changes
<1>4. offset' \in [DOMAIN offset -> Nat] /\ streams' \in [DOMAIN streams -> Stream]
  BY <1>1, <1>2 DEF Changes
<1>5. \A g \in DOMAIN streams :
        /\ streams'[g].fd = streams[g].fd /\ streams'[g].mode = streams[g].mode
        /\ streams'[g].ungetc # None => ~streams'[g].eof
  BY <1>2 DEF StreamsOK, Changes
<1>6. StreamsOK'
  BY <1>1, <1>2, <1>4, <1>5 DEF StreamsOK, Changes
<1>7. Readers' = Readers
  <2>1. DOMAIN streams' = DOMAIN streams
    BY <1>2
  <2>2. \A g \in DOMAIN streams : streams'[g].mode = streams[g].mode
    BY <1>5
  <2> QED BY <2>1, <2>2 DEF Readers
<1> QED BY <1>2, <1>3, <1>6, <1>7

\* The stream that a getline in progress reads.
OpenLine(h) == ~Idle /\ call.op = "getline" /\ call.stream = h

\* Input is what a getline in progress has found, or what the stream is.
InputOf(h) == IF OpenLine(h) THEN call.before ELSE ViewAt(streams[h], offset[streams[h].fd])

\* What C sees, by stream.
LEMMA InputValue ==
  ASSUME StreamsOK PROVE Input = [h \in Readers |-> InputOf(h)]
<1>1. \A h \in Readers : h \in DOMAIN streams
  BY DEF Readers
<1>2. \A h \in Readers : Logical(streams[h]) = ViewAt(streams[h], offset[streams[h].fd])
  BY <1>1, ViewOfStream
<1>3. \A h \in Readers : (IF ~Idle /\ call.op = "getline" /\ call.stream = h THEN call.before
                         ELSE Logical(streams[h])) = InputOf(h)
  BY <1>2 DEF InputOf, OpenLine
<1> QED BY <1>3, Zenon DEF Input

\* The same of the next state.
LEMMA InputValueNext ==
  ASSUME StreamsOK' PROVE Input' = [h \in Readers' |-> InputOf(h)']
<1>1. (StreamsOK => Input = [h \in Readers |-> InputOf(h)])'
  BY InputValue, PTL
<1> QED BY <1>1

\* A call that changes a stream and returns: the rest of the input is as it was.
LEMMA InputChanges ==
  ASSUME StreamsOK, NEW h, NEW s, NEW place, Changes(h, s, place),
         \A g \in Readers : ~OpenLine(g)' /\ (OpenLine(g) => g = h)
  PROVE  /\ h \in Readers => Input' = [Input EXCEPT ![h] = ViewAt(s, place)] /\ h \in DOMAIN Input
         /\ h \notin Readers => Input' = Input
<1>1. /\ StreamsOK' /\ streams'[h] = s /\ offset'[s.fd] = place
      /\ \A g \in DOMAIN streams \ {h} :
              streams'[g] = streams[g] /\ offset'[streams'[g].fd] = offset[streams[g].fd]
      /\ Readers' = Readers /\ Readers \subseteq DOMAIN streams
  BY ChangesKeep DEF Readers
<1>2. Input = [g \in Readers |-> InputOf(g)] /\ Input' = [g \in Readers |-> InputOf(g)']
  BY <1>1, InputValue, InputValueNext
<1>3. \A g \in Readers : InputOf(g)' = ViewAt(streams'[g], offset'[streams'[g].fd])
  BY DEF InputOf, ViewAt
<1>4. \A g \in Readers \ {h} : InputOf(g) = ViewAt(streams[g], offset[streams[g].fd])
  BY DEF InputOf
<1>5. \A g \in Readers : g # h => InputOf(g)' = InputOf(g)
  BY <1>1, <1>3, <1>4
<1>6. h \in Readers => InputOf(h)' = ViewAt(s, place)
  BY <1>1, <1>3
<1> QED BY <1>2, <1>5, <1>6

\* What a file holds after a place, and at most n bytes of it.
After(f, place) == SubSeq(f, place + 1, Len(f))
Upcoming(f, place, n) == SubSeq(f, place + 1, Min({place + n, Len(f)}))

Fetched(failed, f, place, n) == IF failed THEN << >> ELSE Upcoming(f, place, n)

\* What a read takes of a file is the next bytes of it, and all there is if it is
\* less than was asked for.
LEMMA NextBytes ==
  ASSUME NEW back \in Seq(Content), NEW f \in Seq(Content), NEW place \in Nat, NEW n \in Nat
  PROVE  /\ Upcoming(f, place, n) \in Seq(Content) /\ Len(Upcoming(f, place, n)) <= n
         /\ back \o Upcoming(f, place, n) \in Seq(Content)
         /\ Len(back \o Upcoming(f, place, n)) = Len(back) + Len(Upcoming(f, place, n))
         /\ IsPrefix(back \o Upcoming(f, place, n), back \o After(f, place))
         /\ Len(Upcoming(f, place, n)) < n =>
              back \o Upcoming(f, place, n) = back \o After(f, place)
<1> DEFINE last == IF place + n <= Len(f) THEN place + n ELSE Len(f)
           data == SubSeq(f, place + 1, last)
           rest == SubSeq(f, place + 1, Len(f))
<1>1. Len(f) \in Nat /\ Min({place + n, Len(f)}) = last /\ last \in Nat /\ last <= Len(f)
  BY SmallerOf, LenProperties
<1> HIDE DEF last
<1>2. /\ data \in Seq(Content) /\ Len(data) = (IF place + 1 <= last THEN last - place ELSE 0)
      /\ \A i \in 1..Len(data) : data[i] = f[place + i]
  BY <1>1, SubSeqProperties
<1>3. /\ rest \in Seq(Content) /\ Len(rest) = (IF place + 1 <= Len(f) THEN Len(f) - place ELSE 0)
      /\ \A i \in 1..Len(rest) : rest[i] = f[place + i]
  BY <1>1, SubSeqProperties
<1>4. Len(data) <= n /\ Len(data) <= Len(rest) /\ (Len(data) < n => Len(data) = Len(rest))
  BY <1>1, <1>2, <1>3 DEF last
<1> HIDE DEF data, rest
<1>5. /\ back \o data \in Seq(Content) /\ Len(back \o data) = Len(back) + Len(data)
      /\ back \o rest \in Seq(Content) /\ Len(back \o rest) = Len(back) + Len(rest)
      /\ \A i \in 1..(Len(back) + Len(data)) :
           (back \o data)[i] = IF i <= Len(back) THEN back[i] ELSE data[i - Len(back)]
      /\ \A i \in 1..(Len(back) + Len(rest)) :
           (back \o rest)[i] = IF i <= Len(back) THEN back[i] ELSE rest[i - Len(back)]
  BY <1>2, <1>3, ConcatProperties
<1>6. \A i \in 1..Len(data) : data[i] = rest[i]
  BY <1>2, <1>3, <1>4
<1>7. /\ Len(back \o data) <= Len(back \o rest)
      /\ \A i \in 1..Len(back \o data) : (back \o data)[i] = (back \o rest)[i]
  <2>1. Len(back) \in Nat /\ Len(data) \in Nat /\ Len(rest) \in Nat
    BY <1>2, <1>3, LenProperties
  <2>2. ASSUME NEW i \in 1..(Len(back) + Len(data)) PROVE (back \o data)[i] = (back \o rest)[i]
    <3>1. i \in 1..(Len(back) + Len(rest)) /\ (~(i <= Len(back)) => i - Len(back) \in 1..Len(data))
      BY <1>4, <2>1
    <3>2. (back \o data)[i] = IF i <= Len(back) THEN back[i] ELSE data[i - Len(back)]
      BY <1>5
    <3>3. (back \o rest)[i] = IF i <= Len(back) THEN back[i] ELSE rest[i - Len(back)]
      BY <1>5, <3>1
    <3> QED BY <1>6, <3>1, <3>2, <3>3
  <2> QED BY <1>4, <1>5, <2>1, <2>2
<1> DEFINE x == back \o data
           y == back \o rest
<1>8. x \in Seq(Content) /\ y \in Seq(Content) /\ Len(x) <= Len(y)
      /\ \A i \in 1..Len(x) : x[i] = y[i]
  BY <1>5, <1>7
<1>9. Len(data) < n => Len(x) = Len(y)
  BY <1>4, <1>5
<1> HIDE DEF x, y
<1>10. IsPrefix(x, y)
  <2>1. Len(x) \in Nat /\ Len(y) \in Nat
    BY <1>8, LenProperties
  <2>2. /\ SubSeq(x, 1, Len(x)) \in Seq(Content) /\ SubSeq(y, 1, Len(x)) \in Seq(Content)
        /\ Len(SubSeq(x, 1, Len(x))) = Len(x) /\ Len(SubSeq(y, 1, Len(x))) = Len(x)
        /\ \A i \in 1..Len(x) : SubSeq(x, 1, Len(x))[i] = x[i] /\ SubSeq(y, 1, Len(x))[i] = y[i]
    BY <1>8, <2>1, SubSeqProperties
  <2>3. SubSeq(x, 1, Len(x)) = SubSeq(y, 1, Len(x))
    BY <1>8, <2>1, <2>2, SeqEqual
  <2> QED BY <1>8, <2>3 DEF IsPrefix
<1>11. Len(data) < n => x = y
  BY <1>8, <1>9, SeqEqual
<1>12. Upcoming(f, place, n) = data /\ After(f, place) = rest
  BY <1>1 DEF Upcoming, After, data, rest
<1> QED BY <1>2, <1>4, <1>5, <1>10, <1>11, <1>12 DEF x, y

\* No buffer is a buffer.
LEMMA NoLineBuffer == NoLine \in Buffers
<1>1. << >> \in Seq(Content \cup {Garbage}) /\ NoLine.allocated = FALSE
  BY DEF NoLine
<1>2. NoLine \in [allocated : BOOLEAN, capacity : Nat, text : Seq(Content \cup {Garbage})]
  BY <1>1 DEF NoLine
<1> QED BY <1>1, <1>2 DEF Buffers

\* What a call that reads once delivers: the pushed byte and the next bytes.
LEMMA ReadBytes ==
  ASSUME NEW pushed \in Seq(Content), NEW f \in Seq(Content), NEW place \in Nat, NEW n \in Nat,
         NEW failed \in BOOLEAN, failed => n > 0, NEW data, data = Fetched(failed, f, place, n)
  PROVE  /\ Len(data) \in Nat /\ Len(data) <= n /\ pushed \o data \in Seq(Content)
         /\ Len(pushed \o data) = Len(pushed) + Len(data)
         /\ IsPrefix(pushed \o data, pushed \o After(f, place))
         /\ failed \/ Len(data) = n \/ pushed \o data = pushed \o After(f, place)
         /\ failed => Len(data) = 0
         /\ pushed \o data = << >> => pushed = << >>
<1>1. CASE ~failed
  <2>1. /\ data \in Seq(Content) /\ Len(data) <= n
        /\ pushed \o data \in Seq(Content) /\ Len(pushed \o data) = Len(pushed) + Len(data)
        /\ IsPrefix(pushed \o data, pushed \o After(f, place))
        /\ Len(data) < n => pushed \o data = pushed \o After(f, place)
    <3>1. data = Upcoming(f, place, n)
      BY <1>1 DEF Fetched
    <3>2. Upcoming(f, place, n) \in Seq(Content) /\ Len(Upcoming(f, place, n)) <= n
      BY NextBytes
    <3>3. pushed \o Upcoming(f, place, n) \in Seq(Content)
      BY NextBytes
    <3>4. Len(pushed \o Upcoming(f, place, n)) = Len(pushed) + Len(Upcoming(f, place, n))
      BY NextBytes
    <3>5. IsPrefix(pushed \o Upcoming(f, place, n), pushed \o After(f, place))
      BY NextBytes
    <3>6. Len(Upcoming(f, place, n)) < n =>
            pushed \o Upcoming(f, place, n) = pushed \o After(f, place)
      BY NextBytes
    <3> QED BY <3>1, <3>2, <3>3, <3>4, <3>5, <3>6
  <2>2. Len(data) \in Nat /\ Len(pushed) \in Nat
    BY <2>1, LenProperties
  <2>3. pushed \o data = << >> => pushed = << >>
    <3>1. pushed \o data = << >> => Len(pushed) = 0
      BY <2>1, <2>2
    <3> QED BY <3>1, EmptySeq
  <2>4. Len(data) = n \/ pushed \o data = pushed \o After(f, place)
    BY <2>1, <2>2
  <2> QED BY <1>1, <2>1, <2>2, <2>3, <2>4, Zenon
<1>2. CASE failed
  <2>0. PICK m \in Nat : m = 0
    OBVIOUS
  <2>1. data = Upcoming(f, place, m)
    <3>1. Len(f) \in Nat /\ Len(f) \in Int /\ place + m \in Int
      BY LenProperties
    <3>2. Min({place + m, Len(f)}) = IF place + m <= Len(f) THEN place + m ELSE Len(f)
      BY <3>1, SmallerOf, Zenon
    <3> DEFINE to == Min({place + m, Len(f)})
    <3>3. to \in Nat /\ to < place + 1
      BY <2>0, <3>1, <3>2
    <3> HIDE DEF to
    <3>4. SubSeq(f, place + 1, to) = << >>
      BY <3>3, SubSeqEmpty
    <3> QED BY <1>2, <3>4 DEF Upcoming, Fetched, to
  <2>2. data = << >> /\ Len(data) = 0
    BY <1>2 DEF Fetched
  <2>3. pushed \o data \in Seq(Content) /\ Len(pushed \o data) = Len(pushed) + Len(data)
        /\ IsPrefix(pushed \o data, pushed \o After(f, place))
    BY <2>1, NextBytes
  <2>4. pushed \o data = << >> => pushed = << >>
    BY <2>2
  <2>5. Len(data) \in Nat /\ Len(data) <= n
    BY <2>2
  <2> QED BY <1>2, <2>2, <2>3, <2>4, <2>5, Zenon
<1> QED BY <1>1, <1>2

\* A getc or an fread that asks for `total` bytes: a byte that is pushed back, and
\* what a read, which may fail, has given.
Pushed(s) == IF s.ungetc = None THEN << >> ELSE <<s.ungetc>>
Delivers(h, total, data, failed) ==
  LET old == streams[h]
      missing == total - Len(Pushed(old))
  IN /\ Idle /\ Idle' /\ h \in Readers
     /\ call'.op \in {"getc", "fread"} /\ call'.total = total
     /\ missing \in Nat /\ data = Fetched(failed, file, offset[old.fd], missing)
     /\ failed => missing > 0
     /\ answer'.bytes = Pushed(old) \o data
     /\ Changes(h, Left(old, old.eof \/ (~failed /\ Len(data) < missing),
                        old.error \/ failed, None),
                offset[old.fd] + Len(data))

\* getc and fread deliver what C says.
LEMMA Delivery ==
  ASSUME StreamsOK, NEW h, NEW total \in Nat, NEW data, NEW failed \in BOOLEAN,
         Delivers(h, total, data, failed)
  PROVE  C!Deliver(h) /\ h \in DOMAIN Input
<1>0. h \in Readers /\ h \in DOMAIN streams /\ file \in Seq(Content)
  BY DEF Delivers, Readers, StreamsOK
<1>1. PICK old, pushed : old = streams[h] /\ pushed = Pushed(old)
  OBVIOUS
<1>2. PICK n \in Nat, place \in Nat, f \in Seq(Content) :
        n = total - Len(pushed) /\ place = offset[old.fd] /\ f = file
  BY <1>0, <1>1, ViewOfStream DEF Delivers
<1>3. old \in Stream /\ (old.ungetc # None => old.ungetc \in Bytes /\ ~old.eof)
  BY <1>0, <1>1, ViewOfStream
<1>4. pushed \in Seq(Content) /\ Len(pushed) = (IF old.ungetc = None THEN 0 ELSE 1)
  <2>1. CASE old.ungetc = None
    BY <1>1, <2>1 DEF Pushed
  <2>2. CASE old.ungetc # None
    <3>1. old.ungetc \in Content /\ pushed = <<old.ungetc>>
      BY <1>1, <1>3, <2>2 DEF Content, Pushed
    <3> QED BY <2>2, <3>1
  <2> QED BY <2>1, <2>2
<1>5. PICK bytes, eof, error :
        /\ bytes = answer'.bytes /\ bytes = pushed \o data
        /\ eof = (old.eof \/ (~failed /\ Len(data) < n)) /\ error = (old.error \/ failed)
        /\ Changes(h, Left(old, eof, error, None), place + Len(data))
  BY <1>1, <1>2 DEF Delivers
<1>6. /\ pushed \in Seq(Content) /\ data = Fetched(failed, f, place, n)
      /\ failed => n > 0
  BY <1>1, <1>2, <1>4 DEF Delivers
<1>7. Len(data) \in Nat /\ Len(data) <= n
  BY <1>6, ReadBytes
<1>8. Len(pushed \o data) = Len(pushed) + Len(data)
      /\ IsPrefix(pushed \o data, pushed \o After(f, place))
  BY <1>6, ReadBytes
<1>9. failed \/ Len(data) = n \/ pushed \o data = pushed \o After(f, place)
  <2>1. CASE ~failed
    <3>1. data = Upcoming(f, place, n)
      BY <1>6, <2>1 DEF Fetched
    <3>2. \/ Len(Upcoming(f, place, n)) = n
          \/ pushed \o Upcoming(f, place, n) = pushed \o After(f, place)
      BY <1>6, NextBytes
    <3> QED BY <3>1, <3>2, Zenon
  <2> QED BY <2>1
<1>24. failed => data = << >> /\ n > 0
  BY <1>6 DEF Fetched
<1>10. pushed \o data = << >> => pushed = << >>
  BY <1>6, ReadBytes
<1>11. /\ Input[h] = ViewAt(old, place) /\ h \in DOMAIN Input
       /\ Input' = [Input EXCEPT ![h] = ViewAt(Left(old, eof, error, None), place + Len(data))]
  <2>1. Idle' /\ \A g \in Readers : ~OpenLine(g)
    BY DEF Delivers, OpenLine
  <2>2. Input[h] = ViewAt(old, place)
    BY <1>0, <1>1, <1>2, <2>1, InputValue DEF InputOf
  <2>3. \A g \in Readers : ~OpenLine(g)' /\ (OpenLine(g) => g = h)
    BY <2>1 DEF OpenLine
  <2> QED BY <1>0, <1>5, <2>2, <2>3, InputChanges
<1>12. PICK k, d, b \in Nat :
         k = Len(pushed) /\ d = Len(data) /\ b = Len(bytes) /\ b = k + d /\ n = total - k
  <2>1. Len(pushed) \in Nat
    BY <1>6, LenProperties
  <2> QED BY <1>2, <1>5, <1>7, <1>8, <2>1
<1>13. PICK at \in Int : at = place - k
  OBVIOUS
<1>14. /\ Input[h].at = at /\ Input[h].back = pushed
       /\ Input[h].eof = old.eof /\ Input[h].error = old.error
  <2>1. Input[h].at = (IF old.ungetc = None THEN place ELSE place - 1)
    BY <1>11 DEF ViewAt
  <2>2. k = (IF old.ungetc = None THEN 0 ELSE 1)
    BY <1>4, <1>12
  <2>3. Input[h].at = at
    BY <1>13, <2>1, <2>2
  <2>4. Input[h].back = pushed
    BY <1>1, <1>11 DEF ViewAt, Pushed
  <2> QED BY <1>11, <2>3, <2>4 DEF ViewAt
<1>15. PICK ahead : ahead = C!Ahead(h) /\ ahead = pushed \o After(f, place)
  <2>1. at + k + 1 = place + 1
    BY <1>13
  <2>2. C!Ahead(h) = pushed \o SubSeq(f, at + k + 1, Len(f))
    BY <1>2, <1>12, <1>14, Zenon DEF C!Ahead
  <2> QED BY <2>1, <2>2 DEF After
<1>16. /\ IsPrefix(bytes, ahead)
       /\ failed \/ d = n \/ bytes = ahead
       /\ bytes = << >> => pushed = << >>
  BY <1>5, <1>8, <1>9, <1>10, <1>12, <1>15
<1> DEFINE moved(e, r) == C!Stream(at + b, IF bytes = << >> THEN pushed ELSE << >>, e, r)
<1>17. C!Becomes(h, moved(eof, error))
  <2>1. ViewAt(Left(old, eof, error, None), place + d) =
          [at |-> place + d, back |-> << >>, eof |-> eof, error |-> error]
    BY DEF ViewAt, Left
  <2>2. at + b = place + d
    BY <1>12, <1>13
  <2>3. (IF bytes = << >> THEN pushed ELSE << >>) = << >>
    BY <1>16
  <2>4. ViewAt(Left(old, eof, error, None), place + d) = moved(eof, error)
    BY <2>1, <2>2, <2>3 DEF C!Stream
  <2> QED BY <1>11, <1>12, <2>4 DEF C!Becomes
<1>18. /\ C!NoMore(call', bytes) /\ (C!Complete(call', bytes) <=> b = total)
       /\ call'.op \in {"getc", "fread", "getline"}
  <2>1. call'.op \in {"getc", "fread"} /\ call'.total = total
    BY DEF Delivers
  <2>2. b <= total /\ d <= n
    BY <1>7, <1>12
  <2> QED BY <1>12, <2>1, <2>2 DEF C!NoMore, C!Complete
<1>19. ASSUME \/ b = total /\ C!Becomes(h, moved(old.eof, old.error))
              \/ b # total /\ C!Becomes(h, moved(old.eof, TRUE))
              \/ b # total /\ bytes = ahead /\ C!Becomes(h, moved(TRUE, old.error))
       PROVE  C!Deliver(h)
  <2>1. C!IsPrefix(bytes, C!Ahead(h))
    BY <1>15, <1>16 DEF IsPrefix, C!IsPrefix
  <2>2. \A e, r : moved(e, r) = C!Stream(Input[h].at + Len(bytes),
                                         IF bytes = << >> THEN Input[h].back ELSE << >>, e, r)
    BY <1>12, <1>14
  <2>3. bytes = answer'.bytes
    BY <1>5
  <2> HIDE DEF moved
  <2>4. \/ C!Complete(call', bytes) /\ C!Becomes(h, moved(Input[h].eof, Input[h].error))
        \/ /\ ~C!Complete(call', bytes)
           /\ \/ C!Becomes(h, moved(Input[h].eof, TRUE))
              \/ bytes = C!Ahead(h) /\ C!Becomes(h, moved(TRUE, Input[h].error))
    BY <1>14, <1>15, <1>18, <1>19
  <2> QED BY <1>18, <2>1, <2>2, <2>3, <2>4 DEF C!Deliver
<1>20. old.eof \in BOOLEAN /\ old.error \in BOOLEAN
  BY <1>3 DEF Stream
<1>21. CASE failed
  <2>1. b # total
    <3>1. n > 0 /\ d = 0
      BY <1>24, <1>12, <1>21
    <3> QED BY <1>12, <3>1
  <2>2. eof = old.eof /\ error = TRUE
    BY <1>5, <1>20, <1>21, Zenon
  <2> QED BY <1>11, <1>17, <1>19, <2>1, <2>2
<1>22. CASE ~failed /\ d < n
  <2>1. b # total
    BY <1>12, <1>22
  <2>2. eof = TRUE /\ error = old.error
    BY <1>5, <1>12, <1>20, <1>22, Zenon
  <2>3. bytes = ahead
    BY <1>16, <1>22
  <2> QED BY <1>11, <1>17, <1>19, <2>1, <2>2, <2>3
<1>23. CASE ~failed /\ ~(d < n)
  <2>1. b = total
    <3>1. d <= n
      BY <1>7, <1>12
    <3> QED BY <1>12, <1>23, <3>1
  <2>2. eof = old.eof /\ error = old.error
    BY <1>5, <1>12, <1>20, <1>23, Zenon
  <2> QED BY <1>11, <1>17, <1>19, <2>1, <2>2
<1> QED BY <1>11, <1>21, <1>22, <1>23

\* A call that returns leaves no getline and no fwrite in progress.
LEMMA Immediate ==
  ASSUME NEW h, Fopen(h) \/ Fclose(h) \/ Getc(h) \/ Fread(h) \/ Ungetc(h) \/ Fseeko(h)
                \/ Ftello(h) \/ Clearerr(h) \/ Fputs(h)
  PROVE  Idle /\ Idle' /\ Quiet'
<1>0. Idle /\ call'.op # "getline"
  <2>1. CASE Fopen(h)
    BY <2>1 DEF Fopen, Calls
  <2>2. CASE Fclose(h)
    BY <2>2 DEF Fclose, Calls
  <2>3. CASE Getc(h)
    BY <2>3 DEF Getc, Calls
  <2>4. CASE Fread(h)
    BY <2>4 DEF Fread, Calls
  <2>5. CASE Ungetc(h)
    BY <2>5 DEF Ungetc, Calls
  <2>6. CASE Fseeko(h)
    BY <2>6 DEF Fseeko, Calls
  <2>7. CASE Ftello(h)
    BY <2>7 DEF Ftello, Calls
  <2>8. CASE Clearerr(h)
    BY <2>8 DEF Clearerr, Calls
  <2>9. CASE Fputs(h)
    BY <2>9 DEF Fputs, Calls
  <2> QED BY <2>1, <2>2, <2>3, <2>4, <2>5, <2>6, <2>7, <2>8, <2>9
<1>2. \E bytes, value : Returns(bytes, value)
  <2>1. CASE Fopen(h)
    BY <2>1, Zenon DEF Fopen
  <2>2. CASE Fclose(h)
    BY <2>2, Zenon DEF Fclose
  <2>3. CASE Getc(h)
    BY <2>3, Zenon DEF Getc
  <2>4. CASE Fread(h)
    BY <2>4, Zenon DEF Fread
  <2>5. CASE Ungetc(h)
    BY <2>5, Zenon DEF Ungetc
  <2>6. CASE Fseeko(h)
    BY <2>6, Zenon DEF Fseeko
  <2>7. CASE Ftello(h)
    BY <2>7, Zenon DEF Ftello
  <2>8. CASE Clearerr(h)
    BY <2>8, Zenon DEF Clearerr
  <2>9. CASE Fputs(h)
    BY <2>9, Zenon DEF Fputs
  <2> QED BY <2>1, <2>2, <2>3, <2>4, <2>5, <2>6, <2>7, <2>8, <2>9
<1>1. Idle /\ call'.op # "getline" /\ line' = NoLine /\ done' = done
  BY <1>0, <1>2 DEF Returns
<1>3. Idle'
  BY <1>1 DEF Idle
<1> QED BY <1>1, <1>3, NoLineBuffer DEF Quiet, LineOK, WriterOK, LineTerminated

\* What a read of the descriptor may give.
LEMMA ReadsFetched ==
  ASSUME NEW fd, NEW n, NEW r \in Reads(fd, n)
  PROVE  r.failed \in BOOLEAN /\ r.data = Fetched(r.failed, file, offset[fd], n)
<1>1. CASE r = [failed |-> FALSE, data |-> Rest(fd, n)]
  BY <1>1 DEF Rest, Fetched, Upcoming
<1>2. CASE r = [failed |-> TRUE, data |-> << >>]
  BY <1>2 DEF Fetched
<1> QED BY <1>1, <1>2 DEF Reads

\* Nothing is fetched if nothing is missing.
LEMMA NothingFetched ==
  ASSUME NEW f \in Seq(Content), NEW place \in Nat, NEW n, n = 0
  PROVE  Fetched(FALSE, f, place, n) = << >>
<1>1. PICK m \in Nat : m = n
  OBVIOUS
<1>2. Upcoming(f, place, m) \in Seq(Content) /\ Len(Upcoming(f, place, m)) <= m
  <2>1. << >> \in Seq(Content)
    OBVIOUS
  <2> QED BY <2>1, NextBytes
<1>3. Upcoming(f, place, m) = << >>
  <2>1. Len(Upcoming(f, place, m)) = 0
    BY <1>1, <1>2, LenProperties
  <2> QED BY <1>2, <2>1, EmptySeq
<1> QED BY <1>1, <1>3 DEF Fetched

\* A getc or an fread, seen as what it has got.
Got(h, total, data, failed, value) ==
  LET old == streams[h]
      missing == total - Len(Pushed(old))
  IN /\ h \in Readers /\ Idle
     /\ call'.op \in {"getc", "fread"} /\ call'.stream = h /\ call'.total = total
     /\ missing \in Nat /\ data = Fetched(failed, file, offset[old.fd], missing)
     /\ failed => missing > 0
     /\ streams' = Put(streams, h, Left(old, old.eof \/ (~failed /\ Len(data) < missing),
                                        old.error \/ failed, None))
     /\ offset' = [offset EXCEPT ![old.fd] = @ + Len(data)] /\ file' = file
     /\ Returns(Pushed(old) \o data, value)

\* What it has got is what C says.
LEMMA GotDelivers ==
  ASSUME StreamsOK, NEW h, NEW total \in Nat, NEW data, NEW failed \in BOOLEAN, NEW value,
         Got(h, total, data, failed, value)
  PROVE  StreamsOK' /\ C!Next
<1>1. h \in Readers /\ h \in DOMAIN streams /\ file \in Seq(Content)
  BY DEF Got, Readers, StreamsOK
<1>2. PICK old, eof, error :
        /\ old = streams[h]
        /\ eof = (old.eof \/ (~failed /\ Len(data) < total - Len(Pushed(old))))
        /\ error = (old.error \/ failed)
  OBVIOUS
<1>3. old \in Stream /\ old.fd \in DOMAIN offset /\ offset[old.fd] \in Nat
  BY <1>1, <1>2, ViewOfStream
<1>4. Len(data) \in Nat
  <2>1. << >> \in Seq(Content) /\ Len(<< >>) = 0
    OBVIOUS
  <2>2. total - Len(Pushed(old)) \in Nat /\ file \in Seq(Content)
        /\ data = Fetched(failed, file, offset[old.fd], total - Len(Pushed(old)))
    BY <1>1, <1>2 DEF Got
  <2>3. PICK m \in Nat, place \in Nat : m = total - Len(Pushed(old)) /\ place = offset[old.fd]
    BY <1>3, <2>2
  <2>4. Upcoming(file, place, m) \in Seq(Content)
    BY <1>1, <2>1, NextBytes
  <2>5. data \in Seq(Content)
    BY <2>1, <2>2, <2>3, <2>4 DEF Fetched
  <2> QED BY <2>5, LenProperties
<1>5. eof \in BOOLEAN /\ error \in BOOLEAN
  <2>1. old.eof \in BOOLEAN /\ old.error \in BOOLEAN
    BY <1>3 DEF Stream
  <2> QED BY <1>2, <2>1, Zenon
<1>6. Left(old, eof, error, None) \in Stream
  BY <1>3, <1>5 DEF Left, Stream
<1>7. Changes(h, Left(old, eof, error, None), offset[old.fd] + Len(data))
  <2>1. streams' = [streams EXCEPT ![h] = Left(old, eof, error, None)]
    BY <1>2 DEF Got, Put
  <2>2. offset' = [offset EXCEPT ![old.fd] = offset[old.fd] + Len(data)] /\ file' = file
    BY <1>2 DEF Got
  <2>3. offset[old.fd] + Len(data) \in Nat
    BY <1>3, <1>4
  <2>4. Left(old, eof, error, None).fd = old.fd /\ Left(old, eof, error, None).mode = old.mode
        /\ Left(old, eof, error, None).ungetc = None
    BY DEF Left
  <2> QED BY <1>1, <1>2, <1>6, <2>1, <2>2, <2>3, <2>4 DEF Changes
<1>8. Delivers(h, total, data, failed)
  <2>1. Idle /\ Idle' /\ answer'.bytes = Pushed(old) \o data
    BY <1>2 DEF Got, Returns, Idle
  <2> QED BY <1>1, <1>2, <1>7, <2>1 DEF Got, Delivers
<1>9. C!Deliver(h) /\ h \in DOMAIN Input
  BY <1>8, Delivery
<1>10. StreamsOK'
  BY <1>7, ChangesKeep
<1>11. call'.stream = h
  BY DEF Got
<1> QED BY <1>9, <1>10, <1>11 DEF C!Next

\* getc takes a byte that is pushed back, or else reads one.
LEMMA GetcActs ==
  ASSUME StreamsOK, NEW h \in Handles, Getc(h) PROVE StreamsOK' /\ C!Next
<1>1. h \in Readers /\ h \in DOMAIN streams /\ Idle /\ file' = file /\ file \in Seq(Content)
      /\ call'.op = "getc" /\ call'.stream = h /\ call'.total = 1
  BY DEF Getc, Calls, Readers, StreamsOK
<1>2. PICK old : old = streams[h]
  OBVIOUS
<1>3. old \in Stream /\ old.fd \in DOMAIN offset /\ offset[old.fd] \in Nat
      /\ (old.ungetc # None => ~old.eof) /\ offset \in [DOMAIN offset -> Nat]
  BY <1>1, <1>2, ViewOfStream DEF StreamsOK
<1>4. old.eof \in BOOLEAN /\ old.error \in BOOLEAN
  BY <1>3 DEF Stream
<1>5. CASE old.ungetc # None
  <2>1. streams' = Put(streams, h, Left(old, FALSE, old.error, None)) /\ offset' = offset
        /\ Returns(<<old.ungetc>>, old.ungetc)
    BY <1>2, <1>5 DEF Getc, Unpushed
  <2>2. Pushed(old) = <<old.ungetc>> /\ 1 - Len(Pushed(old)) = 0
    BY <1>5 DEF Pushed
  <2>3. PICK data, failed : data = << >> /\ failed = FALSE
    OBVIOUS
  <2>4. data = Fetched(failed, file, offset[old.fd], 1 - Len(Pushed(old)))
    BY <1>1, <1>3, <2>2, <2>3, NothingFetched
  <2>5. Pushed(old) \o data = <<old.ungetc>> /\ Len(data) = 0
    BY <2>2, <2>3
  <2>6. (old.eof \/ (~failed /\ Len(data) < 1 - Len(Pushed(old)))) = FALSE
    BY <1>3, <1>4, <1>5, <2>2, <2>5
  <2>7. (old.error \/ failed) = old.error
    BY <1>4, <2>3
  <2>8. offset' = [offset EXCEPT ![old.fd] = @ + Len(data)]
    BY <1>3, <2>1, <2>5
  <2>9. Got(h, 1, data, failed, old.ungetc)
    <3>1. call'.op \in {"getc", "fread"} /\ 1 - Len(Pushed(old)) \in Nat /\ ~failed
      BY <1>1, <2>2, <2>3
    <3>2. streams' = Put(streams, h,
                         Left(old, old.eof \/ (~failed /\ Len(data) < 1 - Len(Pushed(old))),
                              old.error \/ failed, None))
      BY <2>1, <2>6, <2>7
    <3>3. Returns(Pushed(old) \o data, old.ungetc)
      BY <2>1, <2>5
    <3> QED BY <1>1, <1>2, <2>4, <2>8, <3>1, <3>2, <3>3, Zenon DEF Got
  <2> QED BY <2>3, <2>9, GotDelivers
<1>6. CASE old.ungetc = None
  <2>1. PICK r \in Reads(old.fd, 1) :
          /\ streams' = Put(streams, h, Marked(old, r, r.data = << >>))
          /\ offset' = [offset EXCEPT ![old.fd] = @ + Len(r.data)]
          /\ Returns(r.data, IF r.data = << >> THEN -1 ELSE r.data[1])
    BY <1>2, <1>6 DEF Getc, Advance
  <2>2. PICK data, failed, value :
          /\ data = r.data /\ failed = r.failed
          /\ value = IF r.data = << >> THEN -1 ELSE r.data[1]
    OBVIOUS
  <2>3. Pushed(old) = << >> /\ Len(Pushed(old)) = 0 /\ 1 - Len(Pushed(old)) = 1
    BY <1>6 DEF Pushed
  <2>4. failed \in BOOLEAN /\ data = Fetched(failed, file, offset[old.fd], 1)
    BY <2>2, ReadsFetched
  <2>5. data \in Seq(Content)
    <3>1. << >> \in Seq(Content)
      OBVIOUS
    <3>2. Upcoming(file, offset[old.fd], 1) \in Seq(Content)
      BY <1>1, <1>3, <3>1, NextBytes
    <3> QED BY <2>4, <3>1, <3>2 DEF Fetched
  <2>6. Pushed(old) \o data = data
    BY <2>3, <2>5
  <2>7. (data = << >>) = (Len(data) < 1)
    BY <2>5
  <2>8. streams' = Put(streams, h, Left(old, old.eof \/ (~failed /\ Len(data) < 1),
                                        old.error \/ failed, None))
    BY <2>1, <2>2, <2>7 DEF Marked
  <2>9. Got(h, 1, data, failed, value)
    BY <1>1, <1>2, <2>1, <2>2, <2>3, <2>4, <2>6, <2>8 DEF Got
  <2> QED BY <2>4, <2>9, GotDelivers
<1> QED BY <1>5, <1>6

\* fread takes a byte that is pushed back and reads the rest.
LEMMA FreadActs ==
  ASSUME StreamsOK, NEW h \in Handles, Fread(h) PROVE StreamsOK' /\ C!Next
<1>1. PICK old : old = streams[h]
  OBVIOUS
<1>2. PICK size \in 1..2, nmemb \in 1..2 :
        /\ h \in Readers /\ Calls([op |-> "fread", stream |-> h, total |-> size * nmemb])
        /\ file' = file
        /\ \E r \in IF size * nmemb - Len(Pushed(old)) = 0 THEN {[failed |-> FALSE, data |-> << >>]}
                    ELSE Reads(old.fd, size * nmemb - Len(Pushed(old))) :
             /\ streams' = Put(streams, h,
                               Marked(old, r, Len(r.data) < size * nmemb - Len(Pushed(old))))
             /\ Advance(old.fd, Len(r.data))
             /\ Returns(Pushed(old) \o r.data, Len(Pushed(old) \o r.data) \div size)
  BY <1>1, Zenon DEF Fread, Pushed
<1>3. PICK total \in Nat : total = size * nmemb /\ total > 0
  OBVIOUS
<1>4. h \in DOMAIN streams /\ file \in Seq(Content) /\ offset[old.fd] \in Nat
  BY <1>1, <1>2, ViewOfStream DEF Readers, StreamsOK
<1>5. PICK missing \in Nat : missing = total - Len(Pushed(old))
  <2>1. PICK k \in {0, 1} : k = Len(Pushed(old))
    BY DEF Pushed
  <2>2. total - k \in Nat
    BY <1>3
  <2> QED BY <2>1, <2>2
<1>6. PICK r \in IF missing = 0 THEN {[failed |-> FALSE, data |-> << >>]}
        ELSE Reads(old.fd, missing) :
        /\ streams' = Put(streams, h, Marked(old, r, Len(r.data) < missing))
        /\ Advance(old.fd, Len(r.data))
        /\ Returns(Pushed(old) \o r.data, Len(Pushed(old) \o r.data) \div size)
  BY <1>2, <1>3, <1>5, Zenon
<1>7. PICK data, failed, value :
        /\ data = r.data /\ failed = r.failed
        /\ value = Len(Pushed(old) \o r.data) \div size
  OBVIOUS
<1>8. failed \in BOOLEAN /\ data = Fetched(failed, file, offset[old.fd], missing)
      /\ (failed => missing > 0)
  <2>1. CASE missing = 0
    <3>1. data = << >> /\ failed = FALSE
      BY <1>6, <1>7, <2>1
    <3>2. Fetched(FALSE, file, offset[old.fd], missing) = << >>
      BY <1>4, <2>1, NothingFetched
    <3> QED BY <3>1, <3>2
  <2>2. CASE missing # 0
    <3>1. r \in Reads(old.fd, missing)
      BY <1>6, <2>2
    <3> QED BY <1>5, <1>7, <2>2, <3>1, ReadsFetched
  <2> QED BY <2>1, <2>2
<1>9. Got(h, total, data, failed, value)
  <2>1. /\ Idle /\ call'.op \in {"getc", "fread"} /\ call'.stream = h /\ call'.total = total
    BY <1>2, <1>3 DEF Calls
  <2>2. streams' = Put(streams, h, Left(old, old.eof \/ (~failed /\ Len(data) < missing),
                                        old.error \/ failed, None))
    BY <1>6, <1>7, Zenon DEF Marked
  <2>3. offset' = [offset EXCEPT ![old.fd] = @ + Len(data)] /\ file' = file
    BY <1>2, <1>6, <1>7 DEF Advance
  <2>4. Returns(Pushed(old) \o data, value)
    BY <1>6, <1>7
  <2>5. total - Len(Pushed(old)) \in Nat
    BY <1>5
  <2> QED BY <1>1, <1>2, <1>5, <1>8, <2>1, <2>2, <2>3, <2>4, <2>5, Zenon DEF Got
<1> QED BY <1>8, <1>9, GotDelivers

\* What a call that sets a stream, and makes no other, leaves of the input.
LEMMA Sets ==
  ASSUME StreamsOK, Idle, Idle', NEW h, NEW s, NEW place, Changes(h, s, place)
  PROVE  /\ StreamsOK' /\ (h \in DOMAIN Input <=> h \in Readers)
         /\ h \in Readers => /\ Input' = [Input EXCEPT ![h] = ViewAt(s, place)]
                             /\ Input[h] = ViewAt(streams[h], offset[streams[h].fd])
         /\ h \notin Readers => Input' = Input
<1>1. \A g \in Readers : ~OpenLine(g) /\ ~OpenLine(g)'
  BY DEF OpenLine
<1>2. Input = [g \in Readers |-> InputOf(g)]
  BY InputValue
<1>3. h \in Readers => Input[h] = ViewAt(streams[h], offset[streams[h].fd])
  BY <1>1, <1>2 DEF InputOf
<1>4. h \in DOMAIN Input <=> h \in Readers
  BY <1>2
<1> QED BY <1>1, <1>3, <1>4, ChangesKeep, InputChanges

\* A call that leaves the streams alone.
LEMMA Leaves ==
  ASSUME StreamsOK, \A g \in Readers : ~OpenLine(g) /\ ~OpenLine(g)',
         streams' = streams, offset' = offset, file' \in Seq(Content)
  PROVE  /\ StreamsOK' /\ Input' = Input /\ DOMAIN Input = Readers
         /\ \A h \in Readers : Input[h] = ViewAt(streams[h], offset[streams[h].fd])
<1>1. StreamsOK'
  BY DEF StreamsOK
<1>2. Input = [g \in Readers |-> InputOf(g)] /\ Input' = [g \in Readers' |-> InputOf(g)']
  BY <1>1, InputValue, InputValueNext
<1>3. Readers' = Readers
  BY DEF Readers
<1>4. \A g \in Readers : /\ InputOf(g) = ViewAt(streams[g], offset[streams[g].fd])
                         /\ InputOf(g)' = ViewAt(streams[g], offset[streams[g].fd])
  BY DEF InputOf, ViewAt
<1>5. Input' = Input
  BY <1>2, <1>3, <1>4
<1> QED BY <1>1, <1>2, <1>4, <1>5

\* ungetc pushes one byte back.
LEMMA UngetcActs ==
  ASSUME StreamsOK, NEW h \in Handles, Ungetc(h) PROVE StreamsOK' /\ C!Next
<1>0. Idle /\ Idle'
  BY Immediate
<1>1. PICK old, place : old = streams[h] /\ place = offset[old.fd]
  OBVIOUS
<1>2. PICK byte \in Bytes :
        /\ h \in Readers /\ call' = [op |-> "ungetc", stream |-> h, byte |-> byte]
        /\ \/ old.ungetc # None /\ Returns(<< >>, -1) /\ streams' = streams
           \/ /\ old.ungetc = None /\ Returns(<< >>, byte)
              /\ streams' = Put(streams, h, Left(old, FALSE, old.error, byte))
        /\ file' = file /\ offset' = offset
  BY <1>1, Zenon DEF Ungetc, Calls
<1>3. h \in DOMAIN streams /\ old \in Stream /\ old.fd \in DOMAIN offset /\ place \in Nat
      /\ file \in Seq(Content) /\ offset \in [DOMAIN offset -> Nat]
  BY <1>1, <1>2, ViewOfStream DEF Readers, StreamsOK
<1>4. call'.op = "ungetc" /\ call'.stream = h /\ call'.byte = byte
  BY <1>2
<1>5. CASE old.ungetc # None
  <2>0. streams' = streams /\ Returns(<< >>, -1)
    BY <1>2, <1>5
  <2>1. streams' = streams /\ answer'.value = -1
    BY <2>0 DEF Returns
  <2>2. StreamsOK' /\ Input' = Input /\ h \in DOMAIN Input /\ Input[h] = ViewAt(old, place)
    BY <1>0, <1>1, <1>2, <1>3, <2>1, Leaves DEF OpenLine
  <2>3. Input[h].back # << >>
    BY <1>5, <2>2 DEF ViewAt
  <2> QED BY <1>4, <2>1, <2>2, <2>3 DEF C!Next, C!PushBack
<1>6. CASE old.ungetc = None
  <2>1. PICK s : s = Left(old, FALSE, old.error, byte)
    OBVIOUS
  <2>2. s \in Stream /\ s.fd = old.fd /\ s.mode = old.mode /\ s.eof = FALSE /\ s.ungetc = byte
        /\ s.error = old.error /\ byte # None
    BY <1>3, <2>1, StdioAssumption DEF Left, Stream
  <2>0. streams' = Put(streams, h, s) /\ Returns(<< >>, byte)
    BY <1>2, <1>6, <2>1
  <2>3. streams' = [streams EXCEPT ![h] = s] /\ answer'.value = byte
    BY <2>0 DEF Returns, Put
  <2>4. Changes(h, s, place)
    BY <1>1, <1>2, <1>3, <2>2, <2>3 DEF Changes
  <2>5. StreamsOK' /\ h \in DOMAIN Input /\ Input' = [Input EXCEPT ![h] = ViewAt(s, place)]
        /\ Input[h] = ViewAt(old, place)
    BY <1>0, <1>1, <1>2, <2>4, Sets
  <2>6. Input[h].back = << >> /\ Input[h].at = place /\ Input[h].error = old.error
    BY <1>6, <2>5 DEF ViewAt
  <2>7. ViewAt(s, place) = C!Stream(Input[h].at - 1, <<byte>>, FALSE, Input[h].error)
    BY <2>2, <2>6 DEF ViewAt, C!Stream
  <2>8. C!PushBack(h)
    BY <1>4, <2>3, <2>5, <2>6, <2>7 DEF C!PushBack, C!Becomes
  <2> QED BY <1>4, <2>5, <2>8 DEF C!Next
<1> QED BY <1>5, <1>6

\* ftello is the place of the next byte.
LEMMA FtelloActs ==
  ASSUME StreamsOK, NEW h \in Handles, Ftello(h) PROVE StreamsOK' /\ C!Next
<1>0. Idle /\ Idle'
  BY Immediate
<1>1. /\ call'.op = "ftello" /\ call'.stream = h /\ h \in DOMAIN streams
      /\ streams' = streams /\ offset' = offset /\ file' = file
      /\ answer'.value = IF streams[h].ungetc = None THEN offset[streams[h].fd]
                         ELSE offset[streams[h].fd] - 1
  BY DEF Ftello, Calls, Returns
<1>2. file' \in Seq(Content)
  BY <1>1 DEF StreamsOK
<1>3. StreamsOK' /\ Input' = Input /\ DOMAIN Input = Readers
      /\ (h \in Readers => Input[h] = ViewAt(streams[h], offset[streams[h].fd]))
  BY <1>0, <1>1, <1>2, Leaves DEF OpenLine
<1>4. CASE h \in Readers
  <2>1. answer'.value = Input[h].at
    BY <1>1, <1>3, <1>4 DEF ViewAt
  <2> QED BY <1>1, <1>3, <1>4, <2>1 DEF C!Next, C!Tell
<1>5. CASE h \notin Readers
  BY <1>1, <1>3, <1>5 DEF C!Next, C!Elsewhere
<1> QED BY <1>4, <1>5

\* clearerr takes the marks away.
LEMMA ClearerrActs ==
  ASSUME StreamsOK, NEW h \in Handles, Clearerr(h) PROVE StreamsOK' /\ C!Next
<1>0. Idle /\ Idle'
  BY Immediate
<1>1. PICK old, place, s :
        old = streams[h] /\ place = offset[old.fd] /\ s = Left(old, FALSE, FALSE, old.ungetc)
  OBVIOUS
<1>2. /\ call'.op = "clearerr" /\ call'.stream = h /\ h \in DOMAIN streams
      /\ streams' = [streams EXCEPT ![h] = s] /\ offset' = offset /\ file' = file
  BY <1>1 DEF Clearerr, Calls, Put
<1>3. old \in Stream /\ old.fd \in DOMAIN offset /\ place \in Nat
      /\ file \in Seq(Content) /\ offset \in [DOMAIN offset -> Nat]
  BY <1>1, <1>2, ViewOfStream DEF StreamsOK
<1>4. s \in Stream /\ s.fd = old.fd /\ s.mode = old.mode /\ s.eof = FALSE /\ s.error = FALSE
      /\ s.ungetc = old.ungetc
  BY <1>1, <1>3 DEF Left, Stream
<1>5. Changes(h, s, place)
  BY <1>1, <1>2, <1>3, <1>4 DEF Changes
<1>6. CASE h \in Readers
  <2>0. StreamsOK' /\ h \in DOMAIN Input /\ Input' = [Input EXCEPT ![h] = ViewAt(s, place)]
    BY <1>0, <1>5, <1>6, Sets
  <2>1. Input[h] = ViewAt(old, place)
    BY <1>0, <1>1, <1>5, <1>6, Sets
  <2>2. ViewAt(s, place) = C!Stream(Input[h].at, Input[h].back, FALSE, FALSE)
    <3>1. Input[h].at = (IF old.ungetc = None THEN place ELSE place - 1)
          /\ Input[h].back = (IF old.ungetc = None THEN << >> ELSE <<old.ungetc>>)
      BY <2>1 DEF ViewAt
    <3> QED BY <1>4, <3>1, Zenon DEF ViewAt, C!Stream
  <2>3. C!ClearErr(h)
    BY <1>2, <2>0, <2>2 DEF C!ClearErr, C!Becomes
  <2> QED BY <1>2, <2>0, <2>3 DEF C!Next
<1>7. CASE h \notin Readers
  <2>1. StreamsOK' /\ h \notin DOMAIN Input /\ Input' = Input
    BY <1>0, <1>5, <1>7, Sets
  <2> QED BY <1>2, <2>1 DEF C!Next, C!Elsewhere
<1> QED BY <1>6, <1>7

\* fseeko counts from the stream's own position, the start or the end.
LEMMA FseekoActs ==
  ASSUME StreamsOK, NEW h \in Handles, Fseeko(h) PROVE StreamsOK' /\ C!Next
<1>0. Idle /\ Idle'
  BY Immediate
<1>1. PICK old, place : old = streams[h] /\ place = offset[old.fd]
  OBVIOUS
<1>2. PICK off, whence, base, target :
        /\ off \in {-1, 0} /\ whence \in {"set", "cur", "end"}
        /\ base = CASE whence = "set" -> 0 [] whence = "cur" -> place [] whence = "end" -> Len(file)
        /\ target = off + base
        /\ h \in DOMAIN streams /\ (whence = "cur" => old.ungetc = None)
        /\ call' = [op |-> "fseeko", stream |-> h, offset |-> off, whence |-> whence]
        /\ \/ target < 0 /\ streams' = Put(streams, h, Left(old, old.eof, TRUE, old.ungetc))
              /\ offset' = offset
           \/ target >= 0 /\ streams' = Put(streams, h, Sought(old))
              /\ offset' = Put(offset, old.fd, target)
        /\ file' = file
  BY <1>1, Zenon DEF Fseeko, Calls
<1>3. h \in DOMAIN streams /\ old \in Stream /\ old.fd \in DOMAIN offset /\ place \in Nat
      /\ file \in Seq(Content) /\ offset \in [DOMAIN offset -> Nat]
         /\ (old.ungetc # None => ~old.eof)
  BY <1>1, <1>2, ViewOfStream DEF StreamsOK
<1>4. call'.op = "fseeko" /\ call'.stream = h /\ call'.offset = off /\ call'.whence = whence
  BY <1>2
<1>5. base \in Nat /\ target \in Int
  <2>1. Len(file) \in Nat
    BY <1>3, LenProperties
  <2> QED BY <1>2, <1>3, <2>1
<1>6. PICK s, to : IF target < 0 THEN s = Left(old, old.eof, TRUE, old.ungetc) /\ to = place
                   ELSE s = Left(old, FALSE, old.error, None) /\ to = target
  OBVIOUS
<1>7. Changes(h, s, to) /\ s.error = (IF target < 0 THEN TRUE ELSE old.error)
      /\ s.ungetc = (IF target < 0 THEN old.ungetc ELSE None)
      /\ s.eof = (IF target < 0 THEN old.eof ELSE FALSE)
  <2>1. CASE target < 0
    <3>1. s = Left(old, old.eof, TRUE, old.ungetc) /\ to = place
      BY <1>6, <2>1
    <3>2. s \in Stream /\ s.fd = old.fd /\ s.mode = old.mode /\ s.eof = old.eof /\ s.error = TRUE
          /\ s.ungetc = old.ungetc
      BY <1>3, <3>1 DEF Left, Stream
    <3>3. streams' = [streams EXCEPT ![h] = s] /\ offset' = [offset EXCEPT ![s.fd] = to]
          /\ file' = file
      <4>1. ~(target >= 0)
        BY <1>5, <2>1
      <4>2. streams' = Put(streams, h, s) /\ offset' = offset /\ file' = file
        BY <1>2, <3>1, <4>1
      <4>3. offset = [offset EXCEPT ![old.fd] = place]
        BY <1>1, <1>3
      <4> QED BY <3>1, <3>2, <4>2, <4>3 DEF Put
    <3> QED BY <1>1, <1>3, <2>1, <3>1, <3>2, <3>3 DEF Changes
  <2>2. CASE ~(target < 0)
    <3>1. s = Left(old, FALSE, old.error, None) /\ to = target /\ to \in Nat
      BY <1>5, <1>6, <2>2
    <3>2. s \in Stream /\ s.fd = old.fd /\ s.mode = old.mode /\ s.eof = FALSE /\ s.error = old.error
          /\ s.ungetc = None
      BY <1>3, <3>1 DEF Left, Stream
    <3>3. streams' = [streams EXCEPT ![h] = s] /\ offset' = [offset EXCEPT ![s.fd] = to]
          /\ file' = file
      BY <1>1, <1>2, <1>3, <1>5, <2>2, <3>1, <3>2 DEF Put, Sought
    <3> QED BY <1>1, <1>3, <2>2, <3>1, <3>2, <3>3 DEF Changes
  <2> QED BY <2>1, <2>2
<1>8. CASE h \in Readers
  <2>1. StreamsOK' /\ h \in DOMAIN Input /\ Input' = [Input EXCEPT ![h] = ViewAt(s, to)]
    BY <1>0, <1>7, <1>8, Sets
  <2>2. Input[h] = ViewAt(old, place)
    BY <1>0, <1>1, <1>7, <1>8, Sets
  <2>3. /\ Input[h].at = (IF old.ungetc = None THEN place ELSE place - 1)
        /\ Input[h].back = (IF old.ungetc = None THEN << >> ELSE <<old.ungetc>>)
        /\ Input[h].eof = old.eof /\ Input[h].error = old.error
    BY <2>2 DEF ViewAt
  <2>4. base = CASE whence = "set" -> 0 [] whence = "cur" -> Input[h].at
                                     [] whence = "end" -> Len(file)
    BY <1>2, <2>3
  <2>5. CASE target < 0
    <3>1. s.ungetc = old.ungetc /\ s.eof = old.eof /\ s.error = TRUE /\ to = place
      BY <1>6, <1>7, <2>5
    <3>2. ViewAt(s, to) = C!Stream(Input[h].at, Input[h].back, Input[h].eof, TRUE)
      BY <2>3, <3>1, Zenon DEF ViewAt, C!Stream
    <3> QED BY <1>2, <1>4, <2>1, <2>4, <2>5, <3>2 DEF C!Next, C!Seek, C!Becomes
  <2>6. CASE ~(target < 0)
    <3>1. s.ungetc = None /\ s.eof = FALSE /\ s.error = old.error /\ to = target
      BY <1>6, <1>7, <2>6
    <3>2. ViewAt(s, to) = C!Stream(target, << >>, FALSE, Input[h].error)
      BY <2>3, <3>1, Zenon DEF ViewAt, C!Stream
    <3> QED BY <1>2, <1>4, <2>1, <2>4, <2>6, <3>2 DEF C!Next, C!Seek, C!Becomes
  <2> QED BY <2>5, <2>6
<1>9. CASE h \notin Readers
  <2>1. StreamsOK' /\ h \notin DOMAIN Input /\ Input' = Input
    BY <1>0, <1>7, <1>9, Sets
  <2> QED BY <1>4, <2>1 DEF C!Next, C!Elsewhere
<1> QED BY <1>8, <1>9

\* What a write leaves of the file and of the writer's place.
LEMMA WriteChanges ==
  ASSUME StreamsOK, NEW h \in DOMAIN streams, NEW bytes \in Seq(Bytes), Write(h, bytes)
  PROVE  \E place \in Nat : /\ offset' = [offset EXCEPT ![streams[h].fd] = place]
                            /\ file' \in Seq(Content)
<1>1. /\ streams[h].fd \in DOMAIN offset /\ offset[streams[h].fd] \in Nat
      /\ offset \in [DOMAIN offset -> Nat] /\ file \in Seq(Content)
  BY ViewOfStream DEF StreamsOK
<1>2. CASE bytes = << >>
  <2>1. offset' = offset /\ file' = file
    BY <1>2 DEF Write
  <2>2. offset = [offset EXCEPT ![streams[h].fd] = offset[streams[h].fd]]
    BY <1>1
  <2> QED BY <1>1, <2>1, <2>2
<1>3. CASE bytes # << >>
  <2>1. PICK at, n, m : at = WriteAt(h) /\ n = Len(bytes) /\ m = Len(file)
    OBVIOUS
  <2>2. file' = Written(bytes, at) /\ offset' = [offset EXCEPT ![streams[h].fd] = at + n]
    BY <1>3, <2>1 DEF Write
  <2>3. n \in Nat /\ m \in Nat
    BY <1>1, <2>1, LenProperties
  <2>4. at \in Nat
    BY <1>1, <2>1, <2>3 DEF WriteAt
  <2>5. PICK length \in Nat : length = Max({m, at + n}) /\ (length = m \/ length = at + n)
    <3>1. m \in Int /\ at + n \in Int
      BY <2>3, <2>4
    <3>2. Max({m, at + n}) = IF m >= at + n THEN m ELSE at + n
      BY <3>1, LargerOf, Zenon
    <3> QED BY <2>3, <2>4, <3>2
  <2>6. Written(bytes, at) =
          [i \in 1..length |-> CASE i \in (at + 1)..(at + n) -> bytes[i - at]
                                 [] i <= m -> file[i]
                                 [] OTHER -> Nul]
    BY <2>1, <2>5 DEF Written
  <2>7. ASSUME NEW i \in 1..length
        PROVE  (CASE i \in (at + 1)..(at + n) -> bytes[i - at] [] i <= m -> file[i] [] OTHER -> Nul)
                 \in Content
    <3>1. ASSUME i \in (at + 1)..(at + n) PROVE bytes[i - at] \in Content
      <4>1. i - at \in 1..Len(bytes)
        BY <2>1, <2>3, <2>4, <3>1
      <4>2. bytes[i - at] \in Bytes
        BY <4>1, ElementOfSeq
      <4> QED BY <4>2 DEF Content
    <3>2. ASSUME i <= m PROVE file[i] \in Content
      <4>1. i \in 1..Len(file)
        BY <2>1, <2>3, <3>2
      <4> QED BY <1>1, <4>1, ElementOfSeq
    <3>3. Nul \in Content
      BY DEF Content
    <3>4. CASE i \in (at + 1)..(at + n)
      <4>1. ~(i <= m) \/ TRUE
        OBVIOUS
      <4>2. CASE i <= m
        BY <3>1, <3>2, <3>4, <4>2
      <4>3. CASE ~(i <= m)
        BY <3>1, <3>4, <4>3
      <4> QED BY <4>2, <4>3
    <3>5. CASE i \notin (at + 1)..(at + n) /\ i <= m
      BY <3>2, <3>5
    <3>6. CASE i \notin (at + 1)..(at + n) /\ ~(i <= m)
      BY <3>3, <3>6
    <3> QED BY <3>4, <3>5, <3>6
  <2>8. Written(bytes, at) \in [1..length -> Content]
    BY <2>6, <2>7
  <2>9. file' \in Seq(Content)
    <3>1. PICK w : w = Written(bytes, at)
      OBVIOUS
    <3>2. w \in [1..length -> Content]
      BY <2>8, <3>1
    <3>3. w \in Seq(Content)
      BY <3>2
    <3> QED BY <2>2, <3>1, <3>3
  <2>10. at + n \in Nat
    BY <2>3, <2>4
  <2> QED BY <2>2, <2>9, <2>10
<1> QED BY <1>2, <1>3

\* What the kernel has taken is bytes of what it was given.
LEMMA TookBytes ==
  ASSUME NEW text \in Seq(Bytes), NEW n \in Int, n <= Len(text)
  PROVE  SubSeq(text, 1, Max({n, 0})) \in Seq(Bytes)
<1>1. Max({n, 0}) \in 0..Len(text) /\ Len(text) \in Nat
  BY MaxZero, LenProperties
<1>2. PICK m \in 0..Len(text) : m = Max({n, 0})
  BY <1>1
<1>3. SubSeq(text, 1, m) \in Seq(Bytes)
  BY <1>1, SubSeqProperties
<1> QED BY <1>2, <1>3

\* A write changes nothing that is read.
LEMMA Writing ==
  ASSUME StreamsOK, NEW h \in Writers, NEW bytes \in Seq(Bytes), Write(h, bytes), NEW s \in Stream,
         s.fd = streams[h].fd, s.mode = streams[h].mode, s.ungetc # None => ~s.eof,
         streams' = [streams EXCEPT ![h] = s],
         \A g \in Readers : ~OpenLine(g) /\ ~OpenLine(g)',
         call'.op \in {"fputs", "putc", "printf", "fwrite"}
  PROVE  StreamsOK' /\ Readers' = Readers /\ DOMAIN streams' = DOMAIN streams /\ C!Next
<1>1. h \in DOMAIN streams /\ h \notin Readers
  BY DEF Writers
<1>2. PICK place \in Nat : offset' = [offset EXCEPT ![streams[h].fd] = place]
      /\ file' \in Seq(Content)
  BY <1>1, WriteChanges
<1>3. Changes(h, s, place)
  BY <1>1, <1>2 DEF Changes
<1>4. Input' = Input
  BY <1>1, <1>3, InputChanges
<1>5. C!Next
  BY <1>4 DEF C!Next, C!Elsewhere, C!Outputs
<1> QED BY <1>3, <1>5, ChangesKeep

\* fputs, putc and printf write.
LEMMA FputsActs ==
  ASSUME StreamsOK, NEW h \in Handles, Fputs(h) PROVE StreamsOK' /\ C!Next
<1>0. Idle /\ Idle'
  BY Immediate
<1>1. PICK op, bytes, n, text :
        /\ op \in {"fputs", "putc", "printf"} /\ bytes \in Data /\ n \in Taken(2)
        /\ text = IF op = "putc" THEN SubSeq(bytes, 1, 1) ELSE bytes
        /\ h \in Writers /\ (op = "putc" => bytes # << >>) /\ n <= Len(text)
        /\ call' = [op |-> op, stream |-> h]
        /\ Write(h, SubSeq(text, 1, Max({n, 0}))) /\ streams' = streams
  BY Zenon DEF Fputs, Calls
<1>2. text \in Seq(Bytes)
  <2>1. bytes \in Seq(Bytes) /\ Len(bytes) \in Nat
    BY <1>1, StdioAssumption, LenProperties
  <2>2. CASE op = "putc"
    <3>1. Len(bytes) \in Nat \ {0}
      BY <1>1, <2>1, <2>2, EmptySeq
    <3>2. SubSeq(bytes, 1, 1) \in Seq(Bytes)
      BY <2>1, <3>1, SubSeqProperties
    <3> QED BY <1>1, <2>2, <3>2
  <2>3. CASE op # "putc"
    BY <1>1, <2>1, <2>3
  <2> QED BY <2>2, <2>3
<1>3. n \in Int
  BY <1>1 DEF Taken
<1>4. SubSeq(text, 1, Max({n, 0})) \in Seq(Bytes)
  BY <1>1, <1>2, <1>3, TookBytes
<1>5. PICK s : s = streams[h]
  OBVIOUS
<1>6. s \in Stream /\ (s.ungetc # None => ~s.eof) /\ streams' = [streams EXCEPT ![h] = s]
  <2>1. h \in DOMAIN streams
    BY <1>1 DEF Writers
  <2> QED BY <1>1, <1>5, <2>1, ViewOfStream DEF StreamsOK
<1>7. \A g \in Readers : ~OpenLine(g) /\ ~OpenLine(g)'
  BY <1>0 DEF OpenLine
<1>8. call'.op \in {"fputs", "putc", "printf", "fwrite"}
  BY <1>1
<1> QED BY <1>1, <1>4, <1>5, <1>6, <1>7, <1>8, Writing

\* A write of an fwrite.
LEMMA FwriteStepActs ==
  ASSUME StreamsOK, Quiet, Taking, FwriteStep PROVE StreamsOK' /\ Quiet' /\ C!Next
<1>1. PICK h : h = call.stream
  OBVIOUS
<1>2. /\ ~Idle /\ call.op = "fwrite" /\ call' = call /\ line' = line /\ h \in Writers
  BY <1>1 DEF FwriteStep, Quiet, WriterOK
<1>3. PICK n \in Taken(Len(Unwritten)) :
        /\ Write(h, SubSeq(Unwritten, 1, Max({n, 0})))
        /\ streams' =
             IF n < 0 THEN Put(streams, h, Left(streams[h], streams[h].eof, TRUE,
               streams[h].ungetc))
             ELSE streams
  BY <1>1, Zenon DEF FwriteStep
<1>4. Unwritten \in Seq(Bytes) /\ Len(Unwritten) \in Nat
  <2>1. call.data \in Seq(Bytes) /\ done \in 0..Len(call.data) /\ Len(call.data) \in Nat
    BY <1>2, LenProperties DEF Taking
  <2>2. PICK d \in Nat, data \in Seq(Bytes) : d = done /\ data = call.data
    BY <2>1
  <2>3. d \in 0..Len(data) /\ Len(data) \in Nat
    BY <2>1, <2>2
  <2>4. CASE d = Len(data)
    <3>1. SubSeq(data, d + 1, Len(data)) = << >>
      BY <2>3, <2>4, SubSeqEmpty
    <3> QED BY <2>2, <3>1, EmptySeq DEF Unwritten
  <2>5. CASE d < Len(data)
    <3>1. SubSeq(data, d + 1, Len(data)) \in Seq(Bytes)
      BY <2>3, <2>5, SubSeqProperties
    <3> QED BY <2>2, <3>1, LenProperties DEF Unwritten
  <2> QED BY <2>3, <2>4, <2>5
<1>5. n \in Int /\ n <= Len(Unwritten)
  BY <1>4 DEF Taken
<1>6. SubSeq(Unwritten, 1, Max({n, 0})) \in Seq(Bytes)
  BY <1>4, <1>5, TookBytes
<1>7. PICK s : s = IF n < 0 THEN Left(streams[h], streams[h].eof, TRUE, streams[h].ungetc)
        ELSE streams[h]
  OBVIOUS
<1>8. h \in DOMAIN streams /\ streams[h] \in Stream /\ (streams[h].ungetc # None => ~streams[h].eof)
  <2>1. h \in DOMAIN streams
    BY <1>2 DEF Writers
  <2> QED BY <2>1, ViewOfStream
<1>9. s \in Stream /\ s.fd = streams[h].fd /\ s.mode = streams[h].mode
      /\ (s.ungetc # None => ~s.eof)
  <2>1. CASE n < 0
    <3>1. s = Left(streams[h], streams[h].eof, TRUE, streams[h].ungetc)
      BY <1>7, <2>1
    <3> QED BY <1>8, <3>1 DEF Left, Stream
  <2>2. CASE ~(n < 0)
    BY <1>7, <1>8, <2>2
  <2> QED BY <2>1, <2>2
<1>10. streams' = [streams EXCEPT ![h] = s]
  <2>1. CASE n < 0
    BY <1>3, <1>7, <2>1 DEF Put
  <2>2. CASE ~(n < 0)
    <3>1. streams' = streams /\ s = streams[h]
      BY <1>3, <1>7, <2>2
    <3>2. streams = [streams EXCEPT ![h] = streams[h]]
      BY <1>8 DEF StreamsOK
    <3> QED BY <3>1, <3>2
  <2> QED BY <2>1, <2>2
<1>11. \A g \in Readers : ~OpenLine(g) /\ ~OpenLine(g)'
  BY <1>2 DEF OpenLine
<1>12. call'.op \in {"fputs", "putc", "printf", "fwrite"}
  BY <1>2
<1>13. StreamsOK' /\ Readers' = Readers /\ DOMAIN streams' = DOMAIN streams /\ C!Next
  BY <1>2, <1>3, <1>6, <1>9, <1>10, <1>11, <1>12, Writing
<1>14. WriterOK'
  BY <1>1, <1>2, <1>13 DEF WriterOK, Writers
<1>15. Quiet'
  BY <1>2, <1>14 DEF Quiet, LineOK, LineTerminated
<1> QED BY <1>13, <1>15

\* An fwrite begins.
LEMMA FwriteActs ==
  ASSUME StreamsOK, NEW h \in Handles, Fwrite(h) PROVE StreamsOK' /\ Quiet' /\ C!Next
<1>1. /\ Idle /\ h \in Writers /\ call'.op = "fwrite" /\ call'.stream = h /\ line' = NoLine
      /\ streams' = streams /\ offset' = offset /\ file' = file
  BY DEF Fwrite, Calls
<1>2. \A g \in Readers : ~OpenLine(g) /\ ~OpenLine(g)'
  BY <1>1 DEF OpenLine
<1>3. file' \in Seq(Content)
  BY <1>1 DEF StreamsOK
<1>4. StreamsOK' /\ Input' = Input
  BY <1>1, <1>2, <1>3, Leaves
<1>5. C!Next
  BY <1>1, <1>4 DEF C!Next, C!Elsewhere, C!Outputs
<1>6. Writers' = Writers
  BY <1>1 DEF Writers, Readers
<1>7. Quiet'
  BY <1>1, <1>6, NoLineBuffer DEF Quiet, LineOK, WriterOK, LineTerminated
<1> QED BY <1>4, <1>5, <1>7

\* fopen gives a stream a descriptor that nobody has.
LEMMA FopenActs ==
  ASSUME StreamsOK, NEW h \in Handles, Fopen(h) PROVE StreamsOK' /\ C!Next
<1>0. \A g : ~OpenLine(g) /\ ~OpenLine(g)'
  BY Immediate DEF OpenLine
<1>1. PICK mode \in {"r", "w", "a"} :
        /\ h \notin DOMAIN streams /\ call' = [op |-> "fopen", stream |-> h, mode |-> mode]
        /\ \/ file' = file /\ offset' = offset /\ streams' = streams
           \/ \E fd \in Fds \ DOMAIN offset :
                /\ file' = IF mode = "w" THEN << >> ELSE file
                /\ offset' = Added(offset, fd, 0)
                /\ streams' = Added(streams, h, [fd |-> fd, mode |-> mode, eof |-> FALSE,
                                                 error |-> FALSE, ungetc |-> None])
  BY Zenon DEF Fopen, Calls
<1>2. call'.op = "fopen" /\ call'.stream = h
  BY <1>1
<1>3. file \in Seq(Content) /\ << >> \in Seq(Content)
  BY DEF StreamsOK
<1>4. CASE file' = file /\ offset' = offset /\ streams' = streams
  <2>1. StreamsOK' /\ Input' = Input
    BY <1>0, <1>3, <1>4, Leaves
  <2> QED BY <1>2, <2>1 DEF C!Next, C!Elsewhere
<1>5. CASE ~(file' = file /\ offset' = offset /\ streams' = streams)
  <2>1. PICK fd, s :
          /\ fd \in Fds \ DOMAIN offset
          /\ file' = IF mode = "w" THEN << >> ELSE file
          /\ offset' = Added(offset, fd, 0) /\ streams' = Added(streams, h, s)
          /\ s = [fd |-> fd, mode |-> mode, eof |-> FALSE, error |-> FALSE, ungetc |-> None]
    BY <1>1, <1>5
  <2>2. fd \in Nat /\ fd \notin DOMAIN offset
    BY <2>1, FS_CardinalityType, StdioAssumption DEF Fds
  <2>3. s \in Stream /\ s.fd = fd /\ s.mode = mode /\ s.ungetc = None /\ s.eof = FALSE
        /\ s.error = FALSE
    BY <2>1, <2>2 DEF Stream
  <2>4. /\ DOMAIN offset' = DOMAIN offset \cup {fd} /\ offset'[fd] = 0
        /\ \A x \in DOMAIN offset : offset'[x] = offset[x] /\ x # fd
        /\ DOMAIN streams' = DOMAIN streams \cup {h} /\ streams'[h] = s
        /\ \A x \in DOMAIN streams : streams'[x] = streams[x] /\ x # h
    BY <1>1, <2>1, <2>2 DEF Added
  <2>5. file' \in Seq(Content)
    BY <1>3, <2>1
  <2>6. \A x \in DOMAIN streams : /\ streams[x].fd \in DOMAIN offset /\ streams[x].fd # fd
                                  /\ streams[x].ungetc # None => ~streams[x].eof
                                  /\ streams[x] \in Stream
    BY <2>2 DEF StreamsOK
  <2>7. offset' \in [DOMAIN offset' -> Nat] /\ DOMAIN offset' \subseteq Nat
    <3>1. offset' = [x \in DOMAIN offset \cup {fd} |-> IF x = fd THEN 0 ELSE offset[x]]
      BY <2>1 DEF Added
    <3> QED BY <2>2, <3>1 DEF StreamsOK
  <2>8. streams' \in [DOMAIN streams' -> Stream]
    <3>1. streams' = [x \in DOMAIN streams \cup {h} |-> IF x = h THEN s ELSE streams[x]]
      BY <2>1 DEF Added
    <3> QED BY <2>3, <2>6, <3>1
  <2>9. \A x \in DOMAIN streams' : /\ streams'[x].fd \in DOMAIN offset'
                                   /\ streams'[x].ungetc # None => ~streams'[x].eof
    BY <2>3, <2>4, <2>6
  <2>10. \A x, y \in DOMAIN streams' : streams'[x].fd = streams'[y].fd => x = y
    BY <2>3, <2>4, <2>6 DEF StreamsOK
  <2>11. StreamsOK'
    BY <2>5, <2>7, <2>8, <2>9, <2>10 DEF StreamsOK
  <2>12. Input = [g \in Readers |-> InputOf(g)] /\ Input' = [g \in Readers' |-> InputOf(g)']
    BY <2>11, InputValue, InputValueNext
  <2>13. \A g \in Readers : g \in DOMAIN streams /\ g # h /\ streams'[g].mode = "r"
                            /\ InputOf(g)' = InputOf(g)
    <3>1. \A g \in Readers : g \in DOMAIN streams /\ streams'[g] = streams[g] /\ g # h
                             /\ offset'[streams[g].fd] = offset[streams[g].fd]
      BY <2>4, <2>6 DEF Readers
    <3> QED BY <1>0, <3>1 DEF InputOf, ViewAt, Readers
  <2>14. CASE mode = "r"
    <3>1. Readers' = Readers \cup {h}
      BY <2>3, <2>4, <2>13, <2>14 DEF Readers
    <3>2. InputOf(h)' = C!Stream(0, << >>, FALSE, FALSE)
      BY <1>0, <2>3, <2>4 DEF InputOf, ViewAt, C!Stream
    <3>3. DOMAIN Input = Readers /\ h \notin DOMAIN Input
      BY <2>12, <2>13
    <3>4. Input' = [x \in DOMAIN Input \cup {h} |->
                      IF x = h THEN C!Stream(0, << >>, FALSE, FALSE) ELSE Input[x]]
      BY <2>12, <2>13, <3>1, <3>2, <3>3
    <3> QED BY <1>2, <2>11, <3>3, <3>4 DEF C!Next, C!Open
  <2>15. CASE mode # "r"
    <3>1. Readers' = Readers
      BY <2>3, <2>4, <2>13, <2>15 DEF Readers
    <3>2. Input' = Input
      BY <2>12, <2>13, <3>1
    <3> QED BY <1>2, <2>11, <3>2 DEF C!Next, C!Elsewhere
  <2> QED BY <2>14, <2>15
<1> QED BY <1>4, <1>5

\* fclose takes the stream and its descriptor away.
LEMMA FcloseActs ==
  ASSUME StreamsOK, NEW h \in Handles, Fclose(h) PROVE StreamsOK' /\ C!Next
<1>0. \A g : ~OpenLine(g) /\ ~OpenLine(g)'
  BY Immediate DEF OpenLine
<1>1. PICK fd : fd = streams[h].fd
  OBVIOUS
<1>2. /\ h \in DOMAIN streams /\ call'.op = "fclose" /\ call'.stream = h /\ file' = file
      /\ streams' = [x \in DOMAIN streams \ {h} |-> streams[x]]
      /\ offset' = [x \in DOMAIN offset \ {fd} |-> offset[x]]
  BY <1>1 DEF Fclose, Calls, Restrict
<1>3. /\ DOMAIN streams' = DOMAIN streams \ {h} /\ DOMAIN offset' = DOMAIN offset \ {fd}
      /\ \A x \in DOMAIN streams \ {h} : streams'[x] = streams[x]
      /\ \A x \in DOMAIN offset \ {fd} : offset'[x] = offset[x]
  BY <1>2
<1>4. \A x \in DOMAIN streams \ {h} : /\ streams[x].fd \in DOMAIN offset /\ streams[x].fd # fd
                                      /\ streams[x].ungetc # None => ~streams[x].eof
                                      /\ streams[x] \in Stream
  BY <1>1, <1>2 DEF StreamsOK
<1>5. offset' \in [DOMAIN offset' -> Nat] /\ DOMAIN offset' \subseteq Nat
  BY <1>2 DEF StreamsOK
<1>6. streams' \in [DOMAIN streams' -> Stream]
  BY <1>2, <1>4
<1>7. \A x \in DOMAIN streams' : /\ streams'[x].fd \in DOMAIN offset'
                                 /\ streams'[x].ungetc # None => ~streams'[x].eof
  BY <1>3, <1>4
<1>8. \A x, y \in DOMAIN streams' : streams'[x].fd = streams'[y].fd => x = y
  BY <1>3 DEF StreamsOK
<1>9. StreamsOK'
  BY <1>2, <1>5, <1>6, <1>7, <1>8 DEF StreamsOK
<1>10. Input = [g \in Readers |-> InputOf(g)] /\ Input' = [g \in Readers' |-> InputOf(g)']
  BY <1>9, InputValue, InputValueNext
<1>11. Readers' = Readers \ {h}
  BY <1>3 DEF Readers
<1>12. \A g \in Readers' : InputOf(g)' = InputOf(g)
  <2>1. \A g \in Readers' : g \in DOMAIN streams \ {h} /\ streams'[g] = streams[g]
                           /\ offset'[streams[g].fd] = offset[streams[g].fd]
    BY <1>3, <1>4, <1>11 DEF Readers
  <2> QED BY <1>0, <2>1 DEF InputOf, ViewAt
<1>13. DOMAIN Input = Readers
  BY <1>10
<1>14. Input' = [g \in DOMAIN Input \ {h} |-> Input[g]]
  BY <1>10, <1>11, <1>12, <1>13
<1>15. CASE h \in Readers
  BY <1>2, <1>9, <1>13, <1>14, <1>15 DEF C!Next, C!Close, C!Restrict
<1>16. CASE h \notin Readers
  <2>1. Input' = Input
    BY <1>10, <1>11, <1>12, <1>16
  <2> QED BY <1>2, <1>9, <1>13, <1>16, <2>1 DEF C!Next, C!Elsewhere
<1> QED BY <1>15, <1>16

\* A getline begins.
LEMMA GetlineActs ==
  ASSUME StreamsOK, Quiet, NEW h \in Handles, Getline(h) PROVE StreamsOK' /\ Quiet' /\ C!Next
<1>1. PICK before : before = Logical(streams[h])
  OBVIOUS
<1>2. /\ Idle /\ h \in Readers /\ call' = [op |-> "getline", stream |-> h, before |-> before]
      /\ line' \in Lines \cup {line} /\ done' = 0 /\ answer' = [bytes |-> << >>, value |-> 0]
      /\ file' = file /\ offset' = offset /\ streams' = streams
  BY <1>1 DEF Getline, Calls
<1>3. call'.op = "getline" /\ call'.stream = h /\ call'.before = before
  BY <1>2
<1>4. ~Idle' /\ h \in DOMAIN streams
  BY <1>2, StdioAssumption DEF Idle, Readers
<1>5. before = ViewAt(streams[h], offset[streams[h].fd]) /\ before \in View
      /\ offset[streams[h].fd] \in Nat
  BY <1>1, <1>4, ViewOfStream
<1>6. StreamsOK' /\ Readers' = Readers
  BY <1>2 DEF StreamsOK, Readers
<1>7. \A g \in Readers : InputOf(g)' = InputOf(g)
  <2>1. \A g \in Readers : InputOf(g) = ViewAt(streams[g], offset[streams[g].fd])
    BY <1>2 DEF InputOf, OpenLine
  <2>2. \A g \in Readers \ {h} : InputOf(g)' = ViewAt(streams[g], offset[streams[g].fd])
    BY <1>2, <1>3 DEF InputOf, OpenLine, ViewAt
  <2>3. InputOf(h)' = before
    BY <1>3, <1>4 DEF InputOf, OpenLine
  <2> QED BY <1>2, <1>5, <2>1, <2>2, <2>3
<1>8. Input' = Input
  BY <1>6, <1>7, InputValue, InputValueNext
<1>9. C!Next
  BY <1>2, <1>3, <1>8 DEF C!Next, C!Elsewhere, C!Unanswered
<1>10. line' \in Buffers
  BY <1>2, StdioAssumption DEF Quiet
<1>11. LineOK'
  <2>1. Len(before.back) \in {0, 1} /\ before.at + Len(before.back) \in Nat
    <3>1. CASE streams[h].ungetc = None
      BY <1>5, <3>1 DEF ViewAt
    <3>2. CASE streams[h].ungetc # None
      BY <1>5, <3>2 DEF ViewAt
    <3> QED BY <3>1, <3>2
  <2>3. h \in Readers'
    BY <1>2, <1>6
  <2>4. before = ViewAt(streams'[h], offset'[streams'[h].fd])
    BY <1>2, <1>5
  <2>5. 0 \in Nat /\ ~(0 > 0)
    OBVIOUS
  <2> QED BY <1>2, <1>3, <1>5, <2>1, <2>3, <2>4, <2>5 DEF LineOK
<1>12. WriterOK' /\ LineTerminated'
  BY <1>3, <1>4 DEF WriterOK, LineTerminated
<1> QED BY <1>6, <1>9, <1>10, <1>11, <1>12 DEF Quiet

\* A byte that is pushed back, and a file from a place on.
FromHere(back, f, next) == back \o After(f, next)

\* The byte after the first d of them is the file's next one.
IsNext(back, f, next, d) ==
  d + 1 <= Len(FromHere(back, f, next))
  /\ FromHere(back, f, next)[d + 1] = f[next + d - Len(back) + 1]

\* What a stream has still to deliver, one byte at a time: the pushed byte, then
\* the file.
LEMMA AheadAt ==
  ASSUME NEW f \in Seq(Content), NEW back \in Seq(Content), NEW next \in Nat, NEW d \in Nat,
         Len(back) <= d
  PROVE  /\ FromHere(back, f, next) \in Seq(Content)
         /\ next + d - Len(back) < Len(f) => IsNext(back, f, next, d)
         /\ ~(next + d - Len(back) < Len(f)) /\ d <= Len(FromHere(back, f, next)) =>
              d = Len(FromHere(back, f, next))
<1>1. PICK m, b \in Nat : m = Len(f) /\ b = Len(back)
  BY LenProperties
<1>2. PICK rest : rest = After(f, next)
  OBVIOUS
<1>3. /\ rest \in Seq(Content) /\ Len(rest) = (IF next + 1 <= m THEN m - next ELSE 0)
      /\ \A i \in 1..Len(rest) : rest[i] = f[next + i]
  BY <1>1, <1>2, SubSeqProperties DEF After
<1>5. PICK k \in Nat : k = Len(rest)
  BY <1>3, LenProperties
<1>4. PICK ahead : /\ ahead = FromHere(back, f, next)
                   /\ ahead \in Seq(Content) /\ Len(ahead) = b + k
                   /\ \A i \in 1..(b + k) : ahead[i] = IF i <= b THEN back[i] ELSE rest[i - b]
  <2>1. /\ back \o rest \in Seq(Content) /\ Len(back \o rest) = Len(back) + Len(rest)
        /\ \A i \in 1..(Len(back) + Len(rest)) :
             (back \o rest)[i] = IF i <= Len(back) THEN back[i] ELSE rest[i - Len(back)]
    BY <1>3, ConcatProperties
  <2> QED BY <1>1, <1>2, <1>5, <2>1 DEF FromHere
<1>6. ASSUME next + d - b < m PROVE d + 1 <= Len(ahead) /\ ahead[d + 1] = f[next + d - b + 1]
  <2>1. b <= d /\ k = m - next /\ d + 1 - b \in 1..k /\ d + 1 \in 1..(b + k) /\ ~(d + 1 <= b)
    BY <1>1, <1>3, <1>5, <1>6
  <2>2. ahead[d + 1] = rest[d + 1 - b]
    BY <1>4, <1>5, <2>1
  <2>3. rest[d + 1 - b] = f[next + (d + 1 - b)]
    BY <1>3, <1>5, <2>1
  <2>4. next + (d + 1 - b) = next + d - b + 1
    BY <1>1
  <2> QED BY <1>4, <1>5, <2>1, <2>2, <2>3, <2>4
<1>7. ASSUME ~(next + d - b < m), d <= Len(ahead) PROVE d = Len(ahead)
  <2>1. b <= d /\ d <= b + k
    BY <1>1, <1>4, <1>5, <1>7
  <2>2. k = IF next + 1 <= m THEN m - next ELSE 0
    BY <1>3, <1>5
  <2>3. d = b + k
    BY <1>1, <1>7, <2>1, <2>2
  <2> QED BY <1>4, <2>3
<1> QED BY <1>1, <1>4, <1>6, <1>7 DEF IsNext

\* A read of one byte gives the next one, or nothing at the end.
LEMMA NextByte ==
  ASSUME NEW f \in Seq(Content), NEW place \in Nat
  PROVE  /\ place < Len(f) => /\ Upcoming(f, place, 1) # << >> /\ Len(Upcoming(f, place, 1)) = 1
                              /\ Upcoming(f, place, 1)[1] = f[place + 1] /\ f[place + 1] \in Content
         /\ ~(place < Len(f)) => Upcoming(f, place, 1) = << >>
<1>1. PICK m \in Nat : m = Len(f)
  BY LenProperties
<1>2. PICK last \in Nat : last = Min({place + 1, m})
      /\ last = IF place + 1 <= m THEN place + 1 ELSE m
  BY <1>1, SmallerOf
<1>3. PICK data : data = Upcoming(f, place, 1) /\ data = SubSeq(f, place + 1, last)
  BY <1>1, <1>2 DEF Upcoming
<1>4. CASE place < m
  <2>1. last = place + 1 /\ place + 1 \in 1..Len(f)
    BY <1>1, <1>2, <1>4
  <2>2. /\ data \in Seq(Content) /\ Len(data) = (IF place + 1 <= last THEN last - place ELSE 0)
        /\ \A i \in 1..Len(data) : data[i] = f[place + i]
    <3>1. /\ SubSeq(f, place + 1, last) \in Seq(Content)
          /\ Len(SubSeq(f, place + 1, last)) = (IF place + 1 <= last THEN last - place ELSE 0)
          /\ \A i \in 1..Len(SubSeq(f, place + 1, last)) :
               SubSeq(f, place + 1, last)[i] = f[place + i]
      BY <1>1, <2>1, SubSeqProperties
    <3> QED BY <1>3, <3>1
  <2>3. Len(data) = 1 /\ data[1] = f[place + 1]
    <3>1. Len(data) = 1
      BY <2>1, <2>2
    <3>2. 1 \in 1..Len(data)
      BY <3>1
    <3> QED BY <2>2, <3>1, <3>2
  <2>4. f[place + 1] \in Content /\ data # << >>
    BY <2>1, <2>3, ElementOfSeq
  <2> QED BY <1>1, <1>3, <1>4, <2>3, <2>4
<1>5. CASE ~(place < m)
  <2>1. last < place + 1
    BY <1>1, <1>2, <1>5
  <2>2. SubSeq(f, place + 1, last) = << >>
    BY <2>1, SubSeqEmpty
  <2> QED BY <1>1, <1>3, <1>5, <2>2
<1> QED BY <1>1, <1>4, <1>5

\* A getline takes the byte that is next, or finds none: there is none, or the
\* read has failed.
Takes(h, byte) ==
  LET before == call.before IN
  /\ done + 1 <= Len(AheadOf(before)) /\ byte = AheadOf(before)[done + 1] /\ Stores(byte)
  /\ Len(before.back) <= done + 1
  /\ Changes(h, Left(streams[h], before.eof, before.error, None), before.at + (done + 1))
Stops(h, failed) ==
  LET before == call.before IN
  /\ failed \/ done = Len(AheadOf(before))
  /\ \/ done > 0 /\ Ends(line, done)
     \/ done = 0 /\ done' = None /\ line' = line /\ answer' = [bytes |-> << >>, value |-> -1]
  /\ done = 0 => before.back = << >>
  /\ Changes(h, Left(streams[h], before.eof \/ ~failed, before.error \/ failed, None),
             before.at + done)

\* What a getline in progress has found of stream h, in numbers.
Found(h, old, before, d) ==
  /\ h \in Readers /\ h \in DOMAIN streams /\ old \in Stream /\ old.fd \in DOMAIN offset
  /\ d \in Nat /\ before \in View /\ before.back \in Seq(Content)
  /\ before.at + Len(before.back) \in Nat /\ Len(before.back) \in {0, 1}
  /\ AheadOf(before) = FromHere(before.back, file, before.at + Len(before.back))
  /\ AheadOf(before) \in Seq(Content) /\ d <= Len(AheadOf(before))
  /\ before.eof = old.eof /\ before.error = old.error
  /\ old.ungetc # None => /\ d = 0 /\ old.ungetc \in Bytes /\ ~old.eof
                          /\ before.back = <<old.ungetc>> /\ offset[old.fd] = before.at + 1
  /\ old.ungetc = None => Len(before.back) <= d /\ offset[old.fd] = before.at + d

\* The bytes in the buffer place the stream.
LEMMA LineState ==
  ASSUME StreamsOK, LineOK, ~Idle, call.op = "getline"
  PROVE  Found(call.stream, streams[call.stream], call.before, done)
<1>0. PICK old, before : old = streams[call.stream] /\ before = call.before
  OBVIOUS
<1>1. PICK h, place, d : h = call.stream /\ place = offset[old.fd] /\ d = done
  OBVIOUS
<1>2. /\ h \in Readers /\ d \in Nat
      /\ before \in View /\ Len(before.back) \in {0, 1} /\ before.at + Len(before.back) \in Nat
      /\ d = 0 => before = ViewAt(old, place)
      /\ d > 0 => /\ old.ungetc = None /\ old.eof = before.eof /\ old.error = before.error
                  /\ place = before.at + d /\ Len(before.back) <= d
                  /\ d <= Len(AheadOf(before))
  BY <1>0, <1>1 DEF LineOK
<1>3. h \in DOMAIN streams /\ old \in Stream /\ old.fd \in DOMAIN offset /\ place \in Nat
      /\ (old.ungetc # None => old.ungetc \in Bytes /\ ~old.eof) /\ file \in Seq(Content)
  BY <1>0, <1>1, <1>2, ViewOfStream DEF Readers, StreamsOK
<1>4. before.back \in Seq(Bytes) /\ before.at \in Int
  BY <1>2 DEF View
<1>5. before.back \in Seq(Content)
  <2>1. Bytes \subseteq Content
    BY DEF Content
  <2> QED BY <1>4, <2>1
<1>6. AheadOf(before) = FromHere(before.back, file, before.at + Len(before.back))
  BY DEF AheadOf, FromHere, After
<1>7. AheadOf(before) \in Seq(Content)
  <2>1. PICK b, next \in Nat : b = Len(before.back) /\ next = before.at + Len(before.back)
    BY <1>2
  <2>2. FromHere(before.back, file, next) \in Seq(Content)
    BY <1>3, <1>5, <2>1, AheadAt
  <2> QED BY <1>6, <2>1, <2>2
<1>8. ASSUME d = 0 PROVE Found(h, old, before, d)
  <2>1. /\ before.at = (IF old.ungetc = None THEN place ELSE place - 1)
        /\ before.back = (IF old.ungetc = None THEN << >> ELSE <<old.ungetc>>)
        /\ before.eof = old.eof /\ before.error = old.error
    BY <1>2, <1>8 DEF ViewAt
  <2>2. d <= Len(AheadOf(before))
    BY <1>7, <1>8, LenProperties
  <2>3. old.ungetc # None => before.back = <<old.ungetc>> /\ place = before.at + 1
    BY <1>3, <2>1
  <2>4. old.ungetc = None => Len(before.back) <= d /\ place = before.at + d
    BY <1>3, <1>8, <2>1
  <2> QED BY <1>1, <1>2, <1>3, <1>5, <1>6, <1>7, <1>8, <2>1, <2>2, <2>3, <2>4 DEF Found
<1>9. ASSUME d > 0 PROVE Found(h, old, before, d)
  <2>1. old.ungetc = None /\ before.eof = old.eof /\ before.error = old.error
        /\ place = before.at + d /\ Len(before.back) <= d /\ d <= Len(AheadOf(before))
    BY <1>2, <1>9
  <2> QED BY <1>1, <1>2, <1>3, <1>5, <1>6, <1>7, <2>1 DEF Found
<1>10. d = 0 \/ d > 0
  BY <1>2
<1>11. Found(h, old, before, d)
  BY <1>8, <1>9, <1>10
<1> QED BY <1>0, <1>1, <1>11

\* Each step of a getline takes the byte that is next or stops.
LEMMA GetlineByteDoes ==
  ASSUME StreamsOK, LineOK, GetlineByte
  PROVE  \/ \E byte \in Content : Takes(call.stream, byte)
         \/ \E failed \in BOOLEAN : Stops(call.stream, failed)
<1>1. PICK h, old, before, d : h = call.stream /\ old = streams[h] /\ before = call.before
      /\ d = done
  OBVIOUS
<1>2. /\ ~Idle /\ call.op = "getline" /\ file' = file
      /\ \/ /\ old.ungetc # None /\ Stores(old.ungetc)
            /\ streams' = Put(streams, h, Unpushed(old)) /\ offset' = offset
         \/ /\ old.ungetc = None
            /\ \E r \in Reads(old.fd, 1) :
                 /\ streams' = Put(streams, h, Marked(old, r, r.data = << >>))
                 /\ offset' = [offset EXCEPT ![old.fd] = @ + Len(r.data)]
                 /\ \/ r.data # << >> /\ Stores(r.data[1])
                    \/ r.data = << >> /\ d > 0 /\ Ends(line, d)
                    \/ /\ r.data = << >> /\ d = 0 /\ done' = None
                       /\ answer' = [bytes |-> << >>, value |-> -1] /\ line' = line
  BY <1>1, Zenon DEF GetlineByte, Advance
<1>0. Found(h, old, before, d)
  BY <1>1, <1>2, LineState
<1>3. /\ h \in DOMAIN streams /\ old \in Stream /\ old.fd \in DOMAIN offset
      /\ d \in Nat /\ before \in View /\ before.back \in Seq(Content)
      /\ before.at + Len(before.back) \in Nat /\ Len(before.back) \in {0, 1}
      /\ AheadOf(before) = FromHere(before.back, file, before.at + Len(before.back))
      /\ AheadOf(before) \in Seq(Content) /\ d <= Len(AheadOf(before))
      /\ before.eof = old.eof /\ before.error = old.error
  BY <1>0 DEF Found
<1>4. offset[old.fd] \in Nat /\ offset \in [DOMAIN offset -> Nat] /\ file \in Seq(Content)
  BY <1>3 DEF StreamsOK
<1>5. PICK ahead : ahead = AheadOf(before)
  OBVIOUS
<1>6. PICK b, next \in Nat : b = Len(before.back) /\ next = before.at + b
      /\ ahead = FromHere(before.back, file, next)
  BY <1>3, <1>5
<1>7. before.at \in Int /\ before.eof \in BOOLEAN /\ before.error \in BOOLEAN
  BY <1>3 DEF View
<1>8. ASSUME NEW eof \in BOOLEAN, NEW error \in BOOLEAN, NEW place \in Nat,
             streams' = Put(streams, h, Left(old, eof, error, None)),
             offset' = [offset EXCEPT ![old.fd] = place]
      PROVE  Changes(h, Left(old, eof, error, None), place)
  <2>1. PICK s : s = Left(old, eof, error, None)
    OBVIOUS
  <2>2. s \in Stream /\ s.fd = old.fd /\ s.mode = old.mode /\ s.ungetc = None
    BY <1>3, <2>1 DEF Left, Stream
  <2> QED BY <1>1, <1>2, <1>3, <1>4, <1>8, <2>1, <2>2 DEF Changes, Put
<1>9. CASE old.ungetc # None
  <2>1. d = 0 /\ old.ungetc \in Bytes /\ ~old.eof /\ before.back = <<old.ungetc>> /\ b = 1
        /\ offset[old.fd] = before.at + 1
    <3>1. d = 0 /\ old.ungetc \in Bytes /\ ~old.eof /\ before.back = <<old.ungetc>>
          /\ offset[old.fd] = before.at + 1
      BY <1>0, <1>9 DEF Found
    <3> QED BY <1>6, <3>1
  <2>2. PICK byte \in Content : byte = old.ungetc
    BY <2>1 DEF Content
  <2>3. /\ Stores(byte) /\ offset' = offset
        /\ streams' = Put(streams, h, Left(old, FALSE, old.error, None))
    BY <1>2, <1>9, <2>2 DEF Unpushed
  <2>4. 1 <= Len(ahead) /\ ahead[1] = byte
    <3>1. PICK rest : rest = After(file, next)
      OBVIOUS
    <3>2. rest \in Seq(Content)
      <4>1. PICK m \in Nat : m = Len(file)
        BY <1>4, LenProperties
      <4> QED BY <1>4, <3>1, <4>1, SubSeqProperties DEF After
    <3>3. ahead = <<byte>> \o rest
      BY <1>6, <2>1, <2>2, <3>1 DEF FromHere
    <3>4. Len(<<byte>>) = 1 /\ <<byte>>[1] = byte /\ <<byte>> \in Seq(Content)
      OBVIOUS
    <3>5. Len(rest) \in Nat
      BY <3>2, LenProperties
    <3> QED BY <3>2, <3>3, <3>4, <3>5, ConcatProperties
  <2>5. offset' = [offset EXCEPT ![old.fd] = before.at + (d + 1)] /\ before.at + (d + 1) \in Nat
    BY <1>3, <1>4, <1>7, <2>1, <2>3
  <2>6. before.eof = FALSE
    BY <1>3, <1>7, <2>1
  <2>7. Changes(h, Left(old, before.eof, before.error, None), before.at + (d + 1))
    BY <1>3, <1>7, <1>8, <2>3, <2>5, <2>6
  <2>8. d + 1 <= Len(ahead) /\ byte = ahead[d + 1] /\ Len(before.back) <= d + 1
    BY <1>6, <2>1, <2>4
  <2>9. Takes(h, byte)
    BY <1>1, <1>5, <2>3, <2>7, <2>8 DEF Takes
  <2> QED BY <1>1, <2>2, <2>9
<1>10. CASE old.ungetc = None
  <2>1. PICK place \in Nat : place = offset[old.fd] /\ place = before.at + d /\ b <= d
    BY <1>0, <1>4, <1>6, <1>10 DEF Found
  <2>2. next + d - b = place
    BY <1>3, <1>6, <1>7, <2>1
  <2>3. PICK r \in Reads(old.fd, 1) :
          /\ streams' = Put(streams, h, Marked(old, r, r.data = << >>))
          /\ offset' = [offset EXCEPT ![old.fd] = @ + Len(r.data)]
          /\ \/ r.data # << >> /\ Stores(r.data[1])
             \/ r.data = << >> /\ d > 0 /\ Ends(line, d)
             \/ /\ r.data = << >> /\ d = 0 /\ done' = None
                /\ answer' = [bytes |-> << >>, value |-> -1] /\ line' = line
    BY <1>2, <1>10
  <2>4. PICK data, failed :
          /\ failed \in BOOLEAN /\ data = r.data /\ failed = r.failed
          /\ data = Fetched(failed, file, place, 1)
    <3>1. r.failed \in BOOLEAN /\ r.data = Fetched(r.failed, file, offset[old.fd], 1)
      BY ReadsFetched
    <3> QED BY <2>1, <3>1
  <2>5. CASE ~failed /\ place < Len(file)
    <3>1. data # << >> /\ Len(data) = 1 /\ data[1] \in Content /\ data[1] = file[place + 1]
      BY <1>4, <2>4, <2>5, NextByte DEF Fetched
    <3>2. PICK byte \in Content : byte = data[1]
      BY <3>1
    <3>3. Stores(byte)
      BY <2>3, <2>4, <3>1, <3>2
    <3>4. d + 1 <= Len(ahead) /\ ahead[d + 1] = byte
      <4>1. /\ d + 1 <= Len(FromHere(before.back, file, next))
            /\ FromHere(before.back, file, next)[d + 1] = file[next + d - Len(before.back) + 1]
        <5>1. Len(before.back) <= d /\ next + d - Len(before.back) < Len(file)
          BY <1>6, <2>1, <2>2, <2>5
        <5>2. next \in Nat /\ d \in Nat /\ before.back \in Seq(Content) /\ file \in Seq(Content)
          BY <1>3, <1>4
        <5>3. IsNext(before.back, file, next, d)
          BY <5>1, <5>2, AheadAt
        <5> QED BY <5>3 DEF IsNext
      <4> QED BY <1>6, <2>2, <3>1, <3>2, <4>1
    <3>5. streams' = Put(streams, h, Left(old, before.eof, before.error, None))
      <4>1. (old.eof \/ (~r.failed /\ r.data = << >>)) = before.eof
            /\ (old.error \/ r.failed) = before.error
        BY <1>3, <1>7, <2>4, <2>5, <3>1
      <4> QED BY <2>3, <4>1 DEF Marked
    <3>6. offset' = [offset EXCEPT ![old.fd] = before.at + (d + 1)] /\ before.at + (d + 1) \in Nat
      <4>1. Len(r.data) = 1
        BY <2>4, <3>1
      <4>2. offset[old.fd] + Len(r.data) = before.at + (d + 1) /\ before.at + (d + 1) \in Nat
        BY <1>3, <1>7, <2>1, <4>1
      <4> QED BY <2>3, <4>2
    <3>7. Changes(h, Left(old, before.eof, before.error, None), before.at + (d + 1))
      BY <1>7, <1>8, <3>5, <3>6
    <3>8. Len(before.back) <= d + 1
      BY <1>3, <1>6, <2>1
    <3>9. Takes(h, byte)
      BY <1>1, <1>5, <3>3, <3>4, <3>7, <3>8 DEF Takes
    <3> QED BY <1>1, <3>2, <3>9
  <2>6. CASE failed \/ ~(place < Len(file))
    <3>1. data = << >>
      BY <1>4, <2>4, <2>6, NextByte DEF Fetched
    <3>2. failed \/ d = Len(ahead)
      <4>1. CASE ~failed
        <5>1. ~(next + d - Len(before.back) < Len(file))
              /\ d <= Len(FromHere(before.back, file, next))
          BY <1>3, <1>5, <1>6, <2>2, <2>6, <4>1
        <5>2. d = Len(FromHere(before.back, file, next))
          BY <1>3, <1>4, <1>6, <2>1, <5>1, AheadAt
        <5> QED BY <1>6, <5>2
      <4> QED BY <4>1
    <3>3. /\ \/ d > 0 /\ Ends(line, d)
             \/ d = 0 /\ done' = None /\ line' = line /\ answer' = [bytes |-> << >>, value |-> -1]
    BY <2>3, <2>4, <3>1
    <3>4. streams' = Put(streams, h, Left(old, before.eof \/ ~failed, before.error \/ failed, None))
      <4>1. (old.eof \/ (~r.failed /\ r.data = << >>)) = (before.eof \/ ~failed)
            /\ (old.error \/ r.failed) = (before.error \/ failed)
        BY <1>3, <1>7, <2>4, <3>1
      <4> QED BY <2>3, <4>1 DEF Marked
    <3>5. offset' = [offset EXCEPT ![old.fd] = before.at + d] /\ before.at + d \in Nat
      <4>1. Len(r.data) = 0
        BY <2>4, <3>1
      <4>2. offset[old.fd] + Len(r.data) = before.at + d /\ before.at + d \in Nat
        BY <1>3, <1>7, <2>1, <4>1
      <4> QED BY <2>3, <4>2
    <3>6. Changes(h, Left(old, before.eof \/ ~failed, before.error \/ failed, None), before.at + d)
      BY <1>7, <1>8, <3>4, <3>5
    <3>7. d = 0 => before.back = << >>
      BY <1>3, <1>6, <2>1, EmptySeq
    <3>8. Stops(h, failed)
      BY <1>1, <1>5, <3>2, <3>3, <3>6, <3>7 DEF Stops
    <3> QED BY <1>1, <2>4, <3>8
  <2> QED BY <2>4, <2>5, <2>6
<1> QED BY <1>9, <1>10

\* A byte is stored after the n that a buffer has, in a buffer with room for more.
Grown(l, n, room, byte) ==
  LET g == Stored(Ensured(l, room), n + 1, byte) IN
  /\ g \in Buffers /\ g.allocated /\ room <= g.capacity
  /\ \A i \in 1..n : g.text[i] = l.text[i]
  /\ g.text[n + 1] = byte

\* Storing in a buffer that is made large enough does that.
LEMMA Grows ==
  ASSUME NEW l \in Buffers, NEW n \in Nat, NEW room \in Nat, n < room, NEW byte \in Content,
         n > 0 => l.allocated /\ n <= l.capacity
  PROVE  Grown(l, n, room, byte)
<1>1. room \in Nat \ {0}
  OBVIOUS
<1>2. PICK e : /\ e = Ensured(l, room) /\ e \in Buffers /\ e.allocated /\ e.capacity >= room
               /\ \A i \in 1..(room - 1) : l.allocated /\ i <= l.capacity => e.text[i] = l.text[i]
  BY <1>1, EnsuredBuffer
<1>3. e.capacity \in Nat /\ l.capacity \in Nat
  BY <1>2 DEF Buffers
<1>4. n + 1 \in 1..e.capacity /\ byte \in Content \cup {Garbage}
  BY <1>2, <1>3
<1>5. PICK g : /\ g = Stored(e, n + 1, byte)
               /\ g \in Buffers /\ g.allocated /\ g.capacity = e.capacity
               /\ \A i \in 1..e.capacity : g.text[i] = IF i = n + 1 THEN byte ELSE e.text[i]
  BY <1>2, <1>4, StoredBuffer
<1>6. ASSUME NEW i \in 1..n PROVE g.text[i] = l.text[i]
  <2>1. i \in 1..(room - 1) /\ l.allocated /\ i <= l.capacity /\ i \in 1..e.capacity /\ i # n + 1
    BY <1>2, <1>3
  <2> QED BY <1>2, <1>5, <2>1
<1>7. g.text[n + 1] = byte
  BY <1>4, <1>5
<1> QED BY <1>2, <1>5, <1>6, <1>7 DEF Grown

\* The line ends after n bytes of what was ahead.
Ended(ahead, n) ==
  /\ line' \in Buffers /\ done' = None /\ answer'.value = n /\ answer'.bytes = SubSeq(ahead, 1, n)
  /\ n + 1 <= line'.capacity /\ line'.capacity = Len(line'.text) /\ line'.text[n + 1] = Nul

\* Ending a line that is the first n bytes of what was ahead.
LEMMA LineEnds ==
  ASSUME NEW l \in Buffers, l.allocated, NEW n \in Nat, n <= l.capacity,
         NEW ahead \in Seq(Content), n <= Len(ahead), \A i \in 1..n : l.text[i] = ahead[i],
         Ends(l, n)
  PROVE  Ended(ahead, n)
<1>1. PICK g : g = Stored(Ensured(l, n + 1), n + 1, Nul)
  OBVIOUS
<1>2. line' = g /\ done' = None /\ answer' = [bytes |-> SubSeq(g.text, 1, n), value |-> n]
  BY <1>1 DEF Ends
<1>3. PICK room \in Nat : room = n + 1
  OBVIOUS
<1>4. Nul \in Content /\ n < room
  BY <1>3 DEF Content
<1>5. Grown(l, n, room, Nul)
  BY <1>4, Grows
<1>6. /\ g \in Buffers /\ g.allocated /\ n + 1 <= g.capacity
      /\ \A i \in 1..n : g.text[i] = l.text[i]
      /\ g.text[n + 1] = Nul
  BY <1>1, <1>3, <1>5 DEF Grown
<1>7. g.text \in Seq(Content \cup {Garbage}) /\ Len(g.text) = g.capacity /\ g.capacity \in Nat
  BY <1>6 DEF Buffers
<1>8. SubSeq(g.text, 1, n) = SubSeq(ahead, 1, n)
  <2>1. PICK t, S : t = g.text /\ S = Content \cup {Garbage}
    OBVIOUS
  <2>2. t \in Seq(S) /\ ahead \in Seq(S) /\ n <= Len(t) /\ Len(t) \in Nat /\ Len(ahead) \in Nat
    <3>1. n <= Len(t) /\ t \in Seq(S) /\ Len(t) \in Nat
      BY <1>6, <1>7, <2>1, LenProperties
    <3>2. Content \subseteq S
      BY <2>1
    <3>3. ahead \in Seq(S)
      BY <3>2
    <3> QED BY <3>1, <3>3, LenProperties
  <2>3. /\ SubSeq(t, 1, n) \in Seq(S) /\ SubSeq(ahead, 1, n) \in Seq(S)
        /\ Len(SubSeq(t, 1, n)) = n /\ Len(SubSeq(ahead, 1, n)) = n
        /\ \A i \in 1..n : SubSeq(t, 1, n)[i] = t[i] /\ SubSeq(ahead, 1, n)[i] = ahead[i]
    BY <2>2, SubSeqProperties
  <2>4. \A i \in 1..n : t[i] = ahead[i]
    BY <1>6, <2>1
  <2> QED BY <2>1, <2>3, <2>4, SeqEqual
<1> QED BY <1>2, <1>6, <1>7, <1>8 DEF Ended

\* A getline that returns the first n bytes of what was ahead.
Finishes(h, n, eof, error) ==
  LET before == call.before
      ahead == AheadOf(before)
  IN /\ ~Idle /\ Idle' /\ call.op = "getline" /\ call.stream = h /\ call'.op = "getline"
     /\ n <= Len(ahead) /\ answer'.bytes = SubSeq(ahead, 1, n)
     /\ \A i \in 1..(n - 1) : ahead[i] # Newline
     /\ n = 0 => before.back = << >>
     /\ Changes(h, Left(streams[h], eof, error, None), before.at + n)
     /\ \/ n > 0 /\ ahead[n] = Newline /\ eof = before.eof /\ error = before.error
        \/ (n > 0 => ahead[n] # Newline) /\ eof = before.eof /\ error = TRUE
        \/ (n > 0 => ahead[n] # Newline) /\ n = Len(ahead) /\ eof = TRUE /\ error = before.error

\* It has delivered what C says.
LEMMA LineDelivered ==
  ASSUME StreamsOK, LineOK, NEW h, NEW n \in Nat, NEW eof, NEW error, Finishes(h, n, eof, error)
  PROVE  StreamsOK' /\ C!Deliver(h) /\ h \in DOMAIN Input
<1>1. PICK before, ahead, bytes : before = call.before /\ ahead = AheadOf(before)
      /\ bytes = answer'.bytes
  OBVIOUS
<1>2. /\ ~Idle /\ Idle' /\ call.op = "getline" /\ call.stream = h /\ call'.op = "getline"
      /\ n <= Len(ahead) /\ bytes = SubSeq(ahead, 1, n)
      /\ \A i \in 1..(n - 1) : ahead[i] # Newline
      /\ n = 0 => before.back = << >>
      /\ Changes(h, Left(streams[h], eof, error, None), before.at + n)
  BY <1>1 DEF Finishes
<1>3. Found(h, streams[h], before, done)
  BY <1>1, <1>2, LineState
<1>4. h \in Readers /\ ahead \in Seq(Content)
  BY <1>1, <1>3 DEF Found
<1>5. /\ Input[h] = before /\ h \in DOMAIN Input
      /\ Input' = [Input EXCEPT ![h] = ViewAt(Left(streams[h], eof, error, None), before.at + n)]
  <2>1. OpenLine(h) /\ \A g \in Readers : ~OpenLine(g)' /\ (OpenLine(g) => g = h)
    BY <1>2 DEF OpenLine
  <2>2. Input = [g \in Readers |-> InputOf(g)]
    BY InputValue
  <2>3. Input[h] = before
    BY <1>1, <1>4, <2>1, <2>2 DEF InputOf
  <2>4. h \in DOMAIN Input
    BY <1>4, <2>2
  <2>5. PICK s, place : s = Left(streams[h], eof, error, None) /\ place = before.at + n
    OBVIOUS
  <2>6. Changes(h, s, place)
    BY <1>2, <2>5
  <2>7. Input' = [Input EXCEPT ![h] = ViewAt(s, place)]
    BY <1>4, <2>1, <2>6, InputChanges
  <2> QED BY <2>3, <2>4, <2>5, <2>7
<1>6. StreamsOK'
  BY <1>2, ChangesKeep
<1>7. PICK m \in Nat : m = Len(ahead)
  BY <1>4, LenProperties
<1>8. /\ bytes \in Seq(Content) /\ Len(bytes) = n /\ \A i \in 1..n : bytes[i] = ahead[i]
  BY <1>2, <1>4, <1>7, SubSeqProperties
<1>9. C!IsPrefix(bytes, C!Ahead(h))
  <2>1. SubSeq(bytes, 1, n) \in Seq(Content) /\ Len(SubSeq(bytes, 1, n)) = n
        /\ \A i \in 1..n : SubSeq(bytes, 1, n)[i] = bytes[i]
    BY <1>8, SubSeqProperties
  <2>2. SubSeq(bytes, 1, n) = bytes
    BY <1>8, <2>1, SeqEqual
  <2>3. C!Ahead(h) = ahead
    BY <1>1, <1>5 DEF C!Ahead, AheadOf
  <2> QED BY <1>2, <1>8, <2>2, <2>3 DEF C!IsPrefix
<1>10. bytes = << >> <=> n = 0
  BY <1>8, EmptySeq
<1> DEFINE moved(e, r) ==
             C!Stream(before.at + n, IF bytes = << >> THEN before.back ELSE << >>, e, r)
<1>11. C!Becomes(h, moved(eof, error))
  <2>1. (IF bytes = << >> THEN before.back ELSE << >>) = << >>
    BY <1>2, <1>10
  <2>2. ViewAt(Left(streams[h], eof, error, None), before.at + n) =
          [at |-> before.at + n, back |-> << >>, eof |-> eof, error |-> error]
    BY DEF ViewAt, Left
  <2>3. ViewAt(Left(streams[h], eof, error, None), before.at + n) = moved(eof, error)
    BY <2>1, <2>2 DEF C!Stream
  <2> QED BY <1>5, <2>3 DEF C!Becomes
<1>12. /\ C!NoMore(call', bytes) /\ (C!Complete(call', bytes) <=> n > 0 /\ ahead[n] = Newline)
       /\ call'.op \in {"getc", "fread", "getline"}
  <2>1. \A i \in 1..(Len(bytes) - 1) : bytes[i] # Newline
    BY <1>2, <1>8
  <2>2. n > 0 => C!Last(bytes) = ahead[n]
    BY <1>8 DEF C!Last
  <2> QED BY <1>2, <1>10, <2>1, <2>2 DEF C!NoMore, C!Complete
<1>13. n = m => bytes = C!Ahead(h)
  <2>1. C!Ahead(h) = ahead
    BY <1>1, <1>5 DEF C!Ahead, AheadOf
  <2>2. n = m => bytes = ahead
    BY <1>4, <1>7, <1>8, SeqEqual
  <2> QED BY <2>1, <2>2
<1>14. /\ \/ n > 0 /\ ahead[n] = Newline /\ eof = before.eof /\ error = before.error
          \/ ~(n > 0 /\ ahead[n] = Newline) /\ eof = before.eof /\ error = TRUE
          \/ ~(n > 0 /\ ahead[n] = Newline) /\ n = m /\ eof = TRUE /\ error = before.error
  BY <1>1, <1>7 DEF Finishes
<1>15. \A e, f : moved(e, f) = C!Stream(Input[h].at + Len(bytes),
                                        IF bytes = << >> THEN Input[h].back ELSE << >>, e, f)
  BY <1>5, <1>8
<1> HIDE DEF moved
<1>16. \/ C!Complete(call', bytes) /\ C!Becomes(h, moved(Input[h].eof, Input[h].error))
       \/ /\ ~C!Complete(call', bytes)
          /\ \/ C!Becomes(h, moved(Input[h].eof, TRUE))
             \/ bytes = C!Ahead(h) /\ C!Becomes(h, moved(TRUE, Input[h].error))
  BY <1>5, <1>11, <1>12, <1>13, <1>14
<1>17. C!Deliver(h)
  BY <1>1, <1>9, <1>12, <1>15, <1>16 DEF C!Deliver
<1> QED BY <1>5, <1>6, <1>17

\* Each step of a getline adds a byte to its line, or ends it.
LEMMA GetlineByteActs ==
  ASSUME StreamsOK, Quiet, GetlineByte PROVE StreamsOK' /\ Quiet' /\ C!Next
<1>1. PICK h, d, before, ahead :
        h = call.stream /\ d = done /\ before = call.before /\ ahead = AheadOf(before)
  OBVIOUS
<1>2. /\ ~Idle /\ call.op = "getline" /\ file' = file
      /\ call' = IF done' = None THEN [call EXCEPT !.before = << >>] ELSE call
  BY DEF GetlineByte
<1>3. /\ call = [op |-> "getline", stream |-> h, before |-> before]
      /\ h \in Readers /\ d \in Nat /\ line \in Buffers
      /\ before \in View /\ Len(before.back) \in {0, 1} /\ before.at + Len(before.back) \in Nat
      /\ d > 0 => line.allocated /\ d <= line.capacity
      /\ \A i \in 1..d : line.text[i] = ahead[i] /\ ahead[i] # Newline
  <2>1. /\ call = [op |-> "getline", stream |-> h, before |-> before]
        /\ h \in Readers /\ d \in Nat /\ line \in Buffers
        /\ before \in View /\ Len(before.back) \in {0, 1} /\ before.at + Len(before.back) \in Nat
        /\ d > 0 => /\ line.allocated /\ d <= line.capacity
                    /\ \A i \in 1..d : line.text[i] = ahead[i] /\ line.text[i] # Newline
    BY <1>1, <1>2 DEF Quiet, LineOK
  <2>2. \A i \in 1..d : d > 0
    BY <2>1
  <2> QED BY <2>1, <2>2
<1>4. Found(h, streams[h], before, d)
  BY <1>1, <1>2, LineState DEF Quiet
<1>5. ahead \in Seq(Content) /\ d <= Len(ahead) /\ h \in DOMAIN streams
  BY <1>1, <1>4 DEF Found
<1>6. before.eof \in BOOLEAN /\ before.error \in BOOLEAN
  BY <1>3 DEF View
<1>7. PICK m \in Nat : m = Len(ahead)
  BY <1>5, LenProperties
<1>8. ASSUME NEW n \in Nat, NEW eof, NEW error, Finishes(h, n, eof, error), line' \in Buffers,
             done' = None,
             answer'.value > 0 => /\ answer'.value < line'.capacity
                                  /\ line'.capacity = Len(line'.text)
                                  /\ line'.text[answer'.value + 1] = Nul
      PROVE  StreamsOK' /\ Quiet' /\ C!Next
  <2>1. call'.stream = h
    BY <1>2, <1>3, <1>8
  <2>2. StreamsOK' /\ C!Deliver(h) /\ h \in DOMAIN Input
    BY <1>8, LineDelivered DEF Quiet
  <2>3. C!Next
    BY <2>1, <2>2 DEF C!Next
  <2>4. Quiet'
    BY <1>8 DEF Quiet, LineOK, WriterOK, LineTerminated, Idle
  <2> QED BY <2>2, <2>3, <2>4
<1>9. ASSUME done' = None PROVE Idle' /\ call'.op = "getline" /\ call.stream = h
  BY <1>2, <1>3, <1>9 DEF Idle
<1>10. ASSUME NEW byte \in Content, Takes(h, byte) PROVE StreamsOK' /\ Quiet' /\ C!Next
  <2>1. PICK n \in Nat : n = d + 1 /\ n > 0
    BY <1>3
  <2>2. /\ n <= Len(ahead) /\ byte = ahead[n] /\ Stores(byte) /\ Len(before.back) <= n
        /\ Changes(h, Left(streams[h], before.eof, before.error, None), before.at + n)
    BY <1>1, <1>10, <2>1 DEF Takes
  <2>3. PICK longer, room : longer = Stored(Ensured(line, d + 2), d + 1, byte) /\ room = d + 2
    OBVIOUS
  <2>4. Grown(line, d, room, byte)
    <3>1. room \in Nat /\ d < room
      BY <1>3, <2>3
    <3> QED BY <1>3, <3>1, Grows
  <2>5. /\ longer \in Buffers /\ longer.allocated /\ n <= longer.capacity
        /\ \A i \in 1..d : longer.text[i] = line.text[i]
        /\ longer.text[n] = byte
    <3>1. /\ longer \in Buffers /\ longer.allocated /\ room <= longer.capacity
          /\ \A i \in 1..d : longer.text[i] = line.text[i]
          /\ longer.text[d + 1] = byte
      BY <2>3, <2>4 DEF Grown
    <3>2. longer.capacity \in Nat
      BY <3>1 DEF Buffers
    <3>3. n <= longer.capacity
      BY <1>3, <2>1, <2>3, <3>1, <3>2
    <3> QED BY <2>1, <3>1, <3>3
  <2>6. \A i \in 1..n : longer.text[i] = ahead[i]
    <3>1. \A i \in 1..n : i \in 1..d \/ i = n
      BY <1>3, <2>1
    <3> QED BY <1>3, <2>2, <2>5, <3>1
  <2>7. CASE byte = Newline
    <3>1. Ends(longer, n)
      BY <1>1, <2>1, <2>2, <2>3, <2>7 DEF Stores
    <3>2. Ended(ahead, n)
      BY <1>5, <2>2, <2>5, <2>6, <3>1, LineEnds
    <3>3. /\ line' \in Buffers /\ done' = None /\ answer'.value = n
          /\ answer'.bytes = SubSeq(ahead, 1, n)
          /\ n + 1 <= line'.capacity /\ line'.capacity = Len(line'.text) /\ line'.text[n + 1] = Nul
      BY <3>2 DEF Ended
    <3>4. \A i \in 1..(n - 1) : ahead[i] # Newline
      BY <1>3, <2>1
    <3>5. Finishes(h, n, before.eof, before.error)
      BY <1>1, <1>2, <1>9, <2>1, <2>2, <2>7, <3>3, <3>4 DEF Finishes
    <3>6. n < line'.capacity
      <4>1. line'.capacity \in Nat
        BY <3>3 DEF Buffers
      <4> QED BY <3>3, <4>1
    <3> QED BY <1>8, <3>3, <3>5, <3>6
  <2>8. CASE byte # Newline
    <3>1. line' = longer /\ done' = n /\ answer' = answer
      BY <1>1, <2>1, <2>2, <2>3, <2>8 DEF Stores
    <3>2. ~Idle' /\ call' = call
      BY <1>2, <3>1, StdioAssumption DEF Idle
    <3>3. PICK s, place : s = Left(streams[h], before.eof, before.error, None)
          /\ place = before.at + n
      OBVIOUS
    <3>4. Changes(h, s, place)
      BY <2>2, <3>3
    <3>5. /\ StreamsOK' /\ streams'[h] = s /\ offset'[s.fd] = place /\ Readers' = Readers
          /\ \A g \in DOMAIN streams \ {h} :
               streams'[g] = streams[g] /\ offset'[streams'[g].fd] = offset[streams[g].fd]
      BY <3>4, ChangesKeep
    <3>6. \A g \in Readers : InputOf(g)' = InputOf(g)
      <4>1. \A g \in Readers \ {h} : /\ streams'[g] = streams[g]
                                     /\ offset'[streams'[g].fd] = offset[streams[g].fd]
        BY <3>5 DEF Readers
      <4>2. \A g \in Readers \ {h} : ~OpenLine(g) /\ ~OpenLine(g)'
        BY <1>3, <3>2 DEF OpenLine
      <4>3. InputOf(h) = before /\ InputOf(h)' = before
        BY <1>1, <1>2, <3>2 DEF InputOf, OpenLine
      <4>4. \A g \in Readers \ {h} : InputOf(g)' = InputOf(g)
        BY <4>1, <4>2 DEF InputOf, ViewAt
      <4> QED BY <4>3, <4>4
    <3>7. Input' = Input
      BY <3>5, <3>6, InputValue, InputValueNext
    <3>8. C!Next
      BY <3>1, <3>7 DEF C!Next, C!Elsewhere
    <3>9. s.ungetc = None /\ s.eof = before.eof /\ s.error = before.error
      BY <3>3 DEF Left
    <3>10. AheadOf(before)' = ahead
      BY <1>1, <1>2 DEF AheadOf
    <3>11. \A i \in 1..n : line'.text[i] = ahead[i] /\ line'.text[i] # Newline
      <4>1. \A i \in 1..n : i \in 1..d \/ i = n
        BY <1>3, <2>1
      <4> QED BY <1>3, <2>2, <2>6, <2>8, <3>1, <4>1
    <3>12. LineOK'
      <4>1. call'.stream = h /\ call'.before = before
        BY <1>1, <3>2
      <4>2. /\ streams'[h].ungetc = None /\ streams'[h].eof = before.eof
            /\ streams'[h].error = before.error
            /\ offset'[streams'[h].fd] = before.at + done' /\ Len(before.back) <= done'
            /\ line'.allocated /\ done' <= line'.capacity
            /\ done' <= Len(AheadOf(before)')
            /\ \A i \in 1..done' : line'.text[i] = AheadOf(before)'[i] /\ line'.text[i] # Newline
        BY <2>2, <2>5, <3>1, <3>3, <3>5, <3>9, <3>10, <3>11
      <4>3. done' \in Nat /\ done' # 0 /\ h \in Readers'
        BY <1>3, <2>1, <3>1, <3>5
      <4>4. call' = [op |-> "getline", stream |-> h, before |-> before]
        BY <1>3, <3>2
      <4> QED BY <1>3, <4>1, <4>2, <4>3, <4>4 DEF LineOK
    <3>13. Quiet'
      BY <1>2, <2>5, <3>1, <3>2, <3>12 DEF Quiet, WriterOK, LineTerminated
    <3> QED BY <3>5, <3>8, <3>13
  <2> QED BY <2>7, <2>8
<1>11. ASSUME NEW failed \in BOOLEAN, Stops(h, failed) PROVE StreamsOK' /\ Quiet' /\ C!Next
  <2>1. PICK eof, error : eof = (before.eof \/ ~failed) /\ error = (before.error \/ failed)
    OBVIOUS
  <2>2. /\ failed \/ d = m
        /\ \/ d > 0 /\ Ends(line, d)
           \/ d = 0 /\ done' = None /\ line' = line /\ answer' = [bytes |-> << >>, value |-> -1]
        /\ d = 0 => before.back = << >>
        /\ Changes(h, Left(streams[h], eof, error, None), before.at + d)
    BY <1>1, <1>7, <1>11, <2>1 DEF Stops
  <2>3. \/ eof = before.eof /\ error = TRUE
        \/ d = m /\ eof = TRUE /\ error = before.error
    <3>1. CASE failed
      <4>1. eof = before.eof
        <5>1. CASE before.eof
          BY <1>6, <2>1, <5>1, Zenon
        <5>2. CASE ~before.eof
          BY <1>6, <2>1, <3>1, <5>2, Zenon
        <5> QED BY <5>1, <5>2
      <4>2. error = TRUE
        BY <2>1, <3>1, Zenon
      <4> QED BY <4>1, <4>2
    <3>2. CASE ~failed
      <4>1. eof = TRUE /\ error = before.error
        BY <1>6, <2>1, <3>2, Zenon
      <4> QED BY <2>2, <3>2, <4>1
    <3> QED BY <3>1, <3>2
  <2>4. d > 0 => ahead[d] # Newline
    BY <1>3
  <2>5. \A i \in 1..(d - 1) : ahead[i] # Newline
    BY <1>3
  <2>6. ASSUME done' = None, answer'.bytes = SubSeq(ahead, 1, d) PROVE Finishes(h, d, eof, error)
    <3>1. Idle' /\ call'.op = "getline" /\ call.stream = h
      BY <1>9, <2>6
    <3> QED BY <1>1, <1>2, <1>5, <1>7, <2>2, <2>3, <2>4, <2>5, <2>6, <3>1 DEF Finishes
  <2>7. CASE d > 0
    <3>1. Ends(line, d) /\ line.allocated /\ d <= line.capacity
          /\ \A i \in 1..d : line.text[i] = ahead[i]
      BY <1>3, <2>2, <2>7
    <3>2. Ended(ahead, d)
      BY <1>3, <1>5, <3>1, LineEnds
    <3>3. /\ line' \in Buffers /\ done' = None /\ answer'.value = d
          /\ answer'.bytes = SubSeq(ahead, 1, d)
          /\ d + 1 <= line'.capacity /\ line'.capacity = Len(line'.text) /\ line'.text[d + 1] = Nul
      BY <3>2 DEF Ended
    <3>4. d < line'.capacity
      <4>1. line'.capacity \in Nat
        BY <3>3 DEF Buffers
      <4> QED BY <1>3, <3>3, <4>1
    <3> QED BY <1>3, <1>8, <2>6, <3>3, <3>4
  <2>8. CASE ~(d > 0)
    <3>1. d = 0 /\ done' = None /\ line' = line /\ answer' = [bytes |-> << >>, value |-> -1]
      BY <1>3, <2>2, <2>8
    <3>2. SubSeq(ahead, 1, 0) = << >>
      BY <1>5, SubSeqEmpty
    <3>3. answer'.bytes = SubSeq(ahead, 1, d) /\ ~(answer'.value > 0)
      BY <3>1, <3>2
    <3> QED BY <1>3, <1>8, <2>6, <3>1, <3>3
  <2> QED BY <2>7, <2>8
<1> QED BY <1>1, <1>10, <1>11, GetlineByteDoes DEF Quiet

\* A file that grows has more to deliver, after what it had.
GrewTo(x, y) == Len(x) <= Len(y) /\ \A i \in 1..Len(x) : y[i] = x[i]

\* Appending to the file does that to what a stream has ahead.
LEMMA AheadGrows ==
  ASSUME NEW f \in Seq(Content), NEW byte \in Content, NEW back \in Seq(Content), NEW next \in Nat
  PROVE  GrewTo(FromHere(back, f, next), FromHere(back, f \o <<byte>>, next))
<1>1. PICK m, b \in Nat : m = Len(f) /\ b = Len(back)
  BY LenProperties
<1>2. PICK more : /\ more = f \o <<byte>> /\ more \in Seq(Content) /\ Len(more) = m + 1
                  /\ \A i \in 1..m : more[i] = f[i]
  <2>1. <<byte>> \in Seq(Content) /\ Len(<<byte>>) = 1
    OBVIOUS
  <2>2. /\ f \o <<byte>> \in Seq(Content) /\ Len(f \o <<byte>>) = Len(f) + Len(<<byte>>)
        /\ \A i \in 1..(Len(f) + Len(<<byte>>)) :
             (f \o <<byte>>)[i] = IF i <= Len(f) THEN f[i] ELSE <<byte>>[i - Len(f)]
    BY <2>1, ConcatProperties
  <2>3. \A i \in 1..m : (f \o <<byte>>)[i] = f[i]
    BY <1>1, <2>1, <2>2
  <2> QED BY <1>1, <2>1, <2>2, <2>3
<1>3. ASSUME NEW g \in Seq(Content), NEW n \in Nat, n = Len(g)
      PROVE  /\ Len(FromHere(back, g, next)) = b + (IF next + 1 <= n THEN n - next ELSE 0)
             /\ \A i \in 1..Len(FromHere(back, g, next)) :
                  FromHere(back, g, next)[i] = IF i <= b THEN back[i] ELSE g[next + (i - b)]
  <2>1. PICK rest : rest = After(g, next)
    OBVIOUS
  <2>2. /\ rest \in Seq(Content) /\ Len(rest) = (IF next + 1 <= n THEN n - next ELSE 0)
        /\ \A i \in 1..Len(rest) : rest[i] = g[next + i]
    BY <1>3, <2>1, SubSeqProperties DEF After
  <2>3. PICK k \in Nat : k = Len(rest)
    BY <2>2, LenProperties
  <2>4. PICK whole : /\ whole = FromHere(back, g, next) /\ Len(whole) = b + k
                     /\ \A i \in 1..(b + k) : whole[i] = IF i <= b THEN back[i] ELSE rest[i - b]
    <3>1. /\ Len(back \o rest) = Len(back) + Len(rest)
          /\ \A i \in 1..(Len(back) + Len(rest)) :
               (back \o rest)[i] = IF i <= Len(back) THEN back[i] ELSE rest[i - Len(back)]
      BY <2>2, ConcatProperties
    <3> QED BY <1>1, <2>1, <2>3, <3>1 DEF FromHere
  <2>5. ASSUME NEW i \in 1..(b + k) PROVE whole[i] = IF i <= b THEN back[i] ELSE g[next + (i - b)]
    <3>1. ~(i <= b) => i - b \in 1..k
      BY <1>1
    <3> QED BY <2>2, <2>3, <2>4, <3>1
  <2> QED BY <2>2, <2>3, <2>4, <2>5
<1>4. PICK x, y : x = FromHere(back, f, next) /\ y = FromHere(back, more, next)
  OBVIOUS
<1>5. /\ Len(x) = b + (IF next + 1 <= m THEN m - next ELSE 0)
      /\ \A i \in 1..Len(x) : x[i] = IF i <= b THEN back[i] ELSE f[next + (i - b)]
  BY <1>1, <1>3, <1>4
<1>6. PICK m1 \in Nat : m1 = m + 1
  OBVIOUS
<1>7. /\ Len(y) = b + (IF next + 1 <= m1 THEN m1 - next ELSE 0)
      /\ \A i \in 1..Len(y) : y[i] = IF i <= b THEN back[i] ELSE more[next + (i - b)]
  BY <1>2, <1>3, <1>4, <1>6
<1>8. Len(x) <= Len(y)
  BY <1>1, <1>5, <1>6, <1>7
<1>9. ASSUME NEW i \in 1..Len(x) PROVE y[i] = x[i]
  <2>1. i \in 1..Len(y) /\ (~(i <= b) => next + (i - b) \in 1..m)
    BY <1>1, <1>5, <1>6, <1>7, <1>9
  <2> QED BY <1>2, <1>5, <1>7, <2>1
<1>10. GrewTo(x, y)
  BY <1>8, <1>9 DEF GrewTo
<1> QED BY <1>2, <1>4, <1>10

\* Another process that appends takes nothing away from a getline in progress.
LEMMA AppendsActs ==
  ASSUME StreamsOK, Quiet, NEW byte \in Bytes, Appends(byte)
  PROVE  StreamsOK' /\ Quiet' /\ C!Next
<1>1. /\ file' = file \o <<byte>> /\ offset' = offset /\ streams' = streams /\ call' = call
      /\ done' = done /\ line' = line /\ answer' = answer
  BY DEF Appends
<1>2. byte \in Content /\ file \in Seq(Content)
  BY DEF Content, StreamsOK
<1>3. file' \in Seq(Content)
  BY <1>1, <1>2
<1>4. StreamsOK' /\ Readers' = Readers /\ Idle' = Idle
  BY <1>1, <1>3 DEF StreamsOK, Readers, Idle
<1>5. \A g \in Readers : InputOf(g)' = InputOf(g)
  BY <1>1 DEF InputOf, OpenLine, Idle, ViewAt
<1>6. Input' = Input
  BY <1>4, <1>5, InputValue, InputValueNext
<1>7. C!Next
  BY <1>1, <1>6 DEF C!Next, C!Elsewhere
<1>8. ASSUME ~Idle, call.op = "getline" PROVE LineOK'
  <2>1. PICK h, s, before, x, y :
          /\ h = call.stream /\ s = streams[h] /\ before = call.before
          /\ x = AheadOf(before) /\ y = AheadOf(before)'
    OBVIOUS
  <2>2. /\ call = [op |-> "getline", stream |-> h, before |-> before]
        /\ h \in Readers /\ done \in Nat
        /\ before \in View /\ Len(before.back) \in {0, 1} /\ before.at + Len(before.back) \in Nat
        /\ done = 0 => before = ViewAt(s, offset[s.fd])
        /\ done > 0 =>
             /\ s.ungetc = None /\ s.eof = before.eof /\ s.error = before.error
             /\ offset[s.fd] = before.at + done /\ Len(before.back) <= done
             /\ line.allocated /\ done <= line.capacity
             /\ done <= Len(x)
             /\ \A i \in 1..done : line.text[i] = x[i] /\ line.text[i] # Newline
    BY <1>8, <2>1 DEF Quiet, LineOK
  <2>3. Found(h, s, before, done)
    BY <1>8, <2>1, LineState DEF Quiet
  <2>4. GrewTo(x, y) /\ x \in Seq(Content)
    <3>1. PICK back, next : next \in Nat /\ back = before.back
          /\ next = before.at + Len(before.back)
      BY <2>2
    <3>2. back \in Seq(Content) /\ x = FromHere(back, file, next) /\ x \in Seq(Content)
      BY <2>1, <2>3, <3>1 DEF Found
    <3>3. y = FromHere(back, file \o <<byte>>, next)
      BY <1>1, <2>1, <3>1 DEF AheadOf, FromHere, After
    <3>4. GrewTo(FromHere(back, file, next), FromHere(back, file \o <<byte>>, next))
      <4>1. next \in Nat
        BY <3>1
      <4>2. back \in Seq(Content)
        BY <3>2
      <4> QED BY <1>2, <4>1, <4>2, AheadGrows
    <3> QED BY <3>2, <3>3, <3>4
  <2>5. PICK m \in Nat : m = Len(x) /\ m <= Len(y) /\ \A i \in 1..m : y[i] = x[i]
    <3>1. Len(x) \in Nat
      BY <2>4, LenProperties
    <3> QED BY <2>4, <3>1 DEF GrewTo
  <2>6. ASSUME done > 0
        PROVE  done <= Len(y) /\ \A i \in 1..done : line.text[i] = y[i] /\ line.text[i] # Newline
    <3>1. done <= m /\ \A i \in 1..done : line.text[i] = x[i] /\ line.text[i] # Newline
      BY <2>2, <2>5, <2>6
    <3>2. done <= Len(y)
      <4>1. PICK n : n = Len(y)
        OBVIOUS
      <4>2. n \in Nat
        <5>1. y \in Seq(Content)
          <6>1. PICK back, next : next \in Nat /\ back = before.back
                /\ next = before.at + Len(before.back)
            BY <2>2
          <6>2. back \in Seq(Content)
            BY <2>3, <6>1 DEF Found
          <6>3. y = FromHere(back, file', next)
            BY <2>1, <6>1 DEF AheadOf, FromHere, After
          <6>4. PICK d \in Nat : Len(back) <= d
            BY <6>2, LenProperties
          <6>5. next \in Nat /\ d \in Nat
            BY <6>1, <6>4
          <6>6. PICK g \in Seq(Content) : g = file'
            BY <1>3
          <6>7. FromHere(back, g, next) \in Seq(Content)
            BY <6>2, <6>4, <6>5, AheadAt
          <6> QED BY <6>3, <6>6, <6>7
        <5> QED BY <4>1, <5>1, LenProperties
      <4> QED BY <2>2, <2>5, <3>1, <4>1, <4>2
    <3> QED BY <2>2, <2>5, <3>1, <3>2
  <2> QED BY <1>1, <1>4, <2>1, <2>2, <2>6 DEF LineOK
<1>9. LineOK'
  BY <1>1, <1>4, <1>8 DEF LineOK
<1>10. Quiet'
  <2>1. Writers' = Writers
    BY <1>1, <1>4 DEF Writers
  <2> QED BY <1>1, <1>4, <1>9, <2>1 DEF Quiet, WriterOK, LineTerminated
<1> QED BY <1>4, <1>7, <1>10

\* Nothing happens.
LEMMA Stutters ==
  ASSUME StreamsOK, Quiet, UNCHANGED vars
  PROVE  StreamsOK' /\ Quiet' /\ UNCHANGED <<file, Input, call, answer>>
<1>1. /\ file' = file /\ offset' = offset /\ streams' = streams /\ call' = call
      /\ done' = done /\ line' = line /\ answer' = answer
  BY DEF vars
<1>2. StreamsOK'
  BY <1>1 DEF StreamsOK
<1>3. Readers' = Readers /\ Writers' = Writers /\ Idle' = Idle
  BY <1>1 DEF Readers, Writers, Idle
<1>4. \A g \in Readers : InputOf(g)' = InputOf(g)
  BY <1>1 DEF InputOf, OpenLine, Idle, ViewAt
<1>5. Input' = Input
  BY <1>2, <1>3, <1>4, InputValue, InputValueNext
<1>6. Quiet'
  BY <1>1, <1>3 DEF Quiet, LineOK, WriterOK, LineTerminated, AheadOf, ViewAt
<1> QED BY <1>1, <1>2, <1>5, <1>6

\* Every step keeps the streams and the buffer in order and is one that C allows.
LEMMA StepActs ==
  ASSUME StreamsOK, Quiet, Taking, [Next]_vars
  PROVE  StreamsOK' /\ Quiet' /\ Taking' /\ [C!Next]_<<file, Input, call, answer>>
<1>1. Taking'
  BY OtherCalls, FwriteStepTakes, FwriteBegins
<1>2. ASSUME NEW h \in Handles,
             \/ Fopen(h) \/ Fclose(h) \/ Getc(h) \/ Fread(h) \/ Ungetc(h) \/ Fseeko(h)
             \/ Ftello(h) \/ Clearerr(h) \/ Fputs(h)
      PROVE  StreamsOK' /\ Quiet' /\ C!Next
  <2>1. StreamsOK' /\ C!Next
    BY <1>2, FopenActs, FcloseActs, GetcActs, FreadActs, UngetcActs, FseekoActs, FtelloActs,
       ClearerrActs, FputsActs
  <2>2. Quiet'
    BY <1>2, Immediate
  <2> QED BY <2>1, <2>2
<1>3. ASSUME NEW h \in Handles, Getline(h) \/ Fwrite(h) PROVE StreamsOK' /\ Quiet' /\ C!Next
  BY <1>3, GetlineActs, FwriteActs
<1>4. CASE GetlineByte \/ FwriteStep
  BY <1>1, <1>4, GetlineByteActs, FwriteStepActs
<1>5. ASSUME NEW byte \in Bytes, Appends(byte) PROVE StreamsOK' /\ Quiet' /\ C!Next
  BY <1>5, AppendsActs
<1>6. CASE UNCHANGED vars
  BY <1>1, <1>6, Stutters
<1>7. CASE Next
  <2>1. \/ \E h \in Handles :
             \/ Fopen(h) \/ Fclose(h) \/ Getc(h) \/ Fread(h) \/ Ungetc(h) \/ Fseeko(h)
             \/ Ftello(h) \/ Clearerr(h) \/ Fputs(h)
        \/ \E h \in Handles : Getline(h) \/ Fwrite(h)
        \/ GetlineByte \/ FwriteStep
        \/ \E byte \in Bytes : Appends(byte)
    BY <1>7 DEF Next
  <2> QED BY <1>1, <1>2, <1>3, <1>4, <1>5, <2>1
<1> QED BY <1>6, <1>7

\* At the start nothing is open and nothing is in progress.
LEMMA InitOK == ASSUME Init PROVE StreamsOK /\ Quiet /\ Taking /\ C!Init
<1>1. /\ file = << >> /\ offset = << >> /\ streams = << >> /\ call.op = "none" /\ done = None
      /\ line = NoLine /\ answer = [bytes |-> << >>, value |-> 0]
  BY DEF Init
<1>2. DOMAIN offset = {} /\ DOMAIN streams = {}
  BY <1>1
<1>3. StreamsOK
  <2>1. file \in Seq(Content)
    BY <1>1
  <2>2. offset \in [DOMAIN offset -> Nat] /\ streams \in [DOMAIN streams -> Stream]
    <3>1. << >> = [x \in {} |-> 0]
      OBVIOUS
    <3> QED BY <1>1, <1>2
  <2> QED BY <1>2, <2>1, <2>2 DEF StreamsOK
<1>4. Quiet /\ Taking
  BY <1>1, NoLineBuffer DEF Quiet, LineOK, WriterOK, LineTerminated, Taking
<1>5. Readers = {}
  BY <1>2 DEF Readers
<1>6. Input = << >>
  BY <1>3, <1>5, InputValue
<1>7. C!Init
  BY <1>1, <1>6 DEF C!Init, C!Unanswered
<1> QED BY <1>3, <1>4, <1>7

\* The streams, the buffer and the calls in progress stay in order.
THEOREM StdioInvariant == Spec => []StdioInv
<1>1. Init => StdioInv
  BY InitOK DEF StdioInv
<1>2. StdioInv /\ [Next]_vars => StdioInv'
  BY StepActs DEF StdioInv
<1> QED BY <1>1, <1>2, PTL DEF Spec

\* The line that getline returns has room for its NUL, and the NUL is there:
\* whatever the capacities, the bytes and the buffer the program starts with.
THEOREM LineTerminatedHolds == Spec => []LineTerminated
<1>1. StdioInv => LineTerminated
  BY DEF StdioInv, Quiet
<1> QED BY <1>1, StdioInvariant, PTL

\* Any mix of the calls but for a seek from the current position over a pushed-back
\* byte, which the program does not make, with any reads that fail or fall short and any other
\* process that appends, reads the file as C says.
THEOREM ReadsAsCHolds == Spec => ReadsAsC
<1>1. Init => C!Init
  BY InitOK
<1>2. StdioInv /\ [Next]_vars => [C!Next]_<<file, Input, call, answer>>
  BY StepActs DEF StdioInv
<1> QED BY <1>1, <1>2, StdioInvariant, PTL DEF Spec, ReadsAsC, C!Spec
=============================================================================
