-------------------------- MODULE LibcCalls_proofs --------------------------
(***************************************************************************)
(* Machine-checked theorems about the routines on memory and strings, for  *)
(* memories and pages of any size, any bytes, and any call that C allows.  *)
(***************************************************************************)
EXTENDS LibcCalls, SequenceTheorems, WellFoundedInduction, TLAPS

-----------------------------------------------------------------------------
(* Numbers.                                                                *)

\* A set with 0 that with a number has the next holds every number.
LEMMA NatSets ==
  ASSUME NEW T, 0 \in T, \A n \in Nat : n \in T => n + 1 \in T
  PROVE  Nat \subseteq T
<1> SUFFICES ASSUME Nat \ T # {} PROVE FALSE
  OBVIOUS
<1>1. PICK x \in Nat \ T : \A y \in Nat \ T : ~ (<<y, x>> \in OpToRel(<, Nat))
  <2>1. Nat \ T \subseteq Nat
    OBVIOUS
  <2>2. IsWellFoundedOn(OpToRel(<, Nat), Nat)
    BY NatLessThanWellFounded
  <2> HIDE DEF OpToRel
  <2> QED BY <2>1, <2>2, WFMin, Zenon
<1>2. \A y \in Nat \ T : ~ (y < x)
  BY <1>1 DEF OpToRel
<1>3. x # 0 /\ x - 1 \in Nat /\ x - 1 < x
  OBVIOUS
<1>4. x - 1 \in T
  BY <1>2, <1>3
<1>5. (x - 1) + 1 \in T
  BY <1>3, <1>4
<1> QED BY <1>5

\* A set of numbers has a least element.
LEMMA LeastOf ==
  ASSUME NEW T, T \subseteq Nat, T # {}
  PROVE  Min(T) \in T /\ \A y \in T : Min(T) <= y
<1>1. PICK x \in T : \A y \in T : ~ (<<y, x>> \in OpToRel(<, Nat))
  <2>1. IsWellFoundedOn(OpToRel(<, Nat), Nat)
    BY NatLessThanWellFounded
  <2> HIDE DEF OpToRel
  <2> QED BY <2>1, WFMin, Zenon
<1>2. \A y \in T : ~ (y < x)
  BY <1>1 DEF OpToRel
<1>3. \A y \in T : x <= y
  BY <1>2
<1> QED BY <1>3 DEF Min

\* There is only one least element.
LEMMA LeastIs ==
  ASSUME NEW T, T \subseteq Nat, NEW x \in T, \A y \in T : x <= y
  PROVE  Min(T) = x
<1>1. Min(T) \in T /\ \A y \in T : Min(T) <= y
  BY LeastOf
<1>2. Min(T) \in Nat /\ x \in Nat
  BY <1>1
<1> QED BY <1>1, <1>2

\* The same of the greatest one.
LEMMA GreatestIs ==
  ASSUME NEW T, T \subseteq Nat, NEW x \in T, \A y \in T : x >= y
  PROVE  Max(T) = x
<1>1. Max(T) \in T /\ \A y \in T : Max(T) >= y
  BY DEF Max
<1>2. Max(T) \in Nat /\ x \in Nat
  BY <1>1
<1> QED BY <1>1, <1>2

\* A bounded set of numbers has a greatest element.
LEMMA GreatestOf ==
  ASSUME NEW n \in Nat, NEW T, T \subseteq 0..n, T # {}
  PROVE  Max(T) \in T /\ \A y \in T : Max(T) >= y
<1> DEFINE back == {n - y : y \in T}
<1>0. T \subseteq Nat
  OBVIOUS
<1>1. back \subseteq Nat /\ back # {}
  <2>1. ASSUME NEW y \in T PROVE n - y \in Nat
    <3>1. y \in 0..n
      OBVIOUS
    <3> QED BY <3>1
  <2> QED BY <2>1
<1>2. Min(back) \in back /\ \A y \in back : Min(back) <= y
  BY <1>1, LeastOf
<1>3. PICK x \in T : Min(back) = n - x
  BY <1>2
<1>4. ASSUME NEW y \in T PROVE x >= y
  <2>1. n - x <= n - y /\ x \in Nat /\ y \in Nat
    BY <1>0, <1>2, <1>3
  <2> QED BY <2>1
<1>5. Max(T) = x
  BY <1>0, <1>4, GreatestIs
<1> QED BY <1>4, <1>5

\* The smaller and the larger of two numbers.
LEMMA SmallerOf == ASSUME NEW x \in Int, NEW y \in Int PROVE Min({x, y}) = IF x <= y THEN x ELSE y
<1> DEFINE m == IF x <= y THEN x ELSE y
<1>1. m \in {x, y} /\ \A z \in {x, y} : m <= z
  OBVIOUS
<1>2. Min({x, y}) \in {x, y} /\ \A z \in {x, y} : Min({x, y}) <= z
  BY <1>1 DEF Min
<1> QED BY <1>1, <1>2

\* It is a natural number if they are.
LEMMA SmallerNat == ASSUME NEW x \in Nat, NEW y \in Nat PROVE Min({x, y}) \in Nat
BY SmallerOf

\* The larger of two.
LEMMA LargerOf == ASSUME NEW x \in Int, NEW y \in Int PROVE Max({x, y}) = IF x >= y THEN x ELSE y
<1> DEFINE m == IF x >= y THEN x ELSE y
<1>1. m \in {x, y} /\ \A z \in {x, y} : m >= z
  OBVIOUS
<1>2. Max({x, y}) \in {x, y} /\ \A z \in {x, y} : Max({x, y}) >= z
  BY <1>1 DEF Max
<1> QED BY <1>1, <1>2

-----------------------------------------------------------------------------
(* Copies in chunks.                                                       *)

\* Nothing to copy.
LEMMA CopiedNone ==
  ASSUME NEW m \in [Pointers -> Bytes], NEW dst \in Int, NEW src \in Int
  PROVE  Copied(m, dst, src, 0) = m
<1>1. \A a \in DOMAIN m : a \notin dst..(dst + 0 - 1)
  OBVIOUS
<1> QED BY <1>1 DEF Copied

\* f[i] is the memory after i chunks.
Steps(m, dst, src, chunks, f) ==
  f = [i \in 0..Len(chunks) |->
         IF i = 0 THEN m
         ELSE Copied(f[i - 1], dst + chunks[i][1], src + chunks[i][1], chunks[i][2])]

\* If the memory after each chunk is known, so is that after all.
LEMMA InChunksIs ==
  ASSUME NEW m, NEW dst, NEW src, NEW chunks, Len(chunks) \in Nat, NEW e,
         e[0] = m,
         \A i \in 1..Len(chunks) :
           e[i] = Copied(e[i - 1], dst + chunks[i][1], src + chunks[i][1], chunks[i][2])
  PROVE  InChunks(m, dst, src, chunks) = e[Len(chunks)]
<1> DEFINE n == Len(chunks)
           g == [i \in 0..n |-> e[i]]
           q == CHOOSE f : Steps(m, dst, src, chunks, f)
<1>1. Steps(m, dst, src, chunks, g)
  <2>1. ASSUME NEW i \in 0..n
        PROVE  g[i] = IF i = 0 THEN m
                      ELSE Copied(g[i - 1], dst + chunks[i][1], src + chunks[i][1], chunks[i][2])
    <3>1. CASE i = 0
      BY <3>1
    <3>2. CASE i # 0
      <4>1. i \in 1..n /\ i - 1 \in 0..n
        BY <3>2
      <4> QED BY <3>2, <4>1
    <3> QED BY <3>1, <3>2
  <2>2. g = [i \in 0..n |-> g[i]]
    OBVIOUS
  <2> HIDE DEF g
  <2>3. [i \in 0..n |-> g[i]] =
          [i \in 0..n |-> IF i = 0 THEN m
                          ELSE Copied(g[i - 1], dst + chunks[i][1], src + chunks[i][1], chunks[i][2])]
    BY <2>1
  <2> QED BY <2>2, <2>3 DEF Steps
<1>2. Steps(m, dst, src, chunks, q)
  <2> HIDE DEF g
  <2> QED BY <1>1
<1>3. InChunks(m, dst, src, chunks) = q[n]
  BY DEF InChunks, Steps
<1> HIDE DEF q
<1>4. \A i \in 0..n :
        q[i] = IF i = 0 THEN m
               ELSE Copied(q[i - 1], dst + chunks[i][1], src + chunks[i][1], chunks[i][2])
  BY <1>2 DEF Steps
<1> DEFINE T == {i \in Nat : i <= n => q[i] = e[i]}
<1>5. 0 \in T
  BY <1>4
<1>6. ASSUME NEW i \in Nat, i \in T PROVE i + 1 \in T
  <2>1. CASE i + 1 <= n
    <3>1. i + 1 \in 1..n /\ i + 1 \in 0..n /\ (i + 1) - 1 = i /\ i <= n
      BY <2>1
    <3>2. q[i + 1] = Copied(q[i], dst + chunks[i + 1][1], src + chunks[i + 1][1], chunks[i + 1][2])
      BY <1>4, <3>1
    <3>3. q[i] = e[i]
      BY <1>6, <3>1
    <3> QED BY <3>1, <3>2, <3>3
  <2>2. CASE ~ (i + 1 <= n)
    BY <2>2
  <2> QED BY <2>1, <2>2
<1> HIDE DEF T
<1>7. Nat \subseteq T
  BY <1>5, <1>6, NatSets
<1>8. n \in T
  BY <1>7
<1> QED BY <1>3, <1>8 DEF T

\* The next chunk forward: what it reads has not been written yet.
LEMMA CopiedForward ==
  ASSUME NEW m, DOMAIN m = Pointers, NEW dst \in Nat, NEW src \in Nat, NEW x \in Nat, NEW y \in Nat,
         NEW d \in Nat, d = dst + x, NEW s \in Nat, s = src + x, NEW n \in Nat, n = x + y,
         src >= 1, src + n - 1 <= Top, dst <= src \/ src + n <= dst
  PROVE  Copied(Copied(m, dst, src, x), d, s, y) = Copied(m, dst, src, n)
<1> DEFINE q == Copied(m, dst, src, x)
<1>0. Top \in Nat
  BY MemoryAssumption
<1>1. DOMAIN q = Pointers
      /\ \A a \in Pointers : q[a] = IF a \in dst..(dst + x - 1) THEN m[a - dst + src] ELSE m[a]
  BY DEF Copied
<1>2. ASSUME NEW a \in Pointers
      PROVE  (IF a \in d..(d + y - 1) THEN q[a - d + s] ELSE q[a])
             = IF a \in dst..(dst + n - 1) THEN m[a - dst + src] ELSE m[a]
  <2>0. a \in Int
    BY DEF Pointers
  <2>1. CASE a \in d..(d + y - 1)
    <3>1. a - d + s = a - dst + src
      BY <2>0
    <3>2. a - dst + src \in Pointers
      BY <1>0, <2>0, <2>1 DEF Pointers
    <3>3. a - dst + src \notin dst..(dst + x - 1)
      BY <2>0, <2>1
    <3>4. q[a - dst + src] = m[a - dst + src]
      BY <1>1, <3>2, <3>3
    <3>5. a \in dst..(dst + n - 1)
      BY <2>0, <2>1
    <3> QED BY <2>1, <3>1, <3>4, <3>5
  <2>2. CASE a \notin d..(d + y - 1)
    <3>1. a \in dst..(dst + n - 1) <=> a \in dst..(dst + x - 1)
      BY <2>0, <2>2
    <3> QED BY <1>1, <2>2, <3>1
  <2> QED BY <2>1, <2>2
<1> HIDE DEF q
<1> QED BY <1>1, <1>2 DEF Copied, q

\* When that chunk may be copied: it has not been overwritten by those before it.
ChunkForward(dst, src, x, y) ==
  /\ {dst, src, x, y} \subseteq Nat
  /\ src >= 1 /\ src + x + y - 1 <= Top /\ (dst <= src \/ src + x + y <= dst)

\* Copying the first x bytes and then y more copies x + y.
LEMMA ForwardChunk ==
  ASSUME NEW m, DOMAIN m = Pointers, NEW dst, NEW src, NEW x, NEW y, ChunkForward(dst, src, x, y)
  PROVE  Copied(Copied(m, dst, src, x), dst + x, src + x, y) = Copied(m, dst, src, x + y)
<1>1. dst \in Nat /\ src \in Nat /\ x \in Nat /\ y \in Nat
  BY DEF ChunkForward
<1>2. dst + x \in Nat /\ src + x \in Nat /\ x + y \in Nat
  BY <1>1
<1>3. src >= 1 /\ src + (x + y) - 1 <= Top /\ (dst <= src \/ src + (x + y) <= dst)
  <2>1. Top \in Nat
    BY MemoryAssumption
  <2> QED BY <1>1, <2>1 DEF ChunkForward
<1> QED BY <1>1, <1>2, <1>3, CopiedForward

\* The next chunk backward, from x to y, when the bytes from y to n are copied
\* and the destination lies above the source.
ChunkBackward(dst, src, n, x, y, z) ==
  /\ {dst, src, n, x, y, z} \subseteq Nat
  /\ x + z = y /\ y <= n
  /\ src >= 1 /\ src + n - 1 <= Top /\ src < dst

\* Copying the bytes from y to n and then those from x to y copies all from x to n.
LEMMA BackwardChunk ==
  ASSUME NEW m, DOMAIN m = Pointers, NEW dst, NEW src, NEW n, NEW x, NEW y, NEW z,
         ChunkBackward(dst, src, n, x, y, z)
  PROVE  Copied(Copied(m, dst + y, src + y, n - y), dst + x, src + x, z) = Copied(m, dst + x, src + x, n - x)
<1> DEFINE q == Copied(m, dst + y, src + y, n - y)
<1>0. Top \in Nat
  BY MemoryAssumption
<1>1. DOMAIN q = Pointers
      /\ \A a \in Pointers :
           q[a] = IF a \in (dst + y)..(dst + y + (n - y) - 1) THEN m[a - (dst + y) + (src + y)] ELSE m[a]
  BY DEF Copied
<1>2. ASSUME NEW a \in Pointers
      PROVE  (IF a \in (dst + x)..(dst + x + z - 1) THEN q[a - (dst + x) + (src + x)] ELSE q[a])
             = IF a \in (dst + x)..(dst + x + (n - x) - 1) THEN m[a - (dst + x) + (src + x)] ELSE m[a]
  <2>1. a \in Int /\ dst \in Nat /\ src \in Nat /\ n \in Nat /\ x \in Nat /\ y \in Nat /\ z \in Nat
    BY DEF Pointers, ChunkBackward
  <2>2. x + z = y /\ y <= n /\ src >= 1 /\ src + n - 1 <= Top /\ src < dst
    BY DEF ChunkBackward
  <2>3. CASE a \in (dst + x)..(dst + x + z - 1)
    <3>1. a - (dst + x) + (src + x) \in Pointers
      BY <1>0, <2>1, <2>2, <2>3 DEF Pointers
    <3>2. a - (dst + x) + (src + x) \notin (dst + y)..(dst + y + (n - y) - 1)
      BY <2>1, <2>2, <2>3
    <3>3. q[a - (dst + x) + (src + x)] = m[a - (dst + x) + (src + x)]
      BY <1>1, <3>1, <3>2
    <3>4. a \in (dst + x)..(dst + x + (n - x) - 1)
      BY <2>1, <2>2, <2>3
    <3> QED BY <2>3, <3>3, <3>4
  <2>4. CASE a \notin (dst + x)..(dst + x + z - 1)
    <3>1. a \in (dst + x)..(dst + x + (n - x) - 1) <=> a \in (dst + y)..(dst + y + (n - y) - 1)
      BY <2>1, <2>2, <2>4
    <3>2. a - (dst + x) + (src + x) = a - (dst + y) + (src + y)
      BY <2>1
    <3> QED BY <1>1, <2>4, <3>1, <3>2
  <2> QED BY <2>3, <2>4
<1> HIDE DEF q
<1> QED BY <1>1, <1>2 DEF Copied, q

\* A sequence of chunks that starts at 0, each where the last ended, or the same from the end.
Following(chunks, n) ==
  /\ Len(chunks) \in Nat /\ (chunks = <<>> => n = 0)
  /\ \A i \in 1..Len(chunks) :
       /\ chunks[i][1] \in Nat /\ chunks[i][2] \in Nat /\ chunks[i][1] + chunks[i][2] <= n
       /\ i = 1 => chunks[i][1] = 0
       /\ i > 1 => chunks[i][1] = chunks[i - 1][1] + chunks[i - 1][2]
       /\ i = Len(chunks) => chunks[i][1] + chunks[i][2] = n

Retreating(chunks, n) ==
  /\ Len(chunks) \in Nat /\ (chunks = <<>> => n = 0)
  /\ \A i \in 1..Len(chunks) :
       /\ chunks[i][1] \in Nat /\ chunks[i][2] \in Nat /\ chunks[i][1] + chunks[i][2] <= n
       /\ i = 1 => chunks[i][1] + chunks[i][2] = n
       /\ i > 1 => chunks[i][1] + chunks[i][2] = chunks[i - 1][1]
       /\ i = Len(chunks) => chunks[i][1] = 0

\* Chunks forward copy everything, if no chunk is read after it has been overwritten.
LEMMA FollowingCopies ==
  ASSUME NEW m \in [Pointers -> Bytes], NEW dst \in Nat, NEW src \in Nat, NEW n \in Nat, NEW chunks,
         Following(chunks, n), src >= 1, src + n - 1 <= Top,
         dst <= src \/ src + n <= dst
  PROVE  InChunks(m, dst, src, chunks) = Copied(m, dst, src, n)
<1> DEFINE k == Len(chunks)
           end(i) == IF i = 0 THEN 0 ELSE chunks[i][1] + chunks[i][2]
           e == [i \in 0..k |-> Copied(m, dst, src, end(i))]
<1>0. Top \in Nat
  BY MemoryAssumption
<1>1. k \in Nat
  BY DEF Following
<1>2. DOMAIN m = Pointers
  OBVIOUS
<1>3. e[0] = m
  <2>1. Copied(m, dst, src, 0) = m
    BY CopiedNone
  <2> QED BY <1>1, <2>1
<1>4. ASSUME NEW i \in 1..k
      PROVE  e[i] = Copied(e[i - 1], dst + chunks[i][1], src + chunks[i][1], chunks[i][2])
  <2>1. i \in 0..k /\ i - 1 \in 0..k /\ i # 0
    BY <1>1
  <2>2. PICK x \in Nat : x = chunks[i][1]
    BY DEF Following
  <2>3. PICK y \in Nat : y = chunks[i][2]
    BY DEF Following
  <2>4. x = end(i - 1) /\ x + y <= n
    <3>1. CASE i = 1
      BY <2>2, <2>3, <3>1 DEF Following
    <3>2. CASE i > 1
      BY <2>2, <2>3, <3>2 DEF Following
    <3> QED BY <2>1, <3>1, <3>2
  <2>5. e[i] = Copied(m, dst, src, x + y) /\ e[i - 1] = Copied(m, dst, src, x)
    BY <2>1, <2>2, <2>3, <2>4
  <2>6. src + x + y - 1 <= Top /\ (dst <= src \/ src + x + y <= dst)
    <3>1. x + y <= n
      BY <1>0, <2>4
    <3> HIDE DEF e, end
    <3>2. src + x + y <= src + n
      BY <3>1
    <3> QED BY <1>0, <3>2
  <2> HIDE DEF e, end
  <2>7. Copied(Copied(m, dst, src, x), dst + x, src + x, y) = Copied(m, dst, src, x + y)
    <3>1. ChunkForward(dst, src, x, y)
      BY <2>6 DEF ChunkForward
    <3> QED BY <1>2, <3>1, ForwardChunk
  <2> QED BY <2>2, <2>3, <2>5, <2>7
<1>5. end(k) = n /\ k \in 0..k
  BY <1>1 DEF Following
<1>6. e[k] = Copied(m, dst, src, n)
  BY <1>5
<1> HIDE DEF e
<1> QED BY <1>1, <1>3, <1>4, <1>6, InChunksIs

\* Chunks backward copy everything, if the destination lies above the source.
LEMMA RetreatingCopies ==
  ASSUME NEW m \in [Pointers -> Bytes], NEW dst \in Nat, NEW src \in Nat, NEW n \in Nat, NEW chunks,
         Retreating(chunks, n), src >= 1, src + n - 1 <= Top, src < dst
  PROVE  InChunks(m, dst, src, chunks) = Copied(m, dst, src, n)
<1> DEFINE k == Len(chunks)
           start(i) == IF i = 0 THEN n ELSE chunks[i][1]
           e == [i \in 0..k |-> Copied(m, dst + start(i), src + start(i), n - start(i))]
<1>0. Top \in Nat
  BY MemoryAssumption
<1>1. k \in Nat
  BY DEF Retreating
<1>2. DOMAIN m = Pointers
  OBVIOUS
<1>3. e[0] = m
  <2>1. Copied(m, dst + n, src + n, 0) = m
    BY CopiedNone
  <2>2. n - n = 0
    OBVIOUS
  <2> QED BY <1>1, <2>1, <2>2
<1>4. ASSUME NEW i \in 1..k
      PROVE  e[i] = Copied(e[i - 1], dst + chunks[i][1], src + chunks[i][1], chunks[i][2])
  <2>1. i \in 0..k /\ i - 1 \in 0..k /\ i # 0
    BY <1>1
  <2>2. PICK x \in Nat : x = chunks[i][1]
    BY DEF Retreating
  <2>3. PICK y \in Nat : y = start(i - 1) /\ x + chunks[i][2] = y /\ y <= n
    <3>1. CASE i = 1
      BY <2>2, <3>1 DEF Retreating
    <3>2. CASE i > 1
      <4>1. i - 1 \in 1..k
        BY <2>1, <3>2
      <4>2. chunks[i - 1][1] \in Nat /\ chunks[i - 1][2] \in Nat /\ chunks[i - 1][1] + chunks[i - 1][2] <= n
        BY <4>1 DEF Retreating
      <4>3. x + chunks[i][2] = chunks[i - 1][1]
        BY <2>2, <3>2 DEF Retreating
      <4>4. chunks[i - 1][1] <= n
        BY <4>2
      <4>5. start(i - 1) = chunks[i - 1][1]
        BY <3>2
      <4> QED BY <4>2, <4>3, <4>4, <4>5
    <3> QED BY <2>1, <3>1, <3>2
  <2>4. PICK z \in Nat : z = chunks[i][2]
    BY DEF Retreating
  <2>5. x + z = y /\ y <= n
    BY <2>3, <2>4
  <2>6. e[i] = Copied(m, dst + x, src + x, n - x) /\ e[i - 1] = Copied(m, dst + y, src + y, n - y)
    BY <2>1, <2>2, <2>3
  <2> HIDE DEF e, start
  <2>7. Copied(Copied(m, dst + y, src + y, n - y), dst + x, src + x, z) = Copied(m, dst + x, src + x, n - x)
    <3>1. ChunkBackward(dst, src, n, x, y, z)
      BY <2>5 DEF ChunkBackward
    <3> QED BY <1>2, <3>1, BackwardChunk
  <2> QED BY <2>2, <2>4, <2>6, <2>7, Zenon
<1>5. start(k) = 0 /\ k \in 0..k
  BY <1>1 DEF Retreating
<1>6. e[k] = Copied(m, dst, src, n)
  <2>1. dst + 0 = dst /\ src + 0 = src /\ n - 0 = n
    OBVIOUS
  <2> QED BY <1>5, <2>1
<1> HIDE DEF e
<1> QED BY <1>1, <1>3, <1>4, <1>6, InChunksIs

\* Bytes one by one are chunks.
LEMMA BytesFollow == ASSUME NEW n \in Nat PROVE Following([i \in 1..n |-> <<i - 1, 1>>], n)
<1> DEFINE chunks == [i \in 1..n |-> <<i - 1, 1>>]
<1>1. Len(chunks) = n
  OBVIOUS
<1>2. chunks = <<>> => n = 0
  BY <1>1
<1>3. \A i \in 1..n : chunks[i][1] = i - 1 /\ chunks[i][2] = 1
  OBVIOUS
<1> HIDE DEF chunks
<1>4. Following(chunks, n)
  BY <1>1, <1>2, <1>3 DEF Following
<1> QED BY <1>4 DEF chunks

\* How many pages it takes.
LEMMA PageCount ==
  ASSUME NEW n \in Nat
  PROVE  LET count == (n + PageSize - 1) \div PageSize
         IN  /\ count \in Nat /\ (count = 0 <=> n = 0)
             /\ n <= count * PageSize /\ (count > 0 => (count - 1) * PageSize < n)
<1> USE MemoryAssumption
<1> DEFINE count == (n + PageSize - 1) \div PageSize
<1>1. PageSize \in Nat \ {0}
  OBVIOUS
<1>2. PICK P \in Nat \ {0} : P = PageSize
  BY <1>1
<1>3. n + P - 1 \in Nat
  BY <1>2
<1>4. PICK c \in Nat : c = (n + P - 1) \div P /\ c * P <= n + P - 1 /\ n + P - 1 < c * P + P
  <2>1. (n + P - 1) \div P \in Nat
    BY <1>3
  <2>2. (n + P - 1) = P * ((n + P - 1) \div P) + ((n + P - 1) % P) /\ (n + P - 1) % P \in 0..(P - 1)
    BY <1>3
  <2> QED BY <2>1, <2>2
<1>5. c = count
  BY <1>2, <1>4
<1>6. c * P \in Nat /\ n <= c * P
  BY <1>4
<1>7. (c - 1) * P = c * P - P
  BY <1>4
<1>8. (c - 1) * P < n
  BY <1>4, <1>6, <1>7
<1>9. c = 0 <=> n = 0
  <2>1. CASE c = 0
    <3>1. c * P = 0
      BY <2>1
    <3> QED BY <1>6, <2>1, <3>1
  <2>2. CASE c # 0
    <3>1. c - 1 \in Nat /\ P \in Nat
      BY <2>2
    <3>2. (c - 1) * P \in Nat
      BY <3>1
    <3> QED BY <1>8, <2>2, <3>2
  <2> QED BY <2>1, <2>2
<1> QED BY <1>2, <1>4, <1>5, <1>6, <1>8, <1>9

\* The i-th page of n bytes lies below n, and is whole unless it is the last.
LEMMA PageParts ==
  ASSUME NEW n \in Nat, NEW i \in 1..((n + PageSize - 1) \div PageSize)
  PROVE  LET lo == (i - 1) * PageSize
             size == Min({PageSize, n - (i - 1) * PageSize})
             start == Max({0, n - i * PageSize})
         IN  /\ lo \in Nat /\ size \in Nat /\ start \in Nat /\ lo + size <= n
             /\ start + size = n - lo
             /\ i < (n + PageSize - 1) \div PageSize => lo + size = i * PageSize /\ start = n - i * PageSize
             /\ i = (n + PageSize - 1) \div PageSize => lo + size = n /\ start = 0
<1>1. PICK P \in Nat : P = PageSize
  BY MemoryAssumption
<1>2. PICK c \in Nat : /\ c = (n + PageSize - 1) \div PageSize
                       /\ n <= c * P /\ (c > 0 => (c - 1) * P < n)
  BY <1>1, PageCount
<1>3. i \in 1..c /\ i \in Nat
  BY <1>2
<1>4. PICK lo \in Nat : lo = (i - 1) * P /\ i * P = lo + P
  <2>1. i - 1 \in Nat
    BY <1>3
  <2>2. (i - 1) * P \in Nat
    BY <2>1
  <2>3. (i - 1) * P = i * P - P
    BY <1>3
  <2>4. i * P \in Nat
    BY <1>3
  <2> QED BY <2>2, <2>3, <2>4
<1>5. PICK all \in Nat : all = c * P /\ (c - 1) * P = all - P
  <2>1. c * P \in Nat /\ (c - 1) * P = c * P - P
    OBVIOUS
  <2> QED BY <2>1
<1>6. all >= lo + P
  <2>1. c - i \in Nat
    BY <1>3
  <2>2. (c - i) * P \in Nat
    BY <2>1
  <2>3. (c - i) * P = c * P - i * P
    BY <1>3
  <2> QED BY <1>4, <1>5, <2>2, <2>3
<1>7. i < c => all - P >= lo + P
  <2>1. SUFFICES ASSUME i < c PROVE all - P >= lo + P
    OBVIOUS
  <2>2. (c - 1) - i \in Nat
    BY <1>3, <2>1
  <2>3. ((c - 1) - i) * P \in Nat
    BY <2>2
  <2>4. ((c - 1) - i) * P = (c - 1) * P - i * P
    BY <1>3
  <2> QED BY <1>4, <1>5, <2>3, <2>4
<1>8. n <= all /\ all - P < n
  BY <1>2, <1>3, <1>5
<1>9. i = c => all = lo + P
  BY <1>4, <1>5
<1>10. Min({P, n - lo}) = IF P <= n - lo THEN P ELSE n - lo
  BY SmallerOf
<1>11. Max({0, n - (lo + P)}) = IF 0 >= n - (lo + P) THEN 0 ELSE n - (lo + P)
  <2>1. n - (lo + P) \in Int
    OBVIOUS
  <2>2. \A y \in Int : Max({0, y}) = IF 0 >= y THEN 0 ELSE y
    BY LargerOf
  <2> QED BY <2>1, <2>2
<1>12. PICK size \in Nat : size = Min({P, n - lo}) /\ lo + size <= n /\ (i < c => size = P) /\ (i = c => size = n - lo)
  BY <1>3, <1>6, <1>7, <1>8, <1>9, <1>10
<1>13. PICK start \in Nat : start = Max({0, n - (lo + P)}) /\ (i < c => start = n - (lo + P)) /\ (i = c => start = 0)
  BY <1>3, <1>6, <1>7, <1>8, <1>9, <1>11
<1>14. start + size = n - lo
  <2>1. i < c \/ i = c
    BY <1>3
  <2> QED BY <1>9, <1>12, <1>13, <2>1
<1>15. i < c => lo + size = i * P /\ start = n - i * P
  BY <1>4, <1>12, <1>13
<1>16. i = c => lo + size = n /\ start = 0
  BY <1>12, <1>13
<1>17. size = Min({PageSize, n - (i - 1) * PageSize}) /\ lo = (i - 1) * PageSize
  BY <1>1, <1>4, <1>12
<1>18. start = Max({0, n - i * PageSize})
  BY <1>1, <1>4, <1>13
<1> QED BY <1>1, <1>2, <1>12, <1>14, <1>15, <1>16, <1>17, <1>18

\* The chunks of the compiled engine.
LEMMA ChunksFollow == ASSUME NEW n \in Nat PROVE Following(Chunks(n, FALSE), n)
<1> DEFINE c == (n + PageSize - 1) \div PageSize
           lo(i) == (i - 1) * PageSize
           size(i) == Min({PageSize, n - (i - 1) * PageSize})
           chunks == [i \in 1..c |-> <<lo(i), size(i)>>]
<1>1. c \in Nat /\ (c = 0 => n = 0)
  BY PageCount
<1>2. \A i \in 1..c : /\ lo(i) \in Nat /\ size(i) \in Nat /\ lo(i) + size(i) <= n
                      /\ i < c => lo(i) + size(i) = i * PageSize
                      /\ i = c => lo(i) + size(i) = n
  BY PageParts
<1>3. lo(1) = 0
  BY MemoryAssumption
<1>4. \A i \in 1..c : i > 1 => i - 1 \in 1..c /\ i - 1 < c /\ lo(i) = (i - 1) * PageSize
  BY <1>1
<1>5. Chunks(n, FALSE) = chunks
  BY DEF Chunks
<1>6. Len(chunks) = c /\ \A i \in 1..c : chunks[i][1] = lo(i) /\ chunks[i][2] = size(i)
  BY <1>1
<1>7. chunks = <<>> => c = 0
  BY <1>6
<1> HIDE DEF c, size, chunks
<1>8. \A i \in 1..c : i > 1 => lo(i) = lo(i - 1) + size(i - 1)
  BY <1>2, <1>4
<1> HIDE DEF lo
<1>9. \A i \in 1..c : /\ chunks[i][1] \in Nat /\ chunks[i][2] \in Nat /\ chunks[i][1] + chunks[i][2] <= n
                      /\ i = 1 => chunks[i][1] = 0
                      /\ i = c => chunks[i][1] + chunks[i][2] = n
  BY <1>2, <1>3, <1>6
<1>10. \A i \in 1..c : i > 1 => chunks[i][1] = chunks[i - 1][1] + chunks[i - 1][2]
  BY <1>4, <1>6, <1>8
<1> QED BY <1>1, <1>5, <1>6, <1>7, <1>9, <1>10 DEF Following

\* And backward.
LEMMA ChunksRetreat == ASSUME NEW n \in Nat PROVE Retreating(Chunks(n, TRUE), n)
<1> DEFINE c == (n + PageSize - 1) \div PageSize
           lo(i) == (i - 1) * PageSize
           size(i) == Min({PageSize, n - (i - 1) * PageSize})
           start(i) == Max({0, n - i * PageSize})
           chunks == [i \in 1..c |-> <<start(i), size(i)>>]
<1>1. c \in Nat /\ (c = 0 => n = 0)
  BY PageCount
<1>2. \A i \in 1..c : /\ lo(i) \in Nat /\ size(i) \in Nat /\ start(i) \in Nat
                      /\ start(i) + size(i) = n - lo(i)
                      /\ i < c => start(i) = n - i * PageSize
                      /\ i = c => start(i) = 0
  BY PageParts
<1>3. lo(1) = 0
  BY MemoryAssumption
<1>4. \A i \in 1..c : i > 1 => i - 1 \in 1..c /\ i - 1 < c /\ lo(i) = (i - 1) * PageSize
  BY <1>1
<1>5. Chunks(n, TRUE) = chunks
  BY DEF Chunks
<1>6. Len(chunks) = c /\ \A i \in 1..c : chunks[i][1] = start(i) /\ chunks[i][2] = size(i)
  BY <1>1
<1>7. chunks = <<>> => c = 0
  BY <1>6
<1> HIDE DEF c, size, chunks, start
<1>8. \A i \in 1..c : i > 1 => start(i) + size(i) = start(i - 1)
  BY <1>2, <1>4
<1> HIDE DEF lo
<1>9. \A i \in 1..c : start(i) + size(i) <= n /\ (i = 1 => start(i) + size(i) = n)
  <2>1. SUFFICES ASSUME NEW i \in 1..c PROVE start(i) + size(i) <= n /\ (i = 1 => start(i) + size(i) = n)
    OBVIOUS
  <2>2. PICK s \in Nat, z \in Nat, l \in Nat : s = start(i) /\ z = size(i) /\ l = lo(i) /\ s + z = n - l
    BY <1>2
  <2>3. i = 1 => l = 0
    BY <1>3, <2>2
  <2>4. s + z <= n /\ (i = 1 => s + z = n)
    BY <2>2, <2>3
  <2> QED BY <2>2, <2>4
<1>10. \A i \in 1..c : /\ chunks[i][1] \in Nat /\ chunks[i][2] \in Nat /\ chunks[i][1] + chunks[i][2] <= n
                       /\ i = 1 => chunks[i][1] + chunks[i][2] = n
                       /\ i = c => chunks[i][1] = 0
  BY <1>2, <1>6, <1>9
<1>11. \A i \in 1..c : i > 1 => chunks[i][1] + chunks[i][2] = chunks[i - 1][1]
  BY <1>4, <1>6, <1>8
<1> QED BY <1>1, <1>5, <1>6, <1>7, <1>10, <1>11 DEF Retreating

-----------------------------------------------------------------------------
(* Memories, and what each routine leaves.                                 *)

\* Copies of either engine leave what one that reads everything first would.
LEMMA ForwardIs ==
  ASSUME NEW m \in [Pointers -> Bytes], NEW dst \in Nat, NEW src \in Nat, NEW n \in Nat,
         src >= 1, src + n - 1 <= Top, dst <= src \/ src + n <= dst
  PROVE  Forward(m, dst, src, n) = Copied(m, dst, src, n)
<1>1. Following([i \in 1..n |-> <<i - 1, 1>>], n)
  BY BytesFollow
<1>2. InChunks(m, dst, src, [i \in 1..n |-> <<i - 1, 1>>]) = Copied(m, dst, src, n)
  BY <1>1, FollowingCopies
<1> QED BY <1>2 DEF Forward

\* memcpy of buffers that do not overlap, and memmove of any.
LEMMA MemcpyIs ==
  ASSUME NEW m \in [Pointers -> Bytes], NEW dst \in Nat, NEW src \in Nat, NEW n \in Nat,
         src >= 1, src + n - 1 <= Top, Disjoint(dst, src, n)
  PROVE  Memcpy(m, dst, src, n) = Copied(m, dst, src, n)
<1>1. dst <= src \/ src + n <= dst
  BY DEF Disjoint
<1>2. PICK chunks : chunks = Chunks(n, FALSE) /\ Following(chunks, n)
  BY ChunksFollow
<1>3. InChunks(m, dst, src, chunks) = Copied(m, dst, src, n)
  <2>1. Following(chunks, n)
    BY <1>2
  <2> QED BY <1>1, <2>1, FollowingCopies
<1>4. CopyBytes(m, dst, src, n, FALSE) = InChunks(m, dst, src, Chunks(n, FALSE))
  BY DEF CopyBytes
<1>5. Forward(m, dst, src, n) = Copied(m, dst, src, n)
  BY <1>1, ForwardIs
<1> QED BY <1>2, <1>3, <1>4, <1>5 DEF Memcpy

\* memmove copies its bytes however the two buffers overlap.
LEMMA MemmoveIs ==
  ASSUME NEW m \in [Pointers -> Bytes], NEW dst \in Nat, NEW src \in Nat, NEW n \in Nat,
         src >= 1, src + n - 1 <= Top
  PROVE  Memmove(m, dst, src, n) = Copied(m, dst, src, n)
<1>1. CASE Overlaps(dst, src, n)
  <2>1. src < dst
    BY <1>1 DEF Overlaps
  <2>2. PICK chunks : chunks = Chunks(n, TRUE) /\ Retreating(chunks, n)
    BY ChunksRetreat
  <2>3. InChunks(m, dst, src, chunks) = Copied(m, dst, src, n)
    <3>1. Retreating(chunks, n)
      BY <2>2
    <3> QED BY <2>1, <3>1, RetreatingCopies
  <2>4. CopyBytes(m, dst, src, n, TRUE) = InChunks(m, dst, src, Chunks(n, TRUE))
    BY <1>1 DEF CopyBytes
  <2> QED BY <2>2, <2>3, <2>4 DEF Memmove
<1>2. CASE ~ Overlaps(dst, src, n)
  <2>1. dst <= src \/ src + n <= dst
    BY <1>2 DEF Overlaps
  <2>2. PICK chunks : chunks = Chunks(n, FALSE) /\ Following(chunks, n)
    BY ChunksFollow
  <2>3. InChunks(m, dst, src, chunks) = Copied(m, dst, src, n)
    <3>1. Following(chunks, n)
      BY <2>2
    <3> QED BY <2>1, <3>1, FollowingCopies
  <2>4. CopyBytes(m, dst, src, n, TRUE) = InChunks(m, dst, src, Chunks(n, FALSE))
    BY <1>2 DEF CopyBytes
  <2> QED BY <2>2, <2>3, <2>4 DEF Memmove
<1> QED BY <1>1, <1>2

\* The first NUL of a string.
LEMMA FirstNul ==
  ASSUME NEW m \in Memories, NEW p \in Pointers
  PROVE  /\ NulAt(m, p) \in p..Top /\ m[NulAt(m, p)] = 0
         /\ \A a \in p..Top : m[a] = 0 => NulAt(m, p) <= a
<1> DEFINE nuls == {a \in p..Top : m[a] = 0}
<1>1. Top \in Nat
  BY MemoryAssumption
<1>2. nuls \subseteq Nat
  BY <1>1 DEF Pointers
<1>3. Top \in nuls
  BY <1>1 DEF Pointers, Memories
<1>4. Min(nuls) \in nuls /\ \A y \in nuls : Min(nuls) <= y
  BY <1>2, <1>3, LeastOf
<1>5. NulAt(m, p) = Min(nuls)
  BY DEF NulAt
<1> QED BY <1>4, <1>5

\* The string at a pointer.
LEMMA TextIs ==
  ASSUME NEW m \in Memories, NEW p \in Pointers
  PROVE  /\ Strlen(m, p) \in Nat /\ p + Strlen(m, p) = NulAt(m, p) /\ p + Strlen(m, p) <= Top
         /\ Text(m, p) \in Seq(Bytes) /\ Len(Text(m, p)) = Strlen(m, p)
         /\ \A i \in 1..Strlen(m, p) : Text(m, p)[i] = m[p + i - 1] /\ m[p + i - 1] # 0 /\ m[p + i - 1] \in Bytes
<1>1. Top \in Nat /\ p \in Nat /\ p >= 1
  BY MemoryAssumption DEF Pointers
<1>2. PICK z \in Nat : z = NulAt(m, p) /\ p <= z /\ z <= Top
  BY <1>1, FirstNul
<1>3. PICK n \in Nat : n = Strlen(m, p) /\ p + n = z
  BY <1>1, <1>2 DEF Strlen
<1> DEFINE all == [a \in 1..Top |-> m[a]]
<1>4. Text(m, p) = SubSeq(all, p, z - 1)
  BY <1>2 DEF Text
<1>5. /\ SubSeq(all, p, z - 1) \in Seq(Bytes) /\ Len(SubSeq(all, p, z - 1)) = n
      /\ \A i \in 1..n : SubSeq(all, p, z - 1)[i] = all[p + i - 1]
  <2>1. z - 1 - p + 1 = n /\ z - 1 \in Int /\ p \in Int /\ (p <= z - 1 <=> n # 0)
    BY <1>1, <1>2, <1>3
  <2>2. \A i \in p..(z - 1) : all[i] \in Bytes
    BY <1>1, <1>2 DEF Memories, Pointers
  <2> HIDE DEF all
  <2>3. /\ SubSeq(all, p, z - 1) \in Seq(Bytes)
        /\ Len(SubSeq(all, p, z - 1)) = IF p <= z - 1 THEN z - 1 - p + 1 ELSE 0
        /\ \A i \in 1..(z - 1 - p + 1) : SubSeq(all, p, z - 1)[i] = all[p + i - 1]
    BY <2>1, <2>2, SubSeqProperties
  <2> QED BY <2>1, <2>3
<1>6. ASSUME NEW i \in 1..n PROVE all[p + i - 1] = m[p + i - 1] /\ m[p + i - 1] # 0 /\ m[p + i - 1] \in Bytes
  <2>1. p + i - 1 \in 1..Top /\ p + i - 1 \in p..Top /\ p + i - 1 < z
    BY <1>1, <1>2, <1>3
  <2>2. ~ (z <= p + i - 1)
    BY <1>1, <1>2, <2>1
  <2>3. m[p + i - 1] # 0
    BY <1>2, <2>1, <2>2, FirstNul
  <2> QED BY <2>1, <2>3 DEF Memories, Pointers
<1> QED BY <1>2, <1>3, <1>4, <1>5, <1>6

\* strcpy copies a string with its NUL.
LEMMA StrcpyIs ==
  ASSUME NEW m \in Memories, NEW dst \in Pointers, NEW src \in Pointers,
         Disjoint(dst, src, Strlen(m, src) + 1), Fits(dst, Strlen(m, src) + 1)
  PROVE  StrcpyMemory(m, dst, src) = Copied(m, dst, src, Strlen(m, src) + 1)
<1>1. Top \in Nat
  BY MemoryAssumption
<1>2. dst \in Nat /\ src \in Nat /\ src >= 1
  BY <1>1 DEF Pointers
<1>3. PICK n \in Nat : n = Strlen(m, src) + 1 /\ src + n - 1 <= Top
  <2>1. PICK k \in Nat : k = Strlen(m, src) /\ src + k <= Top
    BY TextIs
  <2>2. k + 1 \in Nat /\ src + (k + 1) - 1 <= Top
    BY <1>1, <1>2, <2>1
  <2> QED BY <2>1, <2>2
<1>4. dst <= src \/ src + n <= dst
  BY <1>2, <1>3 DEF Disjoint
<1>5. m \in [Pointers -> Bytes]
  BY DEF Memories
<1>6. Forward(m, dst, src, n) = Copied(m, dst, src, n)
  BY <1>2, <1>3, <1>4, <1>5, ForwardIs
<1> QED BY <1>3, <1>6 DEF StrcpyMemory

\* strncpy copies at most n bytes of it and fills up.
LEMMA StrncpyIs ==
  ASSUME NEW m \in Memories, NEW dst \in Pointers, NEW src \in Pointers, NEW n \in Nat,
         NEW read, read = Min({n, Strlen(m, src) + 1}), dst + n <= src \/ src + read <= dst,
         NEW a \in Pointers
  PROVE  StrncpyMemory(m, dst, src, n)[a] =
           IF a \in dst..(dst + n - 1)
           THEN IF a - dst < Strlen(m, src) THEN m[src + (a - dst)] ELSE 0
           ELSE m[a]
<1>1. Top \in Nat
  BY MemoryAssumption
<1>2. dst \in Nat /\ src \in Nat /\ src >= 1 /\ a \in Nat
  BY <1>1 DEF Pointers
<1>3. PICK k \in Nat : k = Strlen(m, src) /\ src + k <= Top
  BY TextIs
<1>4. PICK used \in Nat : used = Min({n, k}) /\ used = IF n <= k THEN n ELSE k
  BY SmallerOf
<1>5. Min({n, k + 1}) = IF n <= k + 1 THEN n ELSE k + 1
  BY SmallerOf
<1>6. dst <= src \/ src + used <= dst
  BY <1>2, <1>3, <1>4, <1>5
<1>7. src + used - 1 <= Top
  BY <1>1, <1>2, <1>3, <1>4
<1>8. m \in [Pointers -> Bytes] /\ DOMAIN m = Pointers
  BY DEF Memories
<1>9. Forward(m, dst, src, used) = Copied(m, dst, src, used)
  BY <1>2, <1>6, <1>7, <1>8, ForwardIs
<1> DEFINE q == Copied(m, dst, src, used)
<1>10. DOMAIN q = Pointers /\ q[a] = IF a \in dst..(dst + used - 1) THEN m[a - dst + src] ELSE m[a]
  BY <1>8 DEF Copied
<1> HIDE DEF q
<1>11. StrncpyMemory(m, dst, src, n) = Memset(q, dst + used, 0, n - used)
  BY <1>3, <1>4, <1>9 DEF StrncpyMemory, q
<1>12. Memset(q, dst + used, 0, n - used)[a]
         = IF a \in (dst + used)..(dst + used + (n - used) - 1) THEN 0 ELSE q[a]
  BY <1>10 DEF Memset
<1>13. CASE a \in dst..(dst + n - 1) /\ a - dst < k
  <2>1. a \in dst..(dst + used - 1) /\ a \notin (dst + used)..(dst + used + (n - used) - 1)
    BY <1>2, <1>4, <1>13
  <2>2. a - dst + src = src + (a - dst)
    BY <1>2
  <2> QED BY <1>3, <1>10, <1>11, <1>12, <1>13, <2>1, <2>2
<1>14. CASE a \in dst..(dst + n - 1) /\ ~ (a - dst < k)
  <2>1. a \in (dst + used)..(dst + used + (n - used) - 1)
    BY <1>2, <1>4, <1>14
  <2> QED BY <1>3, <1>11, <1>12, <1>14, <2>1
<1>15. CASE a \notin dst..(dst + n - 1)
  <2>1. a \notin dst..(dst + used - 1) /\ a \notin (dst + used)..(dst + used + (n - used) - 1)
    BY <1>2, <1>4, <1>15
  <2> QED BY <1>10, <1>11, <1>12, <1>15, <2>1
<1> QED BY <1>13, <1>14, <1>15

-----------------------------------------------------------------------------
(* The invariant.                                                          *)

Copiers == {"memcpy", "memmove", "memset", "strcpy", "stpcpy", "strncpy"}

\* A call on memory is one that C allows of the memory before it, and only
\* strtok_r and a copy that is done have written to it.
CallInv ==
  /\ \/ before \in Memories /\ call \in BufferCalls /\ Legal(before, call)
     \/ call.name \in {"fnmatch", "strto", "none"}
  /\ call.name # "strtok_r" /\ (call.name \in Copiers => result = Pending) => mem = before

\* LibcInit chooses such a call.
LEMMA CallInvInit == LibcInit => CallInv
<1>1. ASSUME Init PROVE CallInv
  <2>1. CASE mem \in Memories /\ call \in BufferCalls /\ Legal(mem, call)
    BY <1>1, <2>1 DEF Init, CallInv
  <2>2. CASE call \in MatchCalls \cup NumberCalls
    <3>1. call.name \in {"fnmatch", "strto"}
      BY <2>2 DEF MatchCalls, NumberCalls
    <3> QED BY <1>1, <3>1 DEF Init, CallInv
  <2> QED BY <1>1, <2>1, <2>2 DEF Init
<1>2. ASSUME call = NoCall, before = mem PROVE CallInv
  BY <1>2 DEF NoCall, CallInv
<1> QED BY <1>1, <1>2 DEF LibcInit

\* What a step of a call leaves.
LEMMA CallSteps ==
  ASSUME Next
  PROVE  /\ before' = before /\ call' = call /\ result = Pending
         /\ call.name \notin Copiers \cup {"strtok_r"} => mem' = mem
         /\ \/ CopyRoutine \/ CompareRoutine \/ SearchRoutine
            \/ call.name \in {"fnmatch", "strto", "strtok_r"}
<1> USE DEF Calls, Returns, Copiers
<1>1. CASE CopyRoutine
  BY <1>1 DEF CopyRoutine, Writes
<1>2. CASE CompareRoutine
  BY <1>2 DEF CompareRoutine, Reads
<1>3. CASE SearchRoutine
  BY <1>3 DEF SearchRoutine, Reads
<1>4. CASE FnmatchRoutine
  BY <1>4 DEF FnmatchRoutine, Reads
<1>5. CASE StrtoRoutine
  BY <1>5 DEF StrtoRoutine
<1>6. CASE StrtokR
  BY <1>6 DEF StrtokR
<1> QED BY <1>1, <1>2, <1>3, <1>4, <1>5, <1>6 DEF Next

\* No step of the library changes the call or what was before it.
LEMMA CallInvNext ==
  ASSUME CallInv, [LibcNext]_<<vars, options>>
  PROVE  CallInv'
<1>1. CASE Next
  <2>1. before' = before /\ call' = call /\ result = Pending
        /\ (call.name \notin Copiers \cup {"strtok_r"} => mem' = mem)
    BY <1>1, CallSteps
  <2>2. result' # Pending \/ mem' = mem \/ call.name \notin Copiers
    <3>1. CASE CopyRoutine
      <4>1. \E v : result' = <<v>>
        BY <3>1, Zenon DEF CopyRoutine, Writes, Returns
      <4> QED BY <4>1 DEF Pending
    <3>2. CASE ~ CopyRoutine
      BY <1>1, <3>2 DEF Next, CompareRoutine, SearchRoutine, FnmatchRoutine, StrtoRoutine, StrtokR,
         Reads, Calls, Copiers
    <3> QED BY <3>1, <3>2
  <2>3. mem = before \/ call.name = "strtok_r"
    BY <2>1 DEF CallInv
  <2>4. \/ before' \in Memories /\ call' \in BufferCalls /\ Legal(before', call')
        \/ call'.name \in {"fnmatch", "strto", "none"}
    BY <2>1 DEF CallInv
  <2> QED BY <2>1, <2>2, <2>3, <2>4 DEF CallInv
<1>2. CASE UNCHANGED vars
  BY <1>2 DEF CallInv, vars
<1> QED BY <1>1, <1>2 DEF LibcNext, vars, options

\* The arguments of a call.
LEMMA Arguments ==
  ASSUME CallInv, call.name \notin {"fnmatch", "strto", "none"}
  PROVE  /\ before \in Memories /\ Legal(before, call)
         /\ call.a \in Pointers /\ call.b \in Pointers /\ call.n \in 0..Top /\ call.c \in Bytes
         /\ call.a \in Nat /\ call.b \in Nat /\ call.n \in Nat /\ call.c \in 0..255
         /\ call.a >= 1 /\ call.b >= 1
<1>1. Top \in Nat /\ Bytes \subseteq 0..255
  BY MemoryAssumption
<1>2. before \in Memories /\ call \in BufferCalls /\ Legal(before, call)
  BY DEF CallInv
<1>3. call.a \in Pointers /\ call.b \in Pointers /\ call.n \in 0..Top /\ call.c \in Bytes
  BY <1>2 DEF BufferCalls
<1>4. call.a \in 1..Top /\ call.b \in 1..Top
  BY <1>3 DEF Pointers
<1>5. call.a \in Nat /\ call.b \in Nat /\ call.a >= 1 /\ call.b >= 1
  BY <1>1, <1>4
<1>6. call.n \in Nat
  BY <1>1, <1>3
<1>7. call.c \in 0..255
  BY <1>1, <1>3
<1> QED BY <1>2, <1>3, <1>5, <1>6, <1>7

-----------------------------------------------------------------------------
(* Copies.                                                                 *)

\* A copy that has changed the memory as C says.
LEMMA CopiesStep ==
  ASSUME CallInv, CopyRoutine
  PROVE  CopiesAsC'
<1> DEFINE d == call.a
           s == call.b
           n == call.n
<1>1. Top \in Nat
  BY MemoryAssumption
<1>2. /\ before' = before /\ call' = call /\ result' # Pending
      /\ call.name \in Copiers /\ mem = before
  BY DEF CopyRoutine, Writes, Calls, Returns, Pending, Copiers, CallInv
<1>3. /\ before \in Memories /\ Legal(before, call) /\ d \in Pointers /\ s \in Pointers
      /\ d \in Nat /\ s \in Nat /\ n \in Nat /\ call.c \in 0..255 /\ s >= 1
  BY <1>2, Arguments DEF Copiers
<1>4. before \in [Pointers -> Bytes] /\ DOMAIN before = Pointers
  BY <1>3 DEF Memories
<1>5. CASE call.name \in {"memcpy", "memmove"}
  <2>1. Fits(s, n) /\ (call.name = "memcpy" => Disjoint(d, s, n))
    BY <1>3, <1>5 DEF Legal
  <2>2. s + n - 1 <= Top
    BY <2>1 DEF Fits
  <2>3. mem' = Copied(before, d, s, n)
    <3>1. CASE call.name = "memcpy"
      <4>1. Memcpy(before, d, s, n) = Copied(before, d, s, n)
        BY <1>3, <1>4, <2>1, <2>2, <3>1, MemcpyIs
      <4>2. mem' = Memcpy(mem, d, s, n)
        BY <3>1 DEF CopyRoutine, Writes, Calls
      <4> QED BY <1>2, <4>1, <4>2
    <3>2. CASE call.name = "memmove"
      <4>1. Memmove(before, d, s, n) = Copied(before, d, s, n)
        BY <1>3, <1>4, <2>2, MemmoveIs
      <4>2. mem' = Memmove(mem, d, s, n)
        BY <3>2 DEF CopyRoutine, Writes, Calls
      <4> QED BY <1>2, <4>1, <4>2
    <3> QED BY <1>5, <3>1, <3>2
  <2>4. ASSUME NEW a \in Pointers
        PROVE  mem'[a] = IF a \in d..(d + n - 1) THEN before[s + (a - d)] ELSE before[a]
    <3>1. a - d + s = s + (a - d)
      BY <1>1, <1>3 DEF Pointers
    <3> QED BY <1>4, <2>3, <3>1 DEF Copied
  <2> QED BY <1>2, <1>5, <2>4 DEF CopiesAsC
<1>6. CASE call.name = "memset"
  <2>1. mem' = Memset(before, d, call.c, n)
    BY <1>2, <1>6 DEF CopyRoutine, Writes, Calls
  <2>2. call.c % 256 = call.c
    BY <1>3
  <2>3. \A a \in Pointers : mem'[a] = IF a \in d..(d + n - 1) THEN call.c ELSE before[a]
    BY <1>4, <2>1, <2>2 DEF Memset
  <2> QED BY <1>2, <1>6, <2>3 DEF CopiesAsC
<1>7. CASE call.name \in {"strcpy", "stpcpy", "strncpy"}
  <2> DEFINE k == Strlen(before, s)
             text == Append(Text(before, s), 0)
  <2>1. /\ k \in Nat /\ s + k = NulAt(before, s) /\ s + k <= Top
        /\ Text(before, s) \in Seq(Bytes) /\ Len(Text(before, s)) = k
        /\ \A i \in 1..k : Text(before, s)[i] = before[s + i - 1]
    BY <1>3, TextIs
  <2>2. /\ Len(text) = k + 1
        /\ \A i \in 1..k : text[i] = before[s + i - 1]
        /\ text[k + 1] = 0
    BY <2>1, AppendProperties, MemoryAssumption
  <2>3. \A i \in 0..(k - 1) : text[i + 1] = before[s + i]
    <3>1. SUFFICES ASSUME NEW i \in 0..(k - 1) PROVE text[i + 1] = before[s + i]
      OBVIOUS
    <3>2. i + 1 \in 1..k /\ s + (i + 1) - 1 = s + i
      BY <1>3, <2>1
    <3> HIDE DEF k, text
    <3> QED BY <2>2, <3>2
  <2>4. before[s + k] = 0
    BY <1>3, <2>1, FirstNul
  <2> HIDE DEF text
  <2>5. CASE call.name \in {"strcpy", "stpcpy"}
    <3>1. Fits(d, k + 1) /\ Disjoint(d, s, k + 1)
      BY <1>3, <2>5 DEF Legal
    <3>2. mem' = Copied(before, d, s, k + 1)
      <4>1. StrcpyMemory(before, d, s) = Copied(before, d, s, k + 1)
        BY <1>3, <3>1, StrcpyIs
      <4>2. mem' = StrcpyMemory(mem, d, s)
        BY <2>5 DEF CopyRoutine, Writes, Calls
      <4> QED BY <1>2, <4>1, <4>2
    <3> HIDE DEF k
    <3>3. ASSUME NEW a \in Pointers
          PROVE  mem'[a] = IF a \in d..(d + Len(text) - 1)
                           THEN IF a - d < Len(text) THEN text[a - d + 1] ELSE 0
                           ELSE before[a]
      <4>1. a \in Nat
        BY <1>1 DEF Pointers
      <4>2. mem'[a] = IF a \in d..(d + (k + 1) - 1) THEN before[a - d + s] ELSE before[a]
        BY <1>4, <3>2 DEF Copied
      <4>3. CASE a \in d..(d + (k + 1) - 1) /\ a - d \in 0..(k - 1)
        <5>1. text[a - d + 1] = before[s + (a - d)] /\ s + (a - d) = a - d + s
          BY <1>3, <2>3, <4>1, <4>3
        <5>2. a - d < Len(text) /\ a \in d..(d + Len(text) - 1)
          BY <1>3, <2>1, <2>2, <4>1, <4>3
        <5> QED BY <4>2, <4>3, <5>1, <5>2
      <4>4. CASE a \in d..(d + (k + 1) - 1) /\ ~ (a - d \in 0..(k - 1))
        <5>1. a - d = k /\ a - d + s = s + k
          BY <1>3, <2>1, <4>1, <4>4
        <5>2. a - d < Len(text) /\ a \in d..(d + Len(text) - 1)
          BY <1>3, <2>1, <2>2, <4>1, <4>4
        <5> QED BY <2>2, <2>4, <4>2, <4>4, <5>1, <5>2
      <4>5. CASE a \notin d..(d + (k + 1) - 1)
        BY <2>2, <4>2, <4>5
      <4> QED BY <4>3, <4>4, <4>5
    <3> QED BY <1>2, <2>5, <3>3 DEF CopiesAsC, Done, text
  <2>6. CASE call.name = "strncpy"
    <3>1. PICK read : read = Min({n, k + 1}) /\ (d + n <= s \/ s + read <= d)
      BY <1>3, <2>6 DEF Legal
    <3>2. mem' = StrncpyMemory(before, d, s, n)
      BY <1>2, <2>6 DEF CopyRoutine, Writes, Calls
    <3>3. ASSUME NEW a \in Pointers
          PROVE  mem'[a] = IF a \in d..(d + n - 1)
                           THEN IF a - d < k THEN before[s + (a - d)] ELSE 0
                           ELSE before[a]
      <4> HIDE DEF d, s, n
      <4>1. StrncpyMemory(before, d, s, n)[a] =
              IF a \in d..(d + n - 1)
              THEN IF a - d < Strlen(before, s) THEN before[s + (a - d)] ELSE 0
              ELSE before[a]
        BY <1>3, <3>1, StrncpyIs
      <4> QED BY <3>2, <4>1
    <3> HIDE DEF k
    <3>4. ASSUME NEW a \in Pointers
          PROVE  mem'[a] = IF a \in d..(d + n - 1)
                           THEN IF a - d < Len(text) THEN text[a - d + 1] ELSE 0
                           ELSE before[a]
      <4>1. a \in Nat
        BY <1>1 DEF Pointers
      <4>2. CASE a \in d..(d + n - 1) /\ a - d < k
        <5>1. a - d \in 0..(k - 1) /\ a - d < Len(text)
          BY <1>3, <2>1, <2>2, <4>1, <4>2
        <5> QED BY <2>3, <3>3, <4>2, <5>1
      <4>3. CASE a \in d..(d + n - 1) /\ a - d = k
        <5>1. ~ (a - d < k) /\ a - d < Len(text) /\ text[a - d + 1] = 0
          BY <1>3, <2>1, <2>2, <4>1, <4>3
        <5> QED BY <3>3, <4>3, <5>1
      <4>4. CASE a \in d..(d + n - 1) /\ a - d > k
        <5>1. ~ (a - d < k) /\ ~ (a - d < Len(text))
          BY <1>3, <2>1, <2>2, <4>1, <4>4
        <5> QED BY <3>3, <4>4, <5>1
      <4>5. CASE a \notin d..(d + n - 1)
        BY <3>3, <4>5
      <4>6. a - d < k \/ a - d = k \/ a - d > k
        <5>1. d \in Int /\ k \in Int /\ a \in Int
          BY <1>3, <2>1, <4>1
        <5> HIDE DEF d
        <5> QED BY <5>1
      <4> QED BY <4>2, <4>3, <4>4, <4>5, <4>6
    <3> QED BY <1>2, <2>6, <3>4 DEF CopiesAsC, Done, text
  <2> QED BY <1>7, <2>5, <2>6
<1> QED BY <1>2, <1>5, <1>6, <1>7 DEF Copiers

-----------------------------------------------------------------------------
(* Comparisons.                                                            *)

\* Where two sequences part decides their order.
LEMMA OrderOf ==
  ASSUME NEW s \in Seq(Nat), NEW t \in Seq(Nat), NEW k \in Nat, NEW v \in Int,
         k <= Len(s), k <= Len(t), \A i \in 1..k : s[i] = t[i],
         \/ k = Len(s) /\ k = Len(t) /\ v = 0
         \/ k = Len(s) /\ k < Len(t) /\ v < 0
         \/ k < Len(s) /\ k = Len(t) /\ v > 0
         \/ k < Len(s) /\ k < Len(t) /\ v = s[k + 1] - t[k + 1] /\ v # 0
  PROVE  (v < 0 <=> Less(s, t)) /\ (v = 0 <=> s = t)
<1> DEFINE Parts(j) == /\ j <= Len(s) /\ \A i \in 1..j : s[i] = t[i]
                       /\ j < Len(t) /\ (j = Len(s) \/ s[j + 1] < t[j + 1])
<1>1. PICK x \in Nat, y \in Nat : x = Len(s) /\ y = Len(t)
  OBVIOUS
<1>0. (\A i \in 1..x : s[i] \in Nat) /\ (\A i \in 1..y : t[i] \in Nat)
  BY <1>1
<1>2. Less(s, t) <=> \E j \in 0..Len(t) : Parts(j)
  BY DEF Less
<1>3. v < 0 => k \in 0..Len(t) /\ Parts(k)
  <2>1. CASE k < Len(s) /\ k < Len(t) /\ v = s[k + 1] - t[k + 1]
    <3>1. k + 1 \in 1..x /\ k + 1 \in 1..y
      BY <1>1, <2>1
    <3>2. s[k + 1] \in Nat /\ t[k + 1] \in Nat
      BY <1>0, <3>1
    <3> QED BY <2>1, <3>2
  <2> QED BY <2>1
<1>4. ASSUME NEW j \in 0..Len(t), Parts(j) PROVE v < 0
  <2>1. CASE j < k
    <3>1. j + 1 \in 1..k /\ j < x
      BY <1>1, <2>1
    <3>2. s[j + 1] = t[j + 1] /\ s[j + 1] \in Nat
      BY <1>1, <3>1
    <3> QED BY <1>1, <1>4, <3>1, <3>2
  <2>2. CASE k < j
    <3>1. k + 1 \in 1..j /\ k < x /\ k < y
      BY <1>1, <1>4, <2>2
    <3>2. s[k + 1] = t[k + 1] /\ s[k + 1] \in Nat
      BY <1>1, <1>4, <3>1
    <3> QED BY <1>1, <3>1, <3>2
  <2>3. CASE j = k
    <3>1. k < y /\ (k = x \/ s[k + 1] < t[k + 1])
      BY <1>1, <1>4, <2>3
    <3>2. CASE k < x
      <4>1. s[k + 1] < t[k + 1] /\ v = s[k + 1] - t[k + 1] /\ s[k + 1] \in Nat /\ t[k + 1] \in Nat
        BY <1>1, <3>1, <3>2
      <4> QED BY <4>1
    <3>3. CASE k = x
      BY <1>1, <3>1, <3>3
    <3> QED BY <1>1, <3>2, <3>3
  <2> QED BY <2>1, <2>2, <2>3
<1>5. v = 0 => s = t
  <2>1. SUFFICES ASSUME v = 0 PROVE s = t
    OBVIOUS
  <2>2. k = Len(s) /\ k = Len(t)
    BY <1>1, <2>1
  <2>3. \A i \in 1..Len(s) : s[i] = t[i]
    BY <2>2
  <2> QED BY <2>2, <2>3, SeqEqual
<1>6. s = t => v = 0
  <2>1. SUFFICES ASSUME s = t, v # 0 PROVE FALSE
    OBVIOUS
  <2>2. k < x
    BY <1>1, <2>1
  <2>3. s[k + 1] = t[k + 1] /\ s[k + 1] \in Nat /\ v = s[k + 1] - t[k + 1]
    BY <1>1, <2>1, <2>2
  <2> QED BY <2>1, <2>3
<1> HIDE DEF Parts
<1> QED BY <1>2, <1>3, <1>4, <1>5, <1>6

\* A byte, and a buffer, as a comparison takes them.
ByteOf(folded, c) == IF folded THEN Lower(c) ELSE c

Taken(m, p, k, folded) == [i \in 1..k |-> ByteOf(folded, m[p + i - 1])]

\* A result has the sign of the order.
Agrees(v, s, t) == (v < 0 <=> Less(s, t)) /\ (v = 0 <=> s = t)

\* Folding keeps bytes, and NUL apart.
LEMMA Folding ==
  ASSUME NEW folded, NEW c \in 0..255
  PROVE  ByteOf(folded, c) \in Nat /\ (ByteOf(folded, c) = 0 <=> c = 0)
  BY DEF ByteOf, Lower

\* The places that two buffers both have, below a limit.
LEMMA CommonPlaces ==
  ASSUME NEW a \in Pointers, NEW b \in Pointers, NEW limit \in Nat, NEW i \in Nat
  PROVE  i \in 0..Min({limit - 1, Top - Max({a, b})}) <=> i < limit /\ a + i <= Top /\ b + i <= Top
<1>1. Top \in Nat
  BY MemoryAssumption
<1>2. a \in Int /\ b \in Int
  BY <1>1 DEF Pointers
<1>3. PICK hi \in Int : hi = Max({a, b}) /\ hi = IF a >= b THEN a ELSE b
  BY <1>2, LargerOf
<1>4. limit - 1 \in Int /\ Top - hi \in Int
  BY <1>1
<1>5. PICK lo \in Int : lo = Min({limit - 1, Top - hi}) /\ lo = IF limit - 1 <= Top - hi THEN limit - 1 ELSE Top - hi
  BY <1>4, SmallerOf
<1>6. i <= lo <=> i < limit /\ a + i <= Top /\ b + i <= Top
  <2>1. i <= lo <=> i < limit /\ i + hi <= Top
    BY <1>1, <1>5
  <2>2. i + hi <= Top <=> a + i <= Top /\ b + i <= Top
    BY <1>1, <1>2, <1>3
  <2> QED BY <2>1, <2>2
<1> QED BY <1>3, <1>5, <1>6

\* What is compared at a: la bytes, ended by the limit or, if they are strings, by a NUL
\* before it.
Compares(m, a, la, limit, strings) ==
  /\ la \in Nat /\ la <= limit /\ a + la - 1 <= Top
  /\ strings => /\ \A i \in 0..(la - 1) : m[a + i] # 0
                /\ la < limit => a + la <= Top /\ m[a + la] = 0
  /\ ~ strings => la = limit

\* Compare has the sign of the order of the two buffers as a comparison takes them.
LEMMA CompareIs ==
  ASSUME NEW m \in Memories, NEW a \in Pointers, NEW b \in Pointers, NEW limit \in Nat,
         NEW folded, NEW strings \in BOOLEAN, NEW la, NEW lb,
         Compares(m, a, la, limit, strings), Compares(m, b, lb, limit, strings)
  PROVE  Agrees(Compare(m, a, b, limit, folded, strings), Taken(m, a, la, folded), Taken(m, b, lb, folded))
<1> DEFINE v == Compare(m, a, b, limit, folded, strings)
           byte(p) == ByteOf(folded, m[p])
           s == [i \in 1..la |-> byte(a + i - 1)]
           t == [i \in 1..lb |-> byte(b + i - 1)]
           common(i) == i < limit /\ a + i <= Top /\ b + i <= Top
           stop(i) == byte(a + i) # byte(b + i) \/ (strings /\ 0 \in {m[a + i], m[b + i]})
           stops == {i \in 0..Min({limit - 1, Top - Max({a, b})}) : stop(i)}
<1>1. Top \in Nat /\ a \in Nat /\ b \in Nat /\ a >= 1 /\ b >= 1
  BY MemoryAssumption DEF Pointers
<1>2. \A p \in Nat : 1 <= p /\ p <= Top => byte(p) \in Nat /\ (byte(p) = 0 <=> m[p] = 0)
  <2>1. SUFFICES ASSUME NEW p \in Nat, 1 <= p, p <= Top PROVE byte(p) \in Nat /\ (byte(p) = 0 <=> m[p] = 0)
    OBVIOUS
  <2>2. m[p] \in 0..255
    <3>1. p \in Pointers
      BY <1>1, <2>1 DEF Pointers
    <3> QED BY <3>1, MemoryAssumption DEF Memories
  <2> QED BY <2>2, Folding
<1>3. /\ la \in Nat /\ la <= limit /\ a + la - 1 <= Top
      /\ strings => (\A i \in 0..(la - 1) : m[a + i] # 0) /\ (la < limit => a + la <= Top /\ m[a + la] = 0)
      /\ ~ strings => la = limit
  BY DEF Compares
<1>4. /\ lb \in Nat /\ lb <= limit /\ b + lb - 1 <= Top
      /\ strings => (\A i \in 0..(lb - 1) : m[b + i] # 0) /\ (lb < limit => b + lb <= Top /\ m[b + lb] = 0)
      /\ ~ strings => lb = limit
  BY DEF Compares
<1>5. stops \subseteq Nat /\ \A i \in Nat : i \in stops <=> common(i) /\ stop(i)
  <2>1. \A i \in Nat : i \in 0..Min({limit - 1, Top - Max({a, b})}) <=> common(i)
    BY CommonPlaces
  <2>2. \A i \in 0..Min({limit - 1, Top - Max({a, b})}) : i \in Nat
    OBVIOUS
  <2> HIDE DEF common, stop
  <2> QED BY <2>1, <2>2
<1>6. v = IF stops = {} THEN 0 ELSE byte(a + Min(stops)) - byte(b + Min(stops))
  BY DEF Compare, ByteOf
<1>7. /\ s \in Seq(Nat) /\ Len(s) = la /\ \A i \in 1..la : s[i] = byte(a + i - 1)
  <2>1. \A i \in 1..la : byte(a + i - 1) \in Nat
    <3>1. SUFFICES ASSUME NEW i \in 1..la PROVE byte(a + i - 1) \in Nat
      OBVIOUS
    <3>2. a + i - 1 \in Nat /\ 1 <= a + i - 1 /\ a + i - 1 <= Top
      BY <1>1, <1>3
    <3> HIDE DEF byte
    <3> QED BY <1>2, <3>2
  <2> HIDE DEF byte
  <2> QED BY <1>3, <2>1
<1>8. /\ t \in Seq(Nat) /\ Len(t) = lb /\ \A i \in 1..lb : t[i] = byte(b + i - 1)
  <2>1. \A i \in 1..lb : byte(b + i - 1) \in Nat
    <3>1. SUFFICES ASSUME NEW i \in 1..lb PROVE byte(b + i - 1) \in Nat
      OBVIOUS
    <3>2. b + i - 1 \in Nat /\ 1 <= b + i - 1 /\ b + i - 1 <= Top
      BY <1>1, <1>4
    <3> HIDE DEF byte
    <3> QED BY <1>2, <3>2
  <2> HIDE DEF byte
  <2> QED BY <1>4, <2>1
<1> DEFINE Parted(k) ==
      /\ k <= la /\ k <= lb
      /\ \A i \in 0..(k - 1) : byte(a + i) = byte(b + i)
      /\ \/ k = la /\ k = lb /\ v = 0
         \/ k = la /\ k < lb /\ v < 0
         \/ k < la /\ k = lb /\ v > 0
         \/ k < la /\ k < lb /\ v = byte(a + k) - byte(b + k) /\ v # 0
<1>9. ASSUME stops # {} PROVE Min(stops) \in Nat /\ Parted(Min(stops)) /\ v \in Int
  <2>1. Min(stops) \in stops /\ \A y \in stops : Min(stops) <= y
    BY <1>5, <1>9, LeastOf
  <2>2. PICK k \in Nat : k = Min(stops) /\ common(k) /\ stop(k)
    BY <1>5, <2>1
  <2>3. v = byte(a + k) - byte(b + k)
    BY <1>6, <1>9, <2>2
  <2> HIDE DEF v, byte, stops
  <2>4. \A i \in 0..(k - 1) : byte(a + i) = byte(b + i) /\ (strings => m[a + i] # 0 /\ m[b + i] # 0)
    <3>1. SUFFICES ASSUME NEW i \in 0..(k - 1)
                   PROVE  byte(a + i) = byte(b + i) /\ (strings => m[a + i] # 0 /\ m[b + i] # 0)
      OBVIOUS
    <3>2. i \in Nat /\ common(i) /\ i < k
      BY <1>1, <2>2
    <3>3. i \notin stops
      BY <2>1, <2>2, <3>2
    <3> QED BY <1>5, <3>2, <3>3
  <2>5. k < limit /\ a + k <= Top /\ b + k <= Top
    BY <2>2
  <2>6. k <= la
    <3>1. SUFFICES ASSUME la < k PROVE FALSE
      BY <1>3
    <3>2. la \in 0..(k - 1) /\ la < limit
      BY <1>3, <2>5, <3>1
    <3> QED BY <1>3, <2>4, <3>2
  <2>7. k <= lb
    <3>1. SUFFICES ASSUME lb < k PROVE FALSE
      BY <1>4
    <3>2. lb \in 0..(k - 1) /\ lb < limit
      BY <1>4, <2>5, <3>1
    <3> QED BY <1>4, <2>4, <3>2
  <2>8. /\ byte(a + k) \in Nat /\ (byte(a + k) = 0 <=> m[a + k] = 0)
        /\ byte(b + k) \in Nat /\ (byte(b + k) = 0 <=> m[b + k] = 0)
    <3>1. a + k \in Nat /\ 1 <= a + k /\ b + k \in Nat /\ 1 <= b + k
      BY <1>1
    <3> QED BY <1>2, <2>5, <3>1
  <2>9. k < la => (strings => m[a + k] # 0)
    BY <1>3
  <2>10. k < lb => (strings => m[b + k] # 0)
    BY <1>4
  <2>11. k = la => strings /\ m[a + k] = 0
    BY <1>3, <2>5
  <2>12. k = lb => strings /\ m[b + k] = 0
    BY <1>4, <2>5
  <2>13. byte(a + k) # byte(b + k) \/ (strings /\ (m[a + k] = 0 \/ m[b + k] = 0))
    BY <2>2
  <2>14. PICK p \in Nat, q \in Nat : p = byte(a + k) /\ q = byte(b + k)
    BY <2>8
  <2>15. v = p - q
    BY <2>3, <2>14
  <2>16. k = la /\ k = lb => Parted(k)
    <3>0. SUFFICES ASSUME k = la /\ k = lb PROVE Parted(k)
      OBVIOUS
    <3>1. p = 0 /\ q = 0
      BY <2>8, <2>11, <2>12, <2>14, <3>0
    <3>2. v = 0
      BY <2>15, <3>1
    <3> QED BY <2>4, <2>6, <2>7, <3>0, <3>2
  <2>17. k = la /\ k < lb => Parted(k)
    <3>0. SUFFICES ASSUME k = la /\ k < lb PROVE Parted(k)
      OBVIOUS
    <3>1. p = 0 /\ q # 0
      BY <2>8, <2>10, <2>11, <2>14, <3>0
    <3>2. v < 0
      BY <2>15, <3>1
    <3> QED BY <2>4, <2>6, <2>7, <3>0, <3>2
  <2>18. k < la /\ k = lb => Parted(k)
    <3>0. SUFFICES ASSUME k < la /\ k = lb PROVE Parted(k)
      OBVIOUS
    <3>1. p # 0 /\ q = 0
      BY <2>8, <2>9, <2>12, <2>14, <3>0
    <3>2. v > 0
      BY <2>15, <3>1
    <3> QED BY <2>4, <2>6, <2>7, <3>0, <3>2
  <2>19. k < la /\ k < lb => Parted(k)
    <3>0. SUFFICES ASSUME k < la /\ k < lb PROVE Parted(k)
      OBVIOUS
    <3>1. p # q
      BY <2>8, <2>9, <2>10, <2>13, <2>14, <3>0
    <3>2. v # 0
      BY <2>15, <3>1
    <3> QED BY <2>3, <2>4, <2>6, <2>7, <3>0, <3>2
  <2>20. (k = la \/ k < la) /\ (k = lb \/ k < lb)
    BY <1>3, <1>4, <2>6, <2>7
  <2>21. Parted(k)
    BY <2>16, <2>17, <2>18, <2>19, <2>20
  <2>22. v \in Int
    BY <2>15
  <2> HIDE DEF Parted
  <2> QED BY <2>2, <2>21, <2>22
<1>10. ASSUME stops = {} PROVE la \in Nat /\ Parted(la) /\ v \in Int
  <2>1. v = 0
    BY <1>6, <1>10
  <2>2. \A i \in Nat : ~ (common(i) /\ stop(i))
    BY <1>5, <1>10
  <2>3. ~ (la < lb)
    <3>1. SUFFICES ASSUME la < lb PROVE FALSE
      OBVIOUS
    <3>2. strings /\ la < limit /\ a + la <= Top /\ m[a + la] = 0
      BY <1>3, <1>4, <3>1
    <3>3. common(la)
      BY <1>1, <1>3, <1>4, <3>1, <3>2
    <3>4. stop(la)
      BY <3>2
    <3> HIDE DEF common, stop
    <3> QED BY <1>3, <2>2, <3>3, <3>4
  <2>4. ~ (lb < la)
    <3>1. SUFFICES ASSUME lb < la PROVE FALSE
      OBVIOUS
    <3>2. strings /\ lb < limit /\ b + lb <= Top /\ m[b + lb] = 0
      BY <1>3, <1>4, <3>1
    <3>3. common(lb)
      BY <1>1, <1>3, <1>4, <3>1, <3>2
    <3>4. stop(lb)
      BY <3>2
    <3> HIDE DEF common, stop
    <3> QED BY <1>4, <2>2, <3>3, <3>4
  <2>5. la = lb
    BY <1>3, <1>4, <2>3, <2>4
  <2>6. \A i \in 0..(la - 1) : byte(a + i) = byte(b + i)
    <3>1. SUFFICES ASSUME NEW i \in 0..(la - 1) PROVE byte(a + i) = byte(b + i)
      OBVIOUS
    <3>2. i \in Nat /\ common(i)
      BY <1>1, <1>3, <1>4, <2>5
    <3> HIDE DEF common, byte
    <3> QED BY <2>2, <3>2
  <2> HIDE DEF v, byte
  <2> QED BY <1>3, <2>1, <2>5, <2>6
<1> HIDE DEF v, s, t, stops
<1>11. ASSUME NEW k \in Nat, Parted(k), v \in Int
       PROVE  (v < 0 <=> Less(s, t)) /\ (v = 0 <=> s = t)
  <2> HIDE DEF byte
  <2>1. \A i \in 1..k : s[i] = t[i]
    <3>1. SUFFICES ASSUME NEW i \in 1..k PROVE s[i] = t[i]
      OBVIOUS
    <3>2. i \in 1..la /\ i \in 1..lb /\ i - 1 \in 0..(k - 1) /\ a + i - 1 = a + (i - 1) /\ b + i - 1 = b + (i - 1)
      BY <1>1, <1>3, <1>4, <1>11
    <3> QED BY <1>7, <1>8, <1>11, <3>2
  <2>2. k < la => s[k + 1] = byte(a + k)
    <3>1. k < la => k + 1 \in 1..la /\ a + (k + 1) - 1 = a + k
      BY <1>1, <1>3
    <3> QED BY <1>7, <3>1
  <2>3. k < lb => t[k + 1] = byte(b + k)
    <3>1. k < lb => k + 1 \in 1..lb /\ b + (k + 1) - 1 = b + k
      BY <1>1, <1>4
    <3> QED BY <1>8, <3>1
  <2>4. \/ k = Len(s) /\ k = Len(t) /\ v = 0
        \/ k = Len(s) /\ k < Len(t) /\ v < 0
        \/ k < Len(s) /\ k = Len(t) /\ v > 0
        \/ k < Len(s) /\ k < Len(t) /\ v = s[k + 1] - t[k + 1] /\ v # 0
    BY <1>7, <1>8, <1>11, <2>2, <2>3
  <2>5. k <= Len(s) /\ k <= Len(t) /\ s \in Seq(Nat) /\ t \in Seq(Nat)
    BY <1>7, <1>8, <1>11
  <2> QED BY <1>11, <2>1, <2>4, <2>5, OrderOf
<1> HIDE DEF Parted
<1>12. (v < 0 <=> Less(s, t)) /\ (v = 0 <=> s = t)
  BY <1>9, <1>10, <1>11
<1> QED BY <1>12 DEF Agrees, Taken, v, s, t

\* A whole string is compared up to its NUL.
LEMMA WholeText ==
  ASSUME NEW m \in Memories, NEW p \in Pointers
  PROVE  /\ Compares(m, p, Strlen(m, p), Top, TRUE)
         /\ Text(m, p) = [i \in 1..Strlen(m, p) |-> m[p + i - 1]]
<1>1. Top \in Nat /\ p \in Nat /\ p >= 1
  BY MemoryAssumption DEF Pointers
<1>2. PICK k \in Nat : /\ k = Strlen(m, p) /\ p + k = NulAt(m, p) /\ p + k <= Top
                       /\ Text(m, p) \in Seq(Bytes) /\ Len(Text(m, p)) = k
                       /\ \A i \in 1..k : Text(m, p)[i] = m[p + i - 1] /\ m[p + i - 1] # 0
  BY TextIs
<1>3. m[p + k] = 0
  BY <1>2, FirstNul
<1>4. \A i \in 0..(k - 1) : m[p + i] # 0
  <2>1. SUFFICES ASSUME NEW i \in 0..(k - 1) PROVE m[p + i] # 0
    OBVIOUS
  <2>2. i + 1 \in 1..k /\ p + (i + 1) - 1 = p + i
    BY <1>1
  <2> QED BY <1>2, <2>2
<1>5. Compares(m, p, k, Top, TRUE)
  BY <1>1, <1>2, <1>3, <1>4 DEF Compares
<1>6. Text(m, p) = [i \in 1..k |-> Text(m, p)[i]]
  BY <1>2
<1> QED BY <1>2, <1>5, <1>6

\* A string that is cut is compared up to its NUL or the limit.
LEMMA CutText ==
  ASSUME NEW m \in Memories, NEW p \in Pointers, NEW n \in Nat
  PROVE  LET k == Min({n, Strlen(m, p)})
         IN  Compares(m, p, k, n, TRUE) /\ Cut(Text(m, p), n) = [i \in 1..k |-> m[p + i - 1]]
<1>1. Top \in Nat /\ p \in Nat
  BY MemoryAssumption DEF Pointers
<1>2. PICK l \in Nat : /\ l = Strlen(m, p)
                       /\ Text(m, p) \in Seq(Bytes) /\ Len(Text(m, p)) = l
                       /\ \A i \in 1..l : Text(m, p)[i] = m[p + i - 1]
  BY TextIs
<1>3. PICK k \in Nat : k = Min({n, l}) /\ k = IF n <= l THEN n ELSE l
  BY SmallerOf
<1>4. /\ l <= Top /\ p + l - 1 <= Top
      /\ \A i \in 0..(l - 1) : m[p + i] # 0
      /\ l < Top => p + l <= Top /\ m[p + l] = 0
  BY <1>2, WholeText DEF Compares
<1>5. Compares(m, p, k, n, TRUE)
  <2>1. k <= n /\ p + k - 1 <= Top
    BY <1>1, <1>3, <1>4
  <2>2. \A i \in 0..(k - 1) : m[p + i] # 0
    <3>1. \A i \in 0..(k - 1) : i \in 0..(l - 1)
      BY <1>3
    <3> QED BY <1>4, <3>1
  <2>3. k < n => p + k <= Top /\ m[p + k] = 0
    BY <1>2, <1>3, TextIs, FirstNul
  <2> QED BY <2>1, <2>2, <2>3 DEF Compares
<1> DEFINE s == Text(m, p)
<1>6. \A i \in 1..k : s[i] \in Bytes /\ s[i] = m[p + i - 1]
  <2>1. \A i \in 1..k : i \in 1..l
    BY <1>3
  <2> QED BY <1>2, <2>1
<1> HIDE DEF s
<1>7. /\ SubSeq(s, 1, k) \in Seq(Bytes) /\ Len(SubSeq(s, 1, k)) = IF 1 <= k THEN k - 1 + 1 ELSE 0
      /\ \A i \in 1..(k - 1 + 1) : SubSeq(s, 1, k)[i] = s[1 + i - 1]
  BY <1>6, SubSeqProperties
<1> DEFINE q == SubSeq(s, 1, k)
<1>8. /\ q \in Seq(Bytes) /\ Len(q) = k
      /\ \A i \in 1..k : q[i] = s[i]
  <2>1. k - 1 + 1 = k /\ \A i \in 1..k : 1 + i - 1 = i
    OBVIOUS
  <2> QED BY <1>7, <2>1
<1> HIDE DEF q
<1>9. q = [i \in 1..k |-> m[p + i - 1]]
  <2>1. q = [i \in 1..k |-> q[i]]
    BY <1>8
  <2> QED BY <1>6, <1>8, <2>1
<1>10. Cut(Text(m, p), n) = q
  BY <1>2, <1>3 DEF Cut, q, s
<1> QED BY <1>2, <1>3, <1>5, <1>9, <1>10

\* Folding what was read, or not.
LEMMA LoweredIs ==
  ASSUME NEW m, NEW p, NEW k \in Nat, NEW raw, raw = [i \in 1..k |-> m[p + i - 1]]
  PROVE  raw = Taken(m, p, k, FALSE) /\ Lowered(raw) = Taken(m, p, k, TRUE)
  BY DEF Lowered, ByteOf, Taken

\* Strings, cut strings and buffers are compared as they are or folded.
LEMMA ComparedBytes ==
  ASSUME NEW m \in Memories, NEW a \in Pointers, NEW b \in Pointers, NEW n \in Nat, Fits(a, n), Fits(b, n)
  PROVE  Agrees(Compare(m, a, b, n, FALSE, FALSE), [i \in 1..n |-> m[a + i - 1]], [i \in 1..n |-> m[b + i - 1]])
<1>1. Compares(m, a, n, n, FALSE) /\ Compares(m, b, n, n, FALSE)
  BY DEF Fits, Compares
<1>2. Agrees(Compare(m, a, b, n, FALSE, FALSE), Taken(m, a, n, FALSE), Taken(m, b, n, FALSE))
  BY <1>1, CompareIs
<1>3. /\ [i \in 1..n |-> m[a + i - 1]] = Taken(m, a, n, FALSE)
      /\ [i \in 1..n |-> m[b + i - 1]] = Taken(m, b, n, FALSE)
  BY LoweredIs
<1> QED BY <1>2, <1>3

\* The same of strings and of strings cut at a limit, with and without case.
LEMMA ComparedStrings ==
  ASSUME NEW m \in Memories, NEW a \in Pointers, NEW b \in Pointers, NEW limit \in Nat,
         NEW x, NEW y, NEW k \in Nat, NEW l \in Nat,
         Compares(m, a, k, limit, TRUE), x = [i \in 1..k |-> m[a + i - 1]],
         Compares(m, b, l, limit, TRUE), y = [i \in 1..l |-> m[b + i - 1]]
  PROVE  /\ Agrees(Compare(m, a, b, limit, FALSE, TRUE), x, y)
         /\ Agrees(Compare(m, a, b, limit, TRUE, TRUE), Lowered(x), Lowered(y))
<1>1. /\ Agrees(Compare(m, a, b, limit, FALSE, TRUE), Taken(m, a, k, FALSE), Taken(m, b, l, FALSE))
      /\ Agrees(Compare(m, a, b, limit, TRUE, TRUE), Taken(m, a, k, TRUE), Taken(m, b, l, TRUE))
  BY CompareIs
<1>2. x = Taken(m, a, k, FALSE) /\ Lowered(x) = Taken(m, a, k, TRUE)
  BY LoweredIs
<1>3. y = Taken(m, b, l, FALSE) /\ Lowered(y) = Taken(m, b, l, TRUE)
  BY LoweredIs
<1> QED BY <1>1, <1>2, <1>3

\* A comparison that says how they are ordered.
LEMMA ComparesStep ==
  ASSUME CallInv, CompareRoutine
  PROVE  ComparesAsC'
<1> DEFINE a == call.a
           b == call.b
           n == call.n
           m == before
<1>1. /\ call.name \in {"memcmp", "strcmp", "strncmp", "strcasecmp", "strncasecmp"}
      /\ mem' = mem /\ call' = call
  BY DEF CompareRoutine, Reads, Returns, Calls
<1>2. mem = before
  BY <1>1 DEF CallInv, Copiers
<1>3. m \in Memories /\ Legal(m, call) /\ a \in Pointers /\ b \in Pointers /\ n \in Nat /\ Top \in Nat
  BY <1>1, Arguments, MemoryAssumption
<1>4. PICK v : /\ result' = <<v>>
               /\ call.name = "memcmp" => v = Compare(m, a, b, n, FALSE, FALSE)
               /\ call.name = "strcmp" => v = Compare(m, a, b, Top, FALSE, TRUE)
               /\ call.name = "strncmp" => v = Compare(m, a, b, n, FALSE, TRUE)
               /\ call.name = "strcasecmp" => v = Compare(m, a, b, Top, TRUE, TRUE)
               /\ call.name = "strncasecmp" => v = Compare(m, a, b, n, TRUE, TRUE)
  BY <1>2 DEF CompareRoutine, Reads, Returns, Calls
<1>5. call.name = "memcmp" => Agrees(v, [i \in 1..n |-> m[a + i - 1]], [i \in 1..n |-> m[b + i - 1]])
  <2>1. call.name = "memcmp" => Fits(a, n) /\ Fits(b, n)
    BY <1>3 DEF Legal
  <2> HIDE DEF a, b, n, m
  <2> QED BY <1>3, <1>4, <2>1, ComparedBytes
<1> HIDE DEF a, b, n, m
<1>6. /\ Agrees(Compare(m, a, b, Top, FALSE, TRUE), Text(m, a), Text(m, b))
      /\ Agrees(Compare(m, a, b, Top, TRUE, TRUE), Lowered(Text(m, a)), Lowered(Text(m, b)))
  <2>1. PICK k \in Nat : k = Strlen(m, a)
    BY <1>3, TextIs
  <2>2. PICK l \in Nat : l = Strlen(m, b)
    BY <1>3, TextIs
  <2>3. Compares(m, a, k, Top, TRUE) /\ Text(m, a) = [i \in 1..k |-> m[a + i - 1]]
    BY <1>3, <2>1, WholeText
  <2>4. Compares(m, b, l, Top, TRUE) /\ Text(m, b) = [i \in 1..l |-> m[b + i - 1]]
    BY <1>3, <2>2, WholeText
  <2> QED BY <1>3, <2>3, <2>4, ComparedStrings
<1>7. /\ Agrees(Compare(m, a, b, n, FALSE, TRUE), Cut(Text(m, a), n), Cut(Text(m, b), n))
      /\ Agrees(Compare(m, a, b, n, TRUE, TRUE), Lowered(Cut(Text(m, a), n)), Lowered(Cut(Text(m, b), n)))
  <2>1. PICK k \in Nat : k = Min({n, Strlen(m, a)})
    <3>1. Strlen(m, a) \in Nat
      BY <1>3, TextIs
    <3> QED BY <1>3, <3>1, SmallerNat
  <2>2. PICK l \in Nat : l = Min({n, Strlen(m, b)})
    <3>1. Strlen(m, b) \in Nat
      BY <1>3, TextIs
    <3> QED BY <1>3, <3>1, SmallerNat
  <2>3. Compares(m, a, k, n, TRUE) /\ Cut(Text(m, a), n) = [i \in 1..k |-> m[a + i - 1]]
    BY <1>3, <2>1, CutText
  <2>4. Compares(m, b, l, n, TRUE) /\ Cut(Text(m, b), n) = [i \in 1..l |-> m[b + i - 1]]
    BY <1>3, <2>2, CutText
  <2> QED BY <1>3, <2>3, <2>4, ComparedStrings
<1>8. result'[1] = v
  BY <1>4
<1> QED BY <1>1, <1>2, <1>4, <1>5, <1>6, <1>7, <1>8 DEF ComparesAsC, Agrees, a, b, n, m

-----------------------------------------------------------------------------
(* Searches.                                                               *)

\* The first of the places found, or null.
FirstOf(found) == IF found = {} THEN Null ELSE Min(found)

\* Where a scan for some characters stops: at the first of them in the string, or at its NUL.
LEMMA ReachedIs ==
  ASSUME NEW m \in Memories, NEW p \in Pointers, NEW cs, NEW z, z = NulAt(m, p),
         NEW found, found = {x \in p..z : m[x] \in cs}
  PROVE  /\ Reached(m, p, cs) = Min(found \cup {z})
         /\ FirstOf(found) = IF m[Reached(m, p, cs)] \in cs THEN Reached(m, p, cs) ELSE Null
         /\ m[Reached(m, p, cs)] \in cs \cup {0}
<1> DEFINE stops == {x \in p..Top : m[x] \in cs \cup {0}}
           r == Reached(m, p, cs)
<1>1. Top \in Nat /\ p \in Nat
  BY MemoryAssumption DEF Pointers
<1>2. z \in p..Top /\ m[z] = 0 /\ \A x \in p..Top : m[x] = 0 => z <= x
  BY FirstNul
<1>3. z \in Nat /\ p <= z /\ z <= Top
  BY <1>1, <1>2
<1>4. stops \subseteq Nat /\ z \in stops
  BY <1>1, <1>2
<1>5. r = Min(stops)
  BY DEF Reached
<1>6. r \in stops /\ \A x \in stops : r <= x
  BY <1>4, <1>5, LeastOf
<1> HIDE DEF r
<1>7. r \in Nat /\ p <= r /\ r <= z /\ m[r] \in cs \cup {0}
  BY <1>1, <1>4, <1>6
<1>8. \A x \in found : x \in Nat /\ x \in stops /\ r <= x
  <2>1. SUFFICES ASSUME NEW x \in found PROVE x \in Nat /\ x \in stops /\ r <= x
    OBVIOUS
  <2>2. x \in p..z /\ m[x] \in cs
    OBVIOUS
  <2>3. x \in Nat /\ x \in p..Top
    BY <1>1, <1>3, <2>2
  <2> QED BY <1>6, <2>2, <2>3
<1>9. m[r] \in cs => r \in found
  BY <1>1, <1>3, <1>7
<1>10. m[r] \notin cs => r = z
  <2>1. m[r] \notin cs => m[r] = 0 /\ r \in p..Top
    BY <1>1, <1>3, <1>7
  <2>2. m[r] \notin cs => z <= r
    BY <1>2, <2>1
  <2> QED BY <1>3, <1>7, <2>2
<1>11. found \subseteq Nat
  BY <1>8
<1> HIDE DEF stops
<1>12. Min(found \cup {z}) = r
  <2>1. r \in found \cup {z}
    BY <1>9, <1>10
  <2>2. \A x \in found \cup {z} : r <= x
    BY <1>7, <1>8
  <2>3. found \cup {z} \subseteq Nat
    BY <1>3, <1>11
  <2> QED BY <2>1, <2>2, <2>3, LeastIs
<1>13. m[r] \in cs => found # {} /\ Min(found) = r
  <2>1. SUFFICES ASSUME m[r] \in cs PROVE found # {} /\ Min(found) = r
    OBVIOUS
  <2>2. r \in found /\ \A x \in found : r <= x
    BY <1>8, <1>9, <2>1
  <2> QED BY <1>11, <2>2, LeastIs
<1>14. m[r] \notin cs => found = {}
  <2>1. SUFFICES ASSUME m[r] \notin cs, NEW x \in found PROVE FALSE
    OBVIOUS
  <2>2. r <= x /\ x \in p..z /\ m[x] \in cs
    BY <1>8
  <2>3. x = z /\ r = z
    BY <1>1, <1>3, <1>10, <2>1, <2>2
  <2> QED BY <2>1, <2>2, <2>3
<1> QED BY <1>7, <1>12, <1>13, <1>14 DEF FirstOf, r

\* The string with its NUL.
Whole(m, a) == Append(Text(m, a), 0)

\* Its length and bytes.
LEMMA WholeIs ==
  ASSUME NEW m \in Memories, NEW a \in Pointers, NEW z, z = NulAt(m, a), NEW whole, whole = Whole(m, a)
  PROVE  /\ z \in Nat /\ a \in Nat /\ a >= 1 /\ a <= z /\ z <= Top /\ m[z] = 0
         /\ whole \in Seq(Bytes) /\ Len(whole) = z - a + 1
         /\ \A j \in 1..(z - a + 1) : whole[j] = m[a + j - 1]
<1>1. Top \in Nat /\ a \in Nat /\ a >= 1
  BY MemoryAssumption DEF Pointers
<1>2. PICK k \in Nat : /\ k = Strlen(m, a) /\ a + k = NulAt(m, a) /\ a + k <= Top
                       /\ Text(m, a) \in Seq(Bytes) /\ Len(Text(m, a)) = k
                       /\ \A i \in 1..k : Text(m, a)[i] = m[a + i - 1]
  BY TextIs
<1>3. m[z] = 0
  BY FirstNul
<1>4. z = a + k /\ z - a + 1 = k + 1 /\ a + (k + 1) - 1 = z
  BY <1>1, <1>2
<1>5. 0 \in Bytes
  BY MemoryAssumption
<1>6. /\ whole \in Seq(Bytes) /\ Len(whole) = k + 1
      /\ \A i \in 1..k : whole[i] = Text(m, a)[i]
      /\ whole[k + 1] = 0
  BY <1>2, <1>5, AppendProperties DEF Whole
<1>7. \A j \in 1..(k + 1) : whole[j] = m[a + j - 1]
  <2>1. SUFFICES ASSUME NEW j \in 1..(k + 1) PROVE whole[j] = m[a + j - 1]
    OBVIOUS
  <2>2. j \in 1..k \/ j = k + 1
    OBVIOUS
  <2> QED BY <1>2, <1>3, <1>4, <1>6, <2>2
<1> QED BY <1>1, <1>2, <1>3, <1>4, <1>6, <1>7

\* The places of some positions of a sequence of l bytes at a.
LEMMA PlacesAre ==
  ASSUME NEW a \in Nat, NEW z \in Nat, NEW T, T \subseteq 1..(z - a + 1)
  PROVE  {a + i - 1 : i \in T} = {x \in a..z : x - a + 1 \in T}
<1>1. ASSUME NEW i \in T PROVE a + i - 1 \in a..z /\ (a + i - 1) - a + 1 \in T
  <2>1. i \in 1..(z - a + 1)
    OBVIOUS
  <2>2. a + i - 1 \in a..z /\ (a + i - 1) - a + 1 = i
    BY <2>1
  <2> QED BY <2>2
<1>2. ASSUME NEW x \in a..z, x - a + 1 \in T PROVE \E i \in T : x = a + i - 1
  <2>1. x = a + (x - a + 1) - 1
    OBVIOUS
  <2> QED BY <1>2, <2>1
<1> QED BY <1>1, <1>2

\* The places of a character, and of the characters of a set.
LEMMA PlacesOf ==
  ASSUME NEW m \in Memories, NEW a \in Pointers, NEW z, z = NulAt(m, a), NEW whole, whole = Whole(m, a),
         NEW cs
  PROVE  {a + i - 1 : i \in {j \in DOMAIN whole : whole[j] \in cs}} = {x \in a..z : m[x] \in cs}
<1> DEFINE T == {j \in DOMAIN whole : whole[j] \in cs}
<1>1. /\ z \in Nat /\ a \in Nat /\ DOMAIN whole = 1..(z - a + 1)
      /\ \A j \in 1..(z - a + 1) : whole[j] = m[a + j - 1]
  BY WholeIs
<1>2. {a + i - 1 : i \in T} = {x \in a..z : x - a + 1 \in T}
  <2>1. T \subseteq 1..(z - a + 1)
    BY <1>1
  <2> HIDE DEF T
  <2> QED BY <1>1, <2>1, PlacesAre
<1>3. ASSUME NEW x \in a..z PROVE x - a + 1 \in T <=> m[x] \in cs
  <2>1. x - a + 1 \in 1..(z - a + 1) /\ a + (x - a + 1) - 1 = x
    BY <1>1
  <2>2. whole[x - a + 1] = m[x]
    BY <1>1, <2>1
  <2> QED BY <1>1, <2>1, <2>2
<1> HIDE DEF T
<1>4. {a + i - 1 : i \in T} = {x \in a..z : m[x] \in cs}
  BY <1>2, <1>3
<1> QED BY <1>4 DEF T

\* The characters of a string.
LEMMA CharactersOf ==
  ASSUME NEW m \in Memories, NEW b \in Pointers
  PROVE  Range(Text(m, b)) = Set(m, b) /\ 0 \notin Set(m, b)
<1>1. Top \in Nat /\ b \in Nat
  BY MemoryAssumption DEF Pointers
<1>2. PICK k \in Nat : /\ k = Strlen(m, b) /\ b + k = NulAt(m, b)
                       /\ Text(m, b) \in Seq(Bytes) /\ Len(Text(m, b)) = k
                       /\ \A i \in 1..k : Text(m, b)[i] = m[b + i - 1] /\ m[b + i - 1] # 0
  BY TextIs
<1>3. DOMAIN Text(m, b) = 1..k
  BY <1>2
<1>4. ASSUME NEW i \in 1..k PROVE Text(m, b)[i] \in Set(m, b)
  <2>1. b + i - 1 \in b..(NulAt(m, b) - 1)
    BY <1>1, <1>2
  <2> QED BY <1>2, <2>1 DEF Set
<1>5. ASSUME NEW x \in b..(NulAt(m, b) - 1) PROVE m[x] \in Range(Text(m, b)) /\ m[x] # 0
  <2>1. x - b + 1 \in 1..k /\ b + (x - b + 1) - 1 = x
    BY <1>1, <1>2
  <2>2. Text(m, b)[x - b + 1] = m[x] /\ m[x] # 0
    BY <1>2, <2>1
  <2> QED BY <1>3, <2>1, <2>2 DEF Range
<1> QED BY <1>3, <1>4, <1>5 DEF Range, Set

\* A sequence that occurs in another from some position on.
LEMMA PrefixOfSuffix ==
  ASSUME NEW S, NEW whole \in Seq(S), NEW needle \in Seq(S), NEW p \in 1..Len(whole)
  PROVE  LET n == Len(needle)
             l == Len(whole) - p + 1
         IN  IsPrefix(needle, SubSeq(whole, p, Len(whole)))
               <=> n <= l /\ \A i \in 1..n : needle[i] = whole[p + i - 1]
<1> DEFINE suffix == SubSeq(whole, p, Len(whole))
<1>1. PICK n \in Nat : n = Len(needle)
  OBVIOUS
<1>2. PICK k \in Nat : k = Len(whole)
  OBVIOUS
<1>3. PICK l \in Nat : l = k - p + 1 /\ p \in Int /\ p <= k
  BY <1>2
<1>4. /\ suffix \in Seq(S) /\ Len(suffix) = l
      /\ \A i \in 1..l : suffix[i] = whole[p + i - 1]
  <2>1. \A i \in p..k : whole[i] \in S
    <3>1. \A i \in p..k : i \in 1..k
      BY <1>2, <1>3
    <3> QED BY <1>2, <3>1
  <2>2. /\ SubSeq(whole, p, k) \in Seq(S)
        /\ Len(SubSeq(whole, p, k)) = IF p <= k THEN k - p + 1 ELSE 0
        /\ \A i \in 1..(k - p + 1) : SubSeq(whole, p, k)[i] = whole[p + i - 1]
    BY <1>3, <2>1, SubSeqProperties
  <2> QED BY <1>2, <1>3, <2>2
<1> HIDE DEF suffix
<1>5. IsPrefix(needle, suffix) <=> n <= l /\ \A i \in 1..n : needle[i] = suffix[i]
  <2>1. CASE n <= l
    <3> DEFINE u == SubSeq(needle, 1, n)
               w == SubSeq(suffix, 1, n)
    <3>1. /\ u \in Seq(S) /\ Len(u) = n /\ \A i \in 1..n : u[i] = needle[i]
      <4>1. \A i \in 1..n : needle[i] \in S
        BY <1>1
      <4>2. /\ u \in Seq(S) /\ Len(u) = IF 1 <= n THEN n - 1 + 1 ELSE 0
            /\ \A i \in 1..(n - 1 + 1) : u[i] = needle[1 + i - 1]
        BY <1>1, <4>1, SubSeqProperties
      <4>3. n - 1 + 1 = n /\ \A i \in 1..n : 1 + i - 1 = i
        BY <1>1
      <4> HIDE DEF u
      <4> QED BY <1>1, <4>2, <4>3
    <3>2. /\ w \in Seq(S) /\ Len(w) = n /\ \A i \in 1..n : w[i] = suffix[i]
      <4>1. \A i \in 1..n : suffix[i] \in S
        <5>1. \A i \in 1..n : i \in 1..l
          BY <1>1, <2>1
        <5>2. suffix \in Seq(S) /\ Len(suffix) = l
          BY <1>4
        <5>3. \A i \in 1..l : suffix[i] \in S
          BY <1>3, <5>2
        <5> QED BY <5>1, <5>3
      <4>2. /\ w \in Seq(S) /\ Len(w) = IF 1 <= n THEN n - 1 + 1 ELSE 0
            /\ \A i \in 1..(n - 1 + 1) : w[i] = suffix[1 + i - 1]
        BY <1>1, <4>1, SubSeqProperties
      <4>3. n - 1 + 1 = n /\ \A i \in 1..n : 1 + i - 1 = i
        BY <1>1
      <4> HIDE DEF w
      <4> QED BY <1>1, <4>2, <4>3
    <3>3. IsPrefix(needle, suffix) <=> u = w
      BY <1>1, <1>4, <2>1 DEF IsPrefix
    <3> HIDE DEF u, w
    <3>4. u = w <=> \A i \in 1..n : u[i] = w[i]
      BY <3>1, <3>2, SeqEqual
    <3> QED BY <2>1, <3>1, <3>2, <3>3, <3>4
  <2>2. CASE ~ (n <= l)
    BY <1>1, <1>4, <2>2 DEF IsPrefix
  <2> QED BY <2>1, <2>2
<1>6. IsPrefix(needle, suffix) <=> n <= l /\ \A i \in 1..n : needle[i] = whole[p + i - 1]
  <2>1. n <= l => \A i \in 1..n : i \in 1..l
    OBVIOUS
  <2> QED BY <1>4, <1>5, <2>1
<1> QED BY <1>1, <1>2, <1>3, <1>6 DEF suffix

\* Where one string occurs in another.
LEMMA OccursAt ==
  ASSUME NEW m \in Memories, NEW a \in Pointers, NEW b \in Pointers,
         NEW z, z = NulAt(m, a), NEW whole, whole = Whole(m, a),
         NEW n, n = Strlen(m, b), NEW x \in a..z, n # 0
  PROVE  IsPrefix(Text(m, b), SubSeq(whole, x - a + 1, Len(whole)))
           <=> x \in a..(z - 1) /\ \A j \in 0..(n - 1) : x + j <= Top /\ m[x + j] = m[b + j]
<1> DEFINE needle == Text(m, b)
           p == x - a + 1
           suffix == SubSeq(whole, p, Len(whole))
<1>1. /\ z \in Nat /\ a \in Nat /\ a >= 1 /\ a <= z /\ z <= Top /\ m[z] = 0
      /\ whole \in Seq(Bytes) /\ Len(whole) = z - a + 1
      /\ \A j \in 1..(z - a + 1) : whole[j] = m[a + j - 1]
  BY WholeIs
<1>2. Top \in Nat /\ b \in Nat /\ b >= 1
  BY MemoryAssumption DEF Pointers
<1>3. /\ n \in Nat /\ needle \in Seq(Bytes) /\ Len(needle) = n
      /\ \A i \in 1..n : needle[i] = m[b + i - 1] /\ m[b + i - 1] # 0
  BY TextIs
<1> HIDE DEF needle
<1>4. x \in Nat /\ a <= x /\ x <= z
  BY <1>1
<1>5. PICK l \in Nat : l = z - x + 1 /\ l >= 1
  BY <1>1, <1>4
<1>6. p \in 1..(z - a + 1) /\ (z - a + 1) - p + 1 = l
  BY <1>1, <1>4, <1>5
<1>7. IsPrefix(needle, suffix) <=> n <= l /\ \A i \in 1..n : needle[i] = m[x + i - 1]
  <2>1. ASSUME NEW i \in 1..l PROVE whole[p + i - 1] = m[x + i - 1]
    <3>1. p + i - 1 \in 1..(z - a + 1) /\ a + (p + i - 1) - 1 = x + i - 1
      BY <1>1, <1>4, <1>5
    <3> HIDE DEF p
    <3>2. whole[p + i - 1] = m[a + (p + i - 1) - 1]
      BY <1>1, <3>1
    <3> QED BY <3>1, <3>2
  <2> HIDE DEF p
  <2>2. IsPrefix(needle, suffix) <=> n <= l /\ \A i \in 1..n : needle[i] = whole[p + i - 1]
    <3>1. p \in 1..Len(whole) /\ Len(whole) - p + 1 = l
      BY <1>1, <1>6
    <3>2. IsPrefix(needle, SubSeq(whole, p, Len(whole)))
            <=> Len(needle) <= Len(whole) - p + 1 /\ \A i \in 1..Len(needle) : needle[i] = whole[p + i - 1]
      <4>1. whole \in Seq(Bytes) /\ needle \in Seq(Bytes)
        BY <1>1, <1>3
      <4> QED BY <3>1, <4>1, PrefixOfSuffix
    <3> QED BY <1>3, <3>1, <3>2
  <2>3. n <= l => \A i \in 1..n : i \in 1..l
    BY <1>3
  <2> HIDE DEF suffix
  <2> QED BY <2>1, <2>2, <2>3
<1>8. /\ z \in Nat /\ a \in Nat /\ b \in Nat /\ x \in Nat /\ n \in Nat /\ Top \in Nat
      /\ x <= z /\ z <= Top /\ l = z - x + 1
  BY <1>1, <1>2, <1>3, <1>4, <1>5
<1>9. ASSUME n <= l, \A i \in 1..n : needle[i] = m[x + i - 1]
      PROVE  x \in a..(z - 1) /\ \A j \in 0..(n - 1) : x + j <= Top /\ m[x + j] = m[b + j]
  <2>1. \A j \in 0..(n - 1) : x + j <= Top /\ m[x + j] = m[b + j]
    <3>1. SUFFICES ASSUME NEW j \in 0..(n - 1) PROVE x + j <= Top /\ m[x + j] = m[b + j]
      OBVIOUS
    <3>2. /\ j + 1 \in 1..n /\ j + 1 \in 1..l /\ x + j <= Top
          /\ x + (j + 1) - 1 = x + j /\ b + (j + 1) - 1 = b + j
      BY <1>8, <1>9
    <3> QED BY <1>3, <1>9, <3>2
  <2>2. x # z
    <3>1. SUFFICES ASSUME x = z PROVE FALSE
      OBVIOUS
    <3>2. 1 \in 1..n /\ 1 \in 1..l /\ x + 1 - 1 = x
      BY <1>3, <1>4, <1>5
    <3> QED BY <1>1, <1>3, <1>9, <3>1, <3>2
  <2> QED BY <1>1, <1>4, <2>1, <2>2
<1>10. ASSUME x \in a..(z - 1), \A j \in 0..(n - 1) : x + j <= Top /\ m[x + j] = m[b + j]
      PROVE  n <= l /\ \A i \in 1..n : needle[i] = m[x + i - 1]
  <2>1. n <= l
    <3>1. SUFFICES ASSUME l < n PROVE FALSE
      BY <1>3
    <3>2. /\ z - x \in 0..(n - 1) /\ x + (z - x) = z
          /\ (z - x) + 1 \in 1..n /\ b + ((z - x) + 1) - 1 = b + (z - x)
      BY <1>8, <3>1
    <3> QED BY <1>1, <1>3, <1>10, <3>2
  <2>2. \A i \in 1..n : needle[i] = m[x + i - 1]
    <3>1. SUFFICES ASSUME NEW i \in 1..n PROVE needle[i] = m[x + i - 1]
      OBVIOUS
    <3>2. i - 1 \in 0..(n - 1) /\ i \in 1..l /\ x + (i - 1) = x + i - 1 /\ b + (i - 1) = b + i - 1
      BY <1>8, <2>1
    <3> QED BY <1>3, <1>10, <3>2
  <2> QED BY <2>1, <2>2
<1>11. IsPrefix(needle, suffix)
           <=> x \in a..(z - 1) /\ \A j \in 0..(n - 1) : x + j <= Top /\ m[x + j] = m[b + j]
  BY <1>7, <1>9, <1>10
<1> QED BY <1>11 DEF needle, suffix

\* strstr.
LEMMA StrstrIs ==
  ASSUME NEW m \in Memories, NEW a \in Pointers, NEW b \in Pointers, NEW whole, whole = Whole(m, a)
  PROVE  Strstr(m, a, b)
           = FirstOf({a + i - 1 : i \in {j \in DOMAIN whole : IsPrefix(Text(m, b), SubSeq(whole, j, Len(whole)))}})
<1> DEFINE T == {j \in DOMAIN whole : IsPrefix(Text(m, b), SubSeq(whole, j, Len(whole)))}
           hits == {a + i - 1 : i \in T}
<1>1. PICK z \in Nat : z = NulAt(m, a)
  BY WholeIs
<1>2. /\ a \in Nat /\ a <= z /\ whole \in Seq(Bytes) /\ Len(whole) = z - a + 1
      /\ DOMAIN whole = 1..(z - a + 1)
  BY <1>1, WholeIs
<1>3. hits = {x \in a..z : x - a + 1 \in T}
  <2>1. T \subseteq 1..(z - a + 1)
    BY <1>2
  <2> HIDE DEF T
  <2> QED BY <1>2, <2>1, PlacesAre
<1>4. PICK n \in Nat : n = Strlen(m, b) /\ Len(Text(m, b)) = n /\ Text(m, b) \in Seq(Bytes)
  BY TextIs
<1>5. ASSUME NEW x \in a..z
      PROVE  x - a + 1 \in T <=> IsPrefix(Text(m, b), SubSeq(whole, x - a + 1, Len(whole)))
  <2>1. x - a + 1 \in DOMAIN whole
    BY <1>2
  <2> QED BY <2>1
<1> HIDE DEF T
<1>6. CASE n = 0
  <2>1. ASSUME NEW x \in a..z PROVE x - a + 1 \in T
    <3>1. x - a + 1 \in 1..Len(whole)
      BY <1>2
    <3>2. PICK p \in 1..Len(whole) : p = x - a + 1
      BY <3>1
    <3>3. IsPrefix(Text(m, b), SubSeq(whole, p, Len(whole)))
            <=> n <= Len(whole) - p + 1 /\ \A i \in 1..n : Text(m, b)[i] = whole[p + i - 1]
      <4>1. PICK needle \in Seq(Bytes) : needle = Text(m, b) /\ Len(needle) = n
        BY <1>4
      <4>2. whole \in Seq(Bytes)
        BY <1>2
      <4>3. IsPrefix(needle, SubSeq(whole, p, Len(whole)))
              <=> Len(needle) <= Len(whole) - p + 1 /\ \A i \in 1..Len(needle) : needle[i] = whole[p + i - 1]
        BY <4>2, PrefixOfSuffix
      <4> QED BY <4>1, <4>3
    <3>4. n <= Len(whole) - p + 1 /\ 1..n = {}
      BY <1>2, <1>6
    <3> QED BY <1>5, <3>2, <3>3, <3>4
  <2> HIDE DEF hits
  <2>2. a \in hits /\ \A x \in hits : a <= x
    <3>1. a \in a..z /\ \A x \in a..z : a <= x
      BY <1>2
    <3> QED BY <1>3, <2>1, <3>1
  <2>3. hits \subseteq Nat
    <3>1. \A x \in a..z : x \in Nat
      BY <1>2
    <3> QED BY <1>3, <3>1
  <2>4. FirstOf(hits) = a
    BY <2>2, <2>3, LeastIs DEF FirstOf
  <2> QED BY <1>4, <1>6, <2>4 DEF Strstr, hits, T
<1>7. CASE n # 0
  <2>1. hits = {x \in a..(NulAt(m, a) - 1) : \A j \in 0..(n - 1) : x + j <= Top /\ m[x + j] = m[b + j]}
    <3>1. ASSUME NEW x \in a..z
          PROVE  x - a + 1 \in T
                   <=> x \in a..(z - 1) /\ \A j \in 0..(n - 1) : x + j <= Top /\ m[x + j] = m[b + j]
      BY <1>1, <1>4, <1>5, <1>7, OccursAt
    <3>2. \A x \in a..(z - 1) : x \in a..z
      BY <1>2
    <3> HIDE DEF hits
    <3> QED BY <1>1, <1>3, <3>1, <3>2
  <2> HIDE DEF hits
  <2>2. Strstr(m, a, b) = FirstOf(hits)
    BY <1>4, <1>7, <2>1 DEF Strstr, FirstOf
  <2> QED BY <2>2 DEF hits, T
<1> QED BY <1>6, <1>7

\* What a search returns.
FoundBy(m, c) ==
  LET a == c.a
      whole == Append(Text(m, a), 0)
      chars == {a + i - 1 : i \in {j \in DOMAIN whole : whole[j] = c.c}}
      listed == {a + i - 1 : i \in {j \in DOMAIN whole : whole[j] \in Range(Text(m, c.b))}}
      occurs == {a + i - 1 : i \in {j \in DOMAIN whole : IsPrefix(Text(m, c.b), SubSeq(whole, j, Len(whole)))}}
  IN CASE c.name = "strlen" -> Len(Text(m, a))
       [] c.name = "strchr" -> FirstOf(chars)
       [] c.name = "strchrnul" -> Min(chars \cup {a + Len(whole) - 1})
       [] c.name = "strrchr" -> Max(chars \cup {Null})
       [] c.name = "memchr" -> FirstOf({x \in a..(a + c.n - 1) : m[x] = c.c})
       [] c.name = "strcspn" -> Min(listed \cup {a + Len(whole) - 1}) - a
       [] c.name = "strpbrk" -> FirstOf(listed)
       [] c.name = "strstr" -> FirstOf(occurs)

\* SearchesAsC says that a search has returned that.
LEMMA SearchesAre ==
  /\ SearchesAsC = (Done(Searches) => result[1] = FoundBy(mem, call))
  /\ SearchesAsC' = (Done(Searches)' => result'[1] = FoundBy(mem', call'))
<1>1. SearchesAsC = (Done(Searches) => result[1] = FoundBy(mem, call))
  BY DEF SearchesAsC, FoundBy, FirstOf
<1>2. SearchesAsC' = (Done(Searches)' => result'[1] = FoundBy(mem', call'))
  BY DEF SearchesAsC, FoundBy, FirstOf
<1> QED BY <1>1, <1>2

\* A search that finds what it says.
LEMMA SearchesStep ==
  ASSUME CallInv, SearchRoutine
  PROVE  SearchesAsC'
<1> DEFINE a == call.a
           b == call.b
           c == call.c
           m == before
           whole == Append(Text(m, a), 0)
           chars == {a + i - 1 : i \in {j \in DOMAIN whole : whole[j] = c}}
           listed == {a + i - 1 : i \in {j \in DOMAIN whole : whole[j] \in Range(Text(m, b))}}
           occurs == {a + i - 1 : i \in {j \in DOMAIN whole : IsPrefix(Text(m, b), SubSeq(whole, j, Len(whole)))}}
<1>1. call.name \in Searches /\ mem' = mem /\ call' = call
  BY DEF SearchRoutine, Reads, Returns, Calls, Searches
<1>2. mem = before
  BY <1>1 DEF CallInv, Copiers, Searches
<1>3. m \in Memories /\ a \in Pointers /\ b \in Pointers
  BY <1>1, Arguments DEF Searches
<1>4. PICK v : /\ result' = <<v>>
               /\ call.name = "strlen" => v = Strlen(m, a)
               /\ call.name = "strchr" => v = Strchr(m, a, c)
               /\ call.name = "strchrnul" => v = Reached(m, a, {c})
               /\ call.name = "strrchr" => v = Strrchr(m, a, c)
               /\ call.name = "memchr" => v = Memchr(m, a, c, call.n)
               /\ call.name = "strcspn" => v = Strcspn(m, a, b)
               /\ call.name = "strpbrk" => v = Strpbrk(m, a, b)
               /\ call.name = "strstr" => v = Strstr(m, a, b)
  BY <1>2 DEF SearchRoutine, Reads, Returns, Calls
<1> HIDE DEF a, b, c, m
<1>5. PICK z : z = NulAt(m, a)
  OBVIOUS
<1>6. whole = Whole(m, a)
  BY DEF Whole
<1> HIDE DEF whole
<1>7. Len(whole) = z - a + 1 /\ z \in Nat /\ a \in Nat /\ a + Len(whole) - 1 = z
  <2>1. Len(whole) = z - a + 1 /\ z \in Nat /\ a \in Nat
    BY <1>3, <1>5, <1>6, WholeIs
  <2>2. a + (z - a + 1) - 1 = z
    BY <2>1
  <2> QED BY <2>1, <2>2
<1>8. \A cs : {a + i - 1 : i \in {j \in DOMAIN whole : whole[j] \in cs}} = {x \in a..z : m[x] \in cs}
  BY <1>3, <1>5, <1>6, PlacesOf
<1>9. \A cs, found : found = {x \in a..z : m[x] \in cs} =>
        /\ Reached(m, a, cs) = Min(found \cup {z})
        /\ FirstOf(found) = IF m[Reached(m, a, cs)] \in cs THEN Reached(m, a, cs) ELSE Null
        /\ m[Reached(m, a, cs)] \in cs \cup {0}
  BY <1>3, <1>5, ReachedIs
<1>10. chars = {x \in a..z : m[x] \in {c}}
  <2>1. {j \in DOMAIN whole : whole[j] = c} = {j \in DOMAIN whole : whole[j] \in {c}}
    OBVIOUS
  <2>2. {a + i - 1 : i \in {j \in DOMAIN whole : whole[j] \in {c}}} = {x \in a..z : m[x] \in {c}}
    BY <1>8
  <2> QED BY <2>1, <2>2
<1>11. listed = {x \in a..z : m[x] \in Set(m, b)} /\ 0 \notin Set(m, b)
  <2>1. Range(Text(m, b)) = Set(m, b) /\ 0 \notin Set(m, b)
    BY <1>3, CharactersOf
  <2>2. {a + i - 1 : i \in {j \in DOMAIN whole : whole[j] \in Set(m, b)}} = {x \in a..z : m[x] \in Set(m, b)}
    BY <1>8
  <2> QED BY <2>1, <2>2
<1> HIDE DEF chars, listed
<1>12. /\ Reached(m, a, {c}) = Min(chars \cup {z})
       /\ FirstOf(chars) = IF m[Reached(m, a, {c})] \in {c} THEN Reached(m, a, {c}) ELSE Null
  BY <1>9, <1>10
<1>13. /\ Reached(m, a, Set(m, b)) = Min(listed \cup {z})
       /\ FirstOf(listed) = IF m[Reached(m, a, Set(m, b))] \in Set(m, b) THEN Reached(m, a, Set(m, b)) ELSE Null
       /\ m[Reached(m, a, Set(m, b))] \in Set(m, b) \cup {0}
  BY <1>9, <1>11
<1>14. call.name = "strlen" => v = Len(Text(m, a))
  BY <1>3, <1>4, TextIs
<1>15. call.name = "strchr" => v = FirstOf(chars)
  BY <1>4, <1>12 DEF Strchr
<1>16. call.name = "strchrnul" => v = Min(chars \cup {z})
  BY <1>4, <1>12
<1>17. call.name = "strrchr" => v = Max(chars \cup {Null})
  <2>1. chars \cup {Null} = {Null} \cup {x \in a..NulAt(m, a) : m[x] = c}
    BY <1>5, <1>10
  <2> QED BY <1>4, <2>1 DEF Strrchr
<1>18. call.name = "memchr" => v = FirstOf({x \in a..(a + call.n - 1) : m[x] = c})
  BY <1>4 DEF Memchr, FirstOf
<1>19. call.name = "strcspn" => v = Min(listed \cup {z}) - a
  BY <1>4, <1>13 DEF Strcspn
<1>20. call.name = "strpbrk" => v = FirstOf(listed)
  <2> DEFINE r == Reached(m, a, Set(m, b))
  <2>1. Strpbrk(m, a, b) = IF m[r] = 0 THEN Null ELSE r
    BY DEF Strpbrk
  <2> HIDE DEF r
  <2> QED BY <1>4, <1>11, <1>13, <2>1 DEF r
<1>21. call.name = "strstr" => v = FirstOf(occurs)
  <2>1. Strstr(m, a, b) = FirstOf(occurs)
    BY <1>3, <1>6, StrstrIs
  <2> QED BY <1>4, <2>1
<1>22. result'[1] = v
  BY <1>4
<1> HIDE DEF occurs
<1>23. v = FoundBy(m, call)
  <2> USE DEF whole, chars, listed, occurs
  <2>1. /\ call.name = "strlen" => v = Len(Text(m, a))
        /\ call.name = "strchr" => v = FirstOf(chars)
        /\ call.name = "strchrnul" => v = Min(chars \cup {a + Len(whole) - 1})
        /\ call.name = "strrchr" => v = Max(chars \cup {Null})
        /\ call.name = "memchr" => v = FirstOf({x \in a..(a + call.n - 1) : m[x] = c})
        /\ call.name = "strcspn" => v = Min(listed \cup {a + Len(whole) - 1}) - a
        /\ call.name = "strpbrk" => v = FirstOf(listed)
        /\ call.name = "strstr" => v = FirstOf(occurs)
    BY <1>7, <1>14, <1>15, <1>16, <1>17, <1>18, <1>19, <1>20, <1>21
  <2> QED BY <1>1, <2>1 DEF FoundBy, Searches, a, b, c
<1> QED BY <1>1, <1>2, <1>22, <1>23, SearchesAre DEF m

-----------------------------------------------------------------------------
(* The theorems.                                                           *)

\* The inductive invariant: the calls are what CallInv says, their effects and
\* results what C says.
StringsInv == CallInv /\ CopiesAsC /\ ComparesAsC /\ SearchesAsC

\* Nothing has been returned at first.
LEMMA StringsInvInit == LibcInit => StringsInv
<1>1. LibcInit => result = Pending
  BY DEF LibcInit, Init
<1>2. result = Pending => CopiesAsC /\ ComparesAsC /\ SearchesAsC
  BY DEF CopiesAsC, ComparesAsC, SearchesAsC, Done
<1> QED BY <1>1, <1>2, CallInvInit DEF StringsInv

\* Each routine returns what its property says and disturbs no other.
LEMMA StringsInvNext ==
  ASSUME StringsInv, [LibcNext]_<<vars, options>>
  PROVE  StringsInv'
<1>1. CallInv /\ CallInv'
  BY CallInvNext DEF StringsInv
<1>2. CASE Next
  <2>1. call' = call
    BY <1>2, CallSteps
  <2>2. call.name \notin Copiers => CopiesAsC'
    BY <2>1 DEF CopiesAsC, Done, Copiers
  <2>3. call.name \notin {"memcmp", "strcmp", "strncmp", "strcasecmp", "strncasecmp"} => ComparesAsC'
    BY <2>1 DEF ComparesAsC, Done
  <2>4. call.name \notin Searches => SearchesAsC'
    BY <2>1 DEF SearchesAsC, Done
  <2>5. CASE CopyRoutine
    <3>1. call.name \in Copiers
      BY <2>5 DEF CopyRoutine, Writes, Calls, Copiers
    <3>2. /\ call.name \notin Searches
          /\ call.name \notin {"memcmp", "strcmp", "strncmp", "strcasecmp", "strncasecmp"}
      BY <3>1 DEF Copiers, Searches
    <3> QED BY <1>1, <2>3, <2>4, <2>5, <3>2, CopiesStep DEF StringsInv
  <2>6. CASE CompareRoutine
    <3>1. call.name \in {"memcmp", "strcmp", "strncmp", "strcasecmp", "strncasecmp"}
      BY <2>6 DEF CompareRoutine, Reads, Calls
    <3>2. call.name \notin Searches /\ call.name \notin Copiers
      BY <3>1 DEF Copiers, Searches
    <3> QED BY <1>1, <2>2, <2>4, <2>6, <3>2, ComparesStep DEF StringsInv
  <2>7. CASE SearchRoutine
    <3>1. call.name \in Searches
      BY <2>7 DEF SearchRoutine, Reads, Calls, Searches
    <3>2. /\ call.name \notin Copiers
          /\ call.name \notin {"memcmp", "strcmp", "strncmp", "strcasecmp", "strncasecmp"}
      BY <3>1 DEF Copiers, Searches
    <3> QED BY <1>1, <2>2, <2>3, <2>7, <3>2, SearchesStep DEF StringsInv
  <2>8. CASE call.name \in {"fnmatch", "strto", "strtok_r"}
    <3>1. /\ call.name \notin Searches /\ call.name \notin Copiers
          /\ call.name \notin {"memcmp", "strcmp", "strncmp", "strcasecmp", "strncasecmp"}
      BY <2>8 DEF Copiers, Searches
    <3> QED BY <1>1, <2>2, <2>3, <2>4, <3>1 DEF StringsInv
  <2> QED BY <1>2, <2>5, <2>6, <2>7, <2>8, CallSteps
<1>3. CASE UNCHANGED vars
  <2>1. CopiesAsC'
    BY <1>3 DEF StringsInv, CopiesAsC, Done, vars
  <2>2. ComparesAsC'
    BY <1>3 DEF StringsInv, ComparesAsC, Done, vars
  <2>3. SearchesAsC'
    <3>1. SearchesAsC
      BY DEF StringsInv
    <3>2. Done(Searches)' = Done(Searches)
      BY <1>3 DEF Done, vars
    <3>3. mem' = mem /\ call' = call /\ result' = result
      BY <1>3 DEF vars
    <3> QED BY <3>1, <3>2, <3>3, SearchesAre
  <2> QED BY <1>1, <2>1, <2>2, <2>3 DEF StringsInv
<1> QED BY <1>2, <1>3 DEF LibcNext, vars, options

\* StringsInv is an invariant.
THEOREM StringsInvariant == LibcSpec => []StringsInv
  BY StringsInvInit, StringsInvNext, PTL DEF LibcSpec

\* Copies leave in the destination what the source held before the call and
\* change nothing else: of any sizes, forward, backward and by pages of any
\* size, whatever overlaps as far as C allows it.
THEOREM CopiesAsCHolds == LibcSpec => []CopiesAsC
<1>1. StringsInv => CopiesAsC
  BY DEF StringsInv
<1> QED BY <1>1, StringsInvariant, PTL

\* Comparisons have the sign of the order of what they compare.
THEOREM ComparesAsCHolds == LibcSpec => []ComparesAsC
<1>1. StringsInv => ComparesAsC
  BY DEF StringsInv
<1> QED BY <1>1, StringsInvariant, PTL

\* Searches find the first place (strrchr the last) of what they look for.
THEOREM SearchesAsCHolds == LibcSpec => []SearchesAsC
<1>1. StringsInv => SearchesAsC
  BY DEF StringsInv
<1> QED BY <1>1, StringsInvariant, PTL
=============================================================================
