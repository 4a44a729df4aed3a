--------------------------- MODULE P3Machine_proofs ---------------------------
(***************************************************************************)
(* Whatever the functions, their frame sizes and their texts, however deep *)
(* the host enters guest code, and wherever setjmp and longjmp are called: *)
(* the frames of the live activations stay on the stack of their run and   *)
(* apart from one another, and what the machine does to its one memory is  *)
(* what a stack of activations with variables of their own does.           *)
(***************************************************************************)
EXTENDS P3Machine, SequenceTheorems, WellFoundedInduction, TLAPS

\* The part of the header that leads from a frame to its caller and its result.
Links == {CALLER_SP, RET_PC, RESULT_PTR}

\* S has the frames of each run.  The last frame of a run that has entered
\* another is that of the host service, which has no variables.
IsHostFrame(S, r, i) == r < Len(S) /\ i = Len(S[r])
WordsOf(S, r, i) == IF IsHostFrame(S, r, i) THEN HEADER_SIZE + 2 ELSE HEADER_SIZE + 7

\* Where the extent of a frame ends, and what its CALLER_SP says.
EndOf(S, r, i) == IF i = 1 THEN StackTops[r] ELSE S[r][i - 1]
CallerOf(S, r, i) ==
  IF i > 1 THEN S[r][i - 1] ELSE IF r = 1 THEN StackTops[1] ELSE S[r][1]

\* Frames lie on their stacks, each below the ones that were laid before it.
FrameAt(S, r, i) ==
  /\ S[r][i] >= StackTops[r] - StackWords
  /\ S[r][i] + WordsOf(S, r, i) <= StackTops[r]
  /\ \A j \in 1..(i - 1) : S[r][i] + WordsOf(S, r, i) <= S[r][j]

Placed(S) ==
  /\ S \in Seq(Seq(Int)) /\ Len(S) \in 1..Len(StackTops)
  /\ \A r \in 1..Len(S) : Len(S[r]) >= 1 /\ (r < Len(S) => Len(S[r]) > 1)
  /\ \A r \in 1..Len(S) : \A i \in 1..Len(S[r]) : FrameAt(S, r, i)

\* What memory m says of the frames.
FrameLinked(m, S, r, i) ==
  /\ m[S[r][i] + CALLER_SP] = CallerOf(S, r, i)
  /\ m[S[r][i] + RESULT_PTR] = EndOf(S, r, i) - 1
  /\ (m[S[r][i] + RET_PC] = HaltCode) <=> i = 1
LinkedIn(m, S) == \A r \in 1..Len(S) : \A i \in 1..Len(S[r]) : FrameLinked(m, S, r, i)

\* The descriptors in memory m: of host code, or of the function itself.
DescribedIn(m) ==
  \A c \in Callables :
    \/ m[Desc[c]].at = "host" /\ m[Desc[c] + 1] = HEADER_SIZE
    \/ c \in Functions /\ m[Desc[c]] = Code(c, "entry") /\ m[Desc[c] + 1] = FrameSize(c)

\* The words that the two depend on.
Vital(S, a) ==
  \/ a \in DescWords
  \/ \E r \in 1..Len(S) : \E i \in 1..Len(S[r]) : a - S[r][i] \in Links

\* Where the machine is among the frames, and the host below it.
Positioned(S) ==
  /\ Len(S) = Runs
  /\ sp = S[Len(S)][Len(S[Len(S)])]
  /\ host \in Seq([sp : Int, result : Int])
  /\ \A r \in 1..Len(host) : host[r].sp = S[r][Len(S[r])]

\* As many frames as calls.
Counted(S) == work \in 0..MaxWork /\ \A r \in 1..Len(S) : Len(S[r]) <= work + 1

\* A jump buffer in use belongs to a live activation of guest code.
JumpAt(S, buffer, r, i) ==
  /\ buffer.sp = S[r][i] /\ buffer.result = S[r][i] - 1
  /\ S[r][i] > StackTops[r] - StackWords
  /\ r < Len(S) => i < Len(S[r])
  /\ r = Len(S) => ~halted
JumpsLive(S) ==
  /\ DOMAIN jmps = JmpBufs
  /\ \A env \in JmpBufs :
       jmps[env] # NoJmp => \E r \in 1..Len(S) : \E i \in 1..Len(S[r]) : JumpAt(S, jmps[env], r, i)

Stacked(S) ==
  /\ Placed(S) /\ LinkedIn(mem, S) /\ DescribedIn(mem) /\ DOMAIN mem = MemoryWords
  /\ Positioned(S) /\ Counted(S) /\ JumpsLive(S) /\ ~Finished

FramesInv == Finished \/ \E S : Stacked(S)
-----------------------------------------------------------------------------
(***************************************************************************)
(* Words and stacks.                                                       *)
(***************************************************************************)

\* The stacks, their words and the descriptors are apart.
LEMMA Layout ==
  /\ Len(StackTops) \in Nat \ {0} /\ StackWords \in Nat /\ MaxWork \in Nat
  /\ \A r \in 1..Len(StackTops) : StackTops[r] \in Nat
  /\ \A r, t \in 1..Len(StackTops) : r # t =>
       StackTops[r] <= StackTops[t] - StackWords \/ StackTops[t] <= StackTops[r] - StackWords
  /\ \A r \in 1..Len(StackTops), a \in DescWords : a < StackTops[r] - StackWords
  /\ \A c \in Callables : Desc[c] \in Nat /\ Desc[c] \in DescWords /\ Desc[c] + 1 \in DescWords
  /\ DescWords \subseteq Nat
<1>1. \A c \in Callables : Desc[c] \in Nat /\ Desc[c] \in DescWords /\ Desc[c] + 1 \in DescWords
  BY MachineAssumption DEF DescWords
<1>2. DescWords \subseteq Nat
  BY MachineAssumption DEF DescWords
<1>3. Len(StackTops) \in Nat \ {0} /\ \A r \in 1..Len(StackTops) : StackTops[r] \in Nat
  BY MachineAssumption
<1> QED BY <1>1, <1>2, <1>3, MachineAssumption

\* One stack, and two.
LEMMA StackAt ==
  ASSUME NEW r \in 1..Len(StackTops)
  PROVE  StackTops[r] \in Nat /\ StackWords \in Nat
BY Layout
\* Two stacks share no word.
LEMMA StacksApart ==
  ASSUME NEW r \in 1..Len(StackTops), NEW t \in 1..Len(StackTops), r # t
  PROVE  StackTops[r] <= StackTops[t] - StackWords \/ StackTops[t] <= StackTops[r] - StackWords
BY Layout

\* What a frame's place says of it.
LEMMA PlaceOf ==
  ASSUME NEW S, Placed(S), NEW r \in 1..Len(S), NEW i \in 1..Len(S[r])
  PROVE  /\ r \in 1..Len(StackTops) /\ Len(S) \in Nat /\ Len(S[r]) \in Nat
         /\ S[r] \in Seq(Int) /\ S[r][i] \in Int
         /\ WordsOf(S, r, i) \in {10, 15}
         /\ S[r][i] >= StackTops[r] - StackWords
         /\ S[r][i] + WordsOf(S, r, i) <= StackTops[r]
         /\ \A j \in 1..(i - 1) : S[r][i] + WordsOf(S, r, i) <= S[r][j] /\ S[r][j] \in Int
         /\ EndOf(S, r, i) \in Int /\ S[r][i] + WordsOf(S, r, i) <= EndOf(S, r, i)
         /\ EndOf(S, r, i) <= StackTops[r]
<1> USE Layout
<1>1. S \in Seq(Seq(Int)) /\ Len(S) \in 1..Len(StackTops) /\ FrameAt(S, r, i)
  BY DEF Placed
<1>2. r \in 1..Len(StackTops) /\ Len(S) \in Nat /\ S[r] \in Seq(Int)
  BY <1>1
<1>3. Len(S[r]) \in Nat /\ \A j \in 1..Len(S[r]) : S[r][j] \in Int
  BY <1>2
<1>4. WordsOf(S, r, i) \in {10, 15}
  BY DEF WordsOf, HEADER_SIZE
<1>5. \A j \in 1..(i - 1) : S[r][i] + WordsOf(S, r, i) <= S[r][j] /\ S[r][j] \in Int
  <2>1. \A j \in 1..(i - 1) : S[r][i] + WordsOf(S, r, i) <= S[r][j]
    BY <1>1 DEF FrameAt
  <2>2. \A j \in 1..(i - 1) : j \in 1..Len(S[r])
    BY <1>3
  <2> QED BY <1>3, <2>1, <2>2
<1>6. S[r][i] >= StackTops[r] - StackWords /\ S[r][i] + WordsOf(S, r, i) <= StackTops[r]
  BY <1>1 DEF FrameAt
<1>7. /\ EndOf(S, r, i) \in Int /\ S[r][i] + WordsOf(S, r, i) <= EndOf(S, r, i)
      /\ EndOf(S, r, i) <= StackTops[r]
  <2>1. CASE i = 1
    BY <1>2, <1>6, <2>1 DEF EndOf
  <2>2. CASE i # 1
    <3>1. i - 1 \in 1..(i - 1) /\ i - 1 \in 1..Len(S[r])
      BY <1>3, <2>2
    <3>2. FrameAt(S, r, i - 1) /\ WordsOf(S, r, i - 1) \in {10, 15}
      BY <3>1 DEF Placed, WordsOf, HEADER_SIZE
    <3>3. S[r][i - 1] <= StackTops[r]
      <4>1. S[r][i - 1] + WordsOf(S, r, i - 1) <= StackTops[r]
        BY <3>2 DEF FrameAt
      <4>2. S[r][i - 1] \in Int /\ StackTops[r] \in Nat
        BY <1>2, <1>3, <3>1
      <4> QED BY <3>2, <4>1, <4>2
    <3> QED BY <1>2, <1>5, <2>2, <3>1, <3>3 DEF EndOf
  <2> QED BY <2>1, <2>2
<1> QED BY <1>2, <1>3, <1>4, <1>5, <1>6, <1>7

\* The header of a frame is on its stack.
LEMMA HeaderAt ==
  ASSUME NEW S, Placed(S), NEW r \in 1..Len(S), NEW i \in 1..Len(S[r])
  PROVE  /\ r \in 1..Len(StackTops) /\ StackTops[r] \in Nat /\ StackWords \in Nat /\ S[r][i] \in Int
         /\ S[r][i] >= StackTops[r] - StackWords /\ S[r][i] + 10 <= StackTops[r]
<1>1. /\ r \in 1..Len(StackTops) /\ S[r][i] \in Int /\ WordsOf(S, r, i) \in {10, 15}
      /\ S[r][i] >= StackTops[r] - StackWords /\ S[r][i] + WordsOf(S, r, i) <= StackTops[r]
  BY PlaceOf
<1>2. StackTops[r] \in Nat /\ StackWords \in Nat
  BY <1>1, StackAt
<1>3. ASSUME NEW x \in Int, NEW y \in Int, NEW w \in {10, 15}, x + w <= y PROVE x + 10 <= y
  BY <1>3
<1>4. S[r][i] + 10 <= StackTops[r]
  BY <1>1, <1>2, <1>3
<1> QED BY <1>1, <1>2, <1>4

\* Words that lie between the words of a stack are its words, and of no other.
LEMMA Between ==
  ASSUME NEW r \in 1..Len(StackTops), NEW x \in Int, NEW a \in Int, NEW y \in Int,
         StackTops[r] - StackWords <= x, x <= a, a < y, y <= StackTops[r]
  PROVE  a \in StackWordsOf(r) /\ a \in MemoryWords
<1>1. StackTops[r] \in Nat /\ StackWords \in Nat
  BY StackAt
<1>2. a \in StackWordsOf(r)
  BY <1>1 DEF StackWordsOf
<1> QED BY <1>2 DEF MemoryWords

\* No word is on two stacks.
LEMMA OneStack ==
  ASSUME NEW r \in 1..Len(StackTops), NEW t \in 1..Len(StackTops),
         NEW a \in StackWordsOf(r), a \in StackWordsOf(t)
  PROVE  r = t
<1>1. StackTops[t] \in Nat /\ StackTops[r] \in Nat /\ StackWords \in Nat
  BY StackAt
<1>2. ~ (StackTops[r] <= StackTops[t] - StackWords \/ StackTops[t] <= StackTops[r] - StackWords)
  BY <1>1 DEF StackWordsOf
<1> QED BY <1>2, StacksApart

\* The words of a header that lead to others.
LEMMA LinkWords ==
  ASSUME NEW f \in Int, NEW a \in Int, a - f \in Links
  PROVE  f <= a /\ a < f + 5 /\ a < f + 10
BY DEF Links, CALLER_SP, RET_PC, RESULT_PTR

\* A word of a stack that is in no frame's header is not vital.
LEMMA NotVital ==
  ASSUME NEW S, Placed(S), NEW r \in 1..Len(StackTops), NEW a \in StackWordsOf(r),
         r <= Len(S) => \A i \in 1..Len(S[r]) : a < S[r][i] \/ a > S[r][i] + 4
  PROVE  ~Vital(S, a) /\ a \in MemoryWords /\ a \in Int
<1>1. a \in Int /\ StackTops[r] - StackWords <= a /\ a < StackTops[r]
  BY Layout DEF StackWordsOf
<1>2. a \notin DescWords
  BY <1>1, Layout
<1>3. ASSUME NEW t \in 1..Len(S), NEW i \in 1..Len(S[t]), a - S[t][i] \in Links
      PROVE  FALSE
  <2>1. /\ t \in 1..Len(StackTops) /\ StackTops[t] \in Nat /\ StackWords \in Nat /\ S[t][i] \in Int
        /\ S[t][i] >= StackTops[t] - StackWords /\ S[t][i] + 10 <= StackTops[t]
    BY HeaderAt
  <2>2. S[t][i] <= a /\ a < S[t][i] + 5 /\ a < S[t][i] + 10
    BY <1>1, <1>3, <2>1, LinkWords
  <2>3. S[t][i] + 10 \in Int /\ StackTops[t] - StackWords <= S[t][i]
    BY <2>1
  <2>4. a \in StackWordsOf(t)
    BY <1>1, <2>1, <2>2, <2>3, Between
  <2>5. t = r
    BY <2>1, <2>4, OneStack
  <2>6. r <= Len(S)
    <3>1. Len(S) \in Nat
      BY PlaceOf
    <3> QED BY <2>5, <3>1
  <2>7. a < S[t][i] \/ a > S[t][i] + 4
    BY <2>5, <2>6
  <2>8. ASSUME NEW x \in Int, x <= a, a < x + 5 PROVE ~(a < x \/ a > x + 4)
    BY <1>1, <2>8
  <2> QED BY <2>1, <2>2, <2>7, <2>8
<1>4. a \in MemoryWords
  BY DEF MemoryWords
<1> QED BY <1>1, <1>2, <1>3, <1>4 DEF Vital

\* Vital words are words of the memory.
LEMMA VitalWords ==
  ASSUME NEW S, Placed(S), NEW a, Vital(S, a), a \in Int
  PROVE  a \in MemoryWords
<1>1. CASE a \in DescWords
  BY <1>1 DEF MemoryWords
<1>2. ASSUME NEW t \in 1..Len(S), NEW i \in 1..Len(S[t]), a - S[t][i] \in Links
      PROVE  a \in MemoryWords
  <2>1. /\ t \in 1..Len(StackTops) /\ StackTops[t] \in Nat /\ StackWords \in Nat /\ S[t][i] \in Int
        /\ S[t][i] >= StackTops[t] - StackWords /\ S[t][i] + 10 <= StackTops[t]
    BY HeaderAt
  <2>2. S[t][i] <= a /\ a < S[t][i] + 10
    BY <1>2, <2>1, LinkWords
  <2>3. S[t][i] + 10 \in Int /\ StackTops[t] - StackWords <= S[t][i]
    BY <2>1
  <2> QED BY <2>1, <2>2, <2>3, Between
<1> QED BY <1>1, <1>2 DEF Vital

\* Writes elsewhere keep the frames and the descriptors.
LEMMA LinksKept ==
  ASSUME NEW S, Placed(S), NEW m, NEW n, LinkedIn(m, S), DescribedIn(m),
         \A a \in MemoryWords : Vital(S, a) => n[a] = m[a]
  PROVE  LinkedIn(n, S) /\ DescribedIn(n)
<1>0. \A a \in Int : Vital(S, a) => n[a] = m[a]
  BY VitalWords
<1>1. ASSUME NEW r \in 1..Len(S), NEW i \in 1..Len(S[r]) PROVE FrameLinked(n, S, r, i)
  <2>1. S[r][i] \in Int
    BY PlaceOf
  <2>2. ASSUME NEW c \in Links PROVE n[S[r][i] + c] = m[S[r][i] + c]
    <3>1. c \in Int
      BY DEF Links, CALLER_SP, RET_PC, RESULT_PTR
    <3>2. S[r][i] + c \in Int /\ (S[r][i] + c) - S[r][i] \in Links
      BY <2>1, <3>1
    <3>3. Vital(S, S[r][i] + c)
      BY <3>2 DEF Vital
    <3> QED BY <1>0, <3>2, <3>3
  <2>3. /\ n[S[r][i] + CALLER_SP] = m[S[r][i] + CALLER_SP]
        /\ n[S[r][i] + RET_PC] = m[S[r][i] + RET_PC]
        /\ n[S[r][i] + RESULT_PTR] = m[S[r][i] + RESULT_PTR]
    BY <2>2 DEF Links
  <2>4. FrameLinked(m, S, r, i)
    BY DEF LinkedIn
  <2> QED BY <2>3, <2>4 DEF FrameLinked
<1>2. ASSUME NEW c \in Callables
      PROVE  n[Desc[c]] = m[Desc[c]] /\ n[Desc[c] + 1] = m[Desc[c] + 1]
  <2>1. Desc[c] \in Int /\ Desc[c] + 1 \in Int /\ Vital(S, Desc[c]) /\ Vital(S, Desc[c] + 1)
    BY Layout DEF Vital
  <2> QED BY <1>0, <2>1
<1> QED BY <1>1, <1>2 DEF LinkedIn, DescribedIn

-----------------------------------------------------------------------------
(***************************************************************************)
(* The frame the machine is in.                                            *)
(***************************************************************************)
Stack(r) == StackTops[r] - StackWords

\* The running frame is the last of the innermost run, with its variables on its stack.
LEMMA Current ==
  ASSUME NEW S, Stacked(S)
  PROVE  /\ Len(S) \in 1..Len(StackTops) /\ Len(S) = Runs /\ Len(S[Len(S)]) \in 1..Len(S[Len(S)])
         /\ S[Len(S)] \in Seq(Int) /\ S \in Seq(Seq(Int))
         /\ sp = S[Len(S)][Len(S[Len(S)])] /\ sp \in Int
         /\ Top = StackTops[Len(S)] /\ Bottom = Stack(Len(S)) /\ Top \in Nat /\ Bottom \in Int
         /\ sp >= Bottom /\ sp + 15 <= Top
         /\ \A j \in 1..(Len(S[Len(S)]) - 1) : S[Len(S)][j] \in Int /\ sp + 15 <= S[Len(S)][j]
<1> DEFINE R == Len(S)
           n == Len(S[R])
<1>1. Placed(S) /\ Positioned(S)
  BY DEF Stacked
<1>2. S \in Seq(Seq(Int)) /\ R \in 1..Len(StackTops) /\ R \in 1..Len(S)
  BY <1>1, Layout DEF Placed
<1>3. S[R] \in Seq(Int) /\ n >= 1
  BY <1>1, <1>2 DEF Placed
<1>4. n \in 1..n
  BY <1>3
<1>5. R = Runs /\ sp = S[R][n]
  BY <1>1 DEF Positioned
<1>6. Top = StackTops[R] /\ Bottom = Stack(R) /\ Top \in Nat /\ Bottom \in Int
  BY <1>2, <1>5, StackAt DEF Top, Bottom, Stack, Runs
<1>7. WordsOf(S, R, n) = 15
  BY <1>2 DEF WordsOf, IsHostFrame, HEADER_SIZE
<1>8. /\ S[R][n] \in Int /\ S[R][n] >= StackTops[R] - StackWords
      /\ S[R][n] + WordsOf(S, R, n) <= StackTops[R]
      /\ \A j \in 1..(n - 1) : S[R][n] + WordsOf(S, R, n) <= S[R][j] /\ S[R][j] \in Int
  BY <1>1, <1>2, <1>4, PlaceOf
<1>9. sp \in Int /\ sp >= Bottom /\ sp + 15 <= Top
  BY <1>5, <1>6, <1>7, <1>8 DEF Stack
<1>10. \A j \in 1..(n - 1) : S[R][j] \in Int /\ sp + 15 <= S[R][j]
  BY <1>5, <1>7, <1>8
<1> QED BY <1>2, <1>3, <1>4, <1>5, <1>6, <1>9, <1>10

\* Its variables and what lies below it may be written.
LEMMA OwnWords ==
  ASSUME NEW S, Stacked(S), NEW a \in Int,
         (sp + 5 <= a /\ a < sp + 15) \/ (Bottom <= a /\ a < sp)
  PROVE  ~Vital(S, a) /\ a \in MemoryWords
<1> DEFINE R == Len(S)
           n == Len(S[R])
<1>1. /\ R \in 1..Len(StackTops) /\ n \in 1..n /\ sp = S[R][n] /\ sp \in Int
      /\ Top \in Nat /\ Bottom \in Int /\ sp >= Bottom /\ sp + 15 <= Top
      /\ Top = StackTops[R] /\ Bottom = StackTops[R] - StackWords
      /\ \A j \in 1..(n - 1) : S[R][j] \in Int /\ sp + 15 <= S[R][j]
  BY Current DEF Stack
<1>2. a \in StackWordsOf(R)
  <2>1. Bottom <= a /\ a <= Top - 1
    <3>1. ASSUME NEW x \in Int, NEW low \in Int, NEW high \in Int, x >= low, x + 15 <= high,
                 (x + 5 <= a /\ a < x + 15) \/ (low <= a /\ a < x)
          PROVE  low <= a /\ a <= high - 1
      BY <3>1
    <3>2. sp \in Int /\ Bottom \in Int /\ Top \in Int /\ sp >= Bottom /\ sp + 15 <= Top
      BY <1>1
    <3> QED BY <3>1, <3>2
  <2> QED BY <1>1, <2>1 DEF StackWordsOf
<1>3. ASSUME NEW i \in 1..n PROVE a < S[R][i] \/ a > S[R][i] + 4
  <2>1. CASE i = n
    <3>1. S[R][i] = sp /\ sp \in Int
      BY <1>1, <2>1
    <3>2. ASSUME NEW x \in Int, x + 5 <= a \/ a < x PROVE a < x \/ a > x + 4
      BY <3>2
    <3> QED BY <3>1, <3>2
  <2>2. CASE i # n
    <3>1. i \in 1..(n - 1)
      BY <1>1, <2>2
    <3>2. S[R][i] \in Int /\ sp \in Int /\ sp + 15 <= S[R][i]
      BY <1>1, <3>1
    <3>3. ASSUME NEW x \in Int, NEW y \in Int, x + 15 <= y, a < x + 15 \/ a < x PROVE a < y
      BY <3>3
    <3> QED BY <3>2, <3>3
  <2> QED BY <2>1, <2>2
<1>4. Placed(S)
  BY DEF Stacked
<1> QED BY <1>1, <1>2, <1>3, <1>4, NotVital

\* A call sequence writes below the caller's frame and to one of its cells.
LEMMA CalledWords ==
  ASSUME NEW S, Stacked(S), NEW g \in Callables, NEW site \in Sites, CallBase(g, site) >= Bottom
  PROVE  /\ CallBase(g, site) \in Int /\ CallBase(g, site) + mem[Desc[g] + 1] + 2 = sp
         /\ mem[Desc[g] + 1] \in Nat /\ mem[Desc[g] + 1] >= HEADER_SIZE
         /\ ResultBase(CallBase(g, site), g) = sp - 1
         /\ DOMAIN Called(g, site) = MemoryWords
         /\ \A a \in MemoryWords : Vital(S, a) => Called(g, site)[a] = mem[a]
         /\ Called(g, site)[CallBase(g, site) + CALLER_SP] = sp
         /\ Called(g, site)[CallBase(g, site) + RET_PC] = Code(pc.fn, site)
         /\ Called(g, site)[CallBase(g, site) + ENTRY] = mem[Desc[g]]
         /\ Called(g, site)[CallBase(g, site) + FRAME_SIZE] = mem[Desc[g] + 1]
         /\ Called(g, site)[CallBase(g, site) + RESULT_PTR] = sp - 1
         /\ Called(g, site)[CallBase(g, site) + RESULT_COUNT] = Wants[site]
         /\ Called(g, site)[sp - 2] = Var(2)
         /\ Called(g, site)[sp + SiteCell(site)] = sp - 1
         /\ \A a \in MemoryWords : ~(CallBase(g, site) <= a /\ a < sp) /\ a # sp + SiteCell(site)
                                   => Called(g, site)[a] = mem[a]
<1> DEFINE base == CallBase(g, site)
           size == mem[Desc[g] + 1]
           cell == sp + SiteCell(site)
<1>1. size \in Nat /\ size >= HEADER_SIZE
  <2>1. DescribedIn(mem)
    BY DEF Stacked
  <2>2. CASE size = HEADER_SIZE
    BY <2>2 DEF HEADER_SIZE
  <2>3. CASE g \in Functions /\ size = FrameSize(g)
    BY <2>3, MachineAssumption DEF FrameSize, HEADER_SIZE
  <2> QED BY <2>1, <2>2, <2>3 DEF DescribedIn
<1>2. sp \in Int /\ Bottom \in Int
  BY Current
<1>3. base = sp - (size + 2) /\ base \in Int /\ base + size + 2 = sp
  BY <1>1, <1>2 DEF CallBase, ResultWords
<1>4. ArgBase(base, g) = sp - 2 /\ ResultBase(base, g) = sp - 1
  BY <1>1, <1>2, <1>3 DEF ArgBase, ResultBase
<1>5. cell \in (sp + 8)..(sp + 10)
  BY <1>2 DEF SiteCell, HEADER_SIZE, Sites
<1>6. ASSUME NEW a \in Int, a >= base, a < sp PROVE ~Vital(S, a) /\ a \in MemoryWords
  BY <1>2, <1>3, <1>6, OwnWords
<1>7. ~Vital(S, cell)
  BY <1>2, <1>5, OwnWords
<1>8. DOMAIN mem = MemoryWords
  BY DEF Stacked
<1>9. /\ base + CALLER_SP = base /\ base + RET_PC = base + 1 /\ base + ENTRY = base + 2
      /\ base + FRAME_SIZE = base + 3 /\ base + RESULT_PTR = base + 4
      /\ base + RESULT_COUNT = base + 5 /\ base + ARG_COUNT = base + 7
  BY <1>3 DEF CALLER_SP, RET_PC, ENTRY, FRAME_SIZE, RESULT_PTR, RESULT_COUNT, ARG_COUNT
<1>10. Called(g, site) =
         [mem EXCEPT ![base] = sp, ![base + 1] = Code(pc.fn, site), ![base + 2] = mem[Desc[g]],
                     ![base + 3] = size, ![base + 7] = 1, ![base + 5] = Wants[site],
                     ![base + 4] = sp - 1, ![sp - 2] = Var(2), ![cell] = sp - 1]
  BY <1>4, <1>9, Zenon DEF Called
<1>11. /\ base < sp - 9 /\ base + 1 < sp - 8 /\ base + 2 < sp - 7 /\ base + 3 < sp - 6
       /\ base + 4 < sp - 5 /\ base + 5 < sp - 4 /\ base + 7 < sp - 2 /\ cell > sp + 7
  BY <1>1, <1>2, <1>3, <1>5 DEF HEADER_SIZE
<1> DEFINE m == Called(g, site)
<1> HIDE DEF base, size, cell
<1>12. DOMAIN m = MemoryWords
  BY <1>8, <1>10
<1>13. ASSUME NEW a \in MemoryWords, Vital(S, a) PROVE m[a] = mem[a]
  <2>1. a # base /\ a # base + 1 /\ a # base + 2 /\ a # base + 3
    BY <1>2, <1>3, <1>6, <1>11, <1>13
  <2>2. a # base + 4 /\ a # base + 5 /\ a # base + 7 /\ a # sp - 2 /\ a # cell
    BY <1>2, <1>3, <1>6, <1>7, <1>11, <1>13
  <2> QED BY <1>8, <1>10, <2>1, <2>2
<1>14. /\ base \in MemoryWords /\ base + 1 \in MemoryWords /\ base + 2 \in MemoryWords
       /\ base + 3 \in MemoryWords /\ base + 4 \in MemoryWords /\ base + 5 \in MemoryWords
       /\ sp - 2 \in MemoryWords /\ cell \in MemoryWords
  <2>1. cell \in MemoryWords
    BY <1>2, <1>5, OwnWords
  <2>2. sp - 2 \in MemoryWords
    BY <1>2, <1>3, <1>6, <1>11
  <2> QED BY <1>2, <1>3, <1>6, <1>11, <2>1, <2>2
<1>15. m[base] = sp /\ m[base + 1] = Code(pc.fn, site)
  BY <1>2, <1>3, <1>5, <1>8, <1>10, <1>11, <1>14
<1>16. m[base + 2] = mem[Desc[g]] /\ m[base + 4] = sp - 1
  BY <1>2, <1>3, <1>5, <1>8, <1>10, <1>11, <1>14
<1>17. m[base + 3] = size /\ m[base + 5] = Wants[site]
  BY <1>2, <1>3, <1>5, <1>8, <1>10, <1>11, <1>14
<1>18. m[sp - 2] = Var(2) /\ m[cell] = sp - 1
  BY <1>2, <1>3, <1>5, <1>8, <1>10, <1>11, <1>14
<1>19. ASSUME NEW a \in MemoryWords, ~(base <= a /\ a < sp), a # cell PROVE m[a] = mem[a]
  <2>1. a # base /\ a # base + 1 /\ a # base + 2 /\ a # base + 3
    BY <1>2, <1>3, <1>11, <1>19
  <2>2. a # base + 4 /\ a # base + 5 /\ a # base + 7 /\ a # sp - 2
    BY <1>2, <1>3, <1>11, <1>19
  <2> QED BY <1>8, <1>10, <1>19, <2>1, <2>2
<1> QED BY <1>1, <1>3, <1>4, <1>9, <1>12, <1>13, <1>15, <1>16, <1>17, <1>18, <1>19 DEF base, size, cell

-----------------------------------------------------------------------------
(***************************************************************************)
(* Steps that leave the frames as they are.                                *)
(***************************************************************************)
Keeps(S, m) == DOMAIN m = MemoryWords /\ \A a \in MemoryWords : Vital(S, a) => m[a] = mem[a]

\* A further write to a word that is not vital.
LEMMA WriteKeeps ==
  ASSUME NEW S, NEW m, Keeps(S, m), NEW a, ~Vital(S, a), NEW v
  PROVE  Keeps(S, [m EXCEPT ![a] = v])
<1> DEFINE w == [m EXCEPT ![a] = v]
<1>1. DOMAIN w = MemoryWords
  BY DEF Keeps
<1>2. ASSUME NEW b \in MemoryWords, Vital(S, b) PROVE w[b] = mem[b]
  <2>1. b # a
    BY <1>2
  <2> QED BY <1>2, <2>1 DEF Keeps
<1> QED BY <1>1, <1>2 DEF Keeps

\* The memory as it is.
LEMMA NothingWritten == ASSUME NEW S, Stacked(S) PROVE Keeps(S, mem)
BY DEF Keeps, Stacked

\* A call sequence writes no vital word.
LEMMA CalledKeeps ==
  ASSUME NEW S, Stacked(S), NEW g \in Callables, NEW site \in Sites, CallBase(g, site) >= Bottom
  PROVE  Keeps(S, Called(g, site))
BY CalledWords DEF Keeps

\* The result of a call goes to the word below the caller's frame.
LEMMA ResultWord ==
  ASSUME NEW S, Stacked(S), NEW g \in Callables, NEW site \in Sites, CallBase(g, site) >= Bottom
  PROVE  sp \in Int /\ Bottom \in Int /\ Bottom <= sp - 1 /\ ~Vital(S, sp - 1)
<1>1. /\ CallBase(g, site) \in Int /\ mem[Desc[g] + 1] \in Nat
      /\ CallBase(g, site) + mem[Desc[g] + 1] + 2 = sp /\ sp \in Int /\ Bottom \in Int
  BY CalledWords, Current
<1>2. sp - 1 \in Int /\ Bottom <= sp - 1 /\ sp - 1 < sp
  BY <1>1
<1> QED BY <1>1, <1>2, OwnWords

\* A step that keeps the vital words and the frames, and does not finish.
LEMMA FramesStay ==
  ASSUME NEW S, Stacked(S), Keeps(S, mem'), UNCHANGED <<sp, host>>, ~Finished',
         work' \in Nat, work <= work', work' <= MaxWork, JumpsLive(S)'
  PROVE  Stacked(S)'
<1>1. Placed(S) /\ LinkedIn(mem, S) /\ DescribedIn(mem) /\ Positioned(S) /\ Counted(S) /\ ~Finished
  BY DEF Stacked
<1>2. LinkedIn(mem', S) /\ DescribedIn(mem') /\ DOMAIN mem' = MemoryWords
  BY <1>1, LinksKept DEF Keeps
<1>3. Positioned(S)'
  BY <1>1 DEF Positioned, Runs
<1>4. Counted(S)'
  <2>1. \A r \in 1..Len(S) : Len(S[r]) \in Nat
    BY <1>1, PlaceOf DEF Placed
  <2> QED BY <1>1, <2>1, Layout DEF Counted
<1>5. (~Finished)'
  OBVIOUS
<1>6. LinkedIn(mem, S)' /\ DescribedIn(mem)' /\ Placed(S)'
  BY <1>1, <1>2 DEF LinkedIn, DescribedIn, FrameLinked
<1> QED BY <1>2, <1>3, <1>4, <1>5, <1>6 DEF Stacked

\* The same, where halted stays too.
LEMMA SameFrames ==
  ASSUME NEW S, Stacked(S), Keeps(S, mem'), UNCHANGED <<sp, halted, host>>,
         work' \in Nat, work <= work', work' <= MaxWork, JumpsLive(S)'
  PROVE  Stacked(S)'
<1>1. ~Finished'
  BY DEF Stacked, Finished
<1> QED BY <1>1, FramesStay

\* Frames and jump buffers that stay.
LEMMA SameJumps ==
  ASSUME NEW S, Stacked(S), UNCHANGED <<halted, jmps>>
  PROVE  JumpsLive(S)'
BY DEF Stacked, JumpsLive, JumpAt

\* The prologue writes a variable.
LEMMA EnterKeeps == ASSUME NEW S, Stacked(S), Enter PROVE Stacked(S)'
<1>1. sp + VarCell(1) \in Int /\ sp + 5 <= sp + VarCell(1) /\ sp + VarCell(1) < sp + 15
  BY Current DEF VarCell, HEADER_SIZE
<1>2. Keeps(S, mem')
  BY <1>1, OwnWords, NothingWritten, WriteKeeps DEF Enter
<1>3. work' \in Nat /\ work <= work' /\ work' <= MaxWork
  BY Layout DEF Enter, Stacked, Counted
<1> QED BY <1>2, <1>3, SameFrames, SameJumps DEF Enter

\* A continuation writes a variable.
LEMMA ResumeKeeps == ASSUME NEW S, Stacked(S), Resume PROVE Stacked(S)'
<1>1. sp + VarCell(1) \in Int /\ sp + 5 <= sp + VarCell(1) /\ sp + VarCell(1) < sp + 15
  BY Current DEF VarCell, HEADER_SIZE
<1>2. Keeps(S, mem')
  BY <1>1, OwnWords, NothingWritten, WriteKeeps DEF Resume
<1>3. work' \in Nat /\ work <= work' /\ work' <= MaxWork
  BY Layout DEF Resume, Stacked, Counted
<1> QED BY <1>2, <1>3, SameFrames, SameJumps DEF Resume

\* An assignment writes a variable.
LEMMA AssignKeeps == ASSUME NEW S, Stacked(S), NEW i \in 1..2, NEW v, Assign(i, v) PROVE Stacked(S)'
<1>1. sp + VarCell(i) \in Int /\ sp + 5 <= sp + VarCell(i) /\ sp + VarCell(i) < sp + 15
  <2>1. VarCell(i) \in {11, 12}
    BY DEF VarCell, HEADER_SIZE
  <2>2. sp \in Int
    BY Current
  <2> QED BY <2>1, <2>2
<1>2. Keeps(S, mem')
  BY <1>1, OwnWords, NothingWritten, WriteKeeps DEF Assign
<1>3. work' \in Nat /\ work <= work' /\ work' <= MaxWork
  BY Layout DEF Assign, Stacked, Counted
<1> QED BY <1>2, <1>3, SameFrames, SameJumps DEF Assign

\* The service's result goes into the area that the call sequence has laid.
LEMMA ServiceKeeps ==
  ASSUME NEW S, Stacked(S), NEW g \in Functions \cup Services, NEW site \in {"value", "discard"},
         NEW v, CallService(g, site, v)
  PROVE  Stacked(S)'
<1>1. g \in Callables /\ site \in Sites /\ CallBase(g, site) >= Bottom
  BY DEF CallService, MayCall, Callables, Sites
<1>2. Keeps(S, Called(g, site)) /\ Called(g, site)[CallBase(g, site) + RESULT_PTR] = sp - 1
  BY <1>1, CalledKeeps, CalledWords
<1>3. ~Vital(S, sp - 1)
  BY <1>1, ResultWord
<1>4. Keeps(S, mem')
  BY <1>2, <1>3, WriteKeeps DEF CallService
<1>5. work' \in Nat /\ work <= work' /\ work' <= MaxWork
  BY Layout DEF CallService, MayCall, Stacked, Counted
<1> QED BY <1>4, <1>5, SameFrames, SameJumps DEF CallService

\* setjmp remembers the frame it is called from and where its result goes.
LEMMA SetjmpKeeps ==
  ASSUME NEW S, Stacked(S), NEW g \in Services, NEW env \in JmpBufs, Setjmp(g, env)
  PROVE  Stacked(S)'
<1>1. g \in Callables /\ "setjmp" \in Sites /\ CallBase(g, "setjmp") >= Bottom /\ ~halted
  BY DEF Setjmp, MayCall, InBody, Callables, Sites
<1>2. /\ Keeps(S, Called(g, "setjmp"))
      /\ Called(g, "setjmp")[CallBase(g, "setjmp") + RESULT_PTR] = sp - 1
  BY <1>1, CalledKeeps, CalledWords
<1>3. sp \in Int /\ Bottom \in Int /\ Bottom <= sp - 1 /\ ~Vital(S, sp - 1)
  BY <1>1, ResultWord
<1>4. Keeps(S, mem')
  BY <1>2, <1>3, WriteKeeps DEF Setjmp
<1>5. work' \in Nat /\ work <= work' /\ work' <= MaxWork
  BY Layout DEF Setjmp, MayCall, Stacked, Counted
<1>6. JumpsLive(S)'
  <2>1. JumpsLive(S)
    BY DEF Stacked
  <2>2. jmps' = [jmps EXCEPT ![env] = [sp |-> sp, pc |-> Code(pc.fn, "setjmp"), result |-> sp - 1]]
    BY <1>2 DEF Setjmp
  <2>3. halted' = halted
    BY DEF Setjmp
  <2>4. ASSUME NEW e \in JmpBufs, jmps'[e] # NoJmp
        PROVE  \E r \in 1..Len(S) : \E i \in 1..Len(S[r]) : JumpAt(S, jmps[e], r, i)'
    <3>1. CASE e = env
      <4>1. /\ Len(S) \in 1..Len(S) /\ Len(S[Len(S)]) \in 1..Len(S[Len(S)])
            /\ sp = S[Len(S)][Len(S[Len(S)])] /\ Bottom = StackTops[Len(S)] - StackWords
        <5>1. Len(S) \in Nat \ {0}
          BY Layout, Current
        <5> QED BY <5>1, Current DEF Stack
      <4>2. jmps'[e].sp = sp /\ jmps'[e].result = sp - 1
        BY <2>1, <2>2, <3>1 DEF JumpsLive
      <4>3. JumpAt(S, jmps[e], Len(S), Len(S[Len(S)]))'
        BY <1>1, <1>3, <2>3, <4>1, <4>2 DEF JumpAt
      <4> QED BY <4>1, <4>3
    <3>2. CASE e # env
      BY <2>1, <2>2, <2>3, <2>4, <3>2 DEF JumpsLive, JumpAt
    <3> QED BY <3>1, <3>2
  <2>5. DOMAIN jmps' = JmpBufs
    BY <2>1, <2>2 DEF JumpsLive
  <2> QED BY <2>4, <2>5 DEF JumpsLive
<1> QED BY <1>4, <1>5, <1>6, SameFrames DEF Setjmp

-----------------------------------------------------------------------------
(***************************************************************************)
(* Steps that drop frames.                                                 *)
(***************************************************************************)

\* Behind its header the extent of a frame is no other frame's header.
LEMMA ExtentWords ==
  ASSUME NEW S, Placed(S), NEW r \in 1..Len(S), NEW i \in 1..Len(S[r]), NEW a \in Int,
         S[r][i] + 5 <= a, a < EndOf(S, r, i)
  PROVE  ~Vital(S, a)
<1>1. /\ r \in 1..Len(StackTops) /\ Len(S[r]) \in Nat /\ S[r][i] \in Int
      /\ S[r][i] >= StackTops[r] - StackWords
      /\ EndOf(S, r, i) \in Int /\ EndOf(S, r, i) <= StackTops[r]
  BY PlaceOf
<1>2. a \in StackWordsOf(r)
  <2>1. StackTops[r] \in Nat /\ StackWords \in Nat
    BY <1>1, StackAt
  <2>2. StackTops[r] - StackWords <= S[r][i] /\ S[r][i] <= a
    BY <1>1, <2>1
  <2> QED BY <1>1, <2>2, Between
<1>3. ASSUME NEW j \in 1..Len(S[r]) PROVE a < S[r][j] \/ a > S[r][j] + 4
  <2>1. S[r][j] \in Int /\ WordsOf(S, r, j) \in {10, 15}
    BY PlaceOf
  <2>2. CASE j = i
    BY <1>1, <2>2
  <2>3. CASE j > i
    <3>1. i \in 1..(j - 1)
      BY <1>1, <2>3
    <3>2. S[r][j] + WordsOf(S, r, j) <= S[r][i]
      BY <3>1, PlaceOf
    <3>3. S[r][j] + 10 <= S[r][i]
      <4>1. ASSUME NEW x \in Int, NEW y \in Int, NEW w \in {10, 15}, x + w <= y PROVE x + 10 <= y
        BY <4>1
      <4> QED BY <1>1, <2>1, <3>2, <4>1
    <3>4. ASSUME NEW x \in Int, NEW y \in Int, x + 10 <= y, y + 5 <= a PROVE a > x + 4
      BY <3>4
    <3> QED BY <1>1, <2>1, <3>3, <3>4
  <2>4. CASE j < i
    <3>1. i # 1 /\ EndOf(S, r, i) = S[r][i - 1] /\ i - 1 \in 1..Len(S[r])
      BY <1>1, <2>4 DEF EndOf
    <3>2. EndOf(S, r, i) <= S[r][j]
      <4>1. CASE j = i - 1
        BY <1>1, <3>1, <4>1
      <4>2. CASE j # i - 1
        <5>1. j \in 1..((i - 1) - 1)
          BY <1>1, <2>4, <4>2
        <5>2. /\ S[r][i - 1] + WordsOf(S, r, i - 1) <= S[r][j] /\ S[r][i - 1] \in Int
              /\ WordsOf(S, r, i - 1) \in {10, 15}
          BY <3>1, <5>1, PlaceOf
        <5> QED BY <2>1, <3>1, <5>2
      <4> QED BY <4>1, <4>2
    <3> QED BY <1>1, <2>1, <3>2
  <2> QED BY <1>1, <2>2, <2>3, <2>4
<1> QED BY <1>1, <1>2, <1>3, NotVital

\* T has the first R runs of S, and the first k frames of run R.
CutTo(S, R, k, T) ==
  /\ Placed(T) /\ Len(T) = R
  /\ \A r \in 1..(R - 1) : T[r] = S[r]
  /\ Len(T[R]) = k /\ \A i \in 1..k : T[R][i] = S[R][i]
  /\ \A m : LinkedIn(m, S) => LinkedIn(m, T)
  /\ \A a : Vital(T, a) => Vital(S, a)

\* Every run but the innermost may only lose its last frame, the host service's.
LEMMA Cut ==
  ASSUME NEW S, Placed(S), NEW R \in 1..Len(S), NEW k \in 1..Len(S[R]),
         R < Len(S) => k < Len(S[R])
  PROVE  \E T : CutTo(S, R, k, T)
<1> DEFINE T == [r \in 1..R |-> IF r < R THEN S[r] ELSE [i \in 1..k |-> S[R][i]]]
<1>1. /\ R \in 1..Len(StackTops) /\ Len(S) \in Nat /\ Len(S[R]) \in Nat
      /\ S \in Seq(Seq(Int)) /\ Len(S) \in 1..Len(StackTops) /\ Len(StackTops) \in Nat
  BY PlaceOf, Layout DEF Placed
<1>2. T \in Seq(Seq(Int)) /\ Len(T) = R
  <2>1. [i \in 1..k |-> S[R][i]] \in Seq(Int)
    <3>1. S[R] \in Seq(Int)
      BY <1>1
    <3> QED BY <1>1, <3>1
  <2>2. \A r \in 1..R : T[r] \in Seq(Int)
    BY <1>1, <2>1
  <2> QED BY <1>1, <2>2
<1>3. \A r \in 1..(R - 1) : T[r] = S[r]
  BY <1>1
<1>4. T[R] = [i \in 1..k |-> S[R][i]]
  BY <1>1
<1>5. Len(T[R]) = k /\ \A i \in 1..k : T[R][i] = S[R][i]
  BY <1>1, <1>4
<1> HIDE DEF T
<1>6. ASSUME NEW r \in 1..R, NEW i \in 1..Len(T[r])
      PROVE  /\ r \in 1..Len(S) /\ i \in 1..Len(S[r]) /\ \A j \in 1..i : T[r][j] = S[r][j]
             /\ WordsOf(T, r, i) = WordsOf(S, r, i) /\ EndOf(T, r, i) = EndOf(S, r, i)
             /\ CallerOf(T, r, i) = CallerOf(S, r, i) /\ i \in Nat \ {0}
  <2>1. CASE r < R
    <3>1. r \in 1..(R - 1) /\ r \in 1..Len(S)
      BY <1>1, <2>1
    <3>2. T[r] = S[r] /\ Len(S[r]) \in Nat
      <4>1. S[r] \in Seq(Int)
        BY <1>1, <3>1
      <4>2. T[r] = S[r]
        BY <1>3, <3>1
      <4> QED BY <4>1, <4>2
    <3>3. IsHostFrame(T, r, i) <=> IsHostFrame(S, r, i)
      <4>1. r < Len(T) /\ r < Len(S) /\ Len(T[r]) = Len(S[r])
        BY <1>1, <1>2, <2>1, <3>2
      <4> QED BY <4>1 DEF IsHostFrame
    <3>4. WordsOf(T, r, i) = WordsOf(S, r, i)
      BY <3>3 DEF WordsOf
    <3>5. EndOf(T, r, i) = EndOf(S, r, i) /\ CallerOf(T, r, i) = CallerOf(S, r, i)
      BY <3>2 DEF EndOf, CallerOf
    <3>6. i \in 1..Len(S[r]) /\ i \in Nat \ {0} /\ \A j \in 1..i : T[r][j] = S[r][j]
      BY <3>2
    <3> QED BY <3>1, <3>4, <3>5, <3>6
  <2>2. CASE r = R
    <3>1. i \in 1..k /\ \A j \in 1..i : T[R][j] = S[R][j]
      BY <1>5, <2>2
    <3>2. ~IsHostFrame(T, r, i) /\ ~IsHostFrame(S, r, i)
      BY <1>1, <1>2, <2>2, <3>1 DEF IsHostFrame
    <3>3. 1 \in 1..i /\ (i # 1 => i - 1 \in 1..i)
      BY <3>1
    <3>4. WordsOf(T, r, i) = WordsOf(S, r, i)
      BY <3>2 DEF WordsOf
    <3>5. EndOf(T, r, i) = EndOf(S, r, i)
      BY <2>2, <3>1, <3>3 DEF EndOf
    <3>6. CallerOf(T, r, i) = CallerOf(S, r, i)
      BY <2>2, <3>1, <3>3 DEF CallerOf
    <3> QED BY <1>1, <2>2, <3>1, <3>4, <3>5, <3>6
  <2> QED BY <1>1, <2>1, <2>2
<1>7. Placed(T)
  <2>1. ASSUME NEW r \in 1..Len(T) PROVE Len(T[r]) >= 1 /\ (r < Len(T) => Len(T[r]) > 1)
    <3>1. CASE r < R
      <4>1. r \in 1..(R - 1) /\ r \in 1..Len(S) /\ r < Len(S)
        BY <1>1, <1>2, <3>1
      <4> QED BY <1>3, <4>1 DEF Placed
    <3>2. CASE r = R
      BY <1>2, <1>5, <3>2
    <3> QED BY <1>1, <1>2, <3>1, <3>2
  <2>2. ASSUME NEW r \in 1..Len(T), NEW i \in 1..Len(T[r]) PROVE FrameAt(T, r, i)
    <3>1. /\ r \in 1..Len(S) /\ i \in 1..Len(S[r]) /\ \A j \in 1..i : T[r][j] = S[r][j]
          /\ WordsOf(T, r, i) = WordsOf(S, r, i) /\ i \in Nat \ {0}
      BY <1>2, <1>6
    <3>2. FrameAt(S, r, i)
      BY <3>1 DEF Placed
    <3>3. i \in 1..i /\ \A j \in 1..(i - 1) : j \in 1..i
      BY <3>1
    <3> QED BY <3>1, <3>2, <3>3 DEF FrameAt
  <2> QED BY <1>1, <1>2, <2>1, <2>2 DEF Placed
<1>8. ASSUME NEW m, LinkedIn(m, S) PROVE LinkedIn(m, T)
  <2> SUFFICES ASSUME NEW r \in 1..Len(T), NEW i \in 1..Len(T[r]) PROVE FrameLinked(m, T, r, i)
    BY DEF LinkedIn
  <2>1. /\ r \in 1..Len(S) /\ i \in 1..Len(S[r]) /\ T[r][i] = S[r][i]
        /\ EndOf(T, r, i) = EndOf(S, r, i) /\ CallerOf(T, r, i) = CallerOf(S, r, i)
    BY <1>2, <1>6
  <2>2. FrameLinked(m, S, r, i)
    BY <1>8, <2>1 DEF LinkedIn
  <2> QED BY <2>1, <2>2 DEF FrameLinked
<1>9. ASSUME NEW a, Vital(T, a) PROVE Vital(S, a)
  <2>1. ASSUME NEW r \in 1..Len(T), NEW i \in 1..Len(T[r]), a - T[r][i] \in Links PROVE Vital(S, a)
    <3>1. r \in 1..Len(S) /\ i \in 1..Len(S[r]) /\ T[r][i] = S[r][i]
      BY <1>2, <1>6
    <3> QED BY <2>1, <3>1 DEF Vital
  <2> QED BY <1>9, <2>1 DEF Vital
<1> QED BY <1>2, <1>3, <1>5, <1>7, <1>8, <1>9 DEF CutTo

\* No jump buffer stays in use that is new or, where R is the innermost run, in
\* the frames behind its frame k.
JumpsForgotten(S, R, k) ==
  /\ DOMAIN jmps' = JmpBufs
  /\ \A e \in JmpBufs : jmps'[e] # NoJmp =>
       /\ jmps'[e] = jmps[e]
       /\ R = Len(S) => \A i \in (k + 1)..Len(S[R]) : jmps[e].sp # S[R][i]

\* The jump buffers in use are in the frames that remain, if the others are forgotten.
LEMMA JumpsCut ==
  ASSUME NEW S, Stacked(S), NEW R \in 1..Len(S), NEW k \in 1..Len(S[R]), NEW T, CutTo(S, R, k, T),
         R < Len(S) => halted /\ R = Len(S) - 1 /\ k = Len(S[R]) - 1,
         ~halted', JumpsForgotten(S, R, k)
  PROVE  JumpsLive(T)'
<1>1. Placed(S) /\ JumpsLive(S)
  BY DEF Stacked
<1>2. Len(S) \in Nat /\ Len(S[R]) \in Nat
  BY <1>1, PlaceOf
<1>3. ASSUME NEW e \in JmpBufs, jmps'[e] # NoJmp
      PROVE  \E r \in 1..Len(T) : \E i \in 1..Len(T[r]) : JumpAt(T, jmps[e], r, i)'
  <2>1. jmps'[e] = jmps[e] /\ jmps[e] # NoJmp
    BY <1>3 DEF JumpsForgotten
  <2>2. PICK r \in 1..Len(S) : \E i \in 1..Len(S[r]) : JumpAt(S, jmps[e], r, i)
    BY <1>1, <2>1 DEF JumpsLive
  <2>3. PICK i \in 1..Len(S[r]) : JumpAt(S, jmps[e], r, i)
    BY <2>2
  <2>4. /\ jmps[e].sp = S[r][i] /\ jmps[e].result = S[r][i] - 1
        /\ S[r][i] > StackTops[r] - StackWords
        /\ (r < Len(S) => i < Len(S[r])) /\ (r = Len(S) => ~halted)
    BY <2>3 DEF JumpAt
  <2>5. r \in 1..R
    <3>1. r \in Nat /\ 1 <= r /\ r <= Len(S)
      BY <1>2
    <3>2. CASE R < Len(S)
      <4>1. r # Len(S) /\ R = Len(S) - 1
        BY <2>4, <3>2
      <4> QED BY <1>2, <3>1, <4>1
    <3>3. CASE R = Len(S)
      BY <3>1, <3>3
    <3> QED BY <1>2, <3>2, <3>3
  <2>6. CASE r < R
    <3>1. r \in 1..(R - 1) /\ Len(T) = R
      BY <1>2, <2>6 DEF CutTo
    <3>2. T[r] = S[r]
      BY <3>1 DEF CutTo
    <3>3. r \in 1..Len(T) /\ i \in 1..Len(T[r]) /\ r < Len(T) /\ i < Len(T[r])
      BY <1>2, <2>4, <2>6, <3>1, <3>2
    <3>4. JumpAt(T, jmps[e], r, i)'
      BY <1>2, <2>1, <2>4, <3>2, <3>3 DEF JumpAt
    <3> QED BY <3>3, <3>4
  <2>7. CASE r = R
    <3>1. i \in 1..k
      <4>1. CASE R < Len(S)
        BY <1>2, <2>4, <2>7, <4>1
      <4>2. CASE R = Len(S)
        BY <1>2, <1>3, <2>4, <2>7 DEF JumpsForgotten
      <4> QED BY <1>2, <4>1, <4>2
    <3>2. Len(T) = R /\ Len(T[R]) = k /\ T[R][i] = S[R][i]
      BY <3>1 DEF CutTo
    <3>3. r \in 1..Len(T) /\ i \in 1..Len(T[r]) /\ ~(r < Len(T)) /\ T[r][i] = S[r][i]
      BY <1>2, <2>7, <3>1, <3>2
    <3>4. JumpAt(T, jmps[e], r, i)'
      BY <2>1, <2>4, <3>3 DEF JumpAt
    <3> QED BY <3>3, <3>4
  <2> QED BY <1>2, <2>5, <2>6, <2>7
<1> QED BY <1>3 DEF JumpsLive, JumpAt, NoJmp, JumpsForgotten

\* After a step that drops frames, what remains is laid out as before.
LEMMA CutStacked ==
  ASSUME NEW S, Stacked(S), NEW R \in 1..Len(S), NEW k \in 1..Len(S[R]), NEW T, CutTo(S, R, k, T),
         Keeps(T, mem'), sp' = S[R][k], host' \in Seq([sp : Int, result : Int]), Len(host') = R - 1,
         \A r \in 1..(R - 1) : host'[r] = host[r],
         work' \in Nat, work <= work', work' <= MaxWork, ~halted', JumpsLive(T)'
  PROVE  Stacked(T)'
<1>1. Placed(S) /\ LinkedIn(mem, S) /\ DescribedIn(mem) /\ Positioned(S) /\ Counted(S)
  BY DEF Stacked
<1>2. /\ Placed(T) /\ Len(T) = R /\ (\A r \in 1..(R - 1) : T[r] = S[r])
      /\ Len(T[R]) = k /\ (\A i \in 1..k : T[R][i] = S[R][i]) /\ LinkedIn(mem, T)
  BY <1>1 DEF CutTo
<1>3. Len(S) \in Nat /\ R \in Nat /\ k \in Nat /\ Len(S[R]) \in Nat /\ Len(host) = Len(S) - 1
  BY <1>1, PlaceOf DEF Positioned, Runs
<1>4. LinkedIn(mem', T) /\ DescribedIn(mem') /\ DOMAIN mem' = MemoryWords
  BY <1>1, <1>2, LinksKept DEF Keeps
<1>5. Positioned(T)'
  <2>1. Len(T) = Len(host') + 1 /\ sp' = T[Len(T)][Len(T[Len(T)])]
    BY <1>2, <1>3
  <2>2. ASSUME NEW r \in 1..Len(host') PROVE host'[r].sp = T[r][Len(T[r])]
    <3>1. r \in 1..(R - 1) /\ r \in 1..Len(host)
      BY <1>3
    <3> QED BY <1>1, <1>2, <3>1 DEF Positioned
  <2> QED BY <2>1, <2>2 DEF Positioned, Runs
<1>6. Counted(T)'
  <2>1. ASSUME NEW r \in 1..Len(T) PROVE Len(T[r]) <= work' + 1
    <3>1. r \in 1..Len(S) /\ Len(S[r]) <= work + 1 /\ Len(S[r]) \in Nat /\ work \in Nat
      BY <1>1, <1>2, <1>3, PlaceOf, Layout DEF Counted
    <3>2. Len(T[r]) <= Len(S[r]) /\ Len(T[r]) \in Nat
      <4>1. CASE r = R
        BY <1>2, <1>3, <4>1
      <4>2. CASE r # R
        <5>1. r \in 1..(R - 1)
          BY <1>2, <1>3, <4>2
        <5>2. T[r] = S[r]
          BY <1>2, <5>1
        <5> QED BY <3>1, <5>2
      <4> QED BY <4>1, <4>2
    <3>3. ASSUME NEW x \in Nat, NEW y \in Nat, NEW z \in Nat, NEW w \in Nat,
                 x <= y, y <= z + 1, z <= w
          PROVE  x <= w + 1
      BY <3>3
    <3> QED BY <3>1, <3>2, <3>3
  <2> QED BY <2>1, Layout DEF Counted
<1>7. (~Finished)'
  BY DEF Finished
<1>8. LinkedIn(mem, T)' /\ DescribedIn(mem)' /\ Placed(T)'
  BY <1>2, <1>4 DEF LinkedIn, DescribedIn, FrameLinked
<1> QED BY <1>4, <1>5, <1>6, <1>7, <1>8 DEF Stacked


\* A word of a frame's extent is a word of the memory.
LEMMA InExtent ==
  ASSUME NEW S, Placed(S), NEW r \in 1..Len(S), NEW i \in 1..Len(S[r]), NEW a \in Int,
         S[r][i] <= a, a < EndOf(S, r, i)
  PROVE  a \in MemoryWords
<1>1. /\ r \in 1..Len(StackTops) /\ S[r][i] \in Int /\ S[r][i] >= StackTops[r] - StackWords
      /\ EndOf(S, r, i) \in Int /\ EndOf(S, r, i) <= StackTops[r]
  BY PlaceOf
<1>2. StackTops[r] \in Nat /\ StackWords \in Nat
  BY <1>1, StackAt
<1>3. StackTops[r] - StackWords <= S[r][i]
  BY <1>1, <1>2
<1> QED BY <1>1, <1>3, Between

\* A return to the frame above.
LEMMA ReturnToCaller ==
  ASSUME NEW S, Stacked(S), NEW i \in 1..2, Return(i), Len(S[Len(S)]) > 1
  PROVE  /\ sp' = S[Len(S)][Len(S[Len(S)]) - 1] /\ pc' = mem[sp + RET_PC]
         /\ ~halted' /\ jmps' = Forget({sp}) /\ host' = host
         /\ mem' = [[mem EXCEPT ![sp' + RESUME_PC] = mem[sp + RET_PC]] EXCEPT ![sp' - 1] = Var(i)]
         /\ Keeps(S, mem') /\ \E T : Stacked(T)' /\ CutTo(S, Len(S), Len(S[Len(S)]) - 1, T)
<1> DEFINE R == Len(S)
           n == Len(S[R])
           caller == S[R][n - 1]
           resumed == [mem EXCEPT ![caller + RESUME_PC] = mem[sp + RET_PC]]
<1>1. /\ R \in 1..Len(StackTops) /\ n \in 1..n /\ sp = S[R][n] /\ sp \in Int
      /\ \A j \in 1..(n - 1) : S[R][j] \in Int /\ sp + 15 <= S[R][j]
  BY Current
<1>2. /\ Placed(S) /\ LinkedIn(mem, S) /\ DOMAIN mem = MemoryWords
      /\ Positioned(S) /\ Counted(S) /\ JumpsLive(S)
  BY DEF Stacked
<1>3. R \in 1..R /\ R \in 1..Len(S) /\ n - 1 \in 1..n /\ n - 1 \in 1..(n - 1)
  BY <1>1, Layout
<1>4. caller \in Int /\ sp + 15 <= caller
  BY <1>1, <1>3
<1>5. /\ mem[sp + CALLER_SP] = caller /\ mem[sp + RESULT_PTR] = caller - 1
      /\ mem[sp + RET_PC] # HaltCode
  <2>1. FrameLinked(mem, S, R, n)
    BY <1>1, <1>2, <1>3 DEF LinkedIn
  <2> QED BY <1>1, <2>1 DEF FrameLinked, CallerOf, EndOf
<1>6. ~Vital(S, caller + RESUME_PC) /\ caller + RESUME_PC \in MemoryWords
  <2>1. EndOf(S, R, n - 1) \in Int /\ caller + WordsOf(S, R, n - 1) <= EndOf(S, R, n - 1)
        /\ WordsOf(S, R, n - 1) \in {10, 15}
    BY <1>2, <1>3, PlaceOf
  <2>2. caller + 10 <= EndOf(S, R, n - 1)
    BY <1>4, <2>1
  <2>3. /\ caller + RESUME_PC \in Int /\ caller <= caller + RESUME_PC
        /\ caller + 5 <= caller + RESUME_PC /\ caller + RESUME_PC < EndOf(S, R, n - 1)
    BY <1>4, <2>1, <2>2, SMTT(30) DEF RESUME_PC
  <2> QED BY <1>2, <1>3, <2>3, ExtentWords, InExtent
<1>7. ~Vital(S, caller - 1)
  <2>1. EndOf(S, R, n) = caller
    BY <1>1 DEF EndOf
  <2>2. caller - 1 \in Int /\ S[R][n] + 5 <= caller - 1 /\ caller - 1 < EndOf(S, R, n)
    BY <1>1, <1>4, <2>1
  <2> QED BY <1>1, <1>2, <1>3, <2>2, ExtentWords
<1>8. resumed[sp + RESULT_PTR] = caller - 1
  <2>1. sp + RESULT_PTR # caller + RESUME_PC
    <3>1. ASSUME NEW x \in Int, NEW y \in Int, x + 15 <= y PROVE x + 4 # y + 6
      BY <3>1
    <3> QED BY <1>1, <1>4, <3>1 DEF RESULT_PTR, RESUME_PC
  <2>2. sp + RESULT_PTR \in MemoryWords
    <3>1. EndOf(S, R, n) = caller
      BY <1>1 DEF EndOf
    <3>2. sp + RESULT_PTR \in Int /\ S[R][n] <= sp + RESULT_PTR /\ sp + RESULT_PTR < EndOf(S, R, n)
      BY <1>1, <1>4, <3>1 DEF RESULT_PTR
    <3> QED BY <1>1, <1>2, <1>3, <3>2, InExtent
  <2> QED BY <1>2, <1>5, <2>1, <2>2
<1>9. mem' = [resumed EXCEPT ![caller - 1] = Var(i)] /\ sp' = caller
  BY <1>5, <1>8 DEF Return
<1>10. mem'[caller + RESUME_PC] = mem[sp + RET_PC]
  <2>1. caller + RESUME_PC # caller - 1
    BY <1>4 DEF RESUME_PC
  <2> QED BY <1>2, <1>6, <1>9, <2>1
<1>11. ~halted' /\ pc' = mem[sp + RET_PC] /\ jmps' = Forget({sp}) /\ UNCHANGED <<host, work>>
  <2>1. SetCode(mem'[sp' + RESUME_PC]) /\ jmps' = Forget({sp}) /\ UNCHANGED <<host, work>>
    BY DEF Return
  <2>2. mem'[sp' + RESUME_PC] # HaltCode /\ mem'[sp' + RESUME_PC] = mem[sp + RET_PC]
    BY <1>5, <1>9, <1>10
  <2> QED BY <2>1, <2>2 DEF SetCode
<1>0. mem' = [[mem EXCEPT ![sp' + RESUME_PC] = mem[sp + RET_PC]] EXCEPT ![sp' - 1] = Var(i)]
  BY <1>9
<1> HIDE DEF resumed
<1>12. PICK T : CutTo(S, R, n - 1, T)
  BY <1>2, <1>3, Cut
<1>13. Keeps(S, mem') /\ Keeps(T, mem')
  <2>1. Keeps(S, mem)
    BY NothingWritten
  <2>2. Keeps(S, resumed)
    BY <1>6, <2>1, WriteKeeps DEF resumed
  <2>3. Keeps(S, mem')
    BY <1>7, <1>9, <2>2, WriteKeeps
  <2> QED BY <1>12, <2>3 DEF Keeps, CutTo
<1>14. JumpsLive(T)'
  <2>1. ASSUME NEW e \in JmpBufs, jmps'[e] # NoJmp
        PROVE  jmps'[e] = jmps[e] /\ \A j \in ((n - 1) + 1)..n : jmps[e].sp # S[R][j]
    <3>1. jmps'[e] = jmps[e] /\ jmps[e].sp # sp
      BY <1>11, <2>1 DEF Forget
    <3>2. \A j \in ((n - 1) + 1)..n : j = n
      BY <1>1
    <3> QED BY <1>1, <3>1, <3>2
  <2>2. DOMAIN jmps' = JmpBufs
    BY <1>11 DEF Forget
  <2>3. ~(R < Len(S))
    BY <1>3
  <2>4. JumpsForgotten(S, R, n - 1)
    BY <2>1, <2>2 DEF JumpsForgotten
  <2> QED BY <1>3, <1>11, <1>12, <2>3, <2>4, JumpsCut
<1>15. /\ host' \in Seq([sp : Int, result : Int]) /\ Len(host') = R - 1
       /\ \A r \in 1..(R - 1) : host'[r] = host[r]
  BY <1>2, <1>11 DEF Positioned, Runs
<1>16. work' \in Nat /\ work <= work' /\ work' <= MaxWork
  BY <1>2, <1>11, Layout DEF Counted
<1>17. sp' = S[R][n - 1]
  BY <1>9
<1>18. Stacked(T)'
  BY <1>3, <1>11, <1>12, <1>13, <1>14, <1>15, <1>16, <1>17, CutStacked
<1> QED BY <1>0, <1>11, <1>12, <1>13, <1>17, <1>18

\* The return of a run's first frame halts the run; of the outermost, the machine.
LEMMA ReturnHalts ==
  ASSUME NEW S, Stacked(S), NEW i \in 1..2, Return(i), Len(S[Len(S)]) = 1
  PROVE  /\ Len(S) = 1 => Finished'
         /\ Len(S) # 1 =>
              /\ halted' /\ Keeps(S, mem') /\ Stacked(S)'
              /\ sp' = sp /\ pc' = pc /\ host' = host /\ jmps' = Forget({sp}) /\ mem'[Top - 1] = Var(i)
              /\ mem' = [[mem EXCEPT ![sp + RESUME_PC] = HaltCode] EXCEPT ![Top - 1] = Var(i)]
<1> DEFINE R == Len(S)
           caller == CallerOf(S, R, 1)
           resumed == [mem EXCEPT ![caller + RESUME_PC] = HaltCode]
<1>1. /\ R \in 1..Len(StackTops) /\ sp = S[R][1] /\ sp \in Int
      /\ Top = StackTops[R] /\ Top \in Nat /\ sp + 15 <= Top /\ sp >= Bottom /\ Bottom \in Int
      /\ R = Len(host) + 1
  BY Current DEF Runs
<1>2. /\ Placed(S) /\ LinkedIn(mem, S) /\ DOMAIN mem = MemoryWords
      /\ Positioned(S) /\ Counted(S) /\ JumpsLive(S)
  BY DEF Stacked
<1>3. R \in 1..Len(S) /\ 1 \in 1..Len(S[R])
  BY <1>1, Layout
<1>4. mem[sp + CALLER_SP] = caller /\ mem[sp + RESULT_PTR] = Top - 1 /\ mem[sp + RET_PC] = HaltCode
  <2>1. FrameLinked(mem, S, R, 1)
    BY <1>2, <1>3 DEF LinkedIn
  <2> QED BY <1>1, <2>1 DEF FrameLinked, EndOf
<1>5. (R = 1 /\ caller = StackTops[1] /\ caller = Top) \/ (R # 1 /\ caller = sp)
  BY <1>1 DEF CallerOf
<1>6. caller \in Int /\ caller + RESUME_PC \in MemoryWords
  <2>1. CASE caller = sp
    <3>1. sp + RESUME_PC \in Int /\ sp + 5 <= sp + RESUME_PC /\ sp + RESUME_PC < sp + 15
      BY <1>1 DEF RESUME_PC
    <3> QED BY <1>1, <2>1, <3>1, OwnWords
  <2>2. CASE caller = StackTops[1] /\ caller = Top
    <3>1. caller + RESUME_PC \in BootWords
      BY <1>1, <2>2 DEF RESUME_PC, BootWords, HEADER_SIZE
    <3> QED BY <1>1, <2>2, <3>1 DEF MemoryWords
  <2> QED BY <1>5, <2>1, <2>2
<1>7. resumed[sp + RESULT_PTR] = Top - 1
  <2>1. sp + RESULT_PTR # caller + RESUME_PC
    BY <1>1, <1>5 DEF RESULT_PTR, RESUME_PC
  <2> QED BY <1>4, <2>1
<1>8. mem' = [resumed EXCEPT ![Top - 1] = Var(i)] /\ sp' = caller
  BY <1>4, <1>7 DEF Return
<1>9. mem'[caller + RESUME_PC] = HaltCode
  <2>1. caller + RESUME_PC # Top - 1
    BY <1>1, <1>5 DEF RESUME_PC
  <2> QED BY <1>2, <1>6, <1>8, <2>1
<1>10. halted' /\ jmps' = Forget({sp}) /\ UNCHANGED <<pc, host, work>>
  BY <1>8, <1>9 DEF Return, SetCode
<1>0. caller = sp => mem' = [[mem EXCEPT ![sp + RESUME_PC] = HaltCode] EXCEPT ![Top - 1] = Var(i)]
  BY <1>8
<1> HIDE DEF resumed
<1>11. CASE R = 1
  <2>1. host \in Seq([sp : Int, result : Int])
    BY <1>2 DEF Positioned
  <2>2. Len(host) = 0 /\ host' = host
    <3>1. Len(host) \in Nat
      BY <2>1
    <3>2. Len(host) + 1 = 1
      BY <1>1, <1>11
    <3>3. Len(host) = 0
      BY <3>1, <3>2
    <3> QED BY <1>10, <3>3
  <2>3. host = <<>>
    <3> DEFINE HostFrame == [sp : Int, result : Int]
    <3>1. host \in Seq(HostFrame)
      BY <2>1
    <3> HIDE DEF HostFrame
    <3>2. host # <<>> => Len(host) \in Nat \ {0}
      BY <3>1, EmptySeq
    <3> QED BY <2>2, <3>2
  <2> QED BY <1>10, <1>11, <2>2, <2>3 DEF Finished
<1>12. CASE R # 1
  <2>1. sp' = sp
    BY <1>5, <1>8, <1>12
  <2>2. Keeps(S, mem')
    <3>1. ~Vital(S, caller + RESUME_PC)
      <4>1. sp + RESUME_PC \in Int /\ sp + 5 <= sp + RESUME_PC /\ sp + RESUME_PC < sp + 15
        BY <1>1 DEF RESUME_PC
      <4> QED BY <1>5, <1>12, <4>1, OwnWords
    <3>2. ~Vital(S, Top - 1)
      <4>1. EndOf(S, R, 1) = Top
        BY <1>1 DEF EndOf
      <4>2. Top - 1 \in Int /\ S[R][1] + 5 <= Top - 1 /\ Top - 1 < EndOf(S, R, 1)
        BY <1>1, <4>1
      <4> QED BY <1>2, <1>3, <4>2, ExtentWords
    <3>3. Keeps(S, resumed)
      BY <3>1, NothingWritten, WriteKeeps DEF resumed
    <3> QED BY <1>8, <3>2, <3>3, WriteKeeps
  <2>3. JumpsLive(S)'
    <3>1. DOMAIN jmps' = JmpBufs
      BY <1>10 DEF Forget
    <3>2. ASSUME NEW e \in JmpBufs, jmps'[e] # NoJmp
          PROVE  \E r \in 1..Len(S) : \E j \in 1..Len(S[r]) : JumpAt(S, jmps[e], r, j)'
      <4>1. jmps'[e] = jmps[e] /\ jmps[e] # NoJmp /\ jmps[e].sp # sp
        BY <1>10, <3>2 DEF Forget
      <4>2. PICK r \in 1..Len(S) : \E j \in 1..Len(S[r]) : JumpAt(S, jmps[e], r, j)
        BY <1>2, <4>1 DEF JumpsLive
      <4>3. PICK j \in 1..Len(S[r]) : JumpAt(S, jmps[e], r, j)
        BY <4>2
      <4>4. r # R
        <5>1. ASSUME r = R PROVE j = 1
          <6>1. j \in 1..1
            BY <5>1
          <6> QED BY <6>1
        <5> QED BY <1>1, <4>1, <4>3, <5>1 DEF JumpAt
      <4>5. JumpAt(S, jmps[e], r, j)'
        BY <4>1, <4>3, <4>4 DEF JumpAt
      <4> QED BY <4>5
    <3> QED BY <3>1, <3>2 DEF JumpsLive
  <2>4. ~Finished'
    <3>1. Len(host') # 0
      BY <1>1, <1>2, <1>10, <1>12 DEF Positioned
    <3>2. host' # <<>>
      BY <3>1
    <3> QED BY <3>2 DEF Finished
  <2>5. work' \in Nat /\ work <= work' /\ work' <= MaxWork
    BY <1>2, <1>10, Layout DEF Counted
  <2>6. Stacked(S)'
    BY <1>10, <2>1, <2>2, <2>3, <2>4, <2>5, FramesStay
  <2>7. mem'[Top - 1] = Var(i)
    <3>1. Top - 1 \in MemoryWords
      <4>1. EndOf(S, R, 1) = Top
        BY <1>1 DEF EndOf
      <4>2. Top - 1 \in Int /\ S[R][1] <= Top - 1 /\ Top - 1 < EndOf(S, R, 1)
        BY <1>1, <4>1
      <4> QED BY <1>2, <1>3, <4>2, InExtent
    <3>2. DOMAIN resumed = MemoryWords
      BY <1>2 DEF resumed
    <3> QED BY <1>8, <3>1, <3>2
  <2>8. caller = sp
    BY <1>5, <1>12
  <2> QED BY <1>0, <1>10, <1>12, <2>1, <2>2, <2>6, <2>7, <2>8
<1> QED BY <1>11, <1>12

\* longjmp drops the frames below the one that setjmp was called from.
LEMMA LongjmpKeeps ==
  ASSUME NEW S, Stacked(S), NEW g \in Services, NEW env \in JmpBufs, NEW v, Longjmp(g, env, v)
  PROVE  /\ Keeps(S, mem')
         /\ mem' = [Called(g, "discard") EXCEPT ![sp' - 1] = IF v = 0 THEN 1 ELSE v]
         /\ sp' = jmps[env].sp /\ pc' = jmps[env].pc /\ ~halted' /\ host' = host
         /\ \E T, i : /\ Stacked(T)' /\ i \in 1..Len(S[Len(S)]) /\ CutTo(S, Len(S), i, T)
                      /\ jmps[env].sp = S[Len(S)][i] /\ jmps[env].result = S[Len(S)][i] - 1
                      /\ S[Len(S)][i] > Bottom
<1> DEFINE R == Len(S)
           m == Called(g, "discard")
<1>1. /\ R \in 1..Len(StackTops) /\ Top = StackTops[R] /\ Bottom = StackTops[R] - StackWords
      /\ Top \in Nat /\ Bottom \in Int /\ R \in 1..R
  <2>1. R \in Nat \ {0}
    BY Layout, Current
  <2> QED BY <2>1, Current DEF Stack
<1>2. Placed(S) /\ Positioned(S) /\ Counted(S) /\ JumpsLive(S)
  BY DEF Stacked
<1>3. /\ g \in Callables /\ "discard" \in Sites /\ CallBase(g, "discard") >= Bottom /\ ~halted
      /\ work \in Nat /\ work < MaxWork
  BY <1>2, Layout DEF Longjmp, MayCall, InBody, Callables, Sites, Counted
<1>4. PICK r \in 1..Len(S) : \E i \in 1..Len(S[r]) : JumpAt(S, jmps[env], r, i)
  BY <1>2 DEF JumpsLive, Longjmp, MayJump
<1>5. PICK i \in 1..Len(S[r]) : JumpAt(S, jmps[env], r, i)
  BY <1>4
<1>6. jmps[env].sp = S[r][i] /\ jmps[env].result = S[r][i] - 1 /\ S[r][i] > StackTops[r] - StackWords
  BY <1>5 DEF JumpAt
<1>7. r = R
  <2>1. /\ r \in 1..Len(StackTops) /\ S[r][i] \in Int /\ WordsOf(S, r, i) \in {10, 15}
        /\ S[r][i] + WordsOf(S, r, i) <= StackTops[r]
    BY <1>2, PlaceOf
  <2>2. StackTops[r] \in Nat /\ StackWords \in Nat
    BY <2>1, StackAt
  <2>3. S[r][i] >= StackTops[R] - StackWords /\ S[r][i] < StackTops[R]
    BY <1>1, <1>6 DEF Longjmp, MayJump
  <2>4. S[r][i] + 10 <= StackTops[r]
    BY <2>1, <2>2
  <2>5. ~ (StackTops[r] <= StackTops[R] - StackWords \/ StackTops[R] <= StackTops[r] - StackWords)
    <3> DEFINE x == S[r][i]  topr == StackTops[r]  topR == StackTops[R]
    <3>1. x \in Int /\ topr \in Int /\ topR \in Int /\ StackWords \in Int
      BY <1>1, <2>1, <2>2
    <3>2. x > topr - StackWords /\ x + 10 <= topr /\ x >= topR - StackWords /\ x < topR
      BY <1>6, <2>3, <2>4
    <3> HIDE DEF x, topr, topR
    <3>3. ~ (topr <= topR - StackWords \/ topR <= topr - StackWords)
      BY <3>1, <3>2
    <3> QED BY <3>3 DEF topr, topR
  <2> QED BY <1>1, <2>1, <2>5, StacksApart
<1>8. i \in 1..Len(S[R]) /\ S[R][i] \in Int /\ Len(S[R]) \in Nat
  BY <1>2, <1>7, PlaceOf
<1>9. jmps[env].sp = S[R][i] /\ jmps[env].result = S[R][i] - 1 /\ S[R][i] > Bottom
  BY <1>1, <1>6, <1>7
<1>10. /\ mem' = [m EXCEPT ![S[R][i] - 1] = IF v = 0 THEN 1 ELSE v] /\ sp' = S[R][i]
       /\ jmps' = Forget(Bottom .. S[R][i] - 1) /\ work' = work + 1 /\ UNCHANGED <<halted, host>>
  BY <1>9 DEF Longjmp
<1>0. /\ mem' = [Called(g, "discard") EXCEPT ![sp' - 1] = IF v = 0 THEN 1 ELSE v]
      /\ sp' = jmps[env].sp /\ pc' = jmps[env].pc
  BY <1>9, <1>10 DEF Longjmp
<1>11. PICK T : CutTo(S, R, i, T)
  BY <1>1, <1>2, <1>8, Cut, SMTT(30)
<1>12. ~Vital(S, S[R][i] - 1)
  <2>1. CASE i = Len(S[R])
    BY <1>3, <1>8, <2>1, Current, ResultWord
  <2>2. CASE i # Len(S[R])
    <3>1. i + 1 \in 1..Len(S[R]) /\ i + 1 # 1 /\ (i + 1) - 1 = i
      BY <1>8, <2>2
    <3>2. EndOf(S, R, i + 1) = S[R][i]
      BY <3>1 DEF EndOf
    <3>3. /\ S[R][i + 1] \in Int /\ WordsOf(S, R, i + 1) \in {10, 15}
          /\ S[R][i + 1] + WordsOf(S, R, i + 1) <= EndOf(S, R, i + 1)
      BY <1>1, <1>2, <3>1, PlaceOf
    <3>4. ASSUME NEW x \in Int, NEW y \in Int, NEW w \in {10, 15}, x + w <= y
          PROVE  y - 1 \in Int /\ x + 5 <= y - 1 /\ y - 1 < y
      BY <3>4
    <3>5. S[R][i] - 1 \in Int /\ S[R][i + 1] + 5 <= S[R][i] - 1 /\ S[R][i] - 1 < S[R][i]
      BY <1>8, <3>2, <3>3, <3>4
    <3> QED BY <1>1, <1>2, <3>1, <3>2, <3>5, ExtentWords
  <2> QED BY <2>1, <2>2
<1>13. Keeps(S, mem') /\ Keeps(T, mem')
  <2>1. Keeps(S, m)
    BY <1>3, CalledKeeps
  <2> HIDE DEF m
  <2>2. Keeps(S, mem')
    BY <1>10, <1>12, <2>1, WriteKeeps
  <2> QED BY <1>11, <2>2 DEF Keeps, CutTo
<1>14. /\ host' \in Seq([sp : Int, result : Int]) /\ Len(host') = R - 1
       /\ \A q \in 1..(R - 1) : host'[q] = host[q]
  BY <1>2, <1>10 DEF Positioned, Runs
<1>15. work' \in Nat /\ work <= work' /\ work' <= MaxWork /\ ~halted'
  BY <1>3, <1>10, Layout
<1>16. sp' = S[R][i]
  BY <1>10
<1>17. ~(R < Len(S))
  BY <1>1
<1>18. JumpsLive(T)'
  <2>1. ASSUME NEW e \in JmpBufs, jmps'[e] # NoJmp
        PROVE  jmps'[e] = jmps[e] /\ \A j \in (i + 1)..Len(S[R]) : jmps[e].sp # S[R][j]
    <3>1. jmps'[e] = jmps[e] /\ jmps[e].sp \notin Bottom .. S[R][i] - 1
      BY <1>10, <2>1 DEF Forget
    <3>2. ASSUME NEW j \in (i + 1)..Len(S[R]) PROVE S[R][j] \in Bottom .. S[R][i] - 1
      <4>1. j \in 1..Len(S[R]) /\ i \in 1..(j - 1)
        BY <1>8
      <4>2. /\ S[R][j] + WordsOf(S, R, j) <= S[R][i] /\ S[R][j] \in Int /\ WordsOf(S, R, j) \in {10, 15}
            /\ S[R][j] >= StackTops[R] - StackWords
        BY <1>1, <1>2, <4>1, PlaceOf
      <4>3. ASSUME NEW x \in Int, NEW y \in Int, NEW w \in {10, 15}, NEW z \in Int, x + w <= y, x >= z
            PROVE  x \in z .. y - 1
        BY <4>3
      <4> QED BY <1>1, <1>8, <4>2, <4>3
    <3> QED BY <3>1, <3>2
  <2>2. JumpsForgotten(S, R, i)
    BY <1>10, <2>1 DEF JumpsForgotten, Forget
  <2> QED BY <1>1, <1>8, <1>11, <1>15, <1>17, <2>2, JumpsCut
<1>19. Stacked(T)'
  BY <1>1, <1>8, <1>11, <1>13, <1>14, <1>15, <1>16, <1>17, <1>18, CutStacked
<1> QED BY <1>0, <1>3, <1>8, <1>9, <1>10, <1>11, <1>13, <1>19

\* The service that entered guest code returns to its caller.
LEMMA FinishKeeps ==
  ASSUME NEW S, Stacked(S), FinishNested
  PROVE  /\ Len(S) = Len(host) + 1 /\ Len(host) \in 1..Len(S) /\ Len(host) < Len(S)
         /\ Len(S[Len(host)]) \in Nat /\ Len(S[Len(host)]) > 1
         /\ sp' = S[Len(host)][Len(S[Len(host)]) - 1] /\ ~halted' /\ jmps' = jmps
         /\ pc' = mem[S[Len(host)][Len(S[Len(host)])] + RET_PC]
         /\ mem' = IF mem[S[Len(host)][Len(S[Len(host)])] + RESULT_COUNT] = 1
                   THEN [mem EXCEPT ![sp' - 1] = mem[host[Len(host)].result]] ELSE mem
         /\ Len(host') = Len(host) - 1 /\ \A r \in 1..(Len(host) - 1) : host'[r] = host[r]
         /\ Keeps(S, mem') /\ \E T : Stacked(T)' /\ CutTo(S, Len(host), Len(S[Len(host)]) - 1, T)
<1> DEFINE R == Len(host)
           n == Len(S[R])
           caller == S[R][n - 1]
<1>1. /\ Placed(S) /\ LinkedIn(mem, S) /\ DOMAIN mem = MemoryWords
      /\ Positioned(S) /\ Counted(S) /\ JumpsLive(S)
  BY DEF Stacked
<1>2. host \in Seq([sp : Int, result : Int]) /\ host # <<>> /\ halted
  BY <1>1 DEF Positioned, FinishNested
<1>3. R \in Nat \ {0} /\ R \in 1..R
  <2> DEFINE HostFrame == [sp : Int, result : Int]
  <2>1. host \in Seq(HostFrame)
    BY <1>2
  <2> HIDE DEF HostFrame
  <2>2. R \in Nat \ {0}
    BY <1>2, <2>1, EmptySeq
  <2> QED BY <2>2
<1>4. Len(S) = R + 1 /\ R \in 1..Len(S) /\ R < Len(S) /\ R = Len(S) - 1
  BY <1>1, <1>3 DEF Positioned, Runs
<1>5. n \in Nat /\ n > 1 /\ n \in 1..n /\ n - 1 \in 1..n /\ n - 1 \in 1..(n - 1) /\ n - 1 < n
  <2>1. n > 1
    BY <1>1, <1>4 DEF Placed
  <2>2. n \in Nat
    BY <1>1, <1>4, Layout DEF Placed
  <2> QED BY <2>1, <2>2
<1>6. /\ S[R][n] \in Int /\ caller \in Int /\ S[R][n] + WordsOf(S, R, n) <= caller
      /\ WordsOf(S, R, n) \in {10, 15}
  BY <1>1, <1>4, <1>5, PlaceOf
<1>7. mem[S[R][n] + CALLER_SP] = caller /\ mem[S[R][n] + RESULT_PTR] = caller - 1
  <2>1. FrameLinked(mem, S, R, n)
    BY <1>1, <1>4, <1>5 DEF LinkedIn
  <2> QED BY <1>5, <2>1 DEF FrameLinked, CallerOf, EndOf
<1>8. RestoreHost(host[R]) = S[R][n]
  BY <1>1, <1>3 DEF Positioned, RestoreHost
<1>9. /\ mem' = mem \/ mem' = [mem EXCEPT ![caller - 1] = mem[host[R].result]]
      /\ sp' = caller /\ ~halted' /\ host' = SubSeq(host, 1, R - 1) /\ UNCHANGED <<jmps, work>>
  BY <1>7, <1>8 DEF FinishNested
<1>0. /\ mem' = IF mem[S[R][n] + RESULT_COUNT] = 1 THEN [mem EXCEPT ![sp' - 1] = mem[host[R].result]] ELSE mem
      /\ pc' = mem[S[R][n] + RET_PC]
  <2>1. sp' - 1 = caller - 1
    BY <1>9
  <2> QED BY <1>7, <1>8, <2>1 DEF FinishNested
<1>10. PICK T : CutTo(S, R, n - 1, T)
  BY <1>1, <1>4, <1>5, Cut
<1>11. Keeps(S, mem') /\ Keeps(T, mem')
  <2>1. ~Vital(S, caller - 1)
    <3>1. n # 1
      <4>1. ASSUME NEW x \in Nat, x > 1 PROVE x # 1
        BY <4>1
      <4> QED BY <1>5, <4>1
    <3>2. EndOf(S, R, n) = caller
      BY <3>1 DEF EndOf
    <3>3. S[R][n] + 10 <= caller
      <4>1. ASSUME NEW x \in Int, NEW y \in Int, NEW w \in {10, 15}, x + w <= y PROVE x + 10 <= y
        BY <4>1
      <4> QED BY <1>6, <4>1
    <3>4. ASSUME NEW x \in Int, NEW y \in Int, x + 10 <= y
          PROVE  y - 1 \in Int /\ x + 5 <= y - 1 /\ y - 1 < y
      BY <3>4
    <3>5. caller - 1 \in Int /\ S[R][n] + 5 <= caller - 1 /\ caller - 1 < EndOf(S, R, n)
      BY <1>6, <3>2, <3>3, <3>4
    <3> QED BY <1>1, <1>4, <1>5, <3>5, ExtentWords
  <2>2. Keeps(S, mem) /\ Keeps(S, [mem EXCEPT ![caller - 1] = mem[host[R].result]])
    BY <2>1, NothingWritten, WriteKeeps
  <2>3. Keeps(S, mem')
    BY <1>9, <2>2
  <2> QED BY <1>10, <2>3 DEF Keeps, CutTo
<1>12. JumpsLive(T)'
  <2>1. ~ (R = Len(S))
    <3>1. ASSUME NEW x \in Nat PROVE x # x + 1
      OBVIOUS
    <3> QED BY <1>3, <1>4, <3>1
  <2>2. JumpsForgotten(S, R, n - 1)
    BY <1>1, <1>9, <2>1 DEF JumpsForgotten, JumpsLive
  <2> QED BY <1>2, <1>4, <1>5, <1>9, <1>10, <2>2, JumpsCut
<1>13. /\ host' \in Seq([sp : Int, result : Int]) /\ Len(host') = R - 1
       /\ \A r \in 1..(R - 1) : host'[r] = host[r]
  <2> DEFINE HostFrame == [sp : Int, result : Int]
  <2>1. host \in Seq(HostFrame)
    BY <1>2
  <2> HIDE DEF HostFrame
  <2>2. 1 \in 1..(Len(host) + 1) /\ R - 1 \in 0..Len(host) /\ (R - 1) - 1 + 1 = R - 1
    BY <1>3
  <2>3. /\ SubSeq(host, 1, R - 1) \in Seq(HostFrame) /\ Len(SubSeq(host, 1, R - 1)) = R - 1
        /\ \A r \in 1..(R - 1) : SubSeq(host, 1, R - 1)[r] = host[r]
    BY <1>3, <2>1, <2>2
  <2> QED BY <1>9, <2>3 DEF HostFrame
<1>14. work' \in Nat /\ work <= work' /\ work' <= MaxWork /\ ~halted'
  BY <1>1, <1>9, Layout DEF Counted
<1>15. sp' = S[R][n - 1]
  BY <1>9
<1>16. Stacked(T)'
  BY <1>4, <1>5, <1>10, <1>11, <1>12, <1>13, <1>14, <1>15, CutStacked
<1> QED BY <1>0, <1>4, <1>5, <1>9, <1>10, <1>11, <1>13, <1>15, <1>16

-----------------------------------------------------------------------------
(***************************************************************************)
(* Steps that lay frames.                                                  *)
(***************************************************************************)

\* T has the runs of S, a frame at base added to the innermost, and perhaps
\* further runs.
Grown(S, base, T) ==
  /\ T \in Seq(Seq(Int)) /\ Len(T) >= Len(S)
  /\ \A r \in 1..(Len(S) - 1) : T[r] = S[r]
  /\ T[Len(S)] = Append(S[Len(S)], base)

\* What is said of the old frames stays true when frames are added.
LEMMA OldFrames ==
  ASSUME NEW S, Placed(S), NEW base \in Int, NEW T, Grown(S, base, T),
         NEW r \in 1..Len(S), NEW i \in 1..Len(S[r])
  PROVE  /\ r \in 1..Len(T) /\ i \in 1..Len(T[r]) /\ T[r][i] = S[r][i]
         /\ FrameAt(T, r, i)
         /\ \A m : FrameLinked(m, S, r, i) => FrameLinked(m, T, r, i)
         /\ r < Len(T) /\ (r < Len(S) => i < Len(S[r])) => i < Len(T[r])
<1> DEFINE R == Len(S)
<1>1. R \in Nat /\ R \in 1..R /\ Len(S[r]) \in Nat /\ S[r] \in Seq(Int) /\ r \in 1..R
  BY PlaceOf
<1>2. T \in Seq(Seq(Int)) /\ Len(T) \in Nat /\ Len(T) >= R /\ r \in 1..Len(T)
  <2>1. T \in Seq(Seq(Int)) /\ Len(T) >= R
    BY DEF Grown
  <2>2. Len(T) \in Nat
    BY <2>1
  <2>3. ASSUME NEW x \in Nat, NEW y \in Nat, y >= x, r \in 1..x PROVE r \in 1..y
    BY <2>3
  <2> QED BY <1>1, <2>1, <2>2, <2>3
<1>3. /\ i \in 1..Len(T[r]) /\ \A j \in 1..i : T[r][j] = S[r][j]
      /\ WordsOf(T, r, i) = WordsOf(S, r, i)
      /\ r < Len(T) /\ (r < R => i < Len(S[r])) => i < Len(T[r])
  <2>1. CASE r < R
    <3>1. r \in 1..(R - 1) /\ r < Len(T) /\ r < Len(S)
      BY <1>1, <1>2, <2>1
    <3>2. T[r] = S[r]
      BY <3>1 DEF Grown
    <3>3. IsHostFrame(T, r, i) <=> IsHostFrame(S, r, i)
      BY <3>1, <3>2 DEF IsHostFrame
    <3>4. WordsOf(T, r, i) = WordsOf(S, r, i)
      BY <3>3 DEF WordsOf
    <3>5. i \in 1..Len(T[r]) /\ (\A j \in 1..i : T[r][j] = S[r][j])
      BY <3>2
    <3> QED BY <2>1, <3>2, <3>4, <3>5
  <2>2. CASE r = R
    <3>1. T[r] = Append(S[r], base)
      BY <2>2 DEF Grown
    <3>2. Len(T[r]) = Len(S[r]) + 1 /\ \A j \in 1..Len(S[r]) : T[r][j] = S[r][j]
      BY <1>1, <3>1
    <3>3. i \in Nat /\ i < Len(S[r]) + 1 /\ i < Len(T[r]) /\ i \in 1..Len(T[r])
      BY <1>1, <3>2
    <3>4. \A j \in 1..i : j \in 1..Len(S[r])
      BY <1>1
    <3>5. ~IsHostFrame(T, r, i) /\ ~IsHostFrame(S, r, i)
      BY <1>1, <2>2, <3>2, <3>3 DEF IsHostFrame
    <3>6. WordsOf(T, r, i) = WordsOf(S, r, i)
      BY <3>5 DEF WordsOf
    <3>7. \A j \in 1..i : T[r][j] = S[r][j]
      BY <3>2, <3>4
    <3>8. i \in 1..Len(T[r]) /\ i < Len(T[r])
      BY <3>3
    <3> QED BY <3>6, <3>7, <3>8, Zenon
  <2> QED BY <1>1, <2>1, <2>2, SMTT(30)
<1>4. i \in 1..i /\ i \in Nat \ {0}
  BY <1>1
<1>5. FrameAt(T, r, i)
  <2>1. FrameAt(S, r, i)
    BY DEF Placed
  <2>2. \A j \in 1..(i - 1) : j \in 1..i
    BY <1>4
  <2> QED BY <1>3, <1>4, <2>1, <2>2 DEF FrameAt
<1>6. EndOf(T, r, i) = EndOf(S, r, i) /\ CallerOf(T, r, i) = CallerOf(S, r, i)
  <2>1. i # 1 => i - 1 \in 1..i
    BY <1>4
  <2>2. 1 \in 1..i
    BY <1>4
  <2>3. T[r][1] = S[r][1] /\ (i # 1 => T[r][i - 1] = S[r][i - 1])
    BY <1>3, <2>1, <2>2
  <2>4. i > 1 <=> i # 1
    BY <1>4
  <2> QED BY <2>3, <2>4 DEF EndOf, CallerOf
<1>7. T[r][i] = S[r][i]
  BY <1>3, <1>4
<1>8. \A m : FrameLinked(m, S, r, i) => FrameLinked(m, T, r, i)
  BY <1>6, <1>7 DEF FrameLinked
<1> QED BY <1>2, <1>3, <1>5, <1>7, <1>8

\* Jump buffers stay live when frames are added.
LEMMA JumpsGrown ==
  ASSUME NEW S, Stacked(S), NEW base \in Int, NEW T, Grown(S, base, T), UNCHANGED <<halted, jmps>>, ~halted
  PROVE  JumpsLive(T)'
<1>1. Placed(S) /\ JumpsLive(S)
  BY DEF Stacked
<1>2. ASSUME NEW e \in JmpBufs, jmps'[e] # NoJmp
      PROVE  \E r \in 1..Len(T) : \E i \in 1..Len(T[r]) : JumpAt(T, jmps[e], r, i)'
  <2>1. PICK r \in 1..Len(S) : \E i \in 1..Len(S[r]) : JumpAt(S, jmps[e], r, i)
    BY <1>1, <1>2 DEF JumpsLive
  <2>2. PICK i \in 1..Len(S[r]) : JumpAt(S, jmps[e], r, i)
    BY <2>1
  <2>3. /\ r \in 1..Len(T) /\ i \in 1..Len(T[r]) /\ T[r][i] = S[r][i]
        /\ r < Len(T) /\ (r < Len(S) => i < Len(S[r])) => i < Len(T[r])
    BY <1>1, OldFrames
  <2>4. JumpAt(T, jmps[e], r, i)'
    BY <2>2, <2>3 DEF JumpAt
  <2> QED BY <2>3, <2>4
<1> QED BY <1>1, <1>2 DEF JumpsLive

\* A call lays the frame of the callee below the running one.
LEMMA CallKeeps ==
  ASSUME NEW S, Stacked(S), NEW g \in Functions, NEW site \in {"value", "discard"}, Call(g, site)
  PROVE  \E T : Stacked(T)' /\ Grown(S, CallBase(g, site), T) /\ Len(T) = Len(S)
<1>0. PICK base : base = CallBase(g, site)
  OBVIOUS
<1> DEFINE R == Len(S)
           n == Len(S[R])
           T == [r \in 1..R |-> IF r < R THEN S[r] ELSE Append(S[R], base)]
           m == Called(g, site)
<1>1. R \in Nat /\ R \in 1..R /\ n \in Nat /\ n \in 1..n /\ S \in Seq(Seq(Int)) /\ S[R] \in Seq(Int)
  <2>1. R \in Nat \ {0}
    BY Layout, Current
  <2>2. S[R] \in Seq(Int)
    BY Current
  <2>3. n \in Nat
    BY <2>2
  <2> QED BY <2>1, <2>2, <2>3, Current
<1>2. /\ sp = S[R][n] /\ sp \in Int /\ Bottom \in Int /\ sp >= Bottom
      /\ R \in 1..Len(StackTops) /\ Bottom = StackTops[R] - StackWords
      /\ sp + 15 <= StackTops[R] /\ StackTops[R] \in Nat
  BY Current DEF Stack
<1>3. \A j \in 1..(n - 1) : S[R][j] \in Int /\ sp + 15 <= S[R][j]
  BY Current
<1>4. /\ Placed(S) /\ LinkedIn(mem, S) /\ DescribedIn(mem) /\ Positioned(S) /\ Counted(S)
  BY DEF Stacked
<1>5. /\ g \in Callables /\ site \in Sites /\ base >= Bottom /\ ~halted /\ work < MaxWork
      /\ mem[Desc[g]] = Code(g, "entry")
      /\ mem' = m /\ sp' = base /\ work' = work + 1 /\ UNCHANGED <<halted, host, jmps>>
  BY <1>0 DEF Call, MayCall, InBody, Callables, Sites
<1>6. /\ base \in Int /\ base + mem[Desc[g] + 1] + 2 = sp /\ mem[Desc[g] + 1] \in Nat
      /\ m[base + CALLER_SP] = sp /\ m[base + RET_PC] = Code(pc.fn, site)
      /\ m[base + RESULT_PTR] = sp - 1 /\ Keeps(S, m)
  BY <1>0, <1>5, CalledWords, CalledKeeps
<1>7. base + 15 <= sp
  <2>1. mem[Desc[g] + 1] = FrameSize(g)
    BY <1>4, <1>5 DEF DescribedIn, Code
  <2>2. FrameSize(g) >= 13 /\ FrameSize(g) \in Nat
    BY MachineAssumption DEF FrameSize, HEADER_SIZE
  <2> QED BY <1>2, <1>6, <2>1, <2>2
<1> HIDE DEF m
<1>8. T \in Seq(Seq(Int)) /\ Len(T) = R /\ T[R] = Append(S[R], base) /\ \A r \in 1..(R - 1) : T[r] = S[r]
  <2>1. Append(S[R], base) \in Seq(Int)
    BY <1>1, <1>6
  <2>2. \A r \in 1..R : T[r] \in Seq(Int)
    BY <1>1, <2>1
  <2> QED BY <1>1, <2>2
<1>9. Len(T[R]) = n + 1 /\ T[R][n + 1] = base /\ \A j \in 1..n : T[R][j] = S[R][j]
  BY <1>1, <1>6, <1>8
<1> HIDE DEF T
<1>10. Grown(S, base, T)
  BY <1>1, <1>8 DEF Grown
<1>11. ASSUME NEW r \in 1..Len(T), NEW i \in 1..Len(T[r])
      PROVE  (r \in 1..Len(S) /\ i \in 1..Len(S[r])) \/ (r = R /\ i = n + 1)
  <2>1. CASE r = R
    BY <1>1, <1>9, <2>1
  <2>2. CASE r # R
    <3>1. r \in 1..(R - 1) /\ r \in 1..Len(S)
      <4>1. r \in 1..R
        BY <1>8
      <4> QED BY <1>1, <2>2, <4>1
    <3> QED BY <1>8, <3>1
  <2> QED BY <2>1, <2>2
<1>12. FrameAt(T, R, n + 1)
  <2>1. WordsOf(T, R, n + 1) = 15
    BY <1>1, <1>8 DEF WordsOf, IsHostFrame, HEADER_SIZE
  <2>2. ASSUME NEW j \in 1..((n + 1) - 1) PROVE base + 15 <= T[R][j]
    <3>1. j \in 1..n /\ T[R][j] = S[R][j]
      BY <1>1, <1>9
    <3>2. CASE j = n
      BY <1>2, <1>7, <3>1, <3>2
    <3>3. CASE j # n
      <4>1. j \in 1..(n - 1)
        BY <1>1, <3>1, <3>3
      <4>2. S[R][j] \in Int /\ sp + 15 <= S[R][j]
        BY <1>3, <4>1
      <4>3. ASSUME NEW x \in Int, NEW y \in Int, NEW z \in Int, x + 15 <= y, y + 15 <= z PROVE x + 15 <= z
        BY <4>3
      <4>4. base + 15 <= S[R][j]
        BY <1>2, <1>6, <1>7, <4>2, <4>3
      <4> QED BY <3>1, <4>4
    <3> QED BY <3>2, <3>3
  <2>3. base >= StackTops[R] - StackWords /\ base + 15 <= StackTops[R]
    <3>1. ASSUME NEW x \in Int, NEW y \in Int, NEW z \in Nat, x + 15 <= y, y + 15 <= z PROVE x + 15 <= z
      BY <3>1
    <3>2. base + 15 <= StackTops[R]
      BY <1>2, <1>6, <1>7, <3>1
    <3> QED BY <1>2, <1>5, <3>2
  <2> QED BY <1>9, <2>1, <2>2, <2>3 DEF FrameAt
<1>13. Placed(T)
  <2>1. ASSUME NEW r \in 1..Len(T) PROVE Len(T[r]) >= 1 /\ (r < Len(T) => Len(T[r]) > 1)
    <3>1. CASE r = R
      BY <1>1, <1>8, <1>9, <3>1
    <3>2. CASE r # R
      <4>1. r \in 1..(R - 1) /\ r \in 1..Len(S) /\ r < Len(S)
        <5>1. r \in 1..R
          BY <1>8
        <5> QED BY <1>1, <3>2, <5>1
      <4> QED BY <1>4, <1>8, <4>1 DEF Placed
    <3> QED BY <3>1, <3>2
  <2>2. ASSUME NEW r \in 1..Len(T), NEW i \in 1..Len(T[r]) PROVE FrameAt(T, r, i)
    <3>1. CASE r \in 1..Len(S) /\ i \in 1..Len(S[r])
      BY <1>4, <1>6, <1>10, <3>1, OldFrames
    <3> QED BY <1>11, <1>12, <3>1
  <2> QED BY <1>2, <1>8, <2>1, <2>2 DEF Placed
<1>14. LinkedIn(mem', T) /\ DescribedIn(mem')
  <2>1. LinkedIn(mem', S) /\ DescribedIn(mem')
    BY <1>4, <1>5, <1>6, LinksKept DEF Keeps
  <2>2. FrameLinked(mem', T, R, n + 1)
    <3>1. EndOf(T, R, n + 1) = sp /\ CallerOf(T, R, n + 1) = sp
      <4>1. n + 1 # 1 /\ n + 1 > 1 /\ (n + 1) - 1 = n
        BY <1>1
      <4> QED BY <1>1, <1>2, <1>9, <4>1 DEF EndOf, CallerOf
    <3>2. Code(pc.fn, site) # HaltCode
      BY DEF Code, HaltCode
    <3>3. n + 1 # 1
      BY <1>1
    <3> QED BY <1>5, <1>6, <1>9, <3>1, <3>2, <3>3 DEF FrameLinked
  <2>3. ASSUME NEW r \in 1..Len(T), NEW i \in 1..Len(T[r]) PROVE FrameLinked(mem', T, r, i)
    <3>1. CASE r \in 1..Len(S) /\ i \in 1..Len(S[r])
      <4>1. FrameLinked(mem', S, r, i)
        BY <2>1, <3>1 DEF LinkedIn
      <4> QED BY <1>4, <1>6, <1>10, <3>1, <4>1, OldFrames
    <3> QED BY <1>11, <2>2, <3>1
  <2> QED BY <2>1, <2>3 DEF LinkedIn
<1>15. Positioned(T)'
  <2>1. sp' = T[Len(T)][Len(T[Len(T)])]
    BY <1>5, <1>8, <1>9
  <2>2. ASSUME NEW r \in 1..Len(host) PROVE host[r].sp = T[r][Len(T[r])]
    <3>1. r \in 1..(R - 1)
      <4>1. Len(host) = R - 1
        BY <1>1, <1>4 DEF Positioned, Runs
      <4> QED BY <4>1
    <3> QED BY <1>4, <1>8, <3>1 DEF Positioned
  <2> QED BY <1>4, <1>5, <1>8, <2>1, <2>2 DEF Positioned, Runs
<1>16. Counted(T)'
  <2>1. ASSUME NEW r \in 1..Len(T) PROVE Len(T[r]) <= work' + 1
    <3>1. CASE r = R
      <4>1. n <= work + 1 /\ work \in Nat
        BY <1>1, <1>4, Layout DEF Counted
      <4> QED BY <1>1, <1>5, <1>9, <3>1, <4>1
    <3>2. CASE r # R
      <4>1. r \in 1..(R - 1) /\ r \in 1..Len(S)
        <5>1. r \in 1..R
          BY <1>8
        <5> QED BY <1>1, <3>2, <5>1
      <4>2. Len(S[r]) <= work + 1 /\ Len(S[r]) \in Nat /\ work \in Nat /\ T[r] = S[r]
        <5>1. Len(S[r]) <= work + 1 /\ work \in Nat
          BY <1>4, <4>1, Layout DEF Counted
        <5>2. Len(S[r]) \in Nat /\ T[r] = S[r]
          BY <1>1, <1>8, <4>1
        <5> QED BY <5>1, <5>2
      <4> QED BY <1>5, <4>2
    <3> QED BY <3>1, <3>2
  <2>2. work' \in 0..MaxWork
    BY <1>4, <1>5, Layout DEF Counted
  <2> QED BY <2>1, <2>2 DEF Counted
<1>17. JumpsLive(T)'
  BY <1>5, <1>6, <1>10, JumpsGrown
<1>18. (~Finished)'
  BY <1>5 DEF Finished
<1>19. DOMAIN mem' = MemoryWords
  BY <1>5, <1>6 DEF Keeps
<1>20. LinkedIn(mem, T)' /\ DescribedIn(mem)' /\ Placed(T)'
  BY <1>13, <1>14 DEF LinkedIn, DescribedIn, FrameLinked
<1>21. Stacked(T)'
  BY <1>15, <1>16, <1>17, <1>18, <1>19, <1>20 DEF Stacked
<1> QED BY <1>0, <1>8, <1>10, <1>21

\* In memory e, the first frame of run r is at low, at the top of its stack; the
\* rest is as in the given memory.
FirstFrame(memory, e, low, r) ==
  /\ low \in Int /\ low >= StackTops[r] - StackWords /\ low + 15 <= StackTops[r]
  /\ DOMAIN e = MemoryWords
  /\ \A a \in MemoryWords : a \notin low .. StackTops[r] - 1 => e[a] = memory[a]
  /\ e[low + CALLER_SP] = low /\ e[low + RET_PC] = HaltCode
  /\ e[low + RESULT_PTR] = StackTops[r] - 1

\* enter_function lays the first frame at the top of its stack.
LEMMA EnteredWords ==
  ASSUME NEW memory, DOMAIN memory = MemoryWords, NEW r \in 1..Len(StackTops), NEW g \in Functions,
         NEW arg, NEW low, low = EntryBase(g, StackTops[r]),
         NEW e, e = Entered(memory, g, StackTops[r], arg)
  PROVE  /\ FirstFrame(memory, e, low, r)
         /\ e[low + ENTRY] = Code(g, "entry") /\ e[low + FRAME_SIZE] = FrameSize(g)
         /\ e[low + FrameSize(g)] = arg
<1> DEFINE top == StackTops[r]
           size == FrameSize(g)
<1>1. top \in Nat /\ StackWords \in Nat
  BY StackAt
<1>2. size \in Nat /\ size >= 13 /\ size + 2 <= StackWords
  BY MachineAssumption, RoomAssumption, SMTT(30) DEF FrameSize, HEADER_SIZE
<1>3. low = top - (size + 2)
  BY <1>1, <1>2 DEF EntryBase
<1> HIDE DEF top, size
<1>4. low \in Int /\ low >= top - StackWords /\ low + 15 <= top /\ low + size = top - 2
  BY <1>1, <1>2, <1>3
<1>5. ASSUME NEW a \in low .. top - 1 PROVE a \in MemoryWords
  <2>1. a \in StackWordsOf(r)
    BY <1>1, <1>4 DEF StackWordsOf, top
  <2> QED BY <2>1 DEF MemoryWords
<1>6. e = [memory EXCEPT ![low] = low, ![low + 1] = HaltCode, ![low + 2] = Code(g, "entry"),
                         ![low + 3] = size, ![low + 4] = low + size + 1, ![low + 5] = 1,
                         ![low + 6] = HaltCode, ![low + 7] = 1, ![low + size] = arg]
  <2>1. /\ low + CALLER_SP = low /\ low + RET_PC = low + 1 /\ low + ENTRY = low + 2
        /\ low + FRAME_SIZE = low + 3 /\ low + RESULT_PTR = low + 4
        /\ low + RESULT_COUNT = low + 5 /\ low + RESUME_PC = low + 6 /\ low + ARG_COUNT = low + 7
    BY <1>4 DEF CALLER_SP, RET_PC, ENTRY, FRAME_SIZE, RESULT_PTR, RESULT_COUNT, RESUME_PC, ARG_COUNT
  <2> QED BY <2>1, Zenon DEF Entered, size
<1>7. DOMAIN e = MemoryWords
  BY <1>6
<1>8. ASSUME NEW a \in MemoryWords, a \notin low .. top - 1 PROVE e[a] = memory[a]
  <2>1. ASSUME NEW x \in Int, NEW y \in Int, NEW k \in Int, 0 <= k, x + k < y PROVE x + k \in x .. y - 1
    BY <2>1
  <2>2. a # low /\ a # low + size
    <3>1. low \in low .. top - 1
      BY <1>1, <1>4
    <3>2. low + size < top
      BY <1>1, <1>4
    <3>3. low + size \in low .. top - 1
      BY <1>1, <1>2, <1>4, <2>1, <3>2
    <3> QED BY <1>8, <3>1, <3>3
  <2>3. ASSUME NEW k \in 0..7 PROVE a # low + k
    <3>1. low + k < top
      BY <1>1, <1>4
    <3>2. low + k \in low .. top - 1
      BY <1>1, <1>4, <2>1, <3>1, SMTT(30)
    <3> QED BY <1>8, <3>2
  <2> QED BY <1>6, <2>2, <2>3
<1>9. low \in MemoryWords /\ low + 1 \in MemoryWords /\ low + 4 \in MemoryWords
  BY <1>1, <1>4, <1>5
<1>10. e[low] = low /\ e[low + 1] = HaltCode /\ e[low + 4] = low + size + 1
  <2>1. low + size # low /\ low + size # low + 1 /\ low + size # low + 4
    BY <1>2, <1>4
  <2>2. e[low] = low
    BY <1>4, <1>6, <1>9, <2>1
  <2>3. e[low + 1] = HaltCode
    BY <1>4, <1>6, <1>9, <2>1
  <2>4. e[low + 4] = low + size + 1
    BY <1>4, <1>6, <1>9, <2>1
  <2> QED BY <2>2, <2>3, <2>4
<1>11. low + size + 1 = top - 1
  BY <1>1, <1>4
<1>12. e[low + CALLER_SP] = low /\ e[low + RET_PC] = HaltCode /\ e[low + RESULT_PTR] = top - 1
  BY <1>4, <1>10, <1>11 DEF CALLER_SP, RET_PC, RESULT_PTR
<1>13. e[low + ENTRY] = Code(g, "entry") /\ e[low + FRAME_SIZE] = size /\ e[low + size] = arg
  <2>1. low + 2 \in MemoryWords /\ low + 3 \in MemoryWords /\ low + size \in MemoryWords
    BY <1>1, <1>2, <1>4, <1>5, SMTT(30)
  <2>2. low + size # low + 2 /\ low + size # low + 3
    BY <1>2, <1>4
  <2>3. e[low + 2] = Code(g, "entry")
    BY <1>4, <1>6, <2>1, <2>2
  <2>4. e[low + 3] = size
    BY <1>4, <1>6, <2>1, <2>2
  <2>5. e[low + size] = arg
    BY <1>4, <1>6, <2>1
  <2> QED BY <2>3, <2>4, <2>5 DEF ENTRY, FRAME_SIZE
<1> QED BY <1>4, <1>7, <1>8, <1>12, <1>13 DEF top, size, FirstFrame

\* Entering guest code lays the frame of the service and the first frame of the next run.
LEMMA CallNestedKeeps ==
  ASSUME NEW S, Stacked(S), NEW g \in Functions, NEW site \in {"value", "discard"}, CallNested(g, site)
  PROVE  \E T : /\ Stacked(T)' /\ Grown(S, CallBase(Host, site), T)
                /\ Len(T) = Len(S) + 1 /\ T[Len(S) + 1] = <<sp'>>
                /\ Keeps(S, mem')
                /\ \A a \in MemoryWords : a \notin StackWordsOf(Len(S) + 1) => mem'[a] = Called(Host, site)[a]
                /\ mem'[sp' + ENTRY] = Code(g, "entry") /\ mem'[sp' + FRAME_SIZE] = FrameSize(g)
                /\ mem'[sp' + FrameSize(g)] = Var(2)
<1>0. PICK base, low : base = CallBase(Host, site) /\ low = EntryBase(g, StackTops[Len(S) + 1])
  OBVIOUS
<1> DEFINE R == Len(S)
           n == Len(S[R])
           top == StackTops[R + 1]
           m == Called(Host, site)
           T == [r \in 1..(R + 1) |-> IF r < R THEN S[r]
                                     ELSE IF r = R THEN Append(S[R], base) ELSE <<low>>]
<1>1. R \in Nat /\ R \in 1..R /\ n \in Nat /\ n \in 1..n /\ S \in Seq(Seq(Int)) /\ S[R] \in Seq(Int)
  <2>1. R \in Nat \ {0}
    BY Layout, Current
  <2>2. S[R] \in Seq(Int)
    BY Current
  <2>3. n \in Nat
    BY <2>2
  <2> QED BY <2>1, <2>2, <2>3, Current
<1>2. /\ sp = S[R][n] /\ sp \in Int /\ Bottom \in Int /\ sp >= Bottom
      /\ R \in 1..Len(StackTops) /\ Bottom = StackTops[R] - StackWords
      /\ sp + 15 <= StackTops[R] /\ StackTops[R] \in Nat
  BY Current DEF Stack
<1>3. \A j \in 1..(n - 1) : S[R][j] \in Int /\ sp + 15 <= S[R][j]
  BY Current
<1>4. /\ Placed(S) /\ LinkedIn(mem, S) /\ DescribedIn(mem) /\ Positioned(S) /\ Counted(S)
      /\ host \in Seq([sp : Int, result : Int]) /\ Len(host) + 1 = R
  BY DEF Stacked, Positioned, Runs
<1>5. R + 1 \in 1..Len(StackTops) /\ top \in Nat /\ StackWords \in Nat
  <2>1. R < Len(StackTops) /\ Len(StackTops) \in Nat
    BY <1>4, Layout DEF CallNested
  <2>2. R + 1 \in 1..Len(StackTops)
    BY <1>1, <2>1
  <2> QED BY <2>2, StackAt
<1>6. Len(host) + 2 = R + 1 /\ Len(host) \in Nat /\ Len(host) = R - 1
  <2>1. Len(host) \in Nat
    BY <1>4
  <2> QED BY <1>4, <2>1
<1>7. /\ Host \in Callables /\ site \in Sites /\ base >= Bottom /\ ~halted /\ work < MaxWork
      /\ mem' = Entered(m, g, top, Var(2)) /\ host' = Append(host, [sp |-> base, result |-> top - 1])
      /\ sp' = low /\ work' = work + 1 /\ UNCHANGED <<halted, jmps>>
  BY <1>0, <1>6 DEF CallNested, MayCall, InBody, Callables, Sites
<1>8. /\ base \in Int /\ base + mem[Desc[Host] + 1] + 2 = sp
      /\ m[base + CALLER_SP] = sp /\ m[base + RET_PC] = Code(pc.fn, site)
      /\ m[base + RESULT_PTR] = sp - 1 /\ Keeps(S, m) /\ DOMAIN m = MemoryWords
  BY <1>0, <1>7, CalledWords, CalledKeeps
<1>9. base + 10 = sp /\ base \in Int /\ base >= Bottom
  <2>1. mem[Desc[Host] + 1] = HEADER_SIZE
    BY <1>4, <1>7, MachineAssumption DEF DescribedIn
  <2>2. base + 10 = sp
    BY <1>2, <1>8, <2>1 DEF HEADER_SIZE
  <2> QED BY <1>7, <1>8, <2>2
<1> HIDE DEF m
<1>10. /\ low \in Int /\ low >= top - StackWords /\ low + 15 <= top /\ DOMAIN mem' = MemoryWords
       /\ \A a \in MemoryWords : a \notin low .. top - 1 => mem'[a] = m[a]
       /\ mem'[low + CALLER_SP] = low /\ mem'[low + RET_PC] = HaltCode
       /\ mem'[low + RESULT_PTR] = top - 1
       /\ mem'[low + ENTRY] = Code(g, "entry") /\ mem'[low + FRAME_SIZE] = FrameSize(g)
       /\ mem'[low + FrameSize(g)] = Var(2)
  <2>1. PICK memory, arg : memory = m /\ arg = Var(2)
    OBVIOUS
  <2>2. PICK e : e = mem'
    OBVIOUS
  <2>3. low = EntryBase(g, top) /\ DOMAIN memory = MemoryWords
    BY <1>0, <1>8, <2>1
  <2>4. e = Entered(memory, g, top, arg)
    BY <1>7, <2>1, <2>2
  <2>5. /\ FirstFrame(memory, e, low, R + 1)
        /\ e[low + ENTRY] = Code(g, "entry") /\ e[low + FRAME_SIZE] = FrameSize(g)
        /\ e[low + FrameSize(g)] = arg
    BY <1>5, <2>3, <2>4, EnteredWords
  <2> QED BY <2>1, <2>2, <2>5 DEF FirstFrame
<1>11. Keeps(S, mem')
  <2>1. ASSUME NEW a \in low .. top - 1 PROVE ~Vital(S, a)
    <3>1. a \in StackWordsOf(R + 1)
      BY <1>5, <1>10 DEF StackWordsOf
    <3>2. ~(R + 1 <= R)
      BY <1>1
    <3> QED BY <1>4, <1>5, <3>1, <3>2, NotVital
  <2> QED BY <1>8, <1>10, <2>1 DEF Keeps
<1>12. ASSUME NEW k \in 0..9 PROVE mem'[base + k] = m[base + k]
  <2>1. base + k \in Int /\ Bottom <= base + k /\ base + k < sp
    BY <1>2, <1>9
  <2>2. base + k \in MemoryWords
    BY <2>1, OwnWords
  <2>3. base + k \notin low .. top - 1
    <3> SUFFICES ASSUME base + k \in low .. top - 1 PROVE FALSE
      OBVIOUS
    <3>1. base + k \in StackWordsOf(R)
      <4>1. base + k < StackTops[R] /\ StackTops[R] - StackWords <= base + k
        BY <1>2, <2>1
      <4> QED BY <1>2, <2>1, <4>1, Between
    <3>2. base + k \in StackWordsOf(R + 1)
      BY <1>5, <1>10, <2>1 DEF StackWordsOf
    <3>3. R # R + 1
      BY <1>1
    <3> QED BY <1>2, <1>5, <3>1, <3>2, <3>3, OneStack
  <2> QED BY <1>10, <2>2, <2>3
<1>13. /\ T \in Seq(Seq(Int)) /\ Len(T) = R + 1 /\ T[R] = Append(S[R], base) /\ T[R + 1] = <<low>>
       /\ \A r \in 1..(R - 1) : T[r] = S[r]
  <2>1. Append(S[R], base) \in Seq(Int) /\ <<low>> \in Seq(Int)
    BY <1>1, <1>8, <1>10
  <2>2. \A r \in 1..(R + 1) : T[r] \in Seq(Int)
    BY <1>1, <2>1
  <2>3. R + 1 \in Nat
    BY <1>1
  <2>4. T \in Seq(Seq(Int)) /\ Len(T) = R + 1
    BY <2>2, <2>3
  <2>5. R \in 1..(R + 1) /\ ~(R < R) /\ R + 1 \in 1..(R + 1) /\ ~(R + 1 < R) /\ R + 1 # R
    BY <1>1
  <2>6. T[R] = Append(S[R], base) /\ T[R + 1] = <<low>>
    BY <2>5
  <2>7. ASSUME NEW r \in 1..(R - 1) PROVE T[r] = S[r]
    <3>1. r \in 1..(R + 1) /\ r < R
      BY <1>1
    <3> QED BY <3>1
  <2> HIDE DEF T
  <2> QED BY <2>4, <2>6, <2>7
<1> HIDE DEF T
<1>14. Len(T[R]) = n + 1 /\ T[R][n + 1] = base /\ \A j \in 1..n : T[R][j] = S[R][j]
  <2>1. T[R] = Append(S[R], base) /\ S[R] \in Seq(Int) /\ base \in Int
    BY <1>1, <1>8, <1>13
  <2> QED BY <2>1
<1>15. Len(T[R + 1]) = 1 /\ T[R + 1][1] = low
  BY <1>13
<1>16. Grown(S, base, T)
  <2>1. R + 1 >= R
    BY <1>1
  <2> QED BY <1>13, <2>1 DEF Grown
<1>17. ASSUME NEW r \in 1..Len(T), NEW i \in 1..Len(T[r])
       PROVE  \/ r \in 1..Len(S) /\ i \in 1..Len(S[r])
              \/ r = R /\ i = n + 1
              \/ r = R + 1 /\ i = 1
  <2>1. r \in 1..(R + 1)
    BY <1>13
  <2>2. CASE r = R
    BY <1>1, <1>14, <2>2
  <2>3. CASE r = R + 1
    <3>1. i \in 1..1
      BY <1>15, <2>3
    <3> QED BY <2>3, <3>1
  <2>4. CASE r # R /\ r # R + 1
    <3>1. r \in 1..(R - 1) /\ r \in 1..Len(S)
      BY <1>1, <2>1, <2>4
    <3> QED BY <1>13, <3>1
  <2> QED BY <2>2, <2>3, <2>4
<1>18. FrameAt(T, R, n + 1)
  <2>1. WordsOf(T, R, n + 1) = 10
    <3>1. R < R + 1
      BY <1>1
    <3> QED BY <1>13, <1>14, <3>1 DEF WordsOf, IsHostFrame, HEADER_SIZE
  <2>2. ASSUME NEW j \in 1..((n + 1) - 1) PROVE base + 10 <= T[R][j]
    <3>1. j \in 1..n /\ T[R][j] = S[R][j]
      BY <1>1, <1>14
    <3>2. CASE j = n
      BY <1>2, <1>9, <3>1, <3>2
    <3>3. CASE j # n
      <4>1. j \in 1..(n - 1)
        BY <1>1, <3>1, <3>3
      <4>2. S[R][j] \in Int /\ sp + 15 <= S[R][j]
        BY <1>3, <4>1
      <4>3. ASSUME NEW x \in Int, NEW y \in Int, NEW z \in Int, x + 10 = y, y + 15 <= z PROVE x + 10 <= z
        BY <4>3
      <4>4. base + 10 <= S[R][j]
        BY <1>2, <1>8, <1>9, <4>2, <4>3
      <4> QED BY <3>1, <4>4
    <3> QED BY <3>2, <3>3
  <2>3. base >= StackTops[R] - StackWords /\ base + 10 <= StackTops[R]
    BY <1>2, <1>9
  <2> QED BY <1>14, <2>1, <2>2, <2>3 DEF FrameAt
<1>19. FrameAt(T, R + 1, 1)
  <2>1. WordsOf(T, R + 1, 1) = 15
    <3>1. ~ (R + 1 < R + 1)
      BY <1>1
    <3> QED BY <1>13, <3>1 DEF WordsOf, IsHostFrame, HEADER_SIZE
  <2>2. \A j \in 1..(1 - 1) : FALSE
    OBVIOUS
  <2> QED BY <1>10, <1>15, <2>1, <2>2 DEF FrameAt
<1>20. Placed(T)
  <2>1. ASSUME NEW r \in 1..Len(T) PROVE Len(T[r]) >= 1 /\ (r < Len(T) => Len(T[r]) > 1)
    <3>1. r \in 1..(R + 1)
      BY <1>13
    <3>2. CASE r = R
      BY <1>1, <1>14, <3>2
    <3>3. CASE r = R + 1
      <4>1. ~ (r < Len(T))
        BY <1>1, <1>13, <3>3
      <4> QED BY <1>15, <3>3, <4>1
    <3>4. CASE r # R /\ r # R + 1
      <4>1. r \in 1..(R - 1) /\ r \in 1..Len(S) /\ r < Len(S)
        BY <1>1, <3>1, <3>4
      <4> QED BY <1>4, <1>13, <4>1 DEF Placed
    <3> QED BY <3>2, <3>3, <3>4
  <2>2. ASSUME NEW r \in 1..Len(T), NEW i \in 1..Len(T[r]) PROVE FrameAt(T, r, i)
    <3>1. CASE r \in 1..Len(S) /\ i \in 1..Len(S[r])
      BY <1>4, <1>8, <1>16, <3>1, OldFrames
    <3> QED BY <1>17, <1>18, <1>19, <3>1
  <2>3. Len(T) \in 1..Len(StackTops)
    BY <1>5, <1>13
  <2> QED BY <1>13, <2>1, <2>2, <2>3 DEF Placed
<1>21. LinkedIn(mem', T) /\ DescribedIn(mem')
  <2>1. LinkedIn(mem', S) /\ DescribedIn(mem')
    BY <1>4, <1>11, LinksKept DEF Keeps
  <2>2. FrameLinked(mem', T, R, n + 1)
    <3>1. n + 1 # 1 /\ n + 1 > 1 /\ (n + 1) - 1 = n
      BY <1>1
    <3>2. n \in 1..n /\ T[R][n] = sp
      BY <1>1, <1>2, <1>14
    <3>3. EndOf(T, R, n + 1) = sp /\ CallerOf(T, R, n + 1) = sp
      BY <3>1, <3>2 DEF EndOf, CallerOf
    <3>4. Code(pc.fn, site) # HaltCode
      BY DEF Code, HaltCode
    <3>5. /\ mem'[base + CALLER_SP] = sp /\ mem'[base + RET_PC] = Code(pc.fn, site)
          /\ mem'[base + RESULT_PTR] = sp - 1
      BY <1>8, <1>12 DEF CALLER_SP, RET_PC, RESULT_PTR
    <3> QED BY <1>14, <3>1, <3>3, <3>4, <3>5 DEF FrameLinked
  <2>3. FrameLinked(mem', T, R + 1, 1)
    <3>1. R + 1 # 1
      BY <1>1
    <3>2. EndOf(T, R + 1, 1) = top /\ CallerOf(T, R + 1, 1) = low
      BY <1>15, <3>1 DEF EndOf, CallerOf
    <3> QED BY <1>10, <1>15, <3>2 DEF FrameLinked
  <2>4. ASSUME NEW r \in 1..Len(T), NEW i \in 1..Len(T[r]) PROVE FrameLinked(mem', T, r, i)
    <3>1. CASE r \in 1..Len(S) /\ i \in 1..Len(S[r])
      <4>1. FrameLinked(mem', S, r, i)
        BY <2>1, <3>1 DEF LinkedIn
      <4> QED BY <1>4, <1>8, <1>16, <3>1, <4>1, OldFrames
    <3> QED BY <1>17, <2>2, <2>3, <3>1
  <2> QED BY <2>1, <2>4 DEF LinkedIn
<1>22. Positioned(T)'
  <2> DEFINE frame == [sp |-> base, result |-> top - 1]
             HostFrame == [sp : Int, result : Int]
  <2>1. frame \in HostFrame
    BY <1>5, <1>8
  <2>2. frame.sp = base /\ host \in Seq(HostFrame)
    BY <1>4
  <2> HIDE DEF frame, HostFrame
  <2>3. host' = Append(host, frame)
    BY <1>7 DEF frame
  <2>4. /\ host' \in Seq(HostFrame) /\ Len(host') = Len(host) + 1 /\ host'[Len(host) + 1] = frame
        /\ \A r \in 1..Len(host) : host'[r] = host[r]
    BY <2>1, <2>2, <2>3
  <2>5. Len(T) = Len(host') + 1 /\ sp' = T[Len(T)][Len(T[Len(T)])]
    BY <1>4, <1>7, <1>13, <1>15, <2>4
  <2>6. ASSUME NEW r \in 1..Len(host') PROVE host'[r].sp = T[r][Len(T[r])]
    <3>1. r \in 1..R
      BY <1>4, <2>4
    <3>2. CASE r = R
      BY <1>4, <1>14, <2>2, <2>4, <3>2
    <3>3. CASE r # R
      <4>1. r \in 1..(R - 1) /\ r \in 1..Len(host)
        BY <1>1, <1>6, <3>1, <3>3
      <4> QED BY <1>4, <1>13, <2>4, <4>1 DEF Positioned
    <3> QED BY <3>2, <3>3
  <2> QED BY <2>4, <2>5, <2>6 DEF Positioned, Runs, HostFrame
<1>23. Counted(T)'
  <2>0. work' = work + 1 /\ work < MaxWork
    BY <1>7
  <2>1. work \in Nat /\ work <= MaxWork /\ MaxWork \in Nat
    BY <1>4, Layout DEF Counted
  <2>2. ASSUME NEW r \in 1..Len(T) PROVE Len(T[r]) <= work' + 1
    <3>1. r \in 1..(R + 1)
      BY <1>13
    <3>2. CASE r = R
      <4>1. n <= work + 1
        BY <1>1, <1>4 DEF Counted
      <4> QED BY <1>1, <1>14, <2>0, <2>1, <3>2, <4>1
    <3>3. CASE r = R + 1
      <4>1. Len(T[r]) = 1
        BY <1>15, <3>3
      <4> QED BY <2>0, <2>1, <4>1
    <3>4. CASE r # R /\ r # R + 1
      <4>1. r \in 1..(R - 1) /\ r \in 1..Len(S)
        BY <1>1, <3>1, <3>4
      <4>2. Len(S[r]) <= work + 1
        BY <1>4, <4>1 DEF Counted
      <4>3. S[r] \in Seq(Int) /\ T[r] = S[r]
        <5>1. S[r] \in Seq(Int)
          BY <1>1, <4>1
        <5>2. T[r] = S[r]
          BY <1>13, <4>1
        <5> QED BY <5>1, <5>2
      <4>4. Len(S[r]) \in Nat
        BY <4>3
      <4> QED BY <4>4, <2>0, <2>1, <4>2, <4>3
    <3> QED BY <3>2, <3>3, <3>4
  <2>3. work' \in 0..MaxWork
    BY <2>0, <2>1
  <2> QED BY <2>2, <2>3 DEF Counted
<1>24. JumpsLive(T)'
  BY <1>7, <1>8, <1>16, JumpsGrown
<1>25. (~Finished)'
  BY <1>7 DEF Finished
<1>26. LinkedIn(mem, T)' /\ DescribedIn(mem)' /\ Placed(T)'
  BY <1>20, <1>21 DEF LinkedIn, DescribedIn, FrameLinked
<1>27. Stacked(T)'
  BY <1>10, <1>22, <1>23, <1>24, <1>25, <1>26 DEF Stacked
<1>28. ASSUME NEW a \in MemoryWords, a \notin StackWordsOf(R + 1) PROVE mem'[a] = m[a]
  <2>1. a \notin low .. top - 1
    BY <1>5, <1>10, <1>28 DEF StackWordsOf
  <2> QED BY <1>10, <2>1
<1> QED BY <1>0, <1>7, <1>10, <1>11, <1>13, <1>16, <1>27, <1>28 DEF m

-----------------------------------------------------------------------------
(***************************************************************************)
(* The linked program, and the first frame.                                *)
(***************************************************************************)
\* The linked program's descriptors, of functions and of host code.
LEMMA LinkedWords ==
  ASSUME NEW replaced, NEW c \in Callables, NEW m, m = Linked(replaced)
  PROVE  \/ m[Desc[c]].at = "host" /\ m[Desc[c] + 1] = HEADER_SIZE
         \/ c \in Functions /\ m[Desc[c]] = Code(c, "entry") /\ m[Desc[c] + 1] = FrameSize(c)
<1> DEFINE Owner(a) == CHOOSE d \in Callables : a \in {Desc[d], Desc[d] + 1}
<1>1. ASSUME NEW a \in {Desc[c], Desc[c] + 1} PROVE Owner(a) = c
  <2>1. ASSUME NEW d \in Callables, a \in {Desc[d], Desc[d] + 1} PROVE d = c
    <3>1. Desc[c] \in Nat /\ Desc[d] \in Nat
      BY Layout
    <3>2. d # c => Desc[c] > Desc[d] + 1 \/ Desc[d] > Desc[c] + 1
      BY MachineAssumption
    <3> QED BY <1>1, <2>1, <3>1, <3>2
  <2>2. \E d \in Callables : a \in {Desc[d], Desc[d] + 1}
    BY <1>1
  <2>3. Owner(a) \in Callables /\ a \in {Desc[Owner(a)], Desc[Owner(a)] + 1}
    BY <2>2, Zenon
  <2> HIDE DEF Owner
  <2> QED BY <2>1, <2>3
<1>2. Desc[c] \in Nat /\ Desc[c] \in DescWords /\ Desc[c] + 1 \in DescWords
  BY Layout
<1> DEFINE runs == c \in Functions \ replaced
           Word(a) == IF a = Desc[Owner(a)]
                      THEN Code(Owner(a), IF Owner(a) \in Functions \ replaced THEN "entry" ELSE "host")
                      ELSE IF Owner(a) \in Functions \ replaced THEN FrameSize(Owner(a)) ELSE HEADER_SIZE
<1>3. m = [a \in DescWords |-> Word(a)]
  BY DEF Linked
<1> HIDE DEF Owner
<1>4. m[Desc[c]] = Code(c, IF runs THEN "entry" ELSE "host")
  <2>1. Owner(Desc[c]) = c
    BY <1>1
  <2> QED BY <1>2, <1>3, <2>1
<1>5. m[Desc[c] + 1] = IF runs THEN FrameSize(c) ELSE HEADER_SIZE
  <2>1. Owner(Desc[c] + 1) = c /\ Desc[c] + 1 # Desc[c]
    BY <1>1, <1>2
  <2> QED BY <1>2, <1>3, <2>1
<1> QED BY <1>4, <1>5 DEF Code

\* run_function lays one frame, the main function's.
LEMMA InitStacked ==
  ASSUME Init
  PROVE  mem[sp + ENTRY] = Code(Main, "entry") /\ \E S : Stacked(S) /\ Len(S) = 1 /\ Len(S[1]) = 1
<1> DEFINE top == StackTops[1]
           base == EntryBase(Main, top)
           S == <<<<base>>>>
           memory(replaced) == [a \in MemoryWords |-> IF a \in DescWords THEN Linked(replaced)[a] ELSE 0]
           first(replaced) == Entered(memory(replaced), Main, top, 0)
<1>1. PICK replaced \in SUBSET (Functions \ {Main}) : mem = Booted(memory(replaced))
  BY DEF Init
<1>2. 1 \in 1..Len(StackTops) /\ top \in Nat /\ StackWords \in Nat /\ Main \in Functions
  <2>1. 1 \in 1..Len(StackTops)
    BY Layout
  <2> QED BY <2>1, StackAt, MachineAssumption
<1>3. /\ FirstFrame(memory(replaced), first(replaced), base, 1)
      /\ first(replaced)[base + ENTRY] = Code(Main, "entry")
  <2>1. DOMAIN memory(replaced) = MemoryWords
    OBVIOUS
  <2> HIDE DEF memory
  <2> QED BY <1>2, <2>1, EnteredWords
<1>4. mem = [first(replaced) EXCEPT ![base] = top, ![base + 5] = 0, ![base + 6] = 0]
  <2>1. base \in Int
    BY <1>3 DEF FirstFrame
  <2>2. base + CALLER_SP = base /\ base + RESULT_COUNT = base + 5 /\ base + RESUME_PC = base + 6
    BY <2>1 DEF CALLER_SP, RESULT_COUNT, RESUME_PC
  <2> QED BY <1>1, <2>2, Zenon DEF Booted
<1> HIDE DEF memory, first, base
<1>5. /\ base \in Int /\ base >= top - StackWords /\ base + 15 <= top
      /\ DOMAIN first(replaced) = MemoryWords
  BY <1>3 DEF FirstFrame
<1>6. ASSUME NEW a \in base .. top - 1 PROVE a \in MemoryWords
  <2>1. a \in StackWordsOf(1)
    BY <1>2, <1>5 DEF StackWordsOf
  <2> QED BY <1>2, <2>1 DEF MemoryWords
<1>7. DOMAIN mem = MemoryWords
  BY <1>4, <1>5
<1>8. /\ mem[base + CALLER_SP] = top /\ mem[base + RET_PC] = HaltCode
      /\ mem[base + RESULT_PTR] = top - 1 /\ mem[base + ENTRY] = Code(Main, "entry")
  <2>1. base \in MemoryWords
    BY <1>2, <1>5, <1>6
  <2>2. mem[base] = top
    BY <1>4, <1>5, <2>1
  <2>3. /\ mem[base + 1] = first(replaced)[base + 1] /\ mem[base + 4] = first(replaced)[base + 4]
        /\ mem[base + 2] = first(replaced)[base + 2]
    <3>1. ASSUME NEW a \in MemoryWords, a # base, a # base + 5, a # base + 6
          PROVE  mem[a] = first(replaced)[a]
      BY <1>4, <1>5, <3>1
    <3>2. base + 1 \in base .. top - 1 /\ base + 4 \in base .. top - 1 /\ base + 2 \in base .. top - 1
      BY <1>2, <1>5
    <3>5. base + 2 # base /\ base + 2 # base + 5 /\ base + 2 # base + 6
      BY <1>5
    <3>3. base + 1 # base /\ base + 1 # base + 5 /\ base + 1 # base + 6
      BY <1>5
    <3>4. base + 4 # base /\ base + 4 # base + 5 /\ base + 4 # base + 6
      BY <1>5
    <3> QED BY <1>6, <3>1, <3>2, <3>3, <3>4, <3>5
  <2>4. /\ first(replaced)[base + RET_PC] = HaltCode
        /\ first(replaced)[base + RESULT_PTR] = top - 1
        /\ first(replaced)[base + ENTRY] = Code(Main, "entry")
    BY <1>3 DEF FirstFrame
  <2>5. base + CALLER_SP = base
    BY <1>5 DEF CALLER_SP
  <2> QED BY <2>2, <2>3, <2>4, <2>5 DEF RET_PC, RESULT_PTR, ENTRY
<1>9. DescribedIn(mem)
  <2>1. ASSUME NEW a \in DescWords PROVE mem[a] = Linked(replaced)[a]
    <3>1. a \in Nat /\ a < base /\ a \in MemoryWords
      <4>1. a \in Nat /\ a < top - StackWords
        BY <1>2, Layout
      <4> QED BY <1>2, <1>5, <4>1 DEF MemoryWords
    <3>2. a \notin base .. top - 1
      BY <1>2, <1>5, <3>1
    <3>3. first(replaced)[a] = memory(replaced)[a]
      BY <1>3, <3>1, <3>2 DEF FirstFrame
    <3>4. memory(replaced)[a] = Linked(replaced)[a]
      BY <3>1 DEF memory
    <3>5. a # base /\ a # base + 5 /\ a # base + 6
      BY <1>5, <3>1
    <3>6. mem[a] = first(replaced)[a]
      BY <1>4, <1>5, <3>1, <3>5
    <3> QED BY <3>3, <3>4, <3>6
  <2>2. ASSUME NEW c \in Callables
        PROVE  mem[Desc[c]] = Linked(replaced)[Desc[c]] /\ mem[Desc[c] + 1] = Linked(replaced)[Desc[c] + 1]
    BY <2>1, Layout
  <2> QED BY <2>2, LinkedWords DEF DescribedIn
<1>10. /\ S \in Seq(Seq(Int)) /\ Len(S) = 1 /\ S[1] = <<base>> /\ Len(S[1]) = 1 /\ S[1][1] = base
  BY <1>5
<1> HIDE DEF S
<1>11. ASSUME NEW r \in 1..Len(S), NEW i \in 1..Len(S[r]) PROVE r = 1 /\ i = 1
  <2>1. r = 1
    BY <1>10
  <2>2. i \in 1..1
    BY <1>10, <2>1
  <2> QED BY <2>1, <2>2
<1>12. Placed(S)
  <2>1. FrameAt(S, 1, 1)
    <3>1. WordsOf(S, 1, 1) = 15
      BY <1>10 DEF WordsOf, IsHostFrame, HEADER_SIZE
    <3>2. \A j \in 1..(1 - 1) : FALSE
      OBVIOUS
    <3> QED BY <1>5, <1>10, <3>1, <3>2 DEF FrameAt
  <2>2. ASSUME NEW r \in 1..Len(S) PROVE Len(S[r]) >= 1 /\ (r < Len(S) => Len(S[r]) > 1)
    <3>1. r = 1
      BY <1>10
    <3>2. Len(S[r]) = 1 /\ Len(S) = 1
      BY <1>10, <3>1
    <3> QED BY <3>1, <3>2
  <2>3. Len(S) \in 1..Len(StackTops)
    BY <1>2, <1>10
  <2> QED BY <1>10, <1>11, <2>1, <2>2, <2>3 DEF Placed
<1>13. LinkedIn(mem, S)
  <2>1. FrameLinked(mem, S, 1, 1)
    BY <1>8, <1>10 DEF FrameLinked, EndOf, CallerOf
  <2> QED BY <1>11, <2>1 DEF LinkedIn
<1>14. sp = base /\ host = <<>> /\ halted = FALSE /\ work = 0 /\ jmps = [env \in JmpBufs |-> NoJmp]
  BY DEF Init, base
<1>15. Positioned(S)
  BY <1>10, <1>14 DEF Positioned, Runs
<1>16. Counted(S)
  <2>1. \A r \in 1..Len(S) : Len(S[r]) <= work + 1
    <3>1. \A r \in 1..Len(S) : Len(S[r]) = 1
      <4>1. \A r \in 1..Len(S) : r = 1
        BY <1>10
      <4> QED BY <1>10, <4>1
    <3>2. 1 <= work + 1
      BY <1>14
    <3> QED BY <3>1, <3>2
  <2> QED BY <1>14, <2>1, Layout DEF Counted
<1>17. JumpsLive(S) /\ ~Finished
  BY <1>14 DEF JumpsLive, Finished
<1>18. Stacked(S)
  BY <1>7, <1>9, <1>12, <1>13, <1>15, <1>16, <1>17 DEF Stacked
<1> QED BY <1>8, <1>10, <1>14, <1>18

-----------------------------------------------------------------------------
(***************************************************************************)
(* Every step keeps the invariant.                                         *)
(***************************************************************************)
\* Every step of a machine that is not finished.
LEMMA StackedStep == ASSUME NEW S, Stacked(S), [Next]_vars PROVE FramesInv'
<1>1. CASE UNCHANGED vars
  <2>1. Keeps(S, mem')
    BY <1>1, NothingWritten DEF vars
  <2>2. work' \in Nat /\ work <= work' /\ work' <= MaxWork
    BY <1>1, Layout DEF vars, Stacked, Counted
  <2> QED BY <1>1, <2>1, <2>2, SameFrames, SameJumps DEF vars, FramesInv
<1>2. CASE Enter
  BY <1>2, EnterKeeps DEF FramesInv
<1>3. CASE Resume
  BY <1>3, ResumeKeeps DEF FramesInv
<1>4. CASE FinishNested
  BY <1>4, FinishKeeps DEF FramesInv
<1>5. ASSUME NEW i \in 1..2, Return(i) PROVE FramesInv'
  <2>1. Len(S[Len(S)]) = 1 \/ Len(S[Len(S)]) > 1
    <3>1. Len(S[Len(S)]) \in Nat \ {0}
      BY Current
    <3>2. ASSUME NEW x \in Nat \ {0} PROVE x = 1 \/ x > 1
      BY <3>2
    <3> QED BY <3>1, <3>2
  <2>2. CASE Len(S[Len(S)]) = 1
    BY <1>5, <2>2, ReturnHalts DEF FramesInv
  <2>3. CASE Len(S[Len(S)]) > 1
    BY <1>5, <2>3, ReturnToCaller DEF FramesInv
  <2> QED BY <2>1, <2>2, <2>3
<1>6. ASSUME NEW i \in 1..2, NEW v \in Values, Assign(i, v) PROVE FramesInv'
  BY <1>6, AssignKeeps DEF FramesInv
<1>7. ASSUME NEW g \in Functions, NEW site \in {"value", "discard"}, Call(g, site) PROVE FramesInv'
  BY <1>7, CallKeeps DEF FramesInv
<1>8. ASSUME NEW g \in Functions, NEW site \in {"value", "discard"}, CallNested(g, site) PROVE FramesInv'
  BY <1>8, CallNestedKeeps DEF FramesInv
<1>9. ASSUME NEW g \in Functions \cup Services, NEW site \in {"value", "discard"}, NEW v \in Values,
             CallService(g, site, v)
      PROVE  FramesInv'
  BY <1>9, ServiceKeeps DEF FramesInv
<1>10. ASSUME NEW g \in Services, NEW env \in JmpBufs, Setjmp(g, env) PROVE FramesInv'
  BY <1>10, SetjmpKeeps DEF FramesInv
<1>11. ASSUME NEW g \in Services, NEW env \in JmpBufs, NEW v \in Values, Longjmp(g, env, v)
       PROVE  FramesInv'
  BY <1>11, LongjmpKeeps DEF FramesInv
<1> QED BY <1>1, <1>2, <1>3, <1>4, <1>5, <1>6, <1>7, <1>8, <1>9, <1>10, <1>11 DEF Next

\* Once the outermost run has halted nothing happens any more.
LEMMA FinishedStep == ASSUME Finished, [Next]_vars PROVE Finished'
<1>1. ~Enter /\ ~Resume /\ ~FinishNested
  BY DEF Finished, Enter, Resume, FinishNested
<1>2. ASSUME NEW i \in 1..2 PROVE ~Return(i) /\ \A v \in Values : ~Assign(i, v)
  BY DEF Finished, Return, Assign, InBody
<1>3. ASSUME NEW g, NEW site PROVE ~MayCall(g, site)
  BY DEF Finished, MayCall, InBody
<1>4. ASSUME NEW g, NEW site PROVE ~Call(g, site) /\ ~CallNested(g, site) /\ \A v : ~CallService(g, site, v)
  BY <1>3 DEF Call, CallNested, CallService
<1>5. ASSUME NEW g, NEW env PROVE ~Setjmp(g, env) /\ \A v : ~Longjmp(g, env, v)
  BY <1>3 DEF Setjmp, Longjmp
<1>6. ~Next
  BY <1>1, <1>2, <1>4, <1>5 DEF Next
<1> QED BY <1>6 DEF Finished, vars

\* The frames of the live runs are laid out as Stacked says.
THEOREM FramesStacked == Spec => []FramesInv
<1>1. Init => FramesInv
  BY InitStacked DEF FramesInv
<1>2. FramesInv /\ [Next]_vars => FramesInv'
  BY StackedStep, FinishedStep DEF FramesInv
<1> QED BY <1>1, <1>2, PTL DEF Spec
-----------------------------------------------------------------------------
(***************************************************************************)
(* What the machine's memory says of the frames.                           *)
(***************************************************************************)

\* The last c elements of a sequence.
LastOf(s, c) == [k \in 1..c |-> s[Len(s) - c + k]]

\* Induction on a set.
LEMMA NatSets ==
  ASSUME NEW T, 0 \in T, \A n \in Nat : n \in T => n + 1 \in T
  PROVE  Nat \subseteq T
<1> SUFFICES ASSUME Nat \ T # {} PROVE FALSE
  OBVIOUS
<1>1. PICK x \in Nat \ T : \A y \in Nat \ T : ~ (<<y, x>> \in OpToRel(<, Nat))
  <2>1. Nat \ T \subseteq Nat
    OBVIOUS
  <2>2. IsWellFoundedOn(OpToRel(<, Nat), Nat)
    BY NatLessThanWellFounded
  <2> HIDE DEF OpToRel
  <2> QED BY <2>1, <2>2, WFMin, Zenon
<1>2. \A y \in Nat \ T : ~ (y < x)
  BY <1>1 DEF OpToRel
<1>3. x # 0 /\ x - 1 \in Nat /\ x - 1 < x
  OBVIOUS
<1>4. x - 1 \in T
  BY <1>2, <1>3
<1>5. (x - 1) + 1 \in T
  BY <1>3, <1>4
<1> QED BY <1>5

\* Following CALLER_SP once more adds the frame before, if there is one.
LEMMA OneMore ==
  ASSUME NEW S, Stacked(S), NEW r \in 1..Len(S), NEW c \in 1..Len(S[r])
  PROVE  WithCaller[LastOf(S[r], c)] = IF c < Len(S[r]) THEN LastOf(S[r], c + 1) ELSE LastOf(S[r], c)
<1> DEFINE s == S[r]
           L == Len(s)
           i == L - c + 1
           last == LastOf(s, c)
<1>1. Placed(S) /\ LinkedIn(mem, S) /\ DOMAIN mem = MemoryWords
  BY DEF Stacked
<1>2. s \in Seq(Int) /\ L \in Nat
  BY <1>1, PlaceOf
<1>3. c \in Nat /\ 1 <= c /\ c <= L /\ i \in 1..L
  BY <1>2
<1>4. last \in Seq(Int) /\ Len(last) = c
  <2>1. \A k \in 1..c : s[L - c + k] \in Int
    BY <1>2, <1>3
  <2> QED BY <1>3, <2>1 DEF LastOf
<1>5. last[1] = s[i]
  <2>1. 1 \in 1..c
    BY <1>3
  <2> QED BY <2>1 DEF LastOf
<1>6. s[i] \in Int /\ s[i] + RET_PC \in MemoryWords
  <2>1. s[i] \in Int /\ EndOf(S, r, i) \in Int /\ s[i] + WordsOf(S, r, i) <= EndOf(S, r, i)
        /\ WordsOf(S, r, i) \in {10, 15}
    BY <1>1, <1>3, PlaceOf
  <2>2. s[i] + 10 <= EndOf(S, r, i)
    BY <2>1
  <2>3. s[i] + RET_PC \in Int /\ s[i] <= s[i] + RET_PC /\ s[i] + RET_PC < EndOf(S, r, i)
    BY <2>1, <2>2 DEF RET_PC
  <2> QED BY <1>1, <1>3, <2>1, <2>3, InExtent
<1>7. /\ mem[s[i] + CALLER_SP] = CallerOf(S, r, i)
      /\ (mem[s[i] + RET_PC] = HaltCode) <=> i = 1
  BY <1>1, <1>3 DEF LinkedIn, FrameLinked
<1>8. IsFirst(last[1]) <=> i = 1
  BY <1>1, <1>5, <1>6, <1>7 DEF IsFirst
<1>9. WithCaller[last] = IF IsFirst(last[1]) THEN last ELSE <<mem[last[1] + CALLER_SP]>> \o last
  BY <1>4 DEF WithCaller
<1>10. CASE c = L
  BY <1>2, <1>8, <1>9, <1>10
<1>11. CASE c < L
  <2>1. i > 1 /\ i # 1 /\ i - 1 = L - c /\ i - 1 \in 1..L
    BY <1>2, <1>3, <1>11
  <2>2. WithCaller[last] = <<s[i - 1]>> \o last
    BY <1>5, <1>7, <1>8, <1>9, <2>1 DEF CallerOf
  <2> HIDE DEF last
  <2>3. s[i - 1] \in Int
    BY <1>2, <2>1
  <2>4. <<s[i - 1]>> \o last = LastOf(s, c + 1)
    <3> DEFINE x == <<s[i - 1]>> \o last
               y == LastOf(s, c + 1)
    <3>1. x \in Seq(Int) /\ Len(x) = c + 1
      BY <1>3, <1>4, <2>3
    <3>2. y = [k \in 1..(c + 1) |-> s[L - (c + 1) + k]]
      BY DEF LastOf
    <3>3. ASSUME NEW k \in 1..(c + 1) PROVE x[k] = y[k]
      <4>1. CASE k = 1
        <5>1. x[1] = s[i - 1]
          BY <1>4, <2>3
        <5>2. L - (c + 1) + 1 = i - 1
          BY <1>2, <1>3
        <5> QED BY <3>2, <4>1, <5>1, <5>2
      <4>2. CASE k # 1
        <5>1. k - 1 \in 1..c /\ k - 1 \in 1..Len(last)
          BY <1>3, <1>4, <4>2
        <5>2. x[k] = last[k - 1]
          BY <1>4, <2>3, <5>1, <4>2
        <5>3. last[k - 1] = s[L - c + (k - 1)]
          BY <5>1 DEF last, LastOf
        <5>4. L - c + (k - 1) = L - (c + 1) + k
          BY <1>2, <1>3
        <5> QED BY <3>2, <5>2, <5>3, <5>4
      <4> QED BY <4>1, <4>2
    <3> HIDE DEF x, y
    <3>4. x = [k \in 1..(c + 1) |-> x[k]]
      BY <1>3, <3>1
    <3> QED BY <3>2, <3>3, <3>4 DEF x, y
  <2> QED BY <1>11, <2>2, <2>4 DEF last
<1> QED BY <1>2, <1>3, <1>10, <1>11

\* The frames found in memory are the frames of the run.
LEMMA ChainFound ==
  ASSUME NEW S, Stacked(S), NEW r \in 1..Len(S)
  PROVE  Chain(S[r][Len(S[r])]) = S[r]
<1> DEFINE s == S[r]
           L == Len(s)
           from == s[L]
           Found(n) == LastOf(s, IF n < L THEN n + 1 ELSE L)
           Follows(f) == f = [n \in 0..MaxWork |-> IF n = 0 THEN <<from>> ELSE WithCaller[f[n - 1]]]
           chain == CHOOSE f : Follows(f)
           found == [n \in 0..MaxWork |-> Found(n)]
<1>1. s \in Seq(Int) /\ L \in Nat /\ L >= 1 /\ L <= MaxWork + 1 /\ MaxWork \in Nat
  <2>1. Placed(S) /\ L <= work + 1 /\ work \in 0..MaxWork
    BY DEF Stacked, Counted
  <2>2. s \in Seq(Int) /\ L \in Nat
    BY <2>1, Layout DEF Placed
  <2>3. L >= 1 /\ MaxWork \in Nat
    BY <2>1, Layout DEF Placed
  <2> QED BY <2>1, <2>2, <2>3
<1>2. Chain(from) = chain[MaxWork]
  BY DEF Chain
<1>3. Found(0) = <<from>>
  <2>1. (IF 0 < L THEN 0 + 1 ELSE L) = 1
    BY <1>1
  <2>2. LastOf(s, 1) = [k \in 1..1 |-> s[L - 1 + k]]
    BY DEF LastOf
  <2>3. \A k \in 1..1 : s[L - 1 + k] = from
    BY <1>1
  <2>4. [k \in 1..1 |-> s[L - 1 + k]] = [k \in 1..1 |-> from]
    BY <2>3
  <2>5. [k \in 1..1 |-> from] = <<from>>
    OBVIOUS
  <2> QED BY <2>1, <2>2, <2>4, <2>5
<1>4. ASSUME NEW n \in Nat PROVE WithCaller[Found(n)] = Found(n + 1)
  <2>1. CASE n + 1 < L
    <3>1. n < L /\ n + 1 \in 1..L
      BY <1>1, <2>1
    <3> QED BY <2>1, <3>1, OneMore
  <2>2. CASE n + 1 = L
    <3>1. n < L /\ ~(n + 1 < L) /\ n + 1 \in 1..L
      BY <1>1, <2>2
    <3> QED BY <2>2, <3>1, OneMore
  <2>3. CASE n + 1 > L
    <3>1. ~(n < L) /\ ~(n + 1 < L) /\ L \in 1..L /\ ~(L < L)
      BY <1>1, <2>3
    <3> QED BY <3>1, OneMore
  <2> QED BY <1>1, <2>1, <2>2, <2>3
<1> HIDE DEF Found
<1>5. Follows(found)
  <2>1. ASSUME NEW n \in 0..MaxWork
        PROVE  Found(n) = IF n = 0 THEN <<from>> ELSE WithCaller[found[n - 1]]
    <3>1. CASE n = 0
      BY <1>3, <3>1
    <3>2. CASE n # 0
      <4>1. n - 1 \in 0..MaxWork /\ n - 1 \in Nat /\ (n - 1) + 1 = n
        BY <1>1, <3>2
      <4>2. found[n - 1] = Found(n - 1)
        BY <4>1
      <4>3. WithCaller[Found(n - 1)] = Found((n - 1) + 1)
        BY <1>4, <4>1
      <4> HIDE DEF found
      <4> QED BY <3>2, <4>1, <4>2, <4>3
    <3> QED BY <3>1, <3>2
  <2> QED BY <2>1
<1>6. Follows(chain)
  <2> HIDE DEF Follows, found
  <2> QED BY <1>5
<1>7. chain[0] = <<from>>
  <2> HIDE DEF chain
  <2>1. 0 \in 0..MaxWork
    BY <1>1
  <2> QED BY <1>6, <2>1
<1>8. ASSUME NEW n \in Nat, n + 1 <= MaxWork PROVE chain[n + 1] = WithCaller[chain[n]]
  <2> HIDE DEF chain
  <2>1. n + 1 \in 0..MaxWork /\ n + 1 # 0 /\ (n + 1) - 1 = n
    BY <1>1, <1>8
  <2> QED BY <1>6, <2>1
<1> HIDE DEF chain
<1> DEFINE Reached == {n \in Nat : n <= MaxWork => chain[n] = Found(n)}
<1>9. Nat \subseteq Reached
  <2>1. 0 \in Reached
    BY <1>3, <1>7
  <2>2. ASSUME NEW n \in Nat, n \in Reached PROVE n + 1 \in Reached
    <3>1. ASSUME n + 1 <= MaxWork PROVE chain[n + 1] = Found(n + 1)
      <4>1. n <= MaxWork
        BY <1>1, <3>1
      <4>2. chain[n] = Found(n)
        BY <2>2, <4>1
      <4> QED BY <1>4, <1>8, <3>1, <4>2
    <3>2. n + 1 \in Nat
      OBVIOUS
    <3> QED BY <3>1, <3>2
  <2> HIDE DEF Reached
  <2> QED BY <2>1, <2>2, NatSets
<1>10. chain[MaxWork] = Found(MaxWork)
  <2>1. MaxWork \in Nat /\ MaxWork <= MaxWork
    BY <1>1
  <2>2. MaxWork \in Reached
    BY <1>9, <2>1
  <2> QED BY <2>1, <2>2
<1>11. Found(MaxWork) = s
  <2>1. (IF MaxWork < L THEN MaxWork + 1 ELSE L) = L
    BY <1>1
  <2>2. \A k \in 1..L : L - L + k = k
    BY <1>1
  <2>3. [k \in 1..L |-> s[L - L + k]] = [k \in 1..L |-> s[k]]
    BY <2>2
  <2>4. [k \in 1..L |-> s[k]] = s
    BY <1>1
  <2> QED BY <2>1, <2>3, <2>4 DEF Found, LastOf
<1> QED BY <1>2, <1>10, <1>11

\* The frames of every run that is not finished are those of S.
LEMMA FramesFound ==
  ASSUME NEW S, Stacked(S), NEW run \in 1..Runs
  PROVE  run \in 1..Len(S) /\ FramesOf(run) = S[run]
<1>1. Positioned(S) /\ Len(S) = Runs /\ Len(S) \in Nat
  BY Current, Layout DEF Stacked
<1>2. run \in 1..Len(S)
  BY <1>1
<1>3. CASE run = Runs
  <2>1. sp = S[run][Len(S[run])]
    BY <1>1, <1>3 DEF Positioned
  <2> QED BY <1>2, <1>3, <2>1, ChainFound DEF FramesOf
<1>4. CASE run # Runs
  <2>1. run \in 1..Len(host)
    <3>1. Len(host) + 1 = Runs /\ Len(host) \in Nat
      <4>1. host \in Seq([sp : Int, result : Int])
        BY <1>1 DEF Positioned
      <4> QED BY <4>1 DEF Runs
    <3> QED BY <1>4, <3>1
  <2>2. host[run].sp = S[run][Len(S[run])]
    BY <1>1, <2>1 DEF Positioned
  <2> QED BY <1>2, <1>4, <2>2, ChainFound DEF FramesOf
<1> QED BY <1>2, <1>3, <1>4

\* Frames laid out as Stacked says are on their stacks and apart.
LEMMA StackedApart == ASSUME NEW S, Stacked(S) PROVE FramesApart
<1>1. Placed(S) /\ LinkedIn(mem, S)
  BY DEF Stacked
<1> SUFFICES ASSUME NEW run \in 1..Runs
             PROVE  LET frames == FramesOf(run)
                    IN  \A i \in DOMAIN frames :
                          /\ Extent(frames[i]) \subseteq StackWordsOf(run)
                          /\ \A j \in DOMAIN frames :
                               i # j => Extent(frames[i]) \cap Extent(frames[j]) = {}
  BY Zenon DEF FramesApart
<1> DEFINE s == S[run]
<1>2. run \in 1..Len(S) /\ FramesOf(run) = s
  BY FramesFound
<1>3. s \in Seq(Int) /\ Len(s) \in Nat /\ DOMAIN s = 1..Len(s)
  <2>1. s \in Seq(Int)
    BY <1>1, <1>2, Layout DEF Placed
  <2> QED BY <2>1
<1>4. ASSUME NEW i \in 1..Len(s)
      PROVE  Extent(s[i]) = s[i] .. EndOf(S, run, i) - 1
  BY <1>1, <1>2, <1>4 DEF Extent, LinkedIn, FrameLinked
<1>5. ASSUME NEW i \in 1..Len(s) PROVE Extent(s[i]) \subseteq StackWordsOf(run)
  <2>1. /\ run \in 1..Len(StackTops) /\ s[i] \in Int /\ s[i] >= StackTops[run] - StackWords
        /\ EndOf(S, run, i) \in Int /\ EndOf(S, run, i) <= StackTops[run]
    BY <1>1, <1>2, PlaceOf
  <2>2. StackTops[run] \in Nat /\ StackWords \in Nat
    BY <2>1, StackAt
  <2>3. Extent(s[i]) = s[i] .. EndOf(S, run, i) - 1
    BY <1>4
  <2>4. ASSUME NEW a \in s[i] .. EndOf(S, run, i) - 1 PROVE a \in StackWordsOf(run)
    <3>1. a \in Int /\ s[i] <= a /\ a < EndOf(S, run, i) /\ StackTops[run] - StackWords <= s[i]
      BY <2>1, <2>2
    <3> QED BY <2>1, <3>1, Between
  <2> QED BY <2>3, <2>4
<1>6. ASSUME NEW i \in 1..Len(s), NEW j \in 1..Len(s), j < i
      PROVE  Extent(s[i]) \cap Extent(s[j]) = {}
  <2>1. EndOf(S, run, i) <= s[j]
    <3>1. i # 1 /\ i - 1 \in 1..Len(s) /\ EndOf(S, run, i) = s[i - 1]
      BY <1>3, <1>6 DEF EndOf
    <3>2. CASE j = i - 1
      <4>1. s[j] \in Int
        BY <1>3
      <4> QED BY <3>1, <3>2, <4>1
    <3>3. CASE j # i - 1
      <4>1. j \in 1..((i - 1) - 1)
        BY <1>3, <1>6, <3>3
      <4>2. /\ s[i - 1] + WordsOf(S, run, i - 1) <= s[j] /\ s[i - 1] \in Int /\ s[j] \in Int
            /\ WordsOf(S, run, i - 1) \in {10, 15}
        BY <1>1, <1>2, <1>3, <3>1, <4>1, PlaceOf
      <4>3. ASSUME NEW x \in Int, NEW y \in Int, NEW w \in {10, 15}, x + w <= y PROVE x <= y
        BY <4>3
      <4> QED BY <3>1, <4>2, <4>3
    <3> QED BY <3>2, <3>3
  <2>2. /\ s[i] \in Int /\ s[j] \in Int /\ EndOf(S, run, i) \in Int /\ EndOf(S, run, j) \in Int
    BY <1>1, <1>2, PlaceOf
  <2>3. Extent(s[i]) = s[i] .. EndOf(S, run, i) - 1 /\ Extent(s[j]) = s[j] .. EndOf(S, run, j) - 1
    BY <1>4
  <2> QED BY <2>1, <2>2, <2>3
<1>7. ASSUME NEW i \in 1..Len(s), NEW j \in 1..Len(s), i # j
      PROVE  Extent(s[i]) \cap Extent(s[j]) = {}
  <2>1. j < i \/ i < j
    BY <1>7
  <2>2. CASE j < i
    BY <1>6, <2>2
  <2>3. CASE i < j
    BY <1>6, <2>3
  <2> QED BY <2>1, <2>2, <2>3
<1> HIDE DEF s
<1> QED BY <1>2, <1>3, <1>5, <1>7

\* The extents of the live frames of a run are on its stack and disjoint.
THEOREM FramesApartHolds == Spec => []FramesApart
<1>1. FramesInv => FramesApart
  BY StackedApart DEF FramesInv, FramesApart
<1> QED BY <1>1, FramesStacked, PTL
-----------------------------------------------------------------------------
(***************************************************************************)
(* What the frames hold.                                                   *)
(***************************************************************************)

\* The words of a frame that an activation is read from, beside its links.
InnerAt(S, r, i) == IF IsHostFrame(S, r, i) THEN {RESULT_COUNT} ELSE {ENTRY} \cup 8..12
Inner(S, a) == \E r \in 1..Len(S) : \E i \in 1..Len(S[r]) : a - S[r][i] \in InnerAt(S, r, i)

\* The cells of the running frame, which a step may write.
OwnCells == sp + 8 .. sp + 12

\* Memory m has all frames but the running one as they are.
Calm(S, m) == \A a \in MemoryWords : Inner(S, a) /\ a \notin OwnCells => m[a] = mem[a]
Undisturbed(S) == Keeps(S, mem') /\ Calm(S, mem')

\* A suspended frame's call site knows where its result will be.
Awaits(m, frame, site) == site \in Sites /\ m[frame + SiteCell(site)] = frame - 1

HeldAt(m, S, r, i) ==
  /\ ~IsHostFrame(S, r, i) => m[S[r][i] + ENTRY].fn \in Functions
  /\ i < Len(S[r]) => Awaits(m, S[r][i], m[S[r][i + 1] + RET_PC].at)
  /\ IsHostFrame(S, r, i) => m[S[r][i] + RESULT_COUNT] = Wants[m[S[r][i] + RET_PC].at]
Held(m, S) == \A r \in 1..Len(S) : \A i \in 1..Len(S[r]) : HeldAt(m, S, r, i)

\* Where the running frame is in its text.
Running(S) ==
  /\ pc.at \in {"entry", "body"} \cup Sites
  /\ pc.at \in Sites => Awaits(mem, sp, pc.at)
  /\ halted => /\ pc.at = "body" /\ Len(S[Len(S)]) = 1
               /\ \E i \in 1..2 : mem[StackTops[Len(S)] - 1] = Var(i)

\* What the host and the jump buffers remember.
Remembered ==
  /\ \A r \in 1..Len(host) : host[r].result = StackTops[r + 1] - 1
  /\ \A env \in JmpBufs :
       jmps[env] # NoJmp => jmps[env].pc.at = "setjmp" /\ Awaits(mem, jmps[env].sp, "setjmp")

Detailed(S) == Stacked(S) /\ Held(mem, S) /\ Running(S) /\ Remembered

ActivationsInv == Finished \/ \E S : Detailed(S)

-----------------------------------------------------------------------------
(***************************************************************************)
(* Steps that disturb no frame.                                            *)
(***************************************************************************)

\* Inner words are within the least size of a frame, and none is a header's RESUME_PC.
LEMMA InnerRange ==
  ASSUME NEW S, NEW r, NEW i, NEW a \in Int, NEW f \in Int, a - f \in InnerAt(S, r, i)
  PROVE  /\ f <= a /\ a # f + RESUME_PC
         /\ IF IsHostFrame(S, r, i) THEN a = f + RESULT_COUNT ELSE a <= f + 12
BY DEF InnerAt, ENTRY, RESULT_COUNT, RESUME_PC

\* A word of a stack that is inner to none of its frames is inner to no frame.
LEMMA NotInner ==
  ASSUME NEW S, Placed(S), NEW r \in 1..Len(StackTops), NEW a \in StackWordsOf(r),
         r <= Len(S) => \A i \in 1..Len(S[r]) : a - S[r][i] \notin InnerAt(S, r, i)
  PROVE  ~Inner(S, a)
<1>1. a \in Int
  BY Layout DEF StackWordsOf
<1>2. ASSUME NEW t \in 1..Len(S), NEW i \in 1..Len(S[t]), a - S[t][i] \in InnerAt(S, t, i)
      PROVE  FALSE
  <2>1. /\ t \in 1..Len(StackTops) /\ StackTops[t] \in Nat /\ StackWords \in Nat /\ S[t][i] \in Int
        /\ S[t][i] >= StackTops[t] - StackWords /\ WordsOf(S, t, i) \in {10, 15}
        /\ S[t][i] + WordsOf(S, t, i) <= StackTops[t] /\ Len(S) \in Nat
    BY HeaderAt, PlaceOf
  <2>2. S[t][i] <= a /\ a < S[t][i] + WordsOf(S, t, i)
    <3>1. /\ S[t][i] <= a
          /\ IF IsHostFrame(S, t, i) THEN a = S[t][i] + RESULT_COUNT ELSE a <= S[t][i] + 12
      BY <1>1, <1>2, <2>1, InnerRange
    <3> QED BY <1>1, <2>1, <3>1, SMTT(30) DEF WordsOf, HEADER_SIZE, RESULT_COUNT
  <2>3. S[t][i] + WordsOf(S, t, i) \in Int /\ StackTops[t] - StackWords <= S[t][i]
    BY <2>1
  <2>4. a \in StackWordsOf(t)
    BY <1>1, <2>1, <2>2, <2>3, Between
  <2>5. t = r
    BY <2>1, <2>4, OneStack
  <2>6. r <= Len(S)
    BY <2>1, <2>5
  <2> QED BY <1>2, <2>5, <2>6
<1> QED BY <1>2 DEF Inner

\* The same within the extent of one frame.
LEMMA NotInnerExtent ==
  ASSUME NEW S, Placed(S), NEW r \in 1..Len(S), NEW i \in 1..Len(S[r]), NEW a \in Int,
         S[r][i] <= a, a < EndOf(S, r, i), a - S[r][i] \notin InnerAt(S, r, i)
  PROVE  ~Inner(S, a)
<1>1. /\ r \in 1..Len(StackTops) /\ Len(S[r]) \in Nat /\ S[r][i] \in Int
      /\ S[r][i] >= StackTops[r] - StackWords
      /\ EndOf(S, r, i) \in Int /\ EndOf(S, r, i) <= StackTops[r]
  BY PlaceOf
<1>2. a \in StackWordsOf(r)
  <2>1. StackTops[r] \in Nat /\ StackWords \in Nat
    BY <1>1, StackAt
  <2>2. StackTops[r] - StackWords <= S[r][i]
    BY <1>1, <2>1
  <2> QED BY <1>1, <2>2, Between
<1>3. ASSUME NEW j \in 1..Len(S[r]) PROVE a - S[r][j] \notin InnerAt(S, r, j)
  <2>1. S[r][j] \in Int /\ WordsOf(S, r, j) \in {10, 15}
    BY PlaceOf
  <2>2. CASE j = i
    BY <2>2
  <2>3. CASE j > i
    <3>1. i \in 1..(j - 1)
      BY <1>1, <2>3
    <3>2. S[r][j] + WordsOf(S, r, j) <= S[r][i]
      BY <3>1, PlaceOf
    <3>3. S[r][j] + WordsOf(S, r, j) <= a
      <4>1. ASSUME NEW x \in Int, NEW y \in Int, NEW w \in {10, 15}, x + w <= y, y <= a PROVE x + w <= a
        BY <4>1
      <4> QED BY <1>1, <2>1, <3>2, <4>1
    <3> SUFFICES ASSUME a - S[r][j] \in InnerAt(S, r, j) PROVE FALSE
      OBVIOUS
    <3>4. IF IsHostFrame(S, r, j) THEN a = S[r][j] + RESULT_COUNT ELSE a <= S[r][j] + 12
      BY <2>1, InnerRange
    <3> QED BY <2>1, <3>3, <3>4 DEF WordsOf, HEADER_SIZE, RESULT_COUNT
  <2>4. CASE j < i
    <3>1. i # 1 /\ EndOf(S, r, i) = S[r][i - 1] /\ i - 1 \in 1..Len(S[r])
      BY <1>1, <2>4, SMTT(30) DEF EndOf
    <3>2. EndOf(S, r, i) <= S[r][j]
      <4>1. CASE j = i - 1
        BY <1>1, <3>1, <4>1
      <4>2. CASE j # i - 1
        <5>1. j \in 1..((i - 1) - 1)
          BY <1>1, <2>4, <4>2
        <5>2. /\ S[r][i - 1] + WordsOf(S, r, i - 1) <= S[r][j] /\ S[r][i - 1] \in Int
              /\ WordsOf(S, r, i - 1) \in {10, 15}
          BY <3>1, <5>1, PlaceOf
        <5> QED BY <2>1, <3>1, <5>2, SMTT(30)
      <4> QED BY <4>1, <4>2
    <3>3. a < S[r][j]
      BY <1>1, <2>1, <3>2
    <3> SUFFICES ASSUME a - S[r][j] \in InnerAt(S, r, j) PROVE FALSE
      OBVIOUS
    <3>4. S[r][j] <= a
      BY <2>1, InnerRange
    <3> QED BY <2>1, <3>3, <3>4
  <2> QED BY <1>1, <2>2, <2>3, <2>4
<1> QED BY <1>1, <1>2, <1>3, NotInner

\* The last word of an extent, to which the result goes.
LEMMA ResultNotInner ==
  ASSUME NEW S, Placed(S), NEW r \in 1..Len(S), NEW i \in 1..Len(S[r])
  PROVE  ~Inner(S, EndOf(S, r, i) - 1)
<1>1. /\ S[r][i] \in Int /\ EndOf(S, r, i) \in Int /\ WordsOf(S, r, i) \in {10, 15}
      /\ S[r][i] + WordsOf(S, r, i) <= EndOf(S, r, i)
  BY PlaceOf
<1>2. PICK a \in Int : a = EndOf(S, r, i) - 1
  BY <1>1
<1>3. S[r][i] <= a /\ a < EndOf(S, r, i)
  BY <1>1, <1>2
<1>4. ASSUME a - S[r][i] \in InnerAt(S, r, i) PROVE FALSE
  <2>1. IF IsHostFrame(S, r, i) THEN a = S[r][i] + RESULT_COUNT ELSE a <= S[r][i] + 12
    BY <1>1, <1>4, InnerRange
  <2> QED BY <1>1, <1>2, <2>1 DEF WordsOf, HEADER_SIZE, RESULT_COUNT
<1> QED BY <1>2, <1>3, <1>4, NotInnerExtent

\* A frame's RESUME_PC.
LEMMA ResumeNotInner ==
  ASSUME NEW S, Placed(S), NEW r \in 1..Len(S), NEW i \in 1..Len(S[r])
  PROVE  ~Inner(S, S[r][i] + RESUME_PC)
<1>1. /\ S[r][i] \in Int /\ EndOf(S, r, i) \in Int /\ WordsOf(S, r, i) \in {10, 15}
      /\ S[r][i] + WordsOf(S, r, i) <= EndOf(S, r, i)
  BY PlaceOf
<1>2. PICK a \in Int : a = S[r][i] + RESUME_PC
  BY <1>1 DEF RESUME_PC
<1>3. S[r][i] <= a /\ a < EndOf(S, r, i)
  <2>1. ASSUME NEW x \in Int, NEW y \in Int, NEW w \in {10, 15}, x + w <= y
        PROVE  x <= x + 6 /\ x + 6 < y
    BY <2>1
  <2> QED BY <1>1, <1>2, <2>1 DEF RESUME_PC
<1>4. a - S[r][i] \notin InnerAt(S, r, i)
  BY <1>1, <1>2, InnerRange
<1> QED BY <1>2, <1>3, <1>4, NotInnerExtent

\* What lies below the running frame.
LEMMA BelowNotInner ==
  ASSUME NEW S, Stacked(S), NEW a \in Int, Bottom <= a, a < sp
  PROVE  ~Inner(S, a)
<1> DEFINE R == Len(S)
           n == Len(S[R])
<1>1. /\ R \in 1..Len(StackTops) /\ n \in 1..n /\ sp = S[R][n] /\ sp \in Int
      /\ Top \in Nat /\ Bottom \in Int /\ sp + 15 <= Top
      /\ Top = StackTops[R] /\ Bottom = StackTops[R] - StackWords
      /\ \A j \in 1..(n - 1) : S[R][j] \in Int /\ sp + 15 <= S[R][j]
  BY Current DEF Stack
<1>2. a \in StackWordsOf(R)
  <2>1. a < Top /\ StackTops[R] - StackWords <= a
    BY <1>1
  <2> QED BY <1>1, <2>1, Between
<1>3. ASSUME NEW i \in 1..n PROVE a - S[R][i] \notin InnerAt(S, R, i)
  <2>1. S[R][i] \in Int /\ a < S[R][i]
    <3>1. CASE i = n
      BY <1>1, <3>1
    <3>2. CASE i # n
      <4>1. i \in 1..(n - 1)
        BY <1>1, <3>2
      <4>2. S[R][i] \in Int /\ sp + 15 <= S[R][i]
        BY <1>1, <4>1
      <4>3. ASSUME NEW x \in Int, NEW y \in Int, x + 15 <= y, a < x PROVE a < y
        BY <4>3
      <4> QED BY <1>1, <4>2, <4>3
    <3> QED BY <3>1, <3>2
  <2> SUFFICES ASSUME a - S[R][i] \in InnerAt(S, R, i) PROVE FALSE
    OBVIOUS
  <2>2. S[R][i] <= a
    BY <2>1, InnerRange
  <2> QED BY <2>1, <2>2
<1>4. Placed(S)
  BY DEF Stacked
<1> QED BY <1>1, <1>2, <1>3, <1>4, NotInner

\* What lies on the stack of no run.
LEMMA BeyondNotInner ==
  ASSUME NEW S, Placed(S), NEW r \in 1..Len(StackTops), r > Len(S), NEW a \in StackWordsOf(r)
  PROVE  ~Inner(S, a)
<1>1. ~(r <= Len(S))
  BY PlaceOf DEF Placed
<1> QED BY <1>1, NotInner

\* Words of the memory that are inner are numbers.
LEMMA InnerInt ==
  ASSUME NEW S, NEW a \in MemoryWords
  PROVE  a \in Int
<1>1. \A r \in 1..Len(StackTops) : StackWordsOf(r) \subseteq Int
  BY Layout DEF StackWordsOf
<1>2. BootWords \subseteq Int
  <2>1. 1 \in 1..Len(StackTops)
    BY Layout
  <2> QED BY <2>1, StackAt DEF BootWords, HEADER_SIZE
<1>3. DescWords \subseteq Int
  BY Layout
<1> QED BY <1>1, <1>2, <1>3 DEF MemoryWords

\* A further write elsewhere.
LEMMA WriteCalm ==
  ASSUME NEW S, NEW m, Calm(S, m), DOMAIN m = MemoryWords, NEW a, ~Inner(S, a) \/ a \in OwnCells, NEW v
  PROVE  Calm(S, [m EXCEPT ![a] = v]) /\ DOMAIN [m EXCEPT ![a] = v] = MemoryWords
BY DEF Calm

\* The memory as it is.
LEMMA NothingCalm == ASSUME NEW S, Stacked(S) PROVE Calm(S, mem) /\ DOMAIN mem = MemoryWords
BY DEF Calm, Stacked

\* A call sequence.
LEMMA CalledCalm ==
  ASSUME NEW S, Stacked(S), NEW g \in Callables, NEW site \in Sites, CallBase(g, site) >= Bottom
  PROVE  /\ Calm(S, Called(g, site)) /\ DOMAIN Called(g, site) = MemoryWords
         /\ ~Inner(S, sp - 1)
<1> DEFINE base == CallBase(g, site)
           m == Called(g, site)
<1>1. /\ base \in Int /\ sp \in Int /\ Bottom \in Int /\ base >= Bottom
      /\ base + mem[Desc[g] + 1] + 2 = sp /\ mem[Desc[g] + 1] \in Nat
      /\ DOMAIN m = MemoryWords
      /\ \A a \in MemoryWords : ~(base <= a /\ a < sp) /\ a # sp + SiteCell(site) => m[a] = mem[a]
  BY CalledWords, Current
<1> HIDE DEF base, m
<1>2. ASSUME NEW a \in MemoryWords, Inner(S, a), a \notin OwnCells PROVE m[a] = mem[a]
  <2>1. a # sp + SiteCell(site)
    BY <1>1, <1>2 DEF OwnCells, SiteCell, HEADER_SIZE, Sites
  <2>2. a \in Int
    BY <1>2, InnerInt
  <2>3. ~(base <= a /\ a < sp)
    BY <1>1, <1>2, <2>2, BelowNotInner
  <2> QED BY <1>1, <2>1, <2>3
<1>3. ~Inner(S, sp - 1)
  <2>1. sp - 1 \in Int /\ Bottom <= sp - 1 /\ sp - 1 < sp
    BY <1>1
  <2> QED BY <2>1, BelowNotInner
<1> QED BY <1>1, <1>2, <1>3 DEF Calm, m

-----------------------------------------------------------------------------
(***************************************************************************)
(* What such steps leave true.                                             *)
(***************************************************************************)

\* The words of frames other than the running one are not its cells.
LEMMA OtherCells ==
  ASSUME NEW S, Stacked(S), NEW r \in 1..Len(S), NEW i \in 1..Len(S[r]),
         r # Len(S) \/ i # Len(S[r]), NEW k \in InnerAt(S, r, i)
  PROVE  S[r][i] + k \notin OwnCells
<1> DEFINE R == Len(S)
           n == Len(S[R])
           a == S[r][i] + k
<1>1. /\ R \in 1..Len(StackTops) /\ n \in 1..n /\ sp = S[R][n] /\ sp \in Int
      /\ sp + 15 <= Top /\ sp >= Bottom /\ Top \in Nat /\ Bottom \in Int
      /\ Top = StackTops[R] /\ Bottom = StackTops[R] - StackWords
      /\ \A j \in 1..(n - 1) : S[R][j] \in Int /\ sp + 15 <= S[R][j]
  BY Current DEF Stack
<1>2. /\ r \in 1..Len(StackTops) /\ S[r][i] \in Int /\ StackTops[r] \in Nat /\ StackWords \in Nat
      /\ S[r][i] >= StackTops[r] - StackWords /\ WordsOf(S, r, i) \in {10, 15}
      /\ S[r][i] + WordsOf(S, r, i) <= StackTops[r]
  BY HeaderAt, PlaceOf DEF Stacked
<1>3. k \in Int /\ 0 <= k /\ k < WordsOf(S, r, i)
  BY DEF InnerAt, WordsOf, HEADER_SIZE, ENTRY, RESULT_COUNT
<1>4. CASE r = R
  <2>1. i \in 1..(n - 1)
    BY <1>1, <1>4
  <2>2. S[r][i] \in Int /\ sp + 15 <= S[r][i]
    BY <1>1, <1>4, <2>1
  <2>3. ASSUME NEW x \in Int, NEW y \in Int, x + 15 <= y PROVE y + k \notin x + 8 .. x + 12
    BY <1>3, <2>3
  <2> QED BY <1>1, <2>2, <2>3 DEF OwnCells
<1>5. CASE r # R
  <2> SUFFICES ASSUME a \in OwnCells PROVE FALSE
    OBVIOUS
  <2>1. a \in Int /\ Bottom <= a /\ a < Top /\ sp <= a
    <3>1. ASSUME NEW x \in Int, NEW low \in Int, NEW high \in Int, x + 15 <= high, x >= low,
                 NEW b \in x + 8 .. x + 12
          PROVE  b \in Int /\ low <= b /\ b < high /\ x <= b
      BY <3>1
    <3>2. a \in sp + 8 .. sp + 12
      BY DEF OwnCells
    <3>3. sp \in Int /\ Bottom \in Int /\ Top \in Int /\ sp + 15 <= Top /\ sp >= Bottom
      BY <1>1
    <3> HIDE DEF a
    <3> QED BY <3>1, <3>2, <3>3
  <2>2. a \in StackWordsOf(R)
    BY <1>1, <2>1, SMTT(30) DEF StackWordsOf
  <2>3. StackTops[r] - StackWords <= S[r][i] /\ S[r][i] <= a /\ a < StackTops[r]
    <3>1. ASSUME NEW x \in Int, NEW w \in Int, NEW t \in Int, x + w <= t, k < w
          PROVE  x <= x + k /\ x + k < t
      BY <1>3, <3>1
    <3> QED BY <1>2, <1>3, <3>1, SMTT(30)
  <2>4. a \in StackWordsOf(r)
    BY <1>2, <2>1, <2>3, Between
  <2> QED BY <1>1, <1>2, <1>5, <2>2, <2>4, OneStack
<1> QED BY <1>4, <1>5

\* Inner words are words of the memory.
LEMMA InnerInMemory ==
  ASSUME NEW S, Placed(S), NEW r \in 1..Len(S), NEW i \in 1..Len(S[r]), NEW k \in InnerAt(S, r, i)
  PROVE  S[r][i] + k \in MemoryWords /\ Inner(S, S[r][i] + k)
<1>1. /\ S[r][i] \in Int /\ EndOf(S, r, i) \in Int /\ WordsOf(S, r, i) \in {10, 15}
      /\ S[r][i] + WordsOf(S, r, i) <= EndOf(S, r, i)
  BY PlaceOf
<1>2. k \in Int /\ 0 <= k /\ k < WordsOf(S, r, i)
  BY DEF InnerAt, WordsOf, HEADER_SIZE, ENTRY, RESULT_COUNT
<1>3. S[r][i] + k \in Int /\ S[r][i] <= S[r][i] + k /\ S[r][i] + k < EndOf(S, r, i)
  <2>1. ASSUME NEW x \in Int, NEW w \in Int, NEW t \in Int, x + w <= t, k < w
        PROVE  x <= x + k /\ x + k < t
    BY <1>2, <2>1
  <2> QED BY <1>1, <1>2, <2>1
<1>4. (S[r][i] + k) - S[r][i] = k
  BY <1>1, <1>2
<1> QED BY <1>3, <1>4, InExtent DEF Inner

\* They stay, but for the cells of the running frame.
LEMMA InnerKept ==
  ASSUME NEW S, Stacked(S), Undisturbed(S), NEW r \in 1..Len(S), NEW i \in 1..Len(S[r]),
         NEW k \in InnerAt(S, r, i), r # Len(S) \/ i # Len(S[r]) \/ k = ENTRY
  PROVE  mem'[S[r][i] + k] = mem[S[r][i] + k]
<1>1. S[r][i] + k \in MemoryWords /\ Inner(S, S[r][i] + k)
  BY InnerInMemory DEF Stacked
<1>2. S[r][i] + k \notin OwnCells
  <2>1. CASE r # Len(S) \/ i # Len(S[r])
    BY <2>1, OtherCells
  <2>2. CASE r = Len(S) /\ i = Len(S[r]) /\ k = ENTRY
    <3>1. S[r][i] = sp /\ sp \in Int
      BY <2>2, Current
    <3>2. ASSUME NEW x \in Int PROVE x + 2 \notin x + 8 .. x + 12
      OBVIOUS
    <3> QED BY <2>2, <3>1, <3>2 DEF OwnCells, ENTRY
  <2> QED BY <2>1, <2>2
<1> QED BY <1>1, <1>2 DEF Undisturbed, Calm

\* The links stay.
LEMMA LinkKept ==
  ASSUME NEW S, Stacked(S), Undisturbed(S), NEW r \in 1..Len(S), NEW i \in 1..Len(S[r]), NEW k \in Links
  PROVE  mem'[S[r][i] + k] = mem[S[r][i] + k]
<1>1. S[r][i] \in Int /\ k \in Int
  BY PlaceOf DEF Stacked, Links, CALLER_SP, RET_PC, RESULT_PTR
<1>2. S[r][i] + k \in Int /\ (S[r][i] + k) - S[r][i] = k
  BY <1>1
<1>3. Vital(S, S[r][i] + k)
  BY <1>2 DEF Vital
<1>4. S[r][i] + k \in MemoryWords
  BY <1>2, <1>3, VitalWords DEF Stacked
<1> QED BY <1>3, <1>4 DEF Undisturbed, Keeps

\* Which words of guest frames are inner.
LEMMA GuestCells ==
  ASSUME NEW S, NEW r, NEW i, ~IsHostFrame(S, r, i)
  PROVE  /\ ENTRY \in InnerAt(S, r, i) /\ VarCell(1) \in InnerAt(S, r, i) /\ VarCell(2) \in InnerAt(S, r, i)
         /\ \A site \in Sites : SiteCell(site) \in InnerAt(S, r, i)
BY DEF InnerAt, VarCell, SiteCell, HEADER_SIZE, Sites

\* A frame above another is one of guest code.
LEMMA UpperGuest ==
  ASSUME NEW S, Placed(S), NEW r \in 1..Len(S), NEW i \in 1..Len(S[r]), i < Len(S[r])
  PROVE  ~IsHostFrame(S, r, i) /\ i + 1 \in 1..Len(S[r]) /\ i \in 1..(Len(S[r]) - 1) /\ i # Len(S[r])
<1>1. Len(S[r]) \in Nat
  BY PlaceOf
<1> QED BY <1>1 DEF IsHostFrame

\* Suspended activations stay.
LEMMA SuspendedKept ==
  ASSUME NEW S, Stacked(S), Undisturbed(S), NEW r \in 1..Len(S), NEW i \in 1..(Len(S[r]) - 1)
  PROVE  SuspendedActivation(S[r][i], S[r][i + 1])' = SuspendedActivation(S[r][i], S[r][i + 1])
<1>1. Len(S[r]) \in Nat /\ i \in 1..Len(S[r]) /\ i < Len(S[r])
  <2>1. Len(S[r]) \in Nat
    BY PlaceOf, Current DEF Stacked, Placed
  <2> QED BY <2>1
<1>2. ~IsHostFrame(S, r, i) /\ i + 1 \in 1..Len(S[r]) /\ i # Len(S[r])
  BY <1>1, UpperGuest DEF Stacked
<1>3. /\ mem'[S[r][i] + ENTRY] = mem[S[r][i] + ENTRY]
      /\ mem'[S[r][i] + VarCell(1)] = mem[S[r][i] + VarCell(1)]
      /\ mem'[S[r][i] + VarCell(2)] = mem[S[r][i] + VarCell(2)]
  BY <1>1, <1>2, GuestCells, InnerKept
<1>4. mem'[S[r][i + 1] + RET_PC] = mem[S[r][i + 1] + RET_PC]
  BY <1>2, LinkKept DEF Links
<1>5. [j \in 1..2 |-> mem'[S[r][i] + VarCell(j)]] = [j \in 1..2 |-> mem[S[r][i] + VarCell(j)]]
  <2>1. \A j \in 1..2 : j = 1 \/ j = 2
    OBVIOUS
  <2> QED BY <1>3, <2>1
<1> QED BY <1>3, <1>4, <1>5 DEF SuspendedActivation

\* So does what is known of the frames.
LEMMA HeldKept ==
  ASSUME NEW S, Stacked(S), Undisturbed(S), Held(mem, S)
  PROVE  Held(mem', S)
<1>0. Placed(S)
  BY DEF Stacked
<1> SUFFICES ASSUME NEW r \in 1..Len(S), NEW i \in 1..Len(S[r]) PROVE HeldAt(mem', S, r, i)
  BY DEF Held
<1>1. HeldAt(mem, S, r, i)
  BY DEF Held
<1>2. CASE i < Len(S[r])
  <2>1. ~IsHostFrame(S, r, i) /\ i + 1 \in 1..Len(S[r]) /\ i # Len(S[r])
    BY <1>0, <1>2, UpperGuest
  <2>2. mem'[S[r][i] + ENTRY] = mem[S[r][i] + ENTRY]
    BY <2>1, GuestCells, InnerKept
  <2>3. mem'[S[r][i + 1] + RET_PC] = mem[S[r][i + 1] + RET_PC]
    BY <2>1, LinkKept DEF Links
  <2>4. \A site \in Sites : mem'[S[r][i] + SiteCell(site)] = mem[S[r][i] + SiteCell(site)]
    BY <2>1, GuestCells, InnerKept
  <2> QED BY <1>1, <1>2, <2>1, <2>2, <2>3, <2>4 DEF HeldAt, Awaits
<1>3. CASE ~(i < Len(S[r])) /\ ~IsHostFrame(S, r, i)
  <2>1. mem'[S[r][i] + ENTRY] = mem[S[r][i] + ENTRY]
    BY <1>3, GuestCells, InnerKept
  <2> QED BY <1>1, <1>3, <2>1 DEF HeldAt
<1>4. CASE ~(i < Len(S[r])) /\ IsHostFrame(S, r, i)
  <2>1. RESULT_COUNT \in InnerAt(S, r, i)
    BY <1>4 DEF InnerAt
  <2>2. r # Len(S)
    <3>1. Len(S) \in Nat
      BY <1>0, PlaceOf
    <3> QED BY <1>4, <3>1 DEF IsHostFrame
  <2>3. mem'[S[r][i] + RESULT_COUNT] = mem[S[r][i] + RESULT_COUNT]
    BY <2>1, <2>2, InnerKept
  <2>4. mem'[S[r][i] + RET_PC] = mem[S[r][i] + RET_PC]
    BY LinkKept DEF Links
  <2> QED BY <1>1, <1>4, <2>3, <2>4 DEF HeldAt
<1> QED BY <1>2, <1>3, <1>4

-----------------------------------------------------------------------------
(***************************************************************************)
(* Sequences laid end to end.                                              *)
(***************************************************************************)
Follows(rows, n, f) ==
  f = [run \in 0..n |-> IF run = 0 THEN <<>> ELSE f[run - 1] \o rows[run]]

\* The first n rows, laid end to end.
Flat(rows, n) == LET f == CHOOSE f : Follows(rows, n, f) IN f[n]

\* There is a table of all the prefixes.
LEMMA TableExists == ASSUME NEW rows, NEW n \in Nat PROVE \E f : Follows(rows, n, f)
<1> DEFINE K == {k \in Nat : \E f : Follows(rows, k, f)}
<1>1. 0 \in K
  <2>1. Follows(rows, 0, [run \in 0..0 |-> <<>>])
    BY DEF Follows
  <2> QED BY <2>1
<1>2. ASSUME NEW k \in Nat, k \in K PROVE k + 1 \in K
  <2>1. PICK f : Follows(rows, k, f)
    BY <1>2
  <2> DEFINE g == [run \in 0..(k + 1) |-> IF run = k + 1 THEN f[k] \o rows[k + 1] ELSE f[run]]
  <2>2. ASSUME NEW run \in 0..(k + 1)
        PROVE  g[run] = IF run = 0 THEN <<>> ELSE g[run - 1] \o rows[run]
    <3>1. CASE run = k + 1
      <4>1. k \in 0..(k + 1) /\ k # k + 1 /\ run - 1 = k /\ run # 0
        BY <1>2, <3>1
      <4>2. g[k] = f[k] /\ g[run] = f[k] \o rows[run]
        BY <3>1, <4>1
      <4> HIDE DEF g
      <4> QED BY <4>1, <4>2
    <3>2. CASE run # k + 1
      <4>1. run \in 0..k
        BY <1>2, <3>2
      <4>2. f[run] = IF run = 0 THEN <<>> ELSE f[run - 1] \o rows[run]
        BY <2>1, <4>1 DEF Follows
      <4>3. run # 0 => run - 1 \in 0..(k + 1) /\ run - 1 # k + 1
        BY <1>2, <4>1
      <4>4. g[run] = f[run] /\ (run # 0 => g[run - 1] = f[run - 1])
        BY <3>2, <4>3
      <4> HIDE DEF g
      <4> QED BY <4>2, <4>4
    <3> QED BY <3>1, <3>2
  <2>3. g = [run \in 0..(k + 1) |-> g[run]]
    OBVIOUS
  <2> HIDE DEF g
  <2>4. Follows(rows, k + 1, g)
    <3>1. [run \in 0..(k + 1) |-> g[run]]
          = [run \in 0..(k + 1) |-> IF run = 0 THEN <<>> ELSE g[run - 1] \o rows[run]]
      BY <2>2
    <3> QED BY <2>3, <3>1 DEF Follows
  <2>5. k + 1 \in Nat
    OBVIOUS
  <2> QED BY <2>4, <2>5
<1> HIDE DEF K
<1>3. Nat \subseteq K
  BY <1>1, <1>2, NatSets
<1> QED BY <1>3 DEF K

\* Tables that follow the same rows agree.
LEMMA TablesAgree ==
  ASSUME NEW rows, NEW n \in Nat, NEW f, Follows(rows, n, f),
         NEW others, NEW m \in Nat, NEW g, Follows(others, m, g),
         NEW k \in Nat, k <= n, k <= m, \A r \in 1..k : rows[r] = others[r]
  PROVE  f[k] = g[k]
<1> DEFINE K == {j \in Nat : j <= k => f[j] = g[j]}
<1>1. 0 \in K
  <2>1. 0 \in 0..n /\ 0 \in 0..m
    OBVIOUS
  <2>2. f[0] = <<>> /\ g[0] = <<>>
    BY <2>1 DEF Follows
  <2> QED BY <2>2
<1>2. ASSUME NEW j \in Nat, j \in K PROVE j + 1 \in K
  <2>1. ASSUME j + 1 <= k PROVE f[j + 1] = g[j + 1]
    <3>1. /\ j + 1 \in 0..n /\ j + 1 \in 0..m /\ j + 1 # 0 /\ (j + 1) - 1 = j /\ j <= k
          /\ j + 1 \in 1..k
      BY <2>1
    <3>2. f[j] = g[j] /\ rows[j + 1] = others[j + 1]
      BY <1>2, <3>1
    <3>3. f[j + 1] = f[j] \o rows[j + 1]
      BY <3>1 DEF Follows
    <3>4. g[j + 1] = g[j] \o others[j + 1]
      BY <3>1 DEF Follows
    <3> QED BY <3>2, <3>3, <3>4
  <2>2. j + 1 \in Nat
    OBVIOUS
  <2> QED BY <2>1, <2>2
<1> HIDE DEF K
<1>3. Nat \subseteq K
  BY <1>1, <1>2, NatSets
<1> QED BY <1>3 DEF K

\* The table that is meant.
LEMMA FlatTable ==
  ASSUME NEW rows, NEW n \in Nat
  PROVE  \E f : Follows(rows, n, f) /\ Flat(rows, n) = f[n]
BY TableExists DEF Flat

\* Every table of the rows is that table.
LEMMA FlatIs ==
  ASSUME NEW rows, NEW n \in Nat, NEW f, Follows(rows, n, f)
  PROVE  f[n] = Flat(rows, n)
<1>1. PICK g : Follows(rows, n, g) /\ Flat(rows, n) = g[n]
  BY FlatTable
<1>2. n <= n
  OBVIOUS
<1>3. f[n] = g[n]
  BY <1>1, <1>2, TablesAgree
<1> QED BY <1>1, <1>3

\* The same rows give the same sequence.
LEMMA FlatSame ==
  ASSUME NEW rows, NEW others, NEW n \in Nat, \A r \in 1..n : rows[r] = others[r]
  PROVE  Flat(rows, n) = Flat(others, n)
<1>1. PICK f : Follows(rows, n, f) /\ Flat(rows, n) = f[n]
  BY FlatTable
<1>2. PICK g : Follows(others, n, g) /\ Flat(others, n) = g[n]
  BY FlatTable
<1>3. f[n] = g[n]
  BY <1>1, <1>2, TablesAgree, SMTT(30)
<1> QED BY <1>1, <1>2, <1>3

\* One row more.
LEMMA FlatStep ==
  ASSUME NEW rows, NEW others, NEW n \in Nat \ {0}, \A r \in 1..(n - 1) : rows[r] = others[r]
  PROVE  Flat(rows, n) = Flat(others, n - 1) \o rows[n]
<1>1. PICK f : Follows(rows, n, f) /\ Flat(rows, n) = f[n]
  BY FlatTable
<1>2. n - 1 \in Nat /\ n - 1 <= n /\ n \in 0..n /\ n # 0
  OBVIOUS
<1>3. PICK g : Follows(others, n - 1, g) /\ Flat(others, n - 1) = g[n - 1]
  BY <1>2, FlatTable
<1>4. f[n - 1] = g[n - 1]
  <2>1. ASSUME NEW k \in Nat, k = n - 1 PROVE f[k] = g[k]
    <3>1. k <= n /\ k <= k /\ n \in Nat /\ \A r \in 1..k : rows[r] = others[r]
      BY <2>1
    <3>2. Follows(rows, n, f) /\ Follows(others, k, g)
      BY <1>1, <1>3, <2>1
    <3> QED BY <3>1, <3>2, TablesAgree
  <2> QED BY <1>2, <2>1
<1>5. f[n] = f[n - 1] \o rows[n]
  BY <1>1, <1>2 DEF Follows
<1> QED BY <1>1, <1>3, <1>4, <1>5

\* No row.
LEMMA FlatNone == ASSUME NEW rows PROVE Flat(rows, 0) = <<>>
<1>1. PICK f : Follows(rows, 0, f) /\ Flat(rows, 0) = f[0]
  BY FlatTable
<1>2. 0 \in 0..0
  OBVIOUS
<1> QED BY <1>1, <1>2 DEF Follows

\* Rows of the elements of A give a sequence of them.
LEMMA FlatSeq ==
  ASSUME NEW A, NEW rows, NEW n \in Nat, \A r \in 1..n : rows[r] \in Seq(A)
  PROVE  Flat(rows, n) \in Seq(A)
<1> DEFINE K == {j \in Nat : j <= n => Flat(rows, j) \in Seq(A)}
<1>1. 0 \in K
  <2>1. Flat(rows, 0) = <<>> /\ <<>> \in Seq(A)
    BY FlatNone
  <2>2. Flat(rows, 0) \in Seq(A)
    BY <2>1
  <2> HIDE DEF Flat
  <2> QED BY <2>2
<1>2. ASSUME NEW j \in Nat, j \in K PROVE j + 1 \in K
  <2>1. ASSUME j + 1 <= n PROVE Flat(rows, j + 1) \in Seq(A)
    <3>1. j + 1 \in Nat \ {0} /\ (j + 1) - 1 = j /\ j + 1 \in 1..n /\ j <= n
      BY <2>1
    <3>2. Flat(rows, j + 1) = Flat(rows, j) \o rows[j + 1]
      BY <3>1, FlatStep
    <3>3. Flat(rows, j) \in Seq(A) /\ rows[j + 1] \in Seq(A)
      BY <1>2, <3>1
    <3>4. ASSUME NEW s \in Seq(A), NEW t \in Seq(A) PROVE s \o t \in Seq(A)
      OBVIOUS
    <3>5. Flat(rows, j) \o rows[j + 1] \in Seq(A)
      BY <3>3, <3>4
    <3> QED BY <3>2, <3>5
  <2>2. j + 1 \in Nat
    OBVIOUS
  <2> QED BY <2>1, <2>2
<1> HIDE DEF K
<1>3. Nat \subseteq K
  BY <1>1, <1>2, NatSets
<1> QED BY <1>3 DEF K

\* All but the last element, and the last.
LEMMA RowAppend ==
  ASSUME NEW A, NEW s \in Seq(A), NEW e \in A, NEW n \in Nat \ {0}, Len(s) = n - 1
  PROVE  [i \in 1..n |-> IF i < n THEN s[i] ELSE e] = Append(s, e)
<1> DEFINE x == [i \in 1..n |-> IF i < n THEN s[i] ELSE e]
           y == Append(s, e)
<1>1. y \in Seq(A) /\ Len(y) = n /\ y[n] = e /\ \A i \in 1..(n - 1) : y[i] = s[i]
  OBVIOUS
<1>2. \A i \in 1..n : x[i] = y[i]
  <2>1. \A i \in 1..n : i = n \/ (i \in 1..(n - 1) /\ i < n)
    OBVIOUS
  <2>2. ~(n < n)
    OBVIOUS
  <2> HIDE DEF y
  <2> QED BY <1>1, <2>1, <2>2
<1>3. y = [i \in 1..n |-> y[i]]
  <2> HIDE DEF y
  <2> QED BY <1>1
<1>4. x = [i \in 1..n |-> x[i]]
  OBVIOUS
<1> HIDE DEF x, y
<1>5. [i \in 1..n |-> x[i]] = [i \in 1..n |-> y[i]]
  BY <1>2
<1>6. x = y
  BY <1>3, <1>4, <1>5
<1> QED BY <1>6 DEF x, y

-----------------------------------------------------------------------------
(***************************************************************************)
(* The stack of activations that a memory holds.                           *)
(***************************************************************************)
ActivationIn(m, frame, callee) ==
  [fn |-> m[frame + ENTRY].fn, site |-> m[callee + RET_PC].at,
   vars |-> [i \in 1..2 |-> m[frame + VarCell(i)]]]

\* The suspended activations of run r, with the service that has entered the next run.
SuspendedRow(m, S, r) == [i \in 1..(Len(S[r]) - 1) |-> ActivationIn(m, S[r][i], S[r][i + 1])]
HostRow(m, S, r) == Append(SuspendedRow(m, S, r), HostActivation)
HostRows(m, S) == [r \in 1..Len(S) |-> HostRow(m, S, r)]

\* All activations below the running one.
Under(m, S) == Flat(HostRows(m, S), Len(S) - 1) \o SuspendedRow(m, S, Len(S))

ActivationsIn(m, S) ==
  {HostActivation} \cup UNION {{ActivationIn(m, S[r][i], S[r][i + 1]) : i \in 1..(Len(S[r]) - 1)} : r \in 1..Len(S)}

\* Rows are sequences of activations.
LEMMA RowSeq ==
  ASSUME NEW m, NEW S, Placed(S), NEW A, ActivationsIn(m, S) \subseteq A, NEW r \in 1..Len(S)
  PROVE  /\ SuspendedRow(m, S, r) \in Seq(A) /\ Len(SuspendedRow(m, S, r)) = Len(S[r]) - 1
         /\ HostRow(m, S, r) \in Seq(A) /\ HostRows(m, S)[r] = HostRow(m, S, r)
         /\ HostActivation \in A
<1>1. Len(S[r]) - 1 \in Nat
  <2>1. Len(S[r]) \in Nat /\ Len(S[r]) >= 1
    BY Layout DEF Placed
  <2> QED BY <2>1
<1>2. HostActivation \in A /\ \A i \in 1..(Len(S[r]) - 1) : ActivationIn(m, S[r][i], S[r][i + 1]) \in A
  BY DEF ActivationsIn
<1> DEFINE row == SuspendedRow(m, S, r)
           n == Len(S[r]) - 1
<1>3. row \in [1..n -> A]
  BY <1>2 DEF SuspendedRow
<1> HIDE DEF row, n
<1>4. row \in Seq(A) /\ Len(row) = n
  BY <1>1, <1>3 DEF n
<1>5. Append(row, HostActivation) \in Seq(A)
  BY <1>2, <1>4
<1> QED BY <1>2, <1>4, <1>5 DEF row, n, HostRow, HostRows

\* What lies under the running activation.
LEMMA UnderSeq ==
  ASSUME NEW m, NEW S, Placed(S), NEW A, ActivationsIn(m, S) \subseteq A, NEW k \in Nat, k <= Len(S)
  PROVE  /\ Flat(HostRows(m, S), k) \in Seq(A)
         /\ k = Len(S) - 1 => Under(m, S) \in Seq(A)
<1>1. Len(S) \in Nat /\ Len(S) \in 1..Len(S)
  BY Layout DEF Placed
<1>2. \A r \in 1..k : HostRows(m, S)[r] \in Seq(A)
  <2>1. \A r \in 1..k : r \in 1..Len(S)
    BY <1>1
  <2> QED BY <2>1, RowSeq, ZenonT(60)
<1>3. Flat(HostRows(m, S), k) \in Seq(A)
  BY <1>2, FlatSeq
<1>4. SuspendedRow(m, S, Len(S)) \in Seq(A)
  BY <1>1, RowSeq
<1>5. ASSUME NEW s \in Seq(A), NEW t \in Seq(A) PROVE s \o t \in Seq(A)
  OBVIOUS
<1>6. Flat(HostRows(m, S), k) \o SuspendedRow(m, S, Len(S)) \in Seq(A)
  BY <1>3, <1>4, <1>5
<1> QED BY <1>3, <1>6 DEF Under

\* The stack found in the memory is this one.
StackIs == \A S : Stacked(S) => ActivationStack = Append(Under(mem, S), RunningActivation)

\* The frames that the chains of CALLER_SP lead through are those of S.
THEOREM StackFound == StackIs
<1> SUFFICES ASSUME NEW S, Stacked(S) PROVE ActivationStack = Append(Under(mem, S), RunningActivation)
  BY DEF StackIs
<1> DEFINE R == Len(S)
           A == ActivationsIn(mem, S) \cup {RunningActivation}
           rows == [r \in 1..R |-> IF r < R THEN HostRow(mem, S, r)
                                    ELSE Append(SuspendedRow(mem, S, r), RunningActivation)]
           Found(f) == f = [run \in 0..Runs |-> IF run = 0 THEN <<>> ELSE f[run - 1] \o ActivationsOf(run)]
           stack == CHOOSE f : Found(f)
<1>1. Placed(S) /\ Runs = R /\ R \in Nat /\ R \in 1..R /\ R - 1 \in Nat /\ R - 1 <= R /\ ~Finished
  <2>1. Placed(S) /\ ~Finished
    BY DEF Stacked
  <2>2. Runs = R /\ R \in Nat /\ R >= 1
    BY Current, Layout
  <2> QED BY <2>1, <2>2
<1>2. ASSUME NEW r \in 1..R PROVE ActivationsOf(r) = rows[r]
  <2> DEFINE n == Len(S[r])
             row == SuspendedRow(mem, S, r)
             last == IF r = R THEN RunningActivation ELSE HostActivation
  <2>1. r \in 1..Runs /\ FramesOf(r) = S[r]
    BY <1>1, FramesFound
  <2>2. ActivationsOf(r) = [i \in 1..n |-> IF i < n THEN SuspendedActivation(S[r][i], S[r][i + 1]) ELSE last]
    BY <1>1, <2>1 DEF ActivationsOf
  <2>3. n \in Nat \ {0} /\ n - 1 \in Nat
    <3>1. Len(S[r]) \in Nat /\ Len(S[r]) >= 1
      BY <1>1, Layout DEF Placed
    <3> QED BY <3>1
  <2>4. row \in Seq(A) /\ Len(row) = n - 1 /\ last \in A
    <3>1. ActivationsIn(mem, S) \subseteq A /\ RunningActivation \in A
      OBVIOUS
    <3> HIDE DEF A
    <3> QED BY <1>1, <3>1, RowSeq
  <2>5. \A i \in 1..n : i < n => row[i] = SuspendedActivation(S[r][i], S[r][i + 1])
    <3>1. \A i \in 1..n : i < n => i \in 1..(n - 1)
      BY <2>3
    <3> QED BY <3>1 DEF SuspendedRow, ActivationIn, SuspendedActivation
  <2>6. ActivationsOf(r) = [i \in 1..n |-> IF i < n THEN row[i] ELSE last]
    <3> HIDE DEF row, last, n
    <3> QED BY <2>2, <2>5
  <2>7. ActivationsOf(r) = Append(row, last)
    <3> HIDE DEF row, last, n, A
    <3> QED BY <2>3, <2>4, <2>6, RowAppend
  <2>8. r = R \/ (r < R /\ r # R)
    BY <1>1
  <2> QED BY <2>7, <2>8 DEF HostRow
<1>3. ActivationStack = stack[R]
  BY <1>1 DEF ActivationStack
<1> HIDE DEF rows
<1>4. Found(stack)
  <2>1. PICK f : Follows(rows, R, f)
    BY <1>1, TableExists
  <2>2. Found(f)
    <3>1. \A run \in 0..R : run = 0 \/ run \in 1..R
      BY <1>1
    <3>2. [run \in 0..R |-> IF run = 0 THEN <<>> ELSE f[run - 1] \o rows[run]]
          = [run \in 0..R |-> IF run = 0 THEN <<>> ELSE f[run - 1] \o ActivationsOf(run)]
      BY <1>2, <3>1
    <3> QED BY <1>1, <2>1, <3>2 DEF Follows
  <2> HIDE DEF Found
  <2> QED BY <2>2
<1>5. Follows(rows, R, stack)
  <2> HIDE DEF stack
  <2>1. \A run \in 0..R : run = 0 \/ run \in 1..R
    BY <1>1
  <2>2. [run \in 0..R |-> IF run = 0 THEN <<>> ELSE stack[run - 1] \o rows[run]]
        = [run \in 0..R |-> IF run = 0 THEN <<>> ELSE stack[run - 1] \o ActivationsOf(run)]
    BY <1>2, <2>1
  <2> QED BY <1>1, <1>4, <2>2 DEF Follows
<1> HIDE DEF stack
<1>6. stack[R] = Flat(rows, R)
  BY <1>1, <1>5, FlatIs
<1>7. Flat(rows, R) = Flat(HostRows(mem, S), R - 1) \o rows[R]
  <2>1. \A r \in 1..(R - 1) : r \in 1..R /\ r < R
    BY <1>1
  <2>2. \A r \in 1..(R - 1) : rows[r] = HostRows(mem, S)[r]
    BY <2>1 DEF rows, HostRows
  <2>3. R \in Nat \ {0}
    BY <1>1
  <2> QED BY <2>2, <2>3, FlatStep
<1>8. rows[R] = Append(SuspendedRow(mem, S, R), RunningActivation)
  <2>1. ~(R < R)
    BY <1>1
  <2> QED BY <1>1, <2>1 DEF rows
<1>9. ASSUME NEW p \in Seq(A), NEW q \in Seq(A), NEW e \in A PROVE p \o Append(q, e) = Append(p \o q, e)
  OBVIOUS
<1>10. /\ Flat(HostRows(mem, S), R - 1) \in Seq(A) /\ SuspendedRow(mem, S, R) \in Seq(A)
       /\ RunningActivation \in A
  <2>1. ActivationsIn(mem, S) \subseteq A /\ RunningActivation \in A
    OBVIOUS
  <2> HIDE DEF A
  <2> QED BY <1>1, <2>1, UnderSeq, RowSeq
<1> HIDE DEF A
<1>11. ActivationStack = Append(Flat(HostRows(mem, S), R - 1) \o SuspendedRow(mem, S, R), RunningActivation)
  BY <1>3, <1>6, <1>7, <1>8, <1>9, <1>10
<1> QED BY <1>11 DEF Under

\* So is the next one.
LEMMA StackFoundNext ==
  ASSUME NEW S, Stacked(S)'
  PROVE  ActivationStack' = Append(Under(mem', S), RunningActivation')
<1>1. StackIs'
  BY StackFound, PTL
<1> QED BY <1>1 DEF StackIs

-----------------------------------------------------------------------------
(***************************************************************************)
(* What lies under the running activation, before and after a step.        *)
(***************************************************************************)

\* A suspended activation.
LEMMA ActivationKept ==
  ASSUME NEW S, Stacked(S), Undisturbed(S), NEW r \in 1..Len(S), NEW i \in 1..(Len(S[r]) - 1)
  PROVE  ActivationIn(mem', S[r][i], S[r][i + 1]) = ActivationIn(mem, S[r][i], S[r][i + 1])
BY SuspendedKept DEF SuspendedActivation, ActivationIn

\* The first k elements.
Front(s, k) == [i \in 1..k |-> s[i]]

\* A row, or the beginning of one, that a step leaves.
LEMMA RowKept ==
  ASSUME NEW S, Stacked(S), Undisturbed(S), NEW r \in 1..Len(S), NEW k \in 1..Len(S[r]),
         NEW T, Len(T[r]) = k, \A i \in 1..k : T[r][i] = S[r][i]
  PROVE  SuspendedRow(mem', T, r) = Front(SuspendedRow(mem, S, r), k - 1)
<1>1. Len(S[r]) \in Nat
  BY PlaceOf DEF Stacked
<1>2. ASSUME NEW i \in 1..(k - 1)
      PROVE  ActivationIn(mem', T[r][i], T[r][i + 1]) = SuspendedRow(mem, S, r)[i]
  <2>1. i \in 1..(Len(S[r]) - 1) /\ i \in 1..k /\ i + 1 \in 1..k
    BY <1>1
  <2>2. T[r][i] = S[r][i] /\ T[r][i + 1] = S[r][i + 1]
    BY <2>1
  <2>3. ActivationIn(mem', S[r][i], S[r][i + 1]) = ActivationIn(mem, S[r][i], S[r][i + 1])
    BY <2>1, ActivationKept
  <2>4. SuspendedRow(mem, S, r)[i] = ActivationIn(mem, S[r][i], S[r][i + 1])
    BY <2>1 DEF SuspendedRow
  <2> QED BY <2>2, <2>3, <2>4
<1>3. [i \in 1..(k - 1) |-> ActivationIn(mem', T[r][i], T[r][i + 1])]
      = [i \in 1..(k - 1) |-> SuspendedRow(mem, S, r)[i]]
  BY <1>2
<1> QED BY <1>3 DEF SuspendedRow, Front

\* A whole row.
LEMMA RowSame ==
  ASSUME NEW S, Stacked(S), Undisturbed(S), NEW r \in 1..Len(S), NEW T, T[r] = S[r]
  PROVE  SuspendedRow(mem', T, r) = SuspendedRow(mem, S, r)
<1>1. Len(S[r]) \in Nat /\ Len(S[r]) \in 1..Len(S[r])
  <2>1. Placed(S)
    BY DEF Stacked
  <2>2. Len(S[r]) \in Nat /\ Len(S[r]) >= 1
    BY <2>1, Layout DEF Placed
  <2> QED BY <2>2
<1>2. SuspendedRow(mem', T, r) = Front(SuspendedRow(mem, S, r), Len(S[r]) - 1)
  BY <1>1, RowKept
<1> QED BY <1>2 DEF SuspendedRow, Front

\* The rows of the lower runs.
LEMMA PrefixSame ==
  ASSUME NEW S, Stacked(S), Undisturbed(S), NEW T, NEW k \in Nat, k <= Len(S), k <= Len(T),
         Len(T) \in Nat, \A r \in 1..k : T[r] = S[r]
  PROVE  Flat(HostRows(mem', T), k) = Flat(HostRows(mem, S), k)
<1>1. Len(S) \in Nat
  BY Current, Layout
<1>2. ASSUME NEW r \in 1..k PROVE HostRows(mem', T)[r] = HostRows(mem, S)[r]
  <2>1. r \in 1..Len(S) /\ r \in 1..Len(T) /\ T[r] = S[r]
    BY <1>1
  <2> QED BY <2>1, RowSame DEF HostRows, HostRow
<1> QED BY <1>2, FlatSame

\* Steps that leave the frames.
LEMMA UnderSame ==
  ASSUME NEW S, Stacked(S), Undisturbed(S)
  PROVE  Under(mem', S) = Under(mem, S)
<1>1. Len(S) \in 1..Len(S) /\ Len(S) - 1 \in Nat /\ Len(S) - 1 <= Len(S) /\ Len(S) \in Nat
  <2>1. Len(S) \in Nat /\ Len(S) >= 1
    BY Current, Layout
  <2> QED BY <2>1
<1>2. Flat(HostRows(mem', S), Len(S) - 1) = Flat(HostRows(mem, S), Len(S) - 1)
  BY <1>1, PrefixSame
<1>3. SuspendedRow(mem', S, Len(S)) = SuspendedRow(mem, S, Len(S))
  BY <1>1, RowSame
<1> QED BY <1>2, <1>3 DEF Under

\* Sequences of the elements of a set.
LEMMA Sequencing ==
  ASSUME NEW A, NEW p \in Seq(A), NEW q \in Seq(A), NEW e \in A
  PROVE  /\ p \o Append(q, e) = Append(p \o q, e) /\ p \o q \in Seq(A) /\ Append(p, e) \in Seq(A)
         /\ p \o <<>> = p /\ <<>> \in Seq(A)
OBVIOUS

\* A frame more in the innermost run.
LEMMA RowGrown ==
  ASSUME NEW S, Stacked(S), Undisturbed(S), NEW base \in Int, NEW T, Grown(S, base, T),
         NEW A, ActivationsIn(mem, S) \subseteq A, ActivationIn(mem', sp, base) \in A
  PROVE  /\ SuspendedRow(mem', T, Len(S)) = Append(SuspendedRow(mem, S, Len(S)), ActivationIn(mem', sp, base))
         /\ Len(T[Len(S)]) = Len(S[Len(S)]) + 1
<1> DEFINE R == Len(S)
           n == Len(S[R])
           x == ActivationIn(mem', sp, base)
           row == SuspendedRow(mem, S, R)
<1>1. n \in Nat \ {0} /\ S[R] \in Seq(Int) /\ sp = S[R][n] /\ R \in 1..R /\ Placed(S) /\ n \in 1..n
  <2>1. n \in 1..n /\ S[R] \in Seq(Int) /\ sp = S[R][n] /\ R \in 1..Len(StackTops)
    BY Current
  <2>2. n \in Nat /\ R \in Nat
    BY <2>1, Layout
  <2> QED BY <2>1, <2>2 DEF Stacked
<1>2. /\ T[R] = Append(S[R], base) /\ Len(T[R]) = n + 1
      /\ (\A i \in 1..n : T[R][i] = S[R][i]) /\ T[R][n + 1] = base
  BY <1>1, SMTT(30) DEF Grown
<1>3. row \in Seq(A) /\ Len(row) = n - 1
  <2>1. ASSUME NEW r \in 1..Len(S)
        PROVE  SuspendedRow(mem, S, r) \in Seq(A) /\ Len(SuspendedRow(mem, S, r)) = Len(S[r]) - 1
    BY <1>1, RowSeq, ZenonT(60)
  <2> QED BY <1>1, <2>1
<1>4. ASSUME NEW i \in 1..n
      PROVE  ActivationIn(mem', T[R][i], T[R][i + 1]) = IF i < n THEN row[i] ELSE x
  <2>1. CASE i = n
    BY <1>1, <1>2, <2>1
  <2>2. CASE i # n
    <3>1. i \in 1..(n - 1) /\ i + 1 \in 1..n /\ i \in 1..n /\ i < n
      BY <1>1, <2>2
    <3>2. ActivationIn(mem', S[R][i], S[R][i + 1]) = ActivationIn(mem, S[R][i], S[R][i + 1])
      BY <1>1, <3>1, ActivationKept
    <3>3. row[i] = ActivationIn(mem, S[R][i], S[R][i + 1])
      BY <3>1 DEF SuspendedRow
    <3> HIDE DEF row, n, x
    <3> QED BY <1>2, <3>1, <3>2, <3>3
  <2> QED BY <2>1, <2>2
<1>5. (n + 1) - 1 = n
  BY <1>1
<1>6. SuspendedRow(mem', T, R) = [i \in 1..n |-> ActivationIn(mem', T[R][i], T[R][i + 1])]
  <2> HIDE DEF n
  <2> QED BY <1>2, <1>5 DEF SuspendedRow
<1> HIDE DEF row, n, x
<1>7. SuspendedRow(mem', T, R) = [i \in 1..n |-> IF i < n THEN row[i] ELSE x]
  BY <1>4, <1>6
<1>8. x \in A
  BY DEF x
<1>9. SuspendedRow(mem', T, R) = Append(row, x)
  BY <1>1, <1>3, <1>7, <1>8, RowAppend
<1> QED BY <1>2, <1>9 DEF row, n, x

\* A call puts its caller under the callee.
LEMMA UnderGrown ==
  ASSUME NEW S, Stacked(S), Undisturbed(S), NEW base \in Int, NEW T, Grown(S, base, T), Len(T) = Len(S)
  PROVE  Under(mem', T) = Append(Under(mem, S), ActivationIn(mem', sp, base))
<1> DEFINE R == Len(S)
           x == ActivationIn(mem', sp, base)
           A == ActivationsIn(mem, S) \cup {x}
<1>1. /\ Placed(S) /\ R \in Nat /\ R \in 1..R /\ R - 1 \in Nat /\ R - 1 <= R
      /\ \A r \in 1..(R - 1) : T[r] = S[r]
  <2>1. R \in Nat /\ R >= 1
    BY Current, Layout
  <2>2. Placed(S) /\ \A r \in 1..(R - 1) : T[r] = S[r]
    BY DEF Grown, Stacked
  <2> QED BY <2>1, <2>2
<1>2. ActivationsIn(mem, S) \subseteq A /\ x \in A
  OBVIOUS
<1> HIDE DEF A
<1>3. SuspendedRow(mem', T, R) = Append(SuspendedRow(mem, S, R), x)
  BY <1>2, RowGrown
<1>4. Flat(HostRows(mem', T), R - 1) = Flat(HostRows(mem, S), R - 1)
  BY <1>1, PrefixSame
<1>5. Flat(HostRows(mem, S), R - 1) \in Seq(A) /\ SuspendedRow(mem, S, R) \in Seq(A)
  BY <1>1, <1>2, UnderSeq, RowSeq
<1> HIDE DEF x
<1>6. Under(mem', T) = Append(Flat(HostRows(mem, S), R - 1) \o SuspendedRow(mem, S, R), x)
  BY <1>2, <1>3, <1>4, <1>5, Sequencing DEF Under
<1> QED BY <1>6 DEF Under, x

\* A service that enters guest code puts itself there too.
LEMMA UnderNested ==
  ASSUME NEW S, Stacked(S), Undisturbed(S), NEW base \in Int, NEW T, Grown(S, base, T),
         Len(T) = Len(S) + 1, Len(T[Len(S) + 1]) = 1
  PROVE  Under(mem', T) = Append(Append(Under(mem, S), ActivationIn(mem', sp, base)), HostActivation)
<1> DEFINE R == Len(S)
           x == ActivationIn(mem', sp, base)
           A == ActivationsIn(mem, S) \cup {x}
           p == Flat(HostRows(mem, S), R - 1)
           row == SuspendedRow(mem, S, R)
<1>1. /\ Placed(S) /\ R \in Nat \ {0} /\ R \in 1..R /\ R - 1 \in Nat /\ R - 1 <= R /\ (R + 1) - 1 = R
      /\ (\A r \in 1..(R - 1) : T[r] = S[r]) /\ R - 1 <= R + 1 /\ R + 1 \in Nat /\ R \in 1..(R + 1)
  <2>1. R \in Nat /\ R >= 1
    BY Current, Layout
  <2>2. Placed(S) /\ \A r \in 1..(R - 1) : T[r] = S[r]
    BY DEF Grown, Stacked
  <2> QED BY <2>1, <2>2
<1>2. ActivationsIn(mem, S) \subseteq A /\ x \in A
  OBVIOUS
<1> HIDE DEF A
<1>3. SuspendedRow(mem', T, R) = Append(row, x)
  BY <1>2, RowGrown
<1>4. Flat(HostRows(mem', T), R - 1) = p
  BY <1>1, PrefixSame
<1>5. p \in Seq(A) /\ row \in Seq(A) /\ HostActivation \in A
  BY <1>1, <1>2, UnderSeq, RowSeq
<1>6. SuspendedRow(mem', T, R + 1) = <<>>
  <2>1. Len(T[R + 1]) - 1 = 0
    OBVIOUS
  <2>2. SuspendedRow(mem', T, R + 1) = [i \in 1..0 |-> ActivationIn(mem', T[R + 1][i], T[R + 1][i + 1])]
    BY <2>1 DEF SuspendedRow
  <2> QED BY <2>2
<1>7. HostRows(mem', T)[R] = Append(Append(row, x), HostActivation)
  BY <1>1, <1>3 DEF HostRows, HostRow
<1>8. Flat(HostRows(mem', T), R) = p \o Append(Append(row, x), HostActivation)
  <2>1. \A r \in 1..(R - 1) : HostRows(mem', T)[r] = HostRows(mem', T)[r]
    OBVIOUS
  <2>2. Flat(HostRows(mem', T), R) = Flat(HostRows(mem', T), R - 1) \o HostRows(mem', T)[R]
    BY <1>1, <2>1, FlatStep
  <2> HIDE DEF p, row, x
  <2> QED BY <1>4, <1>7, <2>2
<1>9. Under(mem', T) = Flat(HostRows(mem', T), R) \o <<>>
  <2>1. Len(T) = R + 1
    OBVIOUS
  <2> QED BY <1>1, <1>6, <2>1 DEF Under
<1>10. Under(mem, S) = p \o row
  BY DEF Under
<1> HIDE DEF p, row, x
<1>11. p \o Append(Append(row, x), HostActivation) = Append(Append(p \o row, x), HostActivation)
  <2>1. Append(row, x) \in Seq(A)
    BY <1>2, <1>5, Sequencing
  <2>2. p \o Append(Append(row, x), HostActivation) = Append(p \o Append(row, x), HostActivation)
    <3>1. ASSUME NEW q \in Seq(A), NEW h \in A PROVE p \o Append(q, h) = Append(p \o q, h)
      BY <1>5, Sequencing
    <3> QED BY <1>5, <2>1, <3>1, Zenon
  <2>3. p \o Append(row, x) = Append(p \o row, x)
    BY <1>2, <1>5, Sequencing
  <2> QED BY <2>2, <2>3
<1>12. Append(Append(p \o row, x), HostActivation) \in Seq(A)
  BY <1>2, <1>5, Sequencing
<1>13. Under(mem', T) = Append(Append(p \o row, x), HostActivation)
  BY <1>5, <1>8, <1>9, <1>11, <1>12, Sequencing
<1> QED BY <1>10, <1>13 DEF x

\* A sequence is its beginning and its last element.
LEMMA LastApart ==
  ASSUME NEW A, NEW s \in Seq(A), NEW k \in Nat, Len(s) = k + 1,
         NEW f, f = Front(s, k)
  PROVE  f \in Seq(A) /\ Len(f) = k /\ s = Append(f, s[k + 1]) /\ s[k + 1] \in A
<1> USE DEF Front
<1>1. f \in Seq(A) /\ Len(f) = k
  <2>1. f \in [1..k -> A]
    OBVIOUS
  <2> QED BY <2>1
<1>2. s[k + 1] \in A
  OBVIOUS
<1>3. k + 1 \in Nat \ {0} /\ Len(f) = (k + 1) - 1
  BY <1>1
<1>4. [i \in 1..(k + 1) |-> IF i < k + 1 THEN f[i] ELSE s[k + 1]] = Append(f, s[k + 1])
  BY <1>1, <1>2, <1>3, RowAppend
<1>5. \A i \in 1..(k + 1) : s[i] = IF i < k + 1 THEN f[i] ELSE s[k + 1]
  <2>1. \A i \in 1..(k + 1) : IF i < k + 1 THEN i \in 1..k ELSE i = k + 1
    OBVIOUS
  <2> QED BY <2>1
<1>6. s = [i \in 1..(k + 1) |-> s[i]]
  OBVIOUS
<1>7. s = [i \in 1..(k + 1) |-> IF i < k + 1 THEN f[i] ELSE s[k + 1]]
  BY <1>5, <1>6
<1> QED BY <1>1, <1>2, <1>4, <1>7

\* The beginning of one sequence after another.
LEMMA JoinedPrefix ==
  ASSUME NEW A, NEW p \in Seq(A), NEW s \in Seq(A), NEW k \in Nat, k <= Len(s)
  PROVE  /\ p \o Front(s, k) = SubSeq(p \o s, 1, Len(p) + k)
         /\ Len(p \o s) = Len(p) + Len(s) /\ \A i \in 1..Len(s) : (p \o s)[Len(p) + i] = s[i]
<1> DEFINE f == Front(s, k)
           x == p \o f
           y == SubSeq(p \o s, 1, Len(p) + k)
<1>1. f \in Seq(A) /\ Len(f) = k
  <2>1. f \in [1..k -> A]
    BY DEF Front
  <2> QED BY <2>1
<1>2. Len(p \o s) = Len(p) + Len(s) /\ p \o s \in Seq(A) /\ Len(p) \in Nat /\ Len(s) \in Nat
  OBVIOUS
<1>3. \A i \in 1..Len(s) : (p \o s)[Len(p) + i] = s[i]
  OBVIOUS
<1>4. \A i \in 1..Len(p) : (p \o s)[i] = p[i]
  OBVIOUS
<1>5. \A i \in 1..k : f[i] = s[i]
  BY DEF Front
<1> HIDE DEF f
<1>6. x \in Seq(A) /\ Len(x) = Len(p) + k
  BY <1>1
<1>7. y \in Seq(A) /\ Len(y) = Len(p) + k /\ \A i \in 1..(Len(p) + k) : y[i] = (p \o s)[i]
  BY <1>2
<1>8. ASSUME NEW i \in 1..(Len(p) + k) PROVE x[i] = y[i]
  <2>1. CASE i \in 1..Len(p)
    BY <1>1, <1>4, <1>7, <2>1
  <2>2. CASE i \notin 1..Len(p)
    <3>1. i - Len(p) \in 1..k /\ i - Len(p) \in 1..Len(s) /\ Len(p) + (i - Len(p)) = i
      BY <1>2, <2>2
    <3>2. (p \o s)[i] = s[i - Len(p)]
      BY <1>3, <3>1
    <3>3. x[i] = f[i - Len(p)]
      BY <1>1, <1>2, <2>2, <3>1
    <3> HIDE DEF x, y
    <3> QED BY <1>5, <1>7, <3>1, <3>2, <3>3
  <2> QED BY <2>1, <2>2
<1> HIDE DEF x, y
<1>9. x = y
  BY <1>6, <1>7, <1>8
<1> QED BY <1>2, <1>3, <1>9 DEF x, y, f

\* Frames that go take their activations with them; the others stay.
LEMMA UnderCut ==
  ASSUME NEW S, Stacked(S), Undisturbed(S), NEW R \in 1..Len(S), NEW k \in 1..Len(S[R]), NEW T, CutTo(S, R, k, T)
  PROVE  /\ Flat(HostRows(mem', T), R - 1) = Flat(HostRows(mem, S), R - 1)
         /\ SuspendedRow(mem', T, R) = Front(SuspendedRow(mem, S, R), k - 1)
         /\ R - 1 \in Nat /\ R - 1 <= Len(S) /\ k - 1 \in Nat /\ Len(S[R]) \in Nat /\ Len(S) \in Nat /\ Len(T) = R
<1>1. Placed(S) /\ Placed(T) /\ Len(T) = R /\ (\A r \in 1..(R - 1) : T[r] = S[r]) /\ Len(T[R]) = k
      /\ \A i \in 1..k : T[R][i] = S[R][i]
  BY DEF Stacked, CutTo
<1>2. Len(S) \in Nat /\ Len(S[R]) \in Nat
  BY <1>1, PlaceOf
<1>3. R - 1 \in Nat /\ R - 1 <= Len(S) /\ k - 1 \in Nat /\ R - 1 <= Len(T) /\ Len(T) \in Nat
  BY <1>1, <1>2
<1>4. Flat(HostRows(mem', T), R - 1) = Flat(HostRows(mem, S), R - 1)
  BY <1>1, <1>3, PrefixSame
<1>5. SuspendedRow(mem', T, R) = Front(SuspendedRow(mem, S, R), k - 1)
  BY <1>1, RowKept
<1> QED BY <1>1, <1>2, <1>3, <1>4, <1>5

\* A return uncovers the caller, the last suspended activation of its run.
LEMMA RowReturn ==
  ASSUME NEW S, Stacked(S), Undisturbed(S), NEW R \in 1..Len(S), NEW n, n = Len(S[R]), n > 1, NEW T,
         CutTo(S, R, n - 1, T), NEW A, ActivationsIn(mem, S) \subseteq A
  PROVE  /\ SuspendedRow(mem', T, R) \in Seq(A)
         /\ SuspendedRow(mem, S, R) = Append(SuspendedRow(mem', T, R), ActivationIn(mem, S[R][n - 1], S[R][n]))
         /\ ActivationIn(mem, S[R][n - 1], S[R][n]) \in A
<1> DEFINE row == SuspendedRow(mem, S, R)
<1>1. Placed(S)
  BY DEF Stacked
<1>2. n \in Nat
  BY <1>1, PlaceOf
<1>3. n - 1 \in 1..n /\ n - 2 \in Nat /\ (n - 1) - 1 = n - 2 /\ (n - 2) + 1 = n - 1 /\ (n - 1) + 1 = n
      /\ n - 1 \in 1..(n - 1)
  BY <1>2
<1>4. row \in Seq(A) /\ Len(row) = n - 1
  BY <1>1, RowSeq
<1>5. row[n - 1] = ActivationIn(mem, S[R][n - 1], S[R][n])
  BY <1>3 DEF SuspendedRow
<1>6. SuspendedRow(mem', T, R) = Front(row, n - 2)
  <2>1. SuspendedRow(mem', T, R) = Front(row, (n - 1) - 1)
    BY <1>3, UnderCut
  <2> QED BY <1>3, <2>1
<1> HIDE DEF row
<1>7. Len(row) = (n - 2) + 1
  BY <1>3, <1>4
<1>8. /\ SuspendedRow(mem', T, R) \in Seq(A) /\ row = Append(SuspendedRow(mem', T, R), row[(n - 2) + 1])
      /\ row[(n - 2) + 1] \in A
  BY <1>3, <1>4, <1>6, <1>7, LastApart
<1> QED BY <1>3, <1>5, <1>8 DEF row

\* Within one run.
LEMMA UnderReturn ==
  ASSUME NEW S, Stacked(S), Undisturbed(S), NEW n, n = Len(S[Len(S)]), n > 1, NEW T, CutTo(S, Len(S), n - 1, T)
  PROVE  Under(mem, S) = Append(Under(mem', T), ActivationIn(mem, S[Len(S)][n - 1], S[Len(S)][n]))
<1> DEFINE R == Len(S)
           A == ActivationsIn(mem, S)
           p == Flat(HostRows(mem, S), R - 1)
           row == SuspendedRow(mem', T, R)
           c == ActivationIn(mem, S[R][n - 1], S[R][n])
<1>1. R \in 1..R /\ n \in Nat /\ Placed(S) /\ n - 1 \in 1..n
  <2>1. R \in Nat /\ R >= 1 /\ Placed(S)
    BY Current, Layout DEF Stacked
  <2>2. R \in 1..R
    BY <2>1
  <2>3. n \in Nat
    BY <2>1, <2>2, PlaceOf
  <2> QED BY <2>1, <2>2, <2>3
<1>2. Flat(HostRows(mem', T), R - 1) = p /\ R - 1 \in Nat /\ R - 1 <= Len(S) /\ Len(T) = R
  BY <1>1, UnderCut
<1>3. row \in Seq(A) /\ SuspendedRow(mem, S, R) = Append(row, c) /\ c \in A
  BY <1>1, RowReturn
<1>4. p \in Seq(A)
  BY <1>1, <1>2, UnderSeq
<1>5. Under(mem', T) = p \o row
  BY <1>2 DEF Under
<1>6. Under(mem, S) = p \o Append(row, c)
  BY <1>3 DEF Under
<1> HIDE DEF p, row, c, A
<1>7. p \o Append(row, c) = Append(p \o row, c)
  BY <1>3, <1>4, Sequencing, SMTT(30)
<1> QED BY <1>5, <1>6, <1>7 DEF c

\* And from a nested run, which has returned from its first frame, to the one that entered it.
LEMMA UnderFinish ==
  ASSUME NEW S, Stacked(S), Undisturbed(S), NEW R \in 1..Len(S), Len(S) = R + 1, Len(S[Len(S)]) = 1,
         NEW n, n = Len(S[R]), n > 1, NEW T, CutTo(S, R, n - 1, T)
  PROVE  Under(mem, S) = Append(Append(Under(mem', T), ActivationIn(mem, S[R][n - 1], S[R][n])), HostActivation)
<1> DEFINE A == ActivationsIn(mem, S)
           p == Flat(HostRows(mem, S), R - 1)
           row == SuspendedRow(mem', T, R)
           c == ActivationIn(mem, S[R][n - 1], S[R][n])
<1>1. n \in Nat /\ Placed(S) /\ n - 1 \in 1..n
  <2>1. Placed(S)
    BY DEF Stacked
  <2>2. n \in Nat
    BY <2>1, PlaceOf
  <2> QED BY <2>1, <2>2
<1>2. /\ Flat(HostRows(mem', T), R - 1) = p /\ R - 1 \in Nat /\ R - 1 <= Len(S) /\ Len(T) = R /\ Len(S) \in Nat
  BY <1>1, UnderCut
<1>3. row \in Seq(A) /\ SuspendedRow(mem, S, R) = Append(row, c) /\ c \in A
  BY <1>1, RowReturn, ZenonT(60)
<1>4. p \in Seq(A) /\ HostActivation \in A
  BY <1>1, <1>2, UnderSeq, RowSeq
<1>5. Under(mem', T) = p \o row
  BY <1>2 DEF Under
<1>6. SuspendedRow(mem, S, Len(S)) = <<>>
  <2>1. Len(S[Len(S)]) - 1 = 0
    OBVIOUS
  <2>2. SuspendedRow(mem, S, Len(S)) = [i \in 1..0 |-> ActivationIn(mem, S[Len(S)][i], S[Len(S)][i + 1])]
    BY <2>1 DEF SuspendedRow
  <2> QED BY <2>2
<1>7. Flat(HostRows(mem, S), R) = p \o HostRows(mem, S)[R]
  <2>1. \A r \in 1..(R - 1) : HostRows(mem, S)[r] = HostRows(mem, S)[r]
    OBVIOUS
  <2>2. R \in Nat \ {0}
    BY <1>2
  <2> QED BY <2>1, <2>2, FlatStep
<1>8. HostRows(mem, S)[R] = Append(Append(row, c), HostActivation)
  <2>1. HostRows(mem, S)[R] = Append(SuspendedRow(mem, S, R), HostActivation)
    BY DEF HostRows, HostRow
  <2> HIDE DEF row, c
  <2> QED BY <1>3, <2>1
<1>9. Under(mem, S) = Flat(HostRows(mem, S), R) \o <<>>
  <2>1. Len(S) - 1 = R
    BY <1>2
  <2> QED BY <1>6, <2>1 DEF Under
<1> HIDE DEF p, row, c, A
<1>10. p \o Append(Append(row, c), HostActivation) = Append(Append(p \o row, c), HostActivation)
  <2>1. Append(row, c) \in Seq(A)
    BY <1>3, <1>4, Sequencing
  <2>2. p \o Append(Append(row, c), HostActivation) = Append(p \o Append(row, c), HostActivation)
    <3>1. ASSUME NEW q \in Seq(A), NEW h \in A PROVE p \o Append(q, h) = Append(p \o q, h)
      BY <1>4, Sequencing
    <3> QED BY <1>4, <2>1, <3>1, Zenon
  <2>3. p \o Append(row, c) = Append(p \o row, c)
    BY <1>3, <1>4, Sequencing
  <2> QED BY <2>2, <2>3
<1>11. Under(mem, S) = Append(Append(p \o row, c), HostActivation) \o <<>>
  BY <1>7, <1>8, <1>9, <1>10
<1>12. Under(mem, S) = Append(Append(p \o row, c), HostActivation)
  <2>1. p \o row \in Seq(A)
    BY <1>3, <1>4, Sequencing
  <2>2. Append(p \o row, c) \in Seq(A)
    BY <1>3, <2>1, Sequencing
  <2>3. Append(Append(p \o row, c), HostActivation) \in Seq(A)
    BY <1>4, <2>2, Sequencing
  <2> QED BY <1>11, <2>3, Sequencing
<1> QED BY <1>5, <1>12 DEF c

\* A long jump uncovers the activation of any frame of the innermost run.
LEMMA UnderJump ==
  ASSUME NEW S, Stacked(S), Undisturbed(S), NEW n, n = Len(S[Len(S)]), NEW i \in 1..n, NEW T, CutTo(S, Len(S), i, T)
  PROVE  LET d == Len(Flat(HostRows(mem, S), Len(S) - 1))
             U == Under(mem, S)
         IN  /\ d \in Nat /\ n \in Nat /\ U \in Seq(ActivationsIn(mem, S)) /\ Len(U) = d + n - 1
             /\ Under(mem', T) = SubSeq(U, 1, d + i - 1)
             /\ \A j \in 1..(n - 1) : U[d + j] = ActivationIn(mem, S[Len(S)][j], S[Len(S)][j + 1])
<1> DEFINE R == Len(S)
           A == ActivationsIn(mem, S)
           p == Flat(HostRows(mem, S), R - 1)
           row == SuspendedRow(mem, S, R)
<1>1. R \in 1..R /\ n \in Nat /\ n >= 1 /\ Placed(S)
  <2>1. R \in Nat /\ R >= 1 /\ Placed(S)
    BY Current, Layout DEF Stacked
  <2>2. R \in 1..R
    BY <2>1
  <2>3. n \in Nat
    BY <2>1, <2>2, PlaceOf
  <2> QED BY <2>1, <2>2, <2>3
<1>2. /\ Flat(HostRows(mem', T), R - 1) = p /\ R - 1 \in Nat /\ R - 1 <= Len(S) /\ Len(T) = R
      /\ SuspendedRow(mem', T, R) = Front(row, i - 1)
  BY <1>1, UnderCut
<1>3. row \in Seq(A) /\ Len(row) = n - 1 /\ p \in Seq(A) /\ Under(mem, S) \in Seq(A)
  <2>1. ASSUME NEW r \in 1..Len(S)
        PROVE  SuspendedRow(mem, S, r) \in Seq(A) /\ Len(SuspendedRow(mem, S, r)) = Len(S[r]) - 1
    BY <1>1, RowSeq
  <2>2. p \in Seq(A) /\ Under(mem, S) \in Seq(A)
    BY <1>1, <1>2, UnderSeq
  <2> QED BY <1>1, <2>1, <2>2
<1>4. Under(mem', T) = p \o Front(row, i - 1)
  <2> HIDE DEF p, row
  <2> QED BY <1>2 DEF Under
<1>5. Under(mem, S) = p \o row
  BY DEF Under
<1>6. \A j \in 1..(n - 1) : row[j] = ActivationIn(mem, S[R][j], S[R][j + 1])
  BY DEF SuspendedRow
<1>7. i - 1 \in Nat /\ i - 1 <= Len(row)
  <2> HIDE DEF row
  <2> QED BY <1>1, <1>3
<1> HIDE DEF p, row, A
<1>8. /\ p \o Front(row, i - 1) = SubSeq(p \o row, 1, Len(p) + (i - 1))
      /\ Len(p \o row) = Len(p) + Len(row) /\ \A j \in 1..Len(row) : (p \o row)[Len(p) + j] = row[j]
  BY <1>3, <1>7, JoinedPrefix
<1>9. Len(p) \in Nat
  BY <1>3
<1>10. Len(p) + (i - 1) = Len(p) + i - 1 /\ Len(p) + (n - 1) = Len(p) + n - 1
  BY <1>1, <1>9
<1>11. Len(Under(mem, S)) = Len(p) + n - 1
  BY <1>3, <1>5, <1>8, <1>10
<1>12. Under(mem', T) = SubSeq(Under(mem, S), 1, Len(p) + i - 1)
  BY <1>4, <1>5, <1>8, <1>10
<1>13. \A j \in 1..(n - 1) : Under(mem, S)[Len(p) + j] = ActivationIn(mem, S[R][j], S[R][j + 1])
  BY <1>3, <1>5, <1>6, <1>8
<1> QED BY <1>1, <1>3, <1>9, <1>11, <1>12, <1>13 DEF p, A

-----------------------------------------------------------------------------
(***************************************************************************)
(* Steps of the stack of activations.                                      *)
(***************************************************************************)

\* The top of the stack and what is below it.
LEMMA TopAndBelow ==
  ASSUME NEW A, NEW U \in Seq(A), NEW e \in A, ActivationStack = Append(U, e)
  PROVE  /\ Activation!Top = e /\ Activation!Below = U /\ Len(ActivationStack) = Len(U) + 1
         /\ Len(U) \in Nat /\ \A i \in 1..Len(U) : ActivationStack[i] = U[i]
<1> DEFINE s == Append(U, e)
<1>1. /\ Len(s) = Len(U) + 1 /\ s[Len(U) + 1] = e /\ Len(U) \in Nat
      /\ \A i \in 1..Len(U) : s[i] = U[i]
  OBVIOUS
<1>2. SubSeq(s, 1, Len(s) - 1) = U
  BY AppendProperties
<1> HIDE DEF s
<1>3. ActivationStack = s
  BY DEF s
<1> QED BY <1>1, <1>2, <1>3 DEF Activation!Top, Activation!Below

\* A sequence that begins as another one.
LEMMA Beginning ==
  ASSUME NEW A, NEW s \in Seq(A), NEW t \in Seq(A), Len(s) <= Len(t), \A i \in 1..Len(s) : t[i] = s[i]
  PROVE  SubSeq(t, 1, Len(s)) = s
<1> DEFINE x == SubSeq(t, 1, Len(s))
<1>1. x \in Seq(A) /\ Len(x) = Len(s) /\ \A i \in 1..Len(s) : x[i] = t[i]
  OBVIOUS
<1> HIDE DEF x
<1>2. x = s
  BY <1>1
<1> QED BY <1>2 DEF x

\* A call of g.
LEMMA CallStep ==
  ASSUME NEW A, NEW U \in Seq(A), NEW e \in A, ActivationStack = Append(U, e), Activation!IsRunning(e),
         NEW site, NEW g, NEW x, x = [e EXCEPT !.site = site],
         NEW y, y.fn = g, y.site = "none", y.vars[1] = e.vars[2],
         ActivationStack' = Append(Append(U, x), y)
  PROVE  Activation!Call(g, site)
<1> DEFINE B == A \cup {x, y}
<1>1. U \in Seq(B) /\ x \in B /\ y \in B
  OBVIOUS
<1>2. Activation!Top = e /\ Activation!Below = U /\ Len(ActivationStack) = Len(U) + 1
  BY TopAndBelow
<1> HIDE DEF B
<1>3. /\ Append(U, x) \in Seq(B) /\ Len(Append(U, x)) = Len(U) + 1
  BY <1>1
<1>4. ASSUME NEW p \in Seq(B)
      PROVE  /\ Len(Append(p, y)) = Len(p) + 1 /\ Append(p, y)[Len(p) + 1] = y
             /\ SubSeq(Append(p, y), 1, Len(p)) = p
  <2>1. Len(Append(p, y)) = Len(p) + 1 /\ Len(p) \in Nat /\ Append(p, y)[Len(p) + 1] = y
    BY <1>1
  <2>2. SubSeq(Append(p, y), 1, Len(Append(p, y)) - 1) = p
    BY <1>1, AppendProperties
  <2> QED BY <2>1, <2>2
<1>5. /\ Len(ActivationStack') = Len(U) + 1 + 1 /\ ActivationStack'[Len(U) + 1 + 1] = y
      /\ SubSeq(ActivationStack', 1, Len(U) + 1) = Append(U, x)
  BY <1>3, <1>4
<1>6. Len(U) \in Nat /\ Len(U) + 1 + 1 = (Len(U) + 1) + 1
  BY <1>1
<1> QED BY <1>2, <1>5, <1>6 DEF Activation!Call, Activation!Suspended, Activation!Starts

\* A service that enters g.
LEMMA CallNestedStep ==
  ASSUME NEW A, NEW U \in Seq(A), NEW e \in A, ActivationStack = Append(U, e), Activation!IsRunning(e),
         NEW site, NEW g, NEW x, x = [e EXCEPT !.site = site], NEW h, h.fn = Host,
         NEW y, y.fn = g, y.site = "none", y.vars[1] = e.vars[2],
         ActivationStack' = Append(Append(Append(U, x), h), y)
  PROVE  Activation!CallNested(g, site)
<1> DEFINE B == A \cup {x, y, h}
           s == Append(U, x)
           t == Append(Append(s, h), y)
<1>1. U \in Seq(B) /\ x \in B /\ y \in B /\ h \in B
  OBVIOUS
<1>2. Activation!Top = e /\ Activation!Below = U /\ Len(ActivationStack) = Len(U) + 1 /\ Len(U) \in Nat
  BY TopAndBelow
<1> HIDE DEF B
<1>3. s \in Seq(B) /\ Len(s) = Len(U) + 1
  BY <1>1
<1> HIDE DEF s
<1>4. /\ Len(t) = Len(s) + 2 /\ t[Len(s) + 1] = h /\ t[Len(s) + 2] = y /\ t \in Seq(B)
      /\ \A i \in 1..Len(s) : t[i] = s[i]
  BY <1>1, <1>3
<1>5. SubSeq(t, 1, Len(s)) = s
  <2> HIDE DEF t
  <2>1. Len(s) <= Len(t)
    BY <1>3, <1>4
  <2> QED BY <1>3, <1>4, <2>1, Beginning
<1>6. ActivationStack' = t
  BY DEF s
<1> HIDE DEF t
<1>7. /\ Len(ActivationStack') = Len(ActivationStack) + 2
      /\ ActivationStack'[Len(ActivationStack) + 1] = h /\ ActivationStack'[Len(ActivationStack) + 2] = y
      /\ SubSeq(ActivationStack', 1, Len(ActivationStack)) = Append(U, x)
  BY <1>2, <1>3, <1>4, <1>5, <1>6 DEF s
<1> QED BY <1>2, <1>7 DEF Activation!CallNested, Activation!Suspended, Activation!Starts

\* A call that is answered at once.
LEMMA AnswerStep ==
  ASSUME NEW A, NEW U \in Seq(A), NEW e \in A, ActivationStack = Append(U, e), Activation!IsRunning(e),
         NEW site, NEW v,
         ActivationStack' = Append(U, Activation!Resumed([e EXCEPT !.site = site], v))
  PROVE  Activation!Answer(site, v)
BY TopAndBelow DEF Activation!Answer

\* An assignment.
LEMMA AssignStep ==
  ASSUME NEW A, NEW U \in Seq(A), NEW e \in A, ActivationStack = Append(U, e), Activation!IsRunning(e),
         NEW i, NEW v,
         ActivationStack' = Append(U, [e EXCEPT !.vars[i] = v])
  PROVE  Activation!Assign(i, v)
BY TopAndBelow DEF Activation!Assign

\* A return to guest code.
LEMMA ReturnStep ==
  ASSUME NEW A, NEW V \in Seq(A), NEW c \in A, NEW e \in A, ActivationStack = Append(Append(V, c), e),
         Activation!IsRunning(e), c.fn # Host,
         NEW i, ActivationStack' = Append(V, Activation!Resumed(c, e.vars[i]))
  PROVE  Activation!Return(i)
<1> DEFINE U == Append(V, c)
<1>1. U \in Seq(A) /\ Len(U) = Len(V) + 1 /\ U[Len(U)] = c /\ Len(V) \in Nat
  OBVIOUS
<1>2. SubSeq(U, 1, Len(U) - 1) = V
  BY AppendProperties
<1>3. ActivationStack = Append(U, e)
  OBVIOUS
<1> HIDE DEF U
<1>4. Activation!Top = e /\ Activation!Below = U /\ Len(ActivationStack) = Len(U) + 1
  BY <1>1, <1>3, TopAndBelow
<1>5. Len(ActivationStack) > 1
  BY <1>1, <1>4
<1> QED BY <1>1, <1>2, <1>4, <1>5 DEF Activation!Return

\* A return to the service that entered guest code, and its own return.
LEMMA ReturnNestedStep ==
  ASSUME NEW A, NEW V \in Seq(A), NEW c \in A, NEW h \in A, NEW e \in A,
         ActivationStack = Append(Append(Append(V, c), h), e),
         Activation!IsRunning(e), h.fn = Host,
         NEW i, ActivationStack' = Append(V, Activation!Resumed(c, e.vars[i]))
  PROVE  Activation!ReturnNested(i)
<1> DEFINE W == Append(V, c)
           U == Append(W, h)
<1>1. W \in Seq(A) /\ Len(W) = Len(V) + 1 /\ W[Len(V) + 1] = c /\ Len(V) \in Nat
      /\ \A j \in 1..Len(V) : W[j] = V[j]
  OBVIOUS
<1>2. ActivationStack = Append(U, e)
  OBVIOUS
<1> HIDE DEF W
<1>3. U \in Seq(A) /\ Len(U) = Len(W) + 1 /\ U[Len(U)] = h /\ \A j \in 1..Len(W) : U[j] = W[j]
  BY <1>1
<1> HIDE DEF U
<1>4. /\ Activation!Top = e /\ Activation!Below = U /\ Len(ActivationStack) = Len(U) + 1
      /\ \A j \in 1..Len(U) : ActivationStack[j] = U[j]
  BY <1>2, <1>3, TopAndBelow
<1>5. /\ Len(ActivationStack) > 2 /\ Len(ActivationStack) - 2 = Len(V) + 1
      /\ ActivationStack[Len(V) + 1] = c /\ (Len(V) + 1) - 1 = Len(V) /\ Len(U) = Len(V) + 2
  BY <1>1, <1>3, <1>4
<1>6. SubSeq(ActivationStack, 1, Len(V)) = V
  <2> DEFINE s == Append(U, e)
  <2>1. s \in Seq(A) /\ Len(s) = Len(U) + 1 /\ \A j \in 1..Len(U) : s[j] = U[j]
    BY <1>3
  <2> HIDE DEF s
  <2>2. Len(V) <= Len(s) /\ \A j \in 1..Len(V) : s[j] = V[j]
    <3>1. \A j \in 1..Len(V) : j \in 1..Len(U) /\ j \in 1..Len(W)
      BY <1>1, <1>3
    <3> QED BY <1>1, <1>3, <2>1, <3>1
  <2>3. SubSeq(s, 1, Len(V)) = V
    BY <2>1, <2>2, Beginning
  <2> QED BY <1>2, <2>3 DEF s
<1> QED BY <1>3, <1>4, <1>5, <1>6 DEF Activation!ReturnNested

\* A long jump to the activation at depth d.
LEMMA LongjmpStep ==
  ASSUME NEW A, NEW U \in Seq(A), NEW e \in A, ActivationStack = Append(U, e), Activation!IsRunning(e),
         NEW d \in 1..(Len(U) + 1), NEW c, IF d = Len(U) + 1 THEN c = e ELSE c = U[d],
         \A j \in (d + 1)..Len(U) : U[j].fn # Host,
         NEW v, ActivationStack' = Append(SubSeq(U, 1, d - 1),
                                     Activation!Resumed([c EXCEPT !.site = "setjmp"], IF v = 0 THEN 1 ELSE v))
  PROVE  Activation!Longjmp(d, v) /\ d \in 1..Len(ActivationStack)
<1> DEFINE s == Append(U, e)
<1>1. /\ Activation!Top = e /\ Len(ActivationStack) = Len(U) + 1 /\ Len(U) \in Nat
      /\ ActivationStack = s
  BY TopAndBelow
<1>2. s \in Seq(A) /\ Len(s) = Len(U) + 1 /\ s[Len(U) + 1] = e /\ \A j \in 1..Len(U) : s[j] = U[j]
  OBVIOUS
<1> HIDE DEF s
<1>3. s[d] = c
  <2>1. d = Len(U) + 1 \/ (d \in 1..Len(U) /\ d # Len(U) + 1)
    BY <1>1
  <2> QED BY <1>2, <2>1
<1>4. e.fn # Host
  BY DEF Activation!IsRunning
<1>5. \A j \in (d + 1)..(Len(U) + 1) : s[j].fn # Host
  <2>1. ASSUME NEW n \in Nat, NEW k \in 1..(n + 1), NEW j \in (k + 1)..(n + 1)
        PROVE  j = n + 1 \/ (j \in (k + 1)..n /\ j \in 1..n)
    OBVIOUS
  <2>2. ASSUME NEW j \in (d + 1)..(Len(U) + 1), j # Len(U) + 1 PROVE s[j].fn # Host
    <3>1. j \in (d + 1)..Len(U) /\ j \in 1..Len(U)
      BY <1>1, <2>1, <2>2
    <3> QED BY <1>2, <3>1
  <2>3. s[Len(U) + 1].fn # Host
    BY <1>2, <1>4
  <2> QED BY <2>2, <2>3
<1>6. SubSeq(s, 1, d - 1) = SubSeq(U, 1, d - 1)
  <2>1. d - 1 \in Nat /\ d - 1 <= Len(U) /\ d - 1 <= Len(s)
    BY <1>1, <1>2
  <2>2. SubSeq(U, 1, d - 1) \in Seq(A) /\ Len(SubSeq(U, 1, d - 1)) = d - 1
        /\ \A j \in 1..(d - 1) : SubSeq(U, 1, d - 1)[j] = U[j]
    BY <2>1
  <2>3. SubSeq(s, 1, d - 1) \in Seq(A) /\ Len(SubSeq(s, 1, d - 1)) = d - 1
        /\ \A j \in 1..(d - 1) : SubSeq(s, 1, d - 1)[j] = s[j]
    BY <1>2, <2>1
  <2>4. \A j \in 1..(d - 1) : j \in 1..Len(U)
    BY <2>1
  <2>5. \A j \in 1..(d - 1) : SubSeq(s, 1, d - 1)[j] = SubSeq(U, 1, d - 1)[j]
    BY <1>2, <2>2, <2>3, <2>4
  <2> QED BY <2>2, <2>3, <2>5
<1> QED BY <1>1, <1>2, <1>3, <1>5, <1>6 DEF Activation!Longjmp

-----------------------------------------------------------------------------
(***************************************************************************)
(* The running activation.                                                 *)
(***************************************************************************)

\* An activation that runs in frame f and whose first variable is x.
GuestActivation(m, f, x) ==
  [fn |-> m[f + ENTRY].fn, site |-> "none",
   vars |-> [i \in 1..2 |-> IF i = 1 THEN x ELSE m[f + VarCell(2)]]]

FirstVar ==
  IF pc.at = "entry" THEN mem[sp + mem[sp + FRAME_SIZE]]
  ELSE IF pc.at \in Sites /\ Wants[pc.at] = 1 THEN mem[mem[sp + SiteCell(pc.at)]]
  ELSE Var(1)

\* It runs in the innermost frame, before and after a step.
LEMMA RunningIs ==
  /\ RunningActivation = GuestActivation(mem, sp, FirstVar)
  /\ RunningActivation' = GuestActivation(mem', sp', FirstVar')
<1>1. \A i \in 1..2 : i = 1 \/ i = 2
  OBVIOUS
<1>2. [i \in 1..2 |->
         IF i = 1 /\ pc.at = "entry" THEN mem[sp + mem[sp + FRAME_SIZE]]
         ELSE IF i = 1 /\ pc.at \in Sites /\ Wants[pc.at] = 1 THEN mem[mem[sp + SiteCell(pc.at)]]
         ELSE mem[sp + VarCell(i)]]
      = [i \in 1..2 |-> IF i = 1 THEN FirstVar ELSE mem[sp + VarCell(2)]]
  BY <1>1 DEF FirstVar, Var
<1>3. [i \in 1..2 |->
         IF i = 1 /\ pc'.at = "entry" THEN mem'[sp' + mem'[sp' + FRAME_SIZE]]
         ELSE IF i = 1 /\ pc'.at \in Sites /\ Wants[pc'.at] = 1 THEN mem'[mem'[sp' + SiteCell(pc'.at)]]
         ELSE mem'[sp' + VarCell(i)]]
      = [i \in 1..2 |-> IF i = 1 THEN FirstVar' ELSE mem'[sp' + VarCell(2)]]
  BY <1>1 DEF FirstVar, Var
<1>4. RunningActivation = GuestActivation(mem, sp, FirstVar)
  BY <1>2 DEF RunningActivation, GuestActivation
<1>5. RunningActivation' = GuestActivation(mem', sp', FirstVar')
  BY <1>3 DEF RunningActivation, GuestActivation
<1> QED BY <1>4, <1>5

\* The sites and the other places in a text.
LEMMA Places ==
  /\ "entry" \notin Sites /\ "body" \notin Sites /\ "entry" # "body"
  /\ \A site \in Sites : site # "entry" /\ site # "body" /\ site # "halt" /\ SiteCell(site) \in 8..10
  /\ VarCell(1) = 11 /\ VarCell(2) = 12 /\ Wants["setjmp"] = 1
BY DEF Sites, SiteCell, VarCell, HEADER_SIZE, Wants

\* The first variable of the next state, by where it runs.
LEMMA NextFirst ==
  /\ pc'.at = "entry" => FirstVar' = mem'[sp' + mem'[sp' + FRAME_SIZE]]
  /\ pc'.at = "body" => FirstVar' = mem'[sp' + VarCell(1)]
  /\ pc'.at \in Sites /\ Awaits(mem', sp', pc'.at) =>
       FirstVar' = IF Wants[pc'.at] = 1 THEN mem'[sp' - 1] ELSE mem'[sp' + VarCell(1)]
BY Places DEF FirstVar, Var, Awaits

\* Activation a has called at a site and is given v.
Given(a, site, v) == Activation!Resumed([a EXCEPT !.site = site], v)

\* Its fields.
LEMMA ResumedRecord ==
  ASSUME NEW fn, NEW s, NEW w, NEW v
  PROVE  Activation!Resumed([fn |-> fn, site |-> s, vars |-> w], v)
         = [fn |-> fn, site |-> "none", vars |-> [w EXCEPT ![1] = IF Wants[s] = 1 THEN v ELSE w[1]]]
<1> DEFINE a == [fn |-> fn, site |-> s, vars |-> w]
           b == [fn |-> fn, site |-> "none", vars |-> w]
           z == [w EXCEPT ![1] = IF Wants[s] = 1 THEN v ELSE w[1]]
<1>1. a.site = s /\ a.vars = w /\ b.vars = w /\ [a EXCEPT !.site = "none"] = b
  OBVIOUS
<1>2. ASSUME NEW y PROVE [b EXCEPT !.vars = y] = [fn |-> fn, site |-> "none", vars |-> y]
  OBVIOUS
<1> HIDE DEF a, b
<1>3. Activation!Resumed(a, v)
      = [b EXCEPT !.vars = [b.vars EXCEPT ![1] = IF Wants[a.site] = 1 THEN v ELSE a.vars[1]]]
  BY <1>1, Zenon DEF Activation!Resumed
<1>4. [b.vars EXCEPT ![1] = IF Wants[a.site] = 1 THEN v ELSE a.vars[1]] = z
  BY <1>1
<1> HIDE DEF z
<1>5. Activation!Resumed(a, v) = [b EXCEPT !.vars = z]
  BY <1>3, <1>4, Zenon
<1>6. Activation!Resumed(a, v) = [fn |-> fn, site |-> "none", vars |-> z]
  BY <1>2, <1>5, Zenon
<1> QED BY <1>6 DEF a, z

\* A suspended activation that is given v runs again.
LEMMA ResumedIs ==
  ASSUME NEW m, NEW f, NEW c, NEW site, NEW v
  PROVE  /\ Given(ActivationIn(m, f, c), site, v)
            = GuestActivation(m, f, IF Wants[site] = 1 THEN v ELSE m[f + VarCell(1)])
         /\ Activation!Resumed(ActivationIn(m, f, c), v)
            = GuestActivation(m, f, IF Wants[m[c + RET_PC].at] = 1 THEN v ELSE m[f + VarCell(1)])
<1> DEFINE Fn == m[f + ENTRY].fn
           w == [i \in 1..2 |-> m[f + VarCell(i)]]
           u(y) == [i \in 1..2 |-> IF i = 1 THEN y ELSE m[f + VarCell(2)]]
           at == m[c + RET_PC].at
<1>1. ASSUME NEW y PROVE [w EXCEPT ![1] = y] = u(y)
  <2>1. \A i \in 1..2 : i = 1 \/ i = 2
    OBVIOUS
  <2> QED BY <2>1
<1>2. w[1] = m[f + VarCell(1)]
  OBVIOUS
<1> HIDE DEF w, u, Fn, at
<1>3. ASSUME NEW s
      PROVE  Activation!Resumed([fn |-> Fn, site |-> s, vars |-> w], v)
             = [fn |-> Fn, site |-> "none", vars |-> u(IF Wants[s] = 1 THEN v ELSE m[f + VarCell(1)])]
  <2>1. Activation!Resumed([fn |-> Fn, site |-> s, vars |-> w], v)
        = [fn |-> Fn, site |-> "none", vars |-> [w EXCEPT ![1] = IF Wants[s] = 1 THEN v ELSE w[1]]]
    BY ResumedRecord
  <2> QED BY <1>1, <1>2, <2>1
<1>4. [[fn |-> Fn, site |-> at, vars |-> w] EXCEPT !.site = site] = [fn |-> Fn, site |-> site, vars |-> w]
  OBVIOUS
<1>5. ActivationIn(m, f, c) = [fn |-> Fn, site |-> at, vars |-> w]
  BY DEF ActivationIn, Fn, at, w
<1>6. ASSUME NEW y PROVE GuestActivation(m, f, y) = [fn |-> Fn, site |-> "none", vars |-> u(y)]
  BY DEF GuestActivation, Fn, u
<1> QED BY <1>3, <1>4, <1>5, <1>6 DEF at, Given

\* The running one, if it calls at a site and is answered v.
LEMMA AnsweredIs ==
  ASSUME NEW m, NEW f, NEW x, NEW site, NEW v, NEW z, z = IF Wants[site] = 1 THEN v ELSE x
  PROVE  Given(GuestActivation(m, f, x), site, v) = GuestActivation(m, f, z)
<1> DEFINE Fn == m[f + ENTRY].fn
           u(y) == [i \in 1..2 |-> IF i = 1 THEN y ELSE m[f + VarCell(2)]]
<1>1. ASSUME NEW y PROVE [u(x) EXCEPT ![1] = y] = u(y) /\ u(x)[1] = x
  <2>1. \A i \in 1..2 : i = 1 \/ i = 2
    OBVIOUS
  <2>2. [u(x) EXCEPT ![1] = y] = u(y)
    BY <2>1
  <2>3. u(x)[1] = x
    OBVIOUS
  <2> QED BY <2>2, <2>3
<1> HIDE DEF u, Fn
<1>2. [[fn |-> Fn, site |-> "none", vars |-> u(x)] EXCEPT !.site = site] = [fn |-> Fn, site |-> site, vars |-> u(x)]
  OBVIOUS
<1>3. Activation!Resumed([fn |-> Fn, site |-> site, vars |-> u(x)], v)
      = [fn |-> Fn, site |-> "none", vars |-> [u(x) EXCEPT ![1] = IF Wants[site] = 1 THEN v ELSE u(x)[1]]]
  BY ResumedRecord
<1>4. ASSUME NEW y PROVE GuestActivation(m, f, y) = [fn |-> Fn, site |-> "none", vars |-> u(y)]
  BY DEF GuestActivation, Fn, u
<1> QED BY <1>1, <1>2, <1>3, <1>4 DEF Given

\* The activation of a frame that a step leaves alone.
LEMMA GuestKept ==
  ASSUME NEW S, Stacked(S), Undisturbed(S), NEW r \in 1..Len(S), NEW i \in 1..Len(S[r]), ~IsHostFrame(S, r, i),
         r # Len(S) \/ i # Len(S[r]) \/ mem'[sp + VarCell(2)] = mem[sp + VarCell(2)], NEW x
  PROVE  GuestActivation(mem', S[r][i], x) = GuestActivation(mem, S[r][i], x)
<1>1. mem'[S[r][i] + ENTRY] = mem[S[r][i] + ENTRY]
  BY GuestCells, InnerKept
<1>2. mem'[S[r][i] + VarCell(2)] = mem[S[r][i] + VarCell(2)]
  <2>1. CASE r # Len(S) \/ i # Len(S[r])
    BY <2>1, GuestCells, InnerKept
  <2>2. CASE r = Len(S) /\ i = Len(S[r])
    BY <2>2, Current
  <2> QED BY <2>1, <2>2
<1> QED BY <1>1, <1>2 DEF GuestActivation

\* The running activation is one of guest code, and on top of the stack.
LEMMA StackNow ==
  ASSUME NEW S, Stacked(S), Held(mem, S)
  PROVE  /\ Activation!IsRunning(RunningActivation) /\ ~IsHostFrame(S, Len(S), Len(S[Len(S)]))
         /\ \E A : /\ Under(mem, S) \in Seq(A) /\ RunningActivation \in A
                   /\ ActivationStack = Append(Under(mem, S), RunningActivation)
<1>1. Len(S) \in 1..Len(S) /\ Len(S[Len(S)]) \in 1..Len(S[Len(S)]) /\ sp = S[Len(S)][Len(S[Len(S)])]
      /\ Len(S) \in Nat /\ Placed(S)
  <2>1. Len(S) \in Nat /\ Len(S) >= 1
    BY Current, Layout
  <2> QED BY <2>1, Current DEF Stacked
<1>2. ~IsHostFrame(S, Len(S), Len(S[Len(S)]))
  BY <1>1 DEF IsHostFrame
<1>3. mem[sp + ENTRY].fn \in Functions
  BY <1>1, <1>2 DEF Held, HeldAt
<1>4. mem[sp + ENTRY].fn # Host
  BY <1>3, MachineAssumption
<1>5. Activation!IsRunning(RunningActivation)
  BY <1>4 DEF Activation!IsRunning, RunningActivation
<1> DEFINE A == ActivationsIn(mem, S) \cup {RunningActivation}
<1>6. ActivationsIn(mem, S) \subseteq A /\ RunningActivation \in A
  OBVIOUS
<1> HIDE DEF A
<1>7. Len(S) - 1 \in Nat /\ Len(S) - 1 <= Len(S)
  BY <1>1
<1>8. Under(mem, S) \in Seq(A)
  BY <1>1, <1>6, <1>7, UnderSeq
<1>9. ActivationStack = Append(Under(mem, S), RunningActivation)
  BY StackFound DEF StackIs
<1> QED BY <1>2, <1>5, <1>6, <1>8, <1>9

-----------------------------------------------------------------------------
(***************************************************************************)
(* Steps within the frames there are.                                      *)
(***************************************************************************)

\* A step that leaves the frames and, in the running one, where results will be.
Steady(S) ==
  /\ Undisturbed(S)
  /\ \A site \in Sites : mem'[sp + SiteCell(site)] \in {mem[sp + SiteCell(site)], sp - 1}

\* The cells of the running frame.
LEMMA Cells ==
  ASSUME NEW S, Stacked(S), NEW k \in 8..12
  PROVE  sp + k \in Int /\ sp + k \in OwnCells /\ sp + k \in MemoryWords /\ ~Vital(S, sp + k)
<1>1. sp \in Int /\ sp + k \in Int /\ sp + 5 <= sp + k /\ sp + k < sp + 15 /\ sp + k \in sp + 8 .. sp + 12
  <2>1. sp \in Int
    BY Current
  <2>2. ASSUME NEW x \in Int PROVE x + k \in Int /\ x + 5 <= x + k /\ x + k < x + 15 /\ x + k \in x + 8 .. x + 12
    OBVIOUS
  <2> QED BY <2>1, <2>2
<1> QED BY <1>1, OwnWords DEF OwnCells

\* A call site of guest code that knows where its result will be keeps knowing it.
LEMMA AwaitsKept ==
  ASSUME NEW S, Stacked(S), Steady(S), NEW r \in 1..Len(S), NEW i \in 1..Len(S[r]), ~IsHostFrame(S, r, i),
         NEW site, Awaits(mem, S[r][i], site)
  PROVE  Awaits(mem', S[r][i], site)
<1>1. CASE r # Len(S) \/ i # Len(S[r])
  BY <1>1, GuestCells, InnerKept DEF Awaits, Steady
<1>2. CASE r = Len(S) /\ i = Len(S[r])
  BY <1>2, Current DEF Awaits, Steady
<1> QED BY <1>1, <1>2

\* What is remembered stays true.
LEMMA RememberedKept ==
  ASSUME NEW S, Stacked(S), Remembered, Steady(S), \A r \in 1..Len(host') : host'[r].result = StackTops[r + 1] - 1,
         \A env \in JmpBufs : jmps'[env] # NoJmp =>
           jmps'[env] = jmps[env] \/ (jmps'[env].pc.at = "setjmp" /\ Awaits(mem', jmps'[env].sp, "setjmp"))
  PROVE  Remembered'
<1>1. ASSUME NEW env \in JmpBufs, jmps'[env] # NoJmp, jmps'[env] = jmps[env]
      PROVE  jmps'[env].pc.at = "setjmp" /\ Awaits(mem', jmps'[env].sp, "setjmp")
  <2>1. jmps[env] # NoJmp /\ jmps[env].pc.at = "setjmp" /\ Awaits(mem, jmps[env].sp, "setjmp")
    BY <1>1 DEF Remembered
  <2>2. PICK r \in 1..Len(S) : \E i \in 1..Len(S[r]) : JumpAt(S, jmps[env], r, i)
    BY <2>1 DEF Stacked, JumpsLive
  <2> PICK i \in 1..Len(S[r]) : JumpAt(S, jmps[env], r, i)
    BY <2>2
  <2>3. jmps[env].sp = S[r][i] /\ ~IsHostFrame(S, r, i)
    <3>1. Len(S[r]) \in Nat
      BY PlaceOf DEF Stacked
    <3> QED BY <3>1 DEF JumpAt, IsHostFrame
  <2> QED BY <1>1, <2>1, <2>3, AwaitsKept
<1> QED BY <1>1 DEF Remembered

\* The frames stay.
LEMMA DetailedKept ==
  ASSUME NEW S, Detailed(S), Stacked(S)', Steady(S), UNCHANGED host, Running(S)',
         \A env \in JmpBufs : jmps'[env] # NoJmp =>
           jmps'[env] = jmps[env] \/ (jmps'[env].pc.at = "setjmp" /\ Awaits(mem', jmps'[env].sp, "setjmp"))
  PROVE  Detailed(S)'
<1>1. Stacked(S) /\ Held(mem, S) /\ Remembered
  BY DEF Detailed
<1>2. Held(mem', S)
  BY <1>1, HeldKept DEF Steady
<1>3. \A r \in 1..Len(host') : host'[r].result = StackTops[r + 1] - 1
  BY <1>1 DEF Remembered
<1>4. Remembered'
  BY <1>1, <1>3, RememberedKept
<1>5. Held(mem, S)'
  BY <1>2 DEF Held, HeldAt, IsHostFrame, Awaits
<1> QED BY <1>4, <1>5 DEF Detailed

\* Then only the top of the stack changes.
LEMMA StackKept ==
  ASSUME NEW S, Stacked(S), Stacked(S)', Undisturbed(S)
  PROVE  ActivationStack' = Append(Under(mem, S), RunningActivation')
<1>1. Under(mem', S) = Under(mem, S)
  BY UnderSame
<1> QED BY <1>1, StackFoundNext

\* The running frame is still that of its function.
LEMMA TopKept ==
  ASSUME NEW S, Stacked(S), Held(mem, S), Undisturbed(S), mem'[sp + VarCell(2)] = mem[sp + VarCell(2)]
  PROVE  mem'[sp + ENTRY] = mem[sp + ENTRY] /\ \A x : GuestActivation(mem', sp, x) = GuestActivation(mem, sp, x)
<1>1. /\ Len(S) \in 1..Len(S) /\ Len(S[Len(S)]) \in 1..Len(S[Len(S)])
      /\ sp = S[Len(S)][Len(S[Len(S)])] /\ ~IsHostFrame(S, Len(S), Len(S[Len(S)]))
  <2>1. Len(S) \in Nat /\ Len(S) >= 1
    BY Current, Layout
  <2> QED BY <2>1, Current, StackNow
<1>2. ENTRY \in InnerAt(S, Len(S), Len(S[Len(S)]))
  BY <1>1, GuestCells
<1>3. mem'[sp + ENTRY] = mem[sp + ENTRY]
  BY <1>1, <1>2, InnerKept
<1> QED BY <1>3 DEF GuestActivation

\* A step is one of the stack of activations, or none, and leaves what is known true.
Implements == ActivationsInv' /\ (Activation!ANext \/ ActivationStack' = ActivationStack)

\* A variable is written: where it is.
LEMMA VariableWritten ==
  ASSUME NEW S, Stacked(S), NEW j \in 1..2, NEW v, mem' = [mem EXCEPT ![sp + VarCell(j)] = v]
  PROVE  /\ Steady(S) /\ mem'[sp + VarCell(j)] = v
         /\ \A i \in 1..2 : i # j => mem'[sp + VarCell(i)] = mem[sp + VarCell(i)]
         /\ mem'[sp + ENTRY] = mem[sp + ENTRY]
         /\ \A site \in Sites : mem'[sp + SiteCell(site)] = mem[sp + SiteCell(site)]
<1>1. sp \in Int /\ DOMAIN mem = MemoryWords
  BY Current DEF Stacked
<1>2. VarCell(j) \in 8..12 /\ VarCell(j) \in 11..12 /\ \A i \in 1..2 : i # j => VarCell(i) # VarCell(j) /\ VarCell(i) \in Int
  BY DEF VarCell, HEADER_SIZE
<1>3. sp + VarCell(j) \in OwnCells /\ sp + VarCell(j) \in MemoryWords /\ ~Vital(S, sp + VarCell(j))
  BY <1>2, Cells
<1>4. Undisturbed(S)
  BY <1>3, NothingCalm, NothingWritten, WriteCalm, WriteKeeps DEF Undisturbed
<1>5. ASSUME NEW k \in Int, k # VarCell(j) PROVE mem'[sp + k] = mem[sp + k]
  <2>1. sp + k # sp + VarCell(j)
    <3>1. ASSUME NEW x \in Int, NEW y \in Int, y # k PROVE x + k # x + y
      BY <3>1
    <3> QED BY <1>1, <1>2, <1>5, <3>1
  <2> QED BY <1>1, <1>3, <2>1
<1>6. \A site \in Sites : mem'[sp + SiteCell(site)] = mem[sp + SiteCell(site)]
  <2>1. \A site \in Sites : SiteCell(site) \in Int /\ SiteCell(site) # VarCell(j)
    BY <1>2, Places
  <2> QED BY <1>5, <2>1
<1>7. mem'[sp + ENTRY] = mem[sp + ENTRY]
  <2>1. ENTRY \in Int /\ ENTRY # VarCell(j)
    BY <1>2 DEF ENTRY
  <2> QED BY <1>5, <2>1
<1>8. mem'[sp + VarCell(j)] = v
  BY <1>1, <1>3
<1> QED BY <1>2, <1>4, <1>5, <1>6, <1>7, <1>8 DEF Steady

\* Where variable 1 is moved from where it was passed or returned to its cell.
LEMMA FirstMoved ==
  ASSUME NEW S, Detailed(S), Stacked(S)', mem' = [mem EXCEPT ![sp + VarCell(1)] = FirstVar] \/
                                          (mem' = mem /\ FirstVar = Var(1)),
         UNCHANGED <<sp, halted, host, jmps>>, ~halted, pc'.at = "body"
  PROVE  Implements
<1>1. Stacked(S) /\ Held(mem, S)
  BY DEF Detailed
<1>2. /\ Steady(S) /\ mem'[sp + VarCell(1)] = FirstVar
      /\ mem'[sp + VarCell(2)] = mem[sp + VarCell(2)] /\ mem'[sp + ENTRY] = mem[sp + ENTRY]
  <2>1. CASE mem' = mem /\ FirstVar = Var(1)
    <3>1. Calm(S, mem) /\ Keeps(S, mem)
      BY <1>1, NothingCalm, NothingWritten
    <3> QED BY <2>1, <3>1 DEF Steady, Undisturbed, Var
  <2>2. CASE mem' = [mem EXCEPT ![sp + VarCell(1)] = FirstVar]
    <3>1. ASSUME NEW j \in 1..2, j = 1 PROVE mem' = [mem EXCEPT ![sp + VarCell(j)] = FirstVar]
      BY <2>2, <3>1
    <3>2. 1 \in 1..2 /\ 2 \in 1..2 /\ 2 # 1
      OBVIOUS
    <3>3. ASSUME NEW j \in 1..2, j = 1
          PROVE  /\ Steady(S) /\ mem'[sp + VarCell(j)] = FirstVar
                 /\ mem'[sp + VarCell(2)] = mem[sp + VarCell(2)] /\ mem'[sp + ENTRY] = mem[sp + ENTRY]
      <4>1. mem' = [mem EXCEPT ![sp + VarCell(j)] = FirstVar]
        BY <3>1, <3>3
      <4> QED BY <1>1, <3>2, <3>3, <4>1, VariableWritten
    <3> QED BY <3>2, <3>3
  <2> QED BY <2>1, <2>2
<1>3. Running(S)'
  BY Places DEF Running
<1>4. Detailed(S)'
  BY <1>2, <1>3, DetailedKept
<1>5. FirstVar' = FirstVar
  BY <1>2, NextFirst
<1>6. GuestActivation(mem', sp, FirstVar) = GuestActivation(mem, sp, FirstVar)
  BY <1>2 DEF GuestActivation
<1>7. RunningActivation' = RunningActivation
  BY <1>5, <1>6, RunningIs
<1>8. ActivationStack' = Append(Under(mem, S), RunningActivation)
  BY <1>1, <1>2, <1>7, StackKept DEF Steady
<1>9. ActivationStack = Append(Under(mem, S), RunningActivation)
  BY <1>1, StackFound DEF StackIs
<1>10. ActivationStack' = ActivationStack
  BY <1>8, <1>9
<1> QED BY <1>4, <1>10 DEF Implements, ActivationsInv

\* The prologue.
LEMMA EnterImplements == ASSUME NEW S, Detailed(S), Enter PROVE Implements
<1>1. Stacked(S)
  BY DEF Detailed
<1>2. Stacked(S)'
  BY <1>1, EnterKeeps
<1>3. FirstVar = mem[sp + mem[sp + FRAME_SIZE]]
  BY DEF FirstVar, Enter
<1>4. mem' = [mem EXCEPT ![sp + VarCell(1)] = FirstVar] /\ UNCHANGED <<sp, halted, host, jmps>> /\ ~halted
  BY <1>3 DEF Enter
<1>5. pc'.at = "body"
  BY DEF Enter, Code
<1> QED BY <1>2, <1>4, <1>5, FirstMoved

\* A continuation.
LEMMA ResumeImplements == ASSUME NEW S, Detailed(S), Resume PROVE Implements
<1>1. Stacked(S)
  BY DEF Detailed
<1>2. Stacked(S)'
  BY <1>1, ResumeKeeps
<1>3. pc.at \in Sites /\ pc.at # "entry" /\ UNCHANGED <<sp, halted, host, jmps>> /\ ~halted
  BY Places DEF Resume
<1>4. mem' = [mem EXCEPT ![sp + VarCell(1)] = FirstVar] \/ (mem' = mem /\ FirstVar = Var(1))
  BY <1>3 DEF Resume, FirstVar
<1>5. pc'.at = "body"
  BY DEF Resume, Code
<1> QED BY <1>2, <1>3, <1>4, <1>5, FirstMoved

\* In the body of a text both variables are in their cells.
LEMMA AtBody ==
  ASSUME pc.at = "body"
  PROVE  RunningActivation = GuestActivation(mem, sp, Var(1)) /\ RunningActivation.vars[2] = Var(2)
         /\ \A i \in 1..2 : RunningActivation.vars[i] = Var(i)
<1>1. FirstVar = Var(1)
  BY Places DEF FirstVar
<1>2. RunningActivation = GuestActivation(mem, sp, Var(1))
  BY <1>1, RunningIs
<1>3. \A i \in 1..2 : GuestActivation(mem, sp, Var(1)).vars[i] = Var(i)
  <2>1. \A i \in 1..2 : i = 1 \/ i = 2
    OBVIOUS
  <2>2. GuestActivation(mem, sp, Var(1)).vars[1] = Var(1)
    BY DEF GuestActivation
  <2>3. GuestActivation(mem, sp, Var(1)).vars[2] = Var(2)
    BY DEF GuestActivation, Var
  <2> QED BY <2>1, <2>2, <2>3
<1> QED BY <1>2, <1>3

\* An assignment.
LEMMA AssignImplements ==
  ASSUME NEW S, Detailed(S), NEW j \in 1..2, NEW v \in Values, Assign(j, v)
  PROVE  Implements
<1>1. Stacked(S) /\ Held(mem, S)
  BY DEF Detailed
<1>2. Stacked(S)'
  BY <1>1, AssignKeeps
<1>3. /\ pc.at = "body" /\ ~halted /\ mem' = [mem EXCEPT ![sp + VarCell(j)] = v]
      /\ UNCHANGED <<sp, pc, halted, host, jmps>>
  BY DEF Assign, InBody
<1>4. /\ Steady(S) /\ mem'[sp + VarCell(j)] = v
      /\ \A i \in 1..2 : i # j => mem'[sp + VarCell(i)] = mem[sp + VarCell(i)]
      /\ mem'[sp + ENTRY] = mem[sp + ENTRY]
  BY <1>1, <1>3, VariableWritten
<1>5. Running(S)'
  BY <1>3, Places DEF Running
<1>6. Detailed(S)'
  BY <1>2, <1>3, <1>4, <1>5, DetailedKept
<1>7. RunningActivation = GuestActivation(mem, sp, mem[sp + VarCell(1)])
  BY <1>3, AtBody DEF Var
<1>8. RunningActivation' = GuestActivation(mem', sp, mem'[sp + VarCell(1)])
  BY <1>3, NextFirst, RunningIs
<1>9. RunningActivation' = [RunningActivation EXCEPT !.vars[j] = v]
  <2> DEFINE u(m) == [i \in 1..2 |-> IF i = 1 THEN m[sp + VarCell(1)] ELSE m[sp + VarCell(2)]]
  <2>1. u(mem') = [u(mem) EXCEPT ![j] = v]
    <3>1. \A i \in 1..2 : i = 1 \/ i = 2
      OBVIOUS
    <3>2. \A i \in 1..2 : u(mem')[i] = IF i = j THEN v ELSE u(mem)[i]
      <4>1. u(mem')[1] = IF 1 = j THEN v ELSE u(mem)[1]
        BY <1>4
      <4>2. u(mem')[2] = IF 2 = j THEN v ELSE u(mem)[2]
        BY <1>4
      <4> HIDE DEF u
      <4> QED BY <3>1, <4>1, <4>2
    <3>3. u(mem') = [i \in 1..2 |-> u(mem')[i]] /\ u(mem) = [i \in 1..2 |-> u(mem)[i]]
      OBVIOUS
    <3> HIDE DEF u
    <3> QED BY <3>2, <3>3
  <2>2. RunningActivation = [fn |-> mem[sp + ENTRY].fn, site |-> "none", vars |-> u(mem)]
    BY <1>7 DEF GuestActivation
  <2>3. RunningActivation' = [fn |-> mem[sp + ENTRY].fn, site |-> "none", vars |-> u(mem')]
    BY <1>4, <1>8 DEF GuestActivation
  <2> HIDE DEF u
  <2> QED BY <2>1, <2>2, <2>3
<1>10. ActivationStack' = Append(Under(mem, S), [RunningActivation EXCEPT !.vars[j] = v])
  BY <1>1, <1>2, <1>4, <1>9, StackKept DEF Steady
<1>11. PICK A : /\ Under(mem, S) \in Seq(A) /\ RunningActivation \in A
                /\ ActivationStack = Append(Under(mem, S), RunningActivation)
  BY <1>1, StackNow
<1>12. Activation!IsRunning(RunningActivation)
  BY <1>1, StackNow
<1>13. Activation!Assign(j, v)
  BY <1>10, <1>11, <1>12, AssignStep
<1>14. Activation!ANext
  BY <1>13 DEF Activation!ANext, Activation!Vars
<1> QED BY <1>6, <1>14 DEF Implements, ActivationsInv

\* A call sequence, with or without a result written to the word below the caller.
LEMMA CalledOwn ==
  ASSUME NEW S, Stacked(S), NEW g \in Callables, NEW site \in Sites, CallBase(g, site) >= Bottom,
         NEW v, NEW m, m = Called(g, site) \/ m = [Called(g, site) EXCEPT ![sp - 1] = v]
  PROVE  /\ Keeps(S, m) /\ Calm(S, m)
         /\ m[sp + SiteCell(site)] = sp - 1
         /\ \A at \in Sites : m[sp + SiteCell(at)] \in {mem[sp + SiteCell(at)], sp - 1}
         /\ m[sp + VarCell(1)] = mem[sp + VarCell(1)] /\ m[sp + VarCell(2)] = mem[sp + VarCell(2)]
         /\ m = [Called(g, site) EXCEPT ![sp - 1] = v] => m[sp - 1] = v
<1> DEFINE c == Called(g, site)
<1>1. /\ CallBase(g, site) \in Int /\ sp \in Int /\ DOMAIN c = MemoryWords
      /\ CallBase(g, site) + mem[Desc[g] + 1] + 2 = sp /\ mem[Desc[g] + 1] \in Nat
      /\ c[sp + SiteCell(site)] = sp - 1
      /\ \A a \in MemoryWords : ~(CallBase(g, site) <= a /\ a < sp) /\ a # sp + SiteCell(site) => c[a] = mem[a]
  BY CalledWords, Current
<1>2. Keeps(S, c) /\ Calm(S, c) /\ ~Inner(S, sp - 1) /\ ~Vital(S, sp - 1)
  BY CalledKeeps, CalledCalm, ResultWord
<1>3. sp - 1 \in MemoryWords
  <2>1. sp - 1 \in Int /\ Bottom <= sp - 1 /\ sp - 1 < sp
    BY ResultWord
  <2> QED BY <2>1, OwnWords
<1> HIDE DEF c
<1>4. ASSUME NEW k \in 8..12 PROVE m[sp + k] = c[sp + k] /\ (k # SiteCell(site) => c[sp + k] = mem[sp + k])
  <2>1. sp + k \in MemoryWords
    BY Cells
  <2>2. ASSUME NEW x \in Int PROVE x + k # x - 1 /\ ~(x + k < x)
    OBVIOUS
  <2>3. sp + k # sp - 1 /\ ~(sp + k < sp)
    BY <1>1, <2>2
  <2>4. k # SiteCell(site) => sp + k # sp + SiteCell(site)
    <3>1. SiteCell(site) \in Int
      BY Places
    <3>2. ASSUME NEW x \in Int, NEW y \in Int, k # y PROVE x + k # x + y
      BY <3>2
    <3> QED BY <1>1, <3>1, <3>2
  <2> QED BY <1>1, <2>1, <2>3, <2>4 DEF c
<1>5. Keeps(S, m) /\ Calm(S, m)
  <2>1. CASE m = c
    BY <1>2, <2>1
  <2>2. CASE m = [c EXCEPT ![sp - 1] = v]
    BY <1>1, <1>2, <2>2, WriteKeeps, WriteCalm
  <2> QED BY <2>1, <2>2 DEF c
<1>6. m[sp + SiteCell(site)] = sp - 1
  <2>1. SiteCell(site) \in 8..12
    BY Places
  <2> QED BY <1>1, <1>4, <2>1
<1>7. ASSUME NEW at \in Sites PROVE m[sp + SiteCell(at)] \in {mem[sp + SiteCell(at)], sp - 1}
  <2>1. SiteCell(at) \in 8..12
    BY Places
  <2> QED BY <1>1, <1>4, <2>1
<1>8. m[sp + VarCell(1)] = mem[sp + VarCell(1)] /\ m[sp + VarCell(2)] = mem[sp + VarCell(2)]
  <2>1. VarCell(1) \in 8..12 /\ VarCell(2) \in 8..12 /\ VarCell(1) # SiteCell(site) /\ VarCell(2) # SiteCell(site)
    BY Places
  <2> QED BY <1>4, <2>1
<1>9. m = [Called(g, site) EXCEPT ![sp - 1] = v] => m[sp - 1] = v
  BY <1>1, <1>3 DEF c
<1> QED BY <1>5, <1>6, <1>7, <1>8, <1>9

\* A service answers v.
LEMMA Answered ==
  ASSUME NEW S, Detailed(S), Stacked(S)', NEW g \in Callables, NEW site \in Sites, CallBase(g, site) >= Bottom,
         NEW v, (mem' = Called(g, site) /\ Wants[site] # 1) \/ mem' = [Called(g, site) EXCEPT ![sp - 1] = v],
         UNCHANGED <<sp, halted, host>>, InBody, pc' = Code(pc.fn, site),
         \A env \in JmpBufs : jmps'[env] # NoJmp =>
           jmps'[env] = jmps[env] \/ (site = "setjmp" /\ jmps'[env].pc = pc' /\ jmps'[env].sp = sp)
  PROVE  ActivationsInv' /\ Activation!Answer(site, v)
<1>1. Stacked(S) /\ Held(mem, S) /\ pc.at = "body" /\ ~halted
  BY DEF Detailed, InBody
<1>2. /\ Keeps(S, mem') /\ Calm(S, mem')
      /\ mem'[sp + SiteCell(site)] = sp - 1
      /\ \A at \in Sites : mem'[sp + SiteCell(at)] \in {mem[sp + SiteCell(at)], sp - 1}
      /\ mem'[sp + VarCell(1)] = mem[sp + VarCell(1)] /\ mem'[sp + VarCell(2)] = mem[sp + VarCell(2)]
      /\ Wants[site] = 1 => mem'[sp - 1] = v
  BY <1>1, CalledOwn
<1>3. Steady(S)
  BY <1>2 DEF Steady, Undisturbed
<1>4. pc'.at = site /\ Awaits(mem', sp, site)
  BY <1>2 DEF Code, Awaits
<1>5. Running(S)'
  BY <1>1, <1>4 DEF Running, Awaits
<1>6. \A env \in JmpBufs : jmps'[env] # NoJmp =>
        jmps'[env] = jmps[env] \/ (jmps'[env].pc.at = "setjmp" /\ Awaits(mem', jmps'[env].sp, "setjmp"))
  BY <1>4
<1>7. Detailed(S)'
  BY <1>3, <1>5, <1>6, DetailedKept
<1>8. FirstVar' = IF Wants[site] = 1 THEN v ELSE Var(1)
  BY <1>2, <1>4, NextFirst DEF Var
<1>9. \A x : GuestActivation(mem', sp, x) = GuestActivation(mem, sp, x)
  BY <1>1, <1>2, <1>3, TopKept DEF Steady
<1>10. RunningActivation' = Given(RunningActivation, site, v)
  <2> DEFINE z == IF Wants[site] = 1 THEN v ELSE Var(1)
  <2>1. RunningActivation = GuestActivation(mem, sp, Var(1))
    BY <1>1, AtBody
  <2>2. RunningActivation' = GuestActivation(mem', sp, z)
    BY <1>8, RunningIs
  <2>3. z = IF Wants[site] = 1 THEN v ELSE Var(1)
    OBVIOUS
  <2> HIDE DEF z
  <2>4. Given(GuestActivation(mem, sp, Var(1)), site, v) = GuestActivation(mem, sp, z)
    BY <2>3, AnsweredIs
  <2>5. GuestActivation(mem', sp, z) = GuestActivation(mem, sp, z)
    BY <1>9
  <2> QED BY <2>1, <2>2, <2>4, <2>5
<1>11. ActivationStack' = Append(Under(mem, S), RunningActivation')
  BY <1>1, <1>3, StackKept DEF Steady
<1>12. PICK A : /\ Under(mem, S) \in Seq(A) /\ RunningActivation \in A
                /\ ActivationStack = Append(Under(mem, S), RunningActivation)
  BY <1>1, StackNow
<1>13. Activation!IsRunning(RunningActivation)
  BY <1>1, StackNow
<1>14. ActivationStack' = Append(Under(mem, S), Activation!Resumed([RunningActivation EXCEPT !.site = site], v))
  BY <1>10, <1>11 DEF Given
<1>15. Activation!Answer(site, v)
  BY <1>12, <1>13, <1>14, AnswerStep
<1> QED BY <1>7, <1>15 DEF ActivationsInv

\* Any service.
LEMMA ServiceImplements ==
  ASSUME NEW S, Detailed(S), NEW g \in Functions \cup Services, NEW site \in {"value", "discard"},
         NEW v \in Values, CallService(g, site, v)
  PROVE  Implements
<1>1. Stacked(S)
  BY DEF Detailed
<1>2. Stacked(S)'
  BY <1>1, ServiceKeeps
<1>3. g \in Callables /\ site \in Sites /\ CallBase(g, site) >= Bottom /\ site \in Sites \ {"setjmp"}
  BY DEF CallService, MayCall, Callables, Sites
<1>4. Called(g, site)[CallBase(g, site) + RESULT_PTR] = sp - 1
  BY <1>1, <1>3, CalledWords
<1>5. (mem' = Called(g, site) /\ Wants[site] # 1) \/ mem' = [Called(g, site) EXCEPT ![sp - 1] = v]
  BY <1>4 DEF CallService
<1>6. UNCHANGED <<sp, halted, host, jmps>> /\ InBody /\ pc' = Code(pc.fn, site)
  BY DEF CallService, MayCall
<1>7. ActivationsInv' /\ Activation!Answer(site, v)
  BY <1>2, <1>3, <1>5, <1>6, Answered
<1>8. Activation!ANext
  BY <1>3, <1>7 DEF Activation!ANext
<1> QED BY <1>7, <1>8 DEF Implements

\* setjmp.
LEMMA SetjmpImplements ==
  ASSUME NEW S, Detailed(S), NEW g \in Services, NEW env \in JmpBufs, Setjmp(g, env)
  PROVE  Implements
<1>1. Stacked(S)
  BY DEF Detailed
<1>2. Stacked(S)'
  BY <1>1, SetjmpKeeps
<1>3. g \in Callables /\ "setjmp" \in Sites /\ CallBase(g, "setjmp") >= Bottom
  BY DEF Setjmp, MayCall, Callables, Sites
<1>4. Called(g, "setjmp")[CallBase(g, "setjmp") + RESULT_PTR] = sp - 1
  BY <1>1, <1>3, CalledWords
<1>5. mem' = [Called(g, "setjmp") EXCEPT ![sp - 1] = 0]
  BY <1>4 DEF Setjmp
<1>6. UNCHANGED <<sp, halted, host>> /\ InBody /\ pc' = Code(pc.fn, "setjmp")
  BY DEF Setjmp, MayCall
<1>7. ASSUME NEW e \in JmpBufs
      PROVE  jmps'[e] = jmps[e] \/ (jmps'[e].pc = pc' /\ jmps'[e].sp = sp)
  <2>1. DOMAIN jmps = JmpBufs
    BY <1>1 DEF Stacked, JumpsLive
  <2> QED BY <1>6, <2>1 DEF Setjmp
<1>8. ActivationsInv' /\ Activation!Answer("setjmp", 0)
  BY <1>2, <1>3, <1>5, <1>6, <1>7, Answered
<1>9. Activation!ANext
  BY <1>8 DEF Activation!ANext
<1> QED BY <1>8, <1>9 DEF Implements

-----------------------------------------------------------------------------
(***************************************************************************)
(* Calls.                                                                  *)
(***************************************************************************)

\* The caller becomes a suspended activation.
LEMMA CallerIs ==
  ASSUME NEW S, Stacked(S), Held(mem, S), Steady(S), pc.at = "body", NEW base, NEW site, mem'[base + RET_PC].at = site,
         mem'[sp + VarCell(1)] = mem[sp + VarCell(1)], mem'[sp + VarCell(2)] = mem[sp + VarCell(2)]
  PROVE  ActivationIn(mem', sp, base) = [RunningActivation EXCEPT !.site = site]
<1> DEFINE Fn == mem[sp + ENTRY].fn
           u == [i \in 1..2 |-> mem[sp + VarCell(i)]]
           w == [i \in 1..2 |-> mem'[sp + VarCell(i)]]
           z == [i \in 1..2 |-> IF i = 1 THEN Var(1) ELSE mem[sp + VarCell(2)]]
<1>1. mem'[sp + ENTRY].fn = Fn
  BY TopKept DEF Steady
<1>2. w = u /\ z = u
  <2>1. \A i \in 1..2 : i = 1 \/ i = 2
    OBVIOUS
  <2> QED BY <2>1 DEF Var
<1>3. RunningActivation = [fn |-> Fn, site |-> "none", vars |-> z]
  BY AtBody DEF GuestActivation
<1>4. ActivationIn(mem', sp, base) = [fn |-> Fn, site |-> site, vars |-> w]
  BY <1>1 DEF ActivationIn
<1> HIDE DEF Fn, u, w, z
<1> QED BY <1>2, <1>3, <1>4

\* What is known of the frames is known of those that a call adds.
LEMMA HeldGrown ==
  ASSUME NEW S, Stacked(S), Held(mem, S), Steady(S), NEW base \in Int, NEW T, Grown(S, base, T),
         Len(T) \in {Len(S), Len(S) + 1}, Len(T) = Len(S) + 1 => Len(T[Len(S) + 1]) = 1,
         NEW site \in Sites, mem'[base + RET_PC].at = site, mem'[sp + SiteCell(site)] = sp - 1,
         Len(T) = Len(S) => mem'[base + ENTRY].fn \in Functions,
         Len(T) = Len(S) + 1 => /\ mem'[base + RESULT_COUNT] = Wants[site]
                                /\ mem'[T[Len(S) + 1][1] + ENTRY].fn \in Functions
  PROVE  Held(mem', T)
<1> DEFINE R == Len(S)
           n == Len(S[R])
<1>1. /\ R \in Nat /\ R \in 1..R /\ n \in Nat /\ n >= 1 /\ sp = S[R][n] /\ ~IsHostFrame(S, R, n)
      /\ S[R] \in Seq(Int)
  <2>1. R \in Nat /\ R >= 1 /\ S[R] \in Seq(Int) /\ sp = S[R][n] /\ n \in 1..n
    BY Current, Layout
  <2>2. n \in Nat
    BY <2>1
  <2> QED BY <2>1, <2>2, StackNow
<1>2. /\ \A r \in 1..(R - 1) : T[r] = S[r]
      /\ T[R] = Append(S[R], base) /\ Len(T[R]) = n + 1 /\ T[R][n + 1] = base
      /\ \A i \in 1..n : T[R][i] = S[R][i]
      /\ Len(T) \in {R, R + 1} /\ R <= Len(T)
  <2>1. T[R] = Append(S[R], base) /\ \A r \in 1..(R - 1) : T[r] = S[r]
    BY DEF Grown
  <2>2. ASSUME NEW s \in Seq(Int), NEW t, t = Append(s, base)
        PROVE  Len(t) = Len(s) + 1 /\ t[Len(s) + 1] = base /\ \A i \in 1..Len(s) : t[i] = s[i]
    BY <2>2
  <2>3. Len(T[R]) = n + 1 /\ T[R][n + 1] = base /\ \A i \in 1..n : T[R][i] = S[R][i]
    BY <1>1, <2>1, <2>2
  <2>4. Len(T) \in {R, R + 1}
    OBVIOUS
  <2> HIDE DEF R, n
  <2>5. R <= Len(T)
    BY <1>1, <2>4
  <2> QED BY <2>1, <2>3, <2>4, <2>5
<1>3. Held(mem', S)
  BY HeldKept DEF Steady
<1>4. mem'[sp + ENTRY].fn \in Functions
  <2>1. n \in 1..Len(S[R])
    BY <1>1
  <2>2. mem[sp + ENTRY].fn \in Functions
    BY <1>1, <2>1 DEF Held, HeldAt
  <2>3. mem'[sp + VarCell(2)] = mem'[sp + VarCell(2)]
    OBVIOUS
  <2>4. mem'[sp + ENTRY] = mem[sp + ENTRY]
    <3>1. ENTRY \in InnerAt(S, R, n)
      BY <1>1, GuestCells
    <3> QED BY <1>1, <2>1, <3>1, InnerKept, SMTT(30) DEF Steady
  <2> QED BY <2>2, <2>4
<1>5. Awaits(mem', sp, site)
  BY DEF Awaits
<1> HIDE DEF n, R
<1>6. ASSUME NEW r \in 1..(R - 1), NEW i \in 1..Len(T[r]) PROVE HeldAt(mem', T, r, i)
  <2>1. r \in 1..R /\ r < R /\ r < Len(T) /\ T[r] = S[r]
    BY <1>1, <1>2, SMTT(30)
  <2>2. HeldAt(mem', S, r, i)
    BY <1>3, <2>1 DEF Held, R
  <2> QED BY <2>1, <2>2 DEF HeldAt, IsHostFrame, R
<1>7. ASSUME NEW i \in 1..n PROVE HeldAt(mem', T, R, i)
  <2>1. T[R][i] = S[R][i] /\ i < Len(T[R]) /\ ~IsHostFrame(T, R, i) /\ i \in 1..n /\ i + 1 \in 1..(n + 1)
    BY <1>1, <1>2 DEF IsHostFrame
  <2>2. CASE i = n
    BY <1>1, <1>2, <1>4, <1>5, <2>1, <2>2 DEF HeldAt
  <2>3. CASE i # n
    <3>1. i + 1 \in 1..n /\ i < n
      BY <1>1, <2>3
    <3>2. T[R][i + 1] = S[R][i + 1]
      BY <1>2, <3>1
    <3>3. HeldAt(mem', S, R, i)
      BY <1>1, <1>3 DEF Held, R, n
    <3>4. ~IsHostFrame(S, R, i)
      BY <1>1 DEF IsHostFrame, R
    <3>5. i < Len(S[R])
      BY <3>1 DEF n
    <3> QED BY <2>1, <3>2, <3>3, <3>4, <3>5 DEF HeldAt
  <2> QED BY <2>2, <2>3
<1>8. HeldAt(mem', T, R, n + 1)
  <2>1. ~(n + 1 < Len(T[R])) /\ T[R][n + 1] = base
    BY <1>1, <1>2
  <2>2. CASE Len(T) = R
    <3>1. ~IsHostFrame(T, R, n + 1)
      BY <1>1, <2>2 DEF IsHostFrame
    <3> QED BY <2>1, <2>2, <3>1 DEF HeldAt, R
  <2>3. CASE Len(T) = R + 1
    <3>1. IsHostFrame(T, R, n + 1)
      BY <1>1, <1>2, <2>3 DEF IsHostFrame
    <3> QED BY <2>1, <2>3, <3>1 DEF HeldAt, R
  <2> QED BY <2>2, <2>3 DEF R
<1>9. ASSUME Len(T) = R + 1, NEW i \in 1..Len(T[R + 1]) PROVE HeldAt(mem', T, R + 1, i)
  <2>0. Len(T[R + 1]) = 1
    BY <1>9 DEF R
  <2>1. i = 1 /\ ~(i < Len(T[R + 1])) /\ ~IsHostFrame(T, R + 1, i)
    BY <1>1, <1>9, <2>0 DEF IsHostFrame
  <2> QED BY <1>9, <2>1 DEF HeldAt, R
<1>10. ASSUME NEW r \in 1..Len(T), NEW i \in 1..Len(T[r]) PROVE HeldAt(mem', T, r, i)
  <2>1. r \in 1..(R - 1) \/ r = R \/ (Len(T) = R + 1 /\ r = R + 1)
    BY <1>1, SMTT(30) DEF R
  <2>2. CASE r \in 1..(R - 1)
    BY <1>6, <2>2
  <2>3. CASE r = R
    <3>1. i \in 1..n \/ i = n + 1
      BY <1>1, <1>2, <2>3
    <3> QED BY <1>7, <1>8, <2>3, <3>1
  <2>4. CASE Len(T) = R + 1 /\ r = R + 1
    BY <1>9, <2>4
  <2> QED BY <2>1, <2>2, <2>3, <2>4
<1> QED BY <1>10 DEF Held

\* What is known stays known after a call.
LEMMA DetailedGrown ==
  ASSUME NEW S, Detailed(S), Steady(S), NEW T, Stacked(T)', Held(mem', T),
         pc'.at = "entry", ~halted', UNCHANGED jmps,
         \A r \in 1..Len(host') : host'[r].result = StackTops[r + 1] - 1
  PROVE  Detailed(T)'
<1>1. Stacked(S) /\ Remembered
  BY DEF Detailed
<1>2. Remembered'
  BY <1>1, RememberedKept
<1>3. Running(T)'
  BY Places DEF Running
<1>4. Held(mem, T)'
  BY DEF Held, HeldAt, IsHostFrame, Awaits
<1> QED BY <1>2, <1>3, <1>4 DEF Detailed

\* The callee, before its prologue.
LEMMA CalleeIs ==
  ASSUME NEW g, NEW arg, pc'.at = "entry", mem'[sp' + ENTRY].fn = g, mem'[sp' + mem'[sp' + FRAME_SIZE]] = arg
  PROVE  RunningActivation'.fn = g /\ RunningActivation'.site = "none" /\ RunningActivation'.vars[1] = arg
<1>1. RunningActivation' = GuestActivation(mem', sp', arg)
  BY NextFirst, RunningIs
<1>2. GuestActivation(mem', sp', arg).fn = g /\ GuestActivation(mem', sp', arg).site = "none"
  BY DEF GuestActivation
<1>3. GuestActivation(mem', sp', arg).vars[1] = arg
  BY DEF GuestActivation
<1> QED BY <1>1, <1>2, <1>3

\* A call of guest code.
LEMMA CallImplements ==
  ASSUME NEW S, Detailed(S), NEW g \in Functions, NEW site \in {"value", "discard"}, Call(g, site)
  PROVE  Implements
<1>0. PICK base : base = CallBase(g, site)
  OBVIOUS
<1>1. Stacked(S) /\ Held(mem, S) /\ Remembered
  BY DEF Detailed
<1>2. PICK T : Stacked(T)' /\ Grown(S, base, T) /\ Len(T) = Len(S)
  BY <1>0, <1>1, CallKeeps
<1>3. /\ g \in Callables /\ site \in Sites /\ site \in Sites \ {"setjmp"} /\ CallBase(g, site) >= Bottom
      /\ pc.at = "body" /\ ~halted
  BY DEF Call, MayCall, InBody, Callables, Sites
<1>4. /\ mem' = Called(g, site) /\ sp' = base /\ pc' = mem'[base + ENTRY] /\ UNCHANGED <<halted, host, jmps>>
      /\ mem[Desc[g]] = Code(g, "entry")
  BY <1>0 DEF Call
<1>5. /\ base \in Int /\ base + mem[Desc[g] + 1] + 2 = sp /\ sp \in Int /\ mem[Desc[g] + 1] \in Nat
      /\ mem'[base + RET_PC] = Code(pc.fn, site) /\ mem'[base + ENTRY] = mem[Desc[g]]
      /\ mem'[base + FRAME_SIZE] = mem[Desc[g] + 1] /\ mem'[sp - 2] = Var(2)
  BY <1>0, <1>1, <1>3, <1>4, CalledWords, Current, ZenonT(60)
<1>6. /\ Keeps(S, mem') /\ Calm(S, mem')
      /\ mem'[sp + SiteCell(site)] = sp - 1
      /\ \A at \in Sites : mem'[sp + SiteCell(at)] \in {mem[sp + SiteCell(at)], sp - 1}
      /\ mem'[sp + VarCell(1)] = mem[sp + VarCell(1)] /\ mem'[sp + VarCell(2)] = mem[sp + VarCell(2)]
  BY <1>1, <1>3, <1>4, CalledOwn
<1>7. Steady(S)
  BY <1>6 DEF Steady, Undisturbed
<1>8. mem'[base + RET_PC].at = site /\ mem'[base + ENTRY].fn = g /\ pc'.at = "entry"
  BY <1>4, <1>5 DEF Code
<1>9. Held(mem', T)
  <2>1. Len(T) # Len(S) + 1
    BY <1>1, <1>2, Current, Layout
  <2> QED BY <1>1, <1>2, <1>3, <1>5, <1>6, <1>7, <1>8, <2>1, HeldGrown
<1>10. Detailed(T)'
  BY <1>1, <1>2, <1>3, <1>4, <1>7, <1>8, <1>9, DetailedGrown DEF Remembered
<1>11. ActivationIn(mem', sp, base) = [RunningActivation EXCEPT !.site = site]
  BY <1>1, <1>3, <1>6, <1>7, <1>8, CallerIs
<1>12. mem'[sp' + mem'[sp' + FRAME_SIZE]] = Var(2)
  <2>1. base + mem[Desc[g] + 1] = sp - 2
    BY <1>5
  <2> QED BY <1>4, <1>5, <2>1
<1>13. /\ RunningActivation'.fn = g /\ RunningActivation'.site = "none"
       /\ RunningActivation'.vars[1] = RunningActivation.vars[2]
  BY <1>3, <1>4, <1>8, <1>12, CalleeIs, AtBody
<1>14. ActivationStack' = Append(Append(Under(mem, S), [RunningActivation EXCEPT !.site = site]), RunningActivation')
  <2>1. ActivationStack' = Append(Under(mem', T), RunningActivation')
    BY <1>2, StackFoundNext
  <2>2. Under(mem', T) = Append(Under(mem, S), ActivationIn(mem', sp, base))
    BY <1>1, <1>2, <1>5, <1>7, UnderGrown DEF Steady
  <2> QED BY <1>11, <2>1, <2>2
<1>15. PICK A : /\ Under(mem, S) \in Seq(A) /\ RunningActivation \in A
                /\ ActivationStack = Append(Under(mem, S), RunningActivation)
  BY <1>1, StackNow
<1>16. Activation!IsRunning(RunningActivation)
  BY <1>1, StackNow
<1>17. Activation!Call(g, site)
  BY <1>13, <1>14, <1>15, <1>16, CallStep
<1>18. Activation!ANext
  BY <1>3, <1>17 DEF Activation!ANext
<1> QED BY <1>10, <1>18 DEF Implements, ActivationsInv

\* A service that enters guest code on the next stack.
LEMMA CallNestedImplements ==
  ASSUME NEW S, Detailed(S), NEW g \in Functions, NEW site \in {"value", "discard"}, CallNested(g, site)
  PROVE  Implements
<1>0. PICK base : base = CallBase(Host, site)
  OBVIOUS
<1> DEFINE R == Len(S)
           c == Called(Host, site)
<1>1. Stacked(S) /\ Held(mem, S) /\ Remembered
  BY DEF Detailed
<1>2. PICK T : /\ Stacked(T)' /\ Grown(S, base, T)
               /\ Len(T) = R + 1 /\ T[R + 1] = <<sp'>>
               /\ Keeps(S, mem')
               /\ \A a \in MemoryWords : a \notin StackWordsOf(R + 1) => mem'[a] = c[a]
               /\ mem'[sp' + ENTRY] = Code(g, "entry") /\ mem'[sp' + FRAME_SIZE] = FrameSize(g)
               /\ mem'[sp' + FrameSize(g)] = Var(2)
  <2>1. \E T : /\ Stacked(T)' /\ Grown(S, CallBase(Host, site), T)
               /\ Len(T) = Len(S) + 1 /\ T[Len(S) + 1] = <<sp'>>
               /\ Keeps(S, mem')
               /\ \A a \in MemoryWords : a \notin StackWordsOf(Len(S) + 1) => mem'[a] = Called(Host, site)[a]
               /\ mem'[sp' + ENTRY] = Code(g, "entry") /\ mem'[sp' + FRAME_SIZE] = FrameSize(g)
               /\ mem'[sp' + FrameSize(g)] = Var(2)
    BY <1>1, CallNestedKeeps
  <2> QED BY <1>0, <2>1
<1>3. /\ Host \in Callables /\ site \in Sites /\ site \in Sites \ {"setjmp"} /\ CallBase(Host, site) >= Bottom
      /\ pc.at = "body" /\ ~halted /\ Len(host) + 1 < Len(StackTops)
  BY DEF CallNested, MayCall, InBody, Callables, Sites
<1>4. /\ host' = Append(host, [sp |-> base, result |-> StackTops[Len(host) + 2] - 1])
      /\ pc' = Code(g, "entry") /\ UNCHANGED <<halted, jmps>>
  BY <1>0 DEF CallNested
<1>5. /\ R \in Nat /\ R \in 1..Len(StackTops) /\ R = Len(host) + 1 /\ R + 1 \in 1..Len(StackTops) /\ R + 1 > R
      /\ sp \in Int /\ Top \in Nat /\ Bottom \in Int /\ sp + 15 <= Top /\ Bottom <= sp
      /\ Top = StackTops[R] /\ Bottom = StackTops[R] - StackWords /\ Placed(S) /\ host \in Seq([sp : Int, result : Int])
  <2>1. R \in 1..Len(StackTops) /\ R = Len(host) + 1 /\ Len(StackTops) \in Nat
    BY <1>1, Current, Layout DEF Runs
  <2>2. R + 1 \in 1..Len(StackTops)
    BY <1>3, <2>1
  <2> QED BY <1>1, <2>1, <2>2, Current, SMTT(30) DEF Stacked, Stack, Positioned
<1>6. /\ base \in Int /\ base + mem[Desc[Host] + 1] + 2 = sp
      /\ mem[Desc[Host] + 1] \in Nat /\ mem[Desc[Host] + 1] >= HEADER_SIZE
      /\ c[base + RET_PC] = Code(pc.fn, site) /\ c[base + RESULT_COUNT] = Wants[site]
  BY <1>0, <1>1, <1>3, CalledWords
<1>7. /\ Calm(S, c)
      /\ c[sp + SiteCell(site)] = sp - 1
      /\ \A at \in Sites : c[sp + SiteCell(at)] \in {mem[sp + SiteCell(at)], sp - 1}
      /\ c[sp + VarCell(1)] = mem[sp + VarCell(1)] /\ c[sp + VarCell(2)] = mem[sp + VarCell(2)]
  BY <1>1, <1>3, CalledOwn
<1> HIDE DEF c
<1>8. ASSUME NEW a \in Int, Bottom <= a, a < Top PROVE mem'[a] = c[a]
  <2>1. a \in StackWordsOf(R) /\ a \in MemoryWords
    <3>1. StackTops[R] - StackWords <= a /\ a <= a /\ StackTops[R] <= StackTops[R]
      BY <1>5, <1>8
    <3> QED BY <1>5, <1>8, <3>1, Between
  <2>2. a \notin StackWordsOf(R + 1)
    BY <1>5, <2>1, OneStack
  <2> QED BY <1>2, <2>1, <2>2
<1>9. ASSUME NEW k \in 8..12 PROVE mem'[sp + k] = c[sp + k]
  <2>1. sp + k \in Int /\ Bottom <= sp + k /\ sp + k < Top
    BY <1>5
  <2> QED BY <1>8, <2>1
<1>10. /\ mem'[sp + VarCell(1)] = mem[sp + VarCell(1)] /\ mem'[sp + VarCell(2)] = mem[sp + VarCell(2)]
       /\ mem'[sp + SiteCell(site)] = sp - 1
       /\ \A at \in Sites : mem'[sp + SiteCell(at)] \in {mem[sp + SiteCell(at)], sp - 1}
  <2>1. VarCell(1) \in 8..12 /\ VarCell(2) \in 8..12 /\ \A at \in Sites : SiteCell(at) \in 8..12
    BY Places
  <2> QED BY <1>3, <1>7, <1>9, <2>1
<1>11. mem'[base + RET_PC].at = site /\ mem'[base + RESULT_COUNT] = Wants[site]
  <2>1. ASSUME NEW k \in 0..7 PROVE mem'[base + k] = c[base + k]
    <3>1. base + k \in Int /\ Bottom <= base + k /\ base + k < Top
      <4>1. ASSUME NEW x \in Int, NEW d \in Nat, NEW y \in Int, NEW low \in Int, NEW high \in Nat,
                   x + d + 2 = y, d >= 8, x >= low, y + 15 <= high
            PROVE  x + k \in Int /\ low <= x + k /\ x + k < high
        BY <4>1
      <4>2. mem[Desc[Host] + 1] >= 8 /\ base >= Bottom
        BY <1>0, <1>3, <1>6 DEF HEADER_SIZE
      <4>3. PICK d \in Nat : d = mem[Desc[Host] + 1]
        BY <1>6
      <4>4. base \in Int /\ base + d + 2 = sp /\ sp \in Int /\ Bottom \in Int /\ Top \in Nat /\ d >= 8
            /\ base >= Bottom /\ sp + 15 <= Top
        BY <1>5, <1>6, <4>2, <4>3
      <4> QED BY <4>1, <4>4
    <3> QED BY <1>8, <3>1
  <2>2. RET_PC \in 0..7 /\ RESULT_COUNT \in 0..7
    BY DEF RET_PC, RESULT_COUNT
  <2> QED BY <1>6, <2>1, <2>2 DEF Code
<1>12. Calm(S, mem')
  <2> SUFFICES ASSUME NEW a \in MemoryWords, Inner(S, a), a \notin OwnCells PROVE mem'[a] = mem[a]
    BY DEF Calm
  <2>1. a \notin StackWordsOf(R + 1)
    BY <1>5, BeyondNotInner
  <2> QED BY <1>2, <1>7, <2>1 DEF Calm
<1>13. Steady(S)
  BY <1>2, <1>10, <1>12 DEF Steady, Undisturbed
<1>14. Len(T[R + 1]) = 1 /\ T[R + 1][1] = sp'
  BY <1>2
<1>15. Held(mem', T)
  <2>1. Len(T) # Len(S) /\ Len(T) \in {Len(S), Len(S) + 1}
    BY <1>2, <1>5
  <2>2. mem'[T[R + 1][1] + ENTRY].fn \in Functions
    <3>1. mem'[sp' + ENTRY] = Code(g, "entry") /\ T[R + 1][1] = sp'
      BY <1>2, <1>14
    <3>2. mem'[T[R + 1][1] + ENTRY] = Code(g, "entry")
      BY <3>1
    <3> QED BY <3>2 DEF Code
  <2>3. base \in Int /\ Grown(S, base, T) /\ Len(T[Len(S) + 1]) = 1 /\ mem'[T[Len(S) + 1][1] + ENTRY].fn \in Functions
    BY <1>2, <1>6, <1>14, <2>2
  <2>4. mem'[base + RET_PC].at = site /\ mem'[base + RESULT_COUNT] = Wants[site] /\ mem'[sp + SiteCell(site)] = sp - 1
    BY <1>10, <1>11
  <2>5. Stacked(S) /\ Held(mem, S) /\ Steady(S) /\ site \in Sites
    BY <1>1, <1>3, <1>13
  <2> HIDE DEF R
  <2> QED BY <2>1, <2>3, <2>4, <2>5, HeldGrown
<1>16. \A r \in 1..Len(host') : host'[r].result = StackTops[r + 1] - 1
  <2> DEFINE x == [sp |-> base, result |-> StackTops[Len(host) + 2] - 1]
  <2>1. StackTops[Len(host) + 2] - 1 \in Int
    <3>1. StackTops[R + 1] \in Nat /\ R + 1 = Len(host) + 2
      BY <1>5, StackAt
    <3> QED BY <3>1
  <2>2. x \in [sp : Int, result : Int] /\ x.result = StackTops[Len(host) + 2] - 1
    BY <1>6, <2>1
  <2> HIDE DEF x
  <2>3. host' = Append(host, x)
    BY <1>4 DEF x
  <2>4. /\ Len(host') = Len(host) + 1 /\ host'[Len(host) + 1] = x
        /\ \A r \in 1..Len(host) : host'[r] = host[r]
    BY <1>5, <2>2, <2>3
  <2>5. (Len(host) + 1) + 1 = Len(host) + 2 /\ Len(host) \in Nat
    BY <1>5
  <2>6. \A r \in 1..Len(host') : r \in 1..Len(host) \/ r = Len(host) + 1
    BY <2>4, <2>5
  <2> QED BY <1>1, <2>2, <2>4, <2>5, <2>6 DEF Remembered
<1>17. pc'.at = "entry"
  BY <1>4 DEF Code
<1>18. Detailed(T)'
  BY <1>2, <1>3, <1>4, <1>13, <1>15, <1>16, <1>17, DetailedGrown
<1>19. ActivationIn(mem', sp, base) = [RunningActivation EXCEPT !.site = site]
  BY <1>1, <1>3, <1>10, <1>11, <1>13, CallerIs
<1>20. mem'[sp' + ENTRY].fn = g /\ mem'[sp' + mem'[sp' + FRAME_SIZE]] = Var(2)
  <2>1. /\ mem'[sp' + ENTRY] = Code(g, "entry") /\ mem'[sp' + FRAME_SIZE] = FrameSize(g)
        /\ mem'[sp' + FrameSize(g)] = Var(2)
    BY <1>2
  <2> QED BY <2>1 DEF Code
<1>21. /\ RunningActivation'.fn = g /\ RunningActivation'.site = "none"
       /\ RunningActivation'.vars[1] = RunningActivation.vars[2]
  BY <1>3, <1>17, <1>20, CalleeIs, AtBody
<1>22. ActivationStack'
       = Append(Append(Append(Under(mem, S), [RunningActivation EXCEPT !.site = site]), HostActivation), RunningActivation')
  <2>1. ActivationStack' = Append(Under(mem', T), RunningActivation')
    BY <1>2, StackFoundNext
  <2>2. Under(mem', T) = Append(Append(Under(mem, S), ActivationIn(mem', sp, base)), HostActivation)
    BY <1>1, <1>2, <1>6, <1>13, <1>14, UnderNested DEF Steady
  <2> QED BY <1>19, <2>1, <2>2
<1>23. PICK A : /\ Under(mem, S) \in Seq(A) /\ RunningActivation \in A
                /\ ActivationStack = Append(Under(mem, S), RunningActivation)
  BY <1>1, StackNow
<1>24. Activation!IsRunning(RunningActivation)
  BY <1>1, StackNow
<1>25. HostActivation.fn = Host
  BY DEF HostActivation
<1>26. Activation!CallNested(g, site)
  BY <1>21, <1>22, <1>23, <1>24, <1>25, CallNestedStep
<1>27. Activation!ANext
  BY <1>3, <1>26 DEF Activation!ANext
<1> QED BY <1>18, <1>27 DEF Implements, ActivationsInv

-----------------------------------------------------------------------------
(***************************************************************************)
(* Returns.                                                                *)
(***************************************************************************)
\* What is known of the frames is known of those that remain.
LEMMA HeldCut ==
  ASSUME NEW m, NEW S, Placed(S), Held(m, S), NEW R \in 1..Len(S), NEW k \in 1..Len(S[R]),
         R < Len(S) => k < Len(S[R]), NEW T, CutTo(S, R, k, T)
  PROVE  Held(m, T)
<1>1. /\ Len(S) \in Nat /\ R \in Nat /\ R <= Len(S) /\ Len(S[R]) \in Nat /\ k \in Nat /\ k <= Len(S[R])
      /\ Len(T) = R /\ Len(T[R]) = k
      /\ \A r \in 1..(R - 1) : T[r] = S[r]
      /\ \A i \in 1..k : T[R][i] = S[R][i]
  BY PlaceOf DEF CutTo
<1>2. ASSUME NEW r \in 1..(R - 1), NEW i \in 1..Len(T[r]) PROVE HeldAt(m, T, r, i)
  <2>1. r \in 1..Len(S) /\ r < Len(S) /\ r < Len(T) /\ T[r] = S[r]
    BY <1>1
  <2>2. HeldAt(m, S, r, i)
    BY <2>1 DEF Held
  <2> QED BY <2>1, <2>2 DEF HeldAt, IsHostFrame
<1>3. ASSUME NEW i \in 1..k PROVE HeldAt(m, T, R, i)
  <2>1. i \in 1..Len(S[R]) /\ T[R][i] = S[R][i] /\ ~IsHostFrame(T, R, i) /\ ~IsHostFrame(S, R, i)
    BY <1>1 DEF IsHostFrame
  <2>2. HeldAt(m, S, R, i)
    BY <2>1 DEF Held
  <2>3. i < k => i < Len(S[R]) /\ T[R][i + 1] = S[R][i + 1]
    BY <1>1
  <2> QED BY <1>1, <2>1, <2>2, <2>3 DEF HeldAt
<1>4. \A r \in 1..Len(T) : r \in 1..(R - 1) \/ r = R
  BY <1>1
<1> QED BY <1>1, <1>2, <1>3, <1>4 DEF Held

\* What is known stays known when frames go.
LEMMA DetailedCut ==
  ASSUME NEW S, Detailed(S), Steady(S), NEW R \in 1..Len(S), NEW k \in 1..Len(S[R]),
         R < Len(S) => k < Len(S[R]), NEW T, CutTo(S, R, k, T), Stacked(T)', Running(T)',
         \A env \in JmpBufs : jmps'[env] # NoJmp => jmps'[env] = jmps[env],
         \A r \in 1..Len(host') : r \in 1..Len(host) /\ host'[r] = host[r]
  PROVE  Detailed(T)'
<1>1. Stacked(S) /\ Placed(S) /\ Remembered /\ Held(mem, S)
  BY DEF Detailed, Stacked
<1>2. \A r \in 1..Len(host') : host'[r].result = StackTops[r + 1] - 1
  BY <1>1 DEF Remembered
<1>3. Remembered'
  BY <1>1, <1>2, RememberedKept
<1>4. Held(mem', T)
  <2>1. Held(mem', S)
    BY <1>1, HeldKept DEF Steady
  <2> QED BY <1>1, <2>1, HeldCut
<1>5. Held(mem, T)'
  BY <1>4 DEF Held, HeldAt, IsHostFrame, Awaits
<1> QED BY <1>3, <1>5 DEF Detailed

\* Memory m has the inner words of all frames, the running one's too.
Untouched(S, m) == \A a \in MemoryWords : Inner(S, a) => m[a] = mem[a]

\* A further write elsewhere leaves them untouched.
LEMMA WriteUntouched ==
  ASSUME NEW S, NEW m, Untouched(S, m), DOMAIN m = MemoryWords, NEW a, ~Inner(S, a), NEW v
  PROVE  Untouched(S, [m EXCEPT ![a] = v]) /\ DOMAIN [m EXCEPT ![a] = v] = MemoryWords
BY DEF Untouched

\* Such a step leaves the frames steady, and the running one's cells.
LEMMA UntouchedSteady ==
  ASSUME NEW S, Stacked(S), Held(mem, S), Keeps(S, mem'), Untouched(S, mem')
  PROVE  /\ Steady(S) /\ Undisturbed(S)
         /\ \A k \in {ENTRY} \cup 8..12 : mem'[sp + k] = mem[sp + k]
<1>1. /\ Len(S) \in 1..Len(S) /\ Len(S[Len(S)]) \in 1..Len(S[Len(S)]) /\ Placed(S)
      /\ sp = S[Len(S)][Len(S[Len(S)])] /\ ~IsHostFrame(S, Len(S), Len(S[Len(S)]))
  <2>1. Len(S) \in Nat /\ Len(S) >= 1
    BY Current, Layout
  <2> QED BY <2>1, Current, StackNow DEF Stacked
<1>2. ASSUME NEW k \in {ENTRY} \cup 8..12 PROVE mem'[sp + k] = mem[sp + k]
  <2>1. k \in InnerAt(S, Len(S), Len(S[Len(S)]))
    BY <1>1 DEF InnerAt
  <2>2. sp + k \in MemoryWords /\ Inner(S, sp + k)
    BY <1>1, <2>1, InnerInMemory
  <2> QED BY <2>2 DEF Untouched
<1>3. \A site \in Sites : mem'[sp + SiteCell(site)] = mem[sp + SiteCell(site)]
  <2>1. \A site \in Sites : SiteCell(site) \in 8..12
    BY Places
  <2> QED BY <1>2, <2>1
<1> QED BY <1>2, <1>3 DEF Steady, Undisturbed, Calm, Untouched

\* A suspended frame that is resumed at its site: its activation is given what
\* the word below it holds.
LEMMA ResumedAt ==
  ASSUME NEW S, Stacked(S), Undisturbed(S), NEW r \in 1..Len(S), NEW i \in 1..Len(S[r]), ~IsHostFrame(S, r, i),
         r # Len(S) \/ i # Len(S[r]), NEW f, f = S[r][i], sp' = f,
         NEW site \in Sites, pc'.at = site, Awaits(mem', f, site),
         NEW v, Wants[site] = 1 => mem'[f - 1] = v, NEW c
  PROVE  RunningActivation' = Given(ActivationIn(mem, f, c), site, v)
<1> DEFINE x == IF Wants[site] = 1 THEN v ELSE mem[f + VarCell(1)]
<1>1. mem'[f + VarCell(1)] = mem[f + VarCell(1)]
  BY GuestCells, InnerKept
<1>2. FirstVar' = IF Wants[site] = 1 THEN mem'[f - 1] ELSE mem'[f + VarCell(1)]
  BY NextFirst
<1>3. FirstVar' = x
  BY <1>1, <1>2
<1>4. Given(ActivationIn(mem, f, c), site, v) = GuestActivation(mem, f, x)
  BY ResumedIs
<1> HIDE DEF x
<1>5. GuestActivation(mem', f, x) = GuestActivation(mem, f, x)
  <2>1. /\ mem'[S[r][i] + ENTRY] = mem[S[r][i] + ENTRY]
        /\ mem'[S[r][i] + VarCell(2)] = mem[S[r][i] + VarCell(2)]
    BY GuestCells, InnerKept
  <2> QED BY <2>1 DEF GuestActivation
<1>6. RunningActivation' = GuestActivation(mem', f, x)
  <2>1. RunningActivation' = GuestActivation(mem', sp', FirstVar')
    BY RunningIs
  <2>2. sp' = f
    OBVIOUS
  <2> QED BY <1>3, <2>1, <2>2
<1> QED BY <1>4, <1>5, <1>6

\* What a return has written, and the site it returns to.
LEMMA ReturnSite ==
  ASSUME NEW S, Detailed(S), NEW n, n = Len(S[Len(S)]), n > 1
  PROVE  /\ Stacked(S) /\ Held(mem, S) /\ Placed(S)
         /\ Len(S) \in Nat /\ Len(S) \in 1..Len(S) /\ n \in Nat /\ n \in 1..Len(S[Len(S)]) /\ sp = S[Len(S)][n]
         /\ n - 1 \in 1..Len(S[Len(S)]) /\ n - 1 # Len(S[Len(S)]) /\ ~IsHostFrame(S, Len(S), n - 1)
         /\ mem[S[Len(S)][n] + RET_PC].at \in Sites
         /\ Awaits(mem, S[Len(S)][n - 1], mem[S[Len(S)][n] + RET_PC].at)
         /\ S[Len(S)][n - 1] \in Int /\ sp \in Int /\ sp + 15 <= S[Len(S)][n - 1]
         /\ EndOf(S, Len(S), n) = S[Len(S)][n - 1] /\ mem[S[Len(S)][n - 1] + ENTRY].fn \in Functions
<1>1. Stacked(S) /\ Held(mem, S) /\ Placed(S)
  BY DEF Detailed, Stacked
<1>2. Len(S) \in Nat /\ Len(S) >= 1 /\ n \in Nat /\ sp = S[Len(S)][n] /\ sp \in Int
      /\ \A j \in 1..(n - 1) : S[Len(S)][j] \in Int /\ sp + 15 <= S[Len(S)][j]
  <2>1. n \in 1..n /\ S[Len(S)] \in Seq(Int)
    BY <1>1, Current
  <2> QED BY <1>1, <2>1, Current, Layout
<1>3. PICK k \in Nat : k = n - 1
  <2>1. n \in Nat /\ n > 1
    BY <1>2
  <2>2. n - 1 \in Nat
    BY <2>1
  <2> QED BY <2>2
<1>4. Len(S) \in 1..Len(S) /\ n \in 1..Len(S[Len(S)]) /\ k \in 1..Len(S[Len(S)]) /\ k < Len(S[Len(S)])
      /\ k \in 1..(n - 1) /\ k + 1 = n /\ k # Len(S[Len(S)])
  BY <1>2, <1>3
<1>5. ~IsHostFrame(S, Len(S), k)
  BY <1>4 DEF IsHostFrame
<1>6. HeldAt(mem, S, Len(S), k)
  BY <1>1, <1>4 DEF Held
<1>7. Awaits(mem, S[Len(S)][k], mem[S[Len(S)][n] + RET_PC].at) /\ mem[S[Len(S)][k] + ENTRY].fn \in Functions
  BY <1>4, <1>5, <1>6 DEF HeldAt
<1>8. EndOf(S, Len(S), n) = S[Len(S)][k]
  BY <1>2, <1>3 DEF EndOf
<1> QED BY <1>1, <1>2, <1>3, <1>4, <1>5, <1>7, <1>8 DEF Awaits

\* A return to guest code.
LEMMA ReturnImplements ==
  ASSUME NEW S, Detailed(S), NEW i \in 1..2, Return(i), Len(S[Len(S)]) > 1
  PROVE  Implements
<1>0. PICK R, n, k, f : R = Len(S) /\ n = Len(S[R]) /\ k = n - 1 /\ f = S[R][k]
  OBVIOUS
<1>1. /\ Stacked(S) /\ Held(mem, S) /\ Placed(S) /\ n > 1
      /\ R \in Nat /\ R \in 1..Len(S) /\ n \in Nat /\ n \in 1..Len(S[R]) /\ sp = S[R][n]
      /\ k \in 1..Len(S[R]) /\ k # Len(S[R]) /\ ~IsHostFrame(S, R, k) /\ f \in Int /\ sp \in Int /\ sp + 15 <= f
      /\ EndOf(S, R, n) = f /\ mem[f + ENTRY].fn \in Functions
  BY <1>0, ReturnSite
<1>2. PICK site \in Sites : site = mem[sp + RET_PC].at /\ Awaits(mem, f, site)
  <2>1. mem[S[R][n] + RET_PC].at \in Sites /\ Awaits(mem, S[R][n - 1], mem[S[R][n] + RET_PC].at)
    BY <1>0, <1>1, ReturnSite
  <2> QED BY <1>0, <1>1, <2>1
<1>3. /\ sp' = f /\ pc' = mem[sp + RET_PC] /\ ~halted' /\ jmps' = Forget({sp}) /\ host' = host
      /\ mem' = [[mem EXCEPT ![sp' + RESUME_PC] = mem[sp + RET_PC]] EXCEPT ![sp' - 1] = Var(i)]
      /\ Keeps(S, mem')
  BY <1>0, <1>1, ReturnToCaller
<1>4. PICK T : Stacked(T)' /\ CutTo(S, R, k, T)
  BY <1>0, <1>1, ReturnToCaller
<1>5. ~Inner(S, f + RESUME_PC) /\ ~Inner(S, f - 1) /\ f - 1 \in MemoryWords
  <2>1. ~Inner(S, S[R][k] + RESUME_PC)
    BY <1>1, ResumeNotInner
  <2>2. ~Inner(S, EndOf(S, R, n) - 1)
    BY <1>1, ResultNotInner
  <2>3. f - 1 \in Int /\ S[R][n] <= f - 1 /\ f - 1 < EndOf(S, R, n)
    BY <1>1, SMTT(30)
  <2>4. f - 1 \in MemoryWords
    BY <1>1, <2>3, InExtent
  <2> QED BY <1>0, <1>1, <2>1, <2>2, <2>4
<1>6. Untouched(S, mem') /\ mem'[f - 1] = Var(i)
  <2> DEFINE resumed == [mem EXCEPT ![f + RESUME_PC] = mem[sp + RET_PC]]
  <2>1. Untouched(S, mem) /\ DOMAIN mem = MemoryWords
    BY <1>1, NothingCalm DEF Untouched
  <2>2. Untouched(S, resumed) /\ DOMAIN resumed = MemoryWords
    BY <1>5, <2>1, WriteUntouched
  <2>3. mem' = [resumed EXCEPT ![f - 1] = Var(i)]
    BY <1>3
  <2> HIDE DEF resumed
  <2> QED BY <1>5, <2>2, <2>3, WriteUntouched
<1>7. Steady(S) /\ Undisturbed(S)
  BY <1>1, <1>3, <1>6, UntouchedSteady
<1>8. Awaits(mem', f, site) /\ pc'.at = site
  <2>1. Awaits(mem', S[R][k], site)
    BY <1>0, <1>1, <1>2, <1>7, AwaitsKept
  <2> QED BY <1>0, <1>2, <1>3, <2>1
<1>9. Running(T)'
  <2>1. Awaits(mem', sp', pc'.at)
    BY <1>3, <1>8
  <2> QED BY <1>3, <1>8, <2>1, Places DEF Running, Awaits
<1>10. Detailed(T)'
  <2>1. \A env \in JmpBufs : jmps'[env] # NoJmp => jmps'[env] = jmps[env]
    BY <1>3 DEF Forget
  <2>2. \A r \in 1..Len(host') : r \in 1..Len(host) /\ host'[r] = host[r]
    BY <1>3
  <2>3. ~(R < Len(S))
    BY <1>0, <1>1
  <2> QED BY <1>1, <1>4, <1>7, <1>9, <2>1, <2>2, <2>3, DetailedCut
<1>11. PICK c : c = ActivationIn(mem, f, sp)
  OBVIOUS
<1>12. c.fn # Host
  BY <1>1, <1>11, MachineAssumption DEF ActivationIn
<1>13. RunningActivation' = Activation!Resumed(c, Var(i))
  <2>1. RunningActivation' = Given(ActivationIn(mem, f, sp), site, Var(i))
    <3>1. R \in 1..Len(S) /\ k \in 1..Len(S[R]) /\ ~IsHostFrame(S, R, k) /\ k # Len(S[R]) /\ f = S[R][k]
      BY <1>0, <1>1
    <3>2. sp' = f /\ pc'.at = site /\ Awaits(mem', f, site) /\ mem'[f - 1] = Var(i)
      BY <1>3, <1>6, <1>8
    <3> QED BY <1>1, <1>7, <3>1, <3>2, ResumedAt
  <2>2. Given(ActivationIn(mem, f, sp), site, Var(i)) = Activation!Resumed(ActivationIn(mem, f, sp), Var(i))
    <3>1. /\ Given(ActivationIn(mem, f, sp), site, Var(i))
             = GuestActivation(mem, f, IF Wants[site] = 1 THEN Var(i) ELSE mem[f + VarCell(1)])
          /\ Activation!Resumed(ActivationIn(mem, f, sp), Var(i))
             = GuestActivation(mem, f, IF Wants[mem[sp + RET_PC].at] = 1 THEN Var(i) ELSE mem[f + VarCell(1)])
      BY ResumedIs
    <3> QED BY <1>2, <3>1
  <2> QED BY <1>11, <2>1, <2>2
<1>14. Under(mem, S) = Append(Under(mem', T), c)
  <2>1. Under(mem, S) = Append(Under(mem', T), ActivationIn(mem, S[Len(S)][n - 1], S[Len(S)][n]))
    BY <1>0, <1>1, <1>4, <1>7, UnderReturn
  <2> QED BY <1>0, <1>1, <1>11, <2>1
<1>15. PICK V : V = Under(mem', T)
  OBVIOUS
<1>16. /\ ActivationStack = Append(Append(V, c), RunningActivation)
       /\ ActivationStack' = Append(V, RunningActivation')
  BY <1>1, <1>4, <1>14, <1>15, StackNow, StackFoundNext
<1>17. PICK A : A = ActivationsIn(mem', T) \cup {c, RunningActivation}
  OBVIOUS
<1>18. V \in Seq(A) /\ c \in A /\ RunningActivation \in A
  <2>1. Placed(T) /\ Len(T) - 1 \in Nat /\ Len(T) - 1 <= Len(T)
    BY <1>0, <1>1, <1>4 DEF CutTo
  <2> QED BY <1>15, <1>17, <2>1, UnderSeq
<1>19. RunningActivation.vars[i] = Var(i) /\ Activation!IsRunning(RunningActivation)
  BY <1>1, AtBody, StackNow DEF Return, InBody
<1>20. Activation!Return(i)
  BY <1>12, <1>13, <1>16, <1>18, <1>19, ReturnStep
<1>21. Activation!ANext
  BY <1>20 DEF Activation!ANext, Activation!Vars
<1> QED BY <1>10, <1>21 DEF Implements, ActivationsInv

\* The first frame of the outermost run is that of the only activation.
LEMMA OneActivation ==
  ASSUME NEW S, Stacked(S), Held(mem, S), Len(S) = 1, Len(S[1]) = 1
  PROVE  /\ Len(ActivationStack) = 1 /\ Activation!Top = RunningActivation
         /\ ActivationStack[1] = RunningActivation /\ Activation!IsRunning(RunningActivation)
<1>1. Placed(S)
  BY DEF Stacked
<1>2. PICK A : A = ActivationsIn(mem, S) \cup {RunningActivation}
  OBVIOUS
<1>3. Under(mem, S) \in Seq(A) /\ Len(Under(mem, S)) = 0
  <2>1. 1 \in 1..Len(S) /\ Len(S) - 1 = 0 /\ ActivationsIn(mem, S) \subseteq A
    BY <1>2
  <2>2. SuspendedRow(mem, S, 1) \in Seq(A) /\ Len(SuspendedRow(mem, S, 1)) = Len(S[1]) - 1
    <3>1. ASSUME NEW r \in 1..Len(S)
          PROVE  SuspendedRow(mem, S, r) \in Seq(A) /\ Len(SuspendedRow(mem, S, r)) = Len(S[r]) - 1
      BY <1>1, <2>1, RowSeq, ZenonT(60)
    <3> QED BY <2>1, <3>1
  <2>3. Flat(HostRows(mem, S), 0) = <<>>
    BY FlatNone
  <2>4. Under(mem, S) = <<>> \o SuspendedRow(mem, S, 1)
    <3>1. Under(mem, S) = Flat(HostRows(mem, S), Len(S) - 1) \o SuspendedRow(mem, S, Len(S))
      BY DEF Under
    <3> QED BY <2>1, <2>3, <3>1
  <2>5. Len(SuspendedRow(mem, S, 1)) = 0
    BY <2>2
  <2>6. ASSUME NEW q \in Seq(A), Len(q) = 0 PROVE <<>> \o q \in Seq(A) /\ Len(<<>> \o q) = 0
    BY <2>6
  <2> QED BY <2>2, <2>4, <2>5, <2>6
<1>4. ActivationStack = Append(Under(mem, S), RunningActivation) /\ RunningActivation \in A
      /\ Activation!IsRunning(RunningActivation)
  <2>1. RunningActivation \in A
    BY <1>2
  <2>2. Activation!IsRunning(RunningActivation)
    BY StackNow
  <2>3. ActivationStack = Append(Under(mem, S), RunningActivation)
    BY StackFound DEF StackIs
  <2> QED BY <2>1, <2>2, <2>3
<1>5. Activation!Top = RunningActivation /\ Len(ActivationStack) = Len(Under(mem, S)) + 1
  BY <1>3, <1>4, TopAndBelow
<1>6. Len(ActivationStack) = 1
  BY <1>3, <1>5
<1>7. ActivationStack[1] = RunningActivation
  BY <1>5, <1>6 DEF Activation!Top
<1> QED BY <1>4, <1>5, <1>6, <1>7

\* The return of the first frame of the outermost run.
LEMMA LastReturn ==
  ASSUME NEW S, Detailed(S), NEW i \in 1..2, Return(i), Len(S[Len(S)]) = 1, Len(S) = 1
  PROVE  Implements
<1>1. Stacked(S) /\ Held(mem, S) /\ Len(S[1]) = 1
  BY DEF Detailed
<1>2. Finished'
  BY <1>1, ReturnHalts
<1>3. ActivationStack' = <<>>
  BY <1>2 DEF ActivationStack
<1>4. /\ Len(ActivationStack) = 1 /\ Activation!Top = RunningActivation
      /\ Activation!IsRunning(RunningActivation)
  BY <1>1, OneActivation
<1>5. Activation!Finish
  BY <1>3, <1>4 DEF Activation!Finish
<1> QED BY <1>2, <1>5 DEF Implements, ActivationsInv, Activation!ANext

\* The return of the first frame of a nested run: the service has yet to return.
LEMMA NestedReturn ==
  ASSUME NEW S, Detailed(S), NEW i \in 1..2, Return(i), Len(S[Len(S)]) = 1, Len(S) # 1
  PROVE  Implements
<1>0. PICK R : R = Len(S)
  OBVIOUS
<1>1. Stacked(S) /\ Held(mem, S) /\ Placed(S) /\ pc.at = "body"
  BY DEF Detailed, Stacked, Return, InBody
<1>2. /\ halted' /\ Keeps(S, mem') /\ Stacked(S)' /\ UNCHANGED <<sp, pc, host>> /\ jmps' = Forget({sp})
      /\ mem'[Top - 1] = Var(i)
      /\ mem' = [[mem EXCEPT ![sp + RESUME_PC] = HaltCode] EXCEPT ![Top - 1] = Var(i)]
  BY <1>1, ReturnHalts
<1>3. R \in Nat /\ R \in 1..Len(S) /\ 1 \in 1..Len(S[R]) /\ sp = S[R][1] /\ Top = StackTops[R] /\ EndOf(S, R, 1) = Top
  <2>1. Len(S) \in Nat /\ Len(S) >= 1
    BY <1>1, Current, Layout
  <2>2. Len(S) \in Nat /\ Len(S) \in 1..Len(S) /\ 1 \in 1..Len(S[Len(S)])
    BY <2>1
  <2>3. sp = S[Len(S)][Len(S[Len(S)])] /\ Top = StackTops[Len(S)]
    BY <1>1, Current
  <2>4. sp = S[Len(S)][1]
    BY <2>3
  <2>5. EndOf(S, R, 1) = StackTops[R]
    BY DEF EndOf
  <2> QED BY <1>0, <2>2, <2>3, <2>4, <2>5
<1>4. Untouched(S, mem')
  <2> DEFINE resumed == [mem EXCEPT ![sp + RESUME_PC] = HaltCode]
  <2>1. ~Inner(S, sp + RESUME_PC)
    BY <1>1, <1>3, ResumeNotInner
  <2>2. ~Inner(S, Top - 1)
    <3>1. ~Inner(S, EndOf(S, R, 1) - 1)
      BY <1>1, <1>3, ResultNotInner
    <3> QED BY <1>3, <3>1
  <2>3. Untouched(S, mem) /\ DOMAIN mem = MemoryWords
    BY <1>1, NothingCalm DEF Untouched
  <2>4. Untouched(S, resumed) /\ DOMAIN resumed = MemoryWords
    BY <2>1, <2>3, WriteUntouched
  <2>5. mem' = [resumed EXCEPT ![Top - 1] = Var(i)]
    BY <1>2
  <2> HIDE DEF resumed
  <2> QED BY <2>2, <2>4, <2>5, WriteUntouched
<1>5. Steady(S) /\ Undisturbed(S) /\ \A k \in {ENTRY} \cup 8..12 : mem'[sp + k] = mem[sp + k]
  BY <1>1, <1>2, <1>4, UntouchedSteady
<1>6. mem'[sp + VarCell(1)] = mem[sp + VarCell(1)] /\ mem'[sp + VarCell(2)] = mem[sp + VarCell(2)]
  <2>1. VarCell(1) \in 8..12 /\ VarCell(2) \in 8..12
    BY Places
  <2> QED BY <1>5, <2>1
<1>7. Var(i)' = Var(i)
  <2>1. i = 1 \/ i = 2
    OBVIOUS
  <2>2. mem'[sp' + VarCell(i)] = mem[sp + VarCell(i)]
    BY <1>2, <1>6, <2>1
  <2> QED BY <2>2 DEF Var
<1>8. Running(S)'
  <2>1. mem'[StackTops[Len(S)] - 1] = Var(i)'
    BY <1>0, <1>2, <1>3, <1>7
  <2>2. \E j \in 1..2 : mem'[StackTops[Len(S)] - 1] = Var(j)'
    BY <2>1
  <2> QED BY <1>1, <1>2, <2>2, Places DEF Running
<1>9. Detailed(S)'
  <2>1. \A env \in JmpBufs : jmps'[env] # NoJmp => jmps'[env] = jmps[env]
    BY <1>2 DEF Forget
  <2> QED BY <1>2, <1>5, <1>8, <2>1, DetailedKept
<1>10. RunningActivation' = RunningActivation
  <2>1. FirstVar' = Var(1) /\ FirstVar = Var(1)
    <3>1. FirstVar' = mem'[sp' + VarCell(1)]
      BY <1>1, <1>2, NextFirst
    <3> QED BY <1>1, <1>2, <1>6, <3>1, Places DEF FirstVar, Var
  <2>2. GuestActivation(mem', sp, Var(1)) = GuestActivation(mem, sp, Var(1))
    BY <1>1, <1>5, <1>6, TopKept
  <2> QED BY <1>2, <2>1, <2>2, RunningIs
<1>11. ActivationStack' = ActivationStack
  <2>1. ActivationStack' = Append(Under(mem, S), RunningActivation')
    BY <1>1, <1>2, <1>5, StackKept
  <2>2. ActivationStack = Append(Under(mem, S), RunningActivation)
    BY <1>1, StackNow
  <2> QED BY <1>10, <2>1, <2>2
<1> QED BY <1>9, <1>11 DEF Implements, ActivationsInv

\* What the service that has entered guest code is about to return to.
LEMMA ServiceSite ==
  ASSUME NEW S, Detailed(S), NEW R \in 1..Len(S), R < Len(S), NEW n, n = Len(S[R])
  PROVE  /\ n \in Nat /\ n > 1 /\ n \in 1..Len(S[R]) /\ n - 1 \in 1..Len(S[R]) /\ n - 1 < Len(S[R])
         /\ ~IsHostFrame(S, R, n - 1)
         /\ mem[S[R][n] + RET_PC].at \in Sites
         /\ Awaits(mem, S[R][n - 1], mem[S[R][n] + RET_PC].at)
         /\ mem[S[R][n] + RESULT_COUNT] = Wants[mem[S[R][n] + RET_PC].at]
         /\ S[R][n - 1] \in Int /\ S[R][n] \in Int /\ S[R][n] + 10 <= S[R][n - 1]
         /\ EndOf(S, R, n) = S[R][n - 1]
<1>1. Stacked(S) /\ Held(mem, S) /\ Placed(S)
  BY DEF Detailed, Stacked
<1>2. n \in Nat /\ n > 1
  BY <1>1, PlaceOf, Layout DEF Placed
<1>3. PICK k \in Nat : k = n - 1
  <2>1. n - 1 \in Nat
    BY <1>2
  <2> QED BY <2>1
<1>4. /\ k \in 1..Len(S[R]) /\ k < Len(S[R]) /\ n \in 1..Len(S[R]) /\ k + 1 = n /\ k \in 1..(n - 1)
      /\ ~IsHostFrame(S, R, k) /\ IsHostFrame(S, R, n) /\ n # 1
  <2>1. ASSUME NEW x \in Nat, NEW y \in Nat, x > 1, y = x - 1
        PROVE  y \in 1..x /\ y < x /\ x \in 1..x /\ y + 1 = x /\ y \in 1..(x - 1) /\ y # x /\ x # 1
    BY <2>1
  <2>2. /\ k \in 1..n /\ k < n /\ n \in 1..n /\ k + 1 = n /\ k \in 1..(n - 1) /\ k # n /\ n # 1
    BY <1>2, <1>3, <2>1
  <2>3. ~IsHostFrame(S, R, k) /\ IsHostFrame(S, R, n)
    BY <2>2 DEF IsHostFrame
  <2> QED BY <2>2, <2>3
<1>5. HeldAt(mem, S, R, k) /\ HeldAt(mem, S, R, n)
  BY <1>1, <1>4 DEF Held
<1>6. /\ Awaits(mem, S[R][k], mem[S[R][n] + RET_PC].at)
      /\ mem[S[R][n] + RESULT_COUNT] = Wants[mem[S[R][n] + RET_PC].at]
  BY <1>4, <1>5 DEF HeldAt
<1>7. EndOf(S, R, n) = S[R][k]
  BY <1>3, <1>4 DEF EndOf
<1>8. S[R][k] \in Int /\ S[R][n] \in Int /\ S[R][n] + 10 <= S[R][k]
  <2>1. /\ S[R][n] \in Int /\ WordsOf(S, R, n) \in {10, 15} /\ S[R][k] \in Int
        /\ S[R][n] + WordsOf(S, R, n) <= S[R][k]
    BY <1>1, <1>4, PlaceOf
  <2>2. ASSUME NEW x \in Int, NEW y \in Int, NEW w \in {10, 15}, x + w <= y PROVE x + 10 <= y
    BY <2>2
  <2> QED BY <2>1, <2>2
<1> QED BY <1>2, <1>3, <1>4, <1>6, <1>7, <1>8 DEF Awaits

\* The service returns what the run it has entered has returned.
LEMMA FinishImplements == ASSUME NEW S, Detailed(S), FinishNested PROVE Implements
<1>0. PICK R, n, k, f, h : R = Len(host) /\ n = Len(S[R]) /\ k = n - 1 /\ f = S[R][k] /\ h = S[R][n]
  OBVIOUS
<1>1. Stacked(S) /\ Held(mem, S) /\ Placed(S) /\ Running(S) /\ Remembered /\ halted
  BY DEF Detailed, Stacked, FinishNested
<1>2. /\ Len(S) = R + 1 /\ R \in 1..Len(S) /\ R < Len(S) /\ n \in Nat /\ n > 1
      /\ sp' = f /\ ~halted' /\ jmps' = jmps /\ pc' = mem[h + RET_PC]
      /\ mem' = IF mem[h + RESULT_COUNT] = 1 THEN [mem EXCEPT ![sp' - 1] = mem[host[R].result]] ELSE mem
      /\ Len(host') = R - 1 /\ \A r \in 1..(R - 1) : host'[r] = host[r]
      /\ Keeps(S, mem')
  BY <1>0, <1>1, FinishKeeps
<1>3. PICK T : Stacked(T)' /\ CutTo(S, R, k, T)
  BY <1>0, <1>1, FinishKeeps
<1>4. /\ n \in 1..Len(S[R]) /\ k \in 1..Len(S[R]) /\ k < Len(S[R]) /\ ~IsHostFrame(S, R, k)
      /\ mem[h + RET_PC].at \in Sites /\ Awaits(mem, f, mem[h + RET_PC].at)
      /\ mem[h + RESULT_COUNT] = Wants[mem[h + RET_PC].at]
      /\ f \in Int /\ h \in Int /\ h + 10 <= f /\ EndOf(S, R, n) = f
  BY <1>0, <1>2, ServiceSite
<1>5. PICK site \in Sites : site = mem[h + RET_PC].at
  BY <1>4
<1>6. Awaits(mem, f, site) /\ mem[h + RESULT_COUNT] = Wants[site]
  BY <1>4, <1>5
<1>7. pc.at = "body" /\ Len(S[Len(S)]) = 1 /\ \E i \in 1..2 : mem[StackTops[Len(S)] - 1] = Var(i)
  BY <1>1 DEF Running
<1>8. PICK i \in 1..2 : mem[StackTops[Len(S)] - 1] = Var(i)
  BY <1>7
<1>9. mem[host[R].result] = Var(i)
  <2>1. R \in 1..Len(host)
    <3>1. R \in Nat /\ R >= 1
      BY <1>1, <1>2, PlaceOf
    <3> QED BY <1>0, <3>1
  <2>2. host[R].result = StackTops[R + 1] - 1
    BY <1>1, <2>1 DEF Remembered
  <2> QED BY <1>2, <1>8, <2>2
<1>10. ~Inner(S, f - 1) /\ f - 1 \in MemoryWords
  <2>1. ~Inner(S, EndOf(S, R, n) - 1)
    BY <1>1, <1>2, <1>4, ResultNotInner
  <2>2. f - 1 \in Int /\ S[R][n] <= f - 1 /\ f - 1 < EndOf(S, R, n)
    BY <1>0, <1>4
  <2>3. f - 1 \in MemoryWords
    BY <1>1, <1>2, <1>4, <2>2, InExtent
  <2> QED BY <1>4, <2>1, <2>3
<1>11. Untouched(S, mem') /\ (Wants[site] = 1 => mem'[f - 1] = Var(i))
  <2>1. Untouched(S, mem) /\ DOMAIN mem = MemoryWords
    BY <1>1, NothingCalm DEF Untouched
  <2>2. CASE Wants[site] = 1
    <3>1. mem' = [mem EXCEPT ![f - 1] = Var(i)]
      BY <1>2, <1>6, <1>9, <2>2
    <3> QED BY <1>10, <2>1, <3>1, WriteUntouched
  <2>3. CASE Wants[site] # 1
    <3>1. mem' = mem
      BY <1>2, <1>6, <2>3
    <3> QED BY <2>1, <2>3, <3>1
  <2> QED BY <2>2, <2>3
<1>12. Steady(S) /\ Undisturbed(S)
  BY <1>1, <1>2, <1>11, UntouchedSteady
<1>13. Awaits(mem', f, site) /\ pc'.at = site
  <2>1. Awaits(mem', S[R][k], site)
    BY <1>0, <1>1, <1>2, <1>4, <1>6, <1>12, AwaitsKept
  <2> QED BY <1>0, <1>2, <1>5, <2>1
<1>14. Running(T)'
  <2>1. Awaits(mem', sp', pc'.at)
    BY <1>2, <1>13
  <2> QED BY <1>2, <1>13, <2>1, Places DEF Running, Awaits
<1>15. Detailed(T)'
  <2>1. \A r \in 1..Len(host') : r \in 1..Len(host) /\ host'[r] = host[r]
    <3>1. R \in Nat
      BY <1>1, <1>2, PlaceOf
    <3> QED BY <1>0, <1>2, <3>1
  <2>2. R < Len(S) => k < Len(S[R])
    BY <1>4
  <2> QED BY <1>2, <1>3, <1>4, <1>12, <1>14, <2>1, <2>2, DetailedCut
<1>16. PICK c : c = ActivationIn(mem, f, h)
  OBVIOUS
<1>17. RunningActivation' = Activation!Resumed(c, Var(i))
  <2>1. RunningActivation' = Given(ActivationIn(mem, f, h), site, Var(i))
    <3>1. R \in 1..Len(S) /\ k \in 1..Len(S[R]) /\ ~IsHostFrame(S, R, k) /\ k # Len(S[R]) /\ f = S[R][k]
      <4>1. k # Len(S[R])
        <5>1. ASSUME NEW x \in Nat PROVE x - 1 # x
          OBVIOUS
        <5> QED BY <1>0, <1>2, <5>1
      <4>2. f = S[R][k]
        BY <1>0
      <4> QED BY <1>2, <1>4, <4>1, <4>2
    <3>2. sp' = f /\ pc'.at = site /\ Awaits(mem', f, site) /\ (Wants[site] = 1 => mem'[f - 1] = Var(i))
      BY <1>2, <1>11, <1>13
    <3> QED BY <1>1, <1>12, <3>1, <3>2, ResumedAt
  <2>2. Given(ActivationIn(mem, f, h), site, Var(i)) = Activation!Resumed(ActivationIn(mem, f, h), Var(i))
    <3>1. /\ Given(ActivationIn(mem, f, h), site, Var(i))
             = GuestActivation(mem, f, IF Wants[site] = 1 THEN Var(i) ELSE mem[f + VarCell(1)])
          /\ Activation!Resumed(ActivationIn(mem, f, h), Var(i))
             = GuestActivation(mem, f, IF Wants[mem[h + RET_PC].at] = 1 THEN Var(i) ELSE mem[f + VarCell(1)])
      BY ResumedIs
    <3> QED BY <1>5, <3>1
  <2> QED BY <1>16, <2>1, <2>2
<1>18. PICK V : V = Under(mem', T)
  OBVIOUS
<1>19. Under(mem, S) = Append(Append(V, c), HostActivation)
  <2>1. Under(mem, S) = Append(Append(Under(mem', T), ActivationIn(mem, S[R][n - 1], S[R][n])), HostActivation)
    <3>1. CutTo(S, R, n - 1, T) /\ n = Len(S[R]) /\ n > 1
      BY <1>0, <1>2, <1>3
    <3>2. R \in 1..Len(S) /\ Len(S) = R + 1 /\ Len(S[Len(S)]) = 1 /\ Stacked(S) /\ Undisturbed(S)
      BY <1>1, <1>2, <1>7, <1>12
    <3> QED BY <3>1, <3>2, UnderFinish
  <2> QED BY <1>0, <1>16, <1>18, <2>1
<1>20. /\ ActivationStack = Append(Append(Append(V, c), HostActivation), RunningActivation)
       /\ ActivationStack' = Append(V, RunningActivation')
  BY <1>1, <1>3, <1>18, <1>19, StackNow, StackFoundNext
<1>21. PICK A : A = ActivationsIn(mem', T) \cup {c, HostActivation, RunningActivation}
  OBVIOUS
<1>22. V \in Seq(A) /\ c \in A /\ HostActivation \in A /\ RunningActivation \in A
  <2>1. Placed(T) /\ Len(T) - 1 \in Nat /\ Len(T) - 1 <= Len(T)
    <3>1. R \in Nat /\ R >= 1
      BY <1>1, <1>2, PlaceOf
    <3> QED BY <1>3, <3>1 DEF CutTo
  <2>2. ActivationsIn(mem', T) \subseteq A
    BY <1>21
  <2> QED BY <1>18, <1>21, <2>1, <2>2, UnderSeq
<1>23. RunningActivation.vars[i] = Var(i) /\ Activation!IsRunning(RunningActivation) /\ HostActivation.fn = Host
  BY <1>1, <1>7, AtBody, StackNow DEF HostActivation
<1>24. ActivationStack' = Append(V, Activation!Resumed(c, RunningActivation.vars[i]))
  BY <1>17, <1>20, <1>23
<1>25. Activation!ReturnNested(i)
  BY <1>20, <1>22, <1>23, <1>24, ReturnNestedStep
<1>26. Activation!ANext
  BY <1>25 DEF Activation!ANext, Activation!Vars
<1> QED BY <1>15, <1>26 DEF Implements, ActivationsInv
-----------------------------------------------------------------------------
(***************************************************************************)
(* Long jumps.                                                             *)
(***************************************************************************)
\* The word below any frame of the innermost run is inner to no frame.
LEMMA BelowFrame ==
  ASSUME NEW S, Stacked(S), NEW i \in 1..Len(S[Len(S)]), NEW f, f = S[Len(S)][i], f - 1 >= Bottom
  PROVE  f \in Int /\ ~Inner(S, f - 1) /\ f - 1 \in MemoryWords
<1>0. PICK R, n : R = Len(S) /\ n = Len(S[R])
  OBVIOUS
<1>1. /\ Placed(S) /\ R \in Nat /\ R \in 1..Len(S) /\ R \in 1..Len(StackTops) /\ n \in Nat /\ i \in 1..n
      /\ S[R][n] = sp /\ sp \in Int
      /\ Bottom \in Int /\ Bottom = StackTops[R] - StackWords /\ sp + 15 <= StackTops[R] /\ StackTops[R] \in Nat
  <2>1. Len(S) \in Nat /\ Len(S) >= 1 /\ S[Len(S)] \in Seq(Int)
    BY Current, Layout
  <2>2. Len(S[Len(S)]) \in Nat
    BY <2>1
  <2> QED BY <1>0, <2>1, <2>2, Current, SMTT(30) DEF Stacked, Stack
<1>2. f \in Int
  BY <1>0, <1>1, PlaceOf
<1>3. CASE i = n
  <2>1. f = sp /\ f - 1 \in Int /\ Bottom <= f - 1 /\ f - 1 < sp
    BY <1>0, <1>1, <1>2, <1>3
  <2>2. ~Inner(S, f - 1)
    BY <2>1, BelowNotInner
  <2>3. f - 1 \in MemoryWords
    BY <2>1, OwnWords
  <2> QED BY <1>2, <2>2, <2>3
<1>4. CASE i # n
  <2>1. PICK k \in Nat : k = i + 1
    BY <1>1
  <2>2. k \in 1..n /\ k - 1 = i /\ k # 1
    BY <1>1, <1>4, <2>1
  <2>3. EndOf(S, R, k) = f
    BY <1>0, <2>2 DEF EndOf
  <2>4. ~Inner(S, EndOf(S, R, k) - 1)
    BY <1>0, <1>1, <2>2, ResultNotInner
  <2>5. /\ S[R][k] \in Int /\ WordsOf(S, R, k) \in {10, 15} /\ S[R][k] + WordsOf(S, R, k) <= EndOf(S, R, k)
    BY <1>0, <1>1, <2>2, PlaceOf
  <2>6. ASSUME NEW x \in Int, NEW y \in Int, NEW w \in {10, 15}, x + w <= y
        PROVE  y - 1 \in Int /\ x <= y - 1 /\ y - 1 < y
    BY <2>6
  <2>7. f - 1 \in Int /\ S[R][k] <= f - 1 /\ f - 1 < EndOf(S, R, k)
    BY <1>2, <2>3, <2>5, <2>6
  <2>8. f - 1 \in MemoryWords
    BY <1>0, <1>1, <2>2, <2>7, InExtent
  <2> QED BY <1>2, <2>3, <2>4, <2>8
<1> QED BY <1>3, <1>4

\* What a long jump writes.
LEMMA JumpWritten ==
  ASSUME NEW S, Stacked(S), Held(mem, S), NEW g \in Callables, CallBase(g, "discard") >= Bottom,
         NEW f, ~Inner(S, f - 1), f - 1 \in MemoryWords, NEW v,
         mem' = [Called(g, "discard") EXCEPT ![f - 1] = v], Keeps(S, mem')
  PROVE  Steady(S) /\ Undisturbed(S) /\ mem'[f - 1] = v /\ mem'[sp + VarCell(2)] = mem[sp + VarCell(2)]
<1> DEFINE m == Called(g, "discard")
<1>1. "discard" \in Sites
  BY DEF Sites
<1>2. /\ Calm(S, m) /\ DOMAIN m = MemoryWords
      /\ \A at \in Sites : m[sp + SiteCell(at)] \in {mem[sp + SiteCell(at)], sp - 1}
      /\ m[sp + VarCell(2)] = mem[sp + VarCell(2)]
  BY <1>1, CalledOwn, CalledCalm
<1>3. mem' = [m EXCEPT ![f - 1] = v]
  OBVIOUS
<1> HIDE DEF m
<1>4. Calm(S, mem') /\ mem'[f - 1] = v
  BY <1>2, <1>3, WriteCalm
<1>5. ASSUME NEW k \in 8..12 PROVE mem'[sp + k] = m[sp + k]
  <2>1. /\ Len(S) \in 1..Len(S) /\ Len(S[Len(S)]) \in 1..Len(S[Len(S)]) /\ Placed(S)
        /\ sp = S[Len(S)][Len(S[Len(S)])] /\ ~IsHostFrame(S, Len(S), Len(S[Len(S)]))
    <3>1. Len(S) \in Nat /\ Len(S) >= 1
      BY Current, Layout
    <3> QED BY <3>1, Current, StackNow DEF Stacked
  <2>2. k \in InnerAt(S, Len(S), Len(S[Len(S)]))
    BY <2>1 DEF InnerAt
  <2>3. Inner(S, sp + k) /\ sp + k \in MemoryWords
    BY <2>1, <2>2, InnerInMemory
  <2>4. sp + k # f - 1
    BY <2>3
  <2> QED BY <1>2, <1>3, <2>3, <2>4
<1>6. VarCell(2) \in 8..12 /\ \A at \in Sites : SiteCell(at) \in 8..12
  BY Places
<1>7. \A at \in Sites : mem'[sp + SiteCell(at)] \in {mem[sp + SiteCell(at)], sp - 1}
  BY <1>2, <1>5, <1>6
<1>8. mem'[sp + VarCell(2)] = mem[sp + VarCell(2)]
  BY <1>2, <1>5, <1>6
<1> QED BY <1>4, <1>7, <1>8 DEF Steady, Undisturbed

\* After a jump from activation e, with U below it, to the one at depth d, which
\* is given v; those that go are of guest code.
Landed(U, e, v) ==
  \E d \in Nat : \E c : /\ d >= 1 /\ d <= Len(U) + 1
                        /\ IF d = Len(U) + 1 THEN c = e ELSE c = U[d]
                        /\ \A j \in (d + 1)..Len(U) : U[j].fn # Host
                        /\ ActivationStack' = Append(SubSeq(U, 1, d - 1), Given(c, "setjmp", v))

\* The activation that is jumped to, and those that go.
LEMMA JumpTarget ==
  ASSUME NEW S, Stacked(S), Held(mem, S), Undisturbed(S), NEW n, n = Len(S[Len(S)]), NEW i \in 1..n, NEW T,
         CutTo(S, Len(S), i, T), Stacked(T)', NEW f, f = S[Len(S)][i], sp' = f,
         pc.at = "body", pc'.at = "setjmp", Awaits(mem', f, "setjmp"), NEW v, mem'[f - 1] = v,
         mem'[sp + VarCell(2)] = mem[sp + VarCell(2)]
  PROVE  Landed(Under(mem, S), RunningActivation, v)
<1>0. PICK R, U, D : R = Len(S) /\ U = Under(mem, S) /\ D = Len(Flat(HostRows(mem, S), Len(S) - 1))
  OBVIOUS
<1>1. /\ D \in Nat /\ n \in Nat /\ Len(U) = D + n - 1
      /\ Under(mem', T) = SubSeq(U, 1, D + i - 1)
      /\ \A j \in 1..(n - 1) : U[D + j] = ActivationIn(mem, S[R][j], S[R][j + 1])
  BY <1>0, UnderJump
<1>2. /\ R \in Nat /\ R \in 1..Len(S) /\ sp = S[R][n] /\ Placed(S)
      /\ \A j \in 1..n : ~IsHostFrame(S, R, j) /\ mem[S[R][j] + ENTRY].fn \in Functions
  <2>1. Len(S) \in Nat /\ Len(S) >= 1 /\ sp = S[Len(S)][Len(S[Len(S)])]
    BY Current, Layout
  <2>2. \A j : ~IsHostFrame(S, R, j)
    BY <1>0, <2>1 DEF IsHostFrame
  <2> QED BY <1>0, <2>1, <2>2 DEF Held, HeldAt, Stacked
<1>3. ActivationStack' = Append(SubSeq(U, 1, D + i - 1), RunningActivation')
  BY <1>1, StackFoundNext
<1>4. ASSUME NEW j \in (D + i + 1)..Len(U) PROVE U[j].fn # Host
  <2>1. PICK k \in 1..(n - 1) : j = D + k
    <3>1. ASSUME NEW x \in Nat, NEW y \in Nat, NEW l \in Nat, NEW z \in 1..y, NEW u \in (x + z + 1)..l, l = x + y - 1
          PROVE  u - x \in 1..(y - 1) /\ u = x + (u - x) /\ l \in Int
      BY <3>1
    <3>2. Len(U) \in Nat
      BY <1>1
    <3>3. j - D \in 1..(n - 1) /\ j = D + (j - D)
      BY <1>1, <3>1, <3>2
    <3> QED BY <3>3
  <2>2. U[j] = ActivationIn(mem, S[R][k], S[R][k + 1])
    BY <1>1, <2>1
  <2>3. k \in 1..n
    BY <1>1, <2>1
  <2>4. U[j].fn \in Functions
    BY <1>2, <2>2, <2>3 DEF ActivationIn
  <2> QED BY <2>4, MachineAssumption
<1>5. PICK d \in Nat : d = D + i
  BY <1>1
<1>6. d >= 1 /\ d <= Len(U) + 1 /\ d - 1 = D + i - 1 /\ (d = Len(U) + 1 <=> i = n)
  BY <1>1, <1>5
<1>7. Wants["setjmp"] = 1 /\ "setjmp" \in Sites
  BY DEF Wants, Sites
<1>8. CASE i = n
  <2>1. RunningActivation' = GuestActivation(mem', f, v)
    <3>1. FirstVar' = v
      BY <1>7, NextFirst
    <3>2. RunningActivation' = GuestActivation(mem', sp', FirstVar')
      BY RunningIs
    <3> QED BY <3>1, <3>2
  <2>2. f = sp
    BY <1>0, <1>2, <1>8
  <2>3. GuestActivation(mem', sp, v) = GuestActivation(mem, sp, v)
    BY TopKept
  <2>4. Given(RunningActivation, "setjmp", v) = GuestActivation(mem, sp, v)
    <3>1. PICK z : z = IF Wants["setjmp"] = 1 THEN v ELSE Var(1)
      OBVIOUS
    <3>2. Given(GuestActivation(mem, sp, Var(1)), "setjmp", v) = GuestActivation(mem, sp, z)
      BY <3>1, AnsweredIs
    <3>3. z = v
      BY <1>7, <3>1
    <3> QED BY <3>2, <3>3, AtBody
  <2>5. RunningActivation' = Given(RunningActivation, "setjmp", v)
    BY <2>1, <2>2, <2>3, <2>4
  <2>6. ActivationStack' = Append(SubSeq(U, 1, d - 1), Given(RunningActivation, "setjmp", v))
    BY <1>3, <1>6, <2>5
  <2>7. \A j \in (d + 1)..Len(U) : U[j].fn # Host
    BY <1>4, <1>5
  <2> QED BY <1>0, <1>6, <1>8, <2>6, <2>7 DEF Landed
<1>9. CASE i # n
  <2>1. PICK c : c = ActivationIn(mem, f, S[R][i + 1])
    OBVIOUS
  <2>2. i \in 1..(n - 1)
    BY <1>1, <1>9
  <2>3. U[d] = c
    BY <1>0, <1>1, <1>5, <2>1, <2>2
  <2>4. RunningActivation' = Given(c, "setjmp", v)
    <3>1. R \in 1..Len(S) /\ i \in 1..Len(S[R]) /\ ~IsHostFrame(S, R, i) /\ i # Len(S[R]) /\ f = S[R][i]
      BY <1>0, <1>2, <1>9
    <3>2. \A y : RunningActivation' = Given(ActivationIn(mem, f, y), "setjmp", v)
      BY <1>7, <3>1, ResumedAt
    <3> QED BY <2>1, <3>2
  <2>5. ActivationStack' = Append(SubSeq(U, 1, d - 1), Given(c, "setjmp", v))
    BY <1>3, <1>6, <2>4
  <2>6. \A j \in (d + 1)..Len(U) : U[j].fn # Host
    BY <1>4, <1>5
  <2> QED BY <1>0, <1>6, <1>9, <2>3, <2>5, <2>6 DEF Landed
<1> QED BY <1>8, <1>9

\* longjmp.
LEMMA LongjmpImplements ==
  ASSUME NEW S, Detailed(S), NEW g \in Services, NEW env \in JmpBufs, NEW v \in Values, Longjmp(g, env, v)
  PROVE  Implements
<1>0. PICK R, n, w : R = Len(S) /\ n = Len(S[R]) /\ w = IF v = 0 THEN 1 ELSE v
  OBVIOUS
<1>1. Stacked(S) /\ Held(mem, S) /\ Remembered /\ Placed(S)
  BY DEF Detailed, Stacked
<1>2. /\ g \in Callables /\ CallBase(g, "discard") >= Bottom /\ pc.at = "body" /\ jmps[env] # NoJmp
  BY DEF Longjmp, MayCall, InBody, MayJump, Callables
<1>3. /\ Keeps(S, mem')
      /\ mem' = [Called(g, "discard") EXCEPT ![sp' - 1] = w]
      /\ sp' = jmps[env].sp /\ pc' = jmps[env].pc /\ ~halted' /\ host' = host
  BY <1>0, <1>1, LongjmpKeeps
<1>4. PICK T, i : /\ Stacked(T)' /\ i \in 1..Len(S[Len(S)]) /\ CutTo(S, Len(S), i, T)
                  /\ jmps[env].sp = S[Len(S)][i] /\ jmps[env].result = S[Len(S)][i] - 1
                  /\ S[Len(S)][i] > Bottom
  BY <1>1, LongjmpKeeps
<1>5. PICK f : f = S[Len(S)][i]
  OBVIOUS
<1>6. sp' = f /\ pc'.at = "setjmp" /\ Awaits(mem, f, "setjmp") /\ "setjmp" \in Sites
  BY <1>1, <1>2, <1>3, <1>4, <1>5 DEF Remembered, Sites
<1>7. /\ Len(S) \in 1..Len(S) /\ i \in 1..n /\ ~IsHostFrame(S, Len(S), i) /\ f \in Int /\ f - 1 >= Bottom
  <2>1. Len(S) \in Nat /\ Len(S) \in 1..Len(S) /\ Bottom \in Int
    <3>1. Len(S) \in Nat /\ Len(S) >= 1
      BY <1>1, Current, Layout
    <3> QED BY <1>1, <3>1, Current
  <2>2. f \in Int /\ f > Bottom
    BY <1>1, <1>4, <1>5, <2>1, PlaceOf
  <2>3. f - 1 >= Bottom
    BY <2>1, <2>2
  <2> QED BY <1>0, <1>4, <2>1, <2>2, <2>3 DEF IsHostFrame
<1>8. ~Inner(S, f - 1) /\ f - 1 \in MemoryWords
  BY <1>1, <1>4, <1>5, <1>7, BelowFrame
<1>9. Steady(S) /\ Undisturbed(S) /\ mem'[f - 1] = w /\ mem'[sp + VarCell(2)] = mem[sp + VarCell(2)]
  <2>1. mem' = [Called(g, "discard") EXCEPT ![f - 1] = w]
    BY <1>3, <1>6
  <2> QED BY <1>1, <1>2, <1>3, <1>8, <2>1, JumpWritten
<1>10. Awaits(mem', f, "setjmp")
  <2>1. Awaits(mem, S[Len(S)][i], "setjmp")
    BY <1>5, <1>6
  <2>2. Awaits(mem', S[Len(S)][i], "setjmp")
    BY <1>1, <1>4, <1>7, <1>9, <2>1, AwaitsKept
  <2> QED BY <1>5, <2>2
<1>11. Running(T)'
  <2>1. Awaits(mem', sp', pc'.at)
    BY <1>6, <1>10
  <2> QED BY <1>3, <1>6, <2>1, Places DEF Running, Awaits
<1>12. Detailed(T)'
  <2>1. \A e \in JmpBufs : jmps'[e] # NoJmp => jmps'[e] = jmps[e]
    BY DEF Longjmp, Forget
  <2>2. \A r \in 1..Len(host') : r \in 1..Len(host) /\ host'[r] = host[r]
    BY <1>3
  <2>3. ~(Len(S) < Len(S))
    <3>1. Len(S) \in Nat
      BY <1>1, Current, Layout
    <3> QED BY <3>1
  <2> QED BY <1>4, <1>7, <1>9, <1>11, <2>1, <2>2, <2>3, DetailedCut
<1>13. PICK U, e : U = Under(mem, S) /\ e = RunningActivation
  OBVIOUS
<1>14. PICK d \in Nat : \E x :
         /\ d >= 1 /\ d <= Len(U) + 1
         /\ IF d = Len(U) + 1 THEN x = e ELSE x = U[d]
         /\ \A j \in (d + 1)..Len(U) : U[j].fn # Host
         /\ ActivationStack' = Append(SubSeq(U, 1, d - 1), Given(x, "setjmp", w))
  <2>1. n = Len(S[Len(S)]) /\ i \in 1..n /\ f = S[Len(S)][i]
    BY <1>0, <1>5, <1>7
  <2>2. pc.at = "body" /\ pc'.at = "setjmp" /\ sp' = f /\ mem'[f - 1] = w
    BY <1>2, <1>6, <1>9
  <2>3. Landed(Under(mem, S), RunningActivation, w)
    BY <1>1, <1>4, <1>9, <1>10, <2>1, <2>2, JumpTarget
  <2> QED BY <1>13, <2>3 DEF Landed
<1>15. PICK x :
         /\ d >= 1 /\ d <= Len(U) + 1
         /\ IF d = Len(U) + 1 THEN x = e ELSE x = U[d]
         /\ \A j \in (d + 1)..Len(U) : U[j].fn # Host
         /\ ActivationStack' = Append(SubSeq(U, 1, d - 1), Given(x, "setjmp", w))
  BY <1>14
<1>16. PICK A : U \in Seq(A) /\ e \in A /\ ActivationStack = Append(U, e)
  BY <1>1, <1>13, StackNow
<1>17. Activation!IsRunning(e)
  BY <1>1, <1>13, StackNow
<1>18. d \in 1..(Len(U) + 1)
  BY <1>15, <1>16
<1>19. ActivationStack' = Append(SubSeq(U, 1, d - 1),
                                Activation!Resumed([x EXCEPT !.site = "setjmp"], IF v = 0 THEN 1 ELSE v))
  BY <1>0, <1>15 DEF Given
<1>20. Activation!Longjmp(d, v) /\ d \in 1..Len(ActivationStack)
  BY <1>15, <1>16, <1>17, <1>18, <1>19, LongjmpStep
<1>21. Activation!ANext
  BY <1>20 DEF Activation!ANext
<1> QED BY <1>12, <1>21 DEF Implements, ActivationsInv

-----------------------------------------------------------------------------
(***************************************************************************)
(* The machine implements the stack of activations.                        *)
(***************************************************************************)
\* run_function starts the main function's activation.
LEMMA InitDetailed == ASSUME Init PROVE ActivationsInv /\ Activation!AInit
<1>1. PICK S : Stacked(S) /\ Len(S) = 1 /\ Len(S[1]) = 1
  BY InitStacked
<1>2. /\ mem[sp + ENTRY] = Code(Main, "entry") /\ pc.at = "entry" /\ halted = FALSE /\ host = <<>>
      /\ jmps = [env \in JmpBufs |-> NoJmp]
  BY InitStacked DEF Init, Code
<1>3. sp = S[1][1]
  <2>1. sp = S[Len(S)][Len(S[Len(S)])]
    BY <1>1, Current
  <2> QED BY <1>1, <2>1
<1>4. Held(mem, S)
  <2>1. ASSUME NEW r \in 1..Len(S), NEW i \in 1..Len(S[r]) PROVE r = 1 /\ i = 1 /\ ~(i < Len(S[r]))
    <3>1. r = 1
      BY <1>1
    <3>2. i \in 1..1 /\ Len(S[r]) = 1
      BY <1>1, <3>1
    <3> QED BY <3>1, <3>2
  <2>2. ~IsHostFrame(S, 1, 1)
    BY <1>1 DEF IsHostFrame
  <2>3. mem[S[1][1] + ENTRY].fn \in Functions
    BY <1>2, <1>3, MachineAssumption DEF Code
  <2>4. HeldAt(mem, S, 1, 1)
    <3>1. ~(1 < Len(S[1]))
      BY <1>1
    <3> QED BY <2>2, <2>3, <3>1 DEF HeldAt
  <2> QED BY <2>1, <2>4 DEF Held
<1>5. Running(S)
  BY <1>2, Places DEF Running
<1>6. Remembered
  BY <1>2 DEF Remembered
<1>7. Detailed(S)
  BY <1>1, <1>4, <1>5, <1>6 DEF Detailed
<1>8. Len(ActivationStack) = 1 /\ ActivationStack[1] = RunningActivation /\ Activation!IsRunning(RunningActivation)
  BY <1>1, <1>4, OneActivation
<1> QED BY <1>7, <1>8 DEF ActivationsInv, Activation!AInit

\* Nothing happens.
LEMMA StutterImplements == ASSUME NEW S, Detailed(S), UNCHANGED vars PROVE Implements
<1>1. Stacked(S) /\ Running(S) /\ UNCHANGED <<mem, sp, pc, halted, host, jmps, work>>
  BY DEF Detailed, vars
<1>2. Steady(S)
  <2>1. Keeps(S, mem') /\ Calm(S, mem')
    BY <1>1, NothingWritten, NothingCalm
  <2> QED BY <1>1, <2>1 DEF Steady, Undisturbed
<1>3. Stacked(S)'
  <2>1. Keeps(S, mem')
    BY <1>1, NothingWritten
  <2>2. work' \in Nat /\ work <= work' /\ work' <= MaxWork
    BY <1>1, Layout DEF Stacked, Counted
  <2> QED BY <1>1, <2>1, <2>2, SameFrames, SameJumps
<1>4. Running(S)'
  BY <1>1 DEF Running, Awaits, Var
<1>5. Detailed(S)'
  BY <1>1, <1>2, <1>3, <1>4, DetailedKept
<1>6. RunningActivation' = RunningActivation
  BY <1>1 DEF RunningActivation
<1>7. ActivationStack' = ActivationStack
  <2>1. ActivationStack' = Append(Under(mem, S), RunningActivation')
    BY <1>1, <1>2, <1>3, StackKept DEF Steady
  <2>2. ActivationStack = Append(Under(mem, S), RunningActivation)
    BY <1>1, StackFound DEF StackIs
  <2> QED BY <1>6, <2>1, <2>2
<1> QED BY <1>5, <1>7 DEF Implements, ActivationsInv

\* Every step of a machine that is not finished.
LEMMA DetailedStep == ASSUME NEW S, Detailed(S), [Next]_vars PROVE Implements
<1>1. CASE UNCHANGED vars
  BY <1>1, StutterImplements
<1>2. CASE Enter
  BY <1>2, EnterImplements
<1>3. CASE Resume
  BY <1>3, ResumeImplements
<1>4. CASE FinishNested
  BY <1>4, FinishImplements
<1>5. ASSUME NEW i \in 1..2, Return(i) PROVE Implements
  <2>1. Len(S[Len(S)]) = 1 \/ Len(S[Len(S)]) > 1
    <3>1. Len(S[Len(S)]) \in Nat \ {0}
      BY Current DEF Detailed
    <3>2. ASSUME NEW x \in Nat \ {0} PROVE x = 1 \/ x > 1
      BY <3>2
    <3> QED BY <3>1, <3>2
  <2>2. CASE Len(S[Len(S)]) = 1 /\ Len(S) = 1
    BY <1>5, <2>2, LastReturn
  <2>3. CASE Len(S[Len(S)]) = 1 /\ Len(S) # 1
    BY <1>5, <2>3, NestedReturn
  <2>4. CASE Len(S[Len(S)]) > 1
    BY <1>5, <2>4, ReturnImplements
  <2> QED BY <2>1, <2>2, <2>3, <2>4
<1>6. ASSUME NEW i \in 1..2, NEW v \in Values, Assign(i, v) PROVE Implements
  BY <1>6, AssignImplements
<1>7. ASSUME NEW g \in Functions, NEW site \in {"value", "discard"}, Call(g, site) PROVE Implements
  BY <1>7, CallImplements
<1>8. ASSUME NEW g \in Functions, NEW site \in {"value", "discard"}, CallNested(g, site) PROVE Implements
  BY <1>8, CallNestedImplements
<1>9. ASSUME NEW g \in Functions \cup Services, NEW site \in {"value", "discard"}, NEW v \in Values,
             CallService(g, site, v)
      PROVE  Implements
  BY <1>9, ServiceImplements
<1>10. ASSUME NEW g \in Services, NEW env \in JmpBufs, Setjmp(g, env) PROVE Implements
  BY <1>10, SetjmpImplements
<1>11. ASSUME NEW g \in Services, NEW env \in JmpBufs, NEW v \in Values, Longjmp(g, env, v)
       PROVE  Implements
  BY <1>11, LongjmpImplements
<1> QED BY <1>1, <1>2, <1>3, <1>4, <1>5, <1>6, <1>7, <1>8, <1>9, <1>10, <1>11 DEF Next

\* A finished machine has no activations left, and no more happens.
LEMMA FinishedImplements == ASSUME Finished, [Next]_vars PROVE Implements
<1>1. Finished'
  BY FinishedStep
<1>2. ActivationStack = <<>> /\ ActivationStack' = <<>>
  BY <1>1 DEF ActivationStack
<1> QED BY <1>1, <1>2 DEF Implements, ActivationsInv

\* Calls, returns, host services, nested runs and long jumps, carried out by
\* moves on one memory, are those of a stack of activations.
THEOREM RefinesActivations == Spec => ImplementsActivations
<1>1. Init => ActivationsInv /\ Activation!AInit
  BY InitDetailed
<1>2. ActivationsInv /\ [Next]_vars => ActivationsInv' /\ [Activation!ANext]_ActivationStack
  BY DetailedStep, FinishedImplements DEF ActivationsInv, Implements
<1> QED BY <1>1, <1>2, PTL DEF Spec, ImplementsActivations, Activation!ASpec
=============================================================================
