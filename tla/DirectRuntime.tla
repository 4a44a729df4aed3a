---------------------------- MODULE DirectRuntime ----------------------------
(***************************************************************************)
(* The string and memory routines that the runtime library serves on the   *)
(* host (direct_runtime_callback), for either engine: Python loops over    *)
(* bytes, or the bulk operations of the compiled engine, which work page   *)
(* by page.  A behaviour is one call on a small memory, or for strtok_r    *)
(* the calls of one tokenisation.                                          *)
(***************************************************************************)
EXTENDS Fnmatch, Strto, Integers

CONSTANTS Top,        \* addresses are 1..Top; the last byte is NUL
          Bytes, PageSize,
          Routines,    \* the routines that are called on a memory
          Patterns,    \* fnmatch: records of a text and of its atoms by flags
          Subjects, FlagSets,
          Texts, Bases

ASSUME MemoryAssumption == /\ {Top, PageSize} \subseteq Nat \ {0}
                           /\ Bytes \subseteq 0..255 /\ 0 \in Bytes

VARIABLES
  before,   \* the memory at the first call
  mem,      \* the memory
  engine,   \* "python" or "native"
  call,     \* the routine and its arguments
  tokens,   \* what strtok_r has returned so far
  save,     \* its *saveptr
  result    \* << >>, or what the call has returned

vars == <<before, mem, engine, call, tokens, save, result>>

Null == 0
Pending == << >>
Pointers == 1..Top

-----------------------------------------------------------------------------
(* Bulk operations of the compiled engine.                                 *)

Copied(m, dst, src, n) ==
  [a \in DOMAIN m |-> IF a \in dst..(dst + n - 1) THEN m[a - dst + src] ELSE m[a]]

\* The chunks of n bytes in the order in which they are copied: <<start, size>>.
Chunks(n, backwards) ==
  LET count == (n + PageSize - 1) \div PageSize
      forward == [i \in 1..count |-> <<(i - 1) * PageSize, Min({PageSize, n - (i - 1) * PageSize})>>]
      back == [i \in 1..count |-> <<Max({0, n - i * PageSize}), Min({PageSize, n - (i - 1) * PageSize})>>]
  IN IF backwards THEN back ELSE forward

OverlapsUp(dst, src, n) == FALSE \* mutant
Overlaps(dst, src, n) == dst > src /\ dst - src < n

\* Chunk by chunk; a chunk is read before it is written.
InChunks(m, dst, src, chunks) ==
  LET q[i \in 0..Len(chunks)] ==
        IF i = 0 THEN m
        ELSE Copied(q[i - 1], dst + chunks[i][1], src + chunks[i][1], chunks[i][2])
  IN q[Len(chunks)]

CopyBytes(m, dst, src, n, move) ==
  InChunks(m, dst, src, Chunks(n, move /\ Overlaps(dst, src, n)))

\* Python copies forward byte by byte; memmove reads everything first.
Forward(m, dst, src, n) == InChunks(m, dst, src, [i \in 1..n |-> <<i - 1, 1>>])

Memcpy(m, dst, src, n) ==
  IF engine = "native" THEN CopyBytes(m, dst, src, n, FALSE) ELSE Forward(m, dst, src, n)
Memmove(m, dst, src, n) ==
  IF engine = "native" THEN CopyBytes(m, dst, src, n, TRUE) ELSE Copied(m, dst, src, n)
Memset(m, dst, byte, n) ==
  [a \in DOMAIN m |-> IF a \in dst..(dst + n - 1) THEN byte % 256 ELSE m[a]]

-----------------------------------------------------------------------------
(* Loops over strings.                                                     *)

NulAt(m, p) == Min({a \in p..Top : m[a] = 0})
Strlen(m, p) == NulAt(m, p) - p

\* A comparison returns the difference where it stops: at a difference, at a
\* NUL of both, or at the limit.
Lower(c) == IF c \in 65..90 THEN c + 32 ELSE c
CompareSame(m, a, b, limit, folded, strings) == \* mutant
  LET stops == {i \in 0..Min({limit - 1, Top - Max({a, b})}) :
                  m[a + i] # m[b + i] \/ (strings /\ m[a + i] = 0)}
      byte(p) == IF folded THEN Lower(m[p]) ELSE m[p]
  IN IF stops = {} THEN 0 ELSE byte(a + Min(stops)) - byte(b + Min(stops))
Compare(m, a, b, limit, folded, strings) ==
  LET byte(p) == IF folded THEN Lower(m[p]) ELSE m[p]
      stops == {i \in 0..Min({limit - 1, Top - Max({a, b})}) :
                  \/ byte(a + i) # byte(b + i)
                  \/ strings /\ 0 \in {m[a + i], m[b + i]}}
  IN IF stops = {} THEN 0 ELSE byte(a + Min(stops)) - byte(b + Min(stops))

Reached(m, p, cs) == Min({a \in p..Top : m[a] \in cs \cup {0}})

\* The terminating NUL can be searched for.
StrchrText(m, p, c) == LET a == Reached(m, p, {c}) IN IF m[a] = 0 THEN Null ELSE a \* mutant
Strchr(m, p, c) == LET a == Reached(m, p, {c}) IN IF m[a] = c THEN a ELSE Null

Strrchr(m, p, c) == Max({Null} \cup {a \in p..NulAt(m, p) : m[a] = c})
Memchr(m, p, c, n) ==
  LET hits == {a \in p..(p + n - 1) : m[a] = c} IN IF hits = {} THEN Null ELSE Min(hits)

Set(m, p) == {m[a] : a \in p..(NulAt(m, p) - 1)}
Strcspn(m, p, reject) == Reached(m, p, Set(m, reject)) - p
Strpbrk(m, p, accept) ==
  LET a == Reached(m, p, Set(m, accept)) IN IF m[a] = 0 THEN Null ELSE a

Strstr(m, hay, needle) ==
  LET n == Strlen(m, needle)
      found == {a \in hay..(NulAt(m, hay) - 1) :
                  \A j \in 0..(n - 1) : a + j <= Top /\ m[a + j] = m[needle + j]}
  IN IF n = 0 THEN hay ELSE IF found = {} THEN Null ELSE Min(found)

\* strcpy and stpcpy copy the NUL too; strncpy fills up with NULs.
StrcpyMemory(m, dst, src) == Forward(m, dst, src, Strlen(m, src) + 1)
StrncpyMemory(m, dst, src, n) ==
  LET used == Min({n, Strlen(m, src)})
  IN Memset(Forward(m, dst, src, used), dst + used, 0, n - used)

-----------------------------------------------------------------------------
(* Calls.                                                                  *)

Returns(value) == result' = <<value>> /\ UNCHANGED <<before, engine, call, tokens, save>>
Calls(name) == result = Pending /\ call.name = name

\* A routine that only reads.
Reads(name, value) == Calls(name) /\ Returns(value) /\ UNCHANGED mem
\* A routine that writes.
Writes(name, memory, value) == Calls(name) /\ mem' = memory /\ Returns(value)

CopyRoutine ==
  LET d == call.a s == call.b n == call.n IN
  \/ Writes("memcpy", Memcpy(mem, d, s, n), d)
  \/ Writes("memmove", Memmove(mem, d, s, n), d)
  \/ Writes("memset", Memset(mem, d, call.c, n), d)
  \/ Writes("strcpy", StrcpyMemory(mem, d, s), d)
  \/ Writes("stpcpy", StrcpyMemory(mem, d, s), d + Strlen(mem, s))
  \/ Writes("strncpy", StrncpyMemory(mem, d, s, n), d)

CompareRoutine ==
  LET a == call.a b == call.b n == call.n IN
  \/ Reads("memcmp", Compare(mem, a, b, n, FALSE, FALSE))
  \/ Reads("strcmp", Compare(mem, a, b, Top, FALSE, TRUE))
  \/ Reads("strncmp", Compare(mem, a, b, n, FALSE, TRUE))
  \/ Reads("strcasecmp", Compare(mem, a, b, Top, TRUE, TRUE))
  \/ Reads("strncasecmp", Compare(mem, a, b, n, TRUE, TRUE))

SearchRoutine ==
  LET a == call.a b == call.b IN
  \/ Reads("strlen", Strlen(mem, a))
  \/ Reads("strchr", Strchr(mem, a, call.c))
  \/ Reads("strchrnul", Reached(mem, a, {call.c}))
  \/ Reads("strrchr", Strrchr(mem, a, call.c))
  \/ Reads("memchr", Memchr(mem, a, call.c, call.n))
  \/ Reads("strcspn", Strcspn(mem, a, b))
  \/ Reads("strpbrk", Strpbrk(mem, a, b))
  \/ Reads("strstr", Strstr(mem, a, b))

FnmatchRoutine ==
  Reads("fnmatch", IF Matcher(call.flags, call.pattern.text, call.subject) THEN 0 ELSE 1)

\* The end pointer is written unless it is null; the result counts what it passes.
StrtoRoutine ==
  /\ Calls("strto") /\ UNCHANGED mem
  /\ Returns(Strto(call.text, call.base, call.c23, call.signed))

\* strtok_r writes a NUL over the delimiter after the token and remembers what
\* follows it.  The caller calls again with a null pointer until there is no
\* token.
AfterTokenSame(stop) == stop \* mutant
AfterToken(stop) == IF mem[stop] = 0 THEN stop ELSE stop + 1
StrtokR ==
  LET delims == Set(mem, call.b)
      ptr == IF tokens = << >> THEN call.a ELSE save
      token == Min({a \in ptr..Top : mem[a] \notin delims})
      stop == Reached(mem, token, delims)
  IN /\ Calls("strtok_r")
     /\ IF mem[token] = 0
        THEN /\ save' = token /\ result' = <<Null>>
             /\ UNCHANGED <<mem, tokens>>
        ELSE /\ mem' = [mem EXCEPT ![stop] = 0]
             /\ save' = AfterToken(stop)
             /\ tokens' = Append(tokens, token)
             /\ UNCHANGED result
     /\ UNCHANGED <<before, engine, call>>

-----------------------------------------------------------------------------
(* The calls a program may make: buffers lie in the memory, and do not     *)
(* overlap where C forbids it.                                             *)

Disjoint(a, b, n) == a + n <= b \/ b + n <= a
Fits(a, n) == a + n - 1 <= Top

Bounded == {"memcpy", "memmove", "memset", "memcmp", "memchr", "strncmp", "strncasecmp", "strncpy"}
ByChar == {"memset", "memchr", "strchr", "strchrnul", "strrchr"}

Searches == {"strlen", "strchr", "strchrnul", "strrchr", "memchr", "strcspn", "strpbrk", "strstr"}

Legal(m, c) ==
  CASE c.name = "memcpy" -> Fits(c.a, c.n) /\ Fits(c.b, c.n) /\ Disjoint(c.a, c.b, c.n)
    [] c.name \in {"memmove", "memcmp"} -> Fits(c.a, c.n) /\ Fits(c.b, c.n)
    [] c.name \in {"memset", "memchr"} -> Fits(c.a, c.n)
    [] c.name \in {"strcpy", "stpcpy"} ->
         LET n == Strlen(m, c.b) + 1 IN Fits(c.a, n) /\ Disjoint(c.a, c.b, n)
    [] c.name = "strncpy" ->
         LET n == Min({c.n, Strlen(m, c.b) + 1}) IN
         Fits(c.a, c.n) /\ (c.a + c.n <= c.b \/ c.b + n <= c.a)
    [] c.name = "strtok_r" -> NulAt(m, c.a) < c.b \/ NulAt(m, c.b) < c.a
    [] OTHER -> TRUE

Memories == {m \in [Pointers -> Bytes] : m[Top] = 0}
BufferCalls ==
  {c \in [name : Routines, a : Pointers, b : Pointers, n : 0..Top, c : Bytes] :
     /\ c.name \notin Bounded => c.n = 0
     /\ c.name \notin ByChar => c.c = 0
     /\ c.name \in ByChar \cup {"strlen"} => c.b = 1}
MatchCalls == [name : {"fnmatch"}, pattern : Patterns, subject : Subjects, flags : FlagSets]
NumberCalls ==
  [name : {"strto"}, text : Texts, base : Bases, c23 : BOOLEAN, signed : BOOLEAN]

Init ==
  /\ engine \in {"python", "native"}
  /\ \/ mem \in Memories /\ call \in BufferCalls /\ Legal(mem, call)
     \/ mem = [a \in Pointers |-> 0] /\ call \in MatchCalls \cup NumberCalls /\ engine = "python"
  /\ before = mem /\ tokens = << >> /\ save = Null /\ result = Pending

Next == CopyRoutine \/ CompareRoutine \/ SearchRoutine \/ FnmatchRoutine \/ StrtoRoutine
        \/ StrtokR

Spec == Init /\ [][Next]_vars

-----------------------------------------------------------------------------
(* Properties: what the C standard says of each routine.                   *)

Done(names) == result # Pending /\ call.name \in names
Text(m, p) == SubSeq([a \in 1..Top |-> m[a]], p, NulAt(m, p) - 1)

\* memcpy, memmove, memset, strcpy, stpcpy and strncpy change the bytes of the
\* destination, all of them and no others, to what the source held before the
\* call, whatever overlaps and however the engine cuts the copy into chunks.
CopiesAsC ==
  LET d == call.a s == call.b n == call.n
      text == IF Done({"strcpy", "stpcpy", "strncpy"}) THEN Append(Text(before, s), 0) ELSE << >>
      wanted(i) == CASE call.name \in {"memcpy", "memmove"} -> before[s + i]
                     [] call.name = "memset" -> call.c
                     [] OTHER -> IF i < Len(text) THEN text[i + 1] ELSE 0
      size == IF call.name \in {"strcpy", "stpcpy"} THEN Len(text) ELSE n
  IN Done({"memcpy", "memmove", "memset", "strcpy", "stpcpy", "strncpy"}) =>
       \A a \in Pointers :
         mem[a] = IF a \in d..(d + size - 1) THEN wanted(a - d) ELSE before[a]

\* The order of two byte sequences of which one may be cut at n.
Less(s, t) == \E k \in 0..Len(t) :
  /\ k <= Len(s) /\ \A i \in 1..k : s[i] = t[i]
  /\ k < Len(t) /\ (k = Len(s) \/ s[k + 1] < t[k + 1])
Cut(s, n) == SubSeq(s, 1, Min({n, Len(s)}))
Lowered(s) == [i \in DOMAIN s |-> Lower(s[i])]

\* A comparison has the sign of the order of the two strings, cut at its limit
\* and without case where it says so, and 0 means that they are equal.
ComparesAsC ==
  LET raw(p) == CASE call.name = "memcmp" -> [i \in 1..call.n |-> mem[p + i - 1]]
                  [] call.name \in {"strcmp", "strcasecmp"} -> Text(mem, p)
                  [] OTHER -> Cut(Text(mem, p), call.n)
      string(p) == IF call.name \in {"strcasecmp", "strncasecmp"} THEN Lowered(raw(p)) ELSE raw(p)
  IN Done({"memcmp", "strcmp", "strncmp", "strcasecmp", "strncasecmp"}) =>
       /\ result[1] < 0 <=> Less(string(call.a), string(call.b))
       /\ result[1] = 0 <=> string(call.a) = string(call.b)

\* A search finds the first place (strrchr the last) where what is looked for
\* starts, in the string with its NUL, and a null pointer means there is none;
\* strcspn is the length of the longest prefix without a rejected character.
SearchesAsC ==
  LET a == call.a b == call.b
      whole == Append(Text(mem, a), 0)
      places(test(_)) == {a + i - 1 : i \in {j \in DOMAIN whole : test(j)}}
      first(found) == IF found = {} THEN Null ELSE Min(found)
      chars == places(LAMBDA j : whole[j] = call.c)
      listed == places(LAMBDA j : whole[j] \in Range(Text(mem, b)))
      suffix(j) == SubSeq(whole, j, Len(whole))
  IN Done(Searches) =>
       result[1] = CASE call.name = "strlen" -> Len(Text(mem, a))
                  [] call.name = "strchr" -> first(chars)
                  [] call.name = "strchrnul" -> Min(chars \cup {a + Len(whole) - 1})
                  [] call.name = "strrchr" -> Max(chars \cup {Null})
                  [] call.name = "memchr" -> first({x \in a..(a + call.n - 1) : mem[x] = call.c})
                  [] call.name = "strcspn" -> Min(listed \cup {a + Len(whole) - 1}) - a
                  [] call.name = "strpbrk" -> first(listed)
                  [] call.name = "strstr" ->
                       first(places(LAMBDA j : IsPrefix(Text(mem, b), suffix(j))))

\* The tokens of a tokenisation are the longest runs of other characters
\* between delimiters in the string as it was before the first call, each ended
\* by a NUL now, all of them and in order.
TokensAsC ==
  LET text == Text(before, call.a)
      delims == Set(before, call.b)
      inside(i) == i \in DOMAIN text /\ text[i] \notin delims
      starts == {i \in DOMAIN text : inside(i) /\ ~inside(i - 1)}
      end(i) == Min({j \in i..(Len(text) + 1) : ~inside(j)})
  IN Done({"strtok_r"}) =>
       /\ tokens = SetToSortSeq({call.a + i - 1 : i \in starts}, <)
       /\ \A i \in starts : Text(mem, call.a + i - 1) = SubSeq(text, i, end(i) - 1)

\* strtol and its kin find the longest number at the start of the text in their
\* base, with the prefixes C23 adds if asked, and no more of the text; a number
\* out of range is the end of the range, with ERANGE.
NumbersAsC ==
  Done({"strto"}) =>
    result[1] = IF call.base = 0 \/ call.base \in 2..36
                THEN Subject(call.text, call.base, call.c23, call.signed)
                ELSE [value |-> 0, used |-> 0, errno |-> Einval]

\* fnmatch accepts what POSIX says, for all combinations of its flags.  A star
\* that matches nothing may stand before the period at the start of a name,
\* which POSIX leaves to the period alone.
MatchesAsPosix ==
  Done({"fnmatch"}) =>
    (result[1] = 0 <=> Posix(call.flags, call.pattern.atoms[call.flags], call.subject))
=============================================================================
