------------------------------ MODULE Fnmatch ------------------------------
(***************************************************************************)
(* fnmatch of the runtime library: a backtracking matcher over the bytes   *)
(* of a pattern and a string, and what POSIX says a pattern matches.       *)
(*                                                                         *)
(* The matcher reads bytes; the reference does not parse.  A pattern is    *)
(* put together from pieces, each with its text and its meaning.           *)
(***************************************************************************)
EXTENDS Naturals, FiniteSetsExt, SequencesExt

Bang == 33
Star == 42
Dash == 45
Period == 46
Slash == 47
Query == 63
Open == 91
Escape == 92
Close == 93
Caret == 94

Fold(flags, c) == IF "casefold" \in flags /\ c \in 65..90 THEN c + 32 ELSE c
Escaping(flags) == "noescape" \notin flags

\* A period that only a period in the pattern may match.
ProtectedAnywhere(flags, s, i) == "period" \in flags /\ i <= Len(s) /\ s[i] = Period \* mutant
Protected(flags, s, i) ==
  /\ "period" \in flags /\ i <= Len(s) /\ s[i] = Period
  /\ i = 1 \/ ("pathname" \in flags /\ s[i - 1] = Slash)

\* The characters that the special characters * ? [ never match.
Barred(flags, s, i) == "pathname" \in flags /\ s[i] = Slash

-----------------------------------------------------------------------------
(* The matcher.                                                            *)

Is(p, j, cs) == j <= Len(p) /\ p[j] \in cs

\* The end of the bracket expression that opens at i, or 0.
BracketClose(flags, p, i) ==
  LET negated == IF Is(p, i + 1, {Bang, Caret}) THEN i + 2 ELSE i + 1
      first == IF Is(p, negated, {Close}) THEN negated + 1 ELSE negated
      close[j \in Nat] ==
        CASE j > Len(p) -> 0
          [] p[j] = Close -> j
          [] OTHER -> close[IF p[j] = Escape /\ Escaping(flags) /\ j < Len(p)
                            THEN j + 2 ELSE j + 1]
  IN close[first]

\* A character of a bracket expression, possibly escaped: its place and the
\* place after it.
Item(flags, p, j, close) ==
  IF p[j] = Escape /\ Escaping(flags) /\ j + 1 < close
  THEN <<j + 1, j + 2>> ELSE <<j, j + 1>>

BracketMatches(flags, p, i, c, close) ==
  LET negate == i + 1 < close /\ p[i + 1] \in {Bang, Caret}
      begin == IF negate THEN i + 2 ELSE i + 1
      value == Fold(flags, c)
      matched[j \in Nat] ==
        /\ j < close
        /\ LET start == IF j = begin /\ p[j] = Close THEN <<j, j + 1>>
                        ELSE Item(flags, p, j, close)
               next == start[2]
               lo == Fold(flags, p[start[1]])
           IN IF next + 1 < close /\ p[next] = Dash /\ p[next + 1] # Close
              THEN LET end == Item(flags, p, next + 1, close)
                       hi == Fold(flags, p[end[1]])
                   IN value \in (lo..hi) \cup (hi..lo) \/ matched[end[2]]
              ELSE lo = value \/ matched[next]
  IN matched[begin] # negate

Matcher(flags, p, s) ==
  LET match[i \in Nat, j \in Nat] ==
        LET rest == CHOOSE k \in i..(Len(p) + 1) :      \* the stars at i skipped
                      /\ \A m \in i..(k - 1) : p[m] = Star
                      /\ ~Is(p, k, {Star})
            barrier == Min({k \in j..Len(s) : Barred(flags, s, k)} \cup {Len(s) + 1})
            special == j <= Len(s) /\ ~Barred(flags, s, j) /\ ~Protected(flags, s, j)
            close == IF p[i] = Open THEN BracketClose(flags, p, i) ELSE 0
            at == IF p[i] = Escape /\ Escaping(flags) /\ i < Len(p) THEN i + 1 ELSE i
        IN CASE i > Len(p) ->
                  j > Len(s) \/ ("leading_dir" \in flags /\ s[j] = Slash)
             [] i <= Len(p) /\ p[i] = Star ->
                  \/ match[rest, j]
                  \/ /\ ~Protected(flags, s, j)
                     /\ \E k \in (j + 1)..barrier : match[rest, k]
             [] i <= Len(p) /\ p[i] = Query -> special /\ match[i + 1, j + 1]
             [] i <= Len(p) /\ p[i] = Open /\ close > 0 ->
                  special /\ BracketMatches(flags, p, i, s[j], close) /\ match[close + 1, j + 1]
             [] OTHER ->
                  /\ j <= Len(s) /\ Fold(flags, p[at]) = Fold(flags, s[j])
                  /\ match[at + 1, j + 1]
  IN match[1, 1]

-----------------------------------------------------------------------------
(* The reference.  A piece means a sequence of atoms: a star, a literal    *)
(* character, or a set of characters that is listed or excluded.           *)

AnyText == [kind |-> "star", chars |-> {}]
Literal(c) == [kind |-> "literal", chars |-> {c}]
OneOf(cs) == [kind |-> "in", chars |-> cs]
NoneOf(cs) == [kind |-> "notin", chars |-> cs]

\* The places where a name starts, and the characters that only themselves match.
Starts(flags, s) ==
  {1} \cup {i + 1 : i \in {j \in DOMAIN s : "pathname" \in flags /\ s[j] = Slash}}
Leading(flags, s, i) == "period" \in flags /\ s[i] = Period /\ i \in Starts(flags, s)
Reserved(flags, s, i) == Leading(flags, s, i) \/ ("pathname" \in flags /\ s[i] = Slash)

\* One character of the string, at i, is matched by an atom.
Accepts(flags, atom, s, i) ==
  LET listed == \E c \in atom.chars : Fold(flags, c) = Fold(flags, s[i])
  IN CASE atom.kind = "literal" -> listed
       [] atom.kind = "in" -> listed /\ ~Reserved(flags, s, i)
       [] atom.kind = "notin" -> ~listed /\ ~Reserved(flags, s, i)

\* A star takes any characters from i to j but slashes and a leading period.
Covers(flags, s, i, j) ==
  /\ \A k \in i..j : "pathname" \in flags => s[k] # Slash
  /\ i <= j => ~Leading(flags, s, i)

\* The string, or with leading_dir a part of it that ends before a slash, can
\* be cut into one part for each atom.
Posix(flags, atoms, s) ==
  \E cut \in [0..Len(atoms) -> 0..Len(s)] :
    /\ cut[0] = 0
    /\ \/ cut[Len(atoms)] = Len(s)
       \/ "leading_dir" \in flags /\ s[cut[Len(atoms)] + 1] = Slash
    /\ \A a \in 1..Len(atoms) :
         IF atoms[a].kind = "star"
         THEN cut[a - 1] <= cut[a] /\ Covers(flags, s, cut[a - 1] + 1, cut[a])
         ELSE cut[a] = cut[a - 1] + 1 /\ Accepts(flags, atoms[a], s, cut[a])
=============================================================================
