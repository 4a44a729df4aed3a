------------------------- MODULE UserImages_proofs -------------------------
(***************************************************************************)
(* Machine-checked theorems about UserImages, and with it about            *)
(* ProgramTables and NativeEngine: for all kernels and payloads, any       *)
(* number of tasks and all bounds.                                         *)
(*                                                                         *)
(* A program is sound when every symbol leads where it is meant to through *)
(* its descriptor; linking keeps it sound and only adds to it.  The        *)
(* invariant then says what the engine's copy, the live memory and a       *)
(* checkpoint share with the program at every moment.                      *)
(***************************************************************************)
EXTENDS UserImages, FiniteSetTheorems, WellFoundedInduction, TLAPS

-----------------------------------------------------------------------------
(* Tables.                                                                 *)

\* One entry set.
LEMMA PutFacts ==
  ASSUME NEW k, NEW v, NEW f
  PROVE  /\ DOMAIN Put(f, k, v) = DOMAIN f \cup {k}
         /\ Put(f, k, v)[k] = v
         /\ \A x \in DOMAIN f : x # k => Put(f, k, v)[x] = f[x]
BY DEF Put

\* A table laid over another.
LEMMA OverFacts ==
  ASSUME NEW f, NEW g
  PROVE  /\ DOMAIN Over(f, g) = DOMAIN f \cup DOMAIN g
         /\ \A x \in DOMAIN f : Over(f, g)[x] = f[x]
         /\ \A x \in DOMAIN g : x \notin DOMAIN f => Over(f, g)[x] = g[x]
BY DEF Over

Heads == {"kernel", "helper", "user", "again", "exec"} \cup Tasks \cup Payloads

Sym(s) == /\ s = <<s[1], s[2]>> /\ s[1] \in Seq(Heads) /\ s[1] # <<>>
          /\ s[1][1] \notin {"fast", "halt"}

\* Names of accelerated functions are told apart from symbols and from each other.
LEMMA FastNames ==
  ASSUME NEW s, Sym(s)
  PROVE  /\ FastName(s) # Halt
         /\ s # Halt
         /\ \A x : Sym(x) => FastName(s) # x /\ (FastName(s) = FastName(x) => s = x)
<1>1. FastName(s)[1][1] = "fast"
  <2>1. <<"fast">> \in Seq(Heads \cup {"fast"}) /\ s[1] \in Seq(Heads \cup {"fast"})
    BY DEF Sym
  <2>2. (<<"fast">> \o s[1])[1] = "fast"
    BY <2>1
  <2>3. FastName(s)[1] = <<"fast">> \o s[1]
    BY DEF FastName
  <2> QED BY <2>2, <2>3
<1>2. FastName(s) # Halt
  BY <1>1 DEF Halt
<1>3. s # Halt
  BY DEF Halt, Sym
<1>4. ASSUME NEW x, Sym(x) PROVE FastName(s) # x
  BY <1>1, <1>4 DEF Sym
<1>5. ASSUME NEW x, Sym(x), FastName(s) = FastName(x) PROVE s = x
  <2>1. <<"fast">> \o s[1] = <<"fast">> \o x[1] /\ s[2] = x[2]
    BY <1>5 DEF FastName
  <2>2. s[1] = x[1]
    <3>1. s[1] \in Seq(Heads \cup {"fast"}) /\ x[1] \in Seq(Heads \cup {"fast"})
      BY <1>5 DEF Sym
    <3>2. ASSUME NEW S, NEW w \in S, NEW u \in Seq(S), NEW v \in Seq(S), <<w>> \o u = <<w>> \o v
          PROVE  u = v
      <4>1. Len(<<w>> \o u) = 1 + Len(u) /\ Len(<<w>> \o v) = 1 + Len(v)
        OBVIOUS
      <4>2. Len(u) = Len(v) /\ Len(u) \in Nat
        BY <4>1, <3>2
      <4>3. ASSUME NEW i \in 1..Len(u) PROVE u[i] = v[i]
        <5>1. (<<w>> \o u)[i + 1] = u[i] /\ (<<w>> \o v)[i + 1] = v[i]
          BY <4>2
        <5> QED BY <5>1, <3>2
      <4> QED BY <4>2, <4>3
    <3>3. "fast" \in Heads \cup {"fast"}
      OBVIOUS
    <3> QED BY <2>1, <3>1, <3>2, <3>3, Zenon
  <2> QED BY <2>1, <2>2, <1>5 DEF Sym
<1> QED BY <1>2, <1>3, <1>4, <1>5

-----------------------------------------------------------------------------
(* Sound programs.                                                         *)
Fields == {"functions", "blocks", "hosts", "symbols", "initial", "nextCode", "nextData"}

Shaped(p) == DOMAIN p = Fields /\ p.nextCode \in Nat /\ p.nextData \in Nat

CodesApart(p) ==
  /\ \A c \in DOMAIN p.blocks : c \in Nat /\ c < p.nextCode /\ c \notin DOMAIN p.hosts
  /\ \A c \in DOMAIN p.hosts : c \in Nat /\ c < p.nextCode

DataApart(p) ==
  /\ p.nextData # 0
  /\ \A s \in DOMAIN p.symbols : Sym(s) /\ p.symbols[s] \in DOMAIN p.initial
  /\ \A a \in DOMAIN p.initial : a \in Nat \ {0} /\ a < p.nextData
  /\ \A s, x \in DOMAIN p.symbols : p.symbols[s] = p.symbols[x] => s = x

HostsNamed(p) ==
  \A c \in DOMAIN p.hosts :
    p.hosts[c] = Halt \/ \E x \in DOMAIN p.symbols : p.hosts[c] = x \/ p.hosts[c] = FastName(x)

FunctionsPlaced(p) ==
  /\ \A f \in DOMAIN p.functions : f \in DOMAIN p.symbols /\ \E c \in DOMAIN p.blocks : p.blocks[c] = f
  /\ \A c \in DOMAIN p.blocks : p.blocks[c] \in DOMAIN p.functions

(* A function or service, what a code address leads to, and what it should.*)
Serves(p, s) == \E c \in DOMAIN p.hosts : p.hosts[c] = s
Callable(p, s) == s \in DOMAIN p.functions \/ (s \in DOMAIN p.symbols /\ Serves(p, s))

Resolved(p, c) ==
  IF c \in DOMAIN p.hosts THEN <<"service", p.hosts[c]>>
  ELSE IF c \in DOMAIN p.blocks THEN <<"block", p.blocks[c]>> ELSE <<"error", c>>

CallsLead(p) == \A s : Callable(p, s) => Resolved(p, p.initial[p.symbols[s]]) = Meant(p, s)

HelpersServed(p) == \A s \in DOMAIN p.symbols : s[1] = <<"helper">> => Callable(p, s)

Sound(p) == /\ Shaped(p) /\ CodesApart(p) /\ DataApart(p) /\ HostsNamed(p) /\ FunctionsPlaced(p)
            /\ CallsLead(p) /\ HelpersServed(p)

(* Growth.                                                                 *)
Extends(f, g) == DOMAIN f \subseteq DOMAIN g /\ \A x \in DOMAIN f : g[x] = f[x]

Grows(p, q) ==
  /\ Extends(p.functions, q.functions) /\ Extends(p.blocks, q.blocks) /\ Extends(p.hosts, q.hosts)
  /\ Extends(p.symbols, q.symbols) /\ Extends(p.initial, q.initial)
  /\ p.nextData <= q.nextData
  /\ \A s \in DOMAIN q.symbols : s \notin DOMAIN p.symbols => p.nextData <= q.symbols[s]
  /\ \A f \in DOMAIN q.functions : f \in DOMAIN p.symbols => f \in DOMAIN p.functions
  /\ \A s \in DOMAIN p.symbols : Callable(q, s) = Callable(p, s) /\ Meant(q, s) = Meant(p, s)

\* A program grows by nothing.
LEMMA GrowsNot == ASSUME NEW p, Sound(p) PROVE Grows(p, p)
BY DEF Grows, Extends, Sound, Shaped

\* Growth goes on.
LEMMA GrowsOn ==
  ASSUME NEW p, Sound(p), NEW q, Sound(q), NEW r, Sound(r), Grows(p, q), Grows(q, r)
  PROVE  Grows(p, r)
<1>1. Extends(p.functions, r.functions) /\ Extends(p.blocks, r.blocks) /\ Extends(p.hosts, r.hosts)
  BY DEF Grows, Extends
<1>2. Extends(p.symbols, r.symbols) /\ Extends(p.initial, r.initial)
  BY DEF Grows, Extends
<1>3. p.nextData \in Nat /\ q.nextData \in Nat /\ r.nextData \in Nat
  BY DEF Sound, Shaped
<1>4. p.nextData <= r.nextData
  BY <1>3 DEF Grows
<1>5. ASSUME NEW s \in DOMAIN r.symbols, s \notin DOMAIN p.symbols PROVE p.nextData <= r.symbols[s]
  <2>1. CASE s \in DOMAIN q.symbols
    BY <1>5, <2>1 DEF Grows, Extends
  <2>2. CASE s \notin DOMAIN q.symbols
    <3>1. q.nextData <= r.symbols[s] /\ p.nextData <= q.nextData
      BY <2>2 DEF Grows
    <3>2. r.symbols[s] \in Nat
      BY DEF Sound, DataApart
    <3> QED BY <3>1, <3>2, <1>3
  <2> QED BY <2>1, <2>2
<1>6. \A f \in DOMAIN r.functions : f \in DOMAIN p.symbols => f \in DOMAIN p.functions
  BY DEF Grows, Extends
<1>7. ASSUME NEW s \in DOMAIN p.symbols PROVE Callable(r, s) = Callable(p, s) /\ Meant(r, s) = Meant(p, s)
  <2>1. s \in DOMAIN q.symbols
    BY DEF Grows, Extends
  <2> QED BY <2>1 DEF Grows
<1> QED BY <1>1, <1>2, <1>4, <1>5, <1>6, <1>7 DEF Grows

-----------------------------------------------------------------------------
(* The three ways to link a symbol.                                        *)
Placed(p, q, s, word) ==
  /\ DOMAIN q = Fields /\ q.nextCode \in Nat /\ q.nextData \in Nat
  /\ p.nextCode <= q.nextCode /\ p.nextData < q.nextData
  /\ q.symbols = Put(p.symbols, s, p.nextData)
  /\ q.initial = Put(p.initial, p.nextData, word)

\* A symbol that is placed gets an address of its own; the others keep theirs.
LEMMA PlacedFacts ==
  ASSUME NEW p, Sound(p), NEW s, Sym(s), s \notin DOMAIN p.symbols, NEW q, NEW word,
         Placed(p, q, s, word)
  PROVE  /\ Shaped(q) /\ DataApart(q) /\ Extends(p.symbols, q.symbols) /\ Extends(p.initial, q.initial)
         /\ DOMAIN q.symbols = DOMAIN p.symbols \cup {s}
         /\ q.symbols[s] = p.nextData /\ q.initial[p.nextData] = word
         /\ s \notin DOMAIN p.functions
<1> p.nextData \in Nat /\ q.nextData \in Nat /\ p.nextData < q.nextData /\ p.nextData # 0
  BY DEF Sound, Shaped, DataApart, Placed
<1>1. /\ DOMAIN q.symbols = DOMAIN p.symbols \cup {s}
      /\ q.symbols[s] = p.nextData
      /\ \A x \in DOMAIN p.symbols : q.symbols[x] = p.symbols[x]
  BY DEF Placed, Put
<1>2. /\ DOMAIN q.initial = DOMAIN p.initial \cup {p.nextData}
      /\ q.initial[p.nextData] = word
      /\ \A a \in DOMAIN p.initial : a # p.nextData => q.initial[a] = p.initial[a]
  BY DEF Placed, Put
<1>3. \A a \in DOMAIN p.initial : a \in Nat \ {0} /\ a < p.nextData
  BY DEF Sound, DataApart
<1>4. Extends(p.symbols, q.symbols) /\ Extends(p.initial, q.initial)
  BY <1>1, <1>2, <1>3 DEF Extends
<1>5. \A x \in DOMAIN p.symbols : Sym(x) /\ p.symbols[x] \in DOMAIN p.initial
  BY DEF Sound, DataApart
<1>6. \A x \in DOMAIN q.symbols : Sym(x) /\ q.symbols[x] \in DOMAIN q.initial
  BY <1>1, <1>2, <1>5
<1>7. \A a \in DOMAIN q.initial : a \in Nat \ {0} /\ a < q.nextData
  BY <1>2, <1>3
<1>8. ASSUME NEW x \in DOMAIN q.symbols, NEW y \in DOMAIN q.symbols, q.symbols[x] = q.symbols[y]
      PROVE  x = y
  <2>1. \A z \in DOMAIN p.symbols : p.symbols[z] # p.nextData
    BY <1>3, <1>5
  <2>2. \A u, v \in DOMAIN p.symbols : p.symbols[u] = p.symbols[v] => u = v
    BY DEF Sound, DataApart
  <2> QED BY <1>1, <1>8, <2>1, <2>2
<1>9. Shaped(q)
  BY DEF Shaped, Placed
<1>10. DataApart(q)
  BY <1>6, <1>7, <1>8 DEF DataApart
<1>11. s \notin DOMAIN p.functions
  BY DEF Sound, FunctionsPlaced
<1> QED BY <1>1, <1>2, <1>4, <1>9, <1>10, <1>11

\* No host service has the name of a symbol that is not linked.
LEMMA UnlinkedHosts ==
  ASSUME NEW p, Sound(p), NEW s, Sym(s), s \notin DOMAIN p.symbols
  PROVE  ~ Serves(p, s) /\ ~ Accelerated(p, s)
<1>1. ASSUME NEW c \in DOMAIN p.hosts PROVE p.hosts[c] # s /\ p.hosts[c] # FastName(s)
  <2>1. CASE p.hosts[c] = Halt
    BY <2>1, FastNames
  <2>2. CASE \E x \in DOMAIN p.symbols : p.hosts[c] = x \/ p.hosts[c] = FastName(x)
    <3>1. PICK x \in DOMAIN p.symbols : p.hosts[c] = x \/ p.hosts[c] = FastName(x)
      BY <2>2
    <3>2. Sym(x) /\ x # s
      BY DEF Sound, DataApart
    <3> QED BY <3>1, <3>2, FastNames
  <2> QED BY <2>1, <2>2 DEF Sound, HostsNamed
<1> QED BY <1>1 DEF Serves, Accelerated


\* What was linked leads where it led.
LEMMA GrowsLeads ==
  ASSUME NEW p, Sound(p), NEW q, CodesApart(q), Grows(p, q), NEW x \in DOMAIN p.symbols, Callable(q, x)
  PROVE  Resolved(q, q.initial[q.symbols[x]]) = Meant(q, x)
<1>1. Callable(p, x) /\ Meant(q, x) = Meant(p, x)
  BY DEF Grows
<1>2. q.initial[q.symbols[x]] = p.initial[p.symbols[x]]
  BY DEF Grows, Sound, DataApart, Extends
<1>3. Resolved(p, p.initial[p.symbols[x]]) = Meant(p, x)
  BY <1>1 DEF Sound, CallsLead
<1>4. ASSUME NEW c, Resolved(p, c) = Meant(p, x) PROVE Resolved(q, c) = Resolved(p, c)
  <2>1. c \in DOMAIN p.hosts \/ c \in DOMAIN p.blocks
    BY <1>4 DEF Resolved, Meant
  <2>2. c \in DOMAIN p.hosts => c \in DOMAIN q.hosts /\ q.hosts[c] = p.hosts[c]
    BY DEF Grows, Extends
  <2>3. c \in DOMAIN p.blocks => c \in DOMAIN q.blocks /\ q.blocks[c] = p.blocks[c]
    BY DEF Grows, Extends
  <2>4. c \in DOMAIN p.blocks => c \notin DOMAIN p.hosts /\ c \notin DOMAIN q.hosts
    BY <2>3 DEF CodesApart, Sound
  <2> QED BY <2>1, <2>2, <2>3, <2>4 DEF Resolved
<1> QED BY <1>1, <1>2, <1>3, <1>4

\* A function is linked.
LEMMA AddFunctionFields ==
  ASSUME NEW p, DOMAIN p = Fields, NEW s, NEW uses, NEW q, q = AddFunction(p, s, uses)
  PROVE  /\ DOMAIN q = Fields
         /\ q.functions = Put(p.functions, s, uses) /\ q.blocks = Put(p.blocks, p.nextCode, s)
         /\ q.hosts = p.hosts /\ q.symbols = Put(p.symbols, s, p.nextData)
         /\ q.initial = Put(p.initial, p.nextData, p.nextCode)
         /\ q.nextCode = p.nextCode + 1 /\ q.nextData = p.nextData + 2
BY DEF AddFunction, Described, Fields

\* Linking a function keeps a program sound, and it only grows.
LEMMA AddFunctionSound ==
  ASSUME NEW p, Sound(p), NEW s, Sym(s), s \notin DOMAIN p.symbols, NEW uses,
         NEW q, q = AddFunction(p, s, uses)
  PROVE  /\ Sound(q) /\ Grows(p, q)
         /\ DOMAIN q.symbols = DOMAIN p.symbols \cup {s}
         /\ q.functions = Put(p.functions, s, uses) /\ q.hosts = p.hosts
         /\ \E c \in DOMAIN q.blocks : c \notin DOMAIN p.blocks
<1> DOMAIN p = Fields /\ p.nextCode \in Nat /\ p.nextData \in Nat
  BY DEF Sound, Shaped
<1>1. /\ DOMAIN q = Fields
      /\ q.functions = Put(p.functions, s, uses) /\ q.blocks = Put(p.blocks, p.nextCode, s)
      /\ q.hosts = p.hosts /\ q.symbols = Put(p.symbols, s, p.nextData)
      /\ q.initial = Put(p.initial, p.nextData, p.nextCode)
      /\ q.nextCode = p.nextCode + 1 /\ q.nextData = p.nextData + 2
  BY AddFunctionFields
<1>2. Placed(p, q, s, p.nextCode)
  BY <1>1 DEF Placed
<1>3. /\ Shaped(q) /\ DataApart(q) /\ Extends(p.symbols, q.symbols) /\ Extends(p.initial, q.initial)
      /\ DOMAIN q.symbols = DOMAIN p.symbols \cup {s}
      /\ q.symbols[s] = p.nextData /\ q.initial[p.nextData] = p.nextCode
      /\ s \notin DOMAIN p.functions
  BY <1>2, PlacedFacts
<1>4. ~ Serves(p, s) /\ ~ Accelerated(p, s)
  BY UnlinkedHosts
<1>5. /\ \A c \in DOMAIN p.blocks : c \in Nat /\ c < p.nextCode /\ c \notin DOMAIN p.hosts
      /\ \A c \in DOMAIN p.hosts : c \in Nat /\ c < p.nextCode
  BY DEF Sound, CodesApart
<1>6. /\ DOMAIN q.blocks = DOMAIN p.blocks \cup {p.nextCode} /\ q.blocks[p.nextCode] = s
      /\ \A c \in DOMAIN p.blocks : q.blocks[c] = p.blocks[c]
  BY <1>1, <1>5 DEF Put
<1>7. /\ DOMAIN q.functions = DOMAIN p.functions \cup {s}
      /\ \A f \in DOMAIN p.functions : q.functions[f] = p.functions[f]
  BY <1>1, <1>3 DEF Put
<1>8. CodesApart(q)
  BY <1>1, <1>5, <1>6 DEF CodesApart
<1>9. HostsNamed(q)
  BY <1>1, <1>3 DEF HostsNamed, Sound
<1>10. FunctionsPlaced(q)
  <2>1. \A f \in DOMAIN p.functions : f \in DOMAIN p.symbols /\ \E c \in DOMAIN p.blocks : p.blocks[c] = f
    BY DEF Sound, FunctionsPlaced
  <2>2. \A c \in DOMAIN p.blocks : p.blocks[c] \in DOMAIN p.functions
    BY DEF Sound, FunctionsPlaced
  <2>3. ASSUME NEW f \in DOMAIN q.functions
        PROVE  f \in DOMAIN q.symbols /\ \E c \in DOMAIN q.blocks : q.blocks[c] = f
    BY <2>1, <1>3, <1>6, <1>7
  <2>4. ASSUME NEW c \in DOMAIN q.blocks PROVE q.blocks[c] \in DOMAIN q.functions
    BY <2>2, <1>6, <1>7
  <2> QED BY <2>3, <2>4 DEF FunctionsPlaced
<1>11. ASSUME NEW x PROVE Serves(q, x) = Serves(p, x) /\ Accelerated(q, x) = Accelerated(p, x)
  BY <1>1 DEF Serves, Accelerated
<1>12. ASSUME NEW x \in DOMAIN p.symbols PROVE Callable(q, x) = Callable(p, x) /\ Meant(q, x) = Meant(p, x)
  BY <1>3, <1>7, <1>11 DEF Callable, Meant
<1>13. Extends(p.functions, q.functions) /\ Extends(p.blocks, q.blocks) /\ Extends(p.hosts, q.hosts)
  BY <1>1, <1>6, <1>7 DEF Extends
<1>14. Grows(p, q)
  BY <1>1, <1>3, <1>7, <1>12, <1>13 DEF Grows
<1>15. ASSUME NEW x, Callable(q, x) PROVE Resolved(q, q.initial[q.symbols[x]]) = Meant(q, x)
  <2>1. CASE x = s
    <3>1. q.initial[q.symbols[x]] = p.nextCode /\ p.nextCode \notin DOMAIN q.hosts
      BY <2>1, <1>1, <1>3, <1>5
    <3>2. Resolved(q, p.nextCode) = <<"block", s>>
      BY <3>1, <1>6 DEF Resolved
    <3>3. Meant(q, s) = <<"block", s>>
      BY <1>4, <1>7, <1>11 DEF Meant
    <3> QED BY <2>1, <3>1, <3>2, <3>3
  <2>2. CASE x # s
    <3>1. x \in DOMAIN p.symbols
      BY <1>3, <1>7, <1>15, <2>2 DEF Callable, Sound, FunctionsPlaced
    <3> QED BY <3>1, <1>8, <1>14, <1>15, GrowsLeads
  <2> QED BY <2>1, <2>2
<1>16. HelpersServed(q)
  <2>1. ASSUME NEW x \in DOMAIN q.symbols, x[1] = <<"helper">> PROVE Callable(q, x)
    <3>1. CASE x = s
      BY <3>1, <1>7 DEF Callable
    <3>2. CASE x # s
      BY <3>2, <2>1, <1>3, <1>12 DEF Sound, HelpersServed
    <3> QED BY <3>1, <3>2
  <2> QED BY <2>1 DEF HelpersServed
<1>17. CallsLead(q)
  BY <1>15 DEF CallsLead
<1>18. Sound(q)
  BY <1>3, <1>8, <1>9, <1>10, <1>16, <1>17 DEF Sound
<1>19. \E c \in DOMAIN q.blocks : c \notin DOMAIN p.blocks
  BY <1>5, <1>6
<1> QED BY <1>1, <1>3, <1>14, <1>18, <1>19

\* A host service is linked.
LEMMA RegisterServiceFields ==
  ASSUME NEW p, DOMAIN p = Fields, NEW s, NEW q, q = RegisterService(p, s)
  PROVE  /\ DOMAIN q = Fields
         /\ q.functions = p.functions /\ q.blocks = p.blocks
         /\ q.hosts = Put(p.hosts, p.nextCode, s) /\ q.symbols = Put(p.symbols, s, p.nextData)
         /\ q.initial = Put(p.initial, p.nextData, p.nextCode)
         /\ q.nextCode = p.nextCode + 1 /\ q.nextData = p.nextData + 2
BY DEF RegisterService, Described, Fields

\* So does registering a service.
LEMMA RegisterServiceSound ==
  ASSUME NEW p, Sound(p), NEW s, Sym(s), s \notin DOMAIN p.symbols,
         NEW q, q = RegisterService(p, s)
  PROVE  /\ Sound(q) /\ Grows(p, q)
         /\ DOMAIN q.symbols = DOMAIN p.symbols \cup {s}
         /\ q.functions = p.functions /\ q.blocks = p.blocks
         /\ Callable(q, s)
<1> DOMAIN p = Fields /\ p.nextCode \in Nat /\ p.nextData \in Nat
  BY DEF Sound, Shaped
<1>1. /\ DOMAIN q = Fields
      /\ q.functions = p.functions /\ q.blocks = p.blocks
      /\ q.hosts = Put(p.hosts, p.nextCode, s) /\ q.symbols = Put(p.symbols, s, p.nextData)
      /\ q.initial = Put(p.initial, p.nextData, p.nextCode)
      /\ q.nextCode = p.nextCode + 1 /\ q.nextData = p.nextData + 2
  BY RegisterServiceFields
<1>2. Placed(p, q, s, p.nextCode)
  BY <1>1 DEF Placed
<1>3. /\ Shaped(q) /\ DataApart(q) /\ Extends(p.symbols, q.symbols) /\ Extends(p.initial, q.initial)
      /\ DOMAIN q.symbols = DOMAIN p.symbols \cup {s}
      /\ q.symbols[s] = p.nextData /\ q.initial[p.nextData] = p.nextCode
      /\ s \notin DOMAIN p.functions
  BY <1>2, PlacedFacts
<1>4. ~ Serves(p, s) /\ ~ Accelerated(p, s)
  BY UnlinkedHosts
<1>5. /\ \A c \in DOMAIN p.blocks : c \in Nat /\ c < p.nextCode /\ c \notin DOMAIN p.hosts
      /\ \A c \in DOMAIN p.hosts : c \in Nat /\ c < p.nextCode
  BY DEF Sound, CodesApart
<1>6. /\ DOMAIN q.hosts = DOMAIN p.hosts \cup {p.nextCode} /\ q.hosts[p.nextCode] = s
      /\ \A c \in DOMAIN p.hosts : q.hosts[c] = p.hosts[c]
  BY <1>1, <1>5 DEF Put
<1>8. CodesApart(q)
  BY <1>1, <1>5, <1>6 DEF CodesApart
<1>9. HostsNamed(q)
  <2>1. ASSUME NEW c \in DOMAIN p.hosts
        PROVE  p.hosts[c] = Halt \/ \E x \in DOMAIN p.symbols : p.hosts[c] = x \/ p.hosts[c] = FastName(x)
    BY DEF HostsNamed, Sound
  <2> QED BY <2>1, <1>3, <1>6 DEF HostsNamed
<1>10. FunctionsPlaced(q)
  BY <1>1, <1>3 DEF Sound, FunctionsPlaced
<1>11. ASSUME NEW x \in DOMAIN p.symbols
       PROVE  Serves(q, x) = Serves(p, x) /\ Accelerated(q, x) = Accelerated(p, x)
  <2>1. Sym(x) /\ x # s
    BY DEF Sound, DataApart
  <2>2. FastName(x) # s
    BY <2>1, FastNames
  <2> QED BY <2>1, <2>2, <1>6 DEF Serves, Accelerated
<1>12. ASSUME NEW x \in DOMAIN p.symbols PROVE Callable(q, x) = Callable(p, x) /\ Meant(q, x) = Meant(p, x)
  BY <1>1, <1>3, <1>11 DEF Callable, Meant
<1>13. Extends(p.functions, q.functions) /\ Extends(p.blocks, q.blocks) /\ Extends(p.hosts, q.hosts)
  BY <1>1, <1>6 DEF Extends
<1>14. Grows(p, q)
  BY <1>1, <1>3, <1>12, <1>13 DEF Grows
<1>15. Callable(q, s)
  BY <1>3, <1>6 DEF Callable, Serves
<1>16. HelpersServed(q)
  <2>1. ASSUME NEW x \in DOMAIN q.symbols, x[1] = <<"helper">> PROVE Callable(q, x)
    <3>1. CASE x = s
      BY <3>1, <1>15
    <3>2. CASE x # s
      BY <3>2, <2>1, <1>3, <1>12 DEF Sound, HelpersServed
    <3> QED BY <3>1, <3>2
  <2> QED BY <2>1 DEF HelpersServed
<1>17. CallsLead(q)
  <2>1. ASSUME NEW x, Callable(q, x) PROVE Resolved(q, q.initial[q.symbols[x]]) = Meant(q, x)
    <3>1. CASE x = s
      <4>1. q.initial[q.symbols[s]] = p.nextCode
        BY <1>3
      <4>2. Resolved(q, p.nextCode) = <<"service", s>>
        BY <1>6 DEF Resolved
      <4>3. ~ Accelerated(q, s)
        <5>1. FastName(s) # s
          BY FastNames
        <5> QED BY <5>1, <1>4, <1>6 DEF Accelerated
      <4>4. Meant(q, s) = <<"service", s>>
        BY <4>3, <1>1, <1>3 DEF Meant
      <4> QED BY <3>1, <4>1, <4>2, <4>4
    <3>2. CASE x # s
      <4>1. x \in DOMAIN p.symbols
        BY <1>1, <1>3, <2>1, <3>2 DEF Callable, Sound, FunctionsPlaced
      <4> QED BY <4>1, <1>8, <1>14, <2>1, GrowsLeads
    <3> QED BY <3>1, <3>2
  <2> QED BY <2>1 DEF CallsLead
<1>18. Sound(q)
  BY <1>3, <1>8, <1>9, <1>10, <1>16, <1>17 DEF Sound
<1> QED BY <1>1, <1>3, <1>14, <1>15, <1>18

\* A datum is linked.
LEMMA DefineDataFields ==
  ASSUME NEW p, DOMAIN p = Fields, NEW s, NEW w, NEW q, q = DefineData(p, s, w)
  PROVE  /\ DOMAIN q = Fields
         /\ q.functions = p.functions /\ q.blocks = p.blocks /\ q.hosts = p.hosts
         /\ q.symbols = Put(p.symbols, s, p.nextData)
         /\ q.initial = Put(p.initial, p.nextData, w)
         /\ q.nextCode = p.nextCode /\ q.nextData = p.nextData + 1
BY DEF DefineData, Fields

\* So does defining a datum, which no call reaches.
LEMMA DefineDataSound ==
  ASSUME NEW p, Sound(p), NEW s, Sym(s), s \notin DOMAIN p.symbols, s[1] # <<"helper">>, NEW w,
         NEW q, q = DefineData(p, s, w)
  PROVE  /\ Sound(q) /\ Grows(p, q)
         /\ DOMAIN q.symbols = DOMAIN p.symbols \cup {s}
         /\ q.functions = p.functions /\ q.blocks = p.blocks
         /\ ~ Callable(q, s) /\ q.initial[q.symbols[s]] = w
<1> DOMAIN p = Fields /\ p.nextCode \in Nat /\ p.nextData \in Nat
  BY DEF Sound, Shaped
<1>1. /\ DOMAIN q = Fields
      /\ q.functions = p.functions /\ q.blocks = p.blocks /\ q.hosts = p.hosts
      /\ q.symbols = Put(p.symbols, s, p.nextData)
      /\ q.initial = Put(p.initial, p.nextData, w)
      /\ q.nextCode = p.nextCode /\ q.nextData = p.nextData + 1
  BY DefineDataFields
<1>2. Placed(p, q, s, w)
  BY <1>1 DEF Placed
<1>3. /\ Shaped(q) /\ DataApart(q) /\ Extends(p.symbols, q.symbols) /\ Extends(p.initial, q.initial)
      /\ DOMAIN q.symbols = DOMAIN p.symbols \cup {s}
      /\ q.symbols[s] = p.nextData /\ q.initial[p.nextData] = w
      /\ s \notin DOMAIN p.functions
  BY <1>2, PlacedFacts
<1>8. CodesApart(q)
  BY <1>1 DEF CodesApart, Sound
<1>9. HostsNamed(q)
  BY <1>1, <1>3 DEF HostsNamed, Sound
<1>10. FunctionsPlaced(q)
  BY <1>1, <1>3 DEF Sound, FunctionsPlaced
<1>11. ASSUME NEW x PROVE Serves(q, x) = Serves(p, x) /\ Accelerated(q, x) = Accelerated(p, x)
  BY <1>1 DEF Serves, Accelerated
<1>12. ASSUME NEW x \in DOMAIN p.symbols PROVE Callable(q, x) = Callable(p, x) /\ Meant(q, x) = Meant(p, x)
  BY <1>1, <1>3, <1>11 DEF Callable, Meant
<1>13. Extends(p.functions, q.functions) /\ Extends(p.blocks, q.blocks) /\ Extends(p.hosts, q.hosts)
  BY <1>1 DEF Extends
<1>14. Grows(p, q)
  BY <1>1, <1>3, <1>12, <1>13 DEF Grows
<1>15. ~ Callable(q, s)
  <2>1. ~ Serves(q, s)
    BY <1>11, UnlinkedHosts
  <2> QED BY <2>1, <1>1, <1>3 DEF Callable
<1>16. HelpersServed(q)
  BY <1>3, <1>12 DEF Sound, HelpersServed
<1>17. CallsLead(q)
  <2>1. ASSUME NEW x, Callable(q, x) PROVE Resolved(q, q.initial[q.symbols[x]]) = Meant(q, x)
    <3>1. x \in DOMAIN p.symbols
      BY <1>1, <1>3, <1>15, <2>1 DEF Callable, Sound, FunctionsPlaced
    <3> QED BY <3>1, <1>8, <1>14, <2>1, GrowsLeads
  <2> QED BY <2>1 DEF CallsLead
<1>18. Sound(q)
  BY <1>3, <1>8, <1>9, <1>10, <1>16, <1>17 DEF Sound
<1> QED BY <1>1, <1>3, <1>14, <1>15, <1>18

-----------------------------------------------------------------------------
(* Symbols are linked one after the other.                                 *)

\* A set with 0 that with a number has the next holds every number.
LEMMA NatSets ==
  ASSUME NEW T, 0 \in T, \A n \in Nat : n \in T => n + 1 \in T
  PROVE  Nat \subseteq T
<1> SUFFICES ASSUME Nat \ T # {} PROVE FALSE
  OBVIOUS
<1>1. PICK x \in Nat \ T : \A y \in Nat \ T : ~ (<<y, x>> \in OpToRel(<, Nat))
  <2>1. Nat \ T \subseteq Nat
    OBVIOUS
  <2>2. IsWellFoundedOn(OpToRel(<, Nat), Nat)
    BY NatLessThanWellFounded
  <2> HIDE DEF OpToRel
  <2> QED BY <2>1, <2>2, WFMin, Zenon
<1>2. \A y \in Nat \ T : ~ (y < x)
  BY <1>1 DEF OpToRel
<1>3. x # 0 /\ x - 1 \in Nat /\ x - 1 < x
  OBVIOUS
<1>4. x - 1 \in T
  BY <1>2, <1>3
<1>5. (x - 1) + 1 \in T
  BY <1>3, <1>4
<1> QED BY <1>5

LinkStep(kind, p, s, uses) ==
  IF kind = "function" THEN AddFunction(p, s, uses)
  ELSE IF kind = "service" THEN RegisterMissing(p, s)
  ELSE IF kind = "fast" THEN ReplaceWithService(p, s)
  ELSE DefineData(p, s, 0)

Tables(kind, p, list, uses, n, f) ==
  f = [i \in 0..n |-> IF i = 0 THEN p ELSE LinkStep(kind, f[i - 1], list[i], uses)]

\* Linking one after the other gives a sequence of programs.
LEMMA TablesExist ==
  ASSUME NEW kind, NEW p, NEW list, NEW uses, NEW n \in Nat
  PROVE  \E f : Tables(kind, p, list, uses, n, f)
<1> DEFINE K == {k \in Nat : \E f : Tables(kind, p, list, uses, k, f)}
<1>1. 0 \in K
  <2>1. Tables(kind, p, list, uses, 0, [i \in 0..0 |-> p])
    BY DEF Tables
  <2> QED BY <2>1
<1>2. ASSUME NEW k \in Nat, k \in K PROVE k + 1 \in K
  <2>1. PICK f : Tables(kind, p, list, uses, k, f)
    BY <1>2
  <2> DEFINE g == [i \in 0..(k + 1) |-> IF i = k + 1 THEN LinkStep(kind, f[k], list[k + 1], uses) ELSE f[i]]
  <2>2. ASSUME NEW i \in 0..(k + 1)
        PROVE  g[i] = IF i = 0 THEN p ELSE LinkStep(kind, g[i - 1], list[i], uses)
    <3>1. CASE i = k + 1
      <4>1. k \in 0..(k + 1) /\ k # k + 1 /\ i - 1 = k /\ i # 0
        BY <1>2, <3>1
      <4>2. g[k] = f[k] /\ g[i] = LinkStep(kind, f[k], list[k + 1], uses)
        BY <3>1, <4>1
      <4> HIDE DEF g
      <4> QED BY <3>1, <4>1, <4>2
    <3>2. CASE i # k + 1
      <4>1. i \in 0..k
        BY <1>2, <3>2
      <4>2. f[i] = IF i = 0 THEN p ELSE LinkStep(kind, f[i - 1], list[i], uses)
        BY <2>1, <4>1 DEF Tables
      <4>3. i # 0 => i - 1 \in 0..(k + 1) /\ i - 1 # k + 1
        BY <1>2, <4>1
      <4>4. g[i] = f[i] /\ (i # 0 => g[i - 1] = f[i - 1])
        BY <3>2, <4>3
      <4> HIDE DEF g
      <4> QED BY <4>2, <4>4
    <3> QED BY <3>1, <3>2
  <2>3. g = [i \in 0..(k + 1) |-> g[i]]
    OBVIOUS
  <2> HIDE DEF g
  <2>4. Tables(kind, p, list, uses, k + 1, g)
    <3>1. [i \in 0..(k + 1) |-> g[i]]
          = [i \in 0..(k + 1) |-> IF i = 0 THEN p ELSE LinkStep(kind, g[i - 1], list[i], uses)]
      BY <2>2
    <3> QED BY <2>3, <3>1 DEF Tables
  <2>5. k + 1 \in Nat
    OBVIOUS
  <2> QED BY <2>4, <2>5
<1> HIDE DEF K
<1>3. Nat \subseteq K
  BY <1>1, <1>2, NatSets
<1> QED BY <1>3 DEF K

AddFunctionsBy(p, list, uses, f) ==
  /\ AddFunctions(p, list, uses) = f[Len(list)] /\ f[0] = p
  /\ \A i \in 1..Len(list) : f[i] = AddFunction(f[i - 1], list[i], uses)
RegisterServicesBy(p, list, f) ==
  /\ RegisterServices(p, list) = f[Len(list)] /\ f[0] = p
  /\ \A i \in 1..Len(list) : f[i] = RegisterMissing(f[i - 1], list[i])
AccelerateBy(p, list, f) ==
  /\ Accelerate(p, list) = f[Len(list)] /\ f[0] = p
  /\ \A i \in 1..Len(list) : f[i] = ReplaceWithService(f[i - 1], list[i])
DefineObjectsBy(p, list, f) ==
  /\ DefineObjects(p, list) = f[Len(list)] /\ f[0] = p
  /\ \A i \in 1..Len(list) : f[i] = DefineData(f[i - 1], list[i], 0)

\* Each way of linking a list is such a sequence.
LEMMA AddFunctionsTables ==
  ASSUME NEW p, NEW list, Len(list) \in Nat, NEW uses
  PROVE  \E f : AddFunctionsBy(p, list, uses, f)
<1> DEFINE G(f) == f = [i \in 0..Len(list) |-> IF i = 0 THEN p ELSE AddFunction(f[i - 1], list[i], uses)]
<1>1. \E f : G(f)
  <2>1. PICK f : Tables("function", p, list, uses, Len(list), f)
    BY TablesExist
  <2> QED BY <2>1 DEF Tables, LinkStep
<1>2. AddFunctions(p, list, uses) = (CHOOSE f : G(f))[Len(list)]
  BY DEF AddFunctions
<1> DEFINE g == CHOOSE f : G(f)
<1>3. G(g)
  <2> HIDE DEF G
  <2> QED BY <1>1
<1> HIDE DEF g
<1>4. g[0] = p
  BY <1>3
<1>5. ASSUME NEW i \in 1..Len(list) PROVE g[i] = AddFunction(g[i - 1], list[i], uses)
  BY <1>3
<1>6. AddFunctions(p, list, uses) = g[Len(list)]
  BY <1>2 DEF g
<1> QED BY <1>4, <1>5, <1>6 DEF AddFunctionsBy

\* Services are registered one after the other.
LEMMA RegisterServicesTables ==
  ASSUME NEW p, NEW list, Len(list) \in Nat
  PROVE  \E f : RegisterServicesBy(p, list, f)
<1> DEFINE G(f) == f = [i \in 0..Len(list) |-> IF i = 0 THEN p ELSE RegisterMissing(f[i - 1], list[i])]
<1>1. \E f : G(f)
  <2>1. PICK f : Tables("service", p, list, 0, Len(list), f)
    BY TablesExist
  <2> QED BY <2>1 DEF Tables, LinkStep
<1>2. RegisterServices(p, list) = (CHOOSE f : G(f))[Len(list)]
  BY DEF RegisterServices
<1> DEFINE g == CHOOSE f : G(f)
<1>3. G(g)
  <2> HIDE DEF G
  <2> QED BY <1>1
<1> HIDE DEF g
<1>4. g[0] = p
  BY <1>3
<1>5. ASSUME NEW i \in 1..Len(list) PROVE g[i] = RegisterMissing(g[i - 1], list[i])
  BY <1>3
<1>6. RegisterServices(p, list) = g[Len(list)]
  BY <1>2 DEF g
<1> QED BY <1>4, <1>5, <1>6 DEF RegisterServicesBy

\* Functions are accelerated one after the other.
LEMMA AccelerateTables ==
  ASSUME NEW p, NEW list, Len(list) \in Nat
  PROVE  \E f : AccelerateBy(p, list, f)
<1> DEFINE G(f) == f = [i \in 0..Len(list) |-> IF i = 0 THEN p ELSE ReplaceWithService(f[i - 1], list[i])]
<1>1. \E f : G(f)
  <2>1. PICK f : Tables("fast", p, list, 0, Len(list), f)
    BY TablesExist
  <2> QED BY <2>1 DEF Tables, LinkStep
<1>2. Accelerate(p, list) = (CHOOSE f : G(f))[Len(list)]
  BY DEF Accelerate
<1> DEFINE g == CHOOSE f : G(f)
<1>3. G(g)
  <2> HIDE DEF G
  <2> QED BY <1>1
<1> HIDE DEF g
<1>4. g[0] = p
  BY <1>3
<1>5. ASSUME NEW i \in 1..Len(list) PROVE g[i] = ReplaceWithService(g[i - 1], list[i])
  BY <1>3
<1>6. Accelerate(p, list) = g[Len(list)]
  BY <1>2 DEF g
<1> QED BY <1>4, <1>5, <1>6 DEF AccelerateBy

\* Objects are laid out one after the other.
LEMMA DefineObjectsTables ==
  ASSUME NEW p, NEW list, Len(list) \in Nat
  PROVE  \E f : DefineObjectsBy(p, list, f)
<1> DEFINE G(f) == f = [i \in 0..Len(list) |-> IF i = 0 THEN p ELSE DefineData(f[i - 1], list[i], 0)]
<1>1. \E f : G(f)
  <2>1. PICK f : Tables("object", p, list, 0, Len(list), f)
    BY TablesExist
  <2> QED BY <2>1 DEF Tables, LinkStep
<1>2. DefineObjects(p, list) = (CHOOSE f : G(f))[Len(list)]
  BY DEF DefineObjects
<1> DEFINE g == CHOOSE f : G(f)
<1>3. G(g)
  <2> HIDE DEF G
  <2> QED BY <1>1
<1> HIDE DEF g
<1>4. g[0] = p
  BY <1>3
<1>5. ASSUME NEW i \in 1..Len(list) PROVE g[i] = DefineData(g[i - 1], list[i], 0)
  BY <1>3
<1>6. DefineObjects(p, list) = g[Len(list)]
  BY <1>2 DEF g
<1> QED BY <1>4, <1>5, <1>6 DEF DefineObjectsBy

AddedTo(p, q, list, uses, k) ==
  /\ Sound(q) /\ Grows(p, q) /\ q.hosts = p.hosts
  /\ DOMAIN q.symbols = DOMAIN p.symbols \cup {list[i] : i \in 1..k}
  /\ DOMAIN q.functions = DOMAIN p.functions \cup {list[i] : i \in 1..k}
  /\ \A i \in 1..k : q.functions[list[i]] = uses
  /\ k # 0 => \E c \in DOMAIN q.blocks : c \notin DOMAIN p.blocks

\* One function more.
LEMMA AddedToStep ==
  ASSUME NEW p, Sound(p), NEW list, NEW uses, NEW k \in Nat, NEW q, AddedTo(p, q, list, uses, k),
         Sym(list[k + 1]), list[k + 1] \notin DOMAIN p.symbols,
         \A i \in 1..k : list[i] # list[k + 1],
         NEW r, r = AddFunction(q, list[k + 1], uses)
  PROVE  AddedTo(p, r, list, uses, k + 1)
<1> DEFINE s == list[k + 1]
<1>1. Sound(q) /\ Grows(p, q) /\ s \notin DOMAIN q.symbols /\ Sym(s)
  BY DEF AddedTo
<1> HIDE DEF s
<1>2. /\ Sound(r) /\ Grows(q, r)
      /\ DOMAIN r.symbols = DOMAIN q.symbols \cup {s}
      /\ r.functions = Put(q.functions, s, uses) /\ r.hosts = q.hosts
      /\ \E c \in DOMAIN r.blocks : c \notin DOMAIN q.blocks
  BY <1>1, AddFunctionSound DEF s
<1>3. Grows(p, r)
  BY <1>1, <1>2, GrowsOn
<1>4. {list[i] : i \in 1..(k + 1)} = {list[i] : i \in 1..k} \cup {s}
  <2>1. 1..(k + 1) = 1..k \cup {k + 1}
    OBVIOUS
  <2> QED BY <2>1 DEF s
<1>5. DOMAIN r.functions = DOMAIN q.functions \cup {s} /\ r.functions[s] = uses
      /\ \A f \in DOMAIN q.functions : f # s => r.functions[f] = q.functions[f]
  BY <1>2 DEF Put
<1>6. ASSUME NEW i \in 1..(k + 1) PROVE r.functions[list[i]] = uses
  <2>1. CASE i = k + 1
    BY <2>1, <1>5 DEF s
  <2>2. CASE i # k + 1
    <3>1. i \in 1..k
      BY <2>2
    <3>2. list[i] \in DOMAIN q.functions /\ q.functions[list[i]] = uses /\ list[i] # s
      BY <3>1 DEF AddedTo, s
    <3> QED BY <3>2, <1>5
  <2> QED BY <2>1, <2>2
<1>7. \E c \in DOMAIN r.blocks : c \notin DOMAIN p.blocks
  BY <1>1, <1>2 DEF Grows, Extends
<1> QED BY <1>2, <1>3, <1>4, <1>5, <1>6, <1>7 DEF AddedTo

\* Functions linked one after the other keep a program sound.
LEMMA AddFunctionsSound ==
  ASSUME NEW p, Sound(p), NEW list, Len(list) \in Nat, NEW uses,
         \A i \in 1..Len(list) : Sym(list[i]) /\ list[i] \notin DOMAIN p.symbols,
         \A i, j \in 1..Len(list) : list[i] = list[j] => i = j
  PROVE  AddedTo(p, AddFunctions(p, list, uses), list, uses, Len(list))
<1>0. PICK f : AddFunctionsBy(p, list, uses, f)
  BY AddFunctionsTables
<1>1. /\ AddFunctions(p, list, uses) = f[Len(list)] /\ f[0] = p
      /\ \A i \in 1..Len(list) : f[i] = AddFunction(f[i - 1], list[i], uses)
  BY <1>0 DEF AddFunctionsBy
<1> DEFINE K == {k \in Nat : k <= Len(list) => AddedTo(p, f[k], list, uses, k)}
<1>2. 0 \in K
  <2>1. AddedTo(p, p, list, uses, 0)
    BY GrowsNot DEF AddedTo
  <2> QED BY <2>1, <1>1
<1>3. ASSUME NEW k \in Nat, k \in K PROVE k + 1 \in K
  <2>1. SUFFICES ASSUME k + 1 <= Len(list) PROVE AddedTo(p, f[k + 1], list, uses, k + 1)
    OBVIOUS
  <2>2. k + 1 \in 1..Len(list) /\ k <= Len(list) /\ (k + 1) - 1 = k /\ \A i \in 1..k : i \in 1..Len(list) /\ i # k + 1
    BY <2>1
  <2>3. AddedTo(p, f[k], list, uses, k)
    BY <1>3, <2>2
  <2>4. f[k + 1] = AddFunction(f[k], list[k + 1], uses)
    BY <1>1, <2>2
  <2>5. Sym(list[k + 1]) /\ list[k + 1] \notin DOMAIN p.symbols /\ \A i \in 1..k : list[i] # list[k + 1]
    BY <2>2
  <2> HIDE DEF K
  <2> QED BY <2>3, <2>4, <2>5, AddedToStep
<1> HIDE DEF K
<1>4. Len(list) \in K
  BY <1>2, <1>3, NatSets
<1> QED BY <1>1, <1>4 DEF K

MissingTo(p, q, list, k) ==
  /\ Sound(q) /\ Grows(p, q) /\ q.functions = p.functions /\ q.blocks = p.blocks
  /\ DOMAIN q.symbols = DOMAIN p.symbols \cup {list[i] : i \in 1..k}
  /\ \A i \in 1..k : list[i] \notin DOMAIN p.symbols => Callable(q, list[i])

\* One service more.
LEMMA MissingToStep ==
  ASSUME NEW p, Sound(p), NEW list, NEW k \in Nat, NEW q, MissingTo(p, q, list, k), Sym(list[k + 1]),
         NEW r, r = RegisterMissing(q, list[k + 1])
  PROVE  MissingTo(p, r, list, k + 1)
<1> DEFINE s == list[k + 1]
<1>1. Sound(q) /\ Grows(p, q) /\ Sym(s)
  BY DEF MissingTo
<1> HIDE DEF s
<1>2. {list[i] : i \in 1..(k + 1)} = {list[i] : i \in 1..k} \cup {s}
  <2>1. 1..(k + 1) = 1..k \cup {k + 1}
    OBVIOUS
  <2> QED BY <2>1 DEF s
<1>3. \A i \in 1..(k + 1) : i \in 1..k \/ list[i] = s
  BY DEF s
<1>4. CASE s \in DOMAIN q.symbols
  <2>1. r = q
    BY <1>4 DEF RegisterMissing, Linked, s
  <2>2. \A i \in 1..(k + 1) : list[i] \notin DOMAIN p.symbols => Callable(q, list[i])
    <3>1. s \notin DOMAIN p.symbols => \E j \in 1..k : s = list[j]
      BY <1>4 DEF MissingTo
    <3> QED BY <3>1, <1>3 DEF MissingTo
  <2>3. DOMAIN q.symbols = DOMAIN p.symbols \cup {list[i] : i \in 1..(k + 1)}
    BY <1>2, <1>4 DEF MissingTo
  <2> QED BY <2>1, <2>2, <2>3 DEF MissingTo
<1>5. CASE s \notin DOMAIN q.symbols
  <2>1. r = RegisterService(q, s)
    BY <1>5 DEF RegisterMissing, Linked, s
  <2>2. /\ Sound(r) /\ Grows(q, r)
        /\ DOMAIN r.symbols = DOMAIN q.symbols \cup {s}
        /\ r.functions = q.functions /\ r.blocks = q.blocks
        /\ Callable(r, s)
    BY <1>1, <1>5, <2>1, RegisterServiceSound
  <2>3. Grows(p, r)
    BY <1>1, <2>2, GrowsOn
  <2>4. ASSUME NEW i \in 1..(k + 1), list[i] \notin DOMAIN p.symbols PROVE Callable(r, list[i])
    <3>1. CASE list[i] = s
      BY <3>1, <2>2
    <3>2. CASE i \in 1..k
      <4>1. Callable(q, list[i]) /\ list[i] \in DOMAIN q.symbols
        BY <3>2, <2>4 DEF MissingTo
      <4> QED BY <4>1, <2>2 DEF Grows
    <3> QED BY <3>1, <3>2, <1>3
  <2> QED BY <1>2, <2>2, <2>3, <2>4 DEF MissingTo
<1> QED BY <1>4, <1>5

\* So do services, those that are linked already being skipped.
LEMMA RegisterServicesSound ==
  ASSUME NEW p, Sound(p), NEW list, Len(list) \in Nat, \A i \in 1..Len(list) : Sym(list[i])
  PROVE  MissingTo(p, RegisterServices(p, list), list, Len(list))
<1>0. PICK f : RegisterServicesBy(p, list, f)
  BY RegisterServicesTables
<1>1. /\ RegisterServices(p, list) = f[Len(list)] /\ f[0] = p
      /\ \A i \in 1..Len(list) : f[i] = RegisterMissing(f[i - 1], list[i])
  BY <1>0 DEF RegisterServicesBy
<1> DEFINE K == {k \in Nat : k <= Len(list) => MissingTo(p, f[k], list, k)}
<1>2. 0 \in K
  <2>1. MissingTo(p, p, list, 0)
    BY GrowsNot DEF MissingTo
  <2> QED BY <2>1, <1>1
<1>3. ASSUME NEW k \in Nat, k \in K PROVE k + 1 \in K
  <2>1. SUFFICES ASSUME k + 1 <= Len(list) PROVE MissingTo(p, f[k + 1], list, k + 1)
    OBVIOUS
  <2>2. k + 1 \in 1..Len(list) /\ k <= Len(list) /\ (k + 1) - 1 = k
    BY <2>1
  <2>3. MissingTo(p, f[k], list, k)
    BY <1>3, <2>2
  <2>4. f[k + 1] = RegisterMissing(f[k], list[k + 1])
    BY <1>1, <2>2
  <2>5. Sym(list[k + 1])
    BY <2>2
  <2> HIDE DEF K
  <2> QED BY <2>3, <2>4, <2>5, MissingToStep
<1> HIDE DEF K
<1>4. Len(list) \in K
  BY <1>2, <1>3, NatSets
<1> QED BY <1>1, <1>4 DEF K

ObjectsTo(p, q, list, k) ==
  /\ Sound(q) /\ Grows(p, q) /\ q.functions = p.functions /\ q.blocks = p.blocks
  /\ DOMAIN q.symbols = DOMAIN p.symbols \cup {list[i] : i \in 1..k}
  /\ \A i \in 1..k : ~ Callable(q, list[i]) /\ q.initial[q.symbols[list[i]]] = 0

\* One object more.
LEMMA ObjectsToStep ==
  ASSUME NEW p, Sound(p), NEW list, NEW k \in Nat, NEW q, ObjectsTo(p, q, list, k),
         Sym(list[k + 1]), list[k + 1] \notin DOMAIN p.symbols, list[k + 1][1] # <<"helper">>,
         \A i \in 1..k : list[i] # list[k + 1],
         NEW r, r = DefineData(q, list[k + 1], 0)
  PROVE  ObjectsTo(p, r, list, k + 1)
<1> DEFINE s == list[k + 1]
<1>1. Sound(q) /\ Grows(p, q) /\ s \notin DOMAIN q.symbols /\ Sym(s) /\ s[1] # <<"helper">>
  BY DEF ObjectsTo
<1> HIDE DEF s
<1>2. /\ Sound(r) /\ Grows(q, r)
      /\ DOMAIN r.symbols = DOMAIN q.symbols \cup {s}
      /\ r.functions = q.functions /\ r.blocks = q.blocks
      /\ ~ Callable(r, s) /\ r.initial[r.symbols[s]] = 0
  BY <1>1, DefineDataSound DEF s
<1>3. Grows(p, r)
  BY <1>1, <1>2, GrowsOn
<1>4. {list[i] : i \in 1..(k + 1)} = {list[i] : i \in 1..k} \cup {s}
  <2>1. 1..(k + 1) = 1..k \cup {k + 1}
    OBVIOUS
  <2> QED BY <2>1 DEF s
<1>5. ASSUME NEW i \in 1..(k + 1) PROVE ~ Callable(r, list[i]) /\ r.initial[r.symbols[list[i]]] = 0
  <2>1. CASE i = k + 1
    BY <2>1, <1>2 DEF s
  <2>2. CASE i # k + 1
    <3>1. i \in 1..k
      BY <2>2
    <3>2. list[i] \in DOMAIN q.symbols /\ ~ Callable(q, list[i]) /\ q.initial[q.symbols[list[i]]] = 0
      BY <3>1 DEF ObjectsTo
    <3>3. q.symbols[list[i]] \in DOMAIN q.initial
      BY <3>2, <1>1 DEF Sound, DataApart
    <3>4. r.symbols[list[i]] = q.symbols[list[i]] /\ r.initial[q.symbols[list[i]]] = q.initial[q.symbols[list[i]]]
      BY <3>2, <3>3, <1>2 DEF Grows, Extends
    <3>5. ~ Callable(r, list[i])
      BY <3>2, <1>2 DEF Grows
    <3> QED BY <3>2, <3>4, <3>5
  <2> QED BY <2>1, <2>2
<1> QED BY <1>2, <1>3, <1>4, <1>5 DEF ObjectsTo

\* So do objects.
LEMMA DefineObjectsSound ==
  ASSUME NEW p, Sound(p), NEW list, Len(list) \in Nat,
         \A i \in 1..Len(list) : Sym(list[i]) /\ list[i] \notin DOMAIN p.symbols /\ list[i][1] # <<"helper">>,
         \A i, j \in 1..Len(list) : list[i] = list[j] => i = j
  PROVE  ObjectsTo(p, DefineObjects(p, list), list, Len(list))
<1>0. PICK f : DefineObjectsBy(p, list, f)
  BY DefineObjectsTables
<1>1. /\ DefineObjects(p, list) = f[Len(list)] /\ f[0] = p
      /\ \A i \in 1..Len(list) : f[i] = DefineData(f[i - 1], list[i], 0)
  BY <1>0 DEF DefineObjectsBy
<1> DEFINE K == {k \in Nat : k <= Len(list) => ObjectsTo(p, f[k], list, k)}
<1>2. 0 \in K
  <2>1. ObjectsTo(p, p, list, 0)
    BY GrowsNot DEF ObjectsTo
  <2> QED BY <2>1, <1>1
<1>3. ASSUME NEW k \in Nat, k \in K PROVE k + 1 \in K
  <2>1. SUFFICES ASSUME k + 1 <= Len(list) PROVE ObjectsTo(p, f[k + 1], list, k + 1)
    OBVIOUS
  <2>2. k + 1 \in 1..Len(list) /\ k <= Len(list) /\ (k + 1) - 1 = k /\ \A i \in 1..k : i \in 1..Len(list) /\ i # k + 1
    BY <2>1
  <2>3. ObjectsTo(p, f[k], list, k)
    BY <1>3, <2>2
  <2>4. f[k + 1] = DefineData(f[k], list[k + 1], 0)
    BY <1>1, <2>2
  <2>5. Sym(list[k + 1]) /\ list[k + 1] \notin DOMAIN p.symbols /\ list[k + 1][1] # <<"helper">>
        /\ \A i \in 1..k : list[i] # list[k + 1]
    BY <2>2
  <2> HIDE DEF K
  <2> QED BY <2>3, <2>4, <2>5, ObjectsToStep
<1> HIDE DEF K
<1>4. Len(list) \in K
  BY <1>2, <1>3, NatSets
<1> QED BY <1>1, <1>4 DEF K

\* The descriptor of a function leads to a service.
LEMMA ReplaceFields ==
  ASSUME NEW p, DOMAIN p = Fields, NEW s, NEW q, q = ReplaceWithService(p, s)
  PROVE  /\ DOMAIN q = Fields
         /\ q.functions = p.functions /\ q.blocks = p.blocks /\ q.symbols = p.symbols
         /\ q.hosts = Put(p.hosts, p.nextCode, FastName(s))
         /\ q.initial = Put(p.initial, p.symbols[s], p.nextCode)
         /\ q.nextCode = p.nextCode + 1 /\ q.nextData = p.nextData
BY DEF ReplaceWithService, Fields

FastTo(p, q) ==
  /\ Sound(q)
  /\ q.functions = p.functions /\ q.blocks = p.blocks /\ q.symbols = p.symbols
  /\ q.nextData = p.nextData /\ DOMAIN q.initial = DOMAIN p.initial
  /\ \A x \in DOMAIN p.symbols : Accelerated(p, x) => Accelerated(q, x)
  /\ \A x \in DOMAIN p.symbols : Callable(q, x) = Callable(p, x)
  /\ \A a \in DOMAIN p.initial :
       q.initial[a] = p.initial[a] \/ \E x \in DOMAIN p.symbols : a = p.symbols[x] /\ Accelerated(q, x)

\* A function that is replaced by a service keeps its place; calls of it lead to the service.
LEMMA ReplaceSound ==
  ASSUME NEW p, Sound(p), NEW s \in DOMAIN p.functions, NEW q, q = ReplaceWithService(p, s)
  PROVE  FastTo(p, q)
<1> DOMAIN p = Fields /\ p.nextCode \in Nat /\ p.nextData \in Nat
  BY DEF Sound, Shaped
<1>1. /\ DOMAIN q = Fields
      /\ q.functions = p.functions /\ q.blocks = p.blocks /\ q.symbols = p.symbols
      /\ q.hosts = Put(p.hosts, p.nextCode, FastName(s))
      /\ q.initial = Put(p.initial, p.symbols[s], p.nextCode)
      /\ q.nextCode = p.nextCode + 1 /\ q.nextData = p.nextData
  BY ReplaceFields
<1>2. s \in DOMAIN p.symbols /\ Sym(s) /\ p.symbols[s] \in DOMAIN p.initial
  BY DEF Sound, FunctionsPlaced, DataApart
<1>3. /\ DOMAIN q.initial = DOMAIN p.initial /\ q.initial[p.symbols[s]] = p.nextCode
      /\ \A a \in DOMAIN p.initial : a # p.symbols[s] => q.initial[a] = p.initial[a]
  BY <1>1, <1>2 DEF Put
<1>5. /\ \A c \in DOMAIN p.blocks : c \in Nat /\ c < p.nextCode /\ c \notin DOMAIN p.hosts
      /\ \A c \in DOMAIN p.hosts : c \in Nat /\ c < p.nextCode
  BY DEF Sound, CodesApart
<1>6. /\ DOMAIN q.hosts = DOMAIN p.hosts \cup {p.nextCode} /\ q.hosts[p.nextCode] = FastName(s)
      /\ \A c \in DOMAIN p.hosts : q.hosts[c] = p.hosts[c]
  BY <1>1, <1>5 DEF Put
<1>7. Shaped(q)
  BY <1>1 DEF Shaped
<1>8. CodesApart(q)
  BY <1>1, <1>5, <1>6 DEF CodesApart
<1>9. HostsNamed(q)
  <2>1. ASSUME NEW c \in DOMAIN p.hosts
        PROVE  p.hosts[c] = Halt \/ \E x \in DOMAIN p.symbols : p.hosts[c] = x \/ p.hosts[c] = FastName(x)
    BY DEF HostsNamed, Sound
  <2> QED BY <2>1, <1>1, <1>2, <1>6 DEF HostsNamed
<1>10. FunctionsPlaced(q) /\ DataApart(q)
  BY <1>1, <1>3 DEF Sound, FunctionsPlaced, DataApart
<1>11. ASSUME NEW x \in DOMAIN p.symbols
       PROVE  Serves(q, x) = Serves(p, x) /\ (x # s => Accelerated(q, x) = Accelerated(p, x))
  <2>1. Sym(x)
    BY DEF Sound, DataApart
  <2>2. FastName(s) # x /\ (FastName(s) = FastName(x) => s = x)
    BY <1>2, <2>1, FastNames
  <2> QED BY <2>2, <1>6 DEF Serves, Accelerated
<1>12. Accelerated(q, s)
  BY <1>6 DEF Accelerated
<1>13. ASSUME NEW x \in DOMAIN p.symbols PROVE Callable(q, x) = Callable(p, x)
  BY <1>1, <1>11 DEF Callable
<1>14. HelpersServed(q)
  BY <1>1, <1>13 DEF Sound, HelpersServed
<1>15. CallsLead(q)
  <2>1. ASSUME NEW x, Callable(q, x) PROVE Resolved(q, q.initial[q.symbols[x]]) = Meant(q, x)
    <3>1. CASE x = s
      <4>1. Resolved(q, p.nextCode) = <<"service", FastName(s)>>
        BY <1>6 DEF Resolved
      <4>2. Meant(q, s) = <<"service", FastName(s)>>
        BY <1>12 DEF Meant
      <4> QED BY <3>1, <4>1, <4>2, <1>1, <1>3
    <3>2. CASE x # s
      <4>1. x \in DOMAIN p.symbols
        BY <1>1, <2>1 DEF Callable, Sound, FunctionsPlaced
      <4>2. Callable(p, x) /\ Meant(q, x) = Meant(p, x)
        BY <3>2, <4>1, <2>1, <1>1, <1>11, <1>13 DEF Meant
      <4>3. Resolved(p, p.initial[p.symbols[x]]) = Meant(p, x)
        BY <4>2 DEF Sound, CallsLead
      <4>4. p.symbols[x] \in DOMAIN p.initial /\ p.symbols[x] # p.symbols[s]
        BY <4>1, <1>2, <3>2 DEF Sound, DataApart
      <4>5. q.initial[q.symbols[x]] = p.initial[p.symbols[x]]
        BY <4>4, <1>1, <1>3
      <4>6. ASSUME NEW c, Resolved(p, c) = Meant(p, x) PROVE Resolved(q, c) = Resolved(p, c)
        <5>1. c \in DOMAIN p.hosts \/ c \in DOMAIN p.blocks
          BY <4>6 DEF Resolved, Meant
        <5> QED BY <5>1, <1>1, <1>5, <1>6 DEF Resolved
      <4> QED BY <4>2, <4>3, <4>5, <4>6
    <3> QED BY <3>1, <3>2
  <2> QED BY <2>1 DEF CallsLead
<1>16. Sound(q)
  BY <1>7, <1>8, <1>9, <1>10, <1>14, <1>15 DEF Sound
<1>17. \A x \in DOMAIN p.symbols : Accelerated(p, x) => Accelerated(q, x)
  BY <1>11, <1>12
<1> QED BY <1>1, <1>2, <1>3, <1>12, <1>13, <1>16, <1>17 DEF FastTo

\* So it is for a list of functions.
LEMMA AccelerateSound ==
  ASSUME NEW p, Sound(p), NEW list, Len(list) \in Nat, \A i \in 1..Len(list) : list[i] \in DOMAIN p.functions
  PROVE  FastTo(p, Accelerate(p, list))
<1>0. PICK f : AccelerateBy(p, list, f)
  BY AccelerateTables
<1>1. /\ Accelerate(p, list) = f[Len(list)] /\ f[0] = p
      /\ \A i \in 1..Len(list) : f[i] = ReplaceWithService(f[i - 1], list[i])
  BY <1>0 DEF AccelerateBy
<1> DEFINE K == {k \in Nat : k <= Len(list) => FastTo(p, f[k])}
<1>2. 0 \in K
  <2>1. FastTo(p, p)
    BY DEF FastTo
  <2> QED BY <2>1, <1>1
<1>3. ASSUME NEW k \in Nat, k \in K PROVE k + 1 \in K
  <2>1. SUFFICES ASSUME k + 1 <= Len(list) PROVE FastTo(p, f[k + 1])
    OBVIOUS
  <2>2. k + 1 \in 1..Len(list) /\ k <= Len(list) /\ (k + 1) - 1 = k
    BY <2>1
  <2>3. FastTo(p, f[k])
    BY <1>3, <2>2
  <2>4. f[k + 1] = ReplaceWithService(f[k], list[k + 1])
    BY <1>1, <2>2
  <2>5. Sound(f[k]) /\ list[k + 1] \in DOMAIN f[k].functions
    BY <2>2, <2>3 DEF FastTo
  <2>6. FastTo(f[k], f[k + 1])
    BY <2>4, <2>5, ReplaceSound
  <2> HIDE DEF K
  <2>7. ASSUME NEW q, NEW r, FastTo(p, q), FastTo(q, r) PROVE FastTo(p, r)
    <3>1. \A x \in DOMAIN p.symbols : Accelerated(p, x) => Accelerated(r, x)
      BY <2>7 DEF FastTo
    <3>2. \A x \in DOMAIN p.symbols : Callable(r, x) = Callable(p, x)
      BY <2>7 DEF FastTo
    <3>3. ASSUME NEW a \in DOMAIN p.initial
          PROVE  r.initial[a] = p.initial[a] \/ \E x \in DOMAIN p.symbols : a = p.symbols[x] /\ Accelerated(r, x)
      BY <2>7 DEF FastTo
    <3> QED BY <2>7, <3>1, <3>2, <3>3 DEF FastTo
  <2> QED BY <2>3, <2>6, <2>7
<1> HIDE DEF K
<1>4. Len(list) \in K
  BY <1>2, <1>3, NatSets
<1> QED BY <1>1, <1>4 DEF K

-----------------------------------------------------------------------------
(* Lists of names.                                                         *)

\* A list is indexed from 1.
LEMMA ListFacts ==
  ASSUME NEW list, IsList(list)
  PROVE  Len(list) \in Nat /\ DOMAIN list = 1..Len(list)
BY DEF IsList

\* The names of a list in a namespace.
LEMMA NamedFacts ==
  ASSUME NEW list, IsList(list), NEW ns
  PROVE  /\ Len(Named(ns, list)) = Len(list) /\ Len(Named(ns, list)) \in Nat
         /\ \A i \in 1..Len(list) : Named(ns, list)[i] = <<ns, list[i]>>
         /\ Elements(Named(ns, list)) = {<<ns, n>> : n \in Elements(list)}
         /\ {Named(ns, list)[i] : i \in 1..Len(list)} = {<<ns, n>> : n \in Elements(list)}
<1>1. Len(list) \in Nat /\ DOMAIN list = 1..Len(list)
  BY ListFacts
<1> DEFINE m == Named(ns, list)
<1>2. DOMAIN m = 1..Len(list) /\ \A i \in 1..Len(list) : m[i] = <<ns, list[i]>>
  BY <1>1 DEF Named
<1>3. m \in Seq({<<ns, n>> : n \in Elements(list)})
  BY <1>1 DEF Elements, Named
<1>4. Len(m) = Len(list)
  BY <1>1, <1>2, <1>3
<1> HIDE DEF m
<1>5. Elements(m) = {<<ns, n>> : n \in Elements(list)}
  BY <1>1, <1>2 DEF Elements
<1>6. {m[i] : i \in 1..Len(list)} = {<<ns, n>> : n \in Elements(list)}
  BY <1>1, <1>2 DEF Elements
<1> QED BY <1>1, <1>2, <1>4, <1>5, <1>6 DEF m

\* The tail of a list has elements of the list.
LEMMA TailElements ==
  ASSUME NEW list, IsList(list), list # <<>>
  PROVE  IsList(Tail(list)) /\ Elements(Tail(list)) \subseteq Elements(list)
<1>1. Len(list) \in Nat /\ DOMAIN list = 1..Len(list) /\ list \in Seq(Elements(list))
  BY ListFacts DEF IsList
<1>2. Len(list) # 0
  BY <1>1
<1>3. /\ Tail(list) \in Seq(Elements(list)) /\ Len(Tail(list)) = Len(list) - 1
      /\ \A i \in 1..(Len(list) - 1) : Tail(list)[i] = list[i + 1]
  BY <1>1, <1>2
<1> DEFINE m == Tail(list)
<1>4. DOMAIN m = 1..Len(m) /\ Len(m) \in Nat /\ \A i \in 1..Len(m) : m[i] = list[i + 1] /\ i + 1 \in DOMAIN list
  BY <1>1, <1>2, <1>3
<1>5. m \in Seq(Elements(list))
  BY <1>3
<1> HIDE DEF m
<1>6. Elements(m) \subseteq Elements(list)
  BY <1>4 DEF Elements
<1>7. m \in Seq(Elements(m))
  <2>1. m = [i \in 1..Len(m) |-> m[i]]
    BY <1>4, <1>5
  <2>2. \A i \in 1..Len(m) : m[i] \in Elements(m)
    BY <1>4 DEF Elements
  <2> QED BY <1>4, <2>1, <2>2
<1> QED BY <1>6, <1>7 DEF m, IsList

In(ns, names) == {<<ns, n>> : n \in names}

\* Names in a namespace are symbols.
LEMMA SymIn ==
  ASSUME NEW ns \in Seq(Heads), ns # <<>>, ns[1] \notin {"fast", "halt"}, NEW n
  PROVE  Sym(<<ns, n>>) /\ <<ns, n>>[1] = ns
BY DEF Sym

\* Every function and service a function uses is there, but for the service of a newer runner.
UsesOk(p) ==
  \A f \in DOMAIN p.functions : \A s \in p.functions[f] :
    Callable(p, s) \/ (s = Syscall /\ s \notin DOMAIN p.symbols)

-----------------------------------------------------------------------------
(* Start-up.                                                               *)
KernelSyms == In(<<"kernel">>, Elements(KernelFunctions))
HelperSyms == In(<<"helper">>, Elements(KernelHelpers))

\* Names of the kernel are symbols.
LEMMA KernelSymIs == ASSUME NEW n PROVE Sym(KernelName(n)) /\ KernelName(n)[1] = <<"kernel">>
<1>1. <<"kernel">> \in Seq(Heads) /\ <<"kernel">> # <<>> /\ <<"kernel">>[1] = "kernel"
  BY DEF Heads
<1> QED BY <1>1, SymIn DEF KernelName

\* So are names of runtime helpers.
LEMMA HelperSymIs == ASSUME NEW n PROVE Sym(<<<<"helper">>, n>>)
<1>1. <<"helper">> \in Seq(Heads) /\ <<"helper">> # <<>> /\ <<"helper">>[1] = "helper"
  BY DEF Heads
<1> QED BY <1>1, SymIn

\* Before anything is linked.
LEMMA EmptySound ==
  /\ Sound(EmptyProgram) /\ DOMAIN EmptyProgram.symbols = {} /\ DOMAIN EmptyProgram.functions = {}
<1> CodeBase \in Nat /\ DataBase \in Nat /\ DataBase # 0
  BY LayoutAssumption
<1>1. /\ DOMAIN EmptyProgram = Fields /\ DOMAIN EmptyProgram.symbols = {}
      /\ DOMAIN EmptyProgram.functions = {} /\ DOMAIN EmptyProgram.blocks = {}
      /\ DOMAIN EmptyProgram.initial = {}
      /\ DOMAIN EmptyProgram.hosts = {CodeBase} /\ EmptyProgram.hosts[CodeBase] = Halt
      /\ EmptyProgram.nextCode = CodeBase + 1 /\ EmptyProgram.nextData = DataBase
  BY DEF EmptyProgram, Fields, NoWords
<1>2. Shaped(EmptyProgram)
  BY <1>1 DEF Shaped
<1>3. CodesApart(EmptyProgram)
  BY <1>1 DEF CodesApart
<1>4. DataApart(EmptyProgram)
  BY <1>1 DEF DataApart
<1>5. HostsNamed(EmptyProgram)
  BY <1>1 DEF HostsNamed
<1>6. FunctionsPlaced(EmptyProgram)
  BY <1>1 DEF FunctionsPlaced
<1>7. CallsLead(EmptyProgram) /\ HelpersServed(EmptyProgram)
  BY <1>1 DEF CallsLead, HelpersServed, Callable
<1> QED BY <1>1, <1>2, <1>3, <1>4, <1>5, <1>6, <1>7 DEF Sound

Served == RegisterServices(AddFunctions(EmptyProgram, Named(<<"kernel">>, KernelFunctions), KernelUses),
                           Named(<<"helper">>, KernelHelpers))

\* The kernel and the helpers it uses.
LEMMA ServedSound ==
  /\ Sound(Served) /\ DOMAIN Served.functions = KernelSyms
  /\ DOMAIN Served.symbols = KernelSyms \cup HelperSyms
  /\ \A f \in DOMAIN Served.functions : Served.functions[f] = KernelUses
<1> DEFINE list == Named(<<"kernel">>, KernelFunctions)
           q == AddFunctions(EmptyProgram, list, KernelUses)
<1>1. /\ Len(list) = Len(KernelFunctions) /\ Len(list) \in Nat
      /\ \A i \in 1..Len(list) : list[i] = KernelName(KernelFunctions[i])
      /\ {list[i] : i \in 1..Len(list)} = KernelSyms
      /\ \A i, j \in 1..Len(list) : list[i] = list[j] => i = j
  <2>1. IsList(KernelFunctions) /\ Distinct(KernelFunctions)
    BY KernelAssumption
  <2>2. /\ Len(list) = Len(KernelFunctions) /\ Len(list) \in Nat
        /\ \A i \in 1..Len(KernelFunctions) : list[i] = <<<<"kernel">>, KernelFunctions[i]>>
        /\ {list[i] : i \in 1..Len(KernelFunctions)} = KernelSyms
    BY <2>1, NamedFacts DEF KernelSyms, In
  <2>3. \A i, j \in 1..Len(list) : list[i] = list[j] => i = j
    BY <2>1, <2>2, ListFacts DEF Distinct
  <2> QED BY <2>2, <2>3 DEF KernelName
<1>2. \A i \in 1..Len(list) : Sym(list[i]) /\ list[i] \notin DOMAIN EmptyProgram.symbols
  BY <1>1, KernelSymIs, EmptySound
<1> HIDE DEF list
<1>3. AddedTo(EmptyProgram, q, list, KernelUses, Len(list))
  BY <1>1, <1>2, EmptySound, AddFunctionsSound
<1> HIDE DEF q
<1>4. /\ Sound(q) /\ DOMAIN q.symbols = KernelSyms /\ DOMAIN q.functions = KernelSyms
      /\ \A i \in 1..Len(list) : q.functions[list[i]] = KernelUses
  BY <1>1, <1>3, EmptySound DEF AddedTo
<1>5. \A f \in KernelSyms : q.functions[f] = KernelUses
  BY <1>1, <1>4
<1> DEFINE help == Named(<<"helper">>, KernelHelpers)
<1>6. /\ Len(help) \in Nat
      /\ \A i \in 1..Len(help) : Sym(help[i])
      /\ {help[i] : i \in 1..Len(help)} = HelperSyms
  <2>1. IsList(KernelHelpers)
    BY KernelAssumption
  <2>2. /\ Len(help) = Len(KernelHelpers) /\ Len(help) \in Nat
        /\ \A i \in 1..Len(KernelHelpers) : help[i] = <<<<"helper">>, KernelHelpers[i]>>
        /\ {help[i] : i \in 1..Len(KernelHelpers)} = HelperSyms
    BY <2>1, NamedFacts DEF HelperSyms, In
  <2> QED BY <2>2, HelperSymIs
<1> HIDE DEF help
<1>7. MissingTo(q, RegisterServices(q, help), help, Len(help))
  BY <1>4, <1>6, RegisterServicesSound
<1>8. Served = RegisterServices(q, help)
  BY DEF Served, q, list, help
<1> QED BY <1>4, <1>5, <1>6, <1>7, <1>8 DEF MissingTo

\* The names of the runner's own data and service are free.
LEMMA OwnNames ==
  /\ Sym(Jiffies) /\ Sym(Syscall) /\ Jiffies[1] = <<"kernel">> /\ Syscall[1] = <<"kernel">>
  /\ Jiffies # Syscall
  /\ Jiffies \notin KernelSyms \cup HelperSyms /\ Syscall \notin KernelSyms \cup HelperSyms
<1>1. Sym(Jiffies) /\ Sym(Syscall) /\ Jiffies[1] = <<"kernel">> /\ Syscall[1] = <<"kernel">>
  BY KernelSymIs DEF Jiffies, Syscall
<1>2. Jiffies # Syscall
  BY DEF Jiffies, Syscall, KernelName
<1>3. "jiffies" \notin Elements(KernelFunctions) /\ "user_syscall" \notin Elements(KernelFunctions)
  BY KernelAssumption
<1>4. Jiffies \notin KernelSyms /\ Syscall \notin KernelSyms
  BY <1>3 DEF Jiffies, Syscall, KernelName, KernelSyms, In
<1>5. Jiffies \notin HelperSyms /\ Syscall \notin HelperSyms
  BY DEF Jiffies, Syscall, KernelName, HelperSyms, In
<1> QED BY <1>1, <1>2, <1>4, <1>5

\* What the functions of the kernel use.
LEMMA KernelUsesAre == ASSUME NEW s \in KernelUses PROVE s \in KernelSyms \/ s \in HelperSyms \/ s = Syscall
<1>1. IsList(KernelFunctions) /\ KernelFunctions # <<>> /\ IsList(KernelHelpers)
  BY KernelAssumption
<1>2. IsList(Tail(KernelFunctions)) /\ Elements(Tail(KernelFunctions)) \subseteq Elements(KernelFunctions)
  BY <1>1, TailElements
<1>3. Elements(Named(<<"kernel">>, Tail(KernelFunctions)))
      = {<<<<"kernel">>, n>> : n \in Elements(Tail(KernelFunctions))}
  BY <1>2, NamedFacts
<1>4. Elements(Named(<<"helper">>, KernelHelpers)) = HelperSyms
  BY <1>1, NamedFacts DEF HelperSyms, In
<1> QED BY <1>2, <1>3, <1>4 DEF KernelUses, KernelSyms, In

\* What an accelerated kernel and its data add.
KernelLaid(p) ==
  /\ Sound(p) /\ p.functions = Served.functions /\ p.blocks = Served.blocks
  /\ DOMAIN p.symbols = KernelSyms \cup HelperSyms \cup {Jiffies} /\ ~ Callable(p, Jiffies)

LaidBy(p) == DefineData(p, Jiffies, 1)

\* The runner's datum keeps the kernel sound.
LEMMA LaidSound ==
  ASSUME NEW p, Sound(p), p.functions = Served.functions, p.blocks = Served.blocks,
         DOMAIN p.symbols = KernelSyms \cup HelperSyms
  PROVE  KernelLaid(LaidBy(p)) /\ Grows(p, LaidBy(p))
<1>1. Jiffies \notin DOMAIN p.symbols /\ Sym(Jiffies) /\ Jiffies[1] # <<"helper">>
  BY OwnNames
<1>2. /\ Sound(LaidBy(p)) /\ Grows(p, LaidBy(p))
      /\ DOMAIN LaidBy(p).symbols = DOMAIN p.symbols \cup {Jiffies}
      /\ LaidBy(p).functions = p.functions /\ LaidBy(p).blocks = p.blocks
      /\ ~ Callable(LaidBy(p), Jiffies)
  BY <1>1, DefineDataSound DEF LaidBy
<1> QED BY <1>2 DEF KernelLaid

Faster == Accelerate(Served, Named(<<"kernel">>, KernelFast))

\* The accelerated kernel is the kernel but for the descriptors of what is accelerated.
LEMMA FasterSound == FastTo(Served, Faster)
<1> DEFINE list == Named(<<"kernel">>, KernelFast)
<1>1. IsList(KernelFast) /\ Elements(KernelFast) \subseteq Elements(KernelFunctions)
  BY KernelAssumption
<1>2. /\ Len(list) = Len(KernelFast) /\ Len(list) \in Nat
      /\ {list[i] : i \in 1..Len(KernelFast)} = {<<<<"kernel">>, n>> : n \in Elements(KernelFast)}
  BY <1>1, NamedFacts
<1>3. \A i \in 1..Len(list) : list[i] \in DOMAIN Served.functions
  <2>1. DOMAIN Served.functions = {<<<<"kernel">>, n>> : n \in Elements(KernelFunctions)}
    BY ServedSound DEF KernelSyms, In
  <2> HIDE DEF list
  <2>2. \A i \in 1..Len(list) : list[i] \in {<<<<"kernel">>, n>> : n \in Elements(KernelFast)}
    BY <1>2
  <2> QED BY <2>1, <2>2, <1>1
<1> HIDE DEF list
<1>4. FastTo(Served, Accelerate(Served, list))
  BY <1>2, <1>3, ServedSound, AccelerateSound
<1> QED BY <1>4 DEF Faster, list

\* The two programs a runner starts with.
LEMMA BootIs ==
  /\ Booted[1] = LaidBy(Served) /\ Booted[2] = RegisterService(LaidBy(Faster), Syscall)
BY DEF Booted, Boot, LaidBy, Served, Faster

\* Both programs a runner starts with are sound; the newer one has one more service.
LEMMA BootSound ==
  /\ KernelLaid(Booted[1])
  /\ KernelLaid(LaidBy(Faster)) /\ Sound(Booted[2]) /\ Grows(LaidBy(Faster), Booted[2])
  /\ DOMAIN Booted[2].symbols = KernelSyms \cup HelperSyms \cup {Jiffies, Syscall}
  /\ Booted[2].functions = Served.functions /\ Booted[2].blocks = Served.blocks
  /\ Callable(Booted[2], Syscall) /\ ~ Callable(Booted[2], Jiffies)
<1>1. KernelLaid(Booted[1])
  BY LaidSound, ServedSound, BootIs
<1>2. KernelLaid(LaidBy(Faster))
  BY LaidSound, ServedSound, FasterSound DEF FastTo
<1> DEFINE p == LaidBy(Faster)
<1>3. Sound(p) /\ Syscall \notin DOMAIN p.symbols /\ Sym(Syscall)
  BY <1>2, OwnNames DEF KernelLaid
<1>4. Booted[2] = RegisterService(p, Syscall)
  BY BootIs
<1> HIDE DEF p
<1>5. /\ Sound(Booted[2]) /\ Grows(p, Booted[2])
      /\ DOMAIN Booted[2].symbols = DOMAIN p.symbols \cup {Syscall}
      /\ Booted[2].functions = p.functions /\ Booted[2].blocks = p.blocks
      /\ Callable(Booted[2], Syscall)
  BY <1>3, <1>4, RegisterServiceSound
<1>6. ~ Callable(Booted[2], Jiffies)
  BY <1>2, <1>5 DEF Grows, KernelLaid, p
<1> QED BY <1>1, <1>2, <1>5, <1>6 DEF KernelLaid, p

\* What holds of either.
LEMMA BootedFacts ==
  ASSUME NEW g \in {1, 2}
  PROVE  /\ Sound(Booted[g]) /\ UsesOk(Booted[g])
         /\ DOMAIN Booted[g].functions = KernelSyms
         /\ Jiffies \in DOMAIN Booted[g].symbols /\ ~ Callable(Booted[g], Jiffies)
         /\ \A s \in DOMAIN Booted[g].symbols : s[1] = <<"kernel">> \/ s[1] = <<"helper">>
<1>1. Sound(Booted[g]) /\ DOMAIN Booted[g].functions = KernelSyms /\ ~ Callable(Booted[g], Jiffies)
      /\ Booted[g].functions = Served.functions
  BY BootSound, ServedSound DEF KernelLaid
<1>2. /\ KernelSyms \cup HelperSyms \cup {Jiffies} \subseteq DOMAIN Booted[g].symbols
      /\ DOMAIN Booted[g].symbols \subseteq KernelSyms \cup HelperSyms \cup {Jiffies, Syscall}
  BY BootSound DEF KernelLaid
<1>3. \A s \in DOMAIN Booted[g].symbols : s[1] = <<"kernel">> \/ s[1] = <<"helper">>
  <2>1. \A s \in KernelSyms : s[1] = <<"kernel">>
    BY DEF KernelSyms, In
  <2>2. \A s \in HelperSyms : s[1] = <<"helper">>
    BY DEF HelperSyms, In
  <2> QED BY <2>1, <2>2, <1>2, OwnNames
<1>4. Callable(Booted[g], Syscall) \/ Syscall \notin DOMAIN Booted[g].symbols
  <2>1. CASE g = 1
    BY <2>1, BootSound, OwnNames DEF KernelLaid
  <2>2. CASE g = 2
    BY <2>2, BootSound
  <2> QED BY <2>1, <2>2
<1>5. \A s \in HelperSyms : Callable(Booted[g], s)
  <2>1. \A s \in HelperSyms : s[1] = <<"helper">>
    BY DEF HelperSyms, In
  <2> QED BY <2>1, <1>1, <1>2 DEF Sound, HelpersServed
<1>6. \A s \in KernelSyms : Callable(Booted[g], s)
  BY <1>1 DEF Callable
<1>7. UsesOk(Booted[g])
  <2>1. ASSUME NEW f \in DOMAIN Booted[g].functions, NEW s \in Booted[g].functions[f]
        PROVE  Callable(Booted[g], s) \/ (s = Syscall /\ s \notin DOMAIN Booted[g].symbols)
    <3>1. s \in KernelUses
      BY <1>1, ServedSound
    <3> QED BY <3>1, <1>4, <1>5, <1>6, KernelUsesAre
  <2> QED BY <2>1 DEF UsesOk
<1> QED BY <1>1, <1>2, <1>3, <1>7

\* A newer runner has the functions of an older one at the same places.
Newer(b, c) ==
  /\ c.functions = b.functions /\ c.blocks = b.blocks /\ Extends(b.symbols, c.symbols)
  /\ DOMAIN b.initial \subseteq DOMAIN c.initial
  /\ \A a \in DOMAIN c.initial :
       a \in ServiceDescriptors(c) \/ (a \in DOMAIN b.initial /\ b.initial[a] = c.initial[a])

\* The descriptor of a service or of an accelerated function is one that a restart refreshes.
LEMMA InServiceDescriptors ==
  ASSUME NEW c, NEW x \in DOMAIN c.symbols, Serves(c, x) \/ Accelerated(c, x)
  PROVE  c.symbols[x] \in ServiceDescriptors(c)
BY DEF ServiceDescriptors, Serves, Accelerated

\* The program of a later runner is newer, or the same.
LEMMA BootNewer ==
  ASSUME NEW g \in {1, 2}, NEW h \in {1, 2}, g <= h
  PROVE  Newer(Booted[g], Booted[h])
<1>1. CASE g = h
  BY <1>1 DEF Newer, Extends
<1>2. CASE g = 1 /\ h = 2
  <2> DEFINE b == Booted[1]
             m == LaidBy(Faster)
             c == Booted[2]
  <2>1. /\ b.functions = Served.functions /\ b.blocks = Served.blocks
        /\ b.symbols = Put(Served.symbols, Jiffies, Served.nextData)
        /\ b.initial = Put(Served.initial, Served.nextData, 1)
        /\ b.nextData = Served.nextData + 1
    <3>1. DOMAIN Served = Fields
      BY ServedSound DEF Sound, Shaped
    <3> QED BY <3>1, BootIs, DefineDataFields DEF LaidBy
  <2>2. /\ Faster.nextData = Served.nextData /\ Faster.symbols = Served.symbols
        /\ DOMAIN Faster.initial = DOMAIN Served.initial /\ DOMAIN Faster = Fields
    BY FasterSound DEF FastTo, Sound, Shaped
  <2>3. /\ m.functions = Faster.functions /\ m.blocks = Faster.blocks /\ m.hosts = Faster.hosts
        /\ m.symbols = Put(Served.symbols, Jiffies, Served.nextData)
        /\ m.initial = Put(Faster.initial, Served.nextData, 1)
        /\ m.nextData = Served.nextData + 1 /\ DOMAIN m = Fields
    BY <2>2, DefineDataFields DEF LaidBy
  <2> HIDE DEF m
  <2>4. /\ c.functions = Served.functions /\ c.blocks = Served.blocks
        /\ c.hosts = Put(m.hosts, m.nextCode, Syscall)
        /\ c.symbols = Put(m.symbols, Syscall, m.nextData)
        /\ c.initial = Put(m.initial, m.nextData, m.nextCode)
    <3>1. c = RegisterService(m, Syscall)
      BY BootIs DEF m
    <3>2. c.functions = Served.functions /\ c.blocks = Served.blocks
      BY BootSound
    <3> HIDE DEF c
    <3> QED BY <3>1, <3>2, <2>3, RegisterServiceFields
  <2>5. Syscall \notin DOMAIN m.symbols /\ m.symbols = b.symbols
    <3>1. Syscall \notin DOMAIN m.symbols
      BY BootSound, OwnNames DEF KernelLaid, m
    <3> QED BY <3>1, <2>1, <2>3
  <2>6. /\ DOMAIN m.initial = DOMAIN b.initial
        /\ \A a \in DOMAIN Served.initial :
             a # Served.nextData => m.initial[a] = Faster.initial[a] /\ b.initial[a] = Served.initial[a]
        /\ m.initial[Served.nextData] = b.initial[Served.nextData]
        /\ DOMAIN b.initial = DOMAIN Served.initial \cup {Served.nextData}
    BY <2>1, <2>2, <2>3 DEF Put
  <2>7. \A a \in DOMAIN Served.initial : a \in Nat /\ a < Served.nextData
    BY ServedSound DEF Sound, DataApart
  <2>8. Served.nextData \in Nat
    BY ServedSound DEF Sound, Shaped
  <2>9. /\ DOMAIN c.initial = DOMAIN m.initial \cup {m.nextData}
        /\ \A a \in DOMAIN m.initial : c.initial[a] = m.initial[a]
    <3>1. m.nextData \notin DOMAIN m.initial
      BY <2>3, <2>6, <2>7, <2>8
    <3> QED BY <3>1, <2>4 DEF Put
  <2>10. /\ DOMAIN c.symbols = DOMAIN b.symbols \cup {Syscall}
         /\ c.symbols[Syscall] = m.nextData
         /\ \A x \in DOMAIN b.symbols : c.symbols[x] = b.symbols[x]
    BY <2>4, <2>5 DEF Put
  <2>11. Extends(b.symbols, c.symbols)
    BY <2>10 DEF Extends
  <2>12. m.nextCode \notin DOMAIN m.hosts
    <3>1. Sound(m)
      BY BootSound DEF KernelLaid, m
    <3>2. m.nextCode \in Nat
      BY <3>1 DEF Sound, Shaped
    <3> QED BY <3>1, <3>2 DEF Sound, CodesApart
  <2>13. \A x : Accelerated(Faster, x) => Accelerated(c, x)
    BY <2>3, <2>4, <2>12 DEF Put, Accelerated
  <2>14. Serves(c, Syscall)
    BY <2>4 DEF Serves, Put
  <2>15. ASSUME NEW a \in DOMAIN c.initial
         PROVE  a \in ServiceDescriptors(c) \/ (a \in DOMAIN b.initial /\ b.initial[a] = c.initial[a])
    <3>1. CASE a = m.nextData
      <4>1. Syscall \in DOMAIN c.symbols
        BY <2>10
      <4> HIDE DEF c
      <4> QED BY <3>1, <4>1, <2>10, <2>14, InServiceDescriptors
    <3>2. CASE a \in DOMAIN m.initial /\ a = Served.nextData
      BY <3>2, <2>6, <2>9
    <3>3. CASE a \in DOMAIN m.initial /\ a # Served.nextData
      <4>1. a \in DOMAIN Served.initial
        BY <3>3, <2>6
      <4>2. c.initial[a] = Faster.initial[a] /\ b.initial[a] = Served.initial[a]
        BY <3>3, <4>1, <2>6, <2>9
      <4>3. CASE Faster.initial[a] = Served.initial[a]
        BY <3>3, <4>2, <4>3, <2>6
      <4>4. CASE \E x \in DOMAIN Served.symbols : a = Served.symbols[x] /\ Accelerated(Faster, x)
        <5>1. PICK x \in DOMAIN Served.symbols : a = Served.symbols[x] /\ Accelerated(Faster, x)
          BY <4>4
        <5>2. x # Jiffies
          BY ServedSound, OwnNames
        <5>3. x \in DOMAIN b.symbols /\ b.symbols[x] = Served.symbols[x]
          BY <5>2, <2>1 DEF Put
        <5>4. x \in DOMAIN c.symbols /\ c.symbols[x] = a /\ Accelerated(c, x)
          BY <5>1, <5>3, <2>10, <2>13
        <5> HIDE DEF c
        <5> QED BY <5>4, InServiceDescriptors
      <4> QED BY <4>1, <4>3, <4>4, FasterSound DEF FastTo
    <3> QED BY <3>1, <3>2, <3>3, <2>9
  <2>16. DOMAIN b.initial \subseteq DOMAIN c.initial
    BY <2>6, <2>9
  <2>17. c.functions = b.functions /\ c.blocks = b.blocks
    BY <2>1, <2>4
  <2> HIDE DEF b, c
  <2>18. Newer(b, c)
    BY <2>11, <2>15, <2>16, <2>17 DEF Newer
  <2> QED BY <1>2, <2>18 DEF b, c
<1> QED BY <1>1, <1>2

-----------------------------------------------------------------------------
(* Namespaces.                                                             *)
NsOk(ns) == ns \in Seq(Heads) /\ ns # <<>> /\ ns[1] \in {"user", "exec"}

\* Symbols of a payload are symbols of neither kernel nor helpers.
LEMMA NsFacts ==
  ASSUME NEW ns, NsOk(ns)
  PROVE  /\ ns # <<"kernel">> /\ ns # <<"helper">>
         /\ \A n : Sym(<<ns, n>>) /\ <<ns, n>>[1] = ns
<1>1. ns # <<"kernel">> /\ ns # <<"helper">>
  BY DEF NsOk
<1>2. ns \in Seq(Heads) /\ ns # <<>> /\ ns[1] \notin {"fast", "halt"}
  BY DEF NsOk
<1> QED BY <1>1, <1>2, SymIn

PayloadNames(p) ==
  Elements(Functions(p)) \cup Elements(Externals(p)) \cup Elements(Objects(p))
    \cup (IF HasImage(p) THEN {"environ", "errno"} ELSE {})

FreeNames(q, p, ns) == \A n \in PayloadNames(p) : <<ns, n>> \notin DOMAIN q.symbols

\* The elements of two lists.
LEMMA ConcatElements ==
  ASSUME NEW l, IsList(l), NEW m, IsList(m)
  PROVE  IsList(l \o m) /\ Elements(l \o m) = Elements(l) \cup Elements(m)
<1> DEFINE S == Elements(l) \cup Elements(m)
           r == l \o m
<1>1. l \in Seq(S) /\ m \in Seq(S)
  BY DEF IsList
<1>2. /\ Len(l) \in Nat /\ Len(m) \in Nat /\ DOMAIN l = 1..Len(l) /\ DOMAIN m = 1..Len(m)
  BY ListFacts
<1>3. /\ r \in Seq(S) /\ Len(r) = Len(l) + Len(m)
      /\ \A i \in 1..Len(l) : r[i] = l[i]
      /\ \A i \in 1..Len(m) : r[Len(l) + i] = m[i]
  <2> HIDE DEF S
  <2> QED BY <1>1, <1>2
<1>4. DOMAIN r = 1..Len(r)
  <2> HIDE DEF S, r
  <2> QED BY <1>3
<1> HIDE DEF r
<1>5. Elements(r) \subseteq S
  <2>1. ASSUME NEW i \in 1..Len(r) PROVE r[i] \in S
    <3>1. CASE i <= Len(l)
      BY <3>1, <1>2, <1>3, <1>4 DEF Elements
    <3>2. CASE i > Len(l)
      <4>1. i - Len(l) \in 1..Len(m) /\ Len(l) + (i - Len(l)) = i
        BY <3>2, <1>2, <1>3
      <4>2. r[i] = m[i - Len(l)]
        BY <4>1, <1>3
      <4> QED BY <4>1, <4>2, <1>2 DEF Elements
    <3> QED BY <3>1, <3>2, <1>2, <1>3
  <2> QED BY <2>1, <1>4 DEF Elements
<1>6. S \subseteq Elements(r)
  <2>1. \A i \in 1..Len(l) : l[i] \in Elements(r)
    <3>1. ASSUME NEW i \in 1..Len(l) PROVE l[i] \in Elements(r)
      <4>1. i \in DOMAIN r /\ r[i] = l[i]
        BY <1>2, <1>3, <1>4
      <4> QED BY <4>1 DEF Elements
    <3> QED BY <3>1
  <2>2. \A i \in 1..Len(m) : m[i] \in Elements(r)
    <3>1. ASSUME NEW i \in 1..Len(m) PROVE m[i] \in Elements(r)
      <4>1. Len(l) + i \in DOMAIN r /\ r[Len(l) + i] = m[i]
        BY <1>2, <1>3, <1>4
      <4> QED BY <4>1 DEF Elements
    <3> QED BY <3>1
  <2> QED BY <2>1, <2>2, <1>2 DEF Elements
<1>7. Elements(r) = S
  BY <1>5, <1>6
<1>8. IsList(r)
  BY <1>3, <1>7 DEF IsList
<1> QED BY <1>7, <1>8 DEF r

\* A symbol in the namespace of a task's instance exists only with the instance, and the cell of
\* errno in the base namespace only with the environment.
OwnOnly ==
  /\ \A s \in DOMAIN program.symbols : \A t \in Tasks, p \in Payloads :
       s[1] = Own(t, p) => <<t, p>> \in DOMAIN instances
  /\ <<Base, "errno">> \in DOMAIN program.symbols => <<Base, "environ">> \in DOMAIN program.symbols

\* Suffixed names differ by their length.
LEMMA SuffixedFacts ==
  ASSUME NEW n \in Nat
  PROVE  NsOk(Suffixed(n)) /\ Len(Suffixed(n)) = n + 1
<1> DEFINE s == [i \in 1..n |-> "again"]
<1>1. "again" \in Heads /\ "user" \in Heads
  BY DEF Heads
<1>2. s \in Seq(Heads) /\ Len(s) = n
  BY <1>1
<1>3. Base \in Seq(Heads) /\ Len(Base) = 1 /\ Base[1] = "user"
  BY <1>1 DEF Base
<1> HIDE DEF s
<1>4. Base \o s \in Seq(Heads) /\ Len(Base \o s) = n + 1 /\ (Base \o s)[1] = "user"
  <2>1. ASSUME NEW S, NEW u \in Seq(S), NEW v \in Seq(S), Len(u) = 1
        PROVE  u \o v \in Seq(S) /\ Len(u \o v) = 1 + Len(v) /\ (u \o v)[1] = u[1]
    <3>1. u \o v \in Seq(S) /\ Len(v) \in Nat
      OBVIOUS
    <3>2. Len(u \o v) = Len(u) + Len(v)
      OBVIOUS
    <3>3. \A i \in 1..Len(u) : (u \o v)[i] = u[i]
      OBVIOUS
    <3>4. (u \o v)[1] = u[1]
      BY <2>1, <3>3
    <3> QED BY <2>1, <3>1, <3>2, <3>4
  <2>2. Base \o s \in Seq(Heads) /\ Len(Base \o s) = 1 + Len(s) /\ (Base \o s)[1] = Base[1]
    BY <1>2, <1>3, <2>1
  <2> QED BY <1>2, <1>3, <2>2
<1>5. Suffixed(n) = Base \o s
  BY DEF Suffixed, s
<1>6. Base \o s # <<>>
  BY <1>4
<1> QED BY <1>4, <1>5, <1>6 DEF NsOk

\* A program has finitely many symbols.
LEMMA SymbolsFinite ==
  ASSUME NEW p, Sound(p)
  PROVE  IsFiniteSet(DOMAIN p.symbols) /\ Cardinality(DOMAIN p.symbols) \in Nat
<1> DEFINE f == [s \in DOMAIN p.symbols |-> p.symbols[s]]
<1>1. p.nextData \in Nat
  BY DEF Sound, Shaped
<1>2. \A s \in DOMAIN p.symbols : p.symbols[s] \in 0..p.nextData
  BY <1>1 DEF Sound, DataApart
<1>3. f \in Injection(DOMAIN p.symbols, 0..p.nextData)
  <2>1. f \in [DOMAIN p.symbols -> 0..p.nextData]
    BY <1>2
  <2>2. \A a, b \in DOMAIN p.symbols : f[a] = f[b] => a = b
    BY DEF Sound, DataApart
  <2> QED BY <2>1, <2>2 DEF Injection, IsInjective
<1>4. IsFiniteSet(0..p.nextData)
  BY <1>1, FS_Interval
<1>5. IsFiniteSet(DOMAIN p.symbols)
  BY <1>3, <1>4, FS_Injection
<1> QED BY <1>5, FS_CardinalityType

\* There is a first suffix that is free.
LEMMA SuffixFree ==
  ASSUME Sound(program), NEW f
  PROVE  FreeSuffix(f) \in Nat /\ <<Suffixed(FreeSuffix(f)), f>> \notin DOMAIN program.symbols
<1> DEFINE N == Cardinality(DOMAIN program.symbols)
           L(n) == <<Suffixed(n), f>> \in DOMAIN program.symbols
           Free == {n \in 0..N : ~ L(n)}
<1>1. N \in Nat /\ IsFiniteSet(DOMAIN program.symbols)
  BY SymbolsFinite
<1>2. Free # {}
  <2> SUFFICES ASSUME Free = {} PROVE FALSE
    OBVIOUS
  <2> DEFINE g == [n \in 0..N |-> <<Suffixed(n), f>>]
  <2>1. g \in [0..N -> DOMAIN program.symbols]
    OBVIOUS
  <2>2. IsFiniteSet(0..N) /\ Cardinality(0..N) = N + 1
    BY <1>1, FS_Interval
  <2>3. Cardinality(DOMAIN program.symbols) < Cardinality(0..N)
    BY <1>1, <2>2
  <2>4. \A x, y \in 0..N : x # y => g[x] # g[y]
    <3>1. ASSUME NEW x \in 0..N, NEW y \in 0..N, x # y PROVE Suffixed(x) # Suffixed(y)
      <4>1. x \in Nat /\ y \in Nat
        BY <1>1
      <4>2. Len(Suffixed(x)) = x + 1 /\ Len(Suffixed(y)) = y + 1
        BY <4>1, SuffixedFacts
      <4> QED BY <3>1, <4>1, <4>2
    <3> QED BY <3>1
  <2> HIDE DEF g, N
  <2> QED BY <1>1, <2>1, <2>2, <2>3, <2>4, FS_PigeonHole
<1>3. PICK n \in Free : \A k \in Free : ~ (<<k, n>> \in OpToRel(<, Nat))
  <2>1. Free \subseteq Nat
    BY <1>1
  <2>2. IsWellFoundedOn(OpToRel(<, Nat), Nat)
    BY NatLessThanWellFounded
  <2> HIDE DEF OpToRel, Free
  <2> QED BY <1>2, <2>1, <2>2, WFMin, Zenon
<1>4. n \in 0..N /\ ~ Linked(program, <<Suffixed(n), f>>)
  BY DEF Linked
<1>5. ASSUME NEW k \in 0..(n - 1) PROVE Linked(program, <<Suffixed(k), f>>)
  <2>1. k \in Nat /\ n \in Nat /\ k < n /\ k \in 0..N
    BY <1>1, <1>4
  <2>2. <<k, n>> \in OpToRel(<, Nat)
    BY <2>1 DEF OpToRel
  <2>3. k \notin Free
    BY <1>3, <2>2
  <2> QED BY <2>1, <2>3 DEF Linked
<1>6. FreeSuffix(f) \in 0..N /\ ~ Linked(program, <<Suffixed(FreeSuffix(f)), f>>)
  <2> DEFINE P(m) == /\ ~ Linked(program, <<Suffixed(m), f>>)
                     /\ \A k \in 0..(m - 1) : Linked(program, <<Suffixed(k), f>>)
  <2>1. P(n)
    BY <1>4, <1>5
  <2>2. FreeSuffix(f) = CHOOSE m \in 0..N : P(m)
    BY DEF FreeSuffix
  <2> HIDE DEF P, N
  <2>3. FreeSuffix(f) \in 0..N /\ P(FreeSuffix(f))
    BY <1>4, <2>1, <2>2
  <2> QED BY <2>3 DEF P
<1> QED BY <1>1, <1>6 DEF Linked

\* Unless probes are loose, the names of a payload are free where an exec that is not refused puts
\* them; a payload with a module image has code and data in one namespace.
LEMMA NamespaceFree ==
  ASSUME ~ LooseProbes, Sound(program), OwnOnly, NEW t \in Tasks, NEW p \in Payloads,
         <<t, p>> \notin DOMAIN instances, Moves(p) => HasImage(p)
  PROVE  /\ NsOk(Namespace(t, p)) /\ NsOk(CodeSpace(t, p))
         /\ HasImage(p) => Namespace(t, p) = CodeSpace(t, p)
         /\ FreeNames(program, p, CodeSpace(t, p))
<1> DEFINE ns == Namespace(t, p)
           cs == CodeSpace(t, p)
<1>1. /\ IsList(Functions(p)) /\ IsList(Externals(p)) /\ IsList(Objects(p)) /\ Functions(p) # <<>>
      /\ ~ HasImage(p) => Externals(p) = <<>> /\ Objects(p) = <<>>
      /\ IsProbe(p) => ~ HasImage(p)
  BY PayloadAssumption, ProbesAssumption
<1>2. NsOk(Base) /\ NsOk(Own(t, p))
  BY DEF NsOk, Own, Base, Heads
<1>3. NsOk(ns)
  BY <1>2 DEF Namespace
<1>4. CASE ~ IsProbe(p) /\ Collides(p)
  <2>1. ns = Own(t, p) /\ cs = ns
    BY <1>4 DEF Namespace, CodeSpace, Moves
  <2>2. FreeNames(program, p, cs)
    <3>1. ASSUME NEW n, <<cs, n>> \in DOMAIN program.symbols PROVE FALSE
      <4>1. <<cs, n>>[1] = Own(t, p)
        BY <2>1
      <4> HIDE DEF ns, cs
      <4> QED BY <3>1, <4>1 DEF OwnOnly
    <3> QED BY <3>1 DEF FreeNames
  <2> QED BY <1>3, <2>1, <2>2
<1>5. CASE ~ IsProbe(p) /\ ~ Collides(p)
  <2>1. ns = Base /\ cs = ns
    BY <1>5 DEF Namespace, CodeSpace, Moves
  <2>2. ASSUME NEW n \in PayloadNames(p), n # "errno" \/ ~ HasImage(p) PROVE <<Base, n>> \in Candidates(p)
    <3> DEFINE list == Functions(p) \o Objects(p) \o Externals(p)
    <3>1. IsList(list) /\ Elements(list) = Elements(Functions(p)) \cup Elements(Objects(p)) \cup Elements(Externals(p))
      BY <1>1, ConcatElements
    <3> HIDE DEF list
    <3>2. Elements(Named(Base, list)) = {<<Base, m>> : m \in Elements(list)}
      BY <3>1, NamedFacts
    <3>3. Candidates(p) = Elements(Named(Base, list)) \cup (IF HasImage(p) THEN {<<Base, "environ">>} ELSE {})
      BY DEF Candidates, list
    <3> QED BY <2>2, <3>1, <3>2, <3>3 DEF PayloadNames
  <2>3. \A n \in PayloadNames(p) : n # "errno" \/ ~ HasImage(p) => <<Base, n>> \notin DOMAIN program.symbols
    BY <1>5, <2>2 DEF Collides, Linked
  <2>4. HasImage(p) => <<Base, "errno">> \notin DOMAIN program.symbols
    BY <2>3 DEF OwnOnly, PayloadNames
  <2>5. FreeNames(program, p, cs)
    BY <2>1, <2>3, <2>4 DEF FreeNames
  <2> QED BY <1>3, <2>1, <2>5
<1>6. CASE IsProbe(p)
  <2> DEFINE f == Functions(p)[1]
  <2>1. cs = Suffixed(FreeSuffix(f)) /\ ~ HasImage(p)
    BY <1>1, <1>6 DEF CodeSpace
  <2>2. FreeSuffix(f) \in Nat /\ <<Suffixed(FreeSuffix(f)), f>> \notin DOMAIN program.symbols
    BY SuffixFree
  <2>3. NsOk(cs)
    BY <2>1, <2>2, SuffixedFacts
  <2>4. PayloadNames(p) = {f}
    <3>1. DOMAIN Functions(p) = 1..1
      BY <1>1, <1>6, ListFacts DEF IsProbe
    <3>2. Elements(Functions(p)) = {f}
      BY <3>1 DEF Elements
    <3>3. Elements(Externals(p)) = {} /\ Elements(Objects(p)) = {}
      BY <1>1, <2>1 DEF Elements
    <3> QED BY <2>1, <3>2, <3>3 DEF PayloadNames
  <2>5. FreeNames(program, p, cs)
    BY <2>1, <2>2, <2>4 DEF FreeNames
  <2> QED BY <1>3, <2>1, <2>3, <2>5
<1> QED BY <1>4, <1>5, <1>6

-----------------------------------------------------------------------------
(* The stages of an exec.                                                  *)

\* A program whose data end later is as sound.
LEMMA BasedSound ==
  ASSUME NEW p, Sound(p), NEW base \in Nat, p.nextData <= base
  PROVE  /\ Sound([p EXCEPT !.nextData = base]) /\ Grows(p, [p EXCEPT !.nextData = base])
         /\ [p EXCEPT !.nextData = base].symbols = p.symbols
         /\ [p EXCEPT !.nextData = base].functions = p.functions
         /\ [p EXCEPT !.nextData = base].blocks = p.blocks
         /\ [p EXCEPT !.nextData = base].nextData = base
<1> DEFINE q == [p EXCEPT !.nextData = base]
<1>1. DOMAIN p = Fields /\ p.nextCode \in Nat /\ p.nextData \in Nat
  BY DEF Sound, Shaped
<1>2. /\ DOMAIN q = Fields /\ q.functions = p.functions /\ q.blocks = p.blocks /\ q.hosts = p.hosts
      /\ q.symbols = p.symbols /\ q.initial = p.initial /\ q.nextCode = p.nextCode
      /\ q.nextData = base
  BY <1>1 DEF Fields
<1> HIDE DEF q
<1>3. Shaped(q)
  BY <1>1, <1>2 DEF Shaped
<1>4. CodesApart(q) /\ HostsNamed(q) /\ FunctionsPlaced(q)
  BY <1>2 DEF Sound, CodesApart, HostsNamed, FunctionsPlaced
<1>5. DataApart(q)
  <2>1. \A a \in DOMAIN p.initial : a \in Nat \ {0} /\ a < base
    BY <1>1 DEF Sound, DataApart
  <2>2. base # 0
    BY <1>1 DEF Sound, DataApart
  <2> QED BY <1>2, <2>1, <2>2 DEF Sound, DataApart
<1>6. ASSUME NEW s PROVE Callable(q, s) = Callable(p, s) /\ Meant(q, s) = Meant(p, s)
  BY <1>2 DEF Callable, Serves, Meant, Accelerated
<1>7. CallsLead(q) /\ HelpersServed(q)
  BY <1>2, <1>6 DEF Sound, CallsLead, HelpersServed, Resolved
<1>8. Sound(q)
  BY <1>3, <1>4, <1>5, <1>7 DEF Sound
<1>9. Grows(p, q)
  BY <1>2, <1>6 DEF Grows, Extends
<1> QED BY <1>2, <1>8, <1>9 DEF q

Overwritten(p, words, q) ==
  /\ q = [p EXCEPT !.initial = Over(words, @)]
  /\ DOMAIN words \subseteq DOMAIN p.initial
  /\ \A s : Callable(p, s) => p.symbols[s] \notin DOMAIN words

\* Words of data that no call goes through may be written anew.
LEMMA Rewritten ==
  ASSUME NEW p, Sound(p), NEW words, NEW q, Overwritten(p, words, q)
  PROVE  /\ Sound(q) /\ q.functions = p.functions /\ q.blocks = p.blocks /\ q.hosts = p.hosts
         /\ q.symbols = p.symbols /\ q.nextData = p.nextData /\ q.nextCode = p.nextCode
         /\ DOMAIN q.initial = DOMAIN p.initial
         /\ \A a \in DOMAIN words : q.initial[a] = words[a]
         /\ \A a \in DOMAIN p.initial : a \notin DOMAIN words => q.initial[a] = p.initial[a]
         /\ \A s : Callable(q, s) = Callable(p, s) /\ Meant(q, s) = Meant(p, s)
<1>1. DOMAIN p = Fields /\ p.nextCode \in Nat /\ p.nextData \in Nat
  BY DEF Sound, Shaped
<1>2. /\ DOMAIN q = Fields /\ q.functions = p.functions /\ q.blocks = p.blocks /\ q.hosts = p.hosts
      /\ q.symbols = p.symbols /\ q.initial = Over(words, p.initial) /\ q.nextCode = p.nextCode
      /\ q.nextData = p.nextData
  BY <1>1 DEF Fields, Overwritten
<1>3. /\ DOMAIN q.initial = DOMAIN p.initial
      /\ \A a \in DOMAIN words : q.initial[a] = words[a]
      /\ \A a \in DOMAIN p.initial : a \notin DOMAIN words => q.initial[a] = p.initial[a]
  BY <1>2 DEF Over, Overwritten
<1>4. CodesApart(q) /\ HostsNamed(q) /\ FunctionsPlaced(q) /\ Shaped(q)
  BY <1>1, <1>2 DEF Sound, CodesApart, HostsNamed, FunctionsPlaced, Shaped
<1>5. DataApart(q)
  BY <1>2, <1>3 DEF Sound, DataApart
<1>6. ASSUME NEW s PROVE Callable(q, s) = Callable(p, s) /\ Meant(q, s) = Meant(p, s)
  BY <1>2 DEF Callable, Serves, Meant, Accelerated
<1>7. HelpersServed(q)
  BY <1>2, <1>6 DEF Sound, HelpersServed
<1>8. CallsLead(q)
  <2>1. ASSUME NEW s, Callable(q, s) PROVE Resolved(q, q.initial[q.symbols[s]]) = Meant(q, s)
    <3>1. Callable(p, s) /\ Meant(q, s) = Meant(p, s)
      BY <1>6, <2>1
    <3>2. p.symbols[s] \in DOMAIN p.initial /\ p.symbols[s] \notin DOMAIN words
      BY <3>1 DEF Overwritten, Callable, Sound, FunctionsPlaced, DataApart
    <3>3. q.initial[q.symbols[s]] = p.initial[p.symbols[s]]
      BY <3>2, <1>2, <1>3
    <3>4. Resolved(p, p.initial[p.symbols[s]]) = Meant(p, s)
      BY <3>1 DEF Sound, CallsLead
    <3>5. \A c : Resolved(q, c) = Resolved(p, c)
      BY <1>2 DEF Resolved
    <3> QED BY <3>1, <3>3, <3>4, <3>5
  <2> QED BY <2>1 DEF CallsLead
<1>9. Sound(q)
  BY <1>4, <1>5, <1>7, <1>8 DEF Sound
<1> QED BY <1>2, <1>3, <1>6, <1>9

\* Whatever a sound program links is below the end of its data.
LEMMA AddressIn ==
  ASSUME NEW p, Sound(p), NEW s \in DOMAIN p.symbols
  PROVE  p.symbols[s] \in Nat \ {0} /\ p.symbols[s] < p.nextData /\ p.symbols[s] \in DOMAIN p.initial
         /\ p.nextData \in Nat
BY DEF Sound, DataApart, Shaped

\* The image of a payload over its code.
ImageTo(q, p, ns, r) ==
  /\ Sound(r) /\ Grows(q, r) /\ r.functions = q.functions /\ r.blocks = q.blocks
  /\ DOMAIN r.symbols = DOMAIN q.symbols \cup In(ns, Elements(Objects(p)))
  /\ \A o \in Elements(Objects(p)) :
       /\ ~ Callable(r, <<ns, o>>)
       /\ o \notin DOMAIN Pointers(p) => r.initial[r.symbols[<<ns, o>>]] = 0
  /\ \A o \in DOMAIN Pointers(p) : r.initial[r.symbols[<<ns, o>>]] = r.symbols[<<ns, Pointers(p)[o]>>]

\* Installing the module image of a payload.
LEMMA InstallImageSound ==
  ASSUME NEW q, Sound(q), NEW p \in Payloads, HasImage(p), NEW ns, NsOk(ns),
         \A o \in Elements(Objects(p)) : <<ns, o>> \notin DOMAIN q.symbols
  PROVE  ImageTo(q, p, ns, WithImage(q, p, ns))
<1> DEFINE list == Named(ns, Objects(p))
           rel  == [s \in {<<ns, o>> : o \in DOMAIN Pointers(p)} |-> <<ns, Pointers(p)[s[2]]>>]
           laid == DefineObjects(q, list)
           words == [a \in {laid.symbols[s] : s \in DOMAIN rel} |->
                       laid.symbols[rel[CHOOSE s \in DOMAIN rel : laid.symbols[s] = a]]]
           r == [laid EXCEPT !.initial = Over(words, @)]
<1>1. /\ IsList(Objects(p)) /\ Distinct(Objects(p)) /\ DOMAIN Pointers(p) \subseteq Elements(Objects(p))
  BY PayloadAssumption
<1>2. /\ Len(list) = Len(Objects(p)) /\ Len(list) \in Nat
      /\ \A i \in 1..Len(Objects(p)) : list[i] = <<ns, Objects(p)[i]>>
      /\ {list[i] : i \in 1..Len(Objects(p))} = In(ns, Elements(Objects(p)))
  BY <1>1, NamedFacts DEF In
<1>3. \A i \in 1..Len(list) : Sym(list[i]) /\ list[i] \notin DOMAIN q.symbols /\ list[i][1] # <<"helper">>
  <2>1. ASSUME NEW i \in 1..Len(list)
        PROVE  Sym(list[i]) /\ list[i] \notin DOMAIN q.symbols /\ list[i][1] # <<"helper">>
    <3>1. list[i] = <<ns, Objects(p)[i]>> /\ Objects(p)[i] \in Elements(Objects(p))
      BY <1>1, <1>2, ListFacts DEF Elements
    <3> QED BY <3>1, NsFacts
  <2> QED BY <2>1
<1>4. \A i, j \in 1..Len(list) : list[i] = list[j] => i = j
  BY <1>1, <1>2, ListFacts DEF Distinct
<1>5. WithImage(q, p, ns) = r
  BY DEF WithImage, InstallImage
<1> HIDE DEF list
<1>6. ObjectsTo(q, laid, list, Len(list))
  BY <1>2, <1>3, <1>4, DefineObjectsSound
<1> HIDE DEF laid
<1>7. /\ Sound(laid) /\ Grows(q, laid) /\ laid.functions = q.functions /\ laid.blocks = q.blocks
      /\ DOMAIN laid.symbols = DOMAIN q.symbols \cup In(ns, Elements(Objects(p)))
      /\ \A i \in 1..Len(list) : ~ Callable(laid, list[i]) /\ laid.initial[laid.symbols[list[i]]] = 0
  BY <1>2, <1>6 DEF ObjectsTo
<1>8. ASSUME NEW o \in Elements(Objects(p))
      PROVE  /\ <<ns, o>> \in DOMAIN laid.symbols /\ ~ Callable(laid, <<ns, o>>)
             /\ laid.initial[laid.symbols[<<ns, o>>]] = 0
  <2>1. PICK i \in 1..Len(list) : list[i] = <<ns, o>>
    BY <1>2 DEF In
  <2> QED BY <2>1, <1>7 DEF In
<1>9. DOMAIN rel = {<<ns, o>> : o \in DOMAIN Pointers(p)}
      /\ \A o \in DOMAIN Pointers(p) : rel[<<ns, o>>] = <<ns, Pointers(p)[o]>>
  OBVIOUS
<1> HIDE DEF rel
<1>10. DOMAIN rel \subseteq DOMAIN laid.symbols /\ \A s \in DOMAIN rel : ~ Callable(laid, s)
  BY <1>1, <1>8, <1>9
<1>11. \A s, x \in DOMAIN laid.symbols : laid.symbols[s] = laid.symbols[x] => s = x
  BY <1>7 DEF Sound, DataApart
<1>12. /\ DOMAIN words = {laid.symbols[s] : s \in DOMAIN rel}
       /\ \A s \in DOMAIN rel : words[laid.symbols[s]] = laid.symbols[rel[s]]
  <2>1. ASSUME NEW s \in DOMAIN rel
        PROVE  (CHOOSE x \in DOMAIN rel : laid.symbols[x] = laid.symbols[s]) = s
    <3>1. ASSUME NEW x \in DOMAIN rel, laid.symbols[x] = laid.symbols[s] PROVE x = s
      BY <3>1, <1>10, <1>11
    <3> QED BY <3>1
  <2> QED BY <2>1
<1> HIDE DEF words
<1>13. DOMAIN words \subseteq DOMAIN laid.initial
  BY <1>7, <1>10, <1>12, AddressIn
<1>14. ASSUME NEW s, Callable(laid, s) PROVE laid.symbols[s] \notin DOMAIN words
  <2>1. s \in DOMAIN laid.symbols
    BY <1>7, <1>14 DEF Callable, Sound, FunctionsPlaced
  <2> QED BY <2>1, <1>10, <1>11, <1>12, <1>14
<1> HIDE DEF r
<1>15. /\ Sound(r) /\ r.functions = laid.functions /\ r.blocks = laid.blocks /\ r.hosts = laid.hosts
       /\ r.symbols = laid.symbols /\ r.nextData = laid.nextData
       /\ DOMAIN r.initial = DOMAIN laid.initial
       /\ \A a \in DOMAIN words : r.initial[a] = words[a]
       /\ \A a \in DOMAIN laid.initial : a \notin DOMAIN words => r.initial[a] = laid.initial[a]
       /\ \A s : Callable(r, s) = Callable(laid, s) /\ Meant(r, s) = Meant(laid, s)
  <2>1. r = [laid EXCEPT !.initial = Over(words, @)]
    BY DEF r
  <2>2. \A s : Callable(laid, s) => laid.symbols[s] \notin DOMAIN words
    BY <1>14
  <2>3. Overwritten(laid, words, r)
    BY <2>1, <2>2, <1>13 DEF Overwritten
  <2> QED BY <2>3, <1>7, Rewritten
<1>16. \A a \in DOMAIN q.initial : a \notin DOMAIN words
  <2>1. ASSUME NEW s \in DOMAIN rel PROVE laid.symbols[s] \notin DOMAIN q.initial
    <3>1. s \notin DOMAIN q.symbols /\ s \in DOMAIN laid.symbols
      BY <1>1, <1>9, <1>10
    <3>2. q.nextData <= laid.symbols[s] /\ laid.symbols[s] \in Nat
      BY <3>1, <1>7, AddressIn DEF Grows
    <3> QED BY <3>2 DEF Sound, DataApart, Shaped
  <2> QED BY <2>1, <1>12
<1>17. Extends(q.initial, r.initial)
  BY <1>7, <1>15, <1>16 DEF Grows, Extends
<1>18. Grows(q, r)
  <2>1. \A s \in DOMAIN q.symbols : Callable(r, s) = Callable(q, s) /\ Meant(r, s) = Meant(q, s)
    BY <1>7, <1>15 DEF Grows
  <2>2. /\ Extends(q.functions, r.functions) /\ Extends(q.blocks, r.blocks) /\ Extends(q.hosts, r.hosts)
        /\ Extends(q.symbols, r.symbols) /\ q.nextData <= r.nextData
        /\ \A s \in DOMAIN r.symbols : s \notin DOMAIN q.symbols => q.nextData <= r.symbols[s]
        /\ \A f \in DOMAIN r.functions : f \in DOMAIN q.symbols => f \in DOMAIN q.functions
    BY <1>7, <1>15 DEF Grows
  <2> QED BY <2>1, <2>2, <1>17 DEF Grows
<1>19. ASSUME NEW o \in Elements(Objects(p))
       PROVE  /\ ~ Callable(r, <<ns, o>>)
              /\ o \notin DOMAIN Pointers(p) => r.initial[r.symbols[<<ns, o>>]] = 0
  <2>1. ASSUME o \notin DOMAIN Pointers(p) PROVE laid.symbols[<<ns, o>>] \notin DOMAIN words
    <3>1. <<ns, o>> \notin DOMAIN rel
      BY <2>1, <1>9
    <3> QED BY <3>1, <1>8, <1>10, <1>11, <1>12
  <2>2. laid.symbols[<<ns, o>>] \in DOMAIN laid.initial
    BY <1>7, <1>8, AddressIn
  <2> QED BY <2>1, <2>2, <1>8, <1>15
<1>20. ASSUME NEW o \in DOMAIN Pointers(p)
       PROVE  r.initial[r.symbols[<<ns, o>>]] = r.symbols[<<ns, Pointers(p)[o]>>]
  BY <1>9, <1>12, <1>15
<1> QED BY <1>5, <1>7, <1>15, <1>18, <1>19, <1>20 DEF ImageTo

DataOfImage(p) == {"environ", "errno"} \cup Elements(Objects(p))

\* The surface of an image: two data and the services it takes from outside.
SurfaceTo(q, p, ns, e, r) ==
  /\ Sound(r) /\ Grows(q, r) /\ r.functions = q.functions /\ r.blocks = q.blocks
  /\ DOMAIN r.symbols = DOMAIN q.symbols
       \cup (IF HasImage(p) THEN In(ns, {"environ", "errno"} \cup Elements(Externals(p))) ELSE {})
  /\ HasImage(p) =>
       /\ \A n \in Elements(Externals(p)) : Callable(r, <<ns, n>>)
       /\ ~ Callable(r, <<ns, "environ">>) /\ ~ Callable(r, <<ns, "errno">>)
       /\ r.initial[r.symbols[<<ns, "environ">>]] = e
       /\ r.initial[r.symbols[<<ns, "errno">>]] = 0

\* Names of a payload are told apart.
LEMMA PayloadFacts ==
  ASSUME NEW p \in Payloads
  PROVE  /\ IsList(Functions(p)) /\ IsList(Externals(p)) /\ IsList(Helpers(p)) /\ IsList(Objects(p))
         /\ Functions(p) # <<>> /\ Distinct(Functions(p))
         /\ \A n \in Elements(Functions(p)) :
              n \notin Elements(Objects(p)) /\ n \notin Elements(Externals(p)) /\ n \notin {"environ", "errno"}
         /\ \A n \in Elements(Externals(p)) : n \notin Elements(Objects(p)) /\ n \notin {"environ", "errno"}
         /\ \A n \in Elements(Objects(p)) : n \notin {"environ", "errno"}
         /\ DOMAIN Pointers(p) \subseteq Elements(Objects(p))
         /\ \A o \in DOMAIN Pointers(p) :
              Pointers(p)[o] \in Elements(Functions(p)) \cup Elements(Externals(p)) \cup Elements(Objects(p))
         /\ ~ HasImage(p) => /\ Elements(Externals(p)) = {} /\ Elements(Objects(p)) = {}
                             /\ DOMAIN Pointers(p) = {}
<1>1. Elements(DataNames) = {"environ", "errno"}
  <2>1. DOMAIN DataNames = 1..2 /\ DataNames[1] = "environ" /\ DataNames[2] = "errno"
    BY DEF DataNames
  <2> QED BY <2>1 DEF Elements
<1>2. ~ HasImage(p) => Elements(Externals(p)) = {} /\ Elements(Objects(p)) = {}
  <2>1. ~ HasImage(p) => Externals(p) = <<>> /\ Objects(p) = <<>>
    BY PayloadAssumption
  <2> QED BY <2>1 DEF Elements
<1> QED BY <1>1, <1>2, PayloadAssumption

\* One datum.
DatumTo(q, s, w, r) ==
  /\ Sound(r) /\ Grows(q, r) /\ DOMAIN r.symbols = DOMAIN q.symbols \cup {s}
  /\ r.functions = q.functions /\ r.blocks = q.blocks
  /\ ~ Callable(r, s) /\ r.initial[r.symbols[s]] = w

\* The surface is linked over a sound program.
LEMMA SurfaceSound ==
  ASSUME NEW q, Sound(q), NEW p \in Payloads, NEW ns, NsOk(ns), FreeNames(q, p, ns), NEW e,
         HasImage(p)
  PROVE  SurfaceTo(q, p, ns, e,
           RegisterServices(DefineMissing(DefineMissing(q, <<ns, "environ">>, e), <<ns, "errno">>, 0),
                            Named(ns, Externals(p))))
<1> DEFINE a == DefineMissing(q, <<ns, "environ">>, e)
           b == DefineMissing(a, <<ns, "errno">>, 0)
           list == Named(ns, Externals(p))
           r == RegisterServices(b, list)
<1>1. \A n : Sym(<<ns, n>>) /\ <<ns, n>>[1] # <<"helper">>
  BY NsFacts
<1>2. \A n \in {"environ", "errno"} \cup Elements(Externals(p)) : <<ns, n>> \notin DOMAIN q.symbols
  BY DEF FreeNames, PayloadNames
<1>a. ASSUME NEW u, Sound(u), NEW s, Sym(s), s[1] # <<"helper">>, s \notin DOMAIN u.symbols,
             NEW w, NEW v, v = DefineMissing(u, s, w)
      PROVE  DatumTo(u, s, w, v)
  <2>1. v = DefineData(u, s, w) /\ Sound(u) /\ Sym(s) /\ s \notin DOMAIN u.symbols /\ s[1] # <<"helper">>
    BY <1>a DEF DefineMissing, Linked
  <2> HIDE DEF a, b, list, r
  <2>2. /\ Sound(v) /\ Grows(u, v)
        /\ DOMAIN v.symbols = DOMAIN u.symbols \cup {s}
        /\ v.functions = u.functions /\ v.blocks = u.blocks
        /\ ~ Callable(v, s) /\ v.initial[v.symbols[s]] = w
    BY <2>1, DefineDataSound
  <2> QED BY <2>2 DEF DatumTo
<1>3. /\ Sound(a) /\ Grows(q, a)
      /\ DOMAIN a.symbols = DOMAIN q.symbols \cup {<<ns, "environ">>}
      /\ a.functions = q.functions /\ a.blocks = q.blocks
      /\ ~ Callable(a, <<ns, "environ">>) /\ a.initial[a.symbols[<<ns, "environ">>]] = e
  <2>1. DatumTo(q, <<ns, "environ">>, e, a)
    BY <1>1, <1>2, <1>a
  <2> QED BY <2>1 DEF DatumTo
<1> HIDE DEF a
<1>4. /\ <<ns, "errno">> \notin DOMAIN a.symbols /\ Sym(<<ns, "errno">>)
      /\ <<ns, "errno">>[1] # <<"helper">> /\ b = DefineMissing(a, <<ns, "errno">>, 0)
  BY <1>1, <1>2, <1>3
<1> HIDE DEF b
<1>5. /\ Sound(b) /\ Grows(a, b)
      /\ DOMAIN b.symbols = DOMAIN a.symbols \cup {<<ns, "errno">>}
      /\ b.functions = a.functions /\ b.blocks = a.blocks
      /\ ~ Callable(b, <<ns, "errno">>) /\ b.initial[b.symbols[<<ns, "errno">>]] = 0
  <2>1. DatumTo(a, <<ns, "errno">>, 0, b)
    BY <1>3, <1>4, <1>a
  <2> QED BY <2>1 DEF DatumTo
<1>6. /\ Len(list) \in Nat
      /\ \A i \in 1..Len(list) : Sym(list[i])
      /\ {list[i] : i \in 1..Len(list)} = In(ns, Elements(Externals(p)))
  <2>1. IsList(Externals(p))
    BY PayloadFacts
  <2>2. /\ Len(list) = Len(Externals(p)) /\ Len(list) \in Nat
        /\ \A i \in 1..Len(Externals(p)) : list[i] = <<ns, Externals(p)[i]>>
        /\ {list[i] : i \in 1..Len(Externals(p))} = In(ns, Elements(Externals(p)))
    BY <2>1, NamedFacts DEF In
  <2> QED BY <2>2, <1>1
<1> HIDE DEF list
<1>7. MissingTo(b, r, list, Len(list))
  BY <1>5, <1>6, RegisterServicesSound
<1> HIDE DEF r
<1>8. /\ Sound(r) /\ Grows(b, r) /\ r.functions = b.functions /\ r.blocks = b.blocks
      /\ DOMAIN r.symbols = DOMAIN b.symbols \cup In(ns, Elements(Externals(p)))
      /\ \A i \in 1..Len(list) : list[i] \notin DOMAIN b.symbols => Callable(r, list[i])
  BY <1>6, <1>7 DEF MissingTo
<1>9. Grows(q, b) /\ Grows(a, r)
  BY <1>3, <1>5, <1>8, GrowsOn
<1>10. Grows(q, r)
  BY <1>3, <1>8, <1>9, GrowsOn
<1>11. ASSUME NEW n \in Elements(Externals(p)) PROVE Callable(r, <<ns, n>>)
  <2>1. <<ns, n>> \notin DOMAIN b.symbols
    BY <1>2, <1>3, <1>5, PayloadFacts
  <2>2. PICK i \in 1..Len(list) : list[i] = <<ns, n>>
    BY <1>6 DEF In
  <2> QED BY <2>1, <2>2, <1>8
<1>12. ASSUME NEW u, NEW v, NEW s \in DOMAIN u.symbols, Sound(u), Grows(u, v), ~ Callable(u, s), NEW w,
              u.initial[u.symbols[s]] = w
       PROVE  ~ Callable(v, s) /\ v.initial[v.symbols[s]] = w
  <2>1. u.symbols[s] \in DOMAIN u.initial
    BY <1>12, AddressIn
  <2> QED BY <2>1, <1>12 DEF Grows, Extends
<1>13. ~ Callable(r, <<ns, "environ">>) /\ r.initial[r.symbols[<<ns, "environ">>]] = e
  BY <1>3, <1>9, <1>12
<1>14. ~ Callable(r, <<ns, "errno">>) /\ r.initial[r.symbols[<<ns, "errno">>]] = 0
  BY <1>5, <1>8, <1>12
<1>15. DOMAIN r.symbols = DOMAIN q.symbols \cup In(ns, {"environ", "errno"} \cup Elements(Externals(p)))
  BY <1>3, <1>5, <1>8 DEF In
<1>16. SurfaceTo(q, p, ns, e, r)
  BY <1>3, <1>5, <1>8, <1>10, <1>11, <1>13, <1>14, <1>15 DEF SurfaceTo
<1> QED BY <1>16 DEF r, b, a, list

\* Helpers and functions over the surface.
CodeTo(q, p, ns, r) ==
  /\ Sound(r) /\ Grows(q, r)
  /\ DOMAIN r.functions = DOMAIN q.functions \cup In(ns, Elements(Functions(p)))
  /\ DOMAIN r.symbols = DOMAIN q.symbols \cup In(ns, Elements(Functions(p)))
                          \cup In(<<"helper">>, Elements(Helpers(p)))
  /\ \A n \in Elements(Functions(p)) : r.functions[<<ns, n>>] = Uses(ns, ns, p)
  /\ \E c \in DOMAIN r.blocks : c \notin DOMAIN q.blocks

\* So are the helpers and the functions.
LEMMA CodeSound ==
  ASSUME NEW q, Sound(q), NEW p \in Payloads, NEW ns, NsOk(ns),
         \A n \in Elements(Functions(p)) : <<ns, n>> \notin DOMAIN q.symbols
  PROVE  CodeTo(q, p, ns, WithFunctions(q, p, ns, ns))
<1> DEFINE help == Named(<<"helper">>, Helpers(p))
           a == RegisterServices(q, help)
           list == Named(ns, Functions(p))
           r == AddFunctions(a, list, Uses(ns, ns, p))
<1>1. \A n : Sym(<<ns, n>>) /\ <<ns, n>>[1] # <<"helper">>
  BY NsFacts
<1>2. /\ Len(help) \in Nat
      /\ \A i \in 1..Len(help) : Sym(help[i])
      /\ {help[i] : i \in 1..Len(help)} = In(<<"helper">>, Elements(Helpers(p)))
  <2>1. IsList(Helpers(p))
    BY PayloadFacts
  <2>2. /\ Len(help) = Len(Helpers(p)) /\ Len(help) \in Nat
        /\ \A i \in 1..Len(Helpers(p)) : help[i] = <<<<"helper">>, Helpers(p)[i]>>
        /\ {help[i] : i \in 1..Len(Helpers(p))} = In(<<"helper">>, Elements(Helpers(p)))
    BY <2>1, NamedFacts DEF In
  <2> QED BY <2>2, HelperSymIs
<1>3. IsList(Functions(p)) /\ Distinct(Functions(p)) /\ Functions(p) # <<>>
  BY PayloadFacts
<1>4. /\ Len(list) = Len(Functions(p)) /\ Len(list) \in Nat
      /\ \A i \in 1..Len(list) : list[i] = <<ns, Functions(p)[i]>>
      /\ {list[i] : i \in 1..Len(list)} = In(ns, Elements(Functions(p)))
  BY <1>3, NamedFacts DEF In
<1>5. WithFunctions(q, p, ns, ns) = r
  BY DEF WithFunctions
<1> HIDE DEF help
<1>6. MissingTo(q, a, help, Len(help))
  BY <1>2, RegisterServicesSound
<1> HIDE DEF a
<1>7. /\ Sound(a) /\ Grows(q, a) /\ a.functions = q.functions /\ a.blocks = q.blocks
      /\ DOMAIN a.symbols = DOMAIN q.symbols \cup In(<<"helper">>, Elements(Helpers(p)))
  BY <1>2, <1>6 DEF MissingTo
<1>8. ASSUME NEW i \in 1..Len(list) PROVE Sym(list[i]) /\ list[i] \notin DOMAIN a.symbols
  <2>1. list[i] = <<ns, Functions(p)[i]>> /\ Functions(p)[i] \in Elements(Functions(p))
    BY <1>3, <1>4, ListFacts DEF Elements
  <2>2. list[i][1] # <<"helper">> /\ Sym(list[i])
    BY <2>1, <1>1
  <2>3. list[i] \notin In(<<"helper">>, Elements(Helpers(p)))
    BY <2>2 DEF In
  <2>4. list[i] \notin DOMAIN q.symbols
    BY <2>1
  <2> QED BY <2>2, <2>3, <2>4, <1>7
<1>9. \A i, j \in 1..Len(list) : list[i] = list[j] => i = j
  BY <1>3, <1>4, ListFacts DEF Distinct
<1> HIDE DEF list
<1>10. AddedTo(a, r, list, Uses(ns, ns, p), Len(list))
  BY <1>4, <1>7, <1>8, <1>9, AddFunctionsSound
<1> HIDE DEF r
<1>11. /\ Sound(r) /\ Grows(a, r)
       /\ DOMAIN r.symbols = DOMAIN a.symbols \cup In(ns, Elements(Functions(p)))
       /\ DOMAIN r.functions = DOMAIN a.functions \cup In(ns, Elements(Functions(p)))
       /\ \A i \in 1..Len(list) : r.functions[list[i]] = Uses(ns, ns, p)
       /\ Len(list) # 0 => \E c \in DOMAIN r.blocks : c \notin DOMAIN a.blocks
  BY <1>4, <1>10 DEF AddedTo
<1>12. Len(list) # 0
  BY <1>3, <1>4 DEF IsList
<1>13. Grows(q, r)
  BY <1>7, <1>11, GrowsOn
<1>14. ASSUME NEW n \in Elements(Functions(p)) PROVE r.functions[<<ns, n>>] = Uses(ns, ns, p)
  <2>1. PICK i \in 1..Len(list) : list[i] = <<ns, n>>
    BY <1>4 DEF In
  <2> QED BY <2>1, <1>11
<1> QED BY <1>5, <1>7, <1>11, <1>12, <1>13, <1>14 DEF CodeTo

\* What an exec links, over its surface and its code.
ExecTo(p, ns, e, surface, code, final) ==
  /\ Sound(final) /\ Grows(program, final) /\ UsesOk(final)
  /\ ArenaBase <= surface.nextData /\ surface.nextData <= code.nextData /\ code.nextData <= final.nextData
  /\ surface.nextData \in Nat /\ code.nextData \in Nat
  /\ \A s \in DOMAIN final.symbols : s \notin DOMAIN program.symbols =>
       /\ s[1] = ns \/ s[1] = <<"helper">>
       /\ ArenaBase <= final.symbols[s]
       /\ Callable(final, s) => \/ s \in DOMAIN final.functions \/ s[1] = <<"helper">>
                                \/ final.symbols[s] < surface.nextData
  /\ \E f \in DOMAIN final.functions : f \notin DOMAIN program.functions
  /\ \E c \in DOMAIN final.blocks : c \notin DOMAIN program.blocks
  /\ <<ns, Functions(p)[1]>> \in DOMAIN final.functions
  /\ \A s \in DOMAIN final.symbols : s[2] = "errno" /\ s[1] = ns =>
       s \in DOMAIN program.symbols \/ <<ns, "environ">> \in DOMAIN final.symbols
  /\ HasImage(p) =>
       /\ \A n \in DataOfImage(p) :
            /\ <<ns, n>> \in DOMAIN final.symbols /\ <<ns, n>> \notin DOMAIN program.symbols
            /\ ~ Callable(final, <<ns, n>>)
            /\ final.symbols[<<ns, n>>] < surface.nextData \/ code.nextData <= final.symbols[<<ns, n>>]
            /\ n \notin DOMAIN Pointers(p) =>
                 final.initial[final.symbols[<<ns, n>>]] = IF n = "environ" THEN e ELSE 0
       /\ \A o \in DOMAIN Pointers(p) :
            /\ final.initial[final.symbols[<<ns, o>>]] = final.symbols[<<ns, Pointers(p)[o]>>]
            /\ <<ns, Pointers(p)[o]>> \in DOMAIN final.symbols

\* The uses of a payload's functions.
LEMMA UsesAre ==
  ASSUME NEW p \in Payloads, NEW ns, NEW s \in Uses(ns, ns, p)
  PROVE  s \in In(ns, Elements(Functions(p)) \cup Elements(Externals(p)))
           \cup In(<<"helper">>, Elements(Helpers(p)))
<1>1. /\ IsList(Functions(p)) /\ Functions(p) # <<>> /\ IsList(Externals(p)) /\ IsList(Helpers(p))
  BY PayloadFacts
<1> DEFINE m == Tail(Functions(p))
<1>2. IsList(m) /\ Elements(m) \subseteq Elements(Functions(p))
  BY <1>1, TailElements
<1> HIDE DEF m
<1>3. /\ Elements(Named(ns, m)) = {<<ns, n>> : n \in Elements(m)}
      /\ Elements(Named(ns, Externals(p))) = {<<ns, n>> : n \in Elements(Externals(p))}
      /\ Elements(Named(<<"helper">>, Helpers(p))) = {<<<<"helper">>, n>> : n \in Elements(Helpers(p))}
  BY <1>1, <1>2, NamedFacts
<1>4. Uses(ns, ns, p) = Elements(Named(ns, m)) \cup Elements(Named(ns, Externals(p)))
                          \cup Elements(Named(<<"helper">>, Helpers(p)))
  BY DEF Uses, m
<1> QED BY <1>2, <1>3, <1>4 DEF In

\* What growth keeps of a symbol.
LEMMA GrowsKeeps ==
  ASSUME NEW p, Sound(p), NEW q, Grows(p, q), NEW s \in DOMAIN p.symbols
  PROVE  /\ s \in DOMAIN q.symbols /\ q.symbols[s] = p.symbols[s]
         /\ q.initial[q.symbols[s]] = p.initial[p.symbols[s]]
         /\ Callable(q, s) = Callable(p, s)
BY AddressIn DEF Grows, Extends

\* An exec links a whole payload over a sound program, in the order of the code.
LEMMA ExecSound ==
  ASSUME Sound(program), UsesOk(program), NEW p \in Payloads, NEW ns, NsOk(ns), FreeNames(program, p, ns),
         NEW e, ArenaBase \in Nat, program.nextData <= ArenaBase,
         NEW surface, surface = WithSurface(p, ns, e),
         NEW code, code = WithFunctions(surface, p, ns, ns),
         NEW final, final = WithImage(code, p, ns)
  PROVE  ExecTo(p, ns, e, surface, code, final)
<1> DEFINE based == [program EXCEPT !.nextData = ArenaBase]
<1>1. /\ Sound(based) /\ Grows(program, based) /\ based.symbols = program.symbols
      /\ based.functions = program.functions /\ based.blocks = program.blocks
      /\ based.nextData = ArenaBase
  BY BasedSound
<1>2. SurfaceTo(based, p, ns, e, surface)
  <2>1. CASE HasImage(p)
    <3>1. FreeNames(based, p, ns)
      BY <1>1 DEF FreeNames
    <3>2. surface = RegisterServices(DefineMissing(DefineMissing(based, <<ns, "environ">>, e), <<ns, "errno">>, 0),
                                     Named(ns, Externals(p)))
      BY <2>1 DEF WithSurface
    <3> HIDE DEF based
    <3> QED BY <1>1, <2>1, <3>1, <3>2, SurfaceSound
  <2>2. CASE ~ HasImage(p)
    <3>1. surface = based
      BY <2>2 DEF WithSurface
    <3> HIDE DEF based
    <3> QED BY <1>1, <2>2, <3>1, GrowsNot DEF SurfaceTo
  <2> QED BY <2>1, <2>2
<1> HIDE DEF based
<1>3. /\ Sound(surface) /\ Grows(based, surface) /\ surface.functions = based.functions
      /\ surface.blocks = based.blocks
      /\ DOMAIN surface.symbols = DOMAIN based.symbols
           \cup (IF HasImage(p) THEN In(ns, {"environ", "errno"} \cup Elements(Externals(p))) ELSE {})
  BY <1>2 DEF SurfaceTo
<1>4. \A n \in PayloadNames(p) : <<ns, n>> \notin DOMAIN program.symbols
  BY DEF FreeNames
<1>5. \A n \in Elements(Functions(p)) \cup Elements(Objects(p)) : <<ns, n>> \notin DOMAIN surface.symbols
  BY <1>1, <1>3, <1>4, PayloadFacts DEF In, PayloadNames
<1>6. CodeTo(surface, p, ns, code)
  BY <1>3, <1>5, CodeSound
<1>7. /\ Sound(code) /\ Grows(surface, code)
      /\ DOMAIN code.functions = DOMAIN surface.functions \cup In(ns, Elements(Functions(p)))
      /\ DOMAIN code.symbols = DOMAIN surface.symbols \cup In(ns, Elements(Functions(p)))
                                 \cup In(<<"helper">>, Elements(Helpers(p)))
      /\ \A n \in Elements(Functions(p)) : code.functions[<<ns, n>>] = Uses(ns, ns, p)
      /\ \E c \in DOMAIN code.blocks : c \notin DOMAIN surface.blocks
  BY <1>6 DEF CodeTo
<1>8. ns # <<"helper">> /\ ns # <<"kernel">>
  BY NsFacts
<1>9. \A o \in Elements(Objects(p)) : <<ns, o>> \notin DOMAIN code.symbols
  BY <1>5, <1>7, <1>8, PayloadFacts DEF In
<1>10. /\ Sound(final) /\ Grows(code, final) /\ final.functions = code.functions /\ final.blocks = code.blocks
       /\ DOMAIN final.symbols = DOMAIN code.symbols \cup In(ns, Elements(Objects(p)))
       /\ HasImage(p) => ImageTo(code, p, ns, final)
  <2>1. CASE HasImage(p)
    <3>1. ImageTo(code, p, ns, final)
      BY <1>7, <1>9, <2>1, InstallImageSound
    <3> QED BY <3>1 DEF ImageTo
  <2>2. CASE ~ HasImage(p)
    <3>1. final = code /\ In(ns, Elements(Objects(p))) = {}
      BY <2>2, PayloadFacts DEF WithImage, In
    <3> QED BY <1>7, <2>2, <3>1, GrowsNot
  <2> QED BY <2>1, <2>2
<1>11. Grows(program, surface) /\ Grows(surface, final) /\ Grows(based, final)
  <2>1. Grows(program, surface) /\ Grows(surface, final)
    BY <1>1, <1>3, <1>7, <1>10, GrowsOn
  <2> QED BY <1>1, <1>3, <1>10, <2>1, GrowsOn
<1>12. Grows(program, final)
  BY <1>1, <1>10, <1>11, GrowsOn
<1>13. /\ ArenaBase <= surface.nextData /\ surface.nextData <= code.nextData /\ code.nextData <= final.nextData
       /\ surface.nextData \in Nat /\ code.nextData \in Nat
  BY <1>1, <1>3, <1>7, <1>10 DEF Grows, Sound, Shaped
<1>14. \A n \in Elements(Functions(p)) : Callable(final, <<ns, n>>) /\ final.functions[<<ns, n>>] = Uses(ns, ns, p)
  BY <1>7, <1>10 DEF Callable, In
<1>15. ASSUME NEW n \in Elements(Externals(p)) PROVE Callable(final, <<ns, n>>)
  <2>1. HasImage(p)
    BY <1>15, PayloadFacts
  <2>2. Callable(surface, <<ns, n>>) /\ <<ns, n>> \in DOMAIN surface.symbols
    BY <1>2, <1>3, <2>1 DEF SurfaceTo, In
  <2> QED BY <1>3, <1>11, <2>2, GrowsKeeps
<1>16. \A n \in Elements(Helpers(p)) : Callable(final, <<<<"helper">>, n>>)
  <2>1. ASSUME NEW n \in Elements(Helpers(p)) PROVE Callable(final, <<<<"helper">>, n>>)
    <3>1. <<<<"helper">>, n>> \in DOMAIN final.symbols /\ <<<<"helper">>, n>>[1] = <<"helper">>
      BY <1>7, <1>10 DEF In
    <3> QED BY <3>1, <1>10 DEF Sound, HelpersServed
  <2> QED BY <2>1
<1>17. ASSUME NEW s \in DOMAIN final.symbols, s \notin DOMAIN program.symbols
       PROVE  /\ s[1] = ns \/ s[1] = <<"helper">>
              /\ ArenaBase <= final.symbols[s]
              /\ Callable(final, s) => \/ s \in DOMAIN final.functions \/ s[1] = <<"helper">>
                                       \/ final.symbols[s] < surface.nextData
  <2>1. ArenaBase <= final.symbols[s]
    BY <1>1, <1>11, <1>17 DEF Grows
  <2>2. CASE s \in DOMAIN surface.symbols
    <3>1. s[1] = ns
      BY <1>1, <1>3, <1>17, <2>2 DEF In
    <3>2. final.symbols[s] < surface.nextData
      <4>1. final.symbols[s] = surface.symbols[s] /\ surface.symbols[s] < surface.nextData
        BY <1>3, <1>11, <2>2, GrowsKeeps, AddressIn
      <4> QED BY <4>1
    <3> QED BY <2>1, <3>1, <3>2
  <2>3. CASE s \in In(ns, Elements(Functions(p)))
    BY <2>1, <2>3, <1>7, <1>10 DEF In
  <2>4. CASE s \in In(<<"helper">>, Elements(Helpers(p)))
    BY <2>1, <2>4 DEF In
  <2>5. CASE s \in In(ns, Elements(Objects(p)))
    <3>1. s[1] = ns
      BY <2>5 DEF In
    <3>2. ~ Callable(final, s)
      <4>1. HasImage(p)
        BY <2>5, PayloadFacts DEF In
      <4> QED BY <4>1, <1>10, <2>5 DEF ImageTo, In
    <3> QED BY <2>1, <3>1, <3>2
  <2> QED BY <2>2, <2>3, <2>4, <2>5, <1>7, <1>10
<1>18. UsesOk(final)
  <2>1. ASSUME NEW f \in DOMAIN final.functions, NEW s \in final.functions[f]
        PROVE  Callable(final, s) \/ (s = Syscall /\ s \notin DOMAIN final.symbols)
    <3>1. CASE f \in DOMAIN program.functions
      <4>1. final.functions[f] = program.functions[f]
        BY <1>12, <3>1 DEF Grows, Extends
      <4>2. CASE Callable(program, s)
        <5>1. s \in DOMAIN program.symbols
          BY <4>2 DEF Callable, Sound, FunctionsPlaced
        <5> QED BY <4>2, <5>1, <1>12, GrowsKeeps
      <4>3. CASE s = Syscall /\ s \notin DOMAIN program.symbols
        <5>1. s[1] = <<"kernel">>
          BY <4>3, OwnNames
        <5>2. s \in DOMAIN final.symbols => s[1] = ns \/ s[1] = <<"helper">>
          BY <4>3, <1>17, SMTT(30)
        <5>3. s \notin DOMAIN final.symbols
          BY <5>1, <5>2, <1>8
        <5> QED BY <5>3, <4>3
      <4> QED BY <3>1, <4>1, <4>2, <4>3, <2>1 DEF UsesOk
    <3>2. CASE f \in In(ns, Elements(Functions(p)))
      <4>1. s \in Uses(ns, ns, p)
        BY <2>1, <3>2, <1>14 DEF In
      <4>2. s \in In(ns, Elements(Functions(p)) \cup Elements(Externals(p)))
              \cup In(<<"helper">>, Elements(Helpers(p)))
        BY <4>1, UsesAre
      <4> QED BY <4>2, <1>14, <1>15, <1>16 DEF In
    <3> QED BY <3>1, <3>2, <1>1, <1>3, <1>7, <1>10
  <2> QED BY <2>1 DEF UsesOk
<1>19. /\ \E f \in DOMAIN final.functions : f \notin DOMAIN program.functions
       /\ \E c \in DOMAIN final.blocks : c \notin DOMAIN program.blocks
  <2>1. \E n : n \in Elements(Functions(p))
    <3>1. IsList(Functions(p)) /\ Functions(p) # <<>>
      BY PayloadFacts
    <3>2. 1 \in DOMAIN Functions(p)
      BY <3>1 DEF IsList
    <3> QED BY <3>2 DEF Elements
  <2>2. PICK n : n \in Elements(Functions(p))
    BY <2>1
  <2>3. <<ns, n>> \in DOMAIN final.functions
    BY <2>2, <1>7, <1>10 DEF In
  <2>4. <<ns, n>> \notin DOMAIN program.functions
    BY <2>2, <1>4 DEF PayloadNames, Sound, FunctionsPlaced
  <2>5. \E c \in DOMAIN final.blocks : c \notin DOMAIN program.blocks
    BY <1>1, <1>3, <1>7, <1>10
  <2> QED BY <2>3, <2>4, <2>5
<1>20. ASSUME HasImage(p), NEW n \in DataOfImage(p)
       PROVE  /\ <<ns, n>> \in DOMAIN final.symbols /\ <<ns, n>> \notin DOMAIN program.symbols
              /\ ~ Callable(final, <<ns, n>>)
              /\ final.symbols[<<ns, n>>] < surface.nextData \/ code.nextData <= final.symbols[<<ns, n>>]
              /\ n \notin DOMAIN Pointers(p) =>
                   final.initial[final.symbols[<<ns, n>>]] = IF n = "environ" THEN e ELSE 0
  <2>1. <<ns, n>> \notin DOMAIN program.symbols
    BY <1>4, <1>20 DEF DataOfImage, PayloadNames
  <2>2. CASE n \in {"environ", "errno"}
    <3>1. <<ns, n>> \in DOMAIN surface.symbols /\ ~ Callable(surface, <<ns, n>>)
          /\ surface.initial[surface.symbols[<<ns, n>>]] = IF n = "environ" THEN e ELSE 0
      BY <1>2, <1>3, <1>20, <2>2 DEF SurfaceTo, In
    <3>2. /\ <<ns, n>> \in DOMAIN final.symbols /\ final.symbols[<<ns, n>>] = surface.symbols[<<ns, n>>]
          /\ final.initial[final.symbols[<<ns, n>>]] = surface.initial[surface.symbols[<<ns, n>>]]
          /\ Callable(final, <<ns, n>>) = Callable(surface, <<ns, n>>)
      <4> DEFINE s == <<ns, n>>
      <4>1. s \in DOMAIN surface.symbols /\ Sound(surface) /\ Grows(surface, final)
        BY <3>1, <1>3, <1>11
      <4> HIDE DEF s
      <4>2. /\ s \in DOMAIN final.symbols /\ final.symbols[s] = surface.symbols[s]
            /\ final.initial[final.symbols[s]] = surface.initial[surface.symbols[s]]
            /\ Callable(final, s) = Callable(surface, s)
        BY <4>1, GrowsKeeps
      <4> QED BY <4>2 DEF s
    <3>3. surface.symbols[<<ns, n>>] < surface.nextData
      BY <3>1, <1>3, AddressIn
    <3> QED BY <2>1, <3>1, <3>2, <3>3
  <2>3. CASE n \in Elements(Objects(p))
    <3>1. n # "environ"
      BY <2>3, PayloadFacts
    <3>2. <<ns, n>> \in DOMAIN final.symbols
      BY <2>3, <1>10 DEF In
    <3>3. code.nextData <= final.symbols[<<ns, n>>]
      BY <2>3, <3>2, <1>9, <1>10 DEF Grows
    <3> QED BY <2>1, <2>3, <3>1, <3>2, <3>3, <1>10, <1>20 DEF ImageTo
  <2> QED BY <2>2, <2>3 DEF DataOfImage
<1>21. ASSUME HasImage(p), NEW o \in DOMAIN Pointers(p)
       PROVE  /\ final.initial[final.symbols[<<ns, o>>]] = final.symbols[<<ns, Pointers(p)[o]>>]
              /\ <<ns, Pointers(p)[o]>> \in DOMAIN final.symbols
  <2>1. Pointers(p)[o] \in Elements(Functions(p)) \cup Elements(Externals(p)) \cup Elements(Objects(p))
    BY PayloadFacts
  <2>2. <<ns, Pointers(p)[o]>> \in DOMAIN final.symbols
    BY <2>1, <1>3, <1>7, <1>10, <1>21 DEF In
  <2> QED BY <2>2, <1>10, <1>21 DEF ImageTo
<1>22. <<ns, Functions(p)[1]>> \in DOMAIN final.functions
  <2>1. IsList(Functions(p)) /\ Functions(p) # <<>>
    BY PayloadFacts
  <2>2. Functions(p)[1] \in Elements(Functions(p))
    <3>1. 1 \in DOMAIN Functions(p)
      BY <2>1 DEF IsList
    <3> QED BY <3>1 DEF Elements
  <2> QED BY <2>2, <1>7, <1>10 DEF In
<1>23. ASSUME NEW s \in DOMAIN final.symbols, s[2] = "errno", s[1] = ns
       PROVE  s \in DOMAIN program.symbols \/ <<ns, "environ">> \in DOMAIN final.symbols
  <2>1. CASE HasImage(p)
    BY <2>1, <1>20 DEF DataOfImage
  <2>2. CASE ~ HasImage(p)
    <3>1. s \notin In(ns, Elements(Functions(p))) /\ s \notin In(<<"helper">>, Elements(Helpers(p)))
          /\ s \notin In(ns, Elements(Objects(p)))
      BY <2>2, <1>8, <1>23, PayloadFacts DEF In
    <3> QED BY <3>1, <2>2, <1>1, <1>3, <1>7, <1>10
  <2> QED BY <2>1, <2>2
<1> QED BY <1>10, <1>12, <1>13, <1>17, <1>18, <1>19, <1>20, <1>21, <1>22, <1>23 DEF ExecTo

-----------------------------------------------------------------------------
(* The invariant.  Memory is what the guest finds when it runs next: the   *)
(* live memory, with what the engine has yet to copy into it.              *)
Memory == IF backend = "native" THEN CurrentMemory(program, engine, live) ELSE live

Runs == [Tasks -> Payloads \cup {NoTask}]

StateTyped ==
  /\ runner \in {1, 2} /\ current \in Tasks /\ heap \in Nat /\ execs \in Nat
  /\ running \in Runs /\ DOMAIN env = Tasks
  /\ env = [t \in Tasks |-> env[t]]
  /\ DOMAIN instances \subseteq Tasks \X Payloads

\* The program has grown from the one the runner started with, by functions if at all.
ProgramGrown ==
  /\ Sound(program) /\ UsesOk(program) /\ Grows(Booted[runner], program)
  /\ program = Booted[runner] \/ \E f \in DOMAIN program.functions : f \notin DOMAIN Booted[runner].functions
  /\ OwnOnly

\* An instance has its data in an arena of its own.
DataAt(i, n) == program.symbols[<<instances[i].namespace, n>>]

InstancesLaid ==
  /\ \A i \in DOMAIN instances :
       /\ NsOk(instances[i].namespace)
       /\ instances[i].base \in Nat /\ instances[i].end \in Nat
       /\ instances[i].end <= program.nextData
       /\ HasImage(i[2]) =>
            /\ \A n \in DataOfImage(i[2]) :
                 /\ <<instances[i].namespace, n>> \in DOMAIN program.symbols
                 /\ ~ Callable(program, <<instances[i].namespace, n>>)
                 /\ instances[i].base <= DataAt(i, n) /\ DataAt(i, n) < instances[i].end
                 /\ n # "environ" /\ n \notin DOMAIN Pointers(i[2]) => program.initial[DataAt(i, n)] = 0
            /\ \A o \in DOMAIN Pointers(i[2]) :
                 /\ <<instances[i].namespace, Pointers(i[2])[o]>> \in DOMAIN program.symbols
                 /\ program.initial[DataAt(i, o)] = DataAt(i, Pointers(i[2])[o])
  /\ \A i \in DOMAIN instances : \A j \in DOMAIN instances : i # j =>
       instances[i].end <= instances[j].base \/ instances[j].end <= instances[i].base

\* The native engine has copied the program as it is or, before it runs again, as it was.
Outgrown(old, p) ==
  /\ Sound(old) /\ UsesOk(old) /\ Grows(old, p)
  /\ \E f \in DOMAIN p.functions : f \notin DOMAIN old.functions
  /\ \E c \in DOMAIN p.blocks : c \notin DOMAIN old.blocks
  /\ Syscall \in DOMAIN p.symbols => Syscall \in DOMAIN old.symbols

EngineFollows ==
  backend = "native" =>
    \/ engine = NewEngine(program)
    \/ phase = "host" /\ \E old : Outgrown(old, program) /\ engine = NewEngine(old)

\* Descriptors, cells and pointers are in the memory.
CallsInMemory ==
  \A s : Callable(program, s) /\ (backend = "native" \/ ~ LinkedByExec(s)) =>
    At(Memory, program.symbols[s], 0) = program.initial[program.symbols[s]]

DataInMemory ==
  \A i \in DOMAIN instances : HasImage(i[2]) => \A n \in DataOfImage(i[2]) :
    /\ DataAt(i, n) \in DOMAIN live
    /\ n \notin DOMAIN Pointers(i[2]) => Memory[DataAt(i, n)] = live[DataAt(i, n)]
    /\ n \in DOMAIN Pointers(i[2]) => Memory[DataAt(i, n)] = DataAt(i, Pointers(i[2])[n])

BootInMemory == DOMAIN Booted[runner].initial \subseteq DOMAIN live

\* What a checkpoint holds of the machine that was saved.
SavedFrom(c, b) ==
  /\ c.runner \in {1, 2} /\ b = Booted[c.runner]
  /\ c.heap \in Nat /\ c.current \in Tasks /\ c.running \in Runs
  /\ DOMAIN c.env = Tasks /\ c.env = [t \in Tasks |-> c.env[t]]
  /\ Extends(b.initial, c.program.initial)
  /\ DOMAIN c.program.functions = DOMAIN b.functions => c.program = b
  /\ DOMAIN b.initial \subseteq DOMAIN c.live
  /\ \A s \in KernelSyms : At(c.live, b.symbols[s], 0) = b.initial[b.symbols[s]]
  /\ \/ c.format = "pages" /\ c.memory = c.live
     \/ c.format = "delta" /\ c.memory = Delta(c.live, c.program.initial)

SavedHolds == saved = <<>> \/ SavedFrom(saved, Booted[saved.runner])

ImagesInv == /\ StateTyped /\ ProgramGrown /\ InstancesLaid /\ EngineFollows
             /\ CallsInMemory /\ DataInMemory /\ BootInMemory /\ SavedHolds

-----------------------------------------------------------------------------
(* The engine's copy.                                                      *)

\* An engine that is current stays as it is.
LEMMA EngineNow ==
  ASSUME NEW p, NEW m
  PROVE  CurrentEngine(p, NewEngine(p)) = NewEngine(p) /\ CurrentMemory(p, NewEngine(p), m) = m
<1>1. NewEngine(p).shape = Shape(p)
  BY DEF NewEngine
<1> QED BY <1>1 DEF CurrentEngine, CurrentMemory

\* A program with more functions has another shape.
LEMMA OutgrownShape ==
  ASSUME NEW p, Sound(p), NEW old, Outgrown(old, p)
  PROVE  Shape(p) # Shape(old)
<1>1. IsFiniteSet(DOMAIN p.symbols) /\ DOMAIN p.functions \subseteq DOMAIN p.symbols
  BY SymbolsFinite DEF Sound, FunctionsPlaced
<1>2. IsFiniteSet(DOMAIN p.functions)
  BY <1>1, FS_Subset
<1>3. DOMAIN old.functions \subseteq DOMAIN p.functions /\ DOMAIN old.functions # DOMAIN p.functions
  BY DEF Outgrown, Grows, Extends
<1>4. Cardinality(DOMAIN old.functions) # Cardinality(DOMAIN p.functions)
  BY <1>2, <1>3, FS_Subset
<1> QED BY <1>4 DEF Shape

\* What is packed of a block does not change while the program grows.
LEMMA PackedKept ==
  ASSUME NEW p, Sound(p), NEW old, Outgrown(old, p), NEW c \in DOMAIN old.blocks
  PROVE  /\ c \in DOMAIN p.blocks /\ p.blocks[c] = old.blocks[c]
         /\ p.functions[p.blocks[c]] = old.functions[old.blocks[c]]
         /\ \A s \in old.functions[old.blocks[c]] : At(p.symbols, s, Unresolved) = At(old.symbols, s, Unresolved)
<1>1. /\ Sound(old) /\ UsesOk(old)
      /\ Extends(old.functions, p.functions) /\ Extends(old.blocks, p.blocks) /\ Extends(old.symbols, p.symbols)
      /\ Syscall \in DOMAIN p.symbols => Syscall \in DOMAIN old.symbols
  BY DEF Outgrown, Grows
<1>2. c \in DOMAIN p.blocks /\ p.blocks[c] = old.blocks[c]
  BY <1>1 DEF Extends
<1>3. old.blocks[c] \in DOMAIN old.functions
  BY <1>1 DEF Sound, FunctionsPlaced
<1>4. p.functions[p.blocks[c]] = old.functions[old.blocks[c]]
  BY <1>1, <1>2, <1>3 DEF Extends
<1>5. ASSUME NEW s \in old.functions[old.blocks[c]]
      PROVE  At(p.symbols, s, Unresolved) = At(old.symbols, s, Unresolved)
  <2>1. CASE Callable(old, s)
    <3>1. s \in DOMAIN old.symbols
      BY <2>1, <1>1 DEF Callable, Sound, FunctionsPlaced
    <3> QED BY <3>1, <1>1 DEF Extends, At
  <2>2. CASE s = Syscall /\ s \notin DOMAIN old.symbols
    <3>1. s \notin DOMAIN p.symbols
      BY <2>2, <1>1
    <3> QED BY <3>1, <2>2 DEF At
  <2> QED BY <2>1, <2>2, <1>1, <1>3 DEF UsesOk
<1> QED BY <1>2, <1>4, <1>5

\* An engine that has fallen behind appends a segment, and is as new; the words appended to the
\* initial memory are copied.
LEMMA EngineCatchesUp ==
  ASSUME NEW p, Sound(p), NEW old, Outgrown(old, p), NEW m
  PROVE  /\ CurrentEngine(p, NewEngine(old)) = NewEngine(p)
         /\ CurrentMemory(p, NewEngine(old), m) = SyncAppended(p, NewEngine(old), m)
<1> DEFINE e == NewEngine(old)
<1>1. /\ e.packed = Packed(old, DOMAIN old.blocks) /\ e.functions = DOMAIN old.functions
      /\ e.hosts = DOMAIN old.hosts /\ e.shape = Shape(old) /\ e.synced = old.nextData
  BY DEF NewEngine
<1>2. DOMAIN e.packed = DOMAIN old.blocks
  BY <1>1 DEF Packed
<1> HIDE DEF e
<1>3. Shape(p) # e.shape
  BY <1>1, OutgrownShape
<1>4. /\ DOMAIN old.blocks \subseteq DOMAIN p.blocks /\ DOMAIN old.blocks # DOMAIN p.blocks
      /\ DOMAIN old.functions \subseteq DOMAIN p.functions /\ DOMAIN old.functions # DOMAIN p.functions
      /\ DOMAIN old.hosts \subseteq DOMAIN p.hosts
      /\ old.nextData <= p.nextData /\ old.nextData \in Nat /\ p.nextData \in Nat
  BY DEF Outgrown, Grows, Extends, Sound, Shaped
<1>5. ~ HostAppend(p, e) /\ SegmentAppend(p, e)
  BY <1>1, <1>2, <1>4 DEF HostAppend, SegmentAppend
<1>6. Repacked(p, e) = Over(Packed(p, DOMAIN p.blocks \ DOMAIN old.blocks), Packed(old, DOMAIN old.blocks))
  BY <1>1, <1>2, <1>5 DEF Repacked
<1> DEFINE new == Packed(p, DOMAIN p.blocks \ DOMAIN old.blocks)
           kept == Packed(old, DOMAIN old.blocks)
           all == Packed(p, DOMAIN p.blocks)
<1>7. /\ DOMAIN new = DOMAIN p.blocks \ DOMAIN old.blocks /\ DOMAIN kept = DOMAIN old.blocks
      /\ DOMAIN all = DOMAIN p.blocks /\ all = [c \in DOMAIN p.blocks |-> all[c]]
      /\ \A c \in DOMAIN new : new[c] = all[c]
  BY DEF Packed
<1>8. ASSUME NEW c \in DOMAIN old.blocks PROVE kept[c] = all[c]
  <2>1. /\ c \in DOMAIN p.blocks /\ p.blocks[c] = old.blocks[c]
        /\ p.functions[p.blocks[c]] = old.functions[old.blocks[c]]
        /\ \A s \in old.functions[old.blocks[c]] : At(p.symbols, s, Unresolved) = At(old.symbols, s, Unresolved)
    BY PackedKept
  <2> DEFINE x == [s \in old.functions[old.blocks[c]] |-> At(old.symbols, s, Unresolved)]
             y == [s \in p.functions[p.blocks[c]] |-> At(p.symbols, s, Unresolved)]
  <2>2. x = y
    BY <2>1
  <2>3. kept[c] = [body |-> old.blocks[c], address |-> x] /\ all[c] = [body |-> p.blocks[c], address |-> y]
    BY <2>1 DEF Packed
  <2> QED BY <2>1, <2>2, <2>3
<1> HIDE DEF new, kept, all
<1>9. Over(new, kept) = all
  BY <1>4, <1>7, <1>8 DEF Over
<1>10. Repacked(p, e) = Packed(p, DOMAIN p.blocks)
  BY <1>6, <1>9 DEF new, kept, all
<1>11. (IF p.nextData > e.synced THEN p.nextData ELSE e.synced) = p.nextData
  BY <1>1, <1>4
<1>12. CurrentEngine(p, e) = NewEngine(p)
  BY <1>3, <1>10, <1>11 DEF CurrentEngine, NewEngine
<1>13. CurrentMemory(p, e, m) = SyncAppended(p, e, m)
  BY <1>3 DEF CurrentMemory
<1> QED BY <1>12, <1>13 DEF e

\* The words that are copied.
LEMMA SyncedAt ==
  ASSUME NEW p, Sound(p), NEW old, NEW m
  PROVE  /\ DOMAIN m \subseteq DOMAIN SyncAppended(p, NewEngine(old), m)
         /\ \A a \in DOMAIN p.initial : old.nextData <= a => SyncAppended(p, NewEngine(old), m)[a] = p.initial[a]
                                                          /\ a \in DOMAIN SyncAppended(p, NewEngine(old), m)
         /\ \A a : ~ (old.nextData <= a) => At(SyncAppended(p, NewEngine(old), m), a, 0) = At(m, a, 0)
<1>1. NewEngine(old).synced = old.nextData
  BY DEF NewEngine
<1>2. \A a \in DOMAIN p.initial : a < p.nextData
  BY DEF Sound, DataApart
<1>3. Appended(p, NewEngine(old)) = {a \in DOMAIN p.initial : old.nextData <= a}
  BY <1>1, <1>2 DEF Appended
<1> DEFINE words == [a \in {b \in DOMAIN p.initial : old.nextData <= b} |-> p.initial[a]]
<1>4. SyncAppended(p, NewEngine(old), m) = Over(words, m)
  BY <1>3 DEF SyncAppended
<1>5. /\ DOMAIN words \subseteq DOMAIN p.initial
      /\ \A a \in DOMAIN p.initial : (old.nextData <= a) <=> a \in DOMAIN words
      /\ \A a \in DOMAIN words : words[a] = p.initial[a] /\ old.nextData <= a
  OBVIOUS
<1> HIDE DEF words
<1> QED BY <1>4, <1>5 DEF Over, At

-----------------------------------------------------------------------------
(* What the invariant means for calls.                                     *)

\* A function has an entry code.
LEMMA EntryOf ==
  ASSUME NEW p, Sound(p), NEW f \in DOMAIN p.functions
  PROVE  EntryCode(p, f) \in DOMAIN p.blocks /\ p.blocks[EntryCode(p, f)] = f
BY DEF Sound, FunctionsPlaced, EntryCode

\* Through a current engine a call leads where the word in the descriptor does.
LEMMA NativeLeads ==
  ASSUME NEW p, Sound(p), NEW m, NEW f \in DOMAIN p.functions, NEW s \in p.functions[f], s \in DOMAIN p.symbols
  PROVE  Reached(p, NewEngine(p), m, EntryCode(p, f), s) = Resolved(p, At(m, p.symbols[s], 0))
<1> DEFINE code == EntryCode(p, f)
           e == NewEngine(p)
           target == At(m, p.symbols[s], 0)
<1>1. code \in DOMAIN p.blocks /\ p.blocks[code] = f
  BY EntryOf
<1> HIDE DEF code
<1>2. e.packed = Packed(p, DOMAIN p.blocks) /\ e.hosts = DOMAIN p.hosts
  BY DEF NewEngine
<1> HIDE DEF e
<1>3. /\ e.packed[code].address = [x \in p.functions[f] |-> At(p.symbols, x, Unresolved)]
      /\ DOMAIN e.packed = DOMAIN p.blocks
      /\ \A c \in DOMAIN p.blocks : e.packed[c].body = p.blocks[c]
  BY <1>1, <1>2 DEF Packed
<1>4. e.packed[code].address[s] = p.symbols[s]
  BY <1>3 DEF At
<1>5. p.symbols[s] # Unresolved
  BY AddressIn DEF Unresolved
<1>6. TargetCode(e, m, code, s) = target
  BY <1>4, <1>5 DEF TargetCode
<1> HIDE DEF target
<1>7. Reached(p, e, m, code, s) = Resolved(p, target)
  BY <1>2, <1>3, <1>6 DEF Reached, Resolved
<1> QED BY <1>7 DEF e, code, target

\* While the guest runs, the memory is what it finds.
LEMMA GuestMemory ==
  ASSUME EngineFollows, phase # "host"
  PROVE  Memory = live /\ (backend = "native" => engine = NewEngine(program))
<1>1. CASE backend = "native"
  <2>1. engine = NewEngine(program)
    BY <1>1 DEF EngineFollows
  <2> QED BY <1>1, <2>1, EngineNow DEF Memory
<1>2. CASE backend # "native"
  BY <1>2 DEF Memory
<1> QED BY <1>1, <1>2

\* The invariant implies that calls land.
LEMMA InvLands == ImagesInv => CallsLand
<1> SUFFICES ASSUME ImagesInv, phase = "guest"
             PROVE  /\ \A f \in DOMAIN program.functions : \A s \in program.functions[f] :
                         backend = "native" \/ ~ LinkedByExec(s) => Lands(f, s)
                    /\ \A i \in DOMAIN instances : PointerLeads(i[1], i[2])
  BY DEF CallsLand
<1>1. Sound(program) /\ UsesOk(program)
  BY DEF ImagesInv, ProgramGrown
<1>2. Memory = live /\ (backend = "native" => engine = NewEngine(program))
  BY GuestMemory DEF ImagesInv
<1>3. ASSUME NEW f \in DOMAIN program.functions, NEW s \in program.functions[f],
             backend = "native" \/ ~ LinkedByExec(s), s \in DOMAIN program.symbols
      PROVE  Leads(EntryCode(program, f), s) = Meant(program, s)
  <2>1. Callable(program, s)
    BY <1>1, <1>3 DEF UsesOk
  <2>2. At(live, program.symbols[s], 0) = program.initial[program.symbols[s]]
    BY <2>1, <1>2, <1>3 DEF ImagesInv, CallsInMemory
  <2>3. Resolved(program, At(live, program.symbols[s], 0)) = Meant(program, s)
    BY <2>1, <2>2, <1>1 DEF Sound, CallsLead
  <2>4. CASE backend = "native"
    BY <2>3, <2>4, <1>1, <1>2, <1>3, NativeLeads DEF Leads
  <2>5. CASE backend # "native"
    <3>1. At(program.symbols, s, 0) = program.symbols[s]
      BY <1>3 DEF At
    <3>2. \A c \in DOMAIN program.blocks : c \notin DOMAIN program.hosts
      BY <1>1 DEF Sound, CodesApart
    <3>3. Leads(EntryCode(program, f), s) = Resolved(program, At(live, program.symbols[s], 0))
      BY <2>5, <3>1, <3>2 DEF Leads, Resolved
    <3> QED BY <3>3, <2>3
  <2> QED BY <2>4, <2>5
<1>4. ASSUME NEW i \in DOMAIN instances PROVE PointerLeads(i[1], i[2])
  <2>1. i[1] \in Tasks /\ i[2] \in Payloads /\ i = <<i[1], i[2]>>
    BY DEF ImagesInv, StateTyped
  <2>2. CASE HasImage(i[2])
    <3>1. DOMAIN Pointers(i[2]) \subseteq DataOfImage(i[2])
      BY <2>1, PayloadFacts DEF DataOfImage
    <3>2. \A o \in DOMAIN Pointers(i[2]) : live[DataAt(i, o)] = DataAt(i, Pointers(i[2])[o])
      BY <2>2, <3>1, <1>2 DEF ImagesInv, DataInMemory
    <3> QED BY <3>2, <2>1 DEF PointerLeads, DataAt
  <2>3. CASE ~ HasImage(i[2])
    BY <2>1, <2>3, PayloadFacts DEF PointerLeads
  <2> QED BY <2>2, <2>3
<1> QED BY <1>3, <1>4 DEF Lands, Linked

-----------------------------------------------------------------------------
(* The first state.                                                        *)

\* What can be called is linked.
LEMMA CallableLinked ==
  ASSUME NEW p, Sound(p), NEW s, Callable(p, s)
  PROVE  s \in DOMAIN p.symbols
BY DEF Sound, FunctionsPlaced, Callable

JustBooted == runner \in {1, 2} /\ program = Booted[runner]

\* A runner starts with a program that is sound and belongs to no task.
LEMMA BootGrown == JustBooted => ProgramGrown
<1> SUFFICES ASSUME JustBooted PROVE ProgramGrown
  OBVIOUS
<1>1. /\ Sound(program) /\ UsesOk(program)
      /\ \A s \in DOMAIN program.symbols : s[1] = <<"kernel">> \/ s[1] = <<"helper">>
  BY BootedFacts DEF JustBooted
<1>2. Grows(Booted[runner], program)
  BY <1>1, GrowsNot DEF JustBooted
<1>3. \A t \in Tasks, p \in Payloads : Own(t, p) # <<"kernel">> /\ Own(t, p) # <<"helper">>
  BY DEF Own
<1>4. <<Base, "errno">> \notin DOMAIN program.symbols
  <2>1. <<Base, "errno">>[1] = <<"user">> /\ <<"user">> # <<"kernel">> /\ <<"user">> # <<"helper">>
    BY DEF Base
  <2> QED BY <2>1, <1>1
<1>5. OwnOnly
  BY <1>1, <1>3, <1>4 DEF OwnOnly
<1> QED BY <1>1, <1>2, <1>5 DEF ProgramGrown, JustBooted

\* In a memory that holds the initial words of all callable symbols, calls find them.
LEMMA InitInv == Init => ImagesInv
<1> SUFFICES ASSUME Init PROVE ImagesInv
  OBVIOUS
<1>1. ProgramGrown
  BY BootGrown DEF Init, JustBooted
<1>2. Sound(program)
  BY <1>1 DEF ProgramGrown
<1>3. StateTyped
  BY UserAssumption DEF Init, StateTyped, Runs
<1>4. InstancesLaid
  BY DEF Init, InstancesLaid
<1>5. EngineFollows
  BY DEF Init, EngineFollows
<1>6. Memory = program.initial
  BY EngineNow DEF Init, Memory
<1>7. CallsInMemory
  <2> SUFFICES ASSUME NEW s, Callable(program, s)
               PROVE  At(Memory, program.symbols[s], 0) = program.initial[program.symbols[s]]
    BY DEF CallsInMemory
  <2>1. program.symbols[s] \in DOMAIN program.initial
    BY <1>2, CallableLinked, AddressIn
  <2> QED BY <1>6, <2>1 DEF At
<1>8. DataInMemory
  BY DEF Init, DataInMemory
<1>9. BootInMemory
  BY DEF Init, BootInMemory
<1>10. SavedHolds
  BY DEF Init, SavedHolds
<1> QED BY <1>1, <1>3, <1>4, <1>5, <1>7, <1>8, <1>9, <1>10 DEF ImagesInv

-----------------------------------------------------------------------------
(* Steps that leave program, memory and engine alone.                      *)
Standing == <<program, runner, backend, engine, instances, saved>>
Calm == Standing' = Standing /\ (phase' = phase \/ phase = "guest")

\* Such a step keeps what is said of the tables.
LEMMA TablesKept ==
  ImagesInv /\ Calm => ProgramGrown' /\ InstancesLaid' /\ EngineFollows' /\ SavedHolds'
<1> SUFFICES ASSUME ImagesInv, Calm PROVE ProgramGrown' /\ InstancesLaid' /\ EngineFollows' /\ SavedHolds'
  OBVIOUS
<1>1. /\ program' = program /\ runner' = runner /\ backend' = backend /\ engine' = engine
      /\ instances' = instances /\ saved' = saved
  BY DEF Calm, Standing
<1>2. ProgramGrown'
  BY <1>1 DEF ImagesInv, ProgramGrown, OwnOnly
<1>3. InstancesLaid'
  BY <1>1 DEF ImagesInv, InstancesLaid, DataAt
<1>4. EngineFollows'
  BY <1>1 DEF ImagesInv, EngineFollows, Calm
<1>5. SavedHolds'
  BY <1>1 DEF ImagesInv, SavedHolds
<1> QED BY <1>2, <1>3, <1>4, <1>5

\* Without a write it keeps the invariant.
LEMMA CalmKeeps == ImagesInv /\ Calm /\ live' = live /\ StateTyped' => ImagesInv'
<1> SUFFICES ASSUME ImagesInv, Calm, live' = live, StateTyped' PROVE ImagesInv'
  OBVIOUS
<1>1. /\ program' = program /\ runner' = runner /\ backend' = backend /\ engine' = engine
      /\ instances' = instances
  BY DEF Calm, Standing
<1>2. Memory' = Memory
  BY <1>1 DEF Memory
<1>3. CallsInMemory'
  BY <1>1, <1>2 DEF ImagesInv, CallsInMemory, LinkedByExec
<1>4. DataInMemory'
  BY <1>1, <1>2 DEF ImagesInv, DataInMemory, DataAt
<1>5. BootInMemory'
  BY <1>1 DEF ImagesInv, BootInMemory
<1> QED BY <1>3, <1>4, <1>5, TablesKept DEF ImagesInv

\* Calls, returns, task switches and allocations keep the invariant.
LEMMA GuestKeeps ==
  ASSUME ImagesInv, NEW s, NEW t \in Tasks, Call(s) \/ Return \/ Switch(t) \/ Malloc
  PROVE  ImagesInv'
<1>1. Calm /\ live' = live
  BY DEF Call, Return, Switch, Malloc, GuestStep, Calm, Standing, machine
<1>2. StateTyped'
  <2>1. /\ runner' = runner /\ instances' = instances /\ running' = running /\ env' = env
        /\ execs' = execs
    BY DEF Call, Return, Switch, Malloc, GuestStep, machine
  <2>2. current' \in Tasks /\ heap' \in Nat
    BY DEF Call, Return, Switch, Malloc, ImagesInv, StateTyped
  <2> QED BY <2>1, <2>2 DEF ImagesInv, StateTyped
<1> QED BY <1>1, <1>2, CalmKeeps

\* Once the guest runs, nothing is left to be copied.
GuestReads == phase # "host" => Memory = live
\* That follows from what the engine has copied.
LEMMA GuestReadsLive == EngineFollows => GuestReads
BY GuestMemory DEF GuestReads

\* A word that is data, and no pointer of an image.
Writable(x) ==
  /\ x \in DOMAIN program.symbols /\ ~ Callable(program, x)
  /\ \A i \in DOMAIN instances : HasImage(i[2]) =>
       \A o \in DOMAIN Pointers(i[2]) : x # <<instances[i].namespace, o>>

\* Writing it keeps the invariant.
LEMMA WriteKeeps ==
  ASSUME ImagesInv, Calm, phase = "guest", phase' = "guest", StateTyped', NEW x, Writable(x), NEW w,
         live' = Put(live, program.symbols[x], w)
  PROVE  ImagesInv'
<1> DEFINE a == program.symbols[x]
<1>1. /\ program' = program /\ runner' = runner /\ backend' = backend /\ engine' = engine
      /\ instances' = instances
  BY DEF Calm, Standing
<1>2. Sound(program) /\ x \in DOMAIN program.symbols
  BY DEF ImagesInv, ProgramGrown, Writable
<1>3. \A s \in DOMAIN program.symbols : program.symbols[s] = a => s = x
  BY <1>2 DEF Sound, DataApart
<1>4. Memory = live /\ Memory' = live'
  <2>1. EngineFollows'
    BY TablesKept
  <2>2. GuestReads'
    BY <2>1, GuestReadsLive, PTL
  <2> QED BY <2>2, GuestReadsLive DEF GuestReads, ImagesInv
<1>5. /\ DOMAIN live' = DOMAIN live \cup {a}
      /\ \A b : b # a => At(live', b, 0) = At(live, b, 0) /\ (b \in DOMAIN live => live'[b] = live[b])
  BY DEF Put, At
<1> HIDE DEF a
<1>6. CallsInMemory'
  <2> SUFFICES ASSUME NEW s, Callable(program, s), backend = "native" \/ ~ LinkedByExec(s)
               PROVE  At(live', program.symbols[s], 0) = program.initial[program.symbols[s]]
    BY <1>1, <1>4 DEF CallsInMemory, LinkedByExec
  <2>1. At(live, program.symbols[s], 0) = program.initial[program.symbols[s]]
    BY <1>4 DEF ImagesInv, CallsInMemory
  <2>2. program.symbols[s] # a
    BY <1>2, <1>3, CallableLinked DEF Writable
  <2> QED BY <2>1, <2>2, <1>5
<1>7. DataInMemory'
  <2> SUFFICES ASSUME NEW i \in DOMAIN instances, HasImage(i[2]), NEW n \in DataOfImage(i[2])
               PROVE  /\ DataAt(i, n) \in DOMAIN live'
                      /\ n \in DOMAIN Pointers(i[2]) => live'[DataAt(i, n)] = DataAt(i, Pointers(i[2])[n])
    BY <1>1, <1>4 DEF DataInMemory, DataAt
  <2>1. /\ DataAt(i, n) \in DOMAIN live
        /\ n \in DOMAIN Pointers(i[2]) => live[DataAt(i, n)] = DataAt(i, Pointers(i[2])[n])
    BY <1>4 DEF ImagesInv, DataInMemory
  <2>2. n \in DOMAIN Pointers(i[2]) => DataAt(i, n) # a
    <3>1. <<instances[i].namespace, n>> \in DOMAIN program.symbols
      BY DEF ImagesInv, InstancesLaid
    <3>2. n \in DOMAIN Pointers(i[2]) => x # <<instances[i].namespace, n>>
      BY DEF Writable
    <3> QED BY <3>1, <3>2, <1>3 DEF DataAt
  <2> QED BY <2>1, <2>2, <1>5
<1>8. BootInMemory'
  BY <1>1, <1>5 DEF ImagesInv, BootInMemory
<1> QED BY <1>6, <1>7, <1>8, TablesKept DEF ImagesInv

\* The kernel's own data are such a word.
LEMMA JiffiesWritable ==
  ASSUME ImagesInv
  PROVE  Writable(Jiffies)
<1>1. runner \in {1, 2} /\ Sound(program) /\ Grows(Booted[runner], program)
  BY DEF ImagesInv, StateTyped, ProgramGrown
<1>2. Jiffies \in DOMAIN Booted[runner].symbols /\ ~ Callable(Booted[runner], Jiffies) /\ Sound(Booted[runner])
  BY <1>1, BootedFacts
<1>3. Jiffies \in DOMAIN program.symbols /\ ~ Callable(program, Jiffies)
  BY <1>1, <1>2, GrowsKeeps
<1>4. ASSUME NEW i \in DOMAIN instances, NEW o PROVE Jiffies # <<instances[i].namespace, o>>
  <2>1. NsOk(instances[i].namespace)
    BY DEF ImagesInv, InstancesLaid
  <2>2. instances[i].namespace # <<"kernel">>
    BY <2>1, NsFacts
  <2> QED BY <2>2 DEF Jiffies, KernelName
<1> QED BY <1>3, <1>4 DEF Writable

\* A cell of an instance is such a word.
LEMMA CellWritable ==
  ASSUME ImagesInv, Installed(current), NEW c \in Cells(running[current])
  PROVE  Writable(<<instances[<<current, running[current]>>].namespace, c>>)
<1> DEFINE i == <<current, running[current]>>
           ns == instances[i].namespace
<1>1. i \in DOMAIN instances /\ i[2] = running[current] /\ i[2] \in Payloads
  BY DEF ImagesInv, StateTyped, Installed
<1>2. HasImage(i[2]) /\ c \in DataOfImage(i[2]) /\ c \notin DOMAIN Pointers(i[2])
  <2>1. HasImage(i[2]) /\ c \in Elements(DataNames) \cup (Elements(Objects(i[2])) \ DOMAIN Pointers(i[2]))
    BY <1>1 DEF Cells
  <2>2. Elements(DataNames) = {"environ", "errno"}
    BY DEF Elements, DataNames
  <2> QED BY <2>1, <2>2, <1>1, PayloadFacts DEF DataOfImage
<1> HIDE DEF i
<1>3. <<ns, c>> \in DOMAIN program.symbols /\ ~ Callable(program, <<ns, c>>)
  BY <1>1, <1>2 DEF ImagesInv, InstancesLaid
<1>4. Sound(program)
  BY DEF ImagesInv, ProgramGrown
<1>5. ASSUME NEW j \in DOMAIN instances, HasImage(j[2]), NEW o \in DOMAIN Pointers(j[2]),
             <<ns, c>> = <<instances[j].namespace, o>>
      PROVE  FALSE
  <2>1. o = c /\ DataAt(j, o) = DataAt(i, c)
    BY <1>5 DEF DataAt
  <2>2. j[2] \in Payloads
    BY DEF ImagesInv, StateTyped
  <2>3. o \in DataOfImage(j[2])
    BY <2>2, <1>5, PayloadFacts DEF DataOfImage
  <2>4. /\ instances[j].base <= DataAt(j, o) /\ DataAt(j, o) < instances[j].end
        /\ instances[i].base <= DataAt(i, c) /\ DataAt(i, c) < instances[i].end
        /\ instances[j].base \in Nat /\ instances[j].end \in Nat
        /\ instances[i].base \in Nat /\ instances[i].end \in Nat
    BY <2>3, <1>1, <1>2, <1>5 DEF ImagesInv, InstancesLaid
  <2>5. DataAt(i, c) \in Nat
    BY <1>3, <1>4, AddressIn DEF DataAt
  <2>6. i = j
    BY <2>1, <2>4, <2>5, <1>1 DEF ImagesInv, InstancesLaid
  <2> QED BY <2>1, <2>6, <1>2, <1>5
<1> QED BY <1>3, <1>5 DEF Writable, i

\* A program's store and the kernel's keep the invariant.
LEMMA StoresKeep ==
  ASSUME ImagesInv, NEW c, NEW w, Store(c, w) \/ KernelStore
  PROVE  ImagesInv'
<1>1. Calm /\ phase = "guest" /\ phase' = "guest"
  BY DEF Store, KernelStore, GuestStep, Calm, Standing, machine
<1>2. StateTyped'
  <2>1. /\ runner' = runner /\ instances' = instances /\ running' = running /\ env' = env
        /\ execs' = execs /\ current' = current /\ heap' = heap
    BY DEF Store, KernelStore, GuestStep, machine
  <2> QED BY <2>1 DEF ImagesInv, StateTyped
<1>3. CASE KernelStore
  <2>1. live' = Put(live, program.symbols[Jiffies], 0)
    BY <1>3 DEF KernelStore
  <2> QED BY <2>1, <1>1, <1>2, JiffiesWritable, WriteKeeps
<1>4. CASE Store(c, w)
  <2> DEFINE x == <<instances[<<current, running[current]>>].namespace, c>>
  <2>1. Installed(current) /\ c \in Cells(running[current]) /\ live' = Put(live, program.symbols[x], w)
    BY <1>4 DEF Store, CellAt
  <2>2. Writable(x)
    BY <2>1, CellWritable
  <2> HIDE DEF x
  <2> QED BY <2>1, <2>2, <1>1, <1>2, WriteKeeps
<1> QED BY <1>3, <1>4

-----------------------------------------------------------------------------
(* The engine catches up before the guest runs.                            *)

\* The memory the guest finds has all that the live memory has.
LEMMA MemoryHolds ==
  ASSUME Sound(program), EngineFollows
  PROVE  DOMAIN live \subseteq DOMAIN Memory
<1>1. CASE backend = "native" /\ engine = NewEngine(program)
  BY <1>1, EngineNow DEF Memory
<1>2. CASE backend = "native" /\ \E old : Outgrown(old, program) /\ engine = NewEngine(old)
  <2>1. PICK old : Outgrown(old, program) /\ engine = NewEngine(old)
    BY <1>2
  <2>2. Memory = SyncAppended(program, NewEngine(old), live)
    BY <1>2, <2>1, EngineCatchesUp DEF Memory
  <2> QED BY <2>2, SyncedAt
<1>3. CASE backend # "native"
  BY <1>3 DEF Memory
<1> QED BY <1>1, <1>2, <1>3 DEF EngineFollows

\* After it has caught up the engine is as new, and the memory is what it was going to be.
LEMMA ResumeMemory ==
  ASSUME ImagesInv, Resume
  PROVE  /\ live' = Memory /\ Memory' = Memory
         /\ backend = "native" => engine' = NewEngine(program)
<1>1. program' = program /\ backend' = backend
  BY DEF Resume
<1>2. Sound(program) /\ EngineFollows
  BY DEF ImagesInv, ProgramGrown
<1>3. CASE backend = "native"
  <2>1. CurrentEngine(program, engine) = NewEngine(program)
    <3>1. CASE engine = NewEngine(program)
      BY <3>1, EngineNow
    <3>2. CASE \E old : Outgrown(old, program) /\ engine = NewEngine(old)
      BY <3>2, <1>2, EngineCatchesUp
    <3> QED BY <3>1, <3>2, <1>2, <1>3 DEF EngineFollows
  <2>2. engine' = NewEngine(program) /\ live' = Memory
    BY <2>1, <1>3 DEF Resume, Memory
  <2>3. Memory' = CurrentMemory(program, NewEngine(program), live')
    BY <1>1, <1>3, <2>2 DEF Memory
  <2> QED BY <2>2, <2>3, EngineNow
<1>4. CASE backend # "native"
  BY <1>1, <1>4 DEF Memory, Resume
<1> QED BY <1>3, <1>4

\* Going back to the guest keeps the invariant.
LEMMA ResumeKeeps ==
  ASSUME ImagesInv, Resume
  PROVE  ImagesInv'
<1>1. /\ program' = program /\ runner' = runner /\ backend' = backend /\ instances' = instances
      /\ saved' = saved /\ current' = current /\ heap' = heap /\ execs' = execs
      /\ running' = running /\ env' = env
  BY DEF Resume, counters
<1>2. /\ live' = Memory /\ Memory' = Memory
      /\ backend = "native" => engine' = NewEngine(program)
  BY ResumeMemory
<1>3. DOMAIN live \subseteq DOMAIN Memory
  BY MemoryHolds DEF ImagesInv, ProgramGrown
<1>4. StateTyped'
  BY <1>1 DEF ImagesInv, StateTyped
<1>5. ProgramGrown'
  BY <1>1 DEF ImagesInv, ProgramGrown, OwnOnly
<1>6. InstancesLaid'
  BY <1>1 DEF ImagesInv, InstancesLaid, DataAt
<1>7. EngineFollows'
  BY <1>1, <1>2 DEF EngineFollows
<1>8. CallsInMemory'
  BY <1>1, <1>2 DEF ImagesInv, CallsInMemory, LinkedByExec
<1>9. DataInMemory'
  <2> SUFFICES ASSUME NEW i \in DOMAIN instances, HasImage(i[2]), NEW n \in DataOfImage(i[2])
               PROVE  /\ DataAt(i, n) \in DOMAIN Memory
                      /\ n \in DOMAIN Pointers(i[2]) => Memory[DataAt(i, n)] = DataAt(i, Pointers(i[2])[n])
    BY <1>1, <1>2 DEF DataInMemory, DataAt
  <2> QED BY <1>3 DEF ImagesInv, DataInMemory
<1>10. BootInMemory'
  BY <1>1, <1>2, <1>3 DEF ImagesInv, BootInMemory
<1>11. SavedHolds'
  BY <1>1 DEF ImagesInv, SavedHolds
<1> QED BY <1>4, <1>5, <1>6, <1>7, <1>8, <1>9, <1>10, <1>11 DEF ImagesInv

-----------------------------------------------------------------------------
(* Checkpoints.                                                            *)

\* Nothing an exec links is at the address of a function of the kernel.
LEMMA KernelKept ==
  ASSUME ImagesInv, NEW s \in KernelSyms
  PROVE  /\ s \in DOMAIN Booted[runner].symbols /\ program.symbols[s] = Booted[runner].symbols[s]
         /\ At(Memory, Booted[runner].symbols[s], 0) = Booted[runner].initial[Booted[runner].symbols[s]]
<1>1. runner \in {1, 2} /\ Sound(program) /\ Grows(Booted[runner], program)
  BY DEF ImagesInv, StateTyped, ProgramGrown
<1>2. Sound(Booted[runner]) /\ s \in DOMAIN Booted[runner].functions
  BY <1>1, BootedFacts
<1>3. Callable(Booted[runner], s) /\ s \in DOMAIN Booted[runner].symbols
  BY <1>2, CallableLinked DEF Callable
<1>4. /\ Callable(program, s) /\ program.symbols[s] = Booted[runner].symbols[s]
      /\ program.initial[program.symbols[s]] = Booted[runner].initial[Booted[runner].symbols[s]]
  BY <1>1, <1>2, <1>3, GrowsKeeps
<1>5. ~ LinkedByExec(s)
  BY <1>3 DEF LinkedByExec, Linked
<1>6. At(Memory, program.symbols[s], 0) = program.initial[program.symbols[s]]
  BY <1>4, <1>5 DEF ImagesInv, CallsInMemory
<1> QED BY <1>3, <1>4, <1>6

\* A checkpoint keeps the invariant.
LEMMA SaveKeeps ==
  ASSUME ImagesInv, Save
  PROVE  ImagesInv'
<1>1. /\ program' = program /\ runner' = runner /\ backend' = backend /\ engine' = engine
      /\ instances' = instances /\ live' = live /\ current' = current /\ heap' = heap /\ execs' = execs
      /\ running' = running /\ env' = env /\ phase = "guest"
  BY DEF Save, machine, counters
<1>2. Memory = live /\ (backend = "native" => engine = NewEngine(program))
  BY <1>1, GuestMemory DEF ImagesInv
<1>3. StateTyped'
  BY <1>1 DEF ImagesInv, StateTyped
<1>4. ProgramGrown'
  BY <1>1 DEF ImagesInv, ProgramGrown, OwnOnly
<1>5. InstancesLaid'
  BY <1>1 DEF ImagesInv, InstancesLaid, DataAt
<1>6. EngineFollows'
  BY <1>1, <1>2 DEF EngineFollows
<1>7. Memory' = Memory
  BY <1>1 DEF Memory
<1>8. CallsInMemory'
  BY <1>1, <1>7 DEF ImagesInv, CallsInMemory, LinkedByExec
<1>9. DataInMemory'
  BY <1>1, <1>7 DEF ImagesInv, DataInMemory, DataAt
<1>10. BootInMemory'
  BY <1>1 DEF ImagesInv, BootInMemory
<1>11. SavedHolds'
  <2> DEFINE b == Booted[runner]
  <2>1. /\ saved'.format = (IF backend = "native" THEN "pages" ELSE "delta")
        /\ saved'.memory = (IF backend = "native" THEN live ELSE Delta(live, program.initial))
        /\ saved'.heap = heap /\ saved'.current = current /\ saved'.running = running /\ saved'.env = env
        /\ saved'.runner = runner /\ saved'.program = program /\ saved'.live = live
    BY DEF Save
  <2>2. /\ runner \in {1, 2} /\ heap \in Nat /\ current \in Tasks /\ running \in Runs
        /\ DOMAIN env = Tasks /\ env = [t \in Tasks |-> env[t]]
    BY DEF ImagesInv, StateTyped
  <2>3. Grows(b, program) /\ (program = b \/ \E f \in DOMAIN program.functions : f \notin DOMAIN b.functions)
    BY DEF ImagesInv, ProgramGrown
  <2>4. DOMAIN b.initial \subseteq DOMAIN live
    BY DEF ImagesInv, BootInMemory
  <2>5. \A s \in KernelSyms : At(live, b.symbols[s], 0) = b.initial[b.symbols[s]]
    BY <1>2, KernelKept
  <2>6. SavedFrom(saved', b)
    <3> HIDE DEF b
    <3>1. Extends(b.initial, program.initial) /\ (DOMAIN program.functions = DOMAIN b.functions => program = b)
      BY <2>3 DEF Grows
    <3>2. b = Booted[runner]
      BY DEF b
    <3> QED BY <2>1, <2>2, <2>4, <2>5, <3>1, <3>2 DEF SavedFrom
  <2> QED BY <2>1, <2>6 DEF SavedHolds
<1> QED BY <1>3, <1>4, <1>5, <1>6, <1>8, <1>9, <1>10, <1>11 DEF ImagesInv

\* What a runner finds in its memory after it has restored a checkpoint.
Restored(c) == Refreshed(c, RestoredMemory(c))

\* Descriptors of services are the runner's own, the others those of the saved machine.
LEMMA RestoredFacts ==
  ASSUME NEW b, NEW c, Newer(b, c), SavedFrom(saved, b)
  PROVE  /\ \A a \in ServiceDescriptors(c) : a \in DOMAIN Restored(c) /\ Restored(c)[a] = c.initial[a]
         /\ DOMAIN c.initial \subseteq DOMAIN Restored(c)
         /\ \A a \in DOMAIN b.initial : a \notin ServiceDescriptors(c) /\ At(saved.live, a, 0) = b.initial[a] =>
              At(Restored(c), a, 0) = b.initial[a]
<1> DEFINE own == ServiceDescriptors(c)
           back == RestoredMemory(c)
           delta == Delta(saved.live, saved.program.initial)
<1>1. Restored(c) = Over([a \in own |-> c.initial[a]], back)
  BY DEF Restored, Refreshed
<1>2. /\ Extends(b.initial, saved.program.initial) /\ DOMAIN b.initial \subseteq DOMAIN saved.live
      /\ \/ saved.format = "pages" /\ saved.memory = saved.live
         \/ saved.format = "delta" /\ saved.memory = delta
  BY DEF SavedFrom
<1>3. /\ DOMAIN b.initial \subseteq DOMAIN c.initial
      /\ \A a \in DOMAIN c.initial : a \notin own => a \in DOMAIN b.initial /\ b.initial[a] = c.initial[a]
  BY DEF Newer
<1>4. back = saved.live \/ back = Over(delta, c.initial)
  BY <1>2 DEF RestoredMemory
<1>5. \A a \in DOMAIN delta : a \in DOMAIN saved.live /\ delta[a] = saved.live[a]
                              /\ At(saved.program.initial, a, 0) # saved.live[a]
  BY DEF Delta
<1> HIDE DEF delta, own, back
<1>6. /\ DOMAIN Restored(c) = own \cup DOMAIN back
      /\ \A a \in own : Restored(c)[a] = c.initial[a]
      /\ \A a \in DOMAIN back : a \notin own => Restored(c)[a] = back[a]
  BY <1>1 DEF Over
<1>7. DOMAIN c.initial \subseteq DOMAIN Restored(c)
  <2>1. CASE back = saved.live
    BY <2>1, <1>2, <1>3, <1>6
  <2>2. CASE back = Over(delta, c.initial)
    <3>1. DOMAIN back = DOMAIN delta \cup DOMAIN c.initial
      BY <2>2 DEF Over
    <3> QED BY <3>1, <1>6
  <2> QED BY <2>1, <2>2, <1>4
<1>8. ASSUME NEW a \in DOMAIN b.initial, a \notin own, At(saved.live, a, 0) = b.initial[a]
      PROVE  At(Restored(c), a, 0) = b.initial[a]
  <2>1. a \in DOMAIN saved.live /\ saved.live[a] = b.initial[a]
    BY <1>2, <1>8 DEF At
  <2>2. a \in DOMAIN c.initial /\ c.initial[a] = b.initial[a]
    BY <1>3, <1>8
  <2>3. CASE back = saved.live
    BY <2>1, <2>3, <1>6, <1>8 DEF At
  <2>4. CASE back = Over(delta, c.initial)
    <3>1. At(saved.program.initial, a, 0) = b.initial[a]
      BY <1>2 DEF Extends, At
    <3>2. a \notin DOMAIN delta
      BY <1>5, <2>1, <3>1
    <3>3. a \in DOMAIN back /\ back[a] = c.initial[a]
      BY <2>2, <2>4, <3>2 DEF Over
    <3> QED BY <2>2, <3>3, <1>6, <1>8 DEF At
  <2> QED BY <2>3, <2>4, <1>4
<1> QED BY <1>6, <1>7, <1>8 DEF own

\* Calls find their descriptors after a restart.
LEMMA RestoredCalls ==
  ASSUME NEW g \in {1, 2}, NEW h \in {1, 2}, g <= h, SavedFrom(saved, Booted[g]), NEW s, Callable(Booted[h], s)
  PROVE  At(Restored(Booted[h]), Booted[h].symbols[s], 0) = Booted[h].initial[Booted[h].symbols[s]]
<1> DEFINE b == Booted[g]
           c == Booted[h]
           a == c.symbols[s]
<1>1. Newer(b, c)
  BY BootNewer
<1>2. /\ Sound(c) /\ Sound(b) /\ DOMAIN b.functions = KernelSyms /\ s \in DOMAIN c.symbols
      /\ a \in DOMAIN c.initial
  BY BootedFacts, CallableLinked, AddressIn
<1>3. CASE a \in ServiceDescriptors(c)
  BY <1>1, <1>3, RestoredFacts DEF At
<1>4. CASE a \notin ServiceDescriptors(c)
  <2>1. s \in DOMAIN c.functions
    BY <1>2, <1>4, InServiceDescriptors DEF Callable
  <2>2. s \in KernelSyms /\ s \in DOMAIN b.symbols /\ b.symbols[s] = a
    <3>1. s \in KernelSyms /\ s \in DOMAIN b.symbols
      BY <2>1, <1>1, <1>2, CallableLinked DEF Newer, Callable
    <3> QED BY <3>1, <1>1 DEF Newer, Extends
  <2>3. At(saved.live, a, 0) = b.initial[a] /\ a \in DOMAIN b.initial
    BY <2>2, <1>2, AddressIn DEF SavedFrom
  <2>4. b.initial[a] = c.initial[a]
    BY <1>1, <1>2, <1>4 DEF Newer
  <2>5. At(Restored(c), a, 0) = b.initial[a]
    BY <2>3, <1>1, <1>4, RestoredFacts
  <2> QED BY <2>4, <2>5
<1> QED BY <1>3, <1>4

\* A restart keeps the invariant.
LEMMA RestartKeeps ==
  ASSUME ImagesInv, NEW h \in {1, 2}, NEW e, Restart(h, e)
  PROVE  ImagesInv'
<1> DEFINE g == saved.runner
           b == Booted[g]
           c == Booted[h]
<1>1. /\ program' = c /\ runner' = h /\ engine' = NewEngine(program')
      /\ live' = Restored(c) /\ instances' = <<>> /\ saved' = <<>> /\ execs' = execs
      /\ heap' = saved.heap /\ current' = saved.current /\ running' = saved.running /\ env' = saved.env
      /\ g <= h
  <2>1. h >= g
    BY DEF Restart
  <2>2. g \in {1, 2}
    BY DEF Restart, ImagesInv, SavedHolds, SavedFrom
  <2> QED BY <2>1, <2>2 DEF Restart, Restored
<1>2. SavedFrom(saved, b)
  BY DEF ImagesInv, SavedHolds, Restart
<1>3. g \in {1, 2}
  BY <1>2 DEF SavedFrom
<1>4. Newer(b, c)
  BY <1>1, <1>3, BootNewer
<1>5. StateTyped'
  BY <1>1, <1>2 DEF SavedFrom, StateTyped, ImagesInv
<1>6. ProgramGrown'
  <2>1. JustBooted'
    BY <1>1 DEF JustBooted
  <2> QED BY <2>1, BootGrown, PTL
<1>7. InstancesLaid' /\ DataInMemory'
  BY <1>1 DEF InstancesLaid, DataInMemory
<1>8. EngineFollows'
  BY <1>1 DEF EngineFollows
<1>9. Memory' = Restored(c)
  BY <1>1, EngineNow DEF Memory
<1>10. CallsInMemory'
  <2> SUFFICES ASSUME NEW s, Callable(c, s)
               PROVE  At(Restored(c), c.symbols[s], 0) = c.initial[c.symbols[s]]
    BY <1>1, <1>9 DEF CallsInMemory
  <2> QED BY <1>1, <1>2, <1>3, RestoredCalls
<1>11. BootInMemory'
  BY <1>1, <1>2, <1>4, RestoredFacts DEF BootInMemory
<1>12. SavedHolds'
  BY <1>1 DEF SavedHolds
<1> QED BY <1>5, <1>6, <1>7, <1>8, <1>10, <1>11, <1>12 DEF ImagesInv

-----------------------------------------------------------------------------
(* An exec of an instance that is there.                                   *)
Reset(t, p) ==
  Over([a \in instances[<<t, p>>].base..(instances[<<t, p>>].end - 1) |-> At(program.initial, a, 0)], live)

InArena(i, a) == instances[i].base <= a /\ a < instances[i].end

EnterAgain(t, p, e) ==
  /\ phase = "guest" /\ execs < MaxExecs /\ <<t, p>> \in DOMAIN instances
  /\ live' = IF HasImage(p) THEN Put(Reset(t, p), program.symbols[<<instances[<<t, p>>].namespace, "environ">>], e)
             ELSE Reset(t, p)
  /\ LooseProbes \/ EntryAgain(t, p) = instances[<<t, p>>].entry
  /\ Enter(t, p, e, program, EntryAgain(t, p))
  /\ UNCHANGED <<program, heap, instances>>

\* It is refused, or resets the instance and enters it.
LEMMA ExecAgainEnters ==
  ASSUME NEW t, NEW p, NEW e, ExecAgain(t, p, e)
  PROVE  (phase = "guest" /\ Refuse) \/ EnterAgain(t, p, e)
BY DEF ExecAgain, EnterAgain, Reset

\* The arena has the initial words again, the rest of the memory is as it was.
LEMMA ResetAt ==
  ASSUME ImagesInv, NEW t, NEW p, <<t, p>> \in DOMAIN instances
  PROVE  /\ DOMAIN live \subseteq DOMAIN Reset(t, p)
         /\ \A a \in Nat : InArena(<<t, p>>, a) =>
              a \in DOMAIN Reset(t, p) /\ Reset(t, p)[a] = At(program.initial, a, 0)
         /\ \A a \in Nat : ~ InArena(<<t, p>>, a) => At(Reset(t, p), a, 0) = At(live, a, 0)
<1> DEFINE i == instances[<<t, p>>]
           words == [a \in i.base..(i.end - 1) |-> At(program.initial, a, 0)]
<1>1. i.base \in Nat /\ i.end \in Nat
  BY DEF ImagesInv, InstancesLaid
<1>2. Reset(t, p) = Over(words, live)
  BY DEF Reset
<1>3. /\ \A a \in Nat : InArena(<<t, p>>, a) <=> a \in DOMAIN words
      /\ \A a \in DOMAIN words : words[a] = At(program.initial, a, 0)
  <2> HIDE DEF i
  <2>1. DOMAIN words = i.base..(i.end - 1)
    OBVIOUS
  <2>2. \A a \in Nat : InArena(<<t, p>>, a) <=> i.base <= a /\ a < i.end
    BY DEF InArena, i
  <2> QED BY <1>1, <2>1, <2>2
<1> HIDE DEF words
<1> QED BY <1>2, <1>3 DEF Over, At

\* A symbol's address is that of no other symbol.
LEMMA OneAddress ==
  ASSUME NEW p, Sound(p), NEW s \in DOMAIN p.symbols, NEW x \in DOMAIN p.symbols, s # x
  PROVE  p.symbols[s] # p.symbols[x]
BY DEF Sound, DataApart

\* What is in the memory after such an exec.
LEMMA ExecAgainMemory ==
  ASSUME ImagesInv, NEW t \in Tasks, NEW p \in Payloads, NEW e, EnterAgain(t, p, e)
  PROVE  /\ DOMAIN live \subseteq DOMAIN live'
         /\ \A s \in DOMAIN program.symbols :
              \/ HasImage(p) /\ s = <<instances[<<t, p>>].namespace, "environ">>
              \/ IF InArena(<<t, p>>, program.symbols[s])
                THEN program.symbols[s] \in DOMAIN live' /\ live'[program.symbols[s]] = program.initial[program.symbols[s]]
                ELSE At(live', program.symbols[s], 0) = At(live, program.symbols[s], 0)
         /\ HasImage(p) => live'[DataAt(<<t, p>>, "environ")] = e
<1> DEFINE x == <<instances[<<t, p>>].namespace, "environ">>
           image == Reset(t, p)
<1>1. Sound(program) /\ <<t, p>> \in DOMAIN instances
  BY DEF ImagesInv, ProgramGrown, EnterAgain
<1>2. live' = IF HasImage(p) THEN Put(image, program.symbols[x], e) ELSE image
  BY DEF EnterAgain
<1>3. HasImage(p) => x \in DOMAIN program.symbols
  BY <1>1 DEF ImagesInv, InstancesLaid, DataOfImage
<1>4. DOMAIN live \subseteq DOMAIN image
  BY <1>1, ResetAt
<1>5. ASSUME NEW s \in DOMAIN program.symbols
      PROVE  IF InArena(<<t, p>>, program.symbols[s])
               THEN program.symbols[s] \in DOMAIN image /\ image[program.symbols[s]] = program.initial[program.symbols[s]]
               ELSE At(image, program.symbols[s], 0) = At(live, program.symbols[s], 0)
  <2>1. program.symbols[s] \in Nat /\ program.symbols[s] \in DOMAIN program.initial
    BY <1>1, AddressIn
  <2> QED BY <2>1, <1>1, ResetAt DEF At
<1> HIDE DEF image
<1>6. DOMAIN live \subseteq DOMAIN live'
  BY <1>2, <1>4 DEF Put
<1>7. ASSUME NEW s \in DOMAIN program.symbols, ~ (HasImage(p) /\ s = x)
      PROVE  IF InArena(<<t, p>>, program.symbols[s])
               THEN program.symbols[s] \in DOMAIN live' /\ live'[program.symbols[s]] = program.initial[program.symbols[s]]
               ELSE At(live', program.symbols[s], 0) = At(live, program.symbols[s], 0)
  <2>1. CASE ~ HasImage(p)
    BY <2>1, <1>2, <1>5
  <2>2. CASE HasImage(p)
    <3>1. program.symbols[s] # program.symbols[x]
      BY <2>2, <1>1, <1>3, <1>7, OneAddress
    <3> QED BY <2>2, <3>1, <1>2, <1>5 DEF Put, At
  <2> QED BY <2>1, <2>2
<1>8. HasImage(p) => live'[DataAt(<<t, p>>, "environ")] = e
  BY <1>2 DEF Put, DataAt
<1> QED BY <1>6, <1>7, <1>8

\* The invariant is kept by the reset.
LEMMA EnterAgainKeeps ==
  ASSUME ImagesInv, NEW t \in Tasks, NEW p \in Payloads, NEW e, EnterAgain(t, p, e)
  PROVE  ImagesInv'
<1> DEFINE k == <<t, p>>
           x == <<instances[k].namespace, "environ">>
<1>1. /\ program' = program /\ runner' = runner /\ backend' = backend /\ engine' = engine
      /\ instances' = instances /\ saved' = saved /\ current' = current /\ heap' = heap
      /\ execs' = execs + 1 /\ phase = "guest" /\ k \in DOMAIN instances
  BY DEF EnterAgain, Enter
<1>2. Memory = live /\ (backend = "native" => engine = NewEngine(program))
  BY <1>1, GuestMemory DEF ImagesInv
<1>3. Sound(program)
  BY DEF ImagesInv, ProgramGrown
<1>4. StateTyped'
  <2>1. running' = [running EXCEPT ![t] = p] /\ env' = [env EXCEPT ![t] = e]
    BY DEF EnterAgain, Enter
  <2>2. running' \in Runs
    BY <2>1 DEF ImagesInv, StateTyped, Runs
  <2>3. DOMAIN env' = Tasks /\ env' = [u \in Tasks |-> env'[u]]
    BY <2>1 DEF ImagesInv, StateTyped
  <2> QED BY <1>1, <2>2, <2>3 DEF ImagesInv, StateTyped
<1>5. ProgramGrown'
  BY <1>1 DEF ImagesInv, ProgramGrown, OwnOnly
<1>6. InstancesLaid'
  BY <1>1 DEF ImagesInv, InstancesLaid, DataAt
<1>7. EngineFollows'
  BY <1>1, <1>2 DEF EngineFollows
<1>8. Memory' = live'
  BY <1>1, <1>2, EngineNow DEF Memory
<1>9. DOMAIN live \subseteq DOMAIN live'
  BY ExecAgainMemory
<1>10. HasImage(p) => x \in DOMAIN program.symbols /\ ~ Callable(program, x)
  BY <1>1 DEF ImagesInv, InstancesLaid, DataOfImage
<1>11. ASSUME NEW s \in DOMAIN program.symbols, ~ (HasImage(p) /\ s = x)
       PROVE  \/ program.symbols[s] \in DOMAIN live' /\ live'[program.symbols[s]] = program.initial[program.symbols[s]]
              \/ At(live', program.symbols[s], 0) = At(live, program.symbols[s], 0)
  BY <1>11, ExecAgainMemory
<1>12. CallsInMemory'
  <2> SUFFICES ASSUME NEW s, Callable(program, s), backend = "native" \/ ~ LinkedByExec(s)
               PROVE  At(live', program.symbols[s], 0) = program.initial[program.symbols[s]]
    BY <1>1, <1>8 DEF CallsInMemory, LinkedByExec
  <2>1. At(live, program.symbols[s], 0) = program.initial[program.symbols[s]]
    BY <1>2 DEF ImagesInv, CallsInMemory
  <2>2. s \in DOMAIN program.symbols /\ ~ (HasImage(p) /\ s = x)
    BY <1>3, <1>10, CallableLinked
  <2> QED BY <2>1, <2>2, <1>11 DEF At
<1>13. DataInMemory'
  <2> SUFFICES ASSUME NEW i \in DOMAIN instances, HasImage(i[2]), NEW n \in DataOfImage(i[2])
               PROVE  /\ DataAt(i, n) \in DOMAIN live'
                      /\ n \in DOMAIN Pointers(i[2]) => live'[DataAt(i, n)] = DataAt(i, Pointers(i[2])[n])
    BY <1>1, <1>8 DEF DataInMemory, DataAt
  <2>1. /\ DataAt(i, n) \in DOMAIN live
        /\ n \in DOMAIN Pointers(i[2]) => live[DataAt(i, n)] = DataAt(i, Pointers(i[2])[n])
    BY <1>2 DEF ImagesInv, DataInMemory
  <2>2. ASSUME n \in DOMAIN Pointers(i[2]) PROVE live'[DataAt(i, n)] = DataAt(i, Pointers(i[2])[n])
    <3>1. i[2] \in Payloads
      BY DEF ImagesInv, StateTyped
    <3>2. n # "environ"
      BY <2>2, <3>1, PayloadFacts
    <3>3. /\ <<instances[i].namespace, n>> \in DOMAIN program.symbols
          /\ program.initial[DataAt(i, n)] = DataAt(i, Pointers(i[2])[n])
      BY <2>2 DEF ImagesInv, InstancesLaid
    <3>4. \/ live'[DataAt(i, n)] = program.initial[DataAt(i, n)]
          \/ At(live', DataAt(i, n), 0) = At(live, DataAt(i, n), 0)
      BY <3>2, <3>3, <1>11 DEF DataAt
    <3> QED BY <3>3, <3>4, <2>1, <2>2, <1>9 DEF At
  <2> QED BY <2>1, <2>2, <1>9
<1>14. BootInMemory'
  BY <1>1, <1>9 DEF ImagesInv, BootInMemory
<1>15. SavedHolds'
  BY <1>1 DEF ImagesInv, SavedHolds
<1> QED BY <1>4, <1>5, <1>6, <1>7, <1>12, <1>13, <1>14, <1>15 DEF ImagesInv

\* An exec that is refused stops the machine.
LEMMA RefuseKeeps ==
  ASSUME ImagesInv, phase = "guest", Refuse
  PROVE  ImagesInv'
<1>1. /\ program' = program /\ runner' = runner /\ backend' = backend /\ engine' = engine
      /\ instances' = instances /\ live' = live /\ current' = current /\ heap' = heap /\ execs' = execs
      /\ running' = running /\ env' = env /\ saved' = saved
  BY DEF Refuse, machine, counters
<1>2. backend = "native" => engine = NewEngine(program)
  BY GuestMemory DEF ImagesInv
<1>3. StateTyped' /\ ProgramGrown' /\ BootInMemory' /\ SavedHolds'
  BY <1>1 DEF ImagesInv, StateTyped, ProgramGrown, OwnOnly, BootInMemory, SavedHolds
<1>4. InstancesLaid'
  BY <1>1 DEF ImagesInv, InstancesLaid, DataAt
<1>5. EngineFollows'
  BY <1>1, <1>2 DEF EngineFollows
<1>6. Memory' = Memory
  BY <1>1 DEF Memory
<1>7. CallsInMemory'
  BY <1>1, <1>6 DEF ImagesInv, CallsInMemory, LinkedByExec
<1>8. DataInMemory'
  BY <1>1, <1>6 DEF ImagesInv, DataInMemory, DataAt
<1> QED BY <1>3, <1>4, <1>5, <1>7, <1>8 DEF ImagesInv

\* So an exec of an instance that is there keeps the invariant.
LEMMA ExecAgainKeeps ==
  ASSUME ImagesInv, NEW t \in Tasks, NEW p \in Payloads, NEW e, ExecAgain(t, p, e)
  PROVE  ImagesInv'
BY RefuseKeeps, EnterAgainKeeps, ExecAgainEnters

-----------------------------------------------------------------------------
(* An exec that installs an image.                                         *)
InstanceOf(space, ns, p, final) ==
  [namespace |-> space, base |-> ArenaBase, end |-> final.nextData, entry |-> <<ns, Functions(p)[1]>>]

\* The code is named in ns; so are the data, if there are any.
InstallStep(t, p, e, ns, surface, code, final) ==
  /\ phase = "guest" /\ <<t, p>> \notin DOMAIN instances
  /\ NsOk(ns) /\ (\A u \in Tasks, q \in Payloads : ns = Own(u, q) => u = t /\ q = p)
  /\ ArenaBase \in Nat /\ program.nextData < ArenaBase
  /\ ExecTo(p, ns, e, surface, code, final)
  /\ program' = final
  /\ live' = Over(WrittenLive(surface, code, final), live)
  /\ heap' = AlignUp(final.nextData)
  /\ \E space : /\ NsOk(space) /\ (HasImage(p) => space = ns)
                /\ instances' = Put(instances, <<t, p>>, InstanceOf(space, ns, p, final))
  /\ Enter(t, p, e, final, <<ns, Functions(p)[1]>>)

\* The instances with the new one.
LEMMA InstallInstance ==
  ASSUME NEW t, NEW p, NEW e, NEW ns, NEW surface, NEW code, NEW final, InstallStep(t, p, e, ns, surface, code, final),
         NEW k, k = <<t, p>>
  PROVE  /\ DOMAIN instances' = DOMAIN instances \cup {k} /\ k \notin DOMAIN instances
         /\ \A i \in DOMAIN instances : i # k => instances'[i] = instances[i]
         /\ NsOk(instances'[k].namespace) /\ (HasImage(p) => instances'[k].namespace = ns)
         /\ instances'[k].base = ArenaBase /\ instances'[k].end = final.nextData
         /\ instances'[k].entry = <<ns, Functions(p)[1]>>
<1>1. PICK space : /\ NsOk(space) /\ (HasImage(p) => space = ns)
                   /\ instances' = Put(instances, k, InstanceOf(space, ns, p, final))
  BY DEF InstallStep
<1>2. k \notin DOMAIN instances
  BY DEF InstallStep
<1>3. /\ DOMAIN instances' = DOMAIN instances \cup {k} /\ instances'[k] = InstanceOf(space, ns, p, final)
      /\ \A i \in DOMAIN instances : i # k => instances'[i] = instances[i]
  <2>1. PICK v : v = InstanceOf(space, ns, p, final)
    OBVIOUS
  <2>2. instances' = Put(instances, k, v)
    BY <1>1, <2>1
  <2> QED BY <2>1, <2>2 DEF Put
<1> QED BY <1>1, <1>2, <1>3 DEF InstanceOf

\* Rounding up stays in the numbers.
LEMMA AlignUpNat == ASSUME NEW n \in Nat PROVE AlignUp(n) \in Nat
BY DEF AlignUp

\* Names of functions are of use only where there are functions and externals.
LEMMA OneSpace ==
  ASSUME NEW p \in Payloads, NEW ns, NEW cs, HasImage(p) => ns = cs, NEW e, NEW q
  PROVE  /\ WithSurface(p, ns, e) = WithSurface(p, cs, e)
         /\ WithFunctions(q, p, ns, cs) = WithFunctions(q, p, cs, cs)
         /\ WithImage(q, p, ns) = WithImage(q, p, cs)
<1>1. CASE HasImage(p)
  BY <1>1
<1>2. CASE ~ HasImage(p)
  <2>1. Externals(p) = <<>>
    BY <1>2, PayloadAssumption
  <2>2. Named(ns, Externals(p)) = <<>> /\ Named(cs, Externals(p)) = <<>>
    BY <2>1 DEF Named
  <2>3. Uses(ns, cs, p) = Uses(cs, cs, p)
    BY <2>2 DEF Uses
  <2>4. WithFunctions(q, p, ns, cs) = WithFunctions(q, p, cs, cs)
    BY <2>3 DEF WithFunctions
  <2>5. WithSurface(p, ns, e) = WithSurface(p, cs, e) /\ WithImage(q, p, ns) = WithImage(q, p, cs)
    BY <1>2 DEF WithSurface, WithImage
  <2> QED BY <2>4, <2>5
<1> QED BY <1>1, <1>2

\* An exec that is not refused installs.
LEMMA ExecInstalls ==
  ASSUME ~ LooseProbes, ImagesInv, NEW t \in Tasks, NEW p \in Payloads, NEW e, ExecFresh(t, p, e)
  PROVE  (phase = "guest" /\ Refuse) \/ \E ns, surface, code, final : InstallStep(t, p, e, ns, surface, code, final)
<1>1. PICK space : space = Namespace(t, p)
  OBVIOUS
<1>2. PICK ns : ns = CodeSpace(t, p)
  OBVIOUS
<1>3. PICK surface : surface = WithSurface(p, space, e)
  OBVIOUS
<1>4. PICK code : code = WithFunctions(surface, p, space, ns)
  OBVIOUS
<1>5. PICK final : final = WithImage(code, p, space)
  OBVIOUS
<1>6. /\ phase = "guest" /\ <<t, p>> \notin DOMAIN instances
      /\ \/ Refuse
         \/ /\ ~ (ArenaBase <= program.nextData) /\ ~ (Moves(p) /\ ~ HasImage(p))
            /\ program' = final /\ live' = Over(WrittenLive(surface, code, final), live)
            /\ heap' = AlignUp(final.nextData)
            /\ instances' = Put(instances, <<t, p>>, InstanceOf(space, ns, p, final))
            /\ Enter(t, p, e, final, <<ns, Functions(p)[1]>>)
  BY <1>1, <1>2, <1>3, <1>4, <1>5 DEF ExecFresh, InstanceOf
<1>7. /\ Sound(program) /\ UsesOk(program) /\ OwnOnly /\ heap \in Nat
  BY DEF ImagesInv, ProgramGrown, StateTyped
<1>8. ArenaBase \in Nat
  BY <1>7, AlignUpNat DEF ArenaBase
<1>9. program.nextData \in Nat
  BY <1>7 DEF Sound, Shaped
<1>10. ASSUME NEW u \in Tasks, NEW q \in Payloads, ns = Own(u, q) PROVE u = t /\ q = p
  <2>1. \A n : Suffixed(n)[1] = "user" /\ Base[1] = "user"
    BY DEF Suffixed, Base
  <2>2. Own(u, q)[1] = "exec"
    BY DEF Own
  <2>3. ns = Own(t, p)
    BY <1>2, <1>10, <2>1, <2>2 DEF Namespace, CodeSpace
  <2> QED BY <2>3, <1>10 DEF Own
<1>11. CASE ~ (ArenaBase <= program.nextData) /\ ~ (Moves(p) /\ ~ HasImage(p)) /\ ~ Refuse
  <2>1. program.nextData < ArenaBase /\ program.nextData <= ArenaBase
    BY <1>8, <1>9, <1>11
  <2>2. NsOk(space) /\ NsOk(ns) /\ FreeNames(program, p, ns) /\ (HasImage(p) => space = ns)
    BY <1>1, <1>2, <1>6, <1>7, <1>11, NamespaceFree
  <2>3. /\ surface = WithSurface(p, ns, e) /\ code = WithFunctions(surface, p, ns, ns)
        /\ final = WithImage(code, p, ns)
    BY <1>3, <1>4, <1>5, <2>2, OneSpace
  <2>4. ExecTo(p, ns, e, surface, code, final)
    BY <1>7, <1>8, <2>1, <2>2, <2>3, ExecSound
  <2>5. InstallStep(t, p, e, ns, surface, code, final)
    BY <1>6, <1>8, <1>10, <1>11, <2>1, <2>2, <2>4 DEF InstallStep
  <2> QED BY <2>5
<1> QED BY <1>6, <1>11

\* What an installation leaves alone.
LEMMA InstallFrame ==
  ASSUME NEW t, NEW p, NEW e, NEW ns, NEW surface, NEW code, NEW final, InstallStep(t, p, e, ns, surface, code, final)
  PROVE  /\ runner' = runner /\ backend' = backend /\ engine' = engine /\ current' = current
         /\ saved' = saved /\ phase' = "host" /\ phase = "guest" /\ execs' = execs + 1
         /\ running' = [running EXCEPT ![t] = p] /\ env' = [env EXCEPT ![t] = e]
         /\ program' = final
BY DEF InstallStep, Enter

\* The tables after an installation.
LEMMA InstallTables ==
  ASSUME NEW t, NEW p, NEW e, NEW ns, NEW surface, NEW code, NEW final, InstallStep(t, p, e, ns, surface, code, final),
         ImagesInv
  PROVE  /\ Sound(program) /\ Sound(final) /\ Grows(program, final) /\ UsesOk(program) /\ UsesOk(final)
         /\ program.nextData \in Nat /\ ArenaBase \in Nat /\ final.nextData \in Nat
         /\ program.nextData < ArenaBase /\ ArenaBase <= final.nextData
         /\ Memory = live /\ (backend = "native" => engine = NewEngine(program))
         /\ runner \in {1, 2} /\ Sound(Booted[runner]) /\ Grows(Booted[runner], program)
<1>1. Sound(program) /\ UsesOk(program) /\ Grows(Booted[runner], program) /\ runner \in {1, 2}
  BY DEF ImagesInv, ProgramGrown, StateTyped
<1>2. Sound(Booted[runner])
  BY <1>1, BootedFacts
<1>3. /\ Sound(final) /\ Grows(program, final) /\ UsesOk(final)
      /\ ArenaBase <= surface.nextData /\ surface.nextData <= code.nextData /\ code.nextData <= final.nextData
      /\ surface.nextData \in Nat /\ code.nextData \in Nat
      /\ ArenaBase \in Nat /\ program.nextData < ArenaBase
  BY DEF InstallStep, ExecTo
<1>4. program.nextData \in Nat /\ final.nextData \in Nat
  BY <1>1, <1>3 DEF Sound, Shaped
<1>5. Memory = live /\ (backend = "native" => engine = NewEngine(program))
  BY InstallFrame, GuestMemory DEF ImagesInv
<1>6. ArenaBase <= final.nextData
  BY <1>3, <1>4
<1> QED BY <1>1, <1>2, <1>3, <1>4, <1>5, <1>6

\* The symbols that are new.
LEMMA InstallNew ==
  ASSUME NEW t, NEW p, NEW e, NEW ns, NEW surface, NEW code, NEW final, InstallStep(t, p, e, ns, surface, code, final),
         ImagesInv, NEW s \in DOMAIN final.symbols, s \notin DOMAIN program.symbols
  PROVE  /\ s[1] = ns \/ s[1] = <<"helper">>
         /\ ArenaBase <= final.symbols[s] /\ program.nextData <= final.symbols[s]
         /\ Callable(final, s) => \/ s \in DOMAIN final.functions \/ s[1] = <<"helper">>
                                  \/ final.symbols[s] < surface.nextData
<1>1. /\ s[1] = ns \/ s[1] = <<"helper">>
      /\ ArenaBase <= final.symbols[s]
      /\ Callable(final, s) => \/ s \in DOMAIN final.functions \/ s[1] = <<"helper">>
                               \/ final.symbols[s] < surface.nextData
  BY DEF InstallStep, ExecTo
<1>2. final.symbols[s] \in Nat
  BY InstallTables, AddressIn
<1>3. program.nextData <= final.symbols[s]
  <2>1. program.nextData \in Nat /\ ArenaBase \in Nat /\ program.nextData < ArenaBase
    BY InstallTables
  <2> QED BY <1>1, <1>2, <2>1
<1> QED BY <1>1, <1>3

\* The tables stay as the invariant says.
LEMMA InstallTyped ==
  ASSUME ImagesInv, NEW t \in Tasks, NEW p \in Payloads, NEW e, NEW ns, NEW surface, NEW code, NEW final,
         InstallStep(t, p, e, ns, surface, code, final)
  PROVE  StateTyped'
<1>1. /\ runner' = runner /\ current' = current /\ execs' = execs + 1
      /\ running' = [running EXCEPT ![t] = p] /\ env' = [env EXCEPT ![t] = e]
  BY InstallFrame
<1>2. heap' \in Nat
  BY InstallTables, AlignUpNat DEF InstallStep
<1>3. DOMAIN instances' = DOMAIN instances \cup {<<t, p>>}
  BY InstallInstance
<1>4. running' \in Runs
  BY <1>1 DEF ImagesInv, StateTyped, Runs
<1>5. DOMAIN env' = Tasks /\ env' = [u \in Tasks |-> env'[u]]
  BY <1>1 DEF ImagesInv, StateTyped
<1>6. DOMAIN instances' \subseteq Tasks \X Payloads
  BY <1>3 DEF ImagesInv, StateTyped
<1> QED BY <1>1, <1>2, <1>4, <1>5, <1>6 DEF ImagesInv, StateTyped

\* The program stays sound and belongs to the instances there are.
LEMMA InstallGrown ==
  ASSUME ImagesInv, NEW t \in Tasks, NEW p \in Payloads, NEW e, NEW ns, NEW surface, NEW code, NEW final,
         InstallStep(t, p, e, ns, surface, code, final)
  PROVE  ProgramGrown'
<1>1. /\ Sound(program) /\ Sound(final) /\ Grows(program, final) /\ UsesOk(final)
      /\ Sound(Booted[runner]) /\ Grows(Booted[runner], program)
  BY InstallTables
<1>2. runner' = runner /\ program' = final
  BY InstallFrame
<1>3. Grows(Booted[runner], final)
  BY <1>1, GrowsOn
<1>4. \E f \in DOMAIN final.functions : f \notin DOMAIN Booted[runner].functions
  <2>1. PICK f \in DOMAIN final.functions : f \notin DOMAIN program.functions
    BY DEF InstallStep, ExecTo
  <2> QED BY <2>1, <1>1 DEF Grows, Extends
<1>5. ASSUME NEW s \in DOMAIN final.symbols, NEW u \in Tasks, NEW q \in Payloads, s[1] = Own(u, q)
      PROVE  <<u, q>> \in DOMAIN instances'
  <2>1. DOMAIN instances' = DOMAIN instances \cup {<<t, p>>}
    BY InstallInstance
  <2>2. CASE s \in DOMAIN program.symbols
    BY <2>1, <2>2, <1>5 DEF ImagesInv, ProgramGrown, OwnOnly
  <2>3. CASE s \notin DOMAIN program.symbols
    <3>1. s[1] = ns \/ s[1] = <<"helper">>
      BY <2>3, InstallNew, SMTT(40)
    <3>2. Own(u, q) # <<"helper">>
      BY DEF Own
    <3>3. u = t /\ q = p
      BY <3>1, <3>2, <1>5 DEF InstallStep
    <3> QED BY <3>3, <2>1
  <2> QED BY <2>2, <2>3
<1>6. ASSUME NEW s, s = <<Base, "errno">>, s \in DOMAIN final.symbols
      PROVE  <<Base, "environ">> \in DOMAIN final.symbols
  <2>1. CASE s \in DOMAIN program.symbols
    <3>1. <<Base, "environ">> \in DOMAIN program.symbols
      BY <2>1, <1>6 DEF ImagesInv, ProgramGrown, OwnOnly
    <3> QED BY <3>1, <1>1 DEF Grows, Extends
  <2>2. CASE s \notin DOMAIN program.symbols
    <3>1. s[1] = Base /\ s[2] = "errno" /\ Base # <<"helper">>
      BY <1>6 DEF Base
    <3>2. s[1] = ns
      BY <3>1, <2>2, <1>6, InstallNew, SMTT(40)
    <3>3. s \in DOMAIN program.symbols \/ <<ns, "environ">> \in DOMAIN final.symbols
      BY <3>1, <3>2, <1>6 DEF InstallStep, ExecTo
    <3> QED BY <2>2, <3>1, <3>2, <3>3
  <2> QED BY <2>1, <2>2
<1>7. OwnOnly'
  BY <1>2, <1>5, <1>6 DEF OwnOnly
<1> QED BY <1>1, <1>2, <1>3, <1>4, <1>7 DEF ProgramGrown

\* The native engine has fallen behind, and will copy all words that are new.
LEMMA InstallEngine ==
  ASSUME ImagesInv, NEW t \in Tasks, NEW p \in Payloads, NEW e, NEW ns, NEW surface, NEW code, NEW final,
         InstallStep(t, p, e, ns, surface, code, final), backend = "native"
  PROVE  /\ Outgrown(program, final) /\ engine' = NewEngine(program)
         /\ Memory' = SyncAppended(final, NewEngine(program), live')
<1>1. /\ Sound(program) /\ Sound(final) /\ Grows(program, final) /\ UsesOk(program)
      /\ engine = NewEngine(program)
  BY InstallTables
<1>2. Syscall \in DOMAIN final.symbols => Syscall \in DOMAIN program.symbols
  <2>1. Syscall[1] = <<"kernel">> /\ <<"kernel">> # <<"helper">>
    BY DEF Syscall, KernelName
  <2>2. ns # <<"kernel">>
    BY NsFacts DEF InstallStep
  <2> QED BY <2>1, <2>2, InstallNew
<1>3. Outgrown(program, final)
  BY <1>1, <1>2 DEF Outgrown, InstallStep, ExecTo
<1>4. engine' = NewEngine(program) /\ program' = final /\ backend' = "native"
  BY <1>1, InstallFrame
<1>5. Memory' = CurrentMemory(final, NewEngine(program), live')
  BY <1>4 DEF Memory
<1> QED BY <1>1, <1>3, <1>4, <1>5, EngineCatchesUp

\* The words the installation writes.
LEMMA InstallWords ==
  ASSUME ImagesInv, NEW t, NEW p, NEW e, NEW ns, NEW surface, NEW code, NEW final,
         InstallStep(t, p, e, ns, surface, code, final)
  PROVE  /\ DOMAIN live \subseteq DOMAIN live'
         /\ \A a \in DOMAIN final.initial : ArenaBase <= a /\ (a < surface.nextData \/ code.nextData <= a) =>
              a \in DOMAIN live' /\ live'[a] = final.initial[a]
         /\ \A a \in Nat : a < ArenaBase => At(live', a, 0) = At(live, a, 0)
<1> DEFINE words == WrittenLive(surface, code, final)
<1>1. /\ ArenaBase \in Nat /\ surface.nextData \in Nat /\ code.nextData \in Nat /\ final.nextData \in Nat
      /\ ArenaBase <= code.nextData
      /\ \A a \in DOMAIN final.initial : a \in Nat /\ a < final.nextData
  <2>1. /\ Sound(final) /\ ArenaBase \in Nat /\ surface.nextData \in Nat /\ code.nextData \in Nat
        /\ ArenaBase <= surface.nextData /\ surface.nextData <= code.nextData
    BY DEF InstallStep, ExecTo
  <2> QED BY <2>1 DEF Sound, Shaped, DataApart
<1>2. live' = Over(words, live)
  BY DEF InstallStep
<1>3. /\ DOMAIN words = (ArenaBase..(surface.nextData - 1)) \cup (code.nextData..(final.nextData - 1))
      /\ \A a \in DOMAIN words : words[a] = At(final.initial, a, 0)
  BY DEF WrittenLive
<1> HIDE DEF words
<1>4. \A a \in DOMAIN words : a \in Int /\ ArenaBase <= a
  BY <1>1, <1>3
<1>5. \A a \in DOMAIN final.initial : ArenaBase <= a /\ (a < surface.nextData \/ code.nextData <= a) =>
        a \in DOMAIN words
  BY <1>1, <1>3
<1>6. \A a \in Nat : a < ArenaBase => a \notin DOMAIN words
  BY <1>1, <1>4
<1> QED BY <1>2, <1>3, <1>5, <1>6 DEF Over, At

\* Symbols that were there are found as they were.
LEMMA InstallKept ==
  ASSUME ImagesInv, NEW t \in Tasks, NEW p \in Payloads, NEW e, NEW ns, NEW surface, NEW code, NEW final,
         InstallStep(t, p, e, ns, surface, code, final), NEW s \in DOMAIN program.symbols
  PROVE  /\ s \in DOMAIN final.symbols /\ final.symbols[s] = program.symbols[s]
         /\ final.initial[program.symbols[s]] = program.initial[program.symbols[s]]
         /\ Callable(final, s) = Callable(program, s)
         /\ At(live', program.symbols[s], 0) = At(live, program.symbols[s], 0)
         /\ At(Memory', program.symbols[s], 0) = At(live', program.symbols[s], 0)
<1>1. /\ Sound(program) /\ Sound(final) /\ Grows(program, final)
      /\ program.nextData \in Nat /\ ArenaBase \in Nat /\ program.nextData < ArenaBase
  BY InstallTables
<1>2. /\ s \in DOMAIN final.symbols /\ final.symbols[s] = program.symbols[s]
      /\ final.initial[program.symbols[s]] = program.initial[program.symbols[s]]
      /\ Callable(final, s) = Callable(program, s)
  BY <1>1, GrowsKeeps
<1>3. program.symbols[s] \in Nat /\ program.symbols[s] < program.nextData
  BY <1>1, AddressIn
<1>4. program.symbols[s] < ArenaBase /\ ~ (program.nextData <= program.symbols[s])
  BY <1>1, <1>3
<1>5. At(live', program.symbols[s], 0) = At(live, program.symbols[s], 0)
  BY <1>3, <1>4, InstallWords
<1>6. At(Memory', program.symbols[s], 0) = At(live', program.symbols[s], 0)
  <2>1. CASE backend = "native"
    <3>1. Memory' = SyncAppended(final, NewEngine(program), live')
      BY <2>1, InstallEngine
    <3> QED BY <3>1, <1>1, <1>4, SyncedAt
  <2>2. CASE backend # "native"
    <3>1. Memory' = live'
      BY <2>2, InstallFrame DEF Memory
    <3> QED BY <3>1
  <2> QED BY <2>1, <2>2
<1> QED BY <1>2, <1>5, <1>6

\* New symbols have their initial words in the memory: all of them once the engine has caught up,
\* those of the surface and of the module image at once.
LEMMA InstallFound ==
  ASSUME ImagesInv, NEW t \in Tasks, NEW p \in Payloads, NEW e, NEW ns, NEW surface, NEW code, NEW final,
         InstallStep(t, p, e, ns, surface, code, final),
         NEW s \in DOMAIN final.symbols, s \notin DOMAIN program.symbols
  PROVE  /\ backend = "native" => /\ final.symbols[s] \in DOMAIN Memory'
                                  /\ Memory'[final.symbols[s]] = final.initial[final.symbols[s]]
         /\ final.symbols[s] < surface.nextData \/ code.nextData <= final.symbols[s] =>
              /\ final.symbols[s] \in DOMAIN live' /\ live'[final.symbols[s]] = final.initial[final.symbols[s]]
              /\ final.symbols[s] \in DOMAIN Memory' /\ Memory'[final.symbols[s]] = live'[final.symbols[s]]
<1> DEFINE a == final.symbols[s]
<1>1. Sound(program) /\ Sound(final)
  BY InstallTables
<1>2. a \in DOMAIN final.initial
  BY <1>1, AddressIn
<1>3. ArenaBase <= a /\ program.nextData <= a
  BY InstallNew
<1> HIDE DEF a
<1>4. ASSUME backend = "native" PROVE a \in DOMAIN Memory' /\ Memory'[a] = final.initial[a]
  <2>1. Memory' = SyncAppended(final, NewEngine(program), live')
    BY <1>4, InstallEngine
  <2> QED BY <2>1, <1>1, <1>2, <1>3, SyncedAt
<1>5. ASSUME a < surface.nextData \/ code.nextData <= a
      PROVE  /\ a \in DOMAIN live' /\ live'[a] = final.initial[a]
             /\ a \in DOMAIN Memory' /\ Memory'[a] = live'[a]
  <2>1. a \in DOMAIN live' /\ live'[a] = final.initial[a]
    BY <1>2, <1>3, <1>5, InstallWords
  <2>2. CASE backend = "native"
    BY <2>1, <2>2, <1>4
  <2>3. CASE backend # "native"
    <3>1. Memory' = live'
      BY <2>3, InstallFrame DEF Memory
    <3> QED BY <3>1, <2>1
  <2> QED BY <2>1, <2>2, <2>3
<1> QED BY <1>4, <1>5 DEF a

\* Calls find their descriptors after an installation.
LEMMA InstallCalls ==
  ASSUME ImagesInv, NEW t \in Tasks, NEW p \in Payloads, NEW e, NEW ns, NEW surface, NEW code, NEW final,
         InstallStep(t, p, e, ns, surface, code, final)
  PROVE  CallsInMemory'
<1>1. program' = final /\ runner' = runner /\ backend' = backend
  BY InstallFrame
<1>2. /\ Sound(program) /\ Sound(final) /\ Grows(program, final) /\ Memory = live
      /\ Sound(Booted[runner]) /\ Grows(Booted[runner], program)
  BY InstallTables
<1> SUFFICES ASSUME NEW s, Callable(final, s), backend = "native" \/ ~ LinkedByExec(s)'
             PROVE  At(Memory', final.symbols[s], 0) = final.initial[final.symbols[s]]
  BY <1>1 DEF CallsInMemory
<1>3. s \in DOMAIN final.symbols
  BY <1>2, CallableLinked
<1>4. CASE s \in DOMAIN program.symbols
  <2>1. /\ final.symbols[s] = program.symbols[s]
        /\ final.initial[program.symbols[s]] = program.initial[program.symbols[s]]
        /\ Callable(program, s)
        /\ At(Memory', program.symbols[s], 0) = At(live, program.symbols[s], 0)
    BY <1>4, InstallKept
  <2>2. backend = "native" \/ ~ LinkedByExec(s)
    BY <1>1, <1>2 DEF LinkedByExec, Linked, Grows, Extends
  <2>3. At(live, program.symbols[s], 0) = program.initial[program.symbols[s]]
    BY <2>1, <2>2, <1>2 DEF ImagesInv, CallsInMemory
  <2> QED BY <2>1, <2>3
<1>5. CASE s \notin DOMAIN program.symbols
  <2>1. CASE backend = "native"
    BY <2>1, <1>3, <1>5, InstallFound DEF At
  <2>2. CASE backend # "native"
    <3>1. s \notin DOMAIN Booted[runner].symbols
      BY <1>2, <1>5 DEF Grows, Extends
    <3>2. s \notin DOMAIN final.functions /\ s[1] # <<"helper">>
      BY <2>2, <3>1, <1>1 DEF LinkedByExec, Linked
    <3>3. final.symbols[s] < surface.nextData
      BY <3>2, <1>3, <1>5, InstallNew
    <3> QED BY <3>3, <1>3, <1>5, InstallFound DEF At
  <2> QED BY <2>1, <2>2
<1> QED BY <1>4, <1>5

\* A datum of the new instance.
NewDatum(p, e, ns, final, n) ==
  /\ <<ns, n>> \in DOMAIN final.symbols /\ ~ Callable(final, <<ns, n>>)
  /\ ArenaBase <= final.symbols[<<ns, n>>] /\ final.symbols[<<ns, n>>] < final.nextData
  /\ final.symbols[<<ns, n>>] \in DOMAIN live'
  /\ live'[final.symbols[<<ns, n>>]] = final.initial[final.symbols[<<ns, n>>]]
  /\ Memory'[final.symbols[<<ns, n>>]] = live'[final.symbols[<<ns, n>>]]
  /\ n \notin DOMAIN Pointers(p) => final.initial[final.symbols[<<ns, n>>]] = IF n = "environ" THEN e ELSE 0
  /\ n \in DOMAIN Pointers(p) =>
       /\ final.initial[final.symbols[<<ns, n>>]] = final.symbols[<<ns, Pointers(p)[n]>>]
       /\ <<ns, Pointers(p)[n]>> \in DOMAIN final.symbols

\* The data of the new instance are linked, not called, in its arena and as the image says.
LEMMA InstallNewData ==
  ASSUME ImagesInv, NEW t \in Tasks, NEW p \in Payloads, NEW e, NEW ns, NEW surface, NEW code, NEW final,
         InstallStep(t, p, e, ns, surface, code, final), HasImage(p), NEW n \in DataOfImage(p)
  PROVE  NewDatum(p, e, ns, final, n)
<1>1. /\ <<ns, n>> \in DOMAIN final.symbols /\ <<ns, n>> \notin DOMAIN program.symbols
      /\ ~ Callable(final, <<ns, n>>)
      /\ final.symbols[<<ns, n>>] < surface.nextData \/ code.nextData <= final.symbols[<<ns, n>>]
      /\ n \notin DOMAIN Pointers(p) => final.initial[final.symbols[<<ns, n>>]] = IF n = "environ" THEN e ELSE 0
      /\ n \in DOMAIN Pointers(p) =>
           /\ final.initial[final.symbols[<<ns, n>>]] = final.symbols[<<ns, Pointers(p)[n]>>]
           /\ <<ns, Pointers(p)[n]>> \in DOMAIN final.symbols
  BY DEF InstallStep, ExecTo
<1>2. ASSUME NEW s, s = <<ns, n>>
      PROVE  /\ ArenaBase <= final.symbols[s] /\ final.symbols[s] < final.nextData
             /\ final.symbols[s] \in DOMAIN live' /\ live'[final.symbols[s]] = final.initial[final.symbols[s]]
             /\ Memory'[final.symbols[s]] = live'[final.symbols[s]]
  <2>1. /\ s \in DOMAIN final.symbols /\ s \notin DOMAIN program.symbols
        /\ final.symbols[s] < surface.nextData \/ code.nextData <= final.symbols[s]
    BY <1>1, <1>2
  <2>2. Sound(final)
    BY InstallTables
  <2> QED BY <2>1, <2>2, InstallNew, InstallFound, AddressIn
<1> QED BY <1>1, <1>2 DEF NewDatum

\* Instances have their data in arenas apart.
LEMMA InstallLaid ==
  ASSUME ImagesInv, NEW t \in Tasks, NEW p \in Payloads, NEW e, NEW ns, NEW surface, NEW code, NEW final,
         InstallStep(t, p, e, ns, surface, code, final)
  PROVE  InstancesLaid'
<1> DEFINE k == <<t, p>>
<1>1. /\ DOMAIN instances' = DOMAIN instances \cup {k} /\ k \notin DOMAIN instances
      /\ \A i \in DOMAIN instances : i # k => instances'[i] = instances[i]
      /\ NsOk(instances'[k].namespace) /\ (HasImage(p) => instances'[k].namespace = ns)
      /\ instances'[k].base = ArenaBase /\ instances'[k].end = final.nextData
  BY InstallInstance
<1>2. /\ program.nextData \in Nat /\ ArenaBase \in Nat /\ final.nextData \in Nat
      /\ program.nextData < ArenaBase /\ ArenaBase <= final.nextData
  BY InstallTables
<1>3. program' = final
  BY InstallFrame
<1>4. \A i \in DOMAIN instances : /\ instances[i].base \in Nat /\ instances[i].end \in Nat
                                  /\ instances[i].end <= program.nextData
  BY DEF ImagesInv, InstancesLaid
<1>5. k[2] = p
  OBVIOUS
<1> HIDE DEF k
<1>6. \A i \in DOMAIN instances' : \A j \in DOMAIN instances' : i # j =>
        instances'[i].end <= instances'[j].base \/ instances'[j].end <= instances'[i].base
  <2> SUFFICES ASSUME NEW i \in DOMAIN instances', NEW j \in DOMAIN instances', i # j
               PROVE  instances'[i].end <= instances'[j].base \/ instances'[j].end <= instances'[i].base
    OBVIOUS
  <2>1. CASE i = k
    BY <2>1, <1>1, <1>2, <1>4
  <2>2. CASE j = k
    BY <2>2, <1>1, <1>2, <1>4
  <2>3. CASE i # k /\ j # k
    BY <2>3, <1>1 DEF ImagesInv, InstancesLaid
  <2> QED BY <2>1, <2>2, <2>3
<1>7. ASSUME NEW i \in DOMAIN instances'
      PROVE  /\ NsOk(instances'[i].namespace)
             /\ instances'[i].base \in Nat /\ instances'[i].end \in Nat
             /\ instances'[i].end <= final.nextData
  <2>1. CASE i = k
    BY <2>1, <1>1, <1>2, <1>3
  <2>2. CASE i # k
    <3>1. i \in DOMAIN instances /\ instances'[i] = instances[i] /\ NsOk(instances[i].namespace)
      BY <2>2, <1>1, <1>7 DEF ImagesInv, InstancesLaid
    <3> QED BY <3>1, <1>2, <1>4
  <2> QED BY <2>1, <2>2
<1>8. ASSUME NEW i \in DOMAIN instances', HasImage(i[2]), NEW n \in DataOfImage(i[2])
      PROVE  /\ <<instances'[i].namespace, n>> \in DOMAIN final.symbols
             /\ ~ Callable(final, <<instances'[i].namespace, n>>)
             /\ instances'[i].base <= DataAt(i, n)' /\ DataAt(i, n)' < instances'[i].end
             /\ n # "environ" /\ n \notin DOMAIN Pointers(i[2]) => final.initial[DataAt(i, n)'] = 0
             /\ n \in DOMAIN Pointers(i[2]) =>
                 /\ <<instances'[i].namespace, Pointers(i[2])[n]>> \in DOMAIN final.symbols
                 /\ final.initial[DataAt(i, n)'] = DataAt(i, Pointers(i[2])[n])'
  <2>1. CASE i = k
    <3>1. HasImage(p) /\ n \in DataOfImage(p) /\ i[2] = p
      BY <2>1, <1>5, <1>8
    <3>2. instances'[i].namespace = ns /\ \A o : DataAt(i, o)' = final.symbols[<<ns, o>>]
      BY <2>1, <3>1, <1>1, <1>3 DEF DataAt
    <3>3. DataAt(i, n)' = final.symbols[<<ns, n>>]
      BY <3>2
    <3>4. NewDatum(p, e, ns, final, n)
      BY <3>1, InstallNewData
    <3> QED BY <2>1, <3>1, <3>2, <3>3, <3>4, <1>1 DEF NewDatum
  <2>2. CASE i # k
    <3>1. i \in DOMAIN instances /\ instances'[i] = instances[i]
      BY <2>2, <1>1, <1>8
    <3>2. /\ <<instances[i].namespace, n>> \in DOMAIN program.symbols
          /\ ~ Callable(program, <<instances[i].namespace, n>>)
          /\ instances[i].base <= DataAt(i, n) /\ DataAt(i, n) < instances[i].end
          /\ n # "environ" /\ n \notin DOMAIN Pointers(i[2]) => program.initial[DataAt(i, n)] = 0
          /\ n \in DOMAIN Pointers(i[2]) =>
               /\ <<instances[i].namespace, Pointers(i[2])[n]>> \in DOMAIN program.symbols
               /\ program.initial[DataAt(i, n)] = DataAt(i, Pointers(i[2])[n])
      BY <3>1, <1>8 DEF ImagesInv, InstancesLaid
    <3>3. ASSUME NEW o, <<instances[i].namespace, o>> \in DOMAIN program.symbols
          PROVE  /\ <<instances[i].namespace, o>> \in DOMAIN final.symbols
                 /\ Callable(final, <<instances[i].namespace, o>>) = Callable(program, <<instances[i].namespace, o>>)
                 /\ DataAt(i, o)' = DataAt(i, o)
                 /\ final.initial[DataAt(i, o)] = program.initial[DataAt(i, o)]
      <4> DEFINE s == <<instances[i].namespace, o>>
      <4>1. DataAt(i, o)' = final.symbols[s] /\ DataAt(i, o) = program.symbols[s]
        BY <3>1, <1>3 DEF DataAt
      <4>2. s \in DOMAIN program.symbols
        BY <3>3
      <4> HIDE DEF s
      <4>3. /\ s \in DOMAIN final.symbols /\ final.symbols[s] = program.symbols[s]
            /\ final.initial[program.symbols[s]] = program.initial[program.symbols[s]]
            /\ Callable(final, s) = Callable(program, s)
        BY <4>2, InstallKept
      <4> QED BY <4>1, <4>3 DEF s
    <3> QED BY <3>1, <3>2, <3>3
  <2> QED BY <2>1, <2>2
<1>9. ASSUME NEW i \in DOMAIN instances', HasImage(i[2]), NEW o \in DOMAIN Pointers(i[2])
      PROVE  o \in DataOfImage(i[2])
  <2>1. i[2] \in Payloads
    BY <1>1, <1>5 DEF ImagesInv, StateTyped
  <2> QED BY <2>1, <1>9, PayloadFacts DEF DataOfImage
<1> QED BY <1>3, <1>6, <1>7, <1>8, <1>9 DEF InstancesLaid

\* The data of all instances are found after an installation.
LEMMA InstallData ==
  ASSUME ImagesInv, NEW t \in Tasks, NEW p \in Payloads, NEW e, NEW ns, NEW surface, NEW code, NEW final,
         InstallStep(t, p, e, ns, surface, code, final)
  PROVE  DataInMemory'
<1> DEFINE k == <<t, p>>
<1>1. /\ DOMAIN instances' = DOMAIN instances \cup {k}
      /\ \A i \in DOMAIN instances : i # k => instances'[i] = instances[i]
      /\ (HasImage(p) => instances'[k].namespace = ns)
  BY InstallInstance
<1>2. program' = final /\ Memory = live /\ DOMAIN live \subseteq DOMAIN live'
  BY InstallFrame, InstallTables, InstallWords
<1>3. k[2] = p
  OBVIOUS
<1> HIDE DEF k
<1> SUFFICES ASSUME NEW i \in DOMAIN instances', HasImage(i[2]), NEW n \in DataOfImage(i[2])
             PROVE  /\ DataAt(i, n)' \in DOMAIN live'
                    /\ n \notin DOMAIN Pointers(i[2]) => Memory'[DataAt(i, n)'] = live'[DataAt(i, n)']
                    /\ n \in DOMAIN Pointers(i[2]) => Memory'[DataAt(i, n)'] = DataAt(i, Pointers(i[2])[n])'
  BY DEF DataInMemory
<1>4. CASE i = k
  <2>1. \A o : DataAt(i, o)' = final.symbols[<<ns, o>>]
    BY <1>3, <1>4, <1>1, <1>2 DEF DataAt
  <2>2. HasImage(p) /\ n \in DataOfImage(p) /\ i[2] = p
    BY <1>3, <1>4
  <2>3. /\ final.symbols[<<ns, n>>] \in DOMAIN live'
        /\ live'[final.symbols[<<ns, n>>]] = final.initial[final.symbols[<<ns, n>>]]
        /\ Memory'[final.symbols[<<ns, n>>]] = live'[final.symbols[<<ns, n>>]]
        /\ n \in DOMAIN Pointers(p) =>
             final.initial[final.symbols[<<ns, n>>]] = final.symbols[<<ns, Pointers(p)[n]>>]
    <3>1. NewDatum(p, e, ns, final, n)
      BY <2>2, InstallNewData
    <3> QED BY <3>1 DEF NewDatum
  <2> QED BY <2>1, <2>2, <2>3
<1>5. CASE i # k
  <2>1. i \in DOMAIN instances /\ instances'[i] = instances[i]
    BY <1>1, <1>5
  <2>2. /\ <<instances[i].namespace, n>> \in DOMAIN program.symbols
        /\ n \in DOMAIN Pointers(i[2]) => <<instances[i].namespace, Pointers(i[2])[n]>> \in DOMAIN program.symbols
    BY <2>1 DEF ImagesInv, InstancesLaid
  <2>3. /\ DataAt(i, n) \in DOMAIN live
        /\ n \in DOMAIN Pointers(i[2]) => live[DataAt(i, n)] = DataAt(i, Pointers(i[2])[n])
    BY <2>1, <1>2 DEF ImagesInv, DataInMemory
  <2>4. ASSUME NEW o, <<instances[i].namespace, o>> \in DOMAIN program.symbols
        PROVE  /\ DataAt(i, o)' = DataAt(i, o)
               /\ At(live', DataAt(i, o), 0) = At(live, DataAt(i, o), 0)
               /\ At(Memory', DataAt(i, o), 0) = At(live', DataAt(i, o), 0)
    <3> DEFINE s == <<instances[i].namespace, o>>
    <3>1. DataAt(i, o)' = final.symbols[s] /\ DataAt(i, o) = program.symbols[s]
      BY <2>1, <1>2 DEF DataAt
    <3>2. s \in DOMAIN program.symbols
      BY <2>4
    <3> HIDE DEF s
    <3> QED BY <3>1, <3>2, InstallKept
  <2>5. DOMAIN live' \subseteq DOMAIN Memory'
    <3>1. CASE backend = "native"
      <4>1. Memory' = SyncAppended(final, NewEngine(program), live')
        BY <3>1, InstallEngine
      <4> QED BY <4>1, InstallTables, SyncedAt
    <3>2. CASE backend # "native"
      BY <3>2, InstallFrame DEF Memory
    <3> QED BY <3>1, <3>2
  <2>6. DataAt(i, n)' = DataAt(i, n) /\ DataAt(i, n) \in DOMAIN live' /\ DataAt(i, n) \in DOMAIN Memory'
    BY <2>2, <2>3, <2>4, <2>5, <1>2
  <2>7. live'[DataAt(i, n)] = live[DataAt(i, n)] /\ Memory'[DataAt(i, n)] = live'[DataAt(i, n)]
    BY <2>2, <2>3, <2>4, <2>6 DEF At
  <2> QED BY <2>2, <2>3, <2>4, <2>6, <2>7
<1> QED BY <1>4, <1>5

\* A first exec keeps the invariant.
LEMMA ExecFreshKeeps ==
  ASSUME ~ LooseProbes, ImagesInv, NEW t \in Tasks, NEW p \in Payloads, NEW e, ExecFresh(t, p, e)
  PROVE  ImagesInv'
<1>1. CASE phase = "guest" /\ Refuse
  BY <1>1, RefuseKeeps
<1>2. CASE \E ns, surface, code, final : InstallStep(t, p, e, ns, surface, code, final)
  <2>1. PICK ns, surface, code, final : InstallStep(t, p, e, ns, surface, code, final)
    BY <1>2
  <2>2. StateTyped' /\ ProgramGrown' /\ InstancesLaid' /\ CallsInMemory' /\ DataInMemory'
    BY <2>1, InstallTyped, InstallGrown, InstallLaid, InstallCalls, InstallData
  <2>3. EngineFollows'
    <3>1. program' = final /\ backend' = backend /\ phase' = "host"
      BY <2>1, InstallFrame
    <3>2. backend = "native" => Outgrown(program, final) /\ engine' = NewEngine(program)
      BY <2>1, InstallEngine
    <3> QED BY <3>1, <3>2 DEF EngineFollows
  <2>4. BootInMemory'
    <3>1. runner' = runner /\ DOMAIN live \subseteq DOMAIN live'
      BY <2>1, InstallFrame, InstallWords
    <3> QED BY <3>1 DEF ImagesInv, BootInMemory
  <2>5. SavedHolds'
    <3>1. saved' = saved
      BY <2>1, InstallFrame
    <3> QED BY <3>1 DEF ImagesInv, SavedHolds
  <2> QED BY <2>2, <2>3, <2>4, <2>5 DEF ImagesInv
<1> QED BY <1>1, <1>2, ExecInstalls

-----------------------------------------------------------------------------
(* The invariant holds, and with it what it implies.                       *)

\* A step that changes nothing keeps the invariant.
LEMMA StutterKeeps == ImagesInv /\ UNCHANGED vars => ImagesInv'
<1> SUFFICES ASSUME ImagesInv, UNCHANGED vars PROVE ImagesInv'
  OBVIOUS
<1>1. Calm /\ live' = live
  BY DEF vars, Calm, Standing
<1>2. StateTyped'
  BY DEF vars, ImagesInv, StateTyped
<1> QED BY <1>1, <1>2, CalmKeeps

\* So does every step.
LEMMA StepKeeps == ~ LooseProbes /\ ImagesInv /\ [Next]_vars => ImagesInv'
<1> SUFFICES ASSUME ~ LooseProbes, ImagesInv, [Next]_vars PROVE ImagesInv'
  OBVIOUS
<1>1. CASE UNCHANGED vars
  BY <1>1, StutterKeeps
<1>2. ASSUME NEW t \in Tasks, NEW p \in Payloads, ExecFresh(t, p, execs + 1) \/ ExecAgain(t, p, execs + 1)
      PROVE  ImagesInv'
  <2>1. PICK e : e = execs + 1
    OBVIOUS
  <2>2. ExecFresh(t, p, e) \/ ExecAgain(t, p, e)
    BY <1>2, <2>1
  <2> QED BY <2>2, ExecFreshKeeps, ExecAgainKeeps
<1>3. CASE Resume
  BY <1>3, ResumeKeeps
<1>4. ASSUME NEW s, Call(s) PROVE ImagesInv'
  <2>1. current \in Tasks
    BY DEF ImagesInv, StateTyped
  <2> QED BY <1>4, <2>1, GuestKeeps
<1>5. CASE Return \/ Malloc
  <2>1. current \in Tasks
    BY DEF ImagesInv, StateTyped
  <2> QED BY <1>5, <2>1, GuestKeeps
<1>6. ASSUME NEW t \in Tasks, Switch(t) PROVE ImagesInv'
  BY <1>6, GuestKeeps
<1>7. ASSUME NEW c, NEW w, Store(c, w) PROVE ImagesInv'
  BY <1>7, StoresKeep
<1>8. CASE KernelStore
  BY <1>8, StoresKeep
<1>9. CASE Save
  BY <1>9, SaveKeeps
<1>10. ASSUME NEW g \in {1, 2}, NEW b \in Engines, Restart(g, b) PROVE ImagesInv'
  BY <1>10, RestartKeeps
<1>11. CASE Next
  BY <1>11, <1>2, <1>3, <1>4, <1>5, <1>6, <1>7, <1>8, <1>9, <1>10 DEF Next
<1> QED BY <1>1, <1>11

\* The tables, the engine's copy, the live memory and the checkpoint file agree in every state.
THEOREM ImagesInvariant == ~ LooseProbes => (Spec => []ImagesInv)
<1> SUFFICES ASSUME ~ LooseProbes PROVE Spec => []ImagesInv
  OBVIOUS
<1>1. ImagesInv /\ [Next]_vars => ImagesInv'
  BY StepKeeps
<1> QED BY <1>1, InitInv, PTL DEF Spec

\* Calls by symbol and through pointer tables reach what they name, whatever was linked at run time,
\* restored from a checkpoint or accelerated by a newer runner (vm.py:138-165, native_vm.py:415-447,
\* 673-784).
THEOREM CallsLandHolds == ~ LooseProbes => (Spec => []CallsLand)
<1> QED BY ImagesInvariant, InvLands, PTL

-----------------------------------------------------------------------------
(* A restart continues the saved run.                                      *)
\* Outside of the service descriptors the restored memory is the saved one.
LEMMA RestoredSaved ==
  ASSUME NEW b, NEW c, Newer(b, c), SavedFrom(saved, b), saved.program = b, NEW a, a \notin ServiceDescriptors(c),
         a \in DOMAIN Restored(c) \cup DOMAIN saved.live
  PROVE  At(Restored(c), a, 0) = At(saved.live, a, 0)
<1> DEFINE own == ServiceDescriptors(c)
           back == RestoredMemory(c)
           delta == Delta(saved.live, b.initial)
<1>1. Restored(c) = Over([x \in own |-> c.initial[x]], back)
  BY DEF Restored, Refreshed
<1>2. /\ DOMAIN b.initial \subseteq DOMAIN saved.live
      /\ \/ saved.format = "pages" /\ saved.memory = saved.live
         \/ saved.format = "delta" /\ saved.memory = delta
  BY DEF SavedFrom
<1>3. /\ DOMAIN b.initial \subseteq DOMAIN c.initial
      /\ a \in DOMAIN c.initial => a \in DOMAIN b.initial /\ b.initial[a] = c.initial[a]
  BY DEF Newer
<1>4. back = saved.live \/ back = Over(delta, c.initial)
  BY <1>2 DEF RestoredMemory
<1>5. /\ \A x \in DOMAIN delta : x \in DOMAIN saved.live /\ delta[x] = saved.live[x]
      /\ \A x \in DOMAIN saved.live : x \in DOMAIN delta \/ At(b.initial, x, 0) = saved.live[x]
  BY DEF Delta
<1>6. a \notin own
  OBVIOUS
<1> HIDE DEF delta, own, back
<1>7. At(Restored(c), a, 0) = At(back, a, 0)
  BY <1>1, <1>6 DEF Over, At
<1>8. CASE back = saved.live
  BY <1>7, <1>8
<1>9. CASE back = Over(delta, c.initial)
  <2>1. CASE a \in DOMAIN delta
    <3>1. At(back, a, 0) = delta[a]
      BY <1>9, <2>1 DEF Over, At
    <3> QED BY <3>1, <2>1, <1>5, <1>7 DEF At
  <2>2. CASE a \notin DOMAIN delta
    <3>1. At(back, a, 0) = At(c.initial, a, 0)
      BY <1>9, <2>2 DEF Over, At
    <3>2. CASE a \in DOMAIN saved.live
      <4>1. At(b.initial, a, 0) = saved.live[a]
        BY <1>5, <2>2, <3>2
      <4> QED BY <4>1, <3>1, <3>2, <1>3, <1>7 DEF At
    <3>3. CASE a \notin DOMAIN saved.live
      <4>1. a \notin DOMAIN c.initial
        BY <3>3, <1>2, <1>3
      <4> QED BY <4>1, <3>1, <3>3, <1>7 DEF At
    <3> QED BY <3>2, <3>3
  <2> QED BY <2>1, <2>2
<1> QED BY <1>4, <1>8, <1>9

\* A restart from a checkpoint of before any exec.
LEMMA RestartStep ==
  ASSUME ImagesInv, NEW h \in {1, 2}, NEW e, Restart(h, e), SavedBeforeExec, NEW old, old = saved
  PROVE  CodesKept(old)' /\ MemoryKept(old)'
<1> DEFINE b == Booted[saved.runner]
           c == Booted[h]
<1>1. SavedFrom(saved, b)
  BY DEF ImagesInv, SavedHolds, Restart
<1>2. saved.runner \in {1, 2} /\ saved.program = b /\ old.program = b
  BY <1>1 DEF SavedFrom, SavedBeforeExec
<1>3. program' = c /\ live' = Restored(c) /\ saved.runner <= h
  <2>1. h >= saved.runner
    BY DEF Restart
  <2> QED BY <2>1, <1>2 DEF Restart, Restored
<1>4. Newer(b, c)
  BY <1>2, <1>3, BootNewer
<1>5. c.blocks = b.blocks
  BY <1>4 DEF Newer
<1> HIDE DEF b, c
<1>6. CodesKept(old)'
  BY <1>2, <1>3, <1>5 DEF CodesKept
<1>7. MemoryKept(old)'
  <2> SUFFICES ASSUME NEW a \in DOMAIN Restored(c) \cup DOMAIN saved.live, a \notin ServiceDescriptors(c)
               PROVE  At(Restored(c), a, 0) = At(saved.live, a, 0)
    BY <1>3 DEF MemoryKept
  <2> QED BY <1>1, <1>2, <1>4, RestoredSaved
<1> QED BY <1>6, <1>7

\* A step that counts a restart is one.
LEMMA RestartsCounted ==
  ASSUME [Next]_vars, restarts' # restarts
  PROVE  \E h \in {1, 2}, e \in Engines : Restart(h, e)
<1>1. CASE UNCHANGED vars
  BY <1>1 DEF vars
<1>2. ASSUME NEW t, NEW p, NEW e, ExecFresh(t, p, e) \/ ExecAgain(t, p, e) PROVE FALSE
  <2>1. CASE Refuse
    BY <2>1 DEF Refuse, counters
  <2>2. CASE \E final, entry : Enter(t, p, e, final, entry)
    BY <2>2 DEF Enter
  <2> QED BY <2>1, <2>2, <1>2 DEF ExecFresh, ExecAgain
<1>3. ~ Resume /\ ~ Save
  BY DEF Resume, Save, counters
<1>4. GuestStep => FALSE
  BY DEF GuestStep
<1>5. \A s : ~ Call(s) /\ ~ Switch(s) /\ \A w : ~ Store(s, w)
  BY <1>4 DEF Call, Switch, Store
<1>6. ~ Return /\ ~ Malloc /\ ~ KernelStore
  BY <1>4 DEF Return, Malloc, KernelStore
<1> QED BY <1>1, <1>2, <1>3, <1>5, <1>6 DEF Next

\* A restart from a checkpoint that was saved before any exec continues the saved run: codes on the
\* stacks lead to the same functions, and the memory but for the descriptors of services is the
\* saved one (checkpoint.py:27-219).
THEOREM RestartContinuesHolds == ~ LooseProbes => (Spec => RestartContinues)
<1>1. ImagesInv /\ [Next]_vars =>
        [restarts' # restarts /\ SavedBeforeExec => \E old \in {saved} : CodesKept(old)' /\ MemoryKept(old)']_vars
  <2> SUFFICES ASSUME ImagesInv, [Next]_vars, restarts' # restarts, SavedBeforeExec
               PROVE  \E old \in {saved} : CodesKept(old)' /\ MemoryKept(old)'
    OBVIOUS
  <2>1. PICK h \in {1, 2}, e \in Engines : Restart(h, e)
    BY RestartsCounted
  <2>2. PICK old : old = saved
    OBVIOUS
  <2>3. CodesKept(old)' /\ MemoryKept(old)'
    BY <2>1, <2>2, RestartStep
  <2> QED BY <2>2, <2>3
<1> QED BY <1>1, ImagesInvariant, PTL DEF Spec, RestartContinues

-----------------------------------------------------------------------------
(* Tasks run the code of their instances.                                  *)
Stacked(s) == s # <<>> /\ \E S : s \in Seq(S)
AllStacked(stacks) == DOMAIN stacks = Tasks /\ \A t \in Tasks : Stacked(stacks[t])

Entered(t) ==
  /\ frames[t][1] \in DOMAIN program.blocks
  /\ program.blocks[frames[t][1]] = instances[<<t, running[t]>>].entry

EntriesInv ==
  /\ AllStacked(frames) /\ (saved # <<>> => AllStacked(saved.frames))
  /\ \A i \in DOMAIN instances : instances[i].entry \in DOMAIN program.functions
  /\ \A t \in Tasks : Installed(t) => Entered(t)

\* A stack of one frame, one pushed to, and one popped to at least one frame.
LEMMA StackFacts ==
  /\ \A c : Stacked(<<c>>) /\ <<c>>[1] = c
  /\ \A s, c : Stacked(s) => Stacked(Append(s, c)) /\ Append(s, c)[1] = s[1]
  /\ \A s : Stacked(s) /\ Len(s) > 1 =>
       Stacked(SubSeq(s, 1, Len(s) - 1)) /\ SubSeq(s, 1, Len(s) - 1)[1] = s[1]
<1>1. ASSUME NEW c PROVE Stacked(<<c>>) /\ <<c>>[1] = c
  <2>1. <<c>> \in Seq({c}) /\ <<c>> # <<>>
    OBVIOUS
  <2> QED BY <2>1 DEF Stacked
<1>2. ASSUME NEW s, NEW c, Stacked(s) PROVE Stacked(Append(s, c)) /\ Append(s, c)[1] = s[1]
  <2>1. PICK S : s \in Seq(S)
    BY <1>2 DEF Stacked
  <2>2. s \in Seq(S \cup {c}) /\ c \in S \cup {c} /\ s # <<>>
    BY <1>2, <2>1 DEF Stacked
  <2>3. ASSUME NEW T, NEW q \in Seq(T), NEW d \in T, q # <<>>
        PROVE  Append(q, d) \in Seq(T) /\ Append(q, d) # <<>> /\ Append(q, d)[1] = q[1]
    BY <2>3
  <2> QED BY <2>2, <2>3 DEF Stacked
<1>3. ASSUME NEW s, Stacked(s), Len(s) > 1
      PROVE  Stacked(SubSeq(s, 1, Len(s) - 1)) /\ SubSeq(s, 1, Len(s) - 1)[1] = s[1]
  <2>1. PICK S : s \in Seq(S)
    BY <1>3 DEF Stacked
  <2>2. SubSeq(s, 1, Len(s) - 1) \in Seq(S) /\ Len(SubSeq(s, 1, Len(s) - 1)) = Len(s) - 1
        /\ SubSeq(s, 1, Len(s) - 1)[1] = s[1]
    BY <1>3, <2>1
  <2>3. SubSeq(s, 1, Len(s) - 1) # <<>>
    <3>1. Len(s) \in Nat
      BY <2>1
    <3> DEFINE q == SubSeq(s, 1, Len(s) - 1)
    <3>2. Len(q) > 0
      BY <3>1, <1>3, <2>2
    <3> HIDE DEF q
    <3>3. q # <<>>
      BY <3>2
    <3> QED BY <3>3 DEF q
  <2> QED BY <2>2, <2>3 DEF Stacked
<1> QED BY <1>1, <1>2, <1>3

\* At the start nothing is installed.
LEMMA InitEntries == Init => EntriesInv
<1> SUFFICES ASSUME Init PROVE EntriesInv
  OBVIOUS
<1>1. AllStacked(frames)
  BY StackFacts DEF Init, AllStacked
<1>2. DOMAIN instances = {} /\ saved = <<>>
  BY DEF Init
<1> QED BY <1>1, <1>2 DEF EntriesInv, Installed

\* Steps that leave programs and instances alone, and the first frame of every stack.
LEMMA SteadyEntries ==
  ASSUME EntriesInv, program' = program, instances' = instances, running' = running,
         AllStacked(frames)', \A t \in Tasks : frames'[t][1] = frames[t][1],
         saved' = saved \/ saved'.frames = frames
  PROVE  EntriesInv'
<1>1. saved' # <<>> => AllStacked(saved'.frames)
  BY DEF EntriesInv
<1>2. \A t \in Tasks : (Installed(t)' <=> Installed(t)) /\ (Entered(t) => Entered(t)')
  BY DEF Installed, Entered
<1> QED BY <1>1, <1>2 DEF EntriesInv

\* A task enters an instance whose entry is a function of a program that has grown, if at all.
LEMMA EnterEntries ==
  ASSUME EntriesInv, ImagesInv, NEW t \in Tasks, NEW p \in Payloads, NEW e, NEW final, NEW entry,
         Enter(t, p, e, final, entry), program' = final, Sound(final), Grows(program, final),
         entry \in DOMAIN final.functions, <<t, p>> \in DOMAIN instances', instances'[<<t, p>>].entry = entry,
         \A i \in DOMAIN instances' : i # <<t, p>> => i \in DOMAIN instances /\ instances'[i] = instances[i],
         DOMAIN instances \subseteq DOMAIN instances'
  PROVE  EntriesInv'
<1>1. /\ frames' = [frames EXCEPT ![t] = <<EntryCode(final, entry)>>]
      /\ running' = [running EXCEPT ![t] = p] /\ saved' = saved
  BY DEF Enter
<1>2. EntryCode(final, entry) \in DOMAIN final.blocks /\ final.blocks[EntryCode(final, entry)] = entry
  BY EntryOf
<1>3. DOMAIN frames = Tasks /\ DOMAIN running = Tasks
  BY DEF EntriesInv, AllStacked, ImagesInv, StateTyped, Runs
<1>4. /\ frames'[t] = <<EntryCode(final, entry)>> /\ running'[t] = p
      /\ \A u \in Tasks : u # t => frames'[u] = frames[u] /\ running'[u] = running[u]
      /\ DOMAIN frames' = Tasks
  BY <1>1, <1>3
<1>5. frames'[t][1] = EntryCode(final, entry) /\ Stacked(frames'[t])
  BY <1>4, StackFacts
<1>6. AllStacked(frames')
  BY <1>4, <1>5 DEF AllStacked, EntriesInv
<1>7. \A i \in DOMAIN instances' : instances'[i].entry \in DOMAIN final.functions
  BY DEF EntriesInv, Grows, Extends
<1>8. ASSUME NEW u \in Tasks, Installed(u)' PROVE Entered(u)'
  <2>1. CASE u = t
    BY <2>1, <1>2, <1>4, <1>5 DEF Entered
  <2>2. CASE u # t
    <3>1. running'[u] = running[u] /\ frames'[u] = frames[u] /\ <<u, running[u]>> \in DOMAIN instances'
      BY <2>2, <1>4, <1>8 DEF Installed
    <3>2. <<u, running[u]>> \in DOMAIN instances /\ instances'[<<u, running[u]>>] = instances[<<u, running[u]>>]
      BY <2>2, <3>1
    <3>3. Entered(u)
      BY <3>2 DEF EntriesInv, Installed
    <3> QED BY <3>1, <3>2, <3>3 DEF Entered, Grows, Extends
  <2> QED BY <2>1, <2>2
<1>9. saved' # <<>> => AllStacked(saved'.frames)
  BY <1>1 DEF EntriesInv
<1> QED BY <1>6, <1>7, <1>8, <1>9 DEF EntriesInv

\* A refused exec changes none of it.
LEMMA RefuseEntries == ASSUME EntriesInv, Refuse PROVE EntriesInv'
<1>1. /\ program' = program /\ instances' = instances /\ running' = running /\ frames' = frames
      /\ saved' = saved
  BY DEF Refuse, machine
<1> QED BY <1>1, SteadyEntries DEF EntriesInv, AllStacked

\* An exec enters the instance it has installed, or the task's own.
LEMMA ExecEntries ==
  ASSUME ~ LooseProbes, EntriesInv, ImagesInv, NEW t \in Tasks, NEW p \in Payloads, NEW e,
         ExecFresh(t, p, e) \/ ExecAgain(t, p, e)
  PROVE  EntriesInv'
<1>1. CASE Refuse
  BY <1>1, RefuseEntries
<1>2. CASE EnterAgain(t, p, e)
  <2>1. PICK entry : entry = EntryAgain(t, p)
    OBVIOUS
  <2>2. /\ Enter(t, p, e, program, entry) /\ program' = program /\ instances' = instances
        /\ <<t, p>> \in DOMAIN instances /\ instances[<<t, p>>].entry = entry
    BY <1>2, <2>1 DEF EnterAgain
  <2>3. Sound(program) /\ Grows(program, program)
    BY GrowsNot DEF ImagesInv, ProgramGrown
  <2>4. entry \in DOMAIN program.functions
    BY <2>2 DEF EntriesInv
  <2> QED BY <2>2, <2>3, <2>4, EnterEntries
<1>3. CASE \E ns, surface, code, final : InstallStep(t, p, e, ns, surface, code, final)
  <2>1. PICK ns, surface, code, final : InstallStep(t, p, e, ns, surface, code, final)
    BY <1>3
  <2>2. PICK entry : entry = <<ns, Functions(p)[1]>>
    OBVIOUS
  <2>3. PICK k : k = <<t, p>>
    OBVIOUS
  <2>4. /\ Enter(t, p, e, final, entry) /\ program' = final /\ entry \in DOMAIN final.functions
    BY <2>1, <2>2 DEF InstallStep, ExecTo
  <2>5. /\ DOMAIN instances' = DOMAIN instances \cup {k} /\ instances'[k].entry = entry
        /\ \A i \in DOMAIN instances : i # k => instances'[i] = instances[i]
    BY <2>1, <2>2, <2>3, InstallInstance
  <2>6. Sound(final) /\ Grows(program, final)
    BY <2>1, InstallTables
  <2> QED BY <2>3, <2>4, <2>5, <2>6, EnterEntries
<1> QED BY <1>1, <1>2, <1>3, ExecInstalls, ExecAgainEnters

\* Calls push and returns pop above the first frame.
LEMMA FrameEntries ==
  ASSUME EntriesInv, ImagesInv, NEW s, Call(s) \/ Return
  PROVE  EntriesInv'
<1>1. /\ program' = program /\ instances' = instances /\ running' = running /\ saved' = saved
  BY DEF Call, Return, GuestStep, machine
<1>2. current \in Tasks /\ DOMAIN frames = Tasks /\ \A t \in Tasks : Stacked(frames[t])
  BY DEF ImagesInv, StateTyped, EntriesInv, AllStacked
<1>3. PICK top : /\ frames' = [frames EXCEPT ![current] = top]
                 /\ Stacked(top) /\ top[1] = frames[current][1]
  <2>1. CASE Return
    <3>1. /\ Len(frames[current]) > 1
          /\ frames' = [frames EXCEPT ![current] = SubSeq(frames[current], 1, Len(frames[current]) - 1)]
      BY <2>1 DEF Return
    <3>2. PICK q : q = frames[current]
      OBVIOUS
    <3>3. Stacked(SubSeq(q, 1, Len(q) - 1)) /\ SubSeq(q, 1, Len(q) - 1)[1] = q[1]
      BY <3>1, <3>2, <1>2, StackFacts
    <3> QED BY <3>1, <3>2, <3>3
  <2>2. CASE Call(s)
    <3>1. PICK c : frames' = [frames EXCEPT ![current] = Append(frames[current], c)]
      BY <2>2 DEF Call
    <3>2. PICK q : q = frames[current]
      OBVIOUS
    <3>3. Stacked(Append(q, c)) /\ Append(q, c)[1] = q[1]
      BY <3>2, <1>2, StackFacts
    <3> QED BY <3>1, <3>2, <3>3
  <2> QED BY <2>1, <2>2
<1>4. DOMAIN frames' = Tasks /\ \A t \in Tasks : Stacked(frames'[t]) /\ frames'[t][1] = frames[t][1]
  BY <1>2, <1>3
<1> QED BY <1>1, <1>4, SteadyEntries DEF AllStacked

\* Other steps leave the stacks alone; after a restart nothing is installed.
LEMMA OtherEntries ==
  ASSUME EntriesInv, NEW t, NEW s, NEW w, NEW h, NEW b,
         \/ UNCHANGED vars \/ Resume \/ Switch(t) \/ Malloc \/ Store(s, w) \/ KernelStore \/ Save
         \/ Restart(h, b)
  PROVE  EntriesInv'
<1>1. CASE Restart(h, b)
  <2>1. frames' = saved.frames /\ instances' = <<>> /\ saved' = <<>> /\ saved # <<>>
    BY <1>1 DEF Restart
  <2>2. DOMAIN instances' = {}
    BY <2>1
  <2> QED BY <2>1, <2>2 DEF EntriesInv, Installed
<1>2. CASE ~ Restart(h, b)
  <2>1. /\ program' = program /\ instances' = instances /\ running' = running /\ frames' = frames
    BY <1>2 DEF vars, Resume, Switch, Malloc, Store, KernelStore, Save, GuestStep, machine
  <2>2. saved' = saved \/ saved'.frames = frames
    BY <1>2 DEF vars, Resume, Switch, Malloc, Store, KernelStore, Save, GuestStep, machine
  <2> QED BY <2>1, <2>2, SteadyEntries DEF EntriesInv, AllStacked
<1> QED BY <1>1, <1>2

\* Every step keeps the stacks on the entries of the instances.
LEMMA StepEntries == ~ LooseProbes /\ ImagesInv /\ EntriesInv /\ [Next]_vars => EntriesInv'
<1> SUFFICES ASSUME ~ LooseProbes, ImagesInv, EntriesInv, [Next]_vars PROVE EntriesInv'
  OBVIOUS
<1>1. ASSUME NEW t \in Tasks, NEW p \in Payloads, ExecFresh(t, p, execs + 1) \/ ExecAgain(t, p, execs + 1)
      PROVE  EntriesInv'
  <2>1. PICK e : e = execs + 1
    OBVIOUS
  <2> QED BY <1>1, <2>1, ExecEntries
<1>2. CASE UNCHANGED vars \/ Resume \/ Malloc \/ KernelStore \/ Save
  BY <1>2, OtherEntries
<1>3. ASSUME NEW s, Call(s) PROVE EntriesInv'
  BY <1>3, FrameEntries
<1>4. CASE Return
  BY <1>4, FrameEntries
<1>5. ASSUME NEW t, Switch(t) PROVE EntriesInv'
  BY <1>5, OtherEntries
<1>6. ASSUME NEW c, NEW w, Store(c, w) PROVE EntriesInv'
  BY <1>6, OtherEntries
<1>7. ASSUME NEW g, NEW b, Restart(g, b) PROVE EntriesInv'
  BY <1>7, OtherEntries
<1>8. CASE Next
  BY <1>8, <1>1, <1>2, <1>3, <1>4, <1>5, <1>6, <1>7 DEF Next
<1> QED BY <1>2, <1>8

\* A task that has executed a payload has the entry of its instance at the bottom of its stack, for
\* every choice of payloads of which those of one function have no module image.
THEOREM EntersOwnHolds == ~ LooseProbes => (Spec => []EntersOwn)
<1> SUFFICES ASSUME ~ LooseProbes PROVE Spec => []EntersOwn
  OBVIOUS
<1>1. ImagesInv /\ EntriesInv /\ [Next]_vars => EntriesInv'
  BY StepEntries
<1>2. EntriesInv => EntersOwn
  BY DEF EntriesInv, EntersOwn, RunsOwn, Entered, At
<1> QED BY <1>1, <1>2, InitEntries, ImagesInvariant, PTL DEF Spec

-----------------------------------------------------------------------------
(* Images as if they were private.                                         *)
(* First of what a task has installed, whichever code it runs.             *)
SeenImage == [t \in Tasks |-> IF Installed(t) THEN running[t] ELSE NoTask]
SeenData == [t \in Tasks |-> IF Installed(t) THEN [c \in Cells(running[t]) |-> live[CellAt(t, c)]]
                             ELSE NoWords]
SeenEnv == [t \in Tasks |-> IF Installed(t) THEN env[t] ELSE 0]
SeenView == <<SeenImage, SeenData, SeenEnv>>

Seen == INSTANCE PrivateImages
  WITH image <- SeenImage, data <- SeenData, env <- SeenEnv, NoImage <- NoTask, Environ <- "environ",
       Envs <- 1..MaxExecs


\* A task's cells are data of its instance, in the arena of the instance.
LEMMA CellFacts ==
  ASSUME ImagesInv, NEW t \in Tasks, Installed(t), NEW c \in Cells(running[t]),
         NEW i, i = <<t, running[t]>>, NEW s, s = <<instances[i].namespace, c>>
  PROVE  /\ running[t] \in Payloads /\ i \in DOMAIN instances /\ HasImage(running[t])
         /\ c \in DataOfImage(running[t]) /\ c \notin DOMAIN Pointers(running[t])
         /\ s \in DOMAIN program.symbols /\ CellAt(t, c) = program.symbols[s] /\ CellAt(t, c) = DataAt(i, c)
         /\ CellAt(t, c) \in Nat /\ InArena(i, CellAt(t, c))
         /\ c # "environ" => program.initial[CellAt(t, c)] = 0
         /\ CellAt(t, c) \in DOMAIN live /\ Memory[CellAt(t, c)] = live[CellAt(t, c)]
<1>1. i \in DOMAIN instances /\ i[2] = running[t] /\ i[2] \in Payloads
  BY DEF ImagesInv, StateTyped, Installed
<1>2. HasImage(i[2]) /\ c \in DataOfImage(i[2]) /\ c \notin DOMAIN Pointers(i[2])
  <2>1. HasImage(i[2]) /\ c \in Elements(DataNames) \cup (Elements(Objects(i[2])) \ DOMAIN Pointers(i[2]))
    BY <1>1 DEF Cells
  <2>2. Elements(DataNames) = {"environ", "errno"}
    BY DEF Elements, DataNames
  <2> QED BY <2>1, <2>2, <1>1, PayloadFacts DEF DataOfImage
<1>3. CellAt(t, c) = program.symbols[s] /\ CellAt(t, c) = DataAt(i, c)
  BY DEF CellAt, DataAt
<1>4. /\ s \in DOMAIN program.symbols
      /\ InArena(i, DataAt(i, c))
      /\ c # "environ" => program.initial[DataAt(i, c)] = 0
  BY <1>1, <1>2 DEF ImagesInv, InstancesLaid, InArena
<1>5. DataAt(i, c) \in DOMAIN live /\ Memory[DataAt(i, c)] = live[DataAt(i, c)]
  BY <1>1, <1>2 DEF ImagesInv, DataInMemory
<1>6. program.symbols[s] \in Nat
  BY <1>4, AddressIn DEF ImagesInv, ProgramGrown
<1> QED BY <1>1, <1>2, <1>3, <1>4, <1>5, <1>6

\* Arenas of two tasks have no address in common.
LEMMA ArenasApart ==
  ASSUME ImagesInv, NEW i \in DOMAIN instances, NEW j \in DOMAIN instances, i # j, NEW a \in Nat, InArena(i, a)
  PROVE  ~ InArena(j, a)
<1>1. /\ instances[i].base \in Nat /\ instances[i].end \in Nat
      /\ instances[j].base \in Nat /\ instances[j].end \in Nat
      /\ instances[i].end <= instances[j].base \/ instances[j].end <= instances[i].base
  BY DEF ImagesInv, InstancesLaid
<1> QED BY <1>1 DEF InArena

\* A step that leaves images and cells alone is none of the private images.
LEMMA ViewSame ==
  ASSUME program' = program, instances' = instances, running' = running, env' = env,
         \A t \in Tasks : Installed(t) => \A c \in Cells(running[t]) : live'[CellAt(t, c)] = live[CellAt(t, c)]
  PROVE  SeenView' = SeenView
<1>1. \A t \in Tasks : (Installed(t)' <=> Installed(t)) /\ \A c : CellAt(t, c)' = CellAt(t, c)
  BY DEF Installed, CellAt
<1>2. SeenImage' = SeenImage
  BY <1>1 DEF SeenImage
<1>3. SeenEnv' = SeenEnv
  BY <1>1 DEF SeenEnv
<1>4. ASSUME NEW t \in Tasks PROVE SeenData'[t] = SeenData[t]
  <2>1. CASE Installed(t)
    <3>1. [c \in Cells(running[t]) |-> live'[CellAt(t, c)]] = [c \in Cells(running[t]) |-> live[CellAt(t, c)]]
      BY <2>1
    <3>2. SeenData[t] = [c \in Cells(running[t]) |-> live[CellAt(t, c)]]
      BY <2>1 DEF SeenData
    <3>3. SeenData'[t] = [c \in Cells(running[t]) |-> live'[CellAt(t, c)]]
      BY <2>1, <1>1 DEF SeenData
    <3> QED BY <3>1, <3>2, <3>3
  <2>2. CASE ~ Installed(t)
    BY <2>2, <1>1 DEF SeenData
  <2> QED BY <2>1, <2>2
<1>5. SeenData = [t \in Tasks |-> SeenData[t]] /\ SeenData' = [t \in Tasks |-> SeenData'[t]]
  BY DEF SeenData
<1>6. SeenData' = SeenData
  BY <1>4, <1>5
<1> QED BY <1>2, <1>3, <1>6 DEF SeenView

\* What a task finds after an exec, and that the others find what they had.
ExecSeen(t, p, e) ==
  /\ running' = [running EXCEPT ![t] = p] /\ env' = [env EXCEPT ![t] = e]
  /\ <<t, p>> \in DOMAIN instances'
  /\ \A c \in Cells(p) : live'[CellAt(t, c)'] = IF c = "environ" THEN e ELSE 0
  /\ \A u \in Tasks : u # t =>
       /\ Installed(u)' <=> Installed(u)
       /\ Installed(u) => \A c \in Cells(running[u]) : live'[CellAt(u, c)'] = live[CellAt(u, c)]

\* That is an exec of the private images.
LEMMA ExecRefines ==
  ASSUME ImagesInv, NEW t \in Tasks, NEW p \in Payloads, NEW e \in 1..MaxExecs, ExecSeen(t, p, e)
  PROVE  Seen!Exec(t)
<1>1. running \in Runs /\ DOMAIN env = Tasks
  BY DEF ImagesInv, StateTyped
<1>2. /\ running'[t] = p /\ env'[t] = e
      /\ \A u \in Tasks : u # t => running'[u] = running[u] /\ env'[u] = env[u]
  BY <1>1 DEF ExecSeen, Runs
<1>3. Installed(t)' /\ (\A u \in Tasks : u # t => (Installed(u)' <=> Installed(u)))
  BY <1>2 DEF ExecSeen, Installed
<1>4. SeenImage' = [SeenImage EXCEPT ![t] = p]
  <2>1. \A u \in Tasks : SeenImage'[u] = IF u = t THEN p ELSE SeenImage[u]
    BY <1>2, <1>3 DEF SeenImage
  <2>2. SeenImage = [u \in Tasks |-> SeenImage[u]] /\ SeenImage' = [u \in Tasks |-> SeenImage'[u]]
    BY DEF SeenImage
  <2> HIDE DEF SeenImage
  <2> QED BY <2>1, <2>2
<1>5. SeenEnv' = [SeenEnv EXCEPT ![t] = e]
  <2>1. \A u \in Tasks : SeenEnv'[u] = IF u = t THEN e ELSE SeenEnv[u]
    BY <1>2, <1>3 DEF SeenEnv
  <2>2. SeenEnv = [u \in Tasks |-> SeenEnv[u]] /\ SeenEnv' = [u \in Tasks |-> SeenEnv'[u]]
    BY DEF SeenEnv
  <2> QED BY <2>1, <2>2
<1>6. SeenData' = [SeenData EXCEPT ![t] = Seen!StartOf(p, e)]
  <2>1. SeenData'[t] = Seen!StartOf(p, e)
    <3>1. SeenData'[t] = [c \in Cells(p) |-> live'[CellAt(t, c)']]
      BY <1>2, <1>3 DEF SeenData
    <3>2. Seen!StartOf(p, e) = [c \in Cells(p) |-> IF c = "environ" THEN e ELSE 0]
      BY DEF Seen!StartOf
    <3>3. \A c \in Cells(p) : live'[CellAt(t, c)'] = IF c = "environ" THEN e ELSE 0
      BY DEF ExecSeen
    <3> QED BY <3>1, <3>2, <3>3
  <2>2. ASSUME NEW u \in Tasks, u # t PROVE SeenData'[u] = SeenData[u]
    <3>1. CASE Installed(u)
      <4>1. SeenData'[u] = [c \in Cells(running[u]) |-> live'[CellAt(u, c)']]
        BY <2>2, <3>1, <1>2, <1>3 DEF SeenData
      <4>2. SeenData[u] = [c \in Cells(running[u]) |-> live[CellAt(u, c)]]
        BY <3>1 DEF SeenData
      <4>3. \A c \in Cells(running[u]) : live'[CellAt(u, c)'] = live[CellAt(u, c)]
        BY <2>2, <3>1 DEF ExecSeen
      <4> QED BY <4>1, <4>2, <4>3
    <3>2. CASE ~ Installed(u)
      BY <2>2, <3>2, <1>3 DEF SeenData
    <3> QED BY <3>1, <3>2
  <2>3. SeenData = [u \in Tasks |-> SeenData[u]] /\ SeenData' = [u \in Tasks |-> SeenData'[u]]
    BY DEF SeenData
  <2> QED BY <2>1, <2>2, <2>3
<1> QED BY <1>4, <1>5, <1>6 DEF Seen!Exec

\* An exec of a task's own instance gives it the initial data again, and no other task notices.
LEMMA EnterAgainRefines ==
  ASSUME ImagesInv, NEW t \in Tasks, NEW p \in Payloads, NEW e, EnterAgain(t, p, e)
  PROVE  ExecSeen(t, p, e)
<1> DEFINE k == <<t, p>>
<1>1. /\ program' = program /\ instances' = instances /\ k \in DOMAIN instances
      /\ running' = [running EXCEPT ![t] = p] /\ env' = [env EXCEPT ![t] = e]
      /\ running \in Runs /\ Sound(program)
  BY DEF EnterAgain, Enter, ImagesInv, StateTyped, ProgramGrown
<1>2. running'[t] = p /\ \A u \in Tasks : u # t => running'[u] = running[u]
  BY <1>1 DEF Runs
<1>3. DOMAIN live \subseteq DOMAIN live'
  BY ExecAgainMemory
<1>4. ASSUME NEW c \in Cells(p)
      PROVE  live'[CellAt(t, c)'] = IF c = "environ" THEN e ELSE 0
  <2>1. HasImage(p) /\ c \in DataOfImage(p) /\ c \notin DOMAIN Pointers(p)
    <3>1. HasImage(p) /\ c \in Elements(DataNames) \cup (Elements(Objects(p)) \ DOMAIN Pointers(p))
      BY DEF Cells
    <3>2. Elements(DataNames) = {"environ", "errno"}
      BY DEF Elements, DataNames
    <3> QED BY <3>1, <3>2, PayloadFacts DEF DataOfImage
  <2>2. CellAt(t, c)' = DataAt(k, c)
    BY <1>1, <1>2 DEF CellAt, DataAt
  <2>3. CASE c = "environ"
    BY <2>1, <2>2, <2>3, ExecAgainMemory
  <2>4. CASE c # "environ"
    <3> DEFINE s == <<instances[k].namespace, c>>
    <3>1. /\ s \in DOMAIN program.symbols /\ InArena(k, DataAt(k, c)) /\ program.initial[DataAt(k, c)] = 0
      BY <2>1, <2>4, <1>1 DEF ImagesInv, InstancesLaid, InArena
    <3>2. DataAt(k, c) = program.symbols[s] /\ s # <<instances[k].namespace, "environ">>
      BY <2>4 DEF DataAt
    <3> HIDE DEF s
    <3>3. live'[program.symbols[s]] = program.initial[program.symbols[s]]
      BY <3>1, <3>2, ExecAgainMemory
    <3> QED BY <2>2, <2>4, <3>1, <3>2, <3>3
  <2> QED BY <2>3, <2>4
<1>5. ASSUME NEW u \in Tasks, u # t, Installed(u), NEW c \in Cells(running[u])
      PROVE  live'[CellAt(u, c)'] = live[CellAt(u, c)]
  <2> DEFINE i == <<u, running[u]>>
             s == <<instances[i].namespace, c>>
  <2>1. /\ i \in DOMAIN instances /\ c \notin DOMAIN Pointers(running[u])
        /\ s \in DOMAIN program.symbols /\ CellAt(u, c) = program.symbols[s]
        /\ CellAt(u, c) \in Nat /\ InArena(i, CellAt(u, c)) /\ CellAt(u, c) \in DOMAIN live
    BY <1>5, CellFacts
  <2>2. CellAt(u, c)' = CellAt(u, c)
    BY <1>1, <1>2, <1>5 DEF CellAt
  <2>3. i # k
    BY <1>5
  <2> HIDE DEF s, i
  <2>4. ~ InArena(k, CellAt(u, c))
    BY <2>1, <2>3, <1>1, ArenasApart
  <2>5. ~ (HasImage(p) /\ s = <<instances[k].namespace, "environ">>)
    <3> SUFFICES ASSUME HasImage(p), s = <<instances[k].namespace, "environ">> PROVE FALSE
      OBVIOUS
    <3>1. InArena(k, DataAt(k, "environ"))
      BY <1>1 DEF ImagesInv, InstancesLaid, InArena, DataOfImage
    <3>2. DataAt(k, "environ") = CellAt(u, c)
      BY <2>1 DEF DataAt
    <3> QED BY <3>1, <3>2, <2>4
  <2>6. At(live', CellAt(u, c), 0) = At(live, CellAt(u, c), 0)
    BY <2>1, <2>4, <2>5, ExecAgainMemory
  <2> QED BY <2>1, <2>2, <2>6, <1>3 DEF At
<1>6. \A u \in Tasks : u # t => (Installed(u)' <=> Installed(u))
  BY <1>1, <1>2 DEF Installed
<1> QED BY <1>1, <1>4, <1>5, <1>6 DEF ExecSeen

\* So does an installation.
LEMMA InstallRefines ==
  ASSUME ImagesInv, NEW t \in Tasks, NEW p \in Payloads, NEW e, NEW ns, NEW surface, NEW code, NEW final,
         InstallStep(t, p, e, ns, surface, code, final)
  PROVE  ExecSeen(t, p, e)
<1> DEFINE k == <<t, p>>
<1>1. /\ program' = final
      /\ running' = [running EXCEPT ![t] = p] /\ env' = [env EXCEPT ![t] = e]
      /\ running \in Runs
  BY InstallFrame DEF ImagesInv, StateTyped
<1>2. running'[t] = p /\ \A u \in Tasks : u # t => running'[u] = running[u]
  BY <1>1 DEF Runs
<1>3. /\ DOMAIN instances' = DOMAIN instances \cup {k} /\ k \notin DOMAIN instances
      /\ \A i \in DOMAIN instances : i # k => instances'[i] = instances[i]
      /\ HasImage(p) => instances'[k].namespace = ns
  BY InstallInstance
<1>4. ASSUME NEW c \in Cells(p)
      PROVE  live'[CellAt(t, c)'] = IF c = "environ" THEN e ELSE 0
  <2>1. HasImage(p) /\ c \in DataOfImage(p) /\ c \notin DOMAIN Pointers(p)
    <3>1. HasImage(p) /\ c \in Elements(DataNames) \cup (Elements(Objects(p)) \ DOMAIN Pointers(p))
      BY DEF Cells
    <3>2. Elements(DataNames) = {"environ", "errno"}
      BY DEF Elements, DataNames
    <3> QED BY <3>1, <3>2, PayloadFacts DEF DataOfImage
  <2>2. CellAt(t, c)' = final.symbols[<<ns, c>>]
    BY <2>1, <1>1, <1>2, <1>3 DEF CellAt
  <2>3. /\ live'[final.symbols[<<ns, c>>]] = final.initial[final.symbols[<<ns, c>>]]
        /\ c \notin DOMAIN Pointers(p) =>
             final.initial[final.symbols[<<ns, c>>]] = IF c = "environ" THEN e ELSE 0
    <3>1. NewDatum(p, e, ns, final, c)
      BY <2>1, InstallNewData
    <3> QED BY <3>1 DEF NewDatum
  <2> QED BY <2>1, <2>2, <2>3
<1>5. \A u \in Tasks : u # t => (Installed(u)' <=> Installed(u))
  BY <1>2, <1>3 DEF Installed
<1>6. ASSUME NEW u \in Tasks, u # t, Installed(u), NEW c \in Cells(running[u])
      PROVE  live'[CellAt(u, c)'] = live[CellAt(u, c)]
  <2> DEFINE i == <<u, running[u]>>
             s == <<instances[i].namespace, c>>
  <2>1. /\ i \in DOMAIN instances /\ s \in DOMAIN program.symbols /\ CellAt(u, c) = program.symbols[s]
        /\ CellAt(u, c) \in DOMAIN live
    BY <1>6, CellFacts
  <2>2. CellAt(u, c)' = final.symbols[s]
    BY <2>1, <1>1, <1>2, <1>3, <1>6 DEF CellAt
  <2> HIDE DEF s, i
  <2>3. final.symbols[s] = program.symbols[s] /\ At(live', program.symbols[s], 0) = At(live, program.symbols[s], 0)
    BY <2>1, InstallKept
  <2>4. DOMAIN live \subseteq DOMAIN live'
    BY InstallWords
  <2> QED BY <2>1, <2>2, <2>3, <2>4 DEF At
<1> QED BY <1>1, <1>3, <1>4, <1>5, <1>6 DEF ExecSeen

\* A store of a program changes the cell of the task that runs, and no other.
LEMMA StoreRefines ==
  ASSUME ImagesInv, NEW c, NEW w \in Words, Store(c, w)
  PROVE  Seen!Store(current)
<1>1. /\ program' = program /\ instances' = instances /\ running' = running /\ env' = env
      /\ Installed(current) /\ c \in Cells(running[current])
      /\ live' = Put(live, CellAt(current, c), w)
      /\ current \in Tasks /\ running \in Runs /\ Sound(program)
  BY DEF Store, GuestStep, machine, ImagesInv, StateTyped, ProgramGrown
<1> DEFINE i == <<current, running[current]>>
           s == <<instances[i].namespace, c>>
<1>2. /\ running[current] \in Payloads /\ i \in DOMAIN instances /\ s \in DOMAIN program.symbols
      /\ CellAt(current, c) = program.symbols[s] /\ CellAt(current, c) \in Nat /\ InArena(i, CellAt(current, c))
  BY <1>1, CellFacts
<1>3. \A t \in Tasks : (Installed(t)' <=> Installed(t)) /\ \A d : CellAt(t, d)' = CellAt(t, d)
  BY <1>1 DEF Installed, CellAt
<1>4. SeenImage' = SeenImage /\ SeenEnv' = SeenEnv
  BY <1>1, <1>3 DEF SeenImage, SeenEnv
<1>5. ASSUME NEW t \in Tasks, Installed(t), NEW d \in Cells(running[t]), ~ (t = current /\ d = c)
      PROVE  live'[CellAt(t, d)] = live[CellAt(t, d)]
  <2> DEFINE j == <<t, running[t]>>
             x == <<instances[j].namespace, d>>
  <2>1. /\ j \in DOMAIN instances /\ x \in DOMAIN program.symbols /\ CellAt(t, d) = program.symbols[x]
        /\ InArena(j, CellAt(t, d)) /\ CellAt(t, d) \in DOMAIN live
    BY <1>5, CellFacts
  <2>2. CASE t = current
    <3>1. s # x
      BY <2>2, <1>5
    <3>2. CellAt(t, d) # CellAt(current, c)
      <4> HIDE DEF s, x
      <4> QED BY <3>1, <2>1, <1>1, <1>2, OneAddress
    <3> QED BY <3>2, <2>1, <1>1 DEF Put
  <2>3. CASE t # current
    <3>1. i # j
      BY <2>3
    <3>2. CellAt(t, d) # CellAt(current, c)
      <4> HIDE DEF i, j
      <4> QED BY <3>1, <2>1, <1>2, ArenasApart
    <3> QED BY <3>2, <2>1, <1>1 DEF Put
  <2> QED BY <2>2, <2>3
<1>6. live'[CellAt(current, c)] = w
  BY <1>1 DEF Put
<1>7. SeenData' = [SeenData EXCEPT ![current][c] = w]
  <2>1. ASSUME NEW t \in Tasks, t # current PROVE SeenData'[t] = SeenData[t]
    <3>1. CASE Installed(t)
      <4>1. SeenData'[t] = [d \in Cells(running[t]) |-> live'[CellAt(t, d)]]
        BY <3>1, <1>1, <1>3 DEF SeenData
      <4>2. SeenData[t] = [d \in Cells(running[t]) |-> live[CellAt(t, d)]]
        BY <3>1 DEF SeenData
      <4>3. \A d \in Cells(running[t]) : live'[CellAt(t, d)] = live[CellAt(t, d)]
        BY <2>1, <3>1, <1>5
      <4> QED BY <4>1, <4>2, <4>3
    <3>2. CASE ~ Installed(t)
      BY <3>2, <1>3 DEF SeenData
    <3> QED BY <3>1, <3>2
  <2>2. SeenData'[current] = [SeenData[current] EXCEPT ![c] = w]
    <3>1. SeenData'[current] = [d \in Cells(running[current]) |-> live'[CellAt(current, d)]]
      BY <1>1, <1>3 DEF SeenData
    <3>2. SeenData[current] = [d \in Cells(running[current]) |-> live[CellAt(current, d)]]
      BY <1>1 DEF SeenData
    <3>3. \A d \in Cells(running[current]) : d # c => live'[CellAt(current, d)] = live[CellAt(current, d)]
      BY <1>1, <1>5
    <3> QED BY <3>1, <3>2, <3>3, <1>6
  <2>3. SeenData = [t \in Tasks |-> SeenData[t]] /\ SeenData' = [t \in Tasks |-> SeenData'[t]]
    BY DEF SeenData
  <2> HIDE DEF SeenData
  <2> QED BY <2>1, <2>2, <2>3
<1>8. SeenImage[current] = running[current] /\ SeenImage[current] # NoTask
  BY <1>1, <1>2, UserAssumption DEF SeenImage
<1> QED BY <1>1, <1>4, <1>7, <1>8 DEF Seen!Store

\* Steps of the machine that are none of the private images.
LEMMA QuietRefines ==
  ASSUME ImagesInv,
         \/ UNCHANGED vars \/ Resume \/ Return \/ Malloc \/ KernelStore \/ Save \/ (phase = "guest" /\ Refuse)
         \/ (\E s : Call(s)) \/ \E t \in Tasks : Switch(t)
  PROVE  SeenView' = SeenView
<1>1. program' = program /\ instances' = instances /\ running' = running /\ env' = env
  BY DEF vars, Resume, Return, Malloc, KernelStore, Save, Refuse, Call, Switch, GuestStep, machine
<1>2. ASSUME NEW t \in Tasks, Installed(t), NEW c \in Cells(running[t])
      PROVE  live'[CellAt(t, c)] = live[CellAt(t, c)]
  <2> DEFINE s == <<instances[<<t, running[t]>>].namespace, c>>
  <2>1. /\ s \in DOMAIN program.symbols /\ CellAt(t, c) = program.symbols[s]
        /\ CellAt(t, c) \in DOMAIN live /\ Memory[CellAt(t, c)] = live[CellAt(t, c)]
    BY <1>2, CellFacts
  <2>2. CASE Resume
    <3>1. live' = Memory
      BY <2>2, ResumeMemory
    <3> QED BY <3>1, <2>1
  <2>3. CASE KernelStore
    <3>1. Sound(program) /\ Writable(Jiffies)
      BY JiffiesWritable DEF ImagesInv, ProgramGrown
    <3>2. s # Jiffies
      <4>1. NsOk(instances[<<t, running[t]>>].namespace)
        BY <1>2 DEF Installed, ImagesInv, InstancesLaid
      <4>2. instances[<<t, running[t]>>].namespace # <<"kernel">>
        BY <4>1, NsFacts
      <4> QED BY <4>2 DEF Jiffies, KernelName
    <3> HIDE DEF s
    <3>3. program.symbols[s] # program.symbols[Jiffies]
      BY <2>1, <3>1, <3>2, OneAddress DEF Writable
    <3>4. live' = Put(live, program.symbols[Jiffies], 0)
      BY <2>3 DEF KernelStore
    <3> QED BY <2>1, <3>3, <3>4 DEF Put
  <2>4. CASE ~ Resume /\ ~ KernelStore
    <3>1. live' = live
      BY <2>4 DEF vars, Return, Malloc, Save, Refuse, Call, Switch
    <3> QED BY <3>1
  <2> QED BY <2>2, <2>3, <2>4
<1> QED BY <1>1, <1>2, ViewSame

\* After a restart no task has an image.
LEMMA RestartRefines ==
  ASSUME NEW h, NEW e, Restart(h, e)
  PROVE  Seen!Forget
<1>1. \A t \in Tasks : ~ Installed(t)'
  BY DEF Restart, Installed
<1>2. SeenImage' = [t \in Tasks |-> NoTask] /\ SeenEnv' = [t \in Tasks |-> 0]
  BY <1>1 DEF SeenImage, SeenEnv
<1>3. SeenData' = [t \in Tasks |-> Seen!NoData]
  BY <1>1 DEF SeenData, NoWords, Seen!NoData
<1> QED BY <1>2, <1>3 DEF Seen!Forget

\* An exec is an exec of the private images.
LEMMA ExecStepRefines ==
  ASSUME ~ LooseProbes, ImagesInv, NEW t \in Tasks, NEW p \in Payloads, ExecFresh(t, p, execs + 1) \/ ExecAgain(t, p, execs + 1)
  PROVE  Seen!Exec(t) \/ SeenView' = SeenView
<1>1. PICK e : e = execs + 1
  OBVIOUS
<1>2. e \in 1..MaxExecs
  <2>1. execs \in Nat /\ execs < MaxExecs /\ MaxExecs \in Nat
    BY UserAssumption DEF ImagesInv, StateTyped, ExecFresh, ExecAgain
  <2> QED BY <2>1, <1>1
<1>3. CASE ExecAgain(t, p, e)
  <2>1. CASE phase = "guest" /\ Refuse
    BY <2>1, QuietRefines
  <2>2. CASE EnterAgain(t, p, e)
    BY <2>2, <1>2, EnterAgainRefines, ExecRefines
  <2> QED BY <2>1, <2>2, <1>3, ExecAgainEnters
<1>4. CASE ExecFresh(t, p, e)
  <2>1. CASE phase = "guest" /\ Refuse
    BY <2>1, QuietRefines
  <2>2. CASE \E ns, surface, code, final : InstallStep(t, p, e, ns, surface, code, final)
    BY <2>2, <1>2, InstallRefines, ExecRefines
  <2> QED BY <2>1, <2>2, <1>4, ExecInstalls
<1> QED BY <1>1, <1>3, <1>4

\* Every step is one of the private images, or none.
LEMMA StepSeen == ~ LooseProbes /\ ImagesInv /\ [Next]_vars => Seen!Next \/ SeenView' = SeenView
<1> SUFFICES ASSUME ~ LooseProbes, ImagesInv, [Next]_vars PROVE Seen!Next \/ SeenView' = SeenView
  OBVIOUS
<1>1. CASE UNCHANGED vars
  BY <1>1, QuietRefines
<1>2. ASSUME NEW t \in Tasks, NEW p \in Payloads, ExecFresh(t, p, execs + 1) \/ ExecAgain(t, p, execs + 1)
      PROVE  Seen!Next \/ SeenView' = SeenView
  BY <1>2, ExecStepRefines DEF Seen!Next
<1>3. CASE Resume \/ Return \/ Malloc \/ KernelStore \/ Save
  BY <1>3, QuietRefines
<1>4. ASSUME NEW s, Call(s) PROVE SeenView' = SeenView
  BY <1>4, QuietRefines
<1>5. ASSUME NEW t \in Tasks, Switch(t) PROVE SeenView' = SeenView
  BY <1>5, QuietRefines
<1>6. ASSUME NEW c, NEW w \in Words, Store(c, w) PROVE Seen!Next
  <2>1. current \in Tasks
    BY DEF ImagesInv, StateTyped
  <2> QED BY <2>1, <1>6, StoreRefines DEF Seen!Next
<1>7. ASSUME NEW g, NEW b, Restart(g, b) PROVE Seen!Next
  BY <1>7, RestartRefines DEF Seen!Next
<1>8. CASE Next
  BY <1>8, <1>2, <1>3, <1>4, <1>5, <1>6, <1>7 DEF Next
<1> QED BY <1>1, <1>8

AllSeen == SeenImage = ImageOf /\ SeenData = DataOf /\ SeenEnv = EnvOf

\* With the right code in every task, what is installed is what runs.
LEMMA SeenIs == EntriesInv => AllSeen
<1> SUFFICES ASSUME EntriesInv PROVE SeenImage = ImageOf /\ SeenData = DataOf /\ SeenEnv = EnvOf
  BY DEF AllSeen
<1>1. \A t \in Tasks : RunsOwn(t) <=> Installed(t)
  BY DEF EntriesInv, RunsOwn, Entered, At
<1> QED BY <1>1 DEF SeenImage, SeenData, SeenEnv, ImageOf, DataOf, EnvOf

\* So every step is one of the private images, or none.
LEMMA StepRefines ==
  ~ LooseProbes /\ ImagesInv /\ AllSeen /\ AllSeen' /\ [Next]_vars => [Private!Next]_(Private!vars)
<1> SUFFICES ASSUME ~ LooseProbes, ImagesInv, AllSeen, AllSeen', [Next]_vars
             PROVE  [Private!Next]_(Private!vars)
  OBVIOUS
<1>1. /\ SeenImage = ImageOf /\ SeenData = DataOf /\ SeenEnv = EnvOf
      /\ SeenImage' = ImageOf' /\ SeenData' = DataOf' /\ SeenEnv' = EnvOf'
  BY DEF AllSeen
<1>2. ASSUME NEW t \in Tasks, Seen!Exec(t) PROVE Private!Exec(t)
  <2>1. PICK p \in Payloads, e \in 1..MaxExecs :
          /\ SeenImage' = [SeenImage EXCEPT ![t] = p]
          /\ SeenData' = [SeenData EXCEPT ![t] = Seen!StartOf(p, e)]
          /\ SeenEnv' = [SeenEnv EXCEPT ![t] = e]
    BY <1>2 DEF Seen!Exec
  <2>2. Seen!StartOf(p, e) = Private!StartOf(p, e)
    BY DEF Seen!StartOf, Private!StartOf
  <2> QED BY <2>1, <2>2, <1>1 DEF Private!Exec
<1>3. ASSUME NEW t \in Tasks, Seen!Store(t) PROVE Private!Store(t)
  BY <1>1, <1>3 DEF Seen!Store, Private!Store
<1>4. ASSUME Seen!Forget PROVE Private!Forget
  BY <1>1, <1>4 DEF Seen!Forget, Private!Forget, Seen!NoData, Private!NoData
<1>5. Seen!Next => Private!Next
  BY <1>2, <1>3, <1>4 DEF Seen!Next, Private!Next
<1>6. SeenView' = SeenView => Private!vars' = Private!vars
  BY <1>1 DEF SeenView, Private!vars
<1> QED BY <1>5, <1>6, StepSeen

\* What the engine and exec copy, and when, is invisible: tasks run images as if each had a copy of
\* its own (run-minimachine-linux.py:4397-4399).
THEOREM ImplementsPrivateImagesHolds == ~ LooseProbes => (Spec => ImplementsPrivateImages)
<1> SUFFICES ASSUME ~ LooseProbes PROVE Spec => ImplementsPrivateImages
  OBVIOUS
<1>1. Init => Private!Init
  <2> SUFFICES ASSUME Init PROVE Private!Init
    OBVIOUS
  <2>1. \A t \in Tasks : ~ RunsOwn(t)
    BY DEF Init, Installed, RunsOwn
  <2>2. ImageOf = [t \in Tasks |-> NoTask] /\ EnvOf = [t \in Tasks |-> 0]
    BY <2>1 DEF ImageOf, EnvOf
  <2>3. DataOf = [t \in Tasks |-> Private!NoData]
    BY <2>1 DEF DataOf, NoWords, Private!NoData
  <2> QED BY <2>2, <2>3 DEF Private!Init
<1>2. ImagesInv /\ EntriesInv /\ [Next]_vars => EntriesInv'
  BY StepEntries
<1>3. ImagesInv /\ AllSeen /\ AllSeen' /\ [Next]_vars => [Private!Next]_(Private!vars)
  BY StepRefines
<1> QED BY <1>1, <1>2, <1>3, InitEntries, SeenIs, ImagesInvariant, PTL DEF Spec, ImplementsPrivateImages, Private!Spec
=============================================================================
