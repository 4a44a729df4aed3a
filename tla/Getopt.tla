------------------------------- MODULE Getopt -------------------------------
(***************************************************************************)
(* getopt, getopt_long and getopt_long_only as the runner serves them: the *)
(* place in the argument vector is kept in one host-side record for the    *)
(* whole machine, tied to the addresses of the arguments and to optind,    *)
(* which the program may set to start again.                               *)
(***************************************************************************)
EXTENDS Naturals, FiniteSetsExt, SequencesExt

CONSTANTS Commands,   \* [kind, argv, optstring, longopts] of a program's loop
          Others,     \* those a program may go on to
          None

VARIABLES cmd,        \* the arguments of the loop that is running
          optind, state,
          parsed,     \* what the calls of this loop have returned
          ended       \* the last call has returned -1

vars == <<cmd, optind, state, parsed, ended>>

Code(c, value) == [code |-> c, value |-> value, option |-> 0]
NoValue == << >>
Unknown == "?"

-----------------------------------------------------------------------------
(* The calls.                                                              *)

\* Where the letter is listed; a leading colon is not a letter.
Quiet(os) == os # << >> /\ os[1] = ":"
Places(os, c) == {i \in 1..Len(os) : os[i] = c /\ c # ":" /\ (i = 1 => ~Quiet(os))}
Takes(os, c) ==
  LET i == Min(Places(os, c)) IN i < Len(os) /\ os[i + 1] = ":"
TakesOptional(os, c) ==
  LET i == Min(Places(os, c)) IN i + 1 < Len(os) /\ os[i + 1] = ":" /\ os[i + 2] = ":"
Missing(os) == IF Quiet(os) THEN ":" ELSE "?"

Name(token) == SubSeq(token, 1, Min({i \in 1..Len(token) : token[i] = "="} \cup {Len(token) + 1}) - 1)
Inline(token) == Len(Name(token)) < Len(token)

\* What a call compares the record with: getopt only the vector and the letters,
\* so it goes on with a record of getopt_long; that one also its table and its
\* kind, which a record of getopt lacks.
Served(s, c) ==
  /\ s.cmd.argv = c.argv /\ s.cmd.optstring = c.optstring
  /\ c.kind # "getopt" => s.cmd.kind = c.kind /\ s.cmd.longopts = c.longopts

\* The record is renewed for other arguments and when the program has set optind
\* back to 1; else it follows optind between two words.
FreshByArgs(s, ind) == s = None \/ ~Served(s, cmd) \* mutant
Fresh(s, ind) == s = None \/ ~Served(s, cmd) \/ (ind = 1 /\ s.seen # 1)
Current ==
  LET ind == IF optind = 0 THEN 1 ELSE optind IN
  IF Fresh(state, ind) THEN [cmd |-> cmd, index |-> ind, next |-> 0, seen |-> ind]
  ELSE IF state.next = 0 THEN [state EXCEPT !.index = ind] ELSE state

\* A call returns; words and the characters of a word count from 0.
Finish(index, next, result) ==
  /\ optind' = index
  /\ state' = [Current EXCEPT !.index = index, !.next = next, !.seen = index]
  /\ parsed' = Append(parsed, result) /\ UNCHANGED <<cmd, ended>>
Stop(index) ==
  /\ optind' = index
  /\ state' = [Current EXCEPT !.index = index, !.next = 0, !.seen = index]
  /\ ended' = TRUE /\ UNCHANGED <<cmd, parsed>>

Word(i) == cmd.argv[i + 1]
Argc == Len(cmd.argv)
Doubled(arg) == IsPrefix(<<"-", "-">>, arg)
LongCandidate(arg) ==
  \/ cmd.kind # "getopt" /\ Doubled(arg)
  \/ /\ cmd.kind = "getopt_long_only" /\ ~Doubled(arg)
     /\ Len(arg) > 2 \/ Places(cmd.optstring, arg[2]) = {}

Matches(name) ==
  LET exact == {o \in DOMAIN cmd.longopts : cmd.longopts[o].name = name}
  IN IF exact # {} THEN exact ELSE {o \in DOMAIN cmd.longopts : IsPrefix(name, cmd.longopts[o].name)}

LongOption(index, arg) ==
  LET token == SubSeq(arg, IF Doubled(arg) THEN 3 ELSE 2, Len(arg))
      found == Matches(Name(token))
      o == CHOOSE x \in found : TRUE
      option == cmd.longopts[o]
      value == SubSeq(token, Len(Name(token)) + 2, Len(token))
      is(v) == [code |-> option.val, value |-> v, option |-> o]
  IN CASE Cardinality(found) # 1 -> Finish(index + 1, 0, Code(Unknown, NoValue))
       [] Cardinality(found) = 1 /\ option.arg = "no" ->
            Finish(index + 1, 0, IF Inline(token) THEN Code(Unknown, NoValue) ELSE is(NoValue))
       [] Cardinality(found) = 1 /\ option.arg # "no" /\ Inline(token) ->
            Finish(index + 1, 0, is(<<value>>))
       [] Cardinality(found) = 1 /\ option.arg = "optional" /\ ~Inline(token) ->
            Finish(index + 1, 0, is(NoValue))
       [] OTHER ->
            IF index + 1 < Argc THEN Finish(index + 2, 0, is(<<Word(index + 1)>>))
            ELSE Finish(index + 1, 0, Code(Missing(cmd.optstring), NoValue))

ShortOption(index, at, arg) ==
  LET c == arg[at + 1]
      os == cmd.optstring
      last == at + 1 = Len(arg)
      here(result) == IF last THEN Finish(index + 1, 0, result) ELSE Finish(index, at + 1, result)
      rest == SubSeq(arg, at + 2, Len(arg))
  IN IF Places(os, c) = {} THEN here(Code(Unknown, NoValue))
     ELSE IF ~Takes(os, c) THEN here(Code(c, NoValue))
     ELSE IF ~last THEN Finish(index + 1, 0, Code(c, <<rest>>))
     ELSE IF TakesOptional(os, c) THEN Finish(index + 1, 0, Code(c, NoValue))
     ELSE IF index + 1 < Argc THEN Finish(index + 2, 0, Code(c, <<Word(index + 1)>>))
     ELSE Finish(index + 1, 0, Code(Missing(os), NoValue))

Call ==
  LET index == Current.index
      next == Current.next
      arg == Word(index)
  IN /\ ~ended
     /\ \/ index >= Argc /\ Stop(index)
        \/ /\ index < Argc /\ next > 0 /\ ShortOption(index, next, arg)
        \/ /\ index < Argc /\ next = 0
           /\ \/ (Len(arg) < 2 \/ arg[1] # "-") /\ Stop(index)
              \/ arg = <<"-", "-">> /\ Stop(index + 1)
              \/ /\ Len(arg) >= 2 /\ arg[1] = "-" /\ arg # <<"-", "-">>
                 /\ IF LongCandidate(arg) THEN LongOption(index, arg)
                    ELSE ShortOption(index, 1, arg)

\* The program sets optind to 0 or 1 and starts over, with the same arguments or
\* others; not with arguments the record serves while it is inside their first word.
InFirstWord(c) == state # None /\ Served(state, c) /\ state.next > 0 /\ state.seen = 1
Restart ==
  /\ cmd' \in Others \cup {cmd} /\ ~InFirstWord(cmd')
  /\ optind' \in {0, 1} /\ parsed' = << >> /\ ended' = FALSE /\ UNCHANGED state

Init ==
  /\ cmd \in Commands \cup Others /\ optind = 1 /\ state = None
  /\ parsed = << >> /\ ended = FALSE

Next == Call \/ Restart

Spec == Init /\ [][Next]_vars

-----------------------------------------------------------------------------
(* The reference: what one word, or two, of the arguments mean.            *)

Options(results, words) == [results |-> results, words |-> words]

LongMeaning(i) ==
  LET token == SubSeq(Word(i), IF Doubled(Word(i)) THEN 3 ELSE 2, Len(Word(i)))
      named == Matches(Name(token))
      valued(v) == {[code |-> cmd.longopts[o].val, value |-> v, option |-> o] : o \in named}
      kind == IF Cardinality(named) = 1 THEN cmd.longopts[CHOOSE o \in named : TRUE].arg ELSE "none"
      text == SubSeq(token, Len(Name(token)) + 2, Len(token))
      one(results) == SetToSeq(results)
      failed(c) == {Code(c, NoValue)}
  IN CASE kind = "none" \/ (kind = "no" /\ Inline(token)) -> Options(one(failed(Unknown)), 1)
       [] kind = "no" \/ (kind = "optional" /\ ~Inline(token)) -> Options(one(valued(NoValue)), 1)
       [] Inline(token) -> Options(one(valued(<<text>>)), 1)
       [] i + 1 < Argc -> Options(one(valued(<<Word(i + 1)>>)), 2)
       [] OTHER -> Options(one(failed(Missing(cmd.optstring))), 1)

\* The letters of a cluster up to the first that takes an argument, which is the
\* rest of the word or else the next word.
ShortMeaning(i) ==
  LET arg == Word(i)
      os == cmd.optstring
      known(c) == Places(os, c) # {}
      last == Min({k \in 2..Len(arg) : known(arg[k]) /\ Takes(os, arg[k])} \cup {Len(arg)})
      c == arg[last]
      plain == [k \in 1..(last - 2) |-> Code(IF known(arg[k + 1]) THEN arg[k + 1] ELSE Unknown, NoValue)]
      ends(result, words) == Options(plain \o <<result>>, words)
  IN CASE ~known(c) -> ends(Code(Unknown, NoValue), 1)
       [] known(c) /\ last < Len(arg) -> ends(Code(c, <<SubSeq(arg, last + 1, Len(arg))>>), 1)
       [] known(c) /\ last = Len(arg) /\ (~Takes(os, c) \/ TakesOptional(os, c)) -> ends(Code(c, NoValue), 1)
       [] OTHER -> IF i + 1 < Argc THEN ends(Code(c, <<Word(i + 1)>>), 2)
                   ELSE ends(Code(Missing(os), NoValue), 1)

Meaning ==
  LET from[i \in Nat] ==
        CASE i >= Argc -> [results |-> << >>, operand |-> Argc]
          [] i < Argc /\ (Len(Word(i)) < 2 \/ Word(i)[1] # "-") -> [results |-> << >>, operand |-> i]
          [] i < Argc /\ Word(i) = <<"-", "-">> -> [results |-> << >>, operand |-> i + 1]
          [] OTHER ->
               LET m == IF LongCandidate(Word(i)) THEN LongMeaning(i) ELSE ShortMeaning(i)
                   rest == from[i + m.words]
               IN [rest EXCEPT !.results = m.results \o @]
  IN from[1]

-----------------------------------------------------------------------------
\* A loop of calls returns every option of its own arguments once and in order,
\* each with its own value, and leaves optind at the first operand, whatever
\* loop was broken off before it, and where, unless that was inside the first word of
\* arguments the record takes for its own.
ArgumentsParsed ==
  /\ IsPrefix(parsed, Meaning.results)
  /\ ended => parsed = Meaning.results /\ optind = Meaning.operand
=============================================================================
