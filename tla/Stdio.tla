-------------------------------- MODULE Stdio --------------------------------
(***************************************************************************)
(* The libc streams that the runner serves on the host: unbuffered, with   *)
(* an entry [fd, eof, error, ungetc] for every FILE in a table of the      *)
(* machine, and read, write and lseek made as semantic calls.  getline     *)
(* reads a byte at a time into a buffer that grows; fwrite loops over      *)
(* partial writes; whatever else runs may append to the file between two   *)
(* system calls.                                                           *)
(***************************************************************************)
EXTENDS Integers, Functions, SequencesExt, FiniteSetsExt

CONSTANTS Handles, Bytes, Newline, Nul, Garbage, None,
          MinCapacity,     \* 128 in the code
          MaxFile,         \* the length to which the file may grow
          Data,            \* what a program writes
          Lines            \* getline buffers a program may start with

\* What a file holds, and the getline buffers, which have the room they say.
Content == Bytes \cup {Nul}
Buffers ==
  {l \in [allocated : BOOLEAN, capacity : Nat, text : Seq(Content \cup {Garbage})] :
     l.allocated => Len(l.text) = l.capacity}

ASSUME StdioAssumption ==
  /\ MinCapacity \in Nat \ {0} /\ Newline \in Bytes /\ Nul \notin Bytes /\ None \notin Nat
  /\ IsFiniteSet(Handles) /\ Bytes \subseteq Nat
  /\ Data \subseteq Seq(Bytes) /\ Lines \subseteq Buffers

VARIABLES
  file,      \* the bytes of the file
  offset,    \* kernel: open descriptors and their offsets
  streams,   \* open FILEs: [fd, mode, eof, error, ungetc]
  call,      \* the call the program makes, or made last
  done,      \* bytes handled so far by the call in progress, or None
  line,      \* the buffer of getline: [allocated, capacity, text]
  sent,      \* what the kernel has taken of the last fwrite: [bytes, last]
  answer     \* what the last call has returned: [bytes, value]

vars == <<file, offset, streams, call, done, line, sent, answer>>

Fds == 3..(2 + Cardinality(Handles))
Idle == done = None
Readers == {h \in DOMAIN streams : streams[h].mode = "r"}
Writers == DOMAIN streams \ Readers
Put(f, k, v) == [f EXCEPT ![k] = v]
Added(f, k, v) == [x \in DOMAIN f \cup {k} |-> IF x = k THEN v ELSE f[x]]

-----------------------------------------------------------------------------
(* System calls.                                                           *)

\* read(2) of n bytes of a regular file: what is left, up to n, or an error.
Rest(fd, n) == SubSeq(file, offset[fd] + 1, Min({offset[fd] + n, Len(file)}))
Reads(fd, n) == {[failed |-> FALSE, data |-> Rest(fd, n)],
                 [failed |-> TRUE, data |-> << >>]}
Advance(fd, n) == offset' = [offset EXCEPT ![fd] = @ + n]

\* write(2) takes some of the bytes, none, or fails (-1); in append mode at the
\* end of the file.
Taken(n) == -1..n
Written(bytes, at) ==
  [i \in 1..Max({Len(file), at + Len(bytes)}) |->
     CASE i \in (at + 1)..(at + Len(bytes)) -> bytes[i - at]
       [] i <= Len(file) -> file[i]
       [] OTHER -> Nul]
WriteAt(h) == IF streams[h].mode = "a" THEN Len(file) ELSE offset[streams[h].fd]
Write(h, bytes) ==
  IF bytes = << >> THEN UNCHANGED <<file, offset>>
  ELSE /\ WriteAt(h) + Len(bytes) <= MaxFile
       /\ file' = Written(bytes, WriteAt(h))
       /\ offset' = [offset EXCEPT ![streams[h].fd] = WriteAt(h) + Len(bytes)]

-----------------------------------------------------------------------------
(* Calls that make one system call or none.                                *)

Calls(c) == Idle /\ call' = c
Nothing == [bytes |-> << >>, last |-> 0]
\* To keep the model small the program frees the buffer of getline before any
\* other call; it keeps it from one getline to the next.
NoLine == [allocated |-> FALSE, capacity |-> 0, text |-> << >>]
Returns(bytes, value) ==
  /\ answer' = [bytes |-> bytes, value |-> value]
  /\ line' = NoLine /\ sent' = Nothing /\ UNCHANGED done

\* The flags for openat: "w" truncates, "a" appends.  It may fail; else it gives
\* the lowest descriptor that is free.
Fopen(h) ==
  \E mode \in {"r", "w", "a"} :
    /\ h \notin DOMAIN streams
    /\ Calls([op |-> "fopen", stream |-> h, mode |-> mode])
    /\ \/ UNCHANGED <<file, offset, streams>> /\ Returns(<< >>, 0)
       \/ \E fd \in Fds \ DOMAIN offset :
            /\ \A other \in Fds \ DOMAIN offset : fd <= other
            /\ file' = IF mode = "w" THEN << >> ELSE file
            /\ offset' = Added(offset, fd, 0)
            /\ streams' = Added(streams, h, [fd |-> fd, mode |-> mode, eof |-> FALSE,
                                             error |-> FALSE, ungetc |-> None])
            /\ Returns(<< >>, 1)

\* The entry goes first, then the descriptor, whatever close returns.
Fclose(h) ==
  /\ h \in DOMAIN streams /\ Calls([op |-> "fclose", stream |-> h])
  /\ streams' = Restrict(streams, DOMAIN streams \ {h})
  /\ offset' = Restrict(offset, DOMAIN offset \ {streams[h].fd})
  /\ Returns(<< >>, 0) /\ UNCHANGED file

\* What a call leaves in the entry: its marks and the pushed-back byte.
Left(s, eof, error, ungetc) ==
  [fd |-> s.fd, mode |-> s.mode, eof |-> eof, error |-> error, ungetc |-> ungetc]
Unpushed(s) == Left(s, FALSE, s.error, None)
Marked(s, r, short) == Left(s, s.eof \/ (~r.failed /\ short), s.error \/ r.failed, None)

Getc(h) ==
  LET s == streams[h] IN
  /\ h \in Readers /\ Calls([op |-> "getc", stream |-> h, total |-> 1]) /\ UNCHANGED file
  /\ \/ /\ s.ungetc # None
        /\ streams' = Put(streams, h, Unpushed(s))
        /\ Returns(<<s.ungetc>>, s.ungetc) /\ UNCHANGED offset
     \/ /\ s.ungetc = None
        /\ \E r \in Reads(s.fd, 1) :
             /\ streams' = Put(streams, h, Marked(s, r, r.data = << >>))
             /\ Advance(s.fd, Len(r.data))
             /\ Returns(r.data, IF r.data = << >> THEN -1 ELSE r.data[1])

\* A pushed byte and then one read for all that is missing.
Fread(h) ==
  \E size, nmemb \in 1..2 :
    LET s == streams[h]
        total == size * nmemb
        pushed == IF s.ungetc = None THEN << >> ELSE <<s.ungetc>>
        missing == total - Len(pushed)
    IN /\ h \in Readers /\ total <= MaxFile /\ UNCHANGED file
       /\ Calls([op |-> "fread", stream |-> h, total |-> total])
       /\ \E r \in IF missing = 0 THEN {[failed |-> FALSE, data |-> << >>]}
                   ELSE Reads(s.fd, missing) :
            /\ streams' = Put(streams, h, Marked(s, r, Len(r.data) < missing))
            /\ Advance(s.fd, Len(r.data))
            /\ Returns(pushed \o r.data, Len(pushed \o r.data) \div size)

\* One byte can be pushed back.  The program pushes back after it has read.
Ungetc(h) ==
  \E byte \in Bytes :
    LET s == streams[h] IN
    /\ h \in Readers /\ offset[s.fd] > 0 /\ Calls([op |-> "ungetc", stream |-> h, byte |-> byte])
    /\ \/ s.ungetc # None /\ Returns(<< >>, -1) /\ UNCHANGED streams
       \/ /\ s.ungetc = None /\ Returns(<< >>, byte)
          /\ streams' = Put(streams, h, Left(s, FALSE, s.error, byte))
    /\ UNCHANGED <<file, offset>>

\* lseek, from the descriptor's own position if from the current one: a program
\* does that only when no byte is pushed back.
SoughtKept(s) == Left(s, FALSE, s.error, s.ungetc) \* mutant
Sought(s) == Left(s, FALSE, s.error, None)
Fseeko(h) ==
  \E off \in {-1, 0}, whence \in {"set", "cur", "end"} :
    LET s == streams[h]
        target == off + CASE whence = "set" -> 0
                          [] whence = "cur" -> offset[s.fd]
                          [] whence = "end" -> Len(file)
    IN /\ h \in DOMAIN streams /\ (whence = "cur" => s.ungetc = None) /\ target <= MaxFile
       /\ Calls([op |-> "fseeko", stream |-> h, offset |-> off, whence |-> whence])
       /\ \/ /\ target < 0 /\ Returns(<< >>, -1)
             /\ streams' = Put(streams, h, Left(s, s.eof, TRUE, s.ungetc)) /\ UNCHANGED offset
          \/ /\ target >= 0 /\ Returns(<< >>, 0)
             /\ streams' = Put(streams, h, Sought(s))
             /\ offset' = Put(offset, s.fd, target)
       /\ UNCHANGED file

Ftello(h) ==
  LET s == streams[h] IN
  /\ h \in DOMAIN streams /\ Calls([op |-> "ftello", stream |-> h])
  /\ Returns(<< >>, IF s.ungetc = None THEN offset[s.fd] ELSE offset[s.fd] - 1)
  /\ UNCHANGED <<file, offset, streams>>

Clearerr(h) ==
  /\ h \in DOMAIN streams /\ Calls([op |-> "clearerr", stream |-> h])
  /\ streams' = Put(streams, h, Left(streams[h], FALSE, FALSE, streams[h].ungetc))
  /\ Returns(<< >>, 0) /\ UNCHANGED <<file, offset>>

\* One write: what the kernel does not take is not written again.
Fputs(h) ==
  \E op \in {"fputs", "putc", "printf"}, bytes \in Data, n \in Taken(2) :
    LET text == IF op = "putc" THEN SubSeq(bytes, 1, 1) ELSE bytes
        took == SubSeq(text, 1, Max({n, 0}))
    IN /\ h \in Writers /\ (op = "putc" => bytes # << >>) /\ n <= Len(text)
       /\ Calls([op |-> op, stream |-> h])
       /\ Write(h, took) /\ UNCHANGED streams
       /\ Returns(<< >>, IF n < 0 THEN -1 ELSE CASE op = "fputs" -> 0
                                                 [] op = "putc" -> text[1]
                                                 [] op = "printf" -> n)

-----------------------------------------------------------------------------
(* getline.                                                                *)

\* The buffer is kept when it is large enough, else doubled and copied.
EnoughTight(l, required) == l.allocated /\ l.capacity >= required - 1 \* mutant
Enough(l, required) == l.allocated /\ l.capacity >= required
PowerOfTwo[i \in Nat] == IF i = 0 THEN 1 ELSE 2 * PowerOfTwo[i - 1]
Doubled(from, required) ==
  Min({from * PowerOfTwo[i] : i \in 0..required} \ 0..(required - 1))
Ensured(l, required) ==
  IF Enough(l, required) THEN l
  ELSE LET capacity == Doubled(Max({MinCapacity, l.capacity}), required)
           kept == IF l.allocated THEN Min({l.capacity, required - 1}) ELSE 0
       IN [allocated |-> TRUE, capacity |-> capacity,
           text |-> [i \in 1..capacity |-> IF i <= kept THEN l.text[i] ELSE Garbage]]

Stored(l, at, byte) == [l EXCEPT !.text = [i \in 1..l.capacity |-> IF i = at THEN byte ELSE @[i]]]

\* A stream as C sees it: a pushed-back byte is still to come.
Logical(s) ==
  [at    |-> IF s.ungetc = None THEN offset[s.fd] ELSE offset[s.fd] - 1,
   back  |-> IF s.ungetc = None THEN << >> ELSE <<s.ungetc>>,
   eof   |-> s.eof,
   error |-> s.error]

Getline(h) ==
  /\ h \in Readers /\ Calls([op |-> "getline", stream |-> h, before |-> Logical(streams[h])])
  /\ line' \in Lines \cup {line}
  /\ done' = 0 /\ sent' = Nothing /\ answer' = [bytes |-> << >>, value |-> 0]
  /\ UNCHANGED <<file, offset, streams>>

\* The line ends: a NUL goes after it.
Ends(l, length) ==
  LET ended == Stored(Ensured(l, length + 1), length + 1, Nul) IN
  /\ line' = ended /\ done' = None
  /\ answer' = [bytes |-> SubSeq(ended.text, 1, length), value |-> length]

Stores(byte) ==
  LET longer == Stored(Ensured(line, done + 2), done + 1, byte) IN
  IF byte = Newline THEN Ends(longer, done + 1)
  ELSE line' = longer /\ done' = done + 1 /\ UNCHANGED answer

GetlineByte ==
  LET h == call.stream
      s == streams[h]
  IN /\ ~Idle /\ call.op = "getline" /\ UNCHANGED <<file, sent>>
     /\ \/ /\ s.ungetc # None /\ Stores(s.ungetc)
           /\ streams' = Put(streams, h, Unpushed(s))
           /\ UNCHANGED offset
        \/ /\ s.ungetc = None
           /\ \E r \in Reads(s.fd, 1) :
                /\ streams' = Put(streams, h, Marked(s, r, r.data = << >>))
                /\ Advance(s.fd, Len(r.data))
                /\ \/ r.data # << >> /\ Stores(r.data[1])
                   \/ r.data = << >> /\ done > 0 /\ Ends(line, done)
                   \/ /\ r.data = << >> /\ done = 0 /\ done' = None
                      /\ answer' = [bytes |-> << >>, value |-> -1] /\ UNCHANGED line
     /\ call' = IF done' = None \* nobody asks for the stream as it was before any more
                THEN [call EXCEPT !.before = << >>] ELSE call

-----------------------------------------------------------------------------
(* fwrite.                                                                 *)

Fwrite(h) ==
  \E data \in Data, size \in 1..2 :
    /\ h \in Writers /\ Calls([op |-> "fwrite", stream |-> h, data |-> data, size |-> size])
    /\ done' = 0 /\ sent' = Nothing /\ line' = NoLine /\ answer' = [bytes |-> << >>, value |-> 0]
    /\ UNCHANGED <<file, offset, streams>>

\* The next write starts where the last one has stopped.
UnwrittenFirst == SubSeq(call.data, 1, Len(call.data) - done) \* mutant
Unwritten == SubSeq(call.data, done + 1, Len(call.data))

FwriteEnds(written) ==
  done' = None /\ answer' = [bytes |-> << >>, value |-> written \div call.size]

FwriteStep ==
  LET h == call.stream IN
  /\ ~Idle /\ call.op = "fwrite" /\ UNCHANGED <<call, line>>
  /\ \E n \in Taken(Len(Unwritten)) :
       LET took == SubSeq(Unwritten, 1, Max({n, 0})) IN
       /\ Write(h, took) /\ sent' = [bytes |-> sent.bytes \o took, last |-> n]
       /\ streams' =
            IF n < 0
            THEN Put(streams, h, Left(streams[h], streams[h].eof, TRUE, streams[h].ungetc))
            ELSE streams
       /\ IF n <= 0 \/ done + n = Len(call.data) THEN FwriteEnds(done + Max({n, 0}))
          ELSE done' = done + n /\ UNCHANGED answer

-----------------------------------------------------------------------------
\* Another process appends to the file.
Appends(byte) ==
  /\ Len(file) < MaxFile /\ file' = file \o <<byte>>
  /\ UNCHANGED <<offset, streams, call, done, line, sent, answer>>

Init ==
  /\ file = << >> /\ offset = << >> /\ streams = << >>
  /\ call = [op |-> "none", stream |-> None] /\ done = None
  /\ line = NoLine /\ sent = Nothing /\ answer = [bytes |-> << >>, value |-> 0]

Next ==
  \/ \E h \in Handles :
       \/ Fopen(h) \/ Fclose(h) \/ Getc(h) \/ Fread(h) \/ Ungetc(h) \/ Fseeko(h)
       \/ Ftello(h) \/ Clearerr(h) \/ Getline(h) \/ Fputs(h) \/ Fwrite(h)
  \/ GetlineByte \/ FwriteStep
  \/ \E byte \in Bytes : Appends(byte)

Spec == Init /\ [][Next]_vars

-----------------------------------------------------------------------------
(* Properties.                                                             *)

\* A call in progress has delivered nothing yet.
Input ==
  [h \in Readers |->
     IF ~Idle /\ call.op = "getline" /\ call.stream = h THEN call.before
     ELSE Logical(streams[h])]
C == INSTANCE CInput WITH input <- Input

\* The read side is what C says: whatever the mix of getc, fread, getline,
\* ungetc, seeks and another process that appends, but for a seek from the current
\* position over a pushed-back byte, the bytes come in the order of the file, none lost and none twice, ftello is the place of the next one,
\* and a call that delivers less has marked the end of the file or an error.
ReadsAsC == C!Spec

\* getline leaves the line it returns in a buffer that has room for it and for
\* the NUL after it, however often the buffer has grown on the way.
LineTerminated ==
  (Idle /\ call.op = "getline" /\ answer.value > 0) =>
    /\ answer.value < line.capacity /\ line.capacity = Len(line.text)
    /\ line.text[answer.value + 1] = Nul

\* The kernel has taken the bytes of an fwrite in order, each once, and the items
\* fwrite counts are those; it counts fewer than it was given only when the
\* kernel's last answer was an error or no byte.
FwriteTruthful ==
  (call.op = "fwrite" /\ Idle) =>
    /\ IsPrefix(sent.bytes, call.data)
    /\ answer.value = Len(sent.bytes) \div call.size
    /\ Len(sent.bytes) < Len(call.data) => sent.last <= 0
=============================================================================
