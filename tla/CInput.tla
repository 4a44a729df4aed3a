------------------------------- MODULE CInput -------------------------------
(***************************************************************************)
(* What C says of input from a file.  A stream has a position and at most  *)
(* one pushed-back byte, and a call delivers the bytes that are next, the  *)
(* pushed one first.  Nothing is said of the system calls this takes, nor  *)
(* of what becomes of the file in between.                                 *)
(***************************************************************************)
EXTENDS Integers, Functions, SequencesExt

CONSTANT Newline

VARIABLES file,    \* the bytes of the file
          input,   \* the streams open for input: [at, back, eof, error]
          call,    \* the call that is made, or was made last
          answer   \* what it has returned: the bytes and a number

Outputs == {"fwrite", "fputs", "putc", "printf"}

Stream(at, back, eof, error) == [at |-> at, back |-> back, eof |-> eof, error |-> error]
Becomes(h, stream) == input' = [input EXCEPT ![h] = stream]

\* What a stream delivers if nobody changes the file.
Ahead(h) ==
  LET s == input[h] IN s.back \o SubSeq(file, s.at + Len(s.back) + 1, Len(file))

\* The bytes are what the call asks for: a number of bytes, or a line.
Complete(asked, bytes) ==
  IF asked.op = "getline" THEN bytes # << >> /\ Last(bytes) = Newline
  ELSE Len(bytes) = asked.total
NoMore(asked, bytes) ==
  IF asked.op = "getline" THEN \A i \in 1..(Len(bytes) - 1) : bytes[i] # Newline
  ELSE Len(bytes) <= asked.total

\* No call has returned yet, or a getline is in progress.
Unanswered == [bytes |-> << >>, value |-> 0]

Init == input = << >> /\ answer = Unanswered

\* A call delivers fewer bytes than it asks for at the end of the file or on an
\* error only, and marks the stream then and only then.
Deliver(h) ==
  LET bytes == answer'.bytes
      s == input[h]
      moved(eof, error) ==
        Stream(s.at + Len(bytes), IF bytes = << >> THEN s.back ELSE << >>, eof, error)
  IN /\ call'.op \in {"getc", "fread", "getline"}
     /\ IsPrefix(bytes, Ahead(h)) /\ NoMore(call', bytes)
     /\ \/ Complete(call', bytes) /\ Becomes(h, moved(s.eof, s.error))
        \/ /\ ~Complete(call', bytes)
           /\ \/ Becomes(h, moved(s.eof, TRUE))
              \/ bytes = Ahead(h) /\ Becomes(h, moved(TRUE, s.error))

PushBack(h) ==
  /\ call'.op = "ungetc"
  /\ \/ input[h].back # << >> /\ answer'.value = -1 /\ UNCHANGED input
     \/ /\ input[h].back = << >> /\ answer'.value = call'.byte
        /\ Becomes(h, Stream(input[h].at - 1, <<call'.byte>>, FALSE, input[h].error))

Tell(h) == call'.op = "ftello" /\ answer'.value = input[h].at /\ UNCHANGED input

\* The position counts from the start, from the stream's own position, or from
\* the end.
Seek(h) ==
  LET s == input[h]
      target == call'.offset + CASE call'.whence = "set" -> 0
                                 [] call'.whence = "cur" -> s.at
                                 [] call'.whence = "end" -> Len(file)
  IN /\ call'.op = "fseeko"
     /\ Becomes(h, IF target < 0 THEN Stream(s.at, s.back, s.eof, TRUE)
                   ELSE Stream(target, << >>, FALSE, s.error))

ClearErr(h) ==
  /\ call'.op = "clearerr"
  /\ Becomes(h, Stream(input[h].at, input[h].back, FALSE, FALSE))

Open(h) ==
  /\ call'.op = "fopen" /\ h \notin DOMAIN input
  /\ input' = [x \in DOMAIN input \cup {h} |->
                 IF x = h THEN Stream(0, << >>, FALSE, FALSE) ELSE input[x]]
Close(h) == call'.op = "fclose" /\ input' = Restrict(input, DOMAIN input \ {h})

\* A step that returns nothing from a stream: a system call inside a call, a
\* write, or another process at work on the file.
Elsewhere ==
  /\ UNCHANGED input
  /\ \/ UNCHANGED answer
     \/ call'.op = "getline" /\ answer' = Unanswered
     \/ call'.op \in Outputs \cup {"fopen"} \/ call'.stream \notin DOMAIN input

Next ==
  \/ Elsewhere
  \/ \E h \in DOMAIN input :
       /\ h = call'.stream
       /\ Deliver(h) \/ PushBack(h) \/ Tell(h) \/ Seek(h) \/ ClearErr(h) \/ Close(h)
  \/ Open(call'.stream)

Spec == Init /\ [][Next]_<<file, input, call, answer>>
=============================================================================
