--------------------------- MODULE ForkWait_proofs ---------------------------
(***************************************************************************)
(* The frames that fork, vfork and waitpid share, and the exits that they  *)
(* report, for any number of children, whatever the kernel schedules.      *)
(***************************************************************************)
EXTENDS ForkWait, SequenceTheorems, WellFoundedInduction, TLAPS

-----------------------------------------------------------------------------
(* Types.                                                                  *)

Names == {"none", "fork", "vfork", "waitpid"}
Layers == Names \cup {"getpid", "sys", "execve", "exit"}
Errors == {"none", "failed"} \cup ReplayedErrors
Modes == {"none", "new", "started", "user", "sys", "zombie", "gone",
          "return", "clone", "cloned", "drive", "wait4"}
Program == [locals : Tasks \X {0, 1}, result : {"none", "parent", "child"}]
Frames == [program : Program, call : Tasks \X Layers]
\* The calls that have saved s.
Calls(s) == [name : Names, saved : {s}, count : Nat, pid : Children \cup {NoChild},
             nohang : BOOLEAN, error : Errors, status : Statuses \cup {0}]
Records == [pid : Children, status : Statuses, task : Children]

FramesTyped == frames \in Frames /\ expects \in [Tasks -> Program]
TasksTyped == /\ running \in Tasks
              /\ mode \in [Tasks -> Modes]
              /\ kind \in [Children -> [name : Names, alone : BOOLEAN]]
              /\ shares \subseteq Children
CallTyped == call \in Calls(call.saved)
ExitsTyped == /\ known \subseteq Children
              /\ exits \in Seq(Records)
              /\ status \in [Children -> Statuses \cup {0}]
TypeOK == FramesTyped /\ TasksTyped /\ CallTyped /\ ExitsTyped

(* Who has the machine, and what a call has saved.                         *)
Alone == {"user", "return", "clone"}
InCall == {"clone", "cloned", "drive", "wait4"}

\* Other tasks run only while the parent is inside the kernel.
Scheduled == /\ mode[Parent] \in Alone \cup InCall
             /\ mode[Parent] \in Alone => running = Parent

\* The snapshot of a call in progress holds what its parent must find.
SnapshotKept == mode[Parent] \in InCall =>
                  /\ call.saved \in Frames
                  /\ call.saved.program = expects[Parent]
                  /\ call.saved.call[1] = Parent

ParentInv == TypeOK /\ Scheduled /\ SnapshotKept /\ ParentFramesKept

\* The initial state has the types.
LEMMA InitTyped == Init => TypeOK
<1> SUFFICES ASSUME Init PROVE TypeOK
  OBVIOUS
<1>1. /\ frames = [program |-> Unset, call |-> <<Parent, "none">>]
      /\ expects = [t \in Tasks |-> Unset]
      /\ call = NotCalled
  BY DEF Init
<1>2. /\ running = Parent /\ shares = {}
      /\ mode = [t \in Tasks |-> IF t = Parent THEN "user" ELSE "none"]
      /\ kind = [c \in Children |-> [name |-> "none", alone |-> FALSE]]
  BY DEF Init
<1>3. Unset \in Program
  BY DEF Unset, Program, Tasks
<1>4. CallTyped
  BY <1>1 DEF CallTyped, NotCalled, Calls, Names, Errors
<1>5. frames \in Frames
  BY <1>1, <1>3 DEF Frames, Tasks, Layers, Names
<1>6. FramesTyped
  BY <1>1, <1>3, <1>5 DEF FramesTyped
<1>7. TasksTyped
  BY <1>2 DEF TasksTyped, Tasks, Modes, Names
<1>8. ExitsTyped
  BY DEF Init, ExitsTyped
<1> QED
  BY <1>4, <1>6, <1>7, <1>8 DEF TypeOK

\* Calling the library leaves the frame of the program alone.
LEMMA LaidFrames ==
  ASSUME frames \in Frames, NEW t \in Tasks, NEW name \in Layers
  PROVE  /\ Laid(t, name) \in Frames
         /\ Laid(t, name).program = frames.program
         /\ t = Parent => Laid(t, name).call[1] = Parent
  BY DEF Laid, Frames, OnFrames

\* Nonempty sets of numbers have a least element, which Min chooses.
LEMMA MinMember ==
  ASSUME NEW S \in SUBSET Nat, S # {}
  PROVE  Min(S) \in S
<1> DEFINE less == {ss \in Nat \X Nat : ss[1] < ss[2]}
<1>1. IsWellFoundedOn(less, Nat)
  BY NatLessThanWellFounded DEF OpToRel
<1> HIDE DEF less
<1>2. PICK x \in S : \A y \in S : <<y, x>> \notin less
  BY <1>1, WFMin
<1>3. ASSUME NEW y \in S PROVE x =< y
  <2>1. x \in Nat /\ y \in Nat
    OBVIOUS
  <2>2. y < x => <<y, x>> \in less
    BY <2>1 DEF less
  <2> QED
    BY <1>2, <2>1, <2>2
<1> QED
  BY <1>3 DEF Min

\* A failed wait4 takes a record that fits, or there is none.
LEMMA ReplayChoices ==
  ASSUME ExitsTyped, NEW error, Replay(error)
  PROVE  \/ /\ Answer(NoChild, 0, error) /\ UNCHANGED exits
            /\ error \in ReplayedErrors => \A i \in 1..Len(exits) : ~Fits(exits[i], call.pid)
         \/ \E i \in 1..Len(exits) : /\ Fits(exits[i], call.pid)
                                     /\ Answer(exits[i].pid, exits[i].status, "none")
                                     /\ exits' = RemoveAt(exits, i)
<1> DEFINE fitting == {i \in 1..Len(exits) : Fits(exits[i], call.pid)}
<1>1. fitting \in SUBSET Nat
  BY DEF ExitsTyped
<1>2. CASE error \notin ReplayedErrors
  BY <1>2 DEF Replay
<1>3. CASE error \in ReplayedErrors /\ fitting = {}
  BY <1>3 DEF Replay, SelectInSeq
<1>4. CASE error \in ReplayedErrors /\ fitting # {}
  <2>1. Min(fitting) \in fitting
    BY <1>1, <1>4, MinMember
  <2>2. Min(fitting) # 0
    BY <2>1
  <2> QED
    BY <1>4, <2>1, <2>2 DEF Replay, SelectInSeq
<1> QED
  BY <1>2, <1>3, <1>4

\* Removing a record keeps the others.
LEMMA RemoveAtKeeps ==
  ASSUME NEW S, NEW s \in Seq(S), NEW i \in 1..Len(s)
  PROVE  /\ RemoveAt(s, i) \in Seq(S)
         /\ \A j \in 1..Len(RemoveAt(s, i)) : \E k \in 1..Len(s) : RemoveAt(s, i)[j] = s[k]
         /\ \A k \in 1..Len(s) : k # i => \E j \in 1..Len(RemoveAt(s, i)) : RemoveAt(s, i)[j] = s[k]
<1> DEFINE r == RemoveAt(s, i)
           left == SubSeq(s, 1, i - 1)
           right == SubSeq(s, i + 1, Len(s))
<1>0. Len(s) \in Nat /\ i \in Nat /\ 1 <= i /\ i <= Len(s) /\ \A k \in 1..Len(s) : s[k] \in S
  BY LenProperties
<1>a. /\ left \in Seq(S) /\ Len(left) = i - 1
      /\ \A j \in 1..(i - 1) : left[j] = s[j]
  <2>1. \A j \in 1..(i - 1) : s[j] \in S
    BY <1>0
  <2> QED
    BY <1>0, <2>1, SubSeqProperties
<1>b. /\ right \in Seq(S) /\ Len(right) = Len(s) - i
      /\ \A j \in 1..(Len(s) - i) : right[j] = s[i + j]
  <2>1. \A j \in (i + 1)..Len(s) : s[j] \in S
    BY <1>0
  <2>2. /\ right \in Seq(S) /\ Len(right) = IF i + 1 <= Len(s) THEN Len(s) - (i + 1) + 1 ELSE 0
        /\ \A j \in 1..(Len(s) - (i + 1) + 1) : right[j] = s[(i + 1) + j - 1]
    <3>1. i + 1 \in Int /\ Len(s) \in Int
      BY <1>0
    <3> QED
      BY <2>1, <3>1, SubSeqProperties
  <2> HIDE DEF right
  <2>3. \A j \in 1..(Len(s) - i) : (i + 1) + j - 1 = i + j
    BY <1>0
  <2> QED
    BY <1>0, <2>2, <2>3
<1>c. r = left \o right
  BY DEF RemoveAt
<1> HIDE DEF r, left, right
<1>1. r \in Seq(S) /\ Len(r) = Len(s) - 1
  BY <1>0, <1>a, <1>b, <1>c, ConcatProperties
<1>2. \A j \in 1..(Len(s) - 1) : r[j] = IF j < i THEN s[j] ELSE s[j + 1]
  <2>1. \A j \in 1..(Len(s) - 1) : r[j] = IF j <= i - 1 THEN left[j] ELSE right[j - (i - 1)]
    BY <1>0, <1>a, <1>b, <1>c, ConcatProperties
  <2>2. ASSUME NEW j \in 1..(Len(s) - 1), ~(j < i)
        PROVE  j - (i - 1) \in 1..(Len(s) - i) /\ i + (j - (i - 1)) = j + 1
    BY <1>0, <2>2
  <2> QED
    BY <1>0, <1>a, <1>b, <2>1, <2>2
<1>3. ASSUME NEW j \in 1..Len(r) PROVE \E k \in 1..Len(s) : r[j] = s[k]
  <2>1. j \in 1..Len(s) /\ j + 1 \in 1..Len(s)
    BY <1>1
  <2> QED
    BY <1>1, <1>2, <2>1
<1>4. ASSUME NEW k \in 1..Len(s), k # i PROVE \E j \in 1..Len(r) : r[j] = s[k]
  <2>1. CASE k < i
    BY <1>1, <1>2, <2>1
  <2>2. CASE k > i
    <3>1. k - 1 \in 1..Len(r) /\ ~(k - 1 < i) /\ (k - 1) + 1 = k
      BY <1>1, <2>2
    <3> QED
      BY <1>1, <1>2, <3>1
  <2> QED
    BY <1>4, <2>1, <2>2
<1> QED
  BY <1>1, <1>3, <1>4 DEF r

-----------------------------------------------------------------------------
(* The parent keeps its frames.                                            *)

\* In the initial state nothing is saved and no call is made.
LEMMA InitParent == Init => ParentInv
<1> SUFFICES ASSUME Init PROVE ParentInv
  OBVIOUS
<1>1. TypeOK
  BY InitTyped
<1>2. mode[Parent] = "user" /\ running = Parent /\ frames.program = expects[Parent]
  BY DEF Init, Tasks
<1> QED
  BY <1>1, <1>2 DEF ParentInv, Scheduled, SnapshotKept, ParentFramesKept, Alone, InCall

\* The end of a call puts the snapshot back.
LEMMA AnswerKept ==
  ASSUME ParentInv, mode[Parent] \in InCall, NEW pid \in Children \cup {NoChild},
         NEW s \in Statuses \cup {0}, NEW e \in Errors, Answer(pid, s, e)
  PROVE  /\ frames' \in Frames /\ frames'.program = expects[Parent] /\ frames'.call[1] = Parent
         /\ CallTyped'
<1>1. frames' = call.saved /\ call' = [call EXCEPT !.pid = pid, !.status = s, !.error = e]
  BY DEF Answer, Restored
<1>2. CallTyped'
  BY <1>1 DEF ParentInv, TypeOK, CallTyped, Calls
<1> QED
  BY <1>1, <1>2 DEF ParentInv, SnapshotKept

\* Steps that end a call of the parent.
AnswerStep == Wait4FindsNone \/ Wait4Fails \/ \E c \in Children : Wait4Reaps(c)

\* The end of a waitpid puts the frames back, whoever answers it.
LEMMA AnswerStepKept ==
  ASSUME ParentInv, AnswerStep
  PROVE  ParentInv'
<1>0. TypeOK /\ Scheduled /\ TasksDiffer
  BY TasksDiffer DEF ParentInv
<1>1. running = Parent /\ mode[Parent] = "wait4" /\ mode[Parent] \in InCall
      /\ UNCHANGED <<expects, running, shares, kind, known, status>>
  BY DEF AnswerStep, Wait4FindsNone, Wait4Fails, Wait4Reaps, InKernel, InCall, forkVars
<1>2. mode' \in [Tasks -> Modes] /\ mode'[Parent] = "return"
  <2>1. ASSUME NEW c \in Children, Wait4Reaps(c) PROVE mode' \in [Tasks -> Modes] /\ mode'[Parent] = "return"
    BY <1>0, <2>1 DEF Wait4Reaps, TypeOK, TasksTyped, Tasks, Modes
  <2>2. CASE Wait4FindsNone \/ Wait4Fails
    BY <1>0, <2>2 DEF Wait4FindsNone, Wait4Fails, Become, TypeOK, TasksTyped, Tasks, Modes
  <2> QED
    BY <2>1, <2>2 DEF AnswerStep
<1> DEFINE Answered == /\ exits' \in Seq(Records) /\ CallTyped'
                       /\ frames' \in Frames /\ frames'.program = expects[Parent]
                       /\ frames'.call[1] = Parent
<1>3. Answered
  <2>1. ASSUME NEW c \in Children, Wait4Reaps(c) PROVE Answered
    <3>1. status[c] \in Statuses \cup {0} /\ "none" \in Errors
      BY <1>0 DEF TypeOK, ExitsTyped, Errors
    <3> QED
      BY <1>0, <1>1, <2>1, <3>1, AnswerKept DEF Wait4Reaps, TypeOK, ExitsTyped
  <2>2. CASE Wait4FindsNone
    BY <1>0, <1>1, <2>2, AnswerKept DEF Wait4FindsNone, TypeOK, ExitsTyped, Errors
  <2>3. ASSUME NEW error \in ReplayedErrors, Replay(error) PROVE Answered
    <3>1. CASE Answer(NoChild, 0, error) /\ UNCHANGED exits
      BY <1>0, <1>1, <2>3, <3>1, AnswerKept DEF TypeOK, ExitsTyped, Errors
    <3>2. ASSUME NEW i \in 1..Len(exits), Answer(exits[i].pid, exits[i].status, "none"),
                 exits' = RemoveAt(exits, i)
          PROVE Answered
      <4>1. exits[i] \in Records /\ exits \in Seq(Records)
        BY <1>0 DEF TypeOK, ExitsTyped
      <4>2. exits[i].pid \in Children /\ exits[i].status \in Statuses
        BY <4>1 DEF Records
      <4>3. exits' \in Seq(Records)
        BY <4>1, <3>2, RemoveAtKeeps
      <4> QED
        BY <1>1, <3>2, <4>2, <4>3, AnswerKept DEF Errors
    <3> QED
      BY <1>0, <2>3, <3>1, <3>2, ReplayChoices DEF TypeOK
  <2>4. CASE Wait4Fails
    BY <2>3, <2>4 DEF Wait4Fails, ReplayedErrors
  <2> QED
    BY <2>1, <2>2, <2>4 DEF AnswerStep
<1>4. TypeOK'
  BY <1>0, <1>1, <1>2, <1>3 DEF TypeOK, FramesTyped, TasksTyped, ExitsTyped
<1> QED
  BY <1>1, <1>2, <1>3, <1>4
  DEF ParentInv, Scheduled, SnapshotKept, ParentFramesKept, Alone, InCall

\* A step of the parent that begins a call, inside one, or back to its program.
ParentCallStep ==
  \/ \E k \in {"fork", "vfork"} : Fork(k)
  \/ \E c \in Children : CloneCreate(c)
  \/ CloneReturn \/ CloneRestart \/ CloneFail \/ Return
  \/ \E pid \in Children \cup {NoChild}, nohang \in BOOLEAN : Waitpid(pid, nohang)
  \/ DriveReturn

\* The other steps of fork, vfork and waitpid: each window opens with a snapshot
\* of what the parent must find, and closes with it put back.
LEMMA ParentCallStepKept ==
  ASSUME ParentInv, ParentCallStep
  PROVE  ParentInv'
<1>0. TypeOK /\ Scheduled /\ SnapshotKept /\ ParentFramesKept /\ Parent \notin Children
  BY TasksDiffer DEF ParentInv
<1>a. frames \in Frames /\ frames.program \in Program /\ expects \in [Tasks -> Program] /\ Parent \in Tasks
  BY <1>0 DEF TypeOK, FramesTyped, Frames, Tasks
<1>b. mode \in [Tasks -> Modes] /\ call \in Calls(call.saved) /\ exits \in Seq(Records)
  BY <1>0 DEF TypeOK, TasksTyped, CallTyped, ExitsTyped
<1> USE DEF ParentInv
<1>1. ASSUME NEW k \in {"fork", "vfork"}, Fork(k) PROVE ParentInv'
  <2>1. /\ mode[Parent] = "user" /\ running = Parent /\ mode' = [mode EXCEPT ![Parent] = "clone"]
        /\ frames' = Laid(Parent, "fork")
        /\ call' = [NotCalled EXCEPT !.name = k, !.saved = frames']
        /\ UNCHANGED <<expects, running, kind, shares, exitVars>>
    BY <1>1 DEF Fork, InUser, Become
  <2>2. frames' \in Frames /\ frames'.program = expects[Parent] /\ frames'.call[1] = Parent
    BY <1>0, <1>a, <2>1, LaidFrames DEF ParentFramesKept, Layers, Names
  <2>3. CallTyped' /\ call'.saved = frames'
    BY <2>1 DEF CallTyped, Calls, NotCalled, Names, Errors
  <2>4. mode' \in [Tasks -> Modes] /\ mode'[Parent] = "clone"
    BY <1>a, <1>b, <2>1 DEF Modes
  <2>5. TypeOK'
    BY <1>0, <2>1, <2>2, <2>3, <2>4 DEF TypeOK, FramesTyped, TasksTyped, ExitsTyped, exitVars
  <2> QED
    BY <2>1, <2>2, <2>3, <2>4, <2>5
    DEF Scheduled, SnapshotKept, ParentFramesKept, Alone, InCall
<1>2. ASSUME NEW c \in Children, CloneCreate(c) PROVE ParentInv'
  <2>1. /\ mode[Parent] = "clone" /\ running = Parent
        /\ mode' = [mode EXCEPT ![Parent] = "cloned", ![c] = "new"]
        /\ kind' = [kind EXCEPT ![c] = [name |-> call.name, alone |-> shares = {}]]
        /\ expects' = [expects EXCEPT ![c] = [frames.program EXCEPT !.result = "child"]]
        /\ shares' = shares \cup {c}
        /\ call' = [call EXCEPT !.pid = c]
        /\ UNCHANGED <<frames, running, exitVars>>
    BY <1>2 DEF CloneCreate, InKernel
  <2>2. c \in Tasks /\ c # Parent
    BY <1>0 DEF Tasks
  <2>3. /\ expects' \in [Tasks -> Program] /\ expects'[Parent] = expects[Parent]
    <3>1. [frames.program EXCEPT !.result = "child"] \in Program
      BY <1>a DEF Program
    <3> QED
      BY <1>a, <2>1, <2>2, <3>1
  <2>4. mode' \in [Tasks -> Modes] /\ mode'[Parent] = "cloned"
    BY <1>a, <1>b, <2>1, <2>2 DEF Modes
  <2>5. CallTyped' /\ call'.saved = call.saved
    BY <1>b, <2>1 DEF CallTyped, Calls
  <2>6. kind' \in [Children -> [name : Names, alone : BOOLEAN]]
    <3>1. call.name \in Names
      BY <1>b DEF Calls
    <3>2. [name |-> call.name, alone |-> shares = {}] \in [name : Names, alone : BOOLEAN]
      BY <3>1
    <3> QED
      BY <1>0, <2>1, <3>2 DEF TypeOK, TasksTyped
  <2>7. TypeOK'
    BY <1>0, <2>1, <2>2, <2>3, <2>4, <2>5, <2>6
    DEF TypeOK, FramesTyped, TasksTyped, ExitsTyped, exitVars
  <2> QED
    BY <1>0, <2>1, <2>3, <2>4, <2>5, <2>7
    DEF Scheduled, SnapshotKept, ParentFramesKept, Alone, InCall
<1>3. CASE CloneReturn \/ CloneFail
  <2>1. /\ mode[Parent] \in InCall /\ running = Parent /\ mode' = [mode EXCEPT ![Parent] = "return"]
        /\ frames' = call.saved
        /\ call' = call \/ call' = [call EXCEPT !.error = "failed"]
        /\ UNCHANGED <<expects, running, kind, shares, exitVars>>
    BY <1>3 DEF CloneReturn, CloneFail, InKernel, Become, Restored, InCall, forkVars
  <2>2. frames' \in Frames /\ frames'.program = expects[Parent] /\ frames'.call[1] = Parent
    BY <1>0, <2>1 DEF SnapshotKept
  <2>3. mode' \in [Tasks -> Modes] /\ mode'[Parent] = "return"
    BY <1>a, <1>b, <2>1 DEF Modes
  <2>4. CallTyped'
    <3>1. CASE call' = call
      BY <1>b, <3>1 DEF CallTyped
    <3>2. CASE call' = [call EXCEPT !.error = "failed"]
      BY <1>b, <3>2 DEF CallTyped, Calls, Errors
    <3> QED
      BY <2>1, <3>1, <3>2
  <2>5. TypeOK'
    BY <1>0, <2>1, <2>2, <2>3, <2>4 DEF TypeOK, FramesTyped, TasksTyped, ExitsTyped, exitVars
  <2> QED
    BY <2>1, <2>2, <2>3, <2>5 DEF Scheduled, SnapshotKept, ParentFramesKept, Alone, InCall
<1>4. CASE CloneRestart
  <2>1. /\ mode[Parent] \in InCall /\ frames' = call.saved
        /\ call' = [call EXCEPT !.saved = frames', !.count = @ + 1]
        /\ UNCHANGED <<expects, running, mode, kind, shares, exitVars>>
    BY <1>4 DEF CloneRestart, InKernel, Restored, InCall, forkVars
  <2>2. frames' \in Frames /\ frames'.program = expects[Parent] /\ frames'.call[1] = Parent
    BY <1>0, <2>1 DEF SnapshotKept
  <2>3. CallTyped' /\ call'.saved = frames'
    <3>1. call.count + 1 \in Nat
      BY <1>b DEF Calls
    <3>2. call'.saved = frames' /\ call' \in Calls(frames')
      BY <1>b, <2>1, <3>1 DEF Calls
    <3> QED
      BY <3>2 DEF CallTyped
  <2>4. TypeOK'
    BY <1>0, <2>1, <2>2, <2>3 DEF TypeOK, FramesTyped, TasksTyped, ExitsTyped, exitVars
  <2> QED
    BY <1>0, <2>1, <2>2, <2>3, <2>4 DEF Scheduled, SnapshotKept, ParentFramesKept, InCall
<1>5. CASE Return
  <2>1. /\ mode[Parent] = "return" /\ running = Parent /\ mode' = [mode EXCEPT ![Parent] = "user"]
        /\ frames' = [frames EXCEPT !.program.result = "parent"]
        /\ expects' = [expects EXCEPT ![Parent].result = "parent"]
        /\ call' = NotCalled
        /\ UNCHANGED <<running, kind, shares, exitVars>>
    BY <1>5 DEF Return, InKernel, Become, forkVars
  <2>2. [frames.program EXCEPT !.result = "parent"] \in Program
    BY <1>a DEF Program
  <2>3. frames' \in Frames /\ frames'.program = [frames.program EXCEPT !.result = "parent"]
    BY <1>a, <2>1, <2>2 DEF Frames
  <2>4. frames.program = expects[Parent]
    BY <1>0, <2>1 DEF ParentFramesKept
  <2>5. expects' \in [Tasks -> Program] /\ expects'[Parent] = frames'.program
    BY <1>a, <2>1, <2>2, <2>3, <2>4
  <2>6. mode' \in [Tasks -> Modes] /\ mode'[Parent] = "user"
    BY <1>a, <1>b, <2>1 DEF Modes
  <2>7. CallTyped'
    BY <2>1 DEF CallTyped, NotCalled, Calls, Names, Errors
  <2>8. TypeOK'
    BY <1>0, <2>1, <2>3, <2>5, <2>6, <2>7 DEF TypeOK, FramesTyped, TasksTyped, ExitsTyped, exitVars
  <2> QED
    BY <2>1, <2>5, <2>6, <2>8 DEF Scheduled, SnapshotKept, ParentFramesKept, Alone, InCall
<1>6. ASSUME NEW pid \in Children \cup {NoChild}, NEW nohang \in BOOLEAN, Waitpid(pid, nohang)
      PROVE  ParentInv'
  <2>1. /\ mode[Parent] = "user" /\ running = Parent
        /\ mode' = [mode EXCEPT ![Parent] = IF pending THEN "drive" ELSE "wait4"]
        /\ frames' = Laid(Parent, "waitpid")
        /\ call' = [NotCalled EXCEPT !.name = "waitpid", !.saved = frames', !.pid = pid, !.nohang = nohang]
        /\ UNCHANGED <<expects, running, kind, shares, exitVars>>
    BY <1>6 DEF Waitpid, InUser, Become, forkVars
  <2>2. frames' \in Frames /\ frames'.program = expects[Parent] /\ frames'.call[1] = Parent
    BY <1>0, <1>a, <2>1, LaidFrames DEF ParentFramesKept, Layers, Names
  <2>3. CallTyped' /\ call'.saved = frames'
    BY <2>1 DEF CallTyped, Calls, NotCalled, Names, Errors
  <2>4. mode' \in [Tasks -> Modes] /\ mode'[Parent] \in {"drive", "wait4"}
    BY <1>a, <1>b, <2>1 DEF Modes
  <2>5. TypeOK'
    BY <1>0, <2>1, <2>2, <2>3, <2>4 DEF TypeOK, FramesTyped, TasksTyped, ExitsTyped, exitVars
  <2> QED
    BY <2>1, <2>2, <2>3, <2>4, <2>5
    DEF Scheduled, SnapshotKept, ParentFramesKept, Alone, InCall
<1>7. CASE DriveReturn
  <2>1. /\ mode[Parent] = "drive" /\ running = Parent
        /\ call' = [call EXCEPT !.count = @ + 1]
        /\ \/ frames' = frames /\ mode' = mode
           \/ frames' = call.saved /\ mode' = [mode EXCEPT ![Parent] = "wait4"]
        /\ UNCHANGED <<expects, running, kind, shares, exitVars>>
    BY <1>7 DEF DriveReturn, InKernel, Become, Restored, forkVars
  <2>2. call.saved \in Frames /\ call.saved.program = expects[Parent] /\ call.saved.call[1] = Parent
    BY <1>0, <2>1 DEF SnapshotKept, InCall
  <2>3. CallTyped' /\ call'.saved = call.saved
    BY <1>b, <2>1 DEF CallTyped, Calls
  <2>4. frames' \in Frames /\ mode' \in [Tasks -> Modes] /\ mode'[Parent] \in {"drive", "wait4"}
    BY <1>a, <1>b, <2>1, <2>2 DEF Modes
  <2>5. TypeOK'
    BY <1>0, <2>1, <2>3, <2>4 DEF TypeOK, FramesTyped, TasksTyped, ExitsTyped, exitVars
  <2> QED
    BY <2>1, <2>2, <2>3, <2>4, <2>5
    DEF Scheduled, SnapshotKept, ParentFramesKept, Alone, InCall
<1> QED
  BY <1>1, <1>2, <1>3, <1>4, <1>5, <1>6, <1>7 DEF ParentCallStep

\* Task switches, and steps of a child in its program or in the kernel.
OtherStep ==
  \/ \E t \in Tasks : SwitchTo(t) \/ Store(t)
  \/ \E c \in Children : FirstRun(c) \/ ChildStep(c)

\* What a child changes is neither what its parent must find nor its snapshot.
ChildChange(c) ==
  /\ running = c /\ frames' \in Frames
  /\ expects' \in [Tasks -> Program] /\ expects'[Parent] = expects[Parent]
  /\ mode' \in [Tasks -> Modes] /\ mode'[Parent] = mode[Parent]
  /\ shares' \subseteq Children /\ ExitsTyped'
  /\ UNCHANGED <<running, kind, call>>

\* Every step of a child is such a change.
LEMMA ChildChanges ==
  ASSUME ParentInv, NEW c \in Children, ChildStep(c)
  PROVE  ChildChange(c)
<1>0. TypeOK /\ c \in Tasks /\ c # Parent /\ Parent \in Tasks
  BY TasksDiffer DEF ParentInv, Tasks
<1>a. frames \in Frames /\ expects \in [Tasks -> Program] /\ mode \in [Tasks -> Modes]
      /\ shares \subseteq Children /\ ExitsTyped
  BY <1>0 DEF TypeOK, FramesTyped, TasksTyped
<1>b. \A name \in Layers : Laid(c, name) \in Frames
  BY <1>0, <1>a, LaidFrames
<1>c. ASSUME NEW m \in Modes, Become(c, m)
      PROVE  mode' \in [Tasks -> Modes] /\ mode'[Parent] = mode[Parent]
  BY <1>0, <1>a, <1>c DEF Become
<1>d. ASSUME Leave(c)
      PROVE  /\ expects' \in [Tasks -> Program] /\ expects'[Parent] = expects[Parent]
             /\ shares' \subseteq Children
  <2>1. Unset \in Program
    BY <1>0 DEF Unset, Program
  <2> QED
    BY <1>0, <1>a, <1>d, <2>1 DEF Leave
<1>1. CASE ChildReturn(c)
  <2>1. [frames.program EXCEPT !.result = "child"] \in Program
    BY <1>a DEF Frames, Program
  <2>2. frames' \in Frames
    BY <1>1, <1>a, <2>1 DEF ChildReturn, Frames
  <2>3. Become(c, "user") /\ "user" \in Modes
    BY <1>1 DEF ChildReturn, Modes
  <2> QED
    BY <1>1, <1>a, <1>c, <2>2, <2>3 DEF ChildReturn, ChildChange, InKernel, ExitsTyped, exitVars
<1>2. CASE GetPid(c)
  <2>1. frames' = Laid(c, "getpid") /\ "getpid" \in Layers
    BY <1>2 DEF GetPid, Layers
  <2> QED
    BY <1>2, <1>a, <1>b, <2>1 DEF GetPid, ChildChange, InUser, ExitsTyped, forkVars
<1>3. CASE BlockingCall(c) \/ BlockingReturn(c)
  <2>1. frames' \in Frames
    BY <1>3, <1>a, <1>b DEF BlockingCall, BlockingReturn, Layers
  <2>2. mode' \in [Tasks -> Modes] /\ mode'[Parent] = mode[Parent]
    BY <1>3, <1>c DEF BlockingCall, BlockingReturn, Modes
  <2> QED
    BY <1>3, <1>a, <2>1, <2>2
    DEF BlockingCall, BlockingReturn, ChildChange, InUser, InKernel, ExitsTyped, forkVars, exitVars
<1>4. CASE Exec(c)
  <2>1. frames' \in Frames
    BY <1>4, <1>b DEF Exec, Layers
  <2> QED
    BY <1>4, <1>a, <1>d, <2>1 DEF Exec, ChildChange, InUser, ExitsTyped, forkVars, exitVars
<1>5. ASSUME NEW s \in Statuses, Exit(c, s) PROVE ChildChange(c)
  <2>1. frames' \in Frames
    BY <1>5, <1>b DEF Exit, Layers
  <2>2. mode' \in [Tasks -> Modes] /\ mode'[Parent] = mode[Parent]
    BY <1>5, <1>c DEF Exit, Modes
  <2>3. Record(c, s) \in Records
    BY DEF Record, Records
  <2>4. Recorded(c, s) \in Seq(Records)
    BY <1>a, <2>3 DEF Recorded, ExitsTyped
  <2>5. ExitsTyped'
    BY <1>5, <1>a, <2>4 DEF Exit, ExitsTyped
  <2> QED
    BY <1>5, <1>d, <2>1, <2>2, <2>5 DEF Exit, ChildChange, InUser, forkVars
<1> QED
  BY <1>1, <1>2, <1>3, <1>4, <1>5 DEF ChildStep

\* Neither the steps of children nor task switches disturb the snapshot.
LEMMA OtherStepKept ==
  ASSUME ParentInv, OtherStep
  PROVE  ParentInv'
<1>0. TypeOK /\ Scheduled /\ SnapshotKept /\ ParentFramesKept /\ Parent \notin Children
  BY TasksDiffer DEF ParentInv
<1>a. frames \in Frames /\ expects \in [Tasks -> Program] /\ Parent \in Tasks /\ running \in Tasks
      /\ mode \in [Tasks -> Modes] /\ call \in Calls(call.saved) /\ ExitsTyped
  BY <1>0 DEF TypeOK, FramesTyped, TasksTyped, CallTyped, Tasks
<1> USE DEF ParentInv
<1>1. ASSUME NEW t \in Tasks, SwitchTo(t) PROVE ParentInv'
  <2>1. /\ t # running /\ MayLeave(running) /\ running' = t
        /\ UNCHANGED <<frames, expects, mode, kind, shares, call, exitVars>>
    BY <1>1 DEF SwitchTo, forkVars
  <2>2. mode[Parent] \notin Alone
    BY <1>0, <2>1 DEF Scheduled, MayLeave, Blocked, Alone
  <2>3. TypeOK'
    BY <1>0, <2>1 DEF TypeOK, FramesTyped, TasksTyped, CallTyped, ExitsTyped, exitVars
  <2> QED
    BY <1>0, <2>1, <2>2, <2>3 DEF Scheduled, SnapshotKept, ParentFramesKept, Alone
<1>2. ASSUME NEW c \in Children, FirstRun(c) PROVE ParentInv'
  <2>1. /\ MayLeave(running) /\ running' = c /\ mode' = [mode EXCEPT ![c] = "started"]
        /\ UNCHANGED <<frames, expects, kind, shares, call, exitVars>>
    BY <1>2 DEF FirstRun, Become
  <2>2. c \in Tasks /\ c # Parent
    BY <1>0 DEF Tasks
  <2>3. mode' \in [Tasks -> Modes] /\ mode'[Parent] = mode[Parent]
    BY <1>a, <2>1, <2>2 DEF Modes
  <2>4. mode[Parent] \notin Alone
    BY <1>0, <2>1 DEF Scheduled, MayLeave, Blocked, Alone
  <2>5. TypeOK'
    BY <1>0, <2>1, <2>2, <2>3 DEF TypeOK, FramesTyped, TasksTyped, CallTyped, ExitsTyped, exitVars
  <2> QED
    BY <1>0, <2>1, <2>3, <2>4, <2>5 DEF Scheduled, SnapshotKept, ParentFramesKept, Alone
<1>3. ASSUME NEW t \in Tasks, Store(t) PROVE ParentInv'
  <2> DEFINE value == <<t, IF expects[t].locals = <<t, 0>> THEN 1 ELSE 0>>
  <2>1. /\ running = t /\ mode[t] = "user"
        /\ frames' = [frames EXCEPT !.program.locals = value]
        /\ expects' = [expects EXCEPT ![t].locals = value]
        /\ UNCHANGED <<running, mode, kind, shares, call, exitVars>>
    BY <1>3 DEF Store, InUser, forkVars
  <2>2. value \in Tasks \X {0, 1}
    OBVIOUS
  <2> HIDE DEF value
  <2>3. [frames.program EXCEPT !.locals = value] \in Program
        /\ [expects[t] EXCEPT !.locals = value] \in Program
    BY <1>a, <2>2 DEF Frames, Program
  <2>4. frames' \in Frames /\ frames'.program = [frames.program EXCEPT !.locals = value]
    BY <1>a, <2>1, <2>3 DEF Frames
  <2>5. /\ expects' \in [Tasks -> Program]
        /\ expects'[Parent] = IF t = Parent THEN [expects[Parent] EXCEPT !.locals = value]
                              ELSE expects[Parent]
    BY <1>a, <2>1, <2>3
  <2>6. TypeOK'
    BY <1>0, <2>1, <2>4, <2>5 DEF TypeOK, FramesTyped, TasksTyped, CallTyped, ExitsTyped, exitVars
  <2>7. CASE t = Parent
    BY <1>0, <2>1, <2>4, <2>5, <2>6, <2>7 DEF Scheduled, SnapshotKept, ParentFramesKept, InCall
  <2>8. CASE t # Parent
    <3>1. mode[Parent] \notin Alone
      BY <1>0, <2>1, <2>8 DEF Scheduled
    <3> QED
      BY <1>0, <2>1, <2>5, <2>6, <2>8, <3>1 DEF Scheduled, SnapshotKept, ParentFramesKept, Alone
  <2> QED
    BY <2>7, <2>8
<1>4. ASSUME NEW c \in Children, ChildStep(c) PROVE ParentInv'
  <2>1. ChildChange(c) /\ c # Parent
    BY <1>0, <1>4, ChildChanges
  <2>2. mode[Parent] \notin Alone
    BY <1>0, <2>1 DEF Scheduled, ChildChange
  <2>3. TypeOK'
    BY <1>0, <2>1 DEF ChildChange, TypeOK, FramesTyped, TasksTyped, CallTyped
  <2> QED
    BY <1>0, <2>1, <2>2, <2>3 DEF ChildChange, Scheduled, SnapshotKept, ParentFramesKept, Alone
<1> QED
  BY <1>1, <1>2, <1>3, <1>4 DEF OtherStep

\* Every step is of one of the three kinds.
LEMMA StepKinds == Next => AnswerStep \/ ParentCallStep \/ OtherStep
  BY DEF Next, ParentStep, AnswerStep, ParentCallStep, OtherStep

\* The invariant of the frames is inductive.
LEMMA NextParent == ParentInv /\ [Next]_vars => ParentInv'
<1> SUFFICES ASSUME ParentInv, [Next]_vars PROVE ParentInv'
  OBVIOUS
<1>1. CASE Next
  BY <1>1, StepKinds, AnswerStepKept, ParentCallStepKept, OtherStepKept
<1>2. CASE UNCHANGED vars
  BY <1>2
  DEF vars, forkVars, exitVars, ParentInv, TypeOK, FramesTyped, TasksTyped, CallTyped, ExitsTyped,
      Scheduled, SnapshotKept, ParentFramesKept
<1> QED
  BY <1>1, <1>2

\* Every variable keeps its type, and a call in progress has saved frames.
THEOREM TypeCorrect == Spec => []TypeOK
<1>1. ParentInv => TypeOK
  BY DEF ParentInv
<1> QED
  BY <1>1, InitParent, NextParent, PTL DEF Spec

\* A parent whose fork, vfork or waitpid is over finds its frames as it left
\* them, whatever its children have done on them: for any number of children.
THEOREM ParentFramesKeptHolds == Spec => []ParentFramesKept
<1>1. ParentInv => ParentFramesKept
  BY DEF ParentInv
<1> QED
  BY <1>1, InitParent, NextParent, PTL DEF Spec

-----------------------------------------------------------------------------
(* Exits.                                                                  *)

\* A record is of an exit that has happened, and says with which status.
RecordsTrue ==
  \A i \in 1..Len(exits) : /\ exits[i].pid = exits[i].task
                           /\ Exited(exits[i].task)
                           /\ status[exits[i].task] = exits[i].status

\* The exit of a task whose pid is known has been reported or is on record.
ExitsKept ==
  \A c \in known : Exited(c) => \/ c \in reported
                               \/ \E i \in 1..Len(exits) : exits[i].task = c

\* Only fork and vfork are in clone.
CallNamed == mode[Parent] \in {"clone", "cloned"} => call.name # "waitpid"

ExitsInv == ParentInv /\ RecordsTrue /\ ExitsKept /\ CallNamed

\* Nobody has exited in the initial state.
LEMMA InitExits == Init => ExitsInv
<1> SUFFICES ASSUME Init PROVE ExitsInv
  OBVIOUS
<1>1. mode[Parent] = "user" /\ exits = << >> /\ known = {}
  BY DEF Init, Tasks
<1> QED
  BY <1>1, InitParent DEF ExitsInv, RecordsTrue, ExitsKept, CallNamed

\* The types of a record and its parts.
LEMMA RecordFields ==
  ASSUME ExitsTyped, NEW i \in 1..Len(exits)
  PROVE  exits[i] \in Records /\ exits[i].task \in Children /\ exits[i].pid \in Children
<1>1. exits[i] \in Records
  BY ElementOfSeq DEF ExitsTyped
<1> QED
  BY <1>1 DEF Records

\* What a step that neither reports nor records an exit leaves as it was.
ExitsUndisturbed ==
  /\ UNCHANGED <<exits, status, reported>>
  /\ \A c \in Children : Exited(c)' <=> Exited(c)
  /\ \A c \in known' \ known : ~Exited(c)

\* Until a waitpid ends, the parent leaves the exits alone.
LEMMA ParentCallExits ==
  ASSUME ExitsInv, ParentCallStep
  PROVE  /\ ExitsUndisturbed /\ UNCHANGED known
         /\ CallNamed'
         /\ mode'[Parent] = "return" => call'.name # "waitpid"
<1>0. /\ Parent \notin Children /\ Parent \in Tasks /\ Children \subseteq Tasks
      /\ mode \in [Tasks -> Modes] /\ call \in Calls(call.saved)
  BY TasksDiffer DEF ExitsInv, ParentInv, TypeOK, TasksTyped, CallTyped, Tasks
<1>1. UNCHANGED <<exits, status, reported, known>>
  BY DEF ParentCallStep, Fork, CloneCreate, CloneReturn, CloneRestart, CloneFail, Return, Waitpid,
         DriveReturn, exitVars
<1>2. \A c \in Children : Exited(c)' <=> Exited(c)
  <2>1. CASE \E c \in Children : CloneCreate(c)
    BY <1>0, <2>1 DEF CloneCreate, Exited
  <2>2. CASE mode' = mode \/ \E m \in Modes : mode' = [mode EXCEPT ![Parent] = m]
    BY <1>0, <2>2 DEF Exited
  <2> QED
    BY <2>1, <2>2 DEF ParentCallStep, Fork, CloneReturn, CloneRestart, CloneFail, Return, Waitpid,
         DriveReturn, Become, Modes
<1>3. CallNamed' /\ (mode'[Parent] = "return" => call'.name # "waitpid")
  <2>1. ASSUME NEW k \in {"fork", "vfork"}, Fork(k) PROVE call'.name = k
    BY <2>1 DEF Fork, NotCalled
  <2>2. ASSUME NEW c \in Children, CloneCreate(c) PROVE call'.name # "waitpid"
    BY <1>0, <2>2 DEF CloneCreate, InKernel, Calls, ExitsInv, CallNamed
  <2>3. CASE CloneReturn \/ CloneRestart \/ CloneFail
    BY <1>0, <2>3 DEF CloneReturn, CloneRestart, CloneFail, InKernel, Calls, ExitsInv, CallNamed
  <2>4. ASSUME \/ Return
               \/ \E pid \in Children \cup {NoChild}, nohang \in BOOLEAN : Waitpid(pid, nohang)
               \/ DriveReturn
        PROVE  mode'[Parent] \in {"user", "drive", "wait4"}
    BY <1>0, <2>4 DEF Return, Waitpid, DriveReturn, InKernel, Become
  <2> QED
    BY <2>1, <2>2, <2>3, <2>4 DEF ParentCallStep, CallNamed
<1> QED
  BY <1>1, <1>2, <1>3 DEF ExitsUndisturbed

\* The exit of a child: it is recorded if its pid is known.
ExitStep == \E c \in Children, s \in Statuses : Exit(c, s)

\* What is not an exit leaves the exits alone.
LEMMA OtherStepExits ==
  ASSUME ExitsInv, OtherStep, ~ExitStep
  PROVE  ExitsUndisturbed /\ mode'[Parent] = mode[Parent] /\ UNCHANGED call
<1>0. /\ Parent \notin Children /\ Parent \in Tasks /\ Children \subseteq Tasks
      /\ mode \in [Tasks -> Modes]
  BY TasksDiffer DEF ExitsInv, ParentInv, TypeOK, TasksTyped, Tasks
<1>1. ASSUME NEW t \in Tasks, SwitchTo(t) \/ Store(t)
      PROVE  ExitsUndisturbed /\ mode'[Parent] = mode[Parent] /\ UNCHANGED call
  BY <1>1 DEF SwitchTo, Store, ExitsUndisturbed, Exited, exitVars
<1>2. ASSUME NEW c \in Children, GetPid(c)
      PROVE  ExitsUndisturbed /\ mode'[Parent] = mode[Parent] /\ UNCHANGED call
  BY <1>2 DEF GetPid, InUser, ExitsUndisturbed, Exited
<1>3. ASSUME NEW c \in Children, Exec(c)
      PROVE  ExitsUndisturbed /\ mode'[Parent] = mode[Parent] /\ UNCHANGED call
  BY <1>3 DEF Exec, ExitsUndisturbed, Exited, exitVars
<1>4. ASSUME NEW c \in Children, FirstRun(c) \/ ChildReturn(c) \/ BlockingCall(c) \/ BlockingReturn(c)
      PROVE  ExitsUndisturbed /\ mode'[Parent] = mode[Parent] /\ UNCHANGED call
  <2>1. /\ mode[c] \in {"new", "started", "user", "sys"}
        /\ \E m \in {"started", "user", "sys"} : mode' = [mode EXCEPT ![c] = m]
        /\ UNCHANGED <<known, exits, status, reported, call>>
    BY <1>4 DEF FirstRun, ChildReturn, BlockingCall, BlockingReturn, InUser, InKernel, Become, exitVars
  <2>2. PICK m \in {"started", "user", "sys"} : mode' = [mode EXCEPT ![c] = m]
    BY <2>1
  <2>3. \A d \in Children : mode'[d] = IF d = c THEN m ELSE mode[d]
    BY <1>0, <2>2
  <2>4. mode'[Parent] = mode[Parent]
    BY <1>0, <2>2
  <2> QED
    BY <2>1, <2>3, <2>4 DEF ExitsUndisturbed, Exited
<1> QED
  BY <1>1, <1>2, <1>3, <1>4 DEF OtherStep, ChildStep, ExitStep

\* Steps that leave the exits alone keep the two invariants of them.
LEMMA UndisturbedExits ==
  ASSUME ExitsInv, ExitsUndisturbed, known' \subseteq Children
  PROVE  RecordsTrue' /\ ExitsKept'
<1>1. \A i \in 1..Len(exits) : exits[i].task \in Children
  BY RecordFields DEF ExitsInv, ParentInv, TypeOK
<1>2. RecordsTrue'
  BY <1>1 DEF ExitsInv, RecordsTrue, ExitsUndisturbed
<1>3. ASSUME NEW c \in known', Exited(c)'
      PROVE  c \in reported' \/ \E i \in 1..Len(exits') : exits'[i].task = c
  BY <1>3 DEF ExitsInv, ExitsKept, ExitsUndisturbed
<1> QED
  BY <1>2, <1>3 DEF ExitsKept

\* An exit of a task whose pid is known goes on record, with its status.
LEMMA ExitStepKept ==
  ASSUME ExitsInv, NEW c \in Children, NEW s \in Statuses, Exit(c, s)
  PROVE  RecordsTrue' /\ ExitsKept' /\ mode'[Parent] = mode[Parent] /\ UNCHANGED call
<1>0. /\ Parent \notin Children /\ Parent \in Tasks /\ Children \subseteq Tasks
      /\ mode \in [Tasks -> Modes] /\ status \in [Children -> Statuses \cup {0}]
      /\ exits \in Seq(Records) /\ known \subseteq Children
  BY TasksDiffer DEF ExitsInv, ParentInv, TypeOK, TasksTyped, ExitsTyped, Tasks
<1>1. /\ mode[c] = "user" /\ exits' = Recorded(c, s) /\ status' = [status EXCEPT ![c] = s]
      /\ \E m \in {"zombie", "gone"} : mode' = [mode EXCEPT ![c] = m]
      /\ UNCHANGED <<known, reported, call>>
  BY DEF Exit, InUser, Become
<1>2. /\ mode'[Parent] = mode[Parent]
      /\ \A d \in Children : d # c => mode'[d] = mode[d] /\ status'[d] = status[d]
      /\ mode'[c] \in {"zombie", "gone"} /\ status'[c] = s
  BY <1>0, <1>1
<1>3. ASSUME NEW i \in 1..Len(exits)
      PROVE  exits[i].task \in Children /\ exits[i].task # c
  <2>1. exits[i].task \in Children
    BY RecordFields DEF ExitsInv, ParentInv, TypeOK
  <2>2. mode[exits[i].task] \in {"zombie", "gone"}
    BY DEF ExitsInv, RecordsTrue, Exited
  <2> QED
    BY <1>1, <2>1, <2>2
<1>4. CASE c \in known
  <2>1. exits' = Append(exits, Record(c, s))
    BY <1>1, <1>3, <1>4, LenProperties, <1>0 DEF Recorded
  <2>2. /\ Len(exits') = Len(exits) + 1 /\ Len(exits) \in Nat
        /\ \A i \in 1..Len(exits) : exits'[i] = exits[i]
        /\ exits'[Len(exits) + 1] = Record(c, s)
    BY <1>0, <2>1
  <2>3. RecordsTrue'
    <3>1. ASSUME NEW i \in 1..Len(exits') PROVE i \in 1..Len(exits) \/ i = Len(exits) + 1
      BY <2>2
    <3>2. ASSUME NEW i \in 1..Len(exits)
          PROVE  /\ exits'[i].pid = exits'[i].task
                 /\ mode'[exits'[i].task] \in {"zombie", "gone"}
                 /\ status'[exits'[i].task] = exits'[i].status
      BY <1>2, <1>3, <2>2 DEF ExitsInv, RecordsTrue, Exited
    <3>3. LET r == exits'[Len(exits) + 1]
          IN r.pid = r.task /\ mode'[r.task] \in {"zombie", "gone"} /\ status'[r.task] = r.status
      BY <1>2, <2>2 DEF Record
    <3> QED
      BY <3>1, <3>2, <3>3 DEF RecordsTrue, Exited
  <2>4. ExitsKept'
    <3>1. ASSUME NEW d \in known, Exited(d)'
          PROVE  d \in reported \/ \E i \in 1..Len(exits') : exits'[i].task = d
      <4>1. CASE d = c
        <5>1. Len(exits) + 1 \in 1..Len(exits') /\ exits'[Len(exits) + 1].task = c
          BY <2>2 DEF Record
        <5> QED
          BY <4>1, <5>1
      <4>2. CASE d # c
        <5>1. Exited(d)
          BY <1>0, <1>2, <3>1, <4>2 DEF Exited
        <5>2. d \in reported \/ \E i \in 1..Len(exits) : exits[i].task = d
          BY <5>1 DEF ExitsInv, ExitsKept
        <5> QED
          BY <2>2, <5>2
      <4> QED
        BY <4>1, <4>2
    <3> QED
      BY <1>1, <3>1 DEF ExitsKept
  <2> QED
    BY <1>1, <1>2, <2>3, <2>4
<1>5. CASE c \notin known
  <2>1. exits' = exits
    BY <1>1, <1>5 DEF Recorded
  <2>2. RecordsTrue'
    BY <1>2, <1>3, <2>1 DEF ExitsInv, RecordsTrue, Exited
  <2>3. ExitsKept'
    BY <1>0, <1>1, <1>2, <1>5, <2>1 DEF ExitsInv, ExitsKept, Exited
  <2> QED
    BY <1>1, <1>2, <2>2, <2>3
<1> QED
  BY <1>4, <1>5

\* What waitpid answers: the child and the status of its exit, or an error
\* when no record fits.
AnswerTruthful ==
  /\ call'.pid # NoChild => /\ call.pid \in {NoChild, call'.pid}
                            /\ Exited(call'.pid) /\ call'.status = status[call'.pid]
  /\ Wait4Fails /\ call'.error # "none" =>
       \A i \in 1..Len(exits) : ~Fits(exits[i], call.pid)

\* A waitpid ends: a record is taken out only if it is reported.
LEMMA AnswerStepExits ==
  ASSUME ExitsInv, AnswerStep
  PROVE  /\ RecordsTrue' /\ ExitsKept' /\ CallNamed'
         /\ AnswerTruthful
<1>0. /\ Parent \notin Children /\ Parent \in Tasks /\ Children \subseteq Tasks /\ NoChild \notin Children
      /\ mode \in [Tasks -> Modes] /\ status \in [Children -> Statuses \cup {0}]
      /\ exits \in Seq(Records) /\ known \subseteq Children
      /\ call \in Calls(call.saved) /\ ExitsTyped
  BY TasksDiffer DEF ExitsInv, ParentInv, TypeOK, TasksTyped, CallTyped, ExitsTyped, Tasks
<1>1. \A i \in 1..Len(exits) : exits[i].task \in Children /\ exits[i].pid \in Children
  BY <1>0, RecordFields
<1>a. ASSUME NEW pid, NEW s, NEW e, Answer(pid, s, e)
      PROVE  /\ call'.pid = pid /\ call'.status = s /\ call'.error = e
             /\ reported' = IF pid = NoChild THEN reported ELSE reported \cup {pid}
  BY <1>0, <1>a DEF Answer, Calls
<1>2. ASSUME NEW c \in Children, Wait4Reaps(c)
      PROVE  RecordsTrue' /\ ExitsKept' /\ CallNamed' /\ AnswerTruthful
  <2>1. /\ running = Parent /\ mode[Parent] = "wait4" /\ mode[c] = "zombie" /\ call.pid \in {c, NoChild}
        /\ mode' = [mode EXCEPT ![Parent] = "return", ![c] = "gone"]
        /\ Answer(c, status[c], "none")
        /\ UNCHANGED <<known, exits, status>>
    BY <1>2 DEF Wait4Reaps, InKernel, Zombies, Children4
  <2>2. mode'[Parent] = "return" /\ \A d \in Children : Exited(d)' <=> Exited(d)
    BY <1>0, <2>1 DEF Exited
  <2>3. call'.pid = c /\ call'.status = status[c] /\ call'.error = "none" /\ reported' = reported \cup {c}
    BY <1>0, <1>a, <2>1
  <2>4. RecordsTrue'
    BY <1>1, <2>1, <2>2 DEF ExitsInv, RecordsTrue
  <2>5. ExitsKept'
    BY <1>0, <2>1, <2>2, <2>3 DEF ExitsInv, ExitsKept
  <2>6. CallNamed'
    BY <2>2 DEF CallNamed
  <2>7. AnswerTruthful
    BY <1>0, <2>1, <2>2, <2>3 DEF AnswerTruthful, Exited
  <2> QED
    BY <2>4, <2>5, <2>6, <2>7
<1>b. ASSUME Become(Parent, "return"), UNCHANGED <<known, status>>
      PROVE  CallNamed' /\ \A d \in Children : Exited(d)' <=> Exited(d)
  BY <1>0, <1>b DEF Become, Exited, CallNamed
<1>3. CASE Wait4FindsNone
  <2>1. /\ Become(Parent, "return") /\ Answer(NoChild, 0, "none")
        /\ UNCHANGED <<known, exits, status>>
    BY <1>3 DEF Wait4FindsNone
  <2>2. call'.pid = NoChild /\ call'.error = "none" /\ reported' = reported
    BY <1>a, <2>1
  <2>3. RecordsTrue' /\ ExitsKept'
    BY <1>0, <1>1, <1>b, <2>1, <2>2 DEF ExitsInv, RecordsTrue, ExitsKept
  <2> QED
    BY <1>b, <2>1, <2>2, <2>3 DEF AnswerTruthful
<1>4. CASE Wait4Fails
  <2>1. PICK error \in ReplayedErrors : Replay(error)
    BY <1>4 DEF Wait4Fails, ReplayedErrors
  <2>2. Become(Parent, "return") /\ UNCHANGED <<known, status>>
    BY <1>4 DEF Wait4Fails
  <2>3. CASE /\ Answer(NoChild, 0, error) /\ UNCHANGED exits
             /\ \A i \in 1..Len(exits) : ~Fits(exits[i], call.pid)
    <3>1. call'.pid = NoChild /\ reported' = reported
      BY <1>a, <2>3
    <3>2. RecordsTrue' /\ ExitsKept'
      BY <1>0, <1>1, <1>b, <2>2, <2>3, <3>1 DEF ExitsInv, RecordsTrue, ExitsKept
    <3> QED
      BY <1>b, <2>2, <2>3, <3>1, <3>2 DEF AnswerTruthful
  <2>4. ASSUME NEW i \in 1..Len(exits), Fits(exits[i], call.pid),
               Answer(exits[i].pid, exits[i].status, "none"), exits' = RemoveAt(exits, i)
        PROVE  RecordsTrue' /\ ExitsKept' /\ CallNamed' /\ AnswerTruthful
    <3>1. /\ call'.pid = exits[i].pid /\ call'.status = exits[i].status /\ call'.error = "none"
          /\ reported' = reported \cup {exits[i].pid}
      BY <1>0, <1>1, <1>a, <2>4
    <3>2. /\ \A j \in 1..Len(exits') : \E k \in 1..Len(exits) : exits'[j] = exits[k]
          /\ \A k \in 1..Len(exits) : k # i => \E j \in 1..Len(exits') : exits'[j] = exits[k]
      <4>1. exits \in Seq(Records)
        BY <1>0
      <4> HIDE <1>0
      <4> QED
        BY <2>4, <4>1, RemoveAtKeeps
    <3>3. exits[i].pid = exits[i].task /\ Exited(exits[i].task) /\ status[exits[i].task] = exits[i].status
      BY DEF ExitsInv, RecordsTrue
    <3>4. RecordsTrue'
      <4>1. ASSUME NEW j \in 1..Len(exits')
            PROVE  /\ exits'[j].pid = exits'[j].task /\ mode'[exits'[j].task] \in {"zombie", "gone"}
                   /\ status'[exits'[j].task] = exits'[j].status
        <5>1. PICK k \in 1..Len(exits) : exits'[j] = exits[k]
          BY <3>2
        <5>2. /\ exits[k].pid = exits[k].task /\ Exited(exits[k].task)
              /\ status[exits[k].task] = exits[k].status /\ exits[k].task \in Children
          BY <1>1 DEF ExitsInv, RecordsTrue
        <5>3. mode'[exits[k].task] \in {"zombie", "gone"}
          BY <1>b, <2>2, <5>2 DEF Exited
        <5> QED
          BY <2>2, <5>1, <5>2, <5>3
      <4> QED
        BY <4>1 DEF RecordsTrue, Exited
    <3>5. ExitsKept'
      <4>1. ASSUME NEW d \in known, Exited(d)'
            PROVE  d \in reported' \/ \E j \in 1..Len(exits') : exits'[j].task = d
        <5>1. d \in reported \/ \E k \in 1..Len(exits) : exits[k].task = d
          BY <1>0, <1>b, <2>2, <4>1 DEF ExitsInv, ExitsKept
        <5> QED
          BY <3>1, <3>2, <3>3, <5>1
      <4> QED
        BY <2>2, <4>1 DEF ExitsKept
    <3>6. AnswerTruthful
      BY <1>0, <1>1, <1>b, <2>2, <2>4, <3>1, <3>3 DEF AnswerTruthful, Fits
    <3> QED
      BY <1>b, <2>2, <3>4, <3>5, <3>6
  <2> QED
    BY <1>0, <2>1, <2>3, <2>4, ReplayChoices
<1> QED
  BY <1>2, <1>3, <1>4 DEF AnswerStep

\* The invariant of the exits is inductive.
LEMMA NextExits == ExitsInv /\ [Next]_vars => ExitsInv'
<1> SUFFICES ASSUME ExitsInv, [Next]_vars PROVE ExitsInv'
  OBVIOUS
<1>1. ParentInv'
  BY NextParent DEF ExitsInv
<1>2. known' \subseteq Children
  BY <1>1 DEF ParentInv, TypeOK, ExitsTyped
<1>3. CASE AnswerStep
  BY <1>1, <1>3, AnswerStepExits DEF ExitsInv
<1>4. CASE ParentCallStep
  BY <1>1, <1>2, <1>4, ParentCallExits, UndisturbedExits DEF ExitsInv
<1>5. CASE OtherStep /\ ~ExitStep
  <2>1. ExitsUndisturbed /\ mode'[Parent] = mode[Parent] /\ UNCHANGED call
    BY <1>5, OtherStepExits
  <2> QED
    BY <1>1, <1>2, <2>1, UndisturbedExits DEF ExitsInv, CallNamed
<1>6. CASE ExitStep
  <2>1. RecordsTrue' /\ ExitsKept' /\ mode'[Parent] = mode[Parent] /\ UNCHANGED call
    BY <1>6, ExitStepKept DEF ExitStep
  <2> QED
    BY <1>1, <2>1 DEF ExitsInv, CallNamed
<1>7. CASE UNCHANGED vars
  BY <1>1, <1>7 DEF vars, exitVars, ExitsInv, RecordsTrue, ExitsKept, CallNamed, Exited
<1> QED
  BY <1>3, <1>4, <1>5, <1>6, <1>7, StepKinds

\* Only an answer ends a waitpid.
LEMMA WaitpidEnds ==
  ASSUME ExitsInv, [Next]_vars, AfterWaitpid', ~AfterWaitpid
  PROVE  AnswerStep
<1>1. CASE ParentCallStep
  BY <1>1, ParentCallExits DEF AfterWaitpid
<1>2. CASE OtherStep /\ ~ExitStep
  BY <1>2, OtherStepExits DEF AfterWaitpid
<1>3. CASE ExitStep
  BY <1>3, ExitStepKept DEF ExitStep, AfterWaitpid
<1>4. CASE UNCHANGED vars
  BY <1>4 DEF vars, AfterWaitpid
<1> QED
  BY <1>1, <1>2, <1>3, <1>4, StepKinds

\* A child that waitpid returns is one it was called for, has exited, and had
\* the status that is returned.
THEOREM WaitTruthfulHolds == Spec => WaitTruthful
<1>1. ASSUME ExitsInv, [Next]_vars
      PROVE  [AfterWaitpid' /\ ~AfterWaitpid /\ call'.pid # NoChild =>
                /\ call.pid \in {NoChild, call'.pid}
                /\ Exited(call'.pid) /\ call'.status = status[call'.pid]]_vars
  BY <1>1, WaitpidEnds, AnswerStepExits DEF AnswerTruthful
<1> QED
  BY <1>1, InitExits, NextExits, PTL DEF Spec, WaitTruthful

\* When waitpid fails, every exit it could have returned and that was recorded
\* has been reported: the record of an exit stays until a waitpid takes it.
THEOREM NoExitLostHolds == Spec => NoExitLost
<1>1. ASSUME ExitsInv, [Next]_vars
      PROVE  [Wait4Fails /\ call'.error # "none" =>
                \A c \in known : Exited(c) /\ call.pid \in {c, NoChild} => c \in reported]_vars
  <2> SUFFICES ASSUME Wait4Fails, call'.error # "none",
                      NEW c \in known, Exited(c), call.pid \in {c, NoChild}
               PROVE  c \in reported
    BY <1>1
  <2>1. \A i \in 1..Len(exits) : call.pid \notin {exits[i].pid, NoChild}
    BY <1>1, AnswerStepExits DEF AnswerStep, AnswerTruthful, Fits
  <2>2. \A i \in 1..Len(exits) : exits[i].pid = exits[i].task
    BY <1>1 DEF ExitsInv, RecordsTrue
  <2>3. c \in reported \/ \E i \in 1..Len(exits) : exits[i].task = c
    BY <1>1 DEF ExitsInv, ExitsKept
  <2> QED
    BY <2>1, <2>2, <2>3
<1> QED
  BY <1>1, InitExits, NextExits, PTL DEF Spec, NoExitLost

-----------------------------------------------------------------------------
(* The child of vfork.                                                     *)

\* A child shares the frames from its creation until it leaves them.
Sharing == /\ \A c \in shares : mode[c] \in {"new", "started", "user", "sys"}
           /\ \A c \in Children : mode[c] \in {"new", "started"} => c \in shares

\* The parent is held in the kernel while a child of vfork shares its frames.
Held == \A c \in shares : kind[c].name = "vfork" =>
          mode[Parent] = "cloned" /\ call.name = "vfork" /\ call.pid = c

\* A child of vfork that was alone on the frames stays alone, and they are what
\* it must find, but for the result of vfork before it has returned.
OwnFrames ==
  \A c \in shares : kind[c] = [name |-> "vfork", alone |-> TRUE] =>
    /\ shares = {c}
    /\ expects[c] = IF mode[c] \in {"new", "started"}
                    THEN [frames.program EXCEPT !.result = "child"] ELSE frames.program

VforkInv == ParentInv /\ Sharing /\ Held /\ OwnFrames

\* No child shares the frames in the initial state.
LEMMA InitVfork == Init => VforkInv
<1> SUFFICES ASSUME Init PROVE VforkInv
  OBVIOUS
<1>1. shares = {} /\ \A c \in Children : mode[c] = "none"
  BY TasksDiffer DEF Init, Tasks
<1> QED
  BY <1>1, InitParent DEF VforkInv, Sharing, Held, OwnFrames

\* The types, and when no child of vfork can be on the frames.
LEMMA VforkFacts ==
  ASSUME VforkInv
  PROVE  /\ Parent \notin Children /\ Parent \in Tasks /\ Children \subseteq Tasks
         /\ frames \in Frames /\ frames.program \in Program /\ expects \in [Tasks -> Program]
         /\ mode \in [Tasks -> Modes] /\ shares \subseteq Children
         /\ kind \in [Children -> [name : Names, alone : BOOLEAN]]
         /\ call \in Calls(call.saved)
         /\ mode[Parent] # "cloned" => \A c \in shares : kind[c].name # "vfork"
<1>1. TypeOK /\ Held
  BY DEF VforkInv, ParentInv
<1>2. frames.program \in Program
  BY <1>1 DEF TypeOK, FramesTyped, Frames
<1> QED
  BY <1>1, <1>2, TasksDiffer DEF TypeOK, FramesTyped, TasksTyped, CallTyped, Held, Tasks

\* Without a child of vfork on the frames, and no new child, there is nothing to keep.
LEMMA NoVforkKept ==
  ASSUME VforkInv, shares' \subseteq shares, kind' = kind,
         \A c \in shares : kind[c].name # "vfork"
  PROVE  Held' /\ OwnFrames'
<1>1. \A c \in shares' : kind'[c].name # "vfork"
  OBVIOUS
<1> QED
  BY <1>1 DEF Held, OwnFrames

\* The steps of the parent: it is held while a child of vfork has the frames,
\* so only the creation of that child touches what is claimed of it.
LEMMA ParentVfork ==
  ASSUME VforkInv, AnswerStep \/ ParentCallStep
  PROVE  Sharing' /\ Held' /\ OwnFrames'
<1>0. /\ Parent \notin Children /\ Parent \in Tasks /\ Children \subseteq Tasks
      /\ frames.program \in Program /\ expects \in [Tasks -> Program]
      /\ mode \in [Tasks -> Modes] /\ shares \subseteq Children
      /\ kind \in [Children -> [name : Names, alone : BOOLEAN]]
      /\ call \in Calls(call.saved) /\ Sharing /\ Held
  BY VforkFacts DEF VforkInv
<1>1. ASSUME NEW c \in Children, CloneCreate(c) PROVE Sharing' /\ Held' /\ OwnFrames'
  <2>1. /\ mode[Parent] = "clone" /\ mode[c] = "none"
        /\ mode' = [mode EXCEPT ![Parent] = "cloned", ![c] = "new"]
        /\ kind' = [kind EXCEPT ![c] = [name |-> call.name, alone |-> shares = {}]]
        /\ expects' = [expects EXCEPT ![c] = [frames.program EXCEPT !.result = "child"]]
        /\ shares' = shares \cup {c} /\ call' = [call EXCEPT !.pid = c]
        /\ frames' = frames
    BY <1>1 DEF CloneCreate, InKernel
  <2>2. c \notin shares
    BY <1>0, <2>1 DEF Sharing
  <2>3. /\ mode'[Parent] = "cloned" /\ mode'[c] = "new"
        /\ \A d \in Children : d # c => mode'[d] = mode[d] /\ kind'[d] = kind[d]
        /\ kind'[c] = [name |-> call.name, alone |-> shares = {}]
        /\ expects'[c] = [frames.program EXCEPT !.result = "child"]
    BY <1>0, <2>1
  <2>4. call'.name = call.name /\ call'.pid = c
    BY <1>0, <2>1 DEF Calls
  <2>5. \A d \in shares : kind[d].name # "vfork"
    BY <2>1, VforkFacts
  <2>6. Sharing'
    BY <1>0, <2>1, <2>3 DEF Sharing
  <2>7. Held'
    BY <1>0, <2>1, <2>3, <2>4, <2>5 DEF Held
  <2>8. OwnFrames'
    <3>1. ASSUME NEW d \in shares', kind'[d] = [name |-> "vfork", alone |-> TRUE]
          PROVE  d = c /\ shares = {}
      <4>1. CASE d = c
        <5>1. [name |-> call.name, alone |-> shares = {}] = [name |-> "vfork", alone |-> TRUE]
          BY <2>3, <3>1, <4>1
        <5>2. [name |-> call.name, alone |-> shares = {}].alone = [name |-> "vfork", alone |-> TRUE].alone
          BY ONLY <5>1
        <5>3. (shares = {}) = TRUE
          BY ONLY <5>2, Zenon
        <5> QED
          BY <4>1, <5>3
      <4>2. CASE d # c
        <5>1. d \in shares /\ kind[d].name = "vfork"
          BY <1>0, <2>1, <2>3, <3>1, <4>2
        <5> QED
          BY <2>5, <5>1
      <4> QED
        BY <4>1, <4>2
    <3> QED
      BY <2>1, <2>3, <3>1 DEF OwnFrames
  <2> QED
    BY <2>6, <2>7, <2>8
<1>2. CASE CloneReturn
  <2>1. /\ mode[Parent] = "cloned" /\ Released(call.name, call.pid)
        /\ mode' = [mode EXCEPT ![Parent] = "return"] /\ UNCHANGED <<kind, shares>>
    BY <1>2 DEF CloneReturn, InKernel, Become, forkVars
  <2>2. ASSUME NEW c \in shares, kind[c].name = "vfork" PROVE FALSE
    BY <1>0, <2>1, <2>2 DEF Held, Released, Sharing
  <2>3. Sharing'
    BY <1>0, <2>1 DEF Sharing
  <2> QED
    BY <2>1, <2>2, <2>3, NoVforkKept
<1>3. ASSUME AnswerStep \/ Return \/ CloneRestart \/ CloneFail \/ DriveReturn
             \/ (\E k \in {"fork", "vfork"} : Fork(k))
             \/ (\E pid \in Children \cup {NoChild}, nohang \in BOOLEAN : Waitpid(pid, nohang))
      PROVE  Sharing' /\ Held' /\ OwnFrames'
  <2>1. mode[Parent] # "cloned" /\ UNCHANGED <<kind, shares>>
    BY <1>3 DEF AnswerStep, Wait4Reaps, Wait4FindsNone, Wait4Fails, Return, CloneRestart, CloneFail,
      DriveReturn, Fork, Waitpid, InUser, InKernel, forkVars
  <2>2. Held' /\ OwnFrames'
    BY <2>1, VforkFacts, NoVforkKept
  <2>3. Sharing'
    <3>1. ASSUME NEW c \in Children, Wait4Reaps(c) PROVE Sharing'
      <4>1. mode[c] = "zombie" /\ mode' = [mode EXCEPT ![Parent] = "return", ![c] = "gone"]
        BY <3>1 DEF Wait4Reaps, Zombies
      <4> QED
        BY <1>0, <2>1, <4>1 DEF Sharing
    <3>2. CASE mode' = mode \/ \E m \in Modes : mode' = [mode EXCEPT ![Parent] = m]
      BY <1>0, <2>1, <3>2 DEF Sharing
    <3> QED
      BY <1>3, <3>1, <3>2 DEF AnswerStep, Wait4FindsNone, Wait4Fails, Return, CloneRestart, CloneFail,
        DriveReturn, Fork, Waitpid, Become, Modes
  <2> QED
    BY <2>2, <2>3
<1> QED
  BY <1>1, <1>2, <1>3 DEF ParentCallStep

\* What the steps of other tasks leave of the child of vfork.
LEMMA OtherVfork ==
  ASSUME VforkInv, OtherStep
  PROVE  Sharing' /\ Held' /\ OwnFrames'
<1>0. /\ Parent \notin Children /\ Parent \in Tasks /\ Children \subseteq Tasks
      /\ frames \in Frames /\ frames.program \in Program /\ expects \in [Tasks -> Program]
      /\ mode \in [Tasks -> Modes] /\ shares \subseteq Children /\ Sharing
  BY VforkFacts DEF VforkInv
<1>a. ASSUME NEW c \in shares, kind[c].name = "vfork"
      PROVE  mode[Parent] = "cloned" /\ call.name = "vfork" /\ call.pid = c
  BY <1>a DEF VforkInv, Held
<1>b. ASSUME NEW c \in shares, kind[c] = [name |-> "vfork", alone |-> TRUE]
      PROVE  /\ shares = {c} /\ mode[Parent] = "cloned"
             /\ expects[c] = IF mode[c] \in {"new", "started"}
                             THEN [frames.program EXCEPT !.result = "child"] ELSE frames.program
  BY <1>a, <1>b DEF VforkInv, OwnFrames
<1>1. UNCHANGED <<kind, call>> /\ mode'[Parent] = mode[Parent] /\ shares' \subseteq shares
  <2>1. ASSUME NEW c \in Children, NEW m, Become(c, m) PROVE mode'[Parent] = mode[Parent]
    BY <1>0, <2>1 DEF Become
  <2> QED
    BY <1>0, <2>1 DEF OtherStep, SwitchTo, Store, FirstRun, ChildStep, ChildReturn, GetPid, BlockingCall,
      BlockingReturn, Exec, Exit, Leave, forkVars
<1>2. Held'
  BY <1>1, <1>a DEF Held
<1>c. \A t \in Tasks, name \in Layers : Laid(t, name).program = frames.program
  BY <1>0, LaidFrames
<1>3. Sharing'
  <2>1. ASSUME NEW d \in Children, ChildReturn(d) \/ BlockingCall(d) \/ BlockingReturn(d) \/ FirstRun(d)
        PROVE  Sharing'
    <3>1. PICK m \in {"user", "sys", "started"} : mode' = [mode EXCEPT ![d] = m]
      BY <2>1 DEF ChildReturn, BlockingCall, BlockingReturn, FirstRun, Become
    <3>2. shares' = shares /\ (m = "started" => mode[d] = "new")
      BY <2>1, <3>1, <1>0 DEF ChildReturn, BlockingCall, BlockingReturn, FirstRun, Become
    <3> QED
      BY <1>0, <3>1, <3>2 DEF Sharing
  <2>2. ASSUME NEW d \in Children, NEW s \in Statuses, Exit(d, s) PROVE Sharing'
    BY <1>0, <2>2 DEF Exit, Leave, Become, Sharing
  <2>3. ASSUME NEW d \in Children, Exec(d) PROVE Sharing'
    BY <1>0, <2>3 DEF Exec, InUser, Leave, Sharing
  <2>4. CASE UNCHANGED <<mode, shares>>
    BY <1>0, <2>4 DEF Sharing
  <2> QED
    BY <2>1, <2>2, <2>3, <2>4 DEF OtherStep, ChildStep, SwitchTo, Store, GetPid, forkVars
<1>4. ASSUME NEW c \in shares', kind'[c] = [name |-> "vfork", alone |-> TRUE]
      PROVE  /\ shares' = {c}
             /\ expects'[c] = IF mode'[c] \in {"new", "started"}
                              THEN [frames'.program EXCEPT !.result = "child"] ELSE frames'.program
  <2>0. /\ c \in shares /\ c \in Children /\ shares = {c} /\ shares' = {c} /\ mode[Parent] = "cloned"
        /\ expects[c] = IF mode[c] \in {"new", "started"}
                        THEN [frames.program EXCEPT !.result = "child"] ELSE frames.program
    BY <1>0, <1>1, <1>4, <1>b
  <2>1. ASSUME NEW t \in Tasks, Store(t) PROVE expects'[c] = frames'.program /\ mode'[c] = "user"
    <3>1. t = c /\ mode[t] = "user" /\ mode' = mode
      BY <1>0, <2>0, <2>1 DEF Store, InUser, OnFrames
    <3>2. PICK value : /\ frames' = [frames EXCEPT !.program = [frames.program EXCEPT !.locals = value]]
                       /\ expects' = [expects EXCEPT ![t] = [expects[t] EXCEPT !.locals = value]]
      BY <2>1 DEF Store
    <3> QED
      BY <1>0, <2>0, <3>1, <3>2 DEF Frames
  <2>2. ASSUME NEW d \in Children, ChildReturn(d) PROVE expects'[c] = frames'.program /\ mode'[c] = "user"
    <3>1. mode[d] = "started" /\ mode' = [mode EXCEPT ![d] = "user"] /\ expects' = expects
          /\ frames' = [frames EXCEPT !.program = [frames.program EXCEPT !.result = "child"]]
      BY <2>2 DEF ChildReturn, InKernel, Become
    <3>2. d = c
      BY <1>0, <2>0, <3>1 DEF Sharing
    <3> QED
      BY <1>0, <2>0, <3>1, <3>2 DEF Frames
  <2>3. ASSUME NEW d \in Children, FirstRun(d)
        PROVE  /\ UNCHANGED <<frames, expects>>
               /\ mode'[c] \in {"new", "started"} <=> mode[c] \in {"new", "started"}
    BY <1>0, <2>0, <2>3 DEF FirstRun, Become
  <2>4. ASSUME NEW d \in Children, BlockingCall(d) \/ BlockingReturn(d)
        PROVE  /\ frames'.program = frames.program /\ expects' = expects
               /\ mode'[c] \in {"new", "started"} <=> mode[c] \in {"new", "started"}
    <3>1. mode[d] \in {"user", "sys"} /\ \E m \in {"user", "sys"} : mode' = [mode EXCEPT ![d] = m]
      BY <2>4 DEF BlockingCall, BlockingReturn, InUser, InKernel, Become
    <3>2. frames'.program = frames.program /\ expects' = expects
      BY <1>0, <1>c, <2>4 DEF BlockingCall, BlockingReturn, Layers
    <3> QED
      BY <1>0, <2>0, <3>1, <3>2
  <2>5. ASSUME NEW d \in Children, NEW s \in Statuses, Exit(d, s)
        PROVE  /\ frames'.program = frames.program /\ expects'[c] = expects[c] /\ mode'[c] = mode[c]
    <3>1. Leave(d) /\ \E m : mode' = [mode EXCEPT ![d] = m]
      BY <2>5 DEF Exit, Become
    <3>2. d # c
      BY <2>0, <3>1 DEF Leave
    <3>3. expects'[c] = expects[c]
      BY <1>0, <2>0, <3>1, <3>2 DEF Leave
    <3>4. mode'[c] = mode[c]
      BY <1>0, <2>0, <3>1, <3>2
    <3>5. frames'.program = frames.program
      BY <1>0, <1>c, <2>5 DEF Exit, Layers
    <3> QED
      BY <3>3, <3>4, <3>5
  <2>6. ASSUME NEW d \in Children, Exec(d)
        PROVE  /\ frames'.program = frames.program /\ expects'[c] = expects[c] /\ mode'[c] = mode[c]
    <3>1. Leave(d) /\ mode' = mode /\ frames' = Laid(d, "execve")
      BY <2>6 DEF Exec
    <3>2. d # c
      BY <2>0, <3>1 DEF Leave
    <3>3. expects'[c] = expects[c]
      BY <1>0, <2>0, <3>1, <3>2 DEF Leave
    <3> QED
      BY <1>0, <1>c, <3>1, <3>3 DEF Layers
  <2>7. ASSUME NEW d \in Children, GetPid(d)
        PROVE  frames'.program = frames.program /\ UNCHANGED <<expects, mode>>
    BY <1>0, <1>c, <2>7 DEF GetPid, Layers
  <2>8. ASSUME NEW t \in Tasks, SwitchTo(t) PROVE UNCHANGED <<frames, expects, mode>>
    BY <2>8 DEF SwitchTo
  <2>9. ASSUME frames'.program = frames.program, expects'[c] = expects[c],
               mode'[c] \in {"new", "started"} <=> mode[c] \in {"new", "started"}
        PROVE  expects'[c] = IF mode'[c] \in {"new", "started"}
                             THEN [frames'.program EXCEPT !.result = "child"] ELSE frames'.program
    BY <2>0, <2>9
  <2>10. CASE \E t \in Tasks : Store(t) \/ SwitchTo(t)
    BY <2>0, <2>1, <2>8, <2>9, <2>10
  <2>11. CASE \E d \in Children : FirstRun(d) \/ ChildStep(d)
    BY <2>0, <2>2, <2>3, <2>4, <2>5, <2>6, <2>7, <2>9, <2>11 DEF ChildStep
  <2> QED
    BY <2>10, <2>11 DEF OtherStep
<1>5. OwnFrames'
  BY <1>4 DEF OwnFrames
<1> QED
  BY <1>2, <1>3, <1>5

\* The invariant of the child of vfork is inductive.
LEMMA NextVfork == VforkInv /\ [Next]_vars => VforkInv'
<1> SUFFICES ASSUME VforkInv, [Next]_vars PROVE VforkInv'
  OBVIOUS
<1>1. ParentInv'
  BY NextParent DEF VforkInv
<1>2. CASE Next
  BY <1>1, <1>2, StepKinds, ParentVfork, OtherVfork DEF VforkInv
<1>3. CASE UNCHANGED vars
  BY <1>1, <1>3 DEF vars, forkVars, VforkInv, Sharing, Held, OwnFrames
<1> QED
  BY <1>2, <1>3

\* A child of vfork that was alone on the frames when it was created finds its
\* own values there until it leaves them: for any number of children.
THEOREM VforkChildOwnsFramesHolds == Spec => []VforkChildOwnsFrames
<1>1. VforkInv => VforkChildOwnsFrames
  <2> SUFFICES ASSUME VforkInv, NEW c \in shares, kind[c] = [name |-> "vfork", alone |-> TRUE],
                      mode[c] \in {"user", "sys"}
               PROVE  frames.program = expects[c]
    BY DEF VforkChildOwnsFrames
  <2> QED
    BY DEF VforkInv, OwnFrames
<1> QED
  BY <1>1, InitVfork, NextVfork, PTL DEF Spec
=============================================================================
