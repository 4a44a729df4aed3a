------------------------------- MODULE P3Machine -------------------------------
(***************************************************************************)
(* The P3 machine has moves, subtractions and branches, and one memory.    *)
(* Calls are spelled out by the compiler (abi.py): a call sequence reads   *)
(* the callee's descriptor, lays a frame with the arguments and a result   *)
(* area below the caller's frame and branches; a return sequence writes    *)
(* the resume address into the caller's frame and branches through it.     *)
(* The machine (vm.py) runs host services through the same frames; setjmp  *)
(* and longjmp are such services, and a service may enter guest code on    *)
(* another stack and run the machine again.                                *)
(*                                                                         *)
(* Memory is counted in words.  Every function takes one argument; the     *)
(* text of a function is any sequence of assignments, calls and a return.  *)
(***************************************************************************)
EXTENDS Integers, Sequences, FiniteSets

CONSTANTS
  Functions,   \* the linked functions
  Services,    \* host services that answer at once
  Host,        \* the service that enters guest code itself
  Main,        \* the function the machine starts in
  Desc,        \* address of the descriptor of each function and service
  SpillWords,  \* further frame cells of each function
  Values,      \* values of arguments, variables and results
  JmpBufs,     \* jump buffers
  StackTops,   \* tops of the stacks nested runs use, outermost first
  StackWords,  \* words of each of them; the machine does not check it
  MaxWork      \* bound on the calls and assignments made

Callables == Functions \cup Services \cup {Host}
DescWords == UNION {{Desc[c], Desc[c] + 1} : c \in Callables}

ASSUME MachineAssumption ==
  /\ Main \in Functions
  /\ Functions \cap (Services \cup {Host}) = {}
  /\ Desc \in [Callables -> Nat]
  /\ \A c, d \in Callables : c # d => Desc[c] > Desc[d] + 1 \/ Desc[d] > Desc[c] + 1
  /\ \A i, j \in 1..Len(StackTops) : i # j =>
       StackTops[i] <= StackTops[j] - StackWords \/ StackTops[j] <= StackTops[i] - StackWords
  /\ \A i \in 2..Len(StackTops) : StackTops[i] < StackTops[1]
  /\ \A i \in 1..Len(StackTops), a \in DescWords : a < StackTops[i] - StackWords
  /\ StackTops \in Seq(Nat) \ {<<>>} /\ StackWords \in Nat
  /\ SpillWords \in [Functions -> Nat]
  /\ MaxWork \in Nat

VARIABLES
  mem,      \* the guest's memory
  sp,       \* vm.sp
  pc,       \* vm.current_function and current_block
  halted,   \* vm.halted
  host,     \* runs of the machine below the innermost one
  jmps,     \* vm.user_setjmp_states
  work      \* calls and assignments made, for the bound

vars == <<mem, sp, pc, halted, host, jmps, work>>
-----------------------------------------------------------------------------
(***************************************************************************)
(* Frames: the fixed header, one cell per call site for the address of its *)
(* result area (the temporary of the call sequence), the variables.        *)
(***************************************************************************)
CALLER_SP == 0
RET_PC == 1
ENTRY == 2
FRAME_SIZE == 3
RESULT_PTR == 4
RESULT_COUNT == 5
RESUME_PC == 6
ARG_COUNT == 7
HEADER_SIZE == 8

Sites == {"value", "discard", "setjmp"}
Wants == [value |-> 1, discard |-> 0, setjmp |-> 1]
SiteCell(site) ==
  HEADER_SIZE + (CASE site = "value" -> 0 [] site = "discard" -> 1 [] OTHER -> 2)
VarCell(i) == HEADER_SIZE + 2 + i
FrameSize(g) == HEADER_SIZE + 5 + SpillWords[g]

\* Code addresses: a function's entry block, the rest of its text, or the
\* continuation of a call site; host code; halt_code.
Code(fn, at) == [fn |-> fn, at |-> at]
HaltCode == Code(Host, "halt")

ResultWordsExact(site) == Wants[site]                              \* mutant
ResultWords(site) == 1   \* max(1, result_count): scratch for a discarded result

CallBase(entry, site) == sp - (mem[Desc[entry] + 1] + 1 + ResultWords(site))
ArgBase(base, g) == base + mem[Desc[g] + 1]
ResultBase(base, g) == ArgBase(base, g) + 1

Var(i) == mem[sp + VarCell(i)]

\* The moves of a call sequence; the callee is reached through its descriptor.
\* The argument is what the caller's second variable holds.
Called(g, site) ==
  LET base == CallBase(g, site)
  IN  [mem EXCEPT ![base + CALLER_SP] = sp,
                  ![base + RET_PC] = Code(pc.fn, site),
                  ![base + ENTRY] = mem[Desc[g]],
                  ![base + FRAME_SIZE] = mem[Desc[g] + 1],
                  ![base + ARG_COUNT] = 1,
                  ![base + RESULT_COUNT] = Wants[site],
                  ![base + RESULT_PTR] = ResultBase(base, g),
                  ![ArgBase(base, g)] = Var(2),
                  ![sp + SiteCell(site)] = ResultBase(base, g)]

Top == StackTops[Len(host) + 1]
Bottom == Top - StackWords

\* The table of the code keeps an entry for ever; a program may not use it once
\* the activation that filled it has returned.
NoJmp == [sp |-> -1]
Forget(frames) == [env \in JmpBufs |-> IF jmps[env].sp \in frames THEN NoJmp ELSE jmps[env]]

InBody == pc.at = "body" /\ ~halted
MayCall(g, site) ==
  /\ InBody /\ work < MaxWork
  /\ CallBase(g, site) >= Bottom
-----------------------------------------------------------------------------
(***************************************************************************)
(* Guest code.                                                             *)
(***************************************************************************)
Call(g, site) ==
  /\ MayCall(g, site)
  /\ mem[Desc[g]] = Code(g, "entry")
  /\ mem' = Called(g, site)
  /\ sp' = CallBase(g, site)
  /\ pc' = mem'[sp' + ENTRY]
  /\ work' = work + 1
  /\ UNCHANGED <<halted, host, jmps>>

\* The prologue loads the argument from behind the frame.
Enter ==
  /\ pc.at = "entry" /\ ~halted
  /\ mem' = [mem EXCEPT ![sp + VarCell(1)] = mem[sp + mem[sp + FRAME_SIZE]]]
  /\ pc' = Code(pc.fn, "body")
  /\ UNCHANGED <<sp, halted, host, jmps, work>>

Assign(i, v) ==
  /\ InBody /\ work < MaxWork
  /\ mem' = [mem EXCEPT ![sp + VarCell(i)] = v]
  /\ work' = work + 1
  /\ UNCHANGED <<sp, pc, halted, host, jmps>>

\* _set_code: halt_code halts, any other code runs.
SetCode(code) ==
  /\ halted' = (code = HaltCode)
  /\ pc' = IF code = HaltCode THEN pc ELSE code

\* The return sequence for variable i: the resume address goes into the
\* caller's frame first, and the branch is through it.
Return(i) ==
  /\ InBody
  /\ LET caller == mem[sp + CALLER_SP]
         resumed == [mem EXCEPT ![caller + RESUME_PC] = mem[sp + RET_PC]]
     IN  /\ mem' = [resumed EXCEPT ![resumed[sp + RESULT_PTR]] = Var(i)]
         /\ sp' = caller
         /\ SetCode(mem'[sp' + RESUME_PC])
  /\ jmps' = Forget({sp})
  /\ UNCHANGED <<host, work>>

\* A continuation loads the result from the area its call site remembers.
Resume ==
  /\ pc.at \in Sites /\ ~halted
  /\ mem' = IF Wants[pc.at] = 1
            THEN [mem EXCEPT ![sp + VarCell(1)] = mem[mem[sp + SiteCell(pc.at)]]]
            ELSE mem
  /\ pc' = Code(pc.fn, "body")
  /\ UNCHANGED <<sp, halted, host, jmps, work>>
-----------------------------------------------------------------------------
(***************************************************************************)
(* Host services: _invoke_host reads the frame the caller has laid, writes *)
(* the results through it and returns as the return sequence would.        *)
(***************************************************************************)
IsHostCode(g) == mem[Desc[g]].at = "host"

CallService(g, site, v) ==
  /\ MayCall(g, site) /\ site # "setjmp"
  /\ IsHostCode(g)
  /\ mem' = LET called == Called(g, site)
            IN  IF Wants[site] = 1
                THEN [called EXCEPT ![called[CallBase(g, site) + RESULT_PTR]] = v]
                ELSE called
  /\ pc' = Code(pc.fn, site)
  /\ work' = work + 1
  /\ UNCHANGED <<sp, halted, host, jmps>>

Setjmp(g, env) ==
  LET called == Called(g, "setjmp")
      result == called[CallBase(g, "setjmp") + RESULT_PTR]
  IN  /\ MayCall(g, "setjmp")
      /\ IsHostCode(g)
      /\ jmps' = [jmps EXCEPT ![env] = [sp |-> sp, pc |-> Code(pc.fn, "setjmp"), result |-> result]]
      /\ mem' = [called EXCEPT ![result] = 0]
      /\ pc' = Code(pc.fn, "setjmp")
      /\ work' = work + 1
      /\ UNCHANGED <<sp, halted, host>>

\* C allows the jump only into an activation that is still live, and here in
\* the same run of the machine.
MayJump(env) == jmps[env] # NoJmp /\ jmps[env].sp >= Bottom /\ jmps[env].sp < Top

Longjmp(g, env, v) ==
  /\ MayCall(g, "discard")
  /\ IsHostCode(g)
  /\ MayJump(env)
  /\ mem' = [Called(g, "discard") EXCEPT ![jmps[env].result] = IF v = 0 THEN 1 ELSE v]
  /\ sp' = jmps[env].sp
  /\ pc' = jmps[env].pc
  /\ work' = work + 1
  /\ jmps' = Forget(Bottom .. jmps[env].sp - 1)
  /\ UNCHANGED <<halted, host>>
-----------------------------------------------------------------------------
(***************************************************************************)
(* A service that enters guest code on the next stack (enter_function) and *)
(* runs the machine until it halts, then restores its own frame.           *)
(***************************************************************************)
EntryBase(g, top) == top - (FrameSize(g) + 1 + 1)

ASSUME RoomAssumption == \A g \in Functions : FrameSize(g) + 2 <= StackWords

Entered(memory, g, top, arg) ==
  LET base == EntryBase(g, top)
  IN  [memory EXCEPT ![base + CALLER_SP] = base,
                     ![base + RET_PC] = HaltCode,
                     ![base + ENTRY] = Code(g, "entry"),
                     ![base + FRAME_SIZE] = FrameSize(g),
                     ![base + RESULT_PTR] = base + FrameSize(g) + 1,
                     ![base + RESULT_COUNT] = 1,
                     ![base + RESUME_PC] = HaltCode,
                     ![base + ARG_COUNT] = 1,
                     ![base + FrameSize(g)] = arg]

RestoreHostKept(saved) == sp                                       \* mutant
RestoreHost(saved) == saved.sp

CallNested(g, site) ==
  /\ MayCall(Host, site) /\ site # "setjmp"
  /\ Len(host) + 1 < Len(StackTops)
  /\ LET top == StackTops[Len(host) + 2]
     IN  /\ mem' = Entered(Called(Host, site), g, top, Var(2))
         /\ host' = Append(host, [sp |-> CallBase(Host, site), result |-> top - 1])
         /\ sp' = EntryBase(g, top)
  /\ pc' = Code(g, "entry")
  /\ work' = work + 1
  /\ UNCHANGED <<halted, jmps>>

FinishNested ==
  /\ halted /\ host # <<>>
  /\ LET saved == host[Len(host)]
         frame == RestoreHost(saved)
     IN  /\ mem' = IF mem[frame + RESULT_COUNT] = 1
                   THEN [mem EXCEPT ![mem[frame + RESULT_PTR]] = mem[saved.result]]
                   ELSE mem
         /\ sp' = mem[frame + CALLER_SP]
         /\ pc' = mem[frame + RET_PC]
  /\ halted' = FALSE
  /\ host' = SubSeq(host, 1, Len(host) - 1)
  /\ UNCHANGED <<jmps, work>>
-----------------------------------------------------------------------------
(***************************************************************************)
(* The linked program.  Before the machine starts, host code may replace a *)
(* function: its descriptor leads to the host, its text stays.             *)
(***************************************************************************)
Linked(replaced) ==
  [a \in DescWords |->
     LET c == CHOOSE c \in Callables : a \in {Desc[c], Desc[c] + 1}
         runs == c \in Functions \ replaced
     IN  IF a = Desc[c] THEN Code(c, IF runs THEN "entry" ELSE "host")
         ELSE IF runs THEN FrameSize(c) ELSE HEADER_SIZE]

StackWordsOf(i) == StackTops[i] - StackWords .. StackTops[i] - 1

\* run_function, unlike enter_function, makes the stack top the caller of the
\* first frame: its return writes a resume address into the words above.
BootWords == StackTops[1] .. StackTops[1] + HEADER_SIZE - 1
Booted(memory) ==
  LET top == StackTops[1]
      base == EntryBase(Main, top)
  IN  [Entered(memory, Main, top, 0) EXCEPT ![base + CALLER_SP] = top,
                                            ![base + RESULT_COUNT] = 0,
                                            ![base + RESUME_PC] = 0]

MemoryWords == DescWords \cup BootWords \cup UNION {StackWordsOf(i) : i \in 1..Len(StackTops)}

\* Memory that was never written reads as zero.
Init ==
  /\ \E replaced \in SUBSET (Functions \ {Main}) :
       mem = Booted([a \in MemoryWords |-> IF a \in DescWords THEN Linked(replaced)[a] ELSE 0])
  /\ sp = EntryBase(Main, StackTops[1])
  /\ pc = Code(Main, "entry")
  /\ halted = FALSE
  /\ host = <<>>
  /\ jmps = [env \in JmpBufs |-> NoJmp]
  /\ work = 0

Next ==
  \/ Enter \/ Resume \/ FinishNested
  \/ \E i \in 1..2 : Return(i) \/ \E v \in Values : Assign(i, v)
  \/ \E g \in Functions, site \in {"value", "discard"} : Call(g, site) \/ CallNested(g, site)
  \/ \E g \in Functions \cup Services, site \in {"value", "discard"}, v \in Values :
       CallService(g, site, v)
  \/ \E g \in Services, env \in JmpBufs : \/ Setjmp(g, env)
                                          \/ \E v \in Values : Longjmp(g, env, v)

Spec == Init /\ [][Next]_vars
-----------------------------------------------------------------------------
(***************************************************************************)
(* The stack the memory stands for.                                        *)
(***************************************************************************)
IsFirst(frame) == frame + RET_PC \in DOMAIN mem => mem[frame + RET_PC] = HaltCode

\* The frames of a run, from its first to the given one; the first has no caller.
WithCaller ==
  [frames \in Seq(Int) |->
     IF IsFirst(frames[1]) THEN frames ELSE <<mem[frames[1] + CALLER_SP]>> \o frames]

Chain(from) ==
  LET chain[n \in 0..MaxWork] == IF n = 0 THEN <<from>> ELSE WithCaller[chain[n - 1]]
  IN  chain[MaxWork]

Runs == Len(host) + 1
Finished == halted /\ host = <<>>
FramesOf(run) == Chain(IF run = Runs THEN sp ELSE host[run].sp)

SuspendedActivation(frame, callee) ==
  [fn |-> mem[frame + ENTRY].fn, site |-> mem[callee + RET_PC].at,
   vars |-> [i \in 1..2 |-> mem[frame + VarCell(i)]]]

\* Until its prologue or its continuation has run, the running activation's
\* first variable is still in the argument or in the result area.
RunningActivation ==
  [fn |-> mem[sp + ENTRY].fn, site |-> "none",
   vars |-> [i \in 1..2 |->
     IF i = 1 /\ pc.at = "entry" THEN mem[sp + mem[sp + FRAME_SIZE]]
     ELSE IF i = 1 /\ pc.at \in Sites /\ Wants[pc.at] = 1
          THEN mem[mem[sp + SiteCell(pc.at)]]
          ELSE mem[sp + VarCell(i)]]]

HostActivation == [fn |-> Host, site |-> "none", vars |-> <<0, 0>>]

ActivationsOf(run) ==
  LET frames == FramesOf(run)
      last == Len(frames)
  IN  [i \in 1..last |->
         IF i < last THEN SuspendedActivation(frames[i], frames[i + 1])
         ELSE IF run = Runs THEN RunningActivation
         ELSE HostActivation]

ActivationStack ==
  LET stack[run \in 0..Runs] ==
        IF run = 0 THEN <<>> ELSE stack[run - 1] \o ActivationsOf(run)
  IN  IF Finished THEN <<>> ELSE stack[Runs]

Activation == INSTANCE Activations WITH stack <- ActivationStack

\* Calls, returns, host services, nested runs and long jumps, carried out by
\* moves on one memory, are a stack of activations with variables of their own.
ImplementsActivations == Activation!ASpec

\* Every live frame, its arguments and its result area lie on the stack of its
\* run, and no word belongs to two frames.
Extent(frame) == frame .. mem[frame + RESULT_PTR]

FramesApart ==
  ~Finished =>
    \A run \in 1..Runs :
      LET frames == FramesOf(run)
      IN  \A i \in DOMAIN frames :
            /\ Extent(frames[i]) \subseteq StackWordsOf(run)
            /\ \A j \in DOMAIN frames : i # j => Extent(frames[i]) \cap Extent(frames[j]) = {}
=============================================================================
