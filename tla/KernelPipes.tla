---------------------------- MODULE KernelPipes ----------------------------
(***************************************************************************)
(* One AI core running the blocks the scheduler gives it, a kernel each.   *)
(* The scalar unit hands every instruction to the queue of its pipe; each  *)
(* pipe takes its own in order and runs beside the others, held back only  *)
(* by the event flags of the kernel.  A flag counts the sets its waits have *)
(* not taken (the hardware is outside the repository: rmsnorm sets flags a *)
(* second time before the first wait, which only counters survive).  Flags *)
(* outlive a kernel: the next block starts with what the last one left.    *)
(***************************************************************************)
EXTENDS Kernels

CONSTANTS
    FlagLimit   \* how far a flag may count

VARIABLES
    core,      \* "cube" or "vector": what this core is
    kernel,    \* the kernel of the current block
    at,        \* per pipe, the index in the kernel of its next instruction
    flags      \* the bag of event flags that are set

vars == <<core, kernel, at, flags>>

Pipes == {"MTE2", "MTE1", "M", "FIX", "V", "MTE3"}
Code == [cube |-> Cube, vector |-> Vector]
ByKernel(F(_)) == [c \in DOMAIN Code |-> [k \in DOMAIN Code[c] |-> F(Code[c][k])]]

\* The first instruction of pipe p at or after index i, Len(code) + 1 if there is none.
From(code) ==
    [p \in Pipes |->
        LET next[i \in 1 .. Len(code) + 1] ==
              IF i = Len(code) + 1 \/ code[i].pipe = p THEN i ELSE next[i + 1]
        IN [i \in 1 .. Len(code) + 1 |-> next[i]]]
NextOf == ByKernel(From)

Start(c, k) == [p \in Pipes |-> NextOf[c][k][p][1]]

prog == Code[core][kernel]
Busy(p) == at[p] <= Len(prog)
Instr(p) == prog[at[p]]
Finished == \A p \in Pipes : ~Busy(p)
Advance(p) == at' = [at EXCEPT ![p] = NextOf[core][kernel][p][@ + 1]]

Init ==
    /\ core \in DOMAIN Code
    /\ kernel \in DOMAIN Code[core]
    /\ at = Start(core, kernel)
    /\ flags = EmptyBag

set_flag(p) ==
    /\ Busy(p) /\ Instr(p).op = "set"
    /\ flags' = flags (+) SetToBag({Instr(p).flag})
    /\ Advance(p)
    /\ UNCHANGED <<core, kernel>>

wait_flag(p) ==
    /\ Busy(p) /\ Instr(p).op = "wait"
    /\ BagIn(Instr(p).flag, flags)
    /\ flags' = flags (-) SetToBag({Instr(p).flag})
    /\ Advance(p)
    /\ UNCHANGED <<core, kernel>>

execute(p) ==
    /\ Busy(p) /\ Instr(p).op = "work"
    /\ Advance(p)
    /\ UNCHANGED <<core, kernel, flags>>

\* ptoas_auto_sync_tail drains the pipes; the core then runs another block.
kernel_entry ==
    /\ Finished
    /\ \E k \in DOMAIN Code[core] : kernel' = k /\ at' = Start(core, k)
    /\ UNCHANGED <<core, flags>>

Next == kernel_entry \/ \E p \in Pipes : set_flag(p) \/ wait_flag(p) \/ execute(p)

Spec == Init /\ [][Next]_vars

----------------------------------------------------------------------------
\* For each instruction, the earlier ones of other pipes that it must not overtake: one
\* of the two writes a buffer the other uses.
Conflicts(a, b) ==
    /\ a.op = "work" /\ b.op = "work" /\ a.pipe # b.pipe
    /\ a.writes \cap (b.reads \cup b.writes) # {} \/ b.writes \cap a.reads # {}
Earlier(code) == [i \in DOMAIN code |-> { j \in 1 .. i - 1 : Conflicts(code[i], code[j]) }]
EarlierOf == ByKernel(Earlier)

\* The flags order every pair of accesses to a buffer by two pipes as the program wrote
\* them: when an instruction may start, each earlier one it conflicts with is over.  So
\* the pipes compute what the program computes one instruction at a time.
BuffersInOrder ==
    \A p \in Pipes : Busy(p) /\ Instr(p).op = "work" =>
        \A j \in EarlierOf[core][kernel][at[p]] : at[prog[j].pipe] > j

\* No pipe runs so far ahead of the one that waits for it that a flag counts beyond its
\* limit.
FlagsNotOverrun == \A f \in DOMAIN flags : CopiesIn(f, flags) <= FlagLimit

\* The pipes never all wait for each other, in a block or in any block after it.
NeverStuck ==
    Finished \/ \E p \in Pipes : Busy(p) /\ (Instr(p).op = "wait" => BagIn(Instr(p).flag, flags))

\* A kernel leaves no flag behind: the next one relies on finding them clear.
FlagsGivenBack == Finished => flags = EmptyBag
=============================================================================
