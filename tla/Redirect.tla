------------------------------ MODULE Redirect -----------------------------
(***************************************************************************)
(* syscall.c: the calls that reach syscall(), and the two that the tunable *)
(* "syscall" sends to a polyfill.  A polyfill makes calls of its own, some *)
(* of them through syscall() again; the thread-local counter redir keeps   *)
(* those out.                                                              *)
(***************************************************************************)
EXTENDS Integers, Sequences, SequencesExt

CONSTANTS Callers, MaxDepth     \* the threads; bound on nested calls

Numbers == {"execve", "mmap", "other"}

VARIABLES
  listed,   \* the names in the tunable
  stack,    \* each thread's calls of syscall(), the innermost last
  redir,
  child,    \* the thread runs a vfork child, in the same memory
  over      \* history: such a child was replaced while redir was raised

vars == <<listed, stack, redir, child, over>>

Init ==
  /\ listed \in SUBSET {"execve", "mmap"}
  /\ stack = [t \in Callers |-> <<>>] /\ redir = [t \in Callers |-> 0]
  /\ child = [t \in Callers |-> FALSE] /\ over = [t \in Callers |-> FALSE]

\* number: what was asked for; at: the case label, or "polyfill" or "kernel";
\* runs: the polyfill it went to.
Top(t)       == Last(stack[t])
SetTop(t, f) == stack' = [stack EXCEPT ![t] = Append(Front(@), f)]
At(t, p)     == stack[t] # <<>> /\ Top(t).at = p

\* What a polyfill passes to syscall(): mmap's probe and its munmap and mlock;
\* execve's are raw calls on descriptors.
Calls(fn) == IF fn = "mmap" THEN {"mmap", "other"} ELSE {"other"}

Syscall(t, number) ==
  /\ \/ stack[t] = <<>>
     \/ At(t, "polyfill") /\ number \in Calls(Top(t).runs) /\ Len(stack[t]) < MaxDepth
  /\ LET to == IF number = "other" THEN "kernel" ELSE number IN
     stack' = [stack EXCEPT ![t] = Append(@, [number |-> number, at |-> to, runs |-> "none"])]
  /\ UNCHANGED <<listed, redir, child, over>>

\* Mutant: the counter is not consulted.
Redirects(t, fn) == fn \in listed

\* if (wslcompat_tunable_list("syscall", #fn) && !redir)
Redirected(t, fn) == fn \in listed /\ redir[t] = 0

Run(t, fn) ==
  /\ SetTop(t, [Top(t) EXCEPT !.at = "polyfill", !.runs = fn])
  /\ redir' = [redir EXCEPT ![t] = @ + 1]
  /\ UNCHANGED <<listed, child, over>>

\* case SYS_execve.  Its break leaves only the do { } while (0) of the macro: the
\* next statement of the switch is the body of case SYS_mmap.
CaseExecve(t) ==
  /\ At(t, "execve")
  /\ \/ Redirected(t, "execve") /\ Run(t, "execve")
     \/ /\ ~Redirected(t, "execve") /\ SetTop(t, [Top(t) EXCEPT !.at = "mmap"])
        /\ UNCHANGED <<listed, redir, child, over>>

CaseMmap(t) ==
  /\ At(t, "mmap")
  /\ \/ Redirected(t, "mmap") /\ Run(t, "mmap")
     \/ /\ ~Redirected(t, "mmap") /\ SetTop(t, [Top(t) EXCEPT !.at = "kernel"])
        /\ UNCHANGED <<listed, redir, child, over>>

\* Mutant: the counter stays up when the polyfill returns.
ReturnUp(t) ==
  /\ At(t, "polyfill") /\ stack' = [stack EXCEPT ![t] = Front(@)]
  /\ UNCHANGED <<listed, redir, child, over>>

Return(t) ==
  /\ At(t, "polyfill") /\ stack' = [stack EXCEPT ![t] = Front(@)]
  /\ redir' = [redir EXCEPT ![t] = @ - 1]
  /\ UNCHANGED <<listed, child, over>>

Kernel(t) ==
  /\ At(t, "kernel") /\ stack' = [stack EXCEPT ![t] = Front(@)]
  /\ UNCHANGED <<listed, redir, child, over>>

Vfork(t) ==
  /\ stack[t] = <<>> /\ ~child[t] /\ child' = [child EXCEPT ![t] = TRUE]
  /\ UNCHANGED <<listed, stack, redir, over>>

ChildExit(t) ==
  /\ stack[t] = <<>> /\ child[t] /\ child' = [child EXCEPT ![t] = FALSE]
  /\ UNCHANGED <<listed, stack, redir, over>>

\* An execve succeeds, in the kernel or in the polyfill.  In a vfork child the
\* parent goes on with the memory as the child left it; else the image is new.
Exec(t) ==
  /\ stack[t] # <<>>
  /\ \/ Top(t).at = "kernel" /\ Top(t).number = "execve"
     \/ Top(t).at = "polyfill" /\ Top(t).runs = "execve"
  /\ IF child[t]
     THEN /\ stack' = [stack EXCEPT ![t] = <<>>] /\ child' = [child EXCEPT ![t] = FALSE]
          /\ over' = [over EXCEPT ![t] = @ \/ redir[t] > 0]
          /\ UNCHANGED redir
     ELSE /\ stack' = [u \in Callers |-> <<>>] /\ redir' = [u \in Callers |-> 0]
          /\ child' = [u \in Callers |-> FALSE] /\ over' = [u \in Callers |-> FALSE]
  /\ UNCHANGED listed

Next == \E t \in Callers :
  \/ \E number \in Numbers : Syscall(t, number)
  \/ CaseExecve(t) \/ CaseMmap(t) \/ Return(t) \/ Kernel(t)
  \/ Vfork(t) \/ ChildExit(t) \/ Exec(t)

-----------------------------------------------------------------------------
\* A call from the program is redirected at most once: what its polyfill passes to
\* syscall() goes to the kernel (a polyfill that reached itself would not end).
RedirectedOnce ==
  \A t \in Callers : Len(SelectSeq(stack[t], LAMBDA f : f.at = "polyfill")) <= 1

\* A listed call that the program makes is not lost to the polyfill because of
\* earlier ones: outside a redirected call redir is back at 0.  Exception: a
\* vfork child that the execve polyfill replaced never lowered it, and the
\* parent's calls pass through from then on.
RedirBalanced ==
  \A t \in Callers : (\A i \in DOMAIN stack[t] : stack[t][i].at # "polyfill") /\ ~over[t] => redir[t] = 0

\* TUNABLES.md:126-130 on "syscall": "Comma-separated list of syscalls to redirect
\* through their polyfill when called via `syscall()`. By default `syscall()` is a
\* pure passthrough to the kernel": a call goes to its own polyfill or to the
\* kernel, never to the polyfill of another call.
GoesToItsPolyfill ==
  \A t \in Callers : \A i \in DOMAIN stack[t] :
    stack[t][i].at = "polyfill" => stack[t][i].runs = stack[t][i].number
=============================================================================
