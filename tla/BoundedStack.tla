----------------------------- MODULE BoundedStack -----------------------------
(***************************************************************************)
(* What C_3_sem/Stack promises its users: one stack of pointers, shared by *)
(* all of them, on which push and pop take effect at one moment each.  A   *)
(* process that is killed inside pop takes the pointer with it.            *)
(***************************************************************************)
EXTENDS Integers, Sequences

CONSTANTS Proc, Val, Nil,
          Bound   \* the size the stack never exceeds

VARIABLES stack,  \* the pointers, the top last
          got     \* the pointer a pop of each process is about to return

Init == stack = <<>> /\ got = [p \in Proc |-> Nil]

Push(v) ==
  /\ Len(stack) < Bound
  /\ stack' = Append(stack, v)
  /\ UNCHANGED got

Top == stack[Len(stack)]
Rest == SubSeq(stack, 1, Len(stack) - 1)

Pop(p) ==
  /\ stack # <<>> /\ got[p] = Nil
  /\ got' = [got EXCEPT ![p] = Top]
  /\ stack' = Rest

\* The pop of p returns its pointer, or p dies with it.
Return(p) ==
  /\ got[p] # Nil
  /\ got' = [got EXCEPT ![p] = Nil]
  /\ UNCHANGED stack

\* A process dies after it has lowered the size and before it has the pointer.
Lose == stack # <<>> /\ stack' = Rest /\ UNCHANGED got

Next ==
  \/ Lose
  \/ \E v \in Val : Push(v)
  \/ \E p \in Proc : Pop(p) \/ Return(p)

Spec == Init /\ [][Next]_<<stack, got>>
=============================================================================
