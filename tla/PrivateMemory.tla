---------------------------- MODULE PrivateMemory ----------------------------
(***************************************************************************)
(* What memory management promises: every process has a memory of its own. *)
(* fork() copies it, exec() replaces it by the image of the program, and   *)
(* nothing but a store of the process changes it.  Memory.tla implements   *)
(* this with pages that processes share until somebody writes.             *)
(***************************************************************************)
CONSTANTS Slot,     \* entries of task[]
          Page,     \* pages of an address space
          Value,    \* what a page may hold
          Image,    \* page -> its value after exec()
          Gone      \* the memory of no process

VARIABLES space,    \* slot -> its memory, or Gone
          stored    \* <<p, a>> when p has just stored into page a, or <<>>
vars == <<space, stored>>

Empty == {[a \in Page |-> 0], Image}
Init == space \in [Slot -> {Gone} \cup Empty] /\ stored = <<>>

Store(p, a, v) ==
    /\ space[p] # Gone
    /\ space' = [space EXCEPT ![p][a] = v]
    /\ stored' = <<p, a>>

Becomes(p, memory) == space' = [space EXCEPT ![p] = memory] /\ stored' = <<>>
Exec(p) == space[p] # Gone /\ Becomes(p, Image)
Exit(p) == space[p] # Gone /\ Becomes(p, Gone)
Fork(p, c) == space[p] # Gone /\ space[c] = Gone /\ Becomes(c, space[p])

(* Anything else the system does is not seen. *)
Unseen == space' = space /\ stored' = <<>>

Next ==
    \/ \E p \in Slot :
         \/ \E a \in Page, v \in Value : Store(p, a, v)
         \/ Exec(p) \/ Exit(p)
         \/ \E c \in Slot : Fork(p, c)
    \/ Unseen

Spec == Init /\ [][Next]_vars
=============================================================================
