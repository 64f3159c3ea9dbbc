----------------------------- MODULE JobQueue ------------------------------
(***************************************************************************)
(* What the shared queue promises the worker processes, as internal/queue  *)
(* uses it: an entry, once pushed, waits until a worker takes it, and no   *)
(* entry is taken twice, whatever processes crash, stop and start.  It     *)
(* does not promise that a waiting entry is ever taken.                    *)
(***************************************************************************)
EXTENDS Naturals

CONSTANT Entries

VARIABLES
    waiting,     \* entries pushed and not yet taken
    taken        \* taken[e]: how many times a worker took e

QueueInit ==
    /\ waiting = {}
    /\ taken = [e \in Entries |-> 0]

Push(e) ==
    /\ e \notin waiting
    /\ taken[e] = 0
    /\ waiting' = waiting \cup {e}
    /\ UNCHANGED taken

Take(e) ==
    /\ e \in waiting
    /\ waiting' = waiting \ {e}
    /\ taken' = [taken EXCEPT ![e] = @ + 1]

QueueNext == \E e \in Entries : Push(e) \/ Take(e)

QueueSpec == QueueInit /\ [][QueueNext]_<<waiting, taken>>
=============================================================================
