---------------------------- MODULE TaskExecutor ----------------------------
(***************************************************************************)
(* What a thread pool promises to its users, without threads, condition    *)
(* variables or counters: an accepted task is run exactly once, in the     *)
(* order of acceptance, by at most `width` threads at a time; a task is    *)
(* refused only while `cap` tasks are waiting; and the pool is destroyed   *)
(* only after everything it accepted has been run.                         *)
(***************************************************************************)
EXTENDS Integers, Sequences, FiniteSets

CONSTANT Tasks

VARIABLES
    closed,   \* has the destructor returned
    cap,      \* how many tasks may wait; negative: any number
    width,    \* how many tasks may run at a time
    pending,  \* accepted tasks that no thread has taken, oldest first
    running, done, refused

vars == <<closed, cap, width, pending, running, done, refused>>

Known == {pending[i] : i \in 1..Len(pending)} \cup running \cup done \cup refused

HasRoom == cap < 0 \/ Len(pending) < cap

Init ==
    /\ closed = FALSE
    /\ cap \in Int /\ width \in Int
    /\ pending = <<>>
    /\ running = {} /\ done = {} /\ refused = {}

\* The limits are set before the first task is decided upon.
Configure ==
    /\ Known = {}
    /\ cap' \in Int /\ width' \in Int
    /\ UNCHANGED <<closed, pending, running, done, refused>>

Accept(t) ==
    /\ ~closed
    /\ t \notin Known
    /\ HasRoom
    /\ pending' = Append(pending, t)
    /\ UNCHANGED <<closed, cap, width, running, done, refused>>

Refuse(t) ==
    /\ ~closed
    /\ t \notin Known
    /\ ~HasRoom
    /\ refused' = refused \cup {t}
    /\ UNCHANGED <<closed, cap, width, pending, running, done>>

Begin ==
    /\ pending # <<>>
    /\ Cardinality(running) < width
    /\ pending' = Tail(pending)
    /\ running' = running \cup {Head(pending)}
    /\ UNCHANGED <<closed, cap, width, done, refused>>

Finish(t) ==
    /\ t \in running
    /\ running' = running \ {t}
    /\ done' = done \cup {t}
    /\ UNCHANGED <<closed, cap, width, pending, refused>>

Close ==
    /\ ~closed
    /\ pending = <<>> /\ running = {}
    /\ closed' = TRUE
    /\ UNCHANGED <<cap, width, pending, running, done, refused>>

Next ==
    \/ Configure \/ Begin \/ Close
    \/ \E t \in Tasks : Accept(t) \/ Refuse(t) \/ Finish(t)

Spec == Init /\ [][Next]_vars
=============================================================================
