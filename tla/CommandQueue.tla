----------------------------- MODULE CommandQueue -----------------------------
(***************************************************************************)
(* What rigOsc promises a caller of send, sendTo, connectTcp and           *)
(* applyEndpoint about the order of things, free of threads, buffers and   *)
(* wake-up datagrams: the commands form one queue, they are performed one  *)
(* at a time in the order they were issued, and the token of the last      *)
(* apply performed is published.  Closing the queue (cleanup) abandons     *)
(* what is still in it.                                                    *)
(***************************************************************************)
EXTENDS Naturals, Sequences

CONSTANT Command        \* the commands; an apply carries a token > 0, the others 0

VARIABLES
    todo,               \* issued and not yet performed, oldest first
    answered,           \* token of the last apply performed, 0 before the first
    closed              \* TRUE once nothing will be performed any more

vars == <<todo, answered, closed>>

Init ==
    /\ todo = <<>>
    /\ answered = 0
    /\ closed = FALSE

\* A new command goes to the end, whatever it is.
Issue ==
    /\ todo' # <<>>
    /\ LET c == todo'[Len(todo')] IN c \in Command /\ todo' = Append(todo, c)
    /\ UNCHANGED <<answered, closed>>

Perform ==
    /\ ~closed
    /\ todo # <<>>
    /\ todo' = Tail(todo)
    /\ answered' = IF Head(todo).kind = "apply" THEN Head(todo).token ELSE answered
    /\ UNCHANGED closed

Close ==
    /\ ~closed
    /\ closed' = TRUE
    /\ UNCHANGED <<todo, answered>>

Next == Issue \/ Perform \/ Close

Spec == Init /\ [][Next]_vars
===============================================================================
