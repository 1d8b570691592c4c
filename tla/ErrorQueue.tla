----------------------------- MODULE ErrorQueue -----------------------------
(***************************************************************************)
(* What the error list of soem/ethercatmain.c promises: a queue of at most *)
(* MAXELIST errors, oldest first; a new error that finds it full displaces *)
(* the oldest.  EcatError is the flag an application polls before it reads *)
(* the list: it may be set with nothing to read, never the other way.      *)
(***************************************************************************)
EXTENDS Naturals, Sequences

CONSTANTS
    Errors,         \* the errors that can be reported
    NoError,        \* what a read of the empty queue gives
    MAXELIST        \* EC_MAXELIST, the size of the list

VARIABLES
    queue,          \* the errors not yet read
    ecaterror,      \* the flag EcatError
    popped          \* the last read: whether there was an error, and which

vars == <<queue, ecaterror, popped>>

Init == queue = <<>> /\ ecaterror = FALSE /\ popped = [ok |-> FALSE, ec |-> NoError]

Report(e) ==
    /\ queue' = Append(IF Len(queue) = MAXELIST THEN Tail(queue) ELSE queue, e)
    /\ ecaterror' = TRUE
    /\ UNCHANGED popped

Read ==
    /\ queue # <<>>
    /\ popped' = [ok |-> TRUE, ec |-> Head(queue)]
    /\ queue' = Tail(queue)
    /\ UNCHANGED ecaterror

ReadEmpty ==
    /\ queue = <<>>
    /\ popped' = [ok |-> FALSE, ec |-> NoError]
    /\ ecaterror' = FALSE
    /\ UNCHANGED queue

Next == Read \/ ReadEmpty \/ \E e \in Errors : Report(e)

Spec == Init /\ [][Next]_vars
=============================================================================
