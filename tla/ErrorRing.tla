------------------------------ MODULE ErrorRing ------------------------------
(***************************************************************************)
(* The error list of soem/ethercatmain.c: a ring of MAXELIST + 1 entries   *)
(* with a head, where the next error goes, and a tail, the oldest one.     *)
(* Full and empty are told apart by the one entry that is never used.      *)
(* Calls are atomic here: one thread at a time uses the list.              *)
(***************************************************************************)
EXTENDS Integers, Sequences

CONSTANTS Errors, NoError, MAXELIST

ASSUME RingAssumption == MAXELIST \in Nat \ {0} /\ NoError \notin Errors

VARIABLES
    Error,          \* elist->Error
    head, tail,     \* elist->head, elist->tail
    ecaterror,      \* *context->ecaterror
    popped          \* result and output of the last ecx_poperror

ringVars == <<Error, head, tail, ecaterror, popped>>

Slot == 0 .. MAXELIST

\* Both pointers are incremented first and brought back afterwards.
Wrap(i) == IF i > MAXELIST THEN 0 ELSE i

RingInit ==
    /\ Error = [i \in Slot |-> [ec |-> NoError, signal |-> FALSE]]
    /\ head = 0 /\ tail = 0
    /\ ecaterror = FALSE
    /\ popped = [ok |-> FALSE, ec |-> NoError]

\* Mutant: the tail stays where it is when the head has met it.
pusherror_TailStays(e) ==
    /\ Error' = [Error EXCEPT ![head] = [ec |-> e, signal |-> TRUE]]
    /\ head' = Wrap(head + 1)
    /\ ecaterror' = TRUE
    /\ UNCHANGED <<tail, popped>>

\* ecx_pusherror, reached from ecx_packeterror, ecx_mbxerror and
\* ecx_mbxemergencyerror.
pusherror(e) ==
    /\ Error' = [Error EXCEPT ![head] = [ec |-> e, signal |-> TRUE]]
    /\ head' = Wrap(head + 1)
    /\ tail' = IF head' = tail THEN Wrap(tail + 1) ELSE tail
    /\ ecaterror' = TRUE
    /\ UNCHANGED popped

iserror == head # tail

\* An entry is copied out even when there is none; only the result tells.
poperror ==
    /\ popped' = [ok |-> iserror, ec |-> Error[tail].ec]
    /\ Error' = [Error EXCEPT ![tail].signal = FALSE]
    /\ tail' = IF iserror THEN Wrap(tail + 1) ELSE tail
    /\ ecaterror' = (iserror /\ ecaterror)
    /\ UNCHANGED head

RingNext == poperror \/ \E e \in Errors : pusherror(e)

RingSpec == RingInit /\ [][RingNext]_ringVars

-----------------------------------------------------------------------------
\* head and tail name entries of the ring, and entries hold errors or nothing.
RingTypeOK ==
    /\ Error \in [Slot -> [ec : Errors \cup {NoError}, signal : BOOLEAN]]
    /\ head \in Slot /\ tail \in Slot
    /\ ecaterror \in BOOLEAN
    /\ popped \in [ok : BOOLEAN, ec : Errors \cup {NoError}]

\* The entries from tail up to head, in the order in which they were pushed.
Count == IF head >= tail THEN head - tail ELSE head - tail + MAXELIST + 1
At(k) == IF tail + k - 1 > MAXELIST THEN tail + k - 1 - (MAXELIST + 1)
                                    ELSE tail + k - 1
Pending == [k \in 1 .. Count |-> Error[At(k)].ec]

\* The ring is the bounded queue: nothing is lost but the oldest error of a
\* full list, nothing is read twice, and order is kept across the wrap-around
\* of head and tail.
Queue == INSTANCE ErrorQueue WITH
    queue <- Pending,
    popped <- [ok |-> popped.ok,
               ec |-> IF popped.ok THEN popped.ec ELSE NoError]
ImplementsQueue == Queue!Spec
=============================================================================
