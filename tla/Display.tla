------------------------------- MODULE Display -------------------------------
(***************************************************************************)
(* What the window shows of the drive, on top of Master.  Each cycle the   *)
(* loop's thread copies the answer into the IOmap, takes a snapshot of the *)
(* inputs and posts it to the window's thread.  There onCycleData drops    *)
(* the snapshot, and onPdoCycleUpdate (ETH.cpp) reads the inputs from the  *)
(* IOmap, which the loop may be writing: no lock protects it.              *)
(*                                                                         *)
(* The answers are numbered, and a field of the inputs is the number of    *)
(* the answer it comes from.  The two fields stand for any two pieces of   *)
(* the TxPDO that one access does not move together: the copy writes them  *)
(* in any order, the window reads the status first.                        *)
(***************************************************************************)
EXTENDS Master, Sequences

CONSTANTS MaxHeard,     \* bound: answers
          MaxUpdates    \* bound: updates that wait for the window's thread

ASSUME DisplayAssumption == MaxHeard \in Nat /\ MaxUpdates \in Nat

VARIABLES
    heard,          \* answers that came
    inputs,         \* ec_slave[1].inputs: of each field, its answer
    copying,        \* fields the loop's thread has still to copy
    due,            \* the update of this cycle has not been sent
    updates,        \* cycleData that waits for the window's thread
    showing,        \* the window's thread is in onPdoCycleUpdate
    about,          \* the answer the update is about
    shown           \* what it has put on the label

image == <<heard, inputs>>
loop == <<copying, due>>
label == <<showing, about, shown>>
displayVars == <<image, loop, updates, label>>
allVars == <<vars, displayVars>>

Fields == {"status", "position"}
Same(n) == [f \in Fields |-> n]

DisplayInit ==
    /\ Init
    /\ heard = 0 /\ inputs = Same(0) /\ copying = {} /\ due = FALSE
    /\ updates = <<>>
    /\ showing = FALSE /\ about = 0 /\ shown = Same(0)

-----------------------------------------------------------------------------
(* The loop's thread.                                                      *)

\* The frames of a cycle come back or do not.
LoopCycle ==
    /\ Cycle /\ ~due /\ due' = TRUE
    /\ \/ UNCHANGED <<heard, copying>>
       \/ heard < MaxHeard /\ heard' = heard + 1 /\ copying' = Fields
    /\ UNCHANGED <<inputs, updates, label>>

Copy(f) ==
    /\ f \in copying /\ gui # "aborted"
    /\ inputs' = [inputs EXCEPT ![f] = heard]
    /\ copying' = copying \ {f}
    /\ UNCHANGED <<vars, heard, due, updates, label>>

\* Mutant: the update is sent while the answer is copied.
Emit_Early ==
    /\ due /\ gui # "aborted"
    /\ due' = FALSE
    /\ updates' = IF Len(updates) < MaxUpdates THEN Append(updates, heard) ELSE updates
    /\ UNCHANGED <<vars, image, copying, label>>

\* emit cycleData: a queued call, as the threads differ.
Emit ==
    /\ due /\ copying = {} /\ gui # "aborted"
    /\ due' = FALSE
    /\ updates' = IF Len(updates) < MaxUpdates THEN Append(updates, heard) ELSE updates
    /\ UNCHANGED <<vars, image, copying, label>>

\* An exchange while the window's thread is not in onPdoCycleUpdate.
Exchange ==
    \/ UNCHANGED image
    \/ heard < MaxHeard /\ heard' = heard + 1 /\ inputs' = Same(heard + 1)

\* The last exchange sends no update; the window's thread waits for its end.
LastExchange ==
    /\ LoopEnds /\ ~due
    /\ Exchange
    /\ UNCHANGED <<loop, updates, label>>

-----------------------------------------------------------------------------
(* The window's thread.                                                    *)

\* The handlers of Master; startOp exchanges process data once by itself.
Handler ==
    /\ ~showing /\ Window
    /\ IF gui = "requestOp" THEN Exchange ELSE UNCHANGED image
    /\ UNCHANGED <<loop, updates, label>>

\* onCycleData and the first half of onPdoCycleUpdate.  getTxPDO finds inputs
\* only of a slave that is there and mapped.
BeginShow ==
    /\ gui = "idle" /\ ~showing /\ updates # <<>>
    /\ updates' = Tail(updates)
    /\ IF slavecount >= 1 /\ FMMUunused > 0
       THEN /\ showing' = TRUE /\ about' = Head(updates)
            /\ shown' = [shown EXCEPT !["status"] = inputs["status"]]
       ELSE UNCHANGED label
    /\ UNCHANGED <<vars, image, loop>>

EndShow ==
    /\ showing /\ showing' = FALSE
    /\ shown' = [shown EXCEPT !["position"] = inputs["position"]]
    /\ UNCHANGED <<vars, image, loop, updates, about>>

-----------------------------------------------------------------------------
LoopThread == LoopCycle \/ (\E f \in Fields : Copy(f)) \/ Emit \/ LastExchange
Elsewhere == (RunBegins \/ CheckThread \/ SlaveObeys \/ SlaveDrops) /\ UNCHANGED displayVars

DisplayNext == Handler \/ BeginShow \/ EndShow \/ LoopThread \/ Elsewhere
DisplaySpec == DisplayInit /\ [][DisplayNext]_allVars

\* As in Master; an event that has been posted is handled, and a cycle that
\* was begun comes to its end.
DisplayFairness ==
    /\ WF_allVars(Handler /\ gui \in {"requestOp", "waitOp"})
    /\ WF_allVars(Handler /\ gui \in {"wait", "endCheck", "sleep"})
    /\ WF_allVars(BeginShow \/ EndShow)
    /\ WF_allVars(RunBegins /\ UNCHANGED displayVars) /\ WF_allVars(LastExchange)
    /\ WF_allVars(LoopCycle)
    /\ WF_allVars((\E f \in Fields : Copy(f)) \/ Emit)
    /\ WF_allVars(CheckLoop /\ UNCHANGED displayVars) /\ WF_allVars(CheckEnds /\ UNCHANGED displayVars)
    /\ WF_allVars(SlaveObeys /\ UNCHANGED displayVars)
DisplayFairSpec == DisplaySpec /\ DisplayFairness

-----------------------------------------------------------------------------
DisplayTypeOK ==
    /\ heard \in 0 .. MaxHeard /\ inputs \in [Fields -> 0 .. MaxHeard]
    /\ copying \subseteq Fields /\ due \in BOOLEAN
    /\ updates \in Seq(0 .. MaxHeard) /\ Len(updates) <= MaxUpdates
    /\ showing \in BOOLEAN /\ about \in 0 .. MaxHeard
    /\ shown \in [Fields -> 0 .. MaxHeard]

\* What the window shows for an update, read from the IOmap without a lock
\* while the loop goes on (ETH.cpp:94): no field is older than the answer the
\* update was sent for, and what is read last is at most one answer behind
\* what is read first, however the copy and the two reads interleave and
\* however long the update was in the queue, past a stop, a scan and a start.
ShownIsNew ==
    /\ DisplayTypeOK
    /\ showing => shown["status"] >= about
    /\ ~showing => \A f \in Fields : shown[f] >= about
    /\ ~showing => shown["position"] >= shown["status"] - 1
=============================================================================
