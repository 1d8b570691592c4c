----------------------------- MODULE Redundancy -----------------------------
(***************************************************************************)
(* The redundant mode of the frame driver (oshw/win32/nicdrv.c, redstate = *)
(* ECT_RED_DOUBLE, opened by ecx_init_redundant): the slaves lie on a ring *)
(* between two network ports, and one blocking primitive of                *)
(* soem/ethercatbase.c is sent, waited for, rerouted and repeated while    *)
(* links of the ring break and are mended, and frames are lost or late.    *)
(*                                                                         *)
(* Slaves process a frame only on its way from the primary towards the     *)
(* secondary port; link k joins slave k to slave k + 1, links 0 and N the  *)
(* ends of the row to the two ports.  A frame that meets a broken link     *)
(* turns back.  The sharing of the port by threads, and the buffer states, *)
(* are NicDrv's subject: here one thread works on one frame index.         *)
(***************************************************************************)
EXTENDS Integers, Sequences, FiniteSetsExt

CONSTANTS
    N,              \* slaves on the ring
    Requests,       \* what the primitive asks for: [kind, slaves]
    Rings,          \* the sets of links that may be broken at the start
    MaxChanges,     \* bound: links that break or are mended meanwhile
    MaxLost,        \* bound: frames lost
    MaxLate,        \* bound: frames left behind when a wait ended
    MaxAttempts     \* bound: rounds of ecx_srconfirm before its timer1 is over

Links == 0 .. N
Slaves == 1 .. N
Kind == {"broadcast", "positioned", "configured", "logical", "clock"}

ASSUME RedundancyAssumption ==
    /\ N \in Nat \ {0} /\ MaxAttempts \in Nat \ {0}
    /\ MaxChanges \in Nat /\ MaxLost \in Nat /\ MaxLate \in Nat
    /\ Requests \subseteq [kind : Kind, slaves : (SUBSET Slaves) \ {{}}]
    /\ Rings \subseteq SUBSET Links

VARIABLES
    request, broken,
    pc,
    txbuf,          \* txbuf[idx]: the slaves that have processed it
    rxbuf,          \* per port: the frame in rxbuf[idx]
    rxsa,           \* per port: where the frame there was sent from
    wkc, wkc2,
    wire,           \* per port: the frames that will come in there
    did,            \* per slave: how often it has done what was asked for
    attempts, changes, lost, late   \* history

vars == <<request, broken, pc, txbuf, rxbuf, rxsa, wkc, wkc2, wire, did,
          attempts, changes, lost, late>>

(* The primitives of ethercatbase.c, by how they address the slaves.       *)
Broadcast == [kind |-> "broadcast", slaves |-> Slaves]          \* BWR, BRD
Positioned(s) == [kind |-> "positioned", slaves |-> {s}]        \* APRD, APWR
Configured(s) == [kind |-> "configured", slaves |-> {s}]        \* FPRD, FPWR
Clock(s) == [kind |-> "clock", slaves |-> {s}]                  \* ARMW, FRMW
Logical(served) == [kind |-> "logical", slaves |-> served]      \* LRW, LRD, LWR

Port == {"prim", "sec"}
NOFRAME == -1
NoFrame == [src |-> "none", dummy |-> FALSE, passed |-> <<>>]

\* The dummy is a datagram of its own that broadcasts a read.
RequestFrame(passed) == [src |-> "prim", dummy |-> FALSE, passed |-> passed]
DummyFrame == [src |-> "sec", dummy |-> TRUE, passed |-> <<>>]

Init ==
    /\ request \in Requests /\ broken \in Rings
    /\ pc = "send"
    /\ txbuf = <<>>
    /\ rxbuf = [p \in Port |-> NoFrame] /\ rxsa = [p \in Port |-> "none"]
    /\ wkc = NOFRAME /\ wkc2 = NOFRAME
    /\ wire = [p \in Port |-> <<>>]
    /\ did = [s \in Slaves |-> 0]
    /\ attempts = 1 /\ changes = 0 /\ lost = 0 /\ late = 0

-----------------------------------------------------------------------------
(* The slaves and the ring.                                                *)

\* The places on a frame's way at which a slave does what the request says.
\* A positioned request counts the slaves it passes; a clock request is read
\* by one slave and written to all others.
Executions(passed) ==
    {k \in DOMAIN passed :
        CASE request.kind = "positioned" -> k \in request.slaves
          [] request.kind \in {"configured", "logical"} -> passed[k] \in request.slaves
          [] OTHER -> TRUE}

Wkc(frame) == IF frame.dummy THEN Len(frame.passed)
              ELSE Cardinality(Executions(frame.passed))

\* The slaves a..b in the order in which a frame passes them.
Row(a, b) == [k \in 1 .. b - a + 1 |-> a + k - 1]

\* The slaves that process a frame sent from a port, and where it comes in.
Way(port) == IF broken = {} THEN IF port = "prim" THEN Row(1, N) ELSE <<>>
             ELSE IF port = "prim" THEN Row(1, Min(broken)) ELSE Row(Max(broken) + 1, N)
ArrivesAt(port) == IF broken = {} THEN Port \ {port}
                   ELSE IF port = "prim" THEN {"prim"} \ {p \in Port : 0 \in broken}
                   ELSE {"sec"} \ {p \in Port : N \in broken}

\* The frame goes on its way from a port; it may be lost behind any slave.
Transmit(port, frame) ==
    \E n \in 0 .. Len(Way(port)), arrives \in BOOLEAN :
        /\ arrives => n = Len(Way(port))
        /\ LET passed == frame.passed \o SubSeq(Way(port), 1, n)
           IN  /\ wire' = [p \in Port |->
                             IF arrives /\ p \in ArrivesAt(port)
                             THEN Append(wire[p], [frame EXCEPT !.passed = passed])
                             ELSE wire[p]]
               /\ did' = [s \in Slaves |-> did[s] +
                             IF frame.dummy THEN 0
                             ELSE Cardinality({k \in Executions(passed) :
                                                 k > Len(frame.passed) /\ passed[k] = s})]
        /\ lost' = IF arrives THEN lost ELSE lost + 1
        /\ lost' <= MaxLost

\* A link breaks, or one is mended.
Change ==
    /\ pc # "done" /\ changes < MaxChanges
    /\ \E k \in Links : broken' = IF k \in broken THEN broken \ {k} ELSE broken \cup {k}
    /\ changes' = changes + 1
    /\ UNCHANGED <<request, pc, txbuf, rxbuf, rxsa, wkc, wkc2, wire, did,
                   attempts, lost, late>>

-----------------------------------------------------------------------------
(* ecx_outframe_red: the request leaves the primary port, a dummy the      *)
(* secondary one.                                                          *)

SendRequest ==
    /\ pc = "send" /\ pc' = "dummy"
    /\ Transmit("prim", RequestFrame(txbuf))
    /\ UNCHANGED <<request, broken, txbuf, rxbuf, rxsa, wkc, wkc2, attempts,
                   changes, late>>

SendDummy ==
    /\ pc = "dummy" /\ pc' = "wait"
    /\ Transmit("sec", DummyFrame)
    /\ wkc' = NOFRAME /\ wkc2' = NOFRAME
    /\ UNCHANGED <<request, broken, txbuf, rxbuf, rxsa, attempts, changes, late>>

-----------------------------------------------------------------------------
(* ecx_inframe on either stack: any frame with the index is taken.         *)

Inframe(port) ==
    /\ wire[port] # <<>>
    /\ rxbuf' = [rxbuf EXCEPT ![port] = Head(wire[port])]
    /\ rxsa' = [rxsa EXCEPT ![port] = Head(wire[port]).src]
    /\ wire' = [wire EXCEPT ![port] = Tail(@)]

\* "only read frame if not already in"
ReceivePrimary ==
    /\ pc = "wait" /\ wkc = NOFRAME
    /\ Inframe("prim") /\ wkc' = Wkc(Head(wire["prim"]))
    /\ UNCHANGED <<request, broken, pc, txbuf, wkc2, did, attempts, changes,
                   lost, late>>

ReceiveSecondary ==
    /\ pc = "wait" /\ wkc2 = NOFRAME
    /\ Inframe("sec") /\ wkc2' = Wkc(Head(wire["sec"]))
    /\ UNCHANGED <<request, broken, pc, txbuf, wkc, did, attempts, changes,
                   lost, late>>

\* The frames that the master leaves behind; those that come in later are
\* taken for answers to what it sends next.
Left == Len(wire["prim"]) + Len(wire["sec"])

\* Both frames are in, or the timer runs out.
WaitEnds ==
    /\ pc = "wait" /\ pc' = "route"
    /\ late' = late + Left /\ late' <= MaxLate
    /\ UNCHANGED <<request, broken, txbuf, rxbuf, rxsa, wkc, wkc2, wire, did,
                   attempts, changes, lost>>

-----------------------------------------------------------------------------
(* The decision tree of ecx_waitinframe_red.                               *)

primrx == IF wkc > NOFRAME THEN rxsa["prim"] ELSE "none"
secrx == IF wkc2 > NOFRAME THEN rxsa["sec"] ELSE "none"

\* ecx_srconfirm takes any work counter for an answer; without one it tries
\* again until its time is over.
Answered(w) ==
    \/ w > NOFRAME /\ pc' = "done" /\ UNCHANGED attempts
    \/ w = NOFRAME /\ pc' = "done" /\ UNCHANGED attempts
    \/ w = NOFRAME /\ attempts < MaxAttempts /\ pc' = "send" /\ attempts' = attempts + 1

\* "normal situation in redundant mode"
TakeSecondary ==
    /\ pc = "route" /\ primrx = "sec" /\ secrx = "prim"
    /\ rxbuf' = [rxbuf EXCEPT !["prim"] = rxbuf["sec"]]
    /\ wkc' = wkc2 /\ Answered(wkc2)
    /\ UNCHANGED <<request, broken, txbuf, rxsa, wkc2, wire, did, changes, lost, late>>

Reroutes == secrx = "sec" /\ primrx \in {"none", "prim"}

TakePrimary ==
    /\ pc = "route" /\ ~Reroutes /\ ~(primrx = "sec" /\ secrx = "prim")
    /\ Answered(wkc)
    /\ UNCHANGED <<request, broken, txbuf, rxbuf, rxsa, wkc, wkc2, wire, did,
                   changes, lost, late>>

\* Mutant: the original request is sent again though part of the slaves have
\* processed it.
Reroute_Original ==
    /\ pc = "route" /\ Reroutes /\ pc' = "again"
    /\ UNCHANGED txbuf
    /\ Transmit("sec", RequestFrame(txbuf'))
    /\ UNCHANGED <<request, broken, rxbuf, rxsa, wkc, wkc2, attempts, changes, late>>

\* "If both primary and secondary have partial connection retransmit the
\* primary received frame over the secondary socket."
Reroute ==
    /\ pc = "route" /\ Reroutes /\ pc' = "again"
    /\ txbuf' = IF primrx = "prim" THEN rxbuf["prim"].passed ELSE txbuf
    /\ Transmit("sec", RequestFrame(txbuf'))
    /\ UNCHANGED <<request, broken, rxbuf, rxsa, wkc, wkc2, attempts, changes, late>>

\* Whatever comes in at the secondary port is taken for the rerouted request.
RerouteAnswered ==
    /\ pc = "again" /\ wire["sec"] # <<>>
    /\ LET frame == Head(wire["sec"])
       IN  /\ rxbuf' = [p \in Port |-> frame]
           /\ rxsa' = [rxsa EXCEPT !["sec"] = frame.src]
           /\ wkc2' = Wkc(frame) /\ wkc' = wkc2' /\ Answered(wkc')
    /\ wire' = [wire EXCEPT !["sec"] = Tail(@)]
    /\ UNCHANGED <<request, broken, txbuf, did, changes, lost, late>>

\* timer2 runs out: what the primary port received counts.
RerouteTimeout ==
    /\ pc = "again" /\ Answered(wkc)
    /\ wkc2' = NOFRAME
    /\ late' = late + Left /\ late' <= MaxLate
    /\ UNCHANGED <<request, broken, txbuf, rxbuf, rxsa, wkc, wire, did, changes, lost>>

-----------------------------------------------------------------------------
Next ==
    \/ Change
    \/ SendRequest \/ SendDummy
    \/ ReceivePrimary \/ ReceiveSecondary \/ WaitEnds
    \/ TakeSecondary \/ TakePrimary
    \/ Reroute \/ RerouteAnswered \/ RerouteTimeout

Spec == Init /\ [][Next]_vars

-----------------------------------------------------------------------------
(* Properties.                                                             *)

\* What the caller expects of a row of slaves without a fault.
WholeRow == Row(1, N)
Addressed == {WholeRow[k] : k \in Executions(WholeRow)}
Expected == Cardinality(Addressed)

\* The primitives for logical addresses look at the command of the answer
\* before they copy its data, the others only at the work counter.
CopiesData == wkc > 0 /\ (request.kind = "logical" => ~rxbuf["prim"].dummy)

TypeOK ==
    /\ pc \in {"send", "dummy", "wait", "route", "again", "done"}
    /\ wkc \in NOFRAME .. 2 * N /\ wkc2 \in NOFRAME .. 2 * N
    /\ \A p \in Port : rxsa[p] \in {"none", "prim", "sec"} /\ Len(wire[p]) <= 3 * MaxAttempts
    /\ broken \subseteq Links

\* "Any one of the connections (also an interconnect) can be removed and the
\* slaves are still serviced with packets" (nicdrv.c:26): whichever link is
\* broken, the answer is what one pass over all slaves in their order gives,
\* each slave has done what it was asked for once, and at the first attempt.
Serviced ==
    pc = "done" /\ changes = 0 /\ lost = 0 /\ late = 0 /\ Cardinality(broken) <= 1 =>
        /\ wkc = Expected /\ rxbuf["prim"] = RequestFrame(WholeRow)
        /\ \A s \in Slaves : did[s] = IF s \in Addressed THEN 1 ELSE 0
        /\ attempts = 1

\* When links break or are mended in the middle of it, two are broken, or
\* frames are lost, a full work counter still means that every slave addressed
\* did its part, and data copied out is never the dummy's, as long as no frame
\* was left behind by an earlier wait (when link 0 breaks between the two sends
\* both frames come in at the secondary port, and the next attempt takes the
\* dummy there for the rerouted request).  (A request by position is exempt: sent again from the other side
\* it counts other slaves.)
Truthful ==
    pc = "done" /\ late = 0 =>
        /\ CopiesData => ~rxbuf["prim"].dummy
        /\ wkc = Expected /\ request.kind # "positioned" =>
             \A s \in Addressed : did[s] > 0
=============================================================================
