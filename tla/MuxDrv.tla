------------------------------- MODULE MuxDrv -------------------------------
(***************************************************************************)
(* The frame driver of the VxWorks port (oshw/vxworks/nicdrv.c) in its     *)
(* redundant mode, on the ring of Redundancy.  Frames are not polled: a    *)
(* task of the network stack calls mux_rx_callback for each, which posts   *)
(* it to a queue of one frame that every index has on either port, and the *)
(* thread that sent takes it from there.  Decision tree and retries are    *)
(* those of Redundancy; what is new is the queues, the status that guards  *)
(* them, and the sender that empties one before it sends.                  *)
(*                                                                         *)
(* driver chooses, once and for all, which of the two drivers runs.        *)
(***************************************************************************)
EXTENDS Redundancy

CONSTANT MaxFailed      \* bound: sends that fail

ASSUME MuxAssumption == MaxFailed \in Nat

VARIABLES
    driver,         \* "pcap" or "mux"
    rxbufstat,      \* per port: rxbufstat[idx]
    msgQ,           \* per port: msgQId[idx]
    failed,         \* history: sends that failed
    early           \* history: an answer came in before the dummy was sent
                    \* and was lost for that

queues == <<rxbufstat, msgQ>>
muxVars == <<driver, queues, failed, early>>

\* A frame that an earlier user of the index did not wait for.
Abandoned == [src |-> "old", dummy |-> TRUE, passed |-> <<>>]

\* ecx_getindex and ecx_setbufstat.
Allocated == [prim |-> "ALLOC", sec |-> "EMPTY"]
Released == [p \in Port |-> "EMPTY"]

\* Only the primary queue may still hold a frame: an abandoned one in the
\* secondary queue is taken for an answer.
MuxInit ==
    /\ Init
    /\ driver \in {"pcap", "mux"}
    /\ rxbufstat = Allocated
    /\ msgQ \in {[prim |-> q, sec |-> <<>>] : q \in {<<>>, <<Abandoned>>}}
    /\ driver = "pcap" => msgQ["prim"] = <<>>
    /\ failed = 0 /\ early = FALSE

-----------------------------------------------------------------------------
(* Sending.                                                                *)

\* ec_outfram_send: "Clean up any abandoned frames" - of the primary queue,
\* whichever port it sends from - and send, or fail to.
OutframSend(port, frame) ==
    /\ msgQ' = [msgQ EXCEPT !["prim"] = <<>>]
    /\ early' = (early \/ (port = "sec" /\ msgQ["prim"] # <<>>))
    /\ \/ /\ Transmit(port, frame)
          /\ rxbufstat' = [rxbufstat EXCEPT ![port] = "TX"]
          /\ UNCHANGED failed
       \/ /\ failed < MaxFailed /\ failed' = failed + 1
          /\ rxbufstat' = [rxbufstat EXCEPT ![port] = "EMPTY"]
          /\ UNCHANGED <<wire, did, lost>>

\* ecx_outframe: the status is set before the queue is emptied, so that what
\* the hook posts in between is cleaned up as well.
MuxSendRequest ==
    /\ pc = "send" /\ pc' = "dummy"
    /\ OutframSend("prim", RequestFrame(txbuf))
    /\ UNCHANGED <<request, broken, txbuf, rxbuf, rxsa, wkc, wkc2, attempts,
                   changes, late, driver>>

MuxSendDummy ==
    /\ pc = "dummy" /\ pc' = "wait"
    /\ OutframSend("sec", DummyFrame)
    /\ wkc' = NOFRAME /\ wkc2' = NOFRAME
    /\ UNCHANGED <<request, broken, txbuf, rxbuf, rxsa, attempts, changes,
                   late, driver>>

-----------------------------------------------------------------------------
(* mux_rx_callback, in the task of the network stack, at any time.         *)

\* The frame is posted when somebody expects it; a frame that nobody took
\* yet makes room: "We want the latest received frame in the buffer".
mux_rx_callback(port) ==
    /\ pc # "done" /\ wire[port] # <<>>
    /\ msgQ' = IF rxbufstat[port] = "TX"
               THEN [msgQ EXCEPT ![port] = <<Head(wire[port])>>] ELSE msgQ
    /\ early' = (early \/ (pc = "dummy" /\ rxbufstat[port] # "TX"))
    /\ wire' = [wire EXCEPT ![port] = Tail(@)]
    /\ UNCHANGED <<request, broken, pc, txbuf, rxbuf, rxsa, wkc, wkc2, did,
                   attempts, changes, lost, late, driver, rxbufstat, failed>>

-----------------------------------------------------------------------------
(* Receiving.                                                              *)

\* ecx_recvpkt and ecx_inframe: what is in the queue is the answer.
MuxInframe(port) ==
    /\ msgQ[port] # <<>>
    /\ rxbuf' = [rxbuf EXCEPT ![port] = Head(msgQ[port])]
    /\ rxsa' = [rxsa EXCEPT ![port] = Head(msgQ[port]).src]
    /\ msgQ' = [msgQ EXCEPT ![port] = <<>>]
    /\ rxbufstat' = [rxbufstat EXCEPT ![port] = "COMPLETE"]

MuxReceivePrimary ==
    /\ pc = "wait" /\ wkc = NOFRAME
    /\ MuxInframe("prim") /\ wkc' = Wkc(Head(msgQ["prim"]))
    /\ UNCHANGED <<request, broken, pc, txbuf, wkc2, wire, did, attempts,
                   changes, lost, late, driver, failed, early>>

MuxReceiveSecondary ==
    /\ pc = "wait" /\ wkc2 = NOFRAME
    /\ MuxInframe("sec") /\ wkc2' = Wkc(Head(msgQ["sec"]))
    /\ UNCHANGED <<request, broken, pc, txbuf, wkc, wire, did, attempts,
                   changes, lost, late, driver, failed, early>>

MuxLeft == Left + Len(msgQ["prim"]) + Len(msgQ["sec"])

\* Each turn of the wait ends with the secondary queue.
MuxWaitEnds ==
    /\ pc = "wait" /\ pc' = "route"
    /\ wkc2 = NOFRAME => msgQ["sec"] = <<>>
    /\ late' = late + MuxLeft /\ late' <= MaxLate
    /\ UNCHANGED <<request, broken, txbuf, rxbuf, rxsa, wkc, wkc2, wire, did,
                   attempts, changes, lost, muxVars>>

\* When srconfirm returns the primitive frees the index on both ports.
Frees == rxbufstat' = IF pc' = "done" THEN Released ELSE rxbufstat

MuxTake ==
    /\ TakeSecondary \/ TakePrimary
    /\ Frees
    /\ UNCHANGED <<driver, msgQ, failed, early>>

MuxReroute ==
    /\ pc = "route" /\ Reroutes /\ pc' = "again"
    /\ txbuf' = IF primrx = "prim" THEN rxbuf["prim"].passed ELSE txbuf
    /\ OutframSend("sec", RequestFrame(txbuf'))
    /\ UNCHANGED <<request, broken, rxbuf, rxsa, wkc, wkc2, attempts, changes,
                   late, driver>>

MuxRerouteAnswered ==
    /\ pc = "again" /\ msgQ["sec"] # <<>>
    /\ LET frame == Head(msgQ["sec"])
       IN  /\ rxbuf' = [p \in Port |-> frame]
           /\ rxsa' = [rxsa EXCEPT !["sec"] = frame.src]
           /\ wkc2' = Wkc(frame) /\ wkc' = wkc2' /\ Answered(wkc')
    /\ msgQ' = [msgQ EXCEPT !["sec"] = <<>>]
    /\ rxbufstat' = IF pc' = "done" THEN Released
                    ELSE [rxbufstat EXCEPT !["sec"] = "COMPLETE"]
    /\ UNCHANGED <<request, broken, txbuf, wire, did, changes, lost, late,
                   driver, failed, early>>

MuxRerouteTimeout ==
    /\ pc = "again" /\ msgQ["sec"] = <<>> /\ Answered(wkc)
    /\ wkc2' = NOFRAME
    /\ late' = late + MuxLeft /\ late' <= MaxLate
    /\ Frees
    /\ UNCHANGED <<request, broken, txbuf, rxbuf, rxsa, wkc, wire, did,
                   changes, lost, driver, msgQ, failed, early>>

-----------------------------------------------------------------------------
MuxNext ==
    \/ Change /\ UNCHANGED muxVars
    \/ MuxSendRequest \/ MuxSendDummy
    \/ \E port \in Port : mux_rx_callback(port)
    \/ MuxReceivePrimary \/ MuxReceiveSecondary \/ MuxWaitEnds
    \/ MuxTake
    \/ MuxReroute \/ MuxRerouteAnswered \/ MuxRerouteTimeout

NextOf ==
    \/ driver = "pcap" /\ Next /\ UNCHANGED muxVars
    \/ driver = "mux" /\ MuxNext

SpecOf == MuxInit /\ [][NextOf]_<<vars, muxVars>>

-----------------------------------------------------------------------------
(* Properties.                                                             *)

\* An answer that comes in between the two sends is lost: from the secondary
\* port the hook drops it because its status is not yet TX, from the queue of
\* the primary the sender of the dummy takes it for an abandoned frame.
NoFault == failed = 0 /\ ~early

\* Frames that nobody waits for any more never pass for an answer.
NeverAbandoned == pc = "done" => \A p \in Port : rxbuf[p].src # "old"

\* With either driver the answer a primitive returns in redundant mode is
\* whole when it says so, for any one broken link at the first attempt, and
\* no frame of an earlier user of the index is taken for it.
AnswerIsWhole == TypeOK /\ (NoFault => Serviced) /\ Truthful /\ NeverAbandoned
=============================================================================
