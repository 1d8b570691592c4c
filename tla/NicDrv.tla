------------------------------- MODULE NicDrv -------------------------------
(***************************************************************************)
(* The frame transport of the EtherCAT master: oshw/win32/nicdrv.c in its  *)
(* single-NIC mode (redstate = ECT_RED_NONE, the only mode the application *)
(* opens), driven by the blocking primitives of soem/ethercatbase.c.       *)
(*                                                                         *)
(* Several threads share one port.  A primitive takes a frame index        *)
(* (ecx_getindex), builds its datagram in txbuf[idx], sends it and waits   *)
(* for the frame to come back (ecx_srconfirm), copies the data out of      *)
(* rxbuf[idx] and frees the index (ecx_setbufstat).  There is no receiver  *)
(* thread: whoever waits reads the next frame from the socket, and if it   *)
(* belongs to another index it stores it for the thread that waits there.  *)
(* The steps below are the shared-memory accesses between which threads    *)
(* can be interleaved; rxbufstat is read and written without a lock.       *)
(***************************************************************************)
EXTENDS Naturals, Sequences, SequencesExt, FiniteSets

CONSTANTS
    Threads,        \* the threads that use the port
    MAXBUF,         \* EC_MAXBUF, the number of frame buffers
    WireCap,        \* frames that are in flight or in the capture buffer
    ReorderDepth,   \* 1: frames come in order; 2: adjacent frames may swap
    SendMayFail,    \* pcap_sendpacket may return PCAP_ERROR
    MaxAlloc        \* bound: how many times ecx_getindex is called

ASSUME NicAssumption ==
    /\ IsFiniteSet(Threads)
    /\ MAXBUF \in Nat \ {0}
    /\ WireCap \in Nat
    /\ ReorderDepth \in Nat \ {0}
    /\ SendMayFail \in BOOLEAN
    /\ MaxAlloc \in Nat

VARIABLES
    rxbufstat,      \* port->rxbufstat
    lastidx,        \* port->lastidx
    getindexMutex,  \* the thread inside getindex_mutex, or {}
    rxMutex,        \* the thread inside rx_mutex, or {}
    txbuf, rxbuf,   \* per index: the request, the answer held there
    wire,           \* the frames sent and not yet read back
    pc, idx,        \* per thread: where it is, and its local idx
    cnt,            \* per thread: cnt of the search in ecx_getindex
    temp,           \* per thread: the frame it has in port->tempinbuf
    partial, total, \* per thread: timer2 and timer1 of srconfirm are over
    \* history, read by no action's guard
    tag,            \* per thread: the number of its current request
    got,            \* per thread: the request whose answer it copied out
    allocs,         \* requests made so far
    exhausted,      \* ecx_getindex once handed out a buffer in use
    sendFailed      \* a send once returned PCAP_ERROR

locals == <<pc, idx, cnt, temp, partial, total>>
history == <<tag, got, allocs, exhausted, sendFailed>>
vars == <<rxbufstat, lastidx, getindexMutex, rxMutex, txbuf, rxbuf, wire,
          locals, history>>

Idx == 0 .. MAXBUF - 1
BufStat == {"EMPTY", "ALLOC", "TX", "RCVD", "COMPLETE"}
Tag == 0 .. MaxAlloc                  \* 0 is the tag of no request
Frame == [idx : Idx, tag : Tag]
NoFrame == [idx |-> 0, tag |-> 0]

NextIdx(i) == IF i + 1 >= MAXBUF THEN 0 ELSE i + 1

\* Where a thread is while it owns its frame index.
OwnerPc == {"setup", "mark", "send", "wait", "lock", "recv", "store",
            "timer", "answered", "release"}
PC == {"idle", "scan", "alloc"} \cup OwnerPc
Holds(t, i) == pc[t] \in OwnerPc /\ idx[t] = i
Held(i) == \E t \in Threads : Holds(t, i)

\* Where a thread is while it waits for its frame (its timers run).
WaitPc == {"wait", "lock", "recv", "store", "timer"}

Goto(t, l) == pc' = [pc EXCEPT ![t] = l]
SetStat(i, s) == rxbufstat' = [rxbufstat EXCEPT ![i] = s]

Init ==
    /\ rxbufstat = [i \in Idx |-> "EMPTY"]
    /\ lastidx = 0
    /\ getindexMutex = {} /\ rxMutex = {}
    /\ txbuf = [i \in Idx |-> 0] /\ rxbuf = [i \in Idx |-> 0]
    /\ wire = <<>>
    /\ pc = [t \in Threads |-> "idle"]
    /\ idx = [t \in Threads |-> 0] /\ cnt = [t \in Threads |-> 0]
    /\ temp = [t \in Threads |-> NoFrame]
    /\ partial = [t \in Threads |-> FALSE]
    /\ total = [t \in Threads |-> FALSE]
    /\ tag = [t \in Threads |-> 0] /\ got = [t \in Threads |-> 0]
    /\ allocs = 0 /\ exhausted = FALSE /\ sendFailed = FALSE

-----------------------------------------------------------------------------
(* ecx_getindex: a search under getindex_mutex that starts behind lastidx. *)

\* Mutant: the search is not under the mutex.
EnterGetIndex_NoMutex(t) ==
    /\ pc[t] = "idle" /\ allocs < MaxAlloc
    /\ getindexMutex' = {t}
    /\ idx' = [idx EXCEPT ![t] = NextIdx(lastidx)]
    /\ Goto(t, "scan")
    /\ UNCHANGED <<rxbufstat, lastidx, rxMutex, txbuf, rxbuf, wire, cnt,
                   temp, partial, total, history>>

\* Mutant: the search always starts at buffer 0.
EnterGetIndex_FromZero(t) ==
    /\ pc[t] = "idle" /\ getindexMutex = {} /\ allocs < MaxAlloc
    /\ getindexMutex' = {t}
    /\ idx' = [idx EXCEPT ![t] = 0]
    /\ Goto(t, "scan")
    /\ UNCHANGED <<rxbufstat, lastidx, rxMutex, txbuf, rxbuf, wire, cnt,
                   temp, partial, total, history>>

EnterGetIndex(t) ==
    /\ pc[t] = "idle" /\ getindexMutex = {}
    /\ allocs < MaxAlloc
    /\ getindexMutex' = {t}
    /\ idx' = [idx EXCEPT ![t] = NextIdx(lastidx)]
    /\ Goto(t, "scan")
    /\ UNCHANGED <<rxbufstat, lastidx, rxMutex, txbuf, rxbuf, wire, cnt,
                   temp, partial, total, history>>

ScanNext(t) ==
    /\ pc[t] = "scan"
    /\ rxbufstat[idx[t]] # "EMPTY" /\ cnt[t] < MAXBUF
    /\ idx' = [idx EXCEPT ![t] = NextIdx(@)]
    /\ cnt' = [cnt EXCEPT ![t] = @ + 1]
    /\ UNCHANGED <<rxbufstat, lastidx, getindexMutex, rxMutex, txbuf, rxbuf,
                   wire, pc, temp, partial, total, history>>

ScanEnd(t) ==
    /\ pc[t] = "scan"
    /\ rxbufstat[idx[t]] = "EMPTY" \/ cnt[t] >= MAXBUF
    /\ exhausted' = (exhausted \/ rxbufstat[idx[t]] # "EMPTY")
    /\ Goto(t, "alloc")
    /\ UNCHANGED <<rxbufstat, lastidx, getindexMutex, rxMutex, txbuf, rxbuf,
                   wire, idx, cnt, temp, partial, total, tag, got, allocs,
                   sendFailed>>

AllocIndex(t) ==
    /\ pc[t] = "alloc"
    /\ SetStat(idx[t], "ALLOC")
    /\ lastidx' = idx[t]
    /\ getindexMutex' = {}
    /\ allocs' = allocs + 1
    /\ tag' = [tag EXCEPT ![t] = allocs + 1]
    /\ got' = [got EXCEPT ![t] = 0]
    /\ cnt' = [cnt EXCEPT ![t] = 0]
    /\ Goto(t, "setup")
    /\ UNCHANGED <<rxMutex, txbuf, rxbuf, wire, idx, temp, partial, total,
                   exhausted, sendFailed>>

-----------------------------------------------------------------------------
(* ecx_setupdatagram, then ecx_outframe: the index is marked before the    *)
(* frame is handed to the socket, and marked free if the socket refuses.   *)

SetupDatagram(t) ==
    /\ pc[t] = "setup"
    /\ txbuf' = [txbuf EXCEPT ![idx[t]] = tag[t]]
    /\ total' = [total EXCEPT ![t] = FALSE]
    /\ Goto(t, "mark")
    /\ UNCHANGED <<rxbufstat, lastidx, getindexMutex, rxMutex, rxbuf, wire,
                   idx, cnt, temp, partial, history>>

MarkTx(t) ==
    /\ pc[t] = "mark"
    /\ SetStat(idx[t], "TX")
    /\ Goto(t, "send")
    /\ UNCHANGED <<lastidx, getindexMutex, rxMutex, txbuf, rxbuf, wire, idx,
                   cnt, temp, partial, total, history>>

\* After the send srconfirm starts timer2; the result of the send is ignored.
StartWait(t) == /\ partial' = [partial EXCEPT ![t] = FALSE]
                /\ Goto(t, "wait")

\* The frame goes out; the ring returns it with the same index, or loses it.
Send(t) ==
    /\ pc[t] = "send"
    /\ \/ /\ Len(wire) < WireCap
          /\ wire' = Append(wire, [idx |-> idx[t], tag |-> txbuf[idx[t]]])
       \/ UNCHANGED wire
    /\ StartWait(t)
    /\ UNCHANGED <<rxbufstat, lastidx, getindexMutex, rxMutex, txbuf, rxbuf,
                   idx, cnt, temp, total, history>>

SendError(t) ==
    /\ pc[t] = "send" /\ SendMayFail
    /\ SetStat(idx[t], "EMPTY")
    /\ sendFailed' = TRUE
    /\ StartWait(t)
    /\ UNCHANGED <<lastidx, getindexMutex, rxMutex, txbuf, rxbuf, wire, idx,
                   cnt, temp, total, tag, got, allocs, exhausted>>

-----------------------------------------------------------------------------
(* ecx_inframe: first a look at the own buffer, without the mutex.         *)

TakeBuffered(t) ==
    /\ pc[t] = "wait"
    /\ rxbufstat[idx[t]] = "RCVD"
    /\ SetStat(idx[t], "COMPLETE")
    /\ Goto(t, "answered")
    /\ UNCHANGED <<lastidx, getindexMutex, rxMutex, txbuf, rxbuf, wire, idx,
                   cnt, temp, partial, total, history>>

NotBuffered(t) ==
    /\ pc[t] = "wait"
    /\ rxbufstat[idx[t]] # "RCVD"
    /\ Goto(t, "lock")
    /\ UNCHANGED <<rxbufstat, lastidx, getindexMutex, rxMutex, txbuf, rxbuf,
                   wire, idx, cnt, temp, partial, total, history>>

\* Mutant: the buffer is armed again before the socket is read.
EnterRx_Rearm(t) ==
    /\ pc[t] = "lock" /\ rxMutex = {}
    /\ rxMutex' = {t}
    /\ SetStat(idx[t], "TX")
    /\ Goto(t, "recv")
    /\ UNCHANGED <<lastidx, getindexMutex, txbuf, rxbuf, wire, idx, cnt,
                   temp, partial, total, history>>

EnterRx(t) ==
    /\ pc[t] = "lock" /\ rxMutex = {}
    /\ rxMutex' = {t}
    /\ Goto(t, "recv")
    /\ UNCHANGED <<rxbufstat, lastidx, getindexMutex, txbuf, rxbuf, wire,
                   idx, cnt, temp, partial, total, history>>

\* ecx_recvpkt finds nothing: frames may still be on their way.
RecvNothing(t) ==
    /\ pc[t] = "recv"
    /\ rxMutex' = {}
    /\ Goto(t, "timer")
    /\ UNCHANGED <<rxbufstat, lastidx, getindexMutex, txbuf, rxbuf, wire,
                   idx, cnt, temp, partial, total, history>>

\* The frames ecx_recvpkt may return: the oldest one, or one that overtook.
Arrived == {k \in 1 .. Len(wire) : k <= ReorderDepth}

\* The frame carries the own index: it is taken whatever rxbufstat says.
RecvOwn(t) ==
    /\ pc[t] = "recv"
    /\ \E k \in Arrived :
         /\ wire[k].idx = idx[t]
         /\ rxbuf' = [rxbuf EXCEPT ![idx[t]] = wire[k].tag]
         /\ wire' = RemoveAt(wire, k)
    /\ SetStat(idx[t], "COMPLETE")
    /\ rxMutex' = {}
    /\ Goto(t, "answered")
    /\ UNCHANGED <<lastidx, getindexMutex, txbuf, idx, cnt, temp, partial,
                   total, history>>

\* Another index, and someone waits for it: it will be stored there.
RecvOther(t) ==
    /\ pc[t] = "recv"
    /\ \E k \in Arrived :
         /\ wire[k].idx # idx[t]
         /\ rxbufstat[wire[k].idx] = "TX"
         /\ temp' = [temp EXCEPT ![t] = wire[k]]
         /\ wire' = RemoveAt(wire, k)
    /\ Goto(t, "store")
    /\ UNCHANGED <<rxbufstat, lastidx, getindexMutex, rxMutex, txbuf, rxbuf,
                   idx, cnt, partial, total, history>>

\* Mutant: an unexpected frame is dropped without leaving the mutex.
RecvStrange_KeepMutex(t) ==
    /\ pc[t] = "recv"
    /\ \E k \in Arrived :
         /\ wire[k].idx # idx[t]
         /\ rxbufstat[wire[k].idx] # "TX"
         /\ wire' = RemoveAt(wire, k)
    /\ Goto(t, "timer")
    /\ UNCHANGED <<rxbufstat, lastidx, getindexMutex, rxMutex, txbuf, rxbuf,
                   idx, cnt, temp, partial, total, history>>

\* Another index nobody waits for: "strange things happened".
RecvStrange(t) ==
    /\ pc[t] = "recv"
    /\ \E k \in Arrived :
         /\ wire[k].idx # idx[t]
         /\ rxbufstat[wire[k].idx] # "TX"
         /\ wire' = RemoveAt(wire, k)
    /\ rxMutex' = {}
    /\ Goto(t, "timer")
    /\ UNCHANGED <<rxbufstat, lastidx, getindexMutex, txbuf, rxbuf, idx, cnt,
                   temp, partial, total, history>>

\* The frame of another thread is copied and marked as received.
StoreOther(t) ==
    /\ pc[t] = "store"
    /\ rxbuf' = [rxbuf EXCEPT ![temp[t].idx] = temp[t].tag]
    /\ SetStat(temp[t].idx, "RCVD")
    /\ temp' = [temp EXCEPT ![t] = NoFrame]
    /\ rxMutex' = {}
    /\ Goto(t, "timer")
    /\ UNCHANGED <<lastidx, getindexMutex, txbuf, wire, idx, cnt, partial,
                   total, history>>

-----------------------------------------------------------------------------
(* The loops of ecx_waitinframe_red and ecx_srconfirm, and the caller.     *)

WaitOn(t) ==
    /\ pc[t] = "timer" /\ ~partial[t]
    /\ Goto(t, "wait")
    /\ UNCHANGED <<rxbufstat, lastidx, getindexMutex, rxMutex, txbuf, rxbuf,
                   wire, idx, cnt, temp, partial, total, history>>

Resend(t) ==
    /\ pc[t] = "timer" /\ partial[t] /\ ~total[t]
    /\ Goto(t, "mark")
    /\ UNCHANGED <<rxbufstat, lastidx, getindexMutex, rxMutex, txbuf, rxbuf,
                   wire, idx, cnt, temp, partial, total, history>>

\* Mutant: a primitive that got no answer does not free its index.
GiveUp_NoFree(t) ==
    /\ pc[t] = "timer" /\ partial[t] /\ total[t]
    /\ Goto(t, "idle")
    /\ UNCHANGED <<rxbufstat, lastidx, getindexMutex, rxMutex, txbuf, rxbuf,
                   wire, idx, cnt, temp, partial, total, history>>

GiveUp(t) ==
    /\ pc[t] = "timer" /\ partial[t] /\ total[t]
    /\ Goto(t, "release")
    /\ UNCHANGED <<rxbufstat, lastidx, getindexMutex, rxMutex, txbuf, rxbuf,
                   wire, idx, cnt, temp, partial, total, history>>

\* The primitive copies the data out of rxbuf[idx].
CopyAnswer(t) ==
    /\ pc[t] = "answered"
    /\ got' = [got EXCEPT ![t] = rxbuf[idx[t]]]
    /\ Goto(t, "release")
    /\ UNCHANGED <<rxbufstat, lastidx, getindexMutex, rxMutex, txbuf, rxbuf,
                   wire, idx, cnt, temp, partial, total, tag, allocs,
                   exhausted, sendFailed>>

\* ecx_setbufstat(idx, EC_BUF_EMPTY), outside every mutex; the locals go.
Release(t) ==
    /\ pc[t] = "release"
    /\ SetStat(idx[t], "EMPTY")
    /\ idx' = [idx EXCEPT ![t] = 0]
    /\ partial' = [partial EXCEPT ![t] = FALSE]
    /\ total' = [total EXCEPT ![t] = FALSE]
    /\ Goto(t, "idle")
    /\ UNCHANGED <<lastidx, getindexMutex, rxMutex, txbuf, rxbuf, wire, cnt,
                   temp, history>>

\* Time passes.
PartialTimeout(t) ==
    /\ pc[t] \in WaitPc /\ ~partial[t]
    /\ partial' = [partial EXCEPT ![t] = TRUE]
    /\ UNCHANGED <<rxbufstat, lastidx, getindexMutex, rxMutex, txbuf, rxbuf,
                   wire, pc, idx, cnt, temp, total, history>>

TotalTimeout(t) ==
    /\ pc[t] \in WaitPc \cup {"mark", "send"} /\ ~total[t]
    /\ total' = [total EXCEPT ![t] = TRUE]
    /\ UNCHANGED <<rxbufstat, lastidx, getindexMutex, rxMutex, txbuf, rxbuf,
                   wire, pc, idx, cnt, temp, partial, history>>

-----------------------------------------------------------------------------
Operation(t) ==
    \/ ScanNext(t) \/ ScanEnd(t) \/ AllocIndex(t)
    \/ SetupDatagram(t) \/ MarkTx(t) \/ Send(t) \/ SendError(t)
    \/ TakeBuffered(t) \/ NotBuffered(t) \/ EnterRx(t) \/ RecvNothing(t)
    \/ RecvOwn(t) \/ RecvOther(t) \/ RecvStrange(t) \/ StoreOther(t)
    \/ WaitOn(t) \/ Resend(t) \/ GiveUp(t) \/ CopyAnswer(t) \/ Release(t)

Next == \E t \in Threads :
            EnterGetIndex(t) \/ Operation(t)
            \/ PartialTimeout(t) \/ TotalTimeout(t)

Spec == Init /\ [][Next]_vars

\* A thread that has begun a primitive goes on with it, and time passes; no
\* thread is bound to begin one, and no frame is bound to come back.
Fairness == \A t \in Threads : /\ WF_vars(Operation(t))
                               /\ WF_vars(PartialTimeout(t))
                               /\ WF_vars(TotalTimeout(t))
FairSpec == Spec /\ Fairness

-----------------------------------------------------------------------------
\* Every buffer has one of the five states of ethercattype.h, every thread a
\* place and an index, every frame the tag of a request.
TypeOK ==
    /\ rxbufstat \in [Idx -> BufStat]
    /\ lastidx \in Idx
    /\ getindexMutex \in SUBSET Threads /\ rxMutex \in SUBSET Threads
    /\ txbuf \in [Idx -> Tag] /\ rxbuf \in [Idx -> Tag]
    /\ wire \in Seq(Frame)
    /\ pc \in [Threads -> PC]
    /\ idx \in [Threads -> Idx]
    /\ cnt \in [Threads -> 0 .. MAXBUF]
    /\ temp \in [Threads -> Frame]
    /\ partial \in [Threads -> BOOLEAN] /\ total \in [Threads -> BOOLEAN]
    /\ tag \in [Threads -> Tag] /\ got \in [Threads -> Tag]
    /\ allocs \in Tag
    /\ exhausted \in BOOLEAN /\ sendFailed \in BOOLEAN

\* As long as no search ran out of free buffers and no send was refused, no
\* two threads own the same frame index (ecx_getindex, ecx_setbufstat), even
\* though buffers are marked received and freed outside getindex_mutex.
OneOwner ==
    ~exhausted /\ ~sendFailed =>
        \A t, u \in Threads, i \in Idx : Holds(t, i) /\ Holds(u, i) => t = u

\* The only way a frame index is left marked with no thread that owns it is
\* ecx_inframe's late "mark as received": it is never left as sent.
LeakIsReceived ==
    ~exhausted /\ ~sendFailed =>
        \A i \in Idx : ~Held(i) => rxbufstat[i] \in {"EMPTY", "RCVD"}

\* The buffers nobody owns that are nevertheless not free.
Leaked == {i \in Idx : ~Held(i) /\ rxbufstat[i] # "EMPTY"}

\* A primitive may take the late answer to an earlier request on its index
\* for its own (idxf == idx is all ecx_inframe compares), but only after the
\* index went round: ecx_getindex starts behind lastidx, so at least the
\* buffers that neither other threads nor leaks keep were handed out between.
StaleIsOld ==
    ~exhausted /\ ~sendFailed =>
        \A t \in Threads :
            got[t] # 0 /\ got[t] # tag[t] =>
                tag[t] - got[t] + Cardinality(Threads) - 1
                    + Cardinality(Leaked) >= MAXBUF

\* An answer to the current request that is in the buffer stays there until
\* the owner takes it, unless the owner's own timer ran out first: no other
\* thread, and no late frame of an earlier request, destroys it (again as long
\* as indices are not shared).
HasAnswer(t) ==
    /\ pc[t] \in OwnerPc
    /\ rxbufstat[idx[t]] \in {"RCVD", "COMPLETE"}
    /\ rxbuf[idx[t]] = tag[t]
AnswerKept ==
    [][\A t \in Threads :
          HasAnswer(t) /\ (pc[t] = "answered" \/ ~partial[t])
          /\ ~exhausted' /\ ~sendFailed'
            => HasAnswer(t)' \/ pc'[t] = "idle"]_vars

\* Every primitive that has begun ends, with an answer or without: the
\* mutexes, the lost answers and the retries of srconfirm hold nobody up.
PrimitiveEnds == \A t \in Threads : pc[t] # "idle" ~> pc[t] = "idle"
=============================================================================
