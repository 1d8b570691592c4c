--------------------------------- MODULE SoE ---------------------------------
(***************************************************************************)
(* ecx_SoEread and ecx_SoEwrite (ethercatsoe.c) over the mailbox of one    *)
(* slave.  The value of an IDN is a sequence of chunks, one chunk being    *)
(* what a mailbox holds.  An answer is compared with the drive and the     *)
(* element that were asked for, not with the IDN: here the drive stands    *)
(* for both.                                                               *)
(*                                                                         *)
(* The slave is external.  One request brings all the fragments of an      *)
(* answer, one after the other as its mailbox gets empty; a value that is  *)
(* written is kept when its last fragment is there.                        *)
(***************************************************************************)
EXTENDS Mailbox

CONSTANTS
    Idns,               \* what can be read and written: drive and IDN
    IdnSizes,           \* sizes in chunks of what is written, and of buffers
    StoredIdn           \* sizes of what the slave has at the start

ASSUME SoEAssumption ==
    /\ Idns \subseteq [drive : Nat, idn : Nat]
    /\ IdnSizes \subseteq Nat \ {0} /\ StoredIdn \subseteq Nat \ {0}

VARIABLES
    idns,               \* the values in the slave
    answer,             \* fragments of an answer that are not queued yet
    part                \* what has come of a value that is being written

soeVars == <<idns, answer, part>>

SoeInit ==
    /\ idns \in [Idns -> {DataOf(0, n) : n \in StoredIdn}]
    /\ answer = <<>> /\ part = <<>>

ReadReq(o) == [cmd |-> "SOE_READREQ", obj |-> o]
WriteReq(o, data, more) ==
    [cmd |-> "SOE_WRITEREQ", obj |-> o, data |-> data, incomplete |-> more]
ReadRes(o, data, more) ==
    [cmd |-> "SOE_READRES", drive |-> o.drive, data |-> data, incomplete |-> more]
WriteRes(o) == [cmd |-> "SOE_WRITERES", drive |-> o.drive]
SoeError == [cmd |-> "SOE_ERROR"]

-----------------------------------------------------------------------------
(* The transfers.                                                          *)

SoEread(o, psize) ==
    Begin(ReadReq(o),
          [kind |-> "SoEread", obj |-> o, psize |-> psize, buf |-> <<>>,
           clean |-> answer = <<>> /\ sm0.cmd # "SOE_READREQ", ret |-> "none"])

\* Mutant: a fragment that does not fit ends the copying, not the reading.
ReadFragment_NoTrim ==
    /\ Handles("SoEread")
    /\ IF got.cmd = "SOE_READRES" /\ got.drive = job.obj.drive
       THEN LET buf == IF Len(job.buf) + Len(got.data) <= job.psize
                       THEN job.buf \o got.data ELSE got.data
                read == [job EXCEPT !.buf = buf]
            IN  IF got.incomplete THEN Becomes(read) /\ ReceiveNext
                ELSE Return(read, "ok")
       ELSE Return(job, "error")

\* A fragment of the answer: what does not fit into the buffer is dropped
\* without an error.  No answer, another one, or an error ends the read.
ReadFragment ==
    /\ Handles("SoEread")
    /\ IF got.cmd = "SOE_READRES" /\ got.drive = job.obj.drive
       THEN LET all == job.buf \o got.data
                fits == IF Len(all) <= job.psize THEN Len(all) ELSE job.psize
                read == [job EXCEPT !.buf = SubSeq(all, 1, fits)]
            IN  IF got.incomplete THEN Becomes(read) /\ ReceiveNext
                ELSE Return(read, "ok")
       ELSE Return(job, "error")

\* Fragment k of a value; the slave answers the last one only.
WriteFragment(j) ==
    LET more == Len(j.rest) > 1
    IN  /\ job' = [j EXCEPT !.rest = Tail(@), !.notLast = more]
        /\ request' = WriteReq(j.obj, SubSeq(j.rest, 1, 1), more)
        /\ goesOn' = IF more THEN "empty" ELSE "wait"

SoEwrite(o, n) ==
    LET data == DataOf(jobs + 1, n)
    IN  BeginAt("drain", WriteReq(o, SubSeq(data, 1, 1), n > 1),
                IF n > 1 THEN "empty" ELSE "wait",
                [kind |-> "SoEwrite", obj |-> o, data |-> data, rest |-> Tail(data),
                 notLast |-> n > 1, clean |-> part = <<>> /\ sm0.cmd # "SOE_WRITEREQ",
                 ret |-> "none"])

\* A fragment that was taken, was not answered or could not be sent: the
\* loop sends the next one.
WriteGoesOn ==
    /\ Handles("SoEwrite")
    /\ job.notLast /\ got \in {Sent, Failed}
    /\ WriteFragment(job) /\ pc' = "send" /\ got' = NoMsg
    /\ UNCHANGED <<jobs, hooked, plan, want, sm0, sm1, slaveMail, repReq, environment, ghosts>>

\* An answer ends the write, also one that comes before the last fragment.
WriteEnds ==
    /\ Handles("SoEwrite")
    /\ ~(job.notLast /\ got \in {Sent, Failed})
    /\ Return(job, IF got.cmd = "SOE_WRITERES" /\ got.drive = job.obj.drive
                   THEN "ok" ELSE "error")

SoeClient ==
    /\ \/ \E o \in Idns, n \in IdnSizes : SoEread(o, n) \/ SoEwrite(o, n)
       \/ ReadFragment \/ WriteGoesOn \/ WriteEnds
    /\ UNCHANGED soeVars

-----------------------------------------------------------------------------
(* The slave.                                                              *)

SoeTakes(answers, store, rest, data) ==
    Take(answers) /\ idns' = store /\ answer' = rest /\ part' = data

Fragments(o) ==
    LET d == idns[o] IN [k \in DOMAIN d |-> ReadRes(o, SubSeq(d, k, k), k < Len(d))]

ServeIdnRead ==
    /\ sm0.cmd = "SOE_READREQ"
    /\ SoeTakes(<<>>, idns, answer \o Fragments(sm0.obj), part)

\* The next fragment goes into the queue.
QueueFragment ==
    /\ ~gone /\ answer # <<>> /\ Len(outq) < plan.queue
    /\ outq' = Append(outq, Head(answer)) /\ answer' = Tail(answer)
    /\ UNCHANGED <<master, transfer, sm0, sm1, lastOut, taken, again, repAck, repReq,
                   environment, ghosts, idns, part>>

ServeIdnWrite ==
    /\ sm0.cmd = "SOE_WRITEREQ"
    /\ LET data == part \o sm0.data
       IN  IF sm0.incomplete THEN SoeTakes(<<>>, idns, answer, data)
           ELSE SoeTakes(<<WriteRes(sm0.obj)>>, [idns EXCEPT ![sm0.obj] = data], answer, <<>>)

\* A request is refused, a write also in its middle.
RefuseIdn ==
    /\ sm0.cmd \in {"SOE_READREQ", "SOE_WRITEREQ"}
    /\ SoeTakes(<<SoeError>>, idns, answer, <<>>)

SoeServer == ServeIdnRead \/ QueueFragment \/ ServeIdnWrite \/ RefuseIdn

-----------------------------------------------------------------------------
\* What is read is the value, as far as the buffer holds it, and what is
\* written with every call coming through is the slave's: from a mailbox that
\* held nothing of earlier transfers, with nothing of these left in the slave,
\* and when no repeat was asked for.  Fragments carry no number, so a repeat
\* may bring one twice, and one that is lost may be replaced by the next or,
\* in a write, the refusal of one by the answer to the last.  The loop of a
\* write goes on behind a fragment that could not be sent, and nothing tells
\* the slave that one is missing or which one is the first.
IdnIsWhole ==
    ~dirty /\ repeats = "none" =>
        /\ Done({"SoEread"}) /\ job.clean
             => job.buf = SubSeq(idns[job.obj], 1, Len(job.buf))
                /\ (Len(job.buf) = job.psize \/ job.buf = idns[job.obj])
        /\ Done({"SoEwrite"}) /\ job.clean /\ fails = 0 => idns[job.obj] = job.data
=============================================================================
