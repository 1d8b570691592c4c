--------------------------------- MODULE FoE ---------------------------------
(***************************************************************************)
(* ecx_FOEread and ecx_FOEwrite (ethercatfoe.c) over the mailbox of one    *)
(* slave.  A file is a sequence of chunks, a packet holds at most MaxData  *)
(* of them, and a packet that is not full is the last one.  Names and      *)
(* passwords are left out: the slave has one file.                         *)
(*                                                                         *)
(* The file server of the slave is external.  It counts packets, may       *)
(* answer that it is busy, which drops the packet it was sent, or that     *)
(* there is an error, and keeps a written file when its last packet is     *)
(* there.                                                                  *)
(***************************************************************************)
EXTENDS Mailbox

CONSTANTS
    MaxData,            \* chunks in a full packet
    FileSizes,          \* sizes in chunks of what is written, and of buffers
    StoredFile          \* sizes of the file of the slave at the start

ASSUME FoEAssumption == MaxData \in Nat \ {0} /\ FileSizes \cup StoredFile \subseteq Nat

VARIABLES
    file,               \* the file of the slave
    server              \* the file transfer the slave's server is in

foeVars == <<file, server>>

NoService == [dir |-> "none"]

FoeInit == file \in {DataOf(0, n) : n \in StoredFile} /\ server = NoService

Ack(n) == [cmd |-> "FOE_ACK", packet |-> n]
Packet(n, data) == [cmd |-> "FOE_DATA", packet |-> n, data |-> data]
Read == [cmd |-> "FOE_READ"]
Write == [cmd |-> "FOE_WRITE"]
Busy == [cmd |-> "FOE_BUSY"]
Error == [cmd |-> "FOE_ERROR"]

\* What goes into the next packet, and what is left then.
Portion(data) == IF Len(data) > MaxData THEN MaxData ELSE Len(data)
First(data) == SubSeq(data, 1, Portion(data))
Rest(data) == SubSeq(data, Portion(data) + 1, Len(data))
IsFull(data) == Len(data) = MaxData

-----------------------------------------------------------------------------
(* FoE read.                                                               *)

FOEread(buffersize) ==
    Begin(Read, [kind |-> "FOEread", buffersize |-> buffersize, buf |-> <<>>,
                 prevpacket |-> 0, worktodo |-> FALSE, ret |-> "none"])

\* A packet is copied and acknowledged.
ReadPacket ==
    /\ Handles("FOEread")
    /\ IF /\ got.cmd = "FOE_DATA"
          /\ got.packet = job.prevpacket + 1
          /\ Len(job.buf) + Len(got.data) <= job.buffersize
       THEN /\ Becomes([job EXCEPT !.kind = "FOEreadAck", !.prevpacket = @ + 1,
                                   !.buf = @ \o got.data, !.worktodo = IsFull(got.data)])
            /\ Post(Ack(got.packet), "handle")
       ELSE Return(job, "error")

\* The acknowledge is sent, or not.
ReadAcked ==
    /\ Handles("FOEreadAck")
    /\ IF got = Failed THEN Return(job, "error")
       ELSE IF job.worktodo
       THEN Becomes([job EXCEPT !.kind = "FOEread"]) /\ ReceiveNext
       ELSE Return(job, "ok")

-----------------------------------------------------------------------------
(* FoE write.                                                              *)

FOEwrite(n) ==
    LET data == DataOf(jobs + 1, n)
    IN  Begin(Write, [kind |-> "FOEwrite", data |-> data, rest |-> data,
                      sendpacket |-> 0, segment |-> <<>>, dofinalzero |-> FALSE,
                      ret |-> "none"])

\* Mutant: no empty packet follows a last packet that is full.
WritePacket_NoFinalZero ==
    /\ Handles("FOEwrite")
    /\ got.cmd = "FOE_ACK" /\ got.packet = job.sendpacket
    /\ IF job.rest # <<>>
       THEN LET data == First(job.rest)
            IN  /\ Becomes([job EXCEPT !.rest = Rest(@), !.segment = data,
                              !.sendpacket = @ + 1])
                /\ Post(Packet(job.sendpacket + 1, data), "wait")
       ELSE Return(job, "ok")

\* The packet sent last is acknowledged: the next one is sent, an empty one
\* if the last was full.
WritePacket ==
    /\ Handles("FOEwrite")
    /\ got.cmd = "FOE_ACK" /\ got.packet = job.sendpacket
    /\ IF job.rest # <<>> \/ job.dofinalzero
       THEN LET data == First(job.rest)
            IN  /\ Becomes([job EXCEPT !.rest = Rest(@), !.segment = data,
                              !.sendpacket = @ + 1,
                              !.dofinalzero = Rest(job.rest) = <<>> /\ IsFull(data)])
                /\ Post(Packet(job.sendpacket + 1, data), "wait")
       ELSE Return(job, "ok")

\* "resend if data has been send before": the packet is taken back, but the
\* loop ends, and what it returns is the work counter of the answer.
WriteBusy ==
    /\ Handles("FOEwrite")
    /\ got = Busy
    /\ Return(IF job.sendpacket = 0 THEN job
              ELSE [job EXCEPT !.dofinalzero = @ \/ job.rest = <<>>,
                               !.rest = job.segment \o @,
                               !.sendpacket = @ - 1], "ok")

\* No answer, another packet number, an error, or a message of another kind.
WriteFails ==
    /\ Handles("FOEwrite")
    /\ got # Busy /\ (got.cmd = "FOE_ACK" => got.packet # job.sendpacket)
    /\ Return(job, "error")

FoeClient ==
    /\ \/ \E n \in FileSizes : FOEread(n) \/ FOEwrite(n)
       \/ ReadPacket \/ ReadAcked \/ WritePacket \/ WriteBusy \/ WriteFails
    /\ UNCHANGED foeVars

-----------------------------------------------------------------------------
(* The file server of the slave.                                           *)

Serves(answers, f, s) == Take(answers) /\ file' = f /\ server' = s

\* Packet n of what is left of the file.
Sends(n, rest) ==
    Serves(<<Packet(n, First(rest))>>, file,
           [dir |-> "read", packet |-> n, rest |-> Rest(rest), last |-> ~IsFull(First(rest))])

ServeRead == sm0.cmd = "FOE_READ" /\ Sends(1, file)

ServeAck ==
    /\ sm0.cmd = "FOE_ACK" /\ server.dir = "read" /\ server.packet = sm0.packet
    /\ IF server.last THEN Serves(<<>>, file, NoService)
       ELSE Sends(server.packet + 1, server.rest)

ServeWrite ==
    /\ sm0.cmd = "FOE_WRITE"
    /\ Serves(<<Ack(0)>>, file, [dir |-> "write", packet |-> 1, data |-> <<>>])

ServePacket ==
    /\ sm0.cmd = "FOE_DATA" /\ server.dir = "write" /\ server.packet = sm0.packet
    /\ LET data == server.data \o sm0.data
       IN  IF IsFull(sm0.data)
           THEN Serves(<<Ack(sm0.packet)>>, file,
                       [server EXCEPT !.data = data, !.packet = @ + 1])
           ELSE Serves(<<Ack(sm0.packet)>>, data, NoService)

ServeBusy ==
    /\ sm0.cmd \in {"FOE_WRITE", "FOE_DATA"}
    /\ Serves(<<Busy>>, file, server)

\* An error, also in answer to a message that does not belong here.
ServeError ==
    /\ sm0.cmd \in {"FOE_READ", "FOE_ACK", "FOE_WRITE", "FOE_DATA"}
    /\ Serves(<<Error>>, file, NoService)

FoeServer ==
    ServeRead \/ ServeAck \/ ServeWrite \/ ServePacket \/ ServeBusy \/ ServeError

-----------------------------------------------------------------------------
\* A file transfer that reports success, over a mailbox that held nothing of
\* earlier transfers, has the whole file on both sides: every packet once and
\* in order, whatever was lost, repeated or reported in between.  Of a write
\* this is said when nothing is left to be sent (the slave was not busy) and
\* there was something to send.
FileIsWhole ==
    /\ Done({"FOEread", "FOEreadAck"}) /\ ~dirty => job.buf = file
    /\ Done({"FOEwrite"}) /\ ~dirty /\ job.rest = <<>> /\ ~job.dofinalzero
         /\ job.data # <<>> => file = job.data

\* "resend if data has been send before": a write that reports success has
\* been stored also when the slave was busy for a while.
BusyIsResent ==
    Done({"FOEwrite"}) /\ ~dirty /\ job.segment # <<>> => file = job.data
=============================================================================
