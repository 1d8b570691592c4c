--------------------------------- MODULE SDO ---------------------------------
(***************************************************************************)
(* ecx_SDOread and ecx_SDOwrite (ethercatcoe.c) over the mailbox of one    *)
(* slave.  Data is a sequence of chunks, one chunk being what a mailbox    *)
(* holds: one chunk is an expedited or a normal transfer, more are a       *)
(* segmented one.  Complete access only changes the command and is left    *)
(* out.  A message keeps what the code compares: the service, the command, *)
(* the object, the toggle bit, the size, and whether segments follow.      *)
(*                                                                         *)
(* The SDO server of the slave is external.  It checks the toggle bit of   *)
(* every segment and the size of a segmented download, may abort, and      *)
(* stores a download when the last segment is there.                       *)
(***************************************************************************)
EXTENDS Mailbox

CONSTANTS
    Objects,            \* the objects: index and subindex
    Sizes,              \* sizes in chunks of what is written, and of buffers
    Stored              \* sizes of what the slave has at the start

ASSUME SDOAssumption ==
    /\ Objects \subseteq [index : Nat, sub : Nat]
    /\ Sizes \subseteq Nat \ {0} /\ Stored \subseteq Nat \ {0}

VARIABLES
    store,              \* the slave's objects
    xfer                \* the segmented transfer of the slave's server

sdoVars == <<store, xfer>>

NoTransfer == [dir |-> "none"]

SdoInit ==
    /\ store \in [Objects -> {DataOf(0, n) : n \in Stored}]
    /\ xfer = NoTransfer

UploadReq(o) == [cmd |-> "UP_REQ", obj |-> o]
SegUploadReq(t) == [cmd |-> "SEG_UP_REQ", toggle |-> t]
DownloadReq(o, n, data) == [cmd |-> "DOWN_INIT", obj |-> o, size |-> n, data |-> data]
SegDownloadReq(t, data, more) ==
    [cmd |-> "SEG_DOWN_REQ", toggle |-> t, data |-> data, more |-> more]

UploadRes(o, n, data) == [cmd |-> "UP_RES", obj |-> o, size |-> n, data |-> data]
SegUploadRes(data, more) == [cmd |-> "SEG_UP_RES", data |-> data, more |-> more]
\* A download response says nothing of size or data: these are read as zero.
DownloadRes(o) == [cmd |-> "DOWN_RES", obj |-> o, size |-> 0, data |-> <<>>]
SegDownloadRes == [cmd |-> "SEG_DOWN_RES"]
Abort == [cmd |-> "ABORT"]

\* An SDO response of which the index, and the subindex, can be compared.
IsResponse(m) == m.cmd \in {"UP_RES", "DOWN_RES"}

-----------------------------------------------------------------------------
(* The transfers.                                                          *)

SDOread(o, psize) ==
    Begin(UploadReq(o),
          [kind |-> "SDOread", obj |-> o, psize |-> psize, buf |-> <<>>,
           SDOlen |-> 0, ret |-> "none"])

\* The answer to the upload request.
ReadFirst ==
    /\ Handles("SDOread")
    /\ IF ~(IsResponse(got) /\ got.obj.index = job.obj.index)
       THEN Return(job, "error")
       ELSE IF got.size > job.psize
       THEN Return(job, "error")
       ELSE IF Len(got.data) >= got.size
       THEN Return([job EXCEPT !.buf = got.data, !.SDOlen = got.size], "ok")
       ELSE /\ Becomes([kind |-> "SDOreadSegments", obj |-> job.obj, psize |-> job.psize,
                      buf |-> got.data, SDOlen |-> got.size, ret |-> "none",
                      toggle |-> FALSE])
            /\ Post(SegUploadReq(FALSE), "wait")

\* Mutant: the last segment is not copied.
ReadSegment_NoLast ==
    /\ Handles("SDOreadSegments")
    /\ LET segment == got.cmd = "SEG_UP_RES"
           after == [job EXCEPT !.buf = IF segment /\ got.more THEN @ \o got.data ELSE @,
                                !.toggle = ~@]
       IN  IF got = Failed \/ (segment /\ got.more)
           THEN Becomes(after) /\ Post(SegUploadReq(after.toggle), "wait")
           ELSE Return(after, IF segment THEN "ok" ELSE "error")

\* The answer to a segment request.  When there is none, and also when the
\* request could not be sent, the next one is sent all the same.
ReadSegment ==
    /\ Handles("SDOreadSegments")
    /\ LET segment == got.cmd = "SEG_UP_RES"
           after == [job EXCEPT !.buf = IF segment THEN @ \o got.data ELSE @,
                                !.toggle = ~@]
       IN  IF got = Failed \/ (segment /\ got.more)
           THEN Becomes(after) /\ Post(SegUploadReq(after.toggle), "wait")
           ELSE Return(after, IF segment THEN "ok" ELSE "error")

SDOwrite(o, n) ==
    LET data == DataOf(jobs + 1, n)
    IN  Begin(DownloadReq(o, n, SubSeq(data, 1, 1)),
              [kind |-> "SDOwrite", obj |-> o, data |-> data,
               rest |-> Tail(data), toggle |-> FALSE, ret |-> "none"])

\* The next segment of what is left.
WriteNext(j) ==
    /\ Becomes([j EXCEPT !.kind = "SDOwriteSegments", !.rest = Tail(@), !.toggle = ~@])
    /\ Post(SegDownloadReq(j.toggle, SubSeq(j.rest, 1, 1), Len(j.rest) > 1), "wait")

\* The answer to the download request.
WriteFirst ==
    /\ Handles("SDOwrite")
    /\ IF ~(IsResponse(got) /\ got.obj = job.obj) THEN Return(job, "error")
       ELSE IF job.rest = <<>> THEN Return(job, "ok")
       ELSE WriteNext(job)

\* The answer to a segment.  A segment that is not answered, or could not be
\* sent, does not end the loop unless it was the last.
WriteSegment ==
    /\ Handles("SDOwriteSegments")
    /\ IF got \notin {Failed, SegDownloadRes} THEN Return(job, "error")
       ELSE IF job.rest # <<>> THEN WriteNext(job)
       ELSE Return(job, IF got = Failed THEN "error" ELSE "ok")

SdoClient ==
    /\ \/ \E o \in Objects, n \in Sizes : SDOread(o, n) \/ SDOwrite(o, n)
       \/ ReadFirst \/ ReadSegment \/ WriteFirst \/ WriteSegment
    /\ UNCHANGED sdoVars

-----------------------------------------------------------------------------
(* The SDO server of the slave.                                            *)

Answers(m, s, x) == Take(<<m>>) /\ store' = s /\ xfer' = x

ServeUpload ==
    /\ sm0.cmd = "UP_REQ"
    /\ LET d == store[sm0.obj]
       IN  Answers(UploadRes(sm0.obj, Len(d), SubSeq(d, 1, 1)), store,
                   IF Len(d) = 1 THEN NoTransfer
                   ELSE [dir |-> "up", rest |-> Tail(d), toggle |-> FALSE])

ServeSegUpload ==
    /\ sm0.cmd = "SEG_UP_REQ"
    /\ xfer.dir = "up" /\ xfer.toggle = sm0.toggle
    /\ Answers(SegUploadRes(SubSeq(xfer.rest, 1, 1), Len(xfer.rest) > 1), store,
               IF Len(xfer.rest) = 1 THEN NoTransfer
               ELSE [dir |-> "up", rest |-> Tail(xfer.rest), toggle |-> ~xfer.toggle])

ServeDownload ==
    /\ sm0.cmd = "DOWN_INIT"
    /\ IF Len(sm0.data) = sm0.size
       THEN Answers(DownloadRes(sm0.obj), [store EXCEPT ![sm0.obj] = sm0.data], NoTransfer)
       ELSE Answers(DownloadRes(sm0.obj), store,
                    [dir |-> "down", obj |-> sm0.obj, size |-> sm0.size,
                     data |-> sm0.data, toggle |-> FALSE])

ServeSegDownload ==
    /\ sm0.cmd = "SEG_DOWN_REQ"
    /\ xfer.dir = "down" /\ xfer.toggle = sm0.toggle
    /\ LET data == xfer.data \o sm0.data
       IN  IF sm0.more
           THEN Answers(SegDownloadRes, store,
                        [xfer EXCEPT !.data = data, !.toggle = ~@])
           ELSE /\ Len(data) = xfer.size
                /\ Answers(SegDownloadRes, [store EXCEPT ![xfer.obj] = data], NoTransfer)

\* A request is refused: the object cannot be accessed, or the segment is
\* not the one that the server expects.
Refuse ==
    /\ sm0.cmd \in {"UP_REQ", "SEG_UP_REQ", "DOWN_INIT", "SEG_DOWN_REQ"}
    /\ Answers(Abort, store, NoTransfer)

SdoServer ==
    ServeUpload \/ ServeSegUpload \/ ServeDownload \/ ServeSegDownload \/ Refuse

-----------------------------------------------------------------------------
\* An SDO transfer that reports success, over a mailbox that held nothing of
\* earlier transfers, has the whole object on both sides, in order, whatever
\* was lost, repeated or reported in between and as long as none of its calls
\* failed.  A read of which calls failed has it when it returns as much as was
\* announced, unless the master stopped waiting for a repeat: of what is lost
\* only less can come, but a segment that is read twice may make up for one
\* that is not read at all.
ObjectIsWhole ==
    /\ Done({"SDOread", "SDOreadSegments"}) /\ ~dirty /\ repeats # "abandoned"
         /\ (fails = 0 \/ Len(job.buf) = job.SDOlen)
           => job.buf = store[job.obj]
    /\ Done({"SDOwrite", "SDOwriteSegments"}) /\ ~dirty /\ fails = 0
           => store[job.obj] = job.data

\* ... and no more is copied than the caller's buffer holds, although a segment is
\* copied without a look at what is left of it, unless the master stopped
\* waiting for a repeat and gets a segment it has already.
BufferHolds ==
    job.kind \in {"SDOread", "SDOreadSegments"} /\ ~dirty /\ repeats # "abandoned"
        => Len(job.buf) <= job.psize

\* What an SDO read copies is the object and fits the buffer.
ObjectFits == ObjectIsWhole /\ BufferHolds
=============================================================================
