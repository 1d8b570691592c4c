--------------------------------- MODULE EoE ---------------------------------
(***************************************************************************)
(* Ethernet over EtherCAT (ethercateoe.c): the address of the slave is set *)
(* and got, an Ethernet frame is sent and received in fragments, and a     *)
(* frame is put together by the hook that ecx_mbxreceive calls when a      *)
(* fragment comes while the master waits for something else.               *)
(*                                                                         *)
(* A frame is a sequence of blocks of 32 octets.  A fragment carries the   *)
(* number of its frame (16 of them), its own number, and its offset; the   *)
(* first one carries the size of the frame instead.  The time stamp at the *)
(* end of a frame is left out.                                             *)
(*                                                                         *)
(* The slave is external.  It sends a frame when it likes to, checks the   *)
(* fragments it gets, and leaves out parts of its address, or not.         *)
(***************************************************************************)
EXTENDS Mailbox

CONSTANTS
    MaxFragment,        \* blocks in a full fragment
    FrameSizes,         \* sizes in blocks of frames
    Fields              \* the parts of an address: MAC, IP, ...

ASSUME EoEAssumption ==
    /\ MaxFragment \in Nat \ {0} /\ FrameSizes \subseteq Nat \ {0}

VARIABLES
    txframeno,          \* the master's count of frames
    rx,                 \* the hook's variables: a frame put together
    delivered,          \* frames the master was handed as complete
    slaveTx, sent,      \* fragments the slave has yet to queue, all its frames
    slaveRx, received,  \* the frame it puts together, the last complete one
    address             \* the address of the slave

slaveEoe == <<slaveTx, sent, slaveRx, received, address>>
eoeVars == <<txframeno, rx, delivered, slaveEoe>>

\* rxfragmentno, rxframesize, rxframeoffset (the length of buf), rxframeno.
NoFrame == [fragmentno |-> 0, framesize |-> 0, buf |-> <<>>, frameno |-> 0]

EoeInit ==
    /\ txframeno = 0 /\ rx = NoFrame /\ delivered = {}
    /\ slaveTx = <<>> /\ sent = <<>> /\ slaveRx = NoFrame /\ received = <<>>
    /\ address = [f \in Fields |-> 0]

\* The frames of either side are named by their numbers.
Frame(who, n, size) == [k \in 1 .. size |-> <<who, n, k>>]

\* The offset of a fragment is that of its data, in the first the frame's size.
Fragment(no, k, offset, data, last) ==
    [cmd |-> "EOE_FRAG", frameno |-> no, fragmentno |-> k, offset |-> offset,
     data |-> data, last |-> last]

\* Fragment k of a frame, with what the mailbox holds of what is left.
FragmentOf(no, frame, offset, k) ==
    LET left == Len(frame) - offset
        size == IF left > MaxFragment THEN MaxFragment ELSE left
    IN  Fragment(no, k, IF k > 0 THEN offset ELSE Len(frame),
                 SubSeq(frame, offset + 1, offset + size), size = left)

-----------------------------------------------------------------------------
(* Set and get IP.                                                         *)

EOEsetIp(param) ==
    Begin([cmd |-> "EOE_INIT_REQ", param |-> param],
          [kind |-> "EOEsetIp", param |-> param, ret |-> "none"])

SetIpEnds ==
    /\ Handles("EOEsetIp")
    /\ Return(job, IF got.cmd = "EOE_INIT_RESP" /\ got.success THEN "ok" ELSE "error")

EOEgetIp ==
    Begin([cmd |-> "EOE_GET_IP_REQ"],
          [kind |-> "EOEgetIp", param |-> << >>, ret |-> "none"])

\* The fields that are included are taken.  An answer that is too short for
\* all fields is reported as an error after that.
GetIpEnds ==
    /\ Handles("EOEgetIp")
    /\ IF got.cmd = "EOE_GET_IP_RESP"
       THEN Return([job EXCEPT !.param = got.param], IF got.full THEN "ok" ELSE "error")
       ELSE Return(job, "error")

-----------------------------------------------------------------------------
(* Send.                                                                   *)

\* The mailbox is not drained, and no answer is read.
EOEsend(size) ==
    LET no == (txframeno + 1) % 16
        frame == Frame("master", jobs + 1, size)
        f == FragmentOf(no, frame, 0, 0)
    IN  /\ BeginAt("send", f, "handle",
                   [kind |-> "EOEsend", frame |-> frame, frameno |-> no,
                    offset |-> Len(f.data), fragmentno |-> 0, notLast |-> ~f.last,
                    ret |-> "none"])
        /\ txframeno' = no

SendNext ==
    /\ Handles("EOEsend")
    /\ IF got = Sent /\ job.notLast
       THEN LET f == FragmentOf(job.frameno, job.frame, job.offset, job.fragmentno + 1)
            IN  /\ Becomes([job EXCEPT !.offset = @ + Len(f.data), !.fragmentno = @ + 1,
                                       !.notLast = ~f.last])
                /\ Post(f, "handle")
       ELSE Return(job, IF got = Sent THEN "ok" ELSE "error")

-----------------------------------------------------------------------------
(* Receive.                                                                *)

EOErecv(psize) ==
    BeginAt("wait", NoMsg, "wait",
            [kind |-> "EOErecv", psize |-> psize, rx |-> NoFrame, ret |-> "none"])

\* Mutant: of a fragment only the frame's number is compared.
Expected_FrameOnly(r, f) == r.fragmentno > 0 => r.frameno = f.frameno

\* Is a fragment the next one of a frame; of a new one any number but the
\* first is refused, and inside a frame its own number may be zero.
Expected(r, f) ==
    /\ r.fragmentno = f.fragmentno \/ f.fragmentno = 0
    /\ r.fragmentno > 0 => r.frameno = f.frameno /\ Len(r.buf) = f.offset

\* The frame with a fragment more, if there is room for it.
Joined(r, f, room) ==
    LET start == IF r.fragmentno = 0
                 THEN [NoFrame EXCEPT !.framesize = f.offset, !.frameno = f.frameno]
                 ELSE r
    IN  IF Len(start.buf) + Len(f.data) <= room
        THEN [start EXCEPT !.buf = @ \o f.data, !.fragmentno = @ + 1]
        ELSE start

\* ecx_EOErecv: a fragment joins the frame, or ends the call.
Receive ==
    /\ Handles("EOErecv")
    /\ IF got.cmd = "EOE_FRAG"
       THEN IF /\ Expected(job.rx, got)
               /\ job.rx.fragmentno = 0 => got.offset <= job.psize
            THEN LET r == Joined(job.rx, got, job.psize)
                 IN  IF got.last THEN /\ Return([job EXCEPT !.rx = r], "ok")
                                      /\ delivered' = delivered \cup {r.buf}
                     ELSE Becomes([job EXCEPT !.rx = r]) /\ ReceiveNext /\ UNCHANGED delivered
            ELSE Return(job, "error") /\ UNCHANGED delivered
       ELSE Return(job, "error") /\ UNCHANGED delivered

\* ecx_EOEreadfragment: the frame after a fragment, and whether it is complete.
\* A number out of order starts anew, if that can be.
ReadFrag(r0, f) ==
    LET r == IF r0.fragmentno = f.fragmentno THEN r0 ELSE NoFrame
        joined == Joined(r, f, IF r.fragmentno = 0 THEN f.offset ELSE r.framesize)
    IN  IF ~Expected(r, f) THEN [rx |-> NoFrame, complete |-> FALSE, buf |-> <<>>]
        ELSE IF f.last THEN [rx |-> NoFrame, complete |-> TRUE, buf |-> joined.buf]
        ELSE [rx |-> joined, complete |-> FALSE, buf |-> <<>>]

\* Before the first call (bound: where frames come).
EOEdefinehook ==
    /\ plan.frames > 0 /\ pc = "idle" /\ jobs = 0 /\ hooked = {}
    /\ hooked' = {"EOE_FRAG"}
    /\ UNCHANGED <<master, job, jobs, plan, sm0, sm1, slaveMail, repReq, environment, ghosts>>

\* eoe_hook: a fragment that comes while an answer is waited for is handled
\* and not handed up; the mailbox is read again at once, or the timer ends it.
HookFragment ==
    /\ pc \in {"read", "drain"} /\ sm1.cmd \in hooked /\ Reached
    /\ LET r == ReadFrag(rx, sm1)
       IN  /\ rx' = r.rx
           /\ delivered' = delivered \cup (IF r.complete THEN {r.buf} ELSE {})
    /\ sm1' = NoMsg /\ taken' = TRUE /\ again' = FALSE
    /\ UNCHANGED <<transfer, repReq, txframeno, slaveEoe>>
    /\ IF pc = "drain" THEN Drained
       ELSE /\ UNCHANGED <<pc, got, fails>> \/ Fails
            /\ UNCHANGED <<request, goesOn, want, sm0, outq, lastOut, repAck, dirty, repeats>>

EoeClient ==
    /\ \/ \* any of the fields, set to a new value
          /\ \/ \E p \in UNION {[fields -> {jobs + 1}] : fields \in SUBSET Fields} : EOEsetIp(p)
             \/ EOEdefinehook \/ EOEgetIp \/ SetIpEnds \/ GetIpEnds
             \/ SendNext \/ \E n \in FrameSizes : EOErecv(n) \/ EOErecv(n - 1)
          /\ UNCHANGED <<txframeno, delivered>>
       \/ \E n \in FrameSizes : EOEsend(n) /\ UNCHANGED delivered
       \/ Receive /\ UNCHANGED txframeno
    /\ UNCHANGED <<rx, slaveEoe>>

-----------------------------------------------------------------------------
(* The slave.                                                              *)

EoeTakes(answers) == Take(answers) /\ UNCHANGED <<txframeno, rx, delivered, slaveTx, sent>>

ServeInit ==
    /\ sm0.cmd = "EOE_INIT_REQ"
    /\ \E success \in BOOLEAN :
        /\ EoeTakes(<<[cmd |-> "EOE_INIT_RESP", success |-> success]>>)
        /\ address' = IF success THEN [f \in Fields |-> IF f \in DOMAIN sm0.param
                                          THEN sm0.param[f] ELSE address[f]]
                      ELSE address
    /\ UNCHANGED <<slaveRx, received>>

ServeGetIp ==
    /\ sm0.cmd = "EOE_GET_IP_REQ"
    /\ \E fields \in SUBSET Fields, full \in BOOLEAN :
        EoeTakes(<<[cmd |-> "EOE_GET_IP_RESP", full |-> full,
                    param |-> [f \in fields |-> address[f]]]>>)
    /\ UNCHANGED <<slaveRx, received, address>>

ServeFragment ==
    /\ sm0.cmd = "EOE_FRAG"
    /\ LET r == ReadFrag(slaveRx, sm0)
       IN  slaveRx' = r.rx /\ received' = IF r.complete THEN r.buf ELSE received
    /\ EoeTakes(<<>>) /\ UNCHANGED address

\* A frame comes in at another port of the slave.
FrameArrives ==
    /\ ~gone /\ Len(sent) < plan.frames /\ slaveTx = <<>>
    /\ \E n \in FrameSizes :
        LET frame == Frame("slave", Len(sent) + 1, n)
            count == (n + MaxFragment - 1) \div MaxFragment
        IN  /\ sent' = Append(sent, frame)
            /\ slaveTx' = [k \in 1 .. count |->
                             FragmentOf(Len(sent) % 16, frame, (k - 1) * MaxFragment, k - 1)]
    /\ UNCHANGED <<mailVars, txframeno, rx, delivered, slaveRx, received, address>>

QueueFrame ==
    /\ ~gone /\ slaveTx # <<>> /\ Len(outq) < plan.queue
    /\ outq' = Append(outq, Head(slaveTx)) /\ slaveTx' = Tail(slaveTx)
    /\ UNCHANGED <<master, transfer, sm0, sm1, lastOut, taken, again, repAck, repReq,
                   environment, ghosts, txframeno, rx, delivered, sent, slaveRx, received,
                   address>>

EoeServer == ServeInit \/ ServeGetIp \/ ServeFragment \/ FrameArrives \/ QueueFrame

-----------------------------------------------------------------------------
\* A frame handed over as complete, by EOErecv or by the hook, is one the
\* slave has sent, whole and unmixed, whatever was lost, repeated or
\* read by another call in between, as long as the numbers of the frames
\* have not come around.
ReceivedWhole == Len(sent) <= 16 => delivered \subseteq {sent[k] : k \in DOMAIN sent}

\* A frame whose sending succeeded is complete in the slave once it has
\* taken the last fragment.
SentWhole == Done({"EOEsend"}) /\ sm0 = NoMsg /\ ~gone => received = job.frame

\* What an answer to this call said of the address is so.
AddressAgrees ==
    /\ Done({"EOEsetIp"}) /\ ~dirty => \A f \in DOMAIN job.param : address[f] = job.param[f]
    /\ Done({"EOEgetIp"}) /\ ~dirty => \A f \in DOMAIN job.param : job.param[f] = address[f]

\* Frames and addresses agree on both sides after every call that succeeds.
EthernetAgrees == ReceivedWhole /\ SentWhole /\ AddressAgrees
=============================================================================
