----------------------------- MODULE ProcessData -----------------------------
(***************************************************************************)
(* One group's cyclic process data over the image that IOmap lays out:     *)
(* ecx_main_send_processdata and ecx_receive_processdata_group             *)
(* (soem/ethercatmain.c) with the stack of frame indices between them, and *)
(* the overlapping variant of the former.                                  *)
(*                                                                         *)
(* One action is one frame sent or one frame waited for.  A frame comes    *)
(* back with the marks of any set of slaves, or not at all before the      *)
(* timeout; what ecx_waitinframe does for that is modelled in NicDrv.      *)
(***************************************************************************)
EXTENDS IOmap, Frames

CONSTANTS
    DcChoices,      \* what grouplist[0].hasdc may be
    MAXBUF,         \* EC_MAXBUF, the depth of the index stack
    MaxServed,      \* bound: slaves in a network that exchanges process data
    MaxCycles       \* bound: cycles of send and receive

ASSUME ProcessDataAssumption ==
    /\ DcChoices \subseteq BOOLEAN /\ MAXBUF \in Nat \ {0}
    /\ MaxCycles \in Nat /\ MaxServed \in Nat
    /\ LIMIT <= EC_MAXLRWDATA - EC_FIRSTDCDATAGRAM

VARIABLES
    hasdc,
    pc,             \* "app" outside of the two calls, or the loop at work
    first, length, adr, seg,    \* locals; adr is LogAdr and data
    DCl, DCtO,      \* length of the datagram before the clock's one, place of that one's data
    idxstack,       \* the frames pushed
    pulled,
    wkc, valid,     \* the receive call's work counter and valid_wkc
    image,          \* the IOmap and what lies behind it, byte by byte
    sent,           \* the image as it was when the cycle's frames were filled
    dctime,         \* where *DCtime was read from
    cycle,
    missed,         \* this cycle: the FMMUs that a frame did not come back for
    dcLost          \* this cycle: the frame with the clock was lost

loopVars == <<first, length, adr, seg>>
clockVars == <<DCl, DCtO>>
pdVars == <<hasdc, pc, loopVars, clockVars, idxstack, pulled, wkc, valid, image, sent,
            dctime, cycle, missed, dcLost>>
vars == <<mapVars, pdVars>>

\* A byte of the image holds the cycle in which its slave filled it in, what
\* the program put there, zero, or bytes that are none of its own.
Program == 0
Zeroed == -1
Foreign == -2
Content == (1 .. MaxCycles) \cup {Program, Zeroed, Foreign}

ImageSize == grp.Obytes + grp.Ibytes
expectedWKC == 2 * grp.outputsWKC + grp.inputsWKC

PdInit ==
    /\ Init
    /\ hasdc \in DcChoices
    /\ pc = "app"
    /\ first = FALSE /\ length = 0 /\ adr = 0 /\ seg = 0
    /\ DCl = 0 /\ DCtO = 0 /\ idxstack = <<>> /\ pulled = 0
    /\ wkc = -1 /\ valid = FALSE
    /\ image = <<>> /\ sent = <<>> /\ dctime = "none"
    /\ cycle = 0
    /\ missed = {} /\ dcLost = FALSE

\* The program's own memory follows the image, so that a write beyond it shows.
Configure ==
    /\ MapNext
    /\ image' = IF Mapped' THEN [a \in 0 .. 2 * LogAddr' + LIMIT |-> Program] ELSE image
    /\ UNCHANGED <<hasdc, pc, loopVars, clockVars, idxstack, pulled, wkc, valid, sent,
                   dctime, cycle, missed, dcLost>>

-----------------------------------------------------------------------------
(* Send.                                                                   *)

\* The loop over the segments of the inputs, of the outputs, or of both.
StartLRD == /\ pc' = "LRD" /\ seg' = grp.Isegment
            /\ adr' = grp.Obytes /\ length' = grp.Ibytes
StartLWR == /\ pc' = "LWR" /\ seg' = 0 /\ adr' = 0 /\ length' = grp.Obytes
StartLRW == /\ pc' = "LRW" /\ seg' = 0 /\ adr' = 0 /\ length' = LogicalSize

SendStart ==
    /\ Mapped /\ pc = "app" /\ cycle < MaxCycles /\ Len(slaves) <= MaxServed
    /\ cycle' = cycle + 1
    /\ sent' = image /\ missed' = {} /\ dcLost' = FALSE
    /\ first' = hasdc
    /\ IF ImageSize = 0
       THEN pc' = "receive" /\ UNCHANGED <<seg, adr, length>>
       ELSE IF grp.blockLRW = 0 THEN StartLRW
       ELSE IF grp.Ibytes > 0 THEN StartLRD ELSE StartLWR
    /\ valid' = FALSE /\ wkc' = 0
    /\ UNCHANGED <<mapVars, hasdc, clockVars, idxstack, pulled, image, dctime>>

\* The FMMUs through which slaves take part in a frame.
Served(fr) ==
    {f \in fmmu : /\ FmmuBytes(f) \cap (fr.adr .. fr.adr + fr.length - 1) # {}
                  /\ fr.cmd \in {IF f.dir = "I" THEN "LRD" ELSE "LWR", "LRW"}}

pushindex(fr) ==
    IF Len(idxstack) < MAXBUF
    THEN idxstack' = Append(idxstack, fr) /\ UNCHANGED missed
    ELSE missed' = missed \cup Served(fr) /\ UNCHANGED idxstack

\* Mutant: the part of the outputs' last segment that holds inputs is not cut
\* off.
sublength_NoClip ==
    CASE pc = "LRD" -> IF seg = grp.Isegment THEN IOsegment[seg] - grp.Ioffset
                       ELSE IOsegment[seg]
      [] OTHER -> IOsegment[seg]

sublength ==
    CASE pc = "LRD" -> IF seg = grp.Isegment THEN IOsegment[seg] - grp.Ioffset
                       ELSE IOsegment[seg]
      [] pc = "LWR" -> Min({IOsegment[seg], length})
      [] OTHER -> IOsegment[seg]

\* Where in the IOmap what comes back belongs: an LRW of the overlapping layout
\* carries the outputs there and the inputs back, which lie behind them.
Place == IF overlap /\ pc = "LRW" THEN adr + grp.Obytes ELSE adr

Datagrams == setupdatagram(pc, sublength)

\* The datagram for the clock goes into the first frame.
SendFrame ==
    /\ pc \in {"LRD", "LWR", "LRW"}
    /\ pushindex([cmd |-> pc, adr |-> adr, to |-> Place,
                  length |-> sublength, dc |-> first,
                  tx |-> IF first THEN WithClock(Datagrams) ELSE Datagrams])
    /\ IF first THEN DCl' = sublength /\ DCtO' = RxOffset(Datagrams)
                ELSE UNCHANGED clockVars
    /\ first' = FALSE
    /\ IF length # sublength /\ seg + 1 < grp.nsegments
       THEN /\ seg' = seg + 1 /\ adr' = adr + sublength
            /\ length' = length - sublength
            /\ UNCHANGED pc
       ELSE IF pc = "LRD" /\ grp.Obytes > 0
       THEN StartLWR
       ELSE pc' = "receive" /\ UNCHANGED <<seg, adr, length>>
    /\ UNCHANGED <<mapVars, hasdc, pulled, wkc, valid, image, sent, dctime,
                   cycle, dcLost>>

-----------------------------------------------------------------------------
(* The slaves: what a frame brings back.                                   *)

\* The code expects one for every FMMU, and two for an output FMMU in an LRW.
FrameWkc(fr, answered) ==
    MapThenSumSet(LAMBDA f : IF f.dir = "O" /\ fr.cmd = "LRW" THEN 2 ELSE 1,
        {f \in Served(fr) : f.slave \in answered})

InputFmmus(a) == {f \in fmmu : f.dir = "I" /\ a \in FmmuBytes(f)}

\* Mutant: an LRW is filled with zeros like an LRD.
Carried_Zeroed(fr, answered, a) ==
    IF InputFmmus(a) # {} /\ \A f \in InputFmmus(a) : f.slave \in answered
    THEN cycle ELSE Zeroed

\* The byte of the datagram that belongs at logical address a.
Carried(fr, answered, a) ==
    IF InputFmmus(a) # {} /\ \A f \in InputFmmus(a) : f.slave \in answered
    THEN cycle
    ELSE writedatagramdata(fr.cmd, sent[a], Zeroed)

-----------------------------------------------------------------------------
(* Receive.                                                                *)

ReceiveStart ==
    /\ pc = "receive"
    /\ first' = hasdc
    /\ pc' = "pull"
    /\ UNCHANGED <<mapVars, hasdc, length, adr, seg, clockVars, idxstack, pulled, wkc,
                   valid, image, sent, dctime, cycle, missed, dcLost>>

frame == idxstack[pulled + 1]

\* memcpy of n bytes of the frame's data to their place; what is read from
\* behind the datagram is not process data.
CopyBack(answered, n) ==
    image' = [a \in DOMAIN image |->
                 IF a \notin frame.to .. frame.to + n - 1 THEN image[a]
                 ELSE IF a < frame.to + frame.length
                 THEN Carried(frame, answered, a - frame.to + frame.adr)
                 ELSE Foreign]

\* The two bytes at a place of the frame received: the counter of its process
\* data if that is there, else whatever lies there.
CounterAt(place, answered) ==
    IF place = RxWkc(frame.tx, 1) THEN {FrameWkc(frame, answered)} ELSE 0 .. expectedWKC + 1

\* The eight bytes at DCtO are those of the clock's datagram.
ClockAtDCtO ==
    \E k \in DOMAIN frame.tx.datagrams :
        /\ frame.tx.datagrams[k].com = "FRMW" /\ frame.tx.datagrams[k].length = 8
        /\ RxData(frame.tx, k) = DCtO

\* The frame has arrived and is taken for the one that carries the clock.
TakeFirst(answered) ==
    /\ first /\ first' = FALSE
    /\ \E w \in CounterAt(EC_HEADERSIZE + DCl, answered) :
          IF frame.cmd = "LWR" THEN wkc' = 2 * w /\ UNCHANGED image
                               ELSE wkc' = w /\ CopyBack(answered, DCl)
    /\ dctime' = IF ClockAtDCtO THEN "clock" ELSE "elsewhere"

\* Mutant: what comes back is copied for the length of the clock's frame.
TakeNext_DClLength(answered) ==
    /\ ~first /\ UNCHANGED <<first, dctime>>
    /\ \E w \in CounterAt(InframeWkc(frame.tx), answered) :
          IF frame.cmd = "LWR" THEN wkc' = wkc + 2 * w /\ UNCHANGED image
                               ELSE wkc' = wkc + w /\ CopyBack(answered, DCl)

\* "output WKC counts 2 times when using LRW, emulate the same for LWR"
TakeNext(answered) ==
    /\ ~first /\ UNCHANGED <<first, dctime>>
    /\ \E w \in CounterAt(InframeWkc(frame.tx), answered) :
          IF frame.cmd = "LWR"
          THEN wkc' = wkc + 2 * w /\ UNCHANGED image
          ELSE wkc' = wkc + w /\ CopyBack(answered, frame.length)

Pull == pc = "pull" /\ pulled < Len(idxstack) /\ pulled' = pulled + 1

ReceiveFrame ==
    /\ Pull
    /\ \E answered \in SUBSET DOMAIN slaves :
          /\ TakeFirst(answered) \/ TakeNext(answered)
          /\ missed' = missed \cup {f \in Served(frame) : f.slave \notin answered}
    /\ valid' = TRUE
    /\ UNCHANGED <<mapVars, hasdc, pc, length, adr, seg, clockVars, idxstack, sent,
                   cycle, dcLost>>

\* Mutant: the counter of the answer last seen in the buffer is added though
\* no answer came.
FrameTimeout_Counts ==
    /\ Pull
    /\ missed' = missed \cup Served(frame)
    /\ dcLost' = (dcLost \/ frame.dc)
    /\ wkc' = wkc + FrameWkc(frame, DOMAIN slaves)
    /\ UNCHANGED <<mapVars, hasdc, pc, loopVars, clockVars, idxstack, valid,
                   image, sent, dctime, cycle>>

\* EC_NOFRAME: nothing is done but to release the index.
FrameTimeout ==
    /\ Pull
    /\ missed' = missed \cup Served(frame)
    /\ dcLost' = (dcLost \/ frame.dc)
    /\ UNCHANGED <<mapVars, hasdc, pc, loopVars, clockVars, idxstack, wkc, valid,
                   image, sent, dctime, cycle>>

clearindex == idxstack' = <<>> /\ pulled' = 0

ReceiveEnd ==
    /\ pc = "pull" /\ pulled = Len(idxstack)
    /\ clearindex
    /\ wkc' = IF valid THEN wkc ELSE -1
    /\ pc' = "app" /\ first' = FALSE
    /\ UNCHANGED <<mapVars, hasdc, length, adr, seg, clockVars, valid,
                   image, sent, dctime, cycle, missed, dcLost>>

Next ==
    \/ Configure
    \/ SendStart \/ SendFrame
    \/ ReceiveStart \/ ReceiveFrame \/ FrameTimeout \/ ReceiveEnd

PdSpec == PdInit /\ [][Next]_vars

-----------------------------------------------------------------------------
(* Properties.                                                             *)

Received == Mapped /\ pc = "app" /\ cycle > 0
FramesPerCycle ==
    IF grp.blockLRW = 0 THEN grp.nsegments
    ELSE (IF grp.Ibytes > 0 THEN grp.nsegments - grp.Isegment ELSE 0)
         + (IF grp.Obytes > 0 THEN grp.Isegment + 1 ELSE 0)

\* No FMMU lies in two segments.
EachInOneFrame ==
    \A f \in fmmu : \E k \in Segments :
        FmmuBytes(f) \subseteq SegmentStart(k) .. SegmentStart(k + 1) - 1

\* When LRW is blocked the LRD of an overlapping layout asks for the addresses
\* behind the outputs, where no input is.
Misread == overlap /\ grp.blockLRW > 0
Overruns == overlap /\ grp.Obytes > grp.Ibytes

\* The stack holds at most EC_MAXBUF frames, is read no further than it was
\* written, and the image holds process data or what the program left there.
PdTypeOK ==
    /\ pc \in {"app", "LRD", "LWR", "LRW", "receive", "pull"}
    /\ Len(idxstack) <= MAXBUF /\ pulled \in 0 .. Len(idxstack)
    /\ first \in BOOLEAN /\ valid \in BOOLEAN
    /\ length \in Int /\ adr \in Nat /\ seg \in 0 .. MAXIOSEGMENTS
    /\ wkc \in Int /\ wkc >= -1
    /\ \A a \in DOMAIN image : image[a] \in Content

\* The frames of one cycle carry every input byte in exactly one reading
\* datagram, every output byte in exactly one writing one, and no datagram
\* writes a byte that is not an output unless it also reads it.  Every frame
\* fits, and its counter lies where ecx_inframe takes it from.
EachByteOnce ==
    /\ PdTypeOK
    /\ \A k \in DOMAIN idxstack : Sendable(idxstack[k].tx)
    /\ pc = "receive" /\ ~TableFull /\ ~Misread /\ FramesPerCycle <= MAXBUF =>
         \A a \in 0 .. LogicalSize - 1 :
             LET on == {k \in DOMAIN idxstack :
                           a \in idxstack[k].adr ..
                                   idxstack[k].adr + idxstack[k].length - 1}
                 cmds == IF grp.blockLRW = 0 THEN {"LRW"}
                         ELSE IF a < grp.Obytes THEN {"LWR"} ELSE {"LRD"}
             IN  Cardinality(on) = 1 /\ \A k \in on : idxstack[k].cmd \in cmds

\* A cycle whose work counter reaches what start up computed has missed
\* nothing: all slaves took their outputs from it and filled in their inputs.
\* And the other way round: when nothing is missed the counter says so, with
\* LRW as with LRD and LWR, with the clock's datagram as without, but for two
\* of every FMMU of length 0 among the outputs.  (With every FMMU in one frame,
\* and the frame of the clock not lost.)
WkcTells ==
    Received /\ ~TableFull /\ ~Misread /\ EachInOneFrame /\ ~dcLost =>
        /\ wkc >= expectedWKC => missed = {}
        /\ missed = {} /\ fmmu # {} => wkc = expectedWKC - 2 * empty

\* An input byte whose slave was heard is of this cycle, whatever became of
\* the other frames, and the time was read where the clock left it (unless
\* the frame of the clock was lost).
InputsFresh ==
    Received /\ ~TableFull /\ ~Misread /\ ~dcLost =>
        /\ dctime # "elsewhere"
        /\ \A a \in grp.Obytes .. ImageSize - 1 :
              LET on == InputFmmus(IF overlap THEN a - grp.Obytes ELSE a)
              IN  on # {} /\ on \cap missed = {} => image[a] = cycle

\* Receiving changes no output and nothing behind the image, as long as the
\* frame of the clock was not lost.  What comes back of an overlapping image
\* that has more outputs than inputs does reach beyond its end.
OnlyInputsChange ==
    [][Mapped /\ ~dcLost =>
          \A a \in DOMAIN image :
              a < grp.Obytes \/ (a >= ImageSize /\ ~Overruns) => image'[a] = image[a]]_vars
=============================================================================
