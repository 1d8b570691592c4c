-------------------------------- MODULE IOmap --------------------------------
(***************************************************************************)
(* ecx_config_map_group (soem/ethercatconfig.c) for group 0, in which the  *)
(* logical process image starts at address 0: the outputs of all slaves,   *)
(* then their inputs, are laid out behind each other, an FMMU is set up    *)
(* for every run of adjacent sync managers, and the image is cut into the  *)
(* segments that ecx_main_send_processdata sends as one frame each.        *)
(* ecx_config_overlap_map_group lays the inputs of each slave over its     *)
(* outputs instead.                                                        *)
(*                                                                         *)
(* A slave is what its mapping objects say: per direction the number of    *)
(* process data bits and the sync managers that hold them.  The address of *)
(* a sync manager matters only by whether it leaves a gap behind the one   *)
(* before it.  One action is one FMMU, or one slave's end.                 *)
(***************************************************************************)
EXTENDS Integers, Sequences, FiniteSetsExt

CONSTANTS
    Outputs, Inputs,    \* what a slave may have: [bits, sms]
    MaxSlaves,          \* bound: slaves on the segment
    LIMIT,              \* EC_MAXLRWDATA - EC_FIRSTDCDATAGRAM
    MAXIOSEGMENTS,      \* EC_MAXIOSEGMENTS
    OverlapChoices      \* whether the overlapping layout is used

\* d.bits is Obits or Ibits; d.sms the sync managers of that type in order,
\* each with its length and whether its address leaves a gap.
ASSUME IOmapAssumption ==
    /\ LIMIT \in Nat \ {0} /\ MAXIOSEGMENTS \in Nat \ {0} /\ MaxSlaves \in Nat
    /\ OverlapChoices \subseteq BOOLEAN
    /\ \A d \in Outputs \cup Inputs :
         /\ d.bits \in Nat
         /\ Len(d.sms) \in Nat /\ DOMAIN d.sms = 1 .. Len(d.sms)
         /\ d.bits > 0 => Len(d.sms) > 0
         /\ \A k \in DOMAIN d.sms : d.sms[k].len \in Nat

VARIABLES
    slaves,             \* the slaves: [O, I, blockLRW]
    overlap,            \* which of the two functions is at work
    phase,              \* "O", then "I", then "mapped"
    slave,              \* the slave being mapped
    SMc, ByteCount, FMMUdone,   \* locals of create_output/input_mappings
    fmmu,               \* the FMMUs set up so far
    at,                 \* slavelist[].inputs and .outputs: a bit of the image, or NULL
    moved,              \* bytes by which all the inputs have been moved
    empty,              \* FMMUs of length 0 that were counted for the outputs
    LogAddr, BitPos,    \* LogAddr is also siLogAddr and soLogAddr
    oLogAddr,           \* also mLogAddr
    ends,               \* soLogAddr and siLogAddr behind the last slave mapped
    IOsegment, currentsegment, segmentsize,
    grp                 \* context->grouplist[0]

loop == <<SMc, ByteCount, FMMUdone>>
cursor == <<LogAddr, BitPos, oLogAddr>>
segs == <<IOsegment, currentsegment, segmentsize>>
fmmus == <<fmmu, at, moved, empty>>
mapVars == <<slaves, overlap, phase, slave, loop, fmmus, cursor, ends, segs, grp>>

Pdos == slaves[slave][phase]            \* of the slave and direction at hand
NeedBytes(d) == (d.bits + 7) \div 8
Bytes(d) == IF d.bits > 7 THEN NeedBytes(d) ELSE 0  \* Obytes, Ibytes
SmBytes(d, a, b) == MapThenSumSet(LAMBDA k : d.sms[k].len, a .. b)

NULL == -1
NoSlaveYet == [Obytes |-> 0, Ibytes |-> 0, Isegment |-> 0, Ioffset |-> 0,
               nsegments |-> 0, outputsWKC |-> 0, inputsWKC |-> 0,
               blockLRW |-> 0]

Init ==
    /\ slaves \in UNION {[1 .. n -> [O : Outputs, I : Inputs, blockLRW : BOOLEAN]] :
                            n \in 1 .. MaxSlaves}
    /\ overlap \in OverlapChoices
    /\ phase = "O" /\ slave = 1
    /\ SMc = 1 /\ ByteCount = 0 /\ FMMUdone = 0
    /\ fmmu = {} /\ at = [s \in DOMAIN slaves |-> [O |-> NULL, I |-> NULL]]
    /\ moved = 0 /\ empty = 0
    /\ LogAddr = 0 /\ BitPos = 0 /\ oLogAddr = 0
    /\ ends = [O |-> 0, I |-> 0]
    /\ IOsegment = [k \in 0 .. MAXIOSEGMENTS - 1 |-> 0]
    /\ currentsegment = 0 /\ segmentsize = 0
    /\ grp = NoSlaveYet

-----------------------------------------------------------------------------
(* ecx_config_create_output_mappings and .._input_mappings: one FMMU.      *)

\* The last sync manager an FMMU takes that starts at c: the one that makes
\* up the process data, or the one before a gap.
LastJoined(d, c) ==
    Min({j \in c .. Len(d.sms) :
            \/ 8 * SmBytes(d, 1, j) >= d.bits
            \/ j = Len(d.sms)
            \/ d.sms[j + 1].gap})

\* The data of a slave begin where its first FMMU does.
PointTo(bit) ==
    at' = IF at[slave][phase] # NULL THEN at ELSE [at EXCEPT ![slave][phase] = bit]

AddFmmu(size, start, sbit, ebit) ==
    /\ fmmu' = fmmu \cup {[slave |-> slave, dir |-> phase, first |-> SMc,
                           last |-> LastJoined(Pdos, SMc), size |-> size,
                           start |-> start, sbit |-> sbit, ebit |-> ebit]}
    /\ PointTo(8 * start + sbit)
    /\ UNCHANGED <<moved, empty>>

\* One more working counter is to be expected.
CountWKC ==
    grp' = [grp EXCEPT !.outputsWKC = IF phase = "O" THEN @ + 1 ELSE @,
                       !.inputsWKC = IF phase = "I" THEN @ + 1 ELSE @]

MapsFmmu == /\ phase \in {"O", "I"} /\ slave <= Len(slaves)
            /\ FMMUdone < NeedBytes(Pdos) /\ SMc <= Len(Pdos.sms)

\* After a gap the next FMMU starts at the sync manager behind it.
NextSM == LET j == LastJoined(Pdos, SMc)
          IN  SMc' = IF 8 * SmBytes(Pdos, 1, j) >= Pdos.bits THEN j ELSE j + 1

\* Mutant: the last bit of a slave is taken for the first bit of the next.
MapBits_SharedBit ==
    /\ MapsFmmu /\ Bytes(Pdos) = 0
    /\ LET end == 8 * LogAddr + BitPos + Pdos.bits - 1
           size == end \div 8 - LogAddr + 1
       IN  /\ AddFmmu(size, LogAddr, BitPos, end % 8)
           /\ LogAddr' = end \div 8
           /\ BitPos' = end % 8
           /\ FMMUdone' = FMMUdone + size
    /\ ByteCount' = ByteCount + SmBytes(Pdos, SMc, LastJoined(Pdos, SMc))
    /\ NextSM /\ CountWKC
    /\ UNCHANGED <<slaves, overlap, phase, slave, oLogAddr, ends, segs>>

\* "bit oriented slave": it starts at the bit where the last one ended.
MapBits ==
    /\ MapsFmmu /\ Bytes(Pdos) = 0
    /\ LET end == 8 * LogAddr + BitPos + Pdos.bits - 1
           size == end \div 8 - LogAddr + 1
       IN  /\ AddFmmu(size, LogAddr, BitPos, end % 8)
           /\ LogAddr' = (end + 1) \div 8
           /\ BitPos' = (end + 1) % 8
           /\ FMMUdone' = FMMUdone + size
    /\ ByteCount' = ByteCount + SmBytes(Pdos, SMc, LastJoined(Pdos, SMc))
    /\ NextSM /\ CountWKC
    /\ UNCHANGED <<slaves, overlap, phase, slave, oLogAddr, ends, segs>>

\* "byte oriented slave": it starts at the next byte.  ByteCount is the sum
\* over all sync managers so far, not only those of this FMMU.
MapBytes ==
    /\ MapsFmmu /\ Bytes(Pdos) > 0
    /\ ByteCount' = ByteCount + SmBytes(Pdos, SMc, LastJoined(Pdos, SMc))
    /\ ByteCount' > 0
    /\ LET start == IF BitPos > 0 THEN LogAddr + 1 ELSE LogAddr
           size == Min({ByteCount', Bytes(Pdos) - FMMUdone})
       IN  /\ AddFmmu(size, start, 0, 7)
           /\ LogAddr' = start + size
           /\ BitPos' = 0
           /\ FMMUdone' = FMMUdone + size
    /\ NextSM /\ CountWKC
    /\ UNCHANGED <<slaves, overlap, phase, slave, oLogAddr, ends, segs>>

\* Sync managers of length 0 in front of a gap make an FMMU of length 0, to
\* which no slave answers.  The inputs do not count it, the outputs do.
MapEmpty ==
    /\ MapsFmmu /\ Bytes(Pdos) > 0
    /\ ByteCount' = ByteCount + SmBytes(Pdos, SMc, LastJoined(Pdos, SMc))
    /\ ByteCount' = 0
    /\ LogAddr' = IF BitPos > 0 THEN LogAddr + 1 ELSE LogAddr
    /\ BitPos' = 0
    /\ PointTo(8 * LogAddr')
    /\ NextSM
    /\ IF phase = "O" THEN CountWKC /\ empty' = empty + 1 ELSE UNCHANGED <<grp, empty>>
    /\ UNCHANGED <<slaves, overlap, phase, slave, FMMUdone, fmmu, moved, oLogAddr, ends, segs>>

-----------------------------------------------------------------------------
(* ecx_config_map_group: the segments.                                     *)

\* The slave's bytes go into the current segment, or begin a new one; when
\* there is no new one the current one keeps the size it has.
Grow(diff) ==
    IF segmentsize + diff > LIMIT
    THEN /\ IOsegment' = [IOsegment EXCEPT ![currentsegment] = segmentsize]
         /\ IF currentsegment < MAXIOSEGMENTS - 1
            THEN currentsegment' = currentsegment + 1 /\ segmentsize' = diff
            ELSE UNCHANGED <<currentsegment, segmentsize>>
    ELSE segmentsize' = segmentsize + diff /\ UNCHANGED <<IOsegment, currentsegment>>

\* The slave is done; in the input phase its blockLRW is noted as well.
SlaveMapped == /\ phase \in {"O", "I"} /\ slave <= Len(slaves)
               /\ FMMUdone >= NeedBytes(Pdos) \/ SMc > Len(Pdos.sms)
Reset == SMc' = 1 /\ ByteCount' = 0 /\ FMMUdone' = 0
BlockLRW == IF slaves[slave].blockLRW THEN [grp EXCEPT !.blockLRW = @ + 1] ELSE grp

EndSlave ==
    /\ ~overlap /\ SlaveMapped
    /\ IF Pdos.bits > 0 THEN Grow(LogAddr - oLogAddr) /\ oLogAddr' = LogAddr
                        ELSE UNCHANGED <<segs, oLogAddr>>
    /\ grp' = IF phase = "I" THEN BlockLRW ELSE grp
    /\ slave' = slave + 1 /\ Reset
    /\ UNCHANGED <<slaves, overlap, phase, fmmus, LogAddr, BitPos, ends>>

\* The overlapping layout: both directions of a slave begin at one address, on
\* a byte of its own.
EndOverlap(dir) ==
    /\ overlap /\ SlaveMapped /\ phase = dir
    /\ ends' = [ends EXCEPT ![dir] = IF BitPos > 0 THEN LogAddr + 1 ELSE LogAddr]
    /\ BitPos' = 0 /\ Reset
    /\ UNCHANGED <<slaves, overlap, fmmus>>

EndOverlapOutputs ==
    /\ EndOverlap("O") /\ phase' = "I"
    /\ LogAddr' = oLogAddr
    /\ UNCHANGED <<slave, oLogAddr, segs, grp>>

\* Mutant: the next slave begins behind this one's inputs.
EndOverlapInputs_BehindInputs ==
    /\ EndOverlap("I") /\ phase' = "O"
    /\ oLogAddr' = ends'.I /\ LogAddr' = oLogAddr'
    /\ Grow(oLogAddr' - oLogAddr)
    /\ grp' = BlockLRW /\ slave' = slave + 1

EndOverlapInputs ==
    /\ EndOverlap("I") /\ phase' = "O"
    /\ oLogAddr' = Max({ends'.O, ends'.I}) /\ LogAddr' = oLogAddr'
    /\ Grow(oLogAddr' - oLogAddr)
    /\ grp' = BlockLRW /\ slave' = slave + 1

\* The inputs come back behind the outputs: the pointers of all slaves move
\* there, also of those that have no inputs.
EndOverlapMap ==
    /\ overlap /\ phase = "O" /\ slave > Len(slaves) /\ phase' = "mapped"
    /\ moved' = ends.O
    /\ IOsegment' = [IOsegment EXCEPT ![currentsegment] = segmentsize]
    /\ grp' = [grp EXCEPT !.nsegments = currentsegment + 1, !.Isegment = 0, !.Ioffset = 0,
                          !.Obytes = ends.O, !.Ibytes = ends.I]
    /\ UNCHANGED <<slaves, overlap, slave, loop, fmmu, at, empty, cursor, ends,
                   currentsegment, segmentsize>>

\* A last byte that is only partly used is closed.
CloseByte ==
    IF BitPos > 0
    THEN LogAddr' = LogAddr + 1 /\ oLogAddr' = LogAddr' /\ BitPos' = 0 /\ Grow(1)
    ELSE UNCHANGED <<cursor, segs>>

EndOutputs ==
    /\ ~overlap /\ phase = "O" /\ slave > Len(slaves)
    /\ CloseByte
    /\ grp' = [grp EXCEPT !.Obytes = LogAddr',
                          !.nsegments = currentsegment' + 1,
                          !.Isegment = currentsegment',
                          !.Ioffset = segmentsize']
    /\ phase' = "I" /\ slave' = 1
    /\ UNCHANGED <<slaves, overlap, loop, fmmus, ends>>

EndInputs ==
    /\ ~overlap /\ phase = "I" /\ slave > Len(slaves)
    /\ IF BitPos > 0
       THEN LogAddr' = LogAddr + 1 /\ oLogAddr' = LogAddr' /\ BitPos' = 0
       ELSE UNCHANGED cursor
    /\ LET full == BitPos > 0 /\ segmentsize + 1 > LIMIT
           opens == full /\ currentsegment < MAXIOSEGMENTS - 1
           size == IF opens THEN 1
                   ELSE IF BitPos > 0 /\ ~full THEN segmentsize + 1
                   ELSE segmentsize
           cur == IF opens THEN currentsegment + 1 ELSE currentsegment
       IN  /\ currentsegment' = cur /\ segmentsize' = size
           /\ IOsegment' = [k \in DOMAIN IOsegment |->
                               IF k = cur THEN size
                               ELSE IF k = currentsegment THEN segmentsize
                               ELSE IOsegment[k]]
           /\ grp' = [grp EXCEPT !.nsegments = cur + 1,
                                 !.Ibytes = LogAddr' - grp.Obytes]
    /\ phase' = "mapped"
    /\ UNCHANGED <<slaves, overlap, slave, loop, fmmus, ends>>

MapNext == \/ MapBits \/ MapBytes \/ MapEmpty
           \/ EndSlave \/ EndOutputs \/ EndInputs
           \/ EndOverlapOutputs \/ EndOverlapInputs \/ EndOverlapMap

Spec == Init /\ [][MapNext]_mapVars

-----------------------------------------------------------------------------
(* Properties.                                                             *)

Mapped == phase = "mapped"
LogicalSize == IF overlap THEN Max({grp.Obytes, grp.Ibytes}) ELSE grp.Obytes + grp.Ibytes
Segments == 0 .. grp.nsegments - 1
SegmentStart(k) == MapThenSumSet(LAMBDA j : IOsegment[j], 0 .. k - 1)
TableFull == currentsegment = MAXIOSEGMENTS - 1

\* The logical bits an FMMU maps, and the bytes they are in.
FmmuBits(f) == 8 * f.start + f.sbit .. 8 * (f.start + f.size - 1) + f.ebit
FmmuBytes(f) == f.start .. f.start + f.size - 1
ByteOriented(f) == Bytes(slaves[f.slave][f.dir]) > 0

\* slavelist[].inputs and .outputs as addresses: what they count from, and the
\* bits from there; and the bits of the IOmap that an FMMU's data take.
pointer(s, dir) ==
    [base |-> IF at[s][dir] = NULL THEN "NULL" ELSE "IOmap",
     bit  |-> (IF at[s][dir] = NULL THEN 0 ELSE at[s][dir]) + IF dir = "I" THEN 8 * moved ELSE 0]
MapBitsOf(f) ==
    LET behind == IF overlap /\ f.dir = "I" THEN 8 * grp.Obytes ELSE 0
    IN  {b + behind : b \in FmmuBits(f)}

\* The cursor, the segment table and the group record stay within their
\* ranges: a bit position below 8, a segment number that the table has.
TypeOK ==
    /\ phase \in {"O", "I", "mapped"}
    /\ slave \in 1 .. Len(slaves) + 1
    /\ SMc \in Nat /\ ByteCount \in Nat /\ FMMUdone \in Nat
    /\ moved \in Nat /\ empty \in Nat
    /\ LogAddr \in Nat /\ BitPos \in 0 .. 7 /\ oLogAddr \in 0 .. LogAddr
    /\ ends \in [O : Nat, I : Nat] /\ overlap \in BOOLEAN
    /\ IOsegment \in [0 .. MAXIOSEGMENTS - 1 -> Nat]
    /\ currentsegment \in 0 .. MAXIOSEGMENTS - 1 /\ segmentsize \in Nat
    /\ grp \in [DOMAIN NoSlaveYet -> Nat]

\* Unless the table of segments is full, the segments cut the whole process
\* image into pieces without a rest: what the frames of
\* ecx_main_send_processdata carry together is Obytes + Ibytes, or the greater
\* of the two when they overlap.
ImageTiled ==
    Mapped /\ ~TableFull =>
        /\ SegmentStart(grp.nsegments) = LogicalSize
        /\ LogicalSize = LogAddr

\* A segment fits into a frame with the datagram for the clock behind it as
\* long as no slave alone has more than that.
SegmentsFit ==
    (\A s \in DOMAIN slaves, dir \in {"O", "I"} : Bytes(slaves[s][dir]) < LIMIT)
        => segmentsize <= LIMIT /\ \A k \in DOMAIN IOsegment : IOsegment[k] <= LIMIT

\* No two FMMUs claim the same bit of the image: one slave's inputs are
\* never merged into another's, whatever the mix of bit and byte oriented
\* slaves.  In the overlapping layout a slave may share bits with itself.
FmmusDisjoint ==
    \A f, g \in fmmu :
        f # g /\ FmmuBits(f) \cap FmmuBits(g) # {} =>
            overlap /\ f.slave = g.slave /\ f.dir # g.dir

\* Isegment and Ioffset, from which the LRD frames are cut when LRW is
\* blocked, name the very byte where the inputs begin, and all outputs lie
\* before it, all inputs behind it; overlapping ones lie within Obytes and
\* Ibytes.
InputsBehindOutputs ==
    Mapped /\ ~TableFull =>
        IF overlap
        THEN \A f \in fmmu : f.start + f.size <= IF f.dir = "O" THEN grp.Obytes ELSE grp.Ibytes
        ELSE /\ SegmentStart(grp.Isegment) + grp.Ioffset = grp.Obytes
             /\ \A f \in fmmu : IF f.dir = "O"
                                THEN f.start + f.size <= grp.Obytes
                                ELSE f.start >= grp.Obytes

\* The inputs, or the outputs, of a byte oriented slave are all in one
\* segment, so that one frame carries a consistent set of them.
SlaveInOneFrame ==
    Mapped /\ ~TableFull =>
        \A f, g \in fmmu :
            f.slave = g.slave /\ f.dir = g.dir /\ ByteOriented(f)
                => \E k \in Segments :
                      FmmuBytes(f) \cup FmmuBytes(g)
                        \subseteq SegmentStart(k) .. SegmentStart(k + 1) - 1

\* Where the sync managers hold all of the process data, the FMMUs of a byte
\* oriented slave take exactly as many bytes of the image as the slave has.
EveryByteMapped ==
    Mapped => \A s \in DOMAIN slaves, dir \in {"O", "I"} :
        LET d == slaves[s][dir]
        IN  Bytes(d) > 0 /\ SmBytes(d, 1, Len(d.sms)) >= Bytes(d)
              => MapThenSumSet(LAMBDA f : f.size,
                    {f \in fmmu : f.slave = s /\ f.dir = dir}) = Bytes(d)

\* "if addresses from more SM connect use one FMMU otherwise break up in
\* multiple FMMU" (ethercatconfig.c:942, 1074): an FMMU reaches no further
\* than the sync managers it joins.  With a third sync manager behind a gap,
\* or with sync managers too short for the process data, it does: ByteCount
\* is never reset between the FMMUs of a slave.  And that of a bit oriented
\* slave starts at its first sync manager, be it of length 0.
FmmuWithinSms ==
    \A f \in fmmu :
        LET d == slaves[f.slave][f.dir]
        IN  Len(d.sms) <= 2 /\ SmBytes(d, 1, Len(d.sms)) >= Bytes(d)
              /\ (Bytes(d) = 0 => d.sms[1].len > 0)
                => 8 * (f.size - 1) + f.ebit - f.sbit < 8 * SmBytes(d, f.first, f.last)

\* The application lays the structure of a slave's process data over the IOmap
\* at inputs and outputs: where the sync managers hold all of them, they are
\* there from the first bit to the last without a hole, however many FMMUs map
\* them and wherever an overlapping layout has moved the inputs.  A slave's
\* pointer is left at NULL, but for that move, when it has no data.
DataInOnePiece ==
    Mapped => \A s \in DOMAIN slaves, dir \in {"O", "I"} :
        LET d == slaves[s][dir]
            p == pointer(s, dir)
            size == IF Bytes(d) > 0 THEN 8 * Bytes(d) ELSE d.bits
            own == {f \in fmmu : f.slave = s /\ f.dir = dir}
        IN  IF d.bits = 0 THEN p.base = "NULL"
            ELSE SmBytes(d, 1, Len(d.sms)) >= NeedBytes(d)
                   => /\ p.base = "IOmap"
                      /\ UNION {MapBitsOf(f) : f \in own} = p.bit .. p.bit + size - 1

\* The segments, from which the frames of the process data are cut, fit: they
\* tile the image, none is longer than a frame, the inputs begin where
\* Isegment and Ioffset say, and no slave's data is torn between two frames.
SegmentsRight ==
    TypeOK /\ ImageTiled /\ SegmentsFit /\ InputsBehindOutputs /\ SlaveInOneFrame

\* The FMMUs fit: no bit belongs to two slaves, every byte of a slave is
\* mapped, none reaches beyond the sync managers it stands for, and the data
\* of a slave are in one piece behind its pointer.
FmmusRight == FmmusDisjoint /\ EveryByteMapped /\ FmmuWithinSms /\ DataInOnePiece
=============================================================================
