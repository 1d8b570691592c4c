------------------------------- MODULE Frames -------------------------------
(***************************************************************************)
(* The layout of a transmit buffer: ecx_setupdatagram and ecx_adddatagram  *)
(* (soem/ethercatbase.c), and the frames of more than one datagram that    *)
(* are built with them.                                                    *)
(*                                                                         *)
(* A frame is its length in the buffer array, the length in its EtherCAT   *)
(* header, and its datagrams: command, place of the data, length of the    *)
(* data and "datagram follows".  A received frame lacks the Ethernet       *)
(* header, so everything in it lies ETH_HEADERSIZE bytes earlier.          *)
(***************************************************************************)
EXTENDS Integers, Sequences

ETH_HEADERSIZE == 14
EC_HEADERSIZE == 12         \* the datagram's header with elength before it
EC_ELENGTHSIZE == 2
EC_WKCSIZE == 2
EC_MAXECATFRAME == 1518
EC_MAXLRWDATA == EC_MAXECATFRAME - 14 - 2 - 10 - 2 - 4
EC_FIRSTDCDATAGRAM == 20

Datagram(com, data, length, more) ==
    [com |-> com, data |-> data, length |-> length, more |-> more]

\* The commands whose data part is cleared instead of copied.
NoData == {"NOP", "APRD", "FPRD", "BRD", "LRD"}
writedatagramdata(com, data, zero) == IF com \in NoData THEN zero ELSE data

setupdatagram(com, length) ==
    [txbuflength |-> ETH_HEADERSIZE + EC_HEADERSIZE + EC_WKCSIZE + length,
     elength |-> EC_HEADERSIZE + length,
     datagrams |-> <<Datagram(com, ETH_HEADERSIZE + EC_HEADERSIZE, length, FALSE)>>]

\* The flag goes into the first datagram, whichever the previous one is.
adddatagram(fr, com, more, length) ==
    LET data == fr.txbuflength + EC_HEADERSIZE - EC_ELENGTHSIZE
    IN  [txbuflength |-> data + EC_WKCSIZE + length,
         elength |-> fr.elength + EC_HEADERSIZE + length,
         datagrams |-> Append([fr.datagrams EXCEPT ![1].more = TRUE],
                              Datagram(com, data, length, more))]

\* What ecx_adddatagram returns: where the answer will be.
RxOffset(fr) == fr.txbuflength + EC_HEADERSIZE - EC_ELENGTHSIZE - ETH_HEADERSIZE

\* Where ecx_inframe reads the counter that it returns.
InframeWkc(fr) == fr.elength

\* Where in the received frame the data and the counter of datagram k are.
RxData(fr, k) == fr.datagrams[k].data - ETH_HEADERSIZE
RxWkc(fr, k) == RxData(fr, k) + fr.datagrams[k].length

-----------------------------------------------------------------------------
\* The second datagram of a frame with process data: the time of the clock.
WithClock(fr) == adddatagram(fr, "FRMW", FALSE, 8)

\* ecx_FPRD_multi: the state of n slaves in one frame.
MAX_FPRD_MULTI == 64
ALSTATUS == 6               \* sizeof(ec_alstatust)
FPRD_multi_frames(n) ==
    LET f[slcnt \in 0 .. n - 1] ==
            IF slcnt = 0 THEN setupdatagram("FPRD", ALSTATUS)
            ELSE adddatagram(f[slcnt - 1], "FPRD", slcnt < n - 1, ALSTATUS)
    IN  f
sldatapos(n) ==
    [slcnt \in 0 .. n - 1 |->
        IF slcnt = 0 THEN EC_HEADERSIZE ELSE RxOffset(FPRD_multi_frames(n)[slcnt - 1])]

\* ecx_LRWDC: its clock datagram has the length of a pointer.
LRWDC(length, sizeofPointer) ==
    adddatagram(setupdatagram("LRW", length), "FRMW", FALSE, sizeofPointer)

-----------------------------------------------------------------------------
Last(fr) == fr.datagrams[Len(fr.datagrams)]

\* The datagrams follow each other without gaps, each announced by the one
\* before; the two lengths of the frame end behind the last.
LaidOut(fr) ==
    /\ fr.datagrams # <<>>
    /\ fr.datagrams[1].data = ETH_HEADERSIZE + EC_HEADERSIZE
    /\ \A k \in 1 .. Len(fr.datagrams) - 1 :
         /\ fr.datagrams[k].more
         /\ fr.datagrams[k + 1].data = fr.datagrams[k].data + fr.datagrams[k].length
                                          + EC_WKCSIZE + EC_HEADERSIZE - EC_ELENGTHSIZE
    /\ fr.txbuflength = Last(fr).data + Last(fr).length + EC_WKCSIZE
    /\ fr.elength = fr.txbuflength - ETH_HEADERSIZE - EC_ELENGTHSIZE

\* A frame that is sent: nothing is announced behind the last datagram, the
\* counter that ecx_inframe returns is the last datagram's, and the frame
\* fits (without its checksum) into the buffer.
Sendable(fr) ==
    /\ LaidOut(fr) /\ ~Last(fr).more
    /\ InframeWkc(fr) = RxWkc(fr, Len(fr.datagrams))
    /\ fr.txbuflength <= EC_MAXECATFRAME - 4

\* Every answer of ecx_FPRD_multi is read where its datagram's data is.
MultiIsRight(n) ==
    LET fr == FPRD_multi_frames(n)[n - 1]
    IN  Sendable(fr) /\ \A slcnt \in 0 .. n - 1 : sldatapos(n)[slcnt] = RxData(fr, slcnt + 1)
=============================================================================
