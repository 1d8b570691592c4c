--------------------------- MODULE MCProcessData ---------------------------
(* Up to three slaves are laid out, each direction with nothing, a few     *)
(* bits, some bytes in one sync manager, or bytes in two, with or without  *)
(* a gap; networks of up to two exchange process data for two cycles.  The *)
(* segments have 6 bytes, so that they fill up exactly and spill over; the *)
(* table of four and the stack of two frames run out.                     *)
EXTENDS ProcessData

Sm(len, gap) == [len |-> len, gap |-> gap]
None == [bits |-> 0, sms |-> <<>>]
FewBits == [bits |-> 5, sms |-> <<Sm(1, FALSE)>>]
TwoBytes == [bits |-> 13, sms |-> <<Sm(0, FALSE), Sm(2, TRUE)>>]
Joined == [bits |-> 24, sms |-> <<Sm(1, FALSE), Sm(2, FALSE)>>]
Split == [bits |-> 32, sms |-> <<Sm(2, FALSE), Sm(3, TRUE)>>]
Short == [bits |-> 32, sms |-> <<Sm(0, FALSE), Sm(3, TRUE)>>]

MCOutputs == {None, FewBits, TwoBytes, Split}
MCInputs == {None, FewBits, Joined, Short}

ASSUME FramesChecked ==
    /\ \A n \in 1 .. MAX_FPRD_MULTI : MultiIsRight(n)
    /\ \A n \in 1 .. EC_MAXLRWDATA - EC_FIRSTDCDATAGRAM :
          Sendable(WithClock(setupdatagram("LRW", n)))
    /\ Sendable(LRWDC(EC_MAXLRWDATA - EC_FIRSTDCDATAGRAM, 8))
=============================================================================
