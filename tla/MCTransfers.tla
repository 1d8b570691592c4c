----------------------------- MODULE MCTransfers -----------------------------
(* One object, one file, one IDN, one entry of the dictionary *)
(* and frames of three fragments; a second transfer meets what the first   *)
(* left.                                                                   *)
EXTENDS Transfers

MCObjects == {[index |-> 1, sub |-> 1]}
MCIdns == {[drive |-> 1, idn |-> 1]}

Data == {"SDOread", "SDOwrite", "FOEread", "FOEwrite"}
Services == {"SoEread", "SoEwrite", "EOEsetIp", "EOEgetIp", "EOEsend",
             "RxPDO", "TxPDO", "readODlist", "readODdescription", "readOE"}
Series == {"SoEread", "SoEwrite", "readODlist"}             \* several fragments each
Among == {"EOErecv", "EOEsend", "EOEgetIp", "SoEread"}      \* with frames in between

MCPlans == {[calls |-> <<Data, {"SDOread", "FOEwrite"}>>, notices |-> 1, frames |-> 0, queue |-> 2],
            [calls |-> <<Services>>, notices |-> 0, frames |-> 0, queue |-> 1],
            [calls |-> <<Series, Series>>, notices |-> 0, frames |-> 0, queue |-> 1],
            [calls |-> <<Among, {"EOErecv"}>>, notices |-> 0, frames |-> 1, queue |-> 1]}

\* One file written to a slave that may be busy; nothing is lost.
MCFileWrite == {[calls |-> <<{"FOEwrite"}>>, notices |-> 0, frames |-> 0, queue |-> 2]}
=============================================================================
