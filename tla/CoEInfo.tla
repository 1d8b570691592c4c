------------------------------- MODULE CoEInfo -------------------------------
(***************************************************************************)
(* The services of ethercatcoe.c beside the SDO: PDOs over the mailbox     *)
(* (ecx_RxPDO, ecx_TxPDO) and the object dictionary (ecx_readODlist,       *)
(* ecx_readODdescription, ecx_readOEsingle, ecx_readOE).  Answers are      *)
(* compared with the service only, not with the object they speak of.      *)
(* Names, types and sizes of objects are one description.                  *)
(*                                                                         *)
(* The slave is external.  It sends the list of its objects in parts,      *)
(* which a single request brings.                                          *)
(***************************************************************************)
EXTENDS Mailbox

CONSTANTS
    Items,              \* objects that are described
    MaxSub,             \* the highest subindex of an object
    ListParts,          \* parts of the list of the slave
    MaxList,            \* parts that fit the master's list (EC_MAXODLIST)
    MaxParts,           \* parts that are read at most (128)
    PdoSizes            \* sizes in chunks of PDOs, and of buffers

ASSUME CoEInfoAssumption ==
    /\ MaxSub \in Nat /\ ListParts \in Nat \ {0} /\ MaxList \in Nat /\ MaxParts \in Nat
    /\ PdoSizes \subseteq Nat

VARIABLES
    rxpdo,              \* the PDO the slave was sent last
    parts               \* parts of the list that are not queued yet

infoVars == <<rxpdo, parts>>

InfoInit == rxpdo = <<>> /\ parts = <<>>

ListReq == [cmd |-> "ODLIST_REQ"]
ListRes(data, left) == [cmd |-> "ODLIST_RES", data |-> data, fragments |-> left]
DescribeReq(i) == [cmd |-> "OD_REQ", item |-> i]
EntryReq(i, s) == [cmd |-> "OE_REQ", item |-> i, sub |-> s]
InfoError == [cmd |-> "INFO_ERROR"]

-----------------------------------------------------------------------------
(* PDOs.                                                                   *)

\* What a mailbox does not hold of the PDO is not sent.
RxPDO(n) ==
    LET data == DataOf(jobs + 1, n)
    IN  BeginAt("drain", [cmd |-> "RXPDO", data |-> SubSeq(data, 1, IF n > 1 THEN 1 ELSE n)],
                "handle", [kind |-> "RxPDO", data |-> data, ret |-> "none"])

RxPDOends ==
    /\ Handles("RxPDO")
    /\ Return(job, IF got = Sent THEN "ok" ELSE "error")

TxPDO(psize) ==
    Begin([cmd |-> "TXPDO_RR"],
          [kind |-> "TxPDO", psize |-> psize, buf |-> <<>>, ret |-> "none"])

TxPDOends ==
    /\ Handles("TxPDO")
    /\ IF got.cmd = "TXPDO" /\ Len(got.data) <= job.psize
       THEN Return([job EXCEPT !.buf = got.data], "ok")
       ELSE Return(job, "error")

-----------------------------------------------------------------------------
(* The object dictionary.                                                  *)

readODlist ==
    Begin(ListReq, [kind |-> "readODlist", list |-> <<>>, x |-> 0,
                    clean |-> parts = <<>> /\ sm0.cmd # "ODLIST_REQ", ret |-> "none"])

\* Mutant: a part that fits no more begins the list again.
ReadPart_Wraps ==
    /\ Handles("readODlist")
    /\ IF got.cmd = "ODLIST_RES"
       THEN LET all == job.list \o got.data
                read == [job EXCEPT !.list = IF Len(all) > MaxList THEN got.data ELSE all,
                                    !.x = @ + 1]
            IN  IF got.fragments > 0 /\ read.x <= MaxParts THEN Becomes(read) /\ ReceiveNext
                ELSE Return(read, "ok")
       ELSE Return(job, "error")

\* A part of the list; what does not fit is reported and dropped, and the
\* parts that follow are read all the same.
ReadPart ==
    /\ Handles("readODlist")
    /\ IF got.cmd = "ODLIST_RES"
       THEN LET all == job.list \o got.data
                read == [job EXCEPT !.list = SubSeq(all, 1, IF Len(all) > MaxList
                                                            THEN MaxList ELSE Len(all)),
                                    !.x = @ + 1]
            IN  IF got.fragments > 0 /\ read.x <= MaxParts THEN Becomes(read) /\ ReceiveNext
                ELSE Return(read, "ok")
       ELSE Return(job, "error")

readODdescription(i) ==
    Begin(DescribeReq(i), [kind |-> "readODdescription", item |-> i, of |-> "none", ret |-> "none"])

DescriptionEnds ==
    /\ Handles("readODdescription")
    /\ IF got.cmd = "OD_RES" THEN Return([job EXCEPT !.of = got.item], "ok")
       ELSE Return(job, "error")

\* All entries of an object, one exchange for each subindex.
readOE(i) ==
    Begin(EntryReq(i, 0),
          [kind |-> "readOE", item |-> i, sub |-> 0, entries |-> 0, list |-> << >>,
           clean |-> TRUE, ret |-> "none"])

\* The answer for one subindex goes to its place.  The next one follows, and
\* the success of the last is that of all.
readOEsingle ==
    /\ Handles("readOE")
    /\ LET answered == got.cmd = "OE_RES"
           read == [job EXCEPT !.entries = IF answered THEN @ + 1 ELSE @,
                               !.list = Append(@, IF answered THEN <<got.item, got.sub>>
                                                  ELSE <<>>),
                               !.clean = @ /\ ~dirty]
       IN  IF job.sub < MaxSub
           THEN /\ Becomes([read EXCEPT !.sub = @ + 1])
                /\ Again(EntryReq(job.item, job.sub + 1))
           ELSE Return(read, IF answered THEN "ok" ELSE "error")

InfoClient ==
    /\ \/ \E n \in PdoSizes : RxPDO(n) \/ TxPDO(n)
       \/ \E i \in Items : readODdescription(i) \/ readOE(i)
       \/ readODlist \/ RxPDOends \/ TxPDOends \/ ReadPart \/ DescriptionEnds \/ readOEsingle
    /\ UNCHANGED infoVars

-----------------------------------------------------------------------------
(* The slave.                                                              *)

ServePdo ==
    /\ sm0.cmd \in {"RXPDO", "TXPDO_RR"}
    /\ IF sm0.cmd = "RXPDO" THEN Take(<<>>) /\ rxpdo' = sm0.data
       ELSE Take(<<[cmd |-> "TXPDO", data |-> DataOf(0, 1)]>>) /\ UNCHANGED rxpdo
    /\ UNCHANGED parts

ServeList ==
    /\ sm0.cmd = "ODLIST_REQ"
    /\ Take(<<>>) /\ UNCHANGED rxpdo
    /\ parts' = parts \o [k \in 1 .. ListParts |-> ListRes(<<Chunk(0, k)>>, ListParts - k)]

QueuePart ==
    /\ ~gone /\ parts # <<>> /\ Len(outq) < plan.queue
    /\ outq' = Append(outq, Head(parts)) /\ parts' = Tail(parts)
    /\ UNCHANGED <<master, transfer, sm0, sm1, lastOut, taken, again, repAck, repReq,
                   environment, ghosts, rxpdo>>

ServeInfo ==
    /\ sm0.cmd \in {"OD_REQ", "OE_REQ"}
    /\ IF sm0.cmd = "OD_REQ" THEN Take(<<[cmd |-> "OD_RES", item |-> sm0.item]>>)
       ELSE Take(<<[cmd |-> "OE_RES", item |-> sm0.item, sub |-> sm0.sub]>>)
    /\ UNCHANGED infoVars

RefuseInfo ==
    /\ sm0.cmd \in {"TXPDO_RR", "ODLIST_REQ", "OD_REQ", "OE_REQ"}
    /\ Take(<<InfoError>>) /\ UNCHANGED infoVars

InfoServer == ServePdo \/ ServeList \/ QueuePart \/ ServeInfo \/ RefuseInfo

-----------------------------------------------------------------------------
\* Of a clean mailbox, a list is the beginning of the slave's, in order, as
\* long as no repeat was asked for: parts are not numbered in a way the code
\* looks at.  The loop reads MaxParts + 1 of them at most.
ListIsWhole ==
    Done({"readODlist"}) /\ ~dirty /\ job.clean /\ repeats = "none"
        => LET read == IF ListParts <= MaxParts THEN ListParts ELSE MaxParts + 1
           IN  job.list = DataOf(0, IF read < MaxList THEN read ELSE MaxList)

\* What is stored for an object or an entry describes that one, although the
\* answer is not compared: each request finds a mailbox without an answer to
\* an earlier one, or the entry is not to be trusted.
EntriesFit ==
    /\ Done({"readODdescription"}) /\ ~dirty => job.of = job.item
    /\ job.kind = "readOE" /\ job.clean
         => \A k \in DOMAIN job.list : job.list[k] \in {<<job.item, k - 1>>, <<>>}

\* A PDO over the mailbox: what fits a mailbox is in the slave.
PdoArrives ==
    Done({"RxPDO"}) /\ ~dirty /\ sm0 = NoMsg /\ ~gone
        => rxpdo = SubSeq(job.data, 1, Len(rxpdo)) /\ (Len(rxpdo) = 1 \/ job.data = <<>>)

\* The dictionary the master has is the slave's.
DictionaryFits == ListIsWhole /\ EntriesFit /\ PdoArrives
=============================================================================
