------------------------------- MODULE SlaveInfo ------------------------------
(***************************************************************************)
(* What the tool slaveinfo (test/win32/slaveinfo/slaveinfo.c, option -map) *)
(* lists of a slave: where in its part of the process image each object is *)
(* and how many bits it has.  The tool reads the objects and the SII       *)
(* itself, with code of its own beside that of PdoMap and Sii.             *)
(*                                                                         *)
(* A listing is a sequence of entries [at, bits], at counted in bits from  *)
(* where the slave's outputs or inputs begin (mapoffset and the first bit  *)
(* of a bit oriented slave left out).                                      *)
(***************************************************************************)
EXTENDS PdoMap

TotalBits(list) == MapThenSumSet(LAMBDA k : list[k].bits, DOMAIN list)

\* The entries behind those of list.
Listed(list, lengths) ==
    FoldLeft(LAMBDA acc, bits : Append(acc, [at |-> TotalBits(acc), bits |-> bits]),
             list, lengths)

-----------------------------------------------------------------------------
(* By CoE.                                                                 *)

\* list with what the PDOs assigned to sync manager sm map behind it.
si_PDOassign(d, lost, sm, list) ==
    LET PdosOf == [k \in 1 .. Sdo(lost, <<"assign", sm, 0>>, Len(d.assign[sm])) |->
                      Sdo(lost, <<"assign", sm, k>>, d.assign[sm][k])]
        Lengths(idx) == [j \in 1 .. Sdo(lost, <<"pdo", idx, 0>>, Len(d.pdos[idx])) |->
                            Sdo(lost, <<"pdo", idx, j>>, d.pdos[idx][j])]
    IN  FoldLeft(LAMBDA acc, idx : IF idx > 0 THEN Listed(acc, Lengths(idx)) ELSE acc,
                 list, PdosOf)

\* Unlike readPDOmap it counts from the number of types less one, and takes
\* no sync manager without a type for outputs or inputs.
si_map_sdo(d, lost) ==
    LET nSM == IF Len(d.types) - 1 > EC_MAXSM THEN EC_MAXSM ELSE Len(d.types) - 1
        nothing == [O |-> <<>>, I |-> <<>>, add |-> 0]
    IN  IF <<"types", 0>> \in lost \/ Len(d.types) <= 2 THEN nothing
        ELSE FoldLeft(LAMBDA acc, iSM :
                IF <<"types", iSM + 1>> \in lost THEN acc
                ELSE LET add == BugAdd(acc, iSM, d.types[iSM + 1])
                         tSM == Shifted(d.types[iSM + 1], add)
                     IN  [O |-> IF tSM = 3 THEN si_PDOassign(d, lost, iSM, acc.O) ELSE acc.O,
                          I |-> IF tSM = 4 THEN si_PDOassign(d, lost, iSM, acc.I) ELSE acc.I,
                          add |-> add],
                nothing, [k \in 1 .. nSM - 1 |-> k + 1])

-----------------------------------------------------------------------------
(* By the SII.                                                             *)

\* The entries at a, e of them.
EntriesAt(r, a, e, list) ==
    FoldLeft(LAMBDA acc, k :
                 LET r1 == FetchAll(acc.r, a + 8 * (k - 1), 6)
                 IN  [r |-> r1, list |-> Listed(acc.list, <<Byte(r1, a + 8 * (k - 1) + 5)>>)],
             [r |-> r, list |-> list], [k \in 1 .. e |-> k])

\* The PDOs from a on, n already seen, those without a sync manager left out.
RECURSIVE ListPdos(_, _, _, _, _, _)
ListPdos(r, a, c, length, n, list) ==
    LET r1 == FetchAll(FetchAll(r, a, 4), a + 5, 1)
        e == Byte(r1, a + 2)
        x == IF Byte(r1, a + 3) < EC_MAXSM THEN EntriesAt(r1, a + 8, e, list)
                                           ELSE [r |-> r1, list |-> list]
        next == c + 4 * (e + 1)
    IN  IF n >= EC_MAXEEPDO - 1 \/ next >= length THEN x
        ELSE ListPdos(x.r, a + 8 * (e + 1), next, length, n + 1, x.list)

ListIn(f) ==
    IF f.at = 0 THEN [r |-> f.r, list |-> <<>>]
    ELSE LET r1 == FetchAll(f.r, f.at, 2)
         IN  ListPdos(r1, f.at + 2, 1, Word(r1, f.at), 1, <<>>)

si_siiPDO(r, t) == [ListIn(siifind(r, ECT_SII_PDO + t)) EXCEPT !.r = Restored(@, r)]

si_map_sii(r) ==
    LET out == si_siiPDO(r, 1)
    IN  [O |-> out.list, I |-> si_siiPDO(out.r, 0).list]
=============================================================================
