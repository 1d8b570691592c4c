--------------------------------- MODULE PdoMap -------------------------------
(***************************************************************************)
(* How many bits of process data a slave has: ecx_readPDOmap and           *)
(* ecx_readPDOmapCA with ecx_readPDOassign and ecx_readPDOassignCA         *)
(* (soem/ethercatcoe.c) for CoE, ecx_readIDNmap (soem/ethercatsoe.c) for   *)
(* SoE.  The SDO and IDN reads themselves are those of SDO.tla and SoE.tla: *)
(* here a read returns what the object holds or, when its key is in lost,  *)
(* nothing.                                                                *)
(*                                                                         *)
(* The objects of a device d: d.types, the sync manager types of 0x1C00,   *)
(* SM0 first; d.assign, the PDOs of each sync manager (0x1C10 on), by their *)
(* index; d.pdos, the bit lengths each PDO maps; d.drives, the IDNs each   *)
(* servo drive maps.                                                       *)
(***************************************************************************)
EXTENDS Sii

CONSTANTS
    EC_SOE_MAX_DRIVES, EC_SOE_MAXMAPPING

PdoMapAssumption == EC_SOE_MAX_DRIVES \in Nat /\ EC_SOE_MAXMAPPING \in Nat
ASSUME PdoMapAssumption

Bytes(bits) == (bits + 7) \div 8
SumOver(n, f(_)) == MapThenSumSet(f, 1 .. n)

-----------------------------------------------------------------------------
(* CoE.                                                                    *)

\* What SDO read key returns: the value, or the 0 that was there before.
Sdo(lost, key, value) == IF key \in lost THEN 0 ELSE value

PdoBits(d, lost, idx) ==
    SumOver(Sdo(lost, <<"pdo", idx, 0>>, Len(d.pdos[idx])),
            LAMBDA k : Sdo(lost, <<"pdo", idx, k>>, d.pdos[idx][k]))

\* The bits of the PDOs assigned to sync manager sm, object by object.  An
\* object that cannot be read counts for nothing.
readPDOassign(d, lost, sm) ==
    SumOver(Sdo(lost, <<"assign", sm, 0>>, Len(d.assign[sm])),
            LAMBDA k : LET idx == Sdo(lost, <<"assign", sm, k>>, d.assign[sm][k])
                       IN  IF idx > 0 THEN PdoBits(d, lost, idx) ELSE 0)

\* Complete access: one read per object.
readPDOassignCA(d, lost, sm) ==
    IF <<"assign", sm>> \in lost THEN 0
    ELSE SumOver(Len(d.assign[sm]),
            LAMBDA k : LET idx == d.assign[sm][k]
                       IN  IF idx = 0 \/ <<"pdo", idx>> \in lost THEN 0
                           ELSE SumOver(Len(d.pdos[idx]), LAMBDA j : d.pdos[idx][j]))

\* m: what is found so far: Osize, Isize and, for each sync manager, its
\* type, length and enable flag; add is SMt_bug_add.
\* SM iSM has type tSM, and a size for its PDOs when it holds process data.
MapSM(m, iSM, tSM, size) ==
    LET sized == tSM \in {3, 4} /\ size > 0
    IN  [m EXCEPT !.SMtype[iSM] = tSM,
                  !.SM[iSM] = [@ EXCEPT !.on = @ /\ tSM # 0,
                                        !.len = IF sized THEN Bytes(size) ELSE @],
                  !.Osize = IF tSM = 3 THEN @ + size ELSE @,
                  !.Isize = IF tSM = 4 THEN @ + size ELSE @]

\* A slave that gives SM2 type 2 counts its types from 0.
BugAdd(m, iSM, type) == IF iSM = 2 /\ type = 2 THEN 1 ELSE m.add
Shifted(type, add) == IF type > 0 THEN type + add ELSE 0
\* ... and one that gives SM2 and SM3 no type means outputs and inputs; only
\* the reading without complete access takes it so.
Defaulted(iSM, type) == IF type = 0 /\ iSM \in {2, 3} THEN iSM + 1 ELSE type

TypesRead(d) == IF Len(d.types) > EC_MAXSM THEN EC_MAXSM ELSE Len(d.types)
ProcessSMs(d) == [k \in 1 .. TypesRead(d) - 2 |-> k + 1]    \* 2 .. nSM - 1

Fresh(m) == [Osize |-> 0, Isize |-> 0, add |-> 0, SMtype |-> m.SMtype, SM |-> m.SM]

readPDOmap(d, lost, m) ==
    IF <<"types", 0>> \in lost \/ Len(d.types) <= 2 THEN Fresh(m)
    ELSE FoldLeft(LAMBDA acc, iSM :
            IF <<"types", iSM + 1>> \in lost THEN acc
            ELSE LET type == d.types[iSM + 1]
                     add == BugAdd(acc, iSM, type)
                     tSM == Defaulted(iSM, Shifted(type, add))
                     size == IF tSM \in {3, 4} THEN readPDOassign(d, lost, iSM) ELSE 0
                 IN  [MapSM(acc, iSM, tSM, size) EXCEPT !.add = add],
            Fresh(m), ProcessSMs(d))

readPDOmapCA(d, lost, m) ==
    IF <<"types">> \in lost \/ Len(d.types) <= 2 THEN Fresh(m)
    ELSE FoldLeft(LAMBDA acc, iSM :
            LET type == d.types[iSM + 1]
                add == BugAdd(acc, iSM, type)
                tSM == Shifted(type, add)
                size == IF tSM \in {3, 4} THEN readPDOassignCA(d, lost, iSM) ELSE 0
            IN  [MapSM(acc, iSM, tSM, size) EXCEPT !.add = add],
            Fresh(m), ProcessSMs(d))

MapsNothing(m) == m.Osize = 0 /\ m.Isize = 0

-----------------------------------------------------------------------------
(* SoE.                                                                    *)

\* The bits of the IDNs that drive k maps one way, behind the command or
\* status word; a list counts for nothing.
IdnBits(d, lost, k, way) ==
    LET idns == d.drives[k][way]
    IN  16 + SumOver(Len(idns), LAMBDA j :
                IF <<"attribute", k, way, j>> \in lost \/ idns[j].list THEN 0
                ELSE 8 * 2 ^ idns[j].length)

\* The drives that give a mapping.
Mapping(d, lost, way) ==
    {k \in DOMAIN d.drives : /\ k <= EC_SOE_MAX_DRIVES
                             /\ <<way, k>> \notin lost
                             /\ Len(d.drives[k][way]) \in 1 .. EC_SOE_MAXMAPPING}

\* "*Osize = 16": each drive begins anew, so that the last one's bits stay.
LastDrive(d, lost, way) == LET ks == Mapping(d, lost, way)
                           IN  IF ks = {} THEN 0 ELSE IdnBits(d, lost, Max(ks), way)

readIDNmap(d, lost) == [Osize |-> LastDrive(d, lost, "MDT"), Isize |-> LastDrive(d, lost, "AT")]
=============================================================================
