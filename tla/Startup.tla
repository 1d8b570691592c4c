-------------------------------- MODULE Startup -------------------------------
(***************************************************************************)
(* From the cable to a list of slaves: ecx_config_init and                 *)
(* ecx_config_find_mappings (soem/ethercatconfig.c), as SoemMaster calls   *)
(* them when it scans and when it starts.                                  *)
(*                                                                         *)
(* One action is one loop over the slaves, or one turn of the long ones.   *)
(* The EEPROM is asked for the next item while the last one is collected:  *)
(* a request that is lost leaves the device with its last answer.  Beside  *)
(* that, reads of the EEPROM in the long loop (a word each) and of mapping *)
(* objects may fail.                                                       *)
(*                                                                         *)
(* The devices are external: what they are (Types) and how they are wired. *)
(***************************************************************************)
EXTENDS SlaveInfo, FiniteSets

CONSTANTS
    Types,              \* kinds of devices, by name
    Networks,           \* what may be on the cable: sequences of
                        \* [type, up, port, in, cable, clock, hasdc]
    Rewirings,          \* networks that a rescan may find in place of each other
    ConfigList,         \* ec_configlist, the table of known slaves: a sequence of
                        \* [man, id, name, Ibits, Obits, SM2, SM3]
    TableNetworks,      \* the networks that are configured with the table
    EC_MAXSLAVE,
    FaultyNetworks,     \* bound: the networks in which something may fail
    MaxFaults,          \* bound: reads and requests that fail
    MaxScans            \* bound: scans, each of another network

VARIABLES
    net,                \* the devices on the cable
    dev,                \* their registers
    phase, slave,       \* where config_init and config_map are
    slavelist, slavecount,
    master,             \* slavelist[0]
    cache,              \* esibuf, esimap, esislave
    faults, scans,
    lossy,              \* slaves for which something failed
    source              \* the slaves each one's data comes from

initVars == <<net, dev, phase, slave, slavelist, slavecount, master, cache,
              faults, scans, lossy, source>>

\* Node addresses and the items that the EEPROM is asked for one by one.
Node(s) == 4096 + s     \* EC_NODEOFFSET
LoWord(w) == w % 65536
HiWord(w) == w \div 65536
HasCoE(s) == "CoE" \in slavelist[s].mbx_proto
HasSoE(s) == "SoE" \in slavelist[s].mbx_proto
EC_COEDET_SDOCA(details) == (details \div 32) % 2 = 1

SMs == 0 .. EC_MAXSM - 1
NoSM == [start |-> 0, len |-> 0, on |-> FALSE]

\* A slave after ecx_init_context.
NoSlave ==
    [configadr |-> 0, eep8 |-> FALSE, man |-> 0, id |-> 0, rev |-> 0,
     mbx_wo |-> 0, mbx_l |-> 0, mbx_ro |-> 0, mbx_rl |-> 0, mbx_proto |-> {},
     hasdc |-> FALSE, activeports |-> {}, topology |-> 0, parent |-> 0,
     CoEdetails |-> 0, FoEdetails |-> 0, EoEdetails |-> 0, SoEdetails |-> 0,
     blockLRW |-> FALSE, Ebuscurrent |-> 0, name |-> <<>>,
     configindex |-> 0, FMMUfunc |-> <<0, 0, 0, 0>>, SM |-> [k \in SMs |-> NoSM],
     SMtype |-> [k \in SMs |-> 0], eep_pdi |-> FALSE,
     Obits |-> 0, Ibits |-> 0, Obytes |-> 0, Ibytes |-> 0]

NoMaster == [blockLRW |-> 0, Ebuscurrent |-> 0]

\* A device that is switched on, or was used before.
PowerOn == [addr |-> 0, item |-> "MANUF", pdi |-> TRUE, al |-> "INIT",
            SM |-> [k \in SMs |-> NoSM]]

Device(s) == Types[net[s].type]
Found == 1 .. slavecount
Turn(p) == phase = p /\ slave \in Found

\* At most one of what could fail does, within the bounds.
Failing(possible) ==
    {{}} \cup (IF faults < MaxFaults /\ net \in FaultyNetworks THEN {{x} : x \in possible} ELSE {})
Note(failed, s) == /\ faults' = faults + Cardinality(failed)
                   /\ lossy' = IF failed = {} THEN lossy ELSE lossy \cup {s}
NextTurn(p) == IF slave < slavecount THEN slave' = slave + 1 /\ phase' = phase
                                     ELSE slave' = 1 /\ phase' = p

StartupInit ==
    /\ net \in Networks
    /\ dev = [s \in DOMAIN net |-> PowerOn]
    /\ phase = "begin" /\ slave = 1
    /\ slavelist = <<>> /\ slavecount = 0 /\ master = NoMaster
    /\ cache = [esislave |-> 0, esibuf |-> NoBytes]
    /\ faults = 0 /\ scans = 1 /\ lossy = {} /\ source = <<>>

-----------------------------------------------------------------------------
(* ecx_config_init: find the slaves and give them their addresses.         *)

\* ecx_init_context: the cache is dropped by the way of a read for slave 0.
InitContext ==
    /\ master' = NoMaster
    /\ cache' = IF cache.esislave = 0 THEN cache ELSE [esislave |-> 0, esibuf |-> NoBytes]

\* ecx_set_slaves_to_default: a broadcast to all.
DefaultDevice(v) == [v EXCEPT !.SM = [k \in SMs |-> NoSM], !.pdi = FALSE, !.al = "INIT"]

\* ecx_detect_slaves: as many as answer the broadcast, if that is fewer
\* than EC_MAXSLAVE.
Detect ==
    /\ phase = "begin"
    /\ InitContext
    /\ IF Len(net) < EC_MAXSLAVE
       THEN /\ slavecount' = Len(net)
            /\ slavelist' = [s \in DOMAIN net |-> NoSlave]
            /\ source' = [s \in DOMAIN net |-> {s}]
            /\ dev' = [s \in DOMAIN net |-> DefaultDevice(dev[s])]
            /\ phase' = "address"
       ELSE /\ slavecount' = 0 /\ slavelist' = <<>> /\ source' = <<>>
            /\ dev' = [s \in DOMAIN net |-> [dev[s] EXCEPT !.al = "INIT"]]
            /\ phase' = "exceeded"
    /\ slave' = 1
    /\ lossy' = {}
    /\ UNCHANGED <<net, faults, scans>>

\* ecx_readeeprom1 for all slaves but those that miss it.
Request(item, whom, missed) ==
    dev' = [s \in Found |-> IF s \in whom \ missed THEN [dev[s] EXCEPT !.item = item]
                                                  ELSE dev[s]]
Collected(s) == Device(s).head[dev[s].item]     \* ecx_readeeprom2

\* Addresses by position, the width of EEPROM reads, and the first request.
Address ==
    /\ phase = "address"
    /\ slavelist' = [s \in Found |-> [slavelist[s] EXCEPT !.configadr = Node(s),
                                                          !.eep8 = Device(s).eep8]]
    /\ dev' = [s \in Found |-> [dev[s] EXCEPT !.addr = Node(s), !.item = "MANUF"]]
    /\ phase' = "MANUF"
    /\ UNCHANGED <<net, slave, slavecount, master, cache, faults, scans, lossy, source>>

\* One loop: the answer of the last request is collected, the next one made.
CollectThen(item, next, whom, list) ==
    /\ phase = item
    /\ \E missed \in Failing(Found) :
         /\ slavelist' = list
         /\ Request(next, whom, missed)
         /\ faults' = faults + Cardinality(missed) /\ lossy' = lossy \cup missed
    /\ phase' = next
    /\ UNCHANGED <<net, slave, slavecount, master, cache, scans, source>>

CollectManuf == CollectThen("MANUF", "ID", Found,
    [s \in Found |-> [slavelist[s] EXCEPT !.man = Collected(s)]])
CollectId == CollectThen("ID", "REV", Found,
    [s \in Found |-> [slavelist[s] EXCEPT !.id = Collected(s)]])
CollectRev == CollectThen("REV", "RXMBX", Found,
    [s \in Found |-> [slavelist[s] EXCEPT !.rev = Collected(s)]])

\* The second mailbox is asked for only where there is a first.
CollectRxMbx ==
    CollectThen("RXMBX", "TXMBX", {s \in Found : HiWord(Collected(s)) > 0},
        [s \in Found |-> [slavelist[s] EXCEPT !.mbx_wo = LoWord(Collected(s)),
                                              !.mbx_l = HiWord(Collected(s))]])

-----------------------------------------------------------------------------
(* ecx_config_init: the long loop.                                         *)

\* The ports with a link, and how many they are.
ActivePorts(s) == {net[s].in} \cup {net[c].port : c \in {c \in DOMAIN net : net[c].up = s}}

\* topoc after the slaves from slavec on to s - 1 have been looked at.
Topoc(s, slavec) ==
    MapThenSumSet(LAMBDA c : CASE slavelist[c].topology = 1 -> -1
                               [] slavelist[c].topology = 3 -> 1
                               [] slavelist[c].topology = 4 -> 2
                               [] OTHER -> 0,
                  slavec .. s - 1)

\* "search for parent": back to the first slave with an open branch.
Parent(s) ==
    IF s = 1 THEN 0
    ELSE Max({1} \cup {c \in 1 .. s - 1 : Topoc(s, c) >= 0 /\ slavelist[c].topology > 1})

SameId(a, b) == a.man = b.man /\ a.id = b.id /\ a.rev = b.rev
\* The first slave before s with the same ids, 0 if there is none.
Twin(s) == LET same == {c \in 1 .. s - 1 : SameId(slavelist[c], slavelist[s])}
           IN  IF same = {} THEN 0 ELSE Min(same)

\* The second mailbox, its length that of the first if it gives none.
TxMailbox(l, w) ==
    IF l.mbx_l = 0 THEN l
    ELSE [l EXCEPT !.mbx_ro = LoWord(w), !.mbx_rl = IF HiWord(w) = 0 THEN l.mbx_l ELSE HiWord(w)]

DefaultMailbox(l, proto) ==
    IF l.mbx_l = 0 THEN l
    ELSE [l EXCEPT !.SMtype = [k \in SMs |-> IF k < 4 THEN k + 1 ELSE 0],
                   !.SM = [@ EXCEPT ![0] = [start |-> l.mbx_wo, len |-> l.mbx_l, on |-> TRUE],
                                    ![1] = [start |-> l.mbx_ro, len |-> l.mbx_rl, on |-> TRUE]],
                   !.mbx_proto = proto]

\* ecx_lookup_prev_sii.
CopySii(l, t) ==
    [l EXCEPT !.CoEdetails = t.CoEdetails, !.FoEdetails = t.FoEdetails,
              !.EoEdetails = t.EoEdetails, !.SoEdetails = t.SoEdetails,
              !.blockLRW = t.blockLRW, !.Ebuscurrent = t.Ebuscurrent, !.name = t.name,
              !.SM = t.SM, !.FMMUfunc = t.FMMUfunc]

\* The place of a slave in the table, 0 if it is not there.
findconfig(l) ==
    LET known == {i \in DOMAIN ConfigList : ConfigList[i].man = l.man /\ ConfigList[i].id = l.id}
    IN  IF known = {} THEN 0 ELSE Min(known)

\* A sync manager as long as the bits that the table gives; one without an
\* address there is a simple slave's, which has its outputs at SM 0 (enabled)
\* and its inputs at SM 1 (not enabled).
TableSM(l, sm, simple, bits, type) ==
    IF bits > 0 /\ sm.start = 0
    THEN [l EXCEPT !.SM = [@ EXCEPT ![simple.sm] = [start |-> simple.start, len |-> Bytes(bits),
                                                   on |-> simple.on],
                                    ![type - 1] = sm],
                   !.SMtype[simple.sm] = type]
    ELSE [l EXCEPT !.SM[type - 1] = [sm EXCEPT !.len = Bytes(bits)], !.SMtype[type - 1] = type]

\* ecx_config_from_table: outputs at SM 2, inputs at SM 3.
FromTable(l, i) ==
    LET e == ConfigList[i]
        l1 == [l EXCEPT !.configindex = i, !.name = e.name,
                        !.Ibits = e.Ibits, !.Obits = e.Obits,
                        !.FMMUfunc = [@ EXCEPT ![1] = IF e.Obits > 0 THEN 1 ELSE @,
                                               ![2] = IF e.Ibits > 0 THEN 2 ELSE @]]
        l2 == TableSM(l1, e.SM2, [sm |-> 0, start |-> 3840, on |-> TRUE], e.Obits, 3)
    IN  TableSM(l2, e.SM3, [sm |-> 1, start |-> 4096, on |-> FALSE], e.Ibits, 4)

Constructed(l) == <<"?", l.man, l.id>>          \* "? M:%8.8x I:%8.8x"

\* The SII of a slave l, category by category; r is carried along.
WithGeneral(l, g) ==
    [r |-> g.r,
     l |-> IF ~g.found THEN l
           ELSE [l EXCEPT !.CoEdetails = g.CoEdetails, !.FoEdetails = g.FoEdetails,
                          !.EoEdetails = g.EoEdetails, !.SoEdetails = g.SoEdetails,
                          !.blockLRW = g.blockLRW, !.Ebuscurrent = g.Ebuscurrent]]
WithName(l, n, named) ==
    [r |-> n.r, l |-> [l EXCEPT !.name = IF named THEN n.str ELSE Constructed(l)]]
WithSiiSMs(l, sm) ==
    [r |-> sm.r,
     l |-> [l EXCEPT !.SM = [k \in SMs |-> IF k < Len(sm.sms) THEN sm.sms[k + 1] ELSE @[k]]]]
WithFmmus(l, f) ==
    [r |-> f.r,
     l |-> [l EXCEPT !.FMMUfunc = [k \in 1 .. 4 |-> IF f.n > 0 /\ f.fmmu[k] # 255
                                                    THEN f.fmmu[k] ELSE @[k]]]]

ReadGeneral(x) == WithGeneral(x.l, General(x.r))
ReadName(x) == WithName(x.l, siistring(x.r, 1), siifind(x.r, ECT_SII_STRING).at > 0)
ReadSMs(x) == WithSiiSMs(x.l, siiSM(x.r))
ReadFmmus(x) == WithFmmus(x.l, siiFMMU(x.r))

FromSii(x) == ReadFmmus(ReadSMs(ReadName(ReadGeneral(x))))

\* "should never happen": a mailbox without an address.
ProperMailbox(l) ==
    [l EXCEPT !.SM = [k \in SMs |->
                 IF k < 2 /\ l.mbx_l > 0 /\ @[k].start = 0
                 THEN [start |-> IF k = 0 THEN 4096 ELSE 4224, len |-> 128, on |-> TRUE]
                 ELSE @[k]],
              !.SMtype = [k \in SMs |-> IF k < 2 /\ l.mbx_l > 0 /\ l.SM[k].start = 0
                                        THEN k + 1 ELSE @[k]]]

\* The words of the EEPROM at which the code may begin a read.
RomWords(s) == {w \in 64 .. 64 + Len(EepromOf(Device(s))) \div 2 : w % (IF Device(s).eep8 THEN 4 ELSE 2) = 0}

\* ecx_eeprom2pdi, the mailboxes, and the request for PRE_OP.
Handover(l, s) ==
    dev' = [dev EXCEPT ![s].pdi = TRUE, ![s].al = "PRE_OP",
                       ![s].item = IF l.mbx_l > 0 THEN "MBXPROTO" ELSE @,
                       ![s].SM = IF l.mbx_l > 0
                                 THEN [@ EXCEPT ![0] = l.SM[0], ![1] = l.SM[1]] ELSE @]

\* The rest of the turn; the data of slave t were copied.
Configured(l, r, t) ==
    /\ slavelist' = [slavelist EXCEPT ![slave] = [l EXCEPT !.eep_pdi = TRUE]]
    /\ cache' = r.cache
    /\ master' = [blockLRW |-> master.blockLRW + (IF l.blockLRW THEN 1 ELSE 0),
                  Ebuscurrent |-> master.Ebuscurrent + l.Ebuscurrent]
    /\ Handover(l, slave)
    /\ source' = [source EXCEPT ![slave] = IF t > 0 THEN @ \cup source[t] ELSE @]

\* x: the slave and its reader.
ConfiguredFrom(x, t) == Configured(ProperMailbox(x.l), x.r, t)

\* From the table, from a slave with the same ids, or from the SII.
ConfigureAs(l, i, t) ==
    \E fail \in (IF t = 0 /\ i = 0 THEN Failing(RomWords(slave)) ELSE {{}}) :
       LET x == [l |-> l, r |-> Reader(slave, Device(slave), fail, cache, l.eep_pdi)]
       IN  /\ ConfiguredFrom(IF i > 0 THEN [x EXCEPT !.l = FromTable(l, i)]
                             ELSE IF t > 0 THEN [x EXCEPT !.l = CopySii(l, slavelist[t])]
                             ELSE FromSii(x), t)
           /\ Note(fail, slave)

Known(l) == IF net \in TableNetworks THEN findconfig(l) ELSE 0

Configure ==
    /\ Turn("TXMBX")
    /\ \E l \in {DefaultMailbox([TxMailbox(slavelist[slave], Collected(slave)) EXCEPT
                                  !.hasdc = net[slave].hasdc,
                                  !.activeports = ActivePorts(slave),
                                  !.topology = Cardinality(ActivePorts(slave)),
                                  !.parent = Parent(slave)], Device(slave).proto)} :
          ConfigureAs(l, Known(l), IF Known(l) > 0 THEN 0 ELSE Twin(slave))
    /\ NextTurn("map")
    /\ UNCHANGED <<net, slavecount, scans>>

-----------------------------------------------------------------------------
(* ecx_config_find_mappings.                                               *)

\* The reads that a mapping is made of.
SdoKeys(s) ==
    LET d == Device(s)
        one == {<<"types", k>> : k \in 0 .. Len(d.types)}
                 \cup {<<"assign", sm, k>> : sm \in 2 .. Len(d.types) - 1, k \in 0 .. 1}
                 \cup {<<"pdo", p, k>> : p \in DOMAIN d.pdos, k \in 0 .. 1}
        whole == {<<"types">>} \cup {<<"assign", sm>> : sm \in 2 .. Len(d.types) - 1}
                   \cup {<<"pdo", p>> : p \in DOMAIN d.pdos}
        idns == {<<way, k>> : way \in {"MDT", "AT"}, k \in DOMAIN d.drives}
                  \cup {<<"attribute", k, way, 1>> : way \in {"MDT", "AT"}, k \in DOMAIN d.drives}
    IN  (IF HasCoE(s) THEN one \cup whole ELSE {}) \cup (IF HasSoE(s) THEN idns ELSE {})

\* With complete access if the slave has it, without if that finds nothing.
CoeMapping(l, d, lost) ==
    LET ca == readPDOmapCA(d, lost, l)
    IN  IF "CoE" \notin l.mbx_proto THEN Fresh(l)
        ELSE IF EC_COEDET_SDOCA(l.CoEdetails)
        THEN IF MapsNothing(ca) THEN readPDOmap(d, lost, ca) ELSE ca
        ELSE readPDOmap(d, lost, l)

\* ecx_map_coe_soe: not of a slave that the table knows.
MapCoeSoe ==
    /\ Turn("map")
    /\ \E lost \in Failing(IF slavelist[slave].configindex > 0 THEN {} ELSE SdoKeys(slave)) :
         LET l == slavelist[slave]
             d == Device(slave)
             m == CoeMapping(l, d, lost)
             soe == MapsNothing(m) /\ HasSoE(slave)
             idn == readIDNmap(d, lost)
         IN  /\ slavelist' = IF l.configindex > 0 THEN slavelist ELSE
                  [slavelist EXCEPT ![slave] = [@ EXCEPT
                    !.SMtype = m.SMtype,
                    !.SM = IF soe THEN [m.SM EXCEPT ![2].len = Bytes(idn.Osize),
                                                    ![3].len = Bytes(idn.Isize)]
                           ELSE m.SM,
                    !.Obits = IF soe THEN idn.Osize ELSE m.Osize,
                    !.Ibits = IF soe THEN idn.Isize ELSE m.Isize]]
             /\ Note(lost, slave)
    /\ NextTurn("mapsii")
    /\ UNCHANGED <<net, dev, slavecount, master, cache, scans, source>>

\* ecx_lookup_mapping.
CopyMapping(l, t) ==
    [l EXCEPT !.SM = [k \in SMs |-> [@[k] EXCEPT !.len = t.SM[k].len]],
              !.SMtype = t.SMtype, !.Obits = t.Obits, !.Ibits = t.Ibits]

\* The lengths and type of the sync managers that the PDOs of one way use.
SizedSMs(l, sizes, type) ==
    [l EXCEPT !.SM = [k \in SMs |-> IF sizes[k] > 0 THEN [@[k] EXCEPT !.len = Bytes(sizes[k])]
                                                    ELSE @[k]],
              !.SMtype = [k \in SMs |-> IF sizes[k] > 0 THEN type ELSE @[k]]]

SizeOf(sizes) == MapThenSumSet(LAMBDA sm : sizes[sm], DOMAIN sizes)
WithTx(l, tx) ==
    [r |-> tx.r, l |-> [SizedSMs(l, tx.SMbitsize, 4) EXCEPT !.Ibits = SizeOf(tx.SMbitsize)]]
WithRx(l, rx) ==
    [r |-> rx.r, l |-> [SizedSMs(l, rx.SMbitsize, 3) EXCEPT !.Obits = SizeOf(rx.SMbitsize)]]

ReadTx(x) == WithTx(x.l, siiPDO(x.r, 0))
ReadRx(x) == WithRx(x.l, siiPDO(x.r, 1))
FromSiiPdos(x) == ReadRx(ReadTx(x))

Unmapped(l) == l.Obits = 0 /\ l.Ibits = 0

\* Mutant: a sync manager keeps the enable flag of the SII.
EnabledSM_AsSii(sm) == sm

\* A sync manager with an address is enabled if it has a length.
EnabledSM(sm) == IF sm.start > 0 THEN [sm EXCEPT !.on = sm.len > 0] ELSE sm

\* ecx_map_sm: the mailboxes' sync managers are left alone.
WithSMs(l) == [l EXCEPT !.SM = [k \in SMs |-> IF k < 2 THEN @[k] ELSE EnabledSM(@[k])],
                        !.Obytes = IF l.Obits > 7 THEN Bytes(l.Obits) ELSE @,
                        !.Ibytes = IF l.Ibits > 7 THEN Bytes(l.Ibits) ELSE @]
Programmed(l, v) == [k \in SMs |-> IF l.SM[k].start > 0 /\ (k >= 2 \/ l.mbx_l = 0)
                                   THEN l.SM[k] ELSE v.SM[k]]

MappedAs(l, r, t) ==
    /\ slavelist' = [slavelist EXCEPT ![slave] = [l EXCEPT !.eep_pdi = r.pdi]]
    /\ dev' = [dev EXCEPT ![slave].SM = Programmed(l, dev[slave]), ![slave].pdi = r.pdi]
    /\ cache' = r.cache
    /\ source' = [source EXCEPT ![slave] = IF t > 0 THEN @ \cup source[t] ELSE @]
MappedFrom(x, t) == MappedAs(WithSMs(x.l), x.r, t)

\* By the SII if l has no mapping yet.
MapAs(l, t) ==
    \E fail \in (IF Unmapped(l) THEN Failing(RomWords(slave)) ELSE {{}}) :
       LET x == [l |-> l, r |-> Reader(slave, Device(slave), fail, cache, l.eep_pdi)]
       IN  MappedFrom(IF Unmapped(l) THEN FromSiiPdos(x) ELSE x, t) /\ Note(fail, slave)

\* ecx_map_sii: a slave without a mapping takes that of a twin, or else the
\* one in its SII; then ecx_map_sm.
MapSii ==
    /\ Turn("mapsii")
    /\ LET l == slavelist[slave]
           t == IF Unmapped(l) THEN Twin(slave) ELSE 0
       IN  MapAs(IF t > 0 THEN CopyMapping(l, slavelist[t]) ELSE l, t)
    /\ NextTurn("mapped")
    /\ UNCHANGED <<net, slavecount, master, scans>>

StartupNext == \/ Detect \/ Address
               \/ CollectManuf \/ CollectId \/ CollectRev \/ CollectRxMbx
               \/ Configure \/ MapCoeSoe \/ MapSii
=============================================================================
