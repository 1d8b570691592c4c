-------------------------------- MODULE Config --------------------------------
(***************************************************************************)
(* A network is scanned, mapped and synchronised, then scanned again with  *)
(* other devices on the cable: Startup.tla and Clocks.tla in a row, as     *)
(* scanSlaves and startOp of SoemMaster.cpp call them.                     *)
(***************************************************************************)
EXTENDS Clocks

vars == <<initVars, dcVars>>

Init == StartupInit /\ ClocksInit

\* Somebody rewires the network before the next scan.  A device keeps its
\* registers only if it stays where it is.
Rescan ==
    /\ phase \in {"done", "exceeded"} /\ scans < MaxScans /\ net \in Rewirings
    /\ net' \in Rewirings
    /\ dev' = [s \in DOMAIN net' |-> IF s \in DOMAIN net /\ net'[s] = net[s] THEN dev[s]
                                     ELSE PowerOn]
    /\ phase' = "begin" /\ scans' = scans + 1
    /\ dc' = <<>> /\ refclock' = 0 /\ prevDCslave' = 0 /\ parenthold' = 0 /\ dcreg' = <<>>
    /\ UNCHANGED <<slave, slavelist, slavecount, master, cache, faults, lossy, source>>

Next == \/ StartupNext /\ UNCHANGED dcVars
        \/ ClocksNext
        \/ Rescan

Spec == Init /\ [][Next]_vars

-----------------------------------------------------------------------------
(* Properties.                                                             *)

\* Nothing that slave s was configured from failed.
Clean(s) == source[s] \cap lossy = {}

\* What the EEPROM of a device says of it.
Said(seq, k, none) == IF k \in DOMAIN seq THEN seq[k] ELSE none
Short(name) == SubSeq(name, 1, Min({Len(name), EC_MAXNAME}))
NoGeneral == [coe |-> 0, foe |-> 0, eoe |-> 0, soe |-> 0, blockLRW |-> FALSE, ebus |-> 0]
IsAsInSii(l, d) ==
    LET g == Said(d.general, 1, NoGeneral)
    IN  /\ l.CoEdetails = g.coe /\ l.FoEdetails = g.foe
        /\ l.EoEdetails = g.eoe /\ l.SoEdetails = g.soe
        /\ l.blockLRW = g.blockLRW /\ l.Ebuscurrent = g.ebus
        /\ d.names # <<>> => l.name = Short(d.names[1])
        /\ \A k \in SMs : k + 1 \in DOMAIN d.sms => l.SM[k] = d.sms[k + 1]
        /\ \A k \in 1 .. 4 : l.FMMUfunc[k] = LET f == Said(d.fmmus, k, 255)
                                             IN  IF f = 255 THEN 0 ELSE f

\* What the table says of a slave, where it knows it.
IsAsInTable(l) == l.name = ConfigList[l.configindex].name

\* After a scan every slave is what its own EEPROM, or the table, says, read through one
\* cache for all of them, copied from a slave with the same ids or not,
\* whatever was on the cable before and whatever reads of other slaves
\* failed; the master's sums are those of its slaves; and before a slave is
\* mapped its PDI has the EEPROM.
SiiIsOwn ==
    phase = "map" =>
        /\ slave = 1 => \A s \in Found : Clean(s) =>
             IF slavelist[s].configindex > 0 THEN IsAsInTable(slavelist[s])
             ELSE IsAsInSii(slavelist[s], Device(s))
        /\ master.blockLRW = Cardinality({s \in Found : slavelist[s].blockLRW})
        /\ master.Ebuscurrent = MapThenSumSet(LAMBDA s : slavelist[s].Ebuscurrent, Found)
        /\ \A s \in Found : dev[s].pdi

\* What the process data of a device is, by its objects or its SII: the bits
\* of each sync manager.  d.means says which way a sync manager goes.
SiiPdoBits(pdos, sm) ==
    MapThenSumSet(LAMBDA p : IF pdos[p].sm = sm
                             THEN MapThenSumSet(LAMBDA k : pdos[p].entries[k], DOMAIN pdos[p].entries)
                             ELSE 0, DOMAIN pdos)
DriveBits(idns) == MapThenSumSet(LAMBDA k : IF idns[k].list THEN 0 ELSE 8 * 2 ^ idns[k].length,
                                 DOMAIN idns)
BitsOf(d, sm) ==
    IF "CoE" \in d.proto
    THEN MapThenSumSet(LAMBDA k : MapThenSumSet(LAMBDA j : d.pdos[d.assign[sm][k]][j],
                                                DOMAIN d.pdos[d.assign[sm][k]]),
                       DOMAIN d.assign[sm])
    ELSE IF "SoE" \in d.proto
    THEN MapThenSumSet(LAMBDA k : 16 + DriveBits(d.drives[k][IF d.means[sm] = 3 THEN "MDT" ELSE "AT"]),
                       DOMAIN d.drives)
    ELSE SiiPdoBits(IF d.means[sm] = 3 THEN d.rxpdos ELSE d.txpdos, sm)
WayBits(d, way) == MapThenSumSet(LAMBDA sm : IF d.means[sm] = way THEN BitsOf(d, sm) ELSE 0,
                                 DOMAIN d.means)

\* What slaveinfo lists of slave s: each of its bits once, and no other.  (It
\* lists nothing of servo drives, and not the sync managers without a type.)
Listing(s) ==
    LET d == Device(s)
        l == slavelist[s]
        listing == IF "CoE" \in d.proto THEN si_map_sdo(d, {})
                   ELSE si_map_sii(Reader(s, d, {}, cache, l.eep_pdi))
        Lists(list, bits) ==
            /\ \A b \in 0 .. bits - 1 :
                  Cardinality({k \in DOMAIN list : b \in list[k].at .. list[k].at + list[k].bits - 1}) = 1
            /\ TotalBits(list) = bits
        typed == \A sm \in DOMAIN d.means : sm + 1 \in DOMAIN d.types => d.types[sm + 1] > 0
    IN  "SoE" \in d.proto \/ ~typed \/ (Lists(listing.O, l.Obits) /\ Lists(listing.I, l.Ibits))

\* A slave of the table is mapped with the bits given there; its outputs are at
\* SM 0 or 2, its inputs at SM 1 or 3.
MappedByTable(s) ==
    LET l == slavelist[s]
        e == ConfigList[l.configindex]
        Sized(bits, simple, type) ==
            bits > 0 => \E sm \in {simple, type - 1} :
                /\ l.SMtype[sm] = type /\ dev[s].SM[sm].len = Bytes(bits)
                /\ dev[s].SM[sm].on \/ sm = 1
    IN  /\ l.Obits = e.Obits /\ l.Ibits = e.Ibits
        /\ Sized(e.Obits, 0, 3) /\ Sized(e.Ibits, 1, 4)

\* A slave whose objects could all be read is mapped with exactly the bits
\* it has, each sync manager as long as its PDOs, of their direction, and
\* enabled in the device, whatever became of the slaves before it; and the
\* tool slaveinfo lists exactly these bits.
MappingIsOwn ==
    phase = "mapped" => \A s \in Found : Clean(s) =>
        IF slavelist[s].configindex > 0 /\ ~Unmapped(slavelist[s]) THEN MappedByTable(s) ELSE
        LET d == Device(s)
            l == slavelist[s]
        IN  /\ l.Obits = WayBits(d, 3) /\ l.Ibits = WayBits(d, 4)
            /\ \A sm \in DOMAIN d.means : BitsOf(d, sm) > 0 =>
                 /\ l.SMtype[sm] = d.means[sm]
                 /\ dev[s].SM[sm].len = Bytes(BitsOf(d, sm)) /\ dev[s].SM[sm].on
            /\ dev[s].pdi
            /\ Listing(s)

\* The search over the number of links finds the slave that each one hangs on.
ParentIsRight == phase = "map" => \A s \in Found : slavelist[s].parent = net[s].up

\* The slaves with a clock up to the reference clock.
RECURSIVE Chained(_)
Chained(s) == LET p == DcParent(s).parent IN s = refclock \/ (p > 0 /\ Chained(p))

\* A branch between slaves without a clock has nothing that could tell its
\* arms apart.
SplitsHaveClocks ==
    \A s \in Found : s > refclock /\ slavelist[s].topology > 2 => slavelist[s].hasdc

\* The delay worked out for a slave is the time a frame takes to it from the
\* reference clock, wherever it hangs and by whichever port it is entered,
\* as long as a slave with a clock is where the line branches.
DelaysAreTrue ==
    phase = "done" /\ SplitsHaveClocks => \A s \in Found :
        slavelist[s].hasdc /\ Chained(s) => dc[s].pdelay = Arrival(s) - Arrival(refclock)

\* SYNC signals with the same cycle and shift come at the same moments in all
\* slaves, whenever each was asked for, and the first never in the past.
SignalsInPhase ==
    \A s, u \in DOMAIN dcreg :
        dcreg[s].start > 0 /\ dcreg[u].start > 0 /\ Chained(s) /\ Chained(u) =>
            /\ dcreg[s].cycle = dcreg[u].cycle /\ dcreg[s].shift = dcreg[u].shift
                 /\ dcreg[s].cycle > 0
                    => (dcreg[s].start - dcreg[u].start) % dcreg[s].cycle = 0
            /\ dcreg[s].start >= SystemTime(s, dcreg[s].at) + SyncDelay + dcreg[s].shift

\* The tree of the slaves and the delays along it, from the numbers of links
\* and the latched times alone (ecx_config_init, ecx_configdc).
TreeIsRight == ParentIsRight /\ DelaysAreTrue
=============================================================================
