-------------------------------- MODULE Clocks -------------------------------
(***************************************************************************)
(* Distributed clocks (soem/ethercatdc.c): ecx_configdc latches the times  *)
(* at which one frame passes the ports of every slave, and works out from  *)
(* them how long a frame takes from the reference clock to each slave;     *)
(* ecx_dcsync0 and ecx_dcsync01 choose the first SYNC signal.              *)
(*                                                                         *)
(* The network is external: a frame visits the ports of a slave in the     *)
(* order 0 - 3 - 1 - 2, cables take the same time both ways, slaves none.   *)
(***************************************************************************)
EXTENDS Startup

CONSTANTS
    Width,              \* bits of a latched port time (int32 in the code)
    SyncDelay,
    Cycles, Shifts,     \* what an application asks of SYNC0 and SYNC1
    Nows,               \* times at which it asks
    MaxSync             \* bound: it asks in networks of so many slaves

VARIABLES
    dc,                 \* the clock fields of slavelist
    refclock,           \* slavelist[0].DCnext, 0 without hasdc
    prevDCslave, parenthold,
    dcreg               \* what the slaves were told: offset, delay, SYNC start

dcVars == <<dc, refclock, prevDCslave, parenthold, dcreg>>

-----------------------------------------------------------------------------
(* The frame of BWR ECT_REG_DCTIME0.                                       *)

Behind(i) == {c \in DOMAIN net : net[c].up = i}
Rank == (3 :> 1) @@ (1 :> 2) @@ (2 :> 3) @@ (0 :> 4)
Before(c) == {b \in Behind(net[c].up) : Rank[net[b].port] < Rank[net[c].port]}

\* From a frame's way into slave i to its way back out of it.
RECURSIVE RoundTrip(_)
RoundTrip(i) == MapThenSumSet(LAMBDA c : 2 * net[c].cable + RoundTrip(c), Behind(i))

RECURSIVE Arrival(_)
Arrival(i) ==
    IF i = 0 THEN 0
    ELSE Arrival(net[i].up) + net[i].cable
           + MapThenSumSet(LAMBDA c : 2 * net[c].cable + RoundTrip(c), Before(i))

\* When the frame comes in at port p; a closed port latches nothing.
PassedAt(i, p) ==
    IF p = net[i].in THEN Arrival(i)
    ELSE MapThenSumSet(LAMBDA c : Arrival(c) + RoundTrip(c) + net[c].cable,
                       {c \in Behind(i) : net[c].port = p})

\* ... by the slave's own clock.
Signed(t) == LET u == t % 2 ^ Width IN IF u >= 2 ^ (Width - 1) THEN u - 2 ^ Width ELSE u
Latched(i) == [p \in 0 .. 3 |-> IF p \in slavelist[i].activeports
                                THEN Signed(PassedAt(i, p) + net[i].clock) ELSE 0]

-----------------------------------------------------------------------------
(* ecx_configdc.                                                           *)

NoClock == [DCrt |-> [p \in 0 .. 3 |-> 0], consumedports |-> {}, entryport |-> 0,
            parentport |-> 0, pdelay |-> 0, DCnext |-> 0, DCprevious |-> 0]
NoDcReg == [offset |-> 0, delay |-> 0, start |-> 0, cycle |-> 0, shift |-> 0, at |-> 0]

ClocksInit == /\ dc = <<>> /\ refclock = 0 /\ prevDCslave = 0 /\ parenthold = 0
              /\ dcreg = <<>>

\* The first of the ports in the order of seq that is in set.
FirstOf(seq, set) == LET k == Min({k \in DOMAIN seq : seq[k] \in set}) IN seq[k]

\* ecx_prevport: the open port the frame passed before port, if there is one.
PrevOrder == (0 :> <<2, 1, 3, 0>>) @@ (1 :> <<3, 0, 2, 1>>)
               @@ (2 :> <<1, 3, 0, 2>>) @@ (3 :> <<0, 2, 1, 3>>)
PrevPort(i, port) == FirstOf(PrevOrder[port], slavelist[i].activeports \cup {port})

\* ecx_parentport: the first port that is not consumed yet, 0 if none is.
ParentPort(ports) == FirstOf(<<3, 1, 2, 0>>, ports \cup {0})

\* The port with the lowest time; of equal ones the first of 0 - 3 - 1 - 2.
EntryPort(i, rt) ==
    LET active == slavelist[i].activeports
    IN  FirstOf(<<0, 3, 1, 2>>, {p \in active : \A q \in active : rt[p] <= rt[q]})

\* The nearest slave upstream with a clock, and the slave below it.
RECURSIVE DcParent(_)
DcParent(i) == LET up == slavelist[i].parent
               IN  IF up = 0 \/ slavelist[up].hasdc THEN [parent |-> up, child |-> i]
                   ELSE DcParent(up)

\* Mutant: the branches in front of this one are left out.
Pdelay_FirstBranch(i, parent, child, port, me) ==
    LET Diff(rt, p, q) == Signed(rt[p] - rt[q])
        up == dc[parent]
        dt3 == Diff(up.DCrt, port, PrevPort(parent, port))
        dt1 == IF slavelist[i].topology > 1
               THEN Diff(me.DCrt, PrevPort(i, me.entryport), me.entryport) ELSE 0
    IN  (dt3 - dt1) \div 2 + up.pdelay

\* Half the time the frame was on its way behind the parent's port, without
\* the time behind this slave; and what the branches before it took.
Pdelay(i, parent, child, port, me) ==
    LET Diff(rt, p, q) == Signed(rt[p] - rt[q])
        up == dc[parent]
        prev == PrevPort(parent, port)
        dt3 == Diff(up.DCrt, port, prev)
        dt1 == IF slavelist[i].topology > 1
               THEN Diff(me.DCrt, PrevPort(i, me.entryport), me.entryport) ELSE 0
        dt2 == IF child - parent > 1 THEN Diff(up.DCrt, prev, up.entryport) ELSE 0
        Abs(x) == IF x < 0 THEN -x ELSE x
        Half(x) == IF x < 0 THEN -((-x) \div 2) ELSE x \div 2
    IN  Half(dt3 - (IF dt1 > dt3 THEN -dt1 ELSE dt1)) + Abs(dt2) + up.pdelay

\* A slave with a clock.
ClockOf(i) ==
    LET rt == Latched(i)
        entry == EntryPort(i, rt)
        me == [NoClock EXCEPT !.DCrt = rt, !.entryport = entry,
                              !.consumedports = slavelist[i].activeports \ {entry},
                              !.DCprevious = prevDCslave]
        p == DcParent(i)
        free == ParentPort(dc[p.parent].consumedports)
        port == IF slavelist[p.parent].topology = 1 THEN dc[p.parent].entryport ELSE free
        mine == IF p.parent = 0 THEN me
                ELSE [me EXCEPT !.parentport = port,
                                !.pdelay = Pdelay(i, p.parent, p.child, port, me)]
    IN  [c \in DOMAIN dc |->
            IF c = i THEN mine
            ELSE IF c = p.parent
            THEN [dc[c] EXCEPT !.consumedports = @ \ {free},
                               !.DCnext = IF c = prevDCslave THEN i ELSE @]
            ELSE IF c = prevDCslave THEN [dc[c] EXCEPT !.DCnext = i]
            ELSE dc[c]]

DcClock ==
    /\ Turn("dc") /\ slavelist[slave].hasdc
    /\ refclock' = IF refclock = 0 THEN slave ELSE refclock
    /\ dc' = ClockOf(slave)
    /\ parenthold' = 0 /\ prevDCslave' = slave
    /\ dcreg' = [dcreg EXCEPT ![slave].offset = -(Arrival(slave) + net[slave].clock),
                              ![slave].delay = dc'[slave].pdelay]
    /\ NextTurn("done")
    /\ UNCHANGED <<net, dev, slavelist, slavecount, master, cache, faults, scans, lossy, source>>

\* A slave without one: a branch without clocks consumes its port at its end.
DcNone ==
    /\ Turn("dc") /\ ~slavelist[slave].hasdc
    /\ LET up == slavelist[slave].parent
           hold == IF up > 0 /\ slavelist[up].topology > 2 THEN up ELSE parenthold
           ends == hold > 0 /\ slavelist[slave].topology = 1
           Closed(c) == [c EXCEPT !.consumedports = @ \ {ParentPort(@)}]
       IN  /\ parenthold' = IF ends THEN 0 ELSE hold
           /\ dc' = IF ends THEN [dc EXCEPT ![hold] = Closed(@)] ELSE dc
    /\ NextTurn("done")
    /\ UNCHANGED <<refclock, prevDCslave, dcreg, net, dev, slavelist, slavecount, master,
                   cache, faults, scans, lossy, source>>

\* The end of ecx_config_map_group, and the latch that begins ecx_configdc.
MapEnds ==
    /\ phase = "mapped"
    /\ slavelist' = [s \in Found |-> [slavelist[s] EXCEPT !.eep_pdi = TRUE]]
    /\ dev' = [s \in Found |-> [dev[s] EXCEPT !.pdi = TRUE, !.al = "SAFE_OP"]]
    /\ phase' = "dc"
    /\ refclock' = 0 /\ prevDCslave' = 0 /\ parenthold' = 0
    /\ dc' = [s \in Found |-> [NoClock EXCEPT !.consumedports = slavelist[s].activeports]]
    /\ dcreg' = [s \in Found |-> NoDcReg]
    /\ UNCHANGED <<net, slave, slavecount, master, cache, faults, scans, lossy, source>>

-----------------------------------------------------------------------------
(* ecx_dcsync0 and ecx_dcsync01.                                           *)

\* The time a slave's clock shows once its drift compensation has added the
\* delay it was told.
SystemTime(s, now) == now + net[s].clock + dcreg[s].offset + dcreg[s].delay

\* Mutant: the time of the call is taken as it is.
FirstStart_NotRounded(t1, cycle, shift) == t1 + SyncDelay + shift

\* A whole number of cycles, later than SyncDelay from now.
FirstStart(t1, cycle, shift) ==
    IF cycle > 0 THEN ((t1 + SyncDelay) \div cycle) * cycle + cycle + shift
    ELSE t1 + SyncDelay + shift

\* Each slave once, in any order.
DcSync(s, cycle, shift, now) ==
    /\ phase = "done" /\ slavelist[s].hasdc
    /\ slavecount <= MaxSync /\ faults = 0 /\ dcreg[s].at = 0
    /\ dcreg' = [dcreg EXCEPT ![s].start = FirstStart(SystemTime(s, now), cycle, shift),
                              ![s].cycle = cycle, ![s].shift = shift, ![s].at = now]
    /\ UNCHANGED <<initVars, dc, refclock, prevDCslave, parenthold>>

Dcsync0 ==
    \E s \in Found, cycle \in Cycles \cup {0}, shift \in Shifts, now \in Nows :
        DcSync(s, cycle, shift, now)

\* SYNC1 every CyclTime0 + CyclTime1, rounded down to a multiple of SYNC0's.
Dcsync01 ==
    \E s \in Found, cycle0 \in Cycles, cycle1 \in Cycles \cup {0}, shift \in Shifts, now \in Nows :
        DcSync(s, (cycle1 \div cycle0 + 1) * cycle0, shift, now)

ClocksNext == MapEnds \/ DcClock \/ DcNone \/ Dcsync0 \/ Dcsync01
=============================================================================
