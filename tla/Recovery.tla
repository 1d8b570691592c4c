------------------------------- MODULE Recovery -------------------------------
(***************************************************************************)
(* The states of the slaves while the network runs: ecx_readstate,         *)
(* ecx_FPRD_multi, ecx_writestate, ecx_statecheck (soem/ethercatmain.c),   *)
(* ecx_recover_slave and ecx_reconfig_slave (soem/ethercatconfig.c), and   *)
(* the check thread that calls them: ecatcheck of simple_test, which       *)
(* watches the work counter, and its copy SoemMaster::ecatCheck, which     *)
(* waits for docheckstate.                                                 *)
(*                                                                         *)
(* One action is one exchange of a datagram, with the decision that the    *)
(* code takes on its answer.  A request or an answer may be lost, at the   *)
(* timeout of the call: the retries within it are those of NicDrv.         *)
(*                                                                         *)
(* The devices are external: their registers and state machine.  The cable *)
(* may be cut, and what is behind the cut be switched off and on, swapped  *)
(* or exchanged.                                                           *)
(***************************************************************************)
EXTENDS Integers, Sequences, FiniteSets, FiniteSetsExt

CONSTANTS
    Expected,           \* the slaves found at the start: alias and EEPROM ids
    Spares,             \* identities of other devices
    MAX_FPRD_MULTI,     \* slaves whose state is read in one frame
    Watched,            \* the check thread looks at the work counter
    MaxEvents,          \* bound: what happens to the devices
    MaxLosses           \* bound: exchanges lost

EC_STATE_NONE == 0
EC_STATE_INIT == 1
EC_STATE_PRE_OP == 2
EC_STATE_BOOT == 3
EC_STATE_SAFE_OP == 4
EC_STATE_OPERATIONAL == 8
EC_STATE_ERROR == 16    \* and EC_STATE_ACK
States == {EC_STATE_INIT, EC_STATE_PRE_OP, EC_STATE_BOOT, EC_STATE_SAFE_OP,
           EC_STATE_OPERATIONAL}

N == Len(Expected)
Slaves == 1 .. N
Node(s) == 4096 + s
EC_TEMPNODE == 65535
EC_MAXSLAVE == 200

Identity == [alias : Nat, eep : Nat \ {0}]

ASSUME RecoveryAssumption ==
    /\ Expected \in Seq(Identity) /\ N \in 1 .. EC_MAXSLAVE - 1 /\ Spares \subseteq Identity
    /\ MAX_FPRD_MULTI \in Nat \ {0} /\ Watched \in BOOLEAN
    /\ MaxEvents \in Nat /\ MaxLosses \in Nat

VARIABLES
    line,           \* the devices in the order of the cable
    cut,            \* the first position that frames do not reach
    list,           \* ec_slave: what the master keeps of each slave
    docheckstate,
    pc, slave,      \* the check thread
    events, losses,
    unmapped,       \* slaves whose FMMUs a write has not reached
    uncleared       \* a write that clears EC_TEMPNODE has not reached all

device == <<line, cut, events>>
thread == <<list, docheckstate, pc, slave>>
lost == <<unmapped, uncleared>>
vars == <<device, thread, losses, lost>>

\* The registers of a device after power on.  sm and fmmu name the slave whose
\* sync managers and FMMUs are programmed.
PowerOn(id) == [id |-> id, addr |-> 0, al |-> EC_STATE_INIT, err |-> FALSE,
                sm |-> 0, fmmu |-> 0, pdi |-> FALSE]

\* ec_config has brought all slaves to OP.
Init ==
    /\ line = [s \in Slaves |->
                 [PowerOn(Expected[s]) EXCEPT !.addr = Node(s), !.al = EC_STATE_OPERATIONAL,
                                              !.sm = s, !.fmmu = s, !.pdi = TRUE]]
    /\ cut = N + 1
    /\ list = [s \in Slaves |-> [configadr |-> Node(s), state |-> EC_STATE_OPERATIONAL,
                                 islost |-> FALSE, eep_pdi |-> TRUE]]
    /\ docheckstate = FALSE
    /\ pc = "sleep" /\ slave = 1
    /\ events = 0 /\ losses = 0 /\ unmapped = {} /\ uncleared = FALSE

-----------------------------------------------------------------------------
(* The exchange of a datagram.                                             *)

Reachable == 1 .. cut - 1
At(addr) == {k \in Reachable : line[k].addr = addr}
Position(s) == {s} \cap Reachable

\* A lost answer has had its effect.
Outcomes == {"ok"} \cup (IF losses < MaxLosses THEN {"request", "answer"} ELSE {})
Count(o) == losses' = IF o = "ok" THEN losses ELSE losses + 1
Wkc(o, where) == IF o = "ok" THEN Cardinality(where) ELSE -1

\* The devices with the new registers of some of them.
Line(new) == [k \in Slaves |-> IF k \in DOMAIN new THEN new[k] ELSE line[k]]

\* new holds the registers that the devices it reaches have after a write.
Write(o, new) ==
    /\ Count(o)
    /\ line' = IF o = "request" THEN line ELSE Line(new)
    /\ UNCHANGED <<cut, events>>
Read(o) == Count(o) /\ UNCHANGED device

\* Of several devices that answer, the last one's data are what comes back.
Answered(o, where) == o = "ok" /\ where # {}
Answer(where) == line[Max(where)]

\* The AL status, 0 when nobody answers.
AlStatus(d) == d.al + (IF d.err THEN EC_STATE_ERROR ELSE 0)
StatusOf(o, where) == IF Answered(o, where) THEN AlStatus(Answer(where)) ELSE 0

\* The AL control of a device: one state up when it is configured for that,
\* any state down, and nothing but INIT or an acknowledge after an error.
MayEnter(d, state) ==
    \/ state <= d.al
    \/ d.al = EC_STATE_INIT /\ state = EC_STATE_PRE_OP
    \/ d.al = EC_STATE_PRE_OP /\ state = EC_STATE_SAFE_OP /\ d.sm # 0
    \/ d.al = EC_STATE_SAFE_OP /\ state = EC_STATE_OPERATIONAL
Request(d, state, ack) ==
    IF d.err /\ ~ack /\ state # EC_STATE_INIT THEN d
    ELSE IF MayEnter(d, state) THEN [d EXCEPT !.al = state, !.err = FALSE]
    ELSE [d EXCEPT !.err = TRUE]

\* A write to the AL control of the slave.
Control(o, s, state, ack) ==
    Write(o, [k \in At(list[s].configadr) |-> Request(line[k], state, ack)])
SetAddress(o, where, addr) == Write(o, [k \in where |-> [line[k] EXCEPT !.addr = addr]])

-----------------------------------------------------------------------------
(* ecx_readstate.                                                          *)

\* All bits of the states, as a broadcast read collects them.
Or(S) == SumSet(S)

\* One frame for all: when they are in one state, all states are known.
ReadAll(o) ==
    LET all == IF o = "ok" THEN {line[k] : k \in Reachable} ELSE {}
        state == Or({d.al : d \in all})
    IN  /\ pc = "read"
        /\ IF /\ \A d \in all : ~d.err
              /\ state \in States
              /\ Wkc(o, Reachable) >= N
           THEN /\ list' = [s \in Slaves |-> [list[s] EXCEPT !.state = state]]
                /\ pc' = "slave" /\ slave' = 1
           ELSE pc' = "multi" /\ slave' = 1 /\ UNCHANGED list
        /\ Read(o)
        /\ UNCHANGED <<docheckstate, lost>>

\* The status of some slaves in one frame; of a lost one all are 0.
FPRD_multi(o, some) == [s \in some |-> StatusOf(o, At(list[s].configadr))]

ReadEach(o) ==
    LET last == Min({slave + MAX_FPRD_MULTI - 1, N})
        status == FPRD_multi(o, slave .. last)
    IN  /\ pc = "multi"
        /\ list' = [s \in Slaves |-> IF s \in DOMAIN status
                                     THEN [list[s] EXCEPT !.state = status[s]] ELSE list[s]]
        /\ IF last < N THEN slave' = last + 1 /\ UNCHANGED pc
                       ELSE slave' = 1 /\ pc' = "slave"
        /\ Read(o)
        /\ UNCHANGED <<docheckstate, lost>>

\* ecx_writestate, whose result nobody looks at.
writestate(o, s, state, ack) == Control(o, s, state, ack)

-----------------------------------------------------------------------------
(* The check thread.                                                       *)

\* What a slave adds to the work counter of the process data.
Adds(d) == IF d.fmmu = 0 THEN 0
           ELSE CASE d.al = EC_STATE_OPERATIONAL -> 3
                  [] d.al = EC_STATE_SAFE_OP -> 1
                  [] OTHER -> 0
wkc == MapThenSumSet(LAMBDA k : Adds(line[k]), Reachable)
expectedWKC == 3 * N

ecatcheck(o) ==
    /\ pc = "sleep"
    /\ docheckstate \/ (Watched /\ (o # "ok" \/ wkc < expectedWKC))
    /\ docheckstate' = FALSE
    /\ pc' = "read"
    /\ Read(o)
    /\ UNCHANGED <<list, slave, lost>>

\* The end of the loop's body for a slave: one that is still lost is looked
\* for, one that has a state is not lost any more.
Follow(l) ==
    IF l[slave].islost /\ l[slave].state = EC_STATE_NONE
    THEN list' = l /\ pc' = "find" /\ UNCHANGED slave
    ELSE /\ list' = [l EXCEPT ![slave].islost = FALSE]
         /\ IF slave < N THEN pc' = "slave" /\ slave' = slave + 1
                         ELSE pc' = "sleep" /\ slave' = 1

me == list[slave]
\* simple_test comes back until all slaves are in OP, SoemMaster does not.
NotOp == docheckstate' = (docheckstate \/ Watched)

SlaveIsOp ==
    /\ pc = "slave" /\ me.state = EC_STATE_OPERATIONAL
    /\ Follow(list)
    /\ UNCHANGED <<device, docheckstate, losses, lost>>

Acknowledge(o) ==
    /\ pc = "slave" /\ me.state = EC_STATE_SAFE_OP + EC_STATE_ERROR
    /\ NotOp
    /\ writestate(o, slave, EC_STATE_SAFE_OP, TRUE)
    /\ Follow(list)
    /\ UNCHANGED lost

ToOp(o) ==
    /\ pc = "slave" /\ me.state = EC_STATE_SAFE_OP
    /\ NotOp
    /\ writestate(o, slave, EC_STATE_OPERATIONAL, FALSE)
    /\ Follow([list EXCEPT ![slave].state = EC_STATE_OPERATIONAL])
    /\ UNCHANGED lost

\* Mutant: a slave that gives no state is not noted as lost.
Recheck_NotLost(o) ==
    /\ pc = "slave" /\ me.state = EC_STATE_NONE /\ ~me.islost
    /\ NotOp
    /\ Read(o)
    /\ Follow([list EXCEPT ![slave].state = StatusOf(o, At(me.configadr))])
    /\ UNCHANGED lost

Recheck(o) ==
    LET status == StatusOf(o, At(me.configadr))
    IN  /\ pc = "slave" /\ me.state = EC_STATE_NONE /\ ~me.islost
        /\ NotOp
        /\ Read(o)
        /\ Follow([list EXCEPT ![slave].state = status,
                               ![slave].islost = (status = EC_STATE_NONE)])
        /\ UNCHANGED lost

StillLost ==
    /\ pc = "slave" /\ me.state = EC_STATE_NONE /\ me.islost
    /\ NotOp
    /\ Follow(list)
    /\ UNCHANGED <<device, losses, lost>>

-----------------------------------------------------------------------------
(* ecx_reconfig_slave.                                                     *)

\* The state that the call returns; simple_test and SoemMaster agree here.
Reconfigured(l, state) ==
    Follow(IF state # EC_STATE_NONE THEN [l EXCEPT ![slave].islost = FALSE] ELSE l)
Then(step) == pc' = step /\ UNCHANGED <<list, slave>>

ToInit(o) ==
    /\ pc = "slave"
    /\ me.state \notin {EC_STATE_NONE, EC_STATE_SAFE_OP, EC_STATE_OPERATIONAL,
                        EC_STATE_SAFE_OP + EC_STATE_ERROR}
    /\ NotOp
    /\ Control(o, slave, EC_STATE_INIT, FALSE)
    /\ IF Wkc(o, At(me.configadr)) <= 0 THEN Reconfigured(list, EC_STATE_NONE)
                                        ELSE Then("eeprom2pdi")
    /\ UNCHANGED lost

\* The note of who has the EEPROM is changed whatever came of the write.
Assign(o, pdi) ==
    /\ IF me.eep_pdi = pdi THEN UNCHANGED <<device, losses>> /\ o = "ok"
       ELSE Write(o, [k \in At(me.configadr) |-> [line[k] EXCEPT !.pdi = pdi]])
    /\ list' = [list EXCEPT ![slave].eep_pdi = pdi]

eeprom2pdi(o) ==
    /\ pc = "eeprom2pdi" /\ pc' = "init?"
    /\ Assign(o, TRUE)
    /\ UNCHANGED <<docheckstate, slave, lost>>

\* The last read of ecx_statecheck: at the state it waits for, or before its
\* timer ends it.
Statecheck(o, state, step) ==
    LET status == StatusOf(o, At(me.configadr))
        l == [list EXCEPT ![slave].state = status]
    IN  /\ Read(o)
        /\ IF status % EC_STATE_ERROR = state
           THEN list' = l /\ pc' = step /\ UNCHANGED slave
           ELSE Reconfigured(l, status % EC_STATE_ERROR)
        /\ UNCHANGED <<docheckstate, lost>>

InInit(o) == pc = "init?" /\ Statecheck(o, EC_STATE_INIT, "sms")
InPreOp(o) == pc = "preop?" /\ Statecheck(o, EC_STATE_PRE_OP, "safeop")

ProgramSms(o) ==
    /\ pc = "sms" /\ Then("preop")
    /\ Write(o, [k \in At(me.configadr) |-> [line[k] EXCEPT !.sm = slave]])
    /\ UNCHANGED <<docheckstate, lost>>

ToPreOp(o) ==
    /\ pc = "preop" /\ Then("preop?")
    /\ Control(o, slave, EC_STATE_PRE_OP, FALSE)
    /\ UNCHANGED <<docheckstate, lost>>

ToSafeOp(o) ==
    /\ pc = "safeop" /\ Then("safeop?")
    /\ Control(o, slave, EC_STATE_SAFE_OP, FALSE)
    /\ UNCHANGED <<docheckstate, lost>>

\* Mutant: the call returns when the slave is in SAFE_OP.
InSafeOp_NoFmmus(o) ==
    /\ pc = "safeop?"
    /\ Statecheck(o, EC_STATE_NONE, "sleep")

\* The FMMUs follow, whatever the state that was found.
InSafeOp(o) ==
    /\ pc = "safeop?"
    /\ Read(o)
    /\ list' = [list EXCEPT ![slave].state = StatusOf(o, At(me.configadr))]
    /\ pc' = "fmmus"
    /\ UNCHANGED <<slave, docheckstate, lost>>

ProgramFmmus(o) ==
    /\ pc = "fmmus"
    /\ Write(o, [k \in At(me.configadr) |-> [line[k] EXCEPT !.fmmu = slave]])
    /\ Reconfigured(list, me.state % EC_STATE_ERROR)
    /\ unmapped' = IF o # "request" /\ \A k \in Slaves \ Reachable : line[k].addr # Node(slave)
                   THEN unmapped \ {slave} ELSE unmapped \cup {slave}
    /\ UNCHANGED <<docheckstate, uncleared>>

-----------------------------------------------------------------------------
(* ecx_recover_slave.                                                      *)

\* simple_test takes any value but 0 for success, the EC_NOFRAME of a write
\* whose answer is lost too; SoemMaster takes no notice.
Recovered(l, rval) ==
    /\ list' = IF rval # 0 /\ Watched THEN [l EXCEPT ![slave].islost = FALSE] ELSE l
    /\ IF slave < N THEN pc' = "slave" /\ slave' = slave + 1
                    ELSE pc' = "sleep" /\ slave' = 1

FindSlave(o) ==
    LET Found(addr) == Answered(o, Position(slave)) /\ line[slave].addr = addr
    IN  /\ pc = "find"
        /\ Read(o)
        /\ IF Found(0) THEN Then("clear")
           ELSE Recovered(list, IF Found(me.configadr) THEN 1 ELSE 0)
        /\ UNCHANGED <<docheckstate, lost>>

\* Nobody waits for the answer to the two writes that clear EC_TEMPNODE.
ClearTempNode(o) ==
    /\ pc = "clear" /\ Then("park")
    /\ SetAddress(o, At(EC_TEMPNODE), 0)
    /\ uncleared' = (uncleared \/ o = "request"
                     \/ \E k \in Slaves \ Reachable : line[k].addr = EC_TEMPNODE)
    /\ UNCHANGED <<docheckstate, unmapped>>

SetTempNode(o) ==
    /\ pc = "park"
    /\ SetAddress(o, Position(slave), EC_TEMPNODE)
    /\ IF Wkc(o, Position(slave)) <= 0
       THEN Then("unpark")
       ELSE /\ pc' = "eeprom2master" /\ UNCHANGED slave
            /\ list' = [list EXCEPT ![slave].configadr = EC_TEMPNODE]
    /\ UNCHANGED <<docheckstate, lost>>

Unpark(o) ==
    /\ pc = "unpark"
    /\ SetAddress(o, At(EC_TEMPNODE), 0)
    /\ Recovered(list, 0)
    /\ UNCHANGED <<docheckstate, lost>>

eeprom2master(o) ==
    /\ pc = "eeprom2master" /\ pc' = "alias?"
    /\ Assign(o, FALSE)
    /\ UNCHANGED <<docheckstate, slave, lost>>

\* A read that fails reads 0.
CheckAlias(o) ==
    LET where == At(EC_TEMPNODE)
        alias == IF Answered(o, where) THEN Answer(where).id.alias ELSE 0
    IN  /\ pc = "alias?"
        /\ Read(o)
        /\ Then(IF alias = Expected[slave].alias THEN "ids?" ELSE "refuse")
        /\ UNCHANGED <<docheckstate, lost>>

\* Mutant: the alias is enough.
CheckIds_AliasIsEnough(o) ==
    /\ pc = "ids?" /\ Read(o)
    /\ Then("readdress")
    /\ UNCHANGED <<docheckstate, lost>>

\* Product, manufacturer and revision, from an EEPROM that the master may read.
CheckIds(o) ==
    LET where == At(EC_TEMPNODE)
        eep == IF Answered(o, where) /\ ~Answer(where).pdi THEN Answer(where).id.eep ELSE 0
    IN  /\ pc = "ids?"
        /\ Read(o)
        /\ Then(IF eep = Expected[slave].eep THEN "readdress" ELSE "refuse")
        /\ UNCHANGED <<docheckstate, lost>>

Readdress(o) ==
    /\ pc = "readdress"
    /\ SetAddress(o, At(EC_TEMPNODE), Node(slave))
    /\ Recovered([list EXCEPT ![slave].configadr = Node(slave)], Wkc(o, At(EC_TEMPNODE)))
    /\ UNCHANGED <<docheckstate, lost>>

Refuse(o) ==
    /\ pc = "refuse"
    /\ SetAddress(o, At(EC_TEMPNODE), 0)
    /\ Recovered([list EXCEPT ![slave].configadr = Node(slave)], 0)
    /\ UNCHANGED <<docheckstate, lost>>

-----------------------------------------------------------------------------
(* What happens to the devices.                                            *)

Happens == events < MaxEvents /\ events' = events + 1
           /\ UNCHANGED <<thread, losses, lost>>

\* A device whose process data stop falls back.
Starved(d) == IF d.al = EC_STATE_OPERATIONAL
              THEN [d EXCEPT !.al = EC_STATE_SAFE_OP, !.err = TRUE] ELSE d

Trip(k) ==
    /\ k \in Reachable /\ line[k].al = EC_STATE_OPERATIONAL /\ Happens
    /\ line' = [line EXCEPT ![k] = Starved(@)]
    /\ UNCHANGED cut

Cut(k) ==
    /\ k \in Reachable /\ Happens
    /\ line' = [j \in Slaves |-> IF j < k THEN line[j] ELSE Starved(line[j])]
    /\ cut' = k

\* The cable is put back; what is behind it may have been switched off, have
\* changed places, or be another device.
Joined(new) == Happens /\ cut \in Slaves /\ cut' = N + 1 /\ line' = Line(new)
Join == Joined(<<>>)
PowerCycle == Joined([k \in cut .. N |-> PowerOn(line[k].id)])
Exchange(id) == Joined([k \in {cut} |-> PowerOn(id)])
Swap(j, k) == /\ cut <= j /\ j < k
              /\ Joined([i \in {j, k} |-> PowerOn(line[j + k - i].id)])

Environment == \/ \E k \in Slaves : Trip(k) \/ Cut(k)
               \/ Join \/ PowerCycle
               \/ \E id \in Spares : Exchange(id)
               \/ \E j, k \in Slaves : Swap(j, k)

Master ==
    \/ SlaveIsOp \/ StillLost
    \/ \E o \in Outcomes :
         \/ ecatcheck(o) \/ ReadAll(o) \/ ReadEach(o)
         \/ Acknowledge(o) \/ ToOp(o) \/ Recheck(o)
         \/ ToInit(o) \/ eeprom2pdi(o) \/ InInit(o) \/ ProgramSms(o) \/ ToPreOp(o)
         \/ InPreOp(o) \/ ToSafeOp(o) \/ InSafeOp(o) \/ ProgramFmmus(o)
         \/ FindSlave(o) \/ ClearTempNode(o) \/ SetTempNode(o) \/ Unpark(o)
         \/ eeprom2master(o) \/ CheckAlias(o) \/ CheckIds(o) \/ Readdress(o) \/ Refuse(o)

Next == Master \/ Environment
Spec == Init /\ [][Next]_vars

\* The check thread never stops; losses and events do.
FairSpec == Spec /\ WF_vars(Master)

-----------------------------------------------------------------------------
RecoveryTypeOK ==
    /\ line \in [Slaves -> [id : Identity,
                            addr : {0, EC_TEMPNODE} \cup {Node(s) : s \in Slaves},
                            al : States, err : BOOLEAN, sm : 0 .. N, fmmu : 0 .. N,
                            pdi : BOOLEAN]]
    /\ cut \in 1 .. N + 1
    /\ \A s \in Slaves : /\ list[s].configadr \in {Node(s), EC_TEMPNODE}
                         /\ list[s].state \in 0 .. 31
    /\ slave \in Slaves /\ unmapped \subseteq Slaves /\ uncleared \in BOOLEAN

\* No device has the address of a slave that it cannot stand for: product,
\* manufacturer and revision are those of the slave, and so is the alias when
\* the slave has one, and no two devices have one address, whatever was swapped,
\* exchanged or lost on the way.  Only when the write that clears EC_TEMPNODE,
\* for which nobody waits, was lost or did not reach a device behind the cut may
\* one that was parked before be taken along.
NoForeignDevice ==
    /\ RecoveryTypeOK
    /\ uncleared \/
       \A k, s \in Slaves :
           line[k].addr = Node(s) =>
               /\ line[k].id.eep = Expected[s].eep
               /\ Expected[s].alias # 0 => line[k].id.alias = Expected[s].alias
               /\ \A j \in Slaves \ {k} : line[j].addr # Node(s)

\* A device in OP works with the configuration of the slave whose address it
\* has, but for FMMUs that the write has not reached, which nobody writes again.
OpIsConfigured ==
    uncleared \/
    \A k \in Slaves, s \in Slaves :
        line[k].al = EC_STATE_OPERATIONAL /\ line[k].addr = Node(s) =>
            line[k].sm = s /\ (line[k].fmmu = s \/ s \in unmapped)

Back(s) == line[s].al = EC_STATE_OPERATIONAL /\ line[s].addr = Node(s)
InPlace(s) == /\ cut = N + 1 /\ line[s].id = Expected[s]
              /\ line[s].addr \in {0, Node(s)}

\* While one device keeps its address, every slave whose device is in its
\* place, with its address or none, comes back to OP after any cut, power
\* cycle or fault.  A device that a lost write has left at EC_TEMPNODE does not.
\* Nor does any after a power cycle of all of them together: the broadcast of
\* ecx_readstate finds all in INIT, none is taken for lost, and they are
\* configured at addresses that nobody has.
Recovers ==
    (\E t \in Slaves : [](line[t].addr = Node(t)))
        => \A s \in Slaves : <>[]InPlace(s) => <>[]Back(s)
=============================================================================
