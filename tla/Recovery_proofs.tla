--------------------------- MODULE Recovery_proofs ---------------------------
(***************************************************************************)
(* What Recovery promises of addresses and configurations, for any number  *)
(* of slaves, of spare devices, of events and of lost datagrams.           *)
(*                                                                         *)
(* Node addresses are only given by Readdress, to the device parked at     *)
(* EC_TEMPNODE, and taken away by a power cycle.  As long as the clearing  *)
(* write has reached all, that is the one device in the slave's position,  *)
(* so an address stays with its position, and what the slave's alias and   *)
(* EEPROM were compared with is what gets the address.                     *)
(***************************************************************************)
EXTENDS Recovery, WellFoundedInduction, TLAPS

Addresses == {0, EC_TEMPNODE} \cup {Node(s) : s \in Slaves}
Device == [id : Identity, addr : Addresses, al : States, err : BOOLEAN,
           sm : 0 .. N, fmmu : 0 .. N, pdi : BOOLEAN]
Parking == {"eeprom2master", "alias?", "ids?", "readdress", "refuse"}
Reconfiguring == {"eeprom2pdi", "init?", "sms", "preop", "preop?", "safeop", "safeop?", "fmmus"}
Steps == {"sleep", "read", "multi", "slave", "find", "clear", "park", "unpark"}
             \cup Parking \cup Reconfiguring

Entry == [configadr : {EC_TEMPNODE} \cup {Node(s) : s \in Slaves}, state : 0 .. 31,
          islost : BOOLEAN, eep_pdi : BOOLEAN]
Types ==
    /\ line \in [Slaves -> Device]
    /\ cut \in 1 .. N + 1
    /\ list \in [Slaves -> Entry]
    /\ pc \in Steps /\ slave \in Slaves
    /\ unmapped \subseteq Slaves /\ uncleared \in BOOLEAN

\* The address the master uses for a slave is its own, but while it is parked.
ConfiguredAddresses ==
    \A s \in Slaves :
        list[s].configadr = IF pc \in Parking /\ s = slave THEN EC_TEMPNODE ELSE Node(s)

\* A device without a node address is as it was after power on, but for its
\* EEPROM; one with the address of a slave has been configured for that slave
\* or not at all, and not to SAFE_OP without its sync managers.
Sound(d) ==
    /\ d.addr \in {0, EC_TEMPNODE} => d.al = EC_STATE_INIT /\ d.sm = 0 /\ d.fmmu = 0
    /\ \A s \in Slaves : d.addr = Node(s) =>
          /\ d.sm \in {0, s} /\ d.fmmu \in {0, s}
          /\ d.al \in {EC_STATE_SAFE_OP, EC_STATE_OPERATIONAL} => d.sm = s
Registers == \A k \in Slaves : Sound(line[k])

\* Only a device without an address is parked.
Unaddressed == pc \in {"clear", "park"} => line[slave].addr = 0

\* An address is at its position, and only the slave is parked.
InPosition ==
    uncleared \/
    \A k \in Slaves :
        /\ line[k].addr \in {0, EC_TEMPNODE, Node(k)}
        /\ pc \in {"park", "unpark"} \cup Parking /\ line[k].addr = EC_TEMPNODE => k = slave

\* What has passed the comparisons is the slave, and so is who has its address.
Fits(d, s) == d.eep = Expected[s].eep
AliasFits(d, s) == Expected[s].alias # 0 => d.alias = Expected[s].alias
Compared ==
    uncleared \/
    \A k \in Slaves :
        /\ line[k].addr = Node(k) => Fits(line[k].id, k) /\ AliasFits(line[k].id, k)
        /\ line[k].addr = EC_TEMPNODE =>
              /\ pc \in {"ids?", "readdress"} => AliasFits(line[k].id, slave)
              /\ pc = "readdress" => Fits(line[k].id, slave)

\* The slaves whose state was read in this round and not acted on yet.
Pending(s) == \/ pc = "multi" /\ s < slave
              \/ pc = "slave" /\ s >= slave
              \/ pc \notin {"sleep", "read", "multi", "slave"} /\ s > slave

\* An error in SAFE_OP is acknowledged to a device that is not in PRE_OP: the
\* acknowledge, which asks for SAFE_OP, brings nobody there without FMMUs.
Acknowledged ==
    uncleared \/
    \A s \in Slaves :
        Pending(s) /\ list[s].state = EC_STATE_SAFE_OP + EC_STATE_ERROR /\ line[s].addr = Node(s)
            => line[s].al # EC_STATE_PRE_OP

\* Between SAFE_OP and the FMMUs the program is on its way to write them.
Mapped ==
    uncleared \/
    \A s \in Slaves :
        /\ line[s].addr = Node(s) /\ line[s].al \in {EC_STATE_SAFE_OP, EC_STATE_OPERATIONAL}
        => \/ line[s].fmmu = s \/ s \in unmapped
           \/ line[s].al = EC_STATE_SAFE_OP /\ pc \in {"safeop?", "fmmus"} /\ slave = s

IInv == Types /\ ConfiguredAddresses /\ Registers /\ Unaddressed /\ InPosition
            /\ Compared /\ Acknowledged /\ Mapped

-----------------------------------------------------------------------------
(* Numbers and single devices.                                             *)

LEMMA Numbers ==
  /\ N \in Nat /\ N >= 1 /\ N < 200 /\ Expected \in [Slaves -> Identity]
  /\ \A s \in Slaves : Node(s) # 0 /\ Node(s) # EC_TEMPNODE
                       /\ \A r \in Slaves : Node(r) = Node(s) => r = s
  <1>1. N \in 1 .. EC_MAXSLAVE - 1 /\ Expected \in Seq(Identity)
    BY RecoveryAssumption DEF RecoveryAssumption
  <1>2. Expected \in [Slaves -> Identity]
    BY <1>1 DEF N, Slaves
  <1>3. N \in Nat /\ N >= 1 /\ N < 200
    BY <1>1 DEF EC_MAXSLAVE
  <1> HIDE DEF N
  <1>4. \A s \in Slaves : Node(s) # 0 /\ Node(s) # EC_TEMPNODE
                       /\ \A r \in Slaves : Node(r) = Node(s) => r = s
    BY <1>3 DEF Slaves, Node, EC_TEMPNODE
  <1> QED
    BY <1>2, <1>3, <1>4

\* Of several devices that answer there is a last one.
LEMMA LastOne ==
  ASSUME NEW where \in SUBSET Slaves, where # {}
  PROVE  Max(where) \in where
  <1> DEFINE R == {ss \in Nat \X Nat : ss[1] < ss[2]}
             T == {N - k : k \in where}
  <1>0. N \in Nat
    BY Numbers
  <1> HIDE DEF N
  <1>1. T \subseteq Nat /\ T # {}
    <2>1. \A k \in where : N - k \in Nat
      BY <1>0 DEF Slaves
    <2> QED
      BY <2>1
  <1>2. IsWellFoundedOn(R, Nat)
    BY NatLessThanWellFounded, Zenon DEF OpToRel
  <1> HIDE DEF R, T
  <1>3. PICK x \in T : \A y \in T : ~ (<<y, x>> \in R)
    BY <1>1, <1>2, WFMin, Zenon
  <1>4. \A y \in T : x <= y
    <2> TAKE y \in T
    <2>1. <<y, x>> \in Nat \X Nat /\ x \in Nat /\ y \in Nat
      BY <1>1
    <2>2. ~ (y < x)
      BY <1>3, <2>1 DEF R
    <2> QED
      BY <2>1, <2>2
  <1>5. PICK k \in where : x = N - k
    BY <1>3 DEF T
  <1>6. \A j \in where : k >= j
    <2> TAKE j \in where
    <2>1. x <= N - j
      BY <1>4 DEF T
    <2> QED
      BY <1>0, <1>5, <2>1 DEF Slaves
  <1> QED
    BY <1>6 DEF Max

USE DEF EC_STATE_NONE, EC_STATE_INIT, EC_STATE_PRE_OP, EC_STATE_BOOT, EC_STATE_SAFE_OP,
        EC_STATE_OPERATIONAL, EC_STATE_ERROR

\* A device is sound after power on, and stays so when its process data stop,
\* when it changes its state and when the program writes to it.
LEMMA PowerOnSound ==
  ASSUME NEW id \in Identity
  PROVE  PowerOn(id) \in Device /\ Sound(PowerOn(id)) /\ PowerOn(id).addr = 0
  BY Numbers DEF PowerOn, Device, Addresses, States, Sound

LEMMA StarvedSound ==
  ASSUME NEW d \in Device, Sound(d)
  PROVE  /\ Starved(d) \in Device /\ Sound(Starved(d))
         /\ Starved(d).id = d.id /\ Starved(d).addr = d.addr /\ Starved(d).fmmu = d.fmmu
         /\ \/ Starved(d).al = d.al
            \/ Starved(d).al = EC_STATE_SAFE_OP /\ d.al = EC_STATE_OPERATIONAL
  <1>1. CASE d.al # EC_STATE_OPERATIONAL
    BY <1>1 DEF Starved
  <1>2. CASE d.al = EC_STATE_OPERATIONAL
    <2> DEFINE e == [d EXCEPT !.al = EC_STATE_SAFE_OP, !.err = TRUE]
    <2>1. e \in Device
      BY DEF Device, States
    <2>2. /\ e.al = EC_STATE_SAFE_OP /\ e.id = d.id /\ e.addr = d.addr /\ e.fmmu = d.fmmu
          /\ e.sm = d.sm
      BY DEF Device
    <2>3. Sound(e)
      BY <1>2, <2>2 DEF Sound
    <2> QED
      BY <1>2, <2>1, <2>2, <2>3 DEF Starved
  <1> QED
    BY <1>1, <1>2

LEMMA RequestSound ==
  ASSUME NEW d \in Device, Sound(d), NEW s \in Slaves, d.addr = Node(s),
         NEW state \in States, NEW ack \in BOOLEAN
  PROVE  LET e == Request(d, state, ack)
         IN  /\ e \in Device /\ Sound(e)
             /\ e.id = d.id /\ e.addr = d.addr /\ e.fmmu = d.fmmu /\ e.sm = d.sm
             /\ e.al = d.al \/ (e.al = state /\ MayEnter(d, state))
  <1>1. CASE Request(d, state, ack) = d
    BY <1>1
  <1>2. CASE Request(d, state, ack) = [d EXCEPT !.err = TRUE]
    BY <1>2, Numbers DEF Device, Sound
  <1>3. CASE MayEnter(d, state) /\ Request(d, state, ack) = [d EXCEPT !.al = state, !.err = FALSE]
    <2> DEFINE e == [d EXCEPT !.al = state, !.err = FALSE]
    <2>1. e \in Device
      BY DEF Device
    <2>2. /\ e.al = state /\ e.id = d.id /\ e.addr = d.addr /\ e.fmmu = d.fmmu
          /\ e.sm = d.sm
      BY DEF Device
    <2>3. d.al \in States /\ d.sm \in {0, s} /\ d.fmmu \in {0, s}
          /\ (d.al \in {EC_STATE_SAFE_OP, EC_STATE_OPERATIONAL} => d.sm = s)
      BY DEF Sound, Device
    <2>4. state \in {EC_STATE_SAFE_OP, EC_STATE_OPERATIONAL} => d.sm = s
      BY <1>3, <2>3 DEF MayEnter, States
    <2>5. Sound(e)
      BY <2>2, <2>3, <2>4, Numbers DEF Sound
    <2> QED
      BY <1>3, <2>1, <2>2, <2>5
  <1> QED
    BY <1>1, <1>2, <1>3 DEF Request

LEMMA WrittenSound ==
  ASSUME NEW d \in Device, Sound(d), NEW s \in Slaves
  PROVE  /\ \A b \in BOOLEAN : [d EXCEPT !.pdi = b] \in Device /\ Sound([d EXCEPT !.pdi = b])
         /\ d.addr = Node(s) =>
              /\ [d EXCEPT !.sm = s] \in Device /\ Sound([d EXCEPT !.sm = s])
              /\ [d EXCEPT !.fmmu = s] \in Device /\ Sound([d EXCEPT !.fmmu = s])
         /\ d.addr \in {0, EC_TEMPNODE} => \A a \in {0, EC_TEMPNODE, Node(s)} :
              [d EXCEPT !.addr = a] \in Device /\ Sound([d EXCEPT !.addr = a])
  <1>1. ASSUME NEW b \in BOOLEAN
        PROVE  [d EXCEPT !.pdi = b] \in Device /\ Sound([d EXCEPT !.pdi = b])
    BY DEF Device, Sound
  <1>2. ASSUME d.addr = Node(s)
        PROVE  [d EXCEPT !.sm = s] \in Device /\ Sound([d EXCEPT !.sm = s])
    BY <1>2, Numbers DEF Device, Sound, Slaves
  <1>3. ASSUME d.addr = Node(s)
        PROVE  [d EXCEPT !.fmmu = s] \in Device /\ Sound([d EXCEPT !.fmmu = s])
    BY <1>3, Numbers DEF Device, Sound, Slaves
  <1>4. ASSUME d.addr \in {0, EC_TEMPNODE}, NEW a \in {0, EC_TEMPNODE, Node(s)}
        PROVE  [d EXCEPT !.addr = a] \in Device /\ Sound([d EXCEPT !.addr = a])
    BY <1>4, Numbers DEF Device, Addresses, Sound
  <1> QED
    BY <1>1, <1>2, <1>3, <1>4

-----------------------------------------------------------------------------
(* What a write does to the devices, and what each device is afterwards.   *)

LEMMA WriteLine ==
  ASSUME line \in [Slaves -> Device], Registers, NEW o, NEW where \in SUBSET Slaves,
         NEW new \in [where -> Device], \A k \in where : Sound(new[k]), Write(o, new)
  PROVE  /\ line' \in [Slaves -> Device] /\ Registers' /\ cut' = cut
         /\ \A k \in Slaves \ where : line'[k] = line[k]
         /\ \A k \in where : line'[k] = IF o = "request" THEN line[k] ELSE new[k]
  <1>1. line' = IF o = "request" THEN line
                ELSE [k \in Slaves |-> IF k \in where THEN new[k] ELSE line[k]]
    BY DEF Write, Line
  <1> QED
    BY <1>1 DEF Write, Registers

\* The thread's step is an answer to the slave at hand: it stays at it ...
Stays(p) ==
    /\ pc' = p /\ slave' = slave /\ list' \in [Slaves -> Entry]
    /\ \A s \in Slaves : /\ list'[s].configadr = Node(s)
                         /\ s # slave => list'[s] = list[s]

\* ... or goes on: to the next slave, to find this one, or to sleep.
Goes ==
    /\ pc' \in {"find", "slave", "sleep"} /\ slave' \in Slaves /\ list' \in [Slaves -> Entry]
    /\ pc' = "find" => slave' = slave
    /\ pc' = "slave" => slave' = slave + 1
    /\ \A s \in Slaves : /\ list'[s].configadr = Node(s)
                         /\ s # slave => list'[s] = list[s]

Lists(l) ==
    /\ l \in [Slaves -> Entry]
    /\ \A s \in Slaves : l[s].configadr = Node(s) /\ (s # slave => l[s] = list[s])

LEMMA FollowGoes ==
  ASSUME slave \in Slaves, NEW l, Lists(l), Follow(l)
  PROVE  Goes
  <1>1. CASE list' = l /\ pc' = "find" /\ slave' = slave
    BY <1>1 DEF Goes, Lists
  <1>2. CASE /\ list' = [l EXCEPT ![slave].islost = FALSE]
             /\ IF slave < N THEN pc' = "slave" /\ slave' = slave + 1
                             ELSE pc' = "sleep" /\ slave' = 1
    <2>1. slave' \in Slaves /\ pc' \in {"slave", "sleep"} /\ (pc' = "slave" => slave' = slave + 1)
      BY <1>2, Numbers DEF Slaves
    <2>2. [l[slave] EXCEPT !.islost = FALSE] \in Entry
          /\ [l[slave] EXCEPT !.islost = FALSE].configadr = Node(slave)
      BY DEF Lists, Entry
    <2>3. list' = [s \in Slaves |-> IF s = slave THEN [l[slave] EXCEPT !.islost = FALSE] ELSE l[s]]
      BY <1>2 DEF Lists
    <2> QED
      BY <2>1, <2>2, <2>3 DEF Goes, Lists
  <1> QED
    BY <1>1, <1>2 DEF Follow

LEMMA ReconfiguredGoes ==
  ASSUME slave \in Slaves, NEW l, Lists(l), NEW state, Reconfigured(l, state)
  PROVE  Goes
  <1> DEFINE m == [l EXCEPT ![slave].islost = FALSE]
  <1>1. Lists(m)
    BY DEF Lists, Entry
  <1>2. Follow(m) \/ Follow(l)
    BY Zenon DEF Reconfigured
  <1> HIDE DEF m
  <1> QED
    BY <1>1, <1>2, FollowGoes

LEMMA RecoveredGoes ==
  ASSUME slave \in Slaves, NEW l, Lists(l), NEW rval, Recovered(l, rval)
  PROVE  Goes /\ pc' # "find"
  <1> DEFINE m == [l EXCEPT ![slave].islost = FALSE]
  <1>1. Lists(m)
    BY DEF Lists, Entry
  <1>2. Lists(list')
    BY <1>1 DEF Recovered
  <1>3. slave' \in Slaves /\ pc' \in {"slave", "sleep"} /\ (pc' = "slave" => slave' = slave + 1)
    BY Numbers DEF Slaves, Recovered
  <1> QED
    BY <1>2, <1>3 DEF Goes, Lists

-----------------------------------------------------------------------------
(* The parts of the invariant, under what most steps leave alone.          *)

\* A step that gives and takes no address, and parks nobody.
LEMMA KeptPlaces ==
  ASSUME InPosition, Compared, uncleared => uncleared',
         pc' \notin {"clear", "park", "unpark"} \cup Parking,
         \A k \in Slaves : line'[k].id = line[k].id /\ line'[k].addr = line[k].addr
  PROVE  Unaddressed' /\ InPosition' /\ Compared'
  BY DEF Unaddressed, InPosition, Compared, Parking

\* A step of the loop's body that leaves the slaves behind this one alone.
LEMMA KeptAcknowledged ==
  ASSUME Types, Acknowledged, uncleared => uncleared', pc \notin {"sleep", "read", "multi"},
         \/ Goes
         \/ /\ pc' \notin {"sleep", "read", "multi", "slave"} /\ slave' = slave
            /\ \A s \in Slaves : s # slave => list'[s] = list[s],
         \A s \in Slaves : s > slave /\ line'[s].addr = Node(s) =>
             line[s].addr = Node(s) /\ line'[s].al = line[s].al
  PROVE  Acknowledged'
  <1>1. SUFFICES ASSUME ~uncleared', NEW s \in Slaves, Pending(s)',
                        (list[s].state)' = EC_STATE_SAFE_OP + EC_STATE_ERROR, (line[s].addr = Node(s))'
                 PROVE  (line[s].al # EC_STATE_PRE_OP)'
    BY DEF Acknowledged
  <1>2. s > slave /\ Pending(s) /\ list'[s] = list[s]
    BY <1>1, Numbers DEF Types, Pending, Goes, Slaves
  <1> QED
    BY <1>1, <1>2 DEF Acknowledged, Node

\* A step that writes no FMMUs and brings nobody to SAFE_OP.
LEMMA KeptMapped ==
  ASSUME Mapped, uncleared => uncleared', unmapped' = unmapped,
         \A s \in Slaves : line'[s].addr = Node(s) =>
            /\ line[s].addr = Node(s) /\ line'[s].fmmu = line[s].fmmu
            /\ ~uncleared /\ line'[s].al \in {EC_STATE_SAFE_OP, EC_STATE_OPERATIONAL}
                 => line[s].al \in {EC_STATE_SAFE_OP, EC_STATE_OPERATIONAL},
         pc \in {"safeop?", "fmmus"} =>
             pc' \in {"safeop?", "fmmus"} /\ slave' = slave /\ line' = line
  PROVE  Mapped'
  BY DEF Mapped, Node

\* The next step of the loop's body or of a reconfiguration.
Onward == Goes \/ \E p \in Reconfiguring : Stays(p)

LEMMA OnwardTypes ==
  ASSUME Types, Onward, line' \in [Slaves -> Device], cut' = cut,
         unmapped' \subseteq Slaves, uncleared' = uncleared
  PROVE  /\ Types' /\ ConfiguredAddresses'
         /\ pc' \notin {"clear", "park", "unpark"} \cup Parking
         /\ \/ Goes
            \/ /\ pc' \notin {"sleep", "read", "multi", "slave"} /\ slave' = slave
               /\ \A s \in Slaves : s # slave => list'[s] = list[s]
  <1>1. pc' \in Steps /\ pc' \notin {"clear", "park", "unpark"} \cup Parking
    BY DEF Onward, Goes, Stays, Steps, Reconfiguring, Parking
  <1>2. slave' \in Slaves /\ list' \in [Slaves -> Entry]
        /\ \A s \in Slaves : list'[s].configadr = Node(s)
    BY DEF Onward, Goes, Stays, Types
  <1>3. Types'
    BY <1>1, <1>2 DEF Types
  <1>4. ConfiguredAddresses'
    BY <1>1, <1>2 DEF ConfiguredAddresses, Node
  <1>5. \/ Goes
        \/ /\ pc' \notin {"sleep", "read", "multi", "slave"} /\ slave' = slave
           /\ \A s \in Slaves : s # slave => list'[s] = list[s]
    BY DEF Onward, Stays, Reconfiguring
  <1> QED
    BY <1>1, <1>3, <1>4, <1>5

LEMMA OrdinaryStep ==
  ASSUME IInv, Onward, line' \in [Slaves -> Device], Registers', cut' = cut,
         UNCHANGED lost, pc \notin {"sleep", "read", "multi", "fmmus"},
         pc = "safeop?" => pc' = "fmmus" /\ slave' = slave /\ line' = line,
         \A k \in Slaves :
             /\ line'[k].id = line[k].id /\ line'[k].addr = line[k].addr
             /\ line'[k].fmmu = line[k].fmmu
             /\ line[k].addr # Node(slave) => line'[k].al = line[k].al
             /\ ~uncleared /\ line'[k].al \in {EC_STATE_SAFE_OP, EC_STATE_OPERATIONAL}
                  => line[k].al \in {EC_STATE_SAFE_OP, EC_STATE_OPERATIONAL}
  PROVE  IInv'
  <1>1. Types' /\ ConfiguredAddresses'
    BY OnwardTypes DEF IInv, lost, Types
  <1>2. Unaddressed' /\ InPosition' /\ Compared'
    BY OnwardTypes, KeptPlaces DEF IInv, lost, Types
  <1>3. Acknowledged'
    <2>1. \A s \in Slaves : s > slave /\ line'[s].addr = Node(s) =>
             line[s].addr = Node(s) /\ line'[s].al = line[s].al
      BY Numbers DEF IInv, Types, Slaves
    <2> QED
      BY <2>1, OnwardTypes, KeptAcknowledged DEF IInv, lost, Types
  <1>4. Mapped'
    BY KeptMapped DEF IInv, lost
  <1> QED
    BY <1>1, <1>2, <1>3, <1>4 DEF IInv

-----------------------------------------------------------------------------
(* The steps that only read, and those that write a register of the slave. *)

LEMMA StatusRange ==
  ASSUME Types, NEW o, NEW where \in SUBSET Slaves
  PROVE  StatusOf(o, where) \in 0 .. 31
  <1>1. CASE where = {}
    BY <1>1 DEF StatusOf, Answered
  <1>2. CASE where # {}
    <2>1. Answer(where) \in Device
      BY <1>2, LastOne DEF Types, Answer
    <2>2. AlStatus(Answer(where)) \in 0 .. 31
      BY <2>1 DEF AlStatus, Device, States
    <2> QED
      BY <2>2 DEF StatusOf
  <1> QED
    BY <1>1, <1>2

LEMMA AtSlaves == ASSUME Types PROVE \A a : At(a) \subseteq Slaves
  BY Numbers DEF Types, At, Reachable, Slaves

\* What the body of the loop makes of the list.
LEMMA NewLists ==
  ASSUME IInv, pc \notin Parking, NEW state \in 0 .. 31, NEW b \in BOOLEAN
  PROVE  /\ slave \in Slaves /\ me.configadr = Node(slave)
         /\ Lists(list) /\ Lists([list EXCEPT ![slave].state = state])
         /\ Lists([list EXCEPT ![slave].state = state, ![slave].islost = b])
         /\ Lists([list EXCEPT ![slave].eep_pdi = b])
  <1>1. slave \in Slaves /\ list \in [Slaves -> Entry] /\ \A s \in Slaves : list[s].configadr = Node(s)
    BY DEF IInv, Types, ConfiguredAddresses
  <1>2. Lists(list) /\ me.configadr = Node(slave)
    BY <1>1 DEF Lists, me
  <1>3. Lists([list EXCEPT ![slave].state = state])
    BY <1>1 DEF Lists, Entry
  <1>4. Lists([list EXCEPT ![slave].state = state, ![slave].islost = b])
    BY <1>1 DEF Lists, Entry
  <1>5. Lists([list EXCEPT ![slave].eep_pdi = b])
    BY <1>1 DEF Lists, Entry
  <1> QED
    BY <1>1, <1>2, <1>3, <1>4, <1>5

\* A step that only reads, and goes on.
LEMMA ReadStep ==
  ASSUME IInv, Onward, UNCHANGED <<line, cut, lost>>,
         pc \notin {"sleep", "read", "multi", "fmmus"},
         pc = "safeop?" => pc' = "fmmus" /\ slave' = slave
  PROVE  IInv'
  <1>1. Registers' /\ line' \in [Slaves -> Device]
    BY DEF IInv, Types, Registers
  <1> QED
    BY <1>1, OrdinaryStep

LEMMA SlaveIsOpStep == ASSUME IInv, SlaveIsOp PROVE IInv'
  <1>1. pc = "slave" /\ Follow(list) /\ UNCHANGED <<line, cut, lost>>
    BY DEF SlaveIsOp, device
  <1>2. Goes
    BY <1>1, NewLists, FollowGoes, 0 \in 0 .. 31, TRUE \in BOOLEAN DEF Parking
  <1> QED
    BY <1>1, <1>2, ReadStep DEF Onward

LEMMA StillLostStep == ASSUME IInv, StillLost PROVE IInv'
  <1>1. pc = "slave" /\ Follow(list) /\ UNCHANGED <<line, cut, lost>>
    BY DEF StillLost, device
  <1>2. Goes
    BY <1>1, NewLists, FollowGoes, 0 \in 0 .. 31, TRUE \in BOOLEAN DEF Parking
  <1> QED
    BY <1>1, <1>2, ReadStep DEF Onward

LEMMA RecheckStep == ASSUME IInv, NEW o, Recheck(o) PROVE IInv'
  <1> DEFINE status == StatusOf(o, At(me.configadr))
  <1>1. status \in 0 .. 31
    BY StatusRange, AtSlaves DEF IInv
  <1>2. pc = "slave" /\ Follow([list EXCEPT ![slave].state = status,
                                          ![slave].islost = (status = EC_STATE_NONE)])
    BY DEF Recheck
  <1> HIDE DEF status
  <1>3. (status = EC_STATE_NONE) \in BOOLEAN
    OBVIOUS
  <1>4. Goes
    BY <1>1, <1>2, <1>3, NewLists, FollowGoes DEF Parking
  <1> QED
    BY <1>2, <1>4, ReadStep DEF Recheck, Read, device, Onward

LEMMA StatecheckStep ==
  ASSUME IInv, NEW o, NEW state, NEW step \in Reconfiguring, Statecheck(o, state, step),
         pc \in {"init?", "preop?"}
  PROVE  IInv'
  <1> DEFINE status == StatusOf(o, At(me.configadr))
             l == [list EXCEPT ![slave].state = status]
  <1>1. status \in 0 .. 31
    BY StatusRange, AtSlaves DEF IInv
  <1>2. (list' = l /\ pc' = step /\ UNCHANGED slave) \/ Reconfigured(l, status % EC_STATE_ERROR)
    BY DEF Statecheck
  <1> HIDE DEF status
  <1>3. slave \in Slaves /\ Lists(l)
    BY <1>1, NewLists DEF Parking
  <1> HIDE DEF l
  <1>4. Onward
    <2>1. CASE list' = l /\ pc' = step /\ UNCHANGED slave
      BY <1>3, <2>1 DEF Onward, Stays, Lists
    <2>2. CASE Reconfigured(l, status % EC_STATE_ERROR)
      BY <1>3, <2>2, ReconfiguredGoes DEF Onward
    <2> QED
      BY <1>2, <2>1, <2>2
  <1> QED
    BY <1>4, ReadStep DEF Statecheck, Read, device

LEMMA InSafeOpStep == ASSUME IInv, NEW o, InSafeOp(o) PROVE IInv'
  <1> DEFINE status == StatusOf(o, At(me.configadr))
  <1>1. status \in 0 .. 31
    BY StatusRange, AtSlaves DEF IInv
  <1>2. pc = "safeop?" /\ pc' = "fmmus" /\ slave' = slave
        /\ list' = [list EXCEPT ![slave].state = status]
    BY DEF InSafeOp
  <1> HIDE DEF status
  <1>3. Lists(list')
    BY <1>1, <1>2, NewLists DEF Parking
  <1>4. Stays("fmmus")
    BY <1>2, <1>3 DEF Stays, Lists
  <1> QED
    BY <1>2, <1>4, ReadStep DEF InSafeOp, Read, device, Onward, Reconfiguring

\* Nothing but the AL state of devices at the slave's address has changed.
Controlled(state) ==
    /\ line' \in [Slaves -> Device] /\ Registers' /\ cut' = cut
    /\ \A k \in Slaves :
          /\ line'[k].id = line[k].id /\ line'[k].addr = line[k].addr
          /\ line'[k].fmmu = line[k].fmmu
          /\ line[k].addr # Node(slave) => line'[k].al = line[k].al
          /\ \/ line'[k].al = line[k].al
             \/ line'[k].al = state /\ MayEnter(line[k], state)

LEMMA ControlLine ==
  ASSUME IInv, pc \notin Parking, NEW o, NEW state \in States, NEW ack \in BOOLEAN,
         Control(o, slave, state, ack)
  PROVE  Controlled(state)
  <1> DEFINE where == At(Node(slave))
             new == [k \in where |-> Request(line[k], state, ack)]
  <1>1. list[slave].configadr = Node(slave) /\ slave \in Slaves
    BY DEF IInv, Types, ConfiguredAddresses
  <1>2. Write(o, new)
    BY <1>1 DEF Control
  <1>3. where \subseteq Slaves /\ \A k \in where : line[k] \in Device /\ Sound(line[k]) /\ line[k].addr = Node(slave)
    BY AtSlaves DEF IInv, Types, Registers, At
  <1>4. \A k \in where :
          /\ new[k] \in Device /\ Sound(new[k]) /\ new[k].id = line[k].id
          /\ new[k].addr = line[k].addr /\ new[k].fmmu = line[k].fmmu
          /\ new[k].al = line[k].al \/ (new[k].al = state /\ MayEnter(line[k], state))
    BY <1>1, <1>3, RequestSound
  <1>5. new \in [where -> Device]
    BY <1>4
  <1> HIDE DEF new, where
  <1>6. /\ line' \in [Slaves -> Device] /\ Registers' /\ cut' = cut
        /\ \A k \in Slaves \ where : line'[k] = line[k]
        /\ \A k \in where : line'[k] = IF o = "request" THEN line[k] ELSE new[k]
    BY <1>2, <1>3, <1>4, <1>5, WriteLine DEF IInv, Types
  <1> QED
    BY <1>3, <1>4, <1>6 DEF Controlled

LEMMA ToInitStep == ASSUME IInv, NEW o, ToInit(o) PROVE IInv'
  <1>1. pc = "slave" /\ Control(o, slave, EC_STATE_INIT, FALSE) /\ UNCHANGED lost
        /\ (Reconfigured(list, EC_STATE_NONE) \/ Then("eeprom2pdi"))
    BY DEF ToInit
  <1>2. slave \in Slaves /\ Lists(list)
    BY <1>1, NewLists, 0 \in 0 .. 31, TRUE \in BOOLEAN DEF Parking
  <1>3. Onward
    BY <1>1, <1>2, ReconfiguredGoes DEF Onward, Then, Stays, Lists, Reconfiguring
  <1>4. Controlled(EC_STATE_INIT)
    <2>1. pc \notin Parking /\ EC_STATE_INIT \in States
      BY <1>1 DEF Parking, States
    <2> QED
      BY <1>1, <2>1, ControlLine
  <1> QED
    BY <1>1, <1>3, <1>4, OrdinaryStep DEF Controlled

LEMMA ToPreOpStep == ASSUME IInv, NEW o, ToPreOp(o) PROVE IInv'
  <1>1. pc = "preop" /\ Control(o, slave, EC_STATE_PRE_OP, FALSE) /\ UNCHANGED lost /\ Then("preop?")
    BY DEF ToPreOp
  <1>2. Lists(list)
    BY <1>1, NewLists, 0 \in 0 .. 31, TRUE \in BOOLEAN DEF Parking
  <1>3. Onward
    BY <1>1, <1>2 DEF Onward, Then, Stays, Lists, Reconfiguring
  <1>4. Controlled(EC_STATE_PRE_OP)
    <2>1. pc \notin Parking /\ EC_STATE_PRE_OP \in States
      BY <1>1 DEF Parking, States
    <2> QED
      BY <1>1, <2>1, ControlLine
  <1> QED
    BY <1>1, <1>3, <1>4, OrdinaryStep DEF Controlled

LEMMA ToOpStep == ASSUME IInv, NEW o, ToOp(o) PROVE IInv'
  <1> DEFINE l == [list EXCEPT ![slave].state = EC_STATE_OPERATIONAL]
  <1>1. pc = "slave" /\ Control(o, slave, EC_STATE_OPERATIONAL, FALSE) /\ UNCHANGED lost /\ Follow(l)
    BY DEF ToOp, writestate
  <1>2. slave \in Slaves /\ Lists(l)
    BY <1>1, NewLists, EC_STATE_OPERATIONAL \in 0 .. 31, TRUE \in BOOLEAN DEF Parking
  <1> HIDE DEF l
  <1>3. Onward
    BY <1>1, <1>2, FollowGoes DEF Onward
  <1>4. \A k \in Slaves : MayEnter(line[k], EC_STATE_OPERATIONAL) =>
            line[k].al \in {EC_STATE_SAFE_OP, EC_STATE_OPERATIONAL}
    BY DEF MayEnter, IInv, Types, Device, States
  <1>5. EC_STATE_OPERATIONAL \in States
    BY DEF States
  <1>6. pc \notin Parking
    BY <1>1 DEF Parking
  <1>7. Controlled(EC_STATE_OPERATIONAL)
    BY <1>1, <1>5, <1>6, ControlLine
  <1> QED
    BY <1>1, <1>3, <1>4, <1>7, OrdinaryStep DEF Controlled

LEMMA AcknowledgeStep == ASSUME IInv, NEW o, Acknowledge(o) PROVE IInv'
  <1>1. pc = "slave" /\ Control(o, slave, EC_STATE_SAFE_OP, TRUE) /\ UNCHANGED lost /\ Follow(list)
        /\ list[slave].state = EC_STATE_SAFE_OP + EC_STATE_ERROR
    BY DEF Acknowledge, writestate, me
  <1>2. slave \in Slaves /\ Lists(list)
    BY <1>1, NewLists, 0 \in 0 .. 31, TRUE \in BOOLEAN DEF Parking
  <1>3. Onward
    BY <1>1, <1>2, FollowGoes DEF Onward
  <1>4. \A k \in Slaves : MayEnter(line[k], EC_STATE_SAFE_OP) =>
            line[k].al \in {EC_STATE_PRE_OP, EC_STATE_SAFE_OP, EC_STATE_OPERATIONAL}
    BY DEF MayEnter, IInv, Types, Device, States
  <1>5. ASSUME ~uncleared, NEW k \in Slaves, line[k].addr = Node(slave)
        PROVE  line[k].al # EC_STATE_PRE_OP
    <2>1. k = slave
      BY <1>2, <1>5, Numbers DEF IInv, InPosition
    <2>2. Pending(slave)
      BY <1>1, <1>2, Numbers DEF Pending, Slaves
    <2> QED
      BY <1>1, <1>2, <1>5, <2>1, <2>2 DEF IInv, Acknowledged
  <1>6. pc \notin Parking /\ EC_STATE_SAFE_OP \in States
    BY <1>1 DEF Parking, States
  <1>7. Controlled(EC_STATE_SAFE_OP)
    BY <1>1, <1>6, ControlLine
  <1> QED
    BY <1>1, <1>3, <1>4, <1>5, <1>7, OrdinaryStep DEF Controlled

LEMMA ToSafeOpStep == ASSUME IInv, NEW o, ToSafeOp(o) PROVE IInv'
  <1>1. pc = "safeop" /\ Control(o, slave, EC_STATE_SAFE_OP, FALSE) /\ UNCHANGED lost /\ Then("safeop?")
    BY DEF ToSafeOp
  <1>2. slave \in Slaves /\ Lists(list)
    BY <1>1, NewLists, 0 \in 0 .. 31, TRUE \in BOOLEAN DEF Parking
  <1>3. Onward /\ pc' = "safeop?" /\ slave' = slave
    BY <1>1, <1>2 DEF Onward, Then, Stays, Lists, Reconfiguring
  <1>4. Controlled(EC_STATE_SAFE_OP)
    <2>1. pc \notin Parking /\ EC_STATE_SAFE_OP \in States
      BY <1>1 DEF Parking, States
    <2> QED
      BY <1>1, <2>1, ControlLine
  <1>5. Types' /\ ConfiguredAddresses'
    BY <1>1, <1>3, <1>4, OnwardTypes DEF IInv, lost, Types, Controlled
  <1>6. Unaddressed' /\ InPosition' /\ Compared'
    BY <1>1, <1>3, <1>4, KeptPlaces DEF IInv, lost, Controlled, Parking
  <1>7. Acknowledged'
    <2>1. \A s \in Slaves : s > slave /\ line'[s].addr = Node(s) =>
             line[s].addr = Node(s) /\ line'[s].al = line[s].al
      BY <1>2, <1>4, Numbers DEF Controlled, Slaves
    <2> QED
      BY <1>1, <1>3, <2>1, KeptAcknowledged, OnwardTypes DEF IInv, lost, Then
  <1>8. Mapped'
    <2> SUFFICES ASSUME ~uncleared, NEW s \in Slaves, line'[s].addr = Node(s),
                        line'[s].al \in {EC_STATE_SAFE_OP, EC_STATE_OPERATIONAL},
                        s # slave \/ line'[s].al = EC_STATE_OPERATIONAL
                 PROVE  line'[s].fmmu = s \/ s \in unmapped
      BY <1>1, <1>3 DEF Mapped, lost, Node
    <2>1. line[s].addr = Node(s) /\ line[s].al = line'[s].al /\ line[s].fmmu = line'[s].fmmu
      BY <1>2, <1>4, Numbers DEF Controlled
    <2> QED
      BY <1>1, <2>1 DEF IInv, Mapped
  <1> QED
    BY <1>4, <1>5, <1>6, <1>7, <1>8 DEF IInv, Controlled

\* The note of who has the EEPROM, and the write that makes it true.
LEMMA AssignLine ==
  ASSUME IInv, NEW o, NEW b \in BOOLEAN, Assign(o, b)
  PROVE  /\ line' \in [Slaves -> Device] /\ Registers' /\ cut' = cut
         /\ \A k \in Slaves :
              /\ line'[k].id = line[k].id /\ line'[k].addr = line[k].addr
              /\ line'[k].fmmu = line[k].fmmu /\ line'[k].al = line[k].al
  <1>1. CASE UNCHANGED <<line, cut>>
    BY <1>1 DEF IInv, Types, Registers
  <1> DEFINE where == At(me.configadr)
             new == [k \in where |-> [line[k] EXCEPT !.pdi = b]]
  <1>2. CASE Write(o, new)
    <2>1. where \subseteq Slaves
      BY AtSlaves DEF IInv
    <2>2. \A k \in where :
            /\ new[k] \in Device /\ Sound(new[k]) /\ new[k].id = line[k].id
            /\ new[k].addr = line[k].addr /\ new[k].fmmu = line[k].fmmu /\ new[k].al = line[k].al
      <3> SUFFICES ASSUME NEW k \in where
                   PROVE  LET e == [line[k] EXCEPT !.pdi = b]
                          IN  /\ e \in Device /\ Sound(e) /\ e.id = line[k].id
                              /\ e.addr = line[k].addr /\ e.fmmu = line[k].fmmu /\ e.al = line[k].al
        OBVIOUS
      <3>1. line[k] \in Device /\ Sound(line[k]) /\ slave \in Slaves
        BY <2>1 DEF IInv, Types, Registers
      <3>2. [line[k] EXCEPT !.pdi = b] \in Device /\ Sound([line[k] EXCEPT !.pdi = b])
        BY <3>1, WrittenSound
      <3> QED
        BY <3>1, <3>2 DEF Device
    <2>3. new \in [where -> Device]
      BY <2>2
    <2> HIDE DEF new, where
    <2>4. /\ line' \in [Slaves -> Device] /\ Registers' /\ cut' = cut
          /\ \A k \in Slaves \ where : line'[k] = line[k]
          /\ \A k \in where : line'[k] = IF o = "request" THEN line[k] ELSE new[k]
      BY <1>2, <2>1, <2>2, <2>3, WriteLine DEF IInv, Types
    <2> QED
      BY <2>1, <2>2, <2>4
  <1> QED
    BY <1>1, <1>2 DEF Assign, device

LEMMA eeprom2pdiStep == ASSUME IInv, NEW o, eeprom2pdi(o) PROVE IInv'
  <1>1. pc = "eeprom2pdi" /\ pc' = "init?" /\ slave' = slave /\ Assign(o, TRUE) /\ UNCHANGED lost
        /\ list' = [list EXCEPT ![slave].eep_pdi = TRUE]
    BY DEF eeprom2pdi, Assign
  <1>2. Lists(list')
    BY <1>1, NewLists, 0 \in 0 .. 31, TRUE \in BOOLEAN DEF Parking
  <1>3. Onward
    BY <1>1, <1>2 DEF Onward, Stays, Lists, Reconfiguring
  <1> QED
    BY <1>1, <1>3, AssignLine, OrdinaryStep

\* A register of the devices at the slave's address is written.
LEMMA ProgramLine ==
  ASSUME IInv, pc \notin Parking, NEW o, NEW new \in [At(me.configadr) -> Device], Write(o, new),
         \A k \in At(me.configadr) : Sound(new[k]) /\ new[k].id = line[k].id
                /\ new[k].addr = line[k].addr /\ new[k].al = line[k].al
  PROVE  /\ line' \in [Slaves -> Device] /\ Registers' /\ cut' = cut
         /\ \A k \in Slaves :
              /\ line'[k].id = line[k].id /\ line'[k].addr = line[k].addr /\ line'[k].al = line[k].al
              /\ line[k].addr # Node(slave) => line'[k] = line[k]
              /\ line[k].addr = Node(slave) /\ k \in Reachable /\ o # "request" => line'[k] = new[k]
  <1> DEFINE where == At(Node(slave))
  <1>1. me.configadr = Node(slave)
    BY NewLists, 0 \in 0 .. 31, TRUE \in BOOLEAN
  <1>2. where \subseteq Slaves /\ new \in [where -> Device]
    BY <1>1, AtSlaves DEF IInv
  <1> HIDE DEF where
  <1>3. /\ line' \in [Slaves -> Device] /\ Registers' /\ cut' = cut
        /\ \A k \in Slaves \ where : line'[k] = line[k]
        /\ \A k \in where : line'[k] = IF o = "request" THEN line[k] ELSE new[k]
    BY <1>1, <1>2, WriteLine DEF IInv, Types, where
  <1>4. \A k \in Slaves : k \in where <=> k \in Reachable /\ line[k].addr = Node(slave)
    BY Numbers DEF where, At
  <1> QED
    BY <1>1, <1>2, <1>3, <1>4 DEF where

LEMMA ProgramSmsStep == ASSUME IInv, NEW o, ProgramSms(o) PROVE IInv'
  <1> DEFINE new == [k \in At(me.configadr) |-> [line[k] EXCEPT !.sm = slave]]
  <1>1. pc = "sms" /\ Then("preop") /\ Write(o, new) /\ UNCHANGED lost
    BY DEF ProgramSms
  <1>2. Lists(list) /\ me.configadr = Node(slave) /\ slave \in Slaves
    BY <1>1, NewLists, 0 \in 0 .. 31, TRUE \in BOOLEAN DEF Parking
  <1>3. Onward
    BY <1>1, <1>2 DEF Onward, Then, Stays, Lists, Reconfiguring
  <1>4. \A k \in At(me.configadr) :
          /\ k \in Slaves /\ new[k] \in Device /\ Sound(new[k]) /\ new[k].id = line[k].id
          /\ new[k].addr = line[k].addr /\ new[k].al = line[k].al /\ new[k].fmmu = line[k].fmmu
    <2> SUFFICES ASSUME NEW k \in At(me.configadr)
                 PROVE  LET e == [line[k] EXCEPT !.sm = slave]
                        IN  /\ k \in Slaves /\ e \in Device /\ Sound(e) /\ e.id = line[k].id
                            /\ e.addr = line[k].addr /\ e.al = line[k].al /\ e.fmmu = line[k].fmmu
      OBVIOUS
    <2>1. k \in Slaves /\ line[k] \in Device /\ Sound(line[k]) /\ line[k].addr = Node(slave)
      BY <1>2, AtSlaves DEF IInv, Types, Registers, At
    <2>2. [line[k] EXCEPT !.sm = slave] \in Device /\ Sound([line[k] EXCEPT !.sm = slave])
      BY <1>2, <2>1, WrittenSound
    <2> QED
      BY <2>1, <2>2 DEF Device
  <1>5. new \in [At(me.configadr) -> Device]
    BY <1>4
  <1> HIDE DEF new
  <1>6. /\ line' \in [Slaves -> Device] /\ Registers' /\ cut' = cut
        /\ \A k \in Slaves :
              /\ line'[k].id = line[k].id /\ line'[k].addr = line[k].addr /\ line'[k].al = line[k].al
              /\ line[k].addr # Node(slave) => line'[k] = line[k]
    BY <1>1, <1>4, <1>5, ProgramLine DEF Parking
  <1>7. \A k \in Slaves : line'[k].fmmu = line[k].fmmu
    <2>1. \A k \in Slaves : line'[k] = line[k] \/ (k \in At(me.configadr) /\ line'[k] = new[k])
      BY <1>1, <1>5, AtSlaves, WriteLine, <1>4 DEF IInv, Types
    <2> QED
      BY <1>4, <2>1
  <1> QED
    BY <1>1, <1>3, <1>6, <1>7, OrdinaryStep

LEMMA ProgramFmmusStep == ASSUME IInv, NEW o, ProgramFmmus(o) PROVE IInv'
  <1> DEFINE new == [k \in At(me.configadr) |-> [line[k] EXCEPT !.fmmu = slave]]
  <1>1. pc = "fmmus" /\ Reconfigured(list, me.state % EC_STATE_ERROR) /\ Write(o, new)
        /\ uncleared' = uncleared
        /\ unmapped' = IF o # "request" /\ \A k \in Slaves \ Reachable : line[k].addr # Node(slave)
                       THEN unmapped \ {slave} ELSE unmapped \cup {slave}
    BY DEF ProgramFmmus
  <1>2. Lists(list) /\ me.configadr = Node(slave) /\ slave \in Slaves
    BY <1>1, NewLists, 0 \in 0 .. 31, TRUE \in BOOLEAN DEF Parking
  <1>3. Onward /\ Goes
    BY <1>1, <1>2, ReconfiguredGoes DEF Onward
  <1>4. \A k \in At(me.configadr) :
          /\ k \in Slaves /\ new[k] \in Device /\ Sound(new[k]) /\ new[k].id = line[k].id
          /\ new[k].addr = line[k].addr /\ new[k].al = line[k].al /\ new[k].fmmu = slave
    <2> SUFFICES ASSUME NEW k \in At(me.configadr)
                 PROVE  LET e == [line[k] EXCEPT !.fmmu = slave]
                        IN  /\ k \in Slaves /\ e \in Device /\ Sound(e) /\ e.id = line[k].id
                            /\ e.addr = line[k].addr /\ e.al = line[k].al /\ e.fmmu = slave
      OBVIOUS
    <2>1. k \in Slaves /\ line[k] \in Device /\ Sound(line[k]) /\ line[k].addr = Node(slave)
      BY <1>2, AtSlaves DEF IInv, Types, Registers, At
    <2>2. [line[k] EXCEPT !.fmmu = slave] \in Device /\ Sound([line[k] EXCEPT !.fmmu = slave])
      BY <1>2, <2>1, WrittenSound
    <2> QED
      BY <2>1, <2>2 DEF Device
  <1>5. new \in [At(me.configadr) -> Device]
    BY <1>4
  <1> HIDE DEF new
  <1>6. /\ line' \in [Slaves -> Device] /\ Registers' /\ cut' = cut
        /\ \A k \in Slaves :
              /\ line'[k].id = line[k].id /\ line'[k].addr = line[k].addr /\ line'[k].al = line[k].al
              /\ line[k].addr # Node(slave) => line'[k] = line[k]
              /\ line[k].addr = Node(slave) /\ k \in Reachable /\ o # "request" => line'[k] = new[k]
    BY <1>1, <1>4, <1>5, ProgramLine DEF Parking
  <1>7. Types' /\ ConfiguredAddresses'
    BY <1>1, <1>2, <1>3, <1>6, OnwardTypes DEF IInv, Types
  <1>8. Unaddressed' /\ InPosition' /\ Compared'
    BY <1>1, <1>3, <1>6, KeptPlaces DEF IInv, Goes, Parking
  <1>9. Acknowledged'
    BY <1>1, <1>2, <1>3, <1>6, KeptAcknowledged DEF IInv
  <1>10. Mapped'
    <2> SUFFICES ASSUME ~uncleared, NEW s \in Slaves, line'[s].addr = Node(s),
                        line'[s].al \in {EC_STATE_SAFE_OP, EC_STATE_OPERATIONAL}
                 PROVE  line'[s].fmmu = s \/ s \in unmapped'
      BY <1>1, <1>3 DEF Mapped, Node
    <2>1. CASE s # slave
      <3>1. line'[s] = line[s]
        BY <1>2, <1>6, <2>1, Numbers
      <3>2. line[s].fmmu = s \/ s \in unmapped
        BY <1>1, <2>1, <3>1 DEF IInv, Mapped
      <3> QED
        BY <1>1, <2>1, <3>1, <3>2
    <2>2. CASE s = slave /\ slave \notin unmapped'
      <3>1. o # "request" /\ slave \in Reachable /\ line[slave].addr = Node(slave)
        BY <1>1, <1>2, <1>6, <2>2
      <3>2. line'[slave] = new[slave] /\ slave \in At(me.configadr)
        BY <1>2, <1>6, <3>1 DEF At
      <3> QED
        BY <1>4, <2>2, <3>2
    <2> QED
      BY <2>1, <2>2
  <1> QED
    BY <1>6, <1>7, <1>8, <1>9, <1>10 DEF IInv

-----------------------------------------------------------------------------
(* Finding a lost slave.                                                   *)

LEMMA FindSlaveStep == ASSUME IInv, NEW o, FindSlave(o) PROVE IInv'
  <1>1. pc = "find" /\ UNCHANGED <<line, cut, lost>> /\ slave \in Slaves
    BY DEF FindSlave, Read, device, IInv, Types
  <1>2. Lists(list)
    BY <1>1, NewLists, 0 \in 0 .. 31, TRUE \in BOOLEAN DEF Parking
  <1>3. CASE \E rval : Recovered(list, rval)
    BY <1>1, <1>2, <1>3, RecoveredGoes, ReadStep DEF Onward
  <1>4. CASE Then("clear") /\ line[slave].addr = 0
    <2>1. pc' = "clear" /\ UNCHANGED <<list, slave>>
      BY <1>4 DEF Then
    <2>2. Types'
      BY <1>1, <2>1 DEF IInv, Types, Steps, lost
    <2>3. ConfiguredAddresses'
      BY <1>1, <2>1 DEF IInv, ConfiguredAddresses, Parking, Node
    <2>4. Registers' /\ Unaddressed'
      BY <1>1, <1>4, <2>1 DEF IInv, Registers, Unaddressed
    <2>5. InPosition' /\ Compared'
      BY <1>1, <2>1 DEF IInv, InPosition, Compared, Parking, lost, Node, Fits, AliasFits
    <2>6. Acknowledged' /\ Mapped'
      BY <1>1, <2>1 DEF IInv, Acknowledged, Mapped, Pending, lost, Node
    <2> QED
      BY <2>2, <2>3, <2>4, <2>5, <2>6 DEF IInv
  <1> QED
    BY <1>3, <1>4 DEF FindSlave

\* Devices without a node address get one, or lose it.
LEMMA AddressLine ==
  ASSUME Types, Registers, NEW o, NEW where \in SUBSET Slaves,
         \A k \in where : line[k].addr \in {0, EC_TEMPNODE},
         NEW a \in {0, EC_TEMPNODE, Node(slave)}, SetAddress(o, where, a)
  PROVE  /\ line' \in [Slaves -> Device] /\ Registers' /\ cut' = cut
         /\ \A k \in Slaves :
              /\ line'[k].id = line[k].id /\ line'[k].al = line[k].al /\ line'[k].fmmu = line[k].fmmu
              /\ line'[k].addr = IF k \in where /\ o # "request" THEN a ELSE line[k].addr
  <1> DEFINE new == [k \in where |-> [line[k] EXCEPT !.addr = a]]
  <1>1. Write(o, new)
    BY DEF SetAddress
  <1>2. \A k \in where :
          /\ new[k] \in Device /\ Sound(new[k]) /\ new[k].id = line[k].id
          /\ new[k].addr = a /\ new[k].fmmu = line[k].fmmu /\ new[k].al = line[k].al
    <2> SUFFICES ASSUME NEW k \in where
                 PROVE  LET e == [line[k] EXCEPT !.addr = a]
                        IN  /\ e \in Device /\ Sound(e) /\ e.id = line[k].id
                            /\ e.addr = a /\ e.fmmu = line[k].fmmu /\ e.al = line[k].al
      OBVIOUS
    <2>1. line[k] \in Device /\ Sound(line[k]) /\ slave \in Slaves /\ line[k].addr \in {0, EC_TEMPNODE}
      BY DEF Types, Registers
    <2>2. [line[k] EXCEPT !.addr = a] \in Device /\ Sound([line[k] EXCEPT !.addr = a])
      BY <2>1, WrittenSound
    <2> QED
      BY <2>1, <2>2 DEF Device
  <1>3. new \in [where -> Device]
    BY <1>2
  <1> HIDE DEF new
  <1>4. /\ line' \in [Slaves -> Device] /\ Registers' /\ cut' = cut
        /\ \A k \in Slaves \ where : line'[k] = line[k]
        /\ \A k \in where : line'[k] = IF o = "request" THEN line[k] ELSE new[k]
    BY <1>1, <1>2, <1>3, WriteLine DEF Types
  <1> QED
    BY <1>2, <1>4

\* The two parts of the invariant about states, for a step that changes addresses.
LEMMA AddressStates ==
  ASSUME IInv, uncleared => uncleared', unmapped' = unmapped,
         pc \in {"clear", "park", "unpark"} \cup Parking,
         \/ Goes
         \/ /\ pc' \in {"clear", "park", "unpark"} \cup Parking /\ slave' = slave
            /\ \A s \in Slaves : s # slave => list'[s] = list[s],
         NEW o, NEW where, NEW a \in {0, EC_TEMPNODE, Node(slave)},
         \A k \in where : line[k].addr \in {0, EC_TEMPNODE},
         \A k \in Slaves :
              /\ line'[k].id = line[k].id /\ line'[k].al = line[k].al /\ line'[k].fmmu = line[k].fmmu
              /\ line'[k].addr = IF k \in where /\ o # "request" THEN a ELSE line[k].addr
  PROVE  Acknowledged' /\ Mapped'
  <1>0. slave \in Slaves
    BY DEF IInv, Types
  <1>1. \A s \in Slaves : s # slave /\ line'[s].addr = Node(s) => line[s].addr = Node(s)
    BY <1>0, Numbers
  <1>2. Acknowledged'
    <2>1. \A s \in Slaves : s > slave /\ line'[s].addr = Node(s) =>
             line[s].addr = Node(s) /\ line'[s].al = line[s].al
      BY <1>0, <1>1, Numbers DEF Slaves
    <2>2. pc \notin {"sleep", "read", "multi"}
      BY DEF Parking
    <2>3. \/ Goes
          \/ /\ pc' \notin {"sleep", "read", "multi", "slave"} /\ slave' = slave
             /\ \A s \in Slaves : s # slave => list'[s] = list[s]
      BY DEF Parking
    <2> QED
      BY <2>1, <2>2, <2>3, KeptAcknowledged DEF IInv
  <1>3. Mapped'
    <2> SUFFICES ASSUME ~uncleared', NEW s \in Slaves, line'[s].addr = Node(s),
                        line'[s].al \in {EC_STATE_SAFE_OP, EC_STATE_OPERATIONAL}
                 PROVE  line'[s].fmmu = s \/ s \in unmapped'
      BY DEF Mapped, Node
    <2>1. CASE line[s].addr = Node(s)
      BY <2>1 DEF IInv, Mapped, Parking
    <2>2. CASE line[s].addr # Node(s)
      <3>1. line[s].addr \in {0, EC_TEMPNODE}
        BY <2>2
      <3>2. line[s].al = EC_STATE_INIT
        BY <3>1 DEF IInv, Registers, Sound
      <3> QED
        BY <3>2
    <2> QED
      BY <2>1, <2>2
  <1> QED
    BY <1>2, <1>3

LEMMA ClearTempNodeStep == ASSUME IInv, NEW o, ClearTempNode(o) PROVE IInv'
  <1> DEFINE where == At(EC_TEMPNODE)
  <1>1. /\ pc = "clear" /\ pc' = "park" /\ UNCHANGED <<list, slave>> /\ unmapped' = unmapped
        /\ SetAddress(o, where, 0)
        /\ uncleared' = (uncleared \/ o = "request"
                            \/ \E k \in Slaves \ Reachable : line[k].addr = EC_TEMPNODE)
    BY DEF ClearTempNode, Then
  <1>2. where \subseteq Slaves /\ \A k \in where : line[k].addr \in {0, EC_TEMPNODE}
    BY AtSlaves DEF IInv, At
  <1> HIDE DEF where
  <1>3. /\ line' \in [Slaves -> Device] /\ Registers' /\ cut' = cut
        /\ \A k \in Slaves :
              /\ line'[k].id = line[k].id /\ line'[k].al = line[k].al /\ line'[k].fmmu = line[k].fmmu
              /\ line'[k].addr = IF k \in where /\ o # "request" THEN 0 ELSE line[k].addr
    BY <1>1, <1>2, AddressLine DEF IInv
  <1>4. uncleared' \in BOOLEAN /\ (uncleared => uncleared')
    BY <1>1, Zenon
  <1>5. Types' /\ ConfiguredAddresses'
    BY <1>1, <1>3, <1>4 DEF IInv, Types, Steps, ConfiguredAddresses, Parking, Node
  <1>6. Unaddressed'
    BY <1>1, <1>3 DEF IInv, Types, Unaddressed
  <1>7. ASSUME ~uncleared', NEW k \in Slaves PROVE line'[k].addr # EC_TEMPNODE
    <2>1. CASE k \in where
      <3>1. o # "request"
        BY <1>1, <1>7, Zenon
      <3>2. line'[k].addr = 0
        BY <1>3, <2>1, <3>1
      <3> QED
        BY <3>2 DEF EC_TEMPNODE
    <2>2. CASE k \notin where
      BY <1>1, <1>3, <1>7, <2>2 DEF where, At
    <2> QED
      BY <2>1, <2>2
  <1>8. InPosition' /\ Compared'
    BY <1>1, <1>3, <1>4, <1>7, Numbers DEF IInv, InPosition, Compared, Node, Fits, AliasFits
  <1>9. Acknowledged' /\ Mapped'
    BY <1>1, <1>2, <1>3, <1>4, AddressStates
  <1> QED
    BY <1>3, <1>5, <1>6, <1>8, <1>9 DEF IInv

LEMMA SetTempNodeStep == ASSUME IInv, NEW o, SetTempNode(o) PROVE IInv'
  <1> DEFINE where == Position(slave)
  <1>1. /\ pc = "park" /\ slave' = slave /\ UNCHANGED <<unmapped, uncleared>>
        /\ SetAddress(o, where, EC_TEMPNODE)
        /\ \/ pc' = "unpark" /\ list' = list
           \/ pc' = "eeprom2master" /\ list' = [list EXCEPT ![slave].configadr = EC_TEMPNODE]
    BY DEF SetTempNode, Then, lost
  <1>2. slave \in Slaves /\ where \subseteq {slave} /\ line[slave].addr = 0
    BY <1>1 DEF IInv, Types, Unaddressed, Position
  <1> HIDE DEF where
  <1>3. /\ line' \in [Slaves -> Device] /\ Registers' /\ cut' = cut
        /\ \A k \in Slaves :
              /\ line'[k].id = line[k].id /\ line'[k].al = line[k].al /\ line'[k].fmmu = line[k].fmmu
              /\ line'[k].addr = IF k \in where /\ o # "request" THEN EC_TEMPNODE ELSE line[k].addr
    BY <1>1, <1>2, AddressLine DEF IInv
  <1>4. list' \in [Slaves -> Entry] /\ \A s \in Slaves : s # slave => list'[s] = list[s]
    BY <1>1, <1>2 DEF IInv, Types, Entry
  <1>5. Types' /\ Unaddressed'
    BY <1>1, <1>2, <1>3, <1>4 DEF IInv, Types, Steps, Parking, Unaddressed
  <1>6. ConfiguredAddresses'
    <2>1. \A s \in Slaves : list[s].configadr = Node(s)
      BY <1>1 DEF IInv, ConfiguredAddresses, Parking
    <2>2. CASE pc' = "unpark" /\ list' = list
      BY <1>1, <2>1, <2>2 DEF ConfiguredAddresses, Parking, Node
    <2>3. CASE pc' = "eeprom2master" /\ list' = [list EXCEPT ![slave].configadr = EC_TEMPNODE]
      <3>1. list'[slave].configadr = EC_TEMPNODE
        BY <1>2, <2>3 DEF IInv, Types, Entry
      <3> QED
        BY <1>1, <1>2, <1>4, <2>1, <2>3, <3>1 DEF ConfiguredAddresses, Parking, Node
    <2> QED
      BY <1>1, <2>2, <2>3
  <1>7. InPosition' /\ Compared'
    BY <1>1, <1>2, <1>3, Numbers DEF IInv, InPosition, Compared, Node, Fits, AliasFits
  <1>8. Acknowledged' /\ Mapped'
    <2>1. pc' \in {"clear", "park", "unpark"} \cup Parking
      BY <1>1 DEF Parking
    <2>2. \A k \in where : line[k].addr \in {0, EC_TEMPNODE}
      BY <1>2
    <2> QED
      BY <1>1, <1>3, <1>4, <2>1, <2>2, AddressStates
  <1> QED
    BY <1>3, <1>5, <1>6, <1>7, <1>8 DEF IInv

LEMMA UnparkStep == ASSUME IInv, NEW o, Unpark(o) PROVE IInv'
  <1> DEFINE where == At(EC_TEMPNODE)
  <1>1. pc = "unpark" /\ UNCHANGED <<unmapped, uncleared>> /\ SetAddress(o, where, 0) /\ Recovered(list, 0)
    BY DEF Unpark, lost
  <1>2. where \subseteq Slaves /\ \A k \in where : line[k].addr \in {0, EC_TEMPNODE}
    BY AtSlaves DEF IInv, At
  <1> HIDE DEF where
  <1>3. /\ line' \in [Slaves -> Device] /\ Registers' /\ cut' = cut
        /\ \A k \in Slaves :
              /\ line'[k].id = line[k].id /\ line'[k].al = line[k].al /\ line'[k].fmmu = line[k].fmmu
              /\ line'[k].addr = IF k \in where /\ o # "request" THEN 0 ELSE line[k].addr
    BY <1>1, <1>2, AddressLine DEF IInv
  <1>4. slave \in Slaves /\ Lists(list)
    BY <1>1, NewLists, 0 \in 0 .. 31, TRUE \in BOOLEAN DEF Parking
  <1>5. Goes /\ pc' \in {"slave", "sleep"}
    BY <1>1, <1>4, RecoveredGoes DEF Goes
  <1>6. Types' /\ ConfiguredAddresses'
    BY <1>1, <1>3, <1>5, OnwardTypes DEF IInv, Types, Onward
  <1>7. Unaddressed' /\ InPosition' /\ Compared'
    BY <1>1, <1>3, <1>5, Numbers DEF IInv, Unaddressed, InPosition, Compared, Node, Fits, AliasFits, Parking
  <1>8. Acknowledged' /\ Mapped'
    BY <1>1, <1>2, <1>3, <1>5, AddressStates
  <1> QED
    BY <1>3, <1>6, <1>7, <1>8 DEF IInv

\* While a device is parked: the step looks at it, or at its EEPROM.
LEMMA ParkedStep ==
  ASSUME IInv, line' \in [Slaves -> Device], Registers', cut' = cut, UNCHANGED lost,
         \A k \in Slaves :
              /\ line'[k].id = line[k].id /\ line'[k].addr = line[k].addr
              /\ line'[k].fmmu = line[k].fmmu /\ line'[k].al = line[k].al,
         pc \in Parking, pc' \in Parking, slave' = slave, list' \in [Slaves -> Entry],
         \A s \in Slaves : /\ list'[s].configadr = list[s].configadr
                           /\ s # slave => list'[s] = list[s],
         ~uncleared /\ pc' \in {"ids?", "readdress"} =>
            \A k \in Slaves : line[k].addr = EC_TEMPNODE =>
               AliasFits(line[k].id, slave) /\ (pc' = "readdress" => Fits(line[k].id, slave))
  PROVE  IInv'
  <1>1. Types' /\ Unaddressed'
    BY DEF IInv, Types, Steps, Parking, Unaddressed, lost
  <1>2. ConfiguredAddresses'
    <2> SUFFICES ASSUME NEW s \in Slaves
                 PROVE  list'[s].configadr = IF s = slave THEN EC_TEMPNODE ELSE Node(s)
      BY DEF ConfiguredAddresses, Node
    <2>1. list'[s].configadr = list[s].configadr
      OBVIOUS
    <2>2. list[s].configadr = IF s = slave THEN EC_TEMPNODE ELSE Node(s)
      BY DEF IInv, ConfiguredAddresses
    <2> QED
      BY <2>1, <2>2
  <1>3. InPosition'
    BY DEF IInv, InPosition, lost, Node
  <1>4. Compared'
    BY DEF IInv, Compared, lost, Node, Fits, AliasFits
  <1>5. Acknowledged'
    BY KeptAcknowledged DEF IInv, Types, Parking, lost, Node, Slaves
  <1>6. Mapped'
    BY KeptMapped DEF IInv, Parking, lost
  <1> QED
    BY <1>1, <1>2, <1>3, <1>4, <1>5, <1>6 DEF IInv

LEMMA eeprom2masterStep == ASSUME IInv, NEW o, eeprom2master(o) PROVE IInv'
  <1>1. pc = "eeprom2master" /\ pc' = "alias?" /\ slave' = slave /\ Assign(o, FALSE) /\ UNCHANGED lost
        /\ list' = [list EXCEPT ![slave].eep_pdi = FALSE]
    BY DEF eeprom2master, Assign
  <1>2. list' \in [Slaves -> Entry]
        /\ \A s \in Slaves : list'[s].configadr = list[s].configadr /\ (s # slave => list'[s] = list[s])
    BY <1>1 DEF IInv, Types, Entry
  <1> QED
    BY <1>1, <1>2, AssignLine, ParkedStep DEF Parking

\* Of the one parked device the program reads what it compares.
LEMMA ParkedAnswer ==
  ASSUME IInv, ~uncleared, pc \in Parking, NEW o, Answered(o, At(EC_TEMPNODE))
  PROVE  Answer(At(EC_TEMPNODE)) = line[slave]
         /\ \A k \in Slaves : line[k].addr = EC_TEMPNODE => k = slave
  <1>1. \A k \in Slaves : line[k].addr = EC_TEMPNODE => k = slave
    BY DEF IInv, InPosition
  <1>2. Max(At(EC_TEMPNODE)) \in At(EC_TEMPNODE)
    BY LastOne, AtSlaves DEF IInv, Answered
  <1>3. Max(At(EC_TEMPNODE)) = slave
    BY <1>1, <1>2, AtSlaves DEF IInv, At
  <1> QED
    BY <1>1, <1>3 DEF Answer

LEMMA CheckAliasStep == ASSUME IInv, NEW o, CheckAlias(o) PROVE IInv'
  <1> DEFINE where == At(EC_TEMPNODE)
  <1>1. /\ pc = "alias?" /\ pc' \in {"ids?", "refuse"} /\ UNCHANGED <<list, slave, lost, line, cut>>
        /\ pc' = "ids?" => Expected[slave].alias = IF Answered(o, where) THEN Answer(where).id.alias ELSE 0
    BY DEF CheckAlias, Then, Read, device
  <1>2. ASSUME ~uncleared, pc' = "ids?", NEW k \in Slaves, line[k].addr = EC_TEMPNODE
        PROVE  AliasFits(line[k].id, slave)
    BY <1>1, <1>2, ParkedAnswer DEF Parking, AliasFits
  <1>3. Registers' /\ line' \in [Slaves -> Device] /\ list' \in [Slaves -> Entry]
    BY <1>1 DEF IInv, Types, Registers
  <1> QED
    BY <1>1, <1>2, <1>3, ParkedStep DEF Parking

LEMMA CheckIdsStep == ASSUME IInv, NEW o, CheckIds(o) PROVE IInv'
  <1> DEFINE where == At(EC_TEMPNODE)
  <1>1. /\ pc = "ids?" /\ pc' \in {"readdress", "refuse"} /\ UNCHANGED <<list, slave, lost, line, cut>>
        /\ pc' = "readdress" => Expected[slave].eep =
              IF Answered(o, where) /\ ~Answer(where).pdi THEN Answer(where).id.eep ELSE 0
    BY DEF CheckIds, Then, Read, device
  <1>2. ASSUME ~uncleared, pc' = "readdress", NEW k \in Slaves, line[k].addr = EC_TEMPNODE
        PROVE  AliasFits(line[k].id, slave) /\ Fits(line[k].id, slave)
    <2>1. k = slave /\ AliasFits(line[k].id, slave)
      BY <1>1, <1>2 DEF IInv, InPosition, Compared, Parking
    <2>2. Expected[slave].eep # 0
      BY Numbers DEF IInv, Types, Identity
    <2>3. Answered(o, where) /\ Answer(where).id.eep = Expected[slave].eep
      BY <1>1, <1>2, <2>2
    <2> QED
      BY <1>1, <1>2, <2>1, <2>3, ParkedAnswer DEF Parking, Fits
  <1>3. Registers' /\ line' \in [Slaves -> Device] /\ list' \in [Slaves -> Entry]
    BY <1>1 DEF IInv, Types, Registers
  <1> QED
    BY <1>1, <1>2, <1>3, ParkedStep DEF Parking

\* The slave gets its address back in the list.
LEMMA OwnAddress ==
  ASSUME IInv, pc \in Parking
  PROVE  Lists([list EXCEPT ![slave].configadr = Node(slave)])
  <1>1. slave \in Slaves /\ list \in [Slaves -> Entry]
        /\ \A s \in Slaves : s # slave => list[s].configadr = Node(s)
    BY DEF IInv, Types, ConfiguredAddresses
  <1> QED
    BY <1>1 DEF Lists, Entry

LEMMA ReaddressStep == ASSUME IInv, NEW o, Readdress(o) PROVE IInv'
  <1> DEFINE where == At(EC_TEMPNODE)
             l == [list EXCEPT ![slave].configadr = Node(slave)]
  <1>1. pc = "readdress" /\ UNCHANGED <<unmapped, uncleared>> /\ SetAddress(o, where, Node(slave))
        /\ Recovered(l, Wkc(o, where))
    BY DEF Readdress, lost
  <1>2. where \subseteq Slaves /\ \A k \in where : line[k].addr = EC_TEMPNODE
    BY AtSlaves DEF IInv, At
  <1>3. Lists(l) /\ slave \in Slaves
    BY <1>1, OwnAddress DEF Parking, IInv, Types
  <1> HIDE DEF where, l
  <1>4. /\ line' \in [Slaves -> Device] /\ Registers' /\ cut' = cut
        /\ \A k \in Slaves :
              /\ line'[k].id = line[k].id /\ line'[k].al = line[k].al /\ line'[k].fmmu = line[k].fmmu
              /\ line'[k].addr = IF k \in where /\ o # "request" THEN Node(slave) ELSE line[k].addr
    BY <1>1, <1>2, AddressLine DEF IInv
  <1>5. Goes /\ pc' \in {"slave", "sleep"}
    BY <1>1, <1>3, RecoveredGoes DEF Goes
  <1>6. Types' /\ ConfiguredAddresses'
    BY <1>1, <1>4, <1>5, OnwardTypes DEF IInv, Types, Onward
  <1>7. ASSUME ~uncleared, NEW k \in Slaves
        PROVE  k \in where => k = slave /\ Fits(line[k].id, k) /\ AliasFits(line[k].id, k)
    BY <1>1, <1>2, <1>7 DEF IInv, InPosition, Compared, Parking
  <1>8. Unaddressed'
    BY <1>5 DEF Unaddressed
  <1>9. InPosition'
    BY <1>1, <1>4, <1>5, <1>7 DEF IInv, InPosition, Node, Parking
  <1>10. Compared'
    <2> SUFFICES ASSUME ~uncleared, NEW k \in Slaves, line'[k].addr = Node(k)
                 PROVE  Fits(line[k].id, k) /\ AliasFits(line[k].id, k)
      BY <1>1, <1>4, <1>5 DEF Compared, Node, Fits, AliasFits
    <2>1. CASE k \in where
      BY <1>7, <2>1
    <2>2. CASE k \notin where
      BY <1>4, <2>2 DEF IInv, Compared
    <2> QED
      BY <2>1, <2>2
  <1>11. Acknowledged' /\ Mapped'
    <2>1. \A k \in where : line[k].addr \in {0, EC_TEMPNODE}
      BY <1>2
    <2>2. pc \in Parking /\ Node(slave) \in {0, EC_TEMPNODE, Node(slave)}
      BY <1>1 DEF Parking
    <2> QED
      BY <1>1, <1>4, <1>5, <2>1, <2>2, AddressStates
  <1> QED
    BY <1>4, <1>6, <1>8, <1>9, <1>10, <1>11 DEF IInv

LEMMA RefuseStep == ASSUME IInv, NEW o, Refuse(o) PROVE IInv'
  <1> DEFINE where == At(EC_TEMPNODE)
             l == [list EXCEPT ![slave].configadr = Node(slave)]
  <1>1. pc = "refuse" /\ UNCHANGED <<unmapped, uncleared>> /\ SetAddress(o, where, 0)
        /\ Recovered(l, 0)
    BY DEF Refuse, lost
  <1>2. where \subseteq Slaves /\ \A k \in where : line[k].addr \in {0, EC_TEMPNODE}
    BY AtSlaves DEF IInv, At
  <1>3. Lists(l) /\ slave \in Slaves
    BY <1>1, OwnAddress DEF Parking, IInv, Types
  <1> HIDE DEF where, l
  <1>4. /\ line' \in [Slaves -> Device] /\ Registers' /\ cut' = cut
        /\ \A k \in Slaves :
              /\ line'[k].id = line[k].id /\ line'[k].al = line[k].al /\ line'[k].fmmu = line[k].fmmu
              /\ line'[k].addr = IF k \in where /\ o # "request" THEN 0 ELSE line[k].addr
    BY <1>1, <1>2, AddressLine DEF IInv
  <1>5. Goes /\ pc' \in {"slave", "sleep"}
    BY <1>1, <1>3, RecoveredGoes DEF Goes
  <1>6. Types' /\ ConfiguredAddresses'
    BY <1>1, <1>4, <1>5, OnwardTypes DEF IInv, Types, Onward
  <1>7. Unaddressed' /\ InPosition' /\ Compared'
    BY <1>1, <1>4, <1>5, Numbers DEF IInv, Unaddressed, InPosition, Compared, Node, Fits, AliasFits, Parking
  <1>8. Acknowledged' /\ Mapped'
    BY <1>1, <1>2, <1>4, <1>5, AddressStates DEF Parking
  <1> QED
    BY <1>4, <1>6, <1>7, <1>8 DEF IInv

-----------------------------------------------------------------------------
(* The round of the check thread.                                          *)

LEMMA ecatcheckStep == ASSUME IInv, NEW o, ecatcheck(o) PROVE IInv'
  <1>1. pc = "sleep" /\ pc' = "read" /\ UNCHANGED <<line, cut, list, slave, lost>>
    BY DEF ecatcheck, Read, device
  <1>2. Types' /\ ConfiguredAddresses' /\ Registers' /\ Unaddressed'
    BY <1>1 DEF IInv, Types, Steps, ConfiguredAddresses, Registers, Unaddressed, Parking, Node, lost
  <1>3. InPosition' /\ Compared'
    BY <1>1 DEF IInv, InPosition, Compared, Parking, lost, Node, Fits, AliasFits
  <1>4. Acknowledged' /\ Mapped'
    BY <1>1 DEF IInv, Acknowledged, Mapped, Pending, lost, Node
  <1> QED
    BY <1>2, <1>3, <1>4 DEF IInv

\* A step of ecx_readstate: what it keeps whatever was read.
LEMMA ReadstateStep ==
  ASSUME IInv, UNCHANGED <<line, cut, lost>>, pc \in {"read", "multi"},
         pc' \in {"multi", "slave"}, slave' \in Slaves, list' \in [Slaves -> Entry],
         \A s \in Slaves : list'[s].configadr = list[s].configadr,
         Acknowledged'
  PROVE  IInv'
  <1>1. Types' /\ Registers' /\ Unaddressed'
    BY DEF IInv, Types, Steps, Registers, Unaddressed, Parking, lost
  <1>2. ConfiguredAddresses'
    <2> SUFFICES ASSUME NEW s \in Slaves PROVE list'[s].configadr = Node(s)
      BY DEF ConfiguredAddresses, Node, Parking
    <2> QED
      BY DEF IInv, ConfiguredAddresses, Parking
  <1>3. InPosition' /\ Compared'
    BY DEF IInv, InPosition, Compared, Parking, lost, Node, Fits, AliasFits
  <1>4. Mapped'
    BY DEF IInv, Mapped, lost, Node
  <1> QED
    BY <1>1, <1>2, <1>3, <1>4 DEF IInv

LEMMA ReadAllStep == ASSUME IInv, NEW o, ReadAll(o) PROVE IInv'
  <1>1. pc = "read" /\ UNCHANGED <<line, cut, lost>>
        /\ \/ /\ pc' = "slave" /\ slave' = 1
              /\ \E state \in States : list' = [s \in Slaves |-> [list[s] EXCEPT !.state = state]]
           \/ pc' = "multi" /\ slave' = 1 /\ list' = list
    BY DEF ReadAll, Read, device
  <1>2. slave' \in Slaves
    BY <1>1, Numbers DEF Slaves
  <1>3. CASE list' = list /\ pc' = "multi" /\ slave' = 1
    <2>1. Acknowledged'
      BY <1>3, Numbers DEF Acknowledged, Pending, Slaves
    <2> QED
      BY <1>1, <1>2, <1>3, <2>1, ReadstateStep DEF IInv, Types
  <1>4. ASSUME NEW state \in States, list' = [s \in Slaves |-> [list[s] EXCEPT !.state = state]],
               pc' = "slave"
        PROVE  IInv'
    <2>1. \A s \in Slaves : list[s] \in Entry
      BY DEF IInv, Types
    <2>2. \A s \in Slaves : /\ list'[s] \in Entry /\ list'[s].configadr = list[s].configadr
                            /\ list'[s].state = state
      BY <1>4, <2>1 DEF Entry, States
    <2>3. list' \in [Slaves -> Entry]
      BY <1>4, <2>2
    <2>4. Acknowledged'
      BY <2>2 DEF Acknowledged, States
    <2> QED
      BY <1>1, <1>2, <1>4, <2>2, <2>3, <2>4, ReadstateStep
  <1> QED
    BY <1>1, <1>3, <1>4

LEMMA MinOfTwo ==
  ASSUME NEW a \in Int, NEW b \in Int
  PROVE  Min({a, b}) \in {a, b} /\ Min({a, b}) <= a /\ Min({a, b}) <= b
  <1>1. CASE a <= b
    <2>1. a \in {a, b} /\ \A y \in {a, b} : a <= y
      BY <1>1
    <2> QED
      BY <2>1 DEF Min
  <1>2. CASE b <= a
    <2>1. b \in {a, b} /\ \A y \in {a, b} : b <= y
      BY <1>2
    <2> QED
      BY <2>1 DEF Min
  <1> QED
    BY <1>1, <1>2

LEMMA ReadEachStep == ASSUME IInv, NEW o, ReadEach(o) PROVE IInv'
  <1> DEFINE last == Min({slave + MAX_FPRD_MULTI - 1, N})
             status == [s \in slave .. last |-> StatusOf(o, At(list[s].configadr))]
  <1>1. /\ pc = "multi" /\ UNCHANGED <<line, cut, lost>>
        /\ list' = [s \in Slaves |-> IF s \in slave .. last
                                     THEN [list[s] EXCEPT !.state = status[s]] ELSE list[s]]
        /\ IF last < N THEN slave' = last + 1 /\ pc' = "multi" ELSE slave' = 1 /\ pc' = "slave"
    BY DEF ReadEach, Read, device, FPRD_multi
  <1>2. slave \in Slaves /\ MAX_FPRD_MULTI \in Nat \ {0} /\ N \in Nat /\ N >= 1
    BY RecoveryAssumption, Numbers DEF IInv, Types, RecoveryAssumption
  <1>3. last \in Nat /\ slave <= last /\ last <= N
    <2> DEFINE a == slave + MAX_FPRD_MULTI - 1
    <2>1. slave \in Nat /\ slave <= N
      BY <1>2 DEF Slaves
    <2> HIDE DEF N
    <2>2. a \in Int /\ N \in Int /\ a >= slave
      BY <1>2, <2>1
    <2> HIDE DEF a
    <2>3. Min({a, N}) \in {a, N} /\ Min({a, N}) <= N
      BY <2>2, MinOfTwo
    <2>4. last = Min({a, N})
      BY DEF a
    <2> HIDE DEF last
    <2> QED
      BY <1>2, <2>1, <2>2, <2>3, <2>4
  <1>4. \A s \in slave .. last : status[s] \in 0 .. 31 /\ list[s].configadr = Node(s)
           /\ status[s] = StatusOf(o, At(Node(s)))
    <2> SUFFICES ASSUME NEW s \in slave .. last
                 PROVE  StatusOf(o, At(list[s].configadr)) \in 0 .. 31 /\ list[s].configadr = Node(s)
      OBVIOUS
    <2>1. s \in Slaves
      BY <1>2, <1>3 DEF Slaves
    <2> QED
      BY <1>1, <2>1, StatusRange, AtSlaves DEF IInv, ConfiguredAddresses, Parking
  <1> HIDE DEF last, status
  <1>5. slave' \in Slaves /\ pc' \in {"multi", "slave"}
    BY <1>1, <1>2, <1>3 DEF Slaves
  <1>6. \A s \in Slaves : /\ list'[s] \in Entry /\ list'[s].configadr = list[s].configadr
                          /\ list'[s].state = IF s \in slave .. last THEN status[s] ELSE list[s].state
    BY <1>1, <1>4 DEF IInv, Types, Entry
  <1>7. list' \in [Slaves -> Entry]
    BY <1>1, <1>6
  <1>8. Acknowledged'
    <2> SUFFICES ASSUME ~uncleared, NEW s \in Slaves, Pending(s)', line[s].addr = Node(s),
                        list'[s].state = EC_STATE_SAFE_OP + EC_STATE_ERROR
                 PROVE  line[s].al # EC_STATE_PRE_OP
      BY <1>1 DEF Acknowledged, Node, lost
    <2>1. CASE s \in slave .. last
      <3>1. StatusOf(o, At(Node(s))) = EC_STATE_SAFE_OP + EC_STATE_ERROR
        BY <1>4, <1>6, <2>1
      <3>2. Answered(o, At(Node(s))) /\ AlStatus(line[Max(At(Node(s)))]) = EC_STATE_SAFE_OP + EC_STATE_ERROR
        BY <3>1 DEF StatusOf, Answer
      <3>3. Max(At(Node(s))) \in At(Node(s))
        BY <3>2, LastOne, AtSlaves DEF IInv, Answered
      <3>4. Max(At(Node(s))) = s
        BY <3>3, Numbers, AtSlaves DEF IInv, InPosition, At
      <3> QED
        BY <3>2, <3>4 DEF AlStatus
    <2>2. CASE s \notin slave .. last
      <3>1. Pending(s) /\ list'[s].state = list[s].state
        BY <1>1, <1>2, <1>3, <1>6, <2>2 DEF Pending, Slaves
      <3> QED
        BY <3>1 DEF IInv, Acknowledged
    <2> QED
      BY <2>1, <2>2
  <1> QED
    BY <1>1, <1>5, <1>6, <1>7, <1>8, ReadstateStep

-----------------------------------------------------------------------------
(* What happens to the devices.                                            *)

\* Each of them keeps its registers, falls back, or is one just switched on.
Befell(k) == \/ line'[k] \in {line[k], Starved(line[k])}
             \/ \E id \in Identity : line'[k] = PowerOn(id)

LEMMA JoinedLine ==
  ASSUME Types, NEW where \in SUBSET Slaves, NEW new \in [where -> {PowerOn(id) : id \in Identity}],
         Joined(new)
  PROVE  /\ line' \in [Slaves -> Device] /\ cut' \in 1 .. N + 1 /\ UNCHANGED <<thread, lost>>
         /\ \A k \in Slaves : Befell(k)
  <1>1. line' = [k \in Slaves |-> IF k \in where THEN new[k] ELSE line[k]]
    BY DEF Joined, Line
  <1>2. \A k \in where : \E id \in Identity : new[k] = PowerOn(id)
    OBVIOUS
  <1>3. \A k \in where : new[k] \in Device
    <2> TAKE k \in where
    <2>1. PICK id \in Identity : new[k] = PowerOn(id)
      BY <1>2
    <2> QED
      BY <2>1, Numbers DEF PowerOn, Device, Addresses, States
  <1>4. cut' = N + 1 /\ N + 1 \in 1 .. N + 1
    <2>1. cut' = N + 1
      BY DEF Joined
    <2>2. N \in Nat
      BY Numbers
    <2> QED
      BY <2>1, <2>2
  <1> QED
    BY <1>1, <1>2, <1>3, <1>4 DEF Types, Befell, Joined, Happens

LEMMA EnvironmentLine ==
  ASSUME IInv, Environment
  PROVE  /\ line' \in [Slaves -> Device] /\ cut' \in 1 .. N + 1 /\ UNCHANGED <<thread, lost>>
         /\ \A k \in Slaves : Befell(k)
  <1>0. Types /\ \A k \in Slaves : line[k] \in Device /\ Starved(line[k]) \in Device /\ line[k].id \in Identity
    BY StarvedSound DEF IInv, Types, Registers, Device
  <1>1. ASSUME NEW j \in Slaves, Trip(j)
        PROVE  /\ line' \in [Slaves -> Device] /\ cut' = cut /\ UNCHANGED <<thread, lost>>
               /\ \A k \in Slaves : Befell(k)
    BY <1>0, <1>1 DEF Trip, Happens, Befell, Types
  <1>2. ASSUME NEW j \in Slaves, Cut(j)
        PROVE  /\ line' \in [Slaves -> Device] /\ cut' = j /\ UNCHANGED <<thread, lost>>
               /\ \A k \in Slaves : Befell(k)
    BY <1>0, <1>2 DEF Cut, Happens, Befell
  <1>3. \A j \in Slaves : j \in 1 .. N + 1
    BY Numbers DEF Slaves
  <1>4. CASE Join
    <2> DEFINE new == [k \in {} |-> PowerOn(Expected[1])]
    <2>1. DOMAIN <<>> = {}
      OBVIOUS
    <2>2. Joined(new)
      BY <1>4, <2>1 DEF Join, Joined, Line
    <2>3. new \in [{} -> {PowerOn(id) : id \in Identity}]
      OBVIOUS
    <2> HIDE DEF new
    <2> QED
      BY <1>0, <2>2, <2>3, JoinedLine
  <1>5. CASE PowerCycle
    <2> DEFINE where == cut .. N
               new == [k \in where |-> PowerOn(line[k].id)]
    <2>1. Joined(new) /\ where \subseteq Slaves
      BY <1>0, <1>5, Numbers DEF PowerCycle, Joined, Types, Slaves
    <2>2. new \in [where -> {PowerOn(id) : id \in Identity}]
      BY <1>0, <2>1
    <2> HIDE DEF new, where
    <2> QED
      BY <1>0, <2>1, <2>2, JoinedLine
  <1>6. ASSUME NEW id \in Spares, Exchange(id)
        PROVE  /\ line' \in [Slaves -> Device] /\ cut' \in 1 .. N + 1 /\ UNCHANGED <<thread, lost>>
               /\ \A k \in Slaves : Befell(k)
    <2> DEFINE where == {cut}
               new == [k \in where |-> PowerOn(id)]
    <2>1. Joined(new) /\ where \subseteq Slaves
      BY <1>6 DEF Exchange, Joined
    <2>2. new \in [where -> {PowerOn(i) : i \in Identity}]
      BY RecoveryAssumption DEF RecoveryAssumption
    <2> HIDE DEF new, where
    <2> QED
      BY <1>0, <2>1, <2>2, JoinedLine
  <1>7. ASSUME NEW i \in Slaves, NEW j \in Slaves, Swap(i, j)
        PROVE  /\ line' \in [Slaves -> Device] /\ cut' \in 1 .. N + 1 /\ UNCHANGED <<thread, lost>>
               /\ \A k \in Slaves : Befell(k)
    <2> DEFINE where == {i, j}
               new == [k \in where |-> PowerOn(line[i + j - k].id)]
    <2>1. Joined(new) /\ where \subseteq Slaves
      BY <1>7 DEF Swap
    <2>2. \A k \in where : i + j - k \in Slaves
      BY Numbers DEF Slaves
    <2>3. new \in [where -> {PowerOn(id) : id \in Identity}]
      BY <1>0, <2>2
    <2> HIDE DEF new, where
    <2> QED
      BY <1>0, <2>1, <2>3, JoinedLine
  <1>8. cut \in 1 .. N + 1
    BY <1>0 DEF Types
  <1> HIDE DEF IInv
  <1> QED
    BY <1>1, <1>2, <1>3, <1>4, <1>5, <1>6, <1>7, <1>8 DEF Environment

LEMMA EnvironmentStep == ASSUME IInv, Environment PROVE IInv'
  <1>1. /\ line' \in [Slaves -> Device] /\ cut' \in 1 .. N + 1
        /\ UNCHANGED <<list, pc, slave, unmapped, uncleared>>
    BY EnvironmentLine DEF thread, lost
  <1>2. \A k \in Slaves :
          /\ Sound(line'[k])
          /\ \/ line'[k].addr = 0
             \/ /\ line'[k].id = line[k].id /\ line'[k].addr = line[k].addr
                /\ line'[k].fmmu = line[k].fmmu
                /\ \/ line'[k].al = line[k].al
                   \/ line'[k].al = EC_STATE_SAFE_OP /\ line[k].al = EC_STATE_OPERATIONAL
    <2> TAKE k \in Slaves
    <2>1. Befell(k) /\ line[k] \in Device /\ Sound(line[k])
      BY EnvironmentLine DEF IInv, Types, Registers
    <2> QED
      BY <2>1, StarvedSound, PowerOnSound DEF Befell
  <1>3. Types' /\ Registers'
    BY <1>1, <1>2 DEF IInv, Types, Registers
  <1>4. ConfiguredAddresses' /\ Unaddressed'
    BY <1>1, <1>2 DEF IInv, Types, ConfiguredAddresses, Unaddressed, Node
  <1>5. InPosition'
    <2>1. 0 # EC_TEMPNODE
      BY DEF EC_TEMPNODE
    <2> QED
      BY <1>1, <1>2, <2>1 DEF IInv, InPosition, Node
  <1>6. Compared'
    <2>1. \A k \in Slaves : 0 # Node(k) /\ 0 # EC_TEMPNODE
      BY Numbers DEF EC_TEMPNODE
    <2> QED
      BY <1>1, <1>2, <2>1 DEF IInv, Compared, Node, Fits, AliasFits
  <1>7. Acknowledged' /\ Mapped'
    BY <1>1, <1>2, Numbers DEF IInv, Acknowledged, Mapped, Pending, Node
  <1> QED
    BY <1>3, <1>4, <1>5, <1>6, <1>7 DEF IInv

-----------------------------------------------------------------------------
LEMMA InitInv == Init => IInv
  <1> SUFFICES ASSUME Init PROVE IInv
    OBVIOUS
  <1> DEFINE d(s) == [PowerOn(Expected[s]) EXCEPT !.addr = Node(s), !.al = EC_STATE_OPERATIONAL,
                                                  !.sm = s, !.fmmu = s, !.pdi = TRUE]
  <1>1. \A s \in Slaves : line[s] = d(s)
    BY DEF Init
  <1>2. \A s \in Slaves : /\ line[s] \in Device /\ line[s].id = Expected[s] /\ line[s].addr = Node(s)
                         /\ line[s].al = EC_STATE_OPERATIONAL /\ line[s].sm = s /\ line[s].fmmu = s
    <2> TAKE s \in Slaves
    <2>1. Expected[s] \in Identity /\ s \in 0 .. N
      BY Numbers DEF Slaves
    <2> DEFINE p == PowerOn(Expected[s])
    <2>2. p \in Device /\ p.id = Expected[s]
      BY <2>1, PowerOnSound DEF PowerOn
    <2> HIDE DEF p
    <2> DEFINE q == [p EXCEPT !.addr = Node(s), !.al = EC_STATE_OPERATIONAL,
                              !.sm = s, !.fmmu = s, !.pdi = TRUE]
    <2>3. q \in Device /\ q.id = p.id /\ q.addr = Node(s) /\ q.al = EC_STATE_OPERATIONAL
          /\ q.sm = s /\ q.fmmu = s
      BY <2>1, <2>2 DEF Device, Addresses, States
    <2>4. line[s] = q
      BY <1>1 DEF p
    <2> HIDE DEF q
    <2> QED
      BY <2>2, <2>3, <2>4
  <1>3. line \in [Slaves -> Device]
    BY <1>2 DEF Init
  <1> HIDE DEF d
  <1>4. /\ cut = N + 1 /\ pc = "sleep" /\ slave = 1 /\ unmapped = {} /\ uncleared = FALSE
        /\ list \in [Slaves -> Entry] /\ \A s \in Slaves : list[s].configadr = Node(s)
    <2> DEFINE e(s) == [configadr |-> Node(s), state |-> EC_STATE_OPERATIONAL,
                        islost |-> FALSE, eep_pdi |-> TRUE]
    <2>1. \A s \in Slaves : e(s) \in Entry /\ e(s).configadr = Node(s)
      BY DEF Entry
    <2>2. list = [s \in Slaves |-> e(s)]
      BY DEF Init
    <2> HIDE DEF e
    <2>3. list \in [Slaves -> Entry] /\ \A s \in Slaves : list[s].configadr = Node(s)
      BY <2>1, <2>2
    <2> QED
      BY <2>3 DEF Init
  <1>5. cut \in 1 .. N + 1 /\ slave \in Slaves
    <2>1. N \in Nat /\ N >= 1
      BY Numbers
    <2> QED
      BY <1>4, <2>1 DEF Slaves
  <1>6. Types /\ ConfiguredAddresses /\ Unaddressed
    BY <1>3, <1>4, <1>5 DEF Types, Steps, ConfiguredAddresses, Unaddressed, Parking
  <1>7. Registers
    BY <1>2, Numbers DEF Registers, Sound
  <1>8. InPosition /\ Compared
    BY <1>2, <1>4, Numbers DEF InPosition, Compared, Fits, AliasFits, Parking
  <1>9. Acknowledged /\ Mapped
    BY <1>2, <1>4 DEF Acknowledged, Mapped, Pending
  <1> QED
    BY <1>6, <1>7, <1>8, <1>9 DEF IInv

LEMMA StutterStep == ASSUME IInv, UNCHANGED vars PROVE IInv'
  <1>1. UNCHANGED <<line, cut, list, pc, slave, unmapped, uncleared>>
    BY DEF vars, device, thread, lost
  <1>2. Types' /\ ConfiguredAddresses' /\ Registers' /\ Unaddressed'
    BY <1>1 DEF IInv, Types, ConfiguredAddresses, Registers, Unaddressed, Node
  <1>3. InPosition' /\ Compared'
    BY <1>1 DEF IInv, InPosition, Compared, Node, Fits, AliasFits
  <1>4. Acknowledged' /\ Mapped'
    BY <1>1 DEF IInv, Acknowledged, Mapped, Pending, Node
  <1> QED
    BY <1>2, <1>3, <1>4 DEF IInv

LEMMA MasterStep == ASSUME IInv, Master PROVE IInv'
  <1>1. CASE SlaveIsOp \/ StillLost
    BY <1>1, SlaveIsOpStep, StillLostStep
  <1>2. ASSUME NEW o \in Outcomes, ecatcheck(o) \/ ReadAll(o) \/ ReadEach(o) PROVE IInv'
    BY <1>2, ecatcheckStep, ReadAllStep, ReadEachStep
  <1>3. ASSUME NEW o \in Outcomes, Acknowledge(o) \/ ToOp(o) \/ Recheck(o) PROVE IInv'
    BY <1>3, AcknowledgeStep, ToOpStep, RecheckStep
  <1>4. ASSUME NEW o \in Outcomes,
               ToInit(o) \/ eeprom2pdi(o) \/ ProgramSms(o) \/ ToPreOp(o) \/ ToSafeOp(o)
                 \/ InSafeOp(o) \/ ProgramFmmus(o)
        PROVE  IInv'
    BY <1>4, ToInitStep, eeprom2pdiStep, ProgramSmsStep, ToPreOpStep, ToSafeOpStep, InSafeOpStep,
       ProgramFmmusStep
  <1>5. ASSUME NEW o \in Outcomes, InInit(o) \/ InPreOp(o) PROVE IInv'
    <2>1. CASE InInit(o)
      BY <2>1, StatecheckStep DEF InInit, Reconfiguring
    <2>2. CASE InPreOp(o)
      BY <2>2, StatecheckStep DEF InPreOp, Reconfiguring
    <2> QED
      BY <1>5, <2>1, <2>2
  <1>6. ASSUME NEW o \in Outcomes,
               FindSlave(o) \/ ClearTempNode(o) \/ SetTempNode(o) \/ Unpark(o) \/ eeprom2master(o)
                 \/ CheckAlias(o) \/ CheckIds(o) \/ Readdress(o) \/ Refuse(o)
        PROVE  IInv'
    BY <1>6, FindSlaveStep, ClearTempNodeStep, SetTempNodeStep, UnparkStep, eeprom2masterStep,
       CheckAliasStep, CheckIdsStep, ReaddressStep, RefuseStep
  <1> QED
    BY <1>1, <1>2, <1>3, <1>4, <1>5, <1>6 DEF Master

\* The invariant holds in every reachable state.
THEOREM Invariant == Spec => []IInv
  <1>1. IInv /\ [Next]_vars => IInv'
    BY MasterStep, EnvironmentStep, StutterStep DEF Next
  <1> QED
    BY InitInv, <1>1, PTL DEF Spec

\* No device gets the address of a slave that it cannot stand for, and no two
\* get one, however many events and losses there are (ecx_recover_slave).
THEOREM Placed == Spec => []NoForeignDevice
  <1>1. IInv => NoForeignDevice
    <2> SUFFICES ASSUME IInv PROVE NoForeignDevice
      OBVIOUS
    <2>1. RecoveryTypeOK
      BY DEF IInv, Types, RecoveryTypeOK, Device, Addresses, Entry, ConfiguredAddresses
    <2>2. ASSUME ~uncleared, NEW k \in Slaves, NEW s \in Slaves, line[k].addr = Node(s)
          PROVE  /\ line[k].id.eep = Expected[s].eep
                 /\ Expected[s].alias # 0 => line[k].id.alias = Expected[s].alias
                 /\ \A j \in Slaves \ {k} : line[j].addr # Node(s)
      BY <2>2, Numbers DEF IInv, InPosition, Compared, Fits, AliasFits
    <2> QED
      BY <2>1, <2>2 DEF NoForeignDevice
  <1> QED
    BY Invariant, <1>1, PTL

\* A device in OP has the sync managers and FMMUs of its slave, but for FMMUs
\* whose write has not reached it (ecx_reconfig_slave, ecatcheck).
THEOREM Configured == Spec => []OpIsConfigured
  <1>1. IInv => OpIsConfigured
    <2> SUFFICES ASSUME IInv, ~uncleared, NEW k \in Slaves, NEW s \in Slaves,
                        line[k].al = EC_STATE_OPERATIONAL, line[k].addr = Node(s)
                 PROVE  line[k].sm = s /\ (line[k].fmmu = s \/ s \in unmapped)
      BY DEF OpIsConfigured
    <2>1. k = s /\ line[k].sm = s
      BY Numbers DEF IInv, InPosition, Registers, Sound
    <2>2. line[s].fmmu = s \/ s \in unmapped
      BY <2>1 DEF IInv, Mapped
    <2> QED
      BY <2>1, <2>2
  <1> QED
    BY Invariant, <1>1, PTL
=============================================================================
