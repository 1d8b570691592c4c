# ETH_WIN in TLA+

Specifications, model-checking configurations and machine-checked proofs for
ETH_WIN, a Qt program that drives an EtherCAT servo drive from Windows. The
program is a window, an application and SOEM, the EtherCAT master stack that it
brings along (paths below are relative to `src/ETH/ETH/`; files of SOEM are
given by their names alone):

| layer | files | what it does |
|---|---|---|
| window | `ETH.cpp` | buttons Init, Scan, Start, Stop; polls errors and status |
| application | `src/SoemMaster.cpp`, `.h` | master life cycle, process data thread with the CiA402 sequence, check thread |
| SOEM | `src/SOEM/soem/*.c` | configuration, process data, slave states, mailbox and its protocols, EEPROM, clocks |
| driver | `src/SOEM/oshw/*/nicdrv.c`, `osal/*/osal.c` | frames in and out of one or two network adapters; time |
| tools | `src/SOEM/test/win32/*` | eepromtool, slaveinfo, simple_test, red_test |

Calls go down; the one call up is the hook for Ethernet frames of EoE. Three
threads exist: the window's, the process data thread (`PdoCycleThread`) and the
check thread (`ecatCheck`). They share one port (frame indices and receive
buffers), the IOmap, the slave list, and a handful of unguarded flags
(`m_running`, `m_checkRunning`, `m_operational`, `docheckstate`). The network
may lose, delay and reorder frames; slaves may refuse, be slow, be busy, send
unasked messages, lose power, change places or vanish.

## 1. Inventory

State, operations, interactions and what makes each component correct. Section 8
has what is not modelled.

**Frame driver** (`win32/nicdrv.c`, `ethercatbase.c`). State: `txbuf`/`rxbuf`,
the status of each buffer (`EMPTY, ALLOC, TX, RCVD, COMPLETE`), `lastidx`, two
mutexes. Operations: get an index, send, receive "whatever comes next" and store
it for its owner, confirm with resends, release. Used by everything else, from
every thread. Hard: `rxbufstat` is read and written outside of the mutexes;
whoever waits receives for the others; a frame may come after its owner gave up.
Correct if: no two owners of an index; answers reach their owner; calls end.

**Redundant port** (`win32/nicdrv.c:458-560`, `vxworks/nicdrv.c`). With two
adapters every frame is sent from both, one of them as an empty dummy; from
which port each came back the driver concludes whether the ring is broken, and
sends the request again through the other half. The VxWorks port receives by a
hook and a queue per index in place of polling. Correct if: the answer is that
of one pass over all slaves, whichever one link is broken, and never a dummy or
an older frame.

**Error list** (`ethercatmain.c:154-226`). A ring with head, tail and a polled
flag. Correct if: a bounded first-in first-out queue that drops its oldest.

**Process data layout** (`ethercatconfig.c:905-1485`). From the slaves' sizes and
sync managers come logical addresses, FMMUs, segments (frames), work counters
and pointers into the IOmap, either with the inputs behind the outputs or with
both at the same addresses; then all inputs pointers are moved behind the outputs.
Hard: bit arithmetic over mixed bit- and byte-oriented slaves; frame limits; sync
managers of length 0. Correct if: no overlap, no gap, every frame within its
limit, every pointer at its slave's data.

**Process data exchange** (`ethercatmain.c:1645-2000`). State: the stack of frame
indices between send and receive; the IOmap. Hard: several frames per cycle, any
of which can be lost; the clock datagram in the first one; outputs and inputs
sharing a segment. Correct if: each byte travels once; the work counter tells
complete cycles from others; receiving touches only inputs.

**Mailbox** (`ethercatmain.c:932-1105`) and its protocols: **CoE** (SDO, PDO,
object dictionary), **FoE**, **SoE**, **EoE**. State in the slave: two sync
managers of one message each, a repeat toggle. Hard: lost reads, repeat
requests, emergencies and mailbox errors between answers; segments and fragments
told apart by a toggle bit, a number or nothing; a second reassembly of Ethernet
frames inside the hook. Correct if: each answer is handed up at most once; a
transfer that reports success moved the object, file, value or frame whole,
within the caller's buffer; calls end.

**Slave states** (`ethercatmain.c:683-930`, `ethercatconfig.c:1488-1650`, the
check threads). State: `slavelist[].state` and `islost`, `docheckstate`; in the
devices their address, AL state, sync managers and FMMUs. Hard: devices are
powered down, moved and exchanged behind a cut while the recovery goes through
several exchanges that may be lost. Correct if: nobody is configured as another,
what is in OP has its configuration, and what is back on the cable gets to OP.

**EEPROM access** (`ethercatmain.c:1114-1637`). Registers of an interface that is
busy after each command and may fail it, owned by the master or the slave. Hard:
waits that end by their timer, retries. Correct if: an answer is the word asked
for, or none; calls end.

**SII, PDO mapping, start of the network** (`ethercatmain.c:334-681`,
`ethercatcoe.c:675-995`, `ethercatsoe.c:312-389`, `ethercatconfig.c:103-900`).
State: the slave list, one byte cache for all slaves. Slaves are counted,
addressed, identified, placed in a tree, compared with a table of known slaves
and with each other; their process data are found by CoE, SoE or SII. Hard: one
cache, copies between equal slaves, requests whose answers are collected in a
later loop, all of it again at the next scan. Correct if: what is kept of a
slave is what that slave says.

**Distributed clocks** (`ethercatdc.c`). Latched port times become parents,
delays and offsets; SYNC signals are started. Correct if: delays are the true
ones; signals of one cycle coincide.

**Drive sequence** (`SoemMaster.cpp:84-224`). Per cycle one exchange and one step
of a phase machine: fault reset, Shutdown, Switch On, Enable Operation, then a
setpoint handshake. Hard: the status is one exchange old; exchanges are lost;
drives fail at any moment. Correct if: motion starts where the drive stands,
runs a bounded distance ahead, never restarts after a fault, and stops.

**Application** (`SoemMaster.cpp`, `ETH.cpp`). Buttons, flags, threads, the
EtherCAT state of the slaves, the labels. Hard: a stop can overtake the start of
`run()`; a running thread may be deleted; states left over from an earlier run;
the window reads the drive's inputs from the IOmap, without a lock, while the loop
writes them. Correct if: the buttons fit the state, only the loop exchanges
process data while it is there, what is shown is no older than what was announced,
INIT comes after the loop has switched the drive off, and every stop returns.

**Operating system layer** (`osal/win32/osal.c`). Time of day, timers, sleep, in
32-bit integers. Correct if: timers expire when their time is over.

## 2. Modules

```
Master ............ window, process data thread, check thread, slave state
Display ........... EXTENDS Master: the inputs the window shows
  Master_proofs     of both
CiA402 ............ one run of the process data thread against a drive
  CiA402_proofs
ProcessData ....... EXTENDS IOmap, Frames                    (MCProcessData)
  ProcessData_proofs
Transfers ......... SDO, FoE, SoE, EoE, CoEInfo, each of
                    which EXTENDS Mailbox                     (MCTransfers)
  Transfers_proofs
Recovery .......... slave states and the check thread         (MCRecovery)
  Recovery_proofs
Eeprom ............ the EEPROM interface of one slave
  Eeprom_proofs
Config ............ EXTENDS Clocks > Startup > SlaveInfo
                    > PdoMap > Sii                            (MCConfig)
NicDrv ............ indices, buffers, mutexes, network        (MCNicDrv)
  NicDrv_proofs
MuxDrv ............ EXTENDS Redundancy                        (MCRedundancy)
ErrorRing ......... implements ErrorQueue                     (MCErrorRing)
Osal .............. time                                      (MCErrorRing)
Reports ........... the texts errors are told by              (MCErrorRing)
  Base_proofs       of MuxDrv, Reports, ErrorRing and Osal
```

How state and actions correspond to the code:

* **NicDrv.** `rxbufstat`, `lastidx`, `pc[t]` and the frames in flight. An action
  is one access to shared memory, and another thread can run between any two:
  each buffer looked at in the search for a free index (under `getindex_mutex`),
  allocating it, marking and sending, the unlocked look at the own buffer, taking
  `rx_mutex`, reading one frame and deciding whose it is, the second marking
  after the unlock, both timeouts, the release. `tag` numbers the requests so
  that a stale answer can be recognised by the properties (the code cannot).
* **Redundancy / MuxDrv.** A ring of slaves whose links break and are mended. A
  frame is the sequence of slaves it has passed; `txbuf`, `rxbuf`, `rxsa`, `wkc2`
  keep their names. `MuxDrv` adds the queues, the status that guards them and the
  hook of the VxWorks driver, and chooses at the start which driver runs.
* **ErrorRing / ErrorQueue.** `head`, `tail`, `Error`, `ecaterror`; push, pop,
  poll. `ErrorQueue` is the abstract specification, a sequence of bounded length;
  `Queue` in `ErrorRing` is its instance under the refinement mapping.
* **Reports.** Operators: which error class is looked up in which table, and what
  `ecx_elist2string` makes of it. A table is a sequence of codes with the number
  of its text; a text is told by its number, and its wording and length are left
  out.
* **Frames.** Operators: the layout of a transmit buffer as
  `ecx_setupdatagram` and `ecx_adddatagram` build it, and the frames of several
  datagrams (`ecx_FPRD_multi`, `ecx_LRWDC`, process data with the clock). The
  exchange of `ProcessData` takes the places of its data and counters from it.
* **Osal.** Operators: `timeval`s in integers of width LONG, taken apart, added
  and compared as the code does.
* **IOmap.** One action is one FMMU, or the end of one slave, of the two mapping
  functions: the loops over slaves, sync managers and segments are kept, with the
  running variables under their names (`LogAddr`, `BitPos`, `ByteCount`,
  `FMMUdone`, `segmentsize`, `currentsegment`). `at` holds the slaves' pointers as
  the FMMUs set them, `moved` the bytes by which the overlapping layout moves all
  inputs pointers at its end; `pointer` is the two together, as the application sees
  it, and says of a pointer that was never set that it counts from NULL. Sync
  managers may have length 0: in front of a gap they make an FMMU of length 0
  (`MapEmpty`), which the code counts for the outputs (`empty`) and not for the
  inputs.
* **ProcessData.** On top of every layout IOmap can produce: one action is one
  frame sent or one frame waited for. The image keeps, per byte, who wrote it in
  which cycle, and the memory behind it. The network gives each frame back with
  the marks of any set of slaves, or not at all.
* **Mailbox, SDO, FoE, SoE, EoE, CoEInfo, Transfers.** A transfer of the master
  is the record `job` and the place `pc`; the mailbox module owns sending,
  receiving with its repeat requests and the draining read at the start of a
  transfer, the protocol modules own what is asked next and what is made of an
  answer. The hook for Ethernet frames runs inside a read of any of them.
* **Recovery.** One action is one exchange of a datagram with the decision taken
  on its answer, from the broadcast of `ecx_readstate` to the last FMMU of
  `ecx_reconfig_slave`. `line` holds the devices in the order of the cable, `cut`
  the first that frames do not reach. The check thread is that of `simple_test`,
  which watches the work counter, and, with `Watched` FALSE, that of the
  application, which waits for `docheckstate`.
* **Eeprom.** One action is one datagram, or the last of a loop of them that
  waits; `cnt` and `nackcnt` count as in the code. Besides single words it has
  the loops over a whole EEPROM of `ecx_esidump` and of eepromtool.
* **Sii, PdoMap, SlaveInfo.** Operators: what the readers of the SII and of the
  mapping objects make of a device's contents. A reader takes the cache along and
  gives it back.
* **Startup, Clocks, Config.** One action is one loop over the slaves, or one turn
  of the long loops; `phase` is the place in `ecx_config_init`,
  `ecx_config_find_mappings` and `ecx_configdc`. `Config` runs them in a row, and
  again with other devices on the cable.
* **CiA402.** A cycle is exchange, phase, sleep, as in `run()`. Controlwords and
  statuswords are named by what the code's masks tell apart.
* **Master.** One action per handler, split where another thread or the slave can
  come between: `startOp` at the request for OP, the wait for it, and its end;
  `stopOp` at `wait(3000)`, the check thread's flag, and INIT.
* **Display.** Adds the inputs to each step of Master. The answers are numbered,
  and a field of the inputs is the number of the answer it is from. The loop copies
  the two fields in any order and then posts an update; `onPdoCycleUpdate` takes
  it from the queue of the window's thread and reads the fields one after the other,
  with any step of the loop between. The status and the position stand for any two
  pieces that one access does not move together.

Data are abstracted to what the properties tell apart: a byte of an object is a
chunk, an error is a model value, positions are small integers, and passwords,
texts and times are left out. Timers are actions that may happen, except in
`Osal` and `Clocks`, which are about arithmetic on times.

Definitions named `X_Something` that stand before `X` and are commented
"Mutant" are plausible faults of the code; no specification uses them. Each
property of a passing run is violated when one of them replaces `X`.

## 3. Runs

| run | asks | instance | bounds |
|---|---|---|---|
| `nicdrv` | `OneOwner`, `LeakIsReceived`, `StaleIsOld`: who owns an index and how old an answer can be | 2 threads, 3 buffers | 2 frames in flight, neighbours may swap, 4 calls of getindex: one more than the pool, so that the index comes round |
| `nicdrv_live` | `AnswerKept`, `PrimitiveEnds`: is an answer that came delivered, does every call end | 2 threads, 2 buffers | sends fail, frames in order |
| `redundancy` | `AnswerIsWhole`: is a redundant answer that of one pass over all slaves | 3 slaves, 9 requests that address one, some or all of them, both drivers | up to 2 links broken at the start, 2 changes, 2 lost and 2 late frames, 2 attempts, 1 failed send |
| `errorring` | `ImplementsQueue`: the ring refines the queue; `TextTells`: the text taken off is that of the oldest error reported; the operators of `Osal` on sampled times | ring of 3 + 1, 7 reports of 6 functions | codes that are in a table, that are not, and that share a text; every position of head and tail is met |
| `processdata` | `SegmentsRight`, `FmmusRight`: the layout; `EachByteOnce`, `WkcTells`, `InputsFresh`, `OnlyInputsChange`: the exchange over it, and the layout of the frames in it | up to 3 slaves laid out, 4 kinds of outputs and of inputs, two of them with a sync manager of length 0, up to 2 served; both layouts, with and without clock | frames of 6 bytes, table of 4, stack of 2, 2 cycles, any frame lost |
| `transfers` | `NoAnswerTwice`, `ObjectFits`, `FileIsWhole`, `IdnIsWhole`, `EthernetAgrees`, `DictionaryFits`, `TransferEnds` | 1 object, file, IDN, list, address | 2 transfers, 1 lost exchange, 1 emergency or mailbox error or unasked frame, a slave that may vanish |
| `transfers_busy` | **violated:** `BusyIsResent` | | 1 transfer, nothing lost |
| `recovery` | `NoForeignDevice`, `OpIsConfigured`, `Recovers` | 3 slaves, two of them told apart by alias only; 2 spare devices | 3 events, 2 lost exchanges, states read 2 to a frame |
| `eeprom` | `AnswersAreTrue`, `AccessEnds` | 2 words, 2 contents, one of which is "erased" | 2 calls, 2 lost datagrams, 3 failed commands, a slave that may vanish |
| `config` | `SiiIsOwn`, `MappingIsOwn`, `TreeIsRight`, `SignalsInPhase` | 7 kinds of devices, all pairs of them; all trees of up to 5 slaves, of up to 4 by either entry port; with the table; 6 slaves for the limit | 2 scans, 1 failed read |
| `cia402` | `StartsWhereItStands`, `AtMostTwoAhead`, `NoRestartAfterFault`, `StopSwitchesOff`, `Starts` | positions 0..5 | 2 cycles of reset, 1 fault, exchanges lost on either way |
| `master` (of `Display`) | `OneExchanger`, `AbortOnlyWhenEarly`, `ShownIsNew`, `DisabledBeforeInit`, `StopReturns` | 1 slave, 2 fields | 3 starts, 1 drop, a wait of 2 cycles, 3 answers (`MaxHeard`), 2 updates in the queue (`MaxUpdates`) |

A module's type invariant is a part of one of its invariants, or is proved
(`NicDrv`, `ErrorRing`). The state graph of
every run is finite and explored completely. Deadlock is checked in `errorring`,
where a step is always possible. The others stop by design: the bounded number of
calls is used up, the mapping is done, the run has ended, the window is closed.

Why the bounds are enough. A hazard of the driver needs two threads and one
reuse of an index, so `MaxAlloc` is one more than the pool. A layout fault lies
at a boundary between two slaves, two segments or the two directions: three
slaves have all of these. Data of three chunks make a first, a middle and a last
segment or packet; two chunks make exactly one full packet, which needs the empty
one after it. Two transfers let one meet what the other left. In the life cycle
a second start meets what the first left, and a third what a failed second left.
Of the inputs three answers are enough: one that is announced, one that is copied
while the window reads, and one after that.
With three events a cable is cut, put back with its devices exchanged, and cut
again in the middle of the recovery. Three failed commands are what the EEPROM's
loop gives up after. A wrong parent needs a branch inside a branch: five slaves.

Conditions in the properties. Several properties hold only under a condition
that is written in their statement and not in the model, so the model still has
those behaviours: `OneOwner` until a search has found no free buffer or a send
has failed; the layout properties until the table of segments is full; `WkcTells`
and `InputsFresh` unless the clock's frame was lost, `WkcTells` with each FMMU
in one frame; `ObjectFits` and the other transfers when the mailbox was clean
after the draining read, some of them when no call failed or no repeat was asked
for, as their comments say; `NoForeignDevice` and `OpIsConfigured` unless a
write whose answer nobody looks at was lost; `Recovers` for slaves whose device
stays in its place while another one keeps its address; `AnswersAreTrue` unless
a command was given up, a wait ended without an answer (both are the ghost
`blind`), or a command of the split read failed (`FailureUnseen`), each of which
lets an old answer pass; `DataInOnePiece`, a part of `FmmusRight`, says of a slave
without data only that its pointer was never set, for the overlapping layout moves
it all the same; `FmmuWithinSms`, another part, is for slaves with one or two sync
managers that hold all of their data, the first of them not empty when the slave is
bit oriented; `WkcTells` takes two off for each counted FMMU of length 0;
`OneExchanger` is about writers of the image, `ShownIsNew` about its reader; `SiiIsOwn` and
`MappingIsOwn` for slaves no read of which failed; the delays of `TreeIsRight`
where the slaves at which the line branches have clocks; `AnswerIsWhole` in its
first part for one broken link that stays broken and no loss;
`EachByteOnce` for slaves that fit into a frame and a
stack that holds all frames; `AtMostTwoAhead` without losses and faults; `StopSwitchesOff` when the last
frame arrives.

## 4. Disagreements, and behaviour to know of

`transfers_busy` is violated: the answer BUSY to a packet (`ethercatfoe.c:306`)
takes the packet back, as its comment says, but ends the loop, and the write
returns a positive work counter.

The models contain, and the conditions above except:

* *Mapping.* For an FMMU of length 0 `ecx_config_create_output_mappings` adds one to
  `outputsWKC` (`ethercatconfig.c:1135`), the inputs' function does not (`:997`). The
  expected work counter is then 2 too high, and no cycle reaches it. The overlapping
  layout adds `Obytes` to the inputs pointers of all slaves (`ethercatconfig.c:1460`), so
  that of a slave without inputs is neither NULL nor in the IOmap, against its comment
  (`ethercatmain.h:138`) and the test in `getTxPDO` (`SoemMaster.cpp:454`). The program
  itself uses the other layout.
* *Window.* `onCycleData` (`SoemMaster.cpp:441`) drops the snapshot that `run()` sends and
  `onPdoCycleUpdate` (`ETH.cpp:97`) reads the IOmap while the loop writes it, so a label
  may show the status of one answer with the position of the next, or of the one
  before. `ShownIsNew` says how far apart they can be.
* *Process data.* When the frame with the clock datagram is lost, `first` stays
  TRUE (`ethercatmain.c:1935`) and the next frame's answer is read with the first
  one's layout: bytes that are no process data land in the image. With the
  overlapping layout and separate LRD and LWR the LRD asks for the addresses
  behind the outputs; with LRW and more outputs than inputs the answer is copied
  beyond the size the mapping returned. A second mapping without a scan keeps the
  pointers of the first and starts behind its FMMUs, without a look at their
  number (`ethercatconfig.c:915`); that one is not in the model. `ByteCount` is never reset, so a third sync
  manager behind a gap is mapped too long.
* *Driver.* The pool hands out a busy index when all are busy (`nicdrv.c:220`); a
  failed send frees the index its caller goes on to wait for (`nicdrv.c:273`);
  answers are matched by index only.
* *Redundancy.* Any frame at the second port passes for the answer to the request
  sent again; when that answer is lost a part of the work counter is returned as
  success. A frame of the second port lost on a closed ring ends the primitive
  with 0 at once, although the comment on `ecx_srconfirm` says that it retries.
  Requests by position count other slaves from the other side. On VxWorks
  an answer that comes in between the two sends is lost, by the hook
  (`vxworks/nicdrv.c:624`) or by the second send, which empties the queue of the
  first port (`:435`), and the primitive returns 0 without a retry; a frame left
  in the queue of the second port would be taken for the answer (the initial
  states leave it out).
* *Mailbox.* The counter of messages is never compared. An emergency is requested
  again and again until the timer ends the read (`ethercatmain.c:1097`). In
  `ecx_SDOread` a segment without an answer leaves `NotLast` TRUE
  (`ethercatcoe.c:213`): with the slave gone the read never ends. `ecx_SDOwrite`
  and `ecx_SoEwrite` may report success after segments that did not arrive. A
  repeat that comes after its read was given up is copied once more.
  `ecx_FOEwrite` of zero bytes returns without a packet.
* *Slave states.* After a power cycle of all slaves together the broadcast of
  `ecx_readstate` finds all in INIT (`ethercatmain.c:769`), none is taken for
  lost, and none comes back. A lost FMMU write leaves a slave in OP without its
  map. `docheckstate` is never set, so the application's check thread recovers
  nothing.
* *EEPROM.* A wait without an answer counts as not busy (`ethercatmain.c:1259`),
  a command without one as given when `wkc` is -1 (`:1472`). The split
  read never looks at the error of the command (`:1627`), as `ecx_readeepromFP` does
  (`:1478`), and returns what an earlier one left in the data register; the scan of
  the network reads all slaves this way. A failed read is cached as zeros.
* *Start.* A lost request leaves the answer of the one before, which is taken for
  the next item. A slave whose mapping could not be read takes that of an equal
  one, read by CoE or not, despite the comment above `ecx_lookup_mapping`; when
  only one of its objects could not be read, the partial sum is taken. `ecx_readIDNmap` sets
  `*Osize = 16` in the loop over drives (`ethercatsoe.c:332`), which drops the
  outputs of the drives before. `map_sm` does not enable SM0 and SM1, so a simple
  input slave of the table keeps its SM1 off. slaveinfo lists nothing for sync
  managers without a type and for SoE.
* *Clocks.* The arms of a branch at a slave without a clock cannot be told apart
  by the latched times: 27 of 988 networks of four slaves get a wrong delay.
* *Application.* `stopOp` leaves the slaves in INIT (`SoemMaster.cpp:420`), the
  window enables Start, and `startOp` never takes them to PRE_OP: the second
  start fails until the next scan. RUNNING ignores faults.

Met while modelling and outside of the models: `ecx_dcsync01` divides by the
first cycle before it compares it with 0 (`ethercatdc.c:103`); in `ecx_configdc`
`ht` keeps the last time when a read is lost (`:304`); a walk over categories with
corrupt lengths wraps its 16-bit address; a read of 8 bytes at the end of
`esibuf`, and the last turn of `ecx_esidump`, write behind their buffers; `m_targetPos` overflows after
about 2 * 10^8 setpoints; VxWorks deletes its queues before it unbinds the hook;
`estring` holds 127 characters, but the text of an SDO error with the longest
description is longer; the table of SoE errors has 0x800A three times, so two of
its texts are never said; `ecx_LRWDC` gives its clock datagram the size of a
pointer, so a 32-bit build asks for 4 bytes and copies 8.

## 5. Fairness

* `nicdrv_live`: weak fairness of each thread's operation and of its two
  timers. Threads are never suspended for good, and `osal_timer_is_expired`
  becomes true with time whatever the network does.
* `transfers`: the master's thread runs on; a slave that is there serves its
  mailboxes; timers expire, by strong fairness, since between two looks at a
  timer the master does other steps in which expiry is not enabled.
* `eeprom`: the master runs on, timers likewise, and an interface that is there
  finishes its command, well or not. Lost datagrams are not fair; the bounds end
  them.
* `recovery`: weak fairness of the check thread only, an endless loop. What
  happens to the devices and which exchanges are lost is nobody's duty.
* `cia402`: weak fairness of the cycle, for `run()` is a loop without a blocking
  call, and of the cause of a fault going away, which only `Starts` uses; strong
  fairness of an exchange that is delivered both ways: losses are no permanent
  state of the cable.
* `master`: the threads run, a handler goes on once begun, a posted update is
  handled, a cycle that was begun ends, the slave follows a request. Nobody has to
  press a button.

## 6. Proofs

`tlapm` checks every theorem for all values of the constants.

* **NicDrv_proofs.** `TypeCorrect`, `IndexExclusive` (`OneOwner`) and
  `LeaksAreReceived` (`LeakIsReceived`), for any number of threads and buffers,
  from `NicAssumption`. The inductive invariant `IndInv` adds to `OneOwner` what
  the search relies on: a thread in `ecx_getindex` is alone there (`SearchInv`),
  an owned buffer is not `EMPTY`, and the buffer a search has settled on belongs
  to nobody (`OwnedInv`). Without the last part the step that gives an index out
  could give out one that was taken between the look at it and the allocation.
  `StaleAnswersAreOld` (`StaleIsOld`) is about the past, which the state does not
  hold: `PastInv` says that there are two functions, the index each request got
  (`A`) and the indices other threads owned at that moment (`H`), such that every
  index a search passed since request `n` was handed out since, is in `H[n]`, or
  has leaked (`Excused`). When a search comes back to an index it has passed the
  whole array, and counting the excuses gives the bound (`Counted`).
  `AnswersAreKept` (`AnswerKept`) assumes `ReorderDepth = 1`, as the run does:
  with frames that overtake each other an older answer can replace a newer one.
  `OrderInv` says that index by index the frames on the wire, and the one a thread
  has in hand, are in the order of the requests, and that none is older than what
  the owner's buffer holds of its own request.
* **Base_proofs, of ErrorRing and Reports.** `TypeCorrect` and
  `RingImplementsQueue`, for any size of ring and any set of errors, from
  `RingAssumption`. Lemmas say what a push, a push on a full ring, a pop and a
  pop of the empty ring do to the mapped sequence; each step of the ring then
  maps to the same step of `ErrorQueue`. `ReportsImplementQueue` says the same of
  the ring as the six functions that report and `ecx_elist2string` use it.
  `TextTheorem` (`TextTells`) is for any reports whose numbers have the widths of
  the parameters (`CallsAssumption`). Its invariant `TextInv` relates the ring to
  the history of the reports: what is pending is, entry by entry, what the
  reports still told of put there (`Meant`), also when a report displaces the
  oldest, and the last text is the one of the report it was taken from. That this
  text describes it is a lemma for each of the six functions (`ReportTells`).
* **Base_proofs, of MuxDrv and Redundancy.** `AnswerTheorem` (`AnswerIsWhole`),
  for any number of slaves, of attempts, of changes to the links and of lost, late
  and failed frames, with either driver. The invariant `IInv` has two halves. The
  one holds whatever happens: every frame at a port is one of three kinds, the
  request after it has passed a first and a last part of the ring, the dummy, or
  the abandoned frame the sender throws away (`OnWire`, `Buffers`); all the slaves
  it has passed that the request addresses have done their part (`Honest`); and
  the counter kept is that of the frame in the buffer (`Inbox`). A count equal to
  the number of addressed slaves then means each of them (`FullCount`, from the
  injections of finite sets: a frame passes no slave twice). `Room` and `Quiet` say
  how many frames can be under way, and that with none late the dummy is not
  among them after it was waited for. The other half, `Course`, is the exchange
  nothing disturbs: for each place in the code, which frame is where and which
  slaves have done the work, as a function of the broken links.
* **Base_proofs, of Osal.** The time stamped on an entry, and the timers:
  `ClockTheorem`, `TimerTheorem` and `DiffTheorem`, for any width of `long` that holds two seconds, from `OsalAssumption`: the clock's `timeval`
  is right although the product `tv_sec * 1000000` no longer fits a `long` after
  36 minutes, a timer is expired exactly from its moment on, and the difference
  of two times is right. The product and the difference are taken modulo the
  width; the true microseconds lie below a million, and two numbers that agree
  modulo the width and both lie in its range are equal (`Period`, `NoMultiple`).
  An overflow is undefined in C; the proof is for the wrap-around that the
  compilers of Windows produce.
* **Master_proofs.** `TypeCorrect`, `ButtonsAgree` (`ButtonsFit`, which no run
  lists), `OneThreadExchanges` (`OneExchanger`), `AbortsEarly`, `SwitchedOff` for any number of starts and drops, any slave and any length of
  the wait (at least one cycle), from `MasterAssumption`. One inductive invariant,
  of four parts: `Buttons` (the properties hold between two handlers; inside one
  it must be known that "stop" is still enabled while the master stops and is not
  while it starts), `Thread` (the loop's thread exists from the end of `startOp`
  to the end of the wait), `Word` (outside of the loop the last word was Disable
  Voltage) and `Wait` (a stop that found the loop running has cleared its flag
  for good, so the wait does not run out). `DisplayIsMaster` says that every step
  of `Display` is a step of `Master` or leaves it alone. `LabelIsNew`
  (`ShownIsNew`), for any number of answers and of updates in the queue, has
  `LabelInv`: what is still to be copied is one answer old and the rest current
  (`Copying`), and neither an update in the queue nor what is shown is newer than
  any field of the image (`Behind`).
* **ProcessData_proofs.** The layout and the exchange, for every network of
  slaves, every mix of lengths and sync managers, every size of frame that
  `ProcessDataAssumption` allows, every depth of the stack and any number of
  cycles; all six properties of the run. The sums (of sync managers, segments,
  work counters) are the community modules' `MapThenSumSet`; the first lemmas
  show its recursion exists and take a sum apart term by term, by an induction
  over sets of numbers that needs no operator as a parameter.
  `MapInv` is the invariant of the mapping. `Loop` says how far a slave's sync
  managers are used up, empty ones included, `Placed` that each FMMU lies behind those before it (in
  the overlapping layout: before the end of its slave), `Whole` that what is
  mapped of a slave is in one piece behind its pointer (that an empty FMMU may have
  set, then at the cursor), `Moves` how far the inputs have been moved, `Segmented` that the
  closed segments and the open one add up to the cursor, `Fits` and `Extent` that
  only what the slave at hand has can lie beyond the last boundary, `InOne` that
  a byte oriented slave stays within a segment. `FmmusAreRight` and
  `SegmentsAreRight` follow, and `LayoutIsRight` says the same of the mapping by
  itself.
  `PdInv` adds the frames of a cycle. `Position` says where each of the three
  loops is in the table of segments, `FramesRight` on which side of the image a
  frame lies, `Ordered` that two frames of a loop are divided by the end of a
  segment, `Carries` that what the loops are done with is in a frame; so each
  byte is in exactly one (`BytesAreOnce`, for slaves that fit into a frame;
  without that hypothesis a frame does not fit either). `Clock` says which frame
  is taken for the clock's: the first, until it is lost. `OutputsKept` and the
  place of each frame give `ImageOnlyInputsChange`, `Fresh` gives
  `InputsAreFresh`, and `Tally` gives `WorkCounterTells`: while a cycle is
  received the counter is the value of the FMMUs neither missed nor pending, and
  at its end what is not missed is all that start up counted, less the FMMUs of
  length 0 (`Counted`).
* **CiA402_proofs.** `TargetIsNear` (`AtMostTwoAhead`), `StopIsOff`
  (`StopSwitchesOff`), `StartsInPlace` and `FaultStays`, for any number of faults
  and any range of positions. The invariant follows the words on their way: a
  drive acts on a word one exchange after it was chosen, and its status is one
  exchange old when it is read. `Resets` and `Disables` say which words can still
  be on their way in which phase, `Stands` that nothing moves before RUNNING,
  `Enables` that the drive is enabled only by a word of ENABLE_OP. `Fresh` and
  `Runs` are for the distance: without losses and faults the status read is the
  drive's own, and goal, target and handshake bit are in one of two positions.
* **Recovery_proofs.** `Placed` (`NoForeignDevice`) and `Configured`
  (`OpIsConfigured`), for any number of slaves, spare devices, events and lost
  datagrams. `InPosition`: as long as the clearing write has reached all, a node
  address stays at its position, and only the device in the slave's position is
  parked. `Compared`: whoever has a slave's address has passed the comparisons
  for that slave. `Registers`, `Acknowledged` and `Mapped`: sync managers and
  FMMUs come before the states that need them, and an acknowledge, which asks
  for SAFE_OP, brings nobody there without them.
* **Eeprom_proofs.** `TrueAnswers` (`AnswersAreTrue`, with its three exceptions),
  for any memory, any number of calls, losses and failures. `Faithful` follows the command: what is under
  way in the interface is the call's own, what it has done is the call's result,
  and a copied word stays true because no write of an earlier call is left in the
  interface.
* **Transfers_proofs.** For every plan of transfers of all five protocols and any
  number of losses, notices and queued answers. `AnswersOnce` (`NoAnswerTwice`)
  is about the repeat toggle: the message in SM1 is what was put there last
  (`LastIsThere`), request and acknowledge differ only while the master waits for
  the acknowledge (`InStep`), and from the first look at an answer to the end of
  its repeats, what the slave would send again is new to the master
  (`AnswerIsNew`). `WholeFiles` (`FileIsWhole`) needs both sides: `FInv` adds that
  over a clean mailbox at most one answer of the file server is in flight, in the
  queue, in SM1 or about to be repeated (`Single`), that the parts of the file
  held on the two sides, with the packet in flight, make up the whole (`Serving`,
  `Storing`), and that a transfer in which a call failed does not succeed
  (`Failing`).
  `WholeObjects` (`ObjectFits`) is harder, because an answer to an object's
  request may come twice, and the one that belongs to an earlier request with it.
  So the invariant `SInv` says of every answer on its way, in the order in which
  the answers will be read, what it means to who reads it: the initiation, the
  segments with their toggle bits, and those that are only repeats of what is read
  already. A repeated request finds the server's state moved on; the repeat of a
  segment with the wrong toggle is refused, and that refusal stays on its way
  behind the answers that were there first.
  `WholeDictionary` (`DictionaryFits`) has `InfoInv`. A description and the
  entries of an item are one request and one answer after the other
  (`Exchange`): at most one of the two is under way, and an answer that
  arrives over a clean mailbox is the one to the request the master sent last. The list
  comes in parts that one request brings, so what is under way is a piece of the
  list in order (`Brings`): the parts up to `base` are read, those up to `last`
  are with the mailbox, the rest is with the slave (`SeriesTo`), until a lost
  exchange or a repeat disturbs it (`Smooth`). A list in which a call failed is
  not reported as read (`FailsOnce`); of one with a repeat nothing is claimed. A
  PDO lies in SM0 until the slave takes it (`Pushing`).
  `WholeIdn` (`IdnIsWhole`) has `IdnInv`. A value that is read comes like a list,
  and the buffer holds what the fragments up to `base` bring (`IdnArrives`). A
  value that is written is cut the other way round: as long as nothing is lost,
  what the slave has, the fragment in hand or in SM0 and what is left to send make
  up the value (`Parted`), and a result is in the line to the master only when the
  slave has stored all of it. A slave may refuse a fragment while others follow,
  and the loop may send these before it reads the refusal; the server then takes
  them for a value of their own and may answer the last one with success. So
  `Course` has a third way, `Refused`: an error lies before any such result, and
  the loop ends with it.

The proofs corrected the models. The ghosts of `Recovery` spoke of fewer writes
than can be lost beyond the bounds of the run; two cases of the drive's states
in `CiA402` overlapped; the type of a return value in `Eeprom` was too narrow, and
one conjunct of `AnswersAreTrue` said nothing. The assumption of `IOmap` did not
say that a slave's sync managers are a list of finite length, and `FmmuWithinSms`
did not see that a bit oriented slave whose first sync manager is empty still gets
its FMMU there. Four properties of
the transfers were true in the run and false beyond its bounds. `ObjectFits`
spoke of transfers with two lost exchanges and a failed call, in which an
object may arrive in part. `IdnIsWhole` did not see that a write of several
fragments leaves its loop through the draining read (ethercatsoe.c:254) with
its own request still in the slave's mailbox. `ListIsWhole` has to name the
number of parts, and `ReceivedWhole` the four bits of the frame number. The plan
`Series` of the run contains such cases.

Only model-checked:

* liveness: fairness and ENABLED are out of the prover's reach;
* what is computed by RECURSIVE operators, which take the SMT solver out of a
  module: all of `Config` (`Sii`, `SlaveInfo` and `Clocks`);
* `EthernetAgrees`, which needs an invariant of its own as `FileIsWhole`,
  `ObjectFits`, `DictionaryFits` and `IdnIsWhole` have.

## 7. External parts

Modelled from how the code uses them: the network (frames come back marked,
late, swapped or never; the links of a ring), the slave's mailbox and its servers
for each protocol, the drive (CiA402 states, setpoint at the rising edge of bit
4, reset at the rising edge of bit 7), the EtherCAT state machine of a slave
(follows, refuses, drops out), the EEPROM interface, the contents of SII and
objects, and the port times of a slave's clock.

## 8. Not modelled, and the plan

Left, most important first:

1. Proofs: `EthernetAgrees`.
2. Mapping by group and a second mapping without a scan (`IOmap`), lost datagrams
   in `Clocks`, several SoE drives in a slave, devices that appear or vanish during
   a scan (`Startup`), two threads on the redundant port, a frame left in the queue
   of VxWorks' second port, the work counter on the label (`Display`).
3. The firmware tool, a straight sequence of operations that are modelled each.

Not worth a model or out of reach: adapter lists and texts; opening and closing
adapters (calls to Windows and VxWorks); the drivers of Linux, macOS, RTEMS,
rt-kernel, INtime and Erika, which repeat the ones modelled with other names for
the same mutexes and sockets; drivers of single chips; vendored headers;
`EthDevice.cpp`, which is commented out. The application opens one port, reads
no configuration table and starts no SYNC signals; these are modelled as
operations of the stack. Real time is not modelled: cycle times and the drive's
watchdog appear as choices only.
