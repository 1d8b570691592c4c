-------------------------------- MODULE Master --------------------------------
(***************************************************************************)
(* The life of the program: the window's buttons (ETH.cpp), the master's   *)
(* init, scanSlaves, startOp, stopOp and close (SoemMaster.cpp), the       *)
(* thread that exchanges process data and the one that checks the slaves,  *)
(* with one slave and its EtherCAT state.                                  *)
(*                                                                         *)
(* A handler of the window runs in the window's thread and is split where  *)
(* another thread or the slave can come in between.  What the process data *)
(* thread writes to the drive is modelled in CiA402, how it exchanges it   *)
(* in ProcessData.                                                         *)
(***************************************************************************)
EXTENDS Integers

CONSTANTS
    SlaveMayFail,   \* may the slave refuse a state, be slow or be unplugged
    MaxStarts,      \* bound: presses of the start button
    MaxDrops,       \* bound: times the slave leaves OPERATIONAL by itself
    WaitCycles      \* cycles of the loop that wait(3000) outlasts

ASSUME MasterAssumption ==
    /\ SlaveMayFail \in BOOLEAN
    /\ MaxStarts \in Nat /\ MaxDrops \in Nat /\ WaitCycles \in Nat \ {0}

VARIABLES
    ui,             \* the buttons that are enabled
    gui,            \* where the window's thread is
    closing,        \* stopOp is called from close
    m_initialized, m_operational, m_checkRunning,
    slavecount,     \* ec_slavecount, at most 1 here
    FMMUunused,     \* ec_slave[1].FMMUunused
    docheckstate,   \* ec_group[0].docheckstate
    pdo,            \* m_pdoThread: "none", "created", "loop", "finished"
    m_running,      \* its flag
    sent,           \* is the controlword last sent other than Disable Voltage
    waited,         \* cycles of the loop since the wait began
    checkThreads,   \* check threads that have not returned
    slave, asked,   \* the slave's state, and whether it is asked for OP
    starts, drops,  \* presses of the start button, drops of the slave
    early           \* stopCycle was called before run() had begun

master == <<m_initialized, m_operational, m_checkRunning>>
bus == <<slavecount, FMMUunused, docheckstate>>
thread == <<pdo, m_running, sent, waited>>
ghosts == <<starts, drops, early>>
vars == <<ui, gui, closing, master, bus, thread, checkThreads, slave, asked, ghosts>>

SlaveStates == {"INIT", "PRE_OP", "SAFE_OP", "OPERATIONAL", "SAFE_OP+ERROR"}

Init ==
    /\ ui = {"init"}
    /\ gui = "idle" /\ closing = FALSE
    /\ m_initialized = FALSE /\ m_operational = FALSE /\ m_checkRunning = FALSE
    /\ slavecount = 0 /\ FMMUunused = 0 /\ docheckstate = FALSE
    /\ pdo = "none" /\ m_running = FALSE /\ sent = FALSE /\ waited = 0
    /\ checkThreads = 0
    /\ slave = "INIT" /\ asked = FALSE
    /\ starts = 0 /\ drops = 0 /\ early = FALSE

-----------------------------------------------------------------------------
(* The window's thread.                                                    *)

Press(button) == gui = "idle" /\ button \in ui

onBtnInit ==
    /\ Press("init")
    /\ m_initialized' = TRUE            \* or ec_init fails and nothing changes
    /\ ui' = (ui \ {"init"}) \cup {"scan"}
    /\ UNCHANGED <<gui, closing, m_operational, m_checkRunning, bus, thread,
                   checkThreads, slave, asked, ghosts>>

\* ec_config_init forgets the slaves, then takes those it finds to PRE_OP.
onBtnScan ==
    /\ Press("scan")
    /\ FMMUunused' = 0 /\ asked' = FALSE
    /\ \/ /\ slavecount' = 1 /\ slave' = "PRE_OP"
          /\ ui' = ui \cup {"start"}
       \/ /\ SlaveMayFail
          /\ slavecount' = 0 /\ slave' = "INIT" /\ UNCHANGED ui
    /\ docheckstate' = FALSE
    /\ UNCHANGED <<gui, closing, master, thread, checkThreads, ghosts>>

\* Where a slave is after ec_config_map has asked it for SAFE_OP.
AfterMap == IF slave \in {"INIT", "SAFE_OP+ERROR"} THEN {slave}
            ELSE IF slave = "PRE_OP" /\ SlaveMayFail THEN {"PRE_OP", "SAFE_OP"}
            ELSE {"SAFE_OP"}

\* startOp up to the check for SAFE_OP.  The mapping takes an FMMU for the
\* outputs and one for the inputs, from the first that is unused.
onBtnStartOp ==
    /\ Press("start") /\ starts < MaxStarts
    /\ starts' = starts + 1
    /\ IF ~m_initialized \/ m_operational \/ slavecount = 0
       THEN UNCHANGED <<gui, bus, slave, asked>>
       ELSE /\ slave' \in AfterMap /\ asked' = FALSE
            /\ FMMUunused' \in IF slave = "PRE_OP" THEN {FMMUunused + 2}
                               ELSE {FMMUunused, FMMUunused + 2}
            /\ gui' = IF slave' = "SAFE_OP" THEN "requestOp" ELSE "idle"
            /\ UNCHANGED <<slavecount, docheckstate>>
    /\ UNCHANGED <<ui, closing, master, thread, checkThreads, drops, early>>

\* Mutant: the loop's thread is started while OP is waited for.
RequestOp_WithLoop ==
    /\ gui = "requestOp" /\ gui' = "waitOp"
    /\ asked' = TRUE
    /\ pdo' = "created" /\ m_running' = FALSE
    /\ UNCHANGED <<ui, closing, master, bus, sent, waited, checkThreads, slave, ghosts>>

RequestOp ==
    /\ gui = "requestOp" /\ gui' = "waitOp"
    /\ asked' = TRUE
    /\ UNCHANGED <<ui, closing, master, bus, thread, checkThreads, slave, ghosts>>

OpReached ==
    /\ gui = "waitOp" /\ slave = "OPERATIONAL" /\ gui' = "idle"
    /\ m_operational' = TRUE
    /\ m_checkRunning' = TRUE /\ checkThreads' = checkThreads + 1
    /\ pdo' = "created" /\ m_running' = FALSE
    /\ ui' = (ui \ {"start", "scan"}) \cup {"stop"}
    /\ UNCHANGED <<closing, m_initialized, bus, sent, waited, slave, asked, ghosts>>

\* 200 times 50 ms have passed.
OpTimeout ==
    /\ gui = "waitOp" /\ slave # "OPERATIONAL" /\ SlaveMayFail /\ gui' = "idle"
    /\ UNCHANGED <<ui, closing, master, bus, thread, checkThreads, slave, asked, ghosts>>

\* Mutant: the loop is left to end by itself.
stopOp_NoStopCycle ==
    /\ gui' = IF pdo = "none" THEN "endCheck" ELSE "wait"
    /\ waited' = 0
    /\ early' = (pdo = "created")
    /\ UNCHANGED m_running

\* stopCycle, and the wait for the thread.
stopOp ==
    /\ IF pdo = "none"
       THEN gui' = "endCheck" /\ UNCHANGED m_running
       ELSE gui' = "wait" /\ m_running' = FALSE
    /\ waited' = 0
    /\ early' = (pdo = "created")

onBtnStopOp ==
    /\ Press("stop") /\ stopOp
    /\ UNCHANGED <<ui, closing, master, bus, pdo, sent, checkThreads, slave, asked,
                   starts, drops>>

\* The window is closed: close, which calls stopOp first.
close ==
    /\ gui = "idle" /\ stopOp /\ closing' = TRUE
    /\ UNCHANGED <<ui, master, bus, pdo, sent, checkThreads, slave, asked,
                   starts, drops>>

WaitDone ==
    /\ gui = "wait" /\ pdo = "finished"
    /\ pdo' = "none" /\ gui' = "endCheck"
    /\ UNCHANGED <<ui, closing, master, bus, m_running, sent, waited, checkThreads,
                   slave, asked, ghosts>>

\* Mutant: wait() without a limit.
WaitExpires_NoLimit ==
    /\ gui = "wait" /\ pdo # "finished" /\ waited > WaitCycles
    /\ gui' = "aborted"
    /\ UNCHANGED <<ui, closing, master, bus, thread, checkThreads, slave, asked, ghosts>>

\* wait(3000) has returned FALSE, which nobody looks at: the QThread is
\* deleted while it runs, and Qt ends the program.
WaitExpires ==
    /\ gui = "wait" /\ pdo # "finished" /\ waited >= WaitCycles
    /\ gui' = "aborted"
    /\ UNCHANGED <<ui, closing, master, bus, thread, checkThreads, slave, asked, ghosts>>

EndCheck ==
    /\ gui = "endCheck" /\ gui' = "sleep"
    /\ m_checkRunning' = FALSE
    /\ UNCHANGED <<ui, closing, m_initialized, m_operational, bus, thread,
                   checkThreads, slave, asked, ghosts>>

\* After the 20 ms: INIT for all slaves, if they were operational; then the
\* rest of onBtnStopOp, or ec_close.
StopEnds ==
    /\ gui = "sleep"
    /\ IF m_operational
       THEN /\ slave' \in IF SlaveMayFail THEN {"INIT", slave} ELSE {"INIT"}
            /\ asked' = FALSE /\ m_operational' = FALSE
       ELSE UNCHANGED <<slave, asked, m_operational>>
    /\ IF closing
       THEN gui' = "closed" /\ m_initialized' = FALSE /\ UNCHANGED ui
       ELSE /\ gui' = "idle" /\ UNCHANGED m_initialized
            /\ ui' = (ui \ {"stop"}) \cup {"start", "scan"}
    /\ UNCHANGED <<closing, m_checkRunning, bus, thread, checkThreads, ghosts>>

-----------------------------------------------------------------------------
(* PdoCycleThread::run.                                                    *)

RunBegins ==
    /\ pdo = "created" /\ gui # "aborted"
    /\ pdo' = "loop" /\ m_running' = TRUE
    /\ UNCHANGED <<ui, gui, closing, master, bus, sent, waited, checkThreads, slave,
                   asked, ghosts>>

\* waited counts up to its limit only.
Cycle ==
    /\ pdo = "loop" /\ m_running /\ gui # "aborted"
    /\ sent' \in BOOLEAN
    /\ waited' = IF gui = "wait" /\ waited < WaitCycles THEN waited + 1 ELSE waited
    /\ UNCHANGED <<ui, gui, closing, master, bus, pdo, m_running, checkThreads, slave,
                   asked, ghosts>>

\* Mutant: no Disable Voltage at the end.
LoopEnds_Silent ==
    /\ pdo = "loop" /\ ~m_running
    /\ pdo' = "finished"
    /\ UNCHANGED <<ui, gui, closing, master, bus, m_running, sent, waited, checkThreads,
                   slave, asked, ghosts>>

LoopEnds ==
    /\ pdo = "loop" /\ ~m_running
    /\ sent' = FALSE /\ pdo' = "finished"
    /\ UNCHANGED <<ui, gui, closing, master, bus, m_running, waited, checkThreads,
                   slave, asked, ghosts>>

-----------------------------------------------------------------------------
(* ecatCheck.                                                              *)

CheckLoop ==
    /\ checkThreads > 0 /\ m_checkRunning /\ gui # "aborted"
    /\ IF m_operational /\ docheckstate
       THEN /\ docheckstate' = FALSE
            /\ slave' = IF slave = "SAFE_OP+ERROR" THEN "SAFE_OP" ELSE slave
            /\ asked' = (asked \/ slave = "SAFE_OP")
       ELSE UNCHANGED <<docheckstate, slave, asked>>
    /\ UNCHANGED <<ui, gui, closing, master, slavecount, FMMUunused, thread,
                   checkThreads, ghosts>>

CheckEnds ==
    /\ checkThreads > 0 /\ ~m_checkRunning
    /\ checkThreads' = checkThreads - 1
    /\ UNCHANGED <<ui, gui, closing, master, bus, thread, slave, asked, ghosts>>

-----------------------------------------------------------------------------
(* The slave.                                                              *)

SlaveObeys ==
    /\ asked /\ slave = "SAFE_OP" /\ asked' = FALSE
    /\ slave' \in IF SlaveMayFail THEN {"OPERATIONAL", "SAFE_OP+ERROR"} ELSE {"OPERATIONAL"}
    /\ UNCHANGED <<ui, gui, closing, master, bus, thread, checkThreads, ghosts>>

\* For instance when the watchdog of its outputs expires.
SlaveDrops ==
    /\ slave = "OPERATIONAL" /\ m_operational /\ drops < MaxDrops
    /\ drops' = drops + 1 /\ slave' = "SAFE_OP+ERROR"
    /\ UNCHANGED <<ui, gui, closing, master, bus, thread, checkThreads, asked,
                   starts, early>>

-----------------------------------------------------------------------------
Window == \/ onBtnInit \/ onBtnScan \/ onBtnStartOp \/ RequestOp \/ OpReached
          \/ OpTimeout \/ onBtnStopOp \/ close \/ WaitDone \/ WaitExpires
          \/ EndCheck \/ StopEnds
PdoThread == RunBegins \/ Cycle \/ LoopEnds
CheckThread == CheckLoop \/ CheckEnds

Next == Window \/ PdoThread \/ CheckThread \/ SlaveObeys \/ SlaveDrops

Spec == Init /\ [][Next]_vars

\* The threads run, the handlers go on once begun, the slave follows a
\* request.  Nobody has to press a button.
Fairness ==
    /\ WF_vars(RequestOp \/ OpReached \/ OpTimeout)
    /\ WF_vars(WaitDone \/ WaitExpires \/ EndCheck \/ StopEnds)
    /\ WF_vars(RunBegins \/ LoopEnds) /\ WF_vars(Cycle)
    /\ WF_vars(CheckLoop) /\ WF_vars(CheckEnds)
    /\ WF_vars(SlaveObeys)
FairSpec == Spec /\ Fairness

-----------------------------------------------------------------------------
(* Properties.                                                             *)

Flags ==
    /\ m_initialized \in BOOLEAN /\ m_operational \in BOOLEAN
    /\ m_checkRunning \in BOOLEAN /\ m_running \in BOOLEAN
    /\ sent \in BOOLEAN /\ closing \in BOOLEAN /\ asked \in BOOLEAN
    /\ docheckstate \in BOOLEAN /\ early \in BOOLEAN

\* The window's thread is in one of its handlers' places, the loop's thread
\* is one that can be stopped and deleted, the slave in a state it can have.
TypeOK ==
    /\ Flags
    /\ ui \subseteq {"init", "scan", "start", "stop"}
    /\ gui \in {"idle", "requestOp", "waitOp", "wait", "endCheck", "sleep",
                "closed", "aborted"}
    /\ pdo \in {"none", "created", "loop", "finished"}
    /\ slave \in SlaveStates /\ slavecount \in 0 .. 1
    /\ FMMUunused \in Nat /\ checkThreads \in Nat
    /\ waited \in 0 .. WaitCycles
    /\ starts \in 0 .. MaxStarts /\ drops \in 0 .. MaxDrops

\* The window offers stop exactly while the slaves are operational and the
\* loop's thread exists, and start or scan never then.
ButtonsFit ==
    gui = "idle" =>
        /\ "stop" \in ui <=> m_operational
        /\ "stop" \in ui <=> pdo # "none"
        /\ "stop" \in ui => ui \cap {"start", "scan"} = {}
        /\ ui \cap {"start", "scan", "stop"} # {} => m_initialized

\* The loop's thread is the only one that exchanges process data while it
\* exists: the window's thread is not in startOp, which maps the slaves and
\* exchanges once itself, so the index stack has one user and the IOmap one
\* writer, and the port is open.  The window's thread still reads the IOmap
\* (Display).
OneExchanger ==
    pdo # "none" => m_initialized /\ m_operational /\ gui \notin {"requestOp", "waitOp", "closed"}

\* The slaves are sent to INIT only when the loop has ended and the drive
\* was told to switch off by the last frame.
DisabledBeforeInit ==
    [][m_operational /\ ~m_operational' => pdo = "none" /\ ~sent]_vars

\* A running thread is deleted only when stop came before run() had begun.
AbortOnlyWhenEarly == gui = "aborted" => early

\* A stop, or a close, comes to its end.
StopReturns ==
    gui \in {"wait", "endCheck", "sleep"} ~> gui \in {"idle", "closed", "aborted"}
=============================================================================
