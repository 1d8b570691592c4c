-------------------------------- MODULE CiA402 --------------------------------
(***************************************************************************)
(* PdoCycleThread::run (SoemMaster.cpp): in every cycle one exchange of    *)
(* process data with slave 1, one step of the program's CiA402 sequence on *)
(* the status that came with it, and a sleep during which the drive works. *)
(*                                                                         *)
(* The words exchanged are named by what the masks of the code tell apart: *)
(* controlwords by the constant the code writes, statuswords by the drive  *)
(* state that ETH.cpp reads from them and bit 10, target reached.  The     *)
(* drive itself is external: the states of ETH.cpp, the transitions that   *)
(* the comments of run() name, a setpoint taken at the rising edge of bit  *)
(* 4, a fault reset at the rising edge of bit 7.                           *)
(***************************************************************************)
EXTENDS Integers

CONSTANTS
    ResetCycles,        \* 100: cycles after which a fault reset is given up
    MaxFaults,          \* bound: faults during the run
    MaxTarget,          \* bound: positions are 0 .. MaxTarget, a step is 1
    LossChoices         \* may exchanges be lost: a set of booleans

ASSUME CiA402Assumption ==
    ResetCycles \in Nat /\ MaxFaults \in Nat /\ MaxTarget \in Nat \ {0}
    /\ LossChoices \subseteq BOOLEAN

VARIABLES
    turn,               \* of one cycle: "exchange", "phase", "sleep"; "ended"
    m_phase, m_targetPos, m_newSetpoint, m_phaseDelay, m_running,
    rxpdo,              \* the outputs in the IOmap: controlword, targetPosition
    txpdo,              \* the inputs in the IOmap: status, reached, position
    drive,              \* the drive: state, position, goal, last words taken
    cause,              \* the cause of the drive's fault still exists
    faults,             \* faults so far
    lossy, lastLost     \* exchanges may be lost; the last one was

program == <<m_phase, m_targetPos, m_newSetpoint, m_phaseDelay>>
vars == <<turn, program, m_running, rxpdo, txpdo, drive, cause, faults, lossy, lastLost>>

Phases == {"FAULT_RESET", "SHUTDOWN", "SWITCH_ON", "ENABLE_OP", "RUNNING"}
\* 0x0000, 0x0080, 0x0006, 0x0007, 0x000F and 0x003F.
Controlwords == {"DisableVoltage", "FaultReset", "Shutdown", "SwitchOn", "EnableOp",
                 "NewSetpoint"}
DriveStates == {"NotReady", "SwitchOnDisabled", "ReadyToSwitchOn", "SwitchedOn",
                "OperationEnabled", "Fault"}

Init ==
    /\ turn = "exchange"
    /\ m_phase = "FAULT_RESET" /\ m_targetPos = 0 /\ m_newSetpoint = FALSE
    /\ m_phaseDelay = 0 /\ m_running = TRUE
    /\ rxpdo = [controlword |-> "DisableVoltage", target |-> 0]
    /\ txpdo = [status |-> "NotReady", reached |-> FALSE, position |-> 0]
    /\ drive \in [state : {"NotReady", "SwitchOnDisabled", "Fault"},
                  position : {0, 1}, goal : {0}, reached : BOOLEAN,
                  word : {"DisableVoltage"}, target : {0}, before : {"DisableVoltage"}]
    /\ cause \in BOOLEAN /\ (cause => drive.state = "Fault")
    /\ faults = 0
    /\ lossy \in LossChoices /\ lastLost = FALSE

-----------------------------------------------------------------------------
(* ec_send_processdata and ec_receive_processdata.  The work counter is    *)
(* reported to the window but not looked at.                               *)

Delivered == drive' = [drive EXCEPT !.before = drive.word,
                                    !.word = rxpdo.controlword,
                                    !.target = rxpdo.target]
Answered == txpdo' = [status |-> drive.state, reached |-> drive.reached,
                      position |-> drive.position]

\* A frame may be lost before the drive or behind it.
Transfer ==
    \/ Delivered /\ Answered /\ lastLost' = FALSE
    \/ lossy /\ Delivered /\ UNCHANGED txpdo /\ lastLost' = FALSE
    \/ lossy /\ UNCHANGED <<drive, txpdo>> /\ lastLost' = TRUE

\* The loop has been left: "停止时发送 Disable Voltage".
LastExchange ==
    /\ turn = "stopping"
    /\ Transfer
    /\ turn' = "ended"
    /\ UNCHANGED <<program, m_running, rxpdo, cause, faults, lossy>>

\* Mutant: the last frame carries the last word of the loop.
Exchange_KeepWord ==
    /\ turn = "exchange"
    /\ IF m_running
       THEN Transfer /\ turn' = "phase"
       ELSE turn' = "stopping" /\ UNCHANGED <<drive, txpdo, lastLost>>
    /\ UNCHANGED <<program, m_running, rxpdo, cause, faults, lossy>>

Exchange ==
    /\ turn = "exchange"
    /\ IF m_running
       THEN Transfer /\ turn' = "phase" /\ UNCHANGED rxpdo
       ELSE /\ turn' = "stopping"
            /\ rxpdo' = [rxpdo EXCEPT !.controlword = "DisableVoltage"]
            /\ UNCHANGED <<drive, txpdo, lastLost>>
    /\ UNCHANGED <<program, m_running, cause, faults, lossy>>

-----------------------------------------------------------------------------
(* The switch over m_phase.                                                *)

InPhase(p) ==
    /\ turn = "phase" /\ turn' = "sleep"
    /\ m_phase = p
    /\ UNCHANGED <<m_running, txpdo, drive, cause, faults, lossy, lastLost>>

Write(word) == rxpdo' = [rxpdo EXCEPT !.controlword = word]
WriteTarget(word, t) == rxpdo' = [controlword |-> word, target |-> t]
GoTo(p, seen) == IF seen THEN m_phase' = p /\ m_phaseDelay' = 0
                         ELSE UNCHANGED <<m_phase, m_phaseDelay>>

FaultResetPhase ==
    /\ InPhase("FAULT_RESET")
    /\ Write(IF txpdo.status = "Fault" THEN "FaultReset" ELSE "DisableVoltage")
    /\ IF m_phaseDelay + 1 > ResetCycles \/ txpdo.status # "Fault"
       THEN m_phase' = "SHUTDOWN" /\ m_phaseDelay' = 0
       ELSE m_phaseDelay' = m_phaseDelay + 1 /\ UNCHANGED m_phase
    /\ UNCHANGED <<m_targetPos, m_newSetpoint>>

\* Mutant: the target is not set to where the drive stands.
ShutdownPhase_KeepTarget ==
    /\ InPhase("SHUTDOWN")
    /\ Write("Shutdown")
    /\ GoTo("SWITCH_ON", txpdo.status = "ReadyToSwitchOn")
    /\ UNCHANGED <<m_targetPos, m_newSetpoint>>

ShutdownPhase ==
    /\ InPhase("SHUTDOWN")
    /\ Write("Shutdown")
    /\ GoTo("SWITCH_ON", txpdo.status = "ReadyToSwitchOn")
    /\ m_targetPos' = IF txpdo.status = "ReadyToSwitchOn" THEN txpdo.position
                      ELSE m_targetPos
    /\ UNCHANGED m_newSetpoint

SwitchOnPhase ==
    /\ InPhase("SWITCH_ON")
    /\ WriteTarget("SwitchOn", m_targetPos)
    /\ GoTo("ENABLE_OP", txpdo.status = "SwitchedOn")
    /\ UNCHANGED <<m_targetPos, m_newSetpoint>>

\* Mutant: bit 3 is missing.
EnableOpPhase_NoBit3 ==
    /\ InPhase("ENABLE_OP")
    /\ WriteTarget("SwitchOn", m_targetPos)
    /\ GoTo("RUNNING", txpdo.status = "OperationEnabled")
    /\ m_newSetpoint' = IF txpdo.status = "OperationEnabled" THEN FALSE
                        ELSE m_newSetpoint
    /\ UNCHANGED m_targetPos

EnableOpPhase ==
    /\ InPhase("ENABLE_OP")
    /\ WriteTarget("EnableOp", m_targetPos)
    /\ GoTo("RUNNING", txpdo.status = "OperationEnabled")
    /\ m_newSetpoint' = IF txpdo.status = "OperationEnabled" THEN FALSE
                        ELSE m_newSetpoint
    /\ UNCHANGED m_targetPos

\* m_posStep is 1 here; the bound stands for the range of an int32.
NewSetpoint ==
    /\ InPhase("RUNNING") /\ ~m_newSetpoint
    /\ m_targetPos < MaxTarget
    /\ m_targetPos' = m_targetPos + 1
    /\ WriteTarget("NewSetpoint", m_targetPos')
    /\ m_newSetpoint' = TRUE
    /\ UNCHANGED <<m_phase, m_phaseDelay>>

\* Mutant: bit 4 is cleared whether or not the target is reached.
HoldSetpoint_NoWait ==
    /\ InPhase("RUNNING") /\ m_newSetpoint
    /\ Write("EnableOp") /\ m_newSetpoint' = FALSE
    /\ UNCHANGED <<m_phase, m_phaseDelay, m_targetPos>>

\* Mutant: a fault is reset on the way.
HoldSetpoint_ResetFault ==
    /\ InPhase("RUNNING") /\ m_newSetpoint
    /\ IF txpdo.status = "Fault"
       THEN Write("FaultReset") /\ UNCHANGED m_newSetpoint
       ELSE IF txpdo.reached
       THEN Write("EnableOp") /\ m_newSetpoint' = FALSE
       ELSE Write("NewSetpoint") /\ UNCHANGED m_newSetpoint
    /\ UNCHANGED <<m_phase, m_phaseDelay, m_targetPos>>

HoldSetpoint ==
    /\ InPhase("RUNNING") /\ m_newSetpoint
    /\ IF txpdo.reached
       THEN Write("EnableOp") /\ m_newSetpoint' = FALSE
       ELSE Write("NewSetpoint") /\ UNCHANGED m_newSetpoint
    /\ UNCHANGED <<m_phase, m_phaseDelay, m_targetPos>>

Phase == \/ FaultResetPhase \/ ShutdownPhase \/ SwitchOnPhase \/ EnableOpPhase
         \/ NewSetpoint \/ HoldSetpoint

-----------------------------------------------------------------------------
(* The drive, during the sleep of the cycle.                               *)

Rises(word) == drive.word = word /\ drive.before # word

NextState ==
    IF drive.state = "Fault"
    THEN IF Rises("FaultReset") /\ ~cause THEN "SwitchOnDisabled" ELSE "Fault"
    ELSE IF drive.state = "NotReady" \/ drive.word \in {"DisableVoltage", "FaultReset"}
    THEN "SwitchOnDisabled"
    ELSE IF drive.word = "Shutdown" THEN "ReadyToSwitchOn"
    ELSE IF drive.state = "SwitchOnDisabled" THEN "SwitchOnDisabled"
    ELSE IF drive.word = "SwitchOn" \/ drive.state = "ReadyToSwitchOn" THEN "SwitchedOn"
    ELSE "OperationEnabled"

\* It takes a new setpoint and may move one step nearer to the goal.
DriveWorks ==
    /\ turn = "sleep" /\ turn' = "exchange"
    /\ LET enabled == drive.state = "OperationEnabled" /\ NextState = drive.state
           goal == IF enabled /\ Rises("NewSetpoint") THEN drive.target
                   ELSE IF enabled THEN drive.goal ELSE drive.position
       IN  \E p \in IF drive.position < goal THEN {drive.position, drive.position + 1}
                                             ELSE {drive.position} :
              drive' = [drive EXCEPT !.state = NextState, !.goal = goal,
                                     !.position = p, !.reached = IF enabled THEN p = goal ELSE @,
                                     !.before = drive.word]
    /\ UNCHANGED <<program, m_running, rxpdo, txpdo, cause, faults, lossy, lastLost>>

DriveFaults ==
    /\ turn # "ended" /\ faults < MaxFaults /\ drive.state # "Fault"
    /\ faults' = faults + 1
    /\ drive' = [drive EXCEPT !.state = "Fault"]
    /\ cause' \in BOOLEAN
    /\ UNCHANGED <<turn, program, m_running, rxpdo, txpdo, lossy, lastLost>>

CauseGone ==
    /\ cause /\ cause' = FALSE
    /\ UNCHANGED <<turn, program, m_running, rxpdo, txpdo, drive, faults, lossy, lastLost>>

\* The drive after the last frame.
DriveEnds ==
    /\ turn = "ended" /\ drive.word # drive.before
    /\ drive' = [drive EXCEPT !.state = NextState, !.before = drive.word]
    /\ UNCHANGED <<turn, program, m_running, rxpdo, txpdo, cause, faults, lossy, lastLost>>

\* stopCycle, from the window's thread.
stopCycle ==
    /\ m_running /\ m_running' = FALSE
    /\ UNCHANGED <<turn, program, rxpdo, txpdo, drive, cause, faults, lossy, lastLost>>

Next == \/ Exchange \/ LastExchange \/ Phase \/ stopCycle
        \/ DriveWorks \/ DriveFaults \/ CauseGone \/ DriveEnds

Spec == Init /\ [][Next]_vars

\* The thread keeps running, a cause does not last, and of exchanges without
\* end not all are lost.
Fairness ==
    /\ WF_vars(Exchange \/ Phase \/ DriveWorks)
    /\ WF_vars(CauseGone)
    /\ SF_vars(Exchange /\ Delivered /\ Answered)
FairSpec == Spec /\ Fairness

-----------------------------------------------------------------------------
(* Properties.                                                             *)

\* The phases, words and counters stay in range; the delay never passes the
\* limit of the fault reset.
TypeOK ==
    /\ turn \in {"exchange", "phase", "sleep", "stopping", "ended"}
    /\ m_phase \in Phases /\ m_targetPos \in 0 .. MaxTarget
    /\ m_newSetpoint \in BOOLEAN /\ m_running \in BOOLEAN
    /\ m_phaseDelay \in 0 .. ResetCycles
    /\ rxpdo \in [controlword : Controlwords, target : 0 .. MaxTarget]
    /\ txpdo \in [status : DriveStates, reached : BOOLEAN, position : 0 .. MaxTarget]
    /\ drive.state \in DriveStates /\ drive.position \in 0 .. MaxTarget
    /\ drive.goal \in 0 .. MaxTarget

\* When the sequence reaches RUNNING, the target it starts from is where the
\* drive stands: the first setpoint asks for one step, whatever was lost.
StartsWhereItStands ==
    [][m_phase' = "RUNNING" /\ m_phase # "RUNNING" => m_targetPos = drive.position]_vars

\* Without losses and faults the target runs at most two steps ahead of the drive, also
\* though the status that comes with a frame is older than the setpoint in it.
AtMostTwoAhead ==
    TypeOK /\
    (m_phase = "RUNNING" /\ ~lossy /\ faults = 0 => m_targetPos - drive.position <= 2)

\* A drive that fails once the sequence has switched it on stays off: nothing
\* resets it and makes it move again within the same run.
NoRestartAfterFault ==
    [][drive.state = "Fault" /\ m_phase \in {"SWITCH_ON", "ENABLE_OP", "RUNNING"}
          => drive'.state = "Fault"]_vars

\* The frame that ends the run switches the drive off when it arrives, from
\* whatever phase and whatever state.
StopSwitchesOff ==
    turn = "ended" /\ ~lastLost /\ drive.word = drive.before
        => drive.state \notin {"ReadyToSwitchOn", "SwitchedOn", "OperationEnabled"}

\* A drive that starts without a fault, or with one whose cause is gone when no
\* frame is lost, and that does not fail later, gets to Operation Enabled and
\* the sequence to RUNNING.
NoFaultYet == drive.state # "Fault" \/ (~lossy /\ ~cause)
Starts == NoFaultYet /\ [](faults = 0)
              => <>(~m_running \/ (m_phase = "RUNNING" /\ drive.state = "OperationEnabled"))
=============================================================================
