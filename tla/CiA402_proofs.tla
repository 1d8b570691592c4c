---------------------------- MODULE CiA402_proofs ----------------------------
(***************************************************************************)
(* The safety properties of CiA402 for any length of the fault reset, any  *)
(* number of faults and any range of positions, with and without losses:   *)
(* one inductive invariant for them all.                                   *)
(***************************************************************************)
EXTENDS CiA402, TLAPS

\* The thread is in its loop.
InLoop == turn \in {"exchange", "phase", "sleep"}
\* The states of a drive without power, and the words that lead there.
Low == {"NotReady", "SwitchOnDisabled", "Fault"}
Disabling == {"DisableVoltage", "FaultReset"}
Enabling == {"EnableOp", "NewSetpoint"}

Types ==
    /\ TypeOK
    /\ drive \in [state : DriveStates, position : 0 .. MaxTarget, goal : 0 .. MaxTarget,
                  reached : BOOLEAN, word : Controlwords, target : 0 .. MaxTarget,
                  before : Controlwords]
    /\ faults \in Nat

\* A fault reset is on its way only before the drive has been switched on.
NoReset == rxpdo.controlword # "FaultReset" /\ drive.word # "FaultReset"
Resets ==
    /\ m_phase = "FAULT_RESET" => /\ {rxpdo.controlword, drive.word} \subseteq Disabling
                                  /\ {drive.state, txpdo.status} \subseteq Low
    /\ m_phase = "SHUTDOWN" =>
         \/ NoReset
         \/ drive.word # "Shutdown" /\ {drive.state, txpdo.status} \subseteq Low
    /\ m_phase \in {"SWITCH_ON", "ENABLE_OP", "RUNNING"} => NoReset

\* Disable Voltage is sent to a drive without power, or as the last word.
Disables ==
    /\ InLoop /\ rxpdo.controlword = "DisableVoltage" =>
         drive.word \in Disabling /\ drive.state \in Low
    /\ turn # "ended" /\ drive.word = "DisableVoltage" => drive.state \in Low
    /\ ~InLoop => rxpdo.controlword = "DisableVoltage"
    /\ turn = "ended" /\ ~lastLost =>
         /\ drive.word = "DisableVoltage"
         /\ drive.before = "DisableVoltage" => drive.state \in Low

\* Until RUNNING nothing makes the drive move, and what it last said of its
\* position is still true.
Stands ==
    /\ m_phase # "RUNNING" =>
         /\ rxpdo.controlword # "NewSetpoint" /\ drive.word # "NewSetpoint"
         /\ drive.goal <= drive.position
         /\ txpdo.status # "NotReady" => txpdo.position = drive.position
    /\ m_phase \in {"SWITCH_ON", "ENABLE_OP"} => m_targetPos = drive.position

\* The drive is enabled by a word of ENABLE_OP, with its goal where it stands.
Enables ==
    /\ m_phase \in {"FAULT_RESET", "SHUTDOWN", "SWITCH_ON"} =>
         /\ {rxpdo.controlword, drive.word} \cap Enabling = {}
         /\ drive.state # "OperationEnabled" /\ txpdo.status # "OperationEnabled"
    /\ m_phase = "ENABLE_OP" =>
         /\ InLoop /\ drive.word = "EnableOp" => rxpdo.controlword = "EnableOp"
         /\ InLoop /\ "OperationEnabled" \in {drive.state, txpdo.status}
              => drive.word = "EnableOp"
         /\ InLoop /\ drive.state = "OperationEnabled" => drive.goal = drive.position

\* Nothing was lost and the drive has not failed.
Smooth == ~lossy /\ faults = 0
Fresh == turn = "phase" /\ Smooth =>
    txpdo.status = drive.state /\ txpdo.reached = drive.reached

\* Bit 4 is clear: the drive has the last setpoint, or takes it in this cycle.
Idle ==
    /\ rxpdo.controlword = "EnableOp"
    /\ m_targetPos - drive.position <= 1
    /\ turn \in {"exchange", "phase"} => drive.goal = m_targetPos
    /\ turn = "phase" => drive.word = "EnableOp"
    /\ turn = "sleep" =>
         /\ drive.word = "NewSetpoint" => drive.target = m_targetPos
         /\ \/ drive.goal = m_targetPos
            \/ drive.word = "NewSetpoint" /\ drive.before # "NewSetpoint"
    /\ drive.reached /\ ~(turn = "sleep" /\ drive.word = "EnableOp")
         => drive.position = drive.goal

\* Bit 4 is set: the setpoint is on its way, arrives, or is the goal.
Asking ==
    /\ rxpdo = [controlword |-> "NewSetpoint", target |-> m_targetPos]
    /\ m_targetPos - drive.position <= 2
    /\ drive.reached => drive.position = drive.goal
    /\ \/ /\ drive.word = "EnableOp" /\ turn # "phase"
          /\ drive.goal = m_targetPos - 1
       \/ /\ drive.word = "NewSetpoint" /\ drive.target = m_targetPos
          /\ \/ drive.goal = m_targetPos
             \/ /\ turn # "exchange" /\ drive.before # "NewSetpoint"
                /\ drive.goal = m_targetPos - 1

Runs ==
    m_phase = "RUNNING" /\ Smooth =>
        /\ m_targetPos - drive.position <= 2
        /\ InLoop => /\ drive.state = "OperationEnabled"
                     /\ drive.word \in Enabling
                     /\ IF m_newSetpoint THEN Asking ELSE Idle

IInv == Types /\ Resets /\ Disables /\ Stands /\ Enables /\ Fresh /\ Runs

-----------------------------------------------------------------------------
(* The initial states satisfy the invariant.                               *)
LEMMA InitInv == Init => IInv
  <1> SUFFICES ASSUME Init PROVE IInv
    OBVIOUS
  <1> USE CiA402Assumption DEF CiA402Assumption, Init
  <1>1. m_newSetpoint \in BOOLEAN /\ m_running \in BOOLEAN
    BY Zenon
  <1>2. drive \in [state : DriveStates, position : 0 .. MaxTarget, goal : 0 .. MaxTarget,
                  reached : BOOLEAN, word : Controlwords, target : 0 .. MaxTarget,
                  before : Controlwords]
    BY DEF Controlwords, DriveStates
  <1>3. rxpdo \in [controlword : Controlwords, target : 0 .. MaxTarget]
    BY DEF Controlwords
  <1>4. txpdo \in [status : DriveStates, reached : BOOLEAN, position : 0 .. MaxTarget]
    BY DEF DriveStates
  <1>5. m_phaseDelay \in 0 .. ResetCycles /\ m_targetPos \in 0 .. MaxTarget
    OBVIOUS
  <1>6. drive.state \in DriveStates /\ drive.position \in 0 .. MaxTarget
     /\ drive.goal \in 0 .. MaxTarget
    BY <1>2
  <1>7. turn \in {"exchange", "phase", "sleep", "stopping", "ended"} /\ m_phase \in Phases /\ faults \in Nat
    BY DEF Phases
  <1>8. Types
    BY <1>1, <1>2, <1>3, <1>4, <1>5, <1>6, <1>7, Zenon DEF Types, TypeOK
  <1>9. Resets /\ Disables
    BY DEF Resets, Disables, InLoop, Low, Disabling
  <1>10. Stands /\ Enables
    BY DEF Stands, Enables, InLoop, Enabling
  <1>11. Fresh /\ Runs
    BY DEF Fresh, Runs
  <1> QED
    BY <1>8, <1>9, <1>10, <1>11 DEF IInv

-----------------------------------------------------------------------------
(* The program's phases: they leave the drive and its answer alone.        *)

LEMMA FaultResetPhaseStep == IInv /\ FaultResetPhase => IInv'
  <1> SUFFICES ASSUME IInv, FaultResetPhase PROVE IInv'
    OBVIOUS
  <1> USE CiA402Assumption DEF CiA402Assumption, IInv, Types, TypeOK, InPhase, Write, WriteTarget, GoTo, FaultResetPhase
  <1>1. Types'
    <2>1. (turn \in {"exchange", "phase", "sleep", "stopping", "ended"} /\ m_phase \in Phases)'
      BY DEF Phases
    <2>2. (m_newSetpoint \in BOOLEAN /\ m_running \in BOOLEAN)'
      BY Zenon
    <2>3. (m_targetPos \in 0 .. MaxTarget /\ m_phaseDelay \in 0 .. ResetCycles)'
      OBVIOUS
    <2>4. (rxpdo \in [controlword : Controlwords, target : 0 .. MaxTarget])'
      BY <2>3 DEF Controlwords
    <2> QED
      BY <2>1, <2>2, <2>3, <2>4, Zenon
  <1>2. Resets'
    BY DEF Resets, NoReset, Low, Disabling, Stands, Enables
  <1>3. Disables'
    BY DEF Disables, InLoop, Low, Disabling, Resets, Enables
  <1>4. Stands'
    BY DEF Stands, Resets, Low
  <1>5. Enables'
    BY DEF Enables, InLoop, Enabling, Stands, Resets, Low
  <1>6. Fresh' /\ Runs'
    BY DEF Fresh, Runs, InLoop, Smooth, Enables, Stands, Idle, Asking, Enabling
  <1> QED
    BY <1>1, <1>2, <1>3, <1>4, <1>5, <1>6

LEMMA ShutdownPhaseStep == IInv /\ ShutdownPhase => IInv'
  <1> SUFFICES ASSUME IInv, ShutdownPhase PROVE IInv'
    OBVIOUS
  <1> USE CiA402Assumption DEF CiA402Assumption, IInv, Types, TypeOK, InPhase, Write, WriteTarget, GoTo, ShutdownPhase
  <1>1. Types'
    <2>1. (turn \in {"exchange", "phase", "sleep", "stopping", "ended"} /\ m_phase \in Phases)'
      BY DEF Phases
    <2>2. (m_newSetpoint \in BOOLEAN /\ m_running \in BOOLEAN)'
      BY Zenon
    <2>3. (m_targetPos \in 0 .. MaxTarget /\ m_phaseDelay \in 0 .. ResetCycles)'
      OBVIOUS
    <2>4. (rxpdo \in [controlword : Controlwords, target : 0 .. MaxTarget])'
      BY <2>3 DEF Controlwords
    <2> QED
      BY <2>1, <2>2, <2>3, <2>4, Zenon
  <1>2. Resets'
    BY DEF Resets, NoReset, Low, Disabling, Stands, Enables
  <1>3. Disables'
    BY DEF Disables, InLoop, Low, Disabling, Resets, Enables
  <1>4. Stands'
    BY DEF Stands, Resets, Low
  <1>5. Enables'
    BY DEF Enables, InLoop, Enabling, Stands, Resets, Low
  <1>6. Fresh' /\ Runs'
    BY DEF Fresh, Runs, InLoop, Smooth, Enables, Stands, Idle, Asking, Enabling
  <1> QED
    BY <1>1, <1>2, <1>3, <1>4, <1>5, <1>6

LEMMA SwitchOnPhaseStep == IInv /\ SwitchOnPhase => IInv'
  <1> SUFFICES ASSUME IInv, SwitchOnPhase PROVE IInv'
    OBVIOUS
  <1> USE CiA402Assumption DEF CiA402Assumption, IInv, Types, TypeOK, InPhase, Write, WriteTarget, GoTo, SwitchOnPhase
  <1>1. Types'
    <2>1. (turn \in {"exchange", "phase", "sleep", "stopping", "ended"} /\ m_phase \in Phases)'
      BY DEF Phases
    <2>2. (m_newSetpoint \in BOOLEAN /\ m_running \in BOOLEAN)'
      BY Zenon
    <2>3. (m_targetPos \in 0 .. MaxTarget /\ m_phaseDelay \in 0 .. ResetCycles)'
      OBVIOUS
    <2>4. (rxpdo \in [controlword : Controlwords, target : 0 .. MaxTarget])'
      BY <2>3 DEF Controlwords
    <2> QED
      BY <2>1, <2>2, <2>3, <2>4, Zenon
  <1>2. Resets'
    BY DEF Resets, NoReset, Low, Disabling, Stands, Enables
  <1>3. Disables'
    BY DEF Disables, InLoop, Low, Disabling, Resets, Enables
  <1>4. Stands'
    BY DEF Stands, Resets, Low
  <1>5. Enables'
    BY DEF Enables, InLoop, Enabling, Stands, Resets, Low
  <1>6. Fresh' /\ Runs'
    BY DEF Fresh, Runs, InLoop, Smooth, Enables, Stands, Idle, Asking, Enabling
  <1> QED
    BY <1>1, <1>2, <1>3, <1>4, <1>5, <1>6

LEMMA EnableOpPhaseStep == IInv /\ EnableOpPhase => IInv'
  <1> SUFFICES ASSUME IInv, EnableOpPhase PROVE IInv'
    OBVIOUS
  <1> USE CiA402Assumption DEF CiA402Assumption, IInv, Types, TypeOK, InPhase, Write, WriteTarget, GoTo, EnableOpPhase
  <1>1. Types'
    <2>1. (turn \in {"exchange", "phase", "sleep", "stopping", "ended"} /\ m_phase \in Phases)'
      BY DEF Phases
    <2>2. (m_newSetpoint \in BOOLEAN /\ m_running \in BOOLEAN)'
      BY Zenon
    <2>3. (m_targetPos \in 0 .. MaxTarget /\ m_phaseDelay \in 0 .. ResetCycles)'
      OBVIOUS
    <2>4. (rxpdo \in [controlword : Controlwords, target : 0 .. MaxTarget])'
      BY <2>3 DEF Controlwords
    <2> QED
      BY <2>1, <2>2, <2>3, <2>4, Zenon
  <1>2. Resets'
    BY DEF Resets, NoReset, Low, Disabling, Stands, Enables
  <1>3. Disables'
    BY DEF Disables, InLoop, Low, Disabling, Resets, Enables
  <1>4. Stands'
    BY DEF Stands, Resets, Low
  <1>5. Enables'
    BY DEF Enables, InLoop, Enabling, Stands, Resets, Low
  <1>6. Fresh' /\ Runs'
    BY DEF Fresh, Runs, InLoop, Smooth, Enables, Stands, Idle, Asking, Enabling
  <1> QED
    BY <1>1, <1>2, <1>3, <1>4, <1>5, <1>6

LEMMA NewSetpointStep == IInv /\ NewSetpoint => IInv'
  <1> SUFFICES ASSUME IInv, NewSetpoint PROVE IInv'
    OBVIOUS
  <1> USE CiA402Assumption DEF CiA402Assumption, IInv, Types, TypeOK, InPhase, Write, WriteTarget, GoTo, NewSetpoint
  <1>1. Types'
    <2>1. (turn \in {"exchange", "phase", "sleep", "stopping", "ended"} /\ m_phase \in Phases)'
      BY DEF Phases
    <2>2. (m_newSetpoint \in BOOLEAN /\ m_running \in BOOLEAN)'
      BY Zenon
    <2>3. (m_targetPos \in 0 .. MaxTarget /\ m_phaseDelay \in 0 .. ResetCycles)'
      OBVIOUS
    <2>4. (rxpdo \in [controlword : Controlwords, target : 0 .. MaxTarget])'
      BY <2>3 DEF Controlwords
    <2> QED
      BY <2>1, <2>2, <2>3, <2>4, Zenon
  <1>2. Resets'
    BY DEF Resets, NoReset, Low, Disabling, Stands, Enables
  <1>3. Disables'
    BY DEF Disables, InLoop, Low, Disabling, Resets, Enables
  <1>4. Stands'
    BY DEF Stands, Resets, Low
  <1>5. Enables'
    BY DEF Enables, InLoop, Enabling, Stands, Resets, Low
  <1>6. Fresh' /\ Runs'
    BY DEF Fresh, Runs, InLoop, Smooth, Enables, Stands, Idle, Asking, Enabling
  <1> QED
    BY <1>1, <1>2, <1>3, <1>4, <1>5, <1>6

LEMMA HoldSetpointStep == IInv /\ HoldSetpoint => IInv'
  <1> SUFFICES ASSUME IInv, HoldSetpoint PROVE IInv'
    OBVIOUS
  <1> USE CiA402Assumption DEF CiA402Assumption, IInv, Types, TypeOK, InPhase, Write, WriteTarget, GoTo, HoldSetpoint
  <1>1. Types'
    <2>1. (turn \in {"exchange", "phase", "sleep", "stopping", "ended"} /\ m_phase \in Phases)'
      BY DEF Phases
    <2>2. (m_newSetpoint \in BOOLEAN /\ m_running \in BOOLEAN)'
      BY Zenon
    <2>3. (m_targetPos \in 0 .. MaxTarget /\ m_phaseDelay \in 0 .. ResetCycles)'
      OBVIOUS
    <2>4. (rxpdo \in [controlword : Controlwords, target : 0 .. MaxTarget])'
      BY <2>3 DEF Controlwords
    <2> QED
      BY <2>1, <2>2, <2>3, <2>4, Zenon
  <1>2. Resets'
    BY DEF Resets, NoReset, Low, Disabling, Stands, Enables
  <1>3. Disables'
    BY DEF Disables, InLoop, Low, Disabling, Resets, Enables
  <1>4. Stands'
    BY DEF Stands, Resets, Low
  <1>5. Enables'
    BY DEF Enables, InLoop, Enabling, Stands, Resets, Low
  <1>6. Fresh' /\ Runs'
    <2>1. Fresh'
      BY DEF Fresh
    <2>2. m_phase = "RUNNING" /\ m_newSetpoint /\ turn = "phase" /\ turn' = "sleep" /\ m_phase' = m_phase
          /\ UNCHANGED <<drive, lossy, faults, m_targetPos>>
      OBVIOUS
    <2>3. ASSUME Smooth PROVE Asking /\ drive.state = "OperationEnabled" /\ drive.word \in Enabling
                              /\ (txpdo.reached => drive.reached)
      BY <2>2, <2>3 DEF Runs, InLoop, Fresh
    <2>4. ASSUME Smooth, txpdo.reached
          PROVE  m_newSetpoint' = FALSE /\ Idle'
      <3>1. rxpdo'.controlword = "EnableOp" /\ m_newSetpoint' = FALSE
        BY <2>4
      <3>2. drive.word = "NewSetpoint" /\ drive.target = m_targetPos
            /\ \/ drive.goal = m_targetPos
               \/ drive.goal = m_targetPos - 1 /\ drive.before # "NewSetpoint"
        BY <2>2, <2>3, <2>4 DEF Asking
      <3>3. drive.position = drive.goal
        BY <2>3, <2>4 DEF Asking
      <3> QED
        BY <2>2, <3>1, <3>2, <3>3 DEF Idle
    <2>5. ASSUME Smooth, ~txpdo.reached
          PROVE  m_newSetpoint' /\ Asking'
      BY <2>2, <2>3, <2>5 DEF Asking
    <2>6. ASSUME Smooth PROVE m_targetPos - drive.position <= 2
      BY <2>2, <2>6 DEF Runs
    <2>7. Runs'
      <3> SUFFICES ASSUME Smooth PROVE Runs'
        BY <2>2 DEF Runs, Smooth
      <3> QED
        BY <2>2, <2>3, <2>4, <2>5, <2>6, Zenon DEF Runs, InLoop, Smooth
    <2> QED
      BY <2>1, <2>7
  <1> QED
    BY <1>1, <1>2, <1>3, <1>4, <1>5, <1>6

-----------------------------------------------------------------------------
(* The exchange: what a frame brings to the drive and back.                *)

\* The drive's record and its fields after a delivered frame.
LEMMA DeliveredFields ==
  ASSUME Types, Delivered
  PROVE  /\ drive' \in [state : DriveStates, position : 0 .. MaxTarget, goal : 0 .. MaxTarget,
                        reached : BOOLEAN, word : Controlwords, target : 0 .. MaxTarget,
                        before : Controlwords]
         /\ drive'.word = rxpdo.controlword /\ drive'.target = rxpdo.target
         /\ drive'.before = drive.word
         /\ drive'.state = drive.state /\ drive'.position = drive.position
         /\ drive'.goal = drive.goal /\ drive'.reached = drive.reached
  BY DEF Types, TypeOK, Delivered

\* What is in txpdo after a transfer: the old answer, or the drive's.
LEMMA TransferTypes ==
  ASSUME Types, Transfer
  PROVE  /\ drive' \in [state : DriveStates, position : 0 .. MaxTarget, goal : 0 .. MaxTarget,
                        reached : BOOLEAN, word : Controlwords, target : 0 .. MaxTarget,
                        before : Controlwords]
         /\ txpdo' \in [status : DriveStates, reached : BOOLEAN, position : 0 .. MaxTarget]
         /\ drive'.state = drive.state /\ drive'.position = drive.position
         /\ drive'.goal = drive.goal /\ drive'.reached = drive.reached
         /\ \/ UNCHANGED txpdo
            \/ /\ txpdo'.status = drive.state /\ txpdo'.position = drive.position
               /\ txpdo'.reached = drive.reached
  <1>1. CASE Delivered
    BY <1>1, DeliveredFields DEF Types, TypeOK, Transfer, Answered
  <1>2. CASE UNCHANGED <<drive, txpdo>>
    BY <1>2 DEF Types, TypeOK
  <1> QED
    BY <1>1, <1>2 DEF Transfer

LEMMA ExchangeStep == IInv /\ Exchange => IInv'
  <1> SUFFICES ASSUME IInv, Exchange PROVE IInv'
    OBVIOUS
  <1> USE CiA402Assumption DEF CiA402Assumption, IInv
  <1> Types /\ turn = "exchange"
    BY DEF Exchange
  <1>1. Types'
    <2>1. (turn \in {"exchange", "phase", "sleep", "stopping", "ended"} /\ m_phase \in Phases)'
      BY DEF Exchange, Types, TypeOK, program
    <2>2. (m_newSetpoint \in BOOLEAN /\ m_running \in BOOLEAN)'
      BY Zenon DEF Exchange, Types, TypeOK, program
    <2>3. (m_targetPos \in 0 .. MaxTarget /\ m_phaseDelay \in 0 .. ResetCycles /\ faults \in Nat)'
      BY DEF Exchange, Types, TypeOK, program
    <2>4. (rxpdo \in [controlword : Controlwords, target : 0 .. MaxTarget])'
      BY DEF Exchange, Types, TypeOK, Controlwords
    <2>5. /\ drive' \in [state : DriveStates, position : 0 .. MaxTarget, goal : 0 .. MaxTarget,
                         reached : BOOLEAN, word : Controlwords, target : 0 .. MaxTarget,
                         before : Controlwords]
          /\ txpdo' \in [status : DriveStates, reached : BOOLEAN, position : 0 .. MaxTarget]
      <3>1. CASE Transfer
        BY <3>1, TransferTypes, Zenon
      <3>2. CASE UNCHANGED <<drive, txpdo>>
        BY <3>2, Zenon DEF Types, TypeOK
      <3> QED
        BY <3>1, <3>2 DEF Exchange
    <2>6. drive'.state \in DriveStates /\ drive'.position \in 0 .. MaxTarget
          /\ drive'.goal \in 0 .. MaxTarget
      BY <2>5
    <2> QED
      BY <2>1, <2>2, <2>3, <2>4, <2>5, <2>6, Zenon DEF Types, TypeOK
  <1>2. CASE ~m_running
    <2> USE <1>2 DEF Exchange, program
    <2>0. /\ turn' = "stopping" /\ UNCHANGED <<drive, txpdo, lossy, faults, m_phase, m_targetPos>>
          /\ rxpdo'.controlword = "DisableVoltage"
      BY DEF Types, TypeOK
    <2> HIDE DEF Exchange
    <2>1. Resets' /\ Disables'
      BY <2>0 DEF Resets, NoReset, Disables, InLoop, Low, Disabling
    <2>2. Stands' /\ Enables'
      BY <2>0 DEF Stands, Enables, InLoop, Enabling
    <2>3. Fresh' /\ Runs'
      BY <2>0 DEF Fresh, Runs, InLoop, Smooth
    <2> QED
      BY <1>1, <2>1, <2>2, <2>3
  <1>3. CASE m_running /\ Delivered /\ Transfer
    <2>0. /\ turn' = "phase"
          /\ UNCHANGED <<rxpdo, lossy, faults, m_phase, m_targetPos, m_newSetpoint>>
          /\ drive'.word = rxpdo.controlword /\ drive'.target = rxpdo.target
          /\ drive'.before = drive.word
          /\ drive'.state = drive.state /\ drive'.position = drive.position
          /\ drive'.goal = drive.goal /\ drive'.reached = drive.reached
          /\ \/ UNCHANGED txpdo /\ lossy
             \/ /\ txpdo'.status = drive.state /\ txpdo'.position = drive.position
                /\ txpdo'.reached = drive.reached
      BY <1>3, DeliveredFields DEF Exchange, Transfer, Answered, program
    <2>1. Resets'
      BY <2>0 DEF Resets, NoReset, Low, Disabling
    <2>2. Disables'
      BY <2>0 DEF Disables, InLoop, Low, Disabling
    <2>3. Stands'
      BY <2>0 DEF Stands
    <2>4. Enables'
      BY <2>0 DEF Enables, InLoop, Enabling
    <2>5. Fresh'
      BY <2>0 DEF Fresh, Smooth
    <2>6. Runs'
      <3> SUFFICES ASSUME m_phase = "RUNNING", Smooth PROVE Runs'
        BY <2>0 DEF Runs, Smooth
      <3>1. drive.state = "OperationEnabled" /\ drive.word \in Enabling
            /\ m_targetPos - drive.position <= 2
        BY DEF Runs, InLoop
      <3>2. CASE m_newSetpoint
        <4>1. Asking
          BY <3>2 DEF Runs, InLoop
        <4>2. Asking'
          BY <2>0, <4>1 DEF Asking, Types, TypeOK
        <4> QED
          BY <2>0, <3>1, <3>2, <4>1, <4>2 DEF Runs, InLoop, Asking, Enabling
      <3>3. CASE ~m_newSetpoint
        <4>1. Idle
          BY <3>3 DEF Runs, InLoop
        <4>2. Idle'
          BY <2>0, <4>1 DEF Idle, Types, TypeOK
        <4> QED
          BY <2>0, <3>1, <3>3, <4>1, <4>2 DEF Runs, InLoop, Idle, Enabling
      <3> QED
        BY <3>2, <3>3
    <2> QED
      BY <1>1, <2>1, <2>2, <2>3, <2>4, <2>5, <2>6
  <1>4. CASE m_running /\ lossy /\ UNCHANGED <<drive, txpdo>>
    <2>0. /\ turn' = "phase" /\ lossy'
          /\ UNCHANGED <<drive, txpdo, rxpdo, lossy, faults, m_phase, m_targetPos>>
      BY <1>4 DEF Exchange, program
    <2>1. Resets' /\ Disables'
      BY <2>0 DEF Resets, NoReset, Disables, InLoop, Low, Disabling
    <2>2. Stands' /\ Enables'
      BY <2>0 DEF Stands, Enables, InLoop, Enabling
    <2>3. Fresh' /\ Runs'
      BY <2>0 DEF Fresh, Runs, Smooth
    <2> QED
      BY <1>1, <2>1, <2>2, <2>3
  <1> QED
    BY <1>2, <1>3, <1>4 DEF Exchange, Transfer

LEMMA LastExchangeStep == IInv /\ LastExchange => IInv'
  <1> SUFFICES ASSUME IInv, LastExchange PROVE IInv'
    OBVIOUS
  <1> USE CiA402Assumption DEF CiA402Assumption, IInv
  <1>0. /\ Types /\ turn = "stopping" /\ turn' = "ended"
        /\ UNCHANGED <<rxpdo, lossy, faults, m_phase, m_targetPos, m_newSetpoint, m_phaseDelay, m_running>>
    BY DEF LastExchange, program
  <1>1. Types'
    <2>1. (turn \in {"exchange", "phase", "sleep", "stopping", "ended"})'
      BY <1>0
    <2>2. /\ drive' \in [state : DriveStates, position : 0 .. MaxTarget, goal : 0 .. MaxTarget,
                         reached : BOOLEAN, word : Controlwords, target : 0 .. MaxTarget,
                         before : Controlwords]
          /\ txpdo' \in [status : DriveStates, reached : BOOLEAN, position : 0 .. MaxTarget]
      BY TransferTypes, Zenon DEF LastExchange
    <2>3. drive'.state \in DriveStates /\ drive'.position \in 0 .. MaxTarget
          /\ drive'.goal \in 0 .. MaxTarget
      BY <2>2
    <2> QED
      BY <1>0, <2>1, <2>2, <2>3, Zenon DEF Types, TypeOK
  <1>2. rxpdo.controlword = "DisableVoltage"
    BY <1>0 DEF Disables, InLoop
  <1>3. \/ /\ drive'.word = rxpdo.controlword /\ drive'.before = drive.word
           /\ drive'.state = drive.state /\ drive'.position = drive.position
           /\ drive'.goal = drive.goal /\ lastLost' = FALSE
           /\ \/ UNCHANGED txpdo
              \/ txpdo'.status = drive.state /\ txpdo'.position = drive.position
        \/ UNCHANGED <<drive, txpdo>> /\ lastLost' = TRUE
    BY <1>0, DeliveredFields DEF LastExchange, Transfer, Answered
  <1>4. Resets'
    BY <1>0, <1>2, <1>3 DEF Resets, NoReset, Low, Disabling
  <1>5. Disables'
    BY <1>0, <1>2, <1>3 DEF Disables, InLoop, Low
  <1>6. Stands' /\ Enables'
    BY <1>0, <1>2, <1>3 DEF Stands, Enables, InLoop, Enabling
  <1>7. Fresh'
    BY <1>0 DEF Fresh
  <1>8. Runs'
    BY <1>0, <1>3 DEF Runs, InLoop, Smooth
  <1> QED
    BY <1>1, <1>4, <1>5, <1>6, <1>7, <1>8

-----------------------------------------------------------------------------
(* The drive.                                                              *)

\* What the drive's transitions lead to.
LEMMA NextStateLemma ==
  ASSUME Types
  PROVE  /\ NextState \in DriveStates
         /\ NextState = "OperationEnabled" =>
              /\ drive.state \in {"SwitchedOn", "OperationEnabled"}
              /\ drive.word \in Enabling
         /\ drive.state = "OperationEnabled" /\ drive.word \in Enabling
              => NextState = "OperationEnabled"
         /\ drive.word \in Disabling => NextState \in Low
         /\ drive.state \in Low /\ drive.word # "Shutdown" => NextState \in Low
         /\ drive.state = "Fault" /\ drive.word # "FaultReset" => NextState = "Fault"
  BY DEF Types, TypeOK, NextState, DriveStates, Low, Disabling, Enabling, Rises, Controlwords

LEMMA DriveWorksStep == IInv /\ DriveWorks => IInv'
  <1> SUFFICES ASSUME IInv, DriveWorks PROVE IInv'
    OBVIOUS
  <1> USE CiA402Assumption DEF CiA402Assumption
  <1>0. /\ Types /\ TypeOK /\ turn = "sleep" /\ turn' = "exchange"
        /\ UNCHANGED <<rxpdo, txpdo, lossy, faults, m_phase, m_targetPos, m_newSetpoint,
                       m_phaseDelay, m_running>>
    BY DEF DriveWorks, program, IInv, Types
  <1> DEFINE enabled == drive.state = "OperationEnabled" /\ NextState = drive.state
             goal == IF enabled /\ Rises("NewSetpoint") THEN drive.target
                     ELSE IF enabled THEN drive.goal ELSE drive.position
  <1>1. PICK p \in IF drive.position < goal THEN {drive.position, drive.position + 1}
                                            ELSE {drive.position} :
          drive' = [drive EXCEPT !.state = NextState, !.goal = goal, !.position = p,
                                 !.reached = IF enabled THEN p = goal ELSE @,
                                 !.before = drive.word]
    BY Zenon DEF DriveWorks
  <1>2. /\ goal \in 0 .. MaxTarget /\ p \in 0 .. MaxTarget
        /\ p >= drive.position /\ (goal <= drive.position => p = drive.position)
    BY <1>0, <1>1 DEF Types
  <1>3. drive' \in [state : DriveStates, position : 0 .. MaxTarget, goal : 0 .. MaxTarget,
                    reached : BOOLEAN, word : Controlwords, target : 0 .. MaxTarget,
                    before : Controlwords]
    <2> HIDE DEF goal, enabled
    <2> QED
      BY <1>0, <1>1, <1>2, NextStateLemma DEF Types
  <1>4. /\ drive'.state = NextState /\ drive'.goal = goal /\ drive'.position = p
        /\ drive'.before = drive.word /\ drive'.word = drive.word /\ drive'.target = drive.target
        /\ (enabled /\ drive'.reached => p = goal)
    <2> HIDE DEF goal, enabled
    <2> QED
      BY <1>0, <1>1 DEF Types
  <1>5. Types'
    <2>1. (turn \in {"exchange", "phase", "sleep", "stopping", "ended"})'
      BY <1>0
    <2>2. drive'.state \in DriveStates /\ drive'.position \in 0 .. MaxTarget
          /\ drive'.goal \in 0 .. MaxTarget
      BY <1>3
    <2> QED
      BY <1>0, <1>3, <2>1, <2>2, Zenon DEF Types, TypeOK
  <1>6. Resets'
    BY <1>0, <1>4, NextStateLemma DEF IInv, Resets, NoReset, Low, Disabling
  <1>7. Disables'
    BY <1>0, <1>4, NextStateLemma DEF IInv, Disables, InLoop, Low, Disabling
  <1>8. ASSUME m_phase # "RUNNING"
        PROVE  p = drive.position /\ goal <= p /\ (NextState = "OperationEnabled" => goal = p \/ (enabled /\ goal = drive.goal))
    BY <1>0, <1>2, <1>8 DEF IInv, Stands, Rises, Types
  <1>9. Stands'
    BY <1>0, <1>4, <1>8 DEF IInv, Stands
  <1>10. Enables'
    <2> HIDE DEF goal
    <2> QED
      BY <1>0, <1>4, <1>8, NextStateLemma DEF IInv, Stands, Enables, InLoop, Enabling
  <1>11. Fresh'
    BY <1>0 DEF Fresh
  <1>12. Runs'
    <2> SUFFICES ASSUME m_phase = "RUNNING", Smooth PROVE Runs'
      BY <1>0 DEF Runs, Smooth
    <2>1. drive.state = "OperationEnabled" /\ drive.word \in Enabling
          /\ m_targetPos - drive.position <= 2 /\ enabled
      BY <1>0, NextStateLemma DEF IInv, Runs, InLoop
    <2>2. CASE m_newSetpoint
      <3>1. Asking
        BY <1>0, <2>2 DEF IInv, Runs, InLoop
      <3>2. \/ drive.word = "NewSetpoint" /\ goal = m_targetPos
            \/ drive.word = "EnableOp" /\ goal = m_targetPos - 1
        BY <1>0, <2>1, <3>1 DEF Asking, Rises, Types
      <3>3. Asking'
        <4> HIDE DEF goal, enabled
        <4> QED
          BY <1>0, <1>2, <1>4, <2>1, <3>1, <3>2 DEF Asking, Types, TypeOK
      <3> QED
        BY <1>0, <1>4, <2>1, <2>2, <3>3 DEF Runs, InLoop, Asking
    <2>3. CASE ~m_newSetpoint
      <3>1. Idle
        BY <1>0, <2>3 DEF IInv, Runs, InLoop
      <3>2. goal = m_targetPos
        BY <1>0, <2>1, <3>1 DEF Idle, Rises, Types, Enabling
      <3>3. Idle'
        <4> HIDE DEF goal, enabled
        <4> QED
          BY <1>0, <1>2, <1>4, <2>1, <3>1, <3>2 DEF Idle, Types
      <3>4. m_targetPos - p <= 2
        <4> HIDE DEF goal, enabled
        <4> QED
          BY <1>0, <1>2, <2>1 DEF Types, TypeOK
      <3> QED
        BY <1>0, <1>4, <2>1, <2>3, <3>3, <3>4 DEF Runs, InLoop
    <2> QED
      BY <2>2, <2>3
  <1> QED
    BY <1>5, <1>6, <1>7, <1>9, <1>10, <1>11, <1>12 DEF IInv

LEMMA DriveFaultsStep == IInv /\ DriveFaults => IInv'
  <1> SUFFICES ASSUME IInv, DriveFaults PROVE IInv'
    OBVIOUS
  <1> USE CiA402Assumption DEF CiA402Assumption
  <1>0. /\ Types /\ TypeOK /\ turn # "ended" /\ faults' # 0 /\ faults' \in Nat
        /\ UNCHANGED <<turn, rxpdo, txpdo, m_phase, m_targetPos, m_newSetpoint,
                       m_phaseDelay, m_running>>
    BY DEF DriveFaults, program, IInv, Types
  <1>1. /\ drive' \in [state : DriveStates, position : 0 .. MaxTarget, goal : 0 .. MaxTarget,
                       reached : BOOLEAN, word : Controlwords, target : 0 .. MaxTarget,
                       before : Controlwords]
        /\ drive'.state = "Fault" /\ drive'.goal = drive.goal
        /\ drive'.position = drive.position /\ drive'.word = drive.word
    BY <1>0 DEF Types, DriveFaults, DriveStates
  <1>2. Types'
    <2>1. drive'.state \in DriveStates /\ drive'.position \in 0 .. MaxTarget
          /\ drive'.goal \in 0 .. MaxTarget
      BY <1>1
    <2> QED
      BY <1>0, <1>1, <2>1, Zenon DEF Types, TypeOK
  <1>3. Resets' /\ Disables'
    BY <1>0, <1>1 DEF IInv, Resets, NoReset, Disables, InLoop, Low, Disabling
  <1>4. Stands' /\ Enables'
    BY <1>0, <1>1 DEF IInv, Stands, Enables, InLoop, Enabling
  <1>5. Fresh' /\ Runs'
    BY <1>0 DEF Fresh, Runs, Smooth
  <1> QED
    BY <1>2, <1>3, <1>4, <1>5 DEF IInv

LEMMA DriveEndsStep == IInv /\ DriveEnds => IInv'
  <1> SUFFICES ASSUME IInv, DriveEnds PROVE IInv'
    OBVIOUS
  <1> USE CiA402Assumption DEF CiA402Assumption
  <1>0. /\ Types /\ TypeOK /\ turn = "ended"
        /\ UNCHANGED <<turn, rxpdo, txpdo, m_phase, m_targetPos, m_newSetpoint,
                       m_phaseDelay, m_running, lossy, lastLost, faults>>
    BY DEF DriveEnds, program, IInv, Types
  <1>1. /\ drive' \in [state : DriveStates, position : 0 .. MaxTarget, goal : 0 .. MaxTarget,
                       reached : BOOLEAN, word : Controlwords, target : 0 .. MaxTarget,
                       before : Controlwords]
        /\ drive'.state = NextState /\ drive'.goal = drive.goal /\ drive'.before = drive.word
        /\ drive'.position = drive.position /\ drive'.word = drive.word
    BY <1>0, NextStateLemma DEF Types, DriveEnds
  <1>2. Types'
    <2>1. drive'.state \in DriveStates /\ drive'.position \in 0 .. MaxTarget
          /\ drive'.goal \in 0 .. MaxTarget
      BY <1>1
    <2> QED
      BY <1>0, <1>1, <2>1, Zenon DEF Types, TypeOK
  <1>3. Resets' /\ Disables'
    BY <1>0, <1>1, NextStateLemma DEF IInv, Resets, NoReset, Disables, InLoop, Low, Disabling
  <1>4. Stands' /\ Enables'
    BY <1>0, <1>1, NextStateLemma DEF IInv, Stands, Enables, InLoop, Enabling
  <1>5. Fresh' /\ Runs'
    BY <1>0, <1>1 DEF IInv, Fresh, Runs, InLoop, Smooth
  <1> QED
    BY <1>2, <1>3, <1>4, <1>5 DEF IInv

\* The stop flag, the fault's cause, and steps that change nothing.
LEMMA OtherStep == IInv /\ (stopCycle \/ CauseGone \/ UNCHANGED vars) => IInv'
  <1> SUFFICES ASSUME IInv, stopCycle \/ CauseGone \/ UNCHANGED vars PROVE IInv'
    OBVIOUS
  <1>0. /\ UNCHANGED <<turn, rxpdo, txpdo, drive, m_phase, m_targetPos, m_newSetpoint,
                       m_phaseDelay, lossy, lastLost, faults>>
        /\ m_running' = FALSE \/ m_running' = m_running
    BY DEF stopCycle, CauseGone, vars, program
  <1>1. Types'
    BY <1>0, Zenon DEF IInv, Types, TypeOK
  <1>2. Resets' /\ Disables'
    BY <1>0, Zenon DEF IInv, Resets, NoReset, Disables, InLoop
  <1>3. Stands' /\ Enables'
    BY <1>0, Zenon DEF IInv, Stands, Enables, InLoop
  <1>4. Fresh' /\ Runs'
    BY <1>0, Zenon DEF IInv, Fresh, Runs, InLoop, Smooth, Asking, Idle
  <1> QED
    BY <1>1, <1>2, <1>3, <1>4 DEF IInv

LEMMA NextInv == IInv /\ [Next]_vars => IInv'
  BY ExchangeStep, LastExchangeStep, FaultResetPhaseStep, ShutdownPhaseStep, SwitchOnPhaseStep,
     EnableOpPhaseStep, NewSetpointStep, HoldSetpointStep, DriveWorksStep, DriveFaultsStep,
     DriveEndsStep, OtherStep DEF Next, Phase

\* The invariant holds in every reachable state.
THEOREM Invariant == Spec => []IInv
  BY InitInv, NextInv, PTL DEF Spec

-----------------------------------------------------------------------------
(* What follows from the invariant.                                        *)

\* Without losses and faults the target runs at most two steps ahead of the
\* drive, for any range of positions (SoemMaster.cpp, RUNNING).
THEOREM TargetIsNear == Spec => []AtMostTwoAhead
  <1>1. IInv => AtMostTwoAhead
    BY DEF IInv, Types, AtMostTwoAhead, Runs, Smooth
  <1> QED
    BY Invariant, <1>1, PTL

\* The Disable Voltage behind the loop switches the drive off, whenever the
\* window stops the thread.
THEOREM StopIsOff == Spec => []StopSwitchesOff
  <1>1. IInv => StopSwitchesOff
    BY DEF IInv, Disables, StopSwitchesOff, Low
  <1> QED
    BY Invariant, <1>1, PTL

\* RUNNING starts with the target where the drive stands.
THEOREM StartsInPlace == Spec => StartsWhereItStands
  <1>1. IInv /\ [Next]_vars =>
          [m_phase' = "RUNNING" /\ m_phase # "RUNNING" => m_targetPos = drive.position]_vars
    <2> SUFFICES ASSUME IInv, Next, m_phase' = "RUNNING", m_phase # "RUNNING"
                 PROVE  m_targetPos = drive.position
      OBVIOUS
    <2>1. m_phase = "ENABLE_OP"
      BY DEF Next, Phase, Exchange, LastExchange, FaultResetPhase, ShutdownPhase, SwitchOnPhase,
             EnableOpPhase, NewSetpoint, HoldSetpoint, InPhase, GoTo, stopCycle, DriveWorks,
             DriveFaults, CauseGone, DriveEnds, program
    <2> QED
      BY <2>1 DEF IInv, Stands
  <1> QED
    BY Invariant, <1>1, PTL DEF Spec, StartsWhereItStands

\* Once the sequence has switched the drive on, no step takes it out of Fault.
THEOREM FaultStays == Spec => NoRestartAfterFault
  <1>1. IInv /\ [Next]_vars =>
          [drive.state = "Fault" /\ m_phase \in {"SWITCH_ON", "ENABLE_OP", "RUNNING"}
             => drive'.state = "Fault"]_vars
    <2> SUFFICES ASSUME IInv, Next, drive.state = "Fault",
                        m_phase \in {"SWITCH_ON", "ENABLE_OP", "RUNNING"}
                 PROVE  drive'.state = "Fault"
      OBVIOUS
    <2>1. Types /\ drive.word # "FaultReset"
      BY DEF IInv, Resets, NoReset
    <2>2. CASE Exchange \/ LastExchange
      BY <2>1, <2>2, TransferTypes DEF Exchange, LastExchange
    <2>3. CASE DriveWorks
      BY <2>1, <2>3, NextStateLemma DEF DriveWorks, Types
    <2>4. CASE DriveFaults \/ DriveEnds
      BY <2>1, <2>4, NextStateLemma DEF DriveFaults, DriveEnds, Types
    <2>5. CASE Phase \/ stopCycle \/ CauseGone
      BY <2>5 DEF Phase, FaultResetPhase, ShutdownPhase, SwitchOnPhase, EnableOpPhase,
                  NewSetpoint, HoldSetpoint, InPhase, stopCycle, CauseGone
    <2> QED
      BY <2>2, <2>3, <2>4, <2>5 DEF Next
  <1> QED
    BY Invariant, <1>1, PTL DEF Spec, NoRestartAfterFault
=============================================================================
