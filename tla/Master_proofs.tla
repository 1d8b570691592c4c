--------------------------- MODULE Master_proofs ---------------------------
(***************************************************************************)
(* The safety properties of Master for any number of starts and drops, any *)
(* slave and any length of the wait: one inductive invariant for them all; *)
(* and of Display, which takes no step that Master does not, for any number *)
(* of answers and updates.                                                 *)
(***************************************************************************)
EXTENDS Display, TLAPS

Stopping == gui \in {"wait", "endCheck", "sleep"}

\* The buttons in every state of the window's thread: what holds between two
\* handlers must still be known in the middle of one.
Buttons ==
    /\ "init" \in ui => ~m_initialized
    /\ ui \cap {"start", "scan", "stop"} # {} => m_initialized \/ gui = "closed"
    /\ gui = "idle" => /\ "stop" \in ui <=> m_operational
                       /\ "stop" \in ui => ui \cap {"start", "scan"} = {}
    /\ gui \in {"requestOp", "waitOp"} => ~m_operational /\ "stop" \notin ui
    /\ Stopping /\ ~closing => "stop" \in ui
    /\ closing => Stopping \/ gui \in {"closed", "aborted"}

\* The loop's thread exists from OpReached to WaitDone.
Thread ==
    /\ gui = "idle" => (pdo # "none" <=> m_operational)
    /\ gui \in {"requestOp", "waitOp", "endCheck", "sleep", "closed"} => pdo = "none"
    /\ pdo # "none" => m_initialized /\ m_operational
    /\ gui \in {"requestOp", "waitOp"} => m_initialized

\* Only the loop writes a controlword, and its last one is Disable Voltage.
Word == pdo # "loop" => ~sent

\* A stop that found the loop running has cleared its flag for good.
Wait ==
    /\ gui = "wait" /\ ~early => waited = 0 /\ ~m_running /\ pdo # "created"
    /\ gui = "aborted" => early

IInv == TypeOK /\ Buttons /\ Thread /\ Word /\ Wait

\* The state the program starts in satisfies the invariant.
LEMMA InitInv == Init => IInv
  <1> SUFFICES ASSUME Init PROVE IInv
    OBVIOUS
  <1>1. Flags
    BY Zenon DEF Init, Flags
  <1>2. TypeOK
    BY <1>1, MasterAssumption DEF MasterAssumption, Init, TypeOK, SlaveStates
  <1>3. Buttons /\ Thread /\ Word /\ Wait
    BY DEF Init, Buttons, Thread, Word, Wait, Stopping
  <1> QED
    BY <1>2, <1>3 DEF IInv

USE DEF MasterAssumption, IInv, TypeOK, SlaveStates

\* The handlers of the window keep it.
LEMMA WindowStep == IInv /\ Window => IInv'
  <1> SUFFICES ASSUME IInv, Window PROVE IInv'
    OBVIOUS
  <1> USE MasterAssumption
  <1>1. CASE onBtnInit
    <2>1. Flags'
      BY <1>1, Zenon DEF onBtnInit, Press, thread, bus, ghosts, Flags
    <2>2. TypeOK'
      BY <1>1, <2>1 DEF onBtnInit, Press, thread, bus, ghosts
    <2>3. (Buttons /\ Thread /\ Word /\ Wait)'
      BY <1>1 DEF onBtnInit, Press, thread, bus, ghosts, Buttons, Thread, Word, Wait, Stopping
    <2> QED
      BY <2>2, <2>3
  <1>2. CASE onBtnScan
    <2>1. Flags'
      BY <1>2, Zenon DEF onBtnScan, Press, master, thread, ghosts, Flags
    <2>2. TypeOK'
      <3>1. ui' \subseteq {"init", "scan", "start", "stop"}
        BY <1>2 DEF onBtnScan
      <3>2. slave' \in SlaveStates /\ slavecount' \in 0 .. 1
        BY <1>2 DEF onBtnScan
      <3> QED
        BY <1>2, <2>1, <3>1, <3>2 DEF onBtnScan, master, thread, ghosts
    <2>3. (Buttons /\ Thread /\ Word /\ Wait)'
      BY <1>2 DEF onBtnScan, Press, master, thread, ghosts, Buttons, Thread, Word, Wait, Stopping
    <2> QED
      BY <2>2, <2>3
  <1>3. CASE onBtnStartOp
    <2>1. Flags'
      BY <1>3, Zenon DEF onBtnStartOp, Press, AfterMap, master, thread, bus, Flags
    <2>2. TypeOK'
      BY <1>3, <2>1 DEF onBtnStartOp, Press, AfterMap, master, thread, bus
    <2>3. (Buttons /\ Thread /\ Word /\ Wait)'
      BY <1>3 DEF onBtnStartOp, Press, AfterMap, master, thread, bus, Buttons, Thread, Word, Wait, Stopping
    <2> QED
      BY <2>2, <2>3
  <1>4. CASE RequestOp
    <2>1. Flags'
      BY <1>4, Zenon DEF RequestOp, master, thread, bus, ghosts, Flags
    <2>2. TypeOK'
      BY <1>4, <2>1 DEF RequestOp, master, thread, bus, ghosts
    <2>3. (Buttons /\ Thread /\ Word /\ Wait)'
      BY <1>4 DEF RequestOp, master, thread, bus, ghosts, Buttons, Thread, Word, Wait, Stopping
    <2> QED
      BY <2>2, <2>3
  <1>5. CASE OpReached
    <2>1. Flags'
      BY <1>5, Zenon DEF OpReached, bus, ghosts, Flags
    <2>2. TypeOK'
      BY <1>5, <2>1 DEF OpReached, bus, ghosts
    <2>3. (Buttons /\ Thread /\ Word /\ Wait)'
      BY <1>5 DEF OpReached, bus, ghosts, Buttons, Thread, Word, Wait, Stopping
    <2> QED
      BY <2>2, <2>3
  <1>6. CASE OpTimeout
    <2>1. Flags'
      BY <1>6, Zenon DEF OpTimeout, master, thread, bus, ghosts, Flags
    <2>2. TypeOK'
      BY <1>6, <2>1 DEF OpTimeout, master, thread, bus, ghosts
    <2>3. (Buttons /\ Thread /\ Word /\ Wait)'
      BY <1>6 DEF OpTimeout, master, thread, bus, ghosts, Buttons, Thread, Word, Wait, Stopping
    <2> QED
      BY <2>2, <2>3
  <1>7. CASE onBtnStopOp
    <2>1. Flags'
      BY <1>7, Zenon DEF onBtnStopOp, stopOp, Press, master, bus, Flags
    <2>2. TypeOK'
      BY <1>7, <2>1 DEF onBtnStopOp, stopOp, Press, master, bus
    <2>3. (Buttons /\ Thread /\ Word /\ Wait)'
      BY <1>7 DEF onBtnStopOp, stopOp, Press, master, bus, Buttons, Thread, Word, Wait, Stopping
    <2> QED
      BY <2>2, <2>3
  <1>8. CASE close
    <2>1. Flags'
      BY <1>8, Zenon DEF close, stopOp, master, bus, Flags
    <2>2. TypeOK'
      BY <1>8, <2>1 DEF close, stopOp, master, bus
    <2>3. (Buttons /\ Thread /\ Word /\ Wait)'
      BY <1>8 DEF close, stopOp, master, bus, Buttons, Thread, Word, Wait, Stopping
    <2> QED
      BY <2>2, <2>3
  <1>9. CASE WaitDone
    <2>1. Flags'
      BY <1>9, Zenon DEF WaitDone, master, bus, ghosts, Flags
    <2>2. TypeOK'
      BY <1>9, <2>1 DEF WaitDone, master, bus, ghosts
    <2>3. (Buttons /\ Thread /\ Word /\ Wait)'
      BY <1>9 DEF WaitDone, master, bus, ghosts, Buttons, Thread, Word, Wait, Stopping
    <2> QED
      BY <2>2, <2>3
  <1>10. CASE WaitExpires
    <2>1. Flags'
      BY <1>10, Zenon DEF WaitExpires, master, thread, bus, ghosts, Flags
    <2>2. TypeOK'
      BY <1>10, <2>1 DEF WaitExpires, master, thread, bus, ghosts
    <2>3. (Buttons /\ Thread /\ Word /\ Wait)'
      BY <1>10 DEF WaitExpires, master, thread, bus, ghosts, Buttons, Thread, Word, Wait, Stopping
    <2> QED
      BY <2>2, <2>3
  <1>11. CASE EndCheck
    <2>1. Flags'
      BY <1>11, Zenon DEF EndCheck, thread, bus, ghosts, Flags
    <2>2. TypeOK'
      BY <1>11, <2>1 DEF EndCheck, thread, bus, ghosts
    <2>3. (Buttons /\ Thread /\ Word /\ Wait)'
      BY <1>11 DEF EndCheck, thread, bus, ghosts, Buttons, Thread, Word, Wait, Stopping
    <2> QED
      BY <2>2, <2>3
  <1>12. CASE StopEnds
    <2>1. Flags'
      BY <1>12, Zenon DEF StopEnds, thread, bus, ghosts, Flags
    <2>2. TypeOK'
      BY <1>12, <2>1 DEF StopEnds, thread, bus, ghosts
    <2>3. (Buttons /\ Thread /\ Word /\ Wait)'
      BY <1>12 DEF StopEnds, thread, bus, ghosts, Buttons, Thread, Word, Wait, Stopping
    <2> QED
      BY <2>2, <2>3
  <1> QED
    BY <1>1, <1>2, <1>3, <1>4, <1>5, <1>6, <1>7, <1>8, <1>9, <1>10, <1>11, <1>12 DEF Window

\* The loop's thread keeps it.
LEMMA PdoStep == IInv /\ PdoThread => IInv'
  <1> SUFFICES ASSUME IInv, PdoThread PROVE IInv'
    OBVIOUS
  <1> USE MasterAssumption
  <1>1. CASE RunBegins
    <2>1. Flags'
      BY <1>1, Zenon DEF RunBegins, master, bus, ghosts, Flags
    <2>2. TypeOK'
      BY <1>1, <2>1 DEF RunBegins, master, bus, ghosts
    <2>3. (Buttons /\ Thread /\ Word /\ Wait)'
      BY <1>1 DEF RunBegins, master, bus, ghosts, Buttons, Thread, Word, Wait, Stopping
    <2> QED
      BY <2>2, <2>3
  <1>2. CASE Cycle
    <2>1. Flags'
      BY <1>2, Zenon DEF Cycle, master, bus, ghosts, Flags
    <2>2. TypeOK'
      BY <1>2, <2>1 DEF Cycle, master, bus, ghosts
    <2>3. (Buttons /\ Thread /\ Word /\ Wait)'
      BY <1>2 DEF Cycle, master, bus, ghosts, Buttons, Thread, Word, Wait, Stopping
    <2> QED
      BY <2>2, <2>3
  <1>3. CASE LoopEnds
    <2>1. Flags'
      BY <1>3, Zenon DEF LoopEnds, master, bus, ghosts, Flags
    <2>2. TypeOK'
      BY <1>3, <2>1 DEF LoopEnds, master, bus, ghosts
    <2>3. (Buttons /\ Thread /\ Word /\ Wait)'
      BY <1>3 DEF LoopEnds, master, bus, ghosts, Buttons, Thread, Word, Wait, Stopping
    <2> QED
      BY <2>2, <2>3
  <1> QED
    BY <1>1, <1>2, <1>3 DEF PdoThread

\* The thread that checks the slaves keeps it.
LEMMA CheckStep == IInv /\ CheckThread => IInv'
  <1> SUFFICES ASSUME IInv, CheckThread PROVE IInv'
    OBVIOUS
  <1> USE MasterAssumption
  <1>1. CASE CheckLoop
    <2>1. Flags'
      BY <1>1, Zenon DEF CheckLoop, master, thread, ghosts, Flags
    <2>2. TypeOK'
      BY <1>1, <2>1 DEF CheckLoop, master, thread, ghosts
    <2>3. (Buttons /\ Thread /\ Word /\ Wait)'
      BY <1>1 DEF CheckLoop, master, thread, ghosts, Buttons, Thread, Word, Wait, Stopping
    <2> QED
      BY <2>2, <2>3
  <1>2. CASE CheckEnds
    <2>1. Flags'
      BY <1>2, Zenon DEF CheckEnds, master, bus, thread, ghosts, Flags
    <2>2. TypeOK'
      BY <1>2, <2>1 DEF CheckEnds, master, bus, thread, ghosts
    <2>3. (Buttons /\ Thread /\ Word /\ Wait)'
      BY <1>2 DEF CheckEnds, master, bus, thread, ghosts, Buttons, Thread, Word, Wait, Stopping
    <2> QED
      BY <2>2, <2>3
  <1> QED
    BY <1>1, <1>2 DEF CheckThread

\* The slave's own steps keep it.
LEMMA SlaveStep == IInv /\ (SlaveObeys \/ SlaveDrops) => IInv'
  <1> SUFFICES ASSUME IInv, SlaveObeys \/ SlaveDrops PROVE IInv'
    OBVIOUS
  <1> USE MasterAssumption
  <1>1. CASE SlaveObeys
    <2>1. Flags'
      BY <1>1, Zenon DEF SlaveObeys, master, bus, thread, ghosts, Flags
    <2>2. TypeOK'
      BY <1>1, <2>1 DEF SlaveObeys, master, bus, thread, ghosts
    <2>3. (Buttons /\ Thread /\ Word /\ Wait)'
      BY <1>1 DEF SlaveObeys, master, bus, thread, ghosts, Buttons, Thread, Word, Wait, Stopping
    <2> QED
      BY <2>2, <2>3
  <1>2. CASE SlaveDrops
    <2>1. Flags'
      BY <1>2, Zenon DEF SlaveDrops, master, bus, thread, Flags
    <2>2. TypeOK'
      BY <1>2, <2>1 DEF SlaveDrops, master, bus, thread
    <2>3. (Buttons /\ Thread /\ Word /\ Wait)'
      BY <1>2 DEF SlaveDrops, master, bus, thread, Buttons, Thread, Word, Wait, Stopping
    <2> QED
      BY <2>2, <2>3
  <1> QED
    BY <1>1, <1>2

\* A step that changes nothing keeps it.
LEMMA StutterStep == IInv /\ UNCHANGED vars => IInv'
  <1> SUFFICES ASSUME IInv, UNCHANGED vars PROVE IInv'
    OBVIOUS
  <1>1. Flags'
    BY Zenon DEF vars, master, bus, thread, ghosts, Flags
  <1> QED
    BY <1>1 DEF vars, master, bus, thread, ghosts, Buttons, Thread, Word, Wait, Stopping

\* The invariant holds in every state the program reaches.
LEMMA Invariant == Spec => []IInv
  <1>1. IInv /\ [Next]_vars => IInv'
    BY WindowStep, PdoStep, CheckStep, SlaveStep, StutterStep DEF Next
  <1> QED
    BY InitInv, <1>1, PTL DEF Spec

\* The window's thread, the loop's and the slave are always in states they
\* can have: no flag, place or count leaves its range.
THEOREM TypeCorrect == Spec => []TypeOK
  BY Invariant, PTL

\* The buttons the window offers always agree with what the master is doing:
\* between two handlers, "stop" is enabled exactly while the slaves are
\* operational and the loop's thread exists, "start" and "scan" never then.
THEOREM ButtonsAgree == Spec => []ButtonsFit
  <1>1. IInv => ButtonsFit
    <2> SUFFICES ASSUME IInv, gui = "idle"
                 PROVE  /\ "stop" \in ui <=> m_operational
                        /\ "stop" \in ui <=> pdo # "none"
                        /\ "stop" \in ui => ui \cap {"start", "scan"} = {}
                        /\ ui \cap {"start", "scan", "stop"} # {} => m_initialized
      BY DEF ButtonsFit
    <2>1. /\ "stop" \in ui <=> m_operational
          /\ "stop" \in ui => ui \cap {"start", "scan"} = {}
      BY Zenon DEF Buttons
    <2>2. pdo # "none" <=> m_operational
      BY Zenon DEF Thread
    <2>3. ui \cap {"start", "scan", "stop"} # {} => m_initialized
      BY DEF Buttons
    <2> QED
      BY <2>1, <2>2, <2>3, Zenon
  <1> QED
    BY Invariant, <1>1, PTL

\* While PdoCycleThread exists no other thread exchanges process data or maps
\* the slaves, so the index stack has one user and the IOmap one writer, and
\* the port is not closed under it.
THEOREM OneThreadExchanges == Spec => []OneExchanger
  <1>1. IInv => OneExchanger
    BY DEF Thread, OneExchanger
  <1> QED
    BY Invariant, <1>1, PTL

\* wait(3000) runs out, and the running thread is deleted, only when
\* stopCycle had come before run(), which sets the flag again.
THEOREM AbortsEarly == Spec => []AbortOnlyWhenEarly
  <1>1. IInv => AbortOnlyWhenEarly
    BY DEF Wait, AbortOnlyWhenEarly
  <1> QED
    BY Invariant, <1>1, PTL

\* m_operational is cleared, and INIT asked for, only after the loop has
\* ended and its last frame carried Disable Voltage.
THEOREM SwitchedOff == Spec => DisabledBeforeInit
  <1> DEFINE A == m_operational /\ ~m_operational' => pdo = "none" /\ ~sent
  <1>1. IInv /\ [Next]_vars => [A]_vars
    <2> SUFFICES ASSUME IInv, Next, m_operational, ~m_operational'
                 PROVE  pdo = "none" /\ ~sent
      OBVIOUS
    <2>1. StopEnds
      BY DEF Next, Window, PdoThread, CheckThread, onBtnInit, onBtnScan, onBtnStartOp,
             RequestOp, OpReached, OpTimeout, onBtnStopOp, close, WaitDone, WaitExpires,
             EndCheck, RunBegins, Cycle, LoopEnds, CheckLoop, CheckEnds, SlaveObeys,
             SlaveDrops, master
    <2> QED
      BY <2>1 DEF StopEnds, Thread, Word
  <1> QED
    BY Invariant, <1>1, PTL DEF Spec, DisabledBeforeInit

-----------------------------------------------------------------------------
(* The window's label.                                                     *)

\* Every step of Display is one of Master's, or none.
LEMMA StepOfMaster == [DisplayNext]_allVars => [Next]_vars
  BY DEF DisplayNext, Handler, BeginShow, EndShow, LoopThread, LoopCycle, Copy, Emit, LastExchange,
         Elsewhere, Next, PdoThread, allVars

\* What is proved of Master holds of Display: the window's updates change
\* nothing of the program's life.
THEOREM DisplayIsMaster == DisplaySpec => Spec
  <1>1. DisplayInit => Init
    BY DEF DisplayInit
  <1> QED
    BY <1>1, StepOfMaster, PTL DEF DisplaySpec, Spec

\* An answer is copied as a whole before the next one comes, and the update
\* is sent after it.
Copying ==
    /\ due => pdo = "loop"
    /\ ~due => copying = {}
    /\ \A f \in Fields : inputs[f] = IF f \in copying THEN heard - 1 ELSE heard

\* No update is ahead of the inputs, in the queue or on the label.
Behind ==
    /\ \A i \in 1 .. Len(updates) : \A f \in Fields : updates[i] <= inputs[f]
    /\ \A f \in Fields : about <= inputs[f] /\ shown[f] <= inputs[f]

LabelInv == DisplayTypeOK /\ Copying /\ Behind /\ ShownIsNew

LEMMA LabelInit == DisplayInit => LabelInv
  <1> SUFFICES ASSUME DisplayInit PROVE LabelInv
    OBVIOUS
  <1>1. /\ heard = 0 /\ inputs = Same(0) /\ copying = {} /\ due = FALSE /\ updates = <<>>
        /\ showing = FALSE /\ about = 0 /\ shown = Same(0)
    BY DEF DisplayInit
  <1>2. DisplayTypeOK
    <2>1. 0 \in 0 .. MaxHeard /\ MaxUpdates >= 0
      BY DisplayAssumption DEF DisplayAssumption
    <2>2. updates \in Seq(0 .. MaxHeard) /\ Len(updates) = 0
      BY <1>1
    <2> QED
      BY <1>1, <2>1, <2>2, DisplayAssumption DEF DisplayAssumption, DisplayTypeOK, Same
  <1>3. Copying /\ Behind
    BY <1>1 DEF Copying, Behind, Same
  <1>4. ShownIsNew
    BY <1>1, <1>2 DEF ShownIsNew, Same, Fields
  <1> QED
    BY <1>2, <1>3, <1>4 DEF LabelInv

\* The numbers of the inputs are never more than heard.
LEMMA InputsHeard ==
  ASSUME LabelInv
  PROVE  /\ MaxHeard \in Nat /\ MaxUpdates \in Nat /\ heard \in 0 .. MaxHeard
         /\ "status" \in Fields /\ "position" \in Fields
         /\ \A f \in Fields : /\ inputs[f] \in 0 .. MaxHeard /\ shown[f] \in 0 .. MaxHeard
                              /\ inputs[f] <= heard /\ inputs[f] >= heard - 1
  BY DisplayAssumption DEF DisplayAssumption, LabelInv, DisplayTypeOK, Copying, Fields

\* An update that waits is one that was appended.
LEMMA Waiting == ASSUME NEW S, NEW s \in Seq(S), NEW i \in 1 .. Len(s) PROVE s[i] \in S
  OBVIOUS

\* The label stays, and the inputs get no older.
LEMMA LabelKept ==
  ASSUME LabelInv, UNCHANGED <<updates, showing, about, shown>>, Copying',
         heard' \in 0 .. MaxHeard, inputs' \in [Fields -> 0 .. MaxHeard],
         copying' \subseteq Fields, due' \in BOOLEAN,
         \A f \in Fields : inputs'[f] >= inputs[f]
  PROVE  LabelInv'
  <1>1. DisplayTypeOK'
    BY DEF LabelInv, DisplayTypeOK
  <1>2. Behind'
    <2>1. ASSUME NEW i \in 1 .. Len(updates), NEW f \in Fields PROVE updates[i] <= inputs'[f]
      <3>1. updates[i] \in 0 .. MaxHeard /\ updates[i] <= inputs[f]
        <4>1. updates \in Seq(0 .. MaxHeard)
          BY DEF LabelInv, DisplayTypeOK
        <4>2. updates[i] \in 0 .. MaxHeard
          BY <4>1, Waiting
        <4> QED
          BY <4>2 DEF LabelInv, Behind
      <3> QED
        BY <3>1, InputsHeard
    <2>2. ASSUME NEW f \in Fields PROVE about <= inputs'[f] /\ shown[f] <= inputs'[f]
      BY InputsHeard DEF LabelInv, DisplayTypeOK, Behind
    <2> QED
      BY <2>1, <2>2 DEF Behind
  <1>3. ShownIsNew'
    BY <1>1 DEF LabelInv, ShownIsNew
  <1> QED
    BY <1>1, <1>2, <1>3 DEF LabelInv

\* The loop's thread keeps it.
LEMMA LoopCycleStep == ASSUME LabelInv, LoopCycle PROVE LabelInv'
  <1>1. /\ ~due /\ copying = {} /\ due' = TRUE /\ UNCHANGED <<inputs, updates, showing, about, shown>>
        /\ pdo = "loop" /\ pdo' = pdo
    BY DEF LoopCycle, label, LabelInv, Copying, Cycle
  <1>2. \/ heard' = heard /\ copying' = copying
        \/ heard < MaxHeard /\ heard' = heard + 1 /\ copying' = Fields
    BY DEF LoopCycle
  <1>3. /\ heard' \in 0 .. MaxHeard /\ copying' \subseteq Fields
        /\ inputs' \in [Fields -> 0 .. MaxHeard]
    BY <1>1, <1>2, InputsHeard DEF LabelInv, DisplayTypeOK
  <1>4. \A f \in Fields : inputs[f] = heard
    BY <1>1 DEF LabelInv, Copying
  <1>5. Copying'
    BY <1>1, <1>2, <1>4, InputsHeard DEF Copying
  <1>6. \A f \in Fields : inputs'[f] >= inputs[f]
    BY <1>1, InputsHeard
  <1> QED
    BY <1>1, <1>3, <1>5, <1>6, LabelKept

LEMMA CopyStep == ASSUME LabelInv, NEW f \in Fields, Copy(f) PROVE LabelInv'
  <1>1. /\ f \in copying /\ inputs' = [inputs EXCEPT ![f] = heard] /\ copying' = copying \ {f}
        /\ UNCHANGED <<heard, due, pdo, updates, showing, about, shown>>
    BY DEF Copy, vars, thread, label
  <1>2. due /\ inputs \in [Fields -> 0 .. MaxHeard] /\ copying \subseteq Fields
    BY <1>1 DEF LabelInv, Copying, DisplayTypeOK
  <1>3. /\ inputs' \in [Fields -> 0 .. MaxHeard] /\ copying' \subseteq Fields
        /\ \A g \in Fields : inputs'[g] = IF g = f THEN heard ELSE inputs[g]
    BY <1>1, <1>2, InputsHeard
  <1>4. Copying'
    BY <1>1, <1>2, <1>3 DEF LabelInv, Copying
  <1>5. \A g \in Fields : inputs'[g] >= inputs[g]
    BY <1>3, InputsHeard
  <1> QED
    BY <1>1, <1>2, <1>3, <1>4, <1>5, InputsHeard, LabelKept

LEMMA EmitStep == ASSUME LabelInv, Emit PROVE LabelInv'
  <1>1. /\ due /\ copying = {} /\ due' = FALSE
        /\ updates' = IF Len(updates) < MaxUpdates THEN Append(updates, heard) ELSE updates
        /\ UNCHANGED <<heard, inputs, copying, pdo, showing, about, shown>>
    BY DEF Emit, vars, thread, image, label
  <1>2. updates \in Seq(0 .. MaxHeard) /\ Len(updates) <= MaxUpdates /\ Len(updates) \in Nat
    BY DEF LabelInv, DisplayTypeOK
  <1>3. updates' \in Seq(0 .. MaxHeard) /\ Len(updates') <= MaxUpdates
    <2> DEFINE longer == Append(updates, heard)
    <2>1. heard \in 0 .. MaxHeard /\ MaxUpdates \in Nat
      BY InputsHeard
    <2>2. longer \in Seq(0 .. MaxHeard) /\ Len(longer) = Len(updates) + 1
      BY <1>2, <2>1
    <2> HIDE DEF longer
    <2>3. updates' \in {updates, longer} /\ (updates' = longer => Len(updates) < MaxUpdates)
      BY <1>1 DEF longer
    <2> QED
      BY <1>2, <2>1, <2>2, <2>3
  <1>4. DisplayTypeOK'
    BY <1>1, <1>3 DEF LabelInv, DisplayTypeOK
  <1>5. Copying'
    BY <1>1 DEF LabelInv, Copying
  <1>6. \A f \in Fields : inputs[f] = heard
    BY <1>1 DEF LabelInv, Copying
  <1>7. Behind'
    <2>1. ASSUME NEW i \in 1 .. Len(updates'), NEW f \in Fields PROVE updates'[i] <= inputs[f]
      <3>1. \/ i \in 1 .. Len(updates) /\ updates'[i] = updates[i]
            \/ updates'[i] = heard
        BY <1>1, <1>2
      <3> QED
        BY <1>6, <3>1, InputsHeard DEF LabelInv, Behind
    <2> QED
      BY <1>1, <2>1 DEF LabelInv, Behind
  <1>8. ShownIsNew'
    BY <1>1, <1>4 DEF LabelInv, ShownIsNew
  <1> QED
    BY <1>4, <1>5, <1>7, <1>8 DEF LabelInv

\* An exchange outside of the loop finds nothing half copied.
LEMMA ExchangeStep ==
  ASSUME LabelInv, ~due, Exchange \/ UNCHANGED image, UNCHANGED <<loop, updates, label>>
  PROVE  LabelInv'
  <1>1. copying = {} /\ ~due' /\ UNCHANGED <<copying, due, updates, showing, about, shown>>
    BY DEF loop, label, LabelInv, Copying
  <1>2. \/ heard' = heard /\ inputs' = inputs
        \/ heard < MaxHeard /\ heard' = heard + 1 /\ inputs' = [f \in Fields |-> heard + 1]
    BY DEF Exchange, image, Same
  <1>3. \A f \in Fields : inputs[f] = heard
    BY <1>1 DEF LabelInv, Copying
  <1>4. /\ heard' \in 0 .. MaxHeard /\ inputs' \in [Fields -> 0 .. MaxHeard]
        /\ \A f \in Fields : inputs'[f] = heard' /\ inputs'[f] >= inputs[f]
    BY <1>2, <1>3, InputsHeard DEF LabelInv, DisplayTypeOK
  <1>5. Copying'
    BY <1>1, <1>4 DEF Copying
  <1>6. copying' \subseteq Fields /\ due' \in BOOLEAN
    BY <1>1 DEF LabelInv, DisplayTypeOK
  <1> QED
    BY <1>1, <1>4, <1>5, <1>6, LabelKept

LEMMA ElsewhereStep ==
  ASSUME LabelInv, UNCHANGED displayVars, pdo' = pdo \/ pdo # "loop" \/ ~due
  PROVE  LabelInv'
  <1>1. UNCHANGED <<heard, inputs, copying, due, updates, showing, about, shown>>
    BY DEF displayVars, image, loop, label
  <1>2. Copying'
    BY <1>1 DEF LabelInv, Copying
  <1>3. \A f \in Fields : inputs'[f] >= inputs[f]
    BY <1>1, InputsHeard
  <1> QED
    BY <1>1, <1>2, <1>3, LabelKept DEF LabelInv, DisplayTypeOK

\* The handlers of the window keep it: none of them exchanges or ends a loop
\* that is in the middle of a cycle.
LEMMA HandlerStep == ASSUME IInv, LabelInv, Handler PROVE LabelInv'
  <1>1. UNCHANGED <<loop, updates, label>> /\ Window
    BY DEF Handler
  <1>2. CASE gui = "requestOp"
    <2>1. ~due
      BY <1>2 DEF Thread, LabelInv, Copying
    <2> QED
      BY <1>1, <1>2, <2>1, ExchangeStep DEF Handler
  <1>3. CASE gui # "requestOp"
    <2>1. UNCHANGED displayVars
      BY <1>1, <1>3 DEF Handler, displayVars
    <2>2. pdo' = pdo \/ pdo # "loop"
      BY <1>1, <1>3 DEF Window, onBtnInit, onBtnScan, onBtnStartOp, RequestOp, OpReached, OpTimeout,
         onBtnStopOp, close, WaitDone, WaitExpires, EndCheck, StopEnds, thread, Thread
    <2> QED
      BY <2>1, <2>2, ElsewhereStep
  <1> QED
    BY <1>2, <1>3

LEMMA BeginShowStep == ASSUME LabelInv, BeginShow PROVE LabelInv'
  <1>1. /\ ~showing /\ updates # <<>> /\ updates' = Tail(updates)
        /\ UNCHANGED <<heard, inputs, copying, due, pdo>>
    BY DEF BeginShow, vars, thread, image, loop
  <1>2. updates \in Seq(0 .. MaxHeard) /\ Len(updates) <= MaxUpdates
    BY DEF LabelInv, DisplayTypeOK
  <1>3. /\ updates' \in Seq(0 .. MaxHeard) /\ Len(updates') = Len(updates) - 1 /\ Len(updates) \in Nat
        /\ Len(updates') <= MaxUpdates /\ Head(updates) = updates[1] /\ 1 \in 1 .. Len(updates)
        /\ \A i \in 1 .. Len(updates') : i + 1 \in 1 .. Len(updates) /\ updates'[i] = updates[i + 1]
    BY <1>1, <1>2, InputsHeard
  <1>4. Head(updates) \in 0 .. MaxHeard /\ \A f \in Fields : Head(updates) <= inputs[f]
    <2>1. updates[1] \in 0 .. MaxHeard
      BY <1>2, <1>3, Waiting
    <2> QED
      BY <1>3, <2>1 DEF LabelInv, Behind
  <1>5. Copying'
    BY <1>1 DEF LabelInv, Copying
  <1>6. \A i \in 1 .. Len(updates') : \A f \in Fields : updates'[i] <= inputs[f]
    BY <1>3 DEF LabelInv, Behind
  <1>7. CASE UNCHANGED label
    <2>1. DisplayTypeOK'
      BY <1>1, <1>3, <1>7 DEF LabelInv, DisplayTypeOK, label
    <2> QED
      BY <1>1, <1>5, <1>6, <1>7, <2>1 DEF LabelInv, Behind, ShownIsNew, label
  <1>8. CASE /\ showing' = TRUE /\ about' = Head(updates)
             /\ shown' = [shown EXCEPT !["status"] = inputs["status"]]
    <2>1. /\ shown' \in [Fields -> 0 .. MaxHeard] /\ shown'["status"] = inputs["status"]
          /\ \A f \in Fields : shown'[f] <= inputs[f]
      BY <1>8, InputsHeard DEF LabelInv, DisplayTypeOK, Behind
    <2>2. DisplayTypeOK'
      BY <1>1, <1>3, <1>4, <1>8, <2>1 DEF LabelInv, DisplayTypeOK
    <2>3. Behind'
      BY <1>1, <1>4, <1>6, <1>8, <2>1 DEF Behind
    <2>4. ShownIsNew'
      BY <1>4, <1>8, <2>1, <2>2, InputsHeard DEF ShownIsNew
    <2> QED
      BY <1>5, <2>2, <2>3, <2>4 DEF LabelInv
  <1> QED
    BY <1>7, <1>8 DEF BeginShow

LEMMA EndShowStep == ASSUME LabelInv, EndShow PROVE LabelInv'
  <1>1. /\ showing /\ showing' = FALSE
        /\ shown' = [shown EXCEPT !["position"] = inputs["position"]]
        /\ UNCHANGED <<heard, inputs, copying, due, pdo, updates, about>>
    BY DEF EndShow, vars, thread, image, loop
  <1>2. /\ shown' \in [Fields -> 0 .. MaxHeard] /\ shown'["status"] = shown["status"]
        /\ shown'["position"] = inputs["position"] /\ \A f \in Fields : shown'[f] <= inputs[f]
    BY <1>1, InputsHeard DEF LabelInv, DisplayTypeOK, Behind
  <1>3. DisplayTypeOK' /\ Copying' /\ Behind'
    BY <1>1, <1>2 DEF LabelInv, DisplayTypeOK, Copying, Behind
  <1>4. /\ about <= inputs["position"] /\ about \in 0 .. MaxHeard
        /\ shown["status"] >= about /\ shown["status"] <= inputs["status"]
    BY <1>1, InputsHeard DEF LabelInv, Behind, ShownIsNew, DisplayTypeOK
  <1>5. ShownIsNew'
    <2>1. shown'["status"] >= about' /\ shown'["position"] >= about'
      BY <1>1, <1>2, <1>4
    <2>2. shown'["position"] >= shown'["status"] - 1
      BY <1>2, <1>4, InputsHeard
    <2> QED
      BY <1>1, <1>3, <2>1, <2>2 DEF ShownIsNew, Fields
  <1> QED
    BY <1>3, <1>5 DEF LabelInv

\* What the window shows is no older than what it was told of, and its fields
\* at most one answer apart, although it reads the IOmap while the loop's
\* thread writes it (PdoCycleThread::run, SoemMaster::onCycleData,
\* ETH::onPdoCycleUpdate).
THEOREM LabelIsNew == DisplaySpec => []ShownIsNew
  <1>1. IInv /\ LabelInv /\ [DisplayNext]_allVars => LabelInv'
    <2> SUFFICES ASSUME IInv, LabelInv, [DisplayNext]_allVars PROVE LabelInv'
      OBVIOUS
    <2>1. CASE LoopThread
      <3>1. CASE LastExchange
        BY <3>1, ExchangeStep DEF LastExchange
      <3> QED
        BY <2>1, <3>1, LoopCycleStep, CopyStep, EmitStep DEF LoopThread
    <2>2. CASE Elsewhere
      <3>1. pdo' = pdo \/ pdo # "loop"
        BY <2>2 DEF Elsewhere, RunBegins, CheckThread, CheckLoop, CheckEnds, SlaveObeys, SlaveDrops,
           thread
      <3> QED
        BY <2>2, <3>1, ElsewhereStep DEF Elsewhere
    <2>3. CASE UNCHANGED allVars
      BY <2>3, ElsewhereStep DEF allVars, vars, thread
    <2> QED
      BY <2>1, <2>2, <2>3, HandlerStep, BeginShowStep, EndShowStep DEF DisplayNext
  <1>2. LabelInv => ShownIsNew
    BY DEF LabelInv
  <1>3. DisplaySpec => []IInv
    BY DisplayIsMaster, Invariant, PTL
  <1> QED
    BY LabelInit, <1>1, <1>2, <1>3, PTL DEF DisplaySpec
=============================================================================
