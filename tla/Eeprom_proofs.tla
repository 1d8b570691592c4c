---------------------------- MODULE Eeprom_proofs ----------------------------
(***************************************************************************)
(* What Eeprom promises of the answers of its calls, for any EEPROM, any   *)
(* number of retries, calls, losses and failed commands, but for the three *)
(* exceptions AnswersAreTrue names.                                        *)
(*                                                                         *)
(* The argument follows a command: once the master has found the interface *)
(* free, what is under way in it is the call's own command; a call that    *)
(* was not blind goes on only when the interface has taken that command,   *)
(* and looks at the result only when it is done with it.                   *)
(***************************************************************************)
EXTENDS Eeprom, TLAPS

Dev == [there : BOOLEAN, pdi : BOOLEAN, busy : BOOLEAN, nack : BOOLEAN,
        write : BOOLEAN, adr : Adr, reg : Cell]
Call == [kind : {"none", "read", "read1", "write"}, adr : Adr, val : Cell,
         ret : Cell \cup {1}, loop : {"no", "tool", "dump"}, eectl : BOOLEAN]
Commanding == {"clear", "data", "command", "done?", "halfway"}
Pcs == {"idle", "own", "free?", "read", "end", "restore", "done"} \cup Commanding

Types ==
    /\ mem \in [Adr -> Cell] /\ ebuf \in [Adr -> Cell]
    /\ dev \in Dev /\ job \in Call /\ pc \in Pcs
    /\ cnt \in 0 .. EC_DEFAULTRETRIES /\ nackcnt \in 0 .. 2
    /\ blind \in BOOLEAN /\ eep_pdi \in BOOLEAN

\* Which calls get where.
Kinds ==
    /\ job.kind # "write" => job.ret \in Cell
    /\ job.loop = "dump" => job.kind = "read"
    /\ job.loop = "tool" => job.kind \in {"read", "write"}
    /\ pc = "data" => job.kind = "write"
    /\ pc = "read" => job.kind # "write"
    /\ pc = "halfway" => job.kind = "read1"
    /\ pc \in {"restore", "done"} => job.loop # "no"

\* The command that is under way is the call's own, with the word to write.
Written == job.kind = "write" => dev.reg = job.val
Own == /\ dev.write = (job.kind = "write") /\ dev.adr = job.adr
       /\ Written

\* What the call is for has been done.
Result == IF job.kind = "write" THEN mem[job.adr] = job.val ELSE dev.reg = mem[job.adr]

Command1 == pc \in Commanding /\ dev.busy => Own
Data == pc = "command" => Written
Taken == pc \in {"done?", "halfway"} => dev.busy \/ dev.nack \/ Result
Ready == pc = "read" => ~dev.busy /\ (Result \/ FailureUnseen)

\* A write that an earlier call has left behind changes no word that was read.
Writing == dev.busy /\ dev.write
Ended ==
    pc = "end" =>
        IF job.kind = "write" THEN job.ret = 1 => mem[job.adr] = job.val /\ ~dev.busy
        ELSE job.ret = 0 \/ FailureUnseen \/ (job.ret = mem[job.adr] /\ ~Writing)
Copied ==
    job.kind = "read" /\ job.loop # "no" =>
        \A a \in Adr : ebuf[a] = 0 \/ (ebuf[a] = mem[a] /\ ~Writing)
Stopped ==
    pc \in {"restore", "done"} /\ job.loop = "dump" =>
        job.adr = Words - 1 \/ (mem[job.adr] = Erased /\ ~Writing)

Faithful == Command1 /\ Data /\ Taken /\ Ready /\ Ended /\ Copied /\ Stopped
IInv == Types /\ Kinds /\ (~blind => Faithful)

-----------------------------------------------------------------------------
LEMMA Numbers == Words \in Nat /\ Words >= 1 /\ EC_DEFAULTRETRIES \in Nat
                 /\ 0 \in Adr /\ Values \subseteq Nat \ {0} /\ Erased \in Values
  BY EepromAssumption DEF EepromAssumption, Adr

LEMMA InitInv == Init => IInv
  <1> SUFFICES ASSUME Init PROVE IInv
    OBVIOUS
  <1>1. 0 \in Adr /\ 0 \in Cell /\ EC_DEFAULTRETRIES \in Nat /\ Values \subseteq Cell
    BY Numbers DEF Cell
  <1>2. dev \in Dev /\ dev.busy = FALSE
    BY <1>1 DEF Init, Dev
  <1>3. job \in Call /\ job.kind = "none" /\ job.loop = "no" /\ job.ret = 0
    BY <1>1 DEF Init, Nobody, Call
  <1>4. mem \in [Adr -> Cell] /\ ebuf \in [Adr -> Cell]
    BY <1>1 DEF Init
  <1>5. pc = "idle" /\ cnt = 0 /\ nackcnt = 0 /\ blind = FALSE /\ eep_pdi = FALSE
    BY DEF Init
  <1>6. Types
    <2>1. pc \in Pcs
      BY <1>5 DEF Pcs
    <2>2. cnt \in 0 .. EC_DEFAULTRETRIES /\ nackcnt \in 0 .. 2
      BY <1>1, <1>5
    <2>3. blind \in BOOLEAN /\ eep_pdi \in BOOLEAN
      BY <1>5
    <2> QED
      BY <1>2, <1>3, <1>4, <2>1, <2>2, <2>3 DEF Types
  <1>7. Kinds
    BY <1>1, <1>3, <1>5 DEF Kinds
  <1>8. Faithful
    BY <1>2, <1>3, <1>5 DEF Faithful, Command1, Data, Taken, Ready, Ended, Copied, Stopped, Commanding
  <1> QED
    BY <1>6, <1>7, <1>8 DEF IInv

-----------------------------------------------------------------------------
(* What a datagram does to the device.                                     *)

LEMMA CommandedDev ==
  ASSUME dev \in Dev, NEW write \in BOOLEAN, NEW adr \in Adr
  PROVE  LET d == Commanded(dev, write, adr)
         IN  /\ d \in Dev /\ d.reg = dev.reg /\ d.there = dev.there
             /\ \/ d = dev /\ (dev.pdi \/ dev.busy)
                \/ ~dev.pdi /\ ~dev.busy /\ d.busy /\ d.write = write /\ d.adr = adr
  <1>1. CASE dev.pdi \/ dev.busy
    BY <1>1 DEF Commanded
  <1>2. CASE ~(dev.pdi \/ dev.busy)
    <2> DEFINE d == [dev EXCEPT !.busy = TRUE, !.nack = FALSE, !.write = write, !.adr = adr]
    <2>1. /\ d \in Dev /\ d.reg = dev.reg /\ d.there = dev.there
          /\ d.busy /\ d.write = write /\ d.adr = adr
      BY DEF Dev
    <2> QED
      BY <1>2, <2>1 DEF Commanded
  <1> QED
    BY <1>1, <1>2

\* A register that is no command's: the interface stays busy with what it was.
LEMMA RegisterDev ==
  ASSUME dev \in Dev
  PROVE  /\ \A b \in BOOLEAN :
              LET d == [dev EXCEPT !.pdi = b]
              IN  /\ d \in Dev /\ d.busy = dev.busy /\ d.write = dev.write /\ d.adr = dev.adr
                  /\ d.reg = dev.reg /\ d.nack = dev.nack
         /\ LET d == [dev EXCEPT !.nack = FALSE]
            IN  /\ d \in Dev /\ d.busy = dev.busy /\ d.write = dev.write /\ d.adr = dev.adr
                /\ d.reg = dev.reg
         /\ \A v \in Cell :
              LET d == [dev EXCEPT !.reg = v]
              IN  /\ d \in Dev /\ d.busy = dev.busy /\ d.write = dev.write /\ d.adr = dev.adr
                  /\ d.reg = v /\ d.nack = dev.nack
  BY DEF Dev

\* The counters of a datagram that is sent again or was not.
LEMMA SendsOn ==
  ASSUME cnt \in 0 .. EC_DEFAULTRETRIES, NEW wkc \in Int, NEW next, Sends(wkc, next)
  PROVE  /\ cnt' \in 0 .. EC_DEFAULTRETRIES
         /\ IF Again(wkc) THEN pc' = pc ELSE pc' = next
  BY Numbers DEF Sends, Again

LEMMA WkcInt == \A o : \A taken \in BOOLEAN : Wkc(o, taken) \in Int
  BY DEF Wkc

\* What the end of a call leaves: its result.
LEMMA Returned ==
  ASSUME job \in Call, NEW ret \in Cell \cup {1}, Return(ret)
  PROVE  /\ cnt' = 0 /\ nackcnt' = 0 /\ pc' = "end" /\ job' \in Call /\ job'.ret = ret
         /\ job'.kind = job.kind /\ job'.adr = job.adr /\ job'.val = job.val
         /\ job'.loop = job.loop
  BY DEF Return, Call

-----------------------------------------------------------------------------
(* The device's own steps.                                                 *)

LEMMA ServeStep == ASSUME IInv, Serve PROVE IInv'
  <1>0. /\ Types /\ Kinds /\ dev.busy
        /\ dev' = [dev EXCEPT !.busy = FALSE, !.reg = IF dev.write THEN @ ELSE mem[dev.adr]]
        /\ mem' = IF dev.write THEN [mem EXCEPT ![dev.adr] = dev.reg] ELSE mem
        /\ UNCHANGED <<pc, job, cnt, nackcnt, blind, eep_pdi, ebuf>>
    BY DEF IInv, Serve, locals
  <1>1. dev.adr \in Adr /\ dev.reg \in Cell /\ mem[dev.adr] \in Cell
    BY <1>0 DEF Types, Dev
  <1>2. /\ dev' \in Dev /\ ~dev'.busy /\ dev'.write = dev.write /\ dev'.adr = dev.adr
        /\ dev'.nack = dev.nack
        /\ dev'.reg = IF dev.write THEN dev.reg ELSE mem[dev.adr]
    BY <1>0, <1>1 DEF Types, Dev
  <1>3. /\ mem' \in [Adr -> Cell]
        /\ \A a \in Adr : mem'[a] = IF dev.write /\ a = dev.adr THEN dev.reg ELSE mem[a]
    BY <1>0, <1>1 DEF Types
  <1>4. Types' /\ Kinds'
    BY <1>0, <1>2, <1>3 DEF Types, Kinds
  <1>5. job.adr \in Adr /\ (Own => Result')
    BY <1>0, <1>1, <1>2, <1>3 DEF Types, Call, Own, Written, Result
  <1>6. ASSUME Faithful PROVE Faithful'
    <2>1. Command1' /\ Taken' /\ Ready'
      BY <1>0, <1>2, <1>5, <1>6 DEF Faithful, Command1, Taken, Ready, Commanding, FailureUnseen
    <2>2. Data'
      <3> SUFFICES ASSUME pc = "command", job.kind = "write" PROVE dev'.reg = job.val
        BY <1>0 DEF Data, Written
      <3>1. dev.write /\ dev.reg = job.val
        BY <1>0, <1>6 DEF Faithful, Command1, Own, Data, Written, Commanding
      <3> QED
        BY <1>2, <3>1
    <2>3. Ended'
      BY <1>0, <1>2, <1>3, <1>5, <1>6 DEF Faithful, Ended, Writing, FailureUnseen
    <2>4. Copied'
      BY <1>0, <1>2, <1>3, <1>6 DEF Faithful, Copied, Writing
    <2>5. Stopped'
      BY <1>0, <1>2, <1>3, <1>5, <1>6 DEF Faithful, Stopped, Writing
    <2> QED
      BY <2>1, <2>2, <2>3, <2>4, <2>5 DEF Faithful
  <1> QED
    BY <1>0, <1>4, <1>6 DEF IInv

\* A command that failed changes no word, and is seen by its error.
LEMMA FailStep == ASSUME IInv, Fail PROVE IInv'
  <1>0. /\ Types /\ Kinds
        /\ dev' = [dev EXCEPT !.busy = FALSE, !.nack = TRUE]
        /\ UNCHANGED <<mem, pc, job, cnt, nackcnt, blind, eep_pdi, ebuf>>
    BY DEF IInv, Fail, locals
  <1>1. dev' \in Dev /\ ~dev'.busy /\ dev'.nack /\ dev'.reg = dev.reg
    BY <1>0 DEF Types, Dev
  <1>2. Types' /\ Kinds'
    BY <1>0, <1>1 DEF Types, Kinds
  <1>3. ASSUME Faithful PROVE Faithful'
    BY <1>0, <1>1, <1>3 DEF Faithful, Command1, Data, Taken, Ready, Ended, Copied, Stopped, Written,
       Result, Writing, FailureUnseen
  <1> QED
    BY <1>0, <1>2, <1>3 DEF IInv

\* What most steps leave alone, and what of the invariant stays with it.
LEMMA SameRegisters ==
  ASSUME IInv, dev' \in Dev, dev'.busy = dev.busy, dev'.write = dev.write, dev'.adr = dev.adr,
         dev'.reg = dev.reg, dev'.nack = dev.nack, UNCHANGED <<mem, job, nackcnt, blind, ebuf>>,
         eep_pdi' \in BOOLEAN, cnt' \in 0 .. EC_DEFAULTRETRIES,
         \/ pc' = pc
         \/ pc = "own" /\ pc' = "free?"
         \/ pc = "restore" /\ pc' = "done"
  PROVE  IInv'
  <1>1. Types' /\ Kinds'
    BY DEF IInv, Types, Kinds, Pcs
  <1>2. ASSUME Faithful PROVE Faithful'
    BY <1>2 DEF Faithful, Command1, Data, Taken, Ready, Ended, Copied, Stopped, Own, Written,
       Result, Writing, FailureUnseen, Commanding
  <1> QED
    BY <1>1, <1>2 DEF IInv

LEMMA VanishStep == ASSUME IInv, Vanish PROVE IInv'
  <1>1. dev \in Dev /\ dev' = [dev EXCEPT !.there = FALSE]
    BY DEF IInv, Types, Vanish
  <1>2. /\ dev' \in Dev /\ dev'.busy = dev.busy /\ dev'.write = dev.write /\ dev'.adr = dev.adr
        /\ dev'.reg = dev.reg /\ dev'.nack = dev.nack
    BY <1>1 DEF Dev
  <1> QED
    BY <1>2, SameRegisters DEF Vanish, locals, IInv, Types

-----------------------------------------------------------------------------
(* Who owns the EEPROM.                                                    *)

LEMMA OwnersDev ==
  ASSUME dev \in Dev, NEW o, NEW b \in BOOLEAN, Write(o, [dev EXCEPT !.pdi = b])
  PROVE  /\ dev' \in Dev /\ dev'.busy = dev.busy /\ dev'.write = dev.write /\ dev'.adr = dev.adr
         /\ dev'.reg = dev.reg /\ dev'.nack = dev.nack
  <1> DEFINE d == [dev EXCEPT !.pdi = b]
  <1>1. /\ d \in Dev /\ d.busy = dev.busy /\ d.write = dev.write /\ d.adr = dev.adr
        /\ d.reg = dev.reg /\ d.nack = dev.nack
    BY RegisterDev
  <1>2. dev' \in {dev, d}
    BY DEF Write
  <1> HIDE DEF d
  <1> QED
    BY <1>1, <1>2

LEMMA eeprom2masterStep == ASSUME IInv, NEW o, eeprom2master(o) PROVE IInv'
  <1>0. Types
    BY DEF IInv
  <1>1. CASE eep_pdi
    <2>1. /\ Write(o, [dev EXCEPT !.pdi = FALSE]) /\ Sends(Wkc(o, TRUE), "free?")
          /\ eep_pdi' \in BOOLEAN /\ pc = "own"
      BY <1>1 DEF eeprom2master, Again
    <2>2. cnt' \in 0 .. EC_DEFAULTRETRIES /\ pc' \in {pc, "free?"}
      <3>1. Wkc(o, TRUE) \in Int
        BY WkcInt
      <3> QED
        BY <1>0, <2>1, <3>1, SendsOn DEF Types
    <2> QED
      BY <1>0, <2>1, <2>2, OwnersDev, SameRegisters DEF eeprom2master, Types
  <1>2. CASE ~eep_pdi
    BY <1>0, <1>2, SameRegisters DEF eeprom2master, Types
  <1> QED
    BY <1>0, <1>1, <1>2 DEF Types

LEMMA ToolOwnsStep == ASSUME IInv, NEW o, ToolOwns(o) PROVE IInv'
  BY OwnersDev, SameRegisters DEF ToolOwns, IInv, Types, locals

LEMMA eeprom2pdiStep == ASSUME IInv, NEW o, eeprom2pdi(o) PROVE IInv'
  <1>1. cnt \in 0 .. EC_DEFAULTRETRIES /\ eep_pdi \in BOOLEAN /\ EC_DEFAULTRETRIES \in Nat
    BY Numbers DEF IInv, Types
  <1>2. cnt' \in 0 .. EC_DEFAULTRETRIES
    <2>1. (cnt' = cnt + 1 /\ cnt < EC_DEFAULTRETRIES) \/ cnt' = 0
      BY DEF eeprom2pdi, Again
    <2> QED
      BY <1>1, <2>1
  <1>3. eep_pdi' \in BOOLEAN /\ (pc' = pc \/ (pc = "restore" /\ pc' = "done"))
    BY <1>1 DEF eeprom2pdi
  <1> QED
    BY <1>2, <1>3, OwnersDev, SameRegisters DEF eeprom2pdi, IInv, Types

-----------------------------------------------------------------------------
(* The steps of a command.                                                 *)

\* A step of a call: it ends the call or goes to a step that Kinds allows.
LEMMA StepTypes ==
  ASSUME Types, Kinds, dev' \in Dev, UNCHANGED <<mem, ebuf, eep_pdi>>, blind' \in BOOLEAN,
         cnt' \in 0 .. EC_DEFAULTRETRIES, nackcnt' \in 0 .. 2, pc' \in Pcs \ {"restore", "done"},
         pc' = "data" => job.kind = "write",
         pc' = "read" => job.kind # "write", pc' = "halfway" => job.kind = "read1",
         \/ job' = job
         \/ \E ret \in Cell \cup {1} : Return(ret) /\ (job.kind # "write" => ret \in Cell)
  PROVE  /\ Types' /\ Kinds'
         /\ job'.kind = job.kind /\ job'.adr = job.adr /\ job'.val = job.val
         /\ job'.loop = job.loop
  <1>1. /\ job' \in Call /\ job'.kind = job.kind /\ job'.adr = job.adr /\ job'.val = job.val
        /\ job'.loop = job.loop /\ (job.kind # "write" => job'.ret \in Cell)
    BY Returned DEF Types, Kinds
  <1> QED
    BY <1>1 DEF Types, Kinds

\* While it waits or looks the device is as it was, and so is what was copied.
LEMMA StepCopied ==
  ASSUME Copied, UNCHANGED <<mem, ebuf>>, job'.kind = job.kind, job'.loop = job.loop,
         Writing' => Writing \/ job.kind = "write"
  PROVE  Copied'
  BY DEF Copied

LEMMA waitnotbusyStep == ASSUME IInv, NEW o, NEW late, waitnotbusy(o, late) PROVE IInv'
  <1>0. /\ Types /\ Kinds /\ pc = "free?" /\ UNCHANGED <<mem, dev, eep_pdi, ebuf>>
    BY DEF IInv, waitnotbusy, Poll
  <1>1. CASE UNCHANGED <<pc, job, cnt, nackcnt, blind>>
    BY <1>0, <1>1, SameRegisters DEF Types
  <1>2. CASE pc' = "halfway" /\ blind' = TRUE /\ UNCHANGED <<job, cnt, nackcnt>> /\ job.kind = "read1"
    <2>1. Types' /\ Kinds'
      BY <1>0, <1>2 DEF Types, Kinds, Pcs, Commanding
    <2> QED
      BY <1>2, <2>1 DEF IInv
  <1>3. CASE Return(0) /\ UNCHANGED blind
    <2>1. 0 \in Cell /\ cnt' = 0 /\ nackcnt' = 0 /\ pc' = "end" /\ job'.ret = 0
      BY <1>0, <1>3, Returned DEF Types, Cell
    <2>2. cnt' \in 0 .. EC_DEFAULTRETRIES /\ nackcnt' \in 0 .. 2
      BY <2>1, Numbers
    <2>3. Types' /\ Kinds' /\ job'.kind = job.kind /\ job'.loop = job.loop
      BY <1>0, <1>3, <2>1, <2>2, StepTypes DEF Types, Pcs
    <2>4. ASSUME Faithful PROVE Faithful'
      <3>1. Copied'
        BY <1>0, <2>3, <2>4, StepCopied DEF Faithful, Writing
      <3> QED
        BY <2>1, <3>1 DEF Faithful, Command1, Data, Taken, Ready, Ended, Stopped, Commanding
    <2> QED
      BY <1>0, <1>3, <2>3, <2>4 DEF IInv
  <1>4. CASE /\ pc' = (IF failed(o) THEN "clear" ELSE Sends1)
             /\ cnt' = 0 /\ MadeUp(o) /\ UNCHANGED <<job, nackcnt>>
             /\ (~answered(o) \/ ~dev.busy)
    <2>1. cnt' \in 0 .. EC_DEFAULTRETRIES /\ nackcnt' \in 0 .. 2 /\ blind' \in BOOLEAN
      <3>1. cnt' \in 0 .. EC_DEFAULTRETRIES
        BY <1>4, Numbers
      <3> QED
        BY <1>0, <1>4, <3>1 DEF Types, MadeUp, answered
    <2>2. pc' \in {"clear", "data", "command"} /\ (pc' = "data" => job.kind = "write")
          /\ (pc' = "command" => job.kind # "write")
      BY <1>4 DEF Sends1
    <2>3. Types' /\ Kinds'
      BY <1>0, <1>4, <2>1, <2>2 DEF Types, Kinds, Pcs, Commanding
    <2>4. ASSUME ~blind', Faithful PROVE Faithful'
      <3>1. ~dev'.busy
        BY <1>0, <1>4, <2>4 DEF MadeUp
      <3>2. Copied'
        BY <1>0, <1>4, <2>4, StepCopied DEF Faithful, Writing
      <3> QED
        BY <1>0, <1>4, <2>2, <3>1, <3>2
           DEF Faithful, Command1, Data, Taken, Ready, Ended, Stopped, Written
    <2>5. ~blind' => ~blind
      BY <1>0, <1>4 DEF MadeUp, Types
    <2> QED
      BY <2>3, <2>4, <2>5 DEF IInv
  <1> QED
    BY <1>1, <1>2, <1>3, <1>4 DEF waitnotbusy, GivesUp, busy, answered, locals

LEMMA ClearErrorStep == ASSUME IInv, NEW o, ClearError(o) PROVE IInv'
  <1>0. /\ Types /\ Kinds /\ pc = "clear" /\ pc' = Sends1
        /\ UNCHANGED <<mem, job, cnt, nackcnt, blind, eep_pdi, ebuf>>
    BY DEF IInv, ClearError, locals
  <1>1. dev \in Dev /\ dev' \in {dev, [dev EXCEPT !.nack = FALSE]}
    BY <1>0 DEF ClearError, Write, Types
  <1>2. /\ dev' \in Dev /\ dev'.busy = dev.busy /\ dev'.write = dev.write /\ dev'.adr = dev.adr
        /\ dev'.reg = dev.reg
    BY <1>1, RegisterDev
  <1>3. pc' \in {"data", "command"} /\ (pc' = "data" => job.kind = "write")
        /\ (pc' = "command" => job.kind # "write")
    BY <1>0 DEF Sends1
  <1>4. Types' /\ Kinds'
    BY <1>0, <1>2, <1>3 DEF Types, Kinds, Pcs, Commanding
  <1>5. ASSUME Faithful PROVE Faithful'
    <2>1. Copied'
      BY <1>0, <1>2, <1>5, StepCopied DEF Faithful, Writing
    <2> QED
      BY <1>0, <1>2, <1>3, <1>5, <2>1
         DEF Faithful, Command1, Data, Taken, Ready, Ended, Stopped, Own, Written, Commanding
  <1> QED
    BY <1>0, <1>4, <1>5 DEF IInv

LEMMA WriteDataStep == ASSUME IInv, NEW o, WriteData(o) PROVE IInv'
  <1> DEFINE wkc == Wkc(o, ~dev.pdi)
             d == IF dev.pdi \/ dev.busy THEN dev ELSE [dev EXCEPT !.reg = job.val]
  <1>0. /\ Types /\ Kinds /\ pc = "data" /\ job.kind = "write" /\ Sends(wkc, "command")
        /\ Write(o, d) /\ blind' = (blind \/ (wkc <= 0 /\ ~Again(wkc)))
        /\ UNCHANGED <<mem, job, nackcnt, eep_pdi, ebuf>>
    BY DEF IInv, WriteData, Kinds
  <1>1. dev \in Dev /\ job.val \in Cell /\ dev.pdi \in BOOLEAN /\ wkc \in Int
    BY <1>0, WkcInt DEF Types, Dev, Call
  <1>2. d \in Dev /\ d.busy = dev.busy /\ d.write = dev.write /\ d.adr = dev.adr
        /\ (d.reg = dev.reg \/ ~dev.busy) /\ (d.reg = job.val \/ dev.pdi \/ dev.busy)
    BY <1>1, RegisterDev
  <1>3. dev' \in {dev, d} /\ (wkc > 0 => dev' = d /\ ~dev.pdi)
    <2> HIDE DEF d
    <2> QED
      BY <1>0 DEF Write, Wkc
  <1>4. cnt' \in 0 .. EC_DEFAULTRETRIES /\ (IF Again(wkc) THEN pc' = pc ELSE pc' = "command")
    BY <1>0, <1>1, SendsOn DEF Types
  <1>5. (~blind' => ~blind /\ (Again(wkc) \/ wkc > 0)) /\ blind' \in BOOLEAN
    <2>1. ~(wkc <= 0) => wkc > 0
      BY <1>1
    <2> HIDE DEF wkc
    <2> QED
      BY <1>0, <2>1 DEF Types, Again
  <1> HIDE DEF wkc, d
  <1>6. dev' \in Dev /\ dev'.busy = dev.busy /\ dev'.write = dev.write /\ dev'.adr = dev.adr
    BY <1>1, <1>2, <1>3
  <1>7. Types' /\ Kinds'
    BY <1>0, <1>4, <1>5, <1>6 DEF Types, Kinds, Pcs, Commanding
  <1>8. ASSUME ~blind', Faithful PROVE Faithful'
    <2>1. dev.busy => Own
      BY <1>0, <1>8 DEF Faithful, Command1, Commanding
    <2>2. dev'.busy => Own'
      BY <1>0, <1>2, <1>3, <1>6, <2>1 DEF Own, Written
    <2>3. pc' = "command" => Written'
      BY <1>0, <1>2, <1>3, <1>4, <1>5, <1>8, <2>1 DEF Own, Written
    <2>4. Copied'
      BY <1>0, <1>6, <1>8, StepCopied DEF Faithful, Writing
    <2> QED
      BY <1>0, <1>4, <2>2, <2>3, <2>4
         DEF Faithful, Command1, Data, Taken, Ready, Ended, Stopped
  <1> QED
    BY <1>5, <1>7, <1>8 DEF IInv

LEMMA CommandStep == ASSUME IInv, NEW o, Command(o) PROVE IInv'
  <1> DEFINE wkc == Wkc(o, ~dev.pdi)
             d == Commanded(dev, job.kind = "write", job.adr)
             next == IF job.kind = "read1" THEN "halfway" ELSE "done?"
  <1>0. /\ Types /\ Kinds /\ pc = "command" /\ Write(o, d)
        /\ blind' = (blind \/ (wkc <= 0 /\ ~Again(wkc)))
        /\ UNCHANGED <<mem, eep_pdi, ebuf>>
    BY DEF IInv, Command
  <1>1. dev \in Dev /\ job \in Call /\ job.adr \in Adr /\ dev.pdi \in BOOLEAN /\ wkc \in Int
    BY <1>0, WkcInt DEF Types, Dev, Call
  <1>2. /\ d \in Dev /\ d.reg = dev.reg
        /\ \/ d = dev /\ (dev.pdi \/ dev.busy)
           \/ ~dev.busy /\ d.busy /\ d.write = (job.kind = "write") /\ d.adr = job.adr
    BY <1>1, CommandedDev
  <1>3. dev' \in {dev, d} /\ (wkc > 0 => dev' = d /\ ~dev.pdi)
    <2> HIDE DEF d
    <2> QED
      BY <1>0 DEF Write, Wkc
  <1>4. (~blind' => ~blind /\ (Again(wkc) \/ wkc > 0)) /\ blind' \in BOOLEAN
    <2>1. ~(wkc <= 0) => wkc > 0
      BY <1>1
    <2> HIDE DEF wkc
    <2> QED
      BY <1>0, <2>1 DEF Types, Again
  <1>5. dev' \in Dev /\ dev'.reg = dev.reg
    BY <1>1, <1>2, <1>3
  <1>6. ASSUME Sends(wkc, next), UNCHANGED <<job, nackcnt>> PROVE IInv'
    <2>1. cnt' \in 0 .. EC_DEFAULTRETRIES /\ (IF Again(wkc) THEN pc' = pc ELSE pc' = next)
      <3> HIDE DEF next, wkc
      <3> QED
        BY <1>0, <1>1, <1>6, SendsOn DEF Types
    <2>2. Types' /\ Kinds'
      BY <1>0, <1>4, <1>5, <1>6, <2>1 DEF Types, Kinds, Pcs, Commanding
    <2> HIDE DEF wkc, d
    <2>3. ASSUME ~blind', Faithful PROVE Faithful'
      <3>1. Written /\ (dev.busy => Own)
        BY <1>0, <2>3 DEF Faithful, Command1, Data, Commanding
      <3>2. (dev'.busy => Own') /\ Written'
        BY <1>2, <1>3, <1>5, <1>6, <3>1 DEF Own, Written
      <3>3. pc' = next => dev'.busy
        BY <1>0, <1>2, <1>3, <1>4, <2>1, <2>3
      <3>4. Writing' => Writing \/ job.kind = "write"
        BY <1>2, <1>3 DEF Writing
      <3>5. Copied'
        BY <1>0, <1>6, <2>3, <3>4, StepCopied DEF Faithful
      <3> QED
        BY <1>0, <2>1, <3>2, <3>3, <3>5
           DEF Faithful, Command1, Data, Taken, Ready, Ended, Stopped
    <2> QED
      BY <1>4, <2>2, <2>3 DEF IInv
  <1>7. ASSUME ~Again(wkc), wkc = 0, pc' = Sends1, cnt' = 0, UNCHANGED <<job, nackcnt>>
        PROVE  IInv'
    <2>1. blind'
      <3>1. wkc <= 0
        BY <1>7
      <3> HIDE DEF wkc
      <3> QED
        BY <1>0, <1>7, <3>1
    <2>2. cnt' \in 0 .. EC_DEFAULTRETRIES
      BY <1>7, Numbers
    <2>3. Types' /\ Kinds'
      BY <1>0, <1>4, <1>5, <1>7, <2>2 DEF Types, Kinds, Pcs, Commanding, Sends1
    <2> QED
      BY <2>1, <2>3 DEF IInv
  <1>8. ASSUME ~Again(wkc), wkc = 0, Return(0) PROVE IInv'
    <2>1. blind'
      <3>1. wkc <= 0
        BY <1>8
      <3> HIDE DEF wkc
      <3> QED
        BY <1>0, <1>8, <3>1
    <2>2. 0 \in Cell /\ cnt' = 0 /\ nackcnt' = 0 /\ pc' = "end"
      BY <1>8 DEF Cell, Return
    <2>3. cnt' \in 0 .. EC_DEFAULTRETRIES /\ nackcnt' \in 0 .. 2
      BY <2>2, Numbers
    <2>4. Types' /\ Kinds'
      BY <1>0, <1>4, <1>5, <1>8, <2>2, <2>3, StepTypes DEF Pcs
    <2> QED
      BY <2>1, <2>4 DEF IInv
  <1>9. \/ Sends(wkc, next) /\ UNCHANGED <<job, nackcnt>>
        \/ ~Again(wkc) /\ wkc = 0 /\ pc' = Sends1 /\ cnt' = 0 /\ UNCHANGED <<job, nackcnt>>
        \/ ~Again(wkc) /\ wkc = 0 /\ Return(0)
    BY Zenon DEF Command
  <1> QED
    BY <1>6, <1>7, <1>8, <1>9

\* A call that ends: what its result is worth, when it was not blind.
LEMMA EndStep ==
  ASSUME IInv, UNCHANGED <<mem, dev, ebuf, eep_pdi>>, blind' \in BOOLEAN, ~blind' => ~blind,
         NEW ret \in Cell \cup {1}, Return(ret), job.kind # "write" => ret \in Cell,
         ~blind' /\ Faithful =>
            IF job.kind = "write" THEN ret = 1 => mem[job.adr] = job.val /\ ~dev.busy
            ELSE ret = 0 \/ FailureUnseen \/ (ret = mem[job.adr] /\ ~Writing)
  PROVE  IInv'
  <1>0. Types /\ Kinds /\ 0 \in 0 .. 2 /\ 0 \in 0 .. EC_DEFAULTRETRIES
    BY Numbers DEF IInv
  <1>1. cnt' = 0 /\ nackcnt' = 0 /\ pc' = "end" /\ job'.ret = ret
    BY <1>0, Returned DEF Types
  <1>2. /\ Types' /\ Kinds' /\ job'.kind = job.kind /\ job'.adr = job.adr /\ job'.val = job.val
        /\ job'.loop = job.loop
    BY <1>0, <1>1, StepTypes DEF Pcs, Types
  <1>3. ASSUME ~blind', Faithful PROVE Faithful'
    <2>1. Copied'
      BY <1>2, <1>3, StepCopied DEF Faithful, Writing
    <2>2. Ended'
      BY <1>1, <1>2, <1>3 DEF Ended, Writing, FailureUnseen
    <2> QED
      BY <1>1, <2>1, <2>2 DEF Faithful, Command1, Data, Taken, Ready, Stopped, Commanding
  <1> QED
    BY <1>2, <1>3 DEF IInv

LEMMA CommandDoneStep == ASSUME IInv, NEW o, NEW late, CommandDone(o, late) PROVE IInv'
  <1> DEFINE n == IF failed(o) THEN nackcnt + 1 ELSE nackcnt
  <1>0. /\ Types /\ Kinds /\ pc = "done?" /\ UNCHANGED <<mem, dev, eep_pdi, ebuf>>
    BY DEF IInv, CommandDone, Poll
  <1>1. CASE UNCHANGED <<pc, job, cnt, nackcnt, blind>>
    BY <1>0, <1>1, SameRegisters DEF Types
  <1>2. CASE /\ UNCHANGED <<blind, job>> /\ n \in 1 .. 2 /\ pc' = Sends1 /\ nackcnt' = n /\ cnt' = 0
    <2>1. cnt' \in 0 .. EC_DEFAULTRETRIES /\ nackcnt' \in 0 .. 2
      <3> HIDE DEF n
      <3> QED
        BY <1>2, Numbers
    <2>2. Types' /\ Kinds'
      BY <1>0, <1>2, <2>1 DEF Types, Kinds, Pcs, Commanding, Sends1
    <2>3. ASSUME Faithful PROVE Faithful'
      <3>1. Copied'
        BY <1>0, <1>2, <2>3, StepCopied DEF Faithful, Writing
      <3> QED
        BY <1>0, <1>2, <2>3, <3>1 DEF Faithful, Command1, Data, Taken, Ready, Ended, Stopped,
           Own, Written, Sends1, Commanding
    <2> QED
      BY <1>0, <1>2, <2>2, <2>3 DEF IInv
  <1>3. CASE UNCHANGED blind /\ Return(0)
    <2>1. 0 \in Cell /\ blind \in BOOLEAN
      BY <1>0 DEF Cell, Types
    <2> QED
      BY <1>0, <1>3, <2>1, EndStep
  <1>4. ASSUME ~Waits(o, late), ~busy(o), ~failed(o), MadeUp(o)
        PROVE  /\ blind' \in BOOLEAN /\ (~blind' => ~blind)
               /\ ~blind' /\ Faithful => Result /\ ~dev.busy
    <2>1. blind' \in BOOLEAN /\ (~blind' => ~blind /\ answered(o))
      BY <1>0, <1>4 DEF MadeUp, Types, answered
    <2>2. answered(o) => ~dev.busy /\ ~dev.nack
      BY <1>4 DEF busy, failed, answered
    <2> QED
      BY <1>0, <2>1, <2>2 DEF Faithful, Taken
  <1>5. CASE /\ ~Waits(o, late) /\ ~busy(o) /\ ~failed(o) /\ MadeUp(o)
             /\ job.kind = "write" /\ Return(1)
    BY <1>0, <1>4, <1>5, EndStep DEF Result
  <1>6. CASE /\ ~Waits(o, late) /\ ~busy(o) /\ ~failed(o) /\ MadeUp(o)
             /\ job.kind # "write" /\ pc' = "read" /\ nackcnt' = 0 /\ cnt' = 0 /\ UNCHANGED job
    <2>1. cnt' \in 0 .. EC_DEFAULTRETRIES /\ nackcnt' \in 0 .. 2
      BY <1>6, Numbers
    <2>2. Types' /\ Kinds'
      BY <1>0, <1>4, <1>6, <2>1 DEF Types, Kinds, Pcs
    <2>3. ASSUME ~blind', Faithful PROVE Faithful'
      <3>1. Copied'
        BY <1>0, <1>6, <2>3, StepCopied DEF Faithful, Writing
      <3>2. Ready'
        BY <1>0, <1>4, <1>6, <2>3 DEF Ready, Result
      <3> QED
        BY <1>6, <3>1, <3>2 DEF Faithful, Command1, Data, Taken, Ended, Stopped, Commanding
    <2> QED
      BY <1>4, <1>6, <2>2, <2>3 DEF IInv
  <1> QED
    BY <1>1, <1>2, <1>3, <1>5, <1>6, Zenon DEF CommandDone, locals

LEMMA ReadDataStep == ASSUME IInv, NEW o, ReadData(o) PROVE IInv'
  <1>0. /\ Types /\ Kinds /\ pc = "read" /\ job.kind # "write"
        /\ UNCHANGED <<mem, dev, eep_pdi, ebuf, blind>>
    BY DEF IInv, ReadData, Read, Kinds
  <1>1. CASE Again(Wkc(o, TRUE)) /\ cnt' = cnt + 1 /\ UNCHANGED <<pc, job, nackcnt>>
    <2>1. cnt' \in 0 .. EC_DEFAULTRETRIES
      <3>1. cnt < EC_DEFAULTRETRIES
        BY <1>1 DEF Again
      <3> QED
        BY <1>0, <1>1, <3>1, Numbers DEF Types
    <2> QED
      BY <1>0, <1>1, <2>1, SameRegisters DEF Types
  <1>2. CASE Return(IF answered(o) THEN dev.reg ELSE 0)
    <2> DEFINE ret == IF answered(o) THEN dev.reg ELSE 0
    <2>1. ret \in Cell
      BY <1>0 DEF Types, Dev, Cell
    <2>2. ret = 0 \/ ret = dev.reg
      OBVIOUS
    <2>3. Return(ret)
      BY <1>2
    <2> HIDE DEF ret
    <2>4. Faithful => ret = 0 \/ FailureUnseen \/ (ret = mem[job.adr] /\ ~Writing)
      BY <1>0, <2>2 DEF Faithful, Ready, Result, Writing
    <2> QED
      BY <1>0, <2>1, <2>3, <2>4, EndStep DEF Types
  <1> QED
    BY <1>1, <1>2, Zenon DEF ReadData

LEMMA readeeprom2Step == ASSUME IInv, NEW o, NEW late, readeeprom2(o, late) PROVE IInv'
  <1>0. /\ Types /\ Kinds /\ pc = "halfway" /\ job.kind # "write"
        /\ UNCHANGED <<mem, dev, eep_pdi, ebuf>>
    BY DEF IInv, readeeprom2, Poll, Kinds
  <1>1. CASE UNCHANGED <<pc, job, cnt, nackcnt, blind>>
    BY <1>0, <1>1, SameRegisters DEF Types
  <1>2. CASE Return(0) /\ UNCHANGED blind
    <2>1. 0 \in Cell /\ blind \in BOOLEAN
      BY <1>0 DEF Cell, Types
    <2> QED
      BY <1>0, <1>2, <2>1, EndStep
  <1>3. CASE /\ ~busy(o) /\ pc' = "read" /\ cnt' = 0 /\ UNCHANGED <<job, nackcnt>>
             /\ MadeUp(o)
    <2>1. cnt' \in 0 .. EC_DEFAULTRETRIES
      BY <1>3, Numbers
    <2>2. blind' \in BOOLEAN /\ (~blind' => ~blind /\ answered(o))
      BY <1>0, <1>3 DEF Types, MadeUp, answered
    <2>3. answered(o) => ~dev.busy
      BY <1>3 DEF busy, answered
    <2>4. Types' /\ Kinds'
      BY <1>0, <1>3, <2>1, <2>2 DEF Types, Kinds, Pcs
    <2>5. ASSUME ~blind', Faithful PROVE Faithful'
      <3>1. Copied'
        BY <1>0, <1>3, <2>5, StepCopied DEF Faithful, Writing
      <3>2. Ready'
        <4>1. job.kind = "read1"
          BY <1>0 DEF Kinds
        <4> QED
          BY <1>0, <1>3, <2>2, <2>3, <2>5, <4>1 DEF Faithful, Taken, Ready, Result, FailureUnseen
      <3> QED
        BY <1>3, <3>1, <3>2 DEF Faithful, Command1, Data, Taken, Ended, Stopped, Commanding
    <2> QED
      BY <2>2, <2>4, <2>5 DEF IInv
  <1> QED
    BY <1>1, <1>2, <1>3, Zenon DEF readeeprom2, locals

-----------------------------------------------------------------------------
(* The calls and the loops around them.                                    *)

\* A call starts with an empty copy, or with none that it fills.
LEMMA BeginStep ==
  ASSUME IInv, NEW new \in Call, Begin(new), ebuf' \in [Adr -> Cell], new.ret = 0,
         new.loop = "dump" => new.kind = "read", new.loop = "tool" => new.kind \in {"read", "write"},
         new.kind = "read" /\ new.loop # "no" => ebuf' = [a \in Adr |-> 0]
  PROVE  IInv'
  <1>1. Types' /\ Kinds'
    <2>1. 0 \in Cell /\ 0 \in 0 .. 2 /\ 0 \in 0 .. EC_DEFAULTRETRIES
      BY Numbers DEF Cell
    <2> QED
      BY <2>1 DEF IInv, Begin, Types, Kinds, Pcs
  <1>2. Copied'
    BY DEF Begin, Copied
  <1> QED
    BY <1>1, <1>2 DEF Begin, IInv, Faithful, Command1, Data, Taken, Ready, Ended, Stopped, Commanding

LEMMA JobCall ==
  ASSUME IInv, NEW kind \in {"read", "read1", "write"}, NEW adr \in Adr, NEW val \in Cell,
         NEW loop \in {"no", "tool", "dump"}
  PROVE  LET j == Job(kind, adr, val, loop)
         IN  /\ j \in Call /\ j.kind = kind /\ j.loop = loop /\ j.adr = adr /\ j.ret = 0
             /\ j.val = val
  <1>1. eep_pdi \in BOOLEAN /\ 0 \in Cell
    BY DEF IInv, Types, Cell
  <1> QED
    BY <1>1 DEF Job, Call

LEMMA CallsStep == ASSUME IInv, Calls PROVE IInv'
  <1>0. /\ ebuf \in [Adr -> Cell] /\ [a \in Adr |-> 0] \in [Adr -> Cell] /\ 0 \in Adr
        /\ 0 \in Cell /\ Values \subseteq Cell
    BY Numbers DEF IInv, Types, Cell
  <1>1. ASSUME NEW a \in Adr, readeeprom(a) PROVE IInv'
    <2> DEFINE j == Job("read", a, 0, "no")
    <2>1. j \in Call /\ j.kind = "read" /\ j.loop = "no" /\ j.ret = 0
      BY <1>0, JobCall
    <2> HIDE DEF j
    <2> QED
      BY <1>0, <1>1, <2>1, BeginStep DEF readeeprom, j
  <1>2. ASSUME NEW a \in Adr, readeeprom1(a) PROVE IInv'
    <2> DEFINE j == Job("read1", a, 0, "no")
    <2>1. j \in Call /\ j.kind = "read1" /\ j.loop = "no" /\ j.ret = 0
      BY <1>0, JobCall
    <2> HIDE DEF j
    <2> QED
      BY <1>0, <1>2, <2>1, BeginStep DEF readeeprom1, j
  <1>3. ASSUME NEW a \in Adr, NEW v \in Values, writeeeprom(a, v) PROVE IInv'
    <2> DEFINE j == Job("write", a, v, "no")
    <2>1. j \in Call /\ j.kind = "write" /\ j.loop = "no" /\ j.ret = 0
      BY <1>0, JobCall
    <2> HIDE DEF j
    <2> QED
      BY <1>0, <1>3, <2>1, BeginStep DEF writeeeprom, j
  <1>4. CASE eeprom_read
    <2> DEFINE j == Job("read", 0, 0, "tool")
    <2>1. j \in Call /\ j.kind = "read" /\ j.loop = "tool" /\ j.ret = 0
      BY <1>0, JobCall
    <2> HIDE DEF j
    <2> QED
      BY <1>0, <1>4, <2>1, BeginStep DEF eeprom_read, readeepromAP, j
  <1>5. CASE esidump
    <2> DEFINE j == Job("read", 0, 0, "dump")
    <2>1. j \in Call /\ j.kind = "read" /\ j.loop = "dump" /\ j.ret = 0
      BY <1>0, JobCall
    <2> HIDE DEF j
    <2> QED
      BY <1>0, <1>5, <2>1, BeginStep DEF esidump, j
  <1>6. ASSUME NEW file \in [Adr -> Values], eeprom_write(file) PROVE IInv'
    <2> DEFINE j == Job("write", 0, file[0], "tool")
    <2>1. file \in [Adr -> Cell] /\ file[0] \in Cell
      BY <1>0
    <2>2. j \in Call /\ j.kind = "write" /\ j.loop = "tool" /\ j.ret = 0
      BY <1>0, <2>1, JobCall
    <2> HIDE DEF j
    <2> QED
      BY <1>6, <2>1, <2>2, BeginStep DEF eeprom_write, writeeepromAP, j
  <1> QED
    BY <1>1, <1>2, <1>3, <1>4, <1>5, <1>6 DEF Calls

\* A word that was read goes into the copy.
LEMMA CopyWord ==
  ASSUME Types, Kinds, pc = "end", job.kind = "read", job.loop # "no",
         ebuf' = [ebuf EXCEPT ![job.adr] = job.ret], UNCHANGED <<mem, dev>>
  PROVE  /\ ebuf' \in [Adr -> Cell]
         /\ Ended /\ Copied => \A a \in Adr : ebuf'[a] = 0 \/ (ebuf'[a] = mem[a] /\ ~Writing)
  <1>1. job.adr \in Adr /\ job.ret \in Cell
    BY DEF Types, Call, Kinds
  <1> QED
    BY <1>1 DEF Types, Ended, Copied, FailureUnseen

LEMMA ToolGoesOnStep == ASSUME IInv, ToolGoesOn PROVE IInv'
  <1>0. /\ Types /\ Kinds /\ pc = "end" /\ job.loop = "tool"
        /\ job \in Call /\ job.adr \in Adr
        /\ ebuf' = IF job.kind = "read" THEN [ebuf EXCEPT ![job.adr] = job.ret] ELSE ebuf
        /\ UNCHANGED <<mem, dev, cnt, nackcnt, blind, eep_pdi>>
    BY DEF IInv, ToolGoesOn, locals, Types, Call
  <1>1. ebuf' \in [Adr -> Cell]
    BY <1>0, CopyWord DEF Types
  <1>2. /\ job' \in Call /\ job'.kind \in {"read", "write"}
        /\ job'.loop = "tool" /\ (job'.ret \in Cell \/ job'.kind = "write")
        /\ job'.kind = "read" => job.kind = "read"
        /\ pc' \in {"free?", "done"}
    <2>1. CASE job.adr + 1 < Words
      <3>1. job.adr + 1 \in Adr
        BY <1>0, <2>1, Numbers DEF Adr
      <3>2. ebuf[job.adr + 1] \in Cell /\ 0 \in Cell
        BY <1>0, <3>1 DEF Types, Cell
      <3>3. CASE job.kind = "write"
        <4> DEFINE j == Job("write", job.adr + 1, ebuf[job.adr + 1], "tool")
        <4>1. j \in Call /\ j.kind = "write" /\ j.loop = "tool"
          BY <3>1, <3>2, JobCall
        <4>2. job' = j /\ pc' = "free?"
          BY <2>1, <3>3 DEF ToolGoesOn, writeeepromAP
        <4> HIDE DEF j
        <4> QED
          BY <4>1, <4>2
      <3>4. CASE job.kind = "read"
        <4> DEFINE j == Job("read", job.adr + 1, 0, "tool")
        <4>1. j \in Call /\ j.kind = "read" /\ j.loop = "tool" /\ j.ret = 0
          BY <3>1, <3>2, JobCall
        <4>2. job' = j /\ pc' = "free?"
          BY <2>1, <3>4 DEF ToolGoesOn, readeepromAP
        <4> HIDE DEF j
        <4> QED
          BY <3>2, <3>4, <4>1, <4>2
      <3> QED
        BY <1>0, <3>3, <3>4 DEF Kinds
    <2>2. CASE ~(job.adr + 1 < Words)
      <3>1. pc' = "done" /\ job' = job
        BY <2>2 DEF ToolGoesOn
      <3> QED
        BY <1>0, <3>1 DEF Kinds, Call
    <2> QED
      BY <2>1, <2>2
  <1>3. Types' /\ Kinds'
    BY <1>0, <1>1, <1>2 DEF Types, Kinds, Pcs, Commanding
  <1>4. ASSUME Faithful PROVE Faithful'
    <2>1. Copied'
      BY <1>0, <1>2, <1>4, CopyWord DEF Faithful, Copied, Writing
    <2> QED
      BY <1>2, <2>1
         DEF Faithful, Command1, Data, Taken, Ready, Ended, Stopped, Commanding
  <1> QED
    BY <1>0, <1>3, <1>4 DEF IInv

LEMMA DumpGoesOnStep == ASSUME IInv, DumpGoesOn PROVE IInv'
  <1>0. /\ Types /\ Kinds /\ pc = "end" /\ job.loop = "dump" /\ job.kind = "read"
        /\ job \in Call /\ job.adr \in Adr
        /\ ebuf' = [ebuf EXCEPT ![job.adr] = job.ret]
        /\ UNCHANGED <<mem, dev, cnt, nackcnt, blind, eep_pdi>>
    BY DEF IInv, DumpGoesOn, locals, Types, Kinds, Call
  <1>1. ebuf' \in [Adr -> Cell]
    BY <1>0, CopyWord
  <1>2. /\ job' \in Call /\ job'.kind = "read" /\ job'.loop = "dump" /\ job'.ret = job.ret
        /\ \/ pc' = "free?"
           \/ /\ pc' \in {"restore", "done"} /\ job' = job
              /\ job.adr = Words - 1 \/ job.ret = Erased
    <2>1. CASE job.adr + 1 < Words /\ job.ret # Erased
      <3>1. job.adr + 1 \in Adr
        BY <1>0, <2>1, Numbers DEF Adr
      <3>2. job' = [job EXCEPT !.adr = job.adr + 1] /\ pc' = "free?"
        BY <2>1 DEF DumpGoesOn
      <3> QED
        BY <1>0, <3>1, <3>2 DEF Call
    <2>2. CASE ~(job.adr + 1 < Words /\ job.ret # Erased)
      <3>1. pc' \in {"restore", "done"} /\ job' = job
        BY <2>2 DEF DumpGoesOn
      <3>2. job.adr = Words - 1 \/ job.ret = Erased
        BY <1>0, <2>2, Numbers DEF Adr
      <3> QED
        BY <1>0, <3>1, <3>2
    <2> QED
      BY <2>1, <2>2
  <1>3. Types' /\ Kinds'
    BY <1>0, <1>1, <1>2 DEF Types, Kinds, Pcs, Commanding
  <1>4. ASSUME Faithful PROVE Faithful'
    <2>1. Copied'
      BY <1>0, <1>2, <1>4, CopyWord DEF Faithful, Copied, Writing
    <2>2. Stopped'
      <3>1. Erased # 0
        BY Numbers
      <3> QED
        BY <1>0, <1>2, <1>4, <3>1 DEF Faithful, Ended, Stopped, Writing, FailureUnseen
    <2> QED
      BY <1>2, <2>1, <2>2 DEF Faithful, Command1, Data, Taken, Ready, Ended, Commanding
  <1> QED
    BY <1>0, <1>3, <1>4 DEF IInv

LEMMA FinishStep == ASSUME IInv, Finish PROVE IInv'
  <1>0. Types /\ Kinds /\ pc' = "idle" /\ job' = Nobody /\ blind' = FALSE
        /\ UNCHANGED <<mem, dev, cnt, nackcnt, eep_pdi, ebuf>>
    BY DEF IInv, Finish
  <1>1. job' \in Call /\ job'.kind = "none" /\ job'.loop = "no" /\ job'.ret = 0 /\ 0 \in Cell
    BY <1>0, Numbers DEF Nobody, Call, Cell
  <1>2. Types' /\ Kinds'
    BY <1>0, <1>1 DEF Types, Kinds, Pcs
  <1>3. Faithful'
    BY <1>0, <1>1 DEF Faithful, Command1, Data, Taken, Ready, Ended, Copied, Stopped, Commanding
  <1> QED
    BY <1>2, <1>3 DEF IInv

-----------------------------------------------------------------------------
LEMMA StutterStep == ASSUME IInv, UNCHANGED vars PROVE IInv'
  <1>1. Types /\ UNCHANGED <<mem, dev, pc, job, cnt, nackcnt, blind, eep_pdi, ebuf>>
    BY DEF IInv, vars, locals
  <1> QED
    BY <1>1, SameRegisters DEF Types

LEMMA MasterStep == ASSUME IInv, Master PROVE IInv'
  <1>1. ASSUME NEW late, Steps(late) PROVE IInv'
    <2>1. PICK o \in Outcomes :
            \/ eeprom2master(o) \/ ToolOwns(o) \/ waitnotbusy(o, late) \/ ClearError(o)
            \/ WriteData(o) \/ Command(o) \/ CommandDone(o, late)
            \/ ReadData(o) \/ readeeprom2(o, late) \/ (pc = "restore" /\ eeprom2pdi(o))
      BY <1>1, Zenon DEF Steps
    <2> QED
      BY <2>1, eeprom2masterStep, ToolOwnsStep, waitnotbusyStep, ClearErrorStep, WriteDataStep,
         CommandStep, CommandDoneStep, ReadDataStep, readeeprom2Step, eeprom2pdiStep, Zenon
  <1> QED
    BY <1>1, ToolGoesOnStep, DumpGoesOnStep, FinishStep DEF Master

\* The invariant holds in every reachable state.
THEOREM Invariant == Spec => []IInv
  <1>1. IInv /\ [Next]_vars => IInv'
    BY CallsStep, MasterStep, eeprom2pdiStep, ServeStep, FailStep, VanishStep, StutterStep DEF Next
  <1> QED
    BY InitInv, <1>1, PTL DEF Spec

\* A call of which no command was given up, no status unanswered and no command
\* of the split read failed gives the word at its address or nothing, writes what
\* it reports as written, and copies no wrong word (ecx_readeepromFP,
\* ecx_writeeepromFP, ecx_readeeprom2, ecx_esidump and the loops of eepromtool).
THEOREM TrueAnswers == Spec => []AnswersAreTrue
  <1>1. IInv => AnswersAreTrue
    <2> SUFFICES ASSUME IInv PROVE AnswersAreTrue
      OBVIOUS
    <2>1. EepromTypeOK
      BY DEF IInv, Types, EepromTypeOK, Dev, Call
    <2>2. ASSUME ~blind, ~FailureUnseen, pc = "end"
          PROVE  /\ job.kind # "write" => job.ret \in {0, mem[job.adr]}
                 /\ job.kind = "write" /\ job.ret = 1 => mem[job.adr] = job.val
      BY <2>2 DEF IInv, Faithful, Ended
    <2>3. ASSUME ~blind, pc = "done", job.kind = "read"
          PROVE  \A a \in Adr : ebuf[a] \in {0, mem[a]}
      BY <2>3 DEF IInv, Kinds, Faithful, Copied
    <2>4. ASSUME ~blind, pc = "done", job.loop = "dump"
          PROVE  job.adr = Words - 1 \/ mem[job.adr] = Erased
      BY <2>4 DEF IInv, Faithful, Stopped
    <2> QED
      BY <2>1, <2>2, <2>3, <2>4 DEF AnswersAreTrue
  <1> QED
    BY Invariant, <1>1, PTL
=============================================================================
