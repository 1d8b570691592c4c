-------------------------------- MODULE Eeprom --------------------------------
(***************************************************************************)
(* Access to the EEPROM of one slave through its registers                 *)
(* (soem/ethercatmain.c): the commands of ecx_readeepromFP,                *)
(* ecx_writeeepromFP and their AP twins, the two halves ecx_readeeprom1    *)
(* and ecx_readeeprom2, who owns the EEPROM, and the loops that read and write *)
(* all of it: ecx_esidump, and those of eepromtool.                        *)
(*                                                                         *)
(* One action is one datagram, or the last of a loop that waits for the    *)
(* interface.  Datagrams are lost at the timeout of their call.  The       *)
(* device is external: it is busy after a command, may fail it (NACK), and *)
(* may vanish, when frames still come back but nobody counts them.         *)
(***************************************************************************)
EXTENDS Integers, Sequences, FiniteSets

CONSTANTS
    Words,          \* word addresses 0 .. Words - 1
    Values,         \* contents; a word that was not read is 0
    Erased,         \* the content behind the last category: 0xffffffff
    EC_DEFAULTRETRIES,
    MayVanish,      \* the slave may be unplugged
    MaxCalls, MaxLosses, MaxNacks   \* bounds

ASSUME EepromAssumption ==
    /\ Words \in Nat \ {0} /\ Values \subseteq Nat \ {0} /\ Erased \in Values
    /\ EC_DEFAULTRETRIES \in Nat /\ MayVanish \in BOOLEAN
    /\ MaxCalls \in Nat /\ MaxLosses \in Nat /\ MaxNacks \in Nat

VARIABLES
    mem,            \* the EEPROM
    dev,            \* the registers of its interface, and whether it is there
    pc, job,        \* the master's thread and the call it is in
    cnt, nackcnt,   \* locals of the call: sends and failed commands
    eep_pdi,        \* the master's note of who owns the EEPROM
    ebuf,           \* the copy of the whole EEPROM
    blind,          \* of this call a command was given up, or an answer made up
    calls, losses, nacks

locals == <<cnt, nackcnt, blind>>
bounds == <<calls, losses, nacks>>
vars == <<mem, dev, pc, job, locals, eep_pdi, ebuf, bounds>>

Adr == 0 .. Words - 1
Nobody == [kind |-> "none", adr |-> 0, val |-> 0, ret |-> 0, loop |-> "no", eectl |-> FALSE]

Init ==
    /\ mem \in [Adr -> Values]
    /\ dev = [there |-> TRUE, pdi |-> FALSE, busy |-> FALSE, nack |-> FALSE,
              write |-> FALSE, adr |-> 0, reg |-> 0]
    /\ pc = "idle" /\ job = Nobody
    /\ cnt = 0 /\ nackcnt = 0 /\ blind = FALSE
    /\ eep_pdi = FALSE
    /\ ebuf = [a \in Adr |-> 0]
    /\ calls = 0 /\ losses = 0 /\ nacks = 0

-----------------------------------------------------------------------------
(* The device.                                                             *)

\* A command is taken by an interface that is the master's and not busy; it
\* clears the error of the one before.
Commanded(d, write, adr) ==
    IF d.pdi \/ d.busy THEN d
    ELSE [d EXCEPT !.busy = TRUE, !.nack = FALSE, !.write = write, !.adr = adr]

Serve ==
    /\ dev.busy
    /\ dev' = [dev EXCEPT !.busy = FALSE, !.reg = IF dev.write THEN @ ELSE mem[dev.adr]]
    /\ mem' = IF dev.write THEN [mem EXCEPT ![dev.adr] = dev.reg] ELSE mem
    /\ UNCHANGED <<pc, job, locals, eep_pdi, ebuf, bounds>>

Fail ==
    /\ dev.busy /\ nacks < MaxNacks
    /\ dev' = [dev EXCEPT !.busy = FALSE, !.nack = TRUE]
    /\ nacks' = nacks + 1
    /\ UNCHANGED <<mem, pc, job, locals, eep_pdi, ebuf, calls, losses>>

Vanish ==
    /\ MayVanish /\ dev.there
    /\ dev' = [dev EXCEPT !.there = FALSE]
    /\ UNCHANGED <<mem, pc, job, locals, eep_pdi, ebuf, bounds>>

-----------------------------------------------------------------------------
(* Datagrams.                                                              *)

Outcomes == {"ok"} \cup (IF losses < MaxLosses THEN {"request", "answer"} ELSE {})
Count(o) == losses' = IF o = "ok" THEN losses ELSE losses + 1

\* taken: the device has the register written for the master.
Wkc(o, taken) == IF o # "ok" THEN -1 ELSE IF dev.there /\ taken THEN 1 ELSE 0
Write(o, new) == /\ Count(o)
                 /\ dev' = IF o = "request" \/ ~dev.there THEN dev ELSE new
Read(o) == Count(o) /\ UNCHANGED dev

\* wkc <= 0 and cnt++ < EC_DEFAULTRETRIES
Again(wkc) == wkc <= 0 /\ cnt < EC_DEFAULTRETRIES
Sends(wkc, next) ==
    IF Again(wkc) THEN cnt' = cnt + 1 /\ UNCHANGED pc ELSE cnt' = 0 /\ pc' = next

\* The call is over.  The tool goes on to the next word whatever came of it.
Return(ret) ==
    /\ nackcnt' = 0 /\ cnt' = 0
    /\ pc' = "end"
    /\ job' = [job EXCEPT !.ret = ret]

-----------------------------------------------------------------------------
(* Who owns the EEPROM.                                                    *)

\* Both forces and hands over; nothing is sent when the note says it is so.
eeprom2master(o) ==
    /\ pc = "own" /\ job.loop # "tool"
    /\ IF eep_pdi
       THEN /\ Write(o, [dev EXCEPT !.pdi = FALSE])
            /\ Sends(Wkc(o, TRUE), "free?")
            /\ eep_pdi' = Again(Wkc(o, TRUE))
       ELSE /\ o = "ok" /\ pc' = "free?" /\ UNCHANGED <<cnt, dev, losses, eep_pdi>>
    /\ UNCHANGED <<mem, job, nackcnt, ebuf, blind, calls, nacks>>

\* The tool keeps no note, and does not look at what came of it.
ToolOwns(o) ==
    /\ pc = "own" /\ job.loop = "tool" /\ pc' = "free?"
    /\ Write(o, [dev EXCEPT !.pdi = FALSE])
    /\ UNCHANGED <<mem, job, locals, eep_pdi, ebuf, calls, nacks>>

\* After a call that found the EEPROM with the PDI, and at the end of a dump
\* that did.
eeprom2pdi(o) ==
    /\ ~eep_pdi /\ pc \in {"idle", "restore"}
    /\ Write(o, [dev EXCEPT !.pdi = TRUE])
    /\ IF Again(Wkc(o, TRUE))
       THEN cnt' = cnt + 1 /\ UNCHANGED <<pc, eep_pdi>>
       ELSE cnt' = 0 /\ eep_pdi' = TRUE /\ pc' = IF pc = "idle" THEN pc ELSE "done"
    /\ UNCHANGED <<mem, job, nackcnt, ebuf, blind, calls, nacks>>

-----------------------------------------------------------------------------
(* The wait for the interface.                                             *)

\* One look at the status.  late: the timer has expired.  Without an answer the
\* status is 0, which is not busy, when the loop ends.
busy(o) == o = "ok" /\ dev.there /\ dev.busy
answered(o) == o = "ok" /\ dev.there
\* Mutant: the timer is not looked at.
Waits_NoTimer(o, late) == busy(o) \/ ~answered(o)

Waits(o, late) == (busy(o) \/ ~answered(o)) /\ ~late
\* Mutant: the error of a command is not looked at.
failed_Never(o) == FALSE

failed(o) == answered(o) /\ dev.nack

\* A device that is slower than the timer is bounded like losses.
Poll(o, late) ==
    LET slow == busy(o) /\ late
    IN  /\ slow => losses < MaxLosses
        /\ losses' = IF o # "ok" \/ slow THEN losses + 1 ELSE losses
        /\ UNCHANGED dev

MadeUp(o) == blind' = (blind \/ ~answered(o))

\* What is sent for the command first.
Sends1 == IF job.kind = "write" THEN "data" ELSE "command"

\* The first half of a read that gives up does not keep the second from reading.
GivesUp ==
    IF job.kind = "read1"
    THEN pc' = "halfway" /\ blind' = TRUE /\ UNCHANGED <<job, cnt, nackcnt>>
    ELSE Return(0) /\ UNCHANGED blind

waitnotbusy(o, late) ==
    /\ pc = "free?"
    /\ Poll(o, late)
    /\ IF Waits(o, late)
       THEN UNCHANGED <<pc, job, locals>>
       ELSE IF busy(o) THEN GivesUp
       ELSE /\ pc' = IF failed(o) THEN "clear" ELSE Sends1
            /\ cnt' = 0
            /\ MadeUp(o)
            /\ UNCHANGED <<job, nackcnt>>
    /\ UNCHANGED <<mem, eep_pdi, ebuf, calls, nacks>>

ClearError(o) ==
    /\ pc = "clear"
    /\ Write(o, [dev EXCEPT !.nack = FALSE])
    /\ pc' = Sends1
    /\ UNCHANGED <<mem, job, locals, eep_pdi, ebuf, calls, nacks>>

\* The word to be written; nobody looks at what came of it.
WriteData(o) ==
    /\ pc = "data"
    /\ Write(o, IF dev.pdi \/ dev.busy THEN dev ELSE [dev EXCEPT !.reg = job.val])
    /\ Sends(Wkc(o, ~dev.pdi), "command")
    /\ blind' = (blind \/ (Wkc(o, ~dev.pdi) <= 0 /\ ~Again(Wkc(o, ~dev.pdi))))
    /\ UNCHANGED <<mem, job, nackcnt, eep_pdi, ebuf, calls, nacks>>

\* A work counter of -1 passes for a command that was taken.  One of 0 ends
\* the call, or, after a command that failed, sends it again.
Command(o) ==
    LET wkc == Wkc(o, ~dev.pdi)
    IN  /\ pc = "command"
        /\ Write(o, Commanded(dev, job.kind = "write", job.adr))
        /\ blind' = (blind \/ (wkc <= 0 /\ ~Again(wkc)))
        /\ IF Again(wkc) \/ wkc # 0 \/ job.kind = "read1"
           THEN /\ Sends(wkc, IF job.kind = "read1" THEN "halfway" ELSE "done?")
                /\ UNCHANGED <<job, nackcnt>>
           ELSE IF nackcnt > 0
           THEN pc' = Sends1 /\ cnt' = 0 /\ UNCHANGED <<job, nackcnt>>
           ELSE Return(0)
        /\ UNCHANGED <<mem, eep_pdi, ebuf, calls, nacks>>

\* The wait for the command, and what became of it: three failures end it.
CommandDone(o, late) ==
    /\ pc = "done?"
    /\ Poll(o, late)
    /\ IF Waits(o, late) THEN UNCHANGED <<pc, job, locals>>
       ELSE IF busy(o) \/ failed(o)
       THEN LET n == IF failed(o) THEN nackcnt + 1 ELSE nackcnt
            IN  /\ UNCHANGED blind
                /\ IF n \in 1 .. 2
                   THEN pc' = Sends1 /\ nackcnt' = n /\ cnt' = 0 /\ UNCHANGED job
                   ELSE Return(0)
       ELSE /\ MadeUp(o)
            /\ IF job.kind = "write" THEN Return(1)
               ELSE pc' = "read" /\ nackcnt' = 0 /\ cnt' = 0 /\ UNCHANGED job
    /\ UNCHANGED <<mem, eep_pdi, ebuf, calls, nacks>>

\* The result, 0 when it did not come.
ReadData(o) ==
    /\ pc = "read"
    /\ Read(o)
    /\ IF Again(Wkc(o, TRUE)) THEN cnt' = cnt + 1 /\ UNCHANGED <<pc, job, nackcnt>>
       ELSE Return(IF answered(o) THEN dev.reg ELSE 0)
    /\ UNCHANGED <<mem, eep_pdi, ebuf, blind, calls, nacks>>

-----------------------------------------------------------------------------
(* The calls.                                                              *)

Begin(new) ==
    /\ pc = "idle" /\ calls < MaxCalls
    /\ calls' = calls + 1 /\ pc' = "own" /\ job' = new
    /\ cnt' = 0 /\ nackcnt' = 0 /\ blind' = FALSE
    /\ UNCHANGED <<mem, dev, eep_pdi, losses, nacks>>

Job(kind, adr, val, loop) ==
    [kind |-> kind, adr |-> adr, val |-> val, ret |-> 0, loop |-> loop, 
     eectl |-> loop = "dump" /\ eep_pdi]

readeeprom(adr) == Begin(Job("read", adr, 0, "no")) /\ UNCHANGED ebuf
writeeeprom(adr, val) == Begin(Job("write", adr, val, "no")) /\ UNCHANGED ebuf

\* The request to all slaves comes first, and one by one their answers; the
\* second half does not look whether the command failed (FailureUnseen).
readeeprom1(adr) == Begin(Job("read1", adr, 0, "no")) /\ UNCHANGED ebuf

readeeprom2(o, late) ==
    /\ pc = "halfway"
    /\ Poll(o, late)
    /\ IF Waits(o, late) THEN UNCHANGED <<pc, job, locals>>
       ELSE IF busy(o) THEN Return(0) /\ UNCHANGED blind
       ELSE /\ pc' = "read" /\ cnt' = 0
            /\ MadeUp(o)
            /\ UNCHANGED <<job, nackcnt>>
    /\ UNCHANGED <<mem, eep_pdi, ebuf, calls, nacks>>

\* The tool addresses the slave by its position, with a copy of the code.
readeepromAP(adr) == Job("read", adr, 0, "tool")
writeeepromAP(adr, val) == Job("write", adr, val, "tool")

\* Its loops, from the first word on.
eeprom_read == Begin(readeepromAP(0)) /\ ebuf' = [a \in Adr |-> 0]
eeprom_write(file) == Begin(writeeepromAP(0, file[0])) /\ ebuf' = file

ToolGoesOn ==
    /\ pc = "end" /\ job.loop = "tool"
    /\ ebuf' = IF job.kind = "read" THEN [ebuf EXCEPT ![job.adr] = job.ret] ELSE ebuf
    /\ IF job.adr + 1 < Words
       THEN /\ pc' = "free?"
            /\ job' = IF job.kind = "write"
                      THEN writeeepromAP(job.adr + 1, ebuf[job.adr + 1])
                      ELSE readeepromAP(job.adr + 1)
       ELSE pc' = "done" /\ UNCHANGED job
    /\ UNCHANGED <<mem, dev, locals, eep_pdi, bounds>>

\* ecx_esidump reads with the configured address until it meets an erased word.
esidump == Begin(Job("read", 0, 0, "dump")) /\ ebuf' = [a \in Adr |-> 0]

DumpGoesOn ==
    /\ pc = "end" /\ job.loop = "dump"
    /\ ebuf' = [ebuf EXCEPT ![job.adr] = job.ret]
    /\ IF job.adr + 1 < Words /\ job.ret # Erased
       THEN pc' = "free?" /\ job' = [job EXCEPT !.adr = @ + 1]
       ELSE pc' = (IF job.eectl THEN "restore" ELSE "done") /\ UNCHANGED job
    /\ UNCHANGED <<mem, dev, locals, eep_pdi, bounds>>

Finish ==
    /\ pc = "done" \/ (pc = "end" /\ job.loop = "no")
    /\ pc' = "idle" /\ job' = Nobody
    /\ blind' = FALSE
    /\ UNCHANGED <<mem, dev, cnt, nackcnt, eep_pdi, ebuf, bounds>>

Calls == \/ \E a \in Adr : readeeprom(a) \/ readeeprom1(a)
         \/ \E a \in Adr, v \in Values : writeeeprom(a, v)
         \/ eeprom_read \/ esidump
         \/ \E file \in [Adr -> Values] : eeprom_write(file)

Steps(late) ==
    \E o \in Outcomes :
        \/ eeprom2master(o) \/ ToolOwns(o) \/ waitnotbusy(o, late) \/ ClearError(o)
        \/ WriteData(o) \/ Command(o) \/ CommandDone(o, late)
        \/ ReadData(o) \/ readeeprom2(o, late) \/ (pc = "restore" /\ eeprom2pdi(o))

Master == Steps(FALSE) \/ Steps(TRUE) \/ ToolGoesOn \/ DumpGoesOn \/ Finish

Next == Calls \/ (\E o \in Outcomes : pc = "idle" /\ eeprom2pdi(o)) \/ Master \/ Serve \/ Fail \/ Vanish
Spec == Init /\ [][Next]_vars

\* The master's thread goes on, its timers expire, and the device gets done
\* with a command.
FairSpec == Spec /\ WF_vars(Master) /\ SF_vars(Steps(TRUE)) /\ WF_vars(Serve \/ Fail)

-----------------------------------------------------------------------------
Cell == Values \cup {0}
EepromTypeOK ==
    /\ mem \in [Adr -> Cell] /\ ebuf \in [Adr -> Cell]
    /\ dev \in [there : BOOLEAN, pdi : BOOLEAN, busy : BOOLEAN, nack : BOOLEAN,
                write : BOOLEAN, adr : Adr, reg : Cell]
    /\ job \in [kind : {"none", "read", "read1", "write"}, adr : Adr, val : Cell,
                ret : Cell \cup {1}, loop : {"no", "tool", "dump"}, eectl : BOOLEAN]
    /\ cnt \in 0 .. EC_DEFAULTRETRIES /\ nackcnt \in 0 .. 2

\* The second half of the split read meets a command that failed: ecx_readeeprom2
\* reads the data register all the same.
FailureUnseen == job.kind = "read1" /\ dev.nack

\* A read returns the word at its address or nothing, a write that reports
\* success has written its word, the copy of a whole EEPROM has no wrong word,
\* and a dump stops only at an erased one: never is an answer what an earlier
\* command left in the data register.  Three things make it so all the same: a
\* command that was given up; an interface that gave no answer until the timer
\* expired, which the code takes for done (both blind); and a command of the
\* split read that failed (FailureUnseen).
AnswersAreTrue ==
    /\ EepromTypeOK
    /\ ~blind /\ ~FailureUnseen =>
         /\ pc = "end" /\ job.kind # "write" => job.ret \in {0, mem[job.adr]}
         /\ pc = "end" /\ job.kind = "write" /\ job.ret = 1 => mem[job.adr] = job.val
         /\ pc = "done" /\ job.kind = "read" => \A a \in Adr : ebuf[a] \in {0, mem[a]}
         /\ pc = "done" /\ job.loop = "dump" => job.adr = Words - 1 \/ mem[job.adr] = Erased

\* Every call ends, with the slave there or gone.  Only a slave that is gone
\* after a command failed keeps it for ever: the loop repeats a failed command
\* until nackcnt is 3, and a command that nobody takes does not count.
AccessEnds ==
    pc \notin {"idle"} ~> (pc = "idle" \/ (nackcnt > 0 /\ ~dev.there))
=============================================================================
