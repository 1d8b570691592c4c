------------------------------- MODULE Mailbox -------------------------------
(***************************************************************************)
(* The mailbox of one slave (ethercatmain.c): ecx_mbxsend, ecx_mbxreceive  *)
(* with its repeat requests, and the draining receive that begins nearly   *)
(* every transfer of CoE, FoE, SoE and EoE.                                *)
(*                                                                         *)
(* SM0 and SM1 of the slave hold one message each.  The slave is external: *)
(* it takes a message out of SM0, has its answers ready in a queue, puts   *)
(* one into SM1 when that is empty, and on a repeat request puts the last  *)
(* one there again.  A protocol module says what it answers.               *)
(*                                                                         *)
(* Reading a status register changes nothing, so a lost read of one is     *)
(* only time passing.  A lost read of the mailbox is a step: the message   *)
(* may be gone from SM1.  A write that is confirmed after a resend reaches *)
(* the slave twice; the slave tells that by the message counter, which is  *)
(* otherwise never compared and is left out.                               *)
(***************************************************************************)
EXTENDS Naturals, Sequences

CONSTANTS
    MaxLosses,          \* bound: exchanges that are lost
    MayVanish,          \* may the slave disappear
    Plans               \* bounds: the kinds of the first, the second ... transfer,
                        \* and for these what the slave does of its own: its
                        \* emergencies and mailbox errors, its Ethernet frames,
                        \* and the answers it has ready at a time

ASSUME MailboxAssumption ==
    /\ MaxLosses \in Nat /\ MayVanish \in BOOLEAN
    /\ \A p \in Plans : /\ p.calls \in Seq(SUBSET STRING)
                        /\ {p.notices, p.frames, p.queue} \subseteq Nat

VARIABLES
    pc,                 \* where the master is, "idle" between transfers
    request,            \* MbxOut, the message to be sent
    goesOn,             \* where the master goes when it is sent
    got,                \* MbxIn, or what became of the call: Failed, Sent
    want,               \* the acknowledge the master waits for
    job,                \* the transfer that runs, or ran last
    jobs,               \* transfers begun
    plan,               \* the bounds of this run, one of Plans
    hooked,             \* the messages the EoE hook takes, {} without a hook
    sm0, sm1,           \* the messages in the slave's mailboxes
    outq,               \* the slave's answers that are not in SM1 yet
    lastOut, taken,     \* what was in SM1 last, and whether the master has it
    again,              \* what is in SM1 now the master has already
    repReq, repAck,     \* repeat request and its acknowledge
    losses, notices, gone,
    dirty,              \* an answer to an earlier transfer may still come
    fails,              \* calls that failed in this transfer
    repeats             \* was a repeat asked for, or even abandoned

master == <<pc, request, goesOn, got, want>>
transfer == <<job, jobs, hooked, plan>>
slaveMail == <<outq, lastOut, taken, again, repAck>>
environment == <<losses, notices, gone>>
ghosts == <<dirty, fails, repeats>>
mailVars == <<master, transfer, sm0, sm1, slaveMail, repReq, environment, ghosts>>

NoMsg == [cmd |-> "none"]
Failed == [cmd |-> "failed"]    \* wkc <= 0
Sent == [cmd |-> "sent"]
\* A mailbox error or an emergency: reported, and not handed to the caller.
Notice == [cmd |-> "notice"]

MailInit ==
    /\ pc = "idle" /\ request = NoMsg /\ goesOn = "wait" /\ got = NoMsg
    /\ want = FALSE /\ job = [kind |-> "none", ret |-> "none"] /\ jobs = 0 /\ hooked = {}
    /\ plan \in Plans
    /\ sm0 = NoMsg /\ sm1 = NoMsg /\ outq = <<>>
    /\ lastOut = NoMsg /\ taken = FALSE /\ again = FALSE
    /\ repReq = FALSE /\ repAck = FALSE
    /\ losses = 0 /\ notices = 0 /\ gone = FALSE
    /\ dirty = FALSE /\ fails = 0 /\ repeats = "none"

Reached == ~gone /\ UNCHANGED environment
Lost == \/ gone /\ UNCHANGED environment
        \/ losses < MaxLosses /\ losses' = losses + 1 /\ UNCHANGED <<notices, gone>>

\* The call returns to the protocol with what it got.
Hand(what) == pc' = "handle" /\ got' = what
Fails == Hand(Failed) /\ fails' = fails + (IF fails < 2 THEN 1 ELSE 0)

-----------------------------------------------------------------------------
(* "Empty slave out mailbox if something is in. Timeout set to 0": one look *)
(* at the status and one attempt to read, with at most one message gone.   *)

\* Answers, not notices, that are still on their way.
Pending == \/ sm0 # NoMsg \/ sm1 \notin {NoMsg, Notice} \/ repReq # repAck
           \/ \E k \in DOMAIN outq : outq[k] # Notice

\* The send follows, whatever the receive came to.
Drained == /\ pc' = "send"
           /\ UNCHANGED <<request, goesOn, got, want, sm0, outq, lastOut, repAck>>
           /\ dirty' = Pending' /\ fails' = 0 /\ repeats' = "none"

DrainNothing ==
    /\ pc = "drain"
    /\ IF sm1 = NoMsg THEN UNCHANGED environment ELSE Lost
    /\ UNCHANGED <<sm1, taken, again, repReq>>
    /\ Drained

DrainMessage ==
    /\ pc = "drain" /\ sm1 # NoMsg /\ sm1.cmd \notin hooked /\ Reached
    /\ sm1' = NoMsg /\ taken' = TRUE /\ again' = FALSE
    /\ UNCHANGED repReq
    /\ Drained

\* The read is lost, a repeat is requested, and nobody waits for it.
DrainLost ==
    /\ pc = "drain" /\ sm1 # NoMsg /\ ~gone /\ Lost
    /\ sm1' \in {sm1, NoMsg}
    /\ repReq' \in {repReq, ~repReq}
    /\ again' = (again /\ sm1' # NoMsg)
    /\ UNCHANGED taken
    /\ Drained

-----------------------------------------------------------------------------
(* ecx_mbxsend.                                                            *)

SendOk ==
    /\ pc = "send" /\ sm0 = NoMsg /\ Reached
    /\ sm0' = request /\ request' = NoMsg
    /\ IF goesOn = "handle" THEN Hand(Sent) ELSE pc' = goesOn /\ UNCHANGED got
    /\ UNCHANGED <<goesOn, want, sm1, slaveMail, repReq, ghosts>>

\* The slave has the message but the confirmation is lost, and the message
\* that is sent again is refused by the full mailbox.
SendUnnoticed ==
    /\ pc = "send" /\ sm0 = NoMsg /\ ~gone /\ Lost
    /\ sm0' = request /\ request' = NoMsg /\ Fails
    /\ UNCHANGED <<goesOn, want, sm1, slaveMail, repReq, dirty, repeats>>

\* The mailbox stays full (ecx_mbxempty), or nothing gets through.
SendFails ==
    /\ pc = "send"
    /\ IF sm0 # NoMsg THEN UNCHANGED environment ELSE Lost
    /\ request' = NoMsg /\ Fails
    /\ UNCHANGED <<goesOn, want, sm0, sm1, slaveMail, repReq, dirty, repeats>>

\* ecx_mbxempty between two fragments: the slave has taken the last one.
Emptied ==
    /\ pc = "empty" /\ sm0 = NoMsg /\ Reached
    /\ Hand(Sent)
    /\ UNCHANGED <<request, goesOn, want, sm0, sm1, slaveMail, repReq, ghosts>>

\* It has not, in the time of the call, and its answer is read instead.
EmptyExpires ==
    /\ pc = "empty" /\ (sm0 # NoMsg \/ gone)
    /\ pc' = "wait"
    /\ UNCHANGED <<request, goesOn, got, want, sm0, sm1, slaveMail, repReq, environment, ghosts>>

-----------------------------------------------------------------------------
(* ecx_mbxreceive.                                                         *)

Available ==
    /\ pc \in {"wait", "refill"} /\ sm1 # NoMsg /\ Reached
    /\ pc' = "read"
    /\ UNCHANGED <<request, goesOn, got, want, sm0, sm1, slaveMail, repReq, ghosts>>

\* Mutant: the wait for the repeated message has no timer.
TimerExpires_NotRefill ==
    /\ \/ pc = "wait" /\ (sm1 = NoMsg \/ gone)
       \/ pc = "ack"
    /\ Fails
    /\ repeats' = IF pc = "ack" THEN "abandoned" ELSE repeats
    /\ UNCHANGED <<request, goesOn, want, sm0, sm1, slaveMail, repReq, environment, dirty>>

\* A full mailbox is read even when the timer has expired, but not after a
\* repeat.
TimerExpires ==
    /\ \/ pc = "wait" /\ (sm1 = NoMsg \/ gone)
       \/ pc \in {"ack", "refill"}
    /\ Fails
    /\ repeats' = IF pc = "ack" THEN "abandoned" ELSE repeats
    /\ UNCHANGED <<request, goesOn, want, sm0, sm1, slaveMail, repReq, environment, dirty>>

ReadAnswer ==
    /\ pc = "read" /\ sm1 \notin {NoMsg, Notice} /\ sm1.cmd \notin hooked /\ Reached
    /\ Hand(sm1)
    /\ sm1' = NoMsg /\ taken' = TRUE
    /\ UNCHANGED <<request, goesOn, want, sm0, outq, lastOut, again, repAck, repReq, ghosts>>

\* "prevent emergency to cascade up": the mailbox is read again at once.
ReadNotice ==
    /\ pc = "read" /\ sm1 = Notice /\ Reached
    /\ \/ UNCHANGED <<pc, got, fails>>
       \/ Fails
    /\ sm1' = NoMsg /\ taken' = TRUE /\ again' = FALSE
    /\ UNCHANGED <<request, goesOn, want, sm0, outq, lastOut, repAck, repReq, dirty, repeats>>

\* "read mailbox lost": the request or the answer was lost, or there was
\* nothing to read behind a notice.
ReadLost ==
    /\ pc = "read"
    /\ IF sm1 = NoMsg THEN Reached \/ Lost ELSE Lost
    /\ sm1' \in {sm1, NoMsg}
    /\ again' = (again /\ sm1' # NoMsg)
    /\ pc' = "repeat"
    /\ UNCHANGED <<request, goesOn, got, want, sm0, outq, lastOut, taken, repAck, repReq, ghosts>>

\* Mutant: the acknowledge of the repeat request is not waited for.
AskRepeat_NoAck ==
    /\ pc = "repeat" /\ pc' = "refill"
    /\ want' = ~repReq
    /\ \/ Reached /\ repReq' = want'
       \/ Lost /\ repReq' \in {repReq, want'}
    /\ repeats' = IF repeats = "none" THEN "asked" ELSE repeats
    /\ UNCHANGED <<request, goesOn, got, sm0, sm1, slaveMail, dirty, fails>>

\* "toggle repeat request".
AskRepeat ==
    /\ pc = "repeat" /\ pc' = "ack"
    /\ want' = ~repReq
    /\ \/ Reached /\ repReq' = want'
       \/ Lost /\ repReq' \in {repReq, want'}
    /\ repeats' = IF repeats = "none" THEN "asked" ELSE repeats
    /\ UNCHANGED <<request, goesOn, got, sm0, sm1, slaveMail, dirty, fails>>

\* "wait for toggle ack".
RepeatAcknowledged ==
    /\ pc = "ack" /\ repAck = want /\ Reached
    /\ pc' = "refill"
    /\ UNCHANGED <<request, goesOn, got, want, sm0, sm1, slaveMail, repReq, ghosts>>

MasterMail ==
    /\ \/ DrainNothing \/ DrainMessage \/ DrainLost
       \/ SendOk \/ SendUnnoticed \/ SendFails \/ Emptied \/ EmptyExpires
       \/ Available \/ TimerExpires \/ ReadAnswer \/ ReadNotice \/ ReadLost
       \/ AskRepeat \/ RepeatAcknowledged
    /\ UNCHANGED transfer

-----------------------------------------------------------------------------
(* What a protocol does between two calls.                                 *)

\* A transfer begins at a place: its mailbox is drained before the first
\* request, or it sends or receives at once.
BeginAt(place, m, on, j) ==
    /\ pc = "idle" /\ jobs < Len(plan.calls) /\ j.kind \in plan.calls[jobs + 1]
    /\ jobs' = jobs + 1 /\ job' = j
    /\ request' = m /\ goesOn' = on /\ got' = NoMsg
    /\ pc' = place
    /\ UNCHANGED <<hooked, plan, want, sm0, sm1, slaveMail, repReq, environment>>
    /\ IF place = "drain" THEN UNCHANGED ghosts
       ELSE dirty' = Pending /\ fails' = 0 /\ repeats' = "none"

Begin(m, j) == BeginAt("drain", m, "wait", j)

Handles(kind) == pc = "handle" /\ job.kind = kind

Becomes(j) ==
    job' = j
    /\ UNCHANGED <<jobs, hooked, plan, want, sm0, sm1, slaveMail, repReq, environment, ghosts>>

\* A message is sent next; MbxIn is cleared before its answer is read.
Post(m, on) ==
    /\ request' = m /\ goesOn' = on
    /\ pc' = "send" /\ got' = NoMsg

\* The next request of a series, with a mailbox drained for it.
Again(m) ==
    /\ request' = m /\ goesOn' = "wait"
    /\ pc' = "drain" /\ got' = NoMsg

\* Another answer is read without a request.
ReceiveNext ==
    /\ pc' = "wait" /\ got' = NoMsg
    /\ UNCHANGED <<request, goesOn>>

Return(j, ret) ==
    /\ Becomes([j EXCEPT !.ret = ret])
    /\ pc' = "idle" /\ got' = NoMsg
    /\ UNCHANGED <<request, goesOn>>

\* Data is cut into chunks of what a mailbox holds, named for the transfer
\* that brings them.
Chunk(j, k) == [job |-> j, k |-> k]
DataOf(j, n) == [k \in 1 .. n |-> Chunk(j, k)]

Done(kinds) == pc = "idle" /\ job.kind \in kinds /\ job.ret = "ok"

-----------------------------------------------------------------------------
(* The slave, external.                                                    *)

Publish ==
    /\ ~gone /\ sm1 = NoMsg /\ outq # <<>> /\ repReq = repAck
    /\ sm1' = Head(outq) /\ outq' = Tail(outq)
    /\ lastOut' = Head(outq) /\ taken' = FALSE /\ again' = FALSE
    /\ UNCHANGED <<master, sm0, repAck, repReq, environment, ghosts>>

Repeat ==
    /\ ~gone /\ repReq # repAck
    /\ repAck' = repReq
    /\ sm1' = lastOut /\ again' = taken
    /\ UNCHANGED <<master, sm0, outq, lastOut, taken, repReq, environment, ghosts>>

Notify ==
    /\ ~gone /\ notices < plan.notices /\ Len(outq) < plan.queue
    /\ notices' = notices + 1 /\ outq' = Append(outq, Notice)
    /\ UNCHANGED <<master, sm0, sm1, lastOut, taken, again, repAck, repReq, losses, gone, ghosts>>

\* The slave is gone for good, with what its mailboxes held.
Vanish ==
    /\ MayVanish /\ ~gone /\ gone' = TRUE
    /\ sm0' = NoMsg /\ sm1' = NoMsg /\ outq' = <<>> /\ lastOut' = NoMsg
    /\ taken' = FALSE /\ again' = FALSE /\ repReq' = FALSE /\ repAck' = FALSE
    /\ UNCHANGED <<master, losses, notices, ghosts>>

\* The slave takes the message in SM0 and answers, or does not.
Take(answers) ==
    /\ ~gone /\ sm0 # NoMsg /\ Len(outq) < plan.queue
    /\ sm0' = NoMsg /\ outq' = outq \o answers
    /\ UNCHANGED <<master, transfer, sm1, lastOut, taken, again, repAck, repReq,
                   environment, ghosts>>

SlaveMail == (Publish \/ Repeat \/ Notify \/ Vanish) /\ UNCHANGED transfer

-----------------------------------------------------------------------------
\* The mailboxes and the flags have their values; the queue of the slave
\* stays within its bound.
MailTypeOK ==
    /\ pc \in {"idle", "drain", "send", "empty", "wait", "read", "repeat", "ack", "refill",
              "handle"}
    /\ {want, taken, again, repReq, repAck, gone, dirty} \subseteq BOOLEAN
    /\ goesOn \in {"wait", "handle", "empty"} /\ repeats \in {"none", "asked", "abandoned"}
    /\ Len(outq) <= plan.queue /\ losses <= MaxLosses /\ notices <= plan.notices
    /\ fails \in 0 .. 2

\* An answer the master has read is not handed to a protocol again: a repeat
\* is requested only for what was lost, or brings back a notice or what the
\* hook took (unless the master gave up waiting for the repeat).
NoAnswerTwice ==
    /\ MailTypeOK
    /\ repeats # "abandoned" /\ ~dirty /\ pc = "read"
         => ~again \/ sm1 \in {NoMsg, Notice} \/ sm1.cmd \in hooked
=============================================================================
