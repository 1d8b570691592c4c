-------------------------- MODULE Transfers_proofs --------------------------
(***************************************************************************)
(* Proofs about the transfers over the mailbox of one slave, for every     *)
(* plan of transfers and any number of losses, notices and answers that    *)
(* wait: no answer the master has read is handed to a protocol again, and  *)
(* files, objects and parts of the object dictionary that are transferred  *)
(* with success arrive whole.                                              *)
(***************************************************************************)
EXTENDS Transfers, TLAPS

IsSeq(s) == s \in Seq({s[k] : k \in DOMAIN s})

\* The mailbox has its values, and its queue is a sequence.
Typed ==
    /\ MailTypeOK
    /\ plan \in Plans /\ IsSeq(outq)
    /\ losses \in Nat /\ notices \in Nat
    /\ hooked \in {{}, {"EOE_FRAG"}}

\* What is in SM1 is what was put there last.
LastIsThere == sm1 # NoMsg => sm1 = lastOut /\ again = taken

\* Nothing of an earlier transfer comes, and no repeat was given up.
Quiet == ~dirty /\ repeats # "abandoned"

\* The request and its acknowledge differ only while the master waits for
\* the acknowledge.
InStep ==
    Quiet =>
        /\ repReq # repAck => pc = "ack"
        /\ pc = "ack" => repReq = want \/ (repReq = repAck /\ repAck # want)

\* What the slave would send again is new to the master, or for no protocol.
LastIsNew == taken => lastOut \in {NoMsg, Notice} \/ lastOut.cmd \in hooked

\* That holds from the first look at an answer to the end of its repeats, and
\* whenever there is a message to look at.
AnswerIsNew ==
    Quiet /\ (sm1 # NoMsg \/ pc \in {"read", "repeat", "ack", "refill"}) => LastIsNew

IInv == Typed /\ LastIsThere /\ InStep /\ AnswerIsNew

-----------------------------------------------------------------------------
(* The queue of the slave.                                                 *)

\* A sequence of anything is one of its own elements.
LEMMA Sequence == ASSUME NEW S, NEW s \in Seq(S) PROVE IsSeq(s)
  <1> DEFINE T == {s[k] : k \in DOMAIN s}
  <1>1. s \in [1 .. Len(s) -> S] /\ Len(s) \in Nat /\ DOMAIN s = 1 .. Len(s)  OBVIOUS
  <1>2. \A k \in 1 .. Len(s) : s[k] \in T  BY <1>1
  <1> HIDE DEF T
  <1>3. s \in Seq(T)  BY <1>1, <1>2
  <1> QED  BY <1>3 DEF IsSeq, T

LEMMA Appended ==
  ASSUME NEW s, NEW m, IsSeq(s)
  PROVE  IsSeq(Append(s, m)) /\ Len(Append(s, m)) = Len(s) + 1 /\ Len(s) \in Nat
         /\ s \o <<m>> = Append(s, m) /\ s \o << >> = s
  <1> DEFINE S == {s[k] : k \in DOMAIN s} \cup {m}
  <1>1. s \in Seq(S)  BY DEF IsSeq
  <1>2. m \in S  OBVIOUS
  <1> HIDE DEF S
  <1>3. Append(s, m) \in Seq(S)  BY <1>1, <1>2
  <1>4. IsSeq(Append(s, m))  BY <1>3, Sequence
  <1> QED  BY <1>1, <1>2, <1>4

LEMMA Shortened ==
  ASSUME NEW s, IsSeq(s), s # << >>
  PROVE  IsSeq(Tail(s)) /\ Len(Tail(s)) = Len(s) - 1 /\ Len(s) \in Nat
  <1> DEFINE S == {s[k] : k \in DOMAIN s}
  <1>1. s \in Seq(S)  BY DEF IsSeq
  <1> HIDE DEF S
  <1>2. Tail(s) \in Seq(S)  BY <1>1
  <1>3. IsSeq(Tail(s))  BY <1>2, Sequence
  <1> QED  BY <1>1, <1>3

-----------------------------------------------------------------------------
(* What a protocol and the slave's servers do to the mailbox.              *)

\* Between two calls a protocol leaves the mailbox alone.
ClientStep ==
    /\ pc \in {"idle", "handle"} /\ pc' \in {"idle", "drain", "send", "wait"}
    /\ goesOn' \in {"wait", "handle", "empty"}
    /\ UNCHANGED <<hooked, plan, want, sm0, sm1, slaveMail, repReq, environment>>
    /\ \/ UNCHANGED ghosts
       \/ dirty' = Pending /\ fails' = 0 /\ repeats' = "none"

\* A server puts at most one answer into the queue.
ServerStep ==
    /\ UNCHANGED <<master, transfer, sm1, lastOut, taken, again, repAck, repReq,
                   environment, ghosts>>
    /\ \/ outq' = outq
       \/ Len(outq) < plan.queue /\ \E m : outq' = Append(outq, m)

LEMMA SdoSteps == ASSUME Typed, SdoClient PROVE ClientStep
  <1> USE DEF ClientStep, Begin, BeginAt, Handles, Becomes, Post, Return, Typed, MailTypeOK, ghosts
  <1>1. ASSUME NEW o \in Objects, NEW n \in Sizes, SDOread(o, n) PROVE ClientStep
    BY <1>1 DEF SDOread
  <1>2. ASSUME NEW o \in Objects, NEW n \in Sizes, SDOwrite(o, n) PROVE ClientStep
    BY <1>2 DEF SDOwrite
  <1>3. CASE ReadFirst  BY <1>3 DEF ReadFirst
  <1>4. CASE ReadSegment  BY <1>4 DEF ReadSegment
  <1>5. CASE WriteFirst  BY <1>5 DEF WriteFirst, WriteNext
  <1>6. CASE WriteSegment  BY <1>6 DEF WriteSegment, WriteNext
  <1> QED  BY <1>1, <1>2, <1>3, <1>4, <1>5, <1>6 DEF SdoClient

LEMMA FoeSteps == ASSUME Typed, FoeClient PROVE ClientStep
  <1> USE DEF ClientStep, Begin, BeginAt, Handles, Becomes, Post, Return, Typed, MailTypeOK, ghosts
  <1>1. ASSUME NEW n \in FileSizes, FOEread(n) PROVE ClientStep  BY <1>1 DEF FOEread
  <1>2. ASSUME NEW n \in FileSizes, FOEwrite(n) PROVE ClientStep  BY <1>2 DEF FOEwrite
  <1>3. CASE ReadPacket  BY <1>3 DEF ReadPacket
  <1>4. CASE ReadAcked  BY <1>4 DEF ReadAcked, ReceiveNext
  <1>5. CASE WritePacket  BY <1>5 DEF WritePacket
  <1>6. CASE WriteBusy  BY <1>6 DEF WriteBusy
  <1>7. CASE WriteFails  BY <1>7 DEF WriteFails
  <1> QED  BY <1>1, <1>2, <1>3, <1>4, <1>5, <1>6, <1>7 DEF FoeClient

LEMMA SoeSteps == ASSUME Typed, SoeClient PROVE ClientStep
  <1> USE DEF ClientStep, Begin, BeginAt, Handles, Becomes, Post, Return, Typed, MailTypeOK, ghosts
  <1>1. ASSUME NEW o \in Idns, NEW n \in IdnSizes, SoEread(o, n) PROVE ClientStep
    BY <1>1 DEF SoEread
  <1>2. ASSUME NEW o \in Idns, NEW n \in IdnSizes, SoEwrite(o, n) PROVE ClientStep
    BY <1>2 DEF SoEwrite
  <1>3. CASE ReadFragment  BY <1>3 DEF ReadFragment, ReceiveNext
  <1>4. CASE WriteGoesOn  BY <1>4 DEF WriteGoesOn, WriteFragment
  <1>5. CASE WriteEnds  BY <1>5 DEF WriteEnds
  <1> QED  BY <1>1, <1>2, <1>3, <1>4, <1>5 DEF SoeClient

LEMMA InfoSteps == ASSUME Typed, InfoClient PROVE ClientStep
  <1> USE DEF ClientStep, Begin, BeginAt, Handles, Becomes, Post, Return, Typed, MailTypeOK, ghosts
  <1>1. ASSUME NEW n \in PdoSizes, RxPDO(n) PROVE ClientStep  BY <1>1 DEF RxPDO
  <1>2. ASSUME NEW n \in PdoSizes, TxPDO(n) PROVE ClientStep  BY <1>2 DEF TxPDO
  <1>3. ASSUME NEW i \in Items, readODdescription(i) PROVE ClientStep
    BY <1>3 DEF readODdescription
  <1>4. ASSUME NEW i \in Items, readOE(i) PROVE ClientStep  BY <1>4 DEF readOE
  <1>5. CASE readODlist  BY <1>5 DEF readODlist
  <1>6. CASE RxPDOends  BY <1>6 DEF RxPDOends
  <1>7. CASE TxPDOends  BY <1>7 DEF TxPDOends
  <1>8. CASE ReadPart  BY <1>8 DEF ReadPart, ReceiveNext
  <1>9. CASE DescriptionEnds  BY <1>9 DEF DescriptionEnds
  <1>10. CASE readOEsingle  BY <1>10 DEF readOEsingle, Again
  <1> QED
    BY <1>1, <1>2, <1>3, <1>4, <1>5, <1>6, <1>7, <1>8, <1>9, <1>10 DEF InfoClient

\* Ethernet: the calls, beside those the hook makes and the hook itself.
LEMMA EoeSteps == ASSUME Typed, EoeClient PROVE ClientStep \/ EOEdefinehook
  <1> USE DEF ClientStep, Begin, BeginAt, Handles, Becomes, Post, Return, Typed, MailTypeOK, ghosts
  <1>1. ASSUME NEW p, EOEsetIp(p) PROVE ClientStep  BY <1>1 DEF EOEsetIp
  <1>2. CASE EOEgetIp  BY <1>2 DEF EOEgetIp
  <1>3. CASE SetIpEnds  BY <1>3 DEF SetIpEnds
  <1>4. CASE GetIpEnds  BY <1>4 DEF GetIpEnds
  <1>5. CASE SendNext  BY <1>5 DEF SendNext
  <1>6. ASSUME NEW n, EOErecv(n) PROVE ClientStep  BY <1>6 DEF EOErecv
  <1>7. ASSUME NEW n, EOEsend(n) PROVE ClientStep  BY <1>7 DEF EOEsend
  <1>8. CASE Receive  BY <1>8 DEF Receive, ReceiveNext
  <1> QED  BY <1>1, <1>2, <1>3, <1>4, <1>5, <1>6, <1>7, <1>8 DEF EoeClient

LEMMA TakeStep ==
  ASSUME Typed, NEW answers, Take(answers), answers = << >> \/ \E m : answers = <<m>>
  PROVE  ServerStep
  <1>1. CASE answers = << >>
    BY <1>1, Appended DEF Take, ServerStep, Typed
  <1>2. ASSUME NEW m, answers = <<m>> PROVE ServerStep
    <2>1. outq' = Append(outq, m)  BY <1>2, Appended DEF Take, Typed
    <2> QED  BY <2>1 DEF Take, ServerStep
  <1> QED  BY <1>1, <1>2

LEMMA SdoServes == ASSUME Typed, SdoServer PROVE ServerStep
  <1>1. ASSUME NEW m, NEW s, NEW x, Answers(m, s, x) PROVE ServerStep
    <2>1. Take(<<m>>)  BY <1>1 DEF Answers
    <2> QED  BY <2>1, TakeStep
  <1>2. CASE ServeUpload  BY <1>2, <1>1 DEF ServeUpload
  <1>3. CASE ServeSegUpload  BY <1>3, <1>1 DEF ServeSegUpload
  <1>4. CASE ServeDownload  BY <1>4, <1>1 DEF ServeDownload
  <1>5. CASE ServeSegDownload  BY <1>5, <1>1 DEF ServeSegDownload
  <1>6. CASE Refuse  BY <1>6, <1>1 DEF Refuse
  <1> QED  BY <1>2, <1>3, <1>4, <1>5, <1>6 DEF SdoServer

LEMMA FoeServes == ASSUME Typed, FoeServer PROVE ServerStep
  <1>1. ASSUME NEW m, NEW f, NEW s, Serves(<<m>>, f, s) \/ Serves(<< >>, f, s)
        PROVE  ServerStep
    <2>1. Take(<<m>>) \/ Take(<< >>)  BY <1>1 DEF Serves
    <2> QED  BY <2>1, TakeStep
  <1>2. CASE ServeRead  BY <1>2, <1>1 DEF ServeRead, Sends
  <1>3. CASE ServeAck  BY <1>3, <1>1 DEF ServeAck, Sends
  <1>4. CASE ServeWrite  BY <1>4, <1>1 DEF ServeWrite
  <1>5. CASE ServePacket  BY <1>5, <1>1 DEF ServePacket
  <1>6. CASE ServeBusy  BY <1>6, <1>1 DEF ServeBusy
  <1>7. CASE ServeError  BY <1>7, <1>1 DEF ServeError
  <1> QED  BY <1>2, <1>3, <1>4, <1>5, <1>6, <1>7 DEF FoeServer

LEMMA SoeServes == ASSUME Typed, SoeServer PROVE ServerStep
  <1>1. ASSUME NEW m, NEW i, NEW a, NEW d,
               SoeTakes(<<m>>, i, a, d) \/ SoeTakes(<< >>, i, a, d)
        PROVE  ServerStep
    <2>1. Take(<<m>>) \/ Take(<< >>)  BY <1>1 DEF SoeTakes
    <2> QED  BY <2>1, TakeStep
  <1>2. CASE ServeIdnRead  BY <1>2, <1>1 DEF ServeIdnRead
  <1>3. CASE QueueFragment  BY <1>3 DEF QueueFragment, ServerStep
  <1>4. CASE ServeIdnWrite  BY <1>4, <1>1 DEF ServeIdnWrite
  <1>5. CASE RefuseIdn  BY <1>5, <1>1 DEF RefuseIdn
  <1> QED  BY <1>2, <1>3, <1>4, <1>5 DEF SoeServer

LEMMA EoeServes == ASSUME Typed, EoeServer PROVE ServerStep
  <1>1. CASE ServeInit
    <2>1. PICK success \in BOOLEAN :
            Take(<<[cmd |-> "EOE_INIT_RESP", success |-> success]>>)
      BY <1>1 DEF ServeInit, EoeTakes
    <2> QED  BY <2>1, TakeStep
  <1>2. CASE ServeGetIp
    <2>1. PICK fields \in SUBSET Fields, full \in BOOLEAN :
            Take(<<[cmd |-> "EOE_GET_IP_RESP", full |-> full,
                    param |-> [f \in fields |-> address[f]]]>>)
      BY <1>2 DEF ServeGetIp, EoeTakes
    <2> QED  BY <2>1, TakeStep
  <1>3. CASE ServeFragment
    <2>1. Take(<< >>)  BY <1>3 DEF ServeFragment, EoeTakes
    <2> QED  BY <2>1, TakeStep
  <1>4. CASE FrameArrives
    BY <1>4 DEF FrameArrives, ServerStep, mailVars, slaveMail
  <1>5. CASE QueueFrame  BY <1>5 DEF QueueFrame, ServerStep
  <1> QED  BY <1>1, <1>2, <1>3, <1>4, <1>5 DEF EoeServer

LEMMA InfoServes == ASSUME Typed, InfoServer PROVE ServerStep
  <1>1. ASSUME NEW m, Take(<<m>>) PROVE ServerStep  BY <1>1, TakeStep
  <1>2. ASSUME Take(<< >>) PROVE ServerStep  BY <1>2, TakeStep
  <1>3. CASE ServePdo  BY <1>3, <1>1, <1>2 DEF ServePdo
  <1>4. CASE ServeList  BY <1>4, <1>2 DEF ServeList
  <1>5. CASE QueuePart  BY <1>5 DEF QueuePart, ServerStep
  <1>6. CASE ServeInfo  BY <1>6, <1>1 DEF ServeInfo
  <1>7. CASE RefuseInfo  BY <1>7, <1>1 DEF RefuseInfo
  <1> QED  BY <1>3, <1>4, <1>5, <1>6, <1>7 DEF InfoServer

-----------------------------------------------------------------------------
(* The invariant.                                                          *)

LEMMA PlanBounds ==
  ASSUME plan \in Plans
  PROVE  plan.queue \in Nat /\ plan.notices \in Nat /\ MaxLosses \in Nat
  BY MailboxAssumption

LEMMA InitIInv == Init => IInv
  <1> SUFFICES ASSUME Init PROVE IInv  OBVIOUS
  <1>1. IsSeq(<< >>) /\ Len(<< >>) = 0
    BY << >> \in Seq({}), Sequence
  <1>2. plan.queue \in Nat /\ plan.notices \in Nat /\ MaxLosses \in Nat
    BY PlanBounds DEF Init, MailInit
  <1>4. IsSeq(outq) /\ Len(outq) = 0  BY <1>1 DEF Init, MailInit
  <1>3. MailTypeOK
    <2>1. {want, taken, again, repReq, repAck, gone, dirty} \subseteq BOOLEAN
      BY DEF Init, MailInit
    <2>2. Len(outq) <= plan.queue /\ losses <= MaxLosses /\ notices <= plan.notices
      BY <1>2, <1>4 DEF Init, MailInit
    <2> QED  BY <2>1, <2>2 DEF Init, MailInit, MailTypeOK
  <1>5. Typed
    BY <1>3, <1>4 DEF Init, MailInit, Typed
  <1> QED
    BY <1>5 DEF Init, MailInit, IInv, LastIsThere, InStep, AnswerIsNew, LastIsNew, NoMsg

LEMMA ClientKeeps == ASSUME IInv, ClientStep PROVE IInv'
  <1> USE DEF ClientStep, IInv, slaveMail, environment, ghosts
  <1>1. CASE UNCHANGED ghosts
    <2>1. Typed'  BY <1>1 DEF Typed, MailTypeOK
    <2>2. LastIsThere'  BY DEF LastIsThere
    <2>3. InStep'  BY <1>1 DEF InStep, Quiet
    <2>4. AnswerIsNew'  BY <1>1 DEF AnswerIsNew, Quiet, LastIsNew
    <2> QED  BY <2>1, <2>2, <2>3, <2>4
  <1>2. CASE dirty' = Pending /\ fails' = 0 /\ repeats' = "none"
    <2>1. Typed'  BY <1>2 DEF Typed, MailTypeOK, Pending
    <2>2. LastIsThere'  BY DEF LastIsThere
    <2>3. InStep'  BY <1>2 DEF InStep, Quiet, Pending
    <2>4. AnswerIsNew'
      BY <1>2 DEF AnswerIsNew, Quiet, LastIsNew, Pending, LastIsThere
    <2> QED  BY <2>1, <2>2, <2>3, <2>4
  <1> QED  BY <1>1, <1>2

LEMMA ServerKeeps == ASSUME IInv, ServerStep PROVE IInv'
  <1> USE DEF ServerStep, IInv, master, transfer, environment, ghosts
  <1>1. IsSeq(outq') /\ Len(outq') <= plan.queue
    <2>1. CASE outq' = outq  BY <2>1 DEF Typed, MailTypeOK
    <2>2. ASSUME NEW m, Len(outq) < plan.queue, outq' = Append(outq, m)
          PROVE  IsSeq(outq') /\ Len(outq') <= plan.queue
      <3>1. IsSeq(outq') /\ Len(outq') = Len(outq) + 1 /\ Len(outq) \in Nat
        BY <2>2, Appended DEF Typed
      <3> QED  BY <3>1, <2>2, PlanBounds DEF Typed
    <2> QED  BY <2>1, <2>2
  <1>2. Typed'  BY <1>1 DEF Typed, MailTypeOK
  <1>3. LastIsThere' /\ InStep' /\ AnswerIsNew'
    BY DEF LastIsThere, InStep, AnswerIsNew, Quiet, LastIsNew
  <1> QED  BY <1>2, <1>3

LEMMA DrainedKeeps ==
  ASSUME IInv, pc = "drain", Drained, UNCHANGED transfer,
         UNCHANGED environment \/ Lost, sm1' \in {sm1, NoMsg},
         taken' \in BOOLEAN, again' \in BOOLEAN, repReq' \in BOOLEAN,
         sm1' # NoMsg => again' = again /\ taken' = taken
  PROVE  IInv'
  <1> USE DEF IInv, Drained, transfer
  <1>1. losses' \in Nat /\ losses' <= MaxLosses /\ UNCHANGED <<gone, notices>>
    BY PlanBounds DEF Lost, environment, Typed, MailTypeOK
  <1>2. dirty' \in BOOLEAN  BY DEF Pending
  <1>3. Typed'  BY <1>1, <1>2 DEF Typed, MailTypeOK
  <1>4. LastIsThere'  BY DEF LastIsThere
  <1>5. Quiet' => sm1' \in {NoMsg, Notice} /\ repReq' = repAck'
    BY DEF Quiet, Pending, NoMsg, Notice
  <1>6. InStep'  BY <1>5 DEF InStep
  <1>7. AnswerIsNew'  BY <1>4, <1>5 DEF AnswerIsNew, LastIsNew, LastIsThere
  <1> QED  BY <1>3, <1>4, <1>6, <1>7

\* What a step of the master leaves of the invariant's types.
LEMMA LossTypes ==
  ASSUME Typed, Reached \/ Lost
  PROVE  losses' \in Nat /\ losses' <= MaxLosses /\ UNCHANGED <<gone, notices>>
  BY PlanBounds DEF Typed, MailTypeOK, Reached, Lost, environment

LEMMA MasterKeeps == ASSUME IInv, MasterMail PROVE IInv'
  <1> USE DEF IInv, MasterMail, transfer
  <1>0. Typed /\ {want, taken, again, repReq, repAck} \subseteq BOOLEAN
    BY DEF Typed, MailTypeOK
  <1>1. CASE DrainNothing
    BY <1>0, <1>1, DrainedKeeps DEF DrainNothing
  <1>2. CASE DrainMessage
    BY <1>0, <1>2, DrainedKeeps DEF DrainMessage, Reached
  <1>3. CASE DrainLost
    BY <1>0, <1>3, DrainedKeeps DEF DrainLost
  <1>4. CASE SendOk \/ SendUnnoticed \/ SendFails \/ Emptied \/ EmptyExpires
    <2> USE DEF SendOk, SendUnnoticed, SendFails, Emptied, EmptyExpires, slaveMail, ghosts,
                Fails, Hand
    <2>1. losses' \in Nat /\ losses' <= MaxLosses /\ UNCHANGED <<gone, notices>>
      BY <1>0, <1>4, LossTypes DEF environment, Typed, MailTypeOK
    <2>2. Typed'  BY <1>4, <2>1 DEF Typed, MailTypeOK
    <2>3. pc' \in {"handle", "wait", "empty"}
      BY <1>4 DEF Typed, MailTypeOK
    <2>4. pc # "ack" /\ UNCHANGED <<sm1, lastOut, again, taken, repReq, repAck, want, dirty,
                                    repeats, hooked>>
      BY <1>4
    <2>5. LastIsThere' /\ InStep' /\ AnswerIsNew'
      BY <2>3, <2>4 DEF LastIsThere, InStep, AnswerIsNew, Quiet, LastIsNew
    <2> QED  BY <2>2, <2>5
  <1>5. CASE Available \/ TimerExpires \/ ReadAnswer
    <2> USE DEF Available, TimerExpires, ReadAnswer, slaveMail, ghosts, Fails, Hand
    <2>1. losses' \in Nat /\ losses' <= MaxLosses /\ UNCHANGED <<gone, notices>>
      BY <1>0, <1>5, LossTypes DEF environment, Typed, MailTypeOK
    <2>8. fails' \in 0 .. 2  BY <1>5 DEF Typed, MailTypeOK
    <2>9. repeats' \in {"none", "asked", "abandoned"} /\ pc' \in {"read", "handle"}
      BY <1>5 DEF Typed, MailTypeOK
    <2>6. taken' \in BOOLEAN  BY <1>5, <1>0
    <2>7. UNCHANGED <<goesOn, want, outq, again, repReq, repAck, dirty>>
      BY <1>5
    <2>2. Typed'  BY <2>1, <2>6, <2>7, <2>8, <2>9 DEF Typed, MailTypeOK
    <2>3. LastIsThere'  BY <1>5 DEF LastIsThere
    <2>4. InStep'  BY <1>5 DEF InStep, Quiet
    <2>5. AnswerIsNew'  BY <1>5 DEF AnswerIsNew, Quiet, LastIsNew
    <2> QED  BY <2>2, <2>3, <2>4, <2>5
  <1>6. CASE ReadNotice
    <2> USE DEF ReadNotice, Fails, Hand
    <2>1. losses' \in Nat /\ losses' <= MaxLosses /\ UNCHANGED <<gone, notices>>
      BY <1>0, <1>6, LossTypes DEF environment, Typed, MailTypeOK
    <2>7. fails' \in 0 .. 2 /\ pc' \in {"read", "handle"}
      BY <1>6 DEF Typed, MailTypeOK
    <2>2. Typed'  BY <1>6, <2>1, <2>7 DEF Typed, MailTypeOK
    <2>3. LastIsThere'  BY <1>6 DEF LastIsThere
    <2>4. InStep'  BY <1>6 DEF InStep, Quiet
    <2>5. lastOut = Notice  BY <1>6 DEF LastIsThere, Notice, NoMsg
    <2>6. AnswerIsNew'  BY <1>6, <2>5 DEF AnswerIsNew, LastIsNew
    <2> QED  BY <2>2, <2>3, <2>4, <2>6
  <1>7. CASE ReadLost \/ AskRepeat \/ RepeatAcknowledged
    <2> USE DEF ReadLost, AskRepeat, RepeatAcknowledged, slaveMail, ghosts
    <2>1. losses' \in Nat /\ losses' <= MaxLosses /\ UNCHANGED <<gone, notices>>
      BY <1>0, <1>7, LossTypes DEF environment, Typed, MailTypeOK
    <2>2. Typed'  BY <1>7, <2>1 DEF Typed, MailTypeOK
    <2>3. LastIsThere'  BY <1>0, <1>7 DEF LastIsThere
    <2>4. InStep'  BY <1>0, <1>7 DEF InStep, Quiet
    <2>5. AnswerIsNew'  BY <1>7 DEF AnswerIsNew, Quiet, LastIsNew
    <2> QED  BY <2>2, <2>3, <2>4, <2>5
  <1> QED  BY <1>1, <1>2, <1>3, <1>4, <1>5, <1>6, <1>7

LEMMA HookKeeps == ASSUME IInv, HookFragment PROVE IInv'
  <1> USE DEF IInv, HookFragment, transfer
  <1>0. Typed /\ {want, taken, again, repReq, repAck} \subseteq BOOLEAN
    BY DEF Typed, MailTypeOK
  <1>1. CASE pc = "drain"
    BY <1>0, <1>1, DrainedKeeps DEF Reached
  <1>2. CASE pc = "read"
    <2> USE <1>2 DEF Fails, Hand
    <2>1. sm1 # NoMsg  BY DEF Typed, NoMsg
    <2>6. fails' \in 0 .. 2 /\ pc' \in {"read", "handle"}
      BY DEF Typed, MailTypeOK
    <2>2. Typed'  BY <2>6 DEF Typed, MailTypeOK, Reached, environment
    <2>3. LastIsThere'  BY DEF LastIsThere
    <2>4. InStep'  BY DEF InStep, Quiet
    <2>5. AnswerIsNew'  BY <2>1 DEF AnswerIsNew, Quiet, LastIsNew, LastIsThere
    <2> QED  BY <2>2, <2>3, <2>4, <2>5
  <1> QED  BY <1>1, <1>2

\* The hook is there before the first transfer, when nothing has been read.
LEMMA DefineKeeps == ASSUME IInv, EOEdefinehook PROVE IInv'
  <1> USE DEF IInv, EOEdefinehook, master, slaveMail, environment, ghosts
  <1>1. Typed'  BY DEF Typed, MailTypeOK
  <1>2. LastIsThere' /\ InStep'  BY DEF LastIsThere, InStep, Quiet
  <1>3. AnswerIsNew'  BY DEF AnswerIsNew, Quiet, LastIsNew
  <1> QED  BY <1>1, <1>2, <1>3

LEMMA SlaveKeeps == ASSUME IInv, SlaveMail PROVE IInv'
  <1> USE DEF IInv, SlaveMail, transfer, master, environment, ghosts
  <1>1. CASE Publish
    <2> USE <1>1 DEF Publish
    <2>1. IsSeq(outq') /\ Len(outq') = Len(outq) - 1 /\ Len(outq) \in Nat
      BY Shortened DEF Typed
    <2>5. Len(outq') <= plan.queue  BY <2>1, PlanBounds DEF Typed, MailTypeOK
    <2>2. Typed'  BY <2>1, <2>5 DEF Typed, MailTypeOK
    <2>3. LastIsThere' /\ InStep'  BY DEF LastIsThere, InStep, Quiet
    <2>4. AnswerIsNew'  BY DEF AnswerIsNew, LastIsNew
    <2> QED  BY <2>2, <2>3, <2>4
  <1>2. CASE Repeat
    <2> USE <1>2 DEF Repeat
    <2>1. Typed'  BY DEF Typed, MailTypeOK
    <2>2. LastIsThere' /\ InStep'  BY DEF LastIsThere, InStep, Quiet
    <2>3. AnswerIsNew'  BY DEF AnswerIsNew, LastIsNew, InStep, Quiet
    <2> QED  BY <2>1, <2>2, <2>3
  <1>3. CASE Notify
    <2> USE <1>3 DEF Notify
    <2>1. IsSeq(outq') /\ Len(outq') = Len(outq) + 1 /\ Len(outq) \in Nat
      BY Appended DEF Typed
    <2>2. Typed'  BY <2>1, PlanBounds DEF Typed, MailTypeOK
    <2>3. LastIsThere' /\ InStep' /\ AnswerIsNew'
      BY DEF LastIsThere, InStep, AnswerIsNew, Quiet, LastIsNew
    <2> QED  BY <2>2, <2>3
  <1>4. CASE Vanish
    <2> USE <1>4 DEF Vanish
    <2>1. IsSeq(<< >>) /\ Len(<< >>) = 0  BY << >> \in Seq({}), Sequence
    <2>2. IsSeq(outq') /\ Len(outq') = 0  BY <2>1
    <2>6. Len(outq') <= plan.queue  BY <2>2, PlanBounds DEF Typed
    <2>3. Typed'  BY <2>2, <2>6 DEF Typed, MailTypeOK
    <2>4. LastIsThere' /\ AnswerIsNew'
      BY DEF LastIsThere, AnswerIsNew, LastIsNew
    <2>5. InStep'  BY DEF InStep, Typed, MailTypeOK
    <2> QED  BY <2>3, <2>4, <2>5
  <1> QED  BY <1>1, <1>2, <1>3, <1>4

LEMMA NextIInv == IInv /\ [Next]_vars => IInv'
  <1> SUFFICES ASSUME IInv, [Next]_vars PROVE IInv'  OBVIOUS
  <1>0. Typed  BY DEF IInv
  <1>1. CASE UNCHANGED vars
    BY <1>1 DEF vars, mailVars, master, transfer, slaveMail, environment, ghosts, IInv, Typed,
       MailTypeOK, LastIsThere, InStep, AnswerIsNew, LastIsNew, Quiet
  <1>2. CASE Master
    <2>1. CASE MasterMail  BY <2>1, MasterKeeps
    <2>2. CASE SdoClient \/ FoeClient \/ SoeClient \/ InfoClient
      BY <2>2, <1>0, SdoSteps, FoeSteps, SoeSteps, InfoSteps, ClientKeeps
    <2>3. CASE EoeClient  BY <2>3, <1>0, EoeSteps, ClientKeeps, DefineKeeps
    <2>4. CASE HookFragment  BY <2>4, HookKeeps
    <2> QED
      BY <1>2, <2>1, <2>2, <2>3, <2>4 DEF Master, Sdo, Foe, Soe, Eoe, Info
  <1>3. CASE Slave
    <2>1. CASE SlaveMail  BY <2>1, SlaveKeeps
    <2>2. CASE SdoServer \/ FoeServer \/ SoeServer \/ EoeServer \/ InfoServer
      BY <2>2, <1>0, SdoServes, FoeServes, SoeServes, EoeServes, InfoServes, ServerKeeps
    <2> QED
      BY <1>3, <2>1, <2>2 DEF Slave, Sdo, Foe, Soe, Eoe, Info
  <1> QED  BY <1>1, <1>2, <1>3 DEF Next

\* The mailbox is in step in every state: what is in SM1, what the slave
\* would send again and the toggle of the repeat requests belong together.
THEOREM Invariant == Spec => []IInv
  BY InitIInv, NextIInv, PTL DEF Spec

\* ecx_mbxreceive hands no answer to a protocol twice, for every number of
\* lost exchanges, repeats, notices and transfers.
THEOREM AnswersOnce == Spec => []NoAnswerTwice
  <1>1. IInv => NoAnswerTwice
    BY DEF IInv, Typed, LastIsThere, AnswerIsNew, LastIsNew, Quiet, NoAnswerTwice
  <1> QED  BY <1>1, Invariant, PTL

-----------------------------------------------------------------------------
(* More about sequences.                                                   *)

\* Sequences that are put together have a set of elements in common.
LEMMA Common ==
  ASSUME NEW r, NEW s, NEW t, IsSeq(r), IsSeq(s), IsSeq(t)
  PROVE  \E S : r \in Seq(S) /\ s \in Seq(S) /\ t \in Seq(S)
  <1> DEFINE R == {r[k] : k \in DOMAIN r}
             S == {s[k] : k \in DOMAIN s}
             T == {t[k] : k \in DOMAIN t}
  <1>1. r \in Seq(R) /\ s \in Seq(S) /\ t \in Seq(T)  BY DEF IsSeq
  <1> HIDE DEF R, S, T
  <1>2. r \in Seq(R \cup S \cup T) /\ s \in Seq(R \cup S \cup T) /\ t \in Seq(R \cup S \cup T)
    BY <1>1
  <1> QED  BY <1>2

LEMMA Joins ==
  ASSUME NEW s, NEW t, IsSeq(s), IsSeq(t)
  PROVE  /\ IsSeq(s \o t)
         /\ Len(s \o t) = Len(s) + Len(t) /\ Len(s) \in Nat /\ Len(t) \in Nat
         /\ \A k \in DOMAIN (s \o t) :
              \/ k \in DOMAIN s /\ (s \o t)[k] = s[k]
              \/ k - Len(s) \in DOMAIN t /\ (s \o t)[k] = t[k - Len(s)]
  <1>1. PICK S : s \in Seq(S) /\ t \in Seq(S)  BY Common
  <1>2. s \o t \in Seq(S)  BY <1>1
  <1>3. IsSeq(s \o t)  BY <1>2, Sequence
  <1> QED  BY <1>1, <1>2, <1>3

LEMMA Same ==
  ASSUME NEW S, NEW s \in Seq(S), NEW t \in Seq(S), Len(s) = Len(t),
         \A k \in 1 .. Len(s) : s[k] = t[k]
  PROVE  s = t
  <1>1. DOMAIN s = DOMAIN t  OBVIOUS
  <1>2. \A k \in DOMAIN s : s[k] = t[k]  OBVIOUS
  <1> QED  BY <1>1, <1>2

LEMMA JoinsNothing ==
  ASSUME NEW s, IsSeq(s)
  PROVE  s \o << >> = s /\ << >> \o s = s /\ IsSeq(<< >>)
  <1>1. PICK S : s \in Seq(S)  BY DEF IsSeq
  <1>2. << >> \in Seq(S)  OBVIOUS
  <1>3. IsSeq(<< >>)  BY <1>2, Sequence
  <1> QED  BY <1>1, <1>2, <1>3

LEMMA JoinsSome ==
  ASSUME NEW s, NEW t, IsSeq(s), IsSeq(t), t # << >>
  PROVE  s \o t # << >>
  <1>1. PICK S : s \in Seq(S) /\ t \in Seq(S)
    BY Common
  <1>2. Len(t) > 0  BY <1>1
  <1>3. Len(s \o t) > 0  BY <1>1, <1>2
  <1> QED  BY <1>3

LEMMA AppendedAt ==
  ASSUME NEW s, NEW m, IsSeq(s)
  PROVE  /\ DOMAIN Append(s, m) = DOMAIN s \cup {Len(s) + 1} /\ Len(s) + 1 \notin DOMAIN s
         /\ Append(s, m)[Len(s) + 1] = m
         /\ \A k \in DOMAIN s : Append(s, m)[k] = s[k]
  <1> DEFINE S == {s[k] : k \in DOMAIN s} \cup {m}
  <1>1. s \in Seq(S) /\ m \in S  BY DEF IsSeq
  <1> HIDE DEF S
  <1> QED  BY <1>1

LEMMA ShortenedAt ==
  ASSUME NEW s, IsSeq(s), s # << >>
  PROVE  /\ Head(s) = s[1] /\ 1 \in DOMAIN s
         /\ \A k \in DOMAIN Tail(s) : k + 1 \in DOMAIN s /\ Tail(s)[k] = s[k + 1] /\ k + 1 # 1
         /\ \A i, j \in DOMAIN Tail(s) : i + 1 = j + 1 => i = j
  <1>1. PICK S : s \in Seq(S)  BY DEF IsSeq
  <1> QED  BY <1>1

LEMMA LongerThanOne ==
  ASSUME NEW s, IsSeq(s), s # << >>, Len(s) > 1
  PROVE  Tail(s) # << >>
  <1> DEFINE t == Tail(s)
  <1>1. Len(t) > 0  BY Shortened
  <1> HIDE DEF t
  <1>2. t # << >>  BY <1>1
  <1> QED  BY <1>2 DEF t

LEMMA FirstOf ==
  ASSUME NEW s, IsSeq(s), s # << >>
  PROVE  IsSeq(SubSeq(s, 1, 1))
  <1>1. PICK S : s \in Seq(S)  BY DEF IsSeq
  <1>2. SubSeq(s, 1, 1) \in Seq(S)  BY <1>1
  <1> QED  BY <1>2, Sequence

\* What goes into a packet and what is left are what there was, and nothing
\* is left behind a packet that is not full.
LEMMA Split ==
  ASSUME NEW s, IsSeq(s)
  PROVE  /\ IsSeq(First(s)) /\ IsSeq(Rest(s)) /\ First(s) \o Rest(s) = s
         /\ ~IsFull(First(s)) => Rest(s) = << >>
  <1>1. PICK S : s \in Seq(S)  BY DEF IsSeq
  <1>2. Portion(s) \in Nat /\ Portion(s) <= Len(s) /\ MaxData \in Nat
        /\ (Portion(s) = MaxData \/ (Portion(s) = Len(s) /\ Len(s) < MaxData))
    BY <1>1, FoEAssumption DEF Portion
  <1>3. First(s) \in Seq(S) /\ Len(First(s)) = Portion(s)
        /\ \A k \in 1 .. Portion(s) : First(s)[k] = s[k]
    BY <1>1, <1>2 DEF First
  <1>4. Rest(s) \in Seq(S) /\ Len(Rest(s)) = Len(s) - Portion(s)
        /\ \A k \in 1 .. Len(s) - Portion(s) : Rest(s)[k] = s[Portion(s) + k]
    BY <1>1, <1>2 DEF Rest
  <1>5. First(s) \o Rest(s) = s
    <2>1. First(s) \o Rest(s) \in Seq(S) /\ Len(First(s) \o Rest(s)) = Len(s)
      BY <1>1, <1>2, <1>3, <1>4
    <2>2. \A k \in 1 .. Len(s) : (First(s) \o Rest(s))[k] = s[k]
      BY <1>1, <1>2, <1>3, <1>4
    <2> QED  BY <1>1, <2>1, <2>2, Same
  <1>6. IsFull(First(s)) \/ Rest(s) = << >>
    BY <1>1, <1>2, <1>3, <1>4 DEF IsFull
  <1>7. IsSeq(First(s)) /\ IsSeq(Rest(s))  BY <1>3, <1>4, Sequence
  <1> QED  BY <1>5, <1>6, <1>7

LEMMA DataIsSeq ==
  ASSUME NEW j, NEW n \in Nat
  PROVE  /\ IsSeq(DataOf(j, n))
         /\ n > 0 => DataOf(j, n) # << >>
  <1> DEFINE S == {Chunk(j, k) : k \in 1 .. n}
  <1>1. DataOf(j, n) \in Seq(S) /\ Len(DataOf(j, n)) = n  BY DEF DataOf
  <1>2. IsSeq(DataOf(j, n))  BY <1>1, Sequence
  <1> QED  BY <1>1, <1>2

-----------------------------------------------------------------------------
(* Answers in flight: what the slave has put into its queue and may still  *)
(* reach the master, of the commands in a set C.                           *)

\* What was put into SM1 last can be read, or come again.
Held == ~taken /\ (sm1 # NoMsg \/ pc \in {"read", "repeat", "ack", "refill"})

Flying(C) ==
    {m \in {outq[k] : k \in DOMAIN outq} \cup (IF Held THEN {lastOut} ELSE {}) : m.cmd \in C}

\* No more than one of them.
Single(C) ==
    /\ \A i, j \in DOMAIN outq : outq[i].cmd \in C /\ outq[j].cmd \in C => i = j
    /\ Held /\ lastOut.cmd \in C => \A i \in DOMAIN outq : outq[i].cmd \notin C


\* Notices, what the hook takes, and no message are no answers.
NoAnswers == {"none", "notice", "EOE_FRAG"}

\* A step that adds nothing to the queue and holds nothing new.
LEMMA Lasts ==
  ASSUME NEW C, outq' = outq, Held' => Held /\ lastOut' = lastOut
  PROVE  Flying(C)' \subseteq Flying(C) /\ (Single(C) => Single(C)')
  BY DEF Flying, Single

LEMMA PublishFlies ==
  ASSUME NEW C, Typed, Publish
  PROVE  Flying(C)' \subseteq Flying(C) /\ (Single(C) => Single(C)')
  <1>1. /\ Head(outq) = outq[1] /\ 1 \in DOMAIN outq
        /\ \A k \in DOMAIN outq' : k + 1 \in DOMAIN outq /\ outq'[k] = outq[k + 1] /\ k + 1 # 1
        /\ \A i, j \in DOMAIN outq' : i + 1 = j + 1 => i = j
    BY ShortenedAt DEF Publish, Typed
  <1>2. lastOut' = outq[1]  BY <1>1 DEF Publish
  <1>3. Flying(C)' \subseteq Flying(C)  BY <1>1, <1>2 DEF Flying
  <1>4. ASSUME Single(C) PROVE Single(C)'  BY <1>1, <1>2, <1>4 DEF Single
  <1> QED  BY <1>3, <1>4

\* A message that is none of C leaves those of C as they are.
LEMMA OtherQueued ==
  ASSUME NEW C, NEW m, Typed, outq' = Append(outq, m), m.cmd \notin C,
         Held' => Held /\ lastOut' = lastOut
  PROVE  Flying(C)' \subseteq Flying(C) /\ (Single(C) => Single(C)')
  <1>1. /\ DOMAIN outq' = DOMAIN outq \cup {Len(outq) + 1} /\ Len(outq) + 1 \notin DOMAIN outq
        /\ outq'[Len(outq) + 1] = m
        /\ \A k \in DOMAIN outq : outq'[k] = outq[k]
    BY AppendedAt DEF Typed
  <1>2. Flying(C)' \subseteq Flying(C)  BY <1>1 DEF Flying
  <1>3. ASSUME Single(C) PROVE Single(C)'  BY <1>1, <1>3 DEF Single
  <1> QED  BY <1>2, <1>3

\* The first of C is the only one.
LEMMA FirstQueued ==
  ASSUME NEW C, NEW m, Typed, outq' = Append(outq, m), Flying(C) = {},
         Held' => Held /\ lastOut' = lastOut
  PROVE  Flying(C)' \subseteq {m} /\ Single(C)'
  <1>1. /\ DOMAIN outq' = DOMAIN outq \cup {Len(outq) + 1} /\ Len(outq) + 1 \notin DOMAIN outq
        /\ outq'[Len(outq) + 1] = m
        /\ \A k \in DOMAIN outq : outq'[k] = outq[k]
    BY AppendedAt DEF Typed
  <1>2. \A k \in DOMAIN outq : outq[k].cmd \notin C  BY DEF Flying
  <1>3. Held' => lastOut'.cmd \notin C  BY DEF Flying
  <1>4. Flying(C)' \subseteq {m}  BY <1>1, <1>2, <1>3 DEF Flying
  <1>5. Single(C)'  BY <1>1, <1>2, <1>3 DEF Single
  <1> QED  BY <1>4, <1>5

\* What the master, the hook and the slave's mailbox do adds no answer.
LEMMA MailFlies ==
  ASSUME NEW C, C \cap NoAnswers = {}, IInv, Quiet, pc # "drain",
         MasterMail \/ SlaveMail \/ HookFragment
  PROVE  Flying(C)' \subseteq Flying(C) /\ (Single(C) => Single(C)')
  <1>1. CASE MasterMail
    <2>1. outq' = outq /\ lastOut' = lastOut /\ (Held' => Held)
      <3> USE DEF Held, slaveMail
      <3>1. CASE SendOk \/ SendUnnoticed \/ SendFails \/ Emptied \/ EmptyExpires
        BY <3>1 DEF SendOk, SendUnnoticed, SendFails, Emptied, EmptyExpires, Fails, Hand,
           IInv, Typed, MailTypeOK
      <3>2. CASE Available \/ TimerExpires \/ ReadAnswer \/ ReadNotice
        BY <3>2 DEF Available, TimerExpires, ReadAnswer, ReadNotice, Fails, Hand
      <3>3. CASE ReadLost \/ AskRepeat \/ RepeatAcknowledged
        BY <3>3 DEF ReadLost, AskRepeat, RepeatAcknowledged
      <3> QED
        BY <1>1, <3>1, <3>2, <3>3 DEF MasterMail, DrainNothing, DrainMessage, DrainLost
    <2> QED  BY <2>1, Lasts
  <1>2. CASE SlaveMail
    <2>1. CASE Publish  BY <2>1, PublishFlies DEF IInv
    <2>2. CASE Repeat
      <3>1. pc = "ack"  BY <2>2 DEF Repeat, IInv, InStep
      <3>2. outq' = outq /\ lastOut' = lastOut /\ (Held' => Held)
        BY <2>2, <3>1 DEF Repeat, Held, master
      <3> QED  BY <3>2, Lasts
    <2>3. CASE Notify
      <3>1. outq' = Append(outq, Notice) /\ lastOut' = lastOut /\ (Held' => Held)
        BY <2>3 DEF Notify, Held, master
      <3>2. Notice.cmd \notin C  BY DEF NoAnswers, Notice
      <3> QED  BY <3>1, <3>2, OtherQueued DEF IInv
    <2>4. CASE Vanish
      <3>1. outq' = << >> /\ lastOut'.cmd \notin C
        BY <2>4 DEF Vanish, NoMsg, NoAnswers
      <3>2. DOMAIN outq' = {}  BY <3>1
      <3> QED  BY <3>1, <3>2 DEF Flying, Single
    <2> QED  BY <1>2, <2>1, <2>2, <2>3, <2>4 DEF SlaveMail
  <1>3. CASE HookFragment
    <2>1. outq' = outq /\ lastOut' = lastOut /\ (Held' => Held)
      BY <1>3 DEF HookFragment, Held
    <2> QED  BY <2>1, Lasts
  <1> QED  BY <1>1, <1>2, <1>3

\* An answer that is read was the only one, and is no longer in flight.
LEMMA ReadFlies ==
  ASSUME NEW C, C \cap NoAnswers = {}, IInv, Quiet, ReadAnswer, got'.cmd \in C, Single(C)
  PROVE  got' \in Flying(C) /\ Flying(C)' = {}
  <1>1. sm1 = lastOut /\ got' = lastOut /\ again = taken
    BY DEF ReadAnswer, Hand, IInv, LastIsThere
  <1>2. ~taken
    BY <1>1 DEF ReadAnswer, IInv, AnswerIsNew, LastIsNew
  <1>3. Held /\ ~Held'  BY <1>2 DEF Held, ReadAnswer
  <1>4. got' \in Flying(C)  BY <1>1, <1>3 DEF Flying
  <1>5. \A k \in DOMAIN outq : outq[k].cmd \notin C
    BY <1>1, <1>3 DEF Single
  <1>6. Flying(C)' = {}  BY <1>3, <1>5 DEF Flying, ReadAnswer
  <1> QED  BY <1>4, <1>6

\* A mailbox that is drained and holds nothing has no answer in flight.
LEMMA DrainedFlies ==
  ASSUME NEW C, C \cap NoAnswers = {}, IInv, IInv', Drained, ~dirty'
  PROVE  sm0' = NoMsg /\ Flying(C)' = {}
  <1>1. /\ sm0' = NoMsg /\ sm1' \in {NoMsg, Notice}
        /\ \A k \in DOMAIN outq' : outq'[k] = Notice
    BY DEF Drained, Pending
  <1>2. Notice.cmd \notin C  BY DEF NoAnswers, Notice
  <1>3. Held' => lastOut' = Notice
    BY <1>1 DEF Held, Drained, IInv, LastIsThere
  <1> QED  BY <1>1, <1>2, <1>3 DEF Flying

\* Between two calls nothing happens to what is in flight.
LEMMA ClientFlies ==
  ASSUME NEW C, ClientStep
  PROVE  Flying(C)' \subseteq Flying(C) /\ (Single(C) => Single(C)')
  <1>1. outq' = outq /\ lastOut' = lastOut /\ (Held' => Held)
    BY DEF ClientStep, slaveMail, Held
  <1> QED  BY <1>1, Lasts

-----------------------------------------------------------------------------
(* What the slave has not queued yet are answers of the protocol it is for. *)

SoeCmds == {"SOE_READREQ", "SOE_WRITEREQ"}

SoeRequest(m) ==
    /\ m.cmd \in SoeCmds => m.obj \in Idns
    /\ m.cmd = "SOE_WRITEREQ" => IsSeq(m.data)

Unsent ==
    /\ IsSeq(answer) /\ \A k \in DOMAIN answer : answer[k].cmd = "SOE_READRES"
    /\ IsSeq(slaveTx) /\ \A k \in DOMAIN slaveTx : slaveTx[k].cmd = "EOE_FRAG"
    /\ IsSeq(parts) /\ \A k \in DOMAIN parts : parts[k].cmd = "ODLIST_RES"
    /\ IsSeq(part) /\ DOMAIN idns = Idns /\ \A o \in Idns : IsSeq(idns[o])

Requests == SoeRequest(request) /\ SoeRequest(sm0)

\* A transfer has its variables, and a write of an IDN has something left to
\* be sent until its last fragment.
Jobs ==
    /\ {"kind", "ret"} \subseteq DOMAIN job
    /\ job.kind = "SoEwrite" =>
         /\ {"obj", "rest", "notLast"} \subseteq DOMAIN job
         /\ job.obj \in Idns /\ IsSeq(job.rest)
         /\ job.notLast => job.rest # << >>

\* A call fails when a repeat is abandoned.
Counted == repeats = "abandoned" => fails > 0

Well == IInv /\ Unsent /\ Requests /\ Jobs /\ Counted

FoeKinds == {"FOEread", "FOEreadAck", "FOEwrite"}

\* A protocol has transfers of these kinds and sends these commands.
OtherStep(kinds, cmds) ==
    /\ {"kind", "ret"} \subseteq DOMAIN job' /\ job'.kind \in kinds
    /\ request' = request \/ request'.cmd \in cmds

SdoKinds == {"SDOread", "SDOreadSegments", "SDOwrite", "SDOwriteSegments"}
EoeKinds == {"EOEsetIp", "EOEgetIp", "EOEsend", "EOErecv"}
InfoKinds == {"RxPDO", "TxPDO", "readODlist", "readODdescription", "readOE"}

SdoReqs == {"UP_REQ", "SEG_UP_REQ", "DOWN_INIT", "SEG_DOWN_REQ"}
FoeReqs == {"FOE_READ", "FOE_ACK", "FOE_WRITE", "FOE_DATA"}
EoeReqs == {"EOE_INIT_REQ", "EOE_GET_IP_REQ", "EOE_FRAG", "none"}
InfoReqs == {"RXPDO", "TXPDO_RR", "ODLIST_REQ", "OD_REQ", "OE_REQ"}

LEMMA Returns ==
  ASSUME NEW kinds, NEW cmds, NEW j, NEW ret, {"kind", "ret"} \subseteq DOMAIN j, j.kind \in kinds,
         Return(j, ret)
  PROVE  OtherStep(kinds, cmds)
  BY DEF Return, Becomes, OtherStep

LEMMA Goes ==
  ASSUME NEW kinds, NEW cmds, NEW j, {"kind", "ret"} \subseteq DOMAIN j, j.kind \in kinds,
         Becomes(j), request' = request \/ request'.cmd \in cmds
  PROVE  OtherStep(kinds, cmds)
  BY DEF Becomes, OtherStep

LEMMA SdoOther == ASSUME Jobs, SdoClient PROVE OtherStep(SdoKinds, SdoReqs)
  <1> USE DEF OtherStep, SdoKinds, SdoReqs, Begin, BeginAt, Handles, Becomes, Post, Return, Jobs
  <1>1. ASSUME NEW o \in Objects, NEW n \in Sizes, SDOread(o, n) PROVE OtherStep(SdoKinds, SdoReqs)
    BY <1>1 DEF SDOread, UploadReq
  <1>2. ASSUME NEW o \in Objects, NEW n \in Sizes, SDOwrite(o, n) PROVE OtherStep(SdoKinds, SdoReqs)
    BY <1>2 DEF SDOwrite, DownloadReq
  <1> DEFINE first == [job EXCEPT !.buf = got.data, !.SDOlen = got.size]
             more == [kind |-> "SDOreadSegments", obj |-> job.obj, psize |-> job.psize,
                      buf |-> got.data, SDOlen |-> got.size, ret |-> "none",
                      toggle |-> FALSE]
             after == [job EXCEPT !.buf = IF got.cmd = "SEG_UP_RES" THEN @ \o got.data ELSE @,
                                  !.toggle = ~@]
             next == [job EXCEPT !.kind = "SDOwriteSegments", !.rest = Tail(@), !.toggle = ~@]
  <1>3. CASE ReadFirst
    <2>1. Return(job, "error") \/ Return(first, "ok")
          \/ (Becomes(more) /\ Post(SegUploadReq(FALSE), "wait"))
      BY <1>3 DEF ReadFirst
    <2>2. {"kind", "ret"} \subseteq DOMAIN first /\ first.kind = job.kind
          /\ {"kind", "ret"} \subseteq DOMAIN more /\ more.kind = "SDOreadSegments"
          /\ job.kind = "SDOread"
      BY <1>3 DEF ReadFirst
    <2> HIDE DEF first, more, Return, Becomes, OtherStep
    <2> QED  BY <2>1, <2>2, Returns, Goes DEF SegUploadReq
  <1>4. CASE ReadSegment
    <2>1. Return(after, "error") \/ Return(after, "ok")
          \/ (Becomes(after) /\ Post(SegUploadReq(after.toggle), "wait"))
      BY <1>4 DEF ReadSegment
    <2>2. {"kind", "ret"} \subseteq DOMAIN after /\ after.kind = "SDOreadSegments"
      BY <1>4 DEF ReadSegment
    <2> HIDE DEF after, Return, Becomes, OtherStep
    <2> QED  BY <2>1, <2>2, Returns, Goes DEF SegUploadReq
  <1>5. CASE WriteFirst \/ WriteSegment
    <2>1. Return(job, "error") \/ Return(job, "ok")
          \/ (Becomes(next) /\ request' = SegDownloadReq(job.toggle, SubSeq(job.rest, 1, 1),
                                                        Len(job.rest) > 1))
      BY <1>5 DEF WriteFirst, WriteSegment, WriteNext
    <2>2. {"kind", "ret"} \subseteq DOMAIN next /\ next.kind = "SDOwriteSegments"
          /\ job.kind \in SdoKinds
      BY <1>5 DEF WriteFirst, WriteSegment
    <2> HIDE DEF next, Return, Becomes, OtherStep
    <2> QED  BY <2>1, <2>2, Returns, Goes DEF SegDownloadReq
  <1> QED  BY <1>1, <1>2, <1>3, <1>4, <1>5 DEF SdoClient

LEMMA FoeOther == ASSUME Jobs, FoeClient PROVE OtherStep(FoeKinds, FoeReqs)
  <1> USE DEF OtherStep, FoeKinds, FoeReqs, Begin, BeginAt, Handles, Becomes, Post, Return, Jobs
  <1>1. ASSUME NEW n \in FileSizes, FOEread(n) PROVE OtherStep(FoeKinds, FoeReqs)
    BY <1>1 DEF FOEread, Read
  <1>2. ASSUME NEW n \in FileSizes, FOEwrite(n) PROVE OtherStep(FoeKinds, FoeReqs)
    BY <1>2 DEF FOEwrite, Write
  <1>3. CASE ReadPacket
    <2> DEFINE read == [job EXCEPT !.kind = "FOEreadAck", !.prevpacket = @ + 1,
                                   !.buf = @ \o got.data, !.worktodo = IsFull(got.data)]
    <2>1. Return(job, "error") \/ (Becomes(read) /\ Post(Ack(got.packet), "handle"))
      BY <1>3 DEF ReadPacket
    <2>2. {"kind", "ret"} \subseteq DOMAIN read /\ read.kind = "FOEreadAck"
          /\ job.kind = "FOEread"
      BY <1>3 DEF ReadPacket
    <2> HIDE DEF read, Return, Becomes, OtherStep
    <2> QED  BY <2>1, <2>2, Returns, Goes DEF Ack
  <1>4. CASE ReadAcked  BY <1>4 DEF ReadAcked, ReceiveNext
  <1>5. CASE WritePacket
    <2> DEFINE data == First(job.rest)
               next == [job EXCEPT !.rest = Rest(@), !.segment = data,
                              !.sendpacket = @ + 1,
                              !.dofinalzero = Rest(job.rest) = <<>> /\ IsFull(data)]
    <2>1. Return(job, "ok") \/ (Becomes(next) /\ Post(Packet(job.sendpacket + 1, data), "wait"))
      BY <1>5 DEF WritePacket
    <2>2. {"kind", "ret"} \subseteq DOMAIN next /\ next.kind = "FOEwrite"
          /\ job.kind = "FOEwrite"
      BY <1>5 DEF WritePacket
    <2> HIDE DEF next, Return, Becomes, OtherStep
    <2> QED  BY <2>1, <2>2, Returns, Goes DEF Packet
  <1>6. CASE WriteBusy  BY <1>6 DEF WriteBusy
  <1>7. CASE WriteFails  BY <1>7 DEF WriteFails
  <1> QED  BY <1>1, <1>2, <1>3, <1>4, <1>5, <1>6, <1>7 DEF FoeClient

LEMMA InfoOther == ASSUME Jobs, InfoClient PROVE OtherStep(InfoKinds, InfoReqs)
  <1> USE DEF OtherStep, InfoKinds, InfoReqs, Begin, BeginAt, Handles, Becomes, Post, Return, Jobs
  <1>1. ASSUME NEW n \in PdoSizes, RxPDO(n) PROVE OtherStep(InfoKinds, InfoReqs)  BY <1>1 DEF RxPDO
  <1>2. ASSUME NEW n \in PdoSizes, TxPDO(n) PROVE OtherStep(InfoKinds, InfoReqs)  BY <1>2 DEF TxPDO
  <1>3. ASSUME NEW i \in Items, readODdescription(i) PROVE OtherStep(InfoKinds, InfoReqs)
    BY <1>3 DEF readODdescription, DescribeReq
  <1>4. ASSUME NEW i \in Items, readOE(i) PROVE OtherStep(InfoKinds, InfoReqs)
    BY <1>4 DEF readOE, EntryReq
  <1>5. CASE readODlist  BY <1>5 DEF readODlist, ListReq
  <1>6. CASE RxPDOends  BY <1>6 DEF RxPDOends
  <1>7. CASE TxPDOends  BY <1>7 DEF TxPDOends
  <1>8. CASE ReadPart  BY <1>8 DEF ReadPart, ReceiveNext
  <1>9. CASE DescriptionEnds  BY <1>9 DEF DescriptionEnds
  <1>10. CASE readOEsingle
    <2> DEFINE answered == got.cmd = "OE_RES"
               read == [job EXCEPT !.entries = IF answered THEN @ + 1 ELSE @,
                               !.list = Append(@, IF answered THEN <<got.item, got.sub>>
                                                  ELSE <<>>),
                               !.clean = @ /\ ~dirty]
               next == [read EXCEPT !.sub = @ + 1]
    <2>1. Return(read, "error") \/ Return(read, "ok")
          \/ (Becomes(next) /\ Again(EntryReq(job.item, job.sub + 1)))
      BY <1>10 DEF readOEsingle
    <2>2. {"kind", "ret"} \subseteq DOMAIN read /\ read.kind = "readOE"
          /\ {"kind", "ret"} \subseteq DOMAIN next /\ next.kind = "readOE"
      BY <1>10 DEF readOEsingle
    <2> HIDE DEF next, read, Return, Becomes, OtherStep, InfoKinds
    <2>3. CASE Return(read, "error") \/ Return(read, "ok")
      BY <2>2, <2>3, Returns DEF InfoKinds
    <2>4. CASE Becomes(next) /\ Again(EntryReq(job.item, job.sub + 1))
      <3>1. request'.cmd \in InfoReqs  BY <2>4 DEF Again, EntryReq
      <3> QED  BY <2>2, <2>4, <3>1, Goes DEF InfoKinds
    <2> QED  BY <2>1, <2>3, <2>4
  <1> QED
    BY <1>1, <1>2, <1>3, <1>4, <1>5, <1>6, <1>7, <1>8, <1>9, <1>10 DEF InfoClient

LEMMA EoeOther == ASSUME Jobs, EoeClient PROVE OtherStep(EoeKinds, EoeReqs) \/ EOEdefinehook
  <1> USE DEF OtherStep, EoeKinds, EoeReqs, Begin, BeginAt, Handles, Becomes, Post, Return, Jobs
  <1>1. ASSUME NEW p, EOEsetIp(p) PROVE OtherStep(EoeKinds, EoeReqs)  BY <1>1 DEF EOEsetIp
  <1>2. CASE EOEgetIp  BY <1>2 DEF EOEgetIp
  <1>3. CASE SetIpEnds  BY <1>3 DEF SetIpEnds
  <1>4. CASE GetIpEnds  BY <1>4 DEF GetIpEnds
  <1>5. CASE SendNext
    <2> DEFINE f == FragmentOf(job.frameno, job.frame, job.offset, job.fragmentno + 1)
               next == [job EXCEPT !.offset = @ + Len(f.data), !.fragmentno = @ + 1,
                                       !.notLast = ~f.last]
    <2>1. Return(job, "error") \/ Return(job, "ok") \/ (Becomes(next) /\ Post(f, "handle"))
      BY <1>5 DEF SendNext
    <2>2. {"kind", "ret"} \subseteq DOMAIN next /\ next.kind = "EOEsend"
          /\ job.kind = "EOEsend"
      BY <1>5 DEF SendNext
    <2>3. f.cmd \in EoeReqs  BY DEF FragmentOf, Fragment
    <2> HIDE DEF next, f, Return, Becomes, OtherStep
    <2> QED  BY <2>1, <2>2, <2>3, Returns, Goes
  <1>6. ASSUME NEW n, EOErecv(n) PROVE OtherStep(EoeKinds, EoeReqs)  BY <1>6 DEF EOErecv, NoMsg
  <1>7. ASSUME NEW n, EOEsend(n) PROVE OtherStep(EoeKinds, EoeReqs)
    BY <1>7 DEF EOEsend, FragmentOf, Fragment
  <1>8. CASE Receive  BY <1>8 DEF Receive, ReceiveNext
  <1> QED  BY <1>1, <1>2, <1>3, <1>4, <1>5, <1>6, <1>7, <1>8 DEF EoeClient

\* SoE keeps its own transfers, and asks for values of IDNs.
LEMMA SoeOther ==
  ASSUME Jobs, Requests, SoeClient
  PROVE  Jobs' /\ SoeRequest(request') /\ job'.kind \in {"SoEread", "SoEwrite"}
  <1> USE DEF SoeCmds, Begin, BeginAt, Handles, Becomes, Post, Return, Jobs, Requests
  <1>1. ASSUME NEW o \in Idns, NEW n \in IdnSizes, SoEread(o, n)
        PROVE  Jobs' /\ SoeRequest(request') /\ job'.kind = "SoEread"
    BY <1>1 DEF SoEread, ReadReq, SoeRequest
  <1>2. ASSUME NEW o \in Idns, NEW n \in IdnSizes, SoEwrite(o, n)
        PROVE  Jobs' /\ SoeRequest(request') /\ job'.kind = "SoEwrite"
    <2> DEFINE data == DataOf(jobs + 1, n)
    <2>1. n \in Nat /\ n > 0  BY SoEAssumption
    <2>2. IsSeq(data) /\ data # << >>  BY <2>1, DataIsSeq
    <2>3. Len(data) = n  BY <2>1 DEF DataOf
    <2> HIDE DEF data
    <2>4. IsSeq(SubSeq(data, 1, 1)) /\ IsSeq(Tail(data)) /\ Len(Tail(data)) = n - 1
      BY <2>2, <2>3, FirstOf, Shortened
    <2>5. n > 1 => Tail(data) # << >>
      <3>1. Len(<< >>) = 0  OBVIOUS
      <3>2. n > 1 => n - 1 # 0  BY ONLY <2>1
      <3> QED  BY ONLY <2>4, <3>1, <3>2
    <2> DEFINE clean == part = << >> /\ sm0.cmd # "SOE_WRITEREQ"
    <2>6. /\ job' = [kind |-> "SoEwrite", obj |-> o, data |-> data, rest |-> Tail(data),
                     notLast |-> n > 1, clean |-> clean, ret |-> "none"]
          /\ request' = WriteReq(o, SubSeq(data, 1, 1), n > 1)
      BY <1>2, Zenon DEF SoEwrite, data, clean
    <2> HIDE DEF clean
    <2> QED  BY <2>4, <2>5, <2>6 DEF WriteReq, SoeRequest
  <1>3. CASE ReadFragment
    BY <1>3 DEF ReadFragment, ReceiveNext, SoeRequest
  <1>4. CASE WriteGoesOn
    <2>1. IsSeq(job.rest) /\ job.rest # << >>  BY <1>4 DEF WriteGoesOn
    <2>2. IsSeq(SubSeq(job.rest, 1, 1)) /\ IsSeq(Tail(job.rest))
          /\ Len(Tail(job.rest)) = Len(job.rest) - 1 /\ Len(job.rest) \in Nat
      BY <2>1, FirstOf, Shortened
    <2>3. Len(job.rest) > 1 => Tail(job.rest) # << >>
      BY <2>1, LongerThanOne
    <2>4. /\ job' = [job EXCEPT !.rest = Tail(@), !.notLast = Len(job.rest) > 1]
          /\ request' = WriteReq(job.obj, SubSeq(job.rest, 1, 1), Len(job.rest) > 1)
      BY <1>4 DEF WriteGoesOn, WriteFragment
    <2>5. job.kind = "SoEwrite"  BY <1>4 DEF WriteGoesOn
    <2>6. Jobs' /\ job'.kind = "SoEwrite"  BY <2>2, <2>3, <2>4, <2>5
    <2> QED  BY <2>2, <2>4, <2>5, <2>6 DEF WriteReq, SoeRequest
  <1>5. CASE WriteEnds  BY <1>5 DEF WriteEnds, SoeRequest
  <1> QED  BY <1>1, <1>2, <1>3, <1>4, <1>5 DEF SoeClient

LEMMA NotSoe == SoeRequest(NoMsg) /\ \A m : m.cmd \notin SoeCmds => SoeRequest(m)
  BY DEF SoeRequest, NoMsg, SoeCmds

LEMMA FragmentsAre ==
  ASSUME Unsent, NEW o \in Idns
  PROVE  /\ IsSeq(Fragments(o))
         /\ \A k \in DOMAIN Fragments(o) : Fragments(o)[k].cmd = "SOE_READRES"
  <1> DEFINE d == idns[o]
             frag(k) == ReadRes(o, SubSeq(d, k, k), k < Len(d))
             S == {frag(k) : k \in DOMAIN d}
  <1>1. PICK D : d \in Seq(D)  BY DEF Unsent, IsSeq
  <1>2. DOMAIN d = 1 .. Len(d) /\ Len(d) \in Nat  BY <1>1
  <1>3. Fragments(o) = [k \in DOMAIN d |-> frag(k)]  BY DEF Fragments
  <1> HIDE DEF d, frag
  <1>4. Fragments(o) \in Seq(S)  BY <1>2, <1>3
  <1>5. IsSeq(Fragments(o))  BY <1>4, Sequence
  <1>6. \A k \in DOMAIN Fragments(o) : Fragments(o)[k].cmd = "SOE_READRES"
    BY <1>3 DEF frag, ReadRes
  <1> QED  BY <1>5, <1>6

LEMMA SoeUnsent ==
  ASSUME Unsent, Requests, SoeServer, UNCHANGED <<slaveTx, parts>>
  PROVE  Unsent'
  <1>0. SoeRequest(sm0) /\ IsSeq(<< >>)  BY JoinsNothing DEF Requests, Unsent
  <1>1. CASE ServeIdnRead
    <2>1. sm0.obj \in Idns  BY <1>0, <1>1 DEF ServeIdnRead, SoeRequest, SoeCmds
    <2>2. /\ IsSeq(Fragments(sm0.obj))
          /\ \A k \in DOMAIN Fragments(sm0.obj) : Fragments(sm0.obj)[k].cmd = "SOE_READRES"
      BY <2>1, FragmentsAre
    <2>3. answer' = answer \o Fragments(sm0.obj) /\ UNCHANGED <<idns, part>>
      BY <1>1 DEF ServeIdnRead, SoeTakes
    <2>4. IsSeq(answer') /\ \A k \in DOMAIN answer' : answer'[k].cmd = "SOE_READRES"
      BY <2>2, <2>3, Joins DEF Unsent
    <2> QED  BY <2>3, <2>4 DEF Unsent
  <1>2. CASE QueueFragment
    <2>1. answer' = Tail(answer) /\ answer # << >> /\ UNCHANGED <<idns, part>>
      BY <1>2 DEF QueueFragment
    <2>2. IsSeq(answer') /\ \A k \in DOMAIN answer' : answer'[k].cmd = "SOE_READRES"
      BY <2>1, Shortened, ShortenedAt DEF Unsent
    <2> QED  BY <2>1, <2>2 DEF Unsent
  <1>3. CASE ServeIdnWrite
    <2>1. sm0.obj \in Idns /\ IsSeq(sm0.data)
      BY <1>0, <1>3 DEF ServeIdnWrite, SoeRequest, SoeCmds
    <2> DEFINE data == part \o sm0.data
    <2>2. IsSeq(data)  BY <2>1, Joins DEF Unsent
    <2>3. \/ idns' = idns /\ answer' = answer /\ part' = data
          \/ idns' = [idns EXCEPT ![sm0.obj] = data] /\ answer' = answer /\ part' = << >>
      BY <1>3 DEF ServeIdnWrite, SoeTakes
    <2> HIDE DEF data
    <2> QED  BY <1>0, <2>1, <2>2, <2>3 DEF Unsent
  <1>4. CASE RefuseIdn
    BY <1>0, <1>4 DEF RefuseIdn, SoeTakes, Unsent
  <1> QED  BY <1>1, <1>2, <1>3, <1>4 DEF SoeServer

LEMMA EoeUnsent ==
  ASSUME Unsent, EoeServer, UNCHANGED <<soeVars, parts>>
  PROVE  Unsent'
  <1>1. CASE ServeInit \/ ServeGetIp \/ ServeFragment
    BY <1>1 DEF ServeInit, ServeGetIp, ServeFragment, EoeTakes, Unsent, soeVars
  <1>2. CASE QueueFrame
    <2>1. slaveTx' = Tail(slaveTx) /\ slaveTx # << >>  BY <1>2 DEF QueueFrame
    <2>2. IsSeq(slaveTx') /\ \A k \in DOMAIN slaveTx' : slaveTx'[k].cmd = "EOE_FRAG"
      BY <2>1, Shortened, ShortenedAt DEF Unsent
    <2> QED  BY <2>2 DEF Unsent, soeVars
  <1>3. CASE FrameArrives
    <2>1. PICK n \in FrameSizes :
            LET frame == Frame("slave", Len(sent) + 1, n)
                count == (n + MaxFragment - 1) \div MaxFragment
            IN  slaveTx' = [k \in 1 .. count |->
                             FragmentOf(Len(sent) % 16, frame, (k - 1) * MaxFragment, k - 1)]
      BY <1>3 DEF FrameArrives
    <2> DEFINE frame == Frame("slave", Len(sent) + 1, n)
               count == (n + MaxFragment - 1) \div MaxFragment
               frag(k) == FragmentOf(Len(sent) % 16, frame, (k - 1) * MaxFragment, k - 1)
               S == {frag(k) : k \in 1 .. count}
    <2>2. count \in Nat  BY EoEAssumption
    <2>3. slaveTx' = [k \in 1 .. count |-> frag(k)]  BY <2>1
    <2>4. \A k \in 1 .. count : frag(k).cmd = "EOE_FRAG"  BY DEF FragmentOf, Fragment
    <2> HIDE DEF count, frag
    <2>5. slaveTx' \in Seq(S)  BY <2>2, <2>3
    <2>6. IsSeq(slaveTx')  BY <2>5, Sequence
    <2> QED  BY <2>3, <2>4, <2>6 DEF Unsent, soeVars
  <1> QED  BY <1>1, <1>2, <1>3 DEF EoeServer

LEMMA InfoUnsent ==
  ASSUME Unsent, InfoServer, UNCHANGED <<soeVars, slaveTx>>
  PROVE  Unsent'
  <1>1. CASE ServePdo \/ ServeInfo \/ RefuseInfo
    BY <1>1 DEF ServePdo, ServeInfo, RefuseInfo, Unsent, soeVars, infoVars
  <1>2. CASE ServeList
    <2> DEFINE one(k) == ListRes(<<Chunk(0, k)>>, ListParts - k)
               list == [k \in 1 .. ListParts |-> one(k)]
               S == {one(k) : k \in 1 .. ListParts}
    <2>1. \A k \in 1 .. ListParts : one(k).cmd = "ODLIST_RES"  BY DEF ListRes
    <2>2. parts' = parts \o list  BY <1>2 DEF ServeList
    <2> HIDE DEF one
    <2>3. ListParts \in Nat  BY CoEInfoAssumption
    <2>4. list \in Seq(S)  BY <2>3
    <2>5. IsSeq(list)  BY <2>4, Sequence
    <2>6. \A k \in DOMAIN list : list[k].cmd = "ODLIST_RES"  BY <2>1
    <2> HIDE DEF list
    <2>7. IsSeq(parts') /\ \A k \in DOMAIN parts' : parts'[k].cmd = "ODLIST_RES"
      BY <2>2, <2>5, <2>6, Joins DEF Unsent
    <2> QED  BY <2>7 DEF Unsent, soeVars
  <1>3. CASE QueuePart
    <2>1. parts' = Tail(parts) /\ parts # << >>  BY <1>3 DEF QueuePart
    <2>2. IsSeq(parts') /\ \A k \in DOMAIN parts' : parts'[k].cmd = "ODLIST_RES"
      BY <2>1, Shortened, ShortenedAt DEF Unsent
    <2> QED  BY <2>2 DEF Unsent, soeVars
  <1> QED  BY <1>1, <1>2, <1>3 DEF InfoServer

\* A step of a protocol other than SoE, and what it leaves alone.
LEMMA OtherKeeps ==
  ASSUME Well, ClientStep, NEW kinds, NEW cmds, OtherStep(kinds, cmds),
         "SoEwrite" \notin kinds, cmds \cap SoeCmds = {},
         UNCHANGED <<soeVars, slaveTx, parts>>
  PROVE  Unsent' /\ Requests' /\ Jobs' /\ Counted'
  <1>1. Unsent'  BY DEF Well, Unsent, soeVars
  <1>2. Requests'  BY NotSoe DEF Well, Requests, OtherStep, ClientStep
  <1>3. Jobs'  BY DEF OtherStep, Jobs
  <1>4. Counted'  BY DEF Well, Counted, ClientStep, ghosts
  <1> QED  BY <1>1, <1>2, <1>3, <1>4

LEMMA MasterWell ==
  ASSUME Well, Master
  PROVE  Unsent' /\ Requests' /\ Jobs' /\ Counted'
  <1> USE DEF Well
  <1>0. Typed /\ fails \in 0 .. 2  BY DEF IInv, Typed, MailTypeOK
  <1>1. CASE MasterMail /\ UNCHANGED protocolVars
    <2>1. Unsent'
      BY <1>1 DEF protocolVars, soeVars, eoeVars, slaveEoe, infoVars, Unsent
    <2> USE DEF MasterMail, slaveMail, ghosts, Fails, Hand
    <2>2. CASE DrainNothing \/ DrainMessage \/ DrainLost
      BY <1>1, <2>2, <2>1
         DEF DrainNothing, DrainMessage, DrainLost, Drained, Requests, Jobs, Counted, transfer
    <2>3. CASE SendOk \/ SendUnnoticed \/ SendFails \/ Emptied \/ EmptyExpires
      <3>1. request' \in {request, NoMsg} /\ sm0' \in {sm0, request} /\ job' = job
            /\ (fails' = fails \/ fails' > 0) /\ repeats' = repeats
        BY <1>0, <1>1, <2>3
           DEF SendOk, SendUnnoticed, SendFails, Emptied, EmptyExpires, transfer
      <3> QED  BY <2>1, <3>1, NotSoe DEF Requests, Jobs, Counted
    <2>4. CASE Available \/ TimerExpires \/ ReadAnswer \/ ReadNotice
      <3>1. request' = request /\ sm0' = sm0 /\ job' = job
            /\ ((fails' = fails /\ repeats' = repeats) \/ fails' > 0)
        BY <1>0, <1>1, <2>4
           DEF Available, TimerExpires, ReadAnswer, ReadNotice, transfer
      <3> QED  BY <2>1, <3>1 DEF Requests, Jobs, Counted
    <2>5. CASE ReadLost \/ AskRepeat \/ RepeatAcknowledged
      <3>1. request' = request /\ sm0' = sm0 /\ job' = job
            /\ fails' = fails /\ (repeats' = repeats \/ repeats' = "asked")
        BY <1>1, <2>5 DEF ReadLost, AskRepeat, RepeatAcknowledged, transfer
      <3> QED  BY <2>1, <3>1 DEF Requests, Jobs, Counted
    <2> QED  BY <1>1, <2>2, <2>3, <2>4, <2>5
  <1>2. CASE Sdo(SdoClient)
    <2>1. SdoClient /\ UNCHANGED <<soeVars, slaveTx, parts>>
      BY <1>2 DEF Sdo, eoeVars, slaveEoe, infoVars
    <2>2. OtherStep(SdoKinds, SdoReqs) /\ "SoEwrite" \notin SdoKinds /\ SdoReqs \cap SoeCmds = {}
      BY <2>1, SdoOther DEF SdoKinds, SdoReqs, SoeCmds
    <2> QED  BY <2>1, <2>2, <1>0, SdoSteps, OtherKeeps
  <1>3. CASE Foe(FoeClient)
    <2>1. FoeClient /\ UNCHANGED <<soeVars, slaveTx, parts>>
      BY <1>3 DEF Foe, eoeVars, slaveEoe, infoVars
    <2>2. OtherStep(FoeKinds, FoeReqs) /\ "SoEwrite" \notin FoeKinds /\ FoeReqs \cap SoeCmds = {}
      BY <2>1, FoeOther DEF FoeKinds, FoeReqs, SoeCmds
    <2> QED  BY <2>1, <2>2, <1>0, FoeSteps, OtherKeeps
  <1>4. CASE Info(InfoClient)
    <2>1. InfoClient /\ UNCHANGED <<soeVars, slaveTx, parts>>
      BY <1>4 DEF Info, InfoClient, eoeVars, slaveEoe, infoVars
    <2>2. OtherStep(InfoKinds, InfoReqs) /\ "SoEwrite" \notin InfoKinds /\ InfoReqs \cap SoeCmds = {}
      BY <2>1, InfoOther DEF InfoKinds, InfoReqs, SoeCmds
    <2> QED  BY <2>1, <2>2, <1>0, InfoSteps, OtherKeeps
  <1>5. CASE Soe(SoeClient)
    <2>1. SoeClient /\ UNCHANGED <<soeVars, slaveTx, parts>>
      BY <1>5 DEF Soe, SoeClient, eoeVars, slaveEoe, infoVars
    <2>2. Jobs' /\ SoeRequest(request')  BY <2>1, SoeOther
    <2>3. ClientStep  BY <2>1, <1>0, SoeSteps
    <2>4. Requests' /\ Counted'
      BY <2>2, <2>3 DEF Requests, Counted, ClientStep, ghosts
    <2>5. Unsent'  BY <2>1 DEF Unsent, soeVars
    <2> QED  BY <2>2, <2>4, <2>5
  <1>6. CASE Eoe(EoeClient)
    <2>1. EoeClient /\ UNCHANGED <<soeVars, slaveTx, parts>>
      BY <1>6 DEF Eoe, EoeClient, slaveEoe, infoVars
    <2>2. CASE EOEdefinehook
      <3>1. UNCHANGED <<request, job, sm0, fails, repeats>>
        BY <2>2 DEF EOEdefinehook, master, ghosts
      <3> QED  BY <2>1, <3>1 DEF Unsent, soeVars, Requests, Jobs, Counted
    <2>3. CASE OtherStep(EoeKinds, EoeReqs) /\ ClientStep
      <3>1. "SoEwrite" \notin EoeKinds /\ EoeReqs \cap SoeCmds = {}  BY DEF EoeKinds, EoeReqs, SoeCmds
      <3> QED  BY <2>1, <2>3, <3>1, OtherKeeps
    <2> QED  BY <2>1, <2>2, <2>3, <1>0, EoeOther, EoeSteps
  <1>7. CASE Eoe(HookFragment)
    <2>1. HookFragment /\ UNCHANGED <<soeVars, slaveTx, parts>>
      BY <1>7 DEF Eoe, HookFragment, slaveEoe, infoVars
    <2>2. request' = request /\ sm0' = sm0 /\ job' = job
          /\ (repeats' = "none" \/ (fails' = fails /\ repeats' = repeats) \/ fails' > 0)
      BY <1>0, <2>1 DEF HookFragment, Drained, Fails, Hand, transfer
    <2> QED  BY <2>1, <2>2 DEF Unsent, soeVars, Requests, Jobs, Counted
  <1> QED
    BY <1>1, <1>2, <1>3, <1>4, <1>5, <1>6, <1>7 DEF Master, Eoe

LEMMA SlaveWell ==
  ASSUME Well, Slave
  PROVE  Unsent' /\ Requests' /\ Jobs' /\ Counted'
  <1> USE DEF Well
  <1>1. sm0' \in {sm0, NoMsg} /\ UNCHANGED <<request, job, fails, repeats>>
    BY DEF Slave, SlaveMail, Publish, Repeat, Notify, Vanish, transfer, master, ghosts,
       Sdo, SdoServer, ServeUpload, ServeSegUpload, ServeDownload, ServeSegDownload, Refuse,
       Answers, Take,
       Foe, FoeServer, ServeRead, ServeAck, Sends, ServeWrite, ServePacket, ServeBusy,
       ServeError, Serves,
       Soe, SoeServer, ServeIdnRead, QueueFragment, ServeIdnWrite, RefuseIdn, SoeTakes,
       Eoe, EoeServer, ServeInit, ServeGetIp, ServeFragment, FrameArrives, QueueFrame,
       EoeTakes, mailVars,
       Info, InfoServer, ServePdo, ServeList, QueuePart, ServeInfo, RefuseInfo
  <1>2. Requests' /\ Jobs' /\ Counted'
    BY <1>1, NotSoe DEF Requests, Jobs, Counted
  <1>3. Unsent'
    <2>1. CASE UNCHANGED <<soeVars, slaveTx, parts>>  BY <2>1 DEF Unsent, soeVars
    <2>2. CASE Soe(SoeServer)
      <3>1. SoeServer /\ UNCHANGED <<slaveTx, parts>>
        BY <2>2 DEF Soe, eoeVars, slaveEoe, infoVars
      <3> QED  BY <3>1, SoeUnsent
    <2>3. CASE Eoe(EoeServer)
      <3>1. EoeServer /\ UNCHANGED <<soeVars, parts>>  BY <2>3 DEF Eoe, infoVars
      <3> QED  BY <3>1, EoeUnsent
    <2>4. CASE Info(InfoServer)
      <3>1. InfoServer /\ UNCHANGED <<soeVars, slaveTx>>
        BY <2>4 DEF Info, eoeVars, slaveEoe
      <3> QED  BY <3>1, InfoUnsent
    <2> QED
      BY <2>1, <2>2, <2>3, <2>4 DEF Slave, Sdo, Foe, protocolVars, eoeVars, slaveEoe, infoVars
  <1> QED  BY <1>2, <1>3

-----------------------------------------------------------------------------
(* Files.                                                                  *)

FoeCmds == {"FOE_ACK", "FOE_DATA", "FOE_BUSY", "FOE_ERROR"}

\* The mailbox held nothing of an earlier transfer, and every call succeeded.
Live == ~dirty /\ fails = 0 /\ pc # "drain"

Waits == {"wait", "read", "repeat", "ack", "refill"}

Silent == sm0 = NoMsg /\ Flying(FoeCmds) = {}

\* The slave has sent packet n of a file of which the master has buf then.
Serving(n, buf) ==
    /\ server.dir = "read" /\ server.packet = n
    /\ IsSeq(server.rest) /\ file = buf \o server.rest
    /\ server.last => server.rest = << >>

PacketFits(m) ==
    m.cmd = "FOE_DATA" =>
        /\ m.packet = job.prevpacket + 1
        /\ IsSeq(m.data) /\ Serving(m.packet, job.buf \o m.data)
        /\ server.last <=> ~IsFull(m.data)

\* The next packet is asked for, or comes, or does not.
PacketComes ==
    \/ /\ Flying(FoeCmds) = {}
       /\ IF job.prevpacket = 0 THEN sm0 = Read
          ELSE sm0 = Ack(job.prevpacket) /\ Serving(job.prevpacket, job.buf) /\ ~server.last
    \/ /\ sm0 = NoMsg /\ Single(FoeCmds)
       /\ \A m \in Flying(FoeCmds) : PacketFits(m)

ReadJob ==
    /\ {"kind", "buffersize", "buf", "prevpacket", "worktodo", "ret"} \subseteq DOMAIN job
    /\ job.prevpacket \in Nat /\ job.worktodo \in BOOLEAN
    /\ job.prevpacket = 0 => job.buf = << >>
    /\ Live => IsSeq(job.buf)

Reading ==
    /\ ReadJob
    /\ pc = "drain" => job.prevpacket = 0 /\ request = Read /\ goesOn = "wait"
    /\ Live =>
        /\ pc \in {"send", "handle", "idle"} \cup Waits
        /\ pc = "send" => job.prevpacket = 0 /\ request = Read /\ goesOn = "wait" /\ Silent
        /\ pc \in Waits => PacketComes
        /\ pc = "handle" /\ got.cmd \in FoeCmds => Silent /\ PacketFits(got)
        /\ pc = "idle" => job.ret # "ok"

Acknowledging ==
    /\ ReadJob
    /\ pc # "drain" /\ job.prevpacket > 0
    /\ Live =>
        /\ pc \in {"send", "handle", "idle"}
        /\ pc = "send" =>
             /\ request = Ack(job.prevpacket) /\ goesOn = "handle" /\ Silent
             /\ Serving(job.prevpacket, job.buf) /\ (server.last <=> ~job.worktodo)
        /\ pc = "handle" /\ job.worktodo => PacketComes
        /\ (pc = "handle" /\ ~job.worktodo) \/ (pc = "idle" /\ job.ret = "ok")
             => job.buf = file /\ sm0 \in {NoMsg, Ack(job.prevpacket)}

\* The slave has all of a written file but what is left, and waits for
\* packet n.
Storing(n, left) ==
    /\ server.dir = "write" /\ server.packet = n
    /\ IsSeq(server.data) /\ job.data = server.data \o left

AckFits(m) ==
    m.cmd = "FOE_ACK" =>
        /\ m.packet = job.sendpacket
        /\ IF job.sendpacket = 0 \/ IsFull(job.segment)
           THEN Storing(job.sendpacket + 1, job.rest)
           ELSE file = job.data

PacketToStore(m) ==
    IF job.sendpacket = 0 THEN m = Write
    ELSE /\ m = Packet(job.sendpacket, job.segment)
         /\ Storing(job.sendpacket, job.segment \o job.rest)

AckComes ==
    \/ Flying(FoeCmds) = {} /\ PacketToStore(sm0)
    \/ sm0 = NoMsg /\ Single(FoeCmds) /\ \A m \in Flying(FoeCmds) : AckFits(m)

WriteJob ==
    /\ {"kind", "data", "rest", "sendpacket", "segment", "dofinalzero", "ret"} \subseteq DOMAIN job
    /\ IsSeq(job.data) /\ IsSeq(job.rest) /\ IsSeq(job.segment)
    /\ job.sendpacket \in Nat /\ job.dofinalzero \in BOOLEAN
    /\ pc # "idle" =>
         IF job.sendpacket = 0
         THEN job.rest = job.data /\ ~job.dofinalzero
         ELSE /\ job.dofinalzero <=> (job.rest = << >> /\ IsFull(job.segment))
              /\ ~IsFull(job.segment) => job.rest = << >>

Writing ==
    /\ WriteJob
    /\ pc = "drain" => job.sendpacket = 0 /\ request = Write /\ goesOn = "wait"
    /\ Live =>
        /\ pc \in {"send", "handle", "idle"} \cup Waits
        /\ pc = "send" => goesOn = "wait" /\ Silent /\ PacketToStore(request)
        /\ pc \in Waits => AckComes
        /\ pc = "handle" /\ got.cmd \in FoeCmds => Silent /\ AckFits(got)
        /\ pc = "idle" /\ job.ret = "ok" =>
             /\ sm0 = NoMsg
             /\ job.rest = << >> /\ ~job.dofinalzero /\ job.data # << >> => file = job.data

FoeRequest(m) == m.cmd = "FOE_DATA" => IsSeq(m.data)

FoeTyped ==
    /\ IsSeq(file) /\ FoeRequest(request) /\ FoeRequest(sm0)
    /\ server.dir = "write" => {"dir", "packet", "data"} \subseteq DOMAIN server
                               /\ IsSeq(server.data)

\* A file transfer in which a call has failed does not succeed.
Failing ==
    job.kind \in FoeKinds /\ fails > 0 =>
        \/ pc = "drain"
        \/ pc = "handle" /\ got = Failed
        \/ pc = "idle" /\ job.ret # "ok"

FileInv ==
    /\ FoeTyped /\ Failing
    /\ job.kind = "FOEread" => Reading
    /\ job.kind = "FOEreadAck" => Acknowledging
    /\ job.kind = "FOEwrite" => Writing

FInv == Well /\ FileInv

-----------------------------------------------------------------------------
(* A file transfer and the mailbox.                                        *)

LEMMA FoeNone == FoeCmds \cap NoAnswers = {} /\ NoMsg.cmd \notin FoeCmds \cup FoeReqs
  BY DEF FoeCmds, FoeReqs, NoAnswers, NoMsg

LEMMA NoneIsSingle == ASSUME NEW C, Flying(C) = {} PROVE Single(C)
  BY DEF Flying, Single

\* What waits for a packet or an acknowledge waits on, as long as no more is
\* in flight.
LEMMA WaitsOn ==
  ASSUME UNCHANGED <<server, file, job>>,
         sm0' = sm0 \/ (sm0' = NoMsg /\ Flying(FoeCmds)' = {}),
         Flying(FoeCmds)' \subseteq Flying(FoeCmds),
         Single(FoeCmds) => Single(FoeCmds)'
  PROVE  (PacketComes => PacketComes') /\ (AckComes => AckComes')
  <1>1. ASSUME Flying(FoeCmds)' = {} PROVE Single(FoeCmds)'
    BY <1>1 DEF Flying, Single
  <1>2. PacketComes => PacketComes'
    BY <1>1 DEF PacketComes, PacketFits, Serving
  <1>3. AckComes => AckComes'
    BY <1>1 DEF AckComes, AckFits, Storing, PacketToStore
  <1> QED  BY <1>2, <1>3

\* A step of ecx_mbxsend or ecx_mbxreceive in which no call fails.
LEMMA MailMoves ==
  ASSUME Well, MasterMail \/ HookFragment, pc # "drain", Live'
  PROVE  /\ Live /\ UNCHANGED <<job, dirty>>
         /\ \/ pc = "send" /\ sm0' = request /\ UNCHANGED <<outq, lastOut, taken, sm1>>
               /\ IF goesOn = "handle" THEN pc' = "handle" /\ got' = Sent ELSE pc' = goesOn
            \/ pc \in Waits /\ pc' \in Waits /\ sm0' = sm0
            \/ ReadAnswer /\ pc = "read" /\ pc' = "handle" /\ sm0' = sm0
            \/ pc = "empty"
  <1>0. fails \in 0 .. 2  BY DEF Well, IInv, Typed, MailTypeOK
  <1> USE DEF Live, slaveMail, ghosts, Fails, Hand, Waits
  <1>1. CASE SendOk  BY <1>1 DEF SendOk, MasterMail, HookFragment, transfer
  <1>2. CASE SendUnnoticed \/ SendFails \/ Emptied \/ EmptyExpires
    BY <1>0, <1>2 DEF SendUnnoticed, SendFails, Emptied, EmptyExpires, MasterMail,
       HookFragment, transfer
  <1>3. CASE Available \/ TimerExpires \/ ReadNotice
    BY <1>0, <1>3 DEF Available, TimerExpires, ReadNotice, MasterMail, HookFragment, transfer
  <1>4. CASE ReadAnswer
    BY <1>4 DEF ReadAnswer, MasterMail, HookFragment, transfer
  <1>5. CASE ReadLost \/ AskRepeat \/ RepeatAcknowledged
    BY <1>5 DEF ReadLost, AskRepeat, RepeatAcknowledged, MasterMail, HookFragment, transfer
  <1>6. CASE HookFragment
    <2>1. pc = "read" /\ job' = job  BY <1>6 DEF HookFragment, transfer
    <2>2. /\ UNCHANGED <<pc, got, fails>> \/ (pc' = "handle" /\ fails' > 0)
          /\ UNCHANGED <<sm0, dirty>>
      BY <1>0, <1>6, <2>1 DEF HookFragment
    <2> QED  BY <2>1, <2>2
  <1> QED
    BY <1>1, <1>2, <1>3, <1>4, <1>5, <1>6
       DEF MasterMail, DrainNothing, DrainMessage, DrainLost

\* Where the master is after any of these steps.
LEMMA MailPlaces ==
  ASSUME Typed, MasterMail \/ HookFragment
  PROVE  /\ pc \notin {"idle", "handle"} /\ pc' \notin {"idle", "drain"} /\ job' = job
         /\ pc = "drain" => Drained /\ pc' = "send"
  <1>0. goesOn \notin {"idle", "drain"}  BY DEF Typed, MailTypeOK
  <1> USE DEF MasterMail, transfer, Fails, Hand
  <1>1. CASE DrainNothing \/ DrainMessage \/ DrainLost
    BY <1>1 DEF DrainNothing, DrainMessage, DrainLost, Drained, HookFragment
  <1>2. CASE SendOk \/ SendUnnoticed \/ SendFails \/ Emptied \/ EmptyExpires
    <2>1. pc \in {"send", "empty"} /\ pc' \in {"handle", "wait", goesOn} /\ job' = job
      BY <1>2 DEF SendOk, SendUnnoticed, SendFails, Emptied, EmptyExpires, HookFragment
    <2> QED  BY <2>1, <1>0
  <1>3. CASE Available \/ TimerExpires \/ ReadAnswer \/ ReadNotice
    BY <1>3 DEF Available, TimerExpires, ReadAnswer, ReadNotice, HookFragment
  <1>4. CASE ReadLost \/ AskRepeat \/ RepeatAcknowledged
    BY <1>4 DEF ReadLost, AskRepeat, RepeatAcknowledged, HookFragment
  <1>5. CASE HookFragment  BY <1>5 DEF HookFragment, Drained
  <1> QED  BY <1>1, <1>2, <1>3, <1>4, <1>5

\* A call of these that fails hands that to the protocol.
LEMMA MailFails ==
  ASSUME Typed, Failing, MasterMail \/ HookFragment
  PROVE  Failing'
  <1>1. /\ pc \notin {"idle", "handle"} /\ job' = job
        /\ pc = "drain" => Drained
    BY MailPlaces
  <1>2. CASE pc = "drain"  BY <1>1, <1>2 DEF Failing, Drained
  <1>3. CASE pc # "drain" /\ MasterMail
    <2> USE DEF MasterMail, Fails, Hand, ghosts
    <2>1. fails' = fails \/ (pc' = "handle" /\ got' = Failed)
      <3>1. CASE SendOk \/ SendUnnoticed \/ SendFails \/ Emptied \/ EmptyExpires
        BY <3>1 DEF SendOk, SendUnnoticed, SendFails, Emptied, EmptyExpires
      <3>2. CASE Available \/ TimerExpires \/ ReadAnswer \/ ReadNotice
        BY <3>2 DEF Available, TimerExpires, ReadAnswer, ReadNotice
      <3>3. CASE ReadLost \/ AskRepeat \/ RepeatAcknowledged
        BY <3>3 DEF ReadLost, AskRepeat, RepeatAcknowledged
      <3> QED  BY <1>3, <3>1, <3>2, <3>3 DEF DrainNothing, DrainMessage, DrainLost
    <2> QED  BY <1>1, <1>3, <2>1 DEF Failing
  <1>4. CASE pc # "drain" /\ HookFragment
    BY <1>1, <1>4 DEF HookFragment, Fails, Hand, Failing
  <1> QED  BY <1>2, <1>3, <1>4

LEMMA MailRequests ==
  ASSUME MasterMail \/ HookFragment
  PROVE  request' \in {request, NoMsg} /\ sm0' \in {sm0, request}
  <1>1. CASE DrainNothing \/ DrainMessage \/ DrainLost \/ HookFragment
    BY <1>1 DEF DrainNothing, DrainMessage, DrainLost, Drained, HookFragment
  <1>2. CASE SendOk \/ SendUnnoticed \/ SendFails \/ Emptied \/ EmptyExpires
    BY <1>2 DEF SendOk, SendUnnoticed, SendFails, Emptied, EmptyExpires
  <1>3. CASE Available \/ TimerExpires \/ ReadAnswer \/ ReadNotice
    BY <1>3 DEF Available, TimerExpires, ReadAnswer, ReadNotice
  <1>4. CASE ReadLost \/ AskRepeat \/ RepeatAcknowledged
    BY <1>4 DEF ReadLost, AskRepeat, RepeatAcknowledged
  <1> QED  BY <1>1, <1>2, <1>3, <1>4 DEF MasterMail

LEMMA FoeMailTyped ==
  ASSUME FoeTyped, request' \in {request, NoMsg}, sm0' \in {sm0, request, NoMsg},
         UNCHANGED foeVars
  PROVE  FoeTyped'
  BY DEF FoeTyped, FoeRequest, foeVars, NoMsg

\* What is read while one of the expected answers may come is that answer.
LEMMA ReadsIt ==
  ASSUME IInv, Quiet, ReadAnswer, UNCHANGED <<server, file, job>>, got'.cmd \in FoeCmds
  PROVE  /\ PacketComes \/ AckComes => Flying(FoeCmds)' = {}
         /\ PacketComes => sm0 = NoMsg /\ PacketFits(got)'
         /\ AckComes => sm0 = NoMsg /\ AckFits(got)'
  <1>1. Single(FoeCmds) => got' \in Flying(FoeCmds) /\ Flying(FoeCmds)' = {}
    BY ReadFlies, FoeNone
  <1>2. PacketComes => sm0 = NoMsg /\ PacketFits(got)'
    BY <1>1, NoneIsSingle DEF PacketComes, PacketFits, Serving
  <1>3. AckComes => sm0 = NoMsg /\ AckFits(got)'
    BY <1>1, NoneIsSingle DEF AckComes, AckFits, Storing
  <1>4. PacketComes \/ AckComes => Flying(FoeCmds)' = {}
    BY <1>1, NoneIsSingle DEF PacketComes, AckComes
  <1> QED  BY <1>2, <1>3, <1>4

LEMMA FileMail ==
  ASSUME FInv, IInv', MasterMail \/ HookFragment, UNCHANGED foeVars
  PROVE  FileInv'
  <1>0. /\ Typed /\ IInv /\ Well /\ FileInv /\ UNCHANGED <<server, file>>
        /\ pc \notin {"idle", "handle"} /\ pc' \notin {"idle", "drain"} /\ job' = job
        /\ pc = "drain" => Drained /\ pc' = "send"
    BY MailPlaces DEF FInv, Well, IInv, foeVars
  <1>1. FoeTyped' /\ Failing'
    BY <1>0, MailRequests, MailFails, FoeMailTyped DEF FileInv
  <1>2. CASE pc = "drain"
    <2>1. Live' => Silent'
      BY <1>0, <1>2, DrainedFlies, FoeNone DEF Live, Silent
    <2>2. pc' = "send" /\ UNCHANGED <<request, goesOn>>  BY <1>0, <1>2 DEF Drained
    <2>0. IsSeq(<< >>)  BY <1>0, JoinsNothing DEF FileInv, FoeTyped
    <2>3. job.kind = "FOEread" => Reading'
      BY <1>0, <1>2, <2>0, <2>1, <2>2 DEF FileInv, Reading, ReadJob, Waits
    <2>4. job.kind # "FOEreadAck"  BY <1>0, <1>2 DEF FileInv, Acknowledging
    <2>5. job.kind = "FOEwrite" => Writing'
      BY <1>0, <1>2, <2>1, <2>2 DEF FileInv, Writing, WriteJob, PacketToStore, Waits
    <2> QED  BY <1>0, <1>1, <2>3, <2>4, <2>5 DEF FileInv
  <1>3. CASE pc # "drain" /\ ~Live'
    BY <1>0, <1>1, <1>3
       DEF FileInv, Reading, ReadJob, Acknowledging, Writing, WriteJob
  <1>4. CASE pc # "drain" /\ Live'
    <2>0. Live /\ Quiet  BY <1>0, <1>4, MailMoves DEF Live, Quiet, Well, Counted
    <2>1. Flying(FoeCmds)' \subseteq Flying(FoeCmds) /\ (Single(FoeCmds) => Single(FoeCmds)')
      BY <1>0, <1>4, <2>0, FoeNone, MailFlies
    <2>2. /\ pc = "send" => /\ sm0' = request /\ pc' = goesOn
                            /\ goesOn = "handle" => got' = Sent
          /\ pc \in Waits => sm0' = sm0 /\ (pc' \in Waits \/ (ReadAnswer /\ pc' = "handle"))
      BY <1>0, <1>4, MailMoves DEF Waits
    <2>3. job.kind = "FOEread" => Reading'
      <3> SUFFICES ASSUME job.kind = "FOEread" PROVE Reading'  OBVIOUS
      <3>1. Reading  BY <1>0 DEF FileInv
      <3>2. pc \in {"send"} \cup Waits  BY <1>0, <2>0, <3>1 DEF Reading
      <3>3. CASE pc = "send"
        <4>1. pc' = "wait" /\ sm0' = Read /\ Flying(FoeCmds)' = {}
          BY <2>0, <2>1, <2>2, <3>1, <3>3 DEF Reading, Silent
        <4> QED
          BY <1>0, <2>0, <3>1, <3>3, <4>1 DEF Reading, ReadJob, PacketComes, Waits
      <3>4. CASE pc \in Waits /\ pc' \in Waits
        <4>1. PacketComes'
          BY <1>0, <2>0, <2>1, <2>2, <3>1, <3>4, WaitsOn DEF Reading
        <4> QED
          BY <1>0, <2>0, <3>1, <3>4, <4>1 DEF Reading, ReadJob, Waits
      <3>5. CASE pc \in Waits /\ ReadAnswer /\ pc' = "handle"
        <4>1. got'.cmd \in FoeCmds => Silent' /\ PacketFits(got)'
          BY <1>0, <2>0, <2>2, <3>1, <3>5, ReadsIt DEF Reading, Silent
        <4> QED
          BY <1>0, <2>0, <3>1, <3>5, <4>1 DEF Reading, ReadJob, Waits
      <3> QED  BY <2>2, <3>2, <3>3, <3>4, <3>5
    <2>4. job.kind = "FOEreadAck" => Acknowledging'
      <3> SUFFICES ASSUME job.kind = "FOEreadAck" PROVE Acknowledging'  OBVIOUS
      <3>1. Acknowledging  BY <1>0 DEF FileInv
      <3>2. pc = "send"  BY <1>0, <2>0, <3>1 DEF Acknowledging
      <3>3. pc' = "handle" /\ sm0' = Ack(job.prevpacket) /\ Flying(FoeCmds)' = {}
        BY <2>0, <2>1, <2>2, <3>1, <3>2 DEF Acknowledging, Silent
      <3>4. Serving(job.prevpacket, job.buf)' /\ (server'.last <=> ~job.worktodo)
        BY <1>0, <2>0, <3>1, <3>2 DEF Acknowledging, Serving
      <3>5. ~job.worktodo => job.buf = file
        BY <1>0, <2>0, <3>1, <3>2, JoinsNothing DEF Acknowledging, Serving, ReadJob
      <3>6. job.worktodo \in BOOLEAN /\ job.prevpacket \in Nat /\ job.prevpacket > 0
        BY <3>1 DEF Acknowledging, ReadJob
      <3>7. job.worktodo => ~server'.last  BY <3>4, <3>6
      <3>8. job.worktodo => PacketComes'
        BY <1>0, <3>3, <3>4, <3>6, <3>7 DEF PacketComes
      <3>9. pc' = "handle" /\ sm0' = Ack(job'.prevpacket)  BY <1>0, <3>3
      <3> QED
        BY <1>0, <2>0, <3>1, <3>5, <3>8, <3>9 DEF Acknowledging, ReadJob
    <2>5. job.kind = "FOEwrite" => Writing'
      <3> SUFFICES ASSUME job.kind = "FOEwrite" PROVE Writing'  OBVIOUS
      <3>1. Writing  BY <1>0 DEF FileInv
      <3>2. pc \in {"send"} \cup Waits  BY <1>0, <2>0, <3>1 DEF Writing
      <3>6. WriteJob'  BY <1>0, <3>1 DEF Writing, WriteJob
      <3>3. CASE pc = "send"
        <4>1. pc' = "wait" /\ sm0' = request /\ Flying(FoeCmds)' = {} /\ PacketToStore(request)
          BY <2>0, <2>1, <2>2, <3>1, <3>3 DEF Writing, Silent
        <4>2. AckComes'  BY <1>0, <4>1 DEF AckComes, PacketToStore, Storing
        <4> QED
          BY <1>0, <3>3, <3>6, <4>1, <4>2 DEF Writing, Waits
      <3>4. CASE pc \in Waits /\ pc' \in Waits
        <4>1. AckComes'
          BY <1>0, <2>0, <2>1, <2>2, <3>1, <3>4, WaitsOn DEF Writing
        <4> QED  BY <1>0, <3>4, <3>6, <4>1 DEF Writing, Waits
      <3>5. CASE pc \in Waits /\ ReadAnswer /\ pc' = "handle"
        <4>1. got'.cmd \in FoeCmds => Silent' /\ AckFits(got)'
          BY <1>0, <2>0, <2>2, <3>1, <3>5, ReadsIt DEF Writing, Silent
        <4> QED  BY <1>0, <3>5, <3>6, <4>1 DEF Writing, Waits
      <3> QED  BY <2>2, <3>2, <3>3, <3>4, <3>5
    <2> QED  BY <1>0, <1>1, <2>3, <2>4, <2>5 DEF FileInv
  <1> QED  BY <1>2, <1>3, <1>4

\* A step that leaves the transfer where it is and adds nothing in flight.
LEMMA FileStays ==
  ASSUME FileInv, UNCHANGED <<pc, request, goesOn, got, job, dirty, fails, server, file>>,
         Live => /\ sm0' = sm0 \/ (sm0' = NoMsg /\ Flying(FoeCmds)' = {})
                 /\ Flying(FoeCmds)' \subseteq Flying(FoeCmds)
                 /\ Single(FoeCmds) => Single(FoeCmds)',
         sm0' \in {sm0, NoMsg}
  PROVE  FileInv'
  <1>1. FoeTyped' /\ Failing'
    BY FoeMailTyped DEF FileInv, foeVars, FoeTyped, FoeRequest, NoMsg, Failing
  <1>2. Live' = Live  BY DEF Live
  <1>3. Live => (Silent => Silent') /\ (PacketComes => PacketComes') /\ (AckComes => AckComes')
    BY WaitsOn DEF Silent
  <1>4. job.kind = "FOEread" => Reading'
    BY <1>2, <1>3 DEF FileInv, Reading, ReadJob, PacketFits, Serving
  <1>5. job.kind = "FOEreadAck" => Acknowledging'
    BY <1>2, <1>3 DEF FileInv, Acknowledging, ReadJob, Serving
  <1>6. job.kind = "FOEwrite" => Writing'
    BY <1>2, <1>3 DEF FileInv, Writing, WriteJob, AckFits, PacketToStore, Storing
  <1> QED  BY <1>1, <1>4, <1>5, <1>6 DEF FileInv

LEMMA FileSlaveMail ==
  ASSUME FInv, SlaveMail, UNCHANGED foeVars
  PROVE  FileInv'
  <1>1. UNCHANGED <<pc, request, goesOn, got, job, dirty, fails, server, file>>
    BY DEF SlaveMail, Publish, Repeat, Notify, Vanish, master, ghosts, transfer, foeVars
  <1>2. sm0' = sm0 \/ Vanish
    BY DEF SlaveMail, Publish, Repeat, Notify
  <1>3. ASSUME Vanish PROVE sm0' = NoMsg /\ Flying(FoeCmds)' = {}
    <2>1. outq' = << >> /\ lastOut' = NoMsg /\ sm0' = NoMsg  BY <1>3 DEF Vanish
    <2>2. DOMAIN outq' = {}  BY <2>1
    <2> QED  BY <2>1, <2>2, FoeNone DEF Flying
  <1>4. ASSUME Live
        PROVE  /\ Flying(FoeCmds)' \subseteq Flying(FoeCmds)
               /\ Single(FoeCmds) => Single(FoeCmds)'
    <2>1. Quiet /\ pc # "drain" /\ IInv  BY <1>4 DEF Live, Quiet, FInv, Well, Counted
    <2> QED  BY <2>1, FoeNone, MailFlies
  <1> QED  BY <1>1, <1>2, <1>3, <1>4, FileStays DEF FInv

LEMMA FileHook == ASSUME FInv, EOEdefinehook, UNCHANGED foeVars PROVE FileInv'
  <1>1. UNCHANGED <<pc, request, goesOn, got, job, dirty, fails, server, file, sm0>>
        /\ UNCHANGED <<outq, lastOut, taken, sm1>>
    BY DEF EOEdefinehook, master, ghosts, slaveMail, foeVars
  <1>2. outq' = outq /\ (Held' => Held /\ lastOut' = lastOut)
    BY <1>1 DEF Held
  <1>3. Flying(FoeCmds)' \subseteq Flying(FoeCmds) /\ (Single(FoeCmds) => Single(FoeCmds)')
    BY <1>2, Lasts
  <1> QED  BY <1>1, <1>3, FileStays DEF FInv

\* Another protocol of the slave takes a request of its own, or queues an
\* answer of its own.
OtherServer(cmds, answers) ==
    /\ UNCHANGED <<master, transfer, sm1, lastOut, taken, environment, ghosts>>
    /\ \/ sm0 # NoMsg /\ sm0.cmd \in cmds /\ sm0' = NoMsg
       \/ sm0' = sm0 /\ (outq' = outq \/ \E m : m.cmd \in answers /\ outq' = Append(outq, m))

\* What the slave sends of its own, behind a request for it or without one.
Series == {"SOE_READRES", "EOE_FRAG", "ODLIST_RES"}

LEMMA OwnServers ==
  ASSUME Unsent
  PROVE  /\ SdoServer => OtherServer(SdoReqs, {})
         /\ FoeServer => OtherServer(FoeReqs, {})
         /\ SoeServer => OtherServer(SoeCmds, {"SOE_READRES"})
         /\ EoeServer => OtherServer(EoeReqs, {"EOE_FRAG"})
         /\ InfoServer => OtherServer(InfoReqs, {"ODLIST_RES"})
  <1> USE DEF OtherServer, Take
  <1>1. SdoServer => OtherServer(SdoReqs, {})
    BY DEF SdoServer, ServeUpload, ServeSegUpload, ServeDownload, ServeSegDownload, Refuse,
       Answers, SdoReqs
  <1>2. FoeServer => OtherServer(FoeReqs, {})
    BY DEF FoeServer, ServeRead, ServeAck, Sends, ServeWrite, ServePacket, ServeBusy,
       ServeError, Serves, FoeReqs
  <1>3. SoeServer => OtherServer(SoeCmds, {"SOE_READRES"})
    <2>1. ServeIdnRead \/ ServeIdnWrite \/ RefuseIdn => OtherServer(SoeCmds, {"SOE_READRES"})
      BY DEF ServeIdnRead, ServeIdnWrite, RefuseIdn, SoeTakes, SoeCmds
    <2>2. ASSUME QueueFragment PROVE OtherServer(SoeCmds, {"SOE_READRES"})
      <3>1. Head(answer).cmd = "SOE_READRES"  BY <2>2, ShortenedAt DEF QueueFragment, Unsent
      <3> QED  BY <2>2, <3>1 DEF QueueFragment
    <2> QED  BY <2>1, <2>2 DEF SoeServer
  <1>4. EoeServer => OtherServer(EoeReqs, {"EOE_FRAG"})
    <2>1. ServeInit \/ ServeGetIp \/ ServeFragment => OtherServer(EoeReqs, {"EOE_FRAG"})
      BY DEF ServeInit, ServeGetIp, ServeFragment, EoeTakes, EoeReqs
    <2>2. FrameArrives => OtherServer(EoeReqs, {"EOE_FRAG"})
      BY DEF FrameArrives, mailVars, slaveMail
    <2>3. ASSUME QueueFrame PROVE OtherServer(EoeReqs, {"EOE_FRAG"})
      <3>1. Head(slaveTx).cmd = "EOE_FRAG"  BY <2>3, ShortenedAt DEF QueueFrame, Unsent
      <3> QED  BY <2>3, <3>1 DEF QueueFrame
    <2> QED  BY <2>1, <2>2, <2>3 DEF EoeServer
  <1>5. InfoServer => OtherServer(InfoReqs, {"ODLIST_RES"})
    <2>1. ServePdo \/ ServeList \/ ServeInfo \/ RefuseInfo => OtherServer(InfoReqs, {"ODLIST_RES"})
      BY DEF ServePdo, ServeList, ServeInfo, RefuseInfo, InfoReqs
    <2>2. ASSUME QueuePart PROVE OtherServer(InfoReqs, {"ODLIST_RES"})
      <3>1. Head(parts).cmd = "ODLIST_RES"  BY <2>2, ShortenedAt DEF QueuePart, Unsent
      <3> QED  BY <2>2, <3>1 DEF QueuePart
    <2> QED  BY <2>1, <2>2 DEF InfoServer
  <1> QED  BY <1>1, <1>2, <1>3, <1>4, <1>5

LEMMA OtherServers ==
  ASSUME Unsent
  PROVE  /\ SdoServer => OtherServer(SdoReqs, Series)
         /\ FoeServer => OtherServer(FoeReqs, Series)
         /\ SoeServer => OtherServer(SoeCmds, Series)
         /\ EoeServer => OtherServer(EoeReqs, Series)
         /\ InfoServer => OtherServer(InfoReqs, Series)
  <1>1. ASSUME NEW cmds, NEW answers, answers \subseteq Series, OtherServer(cmds, answers)
        PROVE  OtherServer(cmds, Series)
    BY <1>1 DEF OtherServer
  <1>2. {} \subseteq Series /\ {"SOE_READRES"} \subseteq Series /\ {"EOE_FRAG"} \subseteq Series
        /\ {"ODLIST_RES"} \subseteq Series
    BY DEF Series
  <1> QED  BY <1>1, <1>2, OwnServers

LEMMA FileOtherServer ==
  ASSUME FInv, NEW cmds, cmds \cap FoeReqs = {}, OtherServer(cmds, Series), UNCHANGED foeVars
  PROVE  FileInv'
  <1>1. UNCHANGED <<pc, request, goesOn, got, job, dirty, fails, server, file, lastOut, taken,
                    sm1>>
    BY DEF OtherServer, master, ghosts, transfer, foeVars
  <1>2. CASE sm0' = sm0
    <2>1. Held' => Held /\ lastOut' = lastOut  BY <1>1 DEF Held
    <2>2. CASE outq' = outq  BY <1>1, <1>2, <2>1, <2>2, Lasts, FileStays DEF FInv
    <2>3. CASE outq' # outq
      <3>1. sm0 = NoMsg \/ sm0' # NoMsg  BY <1>2
      <3>2. PICK m : m.cmd \in Series /\ outq' = Append(outq, m)
        BY <3>1, <2>3, <1>2 DEF OtherServer
      <3>3. m.cmd \notin FoeCmds  BY <3>2 DEF Series, FoeCmds
      <3>4. /\ Flying(FoeCmds)' \subseteq Flying(FoeCmds)
            /\ Single(FoeCmds) => Single(FoeCmds)'
        BY <2>1, <3>2, <3>3, OtherQueued DEF FInv, Well, IInv
      <3> QED  BY <1>1, <1>2, <3>4, FileStays DEF FInv
    <2> QED  BY <2>2, <2>3
  <1>3. CASE sm0' # sm0
    <2>1. sm0' = NoMsg /\ sm0 # NoMsg /\ sm0.cmd \notin FoeReqs
      BY <1>3 DEF OtherServer
    <2>2. \A n, d : sm0 \notin {NoMsg, Read, Write, Ack(n), Packet(n, d)}
      BY <2>1 DEF FoeReqs, Read, Write, Ack, Packet
    <2>3. FoeTyped' /\ Failing' /\ Live' = Live
      BY <1>1, <2>1, FoeMailTyped DEF FInv, FileInv, Live, Failing, foeVars
    <2>4. ~Silent /\ ~PacketComes /\ ~AckComes
      BY <2>2 DEF Silent, PacketComes, AckComes, PacketToStore
    <2>5. job.kind = "FOEread" => Reading'
      BY <1>1, <2>3, <2>4 DEF FInv, FileInv, Reading, ReadJob
    <2>6. job.kind = "FOEreadAck" => Acknowledging'
      BY <1>1, <2>2, <2>3, <2>4 DEF FInv, FileInv, Acknowledging, ReadJob
    <2>7. job.kind = "FOEwrite" => Writing'
      BY <1>1, <2>2, <2>3, <2>4 DEF FInv, FileInv, Writing, WriteJob
    <2> QED  BY <1>1, <2>3, <2>5, <2>6, <2>7 DEF FileInv
  <1> QED  BY <1>2, <1>3

-----------------------------------------------------------------------------
(* The file server of the slave.                                           *)

\* What a step of it does to the mailbox, and to what is in flight.
FileServed(m) == sm0' = NoMsg /\ Flying(FoeCmds)' \subseteq {m} /\ Single(FoeCmds)'

LEMMA ServesOne ==
  ASSUME Typed, Flying(FoeCmds) = {}, NEW m, NEW f, NEW s, Serves(<<m>>, f, s)
  PROVE  FileServed(m) /\ file' = f /\ server' = s
  <1>1. outq' = Append(outq, m) /\ sm0' = NoMsg /\ file' = f /\ server' = s
        /\ (Held' => Held /\ lastOut' = lastOut)
    BY Appended DEF Serves, Take, Typed, Held, master
  <1> QED  BY <1>1, FirstQueued DEF FileServed

LEMMA FoeServerTyped ==
  ASSUME FoeTyped, FoeServer
  PROVE  FoeTyped'
  <1>1. sm0' = NoMsg /\ request' = request
    BY DEF FoeServer, ServeRead, ServeAck, Sends, ServeWrite, ServePacket, ServeBusy,
       ServeError, Serves, Take, master
  <1>2. FoeRequest(sm0') /\ FoeRequest(request')
    BY <1>1 DEF FoeTyped, FoeRequest, NoMsg
  <1>3. CASE ServeRead \/ ServeAck \/ ServeBusy \/ ServeError
    BY <1>2, <1>3 DEF ServeRead, ServeAck, Sends, ServeBusy, ServeError, Serves, NoService,
       FoeTyped
  <1>4. CASE ServeWrite
    BY <1>2, <1>4, JoinsNothing DEF ServeWrite, Serves, FoeTyped
  <1>5. CASE ServePacket
    <2> DEFINE data == server.data \o sm0.data
    <2>1. IsSeq(data)  BY <1>5, Joins DEF ServePacket, FoeTyped, FoeRequest
    <2>2. \/ file' = file /\ server' = [server EXCEPT !.data = data, !.packet = @ + 1]
          \/ file' = data /\ server' = NoService
      BY <1>5 DEF ServePacket, Serves
    <2>3. server.dir = "write" /\ {"dir", "packet", "data"} \subseteq DOMAIN server
      BY <1>5 DEF ServePacket, FoeTyped
    <2> HIDE DEF data
    <2>4. CASE file' = file /\ server' = [server EXCEPT !.data = data, !.packet = @ + 1]
      <3>1. {"dir", "packet", "data"} \subseteq DOMAIN server' /\ server'.data = data
        BY <2>3, <2>4
      <3> QED  BY <1>2, <2>1, <2>4, <3>1 DEF FoeTyped
    <2>5. CASE file' = data /\ server' = NoService
      BY <1>2, <2>1, <2>5 DEF FoeTyped, NoService
    <2> QED  BY <2>2, <2>4, <2>5
  <1> QED  BY <1>3, <1>4, <1>5 DEF FoeServer

\* A packet or an error answers the request for the next packet.
LEMMA ServesPacket ==
  ASSUME Typed, FoeTyped, ReadJob, Live, PacketComes, FoeServer, job' = job
  PROVE  PacketComes' /\ file' = file
  <1>0. sm0.cmd \in FoeReqs
    BY DEF FoeServer, ServeRead, ServeAck, ServeWrite, ServePacket, ServeBusy, ServeError,
       FoeReqs
  <1>1. /\ Flying(FoeCmds) = {}
        /\ IF job.prevpacket = 0 THEN sm0 = Read
           ELSE sm0 = Ack(job.prevpacket) /\ Serving(job.prevpacket, job.buf) /\ ~server.last
    BY <1>0, FoeNone DEF PacketComes
  <1>2. ASSUME NEW rest, IsSeq(rest), file = job.buf \o rest,
               Sends(job.prevpacket + 1, rest)
        PROVE  PacketComes' /\ file' = file
    <2>0. PICK m : m = Packet(job.prevpacket + 1, First(rest))  OBVIOUS
    <2> DEFINE s == [dir |-> "read", packet |-> job.prevpacket + 1, rest |-> Rest(rest),
                     last |-> ~IsFull(First(rest))]
    <2>1. Serves(<<m>>, file, s)  BY <1>2, <2>0 DEF Sends
    <2>2. FileServed(m) /\ file' = file /\ server' = s
      <3> HIDE DEF s
      <3> QED  BY <1>1, <2>1, ServesOne
    <2>3. /\ IsSeq(First(rest)) /\ IsSeq(Rest(rest)) /\ First(rest) \o Rest(rest) = rest
          /\ ~IsFull(First(rest)) => Rest(rest) = << >>
      BY <1>2, Split
    <2>4. (job.buf \o First(rest)) \o Rest(rest) = file
      <3>1. IsSeq(job.buf)  BY DEF ReadJob
      <3>2. PICK a, b, c : a = job.buf /\ b = First(rest) /\ c = Rest(rest)  OBVIOUS
      <3>3. PICK S : a \in Seq(S) /\ b \in Seq(S) /\ c \in Seq(S)
        BY <2>3, <3>1, <3>2, Common
      <3>4. (a \o b) \o c = a \o (b \o c)  BY <3>3
      <3> QED  BY <1>2, <2>3, <3>2, <3>4
    <2>5. /\ server'.dir = "read" /\ server'.packet = job.prevpacket + 1
          /\ server'.rest = Rest(rest) /\ (server'.last <=> ~IsFull(First(rest)))
      BY <2>2
    <2>6. m.packet = job.prevpacket + 1 /\ m.data = First(rest)  BY <2>0 DEF Packet
    <2> HIDE DEF s
    <2>7. PacketFits(m)'
      <3>1. Serving(job.prevpacket + 1, job.buf \o First(rest))'
        BY <2>2, <2>3, <2>4, <2>5 DEF Serving
      <3> QED  BY <2>3, <2>5, <2>6, <3>1 DEF PacketFits
    <2> QED  BY <2>2, <2>7 DEF PacketComes, FileServed
  <1>3. CASE ServeRead
    <2>1. sm0 = Read  BY <1>1, <1>3 DEF ServeRead, Ack
    <2>2. job.prevpacket = 0 /\ job.buf = << >>
      BY <1>1, <2>1 DEF Read, Ack, ReadJob
    <2>3. file = job.buf \o file  BY <2>2, JoinsNothing DEF FoeTyped
    <2>4. Sends(job.prevpacket + 1, file)  BY <1>3, <2>2 DEF ServeRead
    <2> QED  BY <1>2, <2>3, <2>4 DEF FoeTyped
  <1>4. CASE ServeAck
    <2>1. job.prevpacket # 0 /\ Serving(job.prevpacket, job.buf) /\ ~server.last
      BY <1>1, <1>4 DEF ServeAck, Read
    <2>2. IsSeq(server.rest) /\ file = job.buf \o server.rest
          /\ server.packet = job.prevpacket
      BY <2>1 DEF Serving
    <2>3. Sends(job.prevpacket + 1, server.rest)  BY <1>4, <2>1, <2>2 DEF ServeAck
    <2> QED  BY <1>2, <2>2, <2>3
  <1>5. CASE ServeError
    <2>1. FileServed(Error) /\ file' = file
      BY <1>1, <1>5, ServesOne DEF ServeError
    <2>2. PacketFits(Error)'  BY DEF PacketFits, Error
    <2> QED  BY <2>1, <2>2 DEF FileServed, PacketComes
  <1>6. ~ServeWrite /\ ~ServePacket /\ ~ServeBusy
    BY <1>1 DEF ServeWrite, ServePacket, ServeBusy, Read, Ack
  <1> QED  BY <1>3, <1>4, <1>5, <1>6 DEF FoeServer

\* An acknowledge, a busy or an error answers what is to be stored.
LEMMA ServesAck ==
  ASSUME Typed, FoeTyped, WriteJob, pc # "idle", AckComes, FoeServer, job' = job
  PROVE  AckComes'
  <1>0. sm0.cmd \in FoeReqs
    BY DEF FoeServer, ServeRead, ServeAck, ServeWrite, ServePacket, ServeBusy, ServeError,
       FoeReqs
  <1>1. Flying(FoeCmds) = {} /\ PacketToStore(sm0)
    BY <1>0, FoeNone DEF AckComes
  <1>2. ASSUME NEW m, NEW f, NEW s, Serves(<<m>>, f, s), m.cmd # "FOE_ACK"
        PROVE  AckComes'
    <2>1. FileServed(m)  BY <1>1, <1>2, ServesOne
    <2>2. AckFits(m)'  BY <1>2 DEF AckFits
    <2> QED  BY <2>1, <2>2 DEF FileServed, AckComes
  <1>3. CASE ServeBusy  BY <1>2, <1>3 DEF ServeBusy, Busy
  <1>4. CASE ServeError  BY <1>2, <1>4 DEF ServeError, Error
  <1>5. CASE ServeWrite
    <2>1. job.sendpacket = 0 /\ job.rest = job.data
      BY <1>1, <1>5 DEF ServeWrite, PacketToStore, Packet, WriteJob
    <2>2. FileServed(Ack(0))
          /\ server' = [dir |-> "write", packet |-> 1, data |-> << >>]
      BY <1>1, <1>5, ServesOne DEF ServeWrite
    <2>3. IsSeq(<< >>) /\ job.data = << >> \o job.rest
      BY <2>1, JoinsNothing DEF WriteJob
    <2>4. PICK m : m = Ack(0)  OBVIOUS
    <2>5. Storing(1, job.rest)'  BY <2>2, <2>3 DEF Storing
    <2>6. m.packet = 0  BY <2>4 DEF Ack
    <2>7. AckFits(m)'  BY <2>1, <2>5, <2>6 DEF AckFits
    <2> QED  BY <2>2, <2>4, <2>7 DEF FileServed, AckComes
  <1>6. CASE ServePacket
    <2>1. /\ sm0.cmd = "FOE_DATA" /\ sm0.packet = job.sendpacket /\ sm0.data = job.segment
          /\ job.sendpacket # 0
          /\ Storing(job.sendpacket, job.segment \o job.rest)
      BY <1>1, <1>6 DEF ServePacket, PacketToStore, Packet, Write
    <2>2. PICK data : data = server.data \o job.segment  OBVIOUS
    <2>3. IsSeq(data) /\ IsSeq(job.rest) /\ job.data = data \o job.rest
      <3>1. IsSeq(server.data) /\ IsSeq(job.segment) /\ IsSeq(job.rest)
            /\ job.data = server.data \o (job.segment \o job.rest)
        BY <2>1 DEF Storing, WriteJob
      <3>2. PICK a, b, c : a = server.data /\ b = job.segment /\ c = job.rest  OBVIOUS
      <3>3. PICK S : a \in Seq(S) /\ b \in Seq(S) /\ c \in Seq(S)
        BY <3>1, <3>2, Common
      <3>4. (a \o b) \o c = a \o (b \o c) /\ a \o b \in Seq(S)  BY <3>3
      <3>5. IsSeq(a \o b)  BY <3>4, Sequence
      <3> QED  BY <2>2, <3>1, <3>2, <3>4, <3>5
    <2>4. CASE IsFull(job.segment)
      <3> DEFINE s == [server EXCEPT !.data = data, !.packet = @ + 1]
      <3>1. Serves(<<Ack(job.sendpacket)>>, file, s)
        BY <1>6, <2>1, <2>2, <2>4 DEF ServePacket
      <3>2. FileServed(Ack(job.sendpacket)) /\ server' = s
        <4> HIDE DEF s
        <4> QED  BY <1>1, <3>1, ServesOne
      <3>3. s.dir = "write" /\ s.packet = job.sendpacket + 1 /\ s.data = data
        BY <2>1 DEF Storing, FoeTyped
      <3>4. /\ server'.dir = "write" /\ server'.packet = job.sendpacket + 1
            /\ server'.data = data
        BY <3>2, <3>3
      <3> HIDE DEF s
      <3>5. Storing(job.sendpacket + 1, job.rest)'  BY <2>3, <3>4 DEF Storing
      <3>6. PICK m : m = Ack(job.sendpacket)  OBVIOUS
      <3>7. AckFits(m)'  BY <2>4, <3>5, <3>6 DEF AckFits, Ack
      <3> QED  BY <3>2, <3>6, <3>7 DEF FileServed, AckComes
    <2>5. CASE ~IsFull(job.segment)
      <3>1. job.rest = << >>  BY <2>1, <2>5 DEF WriteJob
      <3>2. job.data = data  BY <2>3, <3>1, JoinsNothing
      <3>3. Serves(<<Ack(job.sendpacket)>>, data, NoService)
        BY <1>6, <2>1, <2>2, <2>5 DEF ServePacket
      <3>4. FileServed(Ack(job.sendpacket)) /\ file' = data
        BY <1>1, <3>3, ServesOne
      <3>6. PICK m : m = Ack(job.sendpacket)  OBVIOUS
      <3>7. AckFits(m)'  BY <2>1, <2>5, <3>2, <3>4, <3>6 DEF AckFits, Ack
      <3> QED  BY <3>4, <3>6, <3>7 DEF FileServed, AckComes
    <2> QED  BY <2>4, <2>5
  <1>7. ~ServeRead /\ ~ServeAck
    BY <1>1 DEF ServeRead, ServeAck, PacketToStore, Write, Packet
  <1> QED  BY <1>3, <1>4, <1>5, <1>6, <1>7 DEF FoeServer

LEMMA FileServer ==
  ASSUME FInv, FoeServer
  PROVE  FileInv'
  <1>0. sm0.cmd \in FoeReqs /\ sm0' = NoMsg /\ sm0 # NoMsg
    BY FoeNone DEF FoeServer, ServeRead, ServeAck, Sends, ServeWrite, ServePacket, ServeBusy,
       ServeError, FoeReqs, Serves, Take
  <1>1. UNCHANGED <<pc, request, goesOn, got, job, dirty, fails>>
    BY DEF FoeServer, ServeRead, ServeAck, Sends, ServeWrite, ServePacket, ServeBusy,
       ServeError, Serves, Take, master, ghosts, transfer
  <1>2. Typed /\ FoeTyped /\ FoeTyped' /\ Failing' /\ (Live' = Live) /\ ~Silent
    BY <1>0, <1>1, FoeServerTyped DEF FInv, Well, IInv, FileInv, Live, Silent, Failing
  <1>3. job.kind = "FOEread" => Reading'
    BY <1>1, <1>2, ServesPacket DEF FInv, FileInv, Reading, ReadJob, Waits
  <1>4. job.kind = "FOEreadAck" => Acknowledging'
    <2> SUFFICES ASSUME job.kind = "FOEreadAck" PROVE Acknowledging'  OBVIOUS
    <2>1. Acknowledging  BY DEF FInv, FileInv
    <2>2. \A n : sm0 = Ack(n) => file' = file
      BY DEF FoeServer, ServeRead, ServeAck, Sends, ServeWrite, ServePacket, ServeBusy,
         ServeError, Serves, Ack
    <2>3. Live /\ pc = "handle" /\ job.worktodo => PacketComes'
      BY <1>1, <1>2, <2>1, ServesPacket DEF Acknowledging
    <2> QED
      BY <1>0, <1>1, <1>2, <2>1, <2>2, <2>3 DEF Acknowledging, ReadJob
  <1>5. job.kind = "FOEwrite" => Writing'
    BY <1>0, <1>1, <1>2, ServesAck DEF FInv, FileInv, Writing, WriteJob, Waits
  <1> QED  BY <1>1, <1>2, <1>3, <1>4, <1>5 DEF FileInv

-----------------------------------------------------------------------------
(* ecx_FOEread and ecx_FOEwrite.                                           *)

\* A transfer of another protocol begins, goes on or ends.
LEMMA FileOtherClient ==
  ASSUME FInv, UNCHANGED foeVars, sm0' = sm0, job'.kind \notin FoeKinds,
         request' = request \/ request'.cmd \notin FoeReqs
  PROVE  FileInv'
  <1>1. FoeTyped'  BY DEF FInv, FileInv, FoeTyped, FoeRequest, FoeReqs, foeVars
  <1> QED  BY <1>1 DEF FileInv, Failing, FoeKinds

\* What every step of these two leaves alone.
LEMMA FileClientMail ==
  ASSUME FInv, FoeClient
  PROVE  /\ ClientStep /\ FileInv /\ FoeTyped
         /\ UNCHANGED <<sm0, file, server>>
         /\ Flying(FoeCmds)' \subseteq Flying(FoeCmds)
         /\ Single(FoeCmds) => Single(FoeCmds)'
  <1>1. ClientStep  BY FoeSteps DEF FInv, Well, IInv
  <1>2. UNCHANGED <<sm0, file, server>>  BY <1>1 DEF ClientStep, FoeClient, foeVars
  <1> QED  BY <1>1, <1>2, ClientFlies DEF FInv, FileInv

LEMMA FileBegins ==
  ASSUME FInv, FoeClient, NEW n \in FileSizes, FOEread(n) \/ FOEwrite(n)
  PROVE  FileInv'
  <1>1. FoeTyped /\ UNCHANGED <<sm0, file, server>>  BY FileClientMail
  <1>2. IsSeq(<< >>)  BY <1>1, JoinsNothing DEF FoeTyped
  <1>3. pc' = "drain" /\ ~Live'  BY DEF FOEread, FOEwrite, Begin, BeginAt, Live
  <1>4. CASE FOEread(n)
    <2>1. /\ job' = [kind |-> "FOEread", buffersize |-> n, buf |-> << >>, prevpacket |-> 0,
                     worktodo |-> FALSE, ret |-> "none"]
          /\ request' = Read /\ goesOn' = "wait"
      BY <1>4 DEF FOEread, Begin, BeginAt
    <2>2. FoeTyped'  BY <1>1, <2>1 DEF FoeTyped, FoeRequest, Read
    <2>3. Reading'  BY <1>3, <2>1 DEF Reading, ReadJob
    <2> QED  BY <1>3, <2>1, <2>2, <2>3 DEF FileInv, Failing
  <1>5. CASE FOEwrite(n)
    <2>1. PICK data : data = DataOf(jobs + 1, n)  OBVIOUS
    <2>2. IsSeq(data)  BY <2>1, DataIsSeq, FoEAssumption
    <2>3. /\ job' = [kind |-> "FOEwrite", data |-> data, rest |-> data, sendpacket |-> 0,
                     segment |-> << >>, dofinalzero |-> FALSE, ret |-> "none"]
          /\ request' = Write /\ goesOn' = "wait"
      BY <1>5, <2>1 DEF FOEwrite, Begin, BeginAt
    <2>4. FoeTyped'  BY <1>1, <2>3 DEF FoeTyped, FoeRequest, Write
    <2>5. Writing'  BY <1>2, <1>3, <2>2, <2>3 DEF Writing, WriteJob
    <2> QED  BY <1>3, <2>3, <2>4, <2>5 DEF FileInv, Failing
  <1> QED  BY <1>4, <1>5

LEMMA FileReads ==
  ASSUME FInv, FoeClient, ReadPacket
  PROVE  FileInv'
  <1>1. /\ FoeTyped /\ Failing /\ Reading /\ pc = "handle" /\ job.kind = "FOEread"
        /\ UNCHANGED <<sm0, file, server, dirty, fails>>
        /\ Flying(FoeCmds)' \subseteq Flying(FoeCmds)
    BY FileClientMail DEF ReadPacket, Handles, FileInv, Return, Becomes, ghosts
  <1>2. CASE Return(job, "error")
    <2>1. /\ job' = [job EXCEPT !.ret = "error"] /\ pc' = "idle" /\ request' = request
      BY <1>2 DEF Return, Becomes
    <2>2. /\ job'.kind = "FOEread" /\ job'.ret = "error" /\ job'.buf = job.buf
          /\ job'.prevpacket = job.prevpacket /\ job'.worktodo = job.worktodo
          /\ DOMAIN job' = DOMAIN job
      BY <1>1, <2>1 DEF Reading, ReadJob
    <2>3. FoeTyped'  BY <1>1, <2>1 DEF FoeTyped
    <2>4. Live' => Live  BY <1>1 DEF Live
    <2>5. Reading'  BY <1>1, <2>1, <2>2, <2>4 DEF Reading, ReadJob, Waits
    <2> QED  BY <2>1, <2>2, <2>3, <2>5 DEF FileInv, Failing
  <1>3. CASE ~Return(job, "error")
    <2>1. /\ got.cmd = "FOE_DATA" /\ got.packet = job.prevpacket + 1
          /\ Becomes([job EXCEPT !.kind = "FOEreadAck", !.prevpacket = @ + 1,
                                 !.buf = @ \o got.data, !.worktodo = IsFull(got.data)])
          /\ Post(Ack(got.packet), "handle")
      BY <1>3 DEF ReadPacket
    <2>2. PICK buf, full : buf = job.buf \o got.data /\ full = IsFull(got.data)  OBVIOUS
    <2>3. job' = [job EXCEPT !.kind = "FOEreadAck", !.prevpacket = @ + 1, !.buf = buf,
                             !.worktodo = full]
      BY <2>1, <2>2 DEF Becomes
    <2>4. /\ job'.kind = "FOEreadAck" /\ job'.buf = buf /\ job'.prevpacket = job.prevpacket + 1
          /\ job'.worktodo = full /\ DOMAIN job' = DOMAIN job
      BY <1>1, <2>3 DEF Reading, ReadJob
    <2>5. /\ pc' = "send" /\ goesOn' = "handle" /\ request' = Ack(job'.prevpacket)
          /\ job'.prevpacket \in Nat /\ job'.prevpacket > 0 /\ full \in BOOLEAN
      BY <1>1, <2>1, <2>2, <2>4 DEF Post, Reading, ReadJob, IsFull
    <2>6. FoeTyped'  BY <1>1, <2>5 DEF FoeTyped, FoeRequest, Ack
    <2>7. fails = 0 \/ ~(fails > 0)
      BY <1>1, <2>1 DEF Failing, FoeKinds, Failed
    <2>8. ASSUME Live'
          PROVE  /\ Silent' /\ IsSeq(buf) /\ Serving(job.prevpacket, job.buf)'
                 /\ (server'.last <=> ~full)
      <3>1. Live  BY <1>1, <2>8 DEF Live
      <3>2. Silent /\ PacketFits(got)  BY <1>1, <2>1, <3>1 DEF Reading, FoeCmds
      <3>3. Silent'  BY <1>1, <3>2 DEF Silent
      <3>4. IsSeq(job.buf) /\ IsSeq(got.data)
        BY <1>1, <2>1, <3>1, <3>2 DEF Reading, ReadJob, PacketFits
      <3>5. IsSeq(buf)  BY <2>2, <3>4, Joins
      <3>6. Serving(job.prevpacket + 1, buf) /\ (server.last <=> ~full)
        BY <2>1, <2>2, <3>2 DEF PacketFits
      <3>7. Serving(job.prevpacket, job.buf)'  BY <1>1, <2>4, <3>6 DEF Serving
      <3> QED  BY <1>1, <3>3, <3>5, <3>6, <3>7
    <2>9. Acknowledging'
      BY <1>1, <2>4, <2>5, <2>8 DEF Acknowledging, ReadJob, Reading
    <2> QED  BY <1>1, <2>4, <2>5, <2>6, <2>7, <2>9 DEF FileInv, Failing
  <1> QED  BY <1>2, <1>3

LEMMA FileAcks ==
  ASSUME FInv, FoeClient, ReadAcked
  PROVE  FileInv'
  <1>1. /\ FoeTyped /\ Failing /\ Acknowledging /\ pc = "handle" /\ job.kind = "FOEreadAck"
        /\ UNCHANGED <<sm0, file, server, dirty, fails, request>>
        /\ Flying(FoeCmds)' \subseteq Flying(FoeCmds)
        /\ Single(FoeCmds) => Single(FoeCmds)'
    BY FileClientMail DEF ReadAcked, Handles, FileInv, Return, Becomes, ReceiveNext, ghosts
  <1>2. FoeTyped' /\ (Live' => Live)
    BY <1>1 DEF FoeTyped, Live
  <1>3. ASSUME NEW ret, Return(job, ret), ret = "ok" => got # Failed /\ ~job.worktodo
        PROVE  FileInv'
    <2>1. job' = [job EXCEPT !.ret = ret] /\ pc' = "idle"
      BY <1>3 DEF Return, Becomes
    <2>2. /\ job'.kind = "FOEreadAck" /\ job'.ret = ret /\ job'.buf = job.buf
          /\ job'.prevpacket = job.prevpacket /\ job'.worktodo = job.worktodo
          /\ DOMAIN job' = DOMAIN job
      BY <1>1, <2>1 DEF Acknowledging, ReadJob
    <2>3. Acknowledging'
      BY <1>1, <1>2, <1>3, <2>1, <2>2 DEF Acknowledging, ReadJob
    <2>4. Failing'  BY <1>1, <1>3, <2>1, <2>2 DEF Failing, FoeKinds
    <2> QED  BY <1>2, <2>2, <2>3, <2>4 DEF FileInv
  <1>4. CASE got # Failed /\ job.worktodo
    <2>1. job' = [job EXCEPT !.kind = "FOEread"] /\ pc' = "wait"
      BY <1>4 DEF ReadAcked, Becomes, ReceiveNext
    <2>2. /\ job'.kind = "FOEread" /\ job'.ret = job.ret /\ job'.buf = job.buf
          /\ job'.prevpacket = job.prevpacket /\ job'.worktodo = job.worktodo
          /\ DOMAIN job' = DOMAIN job
      BY <1>1, <2>1 DEF Acknowledging, ReadJob
    <2>3. ASSUME Live' PROVE PacketComes'
      <3>1. PacketComes  BY <1>1, <1>2, <1>4, <2>3 DEF Acknowledging
      <3> QED
        BY <1>1, <2>2, <3>1 DEF PacketComes, PacketFits, Serving
    <2>4. Reading'
      BY <1>1, <1>2, <2>1, <2>2, <2>3 DEF Acknowledging, Reading, ReadJob, Waits
    <2>5. Failing'  BY <1>1, <1>4 DEF Failing, FoeKinds
    <2> QED  BY <1>2, <2>2, <2>4, <2>5 DEF FileInv
  <1>5. job.worktodo \in BOOLEAN  BY <1>1 DEF Acknowledging, ReadJob
  <1> QED  BY <1>3, <1>4, <1>5 DEF ReadAcked

\* A write ends, with an error or with its data stored.
LEMMA FileEnds ==
  ASSUME FoeTyped, Failing, Writing, WriteJob, pc = "handle", pc' = "idle", job'.kind = "FOEwrite",
         UNCHANGED <<sm0, file, server, dirty, fails, request>>,
         DOMAIN job' = DOMAIN job, job'.data = job.data, job'.segment = job.segment,
         IsSeq(job'.rest), job'.sendpacket \in Nat, job'.dofinalzero \in BOOLEAN,
         job'.ret = "ok" =>
            /\ ~(fails > 0)
            /\ Live => /\ sm0 = NoMsg
                       /\ job'.rest = << >> /\ ~job'.dofinalzero /\ job.data # << >>
                            => file = job.data
  PROVE  FileInv'
  <1>1. FoeTyped' /\ Failing'  BY DEF FoeTyped, Failing
  <1>2. WriteJob'  BY DEF WriteJob
  <1>3. Live' => Live  BY DEF Live
  <1>4. Writing'  BY <1>2, <1>3 DEF Writing, Waits, Live
  <1> QED  BY <1>1, <1>4 DEF FileInv

LEMMA FileWrites ==
  ASSUME FInv, FoeClient, WritePacket
  PROVE  FileInv'
  <1>1. /\ FoeTyped /\ Failing /\ Writing /\ WriteJob
        /\ pc = "handle" /\ job.kind = "FOEwrite"
        /\ got.cmd = "FOE_ACK" /\ got.packet = job.sendpacket
        /\ UNCHANGED <<sm0, file, server, dirty, fails>>
        /\ Flying(FoeCmds)' \subseteq Flying(FoeCmds)
    BY FileClientMail DEF WritePacket, Handles, FileInv, Return, Becomes, ghosts, Writing
  <1>2. ~(fails > 0)  BY <1>1 DEF Failing, FoeKinds, Failed
  <1>3. /\ IsSeq(job.rest) /\ job.sendpacket \in Nat /\ job.dofinalzero \in BOOLEAN
        /\ IF job.sendpacket = 0
           THEN job.rest = job.data /\ ~job.dofinalzero
           ELSE /\ job.dofinalzero <=> (job.rest = << >> /\ IsFull(job.segment))
                /\ ~IsFull(job.segment) => job.rest = << >>
    BY <1>1 DEF WriteJob
  <1>4. ASSUME Live
        PROVE  /\ Silent
               /\ IF job.sendpacket = 0 \/ IsFull(job.segment)
                  THEN Storing(job.sendpacket + 1, job.rest)
                  ELSE file = job.data
    BY <1>1, <1>4 DEF Writing, AckFits, FoeCmds
  <1>5. CASE job.rest # << >> \/ job.dofinalzero
    <2>1. PICK data, left, zero : data = First(job.rest) /\ left = Rest(job.rest)
                                  /\ zero = (left = << >> /\ IsFull(data))
      OBVIOUS
    <2>2. /\ job' = [job EXCEPT !.rest = left, !.segment = data, !.sendpacket = @ + 1,
                                !.dofinalzero = zero]
          /\ request' = Packet(job.sendpacket + 1, data) /\ goesOn' = "wait" /\ pc' = "send"
      BY <1>5, <2>1 DEF WritePacket, Becomes, Post
    <2>3. /\ job'.kind = "FOEwrite" /\ job'.data = job.data /\ job'.rest = left
          /\ job'.segment = data /\ job'.sendpacket = job.sendpacket + 1
          /\ job'.dofinalzero = zero /\ DOMAIN job' = DOMAIN job
      BY <1>1, <2>2 DEF WriteJob
    <2>4. IsSeq(data) /\ IsSeq(left) /\ data \o left = job.rest
          /\ (~IsFull(data) => left = << >>)
      BY <1>3, <2>1, Split
    <2>5. FoeTyped'  BY <1>1, <2>2, <2>4 DEF FoeTyped, FoeRequest, Packet
    <2>6. zero \in BOOLEAN /\ job'.sendpacket \in Nat /\ job'.sendpacket # 0
      BY <1>3, <2>1, <2>3
    <2>7. WriteJob'  BY <1>1, <2>1, <2>3, <2>4, <2>6 DEF WriteJob
    <2>8. ASSUME Live' PROVE Silent' /\ PacketToStore(request)'
      <3>1. Live  BY <1>1, <2>8 DEF Live
      <3>2. Silent'  BY <1>1, <1>4, <3>1 DEF Silent
      <3>3. Storing(job.sendpacket + 1, job.rest)  BY <1>3, <1>4, <1>5, <3>1
      <3>4. Storing(job.sendpacket, job.segment \o job.rest)'
        BY <1>1, <2>3, <2>4, <3>3 DEF Storing
      <3>5. request' = Packet(job'.sendpacket, job'.segment)  BY <2>2, <2>3
      <3> QED  BY <2>6, <3>2, <3>4, <3>5 DEF PacketToStore
    <2>9. Writing'  BY <2>2, <2>7, <2>8 DEF Writing, Waits
    <2> QED  BY <1>1, <1>2, <2>3, <2>5, <2>9 DEF FileInv, Failing
  <1>6. CASE ~(job.rest # << >> \/ job.dofinalzero)
    <2>1. job' = [job EXCEPT !.ret = "ok"] /\ pc' = "idle" /\ request' = request
      BY <1>6 DEF WritePacket, Return, Becomes
    <2>2. /\ job'.kind = "FOEwrite" /\ job'.data = job.data /\ job'.rest = job.rest
          /\ job'.segment = job.segment /\ job'.sendpacket = job.sendpacket
          /\ job'.dofinalzero = job.dofinalzero /\ DOMAIN job' = DOMAIN job
      BY <1>1, <2>1 DEF WriteJob
    <2>3. Live => sm0 = NoMsg /\ (job.data # << >> => file = job.data)
      BY <1>3, <1>4, <1>6 DEF Silent
    <2> QED  BY <1>1, <1>2, <1>3, <2>1, <2>2, <2>3, FileEnds
  <1> QED  BY <1>5, <1>6

LEMMA FileBusy ==
  ASSUME FInv, FoeClient, WriteBusy
  PROVE  FileInv'
  <1>1. /\ FoeTyped /\ Failing /\ Writing /\ WriteJob
        /\ pc = "handle" /\ job.kind = "FOEwrite" /\ got = Busy
        /\ UNCHANGED <<sm0, file, server, dirty, fails, request>> /\ pc' = "idle"
    BY FileClientMail DEF WriteBusy, Handles, FileInv, Return, Becomes, ghosts, Writing
  <1>2. ~(fails > 0) /\ (Live => sm0 = NoMsg)
    BY <1>1 DEF Failing, FoeKinds, Failed, Busy, Writing, FoeCmds, Silent
  <1>3. CASE job.sendpacket = 0
    <2>1. job' = [job EXCEPT !.ret = "ok"]
      BY <1>3 DEF WriteBusy, Return, Becomes
    <2>2. /\ job'.kind = "FOEwrite" /\ job'.data = job.data /\ job'.rest = job.rest
          /\ job'.segment = job.segment /\ job'.sendpacket = job.sendpacket
          /\ job'.dofinalzero = job.dofinalzero /\ DOMAIN job' = DOMAIN job
      BY <1>1, <2>1 DEF WriteJob
    <2>3. job.rest = job.data /\ IsSeq(job.rest) /\ job.sendpacket \in Nat
          /\ job.dofinalzero \in BOOLEAN
      BY <1>1, <1>3 DEF WriteJob
    <2> QED  BY <1>1, <1>2, <2>2, <2>3, FileEnds
  <1>4. CASE job.sendpacket # 0
    <2>1. PICK left, zero : /\ left = job.segment \o job.rest
                            /\ zero = (job.dofinalzero \/ job.rest = << >>)
      OBVIOUS
    <2>2. job' = [[job EXCEPT !.dofinalzero = zero, !.rest = left, !.sendpacket = @ - 1]
                    EXCEPT !.ret = "ok"]
      BY <1>4, <2>1 DEF WriteBusy, Return, Becomes
    <2>3. /\ job'.kind = "FOEwrite" /\ job'.data = job.data /\ job'.rest = left
          /\ job'.segment = job.segment /\ job'.sendpacket = job.sendpacket - 1
          /\ job'.dofinalzero = zero /\ DOMAIN job' = DOMAIN job
      BY <1>1, <2>2 DEF WriteJob
    <2>4. IsSeq(job.rest) /\ IsSeq(job.segment) /\ job.sendpacket - 1 \in Nat
      BY <1>1, <1>4 DEF WriteJob
    <2>5. IsSeq(left) /\ (job.rest # << >> => left # << >>)
      BY <2>1, <2>4, Joins, JoinsSome
    <2>6. zero \in BOOLEAN /\ ~(left = << >> /\ ~zero)  BY <2>1, <2>5
    <2> QED  BY <1>1, <1>2, <2>3, <2>4, <2>5, <2>6, FileEnds
  <1> QED  BY <1>3, <1>4

LEMMA FileFails ==
  ASSUME FInv, FoeClient, WriteFails
  PROVE  FileInv'
  <1>1. /\ FoeTyped /\ Failing /\ Writing /\ WriteJob
        /\ pc = "handle" /\ job.kind = "FOEwrite"
        /\ UNCHANGED <<sm0, file, server, dirty, fails, request>>
        /\ pc' = "idle" /\ job' = [job EXCEPT !.ret = "error"]
    BY FileClientMail DEF WriteFails, Handles, FileInv, Return, Becomes, ghosts, Writing
  <1>2. /\ job'.kind = "FOEwrite" /\ job'.data = job.data /\ job'.rest = job.rest
        /\ job'.segment = job.segment /\ job'.sendpacket = job.sendpacket
        /\ job'.dofinalzero = job.dofinalzero /\ DOMAIN job' = DOMAIN job
        /\ job'.ret = "error"
    BY <1>1 DEF WriteJob
  <1>3. IsSeq(job.rest) /\ job.sendpacket \in Nat /\ job.dofinalzero \in BOOLEAN
    BY <1>1 DEF WriteJob
  <1> QED  BY <1>1, <1>2, <1>3, FileEnds

LEMMA FileClient == ASSUME FInv, FoeClient PROVE FileInv'
  BY FileBegins, FileReads, FileAcks, FileWrites, FileBusy, FileFails DEF FoeClient

-----------------------------------------------------------------------------
(* The invariant of the files.                                             *)

LEMMA InitFInv == Init => FInv
  <1> SUFFICES ASSUME Init PROVE FInv  OBVIOUS
  <1>1. IInv  BY InitIInv
  <1>2. IsSeq(<< >>) /\ DOMAIN << >> = {}
    <2>1. IsSeq(<< >>)  BY << >> \in Seq({}), Sequence
    <2> QED  BY <2>1
  <1>3. Unsent
    <2>1. answer = << >> /\ part = << >> /\ slaveTx = << >> /\ parts = << >>
      BY DEF Init, SoeInit, EoeInit, InfoInit
    <2>2. idns \in [Idns -> {DataOf(0, n) : n \in StoredIdn}]  BY DEF Init, SoeInit
    <2>3. \A n \in StoredIdn : IsSeq(DataOf(0, n))  BY DataIsSeq, SoEAssumption
    <2>4. DOMAIN idns = Idns /\ \A o \in Idns : IsSeq(idns[o])
      <3> DEFINE D == {DataOf(0, n) : n \in StoredIdn}
      <3>1. \A d \in D : IsSeq(d)  BY <2>3
      <3> HIDE DEF D
      <3>2. idns \in [Idns -> D]  BY <2>2 DEF D
      <3> QED  BY <3>1, <3>2
    <2> QED  BY <1>2, <2>1, <2>4 DEF Unsent
  <1>4. Requests /\ Jobs /\ Counted
    <2>1. /\ request = NoMsg /\ sm0 = NoMsg /\ job = [kind |-> "none", ret |-> "none"]
          /\ repeats = "none"
      BY DEF Init, MailInit
    <2> QED  BY <2>1, NotSoe DEF Requests, Jobs, Counted
  <1>5. FileInv
    <2>1. /\ request = NoMsg /\ sm0 = NoMsg /\ job.kind = "none" /\ server = NoService
      BY DEF Init, MailInit, FoeInit
    <2>2. PICK n \in StoredFile : file = DataOf(0, n)  BY DEF Init, FoeInit
    <2>3. IsSeq(file)  BY <2>2, DataIsSeq, FoEAssumption
    <2> QED
      BY <2>1, <2>3 DEF FileInv, FoeTyped, FoeRequest, NoMsg, NoService, Failing, FoeKinds
  <1> QED  BY <1>1, <1>3, <1>4, <1>5 DEF FInv, Well

LEMMA FileMaster == ASSUME FInv, IInv', Master PROVE FileInv'
  <1>0. Typed /\ Jobs /\ Requests  BY DEF FInv, Well, IInv
  <1> DEFINE Other == /\ UNCHANGED foeVars /\ sm0' = sm0 /\ job'.kind \notin FoeKinds
                      /\ (request' = request \/ request'.cmd \notin FoeReqs)
  <1>1. ASSUME NEW kinds, NEW cmds, OtherStep(kinds, cmds), ClientStep, UNCHANGED foeVars,
               kinds \cap FoeKinds = {}, cmds \cap FoeReqs = {}
        PROVE  Other
    BY <1>1 DEF OtherStep, ClientStep
  <1>2. ASSUME Other PROVE FileInv'  BY <1>2, FileOtherClient
  <1> HIDE DEF Other
  <1>3. CASE MasterMail /\ UNCHANGED protocolVars
    BY <1>3, FileMail DEF protocolVars
  <1>4. CASE Sdo(SdoClient)
    <2>1. SdoKinds \cap FoeKinds = {} /\ SdoReqs \cap FoeReqs = {}
      BY DEF SdoKinds, FoeKinds, SdoReqs, FoeReqs
    <2> QED  BY <1>0, <1>1, <1>2, <1>4, <2>1, SdoOther, SdoSteps DEF Sdo
  <1>5. CASE Foe(FoeClient)  BY <1>5, FileClient DEF Foe
  <1>6. CASE Soe(SoeClient)
    <2>1. ClientStep /\ job'.kind \notin FoeKinds
      BY <1>0, <1>6, SoeSteps, SoeOther DEF Soe, FoeKinds
    <2>2. request' = request \/ request'.cmd \notin FoeReqs
      BY <1>6 DEF Soe, SoeClient, SoEread, SoEwrite, ReadFragment, WriteGoesOn, WriteEnds,
         Begin, BeginAt, ReadReq, WriteReq, WriteFragment, Post, Return, ReceiveNext, FoeReqs
    <2>3. Other  BY <1>6, <2>1, <2>2 DEF Soe, Other, ClientStep
    <2> QED  BY <1>2, <2>3
  <1>7. CASE Eoe(EoeClient)
    <2>1. EoeKinds \cap FoeKinds = {} /\ EoeReqs \cap FoeReqs = {}
      BY DEF EoeKinds, FoeKinds, EoeReqs, FoeReqs
    <2> QED  BY <1>0, <1>1, <1>2, <1>7, <2>1, EoeOther, EoeSteps, FileHook DEF Eoe
  <1>8. CASE Eoe(HookFragment)  BY <1>8, FileMail DEF Eoe
  <1>9. CASE Info(InfoClient)
    <2>1. InfoKinds \cap FoeKinds = {} /\ InfoReqs \cap FoeReqs = {}
      BY DEF InfoKinds, FoeKinds, InfoReqs, FoeReqs
    <2> QED  BY <1>0, <1>1, <1>2, <1>9, <2>1, InfoOther, InfoSteps DEF Info
  <1> QED
    BY <1>3, <1>4, <1>5, <1>6, <1>7, <1>8, <1>9 DEF Master, Eoe

LEMMA FileSlave == ASSUME FInv, Slave PROVE FileInv'
  <1>1. Unsent  BY DEF FInv, Well
  <1>2. CASE SlaveMail /\ UNCHANGED protocolVars
    BY <1>2, FileSlaveMail DEF protocolVars
  <1>3. CASE Sdo(SdoServer)
    <2>1. SdoReqs \cap FoeReqs = {}  BY DEF SdoReqs, FoeReqs
    <2> QED  BY <1>1, <1>3, <2>1, OtherServers, FileOtherServer DEF Sdo
  <1>4. CASE Foe(FoeServer)  BY <1>4, FileServer DEF Foe
  <1>5. CASE Soe(SoeServer)
    <2>1. SoeCmds \cap FoeReqs = {}  BY DEF SoeCmds, FoeReqs
    <2> QED  BY <1>1, <1>5, <2>1, OtherServers, FileOtherServer DEF Soe
  <1>6. CASE Eoe(EoeServer)
    <2>1. EoeReqs \cap FoeReqs = {}  BY DEF EoeReqs, FoeReqs
    <2> QED  BY <1>1, <1>6, <2>1, OtherServers, FileOtherServer DEF Eoe
  <1>7. CASE Info(InfoServer)
    <2>1. InfoReqs \cap FoeReqs = {}  BY DEF InfoReqs, FoeReqs
    <2> QED  BY <1>1, <1>7, <2>1, OtherServers, FileOtherServer DEF Info
  <1> QED  BY <1>2, <1>3, <1>4, <1>5, <1>6, <1>7 DEF Slave

LEMMA NextFInv == FInv /\ [Next]_vars => FInv'
  <1> SUFFICES ASSUME FInv, [Next]_vars PROVE FInv'  OBVIOUS
  <1>1. IInv'  BY NextIInv DEF FInv, Well
  <1>2. CASE Master
    <2>1. FileInv'  BY <1>1, <1>2, FileMaster
    <2> QED  BY <1>1, <1>2, <2>1, MasterWell DEF FInv, Well
  <1>3. CASE Slave
    <2>1. FileInv'  BY <1>3, FileSlave
    <2> QED  BY <1>1, <1>3, <2>1, SlaveWell DEF FInv, Well
  <1>4. CASE UNCHANGED vars
    <2>1. UNCHANGED <<pc, request, goesOn, got, job, dirty, fails, repeats, sm0, sm1, outq,
                      lastOut, taken>>
          /\ UNCHANGED <<file, server, idns, answer, part, slaveTx, parts>>
      BY <1>4 DEF vars, mailVars, protocolVars, master, transfer, slaveMail, ghosts, foeVars,
         soeVars, eoeVars, slaveEoe, infoVars
    <2>2. Unsent' /\ Requests' /\ Jobs' /\ Counted'
      BY <2>1 DEF FInv, Well, Unsent, Requests, Jobs, Counted
    <2>3. outq' = outq /\ (Held' => Held /\ lastOut' = lastOut)  BY <2>1 DEF Held
    <2>4. Flying(FoeCmds)' \subseteq Flying(FoeCmds) /\ (Single(FoeCmds) => Single(FoeCmds)')
      BY <2>3, Lasts
    <2>5. FileInv'  BY <2>1, <2>4, FileStays DEF FInv
    <2> QED  BY <1>1, <2>2, <2>5 DEF FInv, Well
  <1> QED  BY <1>2, <1>3, <1>4 DEF Next

\* Between a file server and a file transfer over a mailbox that held nothing
\* of an earlier one, there is always one packet or one acknowledge to come,
\* and with it what both sides have is a part of the same file.
THEOREM FilesInvariant == Spec => []FInv
  <1>1. Init => FInv  BY InitFInv
  <1>2. FInv /\ [Next]_vars => FInv'  BY NextFInv
  <1> QED  BY <1>1, <1>2, PTL DEF Spec

\* A file read or written with success is the same on both sides, for every
\* size of file, packet and buffer, with any losses and repeats.
THEOREM WholeFiles == Spec => []FileIsWhole
  <1>1. FInv => FileIsWhole
    <2> SUFFICES ASSUME FInv PROVE FileIsWhole  OBVIOUS
    <2>1. fails \in 0 .. 2 /\ FileInv  BY DEF FInv, Well, IInv, Typed, MailTypeOK
    <2>2. ASSUME Done(FoeKinds), ~dirty PROVE Live
      BY <2>1, <2>2 DEF Done, FileInv, Failing, Live
    <2>3. CASE Done({"FOEread", "FOEreadAck"}) /\ ~dirty
      <3>1. Live /\ pc = "idle" /\ job.ret = "ok"  BY <2>2, <2>3 DEF Done, FoeKinds
      <3>2. job.kind = "FOEreadAck"
        BY <2>1, <2>3, <3>1 DEF Done, FileInv, Reading
      <3> QED
        BY <2>1, <2>3, <3>1, <3>2 DEF FileInv, Acknowledging, FileIsWhole, Done
    <2>4. CASE Done({"FOEwrite"}) /\ ~dirty
      <3>1. Live /\ pc = "idle" /\ job.ret = "ok" /\ job.kind = "FOEwrite"
        BY <2>2, <2>4 DEF Done, FoeKinds
      <3> QED  BY <2>1, <2>4, <3>1 DEF FileInv, Writing, FileIsWhole, Done
    <2> QED  BY <2>3, <2>4 DEF FileIsWhole
  <1> QED  BY <1>1, FilesInvariant, PTL

-----------------------------------------------------------------------------
(* A request and its answer.                                               *)

\* Nothing is asked, and no answer of the commands in C comes.
Calm(C) == sm0 = NoMsg /\ Flying(C) = {}

\* One of these requests is not taken yet, or at most one of these answers
\* comes.
Comes(C, asked, answers) ==
    \/ Flying(C) = {} /\ sm0 \in asked
    \/ sm0 = NoMsg /\ Single(C) /\ Flying(C) \subseteq answers

\* A transfer of which no call has failed sends one of these requests, waits
\* for its answer, and has it.
Exchange(C, asked, answers) ==
    /\ pc = "drain" => request \in asked /\ goesOn = "wait"
    /\ Live =>
        /\ pc \in {"send", "handle", "idle"} \cup Waits
        /\ pc = "send" => request \in asked /\ goesOn = "wait" /\ Calm(C)
        /\ pc \in Waits => Comes(C, asked, answers)
        /\ pc = "handle" /\ got.cmd \in C => Calm(C) /\ got \in answers

LEMMA ExchangeMail ==
  ASSUME Well, IInv', NEW C, NEW R, NEW A, C \cap NoAnswers = {}, Exchange(C, R, A),
         MasterMail \/ HookFragment
  PROVE  Exchange(C, R, A)'
  <1>0. /\ IInv /\ Typed /\ pc \notin {"idle", "handle"} /\ pc' \notin {"idle", "drain"}
        /\ pc = "drain" => Drained /\ pc' = "send"
    BY MailPlaces DEF Well, IInv
  <1>1. CASE pc = "drain"
    <2>1. Live' => Calm(C)'
      BY <1>0, <1>1, DrainedFlies DEF Live, Calm
    <2>2. pc' = "send" /\ UNCHANGED <<request, goesOn>>  BY <1>0, <1>1 DEF Drained
    <2> QED  BY <1>1, <2>1, <2>2 DEF Exchange, Waits
  <1>2. CASE pc # "drain" /\ ~Live'
    BY <1>0, <1>2 DEF Exchange
  <1>3. CASE pc # "drain" /\ Live'
    <2>1. Live /\ Quiet  BY <1>0, <1>3, MailMoves DEF Live, Quiet, Well, Counted
    <2>2. Flying(C)' \subseteq Flying(C) /\ (Single(C) => Single(C)')
      BY <1>0, <1>3, <2>1, MailFlies
    <2>3. pc \in {"send"} \cup Waits
      BY <1>0, <1>3, <2>1 DEF Exchange
    <2>4. CASE pc = "send"
      <3>1. request \in R /\ goesOn = "wait" /\ Flying(C) = {}
        BY <2>1, <2>4 DEF Exchange, Calm
      <3>2. pc' = "wait" /\ sm0' = request
        BY <1>0, <1>3, <2>4, <3>1, MailMoves DEF Waits
      <3> QED  BY <2>2, <3>1, <3>2 DEF Exchange, Comes, Waits
    <2>5. CASE pc \in Waits /\ pc' \in Waits
      <3>1. sm0' = sm0 /\ Comes(C, R, A)
        BY <1>0, <1>3, <2>1, <2>5, MailMoves DEF Exchange, Waits
      <3> QED  BY <2>2, <2>5, <3>1 DEF Exchange, Comes, Waits
    <2>6. CASE ReadAnswer /\ pc \in Waits /\ pc' = "handle"
      <3>1. sm0' = sm0 /\ Comes(C, R, A)
        BY <1>0, <1>3, <2>1, <2>6, MailMoves DEF Exchange, Waits
      <3>2. ASSUME got'.cmd \in C PROVE Calm(C)' /\ got' \in A
        <4>1. Single(C)  BY <3>1, NoneIsSingle DEF Comes
        <4>2. got' \in Flying(C) /\ Flying(C)' = {}
          BY <1>0, <2>1, <2>6, <3>2, <4>1, ReadFlies
        <4> QED  BY <3>1, <4>2 DEF Comes, Calm
      <3> QED  BY <2>6, <3>2 DEF Exchange, Waits
    <2> QED
      BY <1>0, <1>3, <2>3, <2>4, <2>5, <2>6, MailMoves DEF Waits
  <1> QED  BY <1>1, <1>2, <1>3

\* A step that leaves the transfer where it is and adds nothing in flight.
LEMMA ExchangeStays ==
  ASSUME NEW C, NEW R, NEW A, Exchange(C, R, A),
         UNCHANGED <<pc, request, goesOn, got, dirty, fails>>,
         Live => /\ sm0' = sm0 \/ (sm0' = NoMsg /\ Flying(C)' = {})
                 /\ Flying(C)' \subseteq Flying(C)
                 /\ Single(C) => Single(C)'
  PROVE  Exchange(C, R, A)'
  <1>1. Live' = Live  BY DEF Live
  <1>2. Flying(C)' = {} => Single(C)'  BY DEF Flying, Single
  <1> QED  BY <1>1, <1>2 DEF Exchange, Calm, Comes

LEMMA VanishedFlies ==
  ASSUME NEW C, C \cap NoAnswers = {}, Vanish
  PROVE  sm0' = NoMsg /\ Flying(C)' = {}
  <1>1. outq' = << >> /\ lastOut' = NoMsg /\ sm0' = NoMsg  BY DEF Vanish
  <1>2. DOMAIN outq' = {} /\ NoMsg.cmd \notin C  BY <1>1 DEF NoMsg, NoAnswers
  <1> QED  BY <1>1, <1>2 DEF Flying

LEMMA ExchangeSlaveMail ==
  ASSUME Well, NEW C, NEW R, NEW A, C \cap NoAnswers = {}, Exchange(C, R, A), SlaveMail
  PROVE  Exchange(C, R, A)'
  <1>1. UNCHANGED <<pc, request, goesOn, got, dirty, fails>>
    BY DEF SlaveMail, Publish, Repeat, Notify, Vanish, master, ghosts
  <1>2. sm0' = sm0 \/ Vanish
    BY DEF SlaveMail, Publish, Repeat, Notify
  <1>3. ASSUME Live
        PROVE  Flying(C)' \subseteq Flying(C) /\ (Single(C) => Single(C)')
    <2>1. Quiet /\ pc # "drain" /\ IInv  BY <1>3 DEF Live, Quiet, Well, Counted
    <2> QED  BY <2>1, MailFlies
  <1> QED  BY <1>1, <1>2, <1>3, VanishedFlies, ExchangeStays

LEMMA ExchangeOther ==
  ASSUME Typed, NEW C, NEW R, NEW A, Exchange(C, R, A), C \cap Series = {},
         NEW cmds, \A r \in R : r.cmd \notin cmds, OtherServer(cmds, Series)
  PROVE  Exchange(C, R, A)'
  <1>1. UNCHANGED <<pc, request, goesOn, got, dirty, fails, lastOut, taken, sm1>>
    BY DEF OtherServer, master, ghosts
  <1>2. CASE sm0' = sm0
    <2>1. Held' => Held /\ lastOut' = lastOut  BY <1>1 DEF Held
    <2>2. CASE outq' = outq  BY <1>1, <1>2, <2>1, <2>2, Lasts, ExchangeStays
    <2>3. CASE outq' # outq
      <3>1. PICK m : m.cmd \in Series /\ outq' = Append(outq, m)
        BY <2>3, <1>2 DEF OtherServer
      <3>2. Flying(C)' \subseteq Flying(C) /\ (Single(C) => Single(C)')
        BY <2>1, <3>1, OtherQueued
      <3> QED  BY <1>1, <1>2, <3>2, ExchangeStays
    <2> QED  BY <2>2, <2>3
  <1>3. CASE sm0' # sm0
    <2>1. sm0 # NoMsg /\ sm0 \notin R  BY <1>3 DEF OtherServer
    <2>2. Live' = Live  BY <1>1 DEF Live
    <2> QED  BY <1>1, <2>1, <2>2 DEF Exchange, Calm, Comes
  <1> QED  BY <1>2, <1>3

\* The request is taken and answered; what is asked and what would answer it
\* may be something else from then on.
LEMMA ExchangeServed ==
  ASSUME Typed, NEW C, NEW R, NEW A, Exchange(C, R, A), NEW m, Take(<<m>>),
         NEW R2, pc = "drain" => R \subseteq R2,
         NEW A2, Live /\ pc \in Waits /\ sm0 \in R => m \in A2
  PROVE  Exchange(C, R2, A2)'
  <1>1. /\ UNCHANGED <<pc, request, goesOn, got, dirty, fails, lastOut, taken, sm1>>
        /\ sm0 # NoMsg /\ sm0' = NoMsg /\ outq' = Append(outq, m)
    BY Appended DEF Take, master, ghosts, Typed
  <1>2. Live' = Live  BY <1>1 DEF Live
  <1>3. ASSUME Live, pc \in Waits PROVE Comes(C, R2, A2)'
    <2>1. Flying(C) = {} /\ sm0 \in R  BY <1>1, <1>3 DEF Exchange, Comes
    <2>2. Held' => Held /\ lastOut' = lastOut  BY <1>1 DEF Held
    <2>3. Flying(C)' \subseteq {m} /\ Single(C)'  BY <1>1, <2>1, <2>2, FirstQueued
    <2> QED  BY <1>1, <1>3, <2>1, <2>3 DEF Comes
  <1> QED  BY <1>1, <1>2, <1>3 DEF Exchange, Calm

-----------------------------------------------------------------------------
(* The line of messages to the master: what it has not read of SM1, or may *)
(* have repeated, and the queue behind it.                                 *)

Line == IF Held THEN <<lastOut>> \o outq ELSE outq

\* The messages of C in a line are those of a series from one behind the
\* first to the last.
Brings(L, C, series, first, last) ==
    \E c \in [0 .. Len(L) -> 0 .. last] :
        /\ c[0] = first /\ c[Len(L)] = last
        /\ \A i \in 1 .. Len(L) :
             IF L[i].cmd \in C THEN c[i] = c[i - 1] + 1 /\ L[i] = series[c[i]]
             ELSE c[i] = c[i - 1]

LEMMA Prepended ==
  ASSUME NEW m, NEW s, IsSeq(s)
  PROVE  /\ IsSeq(<<m>> \o s) /\ <<m>> \o s # << >> /\ Len(<<m>> \o s) = Len(s) + 1
         /\ Head(<<m>> \o s) = m /\ Tail(<<m>> \o s) = s
         /\ \A x : Append(<<m>> \o s, x) = <<m>> \o Append(s, x)
         /\ DOMAIN (<<m>> \o s) = {1} \cup {k + 1 : k \in DOMAIN s}
         /\ (<<m>> \o s)[1] = m /\ \A k \in DOMAIN s : (<<m>> \o s)[k + 1] = s[k] /\ k + 1 # 1
  <1> DEFINE S == {s[k] : k \in DOMAIN s} \cup {m}
  <1>1. s \in Seq(S) /\ m \in S  BY DEF IsSeq
  <1> HIDE DEF S
  <1>2. PICK t : t = <<m>> \o s  OBVIOUS
  <1>3. <<m>> \in Seq(S)  BY <1>1
  <1>4. t \in Seq(S) /\ Len(t) = Len(s) + 1 /\ t[1] = m /\ \A k \in 1 .. Len(s) : t[k + 1] = s[k]
    BY <1>1, <1>2, <1>3
  <1>5. IsSeq(t) /\ t # << >>  BY <1>1, <1>4, Sequence
  <1>6. Head(t) = m /\ Tail(t) = s
    <2>1. Tail(t) \in Seq(S) /\ Len(Tail(t)) = Len(s)
          /\ \A k \in 1 .. Len(s) : Tail(t)[k] = s[k]
      BY <1>1, <1>4, <1>5
    <2> QED  BY <1>1, <1>4, <1>5, <2>1, Same
  <1>7. ASSUME NEW x PROVE Append(t, x) = <<m>> \o Append(s, x)
    <2>1. PICK X : X = S \cup {x}  OBVIOUS
    <2>2. s \in Seq(X) /\ t \in Seq(X) /\ x \in X /\ m \in X  BY <1>1, <1>4, <2>1
    <2>3. PICK a, b : a = Append(t, x) /\ b = Append(s, x)  OBVIOUS
    <2>4. a \in Seq(X) /\ Len(a) = Len(s) + 2 /\ b \in Seq(X) /\ Len(b) = Len(s) + 1
          /\ (\A k \in 1 .. Len(t) : a[k] = t[k]) /\ a[Len(t) + 1] = x
          /\ (\A k \in 1 .. Len(s) : b[k] = s[k]) /\ b[Len(s) + 1] = x
      BY <1>1, <1>4, <2>2, <2>3
    <2>5. PICK d : d = <<m>> \o b  OBVIOUS
    <2>6. <<m>> \in Seq(X)  BY <2>2
    <2>7. d \in Seq(X) /\ Len(d) = Len(s) + 2 /\ d[1] = m /\ \A k \in 1 .. Len(b) : d[k + 1] = b[k]
      BY <1>1, <2>4, <2>5, <2>6
    <2>8. \A k \in 1 .. Len(a) : a[k] = d[k]
      <3> TAKE k \in 1 .. Len(a)
      <3>1. CASE k = 1  BY <1>1, <1>4, <2>4, <2>7, <3>1
      <3>2. CASE k \in 2 .. Len(s) + 1
        <4>1. k - 1 \in 1 .. Len(s) /\ (k - 1) + 1 = k /\ k \in 1 .. Len(t)
              /\ k - 1 \in 1 .. Len(b)
          BY <1>1, <1>4, <2>4, <3>2
        <4>2. a[k] = t[k] /\ b[k - 1] = s[k - 1]  BY <2>4, <4>1
        <4>3. t[(k - 1) + 1] = s[k - 1] /\ d[(k - 1) + 1] = b[k - 1]  BY <1>4, <2>7, <4>1
        <4> QED  BY <4>1, <4>2, <4>3
      <3>3. CASE k = Len(s) + 2
        <4>1. Len(b) \in 1 .. Len(b) /\ Len(b) + 1 = k /\ Len(b) = Len(s) + 1 /\ Len(t) + 1 = k
          BY <1>1, <1>4, <2>4, <3>3
        <4>2. d[Len(b) + 1] = b[Len(b)]  BY <2>7, <4>1
        <4> QED  BY <2>4, <4>1, <4>2
      <3> QED  BY <1>1, <2>4, <3>1, <3>2, <3>3
    <2> QED  BY <2>3, <2>4, <2>5, <2>7, <2>8, Same
  <1>8. DOMAIN t = {1} \cup {k + 1 : k \in DOMAIN s}
    <2>1. DOMAIN t = 1 .. Len(s) + 1 /\ DOMAIN s = 1 .. Len(s) /\ Len(s) \in Nat  BY <1>1, <1>4
    <2>2. ASSUME NEW k \in 1 .. Len(s) + 1, k # 1 PROVE \E i \in 1 .. Len(s) : k = i + 1
      <3>1. k - 1 \in 1 .. Len(s) /\ k = (k - 1) + 1  BY <2>1, <2>2
      <3> QED  BY <3>1
    <2>3. \A i \in 1 .. Len(s) : i + 1 \in 1 .. Len(s) + 1  BY <2>1
    <2>4. 1 \in 1 .. Len(s) + 1  BY <2>1
    <2> QED  BY <2>1, <2>2, <2>3, <2>4
  <1>9. \A k \in DOMAIN s : k + 1 # 1 /\ k \in 1 .. Len(s)  BY <1>1
  <1> QED  BY <1>2, <1>4, <1>5, <1>6, <1>7, <1>8, <1>9

\* A line in which nothing of C comes brings nothing.
LEMMA BringsNothing ==
  ASSUME NEW L, NEW C, NEW series, NEW n \in Nat, IsSeq(L), \A i \in DOMAIN L : L[i].cmd \notin C
  PROVE  Brings(L, C, series, n, n)
  <1>1. Len(L) \in Nat /\ DOMAIN L = 1 .. Len(L)
    <2>1. PICK S : L \in Seq(S)  BY DEF IsSeq
    <2> QED  BY <2>1
  <1>2. PICK c : c = [i \in 0 .. Len(L) |-> n]  OBVIOUS
  <1>3. c \in [0 .. Len(L) -> 0 .. n] /\ c[0] = n /\ c[Len(L)] = n  BY <1>1, <1>2
  <1>4. \A i \in 1 .. Len(L) : c[i] = c[i - 1]  BY <1>1, <1>2
  <1> QED  BY <1>1, <1>3, <1>4 DEF Brings

\* What is put at the end of the line.
LEMMA BringsMore ==
  ASSUME NEW L, NEW C, NEW series, NEW first \in Nat, NEW last \in Nat, NEW m, IsSeq(L),
         Brings(L, C, series, first, last)
  PROVE  /\ m.cmd \notin C => Brings(Append(L, m), C, series, first, last)
         /\ m.cmd \in C /\ m = series[last + 1]
              => Brings(Append(L, m), C, series, first, last + 1)
  <1>0. PICK n : n = Len(L)  OBVIOUS
  <1>1. n \in Nat
    <2>1. PICK S : L \in Seq(S)  BY DEF IsSeq
    <2> QED  BY <1>0, <2>1
  <1>2. PICK N : N = Append(L, m)  OBVIOUS
  <1>3. Len(N) = n + 1 /\ N[n + 1] = m /\ \A i \in 1 .. n : N[i] = L[i]
    <2>1. PICK S : L \in Seq(S) /\ m \in S
      <3> DEFINE S == {L[k] : k \in DOMAIN L} \cup {m}
      <3>1. L \in Seq(S) /\ m \in S  BY DEF IsSeq
      <3> QED  BY <3>1
    <2> QED  BY <1>0, <1>2, <2>1
  <1>4. PICK c \in [0 .. n -> 0 .. last] :
          /\ c[0] = first /\ c[n] = last
          /\ \A i \in 1 .. n :
               IF L[i].cmd \in C THEN c[i] = c[i - 1] + 1 /\ L[i] = series[c[i]]
               ELSE c[i] = c[i - 1]
    BY <1>0 DEF Brings
  <1>5. ASSUME NEW l \in Nat, last <= l,
               IF m.cmd \in C THEN l = last + 1 /\ m = series[l] ELSE l = last
        PROVE  Brings(N, C, series, first, l)
    <2>1. PICK d : d = [i \in 0 .. n + 1 |-> IF i = n + 1 THEN l ELSE c[i]]  OBVIOUS
    <2>2. \A i \in 0 .. n : d[i] = c[i] /\ c[i] \in 0 .. last  BY <1>1, <1>4, <2>1
    <2>3. d[n + 1] = l /\ 0 \in 0 .. n /\ n \in 0 .. n  BY <1>1, <2>1
    <2>4. d \in [0 .. n + 1 -> 0 .. l]
      <3>1. \A i \in 0 .. n + 1 : (IF i = n + 1 THEN l ELSE c[i]) \in 0 .. l
        <4> TAKE i \in 0 .. n + 1
        <4>1. CASE i = n + 1  BY <1>5, <4>1
        <4>2. CASE i # n + 1
          <5>1. i \in 0 .. n  BY <1>1, <4>2
          <5>2. c[i] \in 0 .. last  BY <2>2, <5>1
          <5> QED  BY <1>5, <4>2, <5>2
        <4> QED  BY <4>1, <4>2
      <3> QED  BY <2>1, <3>1
    <2>5. ASSUME NEW i \in 1 .. n + 1
          PROVE  IF N[i].cmd \in C THEN d[i] = d[i - 1] + 1 /\ N[i] = series[d[i]]
                 ELSE d[i] = d[i - 1]
      <3>1. CASE i = n + 1
        <4>1. N[i] = m /\ d[i] = l /\ i - 1 = n  BY <1>1, <1>3, <2>3, <3>1
        <4>2. d[n] = last  BY <1>4, <2>2, <2>3
        <4> QED  BY <1>5, <4>1, <4>2
      <3>2. CASE i # n + 1
        <4>1. i \in 1 .. n /\ i \in 0 .. n /\ i - 1 \in 0 .. n  BY <1>1, <3>2
        <4>2. N[i] = L[i] /\ d[i] = c[i] /\ d[i - 1] = c[i - 1]  BY <1>3, <2>2, <4>1
        <4> QED  BY <1>4, <4>1, <4>2
      <3> QED  BY <3>1, <3>2
    <2>6. d[0] = first /\ d[Len(N)] = l  BY <1>3, <1>4, <2>2, <2>3
    <2> QED  BY <1>3, <2>4, <2>5, <2>6 DEF Brings
  <1>6. ASSUME m.cmd \notin C PROVE Brings(N, C, series, first, last)  BY <1>5, <1>6
  <1>7. ASSUME m.cmd \in C, m = series[last + 1] PROVE Brings(N, C, series, first, last + 1)
    BY <1>5, <1>7
  <1> QED  BY <1>2, <1>6, <1>7

\* What is taken from the front of the line.
LEMMA BringsNext ==
  ASSUME NEW L, NEW C, NEW series, NEW first \in Nat, NEW last \in Nat, IsSeq(L), L # << >>,
         Brings(L, C, series, first, last)
  PROVE  IF Head(L).cmd \in C
         THEN /\ first < last /\ Head(L) = series[first + 1]
              /\ Brings(Tail(L), C, series, first + 1, last)
         ELSE Brings(Tail(L), C, series, first, last)
  <1>0. PICK n, N : n = Len(L) /\ N = Tail(L)  OBVIOUS
  <1>1. n \in Nat /\ n > 0 /\ Len(N) = n - 1 /\ Head(L) = L[1]
        /\ \A i \in 1 .. n - 1 : N[i] = L[i + 1]
    <2>1. PICK S : L \in Seq(S)  BY DEF IsSeq
    <2> QED  BY <1>0, <2>1
  <1>2. PICK c \in [0 .. n -> 0 .. last] :
          /\ c[0] = first /\ c[n] = last
          /\ \A i \in 1 .. n :
               IF L[i].cmd \in C THEN c[i] = c[i - 1] + 1 /\ L[i] = series[c[i]]
               ELSE c[i] = c[i - 1]
    BY <1>0 DEF Brings
  <1>3. 1 \in 1 .. n /\ 1 - 1 = 0 /\ 1 \in 0 .. n  BY <1>1
  <1>4. c[1] \in 0 .. last  BY <1>2, <1>3
  <1>5. IF L[1].cmd \in C THEN c[1] = first + 1 /\ L[1] = series[c[1]] ELSE c[1] = first
    BY <1>2, <1>3
  <1>6. Brings(N, C, series, c[1], last)
    <2>1. PICK d : d = [i \in 0 .. n - 1 |-> c[i + 1]]  OBVIOUS
    <2>2. \A i \in 0 .. n - 1 : i + 1 \in 0 .. n  BY <1>1
    <2>3. d \in [0 .. n - 1 -> 0 .. last]  BY <1>2, <2>1, <2>2
    <2>4. d[0] = c[1] /\ d[n - 1] = last
      <3>1. 0 \in 0 .. n - 1 /\ n - 1 \in 0 .. n - 1 /\ (n - 1) + 1 = n /\ 0 + 1 = 1  BY <1>1
      <3> QED  BY <1>2, <2>1, <3>1
    <2>5. ASSUME NEW i \in 1 .. n - 1
          PROVE  IF N[i].cmd \in C THEN d[i] = d[i - 1] + 1 /\ N[i] = series[d[i]]
                 ELSE d[i] = d[i - 1]
      <3>1. i \in 0 .. n - 1 /\ i - 1 \in 0 .. n - 1 /\ i + 1 \in 1 .. n
            /\ (i - 1) + 1 = i /\ (i + 1) - 1 = i
        BY <1>1
      <3>2. d[i] = c[i + 1] /\ d[i - 1] = c[i] /\ N[i] = L[i + 1]
        BY <1>1, <2>1, <3>1
      <3>3. IF L[i + 1].cmd \in C THEN c[i + 1] = c[i] + 1 /\ L[i + 1] = series[c[i + 1]]
            ELSE c[i + 1] = c[i]
        BY <1>2, <3>1
      <3> QED  BY <3>2, <3>3
    <2> QED  BY <1>1, <2>3, <2>4, <2>5 DEF Brings
  <1> QED  BY <1>0, <1>1, <1>4, <1>5, <1>6

\* One of C in a line.
LEMMA LineHasOne ==
  ASSUME NEW q, IsSeq(q), NEW o, NEW C
  PROVE  /\ (/\ \A i, j \in DOMAIN q : q[i].cmd \in C /\ q[j].cmd \in C => i = j
             /\ o.cmd \in C => \A i \in DOMAIN q : q[i].cmd \notin C)
            => \A i, j \in DOMAIN (<<o>> \o q) :
                 (<<o>> \o q)[i].cmd \in C /\ (<<o>> \o q)[j].cmd \in C => i = j
         /\ (\A i, j \in DOMAIN (<<o>> \o q) :
                 (<<o>> \o q)[i].cmd \in C /\ (<<o>> \o q)[j].cmd \in C => i = j)
            => /\ \A i, j \in DOMAIN q : q[i].cmd \in C /\ q[j].cmd \in C => i = j
               /\ o.cmd \in C => \A i \in DOMAIN q : q[i].cmd \notin C
  <1>0. PICK t : t = <<o>> \o q  OBVIOUS
  <1>1. /\ IsSeq(t) /\ DOMAIN t = {1} \cup {k + 1 : k \in DOMAIN q} /\ t[1] = o
        /\ \A k \in DOMAIN q : t[k + 1] = q[k] /\ k + 1 # 1
    BY <1>0, Prepended
  <1>3. \A i, j \in DOMAIN q : i + 1 = j + 1 => i = j
    <2>1. PICK S : q \in Seq(S)  BY DEF IsSeq
    <2> QED  BY <2>1
  <1>4. ASSUME \A i, j \in DOMAIN q : q[i].cmd \in C /\ q[j].cmd \in C => i = j,
               o.cmd \in C => \A i \in DOMAIN q : q[i].cmd \notin C,
               NEW i \in DOMAIN t, NEW j \in DOMAIN t, t[i].cmd \in C, t[j].cmd \in C
        PROVE  i = j
    BY <1>1, <1>4
  <1>5. ASSUME \A i, j \in DOMAIN t : t[i].cmd \in C /\ t[j].cmd \in C => i = j
        PROVE  /\ \A i, j \in DOMAIN q : q[i].cmd \in C /\ q[j].cmd \in C => i = j
               /\ o.cmd \in C => \A i \in DOMAIN q : q[i].cmd \notin C
    <2>1. ASSUME NEW i \in DOMAIN q, NEW j \in DOMAIN q, q[i].cmd \in C, q[j].cmd \in C
          PROVE  i = j
      <3>1. i + 1 \in DOMAIN t /\ j + 1 \in DOMAIN t /\ t[i + 1] = q[i] /\ t[j + 1] = q[j]
        BY <1>1
      <3>2. i + 1 = j + 1  BY <1>5, <2>1, <3>1
      <3> QED  BY <1>3, <3>2
    <2>2. ASSUME o.cmd \in C, NEW i \in DOMAIN q, q[i].cmd \in C PROVE FALSE
      <3>1. i + 1 \in DOMAIN t /\ 1 \in DOMAIN t /\ t[i + 1] = q[i] /\ t[1] = o /\ i + 1 # 1
        BY <1>1
      <3> QED  BY <1>5, <2>2, <3>1
    <2> QED  BY <2>1, <2>2
  <1> QED  BY <1>0, <1>4, <1>5

LEMMA LineFlies ==
  ASSUME IsSeq(outq), NEW C
  PROVE  /\ IsSeq(Line)
         /\ Flying(C) = {m \in {Line[k] : k \in DOMAIN Line} : m.cmd \in C}
         /\ Flying(C) = {} => \A i \in DOMAIN Line : Line[i].cmd \notin C
  <1>1. PICK q, o, t : q = outq /\ o = lastOut /\ t = Line  OBVIOUS
  <1>2. IsSeq(q)  BY <1>1
  <1>3. CASE Held
    <2>1. t = <<o>> \o q  BY <1>1, <1>3 DEF Line
    <2>2. /\ IsSeq(t)
          /\ \A k \in DOMAIN t : t[k] = o \/ \E i \in DOMAIN q : t[k] = q[i]
          /\ \A i \in DOMAIN q : \E k \in DOMAIN t : t[k] = q[i]
          /\ \E k \in DOMAIN t : t[k] = o
      <3>1. /\ IsSeq(t) /\ DOMAIN t = {1} \cup {k + 1 : k \in DOMAIN q} /\ t[1] = o
            /\ \A k \in DOMAIN q : t[k + 1] = q[k] /\ k + 1 # 1
        BY <1>2, <2>1, Prepended
      <3>2. \A k \in DOMAIN t : t[k] = o \/ \E i \in DOMAIN q : t[k] = q[i]  BY <3>1
      <3>3. \A i \in DOMAIN q : \E k \in DOMAIN t : t[k] = q[i]  BY <3>1
      <3>4. \E k \in DOMAIN t : t[k] = o  BY <3>1
      <3> QED  BY <3>1, <3>2, <3>3, <3>4
    <2> QED  BY <1>1, <1>3, <2>2 DEF Flying
  <1>4. CASE ~Held  BY <1>1, <1>2, <1>4 DEF Line, Flying
  <1> QED  BY <1>3, <1>4

\* One of C at the front of the line was the only one.
LEMMA LineShrinks ==
  ASSUME IsSeq(outq), IsSeq(outq)', NEW C, Line # << >>, Line' = Tail(Line)
  PROVE  /\ Flying(C)' \subseteq Flying(C) /\ (Single(C) => Single(C)')
         /\ Single(C) /\ Head(Line).cmd \in C => Flying(C)' = {}
         /\ Head(Line).cmd \in C => Head(Line) \in Flying(C)
  <1>0. PICK t, u : t = Line /\ u = Line'  OBVIOUS
  <1>1. /\ IsSeq(t) /\ t # << >> /\ u = Tail(t)
        /\ Flying(C) = {m \in {t[k] : k \in DOMAIN t} : m.cmd \in C}
        /\ Single(C) <=> \A i, j \in DOMAIN t : t[i].cmd \in C /\ t[j].cmd \in C => i = j
    <2>1. PICK q, o : q = outq /\ o = lastOut  OBVIOUS
    <2>2. IsSeq(q)  BY <2>1
    <2>3. CASE Held
      <3>1. t = <<o>> \o q  BY <1>0, <2>1, <2>3 DEF Line
      <3>2. /\ IsSeq(t)
            /\ \A k \in DOMAIN t : t[k] = o \/ \E i \in DOMAIN q : t[k] = q[i]
            /\ \A i \in DOMAIN q : \E k \in DOMAIN t : t[k] = q[i]
            /\ \E k \in DOMAIN t : t[k] = o
        <4>0. /\ IsSeq(<<o>> \o q) /\ DOMAIN (<<o>> \o q) = {1} \cup {k + 1 : k \in DOMAIN q}
              /\ (<<o>> \o q)[1] = o
              /\ \A k \in DOMAIN q : (<<o>> \o q)[k + 1] = q[k] /\ k + 1 # 1
          BY ONLY <2>2, Prepended
        <4>1. /\ IsSeq(t) /\ DOMAIN t = {1} \cup {k + 1 : k \in DOMAIN q} /\ t[1] = o
              /\ \A k \in DOMAIN q : t[k + 1] = q[k] /\ k + 1 # 1
          BY ONLY <3>1, <4>0
        <4>2. \A k \in DOMAIN t : t[k] = o \/ \E i \in DOMAIN q : t[k] = q[i]  BY <4>1
        <4>3. \A i \in DOMAIN q : \E k \in DOMAIN t : t[k] = q[i]  BY <4>1
        <4>4. \E k \in DOMAIN t : t[k] = o  BY <4>1
        <4> QED  BY <4>1, <4>2, <4>3, <4>4
      <3>3. (/\ \A i, j \in DOMAIN q : q[i].cmd \in C /\ q[j].cmd \in C => i = j
             /\ o.cmd \in C => \A i \in DOMAIN q : q[i].cmd \notin C)
            <=> \A i, j \in DOMAIN t : t[i].cmd \in C /\ t[j].cmd \in C => i = j
        BY <2>2, <3>1, LineHasOne
      <3>4. t # << >>  BY <2>2, <3>1, Prepended
      <3>5. Flying(C) = {m \in {t[k] : k \in DOMAIN t} : m.cmd \in C}
        BY <2>1, <2>3, <3>2 DEF Flying
      <3> QED  BY <1>0, <2>1, <2>3, <3>2, <3>3, <3>5 DEF Single
    <2>4. CASE ~Held  BY <1>0, <2>1, <2>2, <2>4 DEF Line, Flying, Single
    <2> QED  BY <2>3, <2>4
  <1>2. /\ Flying(C)' = {m \in {u[k] : k \in DOMAIN u} : m.cmd \in C}
        /\ Single(C)' <=> \A i, j \in DOMAIN u : u[i].cmd \in C /\ u[j].cmd \in C => i = j
    <2>1. PICK q, o : q = outq' /\ o = lastOut'  OBVIOUS
    <2>2. IsSeq(q)  BY <2>1 DEF IsSeq
    <2>3. CASE Held'
      <3>1. u = <<o>> \o q  BY <1>0, <2>1, <2>3 DEF Line
      <3>2. /\ \A k \in DOMAIN u : u[k] = o \/ \E i \in DOMAIN q : u[k] = q[i]
            /\ \A i \in DOMAIN q : \E k \in DOMAIN u : u[k] = q[i]
            /\ \E k \in DOMAIN u : u[k] = o
        <4>0. /\ IsSeq(<<o>> \o q) /\ DOMAIN (<<o>> \o q) = {1} \cup {k + 1 : k \in DOMAIN q}
              /\ (<<o>> \o q)[1] = o
              /\ \A k \in DOMAIN q : (<<o>> \o q)[k + 1] = q[k] /\ k + 1 # 1
          BY ONLY <2>2, Prepended
        <4>1. /\ IsSeq(u) /\ DOMAIN u = {1} \cup {k + 1 : k \in DOMAIN q} /\ u[1] = o
              /\ \A k \in DOMAIN q : u[k + 1] = q[k] /\ k + 1 # 1
          BY ONLY <3>1, <4>0
        <4>2. \A k \in DOMAIN u : u[k] = o \/ \E i \in DOMAIN q : u[k] = q[i]  BY <4>1
        <4>3. \A i \in DOMAIN q : \E k \in DOMAIN u : u[k] = q[i]  BY <4>1
        <4>4. \E k \in DOMAIN u : u[k] = o  BY <4>1
        <4> QED  BY <4>1, <4>2, <4>3, <4>4
      <3>3. (/\ \A i, j \in DOMAIN q : q[i].cmd \in C /\ q[j].cmd \in C => i = j
             /\ o.cmd \in C => \A i \in DOMAIN q : q[i].cmd \notin C)
            <=> \A i, j \in DOMAIN u : u[i].cmd \in C /\ u[j].cmd \in C => i = j
        BY <2>2, <3>1, LineHasOne
      <3>4. Flying(C)' = {m \in {u[k] : k \in DOMAIN u} : m.cmd \in C}
        BY <2>1, <2>3, <3>2 DEF Flying
      <3> QED  BY <2>1, <2>3, <3>3, <3>4 DEF Single
    <2>4. CASE ~Held'  BY <1>0, <2>1, <2>2, <2>4 DEF Line, Flying, Single
    <2> QED  BY <2>3, <2>4
  <1>3. /\ Head(t) = t[1] /\ 1 \in DOMAIN t
        /\ \A k \in DOMAIN u : k + 1 \in DOMAIN t /\ u[k] = t[k + 1] /\ k + 1 # 1
        /\ \A i, j \in DOMAIN u : i + 1 = j + 1 => i = j
    BY <1>1, ShortenedAt
  <1> QED  BY <1>0, <1>1, <1>2, <1>3

\* What a step of the mailbox does to the line when no answer of an earlier
\* transfer may come: the front is read, is a notice or no answer, or is lost
\* behind a repeat; a notice is queued; the slave is gone with all of it.
LineMoves ==
    \/ Line' = Line /\ ~ReadAnswer
    \/ Line # << >> /\ Line' = Tail(Line) /\ Head(Line).cmd \in NoAnswers /\ ~ReadAnswer
    \/ Line # << >> /\ Line' = Tail(Line) /\ ReadAnswer /\ got' = Head(Line)
    \/ /\ Line # << >> /\ Line' = Tail(Line) /\ ~ReadAnswer
       /\ pc \in Waits
       /\ \/ pc' = pc /\ fails' = fails /\ Held /\ sm1 = NoMsg /\ Head(Line) = lastOut
          \/ pc' = "handle" /\ fails' > 0
    \/ Line' = Append(Line, Notice) /\ ~ReadAnswer
    \/ ~ReadAnswer /\ gone' /\ sm0' = NoMsg /\ Line' \in {<< >>, <<NoMsg>>}

LEMMA LineStays ==
  ASSUME outq' = outq, lastOut' = lastOut, Held' <=> Held
  PROVE  Line' = Line
  BY DEF Line

LEMMA LineDrops ==
  ASSUME IsSeq(outq), outq' = outq, Held, ~Held'
  PROVE  Line # << >> /\ Line' = Tail(Line) /\ Head(Line) = lastOut
  BY Prepended DEF Line

LEMMA LineMail ==
  ASSUME IInv, Quiet, Quiet', pc # "drain", MasterMail \/ HookFragment \/ SlaveMail
  PROVE  LineMoves
  <1>0. IsSeq(outq) /\ fails \in 0 .. 2 /\ hooked \in {{}, {"EOE_FRAG"}}
    BY DEF IInv, Typed, MailTypeOK
  <1> USE DEF LineMoves
  <1>1. CASE SendOk \/ SendUnnoticed \/ SendFails \/ Emptied \/ EmptyExpires
    <2>1. outq' = outq /\ lastOut' = lastOut /\ (Held' <=> Held) /\ ~ReadAnswer
      BY <1>1 DEF SendOk, SendUnnoticed, SendFails, Emptied, EmptyExpires, Fails, Hand, Held,
         slaveMail, IInv, Typed, MailTypeOK, ReadAnswer
    <2> QED  BY <2>1, LineStays
  <1>2. CASE Available \/ ReadLost \/ AskRepeat \/ RepeatAcknowledged
    <2>1. outq' = outq /\ lastOut' = lastOut /\ taken' = taken /\ ~ReadAnswer
      BY <1>2 DEF Available, ReadLost, AskRepeat, RepeatAcknowledged, slaveMail, ReadAnswer, Hand
    <2>2. CASE Available
      <3>1. sm1 # NoMsg /\ sm1' = sm1  BY <2>2 DEF Available
      <3> QED  BY <2>1, <3>1, LineStays DEF Held
    <2>3. CASE ReadLost \/ AskRepeat \/ RepeatAcknowledged
      <3>1. {pc, pc'} \subseteq {"read", "repeat", "ack", "refill"}
        BY <2>3 DEF ReadLost, AskRepeat, RepeatAcknowledged
      <3> QED  BY <2>1, <3>1, LineStays DEF Held
    <2> QED  BY <1>2, <2>2, <2>3
  <1>3. CASE TimerExpires
    <2>1. /\ outq' = outq /\ lastOut' = lastOut /\ ~ReadAnswer
          /\ pc \in {"wait", "refill"} /\ pc' = "handle" /\ fails' > 0
          /\ Held' => Held
      BY <1>0, <1>3 DEF TimerExpires, Fails, Hand, Held, slaveMail, ReadAnswer, Quiet
    <2> QED  BY <1>0, <2>1, LineStays, LineDrops DEF Waits
  <1>4. CASE ReadAnswer
    <2>1. sm1 = lastOut /\ got' = lastOut /\ ~taken
      BY <1>4 DEF ReadAnswer, Hand, IInv, LastIsThere, AnswerIsNew, LastIsNew
    <2>2. outq' = outq /\ Held /\ ~Held'  BY <1>4, <2>1 DEF ReadAnswer, Held
    <2> QED  BY <1>0, <1>4, <2>1, <2>2, LineDrops
  <1>5. CASE ReadNotice \/ (HookFragment /\ pc = "read")
    <2>1. /\ outq' = outq /\ lastOut' = lastOut /\ ~Held'
          /\ sm1.cmd \in {"notice", "EOE_FRAG"}
      BY <1>0, <1>5 DEF ReadNotice, HookFragment, Held, Notice
    <2>2. ~ReadAnswer
      BY <1>5 DEF ReadNotice, HookFragment, ReadAnswer
    <2>3. sm1 = lastOut
      BY <2>1 DEF IInv, LastIsThere, NoMsg
    <2> QED  BY <1>0, <2>1, <2>2, <2>3, LineStays, LineDrops DEF NoAnswers
  <1>6. CASE Publish
    <2>1. /\ ~ReadAnswer /\ pc' = pc /\ fails' = fails
      BY <1>6 DEF Publish, ReadAnswer, master, ghosts
    <2>2. /\ outq # << >> /\ outq' = Tail(outq) /\ lastOut' = Head(outq) /\ ~taken'
          /\ sm1 = NoMsg /\ sm1' = Head(outq)
      BY <1>6 DEF Publish
    <2>3. outq = <<Head(outq)>> \o Tail(outq)
      <3>1. PICK S : outq \in Seq(S)  BY <1>0
         DEF IsSeq
      <3>2. PICK h, t : h = Head(outq) /\ t = Tail(outq)  OBVIOUS
      <3>3. h \in S /\ t \in Seq(S) /\ Len(t) = Len(outq) - 1 /\ h = outq[1]
            /\ \A k \in 1 .. Len(outq) - 1 : t[k] = outq[k + 1]
        BY <2>2, <3>1, <3>2
      <3>4. PICK u : u = <<h>> \o t  OBVIOUS
      <3>5. <<h>> \in Seq(S)  BY <3>3
      <3>6. u \in Seq(S) /\ Len(u) = Len(t) + 1 /\ u[1] = h /\ \A k \in 1 .. Len(t) : u[k + 1] = t[k]
        BY <3>3, <3>4, <3>5
      <3>7. \A k \in 1 .. Len(outq) : outq[k] = u[k]
        <4> TAKE k \in 1 .. Len(outq)
        <4>1. CASE k = 1  BY <3>3, <3>6, <4>1
        <4>2. CASE k # 1
          <5>1. k - 1 \in 1 .. Len(t) /\ (k - 1) + 1 = k  BY <3>1, <3>3, <4>2
          <5>2. u[(k - 1) + 1] = t[k - 1] /\ t[k - 1] = outq[(k - 1) + 1]
            BY <3>3, <3>6, <5>1
          <5> QED  BY <5>1, <5>2
        <4> QED  BY <4>1, <4>2
      <3>8. Len(u) = Len(outq)  BY <2>2, <3>1, <3>3, <3>6
      <3> QED  BY <3>1, <3>2, <3>4, <3>6, <3>7, <3>8, Same
    <2>4. CASE Held'
      <3>1. Line' = outq  BY <2>2, <2>3, <2>4 DEF Line
      <3>2. CASE ~Held  BY <2>1, <3>1, <3>2 DEF Line
      <3>3. CASE Held
        <4>1. Line # << >> /\ outq = Tail(Line) /\ Head(Line) = lastOut
          BY <1>0, <3>3, Prepended DEF Line
        <4>2. pc \in Waits  BY <2>2, <3>3 DEF Held, Waits
        <4> QED  BY <2>1, <2>2, <3>1, <3>3, <4>1, <4>2
      <3> QED  BY <3>2, <3>3
    <2>5. CASE ~Held'
      <3>1. ~Held /\ Head(outq) = NoMsg  BY <2>1, <2>2, <2>5 DEF Held
      <3>2. Line = outq /\ Line' = Tail(outq)  BY <2>2, <2>5, <3>1 DEF Line
      <3> QED  BY <2>1, <2>2, <3>1, <3>2 DEF NoAnswers, NoMsg
    <2> QED  BY <2>4, <2>5
  <1>7. CASE Repeat
    <2>1. pc = "ack" /\ pc' = pc /\ ~ReadAnswer
      BY <1>7 DEF Repeat, IInv, InStep, master, ReadAnswer
    <2>2. outq' = outq /\ lastOut' = lastOut /\ taken' = taken  BY <1>7 DEF Repeat
    <2>3. Held' <=> Held  BY <2>1, <2>2 DEF Held
    <2> QED  BY <2>1, <2>2, <2>3, LineStays
  <1>8. CASE Notify
    <2>1. outq' = Append(outq, Notice) /\ UNCHANGED <<lastOut, taken, sm1, pc, got>> /\ ~ReadAnswer
      BY <1>8 DEF Notify, master, ReadAnswer, Hand
    <2>2. Held' <=> Held  BY <2>1 DEF Held
    <2> QED  BY <1>0, <2>1, <2>2, Prepended DEF Line
  <1>9. CASE Vanish
    <2>1. outq' = << >> /\ lastOut' = NoMsg /\ gone' /\ sm0' = NoMsg /\ pc' = pc /\ ~ReadAnswer
      BY <1>9 DEF Vanish, master, ReadAnswer
    <2>2. <<NoMsg>> \o << >> = <<NoMsg>>
      <3>1. <<NoMsg>> \in Seq({NoMsg})  OBVIOUS
      <3>2. IsSeq(<<NoMsg>>)  BY <3>1, Sequence
      <3> QED  BY <3>2, JoinsNothing
    <2> QED  BY <2>1, <2>2 DEF Line
  <1>10. HookFragment => pc = "read"  BY DEF HookFragment
  <1> QED
    BY <1>1, <1>2, <1>3, <1>4, <1>5, <1>6, <1>7, <1>8, <1>9, <1>10
       DEF MasterMail, SlaveMail, DrainNothing, DrainMessage, DrainLost

LEMMA LineQueued ==
  ASSUME IsSeq(outq), NEW m, outq' = Append(outq, m), UNCHANGED <<lastOut, taken, sm1, pc>>
  PROVE  Line' = Append(Line, m)
  <1>1. Held' <=> Held  BY DEF Held
  <1> QED  BY <1>1, Prepended DEF Line

LEMMA LineClient == ASSUME ClientStep PROVE Line' = Line
  <1>1. outq' = outq /\ lastOut' = lastOut /\ (Held' <=> Held)
    BY DEF ClientStep, slaveMail, Held
  <1> QED  BY <1>1, LineStays

\* What becomes of a series of answers in the line: all of it is gone with the
\* slave, it stays as it is, its first one is read, or is lost.
SeriesMoves(C, D, series, first, last) ==
    \/ gone' /\ ~ReadAnswer /\ Brings(Line', C, series, first, first)
    \/ Brings(Line', C, series, first, last) /\ (ReadAnswer => got'.cmd \notin C)
    \/ /\ first < last /\ Brings(Line', C, series, first + 1, last)
       /\ Flying(D) # {} /\ (Single(D) => Flying(D)' = {})
       /\ \/ ReadAnswer /\ got' = series[first + 1] /\ got'.cmd \in C
          \/ /\ ~ReadAnswer /\ pc \in Waits /\ pc' = pc /\ fails' = fails
             /\ Held /\ sm1 = NoMsg /\ lastOut.cmd \in C
          \/ ~ReadAnswer /\ pc \in Waits /\ pc' = "handle" /\ fails' > 0

LEMMA SeriesMail ==
  ASSUME IInv, IInv', Quiet, Quiet', pc # "drain", MasterMail \/ HookFragment \/ SlaveMail,
         NEW C, NEW D, C \subseteq D, C \cap NoAnswers = {}, NEW series,
         NEW first \in Nat, NEW last \in Nat, Brings(Line, C, series, first, last)
  PROVE  SeriesMoves(C, D, series, first, last)
  <1>0. IsSeq(outq) /\ IsSeq(outq)'  BY DEF IInv, Typed
  <1>1. IsSeq(Line)  BY <1>0, LineFlies
  <1>2. LineMoves  BY LineMail
  <1> USE DEF SeriesMoves
  <1>3. CASE Line' = Line /\ ~ReadAnswer  BY <1>3
  <1>4. CASE Line # << >> /\ Line' = Tail(Line) /\ Head(Line).cmd \in NoAnswers /\ ~ReadAnswer
    <2>1. Head(Line).cmd \notin C  BY <1>4
    <2> QED  BY <1>1, <1>4, <2>1, BringsNext
  <1>5. CASE /\ Line # << >> /\ Line' = Tail(Line)
             /\ \/ ReadAnswer /\ got' = Head(Line)
                \/ /\ ~ReadAnswer /\ pc \in Waits /\ pc' = pc /\ fails' = fails
                   /\ Held /\ sm1 = NoMsg /\ Head(Line) = lastOut
                \/ ~ReadAnswer /\ pc \in Waits /\ pc' = "handle" /\ fails' > 0
    <2>1. CASE Head(Line).cmd \notin C  BY <1>1, <1>5, <2>1, BringsNext
    <2>2. CASE Head(Line).cmd \in C
      <3>1. /\ first < last /\ Head(Line) = series[first + 1]
            /\ Brings(Line', C, series, first + 1, last)
        BY <1>1, <1>5, <2>2, BringsNext
      <3>2. Flying(D) # {} /\ (Single(D) => Flying(D)' = {})
        BY <1>0, <1>5, <2>2, LineShrinks
      <3> QED  BY <1>5, <2>2, <3>1, <3>2
    <2> QED  BY <2>1, <2>2
  <1>6. CASE Line' = Append(Line, Notice) /\ ~ReadAnswer
    <2>1. Notice.cmd \notin C  BY DEF Notice, NoAnswers
    <2> QED  BY <1>1, <1>6, <2>1, BringsMore
  <1>7. CASE ~ReadAnswer /\ gone' /\ Line' \in {<< >>, <<NoMsg>>}
    <2>1. PICK L : L = Line'  OBVIOUS
    <2>2. IsSeq(L) /\ \A i \in DOMAIN L : L[i] = NoMsg
      <3>1. CASE L = << >>
        <4>1. L \in Seq({NoMsg}) /\ DOMAIN L = {}  BY <3>1
        <4> QED  BY <4>1, Sequence
      <3>2. CASE L = <<NoMsg>>
        <4>1. L \in Seq({NoMsg}) /\ DOMAIN L = {1} /\ L[1] = NoMsg  BY <3>2
        <4> QED  BY <4>1, Sequence
      <3> QED  BY <1>7, <2>1, <3>1, <3>2
    <2>3. \A i \in DOMAIN L : L[i].cmd \notin C  BY <2>2 DEF NoMsg, NoAnswers
    <2>4. Brings(L, C, series, first, first)  BY <2>2, <2>3, BringsNothing
    <2> QED  BY <1>7, <2>1, <2>4
  <1> QED  BY <1>2, <1>3, <1>4, <1>5, <1>6, <1>7 DEF LineMoves

\* Where a transfer that sends or waits is after a step of the mailbox.
LEMMA WaitsMove ==
  ASSUME Typed, MasterMail \/ HookFragment, pc \in {"send"} \cup Waits, pc = "send" => goesOn = "wait"
  PROVE  /\ pc' \in {"handle"} \cup Waits /\ (pc = "send" => pc' \in {"handle", "wait"})
         /\ sm0' = sm0 \/ (pc = "send" /\ sm0' = request)
         /\ ~ReadAnswer /\ pc' = "handle" => got' = Failed /\ fails' > 0
         /\ ReadAnswer => pc = "read" /\ pc' = "handle" /\ fails' = fails
         /\ UNCHANGED <<job, gone>>
         /\ dirty' = dirty /\ fails' >= fails /\ fails \in 0 .. 2 /\ fails' \in 0 .. 2
         /\ repeats = "abandoned" => repeats' = "abandoned"
  <1>0. fails \in 0 .. 2  BY DEF Typed, MailTypeOK
  <1> USE DEF Fails, Hand, ghosts, Waits, Lost, Reached, environment
  <1>1. CASE MasterMail
    <2>0. job' = job  BY <1>1 DEF MasterMail, transfer
    <2>1. CASE SendOk \/ SendUnnoticed \/ SendFails
      BY <1>0, <2>0, <2>1 DEF SendOk, SendUnnoticed, SendFails, ReadAnswer
    <2>2. CASE Available \/ TimerExpires
      BY <1>0, <2>0, <2>2 DEF Available, TimerExpires, ReadAnswer
    <2>3. CASE ReadAnswer
      BY <1>0, <2>0, <2>3 DEF ReadAnswer
    <2>4. CASE ReadNotice
      BY <1>0, <2>0, <2>4 DEF ReadNotice, ReadAnswer
    <2>5. CASE ReadLost \/ AskRepeat \/ RepeatAcknowledged
      BY <1>0, <2>0, <2>5 DEF ReadLost, AskRepeat, RepeatAcknowledged, ReadAnswer
    <2> QED
      BY <1>1, <2>1, <2>2, <2>3, <2>4, <2>5
         DEF MasterMail, DrainNothing, DrainMessage, DrainLost, Emptied, EmptyExpires
  <1>2. CASE HookFragment
    <2>1. pc = "read" /\ ~ReadAnswer /\ job' = job /\ gone' = gone
      BY <1>2 DEF HookFragment, ReadAnswer, transfer
    <2> QED  BY <1>0, <1>2, <2>1 DEF HookFragment
  <1> QED  BY <1>1, <1>2

-----------------------------------------------------------------------------
(* Pieces of a sequence.                                                    *)

Elements(s) == {s[k] : k \in DOMAIN s}

LEMMA Piece ==
  ASSUME NEW S, NEW s \in Seq(S), NEW i \in Nat, NEW j \in Nat, i > 0, j <= Len(s), i <= j + 1
  PROVE  /\ SubSeq(s, i, j) \in Seq(S) /\ Len(SubSeq(s, i, j)) = j + 1 - i
         /\ \A k \in 1 .. j + 1 - i : SubSeq(s, i, j)[k] = s[k + i - 1]
  OBVIOUS

\* What is behind the first l elements, and the element that is next.
LEMMA Pieces ==
  ASSUME NEW d, IsSeq(d), NEW n, n = Len(d), NEW l \in Nat, l < n
  PROVE  /\ n \in Nat
         /\ IsSeq(SubSeq(d, l + 1, n)) /\ SubSeq(d, l + 1, n) # << >>
         /\ Len(SubSeq(d, l + 1, n)) = n - l
         /\ IsSeq(SubSeq(d, l + 1, l + 1)) /\ Len(SubSeq(d, l + 1, l + 1)) = 1
         /\ SubSeq(SubSeq(d, l + 1, n), 1, 1) = SubSeq(d, l + 1, l + 1)
         /\ Tail(SubSeq(d, l + 1, n)) = SubSeq(d, l + 2, n)
         /\ SubSeq(d, 1, l) \o SubSeq(d, l + 1, l + 1) = SubSeq(d, 1, l + 1)
         /\ IsSeq(SubSeq(d, 1, l)) /\ Len(SubSeq(d, 1, l)) = l
         /\ SubSeq(d, 1, n) = d
  <1>1. PICK S : d \in Seq(S)  BY DEF IsSeq
  <1>2. n \in Nat  BY <1>1
  <1>3. PICK r, o, t, a, b : /\ r = SubSeq(d, l + 1, n) /\ o = SubSeq(d, l + 1, l + 1)
                             /\ t = SubSeq(d, l + 2, n) /\ a = SubSeq(d, 1, l)
                             /\ b = SubSeq(d, 1, l + 1)
    OBVIOUS
  <1>0. Len(d) = n /\ n \in Nat /\ l \in Nat /\ l < n  BY <1>2
  <1>4. r \in Seq(S) /\ Len(r) = n - l /\ \A k \in 1 .. n - l : r[k] = d[k + l]
    <2>1. n + 1 - (l + 1) = n - l /\ \A k \in 1 .. n - l : k + (l + 1) - 1 = k + l
      BY ONLY <1>0
    <2>2. l + 1 \in Nat /\ l + 1 > 0 /\ n <= Len(d) /\ l + 1 <= n + 1  BY ONLY <1>0
    <2>3. /\ r \in Seq(S) /\ Len(r) = n + 1 - (l + 1)
          /\ \A k \in 1 .. n + 1 - (l + 1) : r[k] = d[k + (l + 1) - 1]
      BY <1>0, <1>1, <1>3, <2>2, Piece
    <2>4. Len(r) = n - l  BY ONLY <2>1, <2>3
    <2>5. ASSUME NEW k \in 1 .. n - l PROVE r[k] = d[k + l]
      <3>1. k \in 1 .. n + 1 - (l + 1)  BY ONLY <2>1, k \in 1 .. n - l
      <3> QED  BY ONLY <2>1, <2>3, <3>1, k \in 1 .. n - l
    <2> QED  BY ONLY <2>3, <2>4, <2>5
  <1>5. o \in Seq(S) /\ Len(o) = 1 /\ o[1] = d[l + 1]
    <2>1. (l + 1) + 1 - (l + 1) = 1 /\ 1 + (l + 1) - 1 = l + 1 /\ 1 \in 1 .. 1  BY ONLY <1>0
    <2>2. l + 1 \in Nat /\ l + 1 > 0 /\ l + 1 <= Len(d) /\ l + 1 <= (l + 1) + 1  BY ONLY <1>0
    <2>3. /\ o \in Seq(S) /\ Len(o) = (l + 1) + 1 - (l + 1)
          /\ \A k \in 1 .. (l + 1) + 1 - (l + 1) : o[k] = d[k + (l + 1) - 1]
      BY <1>0, <1>1, <1>3, <2>2, Piece
    <2> QED  BY ONLY <2>1, <2>3
  <1>6. t \in Seq(S) /\ Len(t) = n - l - 1 /\ \A k \in 1 .. n - l - 1 : t[k] = d[k + l + 1]
    <2>1. n + 1 - (l + 2) = n - l - 1
          /\ \A k \in 1 .. n - l - 1 : k + (l + 2) - 1 = k + l + 1
      BY ONLY <1>0
    <2>2. l + 2 \in Nat /\ l + 2 > 0 /\ n <= Len(d) /\ l + 2 <= n + 1  BY ONLY <1>0
    <2>3. /\ t \in Seq(S) /\ Len(t) = n + 1 - (l + 2)
          /\ \A k \in 1 .. n + 1 - (l + 2) : t[k] = d[k + (l + 2) - 1]
      BY <1>0, <1>1, <1>3, <2>2, Piece
    <2>4. Len(t) = n - l - 1  BY ONLY <2>1, <2>3
    <2>5. ASSUME NEW k \in 1 .. n - l - 1 PROVE t[k] = d[k + l + 1]
      <3>1. k \in 1 .. n + 1 - (l + 2)  BY ONLY <2>1, k \in 1 .. n - l - 1
      <3> QED  BY ONLY <2>1, <2>3, <3>1, k \in 1 .. n - l - 1
    <2> QED  BY ONLY <2>3, <2>4, <2>5
  <1>7. a \in Seq(S) /\ Len(a) = l /\ \A k \in 1 .. l : a[k] = d[k]
    <2>1. l + 1 - 1 = l /\ \A k \in 1 .. l : k + 1 - 1 = k  BY ONLY <1>0
    <2>2. 1 \in Nat /\ 1 > 0 /\ l <= Len(d) /\ 1 <= l + 1  BY ONLY <1>0
    <2>3. /\ a \in Seq(S) /\ Len(a) = l + 1 - 1
          /\ \A k \in 1 .. l + 1 - 1 : a[k] = d[k + 1 - 1]
      BY <1>0, <1>1, <1>3, <2>2, Piece
    <2> QED  BY ONLY <2>1, <2>3
  <1>8. b \in Seq(S) /\ Len(b) = l + 1 /\ \A k \in 1 .. l + 1 : b[k] = d[k]
    <2>1. (l + 1) + 1 - 1 = l + 1 /\ \A k \in 1 .. l + 1 : k + 1 - 1 = k  BY ONLY <1>0
    <2>2. l + 1 \in Nat /\ 1 \in Nat /\ 1 > 0 /\ l + 1 <= Len(d) /\ 1 <= (l + 1) + 1
      BY ONLY <1>0
    <2>3. /\ b \in Seq(S) /\ Len(b) = (l + 1) + 1 - 1
          /\ \A k \in 1 .. (l + 1) + 1 - 1 : b[k] = d[k + 1 - 1]
      BY <1>0, <1>1, <1>3, <2>2, Piece
    <2> QED  BY ONLY <2>1, <2>3
  <1>9. SubSeq(r, 1, 1) = o
    <2>1. PICK u : u = SubSeq(r, 1, 1)  OBVIOUS
    <2>2. u \in Seq(S) /\ Len(u) = 1 /\ u[1] = r[1]
      <3>1. 1 + 1 - 1 = 1 /\ 1 \in 1 .. 1 /\ 1 <= Len(r)  BY <1>2, <1>4
      <3> QED  BY <1>4, <2>1, <3>1, Piece
    <2>3. 1 \in 1 .. n - l /\ r[1] = d[1 + l] /\ 1 + l = l + 1  BY <1>2, <1>4
    <2>4. \A k \in 1 .. 1 : u[k] = o[k]  BY <1>5, <2>2, <2>3
    <2> QED  BY <1>5, <2>1, <2>2, <2>4, Same
  <1>10. Tail(r) = t
    <2>1. PICK u : u = Tail(r)  OBVIOUS
    <2>2. r # << >>  BY <1>2, <1>4
    <2>3. u \in Seq(S) /\ Len(u) = n - l - 1 /\ \A k \in 1 .. n - l - 1 : u[k] = r[k + 1]
      BY <1>2, <1>4, <2>1, <2>2
    <2>4. \A k \in 1 .. n - l - 1 : k + 1 \in 1 .. n - l /\ (k + 1) + l = k + l + 1
      BY ONLY <1>0
    <2>5. \A k \in 1 .. n - l - 1 : u[k] = t[k]  BY ONLY <1>4, <1>6, <2>3, <2>4
    <2> QED  BY <1>6, <2>1, <2>3, <2>5, Same
  <1>11. a \o o = b
    <2>1. PICK u : u = a \o o  OBVIOUS
    <2>2. u \in Seq(S) /\ Len(u) = l + 1 /\ (\A k \in 1 .. l : u[k] = a[k]) /\ u[l + 1] = o[1]
      <3>1. /\ a \o o \in Seq(S) /\ Len(a \o o) = Len(a) + Len(o)
            /\ \A k \in 1 .. Len(a) : (a \o o)[k] = a[k]
            /\ \A k \in 1 .. Len(o) : (a \o o)[Len(a) + k] = o[k]
        <4>1. a \in Seq(S) /\ o \in Seq(S)  BY <1>5, <1>7
        <4> QED  BY ONLY <4>1
      <3>2. 1 \in 1 .. Len(o) /\ Len(a) = l /\ Len(o) = 1  BY <1>5, <1>7
      <3> QED  BY <2>1, <3>1, <3>2
    <2>3. \A k \in 1 .. l + 1 : k \in 1 .. l \/ k = l + 1  OBVIOUS
    <2> QED  BY <1>5, <1>7, <1>8, <2>1, <2>2, <2>3, Same
  <1>12. SubSeq(d, 1, n) = d
    <2>1. PICK u : u = SubSeq(d, 1, n)  OBVIOUS
    <2>2. u \in Seq(S) /\ Len(u) = n /\ \A k \in 1 .. n : u[k] = d[k]
      <3>1. n + 1 - 1 = n /\ \A k \in 1 .. n : k + 1 - 1 = k  BY <1>2
      <3> QED  BY <1>1, <1>2, <2>1, <3>1, Piece
    <2> QED  BY <1>1, <2>1, <2>2, Same
  <1>13. r # << >>  BY <1>2, <1>4
  <1> QED
    BY <1>2, <1>3, <1>4, <1>5, <1>7, <1>9, <1>10, <1>11, <1>12, <1>13, Sequence

\* The first element and the others.
LEMMA FirstAndRest ==
  ASSUME NEW S, NEW d \in Seq(S), d # << >>
  PROVE  /\ SubSeq(d, 1, 1) \in Seq(S) /\ Len(SubSeq(d, 1, 1)) = 1 /\ SubSeq(d, 1, 1) # << >>
         /\ Tail(d) \in Seq(S) /\ SubSeq(d, 1, 1) \o Tail(d) = d
         /\ Len(d) = 1 => SubSeq(d, 1, 1) = d
         /\ Len(d) = 1 <=> Tail(d) = << >>
         /\ Len(d) > 1 <=> Tail(d) # << >>
         /\ Tail(d) = SubSeq(d, 2, Len(d))
         /\ Len(d) \in Nat /\ Len(d) > 0
  <1>1. Len(d) \in Nat /\ Len(d) > 0  OBVIOUS
  <1>2. PICK a, t : a = SubSeq(d, 1, 1) /\ t = Tail(d)  OBVIOUS
  <1>3. a \in Seq(S) /\ Len(a) = 1 /\ a[1] = d[1]
    <2>1. 1 + 1 - 1 = 1 /\ 1 \in 1 .. 1 /\ 1 <= Len(d)  BY <1>1
    <2> QED  BY <1>2, <2>1, Piece
  <1>4. t \in Seq(S) /\ Len(t) = Len(d) - 1 /\ \A k \in 1 .. Len(d) - 1 : t[k] = d[k + 1]
    BY <1>1, <1>2
  <1>5. a \o t = d
    <2>1. PICK u : u = a \o t  OBVIOUS
    <2>0. /\ u \in Seq(S) /\ Len(u) = 1 + (Len(d) - 1)
          /\ \A k \in 1 .. 1 : u[k] = a[k]
          /\ \A k \in 1 .. Len(d) - 1 : u[1 + k] = t[k]
      <3>1. /\ a \o t \in Seq(S) /\ Len(a \o t) = Len(a) + Len(t)
            /\ \A k \in 1 .. Len(a) : (a \o t)[k] = a[k]
            /\ \A k \in 1 .. Len(t) : (a \o t)[Len(a) + k] = t[k]
        <4>1. a \in Seq(S) /\ t \in Seq(S)  BY <1>3, <1>4
        <4> QED  BY ONLY <4>1
      <3>2. Len(a) = 1 /\ Len(t) = Len(d) - 1  BY <1>3, <1>4
      <3> QED  BY <2>1, <3>1, <3>2
    <2>2. u \in Seq(S) /\ Len(u) = Len(d)  BY <1>1, <2>0
    <2>3. \A k \in 1 .. Len(d) : u[k] = d[k]
      <3> TAKE k \in 1 .. Len(d)
      <3>1. CASE k = 1  BY <1>3, <2>0, <3>1
      <3>2. CASE k # 1
        <4>1. k - 1 \in 1 .. Len(d) - 1 /\ (k - 1) + 1 = k /\ 1 + (k - 1) = k
          BY <1>1, <3>2
        <4>2. u[1 + (k - 1)] = t[k - 1]  BY <2>0, <4>1
        <4> QED  BY <1>4, <4>1, <4>2
      <3> QED  BY <3>1, <3>2
    <2> QED  BY <2>1, <2>2, <2>3, Same
  <1>6. Len(d) = 1 => a = d
    <2>1. ASSUME Len(d) = 1 PROVE a = d
      <3>1. \A k \in 1 .. 1 : a[k] = d[k]  BY <1>3
      <3> QED  BY <1>3, <2>1, <3>1, Same
    <2> QED  BY <2>1
  <1>7. (Len(d) = 1 <=> t = << >>) /\ (Len(d) > 1 <=> t # << >>)
    <2>1. t = << >> <=> Len(t) = 0  BY <1>4
    <2> QED  BY <1>1, <1>4, <2>1
  <1>8. t = SubSeq(d, 2, Len(d))
    <2>1. PICK u : u = SubSeq(d, 2, Len(d))  OBVIOUS
    <2>2. u \in Seq(S) /\ Len(u) = Len(d) - 1 /\ \A k \in 1 .. Len(d) - 1 : u[k] = d[k + 1]
      <3>1. /\ Len(d) + 1 - 2 = Len(d) - 1 /\ 2 <= Len(d) + 1
            /\ \A k \in 1 .. Len(d) - 1 : k + 2 - 1 = k + 1
        BY <1>1
      <3> QED  BY <1>1, <2>1, <3>1, Piece
    <2> QED  BY <1>1, <1>4, <2>1, <2>2, Same
  <1>9. a # << >>  BY <1>3
  <1> QED  BY <1>1, <1>2, <1>3, <1>4, <1>5, <1>6, <1>7, <1>8, <1>9

\* One more element than a part of a sequence has.
LEMMA PartGrows ==
  ASSUME NEW d, IsSeq(d), NEW b, IsSeq(b), NEW k \in Nat, k < Len(d), Len(b) <= k,
         Len(b) = k => b = SubSeq(d, 1, k)
  PROVE  LET m == b \o SubSeq(d, k + 1, k + 1)
         IN  /\ IsSeq(m) /\ Len(m) = Len(b) + 1 /\ Len(b) \in Nat
             /\ Len(m) = k + 1 => m = SubSeq(d, 1, k + 1)
  <1>1. /\ IsSeq(SubSeq(d, k + 1, k + 1)) /\ Len(SubSeq(d, k + 1, k + 1)) = 1
        /\ SubSeq(d, 1, k) \o SubSeq(d, k + 1, k + 1) = SubSeq(d, 1, k + 1)
    BY Pieces
  <1>2. PICK o : o = SubSeq(d, k + 1, k + 1)  OBVIOUS
  <1>3. IsSeq(b \o o) /\ Len(b \o o) = Len(b) + 1 /\ Len(b) \in Nat  BY <1>1, <1>2, Joins
  <1>4. Len(b \o o) = k + 1 => Len(b) = k  BY <1>3
  <1> QED  BY <1>1, <1>2, <1>3, <1>4

-----------------------------------------------------------------------------
(* Objects.                                                                *)

\* The answers of the SDO server, and none that says the call failed.
SdoCmds == {"UP_RES", "SEG_UP_RES", "DOWN_RES", "SEG_DOWN_RES", "ABORT", "failed"}

Object == store[job.obj]

SdoRequest(m) ==
    /\ m.cmd \in {"UP_REQ", "DOWN_INIT"} => m.obj \in Objects
    /\ m.cmd \in {"DOWN_INIT", "SEG_DOWN_REQ"} => IsSeq(m.data) /\ m.data # << >>

SdoTyped ==
    /\ DOMAIN store = Objects /\ \A o \in Objects : IsSeq(store[o]) /\ store[o] # << >>
    /\ SdoRequest(request) /\ SdoRequest(sm0)
    /\ xfer.dir = "up" => IsSeq(xfer.rest) /\ xfer.rest # << >>
    /\ xfer.dir = "down" => /\ {"dir", "obj", "size", "data", "toggle"} \subseteq DOMAIN xfer
                            /\ xfer.obj \in Objects /\ IsSeq(xfer.data) /\ xfer.data # << >>

UpJob ==
    /\ {"kind", "obj", "psize", "buf", "SDOlen", "ret"} \subseteq DOMAIN job
    /\ job.obj \in Objects /\ job.psize \in Nat

DownJob ==
    /\ {"kind", "obj", "data", "rest", "toggle", "ret"} \subseteq DOMAIN job
    /\ job.obj \in Objects /\ job.toggle \in BOOLEAN
    /\ IsSeq(job.data) /\ job.data # << >> /\ job.rest \in Seq(Elements(job.data))

\* A read asks for the object and gets its first chunk, with the others to
\* be asked for.
UpReqs == {UploadReq(job.obj)}
UpAnswers ==
    {Abort} \cup {m \in {UploadRes(job.obj, Len(Object), SubSeq(Object, 1, 1))} :
                    xfer.dir = "up" => xfer.rest = Tail(Object)}
UpExchange == Exchange(SdoCmds, UpReqs, UpAnswers)

\* In a read of which a call has failed, that is what comes next.
Uploading ==
    /\ UpJob
    /\ fails > 0 => \/ pc = "drain"
                    \/ pc = "handle" /\ got = Failed
                    \/ pc = "idle" /\ job.ret # "ok"
    /\ UpExchange
    /\ pc # "idle" \/ job.ret # "ok" => job.buf = << >>
    /\ Live /\ pc = "idle" /\ job.ret = "ok" =>
         job.buf = Object /\ Len(Object) <= job.psize /\ sm0 = NoMsg

Segments == [k \in 1 .. Len(Object) |-> SegUploadRes(SubSeq(Object, k, k), k < Len(Object))]
SegReqs == {SegUploadReq(t) : t \in BOOLEAN}
SegAnswers == {Abort} \cup {Segments[k] : k \in 1 .. Len(Object)}
SegExchange == Exchange(SdoCmds, SegReqs, SegAnswers)

\* Of k chunks that came no more than k are copied, and if none is missing
\* they are the first of the object.
Gotten(k) ==
    /\ Len(job.buf) <= k
    /\ Len(job.buf) = k => job.buf = SubSeq(Object, 1, k)

\* No segment comes any more.
Missed ==
    \/ pc \in Waits /\ Calm(SdoCmds)
    \/ pc = "handle" /\ got.cmd # "SEG_UP_RES"
    \/ pc = "idle" /\ job.ret # "ok"

\* The slave has sent the last one of the chunks, and of these the master has
\* read base, or lost them.
UploadsTo(base, last) ==
    /\ Brings(Line, {"SEG_UP_RES"}, Segments, base, last)
    /\ ~gone /\ xfer.dir = "up" =>
         last < Len(Object) /\ xfer.rest = SubSeq(Object, last + 1, Len(Object))
    /\ IF pc = "handle" /\ got.cmd = "SEG_UP_RES"
       THEN /\ base > 0 /\ got = Segments[base] /\ Gotten(base - 1)
            /\ fails = 0 => Len(job.buf) = base - 1
       ELSE /\ Gotten(base)
            /\ fails = 0 => Len(job.buf) = base \/ Missed
    /\ pc = "idle" /\ job.ret = "ok" => base = Len(Object)

Uploads ==
    /\ pc \in {"send", "handle", "idle"} \cup Waits
    /\ sm0 = NoMsg \/ sm0 \in SegReqs
    /\ job.SDOlen = Len(Object) /\ Len(Object) <= job.psize /\ IsSeq(job.buf)
    /\ \E base, last \in 0 .. Len(Object) : UploadsTo(base, last)

UploadingSegments ==
    /\ UpJob /\ "toggle" \in DOMAIN job /\ job.toggle \in BOOLEAN
    /\ pc # "drain" /\ (pc = "send" => request \in SegReqs /\ goesOn = "wait")
    /\ SegExchange
    /\ Quiet => Uploads

\* The slave has all of what is written but what is left.
Storing1(left) ==
    /\ xfer.dir = "down" /\ xfer.obj = job.obj /\ xfer.size = Len(job.data)
    /\ xfer.data \o left = job.data
Kept == IF job.rest = << >> THEN Object = job.data ELSE Storing1(job.rest)

\* A write sends the first chunk, and then one after the other.
DownReqs == {DownloadReq(job.obj, Len(job.data), SubSeq(job.data, 1, 1))}
DownAnswers == {Abort} \cup {m \in {DownloadRes(job.obj)} : Kept}
DownExchange == Exchange(SdoCmds, DownReqs, DownAnswers)

NextPieces == {<<x>> : x \in {y \in Elements(job.data) : Storing1(<<y>> \o job.rest)}}
StoreReqs == [cmd : {"SEG_DOWN_REQ"}, toggle : BOOLEAN, data : NextPieces, more : {job.rest # << >>}]
StoreAnswers == {Abort} \cup {m \in {SegDownloadRes} : Kept}
StoreExchange == Exchange(SdoCmds, StoreReqs, StoreAnswers)

IsStored == Live /\ pc = "idle" /\ job.ret = "ok" => sm0 = NoMsg /\ Object = job.data

Downloading == DownJob /\ job.rest = Tail(job.data) /\ DownExchange /\ IsStored

DownloadingSegments == DownJob /\ pc # "drain" /\ StoreExchange /\ IsStored

ObjectInv ==
    /\ SdoTyped
    /\ job.kind = "SDOread" => Uploading
    /\ job.kind = "SDOreadSegments" => UploadingSegments
    /\ job.kind = "SDOwrite" => Downloading
    /\ job.kind = "SDOwriteSegments" => DownloadingSegments

SInv == Well /\ ObjectInv

-----------------------------------------------------------------------------
(* An object transfer and the mailbox.                                     *)

LEMMA SdoNone ==
  /\ SdoCmds \cap NoAnswers = {} /\ SdoCmds \cap Series = {} /\ {"SEG_UP_RES"} \subseteq SdoCmds
  /\ {"SEG_UP_RES"} \cap NoAnswers = {} /\ {"SEG_UP_RES"} \cap Series = {}
  /\ NoMsg.cmd \notin SdoReqs /\ Failed.cmd \in SdoCmds /\ Failed.cmd # "SEG_UP_RES"
  BY DEF SdoCmds, SdoReqs, NoAnswers, Series, NoMsg, Failed

LEMMA SdoAsks ==
  /\ \A r \in UpReqs : r.cmd \in SdoReqs
  /\ \A r \in SegReqs : r.cmd = "SEG_UP_REQ" /\ r.cmd \in SdoReqs
  /\ \A r \in DownReqs : r.cmd \in SdoReqs
  /\ \A r \in StoreReqs : r.cmd \in SdoReqs
  <1>1. \A r \in UpReqs : r.cmd \in SdoReqs  BY DEF UpReqs, SdoReqs, UploadReq
  <1>2. \A r \in SegReqs : r.cmd = "SEG_UP_REQ" /\ r.cmd \in SdoReqs
    BY DEF SegReqs, SdoReqs, SegUploadReq
  <1>3. \A r \in DownReqs : r.cmd \in SdoReqs  BY DEF DownReqs, SdoReqs, DownloadReq
  <1>4. ASSUME NEW r \in StoreReqs PROVE r.cmd \in SdoReqs
    <2>1. r.cmd = "SEG_DOWN_REQ"  BY DEF StoreReqs
    <2> QED  BY <2>1 DEF SdoReqs
  <1> QED  BY <1>1, <1>2, <1>3, <1>4

\* What the exchanges are about stays with the transfer and the server.
LEMMA SetsStay ==
  ASSUME UNCHANGED <<job, store, xfer>>
  PROVE  /\ UpReqs' = UpReqs /\ UpAnswers' = UpAnswers
         /\ SegReqs' = SegReqs /\ SegAnswers' = SegAnswers /\ Segments' = Segments
         /\ DownReqs' = DownReqs /\ DownAnswers' = DownAnswers
         /\ StoreReqs' = StoreReqs /\ StoreAnswers' = StoreAnswers
         /\ Object' = Object
  <1>1. Object' = Object  BY DEF Object
  <1>2. Segments' = Segments  BY <1>1 DEF Segments
  <1>3. Kept' <=> Kept  BY <1>1 DEF Kept, Storing1
  <1>4. UpReqs' = UpReqs /\ UpAnswers' = UpAnswers  BY <1>1 DEF UpReqs, UpAnswers
  <1>5. SegReqs' = SegReqs /\ SegAnswers' = SegAnswers  BY <1>1, <1>2 DEF SegReqs, SegAnswers
  <1>6. DownReqs' = DownReqs /\ DownAnswers' = DownAnswers  BY <1>3 DEF DownReqs, DownAnswers
  <1>7. StoreReqs' = StoreReqs /\ StoreAnswers' = StoreAnswers
    BY <1>3 DEF StoreReqs, NextPieces, StoreAnswers, Storing1
  <1> QED  BY <1>1, <1>2, <1>4, <1>5, <1>6, <1>7

LEMMA ExchangesStay ==
  ASSUME UNCHANGED <<job, store, xfer>>,
         \A R, A : (\A r \in R : r.cmd \in SdoReqs) /\ Exchange(SdoCmds, R, A)
                     => Exchange(SdoCmds, R, A)'
  PROVE  /\ UpExchange => UpExchange'
         /\ SegExchange => SegExchange'
         /\ DownExchange => DownExchange'
         /\ StoreExchange => StoreExchange'
  <1>1. ASSUME UpExchange PROVE UpExchange'
    <2>1. PICK R, A : R = UpReqs /\ A = UpAnswers  OBVIOUS
    <2>2. (\A r \in R : r.cmd \in SdoReqs) /\ Exchange(SdoCmds, R, A)
      BY <1>1, <2>1, SdoAsks DEF UpExchange
    <2>3. Exchange(SdoCmds, R, A)'  BY <2>2
    <2>4. R = UpReqs' /\ A = UpAnswers'  BY <2>1, SetsStay
    <2> QED  BY <2>3, <2>4 DEF UpExchange
  <1>2. ASSUME SegExchange PROVE SegExchange'
    <2>1. PICK R, A : R = SegReqs /\ A = SegAnswers  OBVIOUS
    <2>2. (\A r \in R : r.cmd \in SdoReqs) /\ Exchange(SdoCmds, R, A)
      BY <1>2, <2>1, SdoAsks DEF SegExchange
    <2>3. Exchange(SdoCmds, R, A)'  BY <2>2
    <2>4. R = SegReqs' /\ A = SegAnswers'  BY <2>1, SetsStay
    <2> QED  BY <2>3, <2>4 DEF SegExchange
  <1>3. ASSUME DownExchange PROVE DownExchange'
    <2>1. PICK R, A : R = DownReqs /\ A = DownAnswers  OBVIOUS
    <2>2. (\A r \in R : r.cmd \in SdoReqs) /\ Exchange(SdoCmds, R, A)
      BY <1>3, <2>1, SdoAsks DEF DownExchange
    <2>3. Exchange(SdoCmds, R, A)'  BY <2>2
    <2>4. R = DownReqs' /\ A = DownAnswers'  BY <2>1, SetsStay
    <2> QED  BY <2>3, <2>4 DEF DownExchange
  <1>4. ASSUME StoreExchange PROVE StoreExchange'
    <2>1. PICK R, A : R = StoreReqs /\ A = StoreAnswers  OBVIOUS
    <2>2. (\A r \in R : r.cmd \in SdoReqs) /\ Exchange(SdoCmds, R, A)
      BY <1>4, <2>1, SdoAsks DEF StoreExchange
    <2>3. Exchange(SdoCmds, R, A)'  BY <2>2
    <2>4. R = StoreReqs' /\ A = StoreAnswers'  BY <2>1, SetsStay
    <2> QED  BY <2>3, <2>4 DEF StoreExchange
  <1> QED  BY <1>1, <1>2, <1>3, <1>4

\* What a call does after the mailbox is drained.
LEMMA CallMoves ==
  ASSUME Typed, MasterMail \/ HookFragment, pc # "drain"
  PROVE  /\ pc' # "send" /\ dirty' = dirty
         /\ fails' = fails \/ (pc' = "handle" /\ got' = Failed)
         /\ repeats = "abandoned" => repeats' = "abandoned"
  <1>0. goesOn \in {"wait", "handle", "empty"}  BY DEF Typed, MailTypeOK
  <1> USE DEF Fails, Hand, ghosts
  <1>1. CASE SendOk \/ SendUnnoticed \/ SendFails \/ Emptied \/ EmptyExpires
    BY <1>0, <1>1 DEF SendOk, SendUnnoticed, SendFails, Emptied, EmptyExpires
  <1>2. CASE Available \/ TimerExpires \/ ReadAnswer \/ ReadNotice
    BY <1>2 DEF Available, TimerExpires, ReadAnswer, ReadNotice
  <1>3. CASE ReadLost \/ AskRepeat \/ RepeatAcknowledged
    BY <1>3 DEF ReadLost, AskRepeat, RepeatAcknowledged
  <1>4. CASE HookFragment  BY <1>4 DEF HookFragment
  <1> QED
    BY <1>1, <1>2, <1>3, <1>4 DEF MasterMail, DrainNothing, DrainMessage, DrainLost

LEMMA SdoMailTyped ==
  ASSUME SdoTyped, request' \in {request, NoMsg}, sm0' \in {sm0, request, NoMsg},
         UNCHANGED sdoVars
  PROVE  SdoTyped'
  BY DEF SdoTyped, SdoRequest, sdoVars, NoMsg

\* The segments of a read while the master sends, waits and reads.
LEMMA UploadsMail ==
  ASSUME IInv, IInv', Quiet, Quiet', pc # "drain", MasterMail \/ HookFragment,
         pc = "send" => goesOn = "wait" /\ request \in SegReqs,
         SegExchange, Uploads, UNCHANGED <<store, xfer>>
  PROVE  Uploads'
  <1>1. Typed /\ pc \notin {"idle", "handle"}  BY MailPlaces DEF IInv
  <1>2. pc \in {"send"} \cup Waits  BY <1>1 DEF Uploads
  <1>3. /\ pc' \in {"handle"} \cup Waits /\ (pc = "send" => pc' \in {"handle", "wait"})
        /\ sm0' = sm0 \/ (pc = "send" /\ sm0' = request)
        /\ ~ReadAnswer /\ pc' = "handle" => got' = Failed /\ fails' > 0
        /\ ReadAnswer => pc = "read" /\ pc' = "handle" /\ fails' = fails
        /\ UNCHANGED <<job, gone>>
        /\ dirty' = dirty /\ fails' >= fails /\ fails \in 0 .. 2 /\ fails' \in 0 .. 2
    BY <1>1, <1>2, WaitsMove
  <1>4. Object' = Object /\ Segments' = Segments /\ SegReqs' = SegReqs
    BY <1>3, SetsStay
  <1>5. fails' = 0 => fails = 0 /\ (pc' = "handle" => ReadAnswer)  BY <1>3
  <1>6. Flying(SdoCmds)' \subseteq Flying(SdoCmds)  BY SdoNone, MailFlies
  <1>7. PICK base, last \in 0 .. Len(Object) : UploadsTo(base, last)
    BY DEF Uploads
  <1>8. Len(Object) \in Nat /\ base \in Nat /\ last \in Nat /\ Len(job.buf) \in Nat
    <2>1. PICK S : job.buf \in Seq(S)  BY DEF Uploads, IsSeq
    <2>2. Len(Object) \in Nat
      BY DEF UploadsTo
    <2> QED  BY <1>7, <2>1, <2>2
  <1>9. /\ Gotten(base) /\ Brings(Line, {"SEG_UP_RES"}, Segments, base, last)
        /\ fails = 0 => Len(job.buf) = base \/ (pc \in Waits /\ Calm(SdoCmds))
        /\ ~gone /\ xfer.dir = "up" =>
             last < Len(Object) /\ xfer.rest = SubSeq(Object, last + 1, Len(Object))
    BY <1>1, <1>7 DEF UploadsTo, Missed
  <1>10. SeriesMoves({"SEG_UP_RES"}, SdoCmds, Segments, base, last)
    BY <1>8, <1>9, SdoNone, SeriesMail
  <1>11. ASSUME fails = 0, pc \in Waits
         PROVE  Comes(SdoCmds, SegReqs, SegAnswers) /\ (Calm(SdoCmds) => Calm(SdoCmds)')
    <2>1. Live  BY <1>11 DEF Live, Quiet
    <2>2. Comes(SdoCmds, SegReqs, SegAnswers)  BY <1>11, <2>1 DEF SegExchange, Exchange
    <2>3. sm0' = sm0  BY <1>3, <1>11 DEF Waits
    <2> QED  BY <1>6, <2>2, <2>3 DEF Calm
  <1>12. Gotten(base)' /\ (Len(job.buf) <= base => Gotten(base + 1)')
    BY <1>3, <1>4, <1>8, <1>9 DEF Gotten
  <1>13. SUFFICES \E b, l \in 0 .. Len(Object) : UploadsTo(b, l)'
    <2>1. sm0' = NoMsg \/ sm0' \in SegReqs  BY <1>3 DEF Uploads
    <2> QED  BY <1>3, <1>4, <1>13, <2>1 DEF Uploads
  <1>14. /\ pc' # "idle"
         /\ ~gone' /\ xfer'.dir = "up" =>
             last < Len(Object') /\ xfer'.rest = SubSeq(Object', last + 1, Len(Object'))
    BY <1>3, <1>4, <1>9 DEF Waits
  <1>15. CASE gone' /\ ~ReadAnswer /\ Brings(Line', {"SEG_UP_RES"}, Segments, base, base)
    <2>1. ~(pc' = "handle" /\ got'.cmd = "SEG_UP_RES")  BY <1>3, <1>15 DEF Failed
    <2>2. fails' = 0 => Len(job'.buf) = base \/ Missed'
      BY <1>3, <1>5, <1>9, <1>11, <1>15 DEF Missed
    <2>3. UploadsTo(base, base)'
      BY <1>4, <1>12, <1>14, <1>15, <2>1, <2>2 DEF UploadsTo
    <2> QED  BY <2>3
  <1>16. CASE /\ Brings(Line', {"SEG_UP_RES"}, Segments, base, last)
              /\ ReadAnswer => got'.cmd \notin {"SEG_UP_RES"}
    <2>1. ~(pc' = "handle" /\ got'.cmd = "SEG_UP_RES")  BY <1>3, <1>16 DEF Failed
    <2>2. fails' = 0 => Len(job'.buf) = base \/ Missed'
      BY <1>3, <1>5, <1>9, <1>11, <1>16 DEF Missed
    <2>3. UploadsTo(base, last)'
      BY <1>4, <1>12, <1>14, <1>16, <2>1, <2>2 DEF UploadsTo
    <2> QED  BY <2>3
  <1>17. CASE /\ base < last /\ Brings(Line', {"SEG_UP_RES"}, Segments, base + 1, last)
              /\ Flying(SdoCmds) # {} /\ (Single(SdoCmds) => Flying(SdoCmds)' = {})
              /\ \/ ReadAnswer /\ got' = Segments[base + 1] /\ got'.cmd \in {"SEG_UP_RES"}
                 \/ ~ReadAnswer /\ pc \in Waits /\ pc' = pc /\ fails' = fails
                 \/ ~ReadAnswer /\ pc \in Waits /\ pc' = "handle" /\ fails' > 0
    <2>1. base + 1 \in 0 .. Len(Object) /\ base + 1 > 0 /\ (base + 1) - 1 = base  BY <1>7, <1>8, <1>17
    <2>2. fails = 0 => Len(job.buf) = base  BY <1>9, <1>17 DEF Calm
    <2>3. Gotten(base + 1)'  BY <1>9, <1>12 DEF Gotten
    <2>4. CASE ReadAnswer /\ got' = Segments[base + 1] /\ got'.cmd \in {"SEG_UP_RES"}
      <3>1. fails' = 0 => Len(job'.buf) = base  BY <1>3, <1>5, <2>2
      <3>2. UploadsTo(base + 1, last)'
        BY <1>3, <1>4, <1>12, <1>14, <1>17, <2>1, <2>4, <3>1 DEF UploadsTo
      <3> QED  BY <2>1, <3>2
    <2>5. CASE ~ReadAnswer /\ pc \in Waits /\ pc' = pc /\ fails' = fails
      <3>1. ASSUME fails' = 0 PROVE Missed'
        <4>1. sm0 = NoMsg /\ Single(SdoCmds)  BY <1>5, <1>11, <1>17, <2>5, <3>1 DEF Comes
        <4>2. sm0' = NoMsg  BY <1>3, <2>5, <4>1 DEF Waits
        <4> QED  BY <1>17, <2>5, <4>1, <4>2 DEF Missed, Calm
      <3>2. pc' # "handle"  BY <2>5 DEF Waits
      <3>3. UploadsTo(base + 1, last)'
        BY <1>4, <1>14, <1>17, <2>3, <3>1, <3>2 DEF UploadsTo
      <3> QED  BY <2>1, <3>3
    <2>6. CASE ~ReadAnswer /\ pc \in Waits /\ pc' = "handle" /\ fails' > 0
      <3>1. got'.cmd # "SEG_UP_RES" /\ fails' # 0  BY <1>3, <2>6 DEF Failed
      <3>2. UploadsTo(base + 1, last)'
        BY <1>4, <1>14, <1>17, <2>3, <3>1 DEF UploadsTo
      <3> QED  BY <2>1, <3>2
    <2> QED  BY <1>17, <2>4, <2>5, <2>6
  <1> QED  BY <1>10, <1>15, <1>16, <1>17 DEF SeriesMoves

\* Where nothing is in flight of the answers, nothing is asked either ...
LEMMA CalmStays ==
  ASSUME Calm(SdoCmds), sm0' \in {sm0, NoMsg}, Flying(SdoCmds)' \subseteq Flying(SdoCmds)
  PROVE  Calm(SdoCmds)'
  BY DEF Calm

\* The segments of a read while the slave publishes, repeats, reports, or is
\* gone.
LEMMA UploadsSlave ==
  ASSUME IInv, IInv', Quiet, Quiet', pc # "drain", SlaveMail, SegExchange, Uploads,
         UNCHANGED <<store, xfer>>
  PROVE  Uploads'
  <1>1. /\ UNCHANGED <<pc, got, fails, job>> /\ sm0' \in {sm0, NoMsg} /\ ~ReadAnswer
        /\ dirty' = dirty /\ fails \in 0 .. 2
        /\ gone' = gone \/ gone'
    BY DEF SlaveMail, Publish, Repeat, Notify, Vanish, master, ghosts, transfer, ReadAnswer,
       Hand, environment, IInv, Typed, MailTypeOK
  <1>2. gone => gone'
    BY DEF SlaveMail, Publish, Repeat, Notify, Vanish, environment
  <1>3. Object' = Object /\ Segments' = Segments /\ SegReqs' = SegReqs
    BY <1>1, SetsStay
  <1>4. Flying(SdoCmds)' \subseteq Flying(SdoCmds)  BY SdoNone, MailFlies
  <1>5. PICK base, last \in 0 .. Len(Object) : UploadsTo(base, last)
    BY DEF Uploads
  <1>6. Len(Object) \in Nat /\ base \in Nat /\ last \in Nat /\ Len(job.buf) \in Nat
    <2>1. PICK S : job.buf \in Seq(S)  BY DEF Uploads, IsSeq
    <2>2. Len(Object) \in Nat
      BY DEF UploadsTo
    <2> QED  BY <1>5, <2>1, <2>2
  <1>7. Brings(Line, {"SEG_UP_RES"}, Segments, base, last)  BY <1>5 DEF UploadsTo
  <1>8. SeriesMoves({"SEG_UP_RES"}, SdoCmds, Segments, base, last)
    BY <1>6, <1>7, SdoNone, SeriesMail
  <1>9. Missed => Missed'  BY <1>1, <1>4, CalmStays DEF Missed
  <1>10. SUFFICES \E b, l \in 0 .. Len(Object) : UploadsTo(b, l)'
    <2>1. sm0' = NoMsg \/ sm0' \in SegReqs  BY <1>1 DEF Uploads
    <2> QED  BY <1>1, <1>3, <1>10, <2>1 DEF Uploads
  <1>11. Gotten(base)' = Gotten(base) /\ Gotten(base - 1)' = Gotten(base - 1)
    BY <1>1, <1>3 DEF Gotten
  <1>12. CASE gone' /\ Brings(Line', {"SEG_UP_RES"}, Segments, base, base)
    <2>1. UploadsTo(base, base)'
      BY <1>1, <1>3, <1>5, <1>9, <1>11, <1>12 DEF UploadsTo
    <2> QED  BY <1>5, <2>1
  <1>13. CASE Brings(Line', {"SEG_UP_RES"}, Segments, base, last)
    <2>1. UploadsTo(base, last)'
      BY <1>1, <1>2, <1>3, <1>5, <1>9, <1>11, <1>13 DEF UploadsTo
    <2> QED  BY <1>5, <2>1
  <1>14. CASE /\ base < last /\ Brings(Line', {"SEG_UP_RES"}, Segments, base + 1, last)
              /\ Flying(SdoCmds) # {} /\ (Single(SdoCmds) => Flying(SdoCmds)' = {})
              /\ pc \in Waits
    <2>1. base + 1 \in 0 .. Len(Object) /\ pc \notin {"handle", "idle"}  BY <1>6, <1>14 DEF Waits
    <2>2. Gotten(base)  BY <1>5, <2>1 DEF UploadsTo
    <2>3. Gotten(base + 1)'  BY <1>1, <1>3, <1>6, <2>2 DEF Gotten
    <2>4. ASSUME fails = 0 PROVE Missed'
      <3>1. Live  BY <1>14, <2>4 DEF Live, Quiet
      <3>2. sm0 = NoMsg /\ Single(SdoCmds)
        BY <1>14, <3>1 DEF SegExchange, Exchange, Comes
      <3> QED  BY <1>1, <1>14, <3>2 DEF Missed, Calm
    <2>5. UploadsTo(base + 1, last)'
      BY <1>1, <1>2, <1>3, <1>5, <1>14, <2>1, <2>3, <2>4 DEF UploadsTo
    <2> QED  BY <1>5, <2>1, <2>5
  <1> QED  BY <1>1, <1>8, <1>12, <1>13, <1>14 DEF SeriesMoves

\* ... while another protocol of the slave answers or sends.
LEMMA UploadsOther ==
  ASSUME Typed, NEW cmds, cmds \cap SdoReqs = {}, OtherServer(cmds, Series), Uploads,
         UNCHANGED <<store, xfer>>
  PROVE  Uploads'
  <1>1. UNCHANGED <<pc, got, fails, job, gone, lastOut, taken, sm1>>
    BY DEF OtherServer, master, ghosts, transfer, environment
  <1>2. sm0' = sm0
    <2>1. sm0 = NoMsg \/ sm0.cmd \in SdoReqs  BY SdoAsks DEF Uploads
    <2> QED  BY <2>1 DEF OtherServer
  <1>3. Object' = Object /\ Segments' = Segments /\ SegReqs' = SegReqs
    BY <1>1, SetsStay
  <1>4. outq' = outq \/ \E m : m.cmd \in Series /\ outq' = Append(outq, m)
    BY <1>2 DEF OtherServer
  <1>5. Held' <=> Held  BY <1>1 DEF Held
  <1>6. Flying(SdoCmds)' \subseteq Flying(SdoCmds)
    <2>1. CASE outq' = outq  BY <1>1, <1>5, <2>1, Lasts
    <2>2. ASSUME NEW m, m.cmd \in Series, outq' = Append(outq, m)
          PROVE  Flying(SdoCmds)' \subseteq Flying(SdoCmds)
      <3>1. m.cmd \notin SdoCmds  BY <2>2, SdoNone
      <3> QED  BY <1>1, <1>5, <2>2, <3>1, OtherQueued
    <2> QED  BY <1>4, <2>1, <2>2
  <1>7. PICK base, last \in 0 .. Len(Object) : UploadsTo(base, last)
    BY DEF Uploads
  <1>8. Brings(Line', {"SEG_UP_RES"}, Segments, base, last)
    <2>1. Brings(Line, {"SEG_UP_RES"}, Segments, base, last)  BY <1>7 DEF UploadsTo
    <2>2. CASE outq' = outq
      <3>1. Line' = Line  BY <1>1, <1>5, <2>2, LineStays
      <3> QED  BY <2>1, <3>1
    <2>3. ASSUME NEW m, m.cmd \in Series, outq' = Append(outq, m)
          PROVE  Brings(Line', {"SEG_UP_RES"}, Segments, base, last)
      <3>1. Line' = Append(Line, m)  BY <1>1, <2>3, LineQueued DEF Typed
      <3>2. m.cmd \notin {"SEG_UP_RES"} /\ base \in Nat /\ last \in Nat
        BY <1>7, <2>3, SdoNone
      <3>3. IsSeq(Line)  BY LineFlies DEF Typed
      <3>4. Brings(Append(Line, m), {"SEG_UP_RES"}, Segments, base, last)
        BY <2>1, <3>2, <3>3, BringsMore
      <3> QED  BY <3>1, <3>4
    <2> QED  BY <1>4, <2>2, <2>3
  <1>9. Missed => Missed'  BY <1>1, <1>2, <1>6, CalmStays DEF Missed
  <1>10. Gotten(base)' = Gotten(base) /\ Gotten(base - 1)' = Gotten(base - 1)
    BY <1>1, <1>3 DEF Gotten
  <1>11. UploadsTo(base, last)'
    BY <1>1, <1>3, <1>7, <1>8, <1>9, <1>10 DEF UploadsTo
  <1> QED  BY <1>1, <1>2, <1>3, <1>7, <1>11 DEF Uploads

\* A step that leaves the transfer and the server where they are, and with
\* them the exchanges and the segments.
LEMMA ObjectStays ==
  ASSUME ObjectInv, UNCHANGED <<pc, request, goesOn, got, job, dirty, fails, repeats>>,
         UNCHANGED sdoVars, sm0' \in {sm0, NoMsg},
         \A R, A : (\A r \in R : r.cmd \in SdoReqs) /\ Exchange(SdoCmds, R, A)
                     => Exchange(SdoCmds, R, A)',
         job.kind = "SDOreadSegments" /\ Quiet /\ Quiet' /\ Uploads => Uploads'
  PROVE  ObjectInv'
  <1>1. SdoTyped'  BY SdoMailTyped DEF ObjectInv
  <1>2. Live' = Live /\ Quiet' = Quiet /\ Object' = Object /\ SegReqs' = SegReqs
    BY SetsStay DEF Live, Quiet, sdoVars
  <1>3. /\ UpExchange => UpExchange'
        /\ SegExchange => SegExchange'
        /\ DownExchange => DownExchange'
        /\ StoreExchange => StoreExchange'
    BY ExchangesStay DEF sdoVars
  <1>4. IsStored => IsStored'  BY <1>2 DEF IsStored
  <1>5. job.kind = "SDOread" => Uploading'
    BY <1>2, <1>3 DEF ObjectInv, Uploading, UpJob
  <1>6. job.kind = "SDOreadSegments" => UploadingSegments'
    BY <1>2, <1>3 DEF ObjectInv, UploadingSegments, UpJob
  <1>7. job.kind = "SDOwrite" => Downloading'
    BY <1>3, <1>4 DEF ObjectInv, Downloading, DownJob
  <1>8. job.kind = "SDOwriteSegments" => DownloadingSegments'
    BY <1>3, <1>4 DEF ObjectInv, DownloadingSegments, DownJob
  <1> QED  BY <1>1, <1>5, <1>6, <1>7, <1>8 DEF ObjectInv

LEMMA ObjectSlaveMail ==
  ASSUME SInv, IInv', SlaveMail, UNCHANGED sdoVars
  PROVE  ObjectInv'
  <1>1. UNCHANGED <<pc, request, goesOn, got, job, dirty, fails, repeats>>
        /\ sm0' \in {sm0, NoMsg}
    BY DEF SlaveMail, Publish, Repeat, Notify, Vanish, master, ghosts, transfer
  <1>2. ASSUME NEW R, NEW A, \A r \in R : r.cmd \in SdoReqs, Exchange(SdoCmds, R, A)
        PROVE  Exchange(SdoCmds, R, A)'
    BY <1>2, SdoNone, ExchangeSlaveMail DEF SInv
  <1>3. ASSUME job.kind = "SDOreadSegments", Quiet, Quiet', Uploads PROVE Uploads'
    <2>1. UploadingSegments  BY <1>3 DEF SInv, ObjectInv
    <2> QED
      BY <1>3, <2>1, UploadsSlave DEF SInv, Well, UploadingSegments, sdoVars
  <1> QED  BY <1>1, <1>2, <1>3, ObjectStays DEF SInv

LEMMA ObjectOtherServer ==
  ASSUME SInv, NEW cmds, cmds \cap SdoReqs = {}, OtherServer(cmds, Series), UNCHANGED sdoVars
  PROVE  ObjectInv'
  <1>1. UNCHANGED <<pc, request, goesOn, got, job, dirty, fails, repeats>>
        /\ sm0' \in {sm0, NoMsg} /\ Typed
    BY DEF OtherServer, master, ghosts, transfer, SInv, Well, IInv
  <1>2. ASSUME NEW R, NEW A, \A r \in R : r.cmd \in SdoReqs, Exchange(SdoCmds, R, A)
        PROVE  Exchange(SdoCmds, R, A)'
    <2>1. \A r \in R : r.cmd \notin cmds  BY <1>2
    <2> QED  BY <1>1, <1>2, <2>1, SdoNone, ExchangeOther
  <1>3. ASSUME Uploads PROVE Uploads'
    BY <1>1, <1>3, UploadsOther DEF sdoVars
  <1> QED  BY <1>1, <1>2, <1>3, ObjectStays DEF SInv

\* Nothing moves: the hook is defined, or the step is none of these.
LEMMA ObjectRests ==
  ASSUME SInv, UNCHANGED <<master, job, outq, lastOut, taken, sm0, sm1, gone, ghosts, sdoVars>>
  PROVE  ObjectInv'
  <1>1. UNCHANGED <<pc, request, goesOn, got, job, dirty, fails, repeats, sm0, outq, lastOut, gone>>
        /\ (Held' <=> Held) /\ UNCHANGED <<store, xfer>>
    BY DEF master, ghosts, Held, sdoVars
  <1>2. ASSUME NEW R, NEW A, Exchange(SdoCmds, R, A) PROVE Exchange(SdoCmds, R, A)'
    <2>1. Flying(SdoCmds)' \subseteq Flying(SdoCmds) /\ (Single(SdoCmds) => Single(SdoCmds)')
      BY <1>1, Lasts
    <2> QED  BY <1>1, <1>2, <2>1, ExchangeStays
  <1>3. ASSUME Uploads PROVE Uploads'
    <2>1. Line' = Line /\ Flying(SdoCmds)' \subseteq Flying(SdoCmds)  BY <1>1, LineStays, Lasts
    <2>2. Object' = Object /\ Segments' = Segments /\ SegReqs' = SegReqs  BY <1>1, SetsStay
    <2>3. PICK base, last \in 0 .. Len(Object) : UploadsTo(base, last)
      BY <1>3 DEF Uploads
    <2>4. Missed => Missed'  BY <1>1, <2>1, CalmStays DEF Missed
    <2>5. Gotten(base)' = Gotten(base) /\ Gotten(base - 1)' = Gotten(base - 1)
      BY <1>1, <2>2 DEF Gotten
    <2>6. UploadsTo(base, last)'
      BY <1>1, <2>1, <2>2, <2>3, <2>4, <2>5 DEF UploadsTo
    <2> QED  BY <1>1, <1>3, <2>2, <2>3, <2>6 DEF Uploads
  <1> QED  BY <1>1, <1>2, <1>3, ObjectStays DEF SInv

\* A transfer of another protocol begins, goes on or ends.
LEMMA ObjectOtherClient ==
  ASSUME SInv, UNCHANGED sdoVars, sm0' = sm0, job'.kind \notin SdoKinds,
         request' = request \/ request'.cmd \notin SdoReqs
  PROVE  ObjectInv'
  <1>1. SdoTyped'  BY DEF SInv, ObjectInv, SdoTyped, SdoRequest, SdoReqs, sdoVars
  <1> QED  BY <1>1 DEF ObjectInv, SdoKinds

LEMMA ObjectMail ==
  ASSUME SInv, IInv', MasterMail \/ HookFragment, UNCHANGED sdoVars
  PROVE  ObjectInv'
  <1>1. Typed /\ pc \notin {"idle", "handle"} /\ pc' \notin {"idle", "drain"} /\ job' = job
        /\ (pc = "drain" => Drained /\ pc' = "send")
    BY MailPlaces DEF SInv, Well, IInv
  <1>2. SdoTyped'  BY MailRequests, SdoMailTyped DEF SInv, ObjectInv
  <1>3. /\ UpExchange => UpExchange'
        /\ SegExchange => SegExchange'
        /\ DownExchange => DownExchange'
        /\ StoreExchange => StoreExchange'
    <2>1. ASSUME NEW R, NEW A, Exchange(SdoCmds, R, A) PROVE Exchange(SdoCmds, R, A)'
      BY <2>1, SdoNone, ExchangeMail DEF SInv
    <2> QED  BY <1>1, <2>1, ExchangesStay DEF sdoVars
  <1>4. /\ pc # "drain" => /\ pc' # "send" /\ dirty' = dirty
                           /\ fails' = fails \/ (pc' = "handle" /\ got' = Failed)
                           /\ repeats = "abandoned" => repeats' = "abandoned"
        /\ pc = "drain" => fails' = 0
    BY <1>1, CallMoves DEF Drained
  <1>5. job.kind = "SDOread" => Uploading'
    BY <1>1, <1>3, <1>4 DEF SInv, ObjectInv, Uploading, UpJob
  <1>6. job.kind = "SDOreadSegments" => UploadingSegments'
    <2> SUFFICES ASSUME job.kind = "SDOreadSegments" PROVE UploadingSegments'  OBVIOUS
    <2>1. UploadingSegments /\ pc # "drain"  BY DEF SInv, ObjectInv, UploadingSegments
    <2>2. ASSUME Quiet' PROVE Uploads'
      <3>1. Quiet  BY <1>4, <2>1, <2>2 DEF Quiet
      <3> QED
        BY <2>1, <2>2, <3>1, UploadsMail DEF SInv, Well, UploadingSegments, sdoVars
    <2> QED  BY <1>1, <1>3, <1>4, <2>1, <2>2 DEF UploadingSegments, UpJob
  <1>7. IsStored'  BY <1>1 DEF IsStored
  <1>8. job.kind = "SDOwrite" => Downloading'
    BY <1>1, <1>3, <1>7 DEF SInv, ObjectInv, Downloading, DownJob
  <1>9. job.kind = "SDOwriteSegments" => DownloadingSegments'
    BY <1>1, <1>3, <1>7 DEF SInv, ObjectInv, DownloadingSegments, DownJob
  <1> QED  BY <1>1, <1>2, <1>5, <1>6, <1>8, <1>9 DEF ObjectInv

-----------------------------------------------------------------------------
(* The SDO server of the slave.                                            *)

\* What any step of it leaves alone, and that it answers.
LEMMA ObjectServed ==
  ASSUME SdoServer
  PROVE  /\ sm0 # NoMsg /\ sm0.cmd \in SdoReqs /\ sm0' = NoMsg /\ ~gone
         /\ pc' = pc /\ request' = request /\ goesOn' = goesOn /\ got' = got /\ job' = job
         /\ dirty' = dirty /\ fails' = fails /\ repeats' = repeats /\ gone' = gone
         /\ lastOut' = lastOut /\ taken' = taken /\ sm1' = sm1
         /\ store' = store \/ sm0.cmd \in {"DOWN_INIT", "SEG_DOWN_REQ"}
  <1> USE DEF Answers, Take, SdoReqs, master, ghosts, transfer, environment
  <1>1. CASE ServeUpload  BY <1>1 DEF ServeUpload
  <1>2. CASE ServeSegUpload  BY <1>2 DEF ServeSegUpload
  <1>3. CASE ServeDownload  BY <1>3 DEF ServeDownload
  <1>4. CASE ServeSegDownload  BY <1>4 DEF ServeSegDownload
  <1>5. CASE Refuse  BY <1>5 DEF Refuse
  <1> QED  BY <1>1, <1>2, <1>3, <1>4, <1>5 DEF SdoServer

LEMMA FirstAndOthers ==
  ASSUME NEW d, IsSeq(d), d # << >>
  PROVE  /\ IsSeq(SubSeq(d, 1, 1)) /\ Len(SubSeq(d, 1, 1)) = 1 /\ SubSeq(d, 1, 1) # << >>
         /\ IsSeq(Tail(d)) /\ SubSeq(d, 1, 1) \o Tail(d) = d
         /\ Len(d) = 1 => SubSeq(d, 1, 1) = d
         /\ Len(d) = 1 <=> Tail(d) = << >>
         /\ Len(d) > 1 <=> Tail(d) # << >>
         /\ Tail(d) = SubSeq(d, 2, Len(d))
         /\ Len(d) \in Nat /\ Len(d) > 0
  <1>1. PICK S : d \in Seq(S)  BY DEF IsSeq
  <1> QED  BY <1>1, FirstAndRest, Sequence

LEMMA SdoServerTyped ==
  ASSUME SdoTyped, SdoServer
  PROVE  SdoTyped'
  <1>1. SdoRequest(request') /\ SdoRequest(sm0')
    <2>1. NoMsg.cmd \notin {"UP_REQ", "DOWN_INIT", "SEG_DOWN_REQ"}  BY DEF NoMsg
    <2>2. sm0' = NoMsg /\ request' = request  BY ObjectServed
    <2> QED  BY <2>1, <2>2 DEF SdoTyped, SdoRequest
  <1>2. SUFFICES /\ DOMAIN store' = Objects
                 /\ \A o \in Objects : IsSeq(store'[o]) /\ store'[o] # << >>
                 /\ xfer'.dir = "up" => IsSeq(xfer'.rest) /\ xfer'.rest # << >>
                 /\ xfer'.dir = "down" =>
                      /\ {"dir", "obj", "size", "data", "toggle"} \subseteq DOMAIN xfer'
                      /\ xfer'.obj \in Objects /\ IsSeq(xfer'.data) /\ xfer'.data # << >>
    BY <1>1 DEF SdoTyped
  <1>3. NoTransfer.dir = "none"  BY DEF NoTransfer
  <1>4. CASE ServeUpload
    <2> DEFINE d == store[sm0.obj]
    <2>1. sm0.obj \in Objects /\ IsSeq(d) /\ d # << >>
      BY <1>4 DEF ServeUpload, SdoTyped, SdoRequest
    <2> HIDE DEF d
    <2>2. IsSeq(Tail(d)) /\ (Len(d) # 1 => Tail(d) # << >>)  BY <2>1, FirstAndOthers
    <2>3. store' = store
          /\ (xfer' = NoTransfer \/ (Len(d) # 1 /\ xfer'.dir = "up" /\ xfer'.rest = Tail(d)))
      BY <1>4 DEF ServeUpload, Answers, d
    <2> QED  BY <1>3, <2>2, <2>3 DEF SdoTyped
  <1>5. CASE ServeSegUpload
    <2>1. IsSeq(xfer.rest) /\ xfer.rest # << >>  BY <1>5 DEF ServeSegUpload, SdoTyped
    <2>2. IsSeq(Tail(xfer.rest)) /\ (Len(xfer.rest) # 1 => Tail(xfer.rest) # << >>)
      BY <2>1, FirstAndOthers
    <2>3. store' = store  BY <1>5 DEF ServeSegUpload, Answers
    <2>4. PICK t : xfer' = IF Len(xfer.rest) = 1 THEN NoTransfer
                           ELSE [dir |-> "up", rest |-> Tail(xfer.rest), toggle |-> t]
      BY <1>5, Zenon DEF ServeSegUpload, Answers
    <2>5. xfer'.dir = "up" => xfer'.rest = Tail(xfer.rest) /\ Len(xfer.rest) # 1
      BY <1>3, <2>4
    <2>6. xfer'.dir # "down"  BY <1>3, <2>4
    <2> QED  BY <2>2, <2>3, <2>5, <2>6 DEF SdoTyped
  <1>6. CASE ServeDownload
    <2>1. sm0.obj \in Objects /\ IsSeq(sm0.data) /\ sm0.data # << >>
      BY <1>6 DEF ServeDownload, SdoTyped, SdoRequest
    <2>2. \/ store' = [store EXCEPT ![sm0.obj] = sm0.data] /\ xfer' = NoTransfer
          \/ store' = store /\ xfer' = [dir |-> "down", obj |-> sm0.obj, size |-> sm0.size,
                                        data |-> sm0.data, toggle |-> FALSE]
      BY <1>6 DEF ServeDownload, Answers
    <2> QED  BY <1>3, <2>1, <2>2 DEF SdoTyped
  <1>7. CASE ServeSegDownload
    <2> DEFINE data == xfer.data \o sm0.data
    <2>1. /\ xfer.dir = "down" /\ xfer.obj \in Objects
          /\ {"dir", "obj", "size", "data", "toggle"} \subseteq DOMAIN xfer
          /\ IsSeq(xfer.data) /\ IsSeq(sm0.data) /\ sm0.data # << >>
      BY <1>7 DEF ServeSegDownload, SdoTyped, SdoRequest
    <2>2. IsSeq(data) /\ data # << >>  BY <2>1, Joins, JoinsSome
    <2>3. PICK t : t = ~xfer.toggle  OBVIOUS
    <2>4. \/ store' = store /\ xfer' = [xfer EXCEPT !.data = data, !.toggle = t]
          \/ store' = [store EXCEPT ![xfer.obj] = data] /\ xfer' = NoTransfer
      <3> HIDE DEF data
      <3> QED  BY <1>7, <2>3, Zenon DEF ServeSegDownload, Answers, data
    <2> HIDE DEF data
    <2> QED  BY <1>3, <2>1, <2>2, <2>4 DEF SdoTyped
  <1>8. CASE Refuse
    <2>1. store' = store /\ xfer' = NoTransfer  BY <1>8 DEF Refuse, Answers
    <2> QED  BY <1>3, <2>1 DEF SdoTyped
  <1> QED  BY <1>4, <1>5, <1>6, <1>7, <1>8 DEF SdoServer

\* The answer to the request for the object.
LEMMA UploadServed ==
  ASSUME Typed, SdoServer, UpJob, UpExchange
  PROVE  UpExchange'
  <1>1. UNCHANGED job /\ UpReqs' = UpReqs  BY ObjectServed DEF UpReqs
  <1>2. PICK R, R2, A, A2 : R = UpReqs /\ A = UpAnswers /\ A2 = UpAnswers' /\ R2 = UpReqs'
    OBVIOUS
  <1>3. Exchange(SdoCmds, R, A)  BY <1>2 DEF UpExchange
  <1>4. ASSUME NEW m, Take(<<m>>), sm0 \in UpReqs => m \in UpAnswers' PROVE UpExchange'
    <2>1. Exchange(SdoCmds, R2, A2)'
      BY <1>1, <1>2, <1>3, <1>4, ExchangeServed
    <2> QED  BY <1>2, <2>1 DEF UpExchange
  <1>5. Abort \in UpAnswers'  BY DEF UpAnswers
  <1>6. sm0 \in UpReqs => sm0.cmd = "UP_REQ" /\ sm0.obj = job.obj  BY DEF UpReqs, UploadReq
  <1>7. CASE ServeUpload
    <2> DEFINE d == store[sm0.obj]
               m == UploadRes(sm0.obj, Len(d), SubSeq(d, 1, 1))
    <2>1. Take(<<m>>) /\ store' = store
          /\ (xfer' = NoTransfer \/ (xfer'.dir = "up" /\ xfer'.rest = Tail(d)))
      BY <1>7 DEF ServeUpload, Answers
    <2>2. ASSUME sm0 \in UpReqs PROVE m \in UpAnswers'
      <3>1. Object' = d /\ job'.obj = sm0.obj  BY <1>1, <1>6, <2>1, <2>2 DEF Object
      <3>2. xfer'.dir = "up" => xfer'.rest = Tail(Object')  BY <2>1, <3>1 DEF NoTransfer
      <3>3. m = UploadRes(job'.obj, Len(Object'), SubSeq(Object', 1, 1))  BY <3>1
      <3> HIDE DEF m
      <3> QED  BY <3>2, <3>3 DEF UpAnswers
    <2> HIDE DEF d, m
    <2> QED  BY <1>4, <2>1, <2>2
  <1>8. CASE Refuse
    <2>1. Take(<<Abort>>)  BY <1>8 DEF Refuse, Answers
    <2> QED  BY <1>4, <1>5, <2>1
  <1>9. CASE ServeSegUpload \/ ServeDownload \/ ServeSegDownload
    <2>1. sm0 \notin UpReqs
      BY <1>6, <1>9 DEF ServeSegUpload, ServeDownload, ServeSegDownload
    <2>2. CASE ServeSegUpload  BY <1>4, <2>1, <2>2 DEF ServeSegUpload, Answers
    <2>3. CASE ServeDownload  BY <1>4, <2>1, <2>3 DEF ServeDownload, Answers
    <2>4. CASE ServeSegDownload  BY <1>4, <2>1, <2>4 DEF ServeSegDownload, Answers
    <2> QED  BY <1>9, <2>2, <2>3, <2>4
  <1> QED  BY <1>7, <1>8, <1>9 DEF SdoServer

\* The answer to a request for a segment is the next segment.
LEMMA SegmentServed ==
  ASSUME IsSeq(Object), NEW last \in Nat, last < Len(Object),
         xfer.rest = SubSeq(Object, last + 1, Len(Object)), ServeSegUpload
  PROVE  /\ last + 1 \in 1 .. Len(Object) /\ last + 1 \in 0 .. Len(Object)
         /\ Take(<<Segments[last + 1]>>) /\ store' = store
         /\ xfer'.dir = "up" =>
              last + 1 < Len(Object) /\ xfer'.rest = SubSeq(Object, (last + 1) + 1, Len(Object))
         /\ Segments[last + 1].cmd = "SEG_UP_RES"
  <1>1. /\ Len(Object) \in Nat
        /\ Len(xfer.rest) = Len(Object) - last
        /\ SubSeq(xfer.rest, 1, 1) = SubSeq(Object, last + 1, last + 1)
        /\ Tail(xfer.rest) = SubSeq(Object, last + 2, Len(Object))
    BY Pieces
  <1>2. last + 1 \in 1 .. Len(Object) /\ last + 1 \in 0 .. Len(Object) /\ (last + 1) + 1 = last + 2
        /\ (Len(xfer.rest) > 1 <=> last + 1 < Len(Object))
        /\ (Len(xfer.rest) = 1 <=> ~(last + 1 < Len(Object)))
    BY <1>1
  <1>3. Segments[last + 1] =
          SegUploadRes(SubSeq(Object, last + 1, last + 1), last + 1 < Len(Object))
    BY <1>2, Zenon DEF Segments
  <1>4. Take(<<SegUploadRes(SubSeq(xfer.rest, 1, 1), Len(xfer.rest) > 1)>>) /\ store' = store
    BY DEF ServeSegUpload, Answers
  <1>5. (Len(xfer.rest) > 1) = (last + 1 < Len(Object))  BY <1>2
  <1>6. Take(<<Segments[last + 1]>>)
    <2>1. PICK a, b : a = (Len(xfer.rest) > 1) /\ b = SubSeq(xfer.rest, 1, 1)  OBVIOUS
    <2>2. Take(<<SegUploadRes(b, a)>>)  BY <1>4, <2>1
    <2>3. Segments[last + 1] = SegUploadRes(b, a)  BY <1>1, <1>3, <1>5, <2>1
    <2> QED  BY <2>2, <2>3
  <1>7. PICK t : xfer' = IF Len(xfer.rest) = 1 THEN NoTransfer
                         ELSE [dir |-> "up", rest |-> Tail(xfer.rest), toggle |-> t]
    BY Zenon DEF ServeSegUpload, Answers
  <1>8. xfer'.dir = "up" => xfer'.rest = Tail(xfer.rest) /\ Len(xfer.rest) # 1
    BY <1>7 DEF NoTransfer
  <1>9. Segments[last + 1].cmd = "SEG_UP_RES"  BY <1>3 DEF SegUploadRes
  <1> QED  BY <1>1, <1>2, <1>4, <1>6, <1>8, <1>9

LEMMA SegmentRefused ==
  ASSUME Refuse
  PROVE  Take(<<Abort>>) /\ store' = store /\ xfer'.dir = "none"
  BY DEF Refuse, Answers, NoTransfer

\* The segments of a read when one more is sent, or the request is refused.
LEMMA UploadsServed ==
  ASSUME Typed, SdoTyped, UpJob, Quiet, SdoServer, SegExchange, Uploads
  PROVE  SegExchange' /\ Uploads'
  <1>1. /\ sm0 # NoMsg /\ sm0' = NoMsg /\ ~gone
        /\ UNCHANGED <<pc, got, fails, job, gone, lastOut, taken, sm1>>
    BY ObjectServed
  <1>2. sm0 \in SegReqs /\ sm0.cmd = "SEG_UP_REQ"  BY <1>1, SdoAsks DEF Uploads
  <1>3. ServeSegUpload \/ Refuse
    BY <1>2 DEF SdoServer, ServeUpload, ServeDownload, ServeSegDownload
  <1>4. IsSeq(Object)  BY DEF SdoTyped, UpJob, Object
  <1>5. store' = store  BY <1>3 DEF ServeSegUpload, Refuse, Answers
  <1>6. Object' = Object /\ Segments' = Segments /\ SegReqs' = SegReqs /\ SegAnswers' = SegAnswers
    BY <1>1, <1>5 DEF Object, Segments, SegReqs, SegAnswers
  <1>7. PICK base, last \in 0 .. Len(Object) : UploadsTo(base, last)
    BY DEF Uploads
  <1>8. Gotten(base)' = Gotten(base) /\ Gotten(base - 1)' = Gotten(base - 1)
        /\ (Missed => Missed')
    BY <1>1, <1>6 DEF Gotten, Missed, Calm
  <1>9. ASSUME NEW m, Take(<<m>>), m \in SegAnswers, NEW l \in 0 .. Len(Object),
               \/ m.cmd \notin {"SEG_UP_RES"} /\ l = last
               \/ m.cmd \in {"SEG_UP_RES"} /\ m = Segments[last + 1] /\ l = last + 1,
               xfer'.dir = "up" => l < Len(Object) /\ xfer'.rest = SubSeq(Object, l + 1, Len(Object))
        PROVE  SegExchange' /\ Uploads'
    <2>1. SegExchange'
      <3>1. PICK R, A : R = SegReqs /\ A = SegAnswers  OBVIOUS
      <3>2. Exchange(SdoCmds, R, A)  BY <3>1 DEF SegExchange
      <3>3. Exchange(SdoCmds, R, A)'  BY <1>9, <3>1, <3>2, ExchangeServed
      <3> QED  BY <1>6, <3>1, <3>3 DEF SegExchange
    <2>2. Line' = Append(Line, m)
      <3>1. outq' = Append(outq, m)  BY <1>9, Appended DEF Take, Typed
      <3> QED  BY <1>1, <3>1, LineQueued DEF Typed
    <2>3. Brings(Line', {"SEG_UP_RES"}, Segments, base, l)
      <3>1. Brings(Line, {"SEG_UP_RES"}, Segments, base, last) /\ base \in Nat /\ last \in Nat
        BY <1>7 DEF UploadsTo
      <3>2. IsSeq(Line)  BY LineFlies DEF Typed
      <3> QED  BY <1>9, <2>2, <3>1, <3>2, BringsMore
    <2>4. UploadsTo(base, l)'
      BY <1>1, <1>6, <1>7, <1>8, <1>9, <2>3 DEF UploadsTo
    <2>5. sm0' = NoMsg  BY <1>1
    <2> QED  BY <1>1, <1>6, <1>7, <2>1, <2>4, <2>5 DEF Uploads
  <1>10. CASE Refuse
    <2>1. Abort \in SegAnswers /\ Abort.cmd \notin {"SEG_UP_RES"}  BY DEF SegAnswers, Abort
    <2>2. Take(<<Abort>>) /\ xfer'.dir = "none"  BY <1>10, SegmentRefused
    <2>3. xfer'.dir # "up"  BY <2>2
    <2> QED  BY <1>7, <1>9, <2>1, <2>2, <2>3
  <1>11. CASE ServeSegUpload
    <2>1. last < Len(Object) /\ xfer.rest = SubSeq(Object, last + 1, Len(Object))
      BY <1>1, <1>7, <1>11 DEF UploadsTo, ServeSegUpload
    <2>2. last \in Nat  BY <1>7
    <2>3. PICK l : l = last + 1  OBVIOUS
    <2>4. /\ l \in 1 .. Len(Object) /\ l \in 0 .. Len(Object)
          /\ Take(<<Segments[l]>>)
          /\ xfer'.dir = "up" =>
               l < Len(Object) /\ xfer'.rest = SubSeq(Object, l + 1, Len(Object))
          /\ Segments[l].cmd = "SEG_UP_RES"
      BY <1>4, <1>11, <2>1, <2>2, <2>3, SegmentServed
    <2>5. Segments[l] \in SegAnswers  BY <2>4 DEF SegAnswers
    <2>6. PICK m : m = Segments[l]  OBVIOUS
    <2> QED  BY <1>9, <2>3, <2>4, <2>5, <2>6
  <1> QED  BY <1>3, <1>10, <1>11

LEMMA SegmentsServed ==
  ASSUME SInv, SdoServer, UploadingSegments
  PROVE  UploadingSegments'
  <1>1. UNCHANGED <<pc, request, goesOn, got, job, dirty, fails, repeats>>
    BY ObjectServed
  <1>2. Typed /\ SdoTyped /\ UpJob /\ SegExchange
    BY DEF SInv, Well, IInv, ObjectInv, UploadingSegments
  <1>3. Quiet' = Quiet /\ Live' = Live /\ (Live => Quiet)
    BY <1>1 DEF Quiet, Live, SInv, Well, Counted
  <1>4. SegReqs' = SegReqs  BY DEF SegReqs
  <1>5. CASE Quiet
    <2>1. SegExchange' /\ Uploads'  BY <1>2, <1>5, UploadsServed DEF UploadingSegments
    <2> QED  BY <1>1, <1>4, <2>1 DEF UploadingSegments, UpJob
  <1>6. CASE ~Quiet
    <2>1. SegExchange'
      BY <1>1, <1>3, <1>6 DEF SegExchange, Exchange, UploadingSegments
    <2> QED  BY <1>1, <1>3, <1>4, <1>6, <2>1 DEF UploadingSegments, UpJob
  <1> QED  BY <1>5, <1>6

\* The first chunk of a write.
LEMMA DownloadServed ==
  ASSUME Typed, SdoTyped, SdoServer, Downloading
  PROVE  DownExchange'
  <1>1. UNCHANGED job /\ DownReqs' = DownReqs
    BY ObjectServed DEF DownReqs
  <1>2. PICK R, A, A2 : R = DownReqs /\ A = DownAnswers /\ A2 = DownAnswers'
    OBVIOUS
  <1>3. Exchange(SdoCmds, R, A)  BY <1>2 DEF Downloading, DownExchange
  <1>4. ASSUME NEW m, Take(<<m>>), sm0 \in DownReqs => m \in DownAnswers' PROVE DownExchange'
    <2>1. Exchange(SdoCmds, R, A2)'
      BY <1>1, <1>2, <1>3, <1>4, ExchangeServed
    <2> QED  BY <1>1, <1>2, <2>1 DEF DownExchange
  <1>5. Abort \in DownAnswers'  BY DEF DownAnswers
  <1>6. sm0 \in DownReqs => /\ sm0.cmd = "DOWN_INIT" /\ sm0.obj = job.obj
                            /\ sm0.size = Len(job.data) /\ sm0.data = SubSeq(job.data, 1, 1)
    BY DEF DownReqs, DownloadReq
  <1>7. CASE ServeDownload
    <2>1. Take(<<DownloadRes(sm0.obj)>>)  BY <1>7 DEF ServeDownload, Answers
    <2>2. ASSUME sm0 \in DownReqs PROVE DownloadRes(sm0.obj) \in DownAnswers'
      <3>1. /\ IsSeq(job.data) /\ job.data # << >> /\ job.rest = Tail(job.data)
            /\ job.obj \in Objects
        BY DEF Downloading, DownJob
      <3>2. /\ Len(sm0.data) = 1 /\ sm0.data \o job.rest = job.data
            /\ (Len(job.data) = 1 => sm0.data = job.data)
            /\ (Len(job.data) = 1 <=> job.rest = << >>)
        BY <1>6, <2>2, <3>1, FirstAndOthers
      <3>3. CASE Len(job.data) = 1
        <4>1. store' = [store EXCEPT ![job.obj] = job.data]
          BY <1>6, <1>7, <2>2, <3>2, <3>3 DEF ServeDownload, Answers
        <4>2. job.obj \in DOMAIN store => Object' = job.data
          BY <1>1, <4>1 DEF Object
        <4> QED
          BY <1>1, <1>6, <2>2, <3>1, <3>2, <3>3, <4>2 DEF DownAnswers, Kept, SdoTyped
      <3>4. CASE Len(job.data) # 1
        <4>1. xfer' = [dir |-> "down", obj |-> sm0.obj, size |-> sm0.size,
                       data |-> sm0.data, toggle |-> FALSE]
          BY <1>6, <1>7, <2>2, <3>2, <3>4 DEF ServeDownload, Answers
        <4>2. Storing1(job.rest)'
          BY <1>1, <1>6, <2>2, <3>2, <4>1 DEF Storing1
        <4> QED  BY <1>1, <1>6, <2>2, <3>2, <3>4, <4>2 DEF DownAnswers, Kept
      <3> QED  BY <3>3, <3>4
    <2> QED  BY <1>4, <2>1, <2>2
  <1>8. CASE Refuse  BY <1>4, <1>5, <1>8 DEF Refuse, Answers
  <1>9. CASE ServeUpload \/ ServeSegUpload \/ ServeSegDownload
    <2>1. sm0 \notin DownReqs
      BY <1>6, <1>9 DEF ServeUpload, ServeSegUpload, ServeSegDownload
    <2>2. CASE ServeUpload  BY <1>4, <2>1, <2>2 DEF ServeUpload, Answers
    <2>3. CASE ServeSegUpload  BY <1>4, <2>1, <2>3 DEF ServeSegUpload, Answers
    <2>4. CASE ServeSegDownload  BY <1>4, <2>1, <2>4 DEF ServeSegDownload, Answers
    <2> QED  BY <1>9, <2>2, <2>3, <2>4
  <1> QED  BY <1>7, <1>8, <1>9 DEF SdoServer

\* Every other one.
LEMMA StoreServed ==
  ASSUME Typed, SdoTyped, SdoServer, DownloadingSegments
  PROVE  StoreExchange'
  <1>1. UNCHANGED job /\ pc # "drain"
    BY ObjectServed DEF DownloadingSegments
  <1>2. PICK R, R2, A, A2 : R = StoreReqs /\ A = StoreAnswers /\ R2 = StoreReqs' /\ A2 = StoreAnswers'
    OBVIOUS
  <1>3. Exchange(SdoCmds, R, A)  BY <1>2 DEF DownloadingSegments, StoreExchange
  <1>4. ASSUME NEW m, Take(<<m>>), sm0 \in StoreReqs => m \in StoreAnswers' PROVE StoreExchange'
    <2>1. Exchange(SdoCmds, R2, A2)'
      BY <1>1, <1>2, <1>3, <1>4, ExchangeServed
    <2> QED  BY <1>2, <2>1 DEF StoreExchange
  <1>5. Abort \in StoreAnswers'  BY DEF StoreAnswers
  <1>6. sm0 \in StoreReqs => /\ sm0.cmd = "SEG_DOWN_REQ" /\ sm0.data \in NextPieces
                             /\ (sm0.more <=> job.rest # << >>)
    BY DEF StoreReqs
  <1>7. CASE ServeSegDownload
    <2>1. Take(<<SegDownloadRes>>)
      BY <1>7 DEF ServeSegDownload, Answers
    <2>2. ASSUME sm0 \in StoreReqs PROVE SegDownloadRes \in StoreAnswers'
      <3>1. PICK x \in Elements(job.data) : Storing1(<<x>> \o job.rest) /\ sm0.data = <<x>>
        BY <1>6, <2>2 DEF NextPieces
      <3>2. xfer.dir = "down" /\ xfer.obj = job.obj /\ xfer.size = Len(job.data)
            /\ xfer.data \o (sm0.data \o job.rest) = job.data
        BY <3>1 DEF Storing1
      <3>3. /\ IsSeq(xfer.data) /\ IsSeq(sm0.data) /\ job.obj \in DOMAIN store
            /\ IsSeq(job.rest) /\ {"dir", "obj", "size", "data", "toggle"} \subseteq DOMAIN xfer
        <4>1. IsSeq(sm0.data)  BY <1>6, <2>2 DEF SdoTyped, SdoRequest
        <4>2. IsSeq(job.rest)
          <5>1. job.rest \in Seq(Elements(job.data))  BY DEF DownloadingSegments, DownJob
          <5> QED  BY <5>1, Sequence
        <4> QED  BY <3>2, <4>1, <4>2 DEF SdoTyped
      <3>4. (xfer.data \o sm0.data) \o job.rest = job.data
        <4>1. PICK a, b, c : a = xfer.data /\ b = sm0.data /\ c = job.rest  OBVIOUS
        <4>2. PICK S : a \in Seq(S) /\ b \in Seq(S) /\ c \in Seq(S)
          BY <3>3, <4>1, Common
        <4>3. (a \o b) \o c = a \o (b \o c)  BY ONLY <4>2
        <4> QED  BY <3>2, <4>1, <4>3
      <3>5. PICK data : data = xfer.data \o sm0.data  OBVIOUS
      <3>6. CASE job.rest # << >>
        <4>1. PICK t : xfer' = [xfer EXCEPT !.data = data, !.toggle = t]
          <5>1. sm0.more  BY <1>6, <2>2, <3>6
          <5>2. xfer' = [xfer EXCEPT !.data = xfer.data \o sm0.data, !.toggle = ~@]
            BY <1>7, <5>1 DEF ServeSegDownload, Answers
          <5> QED  BY <3>5, <5>2, Zenon
        <4>2. /\ xfer'.dir = "down" /\ xfer'.obj = job.obj /\ xfer'.size = Len(job.data)
              /\ xfer'.data = data
          BY <3>2, <3>3, <4>1
        <4>3. Storing1(job.rest)'  BY <1>1, <3>4, <3>5, <4>2 DEF Storing1
        <4> QED  BY <1>1, <3>6, <4>3 DEF StoreAnswers, Kept
      <3>7. CASE job.rest = << >>
        <4>1. ~sm0.more  BY <1>6, <2>2, <3>7
        <4>2. store' = [store EXCEPT ![job.obj] = data]
          BY <1>7, <3>2, <3>5, <4>1 DEF ServeSegDownload, Answers
        <4>3. IsSeq(data)  BY <3>3, <3>5, Joins
        <4>4. data = job.data  BY <3>4, <3>5, <3>7, <4>3, JoinsNothing
        <4>5. Object' = job.data  BY <1>1, <3>3, <4>2, <4>4 DEF Object
        <4> QED  BY <1>1, <3>7, <4>5 DEF StoreAnswers, Kept
      <3> QED  BY <3>6, <3>7
    <2> QED  BY <1>4, <2>1, <2>2
  <1>8. CASE Refuse  BY <1>4, <1>5, <1>8 DEF Refuse, Answers
  <1>9. CASE ServeUpload \/ ServeSegUpload \/ ServeDownload
    <2>1. sm0 \notin StoreReqs
      BY <1>6, <1>9 DEF ServeUpload, ServeSegUpload, ServeDownload
    <2>2. CASE ServeUpload  BY <1>4, <2>1, <2>2 DEF ServeUpload, Answers
    <2>3. CASE ServeSegUpload  BY <1>4, <2>1, <2>3 DEF ServeSegUpload, Answers
    <2>4. CASE ServeDownload  BY <1>4, <2>1, <2>4 DEF ServeDownload, Answers
    <2> QED  BY <1>9, <2>2, <2>3, <2>4
  <1> QED  BY <1>7, <1>8, <1>9 DEF SdoServer

LEMMA ObjectServer ==
  ASSUME SInv, SdoServer
  PROVE  ObjectInv'
  <1>1. UNCHANGED <<pc, request, goesOn, got, job, dirty, fails, repeats>> /\ sm0 # NoMsg
        /\ Typed /\ ObjectInv /\ SdoTyped /\ sm0' = NoMsg
    BY ObjectServed DEF SInv, Well, IInv, ObjectInv
  <1>2. Live' = Live /\ SdoTyped'  BY <1>1, SdoServerTyped DEF Live
  <1>3. job.kind = "SDOread" => Uploading'
    <2> SUFFICES ASSUME job.kind = "SDOread" PROVE Uploading'  OBVIOUS
    <2>1. Uploading /\ UpJob  BY <1>1 DEF ObjectInv, Uploading
    <2>2. UpExchange'  BY <1>1, <2>1, UploadServed DEF Uploading
    <2> QED  BY <1>1, <1>2, <2>1, <2>2 DEF Uploading, UpJob
  <1>4. job.kind = "SDOreadSegments" => UploadingSegments'
    BY <1>1, SegmentsServed DEF ObjectInv
  <1>5. ~(Live /\ pc = "idle" /\ job.ret = "ok") \/
           job.kind \notin {"SDOwrite", "SDOwriteSegments"}
    BY <1>1 DEF ObjectInv, Downloading, DownloadingSegments, IsStored
  <1>6. job.kind \in {"SDOwrite", "SDOwriteSegments"} => IsStored'
    BY <1>1, <1>2, <1>5 DEF IsStored
  <1>7. job.kind = "SDOwrite" => Downloading'
    BY <1>1, <1>6, DownloadServed DEF ObjectInv, Downloading, DownJob
  <1>8. job.kind = "SDOwriteSegments" => DownloadingSegments'
    BY <1>1, <1>6, StoreServed DEF ObjectInv, DownloadingSegments, DownJob
  <1> QED  BY <1>1, <1>2, <1>3, <1>4, <1>7, <1>8 DEF ObjectInv

-----------------------------------------------------------------------------
(* ecx_SDOread and ecx_SDOwrite.                                           *)

\* What every step of these two leaves alone.
LEMMA ObjectClientMail ==
  ASSUME SInv, SdoClient
  PROVE  /\ ClientStep /\ ObjectInv /\ SdoTyped /\ Typed
         /\ sm0' = sm0 /\ store' = store /\ xfer' = xfer /\ gone' = gone
         /\ Line' = Line /\ (Calm(SdoCmds) => Calm(SdoCmds)')
  <1>1. ClientStep  BY SdoSteps DEF SInv, Well, IInv
  <1>2. sm0' = sm0 /\ store' = store /\ xfer' = xfer /\ gone' = gone
    BY <1>1 DEF ClientStep, SdoClient, sdoVars, environment
  <1>3. Flying(SdoCmds)' \subseteq Flying(SdoCmds)  BY <1>1, ClientFlies
  <1> QED  BY <1>1, <1>2, <1>3, LineClient, CalmStays DEF SInv, Well, IInv, ObjectInv

LEMMA ObjectClientTyped ==
  ASSUME SInv, SdoClient, SdoRequest(request')
  PROVE  SdoTyped'
  BY ObjectClientMail DEF SdoTyped, SdoRequest

\* What the handle of a transfer knows of the answer.
LEMMA Answered ==
  ASSUME NEW R, NEW A, Exchange(SdoCmds, R, A), pc = "handle", got.cmd \in SdoCmds, Live
  PROVE  Calm(SdoCmds) /\ got \in A
  BY DEF Exchange

LEMMA UploadBegins ==
  ASSUME SInv, SdoClient, NEW o \in Objects, NEW n \in Sizes, SDOread(o, n)
  PROVE  ObjectInv'
  <1>1. /\ job' = [kind |-> "SDOread", obj |-> o, psize |-> n, buf |-> << >>,
                   SDOlen |-> 0, ret |-> "none"]
        /\ request' = UploadReq(o) /\ goesOn' = "wait" /\ pc' = "drain"
    BY DEF SDOread, Begin, BeginAt
  <1>2. SdoRequest(request')  BY <1>1 DEF SdoRequest, UploadReq
  <1>3. SdoTyped'  BY <1>2, ObjectClientTyped
  <1>4. n \in Nat  BY SDOAssumption
  <1>5. UpJob'  BY <1>1, <1>4 DEF UpJob
  <1>6. request' \in UpReqs'  BY <1>1 DEF UpReqs
  <1>7. UpExchange'  BY <1>1, <1>6 DEF UpExchange, Exchange, Live
  <1>8. Uploading'  BY <1>1, <1>5, <1>7 DEF Uploading
  <1> QED  BY <1>1, <1>3, <1>8 DEF ObjectInv

LEMMA DownloadBegins ==
  ASSUME SInv, SdoClient, NEW o \in Objects, NEW n \in Sizes, SDOwrite(o, n)
  PROVE  ObjectInv'
  <1>1. PICK data : data = DataOf(jobs + 1, n)  OBVIOUS
  <1>2. IsSeq(data) /\ data # << >> /\ Len(data) = n
    <2>1. n \in Nat /\ n > 0  BY SDOAssumption
    <2>2. IsSeq(data) /\ data # << >>  BY <1>1, <2>1, DataIsSeq
    <2>3. Len(data) = n  BY <1>1, <2>1 DEF DataOf
    <2> QED  BY <2>2, <2>3
  <1>3. /\ job' = [kind |-> "SDOwrite", obj |-> o, data |-> data, rest |-> Tail(data),
                   toggle |-> FALSE, ret |-> "none"]
        /\ request' = DownloadReq(o, n, SubSeq(data, 1, 1)) /\ goesOn' = "wait" /\ pc' = "drain"
    BY <1>1 DEF SDOwrite, Begin, BeginAt
  <1>4. IsSeq(SubSeq(data, 1, 1)) /\ SubSeq(data, 1, 1) # << >>  BY <1>2, FirstAndOthers
  <1>5. SdoRequest(request')  BY <1>3, <1>4 DEF SdoRequest, DownloadReq
  <1>6. SdoTyped'  BY <1>5, ObjectClientTyped
  <1>7. Tail(data) \in Seq(Elements(data))
    <2>1. data \in Seq(Elements(data))  BY <1>2 DEF IsSeq, Elements
    <2> QED  BY <1>2, <2>1, FirstAndRest
  <1>8. DownJob'  BY <1>2, <1>3, <1>7 DEF DownJob
  <1>9. request' \in DownReqs'  BY <1>2, <1>3 DEF DownReqs
  <1>10. DownExchange' /\ IsStored'  BY <1>3, <1>9 DEF DownExchange, Exchange, Live, IsStored
  <1>11. Downloading'  BY <1>3, <1>8, <1>10 DEF Downloading
  <1> QED  BY <1>3, <1>6, <1>11 DEF ObjectInv

\* The answer to the request of a read.
LEMMA UploadAnswered ==
  ASSUME SInv, SdoClient, ReadFirst
  PROVE  ObjectInv'
  <1>1. pc = "handle" /\ job.kind = "SDOread" /\ Uploading /\ UpJob /\ job.buf = << >>
    BY ObjectClientMail DEF ReadFirst, Handles, ObjectInv, Uploading
  <1>2. /\ sm0' = sm0 /\ store' = store /\ xfer' = xfer /\ gone' = gone /\ Line' = Line
        /\ SdoTyped /\ Typed /\ (Calm(SdoCmds) => Calm(SdoCmds)')
    BY ObjectClientMail
  <1>3. dirty' = dirty /\ fails' = fails /\ repeats' = repeats
    BY DEF ReadFirst, Return, Becomes, ghosts
  <1>4. ASSUME IsResponse(got) PROVE fails = 0 /\ got.cmd \in SdoCmds
    <2>1. got # Failed /\ got.cmd \in SdoCmds  BY <1>4 DEF IsResponse, Failed, SdoCmds
    <2>2. fails \in 0 .. 2  BY <1>2 DEF Typed, MailTypeOK
    <2> QED  BY <1>1, <2>1, <2>2 DEF Uploading
  <1>5. ASSUME IsResponse(got), ~dirty
        PROVE  /\ Calm(SdoCmds)
               /\ got.size = Len(Object) /\ got.data = SubSeq(Object, 1, 1)
               /\ xfer.dir = "up" => xfer.rest = Tail(Object)
    <2>1. PICK A : A = UpAnswers  OBVIOUS
    <2>2. Calm(SdoCmds) /\ got \in A
      BY <1>1, <1>4, <1>5, <2>1, Answered DEF Uploading, UpExchange, Live
    <2>3. got # Abort  BY <1>5 DEF IsResponse, Abort
    <2>4. got = UploadRes(job.obj, Len(Object), SubSeq(Object, 1, 1))
          /\ (xfer.dir = "up" => xfer.rest = Tail(Object))
      BY <2>1, <2>2, <2>3 DEF UpAnswers
    <2> QED  BY <2>2, <2>4 DEF UploadRes
  <1>6. IsSeq(Object) /\ Object # << >>  BY <1>1, <1>2 DEF SdoTyped, UpJob, Object
  <1>7. /\ IsSeq(SubSeq(Object, 1, 1)) /\ Len(SubSeq(Object, 1, 1)) = 1
        /\ Len(Object) \in Nat /\ Len(Object) > 0
        /\ Len(Object) = 1 => SubSeq(Object, 1, 1) = Object
        /\ Tail(Object) = SubSeq(Object, 2, Len(Object))
    BY <1>6, FirstAndOthers
  <1>8. CASE Return(job, "error")
    <2>1. job' = [job EXCEPT !.ret = "error"] /\ pc' = "idle" /\ request' = request
      BY <1>8 DEF Return, Becomes
    <2>2. job'.kind = "SDOread" /\ job'.ret = "error" /\ job'.buf = << >> /\ UpJob'
      BY <1>1, <2>1 DEF UpJob
    <2>3. UpExchange'  BY <2>1 DEF UpExchange, Exchange, Waits
    <2>4. Uploading'  BY <2>1, <2>2, <2>3 DEF Uploading
    <2>5. SdoTyped'  BY <1>2, <2>1, ObjectClientTyped DEF SdoTyped
    <2> QED  BY <2>2, <2>4, <2>5 DEF ObjectInv
  <1>9. CASE /\ IsResponse(got) /\ ~(got.size > job.psize) /\ Len(got.data) >= got.size
             /\ Return([job EXCEPT !.buf = got.data, !.SDOlen = got.size], "ok")
    <2>1. /\ job' = [[job EXCEPT !.buf = got.data, !.SDOlen = got.size] EXCEPT !.ret = "ok"]
          /\ pc' = "idle" /\ request' = request
      BY <1>9 DEF Return, Becomes
    <2>2. /\ job'.kind = "SDOread" /\ job'.ret = "ok" /\ job'.buf = got.data
          /\ job'.psize = job.psize /\ job'.obj = job.obj /\ UpJob'
      BY <1>1, <2>1 DEF UpJob
    <2>3. UpExchange'  BY <2>1 DEF UpExchange, Exchange, Waits
    <2>4. fails' = 0  BY <1>3, <1>4, <1>9
    <2>5. Object' = Object  BY <1>2, <2>2 DEF Object
    <2>6. ASSUME Live' PROVE job'.buf = Object' /\ Len(Object') <= job'.psize /\ sm0' = NoMsg
      <3>1. ~dirty  BY <1>3, <2>6 DEF Live
      <3>2. Len(Object) = 1 /\ Len(Object) <= job.psize
        <4>1. got.size = Len(Object) /\ Len(got.data) = 1 /\ job.psize \in Nat
          BY <1>1, <1>5, <1>7, <1>9, <3>1 DEF UpJob
        <4>2. ~(got.size > job.psize) /\ Len(got.data) >= got.size  BY <1>9
        <4>3. PICK g, l, n, p : g = got.size /\ l = Len(got.data) /\ n = Len(Object) /\ p = job.psize
          OBVIOUS
        <4>4. g = n /\ l = 1 /\ p \in Nat /\ n \in Nat /\ n > 0 /\ ~(g > p) /\ l >= g
          BY <1>7, <4>1, <4>2, <4>3
        <4>5. n = 1 /\ n <= p  BY <4>4
        <4> QED  BY <4>3, <4>5
      <3> QED  BY <1>2, <1>5, <1>7, <1>9, <2>2, <2>5, <3>1, <3>2 DEF Calm
    <2>7. Uploading'  BY <2>1, <2>2, <2>3, <2>4, <2>6 DEF Uploading
    <2>8. SdoTyped'  BY <1>2, <2>1, ObjectClientTyped DEF SdoTyped
    <2> QED  BY <2>2, <2>7, <2>8 DEF ObjectInv
  <1>10. CASE /\ IsResponse(got) /\ ~(got.size > job.psize) /\ ~(Len(got.data) >= got.size)
              /\ Becomes([kind |-> "SDOreadSegments", obj |-> job.obj, psize |-> job.psize,
                          buf |-> got.data, SDOlen |-> got.size, ret |-> "none",
                          toggle |-> FALSE])
              /\ Post(SegUploadReq(FALSE), "wait")
    <2>1. /\ job' = [kind |-> "SDOreadSegments", obj |-> job.obj, psize |-> job.psize,
                     buf |-> got.data, SDOlen |-> got.size, ret |-> "none", toggle |-> FALSE]
          /\ pc' = "send" /\ request' = SegUploadReq(FALSE) /\ goesOn' = "wait"
      BY <1>10 DEF Becomes, Post
    <2>2. UpJob' /\ job'.toggle = FALSE /\ "toggle" \in DOMAIN job'
      BY <1>1, <2>1 DEF UpJob
    <2>3. request' \in SegReqs'  BY <2>1 DEF SegReqs
    <2>4. SdoRequest(request')  BY <2>1 DEF SdoRequest, SegUploadReq
    <2>5. ~dirty' => ~dirty /\ Calm(SdoCmds)'  BY <1>2, <1>3, <1>5, <1>10
    <2>6. SegExchange'
      BY <2>1, <2>3, <2>5 DEF SegExchange, Exchange, Live, Waits
    <2>7. ASSUME Quiet' PROVE Uploads'
      <3>1. ~dirty /\ Calm(SdoCmds)  BY <1>3, <1>5, <1>10, <2>7 DEF Quiet
      <3>2. Object' = Object  BY <1>2, <2>1 DEF Object
      <3>3. /\ got.size = Len(Object) /\ got.data = SubSeq(Object, 1, 1)
            /\ xfer.dir = "up" => xfer.rest = Tail(Object)
        BY <1>5, <1>10, <3>1
      <3>4. 1 < Len(Object) /\ Len(Object) <= job.psize
        BY <1>1, <1>7, <1>10, <3>3 DEF UpJob
      <3>5. \A i \in DOMAIN Line : Line[i].cmd \notin {"SEG_UP_RES"}
        BY <1>2, <3>1, LineFlies DEF Calm, Typed, SdoCmds
      <3>6. PICK D : D = Segments'  OBVIOUS
      <3>7. Brings(Line, {"SEG_UP_RES"}, D, 1, 1)
        <4>1. IsSeq(Line)  BY <1>2, LineFlies DEF Typed
        <4> QED  BY <3>5, <4>1, BringsNothing
      <3>8. Brings(Line, {"SEG_UP_RES"}, Segments, 1, 1)'  BY <1>2, <3>6, <3>7
      <3>9. Gotten(1)'
        BY <1>7, <2>1, <3>2, <3>3 DEF Gotten
      <3>10. /\ fails' = 0 => Len(job'.buf) = 1
             /\ ~gone' /\ xfer'.dir = "up" => xfer'.rest = SubSeq(Object', 1 + 1, Len(Object'))
        BY <1>2, <1>7, <2>1, <3>2, <3>3
      <3>11. UploadsTo(1, 1)'
        BY <1>2, <2>1, <3>2, <3>4, <3>8, <3>9, <3>10 DEF UploadsTo
      <3>12. 1 \in 0 .. Len(Object')  BY <1>7, <3>2, <3>4
      <3>13. sm0' = NoMsg  BY <1>2, <3>1 DEF Calm
      <3>14. /\ job'.SDOlen = Len(Object') /\ Len(Object') <= job'.psize /\ IsSeq(job'.buf)
             /\ pc' = "send"
        BY <1>7, <2>1, <3>2, <3>3, <3>4
      <3> QED  BY <3>11, <3>12, <3>13, <3>14 DEF Uploads
    <2>8. UploadingSegments'
      BY <2>1, <2>2, <2>3, <2>6, <2>7 DEF UploadingSegments
    <2>9. SdoTyped'  BY <2>4, ObjectClientTyped
    <2> QED  BY <2>1, <2>8, <2>9 DEF ObjectInv
  <1> QED  BY <1>8, <1>9, <1>10 DEF ReadFirst

\* The answer to a request for a segment.
LEMMA SegmentAnswered ==
  ASSUME SInv, SdoClient, ReadSegment
  PROVE  ObjectInv'
  <1>1. pc = "handle" /\ job.kind = "SDOreadSegments" /\ UploadingSegments /\ UpJob
        /\ "toggle" \in DOMAIN job /\ job.toggle \in BOOLEAN
    BY ObjectClientMail DEF ReadSegment, Handles, ObjectInv, UploadingSegments
  <1>2. /\ sm0' = sm0 /\ store' = store /\ xfer' = xfer /\ gone' = gone /\ Line' = Line
        /\ SdoTyped /\ Typed /\ (Calm(SdoCmds) => Calm(SdoCmds)')
    BY ObjectClientMail
  <1>3. dirty' = dirty /\ fails' = fails /\ repeats' = repeats
    BY DEF ReadSegment, Return, Becomes, ghosts
  <1>4. PICK buf, t : /\ buf = (IF got.cmd = "SEG_UP_RES" THEN job.buf \o got.data ELSE job.buf)
                      /\ t = ~job.toggle
    OBVIOUS
  <1>5. t \in BOOLEAN  BY <1>1, <1>4
  <1>6. PICK after : after = [job EXCEPT !.buf = buf, !.toggle = t]  OBVIOUS
  <1>7. /\ after.kind = "SDOreadSegments" /\ after.buf = buf /\ after.toggle = t
        /\ after.obj = job.obj /\ after.psize = job.psize /\ after.SDOlen = job.SDOlen
        /\ {"kind", "obj", "psize", "buf", "SDOlen", "ret", "toggle"} \subseteq DOMAIN after
    BY <1>1, <1>6 DEF UpJob
  <1>8. \/ /\ got = Failed \/ (got.cmd = "SEG_UP_RES" /\ got.more)
           /\ Becomes(after) /\ Post(SegUploadReq(after.toggle), "wait")
        \/ /\ got # Failed /\ ~(got.cmd = "SEG_UP_RES" /\ got.more)
           /\ Return(after, IF got.cmd = "SEG_UP_RES" THEN "ok" ELSE "error")
    <2>1. after = [job EXCEPT !.buf = IF got.cmd = "SEG_UP_RES" THEN @ \o got.data ELSE @,
                              !.toggle = ~@]
      BY <1>4, <1>6, Zenon
    <2>2. PICK a : a = [job EXCEPT !.buf = IF got.cmd = "SEG_UP_RES" THEN @ \o got.data ELSE @,
                              !.toggle = ~@]
      OBVIOUS
    <2>3. IF got = Failed \/ (got.cmd = "SEG_UP_RES" /\ got.more)
          THEN Becomes(a) /\ Post(SegUploadReq(a.toggle), "wait")
          ELSE Return(a, IF got.cmd = "SEG_UP_RES" THEN "ok" ELSE "error")
      BY <2>2, Zenon DEF ReadSegment
    <2>4. a = after  BY <2>1, <2>2, Zenon
    <2> QED  BY <2>3, <2>4
  <1>9. /\ job'.kind = "SDOreadSegments" /\ job'.buf = buf /\ job'.toggle = t
        /\ job'.obj = job.obj /\ job'.psize = job.psize /\ job'.SDOlen = job.SDOlen
        /\ {"kind", "obj", "psize", "buf", "SDOlen", "ret", "toggle"} \subseteq DOMAIN job'
        /\ \/ pc' = "send" /\ request' = SegUploadReq(t) /\ goesOn' = "wait"
           \/ pc' = "idle" /\ request' = request
        /\ pc' = "send" => got = Failed \/ (got.cmd = "SEG_UP_RES" /\ got.more)
        /\ pc' = "idle" => /\ got # Failed /\ ~(got.cmd = "SEG_UP_RES" /\ got.more)
                           /\ (job'.ret = "ok" <=> got.cmd = "SEG_UP_RES")
    <2>1. CASE /\ got = Failed \/ (got.cmd = "SEG_UP_RES" /\ got.more)
               /\ Becomes(after) /\ Post(SegUploadReq(after.toggle), "wait")
      <3>1. job' = after /\ pc' = "send" /\ request' = SegUploadReq(t) /\ goesOn' = "wait"
        BY <1>7, <2>1 DEF Becomes, Post
      <3> QED  BY <1>7, <2>1, <3>1
    <2>2. CASE /\ got # Failed /\ ~(got.cmd = "SEG_UP_RES" /\ got.more)
               /\ Return(after, IF got.cmd = "SEG_UP_RES" THEN "ok" ELSE "error")
      <3>1. /\ job' = [after EXCEPT !.ret = IF got.cmd = "SEG_UP_RES" THEN "ok" ELSE "error"]
            /\ pc' = "idle" /\ request' = request
        BY <2>2 DEF Becomes, Return
      <3> QED  BY <1>7, <2>2, <3>1
    <2> QED  BY <1>8, <2>1, <2>2
  <1>10. UpJob'  BY <1>1, <1>9 DEF UpJob
  <1>11. SdoTyped'
    <2>1. SdoRequest(request')
      BY <1>2, <1>9 DEF SdoTyped, SdoRequest, SegUploadReq
    <2> QED  BY <2>1, ObjectClientTyped
  <1>12. pc' = "send" => request' \in SegReqs' /\ goesOn' = "wait"  BY <1>5, <1>9 DEF SegReqs
  <1>13. ASSUME Live, got.cmd \in SdoCmds PROVE Calm(SdoCmds) /\ got # Failed
    <2>1. PICK A : A = SegAnswers  OBVIOUS
    <2>2. Calm(SdoCmds) /\ got \in A
      BY <1>1, <1>13, <2>1, Answered DEF UploadingSegments, SegExchange
    <2>3. ASSUME NEW m \in A PROVE m # Failed
      <3>1. \A x, more : SegUploadRes(x, more).cmd = "SEG_UP_RES"  BY DEF SegUploadRes
      <3>2. \A k \in 1 .. Len(Object) :
              Segments[k] = SegUploadRes(SubSeq(Object, k, k), k < Len(Object))
        BY Zenon DEF Segments
      <3>3. \A k \in 1 .. Len(Object) : Segments[k].cmd = "SEG_UP_RES"  BY <3>1, <3>2, Zenon
      <3>4. Abort.cmd = "ABORT" /\ Failed.cmd = "failed"  BY DEF Abort, Failed
      <3> QED  BY <2>1, <3>3, <3>4 DEF SegAnswers
    <2> QED  BY <2>2, <2>3
  <1>14. SegExchange'
    <2>1. Live' <=> Live  BY <1>1, <1>3, <1>9 DEF Live
    <2>2. ASSUME Live, pc' = "send" PROVE Calm(SdoCmds)'
      <3>1. got.cmd \in SdoCmds  BY <1>9, <2>2, SdoNone
      <3> QED  BY <1>2, <1>13, <2>2, <3>1
    <2> QED  BY <1>9, <1>12, <2>1, <2>2 DEF SegExchange, Exchange, Waits
  <1>15. ASSUME Quiet' PROVE Uploads'
    <2>1. Quiet  BY <1>3, <1>15 DEF Quiet
    <2>2. Uploads /\ IsSeq(job.buf)  BY <1>1, <2>1 DEF UploadingSegments, Uploads
    <2>3. PICK base, last \in 0 .. Len(Object) : UploadsTo(base, last)
      BY <2>2 DEF Uploads
    <2>4. Object' = Object /\ IsSeq(Object)  BY <1>1, <1>2, <1>9 DEF Object, SdoTyped, UpJob
    <2>5. PICK D : D = Segments  OBVIOUS
    <2>6. Segments' = D  BY <2>4, <2>5 DEF Segments
    <2>7. Brings(Line, {"SEG_UP_RES"}, Segments, base, last)'
      <3>1. Brings(Line, {"SEG_UP_RES"}, D, base, last)  BY <2>3, <2>5 DEF UploadsTo
      <3> QED  BY <1>2, <2>6, <3>1
    <2>8. SegReqs' = SegReqs /\ (sm0' = NoMsg \/ sm0' \in SegReqs')
      BY <1>2, <2>2 DEF Uploads, SegReqs
    <2>9. Len(Object) \in Nat /\ base \in Nat /\ last \in Nat /\ fails \in 0 .. 2
          /\ (base > 0 => base - 1 \in Nat /\ base - 1 < Len(Object) /\ (base - 1) + 1 = base
                          /\ base \in 1 .. Len(Object))
      <3>1. PICK S : Object \in Seq(S)  BY <2>4 DEF IsSeq
      <3> QED  BY <1>2, <2>3, <3>1 DEF Typed, MailTypeOK
    <2>10. /\ IsSeq(buf) /\ Gotten(base)'
           /\ fails = 0 => Len(buf) = base \/ (pc' = "idle" /\ job'.ret # "ok")
           /\ pc' = "idle" /\ job'.ret = "ok" => base = Len(Object)
      <3>1. CASE got.cmd = "SEG_UP_RES"
        <4>1. /\ base > 0 /\ got = Segments[base] /\ Gotten(base - 1)
              /\ fails = 0 => Len(job.buf) = base - 1
          BY <1>1, <2>3, <3>1 DEF UploadsTo
        <4>2. Segments[base] = SegUploadRes(SubSeq(Object, base, base), base < Len(Object))
          BY <2>9, <4>1, Zenon DEF Segments
        <4>3. PICK c : c = (base < Len(Object))  OBVIOUS
        <4>4. got = SegUploadRes(SubSeq(Object, base, base), c)  BY <4>1, <4>2, <4>3
        <4>5. got.data = SubSeq(Object, base, base) /\ got.more = c  BY <4>4 DEF SegUploadRes
        <4>6. buf = job.buf \o SubSeq(Object, (base - 1) + 1, (base - 1) + 1)
          BY <1>4, <2>9, <3>1, <4>1, <4>5
        <4>7. PICK k : k = base - 1  OBVIOUS
        <4>8. /\ k \in Nat /\ k < Len(Object) /\ k + 1 = base /\ Len(job.buf) <= k
              /\ Len(job.buf) = k => job.buf = SubSeq(Object, 1, k)
          BY <2>9, <4>1, <4>7 DEF Gotten
        <4>9. /\ IsSeq(buf) /\ Len(buf) = Len(job.buf) + 1 /\ Len(job.buf) \in Nat
              /\ Len(buf) = k + 1 => buf = SubSeq(Object, 1, k + 1)
          BY <2>2, <2>4, <4>6, <4>7, <4>8, PartGrows
        <4>10. Gotten(base)'
          <5>1. Len(buf) <= base /\ (Len(buf) = base => buf = SubSeq(Object, 1, base))
            BY <2>9, <4>8, <4>9
          <5> QED  BY <1>9, <2>4, <5>1 DEF Gotten
        <4>11. fails = 0 => Len(buf) = base  BY <2>9, <4>1, <4>9
        <4>12. pc' = "idle" => ~c  BY <1>9, <3>1, <4>5, Zenon
        <4>13. ~c => base = Len(Object)
          <5>1. base = Len(Object) \/ base < Len(Object)  BY <2>3, <2>9
          <5> QED  BY <4>3, <5>1, Zenon
        <4> QED  BY <4>9, <4>10, <4>11, <4>12, <4>13
      <3>2. CASE got.cmd # "SEG_UP_RES"
        <4>1. Gotten(base) /\ buf = job.buf  BY <1>4, <2>3, <3>2 DEF UploadsTo
        <4>2. Gotten(base)'  BY <1>9, <2>4, <4>1 DEF Gotten
        <4>3. ASSUME fails = 0, pc' = "send" PROVE FALSE
          <5>1. got = Failed /\ Live  BY <1>1, <1>9, <2>1, <3>2, <4>3 DEF Live, Quiet
          <5> QED  BY <1>13, <5>1, SdoNone
        <4> QED  BY <1>9, <2>2, <3>2, <4>1, <4>2, <4>3
      <3> QED  BY <3>1, <3>2
    <2>11. UploadsTo(base, last)'
      <3>1. pc' # "handle"  BY <1>9
      <3>2. fails' = 0 => Len(job'.buf) = base \/ Missed'
        BY <1>3, <1>9, <2>10 DEF Missed
      <3>3. pc' = "idle" /\ job'.ret = "ok" => base = Len(Object')  BY <2>4, <2>10
      <3>4. ~gone' /\ xfer'.dir = "up" =>
              last < Len(Object') /\ xfer'.rest = SubSeq(Object', last + 1, Len(Object'))
        BY <1>2, <2>3, <2>4 DEF UploadsTo
      <3> QED  BY <2>7, <2>10, <3>1, <3>2, <3>3, <3>4 DEF UploadsTo
    <2>12. /\ job'.SDOlen = Len(Object') /\ Len(Object') <= job'.psize /\ IsSeq(job'.buf)
      BY <1>9, <2>2, <2>4, <2>10 DEF Uploads
    <2>13. pc' \in {"send", "handle", "idle"} \cup Waits  BY <1>9
    <2> QED  BY <2>3, <2>4, <2>8, <2>11, <2>12, <2>13 DEF Uploads
  <1>16. UploadingSegments'
    BY <1>5, <1>9, <1>10, <1>12, <1>14, <1>15 DEF UploadingSegments
  <1> QED  BY <1>9, <1>11, <1>16 DEF ObjectInv

\* The next segment of what is left.
LEMMA WritesNext ==
  ASSUME SInv, SdoClient, DownJob, pc = "handle", job.rest # << >>, WriteNext(job),
         Live => Calm(SdoCmds) /\ Kept
  PROVE  ObjectInv'
  <1>1. /\ sm0' = sm0 /\ store' = store /\ xfer' = xfer
        /\ SdoTyped /\ (Calm(SdoCmds) => Calm(SdoCmds)')
    BY ObjectClientMail
  <1>2. PICK t : t = ~job.toggle  OBVIOUS
  <1>3. PICK next : next = SubSeq(job.rest, 1, 1)  OBVIOUS
  <1>4. PICK more : more = (Len(job.rest) > 1)  OBVIOUS
  <1>5. /\ job' = [job EXCEPT !.kind = "SDOwriteSegments", !.rest = Tail(job.rest), !.toggle = t]
        /\ pc' = "send" /\ goesOn' = "wait"
        /\ request' = SegDownloadReq(job.toggle, next, more)
        /\ dirty' = dirty /\ fails' = fails
    <2>1. Becomes([job EXCEPT !.kind = "SDOwriteSegments", !.rest = Tail(@), !.toggle = ~@])
      BY Zenon DEF WriteNext
    <2>2. [job EXCEPT !.kind = "SDOwriteSegments", !.rest = Tail(@), !.toggle = ~@]
            = [job EXCEPT !.kind = "SDOwriteSegments", !.rest = Tail(job.rest), !.toggle = t]
      BY <1>2, Zenon
    <2>3. PICK j : j = [job EXCEPT !.kind = "SDOwriteSegments", !.rest = Tail(job.rest),
                                   !.toggle = t]
      OBVIOUS
    <2>4. Becomes(j)  BY <2>1, <2>2, <2>3, Zenon
    <2>5. Post(SegDownloadReq(job.toggle, next, more), "wait")
      BY <1>3, <1>4, Zenon DEF WriteNext
    <2> QED  BY <2>3, <2>4, <2>5 DEF Becomes, Post, ghosts
  <1>6. job.rest \in Seq(Elements(job.data)) /\ job.toggle \in BOOLEAN /\ t \in BOOLEAN
    BY <1>2 DEF DownJob
  <1>7. /\ next \in Seq(Elements(job.data)) /\ Len(next) = 1 /\ next # << >>
        /\ Tail(job.rest) \in Seq(Elements(job.data)) /\ next \o Tail(job.rest) = job.rest
        /\ (Len(job.rest) > 1 <=> Tail(job.rest) # << >>)
    BY <1>3, <1>6, FirstAndRest
  <1>8. IsSeq(next) /\ next = <<next[1]>> /\ next[1] \in Elements(job.data)
    BY <1>7, Sequence
  <1>9. /\ job'.kind = "SDOwriteSegments" /\ job'.rest = Tail(job.rest) /\ job'.toggle = t
        /\ job'.data = job.data /\ job'.obj = job.obj
        /\ {"kind", "obj", "data", "rest", "toggle", "ret"} \subseteq DOMAIN job'
    BY <1>5 DEF DownJob
  <1>10. DownJob'  BY <1>6, <1>7, <1>9 DEF DownJob
  <1>11. request'.cmd = "SEG_DOWN_REQ" /\ request'.data = next
    BY <1>5 DEF SegDownloadReq
  <1>12. SdoRequest(request')  BY <1>7, <1>8, <1>11 DEF SdoRequest
  <1>13. SdoTyped'  BY <1>12, ObjectClientTyped
  <1>14. ASSUME Live' PROVE request' \in StoreReqs' /\ Calm(SdoCmds)'
    <2>1. Live  BY <1>5, <1>14 DEF Live
    <2>2. xfer.dir = "down" /\ xfer.obj = job.obj /\ xfer.size = Len(job.data)
          /\ xfer.data \o job.rest = job.data
      BY <2>1 DEF Kept, Storing1
    <2>3. PICK x : x = next[1]  OBVIOUS
    <2>4. <<x>> \o Tail(job.rest) = job.rest /\ x \in Elements(job.data) /\ next = <<x>>
      BY <1>7, <1>8, <2>3
    <2>5. Storing1(<<x>> \o job.rest)'
      BY <1>1, <1>9, <2>2, <2>4 DEF Storing1
    <2>6. next \in NextPieces'
      <3>1. x \in {y \in Elements(job.data) : Storing1(<<y>> \o job.rest)}'
        BY <1>9, <2>4, <2>5
      <3> QED  BY <2>4, <3>1 DEF NextPieces
    <2>7. more = (job'.rest # << >>)  BY <1>4, <1>7, <1>9
    <2>8. request' \in StoreReqs'
      <3>1. PICK n : n = (job'.rest # << >>)  OBVIOUS
      <3>2. more = n  BY <2>7, <3>1, Zenon
      <3>3. request' = [cmd |-> "SEG_DOWN_REQ", toggle |-> job.toggle, data |-> next, more |-> n]
        BY <1>5, <3>2 DEF SegDownloadReq
      <3>4. request' \in [cmd : {"SEG_DOWN_REQ"}, toggle : BOOLEAN, data : NextPieces', more : {n}]
        BY <1>6, <2>6, <3>3
      <3> QED  BY <3>1, <3>4, Zenon DEF StoreReqs
    <2> QED  BY <1>1, <2>1, <2>8
  <1>15. StoreExchange' /\ IsStored'
    BY <1>5, <1>14 DEF StoreExchange, Exchange, IsStored, Waits
  <1>16. DownloadingSegments'  BY <1>5, <1>10, <1>15 DEF DownloadingSegments
  <1> QED  BY <1>9, <1>13, <1>16 DEF ObjectInv

\* A write that returns.
LEMMA DownloadEnds ==
  ASSUME SInv, SdoClient, NEW ret, Return(job, ret), pc = "handle",
         \/ job.kind = "SDOwrite" /\ Downloading
         \/ job.kind = "SDOwriteSegments" /\ DownloadingSegments,
         Live /\ ret = "ok" => Calm(SdoCmds) /\ Object = job.data
  PROVE  ObjectInv'
  <1>1. /\ sm0' = sm0 /\ store' = store /\ xfer' = xfer /\ SdoTyped
    BY ObjectClientMail
  <1>2. job' = [job EXCEPT !.ret = ret] /\ pc' = "idle" /\ request' = request
        /\ dirty' = dirty /\ fails' = fails
    BY DEF Return, Becomes, ghosts
  <1>3. DownJob  BY DEF Downloading, DownloadingSegments
  <1>4. /\ job'.kind = job.kind /\ job'.ret = ret /\ job'.data = job.data /\ job'.obj = job.obj
        /\ job'.rest = job.rest /\ job'.toggle = job.toggle /\ DOMAIN job' = DOMAIN job
    BY <1>2, <1>3 DEF DownJob
  <1>5. DownJob'  BY <1>3, <1>4 DEF DownJob
  <1>6. SdoTyped'  BY <1>1, <1>2, ObjectClientTyped DEF SdoTyped
  <1>7. DownExchange' /\ StoreExchange'  BY <1>2 DEF DownExchange, StoreExchange, Exchange, Waits
  <1>8. IsStored'
    BY <1>1, <1>2, <1>4 DEF IsStored, Live, Calm, Object
  <1>9. job.kind = "SDOwrite" => Downloading'
    BY <1>4, <1>5, <1>7, <1>8 DEF Downloading
  <1>10. job.kind = "SDOwriteSegments" => DownloadingSegments'
    BY <1>2, <1>5, <1>7, <1>8 DEF DownloadingSegments
  <1> QED  BY <1>4, <1>6, <1>9, <1>10 DEF ObjectInv

\* The answer to the first chunk, and to the others.
LEMMA DownloadAnswered ==
  ASSUME SInv, SdoClient, WriteFirst
  PROVE  ObjectInv'
  <1>1. pc = "handle" /\ job.kind = "SDOwrite" /\ Downloading /\ DownJob
    BY ObjectClientMail DEF WriteFirst, Handles, ObjectInv, Downloading
  <1>2. ASSUME IsResponse(got), Live PROVE Calm(SdoCmds) /\ Kept
    <2>1. PICK A : A = DownAnswers  OBVIOUS
    <2>2. got.cmd \in SdoCmds  BY <1>2 DEF IsResponse, SdoCmds
    <2>3. Calm(SdoCmds) /\ got \in A
      BY <1>1, <1>2, <2>1, <2>2, Answered DEF Downloading, DownExchange
    <2>4. got # Abort  BY <1>2 DEF IsResponse, Abort
    <2> QED  BY <2>1, <2>3, <2>4 DEF DownAnswers
  <1>3. CASE Return(job, "error")  BY <1>1, <1>3, DownloadEnds
  <1>4. CASE IsResponse(got) /\ job.rest = << >> /\ Return(job, "ok")
    BY <1>1, <1>2, <1>4, DownloadEnds DEF Kept
  <1>5. CASE IsResponse(got) /\ job.rest # << >> /\ WriteNext(job)
    BY <1>1, <1>2, <1>5, WritesNext
  <1> QED  BY <1>3, <1>4, <1>5 DEF WriteFirst

LEMMA StoreAnswered ==
  ASSUME SInv, SdoClient, WriteSegment
  PROVE  ObjectInv'
  <1>1. pc = "handle" /\ job.kind = "SDOwriteSegments" /\ DownloadingSegments /\ DownJob
    BY ObjectClientMail DEF WriteSegment, Handles, ObjectInv, DownloadingSegments
  <1>2. ASSUME got \in {Failed, SegDownloadRes}, Live PROVE Calm(SdoCmds) /\ Kept /\ got # Failed
    <2>1. PICK A : A = StoreAnswers  OBVIOUS
    <2>2. got.cmd \in SdoCmds  BY <1>2 DEF Failed, SegDownloadRes, SdoCmds
    <2>3. Calm(SdoCmds) /\ got \in A
      BY <1>1, <1>2, <2>1, <2>2, Answered DEF DownloadingSegments, StoreExchange
    <2>4. got # Abort /\ Failed # SegDownloadRes
      BY <1>2 DEF Failed, SegDownloadRes, Abort
    <2> QED  BY <2>1, <2>3, <2>4 DEF StoreAnswers
  <1>3. CASE Return(job, "error")  BY <1>1, <1>3, DownloadEnds
  <1>4. CASE got = SegDownloadRes /\ job.rest = << >> /\ Return(job, "ok")
    BY <1>1, <1>2, <1>4, DownloadEnds DEF Kept
  <1>5. CASE got \in {Failed, SegDownloadRes} /\ job.rest # << >> /\ WriteNext(job)
    BY <1>1, <1>2, <1>5, WritesNext
  <1> QED  BY <1>3, <1>4, <1>5 DEF WriteSegment

LEMMA ObjectClient == ASSUME SInv, SdoClient PROVE ObjectInv'
  BY UploadBegins, DownloadBegins, UploadAnswered, SegmentAnswered, DownloadAnswered,
     StoreAnswered DEF SdoClient

-----------------------------------------------------------------------------
(* The invariant of the objects.                                           *)

LEMMA InitSInv == Init => SInv
  <1> SUFFICES ASSUME Init PROVE SInv  OBVIOUS
  <1>1. Well  BY InitFInv DEF FInv
  <1>2. /\ request = NoMsg /\ sm0 = NoMsg /\ job.kind = "none" /\ xfer = NoTransfer
        /\ store \in [Objects -> {DataOf(0, n) : n \in Stored}]
    BY DEF Init, MailInit, SdoInit
  <1>3. DOMAIN store = Objects /\ \A o \in Objects : IsSeq(store[o]) /\ store[o] # << >>
    <2> DEFINE D == {DataOf(0, n) : n \in Stored}
    <2>1. \A d \in D : IsSeq(d) /\ d # << >>
      <3>1. \A n \in Stored : n \in Nat /\ n > 0  BY SDOAssumption
      <3>2. \A n \in Stored : IsSeq(DataOf(0, n)) /\ DataOf(0, n) # << >>  BY <3>1, DataIsSeq
      <3> QED  BY <3>2
    <2> HIDE DEF D
    <2>2. store \in [Objects -> D]  BY <1>2 DEF D
    <2> QED  BY <2>1, <2>2
  <1>4. SdoTyped  BY <1>2, <1>3 DEF SdoTyped, SdoRequest, NoMsg, NoTransfer
  <1>5. ObjectInv  BY <1>2, <1>4 DEF ObjectInv
  <1> QED  BY <1>1, <1>5 DEF SInv

LEMMA ObjectMaster == ASSUME SInv, IInv', Master PROVE ObjectInv'
  <1>0. Typed /\ Jobs /\ Requests  BY DEF SInv, Well, IInv
  <1> DEFINE Other == /\ UNCHANGED sdoVars /\ sm0' = sm0 /\ job'.kind \notin SdoKinds
                      /\ (request' = request \/ request'.cmd \notin SdoReqs)
  <1>1. ASSUME NEW kinds, NEW cmds, OtherStep(kinds, cmds), ClientStep, UNCHANGED sdoVars,
               kinds \cap SdoKinds = {}, cmds \cap SdoReqs = {}
        PROVE  Other
    BY <1>1 DEF OtherStep, ClientStep
  <1>2. ASSUME Other PROVE ObjectInv'  BY <1>2, ObjectOtherClient
  <1> HIDE DEF Other
  <1>3. CASE MasterMail /\ UNCHANGED protocolVars
    BY <1>3, ObjectMail DEF protocolVars
  <1>4. CASE Sdo(SdoClient)  BY <1>4, ObjectClient DEF Sdo
  <1>5. CASE Foe(FoeClient)
    <2>1. FoeKinds \cap SdoKinds = {} /\ FoeReqs \cap SdoReqs = {}
      BY DEF SdoKinds, FoeKinds, SdoReqs, FoeReqs
    <2> QED  BY <1>0, <1>1, <1>2, <1>5, <2>1, FoeOther, FoeSteps DEF Foe
  <1>6. CASE Soe(SoeClient)
    <2>1. ClientStep /\ job'.kind \notin SdoKinds
      BY <1>0, <1>6, SoeSteps, SoeOther DEF Soe, SdoKinds
    <2>2. request' = request \/ request'.cmd \notin SdoReqs
      BY <1>6 DEF Soe, SoeClient, SoEread, SoEwrite, ReadFragment, WriteGoesOn, WriteEnds,
         Begin, BeginAt, ReadReq, WriteReq, WriteFragment, Post, Return, ReceiveNext, SdoReqs
    <2>3. Other  BY <1>6, <2>1, <2>2 DEF Soe, Other, ClientStep
    <2> QED  BY <1>2, <2>3
  <1>7. CASE Eoe(EoeClient)
    <2>1. EoeKinds \cap SdoKinds = {} /\ EoeReqs \cap SdoReqs = {}
      BY DEF EoeKinds, SdoKinds, EoeReqs, SdoReqs
    <2>2. CASE EOEdefinehook
      <3>1. UNCHANGED <<master, job, outq, lastOut, taken, sm0, sm1, gone, ghosts, sdoVars>>
        BY <1>7, <2>2 DEF Eoe, EOEdefinehook, slaveMail, environment
      <3> QED  BY <3>1, ObjectRests
    <2> QED  BY <1>0, <1>1, <1>2, <1>7, <2>1, <2>2, EoeOther, EoeSteps DEF Eoe
  <1>8. CASE Eoe(HookFragment)  BY <1>8, ObjectMail DEF Eoe
  <1>9. CASE Info(InfoClient)
    <2>1. InfoKinds \cap SdoKinds = {} /\ InfoReqs \cap SdoReqs = {}
      BY DEF InfoKinds, SdoKinds, InfoReqs, SdoReqs
    <2> QED  BY <1>0, <1>1, <1>2, <1>9, <2>1, InfoOther, InfoSteps DEF Info
  <1> QED
    BY <1>3, <1>4, <1>5, <1>6, <1>7, <1>8, <1>9 DEF Master, Eoe

LEMMA ObjectSlave == ASSUME SInv, IInv', Slave PROVE ObjectInv'
  <1>1. Unsent  BY DEF SInv, Well
  <1>2. CASE SlaveMail /\ UNCHANGED protocolVars
    BY <1>2, ObjectSlaveMail DEF protocolVars
  <1>3. CASE Sdo(SdoServer)  BY <1>3, ObjectServer DEF Sdo
  <1>4. CASE Foe(FoeServer)
    <2>1. FoeReqs \cap SdoReqs = {}  BY DEF SdoReqs, FoeReqs
    <2> QED  BY <1>1, <1>4, <2>1, OtherServers, ObjectOtherServer DEF Foe
  <1>5. CASE Soe(SoeServer)
    <2>1. SoeCmds \cap SdoReqs = {}  BY DEF SoeCmds, SdoReqs
    <2> QED  BY <1>1, <1>5, <2>1, OtherServers, ObjectOtherServer DEF Soe
  <1>6. CASE Eoe(EoeServer)
    <2>1. EoeReqs \cap SdoReqs = {}  BY DEF EoeReqs, SdoReqs
    <2> QED  BY <1>1, <1>6, <2>1, OtherServers, ObjectOtherServer DEF Eoe
  <1>7. CASE Info(InfoServer)
    <2>1. InfoReqs \cap SdoReqs = {}  BY DEF InfoReqs, SdoReqs
    <2> QED  BY <1>1, <1>7, <2>1, OtherServers, ObjectOtherServer DEF Info
  <1> QED  BY <1>2, <1>3, <1>4, <1>5, <1>6, <1>7 DEF Slave

LEMMA NextSInv == SInv /\ [Next]_vars => SInv'
  <1> SUFFICES ASSUME SInv, [Next]_vars PROVE SInv'  OBVIOUS
  <1>1. IInv'  BY NextIInv DEF SInv, Well
  <1>2. CASE Master
    <2>1. ObjectInv'  BY <1>1, <1>2, ObjectMaster
    <2> QED  BY <1>1, <1>2, <2>1, MasterWell DEF SInv, Well
  <1>3. CASE Slave
    <2>1. ObjectInv'  BY <1>1, <1>3, ObjectSlave
    <2> QED  BY <1>1, <1>3, <2>1, SlaveWell DEF SInv, Well
  <1>4. CASE UNCHANGED vars
    <2>1. UNCHANGED <<master, job, outq, lastOut, taken, sm0, sm1, gone, ghosts, sdoVars>>
      BY <1>4 DEF vars, mailVars, protocolVars, transfer, slaveMail, environment
    <2>2. UNCHANGED <<request, sm0, job, repeats, fails, idns, answer, part, slaveTx, parts>>
      BY <1>4 DEF vars, mailVars, protocolVars, master, transfer, ghosts, soeVars, eoeVars,
         slaveEoe, infoVars
    <2>3. Unsent' /\ Requests' /\ Jobs' /\ Counted'
      BY <2>2 DEF SInv, Well, Unsent, Requests, Jobs, Counted
    <2>4. ObjectInv'  BY <2>1, ObjectRests
    <2> QED  BY <1>1, <2>3, <2>4 DEF SInv, Well
  <1> QED  BY <1>2, <1>3, <1>4 DEF Next

\* Between an SDO transfer and the server over a mailbox that held nothing of
\* an earlier one, there is always one request or one answer to come; of a
\* segmented read the segments that come are the next ones of the object, in
\* order, also behind calls that failed.
THEOREM ObjectsInvariant == Spec => []SInv
  <1>1. Init => SInv  BY InitSInv
  <1>2. SInv /\ [Next]_vars => SInv'  BY NextSInv
  <1> QED  BY <1>1, <1>2, PTL DEF Spec

\* An object read or written with success is the same on both sides and fits
\* the buffer, for every size of object and buffer, with any losses and
\* repeats; a read of which calls failed too when it has all that was announced.
THEOREM WholeObjects == Spec => []ObjectFits
  <1>1. SInv => ObjectFits
    <2> SUFFICES ASSUME SInv PROVE ObjectFits  OBVIOUS
    <2>1. fails \in 0 .. 2 /\ ObjectInv /\ Counted
      BY DEF SInv, Well, IInv, Typed, MailTypeOK
    <2>2. ASSUME job.kind = "SDOreadSegments", Quiet
          PROVE  /\ Len(job.buf) <= job.psize
                 /\ pc = "idle" /\ job.ret = "ok" /\ (fails = 0 \/ Len(job.buf) = job.SDOlen)
                      => job.buf = Object
      <3>1. Uploads /\ UpJob  BY <2>1, <2>2 DEF ObjectInv, UploadingSegments
      <3>2. PICK base, last \in 0 .. Len(Object) : UploadsTo(base, last)
        BY <3>1 DEF Uploads
      <3>3. IsSeq(Object) /\ IsSeq(job.buf) /\ job.psize \in Nat /\ Len(Object) <= job.psize
            /\ job.SDOlen = Len(Object)
        BY <2>1, <3>1 DEF ObjectInv, SdoTyped, UpJob, Object, Uploads
      <3>4. Len(Object) \in Nat /\ Len(job.buf) \in Nat
        <4>1. PICK S, T : Object \in Seq(S) /\ job.buf \in Seq(T)  BY <3>3 DEF IsSeq
        <4> QED  BY <4>1
      <3>5. Len(job.buf) <= base
        BY <3>2, <3>4 DEF UploadsTo, Gotten
      <3>6. ASSUME pc = "idle", job.ret = "ok", fails = 0 \/ Len(job.buf) = job.SDOlen
            PROVE  job.buf = Object
        <4>1. base = Len(Object) /\ Gotten(base)  BY <3>2, <3>6 DEF UploadsTo
        <4>2. ~Missed  BY <3>6 DEF Missed, Waits
        <4>3. fails = 0 => Len(job.buf) = base  BY <3>2, <3>6, <4>2 DEF UploadsTo
        <4>4. job.buf = SubSeq(Object, 1, Len(Object))  BY <3>3, <3>6, <4>1, <4>3 DEF Gotten
        <4>5. SubSeq(Object, 1, Len(Object)) = Object
          <5>1. PICK S : Object \in Seq(S)  BY <3>3 DEF IsSeq
          <5> QED  BY <5>1
        <4> QED  BY <4>4, <4>5
      <3>7. Len(job.buf) <= job.psize  BY <3>2, <3>3, <3>4, <3>5
      <3> QED  BY <3>6, <3>7
    <2>3. ASSUME job.kind = "SDOread"
          PROVE  /\ Quiet => Len(job.buf) <= job.psize
                 /\ ~dirty /\ pc = "idle" /\ job.ret = "ok" => job.buf = Object
      <3>1. Uploading /\ UpJob  BY <2>1, <2>3 DEF ObjectInv, Uploading
      <3>2. ASSUME ~dirty, pc = "idle", job.ret = "ok" PROVE Live
        BY <2>1, <3>1, <3>2 DEF Uploading, Live
      <3>3. Len(<< >>) = 0 /\ job.psize \in Nat  BY <3>1 DEF UpJob
      <3>4. ~dirty /\ pc = "idle" /\ job.ret = "ok" =>
              job.buf = Object /\ Len(Object) <= job.psize
        BY <3>1, <3>2 DEF Uploading
      <3> QED  BY <3>1, <3>3, <3>4 DEF Uploading, Quiet
    <2>4. ASSUME job.kind \in {"SDOwrite", "SDOwriteSegments"}, ~dirty, fails = 0, pc = "idle",
                 job.ret = "ok"
          PROVE  Object = job.data
      BY <2>1, <2>4 DEF ObjectInv, Downloading, DownloadingSegments, IsStored, Live
    <2>5. ObjectIsWhole
      BY <2>2, <2>3, <2>4 DEF ObjectIsWhole, Done, Object, Quiet
    <2>6. BufferHolds  BY <2>2, <2>3 DEF BufferHolds, Quiet
    <2> QED  BY <2>5, <2>6 DEF ObjectFits
  <1>2. Spec => []SInv  BY ObjectsInvariant
  <1> QED  BY <1>1, <1>2, PTL

-----------------------------------------------------------------------------
(* Answers in parts, that a single request brings.                         *)

\* Between the look at an answer and its reading it is there, and the wait for a
\* repeat is one that was asked for.
Looks ==
    /\ pc \in {"ack", "refill"} => repeats # "none"
    /\ pc = "read" /\ sm1 = NoMsg => taken \/ lastOut = NoMsg

\* Nothing was lost since the mailbox was drained.
Smooth == Live /\ repeats = "none" /\ pc # "repeat"

\* A transfer of one call at a time ends with the one that fails.
FailsOnce ==
    fails > 0 => \/ pc = "drain"
                 \/ pc = "handle" /\ got = Failed
                 \/ pc = "idle" /\ job.ret # "ok"

\* The slave was asked with q for a series, has queued it up to last, and has
\* the rest; the master has what is up to first.
SeriesTo(C, q, rest, series, first, last) ==
    /\ Brings(Line, C, series, first, last)
    /\ ~gone /\ rest # << >> =>
         last < Len(series) /\ rest = SubSeq(series, last + 1, Len(series))
    /\ sm0 \in {NoMsg, q}
    /\ pc = "send" => sm0 = NoMsg /\ request = q /\ goesOn = "wait"
    /\ pc = "send" \/ sm0 = q => first = 0 /\ last = 0 /\ rest = << >>
    /\ pc \in {"send", "wait", "read", "handle", "idle"}

\* As many as there are, and no more than fit.
Least(a, b) == IF a <= b THEN a ELSE b

-----------------------------------------------------------------------------
(* The object dictionary and PDOs.                                         *)

All == DataOf(0, ListParts)
List == [k \in 1 .. ListParts |-> ListRes(<<Chunk(0, k)>>, ListParts - k)]
ListRead == IF ListParts <= MaxParts THEN ListParts ELSE MaxParts + 1

\* The list after k parts.
Listed(k) == job.x = k /\ job.list = SubSeq(All, 1, Least(k, MaxList))

ListTo(base, last) ==
    /\ SeriesTo({"ODLIST_RES"}, ListReq, parts, List, base, last)
    /\ IF pc = "handle" /\ got.cmd = "ODLIST_RES"
       THEN base > 0 /\ got = List[base] /\ Listed(base - 1) /\ base - 1 <= MaxParts
       ELSE Listed(base)
    /\ pc \in {"send", "wait", "read"} => base <= MaxParts
    /\ pc = "idle" /\ job.ret = "ok" => base = ListRead

Unasked == parts = << >> /\ sm0.cmd # "ODLIST_REQ"

Listing ==
    /\ {"kind", "list", "x", "clean", "ret"} \subseteq DOMAIN job
    /\ FailsOnce
    /\ pc = "drain" => request = ListReq /\ goesOn = "wait" /\ Listed(0) /\ (job.clean => Unasked)
    /\ Smooth /\ job.clean => \E base, last \in 0 .. ListParts : ListTo(base, last)

DescribeReqs == {DescribeReq(job.item)}
DescribeAnswers == {InfoError, [cmd |-> "OD_RES", item |-> job.item]}
DescribeExchange == Exchange({"OD_RES"}, DescribeReqs, DescribeAnswers)

Describing ==
    /\ {"kind", "item", "of", "ret"} \subseteq DOMAIN job
    /\ FailsOnce
    /\ DescribeExchange
    /\ Live /\ pc = "idle" /\ job.ret = "ok" => job.of = job.item

EntryReqs == {EntryReq(job.item, job.sub)}
EntryAnswers == {InfoError, [cmd |-> "OE_RES", item |-> job.item, sub |-> job.sub]}
EntryExchange == Exchange({"OE_RES"}, EntryReqs, EntryAnswers)

Entering ==
    /\ {"kind", "item", "sub", "entries", "list", "clean", "ret"} \subseteq DOMAIN job
    /\ FailsOnce
    /\ EntryExchange
    /\ IsSeq(job.list) /\ job.sub \in Nat
    /\ pc # "idle" => Len(job.list) = job.sub
    /\ job.clean => \A k \in DOMAIN job.list : job.list[k] \in {<<job.item, k - 1>>, << >>}

PdoReq ==
    [cmd |-> "RXPDO", data |-> SubSeq(job.data, 1, IF Len(job.data) > 1 THEN 1 ELSE Len(job.data))]

Pushed == sm0 = PdoReq \/ (sm0 = NoMsg /\ (gone \/ rxpdo = PdoReq.data))

Pushing ==
    /\ {"kind", "data", "ret"} \subseteq DOMAIN job /\ IsSeq(job.data)
    /\ pc \in {"drain", "send", "handle", "idle"}
    /\ pc \in {"drain", "send"} => request = PdoReq /\ goesOn = "handle"
    /\ (pc = "handle" /\ got = Sent) \/ (pc = "idle" /\ job.ret = "ok") => Pushed

InfoInv ==
    /\ Looks
    /\ job.kind = "readODlist" => Listing
    /\ job.kind = "readODdescription" => Describing
    /\ job.kind = "readOE" => Entering
    /\ job.kind = "RxPDO" => Pushing

DInv == Well /\ InfoInv


-----------------------------------------------------------------------------
(* A series of answers in the line of which nothing is lost.                *)

LEMMA LooksMail ==
  ASSUME Typed, Looks, MasterMail \/ HookFragment
  PROVE  /\ Looks'
         /\ pc # "drain" => /\ (repeats' = "none" => repeats = "none" /\ pc # "repeat")
                            /\ ~ReadAnswer /\ pc' = "handle" /\ pc \in Waits => fails' > 0
  <1>0. goesOn \in {"wait", "handle", "empty"} /\ fails \in 0 .. 2
    BY DEF Typed, MailTypeOK
  <1> USE DEF Looks, Fails, Hand, ghosts, slaveMail, Waits
  <1>1. CASE SendOk \/ SendUnnoticed \/ SendFails
    BY <1>0, <1>1 DEF SendOk, SendUnnoticed, SendFails
  <1>2. CASE Emptied \/ EmptyExpires
    BY <1>0, <1>2 DEF Emptied, EmptyExpires
  <1>3. CASE Available \/ TimerExpires
    BY <1>0, <1>3 DEF Available, TimerExpires, ReadAnswer
  <1>4. CASE ReadAnswer \/ ReadNotice
    BY <1>0, <1>4 DEF ReadAnswer, ReadNotice
  <1>5. CASE ReadLost \/ AskRepeat \/ RepeatAcknowledged
    BY <1>5 DEF ReadLost, AskRepeat, RepeatAcknowledged
  <1>6. CASE HookFragment
    <2>1. ~ReadAnswer /\ pc \in {"read", "drain"}  BY <1>6 DEF HookFragment, ReadAnswer
    <2>2. CASE pc = "drain"
      <3>1. Drained  BY <1>6, <2>2 DEF HookFragment
      <3> QED  BY <2>2, <3>1 DEF Drained
    <2>3. CASE pc = "read"
      <3>1. /\ taken' = TRUE /\ lastOut' = lastOut /\ repeats' = repeats /\ fails' >= fails
            /\ pc' = pc \/ (pc' = "handle" /\ fails' > 0)
        BY <1>0, <1>6, <2>3 DEF HookFragment
      <3> QED  BY <2>1, <2>3, <3>1
    <2> QED  BY <2>1, <2>2, <2>3
  <1>7. CASE DrainNothing \/ DrainMessage \/ DrainLost
    BY <1>7 DEF DrainNothing, DrainMessage, DrainLost, Drained
  <1> QED
    BY <1>1, <1>2, <1>3, <1>4, <1>5, <1>6, <1>7 DEF MasterMail

LEMMA LooksSlave ==
  ASSUME Looks, SlaveMail
  PROVE  Looks'
  <1> USE DEF Looks, master, ghosts
  <1>1. CASE Publish  BY <1>1 DEF Publish
  <1>2. CASE Repeat  BY <1>2 DEF Repeat
  <1>3. CASE Notify  BY <1>3 DEF Notify
  <1>4. CASE Vanish  BY <1>4 DEF Vanish
  <1> QED  BY <1>1, <1>2, <1>3, <1>4 DEF SlaveMail

LEMMA LooksRests ==
  ASSUME Looks, UNCHANGED <<pc, repeats, sm1, taken, lastOut>> \/ pc' \in {"idle", "drain", "send", "wait"}
  PROVE  Looks'
  BY DEF Looks

\* As long as nothing was lost, the series stays as it is, or its first one is
\* read, or the slave is gone with it.
LEMMA SmoothMail ==
  ASSUME IInv, IInv', Looks, Smooth, Smooth', MasterMail \/ HookFragment \/ SlaveMail,
         NEW C, C \cap NoAnswers = {}, NEW series,
         NEW first \in Nat, NEW last \in Nat, Brings(Line, C, series, first, last)
  PROVE  \/ gone' /\ ~ReadAnswer /\ Brings(Line', C, series, first, first)
         \/ Brings(Line', C, series, first, last) /\ (ReadAnswer => got'.cmd \notin C)
         \/ /\ first < last /\ Brings(Line', C, series, first + 1, last)
            /\ ReadAnswer /\ got' = series[first + 1] /\ got'.cmd \in C
  <1>1. Quiet /\ Quiet' /\ pc # "drain" /\ fails' = 0 /\ repeats = "none"
    BY DEF Smooth, Quiet, Live
  <1>2. SeriesMoves(C, C, series, first, last)  BY <1>1, SeriesMail
  <1>3. ~(pc \in Waits /\ Held /\ sm1 = NoMsg /\ lastOut.cmd \in C)
    <2> SUFFICES ASSUME pc \in Waits, Held, sm1 = NoMsg, lastOut.cmd \in C PROVE FALSE
      OBVIOUS
    <2>1. ~taken /\ pc \in {"read", "repeat", "ack", "refill"}  BY DEF Held
    <2>2. lastOut = NoMsg  BY <1>1, <2>1 DEF Looks, Smooth
    <2> QED  BY <2>2 DEF NoMsg, NoAnswers
  <1>4. ~(fails' > 0)  BY <1>1
  <1> QED  BY <1>2, <1>3, <1>4 DEF SeriesMoves

\* Calls that failed are counted until the next draining.
LEMMA CallCounts ==
  ASSUME Typed, MasterMail \/ HookFragment, pc # "drain", fails' = 0
  PROVE  fails = 0
  <1>0. fails \in 0 .. 2  BY DEF Typed, MailTypeOK
  <1> USE DEF Fails, Hand, ghosts
  <1>1. CASE SendOk \/ SendUnnoticed \/ SendFails \/ Emptied \/ EmptyExpires
    BY <1>0, <1>1 DEF SendOk, SendUnnoticed, SendFails, Emptied, EmptyExpires
  <1>2. CASE Available \/ TimerExpires \/ ReadAnswer \/ ReadNotice
    BY <1>0, <1>2 DEF Available, TimerExpires, ReadAnswer, ReadNotice
  <1>3. CASE ReadLost \/ AskRepeat \/ RepeatAcknowledged
    BY <1>3 DEF ReadLost, AskRepeat, RepeatAcknowledged
  <1>4. CASE HookFragment  BY <1>0, <1>4 DEF HookFragment
  <1> QED
    BY <1>1, <1>2, <1>3, <1>4 DEF MasterMail, DrainNothing, DrainMessage, DrainLost

\* The series while the master sends, waits and reads.
LEMMA SeriesToMail ==
  ASSUME IInv, IInv', Looks, Smooth', pc # "drain", MasterMail \/ HookFragment,
         NEW C, C \cap NoAnswers = {}, NEW q, NEW rest, NEW series,
         NEW first \in Nat, NEW last \in Nat,
         Smooth => SeriesTo(C, q, rest, series, first, last)
  PROVE  /\ Smooth /\ UNCHANGED <<job, gone>> /\ pc \in {"send", "wait", "read"}
         /\ pc' \in {"wait", "read", "handle"}
         /\ \/ \E l \in {first, last} : SeriesTo(C, q, rest, series, first, l)'
               /\ ~(pc' = "handle" /\ got'.cmd \in C)
            \/ /\ first < last /\ SeriesTo(C, q, rest, series, first + 1, last)'
               /\ pc' = "handle" /\ got' = series[first + 1] /\ got'.cmd \in C
  <1>1. /\ Typed /\ pc \notin {"idle", "handle"}  BY MailPlaces DEF IInv
  <1>2. /\ Looks' /\ repeats = "none" /\ pc # "repeat"
        /\ ~ReadAnswer /\ pc' = "handle" /\ pc \in Waits => fails' > 0
    BY <1>1, LooksMail DEF Smooth
  <1>3. dirty' = dirty  BY <1>1, CallMoves
  <1>5. Smooth /\ SeriesTo(C, q, rest, series, first, last)
    <2>1. fails = 0
      BY <1>1, <1>3, CallCounts DEF Smooth, Live
    <2>2. Smooth  BY <1>2, <1>3, <2>1 DEF Smooth, Live
    <2> QED  BY <2>2
  <1>6. pc \in {"send", "wait", "read"} /\ (pc = "send" => goesOn = "wait" /\ request = q)
    BY <1>1, <1>5 DEF SeriesTo
  <1>7. /\ pc' \in {"handle"} \cup Waits /\ (pc = "send" => pc' \in {"handle", "wait"})
        /\ sm0' = sm0 \/ (pc = "send" /\ sm0' = request)
        /\ ~ReadAnswer /\ pc' = "handle" => got' = Failed /\ fails' > 0
        /\ ReadAnswer => pc = "read" /\ pc' = "handle"
        /\ UNCHANGED <<job, gone>>
    BY <1>1, <1>6, WaitsMove DEF Waits
  <1>8. pc' \in {"wait", "read", "handle"}
    BY <1>2, <1>7 DEF Looks, Smooth, Waits
  <1>9. pc' = "handle" => ReadAnswer  BY <1>7 DEF Smooth, Live
  <1>10. \/ gone' /\ ~ReadAnswer /\ Brings(Line', C, series, first, first)
         \/ Brings(Line', C, series, first, last) /\ (ReadAnswer => got'.cmd \notin C)
         \/ /\ first < last /\ Brings(Line', C, series, first + 1, last)
            /\ ReadAnswer /\ got' = series[first + 1] /\ got'.cmd \in C
    BY <1>5, SmoothMail DEF SeriesTo
  <1>11. /\ sm0' \in {NoMsg, q}
         /\ (sm0' = q => first = 0 /\ last = 0 /\ rest = << >>)
         /\ (~gone' /\ rest # << >> =>
              last < Len(series) /\ rest = SubSeq(series, last + 1, Len(series)))
    BY <1>5, <1>6, <1>7 DEF SeriesTo
  <1>12. CASE gone' /\ ~ReadAnswer /\ Brings(Line', C, series, first, first)
    <2>1. SeriesTo(C, q, rest, series, first, first)'
      BY <1>8, <1>11, <1>12 DEF SeriesTo
    <2> QED  BY <1>5, <1>6, <1>7, <1>8, <1>9, <1>12, <2>1
  <1>13. CASE Brings(Line', C, series, first, last) /\ (ReadAnswer => got'.cmd \notin C)
    <2>1. SeriesTo(C, q, rest, series, first, last)'
      BY <1>8, <1>11, <1>13 DEF SeriesTo
    <2> QED  BY <1>5, <1>6, <1>7, <1>8, <1>9, <1>13, <2>1
  <1>14. CASE /\ first < last /\ Brings(Line', C, series, first + 1, last)
              /\ ReadAnswer /\ got' = series[first + 1] /\ got'.cmd \in C
    <2>1. sm0' # q  BY <1>11, <1>14
    <2>2. SeriesTo(C, q, rest, series, first + 1, last)'
      BY <1>8, <1>11, <1>14, <2>1 DEF SeriesTo
    <2> QED  BY <1>5, <1>6, <1>7, <1>8, <1>14, <2>2
  <1> QED  BY <1>10, <1>12, <1>13, <1>14


\* The series while the slave publishes, repeats, reports, or is gone.
LEMMA SeriesToSlave ==
  ASSUME IInv, IInv', Looks, Smooth', SlaveMail,
         NEW C, C \cap NoAnswers = {}, NEW q, NEW rest, NEW series,
         NEW first \in Nat, NEW last \in Nat,
         Smooth => SeriesTo(C, q, rest, series, first, last)
  PROVE  Smooth /\ \E l \in {first, last} : SeriesTo(C, q, rest, series, first, l)'
  <1>1. /\ UNCHANGED <<pc, request, goesOn, got, fails, dirty, repeats, job>> /\ sm0' \in {sm0, NoMsg}
        /\ ~ReadAnswer /\ (gone => gone')
    BY DEF SlaveMail, Publish, Repeat, Notify, Vanish, master, ghosts, transfer, ReadAnswer,
       Hand, environment
  <1>2. Smooth  BY <1>1 DEF Smooth, Live
  <1>3. SeriesTo(C, q, rest, series, first, last)  BY <1>2
  <1>4. \/ gone' /\ Brings(Line', C, series, first, first)
        \/ Brings(Line', C, series, first, last)
    <2>1. Brings(Line, C, series, first, last)  BY <1>3 DEF SeriesTo
    <2> QED  BY <1>1, <1>2, <2>1, SmoothMail
  <1>5. CASE gone' /\ Brings(Line', C, series, first, first)
    <2>1. SeriesTo(C, q, rest, series, first, first)'  BY <1>1, <1>3, <1>5 DEF SeriesTo
    <2> QED  BY <1>2, <2>1
  <1>6. CASE Brings(Line', C, series, first, last)
    <2>1. SeriesTo(C, q, rest, series, first, last)'  BY <1>1, <1>3, <1>6 DEF SeriesTo
    <2> QED  BY <1>2, <2>1
  <1> QED  BY <1>4, <1>5, <1>6

\* The series while another protocol of the slave answers or sends, or nothing
\* moves.
LEMMA SeriesToOther ==
  ASSUME Typed, NEW C, NEW q, NEW rest, NEW series, NEW first \in Nat, NEW last \in Nat,
         SeriesTo(C, q, rest, series, first, last),
         NEW cmds, NEW answers, q.cmd \notin cmds, answers \cap C = {},
         OtherServer(cmds, answers)
  PROVE  SeriesTo(C, q, rest, series, first, last)' /\ sm0' = sm0
  <1>1. UNCHANGED <<pc, request, goesOn, got, gone, lastOut, taken, sm1>>
    BY DEF OtherServer, master, environment
  <1>2. sm0' = sm0  BY DEF OtherServer, SeriesTo
  <1>3. Brings(Line, C, series, first, last)  BY DEF SeriesTo
  <1>4. Brings(Line', C, series, first, last)
    <2>1. CASE outq' = outq
      <3>1. Held' <=> Held  BY <1>1 DEF Held
      <3>2. Line' = Line  BY <1>1, <2>1, <3>1, LineStays
      <3> QED  BY <1>3, <3>2
    <2>2. ASSUME NEW m, m.cmd \in answers, outq' = Append(outq, m)
          PROVE  Brings(Line', C, series, first, last)
      <3>1. Line' = Append(Line, m) /\ IsSeq(Line)  BY <1>1, <2>2, LineQueued, LineFlies DEF Typed
      <3>2. m.cmd \notin C  BY <2>2
      <3>3. Brings(Append(Line, m), C, series, first, last)  BY <1>3, <3>1, <3>2, BringsMore
      <3> QED  BY <3>1, <3>3
    <2> QED  BY <1>2, <2>1, <2>2 DEF OtherServer
  <1> QED  BY <1>1, <1>2, <1>4 DEF SeriesTo

\* The next of the series is queued.
LEMMA SeriesQueued ==
  ASSUME Typed, NEW C, NEW q, NEW rest, NEW series, NEW first \in Nat, NEW last \in Nat,
         IsSeq(series), SeriesTo(C, q, rest, series, first, last), ~gone, rest # << >>,
         Head(rest).cmd \in C, outq' = Append(outq, Head(rest)),
         UNCHANGED <<pc, request, goesOn, sm0, sm1, lastOut, taken, gone>>
  PROVE  last < Len(series) /\ SeriesTo(C, q, Tail(rest), series, first, last + 1)'
  <1>1. PICK n : n = Len(series)  OBVIOUS
  <1>2. last < n /\ rest = SubSeq(series, last + 1, n)  BY <1>1 DEF SeriesTo
  <1>3. /\ n \in Nat /\ Tail(rest) = SubSeq(series, last + 2, n)
        /\ Len(rest) = n - last /\ IsSeq(rest)
    BY <1>1, <1>2, Pieces
  <1>4. Head(rest) = series[last + 1]
    <2>1. PICK S : series \in Seq(S)  BY DEF IsSeq
    <2>2. Head(rest) = rest[1]  BY <1>3, ShortenedAt
    <2>3. \A k \in 1 .. n + 1 - (last + 1) : rest[k] = series[k + (last + 1) - 1]
      BY <1>1, <1>2, <1>3, <2>1, Piece
    <2>4. 1 \in 1 .. n + 1 - (last + 1) /\ 1 + (last + 1) - 1 = last + 1  BY <1>2, <1>3
    <2> QED  BY <2>2, <2>3, <2>4
  <1>5. Tail(rest) # << >> => last + 1 < n
    <2>1. PICK t : t = Tail(rest)  OBVIOUS
    <2>2. IsSeq(t) /\ Len(t) = Len(rest) - 1 /\ Len(rest) = n - last  BY <1>3, <2>1, Shortened
    <2>3. last + 1 = n => Len(t) = 0  BY ONLY <1>3, <2>2, last \in Nat
    <2>4. Len(t) = 0 => t = << >>
      <3>1. PICK S : t \in Seq(S)  BY <2>2 DEF IsSeq
      <3> QED  BY <3>1
    <2>5. last + 1 = n \/ last + 1 < n  BY ONLY <1>2, <1>3, last \in Nat
    <2> QED  BY <2>1, <2>3, <2>4, <2>5
  <1>6. Brings(Line', C, series, first, last + 1)
    <2>1. Line' = Append(Line, Head(rest)) /\ IsSeq(Line)  BY LineQueued, LineFlies DEF Typed
    <2>2. Brings(Line, C, series, first, last)  BY DEF SeriesTo
    <2>3. Brings(Append(Line, Head(rest)), C, series, first, last + 1)
      BY <1>4, <2>1, <2>2, BringsMore
    <2> QED  BY <2>1, <2>3
  <1>7. (last + 1) + 1 = last + 2  OBVIOUS
  <1>8. ~(pc = "send" \/ sm0 = q)  BY DEF SeriesTo
  <1> QED  BY <1>1, <1>2, <1>3, <1>5, <1>6, <1>7, <1>8 DEF SeriesTo

\* A drained mailbox has no answers in the line.
LEMMA LineDrained ==
  ASSUME IInv, IInv', Drained, ~dirty', NEW C, C \cap NoAnswers = {}
  PROVE  sm0' = NoMsg /\ IsSeq(Line)' /\ \A i \in DOMAIN Line' : Line'[i].cmd \notin C
  <1>1. sm0' = NoMsg /\ Flying(C)' = {}  BY DrainedFlies
  <1>2. PICK s, o, L : s = outq' /\ o = lastOut' /\ L = Line'  OBVIOUS
  <1>3. IsSeq(s)  BY <1>2 DEF IInv, Typed, IsSeq
  <1>4. \A k \in DOMAIN s : s[k].cmd \notin C  BY <1>1, <1>2 DEF Flying
  <1>5. IsSeq(L) /\ \A i \in DOMAIN L : L[i].cmd \notin C
    <2>1. CASE Held'
      <3>1. L = <<o>> \o s  BY <1>2, <2>1 DEF Line
      <3>2. o.cmd \notin C  BY <1>1, <1>2, <2>1 DEF Flying
      <3>3. /\ IsSeq(L) /\ DOMAIN L = {1} \cup {k + 1 : k \in DOMAIN s} /\ L[1] = o
            /\ \A k \in DOMAIN s : L[k + 1] = s[k]
        BY <1>3, <3>1, Prepended
      <3> QED  BY <1>4, <3>2, <3>3
    <2>2. CASE ~Held'  BY <1>2, <1>3, <1>4, <2>2 DEF Line
    <2> QED  BY <2>1, <2>2
  <1> QED  BY <1>1, <1>2, <1>5 DEF IsSeq

\* Nor any of the series.
LEMMA SeriesDrained ==
  ASSUME IInv, IInv', Drained, ~dirty', NEW C, C \cap NoAnswers = {}, NEW q, q # NoMsg, NEW series,
         request = q, goesOn = "wait"
  PROVE  SeriesTo(C, q, << >>, series, 0, 0)'
  <1>1. PICK L : L = Line'  OBVIOUS
  <1>2. sm0' = NoMsg /\ IsSeq(L) /\ \A i \in DOMAIN L : L[i].cmd \notin C
    BY <1>1, LineDrained DEF IsSeq
  <1>3. Brings(Line', C, series, 0, 0)  BY <1>1, <1>2, BringsNothing
  <1>4. pc' = "send" /\ request' = q /\ goesOn' = "wait"  BY DEF Drained
  <1> QED  BY <1>2, <1>3, <1>4 DEF SeriesTo

LEMMA Whole ==
  ASSUME NEW S, NEW s \in Seq(S)
  PROVE  SubSeq(s, 1, Len(s)) = s
  <1>1. PICK u, n : u = SubSeq(s, 1, n) /\ n = Len(s)  OBVIOUS
  <1>2. n \in Nat /\ n + 1 - 1 = n /\ 1 <= n + 1 /\ \A k \in 1 .. n : k + 1 - 1 = k  BY <1>1
  <1>3. u \in Seq(S) /\ Len(u) = n /\ \A k \in 1 .. n : u[k] = s[k]  BY <1>1, <1>2, Piece
  <1> QED  BY <1>1, <1>3, Same


-----------------------------------------------------------------------------
(* The list and the mailbox.                                               *)

LEMMA ListIs ==
  /\ IsSeq(List) /\ Len(List) = ListParts /\ IsSeq(All) /\ Len(All) = ListParts
  /\ \A k \in 1 .. ListParts : List[k] = ListRes(<<Chunk(0, k)>>, ListParts - k) /\ All[k] = Chunk(0, k)
  /\ ListParts \in Nat /\ ListParts > 0 /\ MaxList \in Nat /\ MaxParts \in Nat
  <1>1. ListParts \in Nat /\ ListParts > 0 /\ MaxList \in Nat /\ MaxParts \in Nat
    BY CoEInfoAssumption
  <1>2. IsSeq(List) /\ Len(List) = ListParts
    <2> DEFINE S == {ListRes(<<Chunk(0, k)>>, ListParts - k) : k \in 1 .. ListParts}
    <2>1. List \in Seq(S) /\ Len(List) = ListParts  BY <1>1 DEF List
    <2> QED  BY <2>1, Sequence
  <1>3. IsSeq(All) /\ Len(All) = ListParts
    <2> DEFINE S == {Chunk(0, k) : k \in 1 .. ListParts}
    <2>1. All \in Seq(S) /\ Len(All) = ListParts  BY <1>1 DEF All, DataOf
    <2> QED  BY <2>1, Sequence
  <1> QED  BY <1>1, <1>2, <1>3 DEF List, All, DataOf

\* One element of a sequence.
LEMMA One ==
  ASSUME NEW d, IsSeq(d), NEW k \in 1 .. Len(d)
  PROVE  SubSeq(d, k, k) = <<d[k]>>
  <1>1. PICK S : d \in Seq(S)  BY DEF IsSeq
  <1>2. PICK x, o, u : x = d[k] /\ o = SubSeq(d, k, k) /\ u = <<x>>  OBVIOUS
  <1>3. x \in S /\ k \in Nat /\ k > 0 /\ k <= Len(d)  BY <1>1, <1>2
  <1>4. u \in Seq(S) /\ Len(u) = 1 /\ u[1] = x  BY ONLY <1>2, <1>3
  <1>5. k <= k + 1 /\ k + 1 - k = 1 /\ 1 + k - 1 = k /\ 1 \in 1 .. 1  BY ONLY <1>3
  <1>6. o \in Seq(S) /\ Len(o) = 1 /\ o[1] = x
    <2>1. /\ o \in Seq(S) /\ Len(o) = k + 1 - k
          /\ \A i \in 1 .. k + 1 - k : o[i] = d[i + k - 1]
      BY ONLY <1>1, <1>2, <1>3, <1>5, Piece
    <2> QED  BY ONLY <1>2, <1>5, <2>1
  <1>7. \A i \in 1 .. Len(o) : o[i] = u[i]
    <2>1. \A i \in 1 .. 1 : i = 1  OBVIOUS
    <2> QED  BY ONLY <1>4, <1>6, <2>1
  <1> QED  BY <1>2, <1>4, <1>6, <1>7, Same

\* One more of a sequence makes what is read one longer, or there is no more room.
LEMMA Grows ==
  ASSUME NEW d, IsSeq(d), NEW M \in Nat, NEW k \in 1 .. Len(d),
         NEW all, all = SubSeq(d, 1, Least(k - 1, M)) \o SubSeq(d, k, k)
  PROVE  SubSeq(all, 1, Least(Len(all), M)) = SubSeq(d, 1, Least(k, M)) /\ Len(all) \in Nat
  <1>1. PICK S : d \in Seq(S)  BY DEF IsSeq
  <1>2. PICK l, n, s : /\ l = Least(k - 1, M) /\ n = Len(d) /\ s = SubSeq(d, 1, Least(k - 1, M))
    OBVIOUS
  <1>3. n \in Nat /\ n = Len(d) /\ k \in 1 .. n /\ all = s \o SubSeq(d, k, k)  BY <1>1, <1>2
  <1>4. l \in Nat /\ l < n /\ l <= M /\ (k <= M => l = k - 1) /\ (k > M => l = M)
    BY <1>2, <1>3 DEF Least
  <1>5. s = SubSeq(d, 1, l)  BY <1>2
  <1>6. s \in Seq(S) /\ Len(s) = l
    <2>1. 1 \in Nat /\ 1 > 0 /\ l + 1 - 1 = l /\ 1 <= l + 1 /\ l <= n
      BY ONLY <1>3, <1>4
    <2>2. SubSeq(d, 1, l) \in Seq(S) /\ Len(SubSeq(d, 1, l)) = l + 1 - 1
      BY <1>1, <1>3, <1>4, <2>1, Piece
    <2> QED  BY ONLY <1>5, <2>1, <2>2
  <1>7. PICK x : x = d[k]  OBVIOUS
  <1>8. x \in S /\ all = s \o <<x>>
    <2>1. k \in 1 .. Len(d)  OBVIOUS
    <2>2. SubSeq(d, k, k) = <<d[k]>>  BY ONLY <2>1, IsSeq(d), One
    <2>3. x \in S  BY <1>1, <1>7, <2>1
    <2> QED  BY <1>3, <1>7, <2>2, <2>3, Zenon
  <1>9. all \in Seq(S) /\ Len(all) = l + 1 /\ \A i \in 1 .. l : all[i] = s[i]
    BY ONLY <1>4, <1>6, <1>8
  <1>12. Len(all) \in Nat  BY ONLY <1>4, <1>9
  <1>10. CASE k <= M
    <2>1. l + 1 = k /\ Least(Len(all), M) = Len(all) /\ Least(k, M) = k
      BY <1>4, <1>9, <1>10 DEF Least
    <2>2. SubSeq(d, 1, l) \o SubSeq(d, l + 1, l + 1) = SubSeq(d, 1, l + 1)
      BY <1>3, <1>4, Pieces
    <2>3. all = SubSeq(d, 1, k)  BY <1>3, <1>5, <2>1, <2>2
    <2>4. SubSeq(all, 1, Len(all)) = all  BY <1>9, Whole
    <2> QED  BY <1>12, <2>1, <2>3, <2>4, Zenon
  <1>11. CASE ~(k <= M)
    <2>1. l = M /\ Least(Len(all), M) = M /\ Least(k, M) = M
      BY <1>4, <1>9, <1>11 DEF Least
    <2>2. SubSeq(all, 1, l) = s
      <3>1. PICK u : u = SubSeq(all, 1, l)  OBVIOUS
      <3>2. /\ l + 1 - 1 = l /\ 1 <= l + 1 /\ l <= Len(all) /\ \A i \in 1 .. l : i + 1 - 1 = i
            /\ 1 \in Nat /\ 1 > 0
        BY ONLY <1>4, <1>9
      <3>3. u \in Seq(S) /\ Len(u) = l /\ \A i \in 1 .. l : u[i] = all[i]
        BY ONLY <1>4, <1>9, <3>1, <3>2, Piece
      <3>4. \A i \in 1 .. Len(u) : u[i] = s[i]  BY ONLY <1>9, <3>3
      <3> QED  BY <1>6, <3>1, <3>3, <3>4, Same
    <2> QED  BY <1>5, <1>12, <2>1, <2>2, Zenon
  <1> QED  BY <1>10, <1>11

\* A part that comes makes the list one part longer, or there is no more room.
LEMMA ListGrows ==
  ASSUME NEW k \in 1 .. ListParts, NEW s, s = SubSeq(All, 1, Least(k - 1, MaxList)),
         NEW all, all = s \o List[k].data
  PROVE  SubSeq(all, 1, IF Len(all) > MaxList THEN MaxList ELSE Len(all))
           = SubSeq(All, 1, Least(k, MaxList))
  <1>1. PICK d, n, M : d = All /\ n = ListParts /\ M = MaxList  OBVIOUS
  <1>2. M \in Nat /\ IsSeq(d) /\ Len(d) = n /\ d[k] = Chunk(0, k) /\ k \in 1 .. n
    BY <1>1, ListIs
  <1>3. List[k].data = SubSeq(d, k, k)
    <2>1. SubSeq(d, k, k) = <<d[k]>>  BY ONLY <1>2, One
    <2>2. List[k].data = <<Chunk(0, k)>>  BY ListIs DEF ListRes
    <2> QED  BY <1>2, <2>1, <2>2, Zenon
  <1>4. SubSeq(all, 1, Least(Len(all), M)) = SubSeq(d, 1, Least(k, M)) /\ Len(all) \in Nat
    <2>1. all = SubSeq(d, 1, Least(k - 1, M)) \o SubSeq(d, k, k)  BY <1>1, <1>3, Zenon
    <2>2. k \in 1 .. Len(d)  BY <1>2
    <2> QED  BY <1>2, <2>1, <2>2, Grows, Zenon
  <1>5. Least(Len(all), M) = IF Len(all) > M THEN M ELSE Len(all)  BY ONLY <1>2, <1>4 DEF Least
  <1> QED  BY <1>1, <1>4, <1>5

\* What the list depends on stays, and the series is at another place.
LEMMA ListStays ==
  ASSUME NEW base, NEW last, NEW l, NEW rest, ListTo(base, last), UNCHANGED <<job, pc, got>>,
         rest = parts', SeriesTo({"ODLIST_RES"}, ListReq, rest, List, base, l)'
  PROVE  ListTo(base, l)'
  BY DEF ListTo, Listed

LEMMA ListNone ==
  {"ODLIST_RES"} \cap NoAnswers = {} /\ ListReq # NoMsg /\ ListReq.cmd = "ODLIST_REQ"
  BY DEF NoAnswers, ListReq, NoMsg

\* The list while the master sends, waits and reads.
LEMMA ListMail ==
  ASSUME IInv, IInv', Looks, Smooth', pc # "drain", MasterMail \/ HookFragment, parts' = parts,
         job.clean, Listing
  PROVE  \E base, last \in 0 .. ListParts : ListTo(base, last)'
  <1>1. PICK rest : rest = parts  OBVIOUS
  <1>2. PICK base, last \in 0 .. ListParts : Smooth => ListTo(base, last)
    <2>1. 0 \in 0 .. ListParts  BY ListIs
    <2> QED  BY <2>1 DEF Listing
  <1>3. base \in Nat /\ last \in Nat  BY <1>2, ListIs
  <1>4. Smooth => SeriesTo({"ODLIST_RES"}, ListReq, rest, List, base, last)
    BY <1>1, <1>2 DEF ListTo
  <1>5. /\ Smooth /\ UNCHANGED <<job, gone>> /\ pc \in {"send", "wait", "read"}
        /\ pc' \in {"wait", "read", "handle"}
        /\ \/ \E l \in {base, last} : SeriesTo({"ODLIST_RES"}, ListReq, rest, List, base, l)'
              /\ ~(pc' = "handle" /\ got'.cmd \in {"ODLIST_RES"})
           \/ /\ base < last /\ SeriesTo({"ODLIST_RES"}, ListReq, rest, List, base + 1, last)'
              /\ pc' = "handle" /\ got' = List[base + 1] /\ got'.cmd \in {"ODLIST_RES"}
    <2>1. PICK C, q, series : C = {"ODLIST_RES"} /\ q = ListReq /\ series = List  OBVIOUS
    <2>2. C \cap NoAnswers = {}  BY <2>1, ListNone
    <2>3. Smooth => SeriesTo(C, q, rest, series, base, last)  BY <1>4, <2>1
    <2>4. /\ Smooth /\ UNCHANGED <<job, gone>> /\ pc \in {"send", "wait", "read"}
          /\ pc' \in {"wait", "read", "handle"}
          /\ \/ \E l \in {base, last} : SeriesTo(C, q, rest, series, base, l)'
                /\ ~(pc' = "handle" /\ got'.cmd \in C)
             \/ /\ base < last /\ SeriesTo(C, q, rest, series, base + 1, last)'
                /\ pc' = "handle" /\ got' = series[base + 1] /\ got'.cmd \in C
      BY <1>3, <2>2, <2>3, SeriesToMail, Z3
    <2> QED  BY <2>1, <2>4
  <1>6. ListTo(base, last) /\ Listed(base) /\ base <= MaxParts
    BY <1>2, <1>5 DEF ListTo
  <1>7. ASSUME NEW l \in {base, last}, SeriesTo({"ODLIST_RES"}, ListReq, rest, List, base, l)',
               ~(pc' = "handle" /\ got'.cmd \in {"ODLIST_RES"})
        PROVE  ListTo(base, l)' /\ l \in 0 .. ListParts
    BY <1>1, <1>2, <1>5, <1>6, <1>7 DEF ListTo, Listed
  <1>8. ASSUME base < last, SeriesTo({"ODLIST_RES"}, ListReq, rest, List, base + 1, last)',
               pc' = "handle", got' = List[base + 1], got'.cmd \in {"ODLIST_RES"}
        PROVE  ListTo(base + 1, last)' /\ base + 1 \in 0 .. ListParts
    <2>1. base + 1 \in 0 .. ListParts /\ base + 1 > 0 /\ (base + 1) - 1 = base
      BY <1>2, <1>3, <1>8, ListIs
    <2> QED  BY <1>1, <1>5, <1>6, <1>8, <2>1 DEF ListTo, Listed
  <1> QED  BY <1>2, <1>5, <1>7, <1>8

LEMMA ListDrained ==
  ASSUME IInv, IInv', Drained, Smooth', job.clean, Listing, pc = "drain", UNCHANGED <<job, parts>>
  PROVE  ListTo(0, 0)'
  <1>1. request = ListReq /\ goesOn = "wait" /\ Listed(0) /\ parts = << >>
    BY DEF Listing, Unasked
  <1>2. SeriesTo({"ODLIST_RES"}, ListReq, << >>, List, 0, 0)'
    BY <1>1, ListNone, SeriesDrained DEF Smooth, Live
  <1>3. pc' = "send" /\ 0 <= MaxParts  BY ListIs DEF Drained
  <1> QED  BY <1>1, <1>2, <1>3 DEF ListTo, Listed


LEMMA ListSlave ==
  ASSUME IInv, IInv', Looks, Smooth', SlaveMail, parts' = parts, Smooth,
         NEW base \in 0 .. ListParts, NEW last \in 0 .. ListParts, ListTo(base, last)
  PROVE  \E b, l \in 0 .. ListParts : ListTo(b, l)'
  <1>1. PICK rest : rest = parts  OBVIOUS
  <1>2. base \in Nat /\ last \in Nat  BY ListIs
  <1>3. UNCHANGED <<pc, got, job>>
    BY DEF SlaveMail, Publish, Repeat, Notify, Vanish, master, transfer
  <1>4. SeriesTo({"ODLIST_RES"}, ListReq, rest, List, base, last)  BY <1>1 DEF ListTo
  <1>5. PICK l \in {base, last} : SeriesTo({"ODLIST_RES"}, ListReq, rest, List, base, l)'
    BY <1>2, <1>4, ListNone, SeriesToSlave
  <1>6. ListTo(base, l)'  BY <1>1, <1>3, <1>5, ListStays
  <1> QED  BY <1>6

LEMMA ListOther ==
  ASSUME Typed, NEW cmds, NEW answers, "ODLIST_REQ" \notin cmds, "ODLIST_RES" \notin answers,
         OtherServer(cmds, answers), parts' = parts,
         NEW base \in 0 .. ListParts, NEW last \in 0 .. ListParts, ListTo(base, last)
  PROVE  ListTo(base, last)'
  <1>1. PICK rest : rest = parts  OBVIOUS
  <1>2. base \in Nat /\ last \in Nat  BY ListIs
  <1>3. UNCHANGED <<pc, got, job>>
    BY DEF OtherServer, master, transfer
  <1>4. SeriesTo({"ODLIST_RES"}, ListReq, rest, List, base, last)  BY <1>1 DEF ListTo
  <1>5. ListReq.cmd \notin cmds /\ answers \cap {"ODLIST_RES"} = {}  BY ListNone
  <1>6. SeriesTo({"ODLIST_RES"}, ListReq, rest, List, base, last)'
    BY <1>2, <1>4, <1>5, SeriesToOther
  <1> QED  BY <1>1, <1>3, <1>6, ListStays

LEMMA ListServer ==
  ASSUME Typed, Unsent, InfoServer,
         NEW base \in 0 .. ListParts, NEW last \in 0 .. ListParts, ListTo(base, last)
  PROVE  \E b, l \in 0 .. ListParts : ListTo(b, l)'
  <1>1. SeriesTo({"ODLIST_RES"}, ListReq, parts, List, base, last)  BY DEF ListTo
  <1>2. sm0 \in {NoMsg, ListReq} /\ base \in Nat /\ last \in Nat  BY <1>1, ListIs DEF SeriesTo
  <1>3. CASE ServeList
    <2>1. /\ sm0 = ListReq /\ sm0' = NoMsg /\ UNCHANGED <<pc, request, goesOn, got, job, gone>>
          /\ UNCHANGED <<lastOut, taken, sm1, outq>> /\ parts' = parts \o List
      <3>1. outq \o << >> = outq  BY JoinsNothing DEF Typed
      <3> QED  BY <1>2, <1>3, <3>1 DEF ServeList, Take, master, transfer, environment, NoMsg, List
    <2>2. base = 0 /\ last = 0 /\ parts = << >> /\ pc # "send"
      BY <1>1, <2>1, ListNone DEF SeriesTo
    <2>3. parts' = List  BY <2>1, <2>2, ListIs, JoinsNothing
    <2>4. Line' = Line
      <3>1. Held' <=> Held  BY <2>1 DEF Held
      <3> QED  BY <2>1, <3>1, LineStays
    <2>5. 0 < Len(List) /\ List = SubSeq(List, 0 + 1, Len(List))
      <3>1. PICK S : List \in Seq(S)  BY ListIs DEF IsSeq
      <3>2. 0 + 1 = 1  OBVIOUS
      <3> QED  BY <3>1, <3>2, Whole, ListIs
    <2>6. PICK rest : rest = List  OBVIOUS
    <2>7. SeriesTo({"ODLIST_RES"}, ListReq, rest, List, base, last)'
      BY <1>1, <2>1, <2>2, <2>4, <2>5, <2>6, ListNone DEF SeriesTo
    <2>8. ListTo(base, last)'  BY <2>1, <2>3, <2>6, <2>7, ListStays
    <2> QED  BY <2>8
  <1>4. CASE QueuePart
    <2>1. PICK rest, m : rest = parts /\ m = Head(parts)  OBVIOUS
    <2>2. /\ ~gone /\ rest # << >> /\ outq' = Append(outq, Head(rest)) /\ parts' = Tail(rest)
          /\ UNCHANGED <<pc, request, goesOn, got, job, gone, sm0, sm1, lastOut, taken>>
      BY <1>4, <2>1 DEF QueuePart, master, transfer, environment
    <2>3. Head(rest).cmd \in {"ODLIST_RES"}
      BY <2>1, <2>2, ShortenedAt DEF Unsent
    <2>4. /\ last < Len(List)
          /\ SeriesTo({"ODLIST_RES"}, ListReq, Tail(rest), List, base, last + 1)'
      BY <1>1, <1>2, <2>1, <2>2, <2>3, ListIs, SeriesQueued
    <2>5. PICK r : r = Tail(rest)  OBVIOUS
    <2>6. ListTo(base, last + 1)'  BY <2>2, <2>4, <2>5, ListStays
    <2>7. last + 1 \in 0 .. ListParts  BY <1>2, <2>4, ListIs
    <2> QED  BY <2>6, <2>7
  <1>5. CASE RefuseInfo
    <2>1. /\ sm0 = ListReq /\ sm0' = NoMsg /\ UNCHANGED <<pc, request, goesOn, got, job, gone>>
          /\ UNCHANGED <<lastOut, taken, sm1, parts>> /\ outq' = Append(outq, InfoError)
      BY <1>2, <1>5, Appended DEF RefuseInfo, Take, infoVars, master, transfer, environment,
         NoMsg, Typed
    <2>2. Line' = Append(Line, InfoError) /\ IsSeq(Line)  BY <2>1, LineQueued, LineFlies DEF Typed
    <2>3. InfoError.cmd \notin {"ODLIST_RES"}  BY DEF InfoError
    <2>4. Brings(Line', {"ODLIST_RES"}, List, base, last)
      <3>1. Brings(Line, {"ODLIST_RES"}, List, base, last)  BY <1>1 DEF SeriesTo
      <3> QED  BY <1>2, <2>2, <2>3, <3>1, BringsMore
    <2>5. PICK rest : rest = parts  OBVIOUS
    <2>6. SeriesTo({"ODLIST_RES"}, ListReq, rest, List, base, last)'
      BY <1>1, <2>1, <2>4, <2>5, ListNone DEF SeriesTo
    <2>7. ListTo(base, last)'  BY <2>1, <2>5, <2>6, ListStays
    <2> QED  BY <2>7
  <1>6. CASE ServePdo \/ ServeInfo
    <2>1. sm0.cmd \in {"RXPDO", "TXPDO_RR", "OD_REQ", "OE_REQ"}
      BY <1>6 DEF ServePdo, ServeInfo
    <2> QED  BY <1>2, <2>1, ListNone DEF NoMsg
  <1> QED  BY <1>3, <1>4, <1>5, <1>6 DEF InfoServer

\* Without a request and parts of an earlier list, a drained mailbox stays so.
LEMMA UnaskedServer ==
  ASSUME Unasked, InfoServer
  PROVE  Unasked'
  BY DEF Unasked, InfoServer, ServePdo, ServeList, QueuePart, ServeInfo, RefuseInfo, Take,
     infoVars, NoMsg

-----------------------------------------------------------------------------
(* Descriptions, entries and PDOs.                                         *)

\* A step that leaves the transfer where it is.
LEMMA InfoStays ==
  ASSUME InfoInv, UNCHANGED <<pc, request, goesOn, got, job, dirty, fails, repeats>>, Looks',
         job.kind = "readODlist" => /\ Unasked => Unasked'
                                    /\ \A base, last \in 0 .. ListParts :
                                         Smooth /\ Smooth' /\ ListTo(base, last)
                                           => \E b, l \in 0 .. ListParts : ListTo(b, l)',
         job.kind = "readODdescription" /\ DescribeExchange => DescribeExchange',
         job.kind = "readOE" /\ EntryExchange => EntryExchange',
         job.kind = "RxPDO" /\ Pushed => Pushed'
  PROVE  InfoInv'
  <1>1. Live' = Live /\ Smooth' = Smooth /\ FailsOnce' = FailsOnce /\ \A k : Listed(k)' = Listed(k)
    BY DEF Live, Smooth, FailsOnce, Listed
  <1>2. job.kind = "readODlist" => Listing'
    <2> SUFFICES ASSUME job.kind = "readODlist" PROVE Listing'  OBVIOUS
    <2>1. Listing  BY DEF InfoInv
    <2>2. pc' = "drain" => request' = ListReq /\ goesOn' = "wait" /\ Listed(0)'
                           /\ (job'.clean => Unasked')
      BY <1>1, <2>1 DEF Listing
    <2>3. Smooth' /\ job'.clean => \E base, last \in 0 .. ListParts : ListTo(base, last)'
      BY <1>1, <2>1 DEF Listing
    <2> QED  BY <1>1, <2>1, <2>2, <2>3 DEF Listing
  <1>3. job.kind = "readODdescription" => Describing'
    BY <1>1 DEF InfoInv, Describing
  <1>4. job.kind = "readOE" => Entering'
    BY <1>1 DEF InfoInv, Entering
  <1>5. job.kind = "RxPDO" => Pushing'
    BY DEF InfoInv, Pushing, PdoReq
  <1> QED  BY <1>2, <1>3, <1>4, <1>5 DEF InfoInv

LEMMA InfoNone ==
  /\ {"OD_RES"} \cap NoAnswers = {} /\ {"OD_RES"} \cap Series = {}
  /\ {"OE_RES"} \cap NoAnswers = {} /\ {"OE_RES"} \cap Series = {}
  /\ \A r \in DescribeReqs : r.cmd = "OD_REQ" /\ r = DescribeReq(job.item)
  /\ \A r \in EntryReqs : r.cmd = "OE_REQ" /\ r = EntryReq(job.item, job.sub)
  BY DEF NoAnswers, Series, DescribeReqs, EntryReqs, DescribeReq, EntryReq

\* What the exchanges are about stays with the transfer.
LEMMA InfoExchangesStay ==
  ASSUME job' = job,
         \A C, R, A : C \in {{"OD_RES"}, {"OE_RES"}} /\ (\A r \in R : r.cmd \in {"OD_REQ", "OE_REQ"})
                      /\ Exchange(C, R, A) => Exchange(C, R, A)'
  PROVE  (DescribeExchange => DescribeExchange') /\ (EntryExchange => EntryExchange')
  <1>1. ASSUME DescribeExchange PROVE DescribeExchange'
    <2>1. PICK C, R, A : C = {"OD_RES"} /\ R = DescribeReqs /\ A = DescribeAnswers  OBVIOUS
    <2>2. Exchange(C, R, A)  BY <1>1, <2>1 DEF DescribeExchange
    <2>3. \A r \in R : r.cmd \in {"OD_REQ", "OE_REQ"}  BY <2>1, InfoNone
    <2>4. Exchange(C, R, A)'  BY <2>1, <2>2, <2>3
    <2>5. R = DescribeReqs' /\ A = DescribeAnswers'  BY <2>1 DEF DescribeReqs, DescribeAnswers
    <2> QED  BY <2>1, <2>4, <2>5 DEF DescribeExchange
  <1>2. ASSUME EntryExchange PROVE EntryExchange'
    <2>1. PICK C, R, A : C = {"OE_RES"} /\ R = EntryReqs /\ A = EntryAnswers  OBVIOUS
    <2>2. Exchange(C, R, A)  BY <1>2, <2>1 DEF EntryExchange
    <2>3. \A r \in R : r.cmd \in {"OD_REQ", "OE_REQ"}  BY <2>1, InfoNone
    <2>4. Exchange(C, R, A)'  BY <2>1, <2>2, <2>3
    <2>5. R = EntryReqs' /\ A = EntryAnswers'  BY <2>1 DEF EntryReqs, EntryAnswers
    <2> QED  BY <2>1, <2>4, <2>5 DEF EntryExchange
  <1> QED  BY <1>1, <1>2


LEMMA InfoSlaveMail ==
  ASSUME DInv, IInv', SlaveMail, UNCHANGED infoVars
  PROVE  InfoInv'
  <1>1. UNCHANGED <<pc, request, goesOn, got, job, dirty, fails, repeats, parts, rxpdo>>
        /\ (sm0' = sm0 \/ (sm0' = NoMsg /\ gone')) /\ (gone => gone')
    BY DEF SlaveMail, Publish, Repeat, Notify, Vanish, master, ghosts, transfer, infoVars,
       environment
  <1>2. Looks' /\ IInv  BY LooksSlave DEF DInv, InfoInv, Well
  <1>3. ASSUME NEW C, NEW R, NEW A, C \in {{"OD_RES"}, {"OE_RES"}}, Exchange(C, R, A)
        PROVE  Exchange(C, R, A)'
    BY <1>3, InfoNone, ExchangeSlaveMail DEF DInv
  <1>4. ASSUME NEW base \in 0 .. ListParts, NEW last \in 0 .. ListParts, Smooth, Smooth',
               ListTo(base, last)
        PROVE  \E b, l \in 0 .. ListParts : ListTo(b, l)'
    BY <1>1, <1>2, <1>4, ListSlave DEF DInv, InfoInv
  <1>5. Unasked => Unasked'  BY <1>1 DEF Unasked, NoMsg
  <1>6. Pushed => Pushed'  BY <1>1 DEF Pushed, PdoReq
  <1>7. (DescribeExchange => DescribeExchange') /\ (EntryExchange => EntryExchange')
    BY <1>1, <1>3, InfoExchangesStay
  <1> QED  BY <1>1, <1>2, <1>4, <1>5, <1>6, <1>7, InfoStays DEF DInv

LEMMA InfoOtherServer ==
  ASSUME DInv, NEW cmds, NEW answers, cmds \cap InfoReqs = {}, "ODLIST_RES" \notin answers,
         answers \subseteq Series, OtherServer(cmds, answers), UNCHANGED infoVars
  PROVE  InfoInv'
  <1>1. UNCHANGED <<pc, request, goesOn, got, job, dirty, fails, repeats, parts, rxpdo, gone,
                    lastOut, taken, sm1>>
        /\ (sm0' = sm0 \/ (sm0' = NoMsg /\ sm0.cmd \in cmds)) /\ Typed
    BY DEF OtherServer, master, ghosts, transfer, infoVars, environment, DInv, Well, IInv
  <1>2. Looks'  BY <1>1, LooksRests DEF DInv, InfoInv
  <1>3. OtherServer(cmds, Series)  BY DEF OtherServer
  <1>4. ASSUME NEW C, NEW R, NEW A, C \in {{"OD_RES"}, {"OE_RES"}},
               \A r \in R : r.cmd \in {"OD_REQ", "OE_REQ"}, Exchange(C, R, A)
        PROVE  Exchange(C, R, A)'
    <2>1. \A r \in R : r.cmd \notin cmds  BY <1>4 DEF InfoReqs
    <2> QED  BY <1>1, <1>3, <1>4, <2>1, InfoNone, ExchangeOther
  <1>5. ASSUME NEW base \in 0 .. ListParts, NEW last \in 0 .. ListParts, ListTo(base, last)
        PROVE  \E b, l \in 0 .. ListParts : ListTo(b, l)'
    <2>1. "ODLIST_REQ" \notin cmds  BY DEF InfoReqs
    <2> QED  BY <1>1, <1>5, <2>1, ListOther
  <1>6. Unasked => Unasked'  BY <1>1 DEF Unasked, NoMsg
  <1>7. Pushed => Pushed'
    <2>1. sm0 # PdoReq \/ sm0' = sm0  BY <1>1 DEF PdoReq, InfoReqs
    <2> QED  BY <1>1, <2>1 DEF Pushed, PdoReq
  <1>8. (DescribeExchange => DescribeExchange') /\ (EntryExchange => EntryExchange')
    BY <1>1, <1>4, InfoExchangesStay
  <1> QED  BY <1>1, <1>2, <1>5, <1>6, <1>7, <1>8, InfoStays DEF DInv

\* The server of descriptions and entries answers the one it was asked for.
LEMMA InfoExchangeServed ==
  ASSUME Typed, Unsent, InfoServer, NEW C, NEW R, NEW A, C \cap Series = {},
         \A r \in R : r.cmd \in {"OD_REQ", "OE_REQ"}, Exchange(C, R, A),
         sm0 \in R => /\ InfoError \in A
                      /\ sm0.cmd = "OD_REQ" => [cmd |-> "OD_RES", item |-> sm0.item] \in A
                      /\ sm0.cmd = "OE_REQ" =>
                           [cmd |-> "OE_RES", item |-> sm0.item, sub |-> sm0.sub] \in A
  PROVE  Exchange(C, R, A)'
  <1>1. ASSUME NEW m, Take(<<m>>), sm0 \in R => m \in A PROVE Exchange(C, R, A)'
    BY <1>1, ExchangeServed
  <1>2. ASSUME OtherServer({"RXPDO", "ODLIST_REQ"}, Series) PROVE Exchange(C, R, A)'
    <2>1. \A r \in R : r.cmd \notin {"RXPDO", "ODLIST_REQ"}  OBVIOUS
    <2> QED  BY <1>2, <2>1, ExchangeOther
  <1>3. CASE ServePdo
    <2>1. CASE sm0.cmd = "RXPDO"
      BY <1>2, <1>3, <2>1, JoinsNothing DEF ServePdo, Take, OtherServer, Typed
    <2>2. CASE sm0.cmd # "RXPDO"
      <3>1. Take(<<[cmd |-> "TXPDO", data |-> DataOf(0, 1)]>>) /\ sm0 \notin R
        BY <1>3, <2>2 DEF ServePdo
      <3> QED  BY <1>1, <3>1
    <2> QED  BY <2>1, <2>2
  <1>4. CASE ServeList
    BY <1>2, <1>4, JoinsNothing DEF ServeList, Take, OtherServer, Typed
  <1>5. CASE QueuePart
    <2>1. Head(parts).cmd = "ODLIST_RES"  BY <1>5, ShortenedAt DEF QueuePart, Unsent
    <2>2. OtherServer({"RXPDO", "ODLIST_REQ"}, Series)
      BY <1>5, <2>1 DEF QueuePart, OtherServer, Series
    <2> QED  BY <1>2, <2>2
  <1>6. CASE ServeInfo
    <2>1. CASE sm0.cmd = "OD_REQ"
      <3>1. Take(<<[cmd |-> "OD_RES", item |-> sm0.item]>>)  BY <1>6, <2>1 DEF ServeInfo
      <3> QED  BY <1>1, <2>1, <3>1
    <2>2. CASE sm0.cmd = "OE_REQ"
      <3>1. Take(<<[cmd |-> "OE_RES", item |-> sm0.item, sub |-> sm0.sub]>>)
        BY <1>6, <2>2 DEF ServeInfo
      <3> QED  BY <1>1, <2>2, <3>1
    <2> QED  BY <1>6, <2>1, <2>2 DEF ServeInfo
  <1>7. CASE RefuseInfo  BY <1>1, <1>7 DEF RefuseInfo
  <1> QED  BY <1>3, <1>4, <1>5, <1>6, <1>7 DEF InfoServer

LEMMA PushedServer ==
  ASSUME Typed, InfoServer, Pushed, job' = job
  PROVE  Pushed'
  <1>1. PdoReq' = PdoReq /\ PdoReq.cmd = "RXPDO" /\ NoMsg.cmd = "none"  BY DEF PdoReq, NoMsg
  <1>2. CASE ServePdo
    BY <1>1, <1>2 DEF ServePdo, Take, Pushed, environment
  <1>3. CASE ServeList  BY <1>1, <1>3 DEF ServeList, Take, Pushed
  <1>4. CASE QueuePart
    BY <1>1, <1>4 DEF QueuePart, Pushed, environment
  <1>5. CASE ServeInfo  BY <1>1, <1>5 DEF ServeInfo, Take, Pushed
  <1>6. CASE RefuseInfo  BY <1>1, <1>6 DEF RefuseInfo, Take, Pushed
  <1> QED  BY <1>2, <1>3, <1>4, <1>5, <1>6 DEF InfoServer

LEMMA InfoServed ==
  ASSUME DInv, InfoServer
  PROVE  InfoInv'
  <1>1. /\ UNCHANGED <<pc, request, goesOn, got, job, dirty, fails, repeats, lastOut, taken, sm1>>
        /\ Typed /\ Unsent /\ InfoInv
    BY OwnServers DEF OtherServer, master, ghosts, transfer, DInv, Well, IInv
  <1>2. Looks'  BY <1>1, LooksRests DEF InfoInv
  <1>3. ASSUME NEW base \in 0 .. ListParts, NEW last \in 0 .. ListParts, ListTo(base, last)
        PROVE  \E b, l \in 0 .. ListParts : ListTo(b, l)'
    BY <1>1, <1>3, ListServer
  <1>4. DescribeExchange => DescribeExchange'
    <2> SUFFICES ASSUME DescribeExchange PROVE DescribeExchange'  OBVIOUS
    <2>1. PICK C, R, A : C = {"OD_RES"} /\ R = DescribeReqs /\ A = DescribeAnswers  OBVIOUS
    <2>2. Exchange(C, R, A)  BY <2>1 DEF DescribeExchange
    <2>3. /\ \A r \in R : r.cmd \in {"OD_REQ", "OE_REQ"}
          /\ sm0 \in R => sm0.cmd = "OD_REQ" /\ sm0.item = job.item
      BY <2>1, InfoNone DEF DescribeReq
    <2>4. InfoError \in A /\ [cmd |-> "OD_RES", item |-> job.item] \in A
      BY <2>1 DEF DescribeAnswers
    <2>5. Exchange(C, R, A)'
      BY <1>1, <2>1, <2>2, <2>3, <2>4, InfoNone, InfoExchangeServed
    <2>6. R = DescribeReqs' /\ A = DescribeAnswers'
      BY <1>1, <2>1 DEF DescribeReqs, DescribeAnswers
    <2> QED  BY <2>1, <2>5, <2>6 DEF DescribeExchange
  <1>5. EntryExchange => EntryExchange'
    <2> SUFFICES ASSUME EntryExchange PROVE EntryExchange'  OBVIOUS
    <2>1. PICK C, R, A : C = {"OE_RES"} /\ R = EntryReqs /\ A = EntryAnswers  OBVIOUS
    <2>2. Exchange(C, R, A)  BY <2>1 DEF EntryExchange
    <2>3. /\ \A r \in R : r.cmd \in {"OD_REQ", "OE_REQ"}
          /\ sm0 \in R => sm0.cmd = "OE_REQ" /\ sm0.item = job.item /\ sm0.sub = job.sub
      BY <2>1, InfoNone DEF EntryReq
    <2>4. InfoError \in A /\ [cmd |-> "OE_RES", item |-> job.item, sub |-> job.sub] \in A
      BY <2>1 DEF EntryAnswers
    <2>5. Exchange(C, R, A)'
      BY <1>1, <2>1, <2>2, <2>3, <2>4, InfoNone, InfoExchangeServed
    <2>6. R = EntryReqs' /\ A = EntryAnswers'
      BY <1>1, <2>1 DEF EntryReqs, EntryAnswers
    <2> QED  BY <2>1, <2>5, <2>6 DEF EntryExchange
  <1>6. Unasked => Unasked'  BY UnaskedServer
  <1>7. Pushed => Pushed'  BY <1>1, PushedServer
  <1> QED  BY <1>1, <1>2, <1>3, <1>4, <1>5, <1>6, <1>7, InfoStays

\* Nothing moves: the hook is defined, or the step is none of these.
LEMMA InfoRests ==
  ASSUME DInv,
         \/ UNCHANGED <<master, transfer, outq, lastOut, taken, sm0, sm1, environment, ghosts, infoVars>>
         \/ EOEdefinehook /\ UNCHANGED infoVars
  PROVE  InfoInv'
  <1>1. UNCHANGED <<pc, request, goesOn, got, job, dirty, fails, repeats, sm0, sm1, outq, lastOut,
                    taken, gone, parts, rxpdo>>
    BY DEF master, ghosts, infoVars, EOEdefinehook, slaveMail, transfer, environment
  <1>2. Looks' /\ Typed /\ (Held' <=> Held)
    BY <1>1, LooksRests DEF DInv, InfoInv, Well, IInv, Held
  <1>3. ASSUME NEW C, NEW R, NEW A, Exchange(C, R, A) PROVE Exchange(C, R, A)'
    <2>1. Flying(C)' \subseteq Flying(C) /\ (Single(C) => Single(C)')
      BY <1>1, <1>2, Lasts
    <2> QED  BY <1>1, <1>3, <2>1, ExchangeStays
  <1>4. ASSUME NEW base \in 0 .. ListParts, NEW last \in 0 .. ListParts, ListTo(base, last)
        PROVE  \E b, l \in 0 .. ListParts : ListTo(b, l)'
    <2>1. PICK rest : rest = parts  OBVIOUS
    <2>2. Line' = Line  BY <1>1, <1>2, LineStays
    <2>3. SeriesTo({"ODLIST_RES"}, ListReq, rest, List, base, last)  BY <1>4, <2>1 DEF ListTo
    <2>4. SeriesTo({"ODLIST_RES"}, ListReq, rest, List, base, last)'
      BY <1>1, <2>2, <2>3 DEF SeriesTo
    <2>5. ListTo(base, last)'  BY <1>1, <1>4, <2>1, <2>4, ListStays
    <2> QED  BY <2>5
  <1>5. Unasked' = Unasked /\ Pushed' = Pushed  BY <1>1 DEF Unasked, Pushed, PdoReq
  <1>6. (DescribeExchange => DescribeExchange') /\ (EntryExchange => EntryExchange')
    BY <1>1, <1>3, InfoExchangesStay
  <1> QED  BY <1>1, <1>2, <1>4, <1>5, <1>6, InfoStays DEF DInv


\* A transfer that fails at one call ends with that.
LEMMA FailsOnceMail ==
  ASSUME Typed, FailsOnce, MasterMail \/ HookFragment
  PROVE  FailsOnce'
  <1>1. /\ pc \notin {"idle", "handle"} /\ (pc = "drain" => Drained)  BY MailPlaces
  <1>2. CASE pc = "drain"  BY <1>1, <1>2 DEF FailsOnce, Drained
  <1>3. CASE pc # "drain"
    <2>1. fails' = fails \/ (pc' = "handle" /\ got' = Failed)  BY <1>3, CallMoves
    <2>2. ~(fails > 0)  BY <1>1, <1>3 DEF FailsOnce
    <2> QED  BY <2>1, <2>2 DEF FailsOnce
  <1> QED  BY <1>2, <1>3

\* A PDO is sent.
LEMMA PushingMail ==
  ASSUME Typed, Pushing, MasterMail \/ HookFragment, rxpdo' = rxpdo
  PROVE  Pushing'
  <1>1. /\ pc \notin {"idle", "handle"} /\ job' = job /\ (pc = "drain" => Drained)
    BY MailPlaces
  <1>2. PdoReq' = PdoReq  BY <1>1 DEF PdoReq
  <1>3. CASE pc = "drain"  BY <1>1, <1>2, <1>3 DEF Pushing, Drained
  <1>4. CASE pc = "send"
    <2>1. SendOk \/ SendUnnoticed \/ SendFails
      BY <1>4 DEF MasterMail, HookFragment, DrainNothing, DrainMessage, DrainLost, Emptied,
         EmptyExpires, Available, TimerExpires, ReadAnswer, ReadNotice, ReadLost, AskRepeat,
         RepeatAcknowledged
    <2>2. request = PdoReq /\ goesOn = "handle"  BY <1>4 DEF Pushing
    <2>3. pc' = "handle" /\ (got' = Sent => sm0' = request)
      BY <2>1, <2>2 DEF SendOk, SendUnnoticed, SendFails, Hand, Fails, Failed, Sent
    <2> QED  BY <1>1, <1>2, <2>2, <2>3 DEF Pushing, Pushed
  <1> QED  BY <1>1, <1>3, <1>4 DEF Pushing

LEMMA InfoMail ==
  ASSUME DInv, IInv', MasterMail \/ HookFragment, UNCHANGED infoVars
  PROVE  InfoInv'
  <1>1. /\ Typed /\ pc \notin {"idle", "handle"} /\ pc' \notin {"idle", "drain"} /\ job' = job
        /\ (pc = "drain" => Drained /\ pc' = "send") /\ InfoInv /\ IInv
        /\ UNCHANGED <<parts, rxpdo>>
    BY MailPlaces DEF DInv, Well, IInv, infoVars
  <1>2. Looks'  BY <1>1, LooksMail DEF InfoInv
  <1>3. FailsOnce => FailsOnce'  BY <1>1, FailsOnceMail
  <1>4. job.kind = "readODlist" => Listing'
    <2> SUFFICES ASSUME job.kind = "readODlist" PROVE Listing'  OBVIOUS
    <2>1. Listing  BY <1>1 DEF InfoInv
    <2>2. ASSUME Smooth', job.clean PROVE \E base, last \in 0 .. ListParts : ListTo(base, last)'
      <3>1. CASE pc = "drain"
        <4>1. ListTo(0, 0)'  BY <1>1, <2>1, <2>2, <3>1, ListDrained
        <4>2. 0 \in 0 .. ListParts  BY ListIs
        <4> QED  BY <4>1, <4>2
      <3>2. CASE pc # "drain"
        BY <1>1, <2>1, <2>2, <3>2, ListMail DEF InfoInv
      <3> QED  BY <3>1, <3>2
    <2> QED  BY <1>1, <1>3, <2>1, <2>2 DEF Listing
  <1>5. (DescribeExchange => DescribeExchange') /\ (EntryExchange => EntryExchange')
    <2>1. ASSUME NEW C, NEW R, NEW A, C \in {{"OD_RES"}, {"OE_RES"}}, Exchange(C, R, A)
          PROVE  Exchange(C, R, A)'
      BY <2>1, InfoNone, ExchangeMail DEF DInv
    <2> QED  BY <1>1, <2>1, InfoExchangesStay
  <1>6. job.kind = "readODdescription" => Describing'
    BY <1>1, <1>3, <1>5 DEF InfoInv, Describing
  <1>7. job.kind = "readOE" => Entering'
    <2> SUFFICES ASSUME job.kind = "readOE" PROVE Entering'  OBVIOUS
    <2>1. Entering  BY <1>1 DEF InfoInv
    <2> QED  BY <1>1, <1>3, <1>5, <2>1 DEF Entering
  <1>8. job.kind = "RxPDO" => Pushing'  BY <1>1, PushingMail DEF InfoInv
  <1> QED  BY <1>1, <1>2, <1>4, <1>6, <1>7, <1>8 DEF InfoInv

-----------------------------------------------------------------------------
(* The calls of ecx_readODlist and the others.                             *)

LEMMA LooksClient == ASSUME Looks, ClientStep PROVE Looks'
  BY LooksRests DEF ClientStep

\* A transfer of another protocol begins, goes on or ends.
LEMMA InfoOtherClient ==
  ASSUME DInv, ClientStep, job'.kind \notin InfoKinds
  PROVE  InfoInv'
  BY LooksClient DEF DInv, InfoInv, InfoKinds

\* What a protocol knows of an answer it handles.
LEMMA Handled ==
  ASSUME FailsOnce, pc = "handle", got.cmd # "failed", Typed
  PROVE  fails = 0
  BY DEF FailsOnce, Failed, Typed, MailTypeOK

LEMMA PdoIs ==
  ASSUME NEW j, NEW n \in Nat, NEW d, d = DataOf(j, n)
  PROVE  /\ IsSeq(d) /\ Len(d) = n
         /\ LET p == SubSeq(d, 1, IF n > 1 THEN 1 ELSE n)
            IN  p = SubSeq(d, 1, Len(p)) /\ (Len(p) = 1 \/ d = << >>)
  <1>1. IsSeq(d) /\ Len(d) = n
    <2>1. Len(d) = n  BY DEF DataOf
    <2> QED  BY <2>1, DataIsSeq
  <1>2. PICK S : d \in Seq(S)  BY <1>1 DEF IsSeq
  <1>3. PICK m : m = IF n > 1 THEN 1 ELSE n  OBVIOUS
  <1>4. m \in Nat /\ m <= Len(d) /\ 1 <= m + 1 /\ m + 1 - 1 = m /\ (m = 1 \/ n = 0)
    BY <1>1, <1>3
  <1>5. Len(SubSeq(d, 1, m)) = m  BY <1>2, <1>4, Piece
  <1>6. n = 0 => d = << >>  BY <1>1, <1>2
  <1> QED  BY <1>1, <1>3, <1>4, <1>5, <1>6

LEMMA PushBegins ==
  ASSUME DInv, ClientStep, NEW n \in PdoSizes, RxPDO(n)
  PROVE  InfoInv'
  <1>1. PICK d : d = DataOf(jobs + 1, n)  OBVIOUS
  <1>2. n \in Nat  BY CoEInfoAssumption
  <1>3. IsSeq(d) /\ Len(d) = n  BY <1>1, <1>2, PdoIs
  <1>4. /\ job' = [kind |-> "RxPDO", data |-> d, ret |-> "none"] /\ pc' = "drain"
        /\ request' = [cmd |-> "RXPDO", data |-> SubSeq(d, 1, IF n > 1 THEN 1 ELSE n)]
        /\ goesOn' = "handle"
    BY <1>1 DEF RxPDO, BeginAt
  <1>5. request' = PdoReq'  BY <1>3, <1>4 DEF PdoReq
  <1>6. Pushing'  BY <1>3, <1>4, <1>5 DEF Pushing
  <1> QED  BY <1>4, <1>6, LooksClient DEF DInv, InfoInv

LEMMA PushEnds ==
  ASSUME DInv, ClientStep, RxPDOends, UNCHANGED infoVars
  PROVE  InfoInv'
  <1>1. Pushing /\ pc = "handle" /\ job.kind = "RxPDO"
    BY DEF DInv, InfoInv, RxPDOends, Handles
  <1>2. PICK ret : ret = IF got = Sent THEN "ok" ELSE "error"  OBVIOUS
  <1>3. job' = [job EXCEPT !.ret = ret] /\ pc' = "idle"
    BY <1>2 DEF RxPDOends, Return, Becomes
  <1>4. /\ job'.kind = "RxPDO" /\ job'.data = job.data /\ job'.ret = ret
        /\ DOMAIN job' = DOMAIN job
    BY <1>1, <1>3 DEF Pushing
  <1>5. UNCHANGED <<sm0, gone, rxpdo>>  BY DEF ClientStep, environment, infoVars
  <1>6. Pushed' = Pushed  BY <1>4, <1>5 DEF Pushed, PdoReq
  <1>7. ret = "ok" => got = Sent  BY <1>2
  <1>8. Pushing'  BY <1>1, <1>3, <1>4, <1>6, <1>7 DEF Pushing
  <1> QED  BY <1>4, <1>8, LooksClient DEF DInv, InfoInv

LEMMA ListBegins ==
  ASSUME DInv, ClientStep, readODlist, UNCHANGED infoVars
  PROVE  InfoInv'
  <1>1. PICK clean : clean = (parts = << >> /\ sm0.cmd # "ODLIST_REQ")  OBVIOUS
  <1>2. /\ job' = [kind |-> "readODlist", list |-> << >>, x |-> 0, clean |-> clean, ret |-> "none"]
        /\ pc' = "drain" /\ request' = ListReq /\ goesOn' = "wait"
    <2>1. /\ job' = [kind |-> "readODlist", list |-> << >>, x |-> 0,
                     clean |-> (parts = << >> /\ sm0.cmd # "ODLIST_REQ"), ret |-> "none"]
          /\ pc' = "drain" /\ request' = ListReq /\ goesOn' = "wait"
      BY DEF readODlist, Begin, BeginAt
    <2> QED  BY <1>1, <2>1, Zenon
  <1>3. Listed(0)'
    <2>1. Least(0, MaxList) = 0  BY ListIs DEF Least
    <2>2. SubSeq(All, 1, 0) = << >>
      <3>1. PICK S : All \in Seq(S)  BY ListIs DEF IsSeq
      <3> QED  BY <3>1
    <2> QED  BY <1>2, <2>1, <2>2 DEF Listed
  <1>4. clean => Unasked'
    BY <1>1 DEF Unasked, ClientStep, infoVars
  <1>5. Listing'  BY <1>2, <1>3, <1>4 DEF Listing, FailsOnce, Smooth, Live
  <1> QED  BY <1>2, <1>5, LooksClient DEF DInv, InfoInv

LEMMA DescribeBegins ==
  ASSUME DInv, ClientStep, NEW i \in Items, readODdescription(i)
  PROVE  InfoInv'
  <1>1. /\ job' = [kind |-> "readODdescription", item |-> i, of |-> "none", ret |-> "none"]
        /\ pc' = "drain" /\ request' = DescribeReq(i) /\ goesOn' = "wait"
    BY DEF readODdescription, Begin, BeginAt
  <1>2. DescribeExchange'
    BY <1>1 DEF DescribeExchange, Exchange, DescribeReqs, Live
  <1>3. Describing'  BY <1>1, <1>2 DEF Describing, FailsOnce, Live
  <1> QED  BY <1>1, <1>3, LooksClient DEF DInv, InfoInv

LEMMA DescribeEnds ==
  ASSUME DInv, ClientStep, DescriptionEnds
  PROVE  InfoInv'
  <1>1. Describing /\ pc = "handle" /\ job.kind = "readODdescription" /\ Typed
    BY DEF DInv, InfoInv, DescriptionEnds, Handles, Well, IInv
  <1>2. PICK ret, of : /\ ret = IF got.cmd = "OD_RES" THEN "ok" ELSE "error"
                       /\ of = IF got.cmd = "OD_RES" THEN got.item ELSE job.of
    OBVIOUS
  <1>3. pc' = "idle" /\ UNCHANGED <<dirty, fails>>
    BY DEF DescriptionEnds, Return, Becomes, ghosts
  <1>4. /\ job'.kind = "readODdescription" /\ job'.item = job.item /\ job'.of = of
        /\ job'.ret = ret /\ DOMAIN job' = DOMAIN job
    <2>1. CASE got.cmd = "OD_RES"
      <3>1. job' = [[job EXCEPT !.of = got.item] EXCEPT !.ret = "ok"]
        BY <2>1 DEF DescriptionEnds, Return, Becomes
      <3> QED  BY <1>1, <1>2, <2>1, <3>1 DEF Describing
    <2>2. CASE got.cmd # "OD_RES"
      <3>1. job' = [job EXCEPT !.ret = "error"]
        BY <2>2 DEF DescriptionEnds, Return, Becomes
      <3> QED  BY <1>1, <1>2, <2>2, <3>1 DEF Describing
    <2> QED  BY <2>1, <2>2
  <1>5. ASSUME ret = "ok" PROVE fails = 0 /\ (Live => of = job.item)
    <2>1. got.cmd = "OD_RES" /\ of = got.item  BY <1>2, <1>5
    <2>2. fails = 0  BY <1>1, <2>1, Handled DEF Describing
    <2>3. ASSUME Live PROVE got.item = job.item
      <3>1. got \in DescribeAnswers
        BY <1>1, <2>1, <2>3 DEF Describing, DescribeExchange, Exchange
      <3> QED  BY <2>1, <3>1 DEF DescribeAnswers, InfoError
    <2> QED  BY <2>1, <2>2, <2>3
  <1>6. Live' => Live  BY <1>1, <1>3 DEF Live
  <1>7. FailsOnce'
    <2>1. fails \in 0 .. 2  BY <1>1 DEF Typed, MailTypeOK
    <2> QED  BY <1>3, <1>4, <1>5, <2>1 DEF FailsOnce
  <1>8. DescribeExchange'  BY <1>3 DEF DescribeExchange, Exchange, Waits
  <1>9. Describing'
    BY <1>1, <1>4, <1>5, <1>6, <1>7, <1>8 DEF Describing
  <1> QED  BY <1>4, <1>9, LooksClient DEF DInv, InfoInv


LEMMA EntryBegins ==
  ASSUME DInv, ClientStep, NEW i \in Items, readOE(i)
  PROVE  InfoInv'
  <1>1. /\ job' = [kind |-> "readOE", item |-> i, sub |-> 0, entries |-> 0, list |-> << >>,
                   clean |-> TRUE, ret |-> "none"]
        /\ pc' = "drain" /\ request' = EntryReq(i, 0) /\ goesOn' = "wait"
    BY DEF readOE, Begin, BeginAt
  <1>2. EntryExchange'
    BY <1>1 DEF EntryExchange, Exchange, EntryReqs, Live
  <1>3. IsSeq(<< >>)
    <2>1. << >> \in Seq({})  OBVIOUS
    <2> QED  BY <2>1, Sequence
  <1>4. Entering'  BY <1>1, <1>2, <1>3 DEF Entering, FailsOnce
  <1> QED  BY <1>1, <1>4, LooksClient DEF DInv, InfoInv

\* The answer for one subindex.
LEMMA EntryAnswered ==
  ASSUME DInv, ClientStep, readOEsingle
  PROVE  InfoInv'
  <1>1. Entering /\ pc = "handle" /\ job.kind = "readOE" /\ Typed
    BY DEF DInv, InfoInv, readOEsingle, Handles, Well, IInv
  <1>2. PICK answered : answered = (got.cmd = "OE_RES")  OBVIOUS
  <1>3. PICK e, c, n : /\ e = IF answered THEN <<got.item, got.sub>> ELSE << >>
                       /\ c = (job.clean /\ ~dirty)
                       /\ n = IF answered THEN job.entries + 1 ELSE job.entries
    OBVIOUS
  <1>4. PICK list : list = Append(job.list, e)  OBVIOUS
  <1>5. PICK read : read = [job EXCEPT !.entries = n, !.list = list, !.clean = c]  OBVIOUS
  <1>6. /\ read.kind = "readOE" /\ read.item = job.item /\ read.sub = job.sub /\ read.list = list
        /\ read.ret = job.ret /\ DOMAIN read = DOMAIN job
    BY <1>1, <1>5 DEF Entering
  <1>7. read.clean = c  BY <1>1, <1>5 DEF Entering
  <1>8. IsSeq(list) /\ Len(list) = job.sub + 1
        /\ \A k \in DOMAIN list : \/ k \in DOMAIN job.list /\ list[k] = job.list[k]
                                  \/ k = job.sub + 1 /\ list[k] = e
    <2>1. IsSeq(job.list) /\ Len(job.list) = job.sub  BY <1>1 DEF Entering
    <2>2. PICK before : before = job.list  OBVIOUS
    <2>3. IsSeq(list) /\ Len(list) = Len(before) + 1  BY <1>4, <2>1, <2>2, Appended
    <2>4. /\ DOMAIN list = DOMAIN before \cup {Len(before) + 1}
          /\ list[Len(before) + 1] = e /\ \A k \in DOMAIN before : list[k] = before[k]
      <3>1. list = Append(before, e) /\ IsSeq(before)  BY <1>4, <2>1, <2>2
      <3> QED  BY ONLY <3>1, AppendedAt
    <2>5. IsSeq(list) /\ Len(list) = job.sub + 1  BY <2>1, <2>2, <2>3, Zenon
    <2>6. ASSUME NEW k \in DOMAIN list
          PROVE  \/ k \in DOMAIN job.list /\ list[k] = job.list[k]
                 \/ k = job.sub + 1 /\ list[k] = e
      <3>1. CASE k \in DOMAIN before
        <4>1. list[k] = before[k]  BY <2>4, <3>1
        <4> QED  BY <2>2, <3>1, <4>1, Zenon
      <3>2. CASE k \notin DOMAIN before
        <4>1. k = Len(before) + 1  BY <2>4, <2>6, <3>2, Zenon
        <4> QED  BY <2>1, <2>2, <2>4, <4>1, Zenon
      <3> QED  BY <3>1, <3>2
    <2> QED  BY <2>5, <2>6
  <1>9. c => e \in {<<job.item, job.sub>>, << >>}
    <2> SUFFICES ASSUME c, answered PROVE e = <<job.item, job.sub>>  BY <1>3
    <2>1. got.cmd = "OE_RES" /\ e = <<got.item, got.sub>> /\ ~dirty  BY <1>2, <1>3
    <2>2. Live  BY <1>1, <2>1, Handled DEF Entering, Live
    <2>3. got \in EntryAnswers
      BY <1>1, <2>1, <2>2 DEF Entering, EntryExchange, Exchange
    <2> QED  BY <2>1, <2>3 DEF EntryAnswers, InfoError
  <1>10. c => \A k \in DOMAIN list : list[k] \in {<<job.item, k - 1>>, << >>}
    <2> SUFFICES ASSUME c, NEW k \in DOMAIN list PROVE list[k] \in {<<job.item, k - 1>>, << >>}
      OBVIOUS
    <2>1. CASE k \in DOMAIN job.list /\ list[k] = job.list[k]
      BY <1>1, <1>3, <2>1 DEF Entering
    <2>2. CASE k = job.sub + 1 /\ list[k] = e
      <3>1. k - 1 = job.sub  BY <1>1, <2>2 DEF Entering
      <3> QED  BY <1>9, <2>2, <3>1
    <2> QED  BY <1>8, <2>1, <2>2
  <1>11. /\ job.sub < MaxSub => Becomes([read EXCEPT !.sub = @ + 1])
                               /\ Again(EntryReq(job.item, job.sub + 1))
         /\ ~(job.sub < MaxSub) => Return(read, IF answered THEN "ok" ELSE "error")
    BY <1>2, <1>3, <1>4, <1>5, Zenon DEF readOEsingle
  <1>12. ASSUME job.sub < MaxSub PROVE Entering' /\ job'.kind = "readOE"
    <2>1. /\ job' = [read EXCEPT !.sub = read.sub + 1]
          /\ request' = EntryReq(job.item, job.sub + 1) /\ goesOn' = "wait" /\ pc' = "drain"
      BY <1>11, <1>12 DEF Becomes, Again
    <2>2. /\ job'.kind = "readOE" /\ job'.item = job.item /\ job'.sub = job.sub + 1
          /\ job'.list = list /\ DOMAIN job' = DOMAIN job
      BY <1>1, <1>6, <2>1 DEF Entering
    <2>3. job'.clean = c  BY <1>1, <1>6, <1>7, <2>1 DEF Entering
    <2>4. EntryExchange'
      BY <2>1, <2>2 DEF EntryExchange, Exchange, EntryReqs, Live
    <2>5. job.sub + 1 \in Nat  BY <1>1 DEF Entering
    <2> QED
      BY <1>1, <1>8, <1>10, <2>1, <2>2, <2>3, <2>4, <2>5 DEF Entering, FailsOnce
  <1>13. ASSUME ~(job.sub < MaxSub) PROVE Entering' /\ job'.kind = "readOE"
    <2>1. PICK ret : ret = IF answered THEN "ok" ELSE "error"  OBVIOUS
    <2>2. /\ job' = [read EXCEPT !.ret = ret] /\ pc' = "idle" /\ fails' = fails
      BY <1>11, <1>13, <2>1 DEF Becomes, Return, ghosts
    <2>3. /\ job'.kind = "readOE" /\ job'.item = job.item /\ job'.sub = job.sub
          /\ job'.list = list /\ DOMAIN job' = DOMAIN job /\ job'.ret = ret
      BY <1>1, <1>6, <2>2 DEF Entering
    <2>4. job'.clean = c  BY <1>1, <1>6, <1>7, <2>2 DEF Entering
    <2>5. EntryExchange'  BY <2>2 DEF EntryExchange, Exchange, Waits
    <2>6. FailsOnce'
      <3>1. ret = "ok" => fails = 0
        BY <1>1, <1>2, <2>1, Handled DEF Entering
      <3>2. fails \in 0 .. 2  BY <1>1 DEF Typed, MailTypeOK
      <3> QED  BY <2>2, <2>3, <3>1, <3>2 DEF FailsOnce
    <2> QED
      BY <1>1, <1>8, <1>10, <2>2, <2>3, <2>4, <2>5, <2>6 DEF Entering
  <1> QED  BY <1>12, <1>13, LooksClient DEF DInv, InfoInv

\* A list that returns.
LEMMA ListEnds ==
  ASSUME Listing, Typed, ClientStep, pc = "handle", got.cmd # "ODLIST_RES", UNCHANGED infoVars,
         Return(job, "error")
  PROVE  Listing' /\ job'.kind = job.kind
  <1>1. job' = [job EXCEPT !.ret = "error"] /\ pc' = "idle" /\ got' = NoMsg
        /\ UNCHANGED <<request, goesOn, dirty, fails, repeats>>
    BY DEF Return, Becomes, ghosts
  <1>2. /\ job'.kind = job.kind /\ job'.list = job.list /\ job'.x = job.x
        /\ job'.ret = "error" /\ DOMAIN job' = DOMAIN job
    BY <1>1 DEF Listing
  <1>3. job'.clean = job.clean  BY <1>1 DEF Listing
  <1>4. ASSUME Smooth', job.clean PROVE \E base, last \in 0 .. ListParts : ListTo(base, last)'
    <2>1. Smooth  BY <1>1, <1>4 DEF Smooth, Live
    <2>2. PICK base, last \in 0 .. ListParts : ListTo(base, last)
      BY <1>4, <2>1 DEF Listing
    <2>3. PICK rest : rest = parts  OBVIOUS
    <2>4. SeriesTo({"ODLIST_RES"}, ListReq, rest, List, base, last)  BY <2>2, <2>3 DEF ListTo
    <2>5. Line' = Line /\ UNCHANGED <<sm0, gone, parts>>
      BY LineClient DEF ClientStep, environment, infoVars
    <2>6. SeriesTo({"ODLIST_RES"}, ListReq, rest, List, base, last)'
      BY <1>1, <2>4, <2>5 DEF SeriesTo
    <2>7. Listed(base)'  BY <1>2, <2>2 DEF ListTo, Listed
    <2>8. ListTo(base, last)'
      BY <1>1, <1>2, <2>3, <2>5, <2>6, <2>7 DEF ListTo
    <2> QED  BY <2>8
  <1> QED  BY <1>1, <1>2, <1>3, <1>4 DEF Listing, FailsOnce

\* A part of the list is read.
LEMMA ListReads ==
  ASSUME Listing, Typed, ClientStep, ReadPart, got.cmd = "ODLIST_RES", UNCHANGED infoVars
  PROVE  Listing' /\ job'.kind = job.kind
  <1>0. pc = "handle" /\ fails = 0
    BY Handled DEF ReadPart, Handles, Listing
  <1>1. PICK all, list, x : /\ all = job.list \o got.data
                            /\ list = SubSeq(all, 1, IF Len(all) > MaxList THEN MaxList ELSE Len(all))
                            /\ x = job.x + 1
    OBVIOUS
  <1>2. PICK read : read = [job EXCEPT !.list = list, !.x = x]  OBVIOUS
  <1>3. /\ read.kind = job.kind /\ read.list = list /\ read.x = x /\ read.ret = job.ret
        /\ DOMAIN read = DOMAIN job
    BY <1>2 DEF Listing
  <1>4. read.clean = job.clean  BY <1>2 DEF Listing
  <1>5. IF got.fragments > 0 /\ read.x <= MaxParts THEN Becomes(read) /\ ReceiveNext
        ELSE Return(read, "ok")
    BY <1>1, <1>2 DEF ReadPart
  <1>6. PICK more : more = (got.fragments > 0 /\ x <= MaxParts)  OBVIOUS
  <1>7. /\ UNCHANGED <<request, goesOn, dirty, fails, repeats>> /\ got' = NoMsg
        /\ more => job' = read /\ pc' = "wait"
        /\ ~more => job' = [read EXCEPT !.ret = "ok"] /\ pc' = "idle"
    BY <1>3, <1>5, <1>6 DEF Becomes, ReceiveNext, Return, ghosts
  <1>8. /\ job'.kind = job.kind /\ job'.list = list /\ job'.x = x /\ DOMAIN job' = DOMAIN job
    BY <1>3, <1>7 DEF Listing
  <1>9. job'.clean = job.clean  BY <1>3, <1>4, <1>7 DEF Listing
  <1>10. ASSUME Smooth', job.clean PROVE \E base, last \in 0 .. ListParts : ListTo(base, last)'
    <2>1. Smooth  BY <1>0, <1>7, <1>10 DEF Smooth, Live
    <2>2. PICK base, last \in 0 .. ListParts : ListTo(base, last)
      BY <1>10, <2>1 DEF Listing
    <2>3. PICK rest : rest = parts  OBVIOUS
    <2>4. SeriesTo({"ODLIST_RES"}, ListReq, rest, List, base, last)  BY <2>2, <2>3 DEF ListTo
    <2>5. base > 0 /\ got = List[base] /\ Listed(base - 1) /\ base - 1 <= MaxParts
      BY <1>0, <2>2 DEF ListTo
    <2>6. base \in 1 .. ListParts /\ base \in Nat /\ ListParts \in Nat /\ MaxParts \in Nat
      BY <2>5, ListIs
    <2>7. got.fragments = ListParts - base
      <3>1. List[base] = ListRes(<<Chunk(0, base)>>, ListParts - base)  BY <2>6, ListIs
      <3> QED  BY <2>5, <3>1 DEF ListRes
    <2>8. x = base /\ list = SubSeq(All, 1, Least(base, MaxList))
      <3>1. job.x = base - 1 /\ job.list = SubSeq(All, 1, Least(base - 1, MaxList))
        BY <2>5 DEF Listed
      <3>2. x = base  BY <1>1, <2>6, <3>1
      <3>3. all = job.list \o List[base].data  BY <1>1, <2>5
      <3>4. list = SubSeq(All, 1, Least(base, MaxList))
        BY <1>1, <2>6, <3>1, <3>3, ListGrows
      <3> QED  BY <3>2, <3>4
    <2>9. Listed(base)'  BY <1>8, <2>8 DEF Listed
    <2>10. Line' = Line /\ UNCHANGED <<sm0, gone, parts>>
      BY LineClient DEF ClientStep, environment, infoVars
    <2>11. pc' \in {"wait", "idle"}  BY <1>5, <1>7
    <2>12. SeriesTo({"ODLIST_RES"}, ListReq, rest, List, base, last)'
      BY <1>7, <2>4, <2>10, <2>11 DEF SeriesTo
    <2>13. more => base <= MaxParts  BY <1>6, <2>8
    <2>14. ~more => base = ListRead
      <3>1. PICK b, n, m : b = base /\ n = ListParts /\ m = MaxParts  OBVIOUS
      <3>2. /\ b \in Nat /\ n \in Nat /\ m \in Nat /\ b <= n /\ b - 1 <= m
            /\ ~more => ~(n - b > 0) \/ ~(b <= m)
        <4>1. ~more => ~(got.fragments > 0) \/ ~(x <= MaxParts)  BY <1>6, Zenon
        <4>2. got.fragments = n - b /\ x = b  BY <2>7, <2>8, <3>1
        <4>3. ~more => ~(n - b > 0) \/ ~(b <= m)  BY <3>1, <4>1, <4>2, Zenon
        <4>4. b \in 1 .. n /\ b \in Nat /\ n \in Nat /\ m \in Nat /\ b - 1 <= m
          BY <2>5, <2>6, <3>1, Zenon
        <4> QED  BY ONLY <4>3, <4>4
      <3>3. ~more => b = IF n <= m THEN n ELSE m + 1
        BY ONLY <3>2
      <3> QED  BY <3>1, <3>3 DEF ListRead
    <2>15. more => pc' = "wait"  BY <1>7
    <2>16. ~more => pc' = "idle"  BY <1>7
    <2>17. ListTo(base, last)'
      BY <2>3, <2>9, <2>10, <2>11, <2>12, <2>13, <2>14, <2>15, <2>16 DEF ListTo
    <2> QED  BY <2>17
  <1>11. pc' \in {"wait", "idle"}  BY <1>5, <1>7
  <1>12. FailsOnce'  BY <1>0, <1>7 DEF FailsOnce
  <1> QED  BY <1>8, <1>9, <1>10, <1>11, <1>12 DEF Listing

LEMMA PartRead ==
  ASSUME DInv, ClientStep, ReadPart, UNCHANGED infoVars
  PROVE  InfoInv'
  <1>1. Listing /\ pc = "handle" /\ job.kind = "readODlist" /\ Typed
    BY DEF DInv, InfoInv, ReadPart, Handles, Well, IInv
  <1>2. Listing' /\ job'.kind = "readODlist"
    <2>1. CASE got.cmd = "ODLIST_RES"  BY <1>1, <2>1, ListReads
    <2>2. CASE got.cmd # "ODLIST_RES"
      <3>1. Return(job, "error")  BY <2>2 DEF ReadPart
      <3> QED  BY <1>1, <2>2, <3>1, ListEnds
    <2> QED  BY <2>1, <2>2
  <1> QED  BY <1>2, LooksClient DEF DInv, InfoInv

LEMMA PullStep ==
  ASSUME DInv, ClientStep, TxPDOends \/ \E n \in PdoSizes : TxPDO(n)
  PROVE  InfoInv'
  <1>1. job'.kind = "TxPDO"
    <2>1. CASE TxPDOends
      <3>1. job.kind = "TxPDO" /\ Jobs  BY <2>1 DEF TxPDOends, Handles, DInv, Well
      <3>2. \A ret, b : [job EXCEPT !.ret = ret].kind = "TxPDO"
                        /\ [[job EXCEPT !.buf = b] EXCEPT !.ret = ret].kind = "TxPDO"
        BY <3>1 DEF Jobs
      <3> QED  BY <2>1, <3>2 DEF TxPDOends, Return, Becomes
    <2>2. CASE \E n \in PdoSizes : TxPDO(n)  BY <2>2 DEF TxPDO, Begin, BeginAt
    <2> QED  BY <2>1, <2>2
  <1> QED  BY <1>1, LooksClient DEF DInv, InfoInv

LEMMA InfoClientKeeps == ASSUME DInv, InfoClient PROVE InfoInv'
  <1>1. ClientStep /\ UNCHANGED infoVars  BY InfoSteps DEF DInv, Well, IInv, InfoClient
  <1> QED
    BY <1>1, PushBegins, PushEnds, PullStep, ListBegins, PartRead, DescribeBegins, DescribeEnds,
       EntryBegins, EntryAnswered DEF InfoClient

-----------------------------------------------------------------------------
(* The invariant of the dictionary.                                        *)

LEMMA InitDInv == Init => DInv
  <1> SUFFICES ASSUME Init PROVE DInv  OBVIOUS
  <1>1. Well  BY InitFInv DEF FInv
  <1>2. pc = "idle" /\ job.kind = "none"  BY DEF Init, MailInit
  <1> QED  BY <1>1, <1>2 DEF DInv, InfoInv, Looks

LEMMA InfoMaster == ASSUME DInv, IInv', Master PROVE InfoInv'
  <1>0. Typed /\ Jobs /\ Requests  BY DEF DInv, Well, IInv
  <1>1. ASSUME NEW kinds, NEW cmds, OtherStep(kinds, cmds), ClientStep, kinds \cap InfoKinds = {}
        PROVE  InfoInv'
    <2>1. job'.kind \notin InfoKinds  BY <1>1 DEF OtherStep
    <2> QED  BY <1>1, <2>1, InfoOtherClient
  <1>2. CASE MasterMail /\ UNCHANGED protocolVars  BY <1>2, InfoMail DEF protocolVars
  <1>3. CASE Sdo(SdoClient)
    <2>1. SdoKinds \cap InfoKinds = {}  BY DEF SdoKinds, InfoKinds
    <2> QED  BY <1>0, <1>1, <1>3, <2>1, SdoOther, SdoSteps DEF Sdo
  <1>4. CASE Foe(FoeClient)
    <2>1. FoeKinds \cap InfoKinds = {}  BY DEF FoeKinds, InfoKinds
    <2> QED  BY <1>0, <1>1, <1>4, <2>1, FoeOther, FoeSteps DEF Foe
  <1>5. CASE Soe(SoeClient)
    <2>1. ClientStep /\ job'.kind \notin InfoKinds
      BY <1>0, <1>5, SoeSteps, SoeOther DEF Soe, InfoKinds
    <2> QED  BY <2>1, InfoOtherClient
  <1>6. CASE Eoe(EoeClient)
    <2>1. EoeKinds \cap InfoKinds = {}  BY DEF EoeKinds, InfoKinds
    <2>2. CASE EOEdefinehook  BY <1>6, <2>2, InfoRests DEF Eoe
    <2> QED  BY <1>0, <1>1, <1>6, <2>1, <2>2, EoeOther, EoeSteps DEF Eoe
  <1>7. CASE Eoe(HookFragment)  BY <1>7, InfoMail DEF Eoe
  <1>8. CASE Info(InfoClient)  BY <1>8, InfoClientKeeps DEF Info
  <1> QED  BY <1>2, <1>3, <1>4, <1>5, <1>6, <1>7, <1>8 DEF Master, Eoe

LEMMA InfoSlave == ASSUME DInv, IInv', Slave PROVE InfoInv'
  <1>1. Unsent  BY DEF DInv, Well
  <1>2. CASE SlaveMail /\ UNCHANGED protocolVars  BY <1>2, InfoSlaveMail DEF protocolVars
  <1>3. ASSUME NEW cmds, NEW answers, OtherServer(cmds, answers), cmds \cap InfoReqs = {},
               answers \subseteq {"SOE_READRES", "EOE_FRAG"}, UNCHANGED infoVars
        PROVE  InfoInv'
    <2>1. "ODLIST_RES" \notin answers /\ answers \subseteq Series  BY <1>3 DEF Series
    <2> QED  BY <1>3, <2>1, InfoOtherServer
  <1>4. CASE Sdo(SdoServer)
    <2>1. SdoReqs \cap InfoReqs = {}  BY DEF SdoReqs, InfoReqs
    <2> QED  BY <1>1, <1>3, <1>4, <2>1, OwnServers DEF Sdo
  <1>5. CASE Foe(FoeServer)
    <2>1. FoeReqs \cap InfoReqs = {}  BY DEF FoeReqs, InfoReqs
    <2> QED  BY <1>1, <1>3, <1>5, <2>1, OwnServers DEF Foe
  <1>6. CASE Soe(SoeServer)
    <2>1. SoeCmds \cap InfoReqs = {}  BY DEF SoeCmds, InfoReqs
    <2> QED  BY <1>1, <1>3, <1>6, <2>1, OwnServers DEF Soe
  <1>7. CASE Eoe(EoeServer)
    <2>1. EoeReqs \cap InfoReqs = {}  BY DEF EoeReqs, InfoReqs
    <2> QED  BY <1>1, <1>3, <1>7, <2>1, OwnServers DEF Eoe
  <1>8. CASE Info(InfoServer)  BY <1>8, InfoServed DEF Info
  <1> QED  BY <1>2, <1>4, <1>5, <1>6, <1>7, <1>8 DEF Slave

LEMMA NextDInv == DInv /\ [Next]_vars => DInv'
  <1> SUFFICES ASSUME DInv, [Next]_vars PROVE DInv'  OBVIOUS
  <1>1. IInv'  BY NextIInv DEF DInv, Well
  <1>2. CASE Master
    <2>1. InfoInv'  BY <1>1, <1>2, InfoMaster
    <2> QED  BY <1>1, <1>2, <2>1, MasterWell DEF DInv, Well
  <1>3. CASE Slave
    <2>1. InfoInv'  BY <1>1, <1>3, InfoSlave
    <2> QED  BY <1>1, <1>3, <2>1, SlaveWell DEF DInv, Well
  <1>4. CASE UNCHANGED vars
    <2>1. UNCHANGED <<master, transfer, outq, lastOut, taken, sm0, sm1, environment, ghosts,
                      infoVars>>
      BY <1>4 DEF vars, mailVars, protocolVars, slaveMail
    <2>2. UNCHANGED <<request, sm0, job, repeats, fails, idns, answer, part, slaveTx, parts>>
      BY <1>4 DEF vars, mailVars, protocolVars, master, transfer, ghosts, soeVars, eoeVars,
         slaveEoe, infoVars
    <2>3. Unsent' /\ Requests' /\ Jobs' /\ Counted'
      BY <2>2 DEF DInv, Well, Unsent, Requests, Jobs, Counted
    <2>4. InfoInv'  BY <2>1, InfoRests
    <2> QED  BY <1>1, <2>3, <2>4 DEF DInv, Well
  <1> QED  BY <1>2, <1>3, <1>4 DEF Next

\* Of an object list that nothing was lost of, the parts in the line to the
\* master are the next ones of the slave's; a description, an entry or a PDO
\* has one request or one answer to come, and that of its object.
THEOREM DictionaryInvariant == Spec => []DInv
  <1>1. Init => DInv  BY InitDInv
  <1>2. DInv /\ [Next]_vars => DInv'  BY NextDInv
  <1> QED  BY <1>1, <1>2, PTL DEF Spec

LEMMA BeginningOf ==
  ASSUME NEW n \in Nat, NEW m \in Nat, m <= n
  PROVE  SubSeq(DataOf(0, n), 1, m) = DataOf(0, m)
  <1> DEFINE S == {Chunk(0, k) : k \in 1 .. n}
  <1>1. PICK d, e : d = DataOf(0, n) /\ e = DataOf(0, m)  OBVIOUS
  <1>2. d \in Seq(S) /\ Len(d) = n /\ \A k \in 1 .. n : d[k] = Chunk(0, k)
    BY <1>1 DEF DataOf
  <1>3. e \in Seq(S) /\ Len(e) = m /\ \A k \in 1 .. m : e[k] = Chunk(0, k)
    BY <1>1 DEF DataOf
  <1> HIDE DEF S
  <1>4. PICK u : u = SubSeq(d, 1, m)  OBVIOUS
  <1>5. 1 \in Nat /\ 1 > 0 /\ m + 1 - 1 = m /\ 1 <= m + 1 /\ m <= Len(d)
        /\ \A k \in 1 .. m : k + 1 - 1 = k /\ k \in 1 .. n
    BY <1>2
  <1>6. u \in Seq(S) /\ Len(u) = m /\ \A k \in 1 .. m : u[k] = d[k]
    BY <1>2, <1>4, <1>5, Piece
  <1>7. \A k \in 1 .. Len(u) : u[k] = e[k]  BY <1>2, <1>3, <1>5, <1>6
  <1> QED  BY <1>1, <1>3, <1>4, <1>6, <1>7, Same

\* The object list of a clean mailbox that nothing was lost of is the beginning
\* of the slave's, as far as it fits; a description or an entry is that of its
\* object although the answer is not compared; a PDO that was sent with success
\* arrives: for every number of parts, entries and chunks.
THEOREM WholeDictionary == Spec => []DictionaryFits
  <1>1. DInv => DictionaryFits
    <2> SUFFICES ASSUME DInv PROVE DictionaryFits  OBVIOUS
    <2>1. InfoInv /\ fails \in 0 .. 2  BY DEF DInv, Well, IInv, Typed, MailTypeOK
    <2>2. ASSUME FailsOnce, pc = "idle", job.ret = "ok" PROVE fails = 0
      BY <2>1, <2>2 DEF FailsOnce
    <2>3. ListIsWhole
      <3> SUFFICES ASSUME Done({"readODlist"}), ~dirty, job.clean, repeats = "none"
                   PROVE  LET read == IF ListParts <= MaxParts THEN ListParts ELSE MaxParts + 1
                          IN  job.list = DataOf(0, IF read < MaxList THEN read ELSE MaxList)
        BY DEF ListIsWhole
      <3>1. pc = "idle" /\ job.ret = "ok" /\ Listing  BY <2>1 DEF Done, InfoInv
      <3>2. Smooth  BY <2>2, <3>1 DEF Listing, Smooth, Live
      <3>3. PICK base, last \in 0 .. ListParts : ListTo(base, last)
        BY <3>1, <3>2 DEF Listing
      <3>4. base = ListRead /\ Listed(base)  BY <3>1, <3>3 DEF ListTo
      <3>5. ListRead \in Nat /\ ListRead <= ListParts /\ ListParts \in Nat /\ MaxList \in Nat
        BY ListIs DEF ListRead
      <3>6. PICK m : m = Least(ListRead, MaxList)  OBVIOUS
      <3>7. m \in Nat /\ m <= ListParts
        BY <3>5, <3>6 DEF Least
      <3>8. m = IF ListRead < MaxList THEN ListRead ELSE MaxList
        BY <3>5, <3>6 DEF Least
      <3>9. job.list = DataOf(0, m)
        BY <3>4, <3>5, <3>6, <3>7, BeginningOf DEF Listed, All
      <3> QED  BY <3>8, <3>9 DEF ListRead
    <2>4. EntriesFit
      <3>1. ASSUME Done({"readODdescription"}), ~dirty PROVE job.of = job.item
        <4>1. pc = "idle" /\ job.ret = "ok" /\ Describing  BY <2>1, <3>1 DEF Done, InfoInv
        <4>2. Live  BY <2>2, <3>1, <4>1 DEF Describing, Live
        <4> QED  BY <4>1, <4>2 DEF Describing
      <3>2. ASSUME job.kind = "readOE", job.clean
            PROVE  \A k \in DOMAIN job.list : job.list[k] \in {<<job.item, k - 1>>, <<>>}
        BY <2>1, <3>2 DEF InfoInv, Entering
      <3> QED  BY <3>1, <3>2 DEF EntriesFit
    <2>5. PdoArrives
      <3> SUFFICES ASSUME Done({"RxPDO"}), sm0 = NoMsg, ~gone
                   PROVE  rxpdo = SubSeq(job.data, 1, Len(rxpdo))
                          /\ (Len(rxpdo) = 1 \/ job.data = << >>)
        BY DEF PdoArrives
      <3>1. Pushed /\ IsSeq(job.data)  BY <2>1 DEF Done, InfoInv, Pushing
      <3>2. rxpdo = PdoReq.data  BY <3>1 DEF Pushed, PdoReq, NoMsg
      <3>3. PICK d, n : d = job.data /\ n = Len(d)  OBVIOUS
      <3>4. PICK S : d \in Seq(S)  BY <3>1, <3>3 DEF IsSeq
      <3>5. PICK m : m = IF n > 1 THEN 1 ELSE n  OBVIOUS
      <3>6. n \in Nat  BY ONLY <3>3, <3>4
      <3>10. m \in Nat /\ m <= n /\ 1 <= m + 1 /\ m + 1 - 1 = m /\ (m = 1 \/ (m = 0 /\ n = 0))
        BY ONLY <3>5, <3>6
      <3>7. rxpdo = SubSeq(d, 1, m)  BY <3>2, <3>3, <3>5 DEF PdoReq
      <3>8. Len(rxpdo) = m
        <4>1. m <= Len(d) /\ 1 \in Nat /\ 1 > 0 /\ 1 <= m + 1  BY ONLY <3>3, <3>10
        <4>2. Len(SubSeq(d, 1, m)) = m + 1 - 1  BY ONLY <3>4, <3>10, <4>1, Piece
        <4>3. Len(SubSeq(d, 1, m)) = m  BY ONLY <3>10, <4>2, Zenon
        <4> QED  BY <3>7, <4>3, Zenon
      <3>9. n = 0 => d = << >>
        <4> SUFFICES ASSUME n = 0 PROVE d = << >>  OBVIOUS
        <4>1. Len(d) = 0 /\ d \in Seq(S)  BY <3>3, <3>4
        <4> QED  BY ONLY <4>1
      <3>11. rxpdo = SubSeq(d, 1, Len(rxpdo))  BY ONLY <3>7, <3>8
      <3>12. Len(rxpdo) = 1 \/ d = << >>  BY ONLY <3>8, <3>9, <3>10
      <3> QED  BY <3>3, <3>11, <3>12, Zenon
    <2> QED  BY <2>3, <2>4, <2>5 DEF DictionaryFits
  <1> QED  BY <1>1, DictionaryInvariant, PTL
-----------------------------------------------------------------------------
(* Parameters of servo drives.                                             *)

Value == idns[job.obj]

\* The value as far as k fragments bring it and the buffer holds it.
Buffered(k) == job.buf = SubSeq(Value, 1, Least(k, job.psize))

IdnTo(base, last) ==
    /\ SeriesTo({"SOE_READRES"}, ReadReq(job.obj), answer, Fragments(job.obj), base, last)
    /\ IF pc = "handle" /\ got.cmd = "SOE_READRES"
       THEN base > 0 /\ got = Fragments(job.obj)[base] /\ Buffered(base - 1)
       ELSE Buffered(base)
    /\ pc = "idle" /\ job.ret = "ok" => base = Len(Value)

IdnArrives == \E base, last \in 0 .. Len(Value) : IdnTo(base, last)

NothingAsked == answer = << >> /\ sm0.cmd # "SOE_READREQ"

IdnReads ==
    /\ {"kind", "obj", "psize", "buf", "clean", "ret"} \subseteq DOMAIN job
    /\ job.obj \in Idns /\ job.psize \in Nat
    /\ FailsOnce
    /\ pc = "drain" => /\ request = ReadReq(job.obj) /\ goesOn = "wait" /\ job.buf = << >>
                       /\ job.clean => NothingAsked
    /\ Smooth /\ job.clean => IdnArrives

\* Nothing in a line says one of C.
Free(L, C) == \A i \in DOMAIN L : L[i].cmd \notin C

\* Something says e, and nothing before it says w.
Before(L, e, w) ==
    \E i \in DOMAIN L : L[i].cmd = e /\ \A j \in 1 .. i : L[j].cmd # w

\* A fragment of a write, with others behind it or not.
IsPiece(m) ==
    m.cmd = "SOE_WRITEREQ" /\ m = WriteReq(job.obj, m.data, job.rest # << >>)

\* What the slave has, what is on its way, and what is left are the value.
Parted ==
    \/ /\ pc = "send" /\ sm0 = NoMsg /\ IsPiece(request)
       /\ (part \o request.data) \o job.rest = job.data
    \/ /\ pc \in {"empty", "wait", "read"} /\ IsPiece(sm0)
       /\ (part \o sm0.data) \o job.rest = job.data
    \/ /\ pc \in {"empty", "wait", "read", "handle"} /\ sm0 = NoMsg /\ job.rest # << >>
       /\ part \o job.rest = job.data

Refused == Before(Line, "SOE_ERROR", "SOE_WRITERES")
Unsaid == Free(Line, {"SOE_WRITERES"})
Clear == Free(Line, {"failed", "sent"})

\* Refused; not answered yet; or all of it stored.
Course ==
    \/ Refused
    \/ Unsaid /\ ((gone /\ sm0 = NoMsg) \/ Parted)
    \/ pc \in {"wait", "read"} /\ sm0 = NoMsg /\ Value = job.data

IdnWriting ==
    /\ pc \in {"send", "empty", "wait", "read", "handle", "idle"}
    /\ Clear /\ (sm0 = NoMsg \/ sm0.cmd = "SOE_WRITEREQ")
    /\ pc = "send" => /\ request.cmd = "SOE_WRITEREQ"
                      /\ goesOn = IF job.rest # << >> THEN "empty" ELSE "wait"
    /\ pc = "handle" => got # Failed
    /\ pc = "empty" \/ (pc = "handle" /\ got = Sent) => job.rest # << >>
    /\ pc \in {"send", "empty", "wait", "read"} \/ (pc = "handle" /\ got = Sent) => Course
    /\ (pc = "handle" /\ got.cmd = "SOE_WRITERES") \/ (pc = "idle" /\ job.ret = "ok")
         => sm0 = NoMsg /\ Value = job.data

NothingTaken == part = << >> /\ sm0.cmd # "SOE_WRITEREQ"

IdnWrites ==
    /\ {"kind", "obj", "data", "rest", "notLast", "clean", "ret"} \subseteq DOMAIN job
    /\ job.obj \in Idns /\ IsSeq(job.rest) /\ IsSeq(job.data)
    /\ job.notLast <=> job.rest # << >>
    /\ pc = "drain" => /\ IsPiece(request) /\ request.data \o job.rest = job.data
                       /\ goesOn = IF job.rest # << >> THEN "empty" ELSE "wait"
                       /\ job.clean => NothingTaken
    /\ Smooth /\ job.clean => IdnWriting

IdnInv ==
    /\ Looks
    /\ job.kind = "SoEread" => IdnReads
    /\ job.kind = "SoEwrite" => IdnWrites

VInv == Well /\ IdnInv

LEMMA FragmentsIs ==
  ASSUME Unsent, NEW o \in Idns
  PROVE  /\ Len(idns[o]) \in Nat /\ IsSeq(idns[o])
         /\ IsSeq(Fragments(o)) /\ Len(Fragments(o)) = Len(idns[o])
         /\ \A k \in 1 .. Len(idns[o]) :
              Fragments(o)[k] = ReadRes(o, SubSeq(idns[o], k, k), k < Len(idns[o]))
  <1>1. IsSeq(idns[o]) /\ IsSeq(Fragments(o))  BY FragmentsAre DEF Unsent
  <1>2. PICK D : idns[o] \in Seq(D)  BY <1>1 DEF IsSeq
  <1>3. Len(idns[o]) \in Nat /\ DOMAIN idns[o] = 1 .. Len(idns[o])  BY <1>2
  <1>4. DOMAIN Fragments(o) = DOMAIN idns[o]
        /\ \A k \in DOMAIN idns[o] :
             Fragments(o)[k] = ReadRes(o, SubSeq(idns[o], k, k), k < Len(idns[o]))
    BY DEF Fragments
  <1>5. PICK S : Fragments(o) \in Seq(S)  BY <1>1 DEF IsSeq
  <1>6. DOMAIN Fragments(o) = 1 .. Len(Fragments(o)) /\ Len(Fragments(o)) \in Nat  BY <1>5
  <1>7. Len(Fragments(o)) = Len(idns[o])
    <2>1. PICK a, b : a = Len(Fragments(o)) /\ b = Len(idns[o])  OBVIOUS
    <2>2. a \in Nat /\ b \in Nat /\ 1 .. a = 1 .. b  BY <1>3, <1>4, <1>6, <2>1
    <2>3. a = b  BY ONLY <2>2
    <2> QED  BY <2>1, <2>3
  <1> QED  BY <1>1, <1>3, <1>4, <1>7

LEMMA IdnNone ==
  ASSUME NEW o
  PROVE  /\ {"SOE_READRES"} \cap NoAnswers = {}
         /\ ReadReq(o) # NoMsg /\ ReadReq(o).cmd = "SOE_READREQ"
         /\ NoMsg.cmd = "none" /\ SoeError.cmd = "SOE_ERROR"
  BY DEF NoAnswers, ReadReq, NoMsg, SoeError

\* What the value depends on stays, and the series is at another place.
LEMMA ArrivesOn ==
  ASSUME NEW base \in 0 .. Len(Value), NEW last, NEW l \in 0 .. Len(Value), IdnTo(base, last),
         UNCHANGED <<job, pc, got, idns>>,
         NEW q, q = ReadReq(job.obj), NEW series, series = Fragments(job.obj),
         NEW rest, rest = answer', SeriesTo({"SOE_READRES"}, q, rest, series, base, l)'
  PROVE  IdnArrives'
  <1>1. Value' = Value /\ Fragments(job.obj)' = series /\ ReadReq(job.obj)' = q
    BY DEF Value, Fragments
  <1>2. IdnTo(base, l)'  BY <1>1 DEF IdnTo, Buffered
  <1> QED  BY <1>1, <1>2 DEF IdnArrives

\* The value while the master sends, waits and reads.
LEMMA ArrivesMail ==
  ASSUME IInv, IInv', Looks, Smooth', pc # "drain", MasterMail \/ HookFragment, Unsent,
         UNCHANGED soeVars, job.clean, IdnReads
  PROVE  IdnArrives'
  <1>1. PICK C, q, series, rest :
          /\ C = {"SOE_READRES"} /\ q = ReadReq(job.obj) /\ series = Fragments(job.obj)
          /\ rest = answer
    OBVIOUS
  <1>2. PICK n : n = Len(Value)  OBVIOUS
  <1>3. n \in Nat /\ C \cap NoAnswers = {}
    BY <1>1, <1>2, FragmentsIs, IdnNone DEF IdnReads, Value
  <1>4. PICK base, last \in 0 .. n : Smooth => IdnTo(base, last)
    <2>1. 0 \in 0 .. n  BY <1>3
    <2> QED  BY <1>2, <2>1 DEF IdnReads, IdnArrives
  <1>5. base \in Nat /\ last \in Nat  BY <1>3, <1>4
  <1>6. Smooth => SeriesTo(C, q, rest, series, base, last)  BY <1>1, <1>4 DEF IdnTo
  <1>7. /\ Smooth /\ UNCHANGED <<job, gone>> /\ pc \in {"send", "wait", "read"}
        /\ pc' \in {"wait", "read", "handle"}
        /\ \/ \E l \in {base, last} : SeriesTo(C, q, rest, series, base, l)'
              /\ ~(pc' = "handle" /\ got'.cmd \in C)
           \/ /\ base < last /\ SeriesTo(C, q, rest, series, base + 1, last)'
              /\ pc' = "handle" /\ got' = series[base + 1] /\ got'.cmd \in C
    BY <1>3, <1>5, <1>6, SeriesToMail, Z3
  <1>8. IdnTo(base, last) /\ Buffered(base)  BY <1>4, <1>7 DEF IdnTo
  <1>9. /\ Value' = Value /\ Fragments(job.obj)' = series /\ ReadReq(job.obj)' = q /\ answer' = rest
        /\ pc' # "idle" /\ \A k : Buffered(k)' <=> Buffered(k)
    BY <1>1, <1>7 DEF Value, Fragments, soeVars, Buffered
  <1>10. ASSUME NEW l \in {base, last}, SeriesTo(C, q, rest, series, base, l)',
               ~(pc' = "handle" /\ got'.cmd \in C)
        PROVE  IdnArrives'
    <2>1. IdnTo(base, l)'  BY <1>1, <1>8, <1>9, <1>10 DEF IdnTo
    <2>2. l \in 0 .. n  BY <1>4, <1>10
    <2> QED  BY <1>2, <1>4, <1>9, <2>1, <2>2 DEF IdnArrives
  <1>11. ASSUME base < last, SeriesTo(C, q, rest, series, base + 1, last)',
               pc' = "handle", got' = series[base + 1], got'.cmd \in C
        PROVE  IdnArrives'
    <2>1. base + 1 \in 0 .. n /\ base + 1 > 0 /\ (base + 1) - 1 = base
      BY <1>3, <1>4, <1>5, <1>11
    <2>2. PICK b : b = base + 1  OBVIOUS
    <2>3. IdnTo(b, last)'  BY <1>1, <1>8, <1>9, <1>11, <2>1, <2>2 DEF IdnTo
    <2> QED  BY <1>2, <1>4, <1>9, <2>1, <2>2, <2>3 DEF IdnArrives
  <1> QED  BY <1>7, <1>10, <1>11

\* A read that has found nothing of another one begins with nothing.
LEMMA ArrivesDrained ==
  ASSUME IInv, IInv', Drained, Smooth', job.clean, IdnReads, pc = "drain", Unsent,
         UNCHANGED <<job, soeVars>>
  PROVE  IdnArrives'
  <1>1. PICK C, q, series : C = {"SOE_READRES"} /\ q = ReadReq(job.obj) /\ series = Fragments(job.obj)
    OBVIOUS
  <1>2. request = q /\ goesOn = "wait" /\ job.buf = << >> /\ answer = << >> /\ q # NoMsg
    BY <1>1, IdnNone DEF IdnReads, NothingAsked
  <1>3. C \cap NoAnswers = {} /\ ~dirty'  BY <1>1, IdnNone DEF Smooth, Live
  <1>4. SeriesTo(C, q, << >>, series, 0, 0)'  BY <1>2, <1>3, SeriesDrained
  <1>5. /\ Value' = Value /\ Fragments(job.obj)' = series /\ ReadReq(job.obj)' = q
        /\ answer' = << >> /\ pc' = "send"
    BY <1>1, <1>2 DEF Value, Fragments, soeVars, Drained
  <1>6. IsSeq(Value) /\ Len(Value) \in Nat /\ job.psize \in Nat
    BY FragmentsIs DEF IdnReads, Value
  <1>7. Buffered(0)'
    <2>1. Least(0, job.psize) = 0  BY <1>6 DEF Least
    <2>2. PICK S : Value \in Seq(S)  BY <1>6 DEF IsSeq
    <2>3. SubSeq(Value, 1, 0) = << >>  BY <2>2
    <2> QED  BY <1>2, <1>5, <2>1, <2>3 DEF Buffered
  <1>8. IdnTo(0, 0)'  BY <1>1, <1>4, <1>5, <1>7 DEF IdnTo
  <1>9. 0 \in 0 .. Len(Value)'  BY <1>5, <1>6
  <1> QED  BY <1>8, <1>9 DEF IdnArrives


LEMMA ArrivesSlave ==
  ASSUME IInv, IInv', Looks, Smooth', SlaveMail, Smooth, Unsent, IdnReads, IdnArrives,
         UNCHANGED soeVars
  PROVE  IdnArrives'
  <1>1. PICK base, last \in 0 .. Len(Value) : IdnTo(base, last)  BY DEF IdnArrives
  <1>2. PICK C, q, series, rest :
          C = {"SOE_READRES"} /\ q = ReadReq(job.obj) /\ series = Fragments(job.obj) /\ rest = answer
    OBVIOUS
  <1>3. base \in Nat /\ last \in Nat  BY FragmentsIs DEF IdnReads, Value
  <1>4. UNCHANGED <<job, pc, got, idns, answer>>
    BY DEF SlaveMail, Publish, Repeat, Notify, Vanish, master, transfer, soeVars
  <1>5. SeriesTo(C, q, rest, series, base, last)  BY <1>1, <1>2 DEF IdnTo
  <1>6. C \cap NoAnswers = {}  BY <1>2, IdnNone
  <1>7. PICK l \in {base, last} : SeriesTo(C, q, rest, series, base, l)'
    BY <1>3, <1>5, <1>6, SeriesToSlave
  <1>8. l \in 0 .. Len(Value)  BY <1>1, <1>7
  <1>9. SeriesTo({"SOE_READRES"}, q, rest, series, base, l)'  BY <1>2, <1>7
  <1> QED  BY <1>1, <1>2, <1>4, <1>8, <1>9, ArrivesOn

LEMMA ArrivesOther ==
  ASSUME Typed, Unsent, NEW cmds, NEW answers, "SOE_READREQ" \notin cmds,
         "SOE_READRES" \notin answers, OtherServer(cmds, answers), IdnReads, IdnArrives,
         UNCHANGED soeVars
  PROVE  IdnArrives'
  <1>1. PICK base, last \in 0 .. Len(Value) : IdnTo(base, last)  BY DEF IdnArrives
  <1>2. PICK C, q, series, rest :
          C = {"SOE_READRES"} /\ q = ReadReq(job.obj) /\ series = Fragments(job.obj) /\ rest = answer
    OBVIOUS
  <1>3. base \in Nat /\ last \in Nat  BY FragmentsIs DEF IdnReads, Value
  <1>4. UNCHANGED <<job, pc, got, idns, answer>>  BY DEF OtherServer, master, transfer, soeVars
  <1>5. SeriesTo(C, q, rest, series, base, last)  BY <1>1, <1>2 DEF IdnTo
  <1>6. q.cmd \notin cmds /\ answers \cap C = {}  BY <1>2, IdnNone
  <1>7. SeriesTo(C, q, rest, series, base, last)'  BY <1>3, <1>5, <1>6, SeriesToOther
  <1>9. SeriesTo({"SOE_READRES"}, q, rest, series, base, last)'  BY <1>2, <1>7
  <1> QED  BY <1>1, <1>2, <1>4, <1>9, ArrivesOn

LEMMA ArrivesServed ==
  ASSUME Typed, Unsent, SoeServer, IdnReads, IdnArrives
  PROVE  IdnArrives'
  <1>1. PICK base, last \in 0 .. Len(Value) : IdnTo(base, last)  BY DEF IdnArrives
  <1>2. PICK C, q, series, rest :
          C = {"SOE_READRES"} /\ q = ReadReq(job.obj) /\ series = Fragments(job.obj) /\ rest = answer
    OBVIOUS
  <1>3. /\ base \in Nat /\ last \in Nat /\ IsSeq(series) /\ Len(series) = Len(Value)
        /\ Len(Value) \in Nat
    BY <1>2, FragmentsIs DEF IdnReads, Value
  <1>4. SeriesTo(C, q, rest, series, base, last)  BY <1>1, <1>2 DEF IdnTo
  <1>5. /\ sm0 \in {NoMsg, q} /\ q # NoMsg /\ q.cmd = "SOE_READREQ" /\ NoMsg.cmd = "none"
        /\ q.obj = job.obj
    BY <1>2, <1>4, IdnNone DEF SeriesTo, ReadReq
  <1>6. ASSUME UNCHANGED <<job, pc, got, idns>>, NEW l \in 0 .. Len(Value), NEW r, r = answer',
               SeriesTo(C, q, r, series, base, l)'
        PROVE  IdnArrives'
    <2>1. SeriesTo({"SOE_READRES"}, q, r, series, base, l)'  BY <1>2, <1>6
    <2> QED  BY <1>1, <1>2, <1>6, <2>1, ArrivesOn
  <1>7. CASE ServeIdnRead
    <2>1. /\ sm0 = q /\ sm0' = NoMsg /\ UNCHANGED <<pc, request, goesOn, got, job, gone, idns>>
          /\ UNCHANGED <<lastOut, taken, sm1, outq>> /\ answer' = answer \o series
      <3>1. outq \o << >> = outq  BY JoinsNothing DEF Typed
      <3> QED  BY <1>2, <1>5, <1>7, <3>1 DEF ServeIdnRead, SoeTakes, Take, master, transfer, environment
    <2>2. base = 0 /\ last = 0 /\ rest = << >> /\ pc # "send"
      BY <1>4, <1>5, <2>1 DEF SeriesTo
    <2>3. answer' = series  BY <1>2, <1>3, <2>1, <2>2, JoinsNothing
    <2>4. Line' = Line
      <3>1. Held' <=> Held  BY <2>1 DEF Held
      <3> QED  BY <2>1, <3>1, LineStays
    <2>5. series # << >> => 0 < Len(series) /\ series = SubSeq(series, 0 + 1, Len(series))
      <3>1. PICK S : series \in Seq(S)  BY <1>3 DEF IsSeq
      <3>2. 0 + 1 = 1  OBVIOUS
      <3>3. SubSeq(series, 1, Len(series)) = series  BY <3>1, Whole
      <3>4. series # << >> => 0 < Len(series)  BY <3>1
      <3> QED  BY <3>2, <3>3, <3>4
    <2>7. SeriesTo(C, q, series, series, base, last)'
      BY <1>4, <1>5, <2>1, <2>2, <2>4, <2>5 DEF SeriesTo
    <2> QED  BY <1>1, <1>6, <2>1, <2>3, <2>7
  <1>8. CASE QueueFragment
    <2>2. /\ ~gone /\ rest # << >> /\ outq' = Append(outq, Head(rest)) /\ answer' = Tail(rest)
          /\ UNCHANGED <<pc, request, goesOn, got, job, gone, sm0, sm1, lastOut, taken, idns>>
      BY <1>2, <1>8 DEF QueueFragment, master, transfer, environment
    <2>3. Head(rest).cmd \in C
      BY <1>2, <2>2, ShortenedAt DEF Unsent
    <2>4. last < Len(series) /\ SeriesTo(C, q, Tail(rest), series, base, last + 1)'
      BY <1>3, <1>4, <2>2, <2>3, SeriesQueued
    <2>5. PICK r, l : r = Tail(rest) /\ l = last + 1  OBVIOUS
    <2>7. l \in 0 .. Len(Value)  BY <1>3, <2>4, <2>5
    <2>8. SeriesTo(C, q, r, series, base, l)'  BY <2>4, <2>5
    <2>9. r = answer'  BY <2>2, <2>5
    <2> QED  BY <1>6, <2>2, <2>7, <2>8, <2>9
  <1>9. CASE RefuseIdn
    <2>1. /\ sm0 = q /\ sm0' = NoMsg /\ UNCHANGED <<pc, request, goesOn, got, job, gone, idns>>
          /\ UNCHANGED <<lastOut, taken, sm1, answer>> /\ outq' = Append(outq, SoeError)
      BY <1>5, <1>9, Appended DEF RefuseIdn, SoeTakes, Take, master, transfer, environment, Typed
    <2>2. Line' = Append(Line, SoeError) /\ IsSeq(Line)  BY <2>1, LineQueued, LineFlies DEF Typed
    <2>3. SoeError.cmd \notin C  BY <1>2, IdnNone
    <2>4. Brings(Line', C, series, base, last)
      <3>1. Brings(Line, C, series, base, last)  BY <1>4 DEF SeriesTo
      <3> QED  BY <1>3, <2>2, <2>3, <3>1, BringsMore
    <2>6. SeriesTo(C, q, rest, series, base, last)'
      BY <1>4, <1>5, <2>1, <2>4 DEF SeriesTo
    <2> QED  BY <1>1, <1>2, <1>6, <2>1, <2>6
  <1>10. CASE ServeIdnWrite  BY <1>5, <1>10 DEF ServeIdnWrite
  <1> QED  BY <1>7, <1>8, <1>9, <1>10 DEF SoeServer

\* What was not asked for is not asked for by the slave.
LEMMA NothingServed ==
  ASSUME SoeServer
  PROVE  (NothingAsked => NothingAsked') /\ (NothingTaken => NothingTaken')
  <1> USE DEF NothingAsked, NothingTaken, SoeTakes, Take, NoMsg
  <1>1. CASE ServeIdnRead  BY <1>1 DEF ServeIdnRead
  <1>2. CASE QueueFragment  BY <1>2 DEF QueueFragment
  <1>3. CASE ServeIdnWrite  BY <1>3 DEF ServeIdnWrite
  <1>4. CASE RefuseIdn  BY <1>4 DEF RefuseIdn
  <1> QED  BY <1>1, <1>2, <1>3, <1>4 DEF SoeServer


-----------------------------------------------------------------------------
(* A value that is written, and the answer to it.                          *)

LEMMA IndexesOf ==
  ASSUME NEW L, IsSeq(L)
  PROVE  /\ Len(L) \in Nat /\ DOMAIN L = 1 .. Len(L)
         /\ L # << >> => Head(L) = L[1] /\ Len(L) > 0 /\ Len(Tail(L)) = Len(L) - 1
                         /\ DOMAIN Tail(L) = 1 .. (Len(L) - 1)
                         /\ \A k \in 1 .. (Len(L) - 1) : Tail(L)[k] = L[k + 1]
  <1>1. PICK S : L \in Seq(S)  BY DEF IsSeq
  <1> QED  BY <1>1

LEMMA FreeOn ==
  ASSUME NEW L, IsSeq(L), NEW C, Free(L, C), NEW m
  PROVE  /\ m.cmd \notin C => Free(Append(L, m), C)
         /\ L # << >> => Free(Tail(L), C) /\ Head(L).cmd \notin C
  <1>1. m.cmd \notin C => Free(Append(L, m), C)
    BY AppendedAt DEF Free
  <1>2. L # << >> => Free(Tail(L), C) /\ Head(L).cmd \notin C
    BY ShortenedAt DEF Free
  <1> QED  BY <1>1, <1>2

LEMMA BeforeOn ==
  ASSUME NEW L, IsSeq(L), NEW e, NEW w, Before(L, e, w), NEW m
  PROVE  /\ Before(Append(L, m), e, w)
         /\ L # << >> /\ Head(L).cmd # w
         /\ Head(L).cmd # e => Before(Tail(L), e, w)
  <1>1. PICK i \in DOMAIN L : L[i].cmd = e /\ \A j \in 1 .. i : L[j].cmd # w
    BY DEF Before
  <1>2. PICK n : n = Len(L)  OBVIOUS
  <1>3. n \in Nat /\ DOMAIN L = 1 .. n /\ i \in 1 .. n  BY <1>1, <1>2, IndexesOf
  <1>4. Before(Append(L, m), e, w)
    <2>1. PICK N : N = Append(L, m)  OBVIOUS
    <2>2. i \in DOMAIN N /\ N[i] = L[i] /\ \A k \in 1 .. n : N[k] = L[k]
      BY <1>3, <2>1, AppendedAt
    <2>3. \A j \in 1 .. i : j \in 1 .. n  BY <1>3
    <2> QED  BY <1>1, <2>1, <2>2, <2>3 DEF Before
  <1>5. L # << >>
    <2>1. DOMAIN << >> = {}  OBVIOUS
    <2> QED  BY <1>1, <2>1
  <1>6. Head(L) = L[1] /\ 1 \in 1 .. i  BY <1>3, <1>5, IndexesOf
  <1>7. Head(L).cmd # w  BY <1>1, <1>6
  <1>8. ASSUME Head(L).cmd # e PROVE Before(Tail(L), e, w)
    <2>1. PICK N : N = Tail(L)  OBVIOUS
    <2>2. /\ DOMAIN N = 1 .. (n - 1) /\ \A k \in 1 .. (n - 1) : N[k] = L[k + 1]
      BY <1>2, <1>5, <2>1, IndexesOf
    <2>3. i # 1  BY <1>1, <1>6, <1>8
    <2>4. i - 1 \in 1 .. (n - 1) /\ (i - 1) + 1 = i /\ \A j \in 1 .. (i - 1) : j \in 1 .. (n - 1)
          /\ j + 1 \in 1 .. i
      BY ONLY <1>3, <2>3
    <2>5. N[i - 1] = L[i] /\ \A j \in 1 .. (i - 1) : N[j] = L[j + 1]
      BY <2>2, <2>4
    <2> QED  BY <1>1, <2>1, <2>2, <2>4, <2>5 DEF Before
  <1> QED  BY <1>4, <1>5, <1>7, <1>8

LEMMA BeforeNew ==
  ASSUME NEW L, IsSeq(L), NEW e, NEW w, e # w, Free(L, {w}), NEW m, m.cmd = e
  PROVE  Before(Append(L, m), e, w)
  <1>1. PICK n, N : n = Len(L) + 1 /\ N = Append(L, m)  OBVIOUS
  <1>2. DOMAIN L = 1 .. Len(L) /\ Len(L) \in Nat  BY IndexesOf
  <1>3. n \in DOMAIN N /\ N[n] = m /\ \A k \in DOMAIN L : N[k] = L[k]  BY <1>1, AppendedAt
  <1>4. \A j \in 1 .. n : j = n \/ j \in DOMAIN L  BY <1>1, <1>2
  <1>5. \A j \in 1 .. n : N[j].cmd # w  BY <1>3, <1>4 DEF Free
  <1> QED  BY <1>1, <1>3, <1>5 DEF Before

\* What a step of the mailbox leaves of that in the line, and what is read.
LEMMA SmoothLine ==
  ASSUME IInv, IInv', Looks, Smooth, Smooth', MasterMail \/ HookFragment \/ SlaveMail
  PROVE  /\ Clear => Clear' /\ (ReadAnswer => got' \notin {Failed, Sent})
         /\ Unsaid => Unsaid' /\ (ReadAnswer => got'.cmd # "SOE_WRITERES")
         /\ Refused => \/ ReadAnswer /\ got'.cmd # "SOE_WRITERES"
                       \/ ~ReadAnswer /\ Refused'
                       \/ gone' /\ sm0' = NoMsg /\ Unsaid'
  <1>1. Quiet /\ Quiet' /\ pc # "drain" /\ fails' = 0 /\ repeats = "none" /\ IsSeq(Line)
    BY LineFlies DEF Smooth, Quiet, Live, IInv, Typed
  <1>2. LineMoves  BY <1>1, LineMail
  <1>3. PICK L, M : L = Line /\ M = Line'  OBVIOUS
  <1>4. \/ M = L /\ ~ReadAnswer
        \/ L # << >> /\ M = Tail(L) /\ Head(L).cmd \in NoAnswers /\ ~ReadAnswer
        \/ L # << >> /\ M = Tail(L) /\ ReadAnswer /\ got' = Head(L)
        \/ M = Append(L, Notice) /\ ~ReadAnswer
        \/ ~ReadAnswer /\ gone' /\ sm0' = NoMsg /\ M \in {<< >>, <<NoMsg>>}
    <2>1. ~(pc \in Waits /\ Held /\ sm1 = NoMsg /\ Head(Line) = lastOut /\ Head(Line).cmd \notin NoAnswers)
      <3> SUFFICES ASSUME pc \in Waits, Held, sm1 = NoMsg, lastOut.cmd \notin NoAnswers PROVE FALSE
        OBVIOUS
      <3>1. ~taken /\ pc \in {"read", "repeat", "ack", "refill"}  BY DEF Held
      <3>2. lastOut = NoMsg  BY <1>1, <3>1 DEF Looks, Smooth
      <3> QED  BY <3>2 DEF NoMsg, NoAnswers
    <2>2. ~(fails' > 0)  BY <1>1
    <2> QED  BY <1>2, <1>3, <2>1, <2>2 DEF LineMoves
  <1>5. IsSeq(L)  BY <1>1, <1>3
  <1>6. ASSUME NEW C, C \cap {"none", "notice"} = {}, Free(L, C)
        PROVE  Free(M, C) /\ (ReadAnswer => got'.cmd \notin C)
    <2>1. Notice.cmd \notin C /\ NoMsg.cmd \notin C  BY <1>6 DEF Notice, NoMsg
    <2>2. Free(<< >>, C) /\ Free(<<NoMsg>>, C)  BY <2>1 DEF Free
    <2> QED  BY <1>4, <1>5, <1>6, <2>1, <2>2, FreeOn
  <1>7. Clear => Clear' /\ (ReadAnswer => got' \notin {Failed, Sent})
    <2>1. PICK C : C = {"failed", "sent"}  OBVIOUS
    <2>2. Free(L, C) => Free(M, C) /\ (ReadAnswer => got'.cmd \notin C)  BY <1>6, <2>1
    <2> QED  BY <1>3, <2>1, <2>2 DEF Clear, Failed, Sent
  <1>8. Unsaid => Unsaid' /\ (ReadAnswer => got'.cmd # "SOE_WRITERES")
    <2>1. PICK C : C = {"SOE_WRITERES"}  OBVIOUS
    <2>2. Free(L, C) => Free(M, C) /\ (ReadAnswer => got'.cmd \notin C)  BY <1>6, <2>1
    <2> QED  BY <1>3, <2>1, <2>2 DEF Unsaid
  <1>9. ASSUME Refused
        PROVE  \/ ReadAnswer /\ got'.cmd # "SOE_WRITERES"
               \/ ~ReadAnswer /\ Refused'
               \/ gone' /\ sm0' = NoMsg /\ Unsaid'
    <2>1. PICK e, w : e = "SOE_ERROR" /\ w = "SOE_WRITERES"  OBVIOUS
    <2>2. Before(L, e, w)  BY <1>3, <1>9, <2>1 DEF Refused
    <2>3. /\ \A m : Before(Append(L, m), e, w)
          /\ Head(L).cmd # w /\ (Head(L).cmd # e => Before(Tail(L), e, w))
      BY <1>5, <2>2, BeforeOn
    <2>4. e \notin NoAnswers  BY <2>1 DEF NoAnswers
    <2>5. Before(M, e, w) => Refused'  BY <1>3, <2>1 DEF Refused
    <2>6. M \in {<< >>, <<NoMsg>>} => Unsaid'  BY <1>3 DEF Unsaid, Free, NoMsg
    <2> QED  BY <1>4, <2>1, <2>2, <2>3, <2>4, <2>5, <2>6
  <1> QED  BY <1>7, <1>8, <1>9

\* A message of another kind in the line.
LEMMA LineTold ==
  ASSUME Typed, NEW m, outq' = Append(outq, m), UNCHANGED <<lastOut, taken, sm1, pc>>,
         m.cmd \notin {"failed", "sent"}
  PROVE  /\ Clear => Clear'
         /\ m.cmd # "SOE_WRITERES" /\ Unsaid => Unsaid'
         /\ m.cmd = "SOE_ERROR" /\ Unsaid => Refused'
         /\ Refused => Refused'
  <1>1. PICK L : L = Line  OBVIOUS
  <1>2. Line' = Append(L, m) /\ IsSeq(L)  BY <1>1, LineQueued, LineFlies DEF Typed
  <1>3. PICK N : N = Append(L, m)  OBVIOUS
  <1>4. Clear => Clear'
    <2>1. Free(L, {"failed", "sent"}) => Free(N, {"failed", "sent"})  BY <1>2, <1>3, FreeOn
    <2> QED  BY <1>1, <1>2, <1>3, <2>1 DEF Clear
  <1>5. m.cmd # "SOE_WRITERES" /\ Unsaid => Unsaid'
    <2>1. PICK C : C = {"SOE_WRITERES"}  OBVIOUS
    <2>2. m.cmd \notin C /\ Free(L, C) => Free(N, C)  BY <1>2, <1>3, FreeOn
    <2> QED  BY <1>1, <1>2, <1>3, <2>1, <2>2 DEF Unsaid
  <1>6. PICK e, w : e = "SOE_ERROR" /\ w = "SOE_WRITERES"  OBVIOUS
  <1>7. m.cmd = "SOE_ERROR" /\ Unsaid => Refused'
    <2>1. e # w /\ (m.cmd = e /\ Free(L, {w}) => Before(N, e, w))  BY <1>2, <1>3, <1>6, BeforeNew
    <2> QED  BY <1>1, <1>2, <1>3, <1>6, <2>1 DEF Unsaid, Refused
  <1>8. Refused => Refused'
    <2>1. Before(L, e, w) => Before(N, e, w)  BY <1>2, <1>3, BeforeOn
    <2> QED  BY <1>1, <1>2, <1>3, <1>6, <2>1 DEF Refused
  <1> QED  BY <1>4, <1>5, <1>7, <1>8


\* Where a write that nothing was lost of is after a step of the mailbox.
LEMMA WriteControl ==
  ASSUME Typed, Looks, Looks', Smooth', MasterMail \/ HookFragment,
         pc \in {"send", "empty", "wait", "read"}, pc = "send" => goesOn \in {"empty", "wait"}
  PROVE  /\ Smooth /\ UNCHANGED <<job, gone>>
         /\ \/ /\ pc = "send" /\ sm0 = NoMsg /\ ~gone /\ sm0' = request /\ pc' = goesOn
               /\ ~ReadAnswer
            \/ pc = "empty" /\ pc' = "handle" /\ got' = Sent /\ sm0 = NoMsg /\ sm0' = sm0 /\ ~ReadAnswer
            \/ pc \in {"empty", "wait", "read"} /\ pc' \in {"wait", "read"} /\ sm0' = sm0 /\ ~ReadAnswer
            \/ pc = "read" /\ ReadAnswer /\ pc' = "handle" /\ sm0' = sm0
  <1>0. fails = 0 /\ fails' = 0  BY CallCounts DEF Smooth, Live
  <1>1. repeats = "none"  BY LooksMail DEF Smooth
  <1> USE DEF Fails, Hand, ghosts, Lost, Reached, environment
  <1>2. CASE MasterMail
    <2>0. job' = job  BY <1>2 DEF MasterMail, transfer
    <2>1. CASE SendOk \/ SendUnnoticed \/ SendFails
      BY <1>0, <1>1, <2>0, <2>1 DEF SendOk, SendUnnoticed, SendFails, ReadAnswer, Smooth, Live
    <2>2. CASE Emptied \/ EmptyExpires
      BY <1>0, <1>1, <2>0, <2>2 DEF Emptied, EmptyExpires, ReadAnswer, Smooth, Live
    <2>3. CASE Available \/ TimerExpires
      BY <1>0, <1>1, <2>0, <2>3 DEF Available, TimerExpires, ReadAnswer, Smooth, Live
    <2>4. CASE ReadAnswer
      BY <1>0, <1>1, <2>0, <2>4 DEF ReadAnswer, Smooth, Live
    <2>5. CASE ReadNotice
      BY <1>0, <1>1, <2>0, <2>5 DEF ReadNotice, ReadAnswer, Smooth, Live
    <2>6. CASE ReadLost \/ AskRepeat \/ RepeatAcknowledged
      BY <1>0, <1>1, <2>0, <2>6 DEF ReadLost, AskRepeat, RepeatAcknowledged, ReadAnswer, Smooth, Live
    <2> QED
      BY <1>2, <2>1, <2>2, <2>3, <2>4, <2>5, <2>6
         DEF MasterMail, DrainNothing, DrainMessage, DrainLost
  <1>3. CASE HookFragment
    <2>1. pc = "read" /\ ~ReadAnswer /\ job' = job /\ gone' = gone /\ sm0' = sm0 /\ pc' = pc
          /\ dirty' = dirty
      BY <1>0, <1>3 DEF HookFragment, ReadAnswer, transfer
    <2> QED  BY <1>0, <1>1, <2>1 DEF Smooth, Live
  <1> QED  BY <1>2, <1>3

\* The course of a write stays when what it is about does, or the slave is gone.
LEMMA CourseStays ==
  ASSUME Course, UNCHANGED <<job, idns, part>>,
         \/ sm0' = sm0 /\ gone' = gone
         \/ sm0' = NoMsg /\ gone',
         Unsaid => Unsaid', Refused => Refused' \/ (gone' /\ sm0' = NoMsg /\ Unsaid'),
         \/ pc' = pc /\ request' = request
         \/ pc \in {"empty", "wait", "read"} /\ pc' \in {"wait", "read"}
  PROVE  Course'
  <1>1. Value' = Value /\ \A m : IsPiece(m)' <=> IsPiece(m)  BY DEF Value, IsPiece
  <1>2. CASE Refused  BY <1>2 DEF Course
  <1>3. CASE Unsaid /\ gone /\ sm0 = NoMsg  BY <1>3 DEF Course
  <1>4. CASE Unsaid /\ Parted
    <2>1. CASE sm0' = NoMsg /\ gone'  BY <1>4, <2>1 DEF Course
    <2>2. CASE sm0' = sm0 /\ gone' = gone
      <3>1. Parted'
        <4>1. PICK m, r : m = sm0 /\ r = request  OBVIOUS
        <4>2. (IsPiece(m) => IsPiece(m)') /\ (IsPiece(r) => IsPiece(r)')  BY <1>1
        <4> QED  BY <1>4, <2>2, <4>1, <4>2 DEF Parted
      <3> QED  BY <1>4, <3>1 DEF Course
    <2> QED  BY <2>1, <2>2
  <1>5. CASE pc \in {"wait", "read"} /\ sm0 = NoMsg /\ Value = job.data
    BY <1>1, <1>5 DEF Course
  <1> QED  BY <1>2, <1>3, <1>4, <1>5 DEF Course

LEMMA WriteMail ==
  ASSUME IInv, IInv', Looks, Smooth', pc # "drain", MasterMail \/ HookFragment,
         UNCHANGED soeVars, IdnWrites, job.clean
  PROVE  IdnWriting'
  <1>1. /\ Typed /\ pc \notin {"idle", "handle"} /\ Looks'
        /\ repeats = "none" /\ pc # "repeat" /\ fails = 0 /\ pc \notin {"ack", "refill"}
    BY MailPlaces, LooksMail, CallCounts DEF IInv, Smooth, Live, Looks
  <1>2. Smooth
    <2>1. dirty' = dirty  BY <1>1, CallMoves
    <2> QED  BY <1>1, <2>1 DEF Smooth, Live
  <1>3. IdnWriting  BY <1>2 DEF IdnWrites
  <1>4. pc \in {"send", "empty", "wait", "read"} /\ Course /\ Clear  BY <1>1, <1>3 DEF IdnWriting
  <1>5. pc = "send" => goesOn \in {"empty", "wait"}  BY <1>3 DEF IdnWriting
  <1>6. /\ UNCHANGED <<job, gone>>
        /\ \/ /\ pc = "send" /\ sm0 = NoMsg /\ ~gone /\ sm0' = request /\ pc' = goesOn
              /\ ~ReadAnswer
           \/ pc = "empty" /\ pc' = "handle" /\ got' = Sent /\ sm0 = NoMsg /\ sm0' = sm0 /\ ~ReadAnswer
           \/ pc \in {"empty", "wait", "read"} /\ pc' \in {"wait", "read"} /\ sm0' = sm0 /\ ~ReadAnswer
           \/ pc = "read" /\ ReadAnswer /\ pc' = "handle" /\ sm0' = sm0
    BY <1>1, <1>4, <1>5, WriteControl
  <1>7. /\ Clear' /\ (ReadAnswer => got' \notin {Failed, Sent})
        /\ Unsaid => Unsaid' /\ (ReadAnswer => got'.cmd # "SOE_WRITERES")
        /\ Refused => \/ ReadAnswer /\ got'.cmd # "SOE_WRITERES"
                      \/ ~ReadAnswer /\ Refused'
                      \/ gone' /\ sm0' = NoMsg /\ Unsaid'
    BY <1>2, <1>4, SmoothLine
  <1>8. UNCHANGED <<idns, part, job>> /\ Value' = Value  BY <1>6 DEF soeVars, Value
  <1>9. CASE /\ pc = "send" /\ sm0 = NoMsg /\ ~gone /\ sm0' = request /\ pc' = goesOn
             /\ ~ReadAnswer
    <2>1. /\ request.cmd = "SOE_WRITEREQ" /\ goesOn = IF job.rest # << >> THEN "empty" ELSE "wait"
      BY <1>3, <1>9 DEF IdnWriting
    <2>2. Course'
      <3>1. CASE Refused  BY <1>7, <1>9, <3>1 DEF Course
      <3>2. CASE Unsaid /\ Parted
        <4>1. IsPiece(request) /\ (part \o request.data) \o job.rest = job.data
          BY <1>9, <3>2 DEF Parted
        <4>2. IsPiece(sm0)'  BY <1>8, <1>9, <4>1 DEF IsPiece
        <4>3. (part' \o sm0'.data) \o job'.rest = job'.data  BY <1>8, <1>9, <4>1
        <4>4. Parted'  BY <1>9, <2>1, <4>2, <4>3 DEF Parted
        <4> QED  BY <1>7, <3>2, <4>4 DEF Course
      <3> QED  BY <1>4, <1>9, <3>1, <3>2 DEF Course
    <2> QED  BY <1>7, <1>8, <1>9, <2>1, <2>2 DEF IdnWriting
  <1>10. CASE pc = "empty" /\ pc' = "handle" /\ got' = Sent /\ sm0 = NoMsg /\ sm0' = sm0 /\ ~ReadAnswer
    <2>1. job.rest # << >>  BY <1>3, <1>10 DEF IdnWriting
    <2>2. Course'
      <3>1. CASE Refused  BY <1>7, <1>10, <3>1 DEF Course
      <3>2. CASE Unsaid /\ gone  BY <1>6, <1>7, <1>10, <3>2 DEF Course
      <3>3. CASE Unsaid /\ Parted
        <4>1. part \o job.rest = job.data
          BY <1>10, <3>3 DEF Parted, IsPiece, NoMsg
        <4>2. Parted'  BY <1>8, <1>10, <2>1, <4>1 DEF Parted
        <4> QED  BY <1>7, <3>3, <4>2 DEF Course
      <3> QED  BY <1>4, <1>10, <3>1, <3>2, <3>3 DEF Course
    <2>3. got'.cmd = "sent" /\ got' # Failed  BY <1>10 DEF Sent, Failed
    <2> QED  BY <1>3, <1>7, <1>8, <1>10, <2>1, <2>2, <2>3 DEF IdnWriting
  <1>11. CASE pc \in {"empty", "wait", "read"} /\ pc' \in {"wait", "read"} /\ sm0' = sm0 /\ ~ReadAnswer
    <2>1. Course'  BY <1>4, <1>6, <1>7, <1>8, <1>11, CourseStays
    <2> QED  BY <1>3, <1>7, <1>8, <1>11, <2>1 DEF IdnWriting
  <1>12. CASE pc = "read" /\ ReadAnswer /\ pc' = "handle" /\ sm0' = sm0
    <2>1. got' # Failed /\ got' # Sent  BY <1>7, <1>12
    <2>2. got'.cmd = "SOE_WRITERES" => sm0' = NoMsg /\ Value' = job'.data
      <3> SUFFICES ASSUME got'.cmd = "SOE_WRITERES" PROVE sm0' = NoMsg /\ Value' = job'.data
        OBVIOUS
      <3>1. ~Unsaid  BY <1>7, <1>12
      <3>2. CASE Refused
        <4>1. gone' /\ sm0' = NoMsg /\ Unsaid'  BY <1>7, <1>12, <3>2
        <4> QED  BY <1>12, <4>1 DEF ReadAnswer, Reached, environment
      <3> QED  BY <1>4, <1>8, <1>12, <3>1, <3>2 DEF Course
    <2> QED  BY <1>3, <1>7, <1>8, <1>12, <2>1, <2>2 DEF IdnWriting
  <1> QED  BY <1>6, <1>9, <1>10, <1>11, <1>12

LEMMA WriteDrained ==
  ASSUME IInv, IInv', Drained, Smooth', job.clean, IdnWrites, Requests, pc = "drain", Unsent,
         UNCHANGED <<job, soeVars>>
  PROVE  IdnWriting'
  <1>1. /\ IsPiece(request) /\ request.data \o job.rest = job.data /\ part = << >>
        /\ goesOn = IF job.rest # << >> THEN "empty" ELSE "wait"
    BY DEF IdnWrites, NothingTaken
  <1>2. /\ pc' = "send" /\ UNCHANGED <<request, goesOn, part, job>> /\ ~dirty'
    BY DEF Drained, soeVars, Smooth, Live
  <1>3. PICK C : C = {"failed", "sent", "SOE_WRITERES"}  OBVIOUS
  <1>4. C \cap NoAnswers = {}  BY <1>3 DEF NoAnswers
  <1>5. sm0' = NoMsg /\ \A i \in DOMAIN Line' : Line'[i].cmd \notin C
    BY <1>2, <1>4, LineDrained
  <1>7. Clear' /\ Unsaid'  BY <1>3, <1>5 DEF Clear, Unsaid, Free
  <1>8. Parted'
    <2>1. IsSeq(request.data) /\ request.cmd = "SOE_WRITEREQ"
      BY <1>1 DEF Requests, SoeRequest, IsPiece
    <2>2. part' \o request'.data = request.data  BY <1>1, <1>2, <2>1, JoinsNothing
    <2>3. IsPiece(request)'  BY <1>1, <1>2 DEF IsPiece
    <2> QED  BY <1>1, <1>2, <1>5, <2>2, <2>3 DEF Parted
  <1>9. request.cmd = "SOE_WRITEREQ"  BY <1>1 DEF IsPiece
  <1> QED  BY <1>1, <1>2, <1>5, <1>7, <1>8, <1>9 DEF IdnWriting, Course, NoMsg

LEMMA WriteSlave ==
  ASSUME IInv, IInv', Looks, Smooth, Smooth', SlaveMail, UNCHANGED soeVars, IdnWriting
  PROVE  IdnWriting'
  <1>1. /\ UNCHANGED <<pc, request, goesOn, got, job>> /\ ~ReadAnswer
        /\ (sm0' = sm0 /\ gone' = gone) \/ (sm0' = NoMsg /\ gone')
    BY DEF SlaveMail, Publish, Repeat, Notify, Vanish, master, transfer, ReadAnswer,
       Hand, environment
  <1>2. /\ Clear => Clear'
        /\ Unsaid => Unsaid'
        /\ Refused => Refused' \/ (gone' /\ sm0' = NoMsg /\ Unsaid')
    BY <1>1, SmoothLine
  <1>3. UNCHANGED <<idns, part>> /\ Value' = Value  BY <1>1 DEF soeVars, Value
  <1>4. Course => Course'  BY <1>1, <1>2, <1>3, CourseStays
  <1>5. sm0' = NoMsg \/ sm0'.cmd = "SOE_WRITEREQ"  BY <1>1 DEF IdnWriting
  <1>6. sm0 = NoMsg => sm0' = NoMsg  BY <1>1
  <1> QED  BY <1>1, <1>2, <1>3, <1>4, <1>5, <1>6 DEF IdnWriting


\* What a fragment says of itself.
LEMMA PieceIs ==
  ASSUME NEW m, IsPiece(m)
  PROVE  m.obj = job.obj /\ (m.incomplete <=> job.rest # << >>)
  <1>1. PICK b : b = (job.rest # << >>)  OBVIOUS
  <1>2. m = [cmd |-> "SOE_WRITEREQ", obj |-> job.obj, data |-> m.data, incomplete |-> b]
    BY <1>1, Zenon DEF IsPiece, WriteReq
  <1>3. m.obj = job.obj /\ m.incomplete = b
    <2>1. PICK d : d = m.data  OBVIOUS
    <2>2. m = [cmd |-> "SOE_WRITEREQ", obj |-> job.obj, data |-> d, incomplete |-> b]
      BY <1>2, <2>1, Zenon
    <2> QED  BY <2>2
  <1> QED  BY <1>1, <1>3, Zenon

LEMMA WriteOther ==
  ASSUME Typed, NEW cmds, NEW answers, cmds \cap SoeCmds = {},
         answers \cap {"failed", "sent", "SOE_WRITERES"} = {}, OtherServer(cmds, answers),
         UNCHANGED soeVars, IdnWriting
  PROVE  IdnWriting'
  <1>1. UNCHANGED <<pc, request, goesOn, got, job, gone, lastOut, taken, sm1>>
    BY DEF OtherServer, master, transfer, environment
  <1>2. UNCHANGED <<idns, part>> /\ Value' = Value  BY <1>1 DEF soeVars, Value
  <1>3. /\ sm0' = sm0
        /\ outq' = outq \/ \E m : m.cmd \in answers /\ outq' = Append(outq, m)
    BY DEF OtherServer, IdnWriting, SoeCmds
  <1>4. (Clear => Clear') /\ (Unsaid => Unsaid') /\ (Refused => Refused')
    <2>1. CASE outq' = outq
      <3>1. Held' <=> Held  BY <1>1 DEF Held
      <3>2. Line' = Line  BY <1>1, <2>1, <3>1, LineStays
      <3> QED  BY <3>2 DEF Clear, Unsaid, Refused
    <2>2. ASSUME NEW m, m.cmd \in answers, outq' = Append(outq, m)
          PROVE  (Clear => Clear') /\ (Unsaid => Unsaid') /\ (Refused => Refused')
      BY <1>1, <2>2, LineTold
    <2> QED  BY <1>3, <2>1, <2>2
  <1>5. Course => Course'  BY <1>1, <1>2, <1>3, <1>4, CourseStays
  <1> QED  BY <1>1, <1>2, <1>3, <1>4, <1>5 DEF IdnWriting

\* The slave takes a fragment, or refuses it.
LEMMA WriteServed ==
  ASSUME Typed, Unsent, Requests, SoeServer, IdnWrites, IdnWriting
  PROVE  IdnWriting'
  <1>1. /\ job.obj \in Idns /\ IsSeq(job.rest) /\ (sm0 = NoMsg \/ sm0.cmd = "SOE_WRITEREQ")
        /\ UNCHANGED <<pc, request, goesOn, got, job, gone, lastOut, taken, sm1>>
    BY OwnServers DEF IdnWrites, IdnWriting, OtherServer, master, transfer, environment
  <1>2. CASE QueueFragment
    <2>1. PICK m : m = Head(answer)  OBVIOUS
    <2>2. outq' = Append(outq, m) /\ m.cmd = "SOE_READRES" /\ UNCHANGED <<sm0, idns, part>>
      BY <1>2, <2>1, ShortenedAt DEF QueueFragment, Unsent
    <2>3. (Clear => Clear') /\ (Unsaid => Unsaid') /\ (Refused => Refused')
      BY <1>1, <2>2, LineTold
    <2>4. Course => Course'  BY <1>1, <2>2, <2>3, CourseStays
    <2>5. Value' = Value  BY <1>1, <2>2 DEF Value
    <2> QED  BY <1>1, <2>2, <2>3, <2>4, <2>5 DEF IdnWriting
  <1>3. CASE RefuseIdn
    <2>1. /\ outq' = Append(outq, SoeError) /\ sm0' = NoMsg /\ sm0 # NoMsg
      BY <1>3, Appended DEF RefuseIdn, SoeTakes, Take, Typed
    <2>2. (Clear => Clear') /\ (Unsaid => Refused') /\ (Refused => Refused')
      BY <1>1, <2>1, LineTold DEF SoeError
    <2>3. Course => Course'  BY <1>1, <2>1, <2>2 DEF Course
    <2> QED  BY <1>1, <2>1, <2>2, <2>3 DEF IdnWriting
  <1>4. CASE ServeIdnWrite
    <2>1. sm0 # NoMsg /\ sm0' = NoMsg /\ sm0.cmd = "SOE_WRITEREQ" /\ ~gone
          /\ IsSeq(sm0.data) /\ IsSeq(part) /\ DOMAIN idns = Idns
      BY <1>4 DEF ServeIdnWrite, SoeTakes, Take, Unsent, Requests, SoeRequest
    <2>2. PICK data : data = part \o sm0.data  OBVIOUS
    <2>3. Course => Refused \/ /\ Unsaid /\ IsPiece(sm0) /\ data \o job.rest = job.data
                               /\ pc \in {"empty", "wait", "read"}
      BY <2>1, <2>2 DEF Course, Parted
    <2>4. CASE sm0.incomplete
      <3>1. outq' = outq /\ part' = data
        <4>1. outq \o << >> = outq  BY JoinsNothing DEF Typed
        <4> QED  BY <1>4, <2>2, <2>4, <4>1 DEF ServeIdnWrite, SoeTakes, Take
      <3>2. Held' <=> Held  BY <1>1 DEF Held
      <3>3. Line' = Line  BY <1>1, <3>1, <3>2, LineStays
      <3>4. Clear' = Clear /\ Unsaid' = Unsaid /\ Refused' = Refused
        BY <3>3 DEF Clear, Unsaid, Refused
      <3>5. IsPiece(sm0) => job.rest # << >>
        BY <2>4, PieceIs, Zenon
      <3>6. Course => Course'
        <4>1. ASSUME data \o job.rest = job.data, pc \in {"empty", "wait", "read"}, IsPiece(sm0)
              PROVE  Parted'
          BY <1>1, <2>1, <3>1, <3>5, <4>1 DEF Parted
        <4> QED  BY <2>3, <3>4, <4>1 DEF Course
      <3> QED  BY <1>1, <2>1, <3>4, <3>6 DEF IdnWriting
    <2>5. CASE ~sm0.incomplete
      <3>1. PICK m : m = WriteRes(sm0.obj)  OBVIOUS
      <3>2. outq' = Append(outq, m) /\ idns' = [idns EXCEPT ![sm0.obj] = data]
        BY <1>4, <2>2, <2>5, <3>1, Appended DEF ServeIdnWrite, SoeTakes, Take, Typed
      <3>3. m.cmd = "SOE_WRITERES"  BY <3>1 DEF WriteRes
      <3>4. (Clear => Clear') /\ (Refused => Refused')  BY <1>1, <3>2, <3>3, LineTold
      <3>5. Course => Course'
        <4>1. ASSUME data \o job.rest = job.data, pc \in {"empty", "wait", "read"}, IsPiece(sm0)
              PROVE  pc' \in {"wait", "read"} /\ Value' = job'.data
          <5>1. sm0.obj = job.obj /\ ~(job.rest # << >>)
            BY <2>5, <4>1, PieceIs, Zenon
          <5>2. pc # "empty"  BY <5>1 DEF IdnWriting
          <5>3. IsSeq(data)  BY <2>1, <2>2, Joins
          <5>4. data = job.data  BY <4>1, <5>1, <5>3, JoinsNothing
          <5>5. Value' = data  BY <1>1, <2>1, <3>2, <5>1 DEF Value
          <5> QED  BY <1>1, <4>1, <5>2, <5>4, <5>5
        <4> QED  BY <2>1, <2>3, <3>4, <4>1 DEF Course
      <3> QED  BY <1>1, <2>1, <3>4, <3>5 DEF IdnWriting
    <2> QED  BY <2>4, <2>5
  <1>5. CASE ServeIdnRead
    BY <1>1, <1>5 DEF ServeIdnRead, NoMsg
  <1> QED  BY <1>2, <1>3, <1>4, <1>5 DEF SoeServer


-----------------------------------------------------------------------------
(* The calls of ecx_SoEread.                                               *)

\* A step that leaves the transfer where it is.
LEMMA IdnStays ==
  ASSUME IdnInv, UNCHANGED <<pc, request, goesOn, got, job, dirty, fails, repeats>>, Looks',
         job.kind = "SoEread" => /\ NothingAsked => NothingAsked'
                                 /\ Smooth /\ IdnArrives => IdnArrives',
         job.kind = "SoEwrite" => /\ NothingTaken => NothingTaken'
                                  /\ Smooth /\ IdnWriting => IdnWriting'
  PROVE  IdnInv'
  <1>1. Live' = Live /\ Smooth' = Smooth /\ FailsOnce' = FailsOnce
    BY DEF Live, Smooth, FailsOnce
  <1>2. job.kind = "SoEread" => IdnReads'
    <2> SUFFICES ASSUME job.kind = "SoEread" PROVE IdnReads'  OBVIOUS
    <2>1. IdnReads  BY DEF IdnInv
    <2>2. Smooth' /\ job'.clean => IdnArrives'  BY <1>1, <2>1 DEF IdnReads
    <2> QED  BY <1>1, <2>1, <2>2 DEF IdnReads
  <1>3. job.kind = "SoEwrite" => IdnWrites'
    <2> SUFFICES ASSUME job.kind = "SoEwrite" PROVE IdnWrites'  OBVIOUS
    <2>1. IdnWrites  BY DEF IdnInv
    <2>2. Smooth' /\ job'.clean => IdnWriting'  BY <1>1, <2>1 DEF IdnWrites
    <2>3. IsPiece(request) => IsPiece(request)'  BY DEF IsPiece
    <2> QED  BY <2>1, <2>2, <2>3 DEF IdnWrites
  <1> QED  BY <1>2, <1>3 DEF IdnInv

\* What a fragment of a value says.
LEMMA FragmentIs ==
  ASSUME Unsent, job.obj \in Idns, NEW k \in 1 .. Len(Value), NEW m, m = Fragments(job.obj)[k]
  PROVE  /\ m.cmd = "SOE_READRES" /\ m.drive = job.obj.drive /\ m.data = SubSeq(Value, k, k)
         /\ m.incomplete <=> k < Len(Value)
  <1>1. PICK b, d, o : b = (k < Len(Value)) /\ d = SubSeq(Value, k, k) /\ o = job.obj  OBVIOUS
  <1>2. m = ReadRes(o, d, b)
    <2>1. Fragments(o)[k] = ReadRes(o, SubSeq(idns[o], k, k), k < Len(idns[o]))
      BY <1>1, FragmentsIs DEF Value
    <2>2. idns[o] = Value  BY <1>1 DEF Value
    <2> QED  BY <1>1, <2>1, <2>2, Zenon
  <1>3. m.cmd = "SOE_READRES" /\ m.drive = o.drive /\ m.data = d /\ m.incomplete = b
    BY <1>2 DEF ReadRes
  <1> QED  BY <1>1, <1>3, Zenon

LEMMA ReadBegins ==
  ASSUME VInv, ClientStep, UNCHANGED soeVars, NEW o \in Idns, NEW n \in IdnSizes, SoEread(o, n)
  PROVE  IdnInv'
  <1>1. PICK clean : clean = (answer = << >> /\ sm0.cmd # "SOE_READREQ")  OBVIOUS
  <1>2. /\ job' = [kind |-> "SoEread", obj |-> o, psize |-> n, buf |-> << >>, clean |-> clean,
                   ret |-> "none"]
        /\ pc' = "drain" /\ request' = ReadReq(o) /\ goesOn' = "wait"
    <2>1. /\ job' = [kind |-> "SoEread", obj |-> o, psize |-> n, buf |-> << >>,
                     clean |-> (answer = << >> /\ sm0.cmd # "SOE_READREQ"), ret |-> "none"]
          /\ pc' = "drain" /\ request' = ReadReq(o) /\ goesOn' = "wait"
      BY DEF SoEread, Begin, BeginAt
    <2> QED  BY <1>1, <2>1, Zenon
  <1>3. clean => NothingAsked'  BY <1>1 DEF NothingAsked, ClientStep, soeVars
  <1>4. n \in Nat  BY SoEAssumption
  <1>5. IdnReads'  BY <1>2, <1>3, <1>4 DEF IdnReads, FailsOnce, Smooth, Live
  <1> QED  BY <1>2, <1>5, LooksClient DEF VInv, IdnInv

\* A read that returns without its answer.
LEMMA ReadEnds ==
  ASSUME IdnReads, Unsent, Typed, ClientStep, pc = "handle", UNCHANGED soeVars,
         ~(got.cmd = "SOE_READRES" /\ got.drive = job.obj.drive), Return(job, "error")
  PROVE  IdnReads' /\ job'.kind = job.kind
  <1>1. job' = [job EXCEPT !.ret = "error"] /\ pc' = "idle" /\ got' = NoMsg
        /\ UNCHANGED <<request, goesOn, dirty, fails, repeats>>
    BY DEF Return, Becomes, ghosts
  <1>2. /\ job'.kind = job.kind /\ job'.obj = job.obj /\ job'.psize = job.psize
        /\ job'.buf = job.buf /\ job'.ret = "error" /\ DOMAIN job' = DOMAIN job
    BY <1>1 DEF IdnReads
  <1>3. job'.clean = job.clean  BY <1>1 DEF IdnReads
  <1>4. ASSUME Smooth', job.clean PROVE IdnArrives'
    <2>1. Smooth  BY <1>1, <1>4 DEF Smooth, Live
    <2>2. PICK base, last \in 0 .. Len(Value) : IdnTo(base, last)
      BY <1>4, <2>1 DEF IdnReads, IdnArrives
    <2>3. PICK C, q, series, rest :
            /\ C = {"SOE_READRES"} /\ q = ReadReq(job.obj) /\ series = Fragments(job.obj)
            /\ rest = answer
      OBVIOUS
    <2>4. SeriesTo(C, q, rest, series, base, last)  BY <2>2, <2>3 DEF IdnTo
    <2>5. Line' = Line /\ UNCHANGED <<sm0, gone, answer, idns>>
      BY LineClient DEF ClientStep, environment, soeVars
    <2>6. SeriesTo(C, q, rest, series, base, last)'  BY <1>1, <2>4, <2>5 DEF SeriesTo
    <2>7. got.cmd # "SOE_READRES"
      <3> SUFFICES ASSUME got.cmd = "SOE_READRES" PROVE FALSE  OBVIOUS
      <3>1. base > 0 /\ got = Fragments(job.obj)[base]  BY <2>2 DEF IdnTo
      <3>2. base \in 1 .. Len(Value) /\ job.obj \in Idns
        BY <3>1, FragmentsIs DEF IdnReads, Value
      <3> QED  BY <3>1, <3>2, FragmentIs
    <2>8. Value' = Value /\ Fragments(job.obj)' = series /\ ReadReq(job.obj)' = q
      BY <1>2, <2>3, <2>5 DEF Value, Fragments
    <2>9. Buffered(base)'  BY <1>2, <2>2, <2>7, <2>8 DEF IdnTo, Buffered
    <2>10. IdnTo(base, last)'
      BY <1>1, <1>2, <2>3, <2>5, <2>6, <2>8, <2>9 DEF IdnTo
    <2> QED  BY <2>8, <2>10 DEF IdnArrives
  <1> QED  BY <1>1, <1>2, <1>3, <1>4 DEF IdnReads, FailsOnce

\* A fragment of the value is read.
LEMMA ReadsOn ==
  ASSUME IdnReads, Unsent, Typed, ClientStep, ReadFragment, UNCHANGED soeVars,
         got.cmd = "SOE_READRES", got.drive = job.obj.drive
  PROVE  IdnReads' /\ job'.kind = job.kind
  <1>0. pc = "handle" /\ fails = 0 /\ job.obj \in Idns /\ job.psize \in Nat
    BY Handled DEF ReadFragment, Handles, IdnReads
  <1>1. PICK all, buf : /\ all = job.buf \o got.data
                        /\ buf = SubSeq(all, 1, IF Len(all) <= job.psize THEN Len(all)
                                                ELSE job.psize)
    OBVIOUS
  <1>2. PICK read : read = [job EXCEPT !.buf = buf]  OBVIOUS
  <1>3. /\ read.kind = job.kind /\ read.obj = job.obj /\ read.psize = job.psize
        /\ read.buf = buf /\ read.ret = job.ret /\ DOMAIN read = DOMAIN job
    BY <1>2 DEF IdnReads
  <1>4. read.clean = job.clean  BY <1>2 DEF IdnReads
  <1>5. IF got.incomplete THEN Becomes(read) /\ ReceiveNext ELSE Return(read, "ok")
    BY <1>1, <1>2 DEF ReadFragment
  <1>6. PICK more : more = got.incomplete  OBVIOUS
  <1>7. /\ UNCHANGED <<request, goesOn, dirty, fails, repeats>> /\ got' = NoMsg
        /\ more => job' = read /\ pc' = "wait"
        /\ ~more => job' = [read EXCEPT !.ret = "ok"] /\ pc' = "idle"
    BY <1>3, <1>5, <1>6 DEF Becomes, ReceiveNext, Return, ghosts
  <1>8. /\ job'.kind = job.kind /\ job'.obj = job.obj /\ job'.psize = job.psize
        /\ job'.buf = buf /\ DOMAIN job' = DOMAIN job
    BY <1>3, <1>7 DEF IdnReads
  <1>9. job'.clean = job.clean  BY <1>3, <1>4, <1>7 DEF IdnReads
  <1>10. pc' \in {"wait", "idle"}  BY <1>5, <1>7
  <1>11. ASSUME Smooth', job.clean PROVE IdnArrives'
    <2>1. Smooth  BY <1>0, <1>7, <1>11 DEF Smooth, Live
    <2>2. PICK base, last \in 0 .. Len(Value) : IdnTo(base, last)
      BY <1>11, <2>1 DEF IdnReads, IdnArrives
    <2>3. PICK C, q, series, rest :
            /\ C = {"SOE_READRES"} /\ q = ReadReq(job.obj) /\ series = Fragments(job.obj)
            /\ rest = answer
      OBVIOUS
    <2>4. SeriesTo(C, q, rest, series, base, last)  BY <2>2, <2>3 DEF IdnTo
    <2>5. base > 0 /\ got = Fragments(job.obj)[base] /\ Buffered(base - 1)
      BY <1>0, <2>2 DEF IdnTo
    <2>6. base \in 1 .. Len(Value) /\ IsSeq(Value) /\ Len(Value) \in Nat
      BY <1>0, <2>5, FragmentsIs DEF Value
    <2>7. got.data = SubSeq(Value, base, base) /\ (got.incomplete <=> base < Len(Value))
      BY <1>0, <2>5, <2>6, FragmentIs
    <2>8. buf = SubSeq(Value, 1, Least(base, job.psize))
      <3>1. PICK d, n, M, s : d = Value /\ n = Len(Value) /\ M = job.psize /\ s = job.buf  OBVIOUS
      <3>2. IsSeq(d) /\ n = Len(d) /\ M \in Nat /\ base \in 1 .. n
            /\ s = SubSeq(d, 1, Least(base - 1, M)) /\ all = s \o SubSeq(d, base, base)
        BY <1>0, <1>1, <2>5, <2>6, <2>7, <3>1 DEF Buffered
      <3>3. SubSeq(all, 1, Least(Len(all), M)) = SubSeq(d, 1, Least(base, M))
        <4>1. all = SubSeq(d, 1, Least(base - 1, M)) \o SubSeq(d, base, base)  BY <3>2, Zenon
        <4>2. base \in 1 .. Len(d)  BY <3>2
        <4> QED  BY <3>2, <4>1, <4>2, Grows, Zenon
      <3>4. buf = SubSeq(all, 1, Least(Len(all), M))  BY <1>1, <3>1 DEF Least
      <3> QED  BY <3>1, <3>3, <3>4
    <2>9. Line' = Line /\ UNCHANGED <<sm0, gone, answer, idns>>
      BY LineClient DEF ClientStep, environment, soeVars
    <2>10. SeriesTo(C, q, rest, series, base, last)'
      BY <1>7, <1>10, <2>4, <2>9 DEF SeriesTo
    <2>11. Value' = Value /\ Fragments(job.obj)' = series /\ ReadReq(job.obj)' = q
      BY <1>8, <2>3, <2>9 DEF Value, Fragments
    <2>12. Buffered(base)'  BY <1>8, <2>8, <2>11 DEF Buffered
    <2>13. more => pc' = "wait"  BY <1>7
    <2>14. ~more => base = Len(Value)
      <3>1. PICK b, n : b = base /\ n = Len(Value)  OBVIOUS
      <3>2. ~more => ~(b < n)  BY <1>6, <2>7, <3>1, Zenon
      <3>3. b \in 1 .. n /\ n \in Nat  BY <2>6, <3>1
      <3>4. ~more => b = n  BY ONLY <3>2, <3>3
      <3> QED  BY <3>1, <3>4
    <2>15. IdnTo(base, last)'
      BY <1>10, <2>3, <2>9, <2>10, <2>11, <2>12, <2>13, <2>14 DEF IdnTo
    <2> QED  BY <2>11, <2>15 DEF IdnArrives
  <1>12. FailsOnce'  BY <1>0, <1>7 DEF FailsOnce
  <1> QED  BY <1>0, <1>8, <1>9, <1>10, <1>11, <1>12 DEF IdnReads

LEMMA FragmentRead ==
  ASSUME VInv, ClientStep, ReadFragment, UNCHANGED soeVars
  PROVE  IdnInv'
  <1>1. IdnReads /\ pc = "handle" /\ job.kind = "SoEread" /\ Typed /\ Unsent
    BY DEF VInv, IdnInv, ReadFragment, Handles, Well, IInv
  <1>2. IdnReads' /\ job'.kind = "SoEread"
    <2>1. CASE got.cmd = "SOE_READRES" /\ got.drive = job.obj.drive  BY <1>1, <2>1, ReadsOn
    <2>2. CASE ~(got.cmd = "SOE_READRES" /\ got.drive = job.obj.drive)
      <3>1. Return(job, "error")  BY <2>2 DEF ReadFragment
      <3> QED  BY <1>1, <2>2, <3>1, ReadEnds
    <2> QED  BY <2>1, <2>2
  <1> QED  BY <1>2, LooksClient DEF VInv, IdnInv


-----------------------------------------------------------------------------
(* The calls of ecx_SoEwrite.                                              *)

\* Nothing behind the first of a sequence, or something.
LEMMA MoreThanOne ==
  ASSUME NEW d, IsSeq(d), d # << >>
  PROVE  /\ Len(d) \in Nat /\ (Len(d) > 1 <=> Tail(d) # << >>)
         /\ IsSeq(SubSeq(d, 1, 1)) /\ IsSeq(Tail(d)) /\ SubSeq(d, 1, 1) \o Tail(d) = d
  <1>1. PICK S : d \in Seq(S)  BY DEF IsSeq
  <1>2. Len(d) \in Nat /\ (Len(d) > 1 <=> Tail(d) # << >>)
    BY ONLY <1>1, d # << >>, FirstAndRest
  <1> QED  BY <1>2, FirstAndOthers

\* Three sequences, one behind the other.
LEMMA Reordered ==
  ASSUME NEW a, NEW b, NEW c, IsSeq(a), IsSeq(b), IsSeq(c)
  PROVE  (a \o b) \o c = a \o (b \o c)
  <1>1. PICK S : a \in Seq(S) /\ b \in Seq(S) /\ c \in Seq(S)  BY Common
  <1> QED  BY ONLY <1>1

LEMMA WriteBegins ==
  ASSUME VInv, ClientStep, UNCHANGED soeVars, NEW o \in Idns, NEW n \in IdnSizes, SoEwrite(o, n)
  PROVE  IdnInv'
  <1>1. PICK data : data = DataOf(jobs + 1, n)  OBVIOUS
  <1>2. n \in Nat /\ n > 0  BY SoEAssumption
  <1>3. IsSeq(data) /\ data # << >> /\ Len(data) = n
    <2>1. IsSeq(data) /\ data # << >>  BY <1>1, <1>2, DataIsSeq
    <2>2. Len(data) = n  BY <1>1, <1>2 DEF DataOf
    <2> QED  BY <2>1, <2>2
  <1>4. PICK first, rest : first = SubSeq(data, 1, 1) /\ rest = Tail(data)  OBVIOUS
  <1>5. IsSeq(first) /\ IsSeq(rest) /\ first \o rest = data /\ (n > 1 <=> rest # << >>)
    BY <1>3, <1>4, MoreThanOne
  <1>6. PICK clean, more : /\ clean = (part = << >> /\ sm0.cmd # "SOE_WRITEREQ")
                           /\ more = (n > 1)
    OBVIOUS
  <1>7. /\ job' = [kind |-> "SoEwrite", obj |-> o, data |-> data, rest |-> rest,
                   notLast |-> more, clean |-> clean, ret |-> "none"]
        /\ pc' = "drain" /\ request' = WriteReq(o, first, more)
        /\ goesOn' = IF more THEN "empty" ELSE "wait"
    <2>1. /\ job' = [kind |-> "SoEwrite", obj |-> o, data |-> data, rest |-> Tail(data),
                     notLast |-> n > 1, clean |-> (part = << >> /\ sm0.cmd # "SOE_WRITEREQ"),
                     ret |-> "none"]
          /\ pc' = "drain" /\ request' = WriteReq(o, SubSeq(data, 1, 1), n > 1)
          /\ goesOn' = IF n > 1 THEN "empty" ELSE "wait"
      BY <1>1, Zenon DEF SoEwrite, BeginAt
    <2> QED  BY <1>4, <1>6, <2>1, Zenon
  <1>8. /\ DOMAIN job' = {"kind", "obj", "data", "rest", "notLast", "clean", "ret"}
        /\ job'.kind = "SoEwrite" /\ job'.obj = o /\ job'.data = data /\ job'.rest = rest
        /\ job'.notLast = more /\ job'.clean = clean
    BY <1>7
  <1>9. more <=> rest # << >>  BY <1>5, <1>6
  <1>10. PICK b : b = (rest # << >>)  OBVIOUS
  <1>11. b = more
    <2>1. more \in BOOLEAN  BY <1>6
    <2> QED  BY <1>9, <1>10, <2>1, Zenon
  <1>12. request'.cmd = "SOE_WRITEREQ" /\ request'.data = first
    BY <1>7 DEF WriteReq
  <1>13. IsPiece(request)'
    <2>1. request' = WriteReq(job'.obj, request'.data, b)
      BY <1>7, <1>8, <1>11, <1>12, Zenon
    <2>2. request' = WriteReq(job'.obj, request'.data, job'.rest # << >>)
      BY <1>8, <1>10, <2>1, Zenon
    <2> QED  BY <1>12, <2>2, Zenon DEF IsPiece
  <1>14. clean => NothingTaken'  BY <1>6 DEF NothingTaken, ClientStep, soeVars
  <1>15. goesOn' = IF job'.rest # << >> THEN "empty" ELSE "wait"
    BY <1>7, <1>8, <1>9, Zenon
  <1>16. IdnWrites'
    <2>1. ~Smooth'  BY <1>7 DEF Smooth, Live
    <2>2. job'.notLast <=> job'.rest # << >>  BY <1>8, <1>9, Zenon
    <2>3. request'.data \o job'.rest = job'.data  BY <1>5, <1>8, <1>12, Zenon
    <2>4. job'.clean => NothingTaken'  BY <1>8, <1>14, Zenon
    <2>5. job'.obj \in Idns /\ IsSeq(job'.rest) /\ IsSeq(job'.data)  BY <1>3, <1>5, <1>8, Zenon
    <2> QED  BY <1>8, <1>13, <1>15, <2>1, <2>2, <2>3, <2>4, <2>5, Zenon DEF IdnWrites
  <1>17. Looks'  BY LooksClient DEF VInv, IdnInv
  <1> QED  BY <1>8, <1>16, <1>17 DEF IdnInv

\* The next fragment.
LEMMA WritesOn ==
  ASSUME VInv, ClientStep, WriteGoesOn, UNCHANGED soeVars
  PROVE  IdnInv'
  <1>1. /\ IdnWrites /\ pc = "handle" /\ job.kind = "SoEwrite" /\ Typed /\ Unsent
        /\ job.notLast /\ got \in {Sent, Failed} /\ WriteFragment(job)
        /\ pc' = "send" /\ UNCHANGED <<dirty, fails, repeats>>
    BY DEF VInv, IdnInv, WriteGoesOn, Handles, Well, IInv, ghosts
  <1>2. PICK d : d = job.rest  OBVIOUS
  <1>3. PICK first, rest, more : first = SubSeq(d, 1, 1) /\ rest = Tail(d) /\ more = (Len(d) > 1)
    OBVIOUS
  <1>4. IsSeq(d) /\ d # << >>  BY <1>1, <1>2 DEF IdnWrites
  <1>5. IsSeq(first) /\ IsSeq(rest) /\ first \o rest = d /\ (more <=> rest # << >>)
    BY <1>3, <1>4, MoreThanOne
  <1>6. /\ job' = [job EXCEPT !.rest = rest, !.notLast = more]
        /\ request' = WriteReq(job.obj, first, more)
        /\ goesOn' = IF more THEN "empty" ELSE "wait"
    <2>1. /\ job' = [job EXCEPT !.rest = Tail(d), !.notLast = (Len(d) > 1)]
          /\ request' = WriteReq(job.obj, SubSeq(d, 1, 1), Len(d) > 1)
          /\ goesOn' = IF Len(d) > 1 THEN "empty" ELSE "wait"
      BY <1>1, <1>2, Zenon DEF WriteFragment
    <2> QED  BY <1>3, <2>1, Zenon
  <1>7. /\ job'.kind = "SoEwrite" /\ job'.obj = job.obj /\ job'.data = job.data
        /\ job'.rest = rest /\ job'.ret = job.ret /\ DOMAIN job' = DOMAIN job
    BY <1>1, <1>6 DEF IdnWrites
  <1>8. job'.notLast = more /\ job'.clean = job.clean
    BY <1>1, <1>6 DEF IdnWrites
  <1>9. more \in BOOLEAN  BY <1>3
  <1>10. PICK b : b = (rest # << >>)  OBVIOUS
  <1>11. b = more  BY <1>5, <1>9, <1>10, Zenon
  <1>12. request'.cmd = "SOE_WRITEREQ" /\ request'.data = first
    BY <1>6 DEF WriteReq
  <1>13. IsPiece(request)'
    <2>1. request' = WriteReq(job'.obj, request'.data, b)
      BY <1>6, <1>7, <1>11, <1>12, Zenon
    <2>2. request' = WriteReq(job'.obj, request'.data, job'.rest # << >>)
      BY <1>7, <1>10, <2>1, Zenon
    <2> QED  BY <1>12, <2>2, Zenon DEF IsPiece
  <1>14. goesOn' = IF job'.rest # << >> THEN "empty" ELSE "wait"
    BY <1>5, <1>6, <1>7, Zenon
  <1>15. ASSUME Smooth', job.clean PROVE IdnWriting'
    <2>1. Smooth  BY <1>1, <1>15 DEF Smooth, Live
    <2>2. IdnWriting  BY <1>1, <1>15, <2>1 DEF IdnWrites
    <2>3. got = Sent  BY <1>1, <2>2 DEF IdnWriting
    <2>4. Course  BY <1>1, <2>2, <2>3 DEF IdnWriting
    <2>5. Line' = Line /\ UNCHANGED <<sm0, gone, idns, part>>
      BY LineClient DEF ClientStep, environment, soeVars
    <2>6. Clear' = Clear /\ Unsaid' = Unsaid /\ Refused' = Refused
      BY <2>5 DEF Clear, Unsaid, Refused
    <2>7. Course'
      <3>1. CASE Refused  BY <2>6, <3>1 DEF Course
      <3>2. CASE Unsaid /\ gone /\ sm0 = NoMsg  BY <2>5, <2>6, <3>2 DEF Course
      <3>3. CASE Unsaid /\ Parted
        <4>1. sm0 = NoMsg /\ part \o job.rest = job.data  BY <1>1, <3>3 DEF Parted
        <4>2. (part \o first) \o rest = part \o (first \o rest)
          <5>1. PICK a, b1, c : a = part /\ b1 = first /\ c = rest  OBVIOUS
          <5>2. IsSeq(a) /\ IsSeq(b1) /\ IsSeq(c)  BY <1>1, <1>5, <5>1 DEF Unsent
          <5>3. (a \o b1) \o c = a \o (b1 \o c)  BY ONLY <5>2, Reordered
          <5> QED  BY <5>1, <5>3, Zenon
        <4>3. (part' \o request'.data) \o job'.rest = job'.data
          <5>1. part' = part  BY <2>5
          <5>2. part \o (first \o rest) = job.data  BY <1>2, <1>5, <4>1, Zenon
          <5> QED  BY <1>7, <1>12, <4>2, <5>1, <5>2, Zenon
        <4>4. Parted'  BY <1>1, <1>13, <2>5, <4>1, <4>3 DEF Parted
        <4> QED  BY <2>6, <3>3, <4>4 DEF Course
      <3> QED  BY <1>1, <2>4, <3>1, <3>2, <3>3 DEF Course
    <2> QED  BY <1>1, <1>12, <1>14, <2>2, <2>5, <2>6, <2>7 DEF IdnWriting
  <1>16. IdnWrites'
    <2>1. job'.notLast <=> job'.rest # << >>  BY <1>5, <1>7, <1>8, Zenon
    <2>2. job'.obj \in Idns /\ IsSeq(job'.rest) /\ IsSeq(job'.data) /\ DOMAIN job' = DOMAIN job
      BY <1>1, <1>5, <1>7, Zenon DEF IdnWrites
    <2>3. Smooth' /\ job'.clean => IdnWriting'  BY <1>8, <1>15, Zenon
    <2>4. pc' # "drain"  BY <1>1
    <2>5. {"kind", "obj", "data", "rest", "notLast", "clean", "ret"} \subseteq DOMAIN job'
      BY <1>1, <1>7 DEF IdnWrites
    <2> QED  BY <2>1, <2>2, <2>3, <2>4, <2>5, Zenon DEF IdnWrites
  <1>17. Looks'  BY LooksClient DEF VInv, IdnInv
  <1> QED  BY <1>7, <1>16, <1>17 DEF IdnInv

LEMMA WriteReturns ==
  ASSUME VInv, ClientStep, WriteEnds, UNCHANGED soeVars
  PROVE  IdnInv'
  <1>1. IdnWrites /\ pc = "handle" /\ job.kind = "SoEwrite"
    BY DEF VInv, IdnInv, WriteEnds, Handles
  <1>2. PICK ret : ret = IF got.cmd = "SOE_WRITERES" /\ got.drive = job.obj.drive
                         THEN "ok" ELSE "error"
    OBVIOUS
  <1>3. job' = [job EXCEPT !.ret = ret] /\ pc' = "idle" /\ got' = NoMsg
        /\ UNCHANGED <<dirty, fails, repeats>>
    BY <1>2 DEF WriteEnds, Return, Becomes, ghosts
  <1>4. /\ job'.kind = "SoEwrite" /\ job'.obj = job.obj /\ job'.data = job.data
        /\ job'.rest = job.rest /\ job'.ret = ret /\ DOMAIN job' = DOMAIN job
    BY <1>1, <1>3 DEF IdnWrites
  <1>5. job'.notLast = job.notLast /\ job'.clean = job.clean
    BY <1>1, <1>3 DEF IdnWrites
  <1>6. ASSUME Smooth', job.clean PROVE IdnWriting'
    <2>1. IdnWriting  BY <1>1, <1>3, <1>6 DEF IdnWrites, Smooth, Live
    <2>2. Line' = Line /\ UNCHANGED <<sm0, idns>>
      BY LineClient DEF ClientStep, soeVars
    <2>3. Clear' = Clear  BY <2>2 DEF Clear
    <2>4. ret = "ok" => sm0 = NoMsg /\ Value = job.data
      BY <1>1, <1>2, <2>1 DEF IdnWriting
    <2>5. Value' = Value  BY <1>4, <2>2 DEF Value
    <2> QED  BY <1>3, <1>4, <2>1, <2>2, <2>3, <2>4, <2>5 DEF IdnWriting, NoMsg
  <1>7. IdnWrites'
    <2>1. job'.notLast <=> job'.rest # << >>  BY <1>1, <1>4, <1>5, Zenon DEF IdnWrites
    <2>2. job'.obj \in Idns /\ IsSeq(job'.rest) /\ IsSeq(job'.data)
      BY <1>1, <1>4, Zenon DEF IdnWrites
    <2>3. Smooth' /\ job'.clean => IdnWriting'  BY <1>5, <1>6, Zenon
    <2>4. pc' # "drain"  BY <1>3
    <2>5. {"kind", "obj", "data", "rest", "notLast", "clean", "ret"} \subseteq DOMAIN job'
      BY <1>1, <1>4 DEF IdnWrites
    <2> QED  BY <2>1, <2>2, <2>3, <2>4, <2>5, Zenon DEF IdnWrites
  <1>8. Looks'  BY LooksClient DEF VInv, IdnInv
  <1> QED  BY <1>4, <1>7, <1>8 DEF IdnInv


-----------------------------------------------------------------------------
(* The steps that are not the transfer's.                                  *)

LEMMA IdnMail ==
  ASSUME VInv, IInv', MasterMail \/ HookFragment, UNCHANGED soeVars
  PROVE  IdnInv'
  <1>1. /\ Typed /\ Unsent /\ Requests /\ IInv /\ IdnInv /\ Looks /\ job' = job
        /\ pc' \notin {"idle", "drain"} /\ (pc = "drain" => Drained)
    BY MailPlaces DEF VInv, Well, IInv, IdnInv
  <1>2. Looks'  BY <1>1, LooksMail
  <1>3. FailsOnce => FailsOnce'  BY <1>1, FailsOnceMail
  <1>4. job.kind = "SoEread" => IdnReads'
    <2> SUFFICES ASSUME job.kind = "SoEread" PROVE IdnReads'  OBVIOUS
    <2>1. IdnReads  BY <1>1 DEF IdnInv
    <2>2. ASSUME Smooth', job.clean PROVE IdnArrives'
      <3>1. CASE pc = "drain"  BY <1>1, <2>1, <2>2, <3>1, ArrivesDrained
      <3>2. CASE pc # "drain"  BY <1>1, <2>1, <2>2, <3>2, ArrivesMail
      <3> QED  BY <3>1, <3>2
    <2> QED  BY <1>1, <1>3, <2>1, <2>2 DEF IdnReads
  <1>5. job.kind = "SoEwrite" => IdnWrites'
    <2> SUFFICES ASSUME job.kind = "SoEwrite" PROVE IdnWrites'  OBVIOUS
    <2>1. IdnWrites  BY <1>1 DEF IdnInv
    <2>2. ASSUME Smooth', job.clean PROVE IdnWriting'
      <3>1. CASE pc = "drain"  BY <1>1, <2>1, <2>2, <3>1, WriteDrained
      <3>2. CASE pc # "drain"  BY <1>1, <2>1, <2>2, <3>2, WriteMail
      <3> QED  BY <3>1, <3>2
    <2> QED  BY <1>1, <2>1, <2>2 DEF IdnWrites
  <1> QED  BY <1>1, <1>2, <1>4, <1>5 DEF IdnInv

LEMMA IdnSlaveMail ==
  ASSUME VInv, IInv', SlaveMail, UNCHANGED soeVars
  PROVE  IdnInv'
  <1>1. /\ UNCHANGED <<pc, request, goesOn, got, job, dirty, fails, repeats, answer, part>>
        /\ sm0' = sm0 \/ sm0' = NoMsg
    BY DEF SlaveMail, Publish, Repeat, Notify, Vanish, master, ghosts, transfer, soeVars
  <1>2. IdnInv /\ Looks /\ Looks' /\ IInv /\ Unsent
    BY LooksSlave DEF VInv, IdnInv, Well
  <1>3. (NothingAsked => NothingAsked') /\ (NothingTaken => NothingTaken')
    BY <1>1 DEF NothingAsked, NothingTaken, NoMsg
  <1>4. Smooth' = Smooth  BY <1>1 DEF Smooth, Live
  <1>5. job.kind = "SoEread" /\ Smooth /\ IdnArrives => IdnArrives'
    BY <1>2, <1>4, ArrivesSlave DEF IdnInv
  <1>6. Smooth /\ IdnWriting => IdnWriting'  BY <1>2, <1>4, WriteSlave
  <1> QED  BY <1>1, <1>2, <1>3, <1>5, <1>6, IdnStays

LEMMA IdnOtherServer ==
  ASSUME VInv, NEW cmds, NEW answers, cmds \cap SoeCmds = {},
         answers \subseteq {"EOE_FRAG", "ODLIST_RES"}, OtherServer(cmds, answers),
         UNCHANGED soeVars
  PROVE  IdnInv'
  <1>1. /\ UNCHANGED <<pc, request, goesOn, got, job, dirty, fails, repeats, lastOut, taken, sm1,
                       answer, part>>
        /\ sm0' = sm0 \/ sm0' = NoMsg
    BY DEF OtherServer, master, ghosts, transfer, environment, soeVars
  <1>2. IdnInv /\ Looks /\ Typed /\ Unsent  BY DEF VInv, IdnInv, Well, IInv
  <1>3. Looks'  BY <1>1, <1>2, LooksRests
  <1>4. (NothingAsked => NothingAsked') /\ (NothingTaken => NothingTaken')
    BY <1>1 DEF NothingAsked, NothingTaken, NoMsg
  <1>5. job.kind = "SoEread" /\ IdnArrives => IdnArrives'
    <2>1. "SOE_READREQ" \notin cmds /\ "SOE_READRES" \notin answers  BY DEF SoeCmds
    <2> QED  BY <1>2, <2>1, ArrivesOther DEF IdnInv
  <1>6. IdnWriting => IdnWriting'
    <2>1. answers \cap {"failed", "sent", "SOE_WRITERES"} = {}  OBVIOUS
    <2> QED  BY <1>2, <2>1, WriteOther
  <1> QED  BY <1>1, <1>2, <1>3, <1>4, <1>5, <1>6, IdnStays

LEMMA IdnServed ==
  ASSUME VInv, SoeServer
  PROVE  IdnInv'
  <1>1. /\ UNCHANGED <<pc, request, goesOn, got, job, dirty, fails, repeats, lastOut, taken, sm1>>
        /\ IdnInv /\ Looks /\ Typed /\ Unsent /\ Requests
    BY OwnServers DEF OtherServer, master, ghosts, transfer, VInv, IdnInv, Well, IInv
  <1>2. Looks'  BY <1>1, LooksRests
  <1>3. job.kind = "SoEread" /\ IdnArrives => IdnArrives'
    BY <1>1, ArrivesServed DEF IdnInv
  <1>4. job.kind = "SoEwrite" /\ IdnWriting => IdnWriting'
    BY <1>1, WriteServed DEF IdnInv
  <1> QED  BY <1>1, <1>2, <1>3, <1>4, NothingServed, IdnStays

\* Nothing moves: the hook is defined, or the step is none of these.
LEMMA IdnRests ==
  ASSUME VInv,
         \/ UNCHANGED <<master, transfer, outq, lastOut, taken, sm0, sm1, environment, ghosts, soeVars>>
         \/ EOEdefinehook /\ UNCHANGED soeVars
  PROVE  IdnInv'
  <1>1. UNCHANGED <<pc, request, goesOn, got, job, dirty, fails, repeats, sm0, sm1, outq, lastOut,
                    taken, gone, idns, answer, part>>
    BY DEF master, ghosts, soeVars, EOEdefinehook, slaveMail, transfer, environment
  <1>2. IdnInv /\ Looks /\ Looks' /\ (Held' <=> Held)
    BY <1>1, LooksRests DEF VInv, IdnInv, Held
  <1>3. Line' = Line  BY <1>1, <1>2, LineStays
  <1>4. NothingAsked' = NothingAsked /\ NothingTaken' = NothingTaken
    BY <1>1 DEF NothingAsked, NothingTaken
  <1>5. IdnArrives => IdnArrives'
    <2> SUFFICES ASSUME NEW base \in 0 .. Len(Value), NEW last \in 0 .. Len(Value),
                        IdnTo(base, last)
                 PROVE  IdnArrives'
      BY DEF IdnArrives
    <2>1. PICK C, q, series, rest :
            /\ C = {"SOE_READRES"} /\ q = ReadReq(job.obj) /\ series = Fragments(job.obj)
            /\ rest = answer
      OBVIOUS
    <2>2. SeriesTo(C, q, rest, series, base, last)  BY <2>1 DEF IdnTo
    <2>3. SeriesTo(C, q, rest, series, base, last)'  BY <1>1, <1>3, <2>2 DEF SeriesTo
    <2>4. SeriesTo({"SOE_READRES"}, q, rest, series, base, last)'  BY <2>1, <2>3
    <2> QED  BY <1>1, <2>1, <2>4, ArrivesOn
  <1>6. IdnWriting => IdnWriting'
    <2> SUFFICES ASSUME IdnWriting PROVE IdnWriting'  OBVIOUS
    <2>1. Clear' = Clear /\ Unsaid' = Unsaid /\ Refused' = Refused
      BY <1>3 DEF Clear, Unsaid, Refused
    <2>2. Value' = Value  BY <1>1 DEF Value
    <2>3. Course => Course'  BY <1>1, <2>1, CourseStays
    <2> QED  BY <1>1, <2>1, <2>2, <2>3 DEF IdnWriting
  <1> QED  BY <1>1, <1>2, <1>4, <1>5, <1>6, IdnStays

-----------------------------------------------------------------------------
(* The invariant of the parameters.                                        *)

LEMMA InitVInv == Init => VInv
  <1> SUFFICES ASSUME Init PROVE VInv  OBVIOUS
  <1>1. Well  BY InitFInv DEF FInv
  <1>2. pc = "idle" /\ job.kind = "none"  BY DEF Init, MailInit
  <1> QED  BY <1>1, <1>2 DEF VInv, IdnInv, Looks

LEMMA IdnClientKeeps == ASSUME VInv, SoeClient PROVE IdnInv'
  <1>1. ClientStep /\ UNCHANGED soeVars  BY SoeSteps DEF VInv, Well, IInv, SoeClient
  <1> QED
    BY <1>1, ReadBegins, FragmentRead, WriteBegins, WritesOn, WriteReturns DEF SoeClient

LEMMA IdnMaster == ASSUME VInv, IInv', Master PROVE IdnInv'
  <1>0. Typed /\ Jobs  BY DEF VInv, Well, IInv
  <1>1. ASSUME NEW kinds, NEW cmds, OtherStep(kinds, cmds), ClientStep,
               kinds \cap {"SoEread", "SoEwrite"} = {}
        PROVE  IdnInv'
    <2>1. job'.kind \notin {"SoEread", "SoEwrite"}  BY <1>1 DEF OtherStep
    <2> QED  BY <1>1, <2>1, LooksClient DEF VInv, IdnInv
  <1>2. CASE MasterMail /\ UNCHANGED protocolVars  BY <1>2, IdnMail DEF protocolVars
  <1>3. CASE Sdo(SdoClient)
    <2>1. SdoKinds \cap {"SoEread", "SoEwrite"} = {}  BY DEF SdoKinds
    <2> QED  BY <1>0, <1>1, <1>3, <2>1, SdoOther, SdoSteps DEF Sdo
  <1>4. CASE Foe(FoeClient)
    <2>1. FoeKinds \cap {"SoEread", "SoEwrite"} = {}  BY DEF FoeKinds
    <2> QED  BY <1>0, <1>1, <1>4, <2>1, FoeOther, FoeSteps DEF Foe
  <1>5. CASE Soe(SoeClient)  BY <1>5, IdnClientKeeps DEF Soe
  <1>6. CASE Eoe(EoeClient)
    <2>1. EoeKinds \cap {"SoEread", "SoEwrite"} = {}  BY DEF EoeKinds
    <2>2. CASE EOEdefinehook  BY <1>6, <2>2, IdnRests DEF Eoe
    <2> QED  BY <1>0, <1>1, <1>6, <2>1, <2>2, EoeOther, EoeSteps DEF Eoe
  <1>7. CASE Eoe(HookFragment)  BY <1>7, IdnMail DEF Eoe
  <1>8. CASE Info(InfoClient)
    <2>1. InfoKinds \cap {"SoEread", "SoEwrite"} = {}  BY DEF InfoKinds
    <2> QED  BY <1>0, <1>1, <1>8, <2>1, InfoOther, InfoSteps DEF Info
  <1> QED  BY <1>2, <1>3, <1>4, <1>5, <1>6, <1>7, <1>8 DEF Master, Eoe

LEMMA IdnSlave == ASSUME VInv, IInv', Slave PROVE IdnInv'
  <1>1. Unsent  BY DEF VInv, Well
  <1>2. CASE SlaveMail /\ UNCHANGED protocolVars  BY <1>2, IdnSlaveMail DEF protocolVars
  <1>3. \A R \in {SdoReqs, FoeReqs, EoeReqs, InfoReqs} : R \cap SoeCmds = {}
    BY DEF SdoReqs, FoeReqs, EoeReqs, InfoReqs, SoeCmds
  <1>4. CASE Sdo(SdoServer)  BY <1>1, <1>3, <1>4, OwnServers, IdnOtherServer DEF Sdo
  <1>5. CASE Foe(FoeServer)  BY <1>1, <1>3, <1>5, OwnServers, IdnOtherServer DEF Foe
  <1>6. CASE Soe(SoeServer)  BY <1>6, IdnServed DEF Soe
  <1>7. CASE Eoe(EoeServer)  BY <1>1, <1>3, <1>7, OwnServers, IdnOtherServer DEF Eoe
  <1>8. CASE Info(InfoServer)  BY <1>1, <1>3, <1>8, OwnServers, IdnOtherServer DEF Info
  <1> QED  BY <1>2, <1>4, <1>5, <1>6, <1>7, <1>8 DEF Slave

LEMMA NextVInv == VInv /\ [Next]_vars => VInv'
  <1> SUFFICES ASSUME VInv, [Next]_vars PROVE VInv'  OBVIOUS
  <1>1. IInv'  BY NextIInv DEF VInv, Well
  <1>2. CASE Master
    <2>1. IdnInv'  BY <1>1, <1>2, IdnMaster
    <2> QED  BY <1>1, <1>2, <2>1, MasterWell DEF VInv, Well
  <1>3. CASE Slave
    <2>1. IdnInv'  BY <1>1, <1>3, IdnSlave
    <2> QED  BY <1>1, <1>3, <2>1, SlaveWell DEF VInv, Well
  <1>4. CASE UNCHANGED vars
    <2>1. UNCHANGED <<master, transfer, outq, lastOut, taken, sm0, sm1, environment, ghosts,
                      soeVars>>
      BY <1>4 DEF vars, mailVars, protocolVars, slaveMail
    <2>2. UNCHANGED <<request, sm0, job, repeats, fails, idns, answer, part, slaveTx, parts>>
      BY <1>4 DEF vars, mailVars, protocolVars, master, transfer, ghosts, soeVars, eoeVars,
         slaveEoe, infoVars
    <2>3. Unsent' /\ Requests' /\ Jobs' /\ Counted'
      BY <2>2 DEF VInv, Well, Unsent, Requests, Jobs, Counted
    <2>4. IdnInv'  BY <2>1, IdnRests
    <2> QED  BY <1>1, <2>3, <2>4 DEF VInv, Well
  <1> QED  BY <1>2, <1>3, <1>4 DEF Next

\* Of a value that is read and nothing was lost of, what is in the line to the
\* master are the next fragments, and the buffer holds the ones before; of one
\* that is written, what the slave has, what is on its way and what is left
\* make up the value, unless the slave has refused it or has stored it all.
THEOREM IdnInvariant == Spec => []VInv
  <1>1. Init => VInv  BY InitVInv
  <1>2. VInv /\ [Next]_vars => VInv'  BY NextVInv
  <1> QED  BY <1>1, <1>2, PTL DEF Spec

\* A parameter that was read from a clean mailbox is the value in the drive, as
\* far as the buffer holds it, and one that was written with every call coming
\* through is stored: for all sizes of values and of buffers.
THEOREM WholeIdn == Spec => []IdnIsWhole
  <1>1. VInv => IdnIsWhole
    <2> SUFFICES ASSUME VInv, ~dirty, repeats = "none" PROVE
          /\ Done({"SoEread"}) /\ job.clean
               => job.buf = SubSeq(idns[job.obj], 1, Len(job.buf))
                  /\ (Len(job.buf) = job.psize \/ job.buf = idns[job.obj])
          /\ Done({"SoEwrite"}) /\ job.clean /\ fails = 0 => idns[job.obj] = job.data
      BY DEF IdnIsWhole
    <2>1. IdnInv /\ fails \in 0 .. 2 /\ Unsent  BY DEF VInv, Well, IInv, Typed, MailTypeOK
    <2>2. ASSUME Done({"SoEread"}), job.clean
          PROVE  job.buf = SubSeq(idns[job.obj], 1, Len(job.buf))
                 /\ (Len(job.buf) = job.psize \/ job.buf = idns[job.obj])
      <3>1. pc = "idle" /\ job.ret = "ok" /\ IdnReads  BY <2>1, <2>2 DEF Done, IdnInv
      <3>2. Smooth  BY <2>1, <3>1 DEF IdnReads, FailsOnce, Smooth, Live
      <3>3. PICK base, last \in 0 .. Len(Value) : IdnTo(base, last)
        BY <2>2, <3>1, <3>2 DEF IdnReads, IdnArrives
      <3>4. base = Len(Value) /\ Buffered(base)  BY <3>1, <3>3 DEF IdnTo
      <3>5. IsSeq(Value) /\ Len(Value) \in Nat /\ job.psize \in Nat
        BY <2>1, <3>1, FragmentsIs DEF IdnReads, Value
      <3>6. PICK d, n, l, u : /\ d = Value /\ n = Len(Value) /\ l = Least(n, job.psize)
                              /\ u = SubSeq(d, 1, l)
        OBVIOUS
      <3>7. /\ l \in Nat /\ l <= n /\ (l = job.psize \/ l = n) /\ 1 <= l + 1 /\ l + 1 - 1 = l
            /\ 1 \in Nat /\ 1 > 0
        BY <3>5, <3>6 DEF Least
      <3>8. PICK S : d \in Seq(S)  BY <3>5, <3>6 DEF IsSeq
      <3>9. Len(u) = l  BY <3>6, <3>7, <3>8, Piece
      <3>10. l = n => u = d  BY <3>6, <3>8, Whole
      <3>11. job.buf = u  BY <3>4, <3>6 DEF Buffered
      <3> QED  BY <3>6, <3>7, <3>9, <3>10, <3>11 DEF Value
    <2>3. ASSUME Done({"SoEwrite"}), job.clean, fails = 0 PROVE idns[job.obj] = job.data
      <3>1. pc = "idle" /\ job.ret = "ok" /\ IdnWrites  BY <2>1, <2>3 DEF Done, IdnInv
      <3>2. Smooth  BY <2>3, <3>1 DEF Smooth, Live
      <3> QED  BY <2>3, <3>1, <3>2 DEF IdnWrites, IdnWriting, Value
    <2> QED  BY <2>2, <2>3
  <1>2. Spec => []VInv  BY IdnInvariant
  <1> QED  BY <1>1, <1>2, PTL

=============================================================================
