--------------------------- MODULE NicDrv_proofs ---------------------------
(***************************************************************************)
(* Type correctness of NicDrv, and that frame indices are exclusive: no    *)
(* two threads own one index until a search runs out of free buffers or a  *)
(* send is refused.  The argument needs the state of a search in progress: *)
(* the buffer it has settled on was free, and stays so because only the    *)
(* thread inside getindex_mutex can become an owner.                       *)
(*                                                                         *)
(* Then what is left and what is stale: a leaked buffer is marked received *)
(* and a stale answer is a round of the index old, which is an argument    *)
(* about the past of the searches; and that an answer is kept when frames  *)
(* return in order, which is one about the order of frames on the wire.    *)
(***************************************************************************)
EXTENDS NicDrv, SequenceTheorems, FiniteSetTheorems, TLAPS

\* A thread in ecx_getindex is alone there, and its request is within bounds.
SearchInv ==
    \A t \in Threads : pc[t] \in {"scan", "alloc"} =>
        getindexMutex = {t} /\ allocs < MaxAlloc

\* No search ran out of buffers and no send was refused.
Sound == ~exhausted /\ ~sendFailed

\* An owned buffer is not free, and the buffer a search settled on not owned.
OwnedInv ==
    Sound => \A t \in Threads :
        /\ pc[t] \in OwnerPc => rxbufstat[idx[t]] # "EMPTY"
        /\ pc[t] = "alloc" => \A u \in Threads : ~Holds(u, idx[t])

IndInv == TypeOK /\ SearchInv /\ OwnedInv /\ OneOwner

-----------------------------------------------------------------------------
\* Taking an element out of a sequence leaves a sequence over the same set.
LEMMA RemoveAtType ==
    ASSUME NEW S, NEW s \in Seq(S), NEW k \in 1 .. Len(s)
    PROVE  RemoveAt(s, k) \in Seq(S)
<1>1. SubSeq(s, 1, k - 1) \in Seq(S)
  <2>1. \A i \in 1 .. k - 1 : i \in 1 .. Len(s)  BY LenProperties
  <2> QED  BY <2>1, SubSeqProperties
<1>2. SubSeq(s, k + 1, Len(s)) \in Seq(S)
  <2>1. \A i \in k + 1 .. Len(s) : i \in 1 .. Len(s)  BY LenProperties
  <2> QED  BY <2>1, SubSeqProperties
<1> QED  BY <1>1, <1>2, ConcatProperties DEF RemoveAt

\* The index after an index is an index (ecx_getindex wraps at EC_MAXBUF).
LEMMA NextIdxType == \A i \in Idx : NextIdx(i) \in Idx
BY NicAssumption DEF NextIdx, Idx

\* A frame on the wire is a frame.
LEMMA WireType ==
    ASSUME TypeOK, NEW k \in Arrived
    PROVE  /\ k \in 1 .. Len(wire)
           /\ wire[k] \in Frame
           /\ RemoveAt(wire, k) \in Seq(Frame)
BY RemoveAtType DEF Arrived, TypeOK

-----------------------------------------------------------------------------
LEMMA InitInd == Init => IndInv
<1> SUFFICES ASSUME Init PROVE IndInv  OBVIOUS
<1>1. TypeOK
  <2>1. 0 \in Idx /\ 0 \in Tag  BY NicAssumption DEF Idx, Tag
  <2>2. NoFrame \in Frame  BY <2>1 DEF NoFrame, Frame
  <2>3. 0 \in 0 .. MAXBUF  BY NicAssumption
  <2>4. wire \in Seq(Frame)  BY DEF Init
  <2>5. rxbufstat \in [Idx -> BufStat]  BY DEF Init, BufStat
  <2>6. pc \in [Threads -> PC]  BY DEF Init, PC
  <2>7. idx \in [Threads -> Idx] /\ cnt \in [Threads -> 0 .. MAXBUF]
        /\ temp \in [Threads -> Frame]
    BY <2>1, <2>2, <2>3 DEF Init
  <2> QED  BY <2>1, <2>4, <2>5, <2>6, <2>7 DEF Init, TypeOK
<1>2. SearchInv /\ OwnedInv /\ OneOwner
  BY DEF Init, SearchInv, OwnedInv, OneOwner, Holds, OwnerPc
<1> QED  BY <1>1, <1>2 DEF IndInv

\* Every step keeps the types, given the bound a search carries.
LEMMA StepType == IndInv /\ [Next]_vars => TypeOK'
<1> SUFFICES ASSUME IndInv, [Next]_vars PROVE TypeOK'  OBVIOUS
<1> USE NicAssumption DEF IndInv, TypeOK, Goto, SetStat, locals, history
<1>0. NoFrame \in Frame  BY DEF NoFrame, Frame, Idx, Tag
<1>1. CASE UNCHANGED vars  BY <1>1 DEF vars
<1>2. ASSUME NEW t \in Threads, EnterGetIndex(t) PROVE TypeOK'
  BY <1>2, NextIdxType DEF EnterGetIndex, PC
<1>3. ASSUME NEW t \in Threads, ScanNext(t) PROVE TypeOK'
  <2>1. NextIdx(idx[t]) \in Idx  BY NextIdxType
  <2>2. cnt[t] \in 0 .. MAXBUF /\ cnt[t] < MAXBUF  BY <1>3 DEF ScanNext
  <2>3. cnt[t] + 1 \in 0 .. MAXBUF  BY <2>2
  <2> QED  BY <1>3, <2>1, <2>3 DEF ScanNext
<1>4. ASSUME NEW t \in Threads, ScanEnd(t) PROVE TypeOK'
  BY <1>4 DEF ScanEnd, PC
<1>5. ASSUME NEW t \in Threads, AllocIndex(t) PROVE TypeOK'
  <2>1. allocs + 1 \in Tag  BY <1>5 DEF AllocIndex, SearchInv, Tag
  <2> QED  BY <1>5, <2>1 DEF AllocIndex, PC, OwnerPc, BufStat, Tag
<1>6. ASSUME NEW t \in Threads, SetupDatagram(t) PROVE TypeOK'
  BY <1>6 DEF SetupDatagram, PC, OwnerPc
<1>7. ASSUME NEW t \in Threads, MarkTx(t) PROVE TypeOK'
  BY <1>7 DEF MarkTx, PC, OwnerPc, BufStat
<1>8. ASSUME NEW t \in Threads, Send(t) PROVE TypeOK'
  <2>1. [idx |-> idx[t], tag |-> txbuf[idx[t]]] \in Frame  BY DEF Frame
  <2>2. Append(wire, [idx |-> idx[t], tag |-> txbuf[idx[t]]]) \in Seq(Frame)
    BY <2>1
  <2>3. wire' \in Seq(Frame)  BY <1>8, <2>2 DEF Send
  <2> QED  BY <1>8, <2>3 DEF Send, StartWait, PC, OwnerPc
<1>9. ASSUME NEW t \in Threads, SendError(t) PROVE TypeOK'
  BY <1>9 DEF SendError, StartWait, PC, OwnerPc, BufStat
<1>10. ASSUME NEW t \in Threads, TakeBuffered(t) PROVE TypeOK'
  BY <1>10 DEF TakeBuffered, PC, OwnerPc, BufStat
<1>11. ASSUME NEW t \in Threads, NotBuffered(t) PROVE TypeOK'
  BY <1>11 DEF NotBuffered, PC, OwnerPc
<1>12. ASSUME NEW t \in Threads, EnterRx(t) PROVE TypeOK'
  BY <1>12 DEF EnterRx, PC, OwnerPc
<1>13. ASSUME NEW t \in Threads, RecvNothing(t) PROVE TypeOK'
  BY <1>13 DEF RecvNothing, PC, OwnerPc
<1>14. ASSUME NEW t \in Threads, RecvOwn(t) PROVE TypeOK'
  <2>1. PICK k \in Arrived :
           /\ rxbuf' = [rxbuf EXCEPT ![idx[t]] = wire[k].tag]
           /\ wire' = RemoveAt(wire, k)
    BY <1>14 DEF RecvOwn
  <2>2. wire[k].tag \in Tag /\ wire' \in Seq(Frame)
    BY <2>1, WireType DEF Frame
  <2> QED  BY <1>14, <2>1, <2>2 DEF RecvOwn, PC, OwnerPc, BufStat
<1>15. ASSUME NEW t \in Threads, RecvOther(t) PROVE TypeOK'
  <2>1. PICK k \in Arrived :
           /\ temp' = [temp EXCEPT ![t] = wire[k]]
           /\ wire' = RemoveAt(wire, k)
    BY <1>15 DEF RecvOther
  <2>2. wire[k] \in Frame /\ wire' \in Seq(Frame)  BY <2>1, WireType
  <2> QED  BY <1>15, <2>1, <2>2 DEF RecvOther, PC, OwnerPc
<1>16. ASSUME NEW t \in Threads, RecvStrange(t) PROVE TypeOK'
  <2>1. wire' \in Seq(Frame)  BY <1>16, WireType DEF RecvStrange
  <2> QED  BY <1>16, <2>1 DEF RecvStrange, PC, OwnerPc
<1>17. ASSUME NEW t \in Threads, StoreOther(t) PROVE TypeOK'
  <2>1. temp[t].idx \in Idx /\ temp[t].tag \in Tag  BY DEF Frame
  <2> QED  BY <1>0, <1>17, <2>1 DEF StoreOther, PC, OwnerPc, BufStat
<1>18. ASSUME NEW t \in Threads, WaitOn(t) \/ Resend(t) \/ GiveUp(t) PROVE TypeOK'
  BY <1>18 DEF WaitOn, Resend, GiveUp, PC, OwnerPc
<1>19. ASSUME NEW t \in Threads, CopyAnswer(t) PROVE TypeOK'
  BY <1>19 DEF CopyAnswer, PC, OwnerPc
<1>20. ASSUME NEW t \in Threads, Release(t) PROVE TypeOK'
  <2>1. 0 \in Idx  BY DEF Idx
  <2> QED  BY <1>20, <2>1 DEF Release, PC, BufStat
<1>21. ASSUME NEW t \in Threads, PartialTimeout(t) \/ TotalTimeout(t) PROVE TypeOK'
  BY <1>21 DEF PartialTimeout, TotalTimeout
<1> QED
  BY <1>1, <1>2, <1>3, <1>4, <1>5, <1>6, <1>7, <1>8, <1>9, <1>10, <1>11, <1>12,
     <1>13, <1>14, <1>15, <1>16, <1>17, <1>18, <1>19, <1>20, <1>21
  DEF Next, Operation
\* Only the thread inside getindex_mutex searches, so a search is not disturbed.
LEMMA StepSearch == IndInv /\ [Next]_vars => SearchInv'
<1> SUFFICES ASSUME IndInv, [Next]_vars, NEW t \in Threads,
                    pc'[t] \in {"scan", "alloc"}
             PROVE  getindexMutex' = {t} /\ allocs' < MaxAlloc
  BY DEF SearchInv
<1> USE DEF IndInv, TypeOK, SearchInv, Goto, locals, history
<1>1. CASE UNCHANGED vars  BY <1>1 DEF vars
<1>2. ASSUME NEW u \in Threads, EnterGetIndex(u)
      PROVE getindexMutex' = {t} /\ allocs' < MaxAlloc
  BY <1>2 DEF EnterGetIndex
<1>3. ASSUME NEW u \in Threads, ScanNext(u) \/ ScanEnd(u)
      PROVE getindexMutex' = {t} /\ allocs' < MaxAlloc
  BY <1>3 DEF ScanNext, ScanEnd
<1>4. ASSUME NEW u \in Threads, AllocIndex(u)
      PROVE getindexMutex' = {t} /\ allocs' < MaxAlloc
  BY <1>4 DEF AllocIndex
<1>5. ASSUME NEW u \in Threads,
             \/ SetupDatagram(u) \/ MarkTx(u) \/ Send(u) \/ SendError(u)
             \/ TakeBuffered(u) \/ NotBuffered(u) \/ EnterRx(u)
             \/ RecvNothing(u) \/ RecvOwn(u) \/ RecvOther(u)
             \/ RecvStrange(u) \/ StoreOther(u)
      PROVE getindexMutex' = {t} /\ allocs' < MaxAlloc
  BY <1>5 DEF SetupDatagram, MarkTx, Send, SendError, StartWait, TakeBuffered,
     NotBuffered, EnterRx, RecvNothing, RecvOwn, RecvOther, RecvStrange,
     StoreOther
<1>6. ASSUME NEW u \in Threads,
             \/ WaitOn(u) \/ Resend(u) \/ GiveUp(u) \/ CopyAnswer(u)
             \/ Release(u) \/ PartialTimeout(u) \/ TotalTimeout(u)
      PROVE getindexMutex' = {t} /\ allocs' < MaxAlloc
  BY <1>6 DEF WaitOn, Resend, GiveUp, CopyAnswer, Release, PartialTimeout,
     TotalTimeout
<1> QED  BY <1>1, <1>2, <1>3, <1>4, <1>5, <1>6 DEF Next, Operation

\* A step that is neither a search's end nor the allocation makes no new owner.
LEMMA StepOwner == IndInv /\ [Next]_vars => (OwnedInv /\ OneOwner)'
<1> SUFFICES ASSUME IndInv, [Next]_vars, Sound'
             PROVE  /\ \A t \in Threads :
                         /\ pc'[t] \in OwnerPc => rxbufstat'[idx'[t]] # "EMPTY"
                         /\ pc'[t] = "alloc" =>
                              \A u \in Threads : ~Holds(u, idx[t])'
                    /\ OneOwner'
  BY DEF OwnedInv, OneOwner, Sound
<1> USE DEF IndInv, TypeOK, OwnedInv, OneOwner, Sound, Holds, OwnerPc, Goto,
        SetStat, locals, history
<1> DEFINE Goal == /\ \A t \in Threads :
                         /\ pc'[t] \in OwnerPc => rxbufstat'[idx'[t]] # "EMPTY"
                         /\ pc'[t] = "alloc" =>
                              \A u \in Threads : ~Holds(u, idx[t])'
                   /\ OneOwner'
<1>1. CASE UNCHANGED vars  BY <1>1 DEF vars
<1>2. ASSUME NEW u \in Threads, EnterGetIndex(u) PROVE Goal
  BY <1>2 DEF EnterGetIndex
<1>3. ASSUME NEW u \in Threads, ScanNext(u) PROVE Goal
  BY <1>3 DEF ScanNext
<1>4. ASSUME NEW u \in Threads, ScanEnd(u) PROVE Goal
  BY <1>4 DEF ScanEnd
<1>5. ASSUME NEW u \in Threads, AllocIndex(u) PROVE Goal
  <2>1. \A t \in Threads : t # u => pc[t] # "alloc"
    BY <1>5 DEF AllocIndex, SearchInv
  <2>2. /\ pc' = [pc EXCEPT ![u] = "setup"] /\ idx' = idx
        /\ rxbufstat' = [rxbufstat EXCEPT ![idx[u]] = "ALLOC"]
        /\ \A t \in Threads : ~Holds(t, idx[u])
    BY <1>5 DEF AllocIndex
  <2>3. \A t \in Threads : pc'[t] # "alloc"  BY <2>1, <2>2
  <2>4. \A t \in Threads : pc'[t] \in OwnerPc => rxbufstat'[idx'[t]] # "EMPTY"
    BY <1>5, <2>2 DEF AllocIndex
  <2>5. OneOwner'  BY <1>5, <2>2 DEF AllocIndex
  <2> QED  BY <2>3, <2>4, <2>5
<1>6. ASSUME NEW u \in Threads, SetupDatagram(u) PROVE Goal
  BY <1>6 DEF SetupDatagram
<1>7. ASSUME NEW u \in Threads, MarkTx(u) PROVE Goal
  BY <1>7 DEF MarkTx
<1>8. ASSUME NEW u \in Threads, Send(u) PROVE Goal
  BY <1>8 DEF Send, StartWait
<1>9. ASSUME NEW u \in Threads, SendError(u) PROVE Goal
  BY <1>9 DEF SendError
<1>10. ASSUME NEW u \in Threads, TakeBuffered(u) PROVE Goal
  BY <1>10 DEF TakeBuffered
<1>11. ASSUME NEW u \in Threads, NotBuffered(u) PROVE Goal
  BY <1>11 DEF NotBuffered
<1>12. ASSUME NEW u \in Threads, EnterRx(u) PROVE Goal
  BY <1>12 DEF EnterRx
<1>13. ASSUME NEW u \in Threads, RecvNothing(u) PROVE Goal
  BY <1>13 DEF RecvNothing
<1>14. ASSUME NEW u \in Threads, RecvOwn(u) PROVE Goal
  BY <1>14 DEF RecvOwn
<1>15. ASSUME NEW u \in Threads, RecvOther(u) PROVE Goal
  BY <1>15 DEF RecvOther
<1>16. ASSUME NEW u \in Threads, RecvStrange(u) PROVE Goal
  BY <1>16 DEF RecvStrange
<1>17. ASSUME NEW u \in Threads, StoreOther(u) PROVE Goal
  BY <1>17 DEF StoreOther, Frame
<1>18. ASSUME NEW u \in Threads, WaitOn(u) PROVE Goal
  BY <1>18 DEF WaitOn
<1>19. ASSUME NEW u \in Threads, Resend(u) PROVE Goal
  BY <1>19 DEF Resend
<1>20. ASSUME NEW u \in Threads, GiveUp(u) PROVE Goal
  BY <1>20 DEF GiveUp
<1>21. ASSUME NEW u \in Threads, CopyAnswer(u) PROVE Goal
  BY <1>21 DEF CopyAnswer
<1>22. ASSUME NEW u \in Threads, Release(u) PROVE Goal
  BY <1>22 DEF Release
<1>23. ASSUME NEW u \in Threads, PartialTimeout(u) \/ TotalTimeout(u) PROVE Goal
  BY <1>23 DEF PartialTimeout, TotalTimeout
<1> QED
  BY <1>1, <1>2, <1>3, <1>4, <1>5, <1>6, <1>7, <1>8, <1>9, <1>10, <1>11, <1>14,
     <1>15, <1>17, <1>18, <1>22, <1>23, <1>12, <1>13, <1>16, <1>19, <1>20, <1>21
  DEF Next, Operation

LEMMA SpecInd == Spec => []IndInv
<1>1. IndInv /\ [Next]_vars => IndInv'
  BY StepType, StepSearch, StepOwner DEF IndInv
<1> QED  BY InitInd, <1>1, PTL DEF Spec

\* Every value the driver keeps stays in its range: the index and its search
\* position never leave the buffer array, for any number of threads and buffers.
THEOREM TypeCorrect == Spec => []TypeOK
<1>1. IndInv => TypeOK  BY DEF IndInv
<1> QED  BY SpecInd, <1>1, PTL

\* Frame indices are exclusive until a search finds no free buffer or a send
\* fails, for any number of threads and buffers.
THEOREM IndexExclusive == Spec => []OneOwner
<1>1. IndInv => OneOwner  BY DEF IndInv
<1> QED  BY SpecInd, <1>1, PTL

-----------------------------------------------------------------------------
\* Every mark but "received" is written by the owner of the buffer.
LEMMA StepLeak == IndInv /\ LeakIsReceived /\ [Next]_vars => LeakIsReceived'
<1> SUFFICES ASSUME IndInv, LeakIsReceived, [Next]_vars, Sound',
                    NEW i \in Idx, ~Held(i)'
             PROVE  rxbufstat'[i] \in {"EMPTY", "RCVD"}
  BY DEF LeakIsReceived, Sound
<1> DEFINE Goal == rxbufstat'[i] \in {"EMPTY", "RCVD"}
<1> USE DEF IndInv, TypeOK, LeakIsReceived, Sound, Held, Holds, OwnerPc, Goto,
        SetStat, locals, history
<1>1. CASE UNCHANGED vars  BY <1>1 DEF vars
<1>2. ASSUME NEW u \in Threads,
             EnterGetIndex(u) \/ ScanNext(u) \/ ScanEnd(u) PROVE Goal
  BY <1>2 DEF EnterGetIndex, ScanNext, ScanEnd
<1>3. ASSUME NEW u \in Threads, AllocIndex(u) PROVE Goal
  BY <1>3 DEF AllocIndex
<1>4. ASSUME NEW u \in Threads, SetupDatagram(u) PROVE Goal
  BY <1>4 DEF SetupDatagram
<1>5. ASSUME NEW u \in Threads, MarkTx(u) PROVE Goal
  BY <1>5 DEF MarkTx
<1>6. ASSUME NEW u \in Threads, Send(u) \/ SendError(u) PROVE Goal
  BY <1>6 DEF Send, SendError, StartWait
<1>7. ASSUME NEW u \in Threads, TakeBuffered(u) PROVE Goal
  BY <1>7 DEF TakeBuffered
<1>8. ASSUME NEW u \in Threads,
             NotBuffered(u) \/ EnterRx(u) \/ RecvNothing(u) PROVE Goal
  BY <1>8 DEF NotBuffered, EnterRx, RecvNothing
<1>9. ASSUME NEW u \in Threads, RecvOwn(u) PROVE Goal
  BY <1>9 DEF RecvOwn
<1>10. ASSUME NEW u \in Threads, RecvOther(u) \/ RecvStrange(u) PROVE Goal
  BY <1>10 DEF RecvOther, RecvStrange
<1>11. ASSUME NEW u \in Threads, StoreOther(u) PROVE Goal
  BY <1>11 DEF StoreOther, Frame
<1>12. ASSUME NEW u \in Threads,
              WaitOn(u) \/ Resend(u) \/ GiveUp(u) \/ CopyAnswer(u) PROVE Goal
  BY <1>12 DEF WaitOn, Resend, GiveUp, CopyAnswer
<1>13. ASSUME NEW u \in Threads, Release(u) PROVE Goal
  BY <1>13 DEF Release
<1>14. ASSUME NEW u \in Threads, PartialTimeout(u) \/ TotalTimeout(u) PROVE Goal
  BY <1>14 DEF PartialTimeout, TotalTimeout
<1> QED
  BY <1>1, <1>2, <1>3, <1>4, <1>5, <1>6, <1>7, <1>8, <1>9, <1>10, <1>11, <1>12,
     <1>13, <1>14
  DEF Next, Operation

\* A buffer that no thread owns and that is not free was marked received by a
\* thread that read the frame after the owner had given up.
THEOREM LeaksAreReceived == Spec => []LeakIsReceived
<1>1. Init => LeakIsReceived
  BY DEF Init, LeakIsReceived, Held, Holds, OwnerPc
<1> QED  BY SpecInd, StepLeak, <1>1, PTL DEF Spec

-----------------------------------------------------------------------------
(* How old a stale answer is.  The argument is about the past: which index *)
(* each request got, A, and which ones other threads owned at that moment, *)
(* H.  Neither is in the state, so the invariant says that there are such  *)
(* functions.                                                              *)

\* From index a upwards to index b, round the end of the array.
Arc(a, b) == {j \in Idx : IF a <= b THEN a <= j /\ j <= b ELSE a <= j \/ j <= b}

\* The leaked buffers, without the one a search has settled on, which a late
\* answer may mark received before it is allocated.
Leaks == {i \in Leaked : \A t \in Threads : pc[t] = "alloc" => idx[t] # i}

\* Why a search after request n passed over an index: it was handed out since,
\* or owned by another thread all the time, or leaked.
Handed(A, n) == {A[k] : k \in n .. allocs}
Excused(A, H, n) == Handed(A, n) \cup H[n] \cup Leaks

\* Every index between request n's and p has an excuse; all of them when the
\* search came round.
Swept(A, H, p) ==
    \A n \in 1 .. allocs : Idx \subseteq Excused(A, H, n) \/ Arc(A[n], p) \subseteq Excused(A, H, n)

\* A frame carries the index of the request whose tag it has.
Own(A) == {f \in Frame : f.tag # 0 => f.tag <= allocs /\ A[f.tag] = f.idx}
At(i, g) == [idx |-> i, tag |-> g]
Labelled(A) ==
    /\ wire \in Seq(Own(A))
    /\ \A t \in Threads : temp[t] \in Own(A)
    /\ \A i \in Idx : At(i, rxbuf[i]) \in Own(A) /\ At(i, txbuf[i]) \in Own(A)

\* An owner has its index since its request, and nobody got it after.
Owning(A, H) ==
    \A t \in Threads : pc[t] \in OwnerPc =>
        /\ tag[t] \in 1 .. allocs /\ A[tag[t]] = idx[t]
        /\ \A n \in 1 .. allocs : n > tag[t] => idx[t] \in H[n] /\ A[n] # idx[t]

\* An answer belongs to a request of the same index, not later than the own.
Copied(A) ==
    \A t \in Threads : got[t] # 0 =>
        got[t] <= tag[t] /\ tag[t] <= allocs /\ A[got[t]] = A[tag[t]]

\* At most the other threads owned an index when one was handed out.
Few(H) == \A n \in 1 .. allocs : IsFiniteSet(H[n]) /\ Cardinality(H[n]) + 1 <= Cardinality(Threads)

\* Between two requests with one index the search came round.
Round(m, n) == m - n + Cardinality(Threads) - 1 + Cardinality(Leaks) >= MAXBUF
Rounds(A) == \A m, n \in 1 .. allocs : n < m /\ A[n] = A[m] => Round(m, n)

\* A search has passed all indices before the one it looks at.
Searching(A, H) ==
    \A t \in Threads : pc[t] \in {"scan", "alloc"} =>
        \E p \in Idx : NextIdx(p) = idx[t] /\ Swept(A, H, p)

Past(A, H) ==
    /\ Labelled(A) /\ Owning(A, H) /\ Copied(A) /\ Few(H) /\ Rounds(A)
    /\ Searching(A, H) /\ (allocs > 0 => Swept(A, H, lastidx))

\* The inductive invariant of the driver, and of its past.
PastInv == Sound => \E A \in [Tag -> Idx], H \in [Tag -> SUBSET Idx] : Past(A, H)

\* The steps that hand out no index.
Quiet == [Next]_vars /\ \A t \in Threads : ~AllocIndex(t)

\* The image of a finite set under a function is no larger.
LEMMA ImageCard ==
    ASSUME NEW S, IsFiniteSet(S), NEW f
    PROVE  LET T == {f[x] : x \in S} IN IsFiniteSet(T) /\ Cardinality(T) <= Cardinality(S)
<1> DEFINE T == {f[x] : x \in S}
           g == [x \in S |-> f[x]]
<1>1. g \in Surjection(S, T)  BY DEF Surjection
<1> QED  BY <1>1, FS_Surjection

\* An arc grows by one index at its end, until it is the whole array.
LEMMA ArcNext ==
    ASSUME NEW a \in Idx, NEW p \in Idx
    PROVE  /\ NextIdx(p) = a => Arc(a, p) = Idx
           /\ NextIdx(p) # a => Arc(a, NextIdx(p)) \subseteq Arc(a, p) \cup {NextIdx(p)}
           /\ Arc(a, a) = {a}
<1>1. MAXBUF \in Nat \ {0}  BY NicAssumption
<1>2. CASE p + 1 >= MAXBUF
  <2>1. NextIdx(p) = 0 /\ p = MAXBUF - 1  BY <1>1, <1>2 DEF NextIdx, Idx
  <2> QED  BY <1>1, <2>1 DEF Arc, Idx
<1>3. CASE ~(p + 1 >= MAXBUF)
  <2>1. NextIdx(p) = p + 1  BY <1>3 DEF NextIdx
  <2> QED  BY <1>1, <1>3, <2>1 DEF Arc, Idx
<1> QED  BY <1>2, <1>3

\* Tags, and so the count of requests, are natural numbers.
LEMMA TagNat == Tag \subseteq Nat
BY NicAssumption DEF Tag

\* What a step does that hands out no index: the count of requests, the last
\* index and the tags stay, and no thread becomes an owner.
LEMMA QuietSteps ==
    ASSUME IndInv, Quiet, Sound'
    PROVE  /\ Sound /\ allocs' = allocs /\ lastidx' = lastidx /\ tag' = tag
           /\ \A t \in Threads : pc'[t] \in OwnerPc => pc[t] \in OwnerPc /\ idx'[t] = idx[t]
<1> DEFINE Goal == /\ Sound /\ allocs' = allocs /\ lastidx' = lastidx /\ tag' = tag
                   /\ \A t \in Threads : pc'[t] \in OwnerPc => pc[t] \in OwnerPc /\ idx'[t] = idx[t]
<1> USE DEF IndInv, TypeOK, OwnerPc, Goto, Sound, locals, history
<1>1. CASE UNCHANGED vars  BY <1>1 DEF vars
<1>2. ASSUME NEW u \in Threads, EnterGetIndex(u) \/ ScanNext(u) \/ ScanEnd(u) PROVE Goal
  BY <1>2 DEF EnterGetIndex, ScanNext, ScanEnd
<1>3. ASSUME NEW u \in Threads, SetupDatagram(u) \/ MarkTx(u) \/ Send(u) \/ SendError(u) PROVE Goal
  BY <1>3 DEF SetupDatagram, MarkTx, Send, SendError, StartWait
<1>4. ASSUME NEW u \in Threads,
             TakeBuffered(u) \/ NotBuffered(u) \/ EnterRx(u) \/ RecvNothing(u) PROVE Goal
  BY <1>4 DEF TakeBuffered, NotBuffered, EnterRx, RecvNothing
<1>5. ASSUME NEW u \in Threads,
             RecvOwn(u) \/ RecvOther(u) \/ RecvStrange(u) \/ StoreOther(u) PROVE Goal
  BY <1>5 DEF RecvOwn, RecvOther, RecvStrange, StoreOther
<1>6. ASSUME NEW u \in Threads,
             WaitOn(u) \/ Resend(u) \/ GiveUp(u) \/ CopyAnswer(u) \/ Release(u) PROVE Goal
  BY <1>6 DEF WaitOn, Resend, GiveUp, CopyAnswer, Release
<1>7. ASSUME NEW u \in Threads, PartialTimeout(u) \/ TotalTimeout(u) PROVE Goal
  BY <1>7 DEF PartialTimeout, TotalTimeout
<1> QED  BY <1>1, <1>2, <1>3, <1>4, <1>5, <1>6, <1>7 DEF Quiet, Next, Operation

\* What has leaked is never freed or handed out again.
LEMMA LeaksStay == ASSUME IndInv, [Next]_vars, Sound' PROVE Leaks \subseteq Leaks'
<1> SUFFICES ASSUME NEW i \in Leaks PROVE i \in Leaks'  OBVIOUS
<1> DEFINE Goal == /\ i \in Idx /\ rxbufstat'[i] # "EMPTY"
                   /\ \A t \in Threads : pc'[t] \in OwnerPc \cup {"alloc"} => idx'[t] # i
<1>0. /\ i \in Idx /\ rxbufstat[i] # "EMPTY"
      /\ \A t \in Threads : pc[t] \in OwnerPc \cup {"alloc"} => idx[t] # i
  BY DEF Leaks, Leaked, Held, Holds
<1>1. Goal
  <2> USE <1>0 DEF IndInv, TypeOK, OwnerPc, Goto, SetStat, Sound, locals, history
  <2>1. CASE UNCHANGED vars  BY <2>1 DEF vars
  <2>2. ASSUME NEW u \in Threads, EnterGetIndex(u) \/ ScanNext(u) PROVE Goal
    BY <2>2 DEF EnterGetIndex, ScanNext
  <2>3. ASSUME NEW u \in Threads, ScanEnd(u) \/ AllocIndex(u) PROVE Goal
    BY <2>3 DEF ScanEnd, AllocIndex
  <2>4. ASSUME NEW u \in Threads, SetupDatagram(u) \/ MarkTx(u) PROVE Goal
    BY <2>4 DEF SetupDatagram, MarkTx
  <2>5. ASSUME NEW u \in Threads, Send(u) \/ SendError(u) PROVE Goal
    BY <2>5 DEF Send, SendError, StartWait
  <2>6. ASSUME NEW u \in Threads,
               TakeBuffered(u) \/ NotBuffered(u) \/ EnterRx(u) \/ RecvNothing(u) PROVE Goal
    BY <2>6 DEF TakeBuffered, NotBuffered, EnterRx, RecvNothing
  <2>7. ASSUME NEW u \in Threads, RecvOwn(u) \/ RecvOther(u) \/ RecvStrange(u) PROVE Goal
    BY <2>7 DEF RecvOwn, RecvOther, RecvStrange
  <2>8. ASSUME NEW u \in Threads, StoreOther(u) PROVE Goal
    BY <2>8 DEF StoreOther, Frame
  <2>9. ASSUME NEW u \in Threads,
               WaitOn(u) \/ Resend(u) \/ GiveUp(u) \/ CopyAnswer(u) PROVE Goal
    BY <2>9 DEF WaitOn, Resend, GiveUp, CopyAnswer
  <2>10. ASSUME NEW u \in Threads, Release(u) PROVE Goal
    BY <2>10 DEF Release
  <2>11. ASSUME NEW u \in Threads, PartialTimeout(u) \/ TotalTimeout(u) PROVE Goal
    BY <2>11 DEF PartialTimeout, TotalTimeout
  <2> QED
    BY <2>1, <2>2, <2>3, <2>4, <2>5, <2>6, <2>7, <2>8, <2>9, <2>10, <2>11
    DEF Next, Operation
<1> QED  BY <1>1 DEF Leaks, Leaked, Held, Holds

\* A frame on the wire keeps its label when it, or another, is taken off.
LEMMA LabelOff ==
    ASSUME NEW A, Labelled(A), TypeOK, NEW k \in Arrived
    PROVE  /\ k \in 1 .. Len(wire) /\ wire[k] \in Own(A)
           /\ RemoveAt(wire, k) \in Seq(Own(A))
BY RemoveAtType DEF Labelled, Arrived, TypeOK

\* Buffers, the wire and what a thread holds keep the labels in a quiet step.
LEMMA LabelsStay ==
    ASSUME IndInv, Quiet, Sound', NEW A \in [Tag -> Idx], NEW H, Past(A, H)
    PROVE  Labelled(A)'
<1> DEFINE O == Own(A)
           Goal == /\ wire' \in Seq(O) /\ \A t \in Threads : temp'[t] \in O
                   /\ \A i \in Idx : At(i, rxbuf'[i]) \in O /\ At(i, txbuf'[i]) \in O
<1>1. /\ wire \in Seq(O) /\ \A t \in Threads : temp[t] \in O
      /\ \A i \in Idx : At(i, rxbuf[i]) \in O /\ At(i, txbuf[i]) \in O
  BY DEF Past, Labelled
<1>2. O' = O  BY QuietSteps DEF Own
<1>3. NoFrame \in O  BY NicAssumption DEF NoFrame, Own, Frame, Idx, Tag
<1>4. \A f \in O : f \in Frame /\ f = At(f.idx, f.tag)  BY DEF Own, Frame, At
<1>5. /\ \A t \in Threads : pc[t] \in OwnerPc => At(idx[t], tag[t]) \in O
  BY DEF Past, Owning, Own, At, Frame, IndInv, TypeOK
<1>6. \A k \in Arrived : wire[k] \in O /\ RemoveAt(wire, k) \in Seq(O)
  BY LabelOff DEF Past, IndInv
<1> HIDE DEF O
<1>7. Goal
  <2> USE <1>1 DEF Goto, SetStat, locals, history
  <2>0. /\ rxbuf \in [Idx -> Tag] /\ txbuf \in [Idx -> Tag] /\ idx \in [Threads -> Idx]
        /\ temp \in [Threads -> Frame] /\ tag \in [Threads -> Tag]
    BY DEF IndInv, TypeOK
  <2>1. CASE UNCHANGED vars  BY <2>1 DEF vars
  <2>2. ASSUME NEW u \in Threads, EnterGetIndex(u) \/ ScanNext(u) \/ ScanEnd(u) PROVE Goal
    BY <2>2 DEF EnterGetIndex, ScanNext, ScanEnd
  <2>3. ASSUME NEW u \in Threads, SetupDatagram(u) PROVE Goal
    BY <2>0, <2>3, <1>5 DEF SetupDatagram, OwnerPc
  <2>4. ASSUME NEW u \in Threads, MarkTx(u) \/ SendError(u) PROVE Goal
    BY <2>4 DEF MarkTx, SendError, StartWait
  <2>5. ASSUME NEW u \in Threads, Send(u) PROVE Goal
    <3>1. At(idx[u], txbuf[idx[u]]) \in O  BY <2>0
    <3>2. wire' = Append(wire, At(idx[u], txbuf[idx[u]])) \/ wire' = wire
      BY <2>5 DEF Send, At
    <3>3. wire' \in Seq(O)  BY <3>1, <3>2
    <3> QED  BY <2>5, <3>3 DEF Send
  <2>6. ASSUME NEW u \in Threads,
               TakeBuffered(u) \/ NotBuffered(u) \/ EnterRx(u) \/ RecvNothing(u) PROVE Goal
    BY <2>6 DEF TakeBuffered, NotBuffered, EnterRx, RecvNothing
  <2>7. ASSUME NEW u \in Threads, RecvOwn(u) PROVE Goal
    <3>1. PICK k \in Arrived :
             /\ wire[k].idx = idx[u] /\ rxbuf' = [rxbuf EXCEPT ![idx[u]] = wire[k].tag]
             /\ wire' = RemoveAt(wire, k)
      BY <2>7 DEF RecvOwn
    <3>2. At(idx[u], wire[k].tag) \in O  BY <1>4, <1>6, <3>1
    <3>3. temp' = temp /\ txbuf' = txbuf  BY <2>7 DEF RecvOwn
    <3> QED  BY <2>0, <1>6, <3>1, <3>2, <3>3
  <2>8. ASSUME NEW u \in Threads, RecvOther(u) PROVE Goal
    <3>1. PICK k \in Arrived :
             temp' = [temp EXCEPT ![u] = wire[k]] /\ wire' = RemoveAt(wire, k)
      BY <2>8 DEF RecvOther
    <3>2. rxbuf' = rxbuf /\ txbuf' = txbuf  BY <2>8 DEF RecvOther
    <3> QED  BY <2>0, <1>6, <3>1, <3>2
  <2>9. ASSUME NEW u \in Threads, RecvStrange(u) PROVE Goal
    BY <2>9, <1>6 DEF RecvStrange
  <2>10. ASSUME NEW u \in Threads, StoreOther(u) PROVE Goal
    <3>1. temp[u] \in Frame /\ temp[u].idx \in Idx  BY <2>0 DEF Frame
    <3>2. At(temp[u].idx, temp[u].tag) \in O  BY <1>4
    <3>3. /\ rxbuf' = [rxbuf EXCEPT ![temp[u].idx] = temp[u].tag]
          /\ temp' = [temp EXCEPT ![u] = NoFrame] /\ txbuf' = txbuf /\ wire' = wire
      BY <2>10 DEF StoreOther
    <3> QED  BY <2>0, <1>3, <3>1, <3>2, <3>3
  <2>11. ASSUME NEW u \in Threads,
               WaitOn(u) \/ Resend(u) \/ GiveUp(u) \/ CopyAnswer(u) \/ Release(u) PROVE Goal
    BY <2>11 DEF WaitOn, Resend, GiveUp, CopyAnswer, Release
  <2>12. ASSUME NEW u \in Threads, PartialTimeout(u) \/ TotalTimeout(u) PROVE Goal
    BY <2>12 DEF PartialTimeout, TotalTimeout
  <2> QED
    BY <2>1, <2>2, <2>3, <2>4, <2>5, <2>6, <2>7, <2>8, <2>9, <2>10, <2>11, <2>12
    DEF Quiet, Next, Operation
<1> QED  BY <1>2, <1>7 DEF Labelled, O

\* Owners stay owners of the same index, by the same request.
LEMMA OwningStays ==
    ASSUME IndInv, Quiet, Sound', NEW A, NEW H, Past(A, H)
    PROVE  Owning(A, H)'
<1> SUFFICES ASSUME NEW t \in Threads, pc'[t] \in OwnerPc
             PROVE  /\ tag'[t] \in 1 .. allocs' /\ A[tag'[t]] = idx'[t]
                    /\ \A n \in 1 .. allocs' : n > tag'[t] => idx'[t] \in H[n] /\ A[n] # idx'[t]
  BY DEF Owning
<1>1. /\ allocs' = allocs /\ tag' = tag
      /\ pc[t] \in OwnerPc /\ idx'[t] = idx[t]
  BY QuietSteps
<1>2. Owning(A, H)  BY DEF Past
<1> QED  BY <1>1, <1>2 DEF Owning

\* The copy out of rxbuf is the answer to a request of the owner's index.
LEMMA CopiedStays ==
    ASSUME IndInv, Quiet, Sound', NEW A \in [Tag -> Idx], NEW H, Past(A, H)
    PROVE  Copied(A)'
<1> SUFFICES ASSUME NEW t \in Threads, got'[t] # 0
             PROVE  got'[t] <= tag[t] /\ tag[t] <= allocs /\ A[got'[t]] = A[tag[t]]
  BY QuietSteps DEF Copied
<1>0. got \in [Threads -> Tag] /\ allocs \in Nat /\ idx \in [Threads -> Idx] /\ rxbuf \in [Idx -> Tag]
  BY TagNat DEF IndInv, TypeOK
<1>1. CASE got' = got  BY <1>1 DEF Past, Copied
<1>2. ASSUME NEW u \in Threads, CopyAnswer(u)
      PROVE  got'[t] <= tag[t] /\ tag[t] <= allocs /\ A[got'[t]] = A[tag[t]]
  <2>1. got' = [got EXCEPT ![u] = rxbuf[idx[u]]] /\ pc[u] \in OwnerPc
    BY <1>2 DEF CopyAnswer, OwnerPc
  <2>2. CASE t # u  BY <1>0, <2>1, <2>2 DEF Past, Copied
  <2>3. CASE t = u
    <3> DEFINE g == rxbuf[idx[t]]
    <3>1. got'[t] = g /\ g # 0 /\ g \in Nat  BY <1>0, <2>1, <2>3 DEF Tag
    <3>2. At(idx[t], g) \in Own(A)  BY <1>0 DEF Past, Labelled
    <3>3. g <= allocs /\ A[g] = idx[t]  BY <3>1, <3>2 DEF Own, At
    <3>4. /\ tag[t] \in 1 .. allocs /\ A[tag[t]] = idx[t]
          /\ \A n \in 1 .. allocs : n > tag[t] => A[n] # idx[t]
      BY <2>1, <2>3 DEF Past, Owning
    <3> HIDE DEF g
    <3>5. g \in 1 .. allocs  BY <1>0, <3>1, <3>3
    <3>6. ~(g > tag[t])  BY <3>3, <3>4, <3>5
    <3> QED  BY <1>0, <3>1, <3>3, <3>4, <3>5, <3>6
  <2> QED  BY <2>2, <2>3
<1>3. got' = got \/ \E u \in Threads : CopyAnswer(u)
  <2> USE DEF history, locals
  <2>1. CASE UNCHANGED vars  BY <2>1 DEF vars
  <2>2. ASSUME NEW u \in Threads, EnterGetIndex(u) \/ ScanNext(u) \/ ScanEnd(u) PROVE got' = got
    BY <2>2 DEF EnterGetIndex, ScanNext, ScanEnd
  <2>3. ASSUME NEW u \in Threads, SetupDatagram(u) \/ MarkTx(u) \/ Send(u) \/ SendError(u)
        PROVE got' = got
    BY <2>3 DEF SetupDatagram, MarkTx, Send, SendError
  <2>4. ASSUME NEW u \in Threads,
               TakeBuffered(u) \/ NotBuffered(u) \/ EnterRx(u) \/ RecvNothing(u)
        PROVE got' = got
    BY <2>4 DEF TakeBuffered, NotBuffered, EnterRx, RecvNothing
  <2>5. ASSUME NEW u \in Threads,
               RecvOwn(u) \/ RecvOther(u) \/ RecvStrange(u) \/ StoreOther(u)
        PROVE got' = got
    BY <2>5 DEF RecvOwn, RecvOther, RecvStrange, StoreOther
  <2>6. ASSUME NEW u \in Threads,
               \/ WaitOn(u) \/ Resend(u) \/ GiveUp(u) \/ Release(u)
               \/ PartialTimeout(u) \/ TotalTimeout(u)
        PROVE got' = got
    BY <2>6 DEF WaitOn, Resend, GiveUp, Release, PartialTimeout, TotalTimeout
  <2> QED  BY <2>1, <2>2, <2>3, <2>4, <2>5, <2>6 DEF Quiet, Next, Operation
<1> QED  BY <1>1, <1>2, <1>3

\* What excuses an index excuses it for good.
LEMMA ExcusesStay ==
    ASSUME IndInv, [Next]_vars, Sound', NEW A, NEW H, NEW B, NEW G, NEW n \in 1 .. allocs,
           \A k \in 1 .. allocs : B[k] = A[k], G[n] = H[n], allocs' \in Nat, allocs' >= allocs
    PROVE  Excused(A, H, n) \subseteq Excused(B, G, n)'
<1>1. Leaks \subseteq Leaks'  BY LeaksStay
<1>2. Handed(A, n) \subseteq Handed(B, n)'
  <2> SUFFICES ASSUME NEW k \in n .. allocs PROVE A[k] \in Handed(B, n)'  BY DEF Handed
  <2>1. allocs \in Nat  BY TagNat DEF IndInv, TypeOK
  <2>2. k \in 1 .. allocs /\ k \in n .. allocs'  BY <2>1
  <2>3. B[k] = A[k]  BY <2>2
  <2> QED  BY <2>2, <2>3 DEF Handed
<1> QED  BY <1>1, <1>2 DEF Excused

\* What has been swept stays swept, with the requests there were.
LEMMA SweptStays ==
    ASSUME IndInv, Quiet, Sound', NEW A, NEW H, NEW p, Swept(A, H, p)
    PROVE  Swept(A, H, p)'
<1>1. allocs' = allocs /\ [Next]_vars /\ allocs \in Nat  BY QuietSteps, TagNat DEF Quiet, IndInv, TypeOK
<1> SUFFICES ASSUME NEW n \in 1 .. allocs
             PROVE  \/ Idx \subseteq Excused(A, H, n)'
                    \/ Arc(A[n], p) \subseteq Excused(A, H, n)'
  BY <1>1 DEF Swept, Arc
<1>2. Excused(A, H, n) \subseteq Excused(A, H, n)'  BY <1>1, ExcusesStay
<1> QED  BY <1>2 DEF Swept

\* A buffer that a search passes has an excuse for each request.
LEMMA Passed ==
    ASSUME IndInv, Sound, NEW A, NEW H, Past(A, H), NEW c \in Idx, rxbufstat[c] # "EMPTY",
           \A t \in Threads : pc[t] # "alloc", NEW n \in 1 .. allocs
    PROVE  c \in Excused(A, H, n)
<1>0. allocs \in Nat  BY TagNat DEF IndInv, TypeOK
<1>1. CASE ~Held(c)  BY <1>1 DEF Leaks, Leaked, Excused
<1>2. ASSUME NEW w \in Threads, Holds(w, c) PROVE c \in Excused(A, H, n)
  <2>1. /\ tag[w] \in 1 .. allocs /\ A[tag[w]] = c
        /\ n > tag[w] => c \in H[n]
    BY <1>2 DEF Past, Owning, Holds
  <2>2. CASE n > tag[w]  BY <2>1, <2>2 DEF Excused
  <2>3. CASE ~(n > tag[w])
    <3>1. tag[w] \in n .. allocs  BY <1>0, <2>1, <2>3
    <3> QED  BY <2>1, <3>1 DEF Excused, Handed
  <2> QED  BY <2>2, <2>3
<1> QED  BY <1>1, <1>2 DEF Held

\* A step of the search: it begins behind the last index, and passes one index
\* at a time.
LEMMA SearchGoesOn ==
    ASSUME IndInv, Quiet, Sound', NEW A \in [Tag -> Idx], NEW H, Past(A, H)
    PROVE  Searching(A, H)'
<1> SUFFICES ASSUME NEW t \in Threads, pc'[t] \in {"scan", "alloc"}
             PROVE  \E p \in Idx : NextIdx(p) = idx'[t] /\ Swept(A, H, p)'
  BY DEF Searching
<1>0. /\ Sound /\ allocs' = allocs /\ allocs \in Nat /\ lastidx \in Idx
      /\ pc \in [Threads -> PC] /\ idx \in [Threads -> Idx]
  BY QuietSteps, TagNat DEF IndInv, TypeOK
<1>1. ASSUME EnterGetIndex(t)
      PROVE  \E p \in Idx : NextIdx(p) = idx'[t] /\ Swept(A, H, p)'
  <2>1. idx'[t] = NextIdx(lastidx)  BY <1>0, <1>1 DEF EnterGetIndex
  <2>2. Swept(A, H, lastidx)
    <3>1. CASE allocs = 0  BY <3>1 DEF Swept
    <3>2. CASE allocs > 0  BY <3>2 DEF Past
    <3> QED  BY <1>0, <3>1, <3>2
  <2>3. PICK p : p = lastidx  OBVIOUS
  <2>4. Swept(A, H, p)'  BY <2>2, <2>3, SweptStays
  <2> QED  BY <1>0, <2>1, <2>3, <2>4
<1>2. ASSUME ScanNext(t)
      PROVE  \E p \in Idx : NextIdx(p) = idx'[t] /\ Swept(A, H, p)'
  <2>1. PICK p \in Idx : NextIdx(p) = idx[t] /\ Swept(A, H, p)
    BY <1>2 DEF ScanNext, Past, Searching
  <2>2. PICK c \in Idx : c = idx[t]  BY <1>0
  <2>3. idx'[t] = NextIdx(c) /\ rxbufstat[c] # "EMPTY"  BY <1>0, <1>2, <2>2 DEF ScanNext
  <2>4. \A u \in Threads : pc[u] # "alloc"  BY <1>2 DEF ScanNext, IndInv, SearchInv
  <2>5. Swept(A, H, c)
    <3> SUFFICES ASSUME NEW n \in 1 .. allocs
                 PROVE  Idx \subseteq Excused(A, H, n) \/ Arc(A[n], c) \subseteq Excused(A, H, n)
      BY DEF Swept
    <3>1. c \in Excused(A, H, n)  BY <1>0, <2>3, <2>4, Passed
    <3>2. A[n] \in Idx
      <4>1. n \in Tag  BY <1>0, NicAssumption DEF Tag, IndInv, TypeOK
      <4> QED  BY <4>1
    <3>3. Idx \subseteq Excused(A, H, n) \/ Arc(A[n], p) \subseteq Excused(A, H, n)
      BY <2>1 DEF Swept
    <3> QED  BY <2>1, <2>2, <3>1, <3>2, <3>3, ArcNext
  <2>6. Swept(A, H, c)'  BY <2>5, SweptStays
  <2> QED  BY <2>3, <2>6
<1>3. ASSUME pc[t] \in {"scan", "alloc"}, idx'[t] = idx[t]
      PROVE  \E p \in Idx : NextIdx(p) = idx'[t] /\ Swept(A, H, p)'
  <2>1. PICK p \in Idx : NextIdx(p) = idx[t] /\ Swept(A, H, p)
    BY <1>3 DEF Past, Searching
  <2> QED  BY <1>3, <2>1, SweptStays
<1>4. EnterGetIndex(t) \/ ScanNext(t) \/ (pc[t] \in {"scan", "alloc"} /\ idx'[t] = idx[t])
  <2> USE <1>0 DEF Goto, locals, history
  <2> DEFINE Goal == EnterGetIndex(t) \/ ScanNext(t)
                       \/ (pc[t] \in {"scan", "alloc"} /\ idx'[t] = idx[t])
  <2>1. CASE UNCHANGED vars  BY <2>1 DEF vars
  <2>2. ASSUME NEW u \in Threads, EnterGetIndex(u) PROVE Goal
    BY <2>2 DEF EnterGetIndex
  <2>3. ASSUME NEW u \in Threads, ScanNext(u) PROVE Goal
    <3>1. CASE u = t  BY <2>3, <3>1
    <3>2. CASE u # t  BY <2>3, <3>2 DEF ScanNext
    <3> QED  BY <3>1, <3>2
  <2>4. ASSUME NEW u \in Threads, ScanEnd(u) PROVE Goal
    BY <2>4 DEF ScanEnd
  <2>5. ASSUME NEW u \in Threads, SetupDatagram(u) \/ MarkTx(u) \/ Send(u) \/ SendError(u)
        PROVE Goal
    BY <2>5 DEF SetupDatagram, MarkTx, Send, SendError, StartWait
  <2>6. ASSUME NEW u \in Threads,
               TakeBuffered(u) \/ NotBuffered(u) \/ EnterRx(u) \/ RecvNothing(u) PROVE Goal
    BY <2>6 DEF TakeBuffered, NotBuffered, EnterRx, RecvNothing
  <2>7. ASSUME NEW u \in Threads,
               RecvOwn(u) \/ RecvOther(u) \/ RecvStrange(u) \/ StoreOther(u) PROVE Goal
    BY <2>7 DEF RecvOwn, RecvOther, RecvStrange, StoreOther
  <2>8. ASSUME NEW u \in Threads,
               WaitOn(u) \/ Resend(u) \/ GiveUp(u) \/ CopyAnswer(u) \/ Release(u) PROVE Goal
    BY <2>8 DEF WaitOn, Resend, GiveUp, CopyAnswer, Release
  <2>9. ASSUME NEW u \in Threads, PartialTimeout(u) \/ TotalTimeout(u) PROVE Goal
    BY <2>9 DEF PartialTimeout, TotalTimeout
  <2> QED
    BY <2>1, <2>2, <2>3, <2>4, <2>5, <2>6, <2>7, <2>8, <2>9 DEF Quiet, Next, Operation
<1> QED  BY <1>1, <1>2, <1>3, <1>4

\* The distances only become easier to keep: leaks stay.
LEMMA LeaksGrow ==
    ASSUME IndInv, [Next]_vars, Sound'
    PROVE  /\ Cardinality(Leaks) \in Nat /\ Cardinality(Leaks') \in Nat
           /\ Cardinality(Leaks) <= Cardinality(Leaks')
           /\ IsFiniteSet(Leaks)
<1>1. IsFiniteSet(Idx)  BY NicAssumption, FS_Interval DEF Idx
<1>2. Leaks \in SUBSET Idx  BY DEF Leaks, Leaked
<1>3. Leaks' \in SUBSET Idx  BY DEF Leaks, Leaked
<1>4. IsFiniteSet(Leaks) /\ IsFiniteSet(Leaks')  BY <1>1, <1>2, <1>3, FS_Subset
<1>5. Leaks \in SUBSET Leaks'  BY LeaksStay
<1> HIDE DEF Leaks
<1> QED  BY <1>4, <1>5, FS_Subset, FS_CardinalityType

\* A quiet step keeps the past.
LEMMA QuietPast ==
    ASSUME IndInv, Quiet, Sound', NEW A \in [Tag -> Idx], NEW H \in [Tag -> SUBSET Idx], Past(A, H)
    PROVE  Past(A, H)'
<1>1. /\ [Next]_vars /\ allocs' = allocs /\ lastidx' = lastidx /\ allocs \in Nat
  BY QuietSteps, TagNat DEF Quiet, IndInv, TypeOK
<1>2. Labelled(A)' /\ Owning(A, H)' /\ Copied(A)' /\ Searching(A, H)'
  BY LabelsStay, OwningStays, CopiedStays, SearchGoesOn
<1>3. Few(H)'  BY <1>1 DEF Past, Few
<1>4. Rounds(A)'
  <2> SUFFICES ASSUME NEW m \in 1 .. allocs, NEW n \in 1 .. allocs, n < m, A[n] = A[m]
               PROVE  Round(m, n)'
    BY <1>1 DEF Rounds
  <2>1. Round(m, n)  BY DEF Past, Rounds
  <2>2. /\ Cardinality(Leaks) \in Nat /\ Cardinality(Leaks') \in Nat
        /\ Cardinality(Leaks) <= Cardinality(Leaks')
    BY <1>1, LeaksGrow
  <2>3. Cardinality(Threads) \in Nat /\ MAXBUF \in Nat  BY NicAssumption, FS_CardinalityType
  <2> QED  BY <1>1, <2>1, <2>2, <2>3 DEF Round
<1>5. allocs' > 0 => Swept(A, H, lastidx)'
  <2> SUFFICES ASSUME allocs > 0 PROVE Swept(A, H, lastidx)'  BY <1>1
  <2>1. PICK p : p = lastidx  OBVIOUS
  <2>2. Swept(A, H, p)  BY <2>1 DEF Past
  <2>3. Swept(A, H, p)'  BY <2>2, SweptStays
  <2> QED  BY <1>1, <2>1, <2>3
<1> QED  BY <1>2, <1>3, <1>4, <1>5 DEF Past

\* The count: when every index has an excuse, there were as many requests,
\* owners and leaks as there are buffers.
LEMMA Counted ==
    ASSUME IndInv, NEW A, NEW H, Few(H), NEW n \in 1 .. allocs, Idx \subseteq Excused(A, H, n)
    PROVE  Round(allocs + 1, n)
<1>0. allocs \in Nat /\ MAXBUF \in Nat  BY TagNat, NicAssumption DEF IndInv, TypeOK
<1> DEFINE P == Handed(A, n)
           Q == H[n]
           R == Leaks
<1>1. Cardinality(Idx) = MAXBUF /\ IsFiniteSet(Idx)
  <2>1. IsFiniteSet(0 .. MAXBUF - 1) /\ Cardinality(0 .. MAXBUF - 1) = MAXBUF
    BY <1>0, FS_Interval
  <2> QED  BY <2>1 DEF Idx
<1>2. IsFiniteSet(P) /\ Cardinality(P) <= allocs + 1 - n
  <2>1. IsFiniteSet(n .. allocs) /\ Cardinality(n .. allocs) = allocs - n + 1
    BY <1>0, FS_Interval
  <2>2. IsFiniteSet(P) /\ Cardinality(P) <= Cardinality(n .. allocs)
    BY <2>1, ImageCard DEF Handed
  <2> QED  BY <1>0, <2>1, <2>2, FS_CardinalityType
<1>3. IsFiniteSet(Q) /\ Cardinality(Q) + 1 <= Cardinality(Threads)  BY DEF Few
<1>4. IsFiniteSet(R)
  <2>1. R \in SUBSET Idx  BY DEF Leaks, Leaked
  <2> QED  BY <1>1, <2>1, FS_Subset
<1>5. Idx \in SUBSET ((P \cup Q) \cup R)  BY DEF Excused
<1> HIDE DEF P, Q, R
<1>6. /\ IsFiniteSet(P \cup Q)
      /\ Cardinality(P \cup Q) = Cardinality(P) + Cardinality(Q) - Cardinality(P \cap Q)
  BY <1>2, <1>3, FS_Union
<1>7. /\ IsFiniteSet((P \cup Q) \cup R)
      /\ Cardinality((P \cup Q) \cup R)
           = Cardinality(P \cup Q) + Cardinality(R) - Cardinality((P \cup Q) \cap R)
  BY <1>4, <1>6, FS_Union
<1>8. Cardinality(Idx) <= Cardinality((P \cup Q) \cup R)  BY <1>5, <1>7, FS_Subset
<1>9. /\ Cardinality(P) \in Nat /\ Cardinality(Q) \in Nat /\ Cardinality(R) \in Nat
      /\ Cardinality(P \cup Q) \in Nat /\ Cardinality((P \cup Q) \cup R) \in Nat
      /\ Cardinality(Threads) \in Nat
  BY <1>2, <1>3, <1>4, <1>6, <1>7, NicAssumption, FS_CardinalityType
<1>10. Cardinality(P \cap Q) \in Nat /\ Cardinality((P \cup Q) \cap R) \in Nat
  <2>1. P \cap Q \in SUBSET P /\ (P \cup Q) \cap R \in SUBSET R  OBVIOUS
  <2>2. IsFiniteSet(P \cap Q)  BY <1>2, <2>1, FS_Subset
  <2>3. IsFiniteSet((P \cup Q) \cap R)  BY <1>4, <2>1, FS_Subset
  <2> QED  BY <2>2, <2>3, FS_CardinalityType
<1>11. MAXBUF <= Cardinality(P) + Cardinality(Q) + Cardinality(R)
  BY <1>0, <1>1, <1>6, <1>7, <1>8, <1>9, <1>10
<1>12. allocs + 1 - n + Cardinality(Threads) - 1 + Cardinality(R) >= MAXBUF
  BY <1>0, <1>2, <1>3, <1>9, <1>11
<1>13. Cardinality(R) = Cardinality(Leaks)  BY DEF R
<1> QED  BY <1>0, <1>9, <1>12, <1>13 DEF Round

\* The owners, but for one thread, are fewer than the threads.
LEMMA FewOwners ==
    ASSUME NEW t \in Threads, NEW W \in SUBSET (Threads \ {t})
    PROVE  LET S == {idx[w] : w \in W}
           IN  IsFiniteSet(S) /\ Cardinality(S) + 1 <= Cardinality(Threads)
<1>1. IsFiniteSet(Threads) /\ Cardinality(Threads) \in Nat  BY NicAssumption, FS_CardinalityType
<1>2. /\ IsFiniteSet(Threads \ {t})
      /\ Cardinality(Threads \ {t}) = Cardinality(Threads) - 1
  BY <1>1, FS_RemoveElement
<1>3. IsFiniteSet(W) /\ Cardinality(W) <= Cardinality(Threads \ {t})  BY <1>2, FS_Subset
<1> DEFINE S == {idx[w] : w \in W}
<1>4. IsFiniteSet(S) /\ Cardinality(S) <= Cardinality(W)  BY <1>3, ImageCard
<1>5. Cardinality(S) \in Nat /\ Cardinality(W) \in Nat  BY <1>3, <1>4, FS_CardinalityType
<1> QED  BY <1>1, <1>2, <1>3, <1>4, <1>5

\* A request adds itself, and the owners there are, to the past.
LEMMA AllocPast ==
    ASSUME IndInv, NEW t \in Threads, AllocIndex(t), Sound',
           NEW A \in [Tag -> Idx], NEW H \in [Tag -> SUBSET Idx], Past(A, H)
    PROVE  \E B \in [Tag -> Idx], G \in [Tag -> SUBSET Idx] : Past(B, G)'
<1>0. /\ allocs \in Nat /\ allocs + 1 \in Tag /\ idx \in [Threads -> Idx]
      /\ tag \in [Threads -> Tag] /\ got \in [Threads -> Tag] /\ pc \in [Threads -> PC]
      /\ 1 .. allocs + 1 \subseteq Tag
  <2>1. allocs \in Nat /\ allocs < MaxAlloc /\ MaxAlloc \in Nat
    BY TagNat, NicAssumption DEF IndInv, TypeOK, SearchInv, AllocIndex
  <2>2. allocs + 1 \in Tag /\ 1 .. allocs + 1 \subseteq Tag  BY <2>1 DEF Tag
  <2> QED  BY <2>1, <2>2 DEF IndInv, TypeOK
<1> DEFINE W == {w \in Threads : w # t /\ pc[w] \in OwnerPc}
<1>1. PICK k : k = allocs + 1  OBVIOUS
<1>2. PICK c : c = idx[t]  OBVIOUS
<1>3. PICK S : S = {idx[w] : w \in W}  OBVIOUS
<1>4. PICK B : B = [A EXCEPT ![k] = c]  OBVIOUS
<1>5. PICK G : G = [H EXCEPT ![k] = S]  OBVIOUS
<1>6. /\ Sound /\ [Next]_vars /\ pc[t] = "alloc" /\ allocs' = k /\ lastidx' = c
      /\ tag' = [tag EXCEPT ![t] = k] /\ got' = [got EXCEPT ![t] = 0]
      /\ pc' = [pc EXCEPT ![t] = "setup"] /\ idx' = idx
      /\ wire' = wire /\ temp' = temp /\ rxbuf' = rxbuf /\ txbuf' = txbuf
  BY <1>1, <1>2 DEF AllocIndex, Goto, Sound, Next, Operation
<1>7. /\ c \in Idx /\ \A u \in Threads : pc[u] \in OwnerPc => idx[u] # c
      /\ \A u \in Threads : u # t => pc[u] \notin {"scan", "alloc"}
  BY <1>0, <1>2, <1>6 DEF IndInv, OwnedInv, SearchInv, Holds
<1>8. S \subseteq Idx /\ IsFiniteSet(S) /\ Cardinality(S) + 1 <= Cardinality(Threads)
  <2>1. W \in SUBSET (Threads \ {t})  OBVIOUS
  <2>2. S \subseteq Idx  BY <1>0, <1>3
  <2> HIDE DEF W
  <2> QED  BY <1>3, <2>1, <2>2, FewOwners
<1>9. /\ k \in Nat /\ k > 0 /\ k \in Tag
      /\ B \in [Tag -> Idx] /\ G \in [Tag -> SUBSET Idx] /\ B[k] = c /\ G[k] = S
      /\ \A n \in Tag : n # k => B[n] = A[n] /\ G[n] = H[n]
      /\ \A n \in 1 .. allocs : n \in Tag /\ B[n] = A[n] /\ G[n] = H[n]
  BY <1>0, <1>1, <1>4, <1>5, <1>7, <1>8
<1>10. PICK p \in Idx : NextIdx(p) = c /\ Swept(A, H, p)
  BY <1>2, <1>6 DEF Past, Searching
<1>11. Labelled(B)'
  <2>1. Own(A) \subseteq Own(B)'
    <3> SUFFICES ASSUME NEW f \in Own(A), f.tag # 0 PROVE f.tag <= k /\ B[f.tag] = f.idx
      BY <1>6 DEF Own
    <3>1. f.tag \in Tag /\ f.tag \in Nat /\ f.tag <= allocs /\ A[f.tag] = f.idx
      BY TagNat DEF Own, Frame
    <3> QED  BY <1>0, <1>1, <1>9, <3>1
  <2>2. Labelled(A)  BY DEF Past
  <2>3. wire \in Seq(Own(B)')  BY <2>1, <2>2, SeqMonotonic DEF Labelled
  <2> QED  BY <1>6, <2>1, <2>2, <2>3 DEF Labelled
<1>12. Owning(B, G)'
  <2> SUFFICES ASSUME NEW u \in Threads, pc'[u] \in OwnerPc
               PROVE  /\ tag'[u] \in 1 .. k /\ B[tag'[u]] = idx[u]
                      /\ \A n \in 1 .. k : n > tag'[u] => idx[u] \in G[n] /\ B[n] # idx[u]
    BY <1>6 DEF Owning
  <2>1. CASE u = t
    <3>1. tag'[u] = k  BY <1>0, <1>6, <2>1
    <3> QED  BY <1>2, <1>9, <2>1, <3>1
  <2>2. CASE u # t
    <3>1. tag'[u] = tag[u] /\ pc[u] \in OwnerPc  BY <1>0, <1>6, <2>2
    <3>2. /\ tag[u] \in 1 .. allocs /\ A[tag[u]] = idx[u]
          /\ \A n \in 1 .. allocs : n > tag[u] => idx[u] \in H[n] /\ A[n] # idx[u]
      BY <3>1 DEF Past, Owning
    <3>3. idx[u] \in S /\ idx[u] # c  BY <1>3, <1>7, <2>2, <3>1
    <3>4. ASSUME NEW n \in 1 .. k, n > tag[u] PROVE idx[u] \in G[n] /\ B[n] # idx[u]
      <4>1. CASE n = k  BY <1>9, <3>3, <4>1
      <4>2. CASE n # k
        <5>1. n \in 1 .. allocs  BY <1>0, <1>1, <4>2
        <5> QED  BY <1>9, <3>2, <3>4, <5>1
      <4> QED  BY <4>1, <4>2
    <3> QED  BY <1>0, <1>1, <1>9, <3>1, <3>2, <3>4
  <2> QED  BY <2>1, <2>2
<1>13. Copied(B)'
  <2> SUFFICES ASSUME NEW u \in Threads, got'[u] # 0
               PROVE  got'[u] <= tag'[u] /\ tag'[u] <= k /\ B[got'[u]] = B[tag'[u]]
    BY <1>6 DEF Copied
  <2>1. u # t /\ got'[u] = got[u] /\ tag'[u] = tag[u]  BY <1>0, <1>6
  <2>2. got[u] <= tag[u] /\ tag[u] <= allocs /\ A[got[u]] = A[tag[u]]
    BY <2>1 DEF Past, Copied
  <2>3. got[u] \in Tag /\ tag[u] \in Tag /\ got[u] \in Nat /\ tag[u] \in Nat  BY <1>0, TagNat
  <2> QED  BY <1>0, <1>1, <1>9, <2>1, <2>2, <2>3
<1>14. Few(G)'
  <2> SUFFICES ASSUME NEW n \in 1 .. k
               PROVE  IsFiniteSet(G[n]) /\ Cardinality(G[n]) + 1 <= Cardinality(Threads)
    BY <1>6 DEF Few
  <2>1. CASE n = k  BY <1>8, <1>9, <2>1
  <2>2. CASE n # k
    <3>1. n \in 1 .. allocs  BY <1>0, <1>1, <2>2
    <3> QED  BY <1>9, <3>1 DEF Past, Few
  <2> QED  BY <2>1, <2>2
<1>15. Rounds(B)'
  <2> SUFFICES ASSUME NEW m \in 1 .. k, NEW n \in 1 .. k, n < m, B[n] = B[m]
               PROVE  Round(m, n)'
    BY <1>6 DEF Rounds
  <2>1. n \in 1 .. allocs  BY <1>0, <1>1
  <2>2. Round(m, n)
    <3>1. CASE m = k
      <4>1. A[n] = c /\ A[n] \in Idx  BY <1>9, <2>1, <3>1
      <4>2. Arc(A[n], p) = Idx  BY <1>10, <4>1, ArcNext
      <4>3. Idx \subseteq Excused(A, H, n)  BY <1>10, <2>1, <4>2 DEF Swept
      <4>4. Round(allocs + 1, n)  BY <2>1, <4>3, Counted DEF Past
      <4> QED  BY <1>1, <3>1, <4>4
    <3>2. CASE m # k
      <4>1. m \in 1 .. allocs  BY <1>0, <1>1, <3>2
      <4> QED  BY <1>9, <2>1, <4>1 DEF Past, Rounds
    <3> QED  BY <3>1, <3>2
  <2>3. /\ Cardinality(Leaks) \in Nat /\ Cardinality(Leaks') \in Nat
        /\ Cardinality(Leaks) <= Cardinality(Leaks')
    BY <1>6, LeaksGrow
  <2>4. Cardinality(Threads) \in Nat /\ MAXBUF \in Nat  BY NicAssumption, FS_CardinalityType
  <2> QED  BY <1>9, <2>2, <2>3, <2>4 DEF Round
<1>16. Searching(B, G)'
  <2>1. \A u \in Threads : pc'[u] \notin {"scan", "alloc"}  BY <1>0, <1>6, <1>7
  <2> QED  BY <2>1 DEF Searching
<1>17. Swept(B, G, c)'
  <2> SUFFICES ASSUME NEW n \in 1 .. k
               PROVE  Idx \subseteq Excused(B, G, n)' \/ Arc(B[n], c) \subseteq Excused(B, G, n)'
    BY <1>6 DEF Swept, Arc
  <2>1. c \in Excused(B, G, n)'
    <3>1. k \in n .. k  BY <1>9
    <3> QED  BY <1>6, <1>9, <3>1 DEF Excused, Handed
  <2>2. CASE n = k  BY <1>7, <1>9, <2>1, <2>2, ArcNext
  <2>3. CASE n # k
    <3>1. n \in 1 .. allocs  BY <1>0, <1>1, <2>3
    <3>2. Excused(A, H, n) \subseteq Excused(B, G, n)'
      <4>1. allocs' \in Nat /\ allocs' >= allocs  BY <1>0, <1>1, <1>6
      <4> QED  BY <1>6, <1>9, <3>1, <4>1, ExcusesStay
    <3>3. Idx \subseteq Excused(A, H, n) \/ Arc(A[n], p) \subseteq Excused(A, H, n)
      BY <1>10, <3>1 DEF Swept
    <3>4. A[n] = B[n] /\ A[n] \in Idx  BY <1>9, <3>1
    <3>5. NextIdx(p) = A[n] => Arc(A[n], p) = Idx  BY <3>4, ArcNext
    <3>6. NextIdx(p) # A[n] => Arc(A[n], c) \subseteq Arc(A[n], p) \cup {c}
      BY <1>10, <3>4, ArcNext
    <3> QED  BY <2>1, <3>2, <3>3, <3>4, <3>5, <3>6
  <2> QED  BY <2>2, <2>3
<1>18. allocs' > 0 => Swept(B, G, lastidx)'
  <2>1. lastidx' = c  BY <1>6
  <2>2. Swept(B, G, lastidx)' <=> Swept(B, G, c)'  BY <2>1 DEF Swept, Arc
  <2> QED  BY <1>17, <2>2
<1>19. Past(B, G)'
  BY <1>11, <1>12, <1>13, <1>14, <1>15, <1>16, <1>18 DEF Past
<1> QED  BY <1>9, <1>19

-----------------------------------------------------------------------------
\* Nothing has happened at the start.
LEMMA InitPast == Init => PastInv
<1> SUFFICES ASSUME Init PROVE PastInv  OBVIOUS
<1>0. 0 \in Idx /\ 0 \in Tag  BY NicAssumption DEF Idx, Tag
<1> DEFINE A == [g \in Tag |-> 0]
           H == [g \in Tag |-> {}]
<1>1. A \in [Tag -> Idx] /\ H \in [Tag -> SUBSET Idx]  BY <1>0
<1>2. Labelled(A)
  <2>1. NoFrame \in Own(A)  BY <1>0 DEF NoFrame, Own, Frame
  <2>2. \A i \in Idx : At(i, 0) \in Own(A)  BY <1>0 DEF At, Own, Frame
  <2>3. wire \in Seq(Own(A))  BY DEF Init
  <2> QED  BY <2>1, <2>2, <2>3 DEF Init, Labelled
<1>3. Owning(A, H) /\ Copied(A) /\ Searching(A, H)
  BY DEF Init, Owning, Copied, Searching, OwnerPc
<1>4. allocs = 0 /\ 1 .. allocs = {}  BY DEF Init
<1>5. Few(H) /\ Rounds(A)  BY <1>4 DEF Few, Rounds
<1>6. Past(A, H)  BY <1>2, <1>3, <1>4, <1>5 DEF Past
<1> QED  BY <1>1, <1>6 DEF PastInv

\* Every step keeps a past.
LEMMA NextPast == IndInv /\ PastInv /\ [Next]_vars => PastInv'
<1> SUFFICES ASSUME IndInv, PastInv, [Next]_vars, Sound'
             PROVE  \E A \in [Tag -> Idx], H \in [Tag -> SUBSET Idx] : Past(A, H)'
  BY DEF PastInv
<1>1. CASE \E t \in Threads : AllocIndex(t)
  <2>1. PICK t \in Threads : AllocIndex(t)  BY <1>1
  <2>2. Sound  BY <2>1 DEF AllocIndex, Sound
  <2>3. PICK A \in [Tag -> Idx], H \in [Tag -> SUBSET Idx] : Past(A, H)  BY <2>2 DEF PastInv
  <2> QED  BY <2>1, <2>3, AllocPast
<1>2. CASE ~ \E t \in Threads : AllocIndex(t)
  <2>1. Quiet  BY <1>2 DEF Quiet
  <2>2. Sound  BY <2>1, QuietSteps
  <2>3. PICK A \in [Tag -> Idx], H \in [Tag -> SUBSET Idx] : Past(A, H)  BY <2>2 DEF PastInv
  <2> QED  BY <2>1, <2>3, QuietPast
<1> QED  BY <1>1, <1>2

\* An answer to another request than the own is a round of the index old: at
\* least as many requests as there are buffers lie between the two, but for
\* those that the other threads own or that have leaked, for any number of
\* threads and buffers (ecx_getindex, ecx_inframe).
THEOREM StaleAnswersAreOld == Spec => []StaleIsOld
<1>1. Spec => []PastInv  BY SpecInd, InitPast, NextPast, PTL DEF Spec
<1>2. IndInv /\ PastInv => StaleIsOld
  <2> SUFFICES ASSUME IndInv, PastInv, Sound, NEW t \in Threads, got[t] # 0, got[t] # tag[t]
               PROVE  tag[t] - got[t] + Cardinality(Threads) - 1 + Cardinality(Leaked) >= MAXBUF
    BY DEF StaleIsOld, Sound
  <2>1. PICK A \in [Tag -> Idx], H \in [Tag -> SUBSET Idx] : Past(A, H)  BY DEF PastInv
  <2>2. got[t] <= tag[t] /\ tag[t] <= allocs /\ A[got[t]] = A[tag[t]]
    BY <2>1 DEF Past, Copied
  <2>3. got[t] \in Nat /\ tag[t] \in Nat /\ allocs \in Nat  BY TagNat DEF IndInv, TypeOK
  <2>4. got[t] \in 1 .. allocs /\ tag[t] \in 1 .. allocs /\ got[t] < tag[t]  BY <2>2, <2>3
  <2>5. Round(tag[t], got[t])  BY <2>1, <2>2, <2>4 DEF Past, Rounds
  <2>6. IsFiniteSet(Leaked) /\ Leaks \in SUBSET Leaked
    <3>1. IsFiniteSet(Idx)  BY NicAssumption, FS_Interval DEF Idx
    <3>2. Leaked \in SUBSET Idx  BY DEF Leaked
    <3>3. IsFiniteSet(Leaked)  BY <3>1, <3>2, FS_Subset
    <3> QED  BY <3>3 DEF Leaks
  <2>7. /\ Cardinality(Leaks) <= Cardinality(Leaked)
        /\ Cardinality(Leaks) \in Nat /\ Cardinality(Leaked) \in Nat
    <3> HIDE DEF Leaks
    <3> QED  BY <2>6, FS_Subset, FS_CardinalityType
  <2>8. Cardinality(Threads) \in Nat /\ MAXBUF \in Nat  BY NicAssumption, FS_CardinalityType
  <2> QED  BY <2>3, <2>5, <2>7, <2>8 DEF Round
<1> QED  BY SpecInd, <1>1, <1>2, PTL

-----------------------------------------------------------------------------
(* That an answer is kept.  When frames return in the order they were sent *)
(* in, an older answer on the index cannot come after the one that is in   *)
(* the buffer: the wire and what a thread is storing are in the order of   *)
(* the requests, index by index.                                           *)

\* The thread that reads the socket is alone there.
ReadingInv == \A t \in Threads : pc[t] \in {"recv", "store"} => rxMutex = {t}

\* The frames with index i that are still to be stored: on the wire, or with
\* the thread that has read one.
OnWire(i) == {k \in 1 .. Len(wire) : wire[k].idx = i}
InHand(i) == {t \in Threads : pc[t] = "store" /\ temp[t].idx = i}

\* Index by index the frames come back in the order of the requests.
InOrder ==
    /\ \A j, k \in 1 .. Len(wire) : j < k /\ wire[j].idx = wire[k].idx => wire[j].tag <= wire[k].tag
    /\ \A t \in Threads : pc[t] = "store" => \A k \in OnWire(temp[t].idx) : temp[t].tag <= wire[k].tag

\* There are no answers to requests not yet made.
NotAhead ==
    /\ \A k \in 1 .. Len(wire) : wire[k].tag <= allocs
    /\ \A t \in Threads : pc[t] = "store" => temp[t].tag <= allocs
    /\ \A i \in Idx : rxbuf[i] <= allocs

\* The frames on the owner's index are of its request or of earlier ones; once
\* its answer is stored only of its request, and before it is sent of none.
AnswersOf(t) ==
    /\ tag[t] <= allocs
    /\ pc[t] # "setup" => txbuf[idx[t]] = tag[t]
    /\ \A k \in OnWire(idx[t]) : wire[k].tag <= tag[t]
    /\ \A u \in InHand(idx[t]) : temp[u].tag <= tag[t]
    /\ rxbuf[idx[t]] <= tag[t]
    /\ rxbuf[idx[t]] = tag[t] =>
         /\ \A k \in OnWire(idx[t]) : wire[k].tag = tag[t]
         /\ \A u \in InHand(idx[t]) : temp[u].tag = tag[t]
    /\ pc[t] \in {"setup", "mark", "send"} /\ ~partial[t] =>
         /\ rxbuf[idx[t]] # tag[t]
         /\ \A k \in OnWire(idx[t]) : wire[k].tag # tag[t]
         /\ \A u \in InHand(idx[t]) : temp[u].tag # tag[t]

Ordered == InOrder /\ NotAhead /\ \A t \in Threads : pc[t] \in OwnerPc => AnswersOf(t)

OrderInv ==
    /\ ReadingInv
    /\ Sound => Ordered

\* The oldest frame taken off, the others move up.
LEMMA Popped ==
    ASSUME NEW S, NEW s \in Seq(S), Len(s) >= 1
    PROVE  /\ RemoveAt(s, 1) \in Seq(S) /\ Len(RemoveAt(s, 1)) = Len(s) - 1
           /\ \A j \in 1 .. Len(s) - 1 : RemoveAt(s, 1)[j] = s[j + 1]
<1>1. Len(s) \in Nat  BY LenProperties
<1>2. SubSeq(s, 1, 0) = <<>>  BY <1>1, SubSeqEmpty
<1>3. /\ SubSeq(s, 2, Len(s)) \in Seq(S) /\ Len(SubSeq(s, 2, Len(s))) = Len(s) - 1
      /\ \A j \in 1 .. Len(s) - 1 : SubSeq(s, 2, Len(s))[j] = s[j + 1]
  <2> DEFINE n == Len(s)
             r == SubSeq(s, 2, n)
  <2>1. \A i \in 2 .. n : s[i] \in S
    <3>1. \A i \in 2 .. n : i \in 1 .. n  BY <1>1
    <3> QED  BY <3>1, ElementOfSeq
  <2> HIDE DEF n
  <2>2. n \in Int /\ n >= 1  BY <1>1 DEF n
  <2>3. /\ r \in Seq(S) /\ Len(r) = (IF 2 <= n THEN n - 2 + 1 ELSE 0)
        /\ \A i \in 1 .. n - 2 + 1 : r[i] = s[2 + i - 1]
    BY <2>1, <2>2, SubSeqProperties
  <2> HIDE DEF r
  <2>4. Len(r) = n - 1  BY <2>2, <2>3
  <2>5. \A i \in 1 .. n - 1 : r[i] = s[i + 1]
    <3> TAKE i \in 1 .. n - 1
    <3>1. i \in 1 .. n - 2 + 1 /\ 2 + i - 1 = i + 1  BY <2>2
    <3> QED  BY <2>3, <3>1
  <2> QED  BY <2>3, <2>4, <2>5 DEF n, r
<1>4. RemoveAt(s, 1) = SubSeq(s, 1, 0) \o SubSeq(s, 2, Len(s))
  <2>1. 1 - 1 = 0 /\ 1 + 1 = 2  OBVIOUS
  <2> QED  BY <2>1 DEF RemoveAt
<1>5. RemoveAt(s, 1) = SubSeq(s, 2, Len(s))  BY <1>2, <1>3, <1>4, ConcatEmptySeq
<1> QED  BY <1>3, <1>5

\* Only the oldest frame arrives.
LEMMA Oldest ==
    ASSUME ReorderDepth = 1, TypeOK, NEW k \in Arrived
    PROVE  /\ k = 1 /\ Len(wire) \in Nat /\ Len(wire) >= 1 /\ wire[1] \in Frame
           /\ Len(RemoveAt(wire, 1)) = Len(wire) - 1
           /\ \A j \in 1 .. Len(wire) - 1 : RemoveAt(wire, 1)[j] = wire[j + 1]
<1>1. k = 1 /\ Len(wire) >= 1 /\ Len(wire) \in Nat /\ wire \in Seq(Frame)
  BY DEF Arrived, TypeOK
<1>2. wire[1] \in Frame  BY <1>1, ElementOfSeq
<1> QED  BY <1>1, <1>2, Popped

\* The mutex of the socket is held as long as a thread reads and stores.
LEMMA StepReading == TypeOK /\ ReadingInv /\ [Next]_vars => ReadingInv'
<1> SUFFICES ASSUME TypeOK, ReadingInv, [Next]_vars, NEW t \in Threads, pc'[t] \in {"recv", "store"}
             PROVE  rxMutex' = {t}
  BY DEF ReadingInv
<1> USE DEF TypeOK, ReadingInv, Goto, locals, history
<1>1. CASE UNCHANGED vars  BY <1>1 DEF vars
<1>2. ASSUME NEW u \in Threads,
             EnterGetIndex(u) \/ ScanNext(u) \/ ScanEnd(u) \/ AllocIndex(u) PROVE rxMutex' = {t}
  BY <1>2 DEF EnterGetIndex, ScanNext, ScanEnd, AllocIndex
<1>3. ASSUME NEW u \in Threads, SetupDatagram(u) \/ MarkTx(u) \/ Send(u) \/ SendError(u)
      PROVE rxMutex' = {t}
  BY <1>3 DEF SetupDatagram, MarkTx, Send, SendError, StartWait
<1>4. ASSUME NEW u \in Threads,
             TakeBuffered(u) \/ NotBuffered(u) \/ EnterRx(u) \/ RecvNothing(u) PROVE rxMutex' = {t}
  BY <1>4 DEF TakeBuffered, NotBuffered, EnterRx, RecvNothing
<1>5. ASSUME NEW u \in Threads,
             RecvOwn(u) \/ RecvOther(u) \/ RecvStrange(u) \/ StoreOther(u) PROVE rxMutex' = {t}
  BY <1>5 DEF RecvOwn, RecvOther, RecvStrange, StoreOther
<1>6. ASSUME NEW u \in Threads,
             WaitOn(u) \/ Resend(u) \/ GiveUp(u) \/ CopyAnswer(u) \/ Release(u) PROVE rxMutex' = {t}
  BY <1>6 DEF WaitOn, Resend, GiveUp, CopyAnswer, Release
<1>7. ASSUME NEW u \in Threads, PartialTimeout(u) \/ TotalTimeout(u) PROVE rxMutex' = {t}
  BY <1>7 DEF PartialTimeout, TotalTimeout
<1> QED  BY <1>1, <1>2, <1>3, <1>4, <1>5, <1>6, <1>7 DEF Next, Operation

\* Steps that move no frame and make no request keep the order.
LEMMA OrderStands ==
    ASSUME Ordered,
           wire' = wire, rxbuf' = rxbuf, txbuf' = txbuf, temp' = temp,
           allocs' = allocs, tag' = tag,
           \A t \in Threads :
              /\ pc'[t] = "store" => pc[t] = "store"
              /\ pc'[t] \in OwnerPc => /\ pc[t] \in OwnerPc /\ idx'[t] = idx[t]
                                       /\ pc[t] = "setup" => pc'[t] = "setup"
              /\ pc'[t] \in {"setup", "mark", "send"} /\ ~partial'[t]
                   => pc[t] \in {"setup", "mark", "send"} /\ ~partial[t]
    PROVE  Ordered'
<1>1. InOrder'  BY DEF Ordered, InOrder, OnWire
<1>2. NotAhead'  BY DEF Ordered, NotAhead
<1>3. ASSUME NEW t \in Threads, pc'[t] \in OwnerPc PROVE AnswersOf(t)'
  <2>1. /\ AnswersOf(t) /\ idx'[t] = idx[t]
        /\ pc[t] = "setup" => pc'[t] = "setup"
        /\ pc'[t] \in {"setup", "mark", "send"} /\ ~partial'[t]
             => pc[t] \in {"setup", "mark", "send"} /\ ~partial[t]
    BY <1>3 DEF Ordered
  <2>2. OnWire(idx[t])' = OnWire(idx[t]) /\ InHand(idx[t])' \subseteq InHand(idx[t])
    BY <2>1 DEF OnWire, InHand
  <2> QED  BY <2>1, <2>2 DEF AnswersOf
<1> QED  BY <1>1, <1>2, <1>3 DEF Ordered

\* Which steps these are.
LEMMA StandingSteps ==
    ASSUME IndInv, Sound', NEW u \in Threads,
           \/ EnterGetIndex(u) \/ ScanNext(u) \/ ScanEnd(u) \/ MarkTx(u)
           \/ TakeBuffered(u) \/ NotBuffered(u) \/ EnterRx(u) \/ RecvNothing(u)
           \/ WaitOn(u) \/ Resend(u) \/ GiveUp(u) \/ CopyAnswer(u) \/ Release(u)
           \/ PartialTimeout(u) \/ TotalTimeout(u)
    PROVE  /\ wire' = wire /\ rxbuf' = rxbuf /\ txbuf' = txbuf /\ temp' = temp
           /\ allocs' = allocs /\ tag' = tag
           /\ \A t \in Threads :
              /\ pc'[t] = "store" => pc[t] = "store"
              /\ pc'[t] \in OwnerPc => /\ pc[t] \in OwnerPc /\ idx'[t] = idx[t]
                                       /\ pc[t] = "setup" => pc'[t] = "setup"
              /\ pc'[t] \in {"setup", "mark", "send"} /\ ~partial'[t]
                   => pc[t] \in {"setup", "mark", "send"} /\ ~partial[t]
<1> DEFINE Goal == /\ wire' = wire /\ rxbuf' = rxbuf /\ txbuf' = txbuf /\ temp' = temp
                   /\ allocs' = allocs /\ tag' = tag
                   /\ \A t \in Threads :
                      /\ pc'[t] = "store" => pc[t] = "store"
                      /\ pc'[t] \in OwnerPc => /\ pc[t] \in OwnerPc /\ idx'[t] = idx[t]
                                               /\ pc[t] = "setup" => pc'[t] = "setup"
                      /\ pc'[t] \in {"setup", "mark", "send"} /\ ~partial'[t]
                           => pc[t] \in {"setup", "mark", "send"} /\ ~partial[t]
<1> USE DEF IndInv, TypeOK, Goto, OwnerPc, locals, history
<1>1. CASE EnterGetIndex(u) \/ ScanNext(u) \/ ScanEnd(u)
  BY <1>1 DEF EnterGetIndex, ScanNext, ScanEnd
<1>2. CASE MarkTx(u) \/ TakeBuffered(u) \/ NotBuffered(u) \/ EnterRx(u) \/ RecvNothing(u)
  BY <1>2 DEF MarkTx, TakeBuffered, NotBuffered, EnterRx, RecvNothing
<1>3. CASE WaitOn(u) \/ Resend(u) \/ GiveUp(u) \/ CopyAnswer(u)
  BY <1>3 DEF WaitOn, Resend, GiveUp, CopyAnswer
<1>4. CASE Release(u)
  BY <1>4 DEF Release
<1>5. CASE PartialTimeout(u) \/ TotalTimeout(u)
  BY <1>5 DEF PartialTimeout, TotalTimeout
<1> QED  BY <1>1, <1>2, <1>3, <1>4, <1>5

\* The numbers the order is about.
LEMMA OrderTypes ==
    ASSUME TypeOK
    PROVE  /\ allocs \in Nat /\ Len(wire) \in Nat
           /\ \A k \in 1 .. Len(wire) : wire[k].idx \in Idx /\ wire[k].tag \in Nat
           /\ \A t \in Threads : /\ tag[t] \in Nat /\ idx[t] \in Idx
                                 /\ temp[t].idx \in Idx /\ temp[t].tag \in Nat
           /\ \A i \in Idx : rxbuf[i] \in Nat /\ txbuf[i] \in Nat
<1>1. \A k \in 1 .. Len(wire) : wire[k] \in Frame  BY ElementOfSeq DEF TypeOK
<1>2. Len(wire) \in Nat  BY LenProperties DEF TypeOK
<1> QED  BY <1>1, <1>2, TagNat DEF TypeOK, Frame

\* A request that is new has no answers.
LEMMA AllocOrder ==
    ASSUME IndInv, Ordered, Sound', NEW u \in Threads, AllocIndex(u)
    PROVE  Ordered'
<1>0. TypeOK  BY DEF IndInv
<1>1. /\ wire' = wire /\ rxbuf' = rxbuf /\ txbuf' = txbuf /\ temp' = temp /\ idx' = idx
      /\ allocs' = allocs + 1 /\ tag' = [tag EXCEPT ![u] = allocs + 1]
      /\ pc' = [pc EXCEPT ![u] = "setup"] /\ pc[u] = "alloc" /\ partial' = partial
  BY DEF AllocIndex, Goto
<1>2. /\ \A t \in Threads : t # u => pc'[t] = pc[t] /\ tag'[t] = tag[t]
      /\ pc'[u] = "setup" /\ tag'[u] = allocs + 1
      /\ \A t \in Threads : pc'[t] = "store" <=> pc[t] = "store"
  BY <1>0, <1>1 DEF TypeOK
<1>3. \A i : OnWire(i)' = OnWire(i) /\ InHand(i)' = InHand(i)
  BY <1>1, <1>2 DEF OnWire, InHand
<1>4. InOrder'  BY <1>1, <1>2 DEF Ordered, InOrder, OnWire
<1>5. NotAhead /\ NotAhead'
  <2>1. NotAhead  BY DEF Ordered
  <2> QED  BY <1>0, <1>1, <1>2, <2>1, OrderTypes DEF NotAhead
<1>6. ASSUME NEW t \in Threads, pc'[t] \in OwnerPc PROVE AnswersOf(t)'
  <2>1. CASE t = u
    <3>1. rxbuf[idx[u]] <= allocs /\ rxbuf[idx[u]] \in Nat /\ allocs \in Nat
      BY <1>0, <1>5, OrderTypes DEF NotAhead
    <3>2. \A k \in OnWire(idx[u]) : wire[k].tag <= allocs /\ wire[k].tag \in Nat
      BY <1>0, <1>5, OrderTypes DEF NotAhead, OnWire
    <3>3. \A w \in InHand(idx[u]) : temp[w].tag <= allocs /\ temp[w].tag \in Nat
      BY <1>0, <1>5, OrderTypes DEF NotAhead, InHand
    <3> QED  BY <1>1, <1>2, <1>3, <2>1, <3>1, <3>2, <3>3 DEF AnswersOf
  <2>2. CASE t # u
    <3>1. AnswersOf(t)  BY <1>2, <1>6, <2>2 DEF Ordered
    <3>2. tag[t] <= allocs + 1  BY <1>0, <3>1, OrderTypes DEF AnswersOf
    <3> QED  BY <1>1, <1>2, <1>3, <2>2, <3>1, <3>2 DEF AnswersOf
  <2> QED  BY <2>1, <2>2
<1> QED  BY <1>4, <1>5, <1>6 DEF Ordered

\* The request is written into the owner's buffer.
LEMMA SetupOrder ==
    ASSUME IndInv, Ordered, Sound', NEW u \in Threads, SetupDatagram(u)
    PROVE  Ordered'
<1>0. TypeOK  BY DEF IndInv
<1>1. /\ wire' = wire /\ rxbuf' = rxbuf /\ temp' = temp /\ idx' = idx /\ allocs' = allocs
      /\ tag' = tag /\ partial' = partial /\ txbuf' = [txbuf EXCEPT ![idx[u]] = tag[u]]
      /\ pc' = [pc EXCEPT ![u] = "mark"] /\ pc[u] = "setup"
  BY DEF SetupDatagram, Goto, history
<1>2. /\ \A t \in Threads : t # u => pc'[t] = pc[t]
      /\ pc'[u] = "mark" /\ \A t \in Threads : pc'[t] = "store" <=> pc[t] = "store"
  BY <1>0, <1>1 DEF TypeOK
<1>3. \A i : OnWire(i)' = OnWire(i) /\ InHand(i)' = InHand(i)
  BY <1>1, <1>2 DEF OnWire, InHand
<1>4. InOrder'  BY <1>1, <1>2 DEF Ordered, InOrder, OnWire
<1>5. NotAhead'  BY <1>1, <1>2 DEF Ordered, NotAhead
<1>6. ASSUME NEW t \in Threads, pc'[t] \in OwnerPc PROVE AnswersOf(t)'
  <2>1. AnswersOf(t)  BY <1>1, <1>2, <1>6 DEF Ordered, OwnerPc
  <2>2. CASE t = u
    <3>1. txbuf'[idx[u]] = tag[u]  BY <1>0, <1>1, OrderTypes DEF TypeOK
    <3> QED  BY <1>1, <1>2, <1>3, <2>1, <2>2, <3>1 DEF AnswersOf
  <2>3. CASE t # u
    <3>1. idx[t] # idx[u]
      <4>1. Sound  BY DEF SetupDatagram, Sound, history
      <4> QED  BY <1>0, <1>1, <1>2, <1>6, <2>3, <4>1, OrderTypes
            DEF IndInv, OneOwner, Sound, Holds, OwnerPc
    <3>2. txbuf'[idx[t]] = txbuf[idx[t]]  BY <1>0, <1>1, <3>1, OrderTypes DEF TypeOK
    <3> QED  BY <1>1, <1>2, <1>3, <2>1, <2>3, <3>2 DEF AnswersOf
  <2> QED  BY <2>2, <2>3
<1> QED  BY <1>4, <1>5, <1>6 DEF Ordered

\* The frame that goes out is the youngest of its index.
LEMMA SendOrder ==
    ASSUME IndInv, Ordered, Sound', NEW u \in Threads, Send(u)
    PROVE  Ordered'
<1>0. TypeOK /\ Sound  BY DEF IndInv, Send, Sound, history
<1>1. /\ rxbuf' = rxbuf /\ txbuf' = txbuf /\ temp' = temp /\ idx' = idx /\ allocs' = allocs
      /\ tag' = tag /\ partial' = [partial EXCEPT ![u] = FALSE]
      /\ pc' = [pc EXCEPT ![u] = "wait"] /\ pc[u] = "send"
      /\ wire' = wire \/ wire' = Append(wire, [idx |-> idx[u], tag |-> txbuf[idx[u]]])
  BY DEF Send, StartWait, Goto, history
<1>2. /\ \A t \in Threads : t # u => pc'[t] = pc[t] /\ partial'[t] = partial[t]
      /\ pc'[u] = "wait" /\ \A t \in Threads : pc'[t] = "store" <=> pc[t] = "store"
  BY <1>0, <1>1 DEF TypeOK
<1>3. AnswersOf(u) /\ txbuf[idx[u]] = tag[u]  BY <1>1 DEF Ordered, OwnerPc, AnswersOf
<1> DEFINE n == Len(wire) + 1
<1>4. /\ Len(wire) \in Nat
      /\ \/ wire' = wire
         \/ /\ Len(wire') = n /\ wire'[n].idx = idx[u] /\ wire'[n].tag = tag[u]
            /\ \A k \in 1 .. Len(wire) : wire'[k] = wire[k]
  <2> DEFINE x == [idx |-> idx[u], tag |-> txbuf[idx[u]]]
  <2>1. x.idx = idx[u] /\ x.tag = tag[u]  BY <1>3
  <2>2. wire' = wire \/ wire' = Append(wire, x)  BY <1>1
  <2>3. wire \in Seq(Frame) /\ Len(wire) \in Nat  BY <1>0, OrderTypes DEF TypeOK
  <2>4. x \in Frame  BY <1>0 DEF TypeOK, Frame
  <2> HIDE DEF x
  <2> QED  BY <2>1, <2>2, <2>3, <2>4, AppendProperties
<1>5. \A k \in 1 .. Len(wire') : \/ k \in 1 .. Len(wire) /\ wire'[k] = wire[k]
                                 \/ k = n /\ wire'[k].idx = idx[u] /\ wire'[k].tag = tag[u]
  BY <1>4
<1> HIDE DEF n
<1>6. InOrder'
  <2>1. \A j, k \in 1 .. Len(wire') :
           j < k /\ wire'[j].idx = wire'[k].idx => wire'[j].tag <= wire'[k].tag
    <3> SUFFICES ASSUME NEW j \in 1 .. Len(wire'), NEW k \in 1 .. Len(wire'), j < k,
                        wire'[j].idx = wire'[k].idx
                 PROVE  wire'[j].tag <= wire'[k].tag
      OBVIOUS
    <3>1. j \in 1 .. Len(wire) /\ wire'[j] = wire[j]
      <4>1. k \in 1 .. Len(wire) \/ k = n  BY <1>5
      <4>2. j # n  BY <1>4, <4>1 DEF n
      <4> QED  BY <1>5, <4>2
    <3>2. CASE k \in 1 .. Len(wire) /\ wire'[k] = wire[k]
      BY <3>1, <3>2 DEF Ordered, InOrder
    <3>3. CASE wire'[k].idx = idx[u] /\ wire'[k].tag = tag[u]
      BY <1>3, <3>1, <3>3 DEF AnswersOf, OnWire
    <3> QED  BY <1>5, <3>2, <3>3
  <2>2. ASSUME NEW t \in Threads, pc[t] = "store", NEW k \in OnWire(temp[t].idx)'
        PROVE  temp[t].tag <= wire'[k].tag
    <3>1. k \in 1 .. Len(wire') /\ wire'[k].idx = temp[t].idx  BY <1>1 DEF OnWire
    <3>2. CASE k \in 1 .. Len(wire) /\ wire'[k] = wire[k]
      BY <2>2, <3>1, <3>2 DEF Ordered, InOrder, OnWire
    <3>3. CASE wire'[k].idx = idx[u] /\ wire'[k].tag = tag[u]
      BY <1>3, <2>2, <3>1, <3>3 DEF AnswersOf, InHand
    <3> QED  BY <1>5, <3>1, <3>2, <3>3
  <2> QED  BY <1>1, <1>2, <2>1, <2>2 DEF InOrder
<1>7. NotAhead'
  <2>1. tag[u] <= allocs  BY <1>3 DEF AnswersOf
  <2>2. \A k \in 1 .. Len(wire') : wire'[k].tag <= allocs  BY <1>5, <2>1 DEF Ordered, NotAhead
  <2> QED  BY <1>1, <1>2, <2>2 DEF Ordered, NotAhead
<1>8. ASSUME NEW t \in Threads, pc'[t] \in OwnerPc PROVE AnswersOf(t)'
  <2>1. AnswersOf(t)  BY <1>1, <1>2, <1>8 DEF Ordered, OwnerPc
  <2>2. InHand(idx[t])' = InHand(idx[t])  BY <1>1, <1>2 DEF InHand
  <2>3. CASE t = u
    <3>1. \A k \in OnWire(idx[t])' : (k \in OnWire(idx[t]) /\ wire'[k] = wire[k]) \/ wire'[k].tag = tag[t]
      BY <1>1, <1>5, <2>3 DEF OnWire
    <3>2. \A k \in OnWire(idx[t])' : wire'[k].tag <= tag[t]
      BY <1>0, <2>1, <3>1, OrderTypes DEF AnswersOf
    <3> QED  BY <1>1, <1>2, <2>1, <2>2, <2>3, <3>1, <3>2 DEF AnswersOf
  <2>4. CASE t # u
    <3>1. idx[t] # idx[u]
      BY <1>0, <1>1, <1>2, <1>8, <2>4, OrderTypes DEF IndInv, OneOwner, Sound, Holds, OwnerPc
    <3>2. \A k \in OnWire(idx[t])' : k \in OnWire(idx[t]) /\ wire'[k] = wire[k]
      BY <1>1, <1>5, <3>1 DEF OnWire
    <3> QED  BY <1>1, <1>2, <2>1, <2>2, <2>4, <3>2 DEF AnswersOf
  <2> QED  BY <2>3, <2>4
<1> QED  BY <1>6, <1>7, <1>8 DEF Ordered

\* The oldest frame is gone, and the rest was behind it.
LEMMA Shrinks ==
    ASSUME ReorderDepth = 1, TypeOK, NEW k \in Arrived, wire' = RemoveAt(wire, k)
    PROVE  /\ k = 1 /\ 1 \in 1 .. Len(wire) /\ wire[1] \in Frame
           /\ \A j \in 1 .. Len(wire') : j + 1 \in 1 .. Len(wire) /\ wire'[j] = wire[j + 1]
           /\ \A j \in 1 .. Len(wire') : j \in Nat /\ 1 < j + 1
BY Oldest

\* The order of what is left on the wire.
LEMMA WireShrinks ==
    ASSUME TypeOK, InOrder, NotAhead, allocs' = allocs, rxbuf' = rxbuf \/ \A i \in Idx : rxbuf'[i] <= allocs,
           \A j \in 1 .. Len(wire') : j + 1 \in 1 .. Len(wire) /\ wire'[j] = wire[j + 1]
    PROVE  /\ \A j, k \in 1 .. Len(wire') :
                j < k /\ wire'[j].idx = wire'[k].idx => wire'[j].tag <= wire'[k].tag
           /\ \A k \in 1 .. Len(wire') : wire'[k].tag <= allocs'
           /\ \A i \in Idx : rxbuf'[i] <= allocs'
           /\ \A i : \A k \in OnWire(i)' : k + 1 \in OnWire(i) /\ wire'[k] = wire[k + 1]
<1>1. \A j, k \in 1 .. Len(wire') :
         j < k /\ wire'[j].idx = wire'[k].idx => wire'[j].tag <= wire'[k].tag
  <2> SUFFICES ASSUME NEW j \in 1 .. Len(wire'), NEW k \in 1 .. Len(wire'), j < k,
                      wire'[j].idx = wire'[k].idx
               PROVE  wire'[j].tag <= wire'[k].tag
    OBVIOUS
  <2>1. j + 1 < k + 1  OBVIOUS
  <2> QED  BY <2>1 DEF InOrder
<1> QED  BY <1>1 DEF NotAhead, OnWire

\* The owner takes its frame: what is left of its index is as young.
LEMMA OwnOrder ==
    ASSUME ReorderDepth = 1, IndInv, ReadingInv, Ordered, Sound', NEW u \in Threads, RecvOwn(u)
    PROVE  Ordered'
<1>0. TypeOK /\ Sound  BY DEF IndInv, RecvOwn, Sound, history
<1>1. PICK k \in Arrived :
         /\ wire[k].idx = idx[u] /\ rxbuf' = [rxbuf EXCEPT ![idx[u]] = wire[k].tag]
         /\ wire' = RemoveAt(wire, k)
  BY DEF RecvOwn
<1>2. /\ txbuf' = txbuf /\ temp' = temp /\ idx' = idx /\ allocs' = allocs /\ tag' = tag
      /\ partial' = partial /\ pc' = [pc EXCEPT ![u] = "answered"] /\ pc[u] = "recv"
  BY DEF RecvOwn, Goto, history
<1>3. /\ \A t \in Threads : t # u => pc'[t] = pc[t] /\ pc[t] # "store"
      /\ pc'[u] = "answered" /\ \A t \in Threads : pc[t] # "store" /\ pc'[t] # "store"
  BY <1>0, <1>2 DEF TypeOK, ReadingInv
<1>4. /\ k = 1 /\ 1 \in 1 .. Len(wire) /\ wire[1] \in Frame
      /\ \A j \in 1 .. Len(wire') : j + 1 \in 1 .. Len(wire) /\ wire'[j] = wire[j + 1]
      /\ \A j \in 1 .. Len(wire') : j \in Nat /\ 1 < j + 1
  BY <1>0, <1>1, Shrinks
<1> DEFINE g == wire[1].tag
<1>5. /\ AnswersOf(u) /\ g <= tag[u] /\ g <= allocs /\ g \in Nat
      /\ \A j \in OnWire(idx[u]) : g <= wire[j].tag
  <2>1. AnswersOf(u)  BY <1>2 DEF Ordered, OwnerPc
  <2>2. 1 \in OnWire(idx[u])  BY <1>1, <1>4 DEF OnWire
  <2>3. \A j \in OnWire(idx[u]) : j = 1 \/ 1 < j  BY <1>4 DEF OnWire
  <2>4. \A j \in OnWire(idx[u]) : g <= wire[j].tag
    BY <1>0, <1>1, <1>4, <2>2, <2>3, OrderTypes DEF Ordered, InOrder, OnWire
  <2> QED  BY <1>0, <1>4, <2>1, <2>2, <2>4, OrderTypes DEF Ordered, NotAhead, AnswersOf
<1>6. rxbuf'[idx[u]] = g /\ \A i \in Idx : i # idx[u] => rxbuf'[i] = rxbuf[i]
  BY <1>0, <1>1, <1>4, OrderTypes DEF TypeOK
<1>7. \A i \in Idx : rxbuf'[i] <= allocs  BY <1>5, <1>6 DEF Ordered, NotAhead
<1>8. /\ \A j, m \in 1 .. Len(wire') :
           j < m /\ wire'[j].idx = wire'[m].idx => wire'[j].tag <= wire'[m].tag
      /\ \A m \in 1 .. Len(wire') : wire'[m].tag <= allocs'
      /\ \A i \in Idx : rxbuf'[i] <= allocs'
      /\ \A i : \A m \in OnWire(i)' : m + 1 \in OnWire(i) /\ wire'[m] = wire[m + 1]
  BY <1>0, <1>2, <1>4, <1>7, WireShrinks DEF Ordered
<1>9. InOrder' /\ NotAhead'  BY <1>3, <1>8 DEF InOrder, NotAhead
<1>10. \A i : InHand(i)' = {}  BY <1>3 DEF InHand
<1> HIDE DEF g
<1>11. ASSUME NEW t \in Threads, pc'[t] \in OwnerPc PROVE AnswersOf(t)'
  <2>1. AnswersOf(t)  BY <1>2, <1>3, <1>11 DEF Ordered, OwnerPc
  <2>2. \A m \in OnWire(idx[t])' : wire'[m].tag <= tag[t]  BY <1>2, <1>8, <2>1 DEF AnswersOf
  <2>3. CASE t = u
    <3>1. ASSUME g = tag[u], NEW m \in OnWire(idx[t])' PROVE wire'[m].tag = tag[u]
      <4>1. m + 1 \in OnWire(idx[u]) /\ wire'[m] = wire[m + 1]  BY <1>2, <1>8, <2>3
      <4>2. wire[m + 1].tag <= tag[u] /\ g <= wire[m + 1].tag /\ wire[m + 1].tag \in Nat
        BY <1>0, <1>5, <4>1, OrderTypes DEF AnswersOf, OnWire
      <4>3. tag[u] \in Nat  BY <1>0, OrderTypes
      <4> QED  BY <3>1, <4>1, <4>2, <4>3
    <3> QED  BY <1>2, <1>3, <1>5, <1>6, <1>10, <2>1, <2>2, <2>3, <3>1 DEF AnswersOf
  <2>4. CASE t # u
    <3>1. idx[t] # idx[u] /\ idx[t] \in Idx
      BY <1>0, <1>2, <1>3, <1>11, <2>4, OrderTypes DEF IndInv, OneOwner, Sound, Holds, OwnerPc
    <3>2. rxbuf'[idx[t]] = rxbuf[idx[t]]  BY <1>6, <3>1
    <3> QED  BY <1>2, <1>3, <1>8, <1>10, <2>1, <2>2, <2>4, <3>2 DEF AnswersOf
  <2> QED  BY <2>3, <2>4
<1> QED  BY <1>9, <1>11 DEF Ordered

\* A frame that belongs to another index is taken, or dropped.
LEMMA OtherOrder ==
    ASSUME ReorderDepth = 1, IndInv, ReadingInv, Ordered, Sound', NEW u \in Threads,
           RecvOther(u) \/ RecvStrange(u)
    PROVE  Ordered'
<1>0. TypeOK /\ Sound  BY DEF IndInv, RecvOther, RecvStrange, Sound, history
<1>1. PICK k \in Arrived :
         /\ wire' = RemoveAt(wire, k)
         /\ \/ temp' = temp /\ pc' = [pc EXCEPT ![u] = "timer"]
            \/ temp' = [temp EXCEPT ![u] = wire[k]] /\ pc' = [pc EXCEPT ![u] = "store"]
  BY DEF RecvOther, RecvStrange, Goto
<1>2. /\ txbuf' = txbuf /\ rxbuf' = rxbuf /\ idx' = idx /\ allocs' = allocs /\ tag' = tag
      /\ partial' = partial /\ pc[u] = "recv"
  BY DEF RecvOther, RecvStrange, history
<1>3. /\ \A t \in Threads : t # u => pc'[t] = pc[t]
      /\ pc'[u] \in {"timer", "store"} /\ \A t \in Threads : pc[t] # "store"
  <2>1. /\ \A t \in Threads : t # u => pc'[t] = pc[t]
        /\ pc'[u] \in {"timer", "store"}
    BY <1>0, <1>1 DEF TypeOK
  <2>2. \A t \in Threads : pc[t] # "store"  BY <1>2 DEF ReadingInv
  <2> QED  BY <2>1, <2>2
<1>4. /\ k = 1 /\ 1 \in 1 .. Len(wire) /\ wire[1] \in Frame
      /\ \A j \in 1 .. Len(wire') : j + 1 \in 1 .. Len(wire) /\ wire'[j] = wire[j + 1]
      /\ \A j \in 1 .. Len(wire') : j \in Nat /\ 1 < j + 1
  BY <1>0, <1>1, Shrinks
<1>5. \A t \in Threads : pc'[t] = "store" => t = u /\ temp'[t] = wire[1]
  BY <1>0, <1>1, <1>3, <1>4 DEF TypeOK
<1>6. /\ \A j, m \in 1 .. Len(wire') :
           j < m /\ wire'[j].idx = wire'[m].idx => wire'[j].tag <= wire'[m].tag
      /\ \A m \in 1 .. Len(wire') : wire'[m].tag <= allocs'
      /\ \A i \in Idx : rxbuf'[i] <= allocs'
      /\ \A i : \A m \in OnWire(i)' : m + 1 \in OnWire(i) /\ wire'[m] = wire[m + 1]
  BY <1>0, <1>2, <1>4, WireShrinks DEF Ordered
<1>7. InOrder'
  <2>1. ASSUME NEW m \in 1 .. Len(wire'), wire'[m].idx = wire[1].idx
        PROVE  wire[1].tag <= wire'[m].tag
    <3>1. m + 1 \in 1 .. Len(wire) /\ wire'[m] = wire[m + 1] /\ 1 < m + 1  BY <1>4
    <3> QED  BY <1>4, <2>1, <3>1 DEF Ordered, InOrder
  <2>2. \A t \in Threads : pc'[t] = "store" =>
           \A m \in 1 .. Len(wire') : wire'[m].idx = temp'[t].idx => temp'[t].tag <= wire'[m].tag
    BY <1>5, <2>1
  <2> QED  BY <1>6, <2>2 DEF InOrder, OnWire
<1>8. NotAhead'  BY <1>2, <1>4, <1>5, <1>6 DEF Ordered, NotAhead
<1>9. \A i : \A w \in InHand(i)' : 1 \in OnWire(i) /\ temp'[w] = wire[1]
  BY <1>4, <1>5 DEF InHand, OnWire
<1>10. ASSUME NEW t \in Threads, pc'[t] \in OwnerPc PROVE AnswersOf(t)'
  <2>1. AnswersOf(t)  BY <1>2, <1>3, <1>10 DEF Ordered, OwnerPc
  <2>2. /\ pc'[t] # "setup" => pc[t] # "setup"
        /\ pc'[t] \in {"setup", "mark", "send"} => pc[t] = pc'[t]
    BY <1>2, <1>3
  <2> QED  BY <1>2, <1>6, <1>9, <2>1, <2>2 DEF AnswersOf
<1> QED  BY <1>7, <1>8, <1>10 DEF Ordered

\* The frame that is stored is not older than what the buffer holds of the
\* owner's request.
LEMMA StoreOrder ==
    ASSUME IndInv, ReadingInv, Ordered, Sound', NEW u \in Threads, StoreOther(u)
    PROVE  Ordered'
<1>0. TypeOK /\ Sound  BY DEF IndInv, StoreOther, Sound, history
<1>1. /\ txbuf' = txbuf /\ wire' = wire /\ idx' = idx /\ allocs' = allocs /\ tag' = tag
      /\ partial' = partial /\ pc[u] = "store" /\ pc' = [pc EXCEPT ![u] = "timer"]
      /\ rxbuf' = [rxbuf EXCEPT ![temp[u].idx] = temp[u].tag]
  BY DEF StoreOther, Goto, history
<1>2. /\ \A t \in Threads : t # u => pc'[t] = pc[t]
      /\ pc'[u] = "timer" /\ \A t \in Threads : pc'[t] # "store"
  BY <1>0, <1>1 DEF TypeOK, ReadingInv
<1> DEFINE i == temp[u].idx
           g == temp[u].tag
<1>3. /\ i \in Idx /\ g \in Nat /\ rxbuf'[i] = g /\ \A j \in Idx : j # i => rxbuf'[j] = rxbuf[j]
      /\ g <= allocs /\ u \in InHand(i) /\ \A k \in OnWire(i) : g <= wire[k].tag
  BY <1>0, <1>1, OrderTypes DEF TypeOK, Ordered, NotAhead, InOrder, InHand
<1> HIDE DEF i, g
<1>4. InOrder' /\ NotAhead'  BY <1>1, <1>2, <1>3 DEF Ordered, InOrder, NotAhead
<1>5. /\ \A j : OnWire(j)' = OnWire(j) /\ InHand(j)' = {}
  BY <1>1, <1>2 DEF OnWire, InHand
<1>6. ASSUME NEW t \in Threads, pc'[t] \in OwnerPc PROVE AnswersOf(t)'
  <2>1. AnswersOf(t)  BY <1>1, <1>2, <1>6 DEF Ordered, OwnerPc
  <2>2. /\ pc'[t] # "setup" => pc[t] # "setup"
        /\ pc'[t] \in {"setup", "mark", "send"} => pc[t] = pc'[t]
    BY <1>1, <1>2
  <2>3. CASE idx[t] = i
    <3>1. g <= tag[t]  BY <1>3, <2>1, <2>3 DEF AnswersOf, InHand, g
    <3>2. ASSUME g = tag[t], NEW k \in OnWire(idx[t]) PROVE wire[k].tag = tag[t]
      <4>1. g <= wire[k].tag /\ wire[k].tag <= tag[t]  BY <1>3, <2>1, <2>3, <3>2 DEF AnswersOf
      <4>2. wire[k].tag \in Nat /\ tag[t] \in Nat  BY <1>0, <3>2, OrderTypes DEF OnWire
      <4> QED  BY <3>2, <4>1, <4>2
    <3>3. pc[t] \in {"setup", "mark", "send"} /\ ~partial[t] => g # tag[t]
      BY <1>3, <2>1, <2>3 DEF AnswersOf, g
    <3> QED  BY <1>1, <1>3, <1>5, <2>1, <2>2, <2>3, <3>1, <3>2, <3>3 DEF AnswersOf
  <2>4. CASE idx[t] # i
    <3>1. rxbuf'[idx[t]] = rxbuf[idx[t]]  BY <1>0, <1>3, <2>4, OrderTypes
    <3> QED  BY <1>1, <1>5, <2>1, <2>2, <3>1 DEF AnswersOf
  <2> QED  BY <2>3, <2>4
<1> QED  BY <1>4, <1>6 DEF Ordered

\* The order is there at the start.
LEMMA InitOrder == Init => OrderInv
<1> SUFFICES ASSUME Init PROVE OrderInv  OBVIOUS
<1>1. Len(wire) = 0  BY DEF Init
<1>2. ReadingInv  BY DEF Init, ReadingInv
<1>3. InOrder /\ NotAhead  BY <1>1 DEF Init, InOrder, NotAhead
<1>4. \A t \in Threads : pc[t] \notin OwnerPc  BY DEF Init, OwnerPc
<1> QED  BY <1>2, <1>3, <1>4 DEF OrderInv, Ordered

\* Every step keeps it when frames come in order.
LEMMA NextOrder ==
    ASSUME ReorderDepth = 1, IndInv, OrderInv, [Next]_vars
    PROVE  OrderInv'
<1>1. ReadingInv'  BY StepReading DEF IndInv, OrderInv
<1> SUFFICES ASSUME Sound' PROVE Ordered'  BY <1>1 DEF OrderInv
<1>2. Sound
  <2>1. CASE \E t \in Threads : AllocIndex(t)  BY <2>1 DEF AllocIndex, Sound
  <2>2. CASE ~ \E t \in Threads : AllocIndex(t)  BY <2>2, QuietSteps DEF Quiet
  <2> QED  BY <2>1, <2>2
<1>3. Ordered /\ ReadingInv  BY <1>2 DEF OrderInv
<1>4. CASE UNCHANGED vars
  <2>1. /\ wire' = wire /\ rxbuf' = rxbuf /\ txbuf' = txbuf /\ temp' = temp
        /\ allocs' = allocs /\ tag' = tag /\ pc' = pc /\ idx' = idx /\ partial' = partial
    BY <1>4 DEF vars, locals, history
  <2> QED  BY <1>3, <2>1, OrderStands
<1>5. ASSUME NEW u \in Threads,
             \/ EnterGetIndex(u) \/ ScanNext(u) \/ ScanEnd(u) \/ MarkTx(u)
             \/ TakeBuffered(u) \/ NotBuffered(u) \/ EnterRx(u) \/ RecvNothing(u)
             \/ WaitOn(u) \/ Resend(u) \/ GiveUp(u) \/ CopyAnswer(u) \/ Release(u)
             \/ PartialTimeout(u) \/ TotalTimeout(u)
      PROVE Ordered'
  BY <1>3, <1>5, StandingSteps, OrderStands
<1>6. ASSUME NEW u \in Threads, AllocIndex(u) PROVE Ordered'  BY <1>3, <1>6, AllocOrder
<1>7. ASSUME NEW u \in Threads, SetupDatagram(u) PROVE Ordered'  BY <1>3, <1>7, SetupOrder
<1>8. ASSUME NEW u \in Threads, Send(u) PROVE Ordered'  BY <1>3, <1>8, SendOrder
<1>9. ASSUME NEW u \in Threads, SendError(u) PROVE Ordered'  BY <1>9 DEF SendError, Sound
<1>10. ASSUME NEW u \in Threads, RecvOwn(u) PROVE Ordered'  BY <1>3, <1>10, OwnOrder
<1>11. ASSUME NEW u \in Threads, RecvOther(u) \/ RecvStrange(u) PROVE Ordered'
  BY <1>3, <1>11, OtherOrder
<1>12. ASSUME NEW u \in Threads, StoreOther(u) PROVE Ordered'  BY <1>3, <1>12, StoreOrder
<1> QED
  BY <1>4, <1>5, <1>6, <1>7, <1>8, <1>9, <1>10, <1>11, <1>12 DEF Next, Operation

\* With the order no step destroys an answer that its owner still wants.
LEMMA KeepsAnswer ==
    ASSUME ReorderDepth = 1, IndInv, OrderInv, [Next]_vars, NEW t \in Threads,
           HasAnswer(t), pc[t] = "answered" \/ ~partial[t], Sound'
    PROVE  HasAnswer(t)' \/ pc'[t] = "idle"
<1>0. Sound
  <2>1. CASE \E u \in Threads : AllocIndex(u)  BY <2>1 DEF AllocIndex, Sound
  <2>2. CASE ~ \E u \in Threads : AllocIndex(u)  BY <2>2, QuietSteps DEF Quiet
  <2> QED  BY <2>1, <2>2
<1>1. /\ pc[t] \in OwnerPc /\ rxbufstat[idx[t]] \in {"RCVD", "COMPLETE"}
      /\ rxbuf[idx[t]] = tag[t] /\ AnswersOf(t) /\ idx[t] \in Idx
  BY <1>0, OrderTypes DEF HasAnswer, OrderInv, Ordered, IndInv
<1>2. \A u \in Threads : u # t /\ pc[u] \in OwnerPc \cup {"alloc"} => idx[u] # idx[t]
  BY <1>0, <1>1 DEF IndInv, OneOwner, OwnedInv, Sound, Holds
<1>3. TypeOK  BY DEF IndInv
<1> DEFINE Goal == HasAnswer(t)' \/ pc'[t] = "idle"
<1> USE <1>1, <1>3 DEF HasAnswer, TypeOK, OwnerPc, Goto, SetStat, locals, history
<1>4. CASE UNCHANGED vars  BY <1>4 DEF vars
<1>5. ASSUME NEW u \in Threads, EnterGetIndex(u) \/ ScanNext(u) \/ ScanEnd(u) PROVE Goal
  BY <1>5 DEF EnterGetIndex, ScanNext, ScanEnd
<1>6. ASSUME NEW u \in Threads, AllocIndex(u) PROVE Goal
  BY <1>2, <1>6 DEF AllocIndex
<1>7. ASSUME NEW u \in Threads, SetupDatagram(u) PROVE Goal
  BY <1>7 DEF SetupDatagram
<1>8. ASSUME NEW u \in Threads, MarkTx(u) PROVE Goal
  <2>1. u # t  BY <1>8 DEF MarkTx, AnswersOf
  <2> QED  BY <1>2, <1>8, <2>1 DEF MarkTx
<1>9. ASSUME NEW u \in Threads, Send(u) \/ SendError(u) PROVE Goal
  BY <1>9 DEF Send, SendError, StartWait, Sound
<1>10. ASSUME NEW u \in Threads, TakeBuffered(u) PROVE Goal
  BY <1>2, <1>10 DEF TakeBuffered
<1>11. ASSUME NEW u \in Threads, NotBuffered(u) \/ EnterRx(u) \/ RecvNothing(u) PROVE Goal
  BY <1>11 DEF NotBuffered, EnterRx, RecvNothing
<1>12. ASSUME NEW u \in Threads, RecvOwn(u) PROVE Goal
  <2>1. PICK k \in Arrived :
           wire[k].idx = idx[u] /\ rxbuf' = [rxbuf EXCEPT ![idx[u]] = wire[k].tag]
    BY <1>12 DEF RecvOwn
  <2>2. /\ rxbufstat' = [rxbufstat EXCEPT ![idx[u]] = "COMPLETE"] /\ idx' = idx /\ tag' = tag
        /\ pc' = [pc EXCEPT ![u] = "answered"] /\ pc[u] = "recv"
    BY <1>12 DEF RecvOwn
  <2>3. CASE u = t
    <3>1. k \in OnWire(idx[t])  BY <2>1, <2>3 DEF Arrived, OnWire
    <3>2. wire[k].tag = tag[t]  BY <3>1 DEF AnswersOf
    <3> QED  BY <2>1, <2>2, <2>3, <3>2
  <2>4. CASE u # t
    <3>1. idx[u] # idx[t]  BY <1>2, <2>2, <2>4
    <3> QED  BY <2>1, <2>2, <2>4, <3>1
  <2> QED  BY <2>3, <2>4
<1>13. ASSUME NEW u \in Threads, RecvOther(u) \/ RecvStrange(u) PROVE Goal
  BY <1>13 DEF RecvOther, RecvStrange
<1>14. ASSUME NEW u \in Threads, StoreOther(u) PROVE Goal
  <2>1. /\ rxbufstat' = [rxbufstat EXCEPT ![temp[u].idx] = "RCVD"]
        /\ rxbuf' = [rxbuf EXCEPT ![temp[u].idx] = temp[u].tag]
        /\ idx' = idx /\ tag' = tag /\ pc' = [pc EXCEPT ![u] = "timer"] /\ pc[u] = "store"
    BY <1>14 DEF StoreOther
  <2>2. temp[u].idx = idx[t] => temp[u].tag = tag[t]  BY <2>1 DEF AnswersOf, InHand
  <2> QED  BY <2>1, <2>2
<1>15. ASSUME NEW u \in Threads, WaitOn(u) \/ Resend(u) \/ GiveUp(u) \/ CopyAnswer(u) PROVE Goal
  BY <1>15 DEF WaitOn, Resend, GiveUp, CopyAnswer
<1>16. ASSUME NEW u \in Threads, Release(u) PROVE Goal
  <2>1. CASE u = t  BY <1>16, <2>1 DEF Release
  <2>2. CASE u # t  BY <1>2, <1>16, <2>2 DEF Release
  <2> QED  BY <2>1, <2>2
<1>17. ASSUME NEW u \in Threads, PartialTimeout(u) \/ TotalTimeout(u) PROVE Goal
  BY <1>17 DEF PartialTimeout, TotalTimeout
<1> QED
  BY <1>4, <1>5, <1>6, <1>7, <1>8, <1>9, <1>10, <1>11, <1>12, <1>13, <1>14, <1>15,
     <1>16, <1>17
  DEF Next, Operation

\* When frames come back in the order they were sent in, an answer that is in
\* the buffer is not destroyed before the owner takes it or its timer runs out:
\* neither by a late frame of an earlier request that another thread reads and
\* stores, nor by the owner's own look at the socket (ecx_inframe), for any
\* number of threads and buffers.
THEOREM AnswersAreKept ==
    ASSUME ReorderDepth = 1
    PROVE  Spec => AnswerKept
<1>1. Spec => []OrderInv  BY SpecInd, InitOrder, NextOrder, PTL DEF Spec
<1>2. IndInv /\ OrderInv /\ [Next]_vars =>
        [\A t \in Threads :
            HasAnswer(t) /\ (pc[t] = "answered" \/ ~partial[t]) /\ ~exhausted' /\ ~sendFailed'
              => HasAnswer(t)' \/ pc'[t] = "idle"]_vars
  BY KeepsAnswer DEF Sound
<1> QED  BY SpecInd, <1>1, <1>2, PTL DEF Spec, AnswerKept
=============================================================================
