---------------------------- MODULE Base_proofs ----------------------------
(***************************************************************************)
(* The parts of SOEM that everything else rests on: its error list, its    *)
(* clock, and the redundant port of its frame driver.                      *)
(*                                                                         *)
(* The error ring implements the bounded queue, for every size of the ring *)
(* and every set of errors.  The refinement reads the queue off the ring   *)
(* (Pending); the lemmas say how each call moves that reading, and what    *)
(* the texts made of its entries tell (Reports.tla).                       *)
(*                                                                         *)
(* Behind it, the time that an entry of the ring is stamped with           *)
(* (Osal.tla), which the timers of the drivers use as well: they wait as   *)
(* long as they are told to.                                               *)
(*                                                                         *)
(* Last, the redundant port with either driver (MuxDrv.tla), for rings of  *)
(* any size, any requests and any number of breaks, losses and attempts.   *)
(* IInv says which frames can be where, what they have passed and that     *)
(* every slave they passed has done its part; Course how the exchange goes *)
(* that nothing disturbs, for each of the N + 1 links that may be broken.  *)
(***************************************************************************)
EXTENDS Reports, Osal, MuxDrv, FiniteSetTheorems, SequenceTheorems, WellFoundedInduction, TLAPS

Entry == Errors \cup {NoError}

LEMMA InitType == RingInit => RingTypeOK
<1> SUFFICES ASSUME RingInit PROVE RingTypeOK  OBVIOUS
<1>1. 0 \in Slot  BY RingAssumption DEF Slot
<1>2. Error \in [Slot -> [ec : Errors \cup {NoError}, signal : BOOLEAN]]
  BY DEF RingInit
<1>3. popped \in [ok : BOOLEAN, ec : Errors \cup {NoError}]  BY DEF RingInit
<1> QED  BY <1>1, <1>2, <1>3 DEF RingInit, RingTypeOK

LEMMA StepType == RingTypeOK /\ [RingNext]_ringVars => RingTypeOK'
<1> SUFFICES ASSUME RingTypeOK, [RingNext]_ringVars PROVE RingTypeOK'  OBVIOUS
<1> USE RingAssumption DEF RingTypeOK, Slot
<1>1. CASE UNCHANGED ringVars  BY <1>1 DEF ringVars
<1>2. ASSUME NEW e \in Errors, pusherror(e) PROVE RingTypeOK'
  BY <1>2 DEF pusherror, Wrap
<1>3. CASE poperror
  <2>1. Wrap(tail + 1) \in Slot  BY DEF Wrap
  <2>2. Error[tail].ec \in Errors \cup {NoError}  OBVIOUS
  <2>3. Error' \in [Slot -> [ec : Errors \cup {NoError}, signal : BOOLEAN]]
    BY <1>3 DEF poperror
  <2>4. popped' \in [ok : BOOLEAN, ec : Errors \cup {NoError}]
    BY <1>3, <2>2 DEF poperror, iserror
  <2>5. ecaterror' \in BOOLEAN  BY <1>3 DEF poperror, iserror
  <2> QED  BY <1>3, <2>1, <2>3, <2>4, <2>5 DEF poperror
<1> QED  BY <1>1, <1>2, <1>3 DEF RingNext

\* The indices, the entries and the last result stay in range.
THEOREM TypeCorrect == RingSpec => []RingTypeOK
BY InitType, StepType, PTL DEF RingSpec

-----------------------------------------------------------------------------
\* The reading of the ring is a sequence whose length and entries are known.
LEMMA PendingSeq ==
    ASSUME RingTypeOK
    PROVE  /\ Count \in 0 .. MAXELIST
           /\ Pending \in Seq(Entry)
           /\ Len(Pending) = Count
           /\ \A k \in 1 .. Count : At(k) \in Slot /\ Pending[k] = Error[At(k)].ec
           /\ iserror <=> Count > 0
<1> USE RingAssumption DEF RingTypeOK, Slot
<1>1. Count \in 0 .. MAXELIST /\ (iserror <=> Count > 0)  BY DEF Count, iserror
<1>2. \A k \in 1 .. Count : At(k) \in Slot  BY <1>1 DEF Count, At
<1>3. \A k \in 1 .. Count : Error[At(k)].ec \in Entry  BY <1>2 DEF Entry
<1>4. Pending \in [1 .. Count -> Entry]  BY <1>3 DEF Pending
<1>5. Pending \in Seq(Entry) /\ Len(Pending) = Count  BY <1>1, <1>4
<1> QED  BY <1>1, <1>2, <1>5 DEF Pending

LEMMA PendingSeqPrime ==
    ASSUME RingTypeOK'
    PROVE  /\ Count' \in 0 .. MAXELIST
           /\ Pending' \in Seq(Entry)
           /\ Len(Pending') = Count'
           /\ \A k \in 1 .. Count' :
                At(k)' \in Slot /\ Pending'[k] = Error'[At(k)'].ec
<1> USE RingAssumption DEF RingTypeOK, Slot
<1>1. Count' \in 0 .. MAXELIST
  <2>1. \A h, t \in Slot : (IF h >= t THEN h - t ELSE h - t + MAXELIST + 1)
                            \in 0 .. MAXELIST
    OBVIOUS
  <2> QED  BY <2>1 DEF Count
<1>2. \A k \in 1 .. Count' : At(k)' \in Slot
  <2>1. \A h, t \in Slot : \A k \in 1 .. MAXELIST :
           (IF t + k - 1 > MAXELIST THEN t + k - 1 - (MAXELIST + 1)
                                    ELSE t + k - 1) \in Slot
    OBVIOUS
  <2>2. \A k \in 1 .. Count' : k \in 1 .. MAXELIST  BY <1>1
  <2> QED  BY <2>1, <2>2 DEF At
<1>3. \A k \in 1 .. Count' : Error'[At(k)'].ec \in Entry  BY <1>2 DEF Entry
<1>4. Pending' = [k \in 1 .. Count' |-> Error'[At(k)'].ec]  BY DEF Pending
<1>5. Pending' \in [1 .. Count' -> Entry]  BY <1>3, <1>4
<1>6. Pending' \in Seq(Entry) /\ Len(Pending') = Count'  BY <1>1, <1>5
<1> QED  BY <1>1, <1>2, <1>4, <1>6

\* ecx_pusherror on a ring that is not full appends.
LEMMA PushNotFull ==
    ASSUME RingTypeOK, RingTypeOK', NEW e \in Errors, pusherror(e), Count # MAXELIST
    PROVE  Pending' = Append(Pending, e)
<1> USE RingAssumption DEF RingTypeOK, Slot
<1>1. Count \in 0 .. MAXELIST - 1  BY PendingSeq
<1>2. tail' = tail  BY <1>1 DEF pusherror, Wrap, Count
<1>3. Count' = Count + 1  BY <1>1, <1>2 DEF pusherror, Wrap, Count
<1>4. \A k \in 1 .. Count + 1 : At(k)' = At(k)  BY <1>2 DEF At
<1>5. At(Count + 1) = head  BY <1>1 DEF At, Count
<1>6. \A k \in 1 .. Count : At(k) # head  BY <1>1 DEF At, Count
<1>7. \A k \in 1 .. Count : Pending'[k] = Pending[k]
  BY <1>1, <1>3, <1>4, <1>6, PendingSeq, PendingSeqPrime DEF pusherror
<1>8. Pending'[Count + 1] = e
  BY <1>1, <1>3, <1>4, <1>5, PendingSeqPrime DEF pusherror
<1>9. e \in Entry  BY DEF Entry
<1>10. /\ Append(Pending, e) \in Seq(Entry)
       /\ Len(Append(Pending, e)) = Count + 1
       /\ \A k \in 1 .. Count : Append(Pending, e)[k] = Pending[k]
       /\ Append(Pending, e)[Count + 1] = e
  BY <1>9, PendingSeq
<1>11. \A k \in 1 .. Len(Pending') : Pending'[k] = Append(Pending, e)[k]
  BY <1>1, <1>3, <1>7, <1>8, <1>10, PendingSeqPrime
<1> HIDE DEF RingTypeOK
<1> QED  BY <1>3, <1>10, <1>11, SeqEqual, PendingSeqPrime

\* ecx_pusherror on a full ring appends and drops the oldest error.
LEMMA PushFull ==
    ASSUME RingTypeOK, RingTypeOK', NEW e \in Errors, pusherror(e), Count = MAXELIST
    PROVE  Pending' = Append(Tail(Pending), e)
<1> USE RingAssumption DEF RingTypeOK, Slot
<1>1. tail' = Wrap(tail + 1)  BY DEF pusherror, Wrap, Count
<1>2. Count' = MAXELIST  BY <1>1 DEF pusherror, Wrap, Count
<1>3. \A k \in 1 .. MAXELIST - 1 : At(k)' = At(k + 1)  BY <1>1 DEF At, Wrap
<1>4. At(MAXELIST)' = head  BY <1>1 DEF At, Wrap, Count
<1>5. \A k \in 1 .. MAXELIST - 1 : At(k + 1) # head  BY DEF At, Count
<1>6. \A k \in 1 .. MAXELIST - 1 : Pending'[k] = Pending[k + 1]
  BY <1>2, <1>3, <1>5, PendingSeq, PendingSeqPrime DEF pusherror
<1>7. Pending'[MAXELIST] = e
  BY <1>2, <1>4, PendingSeqPrime DEF pusherror
<1>8. e \in Entry  BY DEF Entry
<1>9. /\ Tail(Pending) \in Seq(Entry) /\ Len(Tail(Pending)) = MAXELIST - 1
      /\ \A k \in 1 .. MAXELIST - 1 : Tail(Pending)[k] = Pending[k + 1]
  <2>1. Pending # <<>>  BY PendingSeq, EmptySeq
  <2> QED  BY <2>1, PendingSeq, HeadTailProperties
<1>10. /\ Append(Tail(Pending), e) \in Seq(Entry)
       /\ Len(Append(Tail(Pending), e)) = MAXELIST
       /\ \A k \in 1 .. MAXELIST - 1 :
            Append(Tail(Pending), e)[k] = Tail(Pending)[k]
       /\ Append(Tail(Pending), e)[MAXELIST] = e
  BY <1>8, <1>9
<1>11. \A k \in 1 .. Len(Pending') : Pending'[k] = Append(Tail(Pending), e)[k]
  <2>1. Len(Pending') = MAXELIST /\ MAXELIST \in Nat  BY <1>2, PendingSeqPrime
  <2>2. \A k \in 1 .. MAXELIST : k \in 1 .. MAXELIST - 1 \/ k = MAXELIST  BY <2>1
  <2> QED  BY <1>6, <1>7, <1>9, <1>10, <2>1, <2>2, Zenon
<1> HIDE DEF RingTypeOK
<1> QED  BY <1>2, <1>10, <1>11, SeqEqual, PendingSeqPrime

\* ecx_poperror takes the oldest error off a ring that is not empty.
LEMMA Pop ==
    ASSUME RingTypeOK, RingTypeOK', poperror, iserror
    PROVE  /\ Pending # <<>>
           /\ popped' = [ok |-> TRUE, ec |-> Head(Pending)]
           /\ Pending' = Tail(Pending)
<1> USE RingAssumption DEF RingTypeOK, Slot
<1>1. Count \in 1 .. MAXELIST  BY PendingSeq
<1>2. Pending # <<>>  BY <1>1, PendingSeq, EmptySeq
<1>3. tail' = Wrap(tail + 1)  BY DEF poperror
<1>4. Count' = Count - 1  BY <1>1, <1>3 DEF poperror, Wrap, Count
<1>5. \A k \in 1 .. Count - 1 : At(k)' = At(k + 1)
  BY <1>1, <1>3 DEF At, Wrap
<1>6. \A i \in Slot : Error'[i].ec = Error[i].ec  BY DEF poperror
<1>7. \A k \in 1 .. Count - 1 : Pending'[k] = Pending[k + 1]
  BY <1>1, <1>4, <1>5, <1>6, PendingSeq, PendingSeqPrime
<1>8. /\ Tail(Pending) \in Seq(Entry) /\ Len(Tail(Pending)) = Count - 1
      /\ \A k \in 1 .. Count - 1 : Tail(Pending)[k] = Pending[k + 1]
  BY <1>1, <1>2, PendingSeq, HeadTailProperties
<1>9. Head(Pending) = Error[tail].ec
  <2>1. At(1) = tail  BY DEF At
  <2> QED  BY <1>1, <1>2, <2>1, PendingSeq
<1>10. \A k \in 1 .. Len(Pending') : Pending'[k] = Tail(Pending)[k]
  BY <1>1, <1>4, <1>7, <1>8, PendingSeqPrime
<1>11. popped' = [ok |-> TRUE, ec |-> Error[tail].ec]  BY DEF poperror
<1> HIDE DEF RingTypeOK
<1>12. Pending' = Tail(Pending)  BY <1>4, <1>8, <1>10, SeqEqual, PendingSeqPrime
<1> QED  BY <1>2, <1>9, <1>11, <1>12

\* ecx_poperror on an empty ring changes nothing but the flag and the result.
LEMMA PopEmpty ==
    ASSUME RingTypeOK, RingTypeOK', poperror, ~iserror
    PROVE  /\ Pending = <<>>
           /\ Pending' = <<>>
           /\ popped'.ok = FALSE /\ ecaterror' = FALSE
<1>1. Count = 0  BY PendingSeq
<1>2. Pending = <<>>  BY <1>1, PendingSeq, EmptySeq
<1>3. Count' = 0
  BY RingAssumption DEF poperror, iserror, Count, RingTypeOK, Slot
<1>4. Pending' = <<>>  BY <1>3, PendingSeqPrime, EmptySeq
<1> QED  BY <1>2, <1>4 DEF poperror, RingTypeOK

-----------------------------------------------------------------------------
\* The ring starts as the empty queue, and every call is a step of the queue.
THEOREM RingImplementsQueue == RingSpec => ImplementsQueue
<1>1. RingInit => Queue!Init
  <2> SUFFICES ASSUME RingInit PROVE Queue!Init  OBVIOUS
  <2>1. RingTypeOK  BY InitType
  <2>2. Count = 0  BY DEF RingInit, Count
  <2>3. Pending = <<>>  BY <2>1, <2>2, PendingSeq, EmptySeq
  <2> QED  BY <2>3 DEF RingInit, Queue!Init
<1>2. RingTypeOK /\ RingTypeOK' /\ [RingNext]_ringVars => [Queue!Next]_Queue!vars
  <2> SUFFICES ASSUME RingTypeOK, RingTypeOK', [RingNext]_ringVars
               PROVE  [Queue!Next]_Queue!vars
    OBVIOUS
  <2>1. CASE UNCHANGED ringVars
    BY <2>1 DEF ringVars, Queue!vars, Pending, Count, At
  <2>2. ASSUME NEW e \in Errors, pusherror(e) PROVE Queue!Report(e)
    <3>1. CASE Count = MAXELIST
      BY <2>2, <3>1, PushFull, PendingSeq DEF pusherror, Queue!Report
    <3>2. CASE Count # MAXELIST
      BY <2>2, <3>2, PushNotFull, PendingSeq DEF pusherror, Queue!Report
    <3> QED  BY <3>1, <3>2
  <2>3. CASE poperror /\ iserror
    BY <2>3, Pop DEF poperror, Queue!Next, Queue!Read, RingTypeOK
  <2>4. CASE poperror /\ ~iserror
    BY <2>4, PopEmpty DEF Queue!Next, Queue!ReadEmpty
  <2> QED  BY <2>1, <2>2, <2>3, <2>4 DEF RingNext, Queue!Next
<1> QED  BY <1>1, <1>2, TypeCorrect, PTL DEF RingSpec, ImplementsQueue, Queue!Spec

-----------------------------------------------------------------------------
(* Time.                                                                   *)

\* Division with rest, as the lemmas below use it.
LEMMA Division ==
    ASSUME NEW L \in Nat, L > 0, NEW x \in Int
    PROVE  \E q \in Int, r \in Int : x = q * L + r /\ 0 <= r /\ r < L /\ r = x % L
BY SMTT(30)

\* Multiplication distributes.
LEMMA Distributes ==
    ASSUME NEW L \in Int, NEW a \in Int, NEW b \in Int, NEW c \in Int
    PROVE  /\ (a - b + c) * L = a * L - b * L + c * L
           /\ (-a) * L = -(a * L)
           /\ (-a - 1) * L = -(a * L) - L
<1>1. (a - b + c) * L = a * L - b * L + c * L
  BY SMTT(30)
<1>2. (-a) * L = -(a * L)
  BY SMTT(30)
<1>3. (-a - 1) * L = -(a * L) - L
  BY SMTT(30)
<1> QED
  BY <1>1, <1>2, <1>3

\* A multiple of L that is nearer to 0 than L is 0.
LEMMA NoMultiple ==
    ASSUME NEW L \in Nat, L > 0, NEW d \in Int, -L < d * L, d * L < L
    PROVE  d = 0
<1>1. ASSUME NEW e \in Int, e >= 1 PROVE e * L >= L
  BY <1>1, SMTT(30)
<1>2. (-d) * L = -(d * L)
  BY Distributes
<1> QED
  BY <1>1, <1>2, SMT

\* A rest does not change when multiples of the divisor are added.
LEMMA Period ==
    ASSUME NEW L \in Nat, L > 0, NEW x \in Int, NEW k \in Int
    PROVE  (x + k * L) % L = x % L
<1>1. PICK q \in Int, r \in Int : x = q * L + r /\ 0 <= r /\ r < L /\ r = x % L
  BY Division
<1>2. x + k * L \in Int
  BY SMT
<1>3. PICK p \in Int, s \in Int : /\ x + k * L = p * L + s
                                  /\ 0 <= s /\ s < L /\ s = (x + k * L) % L
  BY <1>2, Division
<1>4. q * L \in Int /\ p * L \in Int /\ k * L \in Int
  BY SMT
<1>5. (q - p + k) * L = q * L - p * L + k * L
  BY Distributes
<1>6. (q - p + k) * L = s - r
  BY <1>1, <1>3, <1>4, <1>5, SMTT(30)
<1>7. q - p + k = 0
  BY <1>1, <1>3, <1>6, NoMultiple, SMTT(30)
<1>8. s - r = 0
  BY <1>6, <1>7, SMT
<1> QED
  BY <1>1, <1>3, <1>8, SMT

\* A number that a long can hold is kept.
LEMMA LongKeeps ==
    ASSUME NEW x \in Nat, x < LONG \div 2
    PROVE  Long(x) = x
<1>1. PICK q \in Int, r \in Int : x = q * LONG + r /\ 0 <= r /\ r < LONG /\ r = x % LONG
  BY Division, OsalAssumption
<1>2. LONG \in Nat /\ x < LONG
  BY OsalAssumption, SMT DEF OsalAssumption
<1>3. q * LONG \in Int
  BY <1>2, SMT
<1>4. -LONG < q * LONG /\ q * LONG < LONG
  BY <1>1, <1>2, <1>3, SMT
<1>5. q = 0
  BY <1>2, <1>4, NoMultiple, SMT
<1>6. x % LONG = x
  BY <1>1, <1>2, <1>5, SMT
<1> QED
  BY <1>6 DEF Long

\* What a long loses of a number is a multiple of its range.
LEMMA LongLoses ==
    ASSUME NEW x \in Int
    PROVE  \E k \in Int : Long(x) = x + k * LONG
<1>1. PICK q \in Int, r \in Int : x = q * LONG + r /\ 0 <= r /\ r < LONG /\ r = x % LONG
  BY Division, OsalAssumption, SMT DEF OsalAssumption
<1> DEFINE A == q * LONG
           B == (-q) * LONG
           C == (-q - 1) * LONG
<1>2. x = A + r /\ LONG \in Nat /\ A \in Int /\ B \in Int /\ C \in Int
  BY <1>1, OsalAssumption, SMT DEF OsalAssumption
<1>3. B = -A /\ C = -A - LONG
  BY <1>2, Distributes
<1> HIDE DEF A, B, C
<1>4. r = x + B /\ r - LONG = x + C
  BY <1>2, <1>3, SMT
<1>5. Long(x) = r \/ Long(x) = r - LONG
  BY <1>1 DEF Long
<1> QED
  BY <1>4, <1>5 DEF B, C

\* Seconds and microseconds of a counter.
LEMMA PartsOf ==
    ASSUME NEW u \in Nat
    PROVE  /\ u = USECS_PER_SEC * (u \div USECS_PER_SEC) + (u % USECS_PER_SEC)
           /\ u \div USECS_PER_SEC \in Nat
           /\ u % USECS_PER_SEC \in Nat /\ u % USECS_PER_SEC < USECS_PER_SEC
<1>1. u = USECS_PER_SEC * (u \div USECS_PER_SEC) + (u % USECS_PER_SEC)
  BY SMTT(30) DEF USECS_PER_SEC
<1>2. u \div USECS_PER_SEC \in Nat
  BY SMTT(30) DEF USECS_PER_SEC
<1>3. u % USECS_PER_SEC \in Nat /\ u % USECS_PER_SEC < USECS_PER_SEC
  BY SMTT(30) DEF USECS_PER_SEC
<1> QED
  BY <1>1, <1>2, <1>3

\* A microsecond counter of up to 68 years is taken apart without error,
\* although the product of its seconds overflows (osal_getrelativetime).
THEOREM ClockTheorem == \A u \in Nat : ClockIsTrue(u)
<1> SUFFICES ASSUME NEW u \in Nat, u \div USECS_PER_SEC < LONG \div 2
             PROVE  timeval(u) = Parts(u)
  BY DEF ClockIsTrue, InRange
<1> DEFINE sec == u \div USECS_PER_SEC
           usec == u % USECS_PER_SEC
<1>1. /\ u = USECS_PER_SEC * sec + usec
      /\ sec \in Nat /\ usec \in Nat /\ usec < USECS_PER_SEC
  BY PartsOf
<1>2. Long(sec) = sec
  BY <1>1, LongKeeps
<1> HIDE DEF sec, usec
<1>3. PICK k \in Int : Long(sec * USECS_PER_SEC) = sec * USECS_PER_SEC + k * LONG
  BY <1>1, LongLoses, SMT DEF USECS_PER_SEC
<1> DEFINE A == k * LONG
           B == (-k) * LONG
<1>4. LONG \in Nat /\ LONG > 0 /\ A \in Int /\ B \in Int /\ B = -A
  BY OsalAssumption, Distributes, SMT DEF OsalAssumption
<1>5. Long(sec * USECS_PER_SEC) = sec * USECS_PER_SEC + A
  BY <1>3
<1> HIDE DEF A, B
<1>6. u - Long(sec * USECS_PER_SEC) = usec + B
  BY <1>1, <1>5, <1>4, SMT DEF USECS_PER_SEC
<1>7. usec \in Int /\ -k \in Int
  BY <1>1, SMT
<1>8. (usec + B) % LONG = usec % LONG
  BY <1>7, <1>4, Period DEF B
<1>9. Long(usec + B) = Long(usec)
  BY <1>8 DEF Long
<1>10. usec < LONG \div 2
  BY <1>1, OsalAssumption, SMT DEF OsalAssumption, USECS_PER_SEC
<1>11. Long(usec) = usec
  BY <1>1, <1>10, LongKeeps
<1> QED
  BY <1>2, <1>6, <1>9, <1>11 DEF timeval, Parts, sec, usec

\* A timer that was started with any timeout expires exactly when that much
\* time has passed (osal_timer_start, osal_timer_is_expired): every wait of
\* the master for a frame, a state or a mailbox is as long as its caller says.
THEOREM TimerTheorem ==
    \A u \in Nat, timeout \in Nat, now \in Nat : ExpiresInTime(u, timeout, now)
<1> SUFFICES ASSUME NEW u \in Nat, NEW timeout \in Nat, NEW now \in Nat,
                    InRange(u), InRange(now), InRange(u + timeout)
             PROVE  timer_is_expired(timer_start(u, timeout), now) <=> now >= u + timeout
  BY DEF ExpiresInTime
<1>1. timeval(u) = Parts(u) /\ timeval(now) = Parts(now)
  BY ClockTheorem DEF ClockIsTrue
<1>2. timer_start(u, timeout) = timeradd(Parts(u), Parts(timeout))
  BY <1>1 DEF timer_start, Parts
<1>3. timeradd(Parts(u), Parts(timeout)) = Parts(u + timeout)
  BY SMTT(30) DEF timeradd, Parts, Time, USECS_PER_SEC
<1>4. Earlier(Parts(now), Parts(u + timeout)) <=> now < u + timeout
  BY SMTT(30) DEF Earlier, Parts, Time, USECS_PER_SEC
<1> QED
  BY <1>1, <1>2, <1>3, <1>4, SMT DEF timer_is_expired

\* osal_time_diff is the time that lies between.
THEOREM DiffTheorem == \A u \in Nat, timeout \in Nat : DiffIsTrue(u, timeout)
<1> SUFFICES ASSUME NEW u \in Nat, NEW timeout \in Nat,
                    InRange(u), InRange(u + timeout)
             PROVE  time_diff(timeval(u), timeval(u + timeout)) = Parts(timeout)
  BY DEF DiffIsTrue
<1>1. timeval(u) = Parts(u) /\ timeval(u + timeout) = Parts(u + timeout)
  BY ClockTheorem, SMT DEF ClockIsTrue
<1>2. time_diff(Parts(u), Parts(u + timeout)) = Parts(timeout)
  BY SMTT(30) DEF time_diff, Parts, Time, USECS_PER_SEC
<1> QED
  BY <1>1, <1>2
-----------------------------------------------------------------------------
(* The texts of the reports.                                               *)

\* The least of a set of natural numbers.
LEMMA MinIn ==
    ASSUME NEW S \in SUBSET Nat, S # {}
    PROVE  Min(S) \in S /\ \A y \in S : Min(S) <= y
<1> DEFINE R == {ss \in Nat \X Nat : ss[1] < ss[2]}
<1>1. IsWellFoundedOn(R, Nat)  BY NatLessThanWellFounded, Zenon DEF OpToRel
<1> HIDE DEF R
<1>2. PICK x \in S : \A y \in S : ~ (<<y, x>> \in R)  BY <1>1, WFMin, Zenon
<1>3. \A y \in S : x <= y
  <2> TAKE y \in S
  <2>1. <<y, x>> \in Nat \X Nat /\ x \in Nat /\ y \in Nat  OBVIOUS
  <2>2. ~ (y < x)  BY <1>2, <2>1 DEF R
  <2> QED  BY <2>1, <2>2
<1> QED  BY <1>3 DEF Min

\* The tables of codes end with a code that is nowhere else in them.
EndsWith(table, last) ==
    /\ table \in Seq(Int) /\ Len(table) > 0 /\ table[Len(table)] = last
    /\ \A i \in 1 .. Len(table) - 1 : table[i] # last

\* What the four lookups find: the code, or the end if it is not there.
LEMMA LookupFinds ==
    ASSUME NEW table, NEW last \in Int, NEW code \in Int, EndsWith(table, last)
    PROVE  table[Lookup(table, last, code)] =
              IF \E i \in DOMAIN table : table[i] = code THEN code ELSE table[Len(table)]
<1> DEFINE S == {i \in DOMAIN table : table[i] \in {code, last}}
           m == Min(S)
<1>1. DOMAIN table = 1 .. Len(table) /\ Len(table) \in Nat  BY DEF EndsWith
<1>2. S \in SUBSET Nat /\ S # {}  BY <1>1 DEF EndsWith
<1>3. m \in S /\ \A y \in S : m <= y  BY <1>2, MinIn
<1>4. \A j \in 1 .. m - 1 : table[j] \notin {code, last}
  <2> SUFFICES ASSUME NEW j \in 1 .. m - 1, j \in S PROVE FALSE  BY <1>1, <1>3
  <2> QED  BY <1>2, <1>3
<1> DEFINE i == Lookup(table, last, code)
<1>5. /\ i \in DOMAIN table /\ table[i] \in {code, last}
      /\ \A j \in 1 .. i - 1 : table[j] \notin {code, last}
  <2>1. \E k \in DOMAIN table : /\ table[k] \in {code, last}
                                /\ \A j \in 1 .. k - 1 : table[j] \notin {code, last}
    BY <1>3, <1>4
  <2> QED  BY <2>1, Zenon DEF Lookup
<1> HIDE DEF i, S, m
<1>6. ASSUME NEW k \in DOMAIN table, table[k] = code PROVE table[i] = code
  <2>1. CASE code = last  BY <1>5, <2>1
  <2>2. CASE code # last
    <3>1. k < Len(table)  BY <1>1, <1>6, <2>2 DEF EndsWith
    <3>2. ~ (k < i)  BY <1>1, <1>5, <1>6
    <3>3. i \in 1 .. Len(table) - 1  BY <1>1, <1>5, <3>1, <3>2
    <3> QED  BY <1>5, <3>3 DEF EndsWith
  <2> QED  BY <2>1, <2>2
<1>7. ASSUME ~ \E k \in DOMAIN table : table[k] = code PROVE table[i] = table[Len(table)]
  BY <1>5, <1>7 DEF EndsWith
<1> QED  BY <1>6, <1>7 DEF i

\* Parts of a table that do not have the last code.
Without(last) == Seq(Int \ {last})

LEMMA FromWithout ==
    ASSUME NEW a \in Nat, NEW b \in Nat, a <= b, NEW last, last < a \/ last > b, last \in Int
    PROVE  From(a, b) \in Without(last)
<1>1. b - a + 1 \in Nat  OBVIOUS
<1>2. From(a, b) \in [1 .. b - a + 1 -> Int \ {last}]  BY DEF From
<1> QED  BY <1>1, <1>2 DEF Without

LEMMA ConcatWithout ==
    ASSUME NEW last, NEW s \in Without(last), NEW t \in Without(last)
    PROVE  s \o t \in Without(last)
BY DEF Without

LEMMA TableEnds ==
    ASSUME NEW last \in Int, NEW s \in Without(last), NEW t, EndsWith(t, last)
    PROVE  EndsWith(s \o t, last)
<1>1. s \in Seq(Int) /\ \A i \in 1 .. Len(s) : s[i] # last  BY DEF Without
<1>2. t \in Seq(Int) /\ Len(t) \in Nat /\ Len(t) > 0 /\ Len(s) \in Nat  BY <1>1 DEF EndsWith
<1>3. /\ s \o t \in Seq(Int) /\ Len(s \o t) = Len(s) + Len(t)
      /\ \A i \in 1 .. Len(s) + Len(t) :
            (s \o t)[i] = IF i <= Len(s) THEN s[i] ELSE t[i - Len(s)]
  BY <1>1, <1>2
<1>4. (s \o t)[Len(s) + Len(t)] = last
  BY <1>2, <1>3 DEF EndsWith
<1>5. ASSUME NEW i \in 1 .. Len(s) + Len(t) - 1 PROVE (s \o t)[i] # last
  <2>1. CASE i <= Len(s)  BY <1>1, <1>2, <1>3, <2>1
  <2>2. CASE ~ (i <= Len(s))
    <3>1. i - Len(s) \in 1 .. Len(t) - 1  BY <1>2, <2>2
    <3>2. (s \o t)[i] = t[i - Len(s)]  BY <1>2, <1>3, <2>2
    <3> QED  BY <3>1, <3>2 DEF EndsWith
  <2> QED  BY <2>1, <2>2
<1> QED  BY <1>2, <1>3, <1>4, <1>5 DEF EndsWith

\* The three tables in which the texts of reports are looked up.
LEMMA MbxTable == EndsWith(ec_mbxerrorlist, Last16)
<1>1. From(0, 8) \in Without(Last16)  BY FromWithout DEF Last16
<1>2. Last16 \in Int  BY DEF Last16
<1>3. EndsWith(<<Last16>>, Last16)  BY <1>2 DEF EndsWith
<1> QED  BY <1>1, <1>2, <1>3, TableEnds DEF ec_mbxerrorlist

LEMMA SdoTable == EndsWith(ec_sdoerrorlist, Last32)
<1> DEFINE W == Without(Last32)
           a == <<0, \h5030000, \h5040000, \h5040001, \h5040005>>
           b == From(\h6010000, \h6010006)
           c == <<\h6020000>>
           d == From(\h6040041, \h6040043)
           e == <<\h6040047, \h6060000, \h6070010, \h6070012, \h6070013, \h6090011>>
           f == From(\h6090030, \h6090032)
           g == <<\h6090036, \h8000000>>
           h == From(\h8000020, \h8000023)
<1>1. a \in W /\ c \in W /\ e \in W /\ g \in W
  BY DEF Last32, Without
<1>2. b \in W /\ d \in W /\ f \in W /\ h \in W
  BY FromWithout DEF Last32
<1>3. \A s, t \in W : s \o t \in W
  BY ConcatWithout
<1>4. ec_sdoerrorlist = a \o b \o c \o d \o e \o f \o g \o h \o <<Last32>>
  BY DEF ec_sdoerrorlist
<1> HIDE DEF W, a, b, c, d, e, f, g, h
<1>5. a \o b \o c \o d \in W
  BY <1>1, <1>2, <1>3
<1>6. a \o b \o c \o d \o e \o f \o g \o h \in W
  BY <1>1, <1>2, <1>3, <1>5
<1>7. Last32 \in Int
  BY DEF Last32
<1>8. EndsWith(<<Last32>>, Last32)
  BY <1>7 DEF EndsWith
<1> QED
  BY <1>4, <1>6, <1>7, <1>8, TableEnds DEF W

LEMMA SoETable == EndsWith(ec_soeerrorlist, Last16)
<1> DEFINE W == Without(Last16)
           a == <<0, \h1001, \h1009>>
           b == From(\h2001, \h2005)
           c == From(\h3002, \h3005)
           d == From(\h4001, \h4005)
           e == From(\h5001, \h5005)
           f == From(\h6001, \h6005)
           g == From(\h7002, \h700D)
           h == From(\h7010, \h7014)
           l == <<\h8001, \h8002, \h8004, \h800A, \h800A, \h800A, Last16>>
<1>1. a \in W
  BY DEF Last16, Without
<1>2. b \in W /\ c \in W /\ d \in W /\ e \in W /\ f \in W /\ g \in W /\ h \in W
  BY FromWithout DEF Last16
<1>3. \A s, t \in W : s \o t \in W
  BY ConcatWithout
<1>4. ec_soeerrorlist = a \o b \o c \o d \o e \o f \o g \o h \o l
  BY DEF ec_soeerrorlist
<1>5. Last16 \in Int /\ EndsWith(l, Last16)
  BY DEF Last16, EndsWith
<1> HIDE DEF W, a, b, c, d, e, f, g, h, l
<1>6. a \o b \o c \o d \o e \in W
  BY <1>1, <1>2, <1>3
<1>7. a \o b \o c \o d \o e \o f \o g \o h \in W
  BY <1>2, <1>3, <1>6
<1> QED
  BY <1>4, <1>5, <1>7, TableEnds DEF W

\* What the text of a report says (the body of TextTells).
Tells(t, c) ==
    LET table == TableOf(c)
    IN  /\ t.slave = c.slave /\ t.code = c.code
        /\ t.place # <<>> => t.place[1] = c.index
        /\ IF table = <<>> THEN t.text = <<>>
           ELSE table[t.text[2]] = IF \E i \in DOMAIN table : table[i] = c.code
                                   THEN c.code ELSE table[Len(table)]

\* Whoever reports, the text of the entry says what was reported.
LEMMA ReportTells == ASSUME NEW c \in Calls PROVE Tells(err2string(ErrorOf(c)), c)
<1> DEFINE ec == ErrorOf(c)
<1>1. c.by \in Reporters /\ c.code \in Int /\ c.reg \in Nat /\ c.b1 \in Nat
  BY CallsAssumption DEF CallsAssumption
<1>2. c.by \in {"SDOerror", "SDOinfoerror"} \/ (c.code \in Nat /\ c.code < 65536)
  BY CallsAssumption, SMT DEF CallsAssumption
<1>3. CASE c.by \in {"SDOerror", "SDOinfoerror"}
  <2>1. ec.Etype \in {"SDO", "SDOINFO"} /\ ec.Slave = c.slave /\ ec.Index = c.index
        /\ ec.SubIdx = c.subidx /\ ec.AbortCode = c.code
    BY <1>3 DEF ErrorOf, SDOerror, SDOinfoerror, Ec
  <2> HIDE DEF ec
  <2>2. err2string(ec) = [kind |-> "SDO", slave |-> c.slave, code |-> c.code,
                          place |-> <<c.index, c.subidx>>,
                          text |-> <<"SDO", Lookup(ec_sdoerrorlist, Last32, c.code)>>]
    BY <2>1 DEF err2string, Described, Placed, Text, sdoerror2string
  <2>3. TableOf(c) = ec_sdoerrorlist /\ ec_sdoerrorlist # <<>>
    BY <1>3, SdoTable DEF TableOf, EndsWith
  <2>4. Last32 \in Int
    BY DEF Last32
  <2>5. ec_sdoerrorlist[Lookup(ec_sdoerrorlist, Last32, c.code)] =
           IF \E i \in DOMAIN ec_sdoerrorlist : ec_sdoerrorlist[i] = c.code
           THEN c.code ELSE ec_sdoerrorlist[Len(ec_sdoerrorlist)]
    BY <1>1, <2>4, SdoTable, LookupFinds
  <2> QED
    BY <2>2, <2>3, <2>5 DEF Tells, ec
<1>4. CASE c.by = "packeterror"
  <2>1. ec.Etype = "PACKET" /\ ec.Slave = c.slave /\ ec.Index = c.index
        /\ ec.SubIdx = c.subidx /\ ec.AbortCode = c.code
    BY <1>4 DEF ErrorOf, packeterror, Ec
  <2> HIDE DEF ec
  <2>2. ErrorCode(ec) = c.code
    BY <1>2, <1>4, <2>1, SMT DEF ErrorCode
  <2>3. err2string(ec) = [kind |-> "PACKET", slave |-> c.slave, code |-> c.code,
                          place |-> <<c.index, c.subidx>>, text |-> <<>>]
    BY <2>1, <2>2 DEF err2string, Placed, Text
  <2>4. TableOf(c) = <<>>
    BY <1>4 DEF TableOf
  <2> QED
    BY <2>3, <2>4 DEF Tells, ec
<1>5. CASE c.by = "SoEerror"
  <2>1. ec.Etype = "SOE" /\ ec.Slave = c.slave /\ ec.Index = c.index
        /\ ec.AbortCode = c.code
    BY <1>5 DEF ErrorOf, SoEerror, Ec
  <2> HIDE DEF ec
  <2>2. ErrorCode(ec) = c.code
    BY <1>2, <1>5, <2>1, SMT DEF ErrorCode
  <2>3. err2string(ec) = [kind |-> "SoE", slave |-> c.slave, code |-> c.code,
                          place |-> <<c.index>>,
                          text |-> <<"SoE", Lookup(ec_soeerrorlist, Last16, c.code)>>]
    BY <2>1, <2>2 DEF err2string, Described, Text, soeerror2string
  <2>4. TableOf(c) = ec_soeerrorlist /\ ec_soeerrorlist # <<>>
    BY <1>5, SoETable DEF TableOf, EndsWith
  <2>5. Last16 \in Int
    BY DEF Last16
  <2>6. ec_soeerrorlist[Lookup(ec_soeerrorlist, Last16, c.code)] =
           IF \E i \in DOMAIN ec_soeerrorlist : ec_soeerrorlist[i] = c.code
           THEN c.code ELSE ec_soeerrorlist[Len(ec_soeerrorlist)]
    BY <1>1, <2>5, SoETable, LookupFinds
  <2> QED
    BY <2>3, <2>4, <2>6 DEF Tells, ec
<1>6. CASE c.by = "mbxerror"
  <2>1. ec.Etype = "MBX" /\ ec.Slave = c.slave /\ ec.AbortCode = c.code
    BY <1>6 DEF ErrorOf, mbxerror, Ec
  <2> HIDE DEF ec
  <2>2. ErrorCode(ec) = c.code
    BY <1>2, <1>6, <2>1, SMT DEF ErrorCode
  <2>3. err2string(ec) = [kind |-> "MBX", slave |-> c.slave, code |-> c.code,
                          place |-> <<>>,
                          text |-> <<"MBX", Lookup(ec_mbxerrorlist, Last16, c.code)>>]
    BY <2>1, <2>2 DEF err2string, Described, Text, mbxerror2string
  <2>4. TableOf(c) = ec_mbxerrorlist /\ ec_mbxerrorlist # <<>>
    BY <1>6, MbxTable DEF TableOf, EndsWith
  <2>5. Last16 \in Int
    BY DEF Last16
  <2>6. ec_mbxerrorlist[Lookup(ec_mbxerrorlist, Last16, c.code)] =
           IF \E i \in DOMAIN ec_mbxerrorlist : ec_mbxerrorlist[i] = c.code
           THEN c.code ELSE ec_mbxerrorlist[Len(ec_mbxerrorlist)]
    BY <1>1, <2>5, MbxTable, LookupFinds
  <2> QED
    BY <2>3, <2>4, <2>6 DEF Tells, ec
<1>7. CASE c.by = "mbxemergencyerror"
  <2>1. ec.Etype = "EMERGENCY" /\ ec.Slave = c.slave
        /\ ec.AbortCode = c.code + 65536 * (c.reg % 256) + 16777216 * c.b1
    BY <1>7, SMT DEF ErrorOf, mbxemergencyerror, Ec
  <2> HIDE DEF ec
  <2>2. ErrorCode(ec) = c.code
    <3>1. c.code \in Nat /\ c.code < 65536
      BY <1>2, <1>7, SMT
    <3>2. \A r \in Nat : r % 256 \in Nat
      BY SMT
    <3>3. \A a, r, b \in Nat :
             a + 65536 * r + 16777216 * b = a + (r + 256 * b) * 65536
      BY SMT
    <3>4. ec.AbortCode = c.code + ((c.reg % 256) + 256 * c.b1) * 65536
      BY <1>1, <2>1, <3>1, <3>2, <3>3, SMT
    <3> DEFINE k == (c.reg % 256) + 256 * c.b1
    <3>5. k \in Int
      BY <1>1, <3>2, SMT
    <3> HIDE DEF k
    <3>6. (c.code + k * 65536) % 65536 = c.code % 65536
      BY <1>1, <3>5, Period, SMT
    <3> QED
      BY <3>1, <3>4, <3>6, SMT DEF ErrorCode, k
  <2>3. err2string(ec) = [kind |-> "EMERGENCY", slave |-> c.slave, code |-> c.code,
                          place |-> <<>>, text |-> <<>>]
    BY <2>1, <2>2, SMT DEF err2string, Text
  <2>4. TableOf(c) = <<>>
    BY <1>7, SMT DEF TableOf
  <2> QED
    BY <2>3, <2>4, SMT DEF Tells, ec
<1> QED
  BY <1>1, <1>3, <1>4, <1>5, <1>6, <1>7 DEF Reporters

\* The entries of the ring are those of the reports that are pending, in order;
\* the last text is that of the report heard last.
Meant == [k \in 1 .. Len(told) |-> ErrorOf(told[k])]
Heard == \/ heard = <<>> /\ said = NoText
         \/ \E c \in Calls : heard = <<c>> /\ said = err2string(ErrorOf(c))

TextInv == RingTypeOK /\ told \in Seq(Calls) /\ Pending = Meant /\ Heard

LEMMA TextInit == ReportInit => TextInv
<1> SUFFICES ASSUME ReportInit PROVE TextInv  OBVIOUS
<1>1. RingTypeOK  BY InitType DEF ReportInit
<1>2. Count = 0  BY DEF ReportInit, RingInit, Count
<1>3. Pending = <<>>  BY <1>1, <1>2, PendingSeq, EmptySeq
<1>4. told = <<>> /\ Meant = <<>>  BY DEF ReportInit, Meant
<1> QED  BY <1>1, <1>3, <1>4 DEF TextInv, Heard, ReportInit

LEMMA MeantSeq ==
    ASSUME TextInv
    PROVE  /\ Meant \in Seq(Entry) /\ Len(Meant) = Len(told) /\ Len(told) \in Nat
           /\ \A k \in 1 .. Len(told) : told[k] \in Calls /\ Meant[k] = ErrorOf(told[k])
<1>1. Len(told) \in Nat /\ \A k \in 1 .. Len(told) : told[k] \in Calls  BY DEF TextInv
<1>2. \A c \in Calls : ErrorOf(c) \in Entry  BY CallsAssumption, SMT DEF CallsAssumption, Entry
<1>3. Meant \in [1 .. Len(told) -> Entry]  BY <1>1, <1>2 DEF Meant
<1> QED  BY <1>1, <1>3 DEF Meant

\* A report is put behind the others, on the list as among those pending.
LEMMA TextReport == ASSUME TextInv, NEW c \in Calls, Report(c) PROVE TextInv'
<1>1. ErrorOf(c) \in Errors  BY CallsAssumption DEF CallsAssumption
<1>2. pusherror(ErrorOf(c)) /\ RingTypeOK  BY DEF Report, TextInv
<1>3. RingTypeOK'  BY <1>1, <1>2, StepType DEF RingNext
<1>4. Len(Pending) = Count /\ Count = Len(told)  BY <1>2, PendingSeq, MeantSeq DEF TextInv
<1>5. Heard'  BY DEF TextInv, Heard, Report
<1>6. told \in Seq(Calls)  BY DEF TextInv
<1>7. CASE Count = MAXELIST
  <2>1. Pending' = Append(Tail(Meant), ErrorOf(c))
    BY <1>1, <1>2, <1>3, <1>7, PushFull DEF TextInv
  <2>2. told' = Append(Tail(told), c)  BY <1>4, <1>7 DEF Report
  <2>3. Len(told) > 0  BY <1>4, <1>7, RingAssumption
  <2>4. told # <<>> /\ Meant # <<>>  BY <2>3, MeantSeq
  <2>5. /\ Tail(told) \in Seq(Calls) /\ Len(Tail(told)) = Len(told) - 1
        /\ \A k \in 1 .. Len(told) - 1 : Tail(told)[k] = told[k + 1]
    BY <1>6, <2>4, HeadTailProperties
  <2>6. /\ Tail(Meant) \in Seq(Entry) /\ Len(Tail(Meant)) = Len(told) - 1
        /\ \A k \in 1 .. Len(told) - 1 : Tail(Meant)[k] = Meant[k + 1]
    BY <2>4, MeantSeq, HeadTailProperties
  <2>7. \A k \in 1 .. Len(told) - 1 : Tail(Meant)[k] = ErrorOf(Tail(told)[k])
    BY <2>3, <2>5, <2>6, MeantSeq
  <2>8. told' \in Seq(Calls)  BY <2>2, <2>5
  <2>9. Append(Tail(Meant), ErrorOf(c)) = Meant'
    <3> DEFINE s == Append(Tail(Meant), ErrorOf(c))
               t == Append(Tail(told), c)
    <3>1. ErrorOf(c) \in Entry  BY <1>1 DEF Entry
    <3>2. /\ s \in Seq(Entry) /\ Len(s) = Len(told)
          /\ \A k \in 1 .. Len(told) - 1 : s[k] = Tail(Meant)[k]
          /\ s[Len(told)] = ErrorOf(c)
      BY <2>3, <2>6, <3>1, MeantSeq
    <3>3. /\ Len(t) = Len(told) /\ \A k \in 1 .. Len(told) - 1 : t[k] = Tail(told)[k]
          /\ t[Len(told)] = c
      BY <2>3, <2>5, MeantSeq
    <3> HIDE DEF s, t
    <3>4. \A k \in 1 .. Len(told) : k \in 1 .. Len(told) - 1 \/ k = Len(told)
      BY <2>3, MeantSeq
    <3>5. \A k \in 1 .. Len(told) : s[k] = ErrorOf(t[k])
      BY <2>7, <3>2, <3>3, <3>4, Zenon
    <3>6. s = [k \in 1 .. Len(told) |-> s[k]]
      BY <3>2
    <3>7. s = [k \in 1 .. Len(t) |-> ErrorOf(t[k])]
      BY <3>3, <3>5, <3>6
    <3>8. Meant' = [k \in 1 .. Len(told') |-> ErrorOf(told'[k])]
      BY DEF Meant
    <3> QED  BY <2>2, <3>7, <3>8 DEF s, t
  <2> QED  BY <1>3, <1>5, <2>1, <2>8, <2>9 DEF TextInv
<1>8. CASE Count # MAXELIST
  <2>1. Pending' = Append(Meant, ErrorOf(c))
    BY <1>1, <1>2, <1>3, <1>8, PushNotFull DEF TextInv
  <2>2. told' = Append(told, c)  BY <1>4, <1>8 DEF Report
  <2>3. told' \in Seq(Calls)  BY <1>6, <2>2
  <2>4. Append(Meant, ErrorOf(c)) = Meant'
    <3> DEFINE s == Append(Meant, ErrorOf(c))
               t == Append(told, c)
    <3>1. ErrorOf(c) \in Entry  BY <1>1 DEF Entry
    <3>2. /\ s \in Seq(Entry) /\ Len(s) = Len(told) + 1
          /\ \A k \in 1 .. Len(told) : s[k] = Meant[k]
          /\ s[Len(told) + 1] = ErrorOf(c)
      BY <3>1, MeantSeq
    <3>3. /\ Len(t) = Len(told) + 1 /\ \A k \in 1 .. Len(told) : t[k] = told[k]
          /\ t[Len(told) + 1] = c
      BY <1>6
    <3> HIDE DEF s, t
    <3>4. \A k \in 1 .. Len(told) + 1 : k \in 1 .. Len(told) \/ k = Len(told) + 1
      BY MeantSeq
    <3>5. \A k \in 1 .. Len(told) + 1 : s[k] = ErrorOf(t[k])
      BY <3>2, <3>3, <3>4, MeantSeq, Zenon
    <3>6. s = [k \in 1 .. Len(told) + 1 |-> s[k]]
      BY <3>2
    <3>7. s = [k \in 1 .. Len(t) |-> ErrorOf(t[k])]
      BY <3>3, <3>5, <3>6
    <3>8. Meant' = [k \in 1 .. Len(told') |-> ErrorOf(told'[k])]
      BY DEF Meant
    <3> QED  BY <2>2, <3>7, <3>8 DEF s, t
  <2> QED  BY <1>3, <1>5, <2>1, <2>3, <2>4 DEF TextInv
<1> QED  BY <1>7, <1>8

\* The text is made of the oldest entry, which is that of the oldest report.
LEMMA TextPop == ASSUME TextInv, elist2string PROVE TextInv'
<1>1. poperror /\ RingTypeOK  BY DEF elist2string, TextInv
<1>2. RingTypeOK'  BY <1>1, StepType DEF RingNext
<1>3. told \in Seq(Calls) /\ Pending = Meant  BY DEF TextInv
<1>4. CASE iserror
  <2>1. /\ Meant # <<>> /\ popped' = [ok |-> TRUE, ec |-> Head(Meant)]
        /\ Pending' = Tail(Meant)
    BY <1>1, <1>2, <1>3, <1>4, Pop
  <2>2. told # <<>>  BY <2>1 DEF Meant
  <2>3. Len(told) > 0  BY <1>3, <2>2, MeantSeq
  <2>4. heard' = <<Head(told)>> /\ told' = Tail(told)  BY <2>2 DEF elist2string
  <2>5. Head(told) = told[1] /\ Head(Meant) = Meant[1]  BY <1>3, <2>1, <2>2, MeantSeq
  <2>6. Head(Meant) = ErrorOf(Head(told)) /\ Head(told) \in Calls
    BY <2>3, <2>5, MeantSeq
  <2>7. said' = err2string(ErrorOf(Head(told)))  BY <2>1, <2>6 DEF elist2string
  <2>8. Heard'  BY <2>4, <2>6, <2>7 DEF Heard
  <2>9. /\ Tail(told) \in Seq(Calls) /\ Len(Tail(told)) = Len(told) - 1
        /\ \A k \in 1 .. Len(told) - 1 : Tail(told)[k] = told[k + 1]
    BY <1>3, <2>2, HeadTailProperties
  <2>10. /\ Tail(Meant) \in Seq(Entry) /\ Len(Tail(Meant)) = Len(told) - 1
         /\ \A k \in 1 .. Len(told) - 1 : Tail(Meant)[k] = Meant[k + 1]
    BY <2>1, MeantSeq, HeadTailProperties
  <2>11. \A k \in 1 .. Len(told) - 1 : Tail(Meant)[k] = ErrorOf(Tail(told)[k])
    BY <2>3, <2>9, <2>10, MeantSeq
  <2>12. Tail(Meant) = [k \in 1 .. Len(told) - 1 |-> Tail(Meant)[k]]
    <3> DEFINE s == Tail(Meant)
    <3>1. s \in Seq(Entry) /\ Len(s) = Len(told) - 1  BY <2>10
    <3> HIDE DEF s
    <3>2. s = [k \in 1 .. Len(told) - 1 |-> s[k]]  BY <3>1
    <3> QED  BY <3>2 DEF s
  <2>13. Tail(Meant) = [k \in 1 .. Len(Tail(told)) |-> ErrorOf(Tail(told)[k])]
    BY <2>9, <2>11, <2>12
  <2>14. Meant' = [k \in 1 .. Len(told') |-> ErrorOf(told'[k])]
    BY DEF Meant
  <2>15. Pending' = Meant'
    BY <2>1, <2>4, <2>13, <2>14
  <2> QED  BY <1>2, <2>4, <2>8, <2>9, <2>15 DEF TextInv
<1>5. CASE ~iserror
  <2>1. Pending = <<>> /\ Pending' = <<>> /\ popped'.ok = FALSE
    BY <1>1, <1>2, <1>5, PopEmpty
  <2>2. Len(told) = 0  BY <1>3, <2>1, MeantSeq
  <2>3. told = <<>>  BY <1>3, <2>2, EmptySeq
  <2>4. told' = <<>> /\ heard' = <<>> /\ said' = NoText  BY <2>1, <2>3 DEF elist2string
  <2>5. Meant' = <<>>  BY <2>4 DEF Meant
  <2> QED  BY <1>2, <2>1, <2>4, <2>5 DEF TextInv, Heard
<1> QED  BY <1>4, <1>5

\* Whatever is reported by whom, and however long the list: the text that
\* ecx_elist2string returns is that of the oldest report that is still on the
\* list, with its slave, its place, its code and the description of this code.
THEOREM TextTheorem == ReportSpec => []TextTells
<1>1. TextInv /\ [ReportNext]_reportVars => TextInv'
  <2> SUFFICES ASSUME TextInv, [ReportNext]_reportVars PROVE TextInv'  OBVIOUS
  <2>1. CASE UNCHANGED reportVars
    BY <2>1 DEF reportVars, ringVars, TextInv, RingTypeOK, Pending, Count, At, Meant, Heard
  <2> QED  BY <2>1, TextReport, TextPop DEF ReportNext
<1>2. TextInv => TextTells
  <2> SUFFICES ASSUME TextInv, heard # <<>> PROVE Tells(said, heard[1])
    BY DEF TextTells, Tells, TextInv, Heard
  <2> QED  BY ReportTells DEF TextInv, Heard
<1> QED  BY <1>1, <1>2, TextInit, PTL DEF ReportSpec

\* With the reports as what is put on the list, and the texts as what takes
\* it off, it is the bounded queue as well.
THEOREM ReportsImplementQueue == ReportSpec => ImplementsQueue
<1>1. ReportInit => RingInit  BY DEF ReportInit
<1>2. [ReportNext]_reportVars => [RingNext]_ringVars
  BY CallsAssumption DEF CallsAssumption, ReportNext, Report, elist2string, RingNext, reportVars
<1>3. ReportSpec => RingSpec  BY <1>1, <1>2, PTL DEF ReportSpec, RingSpec
<1> QED  BY <1>3, RingImplementsQueue

-----------------------------------------------------------------------------
(* The redundant port.                                                     *)

\* How far a frame gets from either port, and what it then has passed.
\* (With the broken links as a parameter.)
Ahead(b) == IF b = {} THEN N ELSE Min(b)
Behind(b) == IF b = {} THEN N ELSE Max(b)
Passed(a, b) == Row(1, a) \o Row(b + 1, N)
Sent(a, b) == RequestFrame(Passed(a, b))
Dummy(b) == [DummyFrame EXCEPT !.passed = Row(b + 1, N)]
Reach == 0 .. N

\* The frames that can come in at a port.
ArrivingSecondary == {Sent(a, b) : a, b \in Reach} \cup {Dummy(b) : b \in Reach}
ArrivingPrimary == {Sent(a, N) : a \in Reach} \cup {Dummy(N)}
Arriving(p) == IF p = "prim" THEN ArrivingPrimary ELSE ArrivingSecondary

\* Every slave on a frame's way that the request addresses has done its part.
\* (With the request and the deeds as parameters.)
Places(r, passed) ==
    {k \in DOMAIN passed :
        CASE r.kind = "positioned" -> k \in r.slaves
          [] r.kind \in {"configured", "logical"} -> passed[k] \in r.slaves
          [] OTHER -> TRUE}
Counted(r, f) == IF f.dummy THEN Len(f.passed) ELSE Cardinality(Places(r, f.passed))
Worked(r, d, passed) == \A k \in Places(r, passed) : d[passed[k]] >= 1
Honest(r, d, f) == f.dummy \/ Worked(r, d, f.passed)

\* A line of frames, and the queue of one frame, at a port.
Coming(r, d, p, w) == w \in Seq(Arriving(p)) /\ \A i \in 1 .. Len(w) : Honest(r, d, w[i])
Queued(r, d, p, q) == q = <<>> \/ \E f \in Arriving(p) : q = <<f>> /\ Honest(r, d, f)

Typed ==
    /\ request \in Requests /\ broken \subseteq Links
    /\ pc \in {"send", "dummy", "wait", "route", "again", "done"}
    /\ did \in [Slaves -> Nat]
    /\ attempts \in 1 .. MaxAttempts
    /\ changes \in Nat /\ lost \in Nat /\ late \in Nat /\ failed \in Nat
    /\ early \in BOOLEAN /\ driver \in {"pcap", "mux"}
    /\ wkc \in NOFRAME .. 2 * N /\ wkc2 \in NOFRAME .. 2 * N
    /\ rxsa \in [Port -> {"none", "prim", "sec"}]
    /\ rxbufstat \in [Port -> {"ALLOC", "EMPTY", "TX", "COMPLETE"}]
    /\ DOMAIN rxbuf = Port /\ DOMAIN wire = Port /\ DOMAIN msgQ = Port

Buffers ==
    /\ \A p \in Port : rxbuf[p] \in ArrivingSecondary \cup {NoFrame} /\ Honest(request, did, rxbuf[p])
    /\ txbuf \in {Row(1, a) : a \in Reach} /\ Worked(request, did, txbuf)
    /\ pc \in {"send", "dummy", "wait", "route"} => txbuf = <<>>
    /\ pc = "again" /\ wkc = NOFRAME => txbuf = <<>>

OnWire ==
    /\ \A p \in Port : Coming(request, did, p, wire[p])
    /\ \A p \in Port : \/ Queued(request, did, p, msgQ[p])
                       \/ pc = "send" /\ p = "prim" /\ msgQ[p] = <<Abandoned>>
    /\ driver = "pcap" => \A p \in Port : msgQ[p] = <<>>

\* Frames sent so far, at most three in each attempt.
Turn == CASE pc = "send" -> 0 [] pc = "dummy" -> 1 [] pc \in {"wait", "route"} -> 2 [] OTHER -> 3
Room == \A p \in Port : Len(wire[p]) <= 3 * (attempts - 1) + Turn

Received(p, w) ==
    w > NOFRAME => rxbuf[p] \in Arriving(p) /\ rxsa[p] = rxbuf[p].src /\ w = Counted(request, rxbuf[p])

Inbox ==
    /\ pc \in {"wait", "route", "again"} => Received("prim", wkc)
    /\ pc \in {"wait", "route"} => Received("sec", wkc2)
    /\ pc = "again" /\ wkc > NOFRAME => ~rxbuf["prim"].dummy
    /\ pc = "done" /\ wkc > NOFRAME =>
         /\ rxbuf["prim"] # NoFrame /\ wkc = Counted(request, rxbuf["prim"])
         /\ late = 0 => ~rxbuf["prim"].dummy \/ wkc = 0

Quiet ==
    late = 0 =>
        /\ pc = "route" => \A p \in Port : wire[p] = <<>> /\ msgQ[p] = <<>>
        /\ pc = "again" => /\ \A i \in 1 .. Len(wire["sec"]) : ~wire["sec"][i].dummy
                           /\ msgQ["sec"] # <<>> => ~Head(msgQ["sec"]).dummy

\* The undisturbed exchange.
Calm == changes = 0 /\ lost = 0 /\ late = 0 /\ failed = 0 /\ ~early
        /\ Cardinality(broken) <= 1
Targets(r) == IF r.kind \in {"positioned", "configured", "logical"}
              THEN r.slaves ELSE Slaves
DidUpTo(r, a) == [s \in Slaves |-> IF s \in Targets(r) /\ s <= a THEN 1 ELSE 0]

\* What the request, and then the dummy as well, make come in at a port.
ByRequest(b, p) ==
    IF p = "prim" THEN IF b = {} \/ 0 \in b THEN <<>> ELSE <<Sent(Ahead(b), N)>>
    ELSE IF b = {} THEN <<Sent(N, N)>> ELSE <<>>
ByBoth(b, p) ==
    IF p = "prim" THEN IF b = {} THEN <<Dummy(N)>> ELSE ByRequest(b, p)
    ELSE IF b = {} THEN ByRequest(b, p) ELSE IF N \in b THEN <<>> ELSE <<Dummy(Behind(b))>>
Comes(w, q, s) == (w = s /\ q = <<>>) \/ (w = <<>> /\ q = s)
Expects(p) == driver = "mux" => rxbufstat[p] = "TX"
Waits(p, w) == w = NOFRAME /\ Comes(wire[p], msgQ[p], ByBoth(broken, p)) /\ Expects(p)
Has(p, w) == /\ wire[p] = <<>> /\ msgQ[p] = <<>> /\ ByBoth(broken, p) # <<>>
             /\ w > NOFRAME /\ rxbuf[p] = Head(ByBoth(broken, p))

Course ==
    /\ attempts = 1
    /\ pc = "send" => /\ \A p \in Port : wire[p] = <<>>
                      /\ msgQ["sec"] = <<>> /\ rxbufstat["sec"] = "EMPTY"
                      /\ did = DidUpTo(request, 0)
    /\ pc = "dummy" => /\ Comes(wire["prim"], msgQ["prim"], ByRequest(broken, "prim"))
                       /\ Expects("prim")
                       /\ wire["sec"] = ByRequest(broken, "sec") /\ msgQ["sec"] = <<>>
                       /\ rxbufstat["sec"] = "EMPTY"
    /\ pc \in {"wait", "route"} => /\ Waits("prim", wkc) \/ Has("prim", wkc)
                                   /\ Waits("sec", wkc2) \/ Has("sec", wkc2)
    /\ pc \in {"dummy", "wait", "route"} => did = DidUpTo(request, Ahead(broken))
    /\ pc = "again" => /\ wire["prim"] = <<>> /\ msgQ["prim"] = <<>>
                       /\ Comes(wire["sec"], msgQ["sec"], <<Sent(N, N)>>) /\ Expects("sec")
                       /\ did = DidUpTo(request, N)
    /\ pc = "done" => wkc > NOFRAME /\ rxbuf["prim"] = Sent(N, N) /\ did = DidUpTo(request, N)

IInv == /\ Typed /\ Buffers /\ OnWire /\ Room /\ Inbox /\ Quiet
        /\ Calm => Course

-----------------------------------------------------------------------------
(* Rows of slaves.                                                         *)

LEMMA Counts == N \in Nat /\ N > 0 /\ MaxAttempts \in Nat /\ Slaves = 1 .. N /\ Links = 0 .. N
  BY RedundancyAssumption DEF RedundancyAssumption, Slaves, Links

LEMMA Rows ==
  ASSUME NEW a \in Reach, NEW b \in Reach
  PROVE  /\ Row(1, a) \in Seq(Slaves) /\ Len(Row(1, a)) = a
         /\ \A k \in 1 .. a : Row(1, a)[k] = k
         /\ Row(b + 1, N) \in Seq(Slaves) /\ Len(Row(b + 1, N)) = N - b
         /\ \A k \in 1 .. N - b : Row(b + 1, N)[k] = b + k
  <1> USE Counts
  <1>1. a \in Nat /\ b \in Nat /\ N - b \in Nat  BY DEF Reach
  <1>2. Row(1, a) = [k \in 1 .. a |-> k]  BY <1>1 DEF Row
  <1>3. Row(b + 1, N) = [k \in 1 .. N - b |-> b + k]  BY <1>1 DEF Row
  <1>4. Row(1, a) \in [1 .. a -> Slaves]  BY <1>1, <1>2 DEF Reach
  <1>5. Row(b + 1, N) \in [1 .. N - b -> Slaves]  BY <1>1, <1>3 DEF Reach
  <1> QED  BY <1>1, <1>2, <1>3, <1>4, <1>5

LEMMA PassedIs ==
  ASSUME NEW a \in Reach, NEW b \in Reach
  PROVE  /\ Passed(a, b) \in Seq(Slaves) /\ Len(Passed(a, b)) = a + (N - b)
         /\ \A k \in 1 .. a : Passed(a, b)[k] = k
         /\ \A k \in a + 1 .. a + (N - b) : Passed(a, b)[k] = b + k - a
  <1>1. a \in Nat /\ b \in Nat /\ N - b \in Nat  BY Counts DEF Reach
  <1> DEFINE s == Row(1, a)
             t == Row(b + 1, N)
  <1>2. /\ s \in Seq(Slaves) /\ Len(s) = a /\ \A k \in 1 .. a : s[k] = k
        /\ t \in Seq(Slaves) /\ Len(t) = N - b /\ \A k \in 1 .. N - b : t[k] = b + k
    BY Rows
  <1> HIDE DEF s, t
  <1>3. s \o t \in Seq(Slaves) /\ Len(s \o t) = a + (N - b)
    BY <1>2
  <1>4. \A k \in 1 .. a : (s \o t)[k] = k
    BY <1>1, <1>2
  <1>5. \A k \in a + 1 .. a + (N - b) : (s \o t)[k] = b + k - a
    <2> TAKE k \in a + 1 .. a + (N - b)
    <2>1. k - a \in 1 .. N - b  BY <1>1
    <2>2. (s \o t)[k] = t[k - a]  BY <1>1, <1>2
    <2> QED  BY <1>1, <1>2, <2>1, <2>2
  <1> QED  BY <1>3, <1>4, <1>5 DEF Passed, s, t

\* Nothing is passed behind the last slave.
LEMMA PassedEnds ==
  ASSUME NEW a \in Reach
  PROVE  Passed(a, N) = Row(1, a) /\ Row(N + 1, N) = <<>> /\ Row(1, 0) = <<>>
  <1>1. N \in Reach /\ 0 \in Reach  BY Counts DEF Reach
  <1>2. Row(N + 1, N) \in Seq(Slaves) /\ Len(Row(N + 1, N)) = N - N  BY <1>1, Rows
  <1>3. Row(1, 0) \in Seq(Slaves) /\ Len(Row(1, 0)) = 0  BY <1>1, Rows
  <1>4. Row(N + 1, N) = <<>>  BY <1>2, EmptySeq, Counts
  <1>5. Row(1, 0) = <<>>  BY <1>3, EmptySeq
  <1>6. Row(1, a) \in Seq(Slaves)  BY <1>1, Rows
  <1>7. Row(1, a) \o <<>> = Row(1, a)  BY <1>6, ConcatEmptySeq
  <1> QED  BY <1>4, <1>5, <1>7 DEF Passed

\* Together two parts without a gap are the whole row.
LEMMA PassedWhole == ASSUME NEW a \in Reach PROVE Passed(a, a) = Passed(N, N)
  <1>1. N \in Reach /\ a \in Nat  BY Counts DEF Reach
  <1>2. /\ Passed(a, a) \in Seq(Slaves) /\ Len(Passed(a, a)) = N
        /\ Passed(N, N) \in Seq(Slaves) /\ Len(Passed(N, N)) = N
    BY <1>1, PassedIs, Counts
  <1>3. \A k \in 1 .. N : Passed(a, a)[k] = k /\ Passed(N, N)[k] = k
    <2> TAKE k \in 1 .. N
    <2>1. k \in 1 .. a \/ (k \in a + 1 .. a + (N - a) /\ a + k - a = k)  BY <1>1, Counts
    <2>2. Passed(a, a)[k] = k  BY <2>1, PassedIs
    <2>3. Passed(N, N)[k] = k  BY <1>1, PassedIs
    <2> QED  BY <2>2, <2>3
  <1> QED  BY <1>2, <1>3, SeqEqual

-----------------------------------------------------------------------------
(* The ring.                                                               *)

\* The greatest of a bounded set: the least distance from the bound.
LEMMA MaxIn ==
  ASSUME NEW b \in Nat, NEW S \in SUBSET (0 .. b), S # {}
  PROVE  Max(S) \in S /\ \A y \in S : y <= Max(S)
  <1> DEFINE D == {b - x : x \in S}
  <1>1. D \in SUBSET Nat /\ D # {}
    <2>1. \A x \in S : b - x \in Nat  OBVIOUS
    <2> QED  BY <2>1
  <1>2. Min(D) \in D /\ \A d \in D : Min(D) <= d  BY <1>1, MinIn
  <1>3. PICK x \in S : Min(D) = b - x  BY <1>2
  <1>4. \A y \in S : y <= x
    <2> TAKE y \in S
    <2>1. b - x <= b - y  BY <1>2, <1>3
    <2> QED  BY <2>1
  <1> QED  BY <1>4 DEF Max

LEMMA Ways ==
  ASSUME broken \subseteq Links
  PROVE  /\ Ahead(broken) \in Reach /\ Behind(broken) \in Reach
         /\ Way("prim") = Row(1, Ahead(broken)) /\ Way("sec") = Row(Behind(broken) + 1, N)
         /\ broken = {} => Way("sec") = <<>> /\ Ahead(broken) = N /\ Behind(broken) = N
         /\ broken # {} => Ahead(broken) \in broken /\ Behind(broken) \in broken
  <1>1. CASE broken = {}
    <2>1. N \in Reach  BY Counts DEF Reach
    <2>2. Row(N + 1, N) = <<>>  BY <2>1, PassedEnds
    <2> QED  BY <1>1, <2>1, <2>2 DEF Ahead, Behind, Way
  <1>2. CASE broken # {}
    <2>1. broken \in SUBSET Nat  BY Counts
    <2>2. Min(broken) \in broken  BY <1>2, <2>1, MinIn
    <2>3. Max(broken) \in broken  BY <1>2, Counts, MaxIn
    <2> QED  BY <1>2, <2>2, <2>3, Counts DEF Ahead, Behind, Way, Reach
  <1> QED  BY <1>1, <1>2

-----------------------------------------------------------------------------
(* What a frame counts.                                                    *)

LEMMA ExecutionsArePlaces ==
  /\ \A s : Executions(s) = Places(request, s)
  /\ \A f : Wkc(f) = Counted(request, f)
  <1>1. \A s : Executions(s) = Places(request, s)  BY Zenon DEF Executions, Places
  <1> QED  BY <1>1 DEF Wkc, Counted

LEMMA PlacesAre ==
  ASSUME NEW r, NEW s
  PROVE  \A k : k \in Places(r, s) <=>
                  /\ k \in DOMAIN s
                  /\ r.kind = "positioned" => k \in r.slaves
                  /\ r.kind \in {"configured", "logical"} => s[k] \in r.slaves
  BY DEF Places

LEMMA PlacesFinite ==
  ASSUME NEW r, NEW s \in Seq(Slaves)
  PROVE  /\ Places(r, s) \subseteq 1 .. Len(s) /\ IsFiniteSet(Places(r, s))
         /\ Cardinality(Places(r, s)) \in 0 .. Len(s)
         /\ \A k \in Places(r, s) : k \in 1 .. Len(s) /\ s[k] \in Slaves
  <1>1. Places(r, s) \subseteq 1 .. Len(s)  BY PlacesAre
  <1>2. IsFiniteSet(1 .. Len(s)) /\ Cardinality(1 .. Len(s)) = Len(s) /\ Len(s) \in Nat
    <2>1. Len(s) \in Nat  OBVIOUS
    <2>2. /\ IsFiniteSet(1 .. Len(s))
          /\ Cardinality(1 .. Len(s)) = IF 1 > Len(s) THEN 0 ELSE Len(s) - 1 + 1
      BY <2>1, FS_Interval
    <2> QED  BY <2>1, <2>2
  <1>3. IsFiniteSet(Places(r, s)) /\ Cardinality(Places(r, s)) <= Len(s)
    BY <1>1, <1>2, FS_Subset
  <1>4. Cardinality(Places(r, s)) \in Nat  BY <1>3, FS_CardinalityType
  <1> QED  BY <1>1, <1>2, <1>3, <1>4

LEMMA FrameIs ==
  ASSUME NEW f \in ArrivingSecondary
  PROVE  /\ f.passed \in Seq(Slaves) /\ Len(f.passed) <= 2 * N /\ Len(f.passed) \in Nat
         /\ f.dummy \in BOOLEAN /\ f.src = (IF f.dummy THEN "sec" ELSE "prim")
         /\ f.dummy => \E b \in Reach : f = Dummy(b)
         /\ ~f.dummy => \E a, b \in Reach : f = Sent(a, b)
         /\ f # NoFrame
  <1>1. ASSUME NEW b \in Reach, f = Dummy(b)
        PROVE  f.passed = Row(b + 1, N) /\ f.src = "sec" /\ f.dummy = TRUE
    BY <1>1 DEF Dummy, DummyFrame
  <1>2. ASSUME NEW a \in Reach, NEW b \in Reach, f = Sent(a, b)
        PROVE  f.passed = Passed(a, b) /\ f.src = "prim" /\ f.dummy = FALSE
    BY <1>2 DEF Sent, RequestFrame
  <1>3. NoFrame.src = "none"  BY DEF NoFrame
  <1>4. CASE \E b \in Reach : f = Dummy(b)
    <2>1. PICK b \in Reach : f = Dummy(b)  BY <1>4
    <2>2. f.passed \in Seq(Slaves) /\ Len(f.passed) = N - b  BY <1>1, <2>1, Rows
    <2>3. N - b \in Nat /\ N - b <= 2 * N  BY Counts DEF Reach
    <2> QED  BY <1>1, <1>3, <2>1, <2>2, <2>3
  <1>5. CASE \E a, b \in Reach : f = Sent(a, b)
    <2>1. PICK a \in Reach, b \in Reach : f = Sent(a, b)  BY <1>5
    <2>2. f.passed \in Seq(Slaves) /\ Len(f.passed) = a + (N - b)  BY <1>2, <2>1, PassedIs
    <2>3. a + (N - b) \in Nat /\ a + (N - b) <= 2 * N  BY Counts DEF Reach
    <2> QED  BY <1>2, <1>3, <2>1, <2>2, <2>3
  <1> QED  BY <1>4, <1>5 DEF ArrivingSecondary

LEMMA ArrivingBoth ==
  ArrivingPrimary \subseteq ArrivingSecondary /\ \A p \in Port : Arriving(p) \subseteq ArrivingSecondary
  <1>1. N \in Reach  BY Counts DEF Reach
  <1> QED  BY <1>1 DEF ArrivingPrimary, ArrivingSecondary, Arriving

\* Work counters stay within two passes over the row.
LEMMA CountedIs == ASSUME NEW r, NEW f \in ArrivingSecondary PROVE Counted(r, f) \in 0 .. 2 * N
  <1>1. /\ f.passed \in Seq(Slaves) /\ Len(f.passed) <= 2 * N /\ Len(f.passed) \in Nat
    BY FrameIs
  <1>2. Cardinality(Places(r, f.passed)) \in 0 .. Len(f.passed)  BY <1>1, PlacesFinite
  <1> QED  BY <1>1, <1>2, Counts DEF Counted

\* A dummy at the primary port has passed nobody.
LEMMA CountedDummy == ASSUME NEW r, NEW f \in ArrivingPrimary, f.dummy PROVE Counted(r, f) = 0
  <1>1. f = Dummy(N)  BY DEF ArrivingPrimary, Sent, RequestFrame
  <1>2. f.passed = Row(N + 1, N)  BY <1>1 DEF Dummy, DummyFrame
  <1>3. f.passed = <<>>  BY <1>2, PassedEnds, Counts DEF Reach
  <1> QED  BY <1>3 DEF Counted

-----------------------------------------------------------------------------
(* A frame on its way.                                                     *)

\* The places behind the first n at which a slave does its part.
Deeds(r, passed, n, s) == {k \in Places(r, passed) : k > n /\ passed[k] = s}

LEMMA DeedsCount ==
  ASSUME NEW r, NEW passed \in Seq(Slaves), NEW n \in Nat, NEW s
  PROVE  /\ Cardinality(Deeds(r, passed, n, s)) \in Nat
         /\ Deeds(r, passed, n, s) # {} => Cardinality(Deeds(r, passed, n, s)) >= 1
  <1>1. Deeds(r, passed, n, s) \subseteq Places(r, passed)  BY DEF Deeds
  <1>2. IsFiniteSet(Deeds(r, passed, n, s))  BY <1>1, PlacesFinite, FS_Subset
  <1>3. Cardinality(Deeds(r, passed, n, s)) \in Nat  BY <1>2, FS_CardinalityType
  <1>4. Cardinality(Deeds(r, passed, n, s)) = 0 <=> Deeds(r, passed, n, s) = {}
    BY <1>2, FS_EmptySet
  <1> QED  BY <1>3, <1>4

\* Slaves only ever do more.
LEMMA WorkedStays ==
  ASSUME NEW r, NEW s \in Seq(Slaves), NEW d \in [Slaves -> Nat], NEW e \in [Slaves -> Nat],
         Worked(r, d, s), \A x \in Slaves : e[x] >= d[x]
  PROVE  Worked(r, e, s)
  <1> SUFFICES ASSUME NEW k \in Places(r, s) PROVE e[s[k]] >= 1
    BY DEF Worked
  <1>1. s[k] \in Slaves  BY PlacesFinite
  <1>2. d[s[k]] >= 1 /\ e[s[k]] >= d[s[k]] /\ d[s[k]] \in Nat /\ e[s[k]] \in Nat
    BY <1>1 DEF Worked
  <1> QED  BY <1>2

LEMMA HonestStays ==
  ASSUME NEW r, NEW f, f.passed \in Seq(Slaves), NEW d \in [Slaves -> Nat], NEW e \in [Slaves -> Nat],
         Honest(r, d, f), \A x \in Slaves : e[x] >= d[x]
  PROVE  Honest(r, e, f)
  BY WorkedStays DEF Honest

\* What a frame had passed before counts as before.
LEMMA PrefixPlaces ==
  ASSUME NEW r, NEW s \in Seq(Slaves), NEW t \in Seq(Slaves)
  PROVE  \A k \in Places(r, s \o t) :
            /\ k \in 1 .. Len(s) + Len(t) /\ (s \o t)[k] \in Slaves
            /\ k <= Len(s) => k \in Places(r, s) /\ (s \o t)[k] = s[k]
  <1> TAKE k \in Places(r, s \o t)
  <1>1. s \o t \in Seq(Slaves) /\ Len(s \o t) = Len(s) + Len(t)  OBVIOUS
  <1>2. k \in 1 .. Len(s) + Len(t)  BY <1>1, PlacesFinite
  <1>3. (s \o t)[k] \in Slaves  BY <1>1, <1>2
  <1>4. ASSUME k <= Len(s) PROVE k \in Places(r, s) /\ (s \o t)[k] = s[k]
    <2>1. k \in 1 .. Len(s)  BY <1>2, <1>4
    <2>2. (s \o t)[k] = s[k] /\ k \in DOMAIN s  BY <2>1
    <2> QED  BY <2>2, PlacesAre
  <1> QED  BY <1>2, <1>3, <1>4

Whole(port, frame) == [frame EXCEPT !.passed = frame.passed \o Way(port)]

\* What a transmission does: the slaves do their part, the whole way if it
\* arrives, and only then a frame comes in.
LEMMA Transmits ==
  ASSUME NEW port \in Port, NEW frame, Transmit(port, frame),
         frame.passed \in Seq(Slaves), frame.dummy \in BOOLEAN, DOMAIN frame = {"src", "dummy", "passed"},
         broken \subseteq Links, did \in [Slaves -> Nat], lost \in Nat
  PROVE  /\ did' \in [Slaves -> Nat] /\ \A x \in Slaves : did'[x] >= did[x]
         /\ lost' \in Nat /\ lost' >= lost /\ DOMAIN wire' = Port
         /\ \A p \in Port :
              \/ wire'[p] = wire[p]
              \/ /\ p \in ArrivesAt(port) /\ wire'[p] = Append(wire[p], Whole(port, frame))
                 /\ Honest(request, did, frame) => Honest(request, did', Whole(port, frame))
         /\ lost' = lost =>
              /\ \A p \in Port : wire'[p] = IF p \in ArrivesAt(port)
                                            THEN Append(wire[p], Whole(port, frame)) ELSE wire[p]
              /\ \A x \in Slaves : did'[x] = did[x] +
                   IF frame.dummy THEN 0
                   ELSE Cardinality(Deeds(request, Whole(port, frame).passed, Len(frame.passed), x))
  <1> DEFINE s == frame.passed
  <1>1. Way(port) \in Seq(Slaves) /\ Len(Way(port)) \in Nat
    BY Ways, Rows DEF Port
  <1>2. PICK n \in 0 .. Len(Way(port)), arrives \in BOOLEAN :
          /\ arrives => n = Len(Way(port))
          /\ LET passed == frame.passed \o SubSeq(Way(port), 1, n)
             IN  /\ wire' = [p \in Port |->
                               IF arrives /\ p \in ArrivesAt(port)
                               THEN Append(wire[p], [frame EXCEPT !.passed = passed])
                               ELSE wire[p]]
                 /\ did' = [x \in Slaves |-> did[x] +
                               IF frame.dummy THEN 0
                               ELSE Cardinality({k \in Executions(passed) :
                                                   k > Len(frame.passed) /\ passed[k] = x})]
          /\ lost' = IF arrives THEN lost ELSE lost + 1
          /\ lost' <= MaxLost
    BY Zenon DEF Transmit
  <1> DEFINE t == SubSeq(Way(port), 1, n)
             passed == s \o t
  <1>3. s \in Seq(Slaves) /\ t \in Seq(Slaves)
    BY <1>1
  <1>4. arrives => t = Way(port)
    BY <1>1, <1>2
  <1>5. passed \in Seq(Slaves) /\ Len(s) \in Nat
    BY <1>3
  <1>6. did' = [x \in Slaves |-> did[x] + IF frame.dummy THEN 0
                                          ELSE Cardinality(Deeds(request, passed, Len(s), x))]
    BY <1>2, ExecutionsArePlaces, Zenon DEF Deeds
  <1>7. wire' = [p \in Port |-> IF arrives /\ p \in ArrivesAt(port)
                                THEN Append(wire[p], [frame EXCEPT !.passed = passed])
                                ELSE wire[p]]
    BY <1>2
  <1> HIDE DEF s, t
  <1> HIDE DEF passed
  <1>8. \A x \in Slaves : did'[x] \in Nat /\ did'[x] >= did[x]
    <2> TAKE x \in Slaves
    <2>1. Cardinality(Deeds(request, passed, Len(s), x)) \in Nat  BY <1>5, DeedsCount
    <2> QED  BY <1>6, <2>1
  <1>9. did' \in [Slaves -> Nat]
    BY <1>6, <1>8
  <1>10. arrives => [frame EXCEPT !.passed = passed] = Whole(port, frame)
                    /\ Whole(port, frame).passed = passed
                    /\ Whole(port, frame).dummy = frame.dummy
    BY <1>4 DEF Whole, passed, s
  <1>11. Worked(request, did, s) /\ ~frame.dummy => Worked(request, did', passed)
    <2> SUFFICES ASSUME ~frame.dummy, Worked(request, did, s),
                        NEW k \in Places(request, passed)
                 PROVE  did'[passed[k]] >= 1
      BY DEF Worked
    <2>1. Worked(request, did', s)
      BY <1>8, <1>9, WorkedStays DEF s
    <2>2. /\ k \in 1 .. Len(s) + Len(t) /\ passed[k] \in Slaves
          /\ k <= Len(s) => k \in Places(request, s) /\ passed[k] = s[k]
      <3>1. \A j \in Places(request, s \o t) :
              /\ j \in 1 .. Len(s) + Len(t) /\ (s \o t)[j] \in Slaves
              /\ j <= Len(s) => j \in Places(request, s) /\ (s \o t)[j] = s[j]
        BY <1>3, PrefixPlaces, Zenon
      <3>2. k \in Places(request, s \o t)  BY DEF passed
      <3> QED  BY <3>1, <3>2 DEF passed
    <2>3. CASE k <= Len(s)
      BY <2>1, <2>2, <2>3 DEF Worked
    <2>4. CASE ~ (k <= Len(s))
      <3>1. k > Len(s)
        BY <1>5, <2>2, <2>4
      <3>2. k \in Deeds(request, passed, Len(s), passed[k])
        BY <3>1 DEF Deeds
      <3>3. /\ Cardinality(Deeds(request, passed, Len(s), passed[k])) \in Nat
            /\ Cardinality(Deeds(request, passed, Len(s), passed[k])) >= 1
        BY <1>5, <3>2, DeedsCount
      <3> QED
        BY <1>6, <2>2, <3>3
    <2> QED
      BY <2>3, <2>4
  <1>12. lost' = lost => arrives
    BY <1>2
  <1>13. lost' \in Nat /\ lost' >= lost
    BY <1>2
  <1>14. ASSUME NEW p \in Port
         PROVE  \/ wire'[p] = wire[p]
                \/ /\ p \in ArrivesAt(port) /\ wire'[p] = Append(wire[p], Whole(port, frame))
                   /\ Honest(request, did, frame) => Honest(request, did', Whole(port, frame))
    <2>1. CASE arrives /\ p \in ArrivesAt(port)
      <3>1. wire'[p] = Append(wire[p], Whole(port, frame))
        BY <1>7, <1>10, <2>1
      <3>2. Honest(request, did, frame) => Honest(request, did', Whole(port, frame))
        BY <1>10, <1>11, <2>1 DEF Honest, s
      <3> QED
        BY <2>1, <3>1, <3>2
    <2>2. CASE ~ (arrives /\ p \in ArrivesAt(port))
      BY <1>7, <2>2
    <2> QED
      BY <2>1, <2>2
  <1>15. DOMAIN wire' = Port
    BY <1>7
  <1>16. ASSUME lost' = lost
         PROVE  /\ \A p \in Port : wire'[p] = IF p \in ArrivesAt(port)
                                              THEN Append(wire[p], Whole(port, frame)) ELSE wire[p]
                /\ \A x \in Slaves : did'[x] = did[x] +
                     IF frame.dummy THEN 0
                     ELSE Cardinality(Deeds(request, Whole(port, frame).passed, Len(frame.passed), x))
    BY <1>6, <1>7, <1>10, <1>12, <1>16 DEF s
  <1> QED
    BY <1>8, <1>9, <1>13, <1>14, <1>15, <1>16

-----------------------------------------------------------------------------
(* Lines and queues of frames.                                             *)

LEMMA ComingStays ==
  ASSUME NEW r, NEW p \in Port, NEW w, NEW d \in [Slaves -> Nat], NEW e \in [Slaves -> Nat],
         Coming(r, d, p, w), \A x \in Slaves : e[x] >= d[x]
  PROVE  Coming(r, e, p, w)
  <1> SUFFICES ASSUME NEW i \in 1 .. Len(w) PROVE Honest(r, e, w[i])
    BY DEF Coming
  <1>1. w[i] \in Arriving(p) /\ Honest(r, d, w[i])  BY DEF Coming
  <1>2. w[i].passed \in Seq(Slaves)  BY <1>1, ArrivingBoth, FrameIs
  <1> QED  BY <1>1, <1>2, HonestStays

LEMMA QueuedStays ==
  ASSUME NEW r, NEW p \in Port, NEW q, NEW d \in [Slaves -> Nat], NEW e \in [Slaves -> Nat],
         Queued(r, d, p, q), \A x \in Slaves : e[x] >= d[x]
  PROVE  Queued(r, e, p, q)
  <1> SUFFICES ASSUME NEW f \in Arriving(p), q = <<f>>, Honest(r, d, f) PROVE Queued(r, e, p, q)
    BY DEF Queued
  <1>1. f.passed \in Seq(Slaves)  BY ArrivingBoth, FrameIs
  <1>2. Honest(r, e, f)  BY <1>1, HonestStays
  <1> QED  BY <1>2 DEF Queued

LEMMA ComingAppend ==
  ASSUME NEW r, NEW d, NEW p, NEW w, NEW f \in Arriving(p), Coming(r, d, p, w), Honest(r, d, f)
  PROVE  Coming(r, d, p, Append(w, f)) /\ Len(Append(w, f)) = Len(w) + 1 /\ Len(w) \in Nat
  <1>1. w \in Seq(Arriving(p)) /\ \A i \in 1 .. Len(w) : Honest(r, d, w[i])  BY DEF Coming
  <1>2. /\ Append(w, f) \in Seq(Arriving(p)) /\ Len(Append(w, f)) = Len(w) + 1 /\ Len(w) \in Nat
        /\ \A i \in 1 .. Len(w) : Append(w, f)[i] = w[i]
        /\ Append(w, f)[Len(w) + 1] = f
    BY <1>1
  <1>3. \A i \in 1 .. Len(w) + 1 : Honest(r, d, Append(w, f)[i])
    <2> TAKE i \in 1 .. Len(w) + 1
    <2>1. i \in 1 .. Len(w) \/ i = Len(w) + 1  BY <1>2
    <2> QED  BY <1>1, <1>2, <2>1
  <1> QED  BY <1>2, <1>3 DEF Coming

LEMMA ComingTail ==
  ASSUME NEW r, NEW d, NEW p, NEW w, Coming(r, d, p, w), w # <<>>
  PROVE  /\ Head(w) \in Arriving(p) /\ Honest(r, d, Head(w)) /\ Head(w) = w[1] /\ 1 \in 1 .. Len(w)
         /\ Coming(r, d, p, Tail(w)) /\ Len(Tail(w)) = Len(w) - 1 /\ Len(w) \in Nat
         /\ \A i \in 1 .. Len(Tail(w)) : Tail(w)[i] = w[i + 1] /\ i + 1 \in 1 .. Len(w)
  <1>1. w \in Seq(Arriving(p)) /\ \A i \in 1 .. Len(w) : Honest(r, d, w[i])  BY DEF Coming
  <1>2. /\ Tail(w) \in Seq(Arriving(p)) /\ Len(Tail(w)) = Len(w) - 1 /\ Len(w) \in Nat
        /\ \A i \in 1 .. Len(w) - 1 : Tail(w)[i] = w[i + 1]
        /\ Len(w) > 0 /\ Head(w) = w[1] /\ w[1] \in Arriving(p)
    BY <1>1
  <1> QED  BY <1>1, <1>2 DEF Coming

LEMMA QueuedHead ==
  ASSUME NEW r, NEW d, NEW p, NEW q, Queued(r, d, p, q), q # <<>>
  PROVE  Head(q) \in Arriving(p) /\ Honest(r, d, Head(q)) /\ q = <<Head(q)>>
  BY DEF Queued

LEMMA QueuedSeq ==
  ASSUME NEW r, NEW d, NEW p, NEW q, Queued(r, d, p, q)
  PROVE  q \in Seq(Arriving(p))
  <1>1. CASE q = <<>>
    BY <1>1
  <1>2. CASE \E f \in Arriving(p) : q = <<f>>
    <2>1. \A f \in Arriving(p) : <<f>> \in Seq(Arriving(p))  OBVIOUS
    <2> QED  BY <1>2, <2>1
  <1> QED  BY <1>1, <1>2 DEF Queued

LEMMA Singles ==
  ASSUME NEW f
  PROVE  <<f>> # <<>> /\ Head(<<f>>) = f /\ Tail(<<f>>) = <<>> /\ Append(<<>>, f) = <<f>>
  OBVIOUS

LEMMA Empties ==
  ASSUME NEW S, NEW w \in Seq(S)
  PROVE  Len(w) \in Nat /\ (Len(w) = 0 => w = <<>>)
  BY EmptySeq

LEMMA WholeRequest ==
  ASSUME NEW port, NEW s
  PROVE  Whole(port, RequestFrame(s)) = RequestFrame(s \o Way(port))
  <1>1. ASSUME NEW t PROVE [RequestFrame(s) EXCEPT !.passed = t] = RequestFrame(t)
    <2>1. \A b : [[src |-> "prim", dummy |-> b, passed |-> s] EXCEPT !.passed = t]
                  = [src |-> "prim", dummy |-> b, passed |-> t]
      OBVIOUS
    <2> QED  BY <2>1, Zenon DEF RequestFrame
  <1>2. RequestFrame(s).passed = s  BY DEF RequestFrame
  <1> QED  BY <1>1, <1>2, Zenon DEF Whole

\* What the three frames that are sent look like when they come in, and where.
LEMMA WholeIs ==
  ASSUME broken \subseteq Links, NEW a \in Reach
  PROVE  /\ Whole("prim", RequestFrame(<<>>)) = Sent(Ahead(broken), N)
         /\ Whole("sec", DummyFrame) = Dummy(Behind(broken))
         /\ Whole("sec", RequestFrame(Row(1, a))) = Sent(a, Behind(broken))
         /\ \A p \in Port : Sent(Ahead(broken), N) \in Arriving(p)
         /\ \A p \in ArrivesAt("sec") : p \in Port /\ Dummy(Behind(broken)) \in Arriving(p)
                                        /\ Sent(a, Behind(broken)) \in Arriving(p)
  <1>1. /\ Ahead(broken) \in Reach /\ Behind(broken) \in Reach
        /\ Way("prim") = Row(1, Ahead(broken)) /\ Way("sec") = Row(Behind(broken) + 1, N)
        /\ broken = {} => Behind(broken) = N
    BY Ways
  <1>2. N \in Reach  BY Counts DEF Reach
  <1>3. /\ <<>> \o Row(1, Ahead(broken)) = Passed(Ahead(broken), N)
        /\ <<>> \o Row(Behind(broken) + 1, N) = Row(Behind(broken) + 1, N)
    BY <1>1, PassedEnds, Rows, ConcatEmptySeq
  <1>4. Whole("prim", RequestFrame(<<>>)) = Sent(Ahead(broken), N)
    BY <1>1, <1>3, WholeRequest, Zenon DEF Sent
  <1>5. Whole("sec", DummyFrame) = Dummy(Behind(broken))
    BY <1>1, <1>3 DEF Whole, DummyFrame, Dummy
  <1>6. Whole("sec", RequestFrame(Row(1, a))) = Sent(a, Behind(broken))
    BY <1>1, WholeRequest, Zenon DEF Sent, Passed
  <1>7. \A p \in Port : Sent(Ahead(broken), N) \in Arriving(p)
    BY <1>1, <1>2 DEF Arriving, ArrivingPrimary, ArrivingSecondary
  <1>8. ASSUME NEW p \in ArrivesAt("sec")
        PROVE  p \in Port /\ Dummy(Behind(broken)) \in Arriving(p) /\ Sent(a, Behind(broken)) \in Arriving(p)
    <2>1. p \in Port  BY DEF ArrivesAt, Port
    <2>2. p = "prim" => broken = {}  BY DEF ArrivesAt
    <2> QED  BY <1>1, <2>1, <2>2 DEF Arriving, ArrivingPrimary, ArrivingSecondary
  <1> QED  BY <1>4, <1>5, <1>6, <1>7, <1>8

-----------------------------------------------------------------------------
(* The steps of the two drivers, as far as the invariant tells them apart. *)

RxStat == [Port -> {"ALLOC", "EMPTY", "TX", "COMPLETE"}]

Sends(port, frame) ==
    /\ DOMAIN msgQ' = Port /\ msgQ'["prim"] = <<>> /\ msgQ'["sec"] = msgQ["sec"]
    /\ early' \in BOOLEAN
    /\ ~early' => ~early /\ (port = "sec" => msgQ["prim"] = <<>>)
    /\ rxbufstat' \in RxStat /\ \A p \in Port \ {port} : rxbufstat'[p] = rxbufstat[p]
    /\ \/ Transmit(port, frame) /\ failed' = failed /\ (driver = "mux" => rxbufstat'[port] = "TX")
       \/ failed' = failed + 1 /\ UNCHANGED <<wire, did, lost>>

\* A frame is taken from the line, or from the queue.
Drawn(port, frame) ==
    /\ \/ /\ wire[port] # <<>> /\ frame = Head(wire[port])
          /\ wire' = [wire EXCEPT ![port] = Tail(wire[port])] /\ msgQ' = msgQ
       \/ /\ msgQ[port] # <<>> /\ frame = Head(msgQ[port])
          /\ msgQ' = [msgQ EXCEPT ![port] = <<>>] /\ wire' = wire
    /\ rxbufstat' \in RxStat

Asks ==
    /\ pc = "send" /\ pc' = "dummy"
    /\ Sends("prim", RequestFrame(<<>>))
    /\ UNCHANGED <<request, broken, txbuf, rxbuf, rxsa, wkc, wkc2, attempts,
                   changes, late, driver>>

Probes ==
    /\ pc = "dummy" /\ pc' = "wait"
    /\ Sends("sec", DummyFrame)
    /\ wkc' = NOFRAME /\ wkc2' = NOFRAME
    /\ UNCHANGED <<request, broken, txbuf, rxbuf, rxsa, attempts, changes,
                   late, driver>>

Posts(port) == mux_rx_callback(port) /\ driver = "mux"

Hears(port) ==
    /\ pc = "wait" /\ pc' = pc
    /\ \E frame :
         /\ Drawn(port, frame)
         /\ rxbuf' = [rxbuf EXCEPT ![port] = frame] /\ rxsa' = [rxsa EXCEPT ![port] = frame.src]
         /\ IF port = "prim" THEN wkc = NOFRAME /\ wkc' = Wkc(frame) /\ wkc2' = wkc2
            ELSE wkc2 = NOFRAME /\ wkc2' = Wkc(frame) /\ wkc' = wkc
    /\ \A p \in Port \ {port} : rxbufstat'[p] = rxbufstat[p]
    /\ UNCHANGED <<request, broken, txbuf, did, attempts, changes, lost, late,
                   driver, failed, early>>

Stops ==
    /\ pc = "wait" /\ pc' = "route"
    /\ late' = late + MuxLeft
    /\ UNCHANGED <<request, broken, txbuf, rxbuf, rxsa, wkc, wkc2, wire, did,
                   attempts, changes, lost, muxVars>>

Decides ==
    /\ TakeSecondary \/ TakePrimary
    /\ rxbufstat' \in RxStat
    /\ UNCHANGED <<driver, msgQ, failed, early>>

Resends ==
    /\ pc = "route" /\ Reroutes /\ pc' = "again"
    /\ txbuf' = IF primrx = "prim" THEN rxbuf["prim"].passed ELSE txbuf
    /\ Sends("sec", RequestFrame(txbuf'))
    /\ UNCHANGED <<request, broken, rxbuf, rxsa, wkc, wkc2, attempts, changes,
                   late, driver>>

HearsAgain ==
    /\ pc = "again"
    /\ \E frame :
         /\ Drawn("sec", frame)
         /\ rxbuf' = [p \in Port |-> frame] /\ rxsa' = [rxsa EXCEPT !["sec"] = frame.src]
         /\ wkc2' = Wkc(frame) /\ wkc' = Wkc(frame) /\ Answered(Wkc(frame))
    /\ UNCHANGED <<request, broken, txbuf, did, changes, lost, late, driver, failed, early>>

StopsAgain ==
    /\ pc = "again" /\ Answered(wkc) /\ wkc2' = NOFRAME
    /\ late' = late + MuxLeft
    /\ rxbufstat' \in RxStat
    /\ UNCHANGED <<request, broken, txbuf, rxbuf, rxsa, wkc, wire, did, changes,
                   lost, driver, msgQ, failed, early>>

LEMMA Steps ==
  ASSUME IInv, NextOf
  PROVE  \/ Change /\ UNCHANGED muxVars
         \/ Asks \/ Probes \/ (\E port \in Port : Posts(port)) \/ (\E port \in Port : Hears(port))
         \/ Stops \/ Decides \/ Resends \/ HearsAgain \/ StopsAgain
  <1>1. /\ rxbufstat \in RxStat /\ early \in BOOLEAN /\ DOMAIN msgQ = Port
        /\ driver = "pcap" => msgQ["prim"] = <<>> /\ msgQ["sec"] = <<>>
        /\ pc = "send" => txbuf = <<>>
    BY DEF IInv, Typed, OnWire, Buffers, RxStat, Port
  <1>2. driver = "pcap" => Left = MuxLeft
    <2> SUFFICES ASSUME driver = "pcap" PROVE Left = MuxLeft
      OBVIOUS
    <2>1. wire["prim"] \in Seq(Arriving("prim")) /\ wire["sec"] \in Seq(Arriving("sec"))
      BY DEF IInv, OnWire, Coming, Port
    <2>2. Len(wire["prim"]) \in Nat /\ Len(wire["sec"]) \in Nat
      BY <2>1, Empties
    <2>3. Left \in Nat
      <3>1. \A x, y \in Nat : x + y \in Nat  OBVIOUS
      <3>2. Len(wire["prim"]) + Len(wire["sec"]) \in Nat  BY <2>2, <3>1, Zenon
      <3> QED  BY <3>2 DEF Left
    <2>4. Len(msgQ["prim"]) = 0 /\ Len(msgQ["sec"]) = 0
      BY <1>1
    <2>5. MuxLeft = Left + 0 + 0
      BY <2>4, Zenon DEF MuxLeft
    <2> QED  BY <2>3, <2>5
  <1>3. ASSUME driver = "pcap", Next, UNCHANGED muxVars
        PROVE  \/ Change /\ UNCHANGED muxVars
               \/ Asks \/ Probes \/ (\E port \in Port : Hears(port))
               \/ Stops \/ Decides \/ Resends \/ HearsAgain \/ StopsAgain
    <2>1. /\ driver' = driver /\ rxbufstat' = rxbufstat /\ msgQ' = msgQ /\ failed' = failed
          /\ early' = early
      BY <1>3 DEF muxVars, queues
    <2>2. ASSUME NEW port, NEW frame, Transmit(port, frame) PROVE Sends(port, frame)
      BY <1>1, <1>3, <2>1, <2>2 DEF Sends
    <2>3. CASE SendRequest
      BY <1>1, <2>1, <2>2, <2>3 DEF SendRequest, Asks
    <2>4. CASE SendDummy
      BY <2>1, <2>2, <2>4 DEF SendDummy, Probes
    <2>5. CASE ReceivePrimary
      <3>1. Hears("prim")
        BY <1>1, <2>1, <2>5 DEF ReceivePrimary, Inframe, Hears, Drawn
      <3> QED  BY <3>1 DEF Port
    <2>6. CASE ReceiveSecondary
      <3>1. Hears("sec")
        BY <1>1, <2>1, <2>6 DEF ReceiveSecondary, Inframe, Hears, Drawn
      <3> QED  BY <3>1 DEF Port
    <2>7. CASE WaitEnds
      BY <1>2, <1>3, <2>7 DEF WaitEnds, Stops
    <2>8. CASE TakeSecondary \/ TakePrimary
      BY <1>1, <2>1, <2>8 DEF Decides
    <2>9. CASE Reroute
      BY <2>1, <2>2, <2>9 DEF Reroute, Resends
    <2>10. CASE RerouteAnswered
      <3>1. Drawn("sec", Head(wire["sec"]))
        BY <1>1, <2>1, <2>10 DEF RerouteAnswered, Drawn
      <3> QED  BY <2>1, <2>10, <3>1 DEF RerouteAnswered, HearsAgain
    <2>11. CASE RerouteTimeout
      BY <1>1, <1>2, <1>3, <2>1, <2>11 DEF RerouteTimeout, StopsAgain
    <2> QED  BY <1>3, <2>3, <2>4, <2>5, <2>6, <2>7, <2>8, <2>9, <2>10, <2>11 DEF Next
  <1>4. ASSUME driver = "mux", MuxNext
        PROVE  \/ Change /\ UNCHANGED muxVars
               \/ Asks \/ Probes \/ (\E port \in Port : Posts(port)) \/ (\E port \in Port : Hears(port))
               \/ Stops \/ Decides \/ Resends \/ HearsAgain \/ StopsAgain
    <2>1. ASSUME NEW port \in Port, NEW frame, OutframSend(port, frame) PROVE Sends(port, frame)
      BY <1>1, <2>1 DEF OutframSend, Sends, RxStat, Port
    <2>2. CASE MuxSendRequest
      BY <1>1, <2>1, <2>2 DEF MuxSendRequest, Asks, Port
    <2>3. CASE MuxSendDummy
      BY <2>1, <2>3 DEF MuxSendDummy, Probes, Port
    <2>4. CASE MuxReceivePrimary
      <3>1. Hears("prim")
        BY <1>1, <2>4 DEF MuxReceivePrimary, MuxInframe, Hears, Drawn, RxStat, Port
      <3> QED  BY <3>1 DEF Port
    <2>5. CASE MuxReceiveSecondary
      <3>1. Hears("sec")
        BY <1>1, <2>5 DEF MuxReceiveSecondary, MuxInframe, Hears, Drawn, RxStat, Port
      <3> QED  BY <3>1 DEF Port
    <2>6. CASE MuxWaitEnds
      BY <2>6 DEF MuxWaitEnds, Stops
    <2>7. Released \in RxStat
      BY DEF Released, RxStat
    <2>8. CASE MuxTake
      BY <1>1, <2>7, <2>8 DEF MuxTake, Frees, Decides
    <2>9. CASE MuxReroute
      BY <2>1, <2>9 DEF MuxReroute, Resends, Port
    <2>10. CASE MuxRerouteAnswered
      <3>1. Drawn("sec", Head(msgQ["sec"]))
        BY <1>1, <2>7, <2>10 DEF MuxRerouteAnswered, Drawn, RxStat, Port
      <3> QED  BY <2>10, <3>1 DEF MuxRerouteAnswered, HearsAgain
    <2>11. CASE MuxRerouteTimeout
      BY <1>1, <2>7, <2>11 DEF MuxRerouteTimeout, StopsAgain, Frees
    <2> QED  BY <1>4, <2>2, <2>3, <2>4, <2>5, <2>6, <2>8, <2>9, <2>10, <2>11 DEF MuxNext, Posts
  <1> QED  BY <1>3, <1>4 DEF NextOf

-----------------------------------------------------------------------------
(* Sending a frame.                                                        *)

LEMMA Sending ==
  ASSUME NEW port \in Port, NEW frame, Typed, OnWire, Sends(port, frame),
         frame.passed \in Seq(Slaves), frame.dummy \in BOOLEAN, DOMAIN frame = {"src", "dummy", "passed"},
         Honest(request, did, frame),
         \A p \in ArrivesAt(port) : Whole(port, frame) \in Arriving(p)
  PROVE  /\ did' \in [Slaves -> Nat] /\ \A x \in Slaves : did'[x] >= did[x]
         /\ lost' \in Nat /\ lost' >= lost /\ failed' \in Nat /\ failed' >= failed
         /\ DOMAIN wire' = Port
         /\ \A p \in Port : /\ Coming(request, did', p, wire'[p])
                            /\ Len(wire[p]) \in Nat /\ Len(wire'[p]) \in Nat
                            /\ Len(wire'[p]) <= Len(wire[p]) + 1
         /\ \A p \in Port : Queued(request, did', p, msgQ'[p])
         /\ driver = "pcap" => \A p \in Port : msgQ'[p] = <<>>
  <1>1. /\ broken \subseteq Links /\ did \in [Slaves -> Nat] /\ lost \in Nat /\ failed \in Nat
        /\ DOMAIN wire = Port
    BY DEF Typed
  <1>2. \A p \in Port : Coming(request, did, p, wire[p]) /\ Len(wire[p]) \in Nat
    BY Empties DEF OnWire, Coming
  <1>3. /\ did' \in [Slaves -> Nat] /\ \A x \in Slaves : did'[x] >= did[x]
        /\ lost' \in Nat /\ lost' >= lost /\ failed' \in Nat /\ failed' >= failed
        /\ DOMAIN wire' = Port
        /\ \A p \in Port :
              \/ wire'[p] = wire[p]
              \/ /\ p \in ArrivesAt(port) /\ wire'[p] = Append(wire[p], Whole(port, frame))
                 /\ Honest(request, did', Whole(port, frame))
    <2>1. CASE Transmit(port, frame) /\ failed' = failed
      BY <1>1, <2>1, Transmits
    <2>2. CASE failed' = failed + 1 /\ UNCHANGED <<wire, did, lost>>
      BY <1>1, <2>2
    <2> QED  BY <2>1, <2>2 DEF Sends
  <1>4. ASSUME NEW p \in Port
        PROVE  /\ Coming(request, did', p, wire'[p]) /\ Len(wire'[p]) \in Nat
               /\ Len(wire'[p]) <= Len(wire[p]) + 1
    <2>1. Coming(request, did', p, wire[p])
      BY <1>1, <1>2, <1>3, ComingStays
    <2>2. CASE wire'[p] = wire[p]
      BY <1>2, <2>1, <2>2
    <2>3. CASE /\ p \in ArrivesAt(port) /\ wire'[p] = Append(wire[p], Whole(port, frame))
               /\ Honest(request, did', Whole(port, frame))
      <3>1. /\ Coming(request, did', p, Append(wire[p], Whole(port, frame)))
            /\ Len(Append(wire[p], Whole(port, frame))) = Len(wire[p]) + 1
        BY <2>1, <2>3, ComingAppend
      <3> QED  BY <1>2, <2>3, <3>1
    <2> QED  BY <1>3, <2>2, <2>3
  <1>5. ASSUME NEW p \in Port PROVE Queued(request, did', p, msgQ'[p])
    <2>1. CASE p = "prim"
      BY <2>1 DEF Sends, Queued
    <2>2. CASE p = "sec"
      <3>1. Queued(request, did, p, msgQ[p])
        BY <2>2 DEF OnWire
      <3>2. Queued(request, did', p, msgQ[p])
        BY <1>1, <1>3, <3>1, QueuedStays
      <3> QED  BY <2>2, <3>2 DEF Sends
    <2> QED  BY <2>1, <2>2 DEF Port
  <1>6. driver = "pcap" => \A p \in Port : msgQ'[p] = <<>>
    BY DEF Sends, OnWire, Port
  <1> QED  BY <1>2, <1>3, <1>4, <1>5, <1>6

\* What was done before a step stays done.
LEMMA BuffersStay ==
  ASSUME NEW e \in [Slaves -> Nat], Typed, Buffers, \A x \in Slaves : e[x] >= did[x]
  PROVE  /\ \A p \in Port : Honest(request, e, rxbuf[p])
         /\ Worked(request, e, txbuf)
  <1>1. did \in [Slaves -> Nat]  BY DEF Typed
  <1>2. ASSUME NEW p \in Port PROVE Honest(request, e, rxbuf[p])
    <2>1. rxbuf[p] \in ArrivingSecondary \cup {NoFrame} /\ Honest(request, did, rxbuf[p])
      BY DEF Buffers
    <2>2. NoFrame.passed = <<>>
      BY DEF NoFrame
    <2>3. rxbuf[p].passed \in Seq(Slaves)
      <3>1. \A f \in ArrivingSecondary : f.passed \in Seq(Slaves)  BY FrameIs
      <3>2. NoFrame.passed \in Seq(Slaves)  BY <2>2
      <3> QED  BY <2>1, <3>1, <3>2, Zenon
    <2> QED  BY <1>1, <2>1, <2>3, HonestStays
  <1>3. txbuf \in Seq(Slaves) /\ Worked(request, did, txbuf)
    BY Rows DEF Buffers
  <1> QED  BY <1>1, <1>2, <1>3, WorkedStays

-----------------------------------------------------------------------------
(* Each step preserves what holds in every exchange.                       *)

Safe == Typed /\ Buffers /\ OnWire /\ Room /\ Inbox /\ Quiet

\* The lines and queues behind a send.
LEMMA SendKeeps ==
  ASSUME NEW port \in Port, NEW frame, Safe, Sends(port, frame),
         frame.passed \in Seq(Slaves), frame.dummy \in BOOLEAN, DOMAIN frame = {"src", "dummy", "passed"},
         Honest(request, did, frame),
         \A p \in ArrivesAt(port) : Whole(port, frame) \in Arriving(p),
         UNCHANGED <<request, driver, attempts>>, Turn' = Turn + 1
  PROVE  /\ OnWire' /\ Room' /\ did' \in [Slaves -> Nat] /\ lost' \in Nat /\ failed' \in Nat
         /\ DOMAIN wire' = Port /\ DOMAIN msgQ' = Port /\ early' \in BOOLEAN
         /\ rxbufstat' \in [Port -> {"ALLOC", "EMPTY", "TX", "COMPLETE"}]
         /\ \A p \in Port : Honest(request, did', rxbuf[p])
         /\ \A passed \in Seq(Slaves) : Worked(request, did, passed) => Worked(request, did', passed)
  <1>1. Typed /\ OnWire /\ Buffers /\ Room  BY DEF Safe
  <1>2. /\ did' \in [Slaves -> Nat] /\ \A x \in Slaves : did'[x] >= did[x]
        /\ lost' \in Nat /\ failed' \in Nat /\ DOMAIN wire' = Port
        /\ \A p \in Port : /\ Coming(request, did', p, wire'[p])
                           /\ Len(wire[p]) \in Nat /\ Len(wire'[p]) \in Nat
                           /\ Len(wire'[p]) <= Len(wire[p]) + 1
        /\ \A p \in Port : Queued(request, did', p, msgQ'[p])
        /\ driver = "pcap" => \A p \in Port : msgQ'[p] = <<>>
    BY <1>1, Sending
  <1>3. OnWire'
    BY <1>2 DEF OnWire
  <1>4. Room'
    <2>1. attempts \in Nat /\ Turn \in Nat
      BY <1>1, Counts DEF Typed, Turn
    <2> SUFFICES ASSUME NEW p \in Port PROVE Len(wire'[p]) <= 3 * (attempts' - 1) + Turn'
      BY DEF Room
    <2>2. Len(wire[p]) <= 3 * (attempts - 1) + Turn
      BY <1>1 DEF Room
    <2>3. Len(wire[p]) \in Nat /\ Len(wire'[p]) \in Nat /\ Len(wire'[p]) <= Len(wire[p]) + 1
      BY <1>2
    <2> QED  BY <2>1, <2>2, <2>3
  <1>5. \A p \in Port : Honest(request, did', rxbuf[p])
    BY <1>1, <1>2, BuffersStay
  <1>6. \A passed \in Seq(Slaves) : Worked(request, did, passed) => Worked(request, did', passed)
    BY <1>1, <1>2, WorkedStays DEF Typed
  <1> QED  BY <1>2, <1>3, <1>4, <1>5, <1>6 DEF Sends, RxStat

LEMMA AsksKeeps == ASSUME Safe, Asks PROVE Safe'
  <1> USE DEF Asks
  <1>1. Typed /\ Buffers /\ pc = "send" /\ pc' = "dummy"  BY DEF Safe
  <1> DEFINE frame == RequestFrame(<<>>)
  <1>2. /\ frame.passed = <<>> /\ frame.dummy = FALSE /\ DOMAIN frame = {"src", "dummy", "passed"}
    BY DEF RequestFrame
  <1>3. frame.passed \in Seq(Slaves) /\ frame.dummy \in BOOLEAN
    <2>1. <<>> \in Seq(Slaves)  OBVIOUS
    <2> QED  BY <1>2, <2>1, Zenon
  <1>4. Honest(request, did, frame)
    BY <1>2 DEF Honest, Worked, Places
  <1>5. \A p \in ArrivesAt("prim") : Whole("prim", frame) \in Arriving(p)
    <2>1. 0 \in Reach  BY Counts DEF Reach
    <2>2. ArrivesAt("prim") \subseteq Port  BY DEF ArrivesAt, Port
    <2> QED  BY <1>1, <2>1, <2>2, WholeIs DEF Typed
  <1>6. Turn' = Turn + 1
    BY <1>1 DEF Turn
  <1>7. "prim" \in Port /\ Sends("prim", frame) /\ UNCHANGED <<request, driver, attempts>>
    BY DEF Port
  <1> HIDE DEF frame
  <1>8. /\ OnWire' /\ Room' /\ did' \in [Slaves -> Nat] /\ lost' \in Nat /\ failed' \in Nat
        /\ DOMAIN wire' = Port /\ DOMAIN msgQ' = Port /\ early' \in BOOLEAN
        /\ rxbufstat' \in [Port -> {"ALLOC", "EMPTY", "TX", "COMPLETE"}]
        /\ \A p \in Port : Honest(request, did', rxbuf[p])
        /\ \A passed \in Seq(Slaves) : Worked(request, did, passed) => Worked(request, did', passed)
    BY <1>2, <1>3, <1>4, <1>5, <1>6, <1>7, SendKeeps
  <1>9. Typed'
    BY <1>1, <1>8 DEF Typed
  <1>10. Buffers'
    <2>1. txbuf \in Seq(Slaves)  BY <1>1, Rows DEF Buffers
    <2> QED  BY <1>1, <1>8, <2>1 DEF Buffers
  <1>11. Inbox' /\ Quiet'
    BY <1>1 DEF Inbox, Quiet
  <1> QED  BY <1>8, <1>9, <1>10, <1>11 DEF Safe

LEMMA ProbesKeeps == ASSUME Safe, Probes PROVE Safe'
  <1> USE DEF Probes
  <1>1. Typed /\ Buffers /\ pc = "dummy" /\ pc' = "wait"  BY DEF Safe
  <1>2. /\ DummyFrame.passed = <<>> /\ DummyFrame.dummy = TRUE
        /\ DOMAIN DummyFrame = {"src", "dummy", "passed"}
    BY DEF DummyFrame
  <1>3. DummyFrame.passed \in Seq(Slaves) /\ DummyFrame.dummy \in BOOLEAN
    <2>1. <<>> \in Seq(Slaves)  OBVIOUS
    <2> QED  BY <1>2, <2>1, Zenon
  <1>4. Honest(request, did, DummyFrame)
    BY <1>2 DEF Honest
  <1>5. \A p \in ArrivesAt("sec") : Whole("sec", DummyFrame) \in Arriving(p)
    <2>1. 0 \in Reach  BY Counts DEF Reach
    <2> QED  BY <1>1, <2>1, WholeIs DEF Typed
  <1>6. Turn' = Turn + 1
    BY <1>1 DEF Turn
  <1>7. "sec" \in Port /\ Sends("sec", DummyFrame) /\ UNCHANGED <<request, driver, attempts>>
    BY DEF Port
  <1>8. /\ OnWire' /\ Room' /\ did' \in [Slaves -> Nat] /\ lost' \in Nat /\ failed' \in Nat
        /\ DOMAIN wire' = Port /\ DOMAIN msgQ' = Port /\ early' \in BOOLEAN
        /\ rxbufstat' \in [Port -> {"ALLOC", "EMPTY", "TX", "COMPLETE"}]
        /\ \A p \in Port : Honest(request, did', rxbuf[p])
        /\ \A passed \in Seq(Slaves) : Worked(request, did, passed) => Worked(request, did', passed)
    BY <1>2, <1>3, <1>4, <1>5, <1>6, <1>7, SendKeeps
  <1>9. Typed'
    BY <1>1, <1>8, Counts DEF Typed, NOFRAME
  <1>10. Buffers'
    <2>1. txbuf \in Seq(Slaves)  BY <1>1, Rows DEF Buffers
    <2> QED  BY <1>1, <1>8, <2>1 DEF Buffers
  <1>11. Inbox' /\ Quiet'
    BY <1>1 DEF Inbox, Quiet, Received, NOFRAME
  <1> QED  BY <1>8, <1>9, <1>10, <1>11 DEF Safe

LEMMA ResendsKeeps == ASSUME Safe, Resends PROVE Safe'
  <1> USE DEF Resends
  <1>1. Typed /\ Buffers /\ Inbox /\ Quiet /\ OnWire /\ pc = "route" /\ pc' = "again"  BY DEF Safe
  <1>2. PICK a \in Reach : /\ txbuf' = Row(1, a) /\ Worked(request, did, Row(1, a))
                           /\ wkc = NOFRAME => txbuf' = <<>>
                           /\ wkc > NOFRAME => ~rxbuf["prim"].dummy
    <2>1. CASE primrx = "prim"
      <3>1. wkc > NOFRAME /\ rxsa["prim"] = "prim"
        BY <2>1 DEF primrx
      <3>2. rxbuf["prim"] \in ArrivingPrimary /\ rxbuf["prim"].src = "prim"
        BY <1>1, <3>1 DEF Inbox, Received, Arriving
      <3>3. ~rxbuf["prim"].dummy /\ Honest(request, did, rxbuf["prim"])
        BY <1>1, <3>2, ArrivingBoth, FrameIs DEF Buffers, Port
      <3>4. PICK a \in Reach : rxbuf["prim"] = Sent(a, N)
        <4>1. Dummy(N).dummy = TRUE  BY DEF Dummy, DummyFrame
        <4> QED  BY <3>2, <3>3, <4>1 DEF ArrivingPrimary
      <3>5. Sent(a, N).passed = Passed(a, N)
        BY DEF Sent, RequestFrame
      <3>6. txbuf' = Row(1, a)
        BY <2>1, <3>4, <3>5, PassedEnds
      <3>7. Worked(request, did, Row(1, a))
        BY <3>3, <3>4, <3>5, PassedEnds DEF Honest
      <3> QED  BY <3>1, <3>3, <3>6, <3>7 DEF NOFRAME
    <2>2. CASE primrx # "prim"
      <3>1. txbuf' = <<>> /\ txbuf = <<>> /\ Worked(request, did, <<>>)
        BY <1>1, <2>2 DEF Buffers
      <3>2. 0 \in Reach /\ Row(1, 0) = <<>>
        BY Counts, PassedEnds DEF Reach
      <3>3. wkc > NOFRAME => FALSE
        BY <1>1, <2>2, ArrivingBoth, FrameIs DEF Reroutes, primrx, Inbox, Received, Arriving
      <3> QED  BY <3>1, <3>2, <3>3
    <2> QED  BY <2>1, <2>2
  <1> DEFINE frame == RequestFrame(Row(1, a))
  <1>3. Row(1, a) \in Seq(Slaves)
    BY Rows
  <1>4. /\ frame.passed = Row(1, a) /\ frame.dummy = FALSE /\ DOMAIN frame = {"src", "dummy", "passed"}
    BY DEF RequestFrame
  <1>5. frame.passed \in Seq(Slaves) /\ frame.dummy \in BOOLEAN
    BY <1>3, <1>4
  <1>6. Honest(request, did, frame)
    BY <1>2, <1>4 DEF Honest
  <1>7. \A p \in ArrivesAt("sec") : Whole("sec", frame) \in Arriving(p)
    BY <1>1, WholeIs DEF Typed
  <1>8. Turn' = Turn + 1
    BY <1>1 DEF Turn
  <1>9. "sec" \in Port /\ Sends("sec", frame) /\ UNCHANGED <<request, driver, attempts>>
    BY <1>2 DEF Port
  <1>10. Whole("sec", frame) = Sent(a, Behind(broken))
    BY <1>1, WholeIs DEF Typed
  <1> HIDE DEF frame
  <1>11. /\ OnWire' /\ Room' /\ did' \in [Slaves -> Nat] /\ lost' \in Nat /\ failed' \in Nat
         /\ DOMAIN wire' = Port /\ DOMAIN msgQ' = Port /\ early' \in BOOLEAN
         /\ rxbufstat' \in [Port -> {"ALLOC", "EMPTY", "TX", "COMPLETE"}]
         /\ \A p \in Port : Honest(request, did', rxbuf[p])
         /\ \A passed \in Seq(Slaves) : Worked(request, did, passed) => Worked(request, did', passed)
    BY <1>4, <1>5, <1>6, <1>7, <1>8, <1>9, SendKeeps
  <1>12. Typed'
    BY <1>1, <1>11 DEF Typed
  <1>13. Buffers'
    BY <1>1, <1>2, <1>3, <1>11 DEF Buffers
  <1>14. Inbox'
    BY <1>1, <1>2, <1>9 DEF Inbox, Received
  <1>15. Quiet'
    <2> SUFFICES ASSUME late = 0
                 PROVE  /\ \A i \in 1 .. Len(wire'["sec"]) : ~wire'["sec"][i].dummy
                        /\ msgQ'["sec"] = <<>>
      BY <1>1 DEF Quiet
    <2>1. wire["sec"] = <<>> /\ msgQ["sec"] = <<>>
      BY <1>1 DEF Quiet, Port
    <2>2. msgQ'["sec"] = <<>>
      BY <1>9, <2>1 DEF Sends
    <2>3. wire'["sec"] = wire["sec"] \/ wire'["sec"] = Append(wire["sec"], Sent(a, Behind(broken)))
      <3>1. CASE Transmit("sec", frame)
        BY <1>1, <1>4, <1>5, <1>9, <1>10, <3>1, Transmits DEF Typed
      <3>2. CASE wire' = wire
        BY <3>2
      <3> QED  BY <1>9, <3>1, <3>2 DEF Sends
    <2>4. Sent(a, Behind(broken)).dummy = FALSE
      BY DEF Sent, RequestFrame
    <2>5. wire'["sec"] = <<>> \/ wire'["sec"] = <<Sent(a, Behind(broken))>>
      BY <2>1, <2>3, Singles
    <2>6. \A i \in 1 .. Len(wire'["sec"]) : wire'["sec"][i] = Sent(a, Behind(broken))
      BY <2>5
    <2> QED  BY <2>2, <2>4, <2>6
  <1> QED  BY <1>11, <1>12, <1>13, <1>14, <1>15 DEF Safe

LEMMA ChangeKeeps == ASSUME Safe, Change, UNCHANGED muxVars PROVE Safe'
  <1> USE DEF Change, muxVars, queues
  <1>1. broken' \subseteq Links
    BY DEF Safe, Typed
  <1>2. Typed'
    BY <1>1 DEF Safe, Typed
  <1>3. Buffers' /\ OnWire' /\ Room'
    BY DEF Safe, Buffers, OnWire, Room, Turn
  <1>4. Inbox' /\ Quiet'
    BY DEF Safe, Inbox, Received, Quiet
  <1> QED  BY <1>2, <1>3, <1>4 DEF Safe

\* A task of the network stack posts a frame.
LEMMA PostsKeeps == ASSUME Safe, NEW port \in Port, Posts(port) PROVE Safe'
  <1> USE DEF Posts, mux_rx_callback
  <1>1. /\ Typed /\ Buffers /\ OnWire /\ Room /\ Inbox /\ Quiet
        /\ DOMAIN wire = Port /\ DOMAIN msgQ = Port
    BY DEF Safe, Typed
  <1> DEFINE f == Head(wire[port])
  <1>2. \A p \in Port : Coming(request, did, p, wire[p]) /\ Len(wire[p]) \in Nat
    BY <1>1, Empties DEF OnWire, Coming
  <1>3. /\ f \in Arriving(port) /\ Honest(request, did, f) /\ f = wire[port][1] /\ 1 \in 1 .. Len(wire[port])
        /\ Coming(request, did, port, Tail(wire[port])) /\ Len(Tail(wire[port])) = Len(wire[port]) - 1
        /\ \A i \in 1 .. Len(Tail(wire[port])) : /\ Tail(wire[port])[i] = wire[port][i + 1]
                                                 /\ i + 1 \in 1 .. Len(wire[port])
    BY <1>2, ComingTail
  <1> HIDE DEF f
  <1>4. /\ DOMAIN wire' = Port /\ DOMAIN msgQ' = Port
        /\ \A p \in Port : wire'[p] = IF p = port THEN Tail(wire[port]) ELSE wire[p]
        /\ \A p \in Port : msgQ'[p] = msgQ[p] \/ (p = port /\ msgQ'[p] = <<f>>)
    BY <1>1 DEF f
  <1>5. Typed'
    BY <1>1, <1>4 DEF Typed
  <1>6. Buffers'
    BY <1>1 DEF Buffers
  <1>7. OnWire'
    <2>1. \A p \in Port : Coming(request, did, p, wire'[p])
      BY <1>2, <1>3, <1>4
    <2>2. \A p \in Port : \/ Queued(request, did, p, msgQ'[p])
                          \/ pc = "send" /\ p = "prim" /\ msgQ'[p] = <<Abandoned>>
      <3> TAKE p \in Port
      <3>1. \/ Queued(request, did, p, msgQ[p])
            \/ pc = "send" /\ p = "prim" /\ msgQ[p] = <<Abandoned>>
        BY <1>1 DEF OnWire
      <3>2. Queued(request, did, port, <<f>>)
        BY <1>3, Zenon DEF Queued
      <3>3. CASE msgQ'[p] = msgQ[p]
        BY <3>1, <3>3, Zenon
      <3>4. CASE p = port /\ msgQ'[p] = <<f>>
        BY <3>2, <3>4, Zenon
      <3> QED  BY <1>4, <3>3, <3>4, Zenon
    <2> QED  BY <2>1, <2>2 DEF OnWire
  <1>8. Room'
    <2> SUFFICES ASSUME NEW p \in Port PROVE Len(wire'[p]) <= 3 * (attempts - 1) + Turn
      BY DEF Room, Turn
    <2>1. attempts \in Nat /\ Turn \in Nat
      BY <1>1, Counts DEF Typed, Turn
    <2>2. Len(wire[p]) <= 3 * (attempts - 1) + Turn
      BY <1>1 DEF Room
    <2>3. Len(wire'[p]) = Len(wire[p]) \/ Len(wire'[p]) = Len(wire[p]) - 1
      BY <1>3, <1>4
    <2> QED  BY <1>2, <2>1, <2>2, <2>3
  <1>9. Inbox'
    BY <1>1 DEF Inbox, Received
  <1>10. Quiet'
    <2> SUFFICES ASSUME late = 0
                 PROVE  /\ pc # "route"
                        /\ pc = "again" => /\ \A i \in 1 .. Len(wire'["sec"]) : ~wire'["sec"][i].dummy
                                           /\ msgQ'["sec"] # <<>> => ~Head(msgQ'["sec"]).dummy
      BY DEF Quiet
    <2>1. pc # "route"
      BY <1>1 DEF Quiet
    <2>2. ASSUME pc = "again"
          PROVE  /\ \A i \in 1 .. Len(wire'["sec"]) : ~wire'["sec"][i].dummy
                 /\ msgQ'["sec"] # <<>> => ~Head(msgQ'["sec"]).dummy
      <3>1. /\ \A i \in 1 .. Len(wire["sec"]) : ~wire["sec"][i].dummy
            /\ msgQ["sec"] # <<>> => ~Head(msgQ["sec"]).dummy
        BY <1>1, <2>2 DEF Quiet
      <3>2. CASE port = "sec"
        <4>1. ~f.dummy
          BY <1>3, <3>1, <3>2
        <4>2. wire'["sec"] = Tail(wire["sec"])
          BY <1>4, <3>2
        <4>3. \A i \in 1 .. Len(wire'["sec"]) : ~wire'["sec"][i].dummy
          BY <1>3, <3>1, <3>2, <4>2
        <4>4. msgQ'["sec"] = msgQ["sec"] \/ Head(msgQ'["sec"]) = f
          BY <1>4, <3>2, Singles
        <4> QED  BY <3>1, <4>1, <4>3, <4>4
      <3>3. CASE port # "sec"
        BY <1>4, <3>1, <3>3 DEF Port
      <3> QED  BY <3>2, <3>3
    <2> QED  BY <2>1, <2>2
  <1> QED  BY <1>5, <1>6, <1>7, <1>8, <1>9, <1>10 DEF Safe

LEMMA Draws ==
  ASSUME NEW port \in Port, NEW frame, Safe, Drawn(port, frame), pc # "send"
  PROVE  /\ frame \in Arriving(port) /\ frame \in ArrivingSecondary /\ Honest(request, did, frame)
         /\ Wkc(frame) = Counted(request, frame) /\ Wkc(frame) \in 0 .. 2 * N
         /\ DOMAIN wire' = Port /\ DOMAIN msgQ' = Port
         /\ \A p \in Port : /\ Coming(request, did, p, wire'[p]) /\ Queued(request, did, p, msgQ'[p])
                            /\ Len(wire[p]) \in Nat /\ Len(wire'[p]) \in Nat
                            /\ Len(wire'[p]) <= Len(wire[p])
         /\ driver = "pcap" => \A p \in Port : msgQ'[p] = <<>>
         /\ \/ frame = wire[port][1] /\ 1 \in 1 .. Len(wire[port])
            \/ frame = Head(msgQ[port]) /\ msgQ[port] # <<>>
  <1>1. OnWire /\ DOMAIN wire = Port /\ DOMAIN msgQ = Port
    BY DEF Safe, Typed
  <1>2. \A p \in Port : /\ Coming(request, did, p, wire[p]) /\ Len(wire[p]) \in Nat
                        /\ Queued(request, did, p, msgQ[p])
    BY <1>1, Empties DEF OnWire, Coming
  <1>3. /\ frame \in Arriving(port) /\ Honest(request, did, frame)
        /\ DOMAIN wire' = Port /\ DOMAIN msgQ' = Port
        /\ \A p \in Port : /\ Coming(request, did, p, wire'[p]) /\ Queued(request, did, p, msgQ'[p])
                           /\ Len(wire[p]) \in Nat /\ Len(wire'[p]) \in Nat
                           /\ Len(wire'[p]) <= Len(wire[p])
        /\ driver = "pcap" => \A p \in Port : msgQ'[p] = <<>>
        /\ \/ frame = wire[port][1] /\ 1 \in 1 .. Len(wire[port])
           \/ frame = Head(msgQ[port]) /\ msgQ[port] # <<>>
    <2>1. CASE /\ wire[port] # <<>> /\ frame = Head(wire[port])
               /\ wire' = [wire EXCEPT ![port] = Tail(wire[port])] /\ msgQ' = msgQ
      <3>1. /\ frame \in Arriving(port) /\ Honest(request, did, frame)
            /\ frame = wire[port][1] /\ 1 \in 1 .. Len(wire[port])
            /\ Coming(request, did, port, Tail(wire[port])) /\ Len(Tail(wire[port])) = Len(wire[port]) - 1
        BY <1>2, <2>1, ComingTail
      <3>2. /\ DOMAIN wire' = Port
            /\ \A p \in Port : wire'[p] = IF p = port THEN Tail(wire[port]) ELSE wire[p]
        BY <1>1, <2>1
      <3> QED  BY <1>1, <1>2, <2>1, <3>1, <3>2 DEF OnWire
    <2>2. CASE /\ msgQ[port] # <<>> /\ frame = Head(msgQ[port])
               /\ msgQ' = [msgQ EXCEPT ![port] = <<>>] /\ wire' = wire
      <3>1. frame \in Arriving(port) /\ Honest(request, did, frame)
        BY <1>2, <2>2, QueuedHead
      <3>2. /\ DOMAIN msgQ' = Port
            /\ \A p \in Port : msgQ'[p] = IF p = port THEN <<>> ELSE msgQ[p]
        BY <1>1, <2>2
      <3>3. \A p \in Port : Queued(request, did, p, msgQ'[p])
        BY <1>2, <3>2 DEF Queued
      <3> QED  BY <1>1, <1>2, <2>2, <3>1, <3>2, <3>3 DEF OnWire
    <2> QED  BY <2>1, <2>2 DEF Drawn
  <1>4. frame \in ArrivingSecondary /\ Wkc(frame) = Counted(request, frame)
    BY <1>3, ArrivingBoth, ExecutionsArePlaces
  <1>5. Wkc(frame) \in 0 .. 2 * N
    BY <1>4, CountedIs
  <1> QED  BY <1>3, <1>4, <1>5

LEMMA HearsKeeps == ASSUME Safe, NEW port \in Port, Hears(port) PROVE Safe'
  <1> USE DEF Hears
  <1>1. /\ Typed /\ Buffers /\ OnWire /\ Room /\ Inbox /\ pc = "wait" /\ pc' = "wait"
        /\ DOMAIN rxbuf = Port
    BY DEF Safe, Typed
  <1>2. PICK frame :
         /\ Drawn(port, frame)
         /\ rxbuf' = [rxbuf EXCEPT ![port] = frame] /\ rxsa' = [rxsa EXCEPT ![port] = frame.src]
         /\ IF port = "prim" THEN wkc = NOFRAME /\ wkc' = Wkc(frame) /\ wkc2' = wkc2
            ELSE wkc2 = NOFRAME /\ wkc2' = Wkc(frame) /\ wkc' = wkc
    OBVIOUS
  <1>3. /\ frame \in Arriving(port) /\ frame \in ArrivingSecondary /\ Honest(request, did, frame)
        /\ Wkc(frame) = Counted(request, frame) /\ Wkc(frame) \in 0 .. 2 * N
        /\ DOMAIN wire' = Port /\ DOMAIN msgQ' = Port
        /\ \A p \in Port : /\ Coming(request, did, p, wire'[p]) /\ Queued(request, did, p, msgQ'[p])
                           /\ Len(wire[p]) \in Nat /\ Len(wire'[p]) \in Nat
                           /\ Len(wire'[p]) <= Len(wire[p])
        /\ driver = "pcap" => \A p \in Port : msgQ'[p] = <<>>
    BY <1>1, <1>2, Draws
  <1>4. frame.src \in {"prim", "sec"}
    BY <1>3, FrameIs
  <1>5. /\ DOMAIN rxbuf' = Port /\ \A p \in Port : rxbuf'[p] = IF p = port THEN frame ELSE rxbuf[p]
        /\ rxsa' \in [Port -> {"none", "prim", "sec"}]
        /\ \A p \in Port : rxsa'[p] = IF p = port THEN frame.src ELSE rxsa[p]
    BY <1>1, <1>2, <1>4 DEF Typed
  <1>6. wkc' \in NOFRAME .. 2 * N /\ wkc2' \in NOFRAME .. 2 * N
    BY <1>1, <1>2, <1>3, Counts DEF Typed, NOFRAME
  <1>7. Typed'
    BY <1>1, <1>2, <1>3, <1>5, <1>6 DEF Typed, Drawn, RxStat
  <1>8. Buffers'
    BY <1>1, <1>3, <1>5 DEF Buffers
  <1>9. OnWire'
    BY <1>1, <1>3 DEF OnWire
  <1>10. Room'
    <2>1. attempts \in Nat /\ Turn \in Nat /\ Turn' = Turn
      BY <1>1, Counts DEF Typed, Turn
    <2>2. \A p \in Port : Len(wire[p]) <= 3 * (attempts - 1) + Turn
      BY <1>1 DEF Room
    <2> QED  BY <1>3, <2>1, <2>2 DEF Room
  <1>11. Inbox'
    BY <1>1, <1>2, <1>3, <1>5 DEF Inbox, Received, Port
  <1>12. Quiet'
    BY <1>1 DEF Quiet
  <1> QED  BY <1>7, <1>8, <1>9, <1>10, <1>11, <1>12 DEF Safe

\* What is left behind when a wait ends.
LEMMA Leaves ==
  ASSUME Safe, pc # "send", late' = late + MuxLeft
  PROVE  /\ late' \in Nat /\ late' >= late
         /\ late' = 0 => late = 0 /\ \A p \in Port : wire[p] = <<>> /\ msgQ[p] = <<>>
  <1>1. Typed /\ OnWire
    BY DEF Safe
  <1>2. \A p \in Port : /\ Len(wire[p]) \in Nat /\ (Len(wire[p]) = 0 => wire[p] = <<>>)
                        /\ Len(msgQ[p]) \in Nat /\ (Len(msgQ[p]) = 0 => msgQ[p] = <<>>)
    <2> TAKE p \in Port
    <2>1. wire[p] \in Seq(Arriving(p))
      BY <1>1 DEF OnWire, Coming
    <2>2. Queued(request, did, p, msgQ[p])
      BY <1>1 DEF OnWire
    <2>3. msgQ[p] \in Seq(Arriving(p))
      BY <2>2, QueuedSeq
    <2> QED  BY <2>1, <2>3, Empties
  <1> DEFINE a == Len(wire["prim"])
             b == Len(wire["sec"])
             c == Len(msgQ["prim"])
             d == Len(msgQ["sec"])
  <1>3. late' = late + (a + b + c + d)
    BY Zenon DEF MuxLeft, Left
  <1>4. late \in Nat /\ a \in Nat /\ b \in Nat /\ c \in Nat /\ d \in Nat
    BY <1>1, <1>2 DEF Typed, Port
  <1>5. /\ a = 0 => wire["prim"] = <<>>
        /\ b = 0 => wire["sec"] = <<>>
        /\ c = 0 => msgQ["prim"] = <<>>
        /\ d = 0 => msgQ["sec"] = <<>>
    BY <1>2 DEF Port
  <1> HIDE DEF a, b, c, d
  <1>6. late' \in Nat /\ late' >= late /\ (late' = 0 => late = 0 /\ a = 0 /\ b = 0 /\ c = 0 /\ d = 0)
    BY <1>3, <1>4
  <1> QED  BY <1>5, <1>6 DEF Port

LEMMA StopsKeeps == ASSUME Safe, Stops PROVE Safe'
  <1> USE DEF Stops, muxVars, queues
  <1>1. /\ Typed /\ Buffers /\ OnWire /\ Room /\ Inbox /\ pc = "wait" /\ pc' = "route"
    BY DEF Safe
  <1>2. late' \in Nat /\ (late' = 0 => \A p \in Port : wire[p] = <<>> /\ msgQ[p] = <<>>)
    BY <1>1, Leaves
  <1>3. Typed'
    BY <1>1, <1>2 DEF Typed
  <1>4. Buffers' /\ OnWire' /\ Room'
    BY <1>1 DEF Buffers, OnWire, Room, Turn
  <1>5. Inbox'
    BY <1>1 DEF Inbox, Received
  <1>6. Quiet'
    BY <1>1, <1>2 DEF Quiet
  <1> QED  BY <1>3, <1>4, <1>5, <1>6 DEF Safe

\* The end of an attempt leaves room for the next one.
LEMMA Ends ==
  ASSUME Safe, pc \in {"route", "again"}, NEW w, Answered(w),
         DOMAIN wire' = Port, \A p \in Port : Len(wire[p]) \in Nat /\ Len(wire'[p]) \in Nat /\ Len(wire'[p]) <= Len(wire[p])
  PROVE  /\ Room' /\ attempts' \in 1 .. MaxAttempts
         /\ pc' = "done" \/ (pc' = "send" /\ w = NOFRAME)
  <1>1. \/ pc' = "done" /\ attempts' = attempts
        \/ pc' = "send" /\ w = NOFRAME /\ attempts < MaxAttempts /\ attempts' = attempts + 1
    BY DEF Answered
  <1>2. attempts \in 1 .. MaxAttempts /\ attempts \in Nat /\ MaxAttempts \in Nat
    BY Counts DEF Safe, Typed
  <1>3. attempts' \in 1 .. MaxAttempts
    BY <1>1, <1>2
  <1>4. ASSUME NEW p \in Port PROVE Len(wire'[p]) <= 3 * (attempts' - 1) + Turn'
    <2>1. Len(wire[p]) <= 3 * (attempts - 1) + 3
      BY <1>2 DEF Safe, Room, Turn
    <2>2. Len(wire'[p]) <= 3 * (attempts - 1) + 3
      BY <1>2, <2>1
    <2>3. CASE pc' = "done" /\ attempts' = attempts
      <3>1. Turn' = 3  BY <2>3 DEF Turn
      <3> QED  BY <2>2, <2>3, <3>1
    <2>4. CASE pc' = "send" /\ attempts' = attempts + 1
      <3>1. Turn' = 0  BY <2>4 DEF Turn
      <3>2. 3 * (attempts' - 1) + Turn' = 3 * (attempts - 1) + 3
        BY <1>2, <2>4, <3>1
      <3> QED  BY <2>2, <3>2
    <2> QED  BY <1>1, <2>3, <2>4
  <1>5. Room'
    BY <1>4 DEF Room
  <1> QED  BY <1>1, <1>3, <1>5

LEMMA LineLengths == ASSUME Safe PROVE \A p \in Port : Len(wire[p]) \in Nat
  BY Empties DEF Safe, OnWire, Coming

LEMMA DecidesKeeps == ASSUME Safe, Decides PROVE Safe'
  <1> USE DEF Decides
  <1>1. /\ Typed /\ Buffers /\ OnWire /\ Inbox /\ pc = "route" /\ DOMAIN rxbuf = Port
        /\ UNCHANGED <<request, broken, txbuf, rxsa, wkc2, wire, did, changes, lost, late>>
    BY DEF Safe, Typed, TakeSecondary, TakePrimary
  <1>2. /\ wkc > NOFRAME => /\ rxbuf["prim"] \in ArrivingPrimary /\ rxsa["prim"] = rxbuf["prim"].src
                            /\ wkc = Counted(request, rxbuf["prim"])
        /\ wkc2 > NOFRAME => /\ rxbuf["sec"] \in ArrivingSecondary /\ rxsa["sec"] = rxbuf["sec"].src
                             /\ wkc2 = Counted(request, rxbuf["sec"])
    BY <1>1 DEF Inbox, Received, Arriving
  <1>3. PICK w : /\ Answered(w) /\ wkc' = w /\ w \in NOFRAME .. 2 * N
                 /\ DOMAIN rxbuf' = Port
                 /\ \A p \in Port : rxbuf'[p] = rxbuf[p] \/ rxbuf'[p] = rxbuf["sec"]
                 /\ w > NOFRAME => /\ rxbuf'["prim"] \in ArrivingSecondary
                                   /\ w = Counted(request, rxbuf'["prim"])
                                   /\ ~rxbuf'["prim"].dummy \/ w = 0
    <2>1. CASE TakeSecondary
      <3>1. Answered(wkc2) /\ wkc' = wkc2 /\ rxbuf' = [rxbuf EXCEPT !["prim"] = rxbuf["sec"]]
        BY <2>1 DEF TakeSecondary
      <3>2. wkc2 > NOFRAME /\ rxsa["sec"] = "prim"
        BY <2>1 DEF TakeSecondary, secrx
      <3>3. ~rxbuf["sec"].dummy
        BY <1>2, <3>2, FrameIs
      <3> QED  BY <1>1, <1>2, <3>1, <3>2, <3>3 DEF Typed, Port
    <2>2. CASE TakePrimary
      <3>1. Answered(wkc) /\ wkc' = wkc /\ rxbuf' = rxbuf
        BY <2>2 DEF TakePrimary
      <3>2. wkc > NOFRAME => ~rxbuf["prim"].dummy \/ wkc = 0
        BY <1>2, CountedDummy
      <3> QED  BY <1>1, <1>2, <3>1, <3>2, ArrivingBoth DEF Typed
    <2> QED  BY <2>1, <2>2
  <1>4. /\ Room' /\ attempts' \in 1 .. MaxAttempts
        /\ pc' = "done" \/ (pc' = "send" /\ w = NOFRAME)
    <2>1. DOMAIN wire' = Port /\ \A p \in Port : wire'[p] = wire[p]
      BY <1>1 DEF Typed
    <2>2. \A p \in Port : Len(wire[p]) \in Nat /\ Len(wire'[p]) \in Nat /\ Len(wire'[p]) <= Len(wire[p])
      BY <2>1, LineLengths
    <2> QED  BY <1>1, <1>3, <2>1, <2>2, Ends
  <1>5. Typed'
    BY <1>1, <1>3, <1>4 DEF Typed, RxStat
  <1>6. Buffers'
    BY <1>1, <1>3, <1>4 DEF Buffers, Port
  <1>7. OnWire'
    BY <1>1 DEF OnWire
  <1>8. Inbox'
    BY <1>1, <1>3, <1>4, FrameIs DEF Inbox
  <1>9. Quiet'
    BY <1>4 DEF Quiet
  <1> QED  BY <1>4, <1>5, <1>6, <1>7, <1>8, <1>9 DEF Safe

LEMMA HearsAgainKeeps == ASSUME Safe, HearsAgain PROVE Safe'
  <1> USE DEF HearsAgain
  <1>1. /\ Typed /\ Buffers /\ OnWire /\ Inbox /\ Quiet /\ pc = "again"
        /\ UNCHANGED <<request, broken, txbuf, did, changes, lost, late, driver, failed, early>>
    BY DEF Safe
  <1>2. PICK frame :
         /\ Drawn("sec", frame)
         /\ rxbuf' = [p \in Port |-> frame] /\ rxsa' = [rxsa EXCEPT !["sec"] = frame.src]
         /\ wkc2' = Wkc(frame) /\ wkc' = Wkc(frame) /\ Answered(Wkc(frame))
    OBVIOUS
  <1>3. /\ frame \in ArrivingSecondary /\ Honest(request, did, frame)
        /\ Wkc(frame) = Counted(request, frame) /\ Wkc(frame) \in 0 .. 2 * N
        /\ DOMAIN wire' = Port /\ DOMAIN msgQ' = Port
        /\ \A p \in Port : /\ Coming(request, did, p, wire'[p]) /\ Queued(request, did, p, msgQ'[p])
                           /\ Len(wire[p]) \in Nat /\ Len(wire'[p]) \in Nat
                           /\ Len(wire'[p]) <= Len(wire[p])
        /\ driver = "pcap" => \A p \in Port : msgQ'[p] = <<>>
        /\ \/ frame = wire["sec"][1] /\ 1 \in 1 .. Len(wire["sec"])
           \/ frame = Head(msgQ["sec"]) /\ msgQ["sec"] # <<>>
    BY <1>1, <1>2, Draws DEF Port
  <1>4. frame.src \in {"prim", "sec"} /\ frame # NoFrame
    BY <1>3, FrameIs
  <1>5. late = 0 => ~frame.dummy
    BY <1>1, <1>3 DEF Quiet
  <1>6. /\ DOMAIN rxbuf' = Port /\ \A p \in Port : rxbuf'[p] = frame
        /\ rxsa' \in [Port -> {"none", "prim", "sec"}]
    BY <1>1, <1>2, <1>4 DEF Typed
  <1>7. Wkc(frame) # NOFRAME /\ Wkc(frame) \in NOFRAME .. 2 * N
    BY <1>3, Counts DEF NOFRAME
  <1>8. Room' /\ attempts' \in 1 .. MaxAttempts /\ pc' = "done"
    BY <1>1, <1>2, <1>3, <1>7, Ends
  <1>9. Typed'
    BY <1>1, <1>2, <1>3, <1>6, <1>7, <1>8 DEF Typed, Drawn, RxStat
  <1>10. Buffers'
    BY <1>1, <1>3, <1>6, <1>8 DEF Buffers
  <1>11. OnWire'
    BY <1>1, <1>3 DEF OnWire
  <1>12. Inbox'
    BY <1>1, <1>2, <1>3, <1>4, <1>5, <1>6, <1>8 DEF Inbox, Port
  <1>13. Quiet'
    BY <1>8 DEF Quiet
  <1> QED  BY <1>8, <1>9, <1>10, <1>11, <1>12, <1>13 DEF Safe

LEMMA StopsAgainKeeps == ASSUME Safe, StopsAgain PROVE Safe'
  <1> USE DEF StopsAgain
  <1>1. /\ Typed /\ Buffers /\ OnWire /\ Inbox /\ Quiet /\ pc = "again"
        /\ UNCHANGED <<request, broken, txbuf, rxbuf, rxsa, wkc, wire, did, changes, lost,
                       driver, msgQ, failed, early>>
    BY DEF Safe
  <1>2. late' \in Nat /\ (late' = 0 => late = 0)
    BY <1>1, Leaves
  <1>3. /\ Room' /\ attempts' \in 1 .. MaxAttempts
        /\ pc' = "done" \/ (pc' = "send" /\ wkc = NOFRAME)
    <2>1. DOMAIN wire' = Port /\ \A p \in Port : wire'[p] = wire[p]
      BY <1>1 DEF Typed
    <2>2. \A p \in Port : Len(wire[p]) \in Nat /\ Len(wire'[p]) \in Nat /\ Len(wire'[p]) <= Len(wire[p])
      BY <2>1, LineLengths
    <2> QED  BY <1>1, <2>1, <2>2, Ends
  <1>4. wkc2' \in NOFRAME .. 2 * N
    BY Counts DEF NOFRAME
  <1>5. Typed'
    BY <1>1, <1>2, <1>3, <1>4 DEF Typed, RxStat
  <1>6. Buffers'
    BY <1>1, <1>3 DEF Buffers
  <1>7. OnWire'
    BY <1>1 DEF OnWire
  <1>8. Inbox'
    <2>1. wkc > NOFRAME => /\ rxbuf["prim"] \in ArrivingSecondary /\ ~rxbuf["prim"].dummy
                           /\ wkc = Counted(request, rxbuf["prim"])
      BY <1>1, ArrivingBoth DEF Inbox, Received, Port
    <2> QED  BY <1>1, <1>3, <2>1, FrameIs DEF Inbox
  <1>9. Quiet'
    BY <1>3 DEF Quiet
  <1> QED  BY <1>3, <1>5, <1>6, <1>7, <1>8, <1>9 DEF Safe

LEMMA SafeSteps == ASSUME IInv, [NextOf]_<<vars, muxVars>> PROVE Safe'
  <1>1. Safe
    BY DEF IInv, Safe
  <1>2. CASE UNCHANGED <<vars, muxVars>>
    <2>1. Typed' /\ Buffers'
      BY <1>1, <1>2 DEF Safe, Typed, Buffers, vars, muxVars, queues
    <2>2. OnWire' /\ Room'
      BY <1>1, <1>2 DEF Safe, OnWire, Room, Turn, vars, muxVars, queues
    <2>3. Inbox' /\ Quiet'
      BY <1>1, <1>2 DEF Safe, Inbox, Received, Quiet, vars, muxVars, queues
    <2> QED  BY <2>1, <2>2, <2>3 DEF Safe
  <1>3. CASE NextOf
    BY <1>1, <1>3, Steps, ChangeKeeps, AsksKeeps, ProbesKeeps, PostsKeeps, HearsKeeps, StopsKeeps,
       DecidesKeeps, ResendsKeeps, HearsAgainKeeps, StopsAgainKeeps, Zenon
  <1> QED  BY <1>2, <1>3

-----------------------------------------------------------------------------
(* The undisturbed exchange.                                               *)

LEMMA Rings1 ==
  ASSUME NEW b, b \subseteq Links, Cardinality(b) <= 1
  PROVE  \/ /\ b = {} /\ Ahead(b) = N /\ Behind(b) = N
            /\ ByRequest(b, "prim") = <<>> /\ ByRequest(b, "sec") = <<Sent(N, N)>>
            /\ ByBoth(b, "prim") = <<Dummy(N)>> /\ ByBoth(b, "sec") = <<Sent(N, N)>>
         \/ \E k \in Reach :
              /\ b = {k} /\ Ahead(b) = k /\ Behind(b) = k
              /\ ByRequest(b, "prim") = (IF k = 0 THEN <<>> ELSE <<Sent(k, N)>>)
              /\ ByRequest(b, "sec") = <<>>
              /\ ByBoth(b, "prim") = (IF k = 0 THEN <<>> ELSE <<Sent(k, N)>>)
              /\ ByBoth(b, "sec") = (IF k = N THEN <<>> ELSE <<Dummy(k)>>)
  <1>1. CASE b = {}
    BY <1>1, Zenon DEF Ahead, Behind, ByRequest, ByBoth
  <1>2. CASE b # {}
    <2>1. PICK k \in b : TRUE
      BY <1>2
    <2>2. IsFiniteSet(Links)
      BY Counts, FS_Interval
    <2>3. IsFiniteSet(b)
      BY <2>2, FS_Subset
    <2>4. IsFiniteSet({k}) /\ Cardinality({k}) = 1
      BY FS_Singleton
    <2>5. Cardinality(b) \in Nat
      BY <2>3, FS_CardinalityType
    <2>6. b = {k}
      <3>1. Cardinality({k}) <= Cardinality(b)
        BY <2>1, <2>3, FS_Subset
      <3>2. Cardinality({k}) = Cardinality(b)
        BY <2>4, <2>5, <3>1
      <3>3. {k} \subseteq b
        BY <2>1
      <3> QED  BY <2>3, <3>2, <3>3, FS_Subset
    <2>7. k \in Reach /\ k \in 0 .. N
      BY <2>1, Counts DEF Reach
    <2>8. Min(b) \in b
      BY <1>2, Counts, MinIn
    <2>9. Max(b) \in b
      BY <1>2, Counts, MaxIn
    <2>10. Ahead(b) = k /\ Behind(b) = k
      BY <1>2, <2>6, <2>8, <2>9 DEF Ahead, Behind
    <2>11. (0 \in b <=> k = 0) /\ (N \in b <=> k = N)
      BY <2>6
    <2>12. /\ ByRequest(b, "prim") = (IF k = 0 THEN <<>> ELSE <<Sent(k, N)>>)
           /\ ByRequest(b, "sec") = <<>>
      BY <1>2, <2>10, <2>11 DEF ByRequest
    <2>13. /\ ByBoth(b, "prim") = (IF k = 0 THEN <<>> ELSE <<Sent(k, N)>>)
           /\ ByBoth(b, "sec") = (IF k = N THEN <<>> ELSE <<Dummy(k)>>)
      BY <1>2, <2>10, <2>11, <2>12 DEF ByBoth
    <2> QED  BY <2>6, <2>7, <2>10, <2>12, <2>13
  <1> QED  BY <1>1, <1>2

LEMMA AtMostOne ==
  ASSUME NEW b, b \subseteq Links, Cardinality(b) <= 1, NEW p \in Port
  PROVE  /\ ByBoth(b, p) = <<>> \/ \E f : ByBoth(b, p) = <<f>>
         /\ ByRequest(b, p) = <<>> \/ \E f : ByRequest(b, p) = <<f>>
  BY Rings1 DEF Port

LEMMA Arrivals ==
  /\ broken = {} => ArrivesAt("prim") = {"sec"} /\ ArrivesAt("sec") = {"prim"}
  /\ \A k : broken = {k} => /\ ArrivesAt("prim") = (IF k = 0 THEN {} ELSE {"prim"})
                            /\ ArrivesAt("sec") = (IF k = N THEN {} ELSE {"sec"})
  BY DEF ArrivesAt, Port

\* A frame that has passed the first slaves up to a was worked on once by
\* each of them that the request is about.
LEMMA DeedsRow ==
  ASSUME NEW r, NEW a \in Reach, NEW n \in Nat, NEW x \in Slaves
  PROVE  Cardinality(Deeds(r, Row(1, a), n, x)) = IF x \in Targets(r) /\ n < x /\ x <= a THEN 1 ELSE 0
  <1>1. /\ Row(1, a) \in Seq(Slaves) /\ Len(Row(1, a)) = a /\ DOMAIN Row(1, a) = 1 .. a
        /\ \A k \in 1 .. a : Row(1, a)[k] = k
    <2>1. N \in Reach  BY Counts DEF Reach
    <2>2. Row(1, a) \in Seq(Slaves) /\ Len(Row(1, a)) = a /\ \A k \in 1 .. a : Row(1, a)[k] = k
      BY <2>1, Rows
    <2> QED  BY <2>2
  <1>2. a \in Nat /\ x \in Nat /\ x >= 1
    BY Counts DEF Reach
  <1> DEFINE s == Row(1, a)
  <1> HIDE DEF s
  <1>3. \A k : k \in Places(r, s) <=> k \in 1 .. a /\ k \in Targets(r)
    <2>1. \A k \in 1 .. a : k \in Slaves
      BY Counts DEF Reach
    <2> QED  BY <1>1, <2>1, PlacesAre DEF s, Targets
  <1>4. \A k : k \in Deeds(r, s, n, x) <=> k \in 1 .. a /\ k \in Targets(r) /\ k > n /\ k = x
    BY <1>1, <1>3 DEF Deeds, s
  <1>5. CASE x \in Targets(r) /\ n < x /\ x <= a
    <2>1. Deeds(r, s, n, x) = {x}
      BY <1>2, <1>4, <1>5
    <2>2. Cardinality({x}) = 1
      BY FS_Singleton
    <2> QED  BY <1>5, <2>1, <2>2 DEF s
  <1>6. CASE ~ (x \in Targets(r) /\ n < x /\ x <= a)
    <2>1. Deeds(r, s, n, x) = {}
      BY <1>2, <1>4, <1>6
    <2>2. Cardinality({}) = 0
      BY FS_EmptySet
    <2> QED  BY <1>6, <2>1, <2>2 DEF s
  <1> QED  BY <1>5, <1>6

LEMMA DidOnce ==
  ASSUME NEW r, NEW a \in Reach, NEW c \in Reach, a <= c, NEW d,
         d \in [Slaves -> Nat],
         \A x \in Slaves : d[x] = DidUpTo(r, a)[x] + Cardinality(Deeds(r, Row(1, c), a, x))
  PROVE  d = DidUpTo(r, c)
  <1>1. a \in Nat /\ c \in Nat
    BY Counts DEF Reach
  <1>2. ASSUME NEW x \in Slaves PROVE d[x] = DidUpTo(r, c)[x]
    <2>1. x \in Nat  BY Counts
    <2>2. DidUpTo(r, a)[x] = IF x \in Targets(r) /\ x <= a THEN 1 ELSE 0
      BY DEF DidUpTo
    <2>3. DidUpTo(r, c)[x] = IF x \in Targets(r) /\ x <= c THEN 1 ELSE 0
      BY DEF DidUpTo
    <2>4. Cardinality(Deeds(r, Row(1, c), a, x)) = IF x \in Targets(r) /\ a < x /\ x <= c THEN 1 ELSE 0
      BY <1>1, DeedsRow
    <2> QED  BY <1>1, <2>1, <2>2, <2>3, <2>4
  <1>3. DidUpTo(r, c) = [x \in Slaves |-> DidUpTo(r, c)[x]]
    BY DEF DidUpTo
  <1> QED  BY <1>2, <1>3

\* A send that nothing disturbs.
LEMMA Delivered ==
  ASSUME NEW port \in Port, NEW frame, Safe, Calm, Calm', Sends(port, frame),
         frame.passed \in Seq(Slaves), frame.dummy \in BOOLEAN, DOMAIN frame = {"src", "dummy", "passed"}
  PROVE  /\ \A p \in Port : wire'[p] = IF p \in ArrivesAt(port)
                                       THEN Append(wire[p], Whole(port, frame)) ELSE wire[p]
         /\ did' \in [Slaves -> Nat]
         /\ \A x \in Slaves : did'[x] = did[x] +
              IF frame.dummy THEN 0
              ELSE Cardinality(Deeds(request, Whole(port, frame).passed, Len(frame.passed), x))
         /\ driver = "mux" => rxbufstat'[port] = "TX"
         /\ port = "sec" => msgQ["prim"] = <<>>
  <1>1. /\ broken \subseteq Links /\ did \in [Slaves -> Nat] /\ lost = 0 /\ lost' = 0
        /\ failed = 0 /\ failed' = 0 /\ ~early'
    BY DEF Safe, Typed, Calm
  <1>2. Transmit(port, frame) /\ (driver = "mux" => rxbufstat'[port] = "TX")
    BY <1>1 DEF Sends
  <1>3. lost \in Nat /\ lost' = lost
    BY <1>1
  <1> QED  BY <1>1, <1>2, <1>3, Transmits DEF Sends

LEMMA SentIs ==
  ASSUME NEW a \in Reach, NEW b \in Reach
  PROVE  /\ Sent(a, b).passed = Passed(a, b) /\ Sent(a, b).src = "prim" /\ Sent(a, b).dummy = FALSE
         /\ Dummy(b).src = "sec" /\ Dummy(b).dummy = TRUE
         /\ Sent(a, N).passed = Row(1, a)
  BY PassedEnds, Counts DEF Sent, RequestFrame, Dummy, DummyFrame, Reach

\* A disturbed exchange stays one, and the ring only changes in one.
LEMMA CalmBefore ==
  ASSUME Safe, NextOf, IInv, Calm'
  PROVE  Calm /\ broken' = broken /\ request' = request /\ driver' = driver
  <1>1. /\ changes \in Nat /\ lost \in Nat /\ late \in Nat /\ failed \in Nat /\ early \in BOOLEAN
        /\ broken \subseteq Links
    BY DEF Safe, Typed
  <1>2. /\ changes' = 0 /\ lost' = 0 /\ late' = 0 /\ failed' = 0 /\ ~early' /\ Cardinality(broken') <= 1
    BY DEF Calm
  <1>3. CASE Change /\ UNCHANGED muxVars
    BY <1>1, <1>2, <1>3 DEF Change
  <1>4. ASSUME NEW port \in Port, NEW frame, Sends(port, frame), broken' = broken,
               frame.passed \in Seq(Slaves), frame.dummy \in BOOLEAN, DOMAIN frame = {"src", "dummy", "passed"}
        PROVE  lost' >= lost /\ failed' >= failed /\ ~early
    <2>1. did \in [Slaves -> Nat]
      BY DEF Safe, Typed
    <2>2. CASE Transmit(port, frame) /\ failed' = failed
      BY <1>1, <1>2, <1>4, <2>1, <2>2, Transmits DEF Sends
    <2>3. CASE failed' = failed + 1 /\ UNCHANGED <<wire, did, lost>>
      BY <1>1, <1>2, <2>3
    <2> QED  BY <1>4, <2>2, <2>3 DEF Sends
  <1>5. CASE Asks
    <2>1. /\ RequestFrame(<<>>).passed = <<>> /\ RequestFrame(<<>>).dummy = FALSE
          /\ DOMAIN RequestFrame(<<>>) = {"src", "dummy", "passed"}
      BY DEF RequestFrame
    <2>2. <<>> \in Seq(Slaves)
      OBVIOUS
    <2>3. lost' >= lost /\ failed' >= failed /\ ~early
      BY <1>4, <1>5, <2>1, <2>2 DEF Asks, Port
    <2> QED  BY <1>1, <1>2, <1>5, <2>3 DEF Asks, Calm
  <1>6. CASE Probes
    <2>1. /\ DummyFrame.passed = <<>> /\ DummyFrame.dummy = TRUE
          /\ DOMAIN DummyFrame = {"src", "dummy", "passed"}
      BY DEF DummyFrame
    <2>2. <<>> \in Seq(Slaves)
      OBVIOUS
    <2>3. lost' >= lost /\ failed' >= failed /\ ~early
      BY <1>4, <1>6, <2>1, <2>2 DEF Probes, Port
    <2> QED  BY <1>1, <1>2, <1>6, <2>3 DEF Probes, Calm
  <1>7. CASE Resends
    <2>1. PICK a \in Reach : txbuf' = Row(1, a)
      BY <1>7, SafeSteps DEF Safe, Buffers
    <2>2. Row(1, a) \in Seq(Slaves)
      BY Rows
    <2>3. /\ RequestFrame(Row(1, a)).passed = Row(1, a) /\ RequestFrame(Row(1, a)).dummy = FALSE
          /\ DOMAIN RequestFrame(Row(1, a)) = {"src", "dummy", "passed"}
      BY DEF RequestFrame
    <2>4. Sends("sec", RequestFrame(Row(1, a)))
      BY <1>7, <2>1 DEF Resends
    <2>5. lost' >= lost /\ failed' >= failed /\ ~early
      BY <1>4, <1>7, <2>2, <2>3, <2>4 DEF Resends, Port
    <2> QED  BY <1>1, <1>2, <1>7, <2>5 DEF Resends, Calm
  <1>8. CASE \E port \in Port : Posts(port)
    BY <1>1, <1>2, <1>8 DEF Posts, mux_rx_callback, Calm
  <1>9. CASE \E port \in Port : Hears(port)
    BY <1>1, <1>2, <1>9 DEF Hears, Calm
  <1>10. CASE Stops
    <2>1. late' = 0 => late = 0
      BY <1>10, Leaves DEF Stops
    <2> QED  BY <1>1, <1>2, <1>10, <2>1 DEF Stops, muxVars, queues, Calm
  <1>11. CASE Decides
    BY <1>1, <1>2, <1>11 DEF Decides, TakeSecondary, TakePrimary, Calm
  <1>12. CASE HearsAgain
    BY <1>1, <1>2, <1>12 DEF HearsAgain, Calm
  <1>13. CASE StopsAgain
    <2>1. late' = 0 => late = 0
      BY <1>13, Leaves DEF StopsAgain
    <2> QED  BY <1>1, <1>2, <1>13, <2>1 DEF StopsAgain, Calm
  <1> QED  BY <1>3, <1>5, <1>6, <1>7, <1>8, <1>9, <1>10, <1>11, <1>12, <1>13, Steps

LEMMA CourseAsks == ASSUME Safe, Course, Calm, Calm', Asks PROVE Course'
  <1> USE DEF Asks
  <1> DEFINE frame == RequestFrame(<<>>)
  <1>1. /\ frame.passed = <<>> /\ frame.dummy = FALSE /\ DOMAIN frame = {"src", "dummy", "passed"}
    BY DEF RequestFrame
  <1>2. <<>> \in Seq(Slaves) /\ Len(<<>>) = 0
    OBVIOUS
  <1>3. broken \subseteq Links /\ Cardinality(broken) <= 1
    BY DEF Safe, Typed, Calm
  <1>4. Ahead(broken) \in Reach /\ 0 \in Reach /\ N \in Reach
    BY <1>3, Ways, Counts DEF Reach
  <1>5. Whole("prim", frame) = Sent(Ahead(broken), N)
    BY <1>3, <1>4, WholeIs
  <1>6. "prim" \in Port /\ Sends("prim", frame)
    BY DEF Port
  <1> HIDE DEF frame
  <1>7. /\ \A p \in Port : wire'[p] = IF p \in ArrivesAt("prim")
                                      THEN Append(wire[p], Whole("prim", frame)) ELSE wire[p]
        /\ did' \in [Slaves -> Nat]
        /\ \A x \in Slaves : did'[x] = did[x] +
             IF frame.dummy THEN 0
             ELSE Cardinality(Deeds(request, Whole("prim", frame).passed, Len(frame.passed), x))
        /\ driver = "mux" => rxbufstat'["prim"] = "TX"
    BY <1>1, <1>2, <1>6, Delivered
  <1>8. /\ attempts = 1 /\ \A p \in Port : wire[p] = <<>>
        /\ msgQ["sec"] = <<>> /\ rxbufstat["sec"] = "EMPTY"
        /\ did = DidUpTo(request, 0)
    BY DEF Course
  <1>9. /\ msgQ'["prim"] = <<>> /\ msgQ'["sec"] = <<>> /\ rxbufstat'["sec"] = "EMPTY"
    BY <1>6, <1>8 DEF Sends, Port
  <1>10. \A p \in Port : wire'[p] = IF p \in ArrivesAt("prim") THEN <<Sent(Ahead(broken), N)>> ELSE <<>>
    BY <1>5, <1>7, <1>8, Singles
  <1>11. wire'["prim"] = ByRequest(broken, "prim") /\ wire'["sec"] = ByRequest(broken, "sec")
    <2>1. CASE broken = {}
      <3>1. /\ Ahead(broken) = N /\ ByRequest(broken, "prim") = <<>>
            /\ ByRequest(broken, "sec") = <<Sent(N, N)>>
        BY <1>3, <2>1, Rings1
      <3> QED  BY <1>10, <2>1, <3>1, Arrivals DEF Port
    <2>2. CASE broken # {}
      <3>1. PICK k \in Reach :
              /\ broken = {k} /\ Ahead(broken) = k
              /\ ByRequest(broken, "prim") = (IF k = 0 THEN <<>> ELSE <<Sent(k, N)>>)
              /\ ByRequest(broken, "sec") = <<>>
        BY <1>3, <2>2, Rings1
      <3> QED  BY <1>10, <3>1, Arrivals DEF Port
    <2> QED  BY <2>1, <2>2
  <1>12. did' = DidUpTo(request, Ahead(broken))
    <2>1. Whole("prim", frame).passed = Row(1, Ahead(broken))
      BY <1>4, <1>5, SentIs
    <2>2. \A x \in Slaves : did'[x] = did[x] + Cardinality(Deeds(request, Row(1, Ahead(broken)), 0, x))
      BY <1>1, <1>2, <1>7, <2>1
    <2>3. 0 <= Ahead(broken)
      BY <1>4, Counts DEF Reach
    <2> QED  BY <1>4, <1>7, <1>8, <2>2, <2>3, DidOnce
  <1> QED  BY <1>7, <1>8, <1>9, <1>11, <1>12 DEF Course, Comes, Expects

LEMMA CourseProbes == ASSUME Safe, Course, Calm, Calm', Probes PROVE Course'
  <1> USE DEF Probes
  <1>1. /\ DummyFrame.passed = <<>> /\ DummyFrame.dummy = TRUE
        /\ DOMAIN DummyFrame = {"src", "dummy", "passed"}
    BY DEF DummyFrame
  <1>2. <<>> \in Seq(Slaves) /\ Len(<<>>) = 0
    OBVIOUS
  <1>3. broken \subseteq Links /\ Cardinality(broken) <= 1
    BY DEF Safe, Typed, Calm
  <1>4. Behind(broken) \in Reach /\ 0 \in Reach /\ N \in Reach
    BY <1>3, Ways, Counts DEF Reach
  <1>5. Whole("sec", DummyFrame) = Dummy(Behind(broken))
    BY <1>3, <1>4, WholeIs
  <1>6. "sec" \in Port /\ Sends("sec", DummyFrame)
    BY DEF Port
  <1>7. /\ \A p \in Port : wire'[p] = IF p \in ArrivesAt("sec")
                                      THEN Append(wire[p], Dummy(Behind(broken))) ELSE wire[p]
        /\ did' \in [Slaves -> Nat] /\ \A x \in Slaves : did'[x] = did[x] + 0
        /\ driver = "mux" => rxbufstat'["sec"] = "TX"
        /\ msgQ["prim"] = <<>>
    BY <1>1, <1>2, <1>5, <1>6, Delivered
  <1>8. /\ attempts = 1
        /\ Comes(wire["prim"], msgQ["prim"], ByRequest(broken, "prim"))
        /\ driver = "mux" => rxbufstat["prim"] = "TX"
        /\ wire["sec"] = ByRequest(broken, "sec") /\ msgQ["sec"] = <<>>
        /\ did = DidUpTo(request, Ahead(broken))
    BY DEF Course, Expects
  <1>9. wire["prim"] = ByRequest(broken, "prim")
    BY <1>7, <1>8 DEF Comes
  <1>10. /\ msgQ'["prim"] = <<>> /\ msgQ'["sec"] = <<>>
         /\ driver = "mux" => rxbufstat'["prim"] = "TX"
    BY <1>6, <1>8 DEF Sends, Port
  <1>11. wire'["prim"] = ByBoth(broken, "prim") /\ wire'["sec"] = ByBoth(broken, "sec")
    <2>1. CASE broken = {}
      <3>1. /\ Behind(broken) = N /\ ByRequest(broken, "prim") = <<>>
            /\ ByRequest(broken, "sec") = <<Sent(N, N)>>
            /\ ByBoth(broken, "prim") = <<Dummy(N)>> /\ ByBoth(broken, "sec") = <<Sent(N, N)>>
        BY <1>3, <2>1, Rings1
      <3> QED  BY <1>7, <1>8, <1>9, <2>1, <3>1, Arrivals, Singles DEF Port
    <2>2. CASE broken # {}
      <3>1. PICK k \in Reach :
              /\ broken = {k} /\ Behind(broken) = k
              /\ ByRequest(broken, "prim") = (IF k = 0 THEN <<>> ELSE <<Sent(k, N)>>)
              /\ ByRequest(broken, "sec") = <<>>
              /\ ByBoth(broken, "prim") = (IF k = 0 THEN <<>> ELSE <<Sent(k, N)>>)
              /\ ByBoth(broken, "sec") = (IF k = N THEN <<>> ELSE <<Dummy(k)>>)
        BY <1>3, <2>2, Rings1
      <3>2. wire'["prim"] = wire["prim"]
        BY <1>7, <3>1, Arrivals DEF Port
      <3>3. wire'["sec"] = IF k = N THEN <<>> ELSE <<Dummy(k)>>
        BY <1>7, <1>8, <3>1, Arrivals, Singles DEF Port
      <3> QED  BY <1>9, <3>1, <3>2, <3>3
    <2> QED  BY <2>1, <2>2
  <1>12. did' = did
    <2>1. did \in [Slaves -> Nat]
      BY DEF Safe, Typed
    <2>2. \A x \in Slaves : did'[x] = did[x]
      BY <1>7, <2>1
    <2> QED  BY <1>7, <2>1, <2>2
  <1>13. Waits("prim", wkc)' /\ Waits("sec", wkc2)'
    BY <1>7, <1>10, <1>11 DEF Waits, Comes, Expects
  <1> QED  BY <1>8, <1>12, <1>13 DEF Course

\* A frame that is posted moves from the line to the queue.
LEMMA PostMoves ==
  ASSUME Safe, NEW port \in Port, NEW s, Posts(port), Comes(wire[port], msgQ[port], s),
         s = <<>> \/ (\E f : s = <<f>>), rxbufstat[port] = "TX"
  PROVE  Comes(wire'[port], msgQ'[port], s)
  <1> USE DEF Posts, mux_rx_callback
  <1>1. DOMAIN wire = Port /\ DOMAIN msgQ = Port
    BY DEF Safe, Typed
  <1>2. wire[port] # <<>> /\ wire[port] = s /\ msgQ[port] = <<>>
    BY DEF Comes
  <1>3. PICK f : s = <<f>>
    BY <1>2
  <1>4. wire'[port] = Tail(<<f>>) /\ msgQ'[port] = <<Head(<<f>>)>>
    BY <1>1, <1>2, <1>3
  <1>5. wire'[port] = <<>> /\ msgQ'[port] = <<f>>
    BY <1>4, Singles
  <1> QED  BY <1>3, <1>5 DEF Comes

LEMMA CoursePosts ==
  ASSUME Safe, Course, Calm, Calm', NEW port \in Port, Posts(port)
  PROVE  Course'
  <1>1. /\ UNCHANGED <<request, broken, pc, rxbuf, wkc, wkc2, did, attempts, driver, rxbufstat>>
        /\ wire[port] # <<>> /\ driver = "mux" /\ pc # "done"
        /\ pc = "dummy" => rxbufstat[port] = "TX"
    BY DEF Posts, mux_rx_callback, Calm
  <1>2. \A p \in Port \ {port} : wire'[p] = wire[p] /\ msgQ'[p] = msgQ[p]
    BY DEF Posts, mux_rx_callback, Safe, Typed
  <1>3. broken \subseteq Links /\ Cardinality(broken) <= 1 /\ attempts = 1
    BY DEF Safe, Typed, Calm, Course
  <1>4. CASE pc = "send"
    BY <1>1, <1>4 DEF Course
  <1>5. CASE pc = "dummy"
    <2>1. /\ Comes(wire["prim"], msgQ["prim"], ByRequest(broken, "prim")) /\ Expects("prim")
          /\ wire["sec"] = ByRequest(broken, "sec") /\ msgQ["sec"] = <<>>
          /\ rxbufstat["sec"] = "EMPTY" /\ did = DidUpTo(request, Ahead(broken))
      BY <1>5 DEF Course
    <2>2. port = "prim"
      BY <1>1, <1>5, <2>1 DEF Port
    <2>3. ByRequest(broken, "prim") = <<>> \/ \E f : ByRequest(broken, "prim") = <<f>>
      BY <1>3, AtMostOne DEF Port
    <2>4. Comes(wire'["prim"], msgQ'["prim"], ByRequest(broken, "prim"))
      BY <1>1, <1>5, <2>1, <2>2, <2>3, PostMoves
    <2>5. wire'["sec"] = wire["sec"] /\ msgQ'["sec"] = msgQ["sec"]
      BY <1>2, <2>2 DEF Port
    <2> QED  BY <1>1, <1>3, <1>5, <2>1, <2>4, <2>5 DEF Course, Expects
  <1>6. CASE pc \in {"wait", "route"}
    <2>1. /\ Waits("prim", wkc) \/ Has("prim", wkc)
          /\ Waits("sec", wkc2) \/ Has("sec", wkc2)
          /\ did = DidUpTo(request, Ahead(broken))
      BY <1>6 DEF Course
    <2>2. ASSUME NEW p \in Port, NEW w, w' = w, Waits(p, w) \/ Has(p, w)
          PROVE  Waits(p, w)' \/ Has(p, w)'
      <3>1. CASE p = port
        <4>1. Waits(p, w)
          BY <1>1, <2>2, <3>1 DEF Has
        <4>2. rxbufstat[port] = "TX"
          BY <1>1, <3>1, <4>1 DEF Waits, Expects
        <4>3. Comes(wire'[port], msgQ'[port], ByBoth(broken, port))
          BY <1>3, <3>1, <4>1, <4>2, PostMoves, AtMostOne DEF Waits
        <4> QED  BY <1>1, <2>2, <3>1, <4>1, <4>2, <4>3 DEF Waits, Expects
      <3>2. CASE p # port
        BY <1>1, <1>2, <2>2, <3>2 DEF Waits, Expects, Has
      <3> QED  BY <3>1, <3>2
    <2>3. Waits("prim", wkc)' \/ Has("prim", wkc)'
      BY <1>1, <2>1, <2>2 DEF Port
    <2>4. Waits("sec", wkc2)' \/ Has("sec", wkc2)'
      BY <1>1, <2>1, <2>2 DEF Port
    <2> QED  BY <1>1, <1>3, <1>6, <2>1, <2>3, <2>4 DEF Course
  <1>7. CASE pc = "again"
    <2>1. /\ wire["prim"] = <<>> /\ msgQ["prim"] = <<>>
          /\ Comes(wire["sec"], msgQ["sec"], <<Sent(N, N)>>) /\ Expects("sec")
          /\ did = DidUpTo(request, N)
      BY <1>7 DEF Course
    <2>2. port = "sec"
      BY <1>1, <2>1 DEF Port
    <2>3. Comes(wire'["sec"], msgQ'["sec"], <<Sent(N, N)>>)
      BY <1>1, <2>1, <2>2, PostMoves DEF Expects
    <2>4. wire'["prim"] = <<>> /\ msgQ'["prim"] = <<>>
      BY <1>2, <2>1, <2>2 DEF Port
    <2> QED  BY <1>1, <1>3, <1>7, <2>1, <2>3, <2>4 DEF Course, Expects
  <1> QED  BY <1>1, <1>4, <1>5, <1>6, <1>7 DEF Safe, Typed

\* A frame that is taken was the one that was to come.
LEMMA DrawMoves ==
  ASSUME Safe, NEW port \in Port, NEW frame, NEW s, Drawn(port, frame), Comes(wire[port], msgQ[port], s),
         s = <<>> \/ (\E f : s = <<f>>)
  PROVE  /\ s # <<>> /\ frame = Head(s) /\ wire'[port] = <<>> /\ msgQ'[port] = <<>>
         /\ \A p \in Port \ {port} : wire'[p] = wire[p] /\ msgQ'[p] = msgQ[p]
  <1>1. DOMAIN wire = Port /\ DOMAIN msgQ = Port
    BY DEF Safe, Typed
  <1>2. PICK f : s = <<f>>
    BY DEF Drawn, Comes
  <1>3. CASE /\ wire[port] # <<>> /\ frame = Head(wire[port])
             /\ wire' = [wire EXCEPT ![port] = Tail(wire[port])] /\ msgQ' = msgQ
    <2>1. wire[port] = <<f>> /\ msgQ[port] = <<>>
      BY <1>2, <1>3 DEF Comes
    <2>2. Tail(wire[port]) = <<>>
      BY <2>1, Singles
    <2> QED  BY <1>1, <1>2, <1>3, <2>1, <2>2, Singles
  <1>4. CASE /\ msgQ[port] # <<>> /\ frame = Head(msgQ[port])
             /\ msgQ' = [msgQ EXCEPT ![port] = <<>>] /\ wire' = wire
    <2>1. msgQ[port] = <<f>> /\ wire[port] = <<>>
      BY <1>2, <1>4 DEF Comes
    <2> QED  BY <1>1, <1>2, <1>4, <2>1, Singles
  <1> QED  BY <1>3, <1>4 DEF Drawn

LEMMA CourseHears ==
  ASSUME Safe, Course, Calm, Calm', NEW port \in Port, Hears(port)
  PROVE  Course'
  <1> USE DEF Hears
  <1>1. PICK frame :
         /\ Drawn(port, frame)
         /\ rxbuf' = [rxbuf EXCEPT ![port] = frame]
         /\ IF port = "prim" THEN wkc = NOFRAME /\ wkc' = Wkc(frame) /\ wkc2' = wkc2
            ELSE wkc2 = NOFRAME /\ wkc2' = Wkc(frame) /\ wkc' = wkc
    OBVIOUS
  <1>2. /\ broken \subseteq Links /\ Cardinality(broken) <= 1 /\ attempts = 1 /\ pc = "wait"
        /\ DOMAIN rxbuf = Port
        /\ Waits("prim", wkc) \/ Has("prim", wkc)
        /\ Waits("sec", wkc2) \/ Has("sec", wkc2)
        /\ did = DidUpTo(request, Ahead(broken))
    BY DEF Safe, Typed, Calm, Course
  <1>3. Wkc(frame) > NOFRAME
    <2>1. Wkc(frame) \in 0 .. 2 * N
      BY <1>1, <1>2, Draws
    <2> QED  BY <2>1, Counts DEF NOFRAME
  <1>4. Comes(wire[port], msgQ[port], ByBoth(broken, port))
    <2>1. ~ (NOFRAME > NOFRAME)
      BY DEF NOFRAME
    <2> QED  BY <1>1, <1>2, <2>1 DEF Waits, Has, Port
  <1>5. /\ ByBoth(broken, port) # <<>> /\ frame = Head(ByBoth(broken, port))
        /\ wire'[port] = <<>> /\ msgQ'[port] = <<>>
        /\ \A p \in Port \ {port} : wire'[p] = wire[p] /\ msgQ'[p] = msgQ[p]
    BY <1>1, <1>2, <1>4, DrawMoves, AtMostOne
  <1>6. \A p \in Port : rxbuf'[p] = IF p = port THEN frame ELSE rxbuf[p]
    BY <1>1, <1>2
  <1>7. \A p \in Port \ {port} : rxbufstat'[p] = rxbufstat[p]
    OBVIOUS
  <1>8. Waits("prim", wkc)' \/ Has("prim", wkc)'
    <2>1. CASE port = "prim"
      BY <1>1, <1>3, <1>5, <1>6, <2>1 DEF Has, Port
    <2>2. CASE port # "prim"
      BY <1>1, <1>2, <1>5, <1>6, <1>7, <2>2 DEF Has, Waits, Expects, Port
    <2> QED  BY <2>1, <2>2
  <1>9. Waits("sec", wkc2)' \/ Has("sec", wkc2)'
    <2>1. CASE port = "sec"
      BY <1>1, <1>3, <1>5, <1>6, <2>1 DEF Has, Port
    <2>2. CASE port = "prim"
      BY <1>1, <1>2, <1>5, <1>6, <1>7, <2>2 DEF Has, Waits, Expects, Port
    <2> QED  BY <2>1, <2>2 DEF Port
  <1> QED  BY <1>2, <1>8, <1>9 DEF Course

LEMMA CourseStops == ASSUME Safe, Course, Calm, Calm', Stops PROVE Course'
  <1>1. /\ pc = "wait" /\ pc' = "route" /\ attempts = 1
        /\ Waits("prim", wkc) \/ Has("prim", wkc)
        /\ Waits("sec", wkc2) \/ Has("sec", wkc2)
        /\ did = DidUpTo(request, Ahead(broken))
    BY DEF Stops, Course
  <1>2. UNCHANGED <<request, broken, rxbuf, wkc, wkc2, wire, did, attempts, driver, rxbufstat, msgQ>>
    BY DEF Stops, muxVars, queues
  <1>3. (Waits("prim", wkc) \/ Has("prim", wkc))' /\ (Waits("sec", wkc2) \/ Has("sec", wkc2))'
    BY <1>1, <1>2 DEF Waits, Has, Expects
  <1> QED  BY <1>1, <1>2, <1>3 DEF Course

\* What is there when the decision is taken.
LEMMA AtRoute ==
  ASSUME Safe, Course, Calm, pc = "route"
  PROVE  /\ broken \subseteq Links /\ Cardinality(broken) <= 1
         /\ did = DidUpTo(request, Ahead(broken)) /\ attempts = 1
         /\ wire["prim"] = <<>> /\ wire["sec"] = <<>> /\ msgQ["prim"] = <<>> /\ msgQ["sec"] = <<>>
         /\ IF ByBoth(broken, "prim") = <<>> THEN wkc = NOFRAME /\ primrx = "none"
            ELSE /\ wkc > NOFRAME /\ rxbuf["prim"] = Head(ByBoth(broken, "prim"))
                 /\ primrx = rxbuf["prim"].src
         /\ IF ByBoth(broken, "sec") = <<>> THEN wkc2 = NOFRAME /\ secrx = "none"
            ELSE /\ wkc2 > NOFRAME /\ rxbuf["sec"] = Head(ByBoth(broken, "sec"))
                 /\ secrx = rxbuf["sec"].src
  <1>1. /\ Waits("prim", wkc) \/ Has("prim", wkc)
        /\ Waits("sec", wkc2) \/ Has("sec", wkc2)
        /\ did = DidUpTo(request, Ahead(broken)) /\ attempts = 1
    BY DEF Course
  <1>2. /\ wire["prim"] = <<>> /\ wire["sec"] = <<>> /\ msgQ["prim"] = <<>> /\ msgQ["sec"] = <<>>
    BY DEF Safe, Quiet, Calm, Port
  <1>3. /\ wkc > NOFRAME => rxsa["prim"] = rxbuf["prim"].src
        /\ wkc2 > NOFRAME => rxsa["sec"] = rxbuf["sec"].src
    BY DEF Safe, Inbox, Received
  <1>4. ~ (NOFRAME > NOFRAME)
    BY DEF NOFRAME
  <1>5. IF ByBoth(broken, "prim") = <<>> THEN wkc = NOFRAME /\ primrx = "none"
        ELSE /\ wkc > NOFRAME /\ rxbuf["prim"] = Head(ByBoth(broken, "prim"))
             /\ primrx = rxbuf["prim"].src
    BY <1>1, <1>2, <1>3, <1>4 DEF Waits, Has, Comes, primrx
  <1>6. IF ByBoth(broken, "sec") = <<>> THEN wkc2 = NOFRAME /\ secrx = "none"
        ELSE /\ wkc2 > NOFRAME /\ rxbuf["sec"] = Head(ByBoth(broken, "sec"))
             /\ secrx = rxbuf["sec"].src
    BY <1>1, <1>2, <1>3, <1>4 DEF Waits, Has, Comes, secrx
  <1> QED  BY <1>1, <1>2, <1>5, <1>6 DEF Safe, Typed, Calm

\* The decision depends on where the ring is broken.
LEMMA AtDecision ==
  ASSUME Safe, Course, Calm, pc = "route"
  PROVE  \/ /\ broken = {} /\ Ahead(broken) = N /\ primrx = "sec" /\ secrx = "prim"
            /\ wkc2 > NOFRAME /\ rxbuf["sec"] = Sent(N, N)
         \/ /\ broken = {N} /\ Ahead(broken) = N /\ primrx = "prim" /\ secrx = "none"
            /\ wkc > NOFRAME /\ rxbuf["prim"] = Sent(N, N)
         \/ \E k \in Reach :
              /\ k # N /\ broken = {k} /\ Ahead(broken) = k /\ Behind(broken) = k /\ secrx = "sec"
              /\ primrx = (IF k = 0 THEN "none" ELSE "prim")
              /\ k # 0 => rxbuf["prim"] = Sent(k, N)
  <1>1. N \in Reach /\ 0 \in Reach /\ N # 0
    BY Counts DEF Reach
  <1>2. /\ broken \subseteq Links /\ Cardinality(broken) <= 1
        /\ IF ByBoth(broken, "prim") = <<>> THEN wkc = NOFRAME /\ primrx = "none"
           ELSE /\ wkc > NOFRAME /\ rxbuf["prim"] = Head(ByBoth(broken, "prim"))
                /\ primrx = rxbuf["prim"].src
        /\ IF ByBoth(broken, "sec") = <<>> THEN wkc2 = NOFRAME /\ secrx = "none"
           ELSE /\ wkc2 > NOFRAME /\ rxbuf["sec"] = Head(ByBoth(broken, "sec"))
                /\ secrx = rxbuf["sec"].src
    BY AtRoute
  <1>3. CASE broken = {}
    <2>1. /\ Ahead(broken) = N
          /\ ByBoth(broken, "prim") = <<Dummy(N)>> /\ ByBoth(broken, "sec") = <<Sent(N, N)>>
      BY <1>2, <1>3, Rings1
    <2>2. rxbuf["prim"] = Dummy(N) /\ primrx = rxbuf["prim"].src
      BY <1>2, <2>1, Singles
    <2>3. rxbuf["sec"] = Sent(N, N) /\ secrx = rxbuf["sec"].src /\ wkc2 > NOFRAME
      BY <1>2, <2>1, Singles
    <2> QED  BY <1>1, <1>3, <2>1, <2>2, <2>3, SentIs
  <1>4. CASE broken # {}
    <2>1. PICK k \in Reach :
            /\ broken = {k} /\ Ahead(broken) = k /\ Behind(broken) = k
            /\ ByBoth(broken, "prim") = (IF k = 0 THEN <<>> ELSE <<Sent(k, N)>>)
            /\ ByBoth(broken, "sec") = (IF k = N THEN <<>> ELSE <<Dummy(k)>>)
      BY <1>2, <1>4, Rings1
    <2>2. k # 0 => /\ wkc > NOFRAME /\ rxbuf["prim"] = Sent(k, N) /\ primrx = rxbuf["prim"].src
                   /\ Sent(k, N).src = "prim"
      <3> SUFFICES ASSUME k # 0
                   PROVE  /\ wkc > NOFRAME /\ rxbuf["prim"] = Sent(k, N) /\ primrx = rxbuf["prim"].src
                          /\ Sent(k, N).src = "prim"
        OBVIOUS
      <3>1. ByBoth(broken, "prim") = <<Sent(k, N)>>
        BY <2>1
      <3>2. wkc > NOFRAME /\ rxbuf["prim"] = Head(<<Sent(k, N)>>) /\ primrx = rxbuf["prim"].src
        BY <1>2, <3>1, Singles
      <3>3. Sent(k, N).src = "prim"
        BY <1>1, SentIs
      <3> QED  BY <3>2, <3>3, Singles
    <2>3. k = 0 => primrx = "none"
      BY <1>2, <2>1
    <2>4. k # N => rxbuf["sec"] = Dummy(k) /\ secrx = rxbuf["sec"].src /\ Dummy(k).src = "sec"
      <3> SUFFICES ASSUME k # N
                   PROVE  rxbuf["sec"] = Dummy(k) /\ secrx = rxbuf["sec"].src /\ Dummy(k).src = "sec"
        OBVIOUS
      <3>1. ByBoth(broken, "sec") = <<Dummy(k)>>
        BY <2>1
      <3>2. rxbuf["sec"] = Head(<<Dummy(k)>>) /\ secrx = rxbuf["sec"].src
        BY <1>2, <3>1, Singles
      <3>3. Dummy(k).src = "sec"
        BY SentIs
      <3> QED  BY <3>2, <3>3, Singles
    <2>5. k = N => secrx = "none"
      BY <1>2, <2>1
    <2> QED  BY <1>1, <2>1, <2>2, <2>3, <2>4, <2>5
  <1> QED  BY <1>3, <1>4

LEMMA CourseDecides == ASSUME Safe, Course, Calm, Calm', Decides PROVE Course'
  <1>1. /\ pc = "route"
        /\ UNCHANGED <<request, broken, did>>
    BY DEF Decides, TakeSecondary, TakePrimary
  <1>2. DOMAIN rxbuf = Port /\ N # 0
    BY Counts DEF Safe, Typed
  <1>3. did = DidUpTo(request, Ahead(broken)) /\ attempts = 1
    BY <1>1, AtRoute
  <1>4. CASE /\ broken = {} /\ Ahead(broken) = N /\ primrx = "sec" /\ secrx = "prim"
             /\ wkc2 > NOFRAME /\ rxbuf["sec"] = Sent(N, N)
    <2>1. TakeSecondary
      BY <1>4 DEF Decides, TakePrimary
    <2>2. /\ rxbuf' = [rxbuf EXCEPT !["prim"] = rxbuf["sec"]] /\ wkc' = wkc2 /\ Answered(wkc2)
      BY <2>1 DEF TakeSecondary
    <2>3. pc' = "done" /\ attempts' = attempts
      BY <1>4, <2>2 DEF Answered, NOFRAME
    <2>4. rxbuf'["prim"] = Sent(N, N) /\ wkc' > NOFRAME
      BY <1>2, <1>4, <2>2 DEF Port
    <2> QED  BY <1>1, <1>3, <1>4, <2>3, <2>4 DEF Course
  <1>5. CASE /\ broken = {N} /\ Ahead(broken) = N /\ primrx = "prim" /\ secrx = "none"
             /\ wkc > NOFRAME /\ rxbuf["prim"] = Sent(N, N)
    <2>1. TakePrimary
      BY <1>5 DEF Decides, TakeSecondary
    <2>2. rxbuf' = rxbuf /\ wkc' = wkc /\ Answered(wkc)
      BY <2>1 DEF TakePrimary
    <2>3. pc' = "done" /\ attempts' = attempts
      BY <1>5, <2>2 DEF Answered, NOFRAME
    <2> QED  BY <1>1, <1>3, <1>5, <2>2, <2>3 DEF Course
  <1>6. ASSUME NEW k \in Reach, secrx = "sec", primrx = (IF k = 0 THEN "none" ELSE "prim")
        PROVE  FALSE
    <2>1. Reroutes
      BY <1>6 DEF Reroutes
    <2> QED  BY <1>6, <2>1 DEF Decides, TakeSecondary, TakePrimary
  <1> QED  BY <1>1, <1>4, <1>5, <1>6, AtDecision

LEMMA CourseResends == ASSUME Safe, Safe', Course, Calm, Calm', Resends PROVE Course'
  <1> USE DEF Resends
  <1>1. /\ broken \subseteq Links /\ did = DidUpTo(request, Ahead(broken)) /\ attempts = 1
        /\ wire["prim"] = <<>> /\ wire["sec"] = <<>> /\ msgQ["sec"] = <<>>
    BY AtRoute
  <1>2. N \in Reach /\ 0 \in Reach /\ N # 0
    BY Counts DEF Reach
  <1>3. PICK k \in Reach :
          /\ k # N /\ broken = {k} /\ Ahead(broken) = k /\ Behind(broken) = k
          /\ primrx = (IF k = 0 THEN "none" ELSE "prim")
          /\ k # 0 => rxbuf["prim"] = Sent(k, N)
    <2>1. secrx = "sec"
      BY DEF Reroutes
    <2> QED  BY <2>1, AtDecision
  <1>4. txbuf' = Row(1, k)
    <2>1. CASE k = 0
      <3>1. txbuf' = txbuf /\ txbuf = <<>>
        BY <1>3, <2>1 DEF Safe, Buffers
      <3> QED  BY <1>2, <2>1, <3>1, PassedEnds
    <2>2. CASE k # 0
      BY <1>2, <1>3, <2>2, SentIs
    <2> QED  BY <2>1, <2>2
  <1> DEFINE frame == RequestFrame(Row(1, k))
  <1>5. /\ frame.passed = Row(1, k) /\ frame.dummy = FALSE /\ DOMAIN frame = {"src", "dummy", "passed"}
    BY DEF RequestFrame
  <1>6. Row(1, k) \in Seq(Slaves) /\ Len(Row(1, k)) = k
    BY Rows
  <1>7. "sec" \in Port /\ Sends("sec", frame)
    BY <1>4 DEF Port
  <1>8. Whole("sec", frame) = Sent(k, k)
    BY <1>1, <1>3, WholeIs
  <1>9. Sent(k, k) = Sent(N, N) /\ Sent(N, N).passed = Row(1, N)
    BY <1>2, PassedWhole, SentIs DEF Sent
  <1> HIDE DEF frame
  <1>10. /\ \A p \in Port : wire'[p] = IF p \in ArrivesAt("sec")
                                       THEN Append(wire[p], Sent(N, N)) ELSE wire[p]
         /\ did' \in [Slaves -> Nat]
         /\ \A x \in Slaves : did'[x] = did[x] + Cardinality(Deeds(request, Row(1, N), k, x))
         /\ driver = "mux" => rxbufstat'["sec"] = "TX"
    <2>1. frame.passed \in Seq(Slaves) /\ frame.dummy \in BOOLEAN
      BY <1>5, <1>6
    <2>2. /\ \A p \in Port : wire'[p] = IF p \in ArrivesAt("sec")
                                        THEN Append(wire[p], Whole("sec", frame)) ELSE wire[p]
          /\ did' \in [Slaves -> Nat]
          /\ \A x \in Slaves : did'[x] = did[x] +
               IF frame.dummy THEN 0
               ELSE Cardinality(Deeds(request, Whole("sec", frame).passed, Len(frame.passed), x))
          /\ driver = "mux" => rxbufstat'["sec"] = "TX"
      BY <1>5, <1>7, <2>1, Delivered
    <2>3. Whole("sec", frame) = Sent(N, N) /\ Whole("sec", frame).passed = Row(1, N) /\ Len(frame.passed) = k
      BY <1>5, <1>6, <1>8, <1>9
    <2> QED  BY <1>5, <2>2, <2>3
  <1>11. wire'["prim"] = <<>> /\ wire'["sec"] = <<Sent(N, N)>>
    BY <1>1, <1>3, <1>10, Arrivals, Singles DEF Port
  <1>12. msgQ'["prim"] = <<>> /\ msgQ'["sec"] = <<>>
    BY <1>1, <1>7 DEF Sends
  <1>13. did' = DidUpTo(request, N)
    <2>1. k <= N
      BY Counts DEF Reach
    <2>2. did = DidUpTo(request, k)
      BY <1>1, <1>3
    <2>3. \A x \in Slaves : did'[x] = DidUpTo(request, k)[x] + Cardinality(Deeds(request, Row(1, N), k, x))
      BY <1>10, <2>2
    <2> QED  BY <1>2, <1>10, <2>1, <2>3, DidOnce
  <1> QED  BY <1>1, <1>10, <1>11, <1>12, <1>13 DEF Course, Comes, Expects

LEMMA CourseHearsAgain == ASSUME Safe, Course, Calm, Calm', HearsAgain PROVE Course'
  <1> USE DEF HearsAgain
  <1>1. PICK frame :
         /\ Drawn("sec", frame) /\ rxbuf' = [p \in Port |-> frame]
         /\ wkc' = Wkc(frame) /\ Answered(Wkc(frame))
    OBVIOUS
  <1>2. /\ Comes(wire["sec"], msgQ["sec"], <<Sent(N, N)>>)
        /\ did = DidUpTo(request, N) /\ attempts = 1 /\ pc = "again"
    BY DEF Course
  <1>3. frame = Sent(N, N)
    BY <1>1, <1>2, DrawMoves, Singles DEF Port
  <1>4. Wkc(frame) > NOFRAME /\ Wkc(frame) # NOFRAME
    <2>1. Wkc(frame) \in 0 .. 2 * N
      BY <1>1, <1>2, Draws DEF Port
    <2> QED  BY <2>1, Counts DEF NOFRAME
  <1>5. pc' = "done" /\ attempts' = attempts
    BY <1>1, <1>4 DEF Answered
  <1>6. rxbuf'["prim"] = Sent(N, N)
    BY <1>1, <1>3 DEF Port
  <1> QED  BY <1>1, <1>2, <1>4, <1>5, <1>6 DEF Course

\* Nothing is left behind, so the wait does not end before the answer is in.
LEMMA CourseStopsAgain == ASSUME Safe, Course, Calm, Calm', StopsAgain PROVE FALSE
  <1>1. Comes(wire["sec"], msgQ["sec"], <<Sent(N, N)>>) /\ pc = "again"
    BY DEF Course, StopsAgain
  <1>2. late' = 0 /\ late' = late + MuxLeft
    BY DEF Calm, StopsAgain
  <1>3. wire["sec"] = <<>> /\ msgQ["sec"] = <<>>
    BY <1>1, <1>2, Leaves DEF Port
  <1> QED  BY <1>1, <1>3, Singles DEF Comes

LEMMA CourseSteps == ASSUME IInv, [NextOf]_<<vars, muxVars>>, Calm' PROVE Course'
  <1>1. Safe /\ (Calm => Course)
    BY DEF IInv, Safe
  <1>2. CASE UNCHANGED <<vars, muxVars>>
    <2> USE <1>2 DEF vars, muxVars, queues
    <2>1. Calm
      BY DEF Calm
    <2>2. (Waits("prim", wkc) \/ Has("prim", wkc))' = (Waits("prim", wkc) \/ Has("prim", wkc))
      BY DEF Waits, Has, Expects
    <2>3. (Waits("sec", wkc2) \/ Has("sec", wkc2))' = (Waits("sec", wkc2) \/ Has("sec", wkc2))
      BY DEF Waits, Has, Expects
    <2> QED  BY <1>1, <2>1, <2>2, <2>3 DEF Course, Expects
  <1>3. CASE NextOf
    <2>1. Calm /\ Course /\ broken' = broken /\ Safe'
      BY <1>1, <1>3, CalmBefore, SafeSteps
    <2>2. CASE Change /\ UNCHANGED muxVars
      BY <1>1, <2>1, <2>2 DEF Change, Calm
    <2> QED  BY <1>1, <1>3, <2>1, <2>2, Steps, CourseAsks, CourseProbes, CoursePosts, CourseHears,
                CourseStops, CourseDecides, CourseResends, CourseHearsAgain, CourseStopsAgain, Zenon
  <1> QED  BY <1>2, <1>3

LEMMA InitInv == MuxInit => IInv
  <1> SUFFICES ASSUME MuxInit PROVE IInv
    OBVIOUS
  <1>1. /\ request \in Requests /\ broken \in Rings /\ pc = "send" /\ txbuf = <<>>
        /\ rxbuf = [p \in Port |-> NoFrame] /\ rxsa = [p \in Port |-> "none"]
        /\ wkc = NOFRAME /\ wkc2 = NOFRAME /\ wire = [p \in Port |-> <<>>]
        /\ did = [x \in Slaves |-> 0]
        /\ attempts = 1 /\ changes = 0 /\ lost = 0 /\ late = 0
        /\ driver \in {"pcap", "mux"} /\ rxbufstat = Allocated
        /\ \E q \in {<<>>, <<Abandoned>>} : msgQ = [prim |-> q, sec |-> <<>>]
        /\ driver = "pcap" => msgQ["prim"] = <<>>
        /\ failed = 0 /\ early = FALSE
    BY DEF MuxInit, Init
  <1>2. broken \subseteq Links
    BY <1>1, RedundancyAssumption DEF RedundancyAssumption
  <1>3. /\ DOMAIN msgQ = Port /\ msgQ["sec"] = <<>>
        /\ msgQ["prim"] = <<>> \/ msgQ["prim"] = <<Abandoned>>
    BY <1>1 DEF Port
  <1>4. rxbufstat \in [Port -> {"ALLOC", "EMPTY", "TX", "COMPLETE"}] /\ rxbufstat["sec"] = "EMPTY"
    BY <1>1 DEF Allocated, Port
  <1>5. Typed
    <2>1. /\ did \in [Slaves -> Nat] /\ rxsa \in [Port -> {"none", "prim", "sec"}]
          /\ DOMAIN rxbuf = Port /\ DOMAIN wire = Port
      BY <1>1
    <2>2. NOFRAME \in NOFRAME .. 2 * N /\ 1 \in 1 .. MaxAttempts
      BY Counts, RedundancyAssumption DEF RedundancyAssumption, NOFRAME
    <2> QED  BY <1>1, <1>2, <1>3, <1>4, <2>1, <2>2 DEF Typed
  <1>6. NoFrame.passed = <<>>
    BY DEF NoFrame
  <1>7. Worked(request, did, <<>>)
    BY DEF Worked, Places
  <1>8. Honest(request, did, NoFrame)
    BY <1>6, <1>7 DEF Honest
  <1>9. 0 \in Reach /\ Row(1, 0) = <<>>
    BY Counts, PassedEnds DEF Reach
  <1>10. \A p \in Port : rxbuf[p] = NoFrame /\ wire[p] = <<>>
    BY <1>1
  <1>11. Buffers
    BY <1>1, <1>7, <1>8, <1>9, <1>10 DEF Buffers
  <1>12. \A p \in Port : Coming(request, did, p, <<>>) /\ Queued(request, did, p, <<>>)
    BY DEF Coming, Queued
  <1>13. OnWire
    BY <1>1, <1>3, <1>10, <1>12 DEF OnWire, Port
  <1>14. Room
    BY <1>1, <1>10 DEF Room, Turn
  <1>15. Inbox /\ Quiet
    BY <1>1 DEF Inbox, Quiet
  <1>16. did = DidUpTo(request, 0)
    <2>1. \A x \in Slaves : ~ (x <= 0)
      BY Counts
    <2> QED  BY <1>1, <2>1 DEF DidUpTo
  <1>17. Course
    BY <1>1, <1>3, <1>4, <1>10, <1>16 DEF Course
  <1> QED  BY <1>5, <1>11, <1>13, <1>14, <1>15, <1>17 DEF IInv

LEMMA Invariance == SpecOf => []IInv
  <1>1. IInv /\ [NextOf]_<<vars, muxVars>> => IInv'
    BY SafeSteps, CourseSteps DEF IInv, Safe
  <1> QED  BY InitInv, <1>1, PTL DEF SpecOf

-----------------------------------------------------------------------------
(* What the work counter says.                                             *)

LEMMA RowPlaces ==
  ASSUME NEW r
  PROVE  /\ \A k : k \in Places(r, Row(1, N)) <=> k \in 1 .. N /\ k \in Targets(r)
         /\ \A k \in 1 .. N : Row(1, N)[k] = k
  <1>1. N \in Reach  BY Counts DEF Reach
  <1>2. Row(1, N) \in Seq(Slaves) /\ Len(Row(1, N)) = N /\ \A k \in 1 .. N : Row(1, N)[k] = k
    BY <1>1, Rows
  <1>3. DOMAIN Row(1, N) = 1 .. N
    BY <1>2
  <1> QED  BY <1>2, <1>3, PlacesAre, Counts DEF Targets

LEMMA TargetsAre ==
  ASSUME NEW r \in Requests
  PROVE  /\ Targets(r) \subseteq Slaves /\ Targets(r) # {} /\ IsFiniteSet(Targets(r))
         /\ Cardinality(Targets(r)) \in Nat /\ Cardinality(Targets(r)) >= 1
  <1>1. r \in [kind : Kind, slaves : (SUBSET Slaves) \ {{}}]
    BY RedundancyAssumption DEF RedundancyAssumption
  <1>2. r.slaves \subseteq Slaves /\ r.slaves # {}
    BY <1>1
  <1>3. Slaves # {} /\ IsFiniteSet(Slaves)
    <2>1. 1 \in Slaves  BY Counts
    <2>2. IsFiniteSet(1 .. N)  BY Counts, FS_Interval
    <2> QED  BY <2>1, <2>2, Counts
  <1>4. Targets(r) \subseteq Slaves /\ Targets(r) # {}
    BY <1>2, <1>3 DEF Targets
  <1>5. IsFiniteSet(Targets(r))
    BY <1>3, <1>4, FS_Subset
  <1>6. Cardinality(Targets(r)) \in Nat
    BY <1>5, FS_CardinalityType
  <1>7. Cardinality(Targets(r)) # 0
    BY <1>4, <1>5, FS_EmptySet
  <1> QED  BY <1>4, <1>5, <1>6, <1>7

LEMMA AddressedAre ==
  ASSUME request \in Requests
  PROVE  Addressed = Targets(request) /\ Places(request, WholeRow) = Targets(request)
  <1>1. Executions(WholeRow) = Places(request, Row(1, N))
    BY ExecutionsArePlaces DEF WholeRow
  <1>2. Targets(request) \subseteq 1 .. N
    BY TargetsAre, Counts
  <1>3. Places(request, Row(1, N)) = Targets(request)
    BY <1>2, RowPlaces
  <1>4. Addressed = {Row(1, N)[k] : k \in Targets(request)}
    BY <1>1, <1>3 DEF Addressed, WholeRow
  <1>5. \A k \in Targets(request) : Row(1, N)[k] = k
    BY <1>2, RowPlaces
  <1> QED  BY <1>3, <1>4, <1>5 DEF WholeRow

\* A frame that passed two parts of the row and counted as much as the whole
\* row did so at every slave addressed: where the parts leave a gap, no slave
\* is passed twice.
LEMMA FullCount ==
  ASSUME NEW r \in Requests, r.kind # "positioned", NEW a \in Reach, NEW b \in Reach,
         Cardinality(Places(r, Passed(a, b))) = Cardinality(Targets(r)),
         NEW t \in Targets(r)
  PROVE  \E k \in Places(r, Passed(a, b)) : Passed(a, b)[k] = t
  <1> DEFINE s == Passed(a, b)
             P == Places(r, s)
             T == Targets(r)
  <1>1. a \in Nat /\ b \in Nat /\ N - b \in Nat /\ N \in Nat /\ a <= N /\ b <= N
    BY Counts DEF Reach
  <1>2. /\ s \in Seq(Slaves) /\ Len(s) = a + (N - b) /\ \A k \in 1 .. a : s[k] = k
        /\ \A k \in a + 1 .. a + (N - b) : s[k] = b + k - a
    BY PassedIs
  <1>3. T \subseteq Slaves /\ IsFiniteSet(T) /\ Cardinality(T) \in Nat /\ t \in 1 .. N
    BY TargetsAre, Counts
  <1> HIDE DEF s
  <1>4. \A k : k \in P <=> k \in 1 .. a + (N - b) /\ s[k] \in T
    <2>1. DOMAIN s = 1 .. a + (N - b)
      BY <1>1, <1>2
    <2>2. \A k \in DOMAIN s : s[k] \in Slaves
      BY <1>2
    <2> QED  BY <2>1, <2>2, PlacesAre DEF Targets
  <1>5. CASE t <= a
    <2>1. t \in 1 .. a /\ t \in 1 .. a + (N - b)
      BY <1>1, <1>3, <1>5
    <2> QED  BY <1>2, <1>4, <2>1 DEF s
  <1>6. CASE t > b
    <2>1. a + t - b \in a + 1 .. a + (N - b) /\ a + t - b \in 1 .. a + (N - b)
      BY <1>1, <1>3, <1>6
    <2>2. s[a + t - b] = t
      <3>1. s[a + t - b] = b + (a + t - b) - a
        BY <1>2, <2>1
      <3> QED  BY <1>1, <1>3, <3>1
    <2> QED  BY <1>4, <2>1, <2>2 DEF s
  <1>7. CASE a < t /\ t <= b
    <2>1. \A k \in 1 .. a + (N - b) : s[k] # t
      <3> TAKE k \in 1 .. a + (N - b)
      <3>1. CASE k <= a
        BY <1>1, <1>2, <1>3, <1>7, <3>1
      <3>2. CASE k > a
        <4>1. k \in a + 1 .. a + (N - b)
          BY <1>1, <3>2
        <4> QED  BY <1>1, <1>2, <1>3, <1>7, <4>1
      <3> QED  BY <1>1, <3>1, <3>2
    <2>2. \A k, l \in 1 .. a + (N - b) : s[k] = s[l] => k = l
      <3> SUFFICES ASSUME NEW k \in 1 .. a + (N - b), NEW l \in 1 .. a + (N - b), s[k] = s[l]
                   PROVE  k = l
        OBVIOUS
      <3>1. k \in Nat /\ l \in Nat /\ a < b
        BY <1>1, <1>3, <1>7
      <3>2. /\ k <= a => s[k] = k
            /\ k > a => s[k] = b + k - a
            /\ l <= a => s[l] = l
            /\ l > a => s[l] = b + l - a
        BY <1>1, <1>2, <3>1
      <3>3. CASE k <= a /\ l <= a
        BY <3>2, <3>3
      <3>4. CASE k > a /\ l > a
        <4>1. b + k - a = b + l - a  BY <3>2, <3>4
        <4> QED  BY <1>1, <3>1, <4>1
      <3>5. CASE k <= a /\ l > a
        <4>1. k = b + l - a  BY <3>2, <3>5
        <4> QED  BY <1>1, <3>1, <3>5, <4>1
      <3>6. CASE k > a /\ l <= a
        <4>1. l = b + k - a  BY <3>2, <3>6
        <4> QED  BY <1>1, <3>1, <3>6, <4>1
      <3> QED  BY <1>1, <3>1, <3>3, <3>4, <3>5, <3>6
    <2> DEFINE f == [k \in P |-> s[k]]
    <2>3. f \in [P -> T \ {t}]
      BY <1>4, <2>1
    <2>4. \A k, l \in P : f[k] = f[l] => k = l
      BY <1>4, <2>2
    <2>5. f \in Injection(P, T \ {t})
      BY <2>3, <2>4, Zenon DEF Injection, IsInjective
    <2>6. IsFiniteSet(T \ {t}) /\ Cardinality(T \ {t}) = Cardinality(T) - 1
      BY <1>3, FS_RemoveElement
    <2>7. Cardinality(P) <= Cardinality(T \ {t})
      BY <2>5, <2>6, FS_Injection, Zenon
    <2>8. Cardinality(P) = Cardinality(T)
      BY DEF s
    <2> QED  BY <1>3, <2>6, <2>7, <2>8
  <1> QED  BY <1>1, <1>3, <1>5, <1>6, <1>7

LEMMA TypeHolds == ASSUME IInv PROVE TypeOK
  <1>1. Typed /\ Room
    BY DEF IInv
  <1>2. attempts \in 1 .. MaxAttempts /\ MaxAttempts \in Nat /\ Turn \in 0 .. 3
    BY <1>1, Counts DEF Typed, Turn
  <1>3. ASSUME NEW p \in Port PROVE rxsa[p] \in {"none", "prim", "sec"} /\ Len(wire[p]) <= 3 * MaxAttempts
    <2>1. Len(wire[p]) \in Nat
      BY LineLengths DEF IInv, Safe
    <2>2. Len(wire[p]) <= 3 * (attempts - 1) + Turn
      BY <1>1 DEF Room
    <2>3. 3 * (attempts - 1) + Turn <= 3 * MaxAttempts
      BY <1>2
    <2>4. 3 * (attempts - 1) + Turn \in Int /\ 3 * MaxAttempts \in Int
      BY <1>2
    <2>5. Len(wire[p]) <= 3 * MaxAttempts
      <3> DEFINE l == Len(wire[p])
                 m == 3 * (attempts - 1) + Turn
                 n == 3 * MaxAttempts
      <3>1. l \in Nat /\ m \in Int /\ n \in Int /\ l <= m /\ m <= n
        BY <2>1, <2>2, <2>3, <2>4
      <3> HIDE DEF l, m, n
      <3>2. l <= n  BY <3>1
      <3> QED  BY <3>2 DEF l, n
    <2> QED  BY <1>1, <2>5 DEF Typed
  <1> QED  BY <1>1, <1>3 DEF TypeOK, Typed

LEMMA ServicedHolds == ASSUME IInv, NoFault PROVE Serviced
  <1> SUFFICES ASSUME pc = "done", changes = 0, lost = 0, late = 0, Cardinality(broken) <= 1
               PROVE  /\ wkc = Expected /\ rxbuf["prim"] = RequestFrame(WholeRow)
                      /\ \A x \in Slaves : did[x] = IF x \in Addressed THEN 1 ELSE 0
                      /\ attempts = 1
    BY DEF Serviced
  <1>1. Course
    BY DEF IInv, Calm, NoFault
  <1>2. /\ attempts = 1 /\ wkc > NOFRAME /\ rxbuf["prim"] = Sent(N, N)
        /\ did = DidUpTo(request, N)
    BY <1>1 DEF Course
  <1>3. N \in Reach
    BY Counts DEF Reach
  <1>4. Sent(N, N) = RequestFrame(WholeRow) /\ Sent(N, N).passed = WholeRow /\ Sent(N, N).dummy = FALSE
    BY <1>3, PassedEnds, SentIs DEF Sent, WholeRow
  <1>5. request \in Requests
    BY DEF IInv, Typed
  <1>6. wkc = Counted(request, Sent(N, N))
    BY <1>2 DEF IInv, Inbox
  <1>7. wkc = Cardinality(Places(request, WholeRow))
    BY <1>4, <1>6 DEF Counted
  <1>8. wkc = Expected
    BY <1>5, <1>7, AddressedAre DEF Expected
  <1>9. \A x \in Slaves : did[x] = IF x \in Addressed THEN 1 ELSE 0
    <2>1. \A x \in Slaves : x <= N
      BY Counts
    <2> QED  BY <1>2, <1>5, <2>1, AddressedAre DEF DidUpTo
  <1> QED  BY <1>2, <1>4, <1>8, <1>9

LEMMA TruthfulHolds == ASSUME IInv PROVE Truthful
  <1> SUFFICES ASSUME pc = "done", late = 0
               PROVE  /\ CopiesData => ~rxbuf["prim"].dummy
                      /\ wkc = Expected /\ request.kind # "positioned" =>
                           \A x \in Addressed : did[x] > 0
    BY DEF Truthful
  <1>1. Inbox /\ Typed /\ Buffers
    BY DEF IInv
  <1>2. wkc > NOFRAME =>
          /\ rxbuf["prim"] # NoFrame /\ wkc = Counted(request, rxbuf["prim"])
          /\ ~rxbuf["prim"].dummy \/ wkc = 0
    BY <1>1 DEF Inbox
  <1>3. wkc \in Int /\ request \in Requests /\ did \in [Slaves -> Nat]
    BY <1>1, Counts DEF Typed, NOFRAME
  <1>4. CopiesData => ~rxbuf["prim"].dummy
    BY <1>2, <1>3 DEF CopiesData, NOFRAME
  <1>5. ASSUME wkc = Expected, request.kind # "positioned", NEW x \in Addressed
        PROVE  did[x] > 0
    <2>1. Addressed = Targets(request)
      BY <1>3, AddressedAre
    <2>2. wkc = Cardinality(Targets(request)) /\ wkc >= 1
      BY <1>3, <1>5, <2>1, TargetsAre DEF Expected
    <2>3. ~rxbuf["prim"].dummy /\ rxbuf["prim"] # NoFrame /\ wkc = Counted(request, rxbuf["prim"])
      BY <1>2, <1>3, <2>2 DEF NOFRAME
    <2>4. rxbuf["prim"] \in ArrivingSecondary /\ Honest(request, did, rxbuf["prim"])
      BY <1>1, <2>3 DEF Buffers, Port
    <2>5. PICK a \in Reach, b \in Reach : rxbuf["prim"] = Sent(a, b)
      BY <2>3, <2>4, FrameIs
    <2>6. Sent(a, b).passed = Passed(a, b) /\ Sent(a, b).dummy = FALSE
      BY SentIs
    <2>7. Cardinality(Places(request, Passed(a, b))) = Cardinality(Targets(request))
      BY <2>2, <2>3, <2>5, <2>6 DEF Counted
    <2>8. PICK k \in Places(request, Passed(a, b)) : Passed(a, b)[k] = x
      BY <1>3, <1>5, <2>1, <2>7, FullCount
    <2>9. did[Passed(a, b)[k]] >= 1
      BY <2>4, <2>5, <2>6 DEF Honest, Worked
    <2>10. did[x] \in Nat
      BY <1>3, <2>1, TargetsAre
    <2> QED  BY <2>8, <2>9, <2>10
  <1> QED  BY <1>4, <1>5

LEMMA NeverAbandonedHolds == ASSUME IInv PROVE NeverAbandoned
  <1>1. \A f \in ArrivingSecondary : f.src \in {"prim", "sec"}
    BY FrameIs
  <1>2. NoFrame.src = "none"
    BY DEF NoFrame
  <1>3. \A p \in Port : rxbuf[p] \in ArrivingSecondary \cup {NoFrame}
    BY DEF IInv, Buffers
  <1> QED  BY <1>1, <1>2, <1>3 DEF NeverAbandoned

\* With either driver of the redundant port: whichever one link of the ring is
\* broken, every slave addressed is serviced once and at the first attempt,
\* and whatever breaks meanwhile a full work counter means that each slave
\* addressed did its part (ecx_waitinframe_red, ecx_srconfirm).
THEOREM AnswerTheorem == SpecOf => []AnswerIsWhole
  <1>1. IInv => AnswerIsWhole
    BY TypeHolds, ServicedHolds, TruthfulHolds, NeverAbandonedHolds DEF AnswerIsWhole
  <1> QED  BY Invariance, <1>1, PTL
==============================================================================
