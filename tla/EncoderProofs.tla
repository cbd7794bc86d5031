--------------------------- MODULE EncoderProofs ----------------------------
(***************************************************************************)
(* What Encoder guarantees for any number of x264 threads, any number of   *)
(* NAL units in a frame, and any width of the timestamps.                  *)
(***************************************************************************)
EXTENDS Encoder, TLAPS

(* The user data of the frame being encoded is its capture time, and what  *)
(* was last notified is the timestamp of the frame it was for.             *)
StampInv ==
  /\ pc = "encode" => user_data = now /\ now > 0 /\ m_frame < now
  /\ m_frame <= now
  /\ captured <= now
  /\ timestamp = captured % TsMod

(* x264's threads are in nalu_process only while process_frame() waits,    *)
(* and the lock belongs to the one that notifies the client.               *)
ThreadInv ==
  \A t \in Threads :
    /\ pc = "idle" => thread[t] = "idle"
    /\ thread[t] # "idle" => job[t] \in 1 .. next - 1
    /\ thread[t] = "notifying" <=> lock = t

(* Every NAL unit made so far was notified, or a thread waits to do so.    *)
ProgressInv ==
  /\ next <= nals + 1
  /\ notified \subseteq 1 .. next - 1
  /\ pc = "encode" =>
       \A n \in (1 .. next - 1) \ notified :
         \E t \in Threads : thread[t] = "encoded" /\ job[t] = n

(* With one thread the buffer holds the unit that thread is there for.     *)
BufferInv ==
  i_threads = 1 => (thread[1] # "idle" => m_nal_encoding_buff = job[1])

IInv == TypeOK /\ StampInv /\ ThreadInv /\ ProgressInv /\ BufferInv

-----------------------------------------------------------------------------
(* The remainder of the difference of two remainders is the difference, if *)
(* that is less than the modulus: subtraction of wrapped timestamps works. *)
LEMMA WrappedDifference ==
  ASSUME NEW m \in Nat \ {0}, NEW a \in Nat, NEW b \in Nat,
         a <= b, b - a < m
  PROVE  ((b % m) - (a % m)) % m = b - a
<1> DEFINE qa == a \div m
           qb == b \div m
           ra == a % m
           rb == b % m
<1>1. qa \in Int /\ qb \in Int /\ ra \in 0 .. m - 1 /\ rb \in 0 .. m - 1
  OBVIOUS
<1>2. a = m * qa + ra /\ b = m * qb + rb
  OBVIOUS
<1> HIDE DEF qa, qb, ra, rb
<1>3. m * (qb - qa) = (b - a) - (rb - ra)
  BY <1>1, <1>2
<1>4. qb - qa = 0 \/ qb - qa = 1
  <2> DEFINE k == qb - qa
  <2>1. k \in Int /\ m * k = (b - a) - (rb - ra)
    BY <1>1, <1>3
  <2>2. -m < m * k /\ m * k < 2 * m
    BY <1>1, <2>1
  <2> HIDE DEF k
  <2>3. k > -1 /\ k < 2
    BY <2>1, <2>2
  <2>4. k = 0 \/ k = 1
    BY <2>1, <2>3
  <2> QED
    BY <2>4 DEF k
<1>5. rb - ra = b - a \/ rb - ra = (b - a) - m
  BY <1>1, <1>3, <1>4
<1>6. (b - a) % m = b - a
  OBVIOUS
<1>7. ((b - a) - m) % m = b - a
  <2> DEFINE d == b - a
             r == (d - m) % m
             q == (d - m) \div m
  <2>1. d \in 0 .. m - 1 /\ q \in Int /\ r \in 0 .. m - 1
    OBVIOUS
  <2>2. d - m = m * q + r
    BY <2>1
  <2> HIDE DEF d, q, r
  <2>3. m * (q + 1) = d - r
    BY <2>1, <2>2
  <2>4. q + 1 = 0
    BY <2>1, <2>3
  <2>5. r = d
    BY <2>1, <2>3, <2>4
  <2> QED
    BY <2>5 DEF d, r
<1>8. (rb - ra) % m = b - a
  BY <1>5, <1>6, <1>7
<1> QED
  BY <1>8 DEF ra, rb

-----------------------------------------------------------------------------
(* The encoder starts in a state of the invariant. *)
LEMMA InitIInv == Init => IInv
<1> SUFFICES ASSUME Init PROVE IInv
  OBVIOUS
<1> USE ThreadsAssumption, BoundsAssumption, TsModAssumption DEF Init
<1>1. i_threads \in Nat /\ i_threads > 0
  OBVIOUS
<1>2. TypeOK
  BY <1>1 DEF TypeOK, Threads, NoThread
<1>3. StampInv /\ ProgressInv /\ BufferInv
  BY <1>1 DEF StampInv, ProgressInv, BufferInv, Threads
<1>4. ThreadInv
  BY <1>1 DEF ThreadInv, Threads, NoThread
<1> QED
  BY <1>2, <1>3, <1>4 DEF IInv

(* The steps of a thread in nalu_process keep it.                          *)
LEMMA NaluProcessIInv ==
  ASSUME IInv, NEW t \in Threads, nalu_process(t)
  PROVE  IInv'
<1> USE ThreadsAssumption, BoundsAssumption, TsModAssumption
    DEF IInv, TypeOK, StampInv, ThreadInv, ProgressInv, BufferInv, Threads,
        NoThread, frameVars, heardVars
<1>0. i_threads \in Nat /\ t \in Nat /\ t # 0
  OBVIOUS
<1>1. CASE EncodeNal(t)
  BY <1>0, <1>1 DEF EncodeNal
<1>2. CASE Notify(t)
  <2>1. /\ thread' = [thread EXCEPT ![t] = "notifying"]
        /\ lock = NoThread /\ lock' = t
        /\ timestamp' = user_data % TsMod /\ captured' = now
        /\ notified' = notified \cup {job[t]}
        /\ UNCHANGED <<pc, frameVars, next, job, m_nal_encoding_buff, bracket>>
    BY <1>2 DEF Notify, Timestamp
  <2>2. thread[t] = "encoded" /\ pc = "encode" /\ user_data = now
    BY <1>0, <1>2 DEF Notify
  <2>3. job[t] \in 1 .. next - 1
    BY <2>2
  <2>4. now % TsMod \in 0 .. TsMod - 1
    OBVIOUS
  <2>5. TypeOK'
    <3>1. timestamp' \in 0 .. TsMod - 1
      BY ONLY <2>1, <2>2, <2>4
    <3>2. /\ thread' \in [Threads' -> {"idle", "encoded", "notifying"}]
          /\ lock' \in Threads' \cup {NoThread}
      BY <2>1
    <3>3. notified' \in SUBSET (1 .. MaxNals) /\ captured' \in 0 .. MaxTime
      <4>1. job[t] \in 1 .. MaxNals
        BY <2>3
      <4>2. notified \in SUBSET (1 .. MaxNals) /\ now \in 0 .. MaxTime
        OBVIOUS
      <4> QED
        BY ONLY <2>1, <4>1, <4>2
    <3>4. /\ i_threads' = i_threads /\ pc' = pc /\ m_frame' = m_frame
          /\ now' = now /\ user_data' = user_data /\ nals' = nals
          /\ next' = next /\ job' = job /\ bracket' = bracket
          /\ m_nal_encoding_buff' = m_nal_encoding_buff
      BY <2>1
    <3> QED
      BY <3>1, <3>2, <3>3, <3>4
  <2>6. StampInv'
    BY <2>1, <2>2, <2>4
  <2>7. ThreadInv'
    BY <1>0, <2>1, <2>2
  <2>8. ProgressInv'
    <3>1. notified' \subseteq 1 .. next - 1
      BY <2>1, <2>3
    <3>2. ASSUME NEW n \in (1 .. next - 1) \ notified'
          PROVE  \E u \in Threads : thread'[u] = "encoded" /\ job[u] = n
      <4>1. PICK u \in Threads : thread[u] = "encoded" /\ job[u] = n
        BY <2>1, <2>2
      <4>2. u # t
        BY <2>1, <4>1
      <4> QED
        BY <2>1, <4>1, <4>2
    <3> QED
      BY <2>1, <3>1, <3>2
  <2>9. BufferInv'
    BY <1>0, <2>1, <2>2
  <2> QED
    BY <2>5, <2>6, <2>7, <2>8, <2>9
<1>3. CASE NotifyReturns(t)
  BY <1>0, <1>3 DEF NotifyReturns
<1> QED
  BY <1>1, <1>2, <1>3 DEF nalu_process

(* Every step keeps it. *)
LEMMA NextIInv == IInv /\ [Next]_vars => IInv'
<1> SUFFICES ASSUME IInv, [Next]_vars PROVE IInv'
  OBVIOUS
<1> USE ThreadsAssumption, BoundsAssumption, TsModAssumption
    DEF IInv, TypeOK, StampInv, ThreadInv, ProgressInv, BufferInv, Threads,
        NoThread, frameVars, heardVars
<1>1. CASE ProcessFrame
  BY <1>1 DEF ProcessFrame
<1>2. CASE EncodeFails
  BY <1>2 DEF EncodeFails, Resting
<1>3. CASE EncodeReturns
  BY <1>3 DEF EncodeReturns, Resting
<1>4. CASE \E t \in Threads : nalu_process(t)
  BY <1>4, NaluProcessIInv
<1>5. CASE UNCHANGED vars
  BY <1>5 DEF vars
<1> QED
  BY <1>1, <1>2, <1>3, <1>4, <1>5 DEF Next

(* So the invariant holds in every reachable state. *)
LEMMA IInvHolds == Spec => []IInv
<1>1. Init => IInv
  BY InitIInv
<1>2. IInv /\ [Next]_vars => IInv'
  BY NextIInv
<1> QED
  BY <1>1, <1>2, PTL DEF Spec
-----------------------------------------------------------------------------
(* Every variable keeps its type; the NAL units a client is notified of    *)
(* are ones of the frame.                                                  *)
THEOREM TypeCorrect == Spec => []TypeOK
<1>1. IInv => TypeOK
  BY DEF IInv
<1> QED
  BY <1>1, IInvHolds, PTL

(* However many threads x264 has, one notification at a time.              *)
THEOREM NotificationsAreSerialized == Spec => []CallbacksSerialized
<1>1. IInv => CallbacksSerialized
  BY DEF IInv, ThreadInv, CallbacksSerialized
<1> QED
  BY <1>1, IInvHolds, PTL

(* With one thread the buffer is not written while the client reads it.    *)
THEOREM NalUnitsAreIntact == Spec => []NalIntact
<1>1. IInv => NalIntact
  BY DEF IInv, BufferInv, NalIntact, Threads
<1> QED
  BY <1>1, IInvHolds, PTL

-----------------------------------------------------------------------------
(* Subtracting the timestamps of consecutive NAL units modulo 2^32 gives   *)
(* the time between the captures of their frames, if less than 49 days.    *)
THEOREM TimestampsMeasureCaptures == Spec => TimestampDifference
<1>1. IInv /\ [Next]_vars =>
        [notified' # notified /\ captured # 0 /\ notified' # {}
           /\ captured' - captured < TsMod
         => (timestamp' - timestamp) % TsMod = captured' - captured]_vars
  <2> SUFFICES ASSUME IInv, Next, notified' # notified, notified' # {},
                      captured' - captured < TsMod
               PROVE  (timestamp' - timestamp) % TsMod = captured' - captured
    OBVIOUS
  <2>1. PICK t \in Threads : Notify(t)
    BY DEF Next, ProcessFrame, EncodeFails, EncodeReturns, nalu_process,
           EncodeNal, NotifyReturns, heardVars
  <2>2. user_data = now
    BY <2>1 DEF Notify, IInv, ThreadInv, StampInv, TypeOK
  <2>3. /\ captured' = now /\ timestamp' = now % TsMod
        /\ timestamp = captured % TsMod
    BY <2>1, <2>2 DEF Notify, Timestamp, IInv, StampInv
  <2>4. /\ TsMod \in Nat \ {0} /\ captured \in Nat /\ now \in Nat
        /\ captured <= now
    BY TsModAssumption, BoundsAssumption DEF IInv, TypeOK, StampInv
  <2>5. ((now % TsMod) - (captured % TsMod)) % TsMod = now - captured
    BY <2>3, <2>4, WrappedDifference
  <2> QED
    BY <2>3, <2>5
<1> QED
  BY <1>1, IInvHolds, PTL DEF Spec, TimestampDifference

(* A frame is only ended when the client was notified of all of it.        *)
THEOREM FramesEndWhole == Spec => EndedWhole
<1>1. IInv /\ [Next]_vars =>
        [bracket = "open" /\ bracket' = "closed"
         => notified = 1 .. nals /\ lock = NoThread]_vars
  <2> SUFFICES ASSUME IInv, Next, bracket = "open", bracket' = "closed"
               PROVE  notified = 1 .. nals /\ lock = NoThread
    OBVIOUS
  <2>1. EncodeReturns
    BY DEF Next, ProcessFrame, EncodeFails, nalu_process, EncodeNal, Notify,
           NotifyReturns
  <2>2. \A t \in Threads : thread[t] = "idle"
    BY <2>1 DEF EncodeReturns, Resting
  <2>3. lock = NoThread
    BY <2>2 DEF IInv, TypeOK, ThreadInv
  <2>4. notified = 1 .. nals
    <3>1. pc = "encode" /\ next = nals + 1 /\ nals \in Nat
      BY <2>1 DEF EncodeReturns, IInv, TypeOK
    <3>2. notified \subseteq 1 .. next - 1
      BY DEF IInv, ProgressInv
    <3>3. (1 .. next - 1) \ notified = {}
      BY <2>2, <3>1 DEF IInv, ProgressInv
    <3>4. next - 1 = nals
      BY <3>1
    <3> QED
      BY <3>2, <3>3, <3>4
  <2> QED
    BY <2>3, <2>4
<1> QED
  BY <1>1, IInvHolds, PTL DEF Spec, EndedWhole
=============================================================================
