------------------------------ MODULE Encoder -------------------------------
(***************************************************************************)
(* EncoderImpl (src/src/libns/encoder.cpp): process_frame() has x264       *)
(* encode a captured frame; for every NAL unit x264 calls nalu_process,    *)
(* which encodes it into m_nal_encoding_buff and notifies the client.      *)
(*                                                                         *)
(* x264 is external.  Its slices may be encoded by several threads, which  *)
(* then call nalu_process concurrently ("depending on multu-threading      *)
(* settings"); initialize() sets and asserts i_threads = 1.  i_threads is  *)
(* chosen from ThreadCounts here, since the lock in nalu_process is there  *)
(* for more than one.                                                      *)
(*                                                                         *)
(* Of x264 it is assumed that it encodes a frame in the call it is given   *)
(* in, as the tune zerolatency is documented to.  The comment of           *)
(* initialize() (encoder.cpp:179) speaks of "as many as 70 delayed         *)
(* frames"; with any, units of an older frame would carry the time of a    *)
(* newer one, and TimestampDifference and EndedWhole would be about        *)
(* something else.                                                         *)
(*                                                                         *)
(* The NAL units of a frame are numbered from 1.  Time is in milliseconds  *)
(* of the steady clock.                                                    *)
(***************************************************************************)
EXTENDS Integers

CONSTANTS
  ThreadCounts, \* how many threads x264 may encode slices with
  MaxNals,   \* bound: NAL units of a frame
  MaxTime,   \* bound: time the model covers
  MaxDelay,  \* bound: time between two frames
  TsMod      \* 2^32, the timestamps of NAL_Metadata

ASSUME ThreadsAssumption == 1 \in ThreadCounts /\ ThreadCounts \subseteq Nat \ {0}
ASSUME BoundsAssumption  == MaxNals \in Nat /\ MaxTime \in Nat
ASSUME TsModAssumption   == TsMod \in Nat \ {0} /\ MaxDelay \in 1 .. TsMod - 1

NoThread == 0  \* nobody holds m_client_notification_lock

VARIABLES
  i_threads,            \* m_encoder's, never changed
  pc,                   \* "idle", "encode": in process_frame()
  m_frame,
  now,                  \* captured_meta.timestamp of the frame in the encoder
  user_data,            \* the timestamp m_pic->opaque leads to
  nals,                 \* how many NAL units the frame will have
  next,                 \* the next one x264 makes
  thread,               \* where each thread is in nalu_process
  job,                  \* the NAL unit it is there for
  m_nal_encoding_buff,  \* the unit in the buffer, 0 if none
  lock,                 \* m_client_notification_lock
  notified,             \* units of the frame the client was notified of
  timestamp,            \* the timestamp of the last notification
  captured,             \* the capture time of the frame it was for
  bracket               \* "open" between on_frame_started and on_frame_ended


(* Faulty variant: the number of threads is left to x264. *)
ThreadsOfPreset == 1 .. i_threads + 1

Threads == 1 .. i_threads

frameVars == <<i_threads, m_frame, now, user_data, nals>>
heardVars == <<notified, timestamp, captured>>
vars == <<pc, frameVars, next, thread, job, m_nal_encoding_buff, lock,
          heardVars, bracket>>

TypeOK ==
  /\ i_threads \in ThreadCounts
  /\ pc \in {"idle", "encode"}
  /\ m_frame \in 0 .. MaxTime
  /\ now \in 0 .. MaxTime
  /\ user_data \in 0 .. MaxTime
  /\ nals \in 0 .. MaxNals
  /\ next \in 1 .. MaxNals + 1
  /\ thread \in [Threads -> {"idle", "encoded", "notifying"}]
  /\ job \in [Threads -> 0 .. MaxNals]
  /\ m_nal_encoding_buff \in 0 .. MaxNals
  /\ lock \in Threads \cup {NoThread}
  /\ notified \in SUBSET (1 .. MaxNals)
  /\ timestamp \in 0 .. TsMod - 1
  /\ captured \in 0 .. MaxTime
  /\ bracket \in {"open", "closed"}

Init ==
  /\ i_threads \in ThreadCounts
  /\ pc = "idle"
  /\ m_frame = 0
  /\ now = 0 /\ user_data = 0
  /\ nals = 0 /\ next = 1
  /\ thread = [t \in Threads |-> "idle"]
  /\ job = [t \in Threads |-> 0]
  /\ m_nal_encoding_buff = 0
  /\ lock = NoThread
  /\ notified = {}
  /\ timestamp = 0 /\ captured = 0
  /\ bracket = "closed"

-----------------------------------------------------------------------------
(* process_frame() *)

(* Faulty variant: m_pic->opaque is set for the first frame only. *)
ProcessFrameOnce ==
  /\ pc = "idle"
  /\ \E d \in 1 .. MaxDelay, n \in 0 .. MaxNals :
       /\ now + d <= MaxTime
       /\ now' = now + d
       /\ user_data' = IF m_frame = 0 THEN now + d ELSE user_data
       /\ nals' = n
  /\ bracket' = "open"
  /\ next' = 1
  /\ notified' = {}
  /\ pc' = "encode"
  /\ UNCHANGED <<i_threads, m_frame, thread, job, m_nal_encoding_buff, lock,
                 timestamp, captured>>

(* A frame comes from the capture.  on_frame_started, then the call of     *)
(* x264_encoder_encode: with zerolatency it encodes this frame, and the    *)
(* user data on the stack stays valid until it returns.                    *)
ProcessFrame ==
  /\ pc = "idle"
  /\ \E d \in 1 .. MaxDelay, n \in 0 .. MaxNals :
       /\ now + d <= MaxTime
       /\ now' = now + d
       /\ user_data' = now + d
       /\ nals' = n
  /\ bracket' = "open"
  /\ next' = 1
  /\ notified' = {}
  /\ pc' = "encode"
  /\ UNCHANGED <<i_threads, m_frame, thread, job, m_nal_encoding_buff, lock,
                 timestamp, captured>>

Resting == \A t \in Threads : thread[t] = "idle"

(* x264 fails, perhaps after some NAL units: neither on_frame_ended nor    *)
(* m_frame++.                                                              *)
EncodeFails ==
  /\ pc = "encode"
  /\ Resting
  /\ pc' = "idle"
  /\ UNCHANGED <<frameVars, next, thread, job, m_nal_encoding_buff, lock,
                 heardVars, bracket>>

(* Faulty variant: on_frame_ended as soon as x264 has made all NAL units.  *)
EncodeReturnsEarly ==
  /\ pc = "encode"
  /\ next = nals + 1
  /\ bracket' = IF nals > 0 THEN "closed" ELSE bracket
  /\ m_frame' = m_frame + 1
  /\ pc' = "idle"
  /\ UNCHANGED <<i_threads, now, user_data, nals, next, thread, job,
                 m_nal_encoding_buff, lock, heardVars>>

(* x264 returns, all its threads done with the frame.  A frame of size 0   *)
(* is counted but not ended.                                               *)
EncodeReturns ==
  /\ pc = "encode"
  /\ Resting
  /\ next = nals + 1
  /\ bracket' = IF nals > 0 THEN "closed" ELSE bracket
  /\ m_frame' = m_frame + 1
  /\ pc' = "idle"
  /\ UNCHANGED <<i_threads, now, user_data, nals, next, thread, job,
                 m_nal_encoding_buff, lock, heardVars>>

-----------------------------------------------------------------------------
(* nalu_process *)

(* A thread has a NAL unit: x264_nal_encode writes it to the buffer, which *)
(* all threads share, before the lock is taken.                            *)
EncodeNal(t) ==
  /\ pc = "encode"
  /\ next <= nals
  /\ thread[t] = "idle"
  /\ next' = next + 1
  /\ job' = [job EXCEPT ![t] = next]
  /\ m_nal_encoding_buff' = next
  /\ thread' = [thread EXCEPT ![t] = "encoded"]
  /\ UNCHANGED <<pc, frameVars, lock, heardVars, bracket>>

(* Faulty variant: the milliseconds saturate at 32 bits. *)
TimestampClamped(ms) == IF ms < TsMod THEN ms ELSE TsMod - 1

(* Faulty variant: the milliseconds are not cast. *)
TimestampWide(ms) == ms

(* static_cast<uint32_t> of the milliseconds since the clock's epoch *)
Timestamp(ms) == ms % TsMod

(* Faulty variant: the client is notified without the lock. *)
NotifyUnlocked(t) ==
  /\ thread[t] = "encoded"
  /\ lock' = t
  /\ timestamp' = Timestamp(user_data)
  /\ captured' = now
  /\ notified' = notified \cup {job[t]}
  /\ thread' = [thread EXCEPT ![t] = "notifying"]
  /\ UNCHANGED <<pc, frameVars, next, job, m_nal_encoding_buff, bracket>>

(* The lock is taken and on_nal_encoded called on the buffer's octets; the *)
(* call lasts until NotifyReturns.                                         *)
Notify(t) ==
  /\ thread[t] = "encoded"
  /\ lock = NoThread
  /\ lock' = t
  /\ timestamp' = Timestamp(user_data)
  /\ captured' = now
  /\ notified' = notified \cup {job[t]}
  /\ thread' = [thread EXCEPT ![t] = "notifying"]
  /\ UNCHANGED <<pc, frameVars, next, job, m_nal_encoding_buff, bracket>>

NotifyReturns(t) ==
  /\ thread[t] = "notifying"
  /\ lock' = NoThread
  /\ thread' = [thread EXCEPT ![t] = "idle"]
  /\ UNCHANGED <<pc, frameVars, next, job, m_nal_encoding_buff, heardVars,
                 bracket>>

nalu_process(t) == EncodeNal(t) \/ Notify(t) \/ NotifyReturns(t)

Next ==
  \/ ProcessFrame \/ EncodeFails \/ EncodeReturns
  \/ \E t \in Threads : nalu_process(t)

Spec == Init /\ [][Next]_vars

-----------------------------------------------------------------------------
(* Properties *)

(* The client gets "serialized callback notifications as guarantee"        *)
(* (comment of nalu_process), with any number of x264 threads.             *)
CallbacksSerialized ==
  \A t, u \in Threads :
    thread[t] = "notifying" /\ thread[u] = "notifying" => t = u

(* While the client copies a NAL unit out of m_nal_encoding_buff, the      *)
(* buffer holds that unit.  Nothing but i_threads = 1 makes it so: the     *)
(* buffer is written before the lock is taken.                             *)
NalIntact ==
  i_threads = 1 =>
    \A t \in Threads : thread[t] = "notifying" => m_nal_encoding_buff = job[t]

(* Timestamps may wrap ("2^32 milliseconds is ~49 days"), but the          *)
(* difference between the ones of consecutive NAL units is the time        *)
(* between the captures of their frames.                                   *)
TimestampDifference ==
  [][notified' # notified /\ captured # 0 /\ notified' # {}
       /\ captured' - captured < TsMod
       => (timestamp' - timestamp) % TsMod = captured' - captured]_vars

(* on_frame_ended comes after the client was notified of every NAL unit of *)
(* the frame, and while none is being notified.                            *)
EndedWhole ==
  [][bracket = "open" /\ bracket' = "closed"
       => notified = 1 .. nals /\ lock = NoThread]_vars
=============================================================================
