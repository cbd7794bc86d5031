----------------------------- MODULE ReceiveApp -----------------------------
(***************************************************************************)
(* stream_receive (src/src/stream_receive): the GUI thread, which runs     *)
(* main() and Qt's event loop, and the asio thread, which receives         *)
(* packets, decodes them and hands decoded frames to the window.           *)
(*                                                                         *)
(* They share the window, its current frame (a QImage that points into     *)
(* m_current_frame_data) under m_current_frame_lock, and the io_context.   *)
(*                                                                         *)
(* What arrives is the LossyStream that the transport implements, and goes *)
(* through Decoder.  The codec (external) fails or makes some frames of a  *)
(* unit.  A frame is its number; the image and its memory are the number   *)
(* of the frame they hold, 0 for none.                                     *)
(***************************************************************************)
EXTENDS Decoder

CONSTANTS
  MaxFrames,     \* bound: frames decoded
  FramesPerUnit  \* bound: frames the codec makes of one unit

ASSUME BoundsAssumption == MaxFrames \in Nat /\ FramesPerUnit \in Nat

VARIABLES
  gui,                   \* where main() is
  window,                \* the MainWindow w: "alive" or "destroyed"
  update_pending,        \* Qt has a paint event for the window
  painted,               \* the frame the window shows
  asio,                  \* where the asio thread is
  stopped,               \* ctx.stop() was called
  receiving,             \* m_udp_receive waits for datagrams
  heard,                 \* number of the packet received last, -1 for none
  packet,                \* that packet
  feeds,                 \* calls of decode_packet left for it
  decoded,               \* frames decoded so far
  more,                  \* on_frame calls left for the unit in the codec
  m_current_frame_data,  \* the frame whose memory the window owns
  m_current_frame_img,   \* the frame whose memory the image points to
  m_current_frame_lock   \* who holds it

guiVars   == <<gui, window, update_pending, painted>>
streamVars == <<heard, packet, feeds, decoderVars>>
asioVars  == <<asio, decoded, more, streamVars>>
frameVars == <<m_current_frame_data, m_current_frame_img,
               m_current_frame_lock>>
vars == <<guiVars, asioVars, stopped, receiving, frameVars>>

Frames == 0 .. MaxFrames

NoPacket    == [none |-> TRUE]
PacketOf(n) == Stream[n]

Arriving == INSTANCE LossyStream WITH transmitted <- MaxPackets

TypeOK ==
  /\ gui \in {"initialize", "start", "exec", "paint", "closed", "unwind",
              "failed", "join", "exited"}
  /\ window \in {"alive", "destroyed"}
  /\ update_pending \in BOOLEAN
  /\ painted \in Frames
  /\ asio \in {"created", "run", "decode", "frame", "freed", "ended"}
  /\ stopped \in BOOLEAN
  /\ receiving \in BOOLEAN
  /\ decoded \in Frames
  /\ more \in 0 .. FramesPerUnit
  /\ heard \in -1 .. MaxPackets - 1
  /\ packet = IF heard = -1 THEN NoPacket ELSE PacketOf(heard)
  /\ feeds \in 0 .. 2
  /\ DecoderTypeOK
  /\ m_current_frame_data \in Frames
  /\ m_current_frame_img \in Frames
  /\ m_current_frame_lock \in {"free", "gui", "asio"}

(* main() has started the asio thread and constructed the window. *)
Init ==
  /\ gui = "initialize"
  /\ window = "alive"
  /\ update_pending = FALSE
  /\ painted = 0
  /\ asio = "created"
  /\ stopped = FALSE
  /\ receiving = FALSE
  /\ decoded = 0
  /\ more = 0
  /\ heard = -1
  /\ packet = NoPacket
  /\ feeds = 0
  /\ DecoderInit
  /\ m_current_frame_data = 0
  /\ m_current_frame_img = 0
  /\ m_current_frame_lock = "free"

(* Faulty variant: a repaint is only scheduled for a window without one,   *)
(* after the first frame.                                                  *)
UpdateOnce == update_pending' = (update_pending \/ painted = 0)

(* QWidget::update(): external.  Qt merges the requests of a window.  The  *)
(* code calls it on the asio thread, which Qt does not allow for widgets;  *)
(* that the call then sets one flag atomically, as on the GUI thread, is   *)
(* an assumption, and FramesArePainted rests on it.                        *)
Update == update_pending' = TRUE

-----------------------------------------------------------------------------
(* The GUI thread *)

Initialize ==
  /\ gui = "initialize"
  /\ gui' = "start"
  /\ UNCHANGED <<window, update_pending, painted, asioVars, stopped,
                 receiving, frameVars>>

(* No decoder, or the port is taken: main() returns -1, which runs the     *)
(* destructors.  Nothing stops the io_context, so the thread they join     *)
(* never ends.                                                             *)
InitializeFails ==
  /\ gui = "initialize"
  /\ gui' = "failed"
  /\ UNCHANGED <<window, update_pending, painted, asioVars, stopped,
                 receiving, frameVars>>

(* w.start(), w.show() and a.exec() *)
StartAndShow ==
  /\ gui = "start"
  /\ receiving' = TRUE
  /\ update_pending' = TRUE
  /\ gui' = "exec"
  /\ UNCHANGED <<window, painted, asioVars, stopped, frameVars>>

(* Faulty variant: paintEvent does not take the lock. *)
PaintUnlocked ==
  /\ gui = "exec"
  /\ update_pending
  /\ update_pending' = FALSE
  /\ gui' = "paint"
  /\ UNCHANGED <<window, painted, asioVars, stopped, receiving, frameVars>>

(* paintEvent: the lock is taken and held while the image is drawn. *)
Paint ==
  /\ gui = "exec"
  /\ update_pending
  /\ m_current_frame_lock = "free"
  /\ m_current_frame_lock' = "gui"
  /\ update_pending' = FALSE
  /\ gui' = "paint"
  /\ UNCHANGED <<window, painted, asioVars, stopped, receiving,
                 m_current_frame_data, m_current_frame_img>>

Painted ==
  /\ gui = "paint"
  /\ painted' = m_current_frame_img
  /\ m_current_frame_lock' = "free"
  /\ gui' = "exec"
  /\ UNCHANGED <<window, update_pending, asioVars, stopped, receiving,
                 m_current_frame_data, m_current_frame_img>>

(* The user closes the window: closeEvent does nothing, exec() returns. *)
CloseWindow ==
  /\ gui = "exec"
  /\ gui' = "closed"
  /\ UNCHANGED <<window, update_pending, painted, asioVars, stopped,
                 receiving, frameVars>>

(* Faulty variant: main() relies on the jthread to end the asio thread. *)
StopContextForgotten ==
  /\ gui = "closed"
  /\ gui' = "unwind"
  /\ UNCHANGED <<window, update_pending, painted, asioVars, stopped,
                 receiving, frameVars>>

StopContext ==
  /\ gui = "closed"
  /\ stopped' = TRUE
  /\ gui' = "unwind"
  /\ UNCHANGED <<window, update_pending, painted, asioVars, receiving,
                 frameVars>>

(* The locals of main() go in reverse order: the window, with the receiver *)
(* and the decoder it owns, long before the thread.                        *)
DestroyWindow ==
  /\ gui \in {"unwind", "failed"}
  /\ window' = "destroyed"
  /\ receiving' = FALSE
  /\ gui' = "join"
  /\ UNCHANGED <<update_pending, painted, asioVars, stopped, frameVars>>

(* ~jthread joins (its stop token is not used by the thread). *)
JoinAsioThread ==
  /\ gui = "join"
  /\ asio = "ended"
  /\ gui' = "exited"
  /\ UNCHANGED <<window, update_pending, painted, asioVars, stopped,
                 receiving, frameVars>>

Gui ==
  \/ Initialize \/ InitializeFails \/ StartAndShow
  \/ Paint \/ Painted
  \/ CloseWindow \/ StopContext \/ DestroyWindow \/ JoinAsioThread

-----------------------------------------------------------------------------
(* The asio thread *)

(* The thread constructs dummy_work and calls ctx.run(). *)
RunContext ==
  /\ asio = "created"
  /\ asio' = "run"
  /\ UNCHANGED <<guiVars, decoded, more, streamVars, stopped, receiving,
                 frameVars>>

(* Because of dummy_work run() returns only when the context is stopped,   *)
(* and never in the middle of a handler.                                   *)
RunReturns ==
  /\ asio = "run"
  /\ stopped
  /\ asio' = "ended"
  /\ UNCHANGED <<guiVars, decoded, more, streamVars, stopped, receiving,
                 frameVars>>

(* Faulty variants: each packet is decoded once; every slice twice. *)
FeedOnce(p) == 1
FeedSlicesTwice(p) == IF p.nal_type = slice THEN 2 ELSE 1

(* How often on_packet_received calls decode_packet. *)
DecodedTwice(p) == p.nal_type = slice /\ p.first_macroblock = 0
Feeds(p) == IF DecodedTwice(p) THEN 2 ELSE 1

OnPacketReceived ==
  /\ asio = "run"
  /\ ~stopped
  /\ receiving
  /\ Arriving!Hear
  /\ feeds' = Feeds(packet')
  /\ asio' = "decode"
  /\ UNCHANGED <<guiVars, decoded, more, decoderVars, stopped, receiving,
                 frameVars>>

(* decode_packet: a unit goes to the codec, which refuses it or has frames *)
(* ready.                                                                  *)
DecodePacket ==
  /\ asio = "decode"
  /\ more = 0
  /\ feeds > 0
  /\ feeds' = feeds - 1
  /\ decode_packet(packet)
  /\ more' \in IF m_packet' = <<>> THEN {0} ELSE 0 .. FramesPerUnit
  /\ decoded + more' <= MaxFrames
  /\ UNCHANGED <<guiVars, asio, decoded, heard, packet, stopped, receiving,
                 frameVars>>

(* Faulty variant: on_frame is called although the decoder had no frame    *)
(* (EAGAIN).                                                               *)
OnFrameAgain ==
  /\ asio = "decode"
  /\ decoded < MaxFrames
  /\ decoded' = decoded + 1
  /\ more' = more - 1
  /\ asio' = "frame"
  /\ UNCHANGED <<guiVars, streamVars, stopped, receiving, frameVars>>

(* on_frame: the frame is converted into memory of its own. *)
OnFrame ==
  /\ asio = "decode"
  /\ more > 0
  /\ decoded' = decoded + 1
  /\ more' = more - 1
  /\ asio' = "frame"
  /\ UNCHANGED <<guiVars, streamVars, stopped, receiving, frameVars>>

(* With the lock, the new memory replaces the old one, which is freed. *)
ReplaceFrameData ==
  /\ asio = "frame"
  /\ m_current_frame_lock = "free"
  /\ m_current_frame_lock' = "asio"
  /\ m_current_frame_data' = decoded
  /\ asio' = "freed"
  /\ UNCHANGED <<guiVars, decoded, more, streamVars, stopped, receiving,
                 m_current_frame_img>>

(* The image is made to point to the new memory, update(), unlock. *)
ReplaceFrameImage ==
  /\ asio = "freed"
  /\ m_current_frame_img' = m_current_frame_data
  /\ Update
  /\ m_current_frame_lock' = "free"
  /\ asio' = "decode"
  /\ UNCHANGED <<gui, window, painted, decoded, more, streamVars, stopped,
                 receiving,
                 m_current_frame_data>>

(* on_packet_received ends with update(); receive_next is called again. *)
PacketDone ==
  /\ asio = "decode"
  /\ more = 0
  /\ feeds = 0
  /\ Update
  /\ asio' = "run"
  /\ UNCHANGED <<gui, window, painted, decoded, more, streamVars, stopped,
                 receiving,
                 frameVars>>

Asio ==
  \/ RunContext \/ RunReturns
  \/ OnPacketReceived \/ DecodePacket
  \/ OnFrame \/ ReplaceFrameData \/ ReplaceFrameImage
  \/ PacketDone

Next == Gui \/ Asio

(* Both threads run; Qt delivers pending paint events, and the GUI thread  *)
(* gets the lock in the end although the other thread takes it for every   *)
(* frame.  Nothing forces a packet to arrive or the user to close the      *)
(* window.                                                                 *)
Fairness ==
  /\ WF_vars(StartAndShow) /\ SF_vars(Paint) /\ WF_vars(Painted)
  /\ WF_vars(StopContext) /\ WF_vars(DestroyWindow)
  /\ WF_vars(JoinAsioThread)
  /\ WF_vars(RunContext) /\ WF_vars(RunReturns)
  /\ WF_vars(DecodePacket) /\ WF_vars(OnFrame) /\ WF_vars(ReplaceFrameData)
  /\ WF_vars(ReplaceFrameImage) /\ WF_vars(PacketDone)

Spec     == Init /\ [][Next]_vars
FairSpec == Spec /\ Fairness

-----------------------------------------------------------------------------
(* Properties *)

(* While paintEvent draws the current image, the memory the image points   *)
(* to is not freed: on_frame, on the other thread, frees it as it stores   *)
(* the next frame.                                                         *)
PaintsLiveFrame == gui = "paint" => m_current_frame_img = m_current_frame_data

(* Every frame that became the current one is painted, or a newer one is,  *)
(* as long as the window is open: no repaint is lost between the update()  *)
(* of one thread and the paint event of the other.                         *)
FramesArePainted ==
  \A f \in 1 .. MaxFrames :
    (m_current_frame_img = f) ~> (painted >= f \/ gui \notin {"exec", "paint"})

(* When the user has closed the window the process ends, whatever the asio *)
(* thread is doing: "ctx.stop();  // jthread will be autojoined".  (A      *)
(* handler that outlives the window is taken to come through it.  After a  *)
(* failed initialize() there is no window to close, and no end.)           *)
CloseExits == (gui = "closed") ~> (gui = "exited")

(* What the decoder has been given of a packet when its handler is done. *)
Handled == feeds = 0

(* The parser drops a packet whenever it finds the end of a unit.  That is *)
(* never worse than the first packet that arrives of a frame, and never a  *)
(* slice of an ordinary frame at macroblock 0, which is decoded twice to   *)
(* this end, whatever was lost before.                                     *)
OnlyFrameStartsDropped ==
  Handled => \A n \in fed :
    \/ Kept(n)
    \/ /\ \A k \in fed : k < n => ~SameFrame(k, n)
       /\ ~DecodedTwice(Stream[n])

(* Although packets are decoded twice, the codec gets each at most once    *)
(* and in the order of the stream.                                         *)
UnitsInOrder ==
  [][feeds' < feeds =>
       /\ \A i, j \in DOMAIN m_packet' : i < j => m_packet'[i] < m_packet'[j]
       /\ \A m \in handed, n \in Range(m_packet') : m < n]_vars

(* Slices of two frames get into one unit only if the beginning of the     *)
(* second frame, up to its slice at macroblock 0, was lost.                *)
MixedOnlyAfterLoss ==
  \A m, n \in Range(m_packet) :
    /\ m < n /\ ~SameFrame(m, n)
    /\ IsSlice(Stream[m]) /\ IsSlice(Stream[n])
    => \A k \in fed : SameFrame(k, n) =>
         ~IsHeader(Stream[k]) /\ Stream[k].first_macroblock # 0

(* The packet decoded before n, -1 for none. *)
Before(n) ==
  LET older == {k \in fed : k < n} IN
  IF older = {} THEN -1 ELSE CHOOSE k \in older : \A o \in older : o <= k

(* on_packet_received decodes again only what may have been dropped: a     *)
(* frame is split between two units for one reason only, that nothing was  *)
(* left for its slice at macroblock 0 to end, as behind headers, so that   *)
(* decoding it again ended the frame it had just begun.  If the packet     *)
(* before the frame was a slice past macroblock 0 that the parser kept,    *)
(* the frame stays whole.                                                  *)
FramesStayWhole ==
  \A n \in handed, k \in Range(m_parser_ctx.buffer) :
    SameFrame(n, k) /\ IsSlice(Stream[n]) /\ IsSlice(Stream[k])
    => \E f \in fed :
         /\ SameFrame(f, n)
         /\ DecodedTwice(Stream[f])
         /\ \/ Before(f) = -1
            \/ IsHeader(Stream[Before(f)])
            \/ DecodedTwice(Stream[Before(f)])
            \/ ~Kept(Before(f))

(* The comment of ctx.stop(), "jthread will be autojoined", takes the asio *)
(* thread to be out of the way: no handler is using the window when main() *)
(* destroys it.                                                            *)
WindowOutlivesHandler ==
  window = "destroyed" => asio \in {"created", "run", "ended"}
=============================================================================
