-------------------------- MODULE ReceiveAppProofs --------------------------
(***************************************************************************)
(* What ReceiveApp guarantees for every stream x264 can make, whatever of  *)
(* it is lost, and any number of frames.                                   *)
(***************************************************************************)
EXTENDS ReceiveApp, TLAPS

Buffered == Range(m_parser_ctx.buffer)

(* The packet that was decoded last. *)
Last(k) == k \in fed /\ \A m \in fed : m <= k

(* The lock is held by the thread that paints or replaces the frame; only  *)
(* the latter may find image and memory different.                         *)
LockInv ==
  /\ gui = "paint" => m_current_frame_lock = "gui"
  /\ asio = "freed" => m_current_frame_lock = "asio"
  /\ asio # "freed" => m_current_frame_img = m_current_frame_data

(* The calls of decode_packet that are left: those of the packet received  *)
(* last, which is in fed after the first of them.                          *)
FeedInv ==
  /\ asio \in {"created", "run", "ended"} => feeds = 0 /\ more = 0
  /\ decoded + more <= MaxFrames
  /\ heard = -1 => fed = {} /\ feeds = 0
  /\ \A n \in fed : n <= heard
  /\ feeds = 0 => heard = -1 \/ heard \in fed
  /\ feeds = 1 => (DecodedTwice(Stream[heard]) <=> heard \in fed)
  /\ feeds = 2 => DecodedTwice(Stream[heard]) /\ heard \notin fed

(* What the parser stores is in order, newer than what the codec got, and  *)
(* has no slice unless the parser knows of one.                            *)
BufferInv ==
  /\ \A i, j \in DOMAIN m_parser_ctx.buffer :
       i < j => m_parser_ctx.buffer[i] < m_parser_ctx.buffer[j]
  /\ Buffered \subseteq fed
  /\ \A m \in handed, n \in Buffered : m < n
  /\ \A n \in Buffered :
       IsSlice(Stream[n]) => m_parser_ctx.frame_start_found

(* What the parser remembers of the packet it saw last. *)
Remembered(k) ==
  /\ IsHeader(Stream[k]) => ~m_parser_ctx.frame_start_found
  /\ IsSlice(Stream[k]) =>
       /\ m_parser_ctx.parse_last_mb = Stream[k].first_macroblock
       /\ \/ m_parser_ctx.frame_start_found
          \/ DecodedTwice(Stream[k])
          \/ ~Kept(k)

LastInv ==
  /\ fed = {} => ~m_parser_ctx.frame_start_found
  /\ fed # {} => \E k \in fed : Last(k) /\ Remembered(k)

(* Nothing was left to end when f, a slice at macroblock 0, came: what was *)
(* decoded before it was a header or a slice that ended a unit.            *)
Unannounced(f) ==
  /\ DecodedTwice(Stream[f])
  /\ \/ \A k \in fed : k >= f
     \/ \E b \in fed :
          /\ b < f /\ \A k \in fed : k < f => k <= b
          /\ \/ IsHeader(Stream[b])
             \/ DecodedTwice(Stream[b])
             \/ ~Kept(b)

(* Between the two calls for a packet it is stored, as the first slice of  *)
(* a unit, or the parser has dropped it and is empty.                      *)
BetweenInv ==
  feeds = 1 /\ heard \in fed =>
    \/ /\ heard \in Buffered
       /\ m_parser_ctx.frame_start_found
       /\ Unannounced(heard)
    \/ /\ m_parser_ctx.buffer = <<>>
       /\ ~m_parser_ctx.frame_start_found
       /\ heard \notin handed

(* OnlyFrameStartsDropped, with the packet whose second call is to come.   *)
DropInv ==
  \A n \in fed :
    \/ Kept(n)
    \/ /\ \A k \in fed : k < n => ~SameFrame(k, n)
       /\ ~DecodedTwice(Stream[n])
    \/ n = heard /\ feeds = 1

(* Nothing that would have ended a unit came after the first slice in it.  *)
UnendedInv ==
  \A m \in Buffered, k \in fed :
    IsSlice(Stream[m]) /\ m < k =>
      ~IsHeader(Stream[k]) /\ Stream[k].first_macroblock # 0

(* While a frame is being decoded, none of its slices has been handed to   *)
(* the codec, but for a frame that came unannounced.                       *)
WholeInv ==
  \A n \in handed, k \in fed :
    /\ SameFrame(n, k) /\ IsSlice(Stream[n]) /\ IsSlice(Stream[k])
    /\ k \in Buffered \/ Last(k)
    => \E f \in fed : SameFrame(f, n) /\ Unannounced(f)

IInv ==
  /\ TypeOK
  /\ LockInv
  /\ FeedInv
  /\ BufferInv
  /\ LastInv
  /\ BetweenInv
  /\ DropInv
  /\ UnendedInv
  /\ MixedOnlyAfterLoss
  /\ WholeInv
-----------------------------------------------------------------------------
(* What the stream and sequences are like. *)

LEMMA MacroblockNumbers == UInt16 \subseteq Nat
  BY DEF UInt16

LEMMA PacketFacts ==
  ASSUME NEW n \in DOMAIN Stream
  PROVE  /\ n \in Nat /\ n < MaxPackets
         /\ Stream[n].nal_data.nal = n
         /\ Stream[n].first_macroblock \in UInt16
         /\ Stream[n].first_macroblock \in Nat
         /\ IsHeader(Stream[n]) <=> ~IsSlice(Stream[n])
<1>1. Stream[n] \in VideoPacket /\ n \in 0 .. MaxPackets - 1
  BY StreamAssumption
<1>2. Stream[n].first_macroblock \in UInt16
  BY <1>1 DEF VideoPacket
<1>3. Stream[n].nal_data.nal = n /\ (IsSlice(Stream[n]) \/ IsHeader(Stream[n]))
  BY StreamAssumption
<1>4. ~(IsSlice(Stream[n]) /\ IsHeader(Stream[n]))
  BY DEF IsSlice, IsHeader, Headers, slice, slice_idr
<1>5. IsHeader(Stream[n]) <=> ~IsSlice(Stream[n])
  BY <1>3, <1>4 DEF IsSlice, IsHeader
<1>6. n \in Nat /\ n < MaxPackets /\ Stream[n].first_macroblock \in Nat
  <2>1. MaxPackets \in Nat
    BY StreamAssumption
  <2>2. n \in 0 .. MaxPackets - 1
    BY <1>1
  <2>3. Stream[n].first_macroblock \in Nat
    BY <1>2, MacroblockNumbers
  <2> QED
    BY ONLY <2>1, <2>2, <2>3
<1> QED
  BY <1>2, <1>3, <1>5, <1>6

(* The packets of a frame are contiguous, and in it slices come last and   *)
(* from one macroblock to a higher one.                                    *)
LEMMA FrameFacts ==
  ASSUME NEW l \in DOMAIN Stream, NEW m \in DOMAIN Stream,
         NEW n \in DOMAIN Stream
  PROVE  /\ l <= m /\ m <= n /\ SameFrame(l, n)
              => SameFrame(l, m) /\ SameFrame(m, n)
         /\ m < n /\ SameFrame(m, n) /\ IsSlice(Stream[m])
              => /\ IsSlice(Stream[n])
                 /\ Stream[m].first_macroblock < Stream[n].first_macroblock
<1>1. l \in Nat /\ m \in Nat /\ n \in Nat
  BY PacketFacts
<1>2. l < m /\ m < n /\ SameFrame(l, n) => SameFrame(l, m)
  BY StreamAssumption
<1>3. m < n /\ SameFrame(m, n) /\ IsSlice(Stream[m])
        => /\ IsSlice(Stream[n])
           /\ Stream[m].first_macroblock < Stream[n].first_macroblock
  BY StreamAssumption
<1>4. l <= m /\ m <= n /\ SameFrame(l, n) => SameFrame(l, m) /\ SameFrame(m, n)
  BY <1>1, <1>2 DEF SameFrame
<1> QED
  BY <1>3, <1>4

LEMMA RangeOfAppend ==
  ASSUME NEW S, NEW s \in Seq(S), NEW e \in S
  PROVE  /\ Append(s, e) \in Seq(S)
         /\ Range(Append(s, e)) = Range(s) \cup {e}
<1>1. /\ Append(s, e) \in Seq(S)
      /\ DOMAIN s = 1 .. Len(s) /\ Len(s) \in Nat
      /\ DOMAIN Append(s, e) = 1 .. Len(s) + 1
      /\ \A i \in 1 .. Len(s) : Append(s, e)[i] = s[i]
      /\ Append(s, e)[Len(s) + 1] = e
  OBVIOUS
<1>2. Range(Append(s, e)) \subseteq Range(s) \cup {e}
  <2> SUFFICES ASSUME NEW i \in 1 .. Len(s) + 1
               PROVE  Append(s, e)[i] \in Range(s) \cup {e}
    BY <1>1 DEF Range
  <2> QED
    BY <1>1 DEF Range
<1>3. Range(s) \cup {e} \subseteq Range(Append(s, e))
  <2>1. \A i \in 1 .. Len(s) : s[i] \in Range(Append(s, e))
    BY <1>1 DEF Range
  <2>2. e \in Range(Append(s, e))
    BY <1>1 DEF Range
  <2> QED
    BY <1>1, <2>1, <2>2 DEF Range
<1> QED
  BY <1>1, <1>2, <1>3

LEMMA RangeOfEmpty == Range(<<>>) = {}
  BY DEF Range
-----------------------------------------------------------------------------
(* What a call of decode_packet does to the parser and the codec: it ends  *)
(* a unit, and the packet is lost to it, or it stores the packet.          *)

EndsUnit ==
  /\ m_packet' = m_parser_ctx.buffer
  /\ handed' = handed \cup Buffered
  /\ m_parser_ctx' = [frame_start_found |-> FALSE,
                      parse_last_mb |-> LastMb(Stream[heard]),
                      buffer |-> <<>>]
  /\ Buffered' = {}

StoresPacket ==
  /\ m_packet' = <<>>
  /\ handed' = handed
  /\ m_parser_ctx' =
       [frame_start_found |->
          m_parser_ctx.frame_start_found \/ IsSlice(Stream[heard]),
        parse_last_mb |-> LastMb(Stream[heard]),
        buffer |-> Append(m_parser_ctx.buffer, heard)]
  /\ Buffered' = Buffered \cup {heard}

(* The packet received last, and what a call for it leaves alone.          *)
Call ==
  /\ heard \in DOMAIN Stream
  /\ feeds \in {1, 2}
  /\ feeds' = feeds - 1
  /\ fed' = fed \cup {heard}
  /\ UNCHANGED heard

(* The first call for a packet finds one that is newer than all others;    *)
(* the second finds it stored, and then it ends a unit, or the parser      *)
(* empty, and then it is stored.                                           *)
FirstCall == Call /\ heard \notin fed

SecondCallEnds ==
  /\ Call /\ feeds = 1 /\ heard \in fed /\ EndsUnit
  /\ DecodedTwice(Stream[heard]) /\ heard \in Buffered /\ Unannounced(heard)

SecondCallStores ==
  /\ Call /\ feeds = 1 /\ heard \in fed /\ StoresPacket
  /\ DecodedTwice(Stream[heard]) /\ Buffered = {} /\ heard \notin handed
  /\ ~m_parser_ctx.frame_start_found

LEMMA DecodeEndsOrStores ==
  ASSUME TypeOK, FeedInv, DecodePacket
  PROVE  /\ Call
         /\ packet = Stream[heard]
         /\ \/ Ends(Stream[heard]) /\ EndsUnit
            \/ ~Ends(Stream[heard]) /\ StoresPacket
<1>1. heard \in DOMAIN Stream /\ packet = Stream[heard]
  <2>1. heard # -1 /\ heard \in -1 .. MaxPackets - 1
    BY DEF FeedInv, DecodePacket, TypeOK
  <2>2. heard \in 0 .. MaxPackets - 1
    BY <2>1, StreamAssumption
  <2>3. packet = Stream[heard]
    BY <2>1 DEF TypeOK, PacketOf
  <2> QED
    BY <2>2, <2>3, StreamAssumption
<1>2. packet.nal_data.nal = heard
  BY <1>1, PacketFacts
<1>3. m_parser_ctx.buffer \in Seq(DOMAIN Stream)
  BY DEF TypeOK, DecoderTypeOK
<1>4. feeds \in {1, 2} /\ feeds' = feeds - 1
  BY DEF TypeOK, DecodePacket
<1>5. Call
  BY <1>1, <1>2, <1>4 DEF Call, DecodePacket, decode_packet
<1>6. CASE EndUnit(packet)
  <2>1. /\ Ends(packet) /\ m_packet' = m_parser_ctx.buffer
        /\ m_parser_ctx' = [frame_start_found |-> FALSE,
                            parse_last_mb |-> LastMb(packet), buffer |-> <<>>]
    BY <1>6 DEF EndUnit
  <2>2. handed' = handed \cup Range(m_packet')
    BY DEF DecodePacket, decode_packet
  <2>3. Buffered' = {}
    BY <2>1, RangeOfEmpty DEF Buffered
  <2> QED
    BY <1>1, <1>5, <2>1, <2>2, <2>3 DEF EndsUnit, Buffered
<1>7. CASE Combine(packet)
  <2>1. /\ ~Ends(packet) /\ m_packet' = <<>>
        /\ m_parser_ctx' =
             [frame_start_found |->
                m_parser_ctx.frame_start_found \/ IsSlice(packet),
              parse_last_mb |-> LastMb(packet),
              buffer |-> Append(m_parser_ctx.buffer, heard)]
    BY <1>2, <1>7 DEF Combine
  <2>2. handed' = handed
    BY <2>1, RangeOfEmpty DEF DecodePacket, decode_packet
  <2>3. Buffered' = Buffered \cup {heard}
    BY <1>1, <1>3, <2>1, RangeOfAppend DEF Buffered
  <2> QED
    BY <1>1, <1>5, <2>1, <2>2, <2>3 DEF StoresPacket
<1> QED
  BY <1>6, <1>7 DEF DecodePacket, decode_packet, Parse

LEMMA DecodeCases ==
  ASSUME IInv, DecodePacket
  PROVE  \/ FirstCall /\ Ends(Stream[heard]) /\ EndsUnit
         \/ FirstCall /\ ~Ends(Stream[heard]) /\ StoresPacket
         \/ SecondCallEnds
         \/ SecondCallStores
<1>1. /\ Call
      /\ \/ Ends(Stream[heard]) /\ EndsUnit
         \/ ~Ends(Stream[heard]) /\ StoresPacket
  BY DecodeEndsOrStores DEF IInv
<1>2. CASE heard \notin fed
  BY <1>1, <1>2 DEF FirstCall
<1>3. CASE heard \in fed
  <2>1. feeds = 1 /\ DecodedTwice(Stream[heard])
    BY <1>1, <1>3 DEF Call, IInv, FeedInv
  <2>2. /\ IsSlice(Stream[heard])
        /\ Stream[heard].first_macroblock = 0
    BY <2>1 DEF DecodedTwice, IsSlice
  <2>3. CASE /\ heard \in Buffered
             /\ m_parser_ctx.frame_start_found
             /\ Unannounced(heard)
    <3>1. m_parser_ctx.parse_last_mb \in Nat
      BY MacroblockNumbers DEF IInv, TypeOK, DecoderTypeOK
    <3>2. Ends(Stream[heard])
      BY <2>2, <2>3, <3>1 DEF Ends
    <3> QED
      BY <1>1, <1>3, <2>1, <2>3, <3>2 DEF SecondCallEnds
  <2>4. CASE /\ m_parser_ctx.buffer = <<>>
             /\ ~m_parser_ctx.frame_start_found
             /\ heard \notin handed
    <3>1. ~Ends(Stream[heard])
      BY <2>4 DEF Ends
    <3>2. Buffered = {}
      BY <2>4, RangeOfEmpty DEF Buffered
    <3> QED
      BY <1>1, <1>3, <2>1, <2>4, <3>1, <3>2 DEF SecondCallStores
  <2> QED
    BY <1>3, <2>1, <2>3, <2>4 DEF IInv, BetweenInv
<1> QED
  BY <1>2, <1>3
-----------------------------------------------------------------------------
(* A call of decode_packet keeps the invariant, conjunct by conjunct. *)

(* The histories hold packets of the stream.                               *)
LEMMA Histories ==
  ASSUME IInv
  PROVE  /\ fed \subseteq DOMAIN Stream
         /\ handed \subseteq fed
         /\ Buffered \subseteq fed
  BY DEF IInv, TypeOK, DecoderTypeOK, BufferInv

(* A packet never ends the unit of its own frame: headers come before the  *)
(* slices, and the slices have growing macroblocks.                        *)
LEMMA NoEndWithinFrame ==
  ASSUME IInv, FirstCall, NEW n \in fed, SameFrame(n, heard)
  PROVE  ~Ends(Stream[heard])
<1>1. heard \in DOMAIN Stream /\ heard \notin fed
  BY DEF FirstCall, Call
<1>2. PICK k \in fed : Last(k) /\ Remembered(k)
  BY DEF IInv, LastInv
<1>3. k \in DOMAIN Stream /\ n \in DOMAIN Stream
  BY <1>2, Histories
<1>4. n <= k /\ k <= heard /\ k # heard
  BY <1>1, <1>2 DEF Last, IInv, FeedInv
<1>5. k < heard
  BY <1>1, <1>3, <1>4, PacketFacts
<1>6. SameFrame(k, heard)
  BY <1>1, <1>3, <1>4, FrameFacts
<1>7. CASE IsHeader(Stream[k])
  BY <1>2, <1>7 DEF Remembered, Ends
<1>8. CASE IsSlice(Stream[k])
  <2>1. IsSlice(Stream[heard]) /\ ~IsHeader(Stream[heard])
    BY <1>1, <1>3, <1>5, <1>6, <1>8, FrameFacts, PacketFacts
  <2>2. m_parser_ctx.parse_last_mb < Stream[heard].first_macroblock
    BY <1>1, <1>2, <1>3, <1>5, <1>6, <1>8, FrameFacts DEF Remembered
  <2>3. /\ m_parser_ctx.parse_last_mb \in Nat
        /\ Stream[heard].first_macroblock \in Nat
    BY <1>1, PacketFacts, MacroblockNumbers DEF IInv, TypeOK, DecoderTypeOK
  <2>4. ~(Stream[heard].first_macroblock <= m_parser_ctx.parse_last_mb)
    BY <2>2, <2>3
  <2> QED
    BY <2>1, <2>4 DEF Ends
<1> QED
  BY <1>3, <1>7, <1>8, PacketFacts

(* All that a call may change, in one statement: nothing older than the    *)
(* packet is decoded, and what is kept was kept or is the packet.          *)
LEMMA CallFacts ==
  ASSUME IInv, DecodePacket
  PROVE  /\ heard \in DOMAIN Stream /\ heard' = heard
         /\ fed' = fed \cup {heard}
         /\ \A n \in fed' : n \in DOMAIN Stream /\ n <= heard
         /\ handed' \subseteq handed \cup Buffered
         /\ Buffered' \subseteq Buffered \cup {heard}
         /\ \A n : Kept(n) => Kept(n)'
         /\ \A n : Kept(n)' /\ n # heard => Kept(n)
<1>1. Call
  BY DecodeCases DEF FirstCall, SecondCallEnds, SecondCallStores
<1>2. \A n \in fed' : n \in DOMAIN Stream /\ n <= heard
  <2>1. heard <= heard
    BY <1>1, PacketFacts DEF Call
  <2> QED
    BY <1>1, <2>1, Histories DEF Call, IInv, FeedInv
<1>3. EndsUnit \/ StoresPacket
  BY DecodeCases DEF SecondCallEnds, SecondCallStores
<1> QED
  BY <1>1, <1>2, <1>3 DEF Call, EndsUnit, StoresPacket, Kept, Buffered

(* A packet that came unannounced stays so.                                *)
LEMMA UnannouncedStays ==
  ASSUME IInv, DecodePacket, NEW f \in fed, Unannounced(f)
  PROVE  Unannounced(f)'
<1>1. f <= heard /\ f \in Nat /\ heard \in Nat
  BY CallFacts, PacketFacts
<1>2. CASE \A k \in fed : k >= f
  <2>1. \A k \in fed' : k >= f
    BY <1>1, <1>2, CallFacts
  <2> QED
    BY <2>1 DEF Unannounced, DecodedTwice
<1>3. CASE ~(\A k \in fed : k >= f)
  <2>1. PICK b \in fed :
          /\ b < f /\ \A k \in fed : k < f => k <= b
          /\ \/ IsHeader(Stream[b])
             \/ DecodedTwice(Stream[b])
             \/ ~Kept(b)
    BY <1>3 DEF Unannounced
  <2>2. b \in fed' /\ b # heard
    BY <1>1, <2>1, CallFacts, PacketFacts
  <2>3. ASSUME NEW k \in fed', k < f
        PROVE  k <= b
    <3>1. k # heard
      BY <1>1, <2>3
    <3>2. k \in fed
      BY <3>1, CallFacts
    <3> QED
      BY <2>1, <2>3, <3>2
  <2>4. ~Kept(b) => ~Kept(b)'
    BY <2>2, CallFacts
  <2> QED
    BY <2>1, <2>2, <2>3, <2>4 DEF Unannounced, DecodedTwice, IsHeader
<1> QED
  BY <1>2, <1>3

(* A packet that is stored is newer than all the parser and the codec have. *)
LEMMA StoredIsNew ==
  ASSUME IInv, FirstCall \/ SecondCallStores,
         NEW n \in handed \cup Buffered
  PROVE  n < heard
<1>1. heard \in DOMAIN Stream
  BY DEF FirstCall, SecondCallStores, Call
<1>2. n \in fed /\ n \in DOMAIN Stream
  BY Histories
<1>3. n <= heard
  BY <1>2 DEF IInv, FeedInv
<1>4. n # heard
  BY Histories DEF FirstCall, SecondCallStores
<1> QED
  BY <1>1, <1>2, <1>3, <1>4, PacketFacts

LEMMA DecodeKeepsBufferInv ==
  ASSUME IInv, DecodePacket PROVE BufferInv'
<1>1. CASE EndsUnit
  <2>1. m_parser_ctx'.buffer = <<>> /\ Buffered' = {}
    BY <1>1 DEF EndsUnit
  <2>2. \A i, j \in DOMAIN m_parser_ctx'.buffer : FALSE
    BY <2>1
  <2> QED
    BY <2>1, <2>2 DEF BufferInv
<1>2. CASE StoresPacket /\ (FirstCall \/ SecondCallStores)
  <2> DEFINE old == m_parser_ctx.buffer
             new == m_parser_ctx'.buffer
  <2>0. heard \in DOMAIN Stream
    BY CallFacts
  <2>1. /\ new = Append(old, heard) /\ Buffered' = Buffered \cup {heard}
        /\ m_parser_ctx'.frame_start_found =
             (m_parser_ctx.frame_start_found \/ IsSlice(Stream[heard]))
        /\ handed' = handed
    BY <1>2 DEF StoresPacket
  <2>2. old \in Seq(DOMAIN Stream)
    BY DEF IInv, TypeOK, DecoderTypeOK
  <2>3. \A i, j \in DOMAIN new : i < j => new[i] < new[j]
    <3>1. /\ DOMAIN old = 1 .. Len(old) /\ Len(old) \in Nat
          /\ DOMAIN new = 1 .. Len(old) + 1
          /\ \A i \in 1 .. Len(old) : new[i] = old[i]
          /\ new[Len(old) + 1] = heard
      BY <2>0, <2>1, <2>2
    <3>2. ASSUME NEW i \in DOMAIN new, NEW j \in DOMAIN new, i < j
          PROVE  new[i] < new[j]
      <4>1. i \in DOMAIN old /\ new[i] = old[i]
        BY <3>1, <3>2
      <4>2. CASE j \in DOMAIN old
        <5>1. new[j] = old[j]
          BY <3>1, <4>2
        <5>2. old[i] < old[j]
          BY <3>2, <4>1, <4>2 DEF IInv, BufferInv
        <5> QED
          BY <4>1, <5>1, <5>2
      <4>3. CASE j \notin DOMAIN old
        <5>1. new[j] = heard
          BY <3>1, <4>3
        <5>2. old[i] < heard
          BY <1>2, <4>1, StoredIsNew DEF Buffered, Range
        <5> QED
          BY <4>1, <5>1, <5>2
      <4> QED
        BY <4>2, <4>3
    <3> QED
      BY <3>2
  <2>4. Buffered' \subseteq fed'
    BY <2>1, Histories, CallFacts
  <2>5. \A m \in handed', n \in Buffered' : m < n
    BY <1>2, <2>1, StoredIsNew DEF IInv, BufferInv
  <2>6. \A n \in Buffered' :
          IsSlice(Stream[n]) => m_parser_ctx'.frame_start_found
    BY <2>1 DEF IInv, BufferInv
  <2> QED
    BY <2>3, <2>4, <2>5, <2>6 DEF BufferInv, IsSlice
<1> QED
  BY <1>1, <1>2, DecodeCases DEF SecondCallEnds, SecondCallStores

LEMMA DecodeKeepsLastInv ==
  ASSUME IInv, DecodePacket PROVE LastInv'
<1>1. heard \in fed' /\ heard \in DOMAIN Stream
  BY CallFacts
<1>2. Last(heard)'
  BY CallFacts DEF Last
<1>3. m_parser_ctx'.parse_last_mb = LastMb(Stream[heard])
  BY DecodeCases DEF EndsUnit, StoresPacket, SecondCallEnds, SecondCallStores
<1>4. IsHeader(Stream[heard]) => ~m_parser_ctx'.frame_start_found
  <2>1. ASSUME IsHeader(Stream[heard]), StoresPacket, ~Ends(Stream[heard])
        PROVE  ~m_parser_ctx'.frame_start_found
    <3>1. ~IsSlice(Stream[heard])
      BY <1>1, <2>1, PacketFacts
    <3> QED
      BY <2>1, <3>1 DEF StoresPacket, Ends
  <2>2. ~(IsHeader(Stream[heard]) /\ DecodedTwice(Stream[heard]))
    BY DEF IsHeader, DecodedTwice, Headers, slice
  <2> QED
    BY <2>1, <2>2, DecodeCases
       DEF EndsUnit, SecondCallEnds, SecondCallStores
<1>5. IsSlice(Stream[heard]) =>
        \/ m_parser_ctx'.frame_start_found
        \/ DecodedTwice(Stream[heard])
        \/ ~Kept(heard)'
  <2>1. ASSUME FirstCall, EndsUnit PROVE ~Kept(heard)'
    <3>1. heard \notin handed \cup Buffered
      BY <2>1, Histories DEF FirstCall
    <3>2. handed' = handed \cup Buffered /\ Buffered' = {}
      BY <2>1 DEF EndsUnit
    <3> QED
      BY <3>1, <3>2, CallFacts DEF Kept, Buffered
  <2>2. ASSUME StoresPacket, IsSlice(Stream[heard])
        PROVE  m_parser_ctx'.frame_start_found
    BY <2>2 DEF StoresPacket
  <2>3. CASE FirstCall /\ EndsUnit
    BY <2>1, <2>3
  <2>4. CASE StoresPacket
    BY <2>2, <2>4
  <2>5. CASE SecondCallEnds
    BY <2>5 DEF SecondCallEnds
  <2> QED
    BY <2>3, <2>4, <2>5, DecodeCases DEF SecondCallStores
<1>6. Remembered(heard)'
  BY <1>3, <1>4, <1>5, CallFacts
     DEF Remembered, LastMb, IsSlice, IsHeader, DecodedTwice
<1> QED
  BY <1>1, <1>2, <1>6, CallFacts DEF LastInv
(* The first slice of a frame, fed for the first time, is only stored if   *)
(* the parser had nothing to end.                                          *)
LEMMA FirstSliceUnannounced ==
  ASSUME IInv, DecodePacket, FirstCall, ~Ends(Stream[heard]),
         DecodedTwice(Stream[heard])
  PROVE  Unannounced(heard)'
<1>1. heard \in DOMAIN Stream /\ heard \notin fed
  BY DEF FirstCall, Call
<1>2. ~m_parser_ctx.frame_start_found
  <2>1. /\ IsSlice(Stream[heard])
        /\ Stream[heard].first_macroblock = 0
    BY DEF DecodedTwice, IsSlice
  <2>2. m_parser_ctx.parse_last_mb \in Nat
    BY MacroblockNumbers DEF IInv, TypeOK, DecoderTypeOK
  <2>3. Stream[heard].first_macroblock <= m_parser_ctx.parse_last_mb
    BY <2>1, <2>2
  <2> QED
    BY <2>1, <2>3 DEF Ends
<1>3. \A k \in fed' : k = heard \/ k \in fed
  BY CallFacts
<1>4. CASE fed = {}
  <2>1. \A k \in fed' : k >= heard
    BY <1>1, <1>3, <1>4, PacketFacts
  <2> QED
    BY <2>1, CallFacts DEF Unannounced, DecodedTwice
<1>5. CASE fed # {}
  <2>1. PICK k \in fed : Last(k) /\ Remembered(k)
    BY <1>5 DEF IInv, LastInv
  <2>2. k \in DOMAIN Stream /\ k # heard /\ k < heard
    BY <1>1, <2>1, Histories, PacketFacts DEF IInv, FeedInv
  <2>3. IsHeader(Stream[k]) \/ DecodedTwice(Stream[k]) \/ ~Kept(k)
    BY <1>2, <2>1, <2>2, PacketFacts DEF Remembered
  <2>4. ~Kept(k) => ~Kept(k)'
    BY <2>2, CallFacts
  <2>5. \A m \in fed' : m < heard => m <= k
    <3> SUFFICES ASSUME NEW m \in fed', m < heard PROVE m <= k
      OBVIOUS
    <3>1. m # heard
      BY <1>1, PacketFacts
    <3> QED
      BY <1>3, <2>1, <3>1 DEF Last
  <2>6. k \in fed' /\ heard' = heard
    BY <2>1, CallFacts
  <2> QED
    BY <2>2, <2>3, <2>4, <2>5, <2>6 DEF Unannounced, DecodedTwice, IsHeader
<1> QED
  BY <1>4, <1>5

LEMMA DecodeKeepsBetweenInv ==
  ASSUME IInv, DecodePacket PROVE BetweenInv'
<1> SUFFICES ASSUME feeds' = 1 PROVE BetweenInv'
  BY DEF BetweenInv
<1>1. /\ Call
      /\ \/ Ends(Stream[heard]) /\ EndsUnit
         \/ ~Ends(Stream[heard]) /\ StoresPacket
  BY DecodeEndsOrStores DEF IInv
<1>2. feeds = 2
  BY <1>1 DEF Call
<1>3. DecodedTwice(Stream[heard]) /\ heard \notin fed /\ FirstCall
  BY <1>1, <1>2 DEF IInv, FeedInv, FirstCall
<1>4. CASE EndsUnit
  <2>1. /\ m_parser_ctx'.buffer = <<>>
        /\ ~m_parser_ctx'.frame_start_found
        /\ handed' = handed \cup Buffered
    BY <1>4 DEF EndsUnit
  <2> QED
    BY <1>1, <1>3, <2>1, Histories DEF BetweenInv, Call
<1>5. CASE ~Ends(Stream[heard]) /\ StoresPacket
  <2>1. heard \in Buffered'
    BY <1>5 DEF StoresPacket
  <2>2. m_parser_ctx'.frame_start_found
    BY <1>3, <1>5 DEF StoresPacket, DecodedTwice, IsSlice
  <2>3. Unannounced(heard)'
    BY <1>3, <1>5, FirstSliceUnannounced
  <2> QED
    BY <2>1, <2>2, <2>3, CallFacts DEF BetweenInv
<1> QED
  BY <1>1, <1>4, <1>5

LEMMA DecodeKeepsDropInv ==
  ASSUME IInv, DecodePacket PROVE DropInv'
<1> SUFFICES ASSUME NEW n \in fed'
             PROVE  (\/ Kept(n)
                     \/ /\ \A k \in fed : k < n => ~SameFrame(k, n)
                        /\ ~DecodedTwice(Stream[n])
                     \/ n = heard /\ feeds = 1)'
  BY DEF DropInv
<1>0. n \in DOMAIN Stream
  BY CallFacts
<1>1. CASE n = heard
  <2>1. CASE FirstCall /\ Ends(Stream[heard]) /\ EndsUnit
    <3>1. CASE DecodedTwice(Stream[heard])
      <4>1. feeds' = 1
        BY <2>1, <3>1 DEF FirstCall, Call, IInv, FeedInv
      <4> QED
        BY <1>1, <4>1, CallFacts
    <3>2. CASE ~DecodedTwice(Stream[heard])
      <4>1. \A k \in fed : ~SameFrame(k, n)
        BY <1>1, <2>1, NoEndWithinFrame
      <4>2. \A k \in fed' : k < n => ~SameFrame(k, n)
        <5> SUFFICES ASSUME NEW k \in fed', k < n PROVE ~SameFrame(k, n)
          OBVIOUS
        <5>1. k # n
          BY <1>0, PacketFacts
        <5> QED
          BY <1>1, <4>1, <5>1, CallFacts
      <4> QED
        BY <1>1, <3>2, <4>2 DEF SameFrame, DecodedTwice
    <3> QED
      BY <3>1, <3>2
  <2>2. CASE StoresPacket
    BY <1>1, <2>2 DEF StoresPacket, Kept, Buffered
  <2>3. CASE SecondCallEnds
    BY <1>1, <2>3 DEF SecondCallEnds, EndsUnit, Kept
  <2> QED
    BY <2>1, <2>2, <2>3, DecodeCases DEF SecondCallStores
<1>2. CASE n # heard
  <2>1. n \in fed
    BY <1>2, CallFacts
  <2>2. CASE Kept(n)
    BY <2>2, CallFacts
  <2>3. CASE /\ \A k \in fed : k < n => ~SameFrame(k, n)
             /\ ~DecodedTwice(Stream[n])
    <3>1. ~(heard < n)
      BY <1>0, CallFacts, PacketFacts
    <3>2. \A k \in fed' : k < n => ~SameFrame(k, n)
      BY <2>3, <3>1, CallFacts
    <3> QED
      BY <2>3, <3>2 DEF SameFrame, DecodedTwice
  <2> QED
    BY <1>2, <2>1, <2>2, <2>3 DEF IInv, DropInv
<1> QED
  BY <1>1, <1>2

LEMMA DecodeKeepsUnendedInv ==
  ASSUME IInv, DecodePacket PROVE UnendedInv'
<1> SUFFICES ASSUME NEW m \in Buffered', NEW k \in fed',
                    IsSlice(Stream[m]), m < k
             PROVE  ~IsHeader(Stream[k]) /\ Stream[k].first_macroblock # 0
  BY DEF UnendedInv, IsSlice, IsHeader
<1>1. CASE EndsUnit
  BY <1>1 DEF EndsUnit
<1>2. CASE StoresPacket /\ ~Ends(Stream[heard])
  <2>1. m = heard \/ m \in Buffered
    BY <1>2 DEF StoresPacket
  <2>2. m \in Buffered
    <3>1. heard \in DOMAIN Stream /\ k \in DOMAIN Stream /\ k <= heard
      BY CallFacts
    <3>2. m # heard
      BY <3>1, PacketFacts
    <3> QED
      BY <2>1, <3>2
  <2>3. CASE k = heard
    <3>1. m_parser_ctx.frame_start_found
      BY <2>2 DEF IInv, BufferInv
    <3>2. /\ m_parser_ctx.parse_last_mb \in Nat
          /\ heard \in DOMAIN Stream
      BY CallFacts, MacroblockNumbers DEF IInv, TypeOK, DecoderTypeOK
    <3>3. ~IsHeader(Stream[heard]) /\ IsSlice(Stream[heard])
      BY <1>2, <3>1, <3>2, PacketFacts DEF Ends
    <3>4. ~(Stream[heard].first_macroblock <= m_parser_ctx.parse_last_mb)
      BY <1>2, <3>1, <3>3 DEF Ends
    <3>5. Stream[heard].first_macroblock # 0
      BY <3>2, <3>4
    <3> QED
      BY <2>3, <3>3, <3>5
  <2>4. CASE k \in fed
    BY <2>2, <2>4 DEF IInv, UnendedInv
  <2> QED
    BY <2>3, <2>4, CallFacts
<1> QED
  BY <1>1, <1>2, DecodeEndsOrStores DEF IInv

LEMMA DecodeKeepsMixed ==
  ASSUME IInv, DecodePacket PROVE MixedOnlyAfterLoss'
<1>1. CASE StoresPacket
  BY <1>1, RangeOfEmpty DEF StoresPacket, MixedOnlyAfterLoss
<1>2. CASE Ends(Stream[heard]) /\ EndsUnit
  <2>0. Range(m_packet') = Buffered
    BY <1>2 DEF EndsUnit, Buffered
  <2>1. ASSUME NEW m \in Buffered, NEW n \in Buffered, NEW k \in fed',
               m < n, ~SameFrame(m, n), IsSlice(Stream[m]), SameFrame(k, n)
        PROVE  ~IsHeader(Stream[k]) /\ Stream[k].first_macroblock # 0
    <3>1. /\ m \in DOMAIN Stream /\ n \in DOMAIN Stream /\ k \in DOMAIN Stream
          /\ m \in Nat /\ n \in Nat /\ k \in Nat
      BY Histories, CallFacts, PacketFacts
    <3>2. m < k
      <4> SUFFICES ASSUME k <= m PROVE FALSE
        BY <3>1
      <4>1. SameFrame(m, n)
        BY <2>1, <3>1, FrameFacts
      <4> QED
        BY <2>1, <4>1
    <3>3. CASE k \in fed
      BY <2>1, <3>2, <3>3 DEF IInv, UnendedInv
    <3>4. CASE k \notin fed
      <4>1. k = heard
        BY <3>4, CallFacts
      <4>2. FirstCall /\ Ends(Stream[heard])
        BY <1>2, <3>4, <4>1, DecodeEndsOrStores DEF IInv, FirstCall
      <4>3. SameFrame(n, heard) /\ n \in fed
        BY <2>1, <4>1, Histories DEF SameFrame
      <4> QED
        BY <4>2, <4>3, NoEndWithinFrame
    <3> QED
      BY <3>3, <3>4
  <2> QED
    BY <2>0, <2>1 DEF MixedOnlyAfterLoss, SameFrame, IsSlice, IsHeader
<1> QED
  BY <1>1, <1>2, DecodeEndsOrStores DEF IInv

LEMMA DecodeKeepsWholeInv ==
  ASSUME IInv, DecodePacket PROVE WholeInv'
<1> SUFFICES ASSUME NEW n \in handed', NEW k \in fed',
                    SameFrame(n, k), IsSlice(Stream[n]), IsSlice(Stream[k]),
                    k \in Buffered' \/ Last(k)'
             PROVE  \E f \in fed' : SameFrame(f, n) /\ Unannounced(f)'
  BY DEF WholeInv, SameFrame, IsSlice
<1>0. /\ heard \in DOMAIN Stream /\ heard \in Nat
      /\ n \in fed /\ n \in DOMAIN Stream /\ n \in Nat
      /\ k \in DOMAIN Stream /\ k \in Nat /\ k <= heard /\ n <= heard
  BY CallFacts, Histories, PacketFacts
<1>1. ASSUME NEW f \in fed, SameFrame(f, n), Unannounced(f)
      PROVE  \E g \in fed' : SameFrame(g, n) /\ Unannounced(g)'
  <2>1. f \in fed' /\ Unannounced(f)'
    BY <1>1, CallFacts, UnannouncedStays
  <2> QED
    BY <1>1, <2>1
<1>2. Last(k)' => k = heard
  <2>1. heard \in fed'
    BY CallFacts
  <2>2. Last(k)' => heard <= k
    BY <2>1 DEF Last
  <2> QED
    BY <1>0, <2>2
<1>3. CASE FirstCall /\ Ends(Stream[heard]) /\ EndsUnit
  <2>1. k = heard
    BY <1>2, <1>3 DEF EndsUnit
  <2> QED
    BY <1>0, <1>3, <2>1, NoEndWithinFrame
<1>4. CASE SecondCallEnds
  <2>1. k = heard
    BY <1>2, <1>4 DEF SecondCallEnds, EndsUnit
  <2>2. heard \in fed /\ heard \in Buffered /\ Unannounced(heard)
    BY <1>4 DEF SecondCallEnds
  <2>3. CASE n \in handed
    BY <1>1, <2>1, <2>2, <2>3 DEF IInv, WholeInv
  <2>4. CASE n = heard
    BY <1>1, <2>2, <2>4 DEF SameFrame
  <2>5. CASE n \in Buffered /\ n # heard
    <3>1. Stream[heard].first_macroblock # 0
      BY <1>0, <2>2, <2>5 DEF IInv, UnendedInv
    <3> QED
      BY <1>4, <3>1 DEF SecondCallEnds, DecodedTwice
  <2> QED
    BY <1>4, <2>3, <2>4, <2>5 DEF SecondCallEnds, EndsUnit
<1>5. CASE StoresPacket /\ (FirstCall \/ SecondCallStores)
  <2>1. n \in handed
    BY <1>5 DEF StoresPacket
  <2>2. CASE k \in Buffered
    <3>1. k \in fed
      BY <2>2, Histories
    <3> QED
      BY <1>1, <2>1, <2>2, <3>1 DEF IInv, WholeInv
  <2>3. CASE k = heard
    <3>1. CASE heard \in fed
      <4>1. Last(heard)
        BY <3>1 DEF Last, IInv, FeedInv
      <4> QED
        BY <1>1, <2>1, <2>3, <3>1, <4>1 DEF IInv, WholeInv
    <3>2. CASE heard \notin fed
      <4>1. PICK l \in fed : Last(l)
        BY <1>0 DEF IInv, LastInv
      <4>2. l \in DOMAIN Stream /\ l \in Nat /\ n <= l /\ l <= heard
        BY <1>0, <4>1, Histories, PacketFacts DEF Last, IInv, FeedInv
      <4>3. SameFrame(n, l)
        BY <1>0, <2>3, <4>2, FrameFacts
      <4>4. IsSlice(Stream[l])
        <5>1. n = l \/ n < l
          BY <1>0, <4>2
        <5> QED
          BY <1>0, <4>2, <4>3, <5>1, FrameFacts
      <4> QED
        BY <1>1, <2>1, <4>1, <4>3, <4>4 DEF IInv, WholeInv
    <3> QED
      BY <3>1, <3>2
  <2> QED
    BY <1>2, <1>5, <2>2, <2>3 DEF StoresPacket
<1> QED
  BY <1>3, <1>4, <1>5, DecodeCases DEF SecondCallStores

LEMMA DecodeKeepsTypeOK ==
  ASSUME IInv, DecodePacket PROVE TypeOK'
<1>1. LastMb(Stream[heard]) \in UInt16
  BY CallFacts, PacketFacts DEF LastMb, IInv, TypeOK, DecoderTypeOK
<1>2. /\ m_parser_ctx.frame_start_found \in BOOLEAN
      /\ m_parser_ctx.buffer \in Seq(DOMAIN Stream)
      /\ heard \in DOMAIN Stream
  BY CallFacts DEF IInv, TypeOK, DecoderTypeOK
<1>3. /\ m_packet' \in Seq(DOMAIN Stream)
      /\ m_parser_ctx' \in [frame_start_found : BOOLEAN,
                            parse_last_mb : UInt16,
                            buffer : Seq(DOMAIN Stream)]
  <2>1. CASE EndsUnit
    BY <1>1, <1>2, <2>1 DEF EndsUnit
  <2>2. CASE StoresPacket
    <3>1. Append(m_parser_ctx.buffer, heard) \in Seq(DOMAIN Stream)
      BY <1>2, RangeOfAppend
    <3>2. (m_parser_ctx.frame_start_found \/ IsSlice(Stream[heard])) \in BOOLEAN
      BY DEF IsSlice
    <3>3. m_packet' \in Seq(DOMAIN Stream)
      BY <2>2 DEF StoresPacket
    <3> QED
      BY <1>1, <2>2, <3>1, <3>2, <3>3 DEF StoresPacket
  <2> QED
    BY <2>1, <2>2, DecodeEndsOrStores DEF IInv
<1>4. fed' \in SUBSET DOMAIN Stream /\ handed' \in SUBSET fed'
  BY CallFacts, Histories
<1>5. DecoderTypeOK'
  BY <1>3, <1>4 DEF DecoderTypeOK
<1>6. feeds' \in 0 .. 2 /\ more' \in 0 .. FramesPerUnit
  <2>1. feeds' \in 0 .. 2
    BY DEF DecodePacket, IInv, TypeOK
  <2>2. more' \in 0 .. FramesPerUnit
    BY BoundsAssumption DEF DecodePacket
  <2> QED
    BY <2>1, <2>2
<1> QED
  BY <1>5, <1>6
     DEF DecodePacket, IInv, TypeOK, guiVars, frameVars, PacketOf

LEMMA DecodeKeepsFeedInv ==
  ASSUME IInv, DecodePacket PROVE FeedInv'
<1>1. Call
  BY DecodeEndsOrStores DEF IInv
<1>2. decoded' + more' <= MaxFrames /\ asio' = "decode"
  BY DEF DecodePacket
<1>3. \A n \in fed' : n <= heard'
  BY CallFacts
<1>4. heard \in fed' /\ heard' = heard /\ heard # -1
  BY <1>1, PacketFacts DEF Call
<1>5. feeds' = 1 => DecodedTwice(Stream[heard])
  BY <1>1 DEF Call, IInv, FeedInv
<1>6. feeds' # 2
  BY <1>1 DEF Call
<1> QED
  BY <1>2, <1>3, <1>4, <1>5, <1>6 DEF FeedInv, DecodedTwice

LEMMA DecodeKeepsIInv ==
  ASSUME IInv, DecodePacket PROVE IInv'
<1>1. LockInv'
  BY DEF DecodePacket, IInv, LockInv, guiVars, frameVars
<1> QED
  BY <1>1, DecodeKeepsTypeOK, DecodeKeepsFeedInv, DecodeKeepsBufferInv,
     DecodeKeepsLastInv, DecodeKeepsBetweenInv, DecodeKeepsDropInv,
     DecodeKeepsUnendedInv, DecodeKeepsMixed, DecodeKeepsWholeInv
     DEF IInv

-----------------------------------------------------------------------------
(* The other steps leave parser and codec alone. *)

DecodingInv ==
  /\ BufferInv /\ LastInv /\ UnendedInv /\ MixedOnlyAfterLoss /\ WholeInv

LEMMA DecoderUnchanged ==
  ASSUME DecodingInv, UNCHANGED decoderVars PROVE DecodingInv'
<1>1. /\ m_parser_ctx' = m_parser_ctx /\ m_packet' = m_packet
      /\ fed' = fed /\ handed' = handed /\ Buffered' = Buffered
  BY DEF decoderVars, Buffered
<1>2. BufferInv'
  BY <1>1 DEF DecodingInv, BufferInv, IsSlice
<1>3. LastInv'
  BY <1>1 DEF DecodingInv, LastInv, Last, Remembered, Kept, IsSlice, IsHeader,
              DecodedTwice
<1>4. UnendedInv'
  BY <1>1 DEF DecodingInv, UnendedInv, IsSlice, IsHeader
<1>5. MixedOnlyAfterLoss'
  BY <1>1 DEF DecodingInv, MixedOnlyAfterLoss, SameFrame, IsSlice, IsHeader
<1>6. WholeInv'
  BY <1>1 DEF DecodingInv, WholeInv, Unannounced, Last, Kept, SameFrame,
              IsSlice, IsHeader, DecodedTwice
<1> QED
  BY <1>2, <1>3, <1>4, <1>5, <1>6 DEF DecodingInv

LEMMA StreamUnchanged ==
  ASSUME IInv, UNCHANGED streamVars
  PROVE  DecodingInv' /\ BetweenInv' /\ DropInv'
<1>1. UNCHANGED <<decoderVars, heard, feeds>>
  BY DEF streamVars
<1>2. DecodingInv'
  BY <1>1, DecoderUnchanged DEF IInv, DecodingInv
<1>3. BetweenInv'
  BY <1>1 DEF IInv, BetweenInv, decoderVars, Buffered, Unannounced, Kept,
              IsHeader, DecodedTwice
<1>4. DropInv'
  BY <1>1 DEF IInv, DropInv, decoderVars, Kept, SameFrame, DecodedTwice
<1> QED
  BY <1>2, <1>3, <1>4

LEMMA InitIInv ==
  ASSUME Init PROVE IInv
<1> USE DEF Init
<1>1. /\ m_parser_ctx = [frame_start_found |-> FALSE, parse_last_mb |-> 0,
                         buffer |-> <<>>]
      /\ m_packet = <<>> /\ fed = {} /\ handed = {}
  BY DEF DecoderInit
<1>2. Buffered = {} /\ Range(m_packet) = {}
  BY <1>1, RangeOfEmpty DEF Buffered
<1>3. DecoderTypeOK
  BY <1>1 DEF DecoderTypeOK, UInt16
<1>4. TypeOK
  <2>1. heard \in -1 .. MaxPackets - 1
    BY StreamAssumption
  <2>2. packet = IF heard = -1 THEN NoPacket ELSE PacketOf(heard)
    OBVIOUS
  <2>3. 0 \in Frames /\ 0 \in 0 .. FramesPerUnit /\ 0 \in 0 .. 2
    BY BoundsAssumption DEF Frames
  <2> QED
    BY <1>3, <2>1, <2>2, <2>3 DEF TypeOK
<1>5. LockInv /\ FeedInv
  BY <1>1, BoundsAssumption DEF LockInv, FeedInv
<1>6. BufferInv
  BY <1>1, <1>2 DEF BufferInv
<1>7. LastInv /\ BetweenInv /\ DropInv
  BY <1>1 DEF LastInv, BetweenInv, DropInv
<1>8. UnendedInv /\ MixedOnlyAfterLoss /\ WholeInv
  BY <1>1, <1>2 DEF UnendedInv, MixedOnlyAfterLoss, WholeInv
<1> QED
  BY <1>4, <1>5, <1>6, <1>7, <1>8 DEF IInv

LEMMA OnPacketReceivedKeepsIInv ==
  ASSUME IInv, OnPacketReceived PROVE IInv'
<1>1. /\ heard' \in (heard + 1) .. (MaxPackets - 1)
      /\ packet' = PacketOf(heard')
      /\ feeds' = Feeds(packet')
      /\ asio = "run" /\ asio' = "decode"
      /\ UNCHANGED <<guiVars, decoded, more, decoderVars, stopped, receiving,
                     frameVars>>
  BY DEF OnPacketReceived, Arriving!Hear
<1>2. heard \in -1 .. MaxPackets - 1 /\ MaxPackets \in Nat
  BY StreamAssumption DEF IInv, TypeOK
<1>3. heard' \in 0 .. MaxPackets - 1 /\ heard < heard'
  BY <1>1, <1>2
<1>4. packet' = Stream[heard']
  BY <1>1 DEF PacketOf
<1>5. \/ feeds' = 2 /\ DecodedTwice(Stream[heard'])
      \/ feeds' = 1 /\ ~DecodedTwice(Stream[heard'])
  BY <1>1, <1>4 DEF Feeds
<1>6. feeds = 0 /\ more = 0
  BY <1>1 DEF IInv, FeedInv
<1>7. \A n \in fed : n < heard'
  <2>1. \A n \in fed : n \in Nat /\ n <= heard
    BY Histories, PacketFacts DEF IInv, FeedInv
  <2> QED
    BY <1>2, <1>3, <2>1
<1>8. fed' = fed /\ handed' = handed /\ heard' \notin fed
  BY <1>1, <1>3, <1>7 DEF decoderVars
<1>9. TypeOK'
  <2>1. DecoderTypeOK'
    BY <1>1 DEF IInv, TypeOK, DecoderTypeOK, decoderVars
  <2>2. heard' \in -1 .. MaxPackets - 1 /\ heard' # -1
    BY <1>2, <1>3
  <2>3. packet' = IF heard' = -1 THEN NoPacket ELSE PacketOf(heard')
    BY <1>1, <2>2
  <2>4. feeds' \in 0 .. 2
    BY <1>5
  <2> QED
    BY <1>1, <2>1, <2>2, <2>3, <2>4
       DEF IInv, TypeOK, guiVars, frameVars
<1>10. LockInv'
  BY <1>1 DEF IInv, LockInv, guiVars, frameVars
<1>11. FeedInv'
  <2>1. \A n \in fed' : n <= heard'
    BY <1>3, <1>7, <1>8, Histories, PacketFacts
  <2>2. decoded' + more' <= MaxFrames
    BY <1>1 DEF IInv, FeedInv
  <2>3. heard' # -1
    BY <1>3
  <2> QED
    BY <1>1, <1>5, <1>8, <2>1, <2>2, <2>3 DEF FeedInv, DecodedTwice
<1>12. DecodingInv'
  BY <1>1, DecoderUnchanged DEF IInv, DecodingInv
<1>13. BetweenInv'
  BY <1>8 DEF BetweenInv
<1>14. DropInv'
  BY <1>1, <1>6, <1>8
     DEF IInv, DropInv, decoderVars, Kept, SameFrame, DecodedTwice
<1> QED
  BY <1>9, <1>10, <1>11, <1>12, <1>13, <1>14 DEF IInv, DecodingInv

(* Of the other steps only types, the lock and the calls that are left     *)
(* remain to be seen to.                                                   *)
LEMMA OtherStepKeepsIInv ==
  ASSUME IInv, UNCHANGED streamVars,
         TypeOK' /\ LockInv' /\ FeedInv'
  PROVE  IInv'
BY StreamUnchanged DEF IInv, DecodingInv

LEMMA StreamTypeUnchanged ==
  ASSUME IInv, UNCHANGED streamVars
  PROVE  /\ heard' \in -1 .. MaxPackets - 1
         /\ packet' = IF heard' = -1 THEN NoPacket ELSE PacketOf(heard')
         /\ feeds' \in 0 .. 2
         /\ DecoderTypeOK'
BY DEF IInv, TypeOK, DecoderTypeOK, streamVars, decoderVars, PacketOf

LEMMA GuiKeepsIInv ==
  ASSUME IInv, Gui PROVE IInv'
<1> USE DEF IInv
<1>1. UNCHANGED asioVars
  BY DEF Gui, Initialize, InitializeFails, StartAndShow, Paint, Painted,
         CloseWindow, StopContext, DestroyWindow, JoinAsioThread
<1>2. UNCHANGED streamVars /\ UNCHANGED <<asio, decoded, more>>
  BY <1>1 DEF asioVars
<1>3. FeedInv'
  BY <1>2 DEF FeedInv, streamVars, decoderVars, DecodedTwice
<1>4. TypeOK' /\ LockInv'
  <2> USE <1>2, StreamTypeUnchanged DEF TypeOK, LockInv, guiVars, frameVars
  <2>1. CASE Initialize
    BY <2>1 DEF Initialize
  <2>2. CASE InitializeFails
    BY <2>2 DEF InitializeFails
  <2>3. CASE StartAndShow
    BY <2>3 DEF StartAndShow
  <2>4. CASE Paint
    BY <2>4 DEF Paint
  <2>5. CASE Painted
    BY <2>5 DEF Painted
  <2>6. CASE CloseWindow
    BY <2>6 DEF CloseWindow
  <2>7. CASE StopContext
    BY <2>7 DEF StopContext
  <2>8. CASE DestroyWindow
    BY <2>8 DEF DestroyWindow
  <2>9. CASE JoinAsioThread
    BY <2>9 DEF JoinAsioThread
  <2> QED
    BY <2>1, <2>2, <2>3, <2>4, <2>5, <2>6, <2>7, <2>8, <2>9 DEF Gui
<1> QED
  BY <1>2, <1>3, <1>4, OtherStepKeepsIInv

LEMMA AsioKeepsIInv ==
  ASSUME IInv, Asio PROVE IInv'
<1>1. CASE OnPacketReceived
  BY <1>1, OnPacketReceivedKeepsIInv
<1>2. CASE DecodePacket
  BY <1>2, DecodeKeepsIInv
<1>3. ASSUME UNCHANGED streamVars
      PROVE  FeedInv' <=> /\ asio' \in {"created", "run", "ended"} =>
                               feeds = 0 /\ more' = 0
                          /\ decoded' + more' <= MaxFrames
  BY <1>3 DEF IInv, FeedInv, streamVars, decoderVars, DecodedTwice
<1>4. decoded \in Frames /\ more \in 0 .. FramesPerUnit
  BY DEF IInv, TypeOK
<1> USE DEF IInv, TypeOK, LockInv, guiVars, frameVars
<1>5. CASE RunContext
  <2>1. UNCHANGED streamVars
    BY <1>5 DEF RunContext
  <2>2. FeedInv'
    BY <1>3, <1>5, <2>1 DEF RunContext, FeedInv
  <2>3. TypeOK' /\ LockInv'
    BY <1>5, <2>1, StreamTypeUnchanged DEF RunContext
  <2> QED
    BY <2>1, <2>2, <2>3, OtherStepKeepsIInv
<1>6. CASE RunReturns
  <2>1. UNCHANGED streamVars
    BY <1>6 DEF RunReturns
  <2>2. FeedInv'
    BY <1>3, <1>6, <2>1 DEF RunReturns, FeedInv
  <2>3. TypeOK' /\ LockInv'
    BY <1>6, <2>1, StreamTypeUnchanged DEF RunReturns
  <2> QED
    BY <2>1, <2>2, <2>3, OtherStepKeepsIInv
<1>7. CASE OnFrame
  <2>1. UNCHANGED streamVars
    BY <1>7 DEF OnFrame
  <2>2. /\ decoded' = decoded + 1 /\ more' = more - 1 /\ more > 0
        /\ decoded + more <= MaxFrames
    BY <1>7 DEF OnFrame, FeedInv
  <2>3. /\ decoded' + more' <= MaxFrames
        /\ decoded' \in Frames /\ more' \in 0 .. FramesPerUnit
    BY <1>4, <2>2, BoundsAssumption DEF Frames
  <2>4. FeedInv'
    BY <1>3, <1>7, <2>1, <2>3 DEF OnFrame
  <2>5. TypeOK' /\ LockInv'
    BY <1>7, <2>1, <2>3, StreamTypeUnchanged DEF OnFrame
  <2> QED
    BY <2>1, <2>4, <2>5, OtherStepKeepsIInv
<1>8. CASE ReplaceFrameData
  <2>1. UNCHANGED streamVars
    BY <1>8 DEF ReplaceFrameData
  <2>2. FeedInv'
    BY <1>3, <1>8, <2>1 DEF ReplaceFrameData, FeedInv
  <2>3. TypeOK' /\ LockInv'
    BY <1>8, <2>1, StreamTypeUnchanged DEF ReplaceFrameData
  <2> QED
    BY <2>1, <2>2, <2>3, OtherStepKeepsIInv
<1>9. CASE ReplaceFrameImage
  <2>1. UNCHANGED streamVars
    BY <1>9 DEF ReplaceFrameImage
  <2>2. FeedInv'
    BY <1>3, <1>9, <2>1 DEF ReplaceFrameImage, FeedInv
  <2>3. TypeOK' /\ LockInv'
    BY <1>9, <2>1, StreamTypeUnchanged DEF ReplaceFrameImage, Update
  <2> QED
    BY <2>1, <2>2, <2>3, OtherStepKeepsIInv
<1>10. CASE PacketDone
  <2>1. UNCHANGED streamVars
    BY <1>10 DEF PacketDone
  <2>2. FeedInv'
    BY <1>3, <1>10, <2>1 DEF PacketDone, FeedInv
  <2>3. TypeOK' /\ LockInv'
    BY <1>10, <2>1, StreamTypeUnchanged DEF PacketDone, Update
  <2> QED
    BY <2>1, <2>2, <2>3, OtherStepKeepsIInv
<1> QED
  BY <1>1, <1>2, <1>5, <1>6, <1>7, <1>8, <1>9, <1>10 DEF Asio

LEMMA NextIInv ==
  ASSUME IInv, [Next]_vars PROVE IInv'
<1>1. CASE Gui
  BY <1>1, GuiKeepsIInv
<1>2. CASE Asio
  BY <1>2, AsioKeepsIInv
<1>3. CASE UNCHANGED vars
  <2>1. /\ UNCHANGED streamVars
        /\ UNCHANGED <<guiVars, asio, decoded, more, stopped, receiving,
                       frameVars>>
    BY <1>3 DEF vars, asioVars
  <2>2. FeedInv'
    BY <2>1 DEF IInv, FeedInv, streamVars, decoderVars, DecodedTwice
  <2>3. TypeOK' /\ LockInv'
    BY <2>1, StreamTypeUnchanged
       DEF IInv, TypeOK, LockInv, guiVars, frameVars
  <2> QED
    BY <2>1, <2>2, <2>3, OtherStepKeepsIInv
<1> QED
  BY <1>1, <1>2, <1>3 DEF Next

LEMMA IInvHolds == Spec => []IInv
<1>1. Init => IInv
  BY InitIInv
<1>2. IInv /\ [Next]_vars => IInv'
  BY NextIInv
<1> QED
  BY <1>1, <1>2, PTL DEF Spec
-----------------------------------------------------------------------------
(* The window, its frame, the parser and the codec only ever hold what     *)
(* they should, for any stream and any number of frames.                   *)
THEOREM TypeCorrect == Spec => []TypeOK
<1>1. IInv => TypeOK
  BY DEF IInv
<1> QED
  BY <1>1, IInvHolds, PTL

(* paintEvent never draws an image whose memory on_frame, on the other     *)
(* thread, has freed: m_current_frame_lock is held over the whole of       *)
(* either.                                                                 *)
THEOREM PaintedFrameIsLive == Spec => []PaintsLiveFrame
<1>1. IInv => PaintsLiveFrame
  BY DEF IInv, LockInv, PaintsLiveFrame
<1> QED
  BY <1>1, IInvHolds, PTL

(* What the parser drops, as it drops the packet at which it finds the end *)
(* of a unit, is never worse than the first packet that arrived of a       *)
(* frame, and never the slice at macroblock 0 of an ordinary frame, which  *)
(* on_packet_received decodes twice to this end: whatever was lost.        *)
THEOREM DropsAreFrameStarts == Spec => []OnlyFrameStartsDropped
<1>1. IInv => OnlyFrameStartsDropped
  BY DEF IInv, DropInv, OnlyFrameStartsDropped, Handled
<1> QED
  BY <1>1, IInvHolds, PTL

(* Decoding packets twice never gives the codec a packet a second time or  *)
(* out of order.                                                           *)
THEOREM CodecGetsUnitsInOrder == Spec => UnitsInOrder
<1>1. ASSUME IInv, [Next]_vars, feeds' < feeds
      PROVE  /\ \A i, j \in DOMAIN m_packet' :
                  i < j => m_packet'[i] < m_packet'[j]
             /\ \A m \in handed, n \in Range(m_packet') : m < n
  <2>1. DecodePacket
    <3>1. feeds' # feeds
      BY <1>1 DEF IInv, TypeOK
    <3>2. OnPacketReceived => feeds = 0 /\ feeds' \in {1, 2}
      BY <1>1 DEF OnPacketReceived, Feeds, IInv, FeedInv
    <3>3. ~OnPacketReceived
      BY <1>1, <3>2
    <3>4. UNCHANGED streamVars => feeds' = feeds
      BY DEF streamVars
    <3>5. Next \/ UNCHANGED streamVars
      BY <1>1 DEF vars, asioVars
    <3>6. Gui => UNCHANGED streamVars
      BY DEF Gui, Initialize, InitializeFails, StartAndShow, Paint, Painted,
             CloseWindow, StopContext, DestroyWindow, JoinAsioThread,
             asioVars
    <3>7. Asio => DecodePacket \/ OnPacketReceived \/ UNCHANGED streamVars
      BY DEF Asio, RunContext, RunReturns, OnFrame, ReplaceFrameData,
             ReplaceFrameImage, PacketDone
    <3> QED
      BY <3>1, <3>3, <3>4, <3>5, <3>6, <3>7 DEF Next
  <2>2. m_packet' = <<>> \/ m_packet' = m_parser_ctx.buffer
    BY <1>1, <2>1, DecodeEndsOrStores DEF IInv, EndsUnit, StoresPacket
  <2>3. CASE m_packet' = <<>>
    BY <2>3, RangeOfEmpty
  <2>4. CASE m_packet' = m_parser_ctx.buffer
    BY <1>1, <2>4 DEF IInv, BufferInv, Buffered
  <2> QED
    BY <2>2, <2>3, <2>4
<1> QED
  BY <1>1, IInvHolds, PTL DEF Spec, UnitsInOrder

(* A unit for the codec holds slices of two frames only if the second      *)
(* frame's beginning, up to its slice at macroblock 0, was lost.           *)
THEOREM MixingNeedsLoss == Spec => []MixedOnlyAfterLoss
<1>1. IInv => MixedOnlyAfterLoss
  BY DEF IInv
<1> QED
  BY <1>1, IInvHolds, PTL

(* The packet before one that came unannounced, as Before computes it.     *)
LEMMA BeforeUnannounced ==
  ASSUME IInv, NEW f \in fed, Unannounced(f)
  PROVE  /\ DecodedTwice(Stream[f])
         /\ \/ Before(f) = -1
            \/ IsHeader(Stream[Before(f)])
            \/ DecodedTwice(Stream[Before(f)])
            \/ ~Kept(Before(f))
<1> DEFINE older == {k \in fed : k < f}
<1>1. \A k \in fed : k \in Nat
  BY Histories, PacketFacts
<1>2. CASE \A k \in fed : k >= f
  <2>1. older = {}
    BY <1>1, <1>2
  <2>2. Before(f) = -1
    BY <2>1 DEF Before
  <2> QED
    BY <2>2 DEF Unannounced
<1>3. CASE ~(\A k \in fed : k >= f)
  <2>1. PICK b \in fed :
          /\ b < f /\ \A k \in fed : k < f => k <= b
          /\ \/ IsHeader(Stream[b])
             \/ DecodedTwice(Stream[b])
             \/ ~Kept(b)
    BY <1>3 DEF Unannounced
  <2>2. b \in older /\ \A o \in older : o <= b
    BY <2>1
  <2>3. \A k \in older : (\A o \in older : o <= k) => k = b
    BY <1>1, <2>2
  <2>4. (CHOOSE k \in older : \A o \in older : o <= k) = b
    BY <2>2, <2>3
  <2>5. Before(f) = b
    BY <2>2, <2>4 DEF Before
  <2> QED
    BY <2>1, <2>5 DEF Unannounced
<1> QED
  BY <1>2, <1>3

(* The codec does not get one slice of a frame while another is still to   *)
(* come, unless the frame came unannounced: with nothing before it that    *)
(* its slice at macroblock 0 would have ended.                             *)
THEOREM FramesAreWhole == Spec => []FramesStayWhole
<1>1. ASSUME IInv PROVE FramesStayWhole
  <2> SUFFICES ASSUME NEW n \in handed, NEW k \in Buffered,
                      SameFrame(n, k), IsSlice(Stream[n]), IsSlice(Stream[k])
               PROVE  \E f \in fed :
                        /\ SameFrame(f, n)
                        /\ DecodedTwice(Stream[f])
                        /\ \/ Before(f) = -1
                           \/ IsHeader(Stream[Before(f)])
                           \/ DecodedTwice(Stream[Before(f)])
                           \/ ~Kept(Before(f))
    BY DEF FramesStayWhole, Buffered
  <2>1. k \in fed
    BY <1>1, Histories
  <2>2. PICK f \in fed : SameFrame(f, n) /\ Unannounced(f)
    BY <1>1, <2>1 DEF IInv, WholeInv
  <2> QED
    BY <1>1, <2>2, BeforeUnannounced
<1> QED
  BY <1>1, IInvHolds, PTL

(* Only ctx.stop(), which main() calls when the window has been closed,    *)
(* lets the asio thread end.                                               *)
EndInv ==
  /\ asio = "ended" => stopped
  /\ stopped => gui \in {"unwind", "join", "exited"}

LEMMA EndInvHolds == Spec => []EndInv
<1>1. Init => EndInv
  BY DEF Init, EndInv
<1>2. EndInv /\ [Next]_vars => EndInv'
  <2> SUFFICES ASSUME EndInv, [Next]_vars PROVE EndInv'
    OBVIOUS
  <2> USE DEF EndInv
  <2>1. CASE Gui
    BY <2>1 DEF Gui, Initialize, InitializeFails, StartAndShow, Paint,
         Painted, CloseWindow, StopContext, DestroyWindow, JoinAsioThread,
         asioVars
  <2>2. CASE Asio
    BY <2>2 DEF Asio, RunContext, RunReturns, OnPacketReceived, DecodePacket,
         OnFrame, ReplaceFrameData, ReplaceFrameImage, PacketDone, guiVars
  <2>3. CASE UNCHANGED vars
    BY <2>3 DEF vars, guiVars, asioVars
  <2> QED
    BY <2>1, <2>2, <2>3 DEF Next
<1> QED
  BY <1>1, <1>2, PTL DEF Spec

(* When initialize() fails main() returns without ctx.stop(), and from     *)
(* then on it never gets past the join of the asio thread: the process     *)
(* does not exit.                                                          *)
THEOREM FailedInitNeverExits ==
  Spec => /\ [](gui = "failed" => ~stopped)
          /\ [][~stopped /\ gui \in {"failed", "join"}
                  => ~stopped' /\ gui' \in {"failed", "join"}]_vars
<1>1. EndInv => (gui = "failed" => ~stopped)
  BY DEF EndInv
<1>2. EndInv /\ [Next]_vars
      => [~stopped /\ gui \in {"failed", "join"}
            => ~stopped' /\ gui' \in {"failed", "join"}]_vars
  <2> SUFFICES ASSUME EndInv, Next, ~stopped, gui \in {"failed", "join"}
      PROVE  ~stopped' /\ gui' \in {"failed", "join"}
    OBVIOUS
  <2> USE DEF EndInv
  <2>1. CASE Gui
    BY <2>1 DEF Gui, Initialize, InitializeFails, StartAndShow, Paint,
         Painted, CloseWindow, StopContext, DestroyWindow, JoinAsioThread
  <2>2. CASE Asio
    BY <2>2 DEF Asio, RunContext, RunReturns, OnPacketReceived, DecodePacket,
         OnFrame, ReplaceFrameData, ReplaceFrameImage, PacketDone, guiVars
  <2> QED
    BY <2>1, <2>2 DEF Next
<1> QED
  BY <1>1, <1>2, EndInvHolds, PTL DEF Spec
=============================================================================
