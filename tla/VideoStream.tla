------------------------------ MODULE VideoStream ------------------------------
(***************************************************************************)
(* From the NAL units of a stream to the packets for its viewers: the      *)
(* access unit assembler of app/h264.py and the video path of              *)
(* app/mirror_runtime.py in its modes "raw", "protocol" and "legacy".      *)
(* The video thread assembles and processes; the event loop publishes what *)
(* the thread has put in its queue.                                        *)
(*                                                                         *)
(* A NAL unit is [type, first, v]: "first" says that a slice begins a      *)
(* picture; v is the version of an SPS or PPS and, of a slice, the version *)
(* the encoder made it with.  A configuration is a pair of versions.       *)
(***************************************************************************)
EXTENDS Naturals, SequencesExt, FiniteSets

CONSTANTS
  StreamModes,       \* the stream modes in use
  Versions,    \* versions of the configuration
  MaxUnit,     \* max_access_unit_bytes, in NAL units of one byte
  MaxLoopQueue,    \* bound: packets queued on the event loop
  VideoWrap         \* the counters of 32 bits wrap here

\* A version is what tells one SPS or PPS from another; 0 is none.
ASSUME VideoAssumption ==
  /\ StreamModes # {} /\ StreamModes \subseteq {"raw", "protocol", "legacy"}
  /\ Versions \subseteq Nat \ {0}
  /\ MaxUnit \in Nat /\ VideoWrap \in Nat \ {0, 1}

VARIABLES
  streamMode,        \* effective_stream_mode
  encoder,     \* the version the encoder sends, and how far its SPS/PPS pair got
  unit,        \* the assembler's pending NAL units
  torn,        \* something was lost since the encoder last sent SPS and PPS
  config,      \* psps, ppps, sps, pps (0: none), packet (config_packet), used, gen
  health, keySeen,   \* stream_health; last_keyframe_at is set
  loopQueue,   \* packets on their way to the event loop
  sequence,    \* _raw_frame_sequence
  latest       \* _latest_raw_keyframe / _latest_legacy_keyframe

videoVars == <<streamMode, encoder, unit, torn, config, health, keySeen, loopQueue, sequence, latest>>

NoConfig == <<0, 0>>

\* Of a packet: is it a key frame, the configuration in it, the version its
\* slices were made with, the pictures that begin in it and whether one begins
\* after other slices; "of" and "gen" are the configuration in use and its
\* number in the header.
NoPacket == [key |-> FALSE, has |-> NoConfig, made |-> 0, begins |-> 0, mixed |-> FALSE,
             disc |-> FALSE, torn |-> FALSE, of |-> NoConfig, gen |-> 0]

NothingKnown == [psps |-> 0, ppps |-> 0, sps |-> 0, pps |-> 0, packet |-> NoConfig,
                 used |-> NoConfig, gen |-> 0]

VideoInit ==
  /\ streamMode = CHOOSE m \in StreamModes : TRUE
  /\ unit = <<>> /\ torn = FALSE /\ config = NothingKnown
  /\ health = "starting" /\ keySeen = FALSE
  /\ sequence = 0 /\ latest = NoPacket
  /\ encoder = [v |-> 1, due |-> "sps"]
  /\ loopQueue = <<>>

\* Faulty: the counter wraps to 0.
BumpPlain(n) == (n + 1) % VideoWrap
\* A counter of VideoWrap values that leaves out 0.
Bump(n) == IF (n + 1) % VideoWrap = 0 THEN 1 ELSE (n + 1) % VideoWrap

codec_config(c) ==
  IF c.packet # NoConfig THEN c.packet
  ELSE IF c.sps # 0 /\ c.pps # 0 THEN <<c.sps, c.pps>> ELSE NoConfig

\* A new configuration, in use from a key frame on.
Adopt(c, new) ==
  IF new \in {NoConfig, c.used} THEN c ELSE [c EXCEPT !.used = new, !.gen = Bump(@)]

\* call_soon_threadsafe: publish_access_unit or publish_nal, later.
Enqueue(p) == loopQueue' = Append(loopQueue, p)

-----------------------------------------------------------------------------
(***************************************************************************)
(* The assembler, and _process_access_unit of mode "raw"                   *)
(***************************************************************************)
Vcl(n) == n.type \in {"idr", "slice"}
HasVcl(u) == \E i \in DOMAIN u : Vcl(u[i])
Of(type, u, else) ==
  LET at == {i \in DOMAIN u : u[i].type = type}
  IN  IF at = {} THEN else ELSE u[CHOOSE i \in at : \A j \in at : j <= i].v
HasConfig(u) == \E i \in DOMAIN u : u[i].type \in {"sps", "pps"}
IsKey(u) == \E i \in DOMAIN u : u[i].type = "idr" /\ u[i].first

\* What a packet of the NAL units u with the configuration "prefix" before
\* them gives a decoder.
Packet(u, prefix) ==
  LET begins == {i \in DOMAIN u : Vcl(u[i]) /\ u[i].first}
  IN  [NoPacket EXCEPT
        !.has = IF HasConfig(u) THEN <<Of("sps", u, 0), Of("pps", u, 0)>> ELSE prefix,
        !.made = Of("idr", u, 0),
        !.begins = Cardinality(begins),
        !.mixed = \E i \in begins, j \in DOMAIN u : Vcl(u[j]) /\ j < i]

\* Faulty: a slice never begins a new unit.
BoundaryNoSlice(n) == HasVcl(unit) /\ n.type \in {"aud", "sps", "pps"}
\* A picture begins, or what stands before one.
Boundary(n) == HasVcl(unit) /\ ((Vcl(n) /\ n.first) \/ n.type \in {"aud", "sps", "pps"})

\* _append_to_pending: a unit that grows too long is dropped with n.
Appended(u, n) == IF Len(u) + 1 > MaxUnit THEN <<>> ELSE Append(u, n)

\* The SPS and PPS of a unit count from its key frame on; a key frame
\* without its own gets the known ones as a prefix.
process_access_unit(u) ==
  LET c0 == [config EXCEPT !.psps = Of("sps", u, @), !.ppps = Of("pps", u, @)]
      own == IsKey(u) /\ c0.psps # 0 /\ c0.ppps # 0
      new == IF own THEN <<c0.psps, c0.ppps>> ELSE IF IsKey(u) THEN codec_config(c0) ELSE NoConfig
      c1 == IF own THEN [Adopt(c0, new) EXCEPT !.sps = c0.psps, !.pps = c0.ppps, !.packet = NoConfig]
            ELSE c0
      key == IsKey(u) /\ new # NoConfig
  IN  /\ config' = c1
      /\ keySeen' = (keySeen \/ key)
      /\ health' = CASE key -> "healthy"
                     [] codec_config(c1) = NoConfig -> "waiting_config"
                     [] ~keySeen -> "waiting_keyframe"
                     [] OTHER -> IF HasConfig(u) THEN "waiting_config" ELSE health
      /\ Enqueue([Packet(u, IF key THEN new ELSE NoConfig) EXCEPT
                    !.key = key, !.torn = torn, !.of = c1.used, !.disc = c1.gen # config.gen])

\* A NAL unit of mode "raw" arrives: an ill-formed or oversized one (type
\* "bad") takes the pending unit with it; at a boundary that is processed.
RawNal(n) ==
  /\ unit' = CASE n.type = "bad" -> <<>>
                [] Boundary(n) -> Appended(<<>>, n)
                [] OTHER -> Appended(unit, n)
  /\ torn' = (unit' = <<>> \/ (torn /\ (n.type # "pps" \/ Of("sps", unit', 0) = 0)))
  /\ IF n.type # "bad" /\ Boundary(n) THEN process_access_unit(unit)
     ELSE UNCHANGED <<config, health, keySeen, loopQueue>>

-----------------------------------------------------------------------------
\* _process_nal of mode "legacy": NAL units are published one by one.
LegacyNal(n) ==
  LET c == [config EXCEPT !.sps = IF n.type = "sps" THEN n.v ELSE @,
                          !.pps = IF n.type = "pps" THEN n.v ELSE @]
      first == n.type = "idr" /\ n.first
      key == first /\ codec_config(c) # NoConfig
  IN  /\ config' = c
      /\ keySeen' = (keySeen \/ key)
      /\ health' = IF n.type \in {"sps", "pps"} THEN "config" ELSE IF key THEN "healthy" ELSE health
      /\ Enqueue([Packet(<<n>>, IF key THEN codec_config(c) ELSE NoConfig) EXCEPT !.key = key])
      /\ UNCHANGED <<unit, torn>>

\* Faulty: after an incomplete configuration the last complete one stays.
ProtocolConfigKept(whole) ==
  /\ config' = [config EXCEPT !.packet = IF whole THEN <<encoder.v, encoder.v>> ELSE @]
  /\ health' = "config"
  /\ UNCHANGED <<unit, torn, keySeen, loopQueue>>
\* _process_packet of mode "protocol": a configuration packet that lacks its
\* SPS or PPS is worse than none; a key frame is preceded by the last one.
ProtocolConfig(whole) ==
  /\ config' = [config EXCEPT !.packet = IF whole THEN <<encoder.v, encoder.v>> ELSE NoConfig]
  /\ health' = "config"
  /\ UNCHANGED <<unit, torn, keySeen, loopQueue>>

ProtocolFrame(n) ==
  LET have == IF n.type = "idr" THEN codec_config(config) ELSE NoConfig
      key == have # NoConfig
      c == Adopt(config, have)
  IN  IF n.type = "bad"
      THEN health' = "invalid_h264" /\ UNCHANGED <<config, keySeen, loopQueue, unit, torn>>
      ELSE /\ config' = c
           /\ keySeen' = (keySeen \/ key)
           /\ health' = IF key THEN "healthy" ELSE health
           /\ Enqueue([Packet(<<n>>, have) EXCEPT !.key = key, !.of = c.used,
                                                    !.disc = c.gen # config.gen])
           /\ UNCHANGED <<unit, torn>>

-----------------------------------------------------------------------------
(***************************************************************************)
(* What the encoder sends: SPS and PPS in pairs, which change their        *)
(* version only before a key frame                                         *)
(***************************************************************************)
Slices == {[type |-> t, first |-> f, v |-> encoder.v] : t \in {"idr", "slice"}, f \in BOOLEAN}
Others == {[type |-> t, first |-> FALSE, v |-> 0] : t \in {"aud", "bad"}}
Pair(t) == [type |-> t, first |-> FALSE, v |-> encoder.v]

\* publish_video: the video thread has a NAL unit (or a packet).
publish_video ==
  /\ Len(loopQueue) < MaxLoopQueue
  /\ \/ /\ streamMode = "protocol"
        /\ \/ \E whole \in BOOLEAN : ProtocolConfig(whole) /\ encoder' = [encoder EXCEPT !.due = "idr"]
           \/ \E n \in Slices \cup Others :
                /\ encoder.due = "any" \/ (encoder.due = "idr" /\ n.type = "idr")
                /\ ProtocolFrame(n) /\ encoder' = [encoder EXCEPT !.due = "any"]
     \/ /\ streamMode # "protocol"
        /\ \E n \in Slices \cup Others \cup {Pair("sps"), Pair("pps")} :
             /\ CASE n.type = "sps" -> encoder.due # "pps"
                  [] n.type = "pps" -> encoder.due = "pps"
                  [] encoder.due = "idr" -> n.type = "idr" /\ n.first
                  [] OTHER -> encoder.due = "any"
             /\ encoder' = [encoder EXCEPT !.due = CASE n.type = "sps" -> "pps"
                                                      [] n.type = "pps" -> "idr"
                                                      [] OTHER -> "any"]
             /\ IF streamMode = "raw" THEN RawNal(n) ELSE LegacyNal(n)
  /\ UNCHANGED <<streamMode, sequence, latest>>

\* The encoder is about to send another configuration.
Reconfigure ==
  /\ encoder.due = "any"
  /\ \E v \in Versions : encoder' = [v |-> v, due |-> "sps"]
  /\ UNCHANGED <<streamMode, unit, torn, config, health, keySeen, loopQueue, sequence, latest>>

\* The parser throws away bytes that are no unit it can hold.
ParserResync ==
  /\ streamMode = "raw" /\ encoder.due = "any" /\ torn' = TRUE
  /\ UNCHANGED <<streamMode, encoder, unit, config, health, keySeen, loopQueue, sequence, latest>>

\* publish_access_unit and publish_nal on the event loop.  Sequence number and
\* configuration generation of the header are those of this moment.
publish ==
  /\ loopQueue # <<>>
  /\ loopQueue' = Tail(loopQueue)
  /\ sequence' = IF streamMode = "legacy" THEN sequence ELSE Bump(sequence)
  /\ latest' = IF Head(loopQueue).key THEN [Head(loopQueue) EXCEPT !.gen = config.gen] ELSE latest
  /\ UNCHANGED <<streamMode, encoder, unit, torn, config, health, keySeen>>

\* Faulty: the health of the last stream stays.
StartAnewKeepsHealth ==
  /\ streamMode' \in StreamModes /\ encoder' = [encoder EXCEPT !.due = "sps"]
  /\ unit' = <<>> /\ torn' = FALSE /\ config' = NothingKnown
  /\ keySeen' = FALSE /\ sequence' = 0 /\ latest' = NoPacket /\ loopQueue' = <<>>
  /\ UNCHANGED health
\* _reset_video_state: a stream starts with nothing known; the packets of the
\* last one are of a past generation and will not be published.
StartAnew ==
  /\ streamMode' \in StreamModes /\ encoder' = [encoder EXCEPT !.due = "sps"]
  /\ unit' = <<>> /\ torn' = FALSE /\ config' = NothingKnown
  /\ health' = "starting" /\ keySeen' = FALSE
  /\ sequence' = 0 /\ latest' = NoPacket
  /\ loopQueue' = <<>>

VideoNext == publish_video \/ Reconfigure \/ ParserResync \/ publish \/ StartAnew
VideoSpec == VideoInit /\ [][VideoNext]_videoVars

-----------------------------------------------------------------------------
(***************************************************************************)
(* Properties                                                              *)
(***************************************************************************)
\* The cached key frame lets a viewer begin: it carries a complete
\* configuration, and the one its slices were made with, unless the stream
\* lost some of it.
CachedDecodable ==
  latest.key /\ ~latest.torn => latest.has = <<latest.made, latest.made>>

\* A packet has the slices of one picture only; one without the beginning of
\* its picture is not taken for a key frame, whatever was lost.
OnePicture ==
  streamMode = "raw" => \A p \in {loopQueue[i] : i \in DOMAIN loopQueue} :
    /\ p.torn \/ (p.begins <= 1 /\ ~p.mixed)
    /\ p.key => p.begins >= 1

\* A stream is called healthy once a key frame with its configuration is on
\* its way, and last_keyframe_at is then set.
HealthyHasKey ==
  health = "healthy" =>
    /\ keySeen
    /\ latest.key \/ \E i \in DOMAIN loopQueue : loopQueue[i].key

\* With a cached key frame the sequence number is not 0, which viewers take
\* for "none yet" in their comparisons: not at first and not after a wrap.
SequenceNeverZero ==
  latest.key /\ streamMode # "legacy" => sequence # 0

\* What the viewers are given can be decoded, and is numbered.
PacketsDecodable == CachedDecodable /\ OnePicture /\ HealthyHasKey /\ SequenceNeverZero
=============================================================================
