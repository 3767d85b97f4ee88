------------------------------ MODULE ViewerQueue ------------------------------
(***************************************************************************)
(* The bounded queue between a mirror session and one of its viewers:      *)
(* ClientSession of app/mirror_runtime.py, filled by the callbacks of the  *)
(* scrcpy reader, by restarts, record notices and administration, drained  *)
(* by the sender task of the video WebSocket.  They run on the event loop, *)
(* where a step is what happens between two awaits; only the requests of   *)
(* a recording push their notices from a worker thread.                    *)
(*                                                                         *)
(* A session lives through several transports, each with a generation;     *)
(* the viewer stays attached over a restart.                               *)
(***************************************************************************)
EXTENDS Integers, Sequences, FiniteSets

CONSTANTS
  QueueSize,        \* VIDEO_QUEUE_MAXSIZE
  ConfiguredSoft, \* VIDEO_QUEUE_SOFT_LIMIT
  MaxBytes,       \* VIDEO_QUEUE_MAX_BYTES
  Sizes,          \* payload sizes
  Wrap,           \* 2^32, the range of Raw v2 sequence numbers
  Modes,          \* stream modes: "raw", "legacy"
  MaxGen,         \* bound on generations
  MaxFrames,      \* bound on frames published
  MaxNotices      \* bound on notices pushed

ASSUME QueueAssumption ==
  /\ QueueSize \in Nat \ {0} /\ ConfiguredSoft \in Nat /\ MaxBytes \in Nat
  /\ Sizes \subseteq Nat \ {0}
  /\ Wrap \in Nat \ {0, 1}
  /\ Modes \subseteq {"raw", "legacy"}
  /\ {MaxGen, MaxFrames, MaxNotices} \subseteq Nat

VARIABLES
  c,          \* the ClientSession
  viewer,     \* "absent", "open" (in session.clients) or "closed"
  gen,        \* _video_generation
  live,       \* the generation of the last transport started
  stream,     \* "down", "running", "stopping" or "removed"
  start,      \* _start_locked, under the lifecycle lock: "none", "begin", "starting", "warming"
  restarting, \* the start under way is a restart
  mode,       \* effective_stream_mode
  seq,        \* _raw_frame_sequence
  cache,      \* the latest keyframe, _latest_raw_keyframe or _latest_legacy_keyframe
  notifier,   \* push_notice in a worker thread, between its steps
  frames, notices,   \* frames published, notices pushed
  shown,      \* history: generation and sequence of the last frame sent
  decoder,    \* history: generation of the last keyframe sent
  boundary    \* history: generation the viewer was last told of

session == <<gen, live, stream, start, restarting, mode, seq, cache>>
budget == <<frames, notices>>
request == <<notifier, budget>>
shownVars == <<shown, decoder, boundary>>
viewerVars == <<c, viewer, session, request, shownVars>>

Item == [kind: {"frame", "reset", "notice", "term", "end"},
         gen: Nat, seq: Nat, key: BOOLEAN, size: Nat]
Control(k, g) == [kind |-> k, gen |-> g, seq |-> 0, key |-> FALSE, size |-> 0]
Frame(g, s, k, z) == [kind |-> "frame", gen |-> g, seq |-> s, key |-> k, size |-> z]
None == Control("end", 0)

Idle == [pc |-> "idle", kept |-> <<>>, freed |-> 0, read |-> 0]
NewClient == [q |-> <<>>, bytes |-> 0, need |-> TRUE, last |-> 0, term |-> FALSE]

-----------------------------------------------------------------------------
(* ClientSession *)

\* int(maxsize * 0.75) when the configured limit does not fit the queue; 0 turns it off.
SoftLimit ==
  IF ConfiguredSoft = 0 THEN QueueSize
  ELSE IF ConfiguredSoft < QueueSize THEN ConfiguredSoft
  ELSE IF (QueueSize * 3) \div 4 > 1 THEN (QueueSize * 3) \div 4 ELSE 1

\* The bytes of the first n entries.
BytesUpTo(s) ==
  LET sum[n \in 0..Len(s)] == IF n = 0 THEN 0 ELSE sum[n - 1] + s[n].size IN sum
Bytes(s) == BytesUpTo(s)[Len(s)]
Less(a, b) == IF a > b THEN a - b ELSE 0
Full(d) == Len(d.q) >= QueueSize

\* Faulty: notices go with the frames.
KeptNoNotice(x) == x.kind \in {"term", "end"}
\* Faulty: a termination goes with the frames.
KeptNoTermination(x) == x.kind \in {"notice", "end"}
Kept(x) == x.kind \in {"notice", "term", "end"}

\* The messages among the first n entries, in their order.
KeptUpTo(s) ==
  LET kept[n \in 0..Len(s)] ==
        IF n = 0 THEN <<>> ELSE IF Kept(s[n]) THEN Append(kept[n - 1], s[n]) ELSE kept[n - 1]
  IN  kept
KeptOf(s) == KeptUpTo(s)[Len(s)]

\* Faulty: the bytes of the dropped frames stay counted.
ClearKeepsBytes(d) == [d EXCEPT !.q = KeptOf(@)]
\* clear_queue; a reset goes with the frames.
Clear(d) == [d EXCEPT !.q = KeptOf(@), !.bytes = Less(@, Bytes(d.q))]

Put(d, x) == [d EXCEPT !.q = Append(@, x), !.bytes = @ + x.size]
Await(d) == [d EXCEPT !.need = TRUE]
\* put_nowait after clear_queue, QueueFull ignored.
PutAfterClear(d, x) == LET e == Clear(d) IN IF Full(e) THEN e ELSE Put(e, x)

\* Faulty: frames are still accepted after the termination.
AcceptsTerminated(d, p) == d.need => p.key
AcceptsPacket(d, p) == ~d.term /\ (d.need => p.key)
Overflows(d, p) == Len(d.q) >= SoftLimit \/ d.bytes + p.size > MaxBytes
\* Faulty: an overflow does not wait for a keyframe.
MakeRoomUngated(d, p) == IF Overflows(d, p) THEN Clear(d) ELSE d
MakeRoom(d, p) == IF Overflows(d, p) THEN Await(Clear(d)) ELSE d

\* _push_payload: whether the frame counts as dropped, and the client after it.
Drops(d, p) ==
  /\ AcceptsPacket(d, p)
  /\ \/ p.size > MaxBytes
     \/ Overflows(d, p) /\ ~p.key
     \/ Full(MakeRoom(d, p))
Push(d, p) ==
  IF ~AcceptsPacket(d, p) THEN d
  ELSE IF p.size > MaxBytes THEN Await(d)
  ELSE LET e == MakeRoom(d, p)
       IN  IF Overflows(d, p) /\ ~p.key THEN e
           ELSE IF Full(e) THEN Await(Clear(e))
           ELSE [Put(e, p) EXCEPT !.need = @ /\ ~p.key]

\* _raw_sequence_is_newer; a client that was sent no Raw v2 packet has last = 0.
Newer(s, last) == last = 0 \/ (s - last) % Wrap \in 1..((Wrap \div 2) - 1)

\* recover_with_raw_keyframe, recover_with_legacy_keyframe.
Recovers(d, k) == ~d.term /\ d.need /\ (mode = "raw" => Newer(k.seq, d.last))
Recover(d, k) == IF k # None /\ Recovers(d, k) THEN Push(Await(Clear(d)), k) ELSE d

Terminate(d) == IF d.term THEN d ELSE PutAfterClear([d EXCEPT !.term = TRUE], Control("term", 0))

\* Faulty: what is queued of the old stream stays.
PushResetOnly(d, g) ==
  IF d.term THEN d ELSE IF Full(d) THEN Await(d) ELSE Put(Await(d), Control("reset", g))
PushReset(d, g) == IF d.term THEN d ELSE PutAfterClear(Await(d), Control("reset", g))

\* push_notice; clearing a full queue for it does not ask for a keyframe.
PushNotice(d) ==
  IF d.term THEN d
  ELSE IF Full(d) THEN PutAfterClear(d, Control("notice", 0)) ELSE Put(d, Control("notice", 0))

\* prime_client: a viewer that joins, resets its player or outlives a restart.
Prime(d, keep) ==
  LET e == Await(IF keep THEN d ELSE Clear(d)) IN IF cache = None THEN e ELSE Push(e, cache)

-----------------------------------------------------------------------------
(* The session's transports *)

OnViewer(d) == c' = IF viewer = "open" THEN d ELSE c

\* _start_locked of a running session gives up the old transport.
StopForRestart ==
  /\ stream = "running" /\ start = "none" /\ gen < MaxGen
  /\ gen' = gen + 1
  /\ stream' = "down" /\ start' = "begin" /\ restarting' = TRUE
  /\ UNCHANGED <<c, viewer, live, mode, seq, cache, request, shownVars>>

\* _reset_video_state, and the start handed to a thread; push_stream_reset raises when
\* the queue is full of control messages, and the start is abandoned.
ResetVideoState(m) ==
  /\ stream = "down" /\ start \in {"none", "begin"} /\ gen < MaxGen
  /\ gen' = gen + 1 /\ live' = gen + 1
  /\ mode' = m /\ seq' = 0 /\ cache' = None
  /\ OnViewer(PushReset(c, gen + 1))
  /\ IF viewer = "open" /\ ~c.term /\ Full(Clear(c))
     THEN start' = "none" /\ restarting' = FALSE
     ELSE start' = "starting" /\ restarting' \in {TRUE, restarting}
  /\ UNCHANGED <<viewer, stream, request, shownVars>>

\* The thread has published its transport and the generation is still its own.
Started ==
  /\ start = "starting" /\ live = gen
  /\ stream' = "running" /\ start' = "warming"
  /\ UNCHANGED <<c, viewer, gen, live, restarting, mode, seq, cache, request, shownVars>>

\* The end of _start_locked, awaits after Started; a restart primes the viewers again
\* (_reprime_clients_after_restart), unless the request was cancelled meanwhile.
StartReturns ==
  /\ start = "warming"
  /\ start' = "none" /\ restarting' = FALSE
  /\ \/ restarting /\ OnViewer(Prime(c, TRUE))
     \/ UNCHANGED c
  /\ UNCHANGED <<viewer, gen, live, stream, mode, seq, cache, request, shownVars>>

\* A start that fails, or whose transport was closed; a failed quality change then ends
\* the viewers (_terminate_video_clients), a failed rotation restart does not.
StartFailed ==
  /\ start \in {"begin", "starting", "warming"} /\ stream = "down"
  /\ start' = "none" /\ restarting' = FALSE
  /\ \/ restarting /\ OnViewer(PutAfterClear(c, None))
     \/ UNCHANGED c
  /\ UNCHANGED <<viewer, gen, live, stream, mode, seq, cache, request, shownVars>>

\* _cleanup_cancelled_start
StartCancelled ==
  /\ start \in {"starting", "warming"} /\ gen < MaxGen
  /\ gen' = gen + 1
  /\ stream' = "down" /\ start' = "none" /\ restarting' = FALSE
  /\ UNCHANGED <<c, viewer, live, mode, seq, cache, request, shownVars>>

\* _handle_stream_transport_closed of the current transport.
TransportClosed ==
  /\ stream = "running" \/ start = "starting"
  /\ live = gen /\ gen < MaxGen
  /\ gen' = gen + 1
  /\ stream' = "down"
  /\ OnViewer(PutAfterClear(Await(c), None))
  /\ UNCHANGED <<viewer, live, start, restarting, mode, seq, cache, request, shownVars>>

\* stop: a participant of a recording is told first (_cancel_record_session), then
\* _stop_locked moves the generation; viewers are ended when scrcpy is down.
StopStream ==
  /\ stream \in {"running", "down"} /\ start = "none" /\ gen < MaxGen
  /\ gen' = gen + 1 /\ stream' = "stopping"
  /\ \/ notices < MaxNotices /\ notices' = notices + 1 /\ OnViewer(PushNotice(c))
     \/ UNCHANGED <<c, notices>>
  /\ UNCHANGED <<viewer, live, start, restarting, mode, seq, cache, notifier, frames, shownVars>>

Stopped(d) == Await(Terminate(d))

\* scrcpy_stop may raise; then the viewers are not told.
StreamStopped ==
  /\ stream = "stopping"
  /\ stream' = "down"
  /\ OnViewer(Stopped(c)) \/ UNCHANGED c
  /\ UNCHANGED <<viewer, gen, live, start, restarting, mode, seq, cache, request, shownVars>>

\* remove_device and a failed reconfigure_device end the stop with _terminate_video_clients.
Removed ==
  /\ stream = "stopping"
  /\ stream' = "removed"
  /\ OnViewer(PutAfterClear(Stopped(c), None)) \/ OnViewer(PutAfterClear(c, None))
  /\ UNCHANGED <<viewer, gen, live, start, restarting, mode, seq, cache, request, shownVars>>

NextSeq == IF (seq + 1) % Wrap = 0 THEN 1 ELSE (seq + 1) % Wrap

\* publish_access_unit and publish_nal: a frame of the last transport, if it is current.
Publish(key, size) ==
  /\ frames < MaxFrames
  /\ live > 0 /\ live = gen
  /\ frames' = frames + 1
  /\ seq' = IF mode = "raw" THEN NextSeq ELSE seq
  /\ LET p == Frame(live, seq', key, size)
     IN  /\ cache' = IF key THEN p ELSE cache
         /\ OnViewer(IF Drops(c, p) THEN Recover(Push(c, p), cache') ELSE Push(c, p))
  /\ UNCHANGED <<viewer, gen, live, stream, start, restarting, mode, notifier, notices, shownVars>>

-----------------------------------------------------------------------------
(* The viewer *)

Attach ==
  /\ viewer = "absent" /\ stream = "running"
  /\ viewer' = "open"
  /\ c' = Prime(NewClient, FALSE)
  /\ boundary' = live
  /\ UNCHANGED <<session, request, shown, decoder>>

PlayerReset ==
  /\ viewer = "open"
  /\ c' = Prime(c, FALSE)
  /\ UNCHANGED <<viewer, session, request, shownVars>>

\* A notice pushed on the event loop: a participant joins or leaves.
Notice ==
  /\ viewer = "open" /\ notices < MaxNotices
  /\ notices' = notices + 1
  /\ c' = PushNotice(c)
  /\ UNCHANGED <<viewer, session, notifier, frames, shownVars>>

\* A notice pushed by a request of the recording, in a worker thread: PushNotice in the
\* steps between which the event loop may run.  clear_queue empties a full queue ...
ThreadNotice ==
  /\ viewer = "open" /\ notices < MaxNotices /\ notifier.pc = "idle"
  /\ notices' = notices + 1
  /\ IF ~c.term /\ Full(c)
     THEN /\ c' = [c EXCEPT !.q = <<>>]
          /\ notifier' = [pc |-> "drained", kept |-> KeptOf(c.q),
                          freed |-> Bytes(c.q), read |-> 0]
     ELSE c' = PushNotice(c) /\ UNCHANGED notifier
  /\ UNCHANGED <<viewer, session, frames, shownVars>>

\* ... reads queue_bytes ...
ThreadReads ==
  /\ notifier.pc = "drained"
  /\ notifier' = [notifier EXCEPT !.pc = "counted", !.read = c.bytes]
  /\ UNCHANGED <<c, viewer, session, budget, shownVars>>

\* ... writes it back ...
ThreadWrites ==
  /\ notifier.pc = "counted"
  /\ c' = [c EXCEPT !.bytes = Less(notifier.read, notifier.freed)]
  /\ notifier' = [notifier EXCEPT !.pc = "written"]
  /\ UNCHANGED <<viewer, session, budget, shownVars>>

\* ... and puts back, as far as they fit, the messages it kept and then the notice.
ThreadRestores ==
  /\ notifier.pc = "written"
  /\ LET back == Append(notifier.kept, Control("notice", 0))
         room == Less(QueueSize, Len(c.q))
     IN  c' = [c EXCEPT !.q = @ \o SubSeq(back, 1, IF Len(back) < room THEN Len(back) ELSE room)]
  /\ notifier' = Idle
  /\ UNCHANGED <<viewer, session, budget, shownVars>>

\* disconnect_client, disconnect_client_for_user.
DisconnectViewer ==
  /\ viewer = "open"
  /\ c' = Terminate(c)
  /\ UNCHANGED <<viewer, session, request, shownVars>>

\* The sender takes the next item (get_frame) and sends it, or closes.
Send ==
  /\ viewer = "open" /\ c.q # <<>>
  /\ LET x == Head(c.q)
         frame == x.kind = "frame"
     IN  /\ c' = [c EXCEPT !.q = Tail(@), !.bytes = Less(@, x.size),
                           !.last = IF frame /\ x.seq > 0 THEN x.seq ELSE @]
         /\ viewer' = IF x.kind \in {"term", "end"} THEN "closed" ELSE "open"
         /\ shown' = IF frame THEN <<x.gen, x.seq>> ELSE shown
         /\ decoder' = IF frame /\ x.key THEN x.gen ELSE decoder
         /\ boundary' = IF x.kind = "reset" THEN x.gen ELSE boundary
  /\ UNCHANGED <<session, request>>

\* The browser goes away, or a send fails or times out.
Leave ==
  /\ viewer = "open"
  /\ viewer' = "closed"
  /\ UNCHANGED <<c, session, request, shownVars>>

-----------------------------------------------------------------------------
ViewerInit ==
  /\ c = NewClient /\ viewer = "absent"
  /\ gen = 0 /\ live = 0 /\ stream = "down" /\ start = "none" /\ restarting = FALSE
  /\ mode \in Modes /\ seq = 0 /\ cache = None
  /\ notifier = Idle /\ frames = 0 /\ notices = 0
  /\ shown = <<0, 0>> /\ decoder = 0 /\ boundary = 0

\* The story of one viewer: it ends when its socket is closed.
ViewerNext ==
  /\ viewer # "closed"
  /\ \/ StopForRestart \/ Started \/ StartReturns \/ StartFailed \/ StartCancelled
     \/ TransportClosed
     \/ StopStream \/ StreamStopped \/ Removed
     \/ \E m \in Modes : ResetVideoState(m)
     \/ \E key \in BOOLEAN, size \in Sizes : Publish(key, size)
     \/ Attach \/ PlayerReset \/ Notice \/ ThreadNotice \/ ThreadReads \/ ThreadWrites \/ ThreadRestores
     \/ DisconnectViewer \/ Send \/ Leave

ViewerSpec == ViewerInit /\ [][ViewerNext]_viewerVars

\* The sender task runs while there is something to send; a send ends or times out.
ViewerFairSpec == ViewerSpec /\ WF_viewerVars(Send)

-----------------------------------------------------------------------------
(* Properties *)

Open == viewer = "open"
Queued(kinds) == {i \in DOMAIN c.q : c.q[i].kind \in kinds}
\* The queued frames that will be sent: those ahead of an end.
Due == {i \in Queued({"frame"}) : \A k \in 1..(i - 1) : c.q[k].kind \notin {"term", "end"}}

Messages == {"notice", "term", "end"}
Count(q, k) == Cardinality({i \in DOMAIN q : q[i].kind = k})

\* Every variable keeps its type; the queue and its byte count keep their limits.
ViewerTypeOK ==
  /\ c.q \in Seq(Item) /\ Len(c.q) <= QueueSize
  /\ c.bytes \in 0..MaxBytes /\ c.last \in Nat
  /\ {c.need, c.term, restarting} \subseteq BOOLEAN
  /\ viewer \in {"absent", "open", "closed"}
  /\ {gen, live, seq, frames, notices, decoder, boundary} \subseteq Nat
  /\ stream \in {"down", "running", "stopping", "removed"}
  /\ start \in {"none", "begin", "starting", "warming"}
  /\ notifier.pc \in {"idle", "drained", "counted", "written"}
  /\ notifier.kept \in Seq(Item) /\ {notifier.freed, notifier.read} \subseteq Nat
  /\ mode \in Modes /\ cache \in Item /\ shown \in Nat \X Nat

\* queue_bytes is the number of bytes queued, whatever is pushed, cleared and sent: an
\* error would make the byte limit drop frames for ever, or never.
BytesExact == c.bytes = Bytes(c.q)

\* A frame that is not a keyframe reaches the viewer only after a keyframe of its stream.
Decodable ==
  Open => \A i \in Due : ~c.q[i].key =>
    decoder = c.q[i].gen \/ \E k \in 1..(i - 1) : c.q[k].key /\ c.q[k].gen = c.q[i].gen

\* No frame of an older transport is queued, over restarts, failures and late callbacks.
FramesCurrent == \A i \in Queued({"frame"}) : c.q[i].gen = live

\* "no further frames are accepted": after the termination only messages are queued.
TerminatedQuiet == c.term => Queued({"frame", "reset"}) = {}

\* "both survive a clear": a notice or an end leaves the queue only by being sent,
\* whatever overflows, resets, recoveries and terminations clear it.
ControlKept ==
  [][Open => \/ c.q # <<>> /\ c'.q = Tail(c.q)
             \/ \A k \in Messages : Count(c'.q, k) >= Count(c.q, k)]_viewerVars

\* A viewer told to go away, or whose stream has ended, is closed.
ViewerEnds == (Open /\ Queued({"term", "end"}) # {}) ~> ~Open

\* "termination is queued": a terminated viewer is closed, or has its termination ahead.
TerminationQueued == Open /\ c.term => Queued({"term", "end"}) # {}

\* The viewer rebuilds its decoder at the reset of a restart: no frame of the new stream
\* reaches it before that.
BoundaryKept ==
  Open => \A i \in Due :
    boundary = c.q[i].gen
    \/ \E k \in 1..(i - 1) : c.q[k].kind = "reset" /\ c.q[k].gen = c.q[i].gen

\* "Replace a dropped client's queue with a newer decoder-ready packet": a frame that
\* does not fit leaves a viewer waiting only if every keyframe the session still has of
\* this stream was sent to it already.
RecoversFromCache ==
  [][(Open /\ ~c.term /\ ~c.need /\ frames' # frames
      /\ cache' # None /\ cache'.size <= MaxBytes
      /\ (shown[1] # cache'.gen \/ shown[2] < cache'.seq))
     => ~c'.need]_viewerVars

\* The byte count is exact, and every frame due can be decoded.
QueueSound == BytesExact /\ Decodable

\* Frames are of the transport that is there, and none follow a termination.
FramesFresh == FramesCurrent /\ TerminatedQuiet

\* Messages reach the viewer, and an end closes it.
MessagesArrive == ControlKept /\ ViewerEnds
=============================================================================
