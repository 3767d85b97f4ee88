------------------------------- MODULE MCSession -------------------------------
(* A mirror session for TLC, one part at a time: its life, the guard of the  *)
(* tablet it mirrors, the bytes of its stream cut into NAL units, NAL units  *)
(* made packets, packets queued for a viewer, what pages are told of it.     *)
(* "part" is chosen at the start; the variables of the others do not change. *)
EXTENDS MirrorLifecycle, MirrorTargets, ViewerQueue, H264Payloads, VideoStream, EventBroadcast, TLC

CONSTANTS d1, d2, p1, p2, k1, k2, t1, t2

VARIABLE part

partVars == <<part, lifecycleVars, targetVars, viewerVars, h264Vars, videoVars, eventVars>>

PartInit ==
  /\ part \in {"lifecycle", "targets", "bytes", "video", "viewer", "events"}
  /\ LifecycleInit /\ TargetsInit /\ H264Init /\ VideoInit /\ ViewerInit /\ EventInit

Rest(p, vars) == IF part = p THEN TRUE ELSE UNCHANGED vars

PartNext ==
  /\ \/ part = "lifecycle" /\ LifecycleNext
     \/ part = "targets" /\ TargetsNext
     \/ part = "bytes" /\ H264Next
     \/ part = "video" /\ VideoNext
     \/ part = "viewer" /\ ViewerNext
     \/ part = "events" /\ EventNext
  /\ Rest("lifecycle", lifecycleVars) /\ Rest("targets", targetVars)
  /\ Rest("bytes", h264Vars) /\ Rest("video", videoVars)
  /\ Rest("viewer", viewerVars) /\ Rest("events", eventVars)
  /\ UNCHANGED part

PartSpec == PartInit /\ [][PartNext]_partVars

\* Devices are alike, and so are pages, coroutines and transports.  The parts
\* have no value in common, so that two pairs may be swapped at once.
BothSwaps(a, b, x, y) ==
  {(a :> a) @@ (b :> b) @@ (x :> x) @@ (y :> y), (a :> b) @@ (b :> a) @@ (x :> y) @@ (y :> x)}
PartSymmetry == {f @@ g : f \in BothSwaps(d1, d2, p1, p2), g \in BothSwaps(k1, k2, t1, t2)}
=============================================================================
