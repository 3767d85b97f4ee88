-------------------------- MODULE ScrcpyTransport --------------------------
(***************************************************************************)
(* The transports of scrcpy.py: each starts in a thread of its own, gets a *)
(* local port that adb forwards to the device, connects to it, and removes *)
(* the forward when it stops.  A forward that could not be removed is an   *)
(* orphan, and the next starts try again.                                  *)
(*                                                                         *)
(* adb is external: a command fails, or times out and may have worked.     *)
(* The transports are all of one device: a new one starts while the old    *)
(* one, given up, still stops.                                             *)
(***************************************************************************)
EXTENDS Naturals, FiniteSets, FiniteSetsExt

CONSTANTS
  Scrcpys,         \* Scrcpy objects; each is started and stopped once
  Ports,           \* BASE_PORT and on
  MaxAdbFailures   \* bound: adb commands that fail or time out

ASSUME TransportAssumption == Ports \subseteq Nat \ {0} /\ MaxAdbFailures \in Nat

VARIABLES
  adb_forwards,   \* adb's table: the ports it listens on
  reserved_ports, \* _RESERVED_FORWARD_PORTS
  orphan_ports,   \* _ORPHAN_FORWARD_PORTS
  transport,      \* the transports
  adb_failures,
  overlapped      \* history: a port that was removed, or forgotten, had got a new owner

transportVars == <<adb_forwards, reserved_ports, orphan_ports, transport, adb_failures, overlapped>>

\* "port": the one reserved, and local_port from "connecting" on; "pending":
\* the orphans this start tries; "readers": the threads of a stream that may
\* still find that it ended; "notified": calls of stream_exit_callback.
NewTransport == [pc |-> "new", port |-> 0, pending |-> {}, tried |-> 0, stop |-> FALSE,
                 readers |-> {}, exit_notified |-> FALSE, notified |-> 0]

TransportInit ==
  /\ adb_forwards = {} /\ reserved_ports = {} /\ orphan_ports = {}
  /\ transport = [t \in Scrcpys |-> NewTransport]
  /\ adb_failures = 0 /\ overlapped = FALSE

Moves(t, from, to) == transport[t].pc = from /\ transport' = [transport EXCEPT ![t].pc = to]
NoFailure == UNCHANGED adb_failures
AdbFails == adb_failures < MaxAdbFailures /\ adb_failures' = adb_failures + 1

\* Scrcpys that have a port, or will still deal with it.
Holding == {"forwarding", "forwarded", "connecting", "live", "joining"}
Answerable == Holding \cup {"timed_out", "uncleaned"}

\* The port is another's by now ...
OtherHas(p, t) == \E u \in Scrcpys \ {t} : transport[u].pc \in Answerable /\ transport[u].port = p
\* ... or was, and its forward is there.
Reused(p, t) == p \in adb_forwards \/ OtherHas(p, t)

-----------------------------------------------------------------------------
(* scrcpy_start. *)

\* The device is not there, or the server cannot be pushed.
StartAborts(t) ==
  /\ Moves(t, "new", "stopped") /\ AdbFails
  /\ UNCHANGED <<adb_forwards, reserved_ports, orphan_ports, overlapped>>

\* _retry_orphan_forward_cleanup: a snapshot of the orphans ...
BeginRetry(t) ==
  /\ transport[t].pc = "new"
  /\ transport' = [transport EXCEPT ![t].pc = "retrying", ![t].pending = orphan_ports]
  /\ NoFailure /\ UNCHANGED <<adb_forwards, reserved_ports, orphan_ports, overlapped>>

\* ... each removed by _remove_adb_forward, or found to be absent ...
RetryRemoved(t, p) ==
  /\ transport[t].pc = "retrying" /\ p \in transport[t].pending
  /\ adb_forwards' = adb_forwards \ {p}
  /\ transport' = [transport EXCEPT ![t].pc = "forgetting", ![t].tried = p, ![t].pending = @ \ {p}]
  /\ overlapped' = (overlapped \/ p \notin orphan_ports \/ OtherHas(p, t))
  /\ NoFailure /\ UNCHANGED <<reserved_ports, orphan_ports>>
RetryFails(t, p, worked) ==
  /\ transport[t].pc = "retrying" /\ p \in transport[t].pending
  /\ adb_forwards' = IF worked THEN adb_forwards \ {p} ELSE adb_forwards
  /\ transport' = [transport EXCEPT ![t].pending = @ \ {p}]
  /\ overlapped' = (overlapped \/ p \notin orphan_ports \/ OtherHas(p, t))
  /\ AdbFails /\ UNCHANGED <<reserved_ports, orphan_ports>>

\* ... and forgotten, in a step of its own.
ForgetOrphan(t) ==
  /\ transport[t].pc = "forgetting"
  /\ orphan_ports' = orphan_ports \ {transport[t].tried}
  /\ transport' = [transport EXCEPT ![t].pc = "retrying", ![t].tried = 0]
  /\ overlapped' = (overlapped \/ Reused(transport[t].tried, t))
  /\ NoFailure /\ UNCHANGED <<adb_forwards, reserved_ports>>

\* Variant: only what the port table says.
FreePortsUnreserved == Ports \ (adb_forwards \cup orphan_ports)
\* find_available_port: not excluded, and nothing listens on it.
FreePorts == Ports \ (adb_forwards \cup orphan_ports \cup reserved_ports)

ReservePort(t) ==
  /\ transport[t].pc = "retrying" /\ transport[t].pending = {}
  /\ IF FreePorts = {} THEN Moves(t, "retrying", "stopped") /\ UNCHANGED reserved_ports
     ELSE LET p == Min(FreePorts)
          IN /\ reserved_ports' = reserved_ports \cup {p}
             /\ transport' = [transport EXCEPT ![t].pc = "forwarding", ![t].port = p]
  /\ NoFailure /\ UNCHANGED <<adb_forwards, orphan_ports, overlapped>>

ForwardOk(t) ==
  /\ Moves(t, "forwarding", "forwarded")
  /\ adb_forwards' = adb_forwards \cup {transport[t].port}
  /\ NoFailure /\ UNCHANGED <<reserved_ports, orphan_ports, overlapped>>
ForwardRefused(t) ==
  /\ Moves(t, "forwarding", "refused") /\ AdbFails
  /\ UNCHANGED <<adb_forwards, reserved_ports, orphan_ports, overlapped>>
ForwardTimeout(t, worked) ==
  /\ Moves(t, "forwarding", "timed_out") /\ AdbFails
  /\ adb_forwards' = IF worked THEN adb_forwards \cup {transport[t].port} ELSE adb_forwards
  /\ UNCHANGED <<reserved_ports, orphan_ports, overlapped>>

\* _remember_orphan_forward
Remember(t) ==
  /\ Moves(t, "timed_out", "refused")
  /\ orphan_ports' = orphan_ports \cup {transport[t].port}
  /\ NoFailure /\ UNCHANGED <<adb_forwards, reserved_ports, overlapped>>

\* finally: the port is not reserved any more.
Unreserve(t) ==
  /\ transport[t].pc \in {"forwarded", "refused"}
  /\ reserved_ports' = reserved_ports \ {transport[t].port}
  /\ transport' = [transport EXCEPT
       ![t].pc = IF transport[t].pc = "forwarded" THEN "connecting" ELSE "stopped",
       ![t].port = IF transport[t].pc = "forwarded" THEN @ ELSE 0]
  /\ NoFailure /\ UNCHANGED <<adb_forwards, orphan_ports, overlapped>>

\* Both sockets, by _connect_forward_socket; then the threads.
Connected(t) ==
  /\ transport[t].pc = "connecting" /\ transport[t].port \in adb_forwards
  /\ transport' = [transport EXCEPT ![t].pc = "live", ![t].readers = {"server", "video"}]
  /\ NoFailure /\ UNCHANGED <<adb_forwards, reserved_ports, orphan_ports, overlapped>>

-----------------------------------------------------------------------------
(* The end. *)

FirstToNotify(t) == ~transport[t].stop /\ ~transport[t].exit_notified

\* _notify_stream_exit of the server's thread, or of the video's
NotifyExit(t, reader) ==
  /\ transport[t].pc \in {"live", "joining"} /\ reader \in transport[t].readers
  /\ transport' = [transport EXCEPT
       ![t].readers = @ \ {reader},
       ![t].exit_notified = IF FirstToNotify(t) THEN TRUE ELSE @,
       ![t].notified = IF FirstToNotify(t) THEN @ + 1 ELSE @]
  /\ NoFailure /\ UNCHANGED <<adb_forwards, reserved_ports, orphan_ports, overlapped>>

\* scrcpy_stop, or the sockets could not be connected
BeginStopTransport(t) ==
  /\ transport[t].pc \in {"connecting", "live"}
  /\ transport' = [transport EXCEPT ![t].pc = "joining", ![t].stop = TRUE]
  /\ NoFailure /\ UNCHANGED <<adb_forwards, reserved_ports, orphan_ports, overlapped>>

\* cleanup_adb_forward, when the threads were joined or were given up
CleanForward(t) ==
  /\ transport[t].pc = "joining"
  /\ adb_forwards' = adb_forwards \ {transport[t].port}
  /\ transport' = [transport EXCEPT ![t].pc = "cleaned"]
  /\ NoFailure /\ UNCHANGED <<reserved_ports, orphan_ports, overlapped>>
Cleaned(t) ==
  /\ transport[t].pc = "cleaned"
  /\ orphan_ports' = orphan_ports \ {transport[t].port}
  /\ transport' = [transport EXCEPT ![t].pc = "stopped", ![t].port = 0]
  /\ overlapped' = (overlapped \/ (transport[t].port \in orphan_ports /\ Reused(transport[t].port, t)))
  /\ NoFailure /\ UNCHANGED <<adb_forwards, reserved_ports>>
CleanForwardFails(t, worked) ==
  /\ Moves(t, "joining", "uncleaned") /\ AdbFails
  /\ adb_forwards' = IF worked THEN adb_forwards \ {transport[t].port} ELSE adb_forwards
  /\ UNCHANGED <<reserved_ports, orphan_ports, overlapped>>

RememberUncleaned(t) ==
  /\ Moves(t, "uncleaned", "stopped")
  /\ orphan_ports' = orphan_ports \cup {transport[t].port}
  /\ overlapped' = (overlapped \/ OtherHas(transport[t].port, t))
  /\ NoFailure /\ UNCHANGED <<adb_forwards, reserved_ports>>

TransportNext == \E t \in Scrcpys :
  \/ StartAborts(t) \/ BeginRetry(t) \/ ForgetOrphan(t) \/ ReservePort(t)
  \/ ForwardOk(t) \/ ForwardRefused(t) \/ Remember(t) \/ Unreserve(t) \/ Connected(t)
  \/ BeginStopTransport(t) \/ CleanForward(t) \/ Cleaned(t) \/ RememberUncleaned(t)
  \/ \E p \in Ports : RetryRemoved(t, p)
  \/ \E p \in Ports, worked \in BOOLEAN : RetryFails(t, p, worked)
  \/ \E worked \in BOOLEAN : ForwardTimeout(t, worked) \/ CleanForwardFails(t, worked)
  \/ \E reader \in {"server", "video"} : NotifyExit(t, reader)

TransportSpec == TransportInit /\ [][TransportNext]_transportVars

-----------------------------------------------------------------------------
(* Properties. *)

\* Each transport has a port of its own, whose forward stays until it is
\* stopped, and every forward of adb is some transport's or an orphan that a
\* later start removes - unless an orphan that is removed or forgotten has been
\* dealt with by another start and its port used again meanwhile; and the end of
\* a stream is told once.
PortsKept ==
  /\ overlapped \/
       /\ \A t, u \in Scrcpys :
            t # u /\ {transport[t].pc, transport[u].pc} \subseteq Holding => transport[t].port # transport[u].port
       /\ \A t \in Scrcpys :
            transport[t].pc \in {"forwarded", "connecting", "live", "joining"} => transport[t].port \in adb_forwards
       /\ adb_forwards \subseteq orphan_ports \cup {transport[t].port : t \in {u \in Scrcpys : transport[u].pc \in Answerable}}
  /\ \A t \in Scrcpys : transport[t].notified <= 1
=============================================================================
