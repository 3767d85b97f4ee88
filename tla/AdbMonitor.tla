------------------------------ MODULE AdbMonitor ------------------------------
(***************************************************************************)
(* The status of one device: AdbDeviceMonitor of app/adb_monitor.py, with  *)
(* the routes of app/routers/admin_access.py that change or delete the     *)
(* device meanwhile.                                                       *)
(*                                                                         *)
(* A step is what runs between two awaits.  Reads of the database and adb  *)
(* happen in threads: what they found may be old when it is used.          *)
(***************************************************************************)
EXTENDS Naturals, FiniteSets

CONSTANTS
  AdbRoutes,   \* administrators' requests at a time
  AdbAddresses,\* addresses the device may be given
  MaxAdbEdits  \* bound: changes

ASSUME AdbAssumption ==
  /\ MaxAdbEdits \in Nat /\ AdbAddresses # {}
  /\ IsFiniteSet(AdbRoutes) /\ {"heartbeat", "nobody"} \cap AdbRoutes = {}

VARIABLES
  adb_row,     \* the row in devices
  adb_status,  \* _statuses
  generation,  \* _generations
  retired,     \* _retired_devices
  device_lock, \* _device_locks: which lock object, 0: none
  lock_holder, \* who holds each lock object
  adb_op,      \* the calls of ensure_connected
  adb_route,   \* the administrators' requests
  adb_edits

adbVars == <<adb_row, adb_status, generation, retired, device_lock, lock_holder, adb_op, adb_route, adb_edits>>

AdbOps == AdbRoutes \cup {"heartbeat"}
LockObjects == 1..(Cardinality(AdbOps) + 1)
NoStatus == [state |-> "none", address |-> "none"]
NoRow == [exists |-> FALSE, enabled |-> FALSE, address |-> "none"]
NoOp == [pc |-> "idle", lock |-> 0, force |-> FALSE, generation |-> 0, row |-> NoRow, result |-> "none"]
Active(o) == adb_op[o].pc # "idle"
\* _operation_counts is the number of these.
Others(o) == {q \in AdbOps \ {o} : Active(q)}

AdbInit ==
  /\ adb_row \in [exists : {TRUE}, enabled : {TRUE}, address : AdbAddresses]
  /\ adb_status = NoStatus /\ generation = 0 /\ retired = FALSE
  /\ device_lock = 0 /\ lock_holder = [l \in LockObjects |-> "nobody"]
  /\ adb_op = [o \in AdbOps |-> NoOp] /\ adb_route = [r \in AdbRoutes |-> "idle"]
  /\ adb_edits = 0

\* What the rest of the program sees of a device: _statuses, _generations,
\* _retired_devices and _device_locks.
Entry(s, g, r, l) == adb_status' = s /\ generation' = g /\ retired' = r /\ device_lock' = l
KeepEntry == UNCHANGED <<adb_status, generation, retired, device_lock>>

\* _end_operation: the last call of a device that was deleted drops its entry,
\* by _cleanup_retired_device, if the lock is still the one of this call.
EndOperation(o, status) ==
  /\ adb_op' = [adb_op EXCEPT ![o] = NoOp]
  /\ lock_holder' = [l \in LockObjects |-> IF lock_holder[l] = o THEN "nobody" ELSE lock_holder[l]]
  /\ IF retired /\ Others(o) = {} /\ device_lock = adb_op[o].lock
     THEN Entry(NoStatus, 0, FALSE, 0)
     ELSE Entry(status, generation, retired, device_lock)

\* forget_device; without calls the entry goes at once.
Forget ==
  IF \E o \in AdbOps : Active(o) THEN Entry(NoStatus, generation + 1, TRUE, device_lock)
  ELSE Entry(NoStatus, 0, FALSE, 0)

Invalidate == Entry(NoStatus, generation + 1, retired, device_lock)

-----------------------------------------------------------------------------
(* ensure_connected. *)

\* _begin_operation: the lock of the device, or a new one.
BeginOperation(o, force) ==
  LET lock == IF device_lock # 0 THEN device_lock
              ELSE CHOOSE l \in LockObjects : \A q \in AdbOps : Active(q) => adb_op[q].lock # l
  IN /\ ~Active(o)
     /\ adb_op' = [adb_op EXCEPT ![o] =
          [NoOp EXCEPT !.pc = "waiting", !.lock = lock, !.force = force]]
     /\ Entry(adb_status, generation, retired, lock)
     /\ UNCHANGED lock_holder

\* Variant: a caller does not wait for the probe of another.
EnteredAnyway(o) == adb_op[o].pc = "waiting"
Entered(o) == adb_op[o].pc = "waiting" /\ lock_holder[adb_op[o].lock] = "nobody"

Enter(o) ==
  /\ Entered(o)
  /\ IF retired THEN EndOperation(o, adb_status)
     ELSE /\ lock_holder' = [lock_holder EXCEPT ![adb_op[o].lock] = o]
          /\ adb_op' = [adb_op EXCEPT ![o].pc = "reading", ![o].generation = generation]
          /\ KeepEntry
  /\ UNCHANGED <<adb_row, adb_route, adb_edits>>

\* storage.get_device, in a thread
ReadRow(o) ==
  /\ adb_op[o].pc = "reading"
  /\ adb_op' = [adb_op EXCEPT ![o].pc = "read", ![o].row = adb_row]
  /\ UNCHANGED <<adb_row, lock_holder, adb_route, adb_edits>> /\ KeepEntry

\* What the row says; "recent": a status of the last seconds is enough.
BeginProbe(o, recent) ==
  LET row == adb_op[o].row
      online == adb_status.state = "online"
  IN /\ adb_op[o].pc = "read"
     /\ IF ~row.exists \/ (row.enabled /\ recent /\ online /\ ~adb_op[o].force)
        THEN EndOperation(o, adb_status)
        ELSE IF ~row.enabled
        THEN EndOperation(o, [adb_status EXCEPT !.state = "disabled"])
        ELSE /\ adb_op' = [adb_op EXCEPT ![o].pc = "probing"]
             /\ Entry(IF adb_op[o].force \/ ~online THEN [adb_status EXCEPT !.state = "checking"]
                      ELSE adb_status, generation, retired, device_lock)
             /\ UNCHANGED lock_holder
     /\ UNCHANGED <<adb_row, adb_route, adb_edits>>

\* _probe: a network device that cannot be reached is not asked; one that is
\* not connected is connected to, and asked again; the list of adb devices is
\* the last resort.
Label(state) == IF state = "device" THEN "online"
                ELSE IF state \in {"offline", "unauthorized"} THEN state ELSE "unknown"
ProbeResult(reachable, first, second, listed) ==
  LET asked == IF first # "device" THEN second ELSE first
      label == IF Label(asked) = "unknown" THEN Label(listed) ELSE Label(asked)
  IN IF ~reachable THEN "network_unreachable" ELSE IF label = "unknown" THEN "offline" ELSE label
AdbStates == {"device", "offline", "unauthorized", ""}
\* ... a probe that fails otherwise is "unknown".
ProbeResults ==
  {ProbeResult(reachable, first, second, listed) :
     reachable \in BOOLEAN, first \in AdbStates, second \in AdbStates, listed \in AdbStates}
  \cup {"unknown"}

\* What was forgotten or changed during the probe is not stored ...
Probed(o, result) ==
  /\ adb_op[o].pc = "probing"
  /\ IF retired \/ adb_op[o].generation # generation THEN EndOperation(o, adb_status)
     ELSE /\ adb_op' = [adb_op EXCEPT ![o].pc = "confirming", ![o].result = result]
          /\ KeepEntry /\ UNCHANGED lock_holder
  /\ UNCHANGED <<adb_row, adb_route, adb_edits>>

Confirm(o) ==
  /\ adb_op[o].pc = "confirming"
  /\ adb_op' = [adb_op EXCEPT ![o].pc = IF adb_row.exists THEN "confirmed" ELSE "gone"]
  /\ UNCHANGED <<adb_row, lock_holder, adb_route, adb_edits>> /\ KeepEntry

\* ... but the row is looked up again after that.
Store(o) ==
  /\ adb_op[o].pc \in {"confirmed", "gone"}
  /\ EndOperation(o, IF adb_op[o].pc = "gone" THEN adb_status
                     ELSE [state |-> adb_op[o].result, address |-> adb_op[o].row.address])
  /\ UNCHANGED <<adb_row, adb_route, adb_edits>>

-----------------------------------------------------------------------------
(* Who calls it. *)

\* check_all of start and of the loop; the one of start is cancelled by its timeout.
Heartbeat == BeginOperation("heartbeat", FALSE) /\ UNCHANGED <<adb_row, adb_route, adb_edits>>
StartupTimeout ==
  /\ Active("heartbeat") /\ EndOperation("heartbeat", adb_status)
  /\ UNCHANGED <<adb_row, adb_route, adb_edits>>

\* admin_upsert_device and admin_delete_device; each has seen the row, maybe
\* before another request deleted it.
BeginEdit(r) ==
  /\ adb_route[r] = "idle" /\ adb_edits < MaxAdbEdits /\ adb_edits' = adb_edits + 1
  /\ adb_route' = [adb_route EXCEPT ![r] = "editing"] /\ Invalidate
  /\ UNCHANGED <<adb_row, lock_holder, adb_op>>

UpdateRow(r, address, enabled) ==
  /\ adb_route[r] = "editing"
  /\ adb_row' = IF adb_row.exists THEN [adb_row EXCEPT !.address = address, !.enabled = enabled] ELSE adb_row
  /\ adb_route' = [adb_route EXCEPT ![r] = IF adb_row.exists THEN "looking" ELSE "idle"]
  /\ UNCHANGED <<lock_holder, adb_op, adb_edits>> /\ KeepEntry

\* reconnect_device: also by admin_test_adb_device and admin_reconnect_adb_device
AskReconnect(r) ==
  /\ adb_route[r] = "idle" /\ ~Active(r)
  /\ adb_edits < MaxAdbEdits /\ adb_edits' = adb_edits + 1
  /\ adb_route' = [adb_route EXCEPT ![r] = "looking"]
  /\ UNCHANGED <<adb_row, lock_holder, adb_op>> /\ KeepEntry

Reconnect(r) ==
  /\ adb_route[r] = "looking"
  /\ IF adb_row.exists
     THEN BeginOperation(r, TRUE) /\ adb_route' = [adb_route EXCEPT ![r] = "connecting"]
     ELSE Forget /\ adb_route' = [adb_route EXCEPT ![r] = "idle"] /\ UNCHANGED <<adb_op, lock_holder>>
  /\ UNCHANGED <<adb_row, adb_edits>>

Reconnected(r) ==
  /\ adb_route[r] = "connecting" /\ ~Active(r) /\ adb_route' = [adb_route EXCEPT ![r] = "idle"]
  /\ UNCHANGED <<adb_row, lock_holder, adb_op, adb_edits>> /\ KeepEntry

BeginDelete(r) ==
  /\ adb_route[r] = "idle" /\ adb_edits < MaxAdbEdits /\ adb_edits' = adb_edits + 1
  /\ adb_route' = [adb_route EXCEPT ![r] = "deleting"] /\ Forget
  /\ UNCHANGED <<adb_row, lock_holder, adb_op>>

DeleteRow(r) ==
  /\ adb_route[r] = "deleting" /\ adb_row.exists /\ adb_row' = [adb_row EXCEPT !.exists = FALSE]
  /\ adb_route' = [adb_route EXCEPT ![r] = "idle"]
  /\ UNCHANGED <<lock_holder, adb_op, adb_edits>> /\ KeepEntry

\* restore_device, when the row could not be deleted, or was deleted already
RestoreDevice(r) ==
  /\ adb_route[r] = "deleting" /\ adb_route' = [adb_route EXCEPT ![r] = "idle"]
  /\ Entry(NoStatus, generation + 1, FALSE, device_lock)
  /\ UNCHANGED <<adb_row, lock_holder, adb_op, adb_edits>>

AdbNext ==
  \/ \E o \in AdbOps :
       \/ Enter(o) \/ ReadRow(o) \/ Confirm(o) \/ Store(o)
       \/ \E recent \in BOOLEAN : BeginProbe(o, recent)
       \/ \E result \in ProbeResults : Probed(o, result)
  \/ Heartbeat \/ StartupTimeout
  \/ \E r \in AdbRoutes :
       \/ BeginEdit(r) \/ AskReconnect(r) \/ Reconnect(r) \/ Reconnected(r)
       \/ BeginDelete(r) \/ DeleteRow(r) \/ RestoreDevice(r)
       \/ \E address \in AdbAddresses, enabled \in BOOLEAN : UpdateRow(r, address, enabled)

AdbSpec == AdbInit /\ [][AdbNext]_adbVars

-----------------------------------------------------------------------------
(* Properties. *)

\* A device is probed by one caller at a time, whatever became of its lock in
\* between; and once every request is done its status is that of the device as
\* it is now: of its address, and "disabled" only if it is.
AdbStatusCurrent ==
  /\ Cardinality({o \in AdbOps : adb_op[o].pc \notin {"idle", "waiting"}}) <= 1
  /\ (\A r \in AdbRoutes : adb_route[r] = "idle") /\ (\A o \in AdbOps : ~Active(o))
       /\ adb_row.exists /\ adb_status.state \notin {"none", "checking"}
     => /\ adb_row.enabled = (adb_status.state # "disabled")
        /\ adb_row.enabled => adb_status.address = adb_row.address
=============================================================================
