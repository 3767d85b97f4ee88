------------------------------ MODULE MCServices ------------------------------
(* The services around the mirror sessions for TLC, one at a time, with the   *)
(* queue of a viewer and scrcpy: "part" is chosen at the start, and the        *)
(* variables of the others stay as they are.                                   *)
EXTENDS Connections, LoginGuard, IpBans, GeoDatabase, ViewerQueue, AdbMonitor,
        ScrcpyTransport, ScrcpyDemuxer, AlasRelay, AlasPolicy, TLC

VARIABLE part

servicesVars ==
  <<part, connVars, guardVars, banVars, geoVars, viewerVars, adbVars, transportVars, demuxVars,
    relayVars, policyVars>>

\* One device and one address; the two sockets belong to two logins.
ConnSessionOf == [w \in Conns |-> IF w = "page" THEN "login2" ELSE "login1"]
ConnDeviceOf == [w \in Conns |-> "phone"]
ConnAddressOf == [w \in Conns |-> "home"]

ServicesInit ==
  /\ part \in {"conn", "guard", "bans", "geo", "viewer", "adb", "transport", "demuxer",
              "relay", "policy"}
  /\ ConnInit /\ GuardInit /\ BanInit /\ GeoInit /\ ViewerInit /\ AdbInit
  /\ TransportInit /\ DemuxInit /\ RelayInit /\ PolicyInit
  /\ part # "geo" => db_file = Missing
  /\ part # "viewer" => mode = "raw"
  /\ part # "adb" => adb_row.address = "old"
  /\ part # "demuxer" => device_stream = AnnexB
  /\ part # "relay" => filtered
  /\ rights = {"run"} /\ (part # "policy" => registry_capacity = 1)

Rest(p, vars) == IF part = p THEN TRUE ELSE UNCHANGED vars

\* Users are alike: the first of them is ann.
FirstIsAnn == attempt'[1].user # "bob"
\* Two transports at a time, one that starts and one that stops or starts;
\* they begin in the order of their numbers, as they are alike.
TwoAtATime ==
  /\ Cardinality({t \in Scrcpys : transport'[t].pc \notin {"new", "stopped"}}) <= 2
  /\ \A t, u \in Scrcpys : t < u /\ transport[t].pc = "new" => transport'[u].pc = "new"

ServicesNext ==
  /\ \/ part = "conn" /\ ConnNext
     \/ part = "guard" /\ GuardNext /\ FirstIsAnn
     \/ part = "bans" /\ BanNext
     \/ part = "geo" /\ GeoNext
     \/ part = "viewer" /\ ViewerNext
     \/ part = "adb" /\ AdbNext
     \/ part = "transport" /\ TransportNext /\ TwoAtATime
     \/ part = "demuxer" /\ DemuxNext
     \/ part = "relay" /\ RelayNext
     \/ part = "policy" /\ PolicyNext
  /\ Rest("conn", connVars) /\ Rest("guard", guardVars) /\ Rest("bans", banVars)
  /\ Rest("geo", geoVars) /\ Rest("viewer", viewerVars) /\ Rest("adb", adbVars)
  /\ Rest("transport", transportVars) /\ Rest("demuxer", demuxVars)
  /\ Rest("relay", relayVars) /\ Rest("policy", policyVars)
  /\ UNCHANGED part

ServicesSpec == ServicesInit /\ [][ServicesNext]_servicesVars
=============================================================================
