----------------------------- MODULE MCSessionKick -----------------------------
(* Connections for TLC, alone: two sockets of one account in two logins.     *)
EXTENDS Connections

ConnSessionOf == [w \in Conns |-> IF w = "page" THEN "login2" ELSE "login1"]
ConnDeviceOf == [w \in Conns |-> "phone"]
ConnAddressOf == [w \in Conns |-> "home"]
=============================================================================
