------------------------------- MODULE MCPilot -------------------------------
(* The commands of the instance of Pilot that TLC checks. *)
EXTENDS Pilot

Drive(g, s, a) == [gear |-> g, speed |-> s, accel |-> a]

MCDrives == {Drive("Drive", 0, -1)}
=============================================================================
