------------------------------ MODULE MCFaultFeed ------------------------------
(* FaultFeed with one motor and the bus: every event concerns one of them. *)
EXTENDS FaultFeed

OneMotor == <<"drive_FL">>
OneFault == {"comm_loss"}

===============================================================================
