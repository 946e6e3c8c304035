----------------------------- MODULE MCServices -----------------------------
(* Three calls: commands, one of which wants a reply; or a command, an      *)
(* export of the settings and the end of the system.                        *)
EXTENDS Services, TLC

CONSTANTS ask, tell, last

MCCli == {ask, tell, last}

MCKinds ==
  {ask :> "cmdnRv" @@ tell :> "cmd" @@ last :> "cmd",
   ask :> "cmdnRv" @@ tell :> "export" @@ last :> "SYS_POWER_OFF"}
=============================================================================
