---------------------------- MODULE MCAgentLoop ----------------------------
(* Small instances of AgentLoop and TokenLayer for TLC.                     *)
EXTENDS TokenLayer

AllFaults == FaultKinds
OnlyExecute == {"execute"}
EmptyOrTwo == {0, 2}
NoneOneAll == {0, 1, 3}
=============================================================================
