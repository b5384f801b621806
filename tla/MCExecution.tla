------------------------------ MODULE MCExecution ------------------------------
(* Instances of the agent loop for TLC.                                    *)
EXTENDS AgentLoop

================================================================================
