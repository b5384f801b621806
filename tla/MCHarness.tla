------------------------------- MODULE MCHarness -------------------------------
(* Instances of the harness's sessions for TLC.                            *)
EXTENDS HarnessSessions

OneSourceEach == [m \in Mode |-> {m}]

(* Everything is asked of the first session; the second, opened or forked, *)
(* is prompted and closed beside it.                                       *)
OneBusySession ==
  [s \in Session |-> IF s = 1 THEN {"prompt", "mode", "model", "load"} ELSE {"prompt"}]

================================================================================
