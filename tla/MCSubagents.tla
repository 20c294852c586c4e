---------------------------- MODULE MCSubagents ----------------------------
(* Instance of Subagents for TLC; the cfg file gives the constants.        *)
EXTENDS Subagents

\* Two of the bounded events in a behaviour, and at most one in a behaviour
\* with a follow-up.  (Only these events and the follow-up are held back.)
Events == spent.interrupt + spent.crash + spent.stall + spent.fail
Budget == Events <= (IF desc.gen > 1 THEN 1 ELSE 2)

MCSpec == Init /\ [][Next /\ Budget']_vars /\ Fairness
=============================================================================
