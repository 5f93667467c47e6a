----------------------------- MODULE MCRepairLoop -----------------------------
(***************************************************************************)
(* RepairLoop for TLC: the planner and two workers share one permit, so     *)
(* that one waits while another fails its way through the providers; two    *)
(* attempts and two invocations, so that each meets what the one before it  *)
(* left behind; the times of the scripts in units of five seconds.          *)
(***************************************************************************)
EXTENDS RepairLoop

CONSTANTS plan, w1, w2, single

MCWorkers        == {w1, w2}
MCPermits        == 1
MCAttempts       == 3
MCMaxAttempts    == 2
MCSafetyTime     == 5
MCHoldTime       == 2
MCBotTime        == 7
MCLoadingTime    == 1
MCPipeRoom       == 1
MCMaxInvocations == 2
===============================================================================
