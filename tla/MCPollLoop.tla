----------------------------- MODULE MCPollLoop -----------------------------
(* PollLoop on small numbers for TLC. *)
EXTENDS PollLoop

(* Two messages that come back for ever fit the first timing and not the   *)
(* second, which is exactly at the limit with them.                        *)
MCTimings == {[vt |-> 3, poll |-> 1], [vt |-> 4, poll |-> 2]}
=============================================================================
