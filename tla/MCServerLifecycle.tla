-------------------------- MODULE MCServerLifecycle --------------------------
(***************************************************************************)
(* A small process for TLC: two client connections; two database           *)
(* connections, the first with max_open_conns: 1, the second failing.      *)
(***************************************************************************)
EXTENDS ServerLifecycle, TLC

CONSTANTS k1, k2

Listing == {[op |-> "list", conn |-> 0, arg |-> "none"],
            [op |-> "exec", conn |-> 1, arg |-> "exec"]}
Only1 == {1}
Only2 == {2}
NoConn == {}
TwoLimits == <<1, 0>>
=============================================================================
