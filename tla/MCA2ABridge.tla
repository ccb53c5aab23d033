----------------------------- MODULE MCA2ABridge -----------------------------
(***************************************************************************)
(* Constants of the bridge's run: a local task 1 and a parked node 2.      *)
(***************************************************************************)
EXTENDS A2ABridge

Nothing == [add |-> {}, connect |-> {}, cancel |-> {}, wait |-> {}, resume |-> {},
            finish |-> FALSE]

BridgePatches ==
  {Nothing,
   [Nothing EXCEPT !.add = {1, 2}, !.wait = {2}],
   [Nothing EXCEPT !.finish = TRUE]}

ASSUME MenuParks == PlannersPark
=============================================================================
