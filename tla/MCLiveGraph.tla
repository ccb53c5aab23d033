----------------------------- MODULE MCLiveGraph -----------------------------
(***************************************************************************)
(* Constants of the LiveGraph runs: tasks and menus of patches that start  *)
(* two tasks, grow the plan, fan in, cancel, park, wake and finish, each   *)
(* patch being refused in some graphs.                                     *)
(***************************************************************************)
EXTENDS LiveGraph

Empty == [add |-> {}, connect |-> {}, cancel |-> {}, wait |-> {}, resume |-> {},
          finish |-> FALSE]

(* Two workers and four tasks: an outcome may make more tasks ready than   *)
(* there are slots free, and a later outcome may wake or end a parked task.*)
CrashTasks == 1..4

CrashPatches ==
  {Empty,
   [Empty EXCEPT !.add = {1, 2}],
   [Empty EXCEPT !.add = {3, 4}, !.connect = {<<1, 3>>}],
   [Empty EXCEPT !.add = {3}, !.wait = {3}],
   [Empty EXCEPT !.resume = {3}],
   [Empty EXCEPT !.cancel = {2}],
   [Empty EXCEPT !.finish = TRUE]}

(* The decisions of two racing executors, with fewer tasks and none parked.*)
RaceTasks == 1..3

RacePatches ==
  {Empty,
   [Empty EXCEPT !.add = {1, 2}],
   [Empty EXCEPT !.add = {3}, !.connect = {<<1, 3>>}, !.cancel = {2}],
   [Empty EXCEPT !.finish = TRUE]}
=============================================================================
