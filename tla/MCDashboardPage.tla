-------------------------- MODULE MCDashboardPage --------------------------
(* DashboardPage on small instances.  Tasks are interchangeable. *)
EXTENDS DashboardPage, TLC

IdSymmetry == Permutations(Ids)

(* Two history variables of the stream decide nothing here. *)
PageView == <<serverVars, pageVars, pushed, replay, conn, rx, snapshot>>

(* Without a reload, a page that was led astray stays so: RunningRecovers   *)
(* says nothing of it any more.                                             *)
Trusted ==
  /\ ~overwritten /\ ~misled /\ ~late_reply
  /\ gap => status_stage # "shown"
=============================================================================
