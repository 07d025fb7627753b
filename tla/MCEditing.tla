------------------------------- MODULE MCEditing -------------------------------
(***************************************************************************)
(* Editing with the packages of MCEditorKernel and two users.              *)
(***************************************************************************)
EXTENDS Editing, MCEditorKernel

\* Users that have anything at stake in the window or its browser.
Involved ==
  {u \in Users : slots[u] # Absent \/ u \in {session, cookie, author}}
    \cup (IF lease = Absent THEN {} ELSE {lease.owner})

UnderWay == {i \in Slots : saves[i] # Absent}

Restoring == {i \in UnderWay : saves[i].restores}

\* The more users and requests, the fewer contents and versions.
Explored ==
  made + server.version + Cardinality(Involved)
    + Cardinality(UnderWay) + Cardinality(Restoring) <= 6

UserSymmetry == Permutations(Users)
================================================================================
