----------------------------- MODULE MCOpenEditor -----------------------------
EXTENDS OpenEditor, TLC

\* Users that have anything at stake in the window or its browser.
Involved ==
  {u \in Users : slots[u] # Absent \/ u \in {session, cookie, author}}
    \cup (IF lease = Absent THEN {} ELSE {lease.owner})

UnderWay == {i \in Slots : saves[i] # Absent}

\* The more users and requests, the fewer contents and versions.
Explored ==
  made + server.version + Cardinality(Involved) + Cardinality(UnderWay) <= 7

UserSymmetry == Permutations(Users)
=============================================================================
