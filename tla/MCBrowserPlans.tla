---- MODULE MCBrowserPlans ----
(***************************************************************************)
(* BrowserPlans with the bounds of MCBrowserSync and one plan to import.   *)
(***************************************************************************)
EXTENDS BrowserPlans, MCBrowserSync

CONSTANTS plan1

OnePlan == <<plan1>>

\* Of the import, what happens until an entry has been written three times; a
\* write of another counts twice, once as theirs. A catalogue entry is imported
\* by admins.
FewWrites ==
  /\ \A e \in Import!Entries :
       rows[Import!Own(e)].version + rows[Import!Copy(e)].version + others <= 3
  /\ user \in {Absent} \cup IF catalog = {} THEN Users ELSE ImportAdmins

Explored == (OwnRecordOnly \/ OneTab) /\ FewWrites
====
