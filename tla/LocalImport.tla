---------------------------- MODULE LocalImport ----------------------------
(***************************************************************************)
(* The import of a browser's local plans and catalogue entries into the    *)
(* server: the comparison, the run and the conflict choices                *)
(* (features/import/localImportModel.ts) and the dialog that drives them   *)
(* (LocalImportDialog.tsx), in one window whose user may change, while     *)
(* others write the same records and answers get lost.                     *)
(*                                                                         *)
(* The local state of an entry never changes: the import only reads it. On *)
(* the server it may be found under its own id or as a copy, whose id is   *)
(* made of the id and the content and so belongs to this local state only. *)
(* Whether the dialog is open is left out: closing it is one action, and    *)
(* what it shows stays the same until it is opened again.                  *)
(***************************************************************************)
EXTENDS Naturals, Functions

CONSTANTS
  Order,        \* the entries of the inventory, as the plan lists them
  Users,
  Admins,
  Planners,     \* comparisons at once
  Runs,         \* runs at once
  MaxVersion,   \* bound: versions of a record
  MaxOthers,    \* bound: writes of others
  None

Entries == Range(Order)

ImportAssumption ==
  /\ Admins \subseteq Users
  /\ MaxVersion \in Nat \ {0} /\ MaxOthers \in Nat
  /\ DOMAIN Order \subseteq Nat /\ IsInjective(Order) /\ Entries # {}
  /\ None \notin Users \cup Planners \cup Runs \cup Entries

VARIABLES
  catalog,      \* the entries that are catalogue entries: the plan lists them last
  rows,         \* planner_records of each entry, under its own id and as copy
  others,       \* writes of others so far
  session,      \* the user of the browser's cookie, while that session is valid
  user,         \* session.user of the window
  inventory,    \* the local records are read
  planners,     \* replan() under way
  planning,
  plan,         \* the comparison the overview shows
  phase,
  runs,         \* start() under way
  conflicts,    \* of each entry, the conflict to decide
  deciding,     \* conflictsOpen
  choice        \* the choice being carried out (busy)

server == <<rows, others>>
view == <<inventory, planning, plan, phase, conflicts, deciding>>
tasks == <<planners, runs, choice>>
vars == <<catalog, server, session, user, view, tasks>>

Ids == Entries \X {"own", "copy"}

\* "none" is a missing record or a tombstone; "unreadable" does not parse.
Contents == {"none", "local", "other", "unreadable"}
Row == [version : 0 .. MaxVersion, content : Contents, creator : Users \cup {None}]

\* What a comparison or a conflict keeps of the server's record.
Seen == Row \cup {None}
Statuses == {"new", "unchanged", "copied", "differs", "server-unreadable", "admin-only"}
Verdict == [status : Statuses, server : Seen, canReplace : BOOLEAN]
Conflict == [server : Seen, canReplace : BOOLEAN]

Planner ==
  [user : Users, left : SUBSET Entries, at : {"own", "copy"},
   own : Seen, plan : [Entries -> Verdict \cup {None}]]

\* sent: the user whose valid session the request under way carries.
\* left: the selected entries to come. found: the conflicts of entries created
\* meanwhile. own: what the comparison after such a conflict read first.
Run ==
  [user : Users, sent : Users \cup {None}, left : SUBSET Entries,
   at : {"create", "own", "copy"}, own : Seen, plan : [Entries -> Verdict], imported : SUBSET Entries,
   found : [Entries -> Conflict \cup {None}], held : SUBSET Entries]

Choice ==
  [user : Users, sent : Users \cup {None}, entry : Entries, conflict : Conflict,
   pick : {"mine", "copy"}, at : {"write", "refresh"}]

TypeOK ==
  /\ catalog \subseteq Entries
  /\ rows \in [Ids -> Row] /\ others \in 0 .. MaxOthers
  /\ session \in Users \cup {None} /\ user \in Users \cup {None}
  /\ inventory \in BOOLEAN /\ planning \in BOOLEAN
  /\ deciding \in BOOLEAN
  /\ phase \in {"overview", "running", "done"}
  /\ plan = None \/ plan \in [Entries -> Verdict]
  /\ planners \in [Planners -> Planner \cup {None}]
  /\ runs \in [Runs -> Run \cup {None}]
  /\ conflicts \in [Entries -> Conflict \cup {None}]
  /\ choice = None \/ choice \in Choice

NoConflicts == [e \in Entries |-> None]

IndexOf(e) == CHOOSE n \in DOMAIN Order : Order[n] = e

\* The first of the entries in S.
IsNext(e, S) == e \in S /\ \A f \in S : IndexOf(e) <= IndexOf(f)

Init ==
  /\ catalog \in SUBSET Entries
  /\ \A e \in Entries \ catalog, f \in catalog : IndexOf(e) < IndexOf(f)
  /\ rows = [i \in Ids |-> [version |-> 0, content |-> "none", creator |-> None]]
  /\ others = 0
  /\ session = None /\ user = None
  /\ inventory = FALSE /\ planning = FALSE /\ plan = None
  /\ phase = "overview"
  /\ planners = [i \in Planners |-> None]
  /\ runs = [i \in Runs |-> None]
  /\ conflicts = NoConflicts /\ deciding = FALSE /\ choice = None

-----------------------------------------------------------------------------
(* The server.                                                             *)

Live(i) == rows[i].content # "none"
Own(e) == <<e, "own">>
Copy(e) == <<e, "copy">>

\* The server holds the local state of these entries.
Holds(table) ==
  {e \in Entries : table[Own(e)].content = "local" \/ table[Copy(e)].content # "none"}

\* What getProject and getResource tell of a record.
Read(i) == IF Live(i) THEN rows[i] ELSE None

MayWrite(i, u) ==
  IF i[1] \in catalog THEN u \in Admins ELSE u \in Admins \/ rows[i].creator = u

\* An insert takes the place of nothing or of a tombstone.
Inserted(i, u) ==
  [rows EXCEPT ![i] = [version |-> @.version + 1, content |-> "local", creator |-> u]]

Replaced(i) ==
  [rows EXCEPT ![i].version = @ + 1, ![i].content = "local"]

Room(i) == rows[i].version < MaxVersion

OtherWrites(i, u, content) ==
  /\ others < MaxOthers /\ Room(i)
  /\ Live(i) => MayWrite(i, u)
  /\ i[1] \in catalog => u \in Admins
  /\ i[2] = "own"
  /\ rows' = [rows EXCEPT ![i] =
                [version |-> @.version + 1, content |-> content,
                 creator |-> IF Live(i) THEN @.creator ELSE u]]
  /\ others' = others + 1
  /\ UNCHANGED <<session, user, view, tasks>>

OtherDeletes(i, u) ==
  /\ others < MaxOthers
  /\ Live(i) /\ MayWrite(i, u)
  /\ rows' = [rows EXCEPT ![i].content = "none", ![i].creator = None]
  /\ others' = others + 1
  /\ UNCHANGED <<session, user, view, tasks>>

-----------------------------------------------------------------------------
(* Signing in and out; the effect on [userId, enabled] empties the dialog  *)
(* and leaves its phase, its comparisons and its runs alone.               *)

Emptied ==
  /\ inventory' = FALSE /\ plan' = None
  /\ conflicts' = NoConflicts /\ deciding' = FALSE

SignIn(u) ==
  /\ user = None
  /\ user' = u /\ session' = u
  /\ Emptied
  /\ UNCHANGED <<server, planning, phase, tasks>>

\* The session ends: requests under way that carry it will be refused.
Revoked ==
  LET without(t) == IF t # None /\ t.sent = session THEN [t EXCEPT !.sent = None] ELSE t
  IN /\ session' = None
     /\ runs' = [i \in Runs |-> without(runs[i])]
     /\ choice' = without(choice)

\* The dialog of a run covers the button.
SignOut ==
  /\ user # None /\ phase # "running"
  /\ user' = None
  /\ Revoked
  /\ Emptied
  /\ UNCHANGED <<server, planning, phase, planners>>

\* Another request of the window is answered 401.
SessionLost ==
  /\ user # None /\ session = None
  /\ user' = None
  /\ Emptied
  /\ UNCHANGED <<server, session, planning, phase, tasks>>

Expire ==
  /\ session # None
  /\ Revoked
  /\ UNCHANGED <<server, user, view, planners>>

-----------------------------------------------------------------------------
(* The comparison.                                                         *)

IsImportable(v) == v.status \in {"new", "differs"}

\* classifyProject and classifyCatalog after their first read; None: the copy
\* is looked up as well.
ClassifyOwn(own) ==
  IF own = None THEN None
  ELSE IF own.content = "unreadable"
       THEN [status |-> "server-unreadable", server |-> None, canReplace |-> FALSE]
       ELSE IF own.content = "local"
            THEN [status |-> "unchanged", server |-> own, canReplace |-> FALSE]
            ELSE None

MayReplace(u, e, own) == e \in catalog \/ u \in Admins \/ own.creator = u

ClassifyCopy(e, u, own, copy) ==
  LET verdict(s, r) == [status |-> s, server |-> own, canReplace |-> r]
  IN IF copy # None THEN verdict("copied", FALSE)
     ELSE IF e \in catalog /\ u \notin Admins THEN verdict("admin-only", FALSE)
     ELSE IF own = None THEN verdict("new", FALSE)
     ELSE verdict("differs", MayReplace(u, e, own))

NewPlanner ==
  [user |-> user, left |-> Entries, at |-> "own", own |-> None,
   plan |-> [e \in Entries |-> None]]

\* replan().
BeginPlanning ==
  \E i \in Planners :
    /\ planners[i] = None
    /\ planners' = [planners EXCEPT ![i] = NewPlanner]
    /\ planning' = TRUE

\* The effect of a sign-in: the inventory, then the first comparison.
Load ==
  /\ user # None /\ ~inventory
  /\ inventory' = TRUE
  /\ BeginPlanning
  /\ UNCHANGED <<server, session, user, plan, phase, conflicts, deciding,
                 runs, choice>>

\* The end of replan(): a comparison for another user is dropped.
EndPlanning(i, p) ==
  /\ planners' = [planners EXCEPT ![i] = None]
  /\ planning' = FALSE
  /\ IF user # p.user
     THEN UNCHANGED <<plan, phase>>
     ELSE /\ plan' = p.plan
          /\ phase' = "overview"

Classified(i, e, v) ==
  LET p == planners[i]
      next == [p EXCEPT !.plan[e] = v, !.left = @ \ {e}, !.at = "own", !.own = None]
  IN IF next.left = {} THEN EndPlanning(i, next)
     ELSE /\ planners' = [planners EXCEPT ![i] = next]
          /\ UNCHANGED <<planning, plan, phase>>

\* One read of classifyProject or classifyCatalog.
Compare(i, e) ==
  LET p == planners[i]
      own == Read(Own(e))
  IN /\ p # None
     /\ IsNext(e, p.left)
     /\ IF p.at = "copy"
        THEN Classified(i, e, ClassifyCopy(e, p.user, p.own, Read(Copy(e))))
        ELSE IF ClassifyOwn(own) # None THEN Classified(i, e, ClassifyOwn(own))
        ELSE /\ planners' = [planners EXCEPT ![i].at = "copy", ![i].own = own]
             /\ UNCHANGED <<planning, plan, phase>>
     /\ UNCHANGED <<server, session, user, inventory, conflicts, deciding, runs,
                    choice>>

\* A read fails. The error is shown, the plan and the phase stay.
CompareFails(i) ==
  /\ planners[i] # None
  /\ planners' = [planners EXCEPT ![i] = None]
  /\ planning' = FALSE
  /\ UNCHANGED <<server, session, user, inventory, plan, phase, conflicts,
                 deciding, runs, choice>>

\* The header button opens the dialog, unless it runs with a new comparison.
Reopen ==
  /\ user # None /\ inventory /\ phase # "running" /\ choice = None
  /\ BeginPlanning
  /\ UNCHANGED <<server, session, user, inventory, plan, phase, conflicts,
                 deciding, runs, choice>>

\* Closing drops what is not decided. After a run the entries are compared
\* anew.
Close ==
  /\ user # None /\ phase # "running" /\ choice = None
  /\ conflicts' = NoConflicts /\ deciding' = FALSE
  /\ IF phase = "done" THEN BeginPlanning ELSE UNCHANGED <<planners, planning>>
  /\ UNCHANGED <<server, session, user, inventory, plan, phase, runs, choice>>

-----------------------------------------------------------------------------
(* The run.                                                                *)

\* Catalogue entries are skipped for users who are not admins.
Selected(e, selection) == e \in selection /\ (e \in catalog => user \in Admins)

\* start(): with something selected and the tick.
Start(selection) ==
  /\ phase = "overview" /\ plan # None
  /\ user # None
  /\ selection # {}
  /\ \A e \in selection : IsImportable(plan[e])
  /\ \E i \in Runs :
       /\ runs[i] = None
       /\ runs' = [runs EXCEPT ![i] =
            [user |-> user, sent |-> session,
             left |-> {e \in Entries : Selected(e, selection)},
             at |-> "create", own |-> None, plan |-> plan, imported |-> {},
             found |-> NoConflicts, held |-> Holds(rows)]]
  /\ phase' = "running"
  /\ UNCHANGED <<server, session, user, inventory, planning, plan, conflicts,
                 deciding, planners, choice>>

\* What the run hands to the window, whoever is signed in by then.
EndRun(i, found) ==
  /\ runs' = [runs EXCEPT ![i] = None]
  /\ conflicts' = found
  /\ deciding' = \E e \in Entries \ catalog : found[e] # None
  /\ phase' = "done"

\* The entries the run sets aside before it waits for the server again.
SetAside(r, e) ==
  LET v == r.plan[e]
  IN [r EXCEPT !.left = @ \ {e}, !.at = "create", !.own = None,
               !.found[e] = [server |-> v.server, canReplace |-> v.canReplace]]

\* The next request goes out with the cookie of that moment.
Continued(i, r) ==
  /\ runs' = [runs EXCEPT ![i] =
                [r EXCEPT !.sent = session, !.held = @ \cup Holds(rows')]]
  /\ UNCHANGED <<conflicts, deciding, phase>>

HandOver(i, e) ==
  /\ runs[i] # None /\ IsNext(e, runs[i].left) /\ runs[i].plan[e].status = "differs"
  /\ runs' = [runs EXCEPT ![i] = SetAside(@, e)]
  /\ UNCHANGED <<server, session, user, view, planners, choice>>

Past(r, e) == [r EXCEPT !.left = @ \ {e}, !.at = "create", !.own = None]
Imported(r, e) == [Past(r, e) EXCEPT !.imported = @ \cup {e}]
Asks(r, e, v) ==
  [Past(r, e) EXCEPT !.found[e] =
     [server |-> v.server,
      canReplace |-> v.status = "new" \/ v.canReplace \/ e \in catalog]]

\* Mutant: whatever took the id counts as imported before.
AfterAny(r, e, v) == Imported(r, e)

\* An entry that was created meanwhile is compared again.
After(r, e, v) ==
  IF IsImportable(v) THEN Asks(r, e, v)
  ELSE IF v.status = "server-unreadable" THEN Past(r, e)
  ELSE Imported(r, e)

\* What a step of the run leaves alone.
RunFrame ==
  UNCHANGED <<others, session, user, inventory, planning, plan, planners,
              choice>>

Waits(i, e, at) ==
  /\ runs[i] # None /\ IsNext(e, runs[i].left) /\ runs[i].plan[e].status # "differs"
  /\ runs[i].at = at

MayInsert(e, u) == u # None /\ (e \in catalog => u \in Admins)

\* The insert arrives: the server knows the user by the cookie the request
\* carries. The answer may be lost, then the entry is one of the failures.
Insert(i, e) ==
  LET r == runs[i]
  IN /\ Waits(i, e, "create")
     /\ MayInsert(e, r.sent) /\ ~Live(Own(e)) /\ Room(Own(e))
     /\ rows' = Inserted(Own(e), r.sent)
     /\ Continued(i, Imported(r, e)) \/ Continued(i, Past(r, e))
     /\ RunFrame

\* The id is taken.
InsertRefused(i, e) ==
  /\ Waits(i, e, "create")
  /\ MayInsert(e, runs[i].sent) /\ Live(Own(e))
  /\ UNCHANGED rows
  /\ Continued(i, [runs[i] EXCEPT !.at = "own"])
  /\ RunFrame

AgainOwn(i, e) ==
  LET r == runs[i]
      own == Read(Own(e))
  IN /\ Waits(i, e, "own")
     /\ UNCHANGED rows
     /\ Continued(i, IF ClassifyOwn(own) # None THEN After(r, e, ClassifyOwn(own))
                     ELSE [r EXCEPT !.at = "copy", !.own = own])
     /\ RunFrame

AgainCopy(i, e) ==
  LET r == runs[i]
  IN /\ Waits(i, e, "copy")
     /\ UNCHANGED rows
     /\ Continued(i, After(r, e, ClassifyCopy(e, r.user, r.own, Read(Copy(e)))))
     /\ RunFrame

\* Any other error: the request or its answer is lost, or it is refused.
RequestFails(i, e) ==
  /\ \E at \in {"create", "own", "copy"} : Waits(i, e, at)
  /\ UNCHANGED rows
  /\ Continued(i, Past(runs[i], e))
  /\ RunFrame

Finish(i) ==
  /\ runs[i] # None /\ runs[i].left = {}
  /\ UNCHANGED rows
  /\ EndRun(i, runs[i].found)
  /\ RunFrame

\* 401: the run stops, and the window takes its session for lost, whoever has
\* signed in since. Reads need no session.
Aborted(i, e) ==
  /\ Waits(i, e, "create")
  /\ runs[i].sent = None
  /\ UNCHANGED rows
  /\ EndRun(i, IF user = None THEN runs[i].found ELSE NoConflicts)
  /\ user' = None
  /\ inventory' = FALSE /\ plan' = None
  /\ UNCHANGED <<others, session, planning, planners, choice>>

-----------------------------------------------------------------------------
(* The conflicts. Those about plans are decided first to last, those about *)
(* catalogue entries in any order.                                         *)

Waiting(e) == conflicts[e] # None
IsFirst(e) == IsNext(e, {f \in Entries \ catalog : Waiting(f)})

Shown(e) == user # None /\ Waiting(e) /\ (e \in catalog \/ (deciding /\ IsFirst(e)))

\* The end of a choice drops what is first by then, or what has its key.
Dropped(e) ==
  IF e \in catalog THEN [conflicts EXCEPT ![e] = None]
  ELSE [f \in Entries |-> IF IsFirst(f) THEN None ELSE conflicts[f]]

ChoiceFrame ==
  UNCHANGED <<session, inventory, planning, plan, phase, planners, runs>>

\* "keep-server", and a choice the user may not make, write nothing.
KeepServer(e) ==
  /\ Shown(e) /\ choice = None
  /\ conflicts' = Dropped(e)
  /\ UNCHANGED <<server, user, deciding, choice>>
  /\ ChoiceFrame

Choose(e, pick) ==
  /\ Shown(e) /\ choice = None
  /\ e \in catalog => user \in Admins
  /\ pick = "mine" /\ e \notin catalog => conflicts[e].canReplace
  /\ choice' = [user |-> user, sent |-> session, entry |-> e,
                conflict |-> conflicts[e], pick |-> pick, at |-> "write"]
  /\ UNCHANGED <<server, user, conflicts, deciding>>
  /\ ChoiceFrame

\* The record a choice writes.
Written == IF choice.pick = "copy" THEN Copy(choice.entry) ELSE Own(choice.entry)

\* Mutant: replaces whatever version the record has.
MatchesAny == Live(Own(choice.entry))

\* The version the user compared with.
Matches ==
  /\ Live(Own(choice.entry))
  /\ choice.conflict.server # None
  /\ rows[Own(choice.entry)].version = choice.conflict.server.version

Replaces == choice.pick = "mine" /\ choice.conflict.server # None

\* The request arrives. When its answer is lost the conflict stays.
Carried ==
  /\ choice # None /\ choice.at = "write"
  /\ choice.sent # None
  /\ \/ /\ Replaces /\ Matches
        /\ Room(Written) /\ MayWrite(Written, choice.sent)
        /\ rows' = Replaced(Written)
     \/ /\ ~Replaces /\ ~Live(Written)
        /\ Room(Written)
        /\ MayInsert(choice.entry, choice.sent)
        /\ rows' = Inserted(Written, choice.sent)
  /\ choice' = None
  /\ conflicts' = Dropped(choice.entry) \/ conflicts' = conflicts
  /\ UNCHANGED <<others, user, deciding>>
  /\ ChoiceFrame

\* The copy is there already.
CopyExists ==
  /\ choice # None /\ choice.at = "write" /\ choice.pick = "copy"
  /\ choice.sent # None /\ Live(Written)
  /\ choice' = None
  /\ conflicts' = Dropped(choice.entry)
  /\ UNCHANGED <<server, user, deciding>>
  /\ ChoiceFrame

\* The record is another one than the user saw.
Changed ==
  /\ choice # None /\ choice.at = "write" /\ choice.pick = "mine"
  /\ choice.sent # None
  /\ IF Replaces THEN ~Matches ELSE Live(Written)
  /\ choice' = [choice EXCEPT !.at = "refresh"]
  /\ UNCHANGED <<server, user, conflicts, deciding>>
  /\ ChoiceFrame

\* What the user is asked about next. A plan's conflict takes the first place,
\* a catalogue entry's its own if it is still there.
Refreshed ==
  LET e == choice.entry
      now == IF Read(Own(e)) = None \/ Read(Own(e)).content = "unreadable"
             THEN None ELSE Read(Own(e))
      c == [server |-> now,
            canReplace |-> now = None \/ MayReplace(choice.user, e, now)]
  IN /\ choice # None /\ choice.at = "refresh"
     /\ choice' = None
     /\ conflicts' =
          IF e \in catalog
          THEN IF Waiting(e) THEN [conflicts EXCEPT ![e] = c] ELSE conflicts
          ELSE [Dropped(e) EXCEPT ![e] = c]
     /\ UNCHANGED <<server, user, deciding>>
     /\ ChoiceFrame

\* Lost, refused for lack of rights, or unreadable: the conflict stays.
ChoiceFails ==
  /\ choice # None
  /\ choice' = None
  /\ UNCHANGED <<server, user, conflicts, deciding>>
  /\ ChoiceFrame

\* 401 hands the window back to a reader.
ChoiceUnauthenticated ==
  /\ choice # None /\ choice.at = "write"
  /\ choice.sent = None
  /\ choice' = None
  /\ user' = None
  /\ inventory' = FALSE /\ plan' = None
  /\ conflicts' = NoConflicts /\ deciding' = FALSE
  /\ UNCHANGED <<server, session, planning, phase, planners, runs>>

Postpone ==
  /\ user # None /\ deciding /\ \E e \in Entries : IsFirst(e)
  /\ choice = None
  /\ conflicts' = [e \in Entries |-> IF e \in catalog THEN conflicts[e] ELSE None]
  /\ deciding' = FALSE
  /\ UNCHANGED <<server, user, choice>>
  /\ ChoiceFrame

-----------------------------------------------------------------------------

OthersStep ==
  \E i \in Ids, u \in Users :
    \/ OtherDeletes(i, u)
    \/ \E c \in Contents \ {"none"} : OtherWrites(i, u, c)

SessionStep == (\E u \in Users : SignIn(u)) \/ SignOut \/ SessionLost \/ Expire

Compares(i) == (\E e \in Entries : Compare(i, e)) \/ CompareFails(i)

RunStep(i) ==
  \/ Finish(i)
  \/ \E e \in Entries :
       \/ HandOver(i, e) \/ Insert(i, e) \/ InsertRefused(i, e) \/ AgainOwn(i, e)
       \/ AgainCopy(i, e) \/ RequestFails(i, e) \/ Aborted(i, e)

ChoiceStep ==
  \/ Carried \/ CopyExists \/ Changed \/ Refreshed \/ ChoiceFails
  \/ ChoiceUnauthenticated

Asked ==
  \/ Reopen \/ Close \/ Postpone
  \/ \E S \in SUBSET Entries : Start(S)
  \/ \E e \in Entries : KeepServer(e) \/ \E pick \in {"mine", "copy"} : Choose(e, pick)

Next ==
  /\ UNCHANGED catalog
  /\ \/ OthersStep \/ SessionStep \/ Load \/ Asked \/ ChoiceStep
     \/ \E i \in Planners : Compares(i)
     \/ \E i \in Runs : RunStep(i)

Spec == Init /\ [][Next]_vars

-----------------------------------------------------------------------------

\* The import replaces a record of the server only for a choice, and only the
\* very record the user was shown when he made it; its creator stays
\* (resolveProjectImportConflict, ADR 0007: "nor silent overwrites").
NoSilentOverwrite ==
  [][\A i \in Ids :
       Live(i) /\ rows'[i] # rows[i] /\ others' = others =>
         /\ choice # None /\ choice.pick = "mine"
         /\ i = Own(choice.entry)
         /\ rows[i] = choice.conflict.server
         /\ rows'[i].creator = rows[i].creator]_vars

\* An entry that a run calls created or imported before was on the server
\* while the run was under way, under its own id or as its copy: neither a lost
\* answer nor somebody else's record under the same id is taken for an import.
ReportIsTrue ==
  \A i \in Runs : runs[i] # None => runs[i].imported \subseteq runs[i].held

\* Whoever becomes the creator of an imported plan has himself confirmed that
\* it becomes public ("after sign-in, with a preceding overview and explicit
\* confirmation of the publication", ADR 0007).
CreatorConfirmed ==
  [][\A i \in Ids :
       ~Live(i) /\ rows'[i] # rows[i] /\ others' = others =>
         \/ \E r \in Runs : runs[r] # None /\ runs[r].user = rows'[i].creator
         \/ choice # None /\ choice.user = rows'[i].creator]_vars
=============================================================================
