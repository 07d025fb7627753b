----------------------------- MODULE BrowserSync -----------------------------
(***************************************************************************)
(* Publication of one browser plan (ADR 0010): its payload, version row    *)
(* and sync links in IndexedDB (lib/browserPlanStorage.ts), the records on *)
(* the server, and the sync dialogs of several tabs                        *)
(* (features/import/browserSyncModel.ts).                                  *)
(*                                                                         *)
(* Every await of the dialog ends a step: between two of them the editor   *)
(* may save, another tab may sync, another device may write, an answer may *)
(* be lost or the tab may go away. A record has the promise of the module  *)
(* VersionedRecords: writes compare versions, versions are never reused.   *)
(***************************************************************************)
EXTENDS Naturals, Sequences

CONSTANTS
  Tabs,          \* tabs of this browser with a sync dialog
  Users,         \* accounts that sign in in this browser
  Admins,        \* those of them with role "admin"
  Others,        \* accounts that never do
  Data,          \* plan contents, as told apart by browserSyncContentHash
  MaxLocal,      \* bound: local versions
  MaxServer,     \* bound: versions of one server record
  MaxCopies,     \* bound: copies of deleted copies
  Absent         \* no payload, no metadata, no link, no record

ASSUME ConstantsAssumption ==
  /\ Admins \subseteq Users
  /\ Users \cap Others = {}
  /\ MaxLocal \in Nat \ {0}
  /\ MaxServer \in Nat \ {0}
  /\ MaxCopies \in Nat

VARIABLES
  local,         \* the payload with its version, or Absent
  lastVersion,   \* the version row: survives the deletion of the payload
  meta,          \* link of each account, or Absent without a metadata row
  server,        \* record id -> record or tombstone, for the ids ever used
  phase,         \* what the tab's dialog does next
  entry,         \* the entry it is about
  purpose,       \* why the entry is being compared or confirmed
  accepted       \* the link that is to be confirmed

vars == <<local, lastVersion, meta, server, phase, entry, purpose, accepted>>

-----------------------------------------------------------------------------

\* A record id is the path of copies from the plan itself. A copy's id is made
\* of the content, the account and the deleted record it replaces, if any
\* (projectImportCopyId with copyScope).
PlanId == << >>

CopyOf(deleted, data, user) ==
  Append(IF deleted = Absent THEN << >> ELSE deleted,
         [data |-> data, user |-> user, first |-> deleted = Absent])

\* What a read of the server returns. Tombstones are hidden.
Read(id) ==
  IF id \in DOMAIN server /\ server[id].live
  THEN [id |-> id, version |-> server[id].version, data |-> server[id].data,
        owner |-> server[id].owner]
  ELSE Absent

NextVersion(id) ==
  IF id \in DOMAIN server THEN server[id].version + 1 ELSE 1

WithRecord(id, version, data, owner) ==
  [i \in DOMAIN server \cup {id} |->
     IF i = id
     THEN [version |-> version, data |-> data, live |-> TRUE, owner |-> owner]
     ELSE server[i]]

MayReplace(user, record) == user \in Admins \/ record.owner = user

LinkTo(record) ==
  [id |-> record.id, version |-> record.version, data |-> record.data]

\* The record the entry is compared with first.
TargetId(e) == IF e.link = Absent THEN PlanId ELSE e.link.id

LinkedId(e) == IF e.link = Absent THEN Absent ELSE e.link.id

ServerChanged(e, record) ==
  \/ record.version # e.link.version
  \/ record.data # e.link.data

\* Three-way comparison of payload, link and record.
Status(e, record) ==
  CASE record = Absent -> IF e.link = Absent THEN "new" ELSE "server-deleted"
    [] record # Absent /\ ~MayReplace(e.user, record) -> "other-owner"
    [] record # Absent /\ MayReplace(e.user, record) ->
         CASE e.data = record.data -> "unchanged"
           [] e.data # record.data /\ e.link = Absent -> "conflict"
           [] e.data # record.data /\ e.link # Absent ->
                IF e.data = e.link.data THEN "server-changed"
                ELSE IF ServerChanged(e, record) THEN "conflict"
                ELSE "local-changed"

Pending == {"conflict", "server-deleted", "other-owner"}

-----------------------------------------------------------------------------

Init ==
  /\ \E d \in Data : local = [version |-> 1, data |-> d]
  /\ lastVersion = 1
  /\ meta = [u \in Users |-> Absent]
  /\ server = << >>
  /\ phase = [t \in Tabs |-> "idle"]
  /\ entry = [t \in Tabs |-> Absent]
  /\ purpose = [t \in Tabs |-> "plan"]
  /\ accepted = [t \in Tabs |-> Absent]

\* The editor saves at the version it loaded; a delete drops the metadata too.
EditPlan(d) ==
  /\ local # Absent
  /\ local.data # d
  /\ lastVersion < MaxLocal
  /\ local' = [version |-> lastVersion + 1, data |-> d]
  /\ lastVersion' = lastVersion + 1
  /\ UNCHANGED <<meta, server, phase, entry, purpose, accepted>>

DeletePlan ==
  /\ local # Absent
  /\ local' = Absent
  /\ meta' = Absent
  /\ UNCHANGED <<lastVersion, server, phase, entry, purpose, accepted>>

\* Importing an exported package brings a plan back under its id: with the
\* version after the last one, and with new metadata if there is none.
ImportPlan(d) ==
  /\ local = Absent
  /\ lastVersion < MaxLocal
  /\ local' = [version |-> lastVersion + 1, data |-> d]
  /\ lastVersion' = lastVersion + 1
  /\ meta' = IF meta = Absent THEN [u \in Users |-> Absent] ELSE meta
  /\ UNCHANGED <<server, phase, entry, purpose, accepted>>

\* Other devices and accounts.
OtherCreate(u, d) ==
  /\ Read(PlanId) = Absent
  /\ NextVersion(PlanId) <= MaxServer
  /\ server' = WithRecord(PlanId, NextVersion(PlanId), d, u)
  /\ UNCHANGED <<local, lastVersion, meta, phase, entry, purpose, accepted>>

OtherReplace(id, d) ==
  /\ Read(id) # Absent
  /\ server[id].data # d
  /\ NextVersion(id) <= MaxServer
  /\ server' = WithRecord(id, NextVersion(id), d, server[id].owner)
  /\ UNCHANGED <<local, lastVersion, meta, phase, entry, purpose, accepted>>

OtherDelete(id) ==
  /\ Read(id) # Absent
  /\ server' = [server EXCEPT ![id].live = FALSE]
  /\ UNCHANGED <<local, lastVersion, meta, phase, entry, purpose, accepted>>

-----------------------------------------------------------------------------

Goto(t, p) == phase' = [phase EXCEPT ![t] = p]

\* Mutant: the link that was to be confirmed is not forgotten.
FinishKeepingLink(t) ==
  /\ Goto(t, "idle")
  /\ entry' = [entry EXCEPT ![t] = Absent]
  /\ purpose' = [purpose EXCEPT ![t] = "plan"]
  /\ UNCHANGED accepted

\* The dialog is closed, the entry postponed or failed; nothing else changes.
\* The next plan starts over from what is stored.
Finish(t) ==
  /\ Goto(t, "idle")
  /\ entry' = [entry EXCEPT ![t] = Absent]
  /\ purpose' = [purpose EXCEPT ![t] = "plan"]
  /\ accepted' = [accepted EXCEPT ![t] = Absent]

Abandon(t) ==
  /\ phase[t] # "idle"
  /\ Finish(t)
  /\ UNCHANGED <<local, lastVersion, meta, server>>

\* planBrowserSync: content and version in one transaction, ...
TakeSnapshot(t, u) ==
  /\ phase[t] = "idle"
  /\ local # Absent
  /\ Goto(t, "snapshot")
  /\ entry' = [entry EXCEPT ![t] =
       [user |-> u, data |-> local.data, version |-> local.version,
        link |-> Absent, record |-> Absent, status |-> "new"]]
  /\ UNCHANGED <<local, lastVersion, meta, server, purpose, accepted>>

\* ... then the link ...
ReadLink(t) ==
  /\ phase[t] = "snapshot"
  /\ Goto(t, "linked")
  /\ entry' = [entry EXCEPT ![t].link =
       IF meta = Absent THEN Absent ELSE meta[entry[t].user]]
  /\ UNCHANGED <<local, lastVersion, meta, server, purpose, accepted>>

\* Mutant: whatever is there now is taken for the snapshot.
AnyPayload(e) == local # Absent

StillThere(e) == local # Absent /\ local.version = e.version

\* ... and the version again. An entry that moved is left for another time.
VerifySnapshot(t) ==
  /\ phase[t] = "linked"
  /\ IF StillThere(entry[t])
     THEN Goto(t, "compare") /\ UNCHANGED <<entry, purpose, accepted>>
     ELSE Finish(t)
  /\ UNCHANGED <<local, lastVersion, meta, server>>

\* The comparison is complete: show the plan, or end a retry or a refresh.
Compared(t, record) ==
  LET status == Status(entry[t], record)
  IN  /\ entry' = [entry EXCEPT ![t].record = record, ![t].status = status]
      /\ IF purpose[t] = "retry" /\ status = "unchanged"
         THEN /\ Goto(t, "confirm")
              /\ accepted' = [accepted EXCEPT ![t] = LinkTo(record)]
         ELSE /\ Goto(t, IF purpose[t] = "plan" THEN "planned" ELSE "shown")
              /\ UNCHANGED accepted
      /\ UNCHANGED purpose

ReadRecord(t) ==
  /\ phase[t] = "compare"
  /\ LET record == Read(TargetId(entry[t]))
     IN  IF entry[t].link # Absent /\ record # Absent
         THEN Compared(t, record)
         ELSE /\ entry' = [entry EXCEPT ![t].record = record]
              /\ Goto(t, "compareCopy")
              /\ UNCHANGED <<purpose, accepted>>
  /\ UNCHANGED <<local, lastVersion, meta, server>>

IsCopyOf(e, copy) ==
  copy # Absent /\ copy.owner = e.user /\ copy.data = e.data

\* A copy whose confirmation was lost counts as the plan's record.
ReadCopy(t) ==
  /\ phase[t] = "compareCopy"
  /\ LET e == entry[t]
         copy == Read(CopyOf(LinkedId(e), e.data, e.user))
     IN  Compared(t, IF IsCopyOf(e, copy) THEN copy ELSE e.record)
  /\ UNCHANGED <<local, lastVersion, meta, server>>

CompareAgain(t, why) ==
  /\ Goto(t, "compare")
  /\ purpose' = [purpose EXCEPT ![t] = why]
  /\ UNCHANGED <<entry, accepted>>

\* Mutant: the hash is that of the payload, not of the accepted state.
AcceptWithPayloadHash(t, link, why) ==
  /\ Goto(t, "confirm")
  /\ accepted' = [accepted EXCEPT ![t] =
       [id |-> link.id, version |-> link.version, data |-> entry[t].data]]
  /\ purpose' = [purpose EXCEPT ![t] = why]
  /\ UNCHANGED entry

\* To be confirmed: the payload is on the server, or the user rejected it.
Accept(t, link, why) ==
  /\ Goto(t, "confirm")
  /\ accepted' = [accepted EXCEPT ![t] = link]
  /\ purpose' = [purpose EXCEPT ![t] = why]
  /\ UNCHANGED entry

-----------------------------------------------------------------------------

\* runBrowserSync, after the user selected the plan and consented.

ShowConflict(t) ==
  /\ phase[t] = "planned"
  /\ entry[t].status \in Pending
  /\ Goto(t, "shown")
  /\ UNCHANGED <<local, lastVersion, meta, server, entry, purpose, accepted>>

\* A write is stored and answered, or stored and its answer lost: the entry
\* has failed and stays.
Stored(t, id, owner, failed) ==
  LET data == entry[t].data
      version == NextVersion(id)
  IN  /\ version <= MaxServer
      /\ server' = WithRecord(id, version, data, owner)
      /\ \/ Accept(t, [id |-> id, version |-> version, data |-> data], "publish")
         \/ failed

PublishNew(t) ==
  /\ phase[t] = "planned"
  /\ entry[t].status = "new"
  /\ IF Read(PlanId) = Absent
     THEN Stored(t, PlanId, entry[t].user, Finish(t))
     ELSE CompareAgain(t, "retry") /\ UNCHANGED server
  /\ UNCHANGED <<local, lastVersion, meta>>

\* Mutant: the write is unconditional.
AnyVersionMatches(e) == Read(e.record.id) # Absent

\* The statement's guards: version and, unless by an admin, creator.
Matches(e) ==
  LET record == Read(e.record.id)
  IN  /\ record # Absent
      /\ record.version = e.record.version
      /\ MayReplace(e.user, record)

PublishChange(t) ==
  /\ phase[t] = "planned"
  /\ entry[t].status = "local-changed"
  /\ LET id == entry[t].record.id
     IN  IF Matches(entry[t])
         THEN Stored(t, id, server[id].owner, Finish(t))
         ELSE CompareAgain(t, "retry") /\ UNCHANGED server
  /\ UNCHANGED <<local, lastVersion, meta>>

\* Nothing to upload: the record is read once more before anything local goes.
AdoptServer(t) ==
  /\ phase[t] = "planned"
  /\ entry[t].status \in {"unchanged", "server-changed"}
  /\ IF Read(entry[t].record.id) = entry[t].record
     THEN Accept(t, LinkTo(entry[t].record), "publish")
     ELSE CompareAgain(t, "refresh")
  /\ UNCHANGED <<local, lastVersion, meta, server>>

-----------------------------------------------------------------------------

\* resolveBrowserSyncConflict. A failed choice leaves the conflict on screen.
Unanswered(t) == UNCHANGED <<phase, entry, purpose, accepted>>

KeepServer(t) ==
  /\ phase[t] = "shown"
  /\ LET e == entry[t]
         record == Read(TargetId(e))
     IN  IF record = Absent /\ e.status = "server-deleted"
         THEN Accept(t, e.link, "reject")
         ELSE IF record # Absent /\ record = e.record
         THEN Accept(t, LinkTo(record), "reject")
         ELSE CompareAgain(t, "refresh")
  /\ UNCHANGED <<local, lastVersion, meta, server>>

KeepMine(t) ==
  /\ phase[t] = "shown"
  /\ entry[t].record # Absent
  /\ MayReplace(entry[t].user, entry[t].record)
  /\ LET id == entry[t].record.id
     IN  IF Matches(entry[t])
         THEN Stored(t, id, server[id].owner, Unanswered(t))
         ELSE CompareAgain(t, "refresh") /\ UNCHANGED server
  /\ UNCHANGED <<local, lastVersion, meta>>

ChosenCopy(e) ==
  CopyOf(IF e.status = "server-deleted" THEN LinkedId(e) ELSE Absent,
         e.data, e.user)

\* The copy's id depends on what is copied, so that a repeated choice finds
\* the copy that is already there; it is read back in either case.
SaveCopy(t) ==
  /\ phase[t] = "shown"
  /\ LET id == ChosenCopy(entry[t])
     IN  /\ Len(id) <= MaxCopies
         /\ IF Read(id) = Absent
            THEN /\ NextVersion(id) <= MaxServer
                 /\ server' = WithRecord(id, NextVersion(id), entry[t].data,
                                         entry[t].user)
            ELSE UNCHANGED server
  /\ \/ Goto(t, "readBack") /\ UNCHANGED <<entry, purpose, accepted>>
     \/ Unanswered(t)
  /\ UNCHANGED <<local, lastVersion, meta>>

ReadBack(t) ==
  /\ phase[t] = "readBack"
  /\ LET e == entry[t]
         copy == Read(ChosenCopy(e))
     IN  IF IsCopyOf(e, copy)
         THEN Accept(t, LinkTo(copy), "publish")
         ELSE CompareAgain(t, "refresh")
  /\ UNCHANGED <<local, lastVersion, meta, server>>

\* confirmSync, one transaction: write the link, and remove the payload unless
\* it changed since the snapshot. Without metadata the plan was deleted.
Confirm(t) ==
  /\ phase[t] = "confirm"
  /\ IF meta = Absent
     THEN UNCHANGED <<meta, local>>
     ELSE /\ meta' = [meta EXCEPT ![entry[t].user] = accepted[t]]
          /\ local' = IF StillThere(entry[t]) THEN Absent ELSE local
  /\ Finish(t)
  /\ UNCHANGED <<lastVersion, server>>

Next ==
  \/ \E d \in Data : EditPlan(d) \/ ImportPlan(d)
  \/ DeletePlan
  \/ \E u \in Users \cup Others, d \in Data : OtherCreate(u, d)
  \/ \E id \in DOMAIN server, d \in Data : OtherReplace(id, d)
  \/ \E id \in DOMAIN server : OtherDelete(id)
  \/ \E t \in Tabs, u \in Users : TakeSnapshot(t, u)
  \/ \E t \in Tabs :
       \/ ReadLink(t) \/ VerifySnapshot(t) \/ ReadRecord(t) \/ ReadCopy(t)
       \/ ShowConflict(t) \/ PublishNew(t) \/ PublishChange(t)
       \/ AdoptServer(t)
       \/ KeepServer(t) \/ KeepMine(t) \/ SaveCopy(t) \/ ReadBack(t)
       \/ Confirm(t) \/ Abandon(t)

Spec == Init /\ [][Next]_vars

-----------------------------------------------------------------------------

Accounts == Users \cup Others
Steps == [data : Data, user : Users, first : BOOLEAN]
Ids == Seq(Steps)
Phases == {"idle", "snapshot", "linked", "compare", "compareCopy", "planned",
           "shown", "readBack", "confirm"}
Statuses == {"new", "unchanged", "local-changed", "server-changed", "conflict",
             "server-deleted", "other-owner"}
Payloads == [version : 1 .. MaxLocal, data : Data]
Links == [id : Ids, version : 1 .. MaxServer, data : Data]
Records == [id : Ids, version : 1 .. MaxServer, data : Data, owner : Accounts]
Entries ==
  [user : Users, data : Data, version : 1 .. MaxLocal, status : Statuses,
   link : Links \cup {Absent}, record : Records \cup {Absent}]

ASSUME AbsentAssumption ==
  /\ Absent \notin Payloads
  /\ Absent \notin Links
  /\ Absent \notin Records
  /\ Absent \notin Entries

TypeOK ==
  /\ local \in Payloads \cup {Absent}
  /\ lastVersion \in 1 .. MaxLocal
  /\ meta \in [Users -> Links \cup {Absent}] \cup {Absent}
  /\ DOMAIN server \subseteq Ids
  /\ \A id \in DOMAIN server :
       server[id] \in [version : 1 .. MaxServer, data : Data, live : BOOLEAN,
                      owner : Accounts]
  /\ phase \in [Tabs -> Phases]
  /\ entry \in [Tabs -> Entries \cup {Absent}]
  /\ accepted \in [Tabs -> Links \cup {Absent}]
  /\ \A t \in Tabs :
       /\ (phase[t] = "idle") <=> (entry[t] = Absent)
       /\ (phase[t] = "confirm") <=> (accepted[t] # Absent)
  /\ purpose \in [Tabs -> {"plan", "retry", "refresh", "publish", "reject"}]

\* The run is the part of the dialog that writes without asking.
RunWrites(t) ==
  /\ phase[t] = "planned"
  /\ phase'[t] # "planned"
  /\ server' # server

\* "No field merge or silent overwrite" (ADR 0010): what a run replaces on the
\* server without asking is exactly the state that the link names, the one
\* this account has accepted before, whoever wrote since the comparison.
NoSilentOverwrite ==
  [][\A t \in Tabs : RunWrites(t) =>
       \A id \in DOMAIN server :
         (server[id].live /\ server'[id] # server[id])
           => /\ entry[t].link # Absent
              /\ entry[t].link = LinkTo(Read(id))]_vars

\* The clean-up removes the payload that was compared and no later edit, and,
\* unless the user chose the server's version, only content that the server
\* holds or held: what is being linked, or what the earlier link stands for.
OnlyPublishedPayloadRemoved ==
  [][(local # Absent /\ local' = Absent /\ meta' # Absent) =>
       \E t \in Tabs :
         /\ phase[t] = "confirm"
         /\ local.data = entry[t].data
         /\ \/ purpose[t] = "reject"
            \/ local.data = accepted[t].data
            \/ entry[t].link # Absent /\ local.data = entry[t].link.data]_vars

\* A link, kept or about to be, names a state the record really had: the
\* record has reached its version and, if it is still there, has its content.
KnownLinks ==
  {link \in {accepted[t] : t \in Tabs} \cup
           (IF meta = Absent THEN {} ELSE {meta[u] : u \in Users}) :
     link # Absent}

LinksAreTrue ==
  \A link \in KnownLinks :
    /\ link.id \in DOMAIN server
    /\ link.version <= server[link.id].version
    /\ link.version = server[link.id].version
         => link.data = server[link.id].data

\* "The version/hash describe the accepted server state" (ADR 0010): a newer
\* accepted state of a record is not replaced by an older one.
LinkNeverRegresses ==
  [][\A u \in Users :
       (/\ meta # Absent
        /\ meta' # Absent
        /\ meta[u] # Absent
        /\ meta'[u] # Absent
        /\ meta'[u].id = meta[u].id)
         => meta'[u].version >= meta[u].version]_vars

\* "If a linked server plan has been deleted, surface that fact explicitly; do
\* not silently recreate it" (ADR 0010): a run does not create the record the
\* account's link names.
DeletedPlanNotRecreated ==
  [][\A t \in Tabs : RunWrites(t) =>
       \A id \in DOMAIN server :
         (~server[id].live /\ server'[id].live)
           => \/ meta = Absent
              \/ meta[entry[t].user] = Absent
              \/ meta[entry[t].user].id # id]_vars
=============================================================================
