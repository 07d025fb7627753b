------------------------------ MODULE OpenEditor ------------------------------
(***************************************************************************)
(* One plan of the server open in the editor of one window                 *)
(* (features/project/PlannerProjectWorkspace.tsx, features/editor): the    *)
(* draft and its lease, the local backups that survive a reload            *)
(* (draftBackupModel.ts), saves against the version a draft began from,    *)
(* the conflict view (projectConflictModel.ts) and sign-out.               *)
(*                                                                         *)
(* Every await ends a step; a step includes the effects React runs after   *)
(* the state it sets, in their order: the editor's, then the workspace's.  *)
(* A backup that another window or an earlier life of this one left keeps  *)
(* its slot until it is discarded.                                         *)
(***************************************************************************)
EXTENDS Naturals, FiniteSets

CONSTANTS
  Users,         \* accounts; each may replace the plan
  Nobody,        \* no session, no author
  Absent,        \* no lease, no backup, no plan open, ...
  MaxVersion,    \* bound: versions of the plan
  MaxContent,    \* bound: contents ever made of it
  MaxToken,      \* bound: drafts ever begun
  MaxRevision    \* bound: backups written of one draft

ASSUME EditorAssumption ==
  /\ MaxVersion \in Nat \ {0}
  /\ MaxContent \in Nat /\ MaxToken \in Nat /\ MaxRevision \in Nat
  /\ Users \cap {Nobody, "out", "lost"} = {}

VARIABLES
  server,        \* the plan's record; ours: this window wrote it last
  slots,         \* backup of the plan, in the scope of each user, or Absent
  cookie,        \* whose session the browser has
  made,          \* contents made so far: 0 .. made
  tokens,        \* tokens drawn so far (crypto.randomUUID)
  session,       \* what the window knows: a user, "out" or "lost"
  author,        \* backupUserRef: the last user signed in here
  plan,          \* loadedVersionRef and selectedProject, or Absent
  editor,        \* whether the editor is open, its content and the content it
                 \* takes for saved
  lease,         \* draftLeaseRef: the one draft the window holds
  saves,         \* up to two save requests under way
  conflict,      \* the conflict view with the lease it decides on, or Absent
  leaving,       \* a sign-out under way, or Absent
  refused,       \* ghost: drafts whose last edit was refused a backup
  reverted       \* ghost: the contents a conflict choice that failed put back
                 \* over newer backups, with their drafts, until the next edit

windowVars == <<session, author, plan, editor, lease, saves, conflict, leaving>>
ghosts == <<refused, reverted>>
vars == <<server, slots, cookie, made, tokens, windowVars, ghosts>>

Contents == 0 .. MaxContent
Slots == {1, 2}

\* A closed editor starts over from the plan.
Closed(content) ==
  [open |-> FALSE, present |-> content, persisted |-> content]

Dirty == editor.present # editor.persisted

SignedIn == session \in Users

\* A read of the plan; deleted records are hidden.
Stored ==
  IF server.live THEN [version |-> server.version, content |-> server.content]
  ELSE Absent

Opened(p) == IF p = Absent THEN Closed(0) ELSE Closed(p.content)

Init ==
  /\ server = [version |-> 1, content |-> 0, live |-> TRUE, ours |-> FALSE]
  /\ slots = [u \in Users |-> Absent]
  /\ cookie \in Users
  /\ made = 0
  /\ tokens = 0
  /\ session = cookie
  /\ author = cookie
  /\ plan = Stored
  /\ editor = Opened(Stored)
  /\ lease = Absent
  /\ saves = [i \in Slots |-> Absent]
  /\ conflict = Absent
  /\ leaving = Absent
  /\ refused = {}
  /\ reverted = {}

-----------------------------------------------------------------------------

\* What a handler does to the lease, the backups and the tokens is composed of
\* these functions of a desk, in the handler's order.
Desk == [lease |-> lease, slots |-> slots, tokens |-> tokens]

Put(d) ==
  /\ d.tokens <= MaxToken
  /\ d.lease # Absent => d.lease.rev <= MaxRevision
  /\ \A u \in Users : d.slots[u] # Absent => d.slots[u].rev <= MaxRevision
  /\ lease' = d.lease
  /\ slots' = d.slots
  /\ tokens' = d.tokens

Holds(d, token) == d.lease # Absent /\ d.lease.token = token

\* ensureLease: author and version are fixed when the draft begins.
EnsureLease(d, source) ==
  IF d.lease # Absent \/ author' = Nobody THEN d
  ELSE [d EXCEPT
          !.lease = [token |-> d.tokens + 1, owner |-> author',
                     base |-> plan'.version, from |-> plan'.content,
                     rev |-> 0, source |-> source],
          !.tokens = d.tokens + 1]

\* writeDraftBackup leaves another draft's backup alone.
MayWrite(d, l) ==
  \/ d.slots[l.owner] = Absent
  \/ d.slots[l.owner].token = l.token

\* backUpDraft
BackUp(d, l, content) ==
  IF ~Holds(d, l.token) \/ ~MayWrite(d, l) THEN d
  ELSE [d EXCEPT
          !.lease.rev = l.rev + 1,
          !.slots[l.owner] = [token |-> l.token, rev |-> l.rev + 1,
                              base |-> l.base, from |-> l.from,
                              content |-> content]]

\* endLease, where only these revisions of the backup may go.
EndLeaseAt(d, l, revs) ==
  LET b == d.slots[l.owner]
      kept == IF Holds(d, l.token) THEN [d EXCEPT !.lease = Absent] ELSE d
  IN  IF b # Absent /\ b.token = l.token /\ b.rev \in revs
      THEN [kept EXCEPT !.slots[l.owner] = Absent] ELSE kept

EndLease(d, l) == EndLeaseAt(d, l, Nat)

\* discardDraftLease
EndHeld(d) == IF d.lease = Absent THEN d ELSE EndLease(d, d.lease)

\* rebaseDraftBackup: newer edits continue from the version saved.
Rebase(d, p) ==
  LET l == d.lease
      b == d.slots[l.owner]
      moved == [d EXCEPT !.lease.base = p.version, !.lease.from = p.content]
  IN  IF b # Absent /\ b.token = l.token
      THEN [moved EXCEPT !.slots[l.owner].base = p.version,
                         !.slots[l.owner].from = p.content]
      ELSE moved

\* The effect that backs up the open editor's draft, or ends the lease the
\* editor began once it is clean.
CleanEffect(d) ==
  IF d.lease # Absent /\ d.lease.source = "editor" THEN EndLease(d, d.lease)
  ELSE d

EditorEffect(d) ==
  IF editor'.present = editor'.persisted THEN CleanEffect(d)
  ELSE LET begun == EnsureLease(d, "editor")
       IN  IF begun.lease = Absent THEN begun
           ELSE BackUp(begun, begun.lease, editor'.present)

\* discardUnsavedPlannerChanges: what is under way belongs to a context left.
Left ==
  [i \in Slots |-> IF saves[i] = Absent THEN Absent
                   ELSE [saves[i] EXCEPT !.here = FALSE]]

-----------------------------------------------------------------------------

\* Another device.
OtherWrite ==
  /\ server.live
  /\ server.version < MaxVersion
  /\ made < MaxContent
  /\ made' = made + 1
  /\ server' = [version |-> server.version + 1, content |-> made + 1,
                live |-> TRUE, ours |-> FALSE]
  /\ UNCHANGED <<slots, cookie, tokens, windowVars, ghosts>>

OtherDelete ==
  /\ server.live
  /\ server' = [server EXCEPT !.live = FALSE]
  /\ UNCHANGED <<slots, cookie, made, tokens, windowVars, ghosts>>

\* The session ends on the server, or another window signs out.
Expire ==
  /\ cookie # Nobody
  /\ cookie' = Nobody
  /\ UNCHANGED <<server, slots, made, tokens, windowVars, ghosts>>

\* A change in the editor; it is locked without a session, not by a save. A
\* closed editor opens for it, once no draft is held.
Edit ==
  /\ SignedIn
  /\ plan # Absent
  /\ conflict = Absent
  /\ editor.open \/ lease = Absent
  /\ made < MaxContent
  /\ made' = made + 1
  /\ editor' = [editor EXCEPT !.open = TRUE, !.present = made + 1]
  /\ saves' = IF editor.open THEN saves ELSE Left
  /\ UNCHANGED <<server, cookie, session, author, plan, conflict, leaving>>
  /\ Put(EditorEffect(Desk))
  /\ LET drafts == {l \in {lease'} : l # Absent /\ Dirty'}
         written == {l.token : l \in {d \in drafts : MayWrite(Desk, d)}}
     IN  /\ refused' = (refused \cup {l.token : l \in drafts}) \ written
         /\ reverted' = {r \in reverted : r.token \notin written}

\* Undo back to the saved state, or discard in the editor.
Undo ==
  /\ SignedIn
  /\ conflict = Absent
  /\ Dirty
  /\ editor' = [editor EXCEPT !.present = editor.persisted]
  /\ Put(CleanEffect(Desk))
  /\ UNCHANGED <<server, cookie, made, session, author, plan, saves, conflict,
                 leaving, ghosts>>

\* Leaving the plan or its editor, with the user's consent.
Discard ==
  /\ conflict = Absent
  /\ Dirty \/ lease # Absent
  /\ Put(EndHeld(Desk))
  /\ editor' = Opened(plan)
  /\ saves' = Left
  /\ UNCHANGED <<server, cookie, made, session, author, plan, conflict,
                 leaving, ghosts>>

\* Opening the plan again, coming from another one.
Open ==
  /\ conflict = Absent
  /\ ~Dirty
  /\ lease = Absent
  /\ plan' = Stored
  /\ editor' = Opened(Stored)
  /\ saves' = Left
  /\ UNCHANGED <<server, slots, cookie, made, tokens, session, author, lease,
                 conflict, leaving, ghosts>>

\* The window is closed or crashes, and is opened again.
Reload ==
  /\ session' = IF cookie = Nobody THEN "out" ELSE cookie
  /\ author' = cookie
  /\ plan' = Stored
  /\ editor' = Opened(Stored)
  /\ lease' = Absent
  /\ saves' = [i \in Slots |-> Absent]
  /\ conflict' = Absent
  /\ leaving' = Absent
  /\ UNCHANGED <<server, slots, cookie, made, tokens, ghosts>>

\* The window offers to restore a backup, unless it is the open draft's own.
Offered ==
  /\ SignedIn
  /\ conflict = Absent
  /\ slots[session] # Absent
  /\ ~(Dirty /\ Holds(Desk, slots[session].token))

\* The offer declined for good.
DiscardBackup ==
  /\ Offered
  /\ slots' = [slots EXCEPT ![session] = Absent]
  /\ lease' = IF Holds(Desk, slots[session].token) THEN Absent ELSE lease
  /\ UNCHANGED <<server, cookie, made, tokens, session, author, plan, editor,
                 saves, conflict, leaving, ghosts>>

-----------------------------------------------------------------------------

\* The editor's own "saving" flag: one save at a time, until it is left.
Saving == \E i \in Slots : saves[i] # Absent /\ saves[i].here

Free(i) ==
  /\ saves[i] = Absent
  /\ \A j \in Slots : j < i => saves[j] # Absent

\* saveForSession sends the content and remembers the draft as it is now.
Request(content, l, restores) ==
  [content |-> content, lease |-> l, stage |-> "sent", version |-> 0,
   here |-> TRUE, epoch |-> TRUE, restores |-> restores]

Save(i) ==
  /\ SignedIn
  /\ conflict = Absent
  /\ Dirty
  /\ ~Saving
  /\ Free(i)
  /\ UNCHANGED <<server, cookie, made, session, author, plan, editor, conflict,
                 leaving, ghosts>>
  /\ Put(EnsureLease(Desk, "save"))
  /\ saves' = [saves EXCEPT ![i] = Request(editor.present, lease', FALSE)]

\* restoreDraft continues the draft of a backup: saved against the version it
\* began from, with the editor closed. What the window held is discarded.
Restore(i) ==
  LET b == slots[session]
      d == IF Holds(Desk, b.token) THEN Desk ELSE EndHeld(Desk)
  IN  /\ Offered
      /\ \A j \in Slots : saves[j] # Absent => ~saves[j].restores
      /\ Free(i)
      /\ lease' = [token |-> b.token, owner |-> session, base |-> b.base,
                   from |-> b.from, rev |-> b.rev, source |-> "save"]
      /\ slots' = d.slots
      /\ plan' = IF plan = Absent THEN Stored ELSE plan
      /\ editor' = Opened(plan')
      /\ saves' = [Left EXCEPT ![i] = Request(b.content, lease', TRUE)]
      /\ UNCHANGED <<server, cookie, made, tokens, session, author, conflict,
                     leaving, ghosts>>

Answer(i, stage, version) ==
  saves' = [saves EXCEPT ![i].stage = stage, ![i].version = version]

Done(i) == saves' = [saves EXCEPT ![i] = Absent]

\* Mutant: an unconditional write.
AnyVersion(s) == server.live

\* A save names the version its draft began from.
Matches(s) == server.live /\ server.version = s.lease.base

\* The server's half: the session, then the compare-and-write of one record.
\* The answer may get lost.
Serve(i) ==
  LET s == saves[i]
  IN  /\ s # Absent
      /\ s.stage = "sent"
      /\ \/ /\ cookie = Nobody
            /\ Answer(i, "unauthenticated", 0)
            /\ UNCHANGED server
         \/ /\ cookie # Nobody
            /\ Matches(s)
            /\ server.version < MaxVersion
            /\ server' = [version |-> server.version + 1, content |-> s.content,
                          live |-> TRUE, ours |-> TRUE]
            /\ Answer(i, "ok", server.version + 1) \/ Answer(i, "network", 0)
         \/ /\ cookie # Nobody
            /\ ~Matches(s)
            /\ Answer(i, "conflict", 0)
            /\ UNCHANGED server
         \/ /\ Answer(i, "network", 0)
            /\ UNCHANGED server
  /\ UNCHANGED <<slots, cookie, made, tokens, session, author, plan, editor,
                 lease, conflict, leaving, ghosts>>

\* currentLease: still the window's draft, and nobody signed out since.
Current(s) == Holds(Desk, s.lease.token) /\ s.epoch

\* Mutant: the draft's newer backups are overlooked.
Overlooked(s) == TRUE

Unchanged(s) == lease.rev = s.lease.rev

\* The saved draft's backup goes, unless the draft changed meanwhile.
Settle(s, p) ==
  IF ~Current(s) THEN Desk
  ELSE IF Unchanged(s) THEN EndLeaseAt(Desk, lease, {s.lease.rev})
  ELSE Rebase(Desk, p)

\* A restored draft ends with the plan being read again, in whatever editor is
\* open by then: it closes, and the draft it began ends.
Reread(d) ==
  /\ plan' = IF plan = Absent THEN Absent ELSE Stored
  /\ editor' = Opened(plan')
  /\ Put(CleanEffect(d))

\* An open editor keeps its content when its own save comes back; it counts as
\* dirty until the library has been read again.
Saved(i) ==
  LET s == saves[i]
      p == [version |-> s.version, content |-> s.content]
      settled == Settle(s, p)
  IN  /\ s # Absent
      /\ s.stage = "ok"
      /\ UNCHANGED <<server, cookie, made, session, author, conflict, leaving,
                     ghosts>>
      /\ \/ /\ s.here
            /\ plan' = p
            /\ editor' = IF editor.open THEN editor ELSE Opened(p)
            /\ Put(EditorEffect(CleanEffect(settled)))
            /\ Answer(i, "refreshing", s.version)
         \/ /\ ~s.here /\ ~s.restores
            /\ plan' = IF plan = Absent THEN Absent
                       ELSE [plan EXCEPT !.version = s.version]
            /\ UNCHANGED editor
            /\ Put(settled)
            /\ Done(i)
         \/ /\ ~s.here /\ s.restores
            /\ Reread(settled)
            /\ Done(i)

\* mark-saved, in the editor that saved; the end of a restored draft.
Refreshed(i) ==
  LET s == saves[i]
      its == s.here /\ editor.open
      shown == [editor EXCEPT !.persisted = s.content]
  IN  /\ s # Absent
      /\ s.stage = "refreshing"
      /\ UNCHANGED <<server, cookie, made, session, author, conflict, leaving,
                     ghosts>>
      /\ Done(i)
      /\ \/ s.restores /\ Reread(Desk)
         \/ /\ ~s.restores
            /\ UNCHANGED plan
            /\ editor' = IF its THEN shown ELSE editor
            /\ Put(IF ~its \/ (Dirty /\ shown.present # s.content) THEN Desk
                   ELSE EditorEffect(Desk))

\* A failed save keeps no lease that has no backup, and none of a restored
\* draft, whose backup stays on offer.
LetGo(d, s) ==
  IF \/ Current(s) /\ d.lease.rev = 0
     \/ s.restores /\ Holds(d, s.lease.token)
  THEN [d EXCEPT !.lease = Absent] ELSE d

\* No answer, or no session: the draft is backed up, unless newer edits are.
Failed(i) ==
  LET s == saves[i]
      kept == LetGo(IF Current(s) /\ Unchanged(s)
                    THEN BackUp(Desk, lease, s.content) ELSE Desk, s)
  IN  /\ s # Absent
      /\ s.stage \in {"network", "unauthenticated"}
      /\ UNCHANGED <<server, cookie, made, author, plan, editor, conflict,
                     leaving, ghosts>>
      /\ Done(i)
      /\ IF s.stage = "unauthenticated" /\ s.epoch
         THEN session' = "lost" /\ Put(EditorEffect(kept))
         ELSE UNCHANGED session /\ Put(kept)

\* Mutant: the plan is open again, whoever opened it.
OpenAgain(s) == plan # Absent \/ Holds(Desk, s.lease.token)

StillOpen(s) == s.here /\ (plan # Absent \/ Holds(Desk, s.lease.token))

\* A rejected save of an open plan reads the server's state ...
Rejected(i) ==
  LET s == saves[i]
  IN  /\ s # Absent
      /\ s.stage = "conflict"
      /\ IF StillOpen(s)
         THEN Answer(i, "reading", 0) /\ UNCHANGED <<lease, slots, tokens>>
         ELSE Done(i) /\ Put(LetGo(Desk, s))
      /\ UNCHANGED <<server, cookie, made, session, author, plan, editor,
                     conflict, leaving, ghosts>>

\* ... and opens the conflict view. version 0: the plan is gone.
Shown(mine, l) ==
  [mine |-> mine, version |-> IF server.live THEN server.version ELSE 0,
   lease |-> l]

ShowConflict(i) ==
  LET s == saves[i]
      kept == IF Holds(Desk, s.lease.token) /\ Unchanged(s)
              THEN BackUp(Desk, lease, s.content) ELSE Desk
  IN  /\ s # Absent
      /\ s.stage = "reading"
      /\ \/ /\ Answer(i, "network", 0)
            /\ UNCHANGED <<conflict, lease, slots, tokens>>
         \/ /\ StillOpen(s)
            /\ conflict' = Shown(s.content, kept.lease)
            /\ Put(LetGo(kept, s))
            /\ Done(i)
         \/ /\ ~StillOpen(s)
            /\ Put(LetGo(Desk, s))
            /\ Done(i)
            /\ UNCHANGED conflict
      /\ UNCHANGED <<server, cookie, made, session, author, plan, editor,
                     leaving, ghosts>>

\* The answer to a save reaches the window.
Answered(i) ==
  Saved(i) \/ Refreshed(i) \/ Failed(i) \/ Rejected(i) \/ ShowConflict(i)

-----------------------------------------------------------------------------

Later ==
  /\ conflict # Absent
  /\ conflict' = Absent
  /\ UNCHANGED <<server, slots, cookie, made, tokens, session, author, plan,
                 editor, lease, saves, leaving, ghosts>>

\* The draft is decided on: its backup goes, the editor starts over from p.
Decided(p) ==
  LET l == conflict.lease
  IN  /\ conflict' = Absent
      /\ Put(CleanEffect(IF l = Absent THEN Desk ELSE EndLease(Desk, l)))
      /\ plan' = p
      /\ editor' = Opened(p)
      /\ saves' = Left
      /\ UNCHANGED <<session, ghosts>>

\* The server moved on: compare again.
Recompare ==
  /\ conflict' = Shown(conflict.mine, conflict.lease)
  /\ UNCHANGED <<slots, tokens, session, plan, editor, lease, saves, ghosts>>

\* The choice did not get through: the view stays, and the content it shows is
\* backed up, even over that of an edit it does not show. A session lost has the
\* editor back up its own again.
Undecided(lost) ==
  LET c == conflict
      decides == c.lease # Absent /\ Holds(Desk, c.lease.token)
      kept == IF decides THEN BackUp(Desk, lease, c.mine) ELSE Desk
      older == /\ decides /\ MayWrite(Desk, lease)
               /\ Dirty /\ c.mine # editor.present
  IN  /\ UNCHANGED <<conflict, author, plan, editor, saves, refused>>
      /\ reverted' =
           IF older /\ ~lost
           THEN reverted \cup {[token |-> lease.token, content |-> c.mine]}
           ELSE reverted
      /\ IF lost THEN session' = "lost" /\ Put(EditorEffect(kept))
         ELSE UNCHANGED session /\ Put(kept)

\* The server is still at the version the view shows.
Unmoved ==
  IF conflict.version = 0 THEN ~server.live
  ELSE server.live /\ server.version = conflict.version

KeepMine ==
  /\ conflict # Absent
  /\ LET next == server.version + 1
     IN  \/ cookie = Nobody /\ Undecided(TRUE) /\ UNCHANGED server
         \/ Undecided(FALSE) /\ UNCHANGED server
         \/ /\ cookie # Nobody
            /\ Unmoved
            /\ server.version < MaxVersion
            /\ server' = [version |-> next, content |-> conflict.mine,
                          live |-> TRUE, ours |-> TRUE]
            /\ \/ Decided([version |-> next, content |-> conflict.mine])
               \/ Undecided(FALSE)
         \/ cookie # Nobody /\ ~Unmoved /\ Recompare /\ UNCHANGED server
  /\ UNCHANGED <<cookie, made, author, leaving>>

KeepServer ==
  /\ conflict # Absent
  /\ \/ Undecided(FALSE)
     \/ Unmoved /\ Decided(Stored)
     \/ ~Unmoved /\ Recompare
  /\ UNCHANGED <<server, cookie, made, author, leaving>>

\* The window goes on with the copy.
SaveCopy ==
  /\ conflict # Absent
  /\ \/ cookie = Nobody /\ Undecided(TRUE)
     \/ Undecided(FALSE)
     \/ cookie # Nobody /\ Decided(Absent)
  /\ UNCHANGED <<server, cookie, made, author, leaving>>

-----------------------------------------------------------------------------

SignIn(u) ==
  /\ ~SignedIn
  /\ conflict = Absent
  /\ cookie' = u
  /\ session' = u
  /\ author' = u
  /\ UNCHANGED <<server, made, plan, editor, saves, conflict, leaving, ghosts>>
  /\ Put(EditorEffect(Desk))

\* "Abmelden" counts the drafts it warns of; without any it goes on at once.
AskSignOut ==
  /\ SignedIn
  /\ conflict = Absent
  /\ leaving = Absent
  /\ LET b == slots[session]
     IN  leaving' = [covers |-> IF b = Absent THEN {} ELSE {b.token},
                     stage |-> IF Dirty \/ b # Absent THEN "warned" ELSE "sent",
                     dirty |-> Dirty, user |-> session]
  /\ UNCHANGED <<server, slots, cookie, made, tokens, session, author, plan,
                 editor, lease, saves, conflict, ghosts>>

ConfirmSignOut ==
  /\ leaving # Absent
  /\ leaving.stage = "warned"
  /\ \/ leaving' = [leaving EXCEPT !.stage = "sent", !.dirty = Dirty]
     \/ leaving' = Absent
  /\ UNCHANGED <<server, slots, cookie, made, tokens, session, author, plan,
                 editor, lease, saves, conflict, ghosts>>

\* onSignedOut: the drafts warned of go, the window lets go of its own.
SignedOut ==
  LET u == leaving.user
      gone == IF leaving.dirty THEN Left ELSE saves
  IN  /\ leaving # Absent
      /\ leaving.stage = "sent"
      /\ leaving' = Absent
      /\ cookie' = Nobody
      /\ session' = "out"
      /\ author' = Nobody
      /\ slots' = IF slots[u] # Absent /\ slots[u].token \in leaving.covers
                  THEN [slots EXCEPT ![u] = Absent] ELSE slots
      /\ lease' = Absent
      /\ conflict' = IF conflict = Absent THEN Absent
                     ELSE [conflict EXCEPT !.lease = Absent]
      /\ saves' = [i \in Slots |-> IF gone[i] = Absent THEN Absent
                                   ELSE [gone[i] EXCEPT !.epoch = FALSE]]
      /\ editor' = IF leaving.dirty THEN Opened(plan) ELSE editor
      /\ UNCHANGED <<server, made, tokens, plan, ghosts>>

SignOutFails ==
  /\ leaving # Absent
  /\ leaving.stage = "sent"
  /\ leaving' = Absent
  /\ UNCHANGED <<server, slots, cookie, made, tokens, session, author, plan,
                 editor, lease, saves, conflict, ghosts>>

Next ==
  \/ OtherWrite \/ OtherDelete \/ Expire
  \/ Edit \/ Undo \/ Discard \/ Open \/ Reload \/ DiscardBackup
  \/ \E i \in Slots : Save(i) \/ Restore(i) \/ Serve(i) \/ Answered(i)
  \/ Later \/ KeepMine \/ KeepServer \/ SaveCopy
  \/ \E u \in Users : SignIn(u)
  \/ AskSignOut \/ ConfirmSignOut \/ SignedOut \/ SignOutFails

Spec == Init /\ [][Next]_vars

-----------------------------------------------------------------------------

Backups ==
  [token : 1 .. MaxToken, rev : Nat, base : 1 .. MaxVersion, from : Contents,
   content : Contents]

Leases ==
  [token : 1 .. MaxToken, owner : Users, base : 1 .. MaxVersion,
   from : Contents, rev : Nat, source : {"editor", "save"}]

\* No backup and no draft is an absent one.
ASSUME AbsentAssumption == Absent \notin Backups \cup Leases

Requests ==
  [content : Contents, lease : Leases,
   stage : {"sent", "ok", "network", "unauthenticated", "conflict", "reading",
            "refreshing"},
   version : 0 .. MaxVersion, here : BOOLEAN, epoch : BOOLEAN,
   restores : BOOLEAN]

\* The types of the state.
TypeOK ==
  /\ server \in [version : 1 .. MaxVersion, content : Contents, live : BOOLEAN,
                 ours : BOOLEAN]
  /\ slots \in [Users -> Backups \cup {Absent}]
  /\ cookie \in Users \cup {Nobody}
  /\ made \in Contents
  /\ tokens \in 0 .. MaxToken
  /\ session \in {"out", "lost"} \/ session \in Users
  /\ author \in Users \cup {Nobody}
  /\ plan \in [version : 1 .. MaxVersion, content : Contents] \cup {Absent}
  /\ editor \in [open : BOOLEAN, present : Contents, persisted : Contents]
  /\ ~editor.open => ~Dirty
  /\ lease \in Leases \cup {Absent}
  /\ saves \in [Slots -> Requests \cup {Absent}]
  /\ conflict # Absent =>
       conflict \in [mine : Contents, version : 0 .. MaxVersion,
                     lease : Leases \cup {Absent}]
  /\ leaving # Absent =>
       leaving \in [covers : SUBSET (1 .. MaxToken), stage : {"warned", "sent"},
                    dirty : BOOLEAN, user : Users]
  /\ refused \subseteq 1 .. MaxToken
  /\ reverted \subseteq [token : 1 .. MaxToken, content : Contents]

-----------------------------------------------------------------------------

\* The server stores a save.
Stores(i) ==
  /\ server' # server
  /\ saves[i] # Absent
  /\ saves[i].stage = "sent"
  /\ saves'[i] # Absent
  /\ saves'[i].stage # "sent"

\* Drafts whose backup may be behind the editor.
exposed == refused \cup {r.token : r \in reverted}

Removed(u) ==
  /\ slots[u] # Absent
  /\ slots'[u] = Absent \/ slots'[u].content # slots[u].content

\* "So that concurrent editing does not lead to silent overwrites" (ADR 0006):
\* a save replaces the state its draft began from, or this window's own write.
NoSilentOverwrite ==
  [][\A i \in Slots : Stores(i) =>
       server.content = saves[i].lease.from \/ server.ours]_vars

\* The last step of restoring a draft, which reads the plan again.
Rereads(s) ==
  s.restores /\ (s.stage = "refreshing" \/ (s.stage = "ok" /\ ~s.here))

\* A draft goes from the backups of u, and not for what the editor now holds.
Taken(u) ==
  /\ Removed(u)
  /\ slots'[u] # Absent => slots'[u].content # editor'.present

\* The answer to a save, or to a draft restored, takes no draft out of its
\* author's backups but the content that was saved, whatever the user did while
\* the request ran. A draft still in the editor may go from the backups of one
\* user when another has signed in, and saved it, since.
\* A draft whose backup may be behind the editor (EditsBackedUp) is saved as the
\* editor has it, and its backup goes with that.
AnswersRemoveOnlySaved ==
  [][\A u \in Users, i \in Slots :
       (/\ Taken(u)
        /\ slots[u].token \notin exposed
        /\ Answered(i) /\ ~Rereads(saves[i]))
         => \/ /\ saves[i].stage \in {"ok", "refreshing"}
               /\ slots[u].content = saves[i].content
            \/ author' # u /\ slots[u].content = editor'.present]_vars

\* The answer for a draft that was left, and discarded or signed out of, opens
\* no conflict view, takes no draft out of the backups and ends no other draft.
StaleAnswersEndNothing ==
  [][\A i \in Slots :
       (/\ saves[i] # Absent /\ ~saves[i].here
        /\ ~saves[i].epoch \/ ~Holds(Desk, saves[i].lease.token)
        /\ Answered(i) /\ ~Rereads(saves[i]))
         => /\ \A u \in Users : ~Taken(u)
            /\ conflict' = conflict
            /\ lease # Absent => lease' # Absent /\ lease'.token = lease.token]_vars

\* The answer to a save ends and removes only what it was about: its own draft
\* at the revision that was saved, and nothing if the plan was left meanwhile.
AnswersEndOnlyTheirs == AnswersRemoveOnlySaved /\ StaleAnswersEndNothing

\* A conflict choice that failed put this content back (resolveConflict).
PutBack(b) == [token |-> b.token, content |-> b.content] \in reverted

\* While the editor is dirty its latest content is in its author's backups, if
\* the draft has a backup, with two exceptions. A draft whose last edit was refused
\* a backup has an older content there, if any, until an edit is backed up again.
\* After a conflict choice that failed, and until the next edit, the backup holds
\* what the conflict view showed, even if the editor holds something newer.
EditsBackedUp ==
  (/\ Dirty
   /\ lease # Absent
   /\ lease.rev > 0
   /\ lease.token \notin refused)
    => LET b == slots[lease.owner]
       IN  /\ b # Absent
           /\ b.token = lease.token
           /\ b.content = editor.present \/ PutBack(b)

\* "A saved, settled or discarded draft never removes a newer or another
\* draft's backup" (draftBackupModel.ts:215): what the end of restoring a draft
\* takes out of the backups is the content that was restored.
RestoringRemovesOnlyRestored ==
  [][\A u \in Users, i \in Slots :
       (Removed(u) /\ Answered(i) /\ Rereads(saves[i]))
         => slots[u].content = saves[i].content]_vars

\* By the same comment, settling a conflict removes only the draft that the
\* conflict view showed.
SettlingRemovesOnlyDecided ==
  [][\A u \in Users :
       (/\ conflict # Absent
        /\ conflict' = Absent
        /\ Removed(u))
         => slots[u].content = conflict.mine]_vars
=============================================================================
