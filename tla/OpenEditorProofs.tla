--------------------------- MODULE OpenEditorProofs ---------------------------
(***************************************************************************)
(* For any users and bounds: the types of OpenEditor, that no save         *)
(* overwrites what its user did not know, that edits are backed up, and    *)
(* that answers end only their own draft.                                  *)
(*                                                                         *)
(* A version alone does not tell what was replaced: the content that came  *)
(* with it must have been the server's at that version.  So the invariant  *)
(* says of every version the window remembers (of the open plan, the       *)
(* lease, the leases of saves under way, the backups) that it is the       *)
(* server's only together with the server's content, unless this window    *)
(* wrote that version itself.                                              *)
(***************************************************************************)
EXTENDS OpenEditor, TLAPS

USE EditorAssumption DEF Contents

Servers ==
  [version : 1 .. MaxVersion, content : Contents, live : BOOLEAN, ours : BOOLEAN]

\* Version v, with content c, is not a false memory of server s.
Knows(s, v, c) ==
  /\ v <= s.version
  /\ v = s.version /\ ~s.ours => c = s.content

\* Leases, backups and plans of a window that has begun n drafts.
KnownLeases(s, n) ==
  {l \in [token : 1 .. n, owner : Users, base : 1 .. MaxVersion,
          from : Contents, rev : Nat, source : {"editor", "save"}] :
     Knows(s, l.base, l.from)}

KnownBackups(s, n) ==
  {b \in [token : 1 .. n, rev : Nat, base : 1 .. MaxVersion, from : Contents,
          content : Contents] : Knows(s, b.base, b.from)}

KnownPlans(s) ==
  {p \in [version : 1 .. MaxVersion, content : Contents] :
     Knows(s, p.version, p.content)}

\* A version a save brought back was written by this window.
KnownRequests(s, n) ==
  {r \in [content : Contents, lease : KnownLeases(s, n),
          stage : {"sent", "ok", "network", "unauthenticated", "conflict",
                   "reading", "refreshing"},
          version : 0 .. MaxVersion, here : BOOLEAN, epoch : BOOLEAN,
          restores : BOOLEAN] :
     /\ r.version <= s.version
     /\ r.version = s.version => s.ours
     /\ r.stage \in {"ok", "refreshing"} => r.version # 0}

KnownDesk(s, d) ==
  /\ d \in [lease : KnownLeases(s, d.tokens) \cup {Absent},
            slots : [Users -> KnownBackups(s, d.tokens) \cup {Absent}],
            tokens : Nat]

Conflicts(n) ==
  [mine : Contents, version : 0 .. MaxVersion,
   lease : [token : 1 .. n, owner : Users, base : 1 .. MaxVersion,
            from : Contents, rev : Nat, source : {"editor", "save"}]
           \cup {Absent}]

SignOuts ==
  [covers : SUBSET (1 .. MaxToken), stage : {"warned", "sent"},
   dirty : BOOLEAN, user : Users]

GhostsTyped ==
  /\ refused \in SUBSET (1 .. MaxToken)
  /\ reverted \in SUBSET [token : 1 .. MaxToken, content : Contents]

WindowInv ==
  /\ server \in Servers
  /\ cookie \in Users \cup {Nobody}
  /\ made \in Contents
  /\ session \in Users \cup {"out", "lost"}
  /\ author \in Users \cup {Nobody}
  /\ SignedIn => author \in Users
  /\ GhostsTyped
  /\ leaving # Absent => leaving \in SignOuts

DraftInv ==
  /\ tokens <= MaxToken
  /\ KnownDesk(server, Desk)
  /\ saves \in [Slots -> KnownRequests(server, tokens) \cup {Absent}]
  /\ conflict # Absent => conflict \in Conflicts(tokens)

PlanInv ==
  /\ plan \in KnownPlans(server) \cup {Absent}
  /\ editor \in [open : BOOLEAN, present : Contents, persisted : Contents]
  /\ ~editor.open => ~Dirty
  /\ editor.open => plan \in KnownPlans(server)

IInv == WindowInv /\ DraftInv /\ PlanInv

-----------------------------------------------------------------------------
(* What a desk knows after each of its functions.                          *)

\* A draft that begins takes the plan for what it replaces.
LEMMA EnsureLeaseKnows ==
  ASSUME NEW s \in Servers, NEW d, KnownDesk(s, d),
         author' \in Users \cup {Nobody}, plan' \in KnownPlans(s),
         NEW source \in {"editor", "save"}
  PROVE  /\ KnownDesk(s, EnsureLease(d, source))
         /\ d.tokens <= EnsureLease(d, source).tokens
<1>1. CASE d.lease # Absent \/ author' = Nobody
  BY <1>1 DEF EnsureLease, KnownDesk
<1>2. CASE ~(d.lease # Absent \/ author' = Nobody)
  <2> DEFINE l == [token |-> d.tokens + 1, owner |-> author',
                   base |-> plan'.version, from |-> plan'.content,
                   rev |-> 0, source |-> source]
             e == EnsureLease(d, source)
  <2>1. /\ e = [lease |-> l, slots |-> d.slots, tokens |-> d.tokens + 1]
        /\ d.tokens \in Nat
    BY <1>2 DEF EnsureLease, KnownDesk
  <2>2. l \in KnownLeases(s, d.tokens + 1)
    BY <1>2, <2>1 DEF KnownLeases, KnownPlans, Knows
  <2>3. KnownBackups(s, d.tokens) \subseteq KnownBackups(s, d.tokens + 1)
    BY <2>1 DEF KnownBackups
  <2> HIDE DEF l, e
  <2>4. KnownDesk(s, e)
    BY <2>1, <2>2, <2>3 DEF KnownDesk
  <2> QED
    BY <2>1, <2>4 DEF e
<1> QED
  BY <1>1, <1>2

\* A backup says what its draft began from.
LEMMA BackUpKnows ==
  ASSUME NEW s \in Servers, NEW d, KnownDesk(s, d),
         NEW l \in KnownLeases(s, d.tokens), NEW content \in Contents
  PROVE  KnownDesk(s, BackUp(d, l, content)) /\ BackUp(d, l, content).tokens = d.tokens
<1>1. CASE ~Holds(d, l.token) \/ ~MayWrite(d, l)
  BY <1>1 DEF BackUp, KnownDesk
<1>2. CASE Holds(d, l.token) /\ MayWrite(d, l)
  <2> DEFINE kept == [d.lease EXCEPT !.rev = l.rev + 1]
             b == [token |-> l.token, rev |-> l.rev + 1, base |-> l.base,
                   from |-> l.from, content |-> content]
             e == BackUp(d, l, content)
  <2>1. e = [lease |-> kept, slots |-> [d.slots EXCEPT ![l.owner] = b],
             tokens |-> d.tokens]
    BY <1>2 DEF BackUp, KnownDesk
  <2>2. d.lease \in KnownLeases(s, d.tokens)
    BY <1>2 DEF Holds, KnownDesk
  <2>3. kept \in KnownLeases(s, d.tokens)
    BY <2>2 DEF KnownLeases, Knows
  <2>4. b \in KnownBackups(s, d.tokens)
    BY DEF KnownLeases, KnownBackups
  <2> HIDE DEF kept, b, e
  <2>5. KnownDesk(s, e) /\ e.tokens = d.tokens
    BY <2>1, <2>3, <2>4 DEF KnownDesk
  <2> QED
    BY <2>5 DEF e
<1> QED
  BY <1>1, <1>2

\* Ending a draft only forgets.
LEMMA EndLeaseAtKnows ==
  ASSUME NEW s \in Servers, NEW d, KnownDesk(s, d), NEW l, NEW revs
  PROVE  KnownDesk(s, EndLeaseAt(d, l, revs)) /\ EndLeaseAt(d, l, revs).tokens = d.tokens
  BY DEF EndLeaseAt, KnownDesk, Holds

LEMMA EndsKnow ==
  ASSUME NEW s \in Servers, NEW d, KnownDesk(s, d), NEW l
  PROVE  /\ KnownDesk(s, EndLease(d, l)) /\ EndLease(d, l).tokens = d.tokens
         /\ KnownDesk(s, EndHeld(d)) /\ EndHeld(d).tokens = d.tokens
         /\ KnownDesk(s, CleanEffect(d)) /\ CleanEffect(d).tokens = d.tokens
<1>1. \A k : KnownDesk(s, EndLease(d, k)) /\ EndLease(d, k).tokens = d.tokens
  BY EndLeaseAtKnows DEF EndLease
<1> QED
  BY <1>1 DEF EndHeld, CleanEffect

\* Newer edits continue from the version that was saved.
LEMMA RebaseKnows ==
  ASSUME NEW s \in Servers, NEW d, KnownDesk(s, d), d.lease # Absent,
         NEW p \in KnownPlans(s)
  PROVE  KnownDesk(s, Rebase(d, p)) /\ Rebase(d, p).tokens = d.tokens
<1> DEFINE l == [d.lease EXCEPT !.base = p.version, !.from = p.content]
           b == d.slots[d.lease.owner]
           c == [b EXCEPT !.base = p.version, !.from = p.content]
           e == Rebase(d, p)
<1>1. l \in KnownLeases(s, d.tokens) /\ d.lease.owner \in Users
  BY DEF KnownDesk, KnownLeases, KnownPlans, Knows
<1>2. b # Absent => c \in KnownBackups(s, d.tokens)
  BY <1>1 DEF KnownDesk, KnownBackups, KnownPlans, Knows
<1>3. \/ e = [lease |-> l, slots |-> d.slots, tokens |-> d.tokens]
      \/ /\ b # Absent
         /\ e = [lease |-> l, slots |-> [d.slots EXCEPT ![d.lease.owner] = c],
                 tokens |-> d.tokens]
  BY <1>1 DEF Rebase, KnownDesk
<1> HIDE DEF l, b, c, e
<1>4. KnownDesk(s, e) /\ e.tokens = d.tokens
  BY <1>1, <1>2, <1>3 DEF KnownDesk
<1> QED
  BY <1>4 DEF e

LEMMA EditorEffectKnows ==
  ASSUME NEW s \in Servers, NEW d, KnownDesk(s, d),
         author' \in Users \cup {Nobody},
         editor'.present \in Contents,
         editor'.present = editor'.persisted \/ plan' \in KnownPlans(s)
  PROVE  /\ KnownDesk(s, EditorEffect(d))
         /\ d.tokens <= EditorEffect(d).tokens
<1>1. CASE editor'.present = editor'.persisted
  BY <1>1, EndsKnow DEF EditorEffect, KnownDesk
<1>2. CASE editor'.present # editor'.persisted
  <2> DEFINE begun == EnsureLease(d, "editor")
  <2>1. KnownDesk(s, begun) /\ d.tokens <= begun.tokens
    BY <1>2, EnsureLeaseKnows
  <2>2. EditorEffect(d) = IF begun.lease = Absent THEN begun
                          ELSE BackUp(begun, begun.lease, editor'.present)
    BY <1>2 DEF EditorEffect
  <2> HIDE DEF begun
  <2>3. begun.lease # Absent => begun.lease \in KnownLeases(s, begun.tokens)
    BY <2>1 DEF KnownDesk
  <2> QED
    BY <2>1, <2>2, <2>3, BackUpKnows
<1> QED
  BY <1>1, <1>2

\* Drafts begun later take nothing from what was known.
LEMMA MoreDrafts ==
  ASSUME NEW s \in Servers, NEW n \in Nat, NEW m \in Nat, n <= m
  PROVE  /\ KnownLeases(s, n) \subseteq KnownLeases(s, m)
         /\ KnownBackups(s, n) \subseteq KnownBackups(s, m)
         /\ KnownRequests(s, n) \subseteq KnownRequests(s, m)
         /\ Conflicts(n) \subseteq Conflicts(m)
<1>1. 1 .. n \subseteq 1 .. m
  OBVIOUS
<1>2. /\ KnownLeases(s, n) \subseteq KnownLeases(s, m)
      /\ KnownBackups(s, n) \subseteq KnownBackups(s, m)
  BY <1>1 DEF KnownLeases, KnownBackups
<1>3. KnownRequests(s, n) \subseteq KnownRequests(s, m)
  BY <1>2 DEF KnownRequests
<1>4. Conflicts(n) \subseteq Conflicts(m)
  BY <1>1 DEF Conflicts
<1> QED
  BY <1>2, <1>3, <1>4

\* A write makes every version known an older one; a deletion is no version.
Follows(s, t) ==
  \/ s.version < t.version
  \/ s.version = t.version /\ s.content = t.content /\ s.ours = t.ours

LEMMA ServerMoves ==
  ASSUME NEW s \in Servers, NEW t \in Servers, Follows(s, t), NEW n \in Nat
  PROVE  /\ KnownLeases(s, n) \subseteq KnownLeases(t, n)
         /\ KnownBackups(s, n) \subseteq KnownBackups(t, n)
         /\ KnownRequests(s, n) \subseteq KnownRequests(t, n)
         /\ KnownPlans(s) \subseteq KnownPlans(t)
<1> USE DEF Servers, Follows
<1>1. ASSUME NEW v \in 1 .. MaxVersion, NEW c, Knows(s, v, c)
      PROVE  Knows(t, v, c)
  BY <1>1 DEF Knows
<1>2. /\ KnownLeases(s, n) \subseteq KnownLeases(t, n)
      /\ KnownBackups(s, n) \subseteq KnownBackups(t, n)
      /\ KnownPlans(s) \subseteq KnownPlans(t)
  BY <1>1 DEF KnownLeases, KnownBackups, KnownPlans
<1>3. KnownRequests(s, n) \subseteq KnownRequests(t, n)
  BY <1>2 DEF KnownRequests
<1> QED
  BY <1>2, <1>3

\* Putting a desk down.
LEMMA PutKeeps ==
  ASSUME NEW s \in Servers, NEW d, KnownDesk(s, d), Put(d), tokens \in Nat,
         tokens <= d.tokens
  PROVE  /\ KnownDesk(s, Desk')
         /\ tokens' \in Nat /\ tokens <= tokens' /\ tokens' <= MaxToken
  BY DEF Put, KnownDesk, Desk

LEMMA DeskIs ==
  ASSUME DraftInv
  PROVE  /\ tokens \in Nat /\ Desk.tokens = tokens
         /\ Desk.lease = lease /\ Desk.slots = slots
         /\ lease # Absent => lease \in KnownLeases(server, tokens)
         /\ slots \in [Users -> KnownBackups(server, tokens) \cup {Absent}]
  BY DEF DraftInv, KnownDesk, Desk

\* What a step leaves of saves and conflict stays known.
LEMMA RestKnown ==
  ASSUME DraftInv, server' = server, server \in Servers, tokens' \in Nat,
         tokens <= tokens'
  PROVE  /\ saves \in [Slots -> KnownRequests(server', tokens') \cup {Absent}]
         /\ conflict # Absent => conflict \in Conflicts(tokens')
  BY DeskIs, MoreDrafts DEF DraftInv

LEMMA DraftStep ==
  ASSUME DraftInv, server \in Servers, server' = server,
         NEW d, KnownDesk(server, d), tokens <= d.tokens, Put(d),
         \/ saves' = saves
         \/ saves' \in [Slots -> KnownRequests(server', tokens') \cup {Absent}],
         \/ conflict' = conflict
         \/ conflict' = Absent
         \/ conflict' \in Conflicts(tokens')
  PROVE  DraftInv'
<1>1. tokens \in Nat
  BY DeskIs
<1>2. /\ KnownDesk(server, Desk')
      /\ tokens' \in Nat /\ tokens <= tokens' /\ tokens' <= MaxToken
  BY <1>1, PutKeeps
<1>3. /\ saves \in [Slots -> KnownRequests(server', tokens') \cup {Absent}]
      /\ conflict # Absent => conflict \in Conflicts(tokens')
  BY <1>2, RestKnown
<1> QED
  BY <1>2, <1>3 DEF DraftInv

Stages ==
  {"sent", "ok", "network", "unauthenticated", "conflict", "reading",
   "refreshing"}

LEMMA AnswerKnows ==
  ASSUME NEW s \in Servers, NEW n \in Nat,
         saves \in [Slots -> KnownRequests(s, n) \cup {Absent}],
         NEW i \in Slots, saves[i] # Absent,
         NEW stage \in Stages, NEW version \in 0 .. MaxVersion,
         version <= s.version, version = s.version => s.ours,
         stage \in {"ok", "refreshing"} => version # 0,
         Answer(i, stage, version)
  PROVE  saves' \in [Slots -> KnownRequests(s, n) \cup {Absent}]
<1> DEFINE r == [[saves[i] EXCEPT !.stage = stage] EXCEPT !.version = version]
<1>1. r \in KnownRequests(s, n)
  BY DEF KnownRequests, Stages
<1>2. saves' = [saves EXCEPT ![i] = r]
  BY DEF Answer
<1> HIDE DEF r
<1> QED
  BY <1>1, <1>2

LEMMA LeftKnown ==
  ASSUME NEW s \in Servers, NEW n \in Nat,
         saves \in [Slots -> KnownRequests(s, n) \cup {Absent}]
  PROVE  Left \in [Slots -> KnownRequests(s, n) \cup {Absent}]
<1>1. \A i \in Slots : saves[i] # Absent =>
        [saves[i] EXCEPT !.here = FALSE] \in KnownRequests(s, n)
  BY DEF KnownRequests
<1> QED
  BY <1>1 DEF Left

LEMMA DoneKnown ==
  ASSUME NEW s \in Servers, NEW n \in Nat,
         saves \in [Slots -> KnownRequests(s, n) \cup {Absent}],
         NEW i \in Slots, Done(i)
  PROVE  saves' \in [Slots -> KnownRequests(s, n) \cup {Absent}]
  BY DEF Done

\* What is read of the plan is the server's.
LEMMA StoredKnown ==
  ASSUME NEW s, s = server, server \in Servers
  PROVE  Stored \in KnownPlans(s) \cup {Absent}
  BY DEF Stored, Servers, KnownPlans, Knows

LEMMA OpenedCloses ==
  ASSUME NEW p, p = Absent \/ p.content \in Contents
  PROVE  /\ Opened(p) \in [open : BOOLEAN, present : Contents, persisted : Contents]
         /\ ~Opened(p).open /\ Opened(p).present = Opened(p).persisted
  BY DEF Opened, Closed

-----------------------------------------------------------------------------
(* The steps.                                                              *)

LEMMA InitIInv == Init => IInv
<1> SUFFICES ASSUME Init PROVE IInv
  OBVIOUS
<1>1. /\ server \in Servers /\ tokens = 0 /\ Stored \in KnownPlans(server)
  BY DEF Init, Stored, Servers, KnownPlans, Knows
<1>2. WindowInv
  BY <1>1 DEF Init, WindowInv, GhostsTyped, ghosts
<1>3. DraftInv
  BY DEF Init, DraftInv, KnownDesk, Desk
<1>4. PlanInv
  BY <1>1, OpenedCloses DEF Init, PlanInv, Dirty, KnownPlans
<1> QED
  BY <1>2, <1>3, <1>4 DEF IInv

\* Another device writes or deletes the plan.
LEMMA ElsewhereStep ==
  ASSUME IInv, OtherWrite \/ OtherDelete
  PROVE  IInv'
<1>1. /\ UNCHANGED <<slots, cookie, tokens, windowVars, ghosts>>
      /\ made' \in Contents
  BY DEF OtherWrite, OtherDelete, IInv, WindowInv
<1>2. server' \in Servers /\ Follows(server, server')
  <2>1. CASE OtherWrite
    <3>1. server.version + 1 \in 1 .. MaxVersion /\ made + 1 \in Contents
      BY <2>1 DEF OtherWrite, IInv, WindowInv, Servers
    <3>2. /\ server' = [version |-> server.version + 1, content |-> made + 1,
                        live |-> TRUE, ours |-> FALSE]
          /\ server.version \in Nat
      BY <2>1 DEF OtherWrite, IInv, WindowInv, Servers
    <3>3. server' \in Servers
      BY <3>1, <3>2 DEF Servers
    <3>4. server.version < server'.version
      BY <3>2
    <3> QED
      BY <3>3, <3>4 DEF Follows
  <2>2. CASE OtherDelete
    <3>1. server \in Servers /\ server' = [server EXCEPT !.live = FALSE]
      BY <2>2 DEF OtherDelete, IInv, WindowInv
    <3>2. /\ server'.version = server.version /\ server'.ours = server.ours
          /\ server'.content = server.content /\ server' \in Servers
      BY <3>1 DEF Servers
    <3> QED
      BY <3>2 DEF Follows
  <2> QED
    BY <2>1, <2>2
<1>3. WindowInv'
  BY <1>1, <1>2 DEF IInv, WindowInv, windowVars, SignedIn, GhostsTyped, ghosts
<1>4. DraftInv'
  <2>1. tokens \in Nat
    BY DeskIs DEF IInv
  <2>2. /\ KnownLeases(server, tokens) \subseteq KnownLeases(server', tokens)
        /\ KnownBackups(server, tokens) \subseteq KnownBackups(server', tokens)
        /\ KnownRequests(server, tokens) \subseteq KnownRequests(server', tokens)
    BY <1>2, <2>1, ServerMoves DEF IInv, WindowInv
  <2> QED
    BY <1>1, <2>2 DEF IInv, DraftInv, KnownDesk, Desk, windowVars
<1>5. PlanInv'
  BY <1>1, <1>2, ServerMoves DEF IInv, WindowInv, PlanInv, Dirty, windowVars
<1> QED
  BY <1>3, <1>4, <1>5 DEF IInv

\* A step that begins no draft.
LEMMA DraftsStay ==
  ASSUME DraftInv, server' = server, server \in Servers, tokens' = tokens,
         lease' \in KnownLeases(server, tokens) \cup {Absent},
         slots' \in [Users -> KnownBackups(server, tokens) \cup {Absent}],
         saves' \in [Slots -> KnownRequests(server, tokens) \cup {Absent}],
         conflict' # Absent => conflict' \in Conflicts(tokens)
  PROVE  DraftInv'
<1>1. /\ tokens \in Nat /\ tokens <= MaxToken
  BY DeskIs DEF DraftInv
<1>2. KnownDesk(server', Desk')
  BY <1>1 DEF KnownDesk, Desk
<1> QED
  BY <1>1, <1>2 DEF DraftInv

\* What DraftsStay asks of a step that leaves this part alone.
LEMMA DraftsKnown ==
  ASSUME DraftInv
  PROVE  /\ lease \in KnownLeases(server, tokens) \cup {Absent}
         /\ slots \in [Users -> KnownBackups(server, tokens) \cup {Absent}]
         /\ saves \in [Slots -> KnownRequests(server, tokens) \cup {Absent}]
         /\ conflict # Absent => conflict \in Conflicts(tokens)
         /\ tokens \in Nat /\ tokens <= MaxToken
  BY DeskIs DEF DraftInv

\* Steps that touch no draft at all.
LEMMA AsideStep ==
  ASSUME IInv, Expire \/ Later \/ AskSignOut \/ ConfirmSignOut \/ SignOutFails
  PROVE  IInv'
<1>1. /\ UNCHANGED <<server, slots, made, tokens, session, author, plan,
                     editor, lease, saves, ghosts>>
      /\ conflict' = conflict \/ conflict' = Absent
      /\ cookie' = cookie \/ cookie' = Nobody
      /\ leaving' # Absent => leaving' \in SignOuts
  <2>1. CASE Expire \/ Later \/ SignOutFails
    BY <2>1 DEF Expire, Later, SignOutFails, windowVars, IInv, WindowInv
  <2>2. CASE ConfirmSignOut
    <3>1. leaving \in SignOuts /\ Dirty \in BOOLEAN
      BY <2>2 DEF ConfirmSignOut, IInv, WindowInv, Dirty
    <3> QED
      BY <2>2, <3>1 DEF ConfirmSignOut, SignOuts
  <2>3. CASE AskSignOut
    <3> DEFINE b == slots[session]
    <3>1. session \in Users /\ Dirty \in BOOLEAN
      BY <2>3 DEF AskSignOut, SignedIn, Dirty
    <3>2. b # Absent => b.token \in 1 .. MaxToken
      BY <3>1, DraftsKnown DEF IInv, KnownBackups
    <3>3. leaving' = [covers |-> IF b = Absent THEN {} ELSE {b.token},
                      stage |-> IF Dirty \/ b # Absent THEN "warned" ELSE "sent",
                      dirty |-> Dirty, user |-> session]
      BY <2>3 DEF AskSignOut
    <3> HIDE DEF b
    <3>4. leaving' \in SignOuts
      BY <3>1, <3>2, <3>3 DEF SignOuts
    <3> QED
      BY <2>3, <3>4 DEF AskSignOut
  <2> QED
    BY <2>1, <2>2, <2>3
<1>2. WindowInv'
  BY <1>1 DEF IInv, WindowInv, SignedIn, GhostsTyped, ghosts
<1>3. DraftInv'
  BY <1>1, DraftsKnown, DraftsStay DEF IInv, WindowInv
<1>4. PlanInv'
  BY <1>1 DEF IInv, PlanInv, Dirty
<1> QED
  BY <1>2, <1>3, <1>4 DEF IInv

\* A plan opened closes the editor on it.
LEMMA PlanOpened ==
  ASSUME server \in Servers, server' = server,
         plan' \in KnownPlans(server) \cup {Absent}, editor' = Opened(plan')
  PROVE  PlanInv'
<1>1. plan' = Absent \/ plan'.content \in Contents
  BY DEF KnownPlans
<1> QED
  BY <1>1, OpenedCloses DEF PlanInv, Dirty

LEMMA OpenStep ==
  ASSUME IInv, Open
  PROVE  IInv'
<1>1. WindowInv'
  BY DEF Open, IInv, WindowInv, SignedIn, GhostsTyped, ghosts
<1>2. DraftInv'
  BY DraftsKnown, LeftKnown, DraftsStay DEF Open, IInv, WindowInv
<1>3. PlanInv'
  BY StoredKnown, PlanOpened DEF Open, IInv, WindowInv
<1> QED
  BY <1>1, <1>2, <1>3 DEF IInv

LEMMA ReloadStep ==
  ASSUME IInv, Reload
  PROVE  IInv'
<1>1. WindowInv'
  BY DEF Reload, IInv, WindowInv, SignedIn, GhostsTyped, ghosts
<1>2. DraftInv'
  BY DraftsKnown, DraftsStay DEF Reload, IInv, WindowInv
<1>3. PlanInv'
  BY StoredKnown, PlanOpened DEF Reload, IInv, WindowInv
<1> QED
  BY <1>1, <1>2, <1>3 DEF IInv

LEMMA DiscardBackupStep ==
  ASSUME IInv, DiscardBackup
  PROVE  IInv'
<1>1. WindowInv'
  BY DEF DiscardBackup, IInv, WindowInv, SignedIn, GhostsTyped, ghosts
<1>2. DraftInv'
  BY DraftsKnown, DraftsStay DEF DiscardBackup, IInv, WindowInv
<1>3. PlanInv'
  BY DEF DiscardBackup, IInv, PlanInv, Dirty
<1> QED
  BY <1>1, <1>2, <1>3 DEF IInv

LEMMA SignedOutStep ==
  ASSUME IInv, SignedOut
  PROVE  IInv'
<1>1. WindowInv'
  BY DEF SignedOut, IInv, WindowInv, SignedIn, GhostsTyped, ghosts
<1>2. DraftInv'
  <2> DEFINE gone == IF leaving.dirty THEN Left ELSE saves
  <2>1. gone \in [Slots -> KnownRequests(server, tokens) \cup {Absent}]
    BY DraftsKnown, LeftKnown DEF IInv, WindowInv
  <2>2. saves' = [i \in Slots |-> IF gone[i] = Absent THEN Absent
                                  ELSE [gone[i] EXCEPT !.epoch = FALSE]]
    BY DEF SignedOut
  <2> HIDE DEF gone
  <2>3. \A i \in Slots : gone[i] # Absent =>
          [gone[i] EXCEPT !.epoch = FALSE] \in KnownRequests(server, tokens)
    BY <2>1 DEF KnownRequests
  <2>4. saves' \in [Slots -> KnownRequests(server, tokens) \cup {Absent}]
    BY <2>1, <2>2, <2>3
  <2>5. conflict' # Absent => conflict' \in Conflicts(tokens)
    BY DraftsKnown DEF SignedOut, IInv, Conflicts
  <2>6. /\ lease' \in KnownLeases(server, tokens) \cup {Absent}
        /\ slots' \in [Users -> KnownBackups(server, tokens) \cup {Absent}]
    BY DraftsKnown DEF SignedOut, IInv
  <2> QED
    BY <2>4, <2>5, <2>6, DraftsStay DEF SignedOut, IInv, WindowInv
<1>3. PlanInv'
  <2>1. CASE leaving.dirty
    BY <2>1, PlanOpened DEF SignedOut, IInv, WindowInv, PlanInv
  <2>2. CASE ~leaving.dirty
    BY <2>2 DEF SignedOut, IInv, PlanInv, Dirty
  <2> QED
    BY <2>1, <2>2
<1> QED
  BY <1>1, <1>2, <1>3 DEF IInv

\* A step of the drafts alone leaves the window as it is.
LEMMA WindowStays ==
  ASSUME WindowInv,
         UNCHANGED <<server, cookie, made, session, author, leaving, ghosts>>
  PROVE  WindowInv'
  BY DEF WindowInv, SignedIn, GhostsTyped, ghosts

LEMMA EditStep ==
  ASSUME IInv, Edit
  PROVE  IInv'
<1>1. /\ made < MaxContent /\ made \in 0 .. MaxContent /\ made' = made + 1
      /\ editor' = [editor EXCEPT !.open = TRUE, !.present = made + 1]
      /\ plan' = plan /\ plan \in KnownPlans(server) /\ plan # Absent
      /\ server' = server
      /\ author' = author /\ author \in Users \cup {Nobody}
      /\ conflict' = conflict /\ server \in Servers
  BY DEF Edit, IInv, WindowInv, PlanInv
<1>2. made + 1 \in 0 .. MaxContent
  BY <1>1
<1>3. /\ editor' \in [open : BOOLEAN, present : 0 .. MaxContent,
                      persisted : 0 .. MaxContent]
      /\ editor'.open
  BY <1>1, <1>2 DEF IInv, PlanInv
<1>4. KnownDesk(server, Desk) /\ tokens \in Nat /\ Desk.tokens = tokens
  BY DeskIs DEF IInv, DraftInv
<1>5. /\ KnownDesk(server, EditorEffect(Desk))
      /\ tokens <= EditorEffect(Desk).tokens
  BY <1>1, <1>3, <1>4, EditorEffectKnows
<1>6. Put(EditorEffect(Desk))
  BY DEF Edit
<1>7. KnownDesk(server, Desk') /\ tokens' \in Nat /\ tokens <= tokens'
      /\ tokens' <= MaxToken
  BY <1>1, <1>4, <1>5, <1>6, PutKeeps
<1>8. DraftInv'
  <2>1. saves' \in [Slots -> KnownRequests(server', tokens') \cup {Absent}]
    <3>1. saves' = saves \/ saves' = Left
      BY DEF Edit
    <3>2. saves \in [Slots -> KnownRequests(server, tokens') \cup {Absent}]
      BY <1>1, <1>7, RestKnown DEF IInv
    <3> QED
      BY <1>1, <1>7, <3>1, <3>2, LeftKnown
  <2> QED
    BY <1>1, <1>5, <1>6, <2>1, DraftStep DEF IInv
<1>9. WindowInv'
  <2>1. lease' # Absent => lease'.token \in 1 .. MaxToken
    BY <1>7 DEF KnownDesk, Desk, KnownLeases
  <2>2. GhostsTyped'
    BY <2>1 DEF Edit, IInv, WindowInv, GhostsTyped
  <2> QED
    BY <1>1, <1>2, <2>2 DEF Edit, IInv, WindowInv, SignedIn
<1>10. PlanInv'
  BY <1>1, <1>3 DEF PlanInv
<1> QED
  BY <1>8, <1>9, <1>10 DEF IInv

LEMMA UndoStep ==
  ASSUME IInv, Undo \/ Discard
  PROVE  IInv'
<1>1. KnownDesk(server, Desk) /\ Desk.tokens = tokens /\ tokens \in Nat
  BY DeskIs DEF IInv, DraftInv
<1>2. WindowInv'
  BY WindowStays DEF Undo, Discard, IInv
<1>3. DraftInv'
  <2> DEFINE d == IF Undo THEN CleanEffect(Desk) ELSE EndHeld(Desk)
  <2>1. KnownDesk(server, d) /\ d.tokens = tokens
    BY <1>1, EndsKnow DEF IInv, WindowInv
  <2>2. Put(d)
    BY DEF Undo, Discard
  <2>3. tokens' = tokens
    BY <2>1, <2>2 DEF Put
  <2>4. \/ saves' = saves
        \/ saves' \in [Slots -> KnownRequests(server', tokens') \cup {Absent}]
    BY <1>1, <2>3, DraftsKnown, LeftKnown DEF Undo, Discard, IInv, WindowInv
  <2> HIDE DEF d
  <2> QED
    BY <1>1, <2>1, <2>2, <2>4, DraftStep DEF Undo, Discard, IInv, WindowInv
<1>4. PlanInv'
  <2>1. CASE Undo
    BY <2>1 DEF Undo, IInv, PlanInv, Dirty
  <2>2. CASE Discard
    BY <2>2, PlanOpened DEF Discard, IInv, WindowInv, PlanInv
  <2> QED
    BY <2>1, <2>2
<1> QED
  BY <1>2, <1>3, <1>4 DEF IInv

\* A request remembers the draft it saves.
LEMMA RequestKnown ==
  ASSUME NEW s \in Servers, NEW n \in Nat, NEW content \in Contents,
         NEW l \in KnownLeases(s, n), NEW restores \in BOOLEAN
  PROVE  Request(content, l, restores) \in KnownRequests(s, n)
  BY DEF Request, KnownRequests, Servers

LEMMA SaveStep ==
  ASSUME IInv, NEW i \in Slots, Save(i)
  PROVE  IInv'
<1> DEFINE d == EnsureLease(Desk, "save")
<1>1. /\ KnownDesk(server, Desk) /\ Desk.tokens = tokens /\ tokens \in Nat
      /\ server \in Servers /\ server' = server
  BY DeskIs DEF IInv, DraftInv, WindowInv, Save
<1>2. plan' \in KnownPlans(server) /\ author' \in Users
  BY DEF Save, IInv, PlanInv, WindowInv
<1>3. KnownDesk(server, d) /\ tokens <= d.tokens /\ Put(d)
  BY <1>1, <1>2, EnsureLeaseKnows DEF Save
<1>4. KnownDesk(server, Desk') /\ tokens' \in Nat /\ tokens <= tokens'
  BY <1>1, <1>3, PutKeeps
<1>5. lease' \in KnownLeases(server, tokens')
  <2>1. author' # Nobody
    BY <1>2 DEF EditorAssumption
  <2>2. CASE lease = Absent
    <3>1. /\ lease' = [token |-> tokens + 1, owner |-> author',
                       base |-> plan'.version, from |-> plan'.content,
                       rev |-> 0, source |-> "save"]
          /\ tokens' = tokens + 1
      BY <1>1, <1>3, <2>1, <2>2 DEF EnsureLease, Desk, Put
    <3> QED
      BY <1>1, <1>2, <3>1 DEF KnownLeases, KnownPlans, Knows
  <2>3. CASE lease # Absent
    <3>1. lease' = lease /\ tokens' = tokens
      BY <1>1, <1>3, <2>3 DEF EnsureLease, Desk, Put
    <3> QED
      BY <2>3, <3>1, DeskIs DEF IInv
  <2> QED
    BY <2>2, <2>3
<1>6. saves' \in [Slots -> KnownRequests(server', tokens') \cup {Absent}]
  BY <1>1, <1>4, <1>5, RestKnown, RequestKnown DEF Save, IInv, PlanInv
<1> HIDE DEF d
<1>7. DraftInv'
  BY <1>1, <1>3, <1>6, DraftStep DEF Save, IInv
<1>8. WindowInv' /\ PlanInv'
  BY WindowStays DEF Save, IInv, PlanInv, Dirty
<1> QED
  BY <1>7, <1>8 DEF IInv

LEMMA RestoreStep ==
  ASSUME IInv, NEW i \in Slots, Restore(i)
  PROVE  IInv'
<1> DEFINE b == slots[session]
           d == IF Holds(Desk, b.token) THEN Desk ELSE EndHeld(Desk)
<1>1. /\ KnownDesk(server, Desk) /\ Desk.tokens = tokens /\ tokens \in Nat
      /\ server \in Servers /\ server' = server
  BY DeskIs DEF IInv, DraftInv, WindowInv, Restore
<1>2. b \in KnownBackups(server, tokens) /\ session \in Users
  BY DraftsKnown DEF Restore, Offered, SignedIn, IInv
<1>3. KnownDesk(server, d) /\ d.tokens = tokens
  BY <1>1, EndsKnow
<1>4. slots' = d.slots /\ tokens' = tokens /\ conflict' = conflict
  BY DEF Restore
<1>5. lease' \in KnownLeases(server, tokens)
  <2>1. lease' = [token |-> b.token, owner |-> session, base |-> b.base,
                  from |-> b.from, rev |-> b.rev, source |-> "save"]
    BY DEF Restore
  <2> HIDE DEF b
  <2> QED
    BY <1>2, <2>1 DEF KnownBackups, KnownLeases, Knows
<1>6. saves' \in [Slots -> KnownRequests(server, tokens) \cup {Absent}]
  <2>1. b.content \in Contents
    BY <1>2 DEF KnownBackups
  <2>2. saves' = [Left EXCEPT ![i] = Request(b.content, lease', TRUE)]
    BY DEF Restore
  <2>3. Request(b.content, lease', TRUE) \in KnownRequests(server, tokens)
    BY <1>1, <1>5, <2>1, RequestKnown
  <2>4. Left \in [Slots -> KnownRequests(server, tokens) \cup {Absent}]
    BY <1>1, DraftsKnown, LeftKnown DEF IInv
  <2> QED
    BY <2>2, <2>3, <2>4
<1>7. slots' \in [Users -> KnownBackups(server, tokens) \cup {Absent}]
  BY <1>3, <1>4 DEF KnownDesk
<1> HIDE DEF b, d
<1>8. DraftInv'
  BY <1>1, <1>4, <1>5, <1>6, <1>7, DraftsKnown, DraftsStay DEF IInv
<1>9. PlanInv'
  <2>1. plan' \in KnownPlans(server) \cup {Absent} /\ editor' = Opened(plan')
    BY <1>1, StoredKnown DEF Restore, IInv, PlanInv
  <2> QED
    BY <1>1, <2>1, PlanOpened
<1>10. WindowInv'
  BY WindowStays DEF Restore, IInv
<1> QED
  BY <1>8, <1>9, <1>10 DEF IInv

\* The server's half of a save: what it writes is the window's own.
LEMMA ServeStep ==
  ASSUME IInv, NEW i \in Slots, Serve(i)
  PROVE  IInv'
<1>1. /\ server \in Servers /\ server.version \in 1 .. MaxVersion
      /\ tokens \in Nat /\ saves[i] # Absent
      /\ saves[i] \in KnownRequests(server, tokens)
      /\ saves \in [Slots -> KnownRequests(server, tokens) \cup {Absent}]
  BY DraftsKnown DEF IInv, WindowInv, Servers, Serve
<1>2. UNCHANGED <<slots, cookie, made, tokens, session, author, plan, editor,
                  lease, conflict, leaving, ghosts>>
  BY DEF Serve
<1>3. CASE server' = server /\ \E stage \in Stages \ {"ok", "refreshing"} :
                                  Answer(i, stage, 0)
  <2>1. saves' \in [Slots -> KnownRequests(server, tokens) \cup {Absent}]
    BY <1>1, <1>3, AnswerKnows
  <2>2. DraftInv'
    BY <1>1, <1>2, <1>3, <2>1, DraftsKnown, DraftsStay DEF IInv
  <2> QED
    BY <1>2, <1>3, <2>2, WindowStays DEF IInv, PlanInv, Dirty
<1>4. CASE /\ server.version < MaxVersion
           /\ server' = [version |-> server.version + 1,
                         content |-> saves[i].content, live |-> TRUE,
                         ours |-> TRUE]
           /\ \/ Answer(i, "ok", server.version + 1)
              \/ Answer(i, "network", 0)
  <2>1. server' \in Servers
    BY <1>1, <1>4 DEF KnownRequests, Servers
  <2>2. server.version < server'.version /\ server'.ours
        /\ server'.version = server.version + 1
    BY <1>1, <1>4
  <2>3. Follows(server, server')
    BY <2>2 DEF Follows
  <2>4. /\ KnownLeases(server, tokens) \subseteq KnownLeases(server', tokens)
        /\ KnownBackups(server, tokens) \subseteq KnownBackups(server', tokens)
        /\ KnownRequests(server, tokens) \subseteq KnownRequests(server', tokens)
        /\ KnownPlans(server) \subseteq KnownPlans(server')
    BY <1>1, <2>1, <2>3, ServerMoves
  <2>5. saves \in [Slots -> KnownRequests(server', tokens) \cup {Absent}]
    BY <1>1, <2>4
  <2>6. saves' \in [Slots -> KnownRequests(server', tokens) \cup {Absent}]
    <3>1. CASE Answer(i, "ok", server.version + 1)
      <4>1. /\ server.version + 1 \in 0 .. MaxVersion
            /\ server.version + 1 <= server'.version
            /\ server.version + 1 # 0 /\ "ok" \in Stages
        BY <1>1, <1>4, <2>2 DEF Stages
      <4> QED
        BY <1>1, <2>1, <2>2, <2>5, <3>1, <4>1, AnswerKnows
    <3>2. CASE Answer(i, "network", 0)
      <4>1. 0 \in 0 .. MaxVersion /\ 0 <= server'.version /\ "network" \in Stages
        BY <1>1, <2>2 DEF Stages
      <4> QED
        BY <1>1, <2>1, <2>2, <2>5, <3>2, <4>1, AnswerKnows
    <3> QED
      BY <1>4, <3>1, <3>2
  <2>7. DraftInv'
    <3>1. KnownDesk(server', Desk')
      BY <1>2, <2>4, DeskIs DEF IInv, KnownDesk, Desk
    <3> QED
      BY <1>2, <2>6, <3>1, DraftsKnown DEF IInv, DraftInv
  <2>8. WindowInv'
    BY <1>2, <2>1 DEF IInv, WindowInv, SignedIn, GhostsTyped, ghosts
  <2>9. PlanInv'
    BY <1>2, <2>4 DEF IInv, PlanInv, Dirty
  <2> QED
    BY <2>7, <2>8, <2>9 DEF IInv
<1> QED
  <2>1. /\ "unauthenticated" \in Stages \ {"ok", "refreshing"}
        /\ "network" \in Stages \ {"ok", "refreshing"}
        /\ "conflict" \in Stages \ {"ok", "refreshing"}
    BY DEF Stages
  <2> QED
    BY <1>3, <1>4, <2>1 DEF Serve

\* The answers: the request ends, or all of them belong to a context left.
LEMMA AnsweredStep ==
  ASSUME DraftInv, server \in Servers, server' = server,
         NEW d, KnownDesk(server, d), tokens <= d.tokens, Put(d),
         NEW i \in Slots, Done(i) \/ saves' = Left \/ saves' = saves,
         \/ conflict' = conflict
         \/ conflict' = Absent
         \/ conflict' \in Conflicts(tokens')
  PROVE  DraftInv'
<1>1. tokens \in Nat
  BY DeskIs
<1>2. tokens' \in Nat /\ tokens <= tokens'
  BY <1>1, PutKeeps
<1>3. saves \in [Slots -> KnownRequests(server', tokens') \cup {Absent}]
  BY <1>2, RestKnown
<1>4. saves' \in [Slots -> KnownRequests(server', tokens') \cup {Absent}]
  BY <1>2, <1>3, DoneKnown, LeftKnown
<1> QED
  BY <1>4, DraftStep

\* The desk after the draft at hand was backed up, where it was.
LEMMA KeptKnows ==
  ASSUME DraftInv, server \in Servers, NEW content \in Contents,
         NEW c \in BOOLEAN, c => lease # Absent
  PROVE  LET kept == IF c THEN BackUp(Desk, lease, content) ELSE Desk
         IN  KnownDesk(server, kept) /\ kept.tokens = tokens
<1>1. KnownDesk(server, Desk) /\ Desk.tokens = tokens
  BY DeskIs DEF DraftInv
<1>2. c => lease \in KnownLeases(server, Desk.tokens)
  BY <1>1, DeskIs
<1> QED
  BY <1>1, <1>2, BackUpKnows

LEMMA LetGoKnows ==
  ASSUME NEW s \in Servers, NEW d, KnownDesk(s, d), NEW r
  PROVE  KnownDesk(s, LetGo(d, r)) /\ LetGo(d, r).tokens = d.tokens
  BY DEF LetGo, KnownDesk

\* A request of the window.
LEMMA RequestIs ==
  ASSUME IInv, NEW i \in Slots, saves[i] # Absent
  PROVE  /\ server \in Servers /\ server.version \in 1 .. MaxVersion
         /\ tokens \in Nat
         /\ saves[i] \in KnownRequests(server, tokens)
         /\ saves[i].content \in Contents
         /\ saves[i].version <= server.version
         /\ saves[i].version = server.version => server.ours
         /\ saves[i].version \in 0 .. MaxVersion
         /\ saves[i].stage \in {"ok", "refreshing"} => saves[i].version # 0
  BY DraftsKnown DEF IInv, WindowInv, Servers, KnownRequests

\* The draft of an open editor that has edits.
LEMMA DirtyPlan ==
  ASSUME PlanInv
  PROVE  /\ editor.present \in Contents
         /\ editor.present = editor.persisted \/ plan \in KnownPlans(server)
  BY DEF PlanInv, Dirty

LEMMA FailedStep ==
  ASSUME IInv, NEW i \in Slots, Failed(i)
  PROVE  IInv'
<1> DEFINE s == saves[i]
           c == Current(s) /\ Unchanged(s)
           back == IF c THEN BackUp(Desk, lease, s.content) ELSE Desk
           kept == LetGo(back, s)
<1>1. /\ server \in Servers /\ server' = server /\ tokens \in Nat
      /\ s.content \in Contents /\ plan' = plan /\ editor' = editor
      /\ author' = author /\ author \in Users \cup {Nobody}
  BY RequestIs DEF Failed, IInv, WindowInv
<1>2. c \in BOOLEAN /\ (c => lease # Absent)
  BY DEF Current, Unchanged, Holds, Desk
<1>3. KnownDesk(server, back) /\ back.tokens = tokens
  <2> HIDE DEF c, s
  <2> QED
    BY <1>1, <1>2, KeptKnows DEF IInv
<1>4. KnownDesk(server, kept) /\ kept.tokens = tokens
  <2> HIDE DEF back, s
  <2> QED
    BY <1>1, <1>3, LetGoKnows
<1>5. /\ KnownDesk(server, EditorEffect(kept))
      /\ tokens <= EditorEffect(kept).tokens
  <2> HIDE DEF kept
  <2> QED
    BY <1>1, <1>4, DirtyPlan, EditorEffectKnows DEF IInv
<1>6. Put(kept) \/ Put(EditorEffect(kept))
  BY DEF Failed
<1>7. Done(i) /\ conflict' = conflict
  BY DEF Failed
<1> HIDE DEF kept
<1>8. DraftInv'
  BY <1>1, <1>4, <1>5, <1>6, <1>7, AnsweredStep DEF IInv
<1>9. WindowInv'
  BY EditorAssumption DEF Failed, IInv, WindowInv, SignedIn, GhostsTyped, ghosts
<1>10. PlanInv'
  BY <1>1 DEF IInv, PlanInv, Dirty
<1> QED
  BY <1>8, <1>9, <1>10 DEF IInv

LEMMA RejectedStep ==
  ASSUME IInv, NEW i \in Slots, Rejected(i)
  PROVE  IInv'
<1> DEFINE s == saves[i]
           kept == LetGo(Desk, s)
<1>1. /\ server \in Servers /\ server' = server /\ tokens \in Nat
      /\ server.version \in 1 .. MaxVersion
      /\ plan' = plan /\ editor' = editor /\ conflict' = conflict
      /\ saves[i] # Absent
  BY RequestIs DEF Rejected
<1>2. KnownDesk(server, Desk) /\ Desk.tokens = tokens
  BY DeskIs DEF IInv, DraftInv
<1>3. KnownDesk(server, kept) /\ kept.tokens = tokens
  BY <1>1, <1>2, LetGoKnows
<1>4. DraftInv'
  <2>1. CASE Answer(i, "reading", 0) /\ UNCHANGED <<lease, slots, tokens>>
    <3>1. "reading" \in Stages /\ 0 \in 0 .. MaxVersion
          /\ 0 <= server.version /\ 0 # server.version
      BY <1>1 DEF Stages
    <3>2. saves' \in [Slots -> KnownRequests(server, tokens) \cup {Absent}]
      BY <1>1, <2>1, <3>1, DraftsKnown, AnswerKnows DEF IInv
    <3> QED
      BY <1>1, <2>1, <3>2, DraftsKnown, DraftsStay DEF IInv
  <2>2. CASE Done(i) /\ Put(kept)
    <3> HIDE DEF kept
    <3> QED
      BY <1>1, <1>3, <2>2, AnsweredStep DEF IInv
  <2> QED
    BY <2>1, <2>2 DEF Rejected
<1>5. WindowInv' /\ PlanInv'
  BY <1>1, WindowStays DEF Rejected, IInv, PlanInv, Dirty
<1> QED
  BY <1>4, <1>5 DEF IInv

\* What a conflict view shows.
LEMMA ShownIs ==
  ASSUME server \in Servers, NEW n \in Nat, NEW mine \in Contents,
         NEW l \in KnownLeases(server, n) \cup {Absent}
  PROVE  Shown(mine, l) \in Conflicts(n)
  BY DEF Shown, Conflicts, KnownLeases, Servers

LEMMA ShowConflictStep ==
  ASSUME IInv, NEW i \in Slots, ShowConflict(i)
  PROVE  IInv'
<1> DEFINE s == saves[i]
           c == Holds(Desk, s.lease.token) /\ Unchanged(s)
           back == IF c THEN BackUp(Desk, lease, s.content) ELSE Desk
<1>1. /\ server \in Servers /\ server' = server /\ tokens \in Nat
      /\ server.version \in 1 .. MaxVersion /\ saves[i] # Absent
      /\ s.content \in Contents /\ plan' = plan /\ editor' = editor
  BY RequestIs DEF ShowConflict
<1>2. c \in BOOLEAN /\ (c => lease # Absent)
  BY DEF Unchanged, Holds, Desk
<1>3. KnownDesk(server, back) /\ back.tokens = tokens
  <2> HIDE DEF c, s
  <2> QED
    BY <1>1, <1>2, KeptKnows DEF IInv
<1>4. KnownDesk(server, Desk) /\ Desk.tokens = tokens
  BY DeskIs DEF IInv, DraftInv
<1>5. ASSUME Answer(i, "network", 0), UNCHANGED <<conflict, lease, slots, tokens>>
      PROVE  DraftInv'
  <2>1. "network" \in Stages /\ 0 \in 0 .. MaxVersion
        /\ 0 <= server.version /\ 0 # server.version
    BY <1>1 DEF Stages
  <2>2. saves' \in [Slots -> KnownRequests(server, tokens) \cup {Absent}]
    BY <1>1, <1>5, <2>1, DraftsKnown, AnswerKnows DEF IInv
  <2> QED
    BY <1>1, <1>5, <2>2, DraftsKnown, DraftsStay DEF IInv
<1>6. ASSUME conflict' = Shown(s.content, back.lease), Put(LetGo(back, s)),
             Done(i)
      PROVE  DraftInv'
  <2>1. KnownDesk(server, LetGo(back, s)) /\ LetGo(back, s).tokens = tokens
    <3> HIDE DEF back, s
    <3> QED
      BY <1>1, <1>3, LetGoKnows
  <2>2. tokens' = tokens
    BY <1>6, <2>1 DEF Put
  <2>3. back.lease \in KnownLeases(server, tokens) \cup {Absent}
    BY <1>3 DEF KnownDesk
  <2> HIDE DEF back, s
  <2>4. conflict' \in Conflicts(tokens')
    BY <1>1, <1>6, <2>2, <2>3, ShownIs
  <2> QED
    BY <1>1, <1>6, <2>1, <2>4, AnsweredStep DEF IInv
<1>7. ASSUME Put(LetGo(Desk, s)), Done(i), UNCHANGED conflict
      PROVE  DraftInv'
  <2>1. KnownDesk(server, LetGo(Desk, s)) /\ LetGo(Desk, s).tokens = tokens
    BY <1>1, <1>4, LetGoKnows
  <2> HIDE DEF s
  <2> QED
    BY <1>1, <1>7, <2>1, AnsweredStep DEF IInv
<1>8. DraftInv'
  <2>1. \/ Answer(i, "network", 0) /\ UNCHANGED <<conflict, lease, slots, tokens>>
        \/ conflict' = Shown(s.content, back.lease) /\ Put(LetGo(back, s)) /\ Done(i)
        \/ Put(LetGo(Desk, s)) /\ Done(i) /\ UNCHANGED conflict
    BY DEF ShowConflict
  <2> QED
    BY <1>5, <1>6, <1>7, <2>1
<1>9. WindowInv' /\ PlanInv'
  BY <1>1, WindowStays DEF ShowConflict, IInv, PlanInv, Dirty
<1> QED
  BY <1>8, <1>9 DEF IInv

LEMMA SettleKnows ==
  ASSUME DraftInv, server \in Servers, NEW r, NEW p \in KnownPlans(server)
  PROVE  KnownDesk(server, Settle(r, p)) /\ Settle(r, p).tokens = tokens
<1>1. KnownDesk(server, Desk) /\ Desk.tokens = tokens /\ Desk.lease = lease
  BY DeskIs DEF DraftInv
<1>2. CASE ~Current(r)
  BY <1>1, <1>2 DEF Settle
<1>3. CASE Current(r)
  BY <1>1, <1>3, EndLeaseAtKnows, RebaseKnows DEF Settle, Current, Holds
<1> QED
  BY <1>2, <1>3

\* The plan read again, and the desk it leaves.
LEMMA RereadKnows ==
  ASSUME DraftInv, server \in Servers, server' = server,
         NEW d, KnownDesk(server, d), d.tokens = tokens, Reread(d),
         NEW i \in Slots, Done(i), conflict' = conflict
  PROVE  DraftInv' /\ PlanInv'
<1>1. KnownDesk(server, CleanEffect(d)) /\ CleanEffect(d).tokens = tokens
  BY EndsKnow
<1>2. tokens \in Nat
  BY DeskIs
<1>3. DraftInv'
  <2> DEFINE e == CleanEffect(d)
  <2>1. Put(e)
    BY DEF Reread
  <2> HIDE DEF e
  <2>2. KnownDesk(server, e) /\ tokens <= e.tokens
    BY <1>1, <1>2 DEF e
  <2> QED
    BY <2>1, <2>2, AnsweredStep
<1>4. PlanInv'
  BY StoredKnown, PlanOpened DEF Reread
<1> QED
  BY <1>3, <1>4

LEMMA SavedStep ==
  ASSUME IInv, NEW i \in Slots, Saved(i)
  PROVE  IInv'
<1> DEFINE s == saves[i]
           p == [version |-> s.version, content |-> s.content]
           settled == Settle(s, p)
<1>1. /\ server \in Servers /\ server' = server /\ tokens \in Nat
      /\ server.version \in 1 .. MaxVersion /\ saves[i] # Absent
      /\ s.stage = "ok" /\ s.version \in 1 .. MaxVersion /\ s.content \in Contents
      /\ s.version <= server.version /\ (s.version = server.version => server.ours)
      /\ conflict' = conflict /\ author' = author
      /\ author \in Users \cup {Nobody}
  BY RequestIs DEF Saved, IInv, WindowInv
<1>2. p \in KnownPlans(server)
  BY <1>1 DEF KnownPlans, Knows
<1>3. KnownDesk(server, settled) /\ settled.tokens = tokens
  <2> HIDE DEF p, s
  <2> QED
    BY <1>1, <1>2, SettleKnows DEF IInv
<1>4. WindowInv'
  BY WindowStays DEF Saved, IInv
<1>5. ASSUME plan' = p, editor' = IF editor.open THEN editor ELSE Opened(p),
             Put(EditorEffect(CleanEffect(settled))),
             Answer(i, "refreshing", s.version)
      PROVE  DraftInv' /\ PlanInv'
  <2> DEFINE d == CleanEffect(settled)
             e == EditorEffect(d)
  <2>1. KnownDesk(server, d) /\ d.tokens = tokens
    <3> HIDE DEF settled
    <3> QED
      BY <1>1, <1>3, EndsKnow
  <2>2. PlanInv'
    <3>1. p.content \in Contents /\ plan' \in KnownPlans(server')
      BY <1>1, <1>2, <1>5
    <3> HIDE DEF p
    <3>2. CASE editor.open
      BY <1>5, <3>1, <3>2 DEF IInv, PlanInv, Dirty
    <3>3. CASE ~editor.open
      BY <1>5, <3>1, <3>3, OpenedCloses DEF PlanInv, Dirty
    <3> QED
      BY <3>2, <3>3
  <2>3. plan' \in KnownPlans(server) /\ editor'.present \in Contents
    BY <1>2, <1>5, <2>2 DEF PlanInv
  <2>4. KnownDesk(server, e) /\ tokens <= e.tokens
    <3> HIDE DEF d
    <3> QED
      BY <1>1, <2>1, <2>3, EditorEffectKnows
  <2>5. Put(e)
    BY <1>5
  <2> HIDE DEF d, e
  <2>6. tokens' \in Nat /\ tokens <= tokens'
    BY <1>1, <2>4, <2>5, PutKeeps
  <2>7. saves \in [Slots -> KnownRequests(server', tokens') \cup {Absent}]
    BY <1>1, <2>6, RestKnown DEF IInv
  <2>8. saves' \in [Slots -> KnownRequests(server', tokens') \cup {Absent}]
    <3>1. "refreshing" \in Stages /\ s.version \in 0 .. MaxVersion /\ s.version # 0
      BY <1>1 DEF Stages
    <3> QED
      BY <1>1, <1>5, <2>6, <2>7, <3>1, AnswerKnows
  <2>9. DraftInv'
    BY <1>1, <2>4, <2>5, <2>8, DraftStep DEF IInv
  <2> QED
    BY <2>2, <2>9
<1>6. ASSUME plan' = IF plan = Absent THEN Absent
                     ELSE [plan EXCEPT !.version = s.version],
             UNCHANGED editor, Put(settled), Done(i)
      PROVE  DraftInv' /\ PlanInv'
  <2>1. plan # Absent => plan' \in KnownPlans(server)
    BY <1>1, <1>6 DEF IInv, PlanInv, KnownPlans, Knows
  <2>2. PlanInv'
    BY <1>1, <1>6, <2>1 DEF IInv, PlanInv, Dirty
  <2> HIDE DEF settled
  <2>3. DraftInv'
    BY <1>1, <1>3, <1>6, AnsweredStep DEF IInv
  <2> QED
    BY <2>2, <2>3
<1>7. ASSUME Reread(settled), Done(i)
      PROVE  DraftInv' /\ PlanInv'
  <2> HIDE DEF settled
  <2> QED
    BY <1>1, <1>3, <1>7, RereadKnows DEF IInv
<1>8. DraftInv' /\ PlanInv'
  BY <1>5, <1>6, <1>7 DEF Saved
<1> QED
  BY <1>4, <1>8 DEF IInv

LEMMA RefreshedStep ==
  ASSUME IInv, NEW i \in Slots, Refreshed(i)
  PROVE  IInv'
<1> DEFINE s == saves[i]
           its == s.here /\ editor.open
           shown == [editor EXCEPT !.persisted = s.content]
           d == IF ~its \/ (Dirty /\ shown.present # s.content) THEN Desk
                ELSE EditorEffect(Desk)
<1>1. /\ server \in Servers /\ server' = server /\ tokens \in Nat
      /\ s.content \in Contents /\ conflict' = conflict /\ author' = author
      /\ author \in Users \cup {Nobody} /\ Done(i)
  BY RequestIs DEF Refreshed, IInv, WindowInv
<1>2. KnownDesk(server, Desk) /\ Desk.tokens = tokens
  BY DeskIs DEF IInv, DraftInv
<1>3. WindowInv'
  BY WindowStays DEF Refreshed, IInv
<1>4. ASSUME Reread(Desk)
      PROVE  DraftInv' /\ PlanInv'
  BY <1>1, <1>2, <1>4, RereadKnows DEF IInv
<1>5. ASSUME UNCHANGED plan, editor' = IF its THEN shown ELSE editor, Put(d)
      PROVE  DraftInv' /\ PlanInv'
  <2>1. PlanInv'
    <3>1. CASE its
      <4>1. /\ editor' = [editor EXCEPT !.persisted = s.content]
            /\ editor.open
        BY <1>5, <3>1
      <4>2. /\ editor' \in [open : BOOLEAN, present : Contents,
                            persisted : Contents]
            /\ editor'.open
        BY <1>1, <4>1 DEF IInv, PlanInv
      <4> QED
        BY <1>1, <1>5, <4>1, <4>2 DEF IInv, PlanInv
    <3>2. CASE ~its
      <4>1. editor' = editor
        BY <1>5, <3>2
      <4> QED
        BY <1>1, <1>5, <4>1 DEF IInv, PlanInv, Dirty
    <3> QED
      BY <3>1, <3>2
  <2>2. /\ KnownDesk(server, EditorEffect(Desk))
        /\ tokens <= EditorEffect(Desk).tokens
    <3>1. /\ editor'.present \in Contents
          /\ editor'.present = editor'.persisted \/ plan' \in KnownPlans(server)
      BY <1>1, <2>1 DEF PlanInv, Dirty
    <3> QED
      BY <1>1, <1>2, <3>1, EditorEffectKnows
  <2>3. KnownDesk(server, d) /\ tokens <= d.tokens /\ Put(d)
    BY <1>1, <1>2, <1>5, <2>2
  <2> HIDE DEF d
  <2>4. DraftInv'
    BY <1>1, <2>3, AnsweredStep DEF IInv
  <2> QED
    BY <2>1, <2>4
<1>6. DraftInv' /\ PlanInv'
  BY <1>4, <1>5 DEF Refreshed
<1> QED
  BY <1>3, <1>6 DEF IInv

LEMMA SignInStep ==
  ASSUME IInv, NEW u \in Users, SignIn(u)
  PROVE  IInv'
<1> DEFINE d == EditorEffect(Desk)
<1>1. /\ server \in Servers /\ server' = server /\ tokens \in Nat
      /\ plan' = plan /\ editor' = editor /\ conflict' = conflict
      /\ saves' = saves /\ author' \in Users /\ Put(d)
  BY DeskIs DEF SignIn, IInv, WindowInv
<1>2. KnownDesk(server, Desk) /\ Desk.tokens = tokens
  BY DeskIs DEF IInv, DraftInv
<1>3. KnownDesk(server, d) /\ tokens <= d.tokens
  BY <1>1, <1>2, DirtyPlan, EditorEffectKnows DEF IInv
<1> HIDE DEF d
<1>4. DraftInv'
  BY <1>1, <1>3, DraftStep DEF IInv
<1>5. WindowInv' /\ PlanInv'
  BY <1>1 DEF SignIn, IInv, WindowInv, PlanInv, Dirty, SignedIn, GhostsTyped, ghosts
<1> QED
  BY <1>4, <1>5 DEF IInv

-----------------------------------------------------------------------------
(* The choices of the conflict view, over what the server has become.      *)

Knowing(s) ==
  /\ s \in Servers
  /\ tokens \in Nat /\ tokens <= MaxToken
  /\ KnownDesk(s, Desk)
  /\ saves \in [Slots -> KnownRequests(s, tokens) \cup {Absent}]
  /\ conflict # Absent => conflict \in Conflicts(tokens)
  /\ editor \in [open : BOOLEAN, present : Contents, persisted : Contents]
  /\ plan \in KnownPlans(s) \cup {Absent}
  /\ editor.open => plan \in KnownPlans(s)
  /\ ~editor.open => ~Dirty

LEMMA StillKnowing ==
  ASSUME IInv, server' \in Servers, Follows(server, server')
  PROVE  Knowing(server')
<1>1. tokens \in Nat /\ tokens <= MaxToken /\ server \in Servers
  BY DraftsKnown DEF IInv, WindowInv
<1>2. /\ KnownLeases(server, tokens) \subseteq KnownLeases(server', tokens)
      /\ KnownBackups(server, tokens) \subseteq KnownBackups(server', tokens)
      /\ KnownRequests(server, tokens) \subseteq KnownRequests(server', tokens)
      /\ KnownPlans(server) \subseteq KnownPlans(server')
  BY <1>1, ServerMoves
<1>3. KnownDesk(server', Desk)
  BY <1>1, <1>2, DeskIs DEF IInv, KnownDesk, Desk
<1> QED
  BY <1>1, <1>2, <1>3 DEF IInv, DraftInv, PlanInv, Knowing

\* The draft decided on goes, and the editor starts over.
LEMMA DecidedKnows ==
  ASSUME Knowing(server'), NEW p \in KnownPlans(server') \cup {Absent},
         Decided(p)
  PROVE  DraftInv' /\ PlanInv'
<1> DEFINE l == conflict.lease
           ended == IF l = Absent THEN Desk ELSE EndLease(Desk, l)
           d == CleanEffect(ended)
<1>1. server' \in Servers /\ tokens \in Nat
  BY DEF Knowing
<1>2. KnownDesk(server', Desk) /\ Desk.tokens = tokens
  BY DEF Knowing, Desk
<1>3. KnownDesk(server', ended) /\ ended.tokens = tokens
  <2> HIDE DEF l
  <2> QED
    BY <1>1, <1>2, EndsKnow
<1>4. KnownDesk(server', d) /\ d.tokens = tokens
  <2> HIDE DEF ended
  <2> QED
    BY <1>1, <1>3, EndsKnow
<1>5. Put(d)
  BY DEF Decided
<1> HIDE DEF d
<1>6. KnownDesk(server', Desk') /\ tokens' = tokens /\ tokens <= MaxToken
  BY <1>1, <1>4, <1>5, PutKeeps DEF Put
<1>7. saves' \in [Slots -> KnownRequests(server', tokens') \cup {Absent}]
  BY <1>1, <1>6, LeftKnown DEF Decided, Knowing
<1>8. DraftInv'
  BY <1>6, <1>7 DEF DraftInv, Decided
<1>9. PlanInv'
  <2>1. p = Absent \/ p.content \in Contents
    BY DEF KnownPlans
  <2> QED
    BY <2>1, OpenedCloses DEF Decided, PlanInv, Dirty
<1> QED
  BY <1>8, <1>9

\* A choice that did not get through writes at most a backup.
LEMMA UndecidedKnows ==
  ASSUME Knowing(server'), author \in Users \cup {Nobody}, conflict # Absent,
         GhostsTyped, NEW lost \in BOOLEAN, Undecided(lost)
  PROVE  DraftInv' /\ PlanInv' /\ GhostsTyped'
<1> DEFINE c == conflict
           decides == c.lease # Absent /\ Holds(Desk, c.lease.token)
           kept == IF decides THEN BackUp(Desk, lease, c.mine) ELSE Desk
           e == EditorEffect(kept)
<1>1. /\ server' \in Servers /\ tokens \in Nat /\ tokens <= MaxToken
      /\ KnownDesk(server', Desk) /\ Desk.tokens = tokens
      /\ conflict' = conflict /\ author' = author /\ plan' = plan
      /\ editor' = editor /\ saves' = saves
      /\ c \in Conflicts(tokens)
  BY DEF Knowing, Desk, Undecided
<1>2. c.mine \in Contents
  BY <1>1 DEF Conflicts
<1>3. /\ decides => lease \in KnownLeases(server', Desk.tokens)
      /\ decides => lease.token \in 1 .. MaxToken
  <2>1. decides => lease # Absent /\ lease.token = c.lease.token
    BY DEF Holds, Desk
  <2>2. decides => lease \in KnownLeases(server', Desk.tokens)
    BY <1>1, <2>1 DEF KnownDesk, Desk
  <2>3. decides => lease.token \in 1 .. tokens
    BY <1>1, <2>2 DEF KnownLeases
  <2> QED
    BY <1>1, <2>1, <2>2, <2>3
<1>4. KnownDesk(server', kept) /\ kept.tokens = tokens
  <2> HIDE DEF decides, c
  <2> QED
    BY <1>1, <1>2, <1>3, BackUpKnows
<1>5. KnownDesk(server', e) /\ tokens <= e.tokens
  <2>1. /\ editor'.present \in Contents
        /\ editor'.present = editor'.persisted \/ plan' \in KnownPlans(server')
    BY <1>1 DEF Knowing, Dirty
  <2> HIDE DEF kept
  <2> QED
    BY <1>1, <1>4, <2>1, EditorEffectKnows
<1>6. Put(kept) \/ Put(e)
  BY DEF Undecided
<1>7. GhostsTyped'
  BY <1>2, <1>3 DEF Undecided, GhostsTyped
<1> HIDE DEF kept, e
<1>8. KnownDesk(server', Desk') /\ tokens' \in Nat /\ tokens <= tokens'
      /\ tokens' <= MaxToken
  BY <1>1, <1>4, <1>5, <1>6, PutKeeps
<1>9. DraftInv'
  <2>1. /\ KnownRequests(server', tokens) \subseteq KnownRequests(server', tokens')
        /\ Conflicts(tokens) \subseteq Conflicts(tokens')
    BY <1>1, <1>8, MoreDrafts
  <2> QED
    BY <1>1, <1>8, <2>1 DEF DraftInv, Knowing
<1>10. PlanInv'
  BY <1>1 DEF Knowing, PlanInv, Dirty
<1> QED
  BY <1>7, <1>9, <1>10

\* Comparing again changes only what the view shows.
LEMMA RecompareKnows ==
  ASSUME Knowing(server), server' = server, conflict # Absent, Recompare
  PROVE  DraftInv' /\ PlanInv'
<1>1. conflict' \in Conflicts(tokens)
  BY DEF Knowing, Recompare, Shown, Conflicts, Servers
<1>2. DraftInv'
  BY <1>1 DEF DraftInv, Knowing, Recompare, Desk
<1>3. PlanInv'
  BY DEF PlanInv, Knowing, Recompare, Dirty
<1> QED
  BY <1>2, <1>3

\* What the choices do to the rest of the window.
LEMMA ChoiceWindow ==
  ASSUME WindowInv, server' \in Servers, GhostsTyped',
         UNCHANGED <<cookie, made, author, leaving>>,
         session' \in {session, "lost"}
  PROVE  WindowInv'
  BY EditorAssumption DEF WindowInv, SignedIn

LEMMA KeepStep ==
  ASSUME IInv, KeepServer \/ SaveCopy
  PROVE  IInv'
<1>1. /\ server' = server /\ server \in Servers /\ conflict # Absent
      /\ UNCHANGED <<cookie, made, author, leaving>>
      /\ author \in Users \cup {Nobody} /\ GhostsTyped
  BY DEF KeepServer, SaveCopy, IInv, WindowInv
<1>2. Knowing(server) /\ Knowing(server')
  BY <1>1, StillKnowing DEF Follows
<1>3. ASSUME NEW lost \in BOOLEAN, Undecided(lost)
      PROVE  IInv'
  <2>1. session' \in {session, "lost"}
    BY <1>3 DEF Undecided
  <2> QED
    BY <1>1, <1>2, <1>3, <2>1, UndecidedKnows, ChoiceWindow DEF IInv
<1>4. ASSUME NEW p \in KnownPlans(server) \cup {Absent}, Decided(p)
      PROVE  IInv'
  <2>1. session' = session /\ GhostsTyped'
    BY <1>1, <1>4 DEF Decided, GhostsTyped, ghosts
  <2> QED
    BY <1>1, <1>2, <1>4, <2>1, DecidedKnows, ChoiceWindow DEF IInv
<1>5. ASSUME Recompare
      PROVE  IInv'
  <2>1. session' = session /\ GhostsTyped'
    BY <1>1, <1>5 DEF Recompare, GhostsTyped, ghosts
  <2> QED
    BY <1>1, <1>2, <1>5, <2>1, RecompareKnows, ChoiceWindow DEF IInv
<1>6. Stored \in KnownPlans(server) \cup {Absent}
  BY <1>1, StoredKnown
<1> QED
  BY <1>3, <1>4, <1>5, <1>6 DEF KeepServer, SaveCopy

LEMMA KeepMineStep ==
  ASSUME IInv, KeepMine
  PROVE  IInv'
<1>1. /\ server \in Servers /\ server.version \in 1 .. MaxVersion
      /\ conflict # Absent /\ conflict.mine \in Contents
      /\ UNCHANGED <<cookie, made, author, leaving>>
      /\ author \in Users \cup {Nobody} /\ GhostsTyped
  BY DraftsKnown DEF KeepMine, IInv, WindowInv, Servers, Conflicts
<1>2. ASSUME server' \in Servers, Follows(server, server'),
             NEW lost \in BOOLEAN, Undecided(lost)
      PROVE  IInv'
  <2>1. session' \in {session, "lost"}
    BY <1>2 DEF Undecided
  <2> QED
    BY <1>1, <1>2, <2>1, StillKnowing, UndecidedKnows, ChoiceWindow DEF IInv
<1>3. ASSUME UNCHANGED server, Recompare
      PROVE  IInv'
  <2>1. session' = session /\ GhostsTyped'
    BY <1>1, <1>3 DEF Recompare, GhostsTyped, ghosts
  <2>2. Knowing(server)
    BY <1>1, <1>3, StillKnowing DEF Follows
  <2> QED
    BY <1>1, <1>3, <2>1, <2>2, RecompareKnows, ChoiceWindow DEF IInv
<1>4. ASSUME server.version < MaxVersion,
             server' = [version |-> server.version + 1,
                        content |-> conflict.mine, live |-> TRUE,
                        ours |-> TRUE],
             \/ Decided([version |-> server.version + 1,
                         content |-> conflict.mine])
             \/ Undecided(FALSE)
      PROVE  IInv'
  <2>1. server' \in Servers
    BY <1>1, <1>4 DEF Servers
  <2>2. /\ server.version < server'.version /\ server'.ours
        /\ server'.version = server.version + 1
    BY <1>1, <1>4
  <2>3. Follows(server, server')
    BY <2>2 DEF Follows
  <2>4. CASE Undecided(FALSE)
    BY <1>2, <2>1, <2>3, <2>4
  <2>5. CASE Decided([version |-> server.version + 1, content |-> conflict.mine])
    <3> DEFINE p == [version |-> server.version + 1, content |-> conflict.mine]
    <3>1. p \in KnownPlans(server')
      BY <1>1, <1>4, <2>2 DEF KnownPlans, Knows
    <3>2. session' = session /\ GhostsTyped'
      BY <1>1, <2>5 DEF Decided, GhostsTyped, ghosts
    <3>3. Knowing(server')
      BY <2>1, <2>3, StillKnowing
    <3>4. Decided(p)
      BY <2>5
    <3> HIDE DEF p
    <3> QED
      BY <1>1, <2>1, <3>1, <3>2, <3>3, <3>4, DecidedKnows, ChoiceWindow DEF IInv
  <2> QED
    BY <1>4, <2>4, <2>5
<1>5. UNCHANGED server => server' \in Servers /\ Follows(server, server')
  BY <1>1 DEF Follows
<1> QED
  BY <1>2, <1>3, <1>4, <1>5 DEF KeepMine

LEMMA NextKnows == IInv /\ [Next]_vars => IInv'
<1> SUFFICES ASSUME IInv, [Next]_vars PROVE IInv'
  OBVIOUS
<1>1. CASE OtherWrite \/ OtherDelete
  BY <1>1, ElsewhereStep
<1>2. CASE Expire \/ Later \/ AskSignOut \/ ConfirmSignOut \/ SignOutFails
  BY <1>2, AsideStep
<1>3. CASE Edit
  BY <1>3, EditStep
<1>4. CASE Undo \/ Discard
  BY <1>4, UndoStep
<1>5. CASE Open \/ Reload \/ DiscardBackup \/ SignedOut
  BY <1>5, OpenStep, ReloadStep, DiscardBackupStep, SignedOutStep
<1>6. CASE \E i \in Slots : Save(i) \/ Restore(i) \/ Serve(i)
  BY <1>6, SaveStep, RestoreStep, ServeStep
<1>7. CASE \E i \in Slots : Answered(i)
  BY <1>7, SavedStep, RefreshedStep, FailedStep, RejectedStep, ShowConflictStep
  DEF Answered
<1>8. CASE KeepMine \/ KeepServer \/ SaveCopy
  BY <1>8, KeepMineStep, KeepStep
<1>9. CASE \E u \in Users : SignIn(u)
  BY <1>9, SignInStep
<1>10. CASE UNCHANGED vars
  <2>1. WindowInv'
    BY <1>10 DEF vars, windowVars, IInv, WindowInv, SignedIn, GhostsTyped, ghosts
  <2>2. DraftInv'
    BY <1>10 DEF vars, windowVars, IInv, DraftInv, Desk
  <2>3. PlanInv'
    BY <1>10 DEF vars, windowVars, IInv, PlanInv, Dirty
  <2> QED
    BY <2>1, <2>2, <2>3 DEF IInv
<1> QED
  BY <1>1, <1>2, <1>3, <1>4, <1>5, <1>6, <1>7, <1>8, <1>9, <1>10 DEF Next

-----------------------------------------------------------------------------

LEMMA Known == Spec => []IInv
  BY InitIInv, NextKnows, PTL DEF Spec

LEMMA IInvTypes == IInv => TypeOK
<1> SUFFICES ASSUME IInv PROVE TypeOK
  OBVIOUS
<1>1. /\ tokens \in 0 .. MaxToken /\ server \in Servers
      /\ lease \in KnownLeases(server, tokens) \cup {Absent}
      /\ slots \in [Users -> KnownBackups(server, tokens) \cup {Absent}]
      /\ saves \in [Slots -> KnownRequests(server, tokens) \cup {Absent}]
      /\ conflict # Absent => conflict \in Conflicts(tokens)
  BY DraftsKnown DEF IInv, WindowInv
<1>2. /\ KnownLeases(server, tokens) \subseteq Leases
      /\ KnownBackups(server, tokens) \subseteq Backups
  BY <1>1 DEF KnownLeases, KnownBackups, Leases, Backups
<1>3. KnownRequests(server, tokens) \subseteq Requests
  BY <1>2 DEF KnownRequests, Requests
<1>4. conflict # Absent =>
        conflict \in [mine : Contents, version : 0 .. MaxVersion,
                      lease : Leases \cup {Absent}]
  BY <1>1 DEF Conflicts, Leases
<1>5. plan \in [version : 1 .. MaxVersion, content : Contents] \cup {Absent}
  BY DEF IInv, PlanInv, KnownPlans
<1> QED
  BY <1>1, <1>2, <1>3, <1>4, <1>5
  DEF IInv, WindowInv, PlanInv, Servers, SignOuts, GhostsTyped, TypeOK

\* Only the server's half of a save stores it.
LEMMA StoreIsServe ==
  ASSUME IInv, [Next]_vars, NEW i \in Slots, Stores(i)
  PROVE  Serve(i)
<1>1. server' # server /\ saves' # saves
  BY DEF Stores
<1>2. ASSUME NEW j \in Slots, Serve(j)
      PROVE  j = i
  <2>1. SUFFICES ASSUME j # i PROVE FALSE
    OBVIOUS
  <2>2. PICK stage, version : Answer(j, stage, version)
    BY <1>2 DEF Serve
  <2>3. DOMAIN saves = Slots
    BY DraftsKnown DEF IInv
  <2>4. saves'[i] = saves[i]
    BY <2>1, <2>2, <2>3 DEF Answer
  <2> QED
    BY <2>4 DEF Stores
<1>3. ~KeepMine
  <2>1. SUFFICES ASSUME KeepMine PROVE FALSE
    OBVIOUS
  <2>2. saves' = Left
    BY <1>1, <2>1 DEF KeepMine, Undecided, Recompare, Decided
  <2>3. saves'[i].stage = saves[i].stage
    BY <2>2, DraftsKnown DEF Left, Stores, IInv, KnownRequests
  <2> QED
    BY <2>3 DEF Stores
<1>4. ~OtherWrite /\ ~OtherDelete
  BY <1>1 DEF OtherWrite, OtherDelete, windowVars
<1>5. ~\E j \in Slots : Save(j) \/ Restore(j) \/ Answered(j)
  BY <1>1 DEF Save, Restore, Answered, Saved, Refreshed, Failed, Rejected,
              ShowConflict
<1>6. ~Expire /\ ~Edit /\ ~Undo /\ ~Discard /\ ~Open /\ ~Reload /\ ~DiscardBackup
  BY <1>1 DEF Expire, Edit, Undo, Discard, Open, Reload, DiscardBackup
<1>7. /\ ~Later /\ ~KeepServer /\ ~SaveCopy /\ ~AskSignOut /\ ~ConfirmSignOut
      /\ ~SignedOut /\ ~SignOutFails /\ ~\E u \in Users : SignIn(u)
  BY <1>1 DEF Later, KeepServer, SaveCopy, AskSignOut, ConfirmSignOut,
              SignedOut, SignOutFails, SignIn
<1>8. ~UNCHANGED vars
  BY <1>1 DEF vars
<1> QED
  BY <1>2, <1>3, <1>4, <1>5, <1>6, <1>7, <1>8 DEF Next

LEMMA StoreKnowing ==
  ASSUME IInv, [Next]_vars, NEW i \in Slots, Stores(i)
  PROVE  server.content = saves[i].lease.from \/ server.ours
<1>1. Serve(i)
  BY StoreIsServe
<1>2. server.version = saves[i].lease.base
  BY <1>1 DEF Serve, Stores, Matches
<1>3. saves[i].lease \in KnownLeases(server, tokens)
  BY <1>1, DraftsKnown DEF Serve, IInv, KnownRequests
<1> QED
  BY <1>2, <1>3 DEF KnownLeases, Knows

-----------------------------------------------------------------------------

\* Whatever is edited, saved, restored, decided or signed out of, in whatever
\* order the answers come, the window's state keeps its types.
THEOREM EditorTyped == Spec => []TypeOK
<1>1. Spec => []IInv
  BY Known
<1>2. IInv => TypeOK
  BY IInvTypes
<1> QED
  BY <1>1, <1>2, PTL

\* No save replaces a state of the plan that its draft did not begin from,
\* unless this window wrote that state (saveForSession, replaceRecord).
THEOREM EditorOverwritesNothing == Spec => NoSilentOverwrite
<1>1. IInv /\ [Next]_vars =>
        \A i \in Slots : Stores(i) =>
          server.content = saves[i].lease.from \/ server.ours
  BY StoreKnowing
<1>2. Spec => []IInv
  BY Known
<1> QED
  BY <1>1, <1>2, PTL DEF Spec, NoSilentOverwrite

-----------------------------------------------------------------------------
(***************************************************************************)
(* Edits are backed up.  The backup a draft has is named by its token and  *)
(* is the only one with it, whatever other drafts are in whichever scope;  *)
(* a save is never ahead of its draft; a save of the draft as it still is  *)
(* carries what the editor shows; and only one save under way is of the    *)
(* draft that is open.  So when an answer clears a backup, or lets the     *)
(* editor take its content for saved, nothing newer is lost with it.       *)
(***************************************************************************)

\* A token names one backup and one draft, which is backed up in its author's
\* scope as soon as it has a revision.
Backed(d) ==
  /\ \A u \in Users : d.slots[u] # Absent => d.slots[u].rev > 0
  /\ \A u, v \in Users :
       (/\ d.slots[u] # Absent /\ d.slots[v] # Absent
        /\ d.slots[u].token = d.slots[v].token) => u = v
  /\ d.lease # Absent =>
       /\ \A u \in Users :
            d.slots[u] # Absent /\ d.slots[u].token = d.lease.token
              => u = d.lease.owner /\ d.slots[u].rev = d.lease.rev
       /\ d.lease.rev > 0 =>
            /\ d.slots[d.lease.owner] # Absent
            /\ d.slots[d.lease.owner].token = d.lease.token

\* Revision r of the draft with token t is not ahead of that draft.
Behind(d, t, r) ==
  /\ \A u \in Users :
       d.slots[u] # Absent /\ d.slots[u].token = t => r <= d.slots[u].rev
  /\ Holds(d, t) => r <= d.lease.rev

\* The backup of that draft, if it is at revision r, holds content.
Carries(d, t, r, content) == \A u \in Users :
  (d.slots[u] # Absent /\ d.slots[u].token = t /\ d.slots[u].rev = r)
    => d.slots[u].content = content

\* What was behind its draft at desk d is so at desk e, with the same content.
Keeps(d, e) ==
  /\ Backed(e)
  /\ d.tokens <= e.tokens
  /\ \A t, r \in Nat : t <= d.tokens /\ Behind(d, t, r) =>
       /\ Behind(e, t, r)
       /\ \A c : Carries(d, t, r, c) => Carries(e, t, r, c)

\* The draft of desk e is a new one, or that of desk d.
Continues(d, e) ==
  e.lease # Absent =>
    \/ d.tokens < e.lease.token
    \/ Holds(d, e.lease.token) /\ d.lease.rev <= e.lease.rev

\* The draft's backup, if it has one, holds content or one that y names, unless
\* the draft is in x.
Shows(d, content, x, y) ==
  (/\ d.lease # Absent /\ d.lease.rev > 0
   /\ d.lease.token \notin x)
    => \/ d.slots[d.lease.owner].content = content
       \/ [token |-> d.lease.token,
           content |-> d.slots[d.lease.owner].content] \in y

LEMMA KeepsMore ==
  ASSUME NEW d, NEW e, NEW f, d.tokens \in Nat, e.tokens \in Nat, f.tokens \in Nat,
         Keeps(d, e), Keeps(e, f)
  PROVE  Keeps(d, f)
  BY DEF Keeps

LEMMA ContinuesMore ==
  ASSUME NEW s, NEW d, NEW e, NEW f,
         KnownDesk(s, d), KnownDesk(s, e), KnownDesk(s, f),
         d.tokens <= e.tokens, Continues(d, e), Continues(e, f)
  PROVE  Continues(d, f)
<1>1. /\ d.tokens \in Nat /\ e.tokens \in Nat
      /\ d.lease # Absent => d.lease.rev \in Nat
      /\ e.lease # Absent => e.lease.rev \in Nat /\ e.lease.token \in Nat
      /\ f.lease # Absent => f.lease.rev \in Nat /\ f.lease.token \in Nat
  BY DEF KnownDesk, KnownLeases
<1> QED
  BY <1>1 DEF Continues, Holds

LEMMA Same ==
  ASSUME NEW s, NEW d, KnownDesk(s, d), Backed(d)
  PROVE  Keeps(d, d) /\ Continues(d, d)
  BY DEF Keeps, Continues, Holds, KnownDesk, KnownLeases

\* The types of a desk's parts.
LEMMA DeskParts ==
  ASSUME NEW s, NEW d, KnownDesk(s, d)
  PROVE  /\ d.tokens \in Nat
         /\ d.lease # Absent =>
              /\ d.lease \in KnownLeases(s, d.tokens)
              /\ d.lease.token \in 1 .. d.tokens /\ d.lease.rev \in Nat
              /\ d.lease.owner \in Users
         /\ d.slots \in [Users -> KnownBackups(s, d.tokens) \cup {Absent}]
         /\ \A u \in Users : d.slots[u] # Absent =>
              /\ d.slots[u].token \in 1 .. d.tokens /\ d.slots[u].rev \in Nat
              /\ d.slots[u] \in KnownBackups(s, d.tokens)
  BY DEF KnownDesk, KnownLeases, KnownBackups

\* A draft that begins has a token of its own.
LEMMA EnsureLeaseKeeps ==
  ASSUME NEW s, NEW d, KnownDesk(s, d), Backed(d), NEW source
  PROVE  LET e == EnsureLease(d, source)
         IN  /\ Keeps(d, e) /\ Continues(d, e) /\ e.slots = d.slots
             /\ \/ e = d
                \/ e.lease.token = d.tokens + 1 /\ e.lease.rev = 0
<1> DEFINE e == EnsureLease(d, source)
<1>1. CASE e = d
  BY <1>1, Same
<1>2. CASE /\ d.lease = Absent /\ e.tokens = d.tokens + 1 /\ e.slots = d.slots
           /\ e.lease.token = d.tokens + 1 /\ e.lease.rev = 0
  <2> HIDE DEF e
  <2>1. Backed(e)
    BY <1>2, DeskParts DEF Backed
  <2>2. ASSUME NEW t \in Nat, NEW r \in Nat, t <= d.tokens, Behind(d, t, r)
        PROVE  /\ Behind(e, t, r)
               /\ \A c : Carries(d, t, r, c) => Carries(e, t, r, c)
    BY <1>2, <2>2, DeskParts DEF Behind, Carries, Holds
  <2>3. d.tokens < e.lease.token /\ d.tokens <= e.tokens
    BY <1>2, DeskParts
  <2> QED
    BY <1>2, <2>1, <2>2, <2>3 DEF Keeps, Continues, e
<1>3. \/ e = d
      \/ /\ d.lease = Absent /\ e.tokens = d.tokens + 1 /\ e.slots = d.slots
         /\ e.lease.token = d.tokens + 1 /\ e.lease.rev = 0
  BY DEF EnsureLease, KnownDesk
<1> QED
  BY <1>1, <1>2, <1>3

LEMMA BackUpIs ==
  ASSUME NEW s, NEW d, KnownDesk(s, d), NEW l, Holds(d, l.token), MayWrite(d, l),
         NEW content
  PROVE  BackUp(d, l, content) =
           [lease |-> [d.lease EXCEPT !.rev = l.rev + 1],
            slots |-> [d.slots EXCEPT ![l.owner] =
              [token |-> l.token, rev |-> l.rev + 1, base |-> l.base,
               from |-> l.from, content |-> content]],
            tokens |-> d.tokens]
  BY DEF BackUp, KnownDesk

\* Backing up moves the draft on, or is refused a draft never backed up.
LEMMA BackUpKeeps ==
  ASSUME NEW s, NEW d, KnownDesk(s, d), Backed(d), d.lease # Absent,
         d.tokens <= MaxToken, NEW content \in Contents
  PROVE  LET e == BackUp(d, d.lease, content)
         IN  /\ Keeps(d, e) /\ Continues(d, e)
             /\ e.lease.token = d.lease.token
             /\ \A x, y : Shows(e, content, x, y)
             /\ \/ e = d /\ d.lease.rev = 0 /\ ~MayWrite(d, d.lease)
                \/ e.lease.rev = d.lease.rev + 1
<1> DEFINE e == BackUp(d, d.lease, content)
           l == d.lease
           b == [token |-> l.token, rev |-> l.rev + 1, base |-> l.base,
                 from |-> l.from, content |-> content]
<1>1. /\ l \in KnownLeases(s, d.tokens) /\ l.token \in 1 .. d.tokens
      /\ l.rev \in Nat /\ l.owner \in Users /\ d.tokens \in Nat
      /\ d.slots \in [Users -> KnownBackups(s, d.tokens) \cup {Absent}]
      /\ l.base \in 1 .. MaxVersion /\ l.from \in Contents
  BY DeskParts DEF KnownLeases
<1>2. CASE ~MayWrite(d, l)
  <2>1. e = d
    BY <1>2 DEF BackUp
  <2>2. d.lease.rev = 0
    BY <1>1, <1>2 DEF Backed, MayWrite
  <2>3. \A x, y : Shows(d, content, x, y)
    BY <2>2 DEF Shows
  <2> QED
    BY <1>2, <2>1, <2>2, <2>3, Same
<1>3. CASE MayWrite(d, l)
  <2>1. e = [lease |-> [l EXCEPT !.rev = l.rev + 1],
             slots |-> [d.slots EXCEPT ![l.owner] = b], tokens |-> d.tokens]
    <3>1. Holds(d, l.token)
      BY DEF Holds
    <3> QED
      BY <1>3, <3>1, BackUpIs
  <2>2. b \in Backups
    BY <1>1 DEF Backups
  <2>3. /\ b # Absent /\ b.token = l.token /\ b.rev = l.rev + 1
        /\ b.content = content
    BY <2>2, AbsentAssumption
  <2>4. /\ e.tokens = d.tokens /\ e.lease.token = l.token
        /\ e.lease.owner = l.owner /\ e.lease.rev = l.rev + 1
        /\ e.slots[l.owner] = b
        /\ \A u \in Users : u # l.owner => e.slots[u] = d.slots[u]
    BY <1>1, <2>1 DEF KnownLeases
  <2> HIDE DEF b, e
  <2>5. \A u \in Users : d.slots[u] # Absent /\ d.slots[u].token = l.token
          => u = l.owner /\ d.slots[u].rev = l.rev
    BY DEF Backed
  <2>6. Backed(e)
    <3>1. ASSUME NEW u \in Users, NEW v \in Users,
                 e.slots[u] # Absent, e.slots[v] # Absent,
                 e.slots[u].token = e.slots[v].token
          PROVE  u = v
      BY <1>1, <2>3, <2>4, <2>5, <3>1 DEF Backed
    <3>2. ASSUME NEW u \in Users, e.slots[u] # Absent,
                 e.slots[u].token = e.lease.token
          PROVE  u = e.lease.owner /\ e.slots[u].rev = e.lease.rev
      BY <1>1, <2>3, <2>4, <2>5, <3>2
    <3> QED
      BY <1>1, <2>3, <2>4, <3>1, <3>2 DEF Backed
  <2>7. ASSUME NEW t \in Nat, NEW r \in Nat, t <= d.tokens, Behind(d, t, r)
        PROVE  /\ Behind(e, t, r)
               /\ \A c : Carries(d, t, r, c) => Carries(e, t, r, c)
    <3>1. t = l.token => r <= l.rev
      BY <2>7 DEF Behind, Holds
    <3>2. ASSUME NEW u \in Users, e.slots[u] # Absent, e.slots[u].token = t
          PROVE  r <= e.slots[u].rev
      BY <1>1, <2>3, <2>4, <2>7, <3>1, <3>2 DEF Behind
    <3>3. ASSUME NEW c, Carries(d, t, r, c)
          PROVE  Carries(e, t, r, c)
      BY <1>1, <2>3, <2>4, <3>1, <3>3 DEF Carries
    <3> QED
      BY <1>1, <2>4, <3>1, <3>2, <3>3 DEF Behind, Holds
  <2>8. Continues(d, e)
    BY <1>1, <2>4 DEF Continues, Holds
  <2>9. \A x, y : Shows(e, content, x, y)
    BY <2>3, <2>4 DEF Shows
  <2> QED
    BY <1>1, <2>4, <2>6, <2>7, <2>8, <2>9 DEF Keeps, e
<1> QED
  BY <1>2, <1>3

\* The draft at desk e is that of desk d with its backup, or none.
Trims(d, e) ==
  /\ e.tokens = d.tokens
  /\ e.lease = Absent \/ e.lease = d.lease
  /\ \A content, x, y : Shows(d, content, x, y) => Shows(e, content, x, y)

\* Ending a draft takes no other draft's backup.
LEMMA EndLeaseAtKeeps ==
  ASSUME NEW s, NEW d, KnownDesk(s, d), Backed(d), NEW l, l.owner \in Users,
         NEW revs
  PROVE  LET e == EndLeaseAt(d, l, revs)
         IN  Keeps(d, e) /\ Continues(d, e) /\ Trims(d, e)
<1> DEFINE e == EndLeaseAt(d, l, revs)
<1>1. /\ e.tokens = d.tokens
      /\ e.lease = IF Holds(d, l.token) THEN Absent ELSE d.lease
      /\ \A u \in Users :
           \/ e.slots[u] = d.slots[u]
           \/ /\ e.slots[u] = Absent /\ u = l.owner
              /\ d.slots[u] # Absent /\ d.slots[u].token = l.token
  BY DEF EndLeaseAt, KnownDesk
<1> HIDE DEF e
<1>2. e.lease # Absent => e.lease = d.lease /\ d.lease.token # l.token
  BY <1>1 DEF Holds
<1>3. e.lease # Absent /\ d.lease.rev > 0 =>
        e.slots[d.lease.owner] = d.slots[d.lease.owner]
  BY <1>1, <1>2, DeskParts DEF Backed
<1>4. Backed(e)
  BY <1>1, <1>2, <1>3 DEF Backed
<1>5. ASSUME NEW t \in Nat, NEW r \in Nat, t <= d.tokens, Behind(d, t, r)
      PROVE  /\ Behind(e, t, r)
             /\ \A c : Carries(d, t, r, c) => Carries(e, t, r, c)
  BY <1>1, <1>2, <1>5 DEF Behind, Carries, Holds
<1>6. Continues(d, e)
  BY <1>2, DeskParts DEF Continues, Holds
<1>7. Trims(d, e)
  BY <1>1, <1>2, <1>3 DEF Trims, Shows
<1> QED
  BY <1>1, <1>4, <1>5, <1>6, <1>7, DeskParts DEF Keeps, e

LEMMA TrimsNothing ==
  ASSUME NEW s, NEW d, KnownDesk(s, d), Backed(d)
  PROVE  Keeps(d, d) /\ Continues(d, d) /\ Trims(d, d)
  BY Same DEF Trims

LEMMA EndsKeep ==
  ASSUME NEW s, NEW d, KnownDesk(s, d), Backed(d)
  PROVE  /\ \A l : l.owner \in Users =>
              LET e == EndLease(d, l)
              IN  Keeps(d, e) /\ Continues(d, e) /\ Trims(d, e)
         /\ LET e == EndHeld(d)
            IN  Keeps(d, e) /\ Trims(d, e) /\ e.lease = Absent
         /\ LET e == CleanEffect(d)
            IN  Keeps(d, e) /\ Continues(d, e) /\ Trims(d, e)
<1>1. ASSUME NEW l, l.owner \in Users
      PROVE  LET e == EndLease(d, l)
             IN  Keeps(d, e) /\ Continues(d, e) /\ Trims(d, e)
  BY <1>1, EndLeaseAtKeeps DEF EndLease
<1>2. d.lease # Absent => d.lease.owner \in Users
  BY DeskParts
<1>3. d.lease # Absent => EndLease(d, d.lease).lease = Absent
  BY DEF EndLease, EndLeaseAt, Holds, KnownDesk
<1> QED
  BY <1>1, <1>2, <1>3, TrimsNothing DEF EndHeld, CleanEffect

\* A draft moved to the version saved stays as it is.
LEMMA RebaseKeeps ==
  ASSUME NEW s \in Servers, NEW d, KnownDesk(s, d), Backed(d), d.lease # Absent,
         d.tokens <= MaxToken, NEW p \in KnownPlans(s)
  PROVE  LET e == Rebase(d, p)
         IN  /\ Keeps(d, e) /\ Continues(d, e) /\ e.tokens = d.tokens
             /\ \A content, x, y : Shows(d, content, x, y) => Shows(e, content, x, y)
<1> DEFINE l == d.lease
           b == d.slots[l.owner]
           c == [b EXCEPT !.base = p.version, !.from = p.content]
           e == Rebase(d, p)
<1>1. /\ l \in KnownLeases(s, d.tokens) /\ l.owner \in Users /\ d.tokens \in Nat
      /\ l.token \in 1 .. d.tokens /\ l.rev \in Nat
      /\ d.slots \in [Users -> KnownBackups(s, d.tokens) \cup {Absent}]
      /\ p.version \in 1 .. MaxVersion /\ p.content \in Contents
  BY DeskParts DEF KnownPlans
<1>2. b # Absent => b \in KnownBackups(s, d.tokens)
  BY <1>1
<1>3. b # Absent => c \in Backups /\ c.token = b.token /\ c.rev = b.rev
                    /\ c.content = b.content
  <2>1. b # Absent => b \in Backups
    BY <1>1, <1>2 DEF KnownBackups, Backups
  <2> HIDE DEF b
  <2> QED
    BY <1>1, <2>1 DEF Backups
<1>4. /\ e.tokens = d.tokens
      /\ e.lease = [l EXCEPT !.base = p.version, !.from = p.content]
      /\ \/ e.slots = d.slots
         \/ b # Absent /\ e.slots = [d.slots EXCEPT ![l.owner] = c]
  BY <1>1 DEF Rebase, KnownDesk
<1>5. /\ e.lease.token = l.token /\ e.lease.rev = l.rev
      /\ e.lease.owner = l.owner
  BY <1>1, <1>4 DEF KnownLeases
<1>6. \A u \in Users :
        /\ e.slots[u] # Absent <=> d.slots[u] # Absent
        /\ d.slots[u] # Absent =>
             /\ e.slots[u].token = d.slots[u].token
             /\ e.slots[u].rev = d.slots[u].rev
             /\ e.slots[u].content = d.slots[u].content
  <2> HIDE DEF c, e
  <2> QED
    BY <1>1, <1>3, <1>4, AbsentAssumption
<1> HIDE DEF l, b, c, e
<1>7. Backed(e)
  BY <1>1, <1>5, <1>6 DEF Backed, l
<1>8. ASSUME NEW t \in Nat, NEW r \in Nat, t <= d.tokens, Behind(d, t, r)
      PROVE  /\ Behind(e, t, r)
             /\ \A m : Carries(d, t, r, m) => Carries(e, t, r, m)
  BY <1>5, <1>6, <1>8 DEF Behind, Carries, Holds, l
<1>9. Continues(d, e)
  BY <1>1, <1>5 DEF Continues, Holds, l
<1>10. \A content, x, y : Shows(d, content, x, y) => Shows(e, content, x, y)
  <2>1. l.rev > 0 => d.slots[l.owner] # Absent
    BY DEF Backed, l
  <2> QED
    BY <1>1, <1>5, <1>6, <2>1 DEF Shows, l
<1> QED
  BY <1>1, <1>4, <1>7, <1>8, <1>9, <1>10 DEF Keeps, e

\* Letting go of a draft leaves its backup on offer.
LEMMA LetGoKeeps ==
  ASSUME NEW s, NEW d, KnownDesk(s, d), Backed(d), NEW r
  PROVE  LET e == LetGo(d, r)
         IN  Keeps(d, e) /\ Continues(d, e) /\ Trims(d, e)
<1> DEFINE e == LetGo(d, r)
<1>1. \/ e = d
      \/ e.tokens = d.tokens /\ e.slots = d.slots /\ e.lease = Absent
  BY DEF LetGo, KnownDesk
<1>2. CASE e = d
  BY <1>2, TrimsNothing
<1>3. CASE e.tokens = d.tokens /\ e.slots = d.slots /\ e.lease = Absent
  <2> HIDE DEF e
  <2>1. Backed(e)
    BY <1>3 DEF Backed
  <2>2. \A t, m \in Nat : Behind(d, t, m) =>
          /\ Behind(e, t, m)
          /\ \A c : Carries(d, t, m, c) => Carries(e, t, m, c)
    BY <1>3 DEF Behind, Carries, Holds
  <2> QED
    BY <1>3, <2>1, <2>2, DeskParts DEF Keeps, Continues, Trims, Shows, e
<1> QED
  BY <1>1, <1>2, <1>3

\* The editor's effect backs up what it shows. The draft is a new one, was moved
\* on, or never was backed up.
LEMMA EditorEffectKeeps ==
  ASSUME NEW s \in Servers, NEW d, KnownDesk(s, d), Backed(d),
         author' \in Users \cup {Nobody}, editor'.present \in Contents,
         editor'.present = editor'.persisted \/ plan' \in KnownPlans(s),
         EditorEffect(d).tokens <= MaxToken
  PROVE  LET e == EditorEffect(d)
         IN  /\ Keeps(d, e) /\ Continues(d, e)
             /\ editor'.present # editor'.persisted =>
                  /\ \A x, y : Shows(e, editor'.present, x, y)
                  /\ e.lease # Absent =>
                       \/ d.tokens < e.lease.token
                       \/ e.lease.rev = 0 /\ ~MayWrite(d, e.lease)
                       \/ Holds(d, e.lease.token) /\ d.lease.rev < e.lease.rev
<1> DEFINE e == EditorEffect(d)
<1>1. CASE editor'.present = editor'.persisted
  BY <1>1, EndsKeep DEF EditorEffect
<1>2. CASE editor'.present # editor'.persisted
  <2> DEFINE f == EnsureLease(d, "editor")
  <2>1. KnownDesk(s, f) /\ d.tokens <= f.tokens
    BY <1>2, EnsureLeaseKnows
  <2>2. /\ Keeps(d, f) /\ Continues(d, f)
        /\ f.slots = d.slots
        /\ f = d \/ f.lease.token = d.tokens + 1
    BY EnsureLeaseKeeps
  <2>3. e = IF f.lease = Absent THEN f ELSE BackUp(f, f.lease, editor'.present)
    BY <1>2 DEF EditorEffect
  <2>4. CASE f.lease = Absent
    <3>1. e = f
      BY <2>3, <2>4
    <3> HIDE DEF f, e
    <3> QED
      BY <2>2, <2>4, <3>1 DEF Shows, e
  <2>5. CASE f.lease # Absent
    <3> HIDE DEF f
    <3>1. KnownDesk(s, e) /\ e.tokens = f.tokens
      BY <2>1, <2>3, <2>5, BackUpKnows, DeskParts
    <3>2. /\ Keeps(f, e) /\ Continues(f, e)
          /\ e.lease.token = f.lease.token
          /\ \A x, y : Shows(e, editor'.present, x, y)
          /\ \/ e = f /\ f.lease.rev = 0 /\ ~MayWrite(f, f.lease)
             \/ e.lease.rev = f.lease.rev + 1
      <4>1. e = BackUp(f, f.lease, editor'.present)
        BY <2>3, <2>5
      <4>2. Backed(f) /\ f.tokens <= MaxToken
        BY <2>2, <3>1 DEF Keeps
      <4> HIDE DEF e
      <4> QED
        BY <2>1, <2>5, <4>1, <4>2, BackUpKeeps
    <3> HIDE DEF e
    <3>3. Keeps(d, e) /\ Continues(d, e)
      BY <2>1, <2>2, <3>1, <3>2, KeepsMore, ContinuesMore, DeskParts
    <3>4. e.lease # Absent =>
            \/ d.tokens < e.lease.token
            \/ e.lease.rev = 0 /\ ~MayWrite(d, e.lease)
            \/ Holds(d, e.lease.token) /\ d.lease.rev < e.lease.rev
      BY <2>1, <2>2, <2>5, <3>2, DeskParts DEF Holds, MayWrite
    <3> QED
      BY <3>2, <3>3, <3>4 DEF e
  <2> QED
    BY <2>4, <2>5
<1> QED
  BY <1>1, <1>2

-----------------------------------------------------------------------------

\* What a save remembers of its draft is not ahead of it.
SavesBehind == \A i \in Slots :
  saves[i] # Absent => Behind(Desk, saves[i].lease.token, saves[i].lease.rev)

\* A backup at the revision a save remembers holds what it sent, unless a
\* choice in a conflict view has put an older content there.
SavesCarried == \A i \in Slots :
  (saves[i] # Absent /\ saves[i].lease.token \notin exposed)
    => Carries(Desk, saves[i].lease.token, saves[i].lease.rev, saves[i].content)

\* No restored draft signed out of is held again.
OutOfEpoch == \A i \in Slots :
  (saves[i] # Absent /\ saves[i].restores /\ ~saves[i].epoch)
    => ~Holds(Desk, saves[i].lease.token)

\* The save of the draft as it still is.
SavesAsIs(i) ==
  /\ saves[i] # Absent
  /\ Holds(Desk, saves[i].lease.token)
  /\ saves[i].lease.rev = lease.rev
  /\ lease.token \notin refused
  /\ Dirty

\* It carries what the editor shows.
SavesCurrent == \A i \in Slots :
  SavesAsIs(i) => editor.present = saves[i].content

\* Of two saves one was left; nothing can be edited while its draft is held.
OneHere ==
  /\ \A i, j \in Slots :
       (saves[i] # Absent /\ saves[j] # Absent /\ saves[i].here /\ saves[j].here) => i = j
  /\ \A i \in Slots :
       (saves[i] # Absent /\ ~saves[i].here /\ Holds(Desk, saves[i].lease.token))
         => ~editor.open

BackupInv ==
  /\ Backed(Desk) /\ SavesBehind /\ SavesCarried /\ OutOfEpoch
  /\ SavesCurrent /\ OneHere
  /\ Dirty => Shows(Desk, editor.present, refused, reverted)

LEMMA BackupInvBacks ==
  ASSUME IInv, BackupInv
  PROVE  EditsBackedUp
  BY DeskIs DEF IInv, BackupInv, Backed, Shows, EditsBackedUp, PutBack

\* No draft is forgiven more than before, or less: an edit that is backed up
\* makes good for what was refused, or put back, before.
Grows == refused \subseteq refused' /\ reverted \subseteq reverted'

\* What a save under way remembers of a draft no longer exposed is outdated.
ExposedStay == \A i \in Slots :
  (/\ saves[i] # Absent
   /\ saves[i].lease.token \in exposed \ exposed')
    => \A c : Carries(Desk', saves[i].lease.token, saves[i].lease.rev, c)

LEMMA GrowsMore ==
  /\ UNCHANGED ghosts => Grows /\ UNCHANGED <<refused, reverted, exposed>>
  /\ Grows => ExposedStay
BY DEF ghosts, Grows, ExposedStay, exposed

\* This save is not new.
PassedOn(i) == saves'[i] # Absent =>
  /\ saves[i] # Absent
  /\ saves'[i].lease = saves[i].lease
  /\ saves'[i].content = saves[i].content
  /\ saves'[i].here => saves[i].here
  /\ saves'[i].restores = saves[i].restores
  /\ saves'[i].epoch = saves[i].epoch \/ lease' = Absent

Inherits == \A i \in Slots : PassedOn(i)

StayHere == \A i \in Slots : saves'[i] # Absent => saves'[i].here = saves[i].here

\* What a save under way remembers.
LEMMA SaveIs ==
  ASSUME IInv, NEW i \in Slots, saves[i] # Absent
  PROVE  /\ saves[i] \in KnownRequests(server, tokens)
         /\ saves[i].lease \in KnownLeases(server, tokens)
         /\ saves[i].lease.token \in Nat /\ saves[i].lease.token <= tokens
         /\ saves[i].lease.rev \in Nat
  BY DraftsKnown DEF IInv, KnownRequests, KnownLeases

LEMMA InheritsBehind ==
  ASSUME IInv, BackupInv, Keeps(Desk, Desk'), Continues(Desk, Desk'),
         ExposedStay, NEW i \in Slots, saves'[i] # Absent, PassedOn(i)
  PROVE  /\ Behind(Desk', saves'[i].lease.token, saves'[i].lease.rev)
         /\ saves'[i].lease.token \notin exposed' =>
              Carries(Desk', saves'[i].lease.token, saves'[i].lease.rev,
                      saves'[i].content)
         /\ saves'[i].restores /\ ~saves'[i].epoch =>
              ~Holds(Desk', saves'[i].lease.token)
<1>1. /\ saves[i] # Absent /\ saves'[i].lease = saves[i].lease
      /\ saves'[i].content = saves[i].content
  BY DEF PassedOn
<1>2. /\ Behind(Desk, saves[i].lease.token, saves[i].lease.rev)
      /\ saves[i].lease.token \notin exposed =>
           Carries(Desk, saves[i].lease.token, saves[i].lease.rev, saves[i].content)
  BY <1>1 DEF BackupInv, SavesBehind, SavesCarried
<1>3. /\ Desk.tokens = tokens /\ tokens \in Nat /\ Desk'.lease = lease'
      /\ saves[i].lease.token \in Nat /\ saves[i].lease.token <= tokens
      /\ saves[i].lease.rev \in Nat
  BY <1>1, SaveIs, DeskIs DEF Desk, IInv
<1>4. ASSUME saves'[i].restores, ~saves'[i].epoch, Holds(Desk', saves'[i].lease.token)
      PROVE  FALSE
  <2>1. saves[i].restores /\ ~saves[i].epoch
    BY <1>3, <1>4 DEF PassedOn, Holds
  <2>2. Holds(Desk, saves[i].lease.token)
    BY <1>1, <1>3, <1>4 DEF Continues, Holds
  <2> QED
    BY <1>1, <2>1, <2>2 DEF BackupInv, OutOfEpoch
<1>5. saves[i].lease.token \in exposed \ exposed' =>
        Carries(Desk', saves[i].lease.token, saves[i].lease.rev, saves[i].content)
  BY <1>1 DEF ExposedStay
<1> QED
  BY <1>1, <1>2, <1>3, <1>4, <1>5 DEF Keeps

\* A step that ends with the editor closed.
LEMMA ClosedBacks ==
  ASSUME IInv, IInv', BackupInv, Keeps(Desk, Desk'), Continues(Desk, Desk'),
         Inherits, Grows, ~editor'.open
  PROVE  BackupInv'
<1>1. ~Dirty'
  BY DEF IInv, PlanInv
<1>2. SavesBehind' /\ SavesCarried' /\ OutOfEpoch'
  BY InheritsBehind, GrowsMore DEF SavesBehind, SavesCarried, OutOfEpoch, Inherits
<1>3. SavesCurrent' /\ (Dirty' => Shows(Desk', editor'.present, refused', reverted'))
  BY <1>1 DEF SavesCurrent, SavesAsIs
<1>4. OneHere'
  BY DEF BackupInv, OneHere, Inherits, PassedOn
<1> QED
  BY <1>2, <1>3, <1>4 DEF BackupInv, Keeps

\* A step that leaves the saves where they are, in an editor it does not open.
LEMMA OpenBacks ==
  ASSUME IInv, IInv', BackupInv, Keeps(Desk, Desk'), Continues(Desk, Desk'),
         Inherits, ExposedStay,
         lease = Absent \/ (StayHere /\ (editor'.open => editor.open)),
         Dirty' => Shows(Desk', editor'.present, refused', reverted'),
         \A i \in Slots : SavesAsIs(i)' => editor'.present = saves'[i].content
  PROVE  BackupInv'
<1>1. SavesBehind' /\ SavesCarried' /\ OutOfEpoch' /\ SavesCurrent'
  BY InheritsBehind DEF SavesBehind, SavesCarried, OutOfEpoch, SavesCurrent, Inherits
<1>2. OneHere'
  <2>1. ASSUME NEW i \in Slots, saves'[i] # Absent, ~saves'[i].here,
               Holds(Desk', saves'[i].lease.token)
        PROVE  ~editor'.open
    <3>1. /\ saves[i] # Absent
          /\ saves'[i].lease = saves[i].lease
      BY <2>1 DEF Inherits, PassedOn
    <3>2. saves[i].lease.token <= tokens /\ saves[i].lease.token \in Nat
      BY <3>1, SaveIs
    <3>3. Holds(Desk, saves[i].lease.token)
      <4>1. Desk.tokens = tokens /\ tokens \in Nat
        BY DeskIs DEF IInv
      <4> QED
        BY <2>1, <3>1, <3>2, <4>1 DEF Continues, Holds
    <3>4. StayHere /\ (editor'.open => editor.open)
      BY <3>3 DEF Holds, Desk
    <3> QED
      BY <2>1, <3>1, <3>3, <3>4 DEF BackupInv, OneHere, StayHere
  <2> QED
    BY <2>1 DEF BackupInv, OneHere, Inherits, PassedOn
<1> QED
  BY <1>1, <1>2 DEF BackupInv, Keeps

\* A save that is current after a step was so before, if the editor stays.
LEMMA StillCurrent ==
  ASSUME IInv, IInv', BackupInv, Continues(Desk, Desk'),
         Dirty, editor'.present = editor.present, Grows,
         NEW i \in Slots, PassedOn(i), SavesAsIs(i)'
  PROVE  editor'.present = saves'[i].content
<1>1. /\ saves[i] # Absent /\ saves'[i].lease = saves[i].lease
      /\ saves'[i].content = saves[i].content /\ Dirty
      /\ lease' # Absent /\ lease'.token = saves[i].lease.token
      /\ lease'.rev = saves[i].lease.rev /\ lease'.token \notin refused
  BY DEF SavesAsIs, PassedOn, Dirty, Holds, Desk, Grows
<1>2. /\ saves[i].lease.token \in Nat /\ saves[i].lease.token <= tokens
      /\ saves[i].lease.rev \in Nat /\ tokens \in Nat
  BY <1>1, SaveIs, DeskIs DEF IInv
<1>3. /\ Holds(Desk, saves[i].lease.token) /\ lease.rev <= saves[i].lease.rev
  BY <1>1, <1>2 DEF Continues, Holds, Desk
<1>4. saves[i].lease.rev <= lease.rev
  BY <1>1, <1>3 DEF BackupInv, SavesBehind, Behind, Desk
<1>5. lease.rev \in Nat
  BY <1>3, DeskIs DEF IInv, Holds, Desk, KnownLeases
<1>6. SavesAsIs(i)
  BY <1>1, <1>2, <1>3, <1>4, <1>5 DEF SavesAsIs, Holds, Desk
<1> QED
  BY <1>1, <1>6 DEF BackupInv, SavesCurrent

LEMMA RequestsInherit ==
  ASSUME IInv, NEW i \in Slots
  PROVE  /\ Done(i) => Inherits /\ StayHere
         /\ \A stage, version : saves[i] # Absent /\ Answer(i, stage, version)
                                 => Inherits /\ StayHere
         /\ saves' = Left => Inherits
         /\ saves' = saves => Inherits /\ StayHere
<1>1. saves \in [Slots -> KnownRequests(server, tokens) \cup {Absent}]
  BY DraftsKnown DEF IInv
<1>2. Done(i) => Inherits /\ StayHere
  BY <1>1 DEF Done, Inherits, PassedOn, StayHere
<1>3. ASSUME NEW stage, NEW version, saves[i] # Absent,
             Answer(i, stage, version)
      PROVE  Inherits /\ StayHere
  <2> DEFINE r == [[saves[i] EXCEPT !.stage = stage] EXCEPT !.version = version]
  <2>1. saves' = [saves EXCEPT ![i] = r]
    BY <1>3 DEF Answer
  <2>2. saves[i] # Absent => /\ r.lease = saves[i].lease
                             /\ r.content = saves[i].content
                             /\ r.here = saves[i].here
                             /\ r.restores = saves[i].restores
                             /\ r.epoch = saves[i].epoch
    BY <1>1 DEF KnownRequests
  <2>3. ASSUME NEW j \in Slots, saves'[j] # Absent
        PROVE  PassedOn(j) /\ saves'[j].here = saves[j].here
    <3> HIDE DEF r
    <3>1. CASE j # i
      BY <1>1, <2>1, <2>3, <3>1 DEF PassedOn
    <3>2. CASE j = i
      BY <1>1, <1>3, <2>1, <2>2, <3>2 DEF PassedOn
    <3> QED
      BY <3>1, <3>2
  <2> QED
    BY <2>3 DEF Inherits, PassedOn, StayHere
<1>4. saves' = Left => Inherits
  BY <1>1 DEF Left, Inherits, PassedOn, KnownRequests
<1>5. saves' = saves => Inherits /\ StayHere
  BY <1>1 DEF Inherits, PassedOn, StayHere
<1> QED
  BY <1>2, <1>3, <1>4, <1>5

LEMMA PutIs ==
  ASSUME NEW s, NEW d, KnownDesk(s, d), Put(d)
  PROVE  Desk' = d
  BY DEF Put, Desk, KnownDesk

\* Steps that change the drafts under an editor that stays.
LEMMA EditorStays ==
  ASSUME IInv, IInv', BackupInv, Keeps(Desk, Desk'), Continues(Desk, Desk'),
         Inherits, StayHere, editor' = editor, Grows,
         Dirty => Shows(Desk', editor.present, refused', reverted')
  PROVE  BackupInv'
<1>1. \A i \in Slots : SavesAsIs(i)' => editor'.present = saves'[i].content
  BY StillCurrent DEF Inherits, SavesAsIs, Dirty
<1> QED
  BY <1>1, GrowsMore, OpenBacks DEF Dirty

LEMMA ShowsMore ==
  ASSUME NEW d, NEW c, NEW x, NEW y, NEW u, NEW v,
         x \subseteq u, y \subseteq v, Shows(d, c, x, y)
  PROVE  Shows(d, c, u, v)
  BY DEF Shows

\* Steps that leave the drafts and the editor alone.
LEMMA AsideBacks ==
  ASSUME IInv, IInv', BackupInv, UNCHANGED <<lease, slots, tokens, editor, ghosts>>,
         Inherits, StayHere
  PROVE  BackupInv'
<1>1. Desk' = Desk /\ KnownDesk(server, Desk)
  BY DEF IInv, DraftInv, Desk
<1>2. Keeps(Desk, Desk') /\ Continues(Desk, Desk')
  BY <1>1, Same DEF BackupInv
<1> QED
  BY <1>1, <1>2, GrowsMore, EditorStays DEF BackupInv

\* Only forgetting keeps what is left.
LEMMA Forgets ==
  ASSUME NEW s, NEW d, KnownDesk(s, d), Backed(d), NEW e,
         e.lease = Absent, e.tokens = d.tokens,
         \A u \in Users : e.slots[u] = d.slots[u] \/ e.slots[u] = Absent
  PROVE  Keeps(d, e) /\ Continues(d, e) /\ \A c, x, y : Shows(e, c, x, y)
<1>1. Backed(e)
  BY DEF Backed
<1>2. \A t, r \in Nat : Behind(d, t, r) =>
        /\ Behind(e, t, r)
        /\ \A c : Carries(d, t, r, c) => Carries(e, t, r, c)
  BY DEF Behind, Carries, Holds
<1> QED
  BY <1>1, <1>2, DeskParts DEF Keeps, Continues, Shows

\* The desk at hand.
LEMMA AtHand ==
  ASSUME IInv, BackupInv
  PROVE  /\ KnownDesk(server, Desk) /\ Backed(Desk) /\ server \in Servers
         /\ Desk.tokens = tokens /\ tokens \in Nat /\ tokens <= MaxToken
         /\ Desk.lease = lease /\ Desk.slots = slots
         /\ author \in Users \cup {Nobody}
         /\ editor.present \in Contents
         /\ Dirty => Shows(Desk, editor.present, refused, reverted)
         /\ editor.present = editor.persisted \/ plan \in KnownPlans(server)
         /\ DOMAIN slots = Users
  BY DeskIs, DirtyPlan DEF IInv, WindowInv, DraftInv, BackupInv

-----------------------------------------------------------------------------
(* The steps and the backups.                                              *)

LEMMA InitBacks == Init => BackupInv
  BY DEF Init, BackupInv, Backed, SavesBehind, SavesCarried, OutOfEpoch, SavesCurrent,
         SavesAsIs, OneHere, Shows, Desk, Opened, Closed, Dirty

LEMMA AsideBack ==
  ASSUME IInv, IInv', BackupInv,
         \/ OtherWrite \/ OtherDelete \/ Expire \/ Later \/ AskSignOut
         \/ ConfirmSignOut \/ SignOutFails \/ UNCHANGED vars
         \/ \E i \in Slots : Serve(i)
  PROVE  BackupInv'
<1>1. UNCHANGED <<lease, slots, tokens, editor, ghosts>>
  BY DEF OtherWrite, OtherDelete, Expire, Later, AskSignOut, ConfirmSignOut,
         SignOutFails, Serve, vars, windowVars
<1>2. saves' = saves \/ \E i \in Slots : Serve(i)
  BY DEF OtherWrite, OtherDelete, Expire, Later, AskSignOut, ConfirmSignOut,
         SignOutFails, vars, windowVars
<1>3. ASSUME NEW i \in Slots, Serve(i)
      PROVE  Inherits /\ StayHere
  <2>1. saves[i] # Absent /\ \E stage, version : Answer(i, stage, version)
    BY <1>3 DEF Serve
  <2> QED
    BY <2>1, RequestsInherit
<1>4. Inherits /\ StayHere
  <2>1. saves' = saves => Inherits /\ StayHere
    BY RequestsInherit DEF Slots
  <2> QED
    BY <1>2, <1>3, <2>1
<1> QED
  BY <1>1, <1>4, AsideBacks

LEMMA UndoBacks ==
  ASSUME IInv, IInv', BackupInv, Undo
  PROVE  BackupInv'
<1> DEFINE d == CleanEffect(Desk)
<1>1. KnownDesk(server, d) /\ Put(d) /\ Keeps(Desk, d) /\ Continues(Desk, d)
  BY AtHand, EndsKnow, EndsKeep DEF Undo
<1>2. Desk' = d
  BY <1>1, PutIs
<1>3. ~Dirty' /\ editor'.open = editor.open
  BY DEF Undo, Dirty, IInv, PlanInv
<1>4. Inherits /\ StayHere /\ ExposedStay
  BY RequestsInherit, GrowsMore DEF Undo, Slots
<1> HIDE DEF d
<1> QED
  BY <1>1, <1>2, <1>3, <1>4, OpenBacks DEF SavesAsIs

LEMMA ClosesBack ==
  ASSUME IInv, IInv', BackupInv, Discard \/ Open \/ Reload
  PROVE  BackupInv'
<1>1. ~editor'.open /\ Grows
  BY GrowsMore DEF Discard, Open, Reload, Opened, Closed
<1>2. CASE Discard
  <2>1. /\ KnownDesk(server, EndHeld(Desk)) /\ Put(EndHeld(Desk))
        /\ Keeps(Desk, EndHeld(Desk)) /\ Continues(Desk, EndHeld(Desk))
    BY <1>2, AtHand, EndsKnow, EndsKeep DEF Discard, Continues
  <2>2. Desk' = EndHeld(Desk)
    BY <2>1, PutIs
  <2>3. Inherits
    BY <1>2, RequestsInherit DEF Discard, Slots
  <2> QED
    BY <1>1, <2>1, <2>2, <2>3, ClosedBacks
<1>3. CASE Open
  <2>1. Desk' = Desk
    BY <1>3 DEF Open, Desk
  <2>2. Keeps(Desk, Desk) /\ Continues(Desk, Desk)
    BY AtHand, Same
  <2>3. Inherits
    BY <1>3, RequestsInherit DEF Open, Slots
  <2> QED
    BY <1>1, <2>1, <2>2, <2>3, ClosedBacks
<1>4. CASE Reload
  <2>1. Desk' = [lease |-> Absent, slots |-> slots, tokens |-> tokens]
    BY <1>4 DEF Reload, Desk
  <2>2. Keeps(Desk, Desk') /\ Continues(Desk, Desk')
    BY <2>1, AtHand, Forgets
  <2>3. Inherits
    BY <1>4 DEF Reload, Inherits, PassedOn
  <2> QED
    BY <1>1, <2>2, <2>3, ClosedBacks
<1> QED
  BY <1>2, <1>3, <1>4

LEMMA DiscardBackupBacks ==
  ASSUME IInv, IInv', BackupInv, DiscardBackup
  PROVE  BackupInv'
<1> DEFINE l == [token |-> slots[session].token, owner |-> session]
           d == EndLease(Desk, l)
<1>1. /\ session \in Users /\ slots[session] # Absent
      /\ slots[session].rev \in Nat
  BY AtHand, DeskParts DEF DiscardBackup, Offered, SignedIn
<1>2. Desk' = d
  <2>1. d = [lease |-> IF Holds(Desk, l.token) THEN Absent ELSE lease,
             slots |-> [slots EXCEPT ![session] = Absent], tokens |-> tokens]
    BY <1>1 DEF EndLease, EndLeaseAt, Desk
  <2> QED
    BY <2>1 DEF DiscardBackup, Desk
<1>3. Keeps(Desk, d) /\ Continues(Desk, d) /\ Trims(Desk, d)
  <2>1. l.owner \in Users
    BY <1>1
  <2> HIDE DEF l
  <2> QED
    BY <2>1, AtHand, EndsKeep
<1>4. Inherits /\ StayHere
  BY RequestsInherit DEF DiscardBackup, Slots
<1>5. Grows /\ UNCHANGED <<refused, reverted>>
  BY GrowsMore DEF DiscardBackup
<1>6. Dirty => Shows(Desk', editor.present, refused', reverted')
  BY <1>2, <1>3, <1>5, AtHand DEF Trims
<1> HIDE DEF d
<1> QED
  BY <1>2, <1>3, <1>4, <1>5, <1>6, EditorStays DEF DiscardBackup

LEMMA SignedOutBacks ==
  ASSUME IInv, IInv', BackupInv, SignedOut
  PROVE  BackupInv'
<1>1. /\ Desk' = [lease |-> Absent, slots |-> slots', tokens |-> tokens]
      /\ \A u \in Users : slots'[u] = slots[u] \/ slots'[u] = Absent
  BY AtHand DEF SignedOut, Desk
<1>2. Keeps(Desk, Desk') /\ Continues(Desk, Desk') /\ \A c, x, y : Shows(Desk', c, x, y)
  BY <1>1, AtHand, Forgets
<1>3. CASE leaving.dirty
  <2>1. ~editor'.open /\ Grows
    BY <1>3, GrowsMore DEF SignedOut, Opened, Closed
  <2>2. Inherits
    BY <1>3, DraftsKnown DEF SignedOut, Left, Inherits, PassedOn, IInv, KnownRequests
  <2> QED
    BY <1>2, <2>1, <2>2, ClosedBacks
<1>4. CASE ~leaving.dirty
  <2>1. Inherits /\ StayHere
    BY <1>4, DraftsKnown DEF SignedOut, Inherits, PassedOn, StayHere, IInv, KnownRequests
  <2>2. Grows /\ editor' = editor
    BY <1>4, GrowsMore DEF SignedOut
  <2> QED
    BY <1>2, <2>1, <2>2, EditorStays
<1> QED
  BY <1>3, <1>4

LEMMA SignInBacks ==
  ASSUME IInv, IInv', BackupInv, NEW u \in Users, SignIn(u)
  PROVE  BackupInv'
<1> DEFINE d == EditorEffect(Desk)
<1>1. /\ author' \in Users /\ editor' = editor /\ plan' = plan /\ Put(d)
      /\ saves' = saves /\ Grows
  BY GrowsMore DEF SignIn
<1>2. KnownDesk(server, d) /\ d.tokens <= MaxToken
  BY <1>1, AtHand, EditorEffectKnows DEF Put
<1>3. /\ Keeps(Desk, d) /\ Continues(Desk, d)
      /\ Dirty => \A x, y : Shows(d, editor.present, x, y)
  BY <1>1, <1>2, AtHand, EditorEffectKeeps DEF Dirty
<1>4. Desk' = d
  BY <1>1, <1>2, PutIs
<1>5. Inherits /\ StayHere
  BY <1>1, RequestsInherit DEF Slots
<1> HIDE DEF d
<1> QED
  BY <1>1, <1>3, <1>4, <1>5, EditorStays

\* An edit moves its draft on, begins one, or is refused a backup.
LEMMA EditBacks ==
  ASSUME IInv, IInv', BackupInv, Edit
  PROVE  BackupInv'
<1> DEFINE d == EditorEffect(Desk)
<1>1. /\ author' \in Users /\ plan' \in KnownPlans(server) /\ Put(d)
      /\ editor' = [editor EXCEPT !.open = TRUE, !.present = made + 1]
      /\ editor'.present \in Contents
  BY DEF Edit, IInv, WindowInv, PlanInv
<1>2. KnownDesk(server, d) /\ d.tokens <= MaxToken
  BY <1>1, AtHand, EditorEffectKnows DEF Put
<1>3. /\ Keeps(Desk, d) /\ Continues(Desk, d)
      /\ Dirty' =>
           /\ \A x, y : Shows(d, editor'.present, x, y)
           /\ d.lease # Absent =>
                \/ tokens < d.lease.token
                \/ d.lease.rev = 0 /\ ~MayWrite(Desk, d.lease)
                \/ Holds(Desk, d.lease.token) /\ lease.rev < d.lease.rev
  BY <1>1, <1>2, AtHand, EditorEffectKeeps DEF Dirty
<1>4. Desk' = d /\ lease' = d.lease
  BY <1>1, <1>2, PutIs DEF Desk
<1>5. /\ Inherits
      /\ lease = Absent \/ (StayHere /\ (editor'.open => editor.open))
  BY RequestsInherit DEF Edit, Slots
<1> HIDE DEF d
<1>7. /\ lease' # Absent /\ Dirty' /\ ~MayWrite(Desk, lease')
           => lease'.token \in refused'
      /\ \A t \in exposed \ exposed' :
           /\ Dirty' /\ lease' # Absent
           /\ lease'.token = t /\ MayWrite(Desk, lease')
  BY DEF Edit, exposed
\* A draft that is backed up is ahead of what any save remembers of it.
<1>8. ASSUME NEW i \in Slots, saves[i] # Absent, lease' # Absent, Dirty',
             lease'.token = saves[i].lease.token, MayWrite(Desk, lease')
      PROVE  saves[i].lease.rev < lease'.rev
  <2>1. Holds(Desk, saves[i].lease.token) /\ lease.rev < lease'.rev
    BY <1>3, <1>4, <1>8, AtHand, SaveIs
  <2>2. saves[i].lease.rev <= lease.rev
    BY <1>8, <2>1 DEF BackupInv, SavesBehind, Behind, Desk
  <2>3. lease.rev \in Nat /\ lease'.rev \in Nat
    BY <1>2, <1>4, <1>8, <2>1, AtHand, DeskParts DEF Holds
  <2> QED
    BY <1>8, <2>1, <2>2, <2>3, SaveIs
<1>6. ASSUME NEW i \in Slots, SavesAsIs(i)'
      PROVE  FALSE
  <2>1. /\ lease' # Absent /\ lease'.token \notin refused' /\ Dirty'
        /\ saves[i] # Absent /\ saves'[i].lease = saves[i].lease
        /\ lease'.token = saves[i].lease.token /\ lease'.rev = saves[i].lease.rev
    BY <1>5, <1>6 DEF SavesAsIs, Holds, Desk, Inherits, PassedOn
  <2> QED
    BY <1>7, <1>8, <2>1, SaveIs
<1>9. ExposedStay
  <2> SUFFICES ASSUME NEW i \in Slots, saves[i] # Absent, NEW c,
                      saves[i].lease.token \in exposed \ exposed'
               PROVE  Carries(Desk', saves[i].lease.token, saves[i].lease.rev, c)
    BY DEF ExposedStay
  <2>1. /\ lease' # Absent /\ lease'.token = saves[i].lease.token
        /\ Dirty' /\ MayWrite(Desk, lease')
    BY <1>7
  <2>2. saves[i].lease.rev < lease'.rev
    BY <1>8, <2>1
  <2>3. \A u \in Users :
          slots'[u] # Absent /\ slots'[u].token = lease'.token
            => slots'[u].rev = lease'.rev
    BY <1>3, <1>4, <2>1 DEF Keeps, Backed, Desk
  <2>4. lease'.rev \in Nat
    BY <1>2, <1>4, <2>1, DeskParts
  <2> QED
    BY <2>1, <2>2, <2>3, <2>4, SaveIs DEF Carries, Desk
<1> QED
  BY <1>3, <1>4, <1>5, <1>6, <1>9, OpenBacks

\* A save that begins remembers the draft as it is, and what is shown.
LEMMA SaveBacks ==
  ASSUME IInv, IInv', BackupInv, NEW i \in Slots, Save(i)
  PROVE  BackupInv'
<1> DEFINE d == EnsureLease(Desk, "save")
           r == Request(editor.present, lease', FALSE)
<1>1. /\ author' \in Users /\ plan' \in KnownPlans(server) /\ Put(d)
      /\ editor' = editor /\ saves[i] = Absent
      /\ Grows /\ UNCHANGED <<refused, reverted, exposed>>
      /\ saves' = [saves EXCEPT ![i] = r] /\ DOMAIN saves = Slots
      /\ \A j \in Slots : saves[j] # Absent => ~saves[j].here
      /\ Dirty
  BY DraftsKnown, GrowsMore DEF Save, Saving, Free, IInv, WindowInv, PlanInv
<1>2. r.content = editor.present /\ r.lease = lease' /\ r.here /\ r.epoch
  BY DEF Request
<1> HIDE DEF r
<1>3. KnownDesk(server, d)
  BY <1>1, AtHand, EnsureLeaseKnows
<1>4. Desk' = d /\ lease' = d.lease /\ slots' = d.slots /\ tokens' = d.tokens
  BY <1>1, <1>3, PutIs DEF Desk
<1>5. Keeps(Desk, d) /\ Continues(Desk, d) /\ d.slots = slots
  BY AtHand, EnsureLeaseKeeps
<1>6. \/ d = Desk /\ lease # Absent
      \/ lease = Absent /\ d.lease.token = tokens + 1 /\ d.lease.rev = 0
  BY <1>1, AtHand DEF EnsureLease, KnownDesk
<1> HIDE DEF d
<1>7. ASSUME NEW j \in Slots, j # i
      PROVE  saves'[j] = saves[j] /\ PassedOn(j)
  BY <1>1, <1>7 DEF PassedOn
<1>8. SavesBehind' /\ SavesCarried' /\ OutOfEpoch'
  <2>1. ASSUME NEW j \in Slots, j # i, saves'[j] # Absent
        PROVE  /\ Behind(Desk', saves'[j].lease.token, saves'[j].lease.rev)
               /\ saves'[j].lease.token \notin exposed' =>
                    Carries(Desk', saves'[j].lease.token, saves'[j].lease.rev,
                            saves'[j].content)
               /\ saves'[j].restores /\ ~saves'[j].epoch =>
                    ~Holds(Desk', saves'[j].lease.token)
    BY <1>1, <1>4, <1>5, <1>7, <2>1, GrowsMore, InheritsBehind
  <2>2. Behind(Desk', lease'.token, lease'.rev)
    <3>1. CASE d = Desk /\ lease # Absent
      <4>1. lease.rev \in Nat
        BY <3>1, AtHand, DeskParts
      <4> QED
        BY <1>4, <3>1, <4>1, AtHand DEF Behind, Backed, Holds
    <3>2. CASE lease = Absent /\ d.lease.token = tokens + 1 /\ d.lease.rev = 0
      BY <1>4, <1>5, <3>2, AtHand, DeskParts DEF Behind, Holds
    <3> QED
      BY <1>6, <3>1, <3>2
  <2>3. lease'.token \notin exposed =>
          Carries(Desk', lease'.token, lease'.rev, editor.present)
    <3>1. CASE d = Desk /\ lease # Absent
      <4>1. lease.rev \in Nat /\ \A u \in Users : slots[u] # Absent => slots[u].rev > 0
        BY <3>1, AtHand, DeskParts DEF Backed
      <4> QED
        BY <1>1, <1>4, <3>1, <4>1, AtHand DEF Carries, Backed, Shows, exposed
    <3>2. CASE lease = Absent /\ d.lease.token = tokens + 1 /\ d.lease.rev = 0
      BY <1>4, <1>5, <3>2, AtHand, DeskParts DEF Carries
    <3> QED
      BY <1>6, <3>1, <3>2
  <2> QED
    BY <1>1, <1>2, <2>1, <2>2, <2>3 DEF SavesBehind, SavesCarried, OutOfEpoch
<1>9. SavesCurrent'
  <2>1. ASSUME NEW j \in Slots, j # i, SavesAsIs(j)'
        PROVE  editor'.present = saves'[j].content
    BY <1>1, <1>4, <1>5, <1>7, <2>1, StillCurrent DEF SavesAsIs, Dirty
  <2> QED
    BY <1>1, <1>2, <2>1 DEF SavesCurrent
<1>10. OneHere'
  <2>1. ASSUME NEW j \in Slots, saves'[j] # Absent, ~saves'[j].here,
               Holds(Desk', saves'[j].lease.token)
        PROVE  ~editor'.open
    <3>1. j # i /\ saves'[j] = saves[j]
      BY <1>1, <1>2, <1>7, <2>1
    <3>2. saves[j].lease.token <= tokens /\ saves[j].lease.token \in Nat
      BY <2>1, <3>1, SaveIs
    <3>3. Holds(Desk, saves[j].lease.token)
      BY <1>4, <1>5, <2>1, <3>1, <3>2, AtHand DEF Continues, Holds
    <3> QED
      BY <1>1, <2>1, <3>1, <3>3 DEF BackupInv, OneHere
  <2> QED
    BY <1>1, <1>7, <2>1 DEF OneHere
<1>11. Dirty' => Shows(Desk', editor'.present, refused', reverted')
  BY <1>1, <1>4, <1>6, AtHand DEF Dirty, Shows
<1> QED
  BY <1>4, <1>5, <1>8, <1>9, <1>10, <1>11 DEF BackupInv, Keeps

\* A draft that is restored has the revision of its backup.
LEMMA RestoreBacks ==
  ASSUME IInv, IInv', BackupInv, NEW i \in Slots, Restore(i)
  PROVE  BackupInv'
<1> DEFINE b == slots[session]
           d == IF Holds(Desk, b.token) THEN Desk ELSE EndHeld(Desk)
           r == Request(b.content, lease', TRUE)
<1>1. /\ session \in Users /\ b # Absent /\ b.token \in 1 .. tokens
      /\ b.rev \in Nat
  BY AtHand, DeskParts DEF Restore, Offered, SignedIn
<1>2. /\ KnownDesk(server, d) /\ Keeps(Desk, d) /\ d.tokens = tokens
      /\ d.slots[session] = b
  <2>1. CASE Holds(Desk, b.token)
    BY <2>1, AtHand, Same
  <2>2. CASE ~Holds(Desk, b.token)
    <3>1. /\ KnownDesk(server, d) /\ Keeps(Desk, d) /\ d.tokens = tokens
      BY <2>2, AtHand, EndsKeep, EndsKnow
    <3>2. d.slots[session] = b
      BY <1>1, <2>2, AtHand DEF EndHeld, EndLease, EndLeaseAt, Holds
    <3> QED
      BY <3>1, <3>2
  <2> QED
    BY <2>1, <2>2
<1>3. /\ lease'.token = b.token /\ lease'.rev = b.rev /\ lease'.owner = session
      /\ slots' = d.slots /\ tokens' = tokens
      /\ saves' = [Left EXCEPT ![i] = r] /\ ~editor'.open
      /\ exposed' = exposed /\ \A j \in Slots : saves[j] # Absent => ~saves[j].restores
  BY GrowsMore DEF Restore, Opened, Closed
<1>4. r.lease = lease' /\ r.content = b.content /\ r.epoch
  BY DEF Request
<1>5. Left \in [Slots -> KnownRequests(server, tokens) \cup {Absent}]
  BY AtHand, DraftsKnown, LeftKnown DEF IInv
<1> HIDE DEF d, r, b
<1>6. ASSUME NEW t \in Nat, NEW m \in Nat, t <= tokens, Behind(Desk, t, m)
      PROVE  /\ Behind(Desk', t, m)
             /\ \A c : Carries(Desk, t, m, c) => Carries(Desk', t, m, c)
  <2>1. Behind(d, t, m) /\ \A c : Carries(Desk, t, m, c) => Carries(d, t, m, c)
    BY <1>2, <1>6, AtHand DEF Keeps
  <2> QED
    BY <1>1, <1>2, <1>3, <2>1 DEF Behind, Carries, Holds, Desk
<1>7. Backed(Desk')
  BY <1>1, <1>2, <1>3 DEF Keeps, Backed, Desk
<1>8. Behind(Desk', b.token, b.rev) /\ Carries(Desk', b.token, b.rev, b.content)
  BY <1>1, <1>2, <1>3, <1>7 DEF Behind, Carries, Backed, Holds, Desk
<1>9. ASSUME NEW j \in Slots, j # i, saves'[j] # Absent
      PROVE  /\ saves[j] # Absent /\ saves'[j].lease = saves[j].lease
             /\ saves'[j].content = saves[j].content
             /\ ~saves'[j].here /\ ~saves'[j].restores
  <2>1. saves'[j] = [saves[j] EXCEPT !.here = FALSE] /\ saves[j] # Absent
    BY <1>3, <1>5, <1>9 DEF Left
  <2> QED
    BY <1>3, <2>1, SaveIs DEF KnownRequests
<1>10. SavesBehind' /\ SavesCarried' /\ OutOfEpoch'
  <2>1. ASSUME NEW j \in Slots, j # i, saves'[j] # Absent
        PROVE  /\ Behind(Desk', saves'[j].lease.token, saves'[j].lease.rev)
               /\ saves'[j].lease.token \notin exposed =>
                    Carries(Desk', saves'[j].lease.token, saves'[j].lease.rev,
                            saves'[j].content)
    <3>1. /\ Behind(Desk, saves[j].lease.token, saves[j].lease.rev)
          /\ saves[j].lease.token \notin exposed =>
               Carries(Desk, saves[j].lease.token, saves[j].lease.rev,
                       saves[j].content)
      BY <1>9, <2>1 DEF BackupInv, SavesBehind, SavesCarried
    <3> QED
      BY <1>6, <1>9, <2>1, <3>1, SaveIs
  <2>2. saves'[i] = r
    BY <1>3, <1>5
  <2> QED
    BY <1>3, <1>4, <1>8, <1>9, <2>1, <2>2 DEF SavesBehind, SavesCarried, OutOfEpoch
<1>11. ~Dirty'
  BY <1>3 DEF IInv, PlanInv
<1>12. OneHere'
  BY <1>3, <1>9 DEF OneHere
<1> QED
  BY <1>7, <1>10, <1>11, <1>12 DEF BackupInv, SavesCurrent, SavesAsIs

-----------------------------------------------------------------------------
(* The answers and the choices.                                            *)

\* The drafts are put down, with or without the editor's effect.
LEMMA PutBacks ==
  ASSUME IInv, IInv', BackupInv, NEW d, KnownDesk(server', Desk),
         KnownDesk(server', d), Keeps(Desk, d), Continues(Desk, d),
         d.tokens = tokens, editor' = editor, Grows,
         Inherits, StayHere,
         \/ Put(d) /\ (Dirty => Shows(d, editor.present, refused', reverted'))
         \/ Put(EditorEffect(d))
  PROVE  BackupInv'
<1>1. Backed(d) /\ tokens \in Nat /\ Desk.tokens = tokens
  BY AtHand DEF Keeps
<1>2. CASE Put(d) /\ (Dirty => Shows(d, editor.present, refused', reverted'))
  <2>1. Desk' = d
    BY <1>2, PutIs
  <2> QED
    BY <1>2, <2>1, EditorStays
<1>3. CASE Put(EditorEffect(d))
  <2> DEFINE e == EditorEffect(d)
  <2>1. /\ server' \in Servers /\ author' \in Users \cup {Nobody}
        /\ editor'.present \in Contents
        /\ editor'.present = editor'.persisted \/ plan' \in KnownPlans(server')
    BY DEF IInv, WindowInv, PlanInv, Dirty
  <2>2. KnownDesk(server', e) /\ e.tokens <= MaxToken /\ d.tokens <= e.tokens
    BY <1>3, <2>1, EditorEffectKnows DEF Put
  <2>3. /\ Keeps(d, e) /\ Continues(d, e)
        /\ Dirty => \A x, y : Shows(e, editor.present, x, y)
    BY <1>1, <2>1, <2>2, EditorEffectKeeps DEF Dirty
  <2>4. Desk' = e
    BY <1>3, <2>2, PutIs
  <2> HIDE DEF e
  <2>5. Keeps(Desk, e) /\ Continues(Desk, e)
    BY <1>1, <2>2, <2>3, KeepsMore, ContinuesMore, DeskParts
  <2> QED
    BY <2>3, <2>4, <2>5, EditorStays
<1> QED
  BY <1>2, <1>3

\* The draft at hand backed up with what the editor shows.
LEMMA KeptKeeps ==
  ASSUME IInv, BackupInv, NEW s \in Servers, KnownDesk(s, Desk),
         NEW content \in Contents, NEW c \in BOOLEAN,
         c => lease # Absent, NEW x, NEW y, refused \subseteq x, reverted \subseteq y,
         c /\ Dirty /\ lease.token \notin x =>
           \/ content = editor.present
           \/ ~MayWrite(Desk, lease)
           \/ [token |-> lease.token, content |-> content] \in y
  PROVE  LET kept == IF c THEN BackUp(Desk, lease, content) ELSE Desk
         IN  /\ KnownDesk(s, kept) /\ kept.tokens = tokens
             /\ Keeps(Desk, kept) /\ Continues(Desk, kept)
             /\ Dirty => Shows(kept, editor.present, x, y)
<1>1. CASE ~c
  BY <1>1, AtHand, Same, ShowsMore
<1>2. CASE c
  <2> DEFINE kept == BackUp(Desk, lease, content)
  <2>1. KnownDesk(s, kept) /\ kept.tokens = tokens
    BY <1>2, AtHand, BackUpKnows, DeskParts
  <2>2. /\ Keeps(Desk, kept) /\ Continues(Desk, kept)
        /\ kept.lease.token = lease.token
        /\ \A v, w : Shows(kept, content, v, w)
        /\ \/ kept = Desk /\ lease.rev = 0 /\ ~MayWrite(Desk, lease)
           \/ kept.lease.rev = lease.rev + 1
    BY <1>2, AtHand, BackUpKeeps DEF Desk
  <2>3. ~MayWrite(Desk, lease) => kept = Desk /\ lease.rev = 0
    <3>1. ~MayWrite(Desk, lease) => kept = Desk
      BY DEF BackUp
    <3>2. lease.rev \in Nat
      BY <1>2, AtHand, DeskParts DEF Desk
    <3> HIDE DEF kept
    <3> QED
      BY <2>2, <3>1, <3>2 DEF Desk
  <2>4. Dirty => Shows(kept, editor.present, x, y)
    <3> HIDE DEF kept
    <3>1. CASE ~MayWrite(Desk, lease)
      BY <2>3, <3>1 DEF Shows, Desk
    <3>2. CASE MayWrite(Desk, lease)
      <4>1. Shows(kept, content, x, {})
        BY <2>2
      <4> QED
        BY <1>2, <2>2, <3>2, <4>1 DEF Shows
    <3> QED
      BY <3>1, <3>2
  <2> QED
    BY <1>2, <2>1, <2>2, <2>4
<1> QED
  BY <1>1, <1>2

\* It is let go of afterwards, or not.
LEMMA LetGoBacks ==
  ASSUME IInv, BackupInv, NEW d, KnownDesk(server, d), d.tokens = tokens,
         Keeps(Desk, d), Continues(Desk, d), NEW x, NEW y,
         Dirty => Shows(d, editor.present, x, y), NEW r
  PROVE  LET e == LetGo(d, r)
         IN  /\ KnownDesk(server, e) /\ e.tokens = tokens
             /\ Keeps(Desk, e) /\ Continues(Desk, e)
             /\ Dirty => Shows(e, editor.present, x, y)
<1> DEFINE e == LetGo(d, r)
<1>1. KnownDesk(server, e) /\ e.tokens = tokens
  BY AtHand, LetGoKnows
<1>2. Keeps(d, e) /\ Continues(d, e) /\ Trims(d, e)
  BY LetGoKeeps DEF Keeps
<1> HIDE DEF e
<1>3. Keeps(Desk, e) /\ Continues(Desk, e)
  BY <1>1, <1>2, AtHand, KeepsMore, ContinuesMore
<1>4. Dirty => Shows(e, editor.present, x, y)
  BY <1>2 DEF Trims
<1> QED
  BY <1>1, <1>3, <1>4 DEF e

LEMMA FailedBacks ==
  ASSUME IInv, IInv', BackupInv, NEW i \in Slots, Failed(i)
  PROVE  BackupInv'
<1> DEFINE s == saves[i]
           c == Current(s) /\ Unchanged(s)
           back == IF c THEN BackUp(Desk, lease, s.content) ELSE Desk
           kept == LetGo(back, s)
<1>1. /\ server' = server /\ editor' = editor /\ ghosts' = ghosts
      /\ Grows /\ UNCHANGED <<refused, reverted>>
      /\ s.content \in Contents /\ s # Absent /\ Done(i)
      /\ Put(kept) \/ Put(EditorEffect(kept))
  BY RequestIs, GrowsMore DEF Failed
<1>2. c \in BOOLEAN /\ (c => lease # Absent)
  BY DEF Current, Unchanged, Holds, Desk
<1>3. c /\ Dirty /\ lease.token \notin refused => s.content = editor.present
  BY <1>1 DEF Current, Unchanged, BackupInv, SavesCurrent, SavesAsIs
<1>4. /\ KnownDesk(server, back) /\ back.tokens = tokens
      /\ Keeps(Desk, back) /\ Continues(Desk, back)
      /\ Dirty => Shows(back, editor.present, refused, reverted)
  <2> HIDE DEF c, s
  <2> QED
    BY <1>1, <1>2, <1>3, AtHand, KeptKeeps
<1>5. /\ KnownDesk(server, kept) /\ kept.tokens = tokens
      /\ Keeps(Desk, kept) /\ Continues(Desk, kept)
      /\ Dirty => Shows(kept, editor.present, refused, reverted)
  <2> HIDE DEF back, s
  <2> QED
    BY <1>4, LetGoBacks
<1>6. Inherits /\ StayHere
  BY <1>1, RequestsInherit
<1> HIDE DEF kept
<1> QED
  BY <1>1, <1>5, <1>6, AtHand, PutBacks

LEMMA RejectedBacks ==
  ASSUME IInv, IInv', BackupInv, NEW i \in Slots, Rejected(i)
  PROVE  BackupInv'
<1> DEFINE kept == LetGo(Desk, saves[i])
<1>1. /\ server' = server /\ editor' = editor /\ ghosts' = ghosts
      /\ Grows /\ UNCHANGED <<refused, reverted>>
      /\ saves[i] # Absent
  BY GrowsMore DEF Rejected
<1>2. CASE Answer(i, "reading", 0) /\ UNCHANGED <<lease, slots, tokens>>
  BY <1>1, <1>2, RequestsInherit, AsideBacks
<1>3. CASE Done(i) /\ Put(kept)
  <2>1. /\ KnownDesk(server, kept) /\ kept.tokens = tokens
        /\ Keeps(Desk, kept) /\ Continues(Desk, kept)
        /\ Dirty => Shows(kept, editor.present, refused, reverted)
    BY AtHand, Same, LetGoBacks
  <2>2. Inherits /\ StayHere
    BY <1>3, RequestsInherit
  <2> HIDE DEF kept
  <2> QED
    BY <1>1, <1>3, <2>1, <2>2, AtHand, PutBacks
<1> QED
  BY <1>2, <1>3 DEF Rejected

LEMMA ShowConflictBacks ==
  ASSUME IInv, IInv', BackupInv, NEW i \in Slots, ShowConflict(i)
  PROVE  BackupInv'
<1> DEFINE s == saves[i]
           c == Holds(Desk, s.lease.token) /\ Unchanged(s)
           back == IF c THEN BackUp(Desk, lease, s.content) ELSE Desk
<1>1. /\ server' = server /\ editor' = editor /\ ghosts' = ghosts
      /\ Grows /\ UNCHANGED <<refused, reverted>>
      /\ s.content \in Contents /\ saves[i] # Absent
  BY RequestIs, GrowsMore DEF ShowConflict
<1>2. c \in BOOLEAN /\ (c => lease # Absent)
  BY DEF Unchanged, Holds, Desk
<1>3. c /\ Dirty /\ lease.token \notin refused => s.content = editor.present
  BY <1>1 DEF Unchanged, BackupInv, SavesCurrent, SavesAsIs
<1>4. /\ KnownDesk(server, back) /\ back.tokens = tokens
      /\ Keeps(Desk, back) /\ Continues(Desk, back)
      /\ Dirty => Shows(back, editor.present, refused, reverted)
  <2> HIDE DEF c, s
  <2> QED
    BY <1>1, <1>2, <1>3, AtHand, KeptKeeps
<1>5. \/ Answer(i, "network", 0) /\ UNCHANGED <<lease, slots, tokens>>
      \/ Done(i) /\ Put(LetGo(back, s))
      \/ Done(i) /\ Put(LetGo(Desk, s))
  BY DEF ShowConflict
<1>6. CASE Answer(i, "network", 0) /\ UNCHANGED <<lease, slots, tokens>>
  BY <1>1, <1>6, RequestsInherit, AsideBacks
<1> HIDE DEF back, s
<1>7. ASSUME NEW d, KnownDesk(server, d), d.tokens = tokens, Keeps(Desk, d),
             Continues(Desk, d), Dirty => Shows(d, editor.present, refused, reverted),
             Done(i), Put(LetGo(d, s))
      PROVE  BackupInv'
  <2> DEFINE e == LetGo(d, s)
  <2>1. /\ KnownDesk(server, e) /\ e.tokens = tokens
        /\ Keeps(Desk, e) /\ Continues(Desk, e)
        /\ Dirty => Shows(e, editor.present, refused, reverted)
    BY <1>7, LetGoBacks
  <2>2. Inherits /\ StayHere /\ Put(e)
    BY <1>7, RequestsInherit
  <2> HIDE DEF e
  <2> QED
    BY <1>1, <2>1, <2>2, AtHand, PutBacks
<1>8. CASE Done(i) /\ Put(LetGo(back, s))
  BY <1>4, <1>7, <1>8
<1>9. CASE Done(i) /\ Put(LetGo(Desk, s))
  BY <1>7, <1>9, AtHand, Same
<1> QED
  BY <1>5, <1>6, <1>8, <1>9

LEMMA SettleKeeps ==
  ASSUME IInv, BackupInv, NEW r, NEW p \in KnownPlans(server)
  PROVE  LET e == Settle(r, p)
         IN  /\ Keeps(Desk, e) /\ Continues(Desk, e)
             /\ Dirty => Shows(e, editor.present, refused, reverted)
<1>1. CASE ~Current(r)
  BY <1>1, AtHand, Same DEF Settle
<1>2. CASE Current(r)
  <2>1. lease # Absent /\ lease.owner \in Users
    BY <1>2, AtHand, DeskParts DEF Current, Holds
  <2>2. LET e == EndLeaseAt(Desk, lease, {r.lease.rev})
        IN  Keeps(Desk, e) /\ Continues(Desk, e) /\ Trims(Desk, e)
    BY <2>1, AtHand, EndLeaseAtKeeps
  <2>3. LET e == Rebase(Desk, p)
        IN  /\ Keeps(Desk, e) /\ Continues(Desk, e)
            /\ \A content, x, y : Shows(Desk, content, x, y) => Shows(e, content, x, y)
    BY <2>1, AtHand, RebaseKeeps
  <2> QED
    BY <1>2, <2>2, <2>3, AtHand DEF Settle, Trims
<1> QED
  BY <1>1, <1>2

\* A draft settled ends with its editor, if that began it.
LEMMA CleanBacks ==
  ASSUME IInv, BackupInv, NEW d, KnownDesk(server, d), d.tokens = tokens,
         Keeps(Desk, d), Continues(Desk, d),
         Dirty => Shows(d, editor.present, refused, reverted)
  PROVE  LET e == CleanEffect(d)
         IN  /\ KnownDesk(server, e) /\ e.tokens = tokens
             /\ Keeps(Desk, e) /\ Continues(Desk, e)
             /\ Dirty => Shows(e, editor.present, refused, reverted)
<1> DEFINE e == CleanEffect(d)
<1>1. KnownDesk(server, e) /\ e.tokens = tokens
  BY AtHand, EndsKnow
<1>2. Keeps(d, e) /\ Continues(d, e) /\ Trims(d, e)
  BY EndsKeep DEF Keeps
<1> HIDE DEF e
<1>3. Keeps(Desk, e) /\ Continues(Desk, e)
  BY <1>1, <1>2, AtHand, KeepsMore, ContinuesMore
<1>4. Dirty => Shows(e, editor.present, refused, reverted)
  BY <1>2 DEF Trims
<1> QED
  BY <1>1, <1>3, <1>4 DEF e

LEMMA RereadBacks ==
  ASSUME IInv, IInv', BackupInv, NEW d, KnownDesk(server, d), d.tokens = tokens,
         Keeps(Desk, d), Continues(Desk, d),
         Dirty => Shows(d, editor.present, refused, reverted), Grows,
         Reread(d), NEW i \in Slots, Done(i)
  PROVE  BackupInv'
<1> DEFINE e == CleanEffect(d)
<1>1. KnownDesk(server, e) /\ Keeps(Desk, e) /\ Continues(Desk, e)
  BY CleanBacks
<1>2. Put(e) /\ ~editor'.open
  BY DEF Reread, Opened, Closed
<1> HIDE DEF e
<1>3. Desk' = e
  BY <1>1, <1>2, PutIs
<1>4. Inherits
  BY RequestsInherit
<1> QED
  BY <1>1, <1>2, <1>3, <1>4, ClosedBacks

LEMMA SavedBacks ==
  ASSUME IInv, IInv', BackupInv, NEW i \in Slots, Saved(i)
  PROVE  BackupInv'
<1> DEFINE s == saves[i]
           p == [version |-> s.version, content |-> s.content]
           settled == Settle(s, p)
           clean == CleanEffect(settled)
<1>1. /\ server' = server /\ Grows /\ UNCHANGED <<refused, reverted>>
      /\ saves[i] # Absent
      /\ s.version \in 1 .. MaxVersion /\ s.content \in Contents
      /\ s.version <= server.version /\ (s.version = server.version => server.ours)
  BY RequestIs, GrowsMore DEF Saved
<1>2. p \in KnownPlans(server)
  BY <1>1 DEF KnownPlans, Knows
<1>3. /\ KnownDesk(server, settled) /\ settled.tokens = tokens
      /\ Keeps(Desk, settled) /\ Continues(Desk, settled)
      /\ Dirty => Shows(settled, editor.present, refused, reverted)
  <2> HIDE DEF p, s
  <2> QED
    BY <1>2, AtHand, SettleKnows, SettleKeeps DEF IInv
<1>4. \/ /\ editor' = IF editor.open THEN editor ELSE Opened(p)
         /\ Put(EditorEffect(clean)) /\ Answer(i, "refreshing", s.version)
      \/ UNCHANGED editor /\ Put(settled) /\ Done(i)
      \/ Reread(settled) /\ Done(i)
  BY DEF Saved
<1> HIDE DEF settled, p
<1>5. /\ KnownDesk(server, clean) /\ clean.tokens = tokens
      /\ Keeps(Desk, clean) /\ Continues(Desk, clean)
      /\ Dirty => Shows(clean, editor.present, refused, reverted)
  BY <1>3, CleanBacks
<1> HIDE DEF clean
<1>6. CASE /\ editor' = IF editor.open THEN editor ELSE Opened(p)
           /\ Put(EditorEffect(clean)) /\ Answer(i, "refreshing", s.version)
  <2>1. Inherits /\ StayHere
    BY <1>1, <1>6, RequestsInherit
  <2>2. CASE editor.open
    BY <1>1, <1>5, <1>6, <2>1, <2>2, AtHand, PutBacks
  <2>3. CASE ~editor.open
    <3>1. ~editor'.open /\ editor'.present = editor'.persisted
      BY <1>6, <2>3 DEF Opened, Closed
    <3> DEFINE e == EditorEffect(clean)
    <3>2. e = CleanEffect(clean)
      BY <3>1 DEF EditorEffect
    <3>3. KnownDesk(server, e) /\ Keeps(Desk, e) /\ Continues(Desk, e)
      BY <1>5, <3>2, CleanBacks
    <3>4. Desk' = e
      BY <1>6, <3>3, PutIs
    <3> HIDE DEF e
    <3> QED
      BY <1>1, <2>1, <3>1, <3>3, <3>4, ClosedBacks
  <2> QED
    BY <2>2, <2>3
<1>7. CASE UNCHANGED editor /\ Put(settled) /\ Done(i)
  <2>1. Inherits /\ StayHere
    BY <1>7, RequestsInherit
  <2> QED
    BY <1>1, <1>3, <1>7, <2>1, AtHand, PutBacks
<1>8. CASE Reread(settled) /\ Done(i)
  BY <1>1, <1>3, <1>8, RereadBacks
<1> QED
  BY <1>4, <1>6, <1>7, <1>8

\* The editor that saved takes the saved content for its own; a newer one was
\* backed up already, or is now.
LEMMA RefreshedBacks ==
  ASSUME IInv, IInv', BackupInv, NEW i \in Slots, Refreshed(i)
  PROVE  BackupInv'
<1> DEFINE s == saves[i]
           its == s.here /\ editor.open
           shown == [editor EXCEPT !.persisted = s.content]
           newer == Dirty /\ shown.present # s.content
<1>1. /\ server' = server /\ Grows /\ UNCHANGED <<refused, reverted>>
      /\ saves[i] # Absent /\ Done(i)
      /\ author' = author /\ saves' = [saves EXCEPT ![i] = Absent]
      /\ DOMAIN saves = Slots
  BY DraftsKnown, GrowsMore DEF Refreshed, Done, IInv
<1>2. Inherits /\ StayHere
  BY <1>1, RequestsInherit
<1>3. CASE Reread(Desk)
  BY <1>1, <1>3, AtHand, Same, RereadBacks
<1>4. CASE /\ plan' = plan /\ editor' = IF its THEN shown ELSE editor
           /\ Put(IF ~its \/ newer THEN Desk ELSE EditorEffect(Desk))
  <2>1. CASE ~its
    BY <1>1, <1>2, <1>4, <2>1, AtHand, Same, PutBacks
  <2>2. CASE its
    <3>1. /\ editor' = shown /\ editor'.present = editor.present /\ editor'.open
          /\ editor.open /\ editor'.persisted = s.content
      BY <1>4, <2>2 DEF IInv, PlanInv
    <3>2. CASE newer
      <4>1. Desk' = Desk
        BY <1>4, <3>2, AtHand, PutIs
      <4>2. \A j \in Slots : SavesAsIs(j)' => editor'.present = saves'[j].content
        BY <1>1, <1>2, <3>1, <3>2, <4>1, AtHand, Same, StillCurrent DEF Inherits
      <4> QED
        BY <1>1, <1>2, <3>1, <3>2, <4>1, <4>2, AtHand, Same, GrowsMore, OpenBacks
    <3>3. CASE ~newer
      <4> DEFINE e == EditorEffect(Desk)
      <4>1. /\ author' \in Users \cup {Nobody} /\ editor'.present \in Contents
            /\ editor'.present = editor'.persisted \/ plan' \in KnownPlans(server)
        BY <1>1 DEF IInv, WindowInv, PlanInv, Dirty
      <4>2. Put(e)
        BY <1>4, <2>2, <3>3
      <4>3. KnownDesk(server, e) /\ e.tokens <= MaxToken
        BY <4>1, <4>2, AtHand, EditorEffectKnows DEF Put
      <4>4. /\ Keeps(Desk, e) /\ Continues(Desk, e)
            /\ Dirty' => \A x, y : Shows(e, editor'.present, x, y)
        BY <4>1, <4>3, AtHand, EditorEffectKeeps DEF Dirty
      <4>5. Desk' = e
        BY <4>2, <4>3, PutIs
      <4> HIDE DEF e
      <4>6. ASSUME NEW j \in Slots, SavesAsIs(j)'
            PROVE  FALSE
        <5>1. j # i /\ saves[j] # Absent /\ saves'[j] = saves[j]
          BY <1>1, <4>6 DEF SavesAsIs
        <5>2. ~saves[j].here
          BY <1>1, <2>2, <5>1 DEF BackupInv, OneHere
        <5>3. /\ saves[j].lease.token \in Nat /\ saves[j].lease.token <= tokens
          BY <5>1, SaveIs
        <5>4. Holds(Desk', saves[j].lease.token)
          BY <4>6, <5>1 DEF SavesAsIs
        <5>5. Holds(Desk, saves[j].lease.token)
          BY <4>4, <4>5, <5>3, <5>4, AtHand DEF Continues, Holds
        <5> QED
          BY <3>1, <5>1, <5>2, <5>5 DEF BackupInv, OneHere
      <4> QED
        BY <1>1, <1>2, <3>1, <4>4, <4>5, <4>6, GrowsMore, OpenBacks
    <3> QED
      BY <3>2, <3>3
  <2> QED
    BY <2>1, <2>2
<1> QED
  BY <1>3, <1>4 DEF Refreshed

\* A choice that did not get through puts an older content back, or leaves the
\* backup to the editor's effect.
LEMMA UndecidedBacks ==
  ASSUME IInv, IInv', BackupInv, Knowing(server'), conflict # Absent,
         NEW lost \in BOOLEAN, Undecided(lost)
  PROVE  BackupInv'
<1> DEFINE c == conflict
           decides == c.lease # Absent /\ Holds(Desk, c.lease.token)
           kept == IF decides THEN BackUp(Desk, lease, c.mine) ELSE Desk
<1>1. /\ server' \in Servers /\ KnownDesk(server', Desk)
      /\ editor' = editor /\ saves' = saves /\ c.mine \in Contents
      /\ Put(EditorEffect(kept)) \/ (~lost /\ Put(kept))
  BY DEF Knowing, Undecided, Conflicts
<1>2. /\ decides \in BOOLEAN /\ (decides => lease # Absent)
      /\ Grows
      /\ decides /\ Dirty /\ ~lost =>
           \/ c.mine = editor.present
           \/ ~MayWrite(Desk, lease)
           \/ [token |-> lease.token, content |-> c.mine] \in reverted'
  BY DEF Undecided, Holds, Desk, Grows
<1>3. /\ KnownDesk(server', kept) /\ kept.tokens = tokens
      /\ Keeps(Desk, kept) /\ Continues(Desk, kept)
  <2> DEFINE z == reverted \cup {[token |-> lease.token, content |-> c.mine]}
  <2>1. reverted \subseteq z /\ [token |-> lease.token, content |-> c.mine] \in z
    OBVIOUS
  <2> HIDE DEF decides, c, z
  <2> QED
    BY <1>1, <1>2, <2>1, KeptKeeps
<1>5. ~lost => (Dirty => Shows(kept, editor.present, refused', reverted'))
  <2> SUFFICES ASSUME ~lost
               PROVE  Dirty => Shows(kept, editor.present, refused', reverted')
    OBVIOUS
  <2>1. refused \subseteq refused' /\ reverted \subseteq reverted'
    BY <1>2 DEF Grows
  <2> HIDE DEF decides, c
  <2> QED
    BY <1>1, <1>2, <2>1, KeptKeeps
<1>4. Inherits /\ StayHere
  BY <1>1, RequestsInherit DEF Slots
<1> HIDE DEF kept
<1> QED
  BY <1>1, <1>2, <1>3, <1>4, <1>5, PutBacks

LEMMA DecidedBacks ==
  ASSUME IInv, IInv', BackupInv, conflict # Absent, NEW p, Decided(p)
  PROVE  BackupInv'
<1> DEFINE l == conflict.lease
           ended == IF l = Absent THEN Desk ELSE EndLease(Desk, l)
           d == CleanEffect(ended)
<1>1. /\ Put(d) /\ ~editor'.open /\ Inherits /\ Grows
  BY RequestsInherit, GrowsMore DEF Decided, Opened, Closed, Slots
<1>2. l # Absent => l.owner \in Users
  BY DraftsKnown DEF IInv, Conflicts
<1>3. /\ KnownDesk(server, ended) /\ ended.tokens = tokens
      /\ Keeps(Desk, ended) /\ Continues(Desk, ended)
  <2> HIDE DEF l
  <2> QED
    BY <1>2, AtHand, Same, EndsKnow, EndsKeep
<1> HIDE DEF ended
<1>4. /\ KnownDesk(server, d) /\ d.tokens = tokens
      /\ Keeps(ended, d) /\ Continues(ended, d)
  BY <1>3, AtHand, EndsKnow, EndsKeep DEF Keeps
<1> HIDE DEF d
<1>5. Desk' = d /\ Keeps(Desk, d) /\ Continues(Desk, d)
  BY <1>1, <1>3, <1>4, AtHand, PutIs, KeepsMore, ContinuesMore
<1> QED
  BY <1>1, <1>5, ClosedBacks

LEMMA ChoiceBacks ==
  ASSUME IInv, IInv', BackupInv, KeepMine \/ KeepServer \/ SaveCopy
  PROVE  BackupInv'
<1>1. /\ conflict # Absent
      /\ \/ \E lost \in BOOLEAN : Undecided(lost)
         \/ \E p : Decided(p)
         \/ Recompare
  BY DEF KeepMine, KeepServer, SaveCopy
<1>2. /\ server' \in Servers /\ server \in Servers
      /\ server' = server \/ server'.version = server.version + 1
  <2>1. server' \in Servers /\ server \in Servers
    BY DEF IInv, WindowInv
  <2>2. \/ server' = server
        \/ server' = [version |-> server.version + 1, content |-> conflict.mine,
                      live |-> TRUE, ours |-> TRUE]
    BY DEF KeepMine, KeepServer, SaveCopy
  <2> QED
    BY <2>1, <2>2
<1>3. Knowing(server')
  BY <1>2, StillKnowing DEF Follows, Servers
<1>4. CASE Recompare
  <2>1. Inherits /\ StayHere
    BY <1>4, RequestsInherit DEF Recompare, Slots
  <2> QED
    BY <1>4, <2>1, AsideBacks DEF Recompare
<1> QED
  BY <1>1, <1>3, <1>4, UndecidedBacks, DecidedBacks

LEMMA NextBacks == IInv /\ IInv' /\ BackupInv /\ [Next]_vars => BackupInv'
<1> SUFFICES ASSUME IInv, IInv', BackupInv, [Next]_vars PROVE BackupInv'
  OBVIOUS
<1>1. CASE \/ OtherWrite \/ OtherDelete \/ Expire \/ Later \/ AskSignOut
           \/ ConfirmSignOut \/ SignOutFails \/ UNCHANGED vars
           \/ \E i \in Slots : Serve(i)
  BY <1>1, AsideBack
<1>2. CASE Edit \/ Undo \/ Discard \/ Open \/ Reload \/ DiscardBackup
  BY <1>2, EditBacks, UndoBacks, ClosesBack, DiscardBackupBacks
<1>3. CASE \E i \in Slots : Save(i) \/ Restore(i)
  BY <1>3, SaveBacks, RestoreBacks
<1>4. CASE \E i \in Slots : Answered(i)
  BY <1>4, SavedBacks, RefreshedBacks, FailedBacks, RejectedBacks,
     ShowConflictBacks DEF Answered
<1>5. CASE KeepMine \/ KeepServer \/ SaveCopy
  BY <1>5, ChoiceBacks
<1>6. CASE SignedOut \/ \E u \in Users : SignIn(u)
  BY <1>6, SignedOutBacks, SignInBacks
<1> QED
  BY <1>1, <1>2, <1>3, <1>4, <1>5, <1>6 DEF Next

LEMMA BackedUp == Spec => []BackupInv
<1>1. IInv /\ IInv' /\ BackupInv /\ [Next]_vars => BackupInv'
  BY NextBacks
<1> QED
  BY <1>1, InitBacks, Known, PTL DEF Spec

\* While the editor of a draft that has a backup is dirty, its latest content is
\* in the author's backups, whatever was saved, answered, decided or restored
\* meanwhile (backUpDraft, endLease, rebaseDraftBackup): but for a draft whose last
\* edit was refused a backup, and for what a conflict choice that failed has put
\* back there since the last edit (resolveConflict).
THEOREM EditorBacksUp == Spec => []EditsBackedUp
<1>1. IInv /\ BackupInv => EditsBackedUp
  BY BackupInvBacks
<1> QED
  BY <1>1, Known, BackedUp, PTL

-----------------------------------------------------------------------------
(***************************************************************************)
(* Answers end only their own draft.  Beside the invariant of the backups  *)
(* this needs that a draft which the editor began ends with the edits: an  *)
(* editor that is clean then has no backup to clear.                       *)
(***************************************************************************)

EditorsOwn == lease # Absent /\ lease.source = "editor" => Dirty

\* Desk e holds the draft of desk d, or none.
SameDraft(d, e) == e.lease # Absent =>
  /\ d.lease # Absent
  /\ e.lease.token = d.lease.token
  /\ e.lease.owner = d.lease.owner
  /\ e.lease.source = d.lease.source

\* The window has settled its draft: none is the editor's.
NoneOwn(d) == d.lease # Absent => d.lease.source # "editor"

LEMMA SameDraftMore ==
  ASSUME NEW d, NEW e, NEW f, SameDraft(d, e), SameDraft(e, f)
  PROVE  SameDraft(d, f)
  BY DEF SameDraft

LEMMA DraftStays ==
  ASSUME NEW s, NEW d, KnownDesk(s, d)
  PROVE  /\ SameDraft(d, d)
         /\ \A r : SameDraft(d, LetGo(d, r)) /\ LetGo(d, r).slots = d.slots
         /\ \A l, revs : SameDraft(d, EndLeaseAt(d, l, revs))
         /\ \A l : SameDraft(d, EndLease(d, l))
         /\ SameDraft(d, CleanEffect(d)) /\ NoneOwn(CleanEffect(d))
         /\ NoneOwn(d) => CleanEffect(d) = d
<1>1. SameDraft(d, d)
  BY DEF SameDraft
<1>2. \A r : SameDraft(d, LetGo(d, r)) /\ LetGo(d, r).slots = d.slots
  BY <1>1 DEF LetGo, SameDraft, KnownDesk
<1>3. \A l, revs : SameDraft(d, EndLeaseAt(d, l, revs))
  BY DEF EndLeaseAt, SameDraft, KnownDesk
<1>4. \A l : SameDraft(d, EndLease(d, l))
  BY <1>3 DEF EndLease
<1>5. d.lease # Absent => EndLease(d, d.lease).lease = Absent
  BY DEF EndLease, EndLeaseAt, Holds, KnownDesk
<1> QED
  BY <1>1, <1>2, <1>3, <1>4, <1>5 DEF CleanEffect, NoneOwn, SameDraft

LEMMA BackUpDraft ==
  ASSUME NEW s, NEW d, KnownDesk(s, d), d.lease # Absent, d.tokens <= MaxToken,
         NEW content \in Contents
  PROVE  LET e == BackUp(d, d.lease, content)
         IN  /\ SameDraft(d, e) /\ e.lease # Absent
             /\ \A u \in Users :
                  \/ e.slots[u] = d.slots[u]
                  \/ /\ e.slots[u] # Absent /\ e.slots[u].content = content
                     /\ u = d.lease.owner
                     /\ d.slots[u] = Absent \/ d.slots[u].token = d.lease.token
             /\ d.slots[d.lease.owner] = Absent =>
                  /\ e.slots[d.lease.owner] # Absent
                  /\ e.slots[d.lease.owner].content = content
<1> DEFINE l == d.lease
           k == [l EXCEPT !.rev = l.rev + 1]
           b == [token |-> l.token, rev |-> l.rev + 1, base |-> l.base,
                 from |-> l.from, content |-> content]
           e == BackUp(d, l, content)
<1>1. /\ l \in KnownLeases(s, d.tokens) /\ l.token \in 1 .. d.tokens
      /\ l.rev \in Nat /\ l.owner \in Users /\ d.tokens \in Nat
      /\ d.slots \in [Users -> KnownBackups(s, d.tokens) \cup {Absent}]
      /\ l.base \in 1 .. MaxVersion /\ l.from \in Contents
      /\ l \in Leases
  BY DeskParts DEF KnownLeases, Leases
<1>2. CASE ~MayWrite(d, l)
  <2>1. e = d
    BY <1>2 DEF BackUp
  <2> QED
    BY <1>2, <2>1 DEF SameDraft, MayWrite
<1>3. CASE MayWrite(d, l)
  <2>1. e = [lease |-> k, slots |-> [d.slots EXCEPT ![l.owner] = b],
             tokens |-> d.tokens]
    <3>1. Holds(d, l.token)
      BY DEF Holds
    <3> QED
      BY <1>3, <3>1, BackUpIs
  <2>2. b \in Backups /\ k \in Leases
    BY <1>1 DEF Backups, Leases
  <2>3. /\ b # Absent /\ k # Absent /\ b.content = content
        /\ k.token = l.token /\ k.owner = l.owner /\ k.source = l.source
    BY <1>1, <2>2, AbsentAssumption DEF Leases
  <2> HIDE DEF b, k
  <2>4. /\ e.lease = k /\ e.slots[l.owner] = b
        /\ \A u \in Users : u # l.owner => e.slots[u] = d.slots[u]
    BY <1>1, <2>1
  <2> HIDE DEF e
  <2> QED
    BY <1>1, <1>3, <2>3, <2>4 DEF SameDraft, MayWrite, e
<1> QED
  BY <1>2, <1>3

\* What the ends of drafts take from the backups.
LEMMA EndedSlots ==
  ASSUME NEW s, NEW d, KnownDesk(s, d)
  PROVE  /\ \A l, revs : \A u \in Users :
              \/ EndLeaseAt(d, l, revs).slots[u] = d.slots[u]
              \/ /\ d.slots[u] # Absent /\ u = l.owner
                 /\ d.slots[u].token = l.token /\ d.slots[u].rev \in revs
         /\ \A u \in Users :
              \/ CleanEffect(d).slots[u] = d.slots[u]
              \/ /\ ~NoneOwn(d) /\ u = d.lease.owner
                 /\ CleanEffect(d).slots[u] = Absent
                 /\ d.slots[u] # Absent /\ d.slots[u].token = d.lease.token
<1>1. \A l, revs : \A u \in Users :
        LET e == EndLeaseAt(d, l, revs)
        IN  \/ e.slots[u] = d.slots[u]
            \/ /\ d.slots[u] # Absent /\ u = l.owner /\ e.slots[u] = Absent
               /\ d.slots[u].token = l.token /\ d.slots[u].rev \in revs
  BY DEF EndLeaseAt, KnownDesk
<1> QED
  BY <1>1 DEF CleanEffect, EndLease, NoneOwn

LEMMA RebasedSlots ==
  ASSUME NEW s \in Servers, NEW d, KnownDesk(s, d), d.lease # Absent,
         d.tokens <= MaxToken, NEW p \in KnownPlans(s)
  PROVE  /\ SameDraft(d, Rebase(d, p))
         /\ \A u \in Users : d.slots[u] # Absent =>
              /\ Rebase(d, p).slots[u] # Absent
              /\ Rebase(d, p).slots[u].token = d.slots[u].token
              /\ Rebase(d, p).slots[u].content = d.slots[u].content
<1> DEFINE l == d.lease
           b == d.slots[l.owner]
           c == [b EXCEPT !.base = p.version, !.from = p.content]
           e == Rebase(d, p)
<1>1. /\ l \in KnownLeases(s, d.tokens) /\ l.owner \in Users /\ d.tokens \in Nat
      /\ d.slots \in [Users -> KnownBackups(s, d.tokens) \cup {Absent}]
      /\ p.version \in 1 .. MaxVersion /\ p.content \in Contents
  BY DeskParts DEF KnownPlans
<1>2. b # Absent => b \in Backups
  BY <1>1 DEF KnownBackups, Backups
<1>3. b # Absent => c \in Backups /\ c.token = b.token /\ c.content = b.content
  <2> HIDE DEF b
  <2> QED
    BY <1>1, <1>2 DEF Backups
<1>4. /\ e.lease = [l EXCEPT !.base = p.version, !.from = p.content]
      /\ \/ e.slots = d.slots
         \/ b # Absent /\ e.slots = [d.slots EXCEPT ![l.owner] = c]
  BY <1>1 DEF Rebase, KnownDesk
<1>5. SameDraft(d, e)
  BY <1>1, <1>4 DEF SameDraft, KnownLeases
<1> HIDE DEF c, e
<1> QED
  BY <1>1, <1>3, <1>4, <1>5, AbsentAssumption DEF e

-----------------------------------------------------------------------------

\* The editor's effect takes no backup but for what the editor holds.
LEMMA EffectTakes ==
  ASSUME IInv', NEW d, KnownDesk(server', d), d.tokens <= MaxToken,
         Put(EditorEffect(d))
  PROVE  /\ NoneOwn(d) \/ Dirty' =>
              \A u \in Users : d.slots[u] # Absent =>
                \/ slots'[u] = d.slots[u]
                \/ slots'[u] # Absent /\ slots'[u].content = editor'.present
         /\ d.lease # Absent /\ (NoneOwn(d) \/ Dirty') =>
              lease' # Absent /\ lease'.token = d.lease.token
         /\ (Dirty' /\ d.lease = Absent /\ author' \in Users
                    /\ d.slots[author'] = Absent) =>
              /\ slots'[author'] # Absent
              /\ slots'[author'].content = editor'.present
<1> DEFINE f == EnsureLease(d, "editor")
           e == EditorEffect(d)
<1>1. lease' = e.lease /\ slots' = e.slots /\ e.tokens <= MaxToken
  BY DEF Put
<1>2. CASE ~Dirty'
  <2>1. e = CleanEffect(d)
    BY <1>2 DEF EditorEffect, Dirty
  <2> HIDE DEF e
  <2> QED
    BY <1>1, <1>2, <2>1, DraftStays
<1>3. CASE Dirty'
  <2>1. /\ plan' \in KnownPlans(server') /\ author' \in Users \cup {Nobody}
        /\ editor'.present \in Contents /\ server' \in Servers
    BY <1>3 DEF IInv, PlanInv, WindowInv, Dirty
  <2>2. KnownDesk(server', f) /\ f.slots = d.slots
    BY <2>1, EnsureLeaseKnows DEF EnsureLease, KnownDesk
  <2>3. d.lease # Absent => f = d
    BY DEF EnsureLease
  <2>4. (d.lease = Absent /\ author' \in Users) => f.lease.owner = author'
    BY DEF EnsureLease, KnownDesk
  <2>5. e = IF f.lease = Absent THEN f ELSE BackUp(f, f.lease, editor'.present)
    BY <1>3 DEF EditorEffect, Dirty
  <2>6. CASE f.lease = Absent
    <3>1. ~(d.lease = Absent /\ author' \in Users)
      <4> SUFFICES ASSUME d.lease = Absent, author' \in Users
                   PROVE  FALSE
        OBVIOUS
      <4>1. /\ f.lease = [token |-> d.tokens + 1, owner |-> author',
                          base |-> plan'.version, from |-> plan'.content,
                          rev |-> 0, source |-> "editor"]
            /\ f.tokens = d.tokens + 1
        BY EditorAssumption DEF EnsureLease, KnownDesk
      <4>2. e.tokens = d.tokens + 1 /\ d.tokens \in Nat
        BY <2>5, <2>6, <4>1, DeskParts
      <4>3. f.lease \in Leases
        BY <1>1, <2>1, <4>1, <4>2 DEF Leases, KnownPlans
      <4> QED
        BY <2>6, <4>3, AbsentAssumption
    <3> QED
      BY <1>1, <2>2, <2>3, <2>5, <2>6, <3>1
  <2>7. CASE f.lease # Absent
    <3> HIDE DEF f
    <3>1. e = BackUp(f, f.lease, editor'.present)
      BY <2>5, <2>7
    <3>2. f.tokens <= MaxToken
      BY <1>1, <2>1, <2>2, <2>7, <3>1, BackUpKnows, DeskParts
    <3> HIDE DEF e
    <3>3. /\ SameDraft(f, e) /\ e.lease # Absent
          /\ \A u \in Users :
               \/ e.slots[u] = f.slots[u]
               \/ e.slots[u] # Absent /\ e.slots[u].content = editor'.present
          /\ f.slots[f.lease.owner] = Absent =>
               /\ e.slots[f.lease.owner] # Absent
               /\ e.slots[f.lease.owner].content = editor'.present
      BY <2>1, <2>2, <2>7, <3>1, <3>2, BackUpDraft
    <3> QED
      BY <1>1, <2>2, <2>3, <2>4, <3>3 DEF SameDraft
  <2> QED
    BY <2>6, <2>7
<1> QED
  BY <1>2, <1>3

-----------------------------------------------------------------------------

\* Drafts that are not exposed keep the content of their backups at desk e.
Unspoilt(e) == \A u \in Users :
  (slots[u] # Absent /\ slots[u].token \notin exposed) =>
    e.slots[u] # Absent /\ e.slots[u].content = slots[u].content

\* A draft backed up by its own answer, at the revision sent, stays as it is.
LEMMA BackedUpSame ==
  ASSUME IInv, BackupInv, NEW i \in Slots, saves[i] # Absent, NEW c \in BOOLEAN,
         c => Holds(Desk, saves[i].lease.token) /\ Unchanged(saves[i])
  PROVE  LET back == IF c THEN BackUp(Desk, lease, saves[i].content) ELSE Desk
         IN  /\ KnownDesk(server, back) /\ back.tokens = tokens
             /\ SameDraft(Desk, back) /\ Unspoilt(back)
<1>1. CASE ~c
  BY <1>1, AtHand, DraftStays DEF Unspoilt
<1>2. CASE c
  <2> DEFINE s == saves[i]
             back == BackUp(Desk, lease, s.content)
  <2>1. /\ lease # Absent /\ lease.token = s.lease.token
        /\ lease.rev = s.lease.rev /\ s.content \in Contents
    BY <1>2, AtHand, RequestIs DEF Holds, Unchanged
  <2>2. KnownDesk(server, back) /\ back.tokens = tokens
    BY <2>1, AtHand, BackUpKnows, DeskParts
  <2>3. /\ SameDraft(Desk, back)
        /\ \A u \in Users :
             \/ back.slots[u] = slots[u]
             \/ /\ back.slots[u] # Absent /\ back.slots[u].content = s.content
                /\ slots[u] = Absent \/ slots[u].token = lease.token
    BY <2>1, AtHand, BackUpDraft
  <2> HIDE DEF back
  <2>4. ASSUME NEW u \in Users, slots[u] # Absent, slots[u].token \notin exposed,
               slots[u].token = lease.token
        PROVE  slots[u].content = s.content
    <3>1. slots[u].rev = lease.rev
      BY <2>1, <2>4, AtHand DEF Backed
    <3>2. Carries(Desk, s.lease.token, s.lease.rev, s.content)
      BY <2>1, <2>4 DEF BackupInv, SavesCarried
    <3> QED
      BY <2>1, <2>4, <3>1, <3>2, AtHand DEF Carries
  <2> QED
    BY <1>2, <2>2, <2>3, <2>4 DEF Unspoilt, back
<1> QED
  BY <1>1, <1>2

\* What an answer without success leaves of the drafts.
LEMMA FailedDesk ==
  ASSUME IInv, BackupInv, NEW i \in Slots, Failed(i)
  PROVE  \E kept :
           /\ KnownDesk(server, kept) /\ kept.tokens = tokens
           /\ SameDraft(Desk, kept) /\ Unspoilt(kept)
           /\ Put(kept) \/ Put(EditorEffect(kept))
<1> DEFINE s == saves[i]
           c == Current(s) /\ Unchanged(s)
           back == IF c THEN BackUp(Desk, lease, s.content) ELSE Desk
           kept == LetGo(back, s)
<1>1. saves[i] # Absent /\ (Put(kept) \/ Put(EditorEffect(kept)))
  BY DEF Failed
<1>2. /\ KnownDesk(server, back) /\ back.tokens = tokens
      /\ SameDraft(Desk, back) /\ Unspoilt(back)
  <2>1. c \in BOOLEAN /\ (c => Holds(Desk, s.lease.token) /\ Unchanged(s))
    BY DEF Current, Unchanged, Holds
  <2> HIDE DEF c
  <2> QED
    BY <1>1, <2>1, BackedUpSame
<1> HIDE DEF back, s
<1>3. /\ KnownDesk(server, kept) /\ kept.tokens = tokens
      /\ SameDraft(back, kept) /\ kept.slots = back.slots
  BY <1>2, AtHand, LetGoKnows, DraftStays
<1> HIDE DEF kept
<1> QED
  BY <1>1, <1>2, <1>3, SameDraftMore DEF Unspoilt

LEMMA ShowConflictDesk ==
  ASSUME IInv, BackupInv, NEW i \in Slots, ShowConflict(i)
  PROVE  \E kept :
           /\ KnownDesk(server, kept) /\ SameDraft(Desk, kept) /\ Unspoilt(kept)
           /\ Desk' = kept
<1> DEFINE s == saves[i]
           c == Holds(Desk, s.lease.token) /\ Unchanged(s)
           back == IF c THEN BackUp(Desk, lease, s.content) ELSE Desk
<1>1. /\ saves[i] # Absent
      /\ \/ UNCHANGED <<lease, slots, tokens>>
         \/ Put(LetGo(back, s))
         \/ Put(LetGo(Desk, s))
  BY DEF ShowConflict
<1>2. /\ KnownDesk(server, back) /\ SameDraft(Desk, back) /\ Unspoilt(back)
  <2>1. c \in BOOLEAN /\ (c => Holds(Desk, s.lease.token) /\ Unchanged(s))
    BY DEF Unchanged, Holds
  <2> HIDE DEF c
  <2> QED
    BY <1>1, <2>1, BackedUpSame
<1>3. KnownDesk(server, Desk) /\ SameDraft(Desk, Desk) /\ Unspoilt(Desk)
  BY AtHand, DraftStays DEF Unspoilt
<1> HIDE DEF back, s
<1>4. ASSUME NEW d, KnownDesk(server, d), SameDraft(Desk, d), Unspoilt(d),
             Put(LetGo(d, s))
      PROVE  \E kept :
               /\ KnownDesk(server, kept) /\ SameDraft(Desk, kept)
               /\ Unspoilt(kept) /\ Desk' = kept
  <2> DEFINE kept == LetGo(d, s)
  <2>1. /\ KnownDesk(server, kept) /\ SameDraft(d, kept) /\ kept.slots = d.slots
        /\ Put(kept)
    BY <1>4, AtHand, LetGoKnows, DraftStays
  <2> HIDE DEF kept
  <2> QED
    BY <1>4, <2>1, SameDraftMore, PutIs DEF Unspoilt
<1>5. CASE UNCHANGED <<lease, slots, tokens>>
  <2>1. Desk' = Desk
    BY <1>5 DEF Desk
  <2> QED
    BY <1>3, <2>1
<1> QED
  BY <1>1, <1>2, <1>3, <1>4, <1>5

\* What a save that was stored leaves of the drafts: its own content goes.
LEMMA SettledDesk ==
  ASSUME IInv, BackupInv, NEW i \in Slots, Saved(i)
  PROVE  LET s == saves[i]
             settled == Settle(s, [version |-> s.version, content |-> s.content])
         IN  /\ KnownDesk(server, settled) /\ settled.tokens = tokens
             /\ SameDraft(Desk, settled)
             /\ ~Current(s) => settled = Desk
             /\ \A u \in Users : (slots[u] # Absent /\ slots[u].token \notin exposed) =>
                  \/ slots[u].content = s.content
                  \/ /\ settled.slots[u] # Absent
                     /\ settled.slots[u].token = slots[u].token
                     /\ settled.slots[u].content = slots[u].content
<1> DEFINE s == saves[i]
           p == [version |-> s.version, content |-> s.content]
           settled == Settle(s, p)
<1>1. /\ s.version \in 1 .. MaxVersion /\ s.content \in Contents /\ s # Absent
      /\ s.version <= server.version /\ (s.version = server.version => server.ours)
  BY RequestIs DEF Saved
<1>2. p \in KnownPlans(server)
  BY <1>1 DEF KnownPlans, Knows
<1>3. KnownDesk(server, settled) /\ settled.tokens = tokens
  <2> HIDE DEF p, s
  <2> QED
    BY <1>2, AtHand, SettleKnows DEF IInv
<1> HIDE DEF p
<1>4. CASE ~Current(s)
  BY <1>3, <1>4, AtHand, DraftStays DEF Settle
<1>5. CASE Current(s) /\ Unchanged(s)
  <2>1. /\ lease # Absent /\ lease.token = s.lease.token
        /\ lease.rev = s.lease.rev
    BY <1>5, AtHand DEF Current, Holds, Unchanged
  <2>2. settled = EndLeaseAt(Desk, lease, {s.lease.rev})
    BY <1>5 DEF Settle
  <2>3. SameDraft(Desk, settled)
    BY <2>2, AtHand, DraftStays
  <2>4. ASSUME NEW u \in Users, slots[u] # Absent, slots[u].token \notin exposed
        PROVE  slots[u].content = s.content \/ settled.slots[u] = slots[u]
    <3>1. CASE slots[u].token = s.lease.token /\ slots[u].rev = s.lease.rev
      <4>1. Carries(Desk, s.lease.token, s.lease.rev, s.content)
        BY <1>1, <2>4, <3>1 DEF BackupInv, SavesCarried
      <4> QED
        BY <2>4, <3>1, <4>1, AtHand DEF Carries
    <3>2. CASE ~(slots[u].token = s.lease.token /\ slots[u].rev = s.lease.rev)
      BY <2>1, <2>2, <2>4, <3>2, AtHand, EndedSlots
    <3> QED
      BY <3>1, <3>2
  <2> HIDE DEF settled
  <2> QED
    BY <1>3, <1>5, <2>3, <2>4 DEF settled, p
<1>6. CASE Current(s) /\ ~Unchanged(s)
  <2>1. settled = Rebase(Desk, p) /\ lease # Absent
    BY <1>6, AtHand DEF Settle, Current, Holds
  <2>2. /\ SameDraft(Desk, settled)
        /\ \A u \in Users : slots[u] # Absent =>
             /\ settled.slots[u] # Absent
             /\ settled.slots[u].token = slots[u].token
             /\ settled.slots[u].content = slots[u].content
    BY <1>2, <2>1, AtHand, RebasedSlots
  <2> HIDE DEF settled
  <2> QED
    BY <1>3, <1>6, <2>2 DEF settled, p
<1> QED
  BY <1>4, <1>5, <1>6 DEF p

-----------------------------------------------------------------------------
(* The editor's draft ends with its edits.                                 *)

LEMMA EffectOwns ==
  ASSUME NEW d, KnownDesk(server', d), Put(EditorEffect(d))
  PROVE  EditorsOwn'
<1>1. ~Dirty' => EditorEffect(d) = CleanEffect(d)
  BY DEF EditorEffect, Dirty
<1>2. lease' = EditorEffect(d).lease
  BY DEF Put
<1> QED
  BY <1>1, <1>2, DraftStays DEF EditorsOwn, NoneOwn

LEMMA CleanOwns ==
  ASSUME NEW s, NEW d, KnownDesk(s, d), Put(CleanEffect(d))
  PROVE  EditorsOwn'
  BY DraftStays DEF Put, EditorsOwn, NoneOwn

LEMMA SameOwns ==
  ASSUME EditorsOwn, editor' = editor, NEW d, SameDraft(Desk, d), lease' = d.lease
  PROVE  EditorsOwn'
  BY DEF EditorsOwn, SameDraft, Desk, Dirty

LEMMA InitOwns == Init => EditorsOwn
  BY DEF Init, EditorsOwn

LEMMA UserOwns ==
  ASSUME IInv, IInv', BackupInv, EditorsOwn,
         \/ Edit \/ Undo \/ Discard \/ Open \/ Reload \/ DiscardBackup
         \/ SignedOut \/ \E u \in Users : SignIn(u)
         \/ \E i \in Slots : Save(i) \/ Restore(i)
  PROVE  EditorsOwn'
<1>1. CASE Edit \/ \E u \in Users : SignIn(u)
  <2>1. Put(EditorEffect(Desk)) /\ server' = server
    BY <1>1 DEF Edit, SignIn
  <2> QED
    BY <2>1, AtHand, EffectOwns
<1>2. CASE Undo
  BY <1>2, AtHand, CleanOwns DEF Undo
<1>3. CASE Discard
  <2>1. lease' = EndHeld(Desk).lease
    BY <1>3 DEF Discard, Put
  <2> QED
    BY <2>1, AtHand, EndsKeep DEF EditorsOwn
<1>4. CASE Open \/ Reload \/ SignedOut
  BY <1>4 DEF Open, Reload, SignedOut, EditorsOwn
<1>5. CASE DiscardBackup
  BY <1>5 DEF DiscardBackup, EditorsOwn, Dirty
<1>6. CASE \E i \in Slots : Save(i)
  <2>1. Put(EnsureLease(Desk, "save")) /\ editor' = editor
    BY <1>6 DEF Save
  <2>2. EnsureLease(Desk, "save").lease \in {lease}
          \/ EnsureLease(Desk, "save").lease.source = "save"
    BY AtHand DEF EnsureLease, KnownDesk
  <2> QED
    BY <2>1, <2>2 DEF Put, EditorsOwn, Dirty
<1>7. CASE \E i \in Slots : Restore(i)
  BY <1>7 DEF Restore, EditorsOwn
<1> QED
  BY <1>1, <1>2, <1>3, <1>4, <1>5, <1>6, <1>7

LEMMA SavedOwns ==
  ASSUME IInv, IInv', BackupInv, EditorsOwn, NEW i \in Slots, Saved(i)
  PROVE  EditorsOwn'
<1> DEFINE s == saves[i]
           settled == Settle(s, [version |-> s.version, content |-> s.content])
           clean == CleanEffect(settled)
<1>1. \/ Put(EditorEffect(clean))
      \/ UNCHANGED editor /\ Put(settled)
      \/ Put(clean)
  BY DEF Saved, Reread
<1>2. KnownDesk(server, settled) /\ SameDraft(Desk, settled) /\ server' = server
  BY SettledDesk DEF Saved
<1> HIDE DEF settled
<1>3. KnownDesk(server', clean)
  BY <1>2, AtHand, EndsKnow
<1>4. CASE Put(EditorEffect(clean))
  <2> HIDE DEF clean
  <2> QED
    BY <1>3, <1>4, EffectOwns
<1>5. CASE UNCHANGED editor /\ Put(settled)
  BY <1>2, <1>5, SameOwns DEF Put
<1>6. CASE Put(clean)
  BY <1>2, <1>6, CleanOwns
<1> QED
  BY <1>1, <1>4, <1>5, <1>6

LEMMA RefreshedOwns ==
  ASSUME IInv, IInv', BackupInv, EditorsOwn, NEW i \in Slots, Refreshed(i)
  PROVE  EditorsOwn'
<1>1. server' = server /\ KnownDesk(server', Desk)
  BY AtHand DEF Refreshed
<1>2. \/ Put(CleanEffect(Desk)) \/ Put(EditorEffect(Desk))
      \/ Put(Desk) /\ (Dirty' \/ editor' = editor)
  BY DEF Refreshed, Reread, Dirty, IInv, PlanInv
<1>3. CASE Put(Desk) /\ (Dirty' \/ editor' = editor)
  BY <1>3 DEF Put, Desk, EditorsOwn, Dirty
<1> QED
  BY <1>1, <1>2, <1>3, CleanOwns, EffectOwns

LEMMA AnswersOwn ==
  ASSUME IInv, IInv', BackupInv, EditorsOwn, NEW i \in Slots, Answered(i)
  PROVE  EditorsOwn'
<1>1. CASE Failed(i)
  <2>1. server' = server /\ editor' = editor
    BY <1>1 DEF Failed
  <2>2. PICK kept :
          /\ KnownDesk(server, kept) /\ SameDraft(Desk, kept)
          /\ Put(kept) \/ Put(EditorEffect(kept))
    BY <1>1, FailedDesk
  <2>3. CASE Put(kept)
    BY <2>1, <2>2, <2>3, SameOwns DEF Put
  <2>4. CASE Put(EditorEffect(kept))
    BY <2>1, <2>2, <2>4, EffectOwns
  <2> QED
    BY <2>2, <2>3, <2>4
<1>2. CASE Rejected(i)
  <2>1. editor' = editor /\ (lease' = lease \/ lease' = LetGo(Desk, saves[i]).lease)
    BY <1>2 DEF Rejected, Put
  <2>2. SameDraft(Desk, Desk) /\ SameDraft(Desk, LetGo(Desk, saves[i]))
    BY AtHand, DraftStays
  <2> QED
    BY <2>1, <2>2, AtHand, SameOwns
<1>3. CASE ShowConflict(i)
  <2>1. editor' = editor
    BY <1>3 DEF ShowConflict
  <2>2. PICK kept : SameDraft(Desk, kept) /\ Desk' = kept
    BY <1>3, ShowConflictDesk
  <2> QED
    BY <2>1, <2>2, SameOwns DEF Desk
<1> QED
  BY <1>1, <1>2, <1>3, SavedOwns, RefreshedOwns DEF Answered

LEMMA ChoicesOwn ==
  ASSUME IInv, IInv', BackupInv, EditorsOwn, KeepMine \/ KeepServer \/ SaveCopy
  PROVE  EditorsOwn'
<1>1. /\ conflict # Absent
      /\ \/ \E lost \in BOOLEAN : Undecided(lost)
         \/ \E p : Decided(p)
         \/ Recompare
  BY DEF KeepMine, KeepServer, SaveCopy
<1>2. Knowing(server')
  <2>1. /\ server' \in Servers /\ server \in Servers
    BY DEF IInv, WindowInv
  <2>2. \/ server' = server
        \/ server' = [version |-> server.version + 1, content |-> conflict.mine,
                      live |-> TRUE, ours |-> TRUE]
    BY DEF KeepMine, KeepServer, SaveCopy
  <2> QED
    BY <2>1, <2>2, StillKnowing DEF Follows, Servers
<1>3. CASE \E lost \in BOOLEAN : Undecided(lost)
  <2> DEFINE c == conflict
             decides == c.lease # Absent /\ Holds(Desk, c.lease.token)
             kept == IF decides THEN BackUp(Desk, lease, c.mine) ELSE Desk
  <2>1. /\ editor' = editor /\ c.mine \in Contents /\ server' \in Servers
        /\ KnownDesk(server', Desk) /\ (Put(kept) \/ Put(EditorEffect(kept)))
    BY <1>1, <1>2, <1>3 DEF Undecided, Knowing, Conflicts
  <2>2. KnownDesk(server', kept) /\ SameDraft(Desk, kept)
    <3>1. CASE ~decides
      BY <2>1, <3>1, DraftStays
    <3>2. CASE decides
      <4>1. lease # Absent
        BY <3>2, AtHand DEF Holds
      <4> QED
        BY <2>1, <3>2, <4>1, AtHand, BackUpKnows, BackUpDraft, DeskParts
    <3> QED
      BY <3>1, <3>2
  <2> HIDE DEF kept
  <2>3. CASE Put(kept)
    BY <2>1, <2>2, <2>3, SameOwns DEF Put
  <2>4. CASE Put(EditorEffect(kept))
    BY <2>2, <2>4, EffectOwns
  <2> QED
    BY <2>1, <2>3, <2>4
<1>4. CASE \E p : Decided(p)
  <2> DEFINE l == conflict.lease
             ended == IF l = Absent THEN Desk ELSE EndLease(Desk, l)
  <2>1. Put(CleanEffect(ended))
    BY <1>4 DEF Decided
  <2>2. KnownDesk(server, ended)
    BY AtHand, EndsKnow
  <2> HIDE DEF ended
  <2> QED
    BY <2>1, <2>2, CleanOwns
<1>5. CASE Recompare
  BY <1>5 DEF Recompare, EditorsOwn, Dirty
<1> QED
  BY <1>1, <1>3, <1>4, <1>5

LEMMA NextOwns ==
  ASSUME IInv, IInv', BackupInv, EditorsOwn, [Next]_vars
  PROVE  EditorsOwn'
<1>1. CASE \/ OtherWrite \/ OtherDelete \/ Expire \/ Later \/ AskSignOut
           \/ ConfirmSignOut \/ SignOutFails \/ UNCHANGED vars
           \/ \E i \in Slots : Serve(i)
  <2>1. UNCHANGED <<lease, editor>>
    BY <1>1 DEF OtherWrite, OtherDelete, Expire, Later, AskSignOut, ConfirmSignOut,
                SignOutFails, Serve, vars, windowVars
  <2> QED
    BY <2>1 DEF EditorsOwn, Dirty
<1> QED
  BY <1>1, UserOwns, AnswersOwn, ChoicesOwn DEF Next

-----------------------------------------------------------------------------
(* What answers take.                                                      *)

\* An answer took a backup rightly.
Rightly(i, u) ==
  (Taken(u) /\ slots[u].token \notin exposed /\ ~Rereads(saves[i])) =>
    \/ /\ saves[i].stage \in {"ok", "refreshing"}
       /\ slots[u].content = saves[i].content
    \/ author' # u /\ slots[u].content = editor'.present

\* What is left as it was, or for the editor's content, is not taken.
LEMMA NotTaken ==
  ASSUME NEW u \in Users, NEW d, slots[u] # Absent => d.slots[u] # Absent,
         slots[u] # Absent => d.slots[u].content = slots[u].content,
         \/ slots'[u] = d.slots[u]
         \/ slots'[u] # Absent /\ slots'[u].content = editor'.present
  PROVE  ~Taken(u)
  BY DEF Taken, Removed

\* The editor's own draft has its content for backup.
LEMMA OwnBackup ==
  ASSUME IInv, BackupInv, EditorsOwn, ~NoneOwn(Desk), NEW u \in Users,
         slots[u] # Absent, slots[u].token = lease.token, lease.token \notin exposed
  PROVE  Dirty /\ slots[u].content = editor.present
<1>1. Dirty /\ lease # Absent
  BY AtHand DEF EditorsOwn, NoneOwn
<1>2. u = lease.owner /\ lease.rev > 0
  BY <1>1, AtHand DEF Backed
<1> QED
  BY <1>1, <1>2, AtHand DEF Shows, exposed

LEMMA SavedTakes ==
  ASSUME IInv, IInv', BackupInv, EditorsOwn, NEW i \in Slots, Saved(i),
         NEW u \in Users
  PROVE  Rightly(i, u)
<1> SUFFICES ASSUME Taken(u), slots[u].token \notin exposed, ~Rereads(saves[i]),
                    slots[u].content # saves[i].content
             PROVE  author' # u /\ slots[u].content = editor'.present
  BY DEF Rightly, Saved
<1> DEFINE s == saves[i]
           p == [version |-> s.version, content |-> s.content]
           settled == Settle(s, p)
           clean == CleanEffect(settled)
<1>1. /\ slots[u] # Absent /\ server' = server /\ author' = author
      /\ \/ /\ editor' = IF editor.open THEN editor ELSE Opened(p)
            /\ Put(EditorEffect(clean))
         \/ Put(settled)
  BY DEF Taken, Removed, Saved, Rereads
<1>2. /\ KnownDesk(server, settled) /\ settled.tokens = tokens
      /\ SameDraft(Desk, settled)
      /\ settled.slots[u] # Absent
      /\ settled.slots[u].token = slots[u].token
      /\ settled.slots[u].content = slots[u].content
  BY <1>1, SettledDesk
<1> HIDE DEF settled
<1>3. ~Put(settled)
  BY <1>2, NotTaken DEF Put
<1>4. /\ KnownDesk(server, clean) /\ clean.tokens = tokens /\ NoneOwn(clean)
      /\ SameDraft(settled, clean)
  BY <1>2, AtHand, EndsKnow, DraftStays
<1>5. \/ clean.slots[u] = settled.slots[u]
      \/ /\ ~NoneOwn(settled) /\ u = settled.lease.owner
         /\ clean = EndLease(settled, settled.lease)
         /\ clean.slots[u] = Absent /\ settled.slots[u].token = settled.lease.token
  BY <1>2, EndedSlots DEF CleanEffect, NoneOwn
<1>6. ~NoneOwn(settled) => ~NoneOwn(Desk) /\ clean.lease = Absent
  <2>1. NoneOwn(settled) \/ clean.lease = Absent
    BY <1>2 DEF NoneOwn, CleanEffect, EndLease, EndLeaseAt, Holds, KnownDesk
  <2> QED
    BY <1>2, <2>1 DEF NoneOwn, SameDraft
<1> HIDE DEF clean
<1>7. /\ Put(EditorEffect(clean))
      /\ editor' = IF editor.open THEN editor ELSE Opened(p)
  BY <1>1, <1>3
<1>8. /\ \A v \in Users : clean.slots[v] # Absent =>
           \/ slots'[v] = clean.slots[v]
           \/ slots'[v] # Absent /\ slots'[v].content = editor'.present
      /\ (Dirty' /\ clean.lease = Absent /\ author' \in Users
                 /\ clean.slots[author'] = Absent) =>
           /\ slots'[author'] # Absent
           /\ slots'[author'].content = editor'.present
  BY <1>1, <1>4, <1>7, AtHand, EffectTakes
<1>9. ~(clean.slots[u] = settled.slots[u])
  BY <1>2, <1>8, NotTaken
<1>10. Dirty /\ slots[u].content = editor.present
  <2>1. ~NoneOwn(settled) /\ slots[u].token = settled.lease.token
    BY <1>2, <1>5, <1>9
  <2>2. slots[u].token = lease.token /\ ~NoneOwn(Desk)
    BY <1>2, <1>6, <2>1, AtHand DEF SameDraft, NoneOwn
  <2> QED
    BY <1>1, <2>2, OwnBackup
<1>11. editor' = editor /\ Dirty'
  BY <1>7, <1>10 DEF IInv, PlanInv, Dirty
<1>12. author' # u
  <2>1. clean.slots[u] = Absent /\ clean.lease = Absent
    BY <1>5, <1>6, <1>9
  <2> QED
    BY <1>8, <1>11, <2>1 DEF Taken
<1> QED
  BY <1>10, <1>11, <1>12

LEMMA RefreshedTakes ==
  ASSUME IInv, IInv', BackupInv, EditorsOwn, NEW i \in Slots, Refreshed(i),
         NEW u \in Users
  PROVE  Rightly(i, u)
<1> SUFFICES ASSUME Taken(u), slots[u].token \notin exposed, ~Rereads(saves[i])
             PROVE  slots[u].content = saves[i].content
  BY DEF Rightly, Refreshed
<1>1. /\ slots[u] # Absent /\ server' = server
      /\ \/ Put(Desk)
         \/ /\ Put(EditorEffect(Desk))
            /\ editor' = [editor EXCEPT !.persisted = saves[i].content]
            /\ ~Dirty \/ editor.present = saves[i].content
  BY DEF Taken, Removed, Refreshed, Rereads, IInv, PlanInv
<1>2. ~Put(Desk)
  BY NotTaken DEF Put, Desk
<1>3. ~NoneOwn(Desk) /\ ~Dirty'
  <2>1. NoneOwn(Desk) \/ Dirty' =>
          \/ slots'[u] = slots[u]
          \/ slots'[u] # Absent /\ slots'[u].content = editor'.present
    BY <1>1, <1>2, AtHand, EffectTakes
  <2> QED
    BY <2>1, AtHand, NotTaken
<1>4. slots[u].token = lease.token
  <2>1. EditorEffect(Desk) = CleanEffect(Desk)
    BY <1>3 DEF EditorEffect, Dirty
  <2>2. slots' = CleanEffect(Desk).slots
    BY <1>1, <1>2, <2>1 DEF Put
  <2>3. slots'[u] # slots[u]
    BY DEF Taken, Removed
  <2> QED
    BY <2>2, <2>3, AtHand, EndedSlots
<1>5. Dirty /\ slots[u].content = editor.present
  BY <1>1, <1>3, <1>4, OwnBackup
<1> QED
  BY <1>1, <1>2, <1>5

LEMMA OthersTake ==
  ASSUME IInv, IInv', BackupInv, EditorsOwn, NEW i \in Slots,
         Failed(i) \/ Rejected(i) \/ ShowConflict(i), NEW u \in Users
  PROVE  Rightly(i, u)
<1> SUFFICES ASSUME slots[u] # Absent, slots[u].token \notin exposed
             PROVE  ~Taken(u)
  BY DEF Rightly, Taken, Removed
<1>1. CASE Failed(i)
  <2>1. PICK kept :
          /\ KnownDesk(server, kept) /\ kept.tokens = tokens
          /\ SameDraft(Desk, kept) /\ Unspoilt(kept)
          /\ Put(kept) \/ Put(EditorEffect(kept))
    BY <1>1, FailedDesk
  <2>2. server' = server /\ editor' = editor
    BY <1>1 DEF Failed
  <2>3. NoneOwn(kept) \/ Dirty'
    BY <2>1, <2>2, AtHand DEF NoneOwn, SameDraft, EditorsOwn, Dirty
  <2>4. \/ slots'[u] = kept.slots[u]
        \/ slots'[u] # Absent /\ slots'[u].content = editor'.present
    <3>1. CASE Put(kept)
      BY <3>1 DEF Put
    <3>2. CASE Put(EditorEffect(kept))
      BY <2>1, <2>2, <2>3, <3>2, AtHand, EffectTakes DEF Unspoilt
    <3> QED
      BY <2>1, <3>1, <3>2
  <2> QED
    BY <2>1, <2>4, NotTaken DEF Unspoilt
<1>2. CASE Rejected(i)
  <2>1. slots' = slots
    BY <1>2, AtHand, DraftStays DEF Rejected, Put
  <2> QED
    BY <2>1 DEF Taken, Removed
<1>3. CASE ShowConflict(i)
  <2>1. PICK kept : Unspoilt(kept) /\ Desk' = kept
    BY <1>3, ShowConflictDesk
  <2> QED
    BY <2>1, NotTaken DEF Unspoilt, Desk
<1> QED
  BY <1>1, <1>2, <1>3

LEMMA AnswersTake ==
  ASSUME IInv, IInv', BackupInv, EditorsOwn, NEW i \in Slots, Answered(i),
         NEW u \in Users
  PROVE  Rightly(i, u)
  BY SavedTakes, RefreshedTakes, OthersTake DEF Answered

\* A stale answer finds no draft of its own.
LEMMA StaleTakes ==
  ASSUME IInv, IInv', BackupInv, EditorsOwn, NEW i \in Slots, Answered(i),
         saves[i] # Absent, ~saves[i].here, ~Rereads(saves[i]),
         ~saves[i].epoch \/ ~Holds(Desk, saves[i].lease.token)
  PROVE  /\ \A u \in Users : ~Taken(u)
         /\ conflict' = conflict
         /\ lease # Absent => lease' # Absent /\ lease'.token = lease.token
<1> DEFINE s == saves[i]
<1>1. ~Current(s) /\ ~StillOpen(s) /\ LetGo(Desk, s) = Desk
  BY DEF Current, StillOpen, LetGo, BackupInv, OutOfEpoch
<1>2. /\ server' = server /\ conflict' = conflict
      /\ \/ UNCHANGED <<lease, slots>>
         \/ Put(Desk)
         \/ Put(EditorEffect(Desk)) /\ editor' = editor
  <2>1. CASE Saved(i)
    <3>1. Settle(s, [version |-> s.version, content |-> s.content]) = Desk
      BY <1>1 DEF Settle
    <3> QED
      BY <2>1, <3>1 DEF Saved, Rereads
  <2>2. CASE Refreshed(i)
    BY <2>2 DEF Refreshed, Rereads
  <2>3. CASE Failed(i)
    BY <1>1, <2>3 DEF Failed
  <2>4. CASE Rejected(i)
    BY <1>1, <2>4 DEF Rejected
  <2>5. CASE ShowConflict(i)
    BY <1>1, <2>5 DEF ShowConflict
  <2> QED
    BY <2>1, <2>2, <2>3, <2>4, <2>5 DEF Answered
<1>3. CASE UNCHANGED <<lease, slots>> \/ Put(Desk)
  BY <1>2, <1>3 DEF Put, Desk, Taken, Removed
<1>4. CASE Put(EditorEffect(Desk)) /\ editor' = editor
  <2>1. NoneOwn(Desk) \/ Dirty'
    BY <1>4, AtHand DEF NoneOwn, EditorsOwn, Dirty
  <2>2. /\ \A u \in Users : slots[u] # Absent =>
             \/ slots'[u] = slots[u]
             \/ slots'[u] # Absent /\ slots'[u].content = editor'.present
        /\ lease # Absent => lease' # Absent /\ lease'.token = lease.token
    BY <1>2, <1>4, <2>1, AtHand, EffectTakes
  <2> QED
    BY <1>2, <2>2 DEF Taken, Removed
<1> QED
  BY <1>2, <1>3, <1>4

\* The answer to a save, or to a draft restored, takes no draft out of the
\* backups but what was saved, or what the editor still holds; for a draft left,
\* discarded or signed out of it changes no draft and opens no conflict view
\* (saveForSession, persistProject).
THEOREM EditorEndsOnlyTheirs == Spec => AnswersEndOnlyTheirs
<1>1. Spec => []IInv
  BY Known
<1>2. Spec => []BackupInv
  BY BackedUp
<1>3. Spec => []EditorsOwn
  <2>1. IInv /\ IInv' /\ BackupInv /\ EditorsOwn /\ [Next]_vars => EditorsOwn'
    BY NextOwns
  <2> QED
    BY <1>1, <1>2, <2>1, InitOwns, PTL DEF Spec
<1>4. IInv /\ IInv' /\ BackupInv /\ EditorsOwn =>
        \A u \in Users, i \in Slots :
          (/\ Taken(u)
           /\ slots[u].token \notin exposed
           /\ Answered(i) /\ ~Rereads(saves[i]))
            => \/ /\ saves[i].stage \in {"ok", "refreshing"}
                  /\ slots[u].content = saves[i].content
               \/ author' # u /\ slots[u].content = editor'.present
  BY AnswersTake DEF Rightly
<1>5. IInv /\ IInv' /\ BackupInv /\ EditorsOwn =>
        \A i \in Slots :
          (/\ saves[i] # Absent /\ ~saves[i].here
           /\ ~saves[i].epoch \/ ~Holds(Desk, saves[i].lease.token)
           /\ Answered(i) /\ ~Rereads(saves[i]))
            => /\ \A u \in Users : ~Taken(u)
               /\ conflict' = conflict
               /\ lease # Absent => lease' # Absent /\ lease'.token = lease.token
  BY StaleTakes
<1>6. Spec => AnswersRemoveOnlySaved
  BY <1>1, <1>2, <1>3, <1>4, PTL DEF AnswersRemoveOnlySaved
<1>7. Spec => StaleAnswersEndNothing
  BY <1>1, <1>2, <1>3, <1>5, PTL DEF StaleAnswersEndNothing
<1> QED
  BY <1>6, <1>7 DEF AnswersEndOnlyTheirs

=============================================================================
