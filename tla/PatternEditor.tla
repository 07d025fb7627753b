--------------------------- MODULE PatternEditor ---------------------------
(***************************************************************************)
(* features/editor/editorModel.ts: the commands of the layer editor, as    *)
(* functions of a pattern.  A command yields the set of patterns it may    *)
(* leave, {} when it is refused with a ProjectEditorCommandError, and      *)
(* {Broken} when it throws anything else: the project schema's own error.  *)
(*                                                                         *)
(* A pattern is a record of                                                *)
(*   at        package -> [x, y, turn, label, grip], centre on the grid    *)
(*   grips     the sequence of grips [id, delta]                           *)
(*   explicit  order dependencies <<before, after>> the user gave          *)
(*   inferred  those stored with it as inferred                            *)
(* The execution order is the order of grips, as every command leaves it   *)
(* (groupOrder and the group numbers repeat it).                           *)
(***************************************************************************)
EXTENDS GripOrder

CONSTANTS
  Packages,         \* placement ids, numbered in their sequence
  Length, Width,    \* the package, in grid steps, both even
  Clearance,        \* clearanceMm, even
  PalletLength, PalletWidth,   \* the pallet envelope, overhang included
  MaxPerGrip,       \* maxPackagesPerAutomaticGroup
  MultiPickAllowed,
  Steps,            \* the distances packages are moved by
  Labels            \* the label sides packages are given

\* labelOffsetBySide: a label side is the offset it stands for, none is zero.
LabelSides == [x : Directions \cup {0}, y : Directions \cup {0}]

ASSUME PatternAssumption ==
  /\ Packages \subseteq Nat /\ IsFiniteSet(Packages)
  /\ {Clearance, PalletLength, PalletWidth} \subseteq {2 * n : n \in 0 .. 50}
  /\ {Length, Width} \subseteq {2 * n : n \in 1 .. 50}
  /\ MaxPerGrip \in Nat \ {0}
  /\ MultiPickAllowed \in BOOLEAN
  /\ Steps \subseteq Int \X Int
  /\ Labels \subseteq LabelSides

NoGrip == [of |-> {}, n |-> 0]
NoLabel == [x |-> 0, y |-> 0]
Broken == [broken |-> TRUE]

-----------------------------------------------------------------------------
(* Geometry of placements.                                                 *)

HalfX(turn) == IF turn % 2 = 0 THEN Length \div 2 ELSE Width \div 2
HalfY(turn) == IF turn % 2 = 0 THEN Width \div 2 ELSE Length \div 2

\* placementRectangleBounds and placementClearanceBounds.
Inflated(pl, by) ==
  [left |-> pl.x - HalfX(pl.turn) - by, right |-> pl.x + HalfX(pl.turn) + by,
   bottom |-> pl.y - HalfY(pl.turn) - by, top |-> pl.y + HalfY(pl.turn) + by]
Box(pl) == Inflated(pl, 0)
ClearanceBox(pl) == Inflated(pl, Clearance \div 2)

Positive(n) == IF n > 0 THEN n ELSE 0

OverlapMeasure(a, b) ==
  LET Shared(axis) ==
        Positive(Min({Along(a, axis).hi, Along(b, axis).hi})
                 - Max({Along(a, axis).lo, Along(b, axis).lo}))
  IN Shared("x") * Shared("y")

ProtrusionMeasure(b) ==
  Positive(-b.left) + Positive(-b.bottom)
  + Positive(b.right - PalletLength) + Positive(b.top - PalletWidth)

\* placementViolationMeasures: {i} out of bounds, {i, j} overlapping.
Measure(at, i, j) ==
  IF i = j THEN ProtrusionMeasure(Box(at[i]))
  ELSE OverlapMeasure(ClearanceBox(at[i]), ClearanceBox(at[j]))

Violated(measures) == [S \in {T \in DOMAIN measures : measures[T] > 0} |-> measures[S]]

Violations(at) ==
  Violated([S \in {T \in SUBSET DOMAIN at : Cardinality(T) \in 1 .. 2} |->
              Measure(at, Min(S), Max(S))])

\* editorViolationsWorsen.
Worsen(before, after) ==
  \E k \in DOMAIN after : k \notin DOMAIN before \/ after[k] > before[k]

\* The position of a turned offset (rotateQuarterTurnOffset).
Turned(v, turns) ==
  CASE turns = 0 -> v
    [] turns = 1 -> [x |-> -v.y, y |-> v.x]
    [] turns = 2 -> [x |-> -v.x, y |-> -v.y]
    [] turns = 3 -> [x |-> v.y, y |-> -v.x]

-----------------------------------------------------------------------------
(* Grips.                                                                  *)

Members(at, id) == {i \in DOMAIN at : at[i].grip = id}
Ids(grips) == {grips[i].id : i \in DOMAIN grips}
IdSeq(grips) == [i \in DOMAIN grips |-> grips[i].id]
GripOf(grips, id) == grips[Min({i \in DOMAIN grips : grips[i].id = id})]
GripBoxes(at, ids) == [id \in ids |-> {Box(at[i]) : i \in Members(at, id)}]

\* groupGeometryError: one turn, one line, face to face along their length.
GroupFits(at, S) ==
  LET turn == at[CHOOSE i \in S : TRUE].turn
      Axis(i) == IF turn % 2 = 0 THEN at[i].x ELSE at[i].y
      Cross(i) == IF turn % 2 = 0 THEN at[i].y ELSE at[i].x
      line == {Axis(i) : i \in S}
  IN \/ Cardinality(S) = 1
     \/ /\ S # {} /\ MultiPickAllowed
        /\ \A i \in S : at[i].turn = turn
        /\ Cardinality({Cross(i) : i \in S}) = 1
        /\ line = {Min(line) + Length * k : k \in 0 .. Cardinality(S) - 1}

\* stableGripId and uniqueGripId: the id names the packages it was made for,
\* with the first suffix no other grip has.
FreshId(taken, S) ==
  [of |-> S, n |-> Min({n \in 1 .. Cardinality(taken) + 1 : [of |-> S, n |-> n] \notin taken})]

SharedLabel(at, S) ==
  LET labels == {at[i].label : i \in S}
  IN IF Cardinality(labels) = 1 THEN labels ELSE {}

\* gripFromPlacements for a new grip; gripLabelOffset without an old one.
NewGrip(at, id, S) ==
  [id |-> id,
   delta |-> IF SharedLabel(at, S) = {} THEN NoLabel ELSE at[CHOOSE i \in S : TRUE].label]

Inferred(at, grips) ==
  LET Boxes == GripBoxes(at, Ids(grips))
      delta == [id \in Ids(grips) |-> GripOf(grips, id).delta]
  IN DeltaDependencies(Boxes, delta) \cup VerticalDependencies(Boxes)

\* groupOrderAfterReplacement: new grips come where the first removed one was.
Replace(grips, removed, inserted) ==
  LET kept == Sublist(grips, {i \in DOMAIN grips : grips[i].id \notin removed})
      first == {i \in DOMAIN grips : grips[i].id \in removed}
      cut == IF first = {} THEN Len(kept) ELSE Min(first) - 1
  IN SubSeq(kept, 1, cut) \o inserted \o SubSeq(kept, cut + 1, Len(kept))

\* remapDependencies; a dependency of a grip on itself is dropped.
Remap(deps, Image(_)) ==
  {p \in {<<Image(d[1]), Image(d[2])>> : d \in deps} : p[1] # p[2]}

-----------------------------------------------------------------------------
(* What every command ends with.                                           *)

\* synchronizePatternGrips: grips without packages go; a blue line is kept
\* unless its packages' labels turned or changed.
SynchronizedGrips(before, at, grips, derive) ==
  LET Old(g) == IF g.id \in Ids(before) THEN GripOf(before, g.id) ELSE g
      Sync(g) == LET S == Members(at, g.id)
                 IN IF g.id \in derive /\ SharedLabel(at, S) # {}
                    THEN NewGrip(at, g.id, S) ELSE Old(g)
      kept == Sublist(grips, {i \in DOMAIN grips : Members(at, grips[i].id) # {}})
  IN [i \in DOMAIN kept |-> Sync(kept[i])]

\* synchronizePatternCycles: a pattern with robot cycles gets one per grip.
SynchronizedCycles(cycles, at, grips) ==
  IF cycles = <<>> THEN <<>>
  ELSE [i \in DOMAIN grips |->
          [grip |-> grips[i].id, packages |-> Members(at, grips[i].id),
           delta |-> grips[i].delta]]

\* Dependencies of grips that went go with them.
WithGrips(p, grips) ==
  [p EXCEPT !.grips = grips,
            !.explicit = {d \in @ : {d[1], d[2]} \subseteq Ids(grips)}]

\* The pattern with its grips in the order given and what follows from it.
Ordered(p, order, inferred) ==
  LET grips == [i \in DOMAIN order |-> GripOf(p.grips, order[i])]
  IN [p EXCEPT !.grips = grips, !.inferred = inferred \ p.explicit,
               !.cycles = SynchronizedCycles(@, p.at, grips)]

\* Two grips of one id are found by the project schema only, and before it by
\* the cycle check when something must precede them.
Recalculated(p, inferred) ==
  LET deps == p.explicit \cup inferred
      twice == {id \in Ids(p.grips) :
                  \E i, j \in DOMAIN p.grips :
                    i # j /\ p.grips[i].id = id /\ p.grips[j].id = id}
  IN IF \/ \E id \in Ids(p.grips) : ~GroupFits(p.at, Members(p.at, id))
        \/ ~Acyclic(Ids(p.grips), deps)
        \/ \E d \in deps : d[2] \in twice
     THEN {}
     ELSE IF twice # {} THEN {Broken}
     ELSE {Ordered(p, OrderByDependencies(IdSeq(p.grips), deps), inferred)}

Placed(p) == Recalculated(p, Inferred(p.at, p.grips))

\* replacePattern, for the change a command makes.
Replaced(p, change) ==
  Placed(WithGrips([change.next EXCEPT !.cycles = p.cycles],
                   SynchronizedGrips(IF change.anew THEN <<>> ELSE p.grips,
                                     change.next.at, change.next.grips, change.derive)))

\* Mutant: only violations there were none of are looked for.
OutcomesDeeper(p, changes) ==
  UNION {IF c.moves /\ ~(DOMAIN Violations(c.next.at) \subseteq DOMAIN Violations(p.at))
         THEN {} ELSE Replaced(p, c) : c \in changes}

\* What a command leaves: with a comparison of the violations first, if it
\* moves packages (validateGeometryOrThrow, replaceGeometryPattern).
Outcomes(p, changes) ==
  UNION {IF c.moves /\ Worsen(Violations(p.at), Violations(c.next.at))
         THEN {} ELSE Replaced(p, c) : c \in changes}

\* automaticPlacementGroups without slides: lines of packages cut into the
\* fewest grips, then into the fewest single ones.
AutomaticGroups(at) ==
  LET blocks == {S \in SUBSET DOMAIN at :
                   S # {} /\ Cardinality(S) <= MaxPerGrip /\ GroupFits(at, S)}
      cuts == {C \in SUBSET blocks :
                 /\ UNION C = DOMAIN at
                 /\ \A S, T \in C : S # T => S \cap T = {}}
      Cost(C) == <<Cardinality(C), Cardinality({S \in C : Cardinality(S) = 1})>>
  IN FirstBy([C \in cuts |-> Cost(C)])

GroupedAs(p, groups) ==
  [p EXCEPT !.explicit = {},
     !.at = [i \in DOMAIN @ |->
               [@[i] EXCEPT !.grip = FreshId({}, CHOOSE S \in groups : i \in S)]]]

WithDerivedGrips(p, Boxes, order) ==
  [p EXCEPT !.grips = [i \in DOMAIN order |->
                         [id |-> order[i], delta |-> DerivedDelta(Boxes, order, i)]]]

InLayerRows(p, Boxes) ==
  LET rows == LayerRowOrder(Boxes, [i \in DOMAIN p.at |-> Box(p.at[i])],
                            [g \in DOMAIN Boxes |-> 0])
  IN WithDerivedGrips(p, Boxes, OrderByDependencies(rows, VerticalDependencies(Boxes)))

AllGripBoxes(p) == GripBoxes(p.at, {p.at[i].grip : i \in DOMAIN p.at})

\* ensurePatternGroups: a pattern without grips gets automatic ones, in layer
\* rows, each leaning on grips placed before it.
EnsureGroups(p) ==
  LET q == GroupedAs(p, AutomaticGroups(p.at))
  IN IF p.grips # <<>> \/ DOMAIN p.at = {} THEN p ELSE InLayerRows(q, AllGripBoxes(q))

-----------------------------------------------------------------------------
(* A command proposes changes; {} stands for a refusal before that.        *)

Change(next) == [next |-> next, derive |-> {}, moves |-> FALSE, anew |-> FALSE]
Move(next) == [Change(next) EXCEPT !.moves = TRUE]

WithPlacements(p, S, New(_)) ==
  [p EXCEPT !.at = [i \in DOMAIN @ |-> IF i \in S THEN New(@[i]) ELSE @[i]]]

(* The commands of the pattern view.  Its selection holds whole grips.     *)

Selections(p) ==
  {S \in SUBSET DOMAIN p.at :
     /\ S # {}
     /\ \A i \in S, j \in DOMAIN p.at :
          p.at[i].grip = p.at[j].grip /\ p.at[i].grip # NoGrip => j \in S}

\* move-placements and set-placement-position.
MovePlacements(p, S, step) ==
  Move(WithPlacements(p, S, LAMBDA pl : [pl EXCEPT !.x = @ + step[1], !.y = @ + step[2]]))

Total(p, S, axis) == MapThenSumSet(LAMBDA i : p.at[i][axis], S)

\* averageCenter along an axis, if it is on the grid.
Average(p, S, axis) ==
  LET at == {p.at[i][axis] : i \in S}
  IN {c \in Min(at) .. Max(at) : c * Cardinality(S) = Total(p, S, axis)}

TurnedAbout(pl, centre, turns) ==
  LET off == Turned([x |-> pl.x - centre.x, y |-> pl.y - centre.y], turns)
  IN [pl EXCEPT !.x = centre.x + off.x, !.y = centre.y + off.y,
                !.turn = (@ + turns) % 4, !.label = Turned(@, turns)]

\* rotate-placements about the average centre; labels turn along, and the blue
\* lines of grips with a labelled package are derived anew.
RotatePlacements(p, S, centre, turns) ==
  [Move(WithPlacements(p, S, LAMBDA pl : TurnedAbout(pl, centre, turns)))
     EXCEPT !.derive = {p.at[i].grip : i \in {j \in S : turns # 0 /\ p.at[j].label # NoLabel}}]

\* selectionCenteringDelta, doubled.
CenteringStep2(p, S) ==
  LET boxes == {Box(p.at[i]) : i \in S}
  IN <<PalletLength - Centre2(boxes, "x"), PalletWidth - Centre2(boxes, "y")>>

CenterPlacements(p, S) ==
  LET step == CenteringStep2(p, S)
  IN MovePlacements(p, S, [k \in 1 .. 2 |-> step[k] \div 2])

SetLabelSide(p, S, label) ==
  [Change(WithPlacements(p, S, LAMBDA pl : [pl EXCEPT !.label = label]))
     EXCEPT !.derive = {p.at[i].grip : i \in S}]

DeletePlacements(p, S) ==
  Move([p EXCEPT !.at = [i \in (DOMAIN @) \ S |-> @[i]]])

\* set-pattern-name: the name is left out, its recalculation is not.
SetPatternName(p) == Change(p)

\* insertionPosition: of the places against the pallet's edges, its middle and
\* the other packages, the free one nearest the middle.
InsertionPosition(p, turn) ==
  LET cx == PalletLength \div 2
      cy == PalletWidth \div 2
      boxes == {Box(p.at[i]) : i \in DOMAIN p.at}
      xs == {cx, HalfX(turn), PalletLength - HalfX(turn)}
              \cup {b.left - Clearance - HalfX(turn) : b \in boxes}
              \cup {b.right + Clearance + HalfX(turn) : b \in boxes}
      ys == {cy, HalfY(turn), PalletWidth - HalfY(turn)}
              \cup {b.bottom - Clearance - HalfY(turn) : b \in boxes}
              \cup {b.top + Clearance + HalfY(turn) : b \in boxes}
      At(c) == [x |-> c[1], y |-> c[2], turn |-> turn, label |-> NoLabel, grip |-> NoGrip]
      free == {c \in xs \X ys :
                 /\ ProtrusionMeasure(Box(At(c))) = 0
                 /\ \A i \in DOMAIN p.at :
                      ~BoxesMeet(ClearanceBox(At(c)), ClearanceBox(p.at[i]))}
      Key(c) == <<(c[1] - cx) * (c[1] - cx) + (c[2] - cy) * (c[2] - cy), c[2], c[1]>>
  IN IF free = {} THEN {} ELSE {At(FirstBy([c \in free |-> Key(c)]))}

-----------------------------------------------------------------------------
(* The commands of the order view, on any packages or grips of a pattern   *)
(* with grips (EnsureGroups).                                              *)

\* createGroup: the packages leave their grips for a new one.  An emptied grip
\* goes, its dependencies pass to the new grip; a grip that keeps packages
\* keeps its id, and its old id may still be given to the new grip.
CreatedGroup(p, S, affected) ==
  LET id == FreshId(Ids(p.grips) \ affected, S)
      removed == {g \in affected : Members(p.at, g) \subseteq S}
  IN IF Cardinality(affected) = 1 /\ \A g \in affected : Members(p.at, g) = S
     THEN p
     ELSE [WithPlacements(p, S, LAMBDA pl : [pl EXCEPT !.grip = id])
             EXCEPT !.grips = Replace(@, removed, <<NewGrip(p.at, id, S)>>),
                    !.explicit = Remap(@, LAMBDA g : IF g \in removed THEN id ELSE g)]

Affected(p, S) == {p.at[i].grip : i \in S} \ {NoGrip}

\* Its grips are built from their packages, which must fit before and after.
CreateGroup(p, S) ==
  LET remains == {Members(p.at, g) \ S : g \in Ids(p.grips)} \ {{}}
  IN IF \A R \in remains \cup {S} : GroupFits(p.at, R)
     THEN {Change(CreatedGroup(p, S, Affected(p, S)))} ELSE {}

\* insert-placement: a package of its own grip, when the pattern has grips.
InsertPlacement(p, i, turn) ==
  LET With(pl) == [p EXCEPT !.at = [j \in {i} \cup DOMAIN p.at |->
                                      IF j = i THEN pl ELSE p.at[j]]]
  IN {Move(IF p.grips = <<>> THEN With(pl) ELSE CreatedGroup(With(pl), {i}, {})) :
        pl \in InsertionPosition(p, turn)}

RemoveGroup(p, id) ==
  Change([WithPlacements(p, Members(p.at, id), LAMBDA pl : [pl EXCEPT !.grip = NoGrip])
            EXCEPT !.grips = Sublist(@, {i \in DOMAIN @ : @[i].id # id}),
                   !.explicit = {d \in @ : id \notin {d[1], d[2]}}])

\* Mutant: only the first grip keeps the dependencies.
InheritedByFirst(deps, id, heirs) ==
  {[k \in 1 .. 2 |-> IF d[k] = id THEN heirs[1] ELSE d[k]] : d \in deps}

\* A dependency of a grip becomes one of each of its heirs.
Inherited(deps, id, heirs) ==
  LET Ends(g) == IF g = id THEN ToSet(heirs) ELSE {g}
  IN UNION {Ends(d[1]) \X Ends(d[2]) : d \in deps}

SplitInto(p, id, parts) ==
  LET Part(i) == CHOOSE g \in Ids(parts) : g.of = {i}
  IN [p EXCEPT
        !.at = [i \in DOMAIN @ |-> IF @[i].grip = id
                                   THEN [@[i] EXCEPT !.grip = Part(i)] ELSE @[i]],
        !.grips = Replace(@, {id}, parts),
        !.explicit = Inherited(@, id, IdSeq(parts))]

\* splitGroup: a grip for each package, the first with the old blue line; each
\* of them inherits every dependency.
SplitGroup(p, id) ==
  LET alone == SortedBy([i \in Members(p.at, id) |-> <<i>>])
      Fresh(i) == FreshId(Ids(p.grips) \ {id}, {i})
      Part(k) == IF k = 1 THEN [id |-> Fresh(alone[1]), delta |-> GripOf(p.grips, id).delta]
                 ELSE NewGrip(p.at, Fresh(alone[k]), {alone[k]})
  IN Change(IF Len(alone) = 1 THEN p ELSE SplitInto(p, id, [k \in DOMAIN alone |-> Part(k)]))

MergedInto(p, ids, S, first) ==
  [WithPlacements(p, S, LAMBDA pl : [pl EXCEPT !.grip = first.id])
     EXCEPT !.grips = Replace(@, ids, <<first>>),
            !.explicit = Remap(@, LAMBDA g : IF g \in ids THEN first.id ELSE g)]

\* mergeGroups: the first of them in the order takes the packages of all.
MergeGroups(p, ids) ==
  LET S == UNION {Members(p.at, g) : g \in ids}
      first == Min({i \in DOMAIN p.grips : p.grips[i].id \in ids})
  IN IF Cardinality(ids) < 2 \/ ~GroupFits(p.at, S) THEN {}
     ELSE {Change(MergedInto(p, ids, S, p.grips[first]))}

\* Packages slid along their own line by at most a package length.
Slid(at) ==
  {at} \cup
  {IF at[i].turn % 2 = 0 THEN [at EXCEPT ![i].x = @ + d]
                         ELSE [at EXCEPT ![i].y = @ + d] :
     i \in DOMAIN at, d \in IF Clearance = 0 THEN (-Length) .. Length ELSE {}}

\* recalculate-groups: all grips and dependencies are discarded, and packages
\* may slide where that saves grips.
RecalculateGroups(p) ==
  LET Bare(at) == [p EXCEPT !.grips = <<>>, !.explicit = {},
                            !.at = [i \in DOMAIN at |-> [at[i] EXCEPT !.grip = NoGrip]]]
      groups == [at \in Slid(p.at) |-> Cardinality(AutomaticGroups(at))]
  IN {[Move(EnsureGroups(Bare(at))) EXCEPT !.anew = TRUE] :
        at \in {a \in DOMAIN groups : a = p.at \/ groups[a] < groups[p.at]}}

\* reorder-group and apply-suggested-order: the order asked for must respect
\* the dependencies of the pattern as it is.
InOrder(p, order) ==
  IF IsLinearExtension(order, p.explicit \cup Inferred(p.at, p.grips))
  THEN {Change([p EXCEPT !.grips = [i \in DOMAIN order |-> GripOf(@, order[i])]])} ELSE {}

Reordered(order, id, toIndex) ==
  LET others == Sublist(order, {i \in DOMAIN order : order[i] # id})
  IN SubSeq(others, 1, toIndex - 1) \o <<id>> \o SubSeq(others, toIndex, Len(others))

ReorderGroup(p, id, toIndex) == InOrder(p, Reordered(IdSeq(p.grips), id, toIndex))

\* suggestProjectEditorOrder: layer rows, as far as the dependencies allow.
SuggestedOrder(p) ==
  LET place == [g \in Ids(p.grips) |-> Min({i \in DOMAIN p.grips : p.grips[i].id = g})]
      rows == LayerRowOrder(GripBoxes(p.at, Ids(p.grips)),
                            [i \in DOMAIN p.at |-> Box(p.at[i])], place)
  IN OrderByDependencies(rows, p.explicit \cup Inferred(p.at, p.grips))

AddOrderDependency(p, before, after) ==
  LET explicit == p.explicit \cup {<<before, after>>}
  IN IF before # after /\ Acyclic(Ids(p.grips), explicit \cup Inferred(p.at, p.grips))
     THEN {Change([p EXCEPT !.explicit = explicit])} ELSE {}

RemoveOrderDependency(p, before, after) ==
  LET d == <<before, after>>
  IN IF d \in p.explicit \/ d \notin Inferred(p.at, p.grips)
     THEN {Change([p EXCEPT !.explicit = @ \ {d}])} ELSE {}

-----------------------------------------------------------------------------
\* The inputs the two views offer for a pattern.
PatternViewEdits(p) ==
  {MovePlacements(p, S, step) : S \in Selections(p), step \in Steps}
  \cup (UNION {{RotatePlacements(p, S, [x |-> x, y |-> y], 1) :
                  x \in Average(p, S, "x"), y \in Average(p, S, "y")} : S \in Selections(p)})
  \cup {CenterPlacements(p, S) :
          S \in {T \in Selections(p) : \A k \in 1 .. 2 : CenteringStep2(p, T)[k] % 2 = 0}}
  \cup {SetLabelSide(p, S, label) : S \in Selections(p), label \in Labels}
  \cup {DeletePlacements(p, S) : S \in Selections(p)}
  \cup (UNION {InsertPlacement(p, i, turn) :
                 i \in Packages \cap {Max(DOMAIN p.at \cup {0}) + 1}, turn \in 0 .. 1})
  \cup {SetPatternName(p)}

GroupingEdits(p) ==
  (UNION {CreateGroup(p, S) : S \in (SUBSET DOMAIN p.at) \ {{}}})
  \cup {SplitGroup(p, id) : id \in Ids(p.grips)}
  \cup (UNION {MergeGroups(p, ids) : ids \in SUBSET Ids(p.grips)})

OrderViewEdits(p) ==
  GroupingEdits(p)
  \cup {RemoveGroup(p, id) : id \in Ids(p.grips)}
  \cup (UNION {ReorderGroup(p, id, k) : id \in Ids(p.grips), k \in DOMAIN p.grips})
  \cup InOrder(p, SuggestedOrder(p))
  \cup (UNION {AddOrderDependency(p, g, h) : g \in Ids(p.grips), h \in Ids(p.grips)})
  \cup (UNION {RemoveOrderDependency(p, g, h) : g \in Ids(p.grips), h \in Ids(p.grips)})

Edits(p) ==
  Outcomes(p, PatternViewEdits(p) \cup OrderViewEdits(EnsureGroups(p)) \cup RecalculateGroups(p))
    \ {Broken}
=============================================================================
