----------------------------- MODULE GripOrder -----------------------------
(***************************************************************************)
(* domain/gripDependencies.ts: the order in which the grips of a layer can *)
(* be placed.  A layer is given by the footprints of its packages, a       *)
(* function Boxes from grip ids to non-empty sets of boxes, so that every  *)
(* operator below is a function of the geometry only.  Lengths are whole   *)
(* grid steps: the code's tolerance of half a millimetre is equality here. *)
(***************************************************************************)
EXTENDS Integers, Sequences, FiniteSets, FiniteSetsExt, SequencesExt

CONSTANTS
  \* LEGACY_ROB_DELTA_APPROACH_DISTANCE_MM, in grid steps.
  Approach

ASSUME ApproachAssumption == Approach \in Nat \ {0}

\* The elements of a sequence at some of its positions, in their order.
Sublist(s, positions) ==
  LET chosen[n \in 0 .. Len(s)] ==
        IF n = 0 THEN <<>>
        ELSE IF n \in positions THEN Append(chosen[n - 1], s[n])
        ELSE chosen[n - 1]
  IN chosen[Len(s)]

Axes == {"x", "y"}
Directions == {-1, 1}

\* The extent [lo, hi] of a box along an axis, and across it.
Along(box, axis) ==
  IF axis = "x" THEN [lo |-> box.left, hi |-> box.right]
                ELSE [lo |-> box.bottom, hi |-> box.top]
Across(box, axis) == Along(box, CHOOSE other \in Axes : other # axis)

Meet(s, t) == s.lo < t.hi /\ t.lo < s.hi
BoxesMeet(a, b) == \A axis \in Axes : Meet(Along(a, axis), Along(b, axis))

-----------------------------------------------------------------------------
(* The dependencies of a layer: sets of pairs <<before, after>>.           *)

\* Some package of h lies above one of g in x, and none the other way round.
LiesBelow(Boxes, g, h) ==
  LET facing == {p \in Boxes[g] \X Boxes[h] : Meet(Across(p[1], "y"), Across(p[2], "y"))}
  IN facing # {} /\ \A p \in facing : p[1].top <= p[2].bottom

VerticalDependencies(Boxes) ==
  {p \in (DOMAIN Boxes) \X (DOMAIN Boxes) :
     p[1] # p[2] /\ LiesBelow(Boxes, p[1], p[2])}

\* The distances from g to the packages of h that face it in a direction.
Gaps(Boxes, g, h, axis, direction) ==
  {IF direction > 0 THEN Along(p[2], axis).lo - Along(p[1], axis).hi
                    ELSE Along(p[1], axis).lo - Along(p[2], axis).hi :
     p \in {q \in Boxes[g] \X Boxes[h] : Meet(Across(q[1], axis), Across(q[2], axis))}}
    \cap Nat

\* Those of which some gap is the smallest there is.
Nearest(gaps) ==
  {h \in DOMAIN gaps : \E n \in gaps[h] : \A k \in DOMAIN gaps : \A o \in gaps[k] : n <= o}

\* The grips nearest to g in a direction, all of them when several tie.
NearestInDirection(Boxes, g, axis, direction) ==
  Nearest([h \in (DOMAIN Boxes) \ {g} |-> Gaps(Boxes, g, h, axis, direction)])

NearestGap(Boxes, g, axis, direction) ==
  Min(UNION {Gaps(Boxes, g, h, axis, direction) : h \in (DOMAIN Boxes) \ {g}})

\* Mutant: the line points towards them.
ReferencesAhead(Boxes, g, delta) ==
  UNION {NearestInDirection(Boxes, g, axis, delta[axis]) :
           axis \in {a \in Axes : delta[a] # 0}}

\* The grips a blue line (a stored offset <<dx, dy>>) refers to: it points
\* away from them, so the sides searched are the opposite ones.
References(Boxes, g, delta) ==
  UNION {NearestInDirection(Boxes, g, axis, -delta[axis]) :
           axis \in {a \in Axes : delta[a] # 0}}

DeltaDependencies(Boxes, delta) ==
  UNION {{<<h, g>> : h \in References(Boxes, g, delta[g])} : g \in DOMAIN Boxes}

-----------------------------------------------------------------------------
(* Ordering.                                                               *)

Acyclic(ids, deps) ==
  \A S \in (SUBSET ids) \ {{}} : \E g \in S : \A h \in S : <<h, g>> \notin deps

\* Mutant: the preferred order is taken as it is.
AsPreferred(preferred, deps) == preferred

\* The grips of which every prerequisite is placed.
Ready(preferred, deps, done) ==
  {i \in DOMAIN preferred :
     /\ preferred[i] \notin ToSet(done)
     /\ \A h \in ToSet(preferred) :
          <<h, preferred[i]>> \in deps => h \in ToSet(done)}

\* orderGripsByDependencies: always the first of them in the preferred order.
\* Only for acyclic dependencies.
OrderByDependencies(preferred, deps) ==
  LET placed[n \in 0 .. Len(preferred)] ==
        IF n = 0 THEN <<>>
        ELSE LET done == placed[n - 1]
             IN Append(done, preferred[Min(Ready(preferred, deps, done))])
  IN placed[Len(preferred)]

IsLinearExtension(order, deps) ==
  \A i, j \in DOMAIN order : <<order[i], order[j]>> \in deps => i < j

\* The centre of a grip, doubled to stay a whole number.
Centre2(boxes, axis) ==
  Min({Along(b, axis).lo : b \in boxes}) + Max({Along(b, axis).hi : b \in boxes})

\* lowerHalfSplitYMm, doubled: the inner row edge nearest the midline, the
\* lower of two; the midline itself when there is none.
Split2(packages) ==
  LET bottom == Min({b.bottom : b \in Range(packages)})
      top == Max({b.top : b \in Range(packages)})
      Off(e) == IF 2 * e > bottom + top THEN 2 * e - bottom - top
                                        ELSE bottom + top - 2 * e
      edges == (UNION {{b.bottom, b.top} : b \in Range(packages)}) \ {bottom, top}
      nearest == {e \in edges : \A f \in edges : Off(e) <= Off(f)}
  IN IF edges = {} THEN bottom + top ELSE 2 * Min(nearest)

\* createGripOrderLayout: the height most packages have, the smaller of two.
RowPitch(packages) ==
  LET Height(i) == packages[i].top - packages[i].bottom
      Count(h) == Cardinality({i \in DOMAIN packages : Height(i) = h})
      heights == {Height(i) : i \in DOMAIN packages}
  IN Min({h \in heights : \A k \in heights : Count(k) <= Count(h)})

\* The sort key of compareGripsByLayerRows: half, row band, right to left,
\* bottom to top, then its place in the order so far (group number).  The layout
\* is that of all packages, with or without a grip.
LayerRowKey(boxes, packages, place) ==
  LET origin == Min({b.bottom : b \in Range(packages)})
  IN <<IF Centre2(boxes, "y") <= Split2(packages) THEN 0 ELSE 1,
       (Min({b.bottom : b \in boxes}) - origin) \div RowPitch(packages),
       -Centre2(boxes, "x"),
       Centre2(boxes, "y"),
       place>>

LexLess(s, t) == \E i \in DOMAIN s : s[i] < t[i] /\ \A j \in 1 .. i - 1 : s[j] = t[j]

\* The first by keys, one of those with the least key (the code compares hashed
\* ids then); and all in their order.
FirstBy(key) ==
  CHOOSE s \in DOMAIN key : \A t \in DOMAIN key : ~LexLess(key[t], key[s])

SortedBy(key) ==
  LET sorted[n \in 0 .. Cardinality(DOMAIN key)] ==
        IF n = 0 THEN <<>>
        ELSE LET done == sorted[n - 1]
             IN Append(done, FirstBy([s \in (DOMAIN key) \ ToSet(done) |-> key[s]]))
  IN sorted[Cardinality(DOMAIN key)]

LayerRowOrder(Boxes, packages, place) ==
  SortedBy([g \in DOMAIN Boxes |-> LayerRowKey(Boxes[g], packages, place[g])])

-----------------------------------------------------------------------------
(* Deriving the offsets of grips that are placed in a given order.         *)

\* The stretch of the approach along one axis during which two extents meet,
\* as open distances <<enter, exit>>; the carried box moves by -d per step.
SweepInterval(moving, obstacle, d) ==
  CASE d = 0 -> IF Meet(moving, obstacle) THEN <<0, Approach>> ELSE <<0, 0>>
    [] d < 0 -> <<obstacle.lo - moving.hi, obstacle.hi - moving.lo>>
    [] d > 0 -> <<moving.lo - obstacle.hi, moving.hi - obstacle.lo>>

Interrupted(x, y) == Max({0, x[1], y[1]}) < Min({Approach, x[2], y[2]})

SweepsOver(moving, obstacle, delta) ==
  Interrupted(SweepInterval(Along(moving, "x"), Along(obstacle, "x"), delta.x),
              SweepInterval(Along(moving, "y"), Along(obstacle, "y"), delta.y))

ApproachIsClear(carried, placed, delta) ==
  \A c \in carried, p \in placed : ~SweepsOver(c, p, delta)

\* The offset that leans on the grips at a side, away from them.
Away(side) == [x |-> -side[1], y |-> -side[2]]

\* The reference sides a grip may lean on: all of its nearest grips on each
\* side are placed before it, and it approaches past none.  Diagonal before
\* straight before none at all, then the smaller gap, then right, then below.
DerivedDelta(Boxes, order, i) ==
  LET g == order[i]
      earlier == {order[k] : k \in 1 .. i - 1}
      placed == UNION {Boxes[h] : h \in earlier}
      Usable(axis) ==
        {d \in Directions :
           NearestInDirection(Boxes, g, axis, d) \in (SUBSET earlier) \ {{}}} \cup {0}
      Gap(axis, d) == IF d = 0 THEN 0 ELSE NearestGap(Boxes, g, axis, d)
      Key(s) == <<Cardinality({k \in DOMAIN s : s[k] = 0}),
                  Gap("x", s[1]) + Gap("y", s[2]), -s[1], s[2]>>
      clear == {s \in Usable("x") \X Usable("y") :
                  s = <<0, 0>> \/ ApproachIsClear(Boxes[g], placed, [x |-> s[1], y |-> s[2]])}
  IN Away(FirstBy([s \in clear |-> Key(s)]))

\* deriveGripDeltasForPlacementOrder.
DerivedDeltas(Boxes, order) ==
  [g \in ToSet(order) |->
     DerivedDelta(Boxes, order, CHOOSE i \in DOMAIN order : order[i] = g)]
=============================================================================
