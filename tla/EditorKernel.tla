---------------------------- MODULE EditorKernel ----------------------------
(***************************************************************************)
(* The layer editor: the commands of PatternEditor under the undo and redo *)
(* stacks and saves of EditorHistory.                                      *)
(***************************************************************************)
EXTENDS PatternEditor

CONSTANTS Starts, MaxHistory, MaxEdits, MaxSaves

VARIABLES original, persisted, present, past, future, saving, edits, saveCount

INSTANCE EditorHistory

ASSUME KernelAssumption == HistoryAssumption

pattern == present.content

-----------------------------------------------------------------------------
Grips == [of : SUBSET Packages, n : Nat \ {0}]
Placements == [x : Int, y : Int, turn : 0 .. 3, label : LabelSides, grip : Grips \cup {NoGrip}]
Cycles == [grip : Grips, packages : SUBSET Packages, delta : LabelSides]

\* Its packages and dependencies refer to grips of its own
\* (planningLayerPatternSchema).
IsPattern(p) ==
  /\ p \in [at : [DOMAIN p.at -> Placements],
           grips : Seq([id : Grips, delta : LabelSides]),
           explicit : SUBSET (Ids(p.grips) \X Ids(p.grips)),
           inferred : SUBSET (Ids(p.grips) \X Ids(p.grips)),
           cycles : Seq(Cycles)]
  /\ DOMAIN p.at \subseteq Packages
  /\ \A i \in DOMAIN p.at : p.at[i].grip \in Ids(p.grips) \cup {NoGrip}

\* A plan is opened as the project schema accepts it.
ASSUME StartsAssumption == \A p \in Starts : IsPattern(p)

KernelTypeOK ==
  /\ \A project \in {original, persisted, present} :
       IsPattern(project.content) /\ project.save \in 0 .. MaxSaves
  /\ StacksBounded

\* A pattern that can be placed: every grip has packages and stands once in the
\* order, no grip comes before one it depends on by the packages' places and
\* blue lines or by the user's word, the dependencies stored with it are those
\* of its places, and the robot cycles, where there are any, are those of the
\* grips in their order.
Placeable(p) ==
  LET now == Inferred(p.at, p.grips)
  IN /\ \A i \in DOMAIN p.grips : GroupFits(p.at, Members(p.at, p.grips[i].id))
     /\ Cardinality(Ids(p.grips)) = Len(p.grips)
     /\ IsLinearExtension(IdSeq(p.grips), p.explicit \cup now)
     /\ p.inferred = now \ p.explicit
     /\ p.cycles # <<>> => p.cycles = SynchronizedCycles(p.cycles, p.at, p.grips)

\* Whatever commands came before, the pattern on screen can be placed.
OrderPlaceable == Placeable(pattern)

\* No sequence of edits, undos and saves leaves a package further outside the
\* pallet or deeper in another one than in the project that was opened, which
\* may have been imported with such errors (validateGeometryOrThrow compares
\* with the state before each edit only).
NeverWorseThanOpened == ~Worsen(Violations(original.content.at), Violations(pattern.at))

\* The user's order dependencies, package by package.
PackageOrder(p) ==
  {d \in (DOMAIN p.at) \X (DOMAIN p.at) : <<p.at[d[1]].grip, p.at[d[2]].grip>> \in p.explicit}

\* Splitting a grip, merging grips and making a grip of whole ones keep the
\* user's order between all packages that are still in different grips.
GroupingKeepsExplicitOrder ==
  LET p == pattern
      Whole(S) == \A id \in Ids(p.grips) : Members(p.at, id) \cap S \in {{}, Members(p.at, id)}
      changes == {SplitGroup(p, id) : id \in Ids(p.grips)}
                 \cup (UNION {MergeGroups(p, S) : S \in SUBSET Ids(p.grips)})
                 \cup (UNION {CreateGroup(p, S) :
                              S \in {T \in (SUBSET DOMAIN p.at) \ {{}} : Whole(T)}})
  IN p.grips # <<>> =>
       \A q \in Outcomes(p, changes) \ {Broken} :
         {d \in PackageOrder(p) : q.at[d[1]].grip # q.at[d[2]].grip} \subseteq PackageOrder(q)

\* "Deriving deltas from a placement order and inferring dependencies back out
\* of them must agree" (gripDependencies.ts): offsets derived for the order the
\* grips stand in lean on grips that are placed before.
DeltasAgree ==
  LET p == pattern
      order == IdSeq(p.grips)
      Boxes == GripBoxes(p.at, Ids(p.grips))
  IN IsLinearExtension(order, DeltaDependencies(Boxes, DerivedDeltas(Boxes, order)))

\* The order view lets a grip be built from any packages: the preview of a
\* selection (previewGripFromSelection) either accepts it or explains why not.
PreviewAnswers ==
  LET q == EnsureGroups(pattern)
  IN Broken \notin Outcomes(pattern, UNION {CreateGroup(q, S) : S \in (SUBSET DOMAIN q.at) \ {{}}})
=============================================================================
