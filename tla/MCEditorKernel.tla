--------------------------- MODULE MCEditorKernel ---------------------------
EXTENDS EditorKernel, TLC

Lying(x, y, turn) ==
  [x |-> x, y |-> y, turn |-> turn, label |-> NoLabel, grip |-> NoGrip]

Ungrouped(at) ==
  [at |-> at, grips |-> <<>>, explicit |-> {}, inferred |-> {}, cycles |-> <<>>]

\* The first cycles a plan has are those of its grips.
WithCycles(p) ==
  [p EXCEPT !.cycles = [i \in DOMAIN p.grips |->
     [grip |-> p.grips[i].id, packages |-> Members(p.at, p.grips[i].id),
      delta |-> p.grips[i].delta]]]

\* A layer all packages were deleted from.
Emptied == Ungrouped(<<>>)

\* Two packages side by side and one above, as a calculated layer.
Calculated == Ungrouped((1 :> Lying(2, 1, 0)) @@ (2 :> Lying(6, 1, 0)) @@ (3 :> Lying(2, 3, 0)))

Then(patterns, Edit(_)) == UNION {Outcomes(p, Edit(p)) : p \in patterns}

\* The same with grips and robot cycles; then the user split the pair, wants
\* package 3 after package 2, and 1 and 2 in one grip again, which is now
\* called after package 1.
Grouped == {WithCycles(p) : p \in Then({EnsureGroups(Calculated)}, LAMBDA p : {SetPatternName(p)})}
Alone(i) == FreshId({}, {i})
Single == Then(Grouped, LAMBDA p : {SplitGroup(p, FreshId({}, {1, 2}))})
Wanted == Then(Single, LAMBDA p : AddOrderDependency(p, Alone(2), Alone(3)))
Merged == Then(Wanted, LAMBDA p : MergeGroups(p, {Alone(1), Alone(2)}))

\* Imported: one package overlaps another and sticks out of the pallet.
Imported == Ungrouped((1 :> Lying(2, 1, 0)) @@ (2 :> Lying(4, 2, 0)) @@ (3 :> Lying(7, 4, 1)))

Calculations == {Calculated}
SomeStarts == {Emptied, Calculated, Imported} \cup Merged
SomeSteps == {<<2, 0>>, <<-2, 0>>, <<0, 2>>, <<0, -2>>}
SomeLabels == {NoLabel, [x |-> -1, y |-> 0]}
=============================================================================
