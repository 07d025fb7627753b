SPECIFICATION Spec
CONSTANTS
  Order <- TwoPlans
  plan1 = plan1
  plan2 = plan2
  Users = {alice, root}
  Admins = {root}
  Planners = {q1}
  Runs = {r1}
  MaxVersion = 1
  MaxOthers = 0
  None = None
PROPERTIES
  CreatorConfirmed
