SPECIFICATION Spec
CONSTANTS
  Sims = {d1, d2}
  Agents = {a1, a2}
  Thread = {x1, x2}
  Scenario <- MCScenario
SYMMETRY MCSymmetry
CONSTRAINT NoRaceYet
INVARIANTS OnlyOneUnlessRaced BorrowedPolicy
  CompleteMeansReturned LogVisible
