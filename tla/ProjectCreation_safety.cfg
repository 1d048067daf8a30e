SPECIFICATION Spec
CONSTANTS
  Previews = {p1, p2}
  Projects = {q1, q2}
  Owners = {o1, o2}
  Durations = {3}
  Profiles = {f1}
  Wordings = {w1, w2}
  Revisions = {r1, r2}
  NoProject = NoProject
  NoSnapshot = NoSnapshot
  MaxFaults = 1
  MaxRestarts = 1
SYMMETRY CreationSymmetry
INVARIANTS
  TypeOK
  OneProjectPerPreview
  CreationIsWhole
  RunsAsPreviewed
CHECK_DEADLOCK FALSE
