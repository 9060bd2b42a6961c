SPECIFICATION Spec
CONSTANTS
  q1 = q1
  q2 = q2
  k1 = k1
  k2 = k2
  e1 = e1
  e2 = e2
  r1 = r1
  r2 = r2
  a1 = a1
  a2 = a2
  NULL = NULL
  Questions = {q1}
  Keys = {k1, k2}
  Entries = {e1}
  Reviewers = {r1}
  Editors = {a1, a2}
SYMMETRY SymmetricIds
INVARIANT KeysAreChoices
