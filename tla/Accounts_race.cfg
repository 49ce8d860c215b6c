CONSTANTS
  Requests = {q1, q2, q3}
  Clients = {c1}
  Emails = {e1, e2}
  Subs = {s1, s2}
  NoSub = NoSub
  Limit = 2
  Window = 2
SPECIFICATION Spec
SYMMETRY MCSymmetry
INVARIANTS Paired StaysWithSub ConflictOnlyIfRaced AdmittedBound
