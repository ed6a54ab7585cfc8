SPECIFICATION Spec
CONSTANTS
  Columns = {label, description}
  Nullable = {description}
  Patches = {p1, p2, p3}
  Original = Original
  Null = Null
  Absent = Absent
INVARIANTS
  TypeOK
  AcknowledgedStays
SYMMETRY Symmetry
CHECK_DEADLOCK FALSE
