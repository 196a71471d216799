\* Home slots 1 and the last one, whatever the capacity.
SPECIFICATION Spec
CONSTANTS
  Key = {k1, k2, k3}
  Value = {v1, v2}
  Absent = Absent
  Deleted = Deleted
  HashCode = {1, 7}
  Capacity0 = {2, 4}
  MaxCapacity = 8
INVARIANTS
  TypeOK
  EntriesFound
  CountsAreExact
  ProbesEnd
PROPERTY ActsAsDictionary
