\* Two items, three openings, items saved twice.
SPECIFICATION Spec
CONSTANTS
  FormSubjects <- ConsoleForms
  Items = {i1, i2}
  None = None
  New = New
  MaxVersion = 3
  MaxOpenings = 3
INVARIANTS
  NoLeftovers
  EditsTheRow
  StartsFromOwn
CHECK_DEADLOCK FALSE
