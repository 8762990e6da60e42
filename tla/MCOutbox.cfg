SPECIFICATION Spec
CONSTANTS
  MaxSlots = 3
  MaxSeq = 2
  MaxDay = 1
  NoRow = NoRow
CHECK_DEADLOCK FALSE
INVARIANTS TypeOK FwIdsUnique
PROPERTIES ImplementsLifecycle FreshIdHasNoResults
