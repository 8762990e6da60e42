SPECIFICATION Spec
CONSTANTS
  Contents = {c1, c2, c3}
  Absent = Absent
  NoCall = NoCall
  Torn = Torn
INVARIANTS NeverTorn
PROPERTIES ImplementsAtomicFile RemovalKeepsNewBody
