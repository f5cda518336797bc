CONSTANTS
  Files = {report, notes}
  Contents = {c1, c2}
  None = None
  Partial = Partial
SPECIFICATION Spec
SYMMETRY Symmetry
INVARIANTS TypeOK SuspensionIsDurable RegistryIsLinked
PROPERTIES CheckpointsAreWhole RestoredOnStart ConversationContinues
