CONSTANTS
  f1 = f1
  f2 = f2
  b1 = b1
  b2 = b2
  None = None
  Forwards <- TwoForwards
  Binds <- TwoBinds
SPECIFICATION FairSpec
CHECK_DEADLOCK FALSE
INVARIANTS
  RegisteredIsServed
  ClosedHoldsNothing
PROPERTIES
  LifecycleSpec
  ListenersReleased
