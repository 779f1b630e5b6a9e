\* One node, one owner, the serialised notifiers, two wakers.
SPECIFICATION FairSpec
CONSTANTS
  w1 = w1
  w2 = w2
  Wakers <- TwoWakers
  NoWaker = NoWaker
INVARIANTS
  ReadIsSafe
  WakerDroppedOnce
  PointerImpliesCanDrop
  NoLostWakeup
  ReadyForAReason
PROPERTIES
  SpinTerminates
  FlagIsHeard
  ImplementsAtomicWaiter
