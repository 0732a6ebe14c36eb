\* Three receivers, so that one can take what two others were woken for.
SPECIFICATION Spec
CONSTANTS
  Receivers = {r1, r2, r3}
  MaxSent = 3
INVARIANTS NoMissedMessage
PROPERTIES ImplementsFifoQueue
