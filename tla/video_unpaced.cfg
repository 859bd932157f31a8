SPECIFICATION Spec
CONSTANTS
  SlotCount = 5
  RequestedDepth = 2
  Capacity = 1
  InputSlotCount = 3
  QueueCapacity = 3
  FaultLimit = 1
  CleanOutputs = 1
  PresentFailureLimit = 1
  MaxFrame = 4
INVARIANTS
  NoDecodeInsideDrain KeyframeAfterReset InputsOK
