SPECIFICATION Spec
CONSTANTS
  SlotCount = 3
  RequestedDepth = 2
  Capacity = 2
  InputSlotCount = 4
  QueueCapacity = 2
  FaultLimit = 2
  CleanOutputs = 1
  PresentFailureLimit = 2
  MaxFrame = 3
INVARIANTS
  VideoInv SlotsOK PictureIntact ReleasedMemoryIdle
PROPERTIES
  HandsPicturesOff PipelineMoves
