\* Four slots, eight frames: the ring wraps and fills up.
SPECIFICATION QueueFairSpec
CONSTANTS
  SlotCount = 4
  PayloadCapacity = 2
  OutCapacities = {1, 2}
  MaxFrames = 8
  SizeOf <- MCSizeOf
INVARIANTS QueueTypeOK RingInv NoSlotRace
PROPERTIES FifoSpec QueuedIsDelivered
