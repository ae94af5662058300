\* What the comment on Queue_Contains says, on a full or wrapped ring.
SPECIFICATION QueueSpec
CONSTANTS
  Objects = {a, b, c}
  Zero = Zero
  InitialCapacity = 2
  GrowthFactor = 2
  MaxObjects = 5
INVARIANT ContainsIsMembership
