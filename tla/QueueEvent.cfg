\* What the comment on Queue_Event says, after Queue_Clear.
SPECIFICATION QueueSpec
CONSTANTS
  Objects = {a, b, c}
  Zero = Zero
  InitialCapacity = 2
  GrowthFactor = 2
  MaxObjects = 5
INVARIANT SetWhenNonEmpty
