CONSTANTS
  NS_BL1U = NS_BL1U
  BL2U = BL2U
  BL2 = BL2
  NS_BL2U = NS_BL2U
  Image <- MCImage
  SecureImage <- MCsecure
  ExecutableImage <- MCsecure
  FirstImage = NS_BL1U
  Layout <- MCLayout
  image_max_size <- MCmax
  FWU_MAX_SIMULTANEOUS_IMAGES = 2
  INVALID_IMAGE_ID = INVALID_IMAGE_ID
  MaxAddr = 4
SPECIFICATION Spec
CHECK_DEADLOCK FALSE
INVARIANT LoadedAreActive
INVARIANT SecureWorldRunsLastExecuted
INVARIANT CopiedBytesIntact
INVARIANT ExecutedWereVerified
INVARIANT LoadedRegionsDisjoint
