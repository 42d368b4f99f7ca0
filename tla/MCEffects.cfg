SPECIFICATION Spec
CONSTANTS
  Effects <- MCEffects
  Programs <- MCPrograms
  MaxFrames <- MCMaxFrames
INVARIANTS
  UsesOwnMemory
  BlitterOwnsMemory
  CopperOwnsList
  DisplayOwnsPlanes
  DrawsOffScreen
  CpuWaits
  StartsIdle
  AllReturned
PROPERTY
  Ends
