SPECIFICATION FairSpec
CONSTANTS
  NumCards = 2
  Outputs = {2}
  Pitches = {2, 10, 12}
  Sizes = {0, 36, 100}
  Word = 64
  Radius = 2
  Dot = 1
  MaxClients = 2
  DrmFaults = {"socket", "kms", "client", "kill"}
INVARIANTS
  DrmTypeOK
  SurfaceIsBacked
  CardsAreReturned
  PixelsStayInBuffer
PROPERTIES
  ImplementsDisplayLease
  ReleaseIsServed
  AcquireEnds
