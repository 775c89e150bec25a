SPECIFICATION Spec
CONSTANTS
  u1 = u1
  u2 = u2
  URLs <- TwoURLs
  Sources <- Download
  MaxIncarnations = 1
  MaxDisturbances = 1
INVARIANT ImportedFromURL
