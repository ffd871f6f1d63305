CONSTANTS
  NumFuncs = 3
  kPlaceholderMarker = 1000000000
  CallSiteSeqs <- MCCallSiteSeqs

SPECIFICATION Spec

INVARIANT TypeOK
INVARIANT LinkResolvesCalls
PROPERTY ImplementsDirectCallBinding
