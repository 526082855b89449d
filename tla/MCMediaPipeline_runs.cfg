SPECIFICATION Spec
CONSTANTS
  a1 = a1
  a2 = a2
  Article = {a1, a2}
  Threshold = 1
  PageSize = 1
  MaxEdit = 2
  MaxRelease = 2
  MaxDay = 2
  MaxVersion = 3
  Sources <- MCSources
INVARIANT NothingForgotten
PROPERTIES SuccessIsComplete TodoLeavesByCore NeverBackwards EvidenceMatches
