\* Three uploads of one file, two deletions, everything may fail.
SPECIFICATION Spec
CONSTANTS
  Uploads = {u1, u2, u3}
  Contents = {pdf}
  Titles = {plain, garbled}
  BadTitles = {garbled}
  BadTexts = {}
  Refused <- MCRefused
  Courses = {ds}
  Flags = {f1}
  Moderations = {d1, d2}
  None = none
  Faults = {"db", "store", "disk", "crash"}
SYMMETRY Symmetry
INVARIANT HubInv
INVARIANT UniqueContent
INVARIANT Backed
INVARIANT RejectedMeansGone
INVARIANT ResolvedNotOpen
PROPERTY StatusMoves
PROPERTY ImplementsCatalogue
\* Every request may have been answered.
CHECK_DEADLOCK FALSE
