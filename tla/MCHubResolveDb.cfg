\* A database error in GetFileKey passes for a material that is gone.
SPECIFICATION Spec
CONSTANTS
  Uploads = {u1}
  Contents = {pdf}
  Titles = {plain}
  BadTitles = {}
  BadTexts = {}
  Refused <- MCRefused
  Courses = {ds}
  Flags = {f1}
  Moderations = {d1}
  None = none
  Faults = {"db"}
INVARIANT ResolvedMeansGone
\* Every request may have been answered.
CHECK_DEADLOCK FALSE
