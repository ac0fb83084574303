\* Nothing fails: two requests at once strip a live row of its object.
SPECIFICATION Spec
CONSTANTS
  Uploads = {u1, u2}
  Contents = {pdf}
  Titles = {plain}
  BadTitles = {}
  BadTexts = {}
  Refused <- MCRefused
  Courses = {ds}
  Flags = {f1}
  Moderations = {d1}
  None = none
  Faults = {}
INVARIANT LiveIsFetchable
\* Every request may have been answered.
CHECK_DEADLOCK FALSE
