\* Nothing fails: the text layer of a PDF decides whether it is accepted.
SPECIFICATION Spec
CONSTANTS
  Uploads = {u1}
  Contents = {pdf, scan}
  Titles = {plain, garbled}
  BadTitles = {garbled}
  BadTexts = {scan}
  Refused <- MCRefused
  Courses = {ds}
  Flags = {f1}
  Moderations = {d1}
  None = none
  Faults = {}
INVARIANT TextNeverFailsUpload
\* Every request may have been answered.
CHECK_DEADLOCK FALSE
