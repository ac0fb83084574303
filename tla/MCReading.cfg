\* Two uploads, two moderation requests and a reader; the database and the bucket
\* work, the process may stop, and a link may not be signed.
SPECIFICATION FairReadingSpec
CONSTANTS
  Uploads = {u1, u2}
  Contents = {pdf, scan}
  Titles = {plain, garbled}
  BadTitles = {garbled}
  BadTexts = {scan}
  Refused <- MCRefused
  Courses = {ds, os}
  Flags = {f1}
  Moderations = {d1, d2}
  Readers = {r1}
  None = none
  Faults = {"sign", "crash"}
INVARIANT OnlyRacesReach500
INVARIANT ResolvedMeansGone
INVARIANT FlagsAccounted
INVARIANT CoursesAccounted
INVARIANT OrphanAccounted
INVARIANT MissExplained
PROPERTY LinkDies
PROPERTY SettlesBacked
\* Every request may have been answered.
CHECK_DEADLOCK FALSE
