\* Two readers, two queries whose results differ, faults.
SPECIFICATION Spec
CONSTANTS
  m1 = m1
  m2 = m2
  os = os
  dbms = dbms
  text = text
  Materials = {m1, m2}
  Texts = {text}
  Courses = {os, dbms}
  Types = {"notes"}
  Unset = unset
  WordsOf <- MCWordsOf
  CourseOf <- MCCourseOf
  TypeOf <- MCTypeOf
  RankOf <- MCRankOf
  Asked <- BothQueries
  Readers = {r1, r2}
  ResultCap = 1
  TTL = 2
  Slack = 1
  Faults = {"db", "redis"}
SYMMETRY Symmetry
INVARIANT CacheInv
INVARIANT HonoursFilters
INVARIANT NeverUnapproved
