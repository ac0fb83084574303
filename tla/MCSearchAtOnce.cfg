\* A deletion does not reach the cache.
SPECIFICATION Spec
CONSTANTS
  m1 = m1
  m2 = m2
  os = os
  dbms = dbms
  text = text
  Materials = {m1, m2}
  Texts = {text}
  Courses = {os, dbms}
  Types = {"notes"}
  Unset = unset
  WordsOf <- MCWordsOf
  CourseOf <- MCCourseOf
  TypeOf <- MCTypeOf
  RankOf <- MCRankOf
  Asked <- WideOnly
  Readers = {r1}
  ResultCap = 1
  TTL = 2
  Slack = 0
  Faults = {}
PROPERTY WithdrawnAtOnce
