\* One browser that may sign in twice, nothing failing.
SPECIFICATION FairSpec
CONSTANTS
  admin = admin
  student = student
  successor = successor
  outsider = outsider
  Accounts = {admin, student, successor}
  EmailOf <- MCEmailOf
  Hosted = {admin, student, successor}
  CollegeEmails = {admin, student}
  Seeded = {admin}
  Browsers = {b1}
  Logins = {l1, l2}
  Calls = {c1, c2}
  Nobody = nobody
  TTL = 1
  Slack = 0
  Faults = {}
INVARIANT OnlyKnownRefusals
PROPERTY BannedEventuallyOut
PROPERTY ImplementsAdmission
