\* A role taken away in the database.
SPECIFICATION Spec
CONSTANTS
  admin = admin
  student = student
  successor = successor
  outsider = outsider
  Accounts = {admin}
  EmailOf <- MCEmailOf
  Hosted = {admin}
  CollegeEmails = {admin}
  Seeded = {admin}
  Browsers = {b1}
  Logins = {l1}
  Calls = {c1}
  Nobody = nobody
  TTL = 2
  Slack = 0
  Faults = {}
INVARIANT AdminGateIsCurrent
