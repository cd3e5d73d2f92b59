\* Two streams of one user, one of another, and a sign-out.
SPECIFICATION FairSpec
CONSTANTS
  u1 = u1
  u2 = u2
  s1 = s1
  s2 = s2
  s3 = s3
  b1 = b1
  Users = {u1, u2}
  Streams = {s1, s2, s3}
  SignOuts = {b1}
  Run = Run
  UserOf <- Owners
  None = None
PROPERTY BlockingSendEnds
CHECK_DEADLOCK FALSE
