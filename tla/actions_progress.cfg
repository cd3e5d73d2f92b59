\* One session and two workers of the emitter: jobs that fail, of which the
\* last has a condition, zombie tasks, a crash, an approval and lost pushes;
\* liveness, so no symmetry.
SPECIFICATION FairSpec
CONSTANTS
  Jobs <- Three
  Needs <- Line
  IfJobs = {3}
  Results = {"failure"}
  Sessions = {s1}
  Emitters = {e1, e2}
  Events = {"stop", "crash", "approve", "unqueued"}
  MaxTasks = 1
  MaxReruns = 1
PROPERTIES  BlockedResolved
CHECK_DEADLOCK FALSE
