\* Two sessions and one worker of the emitter: reruns, cancelled and abandoned jobs.
SPECIFICATION Spec
CONSTANTS
  Jobs <- Two
  Needs <- Chain
  IfJobs = {}
  Results = {"success"}
  Sessions = {s1, s2}
  Emitters = {e1}
  Events = {"cancel", "abandon"}
  MaxTasks = 2
  MaxReruns = 1
SYMMETRY Symmetry
INVARIANTS RunAgrees OneTask StartsAfterNeeds
CHECK_DEADLOCK FALSE
