SPECIFICATION Spec
CONSTANTS
  Links = {"t0", "t1"}
  Requesters = {"t0", "t1", "far"}
  Link <- MCLink
  Dram = {"d1", "d2"}
  Sram = {"s1", "s2", "s3", "s4"}
  Programs <- MCPrograms
  LinkDepth = 1
  ColDepth = 1
  PendingDepth = 2
  CmdDepth = 1
  MaxInflight = 2
  Lines = 2
INVARIANTS
  HeldOnce
  AnswersAreTrue
  IdleIsAnswered
PROPERTIES
  AllAnswered
CHECK_DEADLOCK FALSE
