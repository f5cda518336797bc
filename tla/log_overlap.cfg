CONSTANTS
  k1 = k1
  k2 = k2
  k3 = k3
  k4 = k4
  task = task
  main_task = main_task
  Kids <- MCKids
  Tasks <- MCTasks
  TaskOf <- MCTaskOf
  Streamed = {}
  MainTask = main_task
  Main = Main
  HasMain = FALSE
  Console = Console
  Host = Host
  None = None
SPECIFICATION Spec
INVARIANTS PrintsAreCaptured
