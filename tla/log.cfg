CONSTANTS
  k1 = k1
  k2 = k2
  k3 = k3
  k4 = k4
  task = task
  main_task = main_task
  Kids <- MCNestedKids
  Tasks <- MCNestedTasks
  TaskOf <- MCNestedTaskOf
  Streamed <- MCNestedStreamed
  MainTask = main_task
  Main = Main
  HasMain = TRUE
  Console = Console
  Host = Host
  None = None
SPECIFICATION Spec
INVARIANTS TypeOK ExecutionsAreIsolated HostStreamsComeBack NoHandlerOutlivesItsInterceptor
