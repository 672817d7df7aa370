SPECIFICATION Spec
CONSTANTS
  os_thread_count = 2
  Tasks <- ThreeTasks
  Programs <- Programs3
  Root = main
  Yield = Yield
  main = main
  t1 = t1
  t2 = t2
  t3 = t3
INVARIANT
  SchedulerIdIsExecutor
CHECK_DEADLOCK TRUE
