SPECIFICATION FairSpec
CONSTANTS
  os_thread_count = 2
  Tasks <- FourTasks
  Programs <- Programs4
  Root = main
  Yield = Yield
  main = main
  t1 = t1
  t2 = t2
  t3 = t3
INVARIANTS
  RuntimeInv
  ResumedAfterSubTasks
  SubTasksOwned
  StopsWhenAllDone
  NothingLeftBehind
PROPERTIES
  NeverRevived
  Terminates
  ImplementsForkJoin
CHECK_DEADLOCK TRUE
