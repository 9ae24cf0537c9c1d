SPECIFICATION Spec
CONSTANT Conns = {k1, k2}
PROPERTY ExistingTasksFinish
CHECK_DEADLOCK FALSE
