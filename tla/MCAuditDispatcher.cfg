SPECIFICATION FairSpec
CONSTANTS
  Callers = {c1, c2}
  Writer = writer
  Severities <- ThreeSeverities
  MaxSize = 2
  MaxEvents = 3
CHECK_DEADLOCK FALSE
INVARIANTS Conservation PendingExact AnswerKept NoLostWakeup
PROPERTIES QueueDiscipline EverythingSettles
