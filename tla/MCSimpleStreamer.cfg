SPECIFICATION StreamerSpec
CONSTANTS
  a1 = a1
  a2 = a2
  Apps = {a1, a2}
  Arguments <- MCArguments
  MaxFinished <- MCMaxFinished
  MaxQueueSize = 2
  FrameIndexSpan = 8
CHECK_DEADLOCK FALSE
 
PROPERTY NobodyHangs
