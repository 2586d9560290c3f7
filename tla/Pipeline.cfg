SPECIFICATION Spec
CONSTANTS
  Shapes <- TwoStages
  Yields <- MaybeThenMany
  Faulty = {2}
  MaxValues = 3
  MaxCancels = 1
INVARIANTS PipelineInv
PROPERTIES Progress
\* every worker has ended at last
CHECK_DEADLOCK FALSE
