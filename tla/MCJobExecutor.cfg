SPECIFICATION JobSpec
CONSTANT StepCount = 2
INVARIANT FinishedJobIsRight
PROPERTY StepsAsConditioned
