SPECIFICATION FairSpec
INVARIANT NoExecutionInDebugMode
PROPERTY DebugSignalsAlternate StopTerminates
