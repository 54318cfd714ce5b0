SPECIFICATION FairRecSpec
CONSTANT Callers = {answer, window}
INVARIANT TypeOK
INVARIANT SingleWriter
INVARIANT SignalMeansFinal
PROPERTY StopReturns
PROPERTY Drains
PROPERTY ImplementsRecording
