\* A capture of up to two packets: none, some, or all of it has been copied when
\* something fails.
CONSTANT MaxPackets = 2
SPECIFICATION TraceSpec
INVARIANTS WholeCapture NothingLeft TruthfulSuccess Answered JointInv
PROPERTIES HandleReturns ProducerEnds
\* The command is finished.
CHECK_DEADLOCK FALSE
