-------------------------- MODULE MCPerformanceTest --------------------------
EXTENDS PerformanceTest

\* Absent, empty, some, and a negative one that the program accepts.
MCPacketNums == {-2, -1, 0, 1, 3}

=============================================================================
