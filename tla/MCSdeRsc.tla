------------------------------ MODULE MCSdeRsc ------------------------------
\* SdeRsc for TLC: old and new hardware, everything may fail.
EXTENDS SdeRsc

AllFaults == {"enable", "exit", "entry", "timeout"}
=============================================================================
