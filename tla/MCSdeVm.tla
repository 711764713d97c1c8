------------------------------- MODULE MCSdeVm -------------------------------
\* SdeVm for TLC: everything may fail; the bounds are given by the configuration.
EXTENDS SdeVm

MCFault == FaultKinds
=============================================================================
