----------------------------- MODULE MCSdeFence -----------------------------
\* SdeFence for TLC: two fence objects, so that one is used again while the other is open.
EXTENDS SdeFence

CONSTANTS f1, f2

MCFence == {f1, f2}
=============================================================================
