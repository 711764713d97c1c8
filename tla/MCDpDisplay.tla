---- MODULE MCDpDisplay ----
\* DpDisplay for TLC: the bounds are given by the configurations.
EXTENDS DpDisplay
====
