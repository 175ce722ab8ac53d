--------------------------- MODULE MCSupervisedRun ---------------------------
\* One run of two attempts, with every kind of parser and one file.
EXTENDS SupervisedRun
=============================================================================
