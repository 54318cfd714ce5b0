---------------------------- MODULE MCTimePolicy ----------------------------
EXTENDS TimePolicy

\* An administrator ends the access early or extends it.
ShortLong == {301, 451}
OneEnd == {301}
\* A reset within reach of the last minute.
EarlyReset == {91}
=============================================================================
