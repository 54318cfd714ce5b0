--------------------------- MODULE MCVideoCompact ---------------------------
EXTENDS VideoCompact
=============================================================================
