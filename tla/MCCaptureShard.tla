--------------------------- MODULE MCCaptureShard ---------------------------
EXTENDS CaptureShard
=============================================================================
