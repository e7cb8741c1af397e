----------------------------- MODULE MCFlusher -----------------------------
EXTENDS Flusher

MCFiles == 1 .. 2
=============================================================================
