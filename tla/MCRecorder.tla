----------------------------- MODULE MCRecorder -----------------------------
EXTENDS Recorder

\* Two shards at most: each way to spread the tokens over them.
MCHashes == 0 .. 1
=============================================================================
