---------------------------- MODULE MCBufferMutex ----------------------------
\* The pool on a small instance, without symmetry: it checks liveness.
EXTENDS BufferMutex
=============================================================================
