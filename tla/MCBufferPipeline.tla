-------------------------- MODULE MCBufferPipeline --------------------------
\* The pipeline on small instances: every .cfg says which jobs are registered.
\* No symmetry is used; most instances have one login, and the one that has two
\* checks liveness.
EXTENDS BufferPipeline
=============================================================================
