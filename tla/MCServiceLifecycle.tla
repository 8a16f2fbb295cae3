------------------------- MODULE MCServiceLifecycle -------------------------
EXTENDS ServiceLifecycle
=============================================================================
