----------------------------- MODULE MCLifecycle -----------------------------
EXTENDS LifecycleProps
=============================================================================
