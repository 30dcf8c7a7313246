---------------------------- MODULE MCYAwareness ----------------------------
EXTENDS YAwareness
=============================================================================
