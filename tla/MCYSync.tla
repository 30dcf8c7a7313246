------------------------------ MODULE MCYSync ------------------------------
EXTENDS YSync
=============================================================================
