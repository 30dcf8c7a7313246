----------------------------- MODULE MCChunking -----------------------------
EXTENDS Chunking
=============================================================================
