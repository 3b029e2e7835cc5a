----------------------------- MODULE MCIdeChannel -----------------------------
\* A channel with small drives, for TLC.
EXTENDS IdeChannel, TLC

CONSTANTS t1, t2
=============================================================================
