--------------------------- MODULE MCReplyBurst ---------------------------
\* ReplyBurst for TLC: its bounds are the constants of the configurations.
EXTENDS ReplyBurst

=============================================================================
