---------------------------- MODULE MCEmbedDaemon ----------------------------
EXTENDS EmbedDaemon
CONSTANTS h1, h2, x1, x2, d1, d2, d3
=============================================================================
