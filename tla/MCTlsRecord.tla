---------------------------- MODULE MCTlsRecord ----------------------------
\* Limits of one or two, so that every limit is met.
EXTENDS TlsRecord
=============================================================================
