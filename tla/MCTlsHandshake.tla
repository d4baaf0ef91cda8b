--------------------------- MODULE MCTlsHandshake ---------------------------
\* Two pool keys: options that offer both versions, and TLS 1.3 alone.
EXTENDS TlsHandshake

OfferOfKey == [k \in Keys |-> [both |-> {12, 13}, modern |-> {13}][k]]
=============================================================================
