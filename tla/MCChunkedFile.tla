--------------------------- MODULE MCChunkedFile ---------------------------
\* Files of up to three bytes, integers of four bits.
EXTENDS ChunkedFile

MCSealing == <<99>>
=============================================================================
