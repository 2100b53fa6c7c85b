---------------------------- MODULE MCLspClient ----------------------------
EXTENDS LspClient

MCBatchSize == <<2, 1>>
MCMinima == <<{Null, Part}, {Null}>>
=============================================================================
