------------------------------ MODULE MCStream ------------------------------
\* The streams of every handler, for TLC
EXTENDS Stream, Handlers

\* The handlers that delete the item that failed from the map
DeletingHandlers == {h \in AllHandlers : h.how.failed # "keep"}
=============================================================================
