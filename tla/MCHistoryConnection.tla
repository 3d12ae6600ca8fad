------------------------ MODULE MCHistoryConnection ------------------------
EXTENDS HistoryConnection
=============================================================================
