--------------------------- MODULE MCOfflineUpgrade ---------------------------
EXTENDS OfflineUpgrade
=============================================================================
