----------------------------- MODULE MCSessions ------------------------------
EXTENDS Sessions
=============================================================================
