------------------------------ MODULE MCScifRb ------------------------------
EXTENDS ScifRb
=============================================================================
