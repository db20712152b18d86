------------------------------- MODULE MCStores -------------------------------
EXTENDS Stores
=============================================================================
