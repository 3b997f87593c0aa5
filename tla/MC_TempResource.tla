-------------------------- MODULE MC_TempResource --------------------------
EXTENDS TempResource
=============================================================================
