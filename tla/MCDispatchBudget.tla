-------------------------- MODULE MCDispatchBudget --------------------------
\* Small instances of DispatchBudget for TLC; the cfg files give the constants.
EXTENDS DispatchBudget
=============================================================================
