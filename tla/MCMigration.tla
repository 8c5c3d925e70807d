----------------------------- MODULE MCMigration -----------------------------
EXTENDS Migration
CONSTANTS A, X, C1, C2
AllAgents == {A, X}
AllNames == <<A, X>>
AllCards == <<C1, C2>>
==============================================================================
