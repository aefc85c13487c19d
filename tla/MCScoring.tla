------------------------------ MODULE MCScoring ------------------------------
EXTENDS Scoring

MCStakes == {1, 2, 3, 7, 25, 50}
MCPriors == {0, 15, 30, 50, 77, 100}
MCProbabilities == {0, 1, 10, 15, 30, 31, 45, 50, 69, 85, 99, 100}
MCEarned == {10000, 10700, 50000, 99000, 100000}
=============================================================================
