-------------------------- MODULE MCReconciliation -------------------------
EXTENDS Reconciliation

CONSTANTS s1, s2, w1, w2, g1, g2, m1, j1, j2

============================================================================
