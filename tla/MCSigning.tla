----------------------------- MODULE MCSigning -----------------------------
EXTENDS Signing
CONSTANTS s1, s2, r1, r2, m1, m2
=============================================================================
