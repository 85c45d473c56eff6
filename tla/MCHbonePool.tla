---------------------------- MODULE MCHbonePool ----------------------------
\* HbonePool for TLC: two keys that collide in one hash.
EXTENDS HbonePool

CONSTANT h1

MCHashOf == [k \in Keys |-> h1]
=============================================================================
