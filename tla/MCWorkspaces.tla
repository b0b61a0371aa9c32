---------------------------- MODULE MCWorkspaces ----------------------------
EXTENDS Workspaces
CONSTANTS w, none, q1, q2
Symmetry == Permutations({q1, q2})
=============================================================================
