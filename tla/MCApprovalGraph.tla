-------------------------- MODULE MCApprovalGraph --------------------------
EXTENDS ApprovalGraph, TLC

\* Handlers are interchangeable.
HandlerSymmetry == Permutations(Handlers)
=============================================================================
