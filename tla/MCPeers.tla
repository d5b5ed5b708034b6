------------------------------ MODULE MCPeers ------------------------------
EXTENDS Peers, TLC

CONSTANTS self, p, q, selfAt, pAt

MCNode == {self, p, q}
MCListen == (self :> selfAt) @@ (p :> pAt) @@ (q :> None)
\* The node does not know its own address, q does not listen.
MCDeclared == (self :> None) @@ (p :> pAt) @@ (q :> None)
MCKnownAtStart == {selfAt}
=============================================================================
