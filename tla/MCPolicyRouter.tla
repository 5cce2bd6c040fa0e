--------------------------- MODULE MCPolicyRouter ---------------------------
\* A small instance of PolicyRouter: see MCPolicyRouter.cfg.
EXTENDS PolicyRouter
=============================================================================
