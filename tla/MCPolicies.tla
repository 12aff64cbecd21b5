------------------------------ MODULE MCPolicies ------------------------------
EXTENDS Policies
=============================================================================
