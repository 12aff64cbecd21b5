--------------------------- MODULE MCXdpFirewall ---------------------------
EXTENDS XdpFirewall

\* Every type of rule, for any protocol up to port 1, and for the ports from
\* 1 to 2 of one protocol.
MCRules ==
  {[type |-> t, proto |-> m.proto, lower |-> m.lower, upper |-> m.upper] :
     t \in RuleTypes,
     m \in {[proto |-> ANY, lower |-> ANY, upper |-> 1],
            [proto |-> 6, lower |-> 1, upper |-> 2]}}

MCSpec == InitWith(MCRules) /\ [][Next]_vars

MCFairSpec == MCSpec /\ WF_vars(Turn)
=============================================================================
