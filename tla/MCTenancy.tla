----------------------------- MODULE MCTenancy -----------------------------
EXTENDS Tenancy

MCConfig == {[users |-> User, roles |-> {"admin"}, bind |-> TRUE, limit |-> 1]}

=============================================================================
