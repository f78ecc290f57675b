------------------------------ MODULE MCIdentity ------------------------------
EXTENDS Identity

\* Two dials whose models have the same receiver number.
DialsOfDevo == [dial \in Dials |-> [protocol |-> "DEVO", RX_num |-> 0]]
=============================================================================
