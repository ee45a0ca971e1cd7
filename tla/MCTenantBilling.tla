--------------------------- MODULE MCTenantBilling ---------------------------
(* TenantBilling for TLC: requests are interchangeable.                    *)
EXTENDS TenantBilling, TLC

Symmetry == Permutations(Requests)
=============================================================================
