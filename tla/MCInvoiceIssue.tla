--------------------------- MODULE MCInvoiceIssue ----------------------------
(* Two processes issue the invoice, one edits it.                            *)
EXTENDS InvoiceIssue, TLC

CONSTANTS i1, i2, u1

MCIssuers == {i1, i2}
MCEditors == {u1}
Symmetry == Permutations(MCIssuers)
==============================================================================
