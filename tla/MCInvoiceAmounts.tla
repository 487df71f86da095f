-------------------------- MODULE MCInvoiceAmounts --------------------------
(* An instance of InvoiceAmounts: small prices and periods, for halves of a *)
(* cent, periods charged in part, in full or beyond their end, discounts    *)
(* below and above the charge, and rates whose taxes round up and down.     *)
EXTENDS InvoiceAmounts

MCPrices == {0, 1, 3, 5, 10}
MCDays == 0..5
MCPeriods == {1, 2, 4, 5}
=============================================================================
