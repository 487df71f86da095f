-------------------------- MODULE MCInvoiceMonitor ---------------------------
(* The instances of MCInvoicePipeline with the monitors of its workers.     *)
EXTENDS MCInvoicePipeline, InvoiceMonitor
=============================================================================
