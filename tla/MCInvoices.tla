----------------------------- MODULE MCInvoices -----------------------------
(* A small instance of Invoices. *)
EXTENDS Invoices

MCConfigured == <<"tether", None>>
=============================================================================
