------------------------ MODULE MCMercadoPagoCheckout ------------------------
(* Small instances of MercadoPagoCheckout for TLC. *)
EXTENDS MercadoPagoCheckout, TLC

Processes == Permutations(Requests)
=============================================================================
