--------------------------- MODULE MCExchangeInfo ---------------------------
(* Two perpetuals, one of them deployed while the service runs, and two     *)
(* clients.                                                                 *)
EXTENDS ExchangeInfoCache
=============================================================================
