-------------------------- MODULE MCWsParasitifer --------------------------
(* Parasitifer with up to three addresses, of which conn_count_ or the      *)
(* address family leave at most two to connect to.                          *)
EXTENDS WsParasitifer

MCConns == 1..3
MCResolved ==
  {<<"v4", "v6", "v4">>, <<"v6", "v4", "v4">>, <<"v4", "v4", "v4">>}
=============================================================================
