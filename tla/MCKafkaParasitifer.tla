------------------------- MODULE MCKafkaParasitifer -------------------------
(* Results with usable addresses in front of, behind and at the limit.      *)
EXTENDS KafkaParasitifer

MCResolved ==
  {<<"v4", "v4">>, <<"v6", "v4", "v4">>, <<"refused", "v6", "v4">>}
=============================================================================
