--------------------------- MODULE MCUserStream ---------------------------
(* Instances of UserStream: frames as the exchange sends them, an ack alone, *)
(* a fill alone, a fill between an ack and a cancel, two fills at once.       *)
EXTENDS UserStream

MCFrames ==
  {<<"ack">>, <<"fill">>, <<"ack", "fill", "cancel">>, <<"fill", "fill">>, <<"other", "fill">>}
=============================================================================
