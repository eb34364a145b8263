------------------------------- MODULE MCLiveTts -------------------------------
(* Model-checking instance of LiveTts. *)
EXTENDS LiveTts

(* Streams with deltas, without, with an acknowledgement, without an end,  *)
(* and with the answer of an action behind the core's final event.         *)
MCStreams ==
    { <<"delta", "delta", "done">>,
      <<"ack", "done", "done">>,
      <<"ack", "delta", "other", "delta", "done", "done">>,
      <<"delta", "other">>,
      <<"delta", "done", "other", "delta", "done">> }
===============================================================================
