------------------------------ MODULE MCReader ------------------------------
(* Constants of the reader's TLC instance.                                  *)
EXTENDS MqttReader

Plain(n) == [from |-> n, topic |-> 1, valid |-> TRUE, odd |-> FALSE, lock |-> "plain"]

\* In the clear, on the second topic under another key, from a node that is left
\* out, without payload, with a gateway that is no number, and no envelope at all.
MCMessages ==
  {Plain("n1"), Plain("n2"), [Plain("n1") EXCEPT !.lock = "empty"],
   [Plain("n1") EXCEPT !.odd = TRUE],
   [Plain("n1") EXCEPT !.lock = "primary"],
   [Plain("n1") EXCEPT !.topic = 2, !.lock = "k1"],
   [Plain("n1") EXCEPT !.lock = "unknown"], [Plain("n1") EXCEPT !.valid = FALSE]}

\* None; a good key; one that is no base64 and one too short before a good one.
MCKeyConfigs == {<<>>, <<"k1">>, <<"junk", "short", "k1">>}
MCSkipConfigs == {{"n2", "junk"}}
=============================================================================
