---------------------------- MODULE MCLlmStream ----------------------------
(* Model-checking instance of LlmStream: a message with every kind of      *)
(* block and two tool calls (the second takes no arguments), one whose     *)
(* arguments max_tokens cut off, and one that has nothing but text.        *)
EXTENDS LlmStream

TwoCalls ==
  [thinking |-> <<"h1">>, text |-> <<"t1">>,
   tools |-> <<[id |-> "c1", args |-> <<"{", "a", "}">>], [id |-> "c2", args |-> <<>>]>>,
   finish |-> "tool_calls"]
CutOff ==
  [thinking |-> <<"h1">>, text |-> <<>>,
   tools |-> <<[id |-> "c1", args |-> <<"{", "a">>]>>, finish |-> "length"]
JustText ==
  [thinking |-> <<>>, text |-> <<"t1", "nl", "t2">>, tools |-> <<>>, finish |-> "stop"]

MCShort == {CutOff, JustText}
=============================================================================
