---------------------------- MODULE MCLlmCommand ----------------------------
(* LlmCommand with the messages of MCLlmStream and one of several lines    *)
(* that begins with spaces, inputs and limits of any kind.                 *)
EXTENDS LlmCommand, MCLlmStream

Indented ==
  [thinking |-> <<"h1", "nl">>, text |-> <<"nl", "sp", "t1", "nl", "sp", "t2">>, tools |-> <<>>,
   finish |-> "stop"]

MCMessages == {TwoCalls, CutOff, JustText, Indented}
=============================================================================
