----------------------------- MODULE MCSseStream -----------------------------
(* Model-checking instance of SseStream.                                   *)
EXTENDS SseStream

\* Every body of up to six units, whatever sense it makes: "wide" is a
\* character of two bytes.
Units == {"nl", "data", "event", "x", "wide"}
InBytes(units) ==
  FlattenSeq([k \in DOMAIN units |->
    IF units[k] = "wide" THEN <<"hi", "lo">> ELSE <<units[k]>>])
MCBodies == {InBytes(units) : units \in SeqOf(Units, 6)}
=============================================================================
