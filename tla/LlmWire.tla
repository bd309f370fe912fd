------------------------------- MODULE LlmWire -------------------------------
(***************************************************************************)
(* The wire format of src/llm/openai.rs: how a request's conversation      *)
(* becomes the messages array, how an assistant message of the provider    *)
(* becomes content blocks, and back.                                       *)
(*                                                                         *)
(* A text is a sequence of fragments.  The provider's message is a record  *)
(*   [thinking, text : Seq(fragment),                                      *)
(*    tools : Seq([id, args : Seq(fragment)]), finish : STRING]            *)
(* where an empty text stands for an empty string or an absent field.      *)
(***************************************************************************)
EXTENDS Naturals, Sequences, SequencesExt

TextBlock(s) == [type |-> "text", text |-> s]
ThinkingBlock(s) == [type |-> "thinking", thinking |-> s]
ToolUse(id, input) == [type |-> "tool_use", id |-> id, input |-> input]

TextItem(s) == [type |-> "text", text |-> s]
ImageItem == [type |-> "image"]
ToolResult(id, s) == [type |-> "tool_result", tool_use_id |-> id, content |-> s]

User(items) == [role |-> "user", content |-> items]
Assistant(blocks) == [role |-> "assistant", content |-> blocks]
System(s) == [role |-> "system", content |-> s]

-----------------------------------------------------------------------------
(* From the provider                                                       *)

(* The arguments of a tool call are JSON from the brace that opens them to *)
(* the one that closes them.                                               *)
IsJson(args) ==
  /\ Len(args) >= 2 /\ args[1] = "{" /\ args[Len(args)] = "}"
  /\ \A k \in 2..(Len(args) - 1) : args[k] \notin {"{", "}"}

(* serde_json::from_str(args).unwrap_or({})                                *)
ParseArgs(args) == IF IsJson(args) THEN args ELSE <<"{", "}">>

ParseFinish(reason) ==
  CASE reason = "stop" -> "EndTurn"
    [] reason = "length" -> "MaxTokens"
    [] reason = "tool_calls" -> "ToolUse"
    [] OTHER -> "Other"

Unless(empty, block) == IF empty THEN <<>> ELSE <<block>>

(* parse_response_body: thinking, then text, then the tool calls.          *)
ParseContent(m) ==
  Unless(m.thinking = <<>>, ThinkingBlock(m.thinking))
    \o Unless(m.text = <<>>, TextBlock(m.text))
    \o [k \in DOMAIN m.tools |-> ToolUse(m.tools[k].id, ParseArgs(m.tools[k].args))]

-----------------------------------------------------------------------------
(* To the provider                                                         *)

OfType(items, type) ==
  LET kept[n \in 0..Len(items)] ==
        IF n = 0 THEN <<>> ELSE kept[n - 1] \o Unless(items[n].type # type, items[n])
  IN kept[Len(items)]

(* parts.join("\n")                                                        *)
Join(parts) ==
  FlattenSeq([k \in DOMAIN parts |-> IF k = 1 THEN parts[1] ELSE <<"nl">> \o parts[k]])

(* One user message with the texts (an image is a text that names it),     *)
(* then one tool message per result; is_error is not sent.                 *)
SerializeUser(items) ==
  LET texts == SelectSeq(items, LAMBDA b : b.type \in {"text", "image"})
      parts == [k \in DOMAIN texts |->
                  IF texts[k].type = "text" THEN texts[k].text ELSE <<"[image]">>]
      results == OfType(items, "tool_result") IN
    Unless(parts = <<>>, [role |-> "user", content |-> Join(parts)])
      \o [k \in DOMAIN results |->
            [role |-> "tool", id |-> results[k].tool_use_id, content |-> results[k].content]]

(* Texts are joined, thinking is left out, tool calls are kept in order;   *)
(* empty content and an empty list of calls are not sent.                  *)
SerializeAssistant(blocks) ==
  LET texts == OfType(blocks, "text")
      calls == OfType(blocks, "tool_use") IN
    [role |-> "assistant",
     content |-> Join([k \in DOMAIN texts |-> texts[k].text]),
     tool_calls |-> [k \in DOMAIN calls |-> [id |-> calls[k].id, args |-> calls[k].input]]]

(* The messages array of build_request_body.                               *)
BuildMessages(system, messages) ==
  <<System(system)>> \o FlattenSeq([k \in DOMAIN messages |->
    CASE messages[k].role = "system" -> <<messages[k]>>
      [] messages[k].role = "user" -> SerializeUser(messages[k].content)
      [] messages[k].role = "assistant" -> <<SerializeAssistant(messages[k].content)>>])
=============================================================================
