------------------------------ MODULE LlmStream ------------------------------
(***************************************************************************)
(* A streamed completion: the provider's event stream, the task that runs  *)
(* OpenAiClient::complete_stream (src/llm/openai.rs), the channel of       *)
(* StreamEvents it feeds, and the caller of src/bin/animus.rs that prints  *)
(* the deltas and then joins the task.  All four proceed concurrently.     *)
(*                                                                         *)
(* The provider sends its message fragment by fragment.  Reasoning, text   *)
(* and tool calls may alternate; the fragments of one kind come in order,  *)
(* tool calls one after the other.  The connection may end before [DONE].  *)
(***************************************************************************)
EXTENDS LlmWire

CONSTANTS
  Messages,   \* the messages the provider may have generated
  Hiccups     \* what may go wrong: refused, truncated, broken, noise

NoTool == ""

ASSUME HiccupsAssumption == Hiccups \subseteq {"refused", "truncated", "broken", "noise"}

(* A tool call has an id: an empty one stands for no call in the code.     *)
ASSUME MessagesAssumption ==
  Messages \subseteq
    [thinking : Seq(STRING), text : Seq(STRING),
     tools : Seq([id : STRING \ {NoTool}, args : Seq(STRING)]), finish : STRING]

VARIABLES
  message,   \* the provider's message
  left,      \* what of it has not been sent yet
  net,       \* events on their way to the client
  conn,      \* the response body: open, ended (cleanly) or broken
  client,    \* complete_stream: posting, reading, or what it returned
  thinking, text, tool, args,  \* current_thinking, ..., current_tool_args
  content,   \* content_blocks
  stop,      \* stop_reason
  chan,      \* StreamEvents sent and not yet received
  cli,       \* the caller: receiving, joining, succeeded or failed
  shown      \* full_text and full_thinking

server == <<message, left, net, conn>>
locals == <<thinking, text, tool, args, content, stop>>
caller == <<cli, shown>>
streamVars == <<server, client, locals, chan, caller>>

Event(kind, fragments) == [kind |-> kind, id |-> NoTool, fragments |-> fragments]
ToolEvent(id, fragments) == [kind |-> "tool", id |-> id, fragments |-> fragments]
Kinds == {"thinking", "text", "tool", "args", "finish", "noise", "done"}

StreamTypeOK ==
  /\ message \in Messages
  /\ \A k \in DOMAIN net : net[k].kind \in Kinds
  /\ conn \in {"open", "ended", "broken"}
  /\ client \in {"posting", "reading", "ok", "error"}
  /\ \A k \in DOMAIN chan : chan[k].kind \in Kinds \ {"finish", "noise"}
  /\ cli \in {"receiving", "joining", "succeeded", "failed"}
  /\ stop \in {"EndTurn", "MaxTokens", "ToolUse", "Other"}

StreamInit ==
  /\ message \in Messages
  /\ left = [thinking |-> message.thinking, text |-> message.text,
             tools |-> message.tools, args |-> <<>>, finish |-> TRUE,
             done |-> TRUE, noise |-> "noise" \in Hiccups]
  /\ net = <<>>
  /\ conn = "open"
  /\ client = "posting"
  /\ thinking = <<>> /\ text = <<>> /\ tool = NoTool /\ args = <<>>
  /\ content = <<>>
  /\ stop = "EndTurn"
  /\ chan = <<>>
  /\ cli = "receiving"
  /\ shown = [text |-> <<>>, thinking |-> <<>>]

-----------------------------------------------------------------------------
(* The provider                                                            *)

Serve(event) ==
  /\ client # "posting"
  /\ conn = "open"
  /\ net' = Append(net, event)
  /\ UNCHANGED <<message, conn, client, locals, chan, caller>>

SendThinking ==
  /\ left.thinking # <<>>
  /\ left' = [left EXCEPT !.thinking = Tail(@)]
  /\ Serve(Event("thinking", <<Head(left.thinking)>>))

SendText ==
  /\ left.text # <<>>
  /\ left' = [left EXCEPT !.text = Tail(@)]
  /\ Serve(Event("text", <<Head(left.text)>>))

(* A tool call starts, with its arguments to follow or in the same event.  *)
SendTool ==
  /\ left.tools # <<>> /\ left.args = <<>>
  /\ LET t == Head(left.tools) IN
       \/ /\ left' = [left EXCEPT !.tools = Tail(@), !.args = t.args]
          /\ Serve(ToolEvent(t.id, <<>>))
       \/ /\ left' = [left EXCEPT !.tools = Tail(@)]
          /\ Serve(ToolEvent(t.id, t.args))

SendArgs ==
  /\ left.args # <<>>
  /\ left' = [left EXCEPT !.args = Tail(@)]
  /\ Serve(Event("args", <<Head(left.args)>>))

Sent == left.thinking = <<>> /\ left.text = <<>> /\ left.tools = <<>> /\ left.args = <<>>

SendFinish ==
  /\ Sent /\ left.finish
  /\ left' = [left EXCEPT !.finish = FALSE]
  /\ Serve(Event("finish", <<>>))

SendDone ==
  /\ ~left.finish /\ left.done
  /\ left' = [left EXCEPT !.done = FALSE]
  /\ Serve(Event("done", <<>>))

(* An event whose data is not JSON.                                        *)
SendNoise ==
  /\ left.noise /\ left.done
  /\ left' = [left EXCEPT !.noise = FALSE]
  /\ Serve(Event("noise", <<>>))

(* The body ends after [DONE], or, when truncated, before it.              *)
EndBody ==
  /\ client # "posting" /\ conn = "open"
  /\ ~left.done \/ "truncated" \in Hiccups
  /\ conn' = "ended"
  /\ UNCHANGED <<message, left, net, client, locals, chan, caller>>

(* The connection breaks, with it any events still on their way.           *)
BreakBody ==
  /\ "broken" \in Hiccups
  /\ client # "posting" /\ conn = "open"
  /\ conn' = "broken"
  /\ \E k \in 0..Len(net) : net' = SubSeq(net, 1, k)
  /\ UNCHANGED <<message, left, client, locals, chan, caller>>

Provider ==
  SendThinking \/ SendText \/ SendTool \/ SendArgs \/ SendFinish \/ SendDone
    \/ SendNoise \/ EndBody \/ BreakBody

-----------------------------------------------------------------------------
(* complete_stream                                                         *)

PostAccepted ==
  /\ client = "posting"
  /\ client' = "reading"
  /\ UNCHANGED <<server, locals, chan, caller>>

(* Transport error, 429 or another status: no retry.                       *)
PostRefused ==
  /\ "refused" \in Hiccups
  /\ client = "posting"
  /\ client' = "error"
  /\ UNCHANGED <<server, locals, chan, caller>>

Read(kind) ==
  /\ client = "reading"
  /\ net # <<>> /\ Head(net).kind = kind
  /\ net' = Tail(net)
  /\ UNCHANGED <<message, left, conn, client, caller>>

Tell(event) == chan' = Append(chan, event)

ReadThinking ==
  /\ Read("thinking")
  /\ thinking' = thinking \o Head(net).fragments
  /\ Tell(Head(net))
  /\ UNCHANGED <<text, tool, args, content, stop>>

ReadText ==
  /\ Read("text")
  /\ text' = text \o Head(net).fragments
  /\ Tell(Head(net))
  /\ UNCHANGED <<thinking, tool, args, content, stop>>

PendingTool == Unless(tool = NoTool, ToolUse(tool, ParseArgs(args)))

(* Mutant: the arguments of the previous call are not cleared.             *)
MutReadTool ==
  /\ Read("tool")
  /\ content' = content \o PendingTool
  /\ tool' = Head(net).id
  /\ args' = args \o Head(net).fragments
  /\ Tell(Head(net))
  /\ UNCHANGED <<thinking, text, stop>>

(* A tool call with an id flushes the one before it.  The arguments that   *)
(* come with it are told as an event of their own.                         *)
ReadTool ==
  /\ Read("tool")
  /\ content' = content \o PendingTool
  /\ tool' = Head(net).id
  /\ args' = (IF tool = NoTool THEN args ELSE <<>>) \o Head(net).fragments
  /\ chan' = chan \o <<ToolEvent(Head(net).id, <<>>)>>
                  \o Unless(Head(net).fragments = <<>>, Event("args", Head(net).fragments))
  /\ UNCHANGED <<thinking, text, stop>>

ReadArgs ==
  /\ Read("args")
  /\ args' = args \o Head(net).fragments
  /\ Tell(Head(net))
  /\ UNCHANGED <<thinking, text, tool, content, stop>>

(* Mutant: the provider's word is taken over as it is.                     *)
MutReadFinish ==
  /\ Read("finish")
  /\ stop' = message.finish
  /\ UNCHANGED <<thinking, text, tool, args, content, chan>>

ReadFinish ==
  /\ Read("finish")
  /\ stop' = ParseFinish(message.finish)
  /\ UNCHANGED <<thinking, text, tool, args, content, chan>>

ReadNoise ==
  /\ Read("noise")
  /\ UNCHANGED <<locals, chan>>

(* [DONE] flushes thinking, text and the last tool call.  The break leaves *)
(* the loop over the events of one chunk only: reading goes on.            *)
ReadDone ==
  /\ Read("done")
  /\ content' = content \o Unless(thinking = <<>>, ThinkingBlock(thinking))
                        \o Unless(text = <<>>, TextBlock(text)) \o PendingTool
  /\ thinking' = <<>> /\ text' = <<>> /\ tool' = NoTool
  /\ args' = IF tool = NoTool THEN args ELSE <<>>
  /\ Tell(Head(net))
  /\ UNCHANGED stop

(* The stream yields None, or an error that `?` returns.  Either way the   *)
(* task ends and drops the sender.                                         *)
ClientReturns ==
  /\ client = "reading" /\ net = <<>> /\ conn # "open"
  /\ client' = IF conn = "ended" THEN "ok" ELSE "error"
  /\ UNCHANGED <<server, locals, chan, caller>>

Client ==
  PostAccepted \/ PostRefused \/ ReadThinking \/ ReadText \/ ReadTool \/ ReadArgs
    \/ ReadFinish \/ ReadNoise \/ ReadDone \/ ClientReturns

-----------------------------------------------------------------------------
(* The caller                                                              *)

Receive ==
  /\ cli = "receiving" /\ chan # <<>>
  /\ LET e == Head(chan) IN
       /\ cli' = IF e.kind = "done" THEN "joining" ELSE cli
       /\ shown' = CASE e.kind = "text" -> [shown EXCEPT !.text = @ \o e.fragments]
                     [] e.kind = "thinking" -> [shown EXCEPT !.thinking = @ \o e.fragments]
                     [] OTHER -> shown
  /\ chan' = Tail(chan)
  /\ UNCHANGED <<server, client, locals>>

(* Mutant: the loop ends with the task, whatever the channel still holds.  *)
MutReceiveNoneEarly ==
  /\ cli = "receiving" /\ client \in {"ok", "error"}
  /\ cli' = "joining"
  /\ UNCHANGED <<server, client, locals, chan, shown>>

(* Mutant: only Done ends the loop.                                        *)
MutReceiveNoneNever ==
  /\ FALSE /\ cli = "receiving"
  /\ UNCHANGED streamVars

(* recv returns None: the channel is empty and its sender was dropped.     *)
ReceiveNone ==
  /\ cli = "receiving" /\ chan = <<>> /\ client \in {"ok", "error"}
  /\ cli' = "joining"
  /\ UNCHANGED <<server, client, locals, chan, shown>>

JoinTask ==
  /\ cli = "joining" /\ client \in {"ok", "error"}
  /\ cli' = IF client = "ok" THEN "succeeded" ELSE "failed"
  /\ UNCHANGED <<server, client, locals, chan, shown>>

Caller == Receive \/ ReceiveNone \/ JoinTask

-----------------------------------------------------------------------------

StreamNext == Provider \/ Client \/ Caller

StreamSpec == StreamInit /\ [][StreamNext]_streamVars

-----------------------------------------------------------------------------
(* Properties                                                              *)

Complete == client = "ok" /\ ~left.done

(* What the user has been shown is a prefix of what the provider           *)
(* generated, and all of it once a complete stream has been joined: the    *)
(* race between the last deltas and the end of the task loses nothing.     *)
ShownInOrder ==
  /\ IsPrefix(shown.text, message.text)
  /\ IsPrefix(shown.thinking, message.thinking)
  /\ cli = "succeeded" /\ ~left.done =>
       shown = [text |-> message.text, thinking |-> message.thinking]

(* The conversation that follows: the turn, then the result of each call.  *)
Conversation(blocks) ==
  LET calls == OfType(blocks, "tool_use") IN
    <<User(<<TextItem(<<"task">>)>>), Assistant(blocks),
      User([k \in DOMAIN calls |-> ToolResult(calls[k].id, calls[k].input)])>>

(* Streamed or not, a turn is the same to the provider in the next request *)
(* (llm.md: one call "gets back exactly what it needs").  The blocks may   *)
(* differ in order: complete_stream puts every tool call but the last      *)
(* before the thinking and the text.                                       *)
NextRequestIsSame ==
  Complete =>
    /\ BuildMessages(<<>>, Conversation(content))
         = BuildMessages(<<>>, Conversation(ParseContent(message)))
    /\ stop = ParseFinish(message.finish)

(* The comment on complete_stream says that it returns the final           *)
(* aggregated response once the stream ends: what it told the caller is in *)
(* the response it returns.                                                *)
TextOf(events) ==
  FlattenSeq([k \in DOMAIN events |-> IF events[k].kind = "text"
                                      THEN events[k].fragments ELSE <<>>])
ResponseAggregates ==
  client = "ok" =>
    SerializeAssistant(content).content = shown.text \o TextOf(chan)
=============================================================================
