----------------------------- MODULE LlmCommand -----------------------------
(***************************************************************************)
(* `animus llm complete` (cmd_llm_complete in src/bin/animus.rs): the      *)
(* configuration and the inputs are read, the request goes out through     *)
(* complete or complete_stream, and the answer is printed.  Composes       *)
(* LlmRetry and LlmStream, of which a command uses one.                    *)
(*                                                                         *)
(* In a text the fragment "nl" is a line break and "sp" is a space.        *)
(***************************************************************************)
EXTENDS LlmStream, LlmRetry

CONSTANT Formats   \* arguments of --format, known and unknown

VARIABLES
  streaming,  \* --stream
  stage,      \* how far the command is
  format,     \* --format, drawn where it decides about the outcome
  printed     \* the answer as it was written out

command == <<streaming, stage, format, printed>>
allVars == <<streamVars, vars, command>>

NoFormat == ""
Nothing == <<>>
Exits == {"printed", "failed", "refused"}

CommandTypeOK ==
  /\ StreamTypeOK /\ RetryTypeOK
  /\ streaming \in BOOLEAN
  /\ stage \in {"configuring", "creating", "reading", "rendering", "calling", "printing"} \cup Exits
  /\ format \in Formats \cup {NoFormat}

(* complete_stream does not retry: a limit is one of its refusals.         *)
CommandInit ==
  /\ StreamInit /\ Init
  /\ streaming \in BOOLEAN
  /\ streaming => until = 0
  /\ stage = "configuring" /\ format = NoFormat /\ printed = Nothing

-----------------------------------------------------------------------------
(* Before the request                                                      *)

Prepare(from, to) ==
  /\ stage = from
  /\ stage' \in {to, "refused"}
  /\ UNCHANGED <<streamVars, vars, streaming, format, printed>>

(* LLM_PROVIDER and LLM_API_KEY must be set; the rest has defaults.        *)
ReadConfig == Prepare("configuring", "creating")

(* create_client knows the provider, or UnsupportedProvider.               *)
CreateClient == Prepare("creating", "reading")

(* Context files and standard input.                                       *)
ReadInputs == Prepare("reading", "rendering")

(* The prompt's template is rendered and the request is put together.      *)
BuildRequest == Prepare("rendering", "calling")

-----------------------------------------------------------------------------
(* The request                                                             *)

CallComplete ==
  /\ stage = "calling" /\ ~streaming
  /\ Next
  /\ UNCHANGED <<streamVars, command>>

CallStream(step) ==
  /\ stage = "calling" /\ streaming
  /\ step
  /\ UNCHANGED <<vars, command>>

Received == IF streaming THEN cli = "succeeded" ELSE call = "Ok"
Refused == IF streaming THEN cli = "failed" ELSE call \in Results \ {"Ok"}

Return ==
  /\ stage = "calling"
  /\ \/ Received /\ stage' = "printing"
     \/ Refused /\ stage' = "failed"
  /\ UNCHANGED <<streamVars, vars, streaming, format, printed>>

-----------------------------------------------------------------------------
(* The answer                                                              *)

(* response_text and response_thinking join the blocks of their kind.      *)
JoinBlocks(type) ==
  LET blocks == OfType(ParseContent(message), type) IN
    FlattenSeq([k \in DOMAIN blocks |-> blocks[k][type]])

(* What there is to print: full_text and full_thinking, or the response's. *)
Answer ==
  IF streaming THEN shown
  ELSE [text |-> JoinBlocks("text"), thinking |-> JoinBlocks("thinking")]

(* str::lines: a break ends a line, and what follows the last one counts   *)
(* unless there is nothing.                                                *)
TakeFragment(r, c) ==
  IF c = "nl" THEN [lines |-> Append(r.lines, r.line), line |-> <<>>]
  ELSE [r EXCEPT !.line = Append(@, c)]

Lines(s) ==
  LET taken[k \in 0..Len(s)] ==
        IF k = 0 THEN [lines |-> <<>>, line |-> <<>>] ELSE TakeFragment(taken[k - 1], s[k])
      r == taken[Len(s)]
  IN r.lines \o Unless(r.line = <<>>, r.line)

Indent(s) == LET ls == Lines(s) IN [n \in DOMAIN ls |-> <<"sp", "sp">> \o ls[n]]

(* Mutant: the text is indented as a whole, not line by line.              *)
MutFormatOutput(answer, f) ==
  [text |-> IF f = "yaml" THEN Lines(<<"sp", "sp">> \o answer.text) ELSE answer.text,
   thinking |-> IF f = "yaml" THEN Indent(answer.thinking) ELSE answer.thinking]

(* A block scalar is a sequence of lines, any other string a text.         *)
(* Reasoning is left out when empty, and in the text format goes to stderr.*)
FormatOutput(answer, f) ==
  IF f = "yaml"
  THEN [text |-> Indent(answer.text), thinking |-> Indent(answer.thinking)]
  ELSE [text |-> answer.text, thinking |-> answer.thinking]

(* An unknown format is found out here.  In the text format a streamed     *)
(* answer was printed as it came.                                          *)
PrintAnswer ==
  /\ stage = "printing"
  /\ format' \in Formats
  /\ IF format' \in {"text", "json", "yaml"}
     THEN stage' = "printed" /\ printed' = FormatOutput(Answer, format')
     ELSE stage' = "failed" /\ UNCHANGED printed
  /\ UNCHANGED <<streamVars, vars, streaming>>

-----------------------------------------------------------------------------

Command == ReadConfig \/ CreateClient \/ ReadInputs \/ BuildRequest \/ Return \/ PrintAnswer

CommandNext == Command \/ CallComplete \/ CallStream(StreamNext)

(* The command and its tasks are scheduled; the provider answers, keeps    *)
(* sending or ends the body; time passes.                                  *)
CommandSpec ==
  /\ CommandInit /\ [][CommandNext]_allVars
  /\ WF_allVars(Command) /\ WF_allVars(CallComplete)
  /\ WF_allVars(CallStream(Provider))
  /\ WF_allVars(CallStream(Client)) /\ WF_allVars(CallStream(Caller))

-----------------------------------------------------------------------------
(* Properties                                                              *)

(* A reader of YAML takes the indentation of a block scalar from its first *)
(* line that is not blank.  A later line with less ends the scalar and a   *)
(* blank line with more before it is an error: the document is invalid.    *)
(* Line breaks at the end do not count.                                    *)
Unreadable == <<"invalid">>
Spaces(l) == Max({0} \cup {k \in DOMAIN l : \A j \in 1..k : l[j] = "sp"})
Clip(s) == SubSeq(s, 1, Max({0} \cup {k \in DOMAIN s : s[k] # "nl"}))
ReadScalar(ls) ==
  LET solid == {n \in DOMAIN ls : Spaces(ls[n]) < Len(ls[n])}
      first == Min(solid \cup {Len(ls) + 1})
      depth == IF solid = {} THEN Max({0} \cup {Len(ls[n]) : n \in DOMAIN ls})
                             ELSE Spaces(ls[first])
  IN IF \/ \E n \in solid : Spaces(ls[n]) < depth
        \/ \E n \in 1..(first - 1) : Spaces(ls[n]) > depth
     THEN Unreadable
     ELSE Join([n \in DOMAIN ls |-> SubSeq(ls[n], depth + 1, Len(ls[n]))])

(* format_output puts two spaces before every line, so only an answer      *)
(* whose own first line is indented is at risk.                            *)
StartsIndented(s) ==
  \E n \in DOMAIN Lines(s) :
    /\ Spaces(Lines(s)[n]) > 0
    /\ \A j \in 1..(n - 1) : Lines(s)[j] = <<>>
ReadsBack(s, document) ==
  IF format = "yaml"
  THEN StartsIndented(s) \/ Clip(ReadScalar(document)) = Clip(s)
  ELSE document = s

(* What the command prints reads back as what the provider generated, with *)
(* and without streaming (a truncated stream aside); an answer that was    *)
(* received is printed unless the format is unknown, which format_output   *)
(* finds out only then; and no request goes out before all inputs are in.  *)
AnswerIsPrinted ==
  /\ stage = "printed" =>
       /\ ReadsBack(Answer.text, printed.text)
       /\ ReadsBack(Answer.thinking, printed.thinking)
       /\ ~streaming \/ ~left.done =>
            Answer = [text |-> message.text, thinking |-> message.thinking]
  /\ stage = "failed" /\ Received => format \notin {"text", "json", "yaml"}
  /\ stage = "refused" => posts = 0 /\ client = "posting"

(* Every command ends, also when the provider limits the call or goes away *)
(* without [DONE].                                                         *)
CommandExits == <>(stage \in Exits)
=============================================================================
