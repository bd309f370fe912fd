--------------------------- MODULE LlmCommandProofs ---------------------------
(***************************************************************************)
(* Proofs about the streamed completion (LlmStream) and about the command  *)
(* that makes it (LlmCommand), for any messages, of any length, and any of *)
(* the hiccups.                                                            *)
(*                                                                         *)
(* Everything under way is seen as a walk through the provider's message:  *)
(* the events in net lead from what the client has read to what has been   *)
(* sent, and those in chan from what the caller has been shown to what the *)
(* client has told it.                                                     *)
(*                                                                         *)
(* What the command prints is followed through the scanner of its lines    *)
(* and back: joined again they are the text, and a reader of YAML takes    *)
(* from each line just what Indent has put before it.                      *)
(***************************************************************************)
EXTENDS LlmCommand, LlmRetryProofs

-----------------------------------------------------------------------------
(* Walks                                                                   *)

(* The elements of q lead from a to b, by the steps <<from, element, to>>. *)
Walk(steps, q, a, b) ==
  \E f : /\ f = [j \in 0..Len(q) |-> f[j]] /\ f[0] = a /\ f[Len(q)] = b
         /\ \A j \in 1..Len(q) : <<f[j - 1], q[j], f[j]>> \in steps

LEMMA WalkEmpty ==
  ASSUME NEW steps, NEW a, NEW b
  PROVE  Walk(steps, <<>>, a, b) <=> a = b
<1>1. ASSUME a = b  PROVE Walk(steps, <<>>, a, b)
  <2> DEFINE f == [j \in 0..0 |-> a]
  <2>1. f = [j \in 0..Len(<<>>) |-> f[j]] /\ f[0] = a /\ f[Len(<<>>)] = b
    BY <1>1
  <2>. HIDE DEF f
  <2>. QED  BY <2>1 DEF Walk
<1>2. ASSUME Walk(steps, <<>>, a, b)  PROVE a = b
  BY <1>2 DEF Walk
<1>. QED  BY <1>1, <1>2

LEMMA WalkAppend ==
  ASSUME NEW steps, NEW S, NEW q \in Seq(S), NEW e \in S, NEW a, NEW b, NEW c,
         Walk(steps, q, a, b), <<b, e, c>> \in steps
  PROVE  Walk(steps, Append(q, e), a, c)
<1>1. PICK f : /\ f = [j \in 0..Len(q) |-> f[j]] /\ f[0] = a /\ f[Len(q)] = b
               /\ \A j \in 1..Len(q) : <<f[j - 1], q[j], f[j]>> \in steps
  BY DEF Walk
<1> DEFINE r == Append(q, e)
           g == [j \in 0..Len(r) |-> IF j <= Len(q) THEN f[j] ELSE c]
<1>2. /\ Len(q) \in Nat /\ Len(r) = Len(q) + 1 /\ r[Len(q) + 1] = e
      /\ \A j \in 1..Len(q) : r[j] = q[j]
  BY AppendProperties
<1>. HIDE DEF r
<1>3. g = [j \in 0..Len(r) |-> g[j]] /\ g[0] = a /\ g[Len(r)] = c
  BY <1>1, <1>2
<1>4. ASSUME NEW j \in 1..Len(r)  PROVE <<g[j - 1], r[j], g[j]>> \in steps
  <2>1. CASE j <= Len(q)
    <3>1. /\ j \in 1..Len(q) /\ j \in 0..Len(r)
          /\ j - 1 \in 0..Len(r) /\ j - 1 <= Len(q)
      BY <1>2, <2>1
    <3>2. g[j - 1] = f[j - 1] /\ g[j] = f[j]
      BY <3>1, <2>1
    <3>. QED  BY <1>1, <1>2, <3>1, <3>2
  <2>2. CASE j = Len(q) + 1
    <3>1. j - 1 = Len(q) /\ j \in 0..Len(r) /\ j - 1 \in 0..Len(r) /\ ~ (j <= Len(q))
      BY <1>2, <2>2
    <3>2. g[j - 1] = b /\ g[j] = c
      BY <1>1, <1>2, <3>1
    <3>. QED  BY <1>2, <2>2, <3>2
  <2>. QED  BY <1>2, <2>1, <2>2
<1>. HIDE DEF g
<1>5. Walk(steps, r, a, c)
  BY <1>3, <1>4 DEF Walk
<1>. QED  BY <1>5 DEF r

LEMMA WalkTail ==
  ASSUME NEW steps, NEW S, NEW q \in Seq(S), q # <<>>, NEW a, NEW b,
         Walk(steps, q, a, b)
  PROVE  \E c : <<a, Head(q), c>> \in steps /\ Walk(steps, Tail(q), c, b)
<1>1. PICK f : /\ f = [j \in 0..Len(q) |-> f[j]] /\ f[0] = a /\ f[Len(q)] = b
               /\ \A j \in 1..Len(q) : <<f[j - 1], q[j], f[j]>> \in steps
  BY DEF Walk
<1> DEFINE r == Tail(q)
           g == [j \in 0..Len(r) |-> f[j + 1]]
<1>2. /\ Len(q) \in Nat /\ Len(q) >= 1 /\ Len(r) = Len(q) - 1 /\ Head(q) = q[1]
      /\ \A j \in 1..Len(r) : r[j] = q[j + 1]
  BY HeadTailProperties, EmptySeq, LenProperties
<1>. HIDE DEF r
<1>3. g = [j \in 0..Len(r) |-> g[j]] /\ g[0] = f[1] /\ g[Len(r)] = b
  BY <1>1, <1>2
<1>4. ASSUME NEW j \in 1..Len(r)  PROVE <<g[j - 1], r[j], g[j]>> \in steps
  <2>1. j + 1 \in 1..Len(q) /\ (j + 1) - 1 = j /\ (j - 1) + 1 = j /\ j - 1 \in 0..Len(r)
        /\ j \in 0..Len(r)
    BY <1>2
  <2>2. <<f[j], q[j + 1], f[j + 1]>> \in steps
    BY <1>1, <2>1
  <2>. QED  BY <1>2, <2>1, <2>2
<1>. HIDE DEF g
<1>5. Walk(steps, r, f[1], b)
  BY <1>3, <1>4 DEF Walk
<1>6. <<a, Head(q), f[1]>> \in steps
  BY <1>1, <1>2
<1>. QED  BY <1>5, <1>6 DEF r

LEMMA WalkPrefix ==
  ASSUME NEW steps, NEW S, NEW q \in Seq(S), NEW k \in 0..Len(q), NEW a, NEW b,
         Walk(steps, q, a, b)
  PROVE  \E c : Walk(steps, SubSeq(q, 1, k), a, c)
<1>1. PICK f : /\ f = [j \in 0..Len(q) |-> f[j]] /\ f[0] = a /\ f[Len(q)] = b
               /\ \A j \in 1..Len(q) : <<f[j - 1], q[j], f[j]>> \in steps
  BY DEF Walk
<1> DEFINE r == SubSeq(q, 1, k)
           g == [j \in 0..Len(r) |-> f[j]]
<1>2. Len(q) \in Nat /\ Len(r) = k /\ \A j \in 1..k : r[j] = q[j]
  <2>1. \A i \in 1..k : q[i] \in S
    BY ElementOfSeq, LenProperties
  <2>. QED  BY <2>1, LenProperties, SubSeqProperties
<1>. HIDE DEF r
<1>3. g = [j \in 0..Len(r) |-> g[j]] /\ g[0] = a
  BY <1>1, <1>2
<1>4. ASSUME NEW j \in 1..Len(r)  PROVE <<g[j - 1], r[j], g[j]>> \in steps
  <2>1. j \in 1..k /\ j \in 1..Len(q) /\ j \in 0..Len(r) /\ j - 1 \in 0..Len(r)
    BY <1>2
  <2>. QED  BY <1>1, <1>2, <2>1
<1>. HIDE DEF g
<1>5. Walk(steps, r, a, g[Len(r)])
  BY <1>3, <1>4 DEF Walk
<1>. QED  BY <1>5 DEF r

LEMMA WalkWithin ==
  ASSUME NEW steps, NEW P, NEW S, steps \subseteq P \X S \X P, NEW q \in Seq(S), NEW a \in P, NEW b,
         Walk(steps, q, a, b)
  PROVE  b \in P
<1>1. PICK f : /\ f = [j \in 0..Len(q) |-> f[j]] /\ f[0] = a /\ f[Len(q)] = b
               /\ \A j \in 1..Len(q) : <<f[j - 1], q[j], f[j]>> \in steps
  BY DEF Walk
<1>2. Len(q) \in Nat
  BY LenProperties
<1>3. CASE Len(q) = 0
  BY <1>1, <1>3
<1>4. CASE Len(q) # 0
  <2>1. Len(q) \in 1..Len(q)
    BY <1>2, <1>4
  <2>2. <<f[Len(q) - 1], q[Len(q)], b>> \in P \X S \X P
    BY <1>1, <2>1
  <2>. QED  BY <2>2
<1>. QED  BY <1>3, <1>4

-----------------------------------------------------------------------------
(* A walk through the message                                              *)

(* How far a message has got: so many fragments of its thinking and of its *)
(* text, so many tool calls, so many fragments of the arguments of the     *)
(* last of them, the finish reason and [DONE].                             *)
Arguments(m, n) == IF n = 0 THEN <<>> ELSE m.tools[n].args

Full(m, p) ==
  /\ p.thinking = Len(m.thinking) /\ p.text = Len(m.text)
  /\ p.tools = Len(m.tools) /\ p.args = Len(Arguments(m, p.tools))

Positions(m) ==
  {p \in [thinking : 0..Len(m.thinking), text : 0..Len(m.text), tools : 0..Len(m.tools),
          args : Nat, finish : BOOLEAN, done : BOOLEAN] :
     /\ p.args <= Len(Arguments(m, p.tools))
     /\ p.finish => Full(m, p)
     /\ p.done => p.finish}

Start == [thinking |-> 0, text |-> 0, tools |-> 0, args |-> 0, finish |-> FALSE, done |-> FALSE]

(* Event e brings the message from p to q.                                 *)
SentStep(m, p, e, q) ==
  \/ /\ e.kind = "thinking"
     /\ p.thinking < Len(m.thinking) /\ e.fragments = <<m.thinking[p.thinking + 1]>>
     /\ q = [p EXCEPT !.thinking = @ + 1]
  \/ /\ e.kind = "text"
     /\ p.text < Len(m.text) /\ e.fragments = <<m.text[p.text + 1]>>
     /\ q = [p EXCEPT !.text = @ + 1]
  \/ /\ e.kind = "tool"
     /\ p.args = Len(Arguments(m, p.tools))
     /\ p.tools < Len(m.tools) /\ e.id = m.tools[p.tools + 1].id
     /\ e.fragments \in {<<>>, Arguments(m, p.tools + 1)}
     /\ q = [p EXCEPT !.tools = @ + 1, !.args = Len(e.fragments)]
  \/ /\ e.kind = "args"
     /\ p.args < Len(Arguments(m, p.tools))
     /\ e.fragments = <<Arguments(m, p.tools)[p.args + 1]>>
     /\ q = [p EXCEPT !.args = @ + 1]
  \/ e.kind = "finish" /\ Full(m, p) /\ ~p.finish /\ q = [p EXCEPT !.finish = TRUE]
  \/ e.kind = "done" /\ p.finish /\ ~p.done /\ q = [p EXCEPT !.done = TRUE]
  \/ e.kind = "noise" /\ ~p.done /\ q = p

(* How far the caller has got, and what an event of chan adds to that.     *)
Views(m) == [thinking : 0..Len(m.thinking), text : 0..Len(m.text), done : BOOLEAN]
View(p) == [thinking |-> p.thinking, text |-> p.text, done |-> p.done]

ToldStep(m, p, e, q) ==
  /\ ~p.done
  /\ \/ /\ e.kind = "thinking"
        /\ p.thinking < Len(m.thinking) /\ e.fragments = <<m.thinking[p.thinking + 1]>>
        /\ q = [p EXCEPT !.thinking = @ + 1]
     \/ /\ e.kind = "text"
        /\ p.text < Len(m.text) /\ e.fragments = <<m.text[p.text + 1]>>
        /\ q = [p EXCEPT !.text = @ + 1]
     \/ e.kind \in {"tool", "args"} /\ q = p
     \/ e.kind = "done" /\ q = [thinking |-> p.thinking, text |-> p.text, done |-> TRUE]

Ids == STRING \cup {NoTool}
Events == [kind : Kinds, id : Ids, fragments : Seq(STRING)]
Told == [kind : Kinds \ {"finish", "noise"}, id : Ids, fragments : Seq(STRING)]

SentSteps(m) ==
  {s \in Positions(m) \X Events \X Positions(m) : SentStep(m, s[1], s[2], s[3])}
ToldSteps(m) ==
  {s \in Views(m) \X Told \X Views(m) : ToldStep(m, s[1], s[2], s[3])}

-----------------------------------------------------------------------------
(* The invariant                                                           *)

StreamTypes ==
  /\ message \in Messages
  /\ net \in Seq(Events) /\ chan \in Seq(Told)
  /\ conn \in {"open", "ended", "broken"}
  /\ client \in {"posting", "reading", "ok", "error"}
  /\ cli \in {"receiving", "joining", "succeeded", "failed"}

(* A client that has returned Ok has read the body to its end.             *)
ReadAll == client = "ok" => net = <<>> /\ conn = "ended"

(* What has not been sent yet, unless the connection took events with it.  *)
Unsent(p) ==
  [thinking |-> SubSeq(message.thinking, p.thinking + 1, Len(message.thinking)),
   text |-> SubSeq(message.text, p.text + 1, Len(message.text)),
   tools |-> SubSeq(message.tools, p.tools + 1, Len(message.tools)),
   args |-> SubSeq(Arguments(message, p.tools), p.args + 1, Len(Arguments(message, p.tools))),
   finish |-> ~p.finish, done |-> ~p.done, noise |-> left.noise]
Server(p) == conn # "broken" => left = Unsent(p) /\ left.noise \in BOOLEAN

(* The blocks of the first n tool calls, and what [DONE] makes of it all.  *)
Calls(m, n) == [k \in 1..n |-> ToolUse(m.tools[k].id, ParseArgs(m.tools[k].args))]
LastCall(m) ==
  LET n == Len(m.tools) IN
    Unless(n = 0, ToolUse(m.tools[n].id, ParseArgs(m.tools[n].args)))
Flushed(m) ==
  Calls(m, Len(m.tools) - 1) \o Unless(m.thinking = <<>>, ThinkingBlock(m.thinking))
    \o Unless(m.text = <<>>, TextBlock(m.text)) \o LastCall(m)

(* What the client makes of the events it has read.                        *)
Reader(p) ==
  /\ stop = IF p.finish THEN ParseFinish(message.finish) ELSE "EndTurn"
  /\ p.done => content = Flushed(message)
  /\ ~p.done =>
       /\ thinking = SubSeq(message.thinking, 1, p.thinking)
       /\ text = SubSeq(message.text, 1, p.text)
       /\ tool = IF p.tools = 0 THEN NoTool ELSE message.tools[p.tools].id
       /\ args = SubSeq(Arguments(message, p.tools), 1, p.args)
       /\ content = Calls(message, p.tools - 1)

(* What the caller has shown; it joins the task once it has seen [DONE],   *)
(* or once the task has ended and nothing is left in the channel.          *)
Viewer(v) ==
  /\ shown = [text |-> SubSeq(message.text, 1, v.text),
              thinking |-> SubSeq(message.thinking, 1, v.thinking)]
  /\ v.done => cli # "receiving"
  /\ cli # "receiving" => v.done \/ (chan = <<>> /\ client \in {"ok", "error"})
  /\ cli = "succeeded" => client = "ok"

StreamInv ==
  /\ StreamTypes /\ ReadAll
  /\ \E v \in Views(message), read \in Positions(message), sent \in Positions(message) :
       /\ Viewer(v) /\ Reader(read) /\ Server(sent)
       /\ Walk(ToldSteps(message), chan, v, View(read))
       /\ Walk(SentSteps(message), net, read, sent)

-----------------------------------------------------------------------------
(* The parts of a message                                                  *)

LEMMA MessageParts ==
  ASSUME NEW m \in Messages
  PROVE  /\ m.thinking \in Seq(STRING) /\ m.text \in Seq(STRING)
         /\ m.tools \in Seq([id : STRING \ {NoTool}, args : Seq(STRING)])
         /\ Len(m.thinking) \in Nat /\ Len(m.text) \in Nat /\ Len(m.tools) \in Nat
         /\ \A n \in 1..Len(m.tools) :
              m.tools[n].id \in STRING \ {NoTool} /\ m.tools[n].args \in Seq(STRING)
         /\ \A n \in 0..Len(m.tools) :
              Arguments(m, n) \in Seq(STRING) /\ Len(Arguments(m, n)) \in Nat
<1>1. /\ m.thinking \in Seq(STRING) /\ m.text \in Seq(STRING)
      /\ m.tools \in Seq([id : STRING \ {NoTool}, args : Seq(STRING)])
  BY MessagesAssumption
<1>2. /\ Len(m.thinking) \in Nat /\ Len(m.text) \in Nat /\ Len(m.tools) \in Nat
      /\ \A n \in 1..Len(m.tools) : m.tools[n] \in [id : STRING \ {NoTool}, args : Seq(STRING)]
  BY <1>1, LenProperties, ElementOfSeq
<1>3. \A n \in 1..Len(m.tools) :
        m.tools[n].id \in STRING \ {NoTool} /\ m.tools[n].args \in Seq(STRING)
  BY <1>2
<1>4. ASSUME NEW n \in 0..Len(m.tools)  PROVE Arguments(m, n) \in Seq(STRING)
  <2>1. CASE n = 0
    BY <2>1, EmptySeq DEF Arguments
  <2>2. CASE n # 0
    <3>1. n \in 1..Len(m.tools)
      BY <1>2, <2>2
    <3>. QED  BY <1>3, <2>2, <3>1 DEF Arguments
  <2>. QED  BY <2>1, <2>2
<1>. QED  BY <1>1, <1>2, <1>3, <1>4, LenProperties

LEMMA Single ==
  ASSUME NEW S, NEW x \in S
  PROVE  <<x>> \in Seq(S) /\ Len(<<x>>) = 1
OBVIOUS

(* What remains of s after its first n elements, and what these are.       *)
LEMMA Remainder ==
  ASSUME NEW S, NEW s \in Seq(S), NEW n \in 0..Len(s)
  PROVE  LET rest == SubSeq(s, n + 1, Len(s)) IN
           IF rest = <<>> THEN n = Len(s)
           ELSE /\ n < Len(s) /\ s[n + 1] \in S
                /\ Head(rest) = s[n + 1] /\ Tail(rest) = SubSeq(s, n + 2, Len(s))
<1> DEFINE rest == SubSeq(s, n + 1, Len(s))
<1>1. Len(s) \in Nat /\ \A i \in (n + 1)..Len(s) : s[i] \in S
  BY LenProperties, ElementOfSeq
<1>2. rest \in Seq(S) /\ Len(rest) = Len(s) - n
  BY <1>1, SubSeqProperties
<1>3. CASE n = Len(s)
  BY <1>1, <1>2, <1>3, EmptySeq
<1>4. CASE n # Len(s)
  <2>1. n + 1 \in 1..Len(s) /\ Len(s) \in (n + 1)..Len(s)
    BY <1>1, <1>4
  <2>2. Head(rest) = s[n + 1] /\ Tail(rest) = SubSeq(s, (n + 1) + 1, Len(s))
    BY <2>1, HeadTailOfSubSeq
  <2>3. rest # <<>>
    <3>1. Len(rest) # 0
      BY <1>1, <1>2, <2>1
    <3>. QED  BY <3>1, EmptySeq
  <2>. QED  BY <1>1, <2>1, <2>2, <2>3
<1>. QED  BY <1>3, <1>4

LEMMA Beginning ==
  ASSUME NEW S, NEW s \in Seq(S), NEW n \in 0..Len(s)
  PROVE  /\ SubSeq(s, 1, n) \in Seq(S) /\ Len(SubSeq(s, 1, n)) = n
         /\ n = 0 => SubSeq(s, 1, n) = <<>>
         /\ n = Len(s) => SubSeq(s, 1, n) = s
         /\ n < Len(s) => SubSeq(s, 1, n) \o <<s[n + 1]>> = SubSeq(s, 1, n + 1)
<1>1. Len(s) \in Nat /\ \A i \in 1..n : s[i] \in S
  BY LenProperties, ElementOfSeq
<1>2. SubSeq(s, 1, n) \in Seq(S) /\ Len(SubSeq(s, 1, n)) = n
  BY <1>1, SubSeqProperties
<1>3. n = 0 => SubSeq(s, 1, n) = <<>>
  BY SubSeqEmpty
<1>4. n = Len(s) => SubSeq(s, 1, n) = s
  BY SubSeqFull
<1>5. ASSUME n < Len(s)  PROVE SubSeq(s, 1, n) \o <<s[n + 1]>> = SubSeq(s, 1, n + 1)
  <2>1. 1 \in 1..Len(s) /\ n + 1 \in 1..Len(s) /\ (n + 1) - 1 = n
    BY <1>1, <1>5
  <2>2. SubSeq(s, 1, n + 1) = SubSeq(s, 1, (n + 1) - 1) \o <<s[n + 1]>>
    BY <2>1, SubSeqRecursiveSecond
  <2>. QED  BY <2>1, <2>2
<1>. QED  BY <1>2, <1>3, <1>4, <1>5

LEMMA NextFragment ==
  ASSUME NEW S, NEW s \in Seq(S), NEW n \in 0..Len(s), n < Len(s),
         NEW fragments, fragments = <<s[n + 1]>>, NEW next, next = n + 1
  PROVE  SubSeq(s, 1, n) \o fragments = SubSeq(s, 1, next)
BY Beginning

-----------------------------------------------------------------------------
(* The provider                                                            *)

LEMMA StepLeads ==
  ASSUME NEW m \in Messages, NEW p \in Positions(m), NEW e \in Events, NEW q,
         SentStep(m, p, e, q)
  PROVE  q \in Positions(m) /\ <<p, e, q>> \in SentSteps(m)
<1>. USE DEF Positions
<1>1. /\ Len(m.thinking) \in Nat /\ Len(m.text) \in Nat /\ Len(m.tools) \in Nat
      /\ \A n \in 0..Len(m.tools) : Len(Arguments(m, n)) \in Nat
  BY MessageParts
<1>2. Len(e.fragments) \in Nat
  BY LenProperties DEF Events
<1>3. q \in Positions(m)
  <2>1. CASE e.kind = "thinking"
    BY <1>1, <2>1 DEF SentStep, Full
  <2>2. CASE e.kind = "text"
    BY <1>1, <2>2 DEF SentStep, Full
  <2>3. CASE e.kind = "tool"
    <3>1. /\ p.tools < Len(m.tools) /\ e.fragments \in {<<>>, Arguments(m, p.tools + 1)}
          /\ q = [p EXCEPT !.tools = @ + 1, !.args = Len(e.fragments)]
      BY <2>3 DEF SentStep
    <3>2. Len(e.fragments) <= Len(Arguments(m, p.tools + 1)) /\ p.tools + 1 \in 0..Len(m.tools)
      BY <1>1, <3>1, EmptySeq
    <3>3. ~p.finish /\ ~p.done
      BY <3>1 DEF Full
    <3>4. q = [thinking |-> p.thinking, text |-> p.text, tools |-> p.tools + 1,
               args |-> Len(e.fragments), finish |-> FALSE, done |-> FALSE]
      BY <3>1, <3>3
    <3>. QED  BY <1>2, <3>2, <3>4
  <2>4. CASE e.kind = "args"
    BY <1>1, <2>4 DEF SentStep, Full
  <2>5. CASE e.kind = "finish"
    BY <1>1, <2>5 DEF SentStep, Full
  <2>6. CASE e.kind \in {"done", "noise"}
    BY <1>1, <2>6 DEF SentStep, Full
  <2>. QED  BY <2>1, <2>2, <2>3, <2>4, <2>5, <2>6 DEF Events, Kinds
<1>. QED  BY <1>3 DEF SentSteps

(* Whatever the provider sends is the next event of its message.           *)
Sending ==
  SendThinking \/ SendText \/ SendTool \/ SendArgs \/ SendFinish \/ SendDone \/ SendNoise

LEMMA SendingLeads ==
  ASSUME StreamTypes, NEW p \in Positions(message), Server(p), Sending
  PROVE  \E e \in Events : \E q :
           /\ net' = Append(net, e) /\ UNCHANGED <<message, conn, client, locals, chan, caller>>
           /\ SentStep(message, p, e, q) /\ Server(q)'
<1>. DEFINE m == message
<1>t. m \in Messages /\ m' = m
  BY DEF StreamTypes, Sending, SendThinking, SendText, SendTool, SendArgs, SendFinish,
     SendDone, SendNoise, Serve
<1>p. /\ m.thinking \in Seq(STRING) /\ m.text \in Seq(STRING)
      /\ m.tools \in Seq([id : STRING \ {NoTool}, args : Seq(STRING)])
      /\ Arguments(m, p.tools) \in Seq(STRING)
      /\ p.thinking \in 0..Len(m.thinking) /\ p.text \in 0..Len(m.text)
      /\ p.tools \in 0..Len(m.tools) /\ p.args \in 0..Len(Arguments(m, p.tools))
      /\ p.finish \in BOOLEAN /\ p.done \in BOOLEAN
  <2>1. /\ p.thinking \in 0..Len(m.thinking) /\ p.text \in 0..Len(m.text)
        /\ p.tools \in 0..Len(m.tools) /\ p.args \in Nat
        /\ p.finish \in BOOLEAN /\ p.done \in BOOLEAN
        /\ p.args <= Len(Arguments(m, p.tools))
    BY DEF Positions
  <2>2. Arguments(m, p.tools) \in Seq(STRING) /\ Len(Arguments(m, p.tools)) \in Nat
    BY <1>t, <2>1, MessageParts
  <2>3. /\ m.thinking \in Seq(STRING) /\ m.text \in Seq(STRING)
        /\ m.tools \in Seq([id : STRING \ {NoTool}, args : Seq(STRING)])
    BY <1>t, MessageParts
  <2>. HIDE DEF m
  <2>. QED  BY <2>1, <2>2, <2>3
<1>e. /\ \A x \in STRING : <<x>> \in Seq(STRING)
      /\ <<>> \in Seq(STRING) /\ NoTool \in Ids /\ STRING \subseteq Ids
  <2>1. NoTool \in Ids /\ STRING \subseteq Ids
    BY DEF Ids
  <2>2. ASSUME NEW x \in STRING  PROVE <<x>> \in Seq(STRING)
    BY Single
  <2>. QED  BY <2>1, <2>2, EmptySeq
<1>c. /\ conn = "open" /\ conn' = conn /\ left = Unsent(p) /\ left.noise \in BOOLEAN
      /\ UNCHANGED <<message, conn, client, locals, chan, caller>>
  BY DEF Sending, SendThinking, SendText, SendTool, SendArgs, SendFinish, SendDone, SendNoise,
     Serve, Server
<1>f. /\ left.thinking = SubSeq(m.thinking, p.thinking + 1, Len(m.thinking))
      /\ left.text = SubSeq(m.text, p.text + 1, Len(m.text))
      /\ left.tools = SubSeq(m.tools, p.tools + 1, Len(m.tools))
      /\ left.args = SubSeq(Arguments(m, p.tools), p.args + 1, Len(Arguments(m, p.tools)))
      /\ left.finish = ~p.finish /\ left.done = ~p.done
  <2>. HIDE DEF Arguments
  <2>. QED  BY <1>c DEF Unsent
<1>s. ASSUME NEW e \in Events, NEW q, net' = Append(net, e), SentStep(message, p, e, q),
             left' = Unsent(q)', left'.noise \in BOOLEAN
      PROVE  \E e_1 \in Events : \E q_1 :
               /\ net' = Append(net, e_1)
               /\ UNCHANGED <<message, conn, client, locals, chan, caller>>
               /\ SentStep(message, p, e_1, q_1) /\ Server(q_1)'
  BY <1>c, <1>s DEF Server
<1>1. CASE SendThinking
  <2> DEFINE e == Event("thinking", <<Head(left.thinking)>>)
             q == [p EXCEPT !.thinking = @ + 1]
  <2>. HIDE DEF m
  <2>0. left.thinking # <<>> /\ left.thinking = SubSeq(m.thinking, p.thinking + 1, Len(m.thinking))
    BY <1>f, <1>1 DEF SendThinking
  <2>1. /\ p.thinking < Len(m.thinking) /\ m.thinking[p.thinking + 1] \in STRING
        /\ Head(left.thinking) = m.thinking[p.thinking + 1]
        /\ Tail(left.thinking) = SubSeq(m.thinking, p.thinking + 2, Len(m.thinking))
    BY <1>p, <2>0, Remainder
  <2>2. e \in Events /\ net' = Append(net, e)
    BY <1>1, <1>e, <2>1 DEF SendThinking, Serve, Event, Events, Kinds
  <2>3. SentStep(message, p, e, q)
    BY <2>1 DEF SentStep, Event, m
  <2>4. left' = [Unsent(p) EXCEPT !.thinking = Tail(left.thinking)]
    BY <1>c, <1>1 DEF SendThinking
  <2>5. left' = [thinking |-> SubSeq(m.thinking, p.thinking + 2, Len(m.thinking)),
                 text |-> Unsent(p).text, tools |-> Unsent(p).tools, args |-> Unsent(p).args,
                 finish |-> ~p.finish, done |-> ~p.done, noise |-> left.noise]
    BY <2>1, <2>4 DEF Unsent
  <2>6. /\ q.thinking + 1 = p.thinking + 2 /\ q.text = p.text /\ q.tools = p.tools
        /\ q.args = p.args /\ q.finish = p.finish /\ q.done = p.done
    BY <1>p DEF Positions
  <2>. HIDE DEF q
  <2>7. left' = Unsent(q)' /\ left'.noise \in BOOLEAN
    BY <1>t, <1>c, <2>5, <2>6 DEF Unsent, m
  <2>. QED  BY <1>s, <2>2, <2>3, <2>7
<1>2. CASE SendText
  <2> DEFINE e == Event("text", <<Head(left.text)>>)
             q == [p EXCEPT !.text = @ + 1]
  <2>. HIDE DEF m
  <2>0. left.text # <<>> /\ left.text = SubSeq(m.text, p.text + 1, Len(m.text))
    BY <1>f, <1>2 DEF SendText
  <2>1. /\ p.text < Len(m.text) /\ m.text[p.text + 1] \in STRING
        /\ Head(left.text) = m.text[p.text + 1]
        /\ Tail(left.text) = SubSeq(m.text, p.text + 2, Len(m.text))
    BY <1>p, <2>0, Remainder
  <2>2. e \in Events /\ net' = Append(net, e)
    BY <1>2, <1>e, <2>1 DEF SendText, Serve, Event, Events, Kinds
  <2>3. SentStep(message, p, e, q)
    BY <2>1 DEF SentStep, Event, m
  <2>4. left' = [Unsent(p) EXCEPT !.text = Tail(left.text)]
    BY <1>c, <1>2 DEF SendText
  <2>5. left' = [thinking |-> Unsent(p).thinking, text |-> SubSeq(m.text, p.text + 2, Len(m.text)),
                 tools |-> Unsent(p).tools, args |-> Unsent(p).args,
                 finish |-> ~p.finish, done |-> ~p.done, noise |-> left.noise]
    BY <2>1, <2>4 DEF Unsent
  <2>6. /\ q.thinking = p.thinking /\ q.text + 1 = p.text + 2 /\ q.tools = p.tools
        /\ q.args = p.args /\ q.finish = p.finish /\ q.done = p.done
    BY <1>p DEF Positions
  <2>. HIDE DEF q
  <2>7. left' = Unsent(q)' /\ left'.noise \in BOOLEAN
    BY <1>t, <1>c, <2>5, <2>6 DEF Unsent, m
  <2>. QED  BY <1>s, <2>2, <2>3, <2>7
<1>3. CASE SendTool
  <2> DEFINE t == Head(left.tools)
             u == m.tools[p.tools + 1]
  <2>. HIDE DEF m
  <2>0. /\ left.tools # <<>> /\ left.tools = SubSeq(m.tools, p.tools + 1, Len(m.tools))
        /\ SubSeq(Arguments(m, p.tools), p.args + 1, Len(Arguments(m, p.tools))) = <<>>
    BY <1>f, <1>3 DEF SendTool
  <2>1. /\ p.tools < Len(m.tools) /\ u \in [id : STRING \ {NoTool}, args : Seq(STRING)]
        /\ t = u /\ Tail(left.tools) = SubSeq(m.tools, p.tools + 2, Len(m.tools))
        /\ p.args = Len(Arguments(m, p.tools))
    <3>1. /\ p.tools < Len(m.tools) /\ u \in [id : STRING \ {NoTool}, args : Seq(STRING)]
          /\ t = u /\ Tail(left.tools) = SubSeq(m.tools, p.tools + 2, Len(m.tools))
      <4> DEFINE T == [id : STRING \ {NoTool}, args : Seq(STRING)]
                 s == m.tools
      <4>1. s \in Seq(T) /\ p.tools \in 0..Len(s)
            /\ left.tools # <<>> /\ left.tools = SubSeq(s, p.tools + 1, Len(s))
        BY <1>p, <2>0
      <4>. HIDE DEF s, T
      <4>2. /\ p.tools < Len(s) /\ s[p.tools + 1] \in T
            /\ Head(left.tools) = s[p.tools + 1]
            /\ Tail(left.tools) = SubSeq(s, p.tools + 2, Len(s))
        BY <4>1, Remainder
      <4>. QED  BY <4>2 DEF s, T
    <3>2. p.args = Len(Arguments(m, p.tools))
      <4> DEFINE a == Arguments(m, p.tools)
      <4>1. a \in Seq(STRING) /\ p.args \in 0..Len(a) /\ SubSeq(a, p.args + 1, Len(a)) = <<>>
        BY <1>p, <2>0
      <4>. HIDE DEF a
      <4>2. p.args = Len(a)
        BY <4>1, Remainder
      <4>. QED  BY <4>2 DEF a
    <3>. QED  BY <3>1, <3>2
  <2>2. /\ p.tools + 1 # 0 /\ Arguments(m, p.tools + 1) = u.args
        /\ u.id \in STRING /\ u.args \in Seq(STRING)
    <3>1. p.tools \in Nat /\ p.tools + 1 # 0
      BY <1>p
    <3>2. u.id \in STRING /\ u.args \in Seq(STRING)
      BY <2>1
    <3>. QED  BY <3>1, <3>2 DEF Arguments
  <2>3. ASSUME NEW fragments \in {<<>>, u.args}, NEW rest,
               net' = Append(net, ToolEvent(u.id, fragments)),
               left' = [left EXCEPT !.tools = Tail(@), !.args = rest],
               rest = SubSeq(u.args, Len(fragments) + 1, Len(u.args))
        PROVE  \E e \in Events : \E q :
                 /\ net' = Append(net, e)
                 /\ UNCHANGED <<message, conn, client, locals, chan, caller>>
                 /\ SentStep(message, p, e, q) /\ Server(q)'
    <3> DEFINE e == ToolEvent(u.id, fragments)
               q == [p EXCEPT !.tools = @ + 1, !.args = Len(fragments)]
    <3>1. e \in Events /\ e.kind = "tool" /\ e.id = u.id /\ e.fragments = fragments
      BY <1>e, <2>2, <2>3 DEF ToolEvent, Events, Kinds
    <3>2. SentStep(message, p, e, q)
      BY <2>1, <2>2, <2>3, <3>1 DEF SentStep, m
    <3>3. left' = [Unsent(p) EXCEPT !.tools = Tail(left.tools), !.args = rest]
      BY <1>c, <2>3
    <3>4. left' = [thinking |-> Unsent(p).thinking, text |-> Unsent(p).text,
                   tools |-> SubSeq(m.tools, p.tools + 2, Len(m.tools)), args |-> rest,
                   finish |-> ~p.finish, done |-> ~p.done, noise |-> left.noise]
      BY <2>1, <3>3 DEF Unsent
    <3>5. /\ q.thinking = p.thinking /\ q.text = p.text /\ q.tools + 1 = p.tools + 2
          /\ q.tools = p.tools + 1
          /\ q.args = Len(fragments) /\ q.finish = p.finish /\ q.done = p.done
      BY <1>p DEF Positions
    <3>. HIDE DEF q
    <3>6. left' = Unsent(q)' /\ left'.noise \in BOOLEAN
      BY <1>t, <1>c, <2>2, <2>3, <3>4, <3>5 DEF Unsent, m
    <3>. QED  BY <1>s, <2>3, <3>1, <3>2, <3>6
  <2>4. CASE /\ left' = [left EXCEPT !.tools = Tail(@), !.args = t.args]
             /\ Serve(ToolEvent(t.id, <<>>))
    <3>1. u.args = SubSeq(u.args, Len(<<>>) + 1, Len(u.args))
      BY <2>2, SubSeqFull, EmptySeq
    <3>. QED  BY <2>1, <2>3, <2>4, <3>1 DEF Serve
  <2>5. CASE left' = [left EXCEPT !.tools = Tail(@)] /\ Serve(ToolEvent(t.id, t.args))
    <3>1. SubSeq(u.args, Len(u.args) + 1, Len(u.args)) = <<>>
      BY <2>2, SubSeqEmpty, LenProperties
    <3>2. left.args = <<>>
      BY <1>3 DEF SendTool
    <3>3. left' = [left EXCEPT !.tools = Tail(@), !.args = <<>>]
      BY <1>c, <2>5, <3>2 DEF Unsent
    <3>. QED  BY <2>1, <2>3, <2>5, <3>1, <3>3 DEF Serve
  <2>. QED  BY <1>3, <2>4, <2>5 DEF SendTool
<1>4. CASE SendArgs
  <2> DEFINE a == Arguments(m, p.tools)
             e == Event("args", <<Head(left.args)>>)
             q == [p EXCEPT !.args = @ + 1]
  <2>. HIDE DEF m
  <2>0. left.args # <<>> /\ left.args = SubSeq(a, p.args + 1, Len(a))
    BY <1>f, <1>4 DEF SendArgs
  <2>1. /\ p.args < Len(a) /\ a[p.args + 1] \in STRING
        /\ Head(left.args) = a[p.args + 1]
        /\ Tail(left.args) = SubSeq(a, p.args + 2, Len(a))
    BY <1>p, <2>0, Remainder
  <2>2. e \in Events /\ net' = Append(net, e)
    BY <1>4, <1>e, <2>1 DEF SendArgs, Serve, Event, Events, Kinds
  <2>3. SentStep(message, p, e, q)
    BY <2>1 DEF SentStep, Event, m
  <2>4. left' = [Unsent(p) EXCEPT !.args = Tail(left.args)]
    BY <1>c, <1>4 DEF SendArgs
  <2>5. left' = [thinking |-> Unsent(p).thinking, text |-> Unsent(p).text,
                 tools |-> Unsent(p).tools, args |-> SubSeq(a, p.args + 2, Len(a)),
                 finish |-> ~p.finish, done |-> ~p.done, noise |-> left.noise]
    BY <2>1, <2>4 DEF Unsent
  <2>6. /\ q.thinking = p.thinking /\ q.text = p.text /\ q.tools = p.tools
        /\ q.args + 1 = p.args + 2 /\ q.finish = p.finish /\ q.done = p.done
    BY <1>p DEF Positions
  <2>. HIDE DEF q
  <2>7. left' = Unsent(q)' /\ left'.noise \in BOOLEAN
    BY <1>t, <1>c, <2>5, <2>6 DEF Unsent, m
  <2>. QED  BY <1>s, <2>2, <2>3, <2>7
<1>5. CASE SendFinish
  <2> DEFINE e == Event("finish", <<>>)
             q == [p EXCEPT !.finish = TRUE]
  <2>. HIDE DEF m
  <2>0. /\ SubSeq(m.thinking, p.thinking + 1, Len(m.thinking)) = <<>>
        /\ SubSeq(m.text, p.text + 1, Len(m.text)) = <<>>
        /\ SubSeq(m.tools, p.tools + 1, Len(m.tools)) = <<>>
        /\ SubSeq(Arguments(m, p.tools), p.args + 1, Len(Arguments(m, p.tools))) = <<>>
        /\ ~p.finish
    BY <1>f, <1>5 DEF SendFinish, Sent
  <2>1. Full(m, p)
    <3>1. p.thinking = Len(m.thinking) /\ p.text = Len(m.text)
      BY <1>p, <2>0, Remainder
    <3>2. p.tools = Len(m.tools)
      <4> DEFINE T == [id : STRING \ {NoTool}, args : Seq(STRING)]
                 s == m.tools
      <4>1. s \in Seq(T) /\ p.tools \in 0..Len(s) /\ SubSeq(s, p.tools + 1, Len(s)) = <<>>
        BY <1>p, <2>0
      <4>. HIDE DEF s, T
      <4>2. p.tools = Len(s)
        BY <4>1, Remainder
      <4>. QED  BY <4>2 DEF s
    <3>3. p.args = Len(Arguments(m, p.tools))
      <4> DEFINE a == Arguments(m, p.tools)
      <4>1. a \in Seq(STRING) /\ p.args \in 0..Len(a) /\ SubSeq(a, p.args + 1, Len(a)) = <<>>
        BY <1>p, <2>0
      <4>. HIDE DEF a
      <4>2. p.args = Len(a)
        BY <4>1, Remainder
      <4>. QED  BY <4>2 DEF a
    <3>. QED  BY <3>1, <3>2, <3>3 DEF Full
  <2>2. e \in Events /\ net' = Append(net, e)
    BY <1>5, <1>e DEF SendFinish, Serve, Event, Events, Kinds
  <2>3. SentStep(message, p, e, q)
    BY <2>0, <2>1 DEF SentStep, Event, m
  <2>4. left' = [Unsent(p) EXCEPT !.finish = FALSE]
    BY <1>c, <1>5 DEF SendFinish
  <2>5. left' = [thinking |-> Unsent(p).thinking, text |-> Unsent(p).text,
                 tools |-> Unsent(p).tools, args |-> Unsent(p).args,
                 finish |-> FALSE, done |-> ~p.done, noise |-> left.noise]
    BY <2>4 DEF Unsent
  <2>6. /\ q.thinking = p.thinking /\ q.text = p.text /\ q.tools = p.tools
        /\ q.args = p.args /\ q.finish = TRUE /\ q.done = p.done
    BY <1>p DEF Positions
  <2>. HIDE DEF q
  <2>7. left' = Unsent(q)' /\ left'.noise \in BOOLEAN
    BY <1>t, <1>c, <2>5, <2>6 DEF Unsent, m
  <2>. QED  BY <1>s, <2>2, <2>3, <2>7
<1>6. CASE SendDone
  <2> DEFINE e == Event("done", <<>>)
             q == [p EXCEPT !.done = TRUE]
  <2>1. p.finish /\ ~p.done
    BY <1>f, <1>6 DEF SendDone
  <2>2. e \in Events /\ net' = Append(net, e)
    BY <1>6, <1>e DEF SendDone, Serve, Event, Events, Kinds
  <2>3. SentStep(message, p, e, q)
    BY <2>1 DEF SentStep, Event
  <2>4. left' = [Unsent(p) EXCEPT !.done = FALSE]
    BY <1>c, <1>6 DEF SendDone
  <2>5. left' = [thinking |-> Unsent(p).thinking, text |-> Unsent(p).text,
                 tools |-> Unsent(p).tools, args |-> Unsent(p).args,
                 finish |-> ~p.finish, done |-> FALSE, noise |-> left.noise]
    BY <2>4 DEF Unsent
  <2>6. /\ q.thinking = p.thinking /\ q.text = p.text /\ q.tools = p.tools
        /\ q.args = p.args /\ q.finish = p.finish /\ q.done = TRUE
    BY <1>p DEF Positions
  <2>. HIDE DEF q
  <2>7. left' = Unsent(q)' /\ left'.noise \in BOOLEAN
    BY <1>t, <1>c, <2>5, <2>6 DEF Unsent
  <2>. QED  BY <1>s, <2>2, <2>3, <2>7
<1>7. CASE SendNoise
  <2> DEFINE e == Event("noise", <<>>)
  <2>1. ~p.done
    BY <1>f, <1>7 DEF SendNoise
  <2>2. e \in Events /\ net' = Append(net, e)
    BY <1>7, <1>e DEF SendNoise, Serve, Event, Events, Kinds
  <2>3. SentStep(message, p, e, p)
    BY <2>1 DEF SentStep, Event
  <2>4. left' = [Unsent(p) EXCEPT !.noise = FALSE]
    BY <1>c, <1>7 DEF SendNoise
  <2>5. left' = [thinking |-> Unsent(p).thinking, text |-> Unsent(p).text,
                 tools |-> Unsent(p).tools, args |-> Unsent(p).args,
                 finish |-> ~p.finish, done |-> ~p.done, noise |-> FALSE]
    BY <2>4 DEF Unsent
  <2>6. left' = Unsent(p)' /\ left'.noise \in BOOLEAN
    BY <1>t, <1>c, <2>5 DEF Unsent
  <2>. QED  BY <1>s, <2>2, <2>3, <2>6
<1>. QED  BY <1>1, <1>2, <1>3, <1>4, <1>5, <1>6, <1>7 DEF Sending

(* What an actor leaves alone.                                             *)
LEMMA ReaderStays ==
  ASSUME NEW p, Reader(p), UNCHANGED <<message, locals>>
  PROVE  Reader(p)'
BY DEF Reader, locals

LEMMA ServerStays ==
  ASSUME NEW p, Server(p), UNCHANGED <<message, left, conn>>
  PROVE  Server(p)'
BY DEF Server, Unsent

Along(v, read, sent) ==
  /\ Viewer(v) /\ Reader(read) /\ Server(sent)
  /\ Walk(ToldSteps(message), chan, v, View(read))
  /\ Walk(SentSteps(message), net, read, sent)

LEMMA StepsWithin ==
  ASSUME NEW m
  PROVE  /\ SentSteps(m) \subseteq Positions(m) \X Events \X Positions(m)
         /\ ToldSteps(m) \subseteq Views(m) \X Told \X Views(m)
<1>. HIDE DEF Positions, Events, Views, Told
<1>. QED  BY DEF SentSteps, ToldSteps

LEMMA ProviderLeads ==
  ASSUME StreamTypes, ReadAll, Provider,
         NEW v \in Views(message), NEW read \in Positions(message), NEW sent \in Positions(message),
         Along(v, read, sent)
  PROVE  StreamInv'
<1>1. CASE Sending
  <2>0. PICK e \in Events : \E q :
          /\ net' = Append(net, e) /\ UNCHANGED <<message, conn, client, locals, chan, caller>>
          /\ SentStep(message, sent, e, q) /\ Server(q)'
    BY <1>1, SendingLeads DEF Along
  <2>1. PICK q :
          /\ net' = Append(net, e) /\ UNCHANGED <<message, conn, client, locals, chan, caller>>
          /\ SentStep(message, sent, e, q) /\ Server(q)'
    BY <2>0
  <2>2. q \in Positions(message) /\ <<sent, e, q>> \in SentSteps(message)
    BY <2>1, StepLeads DEF StreamTypes
  <2>3. Walk(SentSteps(message), Append(net, e), read, q)
    BY <2>2, WalkAppend DEF StreamTypes, Along
  <2>4. StreamTypes'
    BY <2>1, AppendProperties DEF StreamTypes, caller
  <2>5. conn = "open"
    BY <1>1 DEF Sending, SendThinking, SendText, SendTool, SendArgs, SendFinish, SendDone,
       SendNoise, Serve
  <2>6. ReadAll'
    BY <2>1, <2>5 DEF ReadAll
  <2>7. Viewer(v)' /\ Reader(read)'
    BY <2>1, ReaderStays DEF Along, Viewer, caller
  <2>8. Along(v, read, q)'
    BY <2>1, <2>3, <2>7 DEF Along
  <2>. QED  BY <2>1, <2>2, <2>4, <2>6, <2>8 DEF StreamInv, Along
<1>2. CASE EndBody
  <2>1. /\ conn = "open" /\ conn' = "ended"
        /\ UNCHANGED <<message, left, net, client, locals, chan, caller>>
    BY <1>2 DEF EndBody
  <2>2. StreamTypes' /\ ReadAll'
    BY <2>1 DEF StreamTypes, ReadAll, caller
  <2>3. Viewer(v)' /\ Reader(read)'
    BY <2>1, ReaderStays DEF Along, Viewer, caller
  <2>4. Server(sent)'
    BY <2>1 DEF Along, Server, Unsent
  <2>5. Along(v, read, sent)'
    BY <2>1, <2>3, <2>4 DEF Along
  <2>. QED  BY <2>1, <2>2, <2>5 DEF StreamInv, Along
<1>3. CASE BreakBody
  <2>1. PICK k \in 0..Len(net) : net' = SubSeq(net, 1, k)
    BY <1>3 DEF BreakBody
  <2>2. /\ conn = "open" /\ conn' = "broken"
        /\ UNCHANGED <<message, left, client, locals, chan, caller>>
    BY <1>3 DEF BreakBody
  <2>3. PICK c : Walk(SentSteps(message), SubSeq(net, 1, k), read, c)
    BY WalkPrefix DEF StreamTypes, Along
  <2>4. net' \in Seq(Events)
    BY <2>1, Beginning DEF StreamTypes
  <2>5. c \in Positions(message)
    BY <2>1, <2>3, <2>4, StepsWithin, WalkWithin
  <2>6. StreamTypes' /\ ReadAll'
    BY <2>2, <2>4 DEF StreamTypes, ReadAll, caller
  <2>7. Viewer(v)' /\ Reader(read)' /\ Server(c)'
    BY <2>2, ReaderStays DEF Along, Viewer, caller, Server
  <2>8. Along(v, read, c)'
    BY <2>1, <2>2, <2>3, <2>7 DEF Along
  <2>. QED  BY <2>2, <2>5, <2>6, <2>8 DEF StreamInv, Along
<1>. QED  BY <1>1, <1>2, <1>3 DEF Provider, Sending

-----------------------------------------------------------------------------
(* The caller                                                              *)

LEMMA CallerLeads ==
  ASSUME StreamTypes, ReadAll, Caller,
         NEW v \in Views(message), NEW read \in Positions(message), NEW sent \in Positions(message),
         Along(v, read, sent)
  PROVE  StreamInv'
<1>1. CASE Receive
  <2>1. /\ cli = "receiving" /\ chan # <<>> /\ chan' = Tail(chan)
        /\ UNCHANGED <<server, client, locals>>
        /\ cli' = IF Head(chan).kind = "done" THEN "joining" ELSE cli
        /\ shown' = CASE Head(chan).kind = "text" -> [shown EXCEPT !.text = @ \o Head(chan).fragments]
                      [] Head(chan).kind = "thinking" -> [shown EXCEPT !.thinking = @ \o Head(chan).fragments]
                      [] OTHER -> shown
    BY <1>1 DEF Receive
  <2>2. PICK w : /\ <<v, Head(chan), w>> \in ToldSteps(message)
                 /\ Walk(ToldSteps(message), Tail(chan), w, View(read))
    BY <2>1, WalkTail DEF StreamTypes, Along
  <2>3. Tail(chan) \in Seq(Told)
    BY <2>1, HeadTailProperties DEF StreamTypes
  <2> DEFINE e == Head(chan)
             m == message
  <2>4. e \in Told /\ w \in Views(message) /\ ToldStep(message, v, e, w)
    <3>. HIDE DEF e, Views, Told
    <3>1. <<v, e, w>> \in ToldSteps(message)
      BY <2>2 DEF e
    <3>. QED  BY <3>1 DEF ToldSteps
  <2>5. StreamTypes'
    BY <2>1, <2>3 DEF StreamTypes, server
  <2>6. ReadAll'
    BY <2>1 DEF ReadAll, server
  <2>7. /\ m.thinking \in Seq(STRING) /\ m.text \in Seq(STRING)
        /\ v.thinking \in 0..Len(m.thinking) /\ v.text \in 0..Len(m.text) /\ ~v.done
        /\ shown = [text |-> SubSeq(m.text, 1, v.text), thinking |-> SubSeq(m.thinking, 1, v.thinking)]
    BY <2>4, MessageParts DEF StreamTypes, Views, ToldStep, Along, Viewer
  <2>. HIDE DEF e, m
  <2>8. shown' = [text |-> SubSeq(m.text, 1, w.text), thinking |-> SubSeq(m.thinking, 1, w.thinking)]
    <3>1. CASE e.kind = "thinking"
      <4>1. /\ v.thinking < Len(m.thinking) /\ e.fragments = <<m.thinking[v.thinking + 1]>>
            /\ w.thinking = v.thinking + 1 /\ w.text = v.text
        BY <2>4, <3>1 DEF ToldStep, Views, m
      <4>2. SubSeq(m.thinking, 1, v.thinking) \o e.fragments = SubSeq(m.thinking, 1, w.thinking)
        BY <2>7, <4>1, NextFragment
      <4>. QED  BY <2>1, <2>7, <3>1, <4>1, <4>2 DEF e
    <3>2. CASE e.kind = "text"
      <4>1. /\ v.text < Len(m.text) /\ e.fragments = <<m.text[v.text + 1]>>
            /\ w.text = v.text + 1 /\ w.thinking = v.thinking
        BY <2>4, <3>2 DEF ToldStep, Views, m
      <4>2. SubSeq(m.text, 1, v.text) \o e.fragments = SubSeq(m.text, 1, w.text)
        BY <2>7, <4>1, NextFragment
      <4>. QED  BY <2>1, <2>7, <3>2, <4>1, <4>2 DEF e
    <3>3. CASE e.kind \notin {"text", "thinking"}
      <4>1. w.thinking = v.thinking /\ w.text = v.text
        BY <2>4, <3>3 DEF ToldStep, Views
      <4>. QED  BY <2>1, <2>7, <3>3, <4>1 DEF e
    <3>. QED  BY <3>1, <3>2, <3>3
  <2>9. w.done = (e.kind = "done")
    BY <2>4, <2>7 DEF ToldStep, Views
  <2>10. Viewer(w)'
    <3>1. cli' = IF w.done THEN "joining" ELSE "receiving"
      BY <2>1, <2>9 DEF e
    <3>2. message' = m
      BY <2>1 DEF server, m
    <3>. QED  BY <2>8, <3>1, <3>2 DEF Viewer
  <2>11. Reader(read)' /\ Server(sent)'
    BY <2>1, ReaderStays, ServerStays DEF Along, server
  <2>12. Along(w, read, sent)'
    BY <2>1, <2>2, <2>10, <2>11 DEF Along, server
  <2>. QED  BY <2>1, <2>4, <2>5, <2>6, <2>12 DEF StreamInv, Along, server
<1>2. CASE ReceiveNone \/ JoinTask
  <2>1. /\ UNCHANGED <<server, client, locals, chan, shown>>
        /\ \/ cli = "receiving" /\ chan = <<>> /\ client \in {"ok", "error"} /\ cli' = "joining"
           \/ cli = "joining" /\ client \in {"ok", "error"}
              /\ cli' = IF client = "ok" THEN "succeeded" ELSE "failed"
    BY <1>2 DEF ReceiveNone, JoinTask
  <2>2. StreamTypes' /\ ReadAll'
    BY <2>1 DEF StreamTypes, ReadAll, server
  <2>3. Viewer(v)'
    BY <2>1 DEF Along, Viewer, server
  <2>4. Reader(read)' /\ Server(sent)'
    BY <2>1, ReaderStays, ServerStays DEF Along, server
  <2>5. Along(v, read, sent)'
    BY <2>1, <2>3, <2>4 DEF Along, server
  <2>. QED  BY <2>1, <2>2, <2>5 DEF StreamInv, Along, server
<1>. QED  BY <1>1, <1>2 DEF Caller

-----------------------------------------------------------------------------
(* The client                                                              *)

(* The blocks of one more call.                                            *)
LEMMA CallsNext ==
  ASSUME NEW m \in Messages, NEW n \in 1..Len(m.tools)
  PROVE  Calls(m, n) = Calls(m, n - 1) \o <<ToolUse(m.tools[n].id, ParseArgs(m.tools[n].args))>>
<1> DEFINE f == [k \in 1..Len(m.tools) |-> ToolUse(m.tools[k].id, ParseArgs(m.tools[k].args))]
           S == {f[k] : k \in 1..Len(m.tools)}
<1>1. Len(m.tools) \in Nat
  BY MessageParts
<1>2. /\ \A k \in 1..n : f[k] = ToolUse(m.tools[k].id, ParseArgs(m.tools[k].args))
      /\ \A k \in 1..n : f[k] \in S
  BY <1>1
<1>3. \A j \in 0..n : Calls(m, j) = [k \in 1..j |-> f[k]]
  BY <1>1 DEF Calls
<1>4. f[n] = ToolUse(m.tools[n].id, ParseArgs(m.tools[n].args))
  BY <1>1
<1>. HIDE DEF f, S
<1>5. [k \in 1..n |-> f[k]] = [k \in 1..(n - 1) |-> f[k]] \o <<f[n]>>
  <2> DEFINE s == [k \in 1..(n - 1) |-> f[k]]
             t == [k \in 1..n |-> f[k]]
  <2>1. n - 1 \in Nat /\ n \in Nat
    BY <1>1
  <2>2. s \in Seq(S) /\ Len(s) = n - 1 /\ t \in Seq(S) /\ Len(t) = n
    BY <1>2, <2>1
  <2>3. <<f[n]>> \in Seq(S) /\ Len(<<f[n]>>) = 1
    BY <1>2, Single
  <2>4. /\ s \o <<f[n]>> \in Seq(S) /\ Len(s \o <<f[n]>>) = n
        /\ \A i \in 1..n : (s \o <<f[n]>>)[i] = IF i <= n - 1 THEN s[i] ELSE <<f[n]>>[i - (n - 1)]
    BY <2>1, <2>2, <2>3, ConcatProperties
  <2>5. \A i \in 1..n : (s \o <<f[n]>>)[i] = t[i]
    BY <2>1, <2>4
  <2>. HIDE DEF s, t
  <2>6. t = s \o <<f[n]>>
    BY <2>2, <2>4, <2>5, SeqEqual
  <2>. QED  BY <2>6 DEF s, t
<1>6. n \in 0..n /\ n - 1 \in 0..n
  BY <1>1
<1>. QED  BY <1>3, <1>4, <1>5, <1>6

(* What event e does to what the client has: it comes before [DONE], and   *)
(* all but the finish reason, [DONE] and noise before that reason.         *)
LEMMA StepBefore ==
  ASSUME NEW m \in Messages, NEW p \in Positions(m), NEW e, NEW q, SentStep(m, p, e, q)
  PROVE  ~p.done /\ (e.kind \in {"thinking", "text", "tool", "args"} => ~p.finish)
<1>1. Len(m.thinking) \in Nat /\ Len(m.text) \in Nat /\ Len(m.tools) \in Nat
      /\ \A n \in 0..Len(m.tools) : Len(Arguments(m, n)) \in Nat
  BY MessageParts
<1>2. /\ p.thinking \in 0..Len(m.thinking) /\ p.text \in 0..Len(m.text)
      /\ p.tools \in 0..Len(m.tools) /\ p.args \in Nat
      /\ p.finish => Full(m, p)
      /\ p.done => p.finish
  BY DEF Positions
<1>. QED  BY <1>1, <1>2 DEF SentStep, Full

(* Reading the next event: where it leads, and what is left to do.         *)
LEMMA Reads ==
  ASSUME StreamTypes, NEW kind, Read(kind), NEW v \in Views(message),
         NEW read \in Positions(message), NEW sent \in Positions(message), Along(v, read, sent)
  PROVE  /\ Head(net) \in Events /\ Head(net).kind = kind
         /\ \E q \in Positions(message) :
              /\ SentStep(message, read, Head(net), q)
              /\ (chan' \in Seq(Told) /\ Reader(q)'
                  /\ Walk(ToldSteps(message), chan', v, View(q))) => StreamInv'
<1>1. /\ client = "reading" /\ net # <<>> /\ Head(net).kind = kind /\ net' = Tail(net)
      /\ UNCHANGED <<message, left, conn, client, caller>>
  BY DEF Read
<1>2. PICK q : /\ <<read, Head(net), q>> \in SentSteps(message)
               /\ Walk(SentSteps(message), Tail(net), q, sent)
  BY <1>1, WalkTail DEF StreamTypes, Along
<1>3. Head(net) \in Events /\ Tail(net) \in Seq(Events)
  BY <1>1, HeadTailProperties DEF StreamTypes
<1>4. q \in Positions(message) /\ SentStep(message, read, Head(net), q)
  <2>. HIDE DEF Positions, Events
  <2>. QED  BY <1>2 DEF SentSteps
<1>5. ASSUME chan' \in Seq(Told), Reader(q)', Walk(ToldSteps(message), chan', v, View(q))
      PROVE  StreamInv'
  <2>1. StreamTypes' /\ ReadAll'
    BY <1>1, <1>3, <1>5 DEF StreamTypes, ReadAll, caller
  <2>2. Viewer(v)'
    BY <1>1 DEF Along, Viewer, caller
  <2>3. Server(sent)'
    BY <1>1, ServerStays DEF Along
  <2>4. Along(v, q, sent)'
    BY <1>1, <1>2, <1>5, <2>2, <2>3 DEF Along
  <2>. QED  BY <1>1, <1>4, <2>1, <2>4 DEF StreamInv, Along
<1>. QED  BY <1>1, <1>3, <1>4, <1>5

LEMMA ReadingLeads ==
  ASSUME StreamTypes, NEW v \in Views(message),
         NEW read \in Positions(message), NEW sent \in Positions(message), Along(v, read, sent),
         ReadThinking \/ ReadText \/ ReadTool \/ ReadArgs \/ ReadFinish \/ ReadNoise \/ ReadDone
  PROVE  StreamInv'
<1> DEFINE m == message
           e == Head(net)
           steps == ToldSteps(m)
<1>1. PICK kind : Read(kind)
  BY DEF ReadThinking, ReadText, ReadTool, ReadArgs, ReadFinish, ReadNoise, ReadDone
<1>2. PICK q \in Positions(m) :
        /\ SentStep(m, read, e, q)
        /\ (chan' \in Seq(Told) /\ Reader(q)' /\ Walk(steps, chan', v, View(q))) => StreamInv'
  BY <1>1, Reads
<1>3. e \in Events /\ e.kind = kind
  BY <1>1, Reads
<1>4. m \in Messages /\ m' = m /\ chan \in Seq(Told) /\ Reader(read) /\ Walk(steps, chan, v, View(read))
  BY <1>1 DEF Read, StreamTypes, Along
<1>5. ~read.done /\ (e.kind \in {"thinking", "text", "tool", "args"} => ~read.finish)
  BY <1>2, <1>4, StepBefore
<1>p. /\ m.thinking \in Seq(STRING) /\ m.text \in Seq(STRING)
      /\ Len(m.thinking) \in Nat /\ Len(m.text) \in Nat /\ Len(m.tools) \in Nat
      /\ \A n \in 1..Len(m.tools) :
           m.tools[n].id \in STRING \ {NoTool} /\ m.tools[n].args \in Seq(STRING)
      /\ \A n \in 0..Len(m.tools) :
           Arguments(m, n) \in Seq(STRING) /\ Len(Arguments(m, n)) \in Nat
  BY <1>4, MessageParts
<1>r. /\ stop = IF read.finish THEN ParseFinish(m.finish) ELSE "EndTurn"
      /\ thinking = SubSeq(m.thinking, 1, read.thinking)
      /\ text = SubSeq(m.text, 1, read.text)
      /\ tool = IF read.tools = 0 THEN NoTool ELSE m.tools[read.tools].id
      /\ args = SubSeq(Arguments(m, read.tools), 1, read.args)
      /\ content = Calls(m, read.tools - 1)
  BY <1>4, <1>5 DEF Reader
<1>v. ASSUME NEW w \in Positions(m)  PROVE View(w) \in Views(m)
  BY DEF Positions, View, Views
<1>t. ASSUME NEW d \in Told, NEW w \in Positions(m), ToldStep(m, View(read), d, View(w))
      PROVE  Append(chan, d) \in Seq(Told) /\ Walk(steps, Append(chan, d), v, View(w))
  <2>1. <<View(read), d, View(w)>> \in steps
    <3>1. View(read) \in Views(m) /\ View(w) \in Views(m)
      BY <1>v
    <3>. HIDE DEF Views, Told, View
    <3>. QED  BY <1>t, <3>1 DEF ToldSteps
  <2>. HIDE DEF steps
  <2>. QED  BY <1>4, <1>t, <2>1, WalkAppend, AppendProperties
<1>6. CASE ReadThinking
  <2>1. /\ e.kind = "thinking" /\ thinking' = thinking \o e.fragments /\ chan' = Append(chan, e)
        /\ UNCHANGED <<text, tool, args, content, stop>>
    BY <1>6 DEF ReadThinking, Read, Tell
  <2>2. /\ read.thinking < Len(m.thinking) /\ e.fragments = <<m.thinking[read.thinking + 1]>>
        /\ q = [read EXCEPT !.thinking = @ + 1]
    BY <1>2, <2>1 DEF SentStep
  <2>3. /\ read.thinking \in 0..Len(m.thinking) /\ q.thinking = read.thinking + 1
        /\ q.text = read.text /\ q.tools = read.tools /\ q.args = read.args
        /\ q.finish = read.finish /\ q.done = read.done
    BY <2>2 DEF Positions
  <2>. HIDE DEF m, e
  <2>4. thinking' = SubSeq(m.thinking, 1, q.thinking)
    BY <1>p, <1>r, <2>1, <2>2, <2>3, NextFragment
  <2>5. Reader(q)'
    BY <1>4, <1>5, <1>r, <2>1, <2>3, <2>4 DEF Reader, m
  <2>6. ToldStep(m, View(read), e, View(q)) /\ e \in Told
    BY <1>3, <1>5, <2>1, <2>2, <2>3 DEF ToldStep, View, Events, Told
  <2>. QED  BY <1>2, <1>t, <2>1, <2>5, <2>6
<1>7. CASE ReadText
  <2>1. /\ e.kind = "text" /\ text' = text \o e.fragments /\ chan' = Append(chan, e)
        /\ UNCHANGED <<thinking, tool, args, content, stop>>
    BY <1>7 DEF ReadText, Read, Tell
  <2>2. /\ read.text < Len(m.text) /\ e.fragments = <<m.text[read.text + 1]>>
        /\ q = [read EXCEPT !.text = @ + 1]
    BY <1>2, <2>1 DEF SentStep
  <2>3. /\ read.text \in 0..Len(m.text) /\ q.text = read.text + 1
        /\ q.thinking = read.thinking /\ q.tools = read.tools /\ q.args = read.args
        /\ q.finish = read.finish /\ q.done = read.done
    BY <2>2 DEF Positions
  <2>. HIDE DEF m, e
  <2>4. text' = SubSeq(m.text, 1, q.text)
    BY <1>p, <1>r, <2>1, <2>2, <2>3, NextFragment
  <2>5. Reader(q)'
    BY <1>4, <1>5, <1>r, <2>1, <2>3, <2>4 DEF Reader, m
  <2>6. ToldStep(m, View(read), e, View(q)) /\ e \in Told
    BY <1>3, <1>5, <2>1, <2>2, <2>3 DEF ToldStep, View, Events, Told
  <2>. QED  BY <1>2, <1>t, <2>1, <2>5, <2>6
<1>8. CASE ReadArgs
  <2> DEFINE a == Arguments(m, read.tools)
  <2>1. /\ e.kind = "args" /\ args' = args \o e.fragments /\ chan' = Append(chan, e)
        /\ UNCHANGED <<thinking, text, tool, content, stop>>
    BY <1>8 DEF ReadArgs, Read, Tell
  <2>2. /\ read.args < Len(a) /\ e.fragments = <<a[read.args + 1]>>
        /\ q = [read EXCEPT !.args = @ + 1]
    BY <1>2, <2>1 DEF SentStep
  <2>3. /\ read.args \in Nat /\ read.tools \in 0..Len(m.tools) /\ q.args = read.args + 1
        /\ q.thinking = read.thinking /\ q.text = read.text /\ q.tools = read.tools
        /\ q.finish = read.finish /\ q.done = read.done
    BY <2>2 DEF Positions
  <2>. HIDE DEF m, e
  <2>4. args' = SubSeq(Arguments(m, q.tools), 1, q.args)
    <3>1. a \in Seq(STRING) /\ read.args \in 0..Len(a) /\ args = SubSeq(a, 1, read.args)
      BY <1>p, <1>r, <2>2, <2>3
    <3>2. a = Arguments(m, q.tools)
      BY <2>3
    <3>. HIDE DEF a
    <3>3. args' = SubSeq(a, 1, q.args)
      BY <2>1, <2>2, <2>3, <3>1, NextFragment
    <3>. QED  BY <3>2, <3>3
  <2>5. Reader(q)'
    BY <1>4, <1>5, <1>r, <2>1, <2>3, <2>4 DEF Reader, m
  <2>6. ToldStep(m, View(read), e, View(q)) /\ e \in Told
    BY <1>3, <1>5, <2>1, <2>3 DEF ToldStep, View, Events, Told
  <2>. QED  BY <1>2, <1>t, <2>1, <2>5, <2>6
<1>9. CASE ReadFinish
  <2>1. /\ e.kind = "finish" /\ stop' = ParseFinish(m.finish)
        /\ UNCHANGED <<thinking, text, tool, args, content, chan>>
    BY <1>9 DEF ReadFinish, Read
  <2>2. q = [read EXCEPT !.finish = TRUE]
    BY <1>2, <2>1 DEF SentStep
  <2>3. /\ q.thinking = read.thinking /\ q.text = read.text /\ q.tools = read.tools
        /\ q.args = read.args /\ q.finish = TRUE /\ q.done = read.done
    BY <2>2 DEF Positions
  <2>. HIDE DEF m, e
  <2>4. Reader(q)'
    BY <1>4, <1>5, <1>r, <2>1, <2>3 DEF Reader, m
  <2>5. View(q) = View(read)
    BY <2>3 DEF View
  <2>. QED  BY <1>2, <1>4, <2>1, <2>4, <2>5
<1>10. CASE ReadNoise
  <2>1. e.kind = "noise" /\ UNCHANGED <<locals, chan>>
    BY <1>10 DEF ReadNoise, Read
  <2>2. q = read
    BY <1>2, <2>1 DEF SentStep
  <2>3. Reader(q)'
    BY <1>4, <2>1, <2>2, ReaderStays
  <2>. QED  BY <1>2, <1>4, <2>1, <2>2, <2>3
<1>11. CASE ReadDone
  <2>1. /\ e.kind = "done" /\ chan' = Append(chan, e) /\ stop' = stop
        /\ content' = content \o Unless(thinking = <<>>, ThinkingBlock(thinking))
                              \o Unless(text = <<>>, TextBlock(text)) \o PendingTool
    BY <1>11 DEF ReadDone, Read, Tell
  <2>2. read.finish /\ q = [read EXCEPT !.done = TRUE]
    BY <1>2, <2>1 DEF SentStep
  <2>3. /\ Full(m, read) /\ q.done = TRUE /\ q.finish = read.finish
        /\ View(q) = [thinking |-> View(read).thinking, text |-> View(read).text, done |-> TRUE]
    <3>1. Full(m, read)
      BY <2>2 DEF Positions
    <3>2. /\ q.thinking = read.thinking /\ q.text = read.text
          /\ q.done = TRUE /\ q.finish = read.finish
      BY <2>2 DEF Positions
    <3>3. View(q) = [thinking |-> View(read).thinking, text |-> View(read).text, done |-> TRUE]
      BY <3>2 DEF View
    <3>. QED  BY <3>1, <3>2, <3>3
  <2>. HIDE DEF m, e
  <2>4. /\ thinking = m.thinking /\ text = m.text /\ content = Calls(m, Len(m.tools) - 1)
        /\ tool = IF Len(m.tools) = 0 THEN NoTool ELSE m.tools[Len(m.tools)].id
        /\ args = Arguments(m, Len(m.tools))
    BY <1>p, <1>r, <2>3, SubSeqFull DEF Full
  <2>5. PendingTool = LastCall(m)
    BY <1>p, <2>4 DEF PendingTool, LastCall, Unless, Arguments
  <2>6. content' = Flushed(m)
    BY <2>1, <2>4, <2>5 DEF Flushed
  <2>7. Reader(q)'
    BY <1>4, <1>r, <2>1, <2>2, <2>3, <2>6 DEF Reader, m
  <2>8. ToldStep(m, View(read), e, View(q)) /\ e \in Told
    BY <1>3, <1>5, <2>1, <2>3 DEF ToldStep, View, Events, Told
  <2>. QED  BY <1>2, <1>t, <2>1, <2>7, <2>8
<1>12. CASE ReadTool
  <2> DEFINE u == m.tools[read.tools + 1]
             told == ToolEvent(u.id, <<>>)
             more == Event("args", e.fragments)
  <2>1. /\ e.kind = "tool" /\ content' = content \o PendingTool /\ tool' = e.id
        /\ args' = (IF tool = NoTool THEN args ELSE <<>>) \o e.fragments
        /\ chan' = chan \o <<ToolEvent(e.id, <<>>)>> \o Unless(e.fragments = <<>>, more)
        /\ UNCHANGED <<thinking, text, stop>>
    BY <1>12 DEF ReadTool, Read
  <2>2. /\ read.args = Len(Arguments(m, read.tools)) /\ read.tools < Len(m.tools) /\ e.id = u.id
        /\ e.fragments \in {<<>>, Arguments(m, read.tools + 1)}
        /\ q = [read EXCEPT !.tools = @ + 1, !.args = Len(e.fragments)]
    BY <1>2, <2>1 DEF SentStep
  <2>3. /\ read.tools \in 0..Len(m.tools)
        /\ q.thinking = read.thinking /\ q.text = read.text /\ q.tools = read.tools + 1
        /\ q.args = Len(e.fragments) /\ q.finish = read.finish /\ q.done = read.done
    BY <2>2 DEF Positions
  <2>. HIDE DEF m, e
  <2>4. PICK n \in 0..Len(m.tools) : n = read.tools
    BY <2>3
  <2>5. /\ n \in Nat /\ n + 1 \in 1..Len(m.tools) /\ q.tools = n + 1 /\ q.tools - 1 = n
        /\ Arguments(m, n) \in Seq(STRING) /\ Arguments(m, n + 1) \in Seq(STRING)
    BY <1>p, <2>2, <2>3, <2>4
  <2>6. args = Arguments(m, n)
    BY <1>r, <2>2, <2>4, <2>5, SubSeqFull
  <2>7. content' = Calls(m, n)
    <3>1. CASE n = 0
      <4>1. content = <<>> /\ PendingTool = <<>> /\ Calls(m, n) = <<>>
        BY <1>r, <2>4, <3>1 DEF PendingTool, Unless, Calls
      <4>2. <<>> \o <<>> = <<>>
        BY EmptySeq, ConcatEmptySeq
      <4>. QED  BY <2>1, <4>1, <4>2
    <3>2. CASE n # 0
      <4>1. n \in 1..Len(m.tools)
        BY <3>2
      <4>2. tool = m.tools[n].id /\ tool # NoTool /\ args = m.tools[n].args
        BY <1>p, <1>r, <2>4, <2>6, <3>2, <4>1 DEF Arguments
      <4>3. PendingTool = <<ToolUse(m.tools[n].id, ParseArgs(m.tools[n].args))>>
        BY <4>2 DEF PendingTool, Unless
      <4>. QED  BY <1>4, <1>r, <2>1, <2>4, <4>1, <4>3, CallsNext
    <3>. QED  BY <3>1, <3>2
  <2>8. e.fragments \in Seq(STRING) /\ args' = e.fragments
    <3>1. e.fragments \in Seq(STRING)
      BY <1>3 DEF Events
    <3>2. tool = NoTool => args = <<>>
      <4>1. CASE n = 0
        BY <2>6, <4>1 DEF Arguments
      <4>2. CASE n # 0
        BY <1>p, <1>r, <2>4, <4>2
      <4>. QED  BY <4>1, <4>2
    <3>. QED  BY <2>1, <3>1, <3>2, ConcatEmptySeq
  <2>9. args' = SubSeq(Arguments(m, n + 1), 1, q.args)
    <3>1. CASE e.fragments = <<>>
      <4>1. SubSeq(Arguments(m, n + 1), 1, 0) = <<>>
        BY SubSeqEmpty
      <4>2. q.args = 0
        BY <2>3, <3>1, EmptySeq
      <4>. QED  BY <2>8, <3>1, <4>1, <4>2
    <3>2. CASE e.fragments = Arguments(m, n + 1)
      BY <2>3, <2>5, <2>8, <3>2, SubSeqFull
    <3>. QED  BY <2>2, <2>4, <3>1, <3>2
  <2>10. tool' = m.tools[n + 1].id
    BY <2>1, <2>2, <2>4
  <2>11. Reader(q)'
    <3>1. /\ thinking' = SubSeq(m.thinking, 1, q.thinking) /\ text' = SubSeq(m.text, 1, q.text)
          /\ tool' = IF q.tools = 0 THEN NoTool ELSE m.tools[q.tools].id
          /\ args' = SubSeq(Arguments(m, q.tools), 1, q.args)
          /\ content' = Calls(m, q.tools - 1)
      <4>1. thinking' = SubSeq(m.thinking, 1, q.thinking) /\ text' = SubSeq(m.text, 1, q.text)
        BY <1>r, <2>1, <2>3
      <4>2. q.tools # 0 /\ tool' = m.tools[q.tools].id
        BY <2>5, <2>10
      <4>3. args' = SubSeq(Arguments(m, q.tools), 1, q.args) /\ content' = Calls(m, q.tools - 1)
        BY <2>5, <2>7, <2>9
      <4>. QED  BY <4>1, <4>2, <4>3
    <3>2. stop' = IF q.finish THEN ParseFinish(m.finish) ELSE "EndTurn"
      BY <1>r, <2>1, <2>3
    <3>3. message' = m /\ ~q.done
      BY <1>4, <1>5, <2>3 DEF m
    <3>. QED  BY <3>1, <3>2, <3>3 DEF Reader
  <2>12. /\ told \in Told /\ more \in Told /\ View(q) = View(read)
         /\ ToldStep(m, View(read), told, View(q)) /\ ToldStep(m, View(q), more, View(q))
    <3>1. u.id \in Ids /\ NoTool \in Ids
      BY <1>p, <2>4, <2>5 DEF Ids
    <3>2. View(q) = View(read) /\ ~View(q).done
      BY <1>5, <2>3 DEF View
    <3>3. told \in Told /\ told.kind = "tool" /\ more \in Told /\ more.kind = "args"
      BY <2>8, <3>1, EmptySeq DEF ToolEvent, Event, Told, Kinds
    <3>. QED  BY <3>2, <3>3 DEF ToldStep
  <2>. HIDE DEF told, more
  <2>13. Append(chan, told) \in Seq(Told) /\ Walk(steps, Append(chan, told), v, View(q))
    BY <1>t, <2>12
  <2>14. /\ Append(Append(chan, told), more) \in Seq(Told)
         /\ Walk(steps, Append(Append(chan, told), more), v, View(q))
    <3>. HIDE DEF steps
    <3>1. <<View(q), more, View(q)>> \in steps
      <4>1. View(q) \in Views(m)
        BY <1>v
      <4>. HIDE DEF Views, Told, View
      <4>. QED  BY <2>12, <4>1 DEF ToldSteps, steps
    <3>. QED  BY <2>12, <2>13, <3>1, WalkAppend, AppendProperties
  <2>15. /\ chan \o <<told>> = Append(chan, told)
         /\ Append(chan, told) \o <<more>> = Append(Append(chan, told), more)
         /\ Append(chan, told) \o <<>> = Append(chan, told)
    BY <1>4, <2>12, <2>13, AppendIsConcat, ConcatEmptySeq
  <2>16. chan' \in {Append(chan, told), Append(Append(chan, told), more)}
    BY <2>1, <2>2, <2>15 DEF Unless, told
  <2>. QED  BY <1>2, <2>11, <2>13, <2>14, <2>16
<1>. QED  BY <1>6, <1>7, <1>8, <1>9, <1>10, <1>11, <1>12

LEMMA ClientLeads ==
  ASSUME StreamTypes, ReadAll, Client,
         NEW v \in Views(message), NEW read \in Positions(message), NEW sent \in Positions(message),
         Along(v, read, sent)
  PROVE  StreamInv'
<1>1. CASE PostAccepted \/ PostRefused \/ ClientReturns
  <2>1. /\ UNCHANGED <<server, locals, chan, caller>>
        /\ client \in {"posting", "reading"} /\ client' \in {"reading", "ok", "error"}
        /\ client' = "ok" => net = <<>> /\ conn = "ended"
    BY <1>1 DEF PostAccepted, PostRefused, ClientReturns, StreamTypes
  <2>2. StreamTypes' /\ ReadAll'
    BY <2>1 DEF StreamTypes, ReadAll, server, caller
  <2>3. Viewer(v)'
    BY <2>1 DEF Along, Viewer, server, caller
  <2>4. Reader(read)' /\ Server(sent)'
    BY <2>1, ReaderStays, ServerStays DEF Along, server
  <2>5. Along(v, read, sent)'
    BY <2>1, <2>3, <2>4 DEF Along, server
  <2>. QED  BY <2>1, <2>2, <2>5 DEF StreamInv, Along, server
<1>2. CASE ReadThinking \/ ReadText \/ ReadTool \/ ReadArgs \/ ReadFinish \/ ReadNoise \/ ReadDone
  BY <1>2, ReadingLeads
<1>. QED  BY <1>1, <1>2 DEF Client

-----------------------------------------------------------------------------
(* The invariant holds                                                     *)

LEMMA StreamInitInv ==
  ASSUME StreamInit
  PROVE  StreamInv
<1> DEFINE m == message
<1>1. /\ m \in Messages
      /\ left = [thinking |-> m.thinking, text |-> m.text,
                 tools |-> m.tools, args |-> <<>>, finish |-> TRUE,
                 done |-> TRUE, noise |-> "noise" \in Hiccups]
      /\ net = <<>> /\ conn = "open" /\ client = "posting"
      /\ thinking = <<>> /\ text = <<>> /\ tool = NoTool /\ args = <<>> /\ content = <<>>
      /\ stop = "EndTurn" /\ chan = <<>> /\ cli = "receiving"
      /\ shown = [text |-> <<>>, thinking |-> <<>>]
  BY DEF StreamInit
<1>2. /\ m.thinking \in Seq(STRING) /\ m.text \in Seq(STRING)
      /\ m.tools \in Seq([id : STRING \ {NoTool}, args : Seq(STRING)])
      /\ Len(m.thinking) \in Nat /\ Len(m.text) \in Nat /\ Len(m.tools) \in Nat
  BY <1>1, MessageParts
<1>3. Arguments(m, 0) = <<>> /\ Len(Arguments(m, 0)) = 0
  BY EmptySeq DEF Arguments
<1>4. /\ SubSeq(m.thinking, 1, 0) = <<>> /\ SubSeq(m.text, 1, 0) = <<>>
      /\ SubSeq(<<>>, 1, 0) = <<>> /\ Calls(m, -1) = <<>>
  <2>1. /\ SubSeq(m.thinking, 1, 0) = <<>> /\ SubSeq(m.text, 1, 0) = <<>>
        /\ SubSeq(<<>>, 1, 0) = <<>>
    BY SubSeqEmpty
  <2>. QED  BY <2>1 DEF Calls
<1>5. /\ SubSeq(m.thinking, 1, Len(m.thinking)) = m.thinking
      /\ SubSeq(m.text, 1, Len(m.text)) = m.text
      /\ SubSeq(m.tools, 1, Len(m.tools)) = m.tools
  <2>1. SubSeq(m.thinking, 1, Len(m.thinking)) = m.thinking
        /\ SubSeq(m.text, 1, Len(m.text)) = m.text
    BY <1>2, SubSeqFull
  <2> DEFINE s == m.tools
             T == [id : STRING \ {NoTool}, args : Seq(STRING)]
  <2>2. s \in Seq(T)
    BY <1>2
  <2>. HIDE DEF s, T
  <2>3. SubSeq(s, 1, Len(s)) = s
    BY <2>2, SubSeqFull
  <2>. QED  BY <2>1, <2>3 DEF s
<1>6. Start \in Positions(m) /\ View(Start) \in Views(m)
  BY <1>2, <1>3 DEF Start, Positions, View, Views
<1>. HIDE DEF m
<1>7. StreamTypes /\ ReadAll
  BY <1>1, EmptySeq DEF StreamTypes, ReadAll, m
<1>8. Viewer(View(Start))
  BY <1>1, <1>4 DEF Viewer, View, Start, m
<1>9. Reader(Start)
  BY <1>1, <1>3, <1>4 DEF Reader, Start, m
<1>10. Server(Start)
  <2>1. left = [thinking |-> SubSeq(m.thinking, 1, Len(m.thinking)),
                text |-> SubSeq(m.text, 1, Len(m.text)),
                tools |-> SubSeq(m.tools, 1, Len(m.tools)),
                args |-> SubSeq(Arguments(m, 0), 1, Len(Arguments(m, 0))),
                finish |-> TRUE, done |-> TRUE, noise |-> "noise" \in Hiccups]
    BY <1>1, <1>3, <1>4, <1>5
  <2>2. left.noise = ("noise" \in Hiccups) /\ left.noise \in BOOLEAN
    BY <2>1
  <2>3. /\ Start.thinking + 1 = 1 /\ Start.text + 1 = 1 /\ Start.tools + 1 = 1
        /\ Start.tools = 0 /\ Start.args + 1 = 1 /\ ~Start.finish /\ ~Start.done
    BY DEF Start
  <2>4. left = Unsent(Start)
    BY <2>1, <2>2, <2>3 DEF Unsent, m
  <2>. QED  BY <2>2, <2>4 DEF Server
<1>11. /\ Walk(ToldSteps(message), chan, View(Start), View(Start))
       /\ Walk(SentSteps(message), net, Start, Start)
  BY <1>1, WalkEmpty
<1>. QED  BY <1>6, <1>7, <1>8, <1>9, <1>10, <1>11 DEF StreamInv, m

LEMMA StreamStepInv ==
  ASSUME StreamInv, [StreamNext]_streamVars
  PROVE  StreamInv'
<1>1. StreamTypes /\ ReadAll
  BY DEF StreamInv
<1>2. PICK v \in Views(message), read \in Positions(message), sent \in Positions(message) :
        Along(v, read, sent)
  BY DEF StreamInv, Along
<1>3. CASE UNCHANGED streamVars
  <2>1. UNCHANGED <<message, left, net, conn, client, locals, chan, cli, shown>>
    BY <1>3 DEF streamVars, server, caller
  <2>2. StreamTypes' /\ ReadAll' /\ Viewer(v)'
    BY <1>1, <1>2, <2>1 DEF StreamTypes, ReadAll, Viewer, Along
  <2>3. Reader(read)' /\ Server(sent)'
    BY <1>2, <2>1, ReaderStays, ServerStays DEF Along
  <2>4. Along(v, read, sent)'
    BY <1>2, <2>1, <2>2, <2>3 DEF Along
  <2>. QED  BY <2>1, <2>2, <2>4 DEF StreamInv, Along
<1>. QED  BY <1>1, <1>2, <1>3, ProviderLeads, ClientLeads, CallerLeads DEF StreamNext

(* At any moment of a streamed completion all that is under way is a walk  *)
(* through the provider's message: the task and the caller of              *)
(* cmd_llm_complete neither lose nor reorder nor repeat an event.          *)
THEOREM NothingLost == StreamSpec => []StreamInv
<1>. QED  BY StreamInitInv, StreamStepInv, PTL DEF StreamSpec

-----------------------------------------------------------------------------
(* The items of one type                                                   *)

(* OfType as it is built up, item by item.                                 *)
Builds(f, T, items, type) ==
  /\ f[0] = <<>> /\ OfType(items, type) = f[Len(items)]
  /\ \A n \in 0..Len(items) : f[n] \in Seq(T)
  /\ \A n \in 1..Len(items) : f[n] = f[n - 1] \o Unless(items[n].type # type, items[n])

LEMMA OfTypeDef ==
  ASSUME NEW T, NEW items \in Seq(T), NEW type
  PROVE  \E f : Builds(f, T, items, type)
<1> DEFINE one == [n \in 1..Len(items) |-> Unless(items[n].type # type, items[n])]
           add == [n \in Nat |->
                     [x \in Seq(T) |-> IF n < Len(items) THEN x \o one[n + 1] ELSE x]]
           Keeps(g) == g = [n \in 0..Len(items) |->
                              IF n = 0 THEN <<>>
                              ELSE g[n - 1] \o Unless(items[n].type # type, items[n])]
<1>1. Len(items) \in Nat /\ \A n \in 1..Len(items) : one[n] \in Seq(T)
  <2>1. Len(items) \in Nat
    BY LenProperties
  <2>2. ASSUME NEW n \in 1..Len(items)  PROVE Unless(items[n].type # type, items[n]) \in Seq(T)
    <3>1. items[n] \in T
      BY <2>2, ElementOfSeq
    <3>2. <<items[n]>> \in Seq(T) /\ <<>> \in Seq(T)
      BY <3>1, Single, EmptySeq
    <3>. QED  BY <3>2 DEF Unless
  <2>. QED  BY <2>1, <2>2
<1>2. \A n \in 1..Len(items) : one[n] = Unless(items[n].type # type, items[n])
  OBVIOUS
<1>. HIDE DEF one
<1>3. add \in Steps(Seq(T)) /\ <<>> \in Seq(T)
  <2>1. ASSUME NEW n \in Nat, NEW x \in Seq(T), n < Len(items)  PROVE x \o one[n + 1] \in Seq(T)
    <3>1. one[n + 1] \in Seq(T)
      BY <1>1, <2>1
    <3>. QED  BY <3>1, ConcatProperties
  <2>. QED  BY <2>1, EmptySeq DEF Steps
<1>4. \A n \in Nat : \A x \in Seq(T) : n < Len(items) => add[n][x] = x \o one[n + 1]
  OBVIOUS
<1>. HIDE DEF add
<1>5. PICK f : Follows(f, <<>>, add)
  BY <1>3, Recursion
<1>6. /\ \A n \in Nat : f[n] \in Seq(T)
      /\ f[0] = <<>> /\ \A n \in Nat : f[n + 1] = add[n][f[n]]
  <2>1. Unfolds(f, Seq(T), <<>>, add)
    BY <1>3, <1>5, Unfold
  <2>2. f \in [Nat -> Seq(T)] /\ f[0] = <<>> /\ \A n \in Nat : f[n + 1] = add[n][f[n]]
    BY <2>1 DEF Unfolds
  <2>. QED  BY <2>2
<1>7. ASSUME NEW n \in 1..Len(items)  PROVE f[n] = f[n - 1] \o one[n]
  <2>1. n - 1 \in Nat /\ (n - 1) + 1 = n /\ n - 1 < Len(items)
    BY <1>1
  <2>. QED  BY <1>4, <1>6, <2>1
<1> DEFINE g == [n \in 0..Len(items) |-> f[n]]
<1>8. Keeps(g)
  <2>1. \A n \in 0..Len(items) : n # 0 => n - 1 \in 0..Len(items) /\ n \in 1..Len(items)
    BY <1>1
  <2>2. ASSUME NEW n \in 0..Len(items)
        PROVE  g[n] = IF n = 0 THEN <<>>
                      ELSE g[n - 1] \o Unless(items[n].type # type, items[n])
    BY <1>2, <1>6, <1>7, <2>1
  <2>3. g = [n \in 0..Len(items) |-> g[n]]
    OBVIOUS
  <2>. HIDE DEF g
  <2>. QED  BY <2>2, <2>3
<1> DEFINE h == CHOOSE k : Keeps(k)
<1>9. Keeps(h)
  <2>. HIDE DEF Keeps, g
  <2>. QED  BY <1>8, Zenon
<1>10. OfType(items, type) = h[Len(items)]
  BY Zenon DEF OfType
<1>. HIDE DEF h
<1>11. /\ h[0] = <<>>
       /\ \A n \in 1..Len(items) : h[n] = h[n - 1] \o Unless(items[n].type # type, items[n])
  <2>1. h = [n \in 0..Len(items) |->
               IF n = 0 THEN <<>> ELSE h[n - 1] \o Unless(items[n].type # type, items[n])]
    BY <1>9
  <2>2. 0 \in 0..Len(items) /\ \A n \in 1..Len(items) : n \in 0..Len(items) /\ n # 0
    BY <1>1
  <2>. HIDE DEF Keeps
  <2>. QED  BY <2>1, <2>2
<1>12. \A n \in 0..Len(items) : h[n] \in Seq(T)
  <2> DEFINE D == {n \in Nat : n <= Len(items) => h[n] \in Seq(T)}
  <2>1. 0 \in D
    BY <1>11, EmptySeq
  <2>2. ASSUME NEW n \in Nat, n \in D  PROVE n + 1 \in D
    <3> SUFFICES ASSUME n + 1 <= Len(items)  PROVE h[n + 1] \in Seq(T)
      OBVIOUS
    <3>1. n + 1 \in 1..Len(items) /\ (n + 1) - 1 = n /\ h[n] \in Seq(T)
      BY <1>1, <2>2
    <3>2. h[n + 1] = h[n] \o one[n + 1] /\ one[n + 1] \in Seq(T)
      BY <1>1, <1>2, <1>11, <3>1
    <3>. QED  BY <3>1, <3>2, ConcatProperties
  <2>. HIDE DEF D
  <2>3. Nat \subseteq D
    BY <2>1, <2>2, Induction
  <2>. QED  BY <1>1, <2>3 DEF D
<1>13. Builds(h, T, items, type)
  BY <1>10, <1>11, <1>12 DEF Builds
<1>. QED  BY <1>13

LEMMA OfTypeConcat ==
  \A T, type : \A s, t \in Seq(T) : OfType(s \o t, type) = OfType(s, type) \o OfType(t, type)
<1> SUFFICES ASSUME NEW T, NEW type, NEW s \in Seq(T), NEW t \in Seq(T)
             PROVE  OfType(s \o t, type) = OfType(s, type) \o OfType(t, type)
  OBVIOUS
<1> DEFINE u == s \o t
           Item(x) == Unless(x.type # type, x)
<1>1. Len(s) \in Nat /\ Len(t) \in Nat
  BY LenProperties
<1>2. /\ u \in Seq(T) /\ Len(u) = Len(s) + Len(t)
      /\ \A n \in 1..Len(s) : u[n] = s[n]
      /\ \A n \in 1..Len(t) : u[Len(s) + n] = t[n]
  <2>1. /\ u \in Seq(T) /\ Len(u) = Len(s) + Len(t)
        /\ \A i \in 1..Len(s) + Len(t) : u[i] = IF i <= Len(s) THEN s[i] ELSE t[i - Len(s)]
    BY ConcatProperties
  <2>. QED  BY <1>1, <2>1
<1>. HIDE DEF u
<1>b3. PICK f : Builds(f, T, s, type)
  BY OfTypeDef
<1>3. /\ f[0] = <<>> /\ OfType(s, type) = f[Len(s)]
      /\ \A n \in 0..Len(s) : f[n] \in Seq(T)
      /\ \A n \in 1..Len(s) : f[n] = f[n - 1] \o Item(s[n])
  BY <1>b3 DEF Builds
<1>b4. PICK g : Builds(g, T, t, type)
  BY OfTypeDef
<1>4. /\ g[0] = <<>> /\ OfType(t, type) = g[Len(t)]
      /\ \A n \in 0..Len(t) : g[n] \in Seq(T)
      /\ \A n \in 1..Len(t) : g[n] = g[n - 1] \o Item(t[n])
  BY <1>b4 DEF Builds
<1>b5. PICK h : Builds(h, T, u, type)
  BY <1>2, OfTypeDef
<1>5. /\ h[0] = <<>> /\ OfType(u, type) = h[Len(u)]
      /\ \A n \in 0..Len(u) : h[n] \in Seq(T)
      /\ \A n \in 1..Len(u) : h[n] = h[n - 1] \o Item(u[n])
  BY <1>b5 DEF Builds
<1>6. ASSUME NEW x \in T  PROVE Item(x) \in Seq(T)
  <2>1. <<x>> \in Seq(T) /\ <<>> \in Seq(T)
    BY Single, EmptySeq
  <2>. QED  BY <2>1 DEF Unless
<1>. HIDE DEF Item
<1>7. \A n \in 0..Len(s) : h[n] = f[n]
  <2> DEFINE D == {n \in Nat : n <= Len(s) => h[n] = f[n]}
  <2>1. 0 \in D
    BY <1>3, <1>5
  <2>2. ASSUME NEW n \in Nat, n \in D  PROVE n + 1 \in D
    <3> SUFFICES ASSUME n + 1 <= Len(s)  PROVE h[n + 1] = f[n + 1]
      OBVIOUS
    <3>1. n + 1 \in 1..Len(s) /\ n + 1 \in 1..Len(u) /\ (n + 1) - 1 = n /\ h[n] = f[n]
      BY <1>1, <1>2, <2>2
    <3>. QED  BY <1>2, <1>3, <1>5, <3>1
  <2>. HIDE DEF D
  <2>3. Nat \subseteq D
    BY <2>1, <2>2, Induction
  <2>. QED  BY <1>1, <2>3 DEF D
<1> DEFINE c == [n \in 0..Len(t) |-> f[Len(s)] \o g[n]]
<1>8. c[0] = f[Len(s)] /\ \A n \in 1..Len(t) : c[n] = c[n - 1] \o Item(t[n])
  <2>1. f[Len(s)] \in Seq(T) /\ 0 \in 0..Len(t)
    BY <1>1, <1>3
  <2>2. c[0] = f[Len(s)]
    BY <1>4, <2>1, ConcatEmptySeq
  <2>3. ASSUME NEW n \in 1..Len(t)  PROVE c[n] = c[n - 1] \o Item(t[n])
    <3>1. n \in 0..Len(t) /\ n - 1 \in 0..Len(t) /\ t[n] \in T
      BY <1>1, ElementOfSeq
    <3>2. g[n - 1] \in Seq(T) /\ Item(t[n]) \in Seq(T) /\ g[n] = g[n - 1] \o Item(t[n])
      BY <1>4, <1>6, <3>1
    <3>3. c[n] = f[Len(s)] \o g[n] /\ c[n - 1] = f[Len(s)] \o g[n - 1]
      BY <3>1
    <3>. HIDE DEF c
    <3>4. (f[Len(s)] \o g[n - 1]) \o Item(t[n]) = f[Len(s)] \o (g[n - 1] \o Item(t[n]))
      <4> DEFINE x == f[Len(s)]  y == g[n - 1]  z == Item(t[n])
      <4>1. x \in Seq(T) /\ y \in Seq(T) /\ z \in Seq(T)
        BY <2>1, <3>2
      <4>. HIDE DEF x, y, z
      <4>2. (x \o y) \o z = x \o (y \o z)
        BY <4>1
      <4>. QED  BY <4>2 DEF x, y, z
    <3>5. c[n] = f[Len(s)] \o (g[n - 1] \o Item(t[n]))
      BY <3>2, <3>3, Zenon
    <3>. QED  BY <3>3, <3>4, <3>5, Zenon
  <2>. QED  BY <2>2, <2>3
<1>9. c[Len(t)] = OfType(s, type) \o OfType(t, type)
  <2>1. Len(t) \in 0..Len(t)
    BY <1>1
  <2>2. c[Len(t)] = f[Len(s)] \o g[Len(t)]
    BY <2>1
  <2>. QED  BY <1>3, <1>4, <2>2, Zenon
<1>. HIDE DEF c
<1>10. \A n \in 0..Len(t) : h[Len(s) + n] = c[n]
  <2> DEFINE D == {n \in Nat : n <= Len(t) => h[Len(s) + n] = c[n]}
  <2>1. 0 \in D
    BY <1>1, <1>7, <1>8
  <2>2. ASSUME NEW n \in Nat, n \in D  PROVE n + 1 \in D
    <3> SUFFICES ASSUME n + 1 <= Len(t)  PROVE h[Len(s) + (n + 1)] = c[n + 1]
      OBVIOUS
    <3>1. /\ n + 1 \in 1..Len(t) /\ (n + 1) - 1 = n
          /\ Len(s) + (n + 1) \in 1..Len(u) /\ (Len(s) + (n + 1)) - 1 = Len(s) + n
          /\ h[Len(s) + n] = c[n]
      BY <1>1, <1>2, <2>2
    <3>. QED  BY <1>2, <1>5, <1>8, <3>1
  <2>. HIDE DEF D
  <2>3. Nat \subseteq D
    BY <2>1, <2>2, Induction
  <2>. QED  BY <1>1, <2>3 DEF D
<1>11. OfType(u, type) = OfType(s, type) \o OfType(t, type)
  <2>1. h[Len(u)] = c[Len(t)]
    BY <1>1, <1>2, <1>10
  <2>. QED  BY <1>5, <1>9, <2>1, Zenon
<1>. QED  BY <1>11 DEF u

LEMMA OfTypeAll ==
  ASSUME NEW T, NEW s \in Seq(T), NEW type, \A x \in T : x.type = type
  PROVE  OfType(s, type) = s
<1>1. Len(s) \in Nat /\ \A n \in 1..Len(s) : s[n] \in T
  BY LenProperties, ElementOfSeq
<1>b. PICK f : Builds(f, T, s, type)
  BY OfTypeDef
<1>2. /\ f[0] = <<>> /\ OfType(s, type) = f[Len(s)]
      /\ \A n \in 1..Len(s) : f[n] = f[n - 1] \o Unless(s[n].type # type, s[n])
  BY <1>b DEF Builds
<1>3. \A n \in 1..Len(s) : f[n] = f[n - 1] \o <<s[n]>>
  BY <1>1, <1>2 DEF Unless
<1> DEFINE D == {n \in Nat : n <= Len(s) => f[n] = SubSeq(s, 1, n)}
<1>4. 0 \in D
  <2>1. SubSeq(s, 1, 0) = <<>>
    BY SubSeqEmpty
  <2>. QED  BY <1>2, <2>1
<1>5. ASSUME NEW n \in Nat, n \in D  PROVE n + 1 \in D
  <2> SUFFICES ASSUME n + 1 <= Len(s)  PROVE f[n + 1] = SubSeq(s, 1, n + 1)
    OBVIOUS
  <2>1. n + 1 \in 1..Len(s) /\ (n + 1) - 1 = n /\ n \in 0..Len(s) /\ n < Len(s)
    BY <1>1
  <2>2. f[n] = SubSeq(s, 1, n)
    BY <1>1, <1>5
  <2>3. f[n + 1] = SubSeq(s, 1, n) \o <<s[n + 1]>>
    BY <1>3, <2>1, <2>2
  <2>4. SubSeq(s, 1, n) \o <<s[n + 1]>> = SubSeq(s, 1, n + 1)
    BY <2>1, Beginning
  <2>. QED  BY <2>3, <2>4, Zenon
<1>. HIDE DEF D
<1>6. Nat \subseteq D
  BY <1>4, <1>5, Induction
<1>. QED  BY <1>1, <1>2, <1>6, SubSeqFull DEF D

LEMMA OfTypeNone ==
  ASSUME NEW T, NEW s \in Seq(T), NEW type, \A x \in T : x.type # type
  PROVE  OfType(s, type) = <<>>
<1>1. Len(s) \in Nat /\ \A n \in 1..Len(s) : s[n] \in T
  BY LenProperties, ElementOfSeq
<1>b. PICK f : Builds(f, T, s, type)
  BY OfTypeDef
<1>2. /\ f[0] = <<>> /\ OfType(s, type) = f[Len(s)]
      /\ \A n \in 1..Len(s) : f[n] = f[n - 1] \o Unless(s[n].type # type, s[n])
  BY <1>b DEF Builds
<1>3. \A n \in 1..Len(s) : f[n] = f[n - 1] \o <<>>
  BY <1>1, <1>2 DEF Unless
<1> DEFINE D == {n \in Nat : n <= Len(s) => f[n] = <<>>}
<1>4. 0 \in D
  BY <1>2
<1>5. ASSUME NEW n \in Nat, n \in D  PROVE n + 1 \in D
  <2> SUFFICES ASSUME n + 1 <= Len(s)  PROVE f[n + 1] = <<>>
    OBVIOUS
  <2>1. n + 1 \in 1..Len(s) /\ (n + 1) - 1 = n /\ f[n] = <<>>
    BY <1>1, <1>5
  <2>2. <<>> \o <<>> = <<>>
    BY EmptySeq, ConcatEmptySeq
  <2>. QED  BY <1>3, <2>1, <2>2
<1>. HIDE DEF D
<1>6. Nat \subseteq D
  BY <1>4, <1>5, Induction
<1>. QED  BY <1>1, <1>2, <1>6 DEF D

-----------------------------------------------------------------------------
(* The next request                                                        *)

(* The blocks that [DONE] leaves and those of an answer in one piece: same *)
(* texts and same calls, each in the same order.                           *)
LEMMA SameBlocks ==
  ASSUME NEW m \in Messages, NEW type \in {"text", "tool_use"}
  PROVE  OfType(Flushed(m), type) = OfType(ParseContent(m), type)
<1> DEFINE L == Len(m.tools)
           Call(k) == ToolUse(m.tools[k].id, ParseArgs(m.tools[k].args))
           C == {Call(k) : k \in 1..L}
           H == {ThinkingBlock(m.thinking)}
           X == {TextBlock(m.text)}
           S == C \cup H \cup X
           a == Calls(m, L - 1)
           h == Unless(m.thinking = <<>>, ThinkingBlock(m.thinking))
           x == Unless(m.text = <<>>, TextBlock(m.text))
           z == LastCall(m)
           all == [k \in DOMAIN m.tools |-> Call(k)]
           O(v) == OfType(v, type)
<1>1. L \in Nat /\ DOMAIN m.tools = 1..L
  <2>1. m.tools \in Seq([id : STRING \ {NoTool}, args : Seq(STRING)])
    BY MessageParts
  <2>. QED  BY <2>1, LenProperties
<1>2. Flushed(m) = a \o h \o x \o z /\ ParseContent(m) = h \o x \o all
  BY DEF Flushed, ParseContent
<1>3. /\ \A b \in C : b.type = "tool_use"
      /\ \A b \in H : b.type = "thinking"
      /\ \A b \in X : b.type = "text"
  <2>1. /\ \A b \in C : b.type = "tool_use"
    BY DEF ToolUse
  <2>2. /\ \A b \in H : b.type = "thinking"
        /\ \A b \in X : b.type = "text"
    BY DEF ThinkingBlock, TextBlock
  <2>. QED  BY <2>1, <2>2
<1>4. a \in Seq(C) /\ h \in Seq(H) /\ x \in Seq(X) /\ z \in Seq(C) /\ all \in Seq(C)
  <2>1. \A k \in 1..L : Call(k) \in C
    OBVIOUS
  <2>. HIDE DEF C, H, X, Call
  <2>2. all \in Seq(C)
    BY <1>1, <2>1
  <2>3. a \in Seq(C)
    <3>1. a = [k \in 1..(L - 1) |-> Call(k)]
      BY DEF Calls, Call
    <3>2. CASE L = 0
      <4>1. a = <<>>
        BY <3>1, <3>2
      <4>. QED  BY <4>1, EmptySeq
    <3>3. CASE L # 0
      <4>1. L - 1 \in Nat /\ \A k \in 1..(L - 1) : Call(k) \in C
        BY <1>1, <2>1, <3>3
      <4>. QED  BY <3>1, <4>1
    <3>. QED  BY <3>2, <3>3
  <2>4. z \in Seq(C)
    <3>1. z = Unless(L = 0, Call(L))
      BY DEF LastCall, Call
    <3>2. CASE L = 0
      BY <3>1, <3>2, EmptySeq DEF Unless
    <3>3. CASE L # 0
      <4>1. Call(L) \in C
        BY <1>1, <2>1, <3>3
      <4>. QED  BY <3>1, <3>3, <4>1, Single DEF Unless
    <3>. QED  BY <3>2, <3>3
  <2>5. h \in Seq(H)
    <3>1. ThinkingBlock(m.thinking) \in H
      BY DEF H
    <3>. QED  BY <3>1, Single, EmptySeq DEF Unless
  <2>6. x \in Seq(X)
    <3>1. TextBlock(m.text) \in X
      BY DEF X
    <3>. QED  BY <3>1, Single, EmptySeq DEF Unless
  <2>. QED  BY <2>2, <2>3, <2>4, <2>5, <2>6
<1>5. a \o z = all
  <2>1. CASE L = 0
    <3>1. a = <<>> /\ z = <<>> /\ all = <<>>
      BY <1>1, <2>1 DEF Calls, LastCall, Unless
    <3>. HIDE DEF a, z, all
    <3>2. <<>> \o <<>> = <<>>
      BY EmptySeq, ConcatEmptySeq
    <3>. QED  BY <3>1, <3>2
  <2>2. CASE L # 0
    <3>1. z = <<Call(L)>> /\ L \in 1..L
      BY <1>1, <2>2 DEF LastCall, Unless
    <3>2. all = Calls(m, L)
      BY <1>1 DEF Calls
    <3>. HIDE DEF z, all
    <3>. QED  BY <3>1, <3>2, CallsNext
  <2>. QED  BY <2>1, <2>2
<1>. HIDE DEF L, Call, C, H, X, a, h, x, z, all
<1>6. a \in Seq(S) /\ h \in Seq(S) /\ x \in Seq(S) /\ z \in Seq(S) /\ all \in Seq(S)
  <2>1. C \subseteq S /\ H \subseteq S /\ X \subseteq S
    OBVIOUS
  <2>. HIDE DEF S
  <2>. QED  BY <1>4, <2>1, SeqMonotonic
<1>. HIDE DEF S
<1>7. O(a \o h \o x \o z) = O(a) \o O(h) \o O(x) \o O(z) /\ O(h \o x \o all) = O(h) \o O(x) \o O(all)
  <2> DEFINE ah == a \o h
             ahx == ah \o x
             hx == h \o x
  <2>1. ah \in Seq(S) /\ hx \in Seq(S)
    BY <1>6, ConcatProperties
  <2>2. O(ah) = O(a) \o O(h) /\ O(hx) = O(h) \o O(x)
    <3>. HIDE DEF O
    <3>1. O(ah) = O(a) \o O(h)
      BY <1>6, OfTypeConcat DEF O
    <3>2. O(hx) = O(h) \o O(x)
      BY <1>6, OfTypeConcat DEF O
    <3>. QED  BY <3>1, <3>2
  <2>. HIDE DEF ah, hx
  <2>3. ahx \in Seq(S)
    BY <1>6, <2>1, ConcatProperties
  <2>4. O(ahx) = O(ah) \o O(x) /\ O(hx \o all) = O(hx) \o O(all)
    BY <1>6, <2>1, OfTypeConcat, Zenon
  <2>. HIDE DEF ahx
  <2>5. O(ahx \o z) = O(ahx) \o O(z)
    BY <1>6, <2>3, OfTypeConcat, Zenon
  <2>. QED  BY <2>2, <2>4, <2>5, Zenon DEF ahx, ah, hx
<1>8. O(h) = <<>>
  BY <1>3, <1>4, OfTypeNone
<1>9. CASE type = "text"
  <2>1. O(a) = <<>> /\ O(z) = <<>> /\ O(all) = <<>>
    BY <1>3, <1>4, <1>9, OfTypeNone
  <2>2. O(x) = x
    BY <1>3, <1>4, <1>9, OfTypeAll
  <2>3. <<>> \o <<>> = <<>> /\ <<>> \o x = x /\ x \o <<>> = x
    BY <1>6, EmptySeq, ConcatEmptySeq
  <2>. QED  BY <1>2, <1>7, <1>8, <2>1, <2>2, <2>3
<1>10. CASE type = "tool_use"
  <2>1. O(x) = <<>>
    BY <1>3, <1>4, <1>10, OfTypeNone
  <2>2. O(a) = a /\ O(z) = z /\ O(all) = all
    BY <1>3, <1>4, <1>10, OfTypeAll
  <2>3. <<>> \o <<>> = <<>> /\ a \o <<>> = a /\ <<>> \o all = all
    BY <1>6, EmptySeq, ConcatEmptySeq
  <2>. QED  BY <1>2, <1>5, <1>7, <1>8, <2>1, <2>2, <2>3
<1>. QED  BY <1>9, <1>10

(* What build_request_body sends of an answer depends on the order of its  *)
(* texts and on the order of its calls, not on how the two alternate.      *)
LEMMA SameRequest ==
  ASSUME NEW b, NEW c, OfType(b, "text") = OfType(c, "text"),
         OfType(b, "tool_use") = OfType(c, "tool_use"), NEW system
  PROVE  BuildMessages(system, Conversation(b)) = BuildMessages(system, Conversation(c))
<1> DEFINE ResultsOf(blocks) ==
             [k \in DOMAIN OfType(blocks, "tool_use") |->
                ToolResult(OfType(blocks, "tool_use")[k].id, OfType(blocks, "tool_use")[k].input)]
           Ask == User(<<TextItem(<<"task">>)>>)
           Sends(blocks) ==
             [k \in 1..3 |-> IF k = 1 THEN SerializeUser(Ask.content)
                             ELSE IF k = 2 THEN <<SerializeAssistant(blocks)>>
                             ELSE SerializeUser(ResultsOf(blocks))]
<1>1. ASSUME NEW d
      PROVE  BuildMessages(system, Conversation(d)) = <<System(system)>> \o FlattenSeq(Sends(d))
  <2> DEFINE t == Conversation(d)
  <2>1. t = <<Ask, Assistant(d), User(ResultsOf(d))>>
    BY DEF Conversation
  <2>. HIDE DEF Ask, ResultsOf
  <2>2. DOMAIN t = 1..3 /\ t[1] = Ask /\ t[2] = Assistant(d) /\ t[3] = User(ResultsOf(d))
    BY <2>1
  <2>3. /\ t[1].role = "user" /\ t[2].role = "assistant" /\ t[3].role = "user"
        /\ t[2].content = d /\ t[3].content = ResultsOf(d)
    BY <2>2 DEF User, Assistant, Ask
  <2>. HIDE DEF t
  <2>4. [k \in DOMAIN t |->
           CASE t[k].role = "system" -> <<t[k]>>
             [] t[k].role = "user" -> SerializeUser(t[k].content)
             [] t[k].role = "assistant" -> <<SerializeAssistant(t[k].content)>>] = Sends(d)
    BY <2>2, <2>3
  <2>. HIDE DEF Sends
  <2>. QED  BY <2>4 DEF BuildMessages, t
<1>2. SerializeAssistant(b) = SerializeAssistant(c)
  BY DEF SerializeAssistant
<1>3. ResultsOf(b) = ResultsOf(c)
  OBVIOUS
<1>. HIDE DEF ResultsOf, Ask
<1>4. Sends(b) = Sends(c)
  BY <1>2, <1>3
<1>. HIDE DEF Sends
<1>. QED  BY <1>1, <1>4

-----------------------------------------------------------------------------
(* What the invariant means                                                *)

(* A client that returned Ok from a body that was complete has read it all.*)
LEMMA CompleteIsRead ==
  ASSUME StreamTypes, ReadAll, Complete,
         NEW v \in Views(message), NEW read \in Positions(message), NEW sent \in Positions(message),
         Along(v, read, sent)
  PROVE  read.done /\ read.finish /\ Full(message, read)
<1>1. net = <<>> /\ conn = "ended" /\ ~left.done
  BY DEF Complete, ReadAll
<1>2. read = sent
  BY <1>1, WalkEmpty DEF Along
<1>3. left = Unsent(sent)
  BY <1>1 DEF Along, Server
<1>4. left.done = ~sent.done
  <2>. HIDE DEF Arguments
  <2>. QED  BY <1>3 DEF Unsent
<1>5. /\ sent.done \in BOOLEAN /\ sent.done => sent.finish
      /\ sent.finish => Full(message, sent)
  BY DEF Positions
<1>. QED  BY <1>1, <1>2, <1>4, <1>5

LEMMA InvTypes ==
  ASSUME StreamInv
  PROVE  StreamTypeOK
<1>1. StreamTypes
  BY DEF StreamInv
<1>2. stop \in {"EndTurn", "MaxTokens", "ToolUse", "Other"}
  <2>1. PICK read \in Positions(message) : Reader(read)
    BY DEF StreamInv
  <2>. QED  BY <2>1 DEF Reader, ParseFinish
<1>3. \A k \in DOMAIN net : net[k].kind \in Kinds
  <2>. HIDE DEF Kinds
  <2>1. DOMAIN net = 1..Len(net) /\ \A k \in 1..Len(net) : net[k] \in Events
    BY <1>1, LenProperties, ElementOfSeq DEF StreamTypes
  <2>. QED  BY <2>1 DEF Events
<1>4. \A k \in DOMAIN chan : chan[k].kind \in Kinds \ {"finish", "noise"}
  <2>. HIDE DEF Kinds
  <2>1. DOMAIN chan = 1..Len(chan) /\ \A k \in 1..Len(chan) : chan[k] \in Told
    BY <1>1, LenProperties, ElementOfSeq DEF StreamTypes
  <2>. QED  BY <2>1 DEF Told
<1>. QED  BY <1>1, <1>2, <1>3, <1>4 DEF StreamTypes, StreamTypeOK

LEMMA InvShownInOrder ==
  ASSUME StreamInv
  PROVE  ShownInOrder
<1>1. StreamTypes /\ ReadAll
  BY DEF StreamInv
<1>2. PICK v \in Views(message), read \in Positions(message), sent \in Positions(message) :
        Along(v, read, sent)
  BY DEF StreamInv, Along
<1> DEFINE m == message
<1>3. /\ m.thinking \in Seq(STRING) /\ m.text \in Seq(STRING)
      /\ v.thinking \in 0..Len(m.thinking) /\ v.text \in 0..Len(m.text)
  BY <1>1, MessageParts DEF StreamTypes, Views
<1>4. shown = [text |-> SubSeq(m.text, 1, v.text), thinking |-> SubSeq(m.thinking, 1, v.thinking)]
  BY <1>2 DEF Along, Viewer
<1>5. ASSUME NEW s \in Seq(STRING), NEW n \in 0..Len(s)  PROVE IsPrefix(SubSeq(s, 1, n), s)
  <2>1. SubSeq(s, 1, n) \in Seq(STRING) /\ Len(SubSeq(s, 1, n)) = n /\ Len(s) \in Nat
    BY Beginning, LenProperties
  <2> DEFINE r == SubSeq(s, 1, n)
  <2>. HIDE DEF r
  <2>2. SubSeq(r, 1, Len(r)) = r
    BY <2>1, SubSeqFull DEF r
  <2>. QED  BY <2>1, <2>2 DEF IsPrefix, r
<1>6. ASSUME cli = "succeeded", ~left.done
      PROVE  shown = [text |-> m.text, thinking |-> m.thinking]
  <2>1. Complete
    BY <1>2, <1>6 DEF Along, Viewer, Complete
  <2>2. Full(m, read)
    BY <1>1, <1>2, <2>1, CompleteIsRead
  <2>3. chan = <<>>
    <3> SUFFICES ASSUME chan # <<>>  PROVE FALSE
      OBVIOUS
    <3>1. v.done
      BY <1>2, <1>6 DEF Along, Viewer
    <3>2. PICK w : <<v, Head(chan), w>> \in ToldSteps(message)
      BY <1>1, <1>2, WalkTail DEF StreamTypes, Along
    <3>3. ToldStep(message, v, Head(chan), w)
      <4>. HIDE DEF Views, Told
      <4>. QED  BY <3>2 DEF ToldSteps
    <3>. QED  BY <3>1, <3>3 DEF ToldStep
  <2>4. v = View(read)
    BY <1>2, <2>3, WalkEmpty DEF Along
  <2>5. v.thinking = Len(m.thinking) /\ v.text = Len(m.text)
    BY <2>2, <2>4 DEF Full, View
  <2>. QED  BY <1>3, <1>4, <2>5, SubSeqFull
<1>7. IsPrefix(shown.text, m.text) /\ IsPrefix(shown.thinking, m.thinking)
  BY <1>3, <1>4, <1>5
<1>. QED  BY <1>6, <1>7 DEF ShownInOrder

LEMMA InvNextRequestIsSame ==
  ASSUME StreamInv
  PROVE  NextRequestIsSame
<1> SUFFICES ASSUME Complete
             PROVE  /\ BuildMessages(<<>>, Conversation(content))
                         = BuildMessages(<<>>, Conversation(ParseContent(message)))
                    /\ stop = ParseFinish(message.finish)
  BY DEF NextRequestIsSame
<1>1. StreamTypes /\ ReadAll
  BY DEF StreamInv
<1>2. PICK v \in Views(message), read \in Positions(message), sent \in Positions(message) :
        Along(v, read, sent)
  BY DEF StreamInv, Along
<1>3. read.done /\ read.finish
  BY <1>1, <1>2, CompleteIsRead
<1>4. content = Flushed(message) /\ stop = ParseFinish(message.finish)
  BY <1>2, <1>3 DEF Along, Reader
<1>5. \A type \in {"text", "tool_use"} :
        OfType(Flushed(message), type) = OfType(ParseContent(message), type)
  BY <1>1, SameBlocks DEF StreamTypes
<1>6. BuildMessages(<<>>, Conversation(Flushed(message)))
        = BuildMessages(<<>>, Conversation(ParseContent(message)))
  BY <1>5, SameRequest
<1>. QED  BY <1>4, <1>6

(* A streamed completion shows its user a prefix of the message, and all   *)
(* of it once it has joined a complete stream: for any message and any     *)
(* interleaving of provider, task and caller.                              *)
THEOREM StreamShownInOrder == StreamSpec => []ShownInOrder
<1>. QED  BY NothingLost, InvShownInOrder, PTL

(* And it makes the same next request as a completion in one piece.        *)
THEOREM StreamNextRequest == StreamSpec => []NextRequestIsSame
<1>. QED  BY NothingLost, InvNextRequestIsSame, PTL

-----------------------------------------------------------------------------
(* The command                                                             *)

LEMMA CommandSteps ==
  ASSUME [CommandNext]_allVars
  PROVE  [StreamNext]_streamVars /\ [Next]_vars
<1>1. CASE Command
  <2>1. UNCHANGED <<streamVars, vars>>
    BY <1>1 DEF Command, ReadConfig, CreateClient, ReadInputs, BuildRequest, Prepare, Return,
       PrintAnswer
  <2>. QED  BY <2>1
<1>2. CASE CallComplete
  BY <1>2 DEF CallComplete
<1>3. CASE CallStream(StreamNext)
  BY <1>3 DEF CallStream
<1>4. CASE UNCHANGED allVars
  BY <1>4 DEF allVars
<1>. QED  BY <1>1, <1>2, <1>3, <1>4 DEF CommandNext

(* `animus llm complete` does nothing with the provider that complete or   *)
(* complete_stream alone would not do: the command implements both.        *)
THEOREM CommandStreams == CommandSpec => StreamSpec
<1>1. CommandInit => StreamInit
  BY DEF CommandInit
<1>. QED  BY <1>1, CommandSteps, PTL DEF CommandSpec, StreamSpec

THEOREM CommandRetries == CommandSpec => Spec
<1>1. CommandInit => Init
  BY DEF CommandInit
<1>. QED  BY <1>1, CommandSteps, PTL DEF CommandSpec, Spec

(* So what holds of either holds of the command.                           *)
THEOREM CommandShownInOrder == CommandSpec => []ShownInOrder
<1>. QED  BY CommandStreams, StreamShownInOrder, PTL

THEOREM CommandNextRequest == CommandSpec => []NextRequestIsSame
<1>. QED  BY CommandStreams, StreamNextRequest, PTL

THEOREM CommandServedOnce == CommandSpec => []ServedOnce
<1>. QED  BY CommandRetries, CarriedOutOnce, PTL

THEOREM CommandRetriesCounted == CommandSpec => []RetriesCounted
<1>. QED  BY CommandRetries, RetriesBounded, PTL

THEOREM CommandOutlastsLimit == CommandSpec => []OutlastsLimit
<1>. QED  BY CommandRetries, LimitOutlasted, PTL

(* The variables of the command and of the call it makes keep their types. *)
CommandTypes ==
  /\ streaming \in BOOLEAN
  /\ stage \in {"configuring", "creating", "reading", "rendering", "calling", "printing"} \cup Exits
  /\ format \in Formats \cup {NoFormat}

THEOREM CommandTyped == CommandSpec => []CommandTypeOK
<1>1. CommandInit => CommandTypes
  BY DEF CommandInit, CommandTypes
<1>2. CommandTypes /\ [CommandNext]_allVars => CommandTypes'
  <2> SUFFICES ASSUME CommandTypes, [CommandNext]_allVars  PROVE CommandTypes'
    OBVIOUS
  <2>. USE DEF CommandTypes, Exits
  <2>1. CASE ReadConfig \/ CreateClient \/ ReadInputs \/ BuildRequest
    BY <2>1 DEF ReadConfig, CreateClient, ReadInputs, BuildRequest, Prepare
  <2>2. CASE Return
    BY <2>2 DEF Return
  <2>3. CASE PrintAnswer
    BY <2>3 DEF PrintAnswer
  <2>4. CASE CallComplete \/ CallStream(StreamNext) \/ UNCHANGED allVars
    BY <2>4 DEF CallComplete, CallStream, allVars, command
  <2>. QED  BY <2>1, <2>2, <2>3, <2>4 DEF CommandNext, Command
<1>3. CommandSpec => []CommandTypes
  BY <1>1, <1>2, PTL DEF CommandSpec
<1>4. StreamInv /\ RetryTypeOK /\ CommandTypes => CommandTypeOK
  BY InvTypes DEF CommandTypeOK, CommandTypes
<1>. QED  BY <1>3, <1>4, CommandStreams, CommandRetries, NothingLost, RetryTypes, PTL

-----------------------------------------------------------------------------
(* The lines of an answer                                                  *)

Fragments == STRING \cup {"nl", "sp"}
Takers == [lines : Seq(Seq(Fragments)), line : Seq(Fragments)]
TakeStep == [c \in Fragments |-> [r \in Takers |-> TakeFragment(r, c)]]
NoLines == [lines |-> <<>>, line |-> <<>>]
Taken(s) == RunEnd(Takers, TakeStep, s, NoLines)

LEMMA NoLinesType == NoLines \in Takers
  BY EmptySeq DEF NoLines, Takers

LEMMA TakeFragmentType ==
  ASSUME NEW r \in Takers, NEW c \in Fragments
  PROVE  TakeFragment(r, c) \in Takers
<1>1. Append(r.lines, r.line) \in Seq(Seq(Fragments)) /\ Append(r.line, c) \in Seq(Fragments)
  BY AppendProperties DEF Takers
<1>2. <<>> \in Seq(Fragments)
  BY EmptySeq
<1>. QED  BY <1>1, <1>2 DEF TakeFragment, Takers

LEMMA TakeStepIs == \A c \in Fragments : \A r \in Takers : TakeStep[c][r] = TakeFragment(r, c)
  BY DEF TakeStep

LEMMA TakeStepType == TakeStep \in [Fragments -> [Takers -> Takers]]
  BY TakeFragmentType DEF TakeStep

LEMMA TakenIn ==
  ASSUME NEW s \in Seq(Fragments)
  PROVE  Taken(s) \in Takers
  BY NoLinesType, TakeStepType, RunEndIn DEF Taken

LEMMA TakenStart == Taken(<<>>) = NoLines
<1> DEFINE e == <<>>
<1>1. e \in Seq(Fragments) /\ e = <<>>
  BY EmptySeq
<1>. HIDE DEF e
<1>2. RunEnd(Takers, TakeStep, e, NoLines) = NoLines
  BY <1>1, NoLinesType, TakeStepType, RunEndAtStart
<1>. QED  BY <1>1, <1>2 DEF Taken

LEMMA TakenAfter ==
  ASSUME NEW s \in Seq(Fragments), NEW c \in Fragments
  PROVE  Taken(Append(s, c)) = TakeFragment(Taken(s), c)
<1>1. RunEnd(Takers, TakeStep, Append(s, c), NoLines)
        = TakeStep[c][RunEnd(Takers, TakeStep, s, NoLines)]
  BY NoLinesType, TakeStepType, RunEndAfter
<1>. QED  BY <1>1, TakenIn, TakeStepIs DEF Taken

LEMMA LinesAre ==
  ASSUME NEW s \in Seq(Fragments)
  PROVE  LET r == Taken(s) IN Lines(s) = r.lines \o Unless(r.line = <<>>, r.line)
<1> DEFINE Solves(g) ==
      g = [k \in 0..Len(s) |-> IF k = 0 THEN NoLines ELSE TakeFragment(g[k - 1], s[k])]
<1>1. PICK f : Runs(f, Takers, TakeStep, s, NoLines) /\ Taken(s) = f[Len(s)]
  BY NoLinesType, TakeStepType, RunIs DEF Taken
<1>2. /\ Len(s) \in Nat /\ \A k \in 1..Len(s) : s[k] \in Fragments
      /\ f[0] = NoLines /\ f \in [0..Len(s) -> Takers]
      /\ \A k \in 1..Len(s) : f[k] = TakeStep[s[k]][f[k - 1]]
  BY <1>1, LenProperties, ElementOfSeq DEF Runs, Obeys
<1>3. ASSUME NEW k \in 1..Len(s)  PROVE f[k] = TakeFragment(f[k - 1], s[k])
  <2>1. f[k - 1] \in Takers /\ s[k] \in Fragments
    BY <1>2
  <2>. QED  BY <1>2, <2>1, TakeStepIs
<1>4. Solves(f)
  <2>1. ASSUME NEW k \in 0..Len(s)
        PROVE  f[k] = IF k = 0 THEN NoLines ELSE TakeFragment(f[k - 1], s[k])
    <3>1. k = 0 \/ k \in 1..Len(s)
      BY <1>2
    <3>. QED  BY <1>2, <1>3, <3>1
  <2>. QED  BY <1>2, <2>1
<1> DEFINE taken == CHOOSE g : Solves(g)
<1>5. Solves(taken)
  <2>. HIDE DEF Solves
  <2>. QED  BY <1>4, Zenon
<1>6. LET r == taken[Len(s)] IN Lines(s) = r.lines \o Unless(r.line = <<>>, r.line)
  BY Zenon DEF Lines, NoLines
<1>7. \A k \in 0..Len(s) : taken[k] = IF k = 0 THEN NoLines ELSE TakeFragment(taken[k - 1], s[k])
  <2>. HIDE DEF taken
  <2>. QED  BY <1>5
<1>. HIDE DEF taken, Solves
<1> DEFINE D == {k \in Nat : k <= Len(s) => taken[k] = f[k]}
<1>8. 0 \in D
  BY <1>2, <1>7
<1>9. ASSUME NEW k \in Nat, k \in D, k + 1 <= Len(s)  PROVE taken[k + 1] = f[k + 1]
  <2>1. k + 1 \in 1..Len(s) /\ k + 1 \in 0..Len(s) /\ (k + 1) - 1 = k /\ taken[k] = f[k]
    BY <1>2, <1>9
  <2>. QED  BY <1>3, <1>7, <2>1
<1>10. \A k \in Nat : k \in D => k + 1 \in D
  BY <1>9
<1>. HIDE DEF D
<1>11. Nat \subseteq D
  BY <1>8, <1>10, Induction
<1>12. taken[Len(s)] = f[Len(s)]
  BY <1>2, <1>11 DEF D
<1>. QED  BY <1>1, <1>6, <1>12

LEMMA OneFragment == <<"nl">> \in Seq(Fragments)
<1>1. "nl" \in Fragments
  BY DEF Fragments
<1>. QED  BY <1>1, Single

LEMMA LinesType ==
  ASSUME NEW s \in Seq(Fragments)
  PROVE  Lines(s) \in Seq(Seq(Fragments))
<1> DEFINE r == Taken(s)
           last == Unless(r.line = <<>>, r.line)
<1>1. r \in Takers /\ Lines(s) = r.lines \o last
  BY TakenIn, LinesAre
<1>2. r.lines \in Seq(Seq(Fragments)) /\ r.line \in Seq(Fragments)
  BY <1>1 DEF Takers
<1>. HIDE DEF r
<1>3. last \in Seq(Seq(Fragments))
  <2>1. <<r.line>> \in Seq(Seq(Fragments)) /\ <<>> \in Seq(Seq(Fragments))
    BY <1>2, Single, EmptySeq
  <2>. QED  BY <2>1 DEF Unless
<1>. QED  BY <1>1, <1>2, <1>3, ConcatProperties

-----------------------------------------------------------------------------
(* Joining the lines gives the text, but for a break at its end            *)

LEMMA TextJoinAfter ==
  ASSUME NEW ls \in Seq(Seq(Fragments)), NEW l \in Seq(Fragments)
  PROVE  /\ Join(ls) \in Seq(Fragments)
         /\ Join(Append(ls, l)) = IF ls = <<>> THEN l ELSE Join(ls) \o <<"nl">> \o l
<1>1. <<"nl">> \in Seq(Fragments)
  BY OneFragment
<1>2. Glued(Append(ls, l), <<"nl">>)
        = IF ls = <<>> THEN l ELSE Glued(ls, <<"nl">>) \o <<"nl">> \o l
  BY <1>1, GluedAfter
<1>3. \A k : Join(k) = Glued(k, <<"nl">>)
  BY DEF Join, Glued, GluePieces
<1>4. Glued(ls, <<"nl">>) \in Seq(Fragments)
  BY <1>1, GluePiecesType
<1>. QED  BY <1>2, <1>3, <1>4

(* What has been taken is the whole text, with a break after every line.   *)
Retells(r, s) ==
  /\ r.lines = <<>> => s = r.line
  /\ r.lines # <<>> => s = Join(r.lines) \o <<"nl">> \o r.line

LEMMA TakenRetells == \A s \in Seq(Fragments) : Retells(Taken(s), s)
<1> DEFINE D == {s \in Seq(Fragments) : Retells(Taken(s), s)}
<1>1. <<>> \in D
  <2>1. <<>> \in Seq(Fragments)
    BY EmptySeq
  <2>2. Retells(NoLines, <<>>)
    BY DEF Retells, NoLines
  <2>. QED  BY <2>1, <2>2, TakenStart
<1>2. ASSUME NEW s \in Seq(Fragments), s \in D, NEW c \in Fragments  PROVE Append(s, c) \in D
  <2> DEFINE r == Taken(s)
             q == TakeFragment(r, c)
             n == <<"nl">>
             J == Join(r.lines)
             L == Append(r.lines, r.line)
  <2>1. Append(s, c) \in Seq(Fragments) /\ Taken(Append(s, c)) = q /\ Retells(r, s)
    BY <1>2, TakenAfter, AppendProperties
  <2>2. r.lines \in Seq(Seq(Fragments)) /\ r.line \in Seq(Fragments) /\ n \in Seq(Fragments)
    <3>1. Taken(s) \in Takers
      BY <1>2, TakenIn
    <3>. QED  BY <3>1, OneFragment DEF Takers
  <2>3. J \in Seq(Fragments) /\ Join(L) = IF r.lines = <<>> THEN r.line ELSE J \o n \o r.line
    BY <2>2, TextJoinAfter
  <2>4. L # <<>>
    BY <2>2, AppendProperties
  <2>5. q = IF c = "nl" THEN [lines |-> L, line |-> <<>>]
            ELSE [lines |-> r.lines, line |-> Append(r.line, c)]
    <3>1. Taken(s) \in Takers
      BY <1>2, TakenIn
    <3>. HIDE DEF r, L
    <3>2. r = [lines |-> r.lines, line |-> r.line]
      BY <3>1 DEF Takers, r
    <3>3. [r EXCEPT !.line = Append(@, c)] = [lines |-> r.lines, line |-> Append(r.line, c)]
      <4> DEFINE z == Append(r.line, c)
      <4>. HIDE DEF z
      <4>1. [r EXCEPT !.line = z] = [lines |-> r.lines, line |-> z]
        BY <3>2
      <4>. QED  BY <4>1 DEF z
    <3>. QED  BY <3>3 DEF TakeFragment, L
  <2>. HIDE DEF r, q, J, L
  <2>6. CASE c = "nl"
    <3>1. Join(L) = s
      BY <2>1, <2>3 DEF Retells, J
    <3>2. Append(s, c) = s \o n
      BY <2>6, AppendIsConcat
    <3>3. s \o n \in Seq(Fragments)
      BY <2>2, ConcatProperties
    <3>. HIDE DEF n
    <3>4. s \o n \o <<>> = s \o n
      BY <3>3, ConcatEmptySeq
    <3>5. q.lines = L /\ q.line = <<>>
      BY <2>5, <2>6
    <3>6. Append(s, c) = Join(q.lines) \o n \o q.line
      BY <3>1, <3>2, <3>4, <3>5
    <3>. QED  BY <2>1, <2>4, <3>5, <3>6 DEF Retells, n
  <2>7. CASE c # "nl"
    <3>1. q.lines = r.lines /\ q.line = Append(r.line, c)
      BY <2>5, <2>7
    <3>2. CASE r.lines = <<>>
      BY <2>1, <3>1, <3>2 DEF Retells
    <3>3. CASE r.lines # <<>>
      <4>1. J \o n \in Seq(Fragments) /\ s = J \o n \o r.line
        BY <2>1, <2>2, <2>3, <3>3, ConcatProperties DEF Retells, J
      <4> DEFINE a == J \o n
                 b == r.line
      <4>2. a \in Seq(Fragments) /\ b \in Seq(Fragments) /\ c \in Fragments
        BY <2>2, <4>1
      <4>. HIDE DEF a, b
      <4>3. a \o Append(b, c) = Append(a \o b, c)
        BY <4>2, AppendConcat
      <4>4. Append(s, c) = Join(q.lines) \o n \o q.line
        BY <3>1, <4>1, <4>3, Zenon DEF a, b, J
      <4>. QED  BY <2>1, <3>1, <3>3, <4>4 DEF Retells
    <3>. QED  BY <3>2, <3>3
  <2>. QED  BY <2>6, <2>7
<1>3. \A s \in Seq(Fragments) : s \in D => \A c \in Fragments : Append(s, c) \in D
  BY <1>2
<1>. HIDE DEF D
<1>4. Seq(Fragments) \subseteq D
  BY <1>1, <1>3, SeqInduction
<1>. QED  BY <1>4 DEF D

LEMMA JoinedLines ==
  ASSUME NEW s \in Seq(Fragments)
  PROVE  /\ Join(Lines(s)) \in Seq(Fragments)
         /\ s = Join(Lines(s)) \/ s = Append(Join(Lines(s)), "nl")
<1> DEFINE r == Taken(s)
           n == <<"nl">>
           J == Join(r.lines)
<1>1. r \in Takers /\ Retells(r, s) /\ Lines(s) = r.lines \o Unless(r.line = <<>>, r.line)
  BY TakenIn, LinesAre, TakenRetells
<1>2. r.lines \in Seq(Seq(Fragments)) /\ r.line \in Seq(Fragments) /\ n \in Seq(Fragments)
  BY <1>1, OneFragment DEF Takers
<1>. HIDE DEF r
<1>3. /\ J \in Seq(Fragments)
      /\ Join(Append(r.lines, r.line)) = IF r.lines = <<>> THEN r.line ELSE J \o n \o r.line
  BY <1>2, TextJoinAfter
<1>4. CASE r.line # <<>>
  <2>1. Lines(s) = r.lines \o <<r.line>>
    BY <1>1, <1>4 DEF Unless
  <2>2. Append(r.lines, r.line) = r.lines \o <<r.line>>
    BY <1>2, AppendIsConcat
  <2>3. Join(Lines(s)) = s
    BY <1>1, <1>3, <2>1, <2>2 DEF Retells
  <2>. QED  BY <2>3
<1>5. CASE r.line = <<>>
  <2>1. Lines(s) = r.lines
    <3>1. Lines(s) = r.lines \o <<>>
      BY <1>1, <1>5 DEF Unless
    <3>. QED  BY <1>2, <3>1, ConcatEmptySeq
  <2>2. CASE r.lines = <<>>
    <3>1. s = <<>> /\ Join(<<>>) = <<>>
      <4>1. Glued(<<>>, n) = <<>> /\ Join(<<>>) = Glued(<<>>, n)
        BY GluedNone DEF Join, Glued, GluePieces
      <4>. QED  BY <1>1, <1>5, <2>2, <4>1 DEF Retells
    <3>. QED  BY <2>1, <2>2, <3>1
  <2>3. CASE r.lines # <<>>
    <3>1. s = J \o n \o <<>>
      BY <1>1, <1>5, <2>3 DEF Retells
    <3>2. J \o n \in Seq(Fragments) /\ Append(J, "nl") = J \o n
      BY <1>2, <1>3, ConcatProperties, AppendIsConcat
    <3>. HIDE DEF J, n
    <3>3. J \o n \o <<>> = J \o n
      BY <3>2, ConcatEmptySeq
    <3>. QED  BY <1>3, <2>1, <3>1, <3>2, <3>3 DEF J
  <2>. QED  BY <2>2, <2>3
<1>. QED  BY <1>4, <1>5

-----------------------------------------------------------------------------
(* What is read between the line breaks at the end                         *)

LEMMA GreatestOf ==
  ASSUME NEW n \in Nat, NEW S \in SUBSET (0..n), S # {}
  PROVE  Max(S) \in S /\ \A y \in S : y <= Max(S)
<1> DEFINE T == {n - x : x \in S}
<1>1. T \in SUBSET Nat /\ T # {}
  OBVIOUS
<1>. HIDE DEF T
<1>2. PICK i \in T : \A j \in T : i <= j
  BY <1>1, LeastOf
<1>3. PICK x \in S : i = n - x
  BY <1>2 DEF T
<1>4. ASSUME NEW y \in S  PROVE x >= y
  <2>1. n - y \in T
    BY DEF T
  <2>. QED  BY <1>2, <1>3, <2>1
<1>5. \E m \in S : \A y \in S : m >= y
  BY <1>4
<1>6. Max(S) \in S /\ \A y \in S : Max(S) >= y
  BY <1>5, Zenon DEF Max
<1>. QED  BY <1>6

LEMMA LeastIs ==
  ASSUME NEW S \in SUBSET Nat, NEW x \in S, \A y \in S : x <= y
  PROVE  Min(S) = x
<1>1. Min(S) \in S /\ \A y \in S : Min(S) =< y
  BY Zenon DEF Min
<1> DEFINE m == Min(S)
<1>2. m \in Nat /\ x \in Nat /\ m <= x /\ x <= m
  BY <1>1
<1>. HIDE DEF m
<1>3. m = x
  BY <1>2
<1>. QED  BY <1>3 DEF m

LEMMA ClipEnd ==
  ASSUME NEW t \in Seq(Fragments)
  PROVE  Clip(Append(t, "nl")) = Clip(t)
<1> DEFINE s == Append(t, "nl")
           S(u) == {0} \cup {k \in DOMAIN u : u[k] # "nl"}
           m == Max(S(t))
<1>1. "nl" \in Fragments
  BY DEF Fragments
<1>2. /\ Len(t) \in Nat /\ DOMAIN t = 1..Len(t) /\ s \in Seq(Fragments)
      /\ DOMAIN s = 1..(Len(t) + 1) /\ s[Len(t) + 1] = "nl" /\ \A k \in 1..Len(t) : s[k] = t[k]
  BY <1>1, LenProperties, AppendProperties
<1>. HIDE DEF s
<1>3. S(s) = S(t)
  BY <1>2
<1>4. m \in 0..Len(t)
  <2>1. S(t) \in SUBSET (0..Len(t)) /\ S(t) # {}
    BY <1>2
  <2>. HIDE DEF S
  <2>. QED  BY <1>2, <2>1, GreatestOf
<1>5. Clip(s) = SubSeq(s, 1, m) /\ Clip(t) = SubSeq(t, 1, m)
  BY <1>3 DEF Clip
<1>. HIDE DEF m
<1>6. SubSeq(s, 1, m) = SubSeq(t, 1, m)
  BY <1>2, <1>4
<1>. QED  BY <1>5, <1>6 DEF s

LEMMA ClippedLines ==
  ASSUME NEW s \in Seq(Fragments)
  PROVE  Clip(Join(Lines(s))) = Clip(s)
  BY JoinedLines, ClipEnd

-----------------------------------------------------------------------------
(* Reading a block scalar takes away what Indent has put before each line  *)

LEMMA SpacesAre ==
  ASSUME NEW l \in Seq(Fragments)
  PROVE  /\ Spaces(l) \in 0..Len(l)
         /\ \A j \in 1..Spaces(l) : l[j] = "sp"
         /\ \A k \in 1..Len(l) : (\A j \in 1..k : l[j] = "sp") => k <= Spaces(l)
<1> DEFINE S == {0} \cup {k \in DOMAIN l : \A j \in 1..k : l[j] = "sp"}
<1>1. Len(l) \in Nat /\ DOMAIN l = 1..Len(l)
  BY LenProperties
<1>2. S \in SUBSET (0..Len(l)) /\ S # {}
  BY <1>1
<1>3. Max(S) \in S /\ \A y \in S : y <= Max(S)
  <2>. HIDE DEF S
  <2>. QED  BY <1>1, <1>2, GreatestOf
<1>4. Spaces(l) = Max(S)
  BY DEF Spaces
<1> DEFINE n == Spaces(l)
<1>5. n \in S /\ \A y \in S : y <= n
  BY <1>3, <1>4, Zenon
<1>. HIDE DEF n
<1>6. n \in 0..Len(l) /\ (\A j \in 1..n : l[j] = "sp")
  BY <1>1, <1>5
<1>7. \A k \in 1..Len(l) : (\A j \in 1..k : l[j] = "sp") => k <= n
  BY <1>1, <1>5
<1>. QED  BY <1>6, <1>7 DEF n

LEMMA IndentedLine ==
  ASSUME NEW l \in Seq(Fragments), NEW m, m = <<"sp", "sp">> \o l
  PROVE  /\ m \in Seq(Fragments)
         /\ Spaces(m) = Spaces(l) + 2
         /\ Len(m) = Len(l) + 2
         /\ SubSeq(m, 3, Len(m)) = l
<1> DEFINE two == <<"sp", "sp">>
<1>1. "sp" \in Fragments
  BY DEF Fragments
<1>2. two \in Seq(Fragments) /\ Len(two) = 2 /\ \A i \in 1..2 : two[i] = "sp"
  BY <1>1
<1>. HIDE DEF two
<1>3. /\ Len(l) \in Nat /\ m \in Seq(Fragments) /\ Len(m) = Len(l) + 2
      /\ m[1] = "sp" /\ m[2] = "sp" /\ \A i \in 1..Len(l) : m[i + 2] = l[i]
  <2>1. /\ m \in Seq(Fragments) /\ Len(m) = 2 + Len(l) /\ Len(l) \in Nat
        /\ \A i \in 1..(2 + Len(l)) : m[i] = IF i <= 2 THEN two[i] ELSE l[i - 2]
    BY <1>2, ConcatProperties, LenProperties DEF two
  <2>. QED  BY <1>2, <2>1
<1>4. SubSeq(m, 3, Len(m)) = l
  <2> DEFINE r == SubSeq(m, 3, Len(m))
  <2>1. \A i \in 3..Len(m) : m[i] \in Fragments
    BY <1>3, ElementOfSeq
  <2>2. /\ r \in Seq(Fragments) /\ Len(r) = IF 3 <= Len(m) THEN Len(m) - 3 + 1 ELSE 0
        /\ \A i \in 1..(Len(m) - 3 + 1) : r[i] = m[3 + i - 1]
    BY <1>3, <2>1, SubSeqProperties
  <2>. HIDE DEF r
  <2>3. Len(r) = Len(l)
    BY <1>3, <2>2
  <2>4. ASSUME NEW i \in 1..Len(l)  PROVE r[i] = l[i]
    <3>1. r[i] = m[3 + i - 1] /\ 3 + i - 1 = i + 2
      BY <1>3, <2>2
    <3>. QED  BY <1>3, <3>1
  <2>5. r = l
    BY <2>2, <2>3, <2>4, SeqEqual
  <2>. QED  BY <2>5 DEF r
<1> DEFINE a == Spaces(l)
           b == Spaces(m)
<1>5. /\ a \in 0..Len(l) /\ \A j \in 1..a : l[j] = "sp"
      /\ \A k \in 1..Len(l) : (\A j \in 1..k : l[j] = "sp") => k <= a
  BY SpacesAre
<1>6. /\ b \in 0..Len(m) /\ \A j \in 1..b : m[j] = "sp"
      /\ \A k \in 1..Len(m) : (\A j \in 1..k : m[j] = "sp") => k <= b
  BY <1>3, SpacesAre
<1>. HIDE DEF a, b
<1>7. a + 2 <= b
  <2>1. \A j \in 1..(a + 2) : m[j] = "sp"
    <3> SUFFICES ASSUME NEW j \in 1..(a + 2)  PROVE m[j] = "sp"
      OBVIOUS
    <3>1. CASE j = 1 \/ j = 2
      BY <1>3, <3>1
    <3>2. CASE j > 2
      <4>1. j - 2 \in 1..a /\ j - 2 \in 1..Len(l) /\ (j - 2) + 2 = j
        BY <1>3, <1>5, <3>2
      <4>2. m[(j - 2) + 2] = l[j - 2] /\ l[j - 2] = "sp"
        BY <1>3, <1>5, <4>1
      <4>. QED  BY <4>1, <4>2
    <3>. QED  BY <1>5, <3>1, <3>2
  <2>2. a + 2 \in 1..Len(m)
    BY <1>3, <1>5
  <2>. QED  BY <1>6, <2>1, <2>2
<1>8. b <= a + 2
  <2> SUFFICES ASSUME b > 2  PROVE b - 2 <= a
    BY <1>3, <1>5, <1>6
  <2>1. b - 2 \in 1..Len(l)
    BY <1>3, <1>6
  <2>2. \A j \in 1..(b - 2) : l[j] = "sp"
    <3> SUFFICES ASSUME NEW j \in 1..(b - 2)  PROVE l[j] = "sp"
      OBVIOUS
    <3>1. j + 2 \in 1..b /\ j \in 1..Len(l)
      BY <1>3, <1>6
    <3>. QED  BY <1>3, <1>6, <3>1
  <2>. QED  BY <1>5, <2>1, <2>2
<1>9. b = a + 2
  BY <1>3, <1>5, <1>6, <1>7, <1>8
<1>. QED  BY <1>3, <1>4, <1>9 DEF a, b

LEMMA ScalarIsRead ==
  ASSUME NEW s \in Seq(Fragments), ~ StartsIndented(s)
  PROVE  ReadScalar(Indent(s)) = Join(Lines(s))
<1> DEFINE L == Lines(s)
           ls == Indent(s)
           N == Len(L)
<1>1. L \in Seq(Seq(Fragments)) /\ N \in Nat /\ DOMAIN L = 1..N /\ \A n \in 1..N : L[n] \in Seq(Fragments)
  BY LinesType, LenProperties, ElementOfSeq
<1>2. ls = [n \in 1..N |-> <<"sp", "sp">> \o L[n]]
  BY <1>1 DEF Indent
<1>3. \A n \in 1..N : Spaces(L[n]) > 0 => \E j \in 1..(n - 1) : L[j] # <<>>
  BY <1>1 DEF StartsIndented
<1>. HIDE DEF L, ls
<1>4. DOMAIN ls = 1..N /\ Len(ls) = N
  <2>1. ls \in Seq(Seq(Fragments)) /\ DOMAIN ls = 1..N
    <3>1. \A n \in 1..N : <<"sp", "sp">> \o L[n] \in Seq(Fragments)
      BY <1>1, IndentedLine
    <3>2. ls \in [1..N -> Seq(Fragments)]
      BY <1>2, <3>1
    <3>. HIDE DEF N
    <3>. QED  BY <1>1, <3>2, FunctionIsSeq
  <2>. QED  BY <1>1, <2>1, LenProperties
<1>5. ASSUME NEW n \in 1..N
      PROVE  /\ Spaces(ls[n]) = Spaces(L[n]) + 2 /\ Len(ls[n]) = Len(L[n]) + 2
             /\ SubSeq(ls[n], 3, Len(ls[n])) = L[n]
             /\ Spaces(L[n]) \in 0..Len(L[n]) /\ Len(L[n]) \in Nat
             /\ (L[n] = <<>> <=> Len(L[n]) = 0)
  <2>1. L[n] \in Seq(Fragments) /\ ls[n] = <<"sp", "sp">> \o L[n]
    BY <1>1, <1>2
  <2> DEFINE l == L[n]
             m == ls[n]
  <2>2. l \in Seq(Fragments) /\ m = <<"sp", "sp">> \o l
    BY <2>1
  <2>. HIDE DEF l, m
  <2>3. Spaces(m) = Spaces(l) + 2 /\ Len(m) = Len(l) + 2 /\ SubSeq(m, 3, Len(m)) = l
    BY <2>2, IndentedLine
  <2>4. Spaces(l) \in 0..Len(l) /\ Len(l) \in Nat /\ (l = <<>> <=> Len(l) = 0)
    BY <2>2, SpacesAre, LenProperties, EmptySeq
  <2>. QED  BY <2>3, <2>4 DEF l, m
<1> DEFINE solid == {n \in DOMAIN ls : Spaces(ls[n]) < Len(ls[n])}
           first == Min(solid \cup {Len(ls) + 1})
           depth == IF solid = {} THEN Max({0} \cup {Len(ls[n]) : n \in DOMAIN ls})
                                  ELSE Spaces(ls[first])
           invalid == \/ \E n \in solid : Spaces(ls[n]) < depth
                      \/ \E n \in 1..(first - 1) : Spaces(ls[n]) > depth
<1>6. ReadScalar(ls) = IF invalid THEN Unreadable
                       ELSE Join([n \in DOMAIN ls |-> SubSeq(ls[n], depth + 1, Len(ls[n]))])
  BY Zenon DEF ReadScalar
<1>7. ~ invalid /\ (N > 0 => depth = 2)
  <2>1. CASE \A n \in 1..N : L[n] = <<>>
    <3>1. \A n \in 1..N : Spaces(ls[n]) = 2 /\ Len(ls[n]) = 2
      <4> SUFFICES ASSUME NEW n \in 1..N  PROVE Spaces(ls[n]) = 2 /\ Len(ls[n]) = 2
        OBVIOUS
      <4>1. Len(L[n]) = 0
        BY <1>5, <2>1
      <4>2. Spaces(L[n]) = 0
        BY <1>5, <4>1
      <4>3. Spaces(ls[n]) = Spaces(L[n]) + 2 /\ Len(ls[n]) = Len(L[n]) + 2
        BY <1>5
      <4>. QED  BY <4>1, <4>2, <4>3
    <3>2. solid = {}
      BY <1>4, <3>1
    <3>3. N > 0 => depth = 2
      <4>1. ASSUME N > 0  PROVE depth = 2
        <5>1. {0} \cup {Len(ls[n]) : n \in DOMAIN ls} = {0, 2}
          <6>1. 1 \in 1..N
            BY <1>1, <4>1
          <6>2. \A n \in 1..N : Len(ls[n]) = 2
            BY <3>1
          <6> DEFINE S == {Len(ls[n]) : n \in 1..N}
          <6>3. 2 \in S
            BY <6>1, <6>2
          <6>4. S \subseteq {2}
            BY <6>2
          <6>. HIDE DEF S
          <6>5. {0} \cup S = {0, 2}
            BY <6>3, <6>4
          <6>. QED  BY <1>4, <6>5 DEF S
        <5>2. Max({0, 2}) = 2
          <6> DEFINE S == {0, 2}
          <6>1. S \in SUBSET (0..2) /\ S # {} /\ 2 \in S
            OBVIOUS
          <6>2. Max(S) \in S /\ \A y \in S : y <= Max(S)
            <7>. HIDE DEF S
            <7>. QED  BY <6>1, GreatestOf
          <6>. QED  BY <6>1, <6>2
        <5>. QED  BY <3>2, <5>1, <5>2
      <4>. QED  BY <4>1
    <3>4. first = N + 1
      <4>1. solid \cup {Len(ls) + 1} = {N + 1}
        BY <1>4, <3>2
      <4>2. Min({N + 1}) = N + 1
        BY <1>1, LeastIs
      <4>. QED  BY <4>1, <4>2
    <3>. HIDE DEF solid, first, depth
    <3>5. \A n \in 1..(first - 1) : n \in 1..N /\ N > 0
      BY <1>1, <3>4
    <3>. QED  BY <3>1, <3>2, <3>3, <3>5
  <2>2. CASE \E n \in 1..N : L[n] # <<>>
    <3> DEFINE S == {n \in 1..N : L[n] # <<>>}
    <3>1. PICK b \in S : \A n \in S : b <= n
      <4>1. S \in SUBSET Nat /\ S # {}
        BY <2>2
      <4>. HIDE DEF S
      <4>. QED  BY <4>1, LeastOf
    <3>2. b \in 1..N /\ L[b] # <<>> /\ \A j \in 1..(b - 1) : L[j] = <<>>
      BY <1>1, <3>1
    <3>3. Spaces(L[b]) = 0
      <4>1. ~ (Spaces(L[b]) > 0)
        BY <1>3, <3>2
      <4>. QED  BY <1>5, <3>2, <4>1
    <3>4. Spaces(ls[b]) = 2 /\ b \in solid
      BY <1>4, <1>5, <3>2, <3>3
    <3>5. ASSUME NEW n \in solid  PROVE b <= n /\ n \in 1..N
      <4>1. n \in 1..N /\ L[n] # <<>>
        BY <1>4, <1>5
      <4>. QED  BY <3>1, <4>1
    <3>6. first = b
      <4>1. solid \cup {Len(ls) + 1} \in SUBSET Nat /\ b \in solid \cup {Len(ls) + 1}
        BY <1>1, <1>4, <3>4
      <4>2. \A n \in solid \cup {Len(ls) + 1} : b <= n
        BY <1>1, <1>4, <3>2, <3>5
      <4>. HIDE DEF solid
      <4>. QED  BY <4>1, <4>2, LeastIs
    <3>. HIDE DEF first, S
    <3>7. depth = 2
      BY <3>4, <3>6
    <3>8. \A n \in solid : ~ (Spaces(ls[n]) < 2)
      BY <1>5, <3>5
    <3>9. \A n \in 1..(first - 1) : ~ (Spaces(ls[n]) > 2)
      <4>1. ASSUME NEW n \in 1..(b - 1)  PROVE ~ (Spaces(ls[n]) > 2)
        <5>1. n \in 1..N /\ L[n] = <<>>
          BY <3>2
        <5>. QED  BY <1>5, <5>1
      <4>. QED  BY <3>6, <4>1
    <3>. HIDE DEF depth, solid
    <3>. QED  BY <3>7, <3>8, <3>9
  <2>. QED  BY <2>1, <2>2
<1>. HIDE DEF invalid
<1>8. [n \in DOMAIN ls |-> SubSeq(ls[n], depth + 1, Len(ls[n]))] = L
  <2>. HIDE DEF depth
  <2>1. \A n \in 1..N : SubSeq(ls[n], depth + 1, Len(ls[n])) = L[n]
    <3> SUFFICES ASSUME NEW n \in 1..N  PROVE SubSeq(ls[n], depth + 1, Len(ls[n])) = L[n]
      OBVIOUS
    <3>1. depth + 1 = 3
      BY <1>1, <1>7
    <3>2. SubSeq(ls[n], 3, Len(ls[n])) = L[n]
      BY <1>5
    <3>. QED  BY <3>1, <3>2, Zenon
  <2>2. L = [n \in 1..N |-> L[n]]
    BY <1>1
  <2>. QED  BY <1>4, <2>1, <2>2, Zenon
<1>. QED  BY <1>6, <1>7, <1>8, Zenon DEF L, ls

-----------------------------------------------------------------------------
(* What complete has to print                                              *)

LEMMA OfOneType ==
  ASSUME NEW m \in Messages
  PROVE  /\ OfType(ParseContent(m), "text") = Unless(m.text = <<>>, TextBlock(m.text))
         /\ OfType(ParseContent(m), "thinking")
              = Unless(m.thinking = <<>>, ThinkingBlock(m.thinking))
<1> DEFINE C == {ToolUse(m.tools[k].id, ParseArgs(m.tools[k].args)) : k \in 1..Len(m.tools)}
           H == {ThinkingBlock(m.thinking)}
           X == {TextBlock(m.text)}
           S == C \cup H \cup X
           h == Unless(m.thinking = <<>>, ThinkingBlock(m.thinking))
           x == Unless(m.text = <<>>, TextBlock(m.text))
           z == [k \in DOMAIN m.tools |-> ToolUse(m.tools[k].id, ParseArgs(m.tools[k].args))]
<1>1. ParseContent(m) = h \o x \o z
  BY DEF ParseContent
<1>2. /\ \A b \in C : b.type = "tool_use"
      /\ \A b \in H : b.type = "thinking"
      /\ \A b \in X : b.type = "text"
  <2>1. \A b \in C : b.type = "tool_use"
    BY DEF ToolUse
  <2>2. (\A b \in H : b.type = "thinking") /\ \A b \in X : b.type = "text"
    BY DEF ThinkingBlock, TextBlock
  <2>. QED  BY <2>1, <2>2
<1>3. h \in Seq(H) /\ x \in Seq(X) /\ z \in Seq(C)
  <2>1. ThinkingBlock(m.thinking) \in H /\ TextBlock(m.text) \in X
    OBVIOUS
  <2>2. DOMAIN m.tools = 1..Len(m.tools) /\ Len(m.tools) \in Nat
    <3>1. m.tools \in Seq([id : STRING \ {NoTool}, args : Seq(STRING)])
      BY MessageParts
    <3>. QED  BY <3>1, LenProperties
  <2>3. z \in Seq(C)
    <3>1. \A k \in 1..Len(m.tools) : ToolUse(m.tools[k].id, ParseArgs(m.tools[k].args)) \in C
      OBVIOUS
    <3>. HIDE DEF C
    <3>. QED  BY <2>2, <3>1
  <2>. HIDE DEF H, X
  <2>4. h \in Seq(H) /\ x \in Seq(X)
    BY <2>1, Single, EmptySeq DEF Unless
  <2>. QED  BY <2>3, <2>4
<1>. HIDE DEF C, H, X, h, x, z
<1>4. h \in Seq(S) /\ x \in Seq(S) /\ z \in Seq(S)
  <2>1. C \subseteq S /\ H \subseteq S /\ X \subseteq S
    OBVIOUS
  <2>. HIDE DEF S
  <2>. QED  BY <1>3, <2>1, SeqMonotonic
<1>. HIDE DEF S
<1> DEFINE hx == h \o x
<1>5. hx \in Seq(S)
  BY <1>4, ConcatProperties
<1>. HIDE DEF hx
<1>6. ASSUME NEW type  PROVE OfType(hx \o z, type) = OfType(h, type) \o OfType(x, type) \o OfType(z, type)
  <2>1. OfType(hx, type) = OfType(h, type) \o OfType(x, type)
    BY <1>4, OfTypeConcat, Zenon DEF hx
  <2>2. OfType(hx \o z, type) = OfType(hx, type) \o OfType(z, type)
    BY <1>4, <1>5, OfTypeConcat, Zenon
  <2>. QED  BY <2>1, <2>2, Zenon
<1>7. OfType(hx \o z, "text") = x
  <2>1. OfType(h, "text") = <<>> /\ OfType(z, "text") = <<>>
    BY <1>2, <1>3, OfTypeNone
  <2>2. OfType(x, "text") = x
    BY <1>2, <1>3, OfTypeAll
  <2>3. <<>> \o x = x /\ x \o <<>> = x
    BY <1>4, ConcatEmptySeq
  <2>4. OfType(hx \o z, "text") = <<>> \o x \o <<>>
    BY <1>6, <2>1, <2>2, Zenon
  <2>. QED  BY <2>3, <2>4, Zenon
<1>8. OfType(hx \o z, "thinking") = h
  <2>1. OfType(x, "thinking") = <<>> /\ OfType(z, "thinking") = <<>>
    BY <1>2, <1>3, OfTypeNone
  <2>2. OfType(h, "thinking") = h
    BY <1>2, <1>3, OfTypeAll
  <2>3. h \o <<>> = h
    BY <1>4, ConcatEmptySeq
  <2>4. OfType(hx \o z, "thinking") = h \o <<>> \o <<>>
    BY <1>6, <2>1, <2>2, Zenon
  <2>. QED  BY <2>3, <2>4, Zenon
<1>. QED  BY <1>1, <1>7, <1>8, Zenon DEF hx, h, x

LEMMA FlatOne ==
  ASSUME NEW T, NEW t \in Seq(T)
  PROVE  FlattenSeq(<<t>>) = t
<1> DEFINE e == <<>>
<1>1. e \in Seq(Seq(T)) /\ e \in Seq(T)
  BY EmptySeq
<1>2. Append(e, t) = <<t>>
  OBVIOUS
<1>3. FlattenSeq(e) = e
  BY FlatEmpty
<1>. HIDE DEF e
<1>4. FlattenSeq(Append(e, t)) = FlattenSeq(e) \o t
  BY <1>1, FlatAfter
<1>5. <<>> \o t = t
  BY ConcatEmptySeq
<1>. QED  BY <1>2, <1>3, <1>4, <1>5, Zenon DEF e

LEMMA JoinedBlocks ==
  ASSUME message \in Messages
  PROVE  JoinBlocks("text") = message.text /\ JoinBlocks("thinking") = message.thinking
<1> DEFINE Joined(bs, type) == FlattenSeq([k \in DOMAIN bs |-> bs[k][type]])
<1>1. message.text \in Seq(STRING) /\ message.thinking \in Seq(STRING)
  BY MessageParts
<1>2. \A type : JoinBlocks(type) = Joined(OfType(ParseContent(message), type), type)
  BY DEF JoinBlocks
<1>3. ASSUME NEW b, NEW type, NEW t \in Seq(STRING), b[type] = t
      PROVE  Joined(Unless(t = <<>>, b), type) = t
  <2>1. CASE t = <<>>
    <3> DEFINE e == <<>>
               q == [k \in DOMAIN e |-> e[k][type]]
    <3>1. Unless(t = <<>>, b) = e
      BY <2>1 DEF Unless
    <3>2. q = <<>>
      OBVIOUS
    <3>3. Joined(e, type) = FlattenSeq(<<>>)
      BY <3>2, Zenon
    <3>. QED  BY <2>1, <3>1, <3>3, FlatEmpty, Zenon
  <2>2. CASE t # <<>>
    <3> DEFINE o == <<b>>
               q == [k \in DOMAIN o |-> o[k][type]]
    <3>1. Unless(t = <<>>, b) = o
      BY <2>2 DEF Unless
    <3>2. q = <<t>>
      BY <1>3
    <3>3. Joined(o, type) = FlattenSeq(<<t>>)
      BY <3>2, Zenon
    <3>. QED  BY <3>1, <3>3, FlatOne, Zenon
  <2>. QED  BY <2>1, <2>2
<1>4. TextBlock(message.text)["text"] = message.text
  BY DEF TextBlock
<1>5. ThinkingBlock(message.thinking)["thinking"] = message.thinking
  BY DEF ThinkingBlock
<1>. HIDE DEF Joined
<1>. QED  BY <1>1, <1>2, <1>3, <1>4, <1>5, OfOneType

-----------------------------------------------------------------------------
(* The answer is printed                                                   *)

Known == {"text", "json", "yaml"}

(* How far the command is, and what that says of the request: it has not   *)
(* been sent before the inputs are in, and only an answer is printed.      *)
CommandStages ==
  /\ stage \in {"configuring", "creating", "reading", "rendering", "refused"} =>
       posts = 0 /\ client = "posting"
  /\ stage \in {"printing", "printed"} => Received
  /\ stage = "failed" /\ Received => format \notin Known
  /\ stage = "printed" => format \in Known /\ printed = FormatOutput(Answer, format)

LEMMA CommandInitStages ==
  ASSUME CommandInit
  PROVE  CommandStages
  BY DEF CommandInit, CommandStages, Init, StreamInit

LEMMA CommandStepStages ==
  ASSUME CommandStages, [CommandNext]_allVars
  PROVE  CommandStages'
<1>. USE DEF CommandStages
<1>1. ASSUME UNCHANGED <<streamVars, vars, streaming>>
      PROVE  /\ posts' = posts /\ client' = client
             /\ Received' = Received /\ Answer' = Answer
  BY <1>1 DEF streamVars, server, caller, vars, Received, Answer, JoinBlocks
<1>2. CASE ReadConfig \/ CreateClient \/ ReadInputs \/ BuildRequest
  <2>1. /\ UNCHANGED <<streamVars, vars, streaming, format, printed>>
        /\ stage \in {"configuring", "creating", "reading", "rendering"}
        /\ stage' \in {"creating", "reading", "rendering", "calling", "refused"}
    BY <1>2 DEF ReadConfig, CreateClient, ReadInputs, BuildRequest, Prepare
  <2>. QED  BY <1>1, <2>1
<1>3. CASE CallComplete \/ CallStream(StreamNext)
  <2>1. stage = "calling" /\ stage' = "calling"
    BY <1>3 DEF CallComplete, CallStream, command
  <2>. QED  BY <2>1
<1>4. CASE Return
  <2>1. /\ UNCHANGED <<streamVars, vars, streaming, format, printed>>
        /\ \/ Received /\ stage' = "printing"
           \/ Refused /\ stage' = "failed"
    BY <1>4 DEF Return
  <2>2. Refused => ~Received
    BY DEF Refused, Received, Results
  <2>. QED  BY <1>1, <2>1, <2>2
<1>5. CASE PrintAnswer
  <2>1. /\ UNCHANGED <<streamVars, vars, streaming>>
        /\ stage = "printing"
        /\ \/ format' \in Known /\ stage' = "printed" /\ printed' = FormatOutput(Answer, format')
           \/ format' \notin Known /\ stage' = "failed"
    BY <1>5 DEF PrintAnswer, Known
  <2>2. /\ Received' = Received /\ Answer' = Answer
    BY <1>1, <2>1
  <2>. QED  BY <2>1, <2>2 DEF FormatOutput
<1>6. CASE UNCHANGED allVars
  <2>1. UNCHANGED <<streamVars, vars, streaming>> /\ UNCHANGED <<stage, format, printed>>
    BY <1>6 DEF allVars, command
  <2>. QED  BY <1>1, <2>1 DEF FormatOutput
<1>. QED  BY <1>2, <1>3, <1>4, <1>5, <1>6 DEF CommandNext, Command

LEMMA AnswerIsText ==
  ASSUME StreamInv
  PROVE  Answer.text \in Seq(Fragments) /\ Answer.thinking \in Seq(Fragments)
<1>1. message \in Messages
  BY DEF StreamInv, StreamTypes
<1>2. message.text \in Seq(STRING) /\ message.thinking \in Seq(STRING)
  BY <1>1, MessageParts
<1>3. \A t \in Seq(STRING) : t \in Seq(Fragments)
  <2>1. STRING \subseteq Fragments
    BY DEF Fragments
  <2>. QED  BY <2>1, SeqMonotonic
<1>4. CASE streaming
  <2>1. PICK v \in Views(message) : Viewer(v)
    BY DEF StreamInv
  <2>2. v.text \in 0..Len(message.text) /\ v.thinking \in 0..Len(message.thinking)
    BY <1>1, <2>1 DEF Views
  <2>3. /\ shown.text = SubSeq(message.text, 1, v.text)
        /\ shown.thinking = SubSeq(message.thinking, 1, v.thinking)
    BY <2>1 DEF Viewer
  <2>4. SubSeq(message.text, 1, v.text) \in Seq(STRING)
    BY <1>2, <2>2, Beginning
  <2>5. SubSeq(message.thinking, 1, v.thinking) \in Seq(STRING)
    BY <1>2, <2>2, Beginning
  <2>. QED  BY <1>3, <1>4, <2>3, <2>4, <2>5 DEF Answer
<1>5. CASE ~streaming
  <2>1. Answer.text = message.text /\ Answer.thinking = message.thinking
    BY <1>1, <1>5, JoinedBlocks DEF Answer
  <2>. QED  BY <1>2, <1>3, <2>1
<1>. QED  BY <1>4, <1>5

LEMMA PrintedReadsBack ==
  ASSUME NEW s \in Seq(Fragments),
         NEW document, document = IF format = "yaml" THEN Indent(s) ELSE s
  PROVE  ReadsBack(s, document)
<1>1. CASE format = "yaml" /\ ~StartsIndented(s)
  <2>1. ReadScalar(document) = Join(Lines(s))
    BY <1>1, ScalarIsRead
  <2>2. Clip(Join(Lines(s))) = Clip(s)
    BY ClippedLines
  <2>3. Clip(ReadScalar(document)) = Clip(s)
    BY <2>1, <2>2, Zenon
  <2>. QED  BY <1>1, <2>3, Zenon DEF ReadsBack
<1>2. CASE format = "yaml" /\ StartsIndented(s)
  BY <1>2, Zenon DEF ReadsBack
<1>3. CASE format # "yaml"
  BY <1>3, Zenon DEF ReadsBack
<1>. QED  BY <1>1, <1>2, <1>3

LEMMA StagesPrinted ==
  ASSUME StreamInv, CommandStages
  PROVE  AnswerIsPrinted
<1>1. ASSUME stage = "printed"
      PROVE  /\ ReadsBack(Answer.text, printed.text)
             /\ ReadsBack(Answer.thinking, printed.thinking)
  <2> DEFINE a == Answer.text
             b == Answer.thinking
  <2>1. /\ printed.text = IF format = "yaml" THEN Indent(a) ELSE a
        /\ printed.thinking = IF format = "yaml" THEN Indent(b) ELSE b
    <3>1. printed = FormatOutput(Answer, format)
      BY <1>1 DEF CommandStages
    <3>2. CASE format = "yaml"
      BY <3>1, <3>2 DEF FormatOutput
    <3>3. CASE format # "yaml"
      BY <3>1, <3>3 DEF FormatOutput
    <3>. QED  BY <3>2, <3>3
  <2>2. a \in Seq(Fragments) /\ b \in Seq(Fragments)
    BY AnswerIsText
  <2>. HIDE DEF a, b
  <2>3. ReadsBack(a, printed.text) /\ ReadsBack(b, printed.thinking)
    BY <2>1, <2>2, PrintedReadsBack
  <2>. QED  BY <2>3 DEF a, b
<1>2. ASSUME stage = "printed", ~streaming \/ ~left.done
      PROVE  Answer = [text |-> message.text, thinking |-> message.thinking]
  <2>1. CASE streaming
    <3>1. cli = "succeeded" /\ ~left.done
      BY <1>2, <2>1 DEF CommandStages, Received
    <3>. QED  BY <2>1, <3>1, InvShownInOrder DEF Answer, ShownInOrder
  <2>2. CASE ~streaming
    <3>1. message \in Messages
      BY DEF StreamInv, StreamTypes
    <3>. QED  BY <2>2, <3>1, JoinedBlocks DEF Answer
  <2>. QED  BY <2>1, <2>2
<1>3. /\ stage = "failed" /\ Received => format \notin {"text", "json", "yaml"}
      /\ stage = "refused" => posts = 0 /\ client = "posting"
  BY DEF CommandStages, Known
<1>. QED  BY <1>1, <1>2, <1>3 DEF AnswerIsPrinted

(* What `animus llm complete` prints, in any of the known formats, reads   *)
(* back as the provider's answer, for every answer and with or without     *)
(* streaming; an answer is lost to an unknown format alone, and a command  *)
(* that refuses its inputs has sent no request.                            *)
THEOREM CommandAnswerIsPrinted == CommandSpec => []AnswerIsPrinted
<1>1. CommandSpec => []CommandStages
  BY CommandInitStages, CommandStepStages, PTL DEF CommandSpec
<1>. QED  BY <1>1, CommandStreams, NothingLost, StagesPrinted, PTL
=============================================================================
