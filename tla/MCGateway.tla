------------------------------ MODULE MCGateway -------------------------------
(***************************************************************************)
(* Instances of Gateway and StreamUsage for TLC: the requests, and what    *)
(* one response is charged.                                                *)
(***************************************************************************)
EXTENDS Gateway, StreamUsage, TLC

CONSTANTS r1, r2, c1, c2

Claude(n) == [family |-> "claude", tier |-> n]
Gpt(n)    == [family |-> "gpt", tier |-> n]

Ask(path, m, override, stream, task, key) ==
  [path |-> path, model |-> m, override |-> override, stream |-> stream, task |-> task,
   header |-> None, key |-> key]

TheInputs == {
  Ask("chat", Claude(1), None, FALSE, TRUE, <<1, 2, 3>>),
  Ask("chat", Gpt(1), None, TRUE, TRUE, <<1, 2>>),
  Ask("completions", Claude(2), None, FALSE, FALSE, <<2>>),
  Ask("models", None, "openai", FALSE, FALSE, <<1>>),
  Ask("messages", None, None, FALSE, TRUE, <<>>)}

(* The built-in chains, and an explicit one.                                *)
TheChains == {<<>>, <<Claude(1), Claude(3)>>}

TheKeyMap == <<[prefix |-> <<1>>, agent |-> "a"], [prefix |-> <<1, 2>>, agent |-> "b"]>>

-----------------------------------------------------------------------------

Line(in, out, delta) == [data |-> TRUE, in |-> in, out |-> out, delta |-> delta]

(* message_start, message_delta, a chunk of text, a chunk of text with       *)
(* usage, a faulty count, a comment or [DONE].                              *)
TheLines == {Line(2, 1, 0), Line(0, 3, 0), Line(0, 0, 3), Line(0, 2, 5), Line(-1, 0, 0), Line(0, 0, 0)}

(* Whole bodies: with usage, with a faulty count, an error without usage.   *)
TheAnswers == {[data |-> FALSE, in |-> i, out |-> 2, delta |-> 0] : i \in {-30, 5}}
                \cup {[data |-> FALSE, in |-> 0, out |-> 0, delta |-> 0]}

TheDocs == TheLines \cup TheAnswers

Stream(ds) == FoldLeft(LAMBDA text, d : text \o Bytes(d) \o <<NL>>, <<>>, ds)

TheBodies ==
  {Stream(ds) : ds \in UNION {[1 .. n -> TheLines] : n \in 0 .. 3}} \cup {Bytes(d) : d \in TheAnswers}

Named(claude, dated) == [claude |-> claude, dated |-> dated]

TheModels    == {Named(TRUE, TRUE), Named(FALSE, FALSE)}
ThePrices    == Named(TRUE, FALSE) :> [in |-> 1, out |-> 5]
TheOverrides == {<<>>, Named(TRUE, TRUE) :> [in |-> 2, out |-> 3]}

-----------------------------------------------------------------------------
(* What is composed one at a time: a second request, or the calls of the     *)
(* emergency stop.                                                          *)
Apart == (\A c \in Calls : call[c].step = "idle") \/ at[r2] = "new"

(* The two specifications share no variable: beside the requests there is   *)
(* one body that nobody reads, and beside the bodies there is no request.   *)
Unread == body = <<>> /\ usage = Open /\ streaming /\ asked = Named(FALSE, FALSE) /\ table = ThePrices

Untouched == /\ serving = "up" /\ starts = 1
             /\ \A r \in Requests : at[r] = "new"
             /\ \A c \in Calls : call[c] = NoCall
             /\ ~stop /\ ~setting

MCNext ==
  \/ Unread /\ Next /\ Apart' /\ UNCHANGED bodyVars
  \/ Untouched /\ BodyNext /\ UNCHANGED vars

MCInit == Init /\ BodyInit

MCLiveSpec == MCInit /\ [][MCNext]_<<vars, bodyVars>> /\ Fairness

=============================================================================
