---------------------------- MODULE StreamReader -----------------------------
(***************************************************************************)
(* One streamed call of the OpenAI adapter (llm/openai_provider.py): it    *)
(* puts together text, tool calls, finish reason and usage from events of  *)
(* the wire, and yields a StreamEnd.  The provider is external: it sends   *)
(* the pieces of an answer, the finish reason, the usage and [DONE], and   *)
(* the connection may break, or be closed as if the answer were over, at   *)
(* any point.                                                              *)
(***************************************************************************)
EXTENDS Naturals, Sequences

CONSTANTS Indexes,      \* the indexes of tool calls in an answer
          MaxPieces     \* bound: the pieces of a call's arguments

ASSUME StreamAssumption == Indexes \subseteq Nat /\ MaxPieces \in Nat

VARIABLES answer,       \* what the provider has to say
          wire,         \* how far it is: sent pieces of each call, and the tail
          heard,        \* what the adapter has put together
          outcome       \* what the caller of stream() gets in the end

streamVars == <<answer, wire, heard, outcome>>
-----------------------------------------------------------------------------
Finishes == {"stop", "tool_calls", "length", "content_filter"}
StopReasons == {"end_turn", "tool_use", "max_tokens", "refusal"}
Failures == {"RateLimited", "ProviderUnavailable", "ContextTooLong",
             "ProviderBadRequest", "JSONDecodeError"}
Running == [kind |-> "running"]

FINISH_REASONS == [stop |-> "end_turn", tool_calls |-> "tool_use",
                   length |-> "max_tokens", content_filter |-> "refusal"]

\* Mutant: without a finish reason, the calls that were heard decide.
StopReason_ByCalls(finish, calls) ==
    IF finish \in Finishes THEN FINISH_REASONS[finish]
    ELSE IF calls # {} THEN "tool_use" ELSE "end_turn"

StopReason(finish, calls) ==
    IF finish \in Finishes THEN FINISH_REASONS[finish] ELSE "end_turn"

\* The pieces of a call's arguments, in order, are well-formed JSON only when they
\* are all the model meant to say; an answer that got too long has no more of them.
Whole(i) == [k \in 1..answer.meant[i] |-> <<i, k>>]
Parses(i) == heard.slots[i] \in {<<>>, Whole(i)}

\* _map_status
MapStatus(status, context) ==
    IF status = 429 THEN "RateLimited"
    ELSE IF status >= 500 THEN "ProviderUnavailable"
    ELSE IF context THEN "ContextTooLong" ELSE "ProviderBadRequest"

Fail(failure) == outcome' = [kind |-> failure]
Open == outcome = Running
-----------------------------------------------------------------------------
Refuse ==
    /\ Open /\ wire.phase = "sent"
    /\ \E status \in {429, 400, 503}, context \in BOOLEAN : Fail(MapStatus(status, context))
    /\ UNCHANGED <<answer, wire, heard>>

Respond ==
    /\ Open /\ wire.phase = "sent"
    /\ wire' = [wire EXCEPT !.phase = "body"]
    /\ UNCHANGED <<answer, heard, outcome>>

HearText ==
    /\ Open /\ wire.phase = "body" /\ wire.text < answer.text
    /\ wire' = [wire EXCEPT !.text = @ + 1]
    /\ heard' = [heard EXCEPT !.text = Append(@, wire.text + 1)]
    /\ UNCHANGED <<answer, outcome>>

With(f, x, v) == [y \in DOMAIN f \cup {x} |-> IF y = x THEN v ELSE f[y]]

\* The first delta of a call opens its accumulator.
HearName(i) ==
    /\ Open /\ wire.phase = "body"
    /\ i \in DOMAIN answer.pieces /\ i \notin DOMAIN wire.pieces
    /\ wire' = [wire EXCEPT !.pieces = With(@, i, 0)]
    /\ heard' = [heard EXCEPT !.slots = With(@, i, <<>>)]
    /\ UNCHANGED <<answer, outcome>>

\* A piece goes to the accumulator of its index.
HearPiece(i) ==
    /\ Open /\ wire.phase = "body"
    /\ i \in DOMAIN wire.pieces /\ wire.pieces[i] < answer.pieces[i]
    /\ wire' = [wire EXCEPT !.pieces[i] = @ + 1]
    /\ heard' = [heard EXCEPT !.slots[i] = Append(@, <<i, wire.pieces[i] + 1>>)]
    /\ UNCHANGED <<answer, outcome>>

AllSent == wire.text = answer.text /\ wire.pieces = answer.pieces

HearFinish ==
    /\ Open /\ wire.phase = "body" /\ AllSent
    /\ wire' = [wire EXCEPT !.phase = "finished"]
    /\ heard' = [heard EXCEPT !.finish = answer.finish]
    /\ UNCHANGED <<answer, outcome>>

\* The event with the usage has no choices.
HearUsage ==
    /\ Open /\ wire.phase = "finished"
    /\ wire' = [wire EXCEPT !.phase = "metered"]
    /\ heard' = [heard EXCEPT !.metered = TRUE]
    /\ UNCHANGED <<answer, outcome>>

\* [DONE], which comes last.
Ends(phase) == phase = "metered"

\* The StreamEnd: arguments that do not parse raise instead.
YieldEnd ==
    IF \E i \in DOMAIN heard.slots : ~Parses(i)
    THEN Fail("JSONDecodeError")
    ELSE outcome' = [kind |-> "end", text |-> heard.text, calls |-> heard.slots,
                     stop |-> StopReason(heard.finish, DOMAIN heard.slots),
                     metered |-> heard.metered]

HearDone ==
    /\ Open /\ Ends(wire.phase)
    /\ wire' = [wire EXCEPT !.phase = "done"]
    /\ YieldEnd
    /\ UNCHANGED <<answer, heard>>

\* The body ends without [DONE]: the loop over its lines ends as well.
Closed ==
    /\ Open /\ wire.phase \in {"body", "finished", "metered"}
    /\ wire' = [wire EXCEPT !.phase = "closed"]
    /\ YieldEnd
    /\ UNCHANGED <<answer, heard>>

\* httpx.HTTPError
Broken ==
    /\ Open
    /\ Fail("ProviderUnavailable")
    /\ UNCHANGED <<answer, wire, heard>>
-----------------------------------------------------------------------------
Arguments == UNION {[S -> 0..MaxPieces] : S \in SUBSET Indexes}
Answers == [text : {0, 1}, finish : Finishes, pieces : Arguments, meant : Arguments]

\* Calls come with "tool_calls", and with "length": there one may be cut short.
Plausible(a) ==
    /\ a.finish = "tool_calls" => DOMAIN a.pieces # {}
    /\ a.finish \in {"stop", "content_filter"} => DOMAIN a.pieces = {}
    /\ DOMAIN a.meant = DOMAIN a.pieces
    /\ \A i \in DOMAIN a.pieces : a.pieces[i] <= a.meant[i]
    /\ a.finish # "length" => a.meant = a.pieces
    /\ \A i, j \in DOMAIN a.pieces :
          a.pieces[i] < a.meant[i] /\ a.pieces[j] < a.meant[j] => i = j

StreamInit ==
    /\ answer \in {a \in Answers : Plausible(a)}
    /\ wire = [phase |-> "sent", text |-> 0, pieces |-> [i \in {} |-> 0]]
    /\ heard = [text |-> <<>>, slots |-> [i \in {} |-> <<>>], finish |-> "none",
                metered |-> FALSE]
    /\ outcome = Running

StreamNext ==
    \/ Refuse \/ Respond \/ HearText \/ (\E i \in Indexes : HearName(i) \/ HearPiece(i))
    \/ HearFinish \/ HearUsage \/ HearDone \/ Closed \/ Broken

StreamSpec == StreamInit /\ [][StreamNext]_streamVars
-----------------------------------------------------------------------------
StreamTypeOK ==
    /\ heard.finish \in Finishes \cup {"none"} /\ heard.metered \in BOOLEAN
    /\ DOMAIN heard.slots \subseteq Indexes
    /\ \/ outcome.kind \in {"running"} \cup Failures
       \/ outcome.kind = "end" /\ outcome.stop \in StopReasons

\* If the model is taken to ask for tools, the calls are those it asked for, each
\* with all its arguments in order: a stream that is cut, or an answer that got too
\* long, never makes the agent run a tool with half of its arguments or none, and
\* pieces of calls that interleave are not mixed up (OpenAIProvider.stream; run_agent looks at the stop reason).
ToolsAreWhole ==
    outcome.kind = "end" /\ outcome.stop = "tool_use" =>
        outcome.calls = [i \in DOMAIN answer.meant |-> Whole(i)]

\* A stream that was read to its end carries the whole text and the tokens to
\* account for (StreamEnd: "carries the full completion (incl. usage)").
CompleteIsMetered ==
    outcome.kind = "end" /\ wire.phase = "done" =>
        outcome.metered /\ Len(outcome.text) = answer.text

\* What the caller of stream() is given is what the provider sent.
AnswerIsWhole == ToolsAreWhole /\ CompleteIsMetered
=============================================================================
