------------------------------ MODULE ChatTurn -------------------------------
(***************************************************************************)
(* Turns of one conversation (domains/chat): a user message, up to         *)
(* MAX_TOOL_ROUNDS streamed provider calls with tool calls in between, the *)
(* reply, and the llm_usage rows that account for the calls                *)
(* (domains/usage).                                                        *)
(*                                                                         *)
(* A turn has one database session.  It commits after the user message,    *)
(* and then only in two places: when a stream fails or is closed, and      *)
(* after the reply.  Rows flushed in between are lost if neither comes.    *)
(* A call is a triple <<turn, round, n>>: n = 0 is the round's provider    *)
(* call, n > 0 an embedding its searches asked for.                        *)
(***************************************************************************)
EXTENDS Naturals, Sequences

CONSTANTS Turns,            \* requests that send a message
          DEFAULT_TITLE,    \* the title nobody has chosen
          MAX_TOOL_ROUNDS,
          MaxSearches,      \* bound: searches the model asks for in a round
          FaultSets         \* the sets of things that may go wrong

AllFaults == {"stream",     \* the provider's stream ends in an LLMError
              "gone",       \* the client is gone while an event is sent to it
              "cancel",     \* the task is cancelled at an await, or dies
              "tool",       \* the embedding of a search ends in an LLMError
              "redis",      \* Redis does not answer
              "overlap"}    \* a turn may start before another is over

ASSUME ChatTurnAssumption ==
    /\ DEFAULT_TITLE \notin Turns
    /\ MAX_TOOL_ROUNDS \in Nat /\ MaxSearches \in Nat
    /\ FaultSets \subseteq SUBSET AllFaults

VARIABLES exists,       \* the conversation's row is there
          title,        \* its title: the default, or the turn that named it
          messages,     \* its committed messages, oldest first
          turn,         \* the progress of each turn
          flushed,      \* calls whose usage rows are flushed, per turn
          rows,         \* calls with a committed usage row
          calls,        \* calls that were made, and cost money
          counted,      \* turns whose tokens are in the daily counter
          faults        \* what may go wrong, fixed at the start

vars == <<exists, title, messages, turn, flushed, rows, calls, counted, faults>>
-----------------------------------------------------------------------------
Rounds == 0..MAX_TOOL_ROUNDS
Phases == {"new", "asking", "ready", "streaming", "tools", "final",
           "recording", "committing", "over"}

Turn == [pc : Phases, round : Rounds, searches : 0..MaxSearches,
         loaded : Turns \cup {DEFAULT_TITLE}]
Call == Turns \X Rounds \X (0..MaxSearches)
ChatMessage == Turns \X {"user", "assistant"}

Go(t, phase) == turn' = [turn EXCEPT ![t].pc = phase]

\* The calls of a turn, and the call its stream is busy with.
CallsOf(t) == {c \in calls : c[1] = t}
StreamCall(t) == <<t, turn[t].round, 0>>

\* The session is closed without a commit: what it flushed is gone.
RollBack(t) == flushed' = [flushed EXCEPT ![t] = {}]

\* Mutant: the rows of interrupted streams are flushed like all the others.
CommitRows_Later(t, more) ==
    /\ UNCHANGED rows
    /\ flushed' = [flushed EXCEPT ![t] = @ \cup more]

\* A commit of the session, with the usage rows "more".
CommitRows(t, more) ==
    /\ rows' = rows \cup flushed[t] \cup more
    /\ flushed' = [flushed EXCEPT ![t] = {}]

\* Mutant: nothing keeps a message from being stored without its conversation.
InsertAllowed_Always == TRUE

\* A message needs its conversation (the foreign key of chat_messages).
InsertAllowed == exists

Post(t, role) == messages' = Append(messages, <<t, role>>)
-----------------------------------------------------------------------------
(* POST /conversations/{id}/messages, before the stream                     *)

Open(t) ==
    /\ turn[t].pc = "new" /\ exists
    /\ "overlap" \in faults \/ \A u \in Turns : turn[u].pc \in {"new", "over"}
    /\ turn' = [turn EXCEPT ![t].pc = "asking", ![t].loaded = title]
    /\ UNCHANGED <<exists, title, messages, flushed, rows, calls, counted, faults>>

\* Mutant: every message names the conversation.
Title_Always(t) == t

Title(t) == IF turn[t].loaded = DEFAULT_TITLE THEN t ELSE title

Ask(t) ==
    /\ turn[t].pc = "asking"
    /\ \/ /\ InsertAllowed
          /\ Post(t, "user") /\ title' = Title(t)
          /\ Go(t, "ready")
       \/ /\ ~InsertAllowed
          /\ Go(t, "over")
          /\ UNCHANGED <<messages, title>>
    /\ UNCHANGED <<exists, flushed, rows, calls, counted, faults>>
-----------------------------------------------------------------------------
(* run_agent and tracked_stream                                             *)

MoreRounds(t) == turn[t].round < MAX_TOOL_ROUNDS

\* Mutant: rounds with tool calls do not count.
NextRound_First(t) == 1

NextRound(t) == turn[t].round + 1

StartRound(t) ==
    /\ turn[t].pc = "ready" /\ MoreRounds(t)
    /\ turn' = [turn EXCEPT ![t].pc = "streaming", ![t].round = NextRound(t)]
    /\ calls' = calls \cup {<<t, NextRound(t), 0>>}
    /\ UNCHANGED <<exists, title, messages, flushed, rows, counted, faults>>

\* The last round's tools are run as well, and nobody reads their results.
RoundsExhausted(t) ==
    /\ turn[t].pc = "ready" /\ ~MoreRounds(t)
    /\ Go(t, "final")
    /\ UNCHANGED <<exists, title, messages, flushed, rows, calls, counted, faults>>

\* StreamEnd: the usage row is flushed, and the stop reason decides.
EndStream(t) ==
    /\ turn[t].pc = "streaming"
    /\ flushed' = [flushed EXCEPT ![t] = @ \cup {StreamCall(t)}]
    /\ \/ Go(t, "final")
       \/ \E n \in 0..MaxSearches :
             turn' = [turn EXCEPT ![t].pc = IF n = 0 THEN "ready" ELSE "tools",
                                  ![t].searches = n]
    /\ UNCHANGED <<exists, title, messages, rows, calls, counted, faults>>

\* The error or disconnect row is committed at once, and with it every row the
\* session holds.
StreamFails(t) ==
    /\ "stream" \in faults /\ turn[t].pc = "streaming"
    /\ CommitRows(t, {StreamCall(t)})
    /\ Go(t, "over")
    /\ UNCHANGED <<exists, title, messages, calls, counted, faults>>

\* The generator is closed at a yield.  FastAPI closes the session too, before
\* it or after: the rows of earlier rounds are committed or lost.
ClientGone(t) ==
    /\ "gone" \in faults /\ turn[t].pc = "streaming"
    /\ \/ CommitRows(t, {StreamCall(t)})
       \/ RollBack(t) /\ rows' = rows \cup {StreamCall(t)}
    /\ Go(t, "over")
    /\ UNCHANGED <<exists, title, messages, calls, counted, faults>>

SearchRows(call) == {call}

\* One search_documents call: the query is embedded, its row flushed.
RunSearch(t) ==
    /\ turn[t].pc = "tools"
    /\ LET call == <<t, turn[t].round, turn[t].searches>>
       IN /\ calls' = calls \cup {call}
          /\ flushed' = [flushed EXCEPT ![t] = @ \cup SearchRows(call)]
    /\ turn' = [turn EXCEPT ![t].pc = IF turn[t].searches = 1 THEN "ready" ELSE "tools",
                            ![t].searches = @ - 1]
    /\ UNCHANGED <<exists, title, messages, rows, counted, faults>>

\* The embedder raises: an error event is sent and nothing is committed.
SearchFails(t) ==
    /\ "tool" \in faults /\ turn[t].pc = "tools"
    /\ RollBack(t) /\ Go(t, "over")
    /\ UNCHANGED <<exists, title, messages, rows, calls, counted, faults>>
-----------------------------------------------------------------------------
(* The end of event_stream                                                  *)

\* The reply is flushed; from here to the commit its foreign key holds a lock
\* on the conversation.
SaveReply(t) ==
    /\ turn[t].pc = "final"
    /\ \/ InsertAllowed /\ Go(t, "recording") /\ UNCHANGED flushed
       \/ ~InsertAllowed /\ Go(t, "over") /\ RollBack(t)
    /\ UNCHANGED <<exists, title, messages, rows, calls, counted, faults>>

Counts(t) == \/ counted' = counted \cup {t}
             \/ "redis" \in faults /\ UNCHANGED counted

RecordTokens(t) ==
    /\ turn[t].pc = "recording"
    /\ Counts(t) /\ Go(t, "committing")
    /\ UNCHANGED <<exists, title, messages, flushed, rows, calls, faults>>

CommitReply(t) ==
    /\ turn[t].pc = "committing"
    /\ CommitRows(t, {}) /\ Post(t, "assistant") /\ Go(t, "over")
    /\ UNCHANGED <<exists, title, calls, counted, faults>>

\* CancelledError is a BaseException: no handler of the turn sees it, nor the
\* GeneratorExit of a client that is gone while a tool event is sent.
Cancelled(t) ==
    /\ \/ "cancel" \in faults /\ turn[t].pc \notin {"new", "over"}
       \/ "gone" \in faults /\ turn[t].pc = "tools"
    /\ RollBack(t) /\ Go(t, "over")
    /\ UNCHANGED <<exists, title, messages, rows, calls, counted, faults>>

\* DELETE /conversations/{id}: the messages go with the row, once no reply
\* holds its lock.
Delete ==
    /\ exists
    /\ \A t \in Turns : turn[t].pc \notin {"recording", "committing"}
    /\ exists' = FALSE /\ messages' = <<>>
    /\ UNCHANGED <<title, turn, flushed, rows, calls, counted, faults>>
-----------------------------------------------------------------------------
Init ==
    /\ exists = TRUE /\ title = DEFAULT_TITLE /\ messages = <<>>
    /\ turn = [t \in Turns |-> [pc |-> "new", round |-> 0, searches |-> 0,
                                loaded |-> DEFAULT_TITLE]]
    /\ flushed = [t \in Turns |-> {}]
    /\ rows = {} /\ calls = {} /\ counted = {}
    /\ faults \in FaultSets

Step(t) == \/ Ask(t) \/ StartRound(t) \/ RoundsExhausted(t) \/ EndStream(t)
           \/ RunSearch(t) \/ SaveReply(t) \/ RecordTokens(t) \/ CommitReply(t)
Trouble(t) == StreamFails(t) \/ ClientGone(t) \/ SearchFails(t) \/ Cancelled(t)

Next == (\E t \in Turns : Open(t) \/ Step(t) \/ Trouble(t)) \/ Delete

Spec == Init /\ [][Next]_vars

\* A turn that was opened goes on: every adapter has a timeout.
FairSpec == Spec /\ \A t \in Turns : WF_vars(Step(t))
-----------------------------------------------------------------------------
TypeOK ==
    /\ exists \in BOOLEAN
    /\ title \in Turns \cup {DEFAULT_TITLE}
    /\ messages \in Seq(ChatMessage)
    /\ turn \in [Turns -> Turn]
    /\ flushed \in [Turns -> SUBSET Call]
    /\ rows \subseteq Call /\ calls \subseteq Call
    /\ counted \subseteq Turns
    /\ faults \in FaultSets

Stored(t, role) == \E i \in DOMAIN messages : messages[i] = <<t, role>>

\* A reply in the conversation was paid for in the books: every provider call
\* and every embedding of its turn has a committed usage row
\* (event_stream's commit, UsageService._record, record_embedding).
RepliedMeansRecorded ==
    \A t \in Turns : Stored(t, "assistant") => CallsOf(t) \subseteq rows

\* A turn whose only mishap is a failing stream leaves a usage row for every
\* call it made, those of the rounds before the failure included
\* (UsageService.tracked_stream, _record_partial).
InterruptedIsRecorded ==
    exists /\ faults \cap {"gone", "cancel", "tool"} = {} =>
        \A t \in Turns : turn[t].pc = "over" => CallsOf(t) \subseteq rows

\* Whatever happens: "every one of them leaves an llm_usage row" (the docstring
\* of UsageService).
EveryCallRecorded ==
    \A t \in Turns : turn[t].pc = "over" => CallsOf(t) \subseteq rows

\* The user's message is stored before the first provider call and stays, and a
\* reply comes once and after it, however turns interleave (send_message).
QuestionKept ==
    /\ exists => \A t \in Turns : CallsOf(t) # {} => Stored(t, "user")
    /\ \A j \in DOMAIN messages : messages[j][2] = "assistant" =>
          /\ \E i \in 1..(j - 1) : messages[i] = <<messages[j][1], "user">>
          /\ \A i \in DOMAIN messages : messages[i] = messages[j] => i = j

\* A deletion that runs beside a turn leaves no message behind, and none comes
\* later (delete_conversation, the cascade of conversation_id).
NothingAfterDelete == ~exists => messages = <<>>

\* While Redis answers, the tokens of every stored reply are in the daily
\* counter (record_tokens before the commit).
RepliesAreCounted ==
    "redis" \notin faults => \A t \in Turns : Stored(t, "assistant") => t \in counted

\* "Name the conversation after the first message, once": as long as turns do
\* not overlap a conversation is not renamed (ChatService.maybe_autotitle).
NamedOnce ==
    [][title # DEFAULT_TITLE /\ "overlap" \notin faults => title' = title]_vars

\* Every turn that was opened is over in the end: the tool rounds are bounded
\* (MAX_TOOL_ROUNDS) and every failure ends the stream (run_agent).
TurnsEnd == \A t \in Turns : turn[t].pc = "asking" ~> turn[t].pc = "over"

\* The conversation is whole: questions before replies, and nothing of a deleted
\* conversation.
ConversationKept == TypeOK /\ QuestionKept /\ NothingAfterDelete

\* What a turn cost is on the books, whether it got its reply or its stream failed.
BooksAreKept == RepliedMeansRecorded /\ InterruptedIsRecorded /\ RepliesAreCounted
=============================================================================
