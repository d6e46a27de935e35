--------------------------- MODULE ChatTurnProofs ----------------------------
(***************************************************************************)
(* Theorems about ChatTurn, for any number of turns, tool rounds and       *)
(* searches, and any faults.                                               *)
(*                                                                         *)
(* The invariant keeps the books of each turn: a call it made has a        *)
(* committed row, or one flushed in its session, or is the stream it is    *)
(* busy with; and what the conversation holds of it fits its progress.     *)
(***************************************************************************)
EXTENDS ChatTurn, TLAPS

\* The phases after the user message and before the end.
Answering == {"ready", "streaming", "tools", "final", "recording", "committing"}

\* Every call is accounted for, or will be.
Accounted(t) ==
    /\ turn[t].pc \in {"new", "asking"} => CallsOf(t) = {}
    /\ turn[t].pc \in Answering \ {"streaming"} => CallsOf(t) \subseteq rows \cup flushed[t]
    /\ turn[t].pc = "streaming" => CallsOf(t) \subseteq rows \cup flushed[t] \cup {StreamCall(t)}
    /\ turn[t].pc = "over" /\ exists /\ faults \cap {"gone", "cancel", "tool"} = {} =>
          CallsOf(t) \subseteq rows

\* What the conversation holds of a turn.
Conversed(t) ==
    /\ exists /\ (turn[t].pc \in Answering \/ CallsOf(t) # {}) => Stored(t, "user")
    /\ turn[t].pc \in {"recording", "committing"} => exists
    /\ turn[t].pc = "committing" /\ "redis" \notin faults => t \in counted
    /\ Stored(t, "assistant") =>
          /\ turn[t].pc = "over" /\ CallsOf(t) \subseteq rows
          /\ "redis" \notin faults => t \in counted

\* A reply comes once, and after its question.
InOrder ==
    \A j \in DOMAIN messages : messages[j][2] = "assistant" =>
        /\ \E i \in 1..(j - 1) : messages[i] = <<messages[j][1], "user">>
        /\ \A i \in DOMAIN messages : messages[i] = messages[j] => i = j

Invariant ==
    /\ TypeOK /\ InOrder /\ NothingAfterDelete
    /\ \A t \in Turns : /\ turn[t].pc = "tools" => turn[t].searches > 0
                        /\ Accounted(t) /\ Conversed(t)
-----------------------------------------------------------------------------
\* What a step of one turn leaves alone in the others.
OnlyTurn(t) ==
    /\ turn' \in [Turns -> Turn] /\ flushed' \in [Turns -> SUBSET Call]
    /\ \A u \in Turns \ {t} : turn'[u] = turn[u] /\ flushed'[u] = flushed[u]
    /\ rows \subseteq rows' /\ counted \subseteq counted'
    /\ \A u \in Turns \ {t} : CallsOf(u)' = CallsOf(u)
    /\ \A u \in Turns \ {t}, role \in {"user", "assistant"} : Stored(u, role)' <=> Stored(u, role)
    /\ exists' = exists /\ faults' = faults

LEMMA OthersKeep ==
    ASSUME Invariant, NEW t \in Turns, OnlyTurn(t), NEW u \in Turns \ {t}
    PROVE  /\ turn'[u].pc = "tools" => turn'[u].searches > 0
           /\ Accounted(u)' /\ Conversed(u)'
<1>1. /\ turn'[u] = turn[u] /\ flushed'[u] = flushed[u] /\ CallsOf(u)' = CallsOf(u)
      /\ Stored(u, "user")' <=> Stored(u, "user")
      /\ Stored(u, "assistant")' <=> Stored(u, "assistant")
      /\ rows \subseteq rows' /\ counted \subseteq counted' /\ exists' = exists
      /\ faults' = faults
  BY DEF OnlyTurn
<1>2. /\ turn[u].pc = "tools" => turn[u].searches > 0
      /\ Accounted(u) /\ Conversed(u)
  BY DEF Invariant
<1>3. StreamCall(u)' = StreamCall(u)
  BY <1>1 DEF StreamCall
<1>4. Accounted(u)'
  BY <1>1, <1>2, <1>3 DEF Accounted
<1>5. Conversed(u)'
  BY <1>1, <1>2 DEF Conversed
<1> QED
  BY <1>1, <1>2, <1>4, <1>5

LEMMA PhaseOf ==
    ASSUME NEW q \in Turn, NEW phase \in Phases
    PROVE  LET p == [q EXCEPT !.pc = phase]
           IN  p \in Turn /\ p.pc = phase /\ p.round = q.round /\ p.searches = q.searches
  BY DEF Turn

\* A turn that only goes on to another phase.
LEMMA Goes ==
    ASSUME TypeOK, NEW t \in Turns, NEW phase \in Phases, Go(t, phase)
    PROVE  /\ turn' \in [Turns -> Turn]
           /\ turn'[t].pc = phase /\ turn'[t].round = turn[t].round
           /\ turn'[t].searches = turn[t].searches
           /\ \A u \in Turns \ {t} : turn'[u] = turn[u]
<1> DEFINE p == [turn[t] EXCEPT !.pc = phase]
<1>1. turn \in [Turns -> Turn] /\ turn[t] \in Turn
  BY DEF TypeOK
<1>2. p \in Turn /\ p.pc = phase /\ p.round = turn[t].round /\ p.searches = turn[t].searches
  BY <1>1, PhaseOf
<1>3. turn' = [turn EXCEPT ![t] = p]
  BY Zenon DEF Go
<1> HIDE DEF p
<1> QED
  BY <1>1, <1>2, <1>3

LEMMA StoredAfter ==
    ASSUME TypeOK, NEW t \in Turns, NEW role \in {"user", "assistant"}, Post(t, role)
    PROVE  /\ messages' \in Seq(ChatMessage)
           /\ Stored(t, role)'
           /\ \A u \in Turns, r \in {"user", "assistant"} :
                 u # t \/ r # role => (Stored(u, r)' <=> Stored(u, r))
           /\ messages' # <<>>
           /\ DOMAIN messages' = 1..(Len(messages) + 1) /\ Len(messages) \in Nat
           /\ \A i \in 1..Len(messages) : messages'[i] = messages[i]
           /\ messages'[Len(messages) + 1] = <<t, role>>
<1>1. messages \in Seq(ChatMessage) /\ <<t, role>> \in ChatMessage
  BY DEF TypeOK, ChatMessage
<1>2. messages' = Append(messages, <<t, role>>)
  BY DEF Post
<1>3. /\ messages' \in Seq(ChatMessage) /\ messages' # <<>>
      /\ DOMAIN messages' = 1..(Len(messages) + 1) /\ Len(messages) \in Nat
      /\ DOMAIN messages = 1..Len(messages)
      /\ \A i \in 1..Len(messages) : messages'[i] = messages[i]
      /\ messages'[Len(messages) + 1] = <<t, role>>
  BY <1>1, <1>2
<1>4. Stored(t, role)'
  BY <1>3 DEF Stored
<1>5. ASSUME NEW u \in Turns, NEW r \in {"user", "assistant"}, u # t \/ r # role
      PROVE  Stored(u, r)' <=> Stored(u, r)
  <2>1. <<u, r>> # <<t, role>>
    BY <1>5
  <2> QED
    BY <1>3, <2>1 DEF Stored
<1> QED
  BY <1>3, <1>4, <1>5

LEMMA CallsAfter ==
    ASSUME NEW t \in Turns, NEW n, NEW m, calls' = calls \cup {<<t, n, m>>}
    PROVE  /\ CallsOf(t)' = CallsOf(t) \cup {<<t, n, m>>}
           /\ \A u \in Turns \ {t} : CallsOf(u)' = CallsOf(u)
  BY DEF CallsOf

LEMMA SameMessages ==
    ASSUME Invariant, messages' = messages, exists' = exists
    PROVE  InOrder' /\ NothingAfterDelete'
  BY DEF Invariant, InOrder, NothingAfterDelete

LEMMA TurnKeeps ==
    ASSUME Invariant, NEW t \in Turns, OnlyTurn(t), TypeOK', InOrder', NothingAfterDelete',
           turn'[t].pc = "tools" => turn'[t].searches > 0,
           Accounted(t)', Conversed(t)'
    PROVE  Invariant'
<1>1. ASSUME NEW u \in Turns
      PROVE  /\ turn'[u].pc = "tools" => turn'[u].searches > 0
             /\ Accounted(u)' /\ Conversed(u)'
  BY OthersKeep
<1> QED
  BY <1>1 DEF Invariant

\* A turn that is over without a commit, and leaves what it made as it is.
LEMMA RolledBackKeeps ==
    ASSUME Invariant, NEW t \in Turns, RollBack(t), Go(t, "over"),
           turn[t].pc \notin {"new", "over"},
           UNCHANGED <<exists, title, messages, rows, calls, counted, faults>>,
           ~exists \/ faults \cap {"gone", "cancel", "tool"} # {}
    PROVE  Invariant'
<1>1. /\ turn' \in [Turns -> Turn] /\ turn'[t].pc = "over"
      /\ \A u \in Turns \ {t} : turn'[u] = turn[u]
  BY Goes DEF Invariant, Phases
<1>2. /\ flushed' \in [Turns -> SUBSET Call]
      /\ \A u \in Turns \ {t} : flushed'[u] = flushed[u]
  BY DEF Invariant, TypeOK, RollBack
<1>3. /\ exists' = exists /\ title' = title /\ messages' = messages /\ rows' = rows
      /\ calls' = calls /\ counted' = counted /\ faults' = faults
  OBVIOUS
<1>4. \A u \in Turns : CallsOf(u)' = CallsOf(u)
  BY <1>3 DEF CallsOf
<1>5. \A u \in Turns, role \in {"user", "assistant"} : Stored(u, role)' <=> Stored(u, role)
  BY <1>3 DEF Stored
<1>6. OnlyTurn(t)
  BY <1>1, <1>2, <1>3, <1>4, <1>5 DEF OnlyTurn
<1>7. TypeOK'
  BY <1>1, <1>2, <1>3 DEF Invariant, TypeOK
<1>8. InOrder' /\ NothingAfterDelete'
  BY <1>3, SameMessages
<1>9. Accounted(t)'
  BY <1>1, <1>3 DEF Accounted, Answering
<1>10. Conversed(t)'
  <2>1. /\ Stored(t, "user")' <=> Stored(t, "user")
        /\ Stored(t, "assistant")' <=> Stored(t, "assistant")
        /\ CallsOf(t)' = CallsOf(t) /\ Conversed(t)
    BY <1>4, <1>5 DEF Invariant
  <2> QED
    BY <1>1, <1>3, <2>1 DEF Conversed, Answering
<1> QED
  BY <1>1, <1>6, <1>7, <1>8, <1>9, <1>10, TurnKeeps

\* A turn that goes on, with what it has made and what is stored as they are.
LEMMA QuietStep ==
    ASSUME Invariant, NEW t \in Turns, NEW phase \in Answering,
           turn' \in [Turns -> Turn], turn'[t].pc = phase,
           \A u \in Turns \ {t} : turn'[u] = turn[u],
           phase = "tools" => turn'[t].searches > 0,
           phase # "streaming",
           flushed' \in [Turns -> SUBSET Call],
           \A u \in Turns \ {t} : flushed'[u] = flushed[u],
           UNCHANGED <<exists, title, messages, rows, faults>>,
           counted' \in SUBSET Turns, counted \subseteq counted',
           calls' \subseteq Call,
           \A u \in Turns \ {t} : CallsOf(u)' = CallsOf(u),
           CallsOf(t)' \subseteq rows \cup flushed'[t],
           turn[t].pc \in Answering,
           phase \in {"recording", "committing"} => exists,
           phase = "committing" /\ "redis" \notin faults => t \in counted'
    PROVE  Invariant'
<1>1. /\ exists' = exists /\ title' = title /\ messages' = messages /\ rows' = rows
      /\ faults' = faults
  OBVIOUS
<1>2. \A u \in Turns, role \in {"user", "assistant"} : Stored(u, role)' <=> Stored(u, role)
  BY <1>1 DEF Stored
<1>3. OnlyTurn(t)
  BY <1>1, <1>2 DEF OnlyTurn
<1>4. TypeOK'
  BY <1>1 DEF Invariant, TypeOK
<1>5. InOrder' /\ NothingAfterDelete'
  BY <1>1, SameMessages
<1>6. Accounted(t)'
  BY <1>1 DEF Accounted, Answering
<1>7. Conversed(t)'
  <2>1. /\ Stored(t, "user")' <=> Stored(t, "user")
        /\ Stored(t, "assistant")' <=> Stored(t, "assistant")
        /\ Conversed(t)
    BY <1>2 DEF Invariant
  <2>2. ~Stored(t, "assistant") /\ (exists => Stored(t, "user"))
    BY <2>1 DEF Conversed, Answering
  <2> QED
    BY <1>1, <2>1, <2>2 DEF Conversed, Answering
<1> QED
  BY <1>3, <1>4, <1>5, <1>6, <1>7, TurnKeeps
-----------------------------------------------------------------------------
(* The steps of a turn                                                      *)

LEMMA LoadedAndPhase ==
    ASSUME NEW q \in Turn, NEW phase \in Phases, NEW x \in Turns \cup {DEFAULT_TITLE}
    PROVE  LET p == [q EXCEPT !.pc = phase, !.loaded = x]
           IN  p \in Turn /\ p.pc = phase /\ p.round = q.round /\ p.searches = q.searches
  BY DEF Turn

LEMMA TurnBecomes ==
    ASSUME TypeOK, NEW t \in Turns, NEW p \in Turn, turn' = [turn EXCEPT ![t] = p]
    PROVE  /\ turn' \in [Turns -> Turn] /\ turn'[t] = p
           /\ \A u \in Turns \ {t} : turn'[u] = turn[u]
  BY DEF TypeOK

LEMMA OpenKeeps ==
    ASSUME Invariant, NEW t \in Turns, Open(t)
    PROVE  Invariant'
<1> DEFINE p == [turn[t] EXCEPT !.pc = "asking", !.loaded = title]
<1>1. /\ exists' = exists /\ title' = title /\ messages' = messages /\ rows' = rows
      /\ calls' = calls /\ counted' = counted /\ faults' = faults /\ flushed' = flushed
      /\ turn[t].pc = "new" /\ turn' = [turn EXCEPT ![t].pc = "asking", ![t].loaded = title]
  BY DEF Open
<1>2. turn[t] \in Turn /\ title \in Turns \cup {DEFAULT_TITLE} /\ TypeOK
  BY DEF Invariant, TypeOK
<1>3. p \in Turn /\ p.pc = "asking"
  BY <1>2, LoadedAndPhase DEF Phases
<1>4. turn' = [turn EXCEPT ![t] = p]
  BY <1>1, ZenonT(30) DEF Invariant, TypeOK
<1> HIDE DEF p
<1>5. /\ turn' \in [Turns -> Turn] /\ turn'[t].pc = "asking"
      /\ \A u \in Turns \ {t} : turn'[u] = turn[u]
  BY <1>2, <1>3, <1>4, TurnBecomes
<1>6. \A u \in Turns : CallsOf(u)' = CallsOf(u)
  BY <1>1 DEF CallsOf
<1>7. \A u \in Turns, role \in {"user", "assistant"} : Stored(u, role)' <=> Stored(u, role)
  BY <1>1 DEF Stored
<1>8. OnlyTurn(t)
  BY <1>1, <1>2, <1>5, <1>6, <1>7 DEF OnlyTurn, TypeOK
<1>9. TypeOK'
  BY <1>1, <1>5 DEF Invariant, TypeOK
<1>10. InOrder' /\ NothingAfterDelete'
  BY <1>1, SameMessages
<1>11. CallsOf(t) = {} /\ ~Stored(t, "assistant")
  BY <1>1 DEF Invariant, Accounted, Conversed
<1>12. Accounted(t)'
  BY <1>5, <1>6, <1>11 DEF Accounted, Answering
<1>13. Conversed(t)'
  <2>1. ~Stored(t, "assistant")' /\ CallsOf(t)' = {}
    BY <1>6, <1>7, <1>11
  <2> QED
    BY <1>1, <1>5, <2>1 DEF Conversed, Answering
<1> QED
  BY <1>5, <1>8, <1>9, <1>10, <1>12, <1>13, TurnKeeps

LEMMA AskKeeps ==
    ASSUME Invariant, NEW t \in Turns, Ask(t)
    PROVE  Invariant'
<1>1. /\ exists' = exists /\ rows' = rows /\ calls' = calls /\ counted' = counted
      /\ faults' = faults /\ flushed' = flushed /\ turn[t].pc = "asking" /\ TypeOK
  BY DEF Ask, Invariant
<1>2. \A u \in Turns : CallsOf(u)' = CallsOf(u)
  BY <1>1 DEF CallsOf
<1>3. CallsOf(t) = {} /\ ~Stored(t, "assistant")
  BY <1>1 DEF Invariant, Accounted, Conversed
<1>4. CASE exists /\ Post(t, "user") /\ title' = Title(t) /\ Go(t, "ready")
  <2>1. /\ turn' \in [Turns -> Turn] /\ turn'[t].pc = "ready"
        /\ \A u \in Turns \ {t} : turn'[u] = turn[u]
    BY <1>1, <1>4, Goes DEF Phases
  <2>2. /\ messages' \in Seq(ChatMessage) /\ Stored(t, "user")'
        /\ \A u \in Turns, r \in {"user", "assistant"} :
              u # t \/ r # "user" => (Stored(u, r)' <=> Stored(u, r))
        /\ DOMAIN messages' = 1..(Len(messages) + 1) /\ Len(messages) \in Nat
        /\ \A i \in 1..Len(messages) : messages'[i] = messages[i]
        /\ messages'[Len(messages) + 1] = <<t, "user">>
    BY <1>1, <1>4, StoredAfter
  <2>3. title' \in Turns \cup {DEFAULT_TITLE}
    BY <1>1, <1>4 DEF Title, TypeOK
  <2>4. OnlyTurn(t)
    BY <1>1, <1>2, <2>1, <2>2 DEF OnlyTurn, TypeOK
  <2>5. TypeOK'
    BY <1>1, <2>1, <2>2, <2>3 DEF TypeOK
  <2>6. InOrder'
    <3> SUFFICES ASSUME NEW j \in DOMAIN messages', messages'[j][2] = "assistant"
                 PROVE  /\ \E i \in 1..(j - 1) : messages'[i] = <<messages'[j][1], "user">>
                        /\ \A i \in DOMAIN messages' : messages'[i] = messages'[j] => i = j
      BY DEF InOrder
    <3>1. j \in 1..Len(messages) /\ DOMAIN messages = 1..Len(messages)
      BY <1>1, <2>2 DEF TypeOK
    <3>2. /\ messages'[j] = messages[j] /\ messages[j][2] = "assistant"
          /\ \E i \in 1..(j - 1) : messages[i] = <<messages[j][1], "user">>
          /\ \A i \in DOMAIN messages : messages[i] = messages[j] => i = j
      BY <2>2, <3>1 DEF Invariant, InOrder
    <3>3. messages'[Len(messages) + 1] # messages'[j]
      BY <2>2, <3>2
    <3>4. \E i \in 1..(j - 1) : messages'[i] = <<messages'[j][1], "user">>
      <4>1. PICK i \in 1..(j - 1) : messages[i] = <<messages[j][1], "user">>
        BY <3>2
      <4>2. i \in 1..Len(messages)
        BY <2>2, <3>1
      <4> QED
        BY <2>2, <3>2, <4>1, <4>2
    <3>5. ASSUME NEW i \in DOMAIN messages', messages'[i] = messages'[j]
          PROVE  i = j
      <4>1. i \in 1..Len(messages)
        BY <2>2, <3>3, <3>5
      <4>2. messages'[i] = messages[i]
        BY <2>2, <4>1
      <4> QED
        BY <3>1, <3>2, <3>5, <4>1, <4>2
    <3> QED
      BY <3>4, <3>5
  <2>7. NothingAfterDelete'
    BY <1>1, <1>4 DEF NothingAfterDelete
  <2>8. Accounted(t)'
    BY <1>2, <1>3, <2>1 DEF Accounted, Answering
  <2>9. Conversed(t)'
    BY <1>3, <2>1, <2>2 DEF Conversed, Answering
  <2> QED
    BY <2>1, <2>4, <2>5, <2>6, <2>7, <2>8, <2>9, TurnKeeps
<1>5. CASE ~exists /\ Go(t, "over") /\ UNCHANGED <<messages, title>>
  <2>1. /\ turn' \in [Turns -> Turn] /\ turn'[t].pc = "over"
        /\ \A u \in Turns \ {t} : turn'[u] = turn[u]
    BY <1>1, <1>5, Goes DEF Phases
  <2>2. \A u \in Turns, role \in {"user", "assistant"} : Stored(u, role)' <=> Stored(u, role)
    BY <1>5 DEF Stored
  <2>3. OnlyTurn(t)
    BY <1>1, <1>2, <2>1, <2>2 DEF OnlyTurn, TypeOK
  <2>4. TypeOK'
    BY <1>1, <1>5, <2>1 DEF TypeOK
  <2>5. InOrder' /\ NothingAfterDelete'
    BY <1>1, <1>5, SameMessages
  <2>6. Accounted(t)' /\ Conversed(t)'
    BY <1>1, <1>2, <1>3, <1>5, <2>1, <2>2 DEF Accounted, Conversed, Answering
  <2> QED
    BY <2>1, <2>3, <2>4, <2>5, <2>6, TurnKeeps
<1> QED
  BY <1>4, <1>5 DEF Ask, InsertAllowed

LEMMA StartKeeps ==
    ASSUME Invariant, NEW t \in Turns, StartRound(t)
    PROVE  Invariant'
<1> DEFINE n == turn[t].round + 1
           p == [turn[t] EXCEPT !.pc = "streaming", !.round = n]
<1>1. /\ exists' = exists /\ title' = title /\ messages' = messages /\ rows' = rows
      /\ counted' = counted /\ faults' = faults /\ flushed' = flushed
      /\ turn[t].pc = "ready" /\ turn[t].round < MAX_TOOL_ROUNDS
      /\ turn' = [turn EXCEPT ![t].pc = "streaming", ![t].round = n]
      /\ calls' = calls \cup {<<t, n, 0>>}
  BY DEF StartRound, MoreRounds, NextRound
<1>2. turn[t] \in Turn /\ turn[t].round \in Rounds /\ TypeOK
  BY DEF Invariant, TypeOK, Turn
<1>3. n \in Rounds
  BY <1>1, <1>2, ChatTurnAssumption DEF Rounds
<1>4. p \in Turn /\ p.pc = "streaming" /\ p.round = n
  <2>1. "streaming" \in Phases
    BY DEF Phases
  <2> HIDE DEF n
  <2> QED
    BY <1>2, <1>3, <2>1 DEF Turn
<1>5. turn' = [turn EXCEPT ![t] = p]
  BY <1>1, Zenon DEF Invariant, TypeOK
<1> HIDE DEF p
<1>6. /\ turn' \in [Turns -> Turn] /\ turn'[t] = p
      /\ \A u \in Turns \ {t} : turn'[u] = turn[u]
  BY <1>2, <1>4, <1>5, TurnBecomes
<1>7. /\ CallsOf(t)' = CallsOf(t) \cup {<<t, n, 0>>}
      /\ \A u \in Turns \ {t} : CallsOf(u)' = CallsOf(u)
  BY <1>1, CallsAfter
<1>8. StreamCall(t)' = <<t, n, 0>>
  BY <1>4, <1>6 DEF StreamCall
<1>9. \A u \in Turns, role \in {"user", "assistant"} : Stored(u, role)' <=> Stored(u, role)
  BY <1>1 DEF Stored
<1>10. OnlyTurn(t)
  BY <1>1, <1>2, <1>6, <1>7, <1>9 DEF OnlyTurn, TypeOK
<1>11. TypeOK'
  <2>1. <<t, n, 0>> \in Call
    BY <1>3, ChatTurnAssumption DEF Call
  <2> QED
    BY <1>1, <1>2, <1>6, <2>1 DEF TypeOK
<1>12. InOrder' /\ NothingAfterDelete'
  BY <1>1, SameMessages
<1>13. Accounted(t)'
  <2>1. CallsOf(t) \subseteq rows \cup flushed[t]
    BY <1>1 DEF Invariant, Accounted, Answering
  <2> QED
    BY <1>1, <1>4, <1>6, <1>7, <1>8, <2>1 DEF Accounted, Answering
<1>14. Conversed(t)'
  <2>1. ~Stored(t, "assistant") /\ (exists => Stored(t, "user"))
    BY <1>1 DEF Invariant, Conversed, Answering
  <2> QED
    BY <1>1, <1>4, <1>6, <1>9, <2>1 DEF Conversed, Answering
<1> QED
  BY <1>4, <1>6, <1>10, <1>11, <1>12, <1>13, <1>14, TurnKeeps

LEMMA ExhaustedKeeps ==
    ASSUME Invariant, NEW t \in Turns, RoundsExhausted(t)
    PROVE  Invariant'
<1>1. /\ UNCHANGED <<exists, title, messages, rows, faults>> /\ Go(t, "final")
      /\ counted' = counted /\ calls' = calls /\ flushed' = flushed /\ turn[t].pc = "ready"
  BY DEF RoundsExhausted
<1>2. /\ turn' \in [Turns -> Turn] /\ turn'[t].pc = "final"
      /\ \A u \in Turns \ {t} : turn'[u] = turn[u]
  BY <1>1, Goes DEF Invariant, Phases
<1>3. /\ flushed \in [Turns -> SUBSET Call] /\ counted \in SUBSET Turns /\ calls \subseteq Call
      /\ turn[t].pc \in Answering /\ "final" \in Answering
  BY <1>1 DEF Invariant, TypeOK, Answering
<1>4. \A u \in Turns : CallsOf(u)' = CallsOf(u)
  BY <1>1 DEF CallsOf
<1>5. CallsOf(t) \subseteq rows \cup flushed[t]
  BY <1>1 DEF Invariant, Accounted, Answering
<1> QED
  BY <1>1, <1>2, <1>3, <1>4, <1>5, QuietStep

\* The stream's call is flushed before anything else is done.
LEMMA EndKeeps ==
    ASSUME Invariant, NEW t \in Turns, EndStream(t)
    PROVE  Invariant'
<1>1. /\ UNCHANGED <<exists, title, messages, rows, faults>>
      /\ counted' = counted /\ calls' = calls /\ turn[t].pc = "streaming"
      /\ flushed' = [flushed EXCEPT ![t] = flushed[t] \cup {StreamCall(t)}]
  BY DEF EndStream
<1>2. turn[t] \in Turn /\ turn[t].round \in Rounds /\ TypeOK
  BY DEF Invariant, TypeOK, Turn
<1>3. PICK phase \in {"final", "ready", "tools"} :
          /\ turn' \in [Turns -> Turn] /\ turn'[t].pc = phase
          /\ \A u \in Turns \ {t} : turn'[u] = turn[u]
          /\ phase = "tools" => turn'[t].searches > 0
  <2>1. CASE Go(t, "final")
    BY <1>2, <2>1, Goes DEF Phases
  <2>2. ASSUME NEW k \in 0..MaxSearches,
               turn' = [turn EXCEPT ![t].pc = IF k = 0 THEN "ready" ELSE "tools",
                                    ![t].searches = k]
        PROVE  \E phase \in {"final", "ready", "tools"} :
                  /\ turn' \in [Turns -> Turn] /\ turn'[t].pc = phase
                  /\ \A u \in Turns \ {t} : turn'[u] = turn[u]
                  /\ phase = "tools" => turn'[t].searches > 0
    <3> DEFINE phase == IF k = 0 THEN "ready" ELSE "tools"
               p == [turn[t] EXCEPT !.pc = phase, !.searches = k]
    <3>1. phase \in Phases /\ phase \in {"ready", "tools"} /\ (phase = "tools" => k > 0)
      BY ChatTurnAssumption DEF Phases
    <3>2. turn' = [turn EXCEPT ![t] = p]
      BY <1>2, <2>2, Zenon DEF TypeOK
    <3> HIDE DEF phase
    <3>3. p \in Turn /\ p.pc = phase /\ p.searches = k
      BY <1>2, <3>1 DEF Turn
    <3> HIDE DEF p
    <3>4. /\ turn' \in [Turns -> Turn] /\ turn'[t] = p
          /\ \A u \in Turns \ {t} : turn'[u] = turn[u]
      BY <1>2, <3>2, <3>3, TurnBecomes
    <3> QED
      BY <3>1, <3>3, <3>4
  <2> QED
    BY <2>1, <2>2 DEF EndStream
<1>4. /\ flushed' \in [Turns -> SUBSET Call]
      /\ flushed'[t] = flushed[t] \cup {StreamCall(t)}
      /\ \A u \in Turns \ {t} : flushed'[u] = flushed[u]
  <2>1. StreamCall(t) \in Call
    BY <1>2, ChatTurnAssumption DEF StreamCall, Call
  <2> QED
    BY <1>1, <1>2, <2>1 DEF TypeOK
<1>5. /\ counted \in SUBSET Turns /\ calls \subseteq Call
      /\ turn[t].pc \in Answering /\ phase \in Answering /\ phase # "streaming"
      /\ phase \notin {"recording", "committing"}
  BY <1>1, <1>2 DEF TypeOK, Answering
<1>6. \A u \in Turns : CallsOf(u)' = CallsOf(u)
  BY <1>1 DEF CallsOf
<1>7. CallsOf(t) \subseteq rows \cup flushed'[t]
  BY <1>1, <1>4 DEF Invariant, Accounted
<1> QED
  BY <1>1, <1>3, <1>4, <1>5, <1>6, <1>7, QuietStep

LEMMA SearchKeeps ==
    ASSUME Invariant, NEW t \in Turns, RunSearch(t)
    PROVE  Invariant'
<1> DEFINE call == <<t, turn[t].round, turn[t].searches>>
           phase == IF turn[t].searches = 1 THEN "ready" ELSE "tools"
           k == turn[t].searches - 1
           p == [turn[t] EXCEPT !.pc = phase, !.searches = k]
<1>1. /\ UNCHANGED <<exists, title, messages, rows, faults>>
      /\ counted' = counted /\ turn[t].pc = "tools"
      /\ calls' = calls \cup {call}
      /\ flushed' = [flushed EXCEPT ![t] = flushed[t] \cup {call}]
      /\ turn' = [turn EXCEPT ![t].pc = phase, ![t].searches = @ - 1]
  BY DEF RunSearch, SearchRows
<1>2. /\ turn[t] \in Turn /\ turn[t].round \in Rounds /\ TypeOK
      /\ turn[t].searches \in 0..MaxSearches /\ turn[t].searches > 0
  BY <1>1 DEF Invariant, TypeOK, Turn
<1>3. /\ k \in 0..MaxSearches /\ phase \in {"ready", "tools"} /\ phase \in Phases
      /\ phase = "tools" => k > 0
  BY <1>2, ChatTurnAssumption DEF Phases
<1>4. turn' = [turn EXCEPT ![t] = p]
  BY <1>1, Zenon DEF Invariant, TypeOK
<1> HIDE DEF phase, k
<1>5. p \in Turn /\ p.pc = phase /\ p.searches = k
  BY <1>2, <1>3 DEF Turn
<1> HIDE DEF p
<1>6. /\ turn' \in [Turns -> Turn] /\ turn'[t] = p
      /\ \A u \in Turns \ {t} : turn'[u] = turn[u]
  BY <1>2, <1>4, <1>5, TurnBecomes
<1>7. call \in Call
  BY <1>2 DEF Call
<1>8. /\ flushed' \in [Turns -> SUBSET Call] /\ flushed'[t] = flushed[t] \cup {call}
      /\ \A u \in Turns \ {t} : flushed'[u] = flushed[u]
  BY <1>1, <1>2, <1>7 DEF TypeOK
<1>9. /\ counted \in SUBSET Turns /\ calls' \subseteq Call
      /\ turn[t].pc \in Answering /\ phase \in Answering /\ phase # "streaming"
      /\ phase \notin {"recording", "committing"}
  BY <1>1, <1>2, <1>3, <1>7 DEF TypeOK, Answering
<1>10. /\ CallsOf(t)' = CallsOf(t) \cup {call}
       /\ \A u \in Turns \ {t} : CallsOf(u)' = CallsOf(u)
  BY <1>1, CallsAfter
<1>11. CallsOf(t)' \subseteq rows \cup flushed'[t]
  <2>1. CallsOf(t) \subseteq rows \cup flushed[t]
    BY <1>1 DEF Invariant, Accounted, Answering
  <2> QED
    BY <1>8, <1>10, <2>1
<1> HIDE DEF call
<1> QED
  BY <1>1, <1>3, <1>5, <1>6, <1>8, <1>9, <1>10, <1>11, QuietStep

\* A stream that breaks off commits its row; with it, or not, the earlier ones.
LEMMA BrokenKeeps ==
    ASSUME Invariant, NEW t \in Turns, turn[t].pc = "streaming", Go(t, "over"),
           UNCHANGED <<exists, title, messages, calls, counted, faults>>,
           rows \subseteq rows', rows' \subseteq rows \cup flushed[t] \cup {StreamCall(t)},
           flushed' = [flushed EXCEPT ![t] = {}],
           faults \cap {"gone", "cancel", "tool"} = {} =>
               rows' = rows \cup flushed[t] \cup {StreamCall(t)}
    PROVE  Invariant'
<1>1. /\ turn' \in [Turns -> Turn] /\ turn'[t].pc = "over"
      /\ \A u \in Turns \ {t} : turn'[u] = turn[u]
  BY Goes DEF Invariant, Phases
<1>2. turn[t].round \in Rounds /\ TypeOK
  BY DEF Invariant, TypeOK, Turn
<1>3. /\ flushed' \in [Turns -> SUBSET Call]
      /\ \A u \in Turns \ {t} : flushed'[u] = flushed[u]
  BY <1>2 DEF TypeOK
<1>4. \A u \in Turns : CallsOf(u)' = CallsOf(u)
  BY DEF CallsOf
<1>5. \A u \in Turns, role \in {"user", "assistant"} : Stored(u, role)' <=> Stored(u, role)
  BY DEF Stored
<1>6. rows' \subseteq Call
  <2>1. StreamCall(t) \in Call
    BY <1>2, ChatTurnAssumption DEF StreamCall, Call
  <2> QED
    BY <1>2, <2>1 DEF TypeOK
<1>7. OnlyTurn(t)
  BY <1>1, <1>3, <1>4, <1>5 DEF OnlyTurn
<1>8. TypeOK'
  BY <1>1, <1>2, <1>3, <1>6 DEF TypeOK
<1>9. InOrder' /\ NothingAfterDelete'
  BY SameMessages
<1>10. /\ CallsOf(t) \subseteq rows \cup flushed[t] \cup {StreamCall(t)}
       /\ ~Stored(t, "assistant") /\ (exists => Stored(t, "user"))
  BY DEF Invariant, Accounted, Conversed, Answering
<1>11. Accounted(t)'
  BY <1>1, <1>4, <1>10 DEF Accounted, Answering
<1>12. Conversed(t)'
  BY <1>1, <1>5, <1>10 DEF Conversed, Answering
<1> QED
  BY <1>1, <1>7, <1>8, <1>9, <1>11, <1>12, TurnKeeps

LEMMA SaveKeeps ==
    ASSUME Invariant, NEW t \in Turns, SaveReply(t)
    PROVE  Invariant'
<1>1. /\ UNCHANGED <<exists, title, messages, rows, calls, counted, faults>>
      /\ turn[t].pc = "final"
  BY DEF SaveReply
<1>2. CASE exists /\ Go(t, "recording") /\ flushed' = flushed
  <2>1. /\ turn' \in [Turns -> Turn] /\ turn'[t].pc = "recording"
        /\ \A u \in Turns \ {t} : turn'[u] = turn[u]
    BY <1>2, Goes DEF Invariant, Phases
  <2>2. /\ flushed \in [Turns -> SUBSET Call] /\ counted \in SUBSET Turns /\ calls \subseteq Call
        /\ turn[t].pc \in Answering /\ "recording" \in Answering
    BY <1>1 DEF Invariant, TypeOK, Answering
  <2>3. \A u \in Turns : CallsOf(u)' = CallsOf(u)
    BY <1>1 DEF CallsOf
  <2>4. CallsOf(t) \subseteq rows \cup flushed[t]
    BY <1>1 DEF Invariant, Accounted, Answering
  <2> QED
    BY <1>1, <1>2, <2>1, <2>2, <2>3, <2>4, QuietStep
<1>3. CASE ~exists /\ Go(t, "over") /\ RollBack(t)
  BY <1>1, <1>3, RolledBackKeeps
<1> QED
  BY <1>2, <1>3 DEF SaveReply, InsertAllowed

LEMMA RecordKeeps ==
    ASSUME Invariant, NEW t \in Turns, RecordTokens(t)
    PROVE  Invariant'
<1>1. /\ UNCHANGED <<exists, title, messages, rows, faults>> /\ calls' = calls
      /\ flushed' = flushed /\ turn[t].pc = "recording" /\ Go(t, "committing")
      /\ \/ counted' = counted \cup {t}
         \/ "redis" \in faults /\ counted' = counted
  BY DEF RecordTokens, Counts
<1>2. /\ turn' \in [Turns -> Turn] /\ turn'[t].pc = "committing"
      /\ \A u \in Turns \ {t} : turn'[u] = turn[u]
  BY <1>1, Goes DEF Invariant, Phases
<1>3. /\ flushed \in [Turns -> SUBSET Call] /\ counted' \in SUBSET Turns
      /\ counted \subseteq counted' /\ calls \subseteq Call
      /\ turn[t].pc \in Answering /\ "committing" \in Answering
  BY <1>1 DEF Invariant, TypeOK, Answering
<1>4. \A u \in Turns : CallsOf(u)' = CallsOf(u)
  BY <1>1 DEF CallsOf
<1>5. CallsOf(t) \subseteq rows \cup flushed[t] /\ exists
  BY <1>1 DEF Invariant, Accounted, Conversed, Answering
<1> QED
  BY <1>1, <1>2, <1>3, <1>4, <1>5, QuietStep

\* The reply and the rows of its turn are committed together.
LEMMA CommitKeeps ==
    ASSUME Invariant, NEW t \in Turns, CommitReply(t)
    PROVE  Invariant'
<1>1. /\ exists' = exists /\ title' = title /\ calls' = calls /\ counted' = counted
      /\ faults' = faults /\ turn[t].pc = "committing" /\ Go(t, "over")
      /\ Post(t, "assistant") /\ rows' = rows \cup flushed[t]
      /\ flushed' = [flushed EXCEPT ![t] = {}] /\ TypeOK
  BY DEF CommitReply, CommitRows, Invariant
<1>2. /\ turn' \in [Turns -> Turn] /\ turn'[t].pc = "over"
      /\ \A u \in Turns \ {t} : turn'[u] = turn[u]
  BY <1>1, Goes DEF Phases
<1>3. /\ flushed' \in [Turns -> SUBSET Call] /\ rows' \subseteq Call
      /\ \A u \in Turns \ {t} : flushed'[u] = flushed[u]
  BY <1>1 DEF TypeOK
<1>4. \A u \in Turns : CallsOf(u)' = CallsOf(u)
  BY <1>1 DEF CallsOf
<1>5. /\ messages' \in Seq(ChatMessage) /\ Stored(t, "assistant")'
      /\ \A u \in Turns, r \in {"user", "assistant"} :
            u # t \/ r # "assistant" => (Stored(u, r)' <=> Stored(u, r))
      /\ DOMAIN messages' = 1..(Len(messages) + 1) /\ Len(messages) \in Nat
      /\ \A i \in 1..Len(messages) : messages'[i] = messages[i]
      /\ messages'[Len(messages) + 1] = <<t, "assistant">>
  BY <1>1, StoredAfter
<1>6. /\ exists /\ Stored(t, "user") /\ ~Stored(t, "assistant")
      /\ CallsOf(t) \subseteq rows' /\ ("redis" \notin faults => t \in counted)
  BY <1>1 DEF Invariant, Accounted, Conversed, Answering
<1>7. OnlyTurn(t)
  BY <1>1, <1>2, <1>3, <1>4, <1>5 DEF OnlyTurn
<1>8. TypeOK'
  BY <1>1, <1>2, <1>3, <1>5 DEF TypeOK
<1>9. InOrder'
  <2>1. DOMAIN messages = 1..Len(messages)
    BY <1>1 DEF TypeOK
  <2>2. PICK q \in 1..Len(messages) : messages[q] = <<t, "user">>
    BY <1>6, <2>1 DEF Stored
  <2>3. \A i \in 1..Len(messages) : messages[i] # <<t, "assistant">>
    BY <1>6, <2>1 DEF Stored
  <2> SUFFICES ASSUME NEW j \in DOMAIN messages', messages'[j][2] = "assistant"
               PROVE  /\ \E i \in 1..(j - 1) : messages'[i] = <<messages'[j][1], "user">>
                      /\ \A i \in DOMAIN messages' : messages'[i] = messages'[j] => i = j
    BY DEF InOrder
  <2>4. CASE j = Len(messages) + 1
    <3>1. messages'[j] = <<t, "assistant">> /\ messages'[j][1] = t
      BY <1>5, <2>4
    <3>2. q \in 1..(j - 1) /\ messages'[q] = <<t, "user">>
      BY <1>5, <2>2, <2>4
    <3>3. \A i \in 1..Len(messages) : messages'[i] # messages'[j]
      BY <1>5, <2>3, <3>1
    <3>4. \E i \in 1..(j - 1) : messages'[i] = <<messages'[j][1], "user">>
      BY <3>1, <3>2
    <3>5. ASSUME NEW i \in DOMAIN messages', messages'[i] = messages'[j]
          PROVE  i = j
      <4>1. i \notin 1..Len(messages)
        BY <3>3, <3>5
      <4> QED
        BY <1>5, <2>4, <4>1
    <3> QED
      BY <3>4, <3>5
  <2>5. CASE j # Len(messages) + 1
    <3>1. j \in 1..Len(messages) /\ messages'[j] = messages[j]
      BY <1>5, <2>5
    <3>2. /\ \E i \in 1..(j - 1) : messages[i] = <<messages[j][1], "user">>
          /\ \A i \in 1..Len(messages) : messages[i] = messages[j] => i = j
      BY <2>1, <3>1 DEF Invariant, InOrder
    <3>3. messages'[Len(messages) + 1] # messages'[j]
      BY <1>5, <2>3, <3>1
    <3>4. PICK k \in 1..(j - 1) : messages[k] = <<messages[j][1], "user">>
      BY <3>2
    <3>5. messages'[k] = <<messages'[j][1], "user">>
      BY <1>5, <3>1, <3>4
    <3>6. ASSUME NEW i \in DOMAIN messages', messages'[i] = messages'[j]
          PROVE  i = j
      <4>1. i # Len(messages) + 1
        BY <3>3, <3>6
      <4>2. i \in 1..Len(messages)
        <5>1. i \in 1..(Len(messages) + 1) /\ Len(messages) \in Nat
          BY <1>5
        <5> QED
          BY <4>1, <5>1
      <4>3. messages[i] = messages[j]
        BY <1>5, <3>1, <3>6, <4>2
      <4> QED
        BY <3>2, <4>2, <4>3
    <3> QED
      BY <3>5, <3>6
  <2> QED
    BY <2>4, <2>5
<1>10. NothingAfterDelete'
  BY <1>1, <1>6 DEF NothingAfterDelete
<1>11. Accounted(t)'
  BY <1>2, <1>4, <1>6 DEF Accounted, Answering
<1>12. Conversed(t)'
  BY <1>1, <1>2, <1>4, <1>5, <1>6 DEF Conversed, Answering
<1> QED
  BY <1>2, <1>7, <1>8, <1>9, <1>10, <1>11, <1>12, TurnKeeps

\* A deletion takes the messages, and waits for a reply that is being stored.
LEMMA DeleteKeeps ==
    ASSUME Invariant, Delete
    PROVE  Invariant'
<1>1. /\ exists' = FALSE /\ messages' = <<>> /\ title' = title /\ turn' = turn
      /\ flushed' = flushed /\ rows' = rows /\ calls' = calls /\ counted' = counted
      /\ faults' = faults
      /\ \A t \in Turns : turn[t].pc \notin {"recording", "committing"}
  BY DEF Delete
<1>2. TypeOK'
  <2>1. exists' \in BOOLEAN
    BY <1>1
  <2>2. messages' \in Seq(ChatMessage)
    BY <1>1
  <2>3. TypeOK
    BY DEF Invariant
  <2> QED
    BY <1>1, <2>1, <2>2, <2>3, Zenon DEF TypeOK
<1>3. InOrder' /\ NothingAfterDelete'
  BY <1>1 DEF InOrder, NothingAfterDelete
<1>4. ASSUME NEW t \in Turns
      PROVE  /\ turn'[t].pc = "tools" => turn'[t].searches > 0
             /\ Accounted(t)' /\ Conversed(t)'
  <2>1. /\ CallsOf(t)' = CallsOf(t) /\ StreamCall(t)' = StreamCall(t)
        /\ ~Stored(t, "assistant")'
    BY <1>1 DEF CallsOf, StreamCall, Stored
  <2>2. Accounted(t) /\ (turn[t].pc = "tools" => turn[t].searches > 0)
    BY DEF Invariant
  <2>3. Accounted(t)'
    BY <1>1, <2>1, <2>2 DEF Accounted
  <2>4. Conversed(t)'
    BY <1>1, <2>1 DEF Conversed
  <2> QED
    BY <1>1, <2>2, <2>3, <2>4
<1> QED
  BY <1>2, <1>3, <1>4 DEF Invariant

\* A stream that ends in an error or is closed.
LEMMA InterruptedKeeps ==
    ASSUME Invariant, NEW t \in Turns, StreamFails(t) \/ ClientGone(t)
    PROVE  Invariant'
<1>1. /\ turn[t].pc = "streaming" /\ Go(t, "over")
      /\ UNCHANGED <<exists, title, messages, calls, counted, faults>>
      /\ flushed' = [flushed EXCEPT ![t] = {}]
  BY DEF StreamFails, ClientGone, CommitRows, RollBack
<1>2. /\ rows \subseteq rows' /\ rows' \subseteq rows \cup flushed[t] \cup {StreamCall(t)}
      /\ faults \cap {"gone", "cancel", "tool"} = {} =>
            rows' = rows \cup flushed[t] \cup {StreamCall(t)}
  BY DEF StreamFails, ClientGone, CommitRows
<1> QED
  BY <1>1, <1>2, BrokenKeeps

\* A turn that is dropped without a commit.
LEMMA DroppedKeeps ==
    ASSUME Invariant, NEW t \in Turns, SearchFails(t) \/ Cancelled(t)
    PROVE  Invariant'
<1>1. /\ RollBack(t) /\ Go(t, "over") /\ turn[t].pc \notin {"new", "over"}
      /\ UNCHANGED <<exists, title, messages, rows, calls, counted, faults>>
      /\ faults \cap {"gone", "cancel", "tool"} # {}
  BY DEF SearchFails, Cancelled
<1> QED
  BY <1>1, RolledBackKeeps
-----------------------------------------------------------------------------
(* The theorems                                                             *)

LEMMA InitKeeps == Init => Invariant
<1> SUFFICES ASSUME Init PROVE Invariant
  OBVIOUS
<1>1. TypeOK
  <2>1. [pc |-> "new", round |-> 0, searches |-> 0, loaded |-> DEFAULT_TITLE] \in Turn
    BY ChatTurnAssumption DEF Turn, Phases, Rounds
  <2>2. turn \in [Turns -> Turn] /\ flushed \in [Turns -> SUBSET Call]
    BY <2>1 DEF Init
  <2>3. messages \in Seq(ChatMessage)
    BY DEF Init
  <2>4. exists \in BOOLEAN
    BY DEF Init
  <2> QED
    BY <2>2, <2>3, <2>4 DEF Init, TypeOK
<1>2. InOrder /\ NothingAfterDelete
  BY DEF Init, InOrder, NothingAfterDelete
<1>3. ASSUME NEW t \in Turns
      PROVE  /\ turn[t].pc = "tools" => turn[t].searches > 0
             /\ Accounted(t) /\ Conversed(t)
  <2>1. turn[t].pc = "new" /\ CallsOf(t) = {} /\ ~Stored(t, "assistant")
    BY DEF Init, CallsOf, Stored
  <2> QED
    BY <2>1 DEF Accounted, Conversed, Answering
<1> QED
  BY <1>1, <1>2, <1>3 DEF Invariant

LEMMA StepKeeps == Invariant /\ [Next]_vars => Invariant'
<1> SUFFICES ASSUME Invariant, [Next]_vars PROVE Invariant'
  OBVIOUS
<1>1. CASE UNCHANGED vars
  BY <1>1 DEF vars, Invariant, TypeOK, InOrder, NothingAfterDelete, Accounted, Conversed,
              CallsOf, StreamCall, Stored
<1>2. ASSUME NEW t \in Turns, Open(t) \/ Step(t) \/ Trouble(t)
      PROVE  Invariant'
  <2>1. CASE Open(t)
    BY <2>1, OpenKeeps
  <2>2. CASE Ask(t) \/ StartRound(t) \/ RoundsExhausted(t) \/ EndStream(t)
    BY <2>2, AskKeeps, StartKeeps, ExhaustedKeeps, EndKeeps
  <2>3. CASE RunSearch(t) \/ SaveReply(t) \/ RecordTokens(t) \/ CommitReply(t)
    BY <2>3, SearchKeeps, SaveKeeps, RecordKeeps, CommitKeeps
  <2>4. CASE Trouble(t)
    BY <2>4, InterruptedKeeps, DroppedKeeps DEF Trouble
  <2> QED
    BY <1>2, <2>1, <2>2, <2>3, <2>4 DEF Step
<1>3. CASE Delete
  BY <1>3, DeleteKeeps
<1> QED
  BY <1>1, <1>2, <1>3 DEF Next

LEMMA Holds == Spec => []Invariant
  BY InitKeeps, StepKeeps, PTL DEF Spec

\* Every variable keeps its type: the rounds and searches of a turn stay within
\* their bounds (run_agent's loop over MAX_TOOL_ROUNDS).
THEOREM TurnTypes == Spec => []TypeOK
<1>1. Invariant => TypeOK
  BY DEF Invariant
<1> QED
  BY <1>1, Holds, PTL

\* Whatever fails and however turns interleave, a reply in the conversation has a
\* committed usage row for every provider call and embedding of its turn
\* (send_message's one commit of the reply and the rows).
THEOREM RepliesArePaid == Spec => []RepliedMeansRecorded
<1>1. Invariant => RepliedMeansRecorded
  BY DEF Invariant, Conversed, RepliedMeansRecorded
<1> QED
  BY <1>1, Holds, PTL

\* Failing streams alone lose no usage row: the partial row is committed with the
\* rows of the rounds before it (UsageService._record_partial).
THEOREM FailuresArePaid == Spec => []InterruptedIsRecorded
<1>1. Invariant => InterruptedIsRecorded
  BY DEF Invariant, Accounted, InterruptedIsRecorded
<1> QED
  BY <1>1, Holds, PTL

\* A provider is called only for a stored question, which is never lost while the
\* conversation exists; its reply comes once and after it (send_message).
THEOREM QuestionsAreKept == Spec => []QuestionKept
<1>1. Invariant => QuestionKept
  BY DEF Invariant, InOrder, Conversed, QuestionKept
<1> QED
  BY <1>1, Holds, PTL

\* No turn that runs beside a deletion leaves a message behind
\* (delete_conversation and the foreign key of chat_messages).
THEOREM DeletedIsEmpty == Spec => []NothingAfterDelete
<1>1. Invariant => NothingAfterDelete
  BY DEF Invariant
<1> QED
  BY <1>1, Holds, PTL

\* While Redis answers, no stored reply is missing from the daily token counter
\* (send_message counts before it commits).
THEOREM StoredIsCounted == Spec => []RepliesAreCounted
<1>1. Invariant => RepliesAreCounted
  BY DEF Invariant, Conversed, RepliesAreCounted
<1> QED
  BY <1>1, Holds, PTL

\* The question comes before its reply, and a deleted conversation has neither
\* (send_message, delete_conversation).
THEOREM ConversationsAreKept == Spec => []ConversationKept
<1>1. TypeOK /\ QuestionKept /\ NothingAfterDelete => ConversationKept
  BY DEF ConversationKept
<1> QED
  BY <1>1, TurnTypes, QuestionsAreKept, DeletedIsEmpty, PTL

\* What a turn cost is on the books, with its reply or with its failed stream
\* (UsageService.tracked_stream, record_tokens).
THEOREM TurnsAreBooked == Spec => []BooksAreKept
<1>1. RepliedMeansRecorded /\ InterruptedIsRecorded /\ RepliesAreCounted => BooksAreKept
  BY DEF BooksAreKept
<1> QED
  BY <1>1, RepliesArePaid, FailuresArePaid, StoredIsCounted, PTL
-----------------------------------------------------------------------------
(* The title                                                                *)

Resting == {"new", "over"}

\* Where turns do not overlap one at most is on its way, and before its message is
\* stored it has loaded the title there is.
OneTurn ==
    "overlap" \notin faults =>
        /\ \A t, u \in Turns : turn[t].pc \notin Resting /\ turn[u].pc \notin Resting => t = u
        /\ \A t \in Turns : turn[t].pc = "asking" => turn[t].loaded = title

LEMMA PhaseAndMore ==
    ASSUME NEW q \in Turn, NEW phase \in Phases, NEW n
    PROVE  /\ [q EXCEPT !.pc = phase, !.round = n].pc = phase
           /\ [q EXCEPT !.pc = phase, !.searches = n].pc = phase
  BY DEF Turn

\* A turn that goes on leaves the others alone, and does not ask a second time.
LEMMA TurnGoesOn ==
    ASSUME TypeOK, NEW t \in Turns, Step(t) \/ Trouble(t)
    PROVE  /\ turn[t].pc \notin Resting /\ turn'[t].pc # "asking"
           /\ \A u \in Turns \ {t} : turn'[u] = turn[u]
           /\ faults' = faults
           /\ title' = title \/ Ask(t)
<1>1. /\ turn[t].pc \notin Resting /\ faults' = faults /\ (title' = title \/ Ask(t))
  BY DEF Step, Trouble, Ask, StartRound, RoundsExhausted, EndStream, RunSearch, SaveReply,
         RecordTokens, CommitReply, StreamFails, ClientGone, SearchFails, Cancelled, Resting
<1>2. \E phase \in Phases \ {"asking"} :
         \/ Go(t, phase)
         \/ \E n : turn' = [turn EXCEPT ![t].pc = phase, ![t].round = n]
         \/ \E n : turn' = [turn EXCEPT ![t].pc = phase, ![t].searches = n]
  <2>1. CASE StartRound(t)
    <3>1. turn' = [turn EXCEPT ![t].pc = "streaming", ![t].round = NextRound(t)]
      BY <2>1 DEF StartRound
    <3>2. "streaming" \in Phases \ {"asking"}
      BY DEF Phases
    <3> QED
      BY <3>1, <3>2, Zenon
  <2>2. CASE EndStream(t)
    BY <2>2 DEF EndStream, Phases
  <2>3. CASE RunSearch(t)
    BY <2>3 DEF RunSearch, Phases
  <2>4. CASE Ask(t) \/ RoundsExhausted(t) \/ SaveReply(t) \/ RecordTokens(t)
             \/ CommitReply(t) \/ Trouble(t)
    BY <2>4 DEF Ask, RoundsExhausted, SaveReply, RecordTokens, CommitReply, Trouble,
       StreamFails, ClientGone, SearchFails, Cancelled, Phases
  <2> QED
    BY <2>1, <2>2, <2>3, <2>4 DEF Step
<1>3. PICK phase \in Phases \ {"asking"} :
         \/ Go(t, phase)
         \/ \E n : turn' = [turn EXCEPT ![t].pc = phase, ![t].round = n]
         \/ \E n : turn' = [turn EXCEPT ![t].pc = phase, ![t].searches = n]
  BY <1>2
<1>4. turn'[t].pc = phase /\ \A u \in Turns \ {t} : turn'[u] = turn[u]
  <2>1. turn \in [Turns -> Turn] /\ turn[t] \in Turn
    BY DEF TypeOK
  <2>2. CASE Go(t, phase)
    BY <2>2, Goes
  <2>3. ASSUME NEW n, turn' = [turn EXCEPT ![t].pc = phase, ![t].round = n]
        PROVE  turn'[t].pc = phase /\ \A u \in Turns \ {t} : turn'[u] = turn[u]
    <3> DEFINE p == [turn[t] EXCEPT !.pc = phase, !.round = n]
    <3>1. turn' = [turn EXCEPT ![t] = p]
      BY <2>1, <2>3, ZenonT(30)
    <3>2. p.pc = phase
      BY <2>1, PhaseAndMore
    <3> HIDE DEF p
    <3> QED
      BY <2>1, <3>1, <3>2
  <2>4. ASSUME NEW n, turn' = [turn EXCEPT ![t].pc = phase, ![t].searches = n]
        PROVE  turn'[t].pc = phase /\ \A u \in Turns \ {t} : turn'[u] = turn[u]
    <3> DEFINE p == [turn[t] EXCEPT !.pc = phase, !.searches = n]
    <3>1. turn' = [turn EXCEPT ![t] = p]
      BY <2>1, <2>4, ZenonT(30)
    <3>2. p.pc = phase
      BY <2>1, PhaseAndMore
    <3> HIDE DEF p
    <3> QED
      BY <2>1, <3>1, <3>2
  <2> QED
    BY <1>3, <2>2, <2>3, <2>4
<1> QED
  BY <1>1, <1>4

LEMMA OneTurnStays == TypeOK /\ OneTurn /\ [Next]_vars => OneTurn'
<1> SUFFICES ASSUME TypeOK, OneTurn, [Next]_vars, "overlap" \notin faults'
             PROVE  /\ \A t, u \in Turns : turn'[t].pc \notin Resting /\ turn'[u].pc \notin Resting
                                              => t = u
                    /\ \A t \in Turns : turn'[t].pc = "asking" => turn'[t].loaded = title'
  BY DEF OneTurn
<1>1. ASSUME NEW t \in Turns, Step(t) \/ Trouble(t)
      PROVE  /\ \A s, u \in Turns : turn'[s].pc \notin Resting /\ turn'[u].pc \notin Resting
                                       => s = u
             /\ \A u \in Turns : turn'[u].pc = "asking" => turn'[u].loaded = title'
  <2>1. /\ turn[t].pc \notin Resting /\ turn'[t].pc # "asking" /\ faults' = faults
        /\ \A u \in Turns \ {t} : turn'[u] = turn[u]
    BY <1>1, TurnGoesOn
  <2>2. \A u \in Turns \ {t} : turn[u].pc \in Resting
    BY <2>1 DEF OneTurn
  <2> QED
    BY <2>1, <2>2 DEF Resting
<1>2. ASSUME NEW t \in Turns, Open(t)
      PROVE  /\ \A s, u \in Turns : turn'[s].pc \notin Resting /\ turn'[u].pc \notin Resting
                                       => s = u
             /\ \A u \in Turns : turn'[u].pc = "asking" => turn'[u].loaded = title'
  <2> DEFINE p == [turn[t] EXCEPT !.pc = "asking", !.loaded = title]
  <2>1. /\ title' = title /\ faults' = faults
        /\ \A u \in Turns : turn[u].pc \in Resting
        /\ turn' = [turn EXCEPT ![t].pc = "asking", ![t].loaded = title]
    BY <1>2 DEF Open, Resting
  <2>2. turn \in [Turns -> Turn] /\ turn[t] \in Turn
    BY DEF TypeOK
  <2>3. p.pc = "asking" /\ p.loaded = title
    BY <2>2 DEF Turn
  <2>4. turn' = [turn EXCEPT ![t] = p]
    BY <2>1, <2>2, ZenonT(30)
  <2> HIDE DEF p
  <2>5. turn'[t] = p /\ \A u \in Turns \ {t} : turn'[u] = turn[u]
    BY <2>2, <2>4
  <2> QED
    BY <2>1, <2>3, <2>5 DEF Resting
<1>3. CASE Delete \/ UNCHANGED vars
  BY <1>3 DEF Delete, vars, OneTurn
<1> QED
  BY <1>1, <1>2, <1>3 DEF Next

\* Where turns do not overlap, a conversation that has been named keeps its name,
\* whatever fails (ChatService.maybe_autotitle).
THEOREM NamesStay == Spec => NamedOnce
<1> DEFINE Keeps == title # DEFAULT_TITLE /\ "overlap" \notin faults => title' = title
<1>1. Init => OneTurn
  BY DEF Init, OneTurn, Resting
<1>2. TypeOK /\ OneTurn /\ [Next]_vars => [Keeps]_vars
  <2> SUFFICES ASSUME TypeOK, OneTurn, Next, title # DEFAULT_TITLE, "overlap" \notin faults
               PROVE  title' = title
    OBVIOUS
  <2>1. ASSUME NEW t \in Turns, Ask(t) PROVE title' = title
    BY <2>1 DEF Ask, Title, OneTurn
  <2>2. title' = title \/ \E t \in Turns : Ask(t)
    BY TurnGoesOn DEF Next, Open, Delete
  <2> QED
    BY <2>1, <2>2
<1>3. Spec => []OneTurn
  BY <1>1, OneTurnStays, TurnTypes, PTL DEF Spec
<1> QED
  BY <1>2, <1>3, TurnTypes, PTL DEF Spec, NamedOnce
=============================================================================
