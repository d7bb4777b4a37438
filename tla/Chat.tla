-------------------------------- MODULE Chat --------------------------------
(***************************************************************************)
(* The chat over websockets: sessions, the channel manager that stores and *)
(* broadcasts messages, the turns (one future per question), and the       *)
(* memory actor they ask.                                                  *)
(***************************************************************************)
EXTENDS Naturals, Sequences, SequencesExt

CONSTANTS Sessions,   \* websocket connections
          Turns,      \* questions
          Notes,      \* notifications of the task system
          MaxReplies, \* bound on the messages of one answer
          NoSession,
          MaxMishaps  \* bound on crashes and database errors

ASSUME ChatAssumption ==
    /\ Turns \cap Notes = {} /\ NoSession \notin Sessions
    /\ MaxReplies \in Nat \ {0} /\ MaxMishaps \in Nat

\* Part 0 of a turn is its question, part i the i-th message of the answer.
Parts == 0..MaxReplies
Messages == (Turns \X Parts) \cup (Notes \X {0})
IsNote(m) == m[1] \in Notes
Failure == MaxReplies + 1

VARIABLES session,     \* ChatWsSession actors
          mail,        \* mailbox of ChannelManagerActor
          queue,       \* the notes it has to broadcast
          subscribers,
          inserting,   \* SaveMessage futures
          table,       \* channel_messages: the parts of a turn or a note, as inserted
          shown,       \* frames on their way to a client or there
          turn,
          memory,      \* AgentMemoryActor
          mishaps,
          unsaved,     \* history: messages whose INSERT failed
          accepted,    \* history: notes the channel has taken, in order
          owed,        \* history: notes taken while nobody was subscribed
          due          \* history: notes a subscriber has to be sent

channelVars == <<queue, subscribers, inserting, accepted, owed, due>>
chatVars == <<session, mail, channelVars, table, shown, turn, memory,
              mishaps, unsaved>>

\* How a message gets to a session: broadcast by the channel manager, or pushed
\* by the turn.
Frame == [how : {"event", "push"}, msg : Messages \cup (Turns \X {Failure})]
Event(m) == [how |-> "event", msg |-> m]
Push(m) == [how |-> "push", msg |-> m]

Request == [op : {"subscribe", "unsubscribe"}, arg : Sessions]
           \cup [op : {"save"}, arg : Messages]

IdleTurn == [pc |-> "idle", session |-> NoSession, named |-> FALSE,
             replies |-> 0, part |-> 0]

ChatInit ==
    /\ session = [s \in Sessions |-> "none"]
    /\ mail = <<>> /\ queue = <<>> /\ subscribers = {} /\ inserting = {}
    /\ table = [k \in Turns \cup Notes |-> <<>>]
    /\ memory = "up" /\ mishaps = 0
    /\ shown = [s \in Sessions |-> <<>>]
    /\ turn = [t \in Turns |-> IdleTurn]
    /\ unsaved = {} /\ accepted = <<>> /\ owed = {}
    /\ due = [s \in Sessions |-> {}]

Mishap == mishaps < MaxMishaps /\ mishaps' = mishaps + 1
Deliver(op, arg) == mail' = Append(mail, [op |-> op, arg |-> arg])

-----------------------------------------------------------------------------
\* Sessions.

Connect(s) ==
    /\ session[s] = "none"
    /\ session' = [session EXCEPT ![s] = "open"]
    /\ Deliver("subscribe", s)
    /\ UNCHANGED <<channelVars, table, shown, turn, memory, mishaps, unsaved>>

\* The actor's mailbox goes with it; its turns go on.
Disconnect(s) ==
    /\ session[s] = "open"
    /\ session' = [session EXCEPT ![s] = "closed"]
    /\ Deliver("unsubscribe", s)
    /\ shown' = [shown EXCEPT ![s] = <<>>]
    /\ UNCHANGED <<channelVars, table, turn, memory, mishaps, unsaved>>

\* The session's mailbox and handlers keep the order; do_send to a session that
\* has gone does nothing.
Send(to, frames) ==
    shown' = [s \in Sessions |-> IF s \in to /\ session[s] = "open"
                                 THEN shown[s] \o frames ELSE shown[s]]

-----------------------------------------------------------------------------
\* ChannelManagerActor.

\* The orchestrator's do_send(SaveMessage).
Notify(n) ==
    /\ ~ \E i \in DOMAIN mail : mail[i].arg = <<n, 0>>
    /\ ~ \E i \in DOMAIN accepted : accepted[i] = n
    /\ Deliver("save", <<n, 0>>)
    /\ UNCHANGED <<session, channelVars, table, shown, turn, memory, mishaps,
                   unsaved>>

HandleSubscribe ==
    /\ mail # <<>> /\ Head(mail).op = "subscribe"
    /\ subscribers' = subscribers \cup {Head(mail).arg}
    /\ due' = [due EXCEPT ![Head(mail).arg] = owed]
    /\ owed' = {}
    /\ mail' = Tail(mail)
    /\ UNCHANGED <<session, queue, inserting, accepted, table, shown, turn,
                   memory, mishaps, unsaved>>

HandleUnsubscribe ==
    /\ mail # <<>> /\ Head(mail).op = "unsubscribe"
    /\ subscribers' = subscribers \ {Head(mail).arg}
    /\ mail' = Tail(mail)
    /\ UNCHANGED <<session, queue, inserting, accepted, owed, due, table, shown, turn, memory, mishaps, unsaved>>

\* Queued for broadcast at once, inserted by a future.  Questions and answers
\* are broadcast too, and the sessions do not show them: they are left out here.
HandleSave ==
    /\ mail # <<>> /\ Head(mail).op = "save"
    /\ LET m == Head(mail).arg
       IN  /\ queue' = IF IsNote(m) THEN Append(queue, m[1]) ELSE queue
           /\ inserting' = inserting \cup {m}
           /\ accepted' = IF IsNote(m) THEN Append(accepted, m[1]) ELSE accepted
           /\ owed' = IF IsNote(m) /\ subscribers = {} THEN owed \cup {m[1]} ELSE owed
           /\ due' = [s \in Sessions |-> IF IsNote(m) /\ s \in subscribers
                                         THEN due[s] \cup {m[1]} ELSE due[s]]
    /\ mail' = Tail(mail)
    /\ UNCHANGED <<session, subscribers, table, shown, turn, memory, mishaps,
                   unsaved>>

Broadcast == [i \in DOMAIN queue |-> Event(<<queue[i], 0>>)]

\* Mutant of Flush: the queue is emptied whether or not anybody listens.
FlushAlways ==
    /\ queue # <<>>
    /\ Send(subscribers, Broadcast)
    /\ queue' = <<>>
    /\ UNCHANGED <<session, mail, subscribers, inserting, accepted, owed, due, table,
                   turn, memory, mishaps, unsaved>>

\* Every 500 ms.
Flush ==
    /\ queue # <<>> /\ subscribers # {}
    /\ Send(subscribers, Broadcast)
    /\ queue' = <<>>
    /\ UNCHANGED <<session, mail, subscribers, inserting, accepted, owed, due, table,
                   turn, memory, mishaps, unsaved>>

InsertDone(m) ==
    /\ m \in inserting
    /\ inserting' = inserting \ {m}
    /\ table' = [table EXCEPT ![m[1]] = Append(@, m[2])]
    /\ UNCHANGED <<session, mail, queue, subscribers, accepted, owed, due, shown, turn, memory, mishaps, unsaved>>

InsertFails(m) ==
    /\ m \in inserting
    /\ Mishap
    /\ inserting' = inserting \ {m}
    /\ unsaved' = unsaved \cup {m}
    /\ UNCHANGED <<session, mail, queue, subscribers, accepted, owed, due, table,
                   shown, turn, memory>>

-----------------------------------------------------------------------------
\* A turn, a future of its own.

TurnMoves(t, new) ==
    /\ turn' = [turn EXCEPT ![t] = new]
    /\ UNCHANGED <<session, channelVars, table>>

Ask(t, s) ==
    /\ turn[t].pc = "idle" /\ session[s] = "open"
    /\ TurnMoves(t, [IdleTurn EXCEPT !.pc = "name", !.session = s])
    /\ UNCHANGED <<mail, shown, memory, mishaps, unsaved>>

\* Without the memory actor the name is a fixed one.
SaveQuestion(t) ==
    /\ turn[t].pc = "name"
    /\ TurnMoves(t, [turn[t] EXCEPT !.pc = "save", !.named = (memory = "up")])
    /\ Deliver("save", <<t, 0>>)
    /\ UNCHANGED <<shown, memory, mishaps, unsaved>>

\* The reply of the channel manager is there; an error in it is ignored.
Settled(m) == Contains(table[m[1]], m[2]) \/ m \in unsaved

\* Mutant of AskAgent: the question is saved without waiting for it.
AskAgentAtOnce(t) ==
    /\ turn[t].pc = "save"
    /\ TurnMoves(t, [turn[t] EXCEPT !.pc = "prompt"])
    /\ UNCHANGED <<mail, shown, memory, mishaps, unsaved>>

AskAgent(t) ==
    /\ turn[t].pc = "save" /\ Settled(<<t, 0>>)
    /\ TurnMoves(t, [turn[t] EXCEPT !.pc = "prompt"])
    /\ UNCHANGED <<mail, shown, memory, mishaps, unsaved>>

Refuse(t) ==
    /\ Send({turn[t].session}, <<Push(<<t, Failure>>)>>)
    /\ TurnMoves(t, [turn[t] EXCEPT !.pc = "done"])
    /\ UNCHANGED <<mail, memory, mishaps, unsaved>>

\* The agent's future asks for the name once more and unwraps the reply.
PromptName(t) ==
    /\ turn[t].pc = "prompt" /\ memory = "up"
    /\ TurnMoves(t, [turn[t] EXCEPT !.pc = "recall"])
    /\ UNCHANGED <<mail, shown, memory, mishaps, unsaved>>

\* Mutant of PromptPanics: the session does not see that the future has died.
PromptStops(t) ==
    /\ turn[t].pc = "prompt" /\ memory = "down"
    /\ TurnMoves(t, [turn[t] EXCEPT !.pc = "done"])
    /\ UNCHANGED <<mail, shown, memory, mishaps, unsaved>>

PromptPanics(t) ==
    /\ turn[t].pc = "prompt" /\ memory = "down"
    /\ Refuse(t)

\* The history and the summary of the memory; errors are replaced by texts.
\* Task classification follows, whose failure counts as no task.
Recall(t) ==
    /\ turn[t].pc = "recall"
    /\ TurnMoves(t, [turn[t] EXCEPT !.pc = "answer"])
    /\ UNCHANGED <<mail, shown, memory, mishaps, unsaved>>

\* The handler of QueryMemory runs on its actor and unwraps the graph's reply:
\* the actor dies, and nothing starts another.
RecallFails(t) ==
    /\ turn[t].pc = "recall" /\ memory = "up"
    /\ Mishap
    /\ memory' = "down"
    /\ TurnMoves(t, [turn[t] EXCEPT !.pc = "answer"])
    /\ UNCHANGED <<mail, shown, unsaved>>

\* The model's reply is a list of messages, which may be empty.
Answer(t) ==
    /\ turn[t].pc = "answer"
    /\ \E k \in Parts :
         TurnMoves(t, [turn[t] EXCEPT !.pc = IF k = 0 THEN "empty" ELSE "reply",
                                      !.replies = k, !.part = IF k = 0 THEN 0 ELSE 1])
    /\ UNCHANGED <<mail, shown, memory, mishaps, unsaved>>

\* All attempts fail, or the reply cannot be parsed.
AnswerFails(t) ==
    /\ turn[t].pc = "answer"
    /\ Refuse(t)

SaveReply(t) ==
    /\ turn[t].pc = "reply"
    /\ TurnMoves(t, [turn[t] EXCEPT !.pc = "push"])
    /\ Deliver("save", <<t, turn[t].part>>)
    /\ UNCHANGED <<shown, memory, mishaps, unsaved>>

\* Mutant of PushAndGoOn: one message more than there are.
PushTooMany(t) ==
    /\ Send({turn[t].session}, <<Push(<<t, turn[t].part>>)>>)
    /\ TurnMoves(t, IF turn[t].part > turn[t].replies
                    THEN [turn[t] EXCEPT !.pc = "done"]
                    ELSE [turn[t] EXCEPT !.pc = "reply", !.part = @ + 1])
    /\ UNCHANGED <<mail, memory, mishaps, unsaved>>

PushAndGoOn(t) ==
    /\ Send({turn[t].session}, <<Push(<<t, turn[t].part>>)>>)
    /\ TurnMoves(t, IF turn[t].part = turn[t].replies
                    THEN [turn[t] EXCEPT !.pc = "done"]
                    ELSE [turn[t] EXCEPT !.pc = "reply", !.part = @ + 1])
    /\ UNCHANGED <<mail, memory, mishaps, unsaved>>

\* Mutant of PushReply: the message is pushed while it is being saved.
PushUnsaved(t) == turn[t].pc = "push" /\ PushAndGoOn(t)

PushReply(t) == turn[t].pc = "push" /\ Settled(<<t, turn[t].part>>) /\ PushAndGoOn(t)

\* The process dies and is started again; the table is what remains.
Restart ==
    /\ Mishap
    /\ session' = [s \in Sessions |-> IF session[s] = "none" THEN "none" ELSE "closed"]
    /\ mail' = <<>> /\ queue' = <<>> /\ subscribers' = {} /\ inserting' = {}
    /\ shown' = [s \in Sessions |-> <<>>]
    /\ turn' = [t \in Turns |-> IF turn[t].pc \in {"idle", "empty", "done"} THEN turn[t]
                                ELSE [turn[t] EXCEPT !.pc = "gone"]]
    /\ memory' = "up"
    /\ owed' = {} /\ due' = [s \in Sessions |-> {}]
    /\ UNCHANGED <<table, unsaved, accepted>>

-----------------------------------------------------------------------------
TurnStep(t) ==
    \/ SaveQuestion(t) \/ AskAgent(t) \/ PromptName(t) \/ PromptPanics(t)
    \/ Recall(t) \/ Answer(t) \/ AnswerFails(t) \/ SaveReply(t) \/ PushReply(t)

ChannelStep ==
    \/ HandleSubscribe \/ HandleUnsubscribe \/ HandleSave \/ Flush
    \/ \E m \in Messages : InsertDone(m)

ChatNext ==
    \/ \E s \in Sessions : Connect(s) \/ Disconnect(s)
    \/ \E n \in Notes : Notify(n)
    \/ ChannelStep
    \/ \E m \in Messages : InsertFails(m)
    \/ \E t \in Turns, s \in Sessions : Ask(t, s)
    \/ \E t \in Turns : TurnStep(t) \/ RecallFails(t)
    \/ Restart

ChatSpec == ChatInit /\ [][ChatNext]_chatVars

\* Mailboxes are served, futures polled, statements answered.
ChatFairness ==
    /\ WF_chatVars(HandleSubscribe) /\ WF_chatVars(HandleUnsubscribe)
    /\ WF_chatVars(HandleSave)
    /\ \A m \in Messages : WF_chatVars(InsertDone(m))
    /\ \A t \in Turns : WF_chatVars(TurnStep(t))

FairChatSpec == ChatSpec /\ ChatFairness

-----------------------------------------------------------------------------
(***************************************************************************)
(* Properties                                                              *)
(***************************************************************************)
Turn == [pc : {"idle", "name", "save", "prompt", "recall", "answer", "reply", "push",
               "empty", "done", "gone"},
         session : Sessions \cup {NoSession}, named : BOOLEAN,
         replies : Parts, part : Parts]

\* Types of the sessions, the channel, the table and the turns.
ChatTypeOK ==
    /\ session \in [Sessions -> {"none", "open", "closed"}]
    /\ mail \in Seq(Request) /\ queue \in Seq(Notes)
    /\ table \in [Turns \cup Notes -> Seq(Parts)]
    /\ subscribers \subseteq Sessions /\ inserting \subseteq Messages
    /\ shown \in [Sessions -> Seq(Frame)]
    /\ turn \in [Turns -> Turn]
    /\ memory \in {"up", "down"} /\ mishaps \in 0..MaxMishaps
    /\ unsaved \subseteq Messages
    /\ accepted \in Seq(Notes) /\ owed \subseteq Notes
    /\ due \in [Sessions -> SUBSET Notes]

SentTo(s, n) == Contains(shown[s], Event(<<n, 0>>))

\* The notifications a session shows, by their places among those accepted.
Place(s, k) == CHOOSE p \in DOMAIN accepted : accepted[p] = shown[s][k].msg[1]
NotesInOrder(s) ==
    \A i, j \in DOMAIN shown[s] :
        i < j /\ IsNote(shown[s][i].msg) /\ IsNote(shown[s][j].msg)
        => Place(s, i) < Place(s, j)

\* A notification that comes while a session is subscribed is sent to it, and one
\* that comes while nobody is subscribed waits for the next subscriber; a session
\* shows them in the order in which the channel manager took them, none twice.
SubscribersMissNothing ==
    /\ \A s \in subscribers : session[s] = "open" =>
          \A n \in due[s] : Contains(queue, n) \/ SentTo(s, n)
    /\ \A s \in Sessions : NotesInOrder(s)

\* What a client sees as an answer it will find in the history too, unless the
\* database refused it: stored, and under the assistant's name, without which the
\* history leaves it out.
PushedIsSaved ==
    \A s \in Sessions : \A i \in DOMAIN shown[s] :
        LET f == shown[s][i]
        IN  f.how = "push" /\ f.msg[2] # Failure => Settled(f.msg) /\ turn[f.msg[1]].named

\* The history holds the parts of a turn in their order, the question first.
TranscriptInOrder ==
    \A t \in Turns : \A i, j \in DOMAIN table[t] : i < j => table[t][i] < table[t][j]

Answered(t) ==
    \E s \in Sessions :
        /\ turn[t].session = s
        /\ \/ session[s] = "closed"
           \/ \E i \in DOMAIN shown[s] : shown[s][i].how = "push" /\ shown[s][i].msg[1] = t

\* Every question gets a reply or an error, unless the model replies with an
\* empty list or the process dies; the loss of the memory actor is no excuse.
AskedIsAnswered ==
    \A t \in Turns : turn[t].pc = "name" ~>
        Answered(t) \/ turn[t].pc = "empty" \/ turn[t].pc = "gone"
=============================================================================
